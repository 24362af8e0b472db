--------------------------- MODULE MCActionLifecycle ---------------------------
(* Small instances of ActionLifecycle: pages to begin with, and requests. *)
EXTENDS ActionLifecycle, TLC

CONSTANTS c1, c2, Instants

\* Minutes are half days here: the operator is at UTC or a day west of it.
MCOffsets == {-2, 0}

MCClients == {c1, c2}
MCSymmetry == Permutations(MCClients)

OldBody == [text |-> 1, dup |-> TRUE, end |-> FALSE]
NewBody == [text |-> 2, dup |-> TRUE, end |-> FALSE]

NewPage ==
    [rev |-> 1, state |-> "open", legacy |-> FALSE, title |-> 1, body |-> OldBody,
     next |-> 1, why |-> 0, comp |-> 0, canc |-> 0, done_at |-> 0, talk |-> <<>>,
     updated |-> 2, hist |-> <<>>]
\* Without action_state: open, or closed with what its author wrote.
OldPage == [NewPage EXCEPT !.legacy = TRUE, !.updated = NoDate]
ClosedPage == [OldPage EXCEPT !.state = "done", !.next = 0]
\* Its last receipt is of an older version, dated in UTC.
KnownPage ==
    [NewPage EXCEPT
        !.state = "in_progress",
        !.hist = <<[kind |-> "transition", v |-> 5, from |-> "open",
                    to |-> "in_progress", at |-> 2, offset |-> 0, before |-> 0,
                    reviewed |-> 0,
                    prior |-> 0, ends |-> FALSE, support |-> Support(NewPage),
                    edited |-> FALSE, was |-> Projection(NewPage),
                    is |-> Projection(NewPage), key |-> 0]>>]

MCPages == {NewPage, OldPage, ClosedPage, KnownPage}

Plain(to) ==
    [op |-> "transition", to |-> to, next |-> 0, why |-> 0, comp |-> 0, canc |-> 0,
     talk |-> "none", title |-> 0, body |-> NoBody, key |-> 0]

MoveRequests ==
    {Plain("in_progress"), [Plain("blocked") EXCEPT !.why = 1],
     [Plain("done") EXCEPT !.comp = 1], [Plain("done") EXCEPT !.comp = 2],
     [Plain("cancelled") EXCEPT !.canc = 1],
     \* a move and an edit at once
     [Plain("done") EXCEPT !.comp = 1, !.title = 2]}

Stays ==
    UNION {{[Plain(s) EXCEPT !.next = 2],
            [Plain(s) EXCEPT !.talk = "comment"],
            [Plain(s) EXCEPT !.talk = "direction", !.next = 2],
            [Plain(s) EXCEPT !.title = 2],
            [Plain(s) EXCEPT !.body = [OldBody EXCEPT !.end = TRUE]]} :
              s \in {"open", "in_progress"}}

Contributions ==
    {[Plain("open") EXCEPT !.op = "integrate", !.body = NewBody, !.key = 1],
     [Plain("open") EXCEPT !.op = "consolidate", !.key = 2]}

At(q, at, offset) ==
    [op |-> q.op, to |-> q.to, next |-> q.next, why |-> q.why, comp |-> q.comp,
     canc |-> q.canc, talk |-> q.talk, title |-> q.title, body |-> q.body,
     key |-> q.key, at |-> at, offset |-> offset]

MCRequests ==
    {At(q, at, offset) : q \in MoveRequests \cup Stays \cup Contributions,
                         at \in Instants, offset \in MCOffsets}
===============================================================================
