---------------------------- MODULE ActionLifecycle ----------------------------
(***************************************************************************)
(* The page of one action: wiki_core/action_transition.py, with            *)
(* action_state.py and action_dialogue.py.                                 *)
(*                                                                         *)
(* Writers read the page under the lock of its path, refuse or compute its *)
(* successor with one more receipt, and replace the file.  An editor writes*)
(* the file without the lock.  At any moment the gate of the repository    *)
(* may audit the page against the revision that was merged last.           *)
(*                                                                         *)
(* A text is a record whose rev is its SHA-256: no two texts share one.  A *)
(* receipt is identified by its instant.  next stands for the governed     *)
(* fields every state may have, why for blocker_reason and blocked_by.     *)
(***************************************************************************)
EXTENDS Integers, SequencesExt

CONSTANTS
    Clients,     \* threads and processes that use the writers
    Unread,      \* what a client has read that is not under the lock
    Requests,    \* what they ask for
    InitialPages,
    MaxWrites    \* bound on the writes

VARIABLES
    page,      \* the file
    base,      \* the revision merged last
    text,      \* what each client has read that is under the lock of the page
    reviewed,  \* the revision its request names
    seen,      \* the state the writers had given what it has read
    writes,    \* number of texts written
    honest     \* what the writers made of the base, and whether an editor wrote

actionVars == <<page, base, text, reviewed, seen, writes, honest>>

NonTerminal == {"open", "in_progress", "blocked", "waiting_human"}
Terminal == {"done", "cancelled"}
States == NonTerminal \cup Terminal

ACTION_STATE_TRANSITIONS ==
    [s \in States |->
        CASE s = "open" -> States \ {"open"}
          [] s = "in_progress" -> States \ {"open", "in_progress"}
          [] s = "blocked" -> States \ {"blocked", "done"}
          [] s = "waiting_human" -> States \ {"open", "waiting_human"}
          [] OTHER -> {}]

ValidTransition(s, t) == s = t \/ t \in ACTION_STATE_TRANSITIONS[s]

-------------------------------------------------------------------------------
(* Instants, calendars, receipts.                                          *)

\* Two instants a day; an offset moves an instant in the operator's calendar.
Day(at, offset) == (at + offset) \div 2 + 1

\* Receipts before version 6 keep their UTC calendar.
ReceiptDate(e) == Day(e.at, IF e.v = 6 THEN e.offset ELSE 0)

Editorial == {"comment", "body_consolidation"}
LastAt(hist) == IF hist = <<>> THEN 0 ELSE Last(hist).at
Body(e) == e.kind \in {"body_integration", "body_consolidation"}

\* Receipts are named by their places in the history.
Factual(hist) == {i \in DOMAIN hist : hist[i].kind \notin Editorial}
Latest(places) == CHOOSE i \in places : \A j \in places : j <= i
Earliest(places) == CHOOSE i \in places : \A j \in places : i <= j

NoDate == 0

PriorDate(p, offset, day, preserve) ==
    LET factual == Factual(p.hist)
        last == p.hist[Latest(factual)]
        bound == /\ factual # {} /\ p.updated # NoDate
                 /\ ReceiptDate(last) = p.updated
    IN CASE bound /\ preserve -> NoDate
         [] bound /\ ~preserve /\ p.updated > day /\ last.v # 6 ->
               Day(last.at, offset)
         [] OTHER -> p.updated

Support(p) == [next |-> p.next, why |-> p.why, done_at |-> p.done_at,
               comp |-> p.comp, canc |-> p.canc, talk |-> p.talk]
\* The body without its trailing line ends, and the fields an edit may change.
Projection(p) == [title |-> p.title, body |-> <<p.body.text, p.body.dup>>]

\* _lifecycle_contract_error, of the fields 0 is absent.
Contract(p, s) ==
    /\ (p.next # 0) = (s \in NonTerminal)
    /\ (p.why # 0) = (s = "blocked")
    /\ (p.comp # 0) = (s = "done")
    /\ (p.canc # 0) = (s = "cancelled")
    /\ (p.done_at # 0) = (s \in Terminal)

-------------------------------------------------------------------------------
(* _transition_action_page_locked.                                         *)

Or(new, old) == IF new = 0 THEN old ELSE new

\* A body: its text, perhaps a paragraph that another action has too, perhaps a
\* line end.  NoBody is the body of a request that edits none.
NoBody == [text |-> 0, dup |-> FALSE, end |-> FALSE]

Event(p, q) == [kind |-> q.talk, at |-> q.at, before |-> p.rev]

\* What is supplied, then what the target state does not own is dropped.
Updated(p, q) ==
    LET done == q.to \in Terminal IN
    [p EXCEPT
        !.state = q.to, !.legacy = FALSE,
        !.talk = IF q.talk = "none" THEN @ ELSE Append(@, Event(p, q)),
        !.title = Or(q.title, @),
        !.body = IF q.body = NoBody THEN @ ELSE q.body,
        !.next = IF done THEN 0 ELSE Or(q.next, @),
        !.why = IF q.to = "blocked" THEN Or(q.why, @) ELSE 0,
        !.comp = IF q.to = "done" THEN Or(q.comp, @) ELSE 0,
        !.canc = IF q.to = "cancelled" THEN Or(q.canc, @) ELSE 0,
        !.done_at = CASE ~done -> 0
                      [] done /\ (p.state # q.to \/ @ = 0) -> q.at
                      [] OTHER -> @]

Edits(p, q) == LET u == Updated(p, q) IN u.title # p.title \/ u.body # p.body
StateChanges(p, q) == p.state # q.to \/ p.legacy
Alters(p, q) == Support(Updated(p, q)) # Support(p)
Changes(p, q) == Edits(p, q) \/ StateChanges(p, q) \/ Alters(p, q)

CommentOnly(p, q) ==
    /\ ~StateChanges(p, q) /\ ~Edits(p, q)
    /\ q.talk = "comment"
    /\ Updated(p, q) = [p EXCEPT !.talk = Append(@, Event(p, q))]

Later(p, q) == q.at > LastAt(p.hist)

Timely(p, q, preserve) ==
    LET day == Day(q.at, q.offset) IN day >= PriorDate(p, q.offset, day, preserve)

\* Mutant of Admissible: a terminal receipt may be replaced.
AdmissibleAgain(p, q) ==
    /\ Later(p, q)
    /\ ValidTransition(p.state, q.to)
    /\ q.why # 0 => q.to = "blocked"
    /\ q.comp # 0 => q.to = "done"
    /\ q.canc # 0 => q.to = "cancelled"
    /\ Contract(Updated(p, q), q.to)
    /\ Timely(p, q, CommentOnly(p, q))

Admissible(p, q) ==
    /\ Later(p, q)
    /\ ValidTransition(p.state, q.to)
    /\ q.why # 0 => q.to = "blocked"
    /\ q.comp # 0 => q.to = "done"
    /\ q.canc # 0 => q.to = "cancelled"
    /\ q.talk # "none" => {p.state, q.to} \cap Terminal = {}
    /\ q.title # 0 \/ q.body # NoBody => p.state \notin Terminal
    /\ q.comp # 0 /\ p.comp # 0 => p.comp = q.comp
    /\ q.canc # 0 /\ p.canc # 0 => p.canc = q.canc
    /\ Contract(Updated(p, q), q.to)
    /\ Timely(p, q, CommentOnly(p, q))

Kind(p, q) ==
    CASE CommentOnly(p, q) -> "comment"
      [] p.state # q.to -> "transition"
      [] p.state = q.to /\ p.legacy -> "legacy_canonicalization"
      [] OTHER -> "contract_update"

\* The receipt binds the text that was read, its successor's support and, of an
\* edit, the content before and after; reviewed, the revision its client named,
\* is for the properties.
Receipt(p, u, q, kind, edited) ==
    [kind |-> kind, v |-> IF kind \in Editorial THEN 4 ELSE 6,
     from |-> p.state, to |-> u.state, at |-> q.at, offset |-> q.offset,
     before |-> p.rev, reviewed |-> 0, prior |-> LastAt(p.hist),
     ends |-> u.done_at # p.done_at, support |-> Support(u),
     edited |-> edited, was |-> Projection(p), is |-> Projection(u),
     key |-> q.key]

\* Mutant of Dated: a comment refreshes the factual date as well.
DatedAlways(u, q, kind) == Day(q.at, q.offset)

Dated(u, q, kind) == IF kind \in Editorial THEN u.updated ELSE Day(q.at, q.offset)

Recorded(p, u, q, kind, edited) ==
    [u EXCEPT !.hist = Append(@, Receipt(p, u, q, kind, edited)),
              !.updated = Dated(u, q, kind),
              !.rev = writes + 1]

Transition(p, q) == Recorded(p, Updated(p, q), q, Kind(p, q), Edits(p, q))

-------------------------------------------------------------------------------
(* integrate_action_body: a reviewed body, or the body without a paragraph  *)
(* that another action has.                                                 *)

Consolidated(body) == [body EXCEPT !.dup = FALSE]

Integrated(p, q) ==
    [p EXCEPT !.body = IF q.op = "consolidate" THEN Consolidated(@)
                       ELSE q.body]

Integrable(p, q) ==
    /\ Later(p, q)
    /\ ~p.legacy
    /\ p.state \in NonTerminal
    /\ Contract(p, p.state)
    /\ Integrated(p, q).body # p.body
    /\ \A i \in DOMAIN p.hist : p.hist[i].key # q.key
    /\ Timely(p, q, q.op = "consolidate")

Integration(p, q) ==
    Recorded(p, Integrated(p, q), q,
             IF q.op = "consolidate" THEN "body_consolidation" ELSE "body_integration",
             FALSE)

-------------------------------------------------------------------------------
(* action_transition_diagnostics: the audit of a page against its base.    *)

Additions(b, p) == Len(b.hist) + 1 .. Len(p.hist)

\* Mutant of Chained: the instants are compared, the states are not.
ChainedByInstants(b, p) ==
    LET prior(i) == IF i - 1 \in Additions(b, p) THEN p.hist[i - 1].at ELSE LastAt(b.hist)
    IN /\ \A i \in Additions(b, p) :
             /\ p.hist[i].prior = prior(i)
             /\ p.hist[i].at > prior(i)
             /\ ValidTransition(p.hist[i].from, p.hist[i].to)
       /\ p.hist[Len(b.hist) + 1].before = b.rev
       /\ Last(p.hist).to = p.state

\* What the receipt at i has to go on from.
Precedent(b, p, i) == IF i - 1 \in Additions(b, p) THEN p.hist[i - 1]
                      ELSE [to |-> b.state, at |-> LastAt(b.hist)]

\* The receipts lead from one to the next, strictly later each.
Chained(b, p) ==
    /\ \A i \in Additions(b, p) :
          LET e == p.hist[i] IN
          /\ e.from = Precedent(b, p, i).to
          /\ e.prior = Precedent(b, p, i).at
          /\ e.at > Precedent(b, p, i).at
          /\ ValidTransition(e.from, e.to)
          /\ e.kind = "transition" <=> e.from # e.to
    /\ p.hist[Len(b.hist) + 1].before = b.rev
    /\ Last(p.hist).to = p.state

\* The receipts that are about title or body, and what those at some places make
\* of the base: an edit tells both, a contribution the body.
Content(b, p) == {i \in Additions(b, p) : p.hist[i].edited \/ Body(p.hist[i])}
Folds(b, p) == {i \in Content(b, p) : p.hist[i].kind = "body_consolidation"}
Projected(b, p, places) ==
    LET edits == {i \in places : p.hist[i].edited} IN
    [title |-> IF edits = {} THEN b.title ELSE p.hist[Latest(edits)].is.title,
     body |-> IF places = {} THEN Projection(b).body ELSE p.hist[Latest(places)].is.body]
Was(b, p, i) == Projected(b, p, {j \in Content(b, p) : j < i})

\* The content is that of the base, taken from receipt to receipt.
ContentFollows(b, p) ==
    LET content == Content(b, p)
        final == Projected(b, p, content)
    IN content # {} =>
       /\ Folds(b, p) # {} => Folds(b, p) = content /\ p.body = Consolidated(b.body)
       /\ \A i \in content :
             IF Body(p.hist[i]) THEN p.hist[i].was.body = Was(b, p, i).body
                                ELSE p.hist[i].was = Was(b, p, i)
       /\ final.body = Projection(p).body
       /\ (\E i \in content : p.hist[i].edited) => final.title = p.title

DateFollows(b, p) ==
    LET factual == Factual(p.hist) \cap Additions(b, p)
        first == p.hist[Earliest(factual)]
        normal == IF factual # {} /\ first.v = 6
                  THEN PriorDate(b, first.offset, ReceiptDate(first), FALSE)
                  ELSE b.updated
    IN /\ b.updated # NoDate /\ p.updated # NoDate /\ p.updated < b.updated =>
             normal # NoDate /\ p.updated >= normal
       /\ p.updated = IF factual = {} THEN b.updated
                      ELSE ReceiptDate(p.hist[Latest(factual)])

\* Every comment receipt has its one event.
CommentsMatch(b, p) ==
    \A i \in Additions(b, p) : p.hist[i].kind = "comment" =>
        LET own == {k \in Len(b.talk) + 1 .. Len(p.talk) :
                        /\ p.talk[k].at = p.hist[i].at
                        /\ p.talk[k].before = p.hist[i].before}
        IN \E k \in own : own = {k} /\ p.talk[k].kind = "comment"

\* The receipts that end the action.
EndsAt(b, p) == {i \in Additions(b, p) : /\ p.hist[i].to \in Terminal
                                        /\ \/ p.hist[i].from # p.hist[i].to
                                           \/ p.hist[i].ends}
TerminalFollows(b, p) ==
    EndsAt(b, p) # {} => p.done_at = p.hist[Latest(EndsAt(b, p))].at

Prefix(s, t) == Len(s) <= Len(t) /\ \A i \in DOMAIN s : t[i] = s[i]

Accepted(b, p) ==
    /\ Prefix(b.talk, p.talk)
    /\ Prefix(b.hist, p.hist)
    /\ b.state \in Terminal =>
          /\ b.done_at # 0 => p.done_at = b.done_at
          /\ b.comp # 0 /\ b.state = "done" => p.comp = b.comp
          /\ b.canc # 0 /\ b.state = "cancelled" => p.canc = b.canc
    /\ ~p.legacy
    /\ Contract(p, p.state)
    /\ IF Additions(b, p) = {}
       THEN p.state = b.state /\ Support(p) = Support(b)
       ELSE /\ ContentFollows(b, p)
            /\ Chained(b, p)
            /\ DateFollows(b, p)
            /\ CommentsMatch(b, p)
            /\ TerminalFollows(b, p)
            /\ Last(p.hist).support = Support(p)

-------------------------------------------------------------------------------
(* What pages and requests may be.                                         *)

\* Instants more than a day after the first date there is: every calendar has
\* a day for them.  An offset is at most 14 hours from UTC, so a day is ample.
Moments == Nat \ {0, 1}
Offsets == -2 .. 2

Bodies == [text : Nat, dup : BOOLEAN, end : BOOLEAN]
Projections == [title : Nat, body : Nat \X BOOLEAN]
Events == [kind : {"comment", "direction"}, at : Moments, before : Nat]
Supports == [next : Nat, why : Nat, done_at : Nat, comp : Nat, canc : Nat,
             talk : Seq(Events)]
ReceiptKinds == Editorial \cup {"transition", "legacy_canonicalization",
                                "contract_update", "body_integration"}
Receipts ==
    [kind : ReceiptKinds, v : 1 .. 6, from : States, to : States, at : Moments,
     offset : Offsets, before : Nat, reviewed : Nat, prior : Nat, ends : BOOLEAN,
     support : Supports, edited : BOOLEAN, was : Projections, is : Projections,
     key : Nat]
Pages ==
    [rev : Nat, state : States, legacy : BOOLEAN, title : Nat, body : Bodies,
     next : Nat, why : Nat, comp : Nat, canc : Nat, done_at : Nat,
     talk : Seq(Events), updated : Nat, hist : Seq(Receipts)]
RequestSpace ==
    [op : {"transition", "integrate", "consolidate"}, to : States, next : Nat,
     why : Nat, comp : Nat, canc : Nat, talk : {"none", "comment", "direction"},
     title : Nat, body : Bodies, key : Nat, at : Moments, offset : Offsets]

\* The receipts of a page, and its comments, are in the order of their instants
\* and of the texts they were written on, which precede the page.
Linked(p) ==
    /\ \A i, j \in DOMAIN p.hist :
          i < j => p.hist[i].at < p.hist[j].at /\ p.hist[i].before < p.hist[j].before
    /\ \A i, j \in DOMAIN p.talk : i < j => p.talk[i].before < p.talk[j].before
    /\ \A i \in DOMAIN p.hist :
          p.hist[i].before < p.rev /\ p.hist[i].reviewed = p.hist[i].before
    /\ \A i \in DOMAIN p.talk : p.talk[i].before < p.rev

ASSUME LifecycleAssumption ==
    /\ MaxWrites \in Nat
    /\ Unread \notin Pages
    /\ Requests \subseteq RequestSpace
    /\ \A p \in InitialPages :
          /\ p \in Pages /\ p.rev \in 1 .. MaxWrites
          /\ p.legacy \/ Contract(p, p.state)
          /\ Linked(p)

-------------------------------------------------------------------------------
Honest(p) == [state |-> p.state, alone |-> TRUE]

ActionInit ==
    /\ page \in InitialPages
    /\ base = page
    /\ text = [c \in Clients |-> Unread]
    /\ reviewed = [c \in Clients |-> 0]
    /\ seen = [c \in Clients |-> Unread]
    /\ writes = page.rev
    /\ honest = Honest(page)

Free == \A c \in Clients : text[c] = Unread

\* Mutant of Acquire: the lock is that of a thread, not of the page.
AcquireBeside(c) == text[c] = Unread

Acquire(c) == Free

\* expected_sha256: the client may have reviewed any revision there was.
ReadPage(c, rev) ==
    /\ Acquire(c)
    /\ rev = page.rev
    /\ text' = [text EXCEPT ![c] = page]
    /\ reviewed' = [reviewed EXCEPT ![c] = rev]
    /\ seen' = [seen EXCEPT ![c] = honest.state]
    /\ UNCHANGED <<page, base, writes, honest>>

Release(c) ==
    /\ text' = [text EXCEPT ![c] = Unread]
    /\ reviewed' = [reviewed EXCEPT ![c] = 0]
    /\ seen' = [seen EXCEPT ![c] = Unread]

Write(c, new) ==
    /\ page' = [new EXCEPT !.hist[Len(new.hist)].reviewed = reviewed[c]]
    /\ writes' = writes + 1
    /\ honest' = [honest EXCEPT
                     !.state = IF seen[c] = text[c].state THEN new.state ELSE seen[c]]
    /\ Release(c)
    /\ UNCHANGED base

\* The answer may be lost, and the client ask again with what it reviewed.
TransitionPage(c, q) ==
    /\ text[c] # Unread /\ writes < MaxWrites
    /\ q.op = "transition"
    /\ Admissible(text[c], q) /\ Changes(text[c], q)
    /\ Write(c, Transition(text[c], q))

\* The writer audits its own result.
IntegrateBody(c, q) ==
    /\ text[c] # Unread /\ writes < MaxWrites
    /\ q.op # "transition"
    /\ Integrable(text[c], q)
    /\ Accepted(text[c], Integration(text[c], q))
    /\ Write(c, Integration(text[c], q))

\* A refusal, a repetition that changes nothing, the end of the process.
Desist(c) ==
    /\ text[c] # Unread
    /\ Release(c)
    /\ UNCHANGED <<page, base, writes, honest>>

\* An editor, an agent or git writes the file by hand.
Hand(new) ==
    /\ writes < MaxWrites
    /\ new # page
    /\ page' = [new EXCEPT !.rev = writes + 1]
    /\ writes' = writes + 1
    /\ honest' = [honest EXCEPT !.alone = FALSE]
    /\ UNCHANGED <<base, text, reviewed, seen>>

\* The state, or one of the governed fields.
HandEdit ==
    \/ \E s \in {"open", "waiting_human"} :
          Hand([page EXCEPT !.state = s, !.legacy = FALSE])
    \/ Hand([page EXCEPT !.next = 2])

\* The proposal is merged when the gate accepts it.  git takes no lock: a writer
\* may hold a text that is neither the merged one nor its successor.
MergePage ==
    /\ base # page
    /\ Accepted(base, page)
    /\ base' = page
    /\ honest' = [Honest(page) EXCEPT !.alone = \A c \in Clients : text[c] \in {Unread, page}]
    /\ UNCHANGED <<page, text, reviewed, seen, writes>>

\* git checkout of the page, under a writer an edit like another.
Revert ==
    /\ base # page
    /\ page' = base
    /\ honest' = [Honest(base) EXCEPT !.alone = Free]
    /\ UNCHANGED <<base, text, reviewed, seen, writes>>

ActionNext ==
    \/ \E c \in Clients :
          \/ Desist(c)
          \/ \E rev \in 1 .. writes : ReadPage(c, rev)
          \/ \E q \in Requests : TransitionPage(c, q) \/ IntegrateBody(c, q)
    \/ HandEdit \/ MergePage \/ Revert

ActionSpec == ActionInit /\ [][ActionNext]_actionVars
-------------------------------------------------------------------------------
(* Properties.                                                             *)

\* A page satisfies the contract of its state unless it is an old one or a hand
\* wrote it, and the instants of its history increase, without which neither
\* writer nor audit reads it again.
ActionTypeOK ==
    /\ page \in Pages /\ base \in Pages
    /\ page.rev \in 1 .. writes /\ base.rev \in 1 .. writes
    /\ page.legacy \/ ~honest.alone \/ Contract(page, page.state)
    /\ \A i, j \in DOMAIN page.hist : i < j => page.hist[i].at < page.hist[j].at
    /\ \A c \in Clients : reviewed[c] = IF text[c] = Unread THEN 0 ELSE text[c].rev
    /\ \A c, d \in Clients : text[c] # Unread /\ text[d] # Unread => c = d
    /\ writes \in 1 .. MaxWrites

\* "consolidation_mixed_body_changes": the audit wants them in two proposals.
Mixed == Folds(base, page) \notin {{}, Content(base, page)}

\* "verifies interleaved edits, dialogue and contributions": whatever sequence
\* of writes made a page of the merged one, in whatever time zones, and however
\* old the page, the gate accepts it.
AuditAcceptsWriters ==
    honest.alone /\ page # base /\ ~Mixed => Accepted(base, page)

\* "A direct Markdown/agent edit that changes the semantic lifecycle state
\* without that receipt is rejected": a page the gate accepts has the state its
\* writers gave it, even when writers wrote after the editor.
StateIsReceipted == Accepted(base, page) => page.state = honest.state

\* What was reviewed is what is changed, once: of two writers, of a request and
\* its repetition after a lost answer, the second is refused, and neither
\* receipt is written over.
OneSuccessor ==
    [][/\ \A i, j \in DOMAIN page'.hist :
             /\ page'.hist[i].before = page'.hist[j].before => i = j
             /\ page'.hist[i].reviewed = page'.hist[j].reviewed => i = j
       /\ page' = base \/ Prefix(page.hist, page'.hist)]_actionVars

\* "Terminal states are historical facts": no sequence of writes reopens an
\* action, or replaces its receipt, its instant, its title or its body.
TerminalIsFinal ==
    [][page.state \in Terminal /\ writes' > writes /\ honest'.alone =>
          /\ page'.state = page.state
          /\ page.comp # 0 /\ page.state = "done" => page'.comp = page.comp
          /\ page.canc # 0 /\ page.state = "cancelled" => page'.canc = page.canc
          /\ page.done_at # 0 => page'.done_at = page.done_at
          /\ Projection(page') = Projection(page)]_actionVars

\* What the writers make is well formed and passes the gate.
ActionSafety == ActionTypeOK /\ AuditAcceptsWriters
===============================================================================
