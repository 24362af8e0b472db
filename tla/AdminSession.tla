----------------------------- MODULE AdminSession -----------------------------
(***************************************************************************)
(* wiki_core/web/admin/sessions.py: the local admin session manager of one *)
(* operator process.                                                       *)
(*                                                                         *)
(* Every critical section of the manager's mutex is one action.  A request *)
(* thread has a program state only where the code leaves the mutex in the  *)
(* middle of a call: while its effect runs, between the two sections that  *)
(* settle an effect, while lock() waits for effects to drain, and between  *)
(* the end of a session and the call of arm() that prints the next code.   *)
(*                                                                         *)
(* Time is abstracted: codes, challenges and sessions grow old by actions  *)
(* of their own, at any moment, and a validation that refreshes a session  *)
(* that is not old changes nothing here.  A session's token is the pair of *)
(* its session and the number of renewals that preceded it.                *)
(***************************************************************************)
EXTENDS Integers, FiniteSets

CONSTANTS
    Threads,         \* request threads of the operator process
    Capabilities,    \* what an effect may ask for
    RoleCaps,        \* capabilities of the configured default role
    InspectCaps,     \* the capabilities left to a session with a doubt
    MaxSessions,     \* bound on the sessions one behaviour opens
    MaxRenewals,     \* bound on the renewals of one session
    MaxRetired,      \* retired sessions remembered (16)
    MaxChallenges,   \* pending challenges remembered (MAX_PENDING_CHALLENGES)
    UnlockLimit,     \* UNLOCK_ATTEMPT_LIMIT
    RenewLimit       \* RENEW_ATTEMPT_LIMIT

ASSUME SessionAssumption ==
    /\ IsFiniteSet(Threads)
    /\ RoleCaps \subseteq Capabilities
    /\ InspectCaps \subseteq Capabilities
    /\ MaxSessions \in Nat
    /\ MaxRenewals \in Nat
    /\ MaxRetired \in Nat
    /\ MaxChallenges \in Nat \ {0}
    /\ UnlockLimit \in Nat
    /\ RenewLimit \in Nat

VARIABLES
    code,         \* _code_consumed, and whether UNLOCK_CODE_TTL_S passed
    challenges,   \* _challenges: how many are usable, how many too old
    rate,         \* events in the unlock and the renew rate window
    session,      \* _session; sid is NoSession when there is none
    retired,      \* _retired: tokens kept to confirm a lock, never to admit
    inflight,     \* _inflight: admitted effects by session
    uncertain,    \* _uncertain: sessions with an outcome in doubt
    thread,       \* where each request thread is
    confirmed,    \* history: sessions whose lock() answered "locked"
    opened        \* history: sessions opened so far

vars == <<code, challenges, rate, session, retired, inflight, uncertain,
          thread, confirmed, opened>>

NoSession == 0
Sessions == 1..MaxSessions
Tokens == [sid : Sessions, gen : 0..MaxRenewals]
Steps == {"idle", "effect", "report", "settle", "wait", "arm"}

FreshCode == [consumed |-> FALSE, expired |-> FALSE]
NobodyIn == [sid |-> NoSession, gen |-> 0, expired |-> FALSE]
Idle == [step |-> "idle", sid |-> NoSession, rearm |-> FALSE]
\* arm() is still owed by this thread.
Arming == [step |-> "arm", sid |-> NoSession, rearm |-> TRUE]

At(t, step) == thread[t].step = step
Go(t, state) == thread' = [thread EXCEPT ![t] = state]

\* Threads between the admission of their effect and its settlement.
Acting(t) == thread[t].step \in {"effect", "report", "settle"}
ActorsOf(s) == {t \in Threads : Acting(t) /\ thread[t].sid = s}

-------------------------------------------------------------------------------
(* The unlock code and the challenges.                                     *)

\* __init__: an empty store, and arm() prints the first code.
Init ==
    /\ code = FreshCode
    /\ challenges = [usable |-> 0, old |-> 0]
    /\ rate = [unlock |-> 0, renew |-> 0]
    /\ session = NobodyIn
    /\ retired = {}
    /\ inflight = [s \in Sessions |-> 0]
    /\ uncertain = {}
    /\ thread = [t \in Threads |-> Idle]
    /\ confirmed = {}
    /\ opened = 0

\* The re-arming half of a call whose critical section ended a session.
Arm(t) ==
    /\ At(t, "arm")
    /\ code' = FreshCode
    /\ Go(t, Idle)
    /\ UNCHANGED <<challenges, rate, session, retired, inflight, uncertain,
                   confirmed, opened>>

\* Old challenges are dropped, then the oldest while the store is full.
IssueChallenge ==
    /\ challenges' = [usable |-> IF challenges.usable < MaxChallenges
                                 THEN challenges.usable + 1
                                 ELSE MaxChallenges,
                      old |-> 0]
    /\ UNCHANGED <<code, rate, session, retired, inflight, uncertain, thread,
                   confirmed, opened>>

\* A challenge is spent by any attempt that gets this far, old or usable.
SpendChallenge(kind) ==
    /\ challenges[kind] > 0
    /\ challenges' = [challenges EXCEPT ![kind] = @ - 1]

\* Mutants of MayAttempt: an attempt that no window limits; one that forgets a
\* doubt.
MayAttemptUnlimited ==
    /\ uncertain = {}
    /\ \A s \in Sessions : inflight[s] = 0

MayAttemptInDoubt ==
    /\ \A s \in Sessions : inflight[s] = 0
    /\ rate.unlock < UnlockLimit

MayAttempt ==
    /\ uncertain = {}
    /\ \A s \in Sessions : inflight[s] = 0
    /\ rate.unlock < UnlockLimit

CountAttempt == rate' = [rate EXCEPT !.unlock = @ + 1]

\* Wrong code, or a code that is consumed or too old.
CodeRefused(matches) == ~matches \/ code.consumed \/ code.expired

UnlockRefused(matches) ==
    /\ MayAttempt
    /\ CountAttempt
    /\ \/ UNCHANGED challenges                 \* no such challenge
       \/ SpendChallenge("old")
       \/ SpendChallenge("usable") /\ CodeRefused(matches)
    /\ UNCHANGED <<code, session, retired, inflight, uncertain, thread,
                   confirmed, opened>>

Unlock ==
    /\ opened < MaxSessions
    /\ MayAttempt
    /\ CountAttempt
    /\ SpendChallenge("usable")
    /\ ~CodeRefused(TRUE)
    /\ code' = [code EXCEPT !.consumed = TRUE]
    /\ opened' = opened + 1
    /\ session' = [sid |-> opened + 1, gen |-> 0, expired |-> FALSE]
    /\ UNCHANGED <<retired, inflight, uncertain, thread, confirmed>>

-------------------------------------------------------------------------------
(* Validation.                                                             *)

Matches(tok) ==
    session.sid # NoSession /\ tok = [sid |-> session.sid, gen |-> session.gen]

Valid(tok) == Matches(tok) /\ ~session.expired

\* The sessions _retire_locked keeps once the current one is added: beyond
\* MaxRetired the oldest go, unless an effect or a doubt pins them.
RetireCurrent ==
    LET all == retired \cup {[sid |-> session.sid, gen |-> session.gen]}
        loose == {r \in all : inflight[r.sid] = 0 /\ r.sid \notin uncertain}
        older(r) == {q \in loose : q.sid < r.sid}
    IN  all \ {r \in loose :
                  Cardinality(older(r)) < Cardinality(all) - MaxRetired}

\* What _validate_locked does to an expired session presented by its owner.
EndSession ==
    /\ retired' = RetireCurrent
    /\ session' = NobodyIn

\* validate, session_for_capabilities, capability_snapshot and the refused
\* execute_current: the first call to find the session expired ends it.
NoticeExpiry(t, tok) ==
    /\ At(t, "idle")
    /\ Matches(tok)
    /\ session.expired
    /\ EndSession
    /\ Go(t, Arming)
    /\ UNCHANGED <<code, challenges, rate, inflight, uncertain, confirmed,
                   opened>>

MayRenew == rate.renew < RenewLimit
CountRenewal == rate' = [rate EXCEPT !.renew = @ + 1]

Renew(t, tok) ==
    /\ At(t, "idle")
    /\ MayRenew
    /\ CountRenewal
    /\ \/ /\ Valid(tok)
          /\ session.gen < MaxRenewals
          /\ session' = [session EXCEPT !.gen = @ + 1]
          /\ UNCHANGED <<retired, thread>>
       \/ /\ Matches(tok)
          /\ session.expired
          /\ EndSession
          /\ Go(t, Arming)
       \/ /\ ~Matches(tok)
          /\ UNCHANGED <<session, retired, thread>>
    /\ UNCHANGED <<code, challenges, inflight, uncertain, confirmed, opened>>

-------------------------------------------------------------------------------
(* Effects.                                                                *)

Permitted(s, caps) ==
    /\ caps \subseteq RoleCaps
    /\ s \in uncertain => caps \subseteq InspectCaps

\* Mutant of ExecuteCurrent: a retired token still admits.
ExecuteRetired(t, tok, expected, caps) ==
    /\ At(t, "idle")
    /\ Valid(tok) \/ tok \in retired
    /\ tok.sid = expected
    /\ Permitted(expected, caps)
    /\ inflight' = [inflight EXCEPT ![expected] = @ + 1]
    /\ Go(t, [step |-> "effect", sid |-> expected, rearm |-> FALSE])
    /\ UNCHANGED <<code, challenges, rate, session, retired, uncertain,
                   confirmed, opened>>

\* execute_current up to the release of the mutex: the effect is admitted.
ExecuteCurrent(t, tok, expected, caps) ==
    /\ At(t, "idle")
    /\ Valid(tok)
    /\ session.sid = expected
    /\ Permitted(expected, caps)
    /\ inflight' = [inflight EXCEPT ![expected] = @ + 1]
    /\ Go(t, [step |-> "effect", sid |-> expected, rearm |-> FALSE])
    /\ UNCHANGED <<code, challenges, rate, session, retired, uncertain,
                   confirmed, opened>>

\* The effect returns, or raises; only a returned value can report a doubt.
EffectReturns(t, doubt) ==
    /\ At(t, "effect")
    /\ Go(t, [thread[t] EXCEPT !.step = IF doubt THEN "report" ELSE "settle"])
    /\ UNCHANGED <<code, challenges, rate, session, retired, inflight,
                   uncertain, confirmed, opened>>

ReportUncertain(t) ==
    /\ At(t, "report")
    /\ uncertain' = uncertain \cup {thread[t].sid}
    /\ Go(t, [thread[t] EXCEPT !.step = "settle"])
    /\ UNCHANGED <<code, challenges, rate, session, retired, inflight,
                   confirmed, opened>>

Settle(t) ==
    /\ At(t, "settle")
    /\ inflight' = [inflight EXCEPT ![thread[t].sid] = @ - 1]
    /\ Go(t, Idle)
    /\ UNCHANGED <<code, challenges, rate, session, retired, uncertain,
                   confirmed, opened>>

-------------------------------------------------------------------------------
(* lock().                                                                 *)

AfterLock(rearm) == IF rearm THEN Arming ELSE Idle

\* The answer once nothing is in flight: "locked", unless a doubt remains.
AnswerDrained(t, s, rearm) ==
    /\ confirmed' = IF s \in uncertain THEN confirmed ELSE confirmed \cup {s}
    /\ Go(t, AfterLock(rearm))

\* Mutant of AwaitEffects: the answer does not wait.
AnswerAtOnce(t, s, rearm) == AnswerDrained(t, s, rearm)

\* wait_for looks at the condition before it waits.
AwaitEffects(t, s, rearm) ==
    \/ inflight[s] = 0 /\ AnswerDrained(t, s, rearm)
    \/ /\ inflight[s] > 0
       /\ Go(t, [step |-> "wait", sid |-> s, rearm |-> rearm])
       /\ UNCHANGED confirmed

\* A live session: lock() ends it and owes the next code.
LockLive(t, tok) ==
    /\ Valid(tok)
    /\ EndSession
    /\ AwaitEffects(t, tok.sid, TRUE)

\* An expired session: the validation retires it, then the search of the
\* retired sessions finds it and replaces the result that asked to re-arm.
LockExpired(t, tok) ==
    /\ Matches(tok)
    /\ session.expired
    /\ EndSession
    /\ \/ tok \in RetireCurrent /\ AwaitEffects(t, tok.sid, FALSE)
       \/ tok \notin RetireCurrent /\ Go(t, Arming) /\ UNCHANGED confirmed

\* A session that ended before: lock() only confirms.
LockRetired(t, tok) ==
    /\ ~Matches(tok)
    /\ tok \in retired
    /\ AwaitEffects(t, tok.sid, FALSE)
    /\ UNCHANGED <<session, retired>>

Lock(t, tok) ==
    /\ At(t, "idle")
    /\ LockLive(t, tok) \/ LockExpired(t, tok) \/ LockRetired(t, tok)
    /\ UNCHANGED <<code, challenges, rate, inflight, uncertain, opened>>

LockDrained(t) ==
    /\ At(t, "wait")
    /\ inflight[thread[t].sid] = 0
    /\ AnswerDrained(t, thread[t].sid, thread[t].rearm)
    /\ UNCHANGED <<code, challenges, rate, session, retired, inflight,
                   uncertain, opened>>

\* Mutant of LockTimesOut: a wait without a timeout.
LockNeverTimesOut(t) == At(t, "wait") /\ FALSE /\ UNCHANGED vars

\* A second passed: lock() answers "revocation pending".
LockTimesOut(t) ==
    /\ At(t, "wait")
    /\ inflight[thread[t].sid] > 0
    /\ Go(t, AfterLock(thread[t].rearm))
    /\ UNCHANGED <<code, challenges, rate, session, retired, inflight,
                   uncertain, confirmed, opened>>

-------------------------------------------------------------------------------
(* Time, and the end of the process.                                       *)

CodeExpires ==
    /\ ~code.expired
    /\ code' = [code EXCEPT !.expired = TRUE]
    /\ UNCHANGED <<challenges, rate, session, retired, inflight, uncertain,
                   thread, confirmed, opened>>

ChallengeExpires ==
    /\ challenges.usable > 0
    /\ challenges' = [usable |-> challenges.usable - 1,
                      old |-> challenges.old + 1]
    /\ UNCHANGED <<code, rate, session, retired, inflight, uncertain, thread,
                   confirmed, opened>>

\* The absolute or the idle limit passed; nobody has noticed yet.
SessionExpires ==
    /\ session.sid # NoSession
    /\ session' = [session EXCEPT !.expired = TRUE]
    /\ UNCHANGED <<code, challenges, rate, retired, inflight, uncertain,
                   thread, confirmed, opened>>

WindowSlides(window) ==
    /\ rate[window] > 0
    /\ rate' = [rate EXCEPT ![window] = @ - 1]
    /\ UNCHANGED <<code, challenges, session, retired, inflight, uncertain,
                   thread, confirmed, opened>>

\* A new process: a new manager, and none of the old threads.
Restart ==
    /\ code' = FreshCode
    /\ challenges' = [usable |-> 0, old |-> 0]
    /\ rate' = [unlock |-> 0, renew |-> 0]
    /\ session' = NobodyIn
    /\ retired' = {}
    /\ inflight' = [s \in Sessions |-> 0]
    /\ uncertain' = {}
    /\ thread' = [t \in Threads |-> Idle]
    /\ UNCHANGED <<confirmed, opened>>

-------------------------------------------------------------------------------
Operator ==
    \/ IssueChallenge
    \/ Unlock
    \/ \E matches \in BOOLEAN : UnlockRefused(matches)
    \/ \E t \in Threads, tok \in Tokens :
          NoticeExpiry(t, tok) \/ Renew(t, tok) \/ Lock(t, tok)

Effect(t) ==
    \/ \E tok \in Tokens, expected \in Sessions, caps \in SUBSET Capabilities :
          ExecuteCurrent(t, tok, expected, caps)
    \/ \E doubt \in BOOLEAN : EffectReturns(t, doubt)
    \/ ReportUncertain(t)
    \/ Settle(t)

Waiting(t) == LockDrained(t) \/ LockTimesOut(t)

Time ==
    \/ CodeExpires
    \/ ChallengeExpires
    \/ SessionExpires
    \/ \E window \in {"unlock", "renew"} : WindowSlides(window)

Next ==
    \/ Operator
    \/ Time
    \/ Restart
    \/ \E t \in Threads : Arm(t) \/ Effect(t) \/ Waiting(t)

Spec == Init /\ [][Next]_vars

\* Threads are scheduled; whether an effect ends is not their doing.
ThreadFairness ==
    \A t \in Threads :
        /\ WF_vars(Arm(t))
        /\ WF_vars(ReportUncertain(t))
        /\ WF_vars(Settle(t))
        /\ WF_vars(Waiting(t))

\* "One bounded effect": every admitted effect returns or raises.
EffectsAreBounded ==
    \A t \in Threads : WF_vars(\E doubt \in BOOLEAN : EffectReturns(t, doubt))

ThreadSpec == Spec /\ ThreadFairness

-------------------------------------------------------------------------------
(* Properties.                                                             *)

TypeOK ==
    /\ code \in [consumed : BOOLEAN, expired : BOOLEAN]
    /\ challenges \in [usable : 0..MaxChallenges, old : Nat]
    /\ rate \in [unlock : 0..UnlockLimit, renew : 0..RenewLimit]
    /\ session \in [sid : 0..MaxSessions, gen : 0..MaxRenewals,
                    expired : BOOLEAN]
    /\ retired \in SUBSET Tokens
    /\ inflight \in [Sessions -> Int]
    /\ uncertain \in SUBSET Sessions
    /\ thread \in [Threads -> [step : Steps, sid : 0..MaxSessions,
                               rearm : BOOLEAN]]
    /\ \A t \in Threads :
           thread[t].step \notin {"idle", "arm"} => thread[t].sid \in Sessions
    /\ confirmed \in SUBSET Sessions
    /\ opened \in 0..MaxSessions

\* Two effects that overlap in time belong to one session, and to the current
\* one if there is one: unlock() waits for the effects of the session before.
OneSessionActs ==
    \A t \in Threads : Acting(t) =>
        /\ session.sid # NoSession => thread[t].sid = session.sid
        /\ \A u \in Threads : Acting(u) => thread[u].sid = thread[t].sid

\* Once lock() has answered "locked" for a session, nothing acts for it and it
\* is not the current session, then or at any later time.
ConfirmedIsQuiet ==
    \A s \in confirmed : s # session.sid /\ ActorsOf(s) = {}

\* A thread that ended a session and has not printed the next code yet.
OwesCode(t) == At(t, "arm") \/ (At(t, "wait") /\ thread[t].rearm)

\* The code printed last opens nothing while a session is live or while another
\* code is about to be printed: no second owner, no takeover of a session.
OneWayIn ==
    /\ session.sid # NoSession =>
           code.consumed /\ \A t \in Threads : ~OwesCode(t)
    /\ \A t, u \in Threads : OwesCode(t) /\ OwesCode(u) => t = u
    /\ (\E t \in Threads : OwesCode(t)) => code.consumed

\* The count unlock() and lock() decide by is the number of effects really
\* running, also between the two sections that settle an effect.
InflightIsExact ==
    \A s \in Sessions : inflight[s] = Cardinality(ActorsOf(s))

\* A session that ended while its effects run is remembered, whatever the
\* limit on retired sessions, so that lock() can still confirm the drain.
PendingRevocationIsKnown ==
    \A s \in Sessions : inflight[s] > 0 /\ s # session.sid =>
        \E r \in retired : r.sid = s

\* What makes the properties above inductive: only the last session opened
\* can be current, a thread in a call names an opened session, one that waits
\* in lock() and every remembered or confirmed session are past sessions.
PastIsPast ==
    /\ session.sid \in {NoSession, opened}
    /\ \A t \in Threads : ~At(t, "idle") /\ ~At(t, "arm") =>
           thread[t].sid \in 1..opened
    /\ \A t \in Threads : At(t, "wait") => thread[t].sid # session.sid
    /\ \A r \in retired : r.sid \in 1..opened /\ r.sid # session.sid
    /\ confirmed \subseteq 1..opened

\* The manager's safety, inductive as it stands.
SessionInv ==
    /\ InflightIsExact
    /\ OneSessionActs
    /\ ConfirmedIsQuiet
    /\ OneWayIn
    /\ PendingRevocationIsKnown
    /\ PastIsPast

\* An effect has returned an uncertain outcome, recorded or not.
InDoubt == uncertain # {} \/ \E t \in Threads : At(t, "report")

\* No session opens after an uncertain outcome, not even in the gap between
\* the return of the effect and the section that records it.
DoubtBarsOpening == [][opened' > opened => ~InDoubt]_vars

\* Every lock() call is answered, even if the effect it waits for never ends.
LockIsAnswered == \A t \in Threads : At(t, "wait") ~> ~At(t, "wait")

\* A session that is no longer current runs out of effects, if effects end.
RevocationDrains ==
    EffectsAreBounded =>
        \A s \in Sessions :
            (s <= opened /\ s # session.sid) ~> inflight[s] = 0

\* Nobody waits for ever: neither the owner who locks nor the one who wants
\* the next session, which opens once the effects of the last are over.
NobodyWaitsForEver == LockIsAnswered /\ RevocationDrains

\* The session each thread runs an admitted effect for.
ActingFor ==
    [t \in Threads |-> IF Acting(t) THEN thread[t].sid ELSE NoSession]

\* The manager keeps the promise of AdminAuthority: its current session is the
\* authority, its admitted effects the ones that act.
Authority == INSTANCE AdminAuthority WITH
    authority <- session.sid,
    acting <- ActingFor,
    poisoned <- InDoubt

ImplementsAuthority == Authority!AuthoritySpec
===============================================================================
