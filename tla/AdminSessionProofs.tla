-------------------------- MODULE AdminSessionProofs --------------------------
(***************************************************************************)
(* Theorems about AdminSession, for any threads, sessions and limits.      *)
(***************************************************************************)
EXTENDS AdminSession, FiniteSetTheorems, TLAPS

ThreadState == [step : Steps, sid : 0..MaxSessions, rearm : BOOLEAN]

\* A thread in the middle of a call works for some session.
NamesSession(st) == st.step \notin {"idle", "arm"} => st.sid \in Sessions

\* A step moves one thread to a well-formed state, or none.
LEMMA GoTyped ==
    ASSUME TypeOK, NEW t \in Threads, NEW st \in ThreadState, Go(t, st)
    PROVE  /\ thread' \in [Threads -> ThreadState]
           /\ NamesSession(st) => \A u \in Threads : NamesSession(thread'[u])
BY DEF Go, TypeOK, ThreadState, NamesSession

LEMMA SpendTyped ==
    ASSUME TypeOK, NEW kind \in {"usable", "old"}, SpendChallenge(kind)
    PROVE  challenges' \in [usable : 0..MaxChallenges, old : Nat]
<1>1. CASE kind = "usable"
  BY <1>1, SessionAssumption DEF SpendChallenge, TypeOK
<1>2. CASE kind = "old"
  BY <1>2, SessionAssumption DEF SpendChallenge, TypeOK
<1>3. QED BY <1>1, <1>2

LEMMA AttemptTyped ==
    ASSUME TypeOK, MayAttempt, CountAttempt
    PROVE  rate' \in [unlock : 0..UnlockLimit, renew : 0..RenewLimit]
BY SessionAssumption DEF MayAttempt, CountAttempt, TypeOK

LEMMA AfterLockTyped ==
    ASSUME NEW rearm \in BOOLEAN
    PROVE  AfterLock(rearm) \in ThreadState /\ NamesSession(AfterLock(rearm))
BY SessionAssumption DEF AfterLock, Arming, Idle, ThreadState, Steps, NoSession,
                         NamesSession

\* Retiring the current session keeps tokens only, and drops none that an
\* effect or a doubt pins.
LEMMA RetireCurrentFacts ==
    ASSUME TypeOK, session.sid # NoSession
    PROVE  /\ RetireCurrent \subseteq
                  retired \cup {[sid |-> session.sid, gen |-> session.gen]}
           /\ RetireCurrent \in SUBSET Tokens
           /\ \A r \in retired \cup {[sid |-> session.sid,
                                      gen |-> session.gen]} :
                  inflight[r.sid] # 0 => r \in RetireCurrent
BY SessionAssumption DEF RetireCurrent, TypeOK, Tokens, Sessions, NoSession

LEMMA AwaitTyped ==
    ASSUME TypeOK, NEW t \in Threads, NEW s \in Sessions,
           NEW rearm \in BOOLEAN, AwaitEffects(t, s, rearm)
    PROVE  /\ thread' \in [Threads -> ThreadState]
           /\ \A u \in Threads : NamesSession(thread'[u])
           /\ confirmed' \in SUBSET Sessions
<1>1. CASE inflight[s] = 0 /\ AnswerDrained(t, s, rearm)
  BY <1>1, AfterLockTyped, GoTyped DEF AnswerDrained, TypeOK
<1>2. CASE /\ Go(t, [step |-> "wait", sid |-> s, rearm |-> rearm])
           /\ UNCHANGED confirmed
  <2>1. /\ [step |-> "wait", sid |-> s, rearm |-> rearm] \in ThreadState
        /\ NamesSession([step |-> "wait", sid |-> s, rearm |-> rearm])
    BY SessionAssumption DEF ThreadState, Steps, Sessions, NamesSession
  <2>2. QED BY <1>2, <2>1, GoTyped DEF TypeOK
<1>3. QED BY <1>1, <1>2 DEF AwaitEffects

LEMMA LockTyped ==
    ASSUME TypeOK, NEW t \in Threads, NEW tok \in Tokens, Lock(t, tok)
    PROVE  TypeOK'
<1>1. tok.sid \in Sessions
  BY DEF Tokens
<1>2. NobodyIn \in [sid : 0..MaxSessions, gen : 0..MaxRenewals,
                    expired : BOOLEAN]
  BY SessionAssumption DEF NobodyIn, NoSession
<1>3. Arming \in ThreadState /\ NamesSession(Arming)
  BY SessionAssumption DEF Arming, ThreadState, Steps, NoSession, NamesSession
<1>4. CASE LockLive(t, tok)
  BY <1>1, <1>2, <1>4, AwaitTyped, RetireCurrentFacts
     DEF Lock, LockLive, Valid, Matches, EndSession, TypeOK, ThreadState, NamesSession
<1>5. CASE LockExpired(t, tok)
  <2>1. RetireCurrent \in SUBSET Tokens
    BY <1>5, RetireCurrentFacts DEF LockExpired, Matches
  <2>2. /\ thread' \in [Threads -> ThreadState]
        /\ \A u \in Threads : NamesSession(thread'[u])
        /\ confirmed' \in SUBSET Sessions
    BY <1>1, <1>3, <1>5, AwaitTyped, GoTyped DEF LockExpired, TypeOK
  <2>3. QED BY <1>2, <1>5, <2>1, <2>2
            DEF Lock, LockExpired, EndSession, TypeOK, ThreadState, NamesSession
<1>6. CASE LockRetired(t, tok)
  BY <1>1, <1>6, AwaitTyped DEF Lock, LockRetired, TypeOK, ThreadState, NamesSession
<1>7. QED BY <1>4, <1>5, <1>6 DEF Lock

\* Type correctness of the session manager, whatever the constants.
THEOREM TypeCorrect == Spec => []TypeOK
<1>1. Init => TypeOK
  BY SessionAssumption
     DEF Init, TypeOK, FreshCode, NobodyIn, Idle, Steps, Sessions, NoSession
<1>2. TypeOK /\ [Next]_vars => TypeOK'
  <2> SUFFICES ASSUME TypeOK, [Next]_vars PROVE TypeOK'
    OBVIOUS
  <2> USE SessionAssumption
  <2>1. /\ Idle \in ThreadState /\ Arming \in ThreadState
        /\ NamesSession(Idle) /\ NamesSession(Arming)
    BY DEF Idle, Arming, ThreadState, Steps, NoSession, NamesSession
  <2>2. NobodyIn \in [sid : 0..MaxSessions, gen : 0..MaxRenewals,
                      expired : BOOLEAN]
    BY DEF NobodyIn, NoSession
  <2>3. CASE IssueChallenge
    BY <2>3 DEF IssueChallenge, TypeOK
  <2>4. CASE Unlock
    <3>1. /\ challenges' \in [usable : 0..MaxChallenges, old : Nat]
          /\ rate' \in [unlock : 0..UnlockLimit, renew : 0..RenewLimit]
      BY <2>4, SpendTyped, AttemptTyped DEF Unlock
    <3>2. code' \in [consumed : BOOLEAN, expired : BOOLEAN]
      BY <2>4 DEF Unlock, TypeOK
    <3>3. QED BY <2>4, <3>1, <3>2 DEF Unlock, TypeOK
  <2>5. ASSUME NEW matches \in BOOLEAN, UnlockRefused(matches)
        PROVE  TypeOK'
    BY <2>5, SpendTyped, AttemptTyped DEF UnlockRefused, TypeOK
  <2>6. ASSUME NEW t \in Threads, NEW tok \in Tokens, NoticeExpiry(t, tok)
        PROVE  TypeOK'
    BY <2>1, <2>2, <2>6, GoTyped, RetireCurrentFacts
       DEF NoticeExpiry, EndSession, Matches, TypeOK, ThreadState, NamesSession
  <2>7. ASSUME NEW t \in Threads, NEW tok \in Tokens, Renew(t, tok)
        PROVE  TypeOK'
    <3>1. rate' \in [unlock : 0..UnlockLimit, renew : 0..RenewLimit]
      BY <2>7 DEF Renew, MayRenew, CountRenewal, TypeOK
    <3>2. CASE Matches(tok) /\ EndSession /\ Go(t, Arming)
      BY <2>1, <2>2, <2>7, <3>1, <3>2, GoTyped, RetireCurrentFacts
         DEF Renew, EndSession, Matches, TypeOK, ThreadState, NamesSession
    <3>3. CASE /\ session.gen < MaxRenewals
               /\ session' = [session EXCEPT !.gen = @ + 1]
               /\ UNCHANGED <<retired, thread>>
      BY <2>7, <3>1, <3>3 DEF Renew, TypeOK
    <3>4. CASE UNCHANGED <<session, retired, thread>>
      BY <2>7, <3>1, <3>4 DEF Renew, TypeOK
    <3>5. QED BY <2>7, <3>2, <3>3, <3>4 DEF Renew
  <2>8. ASSUME NEW t \in Threads, NEW tok \in Tokens, Lock(t, tok)
        PROVE  TypeOK'
    BY <2>8, LockTyped
  <2>9. CASE Time
    <3>1. CASE CodeExpires
      BY <3>1 DEF CodeExpires, TypeOK
    <3>2. CASE ChallengeExpires
      BY <3>2 DEF ChallengeExpires, TypeOK
    <3>3. CASE SessionExpires
      BY <3>3 DEF SessionExpires, TypeOK
    <3>4. CASE WindowSlides("unlock")
      BY <3>4 DEF WindowSlides, TypeOK
    <3>5. CASE WindowSlides("renew")
      BY <3>5 DEF WindowSlides, TypeOK
    <3>6. QED BY <2>9, <3>1, <3>2, <3>3, <3>4, <3>5 DEF Time
  <2>10. CASE Restart
    BY <2>1, <2>2, <2>10 DEF Restart, FreshCode, TypeOK, ThreadState, NamesSession
  <2>11. ASSUME NEW t \in Threads, Arm(t) PROVE TypeOK'
    BY <2>1, <2>11, GoTyped DEF Arm, FreshCode, TypeOK, ThreadState, NamesSession
  <2>12. ASSUME NEW t \in Threads, NEW tok \in Tokens,
                NEW expected \in Sessions, NEW caps \in SUBSET Capabilities,
                ExecuteCurrent(t, tok, expected, caps)
         PROVE  TypeOK'
    <3>1. /\ [step |-> "effect", sid |-> expected, rearm |-> FALSE]
                \in ThreadState
          /\ NamesSession([step |-> "effect", sid |-> expected,
                           rearm |-> FALSE])
          /\ inflight' \in [Sessions -> Int]
      BY <2>12, SMTT(30) DEF ExecuteCurrent, TypeOK, ThreadState, Steps, Sessions,
                   NamesSession
    <3>2. QED BY <2>12, <3>1, GoTyped DEF ExecuteCurrent, TypeOK, ThreadState, NamesSession
  <2>13. ASSUME NEW t \in Threads, NEW doubt \in BOOLEAN,
                EffectReturns(t, doubt)
         PROVE  TypeOK'
    <3> DEFINE st == [thread[t] EXCEPT !.step = IF doubt THEN "report"
                                                ELSE "settle"]
    <3>1. st \in ThreadState /\ NamesSession(st)
      BY <2>13 DEF EffectReturns, At, TypeOK, ThreadState, Steps, NamesSession
    <3>2. QED BY <2>13, <3>1, GoTyped DEF EffectReturns, TypeOK, ThreadState, NamesSession
  <2>14. ASSUME NEW t \in Threads, ReportUncertain(t) PROVE TypeOK'
    <3> DEFINE st == [thread[t] EXCEPT !.step = "settle"]
    <3>1. st \in ThreadState /\ NamesSession(st) /\ thread[t].sid \in Sessions
      BY <2>14 DEF ReportUncertain, At, TypeOK, ThreadState, Steps, NamesSession
    <3>2. QED BY <2>14, <3>1, GoTyped
              DEF ReportUncertain, TypeOK, ThreadState, NamesSession
  <2>15. ASSUME NEW t \in Threads, Settle(t) PROVE TypeOK'
    BY <2>1, <2>15, GoTyped DEF Settle, At, TypeOK, ThreadState, NamesSession
  <2>16. ASSUME NEW t \in Threads, LockDrained(t) PROVE TypeOK'
    <3>1. thread[t].sid \in Sessions /\ thread[t].rearm \in BOOLEAN
      BY <2>16 DEF LockDrained, At, TypeOK
    <3>2. AwaitEffects(t, thread[t].sid, thread[t].rearm)
      BY <2>16 DEF LockDrained, AwaitEffects
    <3>3. QED BY <2>16, <3>1, <3>2, AwaitTyped
              DEF LockDrained, TypeOK, ThreadState, NamesSession
  <2>17. ASSUME NEW t \in Threads, LockTimesOut(t) PROVE TypeOK'
    BY <2>17, AfterLockTyped, GoTyped DEF LockTimesOut, TypeOK, ThreadState, NamesSession
  <2>18. CASE UNCHANGED vars
    BY <2>18 DEF vars, TypeOK
  <2>19. QED
    BY <2>3, <2>4, <2>5, <2>6, <2>7, <2>8, <2>9, <2>10, <2>11, <2>12, <2>13,
       <2>14, <2>15, <2>16, <2>17, <2>18
       DEF Next, Operator, Effect, Waiting
<1>3. QED BY <1>1, <1>2, PTL DEF Spec

-------------------------------------------------------------------------------
(* The safety invariant.                                                   *)

LEMMA ActorsAreFinite == \A s : IsFiniteSet(ActorsOf(s))
BY SessionAssumption, FS_Subset DEF ActorsOf

\* inflight says truly that nothing acts.
LEMMA ZeroMeansQuiet ==
    ASSUME InflightIsExact, NEW s \in Sessions, inflight[s] = 0
    PROVE  ActorsOf(s) = {}
BY ActorsAreFinite, FS_EmptySet DEF InflightIsExact

LEMMA ActorsCount ==
    ASSUME InflightIsExact, NEW s \in Sessions, NEW t \in ActorsOf(s)
    PROVE  inflight[s] # 0
BY ActorsAreFinite, FS_EmptySet DEF InflightIsExact

\* Every thread acts for the same session, or none, before and after a step.
ActorsKept ==
    \A u \in Threads : /\ Acting(u)' <=> Acting(u)
                       /\ Acting(u) => thread'[u].sid = thread[u].sid

LEMMA GoKeepsActors ==
    ASSUME TypeOK, NEW t \in Threads, NEW st \in ThreadState, Go(t, st),
           Acting(t) <=> st.step \in {"effect", "report", "settle"},
           Acting(t) => st.sid = thread[t].sid
    PROVE  ActorsKept
BY DEF ActorsKept, Acting, Go, TypeOK

LEMMA ActorsKeptSets ==
    ASSUME ActorsKept PROVE \A s : ActorsOf(s)' = ActorsOf(s)
BY DEF ActorsKept, ActorsOf

\* A step that admits and settles nothing keeps the count and the single actor.
LEMMA CountKept ==
    ASSUME SessionInv, ActorsKept, inflight' = inflight,
           session'.sid \in {session.sid, NoSession}
    PROVE  InflightIsExact' /\ OneSessionActs'
BY ActorsKeptSets
   DEF SessionInv, InflightIsExact, OneSessionActs, ActorsKept, Acting

\* A call that ends the current session: it owes a code, waits for the effects
\* of that session, or is done; it may confirm the session if it is quiet.
LEMMA SessionEnds ==
    ASSUME TypeOK, SessionInv, NEW t \in Threads, NEW st \in ThreadState,
           At(t, "idle"), Go(t, st), st.step \in {"idle", "arm", "wait"},
           st.step = "wait" => st.sid = session.sid,
           session.sid # NoSession, EndSession,
           UNCHANGED <<code, inflight, opened>>,
           \/ UNCHANGED confirmed
           \/ /\ inflight[session.sid] = 0
              /\ confirmed' = confirmed \cup {session.sid}
    PROVE  SessionInv'
<1>1. ActorsKept /\ \A s : ActorsOf(s)' = ActorsOf(s)
  BY GoKeepsActors, ActorsKeptSets DEF At, Acting
<1>2. session'.sid = NoSession
  BY DEF EndSession, NobodyIn
<1>3. session.sid \in Sessions /\ session.sid = opened
  BY DEF TypeOK, SessionInv, PastIsPast, Sessions, NoSession
<1>0. opened \in Nat /\ Sessions = 1..MaxSessions /\ confirmed \subseteq Sessions
  BY DEF TypeOK, Sessions
<1>4. InflightIsExact' /\ OneSessionActs'
  BY <1>1, <1>2, CountKept
<1>5. ConfirmedIsQuiet'
  <2>1. ASSUME NEW s \in confirmed' PROVE s # NoSession /\ ActorsOf(s) = {}
    <3>1. CASE s \in confirmed
      BY <1>0, <3>1 DEF SessionInv, ConfirmedIsQuiet, NoSession
    <3>2. CASE inflight[session.sid] = 0 /\ s = session.sid
      BY <1>3, <3>2, ZeroMeansQuiet DEF SessionInv
    <3>3. QED BY <3>1, <3>2
  <2>2. QED BY <1>1, <1>2, <2>1 DEF ConfirmedIsQuiet
<1>6. OneWayIn'
  <2>1. code'.consumed /\ \A u \in Threads : ~OwesCode(u)
    BY DEF SessionInv, OneWayIn
  <2>2. \A u \in Threads : u # t => ~OwesCode(u)'
    BY <2>1 DEF Go, OwesCode, At, TypeOK
  <2>3. QED BY <1>2, <2>1, <2>2 DEF OneWayIn
<1>7. PendingRevocationIsKnown'
  <2>1. ASSUME NEW s \in Sessions, inflight[s] > 0
        PROVE  \E r \in RetireCurrent : r.sid = s
    <3>1. inflight[s] # 0
      BY <2>1 DEF TypeOK
    <3>2. CASE s = session.sid
      <4>1. [sid |-> session.sid, gen |-> session.gen] \in RetireCurrent
        BY <3>1, <3>2, RetireCurrentFacts
      <4>2. QED BY <3>2, <4>1
    <3>3. CASE s # session.sid
      <4>1. PICK r \in retired : r.sid = s
        BY <2>1, <3>3 DEF SessionInv, PendingRevocationIsKnown
      <4>2. QED BY <3>1, <4>1, RetireCurrentFacts
    <3>4. QED BY <3>2, <3>3
  <2>2. QED BY <2>1 DEF PendingRevocationIsKnown, EndSession
<1>8. PastIsPast'
  <2>1. \A r \in RetireCurrent : r.sid \in 1..opened
    BY <1>3, RetireCurrentFacts DEF SessionInv, PastIsPast, Sessions
  <2>2. \A u \in Threads : thread'[u] = IF u = t THEN st ELSE thread[u]
    BY DEF Go, TypeOK
  <2>3. confirmed' \subseteq 1..opened
    <3>1. session.sid \in 1..opened /\ confirmed \subseteq 1..opened
      BY <1>0, <1>3 DEF SessionInv, PastIsPast
    <3>2. QED BY <3>1
  <2>4. \A u \in Threads : ~At(u, "idle")' /\ ~At(u, "arm")' =>
            thread'[u].sid \in 1..opened
    BY <1>3, <2>2 DEF SessionInv, PastIsPast, At, Sessions
  <2>5. \A u \in Threads : At(u, "wait")' => thread'[u].sid # NoSession
    BY <1>3, <2>4 DEF At, NoSession
  <2>6. \A r \in retired' : r.sid \in 1..opened /\ r.sid # NoSession
    BY <2>1 DEF EndSession, NoSession
  <2>7. QED BY <1>2, <2>3, <2>4, <2>5, <2>6 DEF PastIsPast
<1>9. QED BY <1>4, <1>5, <1>6, <1>7, <1>8 DEF SessionInv

\* A call that waits for, confirms, or gives up on a past session.
LEMMA PastSessionStep ==
    ASSUME TypeOK, SessionInv, NEW t \in Threads, NEW st \in ThreadState,
           ~Acting(t), Go(t, st), st.step \in {"idle", "arm", "wait"},
           st.step = "wait" => st.sid \in 1..opened /\ st.sid # session.sid,
           st.step = "arm" \/ (st.step = "wait" /\ st.rearm) => OwesCode(t),
           UNCHANGED <<code, session, retired, inflight, opened>>,
           NEW s \in 1..opened, s # session.sid,
           \/ UNCHANGED confirmed
           \/ inflight[s] = 0 /\ confirmed' = confirmed \cup {s}
    PROVE  SessionInv'
<1>1. ActorsKept /\ \A x : ActorsOf(x)' = ActorsOf(x)
  BY GoKeepsActors, ActorsKeptSets DEF Acting
<1>2. InflightIsExact' /\ OneSessionActs'
  BY <1>1, CountKept
<1>3. s \in Sessions
  BY SessionAssumption DEF TypeOK, Sessions
<1>4. ConfirmedIsQuiet'
  <2>1. ASSUME NEW x \in confirmed' PROVE x # session.sid /\ ActorsOf(x) = {}
    BY <1>3, ZeroMeansQuiet DEF SessionInv, ConfirmedIsQuiet
  <2>2. QED BY <1>1, <2>1 DEF ConfirmedIsQuiet
<1>5. \A u \in Threads : thread'[u] = IF u = t THEN st ELSE thread[u]
  BY DEF Go, TypeOK
<1>6. OneWayIn'
  <2>1. \A u \in Threads : OwesCode(u)' => OwesCode(u)
    BY <1>5 DEF OwesCode, At
  <2>2. QED BY <2>1 DEF SessionInv, OneWayIn
<1>7. PendingRevocationIsKnown'
  BY DEF SessionInv, PendingRevocationIsKnown
<1>8. PastIsPast'
  <2>1. \A u \in Threads : ~At(u, "idle")' /\ ~At(u, "arm")' =>
            thread'[u].sid \in 1..opened
    BY <1>5 DEF SessionInv, PastIsPast, At
  <2>2. \A u \in Threads : At(u, "wait")' => thread'[u].sid # session.sid
    BY <1>5 DEF SessionInv, PastIsPast, At
  <2>3. QED BY <2>1, <2>2 DEF SessionInv, PastIsPast
<1>9. QED BY <1>2, <1>4, <1>6, <1>7, <1>8 DEF SessionInv

LEMMA RenewPreserves ==
    ASSUME TypeOK, SessionInv, NEW t \in Threads, NEW tok \in Tokens,
           Renew(t, tok)
    PROVE  SessionInv'
<1>1. CASE Matches(tok) /\ EndSession /\ Go(t, Arming)
  <2>1. Arming \in ThreadState /\ Arming.step = "arm"
    BY SessionAssumption DEF Arming, ThreadState, Steps, NoSession
  <2>2. QED BY <1>1, <2>1, SessionEnds DEF Renew, Matches
<1>2. CASE /\ session.sid # NoSession
           /\ session' = [session EXCEPT !.gen = @ + 1]
           /\ UNCHANGED <<retired, thread>>
  <2>1. session'.sid = session.sid
    BY <1>2 DEF TypeOK
  <2>2. /\ \A s : ActorsOf(s)' = ActorsOf(s)
        /\ \A u \in Threads : /\ Acting(u)' <=> Acting(u)
                              /\ OwesCode(u)' <=> OwesCode(u)
    BY <1>2 DEF ActorsOf, Acting, OwesCode, At
  <2>3. QED
    BY <1>2, <2>1, <2>2
       DEF Renew, SessionInv, InflightIsExact, OneSessionActs,
           ConfirmedIsQuiet, OneWayIn, PendingRevocationIsKnown, PastIsPast, At
<1>3. CASE UNCHANGED <<session, retired, thread>>
  BY <1>3 DEF Renew, SessionInv, InflightIsExact, OneSessionActs, OwesCode,
     ConfirmedIsQuiet, OneWayIn, PendingRevocationIsKnown, PastIsPast, At,
     ActorsOf, Acting
<1>4. QED BY <1>1, <1>2, <1>3 DEF Renew, Valid, Matches

\* What lock() does while it waits, or does not have to.
LEMMA AwaitStep ==
    ASSUME TypeOK, NEW t \in Threads, NEW s \in Sessions,
           NEW rearm \in BOOLEAN, AwaitEffects(t, s, rearm)
    PROVE  \E st \in ThreadState :
              /\ Go(t, st)
              /\ st.step \in {"idle", "arm", "wait"}
              /\ st.step = "wait" => st.sid = s
              /\ st.step = "arm" \/ (st.step = "wait" /\ st.rearm) => rearm
              /\ \/ UNCHANGED confirmed
                 \/ inflight[s] = 0 /\ confirmed' = confirmed \cup {s}
<1>1. CASE inflight[s] = 0 /\ AnswerDrained(t, s, rearm)
  <2>1. /\ AfterLock(rearm) \in ThreadState
        /\ AfterLock(rearm).step \in {"idle", "arm"}
        /\ AfterLock(rearm).step # "idle" => rearm
    BY AfterLockTyped DEF AfterLock, Arming, Idle
  <2>2. QED BY <1>1, <2>1 DEF AnswerDrained
<1>2. CASE /\ Go(t, [step |-> "wait", sid |-> s, rearm |-> rearm])
           /\ UNCHANGED confirmed
  <2>1. [step |-> "wait", sid |-> s, rearm |-> rearm] \in ThreadState
    BY SessionAssumption DEF ThreadState, Steps, Sessions
  <2>2. QED BY <1>2, <2>1
<1>3. QED BY <1>1, <1>2 DEF AwaitEffects

LEMMA LockPreserves ==
    ASSUME TypeOK, SessionInv, NEW t \in Threads, NEW tok \in Tokens,
           Lock(t, tok)
    PROVE  SessionInv'
<1>1. tok.sid \in Sessions
  BY DEF Tokens
<1>2. CASE LockLive(t, tok)
  <2>1. tok.sid = session.sid /\ session.sid # NoSession
    BY <1>2 DEF LockLive, Valid, Matches
  <2>2. PICK st \in ThreadState :
              /\ Go(t, st)
              /\ st.step \in {"idle", "arm", "wait"}
              /\ st.step = "wait" => st.sid = tok.sid
              /\ \/ UNCHANGED confirmed
                 \/ /\ inflight[tok.sid] = 0
                    /\ confirmed' = confirmed \cup {tok.sid}
    BY <1>1, <1>2, AwaitStep, ZenonT(60) DEF LockLive
  <2>3. QED BY <1>2, <2>1, <2>2, SessionEnds DEF Lock, LockLive
<1>3. CASE LockExpired(t, tok)
  <2>1. Arming \in ThreadState /\ Arming.step = "arm"
    BY SessionAssumption DEF Arming, ThreadState, Steps, NoSession
  <2>2. CASE AwaitEffects(t, tok.sid, FALSE)
    BY <1>1, <1>3, <2>2, AwaitStep, SessionEnds, ZenonT(60) DEF Lock, LockExpired, Matches
  <2>3. CASE Go(t, Arming) /\ UNCHANGED confirmed
    BY <1>3, <2>1, <2>3, SessionEnds DEF Lock, LockExpired, Matches
  <2>4. QED BY <1>3, <2>2, <2>3 DEF LockExpired
<1>4. CASE LockRetired(t, tok)
  <2>1. tok.sid \in 1..opened /\ tok.sid # session.sid
    BY <1>4 DEF LockRetired, SessionInv, PastIsPast
  <2>2. PICK st \in ThreadState :
              /\ Go(t, st)
              /\ st.step \in {"idle", "arm", "wait"}
              /\ st.step = "wait" => st.sid = tok.sid
              /\ ~(st.step = "arm" \/ (st.step = "wait" /\ st.rearm))
              /\ \/ UNCHANGED confirmed
                 \/ /\ inflight[tok.sid] = 0
                    /\ confirmed' = confirmed \cup {tok.sid}
    BY <1>1, <1>4, AwaitStep, ZenonT(60) DEF LockRetired
  <2>3. ~Acting(t)
    BY DEF Lock, At, Acting
  <2>4. QED BY <1>4, <2>1, <2>2, <2>3, PastSessionStep DEF Lock, LockRetired
<1>5. QED BY <1>2, <1>3, <1>4 DEF Lock

LEMMA UnlockPreserves ==
    ASSUME TypeOK, SessionInv, Unlock PROVE SessionInv'
<1>1. \A s \in Sessions : ActorsOf(s) = {}
  BY ZeroMeansQuiet DEF SessionInv, Unlock, MayAttempt
<1>2. \A t \in Threads : ~Acting(t)
  BY <1>1 DEF TypeOK, ActorsOf, Acting
<1>3. /\ \A s : ActorsOf(s)' = ActorsOf(s)
      /\ \A t \in Threads : /\ Acting(t)' <=> Acting(t)
                            /\ OwesCode(t)' <=> OwesCode(t)
                            /\ thread'[t] = thread[t]
  BY DEF Unlock, ActorsOf, Acting, OwesCode, At
<1>4. session'.sid = opened + 1 /\ opened' = opened + 1 /\ opened \in Nat
  BY DEF Unlock, TypeOK
<1>5. InflightIsExact' /\ OneSessionActs'
  BY <1>2, <1>3 DEF Unlock, SessionInv, InflightIsExact, OneSessionActs
<1>6. ConfirmedIsQuiet' /\ PastIsPast'
  <2>1. \A n \in 1..opened : n \in 1..opened' /\ n # session'.sid
    BY <1>4
  <2>2. \A t \in Threads : /\ At(t, "idle")' <=> At(t, "idle")
                           /\ At(t, "arm")' <=> At(t, "arm")
                           /\ At(t, "wait")' <=> At(t, "wait")
    BY DEF Unlock, At
  <2>3. \A t \in Threads : ~At(t, "idle") /\ ~At(t, "arm") =>
            thread[t].sid \in 1..opened
    BY DEF SessionInv, PastIsPast
  <2>4. /\ confirmed' \subseteq 1..opened
        /\ \A r \in retired' : r.sid \in 1..opened
    BY DEF Unlock, SessionInv, PastIsPast
  <2>5. PastIsPast'
    BY <1>3, <1>4, <2>1, <2>2, <2>3, <2>4 DEF PastIsPast, At
  <2>6. ConfirmedIsQuiet'
    BY <1>3, <2>1, <2>4 DEF Unlock, SessionInv, ConfirmedIsQuiet
  <2>7. QED BY <2>5, <2>6
<1>7. OneWayIn'
  <2>1. \A t \in Threads : ~OwesCode(t)
    BY DEF Unlock, CodeRefused, SessionInv, OneWayIn
  <2>2. code'.consumed
    BY DEF Unlock, TypeOK
  <2>3. QED BY <1>3, <2>1, <2>2 DEF OneWayIn
<1>8. PendingRevocationIsKnown'
  BY DEF Unlock, MayAttempt, PendingRevocationIsKnown
<1>9. QED BY <1>5, <1>6, <1>7, <1>8 DEF SessionInv

LEMMA ExecutePreserves ==
    ASSUME TypeOK, SessionInv, NEW t \in Threads, NEW tok \in Tokens,
           NEW expected \in Sessions, NEW caps \in SUBSET Capabilities,
           ExecuteCurrent(t, tok, expected, caps)
    PROVE  SessionInv'
<1> DEFINE st == [step |-> "effect", sid |-> expected, rearm |-> FALSE]
<1>1. \A u \in Threads : thread'[u] = IF u = t THEN st ELSE thread[u]
  BY DEF ExecuteCurrent, Go, TypeOK
<1>2. /\ expected = session.sid /\ expected = opened /\ expected # NoSession
      /\ expected \in 1..opened
      /\ ~Acting(t) /\ ~OwesCode(t)
      /\ UNCHANGED <<code, session, retired, confirmed, opened>>
  BY DEF ExecuteCurrent, Valid, Matches, At, Acting, OwesCode, SessionInv,
         PastIsPast, Sessions, NoSession, TypeOK
<1>3. /\ \A u \in Threads : Acting(u)' <=> (Acting(u) \/ u = t)
      /\ \A u \in Threads : OwesCode(u)' => OwesCode(u)
  BY <1>1, <1>2 DEF Acting, OwesCode, At
<1>4. /\ ActorsOf(expected)' = ActorsOf(expected) \cup {t}
      /\ t \notin ActorsOf(expected)
      /\ \A s : s # expected => ActorsOf(s)' = ActorsOf(s)
  BY <1>1, <1>2, <1>3 DEF ActorsOf
<1>5. InflightIsExact'
  <2>1. Cardinality(ActorsOf(expected)') = Cardinality(ActorsOf(expected)) + 1
    BY <1>4, ActorsAreFinite, FS_AddElement
  <2>2. \A s \in Sessions :
            inflight'[s] = IF s = expected THEN inflight[s] + 1 ELSE inflight[s]
    BY DEF ExecuteCurrent, TypeOK
  <2>3. QED BY <1>4, <2>1, <2>2 DEF SessionInv, InflightIsExact
<1>6. OneSessionActs'
  <2>1. \A u \in Threads : Acting(u)' => thread'[u].sid = session.sid
    BY <1>1, <1>2, <1>3 DEF SessionInv, OneSessionActs
  <2>2. QED BY <1>2, <2>1 DEF OneSessionActs
<1>7. ConfirmedIsQuiet'
  BY <1>2, <1>4 DEF SessionInv, ConfirmedIsQuiet
<1>8. OneWayIn'
  BY <1>2, <1>3 DEF SessionInv, OneWayIn
<1>9. PendingRevocationIsKnown'
  BY <1>2 DEF ExecuteCurrent, SessionInv, PendingRevocationIsKnown, TypeOK
<1>10. PastIsPast'
  <2>1. \A u \in Threads : ~At(u, "idle")' /\ ~At(u, "arm")' =>
            thread'[u].sid \in 1..opened
    BY <1>1, <1>2 DEF SessionInv, PastIsPast, At
  <2>2. \A u \in Threads : At(u, "wait")' => thread'[u].sid # session.sid
    BY <1>1, <1>2 DEF SessionInv, PastIsPast, At
  <2>3. QED BY <1>2, <2>1, <2>2 DEF SessionInv, PastIsPast
<1>11. QED BY <1>5, <1>6, <1>7, <1>8, <1>9, <1>10 DEF SessionInv

LEMMA SettlePreserves ==
    ASSUME TypeOK, SessionInv, NEW t \in Threads, Settle(t)
    PROVE  SessionInv'
<1>0. PICK s0 \in Sessions : s0 = thread[t].sid
  BY DEF Settle, At, TypeOK
<1>1. /\ \A u \in Threads : thread'[u] = IF u = t THEN Idle ELSE thread[u]
      /\ Acting(t)
      /\ UNCHANGED <<code, session, retired, confirmed, opened>>
  BY DEF Settle, Go, At, Acting, TypeOK
<1>2. /\ \A u \in Threads : Acting(u)' <=> (Acting(u) /\ u # t)
      /\ \A u \in Threads : OwesCode(u)' => OwesCode(u)
  BY <1>1 DEF Acting, OwesCode, At, Idle
<1>3. /\ ActorsOf(s0)' = ActorsOf(s0) \ {t}
      /\ t \in ActorsOf(s0)
      /\ \A s : s # s0 => ActorsOf(s)' = ActorsOf(s)
  BY <1>0, <1>1, <1>2 DEF ActorsOf
<1>4. InflightIsExact'
  <2>1. Cardinality(ActorsOf(s0)') = Cardinality(ActorsOf(s0)) - 1
    BY <1>3, ActorsAreFinite, FS_RemoveElement
  <2>2. \A s \in Sessions :
            inflight'[s] = IF s = s0 THEN inflight[s] - 1 ELSE inflight[s]
    BY <1>0 DEF Settle, TypeOK
  <2>3. QED BY <1>0, <1>3, <2>1, <2>2 DEF SessionInv, InflightIsExact
<1>5. OneSessionActs'
  BY <1>1, <1>2 DEF SessionInv, OneSessionActs
<1>6. ConfirmedIsQuiet'
  BY <1>1, <1>3 DEF SessionInv, ConfirmedIsQuiet
<1>7. OneWayIn'
  BY <1>1, <1>2 DEF SessionInv, OneWayIn
<1>8. PendingRevocationIsKnown'
  <2>1. \A s \in Sessions : inflight'[s] > 0 => inflight[s] > 0
    BY DEF Settle, TypeOK
  <2>2. QED BY <1>1, <2>1 DEF SessionInv, PendingRevocationIsKnown
<1>9. PastIsPast'
  BY <1>1 DEF SessionInv, PastIsPast, At, Idle
<1>10. QED BY <1>4, <1>5, <1>6, <1>7, <1>8, <1>9 DEF SessionInv

LEMMA SmallStepsPreserve ==
    ASSUME TypeOK, SessionInv, NEW t \in Threads,
           \/ Arm(t)
           \/ \E doubt \in BOOLEAN : EffectReturns(t, doubt)
           \/ ReportUncertain(t)
    PROVE  SessionInv'
<1>1. UNCHANGED <<session, retired, inflight, confirmed, opened>>
  BY DEF Arm, EffectReturns, ReportUncertain
<1> DEFINE st == thread'[t]
<1>2. /\ \A u \in Threads : thread'[u] = IF u = t THEN st ELSE thread[u]
      /\ \/ Arm(t) /\ st = Idle
         \/ /\ Acting(t)
            /\ st.step \in {"report", "settle"}
            /\ st.sid = thread[t].sid
            /\ UNCHANGED code
  <2>1. CASE Arm(t)
    BY <2>1 DEF Arm, Go, TypeOK
  <2>2. CASE \E doubt \in BOOLEAN : EffectReturns(t, doubt)
    BY <2>2 DEF EffectReturns, Go, At, Acting, TypeOK
  <2>3. CASE ReportUncertain(t)
    BY <2>3 DEF ReportUncertain, Go, At, Acting, TypeOK
  <2>4. QED BY <2>1, <2>2, <2>3
<1>3. ActorsKept
  BY <1>2 DEF ActorsKept, Acting, Arm, At, Idle
<1>4. \A s : ActorsOf(s)' = ActorsOf(s)
  BY <1>3, ActorsKeptSets
<1>5. InflightIsExact' /\ OneSessionActs'
  BY <1>1, <1>3, CountKept
<1>6. ConfirmedIsQuiet' /\ PendingRevocationIsKnown'
  BY <1>1, <1>4 DEF SessionInv, ConfirmedIsQuiet, PendingRevocationIsKnown
<1>7. PastIsPast'
  <2>1. \A u \in Threads : ~At(u, "idle")' /\ ~At(u, "arm")' =>
            thread'[u].sid \in 1..opened
    BY <1>2 DEF SessionInv, PastIsPast, At, Idle, Acting
  <2>2. \A u \in Threads : At(u, "wait")' => thread'[u].sid # session.sid
    BY <1>2 DEF SessionInv, PastIsPast, At, Idle
  <2>3. QED BY <1>1, <2>1, <2>2 DEF SessionInv, PastIsPast
<1>8. OneWayIn'
  <2>1. \A u \in Threads : OwesCode(u)' => OwesCode(u) /\ u # t
    BY <1>2 DEF OwesCode, At, Idle
  <2>2. CASE UNCHANGED code
    BY <1>1, <2>1, <2>2 DEF SessionInv, OneWayIn
  <2>3. CASE Arm(t)
    BY <1>1, <2>1, <2>3 DEF Arm, OwesCode, SessionInv, OneWayIn
  <2>4. QED BY <1>2, <2>2, <2>3
<1>9. QED BY <1>5, <1>6, <1>7, <1>8 DEF SessionInv

LEMMA WaiterPreserves ==
    ASSUME TypeOK, SessionInv, NEW t \in Threads, Waiting(t)
    PROVE  SessionInv'
<1> DEFINE st == AfterLock(thread[t].rearm)
<1>1. /\ thread[t].sid \in 1..opened
      /\ thread[t].sid # session.sid
      /\ thread[t].rearm \in BOOLEAN
      /\ ~Acting(t)
  BY DEF Waiting, LockDrained, LockTimesOut, At, Acting, TypeOK, SessionInv,
         PastIsPast
<1>2. /\ st \in ThreadState
      /\ st.step \in {"idle", "arm"}
      /\ st.step = "arm" => OwesCode(t)
  BY <1>1, AfterLockTyped
     DEF Waiting, LockDrained, LockTimesOut, AfterLock, Idle, Arming, OwesCode
<1>3. PICK s \in 1..opened : s = thread[t].sid
  BY <1>1
<1>4. /\ Go(t, st)
      /\ \/ UNCHANGED confirmed
         \/ inflight[s] = 0 /\ confirmed' = confirmed \cup {s}
      /\ UNCHANGED <<code, session, retired, inflight, opened>>
  BY <1>3 DEF Waiting, LockDrained, LockTimesOut, AnswerDrained
<1>5. QED BY <1>1, <1>2, <1>3, <1>4, PastSessionStep

\* Nothing SessionInv speaks about moves.
LEMMA QuietStepPreserves ==
    ASSUME TypeOK, SessionInv, code'.consumed = code.consumed,
           session'.sid = session.sid,
           UNCHANGED <<retired, inflight, thread, confirmed, opened>>
    PROVE  SessionInv'
BY DEF SessionInv, InflightIsExact, OneSessionActs, ConfirmedIsQuiet, OneWayIn,
       PendingRevocationIsKnown, PastIsPast, ActorsOf, Acting, OwesCode, At

LEMMA TimePreserves == ASSUME TypeOK, SessionInv, Time PROVE SessionInv'
<1>1. code'.consumed = code.consumed /\ session'.sid = session.sid
  BY DEF Time, CodeExpires, ChallengeExpires, SessionExpires, WindowSlides,
         TypeOK
<1>2. UNCHANGED <<retired, inflight, thread, confirmed, opened>>
  BY DEF Time, CodeExpires, ChallengeExpires, SessionExpires, WindowSlides
<1>3. QED BY <1>1, <1>2, QuietStepPreserves

LEMMA InitEstablishes == Init => SessionInv
<1> SUFFICES ASSUME Init PROVE SessionInv
  OBVIOUS
<1>1. \A s : ActorsOf(s) = {}
  BY DEF Init, ActorsOf, Acting, Idle
<1>2. QED
  BY <1>1, FS_EmptySet
     DEF Init, SessionInv, InflightIsExact, OneSessionActs, ConfirmedIsQuiet,
         OneWayIn, PendingRevocationIsKnown, PastIsPast, OwesCode, Acting, At,
         Idle, NobodyIn, NoSession

LEMMA RestartPreserves == ASSUME TypeOK, SessionInv, Restart PROVE SessionInv'
<1>1. \A s : ActorsOf(s)' = {}
  BY DEF Restart, ActorsOf, Acting, Idle
<1>2. confirmed' \subseteq 1..opened' /\ opened' \in Nat
  BY DEF TypeOK, SessionInv, PastIsPast, Restart
<1>3. \A s \in confirmed' : s # NoSession
  BY <1>2 DEF NoSession
<1>4. QED
  <2>1. \A t \in Threads : thread'[t] = Idle
    BY DEF Restart
  <2>2. session'.sid = NoSession /\ retired' = {}
    BY DEF Restart, NobodyIn
  <2>3. InflightIsExact' /\ PendingRevocationIsKnown'
    BY <1>1, FS_EmptySet DEF Restart, InflightIsExact, PendingRevocationIsKnown
  <2>4. OneSessionActs' /\ OneWayIn'
    BY <2>1, <2>2 DEF OneSessionActs, OneWayIn, OwesCode, Acting, At, Idle
  <2>5. ConfirmedIsQuiet' /\ PastIsPast'
    BY <1>1, <1>2, <1>3, <2>1, <2>2
       DEF ConfirmedIsQuiet, PastIsPast, At, Idle
  <2>6. QED BY <2>3, <2>4, <2>5 DEF SessionInv

\* The manager's safety: one session acts at a time, a confirmed session never
\* again, a code opens nothing while a session is live, the in-flight count is
\* exact and a session that still acts after its end is remembered.
THEOREM SessionSafety == Spec => []SessionInv
<1>1. TypeOK /\ SessionInv /\ [Next]_vars => SessionInv'
  <2> SUFFICES ASSUME TypeOK, SessionInv, [Next]_vars PROVE SessionInv'
    OBVIOUS
  <2>1. CASE IssueChallenge \/ \E matches \in BOOLEAN : UnlockRefused(matches)
    BY <2>1, QuietStepPreserves DEF IssueChallenge, UnlockRefused
  <2>2. CASE Unlock
    BY <2>2, UnlockPreserves
  <2>3. ASSUME NEW t \in Threads, NEW tok \in Tokens, NoticeExpiry(t, tok)
        PROVE  SessionInv'
    <3>1. Arming \in ThreadState /\ Arming.step = "arm"
      BY SessionAssumption DEF Arming, ThreadState, Steps, NoSession
    <3>2. QED BY <2>3, <3>1, SessionEnds DEF NoticeExpiry, Matches
  <2>4. ASSUME NEW t \in Threads, NEW tok \in Tokens,
               Renew(t, tok) \/ Lock(t, tok)
        PROVE  SessionInv'
    BY <2>4, RenewPreserves, LockPreserves
  <2>5. CASE Time
    BY <2>5, TimePreserves
  <2>6. CASE Restart
    BY <2>6, RestartPreserves
  <2>7. ASSUME NEW t \in Threads, Arm(t) \/ Effect(t) \/ Waiting(t)
        PROVE  SessionInv'
    BY <2>7, SmallStepsPreserve, ExecutePreserves, SettlePreserves,
       WaiterPreserves DEF Effect
  <2>8. CASE UNCHANGED vars
    BY <2>8, QuietStepPreserves DEF vars
  <2>9. QED BY <2>1, <2>2, <2>3, <2>4, <2>5, <2>6, <2>7, <2>8
            DEF Next, Operator
<1>2. QED BY <1>1, InitEstablishes, TypeCorrect, PTL DEF Spec

COROLLARY OneSessionActsAlways == Spec => []OneSessionActs
BY SessionSafety, PTL DEF SessionInv

\* An acknowledged lock() is final.
COROLLARY ConfirmedIsQuietAlways == Spec => []ConfirmedIsQuiet
BY SessionSafety, PTL DEF SessionInv

\* No code opens a second session beside a live one.
COROLLARY OneWayInAlways == Spec => []OneWayIn
BY SessionSafety, PTL DEF SessionInv

\* Nothing opens after an effect left its outcome in doubt.
THEOREM DoubtBars == Spec => DoubtBarsOpening
<1>1. TypeOK /\ SessionInv /\ [Next]_vars
          => [opened' > opened => ~InDoubt]_vars
  <2> SUFFICES ASSUME TypeOK, SessionInv, [Next]_vars, opened' > opened
               PROVE  ~InDoubt
    OBVIOUS
  <2>1. Unlock
    <3>1. Operator => Unlock \/ UNCHANGED opened
      BY DEF Operator, IssueChallenge, UnlockRefused, NoticeExpiry, Renew, Lock
    <3>2. Time \/ Restart \/ UNCHANGED vars => UNCHANGED opened
      BY DEF Time, CodeExpires, ChallengeExpires, SessionExpires, WindowSlides,
             Restart, vars
    <3>3. \A t \in Threads :
              Arm(t) \/ Effect(t) \/ Waiting(t) => UNCHANGED opened
      BY DEF Arm, Effect, ExecuteCurrent, EffectReturns, ReportUncertain,
             Settle, Waiting, LockDrained, LockTimesOut
    <3>4. opened' # opened
      BY DEF TypeOK
    <3>5. QED BY <3>1, <3>2, <3>3, <3>4 DEF Next
  <2>2. \A s \in Sessions : ActorsOf(s) = {}
    BY <2>1, ZeroMeansQuiet DEF SessionInv, Unlock, MayAttempt
  <2>3. QED BY <2>1, <2>2
            DEF InDoubt, Unlock, MayAttempt, ActorsOf, Acting, At, TypeOK
<1>2. QED BY <1>1, TypeCorrect, SessionSafety, PTL DEF Spec, DoubtBarsOpening

-------------------------------------------------------------------------------
(* The manager implements AdminAuthority.                                  *)

AuthorityStep == [Authority!AuthorityNext]_(Authority!authorityVars)

LEMMA ActorsKeptMapped == ASSUME ActorsKept PROVE ActingFor' = ActingFor
BY DEF ActorsKept, ActingFor

LEMMA NobodyActsFor ==
    ASSUME SessionInv, NEW s \in Sessions, inflight[s] = 0
    PROVE  \A t \in Threads : ActingFor[t] # s
<1>1. ActorsOf(s) = {}
  BY ZeroMeansQuiet DEF SessionInv
<1>2. QED BY <1>1 DEF ActorsOf, ActingFor, Sessions, NoSession

\* A step the caller of the abstract module does not see.
LEMMA Unseen ==
    ASSUME session'.sid = session.sid, ActingFor' = ActingFor,
           InDoubt' <=> InDoubt, UNCHANGED <<confirmed, opened>>
    PROVE  AuthorityStep
BY DEF AuthorityStep, Authority!authorityVars, InDoubt

LEMMA SessionEndsMapped ==
    ASSUME TypeOK, SessionInv, NEW t \in Threads, NEW st \in ThreadState,
           At(t, "idle"), Go(t, st), st.step \in {"idle", "arm", "wait"},
           session.sid # NoSession, EndSession,
           UNCHANGED <<uncertain, opened>>,
           \/ UNCHANGED confirmed
           \/ /\ inflight[session.sid] = 0
              /\ confirmed' = confirmed \cup {session.sid}
    PROVE  AuthorityStep
<1>1. ActorsKept /\ ActingFor' = ActingFor
  BY GoKeepsActors, ActorsKeptMapped DEF At, Acting
<1>2. session'.sid = NoSession /\ session.sid \in Sessions
  BY DEF EndSession, NobodyIn, TypeOK, Sessions, NoSession
<1>3. InDoubt' <=> InDoubt
  BY DEF InDoubt, At, Go, TypeOK
<1>4. \/ UNCHANGED confirmed
      \/ /\ \A u \in Threads : ActingFor[u] # session.sid
         /\ confirmed' = confirmed \cup {session.sid}
  BY <1>2, NobodyActsFor
<1>5. Authority!Close
  BY <1>1, <1>2, <1>3, <1>4 DEF Authority!Close, Authority!NoSession, NoSession
<1>6. QED BY <1>5 DEF AuthorityStep, Authority!AuthorityNext

LEMMA PastSessionMapped ==
    ASSUME TypeOK, SessionInv, NEW t \in Threads, NEW st \in ThreadState,
           ~Acting(t), Go(t, st), st.step \in {"idle", "arm", "wait"},
           UNCHANGED <<session, uncertain, opened>>,
           NEW s \in 1..opened, s # session.sid,
           \/ UNCHANGED confirmed
           \/ inflight[s] = 0 /\ confirmed' = confirmed \cup {s}
    PROVE  AuthorityStep
<1>1. ActorsKept /\ ActingFor' = ActingFor
  BY GoKeepsActors, ActorsKeptMapped DEF Acting
<1>2. s \in Sessions
  BY SessionAssumption DEF TypeOK, Sessions
<1>3. InDoubt' <=> InDoubt
  BY DEF InDoubt, At, Acting, Go, TypeOK
<1>4. CASE UNCHANGED confirmed
  BY <1>1, <1>3, <1>4, Unseen
<1>5. CASE inflight[s] = 0 /\ confirmed' = confirmed \cup {s}
  <2>1. \A u \in Threads : ActingFor[u] # s
    BY <1>2, <1>5, NobodyActsFor
  <2>2. Authority!Confirm(s)
    BY <1>1, <1>3, <1>5, <2>1 DEF Authority!Confirm
  <2>3. QED BY <1>2, <2>2
            DEF AuthorityStep, Authority!AuthorityNext, Authority!Sessions,
                Sessions
<1>6. QED BY <1>4, <1>5

LEMMA RenewMapped ==
    ASSUME TypeOK, SessionInv, NEW t \in Threads, NEW tok \in Tokens,
           Renew(t, tok)
    PROVE  AuthorityStep
<1>1. CASE Matches(tok) /\ EndSession /\ Go(t, Arming)
  <2>1. Arming \in ThreadState /\ Arming.step = "arm"
    BY SessionAssumption DEF Arming, ThreadState, Steps, NoSession
  <2>2. QED BY <1>1, <2>1, SessionEndsMapped DEF Renew, Matches
<1>2. CASE session'.sid = session.sid /\ UNCHANGED thread
  <2>1. ActingFor' = ActingFor /\ (InDoubt' <=> InDoubt)
    BY <1>2 DEF Renew, ActingFor, Acting, InDoubt, At
  <2>2. QED BY <1>2, <2>1, Unseen DEF Renew
<1>3. QED BY <1>1, <1>2 DEF Renew, TypeOK

LEMMA LockMapped ==
    ASSUME TypeOK, SessionInv, NEW t \in Threads, NEW tok \in Tokens,
           Lock(t, tok)
    PROVE  AuthorityStep
<1>1. tok.sid \in Sessions
  BY DEF Tokens
<1>2. CASE Matches(tok) /\ EndSession
  <2>1. tok.sid = session.sid /\ session.sid # NoSession
    BY <1>2 DEF Matches
  <2>2. \E st \in ThreadState :
            /\ Go(t, st)
            /\ st.step \in {"idle", "arm", "wait"}
            /\ \/ UNCHANGED confirmed
               \/ /\ inflight[session.sid] = 0
                  /\ confirmed' = confirmed \cup {session.sid}
    <3>1. Arming \in ThreadState /\ Arming.step = "arm"
      BY SessionAssumption DEF Arming, ThreadState, Steps, NoSession
    <3>2. CASE Go(t, Arming) /\ UNCHANGED confirmed
      BY <3>1, <3>2
    <3>3. CASE AwaitEffects(t, tok.sid, TRUE)
      BY <1>1, <2>1, <3>3, AwaitStep
    <3>4. CASE AwaitEffects(t, tok.sid, FALSE)
      BY <1>1, <2>1, <3>4, AwaitStep
    <3>5. QED BY <1>2, <3>2, <3>3, <3>4
              DEF Lock, LockLive, LockExpired, LockRetired
  <2>3. QED BY <1>2, <2>1, <2>2, SessionEndsMapped DEF Lock
<1>3. CASE LockRetired(t, tok)
  <2>1. tok.sid \in 1..opened /\ tok.sid # session.sid
    BY <1>3 DEF LockRetired, SessionInv, PastIsPast
  <2>2. PICK st \in ThreadState :
              /\ Go(t, st)
              /\ st.step \in {"idle", "arm", "wait"}
              /\ \/ UNCHANGED confirmed
                 \/ /\ inflight[tok.sid] = 0
                    /\ confirmed' = confirmed \cup {tok.sid}
    BY <1>1, <1>3, AwaitStep DEF LockRetired
  <2>3. ~Acting(t)
    BY DEF Lock, At, Acting
  <2>4. QED BY <1>3, <2>1, <2>2, <2>3, PastSessionMapped DEF Lock, LockRetired
<1>4. QED BY <1>2, <1>3 DEF Lock, LockLive, LockExpired, Valid

LEMMA WaiterMapped ==
    ASSUME TypeOK, SessionInv, NEW t \in Threads, Waiting(t)
    PROVE  AuthorityStep
<1> DEFINE st == AfterLock(thread[t].rearm)
<1>1. /\ thread[t].sid \in 1..opened
      /\ thread[t].sid # session.sid
      /\ thread[t].rearm \in BOOLEAN
      /\ ~Acting(t)
  BY DEF Waiting, LockDrained, LockTimesOut, At, Acting, TypeOK, SessionInv,
         PastIsPast
<1>2. st \in ThreadState /\ st.step \in {"idle", "arm"}
  BY <1>1, AfterLockTyped DEF AfterLock, Idle, Arming
<1>3. PICK s \in 1..opened : s = thread[t].sid
  BY <1>1
<1>4. /\ Go(t, st)
      /\ \/ UNCHANGED confirmed
         \/ inflight[s] = 0 /\ confirmed' = confirmed \cup {s}
      /\ UNCHANGED <<session, uncertain, opened>>
  BY <1>3 DEF Waiting, LockDrained, LockTimesOut, AnswerDrained
<1>5. QED BY <1>1, <1>2, <1>3, <1>4, PastSessionMapped

LEMMA UnlockMapped ==
    ASSUME TypeOK, SessionInv, Unlock PROVE AuthorityStep
<1>1. \A s \in Sessions : ActorsOf(s) = {}
  BY ZeroMeansQuiet DEF SessionInv, Unlock, MayAttempt
<1>2. \A t \in Threads : ~Acting(t) /\ ~At(t, "report")
  BY <1>1 DEF TypeOK, ActorsOf, Acting, At
<1>3. \A t \in Threads : ActingFor[t] = NoSession
  BY <1>2 DEF ActingFor
<1>4. ActingFor' = ActingFor /\ ~InDoubt /\ (InDoubt' <=> InDoubt)
  BY <1>2 DEF Unlock, MayAttempt, ActingFor, Acting, InDoubt, At
<1>5. session.sid = NoSession
  BY DEF Unlock, CodeRefused, SessionInv, OneWayIn, TypeOK
<1>6. Authority!Open
  <2>1. session'.sid = opened' /\ opened' = opened + 1
    BY DEF Unlock
  <2>2. opened < MaxSessions /\ UNCHANGED confirmed
    BY DEF Unlock
  <2>3. Authority!Quiet
    BY <1>3 DEF Authority!Quiet, Authority!NoSession, NoSession
  <2>4. UNCHANGED <<ActingFor, InDoubt, confirmed>>
    BY <1>4, <2>2 DEF InDoubt
  <2>5. session.sid = Authority!NoSession
    BY <1>5 DEF Authority!NoSession, NoSession
  <2>6. QED
    BY <1>4, <2>1, <2>2, <2>3, <2>4, <2>5, Zenon DEF Authority!Open
<1>7. QED BY <1>6 DEF AuthorityStep, Authority!AuthorityNext

LEMMA ExecuteMapped ==
    ASSUME TypeOK, SessionInv, NEW t \in Threads, NEW tok \in Tokens,
           NEW expected \in Sessions, NEW caps \in SUBSET Capabilities,
           ExecuteCurrent(t, tok, expected, caps)
    PROVE  AuthorityStep
<1> DEFINE st == [step |-> "effect", sid |-> expected, rearm |-> FALSE]
<1>1. \A u \in Threads : thread'[u] = IF u = t THEN st ELSE thread[u]
  BY DEF ExecuteCurrent, Go, TypeOK
<1>2. /\ session.sid = expected /\ expected # NoSession
      /\ ActingFor[t] = NoSession
  BY DEF ExecuteCurrent, Valid, Matches, At, ActingFor, Acting
<1>3. ActingFor' = [ActingFor EXCEPT ![t] = session.sid]
  <2>1. \A u \in Threads : u # t =>
            (Acting(u)' <=> Acting(u)) /\ thread'[u].sid = thread[u].sid
    BY <1>1 DEF Acting
  <2>2. Acting(t)' /\ thread'[t].sid = session.sid
    BY <1>1, <1>2 DEF Acting
  <2>3. QED BY <2>1, <2>2 DEF ActingFor
<1>4. InDoubt' <=> InDoubt
  BY <1>1 DEF ExecuteCurrent, InDoubt, At
<1>5. Authority!Begin(t)
  BY <1>2, <1>3, <1>4
     DEF ExecuteCurrent, Authority!Begin, Authority!NoSession, NoSession
<1>6. QED BY <1>5 DEF AuthorityStep, Authority!AuthorityNext

LEMMA EffectMapped ==
    ASSUME TypeOK, SessionInv, NEW t \in Threads, NEW doubt \in BOOLEAN,
           EffectReturns(t, doubt)
    PROVE  AuthorityStep
<1> DEFINE st == [thread[t] EXCEPT !.step = IF doubt THEN "report"
                                            ELSE "settle"]
<1>1. /\ \A u \in Threads : thread'[u] = IF u = t THEN st ELSE thread[u]
      /\ st.sid = thread[t].sid /\ st.step = IF doubt THEN "report" ELSE "settle"
      /\ thread[t].sid \in Sessions /\ thread[t].step = "effect"
  BY DEF EffectReturns, Go, At, TypeOK
<1>2. ActingFor' = ActingFor
  BY <1>1 DEF ActingFor, Acting
<1>3. CASE doubt
  <2>1. InDoubt'
    BY <1>1, <1>3 DEF InDoubt, At
  <2>2. ActingFor[t] # NoSession
    BY <1>1 DEF ActingFor, Acting, Sessions, NoSession
  <2>3. Authority!Poison(t)
    BY <1>2, <2>1, <2>2
       DEF EffectReturns, Authority!Poison, Authority!NoSession, NoSession
  <2>4. QED BY <2>3 DEF AuthorityStep, Authority!AuthorityNext
<1>4. CASE ~doubt
  <2>1. InDoubt' <=> InDoubt
    <3>1. thread'[t].step = "settle" /\ thread[t].step = "effect"
      BY <1>1, <1>4
    <3>2. \A u \in Threads : u # t => thread'[u].step = thread[u].step
      BY <1>1
    <3>3. \A u \in Threads : At(u, "report")' <=> At(u, "report")
      BY <3>1, <3>2 DEF At
    <3>4. QED BY <3>3 DEF EffectReturns, InDoubt
  <2>2. QED BY <1>2, <2>1, Unseen DEF EffectReturns
<1>5. QED BY <1>3, <1>4

LEMMA ReportMapped ==
    ASSUME TypeOK, SessionInv, NEW t \in Threads, ReportUncertain(t)
    PROVE  AuthorityStep
<1>1. /\ \A u \in Threads : u # t => thread'[u] = thread[u]
      /\ thread'[t].sid = thread[t].sid /\ thread'[t].step = "settle"
      /\ thread[t].step = "report"
  BY DEF ReportUncertain, Go, At, TypeOK
<1>2. ActingFor' = ActingFor
  BY <1>1 DEF ActingFor, Acting
<1>3. InDoubt' /\ InDoubt
  BY DEF ReportUncertain, InDoubt
<1>4. QED BY <1>2, <1>3, Unseen DEF ReportUncertain

LEMMA SettleMapped ==
    ASSUME TypeOK, SessionInv, NEW t \in Threads, Settle(t)
    PROVE  AuthorityStep
<1>1. /\ \A u \in Threads : thread'[u] = IF u = t THEN Idle ELSE thread[u]
      /\ thread[t].sid \in Sessions /\ thread[t].step = "settle"
  BY DEF Settle, Go, At, TypeOK
<1>2. /\ ActingFor[t] # NoSession
      /\ ActingFor' = [ActingFor EXCEPT ![t] = NoSession]
  <2>1. \A u \in Threads : u # t =>
            (Acting(u)' <=> Acting(u)) /\ thread'[u].sid = thread[u].sid
    BY <1>1 DEF Acting
  <2>2. ~Acting(t)'
    BY <1>1 DEF Acting, Idle
  <2>3. ActingFor' = [ActingFor EXCEPT ![t] = NoSession]
    BY <2>1, <2>2 DEF ActingFor
  <2>4. ActingFor[t] # NoSession
    BY <1>1 DEF ActingFor, Acting, Sessions, NoSession
  <2>5. QED BY <2>3, <2>4
<1>3. InDoubt' <=> InDoubt
  BY <1>1 DEF Settle, InDoubt, At, Idle
<1>4. Authority!End(t)
  BY <1>2, <1>3 DEF Settle, Authority!End, Authority!NoSession, NoSession
<1>5. QED BY <1>4 DEF AuthorityStep, Authority!AuthorityNext

\* Every behaviour of the session manager is one AdminAuthority allows, for
\* any threads, limits and capabilities.
THEOREM Refinement == Spec => ImplementsAuthority
<1>1. Init => Authority!AuthorityInit
  BY DEF Init, Authority!AuthorityInit, Authority!NoSession, NoSession,
         ActingFor, Acting, Idle, InDoubt, At, NobodyIn
<1>2. TypeOK /\ SessionInv /\ [Next]_vars => AuthorityStep
  <2> SUFFICES ASSUME TypeOK, SessionInv, [Next]_vars PROVE AuthorityStep
    OBVIOUS
  <2>1. CASE UNCHANGED <<session, thread, uncertain, confirmed, opened>>
    <3>1. ActingFor' = ActingFor /\ (InDoubt' <=> InDoubt)
      BY <2>1 DEF ActingFor, Acting, InDoubt, At
    <3>2. QED BY <2>1, <3>1, Unseen
  <2>2. CASE SessionExpires
    <3>1. session'.sid = session.sid
      BY <2>2 DEF SessionExpires, TypeOK
    <3>2. ActingFor' = ActingFor /\ (InDoubt' <=> InDoubt)
      BY <2>2 DEF SessionExpires, ActingFor, Acting, InDoubt, At
    <3>3. QED BY <2>2, <3>1, <3>2, Unseen DEF SessionExpires
  <2>3. ASSUME NEW t \in Threads, NEW tok \in Tokens, NoticeExpiry(t, tok)
        PROVE  AuthorityStep
    <3>1. Arming \in ThreadState /\ Arming.step = "arm"
      BY SessionAssumption DEF Arming, ThreadState, Steps, NoSession
    <3>2. QED BY <2>3, <3>1, SessionEndsMapped DEF NoticeExpiry, Matches
  <2>4. ASSUME NEW t \in Threads, Arm(t) PROVE AuthorityStep
    <3>1. /\ \A u \in Threads : thread'[u] = IF u = t THEN Idle ELSE thread[u]
          /\ thread[t].step = "arm"
      BY <2>4 DEF Arm, Go, At, TypeOK
    <3>2. ActingFor' = ActingFor /\ (InDoubt' <=> InDoubt)
      BY <2>4, <3>1 DEF Arm, ActingFor, Acting, InDoubt, At, Idle
    <3>3. QED BY <2>4, <3>2, Unseen DEF Arm
  <2>5. CASE Restart
    <3>1. \A t \in Threads : thread'[t] = Idle
      BY <2>5 DEF Restart
    <3>2. ~InDoubt' /\ ActingFor' = [t \in Threads |-> NoSession]
      BY <2>5, <3>1 DEF Restart, InDoubt, ActingFor, Acting, At, Idle
    <3>3. Authority!Restart
      BY <2>5, <3>2 DEF Restart, Authority!Restart, Authority!NoSession,
         NoSession, NobodyIn
    <3>4. QED BY <3>3 DEF AuthorityStep, Authority!AuthorityNext
  <2>6. CASE Operator
    <3>1. CASE IssueChallenge \/ \E m \in BOOLEAN : UnlockRefused(m)
      BY <2>1, <3>1 DEF IssueChallenge, UnlockRefused
    <3>2. QED BY <2>3, <2>6, <3>1, UnlockMapped, RenewMapped, LockMapped
              DEF Operator
  <2>7. CASE Time
    BY <2>1, <2>2, <2>7
       DEF Time, CodeExpires, ChallengeExpires, WindowSlides
  <2>8. ASSUME NEW t \in Threads, Arm(t) \/ Effect(t) \/ Waiting(t)
        PROVE  AuthorityStep
    BY <2>4, <2>8, WaiterMapped, ExecuteMapped, EffectMapped, ReportMapped,
       SettleMapped DEF Effect
  <2>9. CASE UNCHANGED vars
    BY <2>1, <2>9 DEF vars
  <2>10. QED BY <2>5, <2>6, <2>7, <2>8, <2>9 DEF Next
<1>3. QED
  BY <1>1, <1>2, TypeCorrect, SessionSafety, PTL
     DEF Spec, ImplementsAuthority, Authority!AuthoritySpec, AuthorityStep

===============================================================================
