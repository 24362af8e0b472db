---------------------------- MODULE AdminPlanProofs ----------------------------
(***************************************************************************)
(* Theorems about AdminPlan, for any threads, files, plans, sessions and   *)
(* bounds.                                                                 *)
(***************************************************************************)
EXTENDS AdminPlan, TLAPS

USE MaxSessionsIsNat, PlanAssumption

ThreadState == [step : Steps, sid : 0..MaxSessions, plan : 0..MaxPlans]

\* What a thread is about exists.
Sound(st, m) ==
    /\ st.step \in {"request", "inside"} => st.sid \in Sessions
    /\ st.step \in {"lock", "check", "consume", "admit", "run"} =>
           st.plan \in 1..m

\* A thread that moves to a sound state leaves all threads sound.
LEMMA GoTyped ==
    ASSUME TypeOK, NEW t \in Threads, NEW st \in ThreadState, Go(t, st),
           Sound(st, made)
    PROVE  /\ thread' \in [Threads -> ThreadState]
           /\ \A u \in Threads : Sound(thread'[u], made)
BY DEF Go, TypeOK, ThreadState, Sound

LEMMA IdleIsSound ==
    /\ Idle \in ThreadState
    /\ \A m \in Nat : Sound(Idle, m)
BY DEF Idle, ThreadState, Steps, NoSession, Sound

\* Pruning drops plans and adds none.
LEMMA PrunedIsPart == ASSUME NEW s PROVE Pruned(s) \subseteq s
BY DEF Pruned

LEMMA WriteTyped == ASSUME TypeOK, WriteWorld PROVE world' \in Worlds
<1>1. CASE world.head < MaxHead /\ world' = [world EXCEPT !.head = @ + 1]
  BY <1>1 DEF TypeOK, Worlds
<1>2. ASSUME NEW f \in Files, world.edits[f] < MaxEdits,
             world' = [world EXCEPT !.edits[f] = @ + 1]
      PROVE  world' \in Worlds
  BY <1>2 DEF TypeOK, Worlds
<1>3. QED BY <1>1, <1>2 DEF WriteWorld

\* The types hold if the threads do and the rest is unchanged or typed.
Rest ==
    /\ authority \in 0..MaxSessions
    /\ acting \in [Threads -> 0..MaxSessions]
    /\ poisoned \in BOOLEAN
    /\ confirmed \in SUBSET Sessions
    /\ opened \in 0..MaxSessions
    /\ made \in 0..MaxPlans
    /\ plans \in [Plans -> [sid : 0..MaxSessions, found : Worlds,
                            status : {"none", "planned", "executed"}]]
    /\ stored \in SUBSET (1..made)
    /\ aged \in SUBSET stored
    /\ checkout \in Threads \cup {Worker, Nobody}
    /\ world \in Worlds
    /\ runs \in [Plans -> Nat]

ThreadsSound ==
    /\ thread \in [Threads -> ThreadState]
    /\ \A t \in Threads : Sound(thread[t], made)

LEMMA TypeSplit == TypeOK <=> Rest /\ ThreadsSound
BY DEF TypeOK, Rest, ThreadsSound, ThreadState, Sound

LEMMA TypeSplitNext == TypeOK' <=> Rest' /\ ThreadsSound'
BY DEF TypeOK, Rest, ThreadsSound, ThreadState, Sound

\* Type correctness of the command bus, whatever the constants.
THEOREM PlanTypeCorrect == Spec => []TypeOK
<1>1. Init => TypeOK
  <2> SUFFICES ASSUME Init PROVE TypeOK
    OBVIOUS
  <2>1. CleanWorld \in Worlds
    BY DEF CleanWorld, Worlds
  <2>2. Rest
    <3>1. /\ authority \in 0..MaxSessions
          /\ acting \in [Threads -> 0..MaxSessions]
          /\ confirmed \in SUBSET Sessions
          /\ opened \in 0..MaxSessions
      BY DEF Init, AuthorityInit, NoSession
    <3>. poisoned \in BOOLEAN
      BY DEF Init, AuthorityInit
    <3>2. /\ plans \in [Plans -> [sid : 0..MaxSessions, found : Worlds,
                                  status : {"none", "planned", "executed"}]]
          /\ runs \in [Plans -> Nat]
      BY <2>1 DEF Init, NoPlan, NoSession
    <3>3. /\ made \in 0..MaxPlans
          /\ stored \in SUBSET (1..made)
          /\ aged \in SUBSET stored
          /\ checkout \in Threads \cup {Worker, Nobody}
          /\ world \in Worlds
      BY <2>1 DEF Init
    <3>4. QED BY <3>1, <3>2, <3>3 DEF Rest
  <2>3. ThreadsSound
    BY IdleIsSound DEF Init, ThreadsSound
  <2>4. QED BY <2>2, <2>3, TypeSplit
<1>2. TypeOK /\ [Next]_vars => TypeOK'
  <2> SUFFICES ASSUME TypeOK, [Next]_vars PROVE TypeOK'
    OBVIOUS
  <2>0. Rest /\ ThreadsSound
    BY TypeSplit
  <2>1. ASSUME NEW t \in Threads, Request(t) PROVE TypeOK'
    <3> DEFINE to(s) == [thread[t] EXCEPT !.step = s]
    <3>0. /\ thread[t] \in ThreadState
          /\ Sound(thread[t], made)
          /\ \A s \in Steps : to(s) \in ThreadState
      BY <2>0 DEF ThreadsSound, ThreadState
    <3>1. ASSUME Go(t, Idle), made' = made PROVE ThreadsSound'
      BY <3>1, GoTyped, IdleIsSound, <2>0 DEF ThreadsSound, Rest
    <3>2. ASSUME NEW s \in Steps, Step(t, s), made' = made,
                 Sound(to(s), made)
          PROVE  ThreadsSound'
      BY <3>0, <3>2, GoTyped DEF ThreadsSound, Step
    <3>3. CASE Validate(t)
      <4> DEFINE st == [Idle EXCEPT !.step = "request", !.sid = authority]
      <4>1. /\ authority \in Sessions
            /\ authority \in 0..MaxSessions
        BY <3>3, <2>0 DEF Validate, Rest, Sessions, NoSession
      <4>2. st \in ThreadState
        BY <4>1, IdleIsSound DEF ThreadState, Steps
      <4>3. st.step = "request" /\ st.sid = authority
        BY IdleIsSound DEF ThreadState
      <4>4. Sound(st, made)
        BY <4>1, <4>3 DEF Sound
      <4>5. ThreadsSound'
        BY <3>3, <4>2, <4>4, GoTyped DEF Validate, ThreadsSound, planVars
      <4>6. QED BY <3>3, <4>5, <2>0, TypeSplitNext
                DEF Validate, Rest, authorityVars, planVars, siteVars
    <3>4. CASE Put(t)
      <4>1. Pruned(stored \cup {made'}) \subseteq 1..made'
        <5>1. stored \cup {made'} \subseteq 1..made'
          BY <3>4, <2>0 DEF Put, Rest
        <5>2. QED BY <5>1, PrunedIsPart
      <4>2. Rest'
        <5>1. /\ made' \in 1..MaxPlans
              /\ made' \in Plans
              /\ thread[t].sid \in 0..MaxSessions
          BY <3>4, <2>0, <3>0 DEF Put, Rest, Plans, ThreadState
        <5>2. [sid |-> thread[t].sid, found |-> world, status |-> "planned"]
                 \in [sid : 0..MaxSessions, found : Worlds,
                      status : {"none", "planned", "executed"}]
          BY <5>1, <2>0 DEF Rest
        <5>3. plans' \in [Plans -> [sid : 0..MaxSessions, found : Worlds,
                                    status : {"none", "planned", "executed"}]]
          BY <3>4, <5>1, <5>2, <2>0 DEF Put, Rest
        <5>4. made' \in 0..MaxPlans
          BY <5>1
        <5>5. stored' \in SUBSET (1..made') /\ aged' \in SUBSET stored'
          BY <3>4, <4>1 DEF Put, Keep
        <5>6. QED BY <3>4, <5>3, <5>4, <5>5, <2>0
                  DEF Put, Rest, authorityVars, siteVars
      <4>3. ThreadsSound'
        BY <3>4, <2>0, IdleIsSound
           DEF Put, ThreadsSound, Rest, Go, Idle, Sound, ThreadState
      <4>4. QED BY <4>2, <4>3, TypeSplitNext
    <3>5. CASE Unplanned(t)
      BY <3>1, <3>5, <2>0, TypeSplitNext
         DEF Unplanned, Rest, authorityVars, planVars, siteVars
    <3>6. ASSUME NEW p \in Plans, Peek(t, p) PROVE TypeOK'
      <4>1. Rest'
        BY <3>6, <2>0, PrunedIsPart DEF Peek, Keep, Rest, authorityVars, siteVars
      <4>2. ASSUME p \in stored',
                   Go(t, [thread[t] EXCEPT !.step = "lock", !.plan = p])
            PROVE  ThreadsSound'
        <5>1. p \in 1..made /\ made' = made
          BY <3>6, <4>1, <4>2 DEF Rest, Peek
        <5>2. /\ [thread[t] EXCEPT !.step = "lock", !.plan = p] \in ThreadState
              /\ Sound([thread[t] EXCEPT !.step = "lock", !.plan = p], made)
          <6> DEFINE st == [thread[t] EXCEPT !.step = "lock", !.plan = p]
          <6>1. p \in 0..MaxPlans
            BY DEF Plans
          <6>2. st \in ThreadState
            <7>1. thread[t] \in ThreadState /\ "lock" \in Steps
              BY <3>0 DEF Steps
            <7>2. QED BY <6>1, <7>1 DEF ThreadState
          <6>3. st.step = "lock" /\ st.plan = p
            BY <3>0 DEF ThreadState
          <6>4. QED BY <5>1, <6>2, <6>3 DEF Sound
        <5>3. QED BY <4>2, <5>1, <5>2, GoTyped DEF ThreadsSound
      <4>3. QED BY <3>1, <3>6, <4>1, <4>2, TypeSplitNext DEF Peek
    <3>7. CASE Acquire(t)
      BY <3>0, <3>1, <3>2, <3>7, <2>0, TypeSplitNext
         DEF Acquire, At, Rest, Sound, Steps, ThreadState, authorityVars, planVars
    <3>8. CASE Check(t)
      BY <3>0, <3>2, <3>8, <2>0, TypeSplitNext
         DEF Check, At, Keep, Rest, Sound, Steps, ThreadState, authorityVars, siteVars
    <3>9. CASE Consume(t)
      <4>1. thread[t].plan \in Plans /\ made' = made
        BY <3>0, <3>9, <2>0 DEF Consume, At, Sound, Rest, Plans
      <4>2. Rest'
        BY <3>9, <4>1, <2>0 DEF Consume, Rest, authorityVars, siteVars
      <4>3. /\ Sound(to("admit"), made)
            /\ Sound(to("release"), made)
            /\ {"admit", "release"} \subseteq Steps
        BY <3>0, <3>9 DEF Consume, At, Sound, ThreadState, Steps
      <4>4. QED BY <3>2, <3>9, <4>1, <4>2, <4>3, TypeSplitNext DEF Consume
    <3>10. CASE Admit(t)
      <4>1. thread[t].plan \in Plans /\ made' = made
        BY <3>0, <3>10, <2>0 DEF Admit, At, Sound, Rest, Plans, planVars
      <4>2. Rest'
        BY <3>10, <4>1, <2>0
           DEF Admit, Admitted, Begin, Refused, Rest, authorityVars, planVars, siteVars
      <4>3. /\ Sound(to("run"), made)
            /\ Sound(to("release"), made)
            /\ {"run", "release"} \subseteq Steps
        BY <3>0, <3>10 DEF Admit, At, Sound, ThreadState, Steps
      <4>4. QED BY <3>2, <3>10, <4>1, <4>2, <4>3, TypeSplitNext
                DEF Admit, Refused
    <3>11. CASE Enqueue(t)
      BY <3>11, <2>0, GoTyped, TypeSplitNext, IdleIsSound
         DEF Enqueue, ThreadsSound, Rest, ThreadState, Steps, Idle, Sound, authorityVars,
             planVars, siteVars
    <3>12. CASE Enter(t)
      <4> DEFINE st == [thread[t] EXCEPT !.step = IF authority = NoSession
                                                  THEN "release" ELSE "inside",
                                         !.sid = authority]
      <4>1. st \in ThreadState /\ Sound(st, made)
        <5>1. /\ authority \in 0..MaxSessions
              /\ authority # NoSession => authority \in Sessions
          BY <2>0 DEF Rest, Sessions, NoSession
        <5>2. /\ st.step = IF authority = NoSession THEN "release" ELSE "inside"
              /\ st.sid = authority
              /\ st.plan = thread[t].plan
          BY <3>0 DEF ThreadState
        <5>3. st \in ThreadState
          BY <3>0, <5>1 DEF ThreadState, Steps
        <5>4. QED BY <5>1, <5>2, <5>3 DEF Sound
      <4>2. ThreadsSound'
        BY <3>12, <4>1, GoTyped DEF Enter, ThreadsSound, planVars
      <4>3. QED BY <3>12, <4>2, <2>0, TypeSplitNext
                DEF Enter, Rest, authorityVars, planVars
    <3>13. CASE AdmitPost(t)
      BY <3>0, <3>2, <3>13, <2>0, TypeSplitNext
         DEF AdmitPost, Admitted, Begin, Refused, At, Rest, Sound, Steps, ThreadState,
             authorityVars, planVars, siteVars
    <3>14. CASE Execute(t)
      BY <3>14, <2>0, WriteTyped, TypeSplitNext
         DEF Execute, Rest, ThreadsSound, authorityVars, planVars
    <3>15. CASE Doubt(t)
      BY <3>15, <2>0, TypeSplitNext
         DEF Doubt, Poison, Rest, ThreadsSound, planVars, siteVars
    <3>16. CASE Settle(t)
      BY <3>0, <3>2, <3>16, <2>0, TypeSplitNext
         DEF Settle, End, Rest, Sound, Steps, ThreadState, NoSession, planVars, siteVars
    <3>17. CASE Release(t)
      BY <3>1, <3>17, <2>0, TypeSplitNext DEF Release, Rest, authorityVars, planVars
    <3>18. QED BY <2>1, <3>3, <3>4, <3>5, <3>6, <3>7, <3>8, <3>9, <3>10, <3>11,
                  <3>12, <3>13, <3>14, <3>15, <3>16, <3>17 DEF Request
  <2>2. CASE PlanAges
    BY <2>2, <2>0, TypeSplitNext
       DEF PlanAges, Rest, ThreadsSound, authorityVars, siteVars
  <2>3. CASE WorkerEnters \/ WorkerLeaves
    BY <2>3, <2>0, TypeSplitNext, ZenonT(60)
       DEF WorkerEnters, WorkerLeaves, Rest, ThreadsSound, authorityVars, planVars
  <2>4. CASE WorkerWrites
    BY <2>4, <2>0, WriteTyped, TypeSplitNext
       DEF WorkerWrites, Rest, ThreadsSound, authorityVars, planVars
  <2>5. ASSUME NEW f \in Files, OwnerEdits(f) PROVE TypeOK'
    <3>1. world' \in Worlds
      BY <2>5, WriteTyped DEF OwnerEdits, WriteWorld
    <3>2. QED BY <2>5, <3>1, <2>0, TypeSplitNext
              DEF OwnerEdits, Rest, ThreadsSound, authorityVars, planVars
  <2>6. CASE SessionChanges
    <3>1. /\ authority' \in 0..MaxSessions
          /\ acting' = acting
          /\ confirmed' \in SUBSET Sessions
          /\ opened' \in 0..MaxSessions
      <4>. authority # NoSession => authority \in Sessions
        BY <2>0 DEF Rest, Sessions, NoSession
      <4>1. CASE Open
        BY <4>1, <2>0 DEF Open, Rest
      <4>2. CASE Close
        BY <4>2, <2>0 DEF Close, Rest, NoSession
      <4>3. ASSUME NEW s \in Sessions, Confirm(s)
            PROVE  /\ UNCHANGED <<authority, acting, opened>>
                   /\ confirmed' \in SUBSET Sessions
        BY <4>3, <2>0 DEF Confirm, Rest
      <4>4. QED BY <2>6, <4>1, <4>2, <4>3, <2>0 DEF SessionChanges, Rest
    <3>2. poisoned' = poisoned
      BY <2>6 DEF SessionChanges, Open, Close, Confirm
    <3>3. QED BY <2>6, <2>0, <3>1, <3>2, TypeSplitNext
              DEF SessionChanges, Rest, ThreadsSound, planVars, siteVars
  <2>7. CASE ProcessRestarts
    <3>1. Rest'
      <4>1. /\ authority' \in 0..MaxSessions
            /\ acting' \in [Threads -> 0..MaxSessions]
        BY <2>7 DEF ProcessRestarts, Restart, NoSession
      <4>2. poisoned' \in BOOLEAN
        BY <2>7 DEF ProcessRestarts, Restart
      <4>3. QED BY <2>7, <4>1, <4>2, <2>0 DEF ProcessRestarts, Restart, Rest
    <3>2. made' \in Nat
      BY <3>1 DEF Rest
    <3>3. ThreadsSound'
      BY <2>7, <3>2, IdleIsSound DEF ProcessRestarts, ThreadsSound
    <3>4. QED BY <3>1, <3>3, TypeSplitNext
  <2>8. CASE UNCHANGED vars
    BY <2>8, <2>0, TypeSplitNext
       DEF vars, authorityVars, planVars, siteVars, Rest, ThreadsSound
  <2>9. QED BY <2>1, <2>2, <2>3, <2>4, <2>5, <2>6, <2>7, <2>8
            DEF Next, Environment
<1>3. QED BY <1>1, <1>2, PTL DEF Spec

-------------------------------------------------------------------------------
(* The safety invariant.  Its first three parts say who may do what: the   *)
(* lock, the effects and the authority.  The others are about plans.       *)

Locked == \A t \in Threads : Holding(t) <=> checkout = t

Registered == \A t \in Threads : InEffect(t) <=> acting[t] # NoSession

RevokedIsPast ==
    /\ authority \in 0..opened
    /\ confirmed \subseteq 1..opened
    /\ authority \notin confirmed
    /\ \A t \in Threads : acting[t] \notin confirmed

\* A plan that is not spent has not run; one that is about to run is spent and
\* has not run either.
SpentOnce ==
    /\ \A p \in Plans : p > made => plans[p].status = "none"
    /\ \A p \in Plans : runs[p] <= 1
    /\ \A p \in Plans : plans[p].status # "executed" => runs[p] = 0
    /\ \A t \in Threads :
          At(t, "admit") => PlanOf(t).status = "executed" /\ runs[thread[t].plan] = 0

Inv ==
    /\ Locked
    /\ Registered
    /\ RevokedIsPast
    /\ SpentOnce
    /\ RunsForItsReviewer
    /\ StartsOnReviewedHead

\* The steps of the environment that leave the threads alone.
LEMMA EnvironmentSpares ==
    ASSUME TypeOK, Environment, ~ProcessRestarts
    PROVE  /\ UNCHANGED <<thread, plans, runs, made>>
           /\ acting' = acting
BY DEF Environment, PlanAges, WorkerEnters, WorkerWrites, WorkerLeaves, OwnerEdits,
       SessionChanges, Open, Close, Confirm, authorityVars, planVars, siteVars

\* The steps of a request that has nothing to do with the checkout yet.
Outside(t) ==
    Validate(t) \/ Put(t) \/ Unplanned(t) \/ Enqueue(t) \/ \E p \in Plans : Peek(t, p)

LEMMA OutsideFacts ==
    ASSUME TypeOK, NEW t \in Threads, Outside(t)
    PROVE  /\ thread[t].step \in {"idle", "request"}
           /\ thread'[t].step \in {"idle", "request", "lock", "queue"}
           /\ \A u \in Threads \ {t} : thread'[u] = thread[u]
           /\ UNCHANGED <<authorityVars, siteVars, runs>>
<1>0. thread \in [Threads -> ThreadState] /\ Idle \in ThreadState
  BY IdleIsSound DEF TypeOK, ThreadState
<1> USE DEF Go, At
<1>1. CASE Validate(t)
  <2>1. [Idle EXCEPT !.step = "request", !.sid = authority].step = "request"
    BY <1>0 DEF ThreadState
  <2>2. QED BY <1>0, <1>1, <2>1 DEF Validate
<1>2. CASE Put(t)
  BY <1>0, <1>2 DEF Put, Idle
<1>3. CASE Unplanned(t)
  BY <1>0, <1>3 DEF Unplanned, Idle
<1>4. CASE Enqueue(t)
  <2>1. [Idle EXCEPT !.step = "queue"].step = "queue"
    BY <1>0 DEF ThreadState
  <2>2. QED BY <1>0, <1>4, <2>1 DEF Enqueue
<1>5. ASSUME NEW p \in Plans, Peek(t, p)
      PROVE  /\ thread[t].step = "request"
             /\ thread'[t].step \in {"idle", "lock"}
             /\ \A u \in Threads \ {t} : thread'[u] = thread[u]
             /\ UNCHANGED <<authorityVars, siteVars, runs>>
  <2>1. [thread[t] EXCEPT !.step = "lock", !.plan = p].step = "lock"
    BY <1>0 DEF ThreadState
  <2>2. Idle.step = "idle"
    BY DEF Idle
  <2>3. QED BY <1>0, <1>5, <2>1, <2>2 DEF Peek
<1>6. QED BY <1>1, <1>2, <1>3, <1>4, <1>5 DEF Outside

\* The holder of the checkout and the threads at a step that needs it change
\* together.
LEMMA LockedStep == TypeOK /\ Locked /\ [Next]_vars => Locked'
<1> SUFFICES ASSUME TypeOK, Locked, [Next]_vars PROVE Locked'
  OBVIOUS
<1>0. thread \in [Threads -> ThreadState]
  BY DEF TypeOK, ThreadState
<1> USE DEF Locked, Holding, Go, Step, At
<1>1. ASSUME NEW t \in Threads, Request(t) PROVE Locked'
  <2>1. CASE Outside(t)
    BY <2>1, OutsideFacts DEF siteVars
  <2>3. CASE Acquire(t)
    BY <2>3, <1>0 DEF Acquire, Idle, ThreadState
  <2>4. CASE Check(t)
    BY <2>4, <1>0 DEF Check, ThreadState, siteVars
  <2>5. CASE Consume(t)
    BY <2>5, <1>0 DEF Consume, ThreadState, siteVars
  <2>6. CASE Admit(t)
    BY <2>6, <1>0 DEF Admit, Admitted, Refused, ThreadState, siteVars
  <2>7. CASE Enter(t)
    BY <2>7, <1>0 DEF Enter, ThreadState
  <2>8. CASE AdmitPost(t)
    BY <2>8, <1>0 DEF AdmitPost, Admitted, Refused, ThreadState, siteVars
  <2>9. CASE Execute(t) \/ Doubt(t)
    BY <2>9 DEF Execute, Doubt, siteVars
  <2>10. CASE Settle(t)
    BY <2>10, <1>0 DEF Settle, InEffect, ThreadState, siteVars
  <2>11. CASE Release(t)
    BY <2>11, <1>0 DEF Release, Idle, ThreadState
  <2>12. QED BY <1>1, <2>1, <2>3, <2>4, <2>5, <2>6, <2>7, <2>8, <2>9, <2>10,
                <2>11 DEF Request, Outside
<1>2. CASE PlanAges \/ SessionChanges \/ \E f \in Files : OwnerEdits(f)
  BY <1>2 DEF PlanAges, SessionChanges, OwnerEdits, siteVars
<1>3. CASE WorkerEnters \/ WorkerWrites \/ WorkerLeaves
  BY <1>3 DEF WorkerEnters, WorkerWrites, WorkerLeaves
<1>4. CASE ProcessRestarts
  BY <1>4 DEF ProcessRestarts, Idle
<1>5. CASE UNCHANGED vars
  BY <1>5 DEF vars, siteVars
<1>6. QED BY <1>1, <1>2, <1>3, <1>4, <1>5 DEF Next, Environment

\* A thread is inside an effect exactly while execute_current counts it.
LEMMA RegisteredStep == TypeOK /\ Registered /\ [Next]_vars => Registered'
<1> SUFFICES ASSUME TypeOK, Registered, [Next]_vars PROVE Registered'
  OBVIOUS
<1>0. /\ thread \in [Threads -> ThreadState]
      /\ acting \in [Threads -> 0..MaxSessions]
  BY DEF TypeOK, ThreadState
<1> USE DEF Registered, InEffect, Go, Step, At, NoSession
<1>1. ASSUME NEW t \in Threads, Request(t) PROVE Registered'
  <2>1. CASE Outside(t)
    BY <2>1, OutsideFacts DEF authorityVars
  <2>3. CASE Acquire(t) \/ Check(t) \/ Consume(t)
    BY <2>3, <1>0 DEF Acquire, Check, Consume, Idle, ThreadState, authorityVars
  <2>4. CASE Admit(t)
    BY <2>4, <1>0 DEF Admit, Admitted, Begin, Refused, ThreadState, authorityVars
  <2>5. CASE Enter(t)
    BY <2>5, <1>0 DEF Enter, ThreadState, authorityVars
  <2>6. CASE AdmitPost(t)
    BY <2>6, <1>0
       DEF AdmitPost, Admitted, Begin, Refused, ThreadState, authorityVars
  <2>7. CASE Execute(t) \/ Doubt(t)
    BY <2>7 DEF Execute, Doubt, Poison, authorityVars
  <2>8. CASE Settle(t)
    BY <2>8, <1>0 DEF Settle, End, ThreadState
  <2>9. CASE Release(t)
    BY <2>9, <1>0 DEF Release, Idle, ThreadState, authorityVars
  <2>10. QED BY <1>1, <2>1, <2>3, <2>4, <2>5, <2>6, <2>7, <2>8, <2>9
             DEF Request, Outside
<1>2. CASE Environment /\ ~ProcessRestarts
  BY <1>2, EnvironmentSpares
<1>3. CASE ProcessRestarts
  BY <1>3 DEF ProcessRestarts, Restart, Idle
<1>4. CASE UNCHANGED vars
  BY <1>4 DEF vars, authorityVars
<1>5. QED BY <1>1, <1>2, <1>3, <1>4 DEF Next

\* A confirmed session is past: neither current nor acting.
LEMMA RevokedStep == TypeOK /\ RevokedIsPast /\ [Next]_vars => RevokedIsPast'
<1> SUFFICES ASSUME TypeOK, RevokedIsPast, [Next]_vars PROVE RevokedIsPast'
  OBVIOUS
<1>0. /\ acting \in [Threads -> 0..MaxSessions]
      /\ opened \in 0..MaxSessions
  BY DEF TypeOK
<1> USE DEF RevokedIsPast, NoSession
<1>1. ASSUME NEW t \in Threads, Begin(t) PROVE RevokedIsPast'
  BY <1>0, <1>1 DEF Begin
<1>2. ASSUME NEW t \in Threads, End(t) PROVE RevokedIsPast'
  BY <1>0, <1>2 DEF End
<1>3. ASSUME UNCHANGED <<authority, acting, confirmed, opened>>
      PROVE  RevokedIsPast'
  BY <1>3
<1>4. CASE Open
  BY <1>0, <1>4 DEF Open, Quiet
<1>5. CASE Close
  <2>1. CASE UNCHANGED confirmed
    BY <1>0, <1>5, <2>1 DEF Close
  <2>2. CASE /\ \A t \in Threads : acting[t] # authority
             /\ confirmed' = confirmed \cup {authority}
    <3>1. authority \in 1..opened
      BY <1>0, <1>5 DEF Close
    <3>2. QED BY <1>0, <1>5, <2>2, <3>1 DEF Close
  <2>3. QED BY <1>5, <2>1, <2>2 DEF Close
<1>6. ASSUME NEW s \in Sessions, Confirm(s) PROVE RevokedIsPast'
  BY <1>0, <1>6 DEF Confirm
<1>7. CASE ProcessRestarts
  BY <1>0, <1>7 DEF ProcessRestarts, Restart
<1>8. ASSUME NEW t \in Threads, Request(t) PROVE RevokedIsPast'
  BY <1>1, <1>2, <1>3, <1>8
     DEF Request, Validate, Put, Unplanned, Peek, Acquire, Check, Consume, Admit,
         Admitted, Refused, Enqueue, Enter, AdmitPost, Execute, Doubt, Poison, Settle,
         Release, authorityVars
<1>9. CASE Environment
  BY <1>3, <1>4, <1>5, <1>6, <1>7, <1>9
     DEF Environment, PlanAges, WorkerEnters, WorkerWrites, WorkerLeaves, OwnerEdits,
         SessionChanges, authorityVars
<1>10. CASE UNCHANGED vars
  BY <1>3, <1>10 DEF vars, authorityVars
<1>11. QED BY <1>8, <1>9, <1>10 DEF Next

\* The reviewer and the review of a plan are there to stay.
LEMMA PlansStay ==
    ASSUME TypeOK, [Next]_vars, NEW p \in 1..made
    PROVE  /\ plans'[p].sid = plans[p].sid
           /\ plans'[p].found = plans[p].found
<1>0. /\ p \in Plans
      /\ plans \in [Plans -> [sid : 0..MaxSessions, found : Worlds,
                              status : {"none", "planned", "executed"}]]
  BY DEF TypeOK, Plans
<1>1. ASSUME NEW t \in Threads, Put(t) PROVE plans'[p] = plans[p]
  BY <1>0, <1>1 DEF Put, TypeOK
<1>2. ASSUME NEW t \in Threads, Consume(t)
      PROVE  /\ plans'[p].sid = plans[p].sid
             /\ plans'[p].found = plans[p].found
  BY <1>0, <1>2 DEF Consume
<1>3. ASSUME NEW t \in Threads, Request(t), ~Put(t), ~Consume(t)
      PROVE  UNCHANGED plans
  BY <1>3 DEF Request, Validate, Unplanned, Peek, Acquire, Check, Admit, Enqueue, Enter,
              AdmitPost, Execute, Doubt, Settle, Release, planVars
<1>4. CASE Environment
  BY <1>4, EnvironmentSpares DEF ProcessRestarts
<1>5. CASE UNCHANGED vars
  BY <1>5 DEF vars, planVars
<1>6. QED BY <1>1, <1>2, <1>3, <1>4, <1>5 DEF Next

\* What a step of one thread between its checks and its release does.
LEMMA InsideFacts ==
    ASSUME TypeOK, NEW t \in Threads, Request(t), ~Outside(t)
    PROVE  /\ UNCHANGED made
           /\ \A u \in Threads \ {t} : thread'[u] = thread[u]
           /\ thread'[t].step \in {"run", "admit"} =>
                  thread'[t].plan = thread[t].plan
           /\ thread'[t].step = "admit" => Consume(t)
           /\ thread'[t].step = "run" => At(t, "run") \/ Admit(t)
           /\ thread'[t].step = "consume" =>
                  Check(t) /\ thread'[t].plan = thread[t].plan
<1>0. thread \in [Threads -> ThreadState] /\ Idle.step = "idle"
  BY DEF TypeOK, ThreadState, Idle
<1> USE DEF Go, Step, At
<1>1. CASE Acquire(t)
  BY <1>0, <1>1 DEF Acquire, ThreadState, planVars
<1>2. CASE Check(t)
  BY <1>0, <1>2 DEF Check, ThreadState
<1>3. CASE Consume(t)
  BY <1>0, <1>3 DEF Consume, ThreadState
<1>4. CASE Admit(t)
  BY <1>0, <1>4 DEF Admit, Refused, ThreadState, planVars
<1>5. CASE Enter(t)
  BY <1>0, <1>5 DEF Enter, ThreadState, planVars
<1>6. CASE AdmitPost(t)
  BY <1>0, <1>6 DEF AdmitPost, Refused, ThreadState, planVars
<1>7. CASE Execute(t) \/ Doubt(t)
  BY <1>0, <1>7 DEF Execute, Doubt, InEffect, planVars
<1>8. CASE Settle(t)
  BY <1>0, <1>8 DEF Settle, ThreadState, planVars
<1>9. CASE Release(t)
  BY <1>0, <1>9 DEF Release, planVars
<1>10. QED BY <1>1, <1>2, <1>3, <1>4, <1>5, <1>6, <1>7, <1>8, <1>9
           DEF Request, Outside

\* Two threads are never both between their checks and their release.
LEMMA OneHolds ==
    ASSUME Locked, NEW t \in Threads, NEW u \in Threads, Holding(t), Holding(u)
    PROVE  t = u
BY DEF Locked

\* Spending comes before running, and whoever spends is alone with the checkout.
LEMMA SpentStep == TypeOK /\ Locked /\ SpentOnce /\ [Next]_vars => SpentOnce'
<1> SUFFICES ASSUME TypeOK, Locked, SpentOnce, [Next]_vars PROVE SpentOnce'
  OBVIOUS
<1>0. /\ made \in 0..MaxPlans
      /\ plans \in [Plans -> [sid : 0..MaxSessions, found : Worlds,
                              status : {"none", "planned", "executed"}]]
      /\ runs \in [Plans -> Nat]
      /\ \A t \in Threads : At(t, "admit") => thread[t].plan \in 1..made
      /\ \A t \in Threads : At(t, "consume") => thread[t].plan \in 1..made
  BY DEF TypeOK, At
<1>1. ASSUME NEW t \in Threads, Outside(t) PROVE SpentOnce'
  <2>1. \A u \in Threads : At(u, "admit")' => At(u, "admit") /\ thread'[u] = thread[u]
    BY <1>1, OutsideFacts DEF At
  <2>2. UNCHANGED runs
    BY <1>1, OutsideFacts
  <2>3. CASE UNCHANGED <<made, plans>>
    BY <2>1, <2>2, <2>3 DEF SpentOnce, PlanOf, At
  <2>4. CASE Put(t)
    <3>1. made' = made + 1 /\ made' \in Plans
      BY <1>0, <2>4 DEF Put, Plans
    <3>2. /\ plans'[made'].status = "planned"
          /\ \A p \in Plans \ {made'} : plans'[p] = plans[p]
      BY <1>0, <2>4, <3>1 DEF Put
    <3>3. plans[made'].status = "none"
      BY <1>0, <3>1 DEF SpentOnce
    <3>4. \A p \in Plans : p > made' => plans'[p].status = "none"
      BY <1>0, <3>1, <3>2 DEF SpentOnce, Plans
    <3>5. \A p \in Plans : plans'[p].status # "executed" => runs'[p] = 0
      BY <2>2, <3>2, <3>3 DEF SpentOnce
    <3>6. ASSUME NEW u \in Threads, At(u, "admit")'
          PROVE  /\ PlanOf(u)'.status = "executed"
                 /\ runs'[thread'[u].plan] = 0
      <4>1. /\ At(u, "admit") /\ thread'[u] = thread[u]
            /\ thread[u].plan \in Plans \ {made'}
        BY <1>0, <2>1, <3>1, <3>6, SMTT(30) DEF Plans
      <4>2. QED BY <2>2, <3>2, <4>1 DEF SpentOnce, PlanOf
    <3>7. QED BY <2>2, <3>4, <3>5, <3>6 DEF SpentOnce
  <2>5. QED BY <1>1, <2>3, <2>4
            DEF Outside, Validate, Unplanned, Enqueue, Peek, planVars
<1>2. ASSUME NEW t \in Threads, Consume(t), ~Outside(t), Request(t) PROVE SpentOnce'
  <2> DEFINE p == thread[t].plan
  <2>1. p \in Plans /\ p <= made /\ UNCHANGED <<made, runs>>
    BY <1>0, <1>2 DEF Consume, Plans
  <2>2. CASE plans[p].status = "planned" /\ plans' = [plans EXCEPT ![p].status = "executed"]
    <3>1. ASSUME NEW u \in Threads, At(u, "admit")' PROVE u = t
      BY <1>2, <3>1, InsideFacts, OneHolds DEF Consume, At, Holding
    <3>2. /\ plans'[p].status = "executed"
          /\ \A q \in Plans \ {p} : plans'[q] = plans[q]
      BY <1>0, <2>1, <2>2
    <3>3. At(t, "admit")' => thread'[t].plan = p /\ runs[p] = 0
      BY <1>2, <2>1, <2>2, InsideFacts DEF At, SpentOnce
    <3>4. ASSUME NEW q \in Plans, q > made' PROVE plans'[q].status = "none"
      <4>1. q # p /\ q > made
        BY <1>0, <2>1, <3>4 DEF Plans
      <4>2. QED BY <3>2, <4>1 DEF SpentOnce
    <3>5. \A q \in Plans : plans'[q].status # "executed" => runs'[q] = 0
      BY <2>1, <3>2 DEF SpentOnce
    <3>6. ASSUME NEW u \in Threads, At(u, "admit")'
          PROVE  PlanOf(u)'.status = "executed" /\ runs'[thread'[u].plan] = 0
      BY <2>1, <3>1, <3>2, <3>3, <3>6 DEF PlanOf
    <3>7. QED BY <2>1, <3>4, <3>5, <3>6 DEF SpentOnce
  <2>3. CASE UNCHANGED plans /\ Step(t, "release")
    <3>1. \A u \in Threads :
             At(u, "admit")' => At(u, "admit") /\ thread'[u] = thread[u]
      BY <1>2, <2>3, InsideFacts DEF Step, Go, At, TypeOK
    <3>2. QED BY <2>1, <2>3, <3>1 DEF SpentOnce, PlanOf
  <2>4. QED BY <1>2, <2>2, <2>3 DEF Consume
<1>3. ASSUME NEW t \in Threads, Admit(t), ~Outside(t), Request(t), ~Consume(t)
      PROVE  SpentOnce'
  <2>1. /\ thread[t].plan \in Plans
        /\ runs[thread[t].plan] = 0
        /\ plans[thread[t].plan].status = "executed"
        /\ UNCHANGED <<made, plans>>
    BY <1>0, <1>3 DEF Admit, SpentOnce, PlanOf, Plans, planVars
  <2>2. \A u \in Threads : ~At(u, "admit")'
    BY <1>3, InsideFacts, OneHolds DEF Admit, At, Holding
  <2>3. runs' \in {runs, [runs EXCEPT ![thread[t].plan] = 1]}
    BY <1>0, <1>3, <2>1 DEF Admit
  <2>4. QED BY <1>0, <2>1, <2>2, <2>3 DEF SpentOnce
<1>4. ASSUME NEW t \in Threads, Request(t), ~Outside(t), ~Consume(t), ~Admit(t)
      PROVE  SpentOnce'
  <2>1. UNCHANGED <<made, plans, runs>>
    BY <1>4 DEF Request, Outside, Acquire, Check, Enter, AdmitPost, Execute, Doubt,
                Settle, Release, planVars
  <2>2. \A u \in Threads : At(u, "admit")' => At(u, "admit") /\ thread'[u] = thread[u]
    BY <1>4, InsideFacts DEF At
  <2>3. QED BY <2>1, <2>2 DEF SpentOnce, PlanOf
<1>5. CASE Environment /\ ~ProcessRestarts
  BY <1>5, EnvironmentSpares DEF SpentOnce, PlanOf, At
<1>6. CASE ProcessRestarts
  BY <1>6 DEF ProcessRestarts, SpentOnce, At, Idle
<1>7. CASE UNCHANGED vars
  BY <1>7 DEF vars, planVars, SpentOnce, PlanOf, At
<1>8. QED BY <1>1, <1>2, <1>3, <1>4, <1>5, <1>6, <1>7 DEF Next

\* The session that was admitted is the one that reviewed the plan.
LEMMA ReviewerStep ==
    TypeOK /\ Registered /\ RunsForItsReviewer /\ [Next]_vars => RunsForItsReviewer'
<1> SUFFICES ASSUME TypeOK, Registered, RunsForItsReviewer, [Next]_vars,
                    NEW u \in Threads, At(u, "run")'
             PROVE  acting'[u] = PlanOf(u)'.sid
  BY DEF RunsForItsReviewer
<1>0. /\ thread \in [Threads -> ThreadState]
      /\ acting \in [Threads -> 0..MaxSessions]
      /\ At(u, "run") => thread[u].plan \in 1..made
      /\ At(u, "admit") => thread[u].plan \in 1..made
  BY DEF TypeOK, ThreadState, At
<1>1. ASSUME At(u, "run"), thread'[u].plan = thread[u].plan, acting'[u] = acting[u]
      PROVE  acting'[u] = PlanOf(u)'.sid
  BY <1>0, <1>1, PlansStay DEF RunsForItsReviewer, PlanOf
<1>2. CASE Admit(u)
  <2>1. /\ UNCHANGED plans
        /\ thread'[u].plan = thread[u].plan
        /\ acting' = [acting EXCEPT ![u] = authority]
        /\ authority = plans[thread[u].plan].sid
    BY <1>0, <1>2 DEF Admit, Admitted, Begin, Refused, Step, Go, At, planVars, ThreadState
  <2>2. QED BY <1>0, <2>1 DEF PlanOf
<1>3. ASSUME NEW t \in Threads, Request(t), ~Admit(u)
      PROVE  acting'[u] = PlanOf(u)'.sid
  <2>1. At(u, "run") /\ thread'[u].plan = thread[u].plan
    BY <1>3, OutsideFacts, InsideFacts DEF At
  <2>2. acting'[u] = acting[u]
    <3>1. CASE Outside(t)
      BY <3>1, OutsideFacts DEF authorityVars
    <3>2. CASE Acquire(t) \/ Check(t) \/ Consume(t) \/ Enter(t) \/ Execute(t) \/ Release(t)
      BY <3>2 DEF Acquire, Check, Consume, Enter, Execute, Release, authorityVars
    <3>3. CASE Doubt(t)
      BY <3>3 DEF Doubt, Poison
    <3>4. CASE Admit(t) \/ AdmitPost(t) \/ Settle(t)
      <4>1. t # u
        BY <1>0, <1>3, <2>1, <3>4
           DEF At, Admit, AdmitPost, Refused, Settle, Step, Go, ThreadState
      <4>2. QED BY <1>0, <3>4, <4>1
                DEF Admit, AdmitPost, Admitted, Refused, Settle, Begin, End, authorityVars
    <3>5. QED BY <1>3, <3>1, <3>2, <3>3, <3>4 DEF Request, Outside
  <2>3. QED BY <1>1, <2>1, <2>2
<1>4. CASE Environment /\ ~ProcessRestarts
  BY <1>1, <1>4, EnvironmentSpares DEF At
<1>5. CASE ProcessRestarts
  BY <1>5 DEF ProcessRestarts, At, Idle
<1>6. CASE UNCHANGED vars
  BY <1>1, <1>6 DEF vars, authorityVars, At
<1>7. QED BY <1>2, <1>3, <1>4, <1>5, <1>6 DEF Next

\* HEAD moves only in an effect or in the hands of the worker, and neither is
\* possible while another thread holds the checkout.
LEMMA HeadStep ==
    TypeOK /\ Locked /\ StartsOnReviewedHead /\ [Next]_vars => StartsOnReviewedHead'
<1> DEFINE Bound(u) == thread[u].step \in {"consume", "admit"}
<1> SUFFICES ASSUME TypeOK, Locked, StartsOnReviewedHead, [Next]_vars,
                    NEW u \in Threads, Bound(u)'
             PROVE  world'.head = PlanOf(u)'.found.head
  BY DEF StartsOnReviewedHead
<1>0. /\ thread \in [Threads -> ThreadState]
      /\ world \in Worlds
      /\ thread[u].step \in {"check", "consume", "admit"} => thread[u].plan \in 1..made
  BY DEF TypeOK, ThreadState
<1>1. ASSUME Bound(u), thread'[u].plan = thread[u].plan, world'.head = world.head
      PROVE  world'.head = PlanOf(u)'.found.head
  BY <1>0, <1>1, PlansStay DEF StartsOnReviewedHead, PlanOf
<1>2. CASE Check(u)
  <2>1. /\ UNCHANGED <<plans, world>>
        /\ Reviewed(thread[u].plan)
        /\ thread'[u].plan = thread[u].plan
    BY <1>0, <1>2 DEF Check, Step, Go, At, siteVars, ThreadState
  <2>2. QED BY <2>1 DEF Reviewed, Fingerprint, PlanOf
<1>3. ASSUME NEW t \in Threads, Request(t), ~Check(u)
      PROVE  world'.head = PlanOf(u)'.found.head
  <2>1. CASE t = u
    <3>1. Consume(u) /\ thread'[u].plan = thread[u].plan
      BY <1>3, <2>1, OutsideFacts, InsideFacts
    <3>2. QED BY <1>1, <3>1 DEF Consume, At, siteVars
  <2>2. CASE t # u
    <3>1. thread'[u] = thread[u] /\ Bound(u)
      BY <1>3, <2>2, OutsideFacts, InsideFacts
    <3>2. ~Execute(t)
      BY <2>2, <3>1, OneHolds DEF Execute, InEffect, Holding
    <3>3. UNCHANGED world
      BY <1>3, <3>2, OutsideFacts
         DEF Request, Outside, Acquire, Check, Consume, Admit, Enter, AdmitPost, Doubt,
             Settle, Release, siteVars
    <3>4. QED BY <1>1, <3>1, <3>3
  <2>3. QED BY <2>1, <2>2
<1>4. CASE Environment /\ ~ProcessRestarts
  <2>1. Bound(u) /\ thread'[u] = thread[u]
    BY <1>4, EnvironmentSpares
  <2>2. checkout = u /\ u # Worker
    BY <2>1 DEF Locked, Holding
  <2>3. world'.head = world.head
    BY <1>0, <1>4, <2>2
       DEF Environment, PlanAges, WorkerEnters, WorkerWrites, WorkerLeaves, OwnerEdits,
           SessionChanges, siteVars, Worlds
  <2>4. QED BY <1>1, <2>1, <2>3
<1>5. CASE ProcessRestarts
  BY <1>5 DEF ProcessRestarts, Idle
<1>6. CASE UNCHANGED vars
  BY <1>1, <1>6 DEF vars, siteVars
<1>7. QED BY <1>2, <1>3, <1>4, <1>5, <1>6 DEF Next

\* The invariant holds in every reachable state.
THEOREM Invariance == Spec => [](TypeOK /\ Inv)
<1>1. Init => Inv
  <2> SUFFICES ASSUME Init PROVE Inv
    OBVIOUS
  <2>0. /\ authority = 0 /\ opened = 0 /\ confirmed = {} /\ checkout = Nobody
        /\ \A t \in Threads : acting[t] = 0 /\ thread[t].step = "idle"
    BY DEF Init, AuthorityInit, NoSession, Idle
  <2>1. Locked /\ Registered /\ RunsForItsReviewer /\ StartsOnReviewedHead
    BY <2>0 DEF Locked, Registered, Holding, InEffect, At, NoSession,
                RunsForItsReviewer, StartsOnReviewedHead
  <2>2. RevokedIsPast
    BY <2>0 DEF RevokedIsPast
  <2>3. SpentOnce
    BY <2>0 DEF Init, SpentOnce, NoPlan, At
  <2>4. QED BY <2>1, <2>2, <2>3 DEF Inv
<1>2. TypeOK /\ Inv /\ [Next]_vars => Inv'
  BY LockedStep, RegisteredStep, RevokedStep, SpentStep, ReviewerStep, HeadStep DEF Inv
<1>3. QED BY <1>1, <1>2, PlanTypeCorrect, PTL DEF Spec

\* The executor of a plan never runs twice, whatever the number of requests
\* that peeked it before one of them consumed it; it runs for the session that
\* reviewed it, on the commit and branch of the review; from its checks to its
\* last write the request is the only holder of the checkout, and a holder is
\* always between the two.
THEOREM PlanSafety == Spec => []Safety
<1>1. Inv => RunsOnce
  BY DEF Inv, SpentOnce, RunsOnce
<1>2. Inv => OneWriter /\ CheckoutIsReleased
  BY DEF Inv, Locked, OneWriter, CheckoutIsReleased
<1>3. Inv => RunsForItsReviewer /\ StartsOnReviewedHead
  BY DEF Inv
<1>4. TypeOK /\ Inv => Safety
  BY <1>1, <1>2, <1>3 DEF Safety
<1>5. QED BY <1>4, PlanTypeCorrect, Invariance, PTL

\* Whoever writes the checkout acts for a session whose revocation was not
\* confirmed to the owner.
THEOREM RevokedWritesNothing == Spec => []RevokedNeverWrites
<1>1. TypeOK /\ Inv => RevokedNeverWrites
  <2> SUFFICES ASSUME TypeOK, Registered, RevokedIsPast,
                      NEW t \in Threads, InEffect(t)
               PROVE  acting[t] \in Sessions \ confirmed
    BY DEF Inv, RevokedNeverWrites
  <2>1. acting[t] \in 0..MaxSessions /\ acting[t] # 0
    BY DEF TypeOK, Registered, NoSession
  <2>2. QED BY <2>1 DEF Sessions, RevokedIsPast
<1>2. QED BY <1>1, Invariance, PTL
===============================================================================
