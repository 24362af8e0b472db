---------------------------- MODULE ProposalProofs ----------------------------
(***************************************************************************)
(* Whatever others do at the provider and in the checkout, and however     *)
(* late a command lands: what the operator merges was reviewed, and no     *)
(* local commit is dropped.  For every number of heads, pull requests,     *)
(* sessions and shocks.                                                    *)
(*                                                                         *)
(* Then the page of an action: whatever its writers make of it the gate    *)
(* accepts, and what editors make of it in between it does not.  For every *)
(* set of clients, requests and pages, every history and every offset.     *)
(***************************************************************************)
EXTENDS ProposalDelivery, ActionLifecycle, WellFoundedInduction, TLAPS

AnyHead == 0 .. Foreign
Commits == [of : AnyHead, by : {"operator", "person", "owner"}, id : Nat]

\* The steps inside an effect, and those after the merge was looked for.
Within == {"look", "prior", "read", "settle", "gates", "send",
           "do fetch", "do switch", "do forward"}
Following == {"switch", "do switch", "forward", "do forward", "verify"}

LocalOK(l) ==
    /\ DOMAIN l = {"branch", "work", "main", "dirty"}
    /\ l.branch \in {"work", "main"} /\ l.work \in Heads /\ l.main \in Seq(Commits)

HubOK(h) ==
    /\ DOMAIN h = {"work", "main", "pull"}
    /\ DOMAIN h.pull = {"num", "state", "draft", "refused", "ours", "head"}
    /\ h.work \in AnyHead /\ h.pull.head \in AnyHead /\ h.main \in Seq(Commits)
    /\ h.pull.state = "open" => h.pull.head = h.work

ReviewedMerges(h, r) ==
    \A i \in DOMAIN h.main : h.main[i].by = "operator" => h.main[i].of \in r

\* A merge that may still land names a reviewed head.
CommandsOK(cs, r) ==
    \A c \in cs :
        /\ DOMAIN c = {"kind", "head", "num", "known", "here"}
        /\ c.head \in AnyHead
        /\ c.kind = "merge" => c.head \in r

OpOK(o) ==
    /\ DOMAIN o = {"kind", "step", "head", "num", "base", "from"}
    /\ o.kind \in Kinds /\ o.head \in AnyHead /\ o.base \in Seq(Commits)
    /\ o.step \in Following => \E i \in DOMAIN o.base : o.base[i].of = o.head

Admitted(a, o) ==
    /\ DOMAIN a = Threads
    /\ (a[Operator] # NoSession) = (o.step \in Within)

\* What follows is said of the variables through these names only.
IInv ==
    /\ LocalOK(local) /\ HubOK(hub) /\ ReviewedMerges(hub, reviews)
    /\ CommandsOK(sent, reviews) /\ OpOK(op) /\ Admitted(acting, op)
    /\ authority \in Nat /\ opened \in Nat
    /\ reviews \subseteq Heads /\ shocks \in 0 .. MaxShocks

USE DeliveryAssumption

LEMMA Ranges == Heads \subseteq AnyHead /\ Absent \in AnyHead /\ Foreign \in AnyHead
  BY DEF Heads, AnyHead, Absent, Foreign

LEMMA InitIInv == Init => IInv
<1> SUFFICES ASSUME Init PROVE IInv
  OBVIOUS
<1>1. LocalOK(local) /\ HubOK(hub) /\ ReviewedMerges(hub, reviews)
  BY Ranges DEF Init, Checkout, NoPull, LocalOK, HubOK, ReviewedMerges, Heads, Absent
<1>2. CommandsOK(sent, reviews) /\ OpOK(op) /\ Admitted(acting, op)
  BY Ranges DEF Init, AuthorityInit, CommandsOK, OpOK, Admitted, Over, Kinds, Within, Following
<1> QED BY <1>1, <1>2 DEF Init, AuthorityInit, NoSession, IInv

-------------------------------------------------------------------------------
(* The executor: it leaves the hub and, but for adoption, the checkout.    *)

\* What an executor may change without a fact about the hub.
Moves ==
    /\ CommandsOK(sent', reviews) /\ OpOK(op') /\ Admitted(acting', op')
    /\ authority' \in Nat /\ opened' \in Nat

LEMMA AdmitActs ==
    ASSUME IInv, Admit PROVE
      /\ DOMAIN acting' = Threads /\ acting'[Operator] # NoSession
      /\ authority' \in Nat /\ opened' \in Nat /\ op.step \notin Within
  BY DEF Admit, Begin, IInv, Admitted

LEMMA SettleOK ==
    ASSUME IInv, NEW next, Settle(next), next \notin Within,
           next \in Following => \E i \in DOMAIN op.base : op.base[i].of = op.head
    PROVE  OpOK(op') /\ Admitted(acting', op') /\ authority' \in Nat /\ opened' \in Nat
<1>1. acting'[Operator] = NoSession /\ DOMAIN acting' = Threads
      /\ authority' \in Nat /\ opened' \in Nat
  BY DEF Settle, End, IInv, Admitted
<1>2. CASE next = "idle"
  BY <1>1, <1>2, Ranges DEF Settle, Over, OpOK, Admitted, Within, Following, Kinds
<1>3. CASE next # "idle"
  BY <1>1, <1>3 DEF Settle, IInv, OpOK, Admitted
<1> QED BY <1>2, <1>3

LEMMA StepOK ==
    ASSUME IInv, NEW next, Step(next), DOMAIN acting' = Threads,
           (acting'[Operator] # NoSession) = (next \in Within),
           next \in Following => op.step \in Following
    PROVE  OpOK(op') /\ Admitted(acting', op')
  BY DEF Step, IInv, OpOK, Admitted

LEMMA SendOK ==
    ASSUME IInv, NEW kind \in Kinds, Send(kind), op.step \in Within,
           kind = "merge" => op.head \in reviews
    PROVE  Moves
<1>1. CommandsOK(sent', reviews)
  BY DEF Send, IInv, CommandsOK, OpOK
<1>2. OpOK(op') /\ Admitted(acting', op')
  BY DEF Send, IInv, OpOK, Admitted, Within, Following, authorityVars
<1> QED BY <1>1, <1>2 DEF Send, IInv, Moves, authorityVars

LEMMA PublishMoves ==
    ASSUME IInv,
           \/ \E kind \in {"push", "create", "edit"} : BeginPublish(kind)
           \/ Look \/ Prior \/ GiveUp \/ ReadBack \/ Unverified \/ SettleLast
    PROVE  Moves
<1>1. ASSUME NEW kind \in {"push", "create", "edit"}, BeginPublish(kind) PROVE Moves
  <2>0. local.work \in AnyHead
    BY Ranges DEF IInv, LocalOK
  <2>1. OpOK(op') /\ op'.step \in Within
    BY <1>1, <2>0 DEF BeginPublish, Over, OpOK, Kinds, Within, Following
  <2> QED
    BY <1>1, <2>1, AdmitActs DEF BeginPublish, Still, IInv, Moves, Admitted
<1>2. CASE Look
  <2>1. op.step \in Within
    BY <1>2 DEF Look, At, Within
  <2>2. CASE Send("push")
    BY <2>1, <2>2, SendOK DEF Kinds
  <2>3. CASE Step("prior") /\ UNCHANGED <<authorityVars, local, hub, sent, reviews, shocks>>
    BY <2>1, <2>3, StepOK DEF IInv, Moves, Admitted, authorityVars, Within, Following
  <2> QED BY <1>2, <2>2, <2>3 DEF Look
<1>3. CASE Prior
  <2>1. op.step \in Within
    BY <1>3 DEF Prior, At, Within
  <2> QED BY <1>3, <2>1, SendOK DEF Prior, Kinds
<1>4. CASE GiveUp \/ SettleLast
  BY <1>4, SettleOK DEF GiveUp, SettleLast, Still, IInv, Moves, Within, Following
<1>5. CASE ReadBack
  <2>1. CommandsOK(sent', reviews)
    BY <1>5 DEF ReadBack, IInv, CommandsOK
  <2> QED BY <1>5, <2>1, SettleOK DEF ReadBack, Moves, Within, Following
<1>6. CASE Unverified
  <2>1. DOMAIN acting' = Threads /\ acting'[Operator] # NoSession
        /\ authority' \in Nat /\ opened' \in Nat
    BY <1>6 DEF Unverified, Poison, IInv, Admitted
  <2>2. OpOK(op') /\ Admitted(acting', op')
    BY <1>6, <2>1, StepOK DEF Unverified, Within, Following
  <2> QED BY <1>6, <2>1, <2>2 DEF Unverified, Still, IInv, Moves
<1> QED BY <1>1, <1>2, <1>3, <1>4, <1>5, <1>6

LEMMA PromoteMoves ==
    ASSUME IInv,
           \/ BeginPromote \/ See \/ GatesPass \/ SeeAgain \/ BeginStage \/ SendStage \/ Refuse
    PROVE  Moves
<1>1. CASE BeginPromote
  <2>0. local.work \in AnyHead /\ local.main \in Seq(Commits)
    BY Ranges DEF IInv, LocalOK
  <2>1. OpOK(op') /\ op'.step \notin Within
    BY <1>1, <2>0 DEF BeginPromote, Over, OpOK, Kinds, Within, Following
  <2>2. op.step \notin Within
    BY <1>1 DEF BeginPromote, At, Within
  <2> QED BY <1>1, <2>1, <2>2 DEF BeginPromote, Still, authorityVars, IInv, Moves, Admitted
<1>2. CASE See
  BY <1>2, AdmitActs, StepOK DEF See, Still, IInv, Moves, Within, Following
<1>3. CASE GatesPass
  BY <1>3, SettleOK DEF GatesPass, Still, IInv, Moves, Within, Following
<1>4. CASE SeeAgain
  <2> DEFINE next == IF hub.pull.draft THEN "ready" ELSE "merge"
  <2>1. next \notin Within /\ next \notin Following
    BY DEF Within, Following
  <2>2. Step(next) /\ op.step \notin Within
    BY <1>4 DEF SeeAgain, At, Within
  <2> HIDE DEF next
  <2>3. OpOK(op') /\ Admitted(acting', op')
    BY <1>4, <2>1, <2>2, StepOK DEF SeeAgain, authorityVars, IInv, Admitted
  <2> QED BY <1>4, <2>3 DEF SeeAgain, Still, authorityVars, IInv, Moves
<1>5. CASE BeginStage
  <2>1. OpOK(op') /\ op'.step \in Within
    BY <1>5 DEF BeginStage, At, IInv, OpOK, Kinds, Within, Following
  <2> QED BY <1>5, <2>1, AdmitActs DEF BeginStage, Still, IInv, Moves, Admitted
<1>6. CASE SendStage
  <2>1. op.step \in Within /\ op.kind \in Kinds /\ op.head \in reviews
    BY <1>6 DEF SendStage, ReadyForEffect, Reviewed, At, Within, IInv, OpOK
  <2> QED BY <1>6, <2>1, SendOK DEF SendStage
<1>7. CASE Refuse
  <2>1. op.step \notin Within
    BY <1>7 DEF Refuse, Within
  <2>2. OpOK(op') /\ op'.step \notin Within
    BY <1>7, Ranges DEF Refuse, Over, OpOK, Kinds, Within, Following
  <2> QED BY <1>7, <2>1, <2>2 DEF Refuse, Still, authorityVars, IInv, Moves, Admitted
<1> QED BY <1>1, <1>2, <1>3, <1>4, <1>5, <1>6, <1>7

\* Adoption: once the fetched branch was searched, the merge stays in it.
LEMMA AdoptMoves ==
    ASSUME IInv, BeginAdopt \/ Enter \/ Fetch \/ Switch \/ Forward \/ Verify
    PROVE  Moves
<1>1. CASE BeginAdopt
  <2>1. OpOK(op') /\ op'.step \notin Within
    BY <1>1 DEF BeginAdopt, IInv, OpOK, HubOK, Kinds, Within, Following
  <2>2. op.step \notin Within
    BY <1>1 DEF BeginAdopt, At, Within
  <2> QED BY <1>1, <2>1, <2>2 DEF BeginAdopt, Still, authorityVars, IInv, Moves, Admitted
<1>2. CASE Enter
  <2> DEFINE next == IF AsPlanned THEN Runs[op.step] ELSE "settle"
  <2>1. next \in Within /\ (next \in Following => op.step \in Following)
    <3>1. op.step \in {"fetch", "switch", "forward"}
      BY <1>2 DEF Enter, Runs
    <3>2. CASE op.step = "fetch"
      BY <3>2 DEF Runs, Within, Following
    <3>3. CASE op.step = "switch"
      BY <3>3 DEF Runs, Within, Following
    <3>4. CASE op.step = "forward"
      BY <3>4 DEF Runs, Within, Following
    <3> QED BY <3>1, <3>2, <3>3, <3>4
  <2>2. Step(next)
    BY <1>2 DEF Enter
  <2> HIDE DEF next
  <2> QED BY <1>2, <2>1, <2>2, AdmitActs, StepOK DEF Enter, Still, IInv, Moves
<1>3. CASE Fetch
  <2> DEFINE next == IF hub.main = op.base /\ SameHead /\ ~local.dirty /\ Followable
                     THEN "switch" ELSE "idle"
  <2>1. next \notin Within
        /\ (next \in Following => \E i \in DOMAIN op.base : op.base[i].of = op.head)
    BY DEF Followable, Within, Following
  <2>2. Settle(next)
    BY <1>3 DEF Fetch
  <2> HIDE DEF next
  <2> QED BY <1>3, <2>1, <2>2, SettleOK DEF Fetch, Still, IInv, Moves
<1>4. CASE Switch \/ Forward
  <2>1. \E i \in DOMAIN op.base : op.base[i].of = op.head
    BY <1>4 DEF Switch, Forward, At, Following, IInv, OpOK
  <2>2. UNCHANGED <<sent, reviews>>
        /\ (Settle("idle") \/ Settle("forward") \/ Settle("verify"))
    BY <1>4 DEF Switch, Forward
  <2> QED BY <2>1, <2>2, SettleOK DEF IInv, Moves, Within, Following
<1>5. CASE Verify
  <2>1. op.step \notin Within
    BY <1>5 DEF Verify, At, Within
  <2>2. OpOK(op') /\ op'.step \notin Within
    BY <1>5, Ranges DEF Verify, Over, OpOK, Kinds, Within, Following
  <2> QED BY <1>5, <2>1, <2>2 DEF Verify, authorityVars, IInv, Moves, Admitted
<1> QED BY <1>1, <1>2, <1>3, <1>4, <1>5

\* Only adoption touches the checkout, and only with what was fetched.
LEMMA ExecutorLocal ==
    ASSUME IInv, Executor
    PROVE  /\ LocalOK(local') /\ UNCHANGED <<hub, reviews, shocks>>
           /\ Switch \/ Forward \/ UNCHANGED local
<1>1. CASE Switch
  BY <1>1 DEF Switch, IInv, LocalOK
<1>2. CASE Forward
  BY <1>2 DEF Forward, FastForward, IInv, LocalOK, OpOK
<1>3. CASE UNCHANGED <<local, hub, reviews, shocks>>
  BY <1>3 DEF IInv
<1>4. Switch \/ Forward \/ UNCHANGED <<local, hub, reviews, shocks>>
  BY DEF Executor, BeginPublish, Look, Prior, GiveUp, ReadBack, Unverified, SettleLast,
         BeginPromote, See, GatesPass, SeeAgain, BeginStage, SendStage, Refuse,
         BeginAdopt, Enter, Fetch, Verify, Send, Still
<1> QED BY <1>1, <1>2, <1>3, <1>4 DEF Switch, Forward

LEMMA ExecutorIInv == IInv /\ Executor => IInv'
<1> SUFFICES ASSUME IInv, Executor PROVE IInv'
  OBVIOUS
<1>1. Moves
  BY PublishMoves, PromoteMoves, AdoptMoves DEF Executor
<1> QED BY <1>1, ExecutorLocal DEF IInv, Moves

-------------------------------------------------------------------------------
(* The provider.                                                           *)

\* A new head of the branch is the head of the open pull request.
LEMMA PulledOK ==
    ASSUME NEW h, HubOK(h), NEW w \in AnyHead, NEW new,
           new = [h EXCEPT !.work = w, !.pull = Pulled(@, w)]
    PROVE  HubOK(new) /\ new.main = h.main
  BY DEF HubOK, Pulled

\* What is appended to the default branch by a merge was reviewed, or was not
\* merged by the operator.
LEMMA AppendOK ==
    ASSUME NEW m \in Seq(Commits), NEW e \in Commits, NEW r,
           \A i \in DOMAIN m : m[i].by = "operator" => m[i].of \in r,
           e.by = "operator" => e.of \in r
    PROVE  /\ Append(m, e) \in Seq(Commits)
           /\ \A i \in DOMAIN Append(m, e) :
                 Append(m, e)[i].by = "operator" => Append(m, e)[i].of \in r
  OBVIOUS

LEMMA MergedOK ==
    ASSUME IInv, NEW by \in {"operator", "person"}, hub' = Merged(by),
           by = "operator" => hub.pull.head \in reviews
    PROVE  HubOK(hub') /\ ReviewedMerges(hub', reviews)
<1> DEFINE e == [of |-> hub.pull.head, by |-> by, id |-> shocks]
<1>1. e \in Commits /\ e.by = by /\ e.of = hub.pull.head
  BY DEF IInv, HubOK, Commits
<1>2. HubOK(hub) /\ hub'.main = Append(hub.main, e)
  BY DEF IInv, HubOK, Merged
<1>3. /\ hub'.main \in Seq(Commits)
      /\ \A i \in DOMAIN hub'.main : hub'.main[i].by = "operator" => hub'.main[i].of \in reviews
  BY <1>1, <1>2, AppendOK DEF IInv, HubOK, ReviewedMerges
<1> QED BY <1>3 DEF Merged, IInv, HubOK, ReviewedMerges

LEMMA LandIInv ==
    ASSUME IInv, NEW c \in sent, Land(c)
    PROVE  IInv'
<1>1. HubOK(hub') /\ ReviewedMerges(hub', reviews)
  <2>1. c.head \in AnyHead /\ (c.kind = "merge" => c.head \in reviews)
    BY DEF IInv, CommandsOK
  <2>2. CASE Push(c)
    BY <2>1, <2>2, PulledOK DEF Push, IInv, ReviewedMerges
  <2>3. CASE Create(c)
    BY <2>3 DEF Create, IInv, HubOK, ReviewedMerges
  <2>4. CASE Edit(c) \/ Ready(c)
    BY <2>4 DEF Edit, Ready, IInv, HubOK, ReviewedMerges
  <2>5. CASE c.kind = "merge" /\ Merge(c)
    BY <2>1, <2>5, MergedOK DEF Merge
  <2> QED BY <2>2, <2>3, <2>4, <2>5 DEF Land, Effect
<1>2. CommandsOK(sent', reviews)
  BY DEF Land, IInv, CommandsOK
<1> QED BY <1>1, <1>2 DEF Land, IInv, authorityVars

LEMMA OthersIInv == IInv /\ Others => IInv'
<1> SUFFICES ASSUME IInv, Others PROVE IInv'
  OBVIOUS
<1>1. HubOK(hub') /\ ReviewedMerges(hub', reviews)
  <2>1. CASE HubDo([hub EXCEPT !.work = Foreign, !.pull = Pulled(@, Foreign)])
    BY <2>1, PulledOK, Ranges DEF HubDo, IInv, ReviewedMerges
  <2>2. ASSUME NEW h \in 0 .. hub.work - 1,
               HubDo([hub EXCEPT !.work = h,
                                 !.pull = IF h = Absent THEN Orphaned(@) ELSE Pulled(@, h)])
        PROVE  HubOK(hub') /\ ReviewedMerges(hub', reviews)
    <3>1. h \in AnyHead
      BY DEF IInv, HubOK, AnyHead, Foreign
    <3>2. CASE h = Absent
      BY <2>2, <3>1, <3>2 DEF HubDo, Orphaned, IInv, HubOK, ReviewedMerges
    <3>3. CASE h # Absent
      <4> DEFINE new == [hub EXCEPT !.work = h, !.pull = Pulled(@, h)]
      <4>1. HubOK(new) /\ new.main = hub.main
        BY <3>1, PulledOK DEF IInv
      <4>2. hub' = new
        BY <2>2, <3>3 DEF HubDo
      <4> HIDE DEF new
      <4> QED BY <4>1, <4>2 DEF IInv, ReviewedMerges
    <3> QED BY <3>2, <3>3
  <2>3. CASE \/ HubDo([hub EXCEPT !.pull.refused = ~@])
             \/ HubDo([hub EXCEPT !.pull.draft = ~@])
             \/ HubDo([hub EXCEPT !.pull.ours = FALSE])
             \/ HubDo([hub EXCEPT !.pull.state = "closed"])
    BY <2>3 DEF HubDo, IInv, HubOK, ReviewedMerges
  <2>4. CASE HubDo(Merged("person"))
    BY <2>4, MergedOK DEF HubDo
  <2>5. CASE HubDo([hub EXCEPT !.main =
                       Append(@, [of |-> Absent, by |-> "person", id |-> shocks])])
    <3> DEFINE e == [of |-> Absent, by |-> "person", id |-> shocks]
    <3>1. e \in Commits /\ e.by # "operator"
      BY Ranges DEF Commits, IInv
    <3>2. hub' = [hub EXCEPT !.main = Append(hub.main, e)]
      BY <2>5 DEF HubDo
    <3> HIDE DEF e
    <3> QED BY <3>1, <3>2, AppendOK DEF IInv, HubOK, ReviewedMerges
  <2>6. CASE hub.main # <<>> /\ HubDo([hub EXCEPT !.main = Front(@)])
    <3>1. /\ Front(hub.main) \in Seq(Commits)
          /\ \A i \in DOMAIN Front(hub.main) :
                i \in DOMAIN hub.main /\ Front(hub.main)[i] = hub.main[i]
      BY <2>6 DEF Front, IInv, HubOK
    <3> QED BY <2>6, <3>1 DEF HubDo, IInv, HubOK, ReviewedMerges
  <2>7. CASE /\ hub.work # Absent
             /\ HubDo([hub EXCEPT !.pull.state = "open", !.pull.head = hub.work])
    BY <2>7 DEF HubDo, IInv, HubOK, ReviewedMerges
  <2> QED BY <2>1, <2>2, <2>3, <2>4, <2>5, <2>6, <2>7 DEF Others
<1>2. shocks' \in 0 .. MaxShocks /\ UNCHANGED <<authorityVars, local, sent, reviews, op>>
  <2>1. ASSUME NEW new, HubDo(new)
        PROVE  shocks' \in 0 .. MaxShocks /\ UNCHANGED <<authorityVars, local, sent, reviews, op>>
    BY <2>1 DEF HubDo, Shock, IInv
  <2> QED BY <2>1 DEF Others
<1> QED BY <1>1, <1>2 DEF IInv, authorityVars

-------------------------------------------------------------------------------
(* Reviewers, the owner's shell, sessions, restarts.                       *)

LEMMA ReviewIInv == IInv /\ Review => IInv'
<1> SUFFICES ASSUME IInv, Review PROVE IInv'
  OBVIOUS
<1>1. reviews' \subseteq Heads /\ reviews \subseteq reviews'
  BY DEF Review, IInv, LocalOK
<1>2. CommandsOK(sent', reviews') /\ ReviewedMerges(hub', reviews')
  BY <1>1 DEF Review, IInv, CommandsOK, ReviewedMerges
<1> QED BY <1>1, <1>2 DEF Review, IInv, authorityVars

\* The owner adds commits and moves between branches.
LEMMA ShellLocal ==
    ASSUME IInv, Shell
    PROVE  /\ LocalOK(local')
           /\ local'.main = local.main \/ \E e \in Commits : local'.main = Append(local.main, e)
           /\ shocks' \in 0 .. MaxShocks
           /\ UNCHANGED <<authorityVars, hub, sent, reviews, op>>
<1>1. ASSUME ShellDo([local EXCEPT !.work = @ + 1, !.dirty = FALSE]),
             local.work < MaxHeads, UNCHANGED shocks
      PROVE  /\ LocalOK(local') /\ local'.main = local.main
             /\ shocks' \in 0 .. MaxShocks
  BY <1>1 DEF ShellDo, IInv, LocalOK, Heads
<1>2. ASSUME ShellDo([local EXCEPT !.dirty = FALSE,
                  !.main = Append(@, [of |-> Absent, by |-> "owner", id |-> shocks])])
      PROVE  /\ LocalOK(local')
             /\ \E e \in Commits : local'.main = Append(local.main, e)
  <2> DEFINE e == [of |-> Absent, by |-> "owner", id |-> shocks]
  <2>1. e \in Commits
    BY Ranges DEF Commits, IInv
  <2>2. local' = [local EXCEPT !.dirty = FALSE, !.main = Append(local.main, e)]
    BY <1>2 DEF ShellDo
  <2> HIDE DEF e
  <2>3. Append(local.main, e) \in Seq(Commits)
    BY <2>1 DEF IInv, LocalOK
  <2> QED BY <2>1, <2>2, <2>3 DEF IInv, LocalOK
<1>3. ASSUME NEW b \in {"work", "main"}, ShellDo([local EXCEPT !.branch = b])
      PROVE  LocalOK(local') /\ local'.main = local.main
  BY <1>3 DEF ShellDo, IInv, LocalOK
<1>4. ASSUME ShellDo([local EXCEPT !.dirty = ~@])
      PROVE  LocalOK(local') /\ local'.main = local.main
  BY <1>4 DEF ShellDo, IInv, LocalOK
<1>5. UNCHANGED <<authorityVars, hub, sent, reviews, op>>
  BY DEF Shell, ShellDo
<1>6. Shock => shocks' \in 0 .. MaxShocks
  BY DEF Shock, IInv
<1> QED BY <1>1, <1>2, <1>3, <1>4, <1>5, <1>6 DEF Shell

LEMMA RestIInv == IInv /\ (Shell \/ SessionChanges \/ ProcessRestarts \/ UNCHANGED vars) => IInv'
<1>1. IInv /\ Shell => IInv'
  BY ShellLocal DEF IInv, authorityVars
<1>2. IInv /\ SessionChanges => IInv'
  BY DEF SessionChanges, Open, Close, NoSession, IInv
<1>3. IInv /\ ProcessRestarts => IInv'
  <2> SUFFICES ASSUME IInv, ProcessRestarts PROVE IInv'
    OBVIOUS
  <2>1. CommandsOK(sent', reviews)
    BY DEF ProcessRestarts, IInv, CommandsOK
  <2>2. OpOK(op') /\ op'.step \notin Within
    BY Ranges DEF ProcessRestarts, Over, OpOK, Kinds, Within, Following
  <2>3. Admitted(acting', op') /\ authority' \in Nat /\ opened' \in Nat
    BY <2>2 DEF ProcessRestarts, Restart, Admitted, NoSession, IInv
  <2>4. shocks' \in 0 .. MaxShocks
    BY DEF ProcessRestarts, Shock, IInv
  <2> QED BY <2>1, <2>2, <2>3, <2>4 DEF ProcessRestarts, IInv
<1>4. IInv /\ UNCHANGED vars => IInv'
  BY DEF vars, authorityVars, IInv
<1> QED BY <1>1, <1>2, <1>3, <1>4

LEMMA NextIInv == IInv /\ [Next]_vars => IInv'
  BY ExecutorIInv, LandIInv, OthersIInv, ReviewIInv, RestIInv DEF Next

LEMMA AlwaysIInv == Spec => []IInv
  BY InitIInv, NextIInv, PTL DEF Spec

\* Whatever is pushed, opened or rewritten between the last observation and the
\* merge, and however late the merge lands (promote_proposal): what the operator
\* merges is a head whose review approved it.
THEOREM DeliverySafety == Spec => []Safety
<1>1. IInv => Safety
  BY DEF IInv, Safety, TypeOK, MergedIsReviewed, LocalOK, HubOK, ReviewedMerges, OpOK,
         Admitted, AnyHead, Within
<1> QED BY <1>1, AlwaysIInv, PTL

LEMMA PrefixOfItself == ASSUME NEW s \in Seq(Commits) PROVE IsPrefix(s, s)
  BY DEF IsPrefix

LEMMA PrefixOfAppend ==
    ASSUME NEW s \in Seq(Commits), NEW e \in Commits PROVE IsPrefix(s, Append(s, e))
  BY DEF IsPrefix

LEMMA StepDropsNothing ==
    ASSUME IInv, [Next]_vars
    PROVE  /\ IsPrefix(local.main, local'.main)
           /\ Verify => \E i \in DOMAIN local.main : local.main[i].of = op.head
<1> DEFINE Kept == IsPrefix(local.main, local'.main)
<1>1. local.main \in Seq(Commits)
  BY DEF IInv, LocalOK
<1>2. UNCHANGED local => Kept
  BY <1>1, PrefixOfItself
<1>3. Shell => Kept
  BY <1>1, ShellLocal, PrefixOfItself, PrefixOfAppend
<1>4. Switch => Kept
  BY <1>1, PrefixOfItself DEF Switch, IInv, LocalOK
<1>5. Forward => Kept
  BY <1>1, PrefixOfItself DEF Forward, FastForward, IInv, LocalOK
<1>6. Switch \/ Forward \/ Shell \/ UNCHANGED local
  BY ExecutorLocal DEF Next, Land, Review, Others, HubDo, SessionChanges, ProcessRestarts, vars
<1>7. Verify => \E i \in DOMAIN local.main : local.main[i].of = op.head
  BY DEF Verify, At, Following, IInv, OpOK
<1> QED BY <1>2, <1>3, <1>4, <1>5, <1>6, <1>7

\* An adoption in any state of the checkout (adopt_proposal), with the owner at
\* work in it: no commit leaves the local default branch, and one that reports success
\* holds the merge of the proposal.
THEOREM DropsNothing == Spec => NothingDropped
<1>1. IInv /\ [Next]_vars =>
        [/\ IsPrefix(local.main, local'.main)
         /\ Verify => \E i \in DOMAIN local.main : local.main[i].of = op.head]_vars
  BY StepDropsNothing
<1> QED BY <1>1, AlwaysIInv, PTL DEF Spec, NothingDropped

-------------------------------------------------------------------------------
(* Doubt.                                                                  *)

Busy == Within \ {"read", "settle"}

InDoubt(c) == c.here = TRUE /\ c.known # TRUE

\* A command in doubt is the one being read back, or it poisoned the process and
\* nothing is admitted any more.
Doubts(cs, o, p) ==
    \A c \in cs : InDoubt(c) =>
        \/ o.step = "read" /\ c.kind = o.kind
        \/ o.step \notin Busy \cup {"read"} /\ p

DoubtInv == IInv /\ Doubts(sent, op, poisoned)

NoDoubt == \A c \in sent : ~InDoubt(c)

LEMMA BusyIsSure == DoubtInv /\ op.step \in Busy => NoDoubt
  BY DEF DoubtInv, Doubts, NoDoubt, Busy

LEMMA AdmittedIsSure == DoubtInv /\ Admit => NoDoubt
<1>1. DoubtInv /\ Admit => op.step \notin Within /\ ~poisoned
  BY DEF DoubtInv, Admit, Begin, IInv, Admitted
<1> QED BY <1>1 DEF DoubtInv, Doubts, NoDoubt, Within

LEMMA SureStays ==
    ASSUME NoDoubt, UNCHANGED sent PROVE Doubts(sent', op', poisoned')
  BY DEF NoDoubt, Doubts

LEMMA SendDoubts ==
    ASSUME NoDoubt, NEW kind, Send(kind) PROVE Doubts(sent', op', poisoned')
<1> DEFINE c == [kind |-> kind, head |-> op.head, num |-> op.num, known |-> FALSE, here |-> TRUE]
<1>1. sent' = sent \cup {c} /\ c.kind = kind
  BY DEF Send
<1>2. op'.step = "read" /\ op'.kind = kind
  BY DEF Send
<1> HIDE DEF c
<1> QED BY <1>1, <1>2 DEF NoDoubt, Doubts

\* Steps outside every effect, or out of one that is settled.
LEMMA QuietDoubts ==
    ASSUME DoubtInv, UNCHANGED <<sent, poisoned>>, op.step \notin Busy \cup {"read"},
           op'.step \notin Within
    PROVE  Doubts(sent', op', poisoned')
  BY DEF DoubtInv, Doubts, Busy, Within

LEMMA ExecutorDoubts ==
    ASSUME DoubtInv, Executor
    PROVE  /\ Doubts(sent', op', poisoned')
           /\ ~At("read") /\ op'.step = "read" => NoDoubt
<1>0. DOMAIN op = {"kind", "step", "head", "num", "base", "from"}
  BY DEF DoubtInv, IInv, OpOK
<1>1. CASE \/ \E kind \in {"push", "create", "edit"} : BeginPublish(kind)
           \/ See \/ BeginStage \/ Enter
  <2>1. NoDoubt /\ UNCHANGED sent
    BY <1>1, AdmittedIsSure DEF BeginPublish, See, BeginStage, Enter, Still
  <2> QED BY <2>1, SureStays
<1>2. CASE Look \/ Prior \/ SendStage
  <2>1. NoDoubt
    BY <1>2, BusyIsSure DEF Look, Prior, SendStage, At, Busy, Within
  <2>2. UNCHANGED sent \/ \E kind \in Kinds : Send(kind)
    BY <1>2 DEF Look, Prior, SendStage, Kinds, DoubtInv, IInv, OpOK
  <2> QED BY <2>1, <2>2, SureStays, SendDoubts
<1>3. CASE GiveUp \/ GatesPass \/ Fetch \/ Switch \/ Forward
  <2>1. NoDoubt
    BY <1>3, BusyIsSure DEF GiveUp, GatesPass, Fetch, Switch, Forward, At, Busy, Within
  <2>2. UNCHANGED sent
    BY <1>3 DEF GiveUp, GatesPass, Fetch, Switch, Forward, Still
  <2> QED BY <2>1, <2>2, SureStays
<1>4. CASE ReadBack
  <2>1. op.step = "read" /\ sent' = {[c EXCEPT !.known = @ \/ c.kind = op.kind] : c \in sent}
    BY <1>4 DEF ReadBack, At
  <2>2. ASSUME NEW c \in sent
        PROVE  ~InDoubt([c EXCEPT !.known = @ \/ c.kind = op.kind])
    <3> DEFINE d == [c EXCEPT !.known = @ \/ c.kind = op.kind]
    <3>1. d.here = c.here /\ d.known = (c.known \/ c.kind = op.kind)
      BY DEF DoubtInv, IInv, CommandsOK
    <3>2. InDoubt(c) => c.kind = op.kind
      BY <2>1 DEF DoubtInv, Doubts
    <3>3. CASE InDoubt(c)
      BY <3>1, <3>2, <3>3 DEF InDoubt
    <3>4. CASE c.here # TRUE
      BY <3>1, <3>4 DEF InDoubt
    <3>5. CASE c.known = TRUE
      BY <3>1, <3>5 DEF InDoubt
    <3> QED BY <3>3, <3>4, <3>5 DEF InDoubt
  <2> QED BY <2>1, <2>2 DEF Doubts, At
<1>5. CASE Unverified
  BY <1>0, <1>5 DEF Unverified, Poison, Step, Still, At, DoubtInv, Doubts, Busy
<1>6. CASE SettleLast \/ BeginPromote \/ SeeAgain \/ Refuse \/ BeginAdopt \/ Verify
  <2>1. op.step \notin Busy \cup {"read"}
    BY <1>6 DEF SettleLast, BeginPromote, SeeAgain, Refuse, BeginAdopt, Verify, At, Busy, Within
  <2>2. UNCHANGED <<sent, poisoned>>
    BY <1>6 DEF SettleLast, Settle, End, BeginPromote, SeeAgain, Refuse, BeginAdopt, Verify,
                Still, authorityVars
  <2>3. op'.step \notin Within
    <3>1. CASE SettleLast \/ Refuse \/ Verify
      <4>1. op' = Over
        BY <3>1 DEF SettleLast, Settle, Refuse, Verify
      <4> QED BY <4>1 DEF Over, Within
    <3>4. CASE BeginPromote
      BY <3>4 DEF BeginPromote, Over, Within
    <3>2. CASE SeeAgain
      BY <1>0, <3>2 DEF SeeAgain, Step, Within
    <3>3. CASE BeginAdopt
      BY <3>3 DEF BeginAdopt, Within
    <3> QED BY <1>6, <3>1, <3>2, <3>3, <3>4
  <2> QED BY <2>1, <2>2, <2>3, QuietDoubts DEF Within
<1> QED BY <1>1, <1>2, <1>3, <1>4, <1>5, <1>6 DEF Executor

LEMMA NextDoubts == DoubtInv /\ [Next]_vars => DoubtInv'
<1> SUFFICES ASSUME DoubtInv, [Next]_vars PROVE Doubts(sent', op', poisoned')
  BY NextIInv DEF DoubtInv, Doubts
<1>1. CASE UNCHANGED <<op, poisoned>> /\ sent' \subseteq sent
  BY <1>1 DEF DoubtInv, Doubts
<1>2. CASE ProcessRestarts
  <2>1. \A c \in sent : [c EXCEPT !.here = FALSE].here = FALSE
    BY DEF DoubtInv, IInv, CommandsOK
  <2> QED BY <1>2, <2>1 DEF ProcessRestarts, Doubts, InDoubt
<1>3. Executor \/ ProcessRestarts \/ (UNCHANGED <<op, poisoned>> /\ sent' \subseteq sent)
  BY DEF Next, Land, Review, Shell, ShellDo, Others, HubDo, SessionChanges, Open, Close,
         vars, authorityVars
<1> QED BY <1>1, <1>2, <1>3, ExecutorDoubts

\* "Observation below must reconcile its effect, not retry" (publish_proposal,
\* ready_effect, merge_effect): while a command of this process may take effect
\* and was not read back no other is sent, whatever sessions come and go.
THEOREM NoneBesideDoubt == Spec => NothingBesideDoubt
<1>1. Init => DoubtInv
  BY InitIInv DEF DoubtInv, Init, Doubts
<1>2. Spec => []DoubtInv
  BY <1>1, NextDoubts, PTL DEF Spec
<1>3. DoubtInv /\ [Next]_vars =>
        [~At("read") /\ op'.step = "read" => ~\E c \in sent : c.here /\ ~c.known]_vars
  <2> SUFFICES ASSUME DoubtInv, [Next]_vars, ~At("read"), op'.step = "read"
               PROVE  ~\E c \in sent : c.here /\ ~c.known
    OBVIOUS
  <2>1. Executor
    <3>1. op' = op \/ op' = Over \/ Executor
      BY DEF Next, Land, Review, Shell, ShellDo, Others, HubDo, SessionChanges,
             ProcessRestarts, vars
    <3> QED BY <3>1 DEF At, Over
  <2> QED BY <2>1, ExecutorDoubts DEF NoDoubt, InDoubt
<1> QED BY <1>2, <1>3, PTL DEF Spec, NothingBesideDoubt

-------------------------------------------------------------------------------
(* The page of an action: places in its history.                           *)

\* Every set of naturals that is not empty has a least element.
LEMMA HasLeast ==
    ASSUME NEW T \in SUBSET Nat, T # {}
    PROVE  \E x \in T : \A y \in T : x <= y
<1>1. IsWellFoundedOn(OpToRel(<, Nat), Nat)
  BY NatLessThanWellFounded
<1>2. PICK x \in T : \A y \in T : ~ (<<y, x>> \in OpToRel(<, Nat))
  BY <1>1, WFMin
<1>3. \A y \in T : ~(y < x)
  BY <1>2 DEF OpToRel
<1> QED BY <1>3

\* A set of places that is not empty has a last one.
LEMMA HasLast ==
    ASSUME NEW n \in Nat, NEW S \in SUBSET (1 .. n), S # {}
    PROVE  \E m \in S : \A j \in S : j <= m
<1> DEFINE T == {i \in Nat : n - i \in S}
<1>1. \A j \in S : j \in Int /\ n - j \in Nat /\ n - (n - j) = j
  OBVIOUS
<1>2. T \in SUBSET Nat /\ T # {}
  BY <1>1
<1>3. PICK x \in T : \A y \in T : x <= y
  <2> HIDE DEF T
  <2> QED BY <1>2, HasLeast
<1>4. ASSUME NEW j \in S PROVE j <= n - x
  <2>1. j \in Int /\ n - j \in T
    BY <1>1
  <2>2. x <= n - j /\ x \in Nat
    BY <1>3, <2>1
  <2> QED BY <2>1, <2>2
<1>5. n - x \in S
  BY <1>3
<1> QED BY <1>4, <1>5

\* The latest of some places is one of them.
LEMMA LatestIs ==
    ASSUME NEW n \in Nat, NEW S \in SUBSET (1 .. n), S # {}
    PROVE  Latest(S) \in S /\ \A j \in S : j <= Latest(S)
BY HasLast DEF Latest

\* And so is the earliest.
LEMMA EarliestIs ==
    ASSUME NEW n \in Nat, NEW S \in SUBSET (1 .. n), S # {}
    PROVE  Earliest(S) \in S /\ \A j \in S : Earliest(S) <= j
<1>1. S \in SUBSET Nat
  OBVIOUS
<1> QED BY <1>1, HasLeast DEF Earliest

\* A place after all others is the latest.
LEMMA LatestOfMore ==
    ASSUME NEW n \in Nat, NEW S \in SUBSET (1 .. n)
    PROVE  Latest(S \cup {n + 1}) = n + 1
<1> DEFINE T == S \cup {n + 1}
<1>1. T \in SUBSET (1 .. n + 1) /\ T # {} /\ n + 1 \in Nat
  OBVIOUS
<1>2. PICK x : x = Latest(T)
  OBVIOUS
<1>3. x \in T /\ n + 1 <= x
  <2> HIDE DEF T
  <2>1. \A j \in T : j <= x
    BY <1>1, <1>2, LatestIs
  <2>2. x \in T
    BY <1>1, <1>2, LatestIs
  <2> QED BY <2>1, <2>2 DEF T
<1>4. \A j \in S : j \in Int /\ j <= n
  OBVIOUS
<1>5. x = n + 1
  BY <1>3, <1>4
<1> QED BY <1>2, <1>5

\* It is the earliest only when it is the only one.
LEMMA EarliestOfMore ==
    ASSUME NEW n \in Nat, NEW S \in SUBSET (1 .. n)
    PROVE  /\ S = {} => Earliest(S \cup {n + 1}) = n + 1
           /\ S # {} => Earliest(S \cup {n + 1}) = Earliest(S)
<1> DEFINE T == S \cup {n + 1}
<1>1. T \in SUBSET (1 .. n + 1) /\ T # {} /\ n + 1 \in Nat
  OBVIOUS
<1>2. PICK x : x = Earliest(T)
  OBVIOUS
<1>3. x \in T /\ \A j \in T : x <= j
  <2> HIDE DEF T
  <2> QED BY <1>1, <1>2, EarliestIs
<1>4. CASE S = {}
  BY <1>2, <1>3, <1>4
<1>5. CASE S # {}
  <2>1. PICK y : y = Earliest(S)
    OBVIOUS
  <2>2. y \in S /\ \A j \in S : y <= j
    BY <1>5, <2>1, EarliestIs
  <2>3. \A j \in S : j \in Int /\ j <= n
    OBVIOUS
  <2>4. x \in S
    BY <1>3, <2>2, <2>3
  <2>5. x = y
    BY <1>3, <2>2, <2>3, <2>4
  <2> QED BY <1>2, <1>5, <2>1, <2>5
<1> QED BY <1>4, <1>5

-------------------------------------------------------------------------------
(* What a writer makes of a page. *)

\* h is g and one receipt more.
Extends(g, h, e) ==
    /\ Len(h) = Len(g) + 1
    /\ \A i \in 1 .. Len(g) : h[i] = g[i]
    /\ h[Len(g) + 1] = e

Stamped(p, n, e) ==
    /\ n.hist \in Seq(Receipts) /\ Extends(p.hist, n.hist, e)
    /\ e.from = p.state /\ e.to = n.state
    /\ e.before = p.rev /\ e.reviewed = p.rev
    /\ e.prior = LastAt(p.hist) /\ e.at > LastAt(p.hist)
    /\ e.ends = (n.done_at # p.done_at)
    /\ e.support = Support(n)
    /\ e.was = Projection(p) /\ e.is = Projection(n)

Allowed(p, n, e) ==
    /\ ValidTransition(p.state, n.state)
    /\ e.kind = "transition" <=> p.state # n.state
    /\ ~n.legacy /\ Contract(n, n.state)

EditFollows(p, n, e) ==
    /\ ~e.edited /\ ~Body(e) => n.title = p.title /\ n.body = p.body
    /\ Body(e) => n.title = p.title
    /\ e.kind = "body_consolidation" => n.body = Consolidated(p.body)

DayFollows(p, n, e) ==
    /\ e.kind \in Editorial => n.updated = p.updated
    /\ e.kind \notin Editorial =>
          /\ e.v = 6 /\ n.updated = Day(e.at, e.offset)
          /\ n.updated >= PriorDate(p, e.offset, n.updated, FALSE)

TalkFollows(p, n, e) ==
    \/ e.kind # "comment" /\ n.talk = p.talk
    \/ \E t \in Events :
          /\ n.talk = Append(p.talk, t)
          /\ t.at = e.at /\ t.before = p.rev
          /\ e.kind = "comment" => t.kind = "comment"

EndFollows(p, n, e) ==
    /\ n.state \in Terminal /\ (p.state # n.state \/ p.done_at = 0) => n.done_at = e.at
    /\ n.state = p.state /\ n.state \in Terminal /\ p.done_at # 0 => n.done_at = p.done_at

Finished(p, n) ==
    p.state \in Terminal =>
        /\ n.state = p.state
        /\ p.comp # 0 /\ p.state = "done" => n.comp = p.comp
        /\ p.canc # 0 /\ p.state = "cancelled" => n.canc = p.canc
        /\ p.done_at # 0 => n.done_at = p.done_at
        /\ Projection(n) = Projection(p)

Succeeds(p, n, e) ==
    /\ n \in Pages /\ e \in Receipts
    /\ Stamped(p, n, e) /\ Allowed(p, n, e) /\ EditFollows(p, n, e)
    /\ DayFollows(p, n, e) /\ TalkFollows(p, n, e) /\ EndFollows(p, n, e)
    /\ Finished(p, n)

\* The receipt of a write, and the page it makes.
Signed(p, u, q, kind, edited) ==
    [Receipt(p, u, q, kind, edited) EXCEPT !.reviewed = p.rev]
Result(p, u, q, kind, edited) ==
    [Recorded(p, u, q, kind, edited) EXCEPT
        !.hist[Len(Recorded(p, u, q, kind, edited).hist)].reviewed = p.rev]

\* What a receipt keeps of a page.
LEMMA BodyType ==
    ASSUME NEW p \in Pages
    PROVE  /\ Projection(p) \in Projections /\ Support(p) \in Supports
           /\ Consolidated(p.body) \in Bodies
BY DEF Pages, Projections, Projection, Support, Supports, Bodies, Consolidated

\* The instant of the last receipt.
LEMMA LastAtType ==
    ASSUME NEW h \in Seq(Receipts) PROVE LastAt(h) \in Nat
<1>1. CASE h = <<>>
  BY <1>1 DEF LastAt
<1>2. CASE h # <<>>
  <2>1. h[Len(h)] \in Receipts
    BY <1>2
  <2>2. h[Len(h)].at \in Nat
    BY <2>1 DEF Receipts, Moments
  <2> QED BY <1>2, <2>2 DEF LastAt, Last
<1> QED BY <1>1, <1>2

\* Every calendar has a day for every instant.
LEMMA DayType ==
    ASSUME NEW at \in Moments, NEW offset \in Offsets
    PROVE  Day(at, offset) \in Nat \ {NoDate}
BY DEF Day, Moments, Offsets, NoDate

\* The receipt of a write, field by field.
LEMMA ReceiptType ==
    ASSUME NEW p \in Pages, NEW u \in Pages, NEW q \in RequestSpace, NEW kind \in ReceiptKinds,
           NEW edited \in BOOLEAN
    PROVE  LET e == Signed(p, u, q, kind, edited) IN
           /\ e \in Receipts
           /\ e = [kind |-> kind, v |-> IF kind \in Editorial THEN 4 ELSE 6,
                   from |-> p.state, to |-> u.state, at |-> q.at, offset |-> q.offset,
                   before |-> p.rev, reviewed |-> p.rev, prior |-> LastAt(p.hist),
                   ends |-> u.done_at # p.done_at, support |-> Support(u),
                   edited |-> edited, was |-> Projection(p), is |-> Projection(u),
                   key |-> q.key]
           /\ Receipt(p, u, q, kind, edited) \in Receipts
<1> DEFINE r == Receipt(p, u, q, kind, edited)
           e == Signed(p, u, q, kind, edited)
<1>1. p.hist \in Seq(Receipts) /\ p.rev \in Nat /\ p.state \in States /\ u.state \in States
  BY DEF Pages
<1>2. LastAt(p.hist) \in Nat /\ Projection(p) \in Projections
      /\ Projection(u) \in Projections /\ Support(u) \in Supports
  BY <1>1, LastAtType, BodyType
<1>3. q.at \in Moments /\ q.offset \in Offsets /\ q.key \in Nat
  BY DEF RequestSpace
<1>4. (u.done_at # p.done_at) \in BOOLEAN
  OBVIOUS
<1>5. r \in Receipts
  BY <1>1, <1>2, <1>3, <1>4 DEF Receipt, Receipts
<1>6. e \in Receipts
  <2> HIDE DEF r
  <2>1. e = [r EXCEPT !.reviewed = p.rev]
    BY DEF Signed, r
  <2> HIDE DEF e
  <2> QED BY <1>1, <1>5, <2>1 DEF Receipts
<1>7. e = [kind |-> kind, v |-> IF kind \in Editorial THEN 4 ELSE 6,
                   from |-> p.state, to |-> u.state, at |-> q.at, offset |-> q.offset,
                   before |-> p.rev, reviewed |-> p.rev, prior |-> LastAt(p.hist),
                   ends |-> u.done_at # p.done_at, support |-> Support(u),
                   edited |-> edited, was |-> Projection(p), is |-> Projection(u),
                   key |-> q.key]
  BY DEF Signed, Receipt
<1> QED BY <1>5, <1>6, <1>7

\* What recording does to the page, field by field.
LEMMA ResultIs ==
    ASSUME NEW p \in Pages, NEW u \in Pages, NEW q \in RequestSpace, NEW kind \in ReceiptKinds,
           NEW edited \in BOOLEAN, u.hist = p.hist, writes \in Nat
    PROVE  LET n == Result(p, u, q, kind, edited)
               e == Signed(p, u, q, kind, edited)
           IN /\ n \in Pages
              /\ Extends(p.hist, n.hist, e)
              /\ n.state = u.state /\ n.legacy = u.legacy /\ n.title = u.title
              /\ n.body = u.body /\ n.next = u.next /\ n.why = u.why /\ n.comp = u.comp
              /\ n.canc = u.canc /\ n.done_at = u.done_at /\ n.talk = u.talk
              /\ n.updated = Dated(u, q, kind) /\ n.rev = writes + 1
<1> DEFINE n == Result(p, u, q, kind, edited)
           r == Receipt(p, u, q, kind, edited)
           e == Signed(p, u, q, kind, edited)
           m == Recorded(p, u, q, kind, edited)
           d == Dated(u, q, kind)
<1>1. p.hist \in Seq(Receipts) /\ u.hist = p.hist
  BY DEF Pages
<1>2. e \in Receipts /\ r \in Receipts /\ e = [r EXCEPT !.reviewed = p.rev]
  BY ReceiptType DEF Signed
<1>3. m = [u EXCEPT !.hist = Append(p.hist, r), !.updated = d, !.rev = writes + 1]
  BY DEF Recorded
<1>4. m.hist = Append(p.hist, r)
  BY <1>3 DEF Pages
<1> HIDE DEF r, e
<1>5. Len(m.hist) = Len(p.hist) + 1
  BY <1>1, <1>2, <1>4
<1>6. [m.hist EXCEPT ![Len(m.hist)] = e] = Append(p.hist, e)
  <2>1. m.hist \in Seq(Receipts) /\ DOMAIN m.hist = 1 .. Len(p.hist) + 1
    BY <1>1, <1>2, <1>4
  <2>2. \A i \in 1 .. Len(p.hist) : m.hist[i] = p.hist[i]
    BY <1>1, <1>2, <1>4
  <2> DEFINE s == [m.hist EXCEPT ![Len(m.hist)] = e]
             t == Append(p.hist, e)
  <2>3. t \in Seq(Receipts) /\ Len(t) = Len(p.hist) + 1 /\ t[Len(p.hist) + 1] = e
        /\ \A i \in 1 .. Len(p.hist) : t[i] = p.hist[i]
    BY <1>1, <1>2
  <2>4. s \in Seq(Receipts) /\ Len(s) = Len(p.hist) + 1
    BY <2>1, <1>2, <1>5
  <2>5. \A i \in 1 .. Len(p.hist) + 1 : s[i] = t[i]
    BY <2>1, <2>2, <2>3, <1>5, <1>1
  <2>6. s = t
    <3> HIDE DEF s, t
    <3> QED BY <2>3, <2>4, <2>5
  <2> QED BY <2>6
<1>7. m.hist[Len(m.hist)] = r
  BY <1>1, <1>2, <1>4, <1>5
<1>8. n = [m EXCEPT !.hist = [m.hist EXCEPT ![Len(m.hist)] = e]]
  <2>1. n = [m EXCEPT !.hist[Len(m.hist)].reviewed = p.rev]
    BY DEF Result
  <2> HIDE DEF n, m
  <2>2. n = [m EXCEPT !.hist = [m.hist EXCEPT ![Len(m.hist)] =
                                  [m.hist[Len(m.hist)] EXCEPT !.reviewed = p.rev]]]
    BY <2>1
  <2> QED BY <2>2, <1>7, <1>2
<1>9. n = [u EXCEPT !.hist = Append(p.hist, e), !.updated = d, !.rev = writes + 1]
  <2> HIDE DEF n, m, d
  <2> QED BY <1>3, <1>8, <1>6
<1>10. d \in Nat
  <2>1. q.at \in Moments /\ q.offset \in Offsets /\ u.updated \in Nat
    BY DEF Pages, RequestSpace
  <2> QED BY <2>1, DayType DEF Dated
<1>11. Append(p.hist, e) \in Seq(Receipts)
  BY <1>1, <1>2
<1>12. n \in Pages
  <2> HIDE DEF n, m, d
  <2>1. [u EXCEPT !.hist = Append(p.hist, e)] \in Pages
    BY <1>11 DEF Pages
  <2>2. [[u EXCEPT !.hist = Append(p.hist, e)] EXCEPT !.updated = d] \in Pages
    BY <2>1, <1>10 DEF Pages
  <2>3. [[[u EXCEPT !.hist = Append(p.hist, e)] EXCEPT !.updated = d]
            EXCEPT !.rev = writes + 1] \in Pages
    <3>1. writes + 1 \in Nat
      OBVIOUS
    <3>2. ASSUME NEW w \in Pages PROVE [w EXCEPT !.rev = writes + 1] \in Pages
      BY <3>1 DEF Pages
    <3> QED BY <2>2, <3>2
  <2> QED BY <2>3, <1>9
<1>13. n.hist = Append(p.hist, e)
  <2> HIDE DEF n, m, d
  <2> QED BY <1>9 DEF Pages
<1>14. Extends(p.hist, n.hist, e)
  <2> HIDE DEF n, m, d
  <2> QED BY <1>13, <1>1, <1>2 DEF Extends
<1>15. n.state = u.state /\ n.legacy = u.legacy /\ n.title = u.title
       /\ n.body = u.body /\ n.next = u.next /\ n.why = u.why /\ n.comp = u.comp
       /\ n.canc = u.canc /\ n.done_at = u.done_at /\ n.talk = u.talk
  <2> HIDE DEF n, m, d
  <2> QED BY <1>9 DEF Pages
<1>16. n.updated = d /\ n.rev = writes + 1
  <2> HIDE DEF n, m, d
  <2> QED BY <1>9 DEF Pages
<1> QED BY <1>12, <1>14, <1>15, <1>16 DEF r, e

\* The fields of what a transition makes of a page.
LEMMA UpdatedIs ==
    ASSUME NEW p \in Pages, NEW q \in RequestSpace
    PROVE  LET u == Updated(p, q) IN
           /\ u \in Pages
           /\ u.hist = p.hist /\ u.updated = p.updated
           /\ u.state = q.to /\ u.legacy = FALSE
           /\ u.talk = IF q.talk = "none" THEN p.talk ELSE Append(p.talk, Event(p, q))
           /\ u.title = Or(q.title, p.title)
           /\ u.body = IF q.body = NoBody THEN p.body ELSE q.body
           /\ u.comp = IF q.to = "done" THEN Or(q.comp, p.comp) ELSE 0
           /\ u.canc = IF q.to = "cancelled" THEN Or(q.canc, p.canc) ELSE 0
           /\ u.done_at = CASE q.to \notin Terminal -> 0
                            [] q.to \in Terminal /\ (p.state # q.to \/ p.done_at = 0) -> q.at
                            [] OTHER -> p.done_at
<1> DEFINE u == Updated(p, q)
           talk == IF q.talk = "none" THEN p.talk ELSE Append(p.talk, Event(p, q))
           title == Or(q.title, p.title)
           body == IF q.body = NoBody THEN p.body ELSE q.body
           next == IF q.to \in Terminal THEN 0 ELSE Or(q.next, p.next)
           why == IF q.to = "blocked" THEN Or(q.why, p.why) ELSE 0
           comp == IF q.to = "done" THEN Or(q.comp, p.comp) ELSE 0
           canc == IF q.to = "cancelled" THEN Or(q.canc, p.canc) ELSE 0
           ended == CASE q.to \notin Terminal -> 0
                      [] q.to \in Terminal /\ (p.state # q.to \/ p.done_at = 0) -> q.at
                      [] OTHER -> p.done_at
<1>0. u = [p EXCEPT !.state = q.to, !.legacy = FALSE, !.talk = talk, !.title = title,
                    !.body = body, !.next = next, !.why = why, !.comp = comp,
                    !.canc = canc, !.done_at = ended]
  BY DEF Updated, Pages
<1>1. q.to \in States /\ q.body \in Bodies /\ q.title \in Nat /\ q.next \in Nat
      /\ q.why \in Nat /\ q.comp \in Nat /\ q.canc \in Nat /\ q.at \in Moments
      /\ q.talk \in {"none", "comment", "direction"}
  BY DEF RequestSpace
<1>2. p.talk \in Seq(Events) /\ p.rev \in Nat /\ p.body \in Bodies /\ p.title \in Nat
      /\ p.next \in Nat /\ p.why \in Nat /\ p.comp \in Nat /\ p.canc \in Nat
      /\ p.done_at \in Nat
  BY DEF Pages
<1>3. q.talk # "none" => Event(p, q) \in Events
  BY <1>1, <1>2 DEF Event, Events
<1>4. talk \in Seq(Events)
  BY <1>2, <1>3
<1>5. title \in Nat /\ body \in Bodies
  BY <1>1, <1>2 DEF Or
<1>6. next \in Nat /\ why \in Nat /\ comp \in Nat /\ canc \in Nat
  BY <1>1, <1>2 DEF Or
<1>7. ended \in Nat
  BY <1>1, <1>2 DEF Moments
<1> HIDE DEF talk, title, body, next, why, comp, canc, ended, u
<1>8. u \in Pages
  BY <1>0, <1>1, <1>4, <1>5, <1>6, <1>7 DEF Pages
<1>9. u.hist = p.hist /\ u.updated = p.updated
  BY <1>0 DEF Pages
<1>10. u.state = q.to /\ u.legacy = FALSE /\ u.talk = talk /\ u.title = title
  BY <1>0 DEF Pages
<1>11. u.body = body /\ u.comp = comp /\ u.canc = canc /\ u.done_at = ended
  BY <1>0 DEF Pages
<1> QED BY <1>8, <1>9, <1>10, <1>11 DEF talk, title, body, comp, canc, ended, u

\* A recorded page has the fields of its update, and one receipt more.
LEMMA Stamps ==
    ASSUME NEW p \in Pages, NEW u \in Pages, NEW q \in RequestSpace, NEW kind \in ReceiptKinds,
           NEW edited \in BOOLEAN, u.hist = p.hist, writes \in Nat, Later(p, q)
    PROVE  LET n == Result(p, u, q, kind, edited)
               e == Signed(p, u, q, kind, edited)
           IN /\ n \in Pages /\ e \in Receipts /\ Stamped(p, n, e)
              /\ e.kind = kind /\ e.edited = edited
              /\ e.at = q.at /\ e.offset = q.offset
              /\ e.v = IF kind \in Editorial THEN 4 ELSE 6
              /\ Contract(n, n.state) <=> Contract(u, u.state)
              /\ Projection(n) = Projection(u)
              /\ n.state = u.state /\ n.legacy = u.legacy /\ n.title = u.title
              /\ n.body = u.body /\ n.comp = u.comp
              /\ n.canc = u.canc /\ n.done_at = u.done_at /\ n.talk = u.talk
              /\ n.updated = Dated(u, q, kind) /\ n.rev = writes + 1
<1> DEFINE n == Result(p, u, q, kind, edited)
           e == Signed(p, u, q, kind, edited)
           d == Dated(u, q, kind)
<1>1. n \in Pages /\ Extends(p.hist, n.hist, e)
  BY ResultIs
<1>2. n.state = u.state /\ n.legacy = u.legacy /\ n.title = u.title
      /\ n.body = u.body /\ n.next = u.next /\ n.why = u.why /\ n.comp = u.comp
      /\ n.canc = u.canc /\ n.done_at = u.done_at /\ n.talk = u.talk
  BY ResultIs
<1>3. n.updated = d /\ n.rev = writes + 1
  BY ResultIs
<1>4. e \in Receipts
  BY ReceiptType
<1>5. e.kind = kind /\ e.from = p.state /\ e.to = u.state /\ e.at = q.at
      /\ e.offset = q.offset /\ e.before = p.rev /\ e.reviewed = p.rev
      /\ e.prior = LastAt(p.hist) /\ e.ends = (u.done_at # p.done_at)
  BY ReceiptType
<1>6. e.support = Support(u) /\ e.edited = edited /\ e.was = Projection(p)
      /\ e.is = Projection(u) /\ e.v = IF kind \in Editorial THEN 4 ELSE 6
  BY ReceiptType
<1> HIDE DEF n, e, d
<1>7. Support(n) = Support(u) /\ Projection(n) = Projection(u)
      /\ (Contract(n, n.state) <=> Contract(u, u.state))
  BY <1>2 DEF Support, Projection, Contract
<1>8. n.hist \in Seq(Receipts)
  BY <1>1 DEF Pages
<1>9. Stamped(p, n, e)
  BY <1>1, <1>2, <1>5, <1>6, <1>7, <1>8 DEF Stamped, Later
<1> QED BY <1>1, <1>2, <1>3, <1>4, <1>5, <1>6, <1>7, <1>9 DEF n, e, d

\* _transition_action_page_locked: what it admits, it records faithfully.
LEMMA TransitionSucceeds ==
    ASSUME NEW p \in Pages, NEW q \in RequestSpace, Admissible(p, q), Changes(p, q),
           writes \in Nat
    PROVE  LET u == Updated(p, q)
               e == Signed(p, u, q, Kind(p, q), Edits(p, q))
           IN Succeeds(p, Result(p, u, q, Kind(p, q), Edits(p, q)), e)
<1> DEFINE u == Updated(p, q)
           kind == Kind(p, q)
           edited == Edits(p, q)
           e == Signed(p, u, q, kind, edited)
           n == Result(p, u, q, kind, edited)
<1>1. u \in Pages /\ u.hist = p.hist /\ u.updated = p.updated /\ u.state = q.to
      /\ u.legacy = FALSE
  BY UpdatedIs
<1>2. u.talk = IF q.talk = "none" THEN p.talk ELSE Append(p.talk, Event(p, q))
  BY UpdatedIs
<1>3. /\ u.title = Or(q.title, p.title)
      /\ u.body = IF q.body = NoBody THEN p.body ELSE q.body
      /\ u.comp = IF q.to = "done" THEN Or(q.comp, p.comp) ELSE 0
      /\ u.canc = IF q.to = "cancelled" THEN Or(q.canc, p.canc) ELSE 0
  BY UpdatedIs
<1>4. u.done_at = CASE q.to \notin Terminal -> 0
                    [] q.to \in Terminal /\ (p.state # q.to \/ p.done_at = 0) -> q.at
                    [] OTHER -> p.done_at
  BY UpdatedIs
<1>5. /\ kind \in {"comment", "transition", "legacy_canonicalization", "contract_update"}
      /\ kind \in ReceiptKinds /\ edited \in BOOLEAN
      /\ kind = "comment" <=> CommentOnly(p, q)
      /\ kind = "transition" <=> p.state # q.to
  <2>1. edited \in BOOLEAN
    BY DEF Edits
  <2>2. CommentOnly(p, q) => p.state = q.to
    BY DEF CommentOnly, StateChanges
  <2>3. CommentOnly(p, q) \in BOOLEAN
    BY DEF CommentOnly
  <2>4. p.legacy \in BOOLEAN
    BY DEF Pages
  <2> HIDE DEF kind, edited
  <2>6. /\ kind \in {"comment", "transition", "legacy_canonicalization", "contract_update"}
        /\ kind = "comment" <=> CommentOnly(p, q)
        /\ kind = "transition" <=> p.state # q.to
    <3>1. CASE CommentOnly(p, q)
      <4>1. p.state = q.to /\ ~p.legacy
        BY <3>1 DEF CommentOnly, StateChanges
      <4>2. kind = "comment"
        BY <3>1, <4>1 DEF kind, Kind
      <4> QED BY <3>1, <4>1, <4>2
    <3>2. CASE ~CommentOnly(p, q) /\ p.state # q.to
      <4>1. kind = "transition"
        BY <3>2 DEF kind, Kind
      <4> QED BY <3>2, <4>1
    <3>3. CASE ~CommentOnly(p, q) /\ p.state = q.to
      <4>1. kind \in {"legacy_canonicalization", "contract_update"}
        BY <3>3 DEF kind, Kind
      <4> QED BY <3>3, <4>1
    <3> QED BY <3>1, <3>2, <3>3
  <2> QED BY <2>1, <2>6 DEF ReceiptKinds, Editorial
<1>6. edited <=> u.title # p.title \/ u.body # p.body
  BY DEF Edits
<1>a. CommentOnly(p, q) => q.talk = "comment"
  BY DEF CommentOnly
<1>b. q.at \in Moments /\ q.offset \in Offsets /\ q.talk \in {"none", "comment", "direction"}
  BY DEF RequestSpace
<1>c. p.rev \in Nat /\ p.talk \in Seq(Events) /\ p.state \in States
  BY DEF Pages
<1> HIDE DEF u, kind, edited
<1>7. /\ n \in Pages /\ e \in Receipts /\ Stamped(p, n, e)
      /\ e.kind = kind /\ e.edited = edited /\ e.at = q.at /\ e.offset = q.offset
      /\ e.v = IF kind \in Editorial THEN 4 ELSE 6
      /\ Contract(n, n.state) <=> Contract(u, u.state)
      /\ Projection(n) = Projection(u)
  BY <1>1, <1>5, Stamps DEF Admissible
<1>8. /\ n.state = u.state /\ n.legacy = u.legacy /\ n.title = u.title
      /\ n.body = u.body /\ n.comp = u.comp
      /\ n.canc = u.canc /\ n.done_at = u.done_at /\ n.talk = u.talk
      /\ n.updated = Dated(u, q, kind)
  BY <1>1, <1>5, Stamps DEF Admissible
<1> HIDE DEF e, n
<1>9. Allowed(p, n, e)
  <2>1. ValidTransition(p.state, q.to) /\ Contract(u, u.state)
    BY <1>1 DEF Admissible, u
  <2> QED BY <2>1, <1>1, <1>5, <1>7, <1>8 DEF Allowed
<1>10. EditFollows(p, n, e)
  BY <1>5, <1>6, <1>7, <1>8 DEF EditFollows, Body
<1>11. DayFollows(p, n, e)
  <2>1. Timely(p, q, CommentOnly(p, q))
    BY DEF Admissible
  <2>2. CASE kind \in Editorial
    BY <2>2, <1>1, <1>7, <1>8 DEF DayFollows, Dated
  <2>3. CASE kind \notin Editorial
    <3>1. CommentOnly(p, q) = FALSE
      BY <2>3, <1>5 DEF Editorial
    <3>2. n.updated = Day(q.at, q.offset)
      BY <2>3, <1>8 DEF Dated
    <3>3. n.updated >= PriorDate(p, q.offset, n.updated, FALSE)
      BY <2>1, <3>1, <3>2 DEF Timely
    <3> QED BY <2>3, <3>2, <3>3, <1>7 DEF DayFollows
  <2> QED BY <2>2, <2>3
<1>12. TalkFollows(p, n, e)
  <2>1. CASE q.talk = "none"
    BY <2>1, <1>2, <1>5, <1>a, <1>7, <1>8 DEF TalkFollows
  <2>2. CASE q.talk # "none"
    <3> DEFINE t == Event(p, q)
    <3>1. t \in Events /\ t.at = q.at /\ t.before = p.rev /\ t.kind = q.talk
      BY <2>2, <1>b, <1>c DEF Event, Events
    <3>2. n.talk = Append(p.talk, t)
      BY <2>2, <1>2, <1>8
    <3>3. e.kind = "comment" => t.kind = "comment"
      BY <3>1, <1>a, <1>5, <1>7
    <3> HIDE DEF t
    <3> QED BY <3>1, <3>2, <3>3, <1>7 DEF TalkFollows
  <2> QED BY <2>1, <2>2
<1>13. EndFollows(p, n, e)
  BY <1>1, <1>4, <1>7, <1>8 DEF EndFollows
<1>14. Finished(p, n)
  <2> SUFFICES ASSUME p.state \in Terminal
      PROVE  /\ n.state = p.state
             /\ p.comp # 0 /\ p.state = "done" => n.comp = p.comp
             /\ p.canc # 0 /\ p.state = "cancelled" => n.canc = p.canc
             /\ p.done_at # 0 => n.done_at = p.done_at
             /\ Projection(n) = Projection(p)
    BY DEF Finished
  <2>1. q.to = p.state
    <3>1. ValidTransition(p.state, q.to)
      BY DEF Admissible
    <3> QED BY <3>1, <1>c DEF ValidTransition, ACTION_STATE_TRANSITIONS, Terminal, States,
                               NonTerminal
  <2>2. q.title = 0 /\ q.body = NoBody
    BY DEF Admissible, Terminal, NonTerminal
  <2>3. /\ q.comp # 0 /\ p.comp # 0 => p.comp = q.comp
        /\ q.canc # 0 /\ p.canc # 0 => p.canc = q.canc
    BY DEF Admissible
  <2>4. Projection(u) = Projection(p)
    BY <2>2, <1>3 DEF Projection, Or
  <2>5. p.comp # 0 /\ p.state = "done" => n.comp = p.comp
    BY <2>1, <2>3, <1>3, <1>8 DEF Or
  <2>6. p.canc # 0 /\ p.state = "cancelled" => n.canc = p.canc
    BY <2>1, <2>3, <1>3, <1>8 DEF Or
  <2>7. p.done_at # 0 => n.done_at = p.done_at
    BY <2>1, <1>4, <1>8
  <2> QED BY <2>1, <2>4, <2>5, <2>6, <2>7, <1>1, <1>7, <1>8
<1>15. Succeeds(p, n, e)
  BY <1>7, <1>9, <1>10, <1>11, <1>12, <1>13, <1>14 DEF Succeeds
<1> QED BY <1>15 DEF n, e, u, kind, edited

\* The fields of what an integration makes of a page.
LEMMA IntegratedType ==
    ASSUME NEW p \in Pages, NEW q \in RequestSpace
    PROVE  LET u == Integrated(p, q) IN
           /\ u \in Pages
           /\ u.body = IF q.op = "consolidate" THEN Consolidated(p.body) ELSE q.body
           /\ u.hist = p.hist /\ u.updated = p.updated /\ u.state = p.state
           /\ u.legacy = p.legacy /\ u.title = p.title /\ u.comp = p.comp /\ u.canc = p.canc
           /\ u.done_at = p.done_at /\ u.talk = p.talk /\ u.next = p.next /\ u.why = p.why
<1> DEFINE u == Integrated(p, q)
           body == IF q.op = "consolidate" THEN Consolidated(p.body) ELSE q.body
<1>1. p.body \in Bodies /\ q.body \in Bodies /\ p.state \in States
  BY DEF Pages, RequestSpace
<1>2. body \in Bodies
  BY <1>1 DEF Bodies, Consolidated
<1>3. u = [p EXCEPT !.body = body]
  BY DEF Integrated, Pages
<1>4. u \in Pages /\ u.body = body
  <2> HIDE DEF u, body
  <2> QED BY <1>2, <1>3 DEF Pages
<1>5. /\ u.hist = p.hist /\ u.updated = p.updated /\ u.state = p.state
      /\ u.legacy = p.legacy /\ u.title = p.title /\ u.comp = p.comp /\ u.canc = p.canc
      /\ u.done_at = p.done_at /\ u.talk = p.talk /\ u.next = p.next /\ u.why = p.why
  <2> HIDE DEF u, body
  <2> QED BY <1>3 DEF Pages
<1> QED BY <1>4, <1>5

\* integrate_action_body, likewise.
LEMMA IntegrationSucceeds ==
    ASSUME NEW p \in Pages, NEW q \in RequestSpace, Integrable(p, q),
           writes \in Nat, NEW edited \in BOOLEAN, ~edited, NEW kind,
           kind = IF q.op = "consolidate" THEN "body_consolidation" ELSE "body_integration"
    PROVE  LET u == Integrated(p, q)
               e == Signed(p, u, q, kind, edited)
           IN Succeeds(p, Result(p, u, q, kind, edited), e)
<1> DEFINE u == Integrated(p, q)
           e == Signed(p, u, q, kind, edited)
           n == Result(p, u, q, kind, edited)
           body == IF q.op = "consolidate" THEN Consolidated(p.body) ELSE q.body
<1>1. p.state \in States
  BY DEF Pages
<1>4. u \in Pages /\ u.body = body
  BY IntegratedType
<1>5. /\ u.hist = p.hist /\ u.updated = p.updated /\ u.state = p.state
      /\ u.legacy = p.legacy /\ u.title = p.title /\ u.comp = p.comp /\ u.canc = p.canc
      /\ u.done_at = p.done_at /\ u.talk = p.talk /\ u.next = p.next /\ u.why = p.why
  BY IntegratedType
<1>6. kind \in ReceiptKinds /\ kind \in {"body_consolidation", "body_integration"}
  BY DEF ReceiptKinds, Editorial
<1>7. Later(p, q) /\ ~p.legacy /\ p.state \in NonTerminal /\ Contract(p, p.state)
  BY DEF Integrable
<1> HIDE DEF u
<1>8. /\ n \in Pages /\ e \in Receipts /\ Stamped(p, n, e)
      /\ e.kind = kind /\ e.edited = edited /\ e.at = q.at /\ e.offset = q.offset
      /\ e.v = IF kind \in Editorial THEN 4 ELSE 6
      /\ Contract(n, n.state) <=> Contract(u, u.state)
      /\ Projection(n) = Projection(u)
  BY <1>4, <1>5, <1>6, <1>7, Stamps
<1>9. /\ n.state = u.state /\ n.legacy = u.legacy /\ n.title = u.title
      /\ n.body = u.body /\ n.comp = u.comp
      /\ n.canc = u.canc /\ n.done_at = u.done_at /\ n.talk = u.talk
      /\ n.updated = Dated(u, q, kind)
  BY <1>4, <1>5, <1>6, <1>7, Stamps
<1> HIDE DEF e, n
<1>10. Allowed(p, n, e)
  <2>1. Contract(u, u.state)
    BY <1>5, <1>7 DEF Contract
  <2>2. ValidTransition(p.state, p.state)
    BY DEF ValidTransition
  <2> QED BY <2>1, <2>2, <1>5, <1>6, <1>7, <1>8, <1>9 DEF Allowed
<1>11. EditFollows(p, n, e)
  BY <1>4, <1>5, <1>6, <1>8, <1>9 DEF EditFollows, Body
<1>12. DayFollows(p, n, e)
  <2>1. CASE kind = "body_consolidation"
    BY <2>1, <1>5, <1>8, <1>9 DEF DayFollows, Dated, Editorial
  <2>2. CASE kind = "body_integration"
    <3>1. n.updated = Day(q.at, q.offset)
      BY <2>2, <1>9 DEF Dated, Editorial
    <3>2. q.op # "consolidate"
      BY <2>2
    <3>3. n.updated >= PriorDate(p, q.offset, n.updated, FALSE)
      BY <3>1, <3>2 DEF Integrable, Timely
    <3> QED BY <2>2, <3>1, <3>3, <1>8 DEF DayFollows, Editorial
  <2> QED BY <1>6, <2>1, <2>2
<1>13. TalkFollows(p, n, e)
  BY <1>5, <1>6, <1>8, <1>9 DEF TalkFollows
<1>14. EndFollows(p, n, e)
  BY <1>5, <1>7, <1>9 DEF EndFollows, Terminal, NonTerminal
<1>15. Finished(p, n)
  BY <1>7 DEF Finished, Terminal, NonTerminal
<1>16. Succeeds(p, n, e)
  BY <1>8, <1>10, <1>11, <1>12, <1>13, <1>14, <1>15 DEF Succeeds
<1> QED BY <1>16 DEF n, e, u

-------------------------------------------------------------------------------
(* What writers have made of a base. *)

Grows(b, p) ==
    /\ Prefix(b.talk, p.talk) /\ Prefix(b.hist, p.hist)
    /\ Additions(b, p) = {} => p = b

Carries(b, p) ==
    Additions(b, p) # {} =>
        /\ ~p.legacy /\ Contract(p, p.state)
        /\ p.hist[Len(b.hist) + 1].before = b.rev
        /\ Last(p.hist).to = p.state /\ Last(p.hist).support = Support(p)

LeadsOn(b, p, i) ==
    LET e == p.hist[i] IN
    /\ e.from = Precedent(b, p, i).to
    /\ e.prior = Precedent(b, p, i).at
    /\ e.at > Precedent(b, p, i).at
    /\ ValidTransition(e.from, e.to)
    /\ e.kind = "transition" <=> e.from # e.to

WasFollows(b, p, i) ==
    IF Body(p.hist[i]) THEN p.hist[i].was.body = Was(b, p, i).body
                       ELSE p.hist[i].was = Was(b, p, i)

ContentKept(b, p) ==
    /\ Content(b, p) = {} => p.title = b.title /\ p.body = b.body
    /\ Projected(b, p, Content(b, p)) = Projection(p)
    /\ \A i \in Content(b, p) : WasFollows(b, p, i)
    /\ Content(b, p) # {} /\ Folds(b, p) = Content(b, p) => p.body = Consolidated(b.body)

News(b, p) == Factual(p.hist) \cap Additions(b, p)

DatesKept(b, p) ==
    /\ News(b, p) = {} => p.updated = b.updated
    /\ News(b, p) # {} =>
          LET last == p.hist[Latest(News(b, p))]
              first == p.hist[Earliest(News(b, p))]
          IN /\ last.v = 6 /\ p.updated = ReceiptDate(last)
             /\ first.v = 6
             /\ p.updated >= PriorDate(b, first.offset, ReceiptDate(first), FALSE)

EndsKept(b, p) ==
    EndsAt(b, p) # {} =>
        /\ p.state \in Terminal
        /\ p.done_at = p.hist[Latest(EndsAt(b, p))].at

Audited(b, p) ==
    /\ Grows(b, p) /\ Carries(b, p) /\ \A i \in Additions(b, p) : LeadsOn(b, p, i)
    /\ ContentKept(b, p) /\ DatesKept(b, p) /\ CommentsMatch(b, p) /\ EndsKept(b, p)
    /\ Finished(b, p)


-------------------------------------------------------------------------------
\* The places of the receipts that the base does not have.
LEMMA AdditionsType ==
    ASSUME NEW b \in Pages, NEW p \in Pages, Prefix(b.hist, p.hist)
    PROVE  /\ Len(b.hist) \in Nat /\ Len(p.hist) \in Nat /\ Len(b.hist) <= Len(p.hist)
           /\ Additions(b, p) \in SUBSET (1 .. Len(p.hist))
           /\ DOMAIN p.hist = 1 .. Len(p.hist)
           /\ \A i \in Additions(b, p) : p.hist[i] \in Receipts
<1>1. b.hist \in Seq(Receipts) /\ p.hist \in Seq(Receipts)
  BY DEF Pages
<1> QED BY <1>1 DEF Prefix, Additions

\* One more of them.
LEMMA AdditionsOfMore ==
    ASSUME NEW b \in Pages, NEW p \in Pages, NEW n \in Pages, NEW e \in Receipts,
           Prefix(b.hist, p.hist), Extends(p.hist, n.hist, e)
    PROVE  /\ Additions(b, n) = Additions(b, p) \cup {Len(p.hist) + 1}
           /\ \A i \in Additions(b, p) : i <= Len(p.hist) /\ n.hist[i] = p.hist[i]
           /\ n.hist[Len(p.hist) + 1] = e
           /\ Prefix(b.hist, n.hist)
<1>1. b.hist \in Seq(Receipts) /\ p.hist \in Seq(Receipts) /\ n.hist \in Seq(Receipts)
  BY DEF Pages
<1>2. Len(b.hist) \in Nat /\ Len(p.hist) \in Nat /\ Len(n.hist) = Len(p.hist) + 1
      /\ Len(b.hist) <= Len(p.hist)
  BY <1>1 DEF Extends, Prefix
<1>3. Additions(b, n) = Additions(b, p) \cup {Len(p.hist) + 1}
  BY <1>2 DEF Additions
<1>4. \A i \in Additions(b, p) : i <= Len(p.hist) /\ n.hist[i] = p.hist[i]
  <2>1. \A i \in Additions(b, p) : i \in 1 .. Len(p.hist)
    BY <1>2 DEF Additions
  <2> SUFFICES ASSUME NEW i \in Additions(b, p)
               PROVE  i <= Len(p.hist) /\ n.hist[i] = p.hist[i]
    OBVIOUS
  <2>2. i \in 1 .. Len(p.hist)
    BY <2>1
  <2>3. i <= Len(p.hist)
    BY <2>2, <1>2
  <2>4. n.hist[i] = p.hist[i]
    BY <2>2 DEF Extends
  <2> QED BY <2>3, <2>4
<1>5. Prefix(b.hist, n.hist)
  <2>1. \A i \in DOMAIN b.hist : p.hist[i] = b.hist[i] /\ i \in 1 .. Len(p.hist)
    BY <1>1, <1>2 DEF Prefix
  <2>2. \A i \in DOMAIN b.hist : n.hist[i] = b.hist[i]
    BY <2>1 DEF Extends
  <2>3. Len(b.hist) <= Len(n.hist)
    BY <1>2
  <2> QED BY <2>2, <2>3 DEF Prefix
<1> QED BY <1>3, <1>4, <1>5 DEF Extends

\* Nothing was made of a page that is its own base.
LEMMA AuditedByItself ==
    ASSUME NEW b \in Pages
    PROVE  Audited(b, b)
<1>1. b.hist \in Seq(Receipts) /\ b.talk \in Seq(Events)
  BY DEF Pages
<1>2. Additions(b, b) = {}
  BY <1>1 DEF Additions
<1>3. Grows(b, b) /\ Carries(b, b)
  BY <1>1, <1>2 DEF Grows, Carries, Prefix
<1>4. Content(b, b) = {} /\ News(b, b) = {} /\ EndsAt(b, b) = {}
  BY <1>2 DEF Content, News, EndsAt
<1>5. ContentKept(b, b) /\ DatesKept(b, b) /\ EndsKept(b, b)
  BY <1>4 DEF ContentKept, Projected, Projection, DatesKept, EndsKept
<1>6. CommentsMatch(b, b)
  BY <1>2 DEF CommentsMatch
<1>7. Finished(b, b)
  BY DEF Finished
<1> QED BY <1>2, <1>3, <1>5, <1>6, <1>7 DEF Audited

\* Each thing the writers keep to is kept by one write more: that history and
\* dialogue grow,
LEMMA GrowsOn ==
    ASSUME NEW b \in Pages, NEW p \in Pages, NEW n \in Pages, NEW e \in Receipts, Grows(b, p), Succeeds(p, n, e)
    PROVE  Grows(b, n)
<1>1. n \in Pages /\ Extends(p.hist, n.hist, e) /\ TalkFollows(p, n, e)
  BY DEF Succeeds, Stamped
<1>2. Prefix(b.hist, p.hist) /\ Prefix(b.talk, p.talk)
  BY DEF Grows
<1>3. Prefix(b.hist, n.hist) /\ Additions(b, n) # {}
  <2>1. Prefix(b.hist, n.hist) /\ Additions(b, n) = Additions(b, p) \cup {Len(p.hist) + 1}
    BY <1>1, <1>2, AdditionsOfMore
  <2> QED BY <2>1
<1>4. Prefix(b.talk, n.talk)
  <2>1. b.talk \in Seq(Events) /\ p.talk \in Seq(Events)
    BY DEF Pages
  <2>2. ASSUME NEW t \in Events, n.talk = Append(p.talk, t)
        PROVE  Prefix(b.talk, n.talk)
    BY <1>2, <2>1, <2>2 DEF Prefix
  <2> QED BY <1>1, <1>2, <2>2 DEF TalkFollows
<1> QED BY <1>3, <1>4 DEF Grows

\* that the page is what its last receipt says,
LEMMA CarriesOn ==
    ASSUME NEW b \in Pages, NEW p \in Pages, NEW n \in Pages, NEW e \in Receipts, Grows(b, p), Carries(b, p),
           Succeeds(p, n, e)
    PROVE  Carries(b, n)
<1> USE DEF Succeeds
<1>1. n \in Pages /\ Extends(p.hist, n.hist, e)
  BY DEF Stamped
<1>2. Prefix(b.hist, p.hist)
  BY DEF Grows
<1>3. /\ Additions(b, n) = Additions(b, p) \cup {Len(p.hist) + 1}
      /\ \A i \in Additions(b, p) : n.hist[i] = p.hist[i]
      /\ n.hist[Len(p.hist) + 1] = e
  BY <1>1, <1>2, AdditionsOfMore
<1>4. Len(b.hist) \in Nat /\ Len(p.hist) \in Nat /\ Len(b.hist) <= Len(p.hist)
  BY <1>2, AdditionsType
<1>5. ~n.legacy /\ Contract(n, n.state)
  BY DEF Allowed
<1>6. Last(n.hist) = e
  BY <1>1, <1>3 DEF Last, Extends
<1>7. e.to = n.state /\ e.support = Support(n) /\ e.before = p.rev
  BY DEF Stamped
<1>8. n.hist[Len(b.hist) + 1].before = b.rev
  <2>1. CASE Additions(b, p) = {}
    <3>1. p = b
      BY <2>1 DEF Grows
    <3> QED BY <3>1, <1>3, <1>7
  <2>2. CASE Additions(b, p) # {}
    <3>1. Len(b.hist) + 1 \in Additions(b, p)
      BY <2>2, <1>4 DEF Additions
    <3> QED BY <2>2, <3>1, <1>3 DEF Carries
  <2> QED BY <2>1, <2>2
<1> QED BY <1>5, <1>6, <1>7, <1>8 DEF Carries

\* What the receipt that is appended goes on from.
LEMMA PriorOfMore ==
    ASSUME NEW b \in Pages, NEW p \in Pages, NEW n \in Pages, NEW e \in Receipts, Prefix(b.hist, p.hist),
           Extends(p.hist, n.hist, e)
    PROVE  /\ \A i \in Additions(b, p) : Precedent(b, n, i) = Precedent(b, p, i)
           /\ Additions(b, p) = {} =>
                 Precedent(b, n, Len(p.hist) + 1) = [to |-> b.state, at |-> LastAt(b.hist)]
           /\ Additions(b, p) # {} => Precedent(b, n, Len(p.hist) + 1) = Last(p.hist)
<1>1. /\ Additions(b, n) = Additions(b, p) \cup {Len(p.hist) + 1}
      /\ \A i \in Additions(b, p) : n.hist[i] = p.hist[i]
  BY AdditionsOfMore
<1>2. Len(b.hist) \in Nat /\ Len(p.hist) \in Nat /\ Len(b.hist) <= Len(p.hist)
  BY AdditionsType
<1>3. ASSUME NEW i \in Additions(b, p) PROVE Precedent(b, n, i) = Precedent(b, p, i)
  <2>1. i - 1 \in Additions(b, n) <=> i - 1 \in Additions(b, p)
    BY <1>2, <1>1 DEF Additions
  <2> QED BY <2>1, <1>1 DEF Precedent
<1>4. ASSUME Additions(b, p) = {}
      PROVE  Precedent(b, n, Len(p.hist) + 1) = [to |-> b.state, at |-> LastAt(b.hist)]
  <2>1. Len(p.hist) + 1 - 1 \notin Additions(b, n)
    BY <1>1, <1>2, <1>4
  <2> QED BY <2>1 DEF Precedent
<1>5. ASSUME Additions(b, p) # {} PROVE Precedent(b, n, Len(p.hist) + 1) = Last(p.hist)
  <2>1. Len(p.hist) \in Additions(b, p) /\ Len(p.hist) + 1 - 1 = Len(p.hist)
    BY <1>2, <1>5 DEF Additions
  <2> QED BY <2>1, <1>1 DEF Precedent, Last
<1> QED BY <1>3, <1>4, <1>5

\* that each receipt goes on from the one before it,
LEMMA LeadsFurther ==
    ASSUME NEW b \in Pages, NEW p \in Pages, NEW n \in Pages, NEW e \in Receipts, Grows(b, p), Carries(b, p),
           \A i \in Additions(b, p) : LeadsOn(b, p, i), Succeeds(p, n, e)
    PROVE  \A i \in Additions(b, n) : LeadsOn(b, n, i)
<1> USE DEF Succeeds
<1>1. n \in Pages /\ Extends(p.hist, n.hist, e)
  BY DEF Stamped
<1>2. Prefix(b.hist, p.hist)
  BY DEF Grows
<1>3. /\ Additions(b, n) = Additions(b, p) \cup {Len(p.hist) + 1}
      /\ \A i \in Additions(b, p) : n.hist[i] = p.hist[i]
      /\ n.hist[Len(p.hist) + 1] = e
  BY <1>1, <1>2, AdditionsOfMore
<1>4. ASSUME NEW i \in Additions(b, p) PROVE LeadsOn(b, n, i)
  <2>1. Precedent(b, n, i) = Precedent(b, p, i)
    BY <1>1, <1>2, PriorOfMore, ZenonT(60)
  <2>2. LeadsOn(b, p, i) /\ n.hist[i] = p.hist[i]
    BY <1>3
  <2> QED BY <2>1, <2>2 DEF LeadsOn
<1>5. LeadsOn(b, n, Len(p.hist) + 1)
  <2> DEFINE k == Len(p.hist) + 1
  <2>1. Precedent(b, n, k).to = p.state /\ Precedent(b, n, k).at = LastAt(p.hist)
    <3>1. CASE Additions(b, p) = {}
      <4>1. p = b /\ Precedent(b, n, k) = [to |-> b.state, at |-> LastAt(b.hist)]
        BY <3>1, <1>1, <1>2, PriorOfMore DEF Grows
      <4> QED BY <4>1
    <3>2. CASE Additions(b, p) # {}
      <4>1. Precedent(b, n, k) = Last(p.hist)
        BY <3>2, <1>1, <1>2, PriorOfMore
      <4>2. p.hist # <<>>
        BY <3>2, <1>2, AdditionsType DEF Additions
      <4>3. LastAt(p.hist) = Last(p.hist).at
        BY <4>2 DEF LastAt
      <4> QED BY <3>2, <4>1, <4>3 DEF Carries
    <3> QED BY <3>1, <3>2
  <2>2. e.from = p.state /\ e.to = n.state /\ e.prior = LastAt(p.hist)
        /\ e.at > LastAt(p.hist)
    BY DEF Stamped
  <2>3. ValidTransition(p.state, n.state) /\ (e.kind = "transition" <=> p.state # n.state)
    BY DEF Allowed
  <2>4. n.hist[k] = e
    BY <1>3
  <2>5. n.hist[k].kind = "transition" <=> n.hist[k].from # n.hist[k].to
    BY <2>2, <2>3, <2>4
  <2>6. /\ n.hist[k].from = Precedent(b, n, k).to
        /\ n.hist[k].prior = Precedent(b, n, k).at
        /\ n.hist[k].at > Precedent(b, n, k).at
        /\ ValidTransition(n.hist[k].from, n.hist[k].to)
    BY <2>1, <2>2, <2>3, <2>4
  <2> DEFINE x == Precedent(b, n, k)
             r == n.hist[k]
  <2>7. /\ r.from = x.to /\ r.prior = x.at /\ r.at > x.at
        /\ ValidTransition(r.from, r.to) /\ (r.kind = "transition" <=> r.from # r.to)
    BY <2>5, <2>6
  <2>8. LeadsOn(b, n, k)
    <3> HIDE DEF k
    <3> QED BY <2>7 DEF LeadsOn
  <2> QED BY <2>8
<1> QED BY <1>3, <1>4, <1>5

\* that what is terminal stays,
LEMMA FinishedOn ==
    ASSUME NEW b \in Pages, NEW p \in Pages, NEW n \in Pages, NEW e \in Receipts, Finished(b, p), Succeeds(p, n, e)
    PROVE  Finished(b, n)
<1>1. Finished(p, n)
  BY DEF Succeeds
<1> QED BY <1>1 DEF Finished

\* that a comment receipt has its one event,
LEMMA CommentsOn ==
    ASSUME NEW b \in Pages, NEW p \in Pages, NEW n \in Pages, NEW e \in Receipts, Grows(b, p),
           CommentsMatch(b, p), Linked(p), Succeeds(p, n, e)
    PROVE  CommentsMatch(b, n)
<1> USE DEF Succeeds
<1>1. n \in Pages /\ e \in Receipts /\ Extends(p.hist, n.hist, e) /\ e.before = p.rev
  BY DEF Stamped
<1>2. Prefix(b.hist, p.hist) /\ Prefix(b.talk, p.talk)
  BY DEF Grows
<1>3. /\ Additions(b, n) = Additions(b, p) \cup {Len(p.hist) + 1}
      /\ \A i \in Additions(b, p) : n.hist[i] = p.hist[i]
      /\ n.hist[Len(p.hist) + 1] = e
  BY <1>1, <1>2, AdditionsOfMore
<1>4. \A i \in Additions(b, p) : i \in DOMAIN p.hist /\ p.hist[i] \in Receipts
  BY <1>2, AdditionsType
<1>5. p.talk \in Seq(Events) /\ b.talk \in Seq(Events) /\ p.rev \in Nat
  BY DEF Pages
<1>6. Len(b.talk) <= Len(p.talk)
  BY <1>2 DEF Prefix
<1> DEFINE Own(m, i) == {k \in Len(b.talk) + 1 .. Len(m.talk) :
                            /\ m.talk[k].at = m.hist[i].at
                            /\ m.talk[k].before = m.hist[i].before}
           Matched(m, i) == \E k \in Own(m, i) : Own(m, i) = {k} /\ m.talk[k].kind = "comment"
<1>7. ASSUME NEW i \in Additions(b, p), p.hist[i].kind = "comment" PROVE Matched(n, i)
  <2>1. Matched(p, i) /\ p.hist[i].before < p.rev /\ n.hist[i] = p.hist[i]
    BY <1>3, <1>4, <1>7 DEF CommentsMatch, Linked
  <2>2. CASE n.talk = p.talk
    BY <2>1, <2>2
  <2>3. ASSUME NEW t \in Events, n.talk = Append(p.talk, t), t.before = p.rev
        PROVE  Matched(n, i)
    <3>1. /\ Len(n.talk) = Len(p.talk) + 1 /\ n.talk[Len(p.talk) + 1] = t
          /\ \A k \in 1 .. Len(p.talk) : n.talk[k] = p.talk[k]
      BY <2>3, <1>5
    <3>2. p.hist[i].before \in Nat
      BY <1>4 DEF Receipts
    <3>3. Own(n, i) = Own(p, i)
      BY <1>5, <1>6, <2>1, <2>3, <3>1, <3>2
    <3>4. \A k \in Own(p, i) : n.talk[k] = p.talk[k]
      BY <1>5, <1>6, <3>1
    <3> HIDE DEF Own
    <3> QED BY <2>1, <3>3, <3>4
  <2> HIDE DEF Matched
  <2> QED BY <1>1, <2>2, <2>3 DEF TalkFollows
<1>8. ASSUME e.kind = "comment" PROVE Matched(n, Len(p.hist) + 1)
  <2>1. PICK t \in Events : /\ n.talk = Append(p.talk, t)
                            /\ t.at = e.at /\ t.before = p.rev /\ t.kind = "comment"
    BY <1>8 DEF TalkFollows
  <2>2. /\ Len(n.talk) = Len(p.talk) + 1 /\ n.talk[Len(p.talk) + 1] = t
        /\ \A k \in 1 .. Len(p.talk) : n.talk[k] = p.talk[k]
    BY <2>1, <1>5
  <2>3. \A k \in 1 .. Len(p.talk) : p.talk[k].before < p.rev
    BY <1>5 DEF Linked
  <2>4. Own(n, Len(p.hist) + 1) = {Len(p.talk) + 1}
    <3>1. \A k \in 1 .. Len(p.talk) : k \notin Own(n, Len(p.hist) + 1)
      <4> SUFFICES ASSUME NEW k \in 1 .. Len(p.talk) PROVE n.talk[k].before # e.before
        BY <1>3
      <4>1. p.talk[k] \in Events
        BY <1>5
      <4>2. p.talk[k].before \in Nat
        BY <4>1 DEF Events
      <4> QED BY <4>2, <2>2, <2>3, <1>1, <1>5
    <3>2. Len(p.talk) + 1 \in Own(n, Len(p.hist) + 1)
      BY <1>1, <1>3, <1>5, <1>6, <2>1, <2>2
    <3>3. Own(n, Len(p.hist) + 1) \in SUBSET (1 .. Len(p.talk) + 1)
      BY <1>5, <2>2
    <3> HIDE DEF Own
    <3> QED BY <1>5, <3>1, <3>2, <3>3
  <2> HIDE DEF Own
  <2> QED BY <2>1, <2>2, <2>4
<1>9. \A i \in Additions(b, n) : n.hist[i].kind = "comment" => Matched(n, i)
  <2> HIDE DEF Matched
  <2> QED BY <1>3, <1>7, <1>8
<1> QED BY <1>9 DEF CommentsMatch

\* What the receipts at some places make of the base is told by those receipts.
LEMMA ProjectedSame ==
    ASSUME NEW b \in Pages, NEW p \in Pages, NEW n \in Pages,
           NEW S \in SUBSET (1 .. Len(p.hist)), Len(p.hist) \in Nat,
           \A i \in S : n.hist[i] = p.hist[i]
    PROVE  Projected(b, n, S) = Projected(b, p, S)
<1> DEFINE T == {i \in S : p.hist[i].edited}
<1>1. {i \in S : n.hist[i].edited} = T /\ T \in SUBSET (1 .. Len(p.hist)) /\ T \in SUBSET S
  OBVIOUS
<1>2. /\ T # {} => Latest(T) \in S
      /\ S # {} => Latest(S) \in S
  <2> HIDE DEF T
  <2>1. T # {} => Latest(T) \in T
    BY <1>1, LatestIs
  <2> QED BY <1>1, <2>1, LatestIs
<1>3. /\ T # {} => n.hist[Latest(T)] = p.hist[Latest(T)]
      /\ S # {} => n.hist[Latest(S)] = p.hist[Latest(S)]
  <2> HIDE DEF T
  <2> QED BY <1>2
<1> QED BY <1>1, <1>3 DEF Projected

\* One receipt more tells the body, and the title if it is an edit.
LEMMA ProjectedOfMore ==
    ASSUME NEW b \in Pages, NEW n \in Pages, NEW m \in Nat, NEW S \in SUBSET (1 .. m)
    PROVE  Projected(b, n, S \cup {m + 1}) =
              [title |-> IF n.hist[m + 1].edited THEN n.hist[m + 1].is.title
                         ELSE Projected(b, n, S).title,
               body |-> n.hist[m + 1].is.body]
<1> DEFINE T == {i \in S : n.hist[i].edited}
<1>1. T \in SUBSET (1 .. m)
  OBVIOUS
<1>2. {i \in S \cup {m + 1} : n.hist[i].edited} =
         IF n.hist[m + 1].edited THEN T \cup {m + 1} ELSE T
  OBVIOUS
<1>3. Latest(S \cup {m + 1}) = m + 1
  BY LatestOfMore
<1>4. Latest(T \cup {m + 1}) = m + 1
  <2> HIDE DEF T
  <2> QED BY <1>1, LatestOfMore
<1>5. Projected(b, n, S).title = IF T = {} THEN b.title ELSE n.hist[Latest(T)].is.title
  BY DEF Projected
<1> HIDE DEF T
<1> QED BY <1>2, <1>3, <1>4, <1>5 DEF Projected

\* The content after one more receipt.
LEMMA ContentOfMore ==
    ASSUME NEW b \in Pages, NEW p \in Pages, NEW n \in Pages, NEW e \in Receipts,
           Prefix(b.hist, p.hist), Extends(p.hist, n.hist, e)
    PROVE  /\ Content(b, p) \in SUBSET (1 .. Len(p.hist))
           /\ e.edited \/ Body(e) => Content(b, n) = Content(b, p) \cup {Len(p.hist) + 1}
           /\ ~(e.edited \/ Body(e)) => Content(b, n) = Content(b, p)
           /\ \A i \in Content(b, p) : Was(b, n, i) = Was(b, p, i)
           /\ \A i \in Content(b, p) : n.hist[i] = p.hist[i]
           /\ Was(b, n, Len(p.hist) + 1) = Projected(b, p, Content(b, p))
<1> DEFINE k == Len(p.hist) + 1
<1>1. /\ Additions(b, n) = Additions(b, p) \cup {k}
      /\ \A i \in Additions(b, p) : n.hist[i] = p.hist[i]
      /\ n.hist[k] = e
  BY AdditionsOfMore
<1>2. Additions(b, p) \in SUBSET (1 .. Len(p.hist)) /\ Len(p.hist) \in Nat
  BY AdditionsType
<1>3. \A i \in Additions(b, p) : i \in Int /\ i < k
  BY <1>2
<1> HIDE DEF k
<1>4. Content(b, p) \in SUBSET (1 .. Len(p.hist)) /\ Content(b, p) \in SUBSET Additions(b, p)
  BY <1>2 DEF Content
<1>5. ASSUME e.edited \/ Body(e) PROVE Content(b, n) = Content(b, p) \cup {k}
  BY <1>1, <1>5 DEF Content, Body
<1>6. ASSUME ~(e.edited \/ Body(e)) PROVE Content(b, n) = Content(b, p)
  BY <1>1, <1>6 DEF Content, Body
<1>7. \A i \in Content(b, p) : n.hist[i] = p.hist[i]
  BY <1>1, <1>4
<1>8. k \in Int /\ \A j \in Content(b, p) : j < k /\ j \in Int
  BY <1>2, <1>3, <1>4 DEF k
<1>9. ASSUME NEW i \in Content(b, p) \cup {k}
      PROVE  {j \in Content(b, n) : j < i} = {j \in Content(b, p) : j < i}
  <2>1. i \in Int /\ i <= k
    BY <1>8
  <2>2. CASE e.edited \/ Body(e)
    <3>1. Content(b, n) = Content(b, p) \cup {k} /\ ~(k < i)
      BY <1>5, <1>8, <2>1, <2>2
    <3> QED BY <3>1
  <2>3. CASE ~(e.edited \/ Body(e))
    BY <1>6, <2>3
  <2> QED BY <2>2, <2>3
<1>10. ASSUME NEW i \in Content(b, p) \cup {k} PROVE Was(b, n, i) = Was(b, p, i)
  <2> DEFINE S == {j \in Content(b, p) : j < i}
  <2>1. S \in SUBSET (1 .. Len(p.hist)) /\ \A j \in S : n.hist[j] = p.hist[j]
    BY <1>4, <1>7
  <2>2. Was(b, n, i) = Projected(b, n, S) /\ Was(b, p, i) = Projected(b, p, S)
    BY <1>9 DEF Was
  <2>3. Projected(b, n, S) = Projected(b, p, S)
    <3> HIDE DEF S
    <3> QED BY <1>2, <2>1, ProjectedSame
  <2> QED BY <2>2, <2>3
<1>11. {j \in Content(b, p) : j < k} = Content(b, p)
  BY <1>8
<1>12. Was(b, n, k) = Projected(b, p, Content(b, p))
  <2>1. Was(b, n, k) = Was(b, p, k)
    BY <1>10
  <2> QED BY <2>1, <1>11 DEF Was
<1>13. \A i \in Content(b, p) : Was(b, n, i) = Was(b, p, i)
  BY <1>10
<1> QED BY <1>4, <1>5, <1>6, <1>7, <1>12, <1>13 DEF k

\* that title and body are taken from receipt to receipt,
LEMMA ContentOn ==
    ASSUME NEW b \in Pages, NEW p \in Pages, NEW n \in Pages, NEW e \in Receipts,
           Grows(b, p), ContentKept(b, p), Succeeds(p, n, e)
    PROVE  ContentKept(b, n)
<1> DEFINE k == Len(p.hist) + 1
           old == Content(b, p)
           new == Content(b, n)
<1>1. Prefix(b.hist, p.hist) /\ Extends(p.hist, n.hist, e)
  BY DEF Grows, Succeeds, Stamped
<1>2. /\ old \in SUBSET (1 .. Len(p.hist))
      /\ e.edited \/ Body(e) => new = old \cup {k}
      /\ ~(e.edited \/ Body(e)) => new = old
      /\ \A i \in old : Was(b, n, i) = Was(b, p, i)
      /\ \A i \in old : n.hist[i] = p.hist[i]
      /\ Was(b, n, k) = Projected(b, p, old)
  BY <1>1, ContentOfMore
<1>3. n.hist[k] = e /\ Len(p.hist) \in Nat
  BY <1>1, AdditionsType DEF Extends
<1>4. e.was = Projection(p) /\ e.is = Projection(n) /\ EditFollows(p, n, e)
  BY DEF Succeeds, Stamped
<1>5. /\ old = {} => p.title = b.title /\ p.body = b.body
      /\ Projected(b, p, old) = Projection(p)
      /\ \A i \in old : WasFollows(b, p, i)
      /\ old # {} /\ Folds(b, p) = old => p.body = Consolidated(b.body)
  BY DEF ContentKept
<1>6. Projected(b, n, old) = Projection(p)
  <2>1. old \in SUBSET (1 .. Len(p.hist)) /\ \A i \in old : n.hist[i] = p.hist[i]
    BY <1>2
  <2> HIDE DEF old
  <2>2. Projected(b, n, old) = Projected(b, p, old)
    BY <1>3, <2>1, ProjectedSame
  <2> QED BY <1>5, <2>2
<1> HIDE DEF old, new, k
<1>7. \A i \in old : WasFollows(b, n, i)
  BY <1>2, <1>5 DEF WasFollows
<1>8. CASE ~(e.edited \/ Body(e))
  <2>1. new = old /\ n.title = p.title /\ n.body = p.body
    BY <1>2, <1>4, <1>8 DEF EditFollows
  <2>2. Projection(n) = Projection(p)
    BY <2>1 DEF Projection
  <2>3. Folds(b, n) = Folds(b, p)
    BY <1>2, <2>1 DEF Folds, old, new
  <2>4. /\ new = {} => n.title = b.title /\ n.body = b.body
        /\ Projected(b, n, new) = Projection(n)
        /\ \A i \in new : WasFollows(b, n, i)
    BY <1>2, <1>5, <1>6, <1>7, <2>1, <2>2
  <2>5. new # {} /\ Folds(b, n) = new => n.body = Consolidated(b.body)
    BY <1>5, <2>1, <2>3
  <2> QED BY <2>4, <2>5 DEF ContentKept, new
<1>9. CASE e.edited \/ Body(e)
  <2>1. new = old \cup {k}
    BY <1>2, <1>9
  <2>2. Projected(b, n, new) =
           [title |-> IF e.edited THEN e.is.title ELSE Projected(b, n, old).title,
            body |-> e.is.body]
    BY <1>2, <1>3, <2>1, ProjectedOfMore, ZenonT(60) DEF k
  <2>3. Was(b, n, k) = Projection(p)
    BY <1>2, <1>5
  <2>4. WasFollows(b, n, k)
    BY <2>3, <1>3, <1>4 DEF WasFollows
  <2>5. ASSUME Folds(b, n) = new PROVE n.body = Consolidated(b.body)
    <3>1. k \in Folds(b, n)
      BY <2>1, <2>5
    <3>2. n.body = Consolidated(p.body)
      BY <3>1, <1>3, <1>4 DEF Folds, EditFollows
    <3>3. CASE old = {}
      BY <3>2, <3>3, <1>5
    <3>4. CASE old # {}
      <4>1. Folds(b, p) = old
        BY <2>1, <2>5, <1>2 DEF Folds, old, new
      <4>2. p.body = Consolidated(b.body)
        BY <3>4, <4>1, <1>5
      <4>3. Consolidated(Consolidated(b.body)) = Consolidated(b.body)
        BY DEF Consolidated, Pages, Bodies
      <4> QED BY <3>2, <4>2, <4>3
    <3> QED BY <3>3, <3>4
  <2>6. new # {} /\ Projected(b, n, new) = Projection(n)
    <3>1. ~e.edited => n.title = p.title
      BY <1>4, <1>9 DEF EditFollows
    <3> QED BY <2>1, <2>2, <3>1, <1>4, <1>6 DEF Projection
  <2>7. \A i \in new : WasFollows(b, n, i)
    BY <2>1, <2>4, <1>7
  <2> QED BY <2>5, <2>6, <2>7 DEF ContentKept, new
<1> QED BY <1>8, <1>9

\* The factual receipts that the base does not have, after one more.
LEMMA NewsOfMore ==
    ASSUME NEW b \in Pages, NEW p \in Pages, NEW n \in Pages, NEW e \in Receipts,
           Prefix(b.hist, p.hist), Extends(p.hist, n.hist, e)
    PROVE  /\ News(b, p) \in SUBSET (1 .. Len(p.hist))
           /\ e.kind \in Editorial => News(b, n) = News(b, p)
           /\ e.kind \notin Editorial => News(b, n) = News(b, p) \cup {Len(p.hist) + 1}
           /\ \A i \in News(b, p) : n.hist[i] = p.hist[i]
<1> DEFINE k == Len(p.hist) + 1
<1>1. /\ Additions(b, n) = Additions(b, p) \cup {k}
      /\ \A i \in Additions(b, p) : n.hist[i] = p.hist[i]
      /\ n.hist[k] = e
  BY AdditionsOfMore
<1>2. Additions(b, p) \in SUBSET (1 .. Len(p.hist)) /\ Len(p.hist) \in Nat
      /\ DOMAIN p.hist = 1 .. Len(p.hist)
  BY AdditionsType
<1>3. DOMAIN n.hist = 1 .. k /\ n.hist \in Seq(Receipts)
  BY <1>2 DEF Extends, Pages
<1>4. News(b, n) = {i \in Additions(b, n) : n.hist[i].kind \notin Editorial}
  BY <1>1, <1>2, <1>3 DEF News, Factual
<1>5. News(b, p) = {i \in Additions(b, p) : p.hist[i].kind \notin Editorial}
  BY <1>2 DEF News, Factual
<1> HIDE DEF k
<1>6. e.kind \in Editorial => News(b, n) = News(b, p)
  BY <1>1, <1>4, <1>5
<1>7. e.kind \notin Editorial => News(b, n) = News(b, p) \cup {k}
  BY <1>1, <1>4, <1>5
<1> QED BY <1>1, <1>2, <1>5, <1>6, <1>7 DEF k

\* The date of a receipt.
LEMMA ReceiptDateType ==
    ASSUME NEW e \in Receipts PROVE ReceiptDate(e) \in Nat
<1>1. e.at \in Moments /\ e.offset \in Offsets /\ 0 \in Offsets
  BY DEF Receipts, Offsets
<1>2. Day(e.at, e.offset) \in Nat /\ Day(e.at, 0) \in Nat
  BY <1>1, DayType
<1> QED BY <1>2 DEF ReceiptDate

\* The date a writer must not precede; there is one when the page has one.
LEMMA PriorDateType ==
    ASSUME NEW b \in Pages, NEW offset \in Offsets, NEW day \in Nat
    PROVE  /\ PriorDate(b, offset, day, FALSE) \in Int
           /\ b.updated # NoDate => PriorDate(b, offset, day, FALSE) # NoDate
<1> DEFINE F == Factual(b.hist)
           last == b.hist[Latest(F)]
<1>1. b.hist \in Seq(Receipts) /\ b.updated \in Nat
  BY DEF Pages
<1>2. ASSUME F # {} PROVE Day(last.at, offset) \in Nat \ {NoDate}
  <2>1. F \in SUBSET (1 .. Len(b.hist)) /\ Len(b.hist) \in Nat
    BY <1>1 DEF Factual
  <2>2. Latest(F) \in F
    BY <1>2, <2>1, LatestIs
  <2>3. last \in Receipts
    BY <1>1, <2>1, <2>2
  <2>4. last.at \in Moments
    BY <2>3 DEF Receipts
  <2> HIDE DEF last
  <2> QED BY <2>4, DayType
<1>3. PICK x : x = PriorDate(b, offset, day, FALSE)
  OBVIOUS
<1>4. x = b.updated \/ (F # {} /\ x = Day(last.at, offset))
  BY <1>3 DEF PriorDate
<1>5. x \in Int /\ (b.updated # NoDate => x # NoDate)
  <2> HIDE DEF F, last
  <2> QED BY <1>1, <1>2, <1>4
<1> QED BY <1>3, <1>5, Zenon

\* It is that of the base while nothing factual was added,
LEMMA SameDates ==
    ASSUME NEW b \in Pages, NEW p \in Pages, Prefix(b.hist, p.hist), News(b, p) = {},
           p.updated = b.updated, NEW offset \in Offsets, NEW day \in Nat
    PROVE  PriorDate(p, offset, day, FALSE) = PriorDate(b, offset, day, FALSE)
<1>1. /\ DOMAIN b.hist = 1 .. Len(b.hist) /\ DOMAIN p.hist = 1 .. Len(p.hist)
      /\ Len(b.hist) \in Nat /\ Len(p.hist) \in Nat /\ Len(b.hist) <= Len(p.hist)
  <2>1. b.hist \in Seq(Receipts) /\ p.hist \in Seq(Receipts)
    BY DEF Pages
  <2> QED BY <2>1 DEF Prefix
<1>2. \A i \in DOMAIN b.hist : p.hist[i] = b.hist[i]
  BY DEF Prefix
<1>3. Factual(p.hist) = Factual(b.hist)
  <2>1. \A i \in Factual(p.hist) : i \notin Additions(b, p)
    BY DEF News
  <2>2. \A i \in Factual(p.hist) : i \in DOMAIN b.hist
    BY <2>1, <1>1 DEF Additions, Factual
  <2> QED BY <2>2, <1>1, <1>2 DEF Factual
<1>4. Factual(b.hist) # {} =>
         p.hist[Latest(Factual(b.hist))] = b.hist[Latest(Factual(b.hist))]
  <2> SUFFICES ASSUME Factual(b.hist) # {}
               PROVE  p.hist[Latest(Factual(b.hist))] = b.hist[Latest(Factual(b.hist))]
    OBVIOUS
  <2>1. Factual(b.hist) \in SUBSET (1 .. Len(b.hist))
    BY <1>1 DEF Factual
  <2>2. Latest(Factual(b.hist)) \in Factual(b.hist)
    BY <1>1, <2>1, LatestIs
  <2>3. Latest(Factual(b.hist)) \in DOMAIN b.hist
    BY <2>2 DEF Factual
  <2> QED BY <2>3, <1>2
<1>5. CASE Factual(b.hist) = {}
  BY <1>3, <1>5 DEF PriorDate
<1>6. CASE Factual(b.hist) # {}
  <2>1. p.hist[Latest(Factual(p.hist))] = b.hist[Latest(Factual(b.hist))]
    BY <1>3, <1>4, <1>6
  <2> QED BY <1>3, <2>1 DEF PriorDate
<1> QED BY <1>5, <1>6

\* A receipt of the writers dates the page itself.
LEMMA NewDates ==
    ASSUME NEW b \in Pages, NEW p \in Pages, Prefix(b.hist, p.hist), News(b, p) # {},
           p.hist[Latest(News(b, p))].v = 6, NEW offset \in Offsets, NEW day \in Nat
    PROVE  PriorDate(p, offset, day, FALSE) = p.updated
<1>1. /\ DOMAIN b.hist = 1 .. Len(b.hist) /\ DOMAIN p.hist = 1 .. Len(p.hist)
      /\ Len(b.hist) \in Nat /\ Len(p.hist) \in Nat /\ Len(b.hist) <= Len(p.hist)
  <2>1. b.hist \in Seq(Receipts) /\ p.hist \in Seq(Receipts)
    BY DEF Pages
  <2> QED BY <2>1 DEF Prefix
<1> DEFINE F == Factual(p.hist)
           N == News(b, p)
<1>2. F \in SUBSET (1 .. Len(p.hist)) /\ N \in SUBSET (1 .. Len(p.hist))
      /\ N \in SUBSET F /\ F # {}
  BY <1>1 DEF News, Factual
<1>3. PICK x : x = Latest(F)
  OBVIOUS
<1>4. PICK y : y = Latest(N)
  OBVIOUS
<1>5. x \in F /\ \A j \in F : j <= x
  <2> HIDE DEF F
  <2> QED BY <1>1, <1>2, <1>3, LatestIs
<1>6. y \in N /\ \A j \in N : j <= y
  <2>1. N # {}
    OBVIOUS
  <2> HIDE DEF N
  <2> QED BY <1>1, <1>2, <1>4, <2>1, LatestIs
<1>7. y <= x /\ x \in 1 .. Len(p.hist) /\ y \in Additions(b, p)
  BY <1>2, <1>5, <1>6 DEF News
<1>8. x \in Additions(b, p)
  BY <1>7, <1>1 DEF Additions
<1>9. x \in N
  BY <1>5, <1>8 DEF News
<1>10. x = y
  BY <1>6, <1>7, <1>9, <1>1 DEF Additions
<1>11. p.hist[Latest(Factual(p.hist))].v = 6
  BY <1>3, <1>4, <1>10
<1> QED BY <1>11 DEF PriorDate

\* The dates of the writers do not go back.
LEMMA DatesOn ==
    ASSUME NEW b \in Pages, NEW p \in Pages, NEW n \in Pages, NEW e \in Receipts,
           Grows(b, p), DatesKept(b, p), Succeeds(p, n, e)
    PROVE  DatesKept(b, n)
<1> DEFINE k == Len(p.hist) + 1
           old == News(b, p)
           new == News(b, n)
<1>1. Prefix(b.hist, p.hist) /\ Extends(p.hist, n.hist, e) /\ DayFollows(p, n, e)
  BY DEF Grows, Succeeds, Stamped
<1>2. /\ old \in SUBSET (1 .. Len(p.hist))
      /\ e.kind \in Editorial => new = old
      /\ e.kind \notin Editorial => new = old \cup {k}
      /\ \A i \in old : n.hist[i] = p.hist[i]
  BY <1>1, NewsOfMore
<1>3. n.hist[k] = e /\ Len(p.hist) \in Nat
  BY <1>1, AdditionsType DEF Extends
<1>4. old = {} => p.updated = b.updated
  BY DEF DatesKept
<1>5. old # {} =>
          /\ p.hist[Latest(old)].v = 6
          /\ p.updated = ReceiptDate(p.hist[Latest(old)])
          /\ p.hist[Earliest(old)].v = 6
          /\ p.updated >= PriorDate(b, p.hist[Earliest(old)].offset,
                                    ReceiptDate(p.hist[Earliest(old)]), FALSE)
  BY DEF DatesKept
<1>6. old # {} => Latest(old) \in old /\ Earliest(old) \in old
  BY <1>2, <1>3, LatestIs, EarliestIs
<1> HIDE DEF old, new, k
<1> SUFFICES /\ new = {} => n.updated = b.updated
             /\ new # {} =>
                    /\ n.hist[Latest(new)].v = 6
                    /\ n.updated = ReceiptDate(n.hist[Latest(new)])
                    /\ n.hist[Earliest(new)].v = 6
                    /\ n.updated >= PriorDate(b, n.hist[Earliest(new)].offset,
                                              ReceiptDate(n.hist[Earliest(new)]), FALSE)
  BY DEF DatesKept, new
<1>7. CASE e.kind \in Editorial
  <2>1. new = old /\ n.updated = p.updated
    BY <1>1, <1>2, <1>7 DEF DayFollows
  <2> QED BY <2>1, <1>2, <1>4, <1>5, <1>6
<1>8. CASE e.kind \notin Editorial
  <2>1. new = old \cup {k} /\ e.v = 6 /\ n.updated = Day(e.at, e.offset)
        /\ n.updated >= PriorDate(p, e.offset, n.updated, FALSE)
    BY <1>1, <1>2, <1>8 DEF DayFollows
  <2>2. Latest(new) = k
    BY <1>2, <1>3, <2>1, LatestOfMore DEF k
  <2>3. ReceiptDate(e) = n.updated
    BY <2>1 DEF ReceiptDate
  <2>a. e.offset \in Offsets /\ n.updated \in Nat
    BY DEF Receipts, Pages
  <2>4. CASE old = {}
    <3>1. Earliest(new) = k
      BY <1>2, <1>3, <2>1, <2>4, EarliestOfMore DEF k
    <3>2. PriorDate(p, e.offset, n.updated, FALSE) = PriorDate(b, e.offset, n.updated, FALSE)
      <4> DEFINE o == e.offset
                 d == n.updated
      <4>1. o \in Offsets /\ d \in Nat
        BY <2>a
      <4>2. Prefix(b.hist, p.hist) /\ News(b, p) = {} /\ p.updated = b.updated
        BY <1>1, <1>4, <2>4 DEF old
      <4> HIDE DEF o, d
      <4>3. PriorDate(p, o, d, FALSE) = PriorDate(b, o, d, FALSE)
        BY <4>1, <4>2, SameDates, ZenonT(60)
      <4> QED BY <4>3, Zenon DEF o, d
    <3>3. n.updated >= PriorDate(b, e.offset, n.updated, FALSE)
      BY <2>1, <3>2
    <3> QED BY <1>3, <2>1, <2>2, <2>3, <3>1, <3>3
  <2>5. CASE old # {}
    <3>1. Earliest(new) = Earliest(old)
      BY <1>2, <1>3, <2>1, <2>5, EarliestOfMore DEF k
    <3>2. n.hist[Earliest(new)] = p.hist[Earliest(old)]
      BY <1>2, <1>6, <2>5, <3>1
    <3>3. n.updated >= p.updated
      <4>1. PriorDate(p, e.offset, n.updated, FALSE) = p.updated
        <5> DEFINE o == e.offset
                   d == n.updated
        <5>1. o \in Offsets /\ d \in Nat
          BY <2>a
        <5>2. Prefix(b.hist, p.hist) /\ News(b, p) # {}
              /\ p.hist[Latest(News(b, p))].v = 6
          BY <1>1, <1>5, <2>5 DEF old
        <5> HIDE DEF o, d
        <5>3. PriorDate(p, o, d, FALSE) = p.updated
          BY <5>1, <5>2, NewDates
        <5> QED BY <5>3, Zenon DEF o, d
      <4> QED BY <2>1, <4>1
    <3> DEFINE prior == PriorDate(b, p.hist[Earliest(old)].offset,
                                  ReceiptDate(p.hist[Earliest(old)]), FALSE)
    <3>4. n.updated >= prior
      <4>1. p.updated >= prior
        BY <1>5, <2>5
      <4>2. n.updated \in Int /\ p.updated \in Int
        BY DEF Pages
      <4>3. prior \in Int
        <5> DEFINE r == p.hist[Earliest(old)]
        <5>1. r \in Receipts
          BY <1>6, <2>5, <1>1, AdditionsType DEF old, News
        <5>2. r.offset \in Offsets /\ ReceiptDate(r) \in Nat
          BY <5>1, ReceiptDateType DEF Receipts
        <5> HIDE DEF r
        <5>3. PriorDate(b, r.offset, ReceiptDate(r), FALSE) \in Int
          <6> DEFINE o == r.offset
                     d == ReceiptDate(r)
          <6>1. o \in Offsets /\ d \in Nat
            BY <5>2
          <6> HIDE DEF o, d
          <6>2. PriorDate(b, o, d, FALSE) \in Int
            BY <6>1, PriorDateType
          <6> QED BY <6>2 DEF o, d
        <5> QED BY <5>3, Zenon DEF r
      <4> HIDE DEF prior
      <4> QED BY <3>3, <4>1, <4>2, <4>3
    <3> QED BY <1>3, <1>5, <2>1, <2>2, <2>3, <2>5, <3>2, <3>4
  <2> QED BY <2>4, <2>5
<1> QED BY <1>7, <1>8

\* The instant of the end is that of the receipt that ended the action.
LEMMA EndsOn ==
    ASSUME NEW b \in Pages, NEW p \in Pages, NEW n \in Pages, NEW e \in Receipts,
           Grows(b, p), EndsKept(b, p), Succeeds(p, n, e)
    PROVE  EndsKept(b, n)
<1> DEFINE k == Len(p.hist) + 1
           old == EndsAt(b, p)
           new == EndsAt(b, n)
           ends == e.to \in Terminal /\ (e.from # e.to \/ e.ends)
<1>1. Prefix(b.hist, p.hist) /\ Extends(p.hist, n.hist, e)
  BY DEF Grows, Succeeds, Stamped
<1>2. EndFollows(p, n, e) /\ Finished(p, n) /\ e.from = p.state /\ e.to = n.state
      /\ e.ends = (n.done_at # p.done_at)
  BY DEF Succeeds, Stamped
<1>3. /\ Additions(b, n) = Additions(b, p) \cup {k}
      /\ \A i \in Additions(b, p) : n.hist[i] = p.hist[i]
      /\ n.hist[k] = e
  BY <1>1, AdditionsOfMore
<1>4. Len(p.hist) \in Nat /\ old \in SUBSET (1 .. Len(p.hist))
      /\ old \in SUBSET Additions(b, p)
      /\ \A i \in Additions(b, p) : p.hist[i] \in Receipts
  BY <1>1, AdditionsType DEF EndsAt
<1>5. ends => new = old \cup {k}
  <2> HIDE DEF k
  <2> QED BY <1>3 DEF EndsAt
<1>6. ~ends => new = old
  <2> HIDE DEF k
  <2> QED BY <1>3 DEF EndsAt
<1>7. CASE ends
  <2>1. n.done_at = e.at
    <3>1. CASE p.state # n.state
      BY <3>1, <1>2, <1>7 DEF EndFollows
    <3>2. CASE p.state = n.state
      <4>1. n.done_at # p.done_at
        BY <3>2, <1>2, <1>7
      <4> QED BY <3>2, <4>1, <1>2, <1>7 DEF EndFollows
    <3> QED BY <3>1, <3>2
  <2>2. Latest(new) = k
    <3> HIDE DEF old, new, ends
    <3> QED BY <1>4, <1>5, <1>7, LatestOfMore DEF k
  <2>3. n.state \in Terminal
    BY <1>2, <1>7
  <2>4. n.done_at = n.hist[Latest(new)].at
    <3> HIDE DEF new, k
    <3> QED BY <2>1, <2>2, <1>3
  <2> QED BY <2>3, <2>4 DEF EndsKept
<1>8. CASE ~ends
  <2>1. new = old
    BY <1>6, <1>8
  <2>2. CASE old = {}
    BY <2>1, <2>2 DEF EndsKept
  <2>3. CASE old # {}
    <3>1. p.state \in Terminal /\ p.done_at = p.hist[Latest(old)].at
      BY <2>3 DEF EndsKept
    <3>2. Latest(old) \in old
      <4> HIDE DEF old
      <4> QED BY <2>3, <1>4, LatestIs
    <3>3. Latest(old) \in Additions(b, p) /\ p.hist[Latest(old)] \in Receipts
      <4> HIDE DEF old
      <4> QED BY <3>2, <1>4
    <3>4. p.done_at # 0
      <4> HIDE DEF old
      <4> QED BY <3>1, <3>3 DEF Receipts, Moments
    <3>5. n.state = p.state /\ n.done_at = p.done_at
      BY <3>1, <3>4, <1>2 DEF Finished
    <3>6. n.hist[Latest(new)].at = p.hist[Latest(old)].at
      <4> HIDE DEF old, new
      <4> QED BY <2>1, <3>3, <1>3
    <3> QED BY <3>1, <3>5, <3>6 DEF EndsKept
  <2> QED BY <2>2, <2>3
<1> QED BY <1>7, <1>8

\* A write on a page that the audit would accept makes another.
LEMMA AuditedOn ==
    ASSUME NEW b \in Pages, NEW p \in Pages, NEW n \in Pages, NEW e \in Receipts,
           Audited(b, p), Linked(p), Succeeds(p, n, e)
    PROVE  Audited(b, n)
<1>1. /\ Grows(b, p) /\ Carries(b, p) /\ \A i \in Additions(b, p) : LeadsOn(b, p, i)
      /\ ContentKept(b, p) /\ DatesKept(b, p) /\ CommentsMatch(b, p) /\ EndsKept(b, p)
      /\ Finished(b, p)
  BY DEF Audited
<1>2. Grows(b, n)
  BY <1>1, GrowsOn
<1>3. Carries(b, n)
  BY <1>1, CarriesOn
<1>4. \A i \in Additions(b, n) : LeadsOn(b, n, i)
  BY <1>1, LeadsFurther
<1>5. ContentKept(b, n)
  BY <1>1, ContentOn
<1>6. DatesKept(b, n)
  BY <1>1, DatesOn
<1>7. CommentsMatch(b, n)
  BY <1>1, CommentsOn
<1>8. EndsKept(b, n)
  BY <1>1, EndsOn
<1>9. Finished(b, n)
  BY <1>1, FinishedOn
<1> QED BY <1>2, <1>3, <1>4, <1>5, <1>6, <1>7, <1>8, <1>9 DEF Audited

\* The audit accepts what the writers made, unless it mixes contributions with
\* consolidations.
LEMMA AuditPasses ==
    ASSUME NEW b \in Pages, NEW p \in Pages, Audited(b, p), p # b,
           Folds(b, p) \in {{}, Content(b, p)}
    PROVE  Accepted(b, p)
<1> USE DEF Audited
<1>1. Additions(b, p) # {} /\ Prefix(b.talk, p.talk) /\ Prefix(b.hist, p.hist)
  BY DEF Grows
<1>2. /\ ~p.legacy /\ Contract(p, p.state)
      /\ p.hist[Len(b.hist) + 1].before = b.rev
      /\ Last(p.hist).to = p.state /\ Last(p.hist).support = Support(p)
  BY <1>1 DEF Carries
<1>3. b.state \in Terminal =>
          /\ b.done_at # 0 => p.done_at = b.done_at
          /\ b.comp # 0 /\ b.state = "done" => p.comp = b.comp
          /\ b.canc # 0 /\ b.state = "cancelled" => p.canc = b.canc
  BY DEF Finished
<1>4. ContentFollows(b, p)
  <2> SUFFICES ASSUME Content(b, p) # {} PROVE ContentFollows(b, p)
    BY DEF ContentFollows
  <2>1. Folds(b, p) # {} => Folds(b, p) = Content(b, p) /\ p.body = Consolidated(b.body)
    BY DEF ContentKept
  <2>2. \A i \in Content(b, p) : WasFollows(b, p, i)
    BY DEF ContentKept
  <2>3. Projected(b, p, Content(b, p)) = Projection(p)
    BY DEF ContentKept
  <2>4. Projection(p).title = p.title
    BY DEF Projection
  <2> QED BY <2>1, <2>2, <2>3, <2>4 DEF ContentFollows, WasFollows
<1>5. Chained(b, p)
  <2>1. \A i \in Additions(b, p) : LeadsOn(b, p, i)
    OBVIOUS
  <2> QED BY <2>1, <1>2 DEF Chained, LeadsOn
<1>6. DateFollows(b, p)
  <2> DEFINE N == News(b, p)
             first == p.hist[Earliest(N)]
             normal == IF N # {} /\ first.v = 6
                       THEN PriorDate(b, first.offset, ReceiptDate(first), FALSE)
                       ELSE b.updated
  <2>1. p.updated = IF N = {} THEN b.updated ELSE ReceiptDate(p.hist[Latest(N)])
    BY DEF DatesKept
  <2>2. b.updated # NoDate /\ p.updated # NoDate /\ p.updated < b.updated =>
             normal # NoDate /\ p.updated >= normal
    <3> SUFFICES ASSUME b.updated # NoDate, p.updated < b.updated
                 PROVE  normal # NoDate /\ p.updated >= normal
      OBVIOUS
    <3>1. b.updated \in Nat /\ p.updated \in Nat
      BY DEF Pages
    <3>2. N # {}
      BY <2>1, <3>1
    <3>3. first.v = 6 /\ p.updated >= PriorDate(b, first.offset, ReceiptDate(first), FALSE)
      BY <3>2 DEF DatesKept
    <3>4. normal = PriorDate(b, first.offset, ReceiptDate(first), FALSE)
      BY <3>2, <3>3
    <3>5. first \in Receipts
      <4>1. N \in SUBSET Additions(b, p) /\ N \in SUBSET (1 .. Len(p.hist))
            /\ Len(p.hist) \in Nat
        BY <1>1, AdditionsType DEF News
      <4>2. Earliest(N) \in N
        <5> HIDE DEF N
        <5> QED BY <4>1, <3>2, EarliestIs
      <4> HIDE DEF N
      <4> QED BY <1>1, <4>1, <4>2, AdditionsType
    <3>6. PriorDate(b, first.offset, ReceiptDate(first), FALSE) # NoDate
      <4> DEFINE o == first.offset
                 d == ReceiptDate(first)
      <4>1. o \in Offsets /\ d \in Nat
        <5> HIDE DEF first
        <5> QED BY <3>5, ReceiptDateType DEF Receipts
      <4> HIDE DEF o, d
      <4>2. PriorDate(b, o, d, FALSE) # NoDate
        BY <4>1, PriorDateType
      <4> QED BY <4>2, Zenon DEF o, d
    <3> HIDE DEF first, N, normal
    <3> QED BY <3>3, <3>4, <3>6
  <2> QED BY <2>1, <2>2 DEF DateFollows, News
<1>7. CommentsMatch(b, p)
  OBVIOUS
<1>8. TerminalFollows(b, p)
  BY DEF EndsKept, TerminalFollows
<1> QED BY <1>1, <1>2, <1>3, <1>4, <1>5, <1>6, <1>7, <1>8 DEF Accepted

\* Receipts that lead from one to the next lead to the state of the writers.
InStep(b, p, s) ==
    (\A i \in Additions(b, p) : p.hist[i].from = Precedent(b, p, i).to) =>
        s = IF Additions(b, p) = {} THEN b.state ELSE Last(p.hist).to

PagesOK ==
    /\ page \in Pages /\ base \in Pages
    /\ writes \in 1 .. MaxWrites /\ page.rev \in 1 .. writes /\ base.rev \in 1 .. writes
    /\ Linked(page) /\ Linked(base)
    /\ base.legacy \/ Contract(base, base.state)
    /\ Prefix(base.hist, page.hist)

\* What a client has read goes on from the base, git may have taken the file back to it
\* meanwhile, and what the client knows of the state is what the receipts tell.
Follows(c) ==
    /\ page.hist \in {text[c].hist, base.hist} /\ Prefix(base.hist, text[c].hist)
    /\ text[c].rev \in 1 .. writes /\ Linked(text[c])
    /\ seen[c] \in States /\ InStep(base, text[c], seen[c])
    /\ honest.alone => text[c] = page

ReadersOK ==
    /\ text \in [Clients -> Pages \cup {Unread}]
    /\ reviewed \in [Clients -> Nat] /\ seen \in [Clients -> States \cup {Unread}]
    /\ \A c \in Clients : reviewed[c] = IF text[c] = Unread THEN 0 ELSE text[c].rev
    /\ \A c, d \in Clients : text[c] # Unread /\ text[d] # Unread => c = d
    /\ \A c \in Clients : text[c] # Unread => Follows(c)

HonestOK ==
    /\ honest \in [state : States, alone : BOOLEAN]
    /\ InStep(base, page, honest.state)
    /\ honest.alone => Audited(base, page)

ActionInv == PagesOK /\ ReadersOK /\ HonestOK

\* A history continues itself.
LEMMA PrefixSelf ==
    ASSUME NEW p \in Pages PROVE Prefix(p.hist, p.hist)
<1>1. p.hist \in Seq(Receipts)
  BY DEF Pages
<1> QED BY <1>1 DEF Prefix

\* The receipts of a page that was just merged are in step with it.
LEMMA InStepSelf ==
    ASSUME NEW p \in Pages PROVE InStep(p, p, p.state)
<1>1. p.hist \in Seq(Receipts)
  BY DEF Pages
<1>2. Additions(p, p) = {}
  BY <1>1 DEF Additions
<1> QED BY <1>2 DEF InStep

\* Whether they are depends on the history alone: no editor changes it.
LEMMA InStepByHistory ==
    ASSUME NEW b \in Pages, NEW p \in Pages, NEW n \in Pages, NEW s \in States,
           n.hist = p.hist, InStep(b, p, s)
    PROVE  InStep(b, n, s)
<1>1. Additions(b, n) = Additions(b, p)
  BY DEF Additions
<1>2. \A i \in Additions(b, p) : Precedent(b, n, i) = Precedent(b, p, i)
  BY <1>1 DEF Precedent
<1> QED BY <1>1, <1>2 DEF InStep

\* A write keeps them in step, or breaks the chain that the audit follows.
LEMMA InStepOn ==
    ASSUME NEW b \in Pages, NEW p \in Pages, NEW n \in Pages, NEW e \in Receipts,
           NEW s \in States, NEW t \in States,
           Prefix(b.hist, p.hist), InStep(b, p, s), Succeeds(p, n, e),
           t = IF s = p.state THEN n.state ELSE s
    PROVE  InStep(b, n, t)
<1> DEFINE k == Len(p.hist) + 1
<1>1. Extends(p.hist, n.hist, e) /\ e.from = p.state /\ e.to = n.state
  BY DEF Succeeds, Stamped
<1>2. /\ Additions(b, n) = Additions(b, p) \cup {k}
      /\ \A i \in Additions(b, p) : n.hist[i] = p.hist[i]
      /\ n.hist[k] = e
  BY <1>1, AdditionsOfMore
<1>3. /\ \A i \in Additions(b, p) : Precedent(b, n, i) = Precedent(b, p, i)
      /\ Additions(b, p) = {} => Precedent(b, n, k) = [to |-> b.state, at |-> LastAt(b.hist)]
      /\ Additions(b, p) # {} => Precedent(b, n, k) = Last(p.hist)
  BY <1>1, PriorOfMore
<1>4. Last(n.hist) = e
  BY <1>1, <1>2 DEF Last, Extends
<1> HIDE DEF k
<1> SUFFICES ASSUME \A i \in Additions(b, n) : n.hist[i].from = Precedent(b, n, i).to
             PROVE  t = n.state
  BY <1>1, <1>2, <1>4 DEF InStep
<1>5. \A i \in Additions(b, p) : p.hist[i].from = Precedent(b, p, i).to
  BY <1>2, <1>3
<1>6. s = IF Additions(b, p) = {} THEN b.state ELSE Last(p.hist).to
  BY <1>5 DEF InStep
<1>7. e.from = Precedent(b, n, k).to
  BY <1>2
<1> QED BY <1>1, <1>3, <1>6, <1>7

\* A write names a text that no receipt before it names.
LEMMA LinkedOn ==
    ASSUME NEW p \in Pages, NEW n \in Pages, NEW e \in Receipts, Linked(p),
           Succeeds(p, n, e), p.rev < n.rev
    PROVE  Linked(n)
<1> DEFINE k == Len(p.hist) + 1
           m == Len(p.talk) + 1
<1>1. p.hist \in Seq(Receipts) /\ n.hist \in Seq(Receipts) /\ p.talk \in Seq(Events)
      /\ n.talk \in Seq(Events) /\ p.rev \in Nat /\ n.rev \in Nat
  BY DEF Pages
<1>2. /\ Len(n.hist) = k /\ n.hist[k] = e /\ Len(p.hist) \in Nat
      /\ \A i \in 1 .. Len(p.hist) : n.hist[i] = p.hist[i]
  BY <1>1 DEF Succeeds, Stamped, Extends
<1>3. e.before = p.rev /\ e.reviewed = p.rev /\ e.at > LastAt(p.hist) /\ e.at \in Nat
  BY DEF Succeeds, Stamped, Receipts, Moments
<1>4. \A i \in 1 .. Len(p.hist) : p.hist[i].at \in Nat /\ p.hist[i].before \in Nat
  <2> SUFFICES ASSUME NEW i \in 1 .. Len(p.hist)
               PROVE  p.hist[i].at \in Nat /\ p.hist[i].before \in Nat
    OBVIOUS
  <2>1. p.hist[i] \in Receipts
    BY <1>1
  <2> QED BY <2>1 DEF Receipts, Moments
<1>5. \A i \in 1 .. Len(p.hist) : p.hist[i].at < e.at
  <2> SUFFICES ASSUME NEW i \in 1 .. Len(p.hist) PROVE p.hist[i].at < e.at
    OBVIOUS
  <2>1. LastAt(p.hist) = p.hist[Len(p.hist)].at /\ Len(p.hist) \in 1 .. Len(p.hist)
    BY <1>1 DEF LastAt, Last
  <2>2. i < Len(p.hist) => p.hist[i].at < p.hist[Len(p.hist)].at
    BY <2>1, <1>1 DEF Linked
  <2>3. p.hist[i].at <= LastAt(p.hist)
    BY <2>1, <2>2, <1>4, <1>2
  <2> QED BY <2>1, <2>3, <1>3, <1>4
<1>6. \A i \in 1 .. Len(p.hist) :
         p.hist[i].before < p.rev /\ p.hist[i].reviewed = p.hist[i].before
  BY <1>1 DEF Linked
<1>7. \A i, j \in 1 .. Len(p.hist) :
         i < j => p.hist[i].at < p.hist[j].at /\ p.hist[i].before < p.hist[j].before
  BY <1>1 DEF Linked
<1>8. DOMAIN n.hist = 1 .. k
  BY <1>1, <1>2
<1>9. \A i, j \in DOMAIN n.hist :
          i < j => n.hist[i].at < n.hist[j].at /\ n.hist[i].before < n.hist[j].before
  <2> SUFFICES ASSUME NEW i \in 1 .. k, NEW j \in 1 .. k, i < j
               PROVE  n.hist[i].at < n.hist[j].at /\ n.hist[i].before < n.hist[j].before
    BY <1>8
  <2>1. i \in 1 .. Len(p.hist)
    BY <1>2
  <2>2. CASE j = k
    BY <2>1, <2>2, <1>2, <1>3, <1>5, <1>6
  <2>3. CASE j # k
    <3>1. j \in 1 .. Len(p.hist)
      BY <2>3, <1>2
    <3> QED BY <2>1, <3>1, <1>2, <1>7
  <2> QED BY <2>2, <2>3
<1>10. \A i \in DOMAIN n.hist :
          n.hist[i].before < n.rev /\ n.hist[i].reviewed = n.hist[i].before
  <2> SUFFICES ASSUME NEW i \in 1 .. k
               PROVE  n.hist[i].before < n.rev /\ n.hist[i].reviewed = n.hist[i].before
    BY <1>8
  <2>1. CASE i = k
    BY <2>1, <1>2, <1>3
  <2>2. CASE i # k
    <3>1. i \in 1 .. Len(p.hist)
      BY <2>2, <1>2
    <3>2. n.hist[i] = p.hist[i] /\ p.hist[i].before \in Nat
      BY <3>1, <1>2, <1>4
    <3>3. p.hist[i].before < p.rev /\ p.hist[i].reviewed = p.hist[i].before
      BY <3>1, <1>6
    <3>4. p.rev \in Nat /\ n.rev \in Nat
      BY <1>1
    <3> QED BY <3>2, <3>3, <3>4
  <2> QED BY <2>1, <2>2
<1>11. /\ \A i \in 1 .. Len(p.talk) : p.talk[i].before < p.rev /\ p.talk[i].before \in Nat
       /\ \A i, j \in 1 .. Len(p.talk) : i < j => p.talk[i].before < p.talk[j].before
       /\ Len(p.talk) \in Nat
  <2>1. \A i \in 1 .. Len(p.talk) : p.talk[i] \in Events
    BY <1>1
  <2>2. \A i \in 1 .. Len(p.talk) : p.talk[i].before \in Nat
    BY <2>1 DEF Events
  <2> QED BY <1>1, <2>2 DEF Linked
<1>12. /\ \A i, j \in DOMAIN n.talk : i < j => n.talk[i].before < n.talk[j].before
       /\ \A i \in DOMAIN n.talk : n.talk[i].before < n.rev
  <2>1. CASE n.talk = p.talk
    <3>1. DOMAIN n.talk = 1 .. Len(p.talk)
      BY <2>1, <1>1
    <3>2. \A i \in 1 .. Len(p.talk) : n.talk[i] = p.talk[i]
      BY <2>1
    <3>3. \A i \in 1 .. Len(p.talk) : n.talk[i].before < n.rev
      <4>1. p.rev \in Nat /\ n.rev \in Nat
        BY <1>1
      <4> QED BY <3>2, <4>1, <1>11
    <3>4. \A i, j \in 1 .. Len(p.talk) : i < j => n.talk[i].before < n.talk[j].before
      BY <3>2, <1>11
    <3> QED BY <3>1, <3>3, <3>4
  <2>2. CASE n.talk # p.talk
    <3>1. PICK t \in Events : n.talk = Append(p.talk, t) /\ t.before = p.rev
      BY <2>2 DEF Succeeds, TalkFollows
    <3>2. /\ DOMAIN n.talk = 1 .. m /\ n.talk[m] = t
          /\ \A i \in 1 .. Len(p.talk) : n.talk[i] = p.talk[i]
      BY <3>1, <1>1
    <3>3. ASSUME NEW i \in 1 .. m, NEW j \in 1 .. m, i < j
          PROVE  n.talk[i].before < n.talk[j].before
      <4>1. i \in 1 .. Len(p.talk)
        BY <3>3, <1>11
      <4>2. CASE j = m
        BY <4>1, <4>2, <3>1, <3>2, <1>11
      <4>3. CASE j # m
        <5>1. j \in 1 .. Len(p.talk)
          BY <4>3, <1>11
        <5> QED BY <3>3, <4>1, <5>1, <3>2, <1>11
      <4> QED BY <4>2, <4>3
    <3>4. ASSUME NEW i \in 1 .. m PROVE n.talk[i].before < n.rev
      <4>1. CASE i = m
        BY <4>1, <3>1, <3>2
      <4>2. CASE i # m
        <5>1. i \in 1 .. Len(p.talk)
          BY <4>2, <1>11
        <5>2. p.talk[i].before < p.rev /\ p.talk[i].before \in Nat /\ n.talk[i] = p.talk[i]
          BY <5>1, <3>2, <1>11
        <5> QED BY <5>2, <1>1
      <4> QED BY <4>1, <4>2
    <3> HIDE DEF m
    <3> QED BY <3>2, <3>3, <3>4
  <2> QED BY <2>1, <2>2
<1> QED BY <1>9, <1>10, <1>12 DEF Linked

\* A writer's step: its successor of what it read replaces the page.
Wrote(c, e) ==
    /\ text[c] # Unread /\ e \in Receipts
    /\ Succeeds(text[c], page', e) /\ page'.rev = writes + 1
    /\ writes < MaxWrites /\ writes' = writes + 1
    /\ honest' = [honest EXCEPT
                     !.state = IF seen[c] = text[c].state THEN page'.state ELSE seen[c]]
    /\ Release(c)
    /\ base' = base

\* Both writers write a successor of what they read.
LEMMA TransitionWrites ==
    ASSUME PagesOK, ReadersOK, NEW c \in Clients, NEW q \in Requests, TransitionPage(c, q)
    PROVE  \E e \in Receipts : Wrote(c, e)
<1> DEFINE p == text[c]
           u == Updated(p, q)
           e == Signed(p, u, q, Kind(p, q), Edits(p, q))
           n == Result(p, u, q, Kind(p, q), Edits(p, q))
<1>1. p \in Pages /\ q \in RequestSpace /\ writes \in Nat
  BY LifecycleAssumption DEF PagesOK, ReadersOK, TransitionPage
<1>2. Admissible(p, q) /\ Changes(p, q)
  BY DEF TransitionPage
<1>3. Succeeds(p, n, e)
  BY <1>1, <1>2, TransitionSucceeds
<1>4. reviewed[c] = p.rev
  BY DEF ReadersOK, TransitionPage
<1>5. page' = n
  <2>1. page' = [Transition(p, q) EXCEPT !.hist[Len(Transition(p, q).hist)].reviewed = reviewed[c]]
    BY DEF TransitionPage, Write
  <2> QED BY <1>4, <2>1 DEF Transition, Result
<1>6. n.rev = writes + 1 /\ n.state = u.state
  <2>1. Kind(p, q) \in ReceiptKinds /\ Edits(p, q) \in BOOLEAN
    BY DEF Kind, ReceiptKinds, Edits, Editorial
  <2>2. u \in Pages /\ u.hist = p.hist
    BY <1>1, UpdatedIs
  <2> HIDE DEF u, p
  <2> QED BY <1>1, <2>1, <2>2, ResultIs
<1>7. e \in Receipts
  BY <1>3 DEF Succeeds
<1>8. Transition(p, q).state = u.state
  <2>1. Transition(p, q) = [u EXCEPT !.hist = Transition(p, q).hist, !.updated = Transition(p, q).updated,
                         !.rev = Transition(p, q).rev]
    <3>1. u \in Pages
      BY <1>1, UpdatedIs
    <3> HIDE DEF u
    <3> QED BY <3>1 DEF Transition, Recorded, Pages, u
  <2>2. u \in Pages
    BY <1>1, UpdatedIs
  <2> HIDE DEF u
  <2> QED BY <2>1, <2>2 DEF Pages
<1>9. honest' = [honest EXCEPT !.state = IF seen[c] = p.state THEN page'.state ELSE seen[c]]
  <2>1. honest' = [honest EXCEPT
                      !.state = IF seen[c] = p.state THEN Transition(p, q).state ELSE seen[c]]
    BY DEF TransitionPage, Write
  <2> HIDE DEF p, u, n
  <2> QED BY <2>1, <1>5, <1>6, <1>8
<1>10. /\ text[c] # Unread /\ writes < MaxWrites /\ writes' = writes + 1
       /\ Release(c) /\ base' = base
  BY DEF TransitionPage, Write
<1>11. Wrote(c, e)
  <2>1. Succeeds(text[c], page', e) /\ page'.rev = writes + 1
    <3> HIDE DEF u, e, n
    <3> QED BY <1>3, <1>5, <1>6
  <2> HIDE DEF u, e, n
  <2> QED BY <2>1, <1>7, <1>9, <1>10 DEF Wrote
<1> HIDE DEF e
<1> QED BY <1>7, <1>11

\* The second as well.
LEMMA IntegrationWrites ==
    ASSUME PagesOK, ReadersOK, NEW c \in Clients, NEW q \in Requests, IntegrateBody(c, q)
    PROVE  \E e \in Receipts : Wrote(c, e)
<1> DEFINE p == text[c]
           u == Integrated(p, q)
           kind == IF q.op = "consolidate" THEN "body_consolidation" ELSE "body_integration"
           e == Signed(p, u, q, kind, FALSE)
           n == Result(p, u, q, kind, FALSE)
<1>1. p \in Pages /\ q \in RequestSpace /\ writes \in Nat
  BY LifecycleAssumption DEF PagesOK, ReadersOK, IntegrateBody
<1>2. Integrable(p, q)
  BY DEF IntegrateBody
<1>3. Succeeds(p, n, e)
  BY <1>1, <1>2, IntegrationSucceeds
<1>4. reviewed[c] = p.rev
  BY DEF ReadersOK, IntegrateBody
<1>5. page' = n
  <2>1. page' = [Integration(p, q) EXCEPT
                    !.hist[Len(Integration(p, q).hist)].reviewed = reviewed[c]]
    BY DEF IntegrateBody, Write
  <2> QED BY <1>4, <2>1 DEF Integration, Result
<1>6. n.rev = writes + 1 /\ n.state = u.state
  <2>1. kind \in ReceiptKinds
    BY DEF ReceiptKinds, Editorial
  <2>2. u \in Pages /\ u.hist = p.hist
    BY <1>1, IntegratedType
  <2> HIDE DEF u, p, kind
  <2> QED BY <1>1, <2>1, <2>2, ResultIs, ZenonT(60)
<1>7. e \in Receipts
  BY <1>3 DEF Succeeds
<1>8. Integration(p, q).state = u.state
  <2>1. Integration(p, q) = [u EXCEPT !.hist = Integration(p, q).hist, !.updated = Integration(p, q).updated,
                         !.rev = Integration(p, q).rev]
    <3>1. u \in Pages
      BY <1>1, IntegratedType
    <3> HIDE DEF u
    <3> QED BY <3>1 DEF Integration, Recorded, Pages, u, kind
  <2>2. u \in Pages
    BY <1>1, IntegratedType
  <2> HIDE DEF u
  <2> QED BY <2>1, <2>2 DEF Pages
<1>9. honest' = [honest EXCEPT !.state = IF seen[c] = p.state THEN page'.state ELSE seen[c]]
  <2>1. honest' = [honest EXCEPT
                      !.state = IF seen[c] = p.state THEN Integration(p, q).state ELSE seen[c]]
    BY DEF IntegrateBody, Write
  <2> HIDE DEF p, u, n
  <2> QED BY <2>1, <1>5, <1>6, <1>8
<1>10. /\ text[c] # Unread /\ writes < MaxWrites /\ writes' = writes + 1
       /\ Release(c) /\ base' = base
  BY DEF IntegrateBody, Write
<1>11. Wrote(c, e)
  <2>1. Succeeds(text[c], page', e) /\ page'.rev = writes + 1
    <3> HIDE DEF u, e, n, kind
    <3> QED BY <1>3, <1>5, <1>6
  <2> HIDE DEF u, e, n, kind
  <2> QED BY <2>1, <1>7, <1>9, <1>10 DEF Wrote
<1> HIDE DEF e
<1> QED BY <1>7, <1>11

\* The invariant holds at first, and every step keeps it.
LEMMA StartsLinked ==
    ASSUME ActionInit PROVE ActionInv
<1>1. page \in Pages /\ page.rev \in 1 .. MaxWrites /\ (page.legacy \/ Contract(page, page.state))
      /\ Linked(page) /\ MaxWrites \in Nat
  BY LifecycleAssumption DEF ActionInit
<1>2. base = page /\ writes = page.rev /\ honest = Honest(page)
      /\ text = [c \in Clients |-> Unread] /\ reviewed = [c \in Clients |-> 0]
      /\ seen = [c \in Clients |-> Unread]
  BY DEF ActionInit
<1>3. PagesOK
  <2>1. Prefix(page.hist, page.hist)
    BY <1>1, PrefixSelf
  <2> QED BY <1>1, <1>2, <2>1 DEF PagesOK
<1>4. ReadersOK
  BY <1>2 DEF ReadersOK
<1>5. HonestOK
  <2>1. page.state \in States
    BY <1>1 DEF Pages
  <2>2. honest \in [state : States, alone : BOOLEAN] /\ honest.state = page.state
    BY <1>2, <2>1 DEF Honest
  <2>3. InStep(page, page, page.state) /\ Audited(page, page)
    BY <1>1, InStepSelf, AuditedByItself
  <2> QED BY <1>2, <2>2, <2>3 DEF HonestOK
<1> QED BY <1>3, <1>4, <1>5 DEF ActionInv

\* While the writers are alone the page is as the contract has it.
LEMMA AloneContract ==
    ASSUME ActionInv PROVE page.legacy \/ ~honest.alone \/ Contract(page, page.state)
<1> SUFFICES ASSUME honest.alone PROVE page.legacy \/ Contract(page, page.state)
  OBVIOUS
<1>1. Audited(base, page)
  BY DEF ActionInv, HonestOK
<1>2. CASE Additions(base, page) = {}
  <2>1. page = base
    BY <1>1, <1>2 DEF Audited, Grows
  <2> QED BY <2>1 DEF ActionInv, PagesOK
<1>3. CASE Additions(base, page) # {}
  BY <1>1, <1>3 DEF Audited, Carries
<1> QED BY <1>2, <1>3

\* A write under the lock.
LEMMA WriteKeeps ==
    ASSUME ActionInv, NEW c \in Clients, NEW e \in Receipts, Wrote(c, e)
    PROVE  ActionInv'
<1> DEFINE p == text[c]
           n == page'
<1>1. p \in Pages /\ p.rev \in 1 .. writes /\ Linked(p) /\ Prefix(base.hist, p.hist)
      /\ seen[c] \in States /\ InStep(base, p, seen[c]) /\ (honest.alone => p = page)
  BY DEF ActionInv, ReadersOK, Follows, Wrote
<1>2. Succeeds(p, n, e) /\ n.rev = writes + 1 /\ writes' = writes + 1 /\ base' = base
      /\ writes < MaxWrites
  BY DEF Wrote
<1>3. n \in Pages
  BY <1>2 DEF Succeeds
<1>4. page \in Pages /\ base \in Pages /\ writes \in 1 .. MaxWrites /\ base.rev \in 1 .. writes
      /\ Linked(base)
      /\ (base.legacy \/ Contract(base, base.state)) /\ MaxWrites \in Nat
  BY LifecycleAssumption DEF ActionInv, PagesOK
<1> HIDE DEF p, n
<1>5. Linked(n)
  <2>1. p.rev < n.rev
    BY <1>1, <1>2, <1>4
  <2> QED BY <1>1, <1>2, <1>3, <2>1, LinkedOn
<1>6. PagesOK'
  <2>1. Prefix(base.hist, n.hist)
    <3>1. Extends(p.hist, n.hist, e)
      BY <1>2 DEF Succeeds, Stamped
    <3> QED BY <1>1, <1>3, <1>4, <3>1, AdditionsOfMore
  <2> QED BY <1>2, <1>3, <1>4, <1>5, <2>1 DEF PagesOK, n
<1>7. ReadersOK'
  <2>1. /\ text' = [text EXCEPT ![c] = Unread]
        /\ reviewed' = [reviewed EXCEPT ![c] = 0] /\ seen' = [seen EXCEPT ![c] = Unread]
    BY DEF Wrote, Release
  <2>2. \A d \in Clients : text[d] # Unread => d = c
    BY DEF ActionInv, ReadersOK, Wrote
  <2>3. /\ text \in [Clients -> Pages \cup {Unread}] /\ reviewed \in [Clients -> Nat]
        /\ seen \in [Clients -> States \cup {Unread}]
        /\ \A d \in Clients : reviewed[d] = IF text[d] = Unread THEN 0 ELSE text[d].rev
    BY DEF ActionInv, ReadersOK
  <2>4. \A d \in Clients : text'[d] = Unread /\ reviewed'[d] = 0
    BY <2>1, <2>2, <2>3
  <2>5. text' \in [Clients -> Pages \cup {Unread}] /\ reviewed' \in [Clients -> Nat]
        /\ seen' \in [Clients -> States \cup {Unread}]
    BY <2>1, <2>3
  <2> QED BY <2>4, <2>5 DEF ReadersOK
<1>8. HonestOK'
  <2>1. honest \in [state : States, alone : BOOLEAN]
        /\ (honest.alone => Audited(base, page))
    BY DEF ActionInv, HonestOK
  <2>2. p.state \in States /\ n.state \in States
    BY <1>1, <1>3 DEF Pages
  <2>3. honest' = [honest EXCEPT !.state = IF seen[c] = p.state THEN n.state ELSE seen[c]]
    BY DEF Wrote, p, n
  <2>4. /\ honest'.state = IF seen[c] = p.state THEN n.state ELSE seen[c]
        /\ honest'.alone = honest.alone
    BY <2>1, <2>3
  <2>5. honest' \in [state : States, alone : BOOLEAN]
    BY <1>1, <2>1, <2>2, <2>3
  <2>6. InStep(base, n, honest'.state)
    <3>1. honest'.state \in States
      BY <2>5
    <3> QED BY <1>1, <1>2, <1>3, <1>4, <2>2, <2>4, <3>1, InStepOn
  <2>7. honest'.alone => Audited(base, n)
    <3> SUFFICES ASSUME honest.alone PROVE Audited(base, n)
      BY <2>4
    <3>1. Audited(base, p)
      BY <1>1, <2>1
    <3> QED BY <1>1, <1>2, <1>3, <1>4, <3>1, AuditedOn
  <2> QED BY <1>2, <2>5, <2>6, <2>7 DEF HonestOK, n
<1> QED BY <1>6, <1>7, <1>8 DEF ActionInv

\* A reader that takes the lock.
LEMMA ReadKeeps ==
    ASSUME ActionInv, NEW c \in Clients, NEW rev \in 1 .. writes, ReadPage(c, rev)
    PROVE  ActionInv'
<1>1. UNCHANGED <<page, base, writes, honest>> /\ Free /\ rev = page.rev
      /\ text' = [text EXCEPT ![c] = page] /\ reviewed' = [reviewed EXCEPT ![c] = rev]
      /\ seen' = [seen EXCEPT ![c] = honest.state]
  BY DEF ReadPage, Acquire
<1>2. PagesOK' /\ HonestOK'
  BY <1>1 DEF ActionInv, PagesOK, HonestOK
<1>3. ReadersOK'
  <2>1. /\ text \in [Clients -> Pages \cup {Unread}] /\ reviewed \in [Clients -> Nat]
        /\ seen \in [Clients -> States \cup {Unread}]
        /\ \A d \in Clients : reviewed[d] = IF text[d] = Unread THEN 0 ELSE text[d].rev
    BY DEF ActionInv, ReadersOK
  <2>2. page \in Pages /\ page.rev \in 1 .. writes /\ Linked(page) /\ page # Unread
        /\ rev \in Nat /\ Prefix(base.hist, page.hist)
    BY <1>1, LifecycleAssumption DEF ActionInv, PagesOK
  <2>3. honest.state \in States /\ InStep(base, page, honest.state)
    BY DEF ActionInv, HonestOK
  <2>4. text'[c] = page /\ reviewed'[c] = rev /\ seen'[c] = honest.state
    BY <1>1, <2>1
  <2>5. \A d \in Clients : d # c => text'[d] = Unread /\ reviewed'[d] = 0
    BY <1>1, <2>1 DEF Free
  <2>6. text' \in [Clients -> Pages \cup {Unread}] /\ reviewed' \in [Clients -> Nat]
        /\ seen' \in [Clients -> States \cup {Unread}]
    BY <1>1, <2>1, <2>2, <2>3
  <2>7. \A d \in Clients : reviewed'[d] = IF text'[d] = Unread THEN 0 ELSE text'[d].rev
    BY <1>1, <2>2, <2>4, <2>5
  <2>8. Follows(c)'
    BY <1>1, <2>2, <2>3, <2>4 DEF Follows
  <2> QED BY <1>1, <2>4, <2>5, <2>6, <2>7, <2>8 DEF ReadersOK
<1> QED BY <1>2, <1>3 DEF ActionInv

\* A refusal.
LEMMA DesistKeeps ==
    ASSUME ActionInv, NEW c \in Clients, Desist(c)
    PROVE  ActionInv'
<1>1. UNCHANGED <<page, base, writes, honest>>
      /\ text' = [text EXCEPT ![c] = Unread] /\ reviewed' = [reviewed EXCEPT ![c] = 0]
      /\ seen' = [seen EXCEPT ![c] = Unread]
  BY DEF Desist, Release
<1>2. PagesOK' /\ HonestOK'
  BY <1>1 DEF ActionInv, PagesOK, HonestOK
<1>3. ReadersOK'
  <2>1. /\ text \in [Clients -> Pages \cup {Unread}] /\ reviewed \in [Clients -> Nat]
        /\ seen \in [Clients -> States \cup {Unread}]
        /\ \A d \in Clients : text[d] # Unread => d = c
    BY DEF ActionInv, ReadersOK, Desist
  <2>2. \A d \in Clients : text'[d] = Unread
    BY <1>1, <2>1
  <2>3. \A d \in Clients : reviewed'[d] = 0
    BY <1>1, <2>1 DEF ActionInv, ReadersOK
  <2>4. text' \in [Clients -> Pages \cup {Unread}] /\ reviewed' \in [Clients -> Nat]
        /\ seen' \in [Clients -> States \cup {Unread}]
    BY <1>1, <2>1
  <2> QED BY <2>2, <2>3, <2>4 DEF ReadersOK
<1> QED BY <1>2, <1>3 DEF ActionInv

\* An editor, who leaves history and dialogue alone.
LEMMA HandKeeps ==
    ASSUME ActionInv, NEW n \in Pages, n.hist = page.hist, n.talk = page.talk, Hand(n)
    PROVE  ActionInv'
<1>1. writes < MaxWrites /\ page' = [n EXCEPT !.rev = writes + 1] /\ writes' = writes + 1
      /\ honest' = [honest EXCEPT !.alone = FALSE] /\ base' = base /\ text' = text
      /\ reviewed' = reviewed /\ seen' = seen
  BY DEF Hand
<1>2. page \in Pages /\ base \in Pages /\ writes \in 1 .. MaxWrites /\ base.rev \in 1 .. writes
      /\ page.rev \in 1 .. writes /\ Linked(page)
      /\ Linked(base) /\ Prefix(base.hist, page.hist)
      /\ (base.legacy \/ Contract(base, base.state)) /\ MaxWrites \in Nat
  BY LifecycleAssumption DEF ActionInv, PagesOK
<1>3. writes + 1 \in Nat
  BY <1>2
<1>4. page' \in Pages /\ page'.hist = page.hist /\ page'.talk = page.talk
      /\ page'.rev = writes + 1
  BY <1>1, <1>3 DEF Pages
<1>5. Linked(page')
  <2>1. \A i \in DOMAIN page.hist : page.hist[i].before \in Nat
    <3> SUFFICES ASSUME NEW i \in DOMAIN page.hist PROVE page.hist[i].before \in Nat
      OBVIOUS
    <3>1. page.hist \in Seq(Receipts)
      BY <1>2 DEF Pages
    <3>2. page.hist[i] \in Receipts
      BY <3>1
    <3> QED BY <3>2 DEF Receipts
  <2>2. \A i \in DOMAIN page.talk : page.talk[i].before \in Nat
    <3> SUFFICES ASSUME NEW i \in DOMAIN page.talk PROVE page.talk[i].before \in Nat
      OBVIOUS
    <3>1. page.talk \in Seq(Events)
      BY <1>2 DEF Pages
    <3>2. page.talk[i] \in Events
      BY <3>1
    <3> QED BY <3>2 DEF Events
  <2>3. \A k \in Nat : k < page.rev => k < writes + 1
    BY <1>2
  <2> QED BY <1>2, <1>4, <2>1, <2>2, <2>3 DEF Linked
<1>6. PagesOK'
  BY <1>1, <1>2, <1>4, <1>5 DEF PagesOK
<1>7. honest \in [state : States, alone : BOOLEAN] /\ InStep(base, page, honest.state)
  BY DEF ActionInv, HonestOK
<1>8. honest' \in [state : States, alone : BOOLEAN] /\ honest'.state = honest.state
      /\ ~honest'.alone
  BY <1>1, <1>7
<1>9. HonestOK'
  <2>1. InStep(base, page', honest.state)
    BY <1>2, <1>4, <1>7, InStepByHistory
  <2> QED BY <1>1, <1>8, <2>1 DEF HonestOK
<1>10. ReadersOK'
  <2>1. ASSUME NEW d \in Clients, text[d] # Unread PROVE Follows(d)'
    <3>1. Follows(d)
      BY <2>1 DEF ActionInv, ReadersOK
    <3>2. text[d].rev \in 1 .. writes'
      BY <1>1, <1>2, <3>1 DEF Follows
    <3> QED BY <1>1, <1>4, <1>8, <3>1, <3>2 DEF Follows
  <2> QED BY <1>1, <2>1 DEF ActionInv, ReadersOK
<1> QED BY <1>6, <1>9, <1>10 DEF ActionInv

\* What editors here do.
LEMMA HandEditIs ==
    ASSUME page \in Pages, HandEdit
    PROVE  \E n \in Pages : n.hist = page.hist /\ n.talk = page.talk /\ Hand(n)
<1>1. ASSUME NEW s \in {"open", "waiting_human"},
             Hand([page EXCEPT !.state = s, !.legacy = FALSE])
      PROVE  \E n \in Pages : n.hist = page.hist /\ n.talk = page.talk /\ Hand(n)
  <2> DEFINE n == [page EXCEPT !.state = s, !.legacy = FALSE]
  <2>1. s \in States
    BY DEF States, NonTerminal
  <2>2. n \in Pages /\ n.hist = page.hist /\ n.talk = page.talk
    BY <2>1 DEF Pages
  <2> HIDE DEF n
  <2> QED BY <1>1, <2>2 DEF n
<1>2. ASSUME Hand([page EXCEPT !.next = 2])
      PROVE  \E n \in Pages : n.hist = page.hist /\ n.talk = page.talk /\ Hand(n)
  <2> DEFINE n == [page EXCEPT !.next = 2]
  <2>1. n \in Pages /\ n.hist = page.hist /\ n.talk = page.talk
    BY DEF Pages
  <2> HIDE DEF n
  <2> QED BY <1>2, <2>1 DEF n
<1> QED BY <1>1, <1>2 DEF HandEdit

\* A page that the gate accepts has the state its receipts lead to.
LEMMA AcceptedInStep ==
    ASSUME NEW b \in Pages, NEW p \in Pages, NEW s \in States, Accepted(b, p), InStep(b, p, s)
    PROVE  p.state = s
<1>1. CASE Additions(b, p) = {}
  BY <1>1 DEF InStep, Accepted
<1>2. CASE Additions(b, p) # {}
  <2>1. Chained(b, p)
    BY <1>2 DEF Accepted
  <2>2. \A i \in Additions(b, p) : p.hist[i].from = Precedent(b, p, i).to
    BY <2>1 DEF Chained
  <2>3. Last(p.hist).to = p.state
    BY <2>1 DEF Chained
  <2> QED BY <1>2, <2>2, <2>3 DEF InStep
<1> QED BY <1>1, <1>2

\* What is in step with the base is in step with what the gate accepts in its place,
\* whether that has the receipts of what was read or none.
LEMMA InStepWithMerged ==
    ASSUME NEW b \in Pages, NEW m \in Pages, NEW p \in Pages, NEW s \in States,
           Accepted(b, m), InStep(b, p, s), m.hist \in {p.hist, b.hist}
    PROVE  InStep(m, p, s)
<1>1. b.hist \in Seq(Receipts) /\ m.hist \in Seq(Receipts) /\ p.hist \in Seq(Receipts)
  BY DEF Pages
<1>2. CASE m.hist = p.hist
  <2>1. InStep(b, m, s)
    BY <1>2, InStepByHistory
  <2>2. m.state = s
    BY <2>1, AcceptedInStep
  <2>3. Additions(m, p) = {}
    BY <1>1, <1>2 DEF Additions
  <2> QED BY <2>2, <2>3 DEF InStep
<1>3. CASE m.hist = b.hist
  <2>1. Additions(b, m) = {} /\ Additions(m, p) = Additions(b, p)
    BY <1>1, <1>3 DEF Additions
  <2>2. m.state = b.state
    BY <2>1 DEF Accepted
  <2>3. \A i \in Additions(b, p) : Precedent(m, p, i) = Precedent(b, p, i)
    BY <1>3, <2>1, <2>2 DEF Precedent
  <2> QED BY <2>1, <2>2, <2>3 DEF InStep
<1> QED BY <1>2, <1>3

\* A merge, perhaps under a reader.
LEMMA MergeKeeps ==
    ASSUME ActionInv, MergePage
    PROVE  ActionInv'
<1>1. /\ base' = page /\ UNCHANGED <<page, text, reviewed, seen, writes>>
      /\ honest' = [Honest(page) EXCEPT !.alone = \A c \in Clients : text[c] \in {Unread, page}]
      /\ Accepted(base, page)
  BY DEF MergePage
<1>2. page \in Pages /\ base \in Pages /\ page.state \in States
  BY DEF ActionInv, PagesOK, Pages
<1>3. Contract(page, page.state)
  BY <1>1 DEF Accepted
<1>4. PagesOK'
  BY <1>1, <1>2, <1>3, PrefixSelf DEF ActionInv, PagesOK
<1>5. /\ honest' \in [state : States, alone : BOOLEAN] /\ honest'.state = page.state
      /\ honest'.alone => \A c \in Clients : text[c] \in {Unread, page}
  BY <1>1, <1>2 DEF Honest
<1>6. ReadersOK'
  <2>1. ASSUME NEW c \in Clients, text[c] # Unread PROVE Follows(c)'
    <3>1. Follows(c) /\ text[c] \in Pages
      BY <2>1 DEF ActionInv, ReadersOK
    <3>2. Prefix(page.hist, text[c].hist)
      BY <3>1, PrefixSelf DEF Follows
    <3>3. InStep(page, text[c], seen[c])
      BY <1>1, <1>2, <3>1, InStepWithMerged DEF Follows
    <3>4. honest'.alone => text[c] = page
      BY <1>5, <2>1
    <3> QED BY <1>1, <3>1, <3>2, <3>3, <3>4 DEF Follows
  <2> QED BY <1>1, <2>1 DEF ActionInv, ReadersOK
<1>7. HonestOK'
  <2>1. InStep(page, page, page.state) /\ Audited(page, page)
    BY <1>2, InStepSelf, AuditedByItself
  <2> QED BY <1>1, <1>5, <2>1 DEF HonestOK
<1> QED BY <1>4, <1>6, <1>7 DEF ActionInv

\* A checkout, perhaps under a reader.
LEMMA RevertKeeps ==
    ASSUME ActionInv, Revert
    PROVE  ActionInv'
<1>1. page' = base /\ honest' = [Honest(base) EXCEPT !.alone = Free]
      /\ UNCHANGED <<base, text, reviewed, seen, writes>>
  BY DEF Revert
<1>2. base \in Pages /\ base.state \in States
  BY DEF ActionInv, PagesOK, Pages
<1>3. PagesOK'
  BY <1>1, <1>2, PrefixSelf DEF ActionInv, PagesOK
<1>4. /\ honest' \in [state : States, alone : BOOLEAN] /\ honest'.state = base.state
      /\ honest'.alone => Free
  <2>1. Free \in BOOLEAN
    BY DEF Free
  <2> HIDE DEF Free
  <2> QED BY <1>1, <1>2, <2>1 DEF Honest
<1>5. ReadersOK'
  <2>1. ASSUME NEW c \in Clients, text[c] # Unread PROVE Follows(c)'
    <3>1. Follows(c)
      BY <2>1 DEF ActionInv, ReadersOK
    <3>2. ~honest'.alone
      BY <1>4, <2>1 DEF Free
    <3> QED BY <1>1, <3>1, <3>2 DEF Follows
  <2> QED BY <1>1, <2>1 DEF ActionInv, ReadersOK
<1>6. HonestOK'
  <2>1. InStep(base, base, base.state) /\ Audited(base, base)
    BY <1>2, InStepSelf, AuditedByItself
  <2> QED BY <1>1, <1>4, <2>1 DEF HonestOK
<1> QED BY <1>3, <1>5, <1>6 DEF ActionInv

\* Every step.
LEMMA ActionStepKeeps ==
    ASSUME ActionInv, [ActionNext]_actionVars PROVE ActionInv'
<1>1. ASSUME NEW c \in Clients, Desist(c) PROVE ActionInv'
  BY <1>1, DesistKeeps
<1>2. ASSUME NEW c \in Clients, NEW rev \in 1 .. writes, ReadPage(c, rev) PROVE ActionInv'
  BY <1>2, ReadKeeps
<1>3. ASSUME NEW c \in Clients, NEW q \in Requests, TransitionPage(c, q) PROVE ActionInv'
  <2>1. PICK e \in Receipts : Wrote(c, e)
    BY <1>3, TransitionWrites DEF ActionInv
  <2> QED BY <2>1, WriteKeeps
<1>4. ASSUME NEW c \in Clients, NEW q \in Requests, IntegrateBody(c, q) PROVE ActionInv'
  <2>1. PICK e \in Receipts : Wrote(c, e)
    BY <1>4, IntegrationWrites DEF ActionInv
  <2> QED BY <2>1, WriteKeeps
<1>5. ASSUME HandEdit PROVE ActionInv'
  <2>1. PICK n \in Pages : n.hist = page.hist /\ n.talk = page.talk /\ Hand(n)
    BY <1>5, HandEditIs DEF ActionInv, PagesOK
  <2> QED BY <2>1, HandKeeps
<1>6. ASSUME MergePage PROVE ActionInv'
  BY <1>6, MergeKeeps
<1>7. ASSUME Revert PROVE ActionInv'
  BY <1>7, RevertKeeps
<1>8. ASSUME UNCHANGED actionVars PROVE ActionInv'
  BY <1>8 DEF actionVars, ActionInv, PagesOK, ReadersOK, Follows, HonestOK
<1> QED BY <1>1, <1>2, <1>3, <1>4, <1>5, <1>6, <1>7, <1>8 DEF ActionNext

\* The inductive invariant of the page.
LEMMA ActionInvariant == ActionSpec => []ActionInv
<1>1. ActionInit => ActionInv
  BY StartsLinked
<1>2. ActionInv /\ [ActionNext]_actionVars => ActionInv'
  BY ActionStepKeeps
<1> QED BY <1>1, <1>2, PTL DEF ActionSpec

\* Whatever sequence of transitions, edits, comments and contributions made a page of
\* the merged one, in whatever time zones and however old the page: it is well formed
\* and the audit of the gate accepts it.
THEOREM WritersPassTheGate == ActionSpec => []ActionSafety
<1>1. ActionInv => ActionSafety
  <2> SUFFICES ASSUME ActionInv PROVE ActionSafety
    OBVIOUS
  <2>1. ActionTypeOK
    <3>1. page \in Pages /\ base \in Pages /\ page.rev \in 1 .. writes
          /\ base.rev \in 1 .. writes /\ writes \in 1 .. MaxWrites /\ Linked(page)
      BY DEF ActionInv, PagesOK
    <3>2. page.legacy \/ ~honest.alone \/ Contract(page, page.state)
      BY AloneContract
    <3>3. \A i, j \in DOMAIN page.hist : i < j => page.hist[i].at < page.hist[j].at
      BY <3>1 DEF Linked
    <3>4. /\ \A c \in Clients : reviewed[c] = IF text[c] = Unread THEN 0 ELSE text[c].rev
          /\ \A c, d \in Clients : text[c] # Unread /\ text[d] # Unread => c = d
      BY DEF ActionInv, ReadersOK
    <3> QED BY <3>1, <3>2, <3>3, <3>4 DEF ActionTypeOK
  <2>2. AuditAcceptsWriters
    <3> SUFFICES ASSUME honest.alone, page # base, ~Mixed PROVE Accepted(base, page)
      BY DEF AuditAcceptsWriters
    <3>1. Audited(base, page) /\ page \in Pages /\ base \in Pages
      BY DEF ActionInv, PagesOK, HonestOK
    <3> QED BY <3>1, AuditPasses DEF Mixed
  <2> QED BY <2>1, <2>2 DEF ActionSafety
<1> QED BY <1>1, ActionInvariant, PTL

\* Whoever edits the page by hand, and whatever the writers record afterwards: the
\* gate accepts a page only in the state that the receipts of the writers lead to.
THEOREM GateWantsReceipts == ActionSpec => []StateIsReceipted
<1>1. ActionInv => StateIsReceipted
  <2> SUFFICES ASSUME ActionInv, Accepted(base, page) PROVE page.state = honest.state
    BY DEF StateIsReceipted
  <2>1. InStep(base, page, honest.state) /\ honest.state \in States
    BY DEF ActionInv, HonestOK
  <2>2. page \in Pages /\ base \in Pages
    BY DEF ActionInv, PagesOK
  <2> QED BY <2>1, <2>2, AcceptedInStep
<1> QED BY <1>1, ActionInvariant, PTL

\* No two receipts of linked texts name the same text.
LEMMA NamesAreOnce ==
    ASSUME NEW p \in Pages, Linked(p)
    PROVE  \A i, j \in DOMAIN p.hist :
             /\ p.hist[i].before = p.hist[j].before => i = j
             /\ p.hist[i].reviewed = p.hist[j].reviewed => i = j
<1> SUFFICES ASSUME NEW i \in DOMAIN p.hist, NEW j \in DOMAIN p.hist, i # j
             PROVE  /\ p.hist[i].before # p.hist[j].before
                    /\ p.hist[i].reviewed # p.hist[j].reviewed
  OBVIOUS
<1>1. p.hist \in Seq(Receipts)
  BY DEF Pages
<1>2. i \in Int /\ j \in Int /\ p.hist[i] \in Receipts /\ p.hist[j] \in Receipts
  BY <1>1
<1>3. p.hist[i].before \in Nat /\ p.hist[j].before \in Nat
  BY <1>2 DEF Receipts
<1>4. i < j \/ j < i
  BY <1>2
<1>5. p.hist[i].before < p.hist[j].before \/ p.hist[j].before < p.hist[i].before
  BY <1>4 DEF Linked
<1>6. p.hist[i].reviewed = p.hist[i].before /\ p.hist[j].reviewed = p.hist[j].before
  BY DEF Linked
<1> QED BY <1>3, <1>5, <1>6

\* However many clients read, write, ask again and edit: no two receipts of a page
\* go on from the same text, and none is written over.
THEOREM EachTextHasOneSuccessor == ActionSpec => OneSuccessor
<1> DEFINE Once == \A i, j \in DOMAIN page'.hist :
                     /\ page'.hist[i].before = page'.hist[j].before => i = j
                     /\ page'.hist[i].reviewed = page'.hist[j].reviewed => i = j
           Kept2 == page' = base \/ Prefix(page.hist, page'.hist)
<1>1. ASSUME ActionInv, ActionInv', ActionNext PROVE Once /\ Kept2
  <2>1. Once
    <3>1. page' \in Pages /\ Linked(page')
      BY <1>1 DEF ActionInv, PagesOK
    <3> QED BY <3>1, NamesAreOnce
  <2>2. page \in Pages /\ page' \in Pages
    BY <1>1 DEF ActionInv, PagesOK
  <2>3. Prefix(page.hist, page.hist)
    BY <2>2, PrefixSelf
  <2>4. ASSUME NEW c \in Clients, NEW e \in Receipts, Wrote(c, e)
        PROVE  Prefix(page.hist, page'.hist)
    <3>1. text[c] \in Pages /\ base \in Pages /\ Follows(c)
      BY <1>1, <2>4 DEF ActionInv, PagesOK, ReadersOK, Wrote
    <3>2. Prefix(page.hist, text[c].hist)
      BY <3>1, PrefixSelf DEF Follows
    <3>3. Extends(text[c].hist, page'.hist, e)
      BY <2>4 DEF Wrote, Succeeds, Stamped
    <3> QED BY <2>2, <3>1, <3>2, <3>3, AdditionsOfMore
  <2>5. ASSUME NEW c \in Clients, NEW q \in Requests, TransitionPage(c, q) PROVE Kept2
    <3>1. PICK e \in Receipts : Wrote(c, e)
      BY <1>1, <2>5, TransitionWrites DEF ActionInv
    <3> QED BY <2>4, <3>1
  <2>6. ASSUME NEW c \in Clients, NEW q \in Requests, IntegrateBody(c, q) PROVE Kept2
    <3>1. PICK e \in Receipts : Wrote(c, e)
      BY <1>1, <2>6, IntegrationWrites DEF ActionInv
    <3> QED BY <2>4, <3>1
  <2>7. ASSUME HandEdit PROVE Kept2
    <3>1. PICK n \in Pages : n.hist = page.hist /\ Hand(n)
      BY <2>2, <2>7, HandEditIs
    <3>2. page'.hist = page.hist
      BY <3>1 DEF Hand, Pages
    <3> QED BY <2>3, <3>2
  <2>8. ASSUME Revert PROVE Kept2
    BY <2>8 DEF Revert
  <2>9. ASSUME page' = page PROVE Kept2
    BY <2>3, <2>9
  <2>10. Kept2
    <3> HIDE DEF Kept2
    <3>1. ASSUME NEW c \in Clients, Desist(c) PROVE Kept2
      BY <2>9, <3>1 DEF Desist
    <3>2. ASSUME NEW c \in Clients, NEW rev \in 1 .. writes, ReadPage(c, rev) PROVE Kept2
      BY <2>9, <3>2 DEF ReadPage
    <3>3. ASSUME MergePage PROVE Kept2
      BY <2>9, <3>3 DEF MergePage
    <3> QED BY <1>1, <2>5, <2>6, <2>7, <2>8, <3>1, <3>2, <3>3 DEF ActionNext
  <2> QED BY <2>1, <2>10
<1>2. ActionInv /\ ActionInv' /\ [ActionNext]_actionVars => [Once /\ Kept2]_actionVars
  BY <1>1
<1>3. [][Once /\ Kept2]_actionVars => OneSuccessor
  <2>1. [Once /\ Kept2]_actionVars =>
        [/\ \A i, j \in DOMAIN page'.hist :
             /\ page'.hist[i].before = page'.hist[j].before => i = j
             /\ page'.hist[i].reviewed = page'.hist[j].reviewed => i = j
         /\ page' = base \/ Prefix(page.hist, page'.hist)]_actionVars
    OBVIOUS
  <2> QED BY <2>1, PTL DEF OneSuccessor
<1> HIDE DEF Once, Kept2
<1> QED BY <1>2, <1>3, ActionInvariant, PTL DEF ActionSpec

\* No sequence of writes takes back a terminal state, its receipt, its instant, its
\* title or its body.
THEOREM HistoryIsFinal == ActionSpec => TerminalIsFinal
<1> DEFINE Final ==
      page.state \in Terminal /\ writes' > writes /\ honest'.alone =>
          /\ page'.state = page.state
          /\ page.comp # 0 /\ page.state = "done" => page'.comp = page.comp
          /\ page.canc # 0 /\ page.state = "cancelled" => page'.canc = page.canc
          /\ page.done_at # 0 => page'.done_at = page.done_at
          /\ Projection(page') = Projection(page)
<1>1. ASSUME ActionInv, ActionNext PROVE Final
  <2>1. ASSUME NEW c \in Clients, NEW e \in Receipts, Wrote(c, e) PROVE Final
    <3> SUFFICES ASSUME page.state \in Terminal, honest'.alone
        PROVE  Finished(page, page')
      BY DEF Finished
    <3>1. honest'.alone = honest.alone
      BY <1>1, <2>1 DEF Wrote, ActionInv, HonestOK
    <3>2. text[c] = page
      BY <1>1, <2>1, <3>1 DEF Wrote, ActionInv, ReadersOK, Follows
    <3>3. Finished(text[c], page')
      BY <2>1 DEF Wrote, Succeeds
    <3> QED BY <3>2, <3>3
  <2>2. ASSUME NEW c \in Clients, NEW q \in Requests, TransitionPage(c, q) PROVE Final
    <3>1. PICK e \in Receipts : Wrote(c, e)
      BY <1>1, <2>2, TransitionWrites DEF ActionInv
    <3> QED BY <2>1, <3>1
  <2>3. ASSUME NEW c \in Clients, NEW q \in Requests, IntegrateBody(c, q) PROVE Final
    <3>1. PICK e \in Receipts : Wrote(c, e)
      BY <1>1, <2>3, IntegrationWrites DEF ActionInv
    <3> QED BY <2>1, <3>1
  <2>4. ASSUME HandEdit PROVE Final
    <3>1. ~honest'.alone
      <4>1. honest' = [honest EXCEPT !.alone = FALSE]
        BY <2>4 DEF HandEdit, Hand
      <4> QED BY <1>1, <4>1 DEF ActionInv, HonestOK
    <3> QED BY <3>1
  <2>5. ASSUME writes' = writes PROVE Final
    <3>1. ~(writes' > writes)
      BY <1>1, <2>5 DEF ActionInv, PagesOK
    <3> QED BY <3>1
  <2> HIDE DEF Final
  <2>6. ASSUME NEW c \in Clients, Desist(c) PROVE Final
    BY <2>5, <2>6 DEF Desist
  <2>7. ASSUME NEW c \in Clients, NEW rev \in 1 .. writes, ReadPage(c, rev) PROVE Final
    BY <2>5, <2>7 DEF ReadPage
  <2>8. ASSUME MergePage PROVE Final
    BY <2>5, <2>8 DEF MergePage
  <2>9. ASSUME Revert PROVE Final
    BY <2>5, <2>9 DEF Revert
  <2> QED BY <1>1, <2>2, <2>3, <2>4, <2>6, <2>7, <2>8, <2>9 DEF ActionNext
<1>2. ActionInv /\ [ActionNext]_actionVars => [Final]_actionVars
  BY <1>1
<1>3. [][Final]_actionVars => TerminalIsFinal
  <2>1. [Final]_actionVars =>
        [page.state \in Terminal /\ writes' > writes /\ honest'.alone =>
          /\ page'.state = page.state
          /\ page.comp # 0 /\ page.state = "done" => page'.comp = page.comp
          /\ page.canc # 0 /\ page.state = "cancelled" => page'.canc = page.canc
          /\ page.done_at # 0 => page'.done_at = page.done_at
          /\ Projection(page') = Projection(page)]_actionVars
    OBVIOUS
  <2> QED BY <2>1, PTL DEF TerminalIsFinal
<1> HIDE DEF Final
<1> QED BY <1>2, <1>3, ActionInvariant, PTL DEF ActionSpec
===============================================================================
