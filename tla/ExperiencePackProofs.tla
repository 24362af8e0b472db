------------------------- MODULE ExperiencePackProofs -------------------------
(***************************************************************************)
(* For every registry, any number of processes, failures, crashes and      *)
(* edits: the active packs of the lock file compose, what it names is on   *)
(* disk, it follows its receipts, and an operation that fails is undone.   *)
(*                                                                         *)
(* What a plan computes composes because what it starts from does; the     *)
(* lock file is only ever the one a plan started from, the one it          *)
(* computed, or the empty one.  Which of these, and what lies where, is    *)
(* told by the step the operation is at.                                   *)
(***************************************************************************)
EXTENDS ExperiencePack, SequenceTheorems, TLAPS

Fields == {"step", "action", "source", "before", "after", "receipt", "written", "undo"}

IsEntry(e) ==
    e = [source |-> e.source, status |-> e.status, receipts |-> e.receipts]

\* A pack has its entry under its own name.
Named(l) == \A p \in DOMAIN l : IsEntry(l[p]) /\ l[p].source.pack = p

Good(l) == Composed(l) /\ Named(l)

\* An operation carries two locks that compose.
Carries(o) == o = Idle \/ (DOMAIN o = Fields /\ Good(o.before) /\ Good(o.after))

IInv ==
    /\ Good(lock)
    /\ DOMAIN op = Clients
    /\ \A c \in Clients : Carries(op[c])

LEMMA EmptyGood == Good(EmptyLock)
  BY DEF Good, Composed, Named, EmptyLock, Active

\* A pack that composes with the others may be put under its name, and stays
\* active if it was.
LEMMA PutGood ==
    ASSUME NEW l, Good(l), NEW s, Composes(s, l), NEW e, IsEntry(e),
           e.source = s, NEW p, p = s.pack, p \in Active(l) => e.status = "active"
    PROVE  Good(WithEntry(l, p, e))
<1> DEFINE m == WithEntry(l, p, e)
<1>1. DOMAIN m = DOMAIN l \cup {p} /\ m[p] = e /\ \A q \in DOMAIN l \ {p} : m[q] = l[q]
  BY DEF WithEntry
<1>2. Active(m) \subseteq Active(l) \cup {p} /\ Active(m) \ {p} = Active(l) \ {p}
  BY <1>1 DEF Active
<1>3. Named(m)
  BY <1>1 DEF Good, Named
<1>4. ASSUME NEW q \in Active(m), NEW r \in Active(m) \ {q}
      PROVE  ~Clash(m[q].source, m[r].source)
  BY <1>1, <1>2, <1>4 DEF Good, Composed, Composes, Clash, Active
<1>5. ASSUME NEW q \in Active(m), NEW need \in m[q].source.needs
      PROVE  \E r \in Active(m) : Meets(m[r].source, need)
  <2>1. CASE q = p
    BY <1>1, <1>2, <2>1 DEF Composes, Active
  <2>2. CASE q # p
    <3>1. q \in Active(l) \ {p} /\ m[q] = l[q] /\ need \in l[q].source.needs
      BY <1>1, <1>2, <1>5, <2>2 DEF Active
    <3>2. PICK r \in Active(l) : Meets(l[r].source, need)
      BY <3>1 DEF Good, Composed
    <3>3. CASE r # p
      BY <3>2, <3>3, <1>1, <1>2 DEF Active
    <3>4. CASE r = p
      <4>1. need.pack = s.pack
        BY <3>2, <3>4 DEF Meets, Good, Named, Active
      <4>2. Meets(s, need)
        BY <4>1, <3>1 DEF Composes
      <4>3. p \in Active(m)
        BY <3>2, <3>4, <1>1 DEF Active
      <4> QED BY <4>2, <4>3, <1>1
    <3> QED BY <3>3, <3>4
  <2> QED BY <2>1, <2>2
<1> QED BY <1>3, <1>4, <1>5 DEF Good, Composed

\* A pack that no other active pack needs may go, or stay without counting:
\* what is left of the lock is the same and nothing of it needed the pack.
LEMMA DropGood ==
    ASSUME NEW l, Good(l), NEW p \in DOMAIN l, NoDependents(p, l), NEW m,
           DOMAIN m \ {p} = DOMAIN l \ {p}, \A q \in DOMAIN l \ {p} : m[q] = l[q],
           p \in DOMAIN m => /\ IsEntry(m[p])
                             /\ m[p].status # "active" /\ m[p].source = l[p].source
    PROVE  Good(m)
<1>1. Active(m) = Active(l) \ {p}
  BY DEF Active
<1>2. Named(m)
  <2>1. CASE p \in DOMAIN m
    BY <2>1 DEF Good, Named
  <2>2. CASE p \notin DOMAIN m
    BY <2>2 DEF Good, Named
  <2> QED BY <2>1, <2>2
<1>3. ASSUME NEW q \in Active(m)
      PROVE  /\ \A r \in Active(m) \ {q} : ~Clash(m[q].source, m[r].source)
             /\ \A need \in m[q].source.needs :
                    \E r \in Active(m) : Meets(m[r].source, need)
  <2>1. q \in Active(l) /\ q # p /\ m[q] = l[q]
    BY <1>1, <1>3 DEF Active
  <2>2. \A r \in Active(m) : m[r] = l[r]
    BY <1>1 DEF Active
  <2>3. \A r \in Active(m) \ {q} : ~Clash(m[q].source, m[r].source)
    BY <1>1, <2>1, <2>2 DEF Good, Composed
  <2>4. ASSUME NEW need \in m[q].source.needs
        PROVE  \E r \in Active(m) : Meets(m[r].source, need)
    <3>1. PICK r \in Active(l) : Meets(l[r].source, need)
      BY <2>1, <2>4 DEF Good, Composed
    <3>2. r # p
      BY <2>1, <2>4, <3>1 DEF NoDependents, Meets, Good, Named, Active
    <3> QED BY <1>1, <2>2, <3>1, <3>2
  <2> QED BY <2>3, <2>4
<1> QED BY <1>2, <1>3 DEF Good, Composed

\* A plan that starts from the lock and ends in a good one may begin.
LEMMA PlanKeeps ==
    ASSUME IInv, NEW c \in Clients, NEW action, NEW s, NEW after, NEW step,
           Plan(c, action, s, after, step), Good(after)
    PROVE  IInv'
<1> DEFINE o == [step |-> step, action |-> action, source |-> s,
                 before |-> lock, after |-> after,
                 receipt |-> Receipt(action, s, lock, after),
                 written |-> FALSE, undo |-> FALSE]
<1>1. op' = [op EXCEPT ![c] = o] /\ lock' = lock
  BY DEF Plan
<1>2. Carries(o)
  BY DEF Carries, Fields, IInv
<1> HIDE DEF o
<1> QED BY <1>1, <1>2 DEF IInv

\* A client whose operation ends or goes on carries what it carried.
LEMMA StepKeeps ==
    ASSUME NEW c \in Clients, DOMAIN op = Clients, \A d \in Clients : Carries(op[d]),
           \/ End(c)
           \/ op[c] # Idle /\ \E step : Go(c, step) \/ Undo(c, step)
           \/ op[c] # Idle /\ \E step :
                  op' = [op EXCEPT ![c].step = step, ![c].written = TRUE]
    PROVE  DOMAIN op' = Clients /\ \A d \in Clients : Carries(op'[d])
<1>1. CASE End(c)
  BY <1>1 DEF End, Carries
<1>2. ASSUME op[c] # Idle, NEW step, Go(c, step)
      PROVE  DOMAIN op' = Clients /\ \A d \in Clients : Carries(op'[d])
  BY <1>2 DEF Go, Carries, Fields
<1>3. ASSUME op[c] # Idle, NEW step, Undo(c, step)
      PROVE  DOMAIN op' = Clients /\ \A d \in Clients : Carries(op'[d])
  BY <1>1, <1>3 DEF Undo, Carries, Fields
<1>4. ASSUME op[c] # Idle, NEW step,
             op' = [op EXCEPT ![c].step = step, ![c].written = TRUE]
      PROVE  DOMAIN op' = Clients /\ \A d \in Clients : Carries(op'[d])
  BY <1>4 DEF Carries, Fields
<1> QED BY <1>1, <1>2, <1>3, <1>4

LEMMA InitIInv == Init => IInv
  BY EmptyGood DEF Init, IInv, Carries

\* The receipt at the end of the chain changes nothing else of the entry.
LEMMA ChainEntry ==
    ASSUME NEW action, NEW s, NEW e, IsEntry(e)
    PROVE  \E f : /\ Chained(action, s, e) = WithEntry(lock, s.pack, f)
                  /\ IsEntry(f) /\ f.source = e.source /\ f.status = e.status
<1> DEFINE f == [e EXCEPT !.receipts =
                     Append(@, Receipt(action, s, lock, WithEntry(lock, s.pack, e)))]
<1>1. Chained(action, s, e) = WithEntry(lock, s.pack, f)
  BY DEF Chained
<1>2. IsEntry(f) /\ f.source = e.source /\ f.status = e.status
  BY DEF IsEntry
<1> HIDE DEF f
<1> QED BY <1>1, <1>2

LEMMA BeginKeeps ==
    ASSUME IInv, NEW c \in Clients, Begin(c) PROVE IInv'
<1>1. ASSUME NEW s \in Sources, BeginInstall(c, s) PROVE IInv'
  <2> DEFINE e == [source |-> s, status |-> "active", receipts |-> <<>>]
  <2>1. PICK f : /\ Chained("install", s, e) = WithEntry(lock, s.pack, f)
                 /\ IsEntry(f) /\ f.source = s /\ f.status = "active"
    <3>1. IsEntry(e) /\ e.source = s /\ e.status = "active"
      BY DEF IsEntry
    <3> HIDE DEF e
    <3> QED BY <3>1, ChainEntry
  <2>2. Good(Chained("install", s, e))
    BY <1>1, <2>1, PutGood DEF BeginInstall, IInv
  <2> QED BY <1>1, <2>2, PlanKeeps DEF BeginInstall
<1>2. ASSUME NEW s \in Sources, BeginUpgrade(c, s) PROVE IInv'
  <2> DEFINE e == [lock[s.pack] EXCEPT !.source = s]
  <2>1. PICK f : /\ Chained("upgrade", s, e) = WithEntry(lock, s.pack, f)
                 /\ IsEntry(f) /\ f.source = s /\ f.status = lock[s.pack].status
    <3>1. IsEntry(lock[s.pack])
      BY <1>2 DEF BeginUpgrade, IInv, Good, Named
    <3>2. IsEntry(e) /\ e.source = s /\ e.status = lock[s.pack].status
      BY <3>1 DEF IsEntry
    <3> HIDE DEF e
    <3> QED BY <3>2, ChainEntry
  <2>2. Good(Chained("upgrade", s, e))
    BY <1>2, <2>1, PutGood DEF BeginUpgrade, IInv, Active
  <2> QED BY <1>2, <2>2, PlanKeeps DEF BeginUpgrade
<1>3. ASSUME NEW p \in DOMAIN lock, BeginDisable(c, p) PROVE IInv'
  <2> DEFINE s == lock[p].source
             e == [lock[p] EXCEPT !.status = "disabled"]
  <2>1. PICK f : /\ Chained("disable", s, e) = WithEntry(lock, s.pack, f)
                 /\ IsEntry(f) /\ f.source = s /\ f.status = "disabled"
    <3>1. IsEntry(lock[p])
      BY DEF IInv, Good, Named
    <3>2. IsEntry(e) /\ e.source = s /\ e.status = "disabled"
      BY <3>1 DEF IsEntry
    <3> HIDE DEF e
    <3> QED BY <3>2, ChainEntry
  <2>2. s.pack = p
    BY DEF IInv, Good, Named
  <2>3. Good(Chained("disable", s, e))
    BY <1>3, <2>1, <2>2, DropGood DEF BeginDisable, IInv, WithEntry
  <2> QED BY <1>3, <2>3, PlanKeeps DEF BeginDisable
<1>4. ASSUME NEW p \in DOMAIN lock, BeginRemove(c, p) PROVE IInv'
  <2>1. Good(Without(lock, p))
    BY <1>4, DropGood DEF BeginRemove, IInv, Without
  <2> QED BY <1>4, <2>1, PlanKeeps DEF BeginRemove
<1> QED BY <1>1, <1>2, <1>3, <1>4 DEF Begin

\* A write leaves the lock alone, or makes it one that its operation carries.
LEMMA WriteKeeps ==
    ASSUME IInv, NEW c \in Clients, Write(c) \/ Crash(c) PROVE IInv'
<1>1. CASE Copy(c)
  BY <1>1, StepKeeps DEF Copy, IInv, Idle
<1>2. CASE WriteReceipt(c)
  BY <1>2, StepKeeps DEF WriteReceipt, IInv, Idle
<1>3. CASE ReceiptFails(c)
  BY <1>3, StepKeeps DEF ReceiptFails, IInv, Idle
<1>4. CASE WriteLock(c)
  <2>1. op[c] # Idle
    BY <1>4 DEF WriteLock, Idle
  <2>2. Good(lock')
    BY <1>4, <2>1 DEF WriteLock, IInv, Carries
  <2> QED BY <1>4, <2>1, <2>2, StepKeeps DEF WriteLock, IInv
<1>5. CASE LockFails(c)
  BY <1>5, StepKeeps DEF LockFails, IInv, Idle
<1>6. CASE Match(c)
  BY <1>6, StepKeeps DEF Match, Failed, IInv, Idle
<1>7. CASE Move(c)
  BY <1>7, StepKeeps DEF Move, Failed, IInv, Idle
<1>8. CASE Wipe(c)
  BY <1>8, StepKeeps DEF Wipe, Abandon, Failed, IInv, Idle
<1>9. CASE WipeFails(c)
  BY <1>9, StepKeeps DEF WipeFails, Abandon, Failed, IInv, Idle
<1>10. CASE Close(c)
  BY <1>10, StepKeeps DEF Close, Failed, IInv, Idle
<1>11. CASE PutBack(c)
  <2>1. op[c] # Idle
    BY <1>11 DEF PutBack, Idle
  <2>2. Good(lock')
    BY <1>11, <2>1 DEF PutBack, IInv, Carries
  <2> QED BY <1>11, <2>1, <2>2, StepKeeps DEF PutBack, IInv
<1>12. CASE Unreceipt(c)
  BY <1>12, StepKeeps DEF Unreceipt, IInv, Idle
<1>13. CASE Unbundle(c)
  BY <1>13, StepKeeps DEF Unbundle, IInv, Idle
<1>14. CASE UndoFails(c)
  BY <1>14, StepKeeps DEF UndoFails, IInv, Idle
<1>15. CASE Crash(c)
  BY <1>15, StepKeeps DEF Crash, IInv
<1>16. CASE CompareLock(c)
  BY <1>16, StepKeeps DEF CompareLock, IInv, Idle
<1>17. CASE Unlink(c)
  BY <1>17, StepKeeps DEF Unlink, IInv, Idle
<1>18. CASE Unlock(c)
  BY <1>18, StepKeeps DEF Unlock, IInv, Idle
<1> QED BY <1>1, <1>2, <1>3, <1>4, <1>5, <1>6, <1>7, <1>8, <1>9, <1>10, <1>11,
           <1>12, <1>13, <1>14, <1>15, <1>16, <1>17, <1>18 DEF Write

LEMMA NextIInv == IInv /\ [Next]_vars => IInv'
<1> SUFFICES ASSUME IInv, [Next]_vars PROVE IInv'
  OBVIOUS
<1>1. CASE UNCHANGED vars
  BY <1>1 DEF vars, IInv
<1>2. ASSUME NEW c \in Clients, People(c) PROVE IInv'
  BY <1>2 DEF People, EditHeld, EditLate, Reoccupy, IInv
<1>3. ASSUME NEW s \in Sources, Edit(s) PROVE IInv'
  BY <1>3 DEF Edit, IInv
<1>4. CASE Restore
  BY <1>4, EmptyGood DEF Restore, IInv
<1> QED BY <1>1, <1>2, <1>3, <1>4, BeginKeeps, WriteKeeps DEF Next

\* At every moment the active packs of the lock file compose: no two clash and
\* each finds what it needs among the active ones, whatever the registry, the
\* number of processes, the failures and the crashes.
THEOREM Compose == Spec => []ActiveCompose
<1>1. IInv => ActiveCompose
  BY DEF IInv, Good, ActiveCompose
<1> QED BY <1>1, InitIInv, NextIInv, PTL DEF Spec
-------------------------------------------------------------------------------
(* What the lock file names.                                               *)

Settled == receipts \ torn

\* The receipts of a lock, its sources, and the bundles of these.
Chains(l, rs) == \A p \in DOMAIN l : l[p].receipts \in Seq(rs)
Sourced(l) ==
    \A p \in DOMAIN l : l[p].source \in Sources /\ l[p].status \in {"active", "disabled"}
Present(l) == \A p \in DOMAIN l : bundles[l[p].source] # "none"

Bringing == {"install", "upgrade"}
Deleting == {"upgrade", "remove"}

\* What an operation was begun with.  The lock it writes has the entries of the
\* one before it, or the entry of its pack with its receipt at the end.
Started(o) ==
    /\ DOMAIN o = Fields
    /\ o.step \in Steps /\ o.undo \in BOOLEAN /\ o.written \in BOOLEAN
    /\ o.action \in {"install", "upgrade", "disable", "remove"} /\ o.source \in Sources
    /\ o.receipt = Receipt(o.action, o.source, o.before, o.after)
    /\ Sourced(o.before) /\ Sourced(o.after)

Extends(o) ==
    \A p \in DOMAIN o.after :
        \/ /\ p \in DOMAIN o.before /\ o.after[p].source = o.before[p].source
           /\ \/ o.after[p].receipts = o.before[p].receipts
              \/ o.after[p].receipts = Append(o.before[p].receipts, o.receipt)
        \/ /\ o.action \in Bringing /\ o.after[p].source = o.source
           /\ \/ o.after[p].receipts = Append(<<>>, o.receipt)
              \/ /\ p \in DOMAIN o.before
                 /\ o.after[p].receipts = Append(o.before[p].receipts, o.receipt)

\* It brings what the lock before does not name and deletes what the one after
\* does not.
Replaced(o) == o.before[o.source.pack].source
Disjoint(o) ==
    /\ o.action \in Bringing => \A p \in DOMAIN o.before : o.before[p].source # o.source
    /\ o.action \in Deleting =>
          /\ o.source.pack \in DOMAIN o.before
          /\ \A p \in DOMAIN o.after : o.after[p].source # Replaced(o)

Erasing == {"match", "move", "wipe", "unlink"}
Wiping == {"wipe", "unlink"}
Locking == {"compare", "replace"}
Unlocking == {"unlock", "recompare", "putback"}
\* The lock was written, and not put back; the receipt is in place.
Forward(o) == o.step \in Erasing /\ o.undo = FALSE
Written(o) == Forward(o) \/ o.step \in Unlocking
Receipted(o) == Written(o) \/ o.step \in Locking \cup {"unreceipt"}
Erases(o) == IF o.undo = TRUE THEN o.source ELSE Replaced(o)

\* Where an operation is tells what the lock says and what lies where.
Locked(o) == lock \in {EmptyLock, IF Written(o) THEN o.after ELSE o.before}

Way(o) ==
    /\ o.step \in Locking \cup {"copy", "receipt"} => o.undo = FALSE
    /\ o.step \in Unlocking \cup {"unreceipt", "unbundle"} => o.undo = TRUE
    /\ o.step \in {"copy", "receipt"} => o.written = FALSE
    /\ Written(o) => o.action \in Deleting
    /\ o.undo = TRUE /\ o.step \in Erasing \cup {"unbundle"} => o.action \in Bringing

Evidence(o) ==
    /\ Receipted(o) => o.written = TRUE /\ o.receipt \in Settled
    /\ o.undo = TRUE /\ o.written = TRUE /\ ~Receipted(o) => o.receipt \notin receipts
    /\ Chains(o.before, IF o.written = TRUE THEN Settled \ {o.receipt} ELSE Settled)

Bundles(o) ==
    /\ \A p \in DOMAIN o.before :
          \/ bundles[o.before[p].source] # "none"
          \/ Forward(o) /\ o.step \in Wiping /\ o.before[p].source = Replaced(o)
    /\ o.action \in Bringing /\ (o.step \in Locking \cup {"receipt"} \/ Written(o)) =>
          bundles[o.source] # "none"
    /\ o.step \in Wiping => bundles[Erases(o)] # "whole"

FilesOK ==
    /\ bundles \in [Sources -> Lying]
    /\ torn \subseteq receipts
    /\ left \subseteq [source : Sources, tree : Trees \ {"none"}]

HeldOK ==
    /\ held \in [Clients -> Trees]
    /\ \A c \in Clients : held[c] # "none" => op[c].step \in Wiping

CountsOK ==
    counts \in [ops : 0..MaxOps, faults : 0..MaxFaults,
                crashes : 0..MaxCrashes, edits : 0..MaxEdits]

LockOK == Sourced(lock) /\ Chains(lock, Settled) /\ Present(lock)

Alone == \A c, d \in Clients : op[c] # Idle /\ op[d] # Idle => c = d

OpOK(o) ==
    Started(o) /\ Extends(o) /\ Disjoint(o) /\ Locked(o) /\ Way(o) /\ Evidence(o) /\ Bundles(o)

OpsOK == Alone /\ \A c \in Clients : op[c] # Idle => OpOK(op[c])

Inv == IInv /\ FilesOK /\ HeldOK /\ CountsOK /\ LockOK /\ OpsOK

LEMMA ChainsGrow ==
    ASSUME NEW l, NEW rs, Chains(l, rs), NEW rt, rs \subseteq rt PROVE Chains(l, rt)
  BY SeqMonotonic DEF Chains

\* A chain without a receipt is a chain over the others.
LEMMA Locks ==
    ASSUME NEW o, Extends(o), NEW rs, Chains(o.before, rs), o.receipt \in rs
    PROVE  Chains(o.after, rs)
<1> SUFFICES ASSUME NEW p \in DOMAIN o.after PROVE o.after[p].receipts \in Seq(rs)
  BY DEF Chains
<1>1. Append(<<>>, o.receipt) \in Seq(rs)
  OBVIOUS
<1>2. ASSUME p \in DOMAIN o.before
      PROVE  /\ o.before[p].receipts \in Seq(rs)
             /\ Append(o.before[p].receipts, o.receipt) \in Seq(rs)
  BY <1>2 DEF Chains
<1> QED BY <1>1, <1>2 DEF Extends

\* An operation that goes on: its step, and whether it undoes or wrote.
Moved(c, s, u, w) ==
    /\ DOMAIN op' = Clients
    /\ \A d \in Clients \ {c} : op'[d] = op[d]
    /\ DOMAIN op'[c] = Fields
    /\ op'[c].step = s /\ op'[c].undo = u /\ op'[c].written = w
    /\ op'[c].action = op[c].action /\ op'[c].source = op[c].source
    /\ op'[c].before = op[c].before /\ op'[c].after = op[c].after
    /\ op'[c].receipt = op[c].receipt

LEMMA MovedTo ==
    ASSUME IInv, OpsOK, NEW c \in Clients, op[c] # Idle,
           NEW s \in Steps, NEW u \in BOOLEAN, NEW w \in BOOLEAN, Moved(c, s, u, w)
    PROVE  /\ Started(op'[c]) /\ Extends(op'[c]) /\ Disjoint(op'[c])
           /\ op'[c] # Idle
<1>1. Started(op[c]) /\ Extends(op[c]) /\ Disjoint(op[c])
  BY DEF OpsOK, OpOK
<1>2. Started(op'[c])
  BY <1>1 DEF Started, Moved
<1>3. Extends(op'[c]) /\ Disjoint(op'[c])
  <2>1. /\ op'[c].action = op[c].action /\ op'[c].source = op[c].source
        /\ op'[c].before = op[c].before /\ op'[c].after = op[c].after
        /\ op'[c].receipt = op[c].receipt
    BY DEF Moved
  <2>2. Extends(op'[c])
    BY <1>1, <2>1 DEF Extends
  <2>3. Disjoint(op'[c])
    BY <1>1, <2>1 DEF Disjoint, Replaced
  <2> QED BY <2>2, <2>3
<1>4. op'[c] # Idle
  BY DEF Idle, Steps, Moved
<1> QED BY <1>2, <1>3, <1>4

\* The others are idle, so it is enough to look at the one that goes on.
LEMMA GoesOn ==
    ASSUME IInv, OpsOK, NEW c \in Clients, op[c] # Idle,
           NEW s \in Steps, NEW u \in BOOLEAN, NEW w \in BOOLEAN, Moved(c, s, u, w),
           Locked(op[c])', Way(op[c])', Evidence(op[c])', Bundles(op[c])'
    PROVE  OpsOK'
<1>1. /\ Started(op'[c]) /\ Extends(op'[c]) /\ Disjoint(op'[c])
      /\ \A d \in Clients \ {c} : op'[d] = op[d]
  BY MovedTo DEF Moved
<1>2. \A d \in Clients \ {c} : op[d] = Idle
  BY DEF OpsOK, Alone
<1>3. OpOK(op[c])'
  BY <1>1 DEF OpOK, Started, Extends, Disjoint, Replaced, Sourced
<1> QED BY <1>1, <1>2, <1>3 DEF OpsOK, Alone

LEMMA Ends ==
    ASSUME IInv, OpsOK, NEW c \in Clients, op[c] # Idle, End(c)
    PROVE  /\ OpsOK' /\ op'[c] = Idle
           /\ \A d \in Clients \ {c} : op'[d] = op[d]
  BY DEF IInv, OpsOK, Alone, End

LEMMA Goes ==
    ASSUME IInv, OpsOK, NEW c \in Clients, op[c] # Idle, NEW s, Go(c, s)
    PROVE  Moved(c, s, op[c].undo, op[c].written)
<1>1. DOMAIN op = Clients /\ DOMAIN op[c] = Fields
  BY DEF IInv, OpsOK, OpOK, Started
<1> QED BY <1>1 DEF Go, Moved, Fields

LEMMA Undoes ==
    ASSUME IInv, OpsOK, NEW c \in Clients, op[c] # Idle, NEW s, Undo(c, s)
    PROVE  \/ s = "unbundle" /\ op[c].action \notin Bringing /\ End(c)
           \/ /\ s = "unbundle" => op[c].action \in Bringing
              /\ Moved(c, s, TRUE, op[c].written)
<1>1. CASE s = "unbundle" /\ ~Brings(c)
  BY <1>1 DEF Undo, Brings, Bringing
<1>2. CASE ~(s = "unbundle" /\ ~Brings(c))
  <2>1. DOMAIN op = Clients /\ DOMAIN op[c] = Fields
    BY DEF IInv, OpsOK, OpOK, Started
  <2>2. Moved(c, s, TRUE, op[c].written)
    BY <1>2, <2>1 DEF Undo, Moved, Fields
  <2> QED BY <1>2, <2>2 DEF Brings, Bringing
<1> QED BY <1>1, <1>2

Kept == FilesOK /\ HeldOK /\ LockOK /\ OpsOK

LEMMA Busy ==
    ASSUME Inv, NEW c \in Clients, op[c] # Idle
    PROVE  /\ OpOK(op[c]) /\ IInv /\ OpsOK /\ Started(op[c])
           /\ op[c].undo \in BOOLEAN /\ op[c].written \in BOOLEAN
           /\ op[c].source \in Sources
  BY DEF Inv, OpsOK, OpOK, Started

\* A tree in quarantine is the one of the client that deletes.
LEMMA HeldStays ==
    ASSUME Inv, NEW c \in Clients, held' = held, \A d \in Clients \ {c} : op'[d] = op[d],
           held[c] = "none" \/ op'[c].step \in Wiping
    PROVE  HeldOK'
  BY DEF Inv, HeldOK

LEMMA EndKeeps ==
    ASSUME Inv, NEW c \in Clients, op[c] # Idle, End(c), held' = held, op[c].step \notin Wiping,
           FilesOK', LockOK'
    PROVE  Kept'
<1>1. OpsOK' /\ \A d \in Clients \ {c} : op'[d] = op[d]
  BY Busy, Ends
<1>2. HeldOK'
  BY <1>1, HeldStays DEF Inv, HeldOK
<1> QED BY <1>1, <1>2 DEF Kept

LEMMA SameFiles ==
    ASSUME Inv, UNCHANGED <<lock, bundles, receipts, torn, left>>
    PROVE  FilesOK' /\ LockOK'
  BY DEF Inv, FilesOK, LockOK, Settled, Present, Chains, Sourced

LEMMA CopyStep ==
    ASSUME Inv, NEW c \in Clients, Copy(c) PROVE Kept'
<1>1. op[c] # Idle /\ op[c].step = "copy"
  BY DEF Copy, Idle
<1>2. CASE bundles[op[c].source] # "none"
  <2>1. End(c) /\ UNCHANGED <<lock, bundles, receipts, torn, left>> /\ held' = held
    BY <1>2 DEF Copy
  <2> QED BY <1>1, <2>1, SameFiles, EndKeeps DEF Wiping
<1>3. CASE bundles[op[c].source] = "none"
  <2>1. Moved(c, "receipt", op[c].undo, op[c].written)
    BY <1>1, <1>3, Busy, Goes DEF Copy
  <2>2. /\ bundles' = [bundles EXCEPT ![op[c].source] = "whole"]
        /\ UNCHANGED <<lock, receipts, torn, left>> /\ held' = held
    BY <1>3 DEF Copy
  <2>3. FilesOK'
    BY <1>1, <2>2, Busy DEF Inv, FilesOK, Trees, Lying
  <2>4. LockOK'
    BY <2>2 DEF Inv, LockOK, Settled, Present, FilesOK, Sourced, Chains
  <2>5. HeldOK'
    BY <1>1, <2>1, <2>2, HeldStays DEF Moved, Inv, HeldOK, Wiping
  <2>6. Locked(op[c])'
    BY <1>1, <2>1, <2>2, Busy DEF Moved, OpOK, Locked, Written, Forward, Erasing,
        Wiping, Locking, Unlocking
  <2>7. Way(op[c])'
    BY <1>1, <2>1, <2>2, Busy DEF Moved, OpOK, Way, Written, Forward, Erasing, Wiping,
        Locking, Unlocking
  <2>8. Evidence(op[c])'
    BY <1>1, <2>1, <2>2, Busy
    DEF Moved, OpOK, Evidence, Way, Receipted, Written, Forward, Erasing, Wiping,
        Locking, Unlocking, Settled, Chains
  <2>9. Bundles(op[c])'
    BY <1>1, <2>1, <2>2, Busy, ZenonT(60)
    DEF Moved, OpOK, Bundles, Written, Forward, Erasing, Wiping, Locking, Unlocking,
        Inv, FilesOK, Started, Sourced
  <2> QED BY <1>1, <2>1, <2>3, <2>4, <2>5, <2>6, <2>7, <2>8, <2>9, Busy, GoesOn
          DEF Kept, Steps
<1> QED BY <1>2, <1>3

\* An operation that goes on without touching bundles, lock and quarantine.
LEMMA NoFileMoves ==
    ASSUME Inv, NEW c \in Clients, op[c] # Idle, op[c].step \notin Wiping,
           NEW s \in Steps, NEW u \in BOOLEAN, NEW w \in BOOLEAN, Moved(c, s, u, w),
           UNCHANGED <<bundles, held, left>>, lock' = lock, torn' \subseteq receipts',
           Settled \subseteq Settled',
           Locked(op[c])', Way(op[c])', Evidence(op[c])', Bundles(op[c])'
    PROVE  Kept'
<1>1. FilesOK'
  BY DEF Inv, FilesOK
<1>2. LockOK'
  <2>1. Chains(lock, Settled')
    BY ChainsGrow DEF Inv, LockOK
  <2> QED BY <2>1 DEF Inv, LockOK, Present, Sourced, Chains
<1>3. HeldOK'
  BY HeldStays DEF Moved, Inv, HeldOK
<1>4. OpsOK'
  BY Busy, GoesOn
<1> QED BY <1>1, <1>2, <1>3, <1>4 DEF Kept

LEMMA WriteReceiptStep ==
    ASSUME Inv, NEW c \in Clients, WriteReceipt(c) PROVE Kept'
<1>1. /\ op[c] # Idle /\ op[c].step = "receipt"
      /\ UNCHANGED <<lock, bundles, torn, left>> /\ held' = held
  BY DEF WriteReceipt, Idle
<1>2. CASE op[c].receipt \in receipts
  <2>1. Undo(c, "unbundle") /\ receipts' = receipts
    BY <1>2 DEF WriteReceipt
  <2>2. CASE End(c)
    BY <1>1, <2>1, <2>2, SameFiles, EndKeeps DEF Wiping
  <2>3. CASE op[c].action \in Bringing /\ Moved(c, "unbundle", TRUE, op[c].written)
    <3>1. Locked(op[c])' /\ Way(op[c])'
      BY <1>1, <2>1, <2>3, Busy DEF Moved, OpOK, Locked, Way, Written, Forward, Erasing,
          Wiping, Locking, Unlocking
    <3>2. Evidence(op[c])'
      BY <1>1, <2>1, <2>3, Busy
      DEF Moved, OpOK, Evidence, Way, Receipted, Written, Forward, Erasing, Wiping,
          Locking, Unlocking, Settled, Chains
    <3>3. Bundles(op[c])'
      BY <1>1, <2>1, <2>3, Busy, ZenonT(60)
      DEF Moved, OpOK, Bundles, Written, Forward, Erasing, Wiping, Locking, Unlocking
    <3> QED BY <1>1, <2>1, <2>3, <3>1, <3>2, <3>3, Busy, NoFileMoves
            DEF Steps, Wiping, Inv, FilesOK, Settled
  <2> QED BY <1>1, <2>1, <2>2, <2>3, Busy, Undoes
<1>3. CASE op[c].receipt \notin receipts
  <2>1. /\ op' = [op EXCEPT ![c].step = "compare", ![c].written = TRUE]
        /\ receipts' = receipts \cup {op[c].receipt}
    BY <1>3 DEF WriteReceipt
  <2>2. Moved(c, "compare", op[c].undo, TRUE)
    <3>1. DOMAIN op = Clients /\ DOMAIN op[c] = Fields
      BY <1>1, Busy DEF IInv, Started
    <3> QED BY <2>1, <3>1 DEF Moved, Fields
  <2>3. op[c].receipt \notin torn /\ Settled' = Settled \cup {op[c].receipt}
        /\ op[c].receipt \notin Settled
    BY <1>1, <1>3, <2>1 DEF Inv, FilesOK, Settled
  <2>4. Locked(op[c])' /\ Way(op[c])'
    BY <1>1, <2>2, Busy DEF Moved, OpOK, Locked, Way, Written, Forward, Erasing, Wiping,
        Locking, Unlocking
  <2>5. Evidence(op[c])'
    <3>1. Chains(op[c].before, Settled)
      BY <1>1, Busy DEF OpOK, Evidence, Way
    <3>2. (Settled \ {op[c].receipt})' = Settled
      BY <2>2, <2>3 DEF Moved
    <3>3. Chains(op[c].before, Settled \ {op[c].receipt})'
      BY <2>2, <3>1, <3>2 DEF Chains, Moved
    <3>4. op'[c].receipt \in Settled'
      BY <2>2, <2>3 DEF Moved
    <3> QED BY <2>2, <3>3, <3>4 DEF Moved, Evidence, Receipted, Written, Forward,
        Erasing, Wiping, Locking, Unlocking
  <2>6. Bundles(op[c])'
    BY <1>1, <2>2, Busy, ZenonT(60) DEF Moved, OpOK, Bundles, Written, Forward, Erasing,
        Wiping, Locking, Unlocking
  <2>7. torn' \subseteq receipts'
    BY <1>1, <2>1 DEF Inv, FilesOK
  <2> QED BY <1>1, <2>2, <2>3, <2>4, <2>5, <2>6, <2>7, Busy, NoFileMoves DEF Steps, Wiping
<1> QED BY <1>2, <1>3

LEMMA ReceiptFailsStep ==
    ASSUME Inv, NEW c \in Clients, ReceiptFails(c) PROVE Kept'
<1>1. /\ op[c] # Idle /\ op[c].step = "receipt" /\ op[c].receipt \notin receipts
      /\ UNCHANGED <<lock, bundles, left>> /\ held' = held
      /\ Undo(c, "unbundle")
      /\ receipts' = receipts \cup {op[c].receipt} /\ torn' = torn \cup {op[c].receipt}
  BY DEF ReceiptFails, Idle
<1>2. Settled' = Settled /\ torn' \subseteq receipts'
  BY <1>1 DEF Inv, FilesOK, Settled
<1>3. CASE End(c)
  <2>1. FilesOK' /\ LockOK'
    BY <1>1, <1>2 DEF Inv, FilesOK, LockOK, Present, Chains, Sourced
  <2> QED BY <1>1, <1>3, <2>1, EndKeeps DEF Wiping
<1>4. CASE op[c].action \in Bringing /\ Moved(c, "unbundle", TRUE, op[c].written)
  <2>1. Locked(op[c])' /\ Way(op[c])'
    BY <1>1, <1>4, Busy DEF Moved, OpOK, Locked, Way, Written, Forward, Erasing, Wiping,
        Locking, Unlocking
  <2>2. Evidence(op[c])'
    BY <1>1, <1>2, <1>4, Busy
    DEF Moved, OpOK, Evidence, Way, Receipted, Written, Forward, Erasing, Wiping,
        Locking, Unlocking, Chains
  <2>3. Bundles(op[c])'
    BY <1>1, <1>4, Busy, ZenonT(60) DEF Moved, OpOK, Bundles, Written, Forward, Erasing,
        Wiping, Locking, Unlocking
  <2> QED BY <1>1, <1>2, <1>4, <2>1, <2>2, <2>3, Busy, NoFileMoves DEF Steps, Wiping
<1> QED BY <1>1, <1>3, <1>4, Busy, Undoes

\* The lock that an operation writes names what is there.
LEMMA AfterBacked ==
    ASSUME Inv, NEW c \in Clients, op[c] # Idle, op[c].step \in Locking
    PROVE  /\ Sourced(op[c].after) /\ Chains(op[c].after, Settled) /\ Present(op[c].after)
           /\ Present(op[c].before)
<1>1. OpOK(op[c])
  BY Busy
<1>2. op[c].receipt \in Settled /\ Chains(op[c].before, Settled \ {op[c].receipt})
  BY <1>1 DEF OpOK, Evidence, Receipted
<1>3. Chains(op[c].after, Settled)
  <2>1. Chains(op[c].before, Settled)
    BY <1>2, ChainsGrow
  <2> QED BY <1>1, <1>2, <2>1, Locks DEF OpOK
<1>4. \A p \in DOMAIN op[c].before : bundles[op[c].before[p].source] # "none"
  BY <1>1 DEF OpOK, Bundles, Forward, Erasing, Wiping, Locking
<1>5. op[c].action \in Bringing => bundles[op[c].source] # "none"
  BY <1>1 DEF OpOK, Bundles
<1>6. Present(op[c].after)
  BY <1>1, <1>4, <1>5 DEF OpOK, Extends, Present
<1> QED BY <1>1, <1>3, <1>4, <1>6 DEF OpOK, Started, Present

LEMMA WriteLockStep ==
    ASSUME Inv, NEW c \in Clients, WriteLock(c) PROVE Kept'
<1>1. /\ op[c] # Idle /\ op[c].step = "replace" /\ lock' = op[c].after
      /\ UNCHANGED <<bundles, receipts, torn, left>> /\ held' = held
  BY DEF WriteLock, Idle
<1>2. FilesOK' /\ LockOK'
  <2>1. /\ Sourced(lock') /\ Chains(lock', Settled) /\ Present(lock')
    BY <1>1, AfterBacked DEF Locking
  <2> QED BY <1>1, <2>1 DEF Inv, FilesOK, LockOK, Sourced, Chains, Present, Settled
<1>3. CASE op[c].action \in {"install", "disable"}
  BY <1>1, <1>2, <1>3, EndKeeps DEF WriteLock, Wiping
<1>4. CASE op[c].action \notin {"install", "disable"}
  <2>1. Moved(c, "match", op[c].undo, op[c].written)
    BY <1>1, <1>4, Busy, Goes DEF WriteLock
  <2>2. op[c].action \in Deleting /\ op[c].undo = FALSE
    BY <1>1, <1>4, Busy DEF OpOK, Started, Deleting, Way, Locking
  <2>3. Locked(op[c])' /\ Way(op[c])'
    BY <1>1, <2>1, <2>2 DEF Moved, Locked, Way, Written, Forward, Erasing, Wiping,
        Locking, Unlocking
  <2>4. Evidence(op[c])'
    BY <1>1, <2>1, <2>2, Busy
    DEF Moved, OpOK, Evidence, Receipted, Written, Forward, Erasing, Wiping, Locking,
        Unlocking, Settled, Chains
  <2>5. Bundles(op[c])'
    BY <1>1, <2>1, <2>2, Busy DEF Moved, OpOK, Bundles, Written, Forward, Erasing,
        Wiping, Locking, Unlocking
  <2>6. HeldOK'
    BY <1>1, <2>1, HeldStays DEF Moved, Inv, HeldOK, Wiping
  <2>7. OpsOK'
    BY <1>1, <2>1, <2>3, <2>4, <2>5, Busy, GoesOn DEF Steps
  <2> QED BY <1>2, <2>6, <2>7 DEF Kept
<1> QED BY <1>3, <1>4

LEMMA LockFailsStep ==
    ASSUME Inv, NEW c \in Clients, LockFails(c) PROVE Kept'
<1>1. /\ op[c] # Idle /\ op[c].step \in Locking /\ Undo(c, "unreceipt")
      /\ UNCHANGED <<lock, bundles, receipts, torn, left>> /\ held' = held
  BY DEF LockFails, Locking, Idle
<1>2. Moved(c, "unreceipt", TRUE, op[c].written)
  BY <1>1, Busy, Undoes
<1>3. Locked(op[c])' /\ Way(op[c])'
  BY <1>1, <1>2, Busy DEF Moved, OpOK, Locked, Way, Written, Forward, Erasing, Wiping,
      Locking, Unlocking
<1>4. Evidence(op[c])'
  BY <1>1, <1>2, Busy
  DEF Moved, OpOK, Evidence, Receipted, Written, Forward, Erasing, Wiping, Locking,
      Unlocking, Settled, Chains
<1>5. Bundles(op[c])'
  BY <1>1, <1>2, Busy, ZenonT(60) DEF Moved, OpOK, Bundles, Written, Forward, Erasing,
      Wiping, Locking, Unlocking
<1> QED BY <1>1, <1>2, <1>3, <1>4, <1>5, Busy, NoFileMoves
DEF Steps, Wiping, Locking, Inv, FilesOK, Settled

\* Steps of one phase differ in nothing that tells what lies where.
Other == {"copy", "receipt", "unreceipt", "unbundle"}
Phases == {Locking, Unlocking, Wiping, {"match", "move"}}

LEMMA SamePhase ==
    ASSUME Inv, NEW c \in Clients, op[c] # Idle, NEW s, Go(c, s),
           NEW phase \in Phases, op[c].step \in phase, s \in phase,
           UNCHANGED <<lock, bundles, receipts, torn, left>>
    PROVE  /\ FilesOK' /\ LockOK' /\ OpsOK'
           /\ Moved(c, s, op[c].undo, op[c].written)
<1> DEFINE o == op[c]  n == op'[c]
<1>1. OpOK(o) /\ IInv /\ OpsOK /\ o.undo \in BOOLEAN /\ o.written \in BOOLEAN
  BY Busy
<1>2. s \in Steps
  BY DEF Phases, Locking, Unlocking, Wiping, Steps
<1>3. Moved(c, s, o.undo, o.written)
  BY <1>1, Goes
<1>4. /\ n.step = s /\ n.undo = o.undo /\ n.written = o.written
      /\ n.action = o.action /\ n.source = o.source /\ n.before = o.before
      /\ n.after = o.after /\ n.receipt = o.receipt
  BY <1>3 DEF Moved
<1>5. /\ s \in Erasing <=> o.step \in Erasing
      /\ s \in Wiping <=> o.step \in Wiping
      /\ s \in Locking <=> o.step \in Locking
      /\ s \in Unlocking <=> o.step \in Unlocking
      /\ s \notin Other /\ o.step \notin Other
  BY DEF Phases, Locking, Unlocking, Wiping, Erasing, Other
<1>6. /\ Forward(n) <=> Forward(o)
      /\ Written(n) <=> Written(o)
      /\ Receipted(n) <=> Receipted(o)
  BY <1>4, <1>5 DEF Forward, Written, Receipted, Other
<1>7. Locked(op[c])'
  BY <1>1, <1>4, <1>6 DEF OpOK, Locked
<1>8. Way(op[c])'
  BY <1>1, <1>4, <1>5, <1>6 DEF OpOK, Way, Erasing, Locking, Unlocking, Other
<1>9. Evidence(op[c])'
  BY <1>1, <1>4, <1>6 DEF OpOK, Evidence, Settled, Chains, Receipted
<1>10. Bundles(op[c])'
  BY <1>1, <1>4, <1>5, <1>6 DEF OpOK, Bundles, Replaced, Erases, Locking, Other
<1>11. OpsOK'
  BY <1>1, <1>2, <1>3, <1>7, <1>8, <1>9, <1>10, GoesOn
<1> QED BY <1>3, <1>11, SameFiles

LEMMA CompareLockStep ==
    ASSUME Inv, NEW c \in Clients, CompareLock(c) PROVE Kept'
<1>1. /\ op[c] # Idle /\ UNCHANGED <<lock, bundles, receipts, torn, left>> /\ held' = held
      /\ op[c].step \in {"compare", "recompare"}
  BY DEF CompareLock, Idle
<1>2. ASSUME NEW s \in {"replace", "putback"}, Go(c, s),
             NEW phase \in {Locking, Unlocking}, op[c].step \in phase, s \in phase
      PROVE  Kept'
  <2>1. FilesOK' /\ LockOK' /\ OpsOK' /\ Moved(c, s, op[c].undo, op[c].written)
    BY <1>1, <1>2, SamePhase DEF Phases
  <2>2. HeldOK'
    BY <1>1, <2>1, HeldStays DEF Moved, Inv, HeldOK, Wiping
  <2> QED BY <2>1, <2>2 DEF Kept
<1>3. CASE op[c].step = "compare"
  BY <1>2, <1>3 DEF CompareLock, Locking
<1>4. CASE op[c].step = "recompare"
  BY <1>2, <1>4 DEF CompareLock, Unlocking
<1> QED BY <1>1, <1>3, <1>4

\* The bundle that is deleted is a source that the lock does not name.
LEMMA Deleted ==
    ASSUME Inv, NEW c \in Clients, op[c].step \in Erasing
    PROVE  /\ op[c] # Idle
           /\ Target(c) = Erases(op[c]) /\ Target(c) \in Sources
           /\ \A p \in DOMAIN lock : lock[p].source # Target(c)
           /\ op[c].undo = FALSE => Forward(op[c])
           /\ op[c].undo = TRUE => op[c].action \in Bringing
<1>1. op[c] # Idle
  BY DEF Erasing, Idle
<1>2. OpOK(op[c]) /\ op[c].undo \in BOOLEAN
  BY <1>1, Busy
<1>3. CASE op[c].undo = TRUE
  <2>1. Target(c) = op[c].source /\ Erases(op[c]) = op[c].source
    BY <1>3 DEF Target, Erases
  <2>2. op[c].action \in Bringing /\ op[c].source \in Sources
    BY <1>2, <1>3 DEF OpOK, Way, Started
  <2>3. lock \in {EmptyLock, op[c].before}
    BY <1>2, <1>3 DEF OpOK, Locked, Written, Forward, Erasing, Wiping, Locking, Unlocking
  <2> QED BY <1>1, <1>2, <1>3, <2>1, <2>2, <2>3 DEF OpOK, Disjoint, EmptyLock
<1>4. CASE op[c].undo = FALSE
  <2>1. Target(c) = Replaced(op[c]) /\ Erases(op[c]) = Replaced(op[c])
    BY <1>4 DEF Target, Erases, Old, Replaced
  <2>2. Forward(op[c]) /\ Written(op[c])
    BY <1>4 DEF Forward, Written
  <2>3. op[c].action \in Deleting
    BY <1>2, <2>2 DEF OpOK, Way
  <2>4. Replaced(op[c]) \in Sources
    BY <1>2, <2>3 DEF OpOK, Disjoint, Replaced, Started, Sourced
  <2>5. lock \in {EmptyLock, op[c].after}
    BY <1>2, <2>2 DEF OpOK, Locked
  <2> QED BY <1>1, <1>2, <1>4, <2>1, <2>2, <2>3, <2>4, <2>5 DEF OpOK, Disjoint, EmptyLock
<1> QED BY <1>2, <1>3, <1>4

\* A deletion that fails ends the operation, or puts the lock back: the bundle
\* is whole under its name.
LEMMA FailedKeeps ==
    ASSUME Inv, NEW c \in Clients, op[c].step \in Erasing, NEW tree,
           Failed(c, tree), UNCHANGED <<lock, receipts, torn>>,
           FilesOK', HeldOK', LockOK', bundles'[Target(c)] = tree,
           \A s \in Sources \ {Target(c)} : bundles'[s] = bundles[s]
    PROVE  Kept'
<1>1. /\ op[c] # Idle /\ OpOK(op[c]) /\ IInv /\ OpsOK
      /\ op[c].undo \in BOOLEAN /\ op[c].written \in BOOLEAN
  BY Deleted, Busy
<1>2. CASE End(c)
  BY <1>1, <1>2, Ends DEF Kept
<1>3. CASE op[c].undo = FALSE /\ tree = "whole" /\ Undo(c, "unlock")
  <2>1. Moved(c, "unlock", TRUE, op[c].written)
    BY <1>1, <1>3, Undoes
  <2>2. Forward(op[c]) /\ Written(op[c]) /\ Receipted(op[c])
    BY <1>3, Deleted DEF Written, Receipted
  <2>3. Locked(op[c])'
    BY <1>1, <2>1, <2>2 DEF Moved, OpOK, Locked, Written, Unlocking
  <2>4. Way(op[c])'
    BY <1>1, <2>1, <2>2 DEF Moved, OpOK, Way, Written, Forward, Erasing, Wiping,
        Locking, Unlocking
  <2>5. Evidence(op[c])'
    BY <1>1, <2>1, <2>2 DEF Moved, OpOK, Evidence, Receipted, Written, Unlocking,
        Settled, Chains
  <2>6. Bundles(op[c])'
    <3>1. Target(c) = Replaced(op[c]) /\ bundles'[Replaced(op[c])] = "whole"
      BY <1>3, Deleted DEF Erases
    <3>2. ASSUME NEW p \in DOMAIN op[c].before
          PROVE  bundles'[op[c].before[p].source] # "none"
      <4>1. op[c].before[p].source \in Sources
        BY <1>1 DEF OpOK, Started, Sourced
      <4> QED BY <1>1, <3>1, <4>1 DEF OpOK, Bundles
    <3>3. op[c].action \in Bringing => bundles'[op[c].source] # "none"
      BY <1>1, <2>2, <3>1 DEF OpOK, Bundles, Started
    <3> QED BY <2>1, <3>2, <3>3 DEF Moved, Bundles, Forward, Erasing, Wiping, Unlocking
  <2>7. OpsOK'
    BY <1>1, <2>1, <2>3, <2>4, <2>5, <2>6, GoesOn DEF Steps
  <2> QED BY <2>7 DEF Kept
<1> QED BY <1>1, <1>2, <1>3 DEF Failed

LEMMA NotHeld ==
    ASSUME Inv, NEW c \in Clients, op[c] # Idle, op[c].step \notin Wiping,
           End(c) \/ (\E s : Undo(c, s) \/ Go(c, s)), held' = held
    PROVE  HeldOK'
<1>1. \A d \in Clients \ {c} : op'[d] = op[d]
  BY Busy, Ends, Undoes, Goes DEF Moved
<1> QED BY <1>1, HeldStays DEF Inv, HeldOK

LEMMA MatchStep ==
    ASSUME Inv, NEW c \in Clients, Match(c) PROVE Kept'
<1>1. /\ op[c] # Idle /\ op[c].step = "match"
      /\ UNCHANGED <<lock, bundles, receipts, torn, left>> /\ held' = held
  BY DEF Match, Idle
<1>2. CASE Movable(bundles[Target(c)])
  <2>1. FilesOK' /\ LockOK' /\ OpsOK' /\ Moved(c, "move", op[c].undo, op[c].written)
    BY <1>1, <1>2, SamePhase DEF Match, Phases
  <2>2. HeldOK'
    BY <1>1, <2>1, HeldStays DEF Moved, Inv, HeldOK, Wiping
  <2> QED BY <2>1, <2>2 DEF Kept
<1>3. CASE ~Movable(bundles[Target(c)])
  <2>1. Failed(c, bundles[Target(c)])
    BY <1>3 DEF Match
  <2>2. FilesOK' /\ LockOK'
    BY <1>1, SameFiles
  <2>3. HeldOK'
    BY <1>1, <2>1, NotHeld DEF Failed, Wiping
  <2> QED BY <1>1, <2>1, <2>2, <2>3, FailedKeeps DEF Erasing
<1> QED BY <1>2, <1>3

LEMMA MoveStep ==
    ASSUME Inv, NEW c \in Clients, Move(c) PROVE Kept'
<1>1. /\ op[c] # Idle /\ op[c].step = "move"
      /\ UNCHANGED <<lock, receipts, torn, left>>
  BY DEF Move, Idle
<1>2. CASE ~Movable(bundles[Target(c)])
  <2>1. Failed(c, bundles[Target(c)]) /\ held' = held /\ bundles' = bundles
    BY <1>2 DEF Move
  <2>2. FilesOK' /\ LockOK'
    BY <1>1, <2>1, SameFiles
  <2>3. HeldOK'
    BY <1>1, <2>1, NotHeld DEF Failed, Wiping
  <2> QED BY <1>1, <2>1, <2>2, <2>3, FailedKeeps DEF Erasing
<1>3. CASE Movable(bundles[Target(c)])
  <2>1. /\ held' = [held EXCEPT ![c] = bundles[Target(c)]]
        /\ bundles' = [bundles EXCEPT ![Target(c)] = "none"]
        /\ Go(c, "wipe")
    BY <1>3 DEF Move
  <2>2. Moved(c, "wipe", op[c].undo, op[c].written)
    BY <1>1, <2>1, Busy, Goes
  <2>3. /\ Target(c) = Erases(op[c]) /\ Target(c) \in Sources
        /\ \A p \in DOMAIN lock : lock[p].source # Target(c)
        /\ op[c].undo = FALSE => Forward(op[c])
    BY <1>1, Deleted DEF Erasing
  <2>4. FilesOK'
    BY <1>1, <2>1, <2>3 DEF Inv, FilesOK, Trees, Lying
  <2>5. LockOK'
    BY <1>1, <2>1, <2>3 DEF Inv, LockOK, FilesOK, Settled, Present, Sourced, Chains
  <2>6. HeldOK'
    BY <1>1, <1>3, <2>1, <2>2 DEF Inv, HeldOK, Movable, Moved, Trees, Lying, Wiping
  <2>7. Locked(op[c])' /\ Way(op[c])'
    BY <1>1, <2>2, Busy DEF Moved, OpOK, Locked, Way, Written, Forward, Erasing, Wiping,
        Locking, Unlocking
  <2>8. Evidence(op[c])'
    BY <1>1, <2>2, Busy
    DEF Moved, OpOK, Evidence, Receipted, Written, Forward, Erasing, Wiping, Locking,
        Unlocking, Settled, Chains
  <2>9. Bundles(op[c])'
    <3>1. ASSUME NEW p \in DOMAIN op[c].before
          PROVE  \/ bundles'[op[c].before[p].source] # "none"
                 \/ op[c].undo = FALSE /\ op[c].before[p].source = Replaced(op[c])
      <4>1. /\ op[c].before[p].source \in Sources
            /\ bundles[op[c].before[p].source] # "none"
        BY <1>1, Busy DEF OpOK, Started, Sourced, Bundles, Wiping
      <4>2. op[c].undo = TRUE => op[c].before[p].source # Erases(op[c])
        BY <1>1, Busy, Deleted DEF OpOK, Disjoint, Erases, Erasing
      <4>3. op[c].undo = FALSE => Erases(op[c]) = Replaced(op[c])
        BY DEF Erases
      <4> QED BY <1>1, <2>1, <2>3, <4>1, <4>2, <4>3, Busy DEF Inv, FilesOK
    <3>2. op[c].action \in Bringing /\ op[c].undo = FALSE => bundles'[op[c].source] # "none"
      <4> SUFFICES ASSUME op[c].action \in Bringing, op[c].undo = FALSE
                   PROVE  bundles'[op[c].source] # "none"
        OBVIOUS
      <4>1. Written(op[c]) /\ bundles[op[c].source] # "none"
        BY <1>1, <2>3, Busy DEF Written, OpOK, Bundles
      <4>2. Target(c) # op[c].source
        <5>1. Target(c) = Replaced(op[c]) /\ op[c].action \in Deleting
          BY <1>1, <2>3, <4>1, Busy DEF Erases, OpOK, Way
        <5> QED BY <1>1, <5>1, Busy DEF OpOK, Disjoint, Replaced
      <4> QED BY <1>1, <2>1, <4>1, <4>2, Busy DEF Inv, FilesOK
    <3>3. bundles'[Erases(op[c])] = "none"
      BY <2>1, <2>3 DEF Inv, FilesOK
    <3>4. Erases(op[c])' = Erases(op[c]) /\ Replaced(op[c])' = Replaced(op[c])
      BY <2>2 DEF Moved, Erases, Replaced
    <3> QED BY <1>1, <2>2, <3>1, <3>2, <3>3, <3>4
            DEF Moved, Bundles, Written, Forward, Erasing, Wiping, Locking, Unlocking
  <2>10. OpsOK'
    BY <1>1, <2>2, <2>7, <2>8, <2>9, Busy, GoesOn DEF Steps
  <2> QED BY <2>4, <2>5, <2>6, <2>10 DEF Kept
<1> QED BY <1>2, <1>3

LEMMA OpsStay ==
    ASSUME OpsOK, UNCHANGED <<op, lock, bundles, receipts, torn>>
    PROVE  OpsOK'
<1> SUFFICES ASSUME NEW c \in Clients, op[c] # Idle PROVE OpOK(op[c])'
  BY DEF OpsOK, Alone
<1>1. OpOK(op[c])
  BY DEF OpsOK
<1>2. Started(op[c])' /\ Extends(op[c])' /\ Disjoint(op[c])'
  BY <1>1 DEF OpOK, Started, Extends, Disjoint, Sourced, Replaced
<1>3. Locked(op[c])' /\ Way(op[c])'
  BY <1>1 DEF OpOK, Locked, Way, Written, Forward
<1>4. Evidence(op[c])'
  BY <1>1 DEF OpOK, Evidence, Settled, Chains, Receipted, Written, Forward
<1>5. Bundles(op[c])'
  BY <1>1 DEF OpOK, Bundles, Written, Forward, Replaced, Erases
<1> QED BY <1>2, <1>3, <1>4, <1>5 DEF OpOK

LEMMA AbandonStep ==
    ASSUME Inv, NEW c \in Clients, op[c].step \in Wiping, held[c] # "none", Abandon(c),
           UNCHANGED <<lock, receipts, torn>>
    PROVE  Kept'
<1> DEFINE back == held[c] = "whole" /\ bundles[Target(c)] = "none"
           there == IF back THEN "whole" ELSE bundles[Target(c)]
<1>1. /\ bundles' = [bundles EXCEPT ![Target(c)] = there]
      /\ left' = IF back THEN left
                 ELSE left \cup {[source |-> Target(c), tree |-> held[c]]}
      /\ held' = [held EXCEPT ![c] = "none"]
      /\ Failed(c, there)
  BY DEF Abandon
<1>2. /\ op[c] # Idle /\ Target(c) \in Sources
      /\ \A p \in DOMAIN lock : lock[p].source # Target(c)
  BY Deleted DEF Erasing, Wiping
<1>3. there \in Lying
  BY <1>2 DEF Inv, FilesOK, Trees, Lying
<1>4. FilesOK'
  <2>1. bundles' \in [Sources -> Lying]
    BY <1>1, <1>2, <1>3 DEF Inv, FilesOK
  <2>2. held[c] \in Trees \ {"none"}
    BY DEF Inv, HeldOK
  <2>3. left' \subseteq [source : Sources, tree : Trees \ {"none"}]
    BY <1>1, <1>2, <2>2 DEF Inv, FilesOK
  <2> QED BY <2>1, <2>3 DEF Inv, FilesOK
<1> HIDE DEF there, back
<1>5. LockOK'
  BY <1>1, <1>2 DEF Inv, LockOK, FilesOK, Settled, Present, Sourced, Chains
<1>6. HeldOK'
  <2>1. \A d \in Clients \ {c} : op'[d] = op[d]
    BY <1>1, <1>2, Busy, Ends, Undoes DEF Failed, Moved
  <2>2. held' \in [Clients -> Trees] /\ held'[c] = "none"
    BY <1>1 DEF Inv, HeldOK, Trees, Lying
  <2>3. \A d \in Clients \ {c} : held'[d] = held[d]
    BY <1>1 DEF Inv, HeldOK
  <2> QED BY <2>1, <2>2, <2>3 DEF Inv, HeldOK
<1>7. bundles'[Target(c)] = there /\ \A s \in Sources \ {Target(c)} : bundles'[s] = bundles[s]
  BY <1>1, <1>2 DEF Inv, FilesOK
<1> QED BY <1>1, <1>4, <1>5, <1>6, <1>7, FailedKeeps DEF Erasing, Wiping

LEMMA WipeStep ==
    ASSUME Inv, NEW c \in Clients, Wipe(c) \/ Unlink(c) \/ WipeFails(c) PROVE Kept'
<1>1. op[c].step \in Wiping /\ op[c] # Idle /\ UNCHANGED <<lock, receipts, torn>>
  BY DEF Wipe, Unlink, WipeFails, Wiping, Idle
<1>2. CASE Abandon(c) /\ held[c] # "none"
  BY <1>1, <1>2, AbandonStep
<1>3. ASSUME UNCHANGED <<bundles, left>>, NEW s \in Wiping, Go(c, s),
             held' = held \/ \E tree \in Trees : held' = [held EXCEPT ![c] = tree]
      PROVE  Kept'
  <2>1. FilesOK' /\ LockOK' /\ OpsOK' /\ Moved(c, s, op[c].undo, op[c].written)
    BY <1>1, <1>3, SamePhase DEF Phases
  <2>2. HeldOK'
    BY <1>3, <2>1 DEF Inv, HeldOK, Moved
  <2> QED BY <2>1, <2>2 DEF Kept
<1>4. \A tree \in Rest(held[c]) : tree \in Trees
  BY DEF Rest, Inv, HeldOK, Trees, Lying
<1>5. CASE Wipe(c) /\ ~Abandon(c)
  BY <1>3, <1>5 DEF Wipe, Wiping
<1>6. CASE Unlink(c)
  BY <1>3, <1>4, <1>6 DEF Unlink, Wiping
<1> QED BY <1>2, <1>5, <1>6 DEF Wipe, WipeFails

LEMMA CloseStep ==
    ASSUME Inv, NEW c \in Clients, Close(c) PROVE Kept'
<1>1. /\ op[c].step = "wipe" /\ held[c] = "none"
      /\ UNCHANGED <<lock, bundles, receipts, torn, left>> /\ held' = held
  BY DEF Close
<1>2. op[c] # Idle
  BY <1>1 DEF Idle
<1>3. FilesOK' /\ LockOK'
  BY <1>1, SameFiles
<1>4. End(c) \/ Failed(c, bundles[Target(c)])
  BY DEF Close
<1>5. HeldOK'
  <2>1. \A d \in Clients \ {c} : op'[d] = op[d]
    BY <1>2, <1>4, Busy, Ends, Undoes DEF Failed, Moved
  <2> QED BY <1>1, <2>1, HeldStays
<1>6. CASE End(c)
  BY <1>2, <1>3, <1>5, <1>6, Busy, Ends DEF Kept
<1>7. CASE Failed(c, bundles[Target(c)])
  BY <1>1, <1>3, <1>5, <1>7, FailedKeeps DEF Erasing
<1> QED BY <1>4, <1>6, <1>7

\* The lock is back, or git's: what it names is there.
LEMMA LockBack ==
    ASSUME Inv, NEW c \in Clients, op[c] # Idle, op[c].step \in Unlocking,
           Undo(c, "unreceipt"), lock' \in {EmptyLock, op[c].before},
           UNCHANGED <<bundles, receipts, torn, held, left>>
    PROVE  Kept'
<1>1. op[c].step \notin Wiping
  BY DEF Unlocking, Wiping
<1>2. Moved(c, "unreceipt", TRUE, op[c].written)
  BY <1>1, Busy, Undoes
<1>3. OpOK(op[c]) /\ Written(op[c]) /\ Receipted(op[c])
  BY <1>1, Busy DEF Written, Receipted
<1>4. Chains(op[c].before, Settled \ {op[c].receipt}) /\ Chains(op[c].before, Settled)
  BY <1>3, ChainsGrow DEF OpOK, Evidence
<1>5. FilesOK' /\ LockOK'
  <2>1. Sourced(op[c].before) /\ Present(op[c].before)
    BY <1>1, <1>3 DEF OpOK, Started, Bundles, Present, Forward, Erasing, Unlocking
  <2>2. Sourced(EmptyLock) /\ Present(EmptyLock) /\ Chains(EmptyLock, Settled)
    BY DEF Sourced, Present, Chains, EmptyLock
  <2>3. Sourced(lock') /\ Present(lock') /\ Chains(lock', Settled)
    BY <1>4, <2>1, <2>2
  <2> QED BY <1>1, <2>3 DEF Inv, FilesOK, LockOK, Sourced, Chains, Present, Settled
<1>6. HeldOK'
  BY <1>1, NotHeld
<1>7. Locked(op[c])' /\ Way(op[c])'
  BY <1>2 DEF Moved, Locked, Way, Written, Forward, Erasing, Wiping, Locking, Unlocking
<1>8. Evidence(op[c])'
  BY <1>1, <1>2, <1>3
  DEF Moved, OpOK, Evidence, Receipted, Written, Forward, Erasing, Wiping, Locking,
      Unlocking, Settled, Chains
<1>9. Bundles(op[c])'
  BY <1>1, <1>2, <1>3 DEF Moved, OpOK, Bundles, Written, Forward, Erasing, Wiping,
      Locking, Unlocking
<1>10. OpsOK'
  BY <1>1, <1>2, <1>7, <1>8, <1>9, Busy, GoesOn DEF Steps
<1> QED BY <1>5, <1>6, <1>10 DEF Kept

LEMMA UnlockStep ==
    ASSUME Inv, NEW c \in Clients, Unlock(c) PROVE Kept'
<1>1. /\ op[c] # Idle /\ op[c].step = "unlock"
      /\ UNCHANGED <<lock, bundles, receipts, torn, left>> /\ held' = held
  BY DEF Unlock, Idle
<1>2. CASE lock = op[c].after
  <2>1. FilesOK' /\ LockOK' /\ OpsOK' /\ Moved(c, "recompare", op[c].undo, op[c].written)
    BY <1>1, <1>2, SamePhase DEF Unlock, Phases, Unlocking
  <2>2. HeldOK'
    BY <1>1, <2>1, HeldStays DEF Moved, Inv, HeldOK, Wiping
  <2> QED BY <2>1, <2>2 DEF Kept
<1>3. CASE lock # op[c].after
  <2>1. Undo(c, "unreceipt") /\ lock \in {EmptyLock, op[c].before}
    BY <1>1, <1>3, Busy DEF Unlock, OpOK, Locked, Written, Unlocking
  <2> QED BY <1>1, <2>1, LockBack DEF Unlocking
<1> QED BY <1>2, <1>3

LEMMA PutBackStep ==
    ASSUME Inv, NEW c \in Clients, PutBack(c) PROVE Kept'
  BY LockBack DEF PutBack, Unlocking, Idle

\* The receipt of the operation is in no chain that the lock has by now.
LEMMA UnreceiptStep ==
    ASSUME Inv, NEW c \in Clients, Unreceipt(c) PROVE Kept'
<1>1. /\ op[c] # Idle /\ op[c].step = "unreceipt" /\ Undo(c, "unbundle")
      /\ receipts' = receipts \ {op[c].receipt}
      /\ UNCHANGED <<lock, bundles, torn, left>> /\ held' = held
  BY DEF Unreceipt, Idle
<1>2. OpOK(op[c]) /\ Receipted(op[c]) /\ op[c].undo = TRUE
  BY <1>1, Busy DEF Receipted, OpOK, Way
<1>3. op[c].written = TRUE /\ op[c].receipt \in Settled
  BY <1>2 DEF OpOK, Evidence
<1>4. Settled' = Settled \ {op[c].receipt}
  BY <1>1 DEF Settled
<1>5. Chains(op[c].before, Settled')
  BY <1>2, <1>3, <1>4 DEF OpOK, Evidence
<1>6. FilesOK' /\ LockOK'
  <2>1. lock \in {EmptyLock, op[c].before}
    BY <1>1, <1>2 DEF OpOK, Locked, Written, Forward, Erasing, Wiping, Locking, Unlocking
  <2>2. Chains(EmptyLock, Settled')
    BY DEF Chains, EmptyLock
  <2>3. torn' \subseteq receipts'
    BY <1>1, <1>3 DEF Inv, FilesOK, Settled
  <2> QED BY <1>1, <1>5, <2>1, <2>2, <2>3
          DEF Inv, FilesOK, LockOK, Sourced, Chains, Present
<1>7. HeldOK'
  BY <1>1, NotHeld DEF Wiping
<1>8. CASE End(c)
  BY <1>1, <1>6, <1>7, <1>8, Busy, Ends DEF Kept
<1>9. CASE op[c].action \in Bringing /\ Moved(c, "unbundle", TRUE, op[c].written)
  <2>1. Locked(op[c])' /\ Way(op[c])'
    BY <1>1, <1>2, <1>9 DEF Moved, OpOK, Locked, Way, Written, Forward, Erasing, Wiping,
        Locking, Unlocking
  <2>2. Evidence(op[c])'
    <3>1. (Settled \ {op[c].receipt})' = Settled'
      BY <1>4, <1>9 DEF Moved
    <3>2. Chains(op[c].before, Settled \ {op[c].receipt})'
      BY <1>5, <1>9, <3>1 DEF Moved, Chains
    <3>3. op'[c].receipt \notin receipts'
      BY <1>1, <1>9 DEF Moved
    <3> QED BY <1>3, <1>9, <3>2, <3>3 DEF Moved, Evidence, Receipted, Written, Forward,
        Erasing, Wiping, Locking, Unlocking
  <2>3. Bundles(op[c])'
    BY <1>1, <1>2, <1>9 DEF Moved, OpOK, Bundles, Written, Forward, Erasing, Wiping,
        Locking, Unlocking
  <2>4. OpsOK'
    BY <1>1, <1>9, <2>1, <2>2, <2>3, Busy, GoesOn DEF Steps
  <2> QED BY <1>6, <1>7, <2>4 DEF Kept
<1> QED BY <1>1, <1>8, <1>9, Busy, Undoes

LEMMA UnbundleStep ==
    ASSUME Inv, NEW c \in Clients, Unbundle(c) \/ UndoFails(c) PROVE Kept'
<1>1. /\ op[c] # Idle /\ op[c].step \in Unlocking \cup {"unreceipt", "unbundle"}
      /\ UNCHANGED <<lock, bundles, receipts, torn, left>> /\ held' = held
      /\ End(c) \/ (op[c].step = "unbundle" /\ Go(c, "match"))
  BY DEF Unbundle, UndoFails, Unlocking, Idle
<1>2. CASE End(c)
  BY <1>1, <1>2, SameFiles, EndKeeps DEF Unlocking, Wiping
<1>3. CASE op[c].step = "unbundle" /\ Go(c, "match")
  <2>1. Moved(c, "match", op[c].undo, op[c].written) /\ op[c].undo = TRUE
    BY <1>1, <1>3, Busy, Goes DEF OpOK, Way
  <2>2. Locked(op[c])' /\ Way(op[c])'
    BY <1>1, <1>3, <2>1, Busy DEF Moved, OpOK, Locked, Way, Written, Forward, Erasing,
        Wiping, Locking, Unlocking
  <2>3. Evidence(op[c])'
    BY <1>1, <1>3, <2>1, Busy
    DEF Moved, OpOK, Evidence, Receipted, Written, Forward, Erasing, Wiping, Locking,
        Unlocking, Settled, Chains
  <2>4. Bundles(op[c])'
    BY <1>1, <1>3, <2>1, Busy, ZenonT(60)
    DEF Moved, OpOK, Bundles, Written, Forward, Erasing, Wiping, Locking, Unlocking
  <2> QED BY <1>1, <1>3, <2>1, <2>2, <2>3, <2>4, Busy, NoFileMoves
          DEF Steps, Wiping, Inv, FilesOK, Settled
<1> QED BY <1>1, <1>2, <1>3

LEMMA CrashStep ==
    ASSUME Inv, NEW c \in Clients, Crash(c) PROVE Kept'
<1>1. /\ op[c] # Idle /\ End(c) /\ UNCHANGED <<lock, bundles, receipts, torn>>
      /\ left' = IF held[c] = "none" THEN left
                 ELSE left \cup {[source |-> Target(c), tree |-> held[c]]}
      /\ held' = [held EXCEPT ![c] = "none"]
  BY DEF Crash
<1>2. held[c] # "none" => Target(c) \in Sources /\ held[c] \in Trees \ {"none"}
  BY Deleted DEF Inv, HeldOK, Erasing, Wiping
<1>3. FilesOK'
  BY <1>1, <1>2 DEF Inv, FilesOK
<1>4. LockOK'
  BY <1>1 DEF Inv, LockOK, Settled, Present, Sourced, Chains
<1>5. OpsOK' /\ \A d \in Clients \ {c} : op'[d] = op[d]
  BY <1>1, Busy, Ends
<1>6. HeldOK'
  <2>1. held' \in [Clients -> Trees] /\ held'[c] = "none"
    BY <1>1 DEF Inv, HeldOK, Trees, Lying
  <2>2. \A d \in Clients \ {c} : held'[d] = held[d]
    BY <1>1 DEF Inv, HeldOK
  <2> QED BY <1>5, <2>1, <2>2 DEF Inv, HeldOK
<1> QED BY <1>3, <1>4, <1>5, <1>6 DEF Kept

\* An edit makes a bundle edited, never absent and never whole.
LEMMA EditKeeps ==
    ASSUME Inv, NEW s \in Sources, bundles' = [bundles EXCEPT ![s] = "edited"],
           UNCHANGED <<lock, receipts, torn, op, held, left>>
    PROVE  Kept'
<1>1. FilesOK' /\ HeldOK'
  BY DEF Inv, FilesOK, HeldOK, Trees, Lying
<1>2. \A t : t \in Sources => /\ bundles[t] # "none" => bundles'[t] # "none"
                              /\ bundles[t] # "whole" => bundles'[t] # "whole"
  BY DEF Inv, FilesOK
<1>3. LockOK'
  BY <1>2 DEF Inv, LockOK, Settled, Present, Sourced, Chains
<1>4. OpsOK'
  <2> SUFFICES ASSUME NEW c \in Clients, op[c] # Idle PROVE OpOK(op[c])'
    BY DEF Inv, OpsOK, Alone
  <2>1. OpOK(op[c])
    BY DEF Inv, OpsOK
  <2>2. Started(op[c])' /\ Extends(op[c])' /\ Disjoint(op[c])'
    BY <2>1 DEF OpOK, Started, Extends, Disjoint, Sourced, Replaced
  <2>3. Locked(op[c])' /\ Way(op[c])'
    BY <2>1 DEF OpOK, Locked, Way, Written, Forward
  <2>4. Evidence(op[c])'
    BY <2>1 DEF OpOK, Evidence, Settled, Chains, Receipted, Written, Forward
  <2>5. Bundles(op[c])'
    <3>1. \A p \in DOMAIN op[c].before : op[c].before[p].source \in Sources
      BY <2>1 DEF OpOK, Started, Sourced
    <3>2. op[c].source \in Sources
      BY <2>1 DEF OpOK, Started
    <3>3. op[c].step \in Wiping => Erases(op[c]) \in Sources
      BY Deleted DEF Erasing, Wiping
    <3> QED BY <1>2, <2>1, <3>1, <3>2, <3>3
            DEF OpOK, Bundles, Written, Forward, Replaced, Erases
  <2> QED BY <2>2, <2>3, <2>4, <2>5 DEF OpOK
<1> QED BY <1>1, <1>3, <1>4 DEF Kept

LEMMA PeopleStep ==
    ASSUME Inv, (\E s \in Sources : Edit(s)) \/ Restore
                \/ (\E c \in Clients : People(c))
    PROVE  Kept'
<1>1. ASSUME NEW s \in Sources, Edit(s) PROVE Kept'
  BY <1>1, EditKeeps DEF Edit
<1>2. ASSUME NEW c \in Clients, Reoccupy(c) PROVE Kept'
  <2>1. Target(c) \in Sources
    BY <1>2, Deleted DEF Reoccupy, Erasing
  <2> QED BY <1>2, <2>1, EditKeeps DEF Reoccupy
<1>3. ASSUME NEW c \in Clients, EditHeld(c) \/ EditLate(c) PROVE Kept'
  <2>1. HeldOK'
    BY <1>3 DEF EditHeld, EditLate, Owned, Inv, HeldOK, Trees, Lying
  <2>2. OpsOK'
    BY <1>3, OpsStay DEF EditHeld, EditLate, Inv
  <2> QED BY <1>3, <2>1, <2>2, SameFiles DEF EditHeld, EditLate, Kept
<1>4. CASE Restore
  <2>1. lock' = EmptyLock /\ UNCHANGED <<bundles, receipts, torn, op, held, left>>
    BY <1>4 DEF Restore
  <2>2. FilesOK' /\ HeldOK'
    BY <2>1 DEF Inv, FilesOK, HeldOK
  <2>3. LockOK'
    BY <2>1 DEF LockOK, Sourced, Present, Chains, EmptyLock
  <2>4. OpsOK'
    <3> SUFFICES ASSUME NEW c \in Clients, op[c] # Idle PROVE OpOK(op[c])'
      BY <2>1 DEF Inv, OpsOK, Alone
    <3>1. OpOK(op[c])
      BY DEF Inv, OpsOK
    <3>2. Started(op[c])' /\ Extends(op[c])' /\ Disjoint(op[c])'
      BY <2>1, <3>1 DEF OpOK, Started, Extends, Disjoint, Sourced, Replaced
    <3>3. Locked(op[c])' /\ Way(op[c])'
      BY <2>1, <3>1 DEF OpOK, Locked, Way, Written, Forward
    <3>4. Evidence(op[c])'
      BY <2>1, <3>1 DEF OpOK, Evidence, Settled, Chains, Receipted, Written, Forward
    <3>5. Bundles(op[c])'
      BY <2>1, <3>1 DEF OpOK, Bundles, Written, Forward, Replaced, Erases
    <3> QED BY <3>2, <3>3, <3>4, <3>5 DEF OpOK
  <2> QED BY <2>2, <2>3, <2>4 DEF Kept
<1> QED BY <1>1, <1>2, <1>3, <1>4 DEF People

-------------------------------------------------------------------------------
(* The beginning of an operation.                                          *)

LEMMA PlanStarts ==
    ASSUME Inv, NEW c \in Clients, NEW action, NEW s \in Sources, NEW after, NEW step,
           Plan(c, action, s, after, step),
           action \in {"install", "upgrade", "disable", "remove"},
           step = IF action \in Bringing THEN "copy" ELSE "receipt",
           Sourced(after), Extends(op'[c]), Disjoint(op'[c])
    PROVE  Kept'
<1> DEFINE o == [step |-> step, action |-> action, source |-> s,
                 before |-> lock, after |-> after,
                 receipt |-> Receipt(action, s, lock, after),
                 written |-> FALSE, undo |-> FALSE]
<1>1. op' = [op EXCEPT ![c] = o] /\ Free /\ op[c] = Idle
  BY DEF Plan
<1>2. UNCHANGED <<lock, bundles, receipts, torn, left>> /\ held' = held
  BY DEF Plan
<1>3. /\ DOMAIN o = Fields /\ o.step = step /\ o.action = action /\ o.source = s
      /\ o.before = lock /\ o.after = after
      /\ o.receipt = Receipt(action, s, lock, after)
      /\ o.written = FALSE /\ o.undo = FALSE
  BY DEF Fields
<1> HIDE DEF o
<1>4. op'[c] = o /\ \A d \in Clients \ {c} : op'[d] = op[d] /\ op[d] = Idle
  BY <1>1 DEF Inv, IInv, Free
<1>5. step \in {"copy", "receipt"} /\ (action \in Bringing => step = "copy")
  OBVIOUS
<1>6. Started(o) /\ Started(op[c])'
  BY <1>2, <1>3, <1>4, <1>5, ZenonT(60) DEF Started, Steps, Inv, LockOK, Sourced
<1>7. Locked(op[c])' /\ Way(op[c])'
  BY <1>2, <1>3, <1>4, <1>5 DEF Locked, Way, Written, Forward, Erasing, Wiping, Locking,
      Unlocking
<1>8. Evidence(op[c])'
  BY <1>2, <1>3, <1>4, <1>5
  DEF Evidence, Receipted, Written, Forward, Erasing, Wiping, Locking, Unlocking, Inv,
      LockOK, Settled, Chains
<1>9. Bundles(op[c])'
  BY <1>2, <1>3, <1>4, <1>5
  DEF Bundles, Written, Forward, Erasing, Wiping, Locking, Unlocking, Inv, LockOK, Present
<1>10. OpOK(op[c])'
  BY <1>4, <1>6, <1>7, <1>8, <1>9 DEF OpOK, Extends, Disjoint, Replaced
<1>11. OpsOK'
  BY <1>4, <1>10 DEF OpsOK, Alone
<1>12. HeldOK'
  BY <1>1, <1>2, <1>4, HeldStays DEF Inv, HeldOK, Idle, Wiping
<1> QED BY <1>2, <1>11, <1>12, SameFiles DEF Kept

LEMMA PlanFields ==
    ASSUME Inv, NEW c \in Clients, NEW action, NEW s, NEW after, NEW step,
           Plan(c, action, s, after, step)
    PROVE  /\ op'[c].action = action /\ op'[c].source = s /\ op'[c].before = lock
           /\ op'[c].after = after /\ op'[c].receipt = Receipt(action, s, lock, after)
  BY DEF Plan, Inv, IInv

\* The receipt of a change does not depend on itself.
LEMMA ChainedIs ==
    ASSUME NEW action, NEW s, NEW e, IsEntry(e)
    PROVE  \E f : /\ Chained(action, s, e) = WithEntry(lock, s.pack, f)
                  /\ f.source = e.source /\ f.status = e.status
                  /\ f.receipts = Append(e.receipts,
                                         Receipt(action, s, lock, Chained(action, s, e)))
<1> DEFINE r == Receipt(action, s, lock, WithEntry(lock, s.pack, e))
           f == [e EXCEPT !.receipts = Append(@, r)]
<1>1. Chained(action, s, e) = WithEntry(lock, s.pack, f)
  BY DEF Chained
<1>2. f.source = e.source /\ f.status = e.status /\ f.receipts = Append(e.receipts, r)
  BY DEF IsEntry
<1> HIDE DEF f, r
<1>3. Projection(WithEntry(lock, s.pack, f)) = Projection(WithEntry(lock, s.pack, e))
  BY <1>2 DEF Projection, WithEntry
<1>4. Receipt(action, s, lock, Chained(action, s, e)) = r
  BY <1>1, <1>3 DEF Receipt, r
<1> QED BY <1>1, <1>2, <1>4

\* The plan for a pack that has an entry appends to its chain.
LEMMA Lengthens ==
    ASSUME Inv, NEW c \in Clients, NEW action, NEW s, NEW after, NEW step,
           Plan(c, action, s, after, step), s.pack \in DOMAIN lock,
           NEW f, after = WithEntry(lock, s.pack, f),
           f.source = s /\ (action \in Bringing \/ s = lock[s.pack].source),
           f.receipts = Append(lock[s.pack].receipts, Receipt(action, s, lock, after))
    PROVE  Extends(op'[c])
<1>1. /\ DOMAIN after = DOMAIN lock /\ after[s.pack] = f
      /\ \A p \in DOMAIN lock \ {s.pack} : after[p] = lock[p]
  BY DEF WithEntry
<1>2. /\ op'[c].action = action /\ op'[c].source = s
      /\ op'[c].before = lock /\ op'[c].after = after
      /\ op'[c].receipt = Receipt(action, s, lock, after)
  BY PlanFields
<1> DEFINE o == op'[c]
<1> SUFFICES ASSUME NEW p \in DOMAIN lock
             PROVE  \/ /\ after[p].source = lock[p].source
                       /\ \/ after[p].receipts = lock[p].receipts
                          \/ after[p].receipts = Append(lock[p].receipts, o.receipt)
                    \/ /\ action \in Bringing /\ after[p].source = s
                       /\ after[p].receipts = Append(lock[p].receipts, o.receipt)
  BY <1>1, <1>2 DEF Extends
<1>3. CASE p = s.pack
  BY <1>1, <1>2, <1>3
<1>4. CASE p # s.pack
  BY <1>1, <1>4
<1> QED BY <1>3, <1>4

LEMMA BeginStep ==
    ASSUME Inv, NEW c \in Clients, Begin(c) PROVE Kept'
<1>1. \A p \in DOMAIN lock : /\ IsEntry(lock[p]) /\ lock[p].source.pack = p
                             /\ lock[p].source \in Sources
                             /\ lock[p].status \in {"active", "disabled"}
  BY DEF Inv, IInv, Good, Named, LockOK, Sourced
<1>2. ASSUME NEW s \in Sources, BeginInstall(c, s) PROVE Kept'
  <2> DEFINE e == [source |-> s, status |-> "active", receipts |-> <<>>]
             after == Chained("install", s, e)
  <2>1. Plan(c, "install", s, after, "copy") /\ s.pack \notin DOMAIN lock
    BY <1>2 DEF BeginInstall
  <2>2. IsEntry(e) /\ e.source = s /\ e.status = "active" /\ e.receipts = <<>>
    BY DEF IsEntry
  <2> HIDE DEF e
  <2>3. PICK f : /\ after = WithEntry(lock, s.pack, f)
                 /\ f.source = s /\ f.status = "active"
                 /\ f.receipts = Append(<<>>, Receipt("install", s, lock, after))
    BY <2>2, ChainedIs
  <2> HIDE DEF after
  <2>4. Sourced(after)
    BY <1>1, <2>3 DEF WithEntry, Sourced
  <2>5. Extends(op'[c])
    <3>1. /\ DOMAIN after = DOMAIN lock \cup {s.pack} /\ after[s.pack] = f
          /\ \A p \in DOMAIN lock : after[p] = lock[p]
      BY <2>1, <2>3 DEF WithEntry
    <3>2. /\ op'[c].action = "install" /\ op'[c].source = s
          /\ op'[c].before = lock /\ op'[c].after = after
          /\ op'[c].receipt = Receipt("install", s, lock, after)
      BY <2>1, PlanFields
    <3>3. \A p \in DOMAIN after : p \in DOMAIN lock \/ p = s.pack
      BY <3>1
    <3> QED BY <2>3, <3>1, <3>2, <3>3 DEF Extends, Bringing
  <2>6. Disjoint(op'[c])
    BY <1>1, <2>1, PlanFields DEF Disjoint, Deleting
  <2> QED BY <2>1, <2>4, <2>5, <2>6, PlanStarts DEF Bringing
<1>3. ASSUME NEW s \in Sources, BeginUpgrade(c, s) PROVE Kept'
  <2> DEFINE old == lock[s.pack]
             e == [old EXCEPT !.source = s]
             after == Chained("upgrade", s, e)
  <2>1. /\ Plan(c, "upgrade", s, after, "copy") /\ s.pack \in DOMAIN lock
        /\ s.version > old.source.version
    BY <1>3 DEF BeginUpgrade
  <2>2. IsEntry(e) /\ e.source = s /\ e.status = old.status /\ e.receipts = old.receipts
    BY <1>1, <2>1 DEF IsEntry
  <2>3. after = Chained("upgrade", s, e)
    OBVIOUS
  <2> HIDE DEF after, e
  <2>4. PICK f : /\ after = WithEntry(lock, s.pack, f)
                 /\ f.source = s /\ f.status = old.status
                 /\ f.receipts = Append(old.receipts, Receipt("upgrade", s, lock, after))
    BY <2>2, <2>3, ChainedIs
  <2>5. Sourced(after)
    BY <1>1, <2>1, <2>4 DEF WithEntry, Sourced
  <2>6. /\ DOMAIN after = DOMAIN lock \cup {s.pack} /\ after[s.pack] = f
        /\ \A p \in DOMAIN lock \ {s.pack} : after[p] = lock[p]
    BY <2>4 DEF WithEntry
  <2>7. Extends(op'[c])
    BY <2>1, <2>4, Lengthens DEF Bringing
  <2>8. old.source # s
    <3>1. old.source \in Sources
      BY <1>1, <2>1
    <3>2. s.version \in Nat /\ old.source.version \in Nat
      BY <3>1, ExperiencePackAssumption
    <3> QED BY <2>1, <3>2
  <2>9. \A p \in DOMAIN lock : lock[p].source # s
    BY <1>1, <2>8
  <2>10. Disjoint(op'[c])
    BY <1>1, <2>1, <2>4, <2>6, <2>8, <2>9, PlanFields DEF Disjoint, Deleting, Replaced
  <2> QED BY <2>1, <2>5, <2>7, <2>10, PlanStarts DEF Bringing
<1>4. ASSUME NEW p \in DOMAIN lock, BeginDisable(c, p) PROVE Kept'
  <2> DEFINE s == lock[p].source
             e == [lock[p] EXCEPT !.status = "disabled"]
             after == Chained("disable", s, e)
  <2>1. Plan(c, "disable", s, after, "receipt") /\ s.pack = p /\ s \in Sources
    BY <1>1, <1>4 DEF BeginDisable
  <2>2. /\ IsEntry(e) /\ e.source = s /\ e.status = "disabled"
        /\ e.receipts = lock[p].receipts
    BY <1>1 DEF IsEntry
  <2> HIDE DEF e
  <2>3. PICK f : /\ after = WithEntry(lock, p, f)
                 /\ f.source = s /\ f.status = "disabled"
                 /\ f.receipts = Append(lock[p].receipts, Receipt("disable", s, lock, after))
    BY <2>1, <2>2, ChainedIs
  <2> HIDE DEF after
  <2>4. Sourced(after)
    BY <1>1, <2>1, <2>3 DEF WithEntry, Sourced
  <2>5. Extends(op'[c])
    BY <1>4, <2>1, <2>3, Lengthens
  <2>6. Disjoint(op'[c])
    BY <2>1, PlanFields DEF Disjoint, Deleting, Bringing
  <2> QED BY <2>1, <2>4, <2>5, <2>6, PlanStarts DEF Bringing
<1>5. ASSUME NEW p \in DOMAIN lock, BeginRemove(c, p) PROVE Kept'
  <2> DEFINE s == lock[p].source
             after == Without(lock, p)
  <2>1. Plan(c, "remove", s, after, "receipt") /\ s.pack = p /\ s \in Sources
    BY <1>1, <1>5 DEF BeginRemove
  <2>2. DOMAIN after = DOMAIN lock \ {p} /\ \A q \in DOMAIN after : after[q] = lock[q]
    BY DEF Without
  <2> HIDE DEF after
  <2>3. Sourced(after)
    BY <1>1, <2>2 DEF Sourced
  <2>4. Extends(op'[c])
    <3>1. op'[c].before = lock /\ op'[c].after = after
      BY <2>1, PlanFields, ZenonT(60)
    <3> QED BY <2>2, <3>1 DEF Extends
  <2>5. Disjoint(op'[c])
    BY <1>1, <2>1, <2>2, PlanFields DEF Disjoint, Deleting, Bringing, Replaced
  <2> QED BY <2>1, <2>3, <2>4, <2>5, PlanStarts DEF Bringing
<1> QED BY <1>2, <1>3, <1>4, <1>5 DEF Begin

-------------------------------------------------------------------------------
(* Every step keeps the invariant.                                         *)

LEMMA WriteStep ==
    ASSUME Inv, NEW c \in Clients, Write(c) PROVE Kept'
  BY CopyStep, WriteReceiptStep, ReceiptFailsStep, CompareLockStep, WriteLockStep,
     LockFailsStep, MatchStep, MoveStep, WipeStep, CloseStep, UnlockStep, PutBackStep,
     UnreceiptStep, UnbundleStep
  DEF Write

\* What a step does to the counts: nothing, or one more under its bound.
Counted ==
    \/ counts' = counts
    \/ counts.ops < MaxOps /\ Count("ops")
    \/ counts.faults < MaxFaults /\ Count("faults")
    \/ counts.crashes < MaxCrashes /\ Count("crashes")
    \/ counts.edits < MaxEdits /\ Count("edits")

LEMMA CountsStep ==
    ASSUME CountsOK, Counted PROVE CountsOK'
  BY ExperiencePackAssumption DEF CountsOK, Counted, Count

LEMMA WriteCounts ==
    ASSUME NEW c \in Clients, Write(c) PROVE Counted
<1>1. ASSUME \/ Copy(c) \/ WriteReceipt(c) \/ CompareLock(c) \/ WriteLock(c)
             \/ Match(c) \/ Move(c) \/ Wipe(c) \/ Unlink(c) \/ Close(c)
             \/ Unlock(c) \/ PutBack(c) \/ Unreceipt(c) \/ Unbundle(c)
      PROVE  counts' = counts
  BY <1>1 DEF Copy, WriteReceipt, CompareLock, WriteLock, Match, Move, Wipe, Unlink,
              Close, Unlock, PutBack, Unreceipt, Unbundle
<1>2. ASSUME ReceiptFails(c) \/ LockFails(c) \/ WipeFails(c) \/ UndoFails(c)
      PROVE  Fault \/ counts' = counts
  BY <1>2 DEF ReceiptFails, LockFails, WipeFails, UndoFails
<1> QED BY <1>1, <1>2 DEF Write, Counted, Fault

LEMMA BeginCounts ==
    ASSUME NEW c \in Clients, Begin(c) PROVE Counted
  BY DEF Begin, BeginInstall, BeginUpgrade, BeginDisable, BeginRemove, Plan, Counted

LEMMA NextCounts ==
    ASSUME [Next]_vars PROVE Counted
<1>1. CASE UNCHANGED vars
  BY <1>1 DEF vars, Counted
<1>2. ASSUME NEW c \in Clients, Crash(c) \/ People(c) PROVE Counted
  BY <1>2 DEF Crash, People, EditHeld, EditLate, Reoccupy, Meddle, Counted
<1>3. ASSUME NEW s \in Sources, Edit(s) PROVE Counted
  BY <1>3 DEF Edit, Meddle, Counted
<1>4. CASE Restore
  BY <1>4 DEF Restore, Meddle, Counted
<1> QED BY <1>1, <1>2, <1>3, <1>4, WriteCounts, BeginCounts DEF Next

LEMMA InitInv == Init => Inv
<1> SUFFICES ASSUME Init PROVE Inv
  OBVIOUS
<1>1. IInv
  BY InitIInv
<1>2. FilesOK /\ HeldOK
  BY DEF Init, FilesOK, HeldOK, Trees, Lying
<1>3. CountsOK
  BY ExperiencePackAssumption DEF Init, CountsOK
<1>4. LockOK
  BY DEF Init, LockOK, Sourced, Chains, Present, EmptyLock
<1>5. OpsOK
  BY DEF Init, OpsOK, Alone
<1> QED BY <1>1, <1>2, <1>3, <1>4, <1>5 DEF Inv

LEMMA NextInv == Inv /\ [Next]_vars => Inv'
<1> SUFFICES ASSUME Inv, [Next]_vars PROVE Inv'
  OBVIOUS
<1>1. IInv'
  BY NextIInv DEF Inv
<1>2. CountsOK'
  BY NextCounts, CountsStep DEF Inv
<1>3. Kept'
  <2>1. CASE UNCHANGED vars
    BY <2>1, SameFiles, OpsStay DEF vars, Inv, HeldOK, Kept
  <2> QED BY <2>1, BeginStep, WriteStep, CrashStep, PeopleStep DEF Next
<1> QED BY <1>1, <1>2, <1>3 DEF Inv, Kept

-------------------------------------------------------------------------------
(* What the lock says between its comparison and its replacement.          *)

\* A client that git has not overtaken replaces the lock that it compared.
Compared(o, over) ==
    over \/ /\ o.step = "replace" => lock = o.before
            /\ o.step = "putback" => lock = o.after

Fresh ==
    /\ overtaken \subseteq Clients
    /\ \A c \in Clients : op[c] # Idle => Compared(op[c], c \in overtaken)

LEMMA WhoMovesLock ==
    ASSUME [Next]_vars, lock' # lock, ~Restore
    PROVE  \E c \in Clients : WriteLock(c) \/ PutBack(c)
<1>1. ASSUME NEW c \in Clients, Begin(c) PROVE lock' = lock
  BY <1>1 DEF Begin, BeginInstall, BeginUpgrade, BeginDisable, BeginRemove, Plan
<1>2. ASSUME NEW c \in Clients, Write(c), ~WriteLock(c), ~PutBack(c) PROVE lock' = lock
  BY <1>2 DEF Write, Copy, WriteReceipt, ReceiptFails, CompareLock, LockFails, Match,
      Move,
              Wipe, Unlink, WipeFails, Close, Unlock, Unreceipt, Unbundle, UndoFails
<1>3. ASSUME NEW c \in Clients, Crash(c) \/ People(c) PROVE lock' = lock
  BY <1>3 DEF Crash, People, EditHeld, EditLate, Reoccupy
<1>4. ASSUME NEW s \in Sources, Edit(s) PROVE lock' = lock
  BY <1>4 DEF Edit
<1> QED BY <1>1, <1>2, <1>3, <1>4 DEF Next, vars

LEMMA AtWork ==
    ASSUME NEW c \in Clients, Write(c) PROVE op[c] # Idle
<1>1. op[c].step \in Steps
  BY DEF Write, Copy, WriteReceipt, ReceiptFails, CompareLock, WriteLock, LockFails,
      Match,
         Move, Wipe, Unlink, WipeFails, Close, Unlock, PutBack, Unreceipt, Unbundle,
         UndoFails, Steps
<1> QED BY <1>1 DEF Steps, Idle

LEMMA WhoOvertakes ==
    ASSUME [Next]_vars, ~Restore, ~\E c \in Clients : CompareLock(c)
    PROVE  overtaken' = overtaken
<1>1. ASSUME NEW c \in Clients, Begin(c) PROVE overtaken' = overtaken
  BY <1>1 DEF Begin, BeginInstall, BeginUpgrade, BeginDisable, BeginRemove, Plan
<1>2. ASSUME NEW c \in Clients, Write(c) PROVE overtaken' = overtaken
  BY <1>2 DEF Write, Copy, WriteReceipt, ReceiptFails, WriteLock, LockFails, Match, Move,
              Wipe, Unlink, WipeFails, Close, Unlock, PutBack, Unreceipt, Unbundle,
              UndoFails
<1>3. ASSUME NEW c \in Clients, Crash(c) \/ People(c) PROVE overtaken' = overtaken
  BY <1>3 DEF Crash, People, EditHeld, EditLate, Reoccupy
<1>4. ASSUME NEW s \in Sources, Edit(s) PROVE overtaken' = overtaken
  BY <1>4 DEF Edit
<1> QED BY <1>1, <1>2, <1>3, <1>4 DEF Next, vars

\* A client leaves the step at which it writes the lock.
LEMMA LockStepMoves ==
    ASSUME Inv, NEW c \in Clients, op[c] # Idle, WriteLock(c) \/ PutBack(c)
    PROVE  op'[c] # op[c]
<1>1. ASSUME NEW s, NEW u, NEW w, Moved(c, s, u, w), s # op[c].step PROVE op'[c] # op[c]
  BY <1>1 DEF Moved
<1>2. End(c) => op'[c] # op[c]
  BY Busy, Ends
<1>3. CASE WriteLock(c)
  BY <1>1, <1>2, <1>3, Busy, Goes DEF WriteLock
<1>4. CASE PutBack(c)
  <2>1. Undo(c, "unreceipt") /\ op[c].step = "putback"
    BY <1>4 DEF PutBack
  <2>2. Moved(c, "unreceipt", TRUE, op[c].written)
    BY <2>1, Busy, Undoes
  <2> QED BY <2>1, <2>2 DEF Moved
<1> QED BY <1>3, <1>4

\* The step after a comparison is reached by the comparison only.
LEMMA WhoCompares ==
    ASSUME Inv, [Next]_vars, NEW c \in Clients, op'[c] # op[c],
           op'[c].step \in {"replace", "putback"}
    PROVE  CompareLock(c)
<1>1. ASSUME NEW d \in Clients, Begin(d) PROVE FALSE
  <2>1. ASSUME NEW action, NEW s, NEW after, NEW step, Plan(d, action, s, after, step),
               step \in {"copy", "receipt"}
        PROVE  FALSE
    <3>1. op'[d].step = step /\ (c # d => op'[c] = op[c])
      BY <2>1 DEF Plan, Inv, IInv
    <3> QED BY <2>1, <3>1
  <2> QED BY <1>1, <2>1 DEF Begin, BeginInstall, BeginUpgrade, BeginDisable, BeginRemove
<1>2. ASSUME NEW d \in Clients, Write(d) \/ Crash(d), op[d] # Idle PROVE CompareLock(c)
  <2>1. DOMAIN op = Clients /\ DOMAIN op[d] = Fields
    BY <1>2, Busy DEF IInv, Started
  <2>2. ASSUME End(d) PROVE FALSE
    BY <2>1, <2>2 DEF End, Idle
  <2>3. ASSUME NEW step, Go(d, step) PROVE c = d /\ step \in {"replace", "putback"}
    BY <2>1, <2>3 DEF Go, Fields
  <2>4. ASSUME NEW step \in Steps \ {"replace", "putback"}, Undo(d, step) PROVE FALSE
    BY <2>1, <2>2, <2>4 DEF Undo, Fields
  <2>5. ~Crash(d) /\ ~Copy(d)
    BY <2>2, <2>3 DEF Crash, Copy
  <2>6. ~WriteReceipt(d) /\ ~ReceiptFails(d)
    <3>1. ASSUME op' = [op EXCEPT ![d].step = "compare", ![d].written = TRUE] PROVE FALSE
      BY <2>1, <3>1 DEF Fields
    <3> QED BY <2>4, <3>1 DEF WriteReceipt, ReceiptFails, Steps
  <2>7. ~WriteLock(d) /\ ~LockFails(d) /\ ~PutBack(d) /\ ~UndoFails(d)
    BY <2>2, <2>3, <2>4 DEF WriteLock, LockFails, PutBack, UndoFails, Steps
  <2>8. ASSUME NEW tree, Failed(d, tree) PROVE FALSE
    BY <2>2, <2>4, <2>8 DEF Failed, Steps
  <2>9. ~Match(d) /\ ~Move(d) /\ ~Close(d)
    BY <2>2, <2>3, <2>8 DEF Match, Move, Close
  <2>10. ~Wipe(d) /\ ~WipeFails(d) /\ ~Unlink(d)
    BY <2>3, <2>8 DEF Wipe, WipeFails, Abandon, Unlink
  <2>11. ~Unlock(d) /\ ~Unreceipt(d) /\ ~Unbundle(d)
    BY <2>2, <2>3, <2>4 DEF Unlock, Unreceipt, Unbundle, Steps
  <2>12. CompareLock(d)
    BY <1>2, <2>5, <2>6, <2>7, <2>9, <2>10, <2>11 DEF Write
  <2>13. c = d
    BY <2>3, <2>12 DEF CompareLock
  <2> QED BY <2>12, <2>13
<1>3. ~UNCHANGED op
  OBVIOUS
<1>4. ASSUME NEW d \in Clients, Write(d) \/ Crash(d) PROVE op[d] # Idle
  BY <1>4, AtWork DEF Crash
<1> QED BY <1>1, <1>2, <1>3, <1>4
        DEF Next, vars, People, EditHeld, EditLate, Reoccupy, Edit, Restore

LEMMA NextFresh == Inv /\ Fresh /\ [Next]_vars => Fresh'
<1> SUFFICES ASSUME Inv, Fresh, [Next]_vars PROVE Fresh'
  OBVIOUS
<1>1. CASE Restore
  <2>1. /\ op' = op
        /\ overtaken' = overtaken \cup {c \in Clients : op[c].step \in {"replace", "putback"}}
    BY <1>1 DEF Restore
  <2> QED BY <2>1 DEF Fresh, Compared
<1>2. CASE \E c \in Clients : CompareLock(c)
  <2>1. PICK c \in Clients : CompareLock(c)
    BY <1>2
  <2>2. /\ op[c] # Idle /\ lock' = lock /\ lock = Expected(c)
        /\ overtaken' = overtaken \ {c}
        /\ \E s : Go(c, s) /\ s = IF op[c].step = "compare" THEN "replace" ELSE "putback"
    BY <2>1 DEF CompareLock, Compares, Idle
  <2>3. PICK s : Go(c, s) /\ s = IF op[c].step = "compare" THEN "replace" ELSE "putback"
    BY <2>2
  <2>4. Moved(c, s, op[c].undo, op[c].written)
    BY <2>2, <2>3, Busy, Goes
  <2>5. /\ op'[c].step = "replace" => lock' = op'[c].before
        /\ op'[c].step = "putback" => lock' = op'[c].after
    BY <2>2, <2>3, <2>4 DEF Moved, Expected
  <2>6. \A d \in Clients \ {c} : op[d] = Idle /\ op'[d] = op[d]
    BY <2>2, <2>4 DEF Moved, Inv, OpsOK, Alone
  <2> QED BY <2>2, <2>5, <2>6 DEF Fresh, Compared
<1>3. CASE ~Restore /\ ~\E c \in Clients : CompareLock(c)
  <2>1. overtaken' = overtaken
    BY <1>3, WhoOvertakes
  <2> SUFFICES ASSUME NEW c \in Clients, op'[c] # Idle, c \notin overtaken,
                      op'[c].step \in {"replace", "putback"}
               PROVE  /\ op'[c].step = "replace" => lock' = op'[c].before
                      /\ op'[c].step = "putback" => lock' = op'[c].after
    BY <2>1 DEF Fresh, Compared
  <2>2. op'[c] = op[c]
    BY <1>3, WhoCompares
  <2>3. lock' = lock
    <3>1. ASSUME NEW d \in Clients, WriteLock(d) \/ PutBack(d) PROVE FALSE
      <4>1. op[d] # Idle /\ op[c] # Idle
        BY <2>2, <3>1 DEF WriteLock, PutBack, Idle
      <4>2. d = c
        BY <4>1 DEF Inv, OpsOK, Alone
      <4>3. op'[d] # op[d]
        BY <3>1, <4>1, LockStepMoves
      <4> QED BY <2>2, <4>2, <4>3
    <3> QED BY <1>3, <3>1, WhoMovesLock
  <2> QED BY <2>2, <2>3 DEF Fresh, Compared
<1> QED BY <1>1, <1>2, <1>3

LEMMA InitFresh == Init => Fresh
  BY DEF Init, Fresh

LEMMA Always == Spec => [](Inv /\ Fresh)
  BY InitInv, NextInv, InitFresh, NextFresh, PTL DEF Spec

\* What the lock file names is well formed and on disk, its bundle and every
\* receipt of its chain, whichever write fails or crashes, whatever people do to
\* the bundles, for every registry and any number of processes.
THEOREM PackSafety == Spec => []Safety
<1>1. ASSUME Inv, Fresh PROVE Safety
  <2>1. ASSUME NEW p \in DOMAIN lock
        PROVE  /\ p \in Packs /\ lock[p] \in Entries /\ lock[p].source.pack = p
               /\ bundles[lock[p].source] # "none"
               /\ \A i \in DOMAIN lock[p].receipts : lock[p].receipts[i] \in receipts \ torn
    <3>1. IsEntry(lock[p]) /\ lock[p].source.pack = p
      BY <1>1 DEF Inv, IInv, Good, Named
    <3>2. /\ lock[p].source \in Sources /\ lock[p].status \in {"active", "disabled"}
          /\ lock[p].receipts \in Seq(receipts \ torn) /\ bundles[lock[p].source] # "none"
      BY <1>1 DEF Inv, LockOK, Sourced, Chains, Present, Settled
    <3>3. lock[p].receipts \in Seq(receipts)
      BY <3>2, SeqMonotonic
    <3>4. p \in Packs /\ lock[p] \in Entries
      BY <3>1, <3>2, <3>3 DEF IsEntry, Entries, Packs
    <3>5. \A i \in DOMAIN lock[p].receipts : lock[p].receipts[i] \in receipts \ torn
      BY <3>2
    <3> QED BY <3>1, <3>2, <3>4, <3>5
  <2>2. \A c \in Clients : op[c] # Idle => op[c].step \in Steps /\ op[c].source \in Sources
    BY <1>1, Busy DEF Started
  <2>3. TypeOK
    BY <1>1, <2>1, <2>2 DEF Inv, FilesOK, HeldOK, CountsOK, Fresh, TypeOK, Wiping
  <2>4. LockedIsBacked
    BY <2>1 DEF LockedIsBacked
  <2> QED BY <2>3, <2>4 DEF Safety
<1> QED BY <1>1, Always, PTL
-------------------------------------------------------------------------------
(* What a step may never do.                                               *)

\* Only the client that is at work takes steps.
LEMMA Mover ==
    ASSUME Inv, [Next]_vars, NEW c \in Clients, op[c] # Idle
    PROVE  \/ Write(c) \/ Crash(c) \/ People(c)
           \/ \E s \in Sources : Edit(s)
           \/ Restore
           \/ UNCHANGED vars
<1>1. ASSUME NEW d \in Clients, Begin(d) PROVE FALSE
  BY <1>1 DEF Begin, BeginInstall, BeginUpgrade, BeginDisable, BeginRemove, Plan, Free
<1>2. ASSUME NEW d \in Clients, Write(d) \/ Crash(d) \/ People(d)
      PROVE  d = c
  <2>1. op[d] # Idle
    <3>1. op[d].step \in Wiping => op[d] # Idle
      BY DEF Wiping, Idle
    <3>2. People(d) => op[d].step \in Wiping
      BY DEF People, EditHeld, EditLate, Reoccupy, Inv, HeldOK, Wiping
    <3> QED BY <1>2, <3>1, <3>2, AtWork DEF Crash
  <2> QED BY <2>1 DEF Inv, OpsOK, Alone
<1> QED BY <1>1, <1>2 DEF Next

\* A lock file follows from the one before by a receipt that lies in its file, or
\* goes back by the same receipt, unless git restored the file; what git restored
\* after the comparison is replaced by what the receipt of the operation says.
THEOREM LockFollows == Spec => LockFollowsReceipts
<1> DEFINE Follows ==
        \E r \in receipts :
            \/ r.before = lock /\ r.after = Projection(lock')
            \/ r.before = lock' /\ r.after = Projection(lock)
            \/ /\ \E c \in Clients : Overtaken(c)
               /\ r.after = Projection(lock') \/ r.before = lock'
<1>1. ASSUME Inv, Fresh, [Next]_vars, lock' # lock, ~Restore PROVE Follows
  <2>1. PICK c \in Clients : WriteLock(c) \/ PutBack(c)
    BY <1>1, WhoMovesLock
  <2>2. op[c].step \in {"replace", "putback"} /\ op[c] # Idle
    BY <2>1 DEF WriteLock, PutBack, Idle
  <2>3. OpOK(op[c])
    BY <1>1, <2>2, Busy
  <2>4. op[c].receipt \in receipts
    BY <2>2, <2>3 DEF OpOK, Evidence, Receipted, Written, Settled, Locking, Unlocking
  <2>5. op[c].receipt.before = op[c].before /\ op[c].receipt.after = Projection(op[c].after)
    BY <2>3 DEF OpOK, Started, Receipt
  <2>6. CASE c \in overtaken
    <3>1. Overtaken(c)
      BY <2>2, <2>6 DEF Overtaken
    <3>2. lock' = op[c].after \/ lock' = op[c].before
      BY <2>1 DEF WriteLock, PutBack
    <3> QED BY <2>4, <2>5, <3>1, <3>2
  <2>7. CASE c \notin overtaken
    <3>1. \/ lock = op[c].before /\ lock' = op[c].after
          \/ lock = op[c].after /\ lock' = op[c].before
      BY <1>1, <2>1, <2>2, <2>7 DEF WriteLock, PutBack, Fresh, Compared
    <3> QED BY <2>4, <2>5, <3>1
  <2> QED BY <2>6, <2>7
<1>2. Inv /\ Fresh /\ [Next]_vars => [lock' # lock /\ ~Restore => Follows]_vars
  BY <1>1
<1> QED BY <1>2, Always, PTL DEF Spec, LockFollowsReceipts

\* An edited tree stays at its name, and what is in quarantine stays there.
LEMMA EditedStays ==
    ASSUME Inv, [Next]_vars
    PROVE  /\ \A s \in Sources : bundles[s] = "edited" => bundles'[s] = "edited"
           /\ left \subseteq left'
<1> DEFINE Stays == /\ \A s \in Sources : bundles[s] = "edited" => bundles'[s] = "edited"
                    /\ left \subseteq left'
<1>0. bundles \in [Sources -> Lying]
  BY DEF Inv, FilesOK
<1>1. ASSUME bundles' = bundles, left' = left PROVE Stays
  BY <1>1
<1>2. ASSUME NEW t, bundles[t] # "edited", NEW x, bundles' = [bundles EXCEPT ![t] = x],
             left' = left
      PROVE  Stays
  BY <1>0, <1>2
<1>3. ASSUME NEW c \in Clients, Begin(c) PROVE Stays
  BY <1>1, <1>3 DEF Begin, BeginInstall, BeginUpgrade, BeginDisable, BeginRemove, Plan
<1>4. ASSUME NEW c \in Clients, Abandon(c) PROVE Stays
  <2> DEFINE back == held[c] = "whole" /\ bundles[Target(c)] = "none"
             there == IF back THEN "whole" ELSE bundles[Target(c)]
  <2>1. bundles' = [bundles EXCEPT ![Target(c)] = there] /\ left \subseteq left'
    BY <1>4 DEF Abandon
  <2>2. bundles[Target(c)] = "edited" => there = "edited"
    OBVIOUS
  <2> HIDE DEF there
  <2> QED BY <1>0, <2>1, <2>2
<1>5. ASSUME NEW c \in Clients, Write(c), ~Abandon(c) PROVE Stays
  <2>1. CASE Copy(c)
    BY <1>1, <1>2, <2>1 DEF Copy
  <2>2. CASE Move(c)
    BY <1>1, <1>2, <2>2 DEF Move, Movable
  <2>3. CASE ~Copy(c) /\ ~Move(c)
    BY <1>1, <1>5, <2>3
    DEF Write, WriteReceipt, ReceiptFails, CompareLock, WriteLock, LockFails, Match, Wipe,
        Unlink, WipeFails, Close, Unlock, PutBack, Unreceipt, Unbundle, UndoFails
  <2> QED BY <2>1, <2>2, <2>3
<1>6. ASSUME NEW c \in Clients, Crash(c) PROVE Stays
  BY <1>6 DEF Crash
<1>7. ASSUME NEW c \in Clients, People(c) PROVE Stays
  BY <1>1, <1>2, <1>7 DEF People, EditHeld, EditLate, Reoccupy
<1>8. ASSUME NEW s \in Sources, Edit(s) PROVE Stays
  BY <1>2, <1>8 DEF Edit
<1>9. CASE Restore \/ UNCHANGED vars
  BY <1>1, <1>9 DEF Restore, vars
<1> QED BY <1>3, <1>4, <1>5, <1>6, <1>7, <1>8, <1>9 DEF Next

\* A tree that was edited in quarantine stays with the client or is left there, but
\* for the file that was edited after its comparison.
LEMMA HeldEdited ==
    ASSUME Inv, [Next]_vars, NEW c \in Clients, held[c] \in {"edited", "late"}
    PROVE  \/ [source |-> Target(c), tree |-> held[c]] \in left'
           \/ /\ held'[c] \in {"edited", "late"} /\ op'[c].undo = op[c].undo
              /\ op'[c].source = op[c].source /\ op'[c].before = op[c].before
           \/ op[c].step = "unlink" /\ held[c] = "late" /\ op'[c].step = "wipe"
<1>1. op[c].step \in Wiping /\ op[c] # Idle
  BY DEF Inv, HeldOK, Idle, Wiping
<1>2. CASE Write(c)
  <2>1. Wipe(c) \/ Unlink(c) \/ WipeFails(c)
    BY <1>1, <1>2 DEF Write, Copy, WriteReceipt, ReceiptFails, CompareLock, WriteLock,
                      LockFails, Match, Move, Close, Unlock, PutBack, Unreceipt, Unbundle,
                      UndoFails, Wiping
  <2>2. CASE Abandon(c)
    BY <2>2 DEF Abandon
  <2>3. CASE Unlink(c)
    <3>1. Moved(c, "wipe", op[c].undo, op[c].written)
      BY <1>1, <2>3, Busy, Goes DEF Unlink
    <3>2. held[c] = "edited" => held'[c] = "edited"
      BY <2>3 DEF Unlink, Rest, Inv, HeldOK
    <3> QED BY <2>3, <3>1, <3>2 DEF Unlink, Moved
  <2> QED BY <2>1, <2>2, <2>3 DEF Wipe, WipeFails, Owned
<1>3. CASE Crash(c)
  BY <1>3 DEF Crash
<1>4. CASE EditHeld(c) \/ EditLate(c)
  BY <1>4 DEF EditHeld, EditLate, Owned, Inv, HeldOK
<1>5. CASE Reoccupy(c) \/ (\E s \in Sources : Edit(s)) \/ Restore \/ UNCHANGED vars
  BY <1>5 DEF Reoccupy, Edit, Restore, vars
<1> QED BY <1>1, <1>2, <1>3, <1>4, <1>5, Mover DEF People

\* The bundle that an undone operation brought is not whole where its undoing ends.
LEMMA UndoneEnds ==
    ASSUME Inv, [Next]_vars, NEW c \in Clients, op[c] # Idle, op'[c] = Idle,
           op[c].step \in {"unreceipt", "unbundle", "match", "move", "wipe"}, op[c].undo,
           counts' = counts
    PROVE  /\ lock' \in {op[c].before, EmptyLock}
           /\ op[c].written => op[c].receipt \notin receipts'
           /\ Brings(c) => bundles'[op[c].source] # "whole"
<1>1. OpOK(op[c]) /\ op[c].undo = TRUE /\ op[c].written \in BOOLEAN
      /\ op[c].source \in Sources
  BY Busy
<1>2. Target(c) = op[c].source /\ Erases(op[c]) = op[c].source
  BY <1>1 DEF Target, Erases
<1>3. lock \in {op[c].before, EmptyLock}
  BY <1>1 DEF OpOK, Locked, Written, Forward, Erasing, Wiping, Locking, Unlocking
<1>4. op[c].step # "unreceipt" /\ op[c].written => op[c].receipt \notin receipts
  BY <1>1 DEF OpOK, Evidence, Receipted, Written, Forward, Erasing, Wiping, Locking,
      Unlocking
<1>5. ~Fault
  BY DEF Fault, Count, Inv, CountsOK
<1>6. op' # op
  OBVIOUS
<1>7. Write(c)
  <2>1. ~Crash(c)
    BY DEF Crash, Count, Inv, CountsOK
  <2>2. ~(People(c) \/ (\E s \in Sources : Edit(s)) \/ Restore \/ UNCHANGED vars)
    BY <1>6 DEF People, EditHeld, EditLate, Reoccupy, Edit, Restore, vars
  <2> QED BY <2>1, <2>2, Mover
<1>8. CASE Unreceipt(c)
  <2>1. Undo(c, "unbundle") /\ receipts' = receipts \ {op[c].receipt} /\ lock' = lock
    BY <1>8 DEF Unreceipt
  <2>2. ~Moved(c, "unbundle", TRUE, op[c].written)
    BY DEF Moved, Idle
  <2>3. op[c].action \notin Bringing
    BY <2>1, <2>2, Busy, Undoes
  <2>4. ~Brings(c)
    BY <2>3 DEF Brings, Bringing
  <2> QED BY <1>3, <2>1, <2>4
<1>9. CASE ~Unreceipt(c)
  <2>1. Match(c) \/ Move(c) \/ Wipe(c) \/ Close(c) \/ Unbundle(c)
    BY <1>5, <1>7, <1>9
    DEF Write, Copy, WriteReceipt, ReceiptFails, CompareLock, WriteLock, LockFails,
        Unlink, WipeFails, Unlock, PutBack, UndoFails
  <2>2. lock' = lock /\ receipts' = receipts /\ op[c].step # "unreceipt"
    BY <2>1 DEF Match, Move, Wipe, Close, Unbundle
  <2>3. bundles'[op[c].source] # "whole"
    <3>1. ASSUME NEW s \in Steps, Go(c, s) PROVE FALSE
      BY <3>1, Busy, Goes DEF Moved, Idle, Steps
    <3>2. CASE Match(c) \/ Move(c)
      BY <1>2, <3>1, <3>2 DEF Match, Move, Movable, Steps
    <3>3. CASE Unbundle(c)
      BY <3>1, <3>3 DEF Unbundle, Matches, Steps
    <3>4. CASE Close(c)
      BY <1>1, <1>2, <3>4 DEF Close, OpOK, Bundles, Wiping
    <3>5. CASE Wipe(c)
      <4>1. Abandon(c) /\ ~Owned(held[c]) /\ op[c].step = "wipe"
        BY <3>1, <3>5 DEF Wipe, Steps
      <4>2. held[c] # "whole"
        BY <4>1 DEF Owned
      <4>3. bundles' = [bundles EXCEPT ![Target(c)] = bundles[Target(c)]]
        BY <4>1, <4>2 DEF Abandon
      <4>4. bundles[op[c].source] # "whole"
        BY <1>1, <1>2, <4>1 DEF OpOK, Bundles, Wiping
      <4> QED BY <1>1, <1>2, <4>3, <4>4 DEF Inv, FilesOK
    <3> QED BY <2>1, <3>2, <3>3, <3>4, <3>5
  <2> QED BY <1>3, <1>4, <2>2, <2>3
<1> QED BY <1>8, <1>9

\* What people wrote into a bundle or put in its place goes only with a file that
\* was written to between its comparison and its deletion.  An operation that is
\* undone without a further failure ends with the lock as it was or as git restored
\* it, no receipt that it wrote in full and none of the bundle it brought.
THEOREM FailsCleanly == Spec => FailureIsClean
<1> DEFINE KeptAt(s) == Edited(s) => Edited(s)' \/ \E c \in Clients : UnlinksEdit(c, s)
<1>1. ASSUME Inv, [Next]_vars, NEW s \in Sources, Edited(s)
      PROVE  Edited(s)' \/ \E c \in Clients : UnlinksEdit(c, s)
  <2>1. CASE bundles[s] = "edited"
    BY <1>1, <2>1, EditedStays DEF Edited
  <2>2. ASSUME NEW tree \in {"edited", "late"}, [source |-> s, tree |-> tree] \in left
        PROVE  Edited(s)'
    BY <1>1, <2>2, EditedStays DEF Edited
  <2>3. ASSUME NEW c \in Clients, held[c] \in {"edited", "late"}, Target(c) = s
        PROVE  Edited(s)' \/ UnlinksEdit(c, s)
    <3>1. CASE [source |-> s, tree |-> held[c]] \in left'
      BY <2>3, <3>1 DEF Edited
    <3>2. CASE /\ held'[c] \in {"edited", "late"} /\ op'[c].undo = op[c].undo
               /\ op'[c].source = op[c].source /\ op'[c].before = op[c].before
      <4>1. Target(c)' = s
        BY <2>3, <3>2 DEF Target, Old
      <4> QED BY <3>2, <4>1 DEF Edited
    <3>3. CASE op[c].step = "unlink" /\ held[c] = "late" /\ op'[c].step = "wipe"
      BY <2>3, <3>3 DEF UnlinksEdit
    <3> QED BY <1>1, <2>3, <3>1, <3>2, <3>3, HeldEdited
  <2> QED BY <1>1, <2>1, <2>2, <2>3 DEF Edited
<1>2. Inv /\ [Next]_vars => [\A s \in Sources : KeptAt(s)]_vars
  BY <1>1
<1> DEFINE Undone(c) ==
        /\ op[c] # Idle /\ op'[c] = Idle
        /\ op[c].step \in {"unreceipt", "unbundle", "match", "move", "wipe"} /\ op[c].undo
        /\ counts' = counts
        => /\ lock' \in {op[c].before, EmptyLock}
           /\ op[c].written => op[c].receipt \notin receipts'
           /\ Brings(c) => bundles'[op[c].source] # "whole"
<1>3. Inv /\ [Next]_vars => [\A c \in Clients : Undone(c)]_vars
  BY UndoneEnds
<1>4. Spec => EditsKept
  BY <1>2, Always, PTL DEF Spec, EditsKept
<1>5. Spec => UndoneIsAsBefore
  BY <1>3, Always, PTL DEF Spec, UndoneIsAsBefore
<1> QED BY <1>4, <1>5 DEF FailureIsClean
===============================================================================
