--------------------------- MODULE InferenceGate ---------------------------
(***************************************************************************)
(* The gate in front of one loaded model                                   *)
(* (src/localm/inference/inference_gate.py).  Up to `capacity' generations *)
(* hold it at once (kind SHARED), or one load, unload or eviction holds it *)
(* alone (kind EXCLUSIVE).  Waiters queue in arrival order.                *)
(*                                                                         *)
(* The gate lives on the event loop: a step is what one task does between  *)
(* two awaits, so every action is a whole call of the code, the trailing   *)
(* `_wake' included.  What the loop does interleave is the moment between  *)
(* a future being settled (granted or cancelled) and its task running      *)
(* again, hence the places "granted", "cancelled" and "revoked".           *)
(***************************************************************************)
EXTENDS Integers, FiniteSets, SequencesExt

CONSTANTS Task,            \* the tasks that use the gate
          CapacityValue    \* what callers assign to the gate's capacity

ASSUME GateAssumption == /\ IsFiniteSet(Task)
                         /\ CapacityValue \subseteq Int
                         /\ CapacityValue # {}

SHARED    == "shared"
EXCLUSIVE == "exclusive"
Kind      == {SHARED, EXCLUSIVE}

VARIABLES
  capacity,     \* _capacity
  shared,       \* _shared: generations holding the gate
  exclusive,    \* _exclusive: the gate is held alone
  waiters,      \* _waiters: the queued tasks, arrival order
  pc,           \* where each task is in its use of the gate
  kind          \* the kind each task asked for; "none" outside the gate

vars == <<capacity, shared, exclusive, waiters, pc, kind>>

(***************************************************************************)
(* "idle"       outside the gate                                           *)
(* "waiting"    queued, its future pending                                 *)
(* "cancelled"  its future cancelled, the task not yet run again           *)
(* "granted"    its future has its result, the task not yet run again      *)
(* "revoked"    granted, then cancelled before it ran again                *)
(* "holding"    inside the `with' block                                    *)
(***************************************************************************)
Place == {"idle", "waiting", "cancelled", "granted", "revoked", "holding"}

AtLeastOne(c) == IF c < 1 THEN 1 ELSE c

\* The tasks the counters account for: a place is taken at the grant.
Inside(p) == {t \in Task : p[t] \in {"granted", "revoked", "holding"}}
Live(p)   == {t \in Task : p[t] = "waiting"}
OfKind(S, k) == {t \in S : kind[t] = k}

\* _can, for given values of the capacity, the count and the flag.
CanTake(k, cap, sh, ex) ==
  /\ ~ex
  /\ IF k = EXCLUSIVE THEN sh = 0 ELSE sh < cap

\* The waiters in S can all be taken one after the other.
AllFit(S, cap, sh, ex) ==
  \/ S = {}
  \/ /\ ~ex /\ sh = 0
     /\ \E t \in S : S = {t} /\ kind[t] = EXCLUSIVE
  \/ /\ ~ex /\ sh + Cardinality(S) <= cap
     /\ \A t \in S : kind[t] = SHARED

(***************************************************************************)
(* _wake: from the front of the queue q, drop the settled entries and      *)
(* grant the pending ones, until a pending one does not fit.  The loop     *)
(* consumes the first n entries; there is exactly one such n.              *)
(***************************************************************************)
Wake(cap, sh, ex, q, p) ==
  \E n \in 0 .. Len(q) :
    LET Grant == {q[i] : i \in 1 .. n} \cap Live(p)
    IN /\ AllFit(Grant, cap, sh, ex)
       /\ shared' = sh + Cardinality(OfKind(Grant, SHARED))
       /\ exclusive' = (ex \/ OfKind(Grant, EXCLUSIVE) # {})
       /\ n < Len(q) =>
            /\ q[n + 1] \in Live(p)
            /\ ~CanTake(kind[q[n + 1]], cap, shared', exclusive')
       /\ waiters' = SubSeq(q, n + 1, Len(q))
       /\ pc' = [t \in Task |-> IF t \in Grant THEN "granted" ELSE p[t]]

\* Mutant of GiveBack: no _wake.
GiveBackNoWake(t) ==
  /\ shared' = IF kind[t] = SHARED THEN shared - 1 ELSE shared
  /\ exclusive' = IF kind[t] = EXCLUSIVE THEN FALSE ELSE exclusive
  /\ pc' = [pc EXCEPT ![t] = "idle"]
  /\ kind' = [kind EXCEPT ![t] = "none"]
  /\ UNCHANGED <<capacity, waiters>>

\* _give_back by task t, which leaves the gate: the counter, then _wake.
GiveBack(t) ==
  /\ kind[t] = SHARED => shared > 0            \* release() raises otherwise
  /\ Wake(capacity,
          IF kind[t] = SHARED THEN shared - 1 ELSE shared,
          IF kind[t] = EXCLUSIVE THEN FALSE ELSE exclusive,
          waiters,
          [pc EXCEPT ![t] = "idle"])
  /\ kind' = [kind EXCEPT ![t] = "none"]
  /\ UNCHANGED capacity
-----------------------------------------------------------------------------
Init ==
  /\ capacity \in {AtLeastOne(c) : c \in CapacityValue}
  /\ shared = 0
  /\ exclusive = FALSE
  /\ waiters = << >>
  /\ pc = [t \in Task |-> "idle"]
  /\ kind = [t \in Task |-> "none"]

\* _acquire, nobody queued and the place is free: taken without an await.
AcquireNow(t, k) ==
  /\ pc[t] = "idle"
  /\ waiters = << >>
  /\ CanTake(k, capacity, shared, exclusive)
  /\ IF k = EXCLUSIVE
       THEN exclusive' = TRUE /\ UNCHANGED shared
       ELSE shared' = shared + 1 /\ UNCHANGED exclusive
  /\ pc' = [pc EXCEPT ![t] = "holding"]
  /\ kind' = [kind EXCEPT ![t] = k]
  /\ UNCHANGED <<capacity, waiters>>

\* Mutant of Enqueue: queues at the front.
EnqueueAtFront(t, k) ==
  /\ pc[t] = "idle"
  /\ waiters # << >> \/ ~CanTake(k, capacity, shared, exclusive)
  /\ waiters' = <<t>> \o waiters
  /\ pc' = [pc EXCEPT ![t] = "waiting"]
  /\ kind' = [kind EXCEPT ![t] = k]
  /\ UNCHANGED <<capacity, shared, exclusive>>

\* _acquire, otherwise: queue behind every entry, settled ones included.
Enqueue(t, k) ==
  /\ pc[t] = "idle"
  /\ waiters # << >> \/ ~CanTake(k, capacity, shared, exclusive)
  /\ waiters' = Append(waiters, t)
  /\ pc' = [pc EXCEPT ![t] = "waiting"]
  /\ kind' = [kind EXCEPT ![t] = k]
  /\ UNCHANGED <<capacity, shared, exclusive>>

\* task.cancel() while the future is pending: the future is cancelled at
\* once, the queue entry stays until the task or a _wake removes it.
Cancel(t) ==
  /\ pc[t] = "waiting"
  /\ pc' = [pc EXCEPT ![t] = "cancelled"]
  /\ UNCHANGED <<capacity, shared, exclusive, waiters, kind>>

\* task.cancel() after the future got its result: the task will see the
\* CancelledError although the place is already its own.
CancelGranted(t) ==
  /\ pc[t] = "granted"
  /\ pc' = [pc EXCEPT ![t] = "revoked"]
  /\ UNCHANGED <<capacity, shared, exclusive, waiters, kind>>

\* The await returns: the task enters its `with' block.
Resume(t) ==
  /\ pc[t] = "granted"
  /\ pc' = [pc EXCEPT ![t] = "holding"]
  /\ UNCHANGED <<capacity, shared, exclusive, waiters, kind>>

\* Mutant of ResumeRevoked: the granted future is taken for a cancelled one.
ResumeRevokedAsCancelled(t) ==
  /\ pc[t] = "revoked"
  /\ Wake(capacity, shared, exclusive, waiters, [pc EXCEPT ![t] = "idle"])
  /\ kind' = [kind EXCEPT ![t] = "none"]
  /\ UNCHANGED capacity

\* The await raises and the future was granted: give the place back.
ResumeRevoked(t) ==
  /\ pc[t] = "revoked"
  /\ GiveBack(t)

\* Mutant of ResumeCancelled: the entry stays in the queue.
ResumeCancelledEntryStays(t) ==
  /\ pc[t] = "cancelled"
  /\ Wake(capacity, shared, exclusive, waiters, [pc EXCEPT ![t] = "idle"])
  /\ kind' = [kind EXCEPT ![t] = "none"]
  /\ UNCHANGED capacity

\* The await raises and the future was cancelled: remove the entry if a
\* _wake has not dropped it yet, then _wake.
ResumeCancelled(t) ==
  /\ pc[t] = "cancelled"
  /\ \/ \E i \in 1 .. Len(waiters) :
          /\ waiters[i] = t
          /\ Wake(capacity, shared, exclusive, RemoveAt(waiters, i),
                  [pc EXCEPT ![t] = "idle"])
     \/ /\ \A i \in 1 .. Len(waiters) : waiters[i] # t
        /\ Wake(capacity, shared, exclusive, waiters, [pc EXCEPT ![t] = "idle"])
  /\ kind' = [kind EXCEPT ![t] = "none"]
  /\ UNCHANGED capacity

\* The end of the `with' block, normal or by an exception.
Release(t) ==
  /\ pc[t] = "holding"
  /\ GiveBack(t)

\* Mutant of SetCapacity: no _wake after a raise.
SetCapacityNoWake(c) ==
  /\ c # capacity
  /\ capacity' = AtLeastOne(c)
  /\ UNCHANGED <<shared, exclusive, waiters, pc, kind>>

\* set_capacity: a changed value is clamped to 1 and _wake runs; a lower one
\* leaves the holders alone.
SetCapacity(c) ==
  /\ c # capacity
  /\ capacity' = AtLeastOne(c)
  /\ Wake(AtLeastOne(c), shared, exclusive, waiters, pc)
  /\ UNCHANGED kind

Next ==
  \/ \E t \in Task : \/ \E k \in Kind : AcquireNow(t, k) \/ Enqueue(t, k)
                     \/ Cancel(t) \/ CancelGranted(t)
                     \/ Resume(t) \/ ResumeRevoked(t) \/ ResumeCancelled(t)
                     \/ Release(t)
  \/ \E c \in CapacityValue : SetCapacity(c)

\* The event loop runs every task whose future is settled, and every holder
\* ends its generation, load or unload at some time.
Fairness ==
  \A t \in Task : /\ WF_vars(Resume(t))
                  /\ WF_vars(ResumeRevoked(t))
                  /\ WF_vars(ResumeCancelled(t))
                  /\ WF_vars(Release(t))

Spec == Init /\ [][Next]_vars
FairSpec == Spec /\ Fairness
-----------------------------------------------------------------------------
TypeOK ==
  /\ capacity \in Nat \ {0}
  /\ shared \in Nat
  /\ exclusive \in BOOLEAN
  /\ waiters \in Seq(Task)
  /\ pc \in [Task -> Place]
  /\ kind \in [Task -> Kind \cup {"none"}]

\* Every place the gate counts belongs to exactly one task inside it, the
\* granted-then-cancelled ones included: no place leaks when a cancellation
\* meets a grant, and none is given back twice.
PlacesAccounted ==
  /\ shared = Cardinality(OfKind(Inside(pc), SHARED))
  /\ exclusive = (OfKind(Inside(pc), EXCLUSIVE) # {})

\* An exclusive holder is alone inside: no generation and no second load,
\* unload or eviction runs beside it.
ExclusiveAlone ==
  \A t \in Inside(pc) : kind[t] = EXCLUSIVE => Inside(pc) = {t}

\* The queue holds each pending waiter exactly once, and beside them only
\* cancelled tasks that have not run again.
QueueIsTheWaiters ==
  /\ \A i, j \in 1 .. Len(waiters) : i # j => waiters[i] # waiters[j]
  /\ \A i \in 1 .. Len(waiters) : pc[waiters[i]] \in {"waiting", "cancelled"}
  /\ \A t \in Live(pc) : \E i \in 1 .. Len(waiters) : waiters[i] = t

\* No wake-up is lost: the head of the queue is a waiter that does not fit,
\* or a cancelled task, which runs _wake when it gets its CancelledError.
NoLostWakeup ==
  waiters # << >> /\ Head(waiters) \in Live(pc)
    => ~CanTake(kind[Head(waiters)], capacity, shared, exclusive)

\* First come, first served: no task gets in while one that queued before it
\* goes on waiting (a newcomer is behind everybody queued).
NobodyOvertaken ==
  \A i \in 1 .. Len(waiters) : \A u \in Inside(pc') \ Inside(pc) :
    waiters[i] \in Live(pc) /\ waiters[i] \in Live(pc')
      => \E j \in 1 .. (i - 1) : waiters[j] = u

FirstComeFirstServed == [][NobodyOvertaken]_vars

\* A generation gets in only while the gate, with it, is within the capacity
\* then in force; only holders from before a lowering may exceed it.
GenerationsFit ==
  \A u \in Inside(pc') \ Inside(pc) : kind'[u] = SHARED => shared' <= capacity'

AdmittedWithinCapacity == [][GenerationsFit]_vars

\* Every waiter gets in or is cancelled, exclusive ones under a stream of
\* generations included.
EveryWaiterIsServed ==
  \A t \in Task : pc[t] = "waiting" ~> pc[t] # "waiting"

\* The gate keeps the promise of FairAdmission: a task with a grant is inside
\* from the grant on, a cancelled one is out of line from the cancellation.
Admission ==
  INSTANCE FairAdmission
    WITH Shared <- SHARED, Exclusive <- EXCLUSIVE,
         limit  <- capacity,
         inside <- Inside(pc),
         line   <- Live(pc),
         ahead  <- {r \in Live(pc) \X Live(pc) :
                      \E i, j \in 1 .. Len(waiters) :
                        i < j /\ waiters[i] = r[1] /\ waiters[j] = r[2]},
         wants  <- [t \in Task |-> IF t \in Inside(pc) \cup Live(pc)
                                   THEN kind[t] ELSE "none"]

ImplementsAdmission == Admission!Spec
=============================================================================
