-------------------------- MODULE EnginePoolProofs --------------------------
(***************************************************************************)
(* What EnginePool keeps straight for every set of tasks and models.  A    *)
(* step changes the job of one task, and each part says what a step may do *)
(* to one piece of the bookkeeping, and that an invariant follows from it: *)
(*   - Moved, Publishes, Evicts: the published cancel event and the names  *)
(*     being evicted (BookInv), for any choice of jobs;                    *)
(*   - the registered engine of the active model, where no model is        *)
(*     unloaded for being idle;                                            *)
(*   - the gates' lines (LineInv): a job with a gate stands in that gate's *)
(*     line and in no other, and is at its head from the time it is let in;*)
(*   - a server with one model (Single): every job goes to the model's     *)
(*     gate, so loads, frees and replies exclude one another;              *)
(*   - Cancels: a cancel event is set only while its load is in progress   *)
(*     (RestInv), so that jobs that are over hold nothing;                 *)
(*   - the types (TypeInv), which rest on the operations of the LRU list;  *)
(*   - the first job to run (AloneInv): where it is tells what is loaded   *)
(*     outside the registry, listed though freed, or flagged (Registry),   *)
(*     and what a switch that evicted the active model will put right.     *)
(***************************************************************************)
EXTENDS EnginePool, FiniteSetTheorems, SequenceTheorems, WellFoundedInduction, TLAPS

\* What the argument reads of a job.
Fields  == {"pc", "victim", "m", "eng", "healing", "gate", "todo"}
Loading == {"load", "loaded", "not_loaded"}

\* Jobs are functions that have these fields.
Shaped == /\ job = [t \in Task |-> job[t]]
          /\ \A t \in Task : Fields \subseteq DOMAIN job[t]

\* A step of task t changes its own job only.
Moved(t) == /\ job' = [job EXCEPT ![t] = job'[t]]
            /\ Fields \subseteq DOMAIN job'[t]

\* It publishes its own event at most, for a load, and unpublishes it with
\* the load's end.
Publishes(t) == /\ publisher' \in {NONE, publisher, t}
                /\ publisher' = t /\ (publisher # t \/ job[t].pc \in Loading)
                     => job'[t].pc \in Loading

\* It adds the name it begins to free, and keeps no name it is done with.
Evicts(t) == \A m \in evicting' :
               \/ job'[t].pc \in {"free", "freed"} /\ job'[t].victim = m
               \/ m \in evicting /\ ~(job[t].pc \in {"free", "freed"} /\ job[t].victim = m)

\* A step that evicts at most one model, and records it.
Eviction(t) == \/ evicting' = evicting
               \/ /\ evicting' = evicting \cup {job'[t].victim}
                  /\ job'[t].pc = "free"

\* The inductive invariant.
BookInv == /\ Shaped
           /\ publisher \in Task \cup {NONE} /\ PublishedIsLoading
           /\ EvictingNamesAreFreed
-----------------------------------------------------------------------------
\* TryEvict frees the model it detaches (the eviction loop's last step).
LEMMA EvictionOfOne ==
  ASSUME Shaped, NEW t \in Task, NEW j, Fields \subseteq DOMAIN j, NEW v, NEW f,
         TryEvict(t, j, v, f)
  PROVE  Eviction(t)
<1> DEFINE took == [j EXCEPT !.pc = "free", !.victim = v, !.freed = engines[v]]
<1>1. took.pc = "free" /\ took.victim = v
  BY DEF Fields
<1>2. CASE evicting' = evicting
  BY <1>2 DEF Eviction
<1>3. CASE evicting' = evicting \cup {v} /\ job' = [job EXCEPT ![t] = took]
  <2> HIDE DEF took
  <2>1. job'[t] = took
    BY <1>3 DEF Shaped
  <2> QED BY <1>1, <1>3, <2>1 DEF Eviction
<1> QED BY <1>2, <1>3 DEF TryEvict, Become, pool

\* A task that was freeing nothing records what it begins to free.
LEMMA EvictionIsRecorded ==
  ASSUME NEW t \in Task, Eviction(t), job[t].pc \notin {"free", "freed"}
  PROVE  Evicts(t)
BY DEF Eviction, Evicts

\* A task that takes on another job with these fields moves.
LEMMA BecomeMoves ==
  ASSUME Shaped, NEW t \in Task, \E n : Fields \subseteq DOMAIN n /\ Become(t, n)
  PROVE  Moved(t)
BY DEF Become, Moved, Shaped

\* An unload of all models changes the job of its task, and evicts nothing.
LEMMA WalkMoves ==
  ASSUME Shaped, NEW t \in Task, NEW j, Fields \subseteq DOMAIN j, NEW l, NEW u,
         Walk(t, j, l, u)
  PROVE  Moved(t) /\ evicting' = evicting
<1>1. PICK S \in SUBSET j.todo : Walk(t, j, l, u)!(S)
  BY DEF Walk
<1> DEFINE k == [j EXCEPT !.todo = @ \ S,
                          !.kept = @ \cup {m \in S : engines[m] \in loaded}]
           Visit(m) == [k EXCEPT !.todo = @ \ {m}, !.m = m, !.eng = engines[m]]
<1>2. Fields \subseteq DOMAIN k /\ \A m : Fields \subseteq DOMAIN Visit(m)
  OBVIOUS
<1> HIDE DEF k
<1>3. \E n : Fields \subseteq DOMAIN n /\ job' = [job EXCEPT ![t] = n] /\ evicting' = evicting
  BY <1>1, <1>2 DEF Become, MarkAndQueue, Done, NoJob, Fields, k
<1> QED BY <1>3 DEF Moved, Shaped

\* What one step of a task does to its job, the event and the evicting names.
LEMMA TaskStep ==
  ASSUME Shaped, NEW t \in Task, NewJob(t) \/ JobStep(t)
  PROVE  Moved(t) /\ Publishes(t) /\ Evicts(t)
<1> USE PoolAssumption DEF At, Become, Explicit, pool, abort
<1>1. ASSUME NEW m \in Model, NEW b \in BOOLEAN, Request(t, m, b)
     PROVE  Moved(t) /\ Publishes(t) /\ Evicts(t)
  <2>1. Moved(t)
    BY <1>1 DEF Request, Touch, PinnedRequest, NoJob, Moved, Shaped, Fields
  <2>2. Publishes(t)
    BY <1>1 DEF Request, Touch, PinnedRequest, NoJob, Publishes, Shaped, Fields, Loading
  <2>3. Evicts(t)
    BY <1>1 DEF Request, Touch, PinnedRequest, NoJob, Evicts, Shaped, Fields
  <2> QED BY <2>1, <2>2, <2>3
<1>2. ASSUME NEW m \in Model, NEW b \in BOOLEAN, Switch(t, m, b)
     PROVE  Moved(t) /\ Publishes(t) /\ Evicts(t)
  <2>1. Moved(t)
    BY <1>2 DEF Switch, NoJob, Moved, Shaped, Fields
  <2>2. Publishes(t)
    BY <1>2 DEF Switch, NoJob, Publishes, Shaped, Fields, Loading
  <2>3. Evicts(t)
    BY <1>2 DEF Switch, NoJob, Evicts, Shaped, Fields
  <2> QED BY <2>1, <2>2, <2>3
<1>3. ASSUME NEW m \in Model, NEW b \in BOOLEAN, Unload(t, m, b)
     PROVE  Moved(t) /\ Publishes(t) /\ Evicts(t)
  <2>1. Moved(t)
    BY <1>3 DEF Unload, MarkAndQueue, NoJob, Moved, Shaped, Fields
  <2>2. Publishes(t)
    BY <1>3 DEF Unload, MarkAndQueue, NoJob, Publishes, Shaped, Fields, Loading
  <2>3. Evicts(t)
    BY <1>3 DEF Unload, MarkAndQueue, NoJob, Evicts, Shaped, Fields
  <2> QED BY <2>1, <2>2, <2>3
<1>4. ASSUME NEW m \in Model, IdleUnload(t, m)
     PROVE  Moved(t) /\ Publishes(t) /\ Evicts(t)
  <2>1. Moved(t)
    BY <1>4 DEF IdleUnload, NoJob, Moved, Shaped, Fields
  <2>2. Publishes(t)
    BY <1>4 DEF IdleUnload, NoJob, Publishes, Shaped, Fields, Loading
  <2>3. Evicts(t)
    BY <1>4 DEF IdleUnload, NoJob, Evicts, Shaped, Fields
  <2> QED BY <2>1, <2>2, <2>3
<1>5. QueueSwitch(t) => Moved(t) /\ Publishes(t) /\ Evicts(t)
  <2> HAVE QueueSwitch(t)
  <2>1. Moved(t)
    <3>1. \E n : Fields \subseteq DOMAIN n /\ Become(t, n)
      BY DEF QueueSwitch, EnterSwitch, Reuse, Touch, AfterSwitch, PinnedRequest,
         Done, NoJob, Shaped, Fields
    <3> QED BY <3>1, BecomeMoves
  <2>2. Publishes(t)
    BY DEF QueueSwitch, EnterSwitch, Reuse, Touch, AfterSwitch, PinnedRequest, Done,
       NoJob, Publishes, Shaped, Fields, Loading
  <2>3. Evicts(t)
    BY DEF QueueSwitch, EnterSwitch, Reuse, Touch, AfterSwitch, PinnedRequest, Done,
       NoJob, Evicts, Shaped, Fields
  <2> QED BY <2>1, <2>2, <2>3
<1>6. GateGranted(t) => Moved(t) /\ Publishes(t) /\ Evicts(t)
  <2> HAVE GateGranted(t)
  <2>1. Moved(t)
    <3>1. \E n : Fields \subseteq DOMAIN n /\ Become(t, n)
      BY DEF GateGranted, EnterSwitch, Reuse, Touch, AfterSwitch, PinnedRequest,
         Done, NoJob, Shaped, Fields
    <3> QED BY <3>1, BecomeMoves
  <2>2. Publishes(t)
    BY DEF GateGranted, EnterSwitch, Reuse, Touch, AfterSwitch, PinnedRequest, Done,
       NoJob, Publishes, Shaped, Fields, Loading
  <2>3. Evicts(t)
    BY DEF GateGranted, EnterSwitch, Reuse, Touch, AfterSwitch, PinnedRequest, Done,
       NoJob, Evicts, Shaped, Fields
  <2> QED BY <2>1, <2>2, <2>3
<1>7. Recheck(t) => Moved(t) /\ Publishes(t) /\ Evicts(t)
  <2> HAVE Recheck(t)
  <2>1. Moved(t)
    <3>1. \E n : Fields \subseteq DOMAIN n /\ Become(t, n)
      BY DEF Recheck, Detach, Reuse, Touch, AfterSwitch, PinnedRequest, Done,
         NoJob, Shaped, Fields
    <3> QED BY <3>1, BecomeMoves
  <2>2. Publishes(t)
    BY DEF Recheck, Detach, Reuse, Touch, AfterSwitch, PinnedRequest, Done, NoJob,
       Publishes, Shaped, Fields, Loading
  <2>3. Evicts(t)
    BY DEF Recheck, Detach, Reuse, Touch, AfterSwitch, PinnedRequest, Done, NoJob,
       Evicts, Shaped, Fields
  <2> QED BY <2>1, <2>2, <2>3
<1>8. Budget(t) => Moved(t) /\ Publishes(t) /\ Evicts(t)
  <2> HAVE Budget(t)
  <2>1. Moved(t)
    <3>1. \E n : Fields \subseteq DOMAIN n /\ Become(t, n)
      BY DEF Budget, Done, NoJob, Shaped, Fields
    <3> QED BY <3>1, BecomeMoves
  <2>2. Publishes(t)
    BY DEF Budget, Done, NoJob, Publishes, Shaped, Fields, Loading
  <2>3. Evicts(t)
    <3> DEFINE j == [job[t] EXCEPT !.prior = active]
               k == [j EXCEPT !.pc = "free", !.victim = j.m, !.freed = j.eng]
    <3>1. k.pc = "free" /\ k.victim = j.m /\ job[t].pc = "budget"
      BY DEF Budget, Shaped, Fields
    <3>2. CASE evicting' = evicting
      BY <3>1, <3>2 DEF Evicts
    <3>3. CASE evicting' = evicting \cup {j.m} /\ job' = [job EXCEPT ![t] = k]
      <4> HIDE DEF k, j
      <4>1. job'[t] = k
        BY <3>3 DEF Shaped
      <4> QED BY <3>1, <3>3, <4>1 DEF Evicts
    <3> QED BY <3>2, <3>3 DEF Budget
  <2> QED BY <2>1, <2>2, <2>3
<1>9. Probe(t) => Moved(t) /\ Publishes(t) /\ Evicts(t)
  <2> HAVE Probe(t)
  <2>1. Moved(t)
    <3>1. \E n : Fields \subseteq DOMAIN n /\ Become(t, n)
      BY DEF Probe, BeginLoad, GiveUp, TryEvict, Detach, Done, NoJob, Shaped,
         Fields
    <3> QED BY <3>1, BecomeMoves
  <2>2. Publishes(t)
    BY DEF Probe, BeginLoad, GiveUp, TryEvict, Detach, Done, NoJob, Publishes,
       Shaped, Fields, Loading
  <2>3. Evicts(t)
    <3>1. CASE evicting' = evicting
      BY <3>1 DEF Probe, Evicts
    <3>2. CASE \E j, v, f : Fields \subseteq DOMAIN j /\ TryEvict(t, j, v, f)
      BY <3>2, EvictionOfOne, EvictionIsRecorded DEF Probe
    <3>3. /\ Fields \subseteq DOMAIN job[t]
          /\ Fields \subseteq DOMAIN [job[t] EXCEPT !.tried = TRUE]
      BY DEF Shaped, Fields
    <3> QED BY <3>1, <3>2, <3>3 DEF Probe, BeginLoad, GiveUp
  <2> QED BY <2>1, <2>2, <2>3
<1>10. Ladder(t) => Moved(t) /\ Publishes(t) /\ Evicts(t)
  <2> HAVE Ladder(t)
  <2>1. Moved(t)
    <3>1. \E n : Fields \subseteq DOMAIN n /\ Become(t, n)
      BY DEF Ladder, BeginLoad, GiveUp, TryEvict, Detach, Done, NoJob, Shaped,
         Fields
    <3> QED BY <3>1, BecomeMoves
  <2>2. Publishes(t)
    BY DEF Ladder, BeginLoad, GiveUp, TryEvict, Detach, Done, NoJob, Publishes,
       Shaped, Fields, Loading
  <2>3. Evicts(t)
    <3>1. CASE evicting' = evicting
      BY <3>1 DEF Ladder, Evicts
    <3>2. CASE \E j, v, f : Fields \subseteq DOMAIN j /\ TryEvict(t, j, v, f)
      BY <3>2, EvictionOfOne, EvictionIsRecorded DEF Ladder
    <3>3. /\ Fields \subseteq DOMAIN job[t]
          /\ Fields \subseteq DOMAIN [job[t] EXCEPT !.tried = TRUE]
      BY DEF Shaped, Fields
    <3> QED BY <3>1, <3>2, <3>3 DEF Ladder, BeginLoad, GiveUp
  <2> QED BY <2>1, <2>2, <2>3
<1>11. BusyWaitEnds(t) => Moved(t) /\ Publishes(t) /\ Evicts(t)
  <2> HAVE BusyWaitEnds(t)
  <2>1. Moved(t)
    <3>1. \E n : Fields \subseteq DOMAIN n /\ Become(t, n)
      BY DEF BusyWaitEnds, GiveUp, TryEvict, Detach, Done, NoJob, Shaped, Fields
    <3> QED BY <3>1, BecomeMoves
  <2>2. Publishes(t)
    BY DEF BusyWaitEnds, GiveUp, TryEvict, Detach, Done, NoJob, Publishes, Shaped,
       Fields, Loading
  <2>3. Evicts(t)
    <3>1. CASE evicting' = evicting
      BY <3>1 DEF BusyWaitEnds, Evicts
    <3>2. CASE \E j, v, f : Fields \subseteq DOMAIN j /\ TryEvict(t, j, v, f)
      BY <3>2, EvictionOfOne, EvictionIsRecorded DEF BusyWaitEnds
    <3>3. /\ Fields \subseteq DOMAIN job[t]
          /\ Fields \subseteq DOMAIN [job[t] EXCEPT !.tried = TRUE]
      BY DEF Shaped, Fields
    <3> QED BY <3>1, <3>2, <3>3 DEF BusyWaitEnds, BeginLoad, GiveUp
  <2> QED BY <2>1, <2>2, <2>3
<1>12. Confirm(t) => Moved(t) /\ Publishes(t) /\ Evicts(t)
  <2> HAVE Confirm(t)
  <2>1. Moved(t)
    <3>1. \E n : Fields \subseteq DOMAIN n /\ Become(t, n)
      BY DEF Confirm, GiveUp, TryEvict, Detach, Done, NoJob, Shaped, Fields
    <3> QED BY <3>1, BecomeMoves
  <2>2. Publishes(t)
    BY DEF Confirm, GiveUp, TryEvict, Detach, Done, NoJob, Publishes, Shaped,
       Fields, Loading
  <2>3. Evicts(t)
    <3>1. CASE evicting' = evicting
      BY <3>1 DEF Confirm, Evicts
    <3>2. CASE \E j, v, f : Fields \subseteq DOMAIN j /\ TryEvict(t, j, v, f)
      BY <3>2, EvictionOfOne, EvictionIsRecorded DEF Confirm
    <3>3. /\ Fields \subseteq DOMAIN job[t]
          /\ Fields \subseteq DOMAIN [job[t] EXCEPT !.tried = TRUE]
      BY DEF Shaped, Fields
    <3> QED BY <3>1, <3>2, <3>3 DEF Confirm, BeginLoad, GiveUp
  <2> QED BY <2>1, <2>2, <2>3
<1>13. Freed(t) => Moved(t) /\ Publishes(t) /\ Evicts(t)
  <2> HAVE Freed(t)
  <2>1. Moved(t)
    BY DEF Freed, Moved, Shaped, Fields
  <2>2. Publishes(t)
    BY DEF Freed, Publishes, Shaped, Fields, Loading
  <2>3. Evicts(t)
    BY DEF Freed, Evicts, Shaped, Fields
  <2> QED BY <2>1, <2>2, <2>3
<1>14. LoadFailed(t) => Moved(t) /\ Publishes(t) /\ Evicts(t)
  <2> HAVE LoadFailed(t)
  <2>1. Moved(t)
    BY DEF LoadFailed, Unpublish, GiveUp, Done, NoJob, Moved, Shaped, Fields
  <2>2. Publishes(t)
    BY DEF LoadFailed, Unpublish, GiveUp, Done, NoJob, Publishes, Shaped, Fields,
       Loading
  <2>3. Evicts(t)
    BY DEF LoadFailed, Unpublish, GiveUp, Done, NoJob, Evicts, Shaped, Fields
  <2> QED BY <2>1, <2>2, <2>3
<1>15. Commit(t) => Moved(t) /\ Publishes(t) /\ Evicts(t)
  <2> HAVE Commit(t)
  <2>1. Moved(t)
    BY DEF Commit, Unpublish, AfterSwitch, PinnedRequest, Done, NoJob, Moved,
       Shaped, Fields
  <2>2. Publishes(t)
    BY DEF Commit, Unpublish, AfterSwitch, PinnedRequest, Done, NoJob, Publishes,
       Shaped, Fields, Loading
  <2>3. Evicts(t)
    BY DEF Commit, Unpublish, AfterSwitch, PinnedRequest, Done, NoJob, Evicts,
       Shaped, Fields
  <2> QED BY <2>1, <2>2, <2>3
<1>16. Prepared(t) => Moved(t) /\ Publishes(t) /\ Evicts(t)
  <2> HAVE Prepared(t)
  <2>1. Moved(t)
    <3>1. \E n : Fields \subseteq DOMAIN n /\ Become(t, n)
      BY DEF Prepared, Done, NoJob, Shaped, Fields
    <3> QED BY <3>1, BecomeMoves
  <2>2. Publishes(t)
    BY DEF Prepared, Done, NoJob, Publishes, Shaped, Fields, Loading
  <2>3. Evicts(t)
    BY DEF Prepared, Done, NoJob, Evicts, Shaped, Fields
  <2> QED BY <2>1, <2>2, <2>3
<1>17. Produce(t) => Moved(t) /\ Publishes(t) /\ Evicts(t)
  <2> HAVE Produce(t)
  <2>1. Moved(t)
    BY DEF Produce, Moved, Shaped, Fields
  <2>2. Publishes(t)
    BY DEF Produce, Publishes, Shaped, Fields, Loading
  <2>3. Evicts(t)
    BY DEF Produce, Evicts, Shaped, Fields
  <2> QED BY <2>1, <2>2, <2>3
<1>18. Replied(t) => Moved(t) /\ Publishes(t) /\ Evicts(t)
  <2> HAVE Replied(t)
  <2>1. Moved(t)
    BY DEF Replied, Done, NoJob, Moved, Shaped, Fields
  <2>2. Publishes(t)
    BY DEF Replied, Done, NoJob, Publishes, Shaped, Fields, Loading
  <2>3. Evicts(t)
    BY DEF Replied, Done, NoJob, Evicts, Shaped, Fields
  <2> QED BY <2>1, <2>2, <2>3
<1>19. UnloadWaitEnds(t) => Moved(t) /\ Publishes(t) /\ Evicts(t)
  <2> HAVE UnloadWaitEnds(t)
  <2>1. Moved(t)
    <3>1. \E n : Fields \subseteq DOMAIN n /\ Become(t, n)
      BY DEF UnloadWaitEnds, MarkAndQueue, Done, NoJob, Shaped, Fields
    <3> QED BY <3>1, BecomeMoves
  <2>2. Publishes(t)
    BY DEF UnloadWaitEnds, MarkAndQueue, Done, NoJob, Publishes, Shaped, Fields, Loading
  <2>3. Evicts(t)
    BY DEF UnloadWaitEnds, MarkAndQueue, Done, NoJob, Evicts, Shaped, Fields
  <2> QED BY <2>1, <2>2, <2>3
<1>20. UnloadGranted(t) => Moved(t) /\ Publishes(t) /\ Evicts(t)
  <2> HAVE UnloadGranted(t)
  <2>1. Moved(t)
    BY DEF UnloadGranted, Moved, Shaped, Fields
  <2>2. Publishes(t)
    BY DEF UnloadGranted, Publishes, Shaped, Fields, Loading
  <2>3. Evicts(t)
    BY DEF UnloadGranted, Evicts, Shaped, Fields
  <2> QED BY <2>1, <2>2, <2>3
<1>21. Unloaded(t) => Moved(t) /\ Publishes(t) /\ Evicts(t)
  <2> HAVE Unloaded(t)
  <2>1. Moved(t)
    BY DEF Unloaded, Done, NoJob, Moved, Shaped, Fields
  <2>2. Publishes(t)
    BY DEF Unloaded, Done, NoJob, Publishes, Shaped, Fields, Loading
  <2>3. Evicts(t)
    BY DEF Unloaded, Done, NoJob, Evicts, Shaped, Fields
  <2> QED BY <2>1, <2>2, <2>3
<1>22. IdleGranted(t) => Moved(t) /\ Publishes(t) /\ Evicts(t)
  <2> HAVE IdleGranted(t)
  <2>1. Moved(t)
    BY DEF IdleGranted, Done, NoJob, Moved, Shaped, Fields
  <2>2. Publishes(t)
    BY DEF IdleGranted, Done, NoJob, Publishes, Shaped, Fields, Loading
  <2>3. Evicts(t)
    BY DEF IdleGranted, Done, NoJob, Evicts, Shaped, Fields
  <2> QED BY <2>1, <2>2, <2>3
<1>23. IdleFreed(t) => Moved(t) /\ Publishes(t) /\ Evicts(t)
  <2> HAVE IdleFreed(t)
  <2>1. Moved(t)
    BY DEF IdleFreed, Done, NoJob, Moved, Shaped, Fields
  <2>2. Publishes(t)
    BY DEF IdleFreed, Done, NoJob, Publishes, Shaped, Fields, Loading
  <2>3. Evicts(t)
    BY DEF IdleFreed, Done, NoJob, Evicts, Shaped, Fields
  <2> QED BY <2>1, <2>2, <2>3
<1>24. FreeEnds(t) => Moved(t) /\ Publishes(t) /\ Evicts(t)
  <2> HAVE FreeEnds(t)
  <2>1. Moved(t)
    BY DEF FreeEnds, Moved, Shaped, Fields
  <2>2. Publishes(t)
    BY DEF FreeEnds, Publishes, Shaped, Fields, Loading
  <2>3. Evicts(t)
    BY DEF FreeEnds, Evicts, Shaped, Fields
  <2> QED BY <2>1, <2>2, <2>3
<1>25. LoadEnds(t) => Moved(t) /\ Publishes(t) /\ Evicts(t)
  <2> HAVE LoadEnds(t)
  <2>1. Moved(t)
    BY DEF LoadEnds, Moved, Shaped, Fields
  <2>2. Publishes(t)
    BY DEF LoadEnds, Publishes, Shaped, Fields, Loading
  <2>3. Evicts(t)
    BY DEF LoadEnds, Evicts, Shaped, Fields
  <2> QED BY <2>1, <2>2, <2>3
<1>26. LazyLoadEnds(t) => Moved(t) /\ Publishes(t) /\ Evicts(t)
  <2> HAVE LazyLoadEnds(t)
  <2>1. Moved(t)
    BY DEF LazyLoadEnds, Moved, Shaped, Fields
  <2>2. Publishes(t)
    BY DEF LazyLoadEnds, Publishes, Shaped, Fields, Loading
  <2>3. Evicts(t)
    BY DEF LazyLoadEnds, Evicts, Shaped, Fields
  <2> QED BY <2>1, <2>2, <2>3
<1>27. UnloadEnds(t) => Moved(t) /\ Publishes(t) /\ Evicts(t)
  <2> HAVE UnloadEnds(t)
  <2>1. Moved(t)
    BY DEF UnloadEnds, Moved, Shaped, Fields
  <2>2. Publishes(t)
    BY DEF UnloadEnds, Publishes, Shaped, Fields, Loading
  <2>3. Evicts(t)
    BY DEF UnloadEnds, Evicts, Shaped, Fields
  <2> QED BY <2>1, <2>2, <2>3
<1>28. IdleFreeEnds(t) => Moved(t) /\ Publishes(t) /\ Evicts(t)
  <2> HAVE IdleFreeEnds(t)
  <2>1. Moved(t)
    BY DEF IdleFreeEnds, Moved, Shaped, Fields
  <2>2. Publishes(t)
    BY DEF IdleFreeEnds, Publishes, Shaped, Fields, Loading
  <2>3. Evicts(t)
    BY DEF IdleFreeEnds, Evicts, Shaped, Fields
  <2> QED BY <2>1, <2>2, <2>3
<1>29. ASSUME NEW b \in BOOLEAN, UnloadAll(t, b)
      PROVE  Moved(t) /\ Publishes(t) /\ Evicts(t)
  <2>1. Moved(t) /\ evicting' = evicting
    BY <1>29, WalkMoves DEF UnloadAll, NoJob, Moved, Shaped, Fields
  <2>2. Publishes(t)
    BY <1>29 DEF UnloadAll, NoJob, Publishes, Loading
  <2>3. Evicts(t)
    BY <1>29, <2>1 DEF UnloadAll, NoJob, Evicts
  <2> QED BY <2>1, <2>2, <2>3
<1>30. AllWaitEnds(t) => Moved(t) /\ Publishes(t) /\ Evicts(t)
  <2> HAVE AllWaitEnds(t)
  <2>1. Moved(t) /\ evicting' = evicting
    BY WalkMoves DEF AllWaitEnds, MarkAndQueue, Done, NoJob, Moved, Shaped, Fields
  <2>2. Publishes(t)
    BY DEF AllWaitEnds, Publishes, Loading
  <2>3. Evicts(t)
    BY <2>1 DEF AllWaitEnds, Evicts
  <2> QED BY <2>1, <2>2, <2>3
<1>31. ReadingTaken(t) => Moved(t) /\ Publishes(t) /\ Evicts(t)
  <2> HAVE ReadingTaken(t)
  <2>1. Moved(t) /\ evicting' = evicting
    BY WalkMoves DEF ReadingTaken, MarkAndQueue, Done, NoJob, Moved, Shaped, Fields
  <2>2. Publishes(t)
    BY DEF ReadingTaken, Publishes, Loading
  <2>3. Evicts(t)
    BY <2>1 DEF ReadingTaken, Evicts
  <2> QED BY <2>1, <2>2, <2>3
<1>32. UnloadedGoOn(t) => Moved(t) /\ Publishes(t) /\ Evicts(t)
  <2> HAVE UnloadedGoOn(t)
  <2>1. Moved(t) /\ evicting' = evicting
    BY WalkMoves DEF UnloadedGoOn, MarkAndQueue, Done, NoJob, Moved, Shaped, Fields
  <2>2. Publishes(t)
    BY DEF UnloadedGoOn, Publishes, Loading
  <2>3. Evicts(t)
    BY <2>1 DEF UnloadedGoOn, Evicts
  <2> QED BY <2>1, <2>2, <2>3
<1>33. AllReleased(t) => Moved(t) /\ Publishes(t) /\ Evicts(t)
  <2> HAVE AllReleased(t)
  <2>1. Moved(t) /\ evicting' = evicting
    BY WalkMoves DEF AllReleased, MarkAndQueue, Done, NoJob, Moved, Shaped, Fields
  <2>2. Publishes(t)
    BY DEF AllReleased, Publishes, Loading
  <2>3. Evicts(t)
    BY <2>1 DEF AllReleased, Evicts
  <2> QED BY <2>1, <2>2, <2>3
<1>34. Abandon(t) => Moved(t) /\ Publishes(t) /\ Evicts(t)
  <2> HAVE Abandon(t)
  <2>1. Moved(t)
    BY DEF Abandon, Moved, Shaped, Fields
  <2>2. Publishes(t)
    BY DEF Abandon, Publishes, Shaped, Fields, Loading
  <2>3. Evicts(t)
    BY DEF Abandon, Evicts, Shaped, Fields
  <2> QED BY <2>1, <2>2, <2>3
<1>35. AbandonedEnds(t) => Moved(t) /\ Publishes(t) /\ Evicts(t)
  <2> HAVE AbandonedEnds(t)
  <2>1. Moved(t)
    BY DEF AbandonedEnds, Done, NoJob, Moved, Shaped, Fields
  <2>2. Publishes(t)
    BY DEF AbandonedEnds, Done, NoJob, Publishes, Shaped, Fields, Loading
  <2>3. Evicts(t)
    BY DEF AbandonedEnds, Done, NoJob, Evicts, Shaped, Fields
  <2> QED BY <2>1, <2>2, <2>3
<1> QED
  BY <1>1, <1>2, <1>3, <1>4, <1>5, <1>6, <1>7, <1>8, <1>9, <1>10, <1>11, <1>12, <1>13,
     <1>14, <1>15, <1>16, <1>17, <1>18, <1>19, <1>20, <1>21, <1>22, <1>23, <1>24, <1>25,
     <1>26, <1>27, <1>28, <1>29, <1>30, <1>31, <1>32, <1>33, <1>34, <1>35
     DEF Next, NewJob, JobStep, LoopStep, ThreadStep

\* A task's step keeps the invariant, whatever the other tasks are doing.
LEMMA StepKeepsBook ==
  ASSUME BookInv, NEW t \in Task, Moved(t), Publishes(t), Evicts(t)
  PROVE  BookInv'
<1> USE PoolAssumption DEF BookInv
<1>1. \A u \in Task \ {t} : job'[u] = job[u]
  BY DEF Moved, Shaped
<1>2. Shaped'
  BY <1>1 DEF Moved, Shaped
<1>3. publisher' \in Task \cup {NONE} /\ PublishedIsLoading'
  BY <1>1 DEF Publishes, PublishedIsLoading, Loading
<1>4. EvictingNamesAreFreed'
  <2> SUFFICES ASSUME NEW m \in evicting'
               PROVE  \E u \in Task : job'[u].pc \in {"free", "freed"} /\ job'[u].victim = m
    BY DEF EvictingNamesAreFreed
  <2>1. CASE job'[t].pc \in {"free", "freed"} /\ job'[t].victim = m
    BY <2>1
  <2>2. CASE m \in evicting /\ ~(job[t].pc \in {"free", "freed"} /\ job[t].victim = m)
    BY <1>1, <2>2 DEF EvictingNamesAreFreed
  <2> QED BY <2>1, <2>2 DEF Evicts
<1> QED BY <1>2, <1>3, <1>4

\* The bookkeeping holds from the start and across every step.
THEOREM Bookkeeping == Spec => []BookInv
<1>1. Init => BookInv
  BY PoolAssumption DEF Init, BookInv, Shaped, Fields, NoJob, PublishedIsLoading,
     EvictingNamesAreFreed
<1>2. BookInv /\ [Next]_vars => BookInv'
  <2> SUFFICES ASSUME BookInv, [Next]_vars PROVE BookInv'
    OBVIOUS
  <2>1. CASE Next
    <3>1. PICK t \in Task : NewJob(t) \/ JobStep(t)
      BY <2>1 DEF Next
    <3>2. Moved(t) /\ Publishes(t) /\ Evicts(t)
      BY <3>1, TaskStep DEF BookInv
    <3> QED BY <3>2, StepKeepsBook
  <2>2. CASE UNCHANGED vars
    BY <2>2 DEF vars, pool, abort, BookInv, Shaped, PublishedIsLoading,
       EvictingNamesAreFreed
  <2> QED BY <2>1, <2>2
<1> QED BY <1>1, <1>2, PTL DEF Spec

\* The cancel event a newer switch would set belongs to a load in progress.
THEOREM Published == Spec => []PublishedIsLoading
<1>1. BookInv => PublishedIsLoading
  BY DEF BookInv
<1> QED BY <1>1, Bookkeeping, PTL

\* No name stays in _evicting_names after its free: no model is refused for good.
THEOREM EvictingFreed == Spec => []EvictingNamesAreFreed
<1>1. BookInv => EvictingNamesAreFreed
  BY DEF BookInv
<1> QED BY <1>1, Bookkeeping, PTL
-----------------------------------------------------------------------------
(* The active model, where idle models are not unloaded. *)

\* switch_engine, from its call to its commit.
Switching == {"called", "gate", "recheck", "budget", "probe", "ladder", "wait_busy",
              "confirm", "free", "freed", "load", "loaded", "not_loaded"}

\* A job knows the model it switches to, and the engine it reloads or loads.
Knows(j) ==
  /\ j.pc \in Switching => j.m \in Model /\ (j.healing => j.eng # NONE)
  /\ j.pc \in {"called", "gate", "recheck"} => ~j.healing
  /\ j.pc \in {"recheck", "load", "loaded"} => j.eng # NONE
  /\ j.pc \notin {"idle_gate", "idle_free", "idle_freed"}

ActiveInv == /\ Shaped /\ \A t \in Task : Knows(job[t])
             /\ engines = [m \in Model |-> engines[m]]
             /\ ActiveIsRegistered

\* What a step leaves of the registry.
Registers == /\ engines' = [m \in Model |-> engines'[m]]
             /\ ActiveIsRegistered'
-----------------------------------------------------------------------------
\* A task that takes on a job with this knowledge has it.
LEMMA BecomeKnows ==
  ASSUME Shaped, NEW t \in Task, \E n : Knows(n) /\ Become(t, n)
  PROVE  Knows(job'[t])
BY DEF Become, Shaped

\* The registry is left alone, and the active model with it or dropped.
LEMMA Undisturbed ==
  ASSUME ActiveInv, engines' = engines, active' \in {active, NONE}
  PROVE  Registers
BY DEF ActiveInv, Registers, ActiveIsRegistered

\* An evicted model is not the active one any more.
LEMMA DetachRegisters ==
  ASSUME ActiveInv, NEW v, NEW e, NEW a, NEW k, Detach(v, e, a, k)
  PROVE  Registers
BY DEF ActiveInv, Registers, Detach, ActiveIsRegistered

LEMMA EvictionRegisters ==
  ASSUME ActiveInv, NEW t \in Task, NEW j, NEW v, NEW f, Fields \subseteq DOMAIN j,
         Knows(j), j.pc \in Switching \ {"called", "gate", "recheck"}, TryEvict(t, j, v, f)
  PROVE  Registers /\ Knows(job'[t])
<1>1. Registers
  BY DetachRegisters, Undisturbed DEF TryEvict, pool
<1>2. \E n : Knows(n) /\ Become(t, n)
  BY DEF TryEvict, Knows, Switching, Fields
<1> QED BY <1>1, <1>2, BecomeKnows DEF ActiveInv

\* A switch that gives up has nothing to know.
LEMMA GivenUp ==
  ASSUME ActiveInv, NEW t \in Task, GiveUp(t)
  PROVE  Registers /\ Knows(job'[t])
<1>1. \E n : Knows(n) /\ Become(t, n)
  BY DEF GiveUp, Done, NoJob, Knows, Switching
<1>2. Registers
  BY Undisturbed DEF GiveUp
<1> QED BY <1>1, <1>2, BecomeKnows DEF ActiveInv

\* There is an object of each model.
LEMMA FirstObject == \A m \in Model : <<m, 1>> \in Objects /\ <<m, 1>> # NONE
<1>1. Cardinality(Task) \in Nat /\ Copies \in Nat /\ Copies > Cardinality(Task)
  BY PoolAssumption, FS_CardinalityType
<1>2. 1 \in 1 .. Copies
  BY <1>1
<1> QED BY <1>2, PoolAssumption DEF Objects

\* A load begins with an engine: the one reloaded, the registered one or a new
\* one.
LEMMA LoadKnows ==
  ASSUME ActiveInv, NEW t \in Task, NEW j, Fields \subseteq DOMAIN j,
         Knows(j), j.pc \in Switching \ {"called", "gate", "recheck"}, BeginLoad(t, j)
  PROVE  Registers /\ Knows(job'[t])
<1>1. Registers
  BY Undisturbed DEF BeginLoad, GiveUp
<1>2. NewEngine(j.m) # {} => AnyOf(NewEngine(j.m)) # NONE
  BY PoolAssumption DEF AnyOf, NewEngine, Object, Knows
<1>3. \E n : Knows(n) /\ Become(t, n)
  BY <1>2 DEF BeginLoad, GiveUp, Done, NoJob, Knows, Switching, Fields
<1> QED BY <1>1, <1>3, BecomeKnows DEF ActiveInv

\* Entering the gate: a resident model becomes the active one, or nothing does.
LEMMA EnterRegisters ==
  ASSUME ActiveInv, NEW t \in Task, NEW j, NEW l, NEW w, Fields \subseteq DOMAIN j,
         Knows(j), j.pc = "gate", EnterSwitch(t, j, l, w)
  PROVE  Registers /\ Knows(job'[t])
<1>1. Registers
  BY DEF EnterSwitch, Reuse, Reusable, Registers, ActiveInv, ActiveIsRegistered
<1>2. \E n : Knows(n) /\ Become(t, n)
  BY DEF EnterSwitch, Reuse, Reusable, AfterSwitch, PinnedRequest, Done, NoJob, Knows, Switching,
         Fields
<1> QED BY <1>1, <1>2, BecomeKnows DEF ActiveInv

LEMMA WalkRegisters ==
  ASSUME ActiveInv, NEW t \in Task, NEW j, Fields \subseteq DOMAIN j, NEW l, NEW u,
         Walk(t, j, l, u)
  PROVE  Registers /\ Knows(job'[t])
<1>1. PICK S \in SUBSET j.todo : Walk(t, j, l, u)!(S)
  BY DEF Walk
<1> DEFINE k == [j EXCEPT !.todo = @ \ S,
                          !.kept = @ \cup {m \in S : engines[m] \in loaded}]
           Visit(m) == [k EXCEPT !.todo = @ \ {m}, !.m = m, !.eng = engines[m]]
<1>2. Fields \subseteq DOMAIN k /\ \A m : Fields \subseteq DOMAIN Visit(m)
  OBVIOUS
<1> HIDE DEF k
<1>3. \E n : Knows(n) /\ Become(t, n) /\ engines' = engines /\ active' = active
  BY <1>1, <1>2 DEF Become, MarkAndQueue, Done, NoJob, Fields, Knows, Switching, k
<1> QED BY <1>3, BecomeKnows, Undisturbed DEF ActiveInv

\* Every step of a task.
LEMMA TaskRegisters ==
  ASSUME ActiveInv, "idle_unload" \notin Kinds, NEW t \in Task, NewJob(t) \/ JobStep(t)
  PROVE  Registers /\ Knows(job'[t])
<1> USE PoolAssumption DEF At, Become, Explicit, pool, abort
<1> Shaped /\ Knows(job[t]) /\ Fields \subseteq DOMAIN job[t]
  BY DEF ActiveInv, Shaped
<1>1. ASSUME NEW m \in Model, NEW b \in BOOLEAN, Request(t, m, b) PROVE Registers /\ Knows(job'[t])
  <2>1. Registers
    BY <1>1 DEF Registers, ActiveInv, ActiveIsRegistered, Request, Reusable
  <2> DEFINE j == [NoJob EXCEPT !.kind = "request", !.m = m, !.activate = b]
  <2>2. CASE Become(t, PinnedRequest(j, engines[m]))
    BY <2>1, <2>2, BecomeKnows DEF PinnedRequest, NoJob, Knows, Switching
  <2>3. CASE Become(t, [j EXCEPT !.pc = "called"])
    BY <2>1, <2>3, BecomeKnows DEF NoJob, Knows, Switching
  <2> QED BY <1>1, <2>2, <2>3 DEF Request
<1>2. ASSUME NEW m \in Model, NEW b \in BOOLEAN, Switch(t, m, b) PROVE Registers /\ Knows(job'[t])
  <2>1. Registers
    BY <1>2, Undisturbed DEF Switch
  <2>2. \E n : Knows(n) /\ Become(t, n)
    BY <1>2 DEF Switch, NoJob, Knows, Switching
  <2> QED BY <2>1, <2>2, BecomeKnows DEF ActiveInv
<1>3. ASSUME NEW m \in Model, NEW b \in BOOLEAN, Unload(t, m, b) PROVE Registers /\ Knows(job'[t])
  <2>1. Registers
    BY <1>3, Undisturbed DEF Unload, MarkAndQueue
  <2> DEFINE j == [NoJob EXCEPT !.kind = "unload", !.m = m, !.force = b, !.eng = engines[m]]
  <2>2. CASE MarkAndQueue(t, j, line, unloading)
    BY <2>1, <2>2, BecomeKnows DEF MarkAndQueue, NoJob, Knows, Switching
  <2>3. CASE Become(t, [j EXCEPT !.pc = "unload_wait"])
    BY <2>1, <2>3, BecomeKnows DEF NoJob, Knows, Switching
  <2> QED BY <1>3, <2>2, <2>3 DEF Unload
<1>4. ASSUME NEW b \in BOOLEAN, UnloadAll(t, b) PROVE Registers /\ Knows(job'[t])
  <2> DEFINE j == [NoJob EXCEPT !.kind = "unload_all", !.force = b]
             names == {m \in Model : engines[m] # NONE}
  <2>1. CASE Become(t, [j EXCEPT !.pc = "all_wait"]) /\ UNCHANGED <<pool, line>>
    <3>1. Registers
      BY <2>1, Undisturbed
    <3>2. \E n : Knows(n) /\ Become(t, n)
      BY <2>1 DEF NoJob, Knows, Switching
    <3> QED BY <3>1, <3>2, BecomeKnows
  <2>2. CASE Walk(t, [j EXCEPT !.todo = names], line, unloading)
    <3>1. Fields \subseteq DOMAIN [j EXCEPT !.todo = names]
      BY DEF NoJob, Fields
    <3> QED BY <2>2, <3>1, WalkRegisters
  <2> QED BY <1>4, <2>1, <2>2 DEF UnloadAll
<1>5. CASE QueueSwitch(t)
  <2> DEFINE j == [job[t] EXCEPT !.gate = GateOf(job[t].m), !.pc = "gate"]
  <2>1. Fields \subseteq DOMAIN j /\ Knows(j) /\ j.pc = "gate"
    BY <1>5 DEF QueueSwitch, Knows, Switching, Fields
  <2> HIDE DEF j
  <2>2. CASE \E l, w : EnterSwitch(t, j, l, w)
    BY <2>1, <2>2, EnterRegisters
  <2>3. CASE engines' = engines /\ active' = active /\ job' = [job EXCEPT ![t] = j]
    BY <2>1, <2>3, Undisturbed, BecomeKnows
  <2> QED BY <1>5, <2>2, <2>3 DEF QueueSwitch, j
<1>6. CASE GateGranted(t)
  BY <1>6, EnterRegisters DEF GateGranted, Knows, Switching, Fields
<1>7. CASE Recheck(t)
  <2>1. Registers
    BY <1>7, DetachRegisters, Undisturbed
       DEF Recheck, Reuse, Reusable, Registers, ActiveInv, ActiveIsRegistered, Knows, Switching
  <2>2. \E n : Knows(n) /\ Become(t, n)
    BY <1>7 DEF Recheck, Detach, Reuse, AfterSwitch, PinnedRequest, Done, NoJob, Knows, Switching,
                Fields
  <2> QED BY <2>1, <2>2, BecomeKnows
<1>8. CASE Budget(t)
  <2>1. Registers
    BY <1>8, Undisturbed DEF Budget
  <2>2. \E n : Knows(n) /\ Become(t, n)
    BY <1>8 DEF Budget, Knows, Switching, Done, NoJob, Fields
  <2> QED BY <2>1, <2>2, BecomeKnows
<1>9. CASE Probe(t)
  BY <1>9, LoadKnows, EvictionRegisters, Undisturbed, BecomeKnows
     DEF Probe, Knows, Switching, Fields
<1>10. CASE Ladder(t)
  <2> DEFINE j == [job[t] EXCEPT !.tried = TRUE]
  <2>1. Fields \subseteq DOMAIN j /\ Knows(j) /\ j.pc = "ladder"
    BY <1>10 DEF Ladder, Knows, Switching, Fields
  <2> HIDE DEF j
  <2>2. CASE BeginLoad(t, job[t])
    BY <1>10, <2>2, LoadKnows DEF Ladder, Switching
  <2>3. CASE GiveUp(t)
    BY <2>3, GivenUp
  <2>4. CASE \E v : TryEvict(t, j, v, TRUE)
    BY <2>1, <2>4, EvictionRegisters DEF Switching
  <2>5. CASE /\ UNCHANGED <<pool, line>>
             /\ \E v, e : Become(t, [j EXCEPT !.pc = "wait_busy", !.victim = v, !.freed = e])
    <3>1. Registers
      BY <2>5, Undisturbed
    <3>2. \E n : Knows(n) /\ Become(t, n)
      BY <2>1, <2>5 DEF Knows, Switching, Fields
    <3> QED BY <3>1, <3>2, BecomeKnows
  <2> QED BY <1>10, <2>2, <2>3, <2>4, <2>5 DEF Ladder, j
<1>11. CASE BusyWaitEnds(t)
  <2>1. CASE GiveUp(t)
    BY <2>1, GivenUp
  <2>2. CASE \E v : TryEvict(t, job[t], v, FALSE)
    BY <1>11, <2>2, EvictionRegisters DEF BusyWaitEnds, Switching
  <2>3. CASE /\ UNCHANGED pool
             /\ \/ Become(t, [job[t] EXCEPT !.pc = "confirm", !.freed = NONE])
                \/ Become(t, [job[t] EXCEPT !.pc = "probe", !.victim = NONE, !.freed = NONE])
                \/ Become(t, [job[t] EXCEPT !.pc = "ladder", !.victim = NONE, !.freed = NONE])
    <3>1. Registers
      BY <2>3, Undisturbed
    <3>2. \E n : Knows(n) /\ Become(t, n)
      BY <1>11, <2>3 DEF BusyWaitEnds, Knows, Switching, Fields
    <3> QED BY <3>1, <3>2, BecomeKnows
  <2> QED BY <1>11, <2>1, <2>2, <2>3 DEF BusyWaitEnds
<1>12. CASE Confirm(t)
  <2>1. CASE GiveUp(t)
    BY <2>1, GivenUp
  <2>2. CASE TryEvict(t, job[t], job[t].victim, FALSE)
    BY <1>12, <2>2, EvictionRegisters DEF Confirm, Switching
  <2> QED BY <1>12, <2>1, <2>2 DEF Confirm
<1>13. CASE Freed(t)
  <2>1. Registers
    BY <1>13, Undisturbed DEF Freed
  <2>2. \E n : Knows(n) /\ Become(t, n)
    BY <1>13 DEF Freed, Knows, Switching, Done, NoJob, Fields
  <2> QED BY <2>1, <2>2, BecomeKnows
<1>14. CASE LoadFailed(t)
  <2>1. Registers
    BY <1>14, Undisturbed DEF LoadFailed, GiveUp
  <2>2. \E n : Knows(n) /\ Become(t, n)
    BY <1>14 DEF LoadFailed, GiveUp, Knows, Switching, Done, NoJob, Fields
  <2> QED BY <2>1, <2>2, BecomeKnows
<1>15. CASE Commit(t)
  <2>1. job[t].m \in Model /\ job[t].eng # NONE
    BY <1>15 DEF Commit, Knows, Switching
  <2>2. engines' = [engines EXCEPT ![job[t].m] = job[t].eng] /\ active' \in {active, job[t].m}
    BY <1>15 DEF Commit
  <2>3. Registers
    BY <2>1, <2>2 DEF Registers, ActiveInv, ActiveIsRegistered
  <2>4. \E n : Knows(n) /\ Become(t, n)
    BY <1>15 DEF Commit, AfterSwitch, PinnedRequest, Done, NoJob, Knows, Switching
  <2> QED BY <2>3, <2>4, BecomeKnows
<1>16. CASE Prepared(t)
  <2>1. Registers
    BY <1>16, Undisturbed DEF Prepared
  <2>2. \E n : Knows(n) /\ Become(t, n)
    BY <1>16 DEF Prepared, Knows, Switching, Done, NoJob, Fields
  <2> QED BY <2>1, <2>2, BecomeKnows
<1>17. CASE Produce(t)
  <2>1. Registers
    BY <1>17, Undisturbed DEF Produce
  <2>2. \E n : Knows(n) /\ Become(t, n)
    BY <1>17 DEF Produce, Knows, Switching, Done, NoJob, Fields
  <2> QED BY <2>1, <2>2, BecomeKnows
<1>18. CASE Replied(t)
  <2>1. Registers
    BY <1>18, Undisturbed DEF Replied
  <2>2. \E n : Knows(n) /\ Become(t, n)
    BY <1>18 DEF Replied, Knows, Switching, Done, NoJob, Fields
  <2> QED BY <2>1, <2>2, BecomeKnows
<1>19. CASE UnloadWaitEnds(t)
  <2>1. Registers
    BY <1>19, Undisturbed DEF UnloadWaitEnds, MarkAndQueue
  <2>2. \E n : Knows(n) /\ Become(t, n)
    BY <1>19 DEF UnloadWaitEnds, MarkAndQueue, Knows, Switching, Done, NoJob, Fields
  <2> QED BY <2>1, <2>2, BecomeKnows
<1>20. CASE UnloadGranted(t)
  <2>1. Registers
    BY <1>20, Undisturbed DEF UnloadGranted
  <2>2. \E n : Knows(n) /\ Become(t, n)
    BY <1>20 DEF UnloadGranted, Knows, Switching, Done, NoJob, Fields
  <2> QED BY <2>1, <2>2, BecomeKnows
<1>21. CASE Unloaded(t)
  <2>1. Registers
    BY <1>21, Undisturbed DEF Unloaded
  <2>2. \E n : Knows(n) /\ Become(t, n)
    BY <1>21 DEF Unloaded, Knows, Switching, Done, NoJob, Fields
  <2> QED BY <2>1, <2>2, BecomeKnows
<1>22. CASE AllWaitEnds(t)
  BY <1>22, WalkRegisters DEF AllWaitEnds, Knows, Switching, Fields
<1>23. CASE ReadingTaken(t)
  <2>1. CASE MarkAndQueue(t, job[t], line, unloading)
    <3>1. Registers
      BY <2>1, Undisturbed DEF MarkAndQueue
    <3>2. \E n : Knows(n) /\ Become(t, n)
      BY <2>1 DEF MarkAndQueue, Knows, Switching, Fields
    <3> QED BY <3>1, <3>2, BecomeKnows
  <2>2. CASE \E j : Fields \subseteq DOMAIN j /\ Walk(t, j, line, unloading)
    BY <2>2, WalkRegisters
  <2>3. /\ Fields \subseteq DOMAIN job[t]
        /\ Fields \subseteq DOMAIN [job[t] EXCEPT !.kept = @ \cup {job[t].m}]
    BY DEF Fields
  <2> QED BY <1>23, <2>1, <2>2, <2>3 DEF ReadingTaken
<1>24. CASE UnloadedGoOn(t)
  BY <1>24, WalkRegisters DEF UnloadedGoOn, Knows, Switching, Fields
<1>25. CASE AllReleased(t)
  <2>1. Registers
    BY <1>25, Undisturbed DEF AllReleased
  <2>2. \E n : Knows(n) /\ Become(t, n)
    BY <1>25 DEF AllReleased, Knows, Switching, Done, NoJob, Fields
  <2> QED BY <2>1, <2>2, BecomeKnows
<1>26. CASE IdleGranted(t) \/ IdleFreed(t) \/ IdleFreeEnds(t)
  BY <1>26 DEF IdleGranted, IdleFreed, IdleFreeEnds, Knows
<1>27. CASE FreeEnds(t)
  <2>1. Registers
    BY <1>27, Undisturbed DEF FreeEnds
  <2>2. \E n : Knows(n) /\ Become(t, n)
    BY <1>27 DEF FreeEnds, Knows, Switching, Done, NoJob, Fields
  <2> QED BY <2>1, <2>2, BecomeKnows
<1>28. CASE LoadEnds(t)
  <2>1. Registers
    BY <1>28, Undisturbed DEF LoadEnds
  <2>2. \E n : Knows(n) /\ Become(t, n)
    BY <1>28 DEF LoadEnds, Knows, Switching, Done, NoJob, Fields
  <2> QED BY <2>1, <2>2, BecomeKnows
<1>29. CASE LazyLoadEnds(t)
  <2>1. Registers
    BY <1>29, Undisturbed DEF LazyLoadEnds
  <2>2. \E n : Knows(n) /\ Become(t, n)
    BY <1>29 DEF LazyLoadEnds, Knows, Switching, Done, NoJob, Fields
  <2> QED BY <2>1, <2>2, BecomeKnows
<1>30. CASE UnloadEnds(t)
  <2>1. Registers
    BY <1>30, Undisturbed DEF UnloadEnds
  <2>2. \E n : Knows(n) /\ Become(t, n)
    BY <1>30 DEF UnloadEnds, Knows, Switching, Done, NoJob, Fields
  <2> QED BY <2>1, <2>2, BecomeKnows
<1>31. CASE Abandon(t)
  <2>1. Registers
    BY <1>31, Undisturbed DEF Abandon
  <2>2. \E n : Knows(n) /\ Become(t, n)
    BY <1>31 DEF Abandon, Knows, Switching, Done, NoJob, Fields
  <2> QED BY <2>1, <2>2, BecomeKnows
<1>32. CASE AbandonedEnds(t)
  <2>1. Registers
    BY <1>32, Undisturbed DEF AbandonedEnds
  <2>2. \E n : Knows(n) /\ Become(t, n)
    BY <1>32 DEF AbandonedEnds, Knows, Switching, Done, NoJob, Fields
  <2> QED BY <2>1, <2>2, BecomeKnows
<1> QED
  BY <1>1, <1>2, <1>3, <1>4, <1>5, <1>6, <1>7, <1>8, <1>9, <1>10, <1>11, <1>12, <1>13, <1>14,
     <1>15, <1>16, <1>17, <1>18, <1>19, <1>20, <1>21, <1>22, <1>23, <1>24, <1>25, <1>26, <1>27,
     <1>28, <1>29, <1>30, <1>31, <1>32
     DEF NewJob, JobStep, LoopStep, ThreadStep, IdleUnload

\* ActiveIsRegistered: where idle models are not unloaded, the active model is
\* one of _engines, whatever loads, evictions and unloads overlap.
THEOREM ActiveRegistered == "idle_unload" \notin Kinds => (Spec => []ActiveIsRegistered)
<1> SUFFICES ASSUME "idle_unload" \notin Kinds PROVE Spec => []ActiveIsRegistered
  OBVIOUS
<1>1. Init => ActiveInv
  <2> SUFFICES ASSUME Init PROVE ActiveInv
    OBVIOUS
  <2>1. Shaped /\ \A t \in Task : Knows(job[t])
    BY DEF Init, Shaped, Fields, NoJob, Knows, Switching
  <2>2. engines = [m \in Model |-> engines[m]]
    BY DEF Init
  <2>3. ActiveIsRegistered
    <3>1. PICK idle \in SUBSET (Model \ ToSet(lru)) :
            engines = [m \in Model |-> IF m \in ToSet(lru) \cup idle THEN <<m, 1>> ELSE NONE]
      BY DEF Init
    <3>2. active \in ToSet(lru) \cup {NONE} /\ ToSet(lru) \subseteq Model
      BY DEF Init, SeqOf, ToSet
    <3>3. \A m \in Model : <<m, 1>> # NONE
      BY FirstObject
    <3> QED BY <3>1, <3>2, <3>3 DEF ActiveIsRegistered
  <2> QED BY <2>1, <2>2, <2>3 DEF ActiveInv
<1>2. ActiveInv /\ [Next]_vars => ActiveInv'
  <2> SUFFICES ASSUME ActiveInv, [Next]_vars PROVE ActiveInv'
    OBVIOUS
  <2>1. CASE Next
    <3>1. PICK t \in Task : NewJob(t) \/ JobStep(t)
      BY <2>1 DEF Next
    <3>2. Moved(t)
      BY <3>1, TaskStep DEF ActiveInv
    <3>3. Shaped' /\ \A u \in Task \ {t} : job'[u] = job[u]
      BY <3>2 DEF ActiveInv, Moved, Shaped
    <3>4. Registers /\ Knows(job'[t])
      BY <3>1, TaskRegisters
    <3>5. \A u \in Task : Knows(job'[u])
      BY <3>3, <3>4 DEF ActiveInv
    <3> QED BY <3>3, <3>4, <3>5 DEF ActiveInv, Registers, Knows
  <2>2. CASE UNCHANGED vars
    BY <2>2 DEF vars, pool, abort, ActiveInv, Shaped, ActiveIsRegistered, Knows
  <2> QED BY <2>1, <2>2
<1>3. ActiveInv => ActiveIsRegistered
  BY DEF ActiveInv
<1> QED BY <1>1, <1>2, <1>3, PTL DEF Spec
-----------------------------------------------------------------------------
(* The gates: one task at a time is inside each, and it heads the line. *)

\* Where a task waits in the line of its gate, and where it is inside.
Waiting == {"gate", "queued", "unload_gate", "idle_gate"}
Within  == {"recheck", "budget", "probe", "ladder", "wait_busy", "confirm", "free", "freed",
            "load", "loaded", "not_loaded", "lazy_load", "generate",
            "unload", "unloaded", "idle_free", "idle_freed"}
InLine(j) == j.pc \in Waiting \cup Within

\* Every task that waits or is inside is in one line, once, and whoever is inside
\* is at the head.
Place(l, jobs, t) ==
  /\ InLine(jobs[t]) => /\ jobs[t].gate \in Objects
                        /\ \E i \in 1 .. Len(l[jobs[t].gate]) : l[jobs[t].gate][i] = t
  /\ jobs[t].pc \in Within => Head(l[jobs[t].gate]) = t

Lines(l, jobs) ==
  /\ l \in [Objects -> Seq(Task)]
  /\ \A g \in Objects : \A i, k \in 1 .. Len(l[g]) : l[g][i] = l[g][k] => i = k
  /\ \A g \in Objects : \A i \in 1 .. Len(l[g]) :
       InLine(jobs[l[g][i]]) /\ jobs[l[g][i]].gate = g
  /\ \A t \in Task : Place(l, jobs, t)
-----------------------------------------------------------------------------
\* A task that was in no line joins one at its end.
LEMMA JoinKeepsLines ==
  ASSUME NEW l, NEW jobs, jobs = [u \in Task |-> jobs[u]], Lines(l, jobs),
         NEW t \in Task, NEW n, NEW g \in Objects,
         ~InLine(jobs[t]), InLine(n), n.gate = g,
         n.pc \in Within => Head(JoinIn(l, t, g)[g]) = t
  PROVE  Lines(JoinIn(l, t, g), [jobs EXCEPT ![t] = n])
<1> DEFINE jb == [jobs EXCEPT ![t] = n]
           k  == JoinIn(l, t, g)
<1>1. l \in [Objects -> Seq(Task)]
  BY DEF Lines
<1>2. /\ k \in [Objects -> Seq(Task)] /\ k[g] = Append(l[g], t)
      /\ \A h \in Objects \ {g} : k[h] = l[h]
  BY <1>1 DEF JoinIn
<1>3. jb[t] = n /\ \A u \in Task \ {t} : jb[u] = jobs[u]
  OBVIOUS
<1>4. /\ Len(k[g]) = Len(l[g]) + 1 /\ k[g][Len(l[g]) + 1] = t
      /\ \A i \in 1 .. Len(l[g]) : k[g][i] = l[g][i] /\ l[g][i] \in Task
      /\ Len(l[g]) \in Nat
  BY <1>1, <1>2
<1>5. \A h \in Objects : \A i \in 1 .. Len(l[h]) : l[h][i] \in Task \ {t}
  BY <1>1 DEF Lines
<1> HIDE DEF jb, k
<1>6. \A h \in Objects : \A i, j \in 1 .. Len(k[h]) : k[h][i] = k[h][j] => i = j
  <2> SUFFICES ASSUME NEW h \in Objects, NEW i \in 1 .. Len(k[h]), NEW j \in 1 .. Len(k[h]),
                      k[h][i] = k[h][j]
               PROVE  i = j
    OBVIOUS
  <2>1. CASE h # g
    BY <1>2, <2>1 DEF Lines
  <2>2. CASE h = g
    BY <1>4, <1>5, <2>2 DEF Lines
  <2> QED BY <2>1, <2>2
<1>7. \A h \in Objects : \A i \in 1 .. Len(k[h]) : InLine(jb[k[h][i]]) /\ jb[k[h][i]].gate = h
  <2> SUFFICES ASSUME NEW h \in Objects, NEW i \in 1 .. Len(k[h])
               PROVE  InLine(jb[k[h][i]]) /\ jb[k[h][i]].gate = h
    OBVIOUS
  <2>1. CASE h # g
    BY <1>2, <1>3, <1>5, <2>1 DEF Lines
  <2>2. CASE h = g
    BY <1>3, <1>4, <1>5, <2>2 DEF Lines
  <2> QED BY <2>1, <2>2
<1>8. ASSUME NEW u \in Task PROVE Place(k, jb, u)
  <2>1. CASE u = t
    <3>1. jb[u].gate = g /\ (jb[u].pc \in Within => Head(k[g]) = u)
      BY <1>3, <2>1 DEF k
    <3>2. Len(l[g]) + 1 \in 1 .. Len(k[g]) /\ k[g][Len(l[g]) + 1] = u
      BY <1>4, <2>1
    <3> QED BY <3>1, <3>2 DEF Place
  <2>2. CASE u # t
    <3> SUFFICES ASSUME InLine(jobs[u])
                 PROVE  /\ \E i \in 1 .. Len(k[jobs[u].gate]) : k[jobs[u].gate][i] = u
                        /\ jobs[u].pc \in Within => Head(k[jobs[u].gate]) = u
      BY <1>3, <2>2 DEF Place, Lines, InLine
    <3>1. PICK i \in 1 .. Len(l[jobs[u].gate]) : l[jobs[u].gate][i] = u
      BY DEF Lines, Place
    <3>2. jobs[u].gate \in Objects
      BY DEF Lines, Place
    <3>3. CASE jobs[u].gate # g
      BY <1>2, <3>1, <3>2, <3>3 DEF Lines, Place
    <3>4. CASE jobs[u].gate = g
      <4>1. i \in 1 .. Len(k[g]) /\ k[g][i] = u
        BY <1>4, <3>1, <3>4
      <4>2. Head(k[g]) = Head(l[g])
        BY <1>1, <1>2, <3>1, <3>4
      <4> QED BY <4>1, <4>2, <3>4 DEF Lines, Place
    <3> QED BY <3>3, <3>4
  <2> QED BY <2>1, <2>2
<1> QED BY <1>2, <1>6, <1>7, <1>8 DEF Lines, jb, k

\* The head of a line leaves it.
LEMMA LeaveKeepsLines ==
  ASSUME NEW l, NEW jobs, jobs = [u \in Task |-> jobs[u]], Lines(l, jobs),
         NEW t \in Task, NEW n,
         InLine(jobs[t]), Head(l[jobs[t].gate]) = t, ~InLine(n)
  PROVE  Lines(LeaveIn(l, jobs[t].gate), [jobs EXCEPT ![t] = n])
<1> DEFINE jb == [jobs EXCEPT ![t] = n]
           g  == jobs[t].gate
           k  == LeaveIn(l, g)
<1>1. l \in [Objects -> Seq(Task)] /\ g \in Objects /\ l[g] # << >>
  BY DEF Lines, Place
<1>2. /\ k \in [Objects -> Seq(Task)] /\ k[g] = Tail(l[g])
      /\ \A h \in Objects \ {g} : k[h] = l[h]
  BY <1>1 DEF LeaveIn
<1>3. jb[t] = n /\ \A u \in Task \ {t} : jb[u] = jobs[u]
  OBVIOUS
<1>4. /\ Len(k[g]) = Len(l[g]) - 1 /\ Len(l[g]) \in Nat \ {0} /\ l[g][1] = t
      /\ \A i \in 1 .. Len(k[g]) : k[g][i] = l[g][i + 1]
  <2> DEFINE q == l[g]
  <2>1. q \in Seq(Task) /\ q # << >> /\ Head(q) = t /\ k[g] = Tail(q)
    BY <1>1, <1>2
  <2> HIDE DEF q, k, g
  <2>2. Len(q) \in Nat \ {0} /\ q[1] = t
    BY <2>1
  <2>3. Len(Tail(q)) = Len(q) - 1 /\ \A i \in 1 .. Len(Tail(q)) : Tail(q)[i] = q[i + 1]
    BY <2>1
  <2> QED BY <2>1, <2>2, <2>3 DEF q
<1>5. /\ \A h \in Objects \ {g} : \A i \in 1 .. Len(l[h]) : l[h][i] \in Task \ {t}
      /\ \A i \in 1 .. Len(k[g]) : k[g][i] \in Task \ {t}
  <2>1. \A h \in Objects \ {g} : \A i \in 1 .. Len(l[h]) : l[h][i] \in Task \ {t}
    BY <1>1 DEF Lines
  <2>2. ASSUME NEW i \in 1 .. Len(k[g]) PROVE k[g][i] \in Task \ {t}
    <3>1. i \in Nat /\ i + 1 \in 1 .. Len(l[g]) /\ 1 \in 1 .. Len(l[g]) /\ i + 1 # 1
      BY <1>4
    <3>2. \A a, b \in 1 .. Len(l[g]) : l[g][a] = l[g][b] => a = b
      BY <1>1 DEF Lines
    <3>3. l[g][i + 1] # l[g][1]
      BY <3>1, <3>2
    <3>4. l[g][i + 1] \in Task
      BY <1>1, <3>1
    <3> QED BY <1>4, <3>3, <3>4
  <2> QED BY <2>1, <2>2
<1> HIDE DEF jb, k
<1>6. \A h \in Objects : \A i, j \in 1 .. Len(k[h]) : k[h][i] = k[h][j] => i = j
  <2> SUFFICES ASSUME NEW h \in Objects, NEW i \in 1 .. Len(k[h]), NEW j \in 1 .. Len(k[h]),
                      k[h][i] = k[h][j]
               PROVE  i = j
    OBVIOUS
  <2>1. CASE h # g
    BY <1>2, <2>1 DEF Lines
  <2>2. CASE h = g
    <3>1. i \in 1 .. Len(k[g]) /\ j \in 1 .. Len(k[g]) /\ k[g][i] = k[g][j]
      BY <2>2
    <3>2. ASSUME NEW a \in 1 .. Len(k[g])
          PROVE  a \in Nat /\ a + 1 \in 1 .. Len(l[g]) /\ k[g][a] = l[g][a + 1]
      BY <1>4
    <3>3. /\ i \in Nat /\ i + 1 \in 1 .. Len(l[g]) /\ j \in Nat /\ j + 1 \in 1 .. Len(l[g])
          /\ l[g][i + 1] = l[g][j + 1]
      BY <3>1, <3>2
    <3>4. \A a, b \in 1 .. Len(l[g]) : l[g][a] = l[g][b] => a = b
      BY <1>1 DEF Lines
    <3>5. i + 1 = j + 1
      BY <3>3, <3>4
    <3> QED BY <3>3, <3>5
  <2> QED BY <2>1, <2>2
<1>7. \A h \in Objects : \A i \in 1 .. Len(k[h]) : InLine(jb[k[h][i]]) /\ jb[k[h][i]].gate = h
  <2> SUFFICES ASSUME NEW h \in Objects, NEW i \in 1 .. Len(k[h])
               PROVE  InLine(jb[k[h][i]]) /\ jb[k[h][i]].gate = h
    OBVIOUS
  <2>1. CASE h # g
    BY <1>2, <1>3, <1>5, <2>1 DEF Lines
  <2>2. CASE h = g
    <3>1. i + 1 \in 1 .. Len(l[g]) /\ k[g][i] = l[g][i + 1]
      BY <1>4, <2>2
    <3> QED BY <1>1, <1>3, <1>5, <2>2, <3>1 DEF Lines
  <2> QED BY <2>1, <2>2
<1>8. ASSUME NEW u \in Task PROVE Place(k, jb, u)
  <2>1. CASE u = t
    BY <1>3, <2>1 DEF Place, InLine
  <2>2. CASE u # t
    <3> SUFFICES ASSUME InLine(jobs[u])
                 PROVE  /\ \E i \in 1 .. Len(k[jobs[u].gate]) : k[jobs[u].gate][i] = u
                        /\ jobs[u].pc \in Within => Head(k[jobs[u].gate]) = u
      BY <1>3, <2>2 DEF Place, Lines, InLine
    <3>1. PICK i \in 1 .. Len(l[jobs[u].gate]) : l[jobs[u].gate][i] = u
      BY DEF Lines, Place
    <3>2. jobs[u].gate \in Objects
      BY DEF Lines, Place
    <3>3. CASE jobs[u].gate # g
      BY <1>2, <3>1, <3>2, <3>3 DEF Lines, Place
    <3>4. CASE jobs[u].gate = g
      <4>1. i # 1
        BY <1>4, <2>2, <3>1, <3>4
      <4>2. i - 1 \in 1 .. Len(k[g]) /\ k[g][i - 1] = u
        <5>1. i \in 1 .. Len(l[g]) /\ i # 1 /\ l[g][i] = u
          BY <3>1, <3>4, <4>1
        <5>2. i - 1 \in 1 .. Len(k[g]) /\ (i - 1) + 1 = i
          BY <1>4, <5>1
        <5> QED BY <1>4, <5>1, <5>2
      <4>3. jobs[u].pc \notin Within
        BY <2>2, <3>4 DEF Lines, Place
      <4> QED BY <4>2, <4>3, <3>4
    <3> QED BY <3>3, <3>4
  <2> QED BY <2>1, <2>2
<1> QED BY <1>2, <1>6, <1>7, <1>8 DEF Lines, jb, k

\* The head of a line goes on inside, or a task outside stays outside.
LEMMA StayKeepsLines ==
  ASSUME NEW l, NEW jobs, jobs = [u \in Task |-> jobs[u]], Lines(l, jobs),
         NEW t \in Task, NEW n,
         \/ InLine(jobs[t]) /\ Head(l[jobs[t].gate]) = t /\ InLine(n) /\ n.gate = jobs[t].gate
         \/ ~InLine(jobs[t]) /\ ~InLine(n)
  PROVE  Lines(l, [jobs EXCEPT ![t] = n])
<1> DEFINE jb == [jobs EXCEPT ![t] = n]
<1>1. jb[t] = n /\ \A u \in Task \ {t} : jb[u] = jobs[u]
  OBVIOUS
<1> HIDE DEF jb
<1>2. \A g \in Objects : \A i \in 1 .. Len(l[g]) : InLine(jb[l[g][i]]) /\ jb[l[g][i]].gate = g
  <2> SUFFICES ASSUME NEW g \in Objects, NEW i \in 1 .. Len(l[g])
               PROVE  InLine(jb[l[g][i]]) /\ jb[l[g][i]].gate = g
    OBVIOUS
  <2>1. l[g][i] \in Task /\ InLine(jobs[l[g][i]]) /\ jobs[l[g][i]].gate = g
    BY DEF Lines
  <2> QED BY <1>1, <2>1
<1>3. ASSUME NEW u \in Task PROVE Place(l, jb, u)
  <2>1. Place(l, jobs, u)
    BY DEF Lines
  <2> QED BY <1>1, <2>1 DEF Place, InLine
<1> QED BY <1>2, <1>3 DEF Lines, jb
-----------------------------------------------------------------------------
(* The gates through every step, for any models and jobs. *)

\* A job names the model whose gate it goes to.
Named(j) == /\ j.todo \subseteq Model
            /\ j.pc \notin {"none", "done", "all_wait", "all_rest"} => j.m \in Model

LineInv == /\ Shaped /\ \A t \in Task : Named(job[t])
           /\ sems \in [Model -> Objects \cup {NONE}]
           /\ Lines(line, job)

\* What a step leaves of the gates.
Queues(t) == /\ Named(job'[t])
             /\ sems' \in [Model -> Objects \cup {NONE}]
             /\ Lines(line', job')

\* There is always a gate nobody holds: there are more than tasks.
LEMMA GateOfIsGate ==
  ASSUME sems \in [Model -> Objects \cup {NONE}], NEW m \in Model
  PROVE  /\ GateOf(m) \in Objects
         /\ sems[m] = NONE => GateOf(m) \in NewGate(m)
<1> USE PoolAssumption
<1>1. CASE sems[m] # NONE
  BY <1>1 DEF GateOf
<1>2. CASE sems[m] = NONE
  <2> DEFINE f == [i \in 1 .. Copies |-> CHOOSE t \in Task : job[t].gate = <<m, i>>]
  <2>2. NewGate(m) # {}
    <3> SUFFICES ASSUME NewGate(m) = {} PROVE FALSE
      OBVIOUS
    <3>1. \A i \in 1 .. Copies : \E t \in Task : job[t].gate = <<m, i>>
      <4> SUFFICES ASSUME NEW i \in 1 .. Copies PROVE \E t \in Task : job[t].gate = <<m, i>>
        OBVIOUS
      <4>1. <<m, i>> \in Object(m) /\ <<m, i>> # NONE
        BY DEF Object
      <4> HIDE DEF Object
      <4> QED BY <1>2, <4>1 DEF NewGate
    <3>2. \A i \in 1 .. Copies : f[i] \in Task /\ job[f[i]].gate = <<m, i>>
      BY <3>1
    <3>3. f \in [1 .. Copies -> Task]
      BY <3>2
    <3> HIDE DEF f
    <3>4. IsFiniteSet(1 .. Copies) /\ Cardinality(1 .. Copies) = Copies
      <4>1. 1 \in Int /\ Copies \in Int
        OBVIOUS
      <4>2. Cardinality(Task) \in Nat
        BY FS_CardinalityType
      <4>3. IsFiniteSet(1 .. Copies)
            /\ Cardinality(1 .. Copies) = IF 1 > Copies THEN 0 ELSE Copies - 1 + 1
        BY <4>1, FS_Interval
      <4> QED BY <4>2, <4>3
    <3>5. \E i, k \in 1 .. Copies : i # k /\ f[i] = f[k]
      BY <3>3, <3>4, FS_PigeonHole
    <3> QED BY <3>2, <3>5
  <2>3. GateOf(m) \in NewGate(m) /\ NewGate(m) \subseteq Objects
    BY <1>2, <2>2 DEF GateOf, AnyOf, NewGate, Object, Objects
  <2> QED BY <2>3
<1> QED BY <1>1, <1>2

\* A step that joins a line, leaves one, or does neither.
Joined(t) == \E g \in Objects : \E n :
  /\ ~InLine(job[t]) /\ InLine(n) /\ n.gate = g
  /\ n.pc \in Within => Head(Join(t, g)[g]) = t
  /\ line' = Join(t, g) /\ Become(t, n)
Left(t) ==
  /\ InLine(job[t]) /\ Inside(t)
  /\ line' = LeaveIn(line, job[t].gate)
  /\ \E n : ~InLine(n) /\ Become(t, n)
Stayed(t) ==
  /\ line' = line
  /\ \E n : /\ \/ InLine(job[t]) /\ Inside(t) /\ InLine(n) /\ n.gate = job[t].gate
               \/ ~InLine(job[t]) /\ ~InLine(n)
            /\ Become(t, n)

LEMMA LineSteps ==
  ASSUME LineInv, NEW t \in Task, Joined(t) \/ Left(t) \/ Stayed(t)
  PROVE  Lines(line', job')
<1> job = [u \in Task |-> job[u]] /\ Lines(line, job)
  BY DEF LineInv, Shaped
<1>1. CASE Joined(t)
  BY <1>1, JoinKeepsLines DEF Joined, Join, Become
<1>2. CASE Left(t)
  BY <1>2, LeaveKeepsLines DEF Left, Inside, Become
<1>3. CASE Stayed(t)
  BY <1>3, StayKeepsLines DEF Stayed, Inside, Become
<1> QED BY <1>1, <1>2, <1>3

\* A task inside its gate heads the line.
LEMMA WithinIsInside ==
  ASSUME LineInv, NEW t \in Task, job[t].pc \in Within
  PROVE  InLine(job[t]) /\ Inside(t)
BY DEF LineInv, Lines, Place, InLine, Inside

LEMMA BecomeNamed ==
  ASSUME Shaped, NEW t \in Task, \E n : Named(n) /\ Become(t, n)
  PROVE  Named(job'[t])
BY DEF Become, Shaped

\* A task outside the lines queues for the gate of the model it is to unload.
LEMMA QueuesToUnload ==
  ASSUME LineInv, NEW t \in Task, NEW x, ~InLine(x), NEW l, Lines(l, [job EXCEPT ![t] = x]),
         NEW j, NEW u, Fields \subseteq DOMAIN j, Named(j), j.m \in Model,
         MarkAndQueue(t, j, l, u)
  PROVE  Queues(t)
<1> DEFINE g == GateOf(j.m)
           k == [j EXCEPT !.gate = g]
           n == [k EXCEPT !.pc = IF Head(JoinIn(l, t, g)[g]) = t THEN "unload" ELSE "unload_gate"]
           jobs == [job EXCEPT ![t] = x]
<1>1. g \in Objects
  BY GateOfIsGate DEF LineInv
<1>2. sems' = [sems EXCEPT ![j.m] = g] /\ line' = JoinIn(l, t, g) /\ job' = [job EXCEPT ![t] = n]
  BY DEF MarkAndQueue, Become, Fields
<1>3. /\ n.gate = g /\ n.todo = j.todo /\ n.m = j.m
      /\ n.pc = IF Head(JoinIn(l, t, g)[g]) = t THEN "unload" ELSE "unload_gate"
  BY DEF Fields
<1> HIDE DEF n, g, k
<1>4. InLine(n) /\ (n.pc \in Within => Head(JoinIn(l, t, g)[g]) = t) /\ Named(n)
  BY <1>3 DEF InLine, Waiting, Within, Named
<1>5. /\ jobs = [u1 \in Task |-> jobs[u1]] /\ jobs[t] = x /\ [jobs EXCEPT ![t] = n] = job'
      /\ job'[t] = n
  BY <1>2 DEF LineInv, Shaped
<1> HIDE DEF jobs
<1>6. Lines(line', job')
  BY <1>1, <1>2, <1>3, <1>4, <1>5, JoinKeepsLines DEF jobs
<1> QED BY <1>1, <1>2, <1>4, <1>5, <1>6 DEF Queues, LineInv

LEMMA QueuesInWalk ==
  ASSUME LineInv, NEW t \in Task, NEW x, ~InLine(x), NEW l, Lines(l, [job EXCEPT ![t] = x]),
         NEW j, NEW u, Fields \subseteq DOMAIN j, Named(j), Walk(t, j, l, u)
  PROVE  Queues(t)
<1>1. PICK S \in SUBSET j.todo : Walk(t, j, l, u)!(S)
  BY DEF Walk
<1> DEFINE k == [j EXCEPT !.todo = @ \ S,
                          !.kept = @ \cup {m \in S : engines[m] \in loaded}]
           Visit(m) == [k EXCEPT !.todo = @ \ {m}, !.m = m, !.eng = engines[m]]
<1>2. k.todo \subseteq Model /\ Fields \subseteq DOMAIN k
  BY DEF Named, Fields
<1>3. ASSUME NEW m \in k.todo
      PROVE  Visit(m).m = m /\ Visit(m).todo \subseteq Model /\ Fields \subseteq DOMAIN Visit(m)
  BY <1>2 DEF Fields
<1>4. CASE \E m \in k.todo : MarkAndQueue(t, Visit(m), l, u)
  <2>1. PICK m \in k.todo : MarkAndQueue(t, Visit(m), l, u)
    BY <1>4
  <2>2. Named(Visit(m)) /\ Visit(m).m \in Model /\ Fields \subseteq DOMAIN Visit(m)
    BY <1>2, <1>3 DEF Named
  <2> HIDE DEF Visit
  <2> QED BY <2>1, <2>2, QueuesToUnload
<1>5. CASE /\ sems' = sems /\ line' = l
           /\ \E n : ~InLine(n) /\ Named(n) /\ Become(t, n)
  <2>1. PICK n : ~InLine(n) /\ Named(n) /\ Become(t, n)
    BY <1>5
  <2> DEFINE jobs == [job EXCEPT ![t] = x]
  <2>2. /\ jobs = [u1 \in Task |-> jobs[u1]] /\ jobs[t] = x /\ [jobs EXCEPT ![t] = n] = job'
        /\ job'[t] = n
    BY <2>1 DEF LineInv, Shaped, Become
  <2> HIDE DEF jobs
  <2>3. Lines(line', job')
    BY <1>5, <2>1, <2>2, StayKeepsLines DEF jobs
  <2> QED BY <1>5, <2>1, <2>2, <2>3 DEF Queues, LineInv
<1> HIDE DEF k, Visit
<1>6. \/ \E m \in k.todo : MarkAndQueue(t, Visit(m), l, u)
      \/ /\ sems' = sems /\ line' = l
         /\ \/ Become(t, [k EXCEPT !.pc = "all_rest", !.m = NONE, !.eng = NONE, !.gate = NONE])
            \/ Become(t, Done)
            \/ \E m \in k.todo :
                 Become(t, [Visit(m) EXCEPT !.pc = "all_reading", !.tried = TRUE, !.gate = NONE])
  BY <1>1 DEF k, Visit
<1>7. ASSUME Become(t, [k EXCEPT !.pc = "all_rest", !.m = NONE, !.eng = NONE, !.gate = NONE])
      PROVE  \E n : ~InLine(n) /\ Named(n) /\ Become(t, n)
  BY <1>2, <1>7 DEF InLine, Waiting, Within, Named, Fields
<1>8. ASSUME Become(t, Done) PROVE \E n : ~InLine(n) /\ Named(n) /\ Become(t, n)
  BY <1>8 DEF Done, NoJob, InLine, Waiting, Within, Named
<1>9. ASSUME NEW m \in k.todo,
             Become(t, [Visit(m) EXCEPT !.pc = "all_reading", !.tried = TRUE, !.gate = NONE])
      PROVE  \E n : ~InLine(n) /\ Named(n) /\ Become(t, n)
  <2> DEFINE v == Visit(m)
             n == [v EXCEPT !.pc = "all_reading", !.tried = TRUE, !.gate = NONE]
  <2>1. v.m = m /\ v.todo \subseteq Model /\ Fields \subseteq DOMAIN v /\ m \in Model
    BY <1>2, <1>3
  <2> HIDE DEF v
  <2>2. n.pc = "all_reading" /\ n.todo = v.todo /\ n.m = v.m
    BY <2>1 DEF Fields
  <2>3. ~InLine(n) /\ Named(n)
    BY <2>1, <2>2 DEF InLine, Waiting, Within, Named
  <2> QED BY <1>9, <2>3 DEF v
<1> QED BY <1>4, <1>5, <1>6, <1>7, <1>8, <1>9

\* A switch inside its gate goes on, or leaves it.
LEMMA QueuesInEnter ==
  ASSUME LineInv, NEW t \in Task, NEW l, NEW j, NEW w, Lines(l, [job EXCEPT ![t] = j]),
         Fields \subseteq DOMAIN j, Named(j), j.pc = "gate", Head(l[j.gate]) = t,
         EnterSwitch(t, j, l, w)
  PROVE  Lines(line', job') /\ Named(job'[t])
<1> DEFINE jobs == [job EXCEPT ![t] = j]
<1>1. jobs = [u1 \in Task |-> jobs[u1]] /\ jobs[t] = j
  BY DEF LineInv, Shaped
<1>2. PICK n : /\ Become(t, n) /\ Named(n)
               /\ \/ line' = LeaveIn(l, j.gate) /\ ~InLine(n)
                  \/ line' = l /\ InLine(n) /\ n.gate = j.gate
  <2> USE DEF Named, InLine, Waiting, Within, Fields
  <2>1. CASE line' = LeaveIn(l, j.gate) /\ Become(t, Done)
    BY <2>1 DEF Done, NoJob
  <2>2. CASE Reuse(t, j, l)
    <3>1. CASE Become(t, Done)
      BY <2>2, <3>1 DEF Reuse, Done, NoJob
    <3>2. CASE Become(t, PinnedRequest(j, engines[j.m]))
      <4> DEFINE n == PinnedRequest(j, engines[j.m])
      <4>1. n.pc = "prepare" /\ n.todo = {} /\ n.m = j.m
        BY DEF PinnedRequest, NoJob
      <4> HIDE DEF n
      <4> QED BY <2>2, <3>2, <4>1 DEF Reuse, n
    <3> QED BY <2>2, <3>1, <3>2 DEF Reuse, AfterSwitch
  <2>3. CASE line' = l /\ Become(t, [j EXCEPT !.pc = "recheck", !.eng = engines[j.m]])
    <3> DEFINE n == [j EXCEPT !.pc = "recheck", !.eng = engines[j.m]]
    <3>1. n.pc = "recheck" /\ n.gate = j.gate /\ n.todo = j.todo /\ n.m = j.m
      OBVIOUS
    <3> HIDE DEF n
    <3> QED BY <2>3, <3>1 DEF n
  <2>4. CASE line' = l /\ Become(t, [j EXCEPT !.pc = "budget"])
    BY <2>4
  <2> QED BY <2>1, <2>2, <2>3, <2>4 DEF EnterSwitch
<1>3. [jobs EXCEPT ![t] = n] = job' /\ job'[t] = n
  BY <1>2 DEF LineInv, Shaped, Become
<1> HIDE DEF jobs
<1>4. CASE line' = LeaveIn(l, j.gate) /\ ~InLine(n)
  BY <1>1, <1>2, <1>3, <1>4, LeaveKeepsLines DEF jobs, InLine, Waiting
<1>5. CASE line' = l /\ InLine(n) /\ n.gate = j.gate
  BY <1>1, <1>2, <1>3, <1>5, StayKeepsLines DEF jobs, InLine, Waiting
<1> QED BY <1>2, <1>3, <1>4, <1>5
-----------------------------------------------------------------------------
\* What the steps have in common.
LEMMA AfterSwitchNamed ==
  ASSUME NEW j, NEW e, j.m \in Model
  PROVE  Named(AfterSwitch(j, e)) /\ ~InLine(AfterSwitch(j, e))
<1>1. Named(Done) /\ ~InLine(Done)
  BY DEF Done, NoJob, Named, InLine, Waiting, Within
<1> DEFINE n == PinnedRequest(j, e)
<1>2. n.pc = "prepare" /\ n.todo = {} /\ n.m = j.m
  BY DEF PinnedRequest, NoJob
<1> HIDE DEF n
<1>3. Named(n) /\ ~InLine(n)
  BY <1>2 DEF Named, InLine, Waiting, Within
<1> QED BY <1>1, <1>3 DEF AfterSwitch, n

LEMMA ReuseNamed ==
  ASSUME NEW t \in Task, NEW j, NEW l, j.m \in Model, Reuse(t, j, l)
  PROVE  \E n : Named(n) /\ ~InLine(n) /\ Become(t, n)
BY AfterSwitchNamed DEF Reuse

LEMMA QueuesFromHere ==
  ASSUME LineInv, NEW t \in Task, ~InLine(job[t]), NEW j, NEW u,
         Fields \subseteq DOMAIN j, Named(j), j.m \in Model, MarkAndQueue(t, j, line, u)
  PROVE  Queues(t)
<1>1. [job EXCEPT ![t] = job[t]] = job /\ Lines(line, job)
  BY DEF LineInv, Shaped
<1> QED BY <1>1, QueuesToUnload

LEMMA WalksFromHere ==
  ASSUME LineInv, NEW t \in Task, ~InLine(job[t]), NEW j, NEW u,
         Fields \subseteq DOMAIN j, Named(j), Walk(t, j, line, u)
  PROVE  Queues(t)
<1>1. [job EXCEPT ![t] = job[t]] = job /\ Lines(line, job)
  BY DEF LineInv, Shaped
<1> QED BY <1>1, QueuesInWalk

LEMMA QueuesInGiveUp ==
  ASSUME LineInv, NEW t \in Task, job[t].pc \in Within, GiveUp(t)
  PROVE  Queues(t)
<1>1. Named(Done) /\ ~InLine(Done)
  BY DEF Done, NoJob, Named, InLine, Waiting, Within
<1>2. Left(t)
  BY <1>1, WithinIsInside DEF GiveUp, Left
<1> QED BY <1>1, <1>2, LineSteps, BecomeNamed DEF LineInv, Queues, GiveUp

LEMMA QueuesInEvict ==
  ASSUME LineInv, NEW t \in Task, job[t].pc \in Within, NEW j, NEW v, NEW f,
         Fields \subseteq DOMAIN j, Named(j), j.m \in Model, j.gate = job[t].gate,
         TryEvict(t, j, v, f), line' = line
  PROVE  Queues(t)
<1>1. sems' \in [Model -> Objects \cup {NONE}]
  BY DEF TryEvict, Detach, LineInv, pool
<1>2. \E n : Named(n) /\ n.pc \in {"free", "probe"} /\ n.gate = j.gate /\ Become(t, n)
  BY DEF TryEvict, Named, Fields
<1>3. Stayed(t)
  BY <1>2, WithinIsInside DEF Stayed, InLine, Within
<1> QED BY <1>1, <1>2, <1>3, LineSteps, BecomeNamed DEF LineInv, Queues

LEMMA QueuesInLoad ==
  ASSUME LineInv, NEW t \in Task, job[t].pc \in Within, BeginLoad(t, job[t])
  PROVE  Queues(t)
<1>1. CASE GiveUp(t)
  BY <1>1, QueuesInGiveUp
<1>2. CASE /\ sems' = sems /\ line' = line
           /\ \E e : Become(t, [job[t] EXCEPT !.pc = "load", !.eng = e,
                                                !.victim = NONE, !.freed = NONE])
  <2> Fields \subseteq DOMAIN job[t] /\ Named(job[t])
    BY DEF LineInv, Shaped
  <2>1. job[t].m \in Model
    BY DEF Named, Within
  <2>2. \E n : Named(n) /\ n.pc = "load" /\ n.gate = job[t].gate /\ Become(t, n)
    BY <1>2, <2>1 DEF Named, Fields
  <2>3. Stayed(t)
    BY <1>2, <2>2, WithinIsInside DEF Stayed, InLine, Within
  <2> QED BY <1>2, <2>2, <2>3, LineSteps, BecomeNamed DEF LineInv, Queues
<1> QED BY <1>1, <1>2 DEF BeginLoad

\* Every step of a task.
LEMMA TaskQueues ==
  ASSUME LineInv, NEW t \in Task, NewJob(t) \/ JobStep(t)
  PROVE  Queues(t)
<1> USE DEF At, Explicit, pool, abort
<1> /\ Shaped /\ Named(job[t]) /\ Fields \subseteq DOMAIN job[t]
    /\ sems \in [Model -> Objects \cup {NONE}]
  BY DEF LineInv, Shaped
<1>1. ASSUME NEW m \in Model, NEW b \in BOOLEAN, Request(t, m, b) PROVE Queues(t)
  <2>1. sems' \in [Model -> Objects \cup {NONE}]
    BY <1>1, GateOfIsGate DEF Request
  <2> DEFINE j == [NoJob EXCEPT !.kind = "request", !.m = m, !.activate = b]
             n1 == PinnedRequest(j, engines[m])
             n2 == [j EXCEPT !.pc = "called"]
  <2>2. n1.pc = "prepare" /\ n2.pc = "called" /\ Named(n1) /\ Named(n2)
    BY DEF PinnedRequest, NoJob, Named
  <2>3. line' = line /\ (Become(t, n1) \/ Become(t, n2)) /\ job[t].pc = "none"
    BY <1>1 DEF Request, NoJob
  <2> HIDE DEF n1, n2
  <2>4. Stayed(t)
    BY <2>2, <2>3 DEF Stayed, InLine, Waiting, Within
  <2> QED BY <2>1, <2>2, <2>3, <2>4, LineSteps, BecomeNamed DEF Queues
<1>2. ASSUME NEW m \in Model, NEW b \in BOOLEAN, Switch(t, m, b) PROVE Queues(t)
  <2>1. sems' = sems /\ job[t].pc = "none"
    BY <1>2 DEF Switch, NoJob
  <2>2. \E n : Named(n) /\ Become(t, n)
    BY <1>2 DEF Switch, NoJob, Named
  <2>3. Stayed(t)
    BY <2>1, <1>2 DEF Switch, NoJob, Stayed, InLine, Waiting, Within
  <2> QED BY <2>1, <2>2, <2>3, LineSteps, BecomeNamed DEF Queues
<1>3. ASSUME NEW m \in Model, NEW b \in BOOLEAN, Unload(t, m, b) PROVE Queues(t)
  <2> DEFINE j == [NoJob EXCEPT !.kind = "unload", !.m = m, !.force = b, !.eng = engines[m]]
             n == [j EXCEPT !.pc = "unload_wait"]
  <2>1. /\ Fields \subseteq DOMAIN j /\ Named(j) /\ j.m = m
        /\ Named(n) /\ n.pc = "unload_wait" /\ job[t].pc = "none"
    BY <1>3 DEF NoJob, Fields, Named, Unload
  <2> HIDE DEF j, n
  <2>2. CASE MarkAndQueue(t, j, line, unloading)
    BY <2>1, <2>2, QueuesFromHere DEF InLine, Waiting, Within
  <2>3. CASE Become(t, n) /\ line' = line /\ sems' = sems
    BY <2>1, <2>3, LineSteps, BecomeNamed DEF Queues, Stayed, InLine, Waiting, Within
  <2> QED BY <1>3, <2>2, <2>3 DEF Unload, j, n
<1>4. ASSUME NEW m \in Model, IdleUnload(t, m) PROVE Queues(t)
  <2>1. PICK g \in IdleGates(m) : IdleUnload(t, m)!3!(g)
    BY <1>4 DEF IdleUnload
  <2>2. g \in Objects
    BY GateOfIsGate DEF IdleGates
  <2> DEFINE n == [NoJob EXCEPT !.kind = "idle_unload", !.m = m, !.gate = g, !.eng = engines[m],
                                !.pc = IF Head(Join(t, g)[g]) = t THEN "idle_free" ELSE "idle_gate"]
  <2>3. /\ n.gate = g /\ Named(n) /\ n.pc \in {"idle_free", "idle_gate"}
        /\ n.pc = "idle_free" => Head(Join(t, g)[g]) = t
    BY DEF NoJob, Named
  <2>4. sems' = sems /\ line' = Join(t, g) /\ Become(t, n) /\ job[t].pc = "none"
    BY <1>4, <2>1 DEF IdleUnload, NoJob
  <2> HIDE DEF n
  <2>5. Joined(t)
    BY <2>2, <2>3, <2>4 DEF Joined, InLine, Waiting, Within
  <2> QED BY <2>3, <2>4, <2>5, LineSteps, BecomeNamed DEF Queues
<1>5. ASSUME NEW b \in BOOLEAN, UnloadAll(t, b) PROVE Queues(t)
  <2> DEFINE j == [NoJob EXCEPT !.kind = "unload_all", !.force = b]
             k == [j EXCEPT !.todo = {m \in Model : engines[m] # NONE}]
             n == [j EXCEPT !.pc = "all_wait"]
  <2>1. /\ Fields \subseteq DOMAIN k /\ Named(k) /\ Named(n) /\ n.pc = "all_wait"
        /\ job[t].pc = "none"
    BY <1>5 DEF NoJob, Fields, Named, UnloadAll
  <2> HIDE DEF j, k, n
  <2>2. CASE Walk(t, k, line, unloading)
    BY <2>1, <2>2, WalksFromHere DEF InLine, Waiting, Within
  <2>3. CASE Become(t, n) /\ line' = line /\ sems' = sems
    BY <2>1, <2>3, LineSteps, BecomeNamed DEF Queues, Stayed, InLine, Waiting, Within
  <2> QED BY <1>5, <2>2, <2>3 DEF UnloadAll, j, k, n
<1>6. CASE QueueSwitch(t)
  <2> DEFINE g == GateOf(job[t].m)
             j == [job[t] EXCEPT !.gate = g, !.pc = "gate"]
             l == Join(t, g)
  <2>1. g \in Objects /\ ~InLine(job[t])
    BY <1>6, GateOfIsGate DEF QueueSwitch, Named, InLine, Waiting, Within
  <2>2. Fields \subseteq DOMAIN j /\ Named(j) /\ j.pc = "gate" /\ j.gate = g /\ j.m = job[t].m
    BY <1>6 DEF QueueSwitch, Named, Fields
  <2>3. /\ sems' = [sems EXCEPT ![j.m] = g]
        /\ \/ Head(l[g]) = t /\ \E w : EnterSwitch(t, j, l, w)
           \/ line' = l /\ Become(t, j)
    BY <1>6, <2>2 DEF QueueSwitch
  <2>4. sems' \in [Model -> Objects \cup {NONE}]
    BY <2>1, <2>3
  <2> HIDE DEF g, j, l
  <2>5. CASE line' = l /\ Become(t, j)
    <3>1. Joined(t)
      BY <2>1, <2>2, <2>5 DEF Joined, l, InLine, Waiting, Within
    <3> QED BY <2>2, <2>4, <2>5, <3>1, LineSteps, BecomeNamed DEF Queues
  <2>6. CASE Head(l[g]) = t /\ \E w : EnterSwitch(t, j, l, w)
    <3>1. Lines(l, [job EXCEPT ![t] = j])
      BY <2>1, <2>2, JoinKeepsLines DEF l, Join, LineInv, Shaped, InLine, Waiting, Within
    <3> QED BY <2>2, <2>4, <2>6, <3>1, QueuesInEnter DEF Queues
  <2> QED BY <2>3, <2>5, <2>6
<1>7. CASE GateGranted(t)
  <2>1. /\ job[t].pc = "gate" /\ Head(line[job[t].gate]) = t
        /\ EnterSwitch(t, job[t], line, desired) /\ sems' = sems
    BY <1>7 DEF GateGranted, Inside
  <2>2. Lines(line, [job EXCEPT ![t] = job[t]])
    <3>1. [job EXCEPT ![t] = job[t]] = job
      BY DEF LineInv, Shaped
    <3> QED BY <3>1 DEF LineInv
  <2>3. Lines(line', job') /\ Named(job'[t])
    BY <2>1, <2>2, QueuesInEnter
  <2> QED BY <2>1, <2>3 DEF Queues
<1>8. CASE Recheck(t)
  <2>1. sems' \in [Model -> Objects \cup {NONE}]
    BY <1>8 DEF Recheck, Detach
  <2>2. \E n : Named(n) /\ Become(t, n)
    <3>1. CASE Reuse(t, job[t], line)
      BY <1>8, <3>1, ReuseNamed DEF Recheck, Named
    <3> QED BY <1>8, <3>1 DEF Recheck, Named, Fields
  <2>3. Left(t) \/ Stayed(t)
    <3>1. CASE Reuse(t, job[t], line)
      BY <1>8, <3>1, WithinIsInside, ReuseNamed DEF Recheck, Reuse, Left, Within, InLine, Named
    <3> QED BY <1>8, <3>1, WithinIsInside DEF Recheck, Stayed, Within, InLine, Fields
  <2> QED BY <2>1, <2>2, <2>3, LineSteps, BecomeNamed DEF Queues
<1>9. CASE Budget(t)
  <2>1. sems' \in [Model -> Objects \cup {NONE}]
    BY <1>9 DEF Budget
  <2>2. \E n : Named(n) /\ Become(t, n)
    BY <1>9 DEF Budget, Named, Done, NoJob, Fields
  <2>3. Left(t) \/ Stayed(t)
    BY <1>9, WithinIsInside DEF Budget, Left, Stayed, Within, Waiting, InLine, Done,
       NoJob, Fields
  <2> QED BY <2>1, <2>2, <2>3, LineSteps, BecomeNamed DEF Queues
<1>10. CASE Probe(t)
  <2>1. CASE BeginLoad(t, job[t])
    BY <1>10, <2>1, QueuesInLoad DEF Probe, Within
  <2>2. CASE \E v : TryEvict(t, job[t], v, FALSE) /\ line' = line
    BY <1>10, <2>2, QueuesInEvict DEF Probe, Within, Named
  <2>3. CASE /\ UNCHANGED <<pool, line>>
             /\ \E v : \/ Become(t, [job[t] EXCEPT !.pc = "confirm", !.victim = v])
                      \/ Become(t, [job[t] EXCEPT !.pc = "ladder"])
    <3>1. \E n : Named(n) /\ Become(t, n)
      BY <1>10, <2>3 DEF Probe, Named, Fields
    <3>2. Stayed(t)
      BY <1>10, <2>3, WithinIsInside DEF Probe, Stayed, Within, InLine, Fields
    <3> QED BY <2>3, <3>1, <3>2, LineSteps, BecomeNamed DEF Queues
  <2> QED BY <1>10, <2>1, <2>2, <2>3 DEF Probe
<1>11. CASE Ladder(t)
  <2> DEFINE j == [job[t] EXCEPT !.tried = TRUE]
  <2>1. /\ Fields \subseteq DOMAIN j /\ Named(j) /\ j.pc = "ladder" /\ j.gate = job[t].gate
        /\ job[t].pc = "ladder"
    BY <1>11 DEF Ladder, Named, Fields
  <2> HIDE DEF j
  <2>2. CASE BeginLoad(t, job[t])
    BY <2>1, <2>2, QueuesInLoad DEF Within
  <2>3. CASE GiveUp(t)
    BY <2>1, <2>3, QueuesInGiveUp DEF Within
  <2>4. CASE \E v : TryEvict(t, j, v, TRUE) /\ line' = line
    BY <2>1, <2>4, QueuesInEvict DEF Within, Named
  <2>5. CASE /\ UNCHANGED <<pool, line>>
             /\ \E v, e : Become(t, [j EXCEPT !.pc = "wait_busy", !.victim = v, !.freed = e])
    <3>1. \E n : Named(n) /\ Become(t, n)
      BY <2>1, <2>5 DEF Named, Fields
    <3>2. Stayed(t)
      BY <2>1, <2>5, WithinIsInside DEF Stayed, Within, InLine, Fields
    <3> QED BY <2>5, <3>1, <3>2, LineSteps, BecomeNamed DEF Queues
  <2> QED BY <1>11, <2>2, <2>3, <2>4, <2>5 DEF Ladder, j
<1>12. CASE BusyWaitEnds(t)
  <2>1. job[t].pc = "wait_busy"
    BY <1>12 DEF BusyWaitEnds
  <2>2. CASE GiveUp(t)
    BY <2>1, <2>2, QueuesInGiveUp DEF Within
  <2>3. CASE \E v : TryEvict(t, job[t], v, FALSE) /\ line' = line
    BY <2>1, <2>3, QueuesInEvict DEF Within, Named
  <2>4. CASE /\ UNCHANGED <<pool, line>>
             /\ \/ Become(t, [job[t] EXCEPT !.pc = "confirm", !.freed = NONE])
                \/ Become(t, [job[t] EXCEPT !.pc = "probe", !.victim = NONE, !.freed = NONE])
                \/ Become(t, [job[t] EXCEPT !.pc = "ladder", !.victim = NONE, !.freed = NONE])
    <3>1. \E n : Named(n) /\ Become(t, n)
      BY <2>1, <2>4 DEF Named, Fields
    <3>2. Stayed(t)
      BY <2>1, <2>4, WithinIsInside DEF Stayed, Within, InLine, Fields
    <3> QED BY <2>4, <3>1, <3>2, LineSteps, BecomeNamed DEF Queues
  <2> QED BY <1>12, <2>2, <2>3, <2>4 DEF BusyWaitEnds
<1>13. CASE Confirm(t)
  <2>1. job[t].pc = "confirm"
    BY <1>13 DEF Confirm
  <2>2. CASE GiveUp(t)
    BY <2>1, <2>2, QueuesInGiveUp DEF Within
  <2>3. CASE \E v : TryEvict(t, job[t], v, FALSE) /\ line' = line
    BY <2>1, <2>3, QueuesInEvict DEF Within, Named
  <2> QED BY <1>13, <2>2, <2>3 DEF Confirm
<1>14. CASE Freed(t)
  <2>1. sems' \in [Model -> Objects \cup {NONE}]
    BY <1>14 DEF Freed
  <2>2. \E n : Named(n) /\ Become(t, n)
    BY <1>14 DEF Freed, Named, Done, NoJob, Fields
  <2>3. Stayed(t)
    BY <1>14, WithinIsInside DEF Freed, Stayed, Within, Waiting, InLine, Done, NoJob, Fields
  <2> QED BY <2>1, <2>2, <2>3, LineSteps, BecomeNamed DEF Queues
<1>15. CASE LoadFailed(t)
  BY <1>15, QueuesInGiveUp DEF LoadFailed, Within
<1>16. CASE Commit(t)
  <2>1. sems' = sems /\ job[t].pc = "loaded" /\ line' = LeaveIn(line, job[t].gate)
    BY <1>16 DEF Commit
  <2>2. \E n : Named(n) /\ ~InLine(n) /\ Become(t, n)
    <3>1. PICK e : Become(t, AfterSwitch(job[t], e))
      BY <1>16 DEF Commit
    <3> QED BY <2>1, <3>1, AfterSwitchNamed DEF Named
  <2>3. Left(t)
    BY <2>1, <2>2, WithinIsInside DEF Left, Within
  <2> QED BY <2>1, <2>2, <2>3, LineSteps, BecomeNamed DEF Queues
<1>17. CASE Prepared(t)
  <2> DEFINE g == GateOf(job[t].m)
             j == [job[t] EXCEPT !.gate = g, !.pc = "queued"]
  <2>1. g \in Objects /\ ~InLine(job[t])
    BY <1>17, GateOfIsGate DEF Prepared, Named, InLine, Waiting, Within
  <2>2. Named(j) /\ j.pc = "queued" /\ j.gate = g /\ j.m = job[t].m
    BY <1>17 DEF Prepared, Named, Fields
  <2>3. CASE sems' = [sems EXCEPT ![j.m] = j.gate] /\ line' = Join(t, j.gate) /\ Become(t, j)
    <3>1. sems' \in [Model -> Objects \cup {NONE}]
      BY <2>1, <2>2, <2>3
    <3> HIDE DEF g, j
    <3>2. Joined(t)
      BY <2>1, <2>2, <2>3 DEF Joined, InLine, Waiting, Within
    <3> QED BY <2>2, <2>3, <3>1, <3>2, LineSteps, BecomeNamed DEF Queues
  <2>4. CASE Become(t, Done) /\ sems' = sems /\ line' = line
    <3>1. Named(Done) /\ ~InLine(Done)
      BY DEF Done, NoJob, Named, InLine, Waiting, Within
    <3> QED BY <2>1, <2>4, <3>1, LineSteps, BecomeNamed DEF Queues, Stayed
  <2> QED BY <1>17, <2>3, <2>4 DEF Prepared
<1>18. CASE Produce(t)
  <2>1. sems' \in [Model -> Objects \cup {NONE}]
    BY <1>18 DEF Produce
  <2>2. \E n : Named(n) /\ Become(t, n)
    BY <1>18 DEF Produce, Named, Done, NoJob, Fields
  <2>3. Stayed(t)
    BY <1>18, WithinIsInside DEF Produce, Stayed, Within, Waiting, InLine, Done, NoJob, Fields
  <2> QED BY <2>1, <2>2, <2>3, LineSteps, BecomeNamed DEF Queues
<1>19. CASE Replied(t)
  <2>1. sems' \in [Model -> Objects \cup {NONE}]
    BY <1>19 DEF Replied
  <2>2. \E n : Named(n) /\ Become(t, n)
    BY <1>19 DEF Replied, Named, Done, NoJob, Fields
  <2>3. Left(t)
    BY <1>19, WithinIsInside DEF Replied, Left, Within, Waiting, InLine, Done, NoJob
  <2> QED BY <2>1, <2>2, <2>3, LineSteps, BecomeNamed DEF Queues
<1>20. CASE UnloadWaitEnds(t)
  <2>1. job[t].pc = "unload_wait" /\ ~InLine(job[t])
    BY <1>20 DEF UnloadWaitEnds, InLine, Waiting, Within
  <2>2. CASE MarkAndQueue(t, job[t], line, unloading)
    BY <2>1, <2>2, QueuesFromHere DEF Named
  <2>3. CASE Become(t, Done) /\ sems' = sems /\ line' = line
    <3>1. Named(Done) /\ ~InLine(Done)
      BY DEF Done, NoJob, Named, InLine, Waiting, Within
    <3> QED BY <2>1, <2>3, <3>1, LineSteps, BecomeNamed DEF Queues, Stayed
  <2> QED BY <1>20, <2>2, <2>3 DEF UnloadWaitEnds
<1>21. CASE UnloadGranted(t)
  <2>1. sems' \in [Model -> Objects \cup {NONE}]
    BY <1>21 DEF UnloadGranted
  <2>2. \E n : Named(n) /\ Become(t, n)
    BY <1>21 DEF UnloadGranted, Named, Done, NoJob, Fields
  <2>3. Stayed(t)
    BY <1>21, WithinIsInside DEF UnloadGranted, Stayed, Within, Waiting, InLine, Done, NoJob, Fields
  <2> QED BY <2>1, <2>2, <2>3, LineSteps, BecomeNamed DEF Queues
<1>22. CASE Unloaded(t)
  <2>1. sems' \in [Model -> Objects \cup {NONE}]
    BY <1>22 DEF Unloaded
  <2>2. \E n : Named(n) /\ Become(t, n)
    BY <1>22 DEF Unloaded, Named, Done, NoJob, Fields
  <2>3. Left(t)
    BY <1>22, WithinIsInside DEF Unloaded, Left, Within, Waiting, InLine, Done, NoJob
  <2> QED BY <2>1, <2>2, <2>3, LineSteps, BecomeNamed DEF Queues
<1>23. CASE AllWaitEnds(t)
  <2> DEFINE k == [job[t] EXCEPT !.todo = {m \in Model : engines[m] # NONE}]
  <2>1. Fields \subseteq DOMAIN k /\ Named(k) /\ ~InLine(job[t])
    BY <1>23 DEF AllWaitEnds, Named, Fields, InLine, Waiting, Within
  <2>2. Walk(t, k, line, unloading)
    BY <1>23 DEF AllWaitEnds
  <2> HIDE DEF k
  <2> QED BY <2>1, <2>2, WalksFromHere
<1>24. CASE ReadingTaken(t)
  <2>1. ~InLine(job[t]) /\ job[t].m \in Model
    BY <1>24 DEF ReadingTaken, Named, InLine, Waiting, Within
  <2>2. CASE \E k : Fields \subseteq DOMAIN k /\ Named(k) /\ Walk(t, k, line, unloading)
    BY <2>1, <2>2, WalksFromHere
  <2>3. CASE MarkAndQueue(t, job[t], line, unloading)
    BY <2>1, <2>3, QueuesFromHere
  <2>4. /\ Fields \subseteq DOMAIN [job[t] EXCEPT !.kept = job[t].kept \cup {job[t].m}]
        /\ Named([job[t] EXCEPT !.kept = job[t].kept \cup {job[t].m}])
    BY DEF Fields, Named
  <2> QED BY <1>24, <2>2, <2>3, <2>4 DEF ReadingTaken
<1>25. CASE UnloadedGoOn(t)
  <2>1. job[t].pc = "unloaded" /\ InLine(job[t]) /\ Inside(t)
    BY <1>25, WithinIsInside DEF UnloadedGoOn, Within
  <2>2. \E u : Walk(t, job[t], LeaveIn(line, job[t].gate), u)
    BY <1>25 DEF UnloadedGoOn
  <2>3. ~InLine(Done)
    BY DEF Done, NoJob, InLine, Waiting, Within
  <2>4. Lines(LeaveIn(line, job[t].gate), [job EXCEPT ![t] = Done])
    BY <2>1, <2>3, LeaveKeepsLines DEF LineInv, Shaped, Inside
  <2> QED BY <2>2, <2>3, <2>4, QueuesInWalk
<1>26. CASE AllReleased(t)
  <2>1. sems' \in [Model -> Objects \cup {NONE}]
    BY <1>26 DEF AllReleased
  <2>2. \E n : Named(n) /\ Become(t, n)
    BY <1>26 DEF AllReleased, Named, Done, NoJob, Fields
  <2>3. Stayed(t)
    BY <1>26, WithinIsInside DEF AllReleased, Stayed, Within, Waiting, InLine, Done, NoJob, Fields
  <2> QED BY <2>1, <2>2, <2>3, LineSteps, BecomeNamed DEF Queues
<1>27. CASE IdleGranted(t)
  <2>1. sems' \in [Model -> Objects \cup {NONE}]
    BY <1>27 DEF IdleGranted
  <2>2. \E n : Named(n) /\ Become(t, n)
    BY <1>27 DEF IdleGranted, Named, Done, NoJob, Fields
  <2>3. Left(t) \/ Stayed(t)
    BY <1>27, WithinIsInside DEF IdleGranted, Left, Stayed, Within, Waiting, InLine, Done,
       NoJob, Fields
  <2> QED BY <2>1, <2>2, <2>3, LineSteps, BecomeNamed DEF Queues
<1>28. CASE IdleFreed(t)
  <2>1. sems' \in [Model -> Objects \cup {NONE}]
    BY <1>28 DEF IdleFreed
  <2>2. \E n : Named(n) /\ Become(t, n)
    BY <1>28 DEF IdleFreed, Named, Done, NoJob, Fields
  <2>3. Left(t)
    BY <1>28, WithinIsInside DEF IdleFreed, Left, Within, Waiting, InLine, Done, NoJob
  <2> QED BY <2>1, <2>2, <2>3, LineSteps, BecomeNamed DEF Queues
<1>29. CASE FreeEnds(t)
  <2>1. sems' \in [Model -> Objects \cup {NONE}]
    BY <1>29 DEF FreeEnds
  <2>2. \E n : Named(n) /\ Become(t, n)
    BY <1>29 DEF FreeEnds, Named, Done, NoJob, Fields
  <2>3. Stayed(t)
    BY <1>29, WithinIsInside DEF FreeEnds, Stayed, Within, Waiting, InLine, Done, NoJob, Fields
  <2> QED BY <2>1, <2>2, <2>3, LineSteps, BecomeNamed DEF Queues
<1>30. CASE LoadEnds(t)
  <2>1. sems' \in [Model -> Objects \cup {NONE}]
    BY <1>30 DEF LoadEnds
  <2>2. \E n : Named(n) /\ Become(t, n)
    BY <1>30 DEF LoadEnds, Named, Done, NoJob, Fields
  <2>3. Stayed(t)
    BY <1>30, WithinIsInside DEF LoadEnds, Stayed, Within, Waiting, InLine, Done, NoJob, Fields
  <2> QED BY <2>1, <2>2, <2>3, LineSteps, BecomeNamed DEF Queues
<1>31. CASE LazyLoadEnds(t)
  <2>1. sems' \in [Model -> Objects \cup {NONE}]
    BY <1>31 DEF LazyLoadEnds
  <2>2. \E n : Named(n) /\ Become(t, n)
    BY <1>31 DEF LazyLoadEnds, Named, Done, NoJob, Fields
  <2>3. Stayed(t)
    BY <1>31, WithinIsInside DEF LazyLoadEnds, Stayed, Within, Waiting, InLine, Done, NoJob, Fields
  <2> QED BY <2>1, <2>2, <2>3, LineSteps, BecomeNamed DEF Queues
<1>32. CASE UnloadEnds(t)
  <2>1. sems' \in [Model -> Objects \cup {NONE}]
    BY <1>32 DEF UnloadEnds
  <2>2. \E n : Named(n) /\ Become(t, n)
    BY <1>32 DEF UnloadEnds, Named, Done, NoJob, Fields
  <2>3. Stayed(t)
    BY <1>32, WithinIsInside DEF UnloadEnds, Stayed, Within, Waiting, InLine, Done, NoJob, Fields
  <2> QED BY <2>1, <2>2, <2>3, LineSteps, BecomeNamed DEF Queues
<1>33. CASE IdleFreeEnds(t)
  <2>1. sems' \in [Model -> Objects \cup {NONE}]
    BY <1>33 DEF IdleFreeEnds
  <2>2. \E n : Named(n) /\ Become(t, n)
    BY <1>33 DEF IdleFreeEnds, Named, Done, NoJob, Fields
  <2>3. Stayed(t)
    BY <1>33, WithinIsInside DEF IdleFreeEnds, Stayed, Within, Waiting, InLine, Done, NoJob, Fields
  <2> QED BY <2>1, <2>2, <2>3, LineSteps, BecomeNamed DEF Queues
<1>34. CASE Abandon(t)
  <2>1. sems' \in [Model -> Objects \cup {NONE}]
    BY <1>34 DEF Abandon
  <2>2. \E n : Named(n) /\ Become(t, n)
    BY <1>34 DEF Abandon, Named, Done, NoJob, Fields
  <2>3. Left(t)
    BY <1>34, WithinIsInside DEF Abandon, Left, Within, Waiting, InLine, Done, NoJob, Fields
  <2> QED BY <2>1, <2>2, <2>3, LineSteps, BecomeNamed DEF Queues
<1>35. CASE AbandonedEnds(t)
  <2>1. sems' \in [Model -> Objects \cup {NONE}]
    BY <1>35 DEF AbandonedEnds
  <2>2. \E n : Named(n) /\ Become(t, n)
    BY <1>35 DEF AbandonedEnds, Named, Done, NoJob, Fields
  <2>3. Stayed(t)
    BY <1>35, WithinIsInside DEF AbandonedEnds, Stayed, Within, Waiting, InLine, Done, NoJob, Fields
  <2> QED BY <2>1, <2>2, <2>3, LineSteps, BecomeNamed DEF Queues
<1> QED
  BY <1>1, <1>2, <1>3, <1>4, <1>5, <1>6, <1>7, <1>8, <1>9, <1>10, <1>11, <1>12, <1>13,
     <1>14, <1>15, <1>16, <1>17, <1>18, <1>19, <1>20, <1>21, <1>22, <1>23, <1>24, <1>25,
     <1>26, <1>27, <1>28, <1>29, <1>30, <1>31, <1>32, <1>33, <1>34, <1>35
     DEF NewJob, JobStep, LoopStep, ThreadStep

LEMMA LineInvInit == Init => LineInv
<1> SUFFICES ASSUME Init PROVE LineInv
  OBVIOUS
<1>1. Shaped /\ \A t \in Task : Named(job[t]) /\ ~InLine(job[t])
  BY DEF Init, Shaped, Fields, NoJob, Named, InLine, Waiting, Within
<1>2. sems \in [Model -> Objects \cup {NONE}]
  BY FirstObject DEF Init
<1>3. line = [g \in Objects |-> << >>]
  BY DEF Init
<1>4. Lines(line, job)
  BY <1>1, <1>3 DEF Lines, Place, InLine
<1> QED BY <1>1, <1>2, <1>4 DEF LineInv

LEMMA LineInvKept == LineInv /\ [Next]_vars => LineInv'
<1> SUFFICES ASSUME LineInv, [Next]_vars PROVE LineInv'
  OBVIOUS
<1>1. CASE Next
  <2>1. PICK t \in Task : NewJob(t) \/ JobStep(t)
    BY <1>1 DEF Next
  <2>2. Moved(t)
    BY <2>1, TaskStep DEF LineInv
  <2>3. Shaped' /\ \A u \in Task \ {t} : job'[u] = job[u]
    BY <2>2 DEF LineInv, Moved, Shaped
  <2>4. Queues(t)
    BY <2>1, TaskQueues
  <2>5. \A u \in Task : Named(job'[u])
    BY <2>3, <2>4 DEF LineInv, Queues
  <2> QED BY <2>3, <2>4, <2>5 DEF LineInv, Queues, Named, Lines, Place, InLine
<1>2. CASE UNCHANGED vars
  BY <1>2 DEF vars, pool, LineInv, Shaped, Named, Lines, Place, InLine
<1> QED BY <1>1, <1>2

\* Two tasks inside one gate are the same task.
LEMMA InsideAlone ==
  ASSUME LineInv, NEW t \in Task, NEW u \in Task,
         job[t].pc \in Within, job[u].pc \in Within, job[t].gate = job[u].gate
  PROVE  t = u
BY DEF LineInv, Lines, Place
-----------------------------------------------------------------------------
(* One model: nothing is evicted, and its one gate keeps loads, frees and     *)
(* replies apart.                                                             *)

OneModel == \A m, n \in Model : m = n

\* The model's gate is the one every job goes to, and it outlives its engine; no
\* job makes room.
Single == /\ DOMAIN engines = Model
          /\ \A m \in Model : engines[m] # NONE => sems[m] # NONE
          /\ \A m \in Model : \A t \in Task : InLine(job[t]) => job[t].gate = sems[m]
          /\ \A t \in Task : job[t].pc \notin {"confirm", "wait_busy"}

\* A gate is made where there is none, and never taken away.
Gated == \/ sems' = sems
         \/ \E m \in Model : sems' = [sems EXCEPT ![m] = GateOf(m)]

\* What a step of task t does with the gate.
Shares(t) ==
  /\ Gated /\ DOMAIN engines' = DOMAIN engines
  /\ \A m \in Model : engines'[m] # NONE => engines[m] # NONE \/ InLine(job[t])
  /\ InLine(job'[t]) => \/ \E m \in Model : job'[t].gate = sems'[m]
                        \/ InLine(job[t]) /\ job'[t].gate = job[t].gate
  /\ job'[t].pc \notin {"confirm", "wait_busy"}
-----------------------------------------------------------------------------
\* With one model there is no other to evict.
LEMMA NothingElse ==
  ASSUME OneModel, NEW m \in Model
  PROVE  Evictable(m) = {}
BY DEF OneModel, Evictable

\* A task that keeps its gate, or leaves it.
LEMMA StayShares ==
  ASSUME Shaped, NEW t \in Task, sems' = sems, DOMAIN engines' = DOMAIN engines,
         \A m \in Model : engines'[m] # NONE => engines[m] # NONE,
         \E n : /\ InLine(n) => n.gate = job[t].gate
               /\ n.pc \notin {"confirm", "wait_busy"} /\ Become(t, n),
         InLine(job[t]) \/ ~InLine(job'[t])
  PROVE  Shares(t)
BY DEF Shares, Gated, Become, Shaped

\* A task that goes to the gate of model m.
LEMMA QueueShares ==
  ASSUME Shaped, NEW t \in Task, NEW m \in Model, sems \in [Model -> Objects \cup {NONE}],
         sems' = [sems EXCEPT ![m] = GateOf(m)], engines' = engines,
         \E n : /\ InLine(n) => n.gate = GateOf(m)
               /\ n.pc \notin {"confirm", "wait_busy"} /\ Become(t, n)
  PROVE  Shares(t)
BY DEF Shares, Gated, Become, Shaped

LEMMA SharesInQueue ==
  ASSUME LineInv, NEW t \in Task, NEW j, NEW l, NEW u, Fields \subseteq DOMAIN j, j.m \in Model,
         MarkAndQueue(t, j, l, u)
  PROVE  Shares(t)
<1> DEFINE g == GateOf(j.m)
           k == [j EXCEPT !.gate = g]
           n == [k EXCEPT !.pc = IF Head(JoinIn(l, t, g)[g]) = t THEN "unload" ELSE "unload_gate"]
<1>1. n.gate = g /\ n.pc \in {"unload", "unload_gate"}
  BY DEF Fields
<1>2. sems' = [sems EXCEPT ![j.m] = g] /\ engines' = engines /\ Become(t, n)
  BY DEF MarkAndQueue, Fields
<1> HIDE DEF n
<1> QED BY <1>1, <1>2, QueueShares DEF LineInv

LEMMA SharesInWalk ==
  ASSUME LineInv, NEW t \in Task, NEW j, NEW l, NEW u, Fields \subseteq DOMAIN j, Named(j),
         Walk(t, j, l, u)
  PROVE  Shares(t)
<1>1. PICK S \in SUBSET j.todo : Walk(t, j, l, u)!(S)
  BY DEF Walk
<1> DEFINE k == [j EXCEPT !.todo = @ \ S,
                          !.kept = @ \cup {m \in S : engines[m] \in loaded}]
           Visit(m) == [k EXCEPT !.todo = @ \ {m}, !.m = m, !.eng = engines[m]]
<1>2. k.todo \subseteq Model /\ Fields \subseteq DOMAIN k
  BY DEF Named, Fields
<1>3. ASSUME NEW m \in k.todo
      PROVE  Visit(m).m = m /\ Fields \subseteq DOMAIN Visit(m)
  BY <1>2 DEF Fields
<1>4. CASE \E m \in k.todo : MarkAndQueue(t, Visit(m), l, u)
  <2>1. PICK m \in k.todo : MarkAndQueue(t, Visit(m), l, u)
    BY <1>4
  <2>2. Visit(m).m \in Model /\ Fields \subseteq DOMAIN Visit(m)
    BY <1>2, <1>3
  <2> HIDE DEF Visit
  <2> QED BY <2>1, <2>2, SharesInQueue
<1>5. CASE /\ sems' = sems /\ engines' = engines
           /\ \E n : ~InLine(n) /\ Become(t, n)
  <2>1. ~InLine(job'[t])
    BY <1>5 DEF LineInv, Shaped, Become
  <2> QED BY <1>5, <2>1 DEF Shares, Gated, InLine, Within
<1> HIDE DEF k, Visit
<1>6. \/ \E m \in k.todo : MarkAndQueue(t, Visit(m), l, u)
      \/ /\ sems' = sems /\ engines' = engines
         /\ \/ Become(t, [k EXCEPT !.pc = "all_rest", !.m = NONE, !.eng = NONE, !.gate = NONE])
            \/ Become(t, Done)
            \/ \E m \in k.todo :
                 Become(t, [Visit(m) EXCEPT !.pc = "all_reading", !.tried = TRUE, !.gate = NONE])
  BY <1>1 DEF k, Visit
<1>7. ASSUME Become(t, [k EXCEPT !.pc = "all_rest", !.m = NONE, !.eng = NONE, !.gate = NONE])
      PROVE  \E n : ~InLine(n) /\ Become(t, n)
  BY <1>2, <1>7 DEF InLine, Waiting, Within, Fields
<1>8. ASSUME Become(t, Done) PROVE \E n : ~InLine(n) /\ Become(t, n)
  BY <1>8 DEF Done, NoJob, InLine, Waiting, Within
<1>9. ASSUME NEW m \in k.todo,
             Become(t, [Visit(m) EXCEPT !.pc = "all_reading", !.tried = TRUE, !.gate = NONE])
      PROVE  \E n : ~InLine(n) /\ Become(t, n)
  <2> DEFINE v == Visit(m)
             n == [v EXCEPT !.pc = "all_reading", !.tried = TRUE, !.gate = NONE]
  <2>1. Fields \subseteq DOMAIN v
    BY <1>3
  <2> HIDE DEF v
  <2>2. n.pc = "all_reading"
    BY <2>1 DEF Fields
  <2> QED BY <1>9, <2>2 DEF v, InLine, Waiting, Within
<1> QED BY <1>4, <1>5, <1>6, <1>7, <1>8, <1>9

LEMMA EnterShares ==
  ASSUME NEW t \in Task, NEW j, Fields \subseteq DOMAIN j, j.pc = "gate", j.m \in Model,
         \E l, w : EnterSwitch(t, j, l, w)
  PROVE  \E n : /\ InLine(n) => n.gate = j.gate
               /\ n.pc \notin {"confirm", "wait_busy"} /\ Become(t, n)
<1>1. CASE Become(t, Done)
  BY <1>1 DEF Done, NoJob, InLine, Waiting, Within
<1>2. CASE \E l : Reuse(t, j, l)
  BY <1>2, ReuseNamed DEF InLine, Within
<1>3. CASE Become(t, [j EXCEPT !.pc = "recheck", !.eng = engines[j.m]])
  BY <1>3 DEF Fields
<1>4. CASE Become(t, [j EXCEPT !.pc = "budget"])
  BY <1>4 DEF Fields
<1> QED BY <1>1, <1>2, <1>3, <1>4 DEF EnterSwitch

LEMMA GiveUpShares ==
  ASSUME Shaped, NEW t \in Task, job[t].pc \in Within, GiveUp(t)
  PROVE  Shares(t)
<1>1. job'[t].pc = "done"
  BY DEF GiveUp, Become, Shaped, Done, NoJob
<1> QED BY <1>1 DEF GiveUp, Shares, Gated, InLine, Waiting, Within

LEMMA LoadShares ==
  ASSUME Shaped, NEW t \in Task, job[t].pc \in Within, BeginLoad(t, job[t])
  PROVE  Shares(t)
<1>1. CASE GiveUp(t)
  BY <1>1, GiveUpShares
<1>2. CASE /\ sems' = sems /\ engines' = engines
           /\ \E e : Become(t, [job[t] EXCEPT !.pc = "load", !.eng = e,
                                                !.victim = NONE, !.freed = NONE])
  <2>1. job'[t].pc = "load" /\ job'[t].gate = job[t].gate
    BY <1>2 DEF Become, Shaped, Fields
  <2> QED BY <1>2, <2>1 DEF Shares, Gated, InLine, Within
<1> QED BY <1>1, <1>2 DEF BeginLoad

\* Every step of a task, in a server with one model.
LEMMA TaskShares ==
  ASSUME OneModel, LineInv, Single, NEW t \in Task, NewJob(t) \/ JobStep(t)
  PROVE  Shares(t)
<1> USE DEF At, Explicit, pool, abort
<1> /\ Shaped /\ Named(job[t]) /\ Fields \subseteq DOMAIN job[t]
    /\ sems \in [Model -> Objects \cup {NONE}]
  BY DEF LineInv, Shaped
<1>1. ASSUME NEW m \in Model, NEW b \in BOOLEAN, Request(t, m, b) PROVE Shares(t)
  <2> DEFINE j == [NoJob EXCEPT !.kind = "request", !.m = m, !.activate = b]
             n1 == PinnedRequest(j, engines[m])
             n2 == [j EXCEPT !.pc = "called"]
  <2>1. n1.pc = "prepare" /\ n2.pc = "called"
    BY DEF PinnedRequest, NoJob
  <2>2. Become(t, n1) \/ Become(t, n2)
    BY <1>1 DEF Request
  <2> HIDE DEF n1, n2
  <2>3. job'[t].pc \in {"prepare", "called"}
    BY <2>1, <2>2 DEF Become, Shaped
  <2>4. engines' = engines /\ Gated
    BY <1>1 DEF Request, Gated
  <2> QED BY <2>3, <2>4 DEF Shares, InLine, Waiting, Within
<1>2. ASSUME NEW m \in Model, NEW b \in BOOLEAN, Switch(t, m, b) PROVE Shares(t)
  <2>1. job'[t].pc = "called"
    BY <1>2 DEF Switch, NoJob, Become, Shaped
  <2> QED BY <1>2, <2>1 DEF Switch, Shares, Gated, InLine, Waiting, Within
<1>3. ASSUME NEW m \in Model, NEW b \in BOOLEAN, Unload(t, m, b) PROVE Shares(t)
  <2> DEFINE j == [NoJob EXCEPT !.kind = "unload", !.m = m, !.force = b, !.eng = engines[m]]
             n == [j EXCEPT !.pc = "unload_wait"]
  <2>1. Fields \subseteq DOMAIN j /\ j.m = m /\ n.pc = "unload_wait"
    BY DEF NoJob, Fields
  <2> HIDE DEF j, n
  <2>2. CASE \E l, u : MarkAndQueue(t, j, l, u)
    BY <2>1, <2>2, SharesInQueue
  <2>3. CASE Become(t, n) /\ UNCHANGED <<pool, line>>
    <3>1. job'[t].pc = "unload_wait"
      BY <2>1, <2>3 DEF Become, Shaped
    <3> QED BY <2>3, <3>1 DEF Shares, Gated, InLine, Waiting, Within
  <2> QED BY <1>3, <2>2, <2>3 DEF Unload, j, n
<1>4. ASSUME NEW m \in Model, IdleUnload(t, m) PROVE Shares(t)
  <2>1. PICK g \in IdleGates(m) : IdleUnload(t, m)!3!(g)
    BY <1>4 DEF IdleUnload
  <2>2. engines[m] # NONE /\ engines' = engines /\ sems' = sems
    BY <1>4 DEF IdleUnload
  <2>3. g = sems[m]
    BY <2>2 DEF IdleGates, Single
  <2> DEFINE n == [NoJob EXCEPT !.kind = "idle_unload", !.m = m, !.gate = g, !.eng = engines[m],
                                !.pc = IF Head(Join(t, g)[g]) = t THEN "idle_free" ELSE "idle_gate"]
  <2>4. n.gate = g /\ n.pc \in {"idle_free", "idle_gate"}
    BY DEF NoJob
  <2>5. Become(t, n)
    BY <2>1
  <2> HIDE DEF n
  <2>6. job'[t] = n
    BY <2>5 DEF Become, Shaped
  <2> QED BY <2>2, <2>3, <2>4, <2>6 DEF Shares, Gated
<1>5. ASSUME NEW b \in BOOLEAN, UnloadAll(t, b) PROVE Shares(t)
  <2> DEFINE j == [NoJob EXCEPT !.kind = "unload_all", !.force = b]
             k == [j EXCEPT !.todo = {m \in Model : engines[m] # NONE}]
             n == [j EXCEPT !.pc = "all_wait"]
  <2>1. Fields \subseteq DOMAIN k /\ Named(k) /\ n.pc = "all_wait"
    BY DEF NoJob, Fields, Named
  <2> HIDE DEF j, k, n
  <2>2. CASE \E l, u : Walk(t, k, l, u)
    BY <2>1, <2>2, SharesInWalk
  <2>3. CASE Become(t, n) /\ UNCHANGED <<pool, line>>
    <3>1. job'[t].pc = "all_wait"
      BY <2>1, <2>3 DEF Become, Shaped
    <3> QED BY <2>3, <3>1 DEF Shares, Gated, InLine, Waiting, Within
  <2> QED BY <1>5, <2>2, <2>3 DEF UnloadAll, j, k, n
<1>6. CASE QueueSwitch(t)
  <2> DEFINE j == [job[t] EXCEPT !.gate = GateOf(job[t].m), !.pc = "gate"]
  <2>1. /\ Fields \subseteq DOMAIN j /\ j.pc = "gate" /\ j.gate = GateOf(j.m) /\ j.m \in Model
        /\ j.m = job[t].m
    BY <1>6 DEF QueueSwitch, Named, Fields
  <2>2. /\ sems' = [sems EXCEPT ![j.m] = j.gate] /\ engines' = engines
        /\ Become(t, j) \/ \E l, w : EnterSwitch(t, j, l, w)
    BY <1>6 DEF QueueSwitch, EnterSwitch, Reuse
  <2> HIDE DEF j
  <2>3. \E n : /\ InLine(n) => n.gate = j.gate
               /\ n.pc \notin {"confirm", "wait_busy"} /\ Become(t, n)
    BY <2>1, <2>2, EnterShares
  <2> QED BY <2>1, <2>2, <2>3, QueueShares
<1>7. CASE GateGranted(t)
  <2>1. /\ job[t].pc = "gate" /\ \E l, w : EnterSwitch(t, job[t], l, w)
        /\ engines' = engines /\ sems' = sems
    BY <1>7 DEF GateGranted, EnterSwitch, Reuse
  <2>3. job[t].m \in Model
    BY <2>1 DEF Named
  <2>2. \E n : /\ InLine(n) => n.gate = job[t].gate
               /\ n.pc \notin {"confirm", "wait_busy"} /\ Become(t, n)
    BY <2>1, <2>3, EnterShares
  <2> QED BY <2>1, <2>2, StayShares DEF InLine, Waiting
<1>8. CASE Recheck(t)
  <2>1. \E n : /\ InLine(n) => n.gate = job[t].gate
               /\ n.pc \notin {"confirm", "wait_busy"} /\ Become(t, n)
    <3>1. CASE Reuse(t, job[t], line)
      <4>1. job[t].m \in Model
        BY <1>8 DEF Recheck, Named
      <4>2. PICK n : ~InLine(n) /\ Become(t, n)
        BY <3>1, <4>1, ReuseNamed
      <4> QED BY <4>2 DEF InLine, Within
    <3> QED BY <1>8, <3>1 DEF Recheck, Fields
  <2>2. /\ sems' = sems /\ DOMAIN engines' = DOMAIN engines
        /\ \A m \in Model : engines'[m] # NONE => engines[m] # NONE
    <3>1. CASE Detach(job[t].m, job[t].eng, FALSE, TRUE)
      BY <3>1 DEF Detach, Single
    <3>2. CASE engines' = engines /\ sems' = sems
      BY <3>2
    <3> QED BY <1>8, <3>1, <3>2 DEF Recheck, Reuse
  <2> QED BY <1>8, <2>1, <2>2, StayShares DEF Recheck, InLine, Within
<1>9. CASE Budget(t)
  <2>1. \E n : /\ InLine(n) => n.gate = job[t].gate
               /\ n.pc \notin {"confirm", "wait_busy"} /\ Become(t, n)
    BY <1>9 DEF Budget, Done, NoJob, Fields, InLine, Waiting, Within
  <2>2. sems' = sems /\ engines' = engines /\ (InLine(job[t]) \/ ~InLine(job'[t]))
    BY <1>9 DEF Budget, Done, NoJob, Fields, InLine, Waiting, Within, Become, Shaped
  <2> QED BY <2>1, <2>2, StayShares
<1>10. CASE Probe(t)
  <2>1. job[t].pc = "probe" /\ job[t].m \in Model
    BY <1>10 DEF Probe, Named
  <2>2. IdleVictims(job[t].m) = {}
    BY <2>1, NothingElse DEF IdleVictims
  <2>3. CASE BeginLoad(t, job[t])
    BY <2>1, <2>3, LoadShares DEF Within
  <2>4. CASE Become(t, [job[t] EXCEPT !.pc = "ladder"]) /\ UNCHANGED <<pool, line>>
    <3>1. \E n : /\ InLine(n) => n.gate = job[t].gate
                 /\ n.pc \notin {"confirm", "wait_busy"} /\ Become(t, n)
      BY <2>4 DEF Fields
    <3> QED BY <2>1, <2>4, <3>1, StayShares DEF InLine, Within
  <2> QED BY <1>10, <2>2, <2>3, <2>4 DEF Probe
<1>11. CASE Ladder(t)
  <2>1. job[t].pc = "ladder" /\ job[t].m \in Model
    BY <1>11 DEF Ladder, Named
  <2>2. Evictable(job[t].m) = {} /\ [job[t] EXCEPT !.tried = TRUE].m = job[t].m
    BY <2>1, NothingElse DEF Fields
  <2>3. CASE BeginLoad(t, job[t])
    BY <2>1, <2>3, LoadShares DEF Within
  <2>4. CASE GiveUp(t)
    BY <2>1, <2>4, GiveUpShares DEF Within
  <2> QED BY <1>11, <2>2, <2>3, <2>4 DEF Ladder
<1>12. CASE BusyWaitEnds(t) \/ Confirm(t)
  BY <1>12 DEF BusyWaitEnds, Confirm, Single
<1>13. CASE Freed(t)
  <2>1. \E n : /\ InLine(n) => n.gate = job[t].gate
               /\ n.pc \notin {"confirm", "wait_busy"} /\ Become(t, n)
    BY <1>13 DEF Freed, Done, NoJob, Fields, InLine, Waiting, Within
  <2>2. sems' = sems /\ engines' = engines /\ (InLine(job[t]) \/ ~InLine(job'[t]))
    BY <1>13 DEF Freed, Done, NoJob, Fields, InLine, Waiting, Within, Become, Shaped
  <2> QED BY <2>1, <2>2, StayShares
<1>14. CASE LoadFailed(t)
  BY <1>14, GiveUpShares DEF LoadFailed, Within
<1>15. CASE Commit(t)
  <2>1. sems' = sems /\ job[t].pc = "loaded" /\ InLine(job[t])
    BY <1>15 DEF Commit, InLine, Within
  <2>2. \E n : ~InLine(n) /\ Become(t, n)
    <3>1. PICK e : Become(t, AfterSwitch(job[t], e))
      BY <1>15 DEF Commit
    <3> QED BY <2>1, <3>1, AfterSwitchNamed DEF Named
  <2>3. ~InLine(job'[t])
    BY <2>2 DEF Become, Shaped
  <2>4. DOMAIN engines' = DOMAIN engines
    BY <1>15 DEF Commit
  <2> QED BY <2>1, <2>3, <2>4 DEF Shares, Gated, InLine, Within
<1>16. CASE Prepared(t)
  <2> DEFINE j == [job[t] EXCEPT !.gate = GateOf(job[t].m), !.pc = "queued"]
  <2>1. j.pc = "queued" /\ j.gate = GateOf(j.m) /\ j.m \in Model
    BY <1>16 DEF Prepared, Named, Fields
  <2>2. CASE sems' = [sems EXCEPT ![j.m] = j.gate] /\ Become(t, j)
    <3>1. \E n : /\ InLine(n) => n.gate = j.gate
                 /\ n.pc \notin {"confirm", "wait_busy"} /\ Become(t, n)
      BY <2>1, <2>2
    <3>2. engines' = engines
      BY <1>16 DEF Prepared
    <3> HIDE DEF j
    <3> QED BY <2>1, <2>2, <3>1, <3>2, QueueShares
  <2>3. CASE Become(t, Done) /\ sems' = sems
    <3>1. job'[t].pc = "done"
      BY <2>3 DEF Become, Shaped, Done, NoJob
    <3> QED BY <1>16, <2>3, <3>1 DEF Prepared, Shares, Gated, InLine, Waiting, Within
  <2> QED BY <1>16, <2>2, <2>3 DEF Prepared
<1>17. CASE Produce(t)
  <2>1. \E n : /\ InLine(n) => n.gate = job[t].gate
               /\ n.pc \notin {"confirm", "wait_busy"} /\ Become(t, n)
    BY <1>17 DEF Produce, Done, NoJob, Fields, InLine, Waiting, Within
  <2>2. sems' = sems /\ engines' = engines /\ (InLine(job[t]) \/ ~InLine(job'[t]))
    BY <1>17 DEF Produce, Done, NoJob, Fields, InLine, Waiting, Within, Become, Shaped
  <2> QED BY <2>1, <2>2, StayShares
<1>18. CASE Replied(t)
  <2>1. \E n : /\ InLine(n) => n.gate = job[t].gate
               /\ n.pc \notin {"confirm", "wait_busy"} /\ Become(t, n)
    BY <1>18 DEF Replied, Done, NoJob, Fields, InLine, Waiting, Within
  <2>2. sems' = sems /\ engines' = engines /\ (InLine(job[t]) \/ ~InLine(job'[t]))
    BY <1>18 DEF Replied, Done, NoJob, Fields, InLine, Waiting, Within, Become, Shaped
  <2> QED BY <2>1, <2>2, StayShares
<1>19. CASE UnloadWaitEnds(t)
  <2>1. job[t].m \in Model
    BY <1>19 DEF UnloadWaitEnds, Named
  <2>2. CASE \E l, u : MarkAndQueue(t, job[t], l, u)
    BY <2>1, <2>2, SharesInQueue
  <2>3. CASE Become(t, Done) /\ UNCHANGED <<pool, line>>
    <3>1. job'[t].pc = "done"
      BY <2>3 DEF Become, Shaped, Done, NoJob
    <3> QED BY <2>3, <3>1 DEF Shares, Gated, InLine, Waiting, Within
  <2> QED BY <1>19, <2>2, <2>3 DEF UnloadWaitEnds
<1>20. CASE UnloadGranted(t)
  <2>1. \E n : /\ InLine(n) => n.gate = job[t].gate
               /\ n.pc \notin {"confirm", "wait_busy"} /\ Become(t, n)
    BY <1>20 DEF UnloadGranted, Done, NoJob, Fields, InLine, Waiting, Within
  <2>2. sems' = sems /\ engines' = engines /\ (InLine(job[t]) \/ ~InLine(job'[t]))
    BY <1>20 DEF UnloadGranted, Done, NoJob, Fields, InLine, Waiting, Within, Become, Shaped
  <2> QED BY <2>1, <2>2, StayShares
<1>21. CASE Unloaded(t)
  <2>1. \E n : /\ InLine(n) => n.gate = job[t].gate
               /\ n.pc \notin {"confirm", "wait_busy"} /\ Become(t, n)
    BY <1>21 DEF Unloaded, Done, NoJob, Fields, InLine, Waiting, Within
  <2>2. sems' = sems /\ engines' = engines /\ (InLine(job[t]) \/ ~InLine(job'[t]))
    BY <1>21 DEF Unloaded, Done, NoJob, Fields, InLine, Waiting, Within, Become, Shaped
  <2> QED BY <2>1, <2>2, StayShares
<1>22. CASE AllWaitEnds(t)
  <2> DEFINE k == [job[t] EXCEPT !.todo = {m \in Model : engines[m] # NONE}]
  <2>1. Fields \subseteq DOMAIN k /\ Named(k)
    BY <1>22 DEF AllWaitEnds, Named, Fields
  <2>2. \E l, u : Walk(t, k, l, u)
    BY <1>22 DEF AllWaitEnds
  <2> HIDE DEF k
  <2> QED BY <2>1, <2>2, SharesInWalk
<1>23. CASE ReadingTaken(t)
  <2>1. job[t].m \in Model
    BY <1>23 DEF ReadingTaken, Named
  <2>2. CASE \E k, l, u : Fields \subseteq DOMAIN k /\ Named(k) /\ Walk(t, k, l, u)
    BY <2>2, SharesInWalk
  <2>3. CASE \E l, u : MarkAndQueue(t, job[t], l, u)
    BY <2>1, <2>3, SharesInQueue
  <2>4. /\ Fields \subseteq DOMAIN [job[t] EXCEPT !.kept = job[t].kept \cup {job[t].m}]
        /\ Named([job[t] EXCEPT !.kept = job[t].kept \cup {job[t].m}])
    BY DEF Fields, Named
  <2> QED BY <1>23, <2>2, <2>3, <2>4 DEF ReadingTaken
<1>24. CASE UnloadedGoOn(t)
  <2>1. \E l, u : Walk(t, job[t], l, u)
    BY <1>24 DEF UnloadedGoOn
  <2> QED BY <2>1, SharesInWalk
<1>25. CASE AllReleased(t)
  <2>1. \E n : /\ InLine(n) => n.gate = job[t].gate
               /\ n.pc \notin {"confirm", "wait_busy"} /\ Become(t, n)
    BY <1>25 DEF AllReleased, Done, NoJob, Fields, InLine, Waiting, Within
  <2>2. sems' = sems /\ engines' = engines /\ (InLine(job[t]) \/ ~InLine(job'[t]))
    BY <1>25 DEF AllReleased, Done, NoJob, Fields, InLine, Waiting, Within, Become, Shaped
  <2> QED BY <2>1, <2>2, StayShares
<1>26. CASE IdleGranted(t)
  <2>1. \E n : /\ InLine(n) => n.gate = job[t].gate
               /\ n.pc \notin {"confirm", "wait_busy"} /\ Become(t, n)
    BY <1>26 DEF IdleGranted, Done, NoJob, Fields, InLine, Waiting, Within
  <2>2. sems' = sems /\ engines' = engines /\ (InLine(job[t]) \/ ~InLine(job'[t]))
    BY <1>26 DEF IdleGranted, Done, NoJob, Fields, InLine, Waiting, Within, Become, Shaped
  <2> QED BY <2>1, <2>2, StayShares
<1>27. CASE IdleFreed(t)
  <2>1. \E n : /\ InLine(n) => n.gate = job[t].gate
               /\ n.pc \notin {"confirm", "wait_busy"} /\ Become(t, n)
    BY <1>27 DEF IdleFreed, Done, NoJob, Fields, InLine, Waiting, Within
  <2>2. sems' = sems /\ engines' = engines /\ (InLine(job[t]) \/ ~InLine(job'[t]))
    BY <1>27 DEF IdleFreed, Done, NoJob, Fields, InLine, Waiting, Within, Become, Shaped
  <2> QED BY <2>1, <2>2, StayShares
<1>28. CASE FreeEnds(t)
  <2>1. \E n : /\ InLine(n) => n.gate = job[t].gate
               /\ n.pc \notin {"confirm", "wait_busy"} /\ Become(t, n)
    BY <1>28 DEF FreeEnds, Done, NoJob, Fields, InLine, Waiting, Within
  <2>2. sems' = sems /\ engines' = engines /\ (InLine(job[t]) \/ ~InLine(job'[t]))
    BY <1>28 DEF FreeEnds, Done, NoJob, Fields, InLine, Waiting, Within, Become, Shaped
  <2> QED BY <2>1, <2>2, StayShares
<1>29. CASE LoadEnds(t)
  <2>1. \E n : /\ InLine(n) => n.gate = job[t].gate
               /\ n.pc \notin {"confirm", "wait_busy"} /\ Become(t, n)
    BY <1>29 DEF LoadEnds, Done, NoJob, Fields, InLine, Waiting, Within
  <2>2. sems' = sems /\ engines' = engines /\ (InLine(job[t]) \/ ~InLine(job'[t]))
    BY <1>29 DEF LoadEnds, Done, NoJob, Fields, InLine, Waiting, Within, Become, Shaped
  <2> QED BY <2>1, <2>2, StayShares
<1>30. CASE LazyLoadEnds(t)
  <2>1. \E n : /\ InLine(n) => n.gate = job[t].gate
               /\ n.pc \notin {"confirm", "wait_busy"} /\ Become(t, n)
    BY <1>30 DEF LazyLoadEnds, Done, NoJob, Fields, InLine, Waiting, Within
  <2>2. sems' = sems /\ engines' = engines /\ (InLine(job[t]) \/ ~InLine(job'[t]))
    BY <1>30 DEF LazyLoadEnds, Done, NoJob, Fields, InLine, Waiting, Within, Become, Shaped
  <2> QED BY <2>1, <2>2, StayShares
<1>31. CASE UnloadEnds(t)
  <2>1. \E n : /\ InLine(n) => n.gate = job[t].gate
               /\ n.pc \notin {"confirm", "wait_busy"} /\ Become(t, n)
    BY <1>31 DEF UnloadEnds, Done, NoJob, Fields, InLine, Waiting, Within
  <2>2. sems' = sems /\ engines' = engines /\ (InLine(job[t]) \/ ~InLine(job'[t]))
    BY <1>31 DEF UnloadEnds, Done, NoJob, Fields, InLine, Waiting, Within, Become, Shaped
  <2> QED BY <2>1, <2>2, StayShares
<1>32. CASE IdleFreeEnds(t)
  <2>1. \E n : /\ InLine(n) => n.gate = job[t].gate
               /\ n.pc \notin {"confirm", "wait_busy"} /\ Become(t, n)
    BY <1>32 DEF IdleFreeEnds, Done, NoJob, Fields, InLine, Waiting, Within
  <2>2. sems' = sems /\ engines' = engines /\ (InLine(job[t]) \/ ~InLine(job'[t]))
    BY <1>32 DEF IdleFreeEnds, Done, NoJob, Fields, InLine, Waiting, Within, Become, Shaped
  <2> QED BY <2>1, <2>2, StayShares
<1>33. CASE Abandon(t)
  <2>1. \E n : /\ InLine(n) => n.gate = job[t].gate
               /\ n.pc \notin {"confirm", "wait_busy"} /\ Become(t, n)
    BY <1>33 DEF Abandon, Done, NoJob, Fields, InLine, Waiting, Within
  <2>2. sems' = sems /\ engines' = engines /\ (InLine(job[t]) \/ ~InLine(job'[t]))
    BY <1>33 DEF Abandon, Done, NoJob, Fields, InLine, Waiting, Within, Become, Shaped
  <2> QED BY <2>1, <2>2, StayShares
<1>34. CASE AbandonedEnds(t)
  <2>1. \E n : /\ InLine(n) => n.gate = job[t].gate
               /\ n.pc \notin {"confirm", "wait_busy"} /\ Become(t, n)
    BY <1>34 DEF AbandonedEnds, Done, NoJob, Fields, InLine, Waiting, Within
  <2>2. sems' = sems /\ engines' = engines /\ (InLine(job[t]) \/ ~InLine(job'[t]))
    BY <1>34 DEF AbandonedEnds, Done, NoJob, Fields, InLine, Waiting, Within, Become, Shaped
  <2> QED BY <2>1, <2>2, StayShares
<1> QED
  BY <1>1, <1>2, <1>3, <1>4, <1>5, <1>6, <1>7, <1>8, <1>9, <1>10, <1>11, <1>12, <1>13,
     <1>14, <1>15, <1>16, <1>17, <1>18, <1>19, <1>20, <1>21, <1>22, <1>23, <1>24, <1>25,
     <1>26, <1>27, <1>28, <1>29, <1>30, <1>31, <1>32, <1>33, <1>34
     DEF NewJob, JobStep, LoopStep, ThreadStep

LEMMA StepKeepsSingle ==
  ASSUME OneModel, LineInv, LineInv', Single, NEW t \in Task, Moved(t), Shares(t)
  PROVE  Single'
<1> USE PoolAssumption
<1>1. \A u \in Task \ {t} : job'[u] = job[u]
  BY DEF Moved, LineInv, Shaped
<1>2. \A u \in Task : InLine(job[u]) => job[u].gate \in Objects
  BY DEF LineInv, Lines, Place
<1>3. \A m \in Model : NONE \notin Objects /\ (sems[m] # NONE => sems'[m] = sems[m])
  BY DEF Shares, Gated, GateOf, Objects, LineInv
<1>4. ASSUME NEW m \in Model, engines'[m] # NONE PROVE sems'[m] # NONE
  <2>1. CASE engines[m] # NONE
    BY <1>3, <2>1 DEF Single
  <2>2. CASE InLine(job[t])
    BY <1>2, <1>3, <2>2 DEF Single
  <2> QED BY <1>4, <2>1, <2>2 DEF Shares
<1>5. ASSUME NEW m \in Model, NEW u \in Task, InLine(job'[u]) PROVE job'[u].gate = sems'[m]
  <2>1. CASE InLine(job[u]) /\ job'[u].gate = job[u].gate
    BY <1>2, <1>3, <2>1 DEF Single
  <2>2. CASE u = t
    BY <1>5, <2>1, <2>2 DEF Shares, OneModel
  <2> QED BY <1>1, <1>5, <2>1, <2>2
<1>6. \A u \in Task : job'[u].pc \notin {"confirm", "wait_busy"}
  BY <1>1 DEF Shares, Single
<1>7. DOMAIN engines' = Model
  BY DEF Shares, Single
<1> QED BY <1>4, <1>5, <1>6, <1>7 DEF Single

SingleInv == LineInv /\ Single

\* In a server with one model every job goes to the model's gate.
LEMMA SingleInvHolds == OneModel => (Spec => []SingleInv)
<1> SUFFICES ASSUME OneModel PROVE Spec => []SingleInv
  OBVIOUS
<1>1. Init => SingleInv
  <2> SUFFICES ASSUME Init PROVE SingleInv
    OBVIOUS
  <2>1. Single
    BY DEF Init, Single, NoJob, InLine, Waiting, Within
  <2> QED BY <2>1, LineInvInit DEF SingleInv
<1>2. SingleInv /\ [Next]_vars => SingleInv'
  <2> SUFFICES ASSUME SingleInv, [Next]_vars PROVE SingleInv'
    OBVIOUS
  <2>1. LineInv'
    BY LineInvKept DEF SingleInv
  <2>2. CASE Next
    <3>1. PICK t \in Task : NewJob(t) \/ JobStep(t)
      BY <2>2 DEF Next
    <3>2. Moved(t) /\ Shares(t)
      BY <3>1, TaskStep, TaskShares DEF SingleInv, LineInv
    <3> QED BY <2>1, <3>2, StepKeepsSingle DEF SingleInv
  <2>3. CASE UNCHANGED vars
    BY <2>1, <2>3 DEF vars, pool, SingleInv, Single, InLine
  <2> QED BY <2>2, <2>3
<1> QED BY <1>1, <1>2, PTL DEF Spec

\* Two tasks inside the gate of the one model are the same task.
LEMMA SingleInside ==
  ASSUME SingleInv, NEW t \in Task, NEW u \in Task,
         job[t].pc \in Within, job[u].pc \in Within, Model # {}
  PROVE  t = u
<1>1. job[t].gate = job[u].gate
  BY DEF SingleInv, Single, InLine
<1> QED BY <1>1, InsideAlone DEF SingleInv

\* OneLoadPerModel: in a server with one model the per-model semaphore
\* serializes its loads, however many tasks ask for it.
THEOREM LoadsAreSerial == OneModel => (Spec => []OneLoadPerModel)
<1> SUFFICES ASSUME OneModel PROVE Spec => []OneLoadPerModel
  OBVIOUS
<1>1. SingleInv => OneLoadPerModel
  <2> SUFFICES ASSUME SingleInv, NEW t \in Task, NEW u \in Task, At(t, "load"), At(u, "load")
               PROVE  t = u
    BY DEF OneLoadPerModel
  <2>1. Model # {}
    BY DEF SingleInv, LineInv, Named, At
  <2> QED BY <2>1, SingleInside DEF At, Within
<1> QED BY <1>1, SingleInvHolds, PTL

\* FreesSpareReplies: in a server with one model a native context is freed by one
\* task at a time, and by none while a request waits for a reply made with it.  A
\* thread whose client has left is in no line, and a free may meet it.
THEOREM RepliesAreSpared == OneModel => (Spec => []FreesSpareReplies)
<1> SUFFICES ASSUME OneModel PROVE Spec => []FreesSpareReplies
  OBVIOUS
<1>1. SingleInv => FreesSpareReplies
  <2> SUFFICES ASSUME SingleInv, NEW e \in Objects, NEW t \in Freeing(e)
               PROVE  /\ \A u \in InChatStream(e) : LeftAlone(u)
                      /\ Cardinality(Freeing(e)) = 1
    BY DEF FreesSpareReplies
  <2>1. t \in Task /\ job[t].pc \in {"free", "unload", "idle_free"}
    BY DEF Freeing, At
  <2>2. Model # {}
    BY <2>1 DEF SingleInv, LineInv, Named
  <2>3. \A u \in Freeing(e) : u = t
    BY <2>1, <2>2, SingleInside DEF Freeing, At, Within
  <2>4. ASSUME NEW u \in InChatStream(e), ~LeftAlone(u) PROVE FALSE
    <3>1. u \in Task /\ job[u].pc \in {"lazy_load", "generate"}
      BY <2>4 DEF InChatStream, LeftAlone
    <3> QED BY <2>1, <2>2, <3>1, SingleInside DEF Within
  <2>5. Freeing(e) = {t}
    BY <2>3
  <2> QED BY <2>4, <2>5, FS_Singleton
<1> QED BY <1>1, SingleInvHolds, PTL
-----------------------------------------------------------------------------
(* Jobs that are over hold nothing, for any models, tasks and jobs. *)

\* A task without a job is where jobs begin, or end.
Kinded(j) == /\ "kind" \in DOMAIN j
             /\ j.kind = NONE => j.pc \in {"none", "done"}

\* An event is set only while the load it may stop is in progress.
RestInv == /\ BookInv
           /\ \A t \in Task : Kinded(job[t])
           /\ cancelled \subseteq Task
           /\ \A t \in cancelled : job[t].pc \in Loading

\* A step sets the published event at most, and clears its own with its load.
Cancels(t) == /\ cancelled' \subseteq cancelled \cup ({publisher} \cap Task)
              /\ t \in cancelled' => job'[t].pc \in Loading

Rests(t) == Kinded(job'[t]) /\ Cancels(t)
-----------------------------------------------------------------------------
\* A task that takes on such a job, before or after the load of a switch.
LEMMA BecomeRests ==
  ASSUME Shaped, NEW t \in Task, cancelled' \subseteq cancelled,
         t \in cancelled' => job[t].pc \in Loading,
         \E n : Kinded(n) /\ Become(t, n) /\ (job[t].pc \in Loading => n.pc \in Loading)
  PROVE  Rests(t)
BY DEF Become, Shaped, Rests, Cancels

LEMMA DoneIsKinded == Kinded(Done) /\ Done.pc = "done"
BY DEF Kinded, Done, NoJob

\* A task that has its result, or gives up its load, has cleared its event.
LEMMA OverRests ==
  ASSUME Shaped, NEW t \in Task, cancelled' \subseteq cancelled, t \notin cancelled',
         \E n : Kinded(n) /\ Become(t, n)
  PROVE  Rests(t)
BY DEF Become, Shaped, Rests, Cancels

LEMMA ReuseRests ==
  ASSUME Shaped, NEW t \in Task, NEW j, Kinded(j), \E e : Become(t, AfterSwitch(j, e))
  PROVE  \E n : Kinded(n) /\ Become(t, n)
<1> USE PoolAssumption
<1>1. PICK e : Become(t, AfterSwitch(j, e))
  OBVIOUS
<1>2. Kinded(AfterSwitch(j, e))
  <2>1. Kinded(PinnedRequest(j, e))
    BY DEF PinnedRequest, NoJob, Kinded, JobKinds
  <2> QED BY <2>1, DoneIsKinded DEF AfterSwitch
<1> QED BY <1>1, <1>2

LEMMA EnterRests ==
  ASSUME Shaped, NEW t \in Task, NEW j, Fields \subseteq DOMAIN j, Kinded(j), j.kind # NONE,
         \E l, w : EnterSwitch(t, j, l, w)
  PROVE  \E n : Kinded(n) /\ Become(t, n)
<1>1. CASE Become(t, Done)
  BY <1>1, DoneIsKinded
<1>2. CASE \E l : Reuse(t, j, l)
  BY <1>2, ReuseRests DEF Reuse
<1>3. CASE Become(t, [j EXCEPT !.pc = "recheck", !.eng = engines[j.m]])
  BY <1>3 DEF Fields, Kinded
<1>4. CASE Become(t, [j EXCEPT !.pc = "budget"])
  BY <1>4 DEF Fields, Kinded
<1> QED BY <1>1, <1>2, <1>3, <1>4 DEF EnterSwitch

LEMMA WalkRests ==
  ASSUME Shaped, NEW t \in Task, NEW j, NEW l, NEW u, Fields \subseteq DOMAIN j, Kinded(j),
         j.kind # NONE, Walk(t, j, l, u)
  PROVE  \E n : Kinded(n) /\ Become(t, n)
<1>1. PICK S \in SUBSET j.todo : Walk(t, j, l, u)!(S)
  BY DEF Walk
<1> DEFINE k == [j EXCEPT !.todo = @ \ S,
                          !.kept = @ \cup {m \in S : engines[m] \in loaded}]
           Visit(m) == [k EXCEPT !.todo = @ \ {m}, !.m = m, !.eng = engines[m]]
<1>2. Fields \cup {"kind"} \subseteq DOMAIN k /\ k.kind = j.kind
  BY DEF Fields, Kinded
<1> HIDE DEF k
<1>3. \A m : Fields \cup {"kind"} \subseteq DOMAIN Visit(m) /\ Visit(m).kind = j.kind
  BY <1>2 DEF Fields
<1> HIDE DEF Visit
<1>4. \/ Become(t, [k EXCEPT !.pc = "all_rest", !.m = NONE, !.eng = NONE, !.gate = NONE])
      \/ Become(t, Done)
      \/ \E m : Become(t, [Visit(m) EXCEPT !.pc = "all_reading", !.tried = TRUE, !.gate = NONE])
      \/ \E m : MarkAndQueue(t, Visit(m), l, u)
  BY <1>1 DEF k, Visit
<1>5. CASE Become(t, [k EXCEPT !.pc = "all_rest", !.m = NONE, !.eng = NONE, !.gate = NONE])
  BY <1>2, <1>5 DEF Fields, Kinded
<1>6. CASE \E m : Become(t, [Visit(m) EXCEPT !.pc = "all_reading", !.tried = TRUE, !.gate = NONE])
  BY <1>3, <1>6 DEF Fields, Kinded
<1>7. CASE \E m : MarkAndQueue(t, Visit(m), l, u)
  <2>1. PICK m : MarkAndQueue(t, Visit(m), l, u)
    BY <1>7
  <2> DEFINE v == Visit(m)
  <2>2. Fields \cup {"kind"} \subseteq DOMAIN v /\ v.kind # NONE
    BY <1>3
  <2> HIDE DEF v
  <2>3. \E n : n.kind # NONE /\ "kind" \in DOMAIN n /\ Become(t, n)
    BY <2>1, <2>2 DEF MarkAndQueue, Fields, v
  <2> QED BY <2>3 DEF Kinded
<1> QED BY <1>4, <1>5, <1>6, <1>7, DoneIsKinded

LEMMA EvictRests ==
  ASSUME NEW t \in Task, NEW j, NEW v, NEW f, Fields \subseteq DOMAIN j, Kinded(j),
         j.kind # NONE, TryEvict(t, j, v, f)
  PROVE  \E n : Kinded(n) /\ Become(t, n)
<1>1. CASE Become(t, [j EXCEPT !.pc = "free", !.victim = v, !.freed = engines[v]])
  BY <1>1 DEF Fields, Kinded
<1>2. CASE Become(t, [j EXCEPT !.pc = "probe", !.victim = NONE, !.freed = NONE])
  BY <1>2 DEF Fields, Kinded
<1> QED BY <1>1, <1>2 DEF TryEvict

LEMMA LoadRests ==
  ASSUME Shaped, NEW t \in Task, NEW j, Fields \subseteq DOMAIN j, Kinded(j), j.kind # NONE,
         t \notin cancelled, BeginLoad(t, j)
  PROVE  Rests(t)
<1>1. cancelled' \subseteq cancelled /\ t \notin cancelled'
  BY DEF BeginLoad, abort
<1>2. CASE GiveUp(t)
  BY <1>1, <1>2, OverRests, DoneIsKinded DEF GiveUp
<1>3. CASE \E e : Become(t, [j EXCEPT !.pc = "load", !.eng = e, !.victim = NONE, !.freed = NONE])
  <2>1. \E n : Kinded(n) /\ Become(t, n)
    BY <1>3 DEF Fields, Kinded
  <2> QED BY <1>1, <2>1, OverRests
<1> QED BY <1>2, <1>3 DEF BeginLoad

\* Every step of a task.
LEMMA TaskRests ==
  ASSUME RestInv, NEW t \in Task, NewJob(t) \/ JobStep(t)
  PROVE  Rests(t)
<1> USE PoolAssumption DEF At, Explicit, pool, abort
<1> /\ Shaped /\ Kinded(job[t]) /\ Fields \subseteq DOMAIN job[t]
    /\ t \in cancelled => job[t].pc \in Loading
  BY DEF RestInv, BookInv, Shaped
<1>0. ASSUME cancelled' = cancelled, job[t].pc \notin Loading, \E n : Kinded(n) /\ Become(t, n)
      PROVE  Rests(t)
  BY <1>0, OverRests
<1>1. ASSUME NEW m \in Model, NEW b \in BOOLEAN, Request(t, m, b) PROVE Rests(t)
  <2> DEFINE j == [NoJob EXCEPT !.kind = "request", !.m = m, !.activate = b]
             n1 == PinnedRequest(j, engines[m])
             n2 == [j EXCEPT !.pc = "called"]
  <2>1. Kinded(n1) /\ Kinded(n2)
    BY DEF PinnedRequest, NoJob, Kinded, JobKinds
  <2>2. Become(t, n1) \/ Become(t, n2)
    BY <1>1 DEF Request
  <2>3. cancelled' = cancelled /\ job[t].pc \notin Loading
    BY <1>1 DEF Request, NoJob, Loading
  <2> HIDE DEF n1, n2
  <2> QED BY <1>0, <2>1, <2>2, <2>3
<1>2. ASSUME NEW m \in Model, NEW b \in BOOLEAN, Switch(t, m, b) PROVE Rests(t)
  <2>1. \E n : Kinded(n) /\ Become(t, n)
    BY <1>2 DEF Switch, NoJob, Kinded, JobKinds
  <2>2. cancelled' = cancelled /\ job[t].pc \notin Loading
    BY <1>2 DEF Switch, NoJob, Loading
  <2> QED BY <1>0, <2>1, <2>2
<1>3. ASSUME NEW m \in Model, NEW b \in BOOLEAN, Unload(t, m, b) PROVE Rests(t)
  <2> DEFINE j == [NoJob EXCEPT !.kind = "unload", !.m = m, !.force = b, !.eng = engines[m]]
  <2>1. Fields \cup {"kind"} \subseteq DOMAIN j /\ j.kind # NONE
    BY DEF NoJob, Fields, JobKinds
  <2> HIDE DEF j
  <2>2. CASE \E l, u : MarkAndQueue(t, j, l, u)
    <3>1. \E n : Kinded(n) /\ Become(t, n)
      BY <2>1, <2>2 DEF MarkAndQueue, Fields, Kinded
    <3>2. cancelled' = cancelled /\ job[t].pc \notin Loading
      BY <1>3 DEF Unload, NoJob, Loading
    <3> QED BY <1>0, <3>1, <3>2
  <2>3. CASE Become(t, [j EXCEPT !.pc = "unload_wait"])
    <3>1. \E n : Kinded(n) /\ Become(t, n)
      BY <2>1, <2>3 DEF Fields, Kinded
    <3>2. cancelled' = cancelled /\ job[t].pc \notin Loading
      BY <1>3 DEF Unload, NoJob, Loading
    <3> QED BY <1>0, <3>1, <3>2
  <2> QED BY <1>3, <2>2, <2>3 DEF Unload, j
<1>4. ASSUME NEW m \in Model, IdleUnload(t, m) PROVE Rests(t)
  <2>1. \E n : Kinded(n) /\ Become(t, n)
    BY <1>4 DEF IdleUnload, NoJob, Kinded, JobKinds
  <2>2. cancelled' = cancelled /\ job[t].pc \notin Loading
    BY <1>4 DEF IdleUnload, NoJob, Loading
  <2> QED BY <1>0, <2>1, <2>2
<1>5. ASSUME NEW b \in BOOLEAN, UnloadAll(t, b) PROVE Rests(t)
  <2> DEFINE j == [NoJob EXCEPT !.kind = "unload_all", !.force = b]
             k == [j EXCEPT !.todo = {m \in Model : engines[m] # NONE}]
             n0 == [j EXCEPT !.pc = "all_wait"]
  <2>1. /\ Fields \cup {"kind"} \subseteq DOMAIN k /\ k.kind # NONE
        /\ Kinded(n0) /\ Kinded(k)
    BY DEF NoJob, Fields, JobKinds, Kinded
  <2>2. Become(t, n0) \/ Walk(t, k, line, unloading)
    BY <1>5 DEF UnloadAll
  <2> HIDE DEF j, k, n0
  <2>3. \E n : Kinded(n) /\ Become(t, n)
    BY <2>1, <2>2, WalkRests
  <2>4. cancelled' = cancelled /\ job[t].pc \notin Loading
    BY <1>5 DEF UnloadAll, NoJob, Loading
  <2> QED BY <1>0, <2>3, <2>4
<1>6. CASE QueueSwitch(t)
  <2> DEFINE j == [job[t] EXCEPT !.gate = GateOf(job[t].m), !.pc = "gate"]
  <2>1. Fields \subseteq DOMAIN j /\ Kinded(j) /\ j.kind # NONE
    BY <1>6 DEF QueueSwitch, Kinded, Fields
  <2>2. Become(t, j) \/ \E l, w : EnterSwitch(t, j, l, w)
    BY <1>6 DEF QueueSwitch
  <2> HIDE DEF j
  <2>3. \E n : Kinded(n) /\ Become(t, n)
    BY <2>1, <2>2, EnterRests
  <2>4. cancelled' \subseteq cancelled \cup ({publisher} \cap Task)
    BY <1>6 DEF QueueSwitch, RestInv, BookInv
  <2>5. t \notin cancelled /\ publisher # t
    BY <1>6 DEF QueueSwitch, RestInv, BookInv, PublishedIsLoading, Loading
  <2> QED BY <2>3, <2>4, <2>5 DEF Rests, Cancels, Become, Shaped
<1>7. CASE GateGranted(t)
  <2>1. Kinded(job[t]) /\ job[t].kind # NONE /\ \E l, w : EnterSwitch(t, job[t], l, w)
    BY <1>7 DEF GateGranted, Kinded
  <2>2. cancelled' = cancelled /\ job[t].pc \notin Loading
    BY <1>7 DEF GateGranted, Loading
  <2> QED BY <1>0, <2>1, <2>2, EnterRests
<1>8. CASE Recheck(t)
  <2>1. \E n : Kinded(n) /\ Become(t, n)
    <3>1. CASE Reuse(t, job[t], line)
      BY <3>1, ReuseRests DEF Reuse
    <3>2. CASE Become(t, [job[t] EXCEPT !.pc = "budget", !.healing = TRUE,
                                        !.was = (active = job[t].m)])
      BY <1>8, <3>2 DEF Recheck, Kinded, Fields
    <3>3. CASE Become(t, [job[t] EXCEPT !.pc = "budget", !.eng = NONE])
      BY <1>8, <3>3 DEF Recheck, Kinded, Fields
    <3> QED BY <1>8, <3>1, <3>2, <3>3 DEF Recheck
  <2>2. cancelled' = cancelled /\ job[t].pc \notin Loading
    BY <1>8 DEF Recheck, Loading
  <2> QED BY <1>0, <2>1, <2>2
<1>9. CASE Budget(t)
  <2> DEFINE j == [job[t] EXCEPT !.prior = active]
  <2>1. Fields \cup {"kind"} \subseteq DOMAIN j /\ j.kind # NONE
    BY <1>9 DEF Budget, Kinded, Fields
  <2>2. \/ Become(t, Done)
        \/ Become(t, [j EXCEPT !.pc = "probe"])
        \/ \E v, e : Become(t, [j EXCEPT !.pc = "free", !.victim = v, !.freed = e])
    BY <1>9 DEF Budget
  <2> HIDE DEF j
  <2>3. \E n : Kinded(n) /\ Become(t, n)
    BY <2>1, <2>2, DoneIsKinded DEF Kinded, Fields
  <2>4. cancelled' = cancelled /\ job[t].pc \notin Loading
    BY <1>9 DEF Budget, Loading
  <2> QED BY <1>0, <2>3, <2>4
<1>10. CASE Probe(t)
  <2>1. job[t].kind # NONE /\ t \notin cancelled /\ job[t].pc \notin Loading
    BY <1>10 DEF Probe, Kinded, Loading
  <2>2. CASE BeginLoad(t, job[t])
    BY <2>1, <2>2, LoadRests
  <2>3. CASE /\ cancelled' = cancelled
             /\ \/ \E v, f : TryEvict(t, job[t], v, f)
                \/ \E v : Become(t, [job[t] EXCEPT !.pc = "confirm", !.victim = v])
                \/ Become(t, [job[t] EXCEPT !.pc = "ladder"])
    <3>1. \E n : Kinded(n) /\ Become(t, n)
      BY <2>1, <2>3, EvictRests DEF Kinded, Fields
    <3> QED BY <1>0, <2>1, <2>3, <3>1
  <2> QED BY <1>10, <2>2, <2>3 DEF Probe
<1>11. CASE Ladder(t)
  <2> DEFINE j == [job[t] EXCEPT !.tried = TRUE]
  <2>1. job[t].kind # NONE /\ t \notin cancelled /\ job[t].pc \notin Loading
    BY <1>11 DEF Ladder, Kinded, Loading
  <2>2. Fields \subseteq DOMAIN j /\ Kinded(j) /\ j.kind # NONE
    BY <2>1 DEF Kinded, Fields
  <2> HIDE DEF j
  <2>3. CASE BeginLoad(t, job[t])
    BY <2>1, <2>3, LoadRests
  <2>4. CASE /\ cancelled' = cancelled
             /\ \/ GiveUp(t)
                \/ \E v, f : TryEvict(t, j, v, f)
                \/ \E v, e : Become(t, [j EXCEPT !.pc = "wait_busy", !.victim = v, !.freed = e])
    <3>1. \E n : Kinded(n) /\ Become(t, n)
      BY <2>2, <2>4, EvictRests, DoneIsKinded DEF Kinded, Fields, GiveUp
    <3> QED BY <1>0, <2>1, <2>4, <3>1
  <2> QED BY <1>11, <2>3, <2>4 DEF Ladder, j
<1>12. CASE BusyWaitEnds(t)
  <2>1. job[t].kind # NONE /\ job[t].pc \notin Loading /\ cancelled' = cancelled
    BY <1>12 DEF BusyWaitEnds, Kinded, Loading
  <2>2. \/ GiveUp(t)
        \/ \E v, f : TryEvict(t, job[t], v, f)
        \/ Become(t, [job[t] EXCEPT !.pc = "confirm", !.freed = NONE])
        \/ Become(t, [job[t] EXCEPT !.pc = "probe", !.victim = NONE, !.freed = NONE])
        \/ Become(t, [job[t] EXCEPT !.pc = "ladder", !.victim = NONE, !.freed = NONE])
    BY <1>12 DEF BusyWaitEnds
  <2>3. \E n : Kinded(n) /\ Become(t, n)
    BY <2>1, <2>2, EvictRests, DoneIsKinded DEF Kinded, Fields, GiveUp
  <2> QED BY <1>0, <2>1, <2>3
<1>13. CASE Confirm(t)
  <2>1. job[t].kind # NONE /\ job[t].pc \notin Loading /\ cancelled' = cancelled
    BY <1>13 DEF Confirm, Kinded, Loading
  <2>2. GiveUp(t) \/ \E v, f : TryEvict(t, job[t], v, f)
    BY <1>13 DEF Confirm
  <2>3. \E n : Kinded(n) /\ Become(t, n)
    BY <2>1, <2>2, EvictRests, DoneIsKinded DEF GiveUp
  <2> QED BY <1>0, <2>1, <2>3
<1>14. CASE Freed(t)
  <2>1. cancelled' = cancelled /\ job[t].pc \notin Loading /\ job[t].kind # NONE
    BY <1>14 DEF Freed, Kinded, Loading
  <2>2. \E n : Kinded(n) /\ Become(t, n)
    BY <1>14, <2>1, DoneIsKinded DEF Freed, Kinded, Fields
  <2> QED BY <1>0, <2>1, <2>2
<1>15. CASE LoadFailed(t)
  <2>1. cancelled' \subseteq cancelled /\ t \notin cancelled'
    BY <1>15 DEF LoadFailed, Unpublish
  <2> QED BY <1>15, <2>1, OverRests, DoneIsKinded DEF LoadFailed, GiveUp
<1>16. CASE Commit(t)
  <2>1. cancelled' \subseteq cancelled /\ t \notin cancelled'
    BY <1>16 DEF Commit, Unpublish
  <2>2. \E n : Kinded(n) /\ Become(t, n)
    BY <1>16, ReuseRests DEF Commit
  <2> QED BY <2>1, <2>2, OverRests
<1>17. CASE Prepared(t)
  <2>1. cancelled' = cancelled /\ job[t].pc \notin Loading /\ job[t].kind # NONE
    BY <1>17 DEF Prepared, Kinded, Loading
  <2>2. \E n : Kinded(n) /\ Become(t, n)
    BY <1>17, <2>1, DoneIsKinded DEF Prepared, Kinded, Fields
  <2> QED BY <1>0, <2>1, <2>2
<1>18. CASE Produce(t)
  <2>1. cancelled' = cancelled /\ job[t].pc \notin Loading /\ job[t].kind # NONE
    BY <1>18 DEF Produce, Kinded, Loading
  <2>2. \E n : Kinded(n) /\ Become(t, n)
    BY <1>18, <2>1, DoneIsKinded DEF Produce, Kinded, Fields
  <2> QED BY <1>0, <2>1, <2>2
<1>19. CASE Replied(t)
  <2>1. cancelled' = cancelled /\ job[t].pc \notin Loading /\ job[t].kind # NONE
    BY <1>19 DEF Replied, Kinded, Loading
  <2>2. \E n : Kinded(n) /\ Become(t, n)
    BY <1>19, <2>1, DoneIsKinded DEF Replied, Kinded, Fields
  <2> QED BY <1>0, <2>1, <2>2
<1>20. CASE UnloadWaitEnds(t)
  <2>1. cancelled' = cancelled /\ job[t].pc \notin Loading /\ job[t].kind # NONE
    BY <1>20 DEF UnloadWaitEnds, Kinded, Loading
  <2>2. Become(t, Done) \/ \E l, u : MarkAndQueue(t, job[t], l, u)
    BY <1>20 DEF UnloadWaitEnds
  <2>3. \E n : Kinded(n) /\ Become(t, n)
    BY <2>1, <2>2, DoneIsKinded DEF MarkAndQueue, Kinded, Fields
  <2> QED BY <1>0, <2>1, <2>3
<1>21. CASE UnloadGranted(t)
  <2>1. cancelled' = cancelled /\ job[t].pc \notin Loading /\ job[t].kind # NONE
    BY <1>21 DEF UnloadGranted, Kinded, Loading
  <2>2. \E n : Kinded(n) /\ Become(t, n)
    BY <1>21, <2>1, DoneIsKinded DEF UnloadGranted, Kinded, Fields
  <2> QED BY <1>0, <2>1, <2>2
<1>22. CASE Unloaded(t)
  <2>1. cancelled' = cancelled /\ job[t].pc \notin Loading /\ job[t].kind # NONE
    BY <1>22 DEF Unloaded, Kinded, Loading
  <2>2. \E n : Kinded(n) /\ Become(t, n)
    BY <1>22, <2>1, DoneIsKinded DEF Unloaded, Kinded, Fields
  <2> QED BY <1>0, <2>1, <2>2
<1>23. CASE AllWaitEnds(t)
  <2> DEFINE k == [job[t] EXCEPT !.todo = {m \in Model : engines[m] # NONE}]
  <2>1. cancelled' = cancelled /\ job[t].pc \notin Loading /\ job[t].kind # NONE
    BY <1>23 DEF AllWaitEnds, Kinded, Loading
  <2>2. Fields \subseteq DOMAIN k /\ Kinded(k) /\ k.kind # NONE
    BY <2>1 DEF Kinded, Fields
  <2>3. \E l, u : Walk(t, k, l, u)
    BY <1>23 DEF AllWaitEnds
  <2> HIDE DEF k
  <2> QED BY <1>0, <2>1, <2>2, <2>3, WalkRests
<1>24. CASE ReadingTaken(t)
  <2> DEFINE k == [job[t] EXCEPT !.kept = job[t].kept \cup {job[t].m}]
  <2>1. cancelled' = cancelled /\ job[t].pc \notin Loading /\ job[t].kind # NONE
    BY <1>24 DEF ReadingTaken, Kinded, Loading
  <2>2. Fields \subseteq DOMAIN k /\ Kinded(k) /\ k.kind # NONE
    BY <2>1 DEF Kinded, Fields
  <2> HIDE DEF k
  <2>3. CASE \E l, u : Walk(t, k, l, u) \/ Walk(t, job[t], l, u)
    BY <1>0, <2>1, <2>2, <2>3, WalkRests
  <2>4. CASE \E l, u : MarkAndQueue(t, job[t], l, u)
    <3>1. \E n : Kinded(n) /\ Become(t, n)
      BY <2>1, <2>4 DEF MarkAndQueue, Kinded, Fields
    <3> QED BY <1>0, <2>1, <3>1
  <2> QED BY <1>24, <2>3, <2>4 DEF ReadingTaken, k
<1>25. CASE UnloadedGoOn(t)
  <2>1. cancelled' = cancelled /\ job[t].pc \notin Loading /\ job[t].kind # NONE
    BY <1>25 DEF UnloadedGoOn, Kinded, Loading
  <2>2. \E l, u : Walk(t, job[t], l, u)
    BY <1>25 DEF UnloadedGoOn
  <2> QED BY <1>0, <2>1, <2>2, WalkRests
<1>26. CASE AllReleased(t)
  <2>1. cancelled' = cancelled /\ job[t].pc \notin Loading /\ job[t].kind # NONE
    BY <1>26 DEF AllReleased, Kinded, Loading
  <2>2. \E n : Kinded(n) /\ Become(t, n)
    BY <1>26, <2>1, DoneIsKinded DEF AllReleased, Kinded, Fields
  <2> QED BY <1>0, <2>1, <2>2
<1>27. CASE IdleGranted(t)
  <2>1. cancelled' = cancelled /\ job[t].pc \notin Loading /\ job[t].kind # NONE
    BY <1>27 DEF IdleGranted, Kinded, Loading
  <2>2. \E n : Kinded(n) /\ Become(t, n)
    BY <1>27, <2>1, DoneIsKinded DEF IdleGranted, Kinded, Fields
  <2> QED BY <1>0, <2>1, <2>2
<1>28. CASE IdleFreed(t)
  <2>1. cancelled' = cancelled /\ job[t].pc \notin Loading /\ job[t].kind # NONE
    BY <1>28 DEF IdleFreed, Kinded, Loading
  <2>2. \E n : Kinded(n) /\ Become(t, n)
    BY <1>28, <2>1, DoneIsKinded DEF IdleFreed, Kinded, Fields
  <2> QED BY <1>0, <2>1, <2>2
<1>29. CASE FreeEnds(t)
  <2>1. cancelled' = cancelled /\ job[t].pc \notin Loading /\ job[t].kind # NONE
    BY <1>29 DEF FreeEnds, Kinded, Loading
  <2>2. \E n : Kinded(n) /\ Become(t, n)
    BY <1>29, <2>1, DoneIsKinded DEF FreeEnds, Kinded, Fields
  <2> QED BY <1>0, <2>1, <2>2
<1>30. CASE LoadEnds(t)
  <2>1. cancelled' = cancelled /\ job[t].pc = "load" /\ job[t].kind # NONE
    BY <1>30 DEF LoadEnds, Kinded
  <2>2. \E n : Kinded(n) /\ Become(t, n) /\ n.pc \in Loading
    BY <1>30, <2>1 DEF LoadEnds, Kinded, Fields, Loading
  <2> QED BY <2>1, <2>2, BecomeRests
<1>31. CASE LazyLoadEnds(t)
  <2>1. cancelled' = cancelled /\ job[t].pc \notin Loading /\ job[t].kind # NONE
    BY <1>31 DEF LazyLoadEnds, Kinded, Loading
  <2>2. \E n : Kinded(n) /\ Become(t, n)
    BY <1>31, <2>1, DoneIsKinded DEF LazyLoadEnds, Kinded, Fields
  <2> QED BY <1>0, <2>1, <2>2
<1>32. CASE UnloadEnds(t)
  <2>1. cancelled' = cancelled /\ job[t].pc \notin Loading /\ job[t].kind # NONE
    BY <1>32 DEF UnloadEnds, Kinded, Loading
  <2>2. \E n : Kinded(n) /\ Become(t, n)
    BY <1>32, <2>1, DoneIsKinded DEF UnloadEnds, Kinded, Fields
  <2> QED BY <1>0, <2>1, <2>2
<1>33. CASE IdleFreeEnds(t)
  <2>1. cancelled' = cancelled /\ job[t].pc \notin Loading /\ job[t].kind # NONE
    BY <1>33 DEF IdleFreeEnds, Kinded, Loading
  <2>2. \E n : Kinded(n) /\ Become(t, n)
    BY <1>33, <2>1, DoneIsKinded DEF IdleFreeEnds, Kinded, Fields
  <2> QED BY <1>0, <2>1, <2>2
<1>34. CASE Abandon(t)
  <2>1. cancelled' = cancelled /\ job[t].pc \notin Loading /\ job[t].kind # NONE
    BY <1>34 DEF Abandon, Kinded, Loading
  <2>2. \E n : Kinded(n) /\ Become(t, n)
    BY <1>34, <2>1, DoneIsKinded DEF Abandon, Kinded, Fields
  <2> QED BY <1>0, <2>1, <2>2
<1>35. CASE AbandonedEnds(t)
  <2>1. cancelled' = cancelled /\ job[t].pc \notin Loading /\ job[t].kind # NONE
    BY <1>35 DEF AbandonedEnds, Kinded, Loading
  <2>2. \E n : Kinded(n) /\ Become(t, n)
    BY <1>35, <2>1, DoneIsKinded DEF AbandonedEnds, Kinded, Fields
  <2> QED BY <1>0, <2>1, <2>2
<1> QED
  BY <1>1, <1>2, <1>3, <1>4, <1>5, <1>6, <1>7, <1>8, <1>9, <1>10, <1>11, <1>12, <1>13,
     <1>14, <1>15, <1>16, <1>17, <1>18, <1>19, <1>20, <1>21, <1>22, <1>23, <1>24, <1>25,
     <1>26, <1>27, <1>28, <1>29, <1>30, <1>31, <1>32, <1>33, <1>34, <1>35
     DEF NewJob, JobStep, LoopStep, ThreadStep

LEMMA RestInvHolds == Spec => []RestInv
<1>1. Init => RestInv
  BY PoolAssumption DEF Init, RestInv, BookInv, Shaped, Fields, NoJob, PublishedIsLoading,
     EvictingNamesAreFreed, Kinded
<1>2. RestInv /\ [Next]_vars => RestInv'
  <2> SUFFICES ASSUME RestInv, [Next]_vars PROVE RestInv'
    OBVIOUS
  <2>1. CASE Next
    <3>1. PICK t \in Task : NewJob(t) \/ JobStep(t)
      BY <2>1 DEF Next
    <3>2. /\ Moved(t) /\ Publishes(t) /\ Evicts(t) /\ Rests(t)
      BY <3>1, TaskStep, TaskRests DEF RestInv, BookInv
    <3>3. BookInv'
      BY <3>2, StepKeepsBook DEF RestInv
    <3>4. \A u \in Task \ {t} : job'[u] = job[u]
      BY <3>2 DEF Moved, RestInv, BookInv, Shaped
    <3>5. \A u \in Task : Kinded(job'[u])
      BY <3>2, <3>4 DEF Rests, RestInv
    <3>6. cancelled' \subseteq Task
      BY <3>2 DEF Rests, Cancels, RestInv
    <3>7. \A u \in cancelled' : job'[u].pc \in Loading
      <4> TAKE u \in cancelled'
      <4>1. CASE u = t
        BY <3>2, <4>1 DEF Rests, Cancels
      <4>2. CASE u # t /\ u \in cancelled
        BY <3>4, <4>2 DEF RestInv
      <4>3. CASE u # t /\ u = publisher /\ u \in Task
        BY PoolAssumption, <3>4, <4>3 DEF RestInv, BookInv, PublishedIsLoading, Loading
      <4> QED BY <3>2, <4>1, <4>2, <4>3 DEF Rests, Cancels
    <3> QED BY <3>3, <3>5, <3>6, <3>7 DEF RestInv, Kinded
  <2>2. CASE UNCHANGED vars
    BY <2>2 DEF vars, pool, abort, RestInv, BookInv, Shaped, PublishedIsLoading,
       EvictingNamesAreFreed, Kinded
  <2> QED BY <2>1, <2>2
<1> QED BY <1>1, <1>2, PTL DEF Spec

\* NothingIsHeld: jobs that are over, however many and however they overlapped,
\* hold no gate and leave no name being evicted, no cancel event published or set.
THEOREM NothingIsHeldOver == Spec => []((\A t \in Task : job[t].kind = NONE) => NothingIsHeld)
<1>1. RestInv /\ LineInv => ((\A t \in Task : job[t].kind = NONE) => NothingIsHeld)
  <2> SUFFICES ASSUME RestInv, LineInv, \A t \in Task : job[t].kind = NONE
               PROVE  NothingIsHeld
    OBVIOUS
  <2>1. \A t \in Task : job[t].pc \in {"none", "done"}
    BY DEF RestInv, Kinded
  <2>2. \A g \in Objects : line[g] = << >>
    <3> SUFFICES ASSUME NEW g \in Objects, line[g] # << >> PROVE FALSE
      OBVIOUS
    <3>1. line[g] \in Seq(Task)
      BY DEF LineInv, Lines
    <3>2. 1 \in 1 .. Len(line[g]) /\ line[g][1] \in Task
      BY <3>1
    <3>3. InLine(job[line[g][1]])
      BY <3>2 DEF LineInv, Lines
    <3> QED BY <2>1, <3>2, <3>3 DEF InLine, Waiting, Within
  <2>3. evicting = {}
    BY <2>1 DEF RestInv, BookInv, EvictingNamesAreFreed
  <2>4. publisher = NONE /\ cancelled = {}
    BY <2>1 DEF RestInv, BookInv, PublishedIsLoading, Loading
  <2> QED BY <2>2, <2>3, <2>4 DEF NothingIsHeld
<1>2. Spec => []LineInv
  BY LineInvInit, LineInvKept, PTL DEF Spec
<1> QED BY <1>1, <1>2, RestInvHolds, PTL
-----------------------------------------------------------------------------
(* The LRU list. *)

\* Removing entry i of a list keeps the others, in their order.
LEMMA WithoutEntry ==
  ASSUME NEW q \in Seq(Model), NEW i \in 1 .. Len(q)
  PROVE  /\ RemoveAt(q, i) \in Seq(Model)
         /\ Len(RemoveAt(q, i)) = Len(q) - 1
         /\ \A k \in 1 .. (Len(q) - 1) :
              RemoveAt(q, i)[k] = IF k < i THEN q[k] ELSE q[k + 1]
<1> DEFINE a == SubSeq(q, 1, i - 1)
           b == SubSeq(q, i + 1, Len(q))
<1>1. Len(q) \in Nat /\ \A k \in 1 .. Len(q) : q[k] \in Model
  BY ElementOfSeq, LenProperties
<1>2. a \in Seq(Model) /\ Len(a) = i - 1 /\ \A k \in 1 .. (i - 1) : a[k] = q[k]
  BY <1>1, SubSeqProperties
<1>3. /\ b \in Seq(Model) /\ Len(b) = Len(q) - i
      /\ \A k \in 1 .. (Len(q) - i) : b[k] = q[i + k]
  BY <1>1, SubSeqProperties
<1> HIDE DEF a, b
<1>4. Len(a) + Len(b) = Len(q) - 1
  BY <1>1, <1>2, <1>3
<1>5. /\ a \o b \in Seq(Model)
      /\ Len(a \o b) = Len(q) - 1
      /\ \A k \in 1 .. (Len(q) - 1) : (a \o b)[k] = IF k <= Len(a) THEN a[k] ELSE b[k - Len(a)]
  BY <1>2, <1>3, <1>4, ConcatProperties
<1>6. ASSUME NEW k \in 1 .. (Len(q) - 1)
      PROVE  (a \o b)[k] = IF k < i THEN q[k] ELSE q[k + 1]
  <2>1. CASE k < i
    BY <2>1, <1>1, <1>2, <1>5
  <2>2. CASE ~(k < i)
    <3>1. k - (i - 1) \in 1 .. (Len(q) - i) /\ i + (k - (i - 1)) = k + 1
      BY <2>2, <1>1
    <3> QED BY <2>2, <3>1, <1>1, <1>2, <1>3, <1>5
  <2> QED BY <2>1, <2>2
<1> QED BY <1>5, <1>6 DEF RemoveAt, a, b

\* Some numbers have a least one.
LEMMA LeastOf ==
  ASSUME NEW I, I \subseteq Nat \ {0}, I # {}
  PROVE  \E i \in I : \A k \in I : i <= k
<1> DEFINE T == {1 .. i : i \in I}
<1>1. ASSUME NEW i \in I PROVE (1 .. i) \subseteq Nat /\ IsFiniteSet(1 .. i)
  <2>1. 1 \in Int /\ i \in Int
    OBVIOUS
  <2> QED BY <2>1, FS_Interval
<1>2. T \subseteq FiniteSubsetsOf(Nat) /\ T # {}
  BY <1>1 DEF FiniteSubsetsOf
<1>3. IsWellFoundedOn(StrictSubsetOrdering(Nat), FiniteSubsetsOf(Nat))
  BY FS_StrictSubsetOrderingWellFounded
<1> HIDE DEF T
<1>4. PICK x \in T : \A y \in T : <<y, x>> \notin StrictSubsetOrdering(Nat)
  BY <1>2, <1>3, WFMin
<1>5. PICK i \in I : x = 1 .. i
  BY <1>4 DEF T
<1>6. ASSUME NEW k \in I, k < i PROVE FALSE
  <2>1. (1 .. k) \subseteq 1 .. i /\ i \in 1 .. i /\ i \notin 1 .. k
    BY <1>6
  <2>2. 1 .. k \in T
    BY DEF T
  <2>3. 1 .. k \in SUBSET Nat /\ 1 .. i \in SUBSET Nat /\ 1 .. k # 1 .. i
    BY <1>1, <2>1
  <2>4. <<1 .. k, 1 .. i>> \in StrictSubsetOrdering(Nat)
    BY <2>1, <2>3 DEF StrictSubsetOrdering
  <2> QED BY <1>4, <1>5, <2>2, <2>4
<1> QED BY <1>6

\* The first of some entries of a list.
LEMMA FirstEntry ==
  ASSUME NEW q \in Seq(Model), NEW S, \E i \in 1 .. Len(q) : q[i] \in S
  PROVE  \E i \in 1 .. Len(q) : q[i] \in S /\ \A k \in 1 .. (i - 1) : q[k] \notin S
<1> DEFINE I == {i \in 1 .. Len(q) : q[i] \in S}
<1>1. Len(q) \in Nat
  BY LenProperties
<1>2. I \subseteq Nat \ {0} /\ I # {}
  BY <1>1
<1>3. PICK i \in I : \A k \in I : i <= k
  BY <1>2, LeastOf
<1>4. ASSUME NEW k \in 1 .. (i - 1) PROVE q[k] \notin S
  <2>1. k \in 1 .. Len(q) /\ ~ (i <= k)
    BY <1>1
  <2> QED BY <1>3, <2>1
<1> QED BY <1>3, <1>4

\* Dropping a model's first entry: the others stay, in their order.
LEMMA WithoutModel ==
  ASSUME NEW q \in Seq(Model), NEW m
  PROVE  /\ RemoveFirst(q, m) \in Seq(Model)
         /\ ToSet(RemoveFirst(q, m)) \subseteq ToSet(q)
         /\ IsInjective(q) => /\ IsInjective(RemoveFirst(q, m))
                              /\ ToSet(RemoveFirst(q, m)) = ToSet(q) \ {m}
<1>1. Len(q) \in Nat /\ DOMAIN q = 1 .. Len(q)
  BY LenProperties
<1>2. CASE \A i \in 1 .. Len(q) : q[i] # m
  <2>1. RemoveFirst(q, m) = q
    BY <1>2 DEF RemoveFirst
  <2> QED BY <1>1, <1>2, <2>1 DEF ToSet
<1>3. CASE \E i \in 1 .. Len(q) : q[i] = m
  <2> DEFINE I == {i \in 1 .. Len(q) : q[i] = m}
             i == Min(I)
             r == RemoveFirst(q, m)
  <2>1. I \subseteq Nat \ {0} /\ I # {}
    BY <1>1, <1>3
  <2>2. i \in I
    <3>1. \E x \in I : \A y \in I : x <= y
      BY <2>1, LeastOf
    <3> HIDE DEF I
    <3> QED BY <3>1 DEF Min
  <2>3. r = RemoveAt(q, i)
    BY <1>3, <2>1 DEF RemoveFirst, SelectInSeq
  <2> HIDE DEF i, r
  <2>4. /\ r \in Seq(Model) /\ Len(r) = Len(q) - 1
        /\ \A k \in 1 .. (Len(q) - 1) : r[k] = IF k < i THEN q[k] ELSE q[k + 1]
    BY <2>2, <2>3, WithoutEntry
  <2>5. DOMAIN r = 1 .. (Len(q) - 1)
    BY <2>4, LenProperties
  <2>6. ASSUME NEW k \in 1 .. (Len(q) - 1)
        PROVE  \E n \in 1 .. Len(q) : n # i /\ r[k] = q[n] /\ n = IF k < i THEN k ELSE k + 1
    BY <1>1, <2>2, <2>4
  <2>7. ToSet(r) \subseteq ToSet(q)
    BY <1>1, <2>5, <2>6 DEF ToSet
  <2>8. ASSUME IsInjective(q) PROVE IsInjective(r)
    <3> SUFFICES ASSUME NEW k \in 1 .. (Len(q) - 1), NEW n \in 1 .. (Len(q) - 1), r[k] = r[n]
                 PROVE  k = n
      BY <2>5 DEF IsInjective
    <3>1. PICK x \in 1 .. Len(q) : r[k] = q[x] /\ x = IF k < i THEN k ELSE k + 1
      BY <2>6
    <3>2. PICK y \in 1 .. Len(q) : r[n] = q[y] /\ y = IF n < i THEN n ELSE n + 1
      BY <2>6
    <3>3. x = y
      BY <2>8, <1>1, <3>1, <3>2 DEF IsInjective
    <3> QED BY <1>1, <2>2, <3>1, <3>2, <3>3
  <2>9. ASSUME IsInjective(q) PROVE m \notin ToSet(r)
    <3>1. ASSUME NEW k \in 1 .. (Len(q) - 1) PROVE r[k] # m
      <4>1. PICK n \in 1 .. Len(q) : n # i /\ r[k] = q[n]
        BY <2>6
      <4> QED BY <1>1, <2>2, <2>9, <4>1 DEF IsInjective
    <3> QED BY <2>5, <3>1 DEF ToSet
  <2>10. ASSUME NEW x \in ToSet(q), x # m PROVE x \in ToSet(r)
    <3>1. PICK n \in 1 .. Len(q) : q[n] = x
      BY <1>1 DEF ToSet
    <3>2. n # i
      BY <2>2, <2>10, <3>1
    <3>3. \E k \in 1 .. (Len(q) - 1) : n = IF k < i THEN k ELSE k + 1
      <4>1. CASE n < i
        <5>1. n \in 1 .. (Len(q) - 1)
          BY <4>1, <1>1, <2>2
        <5> QED BY <4>1, <5>1
      <4>2. CASE n > i
        <5>1. n - 1 \in 1 .. (Len(q) - 1) /\ ~ (n - 1 < i) /\ n = (n - 1) + 1
          BY <4>2, <1>1, <2>2
        <5> QED BY <5>1
      <4> QED BY <3>2, <4>1, <4>2, <1>1, <2>2
    <3>4. \E k \in 1 .. (Len(q) - 1) : r[k] = x
      BY <2>4, <3>1, <3>3
    <3> QED BY <2>5, <3>4 DEF ToSet
  <2> QED BY <2>4, <2>7, <2>8, <2>9, <2>10 DEF r
<1> QED BY <1>2, <1>3

\* A model is listed as the most recently used one.
LEMMA WithModel ==
  ASSUME NEW q \in Seq(Model), NEW m \in Model
  PROVE  /\ Append(q, m) \in Seq(Model)
         /\ ToSet(Append(q, m)) = ToSet(q) \cup {m}
         /\ IsInjective(q) /\ m \notin ToSet(q) => IsInjective(Append(q, m))
<1>1. /\ Append(q, m) \in Seq(Model)
      /\ Len(q) \in Nat /\ DOMAIN q = 1 .. Len(q)
      /\ Len(Append(q, m)) = Len(q) + 1
      /\ \A i \in 1 .. Len(q) : Append(q, m)[i] = q[i]
      /\ Append(q, m)[Len(q) + 1] = m
  BY AppendProperties, LenProperties
<1>2. DOMAIN Append(q, m) = 1 .. (Len(q) + 1)
  BY <1>1, LenProperties
<1> DEFINE a == Append(q, m)
<1> HIDE DEF a
<1>3. ToSet(a) = ToSet(q) \cup {m}
  <2>1. ASSUME NEW i \in 1 .. (Len(q) + 1) PROVE a[i] \in ToSet(q) \cup {m}
    <3>1. i \in 1 .. Len(q) \/ i = Len(q) + 1
      BY <1>1
    <3> QED BY <3>1, <1>1 DEF ToSet, a
  <2>2. ASSUME NEW x \in ToSet(q) PROVE \E i \in 1 .. (Len(q) + 1) : a[i] = x
    <3>1. PICK i \in 1 .. Len(q) : q[i] = x
      BY <1>1 DEF ToSet
    <3>2. i \in 1 .. (Len(q) + 1)
      BY <1>1
    <3> QED BY <3>1, <3>2, <1>1 DEF a
  <2>3. Len(q) + 1 \in 1 .. (Len(q) + 1)
    BY <1>1
  <2>4. ToSet(a) = {a[i] : i \in 1 .. (Len(q) + 1)}
    BY <1>2 DEF ToSet, a
  <2> QED BY <2>1, <2>2, <2>3, <2>4, <1>1 DEF a
<1>4. IsInjective(q) /\ m \notin ToSet(q) => IsInjective(a)
  <2> SUFFICES ASSUME IsInjective(q), m \notin ToSet(q),
                      NEW i \in 1 .. (Len(q) + 1), NEW k \in 1 .. (Len(q) + 1), a[i] = a[k]
               PROVE  i = k
    BY <1>2 DEF IsInjective, a
  <2>1. /\ i \in 1 .. Len(q) \/ i = Len(q) + 1
        /\ k \in 1 .. Len(q) \/ k = Len(q) + 1
    BY <1>1
  <2>2. \A x \in 1 .. Len(q) : q[x] # m
    BY <1>1 DEF ToSet
  <2> QED BY <2>1, <2>2, <1>1 DEF IsInjective, a
<1> QED BY <1>1, <1>3, <1>4 DEF a

\* What a list lists.
LEMMA Listed ==
  ASSUME NEW q \in Seq(Model)
  PROVE  /\ ToSet(q) \subseteq Model
         /\ q = << >> <=> ToSet(q) = {}
         /\ q # << >> => q[Len(q)] \in ToSet(q)
<1>1. Len(q) \in Nat /\ DOMAIN q = 1 .. Len(q) /\ \A i \in 1 .. Len(q) : q[i] \in Model
  BY LenProperties, ElementOfSeq
<1>2. q # << >> => Len(q) \in 1 .. Len(q)
  BY <1>1, EmptySeq
<1>3. q = << >> => Len(q) = 0
  BY EmptySeq
<1> QED BY <1>1, <1>2, <1>3 DEF ToSet

\* The least recently used model of some listed ones is one of them.
LEMMA OldestIsOne ==
  ASSUME lru \in Seq(Model), NEW S, S # {}, S \subseteq ToSet(lru)
  PROVE  Oldest(S) \in S
<1>1. DOMAIN lru = 1 .. Len(lru)
  BY LenProperties
<1>2. \E i \in 1 .. Len(lru) : lru[i] \in S
  BY <1>1 DEF ToSet
<1>3. \E i \in 1 .. Len(lru) : lru[i] \in S /\ \A k \in 1 .. (i - 1) : lru[k] \notin S
  BY <1>2, FirstEntry
<1> QED BY <1>1, <1>3 DEF Oldest
-----------------------------------------------------------------------------
(* The types, for any models and jobs. *)

\* A job that has an engine.
Holding == {"recheck", "load", "loaded", "not_loaded", "prepare", "queued", "lazy_load", "generate",
            "abandoned_load", "abandoned",
            "unload_wait", "unload_gate", "unload", "unloaded", "all_reading",
            "idle_gate", "idle_free", "idle_freed"}

\* Where a switch makes room for its model and loads it.
Making == {"probe", "ladder", "wait_busy", "confirm", "free", "freed",
           "load", "loaded", "not_loaded"}

Sound(j) ==
  /\ j \in Job
  /\ j.pc \in Holding => j.eng \in Objects
  /\ j.healing => j.eng \in Objects /\ j.pc \in Making \cup {"budget"}
  /\ j.pc \in {"wait_busy", "confirm"} => j.victim \in Model

PoolTyped == /\ engines \in [Model -> Objects \cup {NONE}]
             /\ lru \in Seq(Model)
             /\ active \in Model \cup {NONE} /\ last \in Model \cup {NONE}
             /\ unloading \subseteq Objects /\ evicting \subseteq Model
AbortTyped == /\ desired \in Model \cup {NONE}
              /\ publisher \in Task \cup {NONE} /\ cancelled \subseteq Task

TypeInv == /\ LineInv
           /\ PoolTyped /\ AbortTyped /\ loaded \subseteq Objects /\ ran \subseteq Task
           /\ \A t \in Task : Sound(job[t])

\* A step's task takes on such a job.
Takes(t) == \E n : Sound(n) /\ Become(t, n)

LEMMA Somewhere ==
  /\ "none" \in Places /\ "done" \in Places
  /\ "called" \in Places /\ "gate" \in Places /\ "recheck" \in Places /\ "budget" \in Places
  /\ "probe" \in Places /\ "ladder" \in Places /\ "wait_busy" \in Places /\ "confirm" \in Places
  /\ "free" \in Places /\ "freed" \in Places
  /\ "load" \in Places /\ "loaded" \in Places /\ "not_loaded" \in Places
  /\ "prepare" \in Places /\ "queued" \in Places /\ "lazy_load" \in Places /\ "generate" \in Places
  /\ "abandoned_load" \in Places /\ "abandoned" \in Places
  /\ "unload_wait" \in Places /\ "unload_gate" \in Places /\ "unload" \in Places
  /\ "unloaded" \in Places /\ "all_wait" \in Places /\ "all_reading" \in Places
  /\ "all_rest" \in Places
  /\ "idle_gate" \in Places /\ "idle_free" \in Places /\ "idle_freed" \in Places
BY DEF Places

LEMMA NoJobSound == NoJob \in Job /\ Sound(NoJob) /\ Sound(Done)
<1>1. NoJob \in Job /\ Done \in Job
  BY Somewhere DEF Job, NoJob, Done
<1> QED BY <1>1 DEF Sound, NoJob, Done, Holding, Making

\* A pinned request, and what a switch leaves for its task.
LEMMA PinnedSound ==
  ASSUME NEW j, j.m \in Model, NEW e \in Objects
  PROVE  Sound(PinnedRequest(j, e)) /\ Sound(AfterSwitch(j, e))
<1>1. PinnedRequest(j, e) \in Job
  BY Somewhere DEF PinnedRequest, NoJob, Job, JobKinds
<1>2. Sound(PinnedRequest(j, e))
  BY <1>1 DEF Sound, PinnedRequest, NoJob, Holding, Making
<1> QED BY <1>2, NoJobSound DEF AfterSwitch

LEMMA ReuseTyped ==
  ASSUME TypeInv, NEW t \in Task, NEW j, j.m \in Model, NEW l, Reusable(engines[j.m]),
         Reuse(t, j, l)
  PROVE  Takes(t) /\ PoolTyped'
<1>1. engines[j.m] \in Objects
  BY DEF TypeInv, PoolTyped, Reusable
<1>2. Takes(t)
  BY <1>1, PinnedSound DEF Reuse, Takes
<1>3. RemoveFirst(lru, j.m) \in Seq(Model)
  BY WithoutModel DEF TypeInv, PoolTyped
<1>4. lru' \in Seq(Model)
  BY <1>3, WithModel DEF Reuse, Touch
<1> QED BY <1>2, <1>4 DEF Reuse, TypeInv, PoolTyped

LEMMA EnterTyped ==
  ASSUME TypeInv, NEW t \in Task, NEW j, Sound(j), j.pc = "gate", j.m \in Model, NEW l, NEW want,
         EnterSwitch(t, j, l, want)
  PROVE  Takes(t) /\ PoolTyped'
<1>1. CASE Reuse(t, j, l) /\ Reusable(engines[j.m])
  BY <1>1, ReuseTyped
<1>2. CASE Become(t, Done) /\ UNCHANGED <<engines, lru, active, last, unloading, evicting>>
  BY <1>2, NoJobSound DEF Takes, TypeInv, PoolTyped
<1>3. CASE /\ Reusable(engines[j.m])
           /\ Become(t, [j EXCEPT !.pc = "recheck", !.eng = engines[j.m]])
           /\ UNCHANGED <<engines, lru, active, last, unloading, evicting>>
  <2>1. engines[j.m] \in Objects
    BY <1>3 DEF TypeInv, PoolTyped, Reusable
  <2>2. Sound([j EXCEPT !.pc = "recheck", !.eng = engines[j.m]])
    BY <2>1, Somewhere DEF Sound, Job, Holding, Making
  <2> QED BY <1>3, <2>2 DEF Takes, TypeInv, PoolTyped
<1>4. CASE /\ Become(t, [j EXCEPT !.pc = "budget"])
           /\ UNCHANGED <<engines, lru, active, last, unloading, evicting>>
  <2>1. Sound([j EXCEPT !.pc = "budget"])
    BY Somewhere DEF Sound, Job, Holding, Making
  <2> QED BY <1>4, <2>1 DEF Takes, TypeInv, PoolTyped
<1> QED BY <1>1, <1>2, <1>3, <1>4 DEF EnterSwitch

LEMMA DetachTyped ==
  ASSUME TypeInv, NEW v \in Model, NEW e \in Objects, NEW act, NEW keep, Detach(v, e, act, keep)
  PROVE  /\ engines' \in [Model -> Objects \cup {NONE}]
         /\ lru' \in Seq(Model)
         /\ active' \in Model \cup {NONE} /\ last' \in Model \cup {NONE}
         /\ unloading' \subseteq Objects
<1>1. lru' \in Seq(Model)
  BY WithoutModel DEF Detach, TypeInv, PoolTyped
<1> QED BY <1>1 DEF Detach, TypeInv, PoolTyped

LEMMA EvictTyped ==
  ASSUME TypeInv, NEW t \in Task, NEW j, Sound(j),
         j.pc \in {"probe", "ladder", "wait_busy", "confirm"},
         NEW v \in Model, NEW f, TryEvict(t, j, v, f)
  PROVE  Takes(t) /\ PoolTyped'
<1> DEFINE e == engines[v]
<1>1. CASE e # NONE /\ Detach(v, e, j.activate, FALSE) /\ evicting' = evicting \cup {v}
           /\ Become(t, [j EXCEPT !.pc = "free", !.victim = v, !.freed = e])
  <2>1. e \in Objects
    BY <1>1 DEF TypeInv, PoolTyped
  <2>2. Sound([j EXCEPT !.pc = "free", !.victim = v, !.freed = e])
    BY <2>1, Somewhere DEF Sound, Job, Holding, Making
  <2> QED BY <1>1, <2>1, <2>2, DetachTyped DEF Takes, TypeInv, PoolTyped
<1>2. CASE Become(t, [j EXCEPT !.pc = "probe", !.victim = NONE, !.freed = NONE]) /\ UNCHANGED pool
  <2>1. Sound([j EXCEPT !.pc = "probe", !.victim = NONE, !.freed = NONE])
    BY Somewhere DEF Sound, Job, Holding, Making
  <2> QED BY <1>2, <2>1 DEF Takes, TypeInv, PoolTyped, pool
<1> QED BY <1>1, <1>2 DEF TryEvict

LEMMA GiveUpTyped ==
  ASSUME TypeInv, NEW t \in Task, GiveUp(t)
  PROVE  Takes(t) /\ PoolTyped'
<1>1. job[t].prior \in Model \cup {NONE}
  BY DEF TypeInv, Sound, Job
<1> QED BY <1>1, NoJobSound DEF GiveUp, Takes, TypeInv, PoolTyped

LEMMA NewEngineIsOne ==
  ASSUME NEW m \in Model, NewEngine(m) # {}
  PROVE  AnyOf(NewEngine(m)) \in Objects
BY DEF AnyOf, NewEngine, Object, Objects

LEMMA LoadTyped ==
  ASSUME TypeInv, NEW t \in Task, job[t].pc \in {"probe", "ladder"}, BeginLoad(t, job[t])
  PROVE  Takes(t) /\ PoolTyped' /\ AbortTyped'
<1> DEFINE j == job[t]
           e == IF j.healing THEN j.eng
                ELSE IF engines[j.m] # NONE THEN engines[j.m]
                ELSE AnyOf(NewEngine(j.m))
<1>1. CASE GiveUp(t)
  BY <1>1, GiveUpTyped DEF BeginLoad, abort, TypeInv, AbortTyped
<1>2. CASE ~GiveUp(t)
  <2>1. /\ j.healing \/ engines[j.m] # NONE \/ NewEngine(j.m) # {}
        /\ Become(t, [j EXCEPT !.pc = "load", !.eng = e, !.victim = NONE, !.freed = NONE])
        /\ unloading' \in {unloading, unloading \ {e}}
        /\ publisher' \in {t, publisher}
        /\ cancelled' = cancelled \ {t}
        /\ UNCHANGED <<engines, lru, sems, active, last, evicting, desired, line>>
    BY <1>2 DEF BeginLoad
  <2>2. Sound(j) /\ j.m \in Model
    BY DEF TypeInv, LineInv, Named
  <2>3. e \in Objects
    BY <2>1, <2>2, NewEngineIsOne DEF Sound, TypeInv, PoolTyped
  <2> HIDE DEF e
  <2>4. Sound([j EXCEPT !.pc = "load", !.eng = e, !.victim = NONE, !.freed = NONE])
    BY <2>2, <2>3, Somewhere DEF Sound, Job, Holding, Making
  <2> QED BY <2>1, <2>4 DEF Takes, TypeInv, PoolTyped, AbortTyped
<1> QED BY <1>1, <1>2

\* A job that flags its engine and queues.
LEMMA QueueTyped ==
  ASSUME TypeInv, NEW t \in Task, NEW j, Sound(j), ~j.healing, j.m \in Model, j.eng \in Objects,
         NEW l, NEW u, u \subseteq Objects, MarkAndQueue(t, j, l, u), lru' \in Seq(Model)
  PROVE  Takes(t) /\ PoolTyped'
<1> DEFINE g == GateOf(j.m)
           n == [[j EXCEPT !.gate = g] EXCEPT
                   !.pc = IF Head(JoinIn(l, t, g)[g]) = t THEN "unload" ELSE "unload_gate"]
<1>1. g \in Objects
  BY GateOfIsGate DEF TypeInv, LineInv
<1>2. /\ Become(t, n) /\ unloading' = u \cup {j.eng}
      /\ UNCHANGED <<engines, active, last, evicting>>
  BY <1>1 DEF MarkAndQueue, Sound, Job
<1> HIDE DEF g
<1>3. Sound(n)
  BY <1>1, Somewhere DEF Sound, Job, Holding, Making
<1> HIDE DEF n
<1> QED BY <1>2, <1>3 DEF Takes, TypeInv, PoolTyped

LEMMA WalkTyped ==
  ASSUME TypeInv, NEW t \in Task, NEW j, Sound(j), ~j.healing,
         j.pc \notin {"wait_busy", "confirm"},
         NEW l, NEW u, u \subseteq Objects, Walk(t, j, l, u), lru' \in Seq(Model)
  PROVE  Takes(t) /\ PoolTyped'
<1>1. PICK S \in SUBSET j.todo : Walk(t, j, l, u)!(S)
  BY DEF Walk
<1> DEFINE k == [j EXCEPT !.todo = @ \ S,
                          !.kept = @ \cup {m \in S : engines[m] \in loaded}]
           Visit(m) == [k EXCEPT !.todo = @ \ {m}, !.m = m, !.eng = engines[m]]
<1>2. k \in Job /\ ~k.healing /\ k.todo \subseteq Model /\ k.pc = j.pc
  <2>1. {m \in S : engines[m] \in loaded} \subseteq Model /\ j \in Job
    BY DEF Sound, Job
  <2> QED BY <2>1 DEF Job
<1> HIDE DEF k
<1>3. CASE /\ Become(t, [k EXCEPT !.pc = "all_rest", !.m = NONE, !.eng = NONE, !.gate = NONE])
           /\ unloading' = u /\ UNCHANGED <<engines, active, last, evicting>>
  <2>1. Sound([k EXCEPT !.pc = "all_rest", !.m = NONE, !.eng = NONE, !.gate = NONE])
    BY <1>2, Somewhere DEF Sound, Job, Holding, Making
  <2> QED BY <1>3, <2>1 DEF Takes, TypeInv, PoolTyped
<1>4. CASE Become(t, Done) /\ unloading' = u /\ UNCHANGED <<engines, active, last, evicting>>
  BY <1>4, NoJobSound DEF Takes, TypeInv, PoolTyped
<1>5. ASSUME NEW m \in k.todo, engines[m] \in loaded
      PROVE  m \in Model /\ engines[m] \in Objects
  BY <1>2, <1>5 DEF TypeInv
<1>6. ASSUME NEW m \in k.todo, engines[m] \in loaded, unloading' = u,
             Become(t, [Visit(m) EXCEPT !.pc = "all_reading", !.tried = TRUE, !.gate = NONE]),
             UNCHANGED <<engines, active, last, evicting>>
      PROVE  Takes(t) /\ PoolTyped'
  <2>1. Sound([Visit(m) EXCEPT !.pc = "all_reading", !.tried = TRUE, !.gate = NONE])
    BY <1>2, <1>5, <1>6, Somewhere DEF Sound, Job, Holding, Making
  <2> QED BY <1>6, <2>1 DEF Takes, TypeInv, PoolTyped
<1>7. ASSUME NEW m \in k.todo, engines[m] \in loaded, MarkAndQueue(t, Visit(m), l, u)
      PROVE  Takes(t) /\ PoolTyped'
  <2> DEFINE n == Visit(m)
  <2>1. n \in Job /\ ~n.healing /\ n.m = m /\ n.eng = engines[m] /\ n.pc = j.pc
    BY <1>2, <1>5, <1>7 DEF Job
  <2>2. MarkAndQueue(t, n, l, u)
    BY <1>7
  <2> HIDE DEF n
  <2>3. ~n.healing /\ n.m \in Model /\ n.eng \in Objects
    BY <1>5, <1>7, <2>1
  <2>4. Sound(n)
    BY <2>1, <2>3 DEF Sound
  <2> QED BY <2>2, <2>3, <2>4, QueueTyped
<1> QED BY <1>1, <1>3, <1>4, <1>6, <1>7 DEF k

LEMMA TaskTyped ==
  ASSUME TypeInv, NEW t \in Task, NewJob(t) \/ JobStep(t)
  PROVE  Takes(t) /\ PoolTyped' /\ AbortTyped' /\ loaded' \subseteq Objects
<1> USE PoolAssumption DEF At
<1> DEFINE Goal == Takes(t) /\ PoolTyped' /\ AbortTyped' /\ loaded' \subseteq Objects
<1>a. /\ Sound(job[t]) /\ Named(job[t]) /\ PoolTyped /\ AbortTyped /\ loaded \subseteq Objects
      /\ unloading \subseteq Objects /\ lru \in Seq(Model)
  BY DEF TypeInv, PoolTyped, LineInv
<1>b. UNCHANGED pool => PoolTyped'
  BY <1>a DEF PoolTyped, pool
<1>c. UNCHANGED abort => AbortTyped'
  BY <1>a DEF AbortTyped, abort
<1>d. \A m : RemoveFirst(lru, m) \in Seq(Model)
  BY <1>a, WithoutModel
<1>1. ASSUME NEW m \in Model, NEW b \in BOOLEAN, Request(t, m, b) PROVE Goal
  <2> DEFINE j == [NoJob EXCEPT !.kind = "request", !.m = m, !.activate = b]
  <2>1. CASE Reusable(engines[m]) /\ Touch(m) /\ Become(t, PinnedRequest(j, engines[m]))
             /\ active' = (IF b THEN m ELSE active)
             /\ UNCHANGED <<engines, last, unloading, evicting, loaded, abort, line>>
    <3>1. engines[m] \in Objects
      BY <1>a, <2>1 DEF PoolTyped, Reusable
    <3>2. j.m = m
      BY DEF NoJob
    <3>3. Sound(PinnedRequest(j, engines[m]))
      BY <3>1, <3>2, PinnedSound
    <3>4. lru' \in Seq(Model)
      BY <1>d, <2>1, WithModel DEF Touch
    <3> HIDE DEF j
    <3> QED BY <1>a, <1>c, <2>1, <3>3, <3>4 DEF PoolTyped, Takes
  <2>2. CASE Become(t, [j EXCEPT !.pc = "called"]) /\ UNCHANGED <<pool, loaded, abort, line>>
    <3>1. [j EXCEPT !.pc = "called"] \in Job
      BY NoJobSound, Somewhere DEF Job, JobKinds
    <3>2. Sound([j EXCEPT !.pc = "called"])
      BY <3>1 DEF Sound, Holding, NoJob
    <3> QED BY <1>a, <1>b, <1>c, <2>2, <3>2 DEF Takes
  <2> QED BY <1>1, <2>1, <2>2 DEF Request
<1>2. ASSUME NEW m \in Model, NEW b \in BOOLEAN, Switch(t, m, b) PROVE Goal
  <2> DEFINE j == [NoJob EXCEPT !.kind = "switch", !.m = m, !.force = b,
                             !.activate = TRUE, !.pc = "called"]
  <2>0. j \in Job
    BY NoJobSound, Somewhere DEF Job, JobKinds
  <2>1. Sound(j)
    BY <2>0 DEF Sound, Holding, NoJob
  <2>2. Become(t, j) /\ UNCHANGED <<pool, loaded, abort, line>>
    BY <1>2 DEF Switch
  <2> HIDE DEF j
  <2> QED BY <1>a, <1>b, <1>c, <2>1, <2>2 DEF Takes
<1>3. ASSUME NEW m \in Model, NEW b \in BOOLEAN, Unload(t, m, b) PROVE Goal
  <2> DEFINE j == [NoJob EXCEPT !.kind = "unload", !.m = m, !.force = b, !.eng = engines[m]]
  <2>1. engines[m] \in Objects
    BY <1>3, <1>a DEF Unload, PoolTyped
  <2>0. j \in Job /\ [j EXCEPT !.pc = "unload_wait"] \in Job
    BY <2>1, NoJobSound, Somewhere DEF Job, JobKinds
  <2>2. Sound(j) /\ ~j.healing /\ j.m = m /\ j.eng = engines[m]
    BY <2>0, <2>1 DEF Sound, Holding, NoJob
  <2>3. Sound([j EXCEPT !.pc = "unload_wait"])
    BY <2>0, <2>1 DEF Sound, Holding, NoJob
  <2>4. /\ \/ MarkAndQueue(t, j, line, unloading) /\ UNCHANGED lru
           \/ Become(t, [j EXCEPT !.pc = "unload_wait"]) /\ UNCHANGED <<pool, line>>
        /\ UNCHANGED <<loaded, abort>>
    BY <1>3 DEF Unload
  <2> HIDE DEF j
  <2>5. CASE MarkAndQueue(t, j, line, unloading) /\ UNCHANGED lru
    BY <1>a, <1>c, <2>1, <2>2, <2>4, <2>5, QueueTyped
  <2> QED BY <1>a, <1>b, <1>c, <2>3, <2>4, <2>5 DEF Takes
<1>4. ASSUME NEW m \in Model, IdleUnload(t, m) PROVE Goal
  <2>1. engines[m] \in Objects
    BY <1>4, <1>a DEF IdleUnload, PoolTyped
  <2>2. PICK g \in IdleGates(m), p \in {"idle_free", "idle_gate"} :
          /\ Become(t, [NoJob EXCEPT !.kind = "idle_unload", !.m = m, !.gate = g,
                                     !.eng = engines[m], !.pc = p])
          /\ unloading' \in {unloading, unloading \cup {engines[m]}}
    BY <1>4 DEF IdleUnload
  <2>3. g \in Objects
    <3>1. \A x \in Model : sems[x] \in Objects \cup {NONE}
      BY DEF TypeInv, LineInv
    <3>2. GateOf(m) \in Objects
      BY GateOfIsGate DEF TypeInv, LineInv
    <3> QED BY <3>1, <3>2 DEF IdleGates
  <2>0. [NoJob EXCEPT !.kind = "idle_unload", !.m = m, !.gate = g,
                      !.eng = engines[m], !.pc = p] \in Job
    BY <2>1, <2>3, NoJobSound, Somewhere DEF Job, JobKinds
  <2>4. Sound([NoJob EXCEPT !.kind = "idle_unload", !.m = m, !.gate = g,
                            !.eng = engines[m], !.pc = p])
    BY <2>0, <2>1 DEF Sound, NoJob
  <2> QED BY <1>4, <1>a, <1>c, <2>1, <2>2, <2>4 DEF IdleUnload, Takes, PoolTyped
<1>5. ASSUME NEW b \in BOOLEAN, UnloadAll(t, b) PROVE Goal
  <2> DEFINE j == [NoJob EXCEPT !.kind = "unload_all", !.force = b]
             names == {m \in Model : engines[m] # NONE}
  <2>0. [j EXCEPT !.pc = "all_wait"] \in Job /\ [j EXCEPT !.todo = names] \in Job
    BY NoJobSound, Somewhere DEF Job, JobKinds
  <2>1. /\ Sound([j EXCEPT !.pc = "all_wait"])
        /\ Sound([j EXCEPT !.todo = names])
        /\ ~[j EXCEPT !.todo = names].healing
        /\ [j EXCEPT !.todo = names].pc = "none"
    BY <2>0 DEF Sound, Holding, NoJob
  <2>2. /\ \/ Become(t, [j EXCEPT !.pc = "all_wait"]) /\ UNCHANGED <<pool, line>>
           \/ Walk(t, [j EXCEPT !.todo = names], line, unloading) /\ UNCHANGED lru
        /\ UNCHANGED <<loaded, abort>>
    BY <1>5 DEF UnloadAll
  <2> HIDE DEF j, names
  <2>3. CASE Walk(t, [j EXCEPT !.todo = names], line, unloading) /\ UNCHANGED lru
    BY <1>a, <1>c, <2>1, <2>2, <2>3, WalkTyped
  <2> QED BY <1>a, <1>b, <1>c, <2>1, <2>2, <2>3 DEF Takes
<1>6. QueueSwitch(t) => Goal
  <2> HAVE QueueSwitch(t)
  <2> DEFINE g == GateOf(job[t].m)
             j == [job[t] EXCEPT !.gate = g, !.pc = "gate"]
             others == {t2 \in {publisher} : job[t2].m # j.m}
  <2>c. cancelled' = IF Explicit(j) /\ publisher # NONE THEN cancelled \cup others ELSE cancelled
    BY DEF QueueSwitch
  <2>d. others \subseteq {publisher}
    OBVIOUS
  <2> HIDE DEF others
  <2>1. g \in Objects /\ job[t].m \in Model
    BY <1>a, GateOfIsGate DEF QueueSwitch, Named, TypeInv, LineInv
  <2>2. desired' = (IF Explicit(j) THEN j.m ELSE desired) /\ UNCHANGED <<loaded, publisher>>
    BY DEF QueueSwitch
  <2>e. \/ EnterSwitch(t, j, Join(t, j.gate), desired')
        \/ Become(t, j) /\ UNCHANGED <<engines, lru, active, last, unloading, evicting>>
    BY DEF QueueSwitch
  <2> HIDE DEF g
  <2>3. j \in Job /\ j.pc = "gate" /\ j.m = job[t].m /\ (j.healing <=> job[t].healing)
    BY <1>a, <2>1, Somewhere DEF Sound, Job
  <2>4. ~job[t].healing
    BY <1>a DEF Sound, Making, QueueSwitch
  <2> HIDE DEF j
  <2>5. Sound(j)
    BY <2>3, <2>4 DEF Sound, Holding, Making
  <2>6. AbortTyped' /\ loaded' \subseteq Objects
    BY <1>a, <2>1, <2>2, <2>3, <2>c, <2>d DEF AbortTyped
  <2>7. CASE EnterSwitch(t, j, Join(t, j.gate), desired')
    BY <2>1, <2>3, <2>5, <2>6, <2>7, EnterTyped
  <2>8. CASE Become(t, j) /\ UNCHANGED <<engines, lru, active, last, unloading, evicting>>
    BY <1>a, <2>5, <2>6, <2>8 DEF Takes, PoolTyped
  <2> QED BY <2>e, <2>7, <2>8
<1>7. GateGranted(t) => Goal
  <2> HAVE GateGranted(t)
  <2>1. job[t].m \in Model /\ job[t].pc = "gate"
    BY <1>a DEF GateGranted, Named
  <2> QED BY <1>a, <1>c, <2>1, EnterTyped DEF GateGranted
<1>8. Recheck(t) => Goal
  <2> HAVE Recheck(t)
  <2> DEFINE j == job[t]
  <2>1. j.m \in Model /\ j.pc = "recheck" /\ j.eng \in Objects
    BY <1>a DEF Recheck, Named, Sound, Holding, Making
  <2>2. CASE Detach(j.m, j.eng, FALSE, TRUE) /\ evicting' = evicting
             /\ Become(t, [j EXCEPT !.pc = "budget", !.healing = TRUE, !.was = (active = j.m)])
    <3>1. Sound([j EXCEPT !.pc = "budget", !.healing = TRUE, !.was = (active = j.m)])
      BY <1>a, <2>1, Somewhere DEF Sound, Job, Holding, Making
    <3> QED BY <1>a, <1>c, <2>1, <2>2, <3>1, DetachTyped DEF Recheck, Takes, PoolTyped
  <2>3. CASE Reusable(j.eng) /\ engines[j.m] = j.eng /\ Reuse(t, j, line)
    BY <1>a, <1>c, <2>1, <2>3, ReuseTyped DEF Recheck
  <2>4. CASE Become(t, [j EXCEPT !.pc = "budget", !.eng = NONE]) /\ UNCHANGED <<pool, line>>
    <3>1. Sound([j EXCEPT !.pc = "budget", !.eng = NONE])
      BY <1>a, <2>1, Somewhere DEF Sound, Job, Holding, Making
    <3> QED BY <1>a, <1>b, <1>c, <2>4, <3>1 DEF Recheck, Takes
  <2> QED BY <2>2, <2>3, <2>4 DEF Recheck
<1>9. Budget(t) => Goal
  <2> HAVE Budget(t)
  <2> DEFINE j == [job[t] EXCEPT !.prior = active]
  <2>1. job[t].m \in Model /\ job[t].pc = "budget"
    BY <1>a DEF Budget, Named
  <2>2. CASE Become(t, Done) /\ UNCHANGED pool
    BY <1>a, <1>b, <1>c, <2>2, NoJobSound DEF Budget, Takes
  <2>3. CASE Become(t, [j EXCEPT !.pc = "probe"]) /\ UNCHANGED pool
    <3>1. Sound([j EXCEPT !.pc = "probe"])
      BY <1>a, <2>1, Somewhere DEF Sound, Job, Holding, Making, PoolTyped
    <3> QED BY <1>a, <1>b, <1>c, <2>3, <3>1 DEF Budget, Takes
  <2>4. CASE /\ job[t].healing
             /\ evicting' = evicting \cup {j.m}
             /\ Become(t, [j EXCEPT !.pc = "free", !.victim = j.m, !.freed = j.eng])
             /\ UNCHANGED <<engines, lru, sems, active, last, unloading, line>>
    <3>1. Sound([j EXCEPT !.pc = "free", !.victim = j.m, !.freed = j.eng])
      BY <1>a, <2>1, Somewhere DEF Sound, Job, Holding, Making, PoolTyped
    <3>2. j.m \in Model
      BY <1>a, <2>1 DEF Sound, Job
    <3> QED BY <1>a, <1>c, <2>4, <3>1, <3>2 DEF Budget, Takes, PoolTyped
  <2> QED BY <1>a, <2>2, <2>3, <2>4 DEF Budget, Sound, Job
<1>10. Probe(t) => Goal
  <2> HAVE Probe(t)
  <2> DEFINE j == job[t]
             idle == IdleVictims(j.m)
  <2>1. j.m \in Model /\ j.pc = "probe"
    BY <1>a DEF Probe, Named
  <2>2. idle # {} => Oldest(idle) \in Model
    <3>1. idle \subseteq ToSet(lru) /\ ToSet(lru) \subseteq Model
      BY <1>a, Listed DEF IdleVictims, Evictable
    <3> QED BY <1>a, <3>1, OldestIsOne
  <2>3. CASE BeginLoad(t, j)
    BY <1>a, <2>1, <2>3, LoadTyped DEF Probe
  <2>4. CASE idle # {} /\ TryEvict(t, j, Oldest(idle), FALSE) /\ UNCHANGED <<abort, line>>
    BY <1>a, <1>c, <2>1, <2>2, <2>4, EvictTyped DEF Probe
  <2>5. CASE idle # {} /\ Become(t, [j EXCEPT !.pc = "confirm", !.victim = Oldest(idle)])
             /\ UNCHANGED <<pool, abort, line>>
    <3> DEFINE v == Oldest(idle)
    <3> HIDE DEF v
    <3>1. Sound([j EXCEPT !.pc = "confirm", !.victim = v])
      BY <1>a, <2>1, <2>2, <2>5, Somewhere DEF Sound, Job, Holding, Making, v
    <3> QED BY <1>a, <1>b, <1>c, <2>5, <3>1 DEF Probe, Takes, v
  <2>6. CASE Become(t, [j EXCEPT !.pc = "ladder"]) /\ UNCHANGED <<pool, abort, line>>
    <3>1. Sound([j EXCEPT !.pc = "ladder"])
      BY <1>a, <2>1, Somewhere DEF Sound, Job, Holding, Making
    <3> QED BY <1>a, <1>b, <1>c, <2>6, <3>1 DEF Probe, Takes
  <2> QED BY <2>3, <2>4, <2>5, <2>6 DEF Probe
<1>11. Ladder(t) => Goal
  <2> HAVE Ladder(t)
  <2> DEFINE j == [job[t] EXCEPT !.tried = TRUE]
             busy == Evictable(j.m)
  <2>1. job[t].m \in Model /\ job[t].pc = "ladder"
    BY <1>a DEF Ladder, Named
  <2>2. busy # {} => Oldest(busy) \in Model
    <3>1. busy \subseteq ToSet(lru) /\ ToSet(lru) \subseteq Model
      BY <1>a, Listed DEF Evictable
    <3> QED BY <1>a, <3>1, OldestIsOne
  <2> HIDE DEF busy
  <2>j. Sound(j) /\ j.pc = "ladder"
    BY <1>a, <2>1 DEF Sound, Job, Holding, Making
  <2>3. CASE BeginLoad(t, job[t])
    BY <1>a, <2>1, <2>3, LoadTyped DEF Ladder
  <2>4. CASE GiveUp(t) /\ UNCHANGED abort
    BY <1>a, <1>c, <2>4, GiveUpTyped DEF Ladder
  <2>5. CASE busy # {} /\ TryEvict(t, j, Oldest(busy), TRUE) /\ UNCHANGED <<abort, line>>
    BY <1>a, <1>c, <2>j, <2>2, <2>5, EvictTyped DEF Ladder
  <2>6. CASE busy # {} /\ Become(t, [j EXCEPT !.pc = "wait_busy", !.victim = Oldest(busy),
                                  !.freed = engines[Oldest(busy)]])
             /\ UNCHANGED <<pool, abort, line>>
    <3> DEFINE v == Oldest(busy)
               e == engines[v]
    <3>1. v \in Model /\ e \in Objects \cup {NONE}
      BY <1>a, <2>2, <2>6 DEF PoolTyped
    <3> HIDE DEF v, e
    <3> HIDE DEF j
    <3>2. Sound([j EXCEPT !.pc = "wait_busy", !.victim = v, !.freed = e])
      BY <2>j, <3>1, Somewhere DEF Sound, Job, Holding, Making
    <3> QED BY <1>a, <1>b, <1>c, <2>6, <3>2 DEF Ladder, Takes, v, e
  <2> QED BY <2>3, <2>4, <2>5, <2>6 DEF Ladder, busy
<1>12. BusyWaitEnds(t) => Goal
  <2> HAVE BusyWaitEnds(t)
  <2> DEFINE j == job[t]
  <2>1. j.m \in Model /\ j.pc = "wait_busy" /\ j.victim \in Model
    BY <1>a DEF BusyWaitEnds, Named, Sound
  <2>2. CASE Become(t, [j EXCEPT !.pc = "confirm", !.freed = NONE]) /\ UNCHANGED <<pool, line>>
    <3>1. Sound([j EXCEPT !.pc = "confirm", !.freed = NONE])
      BY <1>a, <2>1, Somewhere DEF Sound, Job, Holding, Making
    <3> QED BY <1>a, <1>b, <1>c, <2>2, <3>1 DEF BusyWaitEnds, Takes
  <2>3. CASE TryEvict(t, j, j.victim, FALSE)
    BY <1>a, <1>c, <2>1, <2>3, EvictTyped DEF BusyWaitEnds
  <2>4. CASE Become(t, [j EXCEPT !.pc = "probe", !.victim = NONE, !.freed = NONE])
             /\ UNCHANGED <<pool, line>>
    <3>1. Sound([j EXCEPT !.pc = "probe", !.victim = NONE, !.freed = NONE])
      BY <1>a, <2>1, Somewhere DEF Sound, Job, Holding, Making
    <3> QED BY <1>a, <1>b, <1>c, <2>4, <3>1 DEF BusyWaitEnds, Takes
  <2>5. CASE GiveUp(t)
    BY <1>a, <1>c, <2>5, GiveUpTyped DEF BusyWaitEnds
  <2>6. CASE Become(t, [j EXCEPT !.pc = "ladder", !.victim = NONE, !.freed = NONE])
             /\ UNCHANGED <<pool, line>>
    <3>1. Sound([j EXCEPT !.pc = "ladder", !.victim = NONE, !.freed = NONE])
      BY <1>a, <2>1, Somewhere DEF Sound, Job, Holding, Making
    <3> QED BY <1>a, <1>b, <1>c, <2>6, <3>1 DEF BusyWaitEnds, Takes
  <2> QED BY <2>2, <2>3, <2>4, <2>5, <2>6 DEF BusyWaitEnds
<1>13. Confirm(t) => Goal
  <2> HAVE Confirm(t)
  <2>1. job[t].m \in Model /\ job[t].pc = "confirm" /\ job[t].victim \in Model
    BY <1>a DEF Confirm, Named, Sound
  <2>2. CASE GiveUp(t)
    BY <1>a, <1>c, <2>2, GiveUpTyped DEF Confirm
  <2>3. CASE TryEvict(t, job[t], job[t].victim, FALSE)
    BY <1>a, <1>c, <2>1, <2>3, EvictTyped DEF Confirm
  <2> QED BY <2>2, <2>3 DEF Confirm
<1>14. Freed(t) => Goal
  <2> HAVE Freed(t)
  <2>1. Sound([job[t] EXCEPT !.pc = "probe", !.victim = NONE, !.freed = NONE])
    BY <1>a, Somewhere DEF Sound, Job, Holding, Making, Freed
  <2> QED BY <1>a, <1>c, <2>1 DEF Freed, Takes, PoolTyped
<1>15. LoadFailed(t) => Goal
  BY <1>a, GiveUpTyped DEF LoadFailed, Unpublish, AbortTyped
<1>16. Commit(t) => Goal
  <2> HAVE Commit(t)
  <2> DEFINE j == job[t]
  <2>1. j.m \in Model /\ j.eng \in Objects
    BY <1>a DEF Commit, Named, Sound, Holding, Making
  <2>2. Sound(AfterSwitch(j, j.eng))
    BY <2>1, PinnedSound
  <2>3. Append(lru, j.m) \in Seq(Model)
    BY <1>a, <2>1, WithModel
  <2> QED BY <1>a, <2>1, <2>2, <2>3 DEF Commit, Unpublish, Takes, PoolTyped, AbortTyped
<1>17. Prepared(t) => Goal
  <2> HAVE Prepared(t)
  <2> DEFINE g == GateOf(job[t].m)
             j == [job[t] EXCEPT !.gate = g, !.pc = "queued"]
  <2>1. g \in Objects /\ job[t].eng \in Objects /\ ~job[t].healing
    BY <1>a, GateOfIsGate DEF Prepared, Named, TypeInv, LineInv, Sound, Holding, Making
  <2>2. Become(t, j) \/ Become(t, Done)
    BY DEF Prepared
  <2> HIDE DEF g
  <2>3. Sound(j)
    BY <1>a, <2>1, Somewhere DEF Sound, Job, Holding, Making
  <2> HIDE DEF j
  <2> QED BY <1>a, <1>c, <2>2, <2>3, NoJobSound DEF Prepared, Takes, PoolTyped
<1>18. Produce(t) => Goal
  <2> HAVE Produce(t)
  <2>1. Sound([job[t] EXCEPT !.pc = "lazy_load"])
    BY <1>a, Somewhere DEF Sound, Job, Holding, Making, Produce
  <2> QED BY <1>a, <1>b, <1>c, <2>1 DEF Produce, Takes
<1>19. Replied(t) => Goal
  BY <1>a, <1>b, <1>c, NoJobSound DEF Replied, Takes
<1>20. UnloadWaitEnds(t) => Goal
  <2> HAVE UnloadWaitEnds(t)
  <2>1. job[t].m \in Model /\ job[t].eng \in Objects
    BY <1>a DEF UnloadWaitEnds, Named, Sound, Holding, Making
  <2>2. CASE MarkAndQueue(t, job[t], line, unloading) /\ UNCHANGED lru
    <3>1. ~job[t].healing
      BY <1>a DEF Sound, Making, UnloadWaitEnds
    <3> QED BY <1>a, <1>c, <2>1, <2>2, <3>1, QueueTyped DEF UnloadWaitEnds
  <2>3. CASE Become(t, Done) /\ UNCHANGED <<pool, line>>
    BY <1>a, <1>b, <1>c, <2>3, NoJobSound DEF UnloadWaitEnds, Takes
  <2> QED BY <2>2, <2>3 DEF UnloadWaitEnds
<1>21. UnloadGranted(t) => Goal
  <2> HAVE UnloadGranted(t)
  <2>1. Sound([job[t] EXCEPT !.pc = "unload"])
    BY <1>a, Somewhere DEF Sound, Job, Holding, Making, UnloadGranted
  <2> QED BY <1>a, <1>b, <1>c, <2>1 DEF UnloadGranted, Takes
<1>22. Unloaded(t) => Goal
  BY <1>a, <1>c, <1>d, NoJobSound DEF Unloaded, Takes, PoolTyped, Named
<1>23. AllWaitEnds(t) => Goal
  <2> HAVE AllWaitEnds(t)
  <2> DEFINE names == {m \in Model : engines[m] # NONE}
             j == [job[t] EXCEPT !.todo = names]
  <2>1. Sound(j) /\ ~j.healing /\ j.pc = "all_wait"
    BY <1>a DEF AllWaitEnds, Sound, Job, Holding, Making
  <2>2. Walk(t, j, line, unloading) /\ UNCHANGED <<lru, loaded, abort>>
    BY DEF AllWaitEnds
  <2> HIDE DEF j
  <2> QED BY <1>a, <1>c, <2>1, <2>2, WalkTyped
<1>24. ReadingTaken(t) => Goal
  <2> HAVE ReadingTaken(t)
  <2> DEFINE j == job[t]
             k == [j EXCEPT !.kept = @ \cup {j.m}]
  <2>1. Sound(j) /\ ~j.healing /\ j.pc = "all_reading" /\ j.m \in Model /\ j.eng \in Objects
    BY <1>a DEF ReadingTaken, Sound, Named, Holding, Making
  <2>2. Sound(k) /\ ~k.healing /\ k.pc = "all_reading"
    BY <2>1 DEF Sound, Job, Holding, Making
  <2>3. /\ Walk(t, j, line, unloading) \/ Walk(t, k, line, unloading) \/ MarkAndQueue(t, j, line, unloading)
        /\ UNCHANGED <<lru, loaded, abort>>
    BY DEF ReadingTaken
  <2> HIDE DEF j, k
  <2> QED BY <1>a, <1>c, <2>1, <2>2, <2>3, WalkTyped, QueueTyped
<1>25. UnloadedGoOn(t) => Goal
  <2> HAVE UnloadedGoOn(t)
  <2> DEFINE l == LeaveIn(line, job[t].gate)
             u == unloading \ {job[t].eng}
  <2>1. ~job[t].healing /\ job[t].pc = "unloaded"
    BY <1>a DEF UnloadedGoOn, Sound, Making
  <2>2. Walk(t, job[t], l, u) /\ lru' \in Seq(Model) /\ UNCHANGED <<loaded, abort>>
    BY <1>d DEF UnloadedGoOn
  <2>3. u \subseteq Objects
    BY <1>a
  <2> HIDE DEF l, u
  <2> QED BY <1>a, <1>c, <2>1, <2>2, <2>3, WalkTyped
<1>26. AllReleased(t) => Goal
  BY <1>a, <1>c, NoJobSound DEF AllReleased, Takes, PoolTyped
<1>27. IdleGranted(t) => Goal
  <2> HAVE IdleGranted(t)
  <2>1. Sound([job[t] EXCEPT !.pc = "idle_free"]) /\ job[t].eng \in Objects
    BY <1>a, Somewhere DEF Sound, Job, Holding, Making, IdleGranted
  <2> QED BY <1>a, <1>c, <2>1, NoJobSound DEF IdleGranted, Takes, PoolTyped
<1>28. IdleFreed(t) => Goal
  <2> HAVE IdleFreed(t)
  <2> DEFINE rest == RemoveFirst(lru, job[t].m)
  <2>1. rest \in Seq(Model) /\ job[t].m \in Model
    BY <1>a, <1>d DEF IdleFreed, Named
  <2>2. rest # << >> => rest[Len(rest)] \in Model
    BY <2>1, Listed
  <2>3. /\ lru' = rest
        /\ active' \in {active, NONE} \/ (rest # << >> /\ active' = rest[Len(rest)])
        /\ last' \in {job[t].m, last}
        /\ unloading' \subseteq unloading
        /\ Become(t, Done)
        /\ UNCHANGED <<engines, evicting, loaded, abort>>
    BY DEF IdleFreed
  <2> HIDE DEF rest
  <2> QED BY <1>a, <1>c, <2>1, <2>2, <2>3, NoJobSound DEF Takes, PoolTyped
<1>29. FreeEnds(t) => Goal
  <2> HAVE FreeEnds(t)
  <2>1. Sound([job[t] EXCEPT !.pc = "freed"])
    BY <1>a, Somewhere DEF Sound, Job, Holding, Making, FreeEnds
  <2> QED BY <1>a, <1>b, <1>c, <2>1 DEF FreeEnds, Takes
<1>30. LoadEnds(t) => Goal
  <2> HAVE LoadEnds(t)
  <2>1. /\ Sound([job[t] EXCEPT !.pc = "loaded"])
        /\ Sound([job[t] EXCEPT !.pc = "not_loaded"])
        /\ job[t].eng \in Objects
    BY <1>a, Somewhere DEF Sound, Job, Holding, Making, LoadEnds
  <2> QED BY <1>a, <1>b, <1>c, <2>1 DEF LoadEnds, Takes
<1>31. LazyLoadEnds(t) => Goal
  <2> HAVE LazyLoadEnds(t)
  <2>1. /\ Sound([job[t] EXCEPT !.pc = IF @ = "lazy_load" THEN "generate" ELSE "abandoned"])
        /\ job[t].eng \in Objects
    BY <1>a, Somewhere DEF Sound, Job, Holding, Making, LazyLoadEnds
  <2> QED BY <1>a, <1>b, <1>c, <2>1 DEF LazyLoadEnds, Takes
<1>32. UnloadEnds(t) => Goal
  <2> HAVE UnloadEnds(t)
  <2>1. Sound([job[t] EXCEPT !.pc = "unloaded"])
    BY <1>a, Somewhere DEF Sound, Job, Holding, Making, UnloadEnds
  <2> QED BY <1>a, <1>b, <1>c, <2>1 DEF UnloadEnds, Takes
<1>33. IdleFreeEnds(t) => Goal
  <2> HAVE IdleFreeEnds(t)
  <2>1. Sound([job[t] EXCEPT !.pc = "idle_freed"])
    BY <1>a, Somewhere DEF Sound, Job, Holding, Making, IdleFreeEnds
  <2> QED BY <1>a, <1>b, <1>c, <2>1 DEF IdleFreeEnds, Takes
<1>34. Abandon(t) => Goal
  <2> HAVE Abandon(t)
  <2>1. Sound([job[t] EXCEPT !.gate = NONE,
                 !.pc = IF @ = "lazy_load" THEN "abandoned_load" ELSE "abandoned"])
    BY <1>a, Somewhere DEF Sound, Job, Holding, Making, Abandon
  <2> QED BY <1>a, <1>b, <1>c, <2>1 DEF Abandon, Takes
<1>35. AbandonedEnds(t) => Goal
  BY <1>a, <1>b, <1>c, NoJobSound DEF AbandonedEnds, Takes
<1> HIDE DEF Goal
<1>36. NewJob(t) => Goal
  BY <1>1, <1>2, <1>3, <1>4, <1>5 DEF NewJob
<1>37. LoopStep(t) => Goal
  BY <1>6, <1>7, <1>8, <1>9, <1>10, <1>11, <1>12, <1>13, <1>14, <1>15, <1>16, <1>17, <1>18,
     <1>19, <1>20, <1>21, <1>22, <1>23, <1>24, <1>25, <1>26, <1>27, <1>28,
     <1>34 DEF LoopStep
<1>38. ThreadStep(t) => Goal
  BY <1>29, <1>30, <1>31, <1>32, <1>33, <1>35 DEF ThreadStep
<1>39. Goal
  BY <1>36, <1>37, <1>38 DEF JobStep
<1> QED BY <1>39 DEF Goal

LEMMA TypeInvInit == Init => TypeInv
<1> SUFFICES ASSUME Init PROVE TypeInv
  OBVIOUS
<1> USE PoolAssumption
<1>1. LineInv
  BY LineInvInit
<1>2. lru \in Seq(Model)
  <2>1. Cardinality(Model) \in Nat
    BY FS_CardinalityType
  <2>2. lru \in SeqOf(Model, Cardinality(Model))
    BY DEF Init
  <2> QED BY <2>1, <2>2 DEF SeqOf
<1>3. \A m \in Model : <<m, 1>> \in Objects
  BY FirstObject
<1>4. ToSet(lru) \subseteq Model
  BY <1>2, Listed
<1>5. loaded \subseteq Objects
  BY <1>3, <1>4 DEF Init
<1>6. engines \in [Model -> Objects \cup {NONE}]
  BY <1>3 DEF Init
<1>7. PoolTyped /\ AbortTyped
  BY <1>2, <1>4, <1>6 DEF Init, PoolTyped, AbortTyped
<1>8. \A t \in Task : Sound(job[t])
  BY NoJobSound DEF Init
<1>9. ran \subseteq Task
  BY DEF Init
<1> QED BY <1>1, <1>5, <1>7, <1>8, <1>9 DEF TypeInv

LEMMA TypeInvKept == TypeInv /\ [Next]_vars => TypeInv'
<1> SUFFICES ASSUME TypeInv, [Next]_vars PROVE TypeInv'
  OBVIOUS
<1>0. LineInv'
  BY LineInvKept DEF TypeInv
<1>1. CASE UNCHANGED vars
  BY <1>0, <1>1 DEF TypeInv, PoolTyped, AbortTyped, vars, pool, abort
<1>2. ASSUME NEW t \in Task, (NewJob(t) /\ TakesTurn(t)) \/ JobStep(t) PROVE TypeInv'
  <2>1. Takes(t) /\ PoolTyped' /\ AbortTyped' /\ loaded' \subseteq Objects
    BY <1>2, TaskTyped
  <2>2. \A u \in Task : Sound(job'[u])
    <3>1. job = [u \in Task |-> job[u]]
      BY DEF TypeInv, LineInv, Shaped
    <3> QED BY <2>1, <3>1 DEF Takes, Become, TypeInv
  <2>3. ran' \subseteq Task
    <3>1. ran \subseteq Task
      BY DEF TypeInv
    <3> QED BY <1>2, <3>1 DEF TakesTurn, JobStep
  <2> QED BY <1>0, <2>1, <2>2, <2>3 DEF TypeInv
<1> QED BY <1>1, <1>2 DEF Next

\* The pool's variables hold what TypeOK says they hold, for any tasks, models
\* and jobs: among it that a job that loads, uses or frees an engine has one,
\* and that every gate a job goes to exists.
THEOREM TypeCorrect == Spec => []TypeOK
<1>1. TypeInv => TypeOK
  <2> SUFFICES ASSUME TypeInv PROVE TypeOK
    OBVIOUS
  <2>1. job \in [Task -> Job]
    <3>1. job = [u \in Task |-> job[u]]
      BY DEF TypeInv, LineInv, Shaped
    <3>2. \A u \in Task : job[u] \in Job
      BY DEF TypeInv, Sound
    <3> QED BY <3>1, <3>2
  <2>2. sems \in [Model -> Objects \cup {NONE}] /\ line \in [Objects -> Seq(Task)]
    BY DEF TypeInv, LineInv, Lines
  <2> QED BY <2>1, <2>2 DEF TypeInv, PoolTyped, AbortTyped, TypeOK
<1> QED BY <1>1, TypeInvInit, TypeInvKept, PTL DEF Spec
-----------------------------------------------------------------------------
(* One job at a time: the order it leaves the pool in. *)

\* No other task began a job yet.
Alone(t) == \A u \in Task \ {t} : job[u].pc = "none"

\* The loaded engine that is not registered, or not listed yet, because of job j,
\* the model it still lists, and the registered engine it has flagged.
Outside(j, e) == \/ j.pc = "free" /\ e = j.freed
                 \/ j.pc = "budget" /\ j.healing /\ e = j.eng
                 \/ j.pc = "loaded" /\ e = j.eng
Leaving(j, x) == j.pc \in {"unloaded", "idle_freed"} /\ x = j.m
Flagged(j, e) == /\ j.pc \in {"unload_gate", "unload", "unloaded", "idle_free", "idle_freed"}
                 /\ e = j.eng

\* But for those, the listed models are the loaded registered ones, no registered
\* engine is flagged, and what is loaded is registered.
Registry(j) ==
  /\ \A x \in Model :
       /\ engines[x] # NONE => engines[x] \in Object(x)
       /\ x \in ToSet(lru) <=> \/ /\ engines[x] # NONE /\ engines[x] \in loaded
                                  /\ ~Outside(j, engines[x])
                               \/ Leaving(j, x)
       /\ engines[x] \in unloading => Flagged(j, engines[x])
  /\ \A e \in loaded : Outside(j, e) \/ \E x \in Model : engines[x] = e

\* The active model is listed, but while all models are unloaded.
Points(j) == \/ active # NONE => active \in ToSet(lru)
             \/ j.pc \in {"all_reading", "all_rest"}
             \/ j.pc \in {"unload_gate", "unload", "unloaded"} /\ j.kind = "unload_all"

\* An unnamed request resolves, or a switch that evicted the active model will
\* see to it.
Resolves(j) ==
  ToSet(lru) # {} => \/ ResolveUnnamed # NONE
                     \/ /\ j.pc \in Making
                        /\ j.prior \in Model /\ j.prior # j.m /\ engines[j.prior] = NONE

\* What a switch knows of the model it loads and of the engine it reloads.
Loads(j) ==
  /\ j.pc \in Making \cup {"budget"} =>
       /\ j.m \notin ToSet(lru)
       /\ j.healing => /\ engines[j.m] = NONE /\ j.eng \in Object(j.m)
                       /\ j.eng \in loaded => Outside(j, j.eng)
  /\ j.pc \in Making => active \in {NONE, j.prior} /\ j.prior # j.m
  /\ j.pc \in {"load", "loaded", "not_loaded"} =>
       /\ j.eng \in Object(j.m) /\ engines[j.m] \in {NONE, j.eng}
       /\ j.eng \in unloading => j.healing
       /\ j.eng \in loaded <=> j.pc = "loaded"

\* Where an unload of all models is.
Visiting == {"all_wait", "all_reading", "all_rest", "unload_gate", "unload", "unloaded"}

\* What a job that uses or frees an engine knows of it.
Uses(j) ==
  /\ j.pc # "unload_wait"
  /\ j.pc \in {"recheck", "prepare", "queued", "lazy_load", "generate", "abandoned_load", "abandoned",
               "unload_gate", "unload", "idle_gate", "idle_free", "all_reading"} =>
       j.eng = engines[j.m] /\ j.eng \in loaded
  /\ j.pc \in {"unloaded", "idle_freed"} => j.eng = engines[j.m] /\ j.eng \notin loaded
  /\ j.pc \in {"all_wait", "all_reading", "all_rest"} => j.kind = "unload_all"
  /\ j.pc \in Visiting /\ j.kind = "unload_all" =>
       j.todo \subseteq {x \in Model : engines[x] # NONE} /\ j.kept = {}

Orderly(j) == Registry(j) /\ Points(j) /\ Resolves(j) /\ Loads(j) /\ Uses(j)

LoneInv(t) == TypeInv /\ Alone(t) /\ IsInjective(lru) /\ Orderly(job[t])

\* What a step of the task leaves.
Ordered(t) == IsInjective(lru)' /\ Orderly(job[t])'

LEMMA ObjectOf ==
  ASSUME NEW x \in Model, NEW e \in Object(x)
  PROVE  /\ e \in Objects /\ e # NONE
         /\ \A y \in Model : e \in Object(y) => x = y
BY PoolAssumption DEF Object, Objects

\* A task's job after its step.
LEMMA Became ==
  ASSUME TypeInv, NEW t \in Task, NEW n, Become(t, n)
  PROVE  job'[t] = n
BY DEF Become, TypeInv, LineInv, Shaped

\* The list through a removal, a touch and a load.
LEMMA Dropped ==
  ASSUME NEW t \in Task, LoneInv(t), NEW m, lru' = RemoveFirst(lru, m)
  PROVE  IsInjective(lru)' /\ ToSet(lru)' = ToSet(lru) \ {m}
BY WithoutModel DEF LoneInv, TypeInv, PoolTyped

LEMMA Touched ==
  ASSUME NEW t \in Task, LoneInv(t), NEW m \in Model, Touch(m)
  PROVE  IsInjective(lru)' /\ ToSet(lru)' = ToSet(lru) \cup {m}
<1> DEFINE r == RemoveFirst(lru, m)
<1>1. r \in Seq(Model) /\ IsInjective(r) /\ ToSet(r) = ToSet(lru) \ {m}
  BY WithoutModel DEF LoneInv, TypeInv, PoolTyped
<1>2. lru' = Append(r, m)
  BY DEF Touch
<1> HIDE DEF r
<1> QED BY <1>1, <1>2, WithModel

LEMMA Added ==
  ASSUME NEW t \in Task, LoneInv(t), NEW m \in Model, m \notin ToSet(lru), lru' = Append(lru, m)
  PROVE  IsInjective(lru)' /\ ToSet(lru)' = ToSet(lru) \cup {m}
BY WithModel DEF LoneInv, TypeInv, PoolTyped

LEMMA Unlisted ==
  ASSUME NEW t \in Task, LoneInv(t), lru' = lru
  PROVE  IsInjective(lru)' /\ ToSet(lru)' = ToSet(lru)
BY DEF LoneInv

\* The lone task pins an engine while it serves its request.
LEMMA LonePin ==
  ASSUME NEW t \in Task, Alone(t), NEW e,
         ~ (job[t].pc \in {"prepare", "queued", "lazy_load", "generate"} /\ job[t].eng = e)
  PROVE  Pins(e) = {}
BY DEF Alone, Pins

\* Where the job of a task has nothing outside the registry and no flag.
Plain == {"none", "done", "called", "gate", "recheck", "probe", "ladder", "wait_busy", "confirm",
          "freed", "load", "not_loaded", "prepare", "queued", "lazy_load", "generate",
          "abandoned_load", "abandoned", "unload_wait",
          "all_wait", "all_reading", "all_rest", "idle_gate"}

InOrder ==
  /\ \A x \in Model :
       /\ engines[x] # NONE => engines[x] \in Object(x)
       /\ x \in ToSet(lru) <=> engines[x] # NONE /\ engines[x] \in loaded
       /\ engines[x] \notin unloading
  /\ \A e \in loaded : \E x \in Model : engines[x] = e

LEMMA PlainIsInOrder ==
  ASSUME NEW j, j.pc \in Plain
  PROVE  Registry(j) <=> InOrder
BY DEF Registry, InOrder, Plain, Outside, Leaving, Flagged

\* Nothing was done to the pool.
LEMMA Undone ==
  ASSUME UNCHANGED <<engines, unloading, loaded>>, ToSet(lru)' = ToSet(lru), InOrder
  PROVE  InOrder'
BY DEF InOrder

LEMMA DoneIsOrderly ==
  ASSUME NEW t \in Task, LoneInv(t), Become(t, Done),
         IsInjective(lru)', InOrder',
         (active # NONE => active \in ToSet(lru))',
         (ToSet(lru) # {} => ResolveUnnamed # NONE)'
  PROVE  Ordered(t)
<1>1. job'[t] = Done
  BY Became DEF LoneInv
<1>2. job'[t].pc = "done" /\ job'[t].kind = NONE
  BY <1>1 DEF Done, NoJob
<1>3. Registry(job[t])'
  BY <1>2 DEF Registry, InOrder, Outside, Leaving, Flagged
<1>4. Points(job[t])' /\ Resolves(job[t])'
  BY DEF Points, Resolves
<1>5. Loads(job[t])'
  BY <1>2 DEF Loads, Making
<1>6. Uses(job[t])'
  BY <1>2 DEF Uses, Visiting
<1> QED BY <1>3, <1>4, <1>5, <1>6 DEF Ordered, Orderly

\* A switch that gives up: it remembers the active model it evicted.
LEMMA GiveUpOrdered ==
  ASSUME NEW t \in Task, LoneInv(t), job[t].pc \in Plain \cap Making,
         GiveUp(t), UNCHANGED loaded
  PROVE  Ordered(t)
<1> DEFINE j == job[t]
<1>1. Orderly(j) /\ InOrder
  BY PlainIsInOrder DEF LoneInv, Orderly
<1>2. /\ Become(t, Done)
      /\ UNCHANGED <<engines, lru, active, unloading, loaded>>
      /\ last' = IF /\ j.prior # NONE /\ j.prior # j.m
                    /\ active = NONE /\ last = NONE /\ engines[j.prior] = NONE
                   THEN j.prior ELSE last
  BY DEF GiveUp
<1>3. IsInjective(lru)' /\ ToSet(lru)' = ToSet(lru)
  BY <1>2, Unlisted
<1>4. InOrder'
  BY <1>1, <1>2, <1>3, Undone
<1>5. (active # NONE => active \in ToSet(lru))'
  <2>1. active # NONE => active \in ToSet(lru)
    BY <1>1 DEF Orderly, Points, Making
  <2> QED BY <1>2, <1>3, <2>1
<1>6. (ToSet(lru) # {} => ResolveUnnamed # NONE)'
  <2>1. NONE \notin Model
    BY PoolAssumption
  <2> QED BY <1>1, <1>2, <1>3, <2>1 DEF Orderly, Resolves, ResolveUnnamed
<1> QED BY <1>2, <1>3, <1>4, <1>5, <1>6, DoneIsOrderly

\* A switch goes on with its load, and the pool is as it was.
LEMMA ProbesOn ==
  ASSUME NEW t \in Task, LoneInv(t), job[t].pc \in Making \cap Plain,
         job'[t].pc \in {"probe", "ladder", "wait_busy", "confirm"},
         job'[t].m = job[t].m, job'[t].eng = job[t].eng, job'[t].prior = job[t].prior,
         job'[t].healing <=> job[t].healing,
         UNCHANGED <<engines, lru, active, last, unloading, loaded>>
  PROVE  Ordered(t)
<1>1. Orderly(job[t]) /\ InOrder
  BY PlainIsInOrder DEF LoneInv, Orderly
<1>2. IsInjective(lru)' /\ ToSet(lru)' = ToSet(lru)
  BY Unlisted
<1>3. InOrder'
  BY <1>1, <1>2, Undone
<1>4. Registry(job[t])'
  BY <1>3 DEF Registry, InOrder, Outside, Leaving, Flagged
<1>5. Points(job[t])'
  BY <1>1, <1>2 DEF Orderly, Points, Making
<1>6. Resolves(job[t])'
  BY <1>1, <1>2 DEF Orderly, Resolves, ResolveUnnamed, Making
<1>7. Loads(job[t])'
  BY <1>1, <1>2 DEF Orderly, Loads, Making, Outside, Plain
<1>8. Uses(job[t])'
  BY DEF Uses, Visiting
<1> QED BY <1>2, <1>4, <1>5, <1>6, <1>7, <1>8 DEF Ordered, Orderly

\* The engine of a model is taken out, for its load to be freed.
LEMMA DetachOrdered ==
  ASSUME NEW t \in Task, LoneInv(t), InOrder, NEW v \in Model, NEW act, NEW keep, engines[v] # NONE,
         Detach(v, engines[v], act, keep), UNCHANGED loaded
  PROVE  /\ IsInjective(lru)' /\ ToSet(lru)' = ToSet(lru) \ {v}
         /\ engines'[v] = NONE /\ \A x \in Model : x # v => engines'[x] = engines[x]
         /\ engines[v] \in Object(v)
         /\ \A x \in Model :
              /\ engines'[x] # NONE => engines'[x] \in Object(x)
              /\ x \in ToSet(lru)' <=> engines'[x] # NONE /\ engines'[x] \in loaded
              /\ engines'[x] \notin unloading'
         /\ \A e \in loaded : e = engines[v] \/ \E x \in Model : engines'[x] = e
<1> DEFINE e == engines[v]
<1>1. IsInjective(lru)' /\ ToSet(lru)' = ToSet(lru) \ {v}
  BY Dropped DEF Detach
<1>2. engines'[v] = NONE /\ \A x \in Model : x # v => engines'[x] = engines[x]
  BY DEF Detach, LoneInv, TypeInv, PoolTyped
<1>3. e \in Object(v) /\ unloading' = unloading \cup {e}
  BY DEF InOrder, Detach
<1>4. NONE \notin unloading' /\ NONE \notin loaded
  <2>1. unloading \subseteq Objects /\ loaded \subseteq Objects /\ NONE \notin Objects
    BY PoolAssumption DEF LoneInv, TypeInv, PoolTyped, Objects
  <2> QED BY <1>3, <2>1
<1>5. \A x \in Model : x # v => engines[x] # e
  BY <1>3, ObjectOf DEF InOrder
<1>6. ASSUME NEW x \in Model
      PROVE  /\ engines'[x] # NONE => engines'[x] \in Object(x)
             /\ x \in ToSet(lru)' <=> engines'[x] # NONE /\ engines'[x] \in loaded
             /\ engines'[x] \notin unloading'
  BY <1>1, <1>2, <1>3, <1>4, <1>5 DEF InOrder
<1>7. ASSUME NEW o \in loaded PROVE o = e \/ \E x \in Model : engines'[x] = o
  BY <1>2 DEF InOrder
<1> QED BY <1>1, <1>2, <1>3, <1>6, <1>7

\* A model is evicted, or its switch probes again.
LEMMA EvictOrdered ==
  ASSUME NEW t \in Task, LoneInv(t), job[t].pc \in {"probe", "ladder", "wait_busy", "confirm"},
         NEW j, j.m = job[t].m, j.eng = job[t].eng, j.healing = job[t].healing,
         j.prior = job[t].prior, Sound(j),
         NEW v \in Model, NEW f, TryEvict(t, j, v, f), UNCHANGED loaded
  PROVE  Ordered(t)
<1> DEFINE e == engines[v]
<1>1. Orderly(job[t]) /\ InOrder /\ NONE \notin Model
  BY PlainIsInOrder, PoolAssumption DEF LoneInv, Orderly, Plain
<1>2. /\ active # NONE => active \in ToSet(lru)
      /\ active \in {NONE, j.prior} /\ j.prior # j.m
      /\ j.m \notin ToSet(lru)
      /\ j.healing => engines[j.m] = NONE /\ j.eng \in Object(j.m) /\ j.eng \notin loaded
      /\ ToSet(lru) # {} => \/ ResolveUnnamed # NONE
                            \/ j.prior \in Model /\ engines[j.prior] = NONE
  BY <1>1 DEF Orderly, Points, Loads, Resolves, Making, Outside
<1>3. CASE e # NONE /\ Detach(v, e, j.activate, FALSE)
           /\ Become(t, [j EXCEPT !.pc = "free", !.victim = v, !.freed = e])
  <2> DEFINE n == [j EXCEPT !.pc = "free", !.victim = v, !.freed = e]
  <2>1. job'[t] = n
    BY <1>3, Became DEF LoneInv
  <2>2. /\ n.pc = "free" /\ n.freed = e /\ n.m = j.m /\ n.eng = j.eng
        /\ n.prior = j.prior /\ (n.healing <=> j.healing)
    BY DEF Sound, Job
  <2>3. /\ job'[t].pc = "free" /\ job'[t].freed = e /\ job'[t].m = j.m /\ job'[t].eng = j.eng
        /\ job'[t].prior = j.prior /\ (job'[t].healing <=> j.healing)
    BY <2>1, <2>2
  <2> HIDE DEF n
  <2>4. /\ IsInjective(lru)' /\ ToSet(lru)' = ToSet(lru) \ {v}
        /\ engines'[v] = NONE /\ \A x \in Model : x # v => engines'[x] = engines[x]
        /\ e \in Object(v)
        /\ \A x \in Model :
              /\ engines'[x] # NONE => engines'[x] \in Object(x)
              /\ x \in ToSet(lru)' <=> engines'[x] # NONE /\ engines'[x] \in loaded
              /\ engines'[x] \notin unloading'
        /\ \A o \in loaded : o = e \/ \E x \in Model : engines'[x] = o
    BY <1>1, <1>3, DetachOrdered
  <2>5. active' = (IF active = v THEN NONE ELSE active)
        /\ last' = (IF active = v /\ ~j.activate THEN v ELSE last)
    BY <1>3 DEF Detach
  <2>6. \A x \in Model : engines'[x] # e
    BY <2>4, ObjectOf
  <2> HIDE DEF e
  <2>7. Registry(job[t])'
    BY <2>3, <2>4, <2>6 DEF Registry, Outside, Leaving, Flagged
  <2>8. Points(job[t])'
    BY <1>2, <2>4, <2>5 DEF Points
  <2>9. Resolves(job[t])'
    <3>1. CASE active = v
      BY <3>1, <1>1, <1>2, <2>3, <2>4, <2>5 DEF Resolves, ResolveUnnamed, Making
    <3>2. CASE active # v
      BY <3>2, <1>1, <1>2, <2>3, <2>4, <2>5 DEF Resolves, ResolveUnnamed, Making
    <3> QED BY <3>1, <3>2
  <2>10. Loads(job[t])'
    <3>1. j.m \in Model
      BY <1>2, PoolAssumption DEF LoneInv, TypeInv, LineInv, Named
    <3> QED BY <3>1, <1>2, <2>3, <2>4, <2>5 DEF Loads, Making, Outside
  <2>11. Uses(job[t])'
    BY <2>3 DEF Uses, Visiting
  <2> QED BY <2>4, <2>7, <2>8, <2>9, <2>10, <2>11 DEF Ordered, Orderly
<1>4. CASE Become(t, [j EXCEPT !.pc = "probe", !.victim = NONE, !.freed = NONE]) /\ UNCHANGED pool
  <2> DEFINE n == [j EXCEPT !.pc = "probe", !.victim = NONE, !.freed = NONE]
  <2>1. job'[t] = n
    BY <1>4, Became DEF LoneInv
  <2>2. /\ n.pc = "probe" /\ n.m = j.m /\ n.eng = j.eng
        /\ n.prior = j.prior /\ (n.healing <=> j.healing)
    BY DEF Sound, Job
  <2>3. /\ job'[t].pc = "probe" /\ job'[t].m = j.m /\ job'[t].eng = j.eng
        /\ job'[t].prior = j.prior /\ (job'[t].healing <=> j.healing)
    BY <2>1, <2>2
  <2> HIDE DEF n
  <2> QED BY <1>4, <2>3, ProbesOn DEF pool, Making, Plain
<1> QED BY <1>3, <1>4 DEF TryEvict

\* What a task that serves a request has, when its engine is the registered one.
LEMMA PinnedOrdered ==
  ASSUME NEW t \in Task, LoneInv(t), NEW j, NEW e, e \in loaded, job'[t] = AfterSwitch(j, e),
         e = engines'[j.m], loaded' = loaded,
         IsInjective(lru)', InOrder',
         (active # NONE => active \in ToSet(lru))',
         (ToSet(lru) # {} => ResolveUnnamed # NONE)'
  PROVE  Ordered(t)
<1>1. CASE j.kind = "request"
  <2>1. job'[t] = PinnedRequest(j, e)
    BY <1>1 DEF AfterSwitch
  <2>2. /\ job'[t].pc = "prepare" /\ job'[t].m = j.m /\ job'[t].eng = e
        /\ job'[t].kind = "request"
    BY <2>1 DEF PinnedRequest, NoJob
  <2>3. Registry(job[t])'
    BY <2>2 DEF Registry, InOrder, Outside, Leaving, Flagged
  <2>4. Points(job[t])' /\ Resolves(job[t])'
    BY DEF Points, Resolves
  <2>5. Loads(job[t])'
    BY <2>2 DEF Loads, Making
  <2>6. Uses(job[t])'
    BY <2>2 DEF Uses, Visiting
  <2> QED BY <2>3, <2>4, <2>5, <2>6 DEF Ordered, Orderly
<1>2. CASE j.kind # "request"
  <2>1. job'[t] = Done
    BY <1>2 DEF AfterSwitch
  <2>2. job'[t].pc = "done" /\ job'[t].kind = NONE
    BY <2>1 DEF Done, NoJob
  <2>3. Registry(job[t])'
    BY <2>2 DEF Registry, InOrder, Outside, Leaving, Flagged
  <2>4. Points(job[t])' /\ Resolves(job[t])'
    BY DEF Points, Resolves
  <2>5. Loads(job[t])'
    BY <2>2 DEF Loads, Making
  <2>6. Uses(job[t])'
    BY <2>2 DEF Uses, Visiting
  <2> QED BY <2>3, <2>4, <2>5, <2>6 DEF Ordered, Orderly
<1> QED BY <1>1, <1>2

\* The pool is in order where a request or a switch begins.
Beginning == {"none", "called", "gate", "recheck", "prepare", "queued", "lazy_load", "generate",
              "abandoned_load", "abandoned", "unload_wait", "all_wait", "idle_gate"}

LEMMA BeginsInOrder ==
  ASSUME NEW t \in Task, LoneInv(t), job[t].pc \in Beginning
  PROVE  /\ InOrder /\ (active # NONE => active \in ToSet(lru))
         /\ ToSet(lru) # {} => ResolveUnnamed # NONE
         /\ ToSet(lru) \subseteq Model /\ NONE \notin Model
<1>1. Orderly(job[t]) /\ InOrder
  BY PlainIsInOrder DEF LoneInv, Orderly, Beginning, Plain
<1>2. ToSet(lru) \subseteq Model /\ NONE \notin Model
  BY Listed, PoolAssumption DEF LoneInv, TypeInv, PoolTyped
<1> QED BY <1>1, <1>2 DEF Orderly, Points, Resolves, Beginning, Making

LEMMA ReuseOrdered ==
  ASSUME NEW t \in Task, LoneInv(t), job[t].pc \in Beginning, NEW j, j.m \in Model, NEW l,
         Reusable(engines[j.m]), Reuse(t, j, l), UNCHANGED loaded
  PROVE  Ordered(t)
<1>1. /\ InOrder /\ (active # NONE => active \in ToSet(lru))
      /\ ToSet(lru) # {} => ResolveUnnamed # NONE
      /\ ToSet(lru) \subseteq Model /\ NONE \notin Model
  BY BeginsInOrder
<1>2. j.m \in ToSet(lru) /\ engines[j.m] \in loaded
  BY <1>1 DEF InOrder, Reusable
<1>3. IsInjective(lru)' /\ ToSet(lru)' = ToSet(lru)
  BY <1>2, Touched DEF Reuse
<1>4. /\ UNCHANGED <<engines, unloading>>
      /\ (active' = j.m /\ last' = NONE) \/ UNCHANGED <<active, last>>
      /\ Become(t, AfterSwitch(j, engines[j.m]))
  BY DEF Reuse
<1>5. InOrder'
  BY <1>1, <1>3, <1>4, Undone
<1>6. (active # NONE => active \in ToSet(lru))'
  BY <1>1, <1>2, <1>3, <1>4
<1>7. (ToSet(lru) # {} => ResolveUnnamed # NONE)'
  BY <1>1, <1>2, <1>3, <1>4 DEF ResolveUnnamed
<1>8. job'[t] = AfterSwitch(j, engines[j.m])
  BY <1>4, Became DEF LoneInv
<1> QED BY <1>2, <1>3, <1>4, <1>5, <1>6, <1>7, <1>8, PinnedOrdered

\* A step of a job that begins, which leaves the pool as it is.
LEMMA BeginsOn ==
  ASSUME NEW t \in Task, LoneInv(t), job[t].pc \in Beginning,
         UNCHANGED <<engines, lru, active, last, unloading, loaded>>,
         job'[t].pc \in Beginning \cup {"done", "budget"},
         Loads(job[t])', Uses(job[t])',
         job'[t].pc = "budget" => ~job'[t].healing
  PROVE  Ordered(t)
<1>1. /\ InOrder /\ (active # NONE => active \in ToSet(lru))
      /\ ToSet(lru) # {} => ResolveUnnamed # NONE
  BY BeginsInOrder
<1>2. IsInjective(lru)' /\ ToSet(lru)' = ToSet(lru)
  BY Unlisted
<1>3. InOrder'
  BY <1>1, <1>2, Undone
<1>4. Registry(job[t])'
  BY <1>3 DEF Registry, InOrder, Outside, Leaving, Flagged, Beginning
<1>5. Points(job[t])' /\ Resolves(job[t])'
  BY <1>1, <1>2 DEF Points, Resolves, ResolveUnnamed
<1> QED BY <1>2, <1>4, <1>5 DEF Ordered, Orderly

LEMMA EnterOrdered ==
  ASSUME NEW t \in Task, LoneInv(t), job[t].pc \in {"called", "gate"},
         NEW j, j.pc = "gate", Sound(j), j.m \in Model, NEW l, NEW want,
         EnterSwitch(t, j, l, want), UNCHANGED loaded
  PROVE  Ordered(t)
<1>1. job[t].pc \in Beginning /\ InOrder /\ ~j.healing
  BY BeginsInOrder DEF Beginning, Sound, Making
<1>2. CASE Reuse(t, j, l) /\ Reusable(engines[j.m])
  BY <1>1, <1>2, ReuseOrdered
<1>3. CASE Become(t, Done) /\ UNCHANGED <<engines, lru, active, last, unloading, evicting>>
  <2>1. job'[t] = Done
    BY <1>3, Became DEF LoneInv
  <2>2. job'[t].pc = "done" /\ job'[t].kind = NONE
    BY <2>1 DEF Done, NoJob
  <2>3. Loads(job[t])' /\ Uses(job[t])'
    BY <2>2 DEF Loads, Uses, Making, Visiting
  <2> QED BY <1>1, <1>3, <2>2, <2>3, BeginsOn
<1>4. CASE /\ Reusable(engines[j.m])
           /\ Become(t, [j EXCEPT !.pc = "recheck", !.eng = engines[j.m]])
           /\ UNCHANGED <<engines, lru, active, last, unloading, evicting>>
  <2>1. job'[t] = [j EXCEPT !.pc = "recheck", !.eng = engines[j.m]]
    BY <1>4, Became DEF LoneInv
  <2>2. job'[t].pc = "recheck" /\ job'[t].m = j.m /\ job'[t].eng = engines[j.m]
    BY <2>1 DEF Sound, Job
  <2>3. Loads(job[t])' /\ Uses(job[t])'
    BY <1>4, <2>2 DEF Loads, Uses, Making, Visiting, Reusable
  <2> QED BY <1>1, <1>4, <2>2, <2>3, BeginsOn DEF Beginning
<1>5. CASE /\ ~Reusable(engines[j.m])
           /\ Become(t, [j EXCEPT !.pc = "budget"])
           /\ UNCHANGED <<engines, lru, active, last, unloading, evicting>>
  <2>1. job'[t] = [j EXCEPT !.pc = "budget"]
    BY <1>5, Became DEF LoneInv
  <2>2. job'[t].pc = "budget" /\ job'[t].m = j.m /\ ~job'[t].healing
    BY <1>1, <2>1 DEF Sound, Job
  <2>3. j.m \notin ToSet(lru)
    BY <1>1, <1>5 DEF Reusable, InOrder
  <2>4. Loads(job[t])' /\ Uses(job[t])'
    BY <1>5, <2>2, <2>3 DEF Loads, Uses, Making, Visiting, Outside
  <2> QED BY <1>1, <1>5, <2>2, <2>4, BeginsOn DEF Beginning
<1> QED BY <1>2, <1>3, <1>4, <1>5 DEF EnterSwitch

LEMMA LoadOrdered ==
  ASSUME NEW t \in Task, LoneInv(t), job[t].pc \in {"probe", "ladder"}, BeginLoad(t, job[t]),
         UNCHANGED loaded
  PROVE  Ordered(t)
<1> DEFINE j == job[t]
           e == IF j.healing THEN j.eng
                ELSE IF engines[j.m] # NONE THEN engines[j.m]
                ELSE AnyOf(NewEngine(j.m))
           n == [j EXCEPT !.pc = "load", !.eng = e, !.victim = NONE, !.freed = NONE]
<1>1. CASE GiveUp(t)
  BY <1>1, GiveUpOrdered DEF Plain, Making
<1>2. CASE ~GiveUp(t)
  <2>1. /\ j.healing \/ engines[j.m] # NONE \/ NewEngine(j.m) # {}
        /\ Become(t, n)
        /\ unloading' = IF ~j.healing /\ engines[j.m] = NONE THEN unloading \ {e} ELSE unloading
        /\ UNCHANGED <<engines, lru, active, last>>
    BY <1>2 DEF BeginLoad
  <2>2. Orderly(j) /\ InOrder /\ Sound(j) /\ j.m \in Model /\ NONE \notin Model
    BY PlainIsInOrder, PoolAssumption DEF LoneInv, Orderly, Plain, TypeInv, LineInv, Named
  <2>3. /\ j.m \notin ToSet(lru) /\ active \in {NONE, j.prior} /\ j.prior # j.m
        /\ j.healing => engines[j.m] = NONE /\ j.eng \in Object(j.m) /\ j.eng \notin loaded
        /\ active # NONE => active \in ToSet(lru)
        /\ ToSet(lru) # {} => \/ ResolveUnnamed # NONE
                              \/ j.prior \in Model /\ engines[j.prior] = NONE
    BY <2>2 DEF Orderly, Loads, Points, Resolves, Making, Outside
  <2>4. /\ e \in Object(j.m) /\ e \notin loaded /\ engines[j.m] \in {NONE, e}
        /\ e \in unloading' => j.healing
    <3>1. CASE j.healing
      BY <3>1, <2>3
    <3>2. CASE ~j.healing /\ engines[j.m] # NONE
      BY <3>2, <2>1, <2>2, <2>3 DEF InOrder
    <3>3. CASE ~j.healing /\ engines[j.m] = NONE
      BY <3>3, <2>1 DEF NewEngine, AnyOf
    <3> QED BY <3>1, <3>2, <3>3
  <2>5. job'[t] = n
    BY <2>1, Became DEF LoneInv
  <2> HIDE DEF e
  <2>6. /\ job'[t].pc = "load" /\ job'[t].eng = e /\ job'[t].m = j.m
        /\ job'[t].prior = j.prior /\ (job'[t].healing <=> j.healing)
    BY <2>2, <2>5 DEF Sound, Job
  <2>7. IsInjective(lru)' /\ ToSet(lru)' = ToSet(lru)
    BY <2>1, Unlisted
  <2>8. InOrder'
    BY <2>1, <2>2, <2>7 DEF InOrder
  <2>9. Registry(job[t])'
    BY <2>6, <2>8 DEF Registry, InOrder, Outside, Leaving, Flagged
  <2>10. Points(job[t])'
    BY <2>1, <2>3, <2>7 DEF Points
  <2>11. Resolves(job[t])'
    BY <2>1, <2>3, <2>6, <2>7 DEF Resolves, ResolveUnnamed, Making
  <2>12. Loads(job[t])'
    BY <2>1, <2>3, <2>4, <2>6, <2>7 DEF Loads, Making, Outside
  <2>13. Uses(job[t])'
    BY <2>6 DEF Uses, Visiting
  <2> QED BY <2>7, <2>9, <2>10, <2>11, <2>12, <2>13 DEF Ordered, Orderly
<1> QED BY <1>1, <1>2

\* The pool is in order, with the list a step leaves and these flags.
OrderWith(u) ==
  /\ IsInjective(lru)'
  /\ \A x \in Model :
       /\ engines[x] # NONE => engines[x] \in Object(x)
       /\ x \in ToSet(lru)' <=> engines[x] # NONE /\ engines[x] \in loaded
       /\ engines[x] \notin u
  /\ \A e \in loaded : \E x \in Model : engines[x] = e
  /\ ToSet(lru)' # {} => ResolveUnnamed # NONE

LEMMA OrderNow ==
  ASSUME NEW t \in Task, LoneInv(t), job[t].pc \in Beginning \cup {"all_reading"}, lru' = lru
  PROVE  OrderWith(unloading)
<1>1. Orderly(job[t]) /\ InOrder
  BY PlainIsInOrder DEF LoneInv, Orderly, Beginning, Plain
<1>2. ToSet(lru) # {} => ResolveUnnamed # NONE
  BY <1>1 DEF Orderly, Resolves, Beginning, Making
<1>3. IsInjective(lru)' /\ ToSet(lru)' = ToSet(lru)
  BY Unlisted
<1> QED BY <1>1, <1>2, <1>3 DEF OrderWith, InOrder

\* After a free of an unload: the list and the flag are in order again.
LEMMA OrderAfterFree ==
  ASSUME NEW t \in Task, LoneInv(t), job[t].pc \in {"unloaded", "idle_freed"},
         lru' = RemoveFirst(lru, job[t].m)
  PROVE  /\ OrderWith(unloading \ {job[t].eng})
         /\ ToSet(lru)' = ToSet(lru) \ {job[t].m}
         /\ ToSet(lru) # {} => ResolveUnnamed # NONE
<1> DEFINE j == job[t]
<1>1. IsInjective(lru)' /\ ToSet(lru)' = ToSet(lru) \ {j.m}
  BY Dropped
<1>2. Orderly(j) /\ j.m \in Model
  BY DEF LoneInv, TypeInv, LineInv, Named
<1>3. j.eng = engines[j.m] /\ j.eng \notin loaded
  BY <1>2 DEF Orderly, Uses
<1>4. ToSet(lru) # {} => ResolveUnnamed # NONE
  BY <1>2 DEF Orderly, Resolves, Making
<1>5. ASSUME NEW x \in Model
      PROVE  /\ engines[x] # NONE => engines[x] \in Object(x)
             /\ x \in ToSet(lru)' <=> engines[x] # NONE /\ engines[x] \in loaded
             /\ engines[x] \notin unloading \ {j.eng}
  BY <1>1, <1>2, <1>3 DEF Orderly, Registry, Outside, Leaving, Flagged
<1>6. \A e \in loaded : \E x \in Model : engines[x] = e
  BY <1>2 DEF Orderly, Registry, Outside
<1> QED BY <1>1, <1>4, <1>5, <1>6 DEF OrderWith

LEMMA MarkOrdered ==
  ASSUME NEW t \in Task, LoneInv(t), NEW j, Sound(j), j.m \in Model,
         j.eng = engines[j.m], j.eng \in loaded,
         NEW l, NEW u, OrderWith(u), MarkAndQueue(t, j, l, u), UNCHANGED loaded,
         (active # NONE => active \in ToSet(lru)') \/ j.kind = "unload_all",
         j.kind = "unload_all" => j.todo \subseteq {x \in Model : engines[x] # NONE} /\ j.kept = {}
  PROVE  Ordered(t)
<1> DEFINE g == GateOf(j.m)
           p == IF Head(JoinIn(l, t, g)[g]) = t THEN "unload" ELSE "unload_gate"
           n == [[j EXCEPT !.gate = g] EXCEPT !.pc = p]
<1>1. /\ Become(t, n) /\ unloading' = u \cup {j.eng} /\ UNCHANGED <<engines, active, last>>
  BY DEF MarkAndQueue, Sound, Job
<1>2. job'[t] = n /\ p \in {"unload", "unload_gate"}
  BY <1>1, Became DEF LoneInv
<1> HIDE DEF g, p
<1>3. /\ n.pc = p /\ n.m = j.m /\ n.eng = j.eng /\ n.kind = j.kind
      /\ n.todo = j.todo /\ n.kept = j.kept
  BY DEF Sound, Job
<1>4. /\ job'[t].pc \in {"unload", "unload_gate"} /\ job'[t].m = j.m /\ job'[t].eng = j.eng
      /\ job'[t].kind = j.kind /\ job'[t].todo = j.todo /\ job'[t].kept = j.kept
  BY <1>2, <1>3
<1> HIDE DEF n
<1>5. Registry(job[t])'
  <2>1. j.eng # NONE
    <3>1. j.eng \in Objects /\ NONE \notin Objects
      BY PoolAssumption DEF Objects, LoneInv, TypeInv
    <3> QED BY <3>1
  <2>2. \A x \in Model : engines[x] = j.eng => x = j.m
    BY <2>1, ObjectOf DEF OrderWith
  <2> QED BY <1>1, <1>4, <2>2 DEF OrderWith, Registry, Outside, Leaving, Flagged
<1>6. Points(job[t])'
  BY <1>1, <1>4 DEF Points
<1>7. Resolves(job[t])'
  BY <1>1 DEF OrderWith, Resolves, ResolveUnnamed
<1>8. Loads(job[t])'
  BY <1>4 DEF Loads, Making
<1>9. Uses(job[t])'
  BY <1>1, <1>4 DEF Uses, Visiting
<1> QED BY <1>5, <1>6, <1>7, <1>8, <1>9 DEF Ordered, Orderly, OrderWith

\* A step after which the pool is in order, and the task visits the engines.
LEMMA VisitsOn ==
  ASSUME NEW t \in Task, LoneInv(t), NEW u, OrderWith(u), unloading' = u,
         UNCHANGED <<engines, active, last, loaded>>,
         job'[t].pc \in {"all_reading", "all_rest"}, Uses(job[t])'
  PROVE  Ordered(t)
<1>1. Registry(job[t])'
  BY DEF OrderWith, Registry, Outside, Leaving, Flagged
<1>2. Points(job[t])' /\ Resolves(job[t])'
  BY DEF OrderWith, Points, Resolves, ResolveUnnamed
<1>3. Loads(job[t])'
  BY DEF Loads, Making
<1> QED BY <1>1, <1>2, <1>3 DEF Ordered, Orderly, OrderWith

LEMMA WalkOrdered ==
  ASSUME NEW t \in Task, LoneInv(t),
         job[t].pc \notin {"prepare", "queued", "lazy_load", "generate"},
         NEW j, Sound(j), j.kind = "unload_all", j.pc \in {"none", "all_wait", "unloaded"},
         j.todo \subseteq {x \in Model : engines[x] # NONE}, j.kept = {},
         NEW l, NEW u, OrderWith(u), Walk(t, j, l, u), UNCHANGED loaded
  PROVE  Ordered(t)
<1>1. PICK S \in SUBSET j.todo : Walk(t, j, l, u)!(S)
  BY DEF Walk
<1> DEFINE k == [j EXCEPT !.todo = @ \ S,
                          !.kept = @ \cup {m \in S : engines[m] \in loaded}]
           Visit(m) == [k EXCEPT !.todo = @ \ {m}, !.m = m, !.eng = engines[m]]
<1>2. \A e : ~InUse(e)
  BY LonePin DEF InUse, LoneInv
<1>3. {m \in S : engines[m] \in loaded} = {}
  BY <1>1, <1>2
<1>4. /\ k.kind = "unload_all" /\ k.kept = {} /\ k \in Job
      /\ k.todo \subseteq {x \in Model : engines[x] # NONE}
  <2>1. j \in Job
    BY DEF Sound
  <2> DEFINE left == {m \in S : engines[m] \in loaded}
  <2>2. left = {} /\ k = [j EXCEPT !.todo = @ \ S, !.kept = @ \cup left]
    BY <1>3
  <2> HIDE DEF k, left
  <2> QED BY <2>1, <2>2 DEF Job
<1> HIDE DEF k
<1>5. CASE /\ Become(t, [k EXCEPT !.pc = "all_rest", !.m = NONE, !.eng = NONE, !.gate = NONE])
           /\ unloading' = u /\ UNCHANGED <<engines, active, last>>
  <2>1. job'[t] = [k EXCEPT !.pc = "all_rest", !.m = NONE, !.eng = NONE, !.gate = NONE]
    BY <1>5, Became DEF LoneInv
  <2>2. /\ job'[t].pc = "all_rest" /\ job'[t].kind = "unload_all" /\ job'[t].kept = {}
        /\ job'[t].todo = k.todo
    BY <1>4, <2>1 DEF Job
  <2>3. Uses(job[t])'
    BY <1>4, <1>5, <2>2 DEF Uses, Visiting
  <2> QED BY <1>5, <2>2, <2>3, VisitsOn
<1>6. ASSUME NEW m \in k.todo, engines[m] \in loaded, unloading' = u,
             Become(t, [Visit(m) EXCEPT !.pc = "all_reading", !.tried = TRUE, !.gate = NONE]),
             UNCHANGED <<engines, active, last>>
      PROVE  Ordered(t)
  <2>1. job'[t] = [Visit(m) EXCEPT !.pc = "all_reading", !.tried = TRUE, !.gate = NONE]
    BY <1>6, Became DEF LoneInv
  <2>2. /\ job'[t].pc = "all_reading" /\ job'[t].kind = "unload_all" /\ job'[t].kept = {}
        /\ job'[t].todo = k.todo \ {m} /\ job'[t].m = m /\ job'[t].eng = engines[m]
    BY <1>4, <2>1 DEF Job
  <2>3. Uses(job[t])'
    BY <1>4, <1>6, <2>2 DEF Uses, Visiting
  <2> QED BY <1>6, <2>2, <2>3, VisitsOn
<1>7. ASSUME NEW m \in k.todo, engines[m] \in loaded, MarkAndQueue(t, Visit(m), l, u)
      PROVE  Ordered(t)
  <2> DEFINE n == Visit(m)
  <2>1. m \in Model /\ engines[m] \in Objects
    BY <1>4, <1>7 DEF LoneInv, TypeInv
  <2>2. /\ n \in Job /\ n.kind = "unload_all" /\ n.kept = {} /\ n.todo = k.todo \ {m}
        /\ n.m = m /\ n.eng = engines[m]
    BY <1>4, <2>1 DEF Job
  <2>3. k.pc = j.pc /\ ~k.healing
    BY DEF Sound, Job, Making, k
  <2>4. n.pc = j.pc /\ ~n.healing
    BY <1>4, <2>3 DEF Job
  <2> HIDE DEF n
  <2>5. Sound(n)
    BY <2>1, <2>2, <2>4 DEF Sound, Holding
  <2> QED BY <1>7, <2>1, <2>2, <2>5, MarkOrdered, <1>4 DEF n
<1>8. ASSUME NEW m \in k.todo, engines[m] = NONE PROVE FALSE
  BY <1>4, <1>8
<1> QED BY <1>1, <1>5, <1>6, <1>7, <1>8 DEF k

\* An engine is registered for its own model only.
LEMMA OneOwner ==
  ASSUME \A x \in Model : engines[x] # NONE => engines[x] \in Object(x),
         NEW m \in Model, NEW e \in Object(m)
  PROVE  \A x \in Model : engines[x] = e => x = m
<1>1. e # NONE
  BY ObjectOf
<1>2. \A x \in Model : e \in Object(x) => x = m
  BY ObjectOf
<1> QED BY <1>1, <1>2

\* A job that unloads an idle model has flagged its engine.
LEMMA IdleOrdered ==
  ASSUME NEW t \in Task, LoneInv(t), job[t].pc \in Beginning,
         NEW m \in Model, engines[m] # NONE, engines[m] \in loaded,
         job'[t].pc = "idle_free", job'[t].m = m, job'[t].eng = engines[m],
         unloading' = unloading \cup {engines[m]},
         UNCHANGED <<engines, lru, active, last, loaded>>
  PROVE  Ordered(t)
<1>1. /\ InOrder /\ (active # NONE => active \in ToSet(lru))
      /\ ToSet(lru) # {} => ResolveUnnamed # NONE
  BY BeginsInOrder
<1>2. IsInjective(lru)' /\ ToSet(lru)' = ToSet(lru)
  BY Unlisted
<1>3. Registry(job[t])'
  <2>1. \A x \in Model : engines[x] = engines[m] => x = m
    BY <1>1, OneOwner DEF InOrder
  <2> QED BY <1>1, <1>2, <2>1 DEF InOrder, Registry, Outside, Leaving, Flagged
<1>4. Points(job[t])' /\ Resolves(job[t])'
  BY <1>1, <1>2 DEF Points, Resolves, ResolveUnnamed
<1>5. Loads(job[t])'
  BY DEF Loads, Making
<1>6. Uses(job[t])'
  BY DEF Uses, Visiting
<1> QED BY <1>2, <1>3, <1>4, <1>5, <1>6 DEF Ordered, Orderly

\* A job that begins is over, and did nothing to the pool.
LEMMA EndsOrdered ==
  ASSUME NEW t \in Task, LoneInv(t), job[t].pc \in Beginning, Become(t, Done),
         UNCHANGED <<engines, lru, active, last, unloading, loaded>>
  PROVE  Ordered(t)
<1>1. job'[t] = Done
  BY Became DEF LoneInv
<1>2. job'[t].pc = "done" /\ job'[t].kind = NONE
  BY <1>1 DEF Done, NoJob
<1>3. Loads(job[t])' /\ Uses(job[t])'
  BY <1>2 DEF Loads, Uses, Making, Visiting
<1> QED BY <1>2, <1>3, BeginsOn

\* The native free of an unload begins, or ends.
LEMMA UnloadOrdered ==
  ASSUME NEW t \in Task, LoneInv(t),
         \/ job[t].pc = "unload_gate" /\ job'[t].pc = "unload" /\ loaded' = loaded
         \/ /\ job[t].pc = "unload" /\ job'[t].pc = "unloaded"
            /\ loaded' = loaded \ {job[t].eng}
         \/ /\ job[t].pc = "idle_free" /\ job'[t].pc = "idle_freed"
            /\ loaded' = loaded \ {job[t].eng},
         job'[t].m = job[t].m, job'[t].eng = job[t].eng, job'[t].kind = job[t].kind,
         job'[t].todo = job[t].todo, job'[t].kept = job[t].kept,
         UNCHANGED <<engines, lru, active, last, unloading>>
  PROVE  Ordered(t)
<1> DEFINE j == job[t]
<1>1. Orderly(j) /\ j.m \in Model
  BY DEF LoneInv, TypeInv, LineInv, Named
<1>2. j.eng = engines[j.m] /\ j.eng \in loaded
  BY <1>1 DEF Orderly, Uses
<1>3. IsInjective(lru)' /\ ToSet(lru)' = ToSet(lru)
  BY Unlisted
<1>a. j.eng # NONE
  <2>1. j.eng \in Objects /\ NONE \notin Objects
    BY <1>2, PoolAssumption DEF Objects, LoneInv, TypeInv
  <2> QED BY <2>1
<1>4. \A x \in Model : engines[x] = j.eng => x = j.m
  <2>2. \A x \in Model : engines[x] # NONE => engines[x] \in Object(x)
    BY <1>1 DEF Orderly, Registry
  <2>3. j.eng \in Object(j.m)
    BY <1>1, <1>2, <1>a, <2>2
  <2> QED BY <1>1, <2>2, <2>3, OneOwner
<1>5. Registry(job[t])'
  <2>1. CASE loaded' = loaded /\ job[t].pc = "unload_gate" /\ job'[t].pc = "unload"
    BY <1>1, <1>2, <1>3, <2>1 DEF Orderly, Registry, Outside, Leaving, Flagged
  <2>2. CASE loaded' = loaded \ {j.eng} /\ job[t].pc \in {"unload", "idle_free"}
             /\ job'[t].pc \in {"unloaded", "idle_freed"}
    <3>1. \A x \in Model :
            /\ engines[x] # NONE => engines[x] \in Object(x)
            /\ x \in ToSet(lru) <=> engines[x] # NONE /\ engines[x] \in loaded
            /\ engines[x] \in unloading => engines[x] = j.eng
      BY <1>1, <2>2 DEF Orderly, Registry, Outside, Leaving, Flagged
    <3>2. \A e \in loaded : \E x \in Model : engines[x] = e
      BY <1>1, <2>2 DEF Orderly, Registry, Outside
    <3>3. j.m \in ToSet(lru)
      BY <1>1, <1>2, <1>a, <3>1
    <3>4. job'[t].m = j.m /\ job'[t].eng = j.eng
      OBVIOUS
    <3> HIDE DEF j
    <3>5. ASSUME NEW x \in Model
          PROVE  /\ engines'[x] # NONE => engines'[x] \in Object(x)
                 /\ x \in ToSet(lru)' <=> (engines'[x] # NONE /\ engines'[x] \in loaded') \/ x = j.m
                 /\ engines'[x] \in unloading' => engines'[x] = j.eng
      BY <1>2, <1>3, <1>4, <2>2, <3>1, <3>3
    <3>6. \A e \in loaded' : \E x \in Model : engines'[x] = e
      BY <2>2, <3>2
    <3> QED BY <2>2, <3>4, <3>5, <3>6 DEF Registry, Outside, Leaving, Flagged
  <2> QED BY <2>1, <2>2
<1>6. Points(job[t])'
  BY <1>1, <1>3 DEF Orderly, Points
<1>7. Resolves(job[t])'
  BY <1>1, <1>3 DEF Orderly, Resolves, ResolveUnnamed, Making
<1>8. Loads(job[t])'
  BY DEF Loads, Making
<1>9. Uses(job[t])'
  BY <1>1, <1>2 DEF Orderly, Uses, Visiting
<1> QED BY <1>3, <1>5, <1>6, <1>7, <1>8, <1>9 DEF Ordered, Orderly

\* The end of an unload of one model, or of an idle one.
LEMMA UnloadedOrdered ==
  ASSUME NEW t \in Task, LoneInv(t), job[t].pc \in {"unloaded", "idle_freed"}, Become(t, Done),
         lru' = RemoveFirst(lru, job[t].m), unloading' = unloading \ {job[t].eng},
         UNCHANGED <<engines, loaded>>,
         active # NONE => active \in ToSet(lru),
         active # job[t].m => active' = active,
         active = job[t].m => active' = NONE \/ active' \in ToSet(lru)',
         last' = IF active = job[t].m THEN job[t].m ELSE last
  PROVE  Ordered(t)
<1>1. /\ OrderWith(unloading \ {job[t].eng})
      /\ ToSet(lru)' = ToSet(lru) \ {job[t].m}
      /\ ToSet(lru) # {} => ResolveUnnamed # NONE
  BY OrderAfterFree
<1>2. IsInjective(lru)' /\ InOrder'
  BY <1>1 DEF OrderWith, InOrder
<1>3. (active # NONE => active \in ToSet(lru))'
  BY <1>1
<1>4. (ToSet(lru) # {} => ResolveUnnamed # NONE)'
  <2>1. job[t].m # NONE
    BY PoolAssumption DEF LoneInv, TypeInv, LineInv, Named
  <2> QED BY <1>1, <2>1 DEF ResolveUnnamed
<1> QED BY <1>2, <1>3, <1>4, DoneIsOrderly

\* A reload of its own model takes the engine out.
LEMMA HealOrdered ==
  ASSUME NEW t \in Task, LoneInv(t), job[t].pc = "recheck",
         Detach(job[t].m, job[t].eng, FALSE, TRUE), UNCHANGED loaded,
         job'[t].pc = "budget", job'[t].healing, job'[t].m = job[t].m, job'[t].eng = job[t].eng
  PROVE  Ordered(t)
<1> DEFINE m == job[t].m
           e == job[t].eng
<1>1. /\ InOrder /\ (active # NONE => active \in ToSet(lru))
      /\ ToSet(lru) # {} => ResolveUnnamed # NONE
      /\ ToSet(lru) \subseteq Model /\ NONE \notin Model
  BY BeginsInOrder DEF Beginning
<1>2. m \in Model /\ e = engines[m] /\ e \in loaded
  BY DEF LoneInv, TypeInv, LineInv, Named, Orderly, Uses
<1>3. e # NONE
  <2>1. e \in Objects /\ NONE \notin Objects
    BY <1>2, PoolAssumption DEF Objects, LoneInv, TypeInv
  <2> QED BY <2>1
<1>4. /\ IsInjective(lru)' /\ ToSet(lru)' = ToSet(lru) \ {m}
      /\ engines'[m] = NONE /\ \A x \in Model : x # m => engines'[x] = engines[x]
      /\ e \in Object(m)
      /\ \A x \in Model :
           /\ engines'[x] # NONE => engines'[x] \in Object(x)
           /\ x \in ToSet(lru)' <=> engines'[x] # NONE /\ engines'[x] \in loaded
           /\ engines'[x] \notin unloading'
      /\ \A o \in loaded : o = e \/ \E x \in Model : engines'[x] = o
  BY <1>1, <1>2, <1>3, DetachOrdered
<1>5. active' = (IF active = m THEN NONE ELSE active)
      /\ last' = (IF active = m THEN m ELSE last)
  BY DEF Detach
<1>6. \A x \in Model : engines'[x] # e
  BY <1>1, <1>2, <1>3, <1>4, OneOwner DEF InOrder
<1> HIDE DEF m, e
<1>b. job'[t].m = m /\ job'[t].eng = e
  BY DEF m, e
<1>7. Registry(job[t])'
  BY <1>b, <1>4, <1>6 DEF Registry, Outside, Leaving, Flagged
<1>8. Points(job[t])'
  BY <1>1, <1>4, <1>5 DEF Points
<1>9. Resolves(job[t])'
  BY <1>1, <1>2, <1>4, <1>5 DEF Resolves, ResolveUnnamed
<1>10. Loads(job[t])'
  BY <1>b, <1>4 DEF Loads, Making, Outside
<1>11. Uses(job[t])'
  BY DEF Uses, Visiting
<1> QED BY <1>4, <1>7, <1>8, <1>9, <1>10, <1>11 DEF Ordered, Orderly

\* A load is sized: refused, or room is to be made for it.
LEMMA BudgetOrdered ==
  ASSUME NEW t \in Task, LoneInv(t), Budget(t)
  PROVE  Ordered(t)
<1> DEFINE b == job[t]
           j == [b EXCEPT !.prior = active]
<1>0. b.pc = "budget" /\ UNCHANGED <<engines, lru, active, last, unloading, loaded>>
  BY DEF Budget, At, pool
<1>1. /\ Orderly(b) /\ Sound(b) /\ b.m \in Model /\ NONE \notin Model
      /\ (b.healing \/ ~b.healing)
  BY <1>0, PoolAssumption DEF LoneInv, TypeInv, LineInv, Named
<1>2. /\ active # NONE => active \in ToSet(lru)
      /\ ToSet(lru) # {} => ResolveUnnamed # NONE
      /\ b.m \notin ToSet(lru)
      /\ b.healing => engines[b.m] = NONE /\ b.eng \in Object(b.m)
      /\ ~b.healing => InOrder
  BY <1>0, <1>1 DEF Orderly, Points, Resolves, Loads, Making, Registry, InOrder,
                    Outside, Leaving, Flagged
<1>3. IsInjective(lru)' /\ ToSet(lru)' = ToSet(lru)
  BY <1>0, Unlisted
<1>4. CASE ~b.healing /\ Become(t, Done)
  <2>1. InOrder'
    BY <1>0, <1>2, <1>3, <1>4, Undone
  <2>2. (active # NONE => active \in ToSet(lru))' /\ (ToSet(lru) # {} => ResolveUnnamed # NONE)'
    BY <1>0, <1>2, <1>3 DEF ResolveUnnamed
  <2> QED BY <1>3, <1>4, <2>1, <2>2, DoneIsOrderly
<1>5. CASE ~b.healing /\ Become(t, [j EXCEPT !.pc = "probe"])
  <2>1. job'[t] = [j EXCEPT !.pc = "probe"]
    BY <1>5, Became DEF LoneInv
  <2>2. /\ job'[t].pc = "probe" /\ job'[t].m = b.m /\ job'[t].prior = active
        /\ ~job'[t].healing
    BY <1>1, <1>5, <2>1 DEF Sound, Job
  <2>3. InOrder'
    BY <1>0, <1>2, <1>3, <1>5, Undone
  <2>4. Registry(job[t])'
    BY <2>2, <2>3 DEF InOrder, Registry, Outside, Leaving, Flagged
  <2>5. Points(job[t])' /\ Resolves(job[t])'
    BY <1>0, <1>2, <1>3 DEF Points, Resolves, ResolveUnnamed
  <2>6. Loads(job[t])'
    BY <1>0, <1>1, <1>2, <1>3, <2>2 DEF Loads, Making
  <2>7. Uses(job[t])'
    BY <2>2 DEF Uses, Visiting
  <2> QED BY <1>3, <2>4, <2>5, <2>6, <2>7 DEF Ordered, Orderly
<1>6. CASE b.healing /\ Become(t, [j EXCEPT !.pc = "free", !.victim = j.m, !.freed = j.eng])
  <2>1. job'[t] = [j EXCEPT !.pc = "free", !.victim = j.m, !.freed = j.eng]
    BY <1>6, Became DEF LoneInv
  <2>2. /\ job'[t].pc = "free" /\ job'[t].m = b.m /\ job'[t].prior = active
        /\ job'[t].eng = b.eng /\ job'[t].freed = b.eng
    BY <1>1, <2>1 DEF Sound, Job
  <2>3. Registry(job[t])'
    BY <1>0, <1>1, <1>3, <1>6, <2>2 DEF Orderly, Registry, Outside, Leaving, Flagged
  <2>4. Points(job[t])' /\ Resolves(job[t])'
    BY <1>0, <1>2, <1>3 DEF Points, Resolves, ResolveUnnamed
  <2>5. Loads(job[t])'
    BY <1>0, <1>1, <1>2, <1>3, <1>6, <2>2 DEF Loads, Making, Outside
  <2>6. Uses(job[t])'
    BY <2>2 DEF Uses, Visiting
  <2> QED BY <1>3, <2>3, <2>4, <2>5, <2>6 DEF Ordered, Orderly
<1> QED BY <1>1, <1>4, <1>5, <1>6 DEF Budget, Sound, Job

\* The native free of a victim ends.
LEMMA FreeEndsOrdered ==
  ASSUME NEW t \in Task, LoneInv(t), FreeEnds(t)
  PROVE  Ordered(t)
<1> DEFINE j == job[t]
<1>1. Orderly(j) /\ Sound(j) /\ j.pc = "free"
  BY DEF LoneInv, TypeInv, FreeEnds, At
<1>2. /\ job'[t] = [j EXCEPT !.pc = "freed"] /\ loaded' = loaded \ {j.freed}
      /\ UNCHANGED <<engines, lru, active, last, unloading>>
  BY Became DEF LoneInv, FreeEnds, pool
<1>3. /\ job'[t].pc = "freed" /\ job'[t].m = j.m /\ job'[t].prior = j.prior
      /\ job'[t].eng = j.eng /\ (job'[t].healing <=> j.healing)
  BY <1>1, <1>2 DEF Sound, Job
<1>4. IsInjective(lru)' /\ ToSet(lru)' = ToSet(lru)
  BY <1>2, Unlisted
<1>5. Registry(job[t])'
  BY <1>1, <1>2, <1>3, <1>4 DEF Orderly, Registry, Outside, Leaving, Flagged
<1>6. Points(job[t])'
  BY <1>1, <1>2, <1>4 DEF Orderly, Points
<1>7. Resolves(job[t])'
  BY <1>1, <1>2, <1>3, <1>4 DEF Orderly, Resolves, ResolveUnnamed, Making
<1>8. Loads(job[t])'
  BY <1>1, <1>2, <1>3, <1>4 DEF Orderly, Loads, Making, Outside
<1>9. Uses(job[t])'
  BY <1>3 DEF Uses, Visiting
<1> QED BY <1>4, <1>5, <1>6, <1>7, <1>8, <1>9 DEF Ordered, Orderly

\* The native load ends.
LEMMA LoadEndsOrdered ==
  ASSUME NEW t \in Task, LoneInv(t), LoadEnds(t)
  PROVE  Ordered(t)
<1> DEFINE j == job[t]
<1>1. Orderly(j) /\ Sound(j) /\ j.pc = "load" /\ j.m \in Model
  BY DEF LoneInv, TypeInv, LineInv, Named, LoadEnds, At
<1>2. PICK p \in {"loaded", "not_loaded"} :
        /\ job'[t] = [j EXCEPT !.pc = p]
        /\ loaded' = IF p = "loaded" THEN loaded \cup {j.eng} ELSE loaded
        /\ UNCHANGED <<engines, lru, active, last, unloading>>
  BY Became DEF LoneInv, LoadEnds, pool
<1>3. /\ job'[t].pc = p /\ job'[t].m = j.m /\ job'[t].prior = j.prior
      /\ job'[t].eng = j.eng /\ (job'[t].healing <=> j.healing)
  BY <1>1, <1>2 DEF Sound, Job
<1>4. IsInjective(lru)' /\ ToSet(lru)' = ToSet(lru)
  BY <1>2, Unlisted
<1>5. /\ j.m \notin ToSet(lru) /\ j.eng \in Object(j.m) /\ engines[j.m] \in {NONE, j.eng}
      /\ j.eng \notin loaded /\ InOrder
  BY <1>1, PlainIsInOrder DEF Orderly, Loads, Making, Plain
<1>6. Registry(job[t])'
  <2>1. \A x \in Model : engines[x] = j.eng => x = j.m
    BY <1>1, <1>5, OneOwner DEF InOrder
  <2> QED BY <1>2, <1>3, <1>4, <1>5, <2>1 DEF InOrder, Registry, Outside, Leaving, Flagged
<1>7. Points(job[t])'
  BY <1>1, <1>2, <1>4 DEF Orderly, Points
<1>8. Resolves(job[t])'
  BY <1>1, <1>2, <1>3, <1>4 DEF Orderly, Resolves, ResolveUnnamed, Making
<1>9. Loads(job[t])'
  BY <1>1, <1>2, <1>3, <1>4, <1>5 DEF Orderly, Loads, Making, Outside
<1>10. Uses(job[t])'
  BY <1>3 DEF Uses, Visiting
<1> QED BY <1>4, <1>6, <1>7, <1>8, <1>9, <1>10 DEF Ordered, Orderly

\* The load is committed: its model is registered and listed.
LEMMA CommitOrdered ==
  ASSUME NEW t \in Task, LoneInv(t), Commit(t)
  PROVE  Ordered(t)
<1> DEFINE j == job[t]
<1>1. Orderly(j) /\ j.pc = "loaded" /\ j.m \in Model /\ NONE \notin Model
  BY PoolAssumption DEF LoneInv, TypeInv, LineInv, Named, Commit, At
<1>2. /\ unloading' = IF j.healing THEN unloading \ {j.eng} ELSE unloading
      /\ engines' = [engines EXCEPT ![j.m] = j.eng]
      /\ lru' = Append(lru, j.m)
      /\ \/ active' = j.m /\ last' = NONE
         \/ ResolveUnnamed # NONE /\ UNCHANGED <<active, last>>
      /\ Become(t, AfterSwitch(j, j.eng)) /\ UNCHANGED loaded
  BY DEF Commit
<1>3. /\ j.m \notin ToSet(lru) /\ j.eng \in Object(j.m) /\ j.eng \in loaded
      /\ j.eng \in unloading => j.healing
      /\ active # NONE => active \in ToSet(lru)
  BY <1>1 DEF Orderly, Loads, Points, Making
<1>4. IsInjective(lru)' /\ ToSet(lru)' = ToSet(lru) \cup {j.m}
  BY <1>1, <1>2, <1>3, Added
<1>5. engines'[j.m] = j.eng /\ \A x \in Model : x # j.m => engines'[x] = engines[x]
  BY <1>1, <1>2 DEF LoneInv, TypeInv, PoolTyped
<1>6. j.eng # NONE
  BY <1>1, <1>3, ObjectOf
<1>7. InOrder'
  <2>1. \A x \in Model : x # j.m => engines[x] # j.eng
    BY <1>1, <1>3, <1>6, ObjectOf DEF Orderly, Registry
  <2>2. ASSUME NEW x \in Model
        PROVE  /\ engines'[x] # NONE => engines'[x] \in Object(x)
               /\ x \in ToSet(lru)' <=> engines'[x] # NONE /\ engines'[x] \in loaded'
               /\ engines'[x] \notin unloading'
    BY <1>1, <1>2, <1>3, <1>4, <1>5, <1>6, <2>1 DEF Orderly, Registry, Outside, Leaving, Flagged
  <2>3. ASSUME NEW e \in loaded' PROVE \E x \in Model : engines'[x] = e
    <3>1. e = j.eng \/ \E x \in Model : engines[x] = e
      BY <1>1, <1>2, <2>3 DEF Orderly, Registry, Outside
    <3>2. engines[j.m] \in {NONE, j.eng} /\ NONE \notin loaded
      <4>1. loaded \subseteq Objects /\ NONE \notin Objects
        BY PoolAssumption DEF Objects, LoneInv, TypeInv
      <4> QED BY <1>1, <4>1 DEF Orderly, Loads
    <3> QED BY <1>1, <1>2, <1>5, <2>3, <3>1, <3>2
  <2> QED BY <2>2, <2>3 DEF InOrder
<1>8. (active # NONE => active \in ToSet(lru))'
  BY <1>2, <1>3, <1>4
<1>9. (ToSet(lru) # {} => ResolveUnnamed # NONE)'
  BY <1>1, <1>2 DEF ResolveUnnamed
<1>10. job'[t] = AfterSwitch(j, j.eng)
  BY <1>2, Became DEF LoneInv
<1> QED BY <1>2, <1>3, <1>4, <1>5, <1>7, <1>8, <1>9, <1>10, PinnedOrdered

\* The job of the lone task, after its step, for each step there is.
LEMMA TaskOrdered ==
  ASSUME NEW t \in Task, LoneInv(t), NewJob(t) \/ JobStep(t)
  PROVE  Ordered(t)
<1> USE DEF At
<1> DEFINE Goal == Ordered(t)
<1>a. /\ Sound(job[t]) /\ Named(job[t]) /\ Orderly(job[t])
      /\ \A n : Become(t, n) => job'[t] = n
  BY Became DEF LoneInv, TypeInv, LineInv
<1>b. UNCHANGED pool => UNCHANGED <<engines, lru, active, last, unloading>>
  BY DEF pool
<1>c. job[t].pc \in Beginning =>
        /\ InOrder /\ (active # NONE => active \in ToSet(lru))
        /\ (ToSet(lru) # {} => ResolveUnnamed # NONE)
        /\ ToSet(lru) \subseteq Model /\ NONE \notin Model
  BY BeginsInOrder
<1>d. job[t] = NoJob => job[t].pc \in Beginning /\ \A e : Pins(e) = {}
  BY LonePin DEF LoneInv, NoJob, Beginning
<1>e. lru' = lru => ToSet(lru)' = ToSet(lru)
  OBVIOUS
<1>1. ASSUME NEW m \in Model, NEW b \in BOOLEAN, Request(t, m, b) PROVE Goal
  <2> DEFINE j == [NoJob EXCEPT !.kind = "request", !.m = m, !.activate = b]
  <2>0. job[t].pc \in Beginning
    BY <1>1, <1>d DEF Request
  <2>1. CASE Reusable(engines[m]) /\ Touch(m) /\ Become(t, PinnedRequest(j, engines[m]))
             /\ active' = (IF b THEN m ELSE active)
             /\ UNCHANGED <<engines, last, unloading, evicting, loaded, abort, line>>
    <3>1. m \in ToSet(lru) /\ engines[m] \in loaded
      BY <1>c, <2>0, <2>1 DEF InOrder, Reusable
    <3>2. IsInjective(lru)' /\ ToSet(lru)' = ToSet(lru)
      BY <2>1, <3>1, Touched
    <3>3. InOrder'
      BY <1>c, <2>0, <2>1, <3>2, Undone
    <3>4. (active # NONE => active \in ToSet(lru))'
      BY <1>c, <2>0, <2>1, <3>1, <3>2
    <3>5. (ToSet(lru) # {} => ResolveUnnamed # NONE)'
      BY <1>c, <2>0, <2>1, <3>2 DEF ResolveUnnamed
    <3>6. j.m = m /\ AfterSwitch(j, engines[m]) = PinnedRequest(j, engines[m])
      BY DEF NoJob, AfterSwitch
    <3>7. job'[t] = AfterSwitch(j, engines[m])
      BY <1>a, <2>1, <3>6
    <3> HIDE DEF j
    <3> QED BY <2>1, <3>1, <3>2, <3>3, <3>4, <3>5, <3>6, <3>7, PinnedOrdered
  <2>2. CASE Become(t, [j EXCEPT !.pc = "called"]) /\ UNCHANGED <<pool, loaded, abort, line>>
    <3>1. job'[t].pc = "called"
      BY <1>a, <2>2 DEF NoJob
    <3>2. Loads(job[t])' /\ Uses(job[t])'
      BY <3>1 DEF Loads, Uses, Making, Visiting
    <3> QED BY <1>b, <2>0, <2>2, <3>1, <3>2, BeginsOn DEF Beginning
  <2> QED BY <1>1, <2>1, <2>2 DEF Request
<1>2. ASSUME NEW m \in Model, NEW b \in BOOLEAN, Switch(t, m, b) PROVE Goal
  <2>0. job[t].pc \in Beginning
    BY <1>2, <1>d DEF Switch
  <2>1. job'[t].pc = "called"
    BY <1>a, <1>2 DEF Switch, NoJob
  <2>2. Loads(job[t])' /\ Uses(job[t])'
    BY <2>1 DEF Loads, Uses, Making, Visiting
  <2> QED BY <1>b, <1>2, <2>0, <2>1, <2>2, BeginsOn DEF Switch, Beginning
<1>3. ASSUME NEW m \in Model, NEW b \in BOOLEAN, Unload(t, m, b) PROVE Goal
  <2> DEFINE j == [NoJob EXCEPT !.kind = "unload", !.m = m, !.force = b, !.eng = engines[m]]
  <2>0. job[t].pc \in Beginning /\ Pins(engines[m]) = {}
    BY <1>3, <1>d DEF Unload
  <2>1. engines[m] \in Objects /\ engines[m] \in loaded
    BY <1>3 DEF Unload, LoneInv, TypeInv
  <2>2. j \in Job
    BY <2>1, NoJobSound, Somewhere DEF Job, JobKinds
  <2>3. Sound(j) /\ j.m = m /\ j.eng = engines[m] /\ j.kind = "unload"
    BY <2>1, <2>2 DEF Sound, Holding, NoJob
  <2>4. MarkAndQueue(t, j, line, unloading) /\ UNCHANGED <<lru, loaded>>
    BY <1>3, <2>0, <2>3 DEF Unload
  <2> HIDE DEF j
  <2>5. OrderWith(unloading)
    BY <2>0, <2>4, OrderNow
  <2>6. active # NONE => active \in ToSet(lru)'
    BY <1>c, <1>e, <2>0, <2>4
  <2> QED BY <2>1, <2>3, <2>4, <2>5, <2>6, MarkOrdered
<1>4. ASSUME NEW m \in Model, IdleUnload(t, m) PROVE Goal
  <2>0. job[t].pc \in Beginning
    BY <1>4, <1>d DEF IdleUnload
  <2>1. PICK g \in IdleGates(m), now \in BOOLEAN :
          /\ Become(t, [NoJob EXCEPT !.kind = "idle_unload", !.m = m, !.gate = g,
                                     !.eng = engines[m],
                                     !.pc = IF now THEN "idle_free" ELSE "idle_gate"])
          /\ unloading' = IF now THEN unloading \cup {engines[m]} ELSE unloading
    BY <1>4 DEF IdleUnload
  <2>2. /\ job'[t].pc = (IF now THEN "idle_free" ELSE "idle_gate")
        /\ job'[t].m = m /\ job'[t].eng = engines[m]
    BY <1>a, <2>1 DEF NoJob
  <2>3. CASE now
    BY <1>4, <2>0, <2>1, <2>2, <2>3, IdleOrdered DEF IdleUnload
  <2>4. CASE ~now
    <3>1. Loads(job[t])' /\ Uses(job[t])'
      BY <1>4, <2>2, <2>4 DEF Loads, Uses, Making, Visiting, IdleUnload
    <3> QED BY <1>4, <2>0, <2>1, <2>2, <2>4, <3>1, BeginsOn DEF IdleUnload, Beginning
  <2> QED BY <2>3, <2>4
<1>5. ASSUME NEW b \in BOOLEAN, UnloadAll(t, b) PROVE Goal
  <2> DEFINE names == {m \in Model : engines[m] # NONE}
             j == [NoJob EXCEPT !.kind = "unload_all", !.force = b, !.todo = names]
  <2>0. job[t].pc \in Beginning /\ \A e : Pins(e) = {}
    BY <1>5, <1>d DEF UnloadAll
  <2>1. [[NoJob EXCEPT !.kind = "unload_all", !.force = b] EXCEPT !.todo = names] = j
    BY DEF NoJob
  <2>2. Walk(t, j, line, unloading) /\ UNCHANGED <<lru, loaded>>
    BY <1>5, <2>0, <2>1 DEF UnloadAll, InUse
  <2>3. names \subseteq Model
    OBVIOUS
  <2> HIDE DEF names
  <2>4. j \in Job
    BY <2>3, NoJobSound, Somewhere DEF Job, JobKinds
  <2>5. Sound(j) /\ j.kind = "unload_all" /\ j.pc = "none" /\ j.todo = names /\ j.kept = {}
    BY <2>4 DEF Sound, Holding, NoJob
  <2> HIDE DEF j
  <2>6. OrderWith(unloading)
    BY <2>0, <2>2, OrderNow
  <2>7. job[t].pc \notin {"prepare", "queued", "lazy_load", "generate"}
    BY <1>5 DEF UnloadAll, NoJob
  <2>8. j.todo \subseteq {x \in Model : engines[x] # NONE}
    BY <2>5 DEF names
  <2> QED BY <2>2, <2>5, <2>6, <2>7, <2>8, WalkOrdered
<1>6. QueueSwitch(t) => Goal
  <2> HAVE QueueSwitch(t)
  <2> DEFINE g == GateOf(job[t].m)
             j == [job[t] EXCEPT !.gate = g, !.pc = "gate"]
  <2>1. g \in Objects /\ job[t].m \in Model /\ job[t].pc = "called" /\ UNCHANGED loaded
    BY <1>a, GateOfIsGate DEF QueueSwitch, Named, LoneInv, TypeInv, LineInv
  <2>2. \/ EnterSwitch(t, j, Join(t, j.gate), desired')
        \/ Become(t, j) /\ UNCHANGED <<engines, lru, active, last, unloading, evicting>>
    BY DEF QueueSwitch
  <2> HIDE DEF g
  <2>3. j \in Job /\ j.pc = "gate" /\ j.m = job[t].m /\ (j.healing <=> job[t].healing)
    BY <1>a, <2>1, Somewhere DEF Sound, Job
  <2> HIDE DEF j
  <2>4. Sound(j)
    BY <1>a, <2>1, <2>3 DEF Sound, Holding, Making
  <2>5. CASE EnterSwitch(t, j, Join(t, j.gate), desired')
    BY <2>1, <2>3, <2>4, <2>5, EnterOrdered
  <2>6. CASE Become(t, j) /\ UNCHANGED <<engines, lru, active, last, unloading, evicting>>
    <3>1. job'[t].pc = "gate"
      BY <1>a, <2>3, <2>6
    <3>2. Loads(job[t])' /\ Uses(job[t])'
      BY <3>1 DEF Loads, Uses, Making, Visiting
    <3> QED BY <2>1, <2>6, <3>1, <3>2, BeginsOn DEF Beginning
  <2> QED BY <2>2, <2>5, <2>6
<1>7. GateGranted(t) => Goal
  <2> HAVE GateGranted(t)
  <2>1. job[t].m \in Model /\ job[t].pc = "gate"
    BY <1>a DEF GateGranted, Named
  <2> QED BY <1>a, <2>1, EnterOrdered DEF GateGranted
<1>8. Recheck(t) => Goal
  <2> HAVE Recheck(t)
  <2> DEFINE j == job[t]
  <2>1. /\ j.pc = "recheck" /\ j.m \in Model /\ UNCHANGED loaded
        /\ j.eng = engines[j.m] /\ j.eng \in loaded /\ j.pc \in Beginning
    BY <1>a DEF Recheck, Named, Orderly, Uses, Beginning
  <2>2. Reusable(j.eng)
    <3>1. j.eng \in Objects /\ NONE \notin Objects
      BY <2>1, PoolAssumption DEF Objects, LoneInv, TypeInv
    <3> QED BY <1>c, <2>1, <3>1 DEF InOrder, Reusable
  <2>3. CASE Detach(j.m, j.eng, FALSE, TRUE)
             /\ Become(t, [j EXCEPT !.pc = "budget", !.healing = TRUE, !.was = (active = j.m)])
    <3>1. /\ job'[t].pc = "budget" /\ job'[t].healing /\ job'[t].m = j.m
          /\ job'[t].eng = j.eng
      BY <1>a, <2>3 DEF Sound, Job
    <3> QED BY <2>1, <2>3, <3>1, HealOrdered
  <2>4. CASE Reuse(t, j, line)
    BY <2>1, <2>2, <2>4, ReuseOrdered
  <2> QED BY <2>1, <2>2, <2>3, <2>4 DEF Recheck
<1>9. Budget(t) => Goal
  BY BudgetOrdered
<1>10. Probe(t) => Goal
  <2> HAVE Probe(t)
  <2> DEFINE j == job[t]
             idle == IdleVictims(j.m)
  <2>1. j.pc = "probe" /\ UNCHANGED loaded /\ lru \in Seq(Model)
    BY DEF Probe, LoneInv, TypeInv, PoolTyped
  <2>2. idle # {} => Oldest(idle) \in Model
    <3>1. idle \subseteq ToSet(lru) /\ ToSet(lru) \subseteq Model
      BY <2>1, Listed DEF IdleVictims, Evictable
    <3> QED BY <2>1, <3>1, OldestIsOne
  <2>3. CASE BeginLoad(t, j)
    BY <2>1, <2>3, LoadOrdered
  <2>4. CASE idle # {} /\ TryEvict(t, j, Oldest(idle), FALSE)
    BY <1>a, <2>1, <2>2, <2>4, EvictOrdered
  <2>5. ASSUME NEW p \in {"confirm", "ladder"}, NEW v,
               Become(t, [j EXCEPT !.pc = p, !.victim = v]) \/ Become(t, [j EXCEPT !.pc = p]),
               UNCHANGED pool
        PROVE  Goal
    <3>1. /\ job'[t].pc = p /\ job'[t].m = j.m /\ job'[t].eng = j.eng
          /\ job'[t].prior = j.prior /\ (job'[t].healing <=> j.healing)
      BY <1>a, <2>5 DEF Sound, Job
    <3> QED BY <1>b, <2>1, <2>5, <3>1, ProbesOn DEF Making, Plain
  <2>6. CASE /\ Become(t, [j EXCEPT !.pc = "confirm", !.victim = Oldest(idle)])
             /\ UNCHANGED <<pool, abort, line>>
    BY <2>5, <2>6
  <2>7. CASE Become(t, [j EXCEPT !.pc = "ladder"]) /\ UNCHANGED <<pool, abort, line>>
    BY <2>5, <2>7
  <2> QED BY <2>3, <2>4, <2>6, <2>7 DEF Probe
<1>11. Ladder(t) => Goal
  <2> HAVE Ladder(t)
  <2> DEFINE j == [job[t] EXCEPT !.tried = TRUE]
             busy == Evictable(j.m)
  <2>1. job[t].pc = "ladder" /\ UNCHANGED loaded /\ lru \in Seq(Model)
    BY DEF Ladder, LoneInv, TypeInv, PoolTyped
  <2>2. busy # {} => Oldest(busy) \in Model
    <3>1. busy \subseteq ToSet(lru) /\ ToSet(lru) \subseteq Model
      BY <2>1, Listed DEF Evictable
    <3> QED BY <2>1, <3>1, OldestIsOne
  <2> HIDE DEF busy
  <2>j. /\ Sound(j) /\ j.m = job[t].m /\ j.eng = job[t].eng /\ j.healing = job[t].healing
        /\ j.prior = job[t].prior
    BY <1>a, <2>1 DEF Sound, Job, Holding, Making
  <2>3. CASE BeginLoad(t, job[t])
    BY <2>1, <2>3, LoadOrdered
  <2>4. CASE GiveUp(t)
    BY <2>1, <2>4, GiveUpOrdered DEF Plain, Making
  <2>5. CASE busy # {} /\ TryEvict(t, j, Oldest(busy), TRUE)
    BY <2>j, <2>1, <2>2, <2>5, EvictOrdered
  <2>6. CASE busy # {} /\ Become(t, [j EXCEPT !.pc = "wait_busy", !.victim = Oldest(busy),
                                  !.freed = engines[Oldest(busy)]])
             /\ UNCHANGED <<pool, abort, line>>
    <3>1. /\ job'[t].pc = "wait_busy" /\ job'[t].m = job[t].m /\ job'[t].eng = job[t].eng
          /\ job'[t].prior = job[t].prior /\ (job'[t].healing <=> job[t].healing)
      BY <1>a, <2>6 DEF Sound, Job
    <3> QED BY <1>b, <2>1, <2>6, <3>1, ProbesOn DEF Making, Plain
  <2> QED BY <2>3, <2>4, <2>5, <2>6 DEF Ladder, busy
<1>12. BusyWaitEnds(t) => Goal
  <2> HAVE BusyWaitEnds(t)
  <2> DEFINE j == job[t]
  <2>1. j.pc = "wait_busy" /\ j.victim \in Model /\ UNCHANGED loaded
    BY <1>a DEF BusyWaitEnds, Sound
  <2>2. ASSUME NEW p \in {"confirm", "probe", "ladder"}, NEW v,
               Become(t, [j EXCEPT !.pc = p, !.freed = NONE])
               \/ Become(t, [j EXCEPT !.pc = p, !.victim = NONE, !.freed = NONE]),
               UNCHANGED pool
        PROVE  Goal
    <3>1. /\ job'[t].pc = p /\ job'[t].m = j.m /\ job'[t].eng = j.eng
          /\ job'[t].prior = j.prior /\ (job'[t].healing <=> j.healing)
      BY <1>a, <2>2 DEF Sound, Job
    <3> QED BY <1>b, <2>1, <2>2, <3>1, ProbesOn DEF Making, Plain
  <2>3. CASE TryEvict(t, j, j.victim, FALSE)
    BY <1>a, <2>1, <2>3, EvictOrdered
  <2>4. CASE GiveUp(t)
    BY <2>1, <2>4, GiveUpOrdered DEF Plain, Making
  <2> QED BY <2>1, <2>2, <2>3, <2>4 DEF BusyWaitEnds
<1>13. Confirm(t) => Goal
  <2> HAVE Confirm(t)
  <2>1. job[t].pc = "confirm" /\ job[t].victim \in Model /\ UNCHANGED loaded
    BY <1>a DEF Confirm, Sound
  <2>2. CASE GiveUp(t)
    BY <2>1, <2>2, GiveUpOrdered DEF Plain, Making
  <2>3. CASE TryEvict(t, job[t], job[t].victim, FALSE)
    BY <1>a, <2>1, <2>3, EvictOrdered
  <2> QED BY <2>2, <2>3 DEF Confirm
<1>14. Freed(t) => Goal
  <2> HAVE Freed(t)
  <2>1. job'[t] = [job[t] EXCEPT !.pc = "probe", !.victim = NONE, !.freed = NONE]
    BY <1>a DEF Freed
  <2>2. /\ job'[t].pc = "probe" /\ job'[t].m = job[t].m /\ job'[t].eng = job[t].eng
        /\ job'[t].prior = job[t].prior /\ (job'[t].healing <=> job[t].healing)
    BY <1>a, <2>1 DEF Sound, Job
  <2> QED BY <2>2, ProbesOn DEF Freed, Making, Plain
<1>15. LoadFailed(t) => Goal
  BY GiveUpOrdered DEF LoadFailed, Making, Plain
<1>16. Commit(t) => Goal
  BY CommitOrdered
<1>17. Prepared(t) => Goal
  <2> HAVE Prepared(t)
  <2> DEFINE g == GateOf(job[t].m)
  <2>1. job[t].pc = "prepare" /\ UNCHANGED <<engines, lru, active, last, unloading, loaded>>
    BY DEF Prepared
  <2>2. CASE Become(t, [job[t] EXCEPT !.gate = g, !.pc = "queued"])
    <3>1. job'[t] = [job[t] EXCEPT !.gate = g, !.pc = "queued"]
      BY <1>a, <2>2
    <3> HIDE DEF g
    <3>2. job'[t].pc = "queued" /\ job'[t].m = job[t].m /\ job'[t].eng = job[t].eng
      BY <1>a, <3>1 DEF Sound, Job
    <3>3. Loads(job[t])' /\ Uses(job[t])'
      BY <1>a, <2>1, <3>2 DEF Loads, Uses, Making, Visiting, Orderly
    <3> QED BY <2>1, <3>2, <3>3, BeginsOn DEF Beginning
  <2>3. CASE Become(t, Done)
    BY <2>1, <2>3, EndsOrdered DEF Beginning
  <2> QED BY <2>2, <2>3 DEF Prepared
<1>18. Produce(t) => Goal
  <2> HAVE Produce(t)
  <2>1. job[t].pc = "queued" /\ job[t].eng = engines[job[t].m] /\ job[t].eng \in loaded
    BY <1>a DEF Produce, Orderly, Uses
  <2>2. job'[t] = [job[t] EXCEPT !.pc = "lazy_load"]
    BY <1>a, <2>1 DEF Produce
  <2>3. job'[t].pc = "lazy_load" /\ job'[t].m = job[t].m /\ job'[t].eng = job[t].eng
    BY <1>a, <2>2 DEF Sound, Job
  <2>4. Loads(job[t])' /\ Uses(job[t])'
    BY <1>b, <2>1, <2>3 DEF Loads, Uses, Making, Visiting, Produce
  <2> QED BY <1>b, <2>1, <2>3, <2>4, BeginsOn DEF Beginning, Produce
<1>19. Replied(t) => Goal
  BY <1>b, EndsOrdered DEF Replied, Beginning
<1>20. UnloadWaitEnds(t) => Goal
  BY <1>a DEF UnloadWaitEnds, Orderly, Uses
<1>21. UnloadGranted(t) => Goal
  <2> HAVE UnloadGranted(t)
  <2>1. job'[t] = [job[t] EXCEPT !.pc = "unload"]
    BY <1>a DEF UnloadGranted
  <2>2. /\ job'[t].pc = "unload" /\ job'[t].m = job[t].m /\ job'[t].eng = job[t].eng
        /\ job'[t].kind = job[t].kind /\ job'[t].todo = job[t].todo /\ job'[t].kept = job[t].kept
    BY <1>a, <2>1 DEF Sound, Job
  <2> QED BY <1>b, <2>2, UnloadOrdered DEF UnloadGranted
<1>22. Unloaded(t) => Goal
  <2> HAVE Unloaded(t)
  <2>1. active # NONE => active \in ToSet(lru)
    BY <1>a DEF Unloaded, Orderly, Points
  <2> QED BY <2>1, UnloadedOrdered DEF Unloaded
<1>23. AllWaitEnds(t) => Goal
  <2> HAVE AllWaitEnds(t)
  <2> DEFINE names == {m \in Model : engines[m] # NONE}
             j == [job[t] EXCEPT !.todo = names]
  <2>0. names \subseteq Model /\ names \subseteq {x \in Model : engines[x] # NONE}
    OBVIOUS
  <2>1. Walk(t, j, line, unloading) /\ UNCHANGED <<lru, loaded>> /\ job[t].pc = "all_wait"
    BY DEF AllWaitEnds
  <2>2. job[t].kind = "unload_all" /\ job[t].kept = {}
    BY <1>a, <2>1 DEF Orderly, Uses, Visiting
  <2> HIDE DEF names
  <2>3. /\ Sound(j) /\ j.pc = "all_wait" /\ j.kind = "unload_all" /\ j.kept = {}
        /\ j.todo = names
    BY <1>a, <2>0, <2>1, <2>2 DEF Sound, Job, Holding, Making
  <2> HIDE DEF j
  <2>4. OrderWith(unloading)
    BY <2>1, OrderNow DEF Beginning
  <2> QED BY <2>0, <2>1, <2>3, <2>4, WalkOrdered
<1>24. ReadingTaken(t) => Goal
  <2> HAVE ReadingTaken(t)
  <2> DEFINE j == job[t]
  <2>1. /\ j.pc = "all_reading" /\ UNCHANGED <<lru, loaded>> /\ j.m \in Model
        /\ j.eng = engines[j.m] /\ j.eng \in loaded
        /\ j.kind = "unload_all" /\ j.todo \subseteq {x \in Model : engines[x] # NONE}
        /\ j.kept = {}
    BY <1>a DEF ReadingTaken, Named, Orderly, Uses, Visiting
  <2>2. ~InUse(j.eng)
    BY <2>1, LonePin DEF InUse, LoneInv
  <2>3. MarkAndQueue(t, j, line, unloading)
    BY <2>1, <2>2 DEF ReadingTaken
  <2>4. OrderWith(unloading)
    BY <2>1, OrderNow
  <2> QED BY <1>a, <2>1, <2>3, <2>4, MarkOrdered
<1>25. UnloadedGoOn(t) => Goal
  <2> HAVE UnloadedGoOn(t)
  <2> DEFINE l == LeaveIn(line, job[t].gate)
             u == unloading \ {job[t].eng}
  <2>1. /\ job[t].pc = "unloaded" /\ job[t].kind = "unload_all"
        /\ Walk(t, job[t], l, u) /\ UNCHANGED loaded
        /\ lru' = RemoveFirst(lru, job[t].m)
    BY DEF UnloadedGoOn
  <2>2. job[t].todo \subseteq {x \in Model : engines[x] # NONE} /\ job[t].kept = {}
    BY <1>a, <2>1 DEF Orderly, Uses, Visiting
  <2>3. OrderWith(u)
    BY <2>1, OrderAfterFree
  <2> HIDE DEF l, u
  <2> QED BY <1>a, <2>1, <2>2, <2>3, WalkOrdered
<1>26. AllReleased(t) => Goal
  <2> HAVE AllReleased(t)
  <2>1. job[t].pc = "all_rest" /\ job[t].kept = {} /\ InOrder /\ NONE \notin Model
    BY <1>a, PlainIsInOrder, PoolAssumption DEF AllReleased, Orderly, Uses, Visiting, Plain
  <2>2. ToSet(lru) # {} => ResolveUnnamed # NONE
    BY <1>a, <2>1 DEF Orderly, Resolves, Making
  <2>3. /\ active' = NONE /\ last' = (IF active # NONE THEN active ELSE last)
        /\ UNCHANGED <<engines, lru, unloading, loaded>> /\ Become(t, Done)
    BY <2>1 DEF AllReleased
  <2>4. IsInjective(lru)' /\ ToSet(lru)' = ToSet(lru)
    BY <2>3, Unlisted
  <2>5. InOrder'
    BY <2>1, <2>3, <2>4, Undone
  <2>6. (ToSet(lru) # {} => ResolveUnnamed # NONE)'
    BY <2>2, <2>3, <2>4 DEF ResolveUnnamed
  <2> QED BY <2>3, <2>4, <2>5, <2>6, DoneIsOrderly
<1>27. IdleGranted(t) => Goal
  <2> HAVE IdleGranted(t)
  <2> DEFINE j == job[t]
  <2>1. /\ j.pc = "idle_gate" /\ j.m \in Model /\ j.pc \in Beginning
        /\ j.eng = engines[j.m] /\ j.eng \in loaded
        /\ UNCHANGED <<engines, lru, active, last, loaded>>
    BY <1>a DEF IdleGranted, Named, Orderly, Uses, Beginning
  <2>2. CASE Become(t, Done) /\ UNCHANGED unloading
    BY <2>1, <2>2, EndsOrdered
  <2>3. CASE Become(t, [j EXCEPT !.pc = "idle_free"]) /\ unloading' = unloading \cup {j.eng}
    <3>1. job'[t] = [j EXCEPT !.pc = "idle_free"]
      BY <1>a, <2>3
    <3>2. job'[t].pc = "idle_free" /\ job'[t].m = j.m /\ job'[t].eng = j.eng
      BY <1>a, <3>1 DEF Sound, Job
    <3>3. j.eng # NONE
      <4>1. j.eng \in Objects /\ NONE \notin Objects
        BY <2>1, PoolAssumption DEF Objects, LoneInv, TypeInv
      <4> QED BY <4>1
    <3> QED BY <2>1, <2>3, <3>2, <3>3, IdleOrdered
  <2> QED BY <2>2, <2>3 DEF IdleGranted
<1>28. IdleFreed(t) => Goal
  <2> HAVE IdleFreed(t)
  <2> DEFINE rest == RemoveFirst(lru, job[t].m)
  <2>1. rest \in Seq(Model)
    BY WithoutModel DEF LoneInv, TypeInv, PoolTyped
  <2>2. rest # << >> => rest[Len(rest)] \in ToSet(rest)
    BY <2>1, Listed
  <2>3. /\ lru' = rest /\ unloading' = unloading \ {job[t].eng}
        /\ active' = IF active # job[t].m THEN active
                     ELSE IF rest = << >> THEN NONE ELSE rest[Len(rest)]
        /\ last' = IF active = job[t].m THEN job[t].m ELSE last
        /\ Become(t, Done) /\ job[t].pc = "idle_freed"
        /\ UNCHANGED <<engines, loaded>>
    BY DEF IdleFreed
  <2>4. active = job[t].m => active' = NONE \/ active' \in ToSet(lru)'
    BY <2>2, <2>3
  <2>5. active # NONE => active \in ToSet(lru)
    BY <1>a, <2>3 DEF Orderly, Points
  <2> QED BY <2>3, <2>4, <2>5, UnloadedOrdered
<1>29. FreeEnds(t) => Goal
  BY FreeEndsOrdered
<1>30. LoadEnds(t) => Goal
  BY LoadEndsOrdered
<1>31. LazyLoadEnds(t) => Goal
  <2> HAVE LazyLoadEnds(t)
  <2>1. job[t].eng = engines[job[t].m] /\ job[t].eng \in loaded /\ loaded' = loaded
    BY <1>a DEF LazyLoadEnds, Orderly, Uses
  <2>2. job'[t] = [job[t] EXCEPT !.pc = IF @ = "lazy_load" THEN "generate" ELSE "abandoned"]
    BY <1>a DEF LazyLoadEnds
  <2>3. /\ job'[t].pc \in {"generate", "abandoned"}
        /\ job'[t].m = job[t].m /\ job'[t].eng = job[t].eng
    BY <1>a, <2>2 DEF Sound, Job
  <2>4. Loads(job[t])' /\ Uses(job[t])'
    BY <1>b, <2>1, <2>3 DEF Loads, Uses, Making, Visiting, LazyLoadEnds
  <2> QED BY <1>b, <2>1, <2>3, <2>4, BeginsOn DEF Beginning, LazyLoadEnds
<1>32. ASSUME NEW p, p \in {"unloaded", "idle_freed"},
              job[t].pc = (IF p = "unloaded" THEN "unload" ELSE "idle_free"),
              loaded' = loaded \ {job[t].eng}, Become(t, [job[t] EXCEPT !.pc = p]),
              UNCHANGED pool
       PROVE  Goal
  <2>1. job'[t] = [job[t] EXCEPT !.pc = p]
    BY <1>a, <1>32
  <2>2. /\ job'[t].pc = p /\ job'[t].m = job[t].m /\ job'[t].eng = job[t].eng
        /\ job'[t].kind = job[t].kind /\ job'[t].todo = job[t].todo /\ job'[t].kept = job[t].kept
    BY <1>a, <2>1 DEF Sound, Job
  <2> QED BY <1>b, <1>32, <2>2, UnloadOrdered
<1>33. UnloadEnds(t) => Goal
  BY <1>32 DEF UnloadEnds
<1>34. IdleFreeEnds(t) => Goal
  BY <1>32 DEF IdleFreeEnds
<1>35. Abandon(t) => Goal
  <2> HAVE Abandon(t)
  <2>1. job[t].eng = engines[job[t].m] /\ job[t].eng \in loaded
    BY <1>a DEF Abandon, Orderly, Uses
  <2>2. job'[t] = [job[t] EXCEPT !.gate = NONE,
                     !.pc = IF @ = "lazy_load" THEN "abandoned_load" ELSE "abandoned"]
    BY <1>a DEF Abandon
  <2>3. /\ job'[t].pc \in {"abandoned_load", "abandoned"}
        /\ job'[t].m = job[t].m /\ job'[t].eng = job[t].eng
    BY <1>a, <2>2 DEF Sound, Job
  <2>4. Loads(job[t])' /\ Uses(job[t])'
    BY <1>b, <2>1, <2>3 DEF Loads, Uses, Making, Visiting, Abandon
  <2> QED BY <1>b, <2>1, <2>3, <2>4, BeginsOn DEF Beginning, Abandon
<1>36. AbandonedEnds(t) => Goal
  BY <1>b, EndsOrdered DEF AbandonedEnds, Beginning
<1> HIDE DEF Goal
<1>37. NewJob(t) => Goal
  BY <1>1, <1>2, <1>3, <1>4, <1>5 DEF NewJob
<1>38. LoopStep(t) => Goal
  BY <1>6, <1>7, <1>8, <1>9, <1>10, <1>11, <1>12, <1>13, <1>14, <1>15, <1>16, <1>17, <1>18,
     <1>19, <1>20, <1>21, <1>22, <1>23, <1>24, <1>25, <1>26, <1>27, <1>28,
     <1>35 DEF LoopStep
<1>39. ThreadStep(t) => Goal
  BY <1>29, <1>30, <1>31, <1>33, <1>34, <1>36 DEF ThreadStep
<1>40. Goal
  BY <1>37, <1>38, <1>39 DEF JobStep
<1> QED BY <1>40 DEF Goal

\* A task that takes a step has begun a job.
LEMMA Begins ==
  ASSUME TypeInv, NEW t \in Task, NewJob(t) \/ JobStep(t)
  PROVE  job'[t].pc # "none"
<1> USE DEF At
<1> DEFINE Goal == job'[t].pc # "none"
<1>a. /\ Sound(job[t]) /\ \A n : Become(t, n) => job'[t] = n
  BY Became DEF TypeInv
<1>b. \A n, p : n \in Job /\ Become(t, [n EXCEPT !.pc = p]) => job'[t].pc = p
  BY <1>a DEF Job
<1>c. /\ Become(t, Done) => Goal
      /\ \A j, e : Become(t, AfterSwitch(j, e)) \/ Become(t, PinnedRequest(j, e)) => Goal
  BY <1>a DEF Done, AfterSwitch, PinnedRequest, NoJob
<1>d. GiveUp(t) => Goal
  BY <1>c DEF GiveUp
<1>e. ASSUME NEW j \in Job, NEW l, NEW want, j.pc = "gate", EnterSwitch(t, j, l, want) PROVE Goal
  BY <1>a, <1>b, <1>c, <1>e DEF EnterSwitch, Reuse, Job
<1>f. ASSUME NEW j \in Job, NEW l, NEW u, MarkAndQueue(t, j, l, u) PROVE Goal
  BY <1>a, <1>f DEF MarkAndQueue, Job
<1>g. ASSUME NEW j \in Job, NEW v, NEW f, TryEvict(t, j, v, f) PROVE Goal
  BY <1>a, <1>g DEF TryEvict, Job
<1>h. ASSUME NEW j, Sound(j), BeginLoad(t, j) PROVE Goal
  BY <1>a, <1>d, <1>h DEF BeginLoad, Sound, Job
<1>i. ASSUME NEW j \in Job, NEW l, NEW u, Walk(t, j, l, u) PROVE Goal
  <2>1. PICK S \in SUBSET j.todo : Walk(t, j, l, u)!(S)
    BY <1>i DEF Walk
  <2> DEFINE k == [j EXCEPT !.todo = @ \ S, !.kept = @ \cup {m \in S : engines[m] \in loaded}]
             Visit(m) == [k EXCEPT !.todo = @ \ {m}, !.m = m, !.eng = engines[m]]
  <2>2. /\ DOMAIN k = DOMAIN j /\ "pc" \in DOMAIN j
        /\ \A m : DOMAIN Visit(m) = DOMAIN j
    BY DEF Job
  <2> HIDE DEF k
  <2>3. CASE Become(t, [k EXCEPT !.pc = "all_rest", !.m = NONE, !.eng = NONE, !.gate = NONE])
    BY <1>a, <2>2, <2>3
  <2>4. ASSUME NEW m, Become(t, [Visit(m) EXCEPT !.pc = "all_reading", !.tried = TRUE, !.gate = NONE])
        PROVE  Goal
    BY <1>a, <2>2, <2>4
  <2>5. ASSUME NEW m, MarkAndQueue(t, Visit(m), l, u) PROVE Goal
    BY <1>a, <2>2, <2>5 DEF MarkAndQueue
  <2> QED BY <1>c, <2>1, <2>3, <2>4, <2>5 DEF k
<1>1. ASSUME NEW m \in Model, NEW b \in BOOLEAN, Request(t, m, b) PROVE Goal
  BY <1>1, <1>a, <1>c DEF Request, NoJob
<1>2. ASSUME NEW m \in Model, NEW b \in BOOLEAN, Switch(t, m, b) PROVE Goal
  BY <1>2, <1>a DEF Switch, NoJob
<1>3. ASSUME NEW m \in Model, NEW b \in BOOLEAN, Unload(t, m, b) PROVE Goal
  <2> DEFINE j == [NoJob EXCEPT !.kind = "unload", !.m = m, !.force = b, !.eng = engines[m]]
  <2>1. engines[m] \in Objects
    BY <1>3 DEF Unload, TypeInv
  <2>2. j \in Job
    BY <2>1, NoJobSound, Somewhere DEF Job, JobKinds
  <2>3. MarkAndQueue(t, j, line, unloading) \/ Become(t, [j EXCEPT !.pc = "unload_wait"])
    BY <1>3 DEF Unload
  <2> HIDE DEF j
  <2> QED BY <1>b, <1>f, <2>2, <2>3
<1>4. ASSUME NEW m \in Model, IdleUnload(t, m) PROVE Goal
  BY <1>4, <1>a DEF IdleUnload, NoJob
<1>5. ASSUME NEW b \in BOOLEAN, UnloadAll(t, b) PROVE Goal
  <2> DEFINE j == [NoJob EXCEPT !.kind = "unload_all", !.force = b]
             names == {m \in Model : engines[m] # NONE}
  <2>1. j \in Job /\ [j EXCEPT !.todo = names] \in Job
    BY NoJobSound, Somewhere DEF Job, JobKinds
  <2>2. \/ Become(t, [j EXCEPT !.pc = "all_wait"])
        \/ Walk(t, [j EXCEPT !.todo = names], line, unloading)
    BY <1>5 DEF UnloadAll
  <2> HIDE DEF j, names
  <2> QED BY <1>b, <1>i, <2>1, <2>2
<1>6. QueueSwitch(t) => Goal
  <2> HAVE QueueSwitch(t)
  <2> DEFINE g == GateOf(job[t].m)
             j == [job[t] EXCEPT !.gate = g, !.pc = "gate"]
  <2>1. g \in Objects
    BY GateOfIsGate DEF QueueSwitch, TypeInv, LineInv, Named
  <2>2. EnterSwitch(t, j, Join(t, j.gate), desired') \/ Become(t, j)
    BY DEF QueueSwitch
  <2> HIDE DEF g
  <2>3. j \in Job /\ j.pc = "gate"
    BY <1>a, <2>1, Somewhere DEF Sound, Job
  <2> HIDE DEF j
  <2> QED BY <1>a, <1>e, <2>2, <2>3
<1>7. GateGranted(t) => Goal
  BY <1>a, <1>e DEF GateGranted, Sound
<1>8. Recheck(t) => Goal
  BY <1>a, <1>c DEF Recheck, Reuse, Sound, Job
<1>9. Budget(t) => Goal
  BY <1>a, <1>c DEF Budget, Sound, Job
<1>10. Probe(t) => Goal
  BY <1>a, <1>b, <1>g, <1>h DEF Probe, Sound, Job
<1>11. Ladder(t) => Goal
  <2> DEFINE j == [job[t] EXCEPT !.tried = TRUE]
  <2>1. j \in Job
    BY <1>a DEF Sound, Job
  <2>2. ASSUME NEW v, NEW e, Become(t, [j EXCEPT !.pc = "wait_busy", !.victim = v, !.freed = e])
        PROVE  Goal
    BY <1>a, <2>1, <2>2 DEF Job
  <2> HIDE DEF j
  <2> QED BY <1>a, <1>d, <1>g, <1>h, <2>1, <2>2 DEF Ladder, j
<1>12. BusyWaitEnds(t) => Goal
  BY <1>a, <1>d, <1>g DEF BusyWaitEnds, Sound, Job
<1>13. Confirm(t) => Goal
  BY <1>a, <1>d, <1>g DEF Confirm, Sound
<1>14. Freed(t) => Goal
  BY <1>a DEF Freed, Sound, Job
<1>15. LoadFailed(t) => Goal
  BY <1>d DEF LoadFailed
<1>16. Commit(t) => Goal
  BY <1>c DEF Commit
<1>17. Prepared(t) => Goal
  BY <1>a, <1>c DEF Prepared, Sound, Job
<1>18. Produce(t) => Goal
  BY <1>a DEF Produce, Sound, Job
<1>19. Replied(t) => Goal
  BY <1>c DEF Replied
<1>20. UnloadWaitEnds(t) => Goal
  BY <1>a, <1>c, <1>f DEF UnloadWaitEnds, Sound
<1>21. UnloadGranted(t) => Goal
  BY <1>a, <1>b DEF UnloadGranted, Sound
<1>22. Unloaded(t) => Goal
  BY <1>c DEF Unloaded
<1>23. AllWaitEnds(t) => Goal
  <2> HAVE AllWaitEnds(t)
  <2> DEFINE names == {m \in Model : engines[m] # NONE}
             j == [job[t] EXCEPT !.todo = names]
  <2>1. names \subseteq Model
    OBVIOUS
  <2>2. Walk(t, j, line, unloading)
    BY DEF AllWaitEnds
  <2> HIDE DEF names
  <2>3. j \in Job
    BY <1>a, <2>1 DEF Sound, Job
  <2> HIDE DEF j
  <2> QED BY <1>i, <2>2, <2>3
<1>24. ReadingTaken(t) => Goal
  <2> HAVE ReadingTaken(t)
  <2> DEFINE k == [job[t] EXCEPT !.kept = @ \cup {job[t].m}]
  <2>1. job[t] \in Job /\ job[t].m \in Model
    BY <1>a DEF ReadingTaken, Sound, TypeInv, LineInv, Named
  <2>2. k \in Job
    BY <2>1 DEF Job
  <2>3. \/ Walk(t, job[t], line, unloading) \/ Walk(t, k, line, unloading)
        \/ MarkAndQueue(t, job[t], line, unloading)
    BY DEF ReadingTaken
  <2> HIDE DEF k
  <2> QED BY <1>f, <1>i, <2>1, <2>2, <2>3
<1>25. UnloadedGoOn(t) => Goal
  BY <1>a, <1>i DEF UnloadedGoOn, Sound
<1>26. AllReleased(t) => Goal
  BY <1>c DEF AllReleased
<1>27. IdleGranted(t) => Goal
  BY <1>a, <1>b, <1>c DEF IdleGranted, Sound
<1>28. IdleFreed(t) => Goal
  BY <1>c DEF IdleFreed
<1>29. FreeEnds(t) => Goal
  BY <1>a, <1>b DEF FreeEnds, Sound
<1>30. LoadEnds(t) => Goal
  BY <1>a, <1>b DEF LoadEnds, Sound
<1>31. LazyLoadEnds(t) => Goal
  BY <1>a DEF LazyLoadEnds, Sound, Job
<1>33. UnloadEnds(t) => Goal
  BY <1>a, <1>b DEF UnloadEnds, Sound
<1>34. IdleFreeEnds(t) => Goal
  BY <1>a, <1>b DEF IdleFreeEnds, Sound
<1>35. Abandon(t) => Goal
  BY <1>a DEF Abandon, Sound, Job
<1>36. AbandonedEnds(t) => Goal
  BY <1>c DEF AbandonedEnds
<1> HIDE DEF Goal
<1>37. NewJob(t) => Goal
  BY <1>1, <1>2, <1>3, <1>4, <1>5 DEF NewJob
<1>38. LoopStep(t) => Goal
  BY <1>6, <1>7, <1>8, <1>9, <1>10, <1>11, <1>12, <1>13, <1>14, <1>15, <1>16, <1>17, <1>18,
     <1>19, <1>20, <1>21, <1>22, <1>23, <1>24, <1>25, <1>26, <1>27, <1>28,
     <1>35 DEF LoopStep
<1>39. ThreadStep(t) => Goal
  BY <1>29, <1>30, <1>31, <1>33, <1>34, <1>36 DEF ThreadStep
<1>40. Goal
  BY <1>37, <1>38, <1>39 DEF JobStep
<1> QED BY <1>40 DEF Goal

\* While one task at most has begun a job, the pool is in the order that task's
\* job leaves it in.
AloneInv == /\ TypeInv
            /\ Task = {} => IsInjective(lru) /\ Orderly(NoJob)
            /\ \A t \in Task : Alone(t) => IsInjective(lru) /\ Orderly(job[t])

LEMMA AloneInvInit == Init => AloneInv
<1> SUFFICES ASSUME Init PROVE AloneInv
  OBVIOUS
<1> USE PoolAssumption
<1>1. TypeInv
  BY TypeInvInit
<1>2. /\ lru \in Seq(Model) /\ ToSet(lru) \subseteq Model
      /\ lru # << >> <=> ToSet(lru) # {}
  BY <1>1, Listed DEF TypeInv, PoolTyped
<1>3. IsInjective(lru)
  BY DEF Init
<1>4. PICK idle \in SUBSET (Model \ ToSet(lru)) :
        engines = [m \in Model |-> IF m \in ToSet(lru) \cup idle THEN <<m, 1>> ELSE NONE]
  BY DEF Init
<1>5. \A m \in Model : <<m, 1>> \in Object(m) /\ <<m, 1>> # NONE
  BY FirstObject DEF Objects, Object
<1>6. loaded = {<<m, 1>> : m \in ToSet(lru)}
  BY DEF Init
<1>7. InOrder
  <2>1. ASSUME NEW x \in Model
        PROVE  /\ engines[x] # NONE => engines[x] \in Object(x)
               /\ x \in ToSet(lru) <=> engines[x] # NONE /\ engines[x] \in loaded
               /\ engines[x] \notin unloading
    <3>1. unloading = {}
      BY DEF Init
    <3> QED BY <1>4, <1>5, <1>6, <3>1
  <2>2. ASSUME NEW e \in loaded PROVE \E x \in Model : engines[x] = e
    BY <1>2, <1>4, <1>6
  <2> QED BY <2>1, <2>2 DEF InOrder
<1>8. Orderly(NoJob)
  <2>1. NoJob.pc = "none" /\ NoJob.kind = NONE
    BY DEF NoJob
  <2>2. Registry(NoJob)
    BY <1>7, <2>1, PlainIsInOrder DEF Plain
  <2>3. Points(NoJob) /\ Resolves(NoJob)
    BY <1>2 DEF Init, Points, Resolves
  <2>4. Loads(NoJob) /\ Uses(NoJob)
    BY <2>1 DEF Loads, Uses, Making, Visiting
  <2> QED BY <2>2, <2>3, <2>4 DEF Orderly
<1>9. \A t \in Task : job[t] = NoJob
  BY DEF Init
<1> QED BY <1>1, <1>3, <1>8, <1>9 DEF AloneInv

LEMMA AloneInvKept == AloneInv /\ [Next]_vars => AloneInv'
<1> SUFFICES ASSUME AloneInv, [Next]_vars PROVE AloneInv'
  OBVIOUS
<1>1. TypeInv'
  BY TypeInvKept DEF AloneInv
<1>2. CASE UNCHANGED vars
  BY <1>1, <1>2 DEF AloneInv, Alone, Orderly, Registry, Points, Resolves, Loads, Uses,
                    ResolveUnnamed, vars, pool
<1>3. ASSUME NEW t \in Task, NewJob(t) \/ JobStep(t) PROVE AloneInv'
  <2>1. job'[t].pc # "none"
    BY <1>3, Begins DEF AloneInv
  <2>2. \A u \in Task \ {t} : job'[u] = job[u]
    <3>1. Takes(t)
      BY <1>3, TaskTyped DEF AloneInv
    <3> QED BY <3>1 DEF Takes, Become, AloneInv, TypeInv, LineInv, Shaped
  <2>3. ASSUME NEW u \in Task, Alone(u)' PROVE IsInjective(lru)' /\ Orderly(job[u])'
    <3>1. u = t
      BY <2>1, <2>3 DEF Alone
    <3>2. Alone(t)
      BY <2>2, <2>3, <3>1 DEF Alone
    <3>3. LoneInv(t)
      BY <3>2 DEF AloneInv, LoneInv
    <3> QED BY <1>3, <3>1, <3>3, TaskOrdered DEF Ordered
  <2> QED BY <1>1, <2>3 DEF AloneInv
<1> QED BY <1>2, <1>3 DEF Next

\* SettledBetweenJobs, where no two jobs were done yet: whatever the one job was,
\* and however it ended, it left the pool in a state jobs may begin in, for any
\* models and tasks.
THEOREM SettledAfterOne ==
  Spec => [](Cardinality({t \in Task : At(t, "done")}) <= 1 => SettledBetweenJobs)
<1> DEFINE over == {t \in Task : At(t, "done")}
           Idle == \A t \in Task : job[t].kind = NONE
<1>1. AloneInv /\ RestInv /\ (Idle => NothingIsHeld)
        => (Cardinality(over) <= 1 => SettledBetweenJobs)
  <2> SUFFICES ASSUME AloneInv, RestInv, Idle, NothingIsHeld, Cardinality(over) <= 1
               PROVE  SettledBetweenJobs
    BY DEF SettledBetweenJobs
  <2>1. \A t \in Task : job[t].pc \in {"none", "done"}
    BY DEF RestInv, Kinded
  <2>2. \A t, u \in over : t = u
    <3> SUFFICES ASSUME NEW t \in over, NEW u \in over, t # u PROVE FALSE
      OBVIOUS
    <3>1. IsFiniteSet(over)
      <4>1. IsFiniteSet(Task) /\ over \subseteq Task
        BY PoolAssumption
      <4> QED BY <4>1, FS_Subset
    <3>2. {t, u} \subseteq over
      OBVIOUS
    <3> HIDE DEF over
    <3>3. Cardinality({t, u}) <= Cardinality(over) /\ Cardinality(over) \in Nat
      BY <3>1, <3>2, FS_Subset, FS_CardinalityType
    <3>4. Cardinality({t, u}) = 2
      <4> DEFINE one == {t}
      <4>1. IsFiniteSet(one) /\ Cardinality(one) = 1
        BY FS_Singleton
      <4>2. u \notin one /\ {t, u} = one \cup {u}
        OBVIOUS
      <4> HIDE DEF one
      <4>3. Cardinality(one \cup {u}) = Cardinality(one) + 1
        BY <4>1, <4>2, FS_AddElement
      <4> QED BY <4>1, <4>2, <4>3
    <3> QED BY <3>3, <3>4
  <2>3. \E j : j.pc \in {"none", "done"} /\ IsInjective(lru) /\ Orderly(j)
    <3>1. CASE Task = {}
      BY <3>1 DEF AloneInv, NoJob
    <3>2. CASE Task # {}
      <4>1. \E t \in Task : Alone(t)
        <5>1. CASE over = {}
          BY <2>1, <3>2, <5>1 DEF Alone, At
        <5>2. CASE over # {}
          BY <2>1, <2>2, <5>2 DEF Alone, At
        <5> QED BY <5>1, <5>2
      <4> QED BY <2>1, <4>1 DEF AloneInv
    <3> QED BY <3>1, <3>2
  <2>4. /\ InOrder /\ IsInjective(lru)
        /\ active # NONE => active \in ToSet(lru)
        /\ ToSet(lru) # {} => ResolveUnnamed # NONE
    BY <2>3, PlainIsInOrder DEF Plain, Orderly, Points, Resolves, Making
  <2>5. ToSet(lru) \subseteq Model /\ (lru # << >> => ToSet(lru) # {})
    BY Listed DEF AloneInv, TypeInv, PoolTyped
  <2>6. ToSet(lru) = {m \in Model : engines[m] # NONE /\ engines[m] \in loaded}
    BY <2>4, <2>5 DEF InOrder
  <2>7. \A m \in Model : engines[m] \notin unloading
    BY <2>4 DEF InOrder
  <2>8. \A e \in loaded : \E m \in Model : engines[m] = e
    BY <2>4 DEF InOrder
  <2> HIDE DEF over
  <2> QED BY <2>4, <2>5, <2>6, <2>7, <2>8 DEF SettledBetweenJobs
<1>2. Spec => []AloneInv
  BY AloneInvInit, AloneInvKept, PTL DEF Spec
<1> QED BY <1>1, <1>2, RestInvHolds, NothingIsHeldOver, PTL
=============================================================================
