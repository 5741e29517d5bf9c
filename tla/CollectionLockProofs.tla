------------------------ MODULE CollectionLockProofs ------------------------
(***************************************************************************)
(* The safety of CollectionLock for every set of writers and processes and *)
(* every length of the intervals.                                          *)
(*                                                                         *)
(* A running holder is kept for two reasons, each enough: it touches its   *)
(* file in time, so that no watch of it gets long enough (WatchesAreShort, *)
(* OwnerIsInTime), or it can be proven to run (HolderBeats).  Exclusion    *)
(* needs more: that only the owner of the file is inside, which a crash    *)
(* and two takeovers at once would break (OwnerIsAlone).                   *)
(***************************************************************************)
EXTENDS CollectionLock, TLAPS

\* No watch is longer than the file is untouched.
WatchesAreShort ==
  /\ \A p \in Process : watch[p] # NONE => watch[p] <= age
  /\ \A w \in Writer : judged[w] # NONE => judged[w] <= age

\* Owning, for the owner of the file.
OwnerIsInTime ==
  Timely => \A w \in Writer : file.by = w /\ pc[w] \in Owning => age < Confirm

\* The record names its creator, and a holder whose file is there beats.
HolderBeats ==
  \A w \in Writer : file.by = w =>
    /\ file.token \in {NONE, w}
    /\ pc[w] = "hold" => file.token = w
    /\ pc[w] \in {"created", "record"} => file.token = NONE
    /\ pc[w] \in {"record", "hold"} => heart[w] # "off"

IInv == TypeOK /\ WatchesAreShort /\ OwnerIsInTime /\ HolderBeats
-----------------------------------------------------------------------------
LEMMA InitIInv == Init => IInv
BY LockAssumption DEF Init, IInv, TypeOK, WatchesAreShort, OwnerIsInTime, HolderBeats,
   NoFile, Places, Time, Longest, Owning

LEMMA LaterTime ==
  ASSUME NEW m \in Time, NEW n \in Time \cup {NONE}
  PROVE  /\ Later(n) \in Time \cup {NONE}
         /\ Later(m) \in Time
         /\ n = NONE <=> Later(n) = NONE
         /\ n # NONE /\ n <= m => Later(n) <= Later(m)
         /\ Later(m) <= m + 1
BY LockAssumption DEF Later, Time, Longest

\* What a change of the file establishes.
LEMMA ChangedPreserves ==
  ASSUME TypeOK, NEW f \in [by : Writer, token : Writer \cup {NONE}] \cup {NoFile},
         Changed(f)
  PROVE  /\ file' \in [by : Writer, token : Writer \cup {NONE}] \cup {NoFile}
         /\ watch' \in [Process -> Time \cup {NONE}]
         /\ judged' \in [Writer -> Time \cup {NONE}]
         /\ age' \in Time
         /\ calm' \in BOOLEAN
         /\ WatchesAreShort'
         /\ OwnerIsInTime'
BY LockAssumption DEF TypeOK, Changed, WatchesAreShort, OwnerIsInTime, Time, Longest

LEMMA StepIInv == IInv /\ [Next]_vars => IInv'
<1> SUFFICES ASSUME IInv, [Next]_vars PROVE IInv'
  OBVIOUS
<1> USE LockAssumption
<1>1. ASSUME NEW w \in Writer, Call(w) PROVE IInv'
  BY <1>1 DEF IInv, TypeOK, WatchesAreShort, OwnerIsInTime, HolderBeats, Call, Goto,
     SameFile, Places, Owning
<1>2. ASSUME NEW w \in Writer, Create(w) PROVE IInv'
  <2>1. [by |-> w, token |-> NONE] \in [by : Writer, token : Writer \cup {NONE}] \cup {NoFile}
    OBVIOUS
  <2>2. TypeOK' /\ WatchesAreShort' /\ OwnerIsInTime'
    BY <1>2, <2>1, ChangedPreserves DEF IInv, TypeOK, Create, Goto, Places
  <2>3. HolderBeats'
    BY <1>2 DEF IInv, TypeOK, HolderBeats, Create, Goto, Changed
  <2> QED BY <2>2, <2>3 DEF IInv
<1>3. ASSUME NEW w \in Writer, Judge(w) PROVE IInv'
  <2> DEFINE quiet == IF Watched(w) = NONE THEN 0 ELSE Watched(w)
  <2>1. quiet \in Time /\ quiet <= age /\ ProcessOf[w] \in Process
    BY DEF IInv, TypeOK, WatchesAreShort, Watched, Time, Longest
  <2>2. /\ watch' = [watch EXCEPT ![ProcessOf[w]] = quiet]
        /\ judged' = judged \/ judged' = [judged EXCEPT ![w] = quiet]
        /\ \E p \in {"create", "idle", "recheck"} : Goto(w, p)
        /\ UNCHANGED <<file, heart, age, calm>>
    BY <1>3 DEF Judge
  <2> HIDE DEF quiet
  <2>3. TypeOK'
    BY <2>1, <2>2 DEF IInv, TypeOK, Goto, Places
  <2>4. WatchesAreShort'
    BY <2>1, <2>2 DEF IInv, TypeOK, WatchesAreShort
  <2>5. OwnerIsInTime'
    BY <2>2 DEF IInv, TypeOK, OwnerIsInTime, Goto, Owning
  <2>6. HolderBeats'
    BY <2>2 DEF IInv, TypeOK, HolderBeats, Goto
  <2> QED BY <2>3, <2>4, <2>5, <2>6 DEF IInv
<1>4. ASSUME NEW w \in Writer, NEW q \in {"create", "idle", "reclaim"}, Goto(w, q),
             UNCHANGED heart, SameFile \/ Disturbed
      PROVE  IInv'
  BY <1>4 DEF IInv, TypeOK, WatchesAreShort, OwnerIsInTime, HolderBeats, Goto,
     SameFile, Disturbed, Places, Owning
<1>5. ASSUME NEW w \in Writer, Recheck(w) PROVE IInv'
  BY <1>4, <1>5 DEF Recheck
<1>6. ASSUME NEW w \in Writer, NEW q \in Places \ {"record", "hold"}, Goto(w, q),
             UNCHANGED heart, Changed(NoFile)
      PROVE  IInv'
  <2>1. TypeOK' /\ WatchesAreShort' /\ OwnerIsInTime'
    BY <1>6, ChangedPreserves DEF IInv, TypeOK, Goto
  <2>2. HolderBeats'
    BY <1>6 DEF IInv, TypeOK, HolderBeats, Changed, NoFile
  <2> QED BY <2>1, <2>2 DEF IInv
<1>7. ASSUME NEW w \in Writer, Reclaim(w) PROVE IInv'
  BY <1>4, <1>6, <1>7 DEF Reclaim, Places
<1>8. ASSUME NEW w \in Writer, ReclaimFails(w) PROVE IInv'
  BY <1>4, <1>8 DEF ReclaimFails
<1>9. ASSUME NEW w \in Writer, StartHeart(w) PROVE IInv'
  <2>1. TypeOK' /\ WatchesAreShort' /\ OwnerIsInTime'
    BY <1>9 DEF IInv, TypeOK, WatchesAreShort, OwnerIsInTime, StartHeart, Goto, SameFile,
       Places, Owning
  <2>2. HolderBeats'
    BY <1>9 DEF IInv, TypeOK, HolderBeats, StartHeart, Goto, SameFile
  <2> QED BY <2>1, <2>2 DEF IInv
<1>10. ASSUME NEW w \in Writer, WriteRecord(w) PROVE IInv'
  <2>1. CASE file.by = w
    <3> DEFINE f == [file EXCEPT !.token = w]
    <3>1. f = [by |-> w, token |-> w]
      BY <2>1 DEF IInv, TypeOK, NoFile
    <3>2. f \in [by : Writer, token : Writer \cup {NONE}] \cup {NoFile}
      BY <3>1
    <3>3. Changed(f)
      BY <1>10, <2>1 DEF WriteRecord
    <3> HIDE DEF f
    <3>4. TypeOK' /\ WatchesAreShort' /\ OwnerIsInTime'
      BY <1>10, <3>2, <3>3, ChangedPreserves DEF IInv, TypeOK, WriteRecord, Goto, Places
    <3>5. HolderBeats'
      BY <1>10, <2>1, <3>1, <3>3 DEF IInv, TypeOK, HolderBeats, WriteRecord, Goto, Changed
    <3> QED BY <3>4, <3>5 DEF IInv
  <2>2. CASE file.by # w
    BY <1>10, <2>2 DEF IInv, TypeOK, WatchesAreShort, OwnerIsInTime, HolderBeats,
       WriteRecord, Goto, SameFile, Places, Owning
  <2> QED BY <2>1, <2>2
\* Steps of a writer that leave the file and end the heartbeat at most.
<1>11. ASSUME NEW w \in Writer, NEW q \in {"release", "undo"}, Goto(w, q), StopHeart(w),
              pc[w] \in {"created", "record", "hold"}, SameFile
       PROVE  IInv'
  <2>1. TypeOK' /\ WatchesAreShort' /\ OwnerIsInTime'
    BY <1>11 DEF IInv, TypeOK, WatchesAreShort, OwnerIsInTime, Goto, StopHeart, SameFile,
       Places, Owning
  <2>2. HolderBeats'
    BY <1>11 DEF IInv, TypeOK, HolderBeats, Goto, StopHeart, SameFile
  <2> QED BY <2>1, <2>2 DEF IInv
<1>12. ASSUME NEW w \in Writer, AcquireFails(w) PROVE IInv'
  BY <1>11, <1>12 DEF AcquireFails
<1>13. ASSUME NEW w \in Writer, Finish(w) PROVE IInv'
  BY <1>11, <1>13 DEF Finish
\* The heartbeat of a writer that beats its own file goes on.
<1>14. ASSUME NEW w \in Writer, NEW h \in {"off", "sleeps", "touches"},
              heart' = [heart EXCEPT ![w] = h], UNCHANGED pc,
              file.by = w /\ pc[w] \in {"record", "hold"} => h # "off",
              SameFile \/ Changed(file)
       PROVE  IInv'
  <2>1. file' = file /\ WatchesAreShort' /\ OwnerIsInTime'
        /\ watch' \in [Process -> Time \cup {NONE}]
        /\ judged' \in [Writer -> Time \cup {NONE}] /\ age' \in Time /\ calm' \in BOOLEAN
    <3>1. CASE SameFile
      BY <1>14, <3>1 DEF IInv, TypeOK, WatchesAreShort, OwnerIsInTime, SameFile
    <3>2. CASE Changed(file)
      <4>1. file' = file
        BY <3>2 DEF Changed
      <4> QED BY <3>2, <4>1, ChangedPreserves DEF IInv, TypeOK
    <3> QED BY <1>14, <3>1, <3>2
  <2>2. TypeOK'
    BY <1>14, <2>1 DEF IInv, TypeOK
  <2>3. HolderBeats'
    BY <1>14, <2>1 DEF IInv, TypeOK, HolderBeats
  <2> QED BY <2>1, <2>2, <2>3 DEF IInv
<1>15. ASSUME NEW w \in Writer, Beat(w) PROVE IInv'
  <2> DEFINE h == IF file.token \notin {NONE, w} THEN "off" ELSE "touches"
  <2>1. file.by = w => h # "off"
    BY DEF IInv, HolderBeats
  <2>2. heart' = [heart EXCEPT ![w] = h] /\ UNCHANGED pc /\ SameFile
    BY <1>15 DEF Beat
  <2>3. h \in {"off", "sleeps", "touches"}
    OBVIOUS
  <2> HIDE DEF h
  <2> QED BY <1>14, <2>1, <2>2, <2>3
<1>16. ASSUME NEW w \in Writer, Touch(w) PROVE IInv'
  <2> DEFINE h == IF file # NoFile /\ pc[w] \in {"record", "hold"} THEN "sleeps" ELSE "off"
  <2>1. file.by = w /\ pc[w] \in {"record", "hold"} => h # "off"
    BY DEF NoFile
  <2>2. heart' = [heart EXCEPT ![w] = h] /\ UNCHANGED pc /\ (SameFile \/ Changed(file))
    BY <1>16 DEF Touch
  <2>3. h \in {"off", "sleeps", "touches"}
    OBVIOUS
  <2> HIDE DEF h
  <2> QED BY <1>14, <2>1, <2>2, <2>3
<1>17. ASSUME NEW w \in Writer, TouchFails(w) PROVE IInv'
  <2> DEFINE h == IF pc[w] \in {"record", "hold"} THEN "sleeps" ELSE "off"
  <2>1. file.by = w /\ pc[w] \in {"record", "hold"} => h # "off"
    OBVIOUS
  <2>2. heart' = [heart EXCEPT ![w] = h] /\ UNCHANGED pc /\ SameFile
    BY <1>17 DEF TouchFails
  <2>3. h \in {"off", "sleeps", "touches"}
    OBVIOUS
  <2> HIDE DEF h
  <2> QED BY <1>14, <2>1, <2>2, <2>3
\* Steps of a release or of an undone acquisition that leave the file.
<1>18. ASSUME NEW w \in Writer, pc[w] \in {"release", "remove", "undo", "undo_again"},
              NEW q \in {"idle", "release", "remove", "undo", "undo_again"},
              Goto(w, q), UNCHANGED heart, SameFile \/ Disturbed
       PROVE  IInv'
  BY <1>18 DEF IInv, TypeOK, WatchesAreShort, OwnerIsInTime, HolderBeats, Goto,
     SameFile, Disturbed, Places, Owning
<1>19. ASSUME NEW w \in Writer, ReadOwn(w) PROVE IInv'
  BY <1>18, <1>19 DEF ReadOwn
<1>20. ASSUME NEW w \in Writer, ReadAgain(w) PROVE IInv'
  BY <1>18, <1>20 DEF ReadAgain
<1>21. ASSUME NEW w \in Writer, RemoveFails(w) PROVE IInv'
  BY <1>18, <1>21 DEF RemoveFails
<1>22. ASSUME NEW w \in Writer, Remove(w) PROVE IInv'
  BY <1>6, <1>18, <1>22 DEF Remove, Places
<1>23. ASSUME NEW p \in Process, Crash(p) PROVE IInv'
  <2>1. TypeOK'
    BY <1>23 DEF IInv, TypeOK, Crash, Disturbed, Places
  <2>2. WatchesAreShort' /\ OwnerIsInTime'
    BY <1>23 DEF IInv, TypeOK, WatchesAreShort, OwnerIsInTime, Crash, Disturbed, Owning
  <2>3. HolderBeats'
    BY <1>23 DEF IInv, TypeOK, HolderBeats, Crash, Disturbed
  <2> QED BY <2>1, <2>2, <2>3 DEF IInv
<1>24. ASSUME Tick PROVE IInv'
  <2>1. age' = Later(age) /\ watch' = [p \in Process |-> Later(watch[p])]
        /\ UNCHANGED <<file, pc, heart, judged, calm>>
    BY <1>24 DEF Tick
  <2>2. age \in Time /\ age' \in Time /\ age <= age' /\ age' <= age + 1
    BY <2>1, LaterTime DEF IInv, TypeOK, Later, Time, Longest
  <2>3. \A p \in Process : /\ watch'[p] \in Time \cup {NONE}
                           /\ watch'[p] # NONE => watch'[p] <= age'
    BY <2>1, <2>2, LaterTime DEF IInv, TypeOK, WatchesAreShort
  <2>4. TypeOK'
    BY <2>1, <2>2, <2>3 DEF IInv, TypeOK
  <2>5. WatchesAreShort'
    BY <2>1, <2>2, <2>3 DEF IInv, TypeOK, WatchesAreShort, Time, Longest
  <2>6. OwnerIsInTime'
    BY <1>24, <2>1, <2>2 DEF IInv, OwnerIsInTime, Tick, Time, Longest
  <2>7. HolderBeats'
    BY <2>1 DEF IInv, HolderBeats
  <2> QED BY <2>4, <2>5, <2>6, <2>7 DEF IInv
<1>25. CASE UNCHANGED vars
  BY <1>25 DEF vars, IInv, TypeOK, WatchesAreShort, OwnerIsInTime, HolderBeats
<1> QED
  BY <1>1, <1>2, <1>3, <1>5, <1>7, <1>8, <1>9, <1>10, <1>12, <1>13, <1>15, <1>16, <1>17,
     <1>19, <1>20, <1>21, <1>22, <1>23, <1>24, <1>25
     DEF Next, WriterStep, HeartStep, Fault

THEOREM Invariant == Spec => []IInv
BY InitIInv, StepIInv, PTL DEF Spec

\* The variables have their types (TypeOK), whatever crashes and fails.
THEOREM TypeCorrect == Spec => []TypeOK
BY Invariant, PTL DEF IInv
-----------------------------------------------------------------------------
\* Only a recheck decides to reclaim.
LEMMA OnlyRecheckReclaims ==
  ASSUME TypeOK, [Next]_vars,
         NEW w \in Writer, pc[w] = "recheck", pc'[w] = "reclaim"
  PROVE  Recheck(w)
<1>1. ASSUME NEW v \in Writer, NEW q \in Places, Goto(v, q)
      PROVE  v = w /\ q = "reclaim"
  BY <1>1 DEF TypeOK, Goto
<1>2. ~UNCHANGED pc
  OBVIOUS
<1>3. ASSUME NEW v \in Writer, Call(v) \/ WriterStep(v) \/ HeartStep(v) \/ Fault(v)
      PROVE  Recheck(w)
  <2>1. CASE Recheck(v)
    BY <1>1, <2>1 DEF Recheck, Places
  <2>2. CASE Reclaim(v)
    BY <1>1, <2>2 DEF Reclaim, Places
  <2>3. CASE Call(v) \/ Create(v) \/ StartHeart(v) \/ WriteRecord(v) \/ Finish(v)
    BY <1>1, <2>3 DEF Call, Create, StartHeart, WriteRecord, Finish, Places
  <2>4. CASE Judge(v)
    BY <1>1, <2>4 DEF Judge, Places
  <2>5. CASE ReadOwn(v) \/ ReadAgain(v) \/ Remove(v)
    BY <1>1, <2>5 DEF ReadOwn, ReadAgain, Remove, Places
  <2>6. CASE HeartStep(v)
    BY <1>2, <2>6 DEF HeartStep, Beat, Touch
  <2>7. CASE Fault(v)
    BY <1>1, <1>2, <2>7 DEF Fault, ReclaimFails, AcquireFails, TouchFails, RemoveFails, Places
  <2> QED BY <1>3, <2>1, <2>2, <2>3, <2>4, <2>5, <2>6, <2>7 DEF WriterStep
<1>4. ASSUME NEW p \in Process, Crash(p) PROVE Recheck(w)
  BY <1>4 DEF TypeOK, Crash
<1>5. ASSUME Tick PROVE Recheck(w)
  BY <1>2, <1>5 DEF Tick
<1> QED BY <1>2, <1>3, <1>4, <1>5 DEF Next, vars

\* The recheck of a lock whose holder is running ends without a decision.
LEMMA RecheckKeeps ==
  ASSUME IInv, Timely \/ ~ProbesFail,
         NEW w \in Writer, Recheck(w), pc'[w] = "reclaim"
  PROVE  pc[file.by] # "hold"
<1> DEFINE h == file.by
<1> SUFFICES ASSUME pc[h] = "hold" PROVE FALSE
  OBVIOUS
<1>1. PICK live \in Liveness(w, file.token) :
        /\ file # NoFile /\ judged[w] # NONE
        /\ MayBeStale(judged[w], live)
  BY DEF Recheck, Goto, IInv, TypeOK
<1>2. h \in Writer
  BY <1>1 DEF IInv, TypeOK
<1>3. CASE Timely
  <2>1. age < Confirm
    BY <1>2, <1>3 DEF IInv, OwnerIsInTime, Owning
  <2>2. judged[w] <= age
    BY <1>1 DEF IInv, WatchesAreShort
  <2> QED
    BY <1>1, <2>1, <2>2, LockAssumption DEF IInv, TypeOK, MayBeStale, Time, Longest
<1>4. CASE ~ProbesFail
  <2>1. file.token = h /\ heart[h] # "off"
    BY <1>2 DEF IInv, HolderBeats
  <2>2. Calls(h) /\ pc[h] # "dead" /\ h # NONE
    BY <1>2, LockAssumption DEF Calls
  <2>3. Liveness(w, file.token) = {"alive"}
    BY <1>4, <2>1, <2>2 DEF Liveness
  <2> QED BY <1>1, <2>3 DEF MayBeStale
<1> QED BY <1>3, <1>4

\* If holders touch their file in time, or liveness probes have an answer, nobody
\* decides to remove the lock of a running holder (RunningHolderIsKept), whatever
\* processes die, calls fail and clocks read.
THEOREM RunningHolderKept ==
  ASSUME Timely \/ ~ProbesFail
  PROVE  Spec => RunningHolderIsKept
<1>1. IInv /\ [Next]_vars => [KeepsRunningHolder]_vars
  <2> SUFFICES ASSUME IInv, [Next]_vars, NEW w \in Writer,
                      pc[w] = "recheck", pc'[w] = "reclaim"
               PROVE  pc[file.by] # "hold"
    BY DEF KeepsRunningHolder
  <2>1. Recheck(w)
    BY OnlyRecheckReclaims DEF IInv
  <2> QED BY <2>1, RecheckKeeps
<1> QED BY <1>1, Invariant, PTL DEF Spec, RunningHolderIsKept
-----------------------------------------------------------------------------
(***************************************************************************)
(* Exclusion, until somebody dies or an unlink is refused.                 *)
(***************************************************************************)
\* Whoever is past the create owns the file, the file has an owner there, and
\* nobody reclaims.
OwnerIsAlone ==
  /\ \A w \in Writer : pc[w] \notin {"recheck", "reclaim", "dead"}
  /\ \A w \in Writer : pc[w] \in Owning => file.by = w
  /\ \A w \in Writer : file.by = w => pc[w] \in Owning
  /\ \A w \in Writer : pc[w] \in {"release", "remove"} => file.token = w

LEMMA InitOwner == Init => OwnerIsAlone
BY LockAssumption DEF Init, OwnerIsAlone, NoFile, Owning

\* A judged file has an owner, which is in time: no watch is long enough.
LEMMA JudgedIsKept ==
  ASSUME IInv, OwnerIsAlone, Timely, calm, NEW w \in Writer, Judge(w)
  PROVE  \E p \in {"create", "idle"} : Goto(w, p)
<1> DEFINE quiet == IF Watched(w) = NONE THEN 0 ELSE Watched(w)
<1>1. file.by \in Writer
  BY DEF Judge, IInv, TypeOK
<1>2. age < Confirm
  BY <1>1 DEF IInv, OwnerIsAlone, OwnerIsInTime
<1>3. quiet \in Time /\ quiet <= age
  BY LockAssumption DEF IInv, TypeOK, WatchesAreShort, Watched, Time, Longest
<1>4. ~(quiet >= Confirm)
  BY <1>2, <1>3, LockAssumption DEF IInv, TypeOK, Time, Longest
<1> QED BY <1>4 DEF Judge, MayBeStale

LEMMA CalmEnds == [Next]_vars /\ ~calm => ~calm'
BY DEF Next, WriterStep, HeartStep, Fault, Call, Create, Judge, Recheck, Reclaim, StartHeart,
       WriteRecord, Finish, ReadOwn, ReadAgain, Remove, Beat, Touch, ReclaimFails, AcquireFails,
       TouchFails, RemoveFails, Crash, Tick, Changed, SameFile, Disturbed, vars

LEMMA StepOwner == IInv /\ OwnerIsAlone /\ Timely /\ calm /\ [Next]_vars => (calm => OwnerIsAlone)'
<1> SUFFICES ASSUME IInv, OwnerIsAlone, Timely, calm, [Next]_vars PROVE (calm => OwnerIsAlone)'
  OBVIOUS
<1> USE LockAssumption
\* A writer moves between places that own the file, or that do not.
<1>1. ASSUME NEW w \in Writer, NEW q \in Places, Goto(w, q), UNCHANGED file,
             q \notin {"recheck", "reclaim", "dead"},
             pc[w] \in Owning <=> q \in Owning,
             q \in {"release", "remove"} => file.token = w
      PROVE  (calm => OwnerIsAlone)'
  BY <1>1 DEF IInv, TypeOK, OwnerIsAlone, Goto
<1>2. ASSUME NEW w \in Writer, Call(w) PROVE (calm => OwnerIsAlone)'
  BY <1>1, <1>2 DEF Call, SameFile, Places, Owning
<1>3. ASSUME NEW w \in Writer, Create(w) PROVE (calm => OwnerIsAlone)'
  <2>1. \A v \in Writer : pc[v] \notin Owning
    BY <1>3 DEF Create, OwnerIsAlone, NoFile
  <2> QED BY <1>3, <2>1 DEF IInv, TypeOK, OwnerIsAlone, Create, Goto, Changed, Owning
<1>4. ASSUME NEW w \in Writer, Judge(w) PROVE (calm => OwnerIsAlone)'
  <2>1. PICK q \in {"create", "idle"} : Goto(w, q)
    BY <1>4, JudgedIsKept
  <2> QED BY <1>1, <1>4, <2>1 DEF Judge, Places, Owning
<1>5. ASSUME NEW w \in Writer, Recheck(w) \/ Reclaim(w) \/ ReclaimFails(w)
      PROVE  (calm => OwnerIsAlone)'
  BY <1>5 DEF OwnerIsAlone, Recheck, Reclaim, ReclaimFails
<1>6. ASSUME NEW w \in Writer, StartHeart(w) PROVE (calm => OwnerIsAlone)'
  BY <1>1, <1>6 DEF StartHeart, SameFile, Places, Owning
<1>7. ASSUME NEW w \in Writer, WriteRecord(w) PROVE (calm => OwnerIsAlone)'
  <2>1. file.by = w /\ Changed([file EXCEPT !.token = w])
    BY <1>7 DEF OwnerIsAlone, WriteRecord, Owning
  <2>2. file' = [by |-> w, token |-> w]
    BY <2>1 DEF IInv, TypeOK, Changed, NoFile
  <2> QED BY <1>7, <2>1, <2>2 DEF IInv, TypeOK, OwnerIsAlone, WriteRecord, Goto, Owning
<1>8. ASSUME NEW w \in Writer, AcquireFails(w) PROVE (calm => OwnerIsAlone)'
  BY <1>1, <1>8 DEF AcquireFails, SameFile, Places, Owning
<1>9. ASSUME NEW w \in Writer, Beat(w) \/ Touch(w) \/ TouchFails(w) PROVE (calm => OwnerIsAlone)'
  <2>1. UNCHANGED pc /\ file' = file
    BY <1>9 DEF Beat, Touch, TouchFails, SameFile, Changed
  <2> QED BY <2>1 DEF OwnerIsAlone
<1>10. ASSUME NEW w \in Writer, Finish(w) PROVE (calm => OwnerIsAlone)'
  <2>1. file.token = w
    BY <1>10 DEF IInv, HolderBeats, OwnerIsAlone, Finish, Owning
  <2> QED BY <1>1, <1>10, <2>1 DEF Finish, SameFile, Places, Owning
<1>11. ASSUME NEW w \in Writer, ReadOwn(w) PROVE (calm => OwnerIsAlone)'
  <2>1. file.token = w
    BY <1>11 DEF OwnerIsAlone, ReadOwn
  <2> QED BY <1>1, <1>11, <2>1 DEF ReadOwn, SameFile, Places, Owning
<1>12. ASSUME NEW w \in Writer, ReadAgain(w) PROVE (calm => OwnerIsAlone)'
  <2>1. file.by = w /\ file.token \in {NONE, w} /\ file # NoFile
    BY <1>12 DEF IInv, HolderBeats, OwnerIsAlone, ReadAgain, Owning, NoFile
  <2> QED BY <1>1, <1>12, <2>1 DEF ReadAgain, SameFile, Places, Owning
<1>13. ASSUME NEW w \in Writer, Remove(w) PROVE (calm => OwnerIsAlone)'
  <2>1. file.by = w /\ file # NoFile
    BY <1>13 DEF OwnerIsAlone, Remove, Owning, NoFile
  <2>2. \A v \in Writer : pc[v] \in Owning => v = w
    BY <2>1 DEF OwnerIsAlone
  <2> QED
    BY <1>13, <2>1, <2>2 DEF IInv, TypeOK, OwnerIsAlone, Remove, Goto, Changed, NoFile, Owning
<1>14. ASSUME NEW w \in Writer, RemoveFails(w) PROVE (calm => OwnerIsAlone)'
  BY <1>14 DEF RemoveFails, Disturbed
<1>15. ASSUME NEW p \in Process, Crash(p) PROVE (calm => OwnerIsAlone)'
  BY <1>15 DEF Crash, Disturbed
<1>16. ASSUME Tick \/ UNCHANGED vars PROVE (calm => OwnerIsAlone)'
  BY <1>16 DEF OwnerIsAlone, Tick, vars
<1> QED
  BY <1>2, <1>3, <1>4, <1>5, <1>6, <1>7, <1>8, <1>9, <1>10, <1>11, <1>12, <1>13, <1>14,
     <1>15, <1>16 DEF Next, WriterStep, HeartStep, Fault

\* If holders touch their file in time, two writers never hold the lock
\* (MutualExclusion) before one dies or an unlink of _remove_own_lock is
\* refused; probes may fail and clocks err.
THEOREM Exclusion ==
  ASSUME Timely
  PROVE  Spec => []MutualExclusion
<1>1. (calm => OwnerIsAlone) => MutualExclusion
  BY DEF OwnerIsAlone, MutualExclusion, Owning
<1>2. IInv /\ (calm => OwnerIsAlone) /\ [Next]_vars => (calm => OwnerIsAlone)'
  BY StepOwner, CalmEnds
<1>3. Init => (calm => OwnerIsAlone)
  BY InitOwner
<1> QED BY <1>1, <1>2, <1>3, Invariant, PTL DEF Spec
=============================================================================
