--------------------------- MODULE UrlPullProofs ---------------------------
(***************************************************************************)
(* The safety of UrlPull for every set of pulls, deletions and addresses   *)
(* and every size of the files, wherever they die.                         *)
(*                                                                         *)
(* The lock lets one task at a time work on the partial file               *)
(* (OneAtATime), so that what that task saw of the file still holds when   *)
(* it acts on it (Resuming, Writing).  The records are written and removed *)
(* outside the lock, and hold because only the records of tasks that are   *)
(* over are removed by others (Recorded), and never the last one of bytes  *)
(* that are there (Covered).                                               *)
(***************************************************************************)
EXTENDS UrlPull, TLAPS

\* The places inside the block the lock guards.
Guarded == {"look", "note", "write", "get", "discard", "discard_part", "open", "truncate",
            "identify", "transfer", "named", "verify", "leave", "unlink", "unlink_ident"}

OneAtATime == /\ \A t \in Task : t \in working <=> pc[t] \in Guarded
              /\ \A t \in working : holder = t

\* A pull that is to append has found a partial file of its own.
Resuming == \A w \in resume :
  /\ pc[w] \in {"note", "write", "get", "open", "discard", "discard_part"}
  /\ pc[w] # "discard_part" => part # NONE /\ ident = UrlOf[w]

\* What a pull is about to identify or append to.
Writing ==
  /\ \A w \in Pull : At(w, "identify") => part # NONE /\ part.of = {}
  /\ \A w \in Pull : At(w, "transfer") => ident \in {NONE, UrlOf[w]}
  /\ part # NONE /\ part.n > 0 => part.of # {}

\* A pull past its note has its record, and others only remove the records of
\* pulls that are over.
Recorded ==
  /\ \A w \in Pull : pc[w] \in {"get", "discard", "discard_part", "open", "truncate", "identify",
                                "transfer"} /\ ~spoilt => rec[w] = "running"
  /\ \A w \in Pull : rec[w] = "ended" => Over(w)
  /\ \A c \in Cleaner : target[c] # NONE => Over(target[c])

Safe == PartIsWhatItSays /\ FinishedIsWhole /\ TransferKeepsItsFile

PullInv == TypeOK /\ OneAtATime /\ Resuming /\ Writing /\ Recorded /\ Safe
-----------------------------------------------------------------------------
LEMMA EmptyIsFile == Empty \in File /\ Empty # NONE
BY PullAssumption DEF Empty, File

LEMMA InitPullInv == Init => PullInv
BY PullAssumption DEF Init, Lock!LockInit, PullInv, TypeOK, OneAtATime, Resuming, Writing,
   Recorded, Safe,
   PartIsWhatItSays, FinishedIsWhole, TransferKeepsItsFile, Guarded, At, Over, Task

LEMMA StepPullInv == PullInv /\ [Next]_vars => PullInv'
<1> SUFFICES ASSUME PullInv, [Next]_vars PROVE PullInv'
  OBVIOUS
<1> USE PullAssumption DEF PullInv, Task, At, Go, Step, Over, locks, tree
<1>1. ASSUME NEW w \in Pull, Begin(w) PROVE PullInv'
  <2>1. TypeOK'
    BY <1>1 DEF Begin, TypeOK, File
  <2>2. OneAtATime'
    BY <1>1 DEF Begin, TypeOK, OneAtATime, Guarded
  <2>3. Resuming' /\ Writing'
    BY <1>1 DEF Begin, TypeOK, OneAtATime, Guarded, Resuming, Writing, File,
       TransferKeepsItsFile, Safe
  <2>4. Recorded'
    BY <1>1 DEF Begin, TypeOK, Recorded
  <2>5. Safe'
    BY <1>1 DEF Begin, TypeOK, OneAtATime, Guarded, Resuming, Writing, Safe, File,
       PartIsWhatItSays, FinishedIsWhole, TransferKeepsItsFile
  <2> QED BY <2>1, <2>2, <2>3, <2>4, <2>5
<1>2. ASSUME NEW w \in Pull, EnterPull(w) PROVE PullInv'
  <2>1. TypeOK'
    BY <1>2 DEF EnterPull, Enter, Lock!Acquire, Lock!Lives, TypeOK, File
  <2>2. OneAtATime'
    BY <1>2 DEF EnterPull, Enter, Lock!Acquire, Lock!Lives, TypeOK, OneAtATime, Guarded
  <2>3. Resuming' /\ Writing'
    BY <1>2 DEF EnterPull, Enter, Lock!Acquire, Lock!Lives, TypeOK, OneAtATime, Guarded,
       Resuming, Writing, File, TransferKeepsItsFile, Safe
  <2>4. Recorded'
    BY <1>2 DEF EnterPull, Enter, Lock!Acquire, Lock!Lives, TypeOK, Recorded
  <2>5. Safe'
    BY <1>2 DEF EnterPull, Enter, Lock!Acquire, Lock!Lives, TypeOK, OneAtATime, Guarded,
       Resuming, Writing, Safe, File, PartIsWhatItSays, FinishedIsWhole, TransferKeepsItsFile
  <2> QED BY <2>1, <2>2, <2>3, <2>4, <2>5
<1>3. ASSUME NEW w \in Pull, Look(w) PROVE PullInv'
  <2>1. TypeOK'
    BY <1>3 DEF Look, Resumable, Bytes, TypeOK, File
  <2>2. OneAtATime'
    BY <1>3 DEF Look, Resumable, Bytes, TypeOK, OneAtATime, Guarded
  <2>3. Resuming' /\ Writing'
    BY <1>3 DEF Look, Resumable, Bytes, TypeOK, OneAtATime, Guarded, Resuming, Writing, File,
       TransferKeepsItsFile, Safe
  <2>4. Recorded'
    BY <1>3 DEF Look, Resumable, Bytes, TypeOK, Recorded
  <2>5. Safe'
    BY <1>3 DEF Look, Resumable, Bytes, TypeOK, OneAtATime, Guarded, Resuming, Writing, Safe,
       File, PartIsWhatItSays, FinishedIsWhole, TransferKeepsItsFile
  <2> QED BY <2>1, <2>2, <2>3, <2>4, <2>5
<1>4. ASSUME NEW w \in Pull, Stops(w) PROVE PullInv'
  <2>1. TypeOK'
    BY <1>4 DEF Stops, TypeOK, File, OneAtATime, Guarded
  <2>2. OneAtATime'
    BY <1>4 DEF Stops, TypeOK, OneAtATime, Guarded
  <2>3. Resuming' /\ Writing'
    BY <1>4 DEF Stops, TypeOK, OneAtATime, Guarded, Resuming, Writing, File,
       TransferKeepsItsFile, Safe
  <2>4. Recorded'
    BY <1>4 DEF Stops, TypeOK, Recorded
  <2>5. Safe'
    BY <1>4 DEF Stops, TypeOK, OneAtATime, Guarded, Resuming, Writing, Safe, File,
       PartIsWhatItSays, FinishedIsWhole, TransferKeepsItsFile
  <2> QED BY <2>1, <2>2, <2>3, <2>4, <2>5
<1>5. ASSUME NEW w \in Pull, Supersede(w) PROVE PullInv'
  <2>1. TypeOK'
    BY <1>5 DEF Supersede, Without, Stale, IsRunning, TypeOK, File
  <2>2. OneAtATime'
    BY <1>5 DEF Supersede, Without, Stale, IsRunning, TypeOK, OneAtATime, Guarded
  <2>3. Resuming' /\ Writing'
    BY <1>5 DEF Supersede, Without, Stale, IsRunning, TypeOK, OneAtATime, Guarded, Resuming,
       Writing, File, TransferKeepsItsFile, Safe
  <2>4. Recorded'
    BY <1>5 DEF Supersede, Without, Stale, IsRunning, TypeOK, Recorded
  <2>5. Safe'
    BY <1>5 DEF Supersede, Without, Stale, IsRunning, TypeOK, OneAtATime, Guarded, Resuming,
       Writing, Safe, File, PartIsWhatItSays, FinishedIsWhole, TransferKeepsItsFile
  <2> QED BY <2>1, <2>2, <2>3, <2>4, <2>5
<1>6. ASSUME NEW w \in Pull, Note(w) PROVE PullInv'
  <2>1. TypeOK'
    BY <1>6 DEF Note, TypeOK, File, OneAtATime, Guarded
  <2>2. OneAtATime'
    BY <1>6 DEF Note, TypeOK, OneAtATime, Guarded
  <2>3. Resuming' /\ Writing'
    BY <1>6 DEF Note, TypeOK, OneAtATime, Guarded, Resuming, Writing, File,
       TransferKeepsItsFile, Safe
  <2>4. Recorded'
    BY <1>6 DEF Note, TypeOK, Recorded
  <2>5. Safe'
    BY <1>6 DEF Note, TypeOK, OneAtATime, Guarded, Resuming, Writing, Safe, File,
       PartIsWhatItSays, FinishedIsWhole, TransferKeepsItsFile
  <2> QED BY <2>1, <2>2, <2>3, <2>4, <2>5
<1>7. ASSUME NEW w \in Pull, Get(w) PROVE PullInv'
  <2>1. TypeOK'
    BY <1>7 DEF Get, TypeOK, File
  <2>2. OneAtATime'
    BY <1>7 DEF Get, TypeOK, OneAtATime, Guarded
  <2>3. Resuming' /\ Writing'
    BY <1>7 DEF Get, TypeOK, OneAtATime, Guarded, Resuming, Writing, File, TransferKeepsItsFile,
       Safe
  <2>4. Recorded'
    BY <1>7 DEF Get, TypeOK, Recorded
  <2>5. Safe'
    BY <1>7 DEF Get, TypeOK, OneAtATime, Guarded, Resuming, Writing, Safe, File,
       PartIsWhatItSays, FinishedIsWhole, TransferKeepsItsFile
  <2> QED BY <2>1, <2>2, <2>3, <2>4, <2>5
<1>8. ASSUME NEW w \in Pull, DiscardIdent(w) PROVE PullInv'
  <2>1. TypeOK'
    BY <1>8 DEF DiscardIdent, TypeOK, File
  <2>2. OneAtATime'
    BY <1>8 DEF DiscardIdent, TypeOK, OneAtATime, Guarded
  <2>3. Resuming' /\ Writing'
    BY <1>8 DEF DiscardIdent, TypeOK, OneAtATime, Guarded, Resuming, Writing, File,
       TransferKeepsItsFile, Safe
  <2>4. Recorded'
    BY <1>8 DEF DiscardIdent, TypeOK, Recorded
  <2>5. Safe'
    BY <1>8 DEF DiscardIdent, TypeOK, OneAtATime, Guarded, Resuming, Writing, Safe, File,
       PartIsWhatItSays, FinishedIsWhole, TransferKeepsItsFile
  <2> QED BY <2>1, <2>2, <2>3, <2>4, <2>5
<1>9. ASSUME NEW w \in Pull, DiscardPart(w) PROVE PullInv'
  <2>1. TypeOK'
    BY <1>9 DEF DiscardPart, TypeOK, File, OneAtATime, Guarded
  <2>2. OneAtATime'
    BY <1>9 DEF DiscardPart, TypeOK, OneAtATime, Guarded
  <2>3. Resuming' /\ Writing'
    BY <1>9 DEF DiscardPart, TypeOK, OneAtATime, Guarded, Resuming, Writing, File,
       TransferKeepsItsFile, Safe
  <2>4. Recorded'
    BY <1>9 DEF DiscardPart, TypeOK, Recorded
  <2>5. Safe'
    BY <1>9 DEF DiscardPart, TypeOK, OneAtATime, Guarded, Resuming, Writing, Safe, File,
       PartIsWhatItSays, FinishedIsWhole, TransferKeepsItsFile
  <2> QED BY <2>1, <2>2, <2>3, <2>4, <2>5
<1>10. ASSUME NEW w \in Pull, Append(w) PROVE PullInv'
  <2>1. TypeOK'
    BY <1>10 DEF Append, TypeOK, File, OneAtATime, Guarded
  <2>2. OneAtATime'
    BY <1>10 DEF Append, TypeOK, OneAtATime, Guarded
  <2>3. Resuming' /\ Writing'
    BY <1>10 DEF Append, TypeOK, OneAtATime, Guarded, Resuming, Writing, File,
       TransferKeepsItsFile, Safe
  <2>4. Recorded'
    BY <1>10 DEF Append, TypeOK, Recorded
  <2>5. Safe'
    BY <1>10 DEF Append, TypeOK, OneAtATime, Guarded, Resuming, Writing, Safe, File,
       PartIsWhatItSays, FinishedIsWhole, TransferKeepsItsFile
  <2> QED BY <2>1, <2>2, <2>3, <2>4, <2>5
<1>11. ASSUME NEW w \in Pull, Forget(w) PROVE PullInv'
  <2>1. TypeOK'
    BY <1>11 DEF Forget, TypeOK, File
  <2>2. OneAtATime'
    BY <1>11 DEF Forget, TypeOK, OneAtATime, Guarded
  <2>3. Resuming' /\ Writing'
    BY <1>11 DEF Forget, TypeOK, OneAtATime, Guarded, Resuming, Writing, File,
       TransferKeepsItsFile, Safe
  <2>4. Recorded'
    BY <1>11 DEF Forget, TypeOK, Recorded
  <2>5. Safe'
    BY <1>11 DEF Forget, TypeOK, OneAtATime, Guarded, Resuming, Writing, Safe, File,
       PartIsWhatItSays, FinishedIsWhole, TransferKeepsItsFile
  <2> QED BY <2>1, <2>2, <2>3, <2>4, <2>5
<1>12. ASSUME NEW w \in Pull, Truncate(w) PROVE PullInv'
  <2>1. TypeOK'
    BY <1>12 DEF Truncate, Empty, TypeOK, File
  <2>2. OneAtATime'
    BY <1>12 DEF Truncate, Empty, TypeOK, OneAtATime, Guarded
  <2>3. Resuming' /\ Writing'
    <3>1. \A v \in Task : pc[v] \in Guarded => v = w
      BY <1>12 DEF Truncate, OneAtATime, Guarded
    <3>2. Resuming'
      BY <1>12, <3>1 DEF Truncate, TypeOK, Resuming, Guarded
    <3>3. Writing'
      BY <1>12, <3>1, EmptyIsFile DEF Truncate, Empty, TypeOK, Writing, Guarded
    <3> QED BY <3>2, <3>3
  <2>4. Recorded'
    BY <1>12 DEF Truncate, Empty, TypeOK, Recorded
  <2>5. Safe'
    BY <1>12 DEF Truncate, Empty, TypeOK, OneAtATime, Guarded, Resuming, Writing, Safe, File,
       PartIsWhatItSays, FinishedIsWhole, TransferKeepsItsFile
  <2> QED BY <2>1, <2>2, <2>3, <2>4, <2>5
<1>13. ASSUME NEW w \in Pull, Identify(w) PROVE PullInv'
  <2>1. TypeOK'
    <3>1. ident' \in Url \cup {NONE} /\ spoilt' \in BOOLEAN
      <4>1. ident' \in {UrlOf[w], NONE} /\ (spoilt' = spoilt \/ spoilt' = TRUE)
        BY <1>13 DEF Identify
      <4>2. UrlOf[w] \in Url /\ spoilt \in BOOLEAN
        BY <1>13 DEF TypeOK
      <4> QED BY <4>1, <4>2
    <3>2. w \in working
      BY <1>13 DEF Identify, OneAtATime, Guarded
    <3> QED BY <1>13, <3>1, <3>2 DEF Identify, TypeOK
  <2>2. OneAtATime'
    BY <1>13 DEF Identify, TypeOK, OneAtATime, Guarded
  <2>3. Resuming' /\ Writing'
    BY <1>13 DEF Identify, TypeOK, OneAtATime, Guarded, Resuming, Writing, File,
       TransferKeepsItsFile, Safe
  <2>4. Recorded'
    BY <1>13 DEF Identify, TypeOK, Recorded
  <2>5. Safe'
    BY <1>13 DEF Identify, TypeOK, OneAtATime, Guarded, Resuming, Writing, Safe, File,
       PartIsWhatItSays, FinishedIsWhole, TransferKeepsItsFile
  <2> QED BY <2>1, <2>2, <2>3, <2>4, <2>5
<1>14. ASSUME NEW w \in Pull, Chunk(w) PROVE PullInv'
  <2>1. TypeOK'
    BY <1>14 DEF Chunk, Grown, TypeOK, File
  <2>2. OneAtATime'
    BY <1>14 DEF Chunk, Grown, TypeOK, OneAtATime, Guarded
  <2>3. Resuming' /\ Writing'
    BY <1>14 DEF Chunk, Grown, TypeOK, OneAtATime, Guarded, Resuming, Writing, File,
       TransferKeepsItsFile, Safe
  <2>4. Recorded'
    BY <1>14 DEF Chunk, Grown, TypeOK, Recorded
  <2>5. Safe'
    <3>1. \A v \in Task : pc[v] \in Guarded => v = w
      BY <1>14 DEF Chunk, OneAtATime, Guarded
    <3>2. part.of \subseteq {UrlOf[w]} /\ ident \in {NONE, UrlOf[w]} /\ UrlOf[w] \in Url
      BY <1>14 DEF Chunk, Safe, TransferKeepsItsFile, Writing
    <3>3. part' # NONE /\ part'.of = {UrlOf[w]} /\ UNCHANGED <<ident, dest, pc>>
      BY <1>14, <3>2 DEF Chunk, Grown, TypeOK, File
    <3> QED BY <3>1, <3>2, <3>3 DEF Safe, PartIsWhatItSays, FinishedIsWhole,
       TransferKeepsItsFile, Guarded
  <2> QED BY <2>1, <2>2, <2>3, <2>4, <2>5
<1>15. ASSUME NEW w \in Pull, Rename(w) PROVE PullInv'
  <2>1. TypeOK'
    BY <1>15 DEF Rename, TypeOK, File
  <2>2. OneAtATime'
    BY <1>15 DEF Rename, TypeOK, OneAtATime, Guarded
  <2>3. Resuming' /\ Writing'
    BY <1>15 DEF Rename, TypeOK, OneAtATime, Guarded, Resuming, Writing, File,
       TransferKeepsItsFile, Safe
  <2>4. Recorded'
    BY <1>15 DEF Rename, TypeOK, Recorded
  <2>5. Safe'
    BY <1>15 DEF Rename, TypeOK, OneAtATime, Guarded, Resuming, Writing, Safe, File,
       PartIsWhatItSays, FinishedIsWhole, TransferKeepsItsFile
  <2> QED BY <2>1, <2>2, <2>3, <2>4, <2>5
<1>16. ASSUME NEW w \in Pull, RenameForgets(w) PROVE PullInv'
  <2>1. TypeOK'
    BY <1>16 DEF RenameForgets, TypeOK, File
  <2>2. OneAtATime'
    BY <1>16 DEF RenameForgets, TypeOK, OneAtATime, Guarded
  <2>3. Resuming' /\ Writing'
    BY <1>16 DEF RenameForgets, TypeOK, OneAtATime, Guarded, Resuming, Writing, File,
       TransferKeepsItsFile, Safe
  <2>4. Recorded'
    BY <1>16 DEF RenameForgets, TypeOK, Recorded
  <2>5. Safe'
    BY <1>16 DEF RenameForgets, TypeOK, OneAtATime, Guarded, Resuming, Writing, Safe, File,
       PartIsWhatItSays, FinishedIsWhole, TransferKeepsItsFile
  <2> QED BY <2>1, <2>2, <2>3, <2>4, <2>5
<1>17. ASSUME NEW w \in Pull, Verify(w) PROVE PullInv'
  <2>1. TypeOK'
    BY <1>17 DEF Verify, TypeOK, File, OneAtATime, Guarded
  <2>2. OneAtATime'
    BY <1>17 DEF Verify, TypeOK, OneAtATime, Guarded
  <2>3. Resuming' /\ Writing'
    BY <1>17 DEF Verify, TypeOK, OneAtATime, Guarded, Resuming, Writing, File,
       TransferKeepsItsFile, Safe
  <2>4. Recorded'
    BY <1>17 DEF Verify, TypeOK, Recorded
  <2>5. Safe'
    BY <1>17 DEF Verify, TypeOK, OneAtATime, Guarded, Resuming, Writing, Safe, File,
       PartIsWhatItSays, FinishedIsWhole, TransferKeepsItsFile
  <2> QED BY <2>1, <2>2, <2>3, <2>4, <2>5
<1>18. ASSUME NEW w \in Pull, FinishOk(w) PROVE PullInv'
  <2>1. TypeOK'
    BY <1>18 DEF FinishOk, Without, Stale, IsRunning, TypeOK, File
  <2>2. OneAtATime'
    BY <1>18 DEF FinishOk, Without, Stale, IsRunning, TypeOK, OneAtATime, Guarded
  <2>3. Resuming' /\ Writing'
    BY <1>18 DEF FinishOk, Without, Stale, IsRunning, TypeOK, OneAtATime, Guarded, Resuming,
       Writing, File, TransferKeepsItsFile, Safe
  <2>4. Recorded'
    BY <1>18 DEF FinishOk, Without, Stale, IsRunning, TypeOK, Recorded
  <2>5. Safe'
    BY <1>18 DEF FinishOk, Without, Stale, IsRunning, TypeOK, OneAtATime, Guarded, Resuming,
       Writing, Safe, File, PartIsWhatItSays, FinishedIsWhole, TransferKeepsItsFile
  <2> QED BY <2>1, <2>2, <2>3, <2>4, <2>5
<1>19. ASSUME NEW w \in Pull, FinishFailed(w) PROVE PullInv'
  <2>1. TypeOK'
    BY <1>19 DEF FinishFailed, Bytes, TypeOK, File
  <2>2. OneAtATime'
    BY <1>19 DEF FinishFailed, Bytes, TypeOK, OneAtATime, Guarded
  <2>3. Resuming' /\ Writing'
    BY <1>19 DEF FinishFailed, Bytes, TypeOK, OneAtATime, Guarded, Resuming, Writing, File,
       TransferKeepsItsFile, Safe
  <2>4. Recorded'
    BY <1>19 DEF FinishFailed, Bytes, TypeOK, Recorded
  <2>5. Safe'
    BY <1>19 DEF FinishFailed, Bytes, TypeOK, OneAtATime, Guarded, Resuming, Writing, Safe,
       File, PartIsWhatItSays, FinishedIsWhole, TransferKeepsItsFile
  <2> QED BY <2>1, <2>2, <2>3, <2>4, <2>5
<1>20. ASSUME NEW w \in Pull, RemoveRecord(w) PROVE PullInv'
  <2>1. TypeOK'
    BY <1>20 DEF RemoveRecord, TypeOK, File
  <2>2. OneAtATime'
    BY <1>20 DEF RemoveRecord, TypeOK, OneAtATime, Guarded
  <2>3. Resuming' /\ Writing'
    BY <1>20 DEF RemoveRecord, TypeOK, OneAtATime, Guarded, Resuming, Writing, File,
       TransferKeepsItsFile, Safe
  <2>4. Recorded'
    BY <1>20 DEF RemoveRecord, TypeOK, Recorded
  <2>5. Safe'
    BY <1>20 DEF RemoveRecord, TypeOK, OneAtATime, Guarded, Resuming, Writing, Safe, File,
       PartIsWhatItSays, FinishedIsWhole, TransferKeepsItsFile
  <2> QED BY <2>1, <2>2, <2>3, <2>4, <2>5
<1>21. ASSUME NEW w \in Pull, MarkEnded(w) PROVE PullInv'
  <2>1. TypeOK'
    BY <1>21 DEF MarkEnded, TypeOK, File
  <2>2. OneAtATime'
    BY <1>21 DEF MarkEnded, TypeOK, OneAtATime, Guarded
  <2>3. Resuming' /\ Writing'
    BY <1>21 DEF MarkEnded, TypeOK, OneAtATime, Guarded, Resuming, Writing, File,
       TransferKeepsItsFile, Safe
  <2>4. Recorded'
    BY <1>21 DEF MarkEnded, TypeOK, Recorded
  <2>5. Safe'
    BY <1>21 DEF MarkEnded, TypeOK, OneAtATime, Guarded, Resuming, Writing, Safe, File,
       PartIsWhatItSays, FinishedIsWhole, TransferKeepsItsFile
  <2> QED BY <2>1, <2>2, <2>3, <2>4, <2>5
<1>22. ASSUME NEW c \in Cleaner, List(c) PROVE PullInv'
  <2>1. TypeOK'
    BY <1>22 DEF List, IsRunning, TypeOK, File
  <2>2. OneAtATime'
    BY <1>22 DEF List, IsRunning, TypeOK, OneAtATime, Guarded
  <2>3. Resuming' /\ Writing'
    BY <1>22 DEF List, IsRunning, TypeOK, OneAtATime, Guarded, Resuming, Writing, File,
       TransferKeepsItsFile, Safe
  <2>4. Recorded'
    BY <1>22 DEF List, IsRunning, TypeOK, Recorded
  <2>5. Safe'
    BY <1>22 DEF List, IsRunning, TypeOK, OneAtATime, Guarded, Resuming, Writing, Safe, File,
       PartIsWhatItSays, FinishedIsWhole, TransferKeepsItsFile
  <2> QED BY <2>1, <2>2, <2>3, <2>4, <2>5
<1>23. ASSUME NEW c \in Cleaner, DeleteInterrupted(c) PROVE PullInv'
  <2>1. TypeOK'
    BY <1>23 DEF DeleteInterrupted, IsRunning, TypeOK, File
  <2>2. OneAtATime'
    BY <1>23 DEF DeleteInterrupted, IsRunning, TypeOK, OneAtATime, Guarded
  <2>3. Resuming' /\ Writing'
    BY <1>23 DEF DeleteInterrupted, IsRunning, TypeOK, OneAtATime, Guarded, Resuming, Writing,
       File, TransferKeepsItsFile, Safe
  <2>4. Recorded'
    BY <1>23 DEF DeleteInterrupted, IsRunning, TypeOK, Recorded
  <2>5. Safe'
    BY <1>23 DEF DeleteInterrupted, IsRunning, TypeOK, OneAtATime, Guarded, Resuming, Writing,
       Safe, File, PartIsWhatItSays, FinishedIsWhole, TransferKeepsItsFile
  <2> QED BY <2>1, <2>2, <2>3, <2>4, <2>5
<1>24. ASSUME NEW c \in Cleaner, DeleteOrphan(c) PROVE PullInv'
  <2>1. TypeOK'
    BY <1>24 DEF DeleteOrphan, TypeOK, File
  <2>2. OneAtATime'
    BY <1>24 DEF DeleteOrphan, TypeOK, OneAtATime, Guarded
  <2>3. Resuming' /\ Writing'
    BY <1>24 DEF DeleteOrphan, TypeOK, OneAtATime, Guarded, Resuming, Writing, File,
       TransferKeepsItsFile, Safe
  <2>4. Recorded'
    BY <1>24 DEF DeleteOrphan, TypeOK, Recorded
  <2>5. Safe'
    BY <1>24 DEF DeleteOrphan, TypeOK, OneAtATime, Guarded, Resuming, Writing, Safe, File,
       PartIsWhatItSays, FinishedIsWhole, TransferKeepsItsFile
  <2> QED BY <2>1, <2>2, <2>3, <2>4, <2>5
<1>25. ASSUME NEW c \in Cleaner, EnterCleaner(c) PROVE PullInv'
  <2>1. TypeOK'
    BY <1>25 DEF EnterCleaner, Enter, Lock!Acquire, Lock!Lives, TypeOK, File
  <2>2. OneAtATime'
    BY <1>25 DEF EnterCleaner, Enter, Lock!Acquire, Lock!Lives, TypeOK, OneAtATime, Guarded
  <2>3. Resuming' /\ Writing'
    BY <1>25 DEF EnterCleaner, Enter, Lock!Acquire, Lock!Lives, TypeOK, OneAtATime, Guarded,
       Resuming, Writing, File, TransferKeepsItsFile, Safe
  <2>4. Recorded'
    BY <1>25 DEF EnterCleaner, Enter, Lock!Acquire, Lock!Lives, TypeOK, Recorded
  <2>5. Safe'
    BY <1>25 DEF EnterCleaner, Enter, Lock!Acquire, Lock!Lives, TypeOK, OneAtATime, Guarded,
       Resuming, Writing, Safe, File, PartIsWhatItSays, FinishedIsWhole, TransferKeepsItsFile
  <2> QED BY <2>1, <2>2, <2>3, <2>4, <2>5
<1>26. ASSUME NEW c \in Cleaner, UnlinkIdent(c) PROVE PullInv'
  <2>1. TypeOK'
    BY <1>26 DEF UnlinkIdent, TypeOK, File, OneAtATime, Guarded
  <2>2. OneAtATime'
    BY <1>26 DEF UnlinkIdent, TypeOK, OneAtATime, Guarded
  <2>3. Resuming' /\ Writing'
    BY <1>26 DEF UnlinkIdent, TypeOK, OneAtATime, Guarded, Resuming, Writing, File,
       TransferKeepsItsFile, Safe
  <2>4. Recorded'
    BY <1>26 DEF UnlinkIdent, TypeOK, Recorded
  <2>5. Safe'
    BY <1>26 DEF UnlinkIdent, TypeOK, OneAtATime, Guarded, Resuming, Writing, Safe, File,
       PartIsWhatItSays, FinishedIsWhole, TransferKeepsItsFile
  <2> QED BY <2>1, <2>2, <2>3, <2>4, <2>5
<1>27. ASSUME NEW c \in Cleaner, Unlink(c) PROVE PullInv'
  <2>1. TypeOK'
    BY <1>27 DEF Unlink, TypeOK, File
  <2>2. OneAtATime'
    BY <1>27 DEF Unlink, TypeOK, OneAtATime, Guarded
  <2>3. Resuming' /\ Writing'
    BY <1>27 DEF Unlink, TypeOK, OneAtATime, Guarded, Resuming, Writing, File,
       TransferKeepsItsFile, Safe
  <2>4. Recorded'
    BY <1>27 DEF Unlink, TypeOK, Recorded
  <2>5. Safe'
    BY <1>27 DEF Unlink, TypeOK, OneAtATime, Guarded, Resuming, Writing, Safe, File,
       PartIsWhatItSays, FinishedIsWhole, TransferKeepsItsFile
  <2> QED BY <2>1, <2>2, <2>3, <2>4, <2>5
<1>28. ASSUME NEW c \in Cleaner, Forgotten(c) PROVE PullInv'
  <2>1. TypeOK'
    BY <1>28 DEF Forgotten, TypeOK, File
  <2>2. OneAtATime'
    BY <1>28 DEF Forgotten, TypeOK, OneAtATime, Guarded
  <2>3. Resuming' /\ Writing'
    BY <1>28 DEF Forgotten, TypeOK, OneAtATime, Guarded, Resuming, Writing, File,
       TransferKeepsItsFile, Safe
  <2>4. Recorded'
    BY <1>28 DEF Forgotten, TypeOK, Recorded
  <2>5. Safe'
    BY <1>28 DEF Forgotten, TypeOK, OneAtATime, Guarded, Resuming, Writing, Safe, File,
       PartIsWhatItSays, FinishedIsWhole, TransferKeepsItsFile
  <2> QED BY <2>1, <2>2, <2>3, <2>4, <2>5
<1>29. ASSUME NEW t \in Task, Refused(t) PROVE PullInv'
  <2>1. TypeOK'
    BY <1>29 DEF Refused, TypeOK, File
  <2>2. OneAtATime'
    BY <1>29 DEF Refused, TypeOK, OneAtATime, Guarded
  <2>3. Resuming' /\ Writing'
    BY <1>29 DEF Refused, TypeOK, OneAtATime, Guarded, Resuming, Writing, File,
       TransferKeepsItsFile, Safe
  <2>4. Recorded'
    BY <1>29 DEF Refused, TypeOK, Recorded
  <2>5. Safe'
    BY <1>29 DEF Refused, TypeOK, OneAtATime, Guarded, Resuming, Writing, Safe, File,
       PartIsWhatItSays, FinishedIsWhole, TransferKeepsItsFile
  <2> QED BY <2>1, <2>2, <2>3, <2>4, <2>5
<1>30. ASSUME NEW t \in Task, Leave(t) PROVE PullInv'
  <2>1. TypeOK'
    BY <1>30 DEF Leave, Lock!Leave, TypeOK, File
  <2>2. OneAtATime'
    BY <1>30 DEF Leave, Lock!Leave, TypeOK, OneAtATime, Guarded
  <2>3. Resuming' /\ Writing'
    BY <1>30 DEF Leave, Lock!Leave, TypeOK, OneAtATime, Guarded, Resuming, Writing, File,
       TransferKeepsItsFile, Safe
  <2>4. Recorded'
    BY <1>30 DEF Leave, Lock!Leave, TypeOK, Recorded
  <2>5. Safe'
    BY <1>30 DEF Leave, Lock!Leave, TypeOK, OneAtATime, Guarded, Resuming, Writing, Safe, File,
       PartIsWhatItSays, FinishedIsWhole, TransferKeepsItsFile
  <2> QED BY <2>1, <2>2, <2>3, <2>4, <2>5
<1>31. ASSUME NEW t \in Task, Release(t) PROVE PullInv'
  <2>1. TypeOK'
    BY <1>31 DEF Release, Lock!Free, TypeOK, File
  <2>2. OneAtATime'
    BY <1>31 DEF Release, Lock!Free, TypeOK, OneAtATime, Guarded
  <2>3. Resuming' /\ Writing'
    BY <1>31 DEF Release, Lock!Free, TypeOK, OneAtATime, Guarded, Resuming, Writing, File,
       TransferKeepsItsFile, Safe
  <2>4. Recorded'
    BY <1>31 DEF Release, Lock!Free, TypeOK, Recorded
  <2>5. Safe'
    BY <1>31 DEF Release, Lock!Free, TypeOK, OneAtATime, Guarded, Resuming, Writing, Safe, File,
       PartIsWhatItSays, FinishedIsWhole, TransferKeepsItsFile
  <2> QED BY <2>1, <2>2, <2>3, <2>4, <2>5
<1>32. ASSUME NEW t \in Task, Reclaim(t) PROVE PullInv'
  <2>1. TypeOK'
    BY <1>32 DEF Reclaim, Lock!Free, TypeOK, File
  <2>2. OneAtATime'
    BY <1>32 DEF Reclaim, Lock!Free, TypeOK, OneAtATime, Guarded
  <2>3. Resuming' /\ Writing'
    BY <1>32 DEF Reclaim, Lock!Free, TypeOK, OneAtATime, Guarded, Resuming, Writing, File,
       TransferKeepsItsFile, Safe
  <2>4. Recorded'
    BY <1>32 DEF Reclaim, Lock!Free, TypeOK, Recorded
  <2>5. Safe'
    BY <1>32 DEF Reclaim, Lock!Free, TypeOK, OneAtATime, Guarded, Resuming, Writing, Safe, File,
       PartIsWhatItSays, FinishedIsWhole, TransferKeepsItsFile
  <2> QED BY <2>1, <2>2, <2>3, <2>4, <2>5
<1>33. ASSUME NEW t \in Task, Crash(t) PROVE PullInv'
  <2>1. TypeOK'
    BY <1>33 DEF Crash, Lock!Die, TypeOK, File
  <2>2. OneAtATime'
    BY <1>33 DEF Crash, Lock!Die, TypeOK, OneAtATime, Guarded
  <2>3. Resuming' /\ Writing'
    BY <1>33 DEF Crash, Lock!Die, TypeOK, OneAtATime, Guarded, Resuming, Writing, File,
       TransferKeepsItsFile, Safe
  <2>4. Recorded'
    BY <1>33 DEF Crash, Lock!Die, TypeOK, Recorded
  <2>5. Safe'
    BY <1>33 DEF Crash, Lock!Die, TypeOK, OneAtATime, Guarded, Resuming, Writing, Safe, File,
       PartIsWhatItSays, FinishedIsWhole, TransferKeepsItsFile
  <2> QED BY <2>1, <2>2, <2>3, <2>4, <2>5
<1>34. CASE UNCHANGED vars
  BY <1>34 DEF vars, TypeOK, OneAtATime, Resuming, Writing, Recorded, Safe, PartIsWhatItSays,
     FinishedIsWhole, TransferKeepsItsFile
<1> QED BY <1>1, <1>2, <1>3, <1>4, <1>5, <1>6, <1>7, <1>8, <1>9, <1>10, <1>11, <1>12, <1>13,
   <1>14, <1>15, <1>16, <1>17, <1>18, <1>19, <1>20, <1>21, <1>22, <1>23, <1>24, <1>25, <1>26,
   <1>27, <1>28, <1>29, <1>30, <1>31, <1>32, <1>33, <1>34 DEF Next, PullStep, CleanerStep

\* The inductive invariant holds throughout.
LEMMA PullInvHolds == Spec => []PullInv
BY InitPullInv, StepPullInv, PTL DEF Spec

\* TypeOK: every variable has its type, and whoever works on the partial file is
\* in the block _part_lock guards.
THEOREM TypeCorrect == Spec => []TypeOK
<1>1. PullInv => TypeOK
  BY DEF PullInv
<1> QED BY <1>1, PullInvHolds, PTL

\* PartIsWhatItSays: the <name>.part.json beside a partial file is that of all
\* its bytes, wherever _start_part, _discard_part, a transfer or a deletion died.
THEOREM PartIsNamed == Spec => []PartIsWhatItSays
<1>1. PullInv => PartIsWhatItSays
  BY DEF PullInv, Safe
<1> QED BY <1>1, PullInvHolds, PTL

\* FinishedIsWhole: what _pull_url renames to the finished name is the whole
\* file of one address, resumed however often and whatever was pulled before.
THEOREM FileIsWhole == Spec => []FinishedIsWhole
<1>1. PullInv => FinishedIsWhole
  BY DEF PullInv, Safe
<1> QED BY <1>1, PullInvHolds, PTL

\* TransferKeepsItsFile: no deletion and no other pull takes the partial file of
\* a running transfer, or adds to it.
THEOREM TransferIsUndisturbed == Spec => []TransferKeepsItsFile
<1>1. PullInv => TransferKeepsItsFile
  BY DEF PullInv, Safe
<1> QED BY <1>1, PullInvHolds, PTL

\* RunningKeepsItsRecord: no other pull of the request (_save_current, _finish),
\* listing or deletion removes the record of a running transfer.
THEOREM RecordIsKept == Spec => []RunningKeepsItsRecord
<1>1. PullInv => RunningKeepsItsRecord
  BY DEF PullInv, Recorded, RunningKeepsItsRecord, At
<1> QED BY <1>1, PullInvHolds, PTL
-----------------------------------------------------------------------------
(* The bytes on disk keep a record of their request.                       *)
(*                                                                         *)
(* The record that stands for them may be another one at each step: a pull *)
(* that takes the records of its request away is between its two writes,   *)
(* or has succeeded; and a record that is about to be removed, because no  *)
(* bytes were there when that was decided, stands for none that came since.*)

\* The record of w is about to be removed, with no bytes left that it stood for.
Doomed(w) == \/ At(w, "remove")
             \/ \E c \in Cleaner : target[c] = w /\ pc[c] \in {"leave", "release", "finish"}

Cover(w) == \/ w \in ok \/ pc[w] \in {"write", "cut"}
            \/ rec[w] # "none" /\ ~Doomed(w)

Covered == ~spoilt /\ Bytes > 0 => \E w \in Pull : UrlOf[w] \in part.of /\ Cover(w)

\* A step that keeps the bytes, or takes them all, and what covers them.
LEMMA StaysCovered ==
  ASSUME Covered, spoilt => spoilt',
         Bytes' = 0 \/ UNCHANGED part,
         ~spoilt' /\ Bytes' # 0 =>
           \A w \in Pull : Cover(w) => \E v \in Pull : UrlOf[v] = UrlOf[w] /\ Cover(v)'
  PROVE  Covered'
<1>1. CASE Bytes' = 0
  BY <1>1 DEF Covered
<1>2. CASE UNCHANGED part /\ Bytes' # 0
  <2>1. Bytes' = Bytes
    BY <1>2 DEF Bytes
  <2> QED BY <1>2, <2>1 DEF Covered
<1> QED BY <1>1, <1>2

\* The steps of a pull that move no record and no bytes.
PullMoves(w) == \/ Begin(w) \/ EnterPull(w) \/ Look(w) \/ Stops(w) \/ Get(w)
                \/ DiscardIdent(w) \/ Append(w) \/ Forget(w) \/ Identify(w)
                \/ RenameForgets(w) \/ Verify(w)

LEMMA MovesStayCovered ==
  ASSUME PullInv, Covered, NEW w \in Pull, PullMoves(w)
  PROVE  Covered'
<1> USE PullAssumption DEF Task, At, Go, Step, locks, tree
<1>1. /\ UNCHANGED <<part, rec, target>> /\ ok \subseteq ok' /\ (spoilt => spoilt')
      /\ pc' = [pc EXCEPT ![w] = pc'[w]]
      /\ pc[w] \notin {"write", "cut"} /\ pc'[w] # "remove"
  BY DEF PullMoves, Begin, EnterPull, Enter, Look, Stops, Get, DiscardIdent, Append, Forget,
     Identify, RenameForgets, Verify, PullInv, TypeOK
<1>2. ASSUME NEW v \in Pull, Cover(v) PROVE Cover(v)'
  BY <1>1, <1>2 DEF Cover, Doomed, PullInv, TypeOK
<1> QED BY <1>1, <1>2, StaysCovered

\* The steps of a pull that move its own record, or that of its request.
LEMMA RecordStaysCovered ==
  ASSUME PullInv, Covered, NEW w \in Pull,
         \/ Supersede(w) \/ Note(w) \/ FinishOk(w) \/ FinishFailed(w)
         \/ RemoveRecord(w) \/ MarkEnded(w)
  PROVE  Covered'
<1> USE PullAssumption DEF Task, At, Go, Step, locks, tree, PullInv
<1>1. CASE Supersede(w)
  <2>1. ASSUME NEW v \in Pull, Cover(v) PROVE \E x \in Pull : UrlOf[x] = UrlOf[v] /\ Cover(x)'
    <3>1. CASE v \in Stale(w)
      BY <1>1, <3>1 DEF Supersede, Stale, Cover, TypeOK
    <3>2. CASE v \notin Stale(w)
      BY <1>1, <2>1, <3>2 DEF Supersede, Without, Cover, Doomed, TypeOK
    <3> QED BY <3>1, <3>2
  <2> QED BY <1>1, <2>1, StaysCovered DEF Supersede
<1>2. CASE Note(w)
  <2>1. ASSUME NEW v \in Pull, Cover(v), ~spoilt' PROVE Cover(v)'
    <3>1. CASE v = w
      BY <1>2, <2>1, <3>1 DEF Note, Cover, Doomed, TypeOK, Recorded, Over
    <3>2. CASE v # w
      BY <1>2, <2>1, <3>2 DEF Note, Cover, Doomed, TypeOK
    <3> QED BY <3>1, <3>2
  <2> QED BY <1>2, <2>1, StaysCovered DEF Note
<1>3. CASE FinishOk(w)
  <2>1. ASSUME NEW v \in Pull, Cover(v) PROVE \E x \in Pull : UrlOf[x] = UrlOf[v] /\ Cover(x)'
    <3>1. CASE v \in Stale(w)
      BY <1>3, <3>1 DEF FinishOk, Stale, Cover, TypeOK
    <3>2. CASE v \notin Stale(w)
      BY <1>3, <2>1, <3>2 DEF FinishOk, Without, Cover, Doomed, TypeOK
    <3> QED BY <3>1, <3>2
  <2> QED BY <1>3, <2>1, StaysCovered DEF FinishOk
<1>4. CASE FinishFailed(w)
  <2>1. ASSUME NEW v \in Pull, Cover(v), Bytes # 0 PROVE Cover(v)'
    BY <1>4, <2>1 DEF FinishFailed, Cover, Doomed, TypeOK
  <2>2. Bytes' = Bytes
    BY <1>4 DEF FinishFailed, Bytes
  <2> QED BY <1>4, <2>1, <2>2, StaysCovered DEF FinishFailed
<1>5. CASE RemoveRecord(w)
  <2>1. ASSUME NEW v \in Pull, Cover(v) PROVE Cover(v)'
    BY <1>5, <2>1 DEF RemoveRecord, Cover, Doomed, TypeOK
  <2> QED BY <1>5, <2>1, StaysCovered DEF RemoveRecord
<1>6. CASE MarkEnded(w)
  <2>1. ASSUME NEW v \in Pull, Cover(v) PROVE Cover(v)'
    BY <1>6, <2>1 DEF MarkEnded, Cover, Doomed, TypeOK
  <2> QED BY <1>6, <2>1, StaysCovered DEF MarkEnded
<1> QED BY <1>1, <1>2, <1>3, <1>4, <1>5, <1>6

\* The steps of a pull on the bytes: a transfer covers those it adds itself.
LEMMA BytesStayCovered ==
  ASSUME PullInv, Covered, NEW w \in Pull,
         DiscardPart(w) \/ Truncate(w) \/ Rename(w) \/ Chunk(w)
  PROVE  Covered'
<1> USE PullAssumption DEF Task, At, Go, Step, locks, tree, PullInv
<1>1. CASE DiscardPart(w) \/ Truncate(w) \/ Rename(w)
  <2>1. Bytes' = 0
    BY <1>1, EmptyIsFile DEF DiscardPart, Truncate, Rename, Bytes, Empty
  <2> QED BY <2>1 DEF Covered
<1>2. CASE Chunk(w)
  <2>1. ~spoilt' => rec[w] = "running"
    BY <1>2 DEF Chunk, Recorded
  <2>2. ~Doomed(w)
    BY <1>2 DEF Chunk, Doomed, Recorded, Over
  <2>3. Cover(w)' \/ spoilt'
    BY <1>2, <2>1, <2>2 DEF Chunk, Cover, Doomed
  <2>4. UrlOf[w] \in part'.of
    BY <1>2 DEF Chunk, Grown
  <2> QED BY <2>3, <2>4 DEF Covered
<1> QED BY <1>1, <1>2

LEMMA CleanerStaysCovered ==
  ASSUME PullInv, Covered, NEW c \in Cleaner, CleanerStep(c)
  PROVE  Covered'
<1> USE PullAssumption DEF Task, At, Go, Step, locks, tree, PullInv
<1>1. CASE List(c)
  <2>1. Bytes' = 0
    BY <1>1 DEF List, Bytes
  <2> QED BY <2>1 DEF Covered
<1>2. CASE DeleteInterrupted(c) \/ DeleteOrphan(c) \/ EnterCleaner(c) \/ UnlinkIdent(c)
  <2>1. /\ UNCHANGED <<part, rec, ok>> /\ (spoilt => spoilt')
        /\ pc' = [pc EXCEPT ![c] = pc'[c]]
    BY <1>2 DEF DeleteInterrupted, DeleteOrphan, EnterCleaner, Enter, UnlinkIdent, TypeOK
  <2>2. /\ target' = [target EXCEPT ![c] = target'[c]]
        /\ pc'[c] \in {"leave", "release", "finish"} => target'[c] = NONE
    BY <1>2 DEF DeleteInterrupted, DeleteOrphan, EnterCleaner, Enter, UnlinkIdent, TypeOK
  <2>3. ASSUME NEW v \in Pull, Cover(v) PROVE Cover(v)'
    BY <2>1, <2>2, <2>3 DEF Cover, Doomed, TypeOK
  <2> QED BY <2>1, <2>3, StaysCovered
<1>3. CASE Unlink(c)
  <2>1. Bytes' = 0 \/ spoilt'
    BY <1>3 DEF Unlink, Bytes
  <2> QED BY <2>1 DEF Covered
<1>4. CASE Forgotten(c)
  <2>1. ASSUME NEW v \in Pull, Cover(v) PROVE Cover(v)'
    BY <1>4, <2>1 DEF Forgotten, Cover, Doomed, TypeOK
  <2> QED BY <1>4, <2>1, StaysCovered DEF Forgotten
<1> QED BY <1>1, <1>2, <1>3, <1>4 DEF CleanerStep

LEMMA LockStaysCovered ==
  ASSUME PullInv, Covered, NEW t \in Task,
         Refused(t) \/ Leave(t) \/ Release(t) \/ Reclaim(t) \/ Crash(t)
  PROVE  Covered'
<1> USE PullAssumption DEF Task, At, Go, Step, locks, tree, PullInv
<1>1. /\ UNCHANGED <<part, rec, ok, target, spoilt>>
      /\ pc' = [pc EXCEPT ![t] = pc'[t]] /\ pc'[t] # "remove"
      /\ pc[t] \in {"write", "cut"} => pc'[t] = "cut"
      /\ pc'[t] \in {"leave", "release", "finish"} => pc[t] \in {"leave", "release", "finish"}
  BY DEF Refused, Leave, Release, Reclaim, Crash, TypeOK, Over
<1>2. ASSUME NEW v \in Pull, Cover(v) PROVE Cover(v)'
  BY <1>1, <1>2 DEF Cover, Doomed, TypeOK
<1> QED BY <1>1, <1>2, StaysCovered

LEMMA StepCovered == PullInv /\ Covered /\ [Next]_vars => Covered'
<1> SUFFICES ASSUME PullInv, Covered, [Next]_vars PROVE Covered'
  OBVIOUS
<1>1. CASE UNCHANGED vars
  BY <1>1 DEF vars, tree, Covered, Bytes, Cover, Doomed, At
<1> QED
  BY <1>1, MovesStayCovered, RecordStaysCovered, BytesStayCovered, CleanerStaysCovered,
     LockStaysCovered DEF Next, PullStep, PullMoves

\* NothingIsForgotten: once everybody ended or died, the bytes on disk have a
\* record of their request, whatever was superseded, listed, deleted or cut
\* short, unless a pull of it succeeded or died between its two writes.
THEOREM BytesAreRemembered == Spec => []NothingIsForgotten
<1>1. Init => Covered
  BY DEF Init, Covered, Bytes
<1>2. Covered => NothingIsForgotten
  BY PullAssumption DEF Covered, Cover, NothingIsForgotten, Over, At, Task
<1> QED BY <1>1, <1>2, StepCovered, PullInvHolds, PTL DEF Spec
=============================================================================
