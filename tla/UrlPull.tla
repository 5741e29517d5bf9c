------------------------------ MODULE UrlPull ------------------------------
(***************************************************************************)
(* Downloads from a direct address into one file of the models folder      *)
(* (src/localm/model_manager/pull.py, _pull_url), with the records that    *)
(* make an interrupted one resumable and the deletions of what it left     *)
(* (pending_pulls.py).                                                     *)
(*                                                                         *)
(* Every pull and deletion is a process of its own, as the `localm pull'   *)
(* children of the GUI are; it may die between any two file operations,    *)
(* and its death can be proven (PartLock has one that cannot).             *)
(* The lock on the partial file is DownloadLock, which PartLock            *)
(* implements.  Two pulls of one address are the same request.  Bytes are  *)
(* counted and remember their address, and what an address serves does     *)
(* not change; names, digests of other files and the registry are left     *)
(* out.                                                                    *)
(***************************************************************************)
EXTENDS Integers

CONSTANTS Pull,
          Cleaner,    \* listings and deletions of interrupted downloads
          Url,
          UrlOf,      \* the address of each pull
          Size,       \* bound on the bytes of a file
          NONE

Task == Pull \cup Cleaner
\* The bytes of a file: the addresses they came from, and how many.
File == [of : SUBSET Url, n : 0 .. Size]

ASSUME PullAssumption == /\ UrlOf \in [Pull -> Url]
                         /\ Pull \cap Cleaner = {} /\ Size \in Nat \ {0}
                         /\ NONE \notin Task \cup Url \cup File

VARIABLES
  holder, working, dead, \* the lock on the partial file
  part,     \* <name>.part: NONE, or its bytes
  ident,    \* <name>.part.json: the address it records, or NONE
  dest,     \* the finished file: NONE, or its bytes
  rec,      \* the record of each pull: none, running (ended is false) or ended
  pc,
  resume,   \* the pulls that append to the partial file
  ok,       \* the pulls that succeeded
  target,   \* the record a cleaner is about
  spoilt    \* a file could not be written or deleted, for properties only

locks == <<holder, working, dead>>
tree  == <<part, ident, dest, rec>>
vars  == <<locks, tree, pc, resume, ok, target, spoilt>>

Lock == INSTANCE DownloadLock WITH Pull <- Task, Process <- Task,
                                   ProcessOf <- [t \in Task |-> t]

Empty    == [of |-> {}, n |-> 0]
Grown(u) == [of |-> part.of \cup {u}, n |-> part.n + 1]
Bytes    == IF part = NONE THEN 0 ELSE part.n

Init ==
  /\ Lock!LockInit
  /\ part = NONE /\ ident = NONE /\ dest = NONE
  /\ rec = [w \in Pull |-> "none"]
  /\ pc = [t \in Task |-> "out"]
  /\ resume = {} /\ ok = {} /\ target = [c \in Cleaner |-> NONE]
  /\ spoilt = FALSE

At(t, place)      == pc[t] = place
Go(t, place)      == pc' = [pc EXCEPT ![t] = place]
Step(t, from, to) == At(t, from) /\ Go(t, to)
Over(t)           == pc[t] \in {"over", "cut"}

\* Mutant of IsRunning: a record counts until it is marked ended, whoever asks.
IsRunningUntilEnded(w) == rec[w] = "none"

\* A record that is not marked ended, of a process that is not proven gone.
IsRunning(w) == rec[w] = "running" /\ ~Over(w)

----------------------------------------------------------------------------
(* The lock, with its release. *)

Enter(t, next) == Lock!Acquire(t) /\ Go(t, next)

\* PullInFlight, or a lock that cannot be taken: nothing was written.
Refused(t) ==
  /\ Step(t, "lock", "over")
  /\ UNCHANGED <<locks, tree, resume, ok, target, spoilt>>

Leave(t) ==
  /\ Step(t, "leave", "release")
  /\ Lock!Leave(t)
  /\ UNCHANGED <<tree, resume, ok, target, spoilt>>

Release(t) ==
  /\ Step(t, "release", "finish")
  /\ Lock!Free(t) \/ UNCHANGED locks    \* the release may fail
  /\ UNCHANGED <<tree, resume, ok, target, spoilt>>

\* The lock of a process that is gone is taken away.
Reclaim(t) ==
  /\ Over(t)
  /\ Lock!Free(t)
  /\ UNCHANGED <<tree, pc, resume, ok, target, spoilt>>

\* "cut": a pull that dies between the two writes of _save_current.
Crash(t) ==
  /\ ~At(t, "out") /\ ~Over(t)
  /\ Lock!Die(t)
  /\ Go(t, IF At(t, "write") THEN "cut" ELSE "over")
  /\ resume' = resume \ {t}
  /\ UNCHANGED <<tree, ok, target, spoilt>>

----------------------------------------------------------------------------
(* A pull: tracking, _pull_url and _pull_url_locked. *)

Begin(w) ==
  /\ Step(w, "out", "lock")
  /\ UNCHANGED <<locks, tree, resume, ok, target, spoilt>>

EnterPull(w) ==
  /\ At(w, "lock") /\ Enter(w, "look")
  /\ UNCHANGED <<tree, resume, ok, target, spoilt>>

\* Mutant of Resumable: the partial file of another address is continued.
ResumableAnyPart(w) == part # NONE

Resumable(w) == part # NONE /\ ident = UrlOf[w]

\* The pull may be over at once: the file is there, and is the model asked for or
\* not, a registered model has the --sha256 asked for, or the pull is refused.
Look(w) ==
  /\ At(w, "look")
  /\ \/ /\ Go(w, "leave") /\ ok' \in {ok, ok \cup {w}}
        /\ UNCHANGED resume
     \/ /\ dest = NONE /\ Go(w, "note")
        /\ resume' = IF Resumable(w) /\ Bytes > 0 THEN resume \cup {w} ELSE resume
        /\ UNCHANGED ok
  /\ UNCHANGED <<locks, tree, target, spoilt>>

\* The network refuses, breaks off, the user interrupts, or the file cannot be
\* opened: what is there stays.
Stops(w) ==
  /\ pc[w] \in {"note", "get", "open", "truncate", "transfer"} /\ Step(w, pc[w], "leave")
  /\ resume' = resume \ {w}
  /\ UNCHANGED <<locks, tree, ok, target, spoilt>>

\* The records of the same request that are not running, but for w's own.
Stale(w) == {v \in Pull \ {w} : UrlOf[v] = UrlOf[w] /\ rec[v] # "none" /\ ~IsRunning(v)}
Without(S) == [v \in Pull |-> IF v \in S THEN "none" ELSE rec[v]]

\* The first write of the record: those it replaces go first.
Supersede(w) ==
  /\ Step(w, "note", "write")
  /\ rec' = Without(Stale(w))
  /\ UNCHANGED <<locks, part, ident, dest, resume, ok, target, spoilt>>

\* A record that cannot be written is done without.
Note(w) ==
  /\ Step(w, "write", "get")
  /\ \/ rec' = [rec EXCEPT ![w] = "running"] /\ UNCHANGED spoilt
     \/ spoilt' = TRUE /\ UNCHANGED rec
  /\ UNCHANGED <<locks, part, ident, dest, resume, ok, target>>

\* The answer: the rest, the whole file, or 416 (a part that is not usable).
Get(w) ==
  /\ \/ Step(w, "get", "open") /\ UNCHANGED resume
     \/ Step(w, "get", "open") /\ resume' = resume \ {w}
     \/ w \in resume /\ Step(w, "get", "discard") /\ UNCHANGED resume
  /\ UNCHANGED <<locks, tree, ok, target, spoilt>>

\* _discard_part, after which the file is asked for again.
DiscardIdent(w) ==
  /\ Step(w, "discard", "discard_part")
  /\ ident' = NONE
  /\ UNCHANGED <<locks, part, dest, rec, resume, ok, target, spoilt>>

DiscardPart(w) ==
  /\ Step(w, "discard_part", "get")
  /\ part' = NONE /\ resume' = resume \ {w}
  /\ UNCHANGED <<locks, ident, dest, rec, ok, target, spoilt>>

Append(w) ==
  /\ w \in resume /\ Step(w, "open", "transfer")
  /\ resume' = resume \ {w}
  /\ UNCHANGED <<locks, tree, ok, target, spoilt>>

\* Mutant of Forget: the new identity is written before the file is emptied.
ForgetForNew(w) ==
  /\ w \notin resume /\ Step(w, "open", "truncate")
  /\ ident' = UrlOf[w]
  /\ UNCHANGED <<locks, part, dest, rec, resume, ok, target, spoilt>>

\* _start_part: the identity goes, the file is emptied, the identity is written.
Forget(w) ==
  /\ w \notin resume /\ Step(w, "open", "truncate")
  /\ ident' = NONE
  /\ UNCHANGED <<locks, part, dest, rec, resume, ok, target, spoilt>>

Truncate(w) ==
  /\ Step(w, "truncate", "identify")
  /\ part' = Empty
  /\ UNCHANGED <<locks, ident, dest, rec, resume, ok, target, spoilt>>

Identify(w) ==
  /\ Step(w, "identify", "transfer")
  /\ \/ ident' = UrlOf[w] /\ UNCHANGED spoilt
     \/ ident' = NONE /\ spoilt' = TRUE
  /\ UNCHANGED <<locks, part, dest, rec, resume, ok, target>>

Chunk(w) ==
  /\ At(w, "transfer") /\ part # NONE /\ part.n < Size
  /\ part' = Grown(UrlOf[w])
  /\ UNCHANGED <<locks, ident, dest, rec, pc, resume, ok, target, spoilt>>

\* The transfer is complete (the HTTP library reports a body that is cut short):
\* the partial file becomes the file.
Rename(w) ==
  /\ part # NONE /\ part.n = Size
  /\ Step(w, "transfer", "named")
  /\ dest' = part /\ part' = NONE
  /\ UNCHANGED <<locks, ident, rec, resume, ok, target, spoilt>>

\* The identity goes, then the digest is checked, if one was asked for.
RenameForgets(w) ==
  /\ Step(w, "named", "verify")
  /\ ident' = NONE
  /\ UNCHANGED <<locks, part, dest, rec, resume, ok, target, spoilt>>

\* A wrong file is deleted and an unusable one kept; a copy of a registered one
\* may be deleted and the pull succeeds with that.
Verify(w) ==
  /\ Step(w, "verify", "leave")
  /\ ok' \in {ok, ok \cup {w}} /\ dest' \in {dest, NONE}
  /\ UNCHANGED <<locks, part, ident, rec, resume, target, spoilt>>

\* _finish, which holds no lock: a success removes the records of the request,
\* then its own; a failure keeps its record when there are bytes, whosever.
FinishOk(w) ==
  /\ w \in ok /\ Step(w, "finish", "remove")
  /\ rec' = Without(Stale(w))
  /\ UNCHANGED <<locks, part, ident, dest, resume, ok, target, spoilt>>

\* Mutant of FinishFailed: a failed pull removes its record.
FinishFailedRemoves(w) ==
  /\ w \notin ok
  /\ Step(w, "finish", IF rec[w] = "none" THEN "over" ELSE "remove")
  /\ UNCHANGED <<locks, tree, resume, ok, target, spoilt>>

FinishFailed(w) ==
  /\ w \notin ok
  /\ Step(w, "finish", IF rec[w] = "none" THEN "over" ELSE IF Bytes = 0 THEN "remove" ELSE "mark")
  /\ UNCHANGED <<locks, tree, resume, ok, target, spoilt>>

RemoveRecord(w) ==
  /\ Step(w, "remove", "over")
  /\ rec' = [rec EXCEPT ![w] = "none"]
  /\ UNCHANGED <<locks, part, ident, dest, resume, ok, target, spoilt>>

MarkEnded(w) ==
  /\ Step(w, "mark", "over")
  /\ \/ rec' = [rec EXCEPT ![w] = "ended"] /\ UNCHANGED spoilt
     \/ spoilt' = TRUE /\ UNCHANGED rec
  /\ UNCHANGED <<locks, part, ident, dest, resume, ok, target>>

PullStep(w) ==
  \/ Begin(w) \/ EnterPull(w) \/ Look(w) \/ Stops(w) \/ Supersede(w) \/ Note(w) \/ Get(w)
  \/ DiscardIdent(w) \/ DiscardPart(w) \/ Append(w) \/ Forget(w) \/ Truncate(w)
  \/ Identify(w) \/ Chunk(w) \/ Rename(w) \/ RenameForgets(w) \/ Verify(w) \/ FinishOk(w)
  \/ FinishFailed(w) \/ RemoveRecord(w) \/ MarkEnded(w)

----------------------------------------------------------------------------
(* A cleaner: list_interrupted, delete_interrupted or delete_orphan. *)

\* A record without bytes is removed by the listing that found it so.
List(c) ==
  /\ At(c, "out")
  /\ \E v \in Pull :
       /\ rec[v] # "none" /\ ~IsRunning(v) /\ Bytes = 0
       /\ target' = [target EXCEPT ![c] = v]
  /\ Go(c, "finish")
  /\ UNCHANGED <<locks, tree, resume, ok, spoilt>>

DeleteInterrupted(c) ==
  /\ At(c, "out")
  /\ \E v \in Pull :
       /\ rec[v] # "none" /\ ~IsRunning(v)
       /\ target' = [target EXCEPT ![c] = v]
  /\ Go(c, "lock")
  /\ UNCHANGED <<locks, tree, resume, ok, spoilt>>

\* A partial file no record names, whose address is known and whose lock is
\* free or of a process that is gone.
DeleteOrphan(c) ==
  /\ At(c, "out")
  /\ part # NONE /\ ident # NONE /\ (holder # NONE => Over(holder))
  /\ \A v \in Pull : rec[v] = "none"
  /\ Go(c, "lock")
  /\ UNCHANGED <<locks, tree, resume, ok, target, spoilt>>

\* Mutant of EnterCleaner: a deletion does not wait for the lock.
EnterCleanerAnyway(c) ==
  /\ Step(c, "lock", IF target[c] = NONE THEN "unlink" ELSE "unlink_ident")
  /\ working' = working \cup {c}
  /\ UNCHANGED <<holder, dead, tree, resume, ok, target, spoilt>>

\* The identity of an orphan goes last, that of a record first.
EnterCleaner(c) ==
  /\ At(c, "lock") /\ Enter(c, IF target[c] = NONE THEN "unlink" ELSE "unlink_ident")
  /\ UNCHANGED <<tree, resume, ok, target, spoilt>>

UnlinkIdent(c) ==
  /\ Step(c, "unlink_ident", IF target[c] = NONE THEN "leave" ELSE "unlink")
  /\ ident' = NONE
  /\ UNCHANGED <<locks, part, dest, rec, resume, ok, target, spoilt>>

\* A file that cannot be deleted keeps its record.
Unlink(c) ==
  /\ \/ Step(c, "unlink", IF target[c] = NONE THEN "unlink_ident" ELSE "leave") /\ part' = NONE
        /\ UNCHANGED <<target, spoilt>>
     \/ Step(c, "unlink", "leave") /\ target' = [target EXCEPT ![c] = NONE] /\ spoilt' = TRUE
        /\ UNCHANGED part
  /\ UNCHANGED <<locks, ident, dest, rec, resume, ok>>

Forgotten(c) ==
  /\ Step(c, "finish", "over")
  /\ rec' = IF target[c] = NONE THEN rec ELSE [rec EXCEPT ![target[c]] = "none"]
  /\ target' = [target EXCEPT ![c] = NONE]
  /\ UNCHANGED <<locks, part, ident, dest, resume, ok, spoilt>>

CleanerStep(c) == \/ List(c) \/ DeleteInterrupted(c) \/ DeleteOrphan(c) \/ EnterCleaner(c)
                  \/ UnlinkIdent(c) \/ Unlink(c) \/ Forgotten(c)

Next ==
  \/ \E w \in Pull : PullStep(w)
  \/ \E c \in Cleaner : CleanerStep(c)
  \/ \E t \in Task : Refused(t) \/ Leave(t) \/ Release(t) \/ Reclaim(t) \/ Crash(t)

Spec == Init /\ [][Next]_vars

----------------------------------------------------------------------------
(* Properties. *)

\* Every variable has its type; whoever works on the partial file is in the
\* block its lock guards.
TypeOK ==
  /\ holder \in Task \cup {NONE} /\ working \subseteq Task /\ dead \subseteq Task
  /\ part \in File \cup {NONE} /\ dest \in File \cup {NONE} /\ ident \in Url \cup {NONE}
  /\ rec \in [Pull -> {"none", "running", "ended"}]
  /\ pc \in [Task -> {"out", "lock", "look", "note", "write", "get", "discard", "discard_part",
                      "open", "truncate", "identify", "transfer", "named", "verify", "leave",
                      "release", "finish", "remove", "mark", "unlink", "unlink_ident", "over",
                      "cut"}]
  /\ resume \subseteq Pull /\ ok \subseteq Pull /\ target \in [Cleaner -> Pull \cup {NONE}]
  /\ spoilt \in BOOLEAN
  /\ \A t \in Task : (\E place \in {"look", "get", "transfer", "unlink", "leave"} : At(t, place))
                       => t \in working

\* The identity beside a partial file is that of all its bytes, whenever a pull
\* or a deletion dies, so a pull that resumes continues its own file.
PartIsWhatItSays == ident # NONE /\ part # NONE => part.of \subseteq {ident}

\* A finished file is the whole file of one address, though no digest is known,
\* after any number of interrupted pulls of several addresses.
FinishedIsWhole == dest # NONE => dest.n = Size /\ \E u \in Url : dest.of = {u}

\* A transfer keeps the partial file it writes: no deletion and no other pull
\* takes it, or adds to it, under it.
TransferKeepsItsFile ==
  \A w \in Pull : At(w, "transfer") => part # NONE /\ part.of \subseteq {UrlOf[w]}

\* A running transfer keeps its record: no other pull of the request, listing
\* or deletion takes it for an interrupted one.
RunningKeepsItsRecord == \A w \in Pull : At(w, "transfer") /\ ~spoilt => rec[w] = "running"

\* Once everybody ended or died, the bytes on disk are offered for resuming by a
\* record of their own request, whatever was replaced, listed, deleted or cut
\* short: unless a pull of that request succeeded, or died after it removed the
\* records it replaces.
NothingIsForgotten ==
  (\A t \in Task : pc[t] = "out" \/ Over(t)) /\ ~spoilt /\ Bytes > 0 =>
    \E w \in Pull : UrlOf[w] \in part.of /\ (rec[w] # "none" \/ w \in ok \/ At(w, "cut"))
=============================================================================
