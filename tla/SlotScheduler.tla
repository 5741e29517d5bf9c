--------------------------- MODULE SlotScheduler ---------------------------
(***************************************************************************)
(* The slot scheduler of the llama.cpp backend                             *)
(* (src/localm/inference/backends/llamacpp/_slots.py): one thread decodes  *)
(* the replies of several requests together in one KV cache, admits queued *)
(* requests as cells are free, extends the reservations of the running     *)
(* ones, grows and shrinks the context, and makes way for callers that     *)
(* need the model alone.                                                   *)
(*                                                                         *)
(* Tokens are counted, not told apart: which prefix a prompt shares with a *)
(* cache, which idle cache is the least recently used, what the VRAM check *)
(* answers and what a decode or a sample returns are choices.  Statuses,   *)
(* heartbeats, decode rates and the data of checkpoints are left out.      *)
(* Removing a whole sequence from the cache never fails, as llama.cpp      *)
(* promises.                                                               *)
(***************************************************************************)
EXTENDS Integers, Sequences, FiniteSets

CONSTANTS Stream,        \* replies that may be submitted
          Slot,          \* KV sequences
          Caller,        \* callers that need the model alone
          Prompt,        \* tokens in the prompt of each reply
          Budget,        \* the token budget of each reply, 0 for none
          UnlimitedStep, \* UNLIMITED_STEP
          Pad,           \* RESERVE_PAD
          Base,          \* n_ctx, the smallest context
          GrowBy,        \* n_ctx_grow
          Ceiling,       \* n_ctx_max
          NONE

\* The reasons of an _End.
Reason == {"stop", "length", "error"}

ASSUME SchedulerAssumption ==
  /\ IsFiniteSet(Slot)
  /\ Prompt \in [Stream -> Nat \ {0}]
  /\ Budget \in [Stream -> Nat]
  /\ UnlimitedStep \in Nat \ {0} /\ GrowBy \in Nat \ {0}
  /\ Pad \in Nat /\ Base \in Nat \ {0} /\ Ceiling \in Nat
  /\ Base <= Ceiling
  /\ \A s \in Stream : Prompt[s] <= Ceiling
  /\ NONE \notin Stream \cup Reason \cup (Nat \X Nat)

VARIABLES
  queue,      \* _queue
  submitted,  \* the replies submit() accepted
  cancelled,  \* the replies whose cancelled event is set
  ended,      \* the _End items each reply received, by their reason
  slots,      \* _slots
  admissions, \* _admissions
  cap,        \* capacity(), 0 without a context
  dirty,      \* _dirty
  touched,    \* _touched
  foreign,    \* whether the cache really holds tokens no slot records
  pc,         \* where the scheduler thread is
  toExtend,   \* the slots _extend_pending has still to look at in this step
  closed,     \* _closed
  stopped,    \* ops.stopped()
  xpc         \* where each caller of exclusive() is

sched == <<queue, submitted, cancelled, ended, slots, admissions, cap, dirty, touched,
           foreign, pc, toExtend>>
vars  == <<sched, closed, stopped, xpc>>

Places == {"none", "idle", "check", "extend", "admit", "decode", "abort", "gone"}
\* The thread is inside its stderr scope.
InScope == pc \in {"check", "extend", "admit", "decode"}

Least(a, b) == IF a < b THEN a ELSE b

\* A slot that serves no reply, with kv cells cached.  room_wait holds exactly
\* when room_seen is set, so seen stands for both.
Idle(kv) == [stream |-> NONE, kv |-> kv, todo |-> 0, pending |-> FALSE,
             generated |-> 0, reserve |-> 0, promise |-> 0, extend |-> FALSE,
             seen |-> NONE, order |-> 0]

Active     == {i \in Slot : slots[i].stream # NONE}
Paused(i)  == slots[i].seen # NONE
Waiting    == {c \in Caller : xpc[c] = "waiting"}   \* _exclusive_waiting
Held       == {c \in Caller : xpc[c] = "inside"}    \* _exclusive_held
Admitting  == Waiting \cup Held = {}
HasWork    == Active # {} \/ (queue # <<>> /\ Admitting)

\* The cells of the slots of S when each slot j of them has f[j], and how many.
CellsOf(f, S) == UNION {{j} \X (1 .. f[j]) : j \in S}
Sum(f, S)     == Cardinality(CellsOf(f, S))

CellsIn(S, sl) == Sum([j \in Slot |-> sl[j].kv], S)
Committed      == Sum([j \in Slot |-> slots[j].reserve], Active)
OwedBut(S)     == Sum([j \in Slot |-> IF slots[j].promise > slots[j].reserve
                                      THEN slots[j].promise - slots[j].reserve ELSE 0],
                      Active \ S)

\* Mutant of RoomKey: a paused reply looks at the size of the context only.
RoomKeyOfContext(i) == <<0, cap>>

RoomKey(i) == <<Committed - slots[i].reserve, cap>>


\* The context created for n cells.
Target(n) == LET steps == ((n + GrowBy - 1) \div GrowBy) * GrowBy
             IN  Least(IF steps < Base THEN Base ELSE steps, Ceiling)
Sizes == {Target(n) : n \in 1 .. Ceiling}

\* Every slot of DOMAIN why tells its reply that it is over.
Told(why) == [s \in Stream |->
                IF \E i \in DOMAIN why : slots[i].stream = s
                THEN Append(ended[s], why[CHOOSE i \in DOMAIN why : slots[i].stream = s])
                ELSE ended[s]]
Everyone(S, reason) == Told([i \in S |-> reason])

\* Mutant of Drops: idle caches are never dropped.
NeverDrops(idle, sl, total, size) == {{}}

\* The idle caches D that are dropped, oldest first, until total cells fit.
Drops(idle, sl, total, size) ==
  LET fits(D) == total + CellsIn(idle \ D, sl) <= size
  IN {D \in SUBSET idle : /\ fits(D) \/ D = idle
                          /\ D = {} \/ \E d \in D : ~fits(D \ {d})}

Dropped(D, sl) == [j \in Slot |-> IF j \in D THEN Idle(0) ELSE sl[j]]

\* What becomes of a growth to one of the sizes: the replies of lost cannot be
\* put into the new context; without any context every active reply is lost.
Growths(sizes) ==
  [ok : {TRUE}, cap : sizes, lost : SUBSET Active] \cup
  {[ok |-> FALSE, cap |-> 0, lost |-> Active]}
AfterGrowth(g) == Dropped((Slot \ Active) \cup g.lost, slots)

Init ==
  /\ queue = <<>> /\ submitted = {} /\ cancelled = {}
  /\ ended = [s \in Stream |-> <<>>]
  /\ slots = [i \in Slot |-> Idle(0)]
  /\ admissions = 0
  /\ cap = Base
  /\ dirty = TRUE /\ touched = FALSE /\ foreign \in BOOLEAN
  /\ pc = "none" /\ toExtend = {}
  /\ closed = FALSE /\ stopped = FALSE
  /\ xpc = [c \in Caller |-> "out"]

----------------------------------------------------------------------------
(* Callers. *)

Submit(s) ==
  /\ s \notin submitted /\ ~closed
  /\ submitted' = submitted \cup {s}
  /\ queue' = Append(queue, s)
  /\ pc' = IF pc = "none" THEN "idle" ELSE pc
  /\ UNCHANGED <<cancelled, ended, slots, admissions, cap, dirty, touched, foreign, toExtend,
                 closed, stopped, xpc>>

\* SlotStream.close, by its reader or by the reader's poll of stop_requested.
CancelReply(s) ==
  /\ s \in submitted \ cancelled /\ ended[s] = <<>>
  /\ cancelled' = cancelled \cup {s}
  /\ UNCHANGED <<queue, submitted, ended, slots, admissions, cap, dirty, touched, foreign, pc,
                 toExtend, closed, stopped, xpc>>

\* LlamaCpp.close raises its stop flag, then closes the scheduler.
Stop == /\ ~stopped
        /\ stopped' = TRUE
        /\ UNCHANGED <<sched, closed, xpc>>

Close == /\ stopped /\ ~closed
         /\ closed' = TRUE
         /\ UNCHANGED <<sched, stopped, xpc>>

At(c, from, to) == xpc[c] = from /\ xpc' = [xpc EXCEPT ![c] = to]

ExclusiveAsk(c) == /\ ~closed
                   /\ At(c, "out", "waiting")
                   /\ UNCHANGED <<sched, closed, stopped>>

\* The section is taken, then the cache is emptied if a slot used it.
ExclusiveEnter(c) ==
  /\ At(c, "waiting", "inside")
  /\ ~closed /\ Held = {} /\ Active = {} /\ ~InScope
  /\ slots' = [i \in Slot |-> Idle(0)]
  /\ foreign' = (foreign /\ ~touched)
  /\ touched' = FALSE
  /\ UNCHANGED <<queue, submitted, cancelled, ended, admissions, cap, dirty, pc, toExtend,
                 closed, stopped>>

\* A requested stop, or the scheduler was closed.
ExclusiveGiveUp(c) == /\ At(c, "waiting", "done")
                      /\ UNCHANGED <<sched, closed, stopped>>

\* Mutant of ExclusiveLeave: the cache is not marked.
ExclusiveLeaveClean(c) ==
  /\ At(c, "inside", "done")
  /\ foreign' \in BOOLEAN
  /\ cap' \in Sizes \cup {0}
  /\ UNCHANGED <<queue, submitted, cancelled, ended, slots, admissions, dirty, touched, pc,
                 toExtend, closed, stopped>>

\* The section may have used the cache, and created another context or none.
ExclusiveLeave(c) ==
  /\ At(c, "inside", "done")
  /\ dirty' = TRUE
  /\ foreign' \in BOOLEAN
  /\ cap' \in Sizes \cup {0}
  /\ UNCHANGED <<queue, submitted, cancelled, ended, slots, admissions, touched, pc, toExtend,
                 closed, stopped>>

----------------------------------------------------------------------------
(* The scheduler thread between steps. *)

Gone == {s \in cancelled : \E n \in 1 .. Len(queue) : queue[n] = s}

\* The queue q without the members of S, in order.
Without(q, S) ==
  LET kept    == {n \in 1 .. Len(q) : q[n] \notin S}
      upTo(n) == Cardinality({m \in kept : m <= n})
  IN [k \in 1 .. Cardinality(kept) |-> q[CHOOSE n \in kept : upTo(n) = k]]

Reaped == [s \in Stream |-> IF s \in Gone THEN Append(ended[s], "stop") ELSE ended[s]]

\* Mutant of IdleReap: cancelled requests are left in the queue while another
\* caller has the model.
IdleReapBetweenSections ==
  /\ pc = "idle" /\ ~closed /\ ~HasWork
  /\ Gone # {} /\ Held = {}
  /\ queue' = Without(queue, Gone)
  /\ ended' = Reaped
  /\ UNCHANGED <<submitted, cancelled, slots, admissions, cap, dirty, touched, foreign, pc,
                 toExtend, closed, stopped, xpc>>

\* Nothing to run: the cancelled requests of the queue end.
IdleReap ==
  /\ pc = "idle" /\ ~closed /\ ~HasWork
  /\ Gone # {}
  /\ queue' = Without(queue, Gone)
  /\ ended' = Reaped
  /\ UNCHANGED <<submitted, cancelled, slots, admissions, cap, dirty, touched, foreign, pc,
                 toExtend, closed, stopped, xpc>>

\* Mutant of EnterScope: the queue wakes the thread only while replies run.
EnterScopeWhenActive ==
  /\ pc = "idle" /\ ~closed /\ Active # {}
  /\ pc' = "check"
  /\ UNCHANGED <<queue, submitted, cancelled, ended, slots, admissions, cap, dirty, touched,
                 foreign, toExtend, closed, stopped, xpc>>

EnterScope ==
  /\ pc = "idle" /\ ~closed /\ HasWork
  /\ pc' = "check"
  /\ UNCHANGED <<queue, submitted, cancelled, ended, slots, admissions, cap, dirty, touched,
                 foreign, toExtend, closed, stopped, xpc>>

LeaveScope ==
  /\ pc = "check" /\ (closed \/ ~HasWork)
  /\ pc' = "idle"
  /\ UNCHANGED <<queue, submitted, cancelled, ended, slots, admissions, cap, dirty, touched,
                 foreign, toExtend, closed, stopped, xpc>>

\* A step begins by ending every reply that was cancelled.
BeginStep ==
  /\ pc = "check" /\ ~closed /\ HasWork
  /\ IF stopped
     THEN /\ pc' = "abort"
          /\ UNCHANGED <<queue, ended, slots, toExtend>>
     ELSE LET over == {i \in Active : slots[i].stream \in cancelled}
          IN /\ pc' = "extend"
             /\ toExtend' = Active \ over
             /\ slots' = [i \in Slot |-> IF i \in over THEN Idle(slots[i].kv) ELSE slots[i]]
             /\ queue' = Without(queue, Gone)
             /\ ended' = [s \in Stream |-> IF s \in Gone THEN Append(ended[s], "stop")
                                           ELSE Everyone(over, "stop")[s]]
  /\ UNCHANGED <<submitted, cancelled, admissions, cap, dirty, touched, foreign, closed, stopped,
                 xpc>>

\* The loop of the thread is over: closed, or told to stop.
CloseDown ==
  /\ pc = "idle" /\ closed
  /\ pc' = "abort"
  /\ UNCHANGED <<queue, submitted, cancelled, ended, slots, admissions, cap, dirty, touched,
                 foreign, toExtend, closed, stopped, xpc>>

\* An exception leaves the step: the VRAM check, or a call of the library.
StepFails ==
  /\ pc \in {"extend", "admit", "decode"}
  /\ pc' = "abort"
  /\ UNCHANGED <<queue, submitted, cancelled, ended, slots, admissions, cap, dirty, touched,
                 foreign, toExtend, closed, stopped, xpc>>

\* Mutant of Abort: the queue is told, and kept.
AbortKeepsQueue ==
  /\ pc = "abort"
  /\ pc' = "gone"
  /\ closed' = TRUE
  /\ UNCHANGED queue
  /\ slots' = [i \in Slot |-> Idle(slots[i].kv)]
  /\ ended' = [s \in Stream |-> IF \E n \in 1 .. Len(queue) : queue[n] = s
                                THEN Append(ended[s], "error") ELSE Everyone(Active, "error")[s]]
  /\ toExtend' = {}
  /\ UNCHANGED <<submitted, cancelled, admissions, cap, dirty, touched, foreign, stopped, xpc>>

\* Every active and every queued reply ends.
Abort ==
  /\ pc = "abort"
  /\ pc' = "gone"
  /\ closed' = TRUE
  /\ queue' = <<>>
  /\ slots' = [i \in Slot |-> Idle(slots[i].kv)]
  /\ ended' = [s \in Stream |-> IF \E n \in 1 .. Len(queue) : queue[n] = s
                                THEN Append(ended[s], "error") ELSE Everyone(Active, "error")[s]]
  /\ toExtend' = {}
  /\ UNCHANGED <<submitted, cancelled, admissions, cap, dirty, touched, foreign, stopped, xpc>>

----------------------------------------------------------------------------
(* _extend_pending: more cells for the replies whose next decode needs them. *)

InTurn(i) == /\ pc = "extend" /\ i \in toExtend
             /\ \A j \in toExtend : slots[i].order <= slots[j].order
Due(i)    == slots[i].extend /\ (Paused(i) => slots[i].seen # RoomKey(i))
Looked(i) == /\ toExtend' = toExtend \ {i}
             /\ UNCHANGED <<queue, submitted, cancelled, admissions, dirty, pc, closed, stopped,
                            xpc>>

Promised(i) == slots[i].promise > slots[i].reserve
Want(i)     == Least(slots[i].reserve + UnlimitedStep,
                     IF Promised(i) THEN slots[i].promise ELSE Ceiling)
\* The cells of all replies once i has n of them.
TotalWith(i, n) == Committed - slots[i].reserve + n
Total(i)        == TotalWith(i, Want(i))
Others(i)       == Active \ {i} # {}

\* Mutant of Exhausted: the budget is looked at before the promise.
ExhaustedByBudget(i) == Budget[slots[i].stream] > 0 \/ Want(i) <= slots[i].reserve

\* The reply has its budget's reservation, or the ceiling.
Exhausted(i) == /\ ~Promised(i)
                /\ Budget[slots[i].stream] > 0 \/ Want(i) <= slots[i].reserve
\* The cells it wants are promised to other replies.
PromisedAway(i) == /\ ~Promised(i)
                   /\ OwedBut({i}) > 0 /\ Total(i) + OwedBut({i}) > Ceiling
MayTry(i)  == ~Exhausted(i) /\ ~PromisedAway(i)
AllIdle(i) == Dropped(Slot \ Active, slots)

\* Mutant of NoCells: a reply that has to wait pauses whoever else is paused.
AlwaysPauses(i, waits, sl) ==
  /\ IF waits
     THEN /\ slots' = [sl EXCEPT ![i].seen = RoomKey(i)]
          /\ UNCHANGED ended
     ELSE /\ slots' = [sl EXCEPT ![i] = Idle(sl[i].kv)]
          /\ ended' = Everyone({i}, "length")
  /\ UNCHANGED <<cap, touched, foreign>>

\* No cells for i, in the slots sl: it pauses if it waits for other replies
\* and one of them runs, otherwise it ends.
NoCells(i, waits, sl) ==
  /\ IF waits /\ \E j \in Active \ {i} : ~Paused(j)
     THEN /\ slots' = [sl EXCEPT ![i].seen = RoomKey(i)]
          /\ UNCHANGED ended
     ELSE /\ slots' = [sl EXCEPT ![i] = Idle(sl[i].kv)]
          /\ ended' = Everyone({i}, "length")
  /\ UNCHANGED <<cap, touched, foreign>>

\* The reservation of i in the slots sl becomes n.
Extended(i, n, sl) ==
  [sl EXCEPT ![i].reserve = n, ![i].extend = FALSE, ![i].seen = NONE]

\* The contexts a growth for i may create, with the reservation each gives:
\* for a promised reply the whole promise once the KV cache is in system RAM.
GrowthsFor(i) ==
  IF ~Promised(i) THEN {<<Target(Total(i)), Want(i)>>}
  ELSE LET all   == TotalWith(i, slots[i].promise)
           small == Target(Total(i))
           large == Target(all)
       IN {<<small, Want(i)>>}
          \cup {<<large, IF large > small THEN slots[i].promise ELSE Want(i)>>}
          \cup (IF large < all THEN {} ELSE {<<large, slots[i].promise>>})

NotDue(i) == /\ InTurn(i) /\ ~Due(i)
             /\ Looked(i)
             /\ UNCHANGED <<ended, slots, cap, touched, foreign>>

ExtendRefused(i) ==
  /\ InTurn(i) /\ Due(i)
  /\ Looked(i)
  /\ \/ Exhausted(i) /\ NoCells(i, FALSE, slots)
     \/ ~Exhausted(i) /\ PromisedAway(i) /\ NoCells(i, TRUE, slots)
     \* The ceiling has no room, or the VRAM check refuses the bigger context.
     \/ /\ MayTry(i) /\ Total(i) > cap
        /\ \/ Target(Total(i)) < Total(i)
           \/ ~Promised(i) /\ Others(i)
           \/ /\ Promised(i)
              /\ Target(TotalWith(i, slots[i].promise)) < TotalWith(i, slots[i].promise)
        /\ NoCells(i, ~Promised(i) /\ Others(i), AllIdle(i))

ExtendInPlace(i) ==
  /\ InTurn(i) /\ Due(i) /\ MayTry(i)
  /\ Total(i) <= cap
  /\ \E D \in Drops(Slot \ Active, slots, Total(i), cap) :
        slots' = Extended(i, Want(i), Dropped(D, slots))
  /\ Looked(i)
  /\ UNCHANGED <<ended, cap, touched, foreign>>

ExtendByGrowth(i) ==
  /\ InTurn(i) /\ Due(i) /\ MayTry(i)
  /\ Total(i) > cap /\ Target(Total(i)) >= Total(i)
  /\ \E way \in GrowthsFor(i) : \E g \in Growths({way[1]}) :
        /\ slots' = IF i \in g.lost THEN AfterGrowth(g)
                    ELSE Extended(i, way[2], AfterGrowth(g))
        /\ ended' = Everyone(g.lost, "error")
        /\ cap' = g.cap
        /\ touched' = (touched \/ g.ok)
        /\ foreign' = FALSE
  /\ Looked(i)

----------------------------------------------------------------------------
(* _admit *)

\* Every slot has been looked at: requests are admitted unless a caller needs
\* the model alone or a reply is paused.  A dirty cache is emptied first.
BeginAdmission ==
  /\ pc = "extend" /\ toExtend = {}
  /\ IF Admitting /\ \A i \in Active : ~Paused(i)
     THEN /\ pc' = "admit"
          /\ slots' = [i \in Slot |-> IF dirty THEN [slots[i] EXCEPT !.kv = 0] ELSE slots[i]]
          /\ dirty' = FALSE
          /\ touched' = (touched \/ dirty)
          /\ foreign' = (foreign /\ ~dirty)
     ELSE /\ pc' = "decode"
          /\ UNCHANGED <<slots, dirty, touched, foreign>>
  /\ UNCHANGED <<queue, submitted, cancelled, ended, admissions, cap, toExtend, closed, stopped,
                 xpc>>

AdmissionOver ==
  /\ pc = "admit"
  /\ queue = <<>> \/ Active = Slot
  /\ pc' = "decode"
  /\ UNCHANGED <<queue, submitted, cancelled, ended, slots, admissions, cap, dirty, touched,
                 foreign, toExtend, closed, stopped, xpc>>

\* stream.reserve, as submit computes it.
Whole(s) == Least(Prompt[s] + (IF Budget[s] > 0 THEN Budget[s] ELSE UnlimitedStep) + Pad,
                  Ceiling)

\* The cells s reserves in slot i: all it may need, or, with a budget and
\* nobody else running, a step when the VRAM check prefers it.
Needs(s, i) ==
  LET step   == Prompt[s] + UnlimitedStep + Pad
      others == IF Whole(s) <= cap THEN CellsIn(Slot \ {i}, slots) ELSE 0
  IN {Whole(s)} \cup
     IF /\ Active = {} /\ Budget[s] > 0 /\ step < Whole(s)
        /\ Target(step + others) < Target(Whole(s) + others)
     THEN {step} ELSE {}

\* The caches that a rightsizing for s may keep: in slot i no more than the
\* prompt can share, and of another slot all or nothing.
Kept(s, i) == {kv \in [Slot -> 0 .. Ceiling] :
                 /\ kv[i] <= Least(slots[i].kv, Prompt[s] - 1)
                 /\ \A j \in Slot \ {i} : kv[j] \in {0, slots[j].kv}}

\* _rightsize: the context and the slots after it, when nobody runs.
Rightsized(s, i, need) ==
  {[made |-> FALSE, cap |-> cap, slots |-> slots]} \cup
  IF Active = {} /\ cap > 0 /\ need <= cap
  THEN [made : {TRUE}, cap : {0}, slots : {[j \in Slot |-> Idle(0)]}] \cup
       [made  : {TRUE},
        cap   : {cap, Least(cap, Target(need + CellsIn(Slot \ {i}, slots)))},
        slots : {[j \in Slot |-> Idle(kv[j])] : kv \in Kept(s, i)}]
  ELSE {}

\* Mutant of MustWait: the cells promised to running replies are not counted.
MustWaitIgnoringPromises(need) == FALSE

MustWait(need) == OwedBut({}) > 0 /\ Committed + OwedBut({}) + need > Ceiling

\* _fit: whether need cells fit for s in slot i after the rightsizing r, with
\* the context, the slots and the replies lost after it.
Fits(s, i, need, r) ==
  LET total  == Committed + need
      idle   == {j \in Slot \ (Active \cup {i}) : r.slots[j].kv > 0}
      here   == [got |-> "wait", cap |-> r.cap, slots |-> r.slots, lost |-> {}, made |-> r.made]
      large  == Target(Committed + Whole(s))
      sizes  == {Target(total)} \cup (IF Whole(s) > need THEN {large} ELSE {})
  IN IF MustWait(need) THEN {here}
     ELSE IF total <= r.cap
     THEN {[here EXCEPT !.got = "fits", !.slots = Dropped(D, r.slots)] :
             D \in Drops(idle, r.slots, total, r.cap)}
     ELSE (IF Target(total) < total \/ Active # {} THEN {here} ELSE {}) \cup
          (IF Target(total) < total THEN {}
           ELSE {[got   |-> IF g.ok THEN "fits" ELSE "failed", cap |-> g.cap,
                  slots |-> AfterGrowth(g), lost |-> g.lost, made |-> r.made \/ g.ok] :
                   g \in Growths(sizes)})

\* _assign: slot i serves s with need cells, and keeps k cells of its cache.
Assigned(s, need, k) ==
  [Idle(k) EXCEPT !.stream  = s, !.todo = Prompt[s] - k, !.reserve = need,
                  !.promise = IF need < Whole(s) THEN Whole(s) ELSE 0,
                  !.order   = admissions]

\* Mutant of LetsIn: who asked for the model meanwhile is not looked at.
LetsInAnyone(f) == f.got # "wait"

\* The request may leave the queue: looked at again after the fit.
LetsIn(f) == f.got # "wait" /\ Admitting

AdmitNext(s, i) ==
  /\ pc = "admit" /\ queue # <<>> /\ s = Head(queue) /\ i \notin Active
  /\ \E need \in Needs(s, i) : \E r \in Rightsized(s, i, need) : \E f \in Fits(s, i, need, r) :
        /\ cap' = f.cap
        /\ touched' = (touched \/ f.made)
        /\ foreign' = (foreign /\ ~f.made)
        /\ \/ /\ ~LetsIn(f)
              /\ slots' = f.slots
              /\ ended' = Everyone(f.lost, "error")
              /\ pc' = "decode"
              /\ UNCHANGED <<queue, admissions>>
           \/ /\ LetsIn(f) /\ f.got = "failed"
              /\ slots' = f.slots
              /\ ended' = [Everyone(f.lost, "error") EXCEPT ![s] = Append(@, "error")]
              /\ queue' = Tail(queue)
              /\ UNCHANGED <<pc, admissions>>
           \/ /\ LetsIn(f) /\ f.got = "fits"
              /\ \E k \in 0 .. Least(f.slots[i].kv, Prompt[s] - 1) :
                    slots' = [f.slots EXCEPT ![i] = Assigned(s, need, k)]
              /\ ended' = Everyone(f.lost, "error")
              /\ queue' = Tail(queue)
              /\ admissions' = admissions + 1
              /\ UNCHANGED pc
  /\ UNCHANGED <<submitted, cancelled, dirty, toExtend, closed, stopped, xpc>>

----------------------------------------------------------------------------
(* _compose, _decode, _commit, _sample and _isolate: one batch. *)

Decoding == {i \in Active : slots[i].pending /\ ~Paused(i)}
Filling  == {i \in Active : ~slots[i].pending /\ slots[i].todo > 0}

\* How many prompt tokens each filling slot gives to the batch: the room goes
\* to the slots in the order they were admitted.
Chunks == {n \in [Filling -> 0 .. Ceiling] :
             /\ \A i \in Filling : n[i] <= slots[i].todo
             /\ Filling # {} => \E i \in Filling : n[i] > 0
             /\ \A i, j \in Filling :
                  slots[i].order < slots[j].order /\ n[j] > 0 => n[i] > 0}

\* What a part of the batch comes to: a token, the end of the text, a sampler
\* that fails, or a decode that fails for this sequence when it is alone.
Outcome == {"token", "eog", "fault", "refused"}

\* The part n of slot i has a row to sample: a pending token, or a prompt's end.
HasRow(i, n)   == slots[i].pending \/ n = slots[i].todo
Budgeted(i)    == Budget[slots[i].stream] > 0
LastToken(i)   == Budgeted(i) /\ slots[i].generated + 1 >= Budget[slots[i].stream]
\* Why the reply ends after its part, or NONE.
Over(i, n, o) ==
  CASE o = "refused" -> IF slots[i].pending THEN "length" ELSE "error"
    [] o = "fault"   -> "error"
    [] o = "eog"     -> "stop"
    [] OTHER         -> IF HasRow(i, n) /\ LastToken(i) THEN "length" ELSE NONE

\* The slot after its part of the batch; e.kv + 1 > e.reserve asks for cells.
After(i, n, o) ==
  LET e  == slots[i]
      kv == e.kv + (IF e.pending THEN 1 ELSE n)
  IN IF Over(i, n, o) # NONE
     THEN Idle(IF o \in {"refused", "fault"} THEN 0 ELSE kv)
     ELSE IF ~HasRow(i, n) THEN [e EXCEPT !.kv = kv, !.todo = e.todo - n]
     ELSE [e EXCEPT !.kv = kv, !.todo = 0, !.pending = TRUE, !.generated = e.generated + 1,
                    !.extend = kv + 1 > e.reserve]

Decode ==
  /\ pc = "decode"
  /\ \E n \in Chunks :
       LET plan == Decoding \cup {i \in Filling : n[i] > 0}
           part == [i \in plan |-> IF i \in Filling THEN n[i] ELSE 0]
       IN \E o \in [plan -> Outcome] :
            /\ \A i \in plan : o[i] \in {"eog", "fault"} => HasRow(i, part[i])
            /\ slots' = [i \in Slot |-> IF i \in plan THEN After(i, part[i], o[i]) ELSE slots[i]]
            /\ ended' = LET over == {i \in plan : Over(i, part[i], o[i]) # NONE}
                        IN  Told([i \in over |-> Over(i, part[i], o[i])])
            /\ touched' = (touched \/ plan # {})
  /\ pc' = "check"
  /\ UNCHANGED <<queue, submitted, cancelled, admissions, cap, dirty, foreign, toExtend,
                 closed, stopped, xpc>>

----------------------------------------------------------------------------

Extend(i) == NotDue(i) \/ ExtendRefused(i) \/ ExtendInPlace(i) \/ ExtendByGrowth(i)

Thread == \/ IdleReap \/ EnterScope \/ LeaveScope \/ BeginStep
          \/ \E i \in Slot : Extend(i)
          \/ \E s \in Stream, i \in Slot : AdmitNext(s, i)
          \/ BeginAdmission \/ AdmissionOver \/ Decode
          \/ CloseDown \/ Abort

Next == \/ \E s \in Stream : Submit(s) \/ CancelReply(s)
        \/ Stop \/ Close
        \/ \E c \in Caller : \/ ExclusiveAsk(c) \/ ExclusiveEnter(c)
                             \/ ExclusiveGiveUp(c) \/ ExclusiveLeave(c)
        \/ Thread \/ StepFails

Spec == Init /\ [][Next]_vars

\* The scheduler thread runs, and a caller that may have the model takes it.
\* Nothing makes a section end.
FairSpec == /\ Spec
            /\ WF_vars(Thread)
            /\ \A c \in Caller : WF_vars(ExclusiveEnter(c))

----------------------------------------------------------------------------
(* Properties. *)

SlotRecord == [stream : Stream \cup {NONE}, kv : Nat, todo : Nat, pending : BOOLEAN,
               generated : Nat, reserve : Nat, promise : Nat, extend : BOOLEAN,
               seen : (Nat \X Nat) \cup {NONE}, order : Nat]

\* Every variable has its type.
TypeOK ==
  /\ queue \in Seq(Stream) /\ submitted \subseteq Stream /\ cancelled \subseteq submitted
  /\ ended \in [Stream -> Seq(Reason)]
  /\ slots \in [Slot -> SlotRecord]
  /\ admissions \in Nat /\ cap \in Nat
  /\ dirty \in BOOLEAN /\ touched \in BOOLEAN /\ foreign \in BOOLEAN
  /\ pc \in Places /\ toExtend \subseteq Slot
  /\ closed \in BOOLEAN /\ stopped \in BOOLEAN
  /\ xpc \in [Caller -> {"out", "waiting", "inside", "done"}]

\* A reply that was submitted is in one place: in the queue once, in one slot,
\* or over, with one _End received; whatever cancels, growths, faults and an
\* abort do, none is lost and none is told twice.
Count(s) == Cardinality({n \in 1 .. Len(queue) : queue[n] = s})
              + Cardinality({i \in Slot : slots[i].stream = s}) + Len(ended[s])
EachReplyInOnePlace == \A s \in Stream : Count(s) = IF s \in submitted THEN 1 ELSE 0

\* The cache holds what the slots record when a reply runs, each of which has
\* prompt left or a token to decode, never both, so that _compose always has
\* something of it; and a cache that holds anything of a slot is emptied for the
\* next exclusive section.
RecordIsCache == /\ Active # {} => ~foreign
                 /\ \A i \in Active : slots[i].pending <=> slots[i].todo = 0
                 /\ (\E i \in Slot : slots[i].kv > 0) => touched

\* The cells reserved for running replies, with the cells idle caches hold, fit
\* the context, and no reply uses more cells than it reserved: a decode finds
\* room in the unified cache.
CellsFit == /\ Committed + CellsIn(Slot \ Active, slots) <= cap
            /\ \A i \in Active : slots[i].kv + slots[i].todo <= slots[i].reserve

\* The cells promised to replies that were admitted with less can still be
\* reserved below the ceiling, and such a reply never pauses.
PromisesFit == /\ OwedBut({}) > 0 => Committed + OwedBut({}) <= Ceiling
               /\ \A i \in Active : Paused(i) => ~Promised(i)

\* Between steps, when every running reply is paused, one of them will try
\* again in this step: replies never wait for one another.
NoStall == (pc = "check" /\ Active # {} /\ \A i \in Active : Paused(i))
           => \E i \in Active : slots[i].seen # RoomKey(i)

\* A reply whose prompt and budget fit the ceiling is never cut short for want
\* of cells, however its reservation was split: "length" from _extend_pending
\* is left to the others.
CutShort(s) == pc = "extend" /\ Len(ended'[s]) > Len(ended[s])
               /\ ended'[s][Len(ended'[s])] = "length"
BudgetStep(s) == CutShort(s) => ~(Budget[s] > 0 /\ Prompt[s] + Budget[s] + Pad <= Ceiling)
BudgetIsHonoured == [][\A s \in Stream : BudgetStep(s)]_vars

\* Replies share the model and exclusive callers have it alone; no reply starts
\* while one asks or has it, though the scheduler looks at the callers long
\* before it lets a request in.
Shared == INSTANCE SharedExclusive WITH
            Reply   <- Stream,
            running <- {slots[i].stream : i \in Active},
            asking  <- Waiting,
            alone   <- Held
SharesTheModel == Shared!Spec

\* Every reply ends, if no exclusive section is held for ever.
EveryReplyEnds == []<>(Held = {}) =>
                    \A s \in Stream : s \in submitted ~> ended[s] # <<>>

\* A cancelled reply ends, even while an exclusive section is held.
CancelledEnds == \A s \in Stream : s \in cancelled ~> ended[s] # <<>>
=============================================================================
