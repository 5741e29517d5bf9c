--------------------------- MODULE WorkerProtocol ---------------------------
(***************************************************************************)
(* The protocol between the server and the isolated process that runs one  *)
(* GGUF model (src/localm/inference/backends/llamacpp/_runner.py).  The    *)
(* ModelRunner sends commands over req_q and ctrl_q and reads envelopes    *)
(* from resp_q; the queues are independent.  A model with one slot uses    *)
(* the inline protocol, where a command holds _q_lock until its last       *)
(* envelope; one with more slots the multiplexed one, where a demux thread *)
(* hands the envelopes to the streams.                                     *)
(*                                                                         *)
(* A caller makes one call.  Tokens are counted; statuses, logprobs and    *)
(* progress reports are left out, and so is which time limit runs out.     *)
(* What crashes, hangs or is stopped is a choice.  A load that is          *)
(* cancelled is one that ends without a model.                             *)
(***************************************************************************)
EXTENDS Integers, Sequences, FiniteSets

CONSTANTS Reader,    \* callers of chat_stream
          Asker,     \* callers of a request with one reply (token counts)
          MaxTokens, \* bound on the tokens of a reply
          NONE

ASSUME ProtocolAssumption == /\ Reader \cap Asker = {} /\ NONE \notin Reader \cup Asker
                             /\ MaxTokens \in Nat

VARIABLES
  handle,     \* _proc: none, open or closed (None after a shutdown)
  closing,    \* a shutdown() with grace is under way
  load,       \* where spawn_and_load is
  mux,        \* _mux
  req, resp, ctrl, \* the three queues
  lock,       \* who holds _q_lock, or with mux _simple_lock
  inbox,      \* with mux: the queue of each stream
  simple,     \* _simple_q
  pc,         \* where each caller is
  got,        \* the tokens each reader received
  cancelled,  \* the readers whose cancel was sent
  mixed,      \* the callers that read an envelope of another call
  child,      \* none, up, leaving (a shutdown was read) or dead
  running,    \* the streams the child is generating
  made,       \* the tokens it generated
  stopEvent,  \* stream_cancel_event
  muxEvents,  \* with mux: the streams whose cancel event is set
  early       \* early_cancels

parent == <<handle, closing, load, mux, lock, inbox, simple, pc, got, cancelled, mixed>>
worker == <<child, running, made, stopEvent, muxEvents, early>>
queues == <<req, resp, ctrl>>
vars   == <<parent, worker, queues>>

Caller  == Reader \cup Asker
Kind    == {"token", "done", "refused", "fault", "ok"}

Envelope(kind, c) == [kind |-> kind, to |-> c]
Command(name, c)  == [name |-> name, of |-> c]

Alive     == handle = "open" /\ child \in {"up", "leaving"}    \* is_alive()
Streaming == {"reading", "draining", "killing"}
Open      == {c \in Reader : mux /\ pc[c] \in Streaming}       \* _streams

Init ==
  /\ handle = "none" /\ closing = FALSE /\ load = "out"
  /\ mux = FALSE
  /\ req = <<>> /\ resp = <<>> /\ ctrl = <<>>
  /\ lock = NONE
  /\ inbox = [c \in Reader |-> <<>>] /\ simple = <<>>
  /\ pc = [c \in Caller |-> "out"]
  /\ got = [c \in Reader |-> 0]
  /\ cancelled = {} /\ mixed = {}
  /\ child = "none" /\ running = {} /\ made = [c \in Reader |-> 0]
  /\ stopEvent = FALSE /\ muxEvents = {} /\ early = {}

----------------------------------------------------------------------------
(* Tearing the worker down. *)

ChildGone == /\ child' = "dead" /\ running' = {}
             /\ stopEvent' = FALSE /\ muxEvents' = {} /\ early' = {}

\* The child is gone; what its feeder thread had not written yet is lost.
Dies == /\ ChildGone
        /\ req' = <<>> /\ ctrl' = <<>>
        /\ \E k \in 0 .. Len(resp) : resp' = SubSeq(resp, 1, k)

\* The end of shutdown(): the queues are closed and the handles dropped.
Released == /\ handle' = "closed"
            /\ ChildGone
            /\ req' = <<>> /\ resp' = <<>> /\ ctrl' = <<>>

KeepsWorker == UNCHANGED <<handle, child, running, stopEvent, muxEvents, early, req, ctrl>>

\* shutdown() begins: the worker is asked to close.
ShutdownAsked ==
  IF handle = "open" /\ ~closing
  THEN /\ closing' = TRUE
       /\ req' = IF child = "up" THEN Append(req, Command("shutdown", NONE)) ELSE req
  ELSE UNCHANGED <<closing, req>>

\* unload() of the backend: an eviction, an idle unload or a user.
Unload ==
  /\ handle = "open" /\ ~closing
  /\ ShutdownAsked
  /\ UNCHANGED <<handle, load, mux, lock, inbox, simple, pc, got, cancelled, mixed,
                 worker, resp, ctrl>>

\* The grace is over: the process is terminated.
Kill ==
  /\ closing /\ handle = "open" /\ child \in {"up", "leaving"}
  /\ Dies
  /\ UNCHANGED <<parent, made>>

Release ==
  /\ closing /\ handle = "open" /\ child = "dead"
  /\ Released
  /\ UNCHANGED <<closing, load, mux, lock, inbox, simple, pc, got, cancelled, mixed,
                 made>>

----------------------------------------------------------------------------
(* spawn_and_load *)

Spawn ==
  /\ load = "out"
  /\ load' = "waiting" /\ handle' = "open" /\ child' = "up"
  /\ req' = <<Command("load", NONE)>>
  /\ UNCHANGED <<closing, mux, lock, inbox, simple, pc, got, cancelled, mixed, running,
                 made, stopEvent, muxEvents, early, resp, ctrl>>

\* The first envelope: the model is loaded, with one slot or more, or the
\* worker is of no use.
LoadRead ==
  /\ load = "waiting" /\ resp # <<>>
  /\ IF Head(resp).kind = "ok"
     THEN /\ load' = "ok"
          /\ mux' \in BOOLEAN
          /\ resp' = Tail(resp)
          /\ KeepsWorker
     ELSE /\ load' = "failed"
          /\ Released
          /\ UNCHANGED mux
  /\ UNCHANGED <<closing, lock, inbox, simple, pc, got, cancelled, mixed, made>>

\* The load did not end in time.
LoadStalls ==
  /\ load = "waiting" /\ resp = <<>> /\ Alive
  /\ load' = "failed"
  /\ Released
  /\ UNCHANGED <<closing, mux, lock, inbox, simple, pc, got, cancelled, mixed, made>>

LoadLost ==
  /\ load = "waiting" /\ ~Alive
  /\ load' = "failed"
  /\ UNCHANGED <<handle, closing, mux, lock, inbox, simple, pc, got, cancelled, mixed,
                 worker, queues>>

----------------------------------------------------------------------------
(* Callers: chat_stream, _chat_stream_mux and _simple_request. *)

Source(c) == IF ~mux THEN resp ELSE IF c \in Reader THEN inbox[c] ELSE simple
Take(c) ==
  IF ~mux THEN resp' = Tail(resp) /\ UNCHANGED <<inbox, simple>>
  ELSE IF c \in Reader THEN inbox' = [inbox EXCEPT ![c] = Tail(@)] /\ UNCHANGED <<resp, simple>>
  ELSE simple' = Tail(simple) /\ UNCHANGED <<resp, inbox>>

\* Mutant of Ends: a call that failed keeps the lock.
EndsKeepingLock(c, failed) ==
  /\ pc' = [pc EXCEPT ![c] = IF failed /\ c \in Reader THEN "failed" ELSE "over"]
  /\ lock' = IF lock = c /\ ~failed THEN NONE ELSE lock

\* c's call is over; when it failed, a stream has still to drop the model.
Ends(c, failed) ==
  /\ pc' = [pc EXCEPT ![c] = IF failed /\ c \in Reader THEN "failed" ELSE "over"]
  /\ lock' = IF lock = c THEN NONE ELSE lock

Sends(c, name) == /\ req' = Append(req, Command(name, c))
                  /\ pc' = [pc EXCEPT ![c] = "reading"]

\* The inline protocol: a stream waits for its turn.
WaitForTurn(c) ==
  /\ load = "ok" /\ ~mux /\ pc[c] = "out"
  /\ pc' = [pc EXCEPT ![c] = "waiting"]
  /\ UNCHANGED <<handle, closing, load, mux, lock, inbox, simple, got, cancelled, mixed, worker,
                 queues>>

\* Its turn; a runner that was shut down meanwhile has no queue to put to, and
\* the exception is none the backend handles.
Begin(c) ==
  /\ pc[c] = "waiting" /\ lock = NONE
  /\ IF handle = "open"
     THEN lock' = c /\ Sends(c, "chat_stream")
     ELSE Ends(c, FALSE) /\ UNCHANGED req
  /\ UNCHANGED <<handle, closing, load, mux, inbox, simple, got, cancelled, mixed, worker, resp,
                 ctrl>>

BeginMux(c) ==
  /\ load = "ok" /\ mux /\ pc[c] = "out"
  /\ IF handle = "open"
     THEN Sends(c, "chat_stream_mux") /\ UNCHANGED lock
     ELSE Ends(c, TRUE) /\ UNCHANGED req
  /\ UNCHANGED <<handle, closing, load, mux, inbox, simple, got, cancelled, mixed, worker, resp,
                 ctrl>>

\* A token count never waits for a stream: RunnerBusy when the lock is held.
BeginAsk(c) ==
  /\ load = "ok" /\ pc[c] = "out"
  /\ IF lock = NONE /\ handle = "open"
     THEN lock' = c /\ Sends(c, "count_tokens")
     ELSE Ends(c, FALSE) /\ UNCHANGED req
  /\ UNCHANGED <<handle, closing, load, mux, inbox, simple, got, cancelled, mixed, worker, resp,
                 ctrl>>

\* The next envelope, whosever it is: the inline protocol cannot tell.
Read(c) ==
  /\ pc[c] = "reading" /\ Source(c) # <<>>
  /\ Take(c)
  /\ LET e == Head(Source(c)) IN
       /\ mixed' = IF e.to = c THEN mixed ELSE mixed \cup {c}
       /\ IF c \in Reader /\ e.kind = "token"
          THEN got' = [got EXCEPT ![c] = @ + 1] /\ UNCHANGED <<pc, lock>>
          ELSE Ends(c, e.kind \in {"fault", "ok"}) /\ UNCHANGED got
  /\ UNCHANGED <<handle, closing, load, mux, cancelled, worker, req, ctrl>>

\* The caller stops reading: it closes the generator, asks to stop or is
\* interrupted.  A worker that is gone needs no cancel.
StopReading(c) ==
  /\ c \in Reader /\ pc[c] = "reading"
  /\ IF Alive
     THEN /\ ctrl' = Append(ctrl, Command("cancel_stream", c))
          /\ cancelled' = cancelled \cup {c}
          /\ pc' = [pc EXCEPT ![c] = "draining"]
          /\ UNCHANGED lock
     ELSE Ends(c, FALSE) /\ UNCHANGED <<ctrl, cancelled>>
  /\ UNCHANGED <<handle, closing, load, mux, inbox, simple, got, mixed, worker, req, resp>>

\* Mutant of LastOfDrain: any envelope confirms the cancel.
FirstOfDrain(e) == TRUE

\* The inline drain looks for "done" only, the other one for an error too.
LastOfDrain(e) == e.kind = "done" \/ (mux /\ e.kind \in {"refused", "fault"})

DrainRead(c) ==
  /\ pc[c] = "draining" /\ Source(c) # <<>>
  /\ Take(c)
  /\ IF LastOfDrain(Head(Source(c))) THEN Ends(c, FALSE) ELSE UNCHANGED <<pc, lock>>
  /\ UNCHANGED <<handle, closing, load, mux, got, cancelled, mixed, worker, req, ctrl>>

\* The cancel was not confirmed in time: an inline worker is killed, one with
\* other open streams is left to them.
DrainStalls(c) ==
  /\ pc[c] = "draining" /\ Source(c) = <<>> /\ Alive
  /\ IF ~mux THEN Ends(c, FALSE) /\ Released
     ELSE /\ KeepsWorker /\ UNCHANGED resp
          /\ IF Open \ {c} = {}
             THEN pc' = [pc EXCEPT ![c] = "killing"] /\ UNCHANGED lock
             ELSE Ends(c, FALSE)
  /\ UNCHANGED <<closing, load, mux, inbox, simple, got, cancelled, mixed, made>>

\* Other streams may have opened since they were counted.
KillAfterDrain(c) ==
  /\ pc[c] = "killing"
  /\ Ends(c, FALSE)
  /\ IF handle = "open" THEN Released ELSE KeepsWorker /\ UNCHANGED resp
  /\ UNCHANGED <<closing, load, mux, inbox, simple, got, cancelled, mixed, made>>

\* Mutant of Lost: only a shutdown is noticed, a crash is not.
LostWhenReleased(c) ==
  /\ pc[c] \in {"reading", "draining"} /\ handle = "closed"
  /\ Ends(c, pc[c] = "reading")
  /\ UNCHANGED <<handle, closing, load, mux, inbox, simple, got, cancelled, mixed, worker, queues>>

\* The queue was empty, then the worker is found gone; envelopes may have
\* arrived between the two looks.
Lost(c) ==
  /\ pc[c] \in {"reading", "draining"} /\ ~Alive
  /\ Ends(c, pc[c] = "reading")
  /\ UNCHANGED <<handle, closing, load, mux, inbox, simple, got, cancelled, mixed, worker, queues>>

\* No envelope in time: the worker is killed.
Stalls(c) ==
  /\ pc[c] = "reading" /\ Source(c) = <<>> /\ Alive
  /\ Ends(c, TRUE)
  /\ Released
  /\ UNCHANGED <<closing, load, mux, inbox, simple, got, cancelled, mixed, made>>

\* GgufBackend.chat_stream drops the model after a stream that failed.
DropModel(c) ==
  /\ pc[c] = "failed"
  /\ pc' = [pc EXCEPT ![c] = "over"]
  /\ ShutdownAsked
  /\ UNCHANGED <<handle, load, mux, lock, inbox, simple, got, cancelled, mixed, worker,
                 resp, ctrl>>

\* Mutant of Demux: a stream is handed the newest envelope only.
DemuxNewest ==
  /\ mux /\ handle = "open" /\ resp # <<>>
  /\ resp' = Tail(resp)
  /\ LET e == Head(resp) IN
       /\ inbox' = IF e.to \in Open THEN [inbox EXCEPT ![e.to] = <<e>>] ELSE inbox
       /\ simple' = IF e.to \in Asker THEN Append(simple, e) ELSE simple
  /\ UNCHANGED <<handle, closing, load, mux, lock, pc, got, cancelled, mixed, worker, req,
                 ctrl>>

\* The demux thread: an envelope of a stream that ended is dropped.
Demux ==
  /\ mux /\ handle = "open" /\ resp # <<>>
  /\ resp' = Tail(resp)
  /\ LET e == Head(resp) IN
       /\ inbox' = IF e.to \in Open THEN [inbox EXCEPT ![e.to] = Append(@, e)] ELSE inbox
       /\ simple' = IF e.to \in Asker THEN Append(simple, e) ELSE simple
  /\ UNCHANGED <<handle, closing, load, mux, lock, pc, got, cancelled, mixed, worker, req,
                 ctrl>>

----------------------------------------------------------------------------
(* The child. *)

Up        == child \in {"up", "leaving"}
\* The main thread of the child can take a command.
MainFree  == child = "up" /\ req # <<>> /\ (mux \/ running = {})
Next1     == Head(req)
Told(c)   == IF mux THEN c \in muxEvents ELSE stopEvent
Emits(kind, c) == resp' = Append(resp, Envelope(kind, c))

\* Mutant of Control: a cancel of a stream that has not begun is dropped.
ControlWithoutEarly ==
  /\ Up /\ ctrl # <<>>
  /\ ctrl' = Tail(ctrl)
  /\ LET m == Head(ctrl) IN
       /\ stopEvent' = (stopEvent \/ ~mux)
       /\ muxEvents' = IF mux /\ m.of \in running THEN muxEvents \cup {m.of} ELSE muxEvents
       /\ UNCHANGED early
  /\ UNCHANGED <<parent, child, running, made, req, resp>>

\* The control thread.
Control ==
  /\ Up /\ ctrl # <<>>
  /\ ctrl' = Tail(ctrl)
  /\ LET m == Head(ctrl) IN
       /\ stopEvent' = (stopEvent \/ ~mux)
       /\ muxEvents' = IF mux /\ m.of \in running THEN muxEvents \cup {m.of} ELSE muxEvents
       /\ early' = IF mux /\ m.of \notin running THEN early \cup {m.of} ELSE early
  /\ UNCHANGED <<parent, child, running, made, req, resp>>

ServeLoad ==
  /\ MainFree /\ Next1.name = "load"
  /\ req' = Tail(req)
  /\ \/ Emits("ok", NONE)
     \/ Emits("refused", NONE)   \* cancelled, or an error
  /\ UNCHANGED <<parent, worker, ctrl>>

\* A stream begins: inline on the main thread, with the event of the previous
\* stream cleared, otherwise on a thread and with an event of its own.
TakeStream ==
  /\ MainFree /\ Next1.name \in {"chat_stream", "chat_stream_mux"}
  /\ req' = Tail(req)
  /\ running' = running \cup {Next1.of}
  /\ IF mux
     THEN /\ muxEvents' = muxEvents \cup ({Next1.of} \cap early)
          /\ early' = early \ {Next1.of}
          /\ UNCHANGED stopEvent
     ELSE /\ stopEvent' = FALSE
          /\ UNCHANGED <<muxEvents, early>>
  /\ UNCHANGED <<parent, child, made, resp, ctrl>>

Answer ==
  /\ MainFree /\ Next1.name = "count_tokens"
  /\ req' = Tail(req)
  /\ \E kind \in {"ok", "refused"} : Emits(kind, Next1.of)
  /\ UNCHANGED <<parent, worker, ctrl>>

Token(c) ==
  /\ Up /\ c \in running /\ ~Told(c) /\ made[c] < MaxTokens
  /\ made' = [made EXCEPT ![c] = @ + 1]
  /\ Emits("token", c)
  /\ UNCHANGED <<parent, child, running, stopEvent, muxEvents, early, req, ctrl>>

\* The stream ends: at its end or because its event is set, with a refusal, or,
\* when a shutdown took the model from it, with a fault.
StreamOver(c) ==
  /\ Up /\ c \in running
  /\ running' = running \ {c}
  /\ muxEvents' = muxEvents \ {c}
  /\ \/ Emits("done", c)
     \/ Emits("refused", c)
     \/ child = "leaving" /\ Emits("fault", c)
  /\ UNCHANGED <<parent, child, made, stopEvent, early, req, ctrl>>

Crash ==
  /\ Up
  /\ Dies
  /\ UNCHANGED <<parent, made>>

TakeShutdown ==
  /\ MainFree /\ Next1.name = "shutdown"
  /\ child' = "leaving"
  /\ req' = Tail(req)
  /\ UNCHANGED <<parent, running, made, stopEvent, muxEvents, early, resp, ctrl>>

\* The process ends by itself; its envelopes are written out.
Leave ==
  /\ child = "leaving"
  /\ ChildGone
  /\ req' = <<>> /\ ctrl' = <<>>
  /\ UNCHANGED <<parent, made, resp>>

----------------------------------------------------------------------------

Call(c)   == Read(c) \/ DrainRead(c) \/ DrainStalls(c) \/ KillAfterDrain(c) \/ Lost(c)
               \/ Stalls(c) \/ DropModel(c)
Loader    == LoadRead \/ LoadStalls \/ LoadLost
Child     == \/ Control \/ ServeLoad \/ TakeStream \/ Answer \/ TakeShutdown \/ Leave
             \/ \E c \in Reader : Token(c) \/ StreamOver(c)

Next ==
  \/ Spawn \/ Loader
  \/ \E c \in Reader : WaitForTurn(c) \/ Begin(c) \/ BeginMux(c) \/ StopReading(c)
  \/ \E c \in Asker : BeginAsk(c)
  \/ \E c \in Caller : Call(c)
  \/ Unload \/ Kill \/ Release \/ Demux
  \/ Child \/ Crash

Spec == Init /\ [][Next]_vars

\* The threads of the server run and time limits run out.  Nothing is assumed
\* of the child: it may hang for ever.
FairSpec == /\ Spec
            /\ WF_vars(Loader) /\ WF_vars(Demux) /\ WF_vars(Kill) /\ WF_vars(Release)
            /\ \A c \in Caller : WF_vars(Call(c))
            /\ \A c \in Reader : WF_vars(Begin(c))

----------------------------------------------------------------------------
(* Properties. *)

Envelopes == [kind : Kind, to : Caller \cup {NONE}]
Commands  == [name : {"load", "chat_stream", "chat_stream_mux", "count_tokens",
                      "cancel_stream", "shutdown"}, of : Caller \cup {NONE}]

\* Every variable has its type; only a loaded model is multiplexed, and the
\* lock belongs to a caller that is in its call.
TypeOK ==
  /\ handle \in {"none", "open", "closed"} /\ closing \in BOOLEAN
  /\ load \in {"out", "waiting", "ok", "failed"}
  /\ mux \in BOOLEAN /\ (mux => load = "ok")
  /\ req \in Seq(Commands) /\ resp \in Seq(Envelopes) /\ ctrl \in Seq(Commands)
  /\ lock \in Caller \cup {NONE} /\ (lock # NONE => pc[lock] \in {"reading", "draining"})
  /\ inbox \in [Reader -> Seq(Envelopes)] /\ simple \in Seq(Envelopes)
  /\ pc \in [Caller -> {"out", "waiting", "failed", "over"} \cup Streaming]
  /\ got \in [Reader -> Nat] /\ made \in [Reader -> 0 .. MaxTokens]
  /\ cancelled \subseteq Reader /\ mixed \subseteq Caller
  /\ child \in {"none", "up", "leaving", "dead"} /\ running \subseteq Reader
  /\ stopEvent \in BOOLEAN /\ muxEvents \subseteq Reader /\ early \subseteq Reader

\* The calls that have a command or an envelope under way.
UnderWay(sent) == {sent[n].of : n \in {k \in 1 .. Len(sent) : sent[k].of # NONE}}
Addressed(q)   == {q[n].to : n \in 1 .. Len(q)}

\* While the worker lives, whatever is under way on the shared queues belongs
\* to the call that holds the lock, however earlier calls were stopped, drained
\* or refused: nothing is left over for the next one.  With the demux thread
\* this is so for the requests with one reply.
OwnEnvelopes ==
  load = "ok" /\ Alive =>
    IF mux
    THEN (UnderWay(req) \cup Addressed(resp) \cup Addressed(simple)) \cap Asker \subseteq {lock}
    ELSE UnderWay(req) \cup running \cup Addressed(resp) \subseteq {lock}

\* In the multiplexed protocol a running stream is told to stop if and only if
\* its own caller's cancel has reached the child, though the cancel may come
\* before the command it is about.
Reached(c) == c \in cancelled /\ Command("cancel_stream", c) \notin {ctrl[n] : n \in 1 .. Len(ctrl)}
CancelsAreExact == mux /\ Up => \A c \in running : c \in muxEvents <=> Reached(c)

\* A reply that ended normally was received whole, unless its caller read
\* envelopes of another call: none was dropped, taken or lost on the way.
Completes(c) == /\ pc[c] = "reading" /\ pc'[c] = "over"
                /\ Source(c) # <<>> /\ Head(Source(c)).kind = "done"
WholeReplies == [][\A c \in Reader : Completes(c) /\ c \notin mixed' => got[c] = made[c]]_vars

\* Every call ends, though the worker crashes, hangs or is unloaded under it,
\* and every stream that waits gets its turn; a load ends as well, and the
\* worker of one that failed is not kept running.
EveryCallEnds ==
  /\ \A c \in Caller : pc[c] # "out" ~> pc[c] = "over"
  /\ load = "waiting" ~> load = "ok" \/ (load = "failed" /\ ~Alive)
=============================================================================
