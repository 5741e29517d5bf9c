------------------------ MODULE WorkerProtocolProofs ------------------------
(***************************************************************************)
(* The safety of WorkerProtocol for any callers and any length of reply.   *)
(* The argument follows one call: its command is sent once, then the child *)
(* works on it, then its envelopes are on their way, and only the last is  *)
(* no token; so when the last one was read nothing of the call is left.    *)
(* The queues are only spoken of through a few predicates, for which the   *)
(* lemmas say what putting and taking do.                                  *)
(***************************************************************************)
EXTENDS WorkerProtocol, FiniteSetTheorems, SequenceTheorems, TLAPS

\* A queue of envelopes, as seen by caller c.
Has(q, c)    == \E n \in 1 .. Len(q) : q[n].to = c
Ended(q, c)  == \E n \in 1 .. Len(q) : q[n].to = c /\ q[n].kind # "token"
EndIsLast(q, c) ==
  \A m, n \in 1 .. Len(q) : m < n /\ q[m].to = c /\ q[n].to = c => q[m].kind = "token"
Tokenless(q, c) == \A n \in 1 .. Len(q) : q[n].to = c => q[n].kind # "token"
OnlyTo(q, c) == \A n \in 1 .. Len(q) : q[n].to = c
TokensTo(q, c) == {n \in 1 .. Len(q) : q[n].to = c /\ q[n].kind = "token"}
Count(q, c)  == Cardinality(TokensTo(q, c))

\* A queue of commands.
Sent(q, c)   == \E n \in 1 .. Len(q) : q[n].of = c
Once(q, c)   == \A m, n \in 1 .. Len(q) : q[m].of = c /\ q[n].of = c => m = n
NoLoad(q)    == \A n \in 1 .. Len(q) : q[n].name # "load"
LoadFirst(q) == \A n \in 1 .. Len(q) : q[n].name = "load" => n = 1
Proper(m)    == \/ m.name \in {"chat_stream", "chat_stream_mux"} /\ m.of \in Reader
                \/ m.name = "count_tokens" /\ m.of \in Asker
                \/ m.name \in {"load", "shutdown"} /\ m.of = NONE
AllProper(q) == \A n \in 1 .. Len(q) : Proper(q[n])
AllCancel(q) == \A n \in 1 .. Len(q) : q[n].name = "cancel_stream"
CancelTaken(c) == c \in cancelled /\ ~Sent(ctrl, c)

\* The worker: its streams end with it, and before the model is loaded there is
\* one command to load it or one answer to that.
Life ==
  /\ Up => handle = "open"
  /\ ~Up => running = {} /\ muxEvents = {} /\ early = {}
  /\ load = "out" => ~Up /\ resp = <<>>
  /\ load = "waiting" => /\ Len(resp) <= 1 /\ LoadFirst(req)
                         /\ resp # <<>> => NoLoad(req)
  /\ load = "ok" => NoLoad(req) /\ ~Has(resp, NONE)
  /\ load # "ok" => \A c \in Caller : pc[c] = "out"
  /\ AllProper(req)

\* Where callers are: the inline protocol, and the requests with one reply,
\* hold the lock from the command to the last envelope.
Places ==
  /\ \A c \in Caller : pc[c] \in {"reading", "draining"} /\ (~mux \/ c \in Asker) => lock = c
  /\ mux => lock \in Asker \cup {NONE}
  /\ mux => \A c \in Caller : pc[c] # "waiting"
  /\ \A c \in Asker : pc[c] \in {"out", "reading", "over"}

\* A call that has not sent its command left no trace.
Fresh ==
  \A c \in Caller : pc[c] \in {"out", "waiting"} =>
    /\ ~Sent(req, c) /\ ~Has(resp, c) /\ ~Has(simple, c)
    /\ c \notin running /\ c \notin cancelled /\ c \notin mixed
    /\ c \in Reader => inbox[c] = <<>> /\ got[c] = 0 /\ made[c] = 0

\* A call is in one stage: sent, running, or ended; its last envelope, and no
\* other, is not a token.
Stages ==
  \A c \in Caller :
    /\ Once(req, c)
    /\ Sent(req, c) => c \notin running /\ ~Has(resp, c) /\ ~Has(simple, c)
    /\ EndIsLast(resp, c)
    /\ c \in running => ~Ended(resp, c)

AskStages ==
  /\ \A c \in Asker :
       /\ Tokenless(resp, c) /\ Tokenless(simple, c)
       /\ EndIsLast(simple, c)
       /\ Has(simple, c) => ~Has(resp, c)
  /\ \A c \in Reader \cup {NONE} : ~Has(simple, c)

StreamStages ==
  \A c \in Reader :
    /\ Sent(req, c) => inbox[c] = <<>>
    /\ c \in running => ~Ended(inbox[c], c)
    /\ EndIsLast(inbox[c], c) /\ OnlyTo(inbox[c], c)
    /\ Ended(inbox[c], c) => ~Has(resp, c)

\* OwnEnvelopes, call by call.
Own ==
  load = "ok" /\ Up =>
    \A c \in Caller :
      /\ ~mux /\ (Sent(req, c) \/ c \in running \/ Has(resp, c)) => lock = c
      /\ mux /\ c \in Asker /\ (Sent(req, c) \/ Has(resp, c) \/ Has(simple, c)) => lock = c

Cancelling ==
  /\ AllCancel(ctrl)
  /\ \A c \in Caller \cup {NONE} : Sent(ctrl, c) => c \in cancelled
  /\ \A c \in Caller : Once(ctrl, c)
  /\ \A c \in cancelled : pc[c] \in {"draining", "killing", "over"}
  /\ early \subseteq cancelled /\ muxEvents \subseteq running
  /\ mux => \A c \in Reader : /\ c \in running => (c \in muxEvents <=> CancelTaken(c))
                              /\ Sent(req, c) => (c \in early <=> CancelTaken(c))

\* What a reader has got and what is on the way is what was generated; in the
\* inline protocol, envelopes of others are only before a call that got none.
Counted ==
  \A c \in Reader : pc[c] = "reading" /\ c \notin mixed =>
    /\ Up \/ Ended(resp, c) \/ Ended(inbox[c], c)
         => got[c] + Count(inbox[c], c) + Count(resp, c) = made[c]
    /\ ~mux /\ ~OnlyTo(resp, c) => got[c] = 0 /\ made[c] = 0 /\ ~Has(resp, c)
    /\ ~mux => inbox[c] = <<>>

IInv == /\ TypeOK /\ Life /\ Places /\ Fresh /\ Stages /\ AskStages /\ StreamStages
        /\ Own /\ Cancelling /\ Counted
-----------------------------------------------------------------------------
(* Queues. *)

LEMMA EmptyQueue ==
  ASSUME NEW c
  PROVE  /\ ~Has(<<>>, c) /\ ~Ended(<<>>, c) /\ EndIsLast(<<>>, c)
         /\ Tokenless(<<>>, c) /\ OnlyTo(<<>>, c) /\ Count(<<>>, c) = 0
         /\ ~Sent(<<>>, c) /\ Once(<<>>, c)
         /\ NoLoad(<<>>) /\ LoadFirst(<<>>) /\ AllProper(<<>>) /\ AllCancel(<<>>)
<1>1. 1 .. Len(<<>>) = {} BY EmptySeq
<1>2. TokensTo(<<>>, c) = {} BY <1>1 DEF TokensTo
<1>3. Count(<<>>, c) = 0 BY <1>2, FS_EmptySet DEF Count
<1> QED BY <1>1, <1>3
        DEF Has, Ended, EndIsLast, Tokenless, OnlyTo, Sent, Once, NoLoad, LoadFirst,
            AllProper, AllCancel

LEMMA CountType ==
  ASSUME NEW q \in Seq(Envelopes), NEW c
  PROVE  Count(q, c) \in Nat /\ IsFiniteSet(TokensTo(q, c))
<1>1. Len(q) \in Nat OBVIOUS
<1>2. IsFiniteSet(1 .. Len(q)) BY <1>1, FS_Interval
<1>3. TokensTo(q, c) \subseteq 1 .. Len(q) BY DEF TokensTo
<1> QED BY <1>2, <1>3, FS_Subset, FS_CardinalityType DEF Count

\* Without an envelope for c there is no token for it.
LEMMA CountZero ==
  ASSUME NEW q \in Seq(Envelopes), NEW c, ~Has(q, c)
  PROVE  Count(q, c) = 0 /\ ~Ended(q, c)
<1>1. TokensTo(q, c) = {} BY DEF TokensTo, Has
<1>2. Count(q, c) = 0 BY <1>1, FS_EmptySet DEF Count
<1> QED BY <1>2 DEF Has, Ended

LEMMA AppendEnvelope ==
  ASSUME NEW q \in Seq(Envelopes), NEW e \in Envelopes, NEW c
  PROVE  /\ Append(q, e) \in Seq(Envelopes) /\ Append(q, e) # <<>>
         /\ Has(Append(q, e), c) <=> Has(q, c) \/ e.to = c
         /\ Ended(Append(q, e), c) <=> Ended(q, c) \/ (e.to = c /\ e.kind # "token")
         /\ EndIsLast(Append(q, e), c) <=> EndIsLast(q, c) /\ (e.to = c => ~Ended(q, c))
         /\ Tokenless(Append(q, e), c) <=> Tokenless(q, c) /\ (e.to = c => e.kind # "token")
         /\ OnlyTo(Append(q, e), c) <=> OnlyTo(q, c) /\ e.to = c
         /\ Count(Append(q, e), c) =
              Count(q, c) + (IF e.to = c /\ e.kind = "token" THEN 1 ELSE 0)
<1> DEFINE p == Append(q, e)
           k == Len(q) + 1
<1>1. /\ p \in Seq(Envelopes) /\ Len(q) \in Nat /\ Len(p) = k /\ k \in Nat
      /\ \A n \in 1 .. Len(q) : p[n] = q[n]
      /\ p[k] = e
  BY AppendProperties
<1>2. 1 .. Len(p) = (1 .. Len(q)) \cup {k} /\ k \notin 1 .. Len(q)
  BY <1>1
<1> HIDE DEF p, k
<1>3. p # <<>> BY <1>2, EmptySeq
<1>4. Has(p, c) <=> Has(q, c) \/ e.to = c
  BY <1>1, <1>2 DEF Has
<1>5. Ended(p, c) <=> Ended(q, c) \/ (e.to = c /\ e.kind # "token")
  BY <1>1, <1>2 DEF Ended
<1>6. EndIsLast(p, c) <=> EndIsLast(q, c) /\ (e.to = c => ~Ended(q, c))
  <2>1. \A n \in 1 .. Len(q) : n < k /\ ~(k < n) BY <1>1 DEF k
  <2>2. ~(k < k) BY <1>1
  <2>3. ASSUME EndIsLast(p, c) PROVE EndIsLast(q, c)
    BY <2>3, <1>1, <1>2 DEF EndIsLast
  <2>4. ASSUME EndIsLast(p, c), e.to = c PROVE ~Ended(q, c)
    <3>1. \A n \in 1 .. Len(q) : q[n].to = c => q[n].kind = "token"
      BY <2>4, <1>1, <1>2, <2>1 DEF EndIsLast
    <3> QED BY <3>1 DEF Ended
  <2>5. ASSUME EndIsLast(q, c), e.to = c => ~Ended(q, c) PROVE EndIsLast(p, c)
    <3> SUFFICES ASSUME NEW m \in 1 .. Len(p), NEW n \in 1 .. Len(p),
                        m < n, p[m].to = c, p[n].to = c
                 PROVE  p[m].kind = "token"
      BY DEF EndIsLast
    <3>1. m \in 1 .. Len(q) BY <1>2, <2>1, <2>2
    <3>2. CASE n = k
      <4>1. q[m].to = c /\ e.to = c BY <3>1, <3>2, <1>1
      <4> QED BY <4>1, <3>1, <1>1, <2>5 DEF Ended
    <3>3. CASE n \in 1 .. Len(q) BY <3>1, <3>3, <1>1, <2>5 DEF EndIsLast
    <3> QED BY <3>2, <3>3, <1>2
  <2> QED BY <2>3, <2>4, <2>5
<1>7. Tokenless(p, c) <=> Tokenless(q, c) /\ (e.to = c => e.kind # "token")
  BY <1>1, <1>2 DEF Tokenless
<1>8. OnlyTo(p, c) <=> OnlyTo(q, c) /\ e.to = c
  BY <1>1, <1>2 DEF OnlyTo
<1>9. Count(p, c) = Count(q, c) + (IF e.to = c /\ e.kind = "token" THEN 1 ELSE 0)
  <2>1. IsFiniteSet(TokensTo(q, c)) /\ k \notin TokensTo(q, c) /\ Count(q, c) \in Nat
    BY CountType, <1>2 DEF TokensTo
  <2>2. CASE e.to = c /\ e.kind = "token"
    <3>1. TokensTo(p, c) = TokensTo(q, c) \cup {k}
      BY <2>2, <1>1, <1>2 DEF TokensTo
    <3> QED BY <3>1, <2>1, <2>2, FS_AddElement DEF Count
  <2>3. CASE ~(e.to = c /\ e.kind = "token")
    <3>1. TokensTo(p, c) = TokensTo(q, c)
      BY <2>3, <1>1, <1>2 DEF TokensTo
    <3> QED BY <3>1, <2>1, <2>3 DEF Count
  <2> QED BY <2>2, <2>3
<1> QED BY <1>1, <1>3, <1>4, <1>5, <1>6, <1>7, <1>8, <1>9 DEF p

LEMMA TailIndices ==
  ASSUME NEW S, NEW q \in Seq(S), q # <<>>
  PROVE  /\ Tail(q) \in Seq(S) /\ Head(q) \in S /\ Len(q) \in Nat /\ Len(q) >= 1
         /\ Head(q) = q[1] /\ Len(Tail(q)) = Len(q) - 1
         /\ \A n \in 1 .. Len(Tail(q)) : n + 1 \in 1 .. Len(q) /\ Tail(q)[n] = q[n + 1]
         /\ \A n \in 1 .. Len(q) : n # 1 => /\ n - 1 \in 1 .. Len(Tail(q))
                                            /\ q[n] = Tail(q)[n - 1]
<1>1. Len(q) \in Nat /\ Len(q) # 0 BY EmptySeq
<1>2. Tail(q) \in Seq(S) /\ Len(Tail(q)) = Len(q) - 1
      /\ \A n \in 1 .. Len(Tail(q)) : Tail(q)[n] = q[n + 1]
  BY HeadTailProperties
<1>3. Head(q) \in S /\ Head(q) = q[1] BY HeadTailProperties
<1>4. \A n \in 1 .. Len(Tail(q)) : n + 1 \in 1 .. Len(q) BY <1>1, <1>2
<1>5. ASSUME NEW n \in 1 .. Len(q), n # 1
      PROVE  n - 1 \in 1 .. Len(Tail(q)) /\ q[n] = Tail(q)[n - 1]
  <2>1. n - 1 \in 1 .. Len(Tail(q)) /\ (n - 1) + 1 = n BY <1>1, <1>2, <1>5
  <2> QED BY <2>1, <1>2
<1> QED BY <1>1, <1>2, <1>3, <1>4, <1>5

LEMMA TailEnvelope ==
  ASSUME NEW q \in Seq(Envelopes), q # <<>>, NEW c
  PROVE  /\ Tail(q) \in Seq(Envelopes) /\ Head(q) \in Envelopes
         /\ Has(q, c) <=> Has(Tail(q), c) \/ Head(q).to = c
         /\ Ended(q, c) <=>
              Ended(Tail(q), c) \/ (Head(q).to = c /\ Head(q).kind # "token")
         /\ EndIsLast(q, c) => EndIsLast(Tail(q), c)
         /\ EndIsLast(q, c) /\ Head(q).to = c /\ Head(q).kind # "token" => ~Has(Tail(q), c)
         /\ Tokenless(q, c) <=>
              Tokenless(Tail(q), c) /\ (Head(q).to = c => Head(q).kind # "token")
         /\ OnlyTo(q, c) <=> OnlyTo(Tail(q), c) /\ Head(q).to = c
         /\ Count(q, c) = Count(Tail(q), c)
                          + (IF Head(q).to = c /\ Head(q).kind = "token" THEN 1 ELSE 0)
<1> DEFINE t == Tail(q)
<1>1. /\ t \in Seq(Envelopes) /\ Head(q) \in Envelopes /\ Len(q) \in Nat /\ Len(q) >= 1
      /\ Head(q) = q[1] /\ Len(t) = Len(q) - 1
      /\ \A n \in 1 .. Len(t) : n + 1 \in 1 .. Len(q) /\ t[n] = q[n + 1]
      /\ \A n \in 1 .. Len(q) : n # 1 => n - 1 \in 1 .. Len(t) /\ q[n] = t[n - 1]
  BY TailIndices
<1>2. 1 \in 1 .. Len(q) BY <1>1
<1> HIDE DEF t
<1>3. Has(q, c) <=> Has(t, c) \/ Head(q).to = c
  BY <1>1, <1>2 DEF Has
<1>4. Ended(q, c) <=> Ended(t, c) \/ (Head(q).to = c /\ Head(q).kind # "token")
  BY <1>1, <1>2 DEF Ended
<1>5. EndIsLast(q, c) => EndIsLast(t, c)
  <2> SUFFICES ASSUME EndIsLast(q, c), NEW m \in 1 .. Len(t), NEW n \in 1 .. Len(t),
                      m < n, t[m].to = c, t[n].to = c
               PROVE  t[m].kind = "token"
    BY DEF EndIsLast
  <2>1. m + 1 \in 1 .. Len(q) /\ n + 1 \in 1 .. Len(q) /\ m + 1 < n + 1
        /\ t[m] = q[m + 1] /\ t[n] = q[n + 1]
    BY <1>1
  <2> QED BY <2>1 DEF EndIsLast
<1>6. EndIsLast(q, c) /\ Head(q).to = c /\ Head(q).kind # "token" => ~Has(t, c)
  <2> SUFFICES ASSUME EndIsLast(q, c), Head(q).to = c, Head(q).kind # "token",
                      NEW n \in 1 .. Len(t), t[n].to = c
               PROVE  FALSE
    BY DEF Has
  <2>1. n + 1 \in 1 .. Len(q) /\ 1 < n + 1 /\ q[n + 1].to = c BY <1>1
  <2> QED BY <2>1, <1>1, <1>2 DEF EndIsLast
<1>7. Tokenless(q, c) <=> Tokenless(t, c) /\ (Head(q).to = c => Head(q).kind # "token")
  BY <1>1, <1>2 DEF Tokenless
<1>8. OnlyTo(q, c) <=> OnlyTo(t, c) /\ Head(q).to = c
  BY <1>1, <1>2 DEF OnlyTo
<1>9. Count(q, c) = Count(t, c)
                    + (IF Head(q).to = c /\ Head(q).kind = "token" THEN 1 ELSE 0)
  <2> DEFINE A == TokensTo(t, c)
             B == TokensTo(q, c) \ {1}
             f == [n \in A |-> n + 1]
  <2>1. IsFiniteSet(A) /\ Count(t, c) = Cardinality(A) /\ Count(t, c) \in Nat
    BY <1>1, CountType DEF Count
  <2>2. IsFiniteSet(TokensTo(q, c)) /\ IsFiniteSet(B)
    BY CountType, FS_RemoveElement
  <2>3. \A n \in A : n \in Nat BY <1>1 DEF TokensTo
  <2>4. \A n \in A : n + 1 \in B
    BY <1>1, <2>3 DEF TokensTo
  <2>5. ASSUME NEW n \in B PROVE n - 1 \in A /\ (n - 1) + 1 = n
    <3>1. n \in 1 .. Len(q) /\ n # 1 /\ q[n].to = c /\ q[n].kind = "token"
      BY DEF TokensTo
    <3>2. n - 1 \in 1 .. Len(t) /\ t[n - 1] = q[n] BY <3>1, <1>1
    <3> QED BY <3>1, <3>2 DEF TokensTo
  <2>6. f \in Bijection(A, B)
    <3>1. f \in [A -> B] BY <2>4
    <3>2. \A m, n \in A : f[m] = f[n] => m = n BY <2>3
    <3>3. \A n \in B : \E m \in A : f[m] = n BY <2>5
    <3> QED BY <3>1, <3>2, <3>3 DEF Bijection, Injection, Surjection, IsInjective
  <2>7. Cardinality(A) = Cardinality(B)
    BY <2>1, <2>6, FS_Bijection DEF ExistsBijection
  <2>8. CASE Head(q).to = c /\ Head(q).kind = "token"
    <3>1. 1 \in TokensTo(q, c) BY <2>8, <1>1, <1>2 DEF TokensTo
    <3>2. Cardinality(B) = Cardinality(TokensTo(q, c)) - 1
      BY <3>1, <2>2, FS_RemoveElement
    <3>3. Cardinality(TokensTo(q, c)) \in Nat BY <2>2, FS_CardinalityType
    <3> QED BY <3>2, <3>3, <2>1, <2>7, <2>8 DEF Count
  <2>9. CASE ~(Head(q).to = c /\ Head(q).kind = "token")
    <3>1. B = TokensTo(q, c) BY <2>9, <1>1 DEF TokensTo
    <3>2. Count(q, c) = Cardinality(B) BY <3>1 DEF Count
    <3> HIDE DEF A, B
    <3> QED BY <3>2, <2>1, <2>7, <2>9
  <2> QED BY <2>8, <2>9
<1> QED BY <1>1, <1>3, <1>4, <1>5, <1>6, <1>7, <1>8, <1>9 DEF t

\* What a crash leaves of a queue: its first envelopes.
LEMMA PrefixEnvelope ==
  ASSUME NEW q \in Seq(Envelopes), NEW k \in 0 .. Len(q), NEW c
  PROVE  LET p == SubSeq(q, 1, k) IN
         /\ p \in Seq(Envelopes) /\ Len(p) <= Len(q)
         /\ Has(p, c) => Has(q, c)
         /\ Ended(p, c) => Ended(q, c)
         /\ EndIsLast(q, c) => EndIsLast(p, c)
         /\ Tokenless(q, c) => Tokenless(p, c)
         /\ OnlyTo(q, c) => OnlyTo(p, c)
         /\ EndIsLast(q, c) /\ Ended(p, c) => Count(p, c) = Count(q, c)
<1> DEFINE p == SubSeq(q, 1, k)
<1>1. Len(q) \in Nat OBVIOUS
<1>2. /\ p \in Seq(Envelopes) /\ Len(p) = k
      /\ \A n \in 1 .. k : p[n] = q[n]
  BY <1>1, SubSeqProperties
<1> HIDE DEF p
<1>3. 1 .. Len(p) \subseteq 1 .. Len(q) /\ \A n \in 1 .. Len(p) : p[n] = q[n]
  BY <1>1, <1>2
<1>4. EndIsLast(q, c) => EndIsLast(p, c)
  BY <1>3 DEF EndIsLast
<1>5. EndIsLast(q, c) /\ Ended(p, c) => Count(p, c) = Count(q, c)
  <2> SUFFICES ASSUME EndIsLast(q, c), Ended(p, c)
               PROVE  TokensTo(p, c) = TokensTo(q, c)
    BY DEF Count
  <2>1. PICK m \in 1 .. Len(p) : p[m].to = c /\ p[m].kind # "token"
    BY DEF Ended
  <2>2. ASSUME NEW n \in 1 .. Len(q), q[n].to = c PROVE n \in 1 .. Len(p)
    <3>1. ~(m < n) BY <2>1, <2>2, <1>3 DEF EndIsLast
    <3> QED BY <3>1, <2>2, <1>1, <1>2
  <2> QED BY <2>2, <1>3 DEF TokensTo
<1> QED BY <1>1, <1>2, <1>3, <1>4, <1>5 DEF p, Has, Ended, Tokenless, OnlyTo

LEMMA AppendCommand ==
  ASSUME NEW q \in Seq(Commands), NEW m \in Commands, NEW c
  PROVE  /\ Append(q, m) \in Seq(Commands)
         /\ Sent(Append(q, m), c) <=> Sent(q, c) \/ m.of = c
         /\ Once(Append(q, m), c) <=> Once(q, c) /\ (m.of = c => ~Sent(q, c))
         /\ NoLoad(Append(q, m)) <=> NoLoad(q) /\ m.name # "load"
         /\ LoadFirst(q) /\ m.name # "load" => LoadFirst(Append(q, m))
         /\ AllProper(Append(q, m)) <=> AllProper(q) /\ Proper(m)
         /\ AllCancel(Append(q, m)) <=> AllCancel(q) /\ m.name = "cancel_stream"
<1> DEFINE p == Append(q, m)
           k == Len(q) + 1
<1>1. /\ p \in Seq(Commands) /\ Len(q) \in Nat /\ Len(p) = k
      /\ \A n \in 1 .. Len(q) : p[n] = q[n]
      /\ p[k] = m
  BY AppendProperties
<1>2. 1 .. Len(p) = (1 .. Len(q)) \cup {k} /\ k \notin 1 .. Len(q)
  BY <1>1
<1> HIDE DEF p, k
<1>3. Sent(p, c) <=> Sent(q, c) \/ m.of = c
  BY <1>1, <1>2 DEF Sent
<1>4. Once(p, c) <=> Once(q, c) /\ (m.of = c => ~Sent(q, c))
  BY <1>1, <1>2 DEF Sent, Once
<1> QED BY <1>1, <1>2, <1>3, <1>4 DEF p, NoLoad, LoadFirst, AllProper, AllCancel

LEMMA TailCommand ==
  ASSUME NEW q \in Seq(Commands), q # <<>>, NEW c
  PROVE  /\ Tail(q) \in Seq(Commands) /\ Head(q) \in Commands
         /\ Sent(q, c) <=> Sent(Tail(q), c) \/ Head(q).of = c
         /\ Once(q, c) => Once(Tail(q), c)
         /\ Once(q, c) /\ Head(q).of = c => ~Sent(Tail(q), c)
         /\ NoLoad(q) => NoLoad(Tail(q)) /\ Head(q).name # "load"
         /\ LoadFirst(q) => NoLoad(Tail(q)) /\ LoadFirst(Tail(q))
         /\ AllProper(q) => AllProper(Tail(q)) /\ Proper(Head(q))
         /\ AllCancel(q) => AllCancel(Tail(q)) /\ Head(q).name = "cancel_stream"
<1> DEFINE t == Tail(q)
<1>1. /\ t \in Seq(Commands) /\ Head(q) \in Commands /\ Len(q) \in Nat /\ Len(q) >= 1
      /\ Head(q) = q[1] /\ Len(t) = Len(q) - 1
      /\ \A n \in 1 .. Len(t) : n + 1 \in 1 .. Len(q) /\ t[n] = q[n + 1]
      /\ \A n \in 1 .. Len(q) : n # 1 => n - 1 \in 1 .. Len(t) /\ q[n] = t[n - 1]
  BY TailIndices
<1>2. 1 \in 1 .. Len(q) BY <1>1
<1> HIDE DEF t
<1>3. Sent(q, c) <=> Sent(t, c) \/ Head(q).of = c
  BY <1>1, <1>2 DEF Sent
<1>4. Once(q, c) => Once(t, c)
  <2> SUFFICES ASSUME Once(q, c), NEW m \in 1 .. Len(t), NEW n \in 1 .. Len(t),
                      t[m].of = c, t[n].of = c
               PROVE  m = n
    BY DEF Once
  <2>1. m + 1 = n + 1 BY <1>1 DEF Once
  <2> QED BY <2>1
<1>5. Once(q, c) /\ Head(q).of = c => ~Sent(t, c)
  <2> SUFFICES ASSUME Once(q, c), Head(q).of = c, NEW n \in 1 .. Len(t), t[n].of = c
               PROVE  FALSE
    BY DEF Sent
  <2>1. n + 1 = 1 BY <1>1, <1>2 DEF Once
  <2> QED BY <2>1
<1>6. LoadFirst(q) => NoLoad(t)
  <2> SUFFICES ASSUME LoadFirst(q), NEW n \in 1 .. Len(t), t[n].name = "load"
               PROVE  FALSE
    BY DEF NoLoad
  <2>1. n + 1 = 1 BY <1>1 DEF LoadFirst
  <2> QED BY <2>1
<1>7. NoLoad(t) => LoadFirst(t) BY DEF NoLoad, LoadFirst
<1> QED BY <1>1, <1>2, <1>3, <1>4, <1>5, <1>6, <1>7 DEF t, NoLoad, AllProper, AllCancel
-----------------------------------------------------------------------------
(* The child ends, and with it its queues. *)

\* What is left of resp, as far as the invariant is concerned.
Shrinks ==
  /\ resp' \in Seq(Envelopes) /\ Len(resp') <= Len(resp)
  /\ resp = <<>> => resp' = <<>>
  /\ \A c \in Caller \cup {NONE} :
       /\ Has(resp', c) => Has(resp, c)
       /\ Ended(resp', c) => Ended(resp, c)
       /\ EndIsLast(resp, c) => EndIsLast(resp', c)
       /\ Tokenless(resp, c) => Tokenless(resp', c)
       /\ OnlyTo(resp, c) => OnlyTo(resp', c)
       /\ EndIsLast(resp, c) /\ Ended(resp', c) => Count(resp', c) = Count(resp, c)
       /\ ~Has(resp, c) => Count(resp', c) = Count(resp, c)

\* Caller c stops waiting for an envelope.
Stops(c, p) ==
  /\ pc[c] \in Streaming
  /\ p # "over" => c \in Reader
  /\ p = "failed" => pc[c] = "reading"
  /\ p = "killing" => mux
  /\ pc' = [pc EXCEPT ![c] = p]
  /\ lock' = IF lock = c THEN NONE ELSE lock

LEMMA PrefixShrinks ==
  ASSUME TypeOK, NEW k \in 0 .. Len(resp), resp' = SubSeq(resp, 1, k)
  PROVE  Shrinks
<1>1. resp \in Seq(Envelopes) BY DEF TypeOK
<1>2. \A c \in Caller \cup {NONE} :
        /\ Has(resp', c) => Has(resp, c)
        /\ Ended(resp', c) => Ended(resp, c)
        /\ EndIsLast(resp, c) => EndIsLast(resp', c)
        /\ Tokenless(resp, c) => Tokenless(resp', c)
        /\ OnlyTo(resp, c) => OnlyTo(resp', c)
        /\ EndIsLast(resp, c) /\ Ended(resp', c) => Count(resp', c) = Count(resp, c)
  BY <1>1, PrefixEnvelope
<1>3. resp' \in Seq(Envelopes) /\ Len(resp') <= Len(resp)
  BY <1>1, PrefixEnvelope
<1>4. \A c \in Caller \cup {NONE} : ~Has(resp, c) => Count(resp', c) = Count(resp, c)
  BY <1>1, <1>2, <1>3, CountZero
<1>5. resp = <<>> => resp' = <<>>
  BY <1>3, EmptySeq
<1> QED BY <1>2, <1>3, <1>4, <1>5 DEF Shrinks

LEMMA EmptyShrinks == ASSUME TypeOK, resp' = <<>> PROVE Shrinks
<1>1. resp \in Seq(Envelopes) /\ 0 \in 0 .. Len(resp) BY DEF TypeOK
<1>2. SubSeq(resp, 1, 0) = <<>> BY <1>1, SubSeqProperties, EmptySeq
<1> QED BY <1>1, <1>2, PrefixShrinks

LEMMA SameShrinks == ASSUME TypeOK, resp' = resp PROVE Shrinks
<1>1. resp \in Seq(Envelopes) BY DEF TypeOK
<1> QED BY <1>1 DEF Shrinks
-----------------------------------------------------------------------------
(* Callers that stop, whether or not the child is gone. *)

\* What a caller that stops, or none, does to places and lock.
Leaves ==
  /\ pc' \in [Caller -> {"out", "waiting", "failed", "over"} \cup Streaming]
  /\ lock' \in {lock, NONE}
  /\ lock' # NONE => pc'[lock'] \in {"reading", "draining"}
  /\ \A d \in Caller :
       \/ pc'[d] = pc[d] /\ (lock = d => lock' = d)
       \/ /\ pc[d] \in Streaming /\ pc'[d] \in {"over", "failed", "killing"}
          /\ pc'[d] # "over" => d \in Reader
          /\ pc'[d] = "failed" => pc[d] = "reading"

LEMMA CallerFacts == /\ Reader \subseteq Caller /\ Asker \subseteq Caller /\ NONE \notin Caller
                     /\ \A c \in Caller : c \in Reader <=> c \notin Asker
BY ProtocolAssumption DEF Caller

LEMMA StopsLeaves ==
  ASSUME TypeOK, Places, NEW c \in Caller, NEW p \in {"over", "failed", "killing"},
         Stops(c, p)
  PROVE  Leaves
<1>1. /\ pc \in [Caller -> {"out", "waiting", "failed", "over"} \cup Streaming]
      /\ lock \in Caller \cup {NONE}
      /\ lock # NONE => pc[lock] \in {"reading", "draining"}
  BY DEF TypeOK
<1>2. pc' = [pc EXCEPT ![c] = p] /\ lock' = IF lock = c THEN NONE ELSE lock
  BY DEF Stops
<1>3. /\ pc' \in [Caller -> {"out", "waiting", "failed", "over"} \cup Streaming]
      /\ \A d \in Caller : pc'[d] = IF d = c THEN p ELSE pc[d]
  BY <1>1, <1>2 DEF Streaming
<1>4. lock' \in {lock, NONE} /\ (lock' # NONE => pc'[lock'] \in {"reading", "draining"})
  BY <1>1, <1>2, <1>3
<1>5. \A d \in Caller :
       \/ pc'[d] = pc[d] /\ (lock = d => lock' = d)
       \/ /\ pc[d] \in Streaming /\ pc'[d] \in {"over", "failed", "killing"}
          /\ pc'[d] # "over" => d \in Reader
          /\ pc'[d] = "failed" => pc[d] = "reading"
  BY <1>2, <1>3 DEF Stops
<1> QED BY <1>3, <1>4, <1>5 DEF Leaves

LEMMA SameLeaves == ASSUME TypeOK, UNCHANGED <<pc, lock>> PROVE Leaves
BY DEF TypeOK, Leaves

LEMMA GoneStep ==
  ASSUME IInv, ChildGone, Shrinks, Leaves, req' = <<>>, ctrl' = <<>>,
         handle' \in {handle, "closed"},
         load' = load \/ (load = "waiting" /\ load' = "failed"),
         UNCHANGED <<closing, mux, inbox, simple, got, cancelled, mixed, made>>
  PROVE  IInv'
<1>1. /\ TypeOK /\ Life /\ Places /\ Fresh /\ Stages /\ AskStages /\ StreamStages
      /\ Own /\ Cancelling /\ Counted
  BY DEF IInv
<1>2. /\ child' = "dead" /\ running' = {} /\ stopEvent' = FALSE /\ muxEvents' = {}
      /\ early' = {} /\ ~Up'
  BY DEF ChildGone, Up
<1>3. \A c \in Caller \cup {NONE} :
        /\ ~Sent(req', c) /\ Once(req', c) /\ ~Sent(ctrl', c) /\ Once(ctrl', c)
  BY EmptyQueue
<1>4. NoLoad(req') /\ LoadFirst(req') /\ AllProper(req') /\ AllCancel(ctrl')
  BY EmptyQueue
<1>5. TypeOK'
  <2>1. req' \in Seq(Commands) /\ ctrl' \in Seq(Commands) OBVIOUS
  <2>2. mux' => load' = "ok" BY <1>1 DEF TypeOK
  <2>3. lock' \in Caller \cup {NONE} BY <1>1 DEF TypeOK, Leaves
  <2>4. handle' \in {"none", "open", "closed"} /\ load' \in {"out", "waiting", "ok", "failed"}
    BY <1>1 DEF TypeOK
  <2> QED BY <2>1, <2>2, <2>3, <2>4, <1>1, <1>2 DEF TypeOK, Leaves, Shrinks
<1>6. Life'
  <2>1. load' # "ok" => \A c \in Caller : pc'[c] = "out"
    BY <1>1, CallerFacts DEF Life, Leaves, Streaming
  <2>2. Len(resp') \in Nat /\ Len(resp) \in Nat BY <1>1 DEF TypeOK, Shrinks
  <2>3. load' = "waiting" => Len(resp') <= 1
    BY <2>2, <1>1 DEF Life, Shrinks
  <2>4. load' = "out" => resp' = <<>> BY <1>1 DEF Life, Shrinks
  <2>5. load' = "ok" => ~Has(resp', NONE) BY <1>1 DEF Life, Shrinks
  <2> QED BY <2>1, <2>3, <2>4, <2>5, <1>2, <1>4 DEF Life
<1>7. Places'
  BY <1>1, CallerFacts DEF Places, Leaves, Streaming
<1>8. Fresh'
  BY <1>1, <1>2, <1>3, CallerFacts DEF Fresh, Leaves, Shrinks
<1>9. Stages' /\ AskStages' /\ StreamStages'
  <2>1. Stages' BY <1>1, <1>2, <1>3 DEF Stages, Shrinks
  <2>2. AskStages' BY <1>1, CallerFacts DEF AskStages, Shrinks
  <2>3. StreamStages' BY <1>1, <1>2, <1>3, CallerFacts DEF StreamStages, Shrinks
  <2> QED BY <2>1, <2>2, <2>3
<1>10. Own'
  BY <1>2 DEF Own
<1>11. Cancelling'
  <2>1. \A c \in cancelled : pc'[c] \in {"draining", "killing", "over"}
    BY <1>1, CallerFacts DEF Cancelling, Leaves, TypeOK
  <2> QED BY <2>1, <1>2, <1>3, <1>4, CallerFacts DEF Cancelling
<1>12. Counted'
  <2> SUFFICES ASSUME NEW c \in Reader, pc'[c] = "reading", c \notin mixed
               PROVE  /\ Ended(resp', c) \/ Ended(inbox[c], c)
                          => got[c] + Count(inbox[c], c) + Count(resp', c) = made[c]
                      /\ ~mux /\ ~OnlyTo(resp', c)
                          => got[c] = 0 /\ made[c] = 0 /\ ~Has(resp', c)
                      /\ ~mux => inbox[c] = <<>>
    BY <1>2 DEF Counted
  <2>1. pc[c] = "reading" /\ c \in Caller BY CallerFacts DEF Leaves
  <2>2. Ended(resp', c) \/ Ended(inbox[c], c) => Count(resp', c) = Count(resp, c)
    BY <2>1, <1>1 DEF Shrinks, Stages, StreamStages
  <2> QED BY <2>1, <2>2, <1>1 DEF Counted, Shrinks
<1> QED BY <1>5, <1>6, <1>7, <1>8, <1>9, <1>10, <1>11, <1>12 DEF IInv

\* A call that ends or is about to kill the worker, with the child left alone.
LEMMA EndStep ==
  ASSUME IInv, NEW c \in Caller, NEW p \in {"over", "failed", "killing"}, Stops(c, p),
         ~Up \/ (mux /\ c \in Reader),
         UNCHANGED <<handle, closing, load, mux, inbox, simple, got, cancelled, mixed,
                     worker, queues>>
  PROVE  IInv'
<1>1. /\ TypeOK /\ Life /\ Places /\ Fresh /\ Stages /\ AskStages /\ StreamStages
      /\ Own /\ Cancelling /\ Counted
  BY DEF IInv
<1>2. Leaves BY <1>1, StopsLeaves
<1>3. /\ UNCHANGED <<child, running, made, stopEvent, muxEvents, early>>
      /\ UNCHANGED <<req, resp, ctrl>>
  BY DEF worker, queues
<1>4. TypeOK'
  <2>1. lock' \in Caller \cup {NONE} BY <1>1, <1>2 DEF TypeOK, Leaves
  <2> QED BY <2>1, <1>1, <1>2, <1>3 DEF TypeOK, Leaves
<1>5. Life'
  <2>1. load # "ok" => \A d \in Caller : pc'[d] = "out"
    BY <1>1, <1>2 DEF Life, Leaves, Streaming
  <2> QED BY <2>1, <1>1, <1>3 DEF Life, Up
<1>6. Places'
  BY <1>1, <1>2, CallerFacts DEF Places, Leaves, Streaming
<1>7. Fresh'
  BY <1>1, <1>2, <1>3 DEF Fresh, Leaves
<1>8. Stages' /\ AskStages' /\ StreamStages'
  BY <1>1, <1>3 DEF Stages, AskStages, StreamStages
<1>9. Own'
  <2>1. CASE ~Up BY <2>1, <1>3 DEF Own, Up
  <2>2. CASE mux /\ c \in Reader
    <3>1. lock # c BY <2>2, <1>1, CallerFacts DEF Places
    <3>2. lock' = lock BY <3>1 DEF Stops
    <3> QED BY <3>2, <1>1, <1>3 DEF Own, Up
  <2> QED BY <2>1, <2>2
<1>10. Cancelling'
  <2>1. \A d \in cancelled : pc'[d] \in {"draining", "killing", "over"}
    BY <1>1, <1>2, CallerFacts DEF Cancelling, Leaves, TypeOK
  <2> QED BY <2>1, <1>1, <1>3 DEF Cancelling, CancelTaken
<1>11. Counted'
  <2>1. \A d \in Reader : pc'[d] = "reading" => pc[d] = "reading"
    BY <1>2, CallerFacts DEF Leaves
  <2> QED BY <2>1, <1>1, <1>3 DEF Counted, Up
<1> QED BY <1>4, <1>5, <1>6, <1>7, <1>8, <1>9, <1>10, <1>11 DEF IInv
LEMMA EndsStops ==
  ASSUME TypeOK, NEW c \in Caller, pc[c] \in Streaming, NEW failed \in BOOLEAN, Ends(c, failed),
         failed => pc[c] = "reading"
  PROVE  \E p \in {"over", "failed"} : Stops(c, p)
<1> DEFINE p == IF failed /\ c \in Reader THEN "failed" ELSE "over"
<1>1. Stops(c, p) BY DEF Ends, Stops
<1> QED BY <1>1

-----------------------------------------------------------------------------
(* Tearing the worker down, and loading. *)

LEMMA KillStep == ASSUME IInv, Kill PROVE IInv'
<1>1. TypeOK BY DEF IInv
<1>2. PICK k \in 0 .. Len(resp) : resp' = SubSeq(resp, 1, k) BY DEF Kill, Dies
<1>3. Shrinks /\ Leaves BY <1>1, <1>2, PrefixShrinks, SameLeaves DEF Kill, parent
<1> QED BY <1>3, GoneStep DEF Kill, Dies, parent

LEMMA CrashStep == ASSUME IInv, Crash PROVE IInv'
<1>1. TypeOK BY DEF IInv
<1>2. PICK k \in 0 .. Len(resp) : resp' = SubSeq(resp, 1, k) BY DEF Crash, Dies
<1>3. Shrinks /\ Leaves BY <1>1, <1>2, PrefixShrinks, SameLeaves DEF Crash, parent
<1> QED BY <1>3, GoneStep DEF Crash, Dies, parent

LEMMA LeaveStep == ASSUME IInv, Leave PROVE IInv'
<1>1. TypeOK BY DEF IInv
<1>2. Shrinks /\ Leaves BY <1>1, SameShrinks, SameLeaves DEF Leave, parent
<1> QED BY <1>2, GoneStep DEF Leave, parent

LEMMA ReleaseStep == ASSUME IInv, Release PROVE IInv'
<1>1. TypeOK BY DEF IInv
<1>2. Shrinks /\ Leaves BY <1>1, EmptyShrinks, SameLeaves DEF Release, Released
<1> QED BY <1>2, GoneStep DEF Release, Released

LEMMA SpawnStep == ASSUME IInv, Spawn PROVE IInv'
<1>1. /\ TypeOK /\ Life /\ Places /\ Fresh /\ Stages /\ AskStages /\ StreamStages
      /\ Own /\ Cancelling /\ Counted
  BY DEF IInv
<1>2. /\ load = "out" /\ load' = "waiting" /\ handle' = "open" /\ child' = "up"
      /\ UNCHANGED <<closing, mux, lock, inbox, simple, pc, got, cancelled, mixed, running,
                     made, stopEvent, muxEvents, early, resp, ctrl>>
  BY DEF Spawn
<1>3. /\ resp = <<>> /\ running = {} /\ ~mux /\ Up'
      /\ \A c \in Caller : pc[c] = "out"
  BY <1>1, <1>2 DEF Life, TypeOK, Up
<1>4. Command("load", NONE) \in Commands /\ Proper(Command("load", NONE))
      /\ Command("load", NONE).of = NONE
  BY DEF Command, Commands, Proper
<1>5. req' = Append(<<>>, Command("load", NONE)) /\ <<>> \in Seq(Commands)
  BY DEF Spawn
<1> HIDE DEF Command
<1>6. /\ req' \in Seq(Commands) /\ AllProper(req')
      /\ \A c \in Caller : ~Sent(req', c) /\ Once(req', c)
  BY <1>4, <1>5, AppendCommand, EmptyQueue, CallerFacts
<1>7. LoadFirst(req')
  <2>1. Len(req') = 1 BY DEF Spawn
  <2> QED BY <2>1 DEF LoadFirst
<1>8. TypeOK' BY <1>1, <1>2, <1>6 DEF TypeOK
<1>9. Life' BY <1>1, <1>2, <1>3, <1>6, <1>7, EmptySeq DEF Life
<1>10. Places' BY <1>1, <1>2 DEF Places
<1>11. Fresh' BY <1>1, <1>2, <1>6 DEF Fresh
<1>12. Stages' /\ AskStages' /\ StreamStages'
  BY <1>1, <1>2, <1>6, CallerFacts DEF Stages, AskStages, StreamStages
<1>13. Own' BY <1>2 DEF Own
<1>14. Cancelling' BY <1>1, <1>2, <1>3 DEF Cancelling
<1>15. Counted' BY <1>2, <1>3, CallerFacts DEF Counted
<1> QED BY <1>8, <1>9, <1>10, <1>11, <1>12, <1>13, <1>14, <1>15 DEF IInv

LEMMA LoadReadStep == ASSUME IInv, LoadRead PROVE IInv'
<1>1. /\ TypeOK /\ Life /\ Places /\ Fresh /\ Stages /\ AskStages /\ StreamStages
      /\ Own /\ Cancelling /\ Counted
  BY DEF IInv
<1>2. /\ load = "waiting" /\ resp # <<>> /\ Len(resp) <= 1 /\ NoLoad(req)
      /\ resp \in Seq(Envelopes)
      /\ UNCHANGED <<closing, lock, inbox, simple, pc, got, cancelled, mixed, made>>
  BY <1>1 DEF LoadRead, Life, TypeOK
<1>3. CASE Head(resp).kind = "ok"
  <2>1. /\ load' = "ok" /\ mux' \in BOOLEAN /\ resp' = Tail(resp)
        /\ UNCHANGED <<handle, child, running, stopEvent, muxEvents, early, req, ctrl>>
    BY <1>3 DEF LoadRead, KeepsWorker
  <2>2. /\ \A c \in Caller : pc[c] = "out"
        /\ lock = NONE
    BY <1>1, <1>2 DEF Life, TypeOK
  <2>3. resp' = <<>>
    <3>1. Tail(resp) \in Seq(Envelopes) /\ Len(Tail(resp)) = 0
      BY <1>2, TailIndices
    <3> QED BY <3>1, <2>1, EmptySeq
  <2>4. \A c \in Caller \cup {NONE} :
          /\ ~Has(resp', c) /\ ~Ended(resp', c) /\ EndIsLast(resp', c) /\ Tokenless(resp', c)
    BY <2>3, EmptyQueue
  <2>5. \A c \in Caller : /\ ~Sent(req, c) /\ c \notin running
                          /\ ~Has(simple, c) /\ c \notin cancelled
    BY <1>1, <2>2 DEF Fresh
  <2>6. TypeOK' BY <1>1, <1>2, <2>1, <2>3 DEF TypeOK
  <2>7. Life' BY <1>1, <1>2, <2>1, <2>4 DEF Life, Up
  <2>8. Places' BY <1>1, <1>2, <2>1, <2>2, CallerFacts DEF Places
  <2>9. Fresh' BY <1>1, <1>2, <2>1, <2>4 DEF Fresh
  <2>10. Stages' /\ AskStages' /\ StreamStages'
    BY <1>1, <1>2, <2>1, <2>4, CallerFacts DEF Stages, AskStages, StreamStages
  <2>11. Own' BY <2>1, <2>4, <2>5, <1>2, CallerFacts DEF Own
  <2>12. Cancelling' BY <1>1, <1>2, <2>1, <2>5, CallerFacts DEF Cancelling
  <2>13. Counted' BY <1>2, <2>2, CallerFacts DEF Counted
  <2> QED BY <2>6, <2>7, <2>8, <2>9, <2>10, <2>11, <2>12, <2>13 DEF IInv
<1>4. CASE Head(resp).kind # "ok"
  <2>1. Released /\ load' = "failed" /\ UNCHANGED mux BY <1>4 DEF LoadRead
  <2>2. Shrinks /\ Leaves BY <1>1, <1>2, <2>1, EmptyShrinks, SameLeaves DEF Released
  <2> QED BY <1>2, <2>1, <2>2, GoneStep DEF Released
<1> QED BY <1>3, <1>4

LEMMA LoadStallsStep == ASSUME IInv, LoadStalls PROVE IInv'
<1>1. TypeOK BY DEF IInv
<1>2. Shrinks /\ Leaves BY <1>1, EmptyShrinks, SameLeaves DEF LoadStalls, Released
<1> QED BY <1>2, GoneStep DEF LoadStalls, Released

LEMMA LoadLostStep == ASSUME IInv, LoadLost PROVE IInv'
<1>1. /\ TypeOK /\ Life /\ Places /\ Fresh /\ Stages /\ AskStages /\ StreamStages
      /\ Own /\ Cancelling /\ Counted
  BY DEF IInv
<1>2. /\ load = "waiting" /\ load' = "failed"
      /\ UNCHANGED <<handle, closing, mux, lock, inbox, simple, pc, got, cancelled, mixed,
                     child, running, made, stopEvent, muxEvents, early, req, resp, ctrl>>
  BY DEF LoadLost, worker, queues
<1>3. TypeOK' BY <1>1, <1>2 DEF TypeOK
<1>4. Life' BY <1>1, <1>2 DEF Life, Up
<1>5. Places' BY <1>1, <1>2 DEF Places
<1>6. Fresh' BY <1>1, <1>2 DEF Fresh
<1>7. Stages' /\ AskStages' /\ StreamStages'
  BY <1>1, <1>2 DEF Stages, AskStages, StreamStages
<1>8. Own' BY <1>2 DEF Own
<1>9. Cancelling' BY <1>1, <1>2 DEF Cancelling, CancelTaken
<1>10. Counted' BY <1>1, <1>2 DEF Counted, Up
<1> QED BY <1>3, <1>4, <1>5, <1>6, <1>7, <1>8, <1>9, <1>10 DEF IInv
-----------------------------------------------------------------------------
(* Calls begin. *)

\* A call that has not begun takes its place in the line, or is refused.
LEMMA MoveStep ==
  ASSUME IInv, load = "ok", NEW c \in Caller, pc[c] \in {"out", "waiting"},
         NEW p \in {"waiting", "over", "failed"},
         p # "over" => c \in Reader, p = "waiting" => ~mux,
         pc' = [pc EXCEPT ![c] = p], lock' = lock,
         UNCHANGED <<handle, closing, load, mux, inbox, simple, got, cancelled, mixed,
                     worker, queues>>
  PROVE  IInv'
<1>1. /\ TypeOK /\ Life /\ Places /\ Fresh /\ Stages /\ AskStages /\ StreamStages
      /\ Own /\ Cancelling /\ Counted
  BY DEF IInv
<1>2. /\ UNCHANGED <<handle, closing, load, mux, inbox, simple, got, cancelled, mixed>>
      /\ UNCHANGED <<child, running, made, stopEvent, muxEvents, early, req, resp, ctrl>>
  BY DEF worker, queues
<1>3. /\ pc' \in [Caller -> {"out", "waiting", "failed", "over"} \cup Streaming]
      /\ \A d \in Caller : pc'[d] = IF d = c THEN p ELSE pc[d]
  BY <1>1 DEF TypeOK
<1>4. TypeOK' BY <1>1, <1>2, <1>3 DEF TypeOK
<1>5. Life' BY <1>1, <1>2 DEF Life, Up
<1>6. Places' BY <1>1, <1>2, <1>3, CallerFacts DEF Places
<1>7. Fresh' BY <1>1, <1>2, <1>3 DEF Fresh
<1>8. Stages' /\ AskStages' /\ StreamStages'
  BY <1>1, <1>2 DEF Stages, AskStages, StreamStages
<1>9. Own' BY <1>1, <1>2 DEF Own, Up
<1>10. Cancelling'
  <2>1. c \notin cancelled BY <1>1 DEF Fresh
  <2> QED BY <2>1, <1>1, <1>2, <1>3, CallerFacts DEF Cancelling, CancelTaken, TypeOK
<1>11. Counted' BY <1>1, <1>2, <1>3, CallerFacts DEF Counted, Up
<1> QED BY <1>4, <1>5, <1>6, <1>7, <1>8, <1>9, <1>10, <1>11 DEF IInv

LEMMA SendStep ==
  ASSUME IInv, load = "ok", NEW c \in Caller, pc[c] \in {"out", "waiting"},
         NEW name, Proper(Command(name, c)), Sends(c, name),
         lock = NONE \/ (mux /\ c \in Reader),
         lock' = IF mux /\ c \in Reader THEN lock ELSE c,
         UNCHANGED <<handle, closing, load, mux, inbox, simple, got, cancelled, mixed,
                     worker, resp, ctrl>>
  PROVE  IInv'
<1>1. /\ TypeOK /\ Life /\ Places /\ Fresh /\ Stages /\ AskStages /\ StreamStages
      /\ Own /\ Cancelling /\ Counted
  BY DEF IInv
<1>2. /\ UNCHANGED <<handle, closing, load, mux, inbox, simple, got, cancelled, mixed>>
      /\ UNCHANGED <<child, running, made, stopEvent, muxEvents, early, resp, ctrl>>
  BY DEF worker
<1>3. /\ pc' \in [Caller -> {"out", "waiting", "failed", "over"} \cup Streaming]
      /\ \A d \in Caller : pc'[d] = IF d = c THEN "reading" ELSE pc[d]
  BY <1>1 DEF TypeOK, Sends, Streaming
<1>4. /\ Command(name, c) \in Commands /\ Command(name, c).of = c
      /\ Command(name, c).name # "load"
  BY CallerFacts DEF Command, Commands, Proper
<1>5. req \in Seq(Commands) /\ req' = Append(req, Command(name, c))
  BY <1>1 DEF TypeOK, Sends
<1>6. /\ req' \in Seq(Commands) /\ AllProper(req')
      /\ NoLoad(req) => NoLoad(req')
      /\ LoadFirst(req) => LoadFirst(req')
      /\ \A d \in Caller : /\ Sent(req', d) <=> Sent(req, d) \/ d = c
                           /\ Once(req', d) <=> Once(req, d) /\ (d = c => ~Sent(req, d))
  <2> HIDE DEF Command
  <2>1. AllProper(req) BY <1>1 DEF Life
  <2> QED BY <2>1, <1>4, <1>5, AppendCommand
<1>7. /\ ~Sent(req, c) /\ ~Has(resp, c) /\ ~Has(simple, c)
      /\ c \notin running /\ c \notin cancelled /\ c \notin mixed
      /\ c \in Reader => inbox[c] = <<>> /\ got[c] = 0 /\ made[c] = 0
  BY <1>1 DEF Fresh
<1>8. TypeOK'
  <2>1. lock' \in Caller \cup {NONE} /\ (lock' # NONE => pc'[lock'] \in {"reading", "draining"})
    BY <1>1, <1>3 DEF TypeOK
  <2> QED BY <2>1, <1>1, <1>2, <1>3, <1>6 DEF TypeOK
<1>9. Life' BY <1>1, <1>2, <1>6 DEF Life, Up
<1>10. Places'
  <2>1. c \in Reader => c \notin Asker BY CallerFacts
  <2> QED BY <2>1, <1>1, <1>2, <1>3, CallerFacts DEF Places
<1>11. Fresh' BY <1>1, <1>2, <1>3, <1>6 DEF Fresh
<1>12. Stages' /\ AskStages' /\ StreamStages'
  BY <1>1, <1>2, <1>6, <1>7, CallerFacts DEF Stages, AskStages, StreamStages
<1>13. Own'
  BY <1>1, <1>2, <1>6, CallerFacts DEF Own, Up
<1>14. Cancelling'
  <2>1. c \notin early BY <1>1, <1>7 DEF Cancelling
  <2>2. \A d \in cancelled : pc'[d] \in {"draining", "killing", "over"}
    BY <1>1, <1>3, <1>7, CallerFacts DEF Cancelling, TypeOK
  <2> QED BY <2>1, <2>2, <1>1, <1>2, <1>6, <1>7, CallerFacts DEF Cancelling, CancelTaken
<1>15. Counted'
  <2>1. c \in Reader => Count(inbox[c], c) = 0 /\ Count(resp, c) = 0
    BY <1>1, <1>7, EmptyQueue, CountZero DEF TypeOK
  <2>2. ASSUME NEW d \in Reader, d # c, pc'[d] = "reading", d \notin mixed
        PROVE  /\ Up \/ Ended(resp, d) \/ Ended(inbox[d], d)
                    => got[d] + Count(inbox[d], d) + Count(resp, d) = made[d]
               /\ ~mux /\ ~OnlyTo(resp, d) => got[d] = 0 /\ made[d] = 0 /\ ~Has(resp, d)
               /\ ~mux => inbox[d] = <<>>
    BY <2>2, <1>1, <1>3, CallerFacts DEF Counted
  <2> QED BY <2>1, <2>2, <1>2, <1>7 DEF Counted, Up
<1> QED BY <1>8, <1>9, <1>10, <1>11, <1>12, <1>13, <1>14, <1>15 DEF IInv

LEMMA WaitForTurnStep == ASSUME IInv, NEW c \in Reader, WaitForTurn(c) PROVE IInv'
BY CallerFacts, MoveStep DEF WaitForTurn

\* The lock is never held by a call that has not begun.
LEMMA EndsBefore ==
  ASSUME TypeOK, NEW c \in Caller, pc[c] \in {"out", "waiting"}, NEW failed \in BOOLEAN,
         Ends(c, failed)
  PROVE  /\ lock' = lock
         /\ \E p \in {"over", "failed"} :
              (p # "over" => c \in Reader) /\ pc' = [pc EXCEPT ![c] = p]
<1> DEFINE p == IF failed /\ c \in Reader THEN "failed" ELSE "over"
<1>1. pc' = [pc EXCEPT ![c] = p] BY DEF Ends
<1>2. lock # c BY CallerFacts DEF TypeOK
<1> QED BY <1>1, <1>2 DEF Ends

LEMMA BeginStep == ASSUME IInv, NEW c \in Reader, Begin(c) PROVE IInv'
<1>1. TypeOK /\ Life /\ Places BY DEF IInv
<1>2. c \in Caller /\ pc[c] = "waiting" /\ lock = NONE /\ load = "ok" /\ ~mux
  BY <1>1, CallerFacts DEF Begin, Life, Places
<1>3. CASE handle = "open"
  <2>1. Proper(Command("chat_stream", c)) BY DEF Proper, Command
  <2> QED BY <2>1, <1>2, <1>3, SendStep DEF Begin
<1>4. CASE handle # "open"
  <2>1. Ends(c, FALSE) /\ UNCHANGED req BY <1>4 DEF Begin
  <2>2. PICK p \in {"over", "failed"} :
          (p # "over" => c \in Reader) /\ pc' = [pc EXCEPT ![c] = p] /\ lock' = lock
    BY <2>1, <1>1, <1>2, EndsBefore
  <2> QED BY <2>1, <2>2, <1>2, MoveStep DEF Begin, queues
<1> QED BY <1>3, <1>4

LEMMA BeginMuxStep == ASSUME IInv, NEW c \in Reader, BeginMux(c) PROVE IInv'
<1>1. TypeOK BY DEF IInv
<1>2. c \in Caller /\ pc[c] = "out" /\ load = "ok" /\ mux
  BY CallerFacts DEF BeginMux
<1>3. CASE handle = "open"
  <2>1. Proper(Command("chat_stream_mux", c)) BY DEF Proper, Command
  <2> QED BY <2>1, <1>2, <1>3, SendStep DEF BeginMux
<1>4. CASE handle # "open"
  <2>1. Ends(c, TRUE) /\ UNCHANGED req BY <1>4 DEF BeginMux
  <2>2. PICK p \in {"over", "failed"} :
          (p # "over" => c \in Reader) /\ pc' = [pc EXCEPT ![c] = p] /\ lock' = lock
    BY <2>1, <1>1, <1>2, EndsBefore
  <2> QED BY <2>1, <2>2, <1>2, MoveStep DEF BeginMux, queues
<1> QED BY <1>3, <1>4

LEMMA BeginAskStep == ASSUME IInv, NEW c \in Asker, BeginAsk(c) PROVE IInv'
<1>1. TypeOK BY DEF IInv
<1>2. c \in Caller /\ c \notin Reader /\ pc[c] = "out" /\ load = "ok"
  BY CallerFacts DEF BeginAsk
<1>3. CASE lock = NONE /\ handle = "open"
  <2>1. Proper(Command("count_tokens", c)) BY DEF Proper, Command
  <2>2. lock' = c /\ Sends(c, "count_tokens") BY <1>3 DEF BeginAsk
  <2> QED BY <2>1, <2>2, <1>2, <1>3, SendStep DEF BeginAsk
<1>4. CASE ~(lock = NONE /\ handle = "open")
  <2>1. Ends(c, FALSE) /\ UNCHANGED req BY <1>4 DEF BeginAsk
  <2>2. PICK p \in {"over", "failed"} :
          (p # "over" => c \in Reader) /\ pc' = [pc EXCEPT ![c] = p] /\ lock' = lock
    BY <2>1, <1>1, <1>2, EndsBefore
  <2> QED BY <2>1, <2>2, <1>2, MoveStep DEF BeginAsk, queues
<1> QED BY <1>3, <1>4

\* shutdown() begins, for an eviction or for a stream that failed.
LEMMA AskedStep ==
  ASSUME IInv, ShutdownAsked,
         UNCHANGED pc \/ \E c \in Caller : pc[c] = "failed" /\ pc' = [pc EXCEPT ![c] = "over"],
         UNCHANGED <<handle, load, mux, lock, inbox, simple, got, cancelled, mixed,
                     worker, resp, ctrl>>
  PROVE  IInv'
<1>1. /\ TypeOK /\ Life /\ Places /\ Fresh /\ Stages /\ AskStages /\ StreamStages
      /\ Own /\ Cancelling /\ Counted
  BY DEF IInv
<1>2. /\ UNCHANGED <<handle, load, mux, lock, inbox, simple, got, cancelled, mixed>>
      /\ UNCHANGED <<child, running, made, stopEvent, muxEvents, early, resp, ctrl>>
  BY DEF worker
<1>3. /\ pc' \in [Caller -> {"out", "waiting", "failed", "over"} \cup Streaming]
      /\ \A d \in Caller : pc'[d] = pc[d] \/ (pc[d] = "failed" /\ pc'[d] = "over")
  BY <1>1 DEF TypeOK
<1>4. /\ Command("shutdown", NONE) \in Commands /\ Proper(Command("shutdown", NONE))
      /\ Command("shutdown", NONE).of = NONE /\ Command("shutdown", NONE).name = "shutdown"
  BY DEF Command, Commands, Proper
<1>5. req \in Seq(Commands) /\ AllProper(req) /\ closing' \in BOOLEAN
      /\ req' \in {req, Append(req, Command("shutdown", NONE))}
  BY <1>1 DEF TypeOK, ShutdownAsked, Life
<1>6. /\ req' \in Seq(Commands) /\ AllProper(req')
      /\ NoLoad(req) => NoLoad(req')
      /\ LoadFirst(req) => LoadFirst(req')
      /\ \A d \in Caller : /\ Sent(req', d) <=> Sent(req, d)
                           /\ Once(req', d) <=> Once(req, d)
  <2> HIDE DEF Command
  <2>1. CASE req' = req BY <2>1, <1>5
  <2>2. CASE req' = Append(req, Command("shutdown", NONE))
    BY <2>2, <1>4, <1>5, AppendCommand, CallerFacts
  <2> QED BY <2>1, <2>2, <1>5
<1>7. TypeOK' BY <1>1, <1>2, <1>3, <1>5, <1>6 DEF TypeOK
<1>8. Life' BY <1>1, <1>2, <1>3, <1>6 DEF Life, Up
<1>9. Places' BY <1>1, <1>2, <1>3, CallerFacts DEF Places
<1>10. Fresh' BY <1>1, <1>2, <1>3, <1>6 DEF Fresh
<1>11. Stages' /\ AskStages' /\ StreamStages'
  BY <1>1, <1>2, <1>6, CallerFacts DEF Stages, AskStages, StreamStages
<1>12. Own' BY <1>1, <1>2, <1>6 DEF Own, Up
<1>13. Cancelling'
  <2>1. \A d \in cancelled : pc'[d] \in {"draining", "killing", "over"}
    BY <1>1, <1>3, CallerFacts DEF Cancelling, TypeOK
  <2> QED BY <2>1, <1>1, <1>2, <1>6, CallerFacts DEF Cancelling, CancelTaken
<1>14. Counted' BY <1>1, <1>2, <1>3, CallerFacts DEF Counted, Up
<1> QED BY <1>7, <1>8, <1>9, <1>10, <1>11, <1>12, <1>13, <1>14 DEF IInv

LEMMA UnloadStep == ASSUME IInv, Unload PROVE IInv'
BY AskedStep DEF Unload

LEMMA DropModelStep == ASSUME IInv, NEW c \in Caller, DropModel(c) PROVE IInv'
BY AskedStep DEF DropModel
-----------------------------------------------------------------------------
(* Callers read. *)

\* An envelope leaves the queue of c; the call goes on, or this was its last.
LEMMA TakeStep ==
  ASSUME IInv, NEW c \in Caller, pc[c] \in {"reading", "draining"},
         Source(c) # <<>>, Take(c), NEW e, e = Head(Source(c)),
         \/ UNCHANGED <<pc, lock>> /\ c \in Reader
         \/ /\ c \in Reader => e.kind # "token"
            /\ \E p \in {"over", "failed"} : Stops(c, p),
         mixed' \in {mixed, mixed \cup {c}},
         pc'[c] = "reading" /\ e.to # c => c \in mixed',
         pc'[c] = "reading" => e.kind = "token",
         got' = IF pc'[c] = "reading" THEN [got EXCEPT ![c] = @ + 1] ELSE got,
         UNCHANGED <<handle, closing, load, mux, cancelled, worker, req, ctrl>>
  PROVE  IInv'
<1>1. /\ TypeOK /\ Life /\ Places /\ Fresh /\ Stages /\ AskStages /\ StreamStages
      /\ Own /\ Cancelling /\ Counted
  BY DEF IInv
<1>2. /\ UNCHANGED <<handle, closing, load, mux, cancelled, req, ctrl>>
      /\ UNCHANGED <<child, running, made, stopEvent, muxEvents, early>>
  BY DEF worker
<1>3. Leaves
  <2>1. CASE UNCHANGED <<pc, lock>> BY <2>1, <1>1, SameLeaves
  <2>2. CASE \E p \in {"over", "failed"} : Stops(c, p) BY <2>2, <1>1, StopsLeaves
  <2> QED BY <2>1, <2>2
<1>4. /\ resp \in Seq(Envelopes) /\ simple \in Seq(Envelopes)
      /\ inbox \in [Reader -> Seq(Envelopes)]
      /\ Source(c) \in Seq(Envelopes)
  BY <1>1, CallerFacts DEF TypeOK, Source
<1>5. ASSUME NEW q \in Seq(Envelopes), q # <<>>
      PROVE  /\ Tail(q) \in Seq(Envelopes) /\ Head(q) \in Envelopes
             /\ \A d \in Caller \cup {NONE} :
                  /\ Has(Tail(q), d) => Has(q, d)
                  /\ Ended(Tail(q), d) => Ended(q, d)
                  /\ EndIsLast(q, d) => EndIsLast(Tail(q), d)
                  /\ Tokenless(q, d) => Tokenless(Tail(q), d)
                  /\ OnlyTo(q, d) => OnlyTo(Tail(q), d)
  BY <1>5, TailEnvelope
<1>6. \A d \in Caller : pc'[d] = "reading" => pc[d] = "reading"
  BY <1>3 DEF Leaves
<1>7. /\ resp' \in Seq(Envelopes) /\ simple' \in Seq(Envelopes)
      /\ inbox' \in [Reader -> Seq(Envelopes)]
      /\ \A d \in Caller \cup {NONE} :
           /\ Has(resp', d) => Has(resp, d)
           /\ Ended(resp', d) => Ended(resp, d)
           /\ EndIsLast(resp, d) => EndIsLast(resp', d)
           /\ Tokenless(resp, d) => Tokenless(resp', d)
           /\ OnlyTo(resp, d) => OnlyTo(resp', d)
           /\ Has(simple', d) => Has(simple, d)
           /\ EndIsLast(simple, d) => EndIsLast(simple', d)
           /\ Tokenless(simple, d) => Tokenless(simple', d)
      /\ \A d \in Reader :
           /\ inbox[d] = <<>> => inbox'[d] = <<>>
           /\ Ended(inbox'[d], d) => Ended(inbox[d], d)
           /\ EndIsLast(inbox[d], d) => EndIsLast(inbox'[d], d)
           /\ OnlyTo(inbox[d], d) => OnlyTo(inbox'[d], d)
  <2>1. CASE ~mux
    <3>1. resp # <<>> /\ resp' = Tail(resp) /\ UNCHANGED <<inbox, simple>>
      BY <2>1 DEF Source, Take
    <3> QED BY <3>1, <1>4, <1>5
  <2>2. CASE mux /\ c \in Reader
    <3>1. /\ inbox[c] # <<>> /\ inbox' = [inbox EXCEPT ![c] = Tail(@)]
          /\ UNCHANGED <<resp, simple>>
      BY <2>2 DEF Source, Take
    <3>2. \A d \in Reader : inbox'[d] = IF d = c THEN Tail(inbox[c]) ELSE inbox[d]
      BY <3>1, <1>4
    <3>3. inbox[c] \in Seq(Envelopes) /\ Tail(inbox[c]) \in Seq(Envelopes)
      BY <2>2, <3>1, <1>4, <1>5
    <3>4. inbox' \in [Reader -> Seq(Envelopes)] BY <3>1, <3>3, <1>4
    <3> QED BY <2>2, <3>1, <3>2, <3>3, <3>4, <1>4, <1>5, CallerFacts
  <2>3. CASE mux /\ c \notin Reader
    <3>1. simple # <<>> /\ simple' = Tail(simple) /\ UNCHANGED <<resp, inbox>>
      BY <2>3 DEF Source, Take
    <3> QED BY <3>1, <1>4, <1>5
  <2> QED BY <2>1, <2>2, <2>3
<1>8. TypeOK'
  <2>1. lock' \in Caller \cup {NONE} BY <1>1, <1>3 DEF TypeOK, Leaves
  <2>2. got' \in [Reader -> Nat]
    <3>1. got \in [Reader -> Nat] BY <1>1 DEF TypeOK
    <3>2. CASE pc'[c] = "reading"
      <4>1. got' = [got EXCEPT ![c] = @ + 1] BY <3>2
      <4>2. c \in Reader BY <3>2, <1>1 DEF Stops, TypeOK
      <4> QED BY <3>1, <4>1, <4>2
    <3>3. CASE pc'[c] # "reading" BY <3>1, <3>3
    <3> QED BY <3>2, <3>3
  <2>3. mixed' \subseteq Caller BY <1>1 DEF TypeOK
  <2> QED BY <2>1, <2>2, <2>3, <1>1, <1>2, <1>3, <1>7 DEF TypeOK, Leaves
<1>9. Life'
  <2>1. load = "ok" BY <1>1 DEF Life
  <2> QED BY <2>1, <1>1, <1>2, <1>7 DEF Life, Up
<1>10. Places'
  BY <1>1, <1>2, <1>3, CallerFacts DEF Places, Leaves, Streaming
<1>11. Fresh'
  <2>1. \A d \in Caller : pc'[d] \in {"out", "waiting"} => pc'[d] = pc[d] /\ d # c
    BY <1>3 DEF Leaves
  <2>2. \A d \in Reader : d # c => got'[d] = got[d]
    BY <1>1 DEF TypeOK
  <2> QED BY <2>1, <2>2, <1>1, <1>2, <1>7 DEF Fresh
<1>12. Stages' /\ AskStages' /\ StreamStages'
  <2>1. Stages' BY <1>1, <1>2, <1>7 DEF Stages
  <2>2. AskStages'
    <3>1. ASSUME NEW d \in Asker
          PROVE  /\ Tokenless(resp', d) /\ Tokenless(simple', d)
                 /\ EndIsLast(simple', d)
                 /\ Has(simple', d) => ~Has(resp', d)
      BY <1>1, <1>7, CallerFacts DEF AskStages
    <3>2. \A d \in Reader \cup {NONE} : ~Has(simple', d)
      BY <1>1, <1>7, CallerFacts DEF AskStages
    <3> QED BY <3>1, <3>2 DEF AskStages
  <2>3. StreamStages' BY <1>1, <1>2, <1>7, CallerFacts DEF StreamStages
  <2> QED BY <2>1, <2>2, <2>3
<1>13. Own'
  <2> SUFFICES ASSUME load = "ok", Up
               PROVE  \A d \in Caller :
                 /\ ~mux /\ (Sent(req, d) \/ d \in running \/ Has(resp', d)) => lock' = d
                 /\ mux /\ d \in Asker /\ (Sent(req, d) \/ Has(resp', d) \/ Has(simple', d))
                       => lock' = d
    BY <1>2 DEF Own, Up
  <2>1. CASE lock' = lock BY <2>1, <1>1, <1>2, <1>7 DEF Own
  <2>2. CASE lock' # lock
    <3>1. PICK p \in {"over", "failed"} : Stops(c, p) BY <2>2
    <3>2. lock = c /\ (c \in Reader => e.kind # "token" /\ ~mux)
      BY <3>1, <2>2, <1>1, CallerFacts DEF Stops, Streaming, Places
    <3>3. CASE ~mux
      <4>1. resp # <<>> /\ resp' = Tail(resp) /\ e = Head(resp)
        BY <3>3 DEF Source, Take
      <4>2. \A d \in Caller : d # c => ~Sent(req, d) /\ d \notin running /\ ~Has(resp, d)
        BY <3>2, <3>3, <1>1 DEF Own
      <4>3. e \in Envelopes /\ Has(resp, e.to)
        BY <4>1, <1>4, TailEnvelope
      <4>4. e.to = c
        <5>1. e.to \in Caller \cup {NONE} BY <4>3 DEF Envelopes
        <5> QED BY <5>1, <4>2, <4>3, <1>1 DEF Life
      <4>5. e.kind # "token"
        <5>1. c \in Asker => Tokenless(resp, c) BY <1>1 DEF AskStages
        <5>2. Tokenless(resp, c) => e.kind # "token" BY <4>1, <4>4, <1>4, TailEnvelope
        <5> QED BY <5>1, <5>2, <3>2, CallerFacts
      <4>6. Ended(resp, c) /\ Has(resp, c) /\ ~Has(resp', c)
        BY <4>1, <4>4, <4>5, <1>1, <1>4, TailEnvelope DEF Stages
      <4>7. ~Sent(req, c) /\ c \notin running BY <4>6, <1>1 DEF Stages
      <4> QED BY <4>2, <4>6, <4>7, <1>7, <3>3
    <3>4. CASE mux
      <4>1. /\ c \in Asker /\ simple # <<>> /\ simple' = Tail(simple) /\ e = Head(simple)
            /\ resp' = resp
        BY <3>2, <3>4, CallerFacts DEF Source, Take
      <4>2. \A d \in Asker : d # c => ~Sent(req, d) /\ ~Has(resp, d) /\ ~Has(simple, d)
        BY <3>2, <3>4, <1>1, CallerFacts DEF Own
      <4>3. e \in Envelopes /\ Has(simple, e.to)
        BY <4>1, <1>4, TailEnvelope
      <4>4. e.to = c
        <5>1. e.to \in Caller \cup {NONE} BY <4>3 DEF Envelopes
        <5> QED BY <5>1, <4>2, <4>3, <1>1, CallerFacts DEF AskStages
      <4>5. Tokenless(simple, c) /\ EndIsLast(simple, c) /\ (Has(simple, c) => ~Has(resp, c))
        BY <4>1, <1>1 DEF AskStages
      <4>6. e.kind # "token" /\ Has(simple, c) /\ ~Has(simple', c)
        BY <4>1, <4>4, <4>5, <1>4, TailEnvelope
      <4>7. ~Sent(req, c) /\ ~Has(resp, c) BY <4>5, <4>6, <1>1 DEF Stages
      <4> QED BY <4>1, <4>2, <4>6, <4>7, <1>7, <3>4
    <3> QED BY <3>3, <3>4
  <2> QED BY <2>1, <2>2
<1>14. Cancelling'
  <2>1. \A d \in cancelled : pc'[d] \in {"draining", "killing", "over"}
    BY <1>1, <1>3, CallerFacts DEF Cancelling, Leaves, TypeOK
  <2> QED BY <2>1, <1>1, <1>2 DEF Cancelling, CancelTaken
<1>15. Counted'
  <2> SUFFICES ASSUME NEW d \in Reader, pc'[d] = "reading", d \notin mixed'
               PROVE  /\ Up \/ Ended(resp', d) \/ Ended(inbox'[d], d)
                        => got'[d] + Count(inbox'[d], d) + Count(resp', d) = made[d]
                      /\ ~mux /\ ~OnlyTo(resp', d)
                        => got'[d] = 0 /\ made[d] = 0 /\ ~Has(resp', d)
                      /\ ~mux => inbox'[d] = <<>>
    BY <1>2 DEF Counted, Up
  <2>1. pc[d] = "reading" /\ d \in Caller BY <1>6, CallerFacts
  <2>2. d \notin mixed OBVIOUS
  <2>3. CASE d # c
    <3>1. mux BY <2>1, <2>3, <1>1 DEF Places
    <3>2. resp' = resp /\ inbox'[d] = inbox[d] /\ got'[d] = got[d]
      BY <3>1, <2>3, <1>1 DEF Take, TypeOK
    <3> QED BY <3>1, <3>2, <2>1, <2>2, <1>1 DEF Counted
  <2>4. CASE d = c
    <3>1. /\ c \in Reader /\ e.kind = "token" /\ e.to = c
          /\ got'[c] = got[c] + 1 /\ got[c] \in Nat
      BY <2>4, <1>1 DEF TypeOK
    <3>2. CASE ~mux
      <4>1. resp # <<>> /\ resp' = Tail(resp) /\ e = Head(resp) /\ inbox' = inbox
        BY <3>2 DEF Source, Take
      <4>2. Has(resp, c) /\ Count(resp, c) = Count(resp', c) + 1
        BY <4>1, <3>1, <1>4, TailEnvelope
      <4>3. Count(resp', c) \in Nat /\ Count(inbox[c], c) \in Nat
        BY <1>4, <1>7, <3>1, CountType
      <4>4. OnlyTo(resp, c) BY <2>1, <2>2, <2>4, <3>2, <4>2, <1>1 DEF Counted
      <4>5. /\ Up \/ Ended(resp, c) \/ Ended(inbox[c], c)
                 => got[c] + Count(inbox[c], c) + Count(resp, c) = made[c]
            /\ inbox[c] = <<>>
        BY <2>1, <2>2, <2>4, <3>2, <1>1 DEF Counted
      <4>6. OnlyTo(resp', c) BY <4>4, <1>7
      <4>7. Ended(resp', c) => Ended(resp, c) BY <1>7
      <4>8. inbox'[c] = inbox[c] BY <4>1
      <4>9. ASSUME got[c] + Count(inbox[c], c) + Count(resp, c) = made[c]
            PROVE  got'[c] + Count(inbox[c], c) + Count(resp', c) = made[c]
        BY <4>2, <4>3, <4>9, <3>1
      <4> QED BY <4>5, <4>6, <4>7, <4>8, <4>9, <2>4
    <3>3. CASE mux
      <4>1. /\ inbox[c] # <<>> /\ inbox'[c] = Tail(inbox[c]) /\ e = Head(inbox[c])
            /\ resp' = resp /\ inbox[c] \in Seq(Envelopes)
        BY <3>1, <3>3, <1>4 DEF Source, Take
      <4>2. Count(inbox[c], c) = Count(inbox'[c], c) + 1
        BY <4>1, <3>1, TailEnvelope
      <4>3. Count(inbox'[c], c) \in Nat /\ Count(resp, c) \in Nat
        BY <1>4, <1>7, <3>1, CountType
      <4>4. Up \/ Ended(resp, c) \/ Ended(inbox[c], c)
              => got[c] + Count(inbox[c], c) + Count(resp, c) = made[c]
        BY <2>1, <2>2, <2>4, <3>1, <1>1 DEF Counted
      <4>5. Ended(inbox'[c], c) => Ended(inbox[c], c) BY <3>1, <1>7
      <4> QED BY <4>1, <4>2, <4>3, <4>4, <4>5, <2>4, <3>1, <3>3
    <3> QED BY <3>2, <3>3
  <2> QED BY <2>3, <2>4
<1> QED BY <1>8, <1>9, <1>10, <1>11, <1>12, <1>13, <1>14, <1>15 DEF IInv
LEMMA ReadStep == ASSUME IInv, NEW c \in Caller, Read(c) PROVE IInv'
<1>1. TypeOK BY DEF IInv
<1>2. pc[c] = "reading" /\ Source(c) # <<>> /\ Take(c) /\ pc[c] \in Streaming
  BY DEF Read, Streaming
<1> DEFINE e == Head(Source(c))
<1>3. mixed' = IF e.to = c THEN mixed ELSE mixed \cup {c}
  BY DEF Read
<1>4. UNCHANGED <<handle, closing, load, mux, cancelled, worker, req, ctrl>>
  BY DEF Read
<1>5. IF c \in Reader /\ e.kind = "token"
      THEN got' = [got EXCEPT ![c] = @ + 1] /\ UNCHANGED <<pc, lock>>
      ELSE Ends(c, e.kind \in {"fault", "ok"}) /\ UNCHANGED got
  BY DEF Read
<1> HIDE DEF e
<1>6. CASE c \in Reader /\ e.kind = "token"
  <2>1. got' = [got EXCEPT ![c] = @ + 1] /\ UNCHANGED <<pc, lock>> BY <1>5, <1>6
  <2> QED BY <2>1, <1>2, <1>3, <1>4, <1>6, TakeStep DEF e
<1>7. CASE ~(c \in Reader /\ e.kind = "token")
  <2> DEFINE failed == e.kind \in {"fault", "ok"}
  <2>1. Ends(c, failed) /\ got' = got /\ failed \in BOOLEAN
    BY <1>5, <1>7
  <2> HIDE DEF failed
  <2>2. PICK p \in {"over", "failed"} : Stops(c, p)
    BY <2>1, <1>1, <1>2, EndsStops
  <2>3. pc'[c] # "reading" BY <2>2, <1>1 DEF Stops, TypeOK
  <2> QED BY <2>1, <2>2, <2>3, <1>2, <1>3, <1>4, <1>7, TakeStep DEF e
<1> QED BY <1>6, <1>7

LEMMA DrainReadStep == ASSUME IInv, NEW c \in Caller, DrainRead(c) PROVE IInv'
<1>1. TypeOK /\ Places BY DEF IInv
<1>2. /\ pc[c] = "draining" /\ Source(c) # <<>> /\ Take(c) /\ pc[c] \in Streaming
      /\ UNCHANGED <<handle, closing, load, mux, got, cancelled, mixed, worker, req, ctrl>>
  BY DEF DrainRead, Streaming
<1>3. c \in Reader BY <1>1, <1>2, CallerFacts DEF Places
<1>4. CASE LastOfDrain(Head(Source(c)))
  <2>1. Ends(c, FALSE) BY <1>4 DEF DrainRead
  <2>2. Head(Source(c)).kind # "token" BY <1>4 DEF LastOfDrain
  <2>3. PICK p \in {"over", "failed"} : Stops(c, p) BY <2>1, <1>1, <1>2, EndsStops
  <2>4. pc'[c] # "reading" BY <2>3, <1>1 DEF Stops, TypeOK
  <2> QED BY <2>2, <2>3, <2>4, <1>2, TakeStep
<1>5. CASE ~LastOfDrain(Head(Source(c)))
  <2>1. UNCHANGED <<pc, lock>> BY <1>5 DEF DrainRead
  <2> QED BY <2>1, <1>2, <1>3, TakeStep
<1> QED BY <1>4, <1>5

\* The runner is released by the caller that stops.
LEMMA ReleasedStep ==
  ASSUME IInv, NEW c \in Caller, NEW p \in {"over", "failed"}, Stops(c, p), Released,
         UNCHANGED <<closing, load, mux, inbox, simple, got, cancelled, mixed, made>>
  PROVE  IInv'
<1>1. TypeOK /\ Places BY DEF IInv
<1>2. Leaves BY <1>1, StopsLeaves
<1>3. Shrinks BY <1>1, EmptyShrinks DEF Released
<1> QED BY <1>2, <1>3, GoneStep DEF Released

LEMMA DrainStallsStep == ASSUME IInv, NEW c \in Caller, DrainStalls(c) PROVE IInv'
<1>1. TypeOK /\ Places BY DEF IInv
<1>2. /\ pc[c] = "draining" /\ pc[c] \in Streaming
      /\ UNCHANGED <<closing, load, mux, inbox, simple, got, cancelled, mixed, made>>
  BY DEF DrainStalls, Streaming
<1>3. c \in Reader BY <1>1, <1>2, CallerFacts DEF Places
<1>4. CASE ~mux
  <2>1. Ends(c, FALSE) /\ Released BY <1>4 DEF DrainStalls
  <2>2. PICK p \in {"over", "failed"} : Stops(c, p) BY <2>1, <1>1, <1>2, EndsStops
  <2> QED BY <2>1, <2>2, <1>2, ReleasedStep
<1>5. CASE mux
  <2>1. KeepsWorker /\ UNCHANGED resp BY <1>5 DEF DrainStalls
  <2>2. UNCHANGED <<handle, closing, load, mux, inbox, simple, got, cancelled, mixed,
                    worker, queues>>
    BY <2>1, <1>2 DEF KeepsWorker, worker, queues
  <2>3. CASE Open \ {c} = {}
    <3>1. pc' = [pc EXCEPT ![c] = "killing"] /\ lock' = lock
      BY <1>5, <2>3 DEF DrainStalls
    <3>2. lock # c BY <1>1, <1>3, <1>5, CallerFacts DEF Places
    <3>3. Stops(c, "killing") BY <3>1, <3>2, <1>2, <1>3, <1>5 DEF Stops
    <3> QED BY <3>3, <2>2, <1>3, <1>5, EndStep
  <2>4. CASE Open \ {c} # {}
    <3>1. Ends(c, FALSE) BY <1>5, <2>4 DEF DrainStalls
    <3>2. PICK p \in {"over", "failed"} : Stops(c, p) BY <3>1, <1>1, <1>2, EndsStops
    <3> QED BY <3>2, <2>2, <1>3, <1>5, EndStep
  <2> QED BY <2>3, <2>4
<1> QED BY <1>4, <1>5

LEMMA KillAfterDrainStep == ASSUME IInv, NEW c \in Caller, KillAfterDrain(c) PROVE IInv'
<1>1. TypeOK /\ Life BY DEF IInv
<1>2. /\ pc[c] = "killing" /\ pc[c] \in Streaming /\ Ends(c, FALSE)
      /\ UNCHANGED <<closing, load, mux, inbox, simple, got, cancelled, mixed, made>>
  BY DEF KillAfterDrain, Streaming
<1>3. PICK p \in {"over", "failed"} : Stops(c, p) BY <1>1, <1>2, EndsStops
<1>4. CASE handle = "open"
  <2>1. Released BY <1>4 DEF KillAfterDrain
  <2> QED BY <2>1, <1>2, <1>3, ReleasedStep
<1>5. CASE handle # "open"
  <2>1. ~Up BY <1>1, <1>5 DEF Life
  <2>2. UNCHANGED <<handle, closing, load, mux, inbox, simple, got, cancelled, mixed,
                    worker, queues>>
    BY <1>2, <1>5 DEF KillAfterDrain, KeepsWorker, worker, queues
  <2> QED BY <2>1, <2>2, <1>3, EndStep
<1> QED BY <1>4, <1>5

LEMMA NotAlive == ASSUME Life PROVE Alive <=> Up
BY DEF Life, Alive, Up

LEMMA LostStep == ASSUME IInv, NEW c \in Caller, Lost(c) PROVE IInv'
<1>1. TypeOK /\ Life BY DEF IInv
<1> DEFINE failed == pc[c] = "reading"
<1>2. pc[c] \in Streaming /\ Ends(c, failed) /\ ~Up /\ failed \in BOOLEAN
  BY <1>1, NotAlive DEF Lost, Streaming
<1>3. failed => pc[c] = "reading" OBVIOUS
<1> HIDE DEF failed
<1>4. PICK p \in {"over", "failed"} : Stops(c, p) BY <1>1, <1>2, <1>3, EndsStops
<1> QED BY <1>2, <1>4, EndStep DEF Lost

LEMMA StallsStep == ASSUME IInv, NEW c \in Caller, Stalls(c) PROVE IInv'
<1>1. TypeOK BY DEF IInv
<1>2. pc[c] = "reading" /\ pc[c] \in Streaming /\ Ends(c, TRUE)
  BY DEF Stalls, Streaming
<1>3. PICK p \in {"over", "failed"} : Stops(c, p) BY <1>1, <1>2, EndsStops
<1> QED BY <1>3, ReleasedStep DEF Stalls

LEMMA StopReadingStep == ASSUME IInv, NEW c \in Reader, StopReading(c) PROVE IInv'
<1>1. /\ TypeOK /\ Life /\ Places /\ Fresh /\ Stages /\ AskStages /\ StreamStages
      /\ Own /\ Cancelling /\ Counted
  BY DEF IInv
<1>2. /\ c \in Caller /\ pc[c] = "reading" /\ pc[c] \in Streaming
      /\ UNCHANGED <<handle, closing, load, mux, inbox, simple, got, mixed, worker, req, resp>>
  BY CallerFacts DEF StopReading, Streaming
<1>3. CASE ~Alive
  <2>1. Ends(c, FALSE) /\ UNCHANGED <<ctrl, cancelled>> BY <1>3 DEF StopReading
  <2>2. PICK p \in {"over", "failed"} : Stops(c, p) BY <2>1, <1>1, <1>2, EndsStops
  <2> QED BY <2>1, <2>2, <1>1, <1>2, <1>3, NotAlive, EndStep DEF queues
<1>4. CASE Alive
  <2>1. /\ ctrl' = Append(ctrl, Command("cancel_stream", c))
        /\ cancelled' = cancelled \cup {c}
        /\ pc' = [pc EXCEPT ![c] = "draining"]
        /\ lock' = lock
    BY <1>4 DEF StopReading
  <2>2. /\ UNCHANGED <<handle, closing, load, mux, inbox, simple, got, mixed>>
        /\ UNCHANGED <<child, running, made, stopEvent, muxEvents, early, req, resp>>
    BY <1>2 DEF worker
  <2>3. /\ pc' \in [Caller -> {"out", "waiting", "failed", "over"} \cup Streaming]
        /\ \A d \in Caller : pc'[d] = IF d = c THEN "draining" ELSE pc[d]
    BY <2>1, <1>1 DEF TypeOK, Streaming
  <2>4. /\ Command("cancel_stream", c) \in Commands /\ Command("cancel_stream", c).of = c
        /\ Command("cancel_stream", c).name = "cancel_stream" /\ ctrl \in Seq(Commands)
    BY <1>1, <1>2 DEF Command, Commands, TypeOK
  <2>5. /\ ctrl' \in Seq(Commands)
        /\ AllCancel(ctrl) => AllCancel(ctrl')
        /\ \A d \in Caller \cup {NONE} :
             /\ Sent(ctrl', d) <=> Sent(ctrl, d) \/ d = c
             /\ Once(ctrl', d) <=> Once(ctrl, d) /\ (d = c => ~Sent(ctrl, d))
    <3> HIDE DEF Command
    <3> QED BY <2>1, <2>4, AppendCommand
  <2>6. c \notin cancelled /\ ~Sent(ctrl, c)
    BY <1>1, <1>2 DEF Cancelling
  <2>7. TypeOK' BY <1>1, <2>1, <2>2, <2>3, <2>5 DEF TypeOK
  <2>8. Life' BY <1>1, <1>2, <2>2, <2>3 DEF Life, Up
  <2>9. Places' BY <1>1, <1>2, <2>1, <2>2, <2>3, CallerFacts DEF Places
  <2>10. Fresh' BY <1>1, <2>1, <2>2, <2>3 DEF Fresh
  <2>11. Stages' /\ AskStages' /\ StreamStages'
    BY <1>1, <2>2 DEF Stages, AskStages, StreamStages
  <2>12. Own' BY <1>1, <2>1, <2>2 DEF Own, Up
  <2>13. Cancelling'
    <3>1. \A d \in cancelled' : pc'[d] \in {"draining", "killing", "over"}
      BY <1>1, <2>1, <2>3, CallerFacts DEF Cancelling, TypeOK
    <3>2. \A d \in Caller : CancelTaken(d)' <=> CancelTaken(d)
      BY <2>1, <2>5, <2>6 DEF CancelTaken
    <3>3. early' \subseteq cancelled' /\ muxEvents' \subseteq running'
      BY <1>1, <2>1, <2>2 DEF Cancelling
    <3>4. mux' => \A d \in Reader : /\ d \in running' => (d \in muxEvents' <=> CancelTaken(d)')
                                    /\ Sent(req', d) => (d \in early' <=> CancelTaken(d)')
      BY <3>2, <1>1, <2>2, CallerFacts DEF Cancelling
    <3> QED BY <3>1, <3>3, <3>4, <1>1, <2>1, <2>5, <2>6 DEF Cancelling
  <2>14. Counted' BY <1>1, <2>2, <2>3, CallerFacts DEF Counted, Up
  <2> QED BY <2>7, <2>8, <2>9, <2>10, <2>11, <2>12, <2>13, <2>14 DEF IInv
<1> QED BY <1>3, <1>4
\* The envelope that the demux thread takes goes to its call, or is dropped.
LEMMA DemuxStep == ASSUME IInv, Demux PROVE IInv'
<1>1. /\ TypeOK /\ Life /\ Places /\ Fresh /\ Stages /\ AskStages /\ StreamStages
      /\ Own /\ Cancelling /\ Counted
  BY DEF IInv
<1> DEFINE e == Head(resp)
<1>2. /\ mux /\ load = "ok" /\ resp # <<>> /\ resp' = Tail(resp)
      /\ inbox' = IF e.to \in Open THEN [inbox EXCEPT ![e.to] = Append(@, e)] ELSE inbox
      /\ simple' = IF e.to \in Asker THEN Append(simple, e) ELSE simple
      /\ UNCHANGED <<handle, closing, load, mux, lock, pc, got, cancelled, mixed, req, ctrl>>
      /\ UNCHANGED <<child, running, made, stopEvent, muxEvents, early>>
  BY <1>1 DEF Demux, worker, TypeOK
<1>3. /\ resp \in Seq(Envelopes) /\ simple \in Seq(Envelopes)
      /\ inbox \in [Reader -> Seq(Envelopes)]
  BY <1>1 DEF TypeOK
<1>4. /\ resp' \in Seq(Envelopes) /\ e \in Envelopes
      /\ \A d \in Caller \cup {NONE} :
           /\ Has(resp, d) <=> Has(resp', d) \/ e.to = d
           /\ Ended(resp, d) <=> Ended(resp', d) \/ (e.to = d /\ e.kind # "token")
           /\ EndIsLast(resp, d) => EndIsLast(resp', d)
           /\ EndIsLast(resp, d) /\ e.to = d /\ e.kind # "token" => ~Has(resp', d)
           /\ Tokenless(resp, d) <=> Tokenless(resp', d) /\ (e.to = d => e.kind # "token")
           /\ Count(resp, d) = Count(resp', d) + (IF e.to = d /\ e.kind = "token" THEN 1 ELSE 0)
  BY <1>2, <1>3, TailEnvelope
<1> HIDE DEF e
<1>5. ASSUME NEW d \in Reader
      PROVE  inbox'[d] = IF e.to = d /\ d \in Open THEN Append(inbox[d], e) ELSE inbox[d]
  BY <1>2, <1>3
<1>6. Open \subseteq Reader BY DEF Open
<1>7. inbox' \in [Reader -> Seq(Envelopes)]
  BY <1>2, <1>3, <1>4, <1>5, <1>6, AppendEnvelope
<1>8. ASSUME NEW d \in Reader, e.to = d, d \in Open
      PROVE  LET q == inbox[d] IN
             /\ inbox'[d] = Append(q, e)
             /\ Ended(inbox'[d], d) <=> Ended(q, d) \/ e.kind # "token"
             /\ EndIsLast(inbox'[d], d) <=> EndIsLast(q, d) /\ ~Ended(q, d)
             /\ OnlyTo(inbox'[d], d) <=> OnlyTo(q, d)
             /\ Count(inbox'[d], d) = Count(q, d) + (IF e.kind = "token" THEN 1 ELSE 0)
  <2>1. inbox[d] \in Seq(Envelopes) /\ inbox'[d] = Append(inbox[d], e)
    BY <1>3, <1>5, <1>8
  <2> QED BY <2>1, <1>4, <1>8, AppendEnvelope
<1>9. ASSUME NEW d \in Reader, ~(e.to = d /\ d \in Open)
      PROVE  inbox'[d] = inbox[d]
  BY <1>5, <1>9
<1>10. /\ simple' \in Seq(Envelopes)
       /\ \A d \in Caller \cup {NONE} :
            /\ Has(simple', d) <=> Has(simple, d) \/ (d \in Asker /\ e.to = d)
            /\ EndIsLast(simple', d) <=>
                 EndIsLast(simple, d) /\ (d \in Asker /\ e.to = d => ~Ended(simple, d))
            /\ Tokenless(simple', d) <=>
                 Tokenless(simple, d) /\ (d \in Asker /\ e.to = d => e.kind # "token")
  BY <1>2, <1>3, <1>4, AppendEnvelope
<1>11. TypeOK' BY <1>1, <1>2, <1>4, <1>7, <1>10 DEF TypeOK
<1>12. Life'
  BY <1>1, <1>2, <1>4 DEF Life, Up
<1>13. Places' BY <1>1, <1>2 DEF Places
<1>14. Fresh'
  <2> SUFFICES ASSUME NEW d \in Caller, pc[d] \in {"out", "waiting"}
               PROVE  /\ ~Has(resp', d) /\ ~Has(simple', d)
                      /\ d \in Reader => inbox'[d] = inbox[d]
    BY <1>1, <1>2 DEF Fresh
  <2>1. ~Has(resp, d) /\ ~Has(simple, d) BY <1>1 DEF Fresh
  <2>2. e.to # d BY <2>1, <1>4
  <2> QED BY <2>1, <2>2, <1>4, <1>9, <1>10
<1>15. Stages' BY <1>1, <1>2, <1>4, <1>10, CallerFacts DEF Stages
<1>16. AskStages'
  <2>1. ASSUME NEW d \in Asker
        PROVE  /\ Tokenless(resp', d) /\ Tokenless(simple', d) /\ EndIsLast(simple', d)
               /\ Has(simple', d) => ~Has(resp', d)
    <3>1. /\ Tokenless(resp, d) /\ Tokenless(simple, d) /\ EndIsLast(simple, d)
          /\ Has(simple, d) => ~Has(resp, d)
          /\ EndIsLast(resp, d)
      BY <1>1, CallerFacts DEF AskStages, Stages
    <3>2. d \in Caller /\ d \notin Reader BY CallerFacts
    <3>3. CASE e.to = d
      <4>1. e.kind # "token" /\ Has(resp, d) /\ ~Has(resp', d)
        BY <3>1, <3>2, <3>3, <1>4
      <4>2. ~Has(simple, d) /\ ~Ended(simple, d) BY <4>1, <3>1, <1>3, CountZero
      <4> QED BY <4>1, <4>2, <3>1, <3>2, <1>4, <1>10
    <3>4. CASE e.to # d BY <3>1, <3>2, <3>4, <1>4, <1>10
    <3> QED BY <3>3, <3>4
  <2>2. \A d \in Reader \cup {NONE} : ~Has(simple', d)
    BY <1>1, <1>10, CallerFacts DEF AskStages
  <2> QED BY <2>1, <2>2 DEF AskStages
<1>17. StreamStages'
  <2> SUFFICES ASSUME NEW d \in Reader
               PROVE  /\ Sent(req, d) => inbox'[d] = <<>>
                      /\ d \in running => ~Ended(inbox'[d], d)
                      /\ EndIsLast(inbox'[d], d) /\ OnlyTo(inbox'[d], d)
                      /\ Ended(inbox'[d], d) => ~Has(resp', d)
    BY <1>2 DEF StreamStages
  <2>1. /\ Sent(req, d) => inbox[d] = <<>> /\ ~Has(resp, d)
        /\ d \in running => ~Ended(inbox[d], d) /\ ~Ended(resp, d)
        /\ EndIsLast(inbox[d], d) /\ OnlyTo(inbox[d], d) /\ EndIsLast(resp, d)
        /\ Ended(inbox[d], d) => ~Has(resp, d)
    BY <1>1, CallerFacts DEF Stages, StreamStages
  <2>2. d \in Caller BY CallerFacts
  <2>3. CASE e.to = d /\ d \in Open BY <2>1, <2>2, <2>3, <1>4, <1>8
  <2>4. CASE ~(e.to = d /\ d \in Open) BY <2>1, <2>2, <2>4, <1>4, <1>9
  <2> QED BY <2>3, <2>4
<1>18. Own' BY <1>1, <1>2, <1>4, <1>10, CallerFacts DEF Own, Up
<1>19. Cancelling' BY <1>1, <1>2 DEF Cancelling, CancelTaken
<1>20. Counted'
  <2> SUFFICES ASSUME NEW d \in Reader, pc[d] = "reading", d \notin mixed,
                      Up \/ Ended(resp', d) \/ Ended(inbox'[d], d)
               PROVE  got[d] + Count(inbox'[d], d) + Count(resp', d) = made[d]
    BY <1>2 DEF Counted, Up
  <2>1. d \in Caller /\ d \in Open BY <1>2, CallerFacts DEF Open, Streaming
  <2>2. Up \/ Ended(resp, d) \/ Ended(inbox[d], d)
          => got[d] + Count(inbox[d], d) + Count(resp, d) = made[d]
    BY <1>1 DEF Counted
  <2>3. /\ Count(resp', d) \in Nat /\ Count(inbox[d], d) \in Nat /\ got[d] \in Nat
    BY <1>1, <1>3, <1>4, CountType DEF TypeOK
  <2>4. CASE e.to = d
    <3>1. Up \/ Ended(resp, d) \/ Ended(inbox[d], d) BY <2>1, <2>4, <1>4, <1>8
    <3>2. CASE e.kind = "token"
      <4>1. /\ Count(resp, d) = Count(resp', d) + 1
            /\ Count(inbox'[d], d) = Count(inbox[d], d) + 1
        BY <2>1, <2>4, <3>2, <1>4, <1>8
      <4> QED BY <4>1, <3>1, <2>2, <2>3
    <3>3. CASE e.kind # "token"
      <4>1. /\ Count(resp, d) = Count(resp', d) + 0
            /\ Count(inbox'[d], d) = Count(inbox[d], d) + 0
        BY <2>1, <2>4, <3>3, <1>4, <1>8
      <4> QED BY <4>1, <3>1, <2>2, <2>3
    <3> QED BY <3>2, <3>3
  <2>5. CASE e.to # d
    <3>1. inbox'[d] = inbox[d] /\ Count(resp, d) = Count(resp', d) + 0
      BY <2>1, <2>5, <1>4, <1>9
    <3>2. Ended(resp', d) => Ended(resp, d) BY <2>1, <1>4
    <3> QED BY <3>1, <3>2, <2>2, <2>3
  <2> QED BY <2>4, <2>5
<1> QED BY <1>11, <1>12, <1>13, <1>14, <1>15, <1>16, <1>17, <1>18, <1>19, <1>20 DEF IInv
-----------------------------------------------------------------------------
(* The child. *)

\* A command of a call, or a stream, is there only when the model is loaded.
LEMMA CallsAreLoaded ==
  ASSUME IInv, Up, NEW c \in Caller, Sent(req, c) \/ c \in running
  PROVE  load = "ok" /\ pc[c] \notin {"out", "waiting"}
BY DEF IInv, Life, Fresh

\* When all envelopes of a queue are for c, it is only for c.
LEMMA OwnOnly ==
  ASSUME NEW q \in Seq(Envelopes), NEW c, \A d \in Caller \cup {NONE} : Has(q, d) => d = c
  PROVE  OnlyTo(q, c)
<1> SUFFICES ASSUME NEW n \in 1 .. Len(q) PROVE q[n].to = c
  BY DEF OnlyTo
<1>1. q[n] \in Envelopes OBVIOUS
<1>2. q[n].to \in Caller \cup {NONE} BY <1>1 DEF Envelopes
<1> QED BY <1>2 DEF Has

LEMMA ControlStep == ASSUME IInv, Control PROVE IInv'
<1>1. /\ TypeOK /\ Life /\ Places /\ Fresh /\ Stages /\ AskStages /\ StreamStages
      /\ Own /\ Cancelling /\ Counted
  BY DEF IInv
<1> DEFINE m == Head(ctrl)
<1>2. /\ Up /\ ctrl # <<>> /\ ctrl' = Tail(ctrl) /\ ctrl \in Seq(Commands)
      /\ stopEvent' = (stopEvent \/ ~mux)
      /\ muxEvents' = IF mux /\ m.of \in running THEN muxEvents \cup {m.of} ELSE muxEvents
      /\ early' = IF mux /\ m.of \notin running THEN early \cup {m.of} ELSE early
      /\ UNCHANGED <<handle, closing, load, mux, lock, inbox, simple, pc, got, cancelled,
                     mixed, child, running, made, req, resp>>
  BY <1>1 DEF Control, parent, TypeOK
<1>3. /\ ctrl' \in Seq(Commands) /\ m \in Commands
      /\ AllCancel(ctrl) => AllCancel(ctrl')
      /\ \A d \in Caller \cup {NONE} :
           /\ Sent(ctrl, d) <=> Sent(ctrl', d) \/ m.of = d
           /\ Once(ctrl, d) => Once(ctrl', d)
           /\ Once(ctrl, d) /\ m.of = d => ~Sent(ctrl', d)
  BY <1>2, TailCommand
<1> HIDE DEF m
<1>4. PICK c \in Reader : c = m.of /\ c \in cancelled /\ c \in Caller
  <2>1. m.of \in Caller \cup {NONE} BY <1>3 DEF Commands
  <2>2. Sent(ctrl, m.of) BY <2>1, <1>3
  <2> QED BY <2>1, <2>2, <1>1, CallerFacts DEF Cancelling, TypeOK
<1>5. TypeOK'
  <2>1. stopEvent' \in BOOLEAN /\ muxEvents' \subseteq Reader /\ early' \subseteq Reader
    BY <1>1, <1>2, <1>4 DEF TypeOK
  <2> QED BY <2>1, <1>1, <1>2, <1>3 DEF TypeOK
<1>6. Life' BY <1>1, <1>2 DEF Life, Up
<1>7. Places' BY <1>1, <1>2 DEF Places
<1>8. Fresh' BY <1>1, <1>2 DEF Fresh
<1>9. Stages' /\ AskStages' /\ StreamStages'
  BY <1>1, <1>2 DEF Stages, AskStages, StreamStages
<1>10. Own' BY <1>1, <1>2 DEF Own, Up
<1>11. Cancelling'
  <2>1. \A d \in Caller : d # c => (CancelTaken(d)' <=> CancelTaken(d))
    BY <1>2, <1>3, <1>4 DEF CancelTaken
  <2>2. CancelTaken(c)' /\ ~CancelTaken(c)
    BY <1>1, <1>2, <1>3, <1>4 DEF CancelTaken, Cancelling
  <2>3. mux => \A d \in Reader : /\ d \in running => (d \in muxEvents' <=> CancelTaken(d)')
                                 /\ Sent(req, d) => (d \in early' <=> CancelTaken(d)')
    <3> SUFFICES ASSUME mux, NEW d \in Reader
                 PROVE  /\ d \in running => (d \in muxEvents' <=> CancelTaken(d)')
                        /\ Sent(req, d) => (d \in early' <=> CancelTaken(d)')
      OBVIOUS
    <3>1. /\ d \in running => (d \in muxEvents <=> CancelTaken(d))
          /\ Sent(req, d) => (d \in early <=> CancelTaken(d)) /\ d \notin running
      BY <1>1, CallerFacts DEF Cancelling, Stages
    <3>2. CASE d = c BY <3>1, <3>2, <2>2, <1>2, <1>4
    <3>3. CASE d # c BY <3>1, <3>3, <2>1, <1>2, <1>4, CallerFacts
    <3> QED BY <3>2, <3>3
  <2>4. early' \subseteq cancelled /\ muxEvents' \subseteq running
    BY <1>1, <1>2, <1>4 DEF Cancelling
  <2> QED BY <2>3, <2>4, <1>1, <1>2, <1>3 DEF Cancelling
<1>12. Counted' BY <1>1, <1>2 DEF Counted, Up
<1> QED BY <1>5, <1>6, <1>7, <1>8, <1>9, <1>10, <1>11, <1>12 DEF IInv

\* What taking a command does to req.
LEMMA CommandTaken ==
  ASSUME IInv, MainFree, req' = Tail(req)
  PROVE  /\ Up /\ req' \in Seq(Commands) /\ Next1 \in Commands /\ Proper(Next1)
         /\ AllProper(req') /\ Next1.of \in Caller \cup {NONE}
         /\ NoLoad(req) => NoLoad(req') /\ Next1.name # "load"
         /\ LoadFirst(req) => NoLoad(req') /\ LoadFirst(req')
         /\ \A d \in Caller : /\ Sent(req, d) <=> Sent(req', d) \/ Next1.of = d
                              /\ Once(req, d) => Once(req', d)
                              /\ Once(req, d) /\ Next1.of = d => ~Sent(req', d)
<1>1. req \in Seq(Commands) /\ req # <<>> /\ AllProper(req) /\ Up
  BY DEF IInv, TypeOK, Life, MainFree, Up
<1>2. Next1 \in Commands BY <1>1, TailCommand DEF Next1
<1>3. Next1.of \in Caller \cup {NONE} BY <1>2 DEF Commands
<1> QED BY <1>1, <1>2, <1>3, TailCommand DEF Next1

LEMMA ServeLoadStep == ASSUME IInv, ServeLoad PROVE IInv'
<1>1. /\ TypeOK /\ Life /\ Places /\ Fresh /\ Stages /\ AskStages /\ StreamStages
      /\ Own /\ Cancelling /\ Counted
  BY DEF IInv
<1>2. /\ Up /\ req' \in Seq(Commands) /\ AllProper(req') /\ load # "ok" /\ load # "out"
      /\ LoadFirst(req) => NoLoad(req') /\ LoadFirst(req')
      /\ ~NoLoad(req)
      /\ \A d \in Caller : Sent(req', d) => Sent(req, d)
      /\ \A d \in Caller : Once(req, d) => Once(req', d)
  BY <1>1, CommandTaken DEF ServeLoad, Life
<1>3. PICK e \in Envelopes : e.to = NONE /\ e.kind # "token" /\ resp' = Append(resp, e)
  <2>1. Envelope("ok", NONE) \in Envelopes /\ Envelope("refused", NONE) \in Envelopes
    BY DEF Envelopes, Envelope, Kind
  <2> QED BY <2>1 DEF ServeLoad, Emits, Envelope
<1>4. /\ UNCHANGED <<handle, closing, load, mux, lock, inbox, simple, pc, got, cancelled, mixed>>
      /\ UNCHANGED <<child, running, made, stopEvent, muxEvents, early, ctrl>>
  BY DEF ServeLoad, parent, worker
<1>5. resp \in Seq(Envelopes) BY <1>1 DEF TypeOK
<1>6. /\ resp' \in Seq(Envelopes)
      /\ \A d \in Caller : /\ Has(resp', d) <=> Has(resp, d)
                           /\ Ended(resp', d) <=> Ended(resp, d)
                           /\ EndIsLast(resp', d) <=> EndIsLast(resp, d)
                           /\ Tokenless(resp', d) <=> Tokenless(resp, d)
  BY <1>3, <1>5, AppendEnvelope, CallerFacts
<1>7. \A d \in Caller : pc[d] = "out" BY <1>1, <1>2 DEF Life
<1>8. TypeOK' BY <1>1, <1>2, <1>4, <1>6 DEF TypeOK
<1>9. Life'
  <2>1. load = "waiting" => Len(resp') <= 1
    <3>1. load = "waiting" => resp = <<>> BY <1>1, <1>2 DEF Life
    <3>2. Len(resp') = Len(resp) + 1 BY <1>3, <1>5, AppendProperties
    <3> QED BY <3>1, <3>2, EmptySeq
  <2> QED BY <2>1, <1>1, <1>2, <1>4 DEF Life, Up
<1>10. Places' BY <1>1, <1>4 DEF Places
<1>11. Fresh' BY <1>1, <1>2, <1>4, <1>6 DEF Fresh
<1>12. Stages' /\ AskStages' /\ StreamStages'
  <2>1. Stages' BY <1>1, <1>2, <1>4, <1>6 DEF Stages
  <2>2. AskStages' BY <1>1, <1>4, <1>6, CallerFacts DEF AskStages
  <2>3. StreamStages' BY <1>1, <1>2, <1>4, <1>6, CallerFacts DEF StreamStages
  <2> QED BY <2>1, <2>2, <2>3
<1>13. Own' BY <1>2, <1>4 DEF Own
<1>14. Cancelling' BY <1>1, <1>2, <1>4, CallerFacts DEF Cancelling, CancelTaken
<1>15. Counted' BY <1>4, <1>7, CallerFacts DEF Counted
<1> QED BY <1>8, <1>9, <1>10, <1>11, <1>12, <1>13, <1>14, <1>15 DEF IInv

LEMMA TakeShutdownStep == ASSUME IInv, TakeShutdown PROVE IInv'
<1>1. /\ TypeOK /\ Life /\ Places /\ Fresh /\ Stages /\ AskStages /\ StreamStages
      /\ Own /\ Cancelling /\ Counted
  BY DEF IInv
<1>2. /\ Up /\ Up' /\ req' \in Seq(Commands) /\ AllProper(req')
      /\ NoLoad(req) => NoLoad(req')
      /\ LoadFirst(req) => LoadFirst(req')
      /\ \A d \in Caller : Sent(req', d) => Sent(req, d)
      /\ \A d \in Caller : Once(req, d) => Once(req', d)
  BY CommandTaken DEF TakeShutdown, Up
<1>3. /\ UNCHANGED <<handle, closing, load, mux, lock, inbox, simple, pc, got, cancelled, mixed>>
      /\ UNCHANGED <<running, made, stopEvent, muxEvents, early, resp, ctrl>>
      /\ child' = "leaving"
  BY DEF TakeShutdown, parent
<1>4. TypeOK' BY <1>1, <1>2, <1>3 DEF TypeOK
<1>5. Life' BY <1>1, <1>2, <1>3 DEF Life
<1>6. Places' BY <1>1, <1>3 DEF Places
<1>7. Fresh' BY <1>1, <1>2, <1>3 DEF Fresh
<1>8. Stages' /\ AskStages' /\ StreamStages'
  BY <1>1, <1>2, <1>3, CallerFacts DEF Stages, AskStages, StreamStages
<1>9. Own' BY <1>1, <1>2, <1>3 DEF Own
<1>10. Cancelling' BY <1>1, <1>2, <1>3, CallerFacts DEF Cancelling, CancelTaken
<1>11. Counted' BY <1>1, <1>2, <1>3 DEF Counted
<1> QED BY <1>4, <1>5, <1>6, <1>7, <1>8, <1>9, <1>10, <1>11 DEF IInv

LEMMA TakeStreamStep == ASSUME IInv, TakeStream PROVE IInv'
<1>1. /\ TypeOK /\ Life /\ Places /\ Fresh /\ Stages /\ AskStages /\ StreamStages
      /\ Own /\ Cancelling /\ Counted
  BY DEF IInv
<1> DEFINE c == Next1.of
<1>2. /\ Up /\ req' \in Seq(Commands) /\ AllProper(req') /\ Proper(Next1)
      /\ c \in Caller \cup {NONE}
      /\ NoLoad(req) => NoLoad(req')
      /\ LoadFirst(req) => LoadFirst(req')
      /\ \A d \in Caller : /\ Sent(req, d) <=> Sent(req', d) \/ c = d
                           /\ Once(req, d) => Once(req', d)
                           /\ Once(req, d) /\ c = d => ~Sent(req', d)
  BY CommandTaken DEF TakeStream
<1>3. /\ running' = running \cup {c}
      /\ IF mux
         THEN /\ muxEvents' = muxEvents \cup ({c} \cap early)
              /\ early' = early \ {c}
              /\ UNCHANGED stopEvent
         ELSE /\ stopEvent' = FALSE
              /\ UNCHANGED <<muxEvents, early>>
      /\ UNCHANGED <<handle, closing, load, mux, lock, inbox, simple, pc, got, cancelled, mixed>>
      /\ UNCHANGED <<child, made, resp, ctrl>>
  BY DEF TakeStream, parent
<1>4. c \in Reader BY <1>2 DEF TakeStream, Proper
<1> HIDE DEF c
<1>5. c \in Caller /\ Sent(req, c) BY <1>2, <1>4, CallerFacts
<1>6. load = "ok" /\ pc[c] \notin {"out", "waiting"} BY <1>2, <1>5, CallsAreLoaded
<1>7. /\ ~Has(resp, c) /\ ~Ended(resp, c) /\ ~Has(simple, c) /\ c \notin running
      /\ inbox[c] = <<>> /\ ~Ended(inbox[c], c) /\ ~Sent(req', c)
  BY <1>1, <1>2, <1>4, <1>5, CountZero, EmptyQueue DEF Stages, StreamStages, TypeOK
<1>8. TypeOK'
  <2>1. /\ stopEvent' \in BOOLEAN /\ muxEvents' \subseteq Reader /\ early' \subseteq Reader
        /\ running' \subseteq Reader
    BY <1>1, <1>3, <1>4 DEF TypeOK
  <2> QED BY <2>1, <1>1, <1>2, <1>3 DEF TypeOK
<1>9. Life' BY <1>1, <1>2, <1>3 DEF Life, Up
<1>10. Places' BY <1>1, <1>3 DEF Places
<1>11. Fresh' BY <1>1, <1>2, <1>3, <1>6 DEF Fresh
<1>12. Stages' /\ AskStages' /\ StreamStages'
  <2>1. Stages' BY <1>1, <1>2, <1>3, <1>7 DEF Stages
  <2>2. AskStages' BY <1>1, <1>3 DEF AskStages
  <2>3. StreamStages' BY <1>1, <1>2, <1>3, <1>7, CallerFacts DEF StreamStages
  <2> QED BY <2>1, <2>2, <2>3
<1>13. Own' BY <1>1, <1>2, <1>3, <1>5 DEF Own, Up
<1>14. Cancelling'
  <2>1. \A d \in Caller : CancelTaken(d)' <=> CancelTaken(d)
    BY <1>3 DEF CancelTaken
  <2>2. mux => \A d \in Reader : /\ d \in running' => (d \in muxEvents' <=> CancelTaken(d))
                                 /\ Sent(req', d) => (d \in early' <=> CancelTaken(d))
    <3> SUFFICES ASSUME mux, NEW d \in Reader
                 PROVE  /\ d \in running' => (d \in muxEvents' <=> CancelTaken(d))
                        /\ Sent(req', d) => (d \in early' <=> CancelTaken(d))
      OBVIOUS
    <3>1. CASE d = c
      <4>1. c \notin muxEvents /\ (c \in early <=> CancelTaken(c))
        BY <1>1, <1>4, <1>5, <1>7 DEF Cancelling
      <4> QED BY <3>1, <4>1, <1>3, <1>7
    <3>2. CASE d # c BY <3>2, <1>1, <1>2, <1>3, CallerFacts DEF Cancelling
    <3> QED BY <3>1, <3>2
  <2>3. early' \subseteq cancelled /\ muxEvents' \subseteq running'
    BY <1>1, <1>3 DEF Cancelling
  <2> QED BY <2>1, <2>2, <2>3, <1>1, <1>3, CallerFacts DEF Cancelling
<1>15. Counted' BY <1>1, <1>3 DEF Counted, Up
<1> QED BY <1>8, <1>9, <1>10, <1>11, <1>12, <1>13, <1>14, <1>15 DEF IInv
LEMMA EmitsFacts ==
  ASSUME TypeOK, NEW c \in Caller, NEW kind \in Kind, Emits(kind, c)
  PROVE  /\ resp' \in Seq(Envelopes)
         /\ \A d \in Caller \cup {NONE} :
              /\ Has(resp', d) <=> Has(resp, d) \/ c = d
              /\ Ended(resp', d) <=> Ended(resp, d) \/ (c = d /\ kind # "token")
              /\ EndIsLast(resp', d) <=> EndIsLast(resp, d) /\ (c = d => ~Ended(resp, d))
              /\ Tokenless(resp', d) <=> Tokenless(resp, d) /\ (c = d => kind # "token")
              /\ OnlyTo(resp', d) <=> OnlyTo(resp, d) /\ c = d
              /\ Count(resp', d) = Count(resp, d) + (IF c = d /\ kind = "token" THEN 1 ELSE 0)
<1>1. PICK e \in Envelopes : e.to = c /\ e.kind = kind /\ resp' = Append(resp, e)
  <2>1. Envelope(kind, c) \in Envelopes BY DEF Envelopes, Envelope
  <2> QED BY <2>1 DEF Emits, Envelope
<1>2. resp \in Seq(Envelopes) BY DEF TypeOK
<1> QED BY <1>1, <1>2, AppendEnvelope

\* In the inline protocol only the call that holds the lock is answered.
LEMMA OthersAreNotReading ==
  ASSUME IInv, Up, ~mux, NEW c \in Caller, Sent(req, c) \/ c \in running,
         NEW d \in Reader, pc[d] = "reading"
  PROVE  d = c /\ OnlyTo(resp, c)
<1>1. load = "ok" BY CallsAreLoaded
<1>2. lock = c /\ \A x \in Caller : Has(resp, x) => x = c
  BY <1>1 DEF IInv, Own
<1>3. ~Has(resp, NONE) BY <1>1 DEF IInv, Life
<1>4. OnlyTo(resp, c) BY <1>2, <1>3, OwnOnly DEF IInv, TypeOK
<1> QED BY <1>2, <1>4, CallerFacts DEF IInv, Places

LEMMA AnswerStep == ASSUME IInv, Answer PROVE IInv'
<1>1. /\ TypeOK /\ Life /\ Places /\ Fresh /\ Stages /\ AskStages /\ StreamStages
      /\ Own /\ Cancelling /\ Counted
  BY DEF IInv
<1>2. PICK c \in Asker : c = Next1.of
  BY CommandTaken, CallerFacts DEF Answer, Proper
<1>3. /\ Up /\ req' \in Seq(Commands) /\ AllProper(req') /\ c \in Caller /\ c \notin Reader
      /\ NoLoad(req) => NoLoad(req')
      /\ \A d \in Caller : /\ Sent(req, d) <=> Sent(req', d) \/ c = d
                           /\ Once(req, d) => Once(req', d)
                           /\ Once(req, d) /\ c = d => ~Sent(req', d)
  BY <1>2, CommandTaken, CallerFacts DEF Answer
<1>4. PICK kind \in Kind : kind # "token" /\ Emits(kind, c)
  BY <1>2 DEF Answer, Kind
<1>5. /\ resp' \in Seq(Envelopes)
      /\ \A d \in Caller \cup {NONE} :
           /\ Has(resp', d) <=> Has(resp, d) \/ c = d
           /\ Ended(resp', d) <=> Ended(resp, d) \/ c = d
           /\ EndIsLast(resp', d) <=> EndIsLast(resp, d) /\ (c = d => ~Ended(resp, d))
           /\ Tokenless(resp', d) <=> Tokenless(resp, d)
           /\ Count(resp', d) = Count(resp, d) + 0
  BY <1>1, <1>3, <1>4, EmitsFacts
<1>6. /\ UNCHANGED <<handle, closing, load, mux, lock, inbox, simple, pc, got, cancelled, mixed>>
      /\ UNCHANGED <<child, running, made, stopEvent, muxEvents, early, ctrl>>
  BY DEF Answer, parent, worker
<1>7. load = "ok" /\ pc[c] \notin {"out", "waiting"} BY <1>3, CallsAreLoaded
<1>8. /\ ~Has(resp, c) /\ ~Ended(resp, c) /\ ~Has(simple, c) /\ ~Sent(req', c)
  BY <1>1, <1>3, CountZero DEF Stages, TypeOK
<1>9. TypeOK' BY <1>1, <1>3, <1>5, <1>6 DEF TypeOK
<1>10. Life' BY <1>1, <1>3, <1>5, <1>6, <1>7, CallerFacts DEF Life, Up
<1>11. Places' BY <1>1, <1>6 DEF Places
<1>12. Fresh' BY <1>1, <1>3, <1>5, <1>6, <1>7 DEF Fresh
<1>13. Stages' /\ AskStages' /\ StreamStages'
  <2>1. c \notin running BY <1>1, <1>3 DEF TypeOK
  <2>2. Stages' BY <2>1, <1>1, <1>3, <1>5, <1>6, <1>8 DEF Stages
  <2>3. AskStages' BY <1>1, <1>5, <1>6, <1>8, CallerFacts DEF AskStages
  <2>4. StreamStages' BY <1>1, <1>3, <1>5, <1>6, CallerFacts DEF StreamStages
  <2> QED BY <2>2, <2>3, <2>4
<1>14. Own' BY <1>1, <1>3, <1>5, <1>6, CallerFacts DEF Own, Up
<1>15. Cancelling' BY <1>1, <1>3, <1>6, CallerFacts DEF Cancelling, CancelTaken
<1>16. Counted'
  <2> SUFFICES ASSUME NEW d \in Reader, pc[d] = "reading", d \notin mixed
               PROVE  /\ mux /\ d # c
                      /\ Up \/ Ended(resp', d) \/ Ended(inbox[d], d)
                           => got[d] + Count(inbox[d], d) + Count(resp', d) = made[d]
    BY <1>6 DEF Counted, Up
  <2>1. mux /\ d # c BY <1>3, OthersAreNotReading
  <2>2. Count(resp', d) = Count(resp, d)
    <3>1. Count(resp', d) = Count(resp, d) + 0 /\ Count(resp, d) \in Nat
      BY <1>1, <1>5, CallerFacts, CountType DEF TypeOK
    <3> QED BY <3>1
  <2>3. Ended(resp', d) <=> Ended(resp, d) BY <2>1, <1>5, CallerFacts
  <2> QED BY <2>1, <2>2, <2>3, <1>1 DEF Counted
<1> QED BY <1>9, <1>10, <1>11, <1>12, <1>13, <1>14, <1>15, <1>16 DEF IInv

LEMMA TokenStep == ASSUME IInv, NEW c \in Reader, Token(c) PROVE IInv'
<1>1. /\ TypeOK /\ Life /\ Places /\ Fresh /\ Stages /\ AskStages /\ StreamStages
      /\ Own /\ Cancelling /\ Counted
  BY DEF IInv
<1>2. /\ Up /\ c \in running /\ made[c] < MaxTokens /\ c \in Caller
      /\ made' = [made EXCEPT ![c] = @ + 1]
      /\ Emits("token", c)
      /\ UNCHANGED <<handle, closing, load, mux, lock, inbox, simple, pc, got, cancelled, mixed>>
      /\ UNCHANGED <<child, running, stopEvent, muxEvents, early, req, ctrl>>
  BY CallerFacts DEF Token, parent
<1>3. /\ resp' \in Seq(Envelopes)
      /\ \A d \in Caller \cup {NONE} :
           /\ Has(resp', d) <=> Has(resp, d) \/ c = d
           /\ Ended(resp', d) <=> Ended(resp, d)
           /\ EndIsLast(resp', d) <=> EndIsLast(resp, d) /\ (c = d => ~Ended(resp, d))
           /\ d # c => (Tokenless(resp', d) <=> Tokenless(resp, d))
           /\ OnlyTo(resp', d) <=> OnlyTo(resp, d) /\ c = d
           /\ Count(resp', d) = Count(resp, d) + (IF c = d THEN 1 ELSE 0)
  <2>1. "token" \in Kind BY DEF Kind
  <2> QED BY <2>1, <1>1, <1>2, EmitsFacts
<1>4. load = "ok" /\ pc[c] \notin {"out", "waiting"} BY <1>2, CallsAreLoaded
<1>5. /\ made' \in [Reader -> 0 .. MaxTokens]
      /\ made'[c] = made[c] + 1 /\ made[c] \in Nat
      /\ \A d \in Reader : d # c => made'[d] = made[d]
  BY <1>1, <1>2, ProtocolAssumption DEF TypeOK
<1>6. TypeOK' BY <1>1, <1>2, <1>3, <1>5 DEF TypeOK
<1>7. Life' BY <1>1, <1>2, <1>3, <1>4, CallerFacts DEF Life, Up
<1>8. Places' BY <1>1, <1>2 DEF Places
<1>9. Fresh' BY <1>1, <1>2, <1>3, <1>4, <1>5 DEF Fresh
<1>10. Stages' /\ AskStages' /\ StreamStages'
  <2>1. ~Sent(req, c) /\ ~Ended(resp, c) BY <1>1, <1>2 DEF Stages
  <2>2. Stages' BY <2>1, <1>1, <1>2, <1>3 DEF Stages
  <2>3. AskStages' BY <1>1, <1>2, <1>3, CallerFacts DEF AskStages
  <2>4. StreamStages' BY <1>1, <1>2, <1>3, CallerFacts DEF StreamStages
  <2> QED BY <2>2, <2>3, <2>4
<1>11. Own' BY <1>1, <1>2, <1>3, CallerFacts DEF Own, Up
<1>12. Cancelling' BY <1>1, <1>2 DEF Cancelling, CancelTaken
<1>13. Counted'
  <2> SUFFICES ASSUME NEW d \in Reader, pc[d] = "reading", d \notin mixed
               PROVE  /\ got[d] + Count(inbox[d], d) + Count(resp', d) = made'[d]
                      /\ ~mux => OnlyTo(resp', d)
                      /\ ~mux => inbox[d] = <<>>
    BY <1>2 DEF Counted, Up
  <2>1. /\ got[d] + Count(inbox[d], d) + Count(resp, d) = made[d]
        /\ ~mux => inbox[d] = <<>>
    BY <1>1, <1>2 DEF Counted
  <2>2. ~mux => d = c /\ OnlyTo(resp, c) BY <1>2, OthersAreNotReading
  <2>3. Count(resp, d) \in Nat /\ Count(inbox[d], d) \in Nat /\ got[d] \in Nat
    BY <1>1, CountType DEF TypeOK
  <2>4. ~mux => OnlyTo(resp', d) BY <2>2, <1>2, <1>3
  <2>5. got[d] + Count(inbox[d], d) + Count(resp', d) = made'[d]
    <3>1. CASE d = c
      <4>1. Count(resp', c) = Count(resp, c) + 1 BY <1>2, <1>3
      <4> QED BY <3>1, <4>1, <2>1, <2>3, <1>5
    <3>2. CASE d # c
      <4>1. Count(resp', d) = Count(resp, d) + 0 BY <3>2, <1>3, CallerFacts
      <4> QED BY <3>2, <4>1, <2>1, <2>3, <1>5
    <3> QED BY <3>1, <3>2
  <2> QED BY <2>1, <2>4, <2>5
<1> QED BY <1>6, <1>7, <1>8, <1>9, <1>10, <1>11, <1>12, <1>13 DEF IInv

LEMMA StreamOverStep == ASSUME IInv, NEW c \in Reader, StreamOver(c) PROVE IInv'
<1>1. /\ TypeOK /\ Life /\ Places /\ Fresh /\ Stages /\ AskStages /\ StreamStages
      /\ Own /\ Cancelling /\ Counted
  BY DEF IInv
<1>2. /\ Up /\ c \in running /\ c \in Caller
      /\ running' = running \ {c} /\ muxEvents' = muxEvents \ {c}
      /\ UNCHANGED <<handle, closing, load, mux, lock, inbox, simple, pc, got, cancelled, mixed>>
      /\ UNCHANGED <<child, made, stopEvent, early, req, ctrl>>
  BY CallerFacts DEF StreamOver, parent
<1>3. PICK kind \in Kind : kind # "token" /\ Emits(kind, c)
  BY DEF StreamOver, Kind
<1>4. /\ resp' \in Seq(Envelopes)
      /\ \A d \in Caller \cup {NONE} :
           /\ Has(resp', d) <=> Has(resp, d) \/ c = d
           /\ Ended(resp', d) <=> Ended(resp, d) \/ c = d
           /\ EndIsLast(resp', d) <=> EndIsLast(resp, d) /\ (c = d => ~Ended(resp, d))
           /\ Tokenless(resp', d) <=> Tokenless(resp, d)
           /\ OnlyTo(resp', d) <=> OnlyTo(resp, d) /\ c = d
           /\ Count(resp', d) = Count(resp, d) + 0
  BY <1>1, <1>2, <1>3, EmitsFacts
<1>5. load = "ok" /\ pc[c] \notin {"out", "waiting"} BY <1>2, CallsAreLoaded
<1>6. /\ ~Sent(req, c) /\ ~Ended(resp, c) /\ ~Ended(inbox[c], c)
  BY <1>1, <1>2 DEF Stages, StreamStages
<1>7. TypeOK' BY <1>1, <1>2, <1>4 DEF TypeOK
<1>8. Life' BY <1>1, <1>2, <1>4, <1>5, CallerFacts DEF Life, Up
<1>9. Places' BY <1>1, <1>2 DEF Places
<1>10. Fresh' BY <1>1, <1>2, <1>4, <1>5 DEF Fresh
<1>11. Stages' /\ AskStages' /\ StreamStages'
  <2>1. Stages' BY <1>1, <1>2, <1>4, <1>6 DEF Stages
  <2>2. AskStages' BY <1>1, <1>2, <1>4, CallerFacts DEF AskStages
  <2>3. StreamStages' BY <1>1, <1>2, <1>4, <1>6, CallerFacts DEF StreamStages
  <2> QED BY <2>1, <2>2, <2>3
<1>12. Own' BY <1>1, <1>2, <1>4, CallerFacts DEF Own, Up
<1>13. Cancelling'
  <2>1. \A d \in Caller : CancelTaken(d)' <=> CancelTaken(d) BY <1>2 DEF CancelTaken
  <2> QED BY <2>1, <1>1, <1>2, CallerFacts DEF Cancelling
<1>14. Counted'
  <2> SUFFICES ASSUME NEW d \in Reader, pc[d] = "reading", d \notin mixed
               PROVE  /\ got[d] + Count(inbox[d], d) + Count(resp', d) = made[d]
                      /\ ~mux => OnlyTo(resp', d)
                      /\ ~mux => inbox[d] = <<>>
    BY <1>2 DEF Counted, Up
  <2>1. /\ got[d] + Count(inbox[d], d) + Count(resp, d) = made[d]
        /\ ~mux => inbox[d] = <<>>
    BY <1>1, <1>2 DEF Counted
  <2>2. ~mux => d = c /\ OnlyTo(resp, c) BY <1>2, OthersAreNotReading
  <2>3. Count(resp', d) = Count(resp, d)
    <3>1. Count(resp', d) = Count(resp, d) + 0 /\ Count(resp, d) \in Nat
      BY <1>1, <1>4, CallerFacts, CountType DEF TypeOK
    <3> QED BY <3>1
  <2>4. ~mux => OnlyTo(resp', d) BY <2>2, <1>2, <1>4
  <2> QED BY <2>1, <2>3, <2>4
<1> QED BY <1>7, <1>8, <1>9, <1>10, <1>11, <1>12, <1>13, <1>14 DEF IInv
-----------------------------------------------------------------------------
(* The theorems. *)

LEMMA InitInvariant == Init => IInv
<1> SUFFICES ASSUME Init PROVE IInv
  OBVIOUS
<1>1. TypeOK
  <2>1. <<>> \in Seq(Commands) /\ <<>> \in Seq(Envelopes) OBVIOUS
  <2>2. inbox \in [Reader -> Seq(Envelopes)] BY <2>1 DEF Init
  <2>3. got \in [Reader -> Nat] /\ made \in [Reader -> 0 .. MaxTokens]
    BY ProtocolAssumption DEF Init
  <2>4. pc \in [Caller -> {"out", "waiting", "failed", "over"} \cup Streaming] BY DEF Init
  <2> QED BY <2>1, <2>2, <2>3, <2>4 DEF Init, TypeOK
<1>2. /\ req = <<>> /\ resp = <<>> /\ ctrl = <<>> /\ simple = <<>> /\ running = {}
      /\ cancelled = {} /\ mixed = {} /\ muxEvents = {} /\ early = {} /\ ~mux
      /\ lock = NONE /\ load = "out" /\ ~Up
      /\ \A c \in Caller : pc[c] = "out"
      /\ \A c \in Reader : inbox[c] = <<>> /\ got[c] = 0 /\ made[c] = 0
  BY DEF Init, Up
<1>3. Life BY <1>2, EmptyQueue DEF Life
<1>4. Places BY <1>2, CallerFacts DEF Places
<1>5. Fresh BY <1>2, EmptyQueue, CallerFacts DEF Fresh
<1>6. Stages /\ AskStages /\ StreamStages
  BY <1>2, EmptyQueue DEF Stages, AskStages, StreamStages
<1>7. Own BY <1>2 DEF Own
<1>8. Cancelling BY <1>2, EmptyQueue DEF Cancelling
<1>9. Counted BY <1>2, CallerFacts DEF Counted
<1> QED BY <1>1, <1>3, <1>4, <1>5, <1>6, <1>7, <1>8, <1>9 DEF IInv

LEMMA StutterStep == ASSUME IInv, UNCHANGED vars PROVE IInv'
<1>1. /\ UNCHANGED <<handle, closing, load, mux, lock, inbox, simple, pc, got, cancelled, mixed>>
      /\ UNCHANGED <<child, running, made, stopEvent, muxEvents, early, req, resp, ctrl>>
  BY DEF vars, parent, worker, queues
<1>2. TypeOK' BY <1>1 DEF IInv, TypeOK
<1>3. Life' /\ Places' /\ Fresh' BY <1>1 DEF IInv, Life, Places, Fresh, Up
<1>4. Stages' /\ AskStages' /\ StreamStages'
  BY <1>1 DEF IInv, Stages, AskStages, StreamStages
<1>5. Own' /\ Cancelling' /\ Counted'
  BY <1>1 DEF IInv, Own, Cancelling, CancelTaken, Counted, Up
<1> QED BY <1>2, <1>3, <1>4, <1>5 DEF IInv

LEMMA NextInvariant == ASSUME IInv, [Next]_vars PROVE IInv'
<1>1. CASE Spawn \/ Loader
  BY <1>1, SpawnStep, LoadReadStep, LoadStallsStep, LoadLostStep DEF Loader
<1>2. CASE \E c \in Reader : WaitForTurn(c) \/ Begin(c) \/ BeginMux(c) \/ StopReading(c)
  BY <1>2, WaitForTurnStep, BeginStep, BeginMuxStep, StopReadingStep
<1>3. CASE \E c \in Asker : BeginAsk(c)
  BY <1>3, BeginAskStep
<1>4. CASE \E c \in Caller : Call(c)
  BY <1>4, ReadStep, DrainReadStep, DrainStallsStep, KillAfterDrainStep, LostStep, StallsStep,
     DropModelStep DEF Call
<1>5. CASE Unload \/ Kill \/ Release \/ Demux
  BY <1>5, UnloadStep, KillStep, ReleaseStep, DemuxStep
<1>6. CASE Child \/ Crash
  BY <1>6, ControlStep, ServeLoadStep, TakeStreamStep, AnswerStep, TakeShutdownStep, LeaveStep,
     TokenStep, StreamOverStep, CrashStep DEF Child
<1>7. CASE UNCHANGED vars BY <1>7, StutterStep
<1> QED BY <1>1, <1>2, <1>3, <1>4, <1>5, <1>6, <1>7 DEF Next

\* The invariant holds in every state, for every number of callers, whatever
\* crashes, hangs, is cancelled or unloaded.
THEOREM Invariant == Spec => []IInv
<1>1. Init => IInv BY InitInvariant
<1>2. IInv /\ [Next]_vars => IInv' BY NextInvariant
<1> QED BY <1>1, <1>2, PTL DEF Spec

\* Every variable has its type; only a loaded model is multiplexed, and the
\* lock belongs to a caller that is in its call.
THEOREM TypeCorrect == Spec => []TypeOK
<1>1. IInv => TypeOK BY DEF IInv
<1> QED BY <1>1, Invariant, PTL

\* While the worker lives, what is under way on the shared queues belongs to
\* the call that holds the lock: nothing is left over for the next one, however
\* earlier calls were stopped, drained or refused.
THEOREM OwnEnvelopesHold == Spec => []OwnEnvelopes
<1>1. ASSUME IInv PROVE OwnEnvelopes
  <2> SUFFICES ASSUME load = "ok", Alive
               PROVE  IF mux
                      THEN (UnderWay(req) \cup Addressed(resp) \cup Addressed(simple)) \cap Asker
                             \subseteq {lock}
                      ELSE UnderWay(req) \cup running \cup Addressed(resp) \subseteq {lock}
    BY DEF OwnEnvelopes
  <2>1. Up /\ Own /\ ~Has(resp, NONE) BY <1>1 DEF IInv, Life, Alive, Up
  <2>2. /\ req \in Seq(Commands) /\ resp \in Seq(Envelopes) /\ simple \in Seq(Envelopes)
        /\ running \subseteq Reader
    BY <1>1 DEF IInv, TypeOK
  <2>3. ASSUME NEW c \in UnderWay(req) PROVE c \in Caller /\ Sent(req, c)
    <3>1. PICK n \in 1 .. Len(req) : req[n].of # NONE /\ c = req[n].of
      BY DEF UnderWay
    <3>2. req[n] \in Commands BY <2>2
    <3> QED BY <3>1, <3>2 DEF Commands, Sent
  <2>4. ASSUME NEW q \in Seq(Envelopes), NEW c \in Addressed(q)
        PROVE  c \in Caller \cup {NONE} /\ Has(q, c)
    <3>1. PICK n \in 1 .. Len(q) : c = q[n].to BY DEF Addressed
    <3>2. q[n] \in Envelopes OBVIOUS
    <3> QED BY <3>1, <3>2 DEF Envelopes, Has
  <2>5. CASE mux
    <3>1. \A c \in Asker : c \in UnderWay(req) \/ c \in Addressed(resp) \/ c \in Addressed(simple)
                             => lock = c
      BY <2>1, <2>2, <2>3, <2>4, <2>5, CallerFacts DEF Own
    <3> QED BY <2>5, <3>1
  <2>6. CASE ~mux
    <3>1. \A c \in UnderWay(req) : lock = c BY <2>1, <2>3, <2>6 DEF Own
    <3>2. \A c \in running : lock = c BY <2>1, <2>2, <2>6, CallerFacts DEF Own
    <3>3. \A c \in Addressed(resp) : lock = c BY <2>1, <2>2, <2>4, <2>6 DEF Own
    <3> QED BY <2>6, <3>1, <3>2, <3>3
  <2> QED BY <2>5, <2>6
<1> QED BY <1>1, Invariant, PTL

\* In the multiplexed protocol a running stream is told to stop if and only if
\* its own caller's cancel has reached the child, also when the cancel came
\* before the command.
THEOREM CancelsAreExactHolds == Spec => []CancelsAreExact
<1>1. ASSUME IInv PROVE CancelsAreExact
  <2> SUFFICES ASSUME mux, NEW c \in running PROVE c \in muxEvents <=> Reached(c)
    BY DEF CancelsAreExact
  <2>1. c \in Reader /\ ctrl \in Seq(Commands) /\ Cancelling
    BY <1>1 DEF IInv, TypeOK
  <2>2. c \in muxEvents <=> CancelTaken(c) BY <2>1 DEF Cancelling
  <2>3. Sent(ctrl, c) <=> Command("cancel_stream", c) \in {ctrl[n] : n \in 1 .. Len(ctrl)}
    <3>1. ASSUME NEW n \in 1 .. Len(ctrl), ctrl[n].of = c
          PROVE  ctrl[n] = Command("cancel_stream", c)
      <4>1. ctrl[n] \in Commands /\ ctrl[n].name = "cancel_stream"
        BY <2>1 DEF Cancelling, AllCancel
      <4> QED BY <4>1, <3>1 DEF Commands, Command
    <3>2. Command("cancel_stream", c).of = c BY DEF Command
    <3> HIDE DEF Command
    <3> QED BY <3>1, <3>2 DEF Sent
  <2> QED BY <2>2, <2>3 DEF CancelTaken, Reached
<1> QED BY <1>1, Invariant, PTL

LEMMA MixedGrows == ASSUME [Next]_vars PROVE mixed \subseteq mixed'
<1>1. CASE Spawn \/ Loader
  BY <1>1 DEF Spawn, Loader, LoadRead, LoadStalls, LoadLost
<1>2. CASE \E c \in Reader : WaitForTurn(c) \/ Begin(c) \/ BeginMux(c) \/ StopReading(c)
  BY <1>2 DEF WaitForTurn, Begin, BeginMux, StopReading
<1>3. CASE \E c \in Asker : BeginAsk(c)
  BY <1>3 DEF BeginAsk
<1>4. ASSUME NEW c \in Caller, Call(c) PROVE mixed \subseteq mixed'
  <2>1. CASE Read(c) BY <2>1 DEF Read
  <2>2. CASE DrainRead(c) \/ DrainStalls(c) \/ KillAfterDrain(c)
    BY <2>2 DEF DrainRead, DrainStalls, KillAfterDrain
  <2>3. CASE Lost(c) \/ Stalls(c) \/ DropModel(c)
    BY <2>3 DEF Lost, Stalls, DropModel
  <2> QED BY <1>4, <2>1, <2>2, <2>3 DEF Call
<1>5. CASE Unload \/ Kill \/ Release \/ Demux
  BY <1>5 DEF Unload, Kill, Release, Demux, parent
<1>6. CASE Child \/ Crash
  BY <1>6 DEF Child, Control, ServeLoad, TakeStream, Answer, TakeShutdown, Leave, Token,
              StreamOver, Crash, parent
<1>7. CASE UNCHANGED vars BY <1>7 DEF vars, parent
<1> QED BY <1>1, <1>2, <1>3, <1>4, <1>5, <1>6, <1>7 DEF Next

\* A reply that ended normally was received whole, unless its caller read
\* envelopes of another call.
THEOREM WholeRepliesHold == Spec => WholeReplies
<1> DEFINE Whole == \A c \in Reader : Completes(c) /\ c \notin mixed' => got[c] = made[c]
<1>1. IInv /\ [Next]_vars => Whole
  <2> SUFFICES ASSUME IInv, [Next]_vars PROVE Whole
    OBVIOUS
  <2> SUFFICES ASSUME NEW c \in Reader, Completes(c), c \notin mixed'
               PROVE  got[c] = made[c]
    OBVIOUS
  <2>1. /\ TypeOK /\ Stages /\ StreamStages /\ Counted /\ Life
        /\ c \in Caller /\ pc[c] = "reading" /\ Source(c) # <<>>
        /\ Head(Source(c)).kind = "done"
    BY CallerFacts DEF IInv, Completes
  <2>2. c \notin mixed
    BY MixedGrows
  <2>3. /\ resp \in Seq(Envelopes) /\ inbox[c] \in Seq(Envelopes)
        /\ Count(resp, c) \in Nat /\ Count(inbox[c], c) \in Nat /\ got[c] \in Nat
    BY <2>1, CountType DEF TypeOK
  <2>4. /\ Up \/ Ended(resp, c) \/ Ended(inbox[c], c)
             => got[c] + Count(inbox[c], c) + Count(resp, c) = made[c]
        /\ ~mux /\ ~OnlyTo(resp, c) => got[c] = made[c]
        /\ ~mux => inbox[c] = <<>>
    BY <2>1, <2>2 DEF Counted
  <2>5. ASSUME NEW q \in Seq(Envelopes), q # <<>>, OnlyTo(q, c), EndIsLast(q, c),
               Head(q).kind = "done"
        PROVE  Ended(q, c) /\ Count(q, c) = 0
    <3>1. /\ Head(q).to = c /\ Ended(q, c) /\ ~Has(Tail(q), c) /\ Tail(q) \in Seq(Envelopes)
          /\ Count(q, c) = Count(Tail(q), c) + 0
      BY <2>5, TailEnvelope
    <3>2. Count(Tail(q), c) = 0 BY <3>1, CountZero
    <3> QED BY <3>1, <3>2
  <2>6. CASE mux
    <3>1. Source(c) = inbox[c] BY <2>6 DEF Source
    <3>2. Ended(inbox[c], c) /\ Count(inbox[c], c) = 0
      BY <3>1, <2>1, <2>3, <2>5 DEF StreamStages
    <3>3. Count(resp, c) = 0 BY <3>2, <2>1, <2>3, CountZero DEF StreamStages
    <3> QED BY <3>2, <3>3, <2>3, <2>4
  <2>7. CASE ~mux /\ OnlyTo(resp, c)
    <3>1. Source(c) = resp BY <2>7 DEF Source
    <3>2. Ended(resp, c) /\ Count(resp, c) = 0
      BY <3>1, <2>1, <2>3, <2>5, <2>7 DEF Stages
    <3>3. Count(inbox[c], c) = 0 BY <2>4, <2>7, EmptyQueue
    <3> QED BY <3>2, <3>3, <2>3, <2>4
  <2> QED BY <2>4, <2>6, <2>7
<1>2. IInv /\ [Next]_vars => [Whole]_vars BY <1>1
<1> QED BY <1>2, Invariant, PTL DEF Spec, WholeReplies
=============================================================================
