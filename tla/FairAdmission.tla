--------------------------- MODULE FairAdmission ---------------------------
(***************************************************************************)
(* What InferenceGate promises its callers, without futures, counters or   *)
(* queue entries: a set of tasks inside, a line of tasks ahead of one      *)
(* another, and admission from the front of the line of a group that fits. *)
(***************************************************************************)
EXTENDS Integers, FiniteSets

CONSTANTS Task, Shared, Exclusive

VARIABLES
  limit,    \* how many shared tasks may be let in
  inside,   \* the tasks let in
  line,     \* the tasks waiting
  ahead,    \* the pairs <<t, u>> of the line with t ahead of u
  wants     \* what each task inside or in line asked for, else "none"

vars == <<limit, inside, line, ahead, wants>>

\* The group G may join the tasks of S: one exclusive task if S is empty, or
\* shared tasks within the limit if no exclusive one is in S.
Compatible(G, S, w, n) ==
  \/ G = {}
  \/ S = {} /\ \E t \in G : G = {t} /\ w[t] = Exclusive
  \/ /\ \A t \in G \cup S : w[t] = Shared
     /\ Cardinality(G \cup S) <= n

\* A group of the line that nobody outside it is ahead of gets in, where the
\* tasks of S are inside; L is the line it leaves.
LetIn(S, L, w) ==
  \E G \in SUBSET L :
    /\ \A t \in G : \A u \in L : <<u, t>> \in ahead => u \in G
    /\ Compatible(G, S, w, limit')
    /\ inside' = S \cup G
    /\ line' = L \ G
    /\ ahead' = ahead \cap ((L \ G) \X (L \ G))
    /\ wants' = [t \in Task |-> IF t \in S \cup L THEN w[t] ELSE "none"]

Init ==
  /\ limit \in Nat \ {0}
  /\ inside = {} /\ line = {} /\ ahead = {}
  /\ wants = [t \in Task |-> "none"]

\* A newcomer goes in past an empty line, or behind everybody in line.
Arrive(t, k) ==
  /\ t \notin inside \cup line
  /\ \/ /\ line = {}
        /\ Compatible({t}, inside, [wants EXCEPT ![t] = k], limit)
        /\ inside' = inside \cup {t}
        /\ UNCHANGED <<line, ahead>>
     \/ /\ line' = line \cup {t}
        /\ ahead' = ahead \cup (line \X {t})
        /\ UNCHANGED inside
  /\ wants' = [wants EXCEPT ![t] = k]
  /\ UNCHANGED limit

GiveUp(t) ==
  /\ t \in line
  /\ line' = line \ {t}
  /\ ahead' = ahead \cap (line' \X line')
  /\ wants' = [wants EXCEPT ![t] = "none"]
  /\ UNCHANGED <<limit, inside>>

Leave(t) ==
  /\ t \in inside
  /\ UNCHANGED limit
  /\ LetIn(inside \ {t}, line, wants)

Admit == UNCHANGED limit /\ LetIn(inside, line, wants)

SetLimit == /\ limit' \in Nat \ {0}
            /\ LetIn(inside, line, wants)

Next ==
  \/ \E t \in Task : \/ Arrive(t, Shared) \/ Arrive(t, Exclusive)
                     \/ GiveUp(t) \/ Leave(t)
  \/ Admit \/ SetLimit

Spec == Init /\ [][Next]_vars
=============================================================================
