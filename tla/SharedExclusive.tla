-------------------------- MODULE SharedExclusive --------------------------
(***************************************************************************)
(* What the slot scheduler promises those who share the model: replies run *)
(* together, a caller that asked for the model has it alone, and while one *)
(* asks or has it no reply starts.                                         *)
(***************************************************************************)
CONSTANTS Reply, Caller

VARIABLES
  running,  \* the replies that are using the model
  asking,   \* the callers that wait to have the model alone
  alone     \* the callers that have it alone

vars == <<running, asking, alone>>

Init == running = {} /\ asking = {} /\ alone = {}

\* Some replies end; some start, if nobody asks for the model or has it.
Run == /\ \E gone \in SUBSET running, new \in SUBSET Reply :
            /\ new # {} => asking \cup alone = {}
            /\ running' = (running \ gone) \cup new
       /\ UNCHANGED <<asking, alone>>

Ask(c) == /\ c \notin asking \cup alone
          /\ asking' = asking \cup {c}
          /\ UNCHANGED <<running, alone>>

Enter(c) == /\ c \in asking
            /\ running = {} /\ alone = {}
            /\ asking' = asking \ {c}
            /\ alone' = {c}
            /\ UNCHANGED running

GiveUp(c) == /\ c \in asking
             /\ asking' = asking \ {c}
             /\ UNCHANGED <<running, alone>>

Leave(c) == /\ c \in alone
            /\ alone' = {}
            /\ UNCHANGED <<running, asking>>

Next == \/ Run
        \/ \E c \in Caller : Ask(c) \/ Enter(c) \/ GiveUp(c) \/ Leave(c)

Spec == Init /\ [][Next]_vars
=============================================================================
