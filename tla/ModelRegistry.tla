--------------------------- MODULE ModelRegistry ---------------------------
(***************************************************************************)
(* What spawn_model and delete_model promise: every call is answered, a    *)
(* spawn happens completely or not at all, and the simulation holds        *)
(* nothing of models that are not there.                                   *)
(***************************************************************************)
CONSTANT Name

VARIABLES
  present,  \* the models of the simulation
  residue,  \* the models of which the simulation holds anything
  answer    \* success of the last call

vars == <<present, residue, answer>>

Init == present = {} /\ residue = {} /\ answer = TRUE

Spawned(n) == /\ n \notin present
              /\ present' = present \cup {n}
              /\ answer' = TRUE

Refused == present' = present /\ answer' = FALSE

Deleted(n) == /\ n \in present
              /\ present' = present \ {n}
              /\ answer' = TRUE

Next == /\ (\E n \in Name : Spawned(n) \/ Deleted(n)) \/ Refused
        /\ residue' = present'

(* The simulation is shut down, for good.                                  *)
Shutdown == present' = {} /\ residue' = {} /\ UNCHANGED answer

Spec == Init /\ [][Next \/ Shutdown]_vars
=============================================================================
