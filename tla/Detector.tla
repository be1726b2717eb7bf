------------------------------ MODULE Detector ------------------------------
(***************************************************************************)
(* What a BoolSensor promises (docs/included_plugins/bool_sensor.rst): it  *)
(* publishes true if something collides, false otherwise, and "if there is *)
(* a collision since the previous publishing, it will always publish at    *)
(* least one true".                                                        *)
(***************************************************************************)
EXTENDS FiniteSets

CONSTANT Contact

VARIABLES
  loaded,    \* the sensor exists
  touching,  \* the contacts that exist now
  begun,     \* the contacts that began since the last publication
  out        \* the last value published

vars == <<loaded, touching, begun, out>>

Init == loaded = TRUE /\ touching = {} /\ begun = {} /\ out = FALSE

Begin == \E c \in Contact \ touching :
  /\ touching' = touching \cup {c}
  /\ begun' = begun \cup {c}
  /\ UNCHANGED <<loaded, out>>

(* One contact ends, or several at once when a model is deleted.           *)
End == /\ touching' \in SUBSET touching
       /\ UNCHANGED <<loaded, begun, out>>

Publish == /\ out' = (touching \cup begun # {})
           /\ begun' = {}
           /\ UNCHANGED <<loaded, touching>>

(* The model that carries the sensor is deleted, and spawned again.        *)
Unload == loaded /\ loaded' = FALSE /\ touching' = {} /\ begun' = {} /\ out' = FALSE

Load == ~loaded /\ loaded' = TRUE /\ UNCHANGED <<touching, begun, out>>

Next == Begin \/ End \/ Publish \/ Unload \/ Load

Spec == Init /\ [][Next]_vars

=============================================================================
