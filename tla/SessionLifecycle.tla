-------------------------- MODULE SessionLifecycle --------------------------
(***************************************************************************)
(* What the background promises about native capture sessions, without     *)
(* saying how: there is at most one, every session is new, it is prepared, *)
(* then perhaps active, then stopping, and a session that is stopping only *)
(* ever goes away. Restarts of the background worker are invisible.        *)
(***************************************************************************)
CONSTANT Session   \* session identifiers, none of them 0

VARIABLES
  current,   \* the session on record, 0 when there is none
  phase,     \* its phase, "off" when there is none
  used       \* every session that ever was on record

vars == <<current, phase, used>>

Init == current = 0 /\ phase = "off" /\ used = {}

Prepare(s) ==
  /\ phase = "off" /\ s \notin used
  /\ current' = s /\ phase' = "preparing" /\ used' = used \cup {s}

Activate ==
  /\ phase = "preparing" /\ phase' = "active"
  /\ UNCHANGED <<current, used>>

Stop ==
  /\ phase \in {"preparing", "active"} /\ phase' = "stopping"
  /\ UNCHANGED <<current, used>>

Clear ==
  /\ phase = "stopping"
  /\ current' = 0 /\ phase' = "off"
  /\ UNCHANGED used

Next == \/ \E s \in Session : Prepare(s)
        \/ Activate \/ Stop \/ Clear
Spec == Init /\ [][Next]_vars
=============================================================================
