------------------------ MODULE ControllerStateMachine -----------------------
(***************************************************************************)
(* What the controller promises the vehicle about its state: which state    *)
(* may follow which, and by whose doing.  No sequences, no main loop.       *)
(* "OFF" is the time from a reset to the end of applicationInit().          *)
(***************************************************************************)
VARIABLE state

(* "OTHER" stands for any byte that is not a ControllerState enumerator. *)
RequestableStates ==
  {"INIT", "MANUAL", "DISENGAGEMENT", "ENGAGED", "POWER_UP_BIT", "OTHER"}

(* Requests that are answered without effect, or refused, state by state. *)
Ineffective ==
  {<<"ENGAGED", "INIT">>, <<"MANUAL", "DISENGAGEMENT">>,
   <<"MANUAL", "POWER_UP_BIT">>, <<"MANUAL", "ENGAGED">>,
   <<"OPERATIONAL", "POWER_UP_BIT">>}

Init == state = "OFF"

Boot == state = "OFF" /\ state' = "MANUAL"

Reset == state' = "OFF"

Request(s) ==
  /\ state \notin {"OFF", "EMERGENCY"}
  /\ <<state, s>> \notin Ineffective
  /\ state' = s

Complete ==
  \/ state = "INIT" /\ state' = "ENGAGED"
  \/ state = "DISENGAGEMENT" /\ state' = "MANUAL"
  \/ state = "POWER_UP_BIT" /\ state' = "OPERATIONAL"

Fault == state \notin {"OFF", "EMERGENCY"} /\ state' = "ERROR"

Emergency == state # "OFF" /\ state' = "EMERGENCY"

Next ==
  \/ Boot
  \/ Reset
  \/ \E s \in RequestableStates : Request(s)
  \/ Complete
  \/ Fault
  \/ Emergency

Spec == Init /\ [][Next]_state
=============================================================================
