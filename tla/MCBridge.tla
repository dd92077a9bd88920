------------------------------- MODULE MCBridge --------------------------------
(***************************************************************************)
(* Instances for TLC of the two ways to the bridge's devices: the session  *)
(* of the bridge API (BridgeLink), and the polls and pushes that bring     *)
(* their data (DeviceStates), of which the session is but a source of      *)
(* pushes that may be lost.  They share no variable: a behaviour either    *)
(* follows the session, while the devices are quiet and every poll is      *)
(* answered, or the devices, while no session is begun that would add      *)
(* nothing to their pushes.                                                *)
(***************************************************************************)
EXTENDS BridgeLink, DeviceStates

VARIABLE part     \* what a behaviour follows

MCInit == part \in {"session", "devices"} /\ LinkInit /\ Init

QuietDevices == Tick \/ PollStarts \/ SensorsAnswered \/ LightsAnswered \/ RadioAnswered

MCNext ==
  \/ /\ part = "session" /\ LinkNext
     /\ UNCHANGED <<part, vars>>
  \/ /\ part = "session" /\ QuietDevices
     /\ UNCHANGED <<part, linkVars>>
  \/ /\ part = "devices" /\ Next
     /\ UNCHANGED <<part, linkVars>>

MCSpec == MCInit /\ [][MCNext]_<<part, linkVars, vars>>

MCFairSpec == MCSpec /\ LinkFairness /\ Fairness

===============================================================================
