------------------------------ MODULE MCExchange ------------------------------
(***************************************************************************)
(* Instances for TLC of what passes between the entities of Home Assistant *)
(* and the devices of the bridge: which entities are exported (Exports),   *)
(* how an exported entity and its device follow each other (EchoGuard),    *)
(* how values of imported devices come in (Inbound).  They share no        *)
(* variable, so a behaviour is one of one of them.                         *)
(***************************************************************************)
EXTENDS Exports, Inbound, EchoGuard, TLC

VARIABLE part     \* the module a behaviour is one of

ASSUME CooldownAssumption /\ ImportAssumption

MCInit ==
  /\ part \in {"exports", "echo", "inbound"}
  /\ Init /\ EchoInit /\ InboundInit
  /\ part # "echo" => state = CHOOSE v \in Value : TRUE

MCNext ==
  \/ part = "exports" /\ Next /\ UNCHANGED <<part, echoVars, inboundVars>>
  \/ part = "echo" /\ EchoNext /\ UNCHANGED <<part, vars, inboundVars>>
  \/ part = "inbound" /\ InboundNext /\ UNCHANGED <<part, vars, echoVars>>

MCSpec == MCInit /\ [][MCNext]_<<part, vars, echoVars, inboundVars>>

Symmetry == Permutations(Call)

===============================================================================
