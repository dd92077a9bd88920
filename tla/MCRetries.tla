------------------------------- MODULE MCRetries -------------------------------
(***************************************************************************)
(* Instances for TLC of what is timed, repeated or converted on the way to *)
(* the bridge: the delays of the reconnect loop (ReconnectBackoff), the    *)
(* requests to the web API (WebRequests), the packet times a poll of it    *)
(* brings (PacketInterval), levels and names (Levels).  They share no      *)
(* variable, so a behaviour is one of one of them.                         *)
(***************************************************************************)
EXTENDS ReconnectBackoff, WebRequests, PacketInterval, Levels, TLC

VARIABLE part     \* the module a behaviour is one of

(* Every whole percent, and levels between. *)
Level == {10 * n : n \in 0..100} \union {3, 14, 337, 996}

ASSUME WebAssumption /\ RadioAssumption /\ LevelsAssumption

MCInit ==
  /\ part \in {"backoff", "requests", "radio", "levels"}
  /\ Init /\ WebInit /\ RadioInit /\ LevelsInit
  /\ part # "radio" => listed
  /\ part # "levels" => subject = "export"

MCNext ==
  \/ /\ part = "backoff" /\ Next
     /\ UNCHANGED <<part, webVars, radioVars, levelVars>>
  \/ /\ part = "requests" /\ WebNext
     /\ UNCHANGED <<part, vars, radioVars, levelVars>>
  \/ /\ part = "radio" /\ RadioNext
     /\ UNCHANGED <<part, vars, webVars, levelVars>>
  \/ /\ part = "levels" /\ LevelsNext
     /\ UNCHANGED <<part, vars, webVars, radioVars>>

MCSpec ==
  MCInit /\ [][MCNext]_<<part, vars, webVars, radioVars, levelVars>>

Symmetry == Permutations(Thread)

===============================================================================
