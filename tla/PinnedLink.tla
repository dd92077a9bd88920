------------------------------ MODULE PinnedLink ------------------------------
(***************************************************************************)
(* What a real-time link promises the rest of the integration: it reports  *)
(* no connection once it was stopped, and it is never connected to a host  *)
(* whose key is not the one it trusts.                                     *)
(***************************************************************************)
CONSTANTS Key, None

VARIABLES
  on,       \* the link was started and not stopped
  up,       \* the key of the host it says it is connected to, or None
  trusted   \* the key it trusts, or None before the first use

linkVars == <<on, up, trusted>>

Init == on = FALSE /\ up = None /\ trusted = None

Start == ~on /\ on' = TRUE /\ UNCHANGED <<up, trusted>>

Trust(k) == on /\ trusted = None /\ trusted' = k /\ UNCHANGED <<on, up>>

Up(k) == on /\ up = None /\ trusted \in {None, k} /\ up' = k /\ UNCHANGED <<on, trusted>>

Down == up' = None /\ UNCHANGED <<on, trusted>>

Stop == on' = FALSE /\ up' = None /\ UNCHANGED trusted

(* The user has the key forgotten. *)
Forget == trusted' = None /\ UNCHANGED <<on, up>>

Next == Start \/ (\E k \in Key : Trust(k) \/ Up(k)) \/ Down \/ Stop \/ Forget

Spec == Init /\ [][Next]_linkVars
===============================================================================
