--------------------------- MODULE BridgeLink_proofs ---------------------------
(***************************************************************************)
(* The bridge client, for any set of host keys and any delays: its type,   *)
(* its back-off, and that it implements PinnedLink.                        *)
(***************************************************************************)
EXTENDS BridgeLink, TLAPS

(* The sleep that follows the last one when no session was healthy. *)
Following == IF waited = 0 THEN ReconnectMin ELSE AtMost(waited * 2, ReconnectMax)

(* The delay of the next sleep, wherever the run task stands. *)
DelayInv ==
  \/ delay = Following
  \/ at \in {"sleep", "done"} /\ sessionStarted /\ healthy

(* Only a session has a peer, whose key is the pinned one; what entry.data *)
(* holds is what the client has pinned, or nothing.                        *)
PinInv ==
  /\ connected => at \in {"read", "exit"}
  /\ at \in {"open", "read"} => peer # None
  /\ connected => peer # None
  /\ peer # None => peer = pinnedHostKey
  /\ savedHostKey \in {None, pinnedHostKey}

Inv == LinkTypeOK /\ DelayInv /\ PinInv

USE DEF Await

LEMMA AtMostIsBounded ==
  ASSUME NEW n \in Nat, NEW bound \in Nat
  PROVE  AtMost(n, bound) \in Nat /\ AtMost(n, bound) <= bound /\ AtMost(n, bound) <= n
BY DEF AtMost

(* Doubling keeps the delay within its bounds. *)
LEMMA DoubleIsADelay ==
  ASSUME NEW d \in ReconnectMin..ReconnectMax
  PROVE  AtMost(d * 2, ReconnectMax) \in ReconnectMin..ReconnectMax
BY DelayAssumption DEF AtMost

LEMMA FirstValues ==
  /\ 0 \in 0..MaxFailed /\ 0 \in 0..2 /\ 0 \in 0..ReconnectMax
  /\ ReconnectMin \in ReconnectMin..ReconnectMax
BY DelayAssumption, WarnAssumption

-------------------------------------------------------------------------------
LEMMA InitInv ==
  ASSUME LinkInit PROVE Inv
<1>1. LinkTypeOK
  BY FirstValues DEF LinkInit, LinkTypeOK
<1>2. DelayInv /\ PinInv
  BY DEF LinkInit, DelayInv, Following, PinInv
<1> QED
  BY <1>1, <1>2 DEF Inv

LEMMA AttemptEndsKeeps ==
  ASSUME Inv, NEW warnings \in {0, 1}, AttemptEnds(warnings), ~closing,
         at \in {"connect", "exit"}
  PROVE  Inv'
<1>1. failedAttempts' \in 0..MaxFailed /\ linkWarned' \in BOOLEAN
  BY WarnAssumption DEF AttemptEnds, LogLinkDown, Inv, LinkTypeOK, AtMost
<1>2. alarms' \in 0..2
  BY DEF AttemptEnds, LogLinkDown, Inv, LinkTypeOK, AtMost
<1>3. delay' \in ReconnectMin..ReconnectMax
  BY DelayAssumption DEF AttemptEnds, NextDelay, Inv, LinkTypeOK
<1>4. LinkTypeOK'
  BY <1>1, <1>2, <1>3 DEF AttemptEnds, Inv, LinkTypeOK, sessionVars, keyVars
<1>5. DelayInv'
  BY DEF AttemptEnds, NextDelay, Inv, DelayInv, Following, sessionVars
<1>6. PinInv'
  BY DEF AttemptEnds, Inv, PinInv, keyVars
<1> QED
  BY <1>4, <1>5, <1>6 DEF Inv

LEMMA WakeUpKeeps ==
  ASSUME Inv, WakeUp PROVE Inv'
<1>1. delay \in ReconnectMin..ReconnectMax /\ delay # 0 /\ delay \in 0..ReconnectMax
  BY DelayAssumption DEF Inv, LinkTypeOK
<1>2. delay' \in ReconnectMin..ReconnectMax
  BY <1>1, DoubleIsADelay DEF WakeUp
<1>3. LinkTypeOK'
  BY <1>1, <1>2 DEF WakeUp, Attempt, Inv, LinkTypeOK, outageVars, keyVars
<1>4. DelayInv'
  BY <1>1 DEF WakeUp, DelayInv, Following
<1>5. PinInv'
  BY DEF WakeUp, Attempt, Inv, PinInv, keyVars
<1> QED
  BY <1>3, <1>4, <1>5 DEF Inv

LEMMA ReloadKeeps ==
  ASSUME Inv, Reload PROVE Inv'
<1>1. LinkTypeOK'
  BY FirstValues DEF Reload, NewClient, Inv, LinkTypeOK
<1>2. DelayInv' /\ PinInv'
  BY DEF Reload, NewClient, DelayInv, Following, PinInv
<1> QED
  BY <1>1, <1>2 DEF Inv

(* The steps of a session. *)
LEMMA SessionKeeps ==
  ASSUME Inv, Start \/ Authenticated \/ SessionOpened \/ SessionEnds PROVE Inv'
<1>1. LinkTypeOK'
  BY FirstValues
  DEF Inv, LinkTypeOK, Start, Attempt, Authenticated, SessionOpened, SessionEnds,
      sessionVars, outageVars, delayVars, keyVars
<1>2. DelayInv'
  BY DEF Inv, DelayInv, Following, Start, Attempt, Authenticated, SessionOpened,
     SessionEnds, sessionVars, delayVars
<1>3. PinInv'
  BY KeyAssumption
  DEF Inv, LinkTypeOK, PinInv, Start, Attempt, Authenticated, SessionOpened,
      SessionEnds, keyVars
<1> QED
  BY <1>1, <1>2, <1>3 DEF Inv

(* Stopping, and what happens around the client. *)
LEMMA SurroundingsKeep ==
  ASSUME Inv,
         Stop \/ Cancelled \/ ForgetHostKey \/ HostKeyChanges \/ TimePasses
         \/ UNCHANGED linkVars
  PROVE  Inv'
<1>1. LinkTypeOK'
  BY DEF Inv, LinkTypeOK, Stop, Cancelled, ForgetHostKey, HostKeyChanges, TimePasses,
     linkVars, sessionVars, outageVars, delayVars, keyVars
<1>2. DelayInv'
  BY DEF Inv, DelayInv, Following, Stop, Cancelled, ForgetHostKey, HostKeyChanges,
     TimePasses, linkVars, sessionVars, delayVars
<1>3. PinInv'
  BY DEF Inv, PinInv, Stop, Cancelled, ForgetHostKey, HostKeyChanges, TimePasses,
     linkVars, keyVars
<1> QED
  BY <1>1, <1>2, <1>3 DEF Inv

(* The inductive invariant of the bridge client: types, back-off and pins. *)
THEOREM BridgeInvariance == LinkSpec => []Inv
<1>1. LinkInit => Inv
  BY InitInv
<1>2. Inv /\ [LinkNext]_linkVars => Inv'
  <2> SUFFICES ASSUME Inv, [LinkNext]_linkVars PROVE Inv'
    OBVIOUS
  <2>1. CASE ConnectFails \/ HostKeyRejected \/ Exited
    BY <2>1, AttemptEndsKeeps DEF ConnectFails, HostKeyRejected, Exited
  <2> QED
    BY <2>1, SessionKeeps, WakeUpKeeps, ReloadKeeps, SurroundingsKeep
    DEF LinkNext, RunStep
<1> QED
  BY <1>1, <1>2, PTL DEF LinkSpec

(* Delays, counters and pins stay in their ranges, whatever the constants  *)
(* of _run are.                                                            *)
THEOREM BridgeTyping == LinkSpec => []LinkTypeOK
<1>1. Inv => LinkTypeOK
  BY DEF Inv
<1> QED
  BY <1>1, BridgeInvariance, PTL

(* A tunnel that keeps dropping is retried ever more slowly, for any       *)
(* minimum and maximum of the delay.                                       *)
THEOREM Backoff == LinkSpec => []NoStorm
<1>1. Inv => NoStorm
  BY DEF Inv, DelayInv, Following, NoStorm
<1> QED
  BY <1>1, BridgeInvariance, PTL

-------------------------------------------------------------------------------
(* Every step of the client is a step of the abstract link, or none. *)
LEMMA StepsRefine ==
  ASSUME Inv, [LinkNext]_linkVars PROVE [Link!Next]_(Link!linkVars)
<1> USE DEF Link!linkVars, Link!Next
<1>1. CASE Start
  BY <1>1 DEF Inv, PinInv, Start, Attempt, keyVars, Link!Start
<1>2. CASE Authenticated
  <2>1. pinnedHostKey' = hostKey /\ savedHostKey \in {None, hostKey} /\ hostKey \in Key
    BY <1>2 DEF Authenticated, Inv, PinInv, LinkTypeOK
  <2>2. ~connected /\ ~connected' /\ at = "connect" /\ at' = "open"
    BY <1>2 DEF Authenticated, Inv, PinInv
  <2>3. savedHostKey' = savedHostKey \/ (savedHostKey = None /\ savedHostKey' = hostKey)
    BY <1>2, <2>1 DEF Authenticated, Inv, PinInv
  <2> QED
    BY <2>1, <2>2, <2>3 DEF Link!Trust
<1>3. CASE SessionOpened
  <2>1. peer \in Key /\ savedHostKey \in {None, peer}
    BY <1>3 DEF SessionOpened, Inv, PinInv, LinkTypeOK
  <2>2. ~connected /\ connected' /\ UNCHANGED <<savedHostKey, peer>>
    BY <1>3 DEF SessionOpened, Inv, PinInv, keyVars
  <2> QED
    BY <1>3, <2>1, <2>2 DEF SessionOpened, Link!Up
<1>4. CASE ConnectFails \/ HostKeyRejected \/ Exited
  BY <1>4 DEF ConnectFails, HostKeyRejected, Exited, AttemptEnds, keyVars, Link!Down
<1>5. CASE SessionEnds
  BY <1>5 DEF SessionEnds, keyVars
<1>6. CASE WakeUp
  BY <1>6 DEF WakeUp, Attempt, keyVars
<1>7. CASE Cancelled
  BY <1>7 DEF Cancelled, keyVars, Link!Stop
<1>8. CASE Reload
  BY <1>8 DEF Reload, NewClient, Inv, PinInv
<1>9. CASE ForgetHostKey
  BY <1>9 DEF ForgetHostKey, Link!Forget
<1>10. CASE Stop \/ HostKeyChanges \/ TimePasses \/ UNCHANGED linkVars
  BY <1>10 DEF Stop, HostKeyChanges, TimePasses, linkVars, keyVars
<1> QED
  BY <1>1, <1>2, <1>3, <1>4, <1>5, <1>6, <1>7, <1>8, <1>9, <1>10 DEF LinkNext, RunStep

(* The client implements PinnedLink: stopped it reports no connection, and *)
(* it is connected to no host but the one whose key was saved.             *)
THEOREM BridgeRefinement == LinkSpec => ImplementsPinnedLink
<1>1. LinkInit => Link!Init
  BY DEF LinkInit, Link!Init
<1>2. Inv /\ [LinkNext]_linkVars => [Link!Next]_(Link!linkVars)
  BY StepsRefine
<1> QED
  BY <1>1, <1>2, BridgeInvariance, PTL DEF LinkSpec, ImplementsPinnedLink, Link!Spec
===============================================================================
