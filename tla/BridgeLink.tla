------------------------------ MODULE BridgeLink ------------------------------
(***************************************************************************)
(* The bridge-API client (bridge_client.py): one task that connects        *)
(* through SSH, streams pushes until the session ends, waits and tries     *)
(* again, and async_stop, which cancels it.  One action stands for the     *)
(* code from one await to the next; a cancellation is delivered at the     *)
(* await the task is suspended at, so nothing but that follows `closing'.  *)
(*                                                                         *)
(* The set-up code around it keeps the host key of the first session in    *)
(* entry.data, from which a reload makes a client of the same state anew.  *)
(***************************************************************************)
EXTENDS NoValue, Naturals

CONSTANTS
  Key,           \* host keys
  ReconnectMin,  \* RECONNECT_MIN_SECONDS
  ReconnectMax,  \* RECONNECT_MAX_SECONDS
  WarnAt,        \* LINK_DOWN_WARNING_ATTEMPTS
  MaxFailed      \* bound: failed attempts are counted up to here

ASSUME KeyAssumption == None \notin Key
ASSUME DelayAssumption ==
  /\ ReconnectMin \in Nat \ {0} /\ ReconnectMax \in Nat
  /\ ReconnectMin <= ReconnectMax
ASSUME WarnAssumption == WarnAt \in Nat \ {0} /\ MaxFailed \in Nat /\ WarnAt <= MaxFailed

VARIABLES
  at,              \* the await the run task is suspended at
  closing,         \* self._closing
  connected,       \* self._connected
  sessionStarted,  \* self._session_started
  healthy,         \* HEALTHY_SESSION_SECONDS have passed since started_at
  failedAttempts,  \* self._failed_attempts
  linkWarned,      \* self._link_warned
  delay,           \* delay
  pinnedHostKey,   \* self._pinned_host_key
  savedHostKey,    \* CONF_SSH_HOST_KEY in entry.data
  hostKey,         \* the key the host presents at present
  peer,            \* the key of the host the session is with, or None
  waited,          \* how long the task slept last, 0 before the first time
  alarms           \* warnings logged since the link was last connected

sessionVars == <<sessionStarted, healthy>>
outageVars == <<failedAttempts, linkWarned, alarms>>
delayVars == <<delay, waited>>
keyVars == <<pinnedHostKey, savedHostKey>>
linkVars == <<at, closing, connected, sessionVars, outageVars, delayVars, keyVars,
              hostKey, peer>>

(* Mutant of AtMost: the maximum is forgotten. *)
AtMostUnbounded(n, bound) == n

AtMost(n, bound) == IF n <= bound THEN n ELSE bound

Await == {"connect", "open", "read", "exit"}

LinkTypeOK ==
  /\ at \in {"off", "done", "sleep"} \union Await
  /\ closing \in BOOLEAN /\ connected \in BOOLEAN
  /\ sessionStarted \in BOOLEAN /\ healthy \in BOOLEAN
  /\ failedAttempts \in 0..MaxFailed
  /\ linkWarned \in BOOLEAN
  /\ delay \in ReconnectMin..ReconnectMax
  /\ waited \in 0..ReconnectMax
  /\ pinnedHostKey \in Key \union {None} /\ savedHostKey \in Key \union {None}
  /\ hostKey \in Key
  /\ peer \in Key \union {None}
  /\ alarms \in 0..2

(* __init__, and the locals of _run *)
NewClient(pin) ==
  /\ at' = "off" /\ closing' = FALSE /\ connected' = FALSE
  /\ sessionStarted' = FALSE /\ healthy' = FALSE
  /\ failedAttempts' = 0 /\ linkWarned' = FALSE /\ alarms' = 0
  /\ delay' = ReconnectMin /\ waited' = 0
  /\ pinnedHostKey' = pin
  /\ peer' = None

LinkInit ==
  /\ at = "off" /\ closing = FALSE /\ connected = FALSE
  /\ sessionStarted = FALSE /\ healthy = FALSE
  /\ failedAttempts = 0 /\ linkWarned = FALSE /\ alarms = 0
  /\ delay = ReconnectMin /\ waited = 0
  /\ pinnedHostKey = None /\ savedHostKey = None
  /\ hostKey \in Key
  /\ peer = None

-------------------------------------------------------------------------------
(* async_start, and each turn of the loop of _run *)
Attempt ==
  /\ at' = "connect"
  /\ sessionStarted' = FALSE
  /\ healthy' = FALSE

Start ==
  /\ at = "off" /\ ~closing
  /\ Attempt
  /\ UNCHANGED <<closing, connected, outageVars, delayVars, keyVars, hostKey, peer>>

(* The host key is known and accepted; the first one is remembered, and    *)
(* handed to the set-up code, which saves it.                              *)
Authenticated ==
  /\ at = "connect" /\ ~closing
  /\ pinnedHostKey \in {None, hostKey}
  /\ at' = "open"
  /\ peer' = hostKey
  /\ pinnedHostKey' = hostKey
  /\ savedHostKey' = IF pinnedHostKey = None THEN hostKey ELSE savedHostKey
  /\ UNCHANGED <<closing, connected, sessionVars, outageVars, delayVars, hostKey>>

SessionOpened ==
  /\ at = "open" /\ ~closing
  /\ at' = "read"
  /\ sessionStarted' = TRUE
  /\ connected' = TRUE
  /\ failedAttempts' = 0 /\ linkWarned' = FALSE /\ alarms' = 0
  /\ UNCHANGED <<closing, healthy, delayVars, keyVars, hostKey, peer>>

-------------------------------------------------------------------------------
(* What is logged when an attempt has ended: at most a warning of the      *)
(* exception it ended with and one of link_down_log_level.                 *)
LogLinkDown(warnings) ==
  LET failed == AtMost(failedAttempts + 1, MaxFailed)
      warns == ~linkWarned /\ failed >= WarnAt
  IN /\ failedAttempts' = failed
     /\ linkWarned' = (linkWarned \/ failed >= WarnAt)
     /\ alarms' = AtMost(alarms + warnings + (IF warns THEN 1 ELSE 0), 2)

(* Mutant of NextDelay: any session that opened resets the delay. *)
NextDelayOfAnySession == IF sessionStarted THEN ReconnectMin ELSE delay

NextDelay == IF sessionStarted /\ healthy THEN ReconnectMin ELSE delay

(* The rest of the turn, from the finally block to the sleep. *)
AttemptEnds(warnings) ==
  /\ connected' = FALSE
  /\ peer' = None
  /\ LogLinkDown(warnings)
  /\ delay' = NextDelay
  /\ at' = "sleep"
  /\ UNCHANGED <<closing, sessionVars, waited, keyVars, hostKey>>

ConnectFails == at = "connect" /\ ~closing /\ AttemptEnds(1)

(* Mutant of HostKeyRejected: the run loop is left for good. *)
HostKeyRejectedForGood ==
  /\ at = "connect" /\ ~closing
  /\ pinnedHostKey \notin {None, hostKey}
  /\ at' = "done"
  /\ UNCHANGED <<closing, connected, sessionVars, outageVars, delayVars, keyVars,
                 hostKey, peer>>

HostKeyRejected ==
  /\ at = "connect" /\ ~closing
  /\ pinnedHostKey \notin {None, hostKey}
  /\ AttemptEnds(0)

(* The session ends, by an exception or by the end of its stream, and the  *)
(* SSH connection is closed, which is another await.                       *)
SessionEnds ==
  /\ at \in {"open", "read"}
  /\ at' = "exit"
  /\ UNCHANGED <<closing, connected, sessionVars, outageVars, delayVars, keyVars,
                 hostKey, peer>>

Exited ==
  /\ at = "exit" /\ ~closing
  /\ \/ AttemptEnds(1)
     \/ sessionStarted /\ AttemptEnds(0)

WakeUp ==
  /\ at = "sleep" /\ ~closing
  /\ waited' = delay
  /\ delay' = AtMost(delay * 2, ReconnectMax)
  /\ Attempt
  /\ UNCHANGED <<closing, connected, outageVars, keyVars, hostKey, peer>>

-------------------------------------------------------------------------------
(* async_stop: it cancels the task and waits for it. *)
Stop ==
  /\ at # "off" /\ ~closing
  /\ closing' = TRUE
  /\ UNCHANGED <<at, connected, sessionVars, outageVars, delayVars, keyVars,
                 hostKey, peer>>

(* CancelledError passes through the finally block of _run; a session is   *)
(* left by SessionEnds first.                                              *)
Cancelled ==
  /\ closing /\ at \in {"connect", "exit", "sleep"}
  /\ at' = "done"
  /\ connected' = FALSE
  /\ peer' = None
  /\ UNCHANGED <<closing, sessionVars, outageVars, delayVars, keyVars, hostKey>>

-------------------------------------------------------------------------------
(* Mutant of Reload: the saved key does not reach the new client. *)
ReloadWithoutKey ==
  /\ at = "done"
  /\ NewClient(None)
  /\ UNCHANGED <<savedHostKey, hostKey>>

(* The entry is set up again. *)
Reload ==
  /\ at = "done"
  /\ NewClient(savedHostKey)
  /\ UNCHANGED <<savedHostKey, hostKey>>

(* The options flow removes the key from entry.data and reloads the entry. *)
ForgetHostKey ==
  /\ savedHostKey' = None
  /\ UNCHANGED <<at, closing, connected, sessionVars, outageVars, delayVars,
                 pinnedHostKey, hostKey, peer>>

HostKeyChanges ==
  /\ hostKey' \in Key
  /\ UNCHANGED <<at, closing, connected, sessionVars, outageVars, delayVars,
                 keyVars, peer>>

TimePasses ==
  /\ at \in Await
  /\ healthy' = TRUE
  /\ UNCHANGED <<at, closing, connected, sessionStarted, outageVars, delayVars,
                 keyVars, hostKey, peer>>

RunStep == SessionEnds \/ Exited \/ WakeUp \/ Cancelled

LinkNext ==
  \/ Start \/ Authenticated \/ SessionOpened \/ ConnectFails \/ HostKeyRejected
  \/ RunStep \/ Stop \/ Reload \/ ForgetHostKey \/ HostKeyChanges \/ TimePasses

LinkSpec == LinkInit /\ [][LinkNext]_linkVars

(* Attempts and sleeps come to an end, and a host that keeps being asked   *)
(* accepts a connection in the end.                                        *)
LinkFairness ==
  /\ WF_linkVars(ConnectFails \/ HostKeyRejected)
  /\ WF_linkVars(Exited) /\ WF_linkVars(WakeUp)
  /\ SF_linkVars(Authenticated) /\ SF_linkVars(SessionOpened)

-------------------------------------------------------------------------------
(* Properties                                                              *)

(* A tunnel that opens and drops at once is tried ever more slowly: unless *)
(* the last session lived HEALTHY_SESSION_SECONDS, the next sleep is twice *)
(* the last one, up to the maximum.                                        *)
NoStorm ==
  at = "sleep" /\ ~(sessionStarted /\ healthy) =>
    delay = IF waited = 0 THEN ReconnectMin ELSE AtMost(waited * 2, ReconnectMax)

(* The link to the rest of the integration: PinnedLink as a function of    *)
(* the client's state.                                                     *)
Link == INSTANCE PinnedLink WITH
  on <- at \notin {"off", "done"},
  up <- IF connected THEN peer ELSE None,
  trusted <- savedHostKey

(* No status is reported after async_stop, and no session, reloads of the  *)
(* entry included, runs over a key other than the first one, until the     *)
(* user has that forgotten.                                                *)
ImplementsPinnedLink == Link!Spec

(* A drop raises no alarm before a reconnect has failed, and an outage one. *)
CalmOutage == alarms <= (IF failedAttempts >= WarnAt THEN 1 ELSE 0)

(* A client that runs always gets its session back, unless the host        *)
(* presents another key than the pinned one.                               *)
LinkRestored ==
  []<>(connected \/ closing \/ at = "off" \/ pinnedHostKey \notin {None, hostKey})
===============================================================================
