--------------------------- MODULE ReconnectBackoff ---------------------------
(***************************************************************************)
(* How long the reconnect loop of the coordinator waits (coordinator.py):  *)
(* reconnect_throttle before its first attempt, a doubling delay between   *)
(* the others.  Time passes in ticks, and ages are counted up to           *)
(* HEALTHY_SESSION_SECONDS, beyond which nothing depends on them.          *)
(*                                                                         *)
(* The loop is not alone: a task that forwards a state reconnects as well, *)
(* whatever the loop waits for.  Which tasks there are and how they meet   *)
(* inside the client is the subject of Plan44Coordinator; here a           *)
(* connection is up or down and async_connect succeeds or fails at once.   *)
(***************************************************************************)
EXTENDS Integers

CONSTANTS
  Healthy,   \* HEALTHY_SESSION_SECONDS, in ticks
  MaxDelay,  \* MAX_RECONNECT_DELAY_SECONDS, in ticks
  Base,      \* base_delay = max(1, self._reconnect_interval), in ticks
  Never      \* the value of _last_connect_at before the loop has connected

ASSUME BackoffAssumption ==
  /\ Healthy \in Nat \ {0} /\ MaxDelay \in Nat \ {0} /\ Base \in Nat \ {0}
  /\ Never \notin Nat

VARIABLES
  up,          \* client.is_connected
  age,         \* how long the connection has been up
  bySetup,     \* it is the one async_initialize opened
  lived,       \* how long ago _last_connect_at was, or Never
  shortDelay,  \* self._short_session_delay
  loop,        \* what _async_reconnect_loop does
  delay,       \* delay
  timer        \* what is left of its sleep

vars == <<up, age, bySetup, lived, shortDelay, loop, delay, timer>>

AtMost(n, bound) == IF n <= bound THEN n ELSE bound

Longest == IF Base <= MaxDelay THEN MaxDelay ELSE Base

BackoffTypeOK ==
  /\ up \in BOOLEAN
  /\ age \in 0..Healthy
  /\ bySetup \in BOOLEAN
  /\ lived \in 0..Healthy \union {Never}
  /\ shortDelay \in 0..Longest
  /\ loop \in {"done", "throttle", "connect", "retry"}
  /\ delay \in 1..Longest
  /\ timer \in 0..Longest

Init ==
  /\ up = TRUE /\ age = 0 /\ bySetup = TRUE
  /\ lived = Never
  /\ shortDelay = 0
  /\ loop = "done" /\ delay = Base /\ timer = 0

-------------------------------------------------------------------------------
(* Mutant of ReconnectThrottle: the doubling has no maximum. *)
ThrottleUnbounded(lastDelay) ==
  IF lived = Never THEN 0
  ELSE IF lived >= Healthy THEN 0
  ELSE IF lastDelay <= 0 THEN Base ELSE lastDelay * 2

(* reconnect_throttle *)
ReconnectThrottle(lastDelay) ==
  IF lived = Never THEN 0
  ELSE IF lived >= Healthy THEN 0
  ELSE IF lastDelay <= 0 THEN Base ELSE AtMost(lastDelay * 2, MaxDelay)

(* The connection is lost; async_handle_disconnect starts a loop unless    *)
(* there is one.                                                           *)
Drop ==
  /\ up
  /\ up' = FALSE
  /\ IF loop = "done"
     THEN /\ shortDelay' = ReconnectThrottle(shortDelay)
          /\ timer' = shortDelay'
          /\ loop' = IF shortDelay' = 0 THEN "connect" ELSE "throttle"
          /\ delay' = Base
     ELSE UNCHANGED <<shortDelay, timer, loop, delay>>
  /\ UNCHANGED <<age, bySetup, lived>>

ThrottleOver ==
  /\ loop = "throttle" /\ timer = 0
  /\ loop' = "connect"
  /\ UNCHANGED <<up, age, bySetup, lived, shortDelay, delay, timer>>

(* Mutant of ConnectSucceeds: the time is taken by a loop that connects,   *)
(* not by one that finds the client connected.                             *)
ConnectSucceedsUnrecorded ==
  /\ loop = "connect"
  /\ loop' = "done"
  /\ up' = TRUE
  /\ \/ up /\ UNCHANGED <<age, bySetup, lived>>
     \/ age' = 0 /\ bySetup' = FALSE /\ lived' = 0
  /\ UNCHANGED <<shortDelay, delay, timer>>

(* async_connect returns, at once if another task has connected before;    *)
(* one that connects meanwhile is replaced.                                *)
ConnectSucceeds ==
  /\ loop = "connect"
  /\ loop' = "done"
  /\ up' = TRUE
  /\ \/ up /\ UNCHANGED <<age, bySetup>>
     \/ age' = 0 /\ bySetup' = FALSE
  /\ lived' = 0
  /\ UNCHANGED <<shortDelay, delay, timer>>

ConnectFails ==
  /\ loop = "connect" /\ ~up
  /\ loop' = "retry"
  /\ timer' = delay
  /\ UNCHANGED <<up, age, bySetup, lived, shortDelay, delay>>

Retry ==
  /\ loop = "retry" /\ timer = 0
  /\ loop' = "connect"
  /\ delay' = AtMost(delay * 2, MaxDelay)
  /\ UNCHANGED <<up, age, bySetup, lived, shortDelay, timer>>

(* async_ensure_connected of a forward *)
ForwardConnects ==
  /\ ~up
  /\ up' = TRUE /\ age' = 0 /\ bySetup' = FALSE
  /\ UNCHANGED <<lived, shortDelay, loop, delay, timer>>

Tick ==
  /\ ~(loop = "connect" /\ up)
  /\ age' = AtMost(age + 1, Healthy)
  /\ lived' = IF lived = Never THEN Never ELSE AtMost(lived + 1, Healthy)
  /\ timer' = IF timer = 0 THEN 0 ELSE timer - 1
  /\ UNCHANGED <<up, bySetup, shortDelay, loop, delay>>

Next ==
  \/ Drop \/ ThrottleOver \/ ConnectSucceeds \/ ConnectFails \/ Retry
  \/ ForwardConnects \/ Tick

Spec == Init /\ [][Next]_vars

-------------------------------------------------------------------------------
(* Properties                                                              *)

(* A connection that was dropped before it had been up for Healthy ticks   *)
(* is never answered by a connect at once, with the one exception of the   *)
(* connection set-up opened: connect and drop cannot spin.                 *)
ShortIsThrottled ==
  [][Drop /\ loop = "done" /\ age < Healthy /\ ~bySetup => loop' = "throttle"]_vars
===============================================================================
