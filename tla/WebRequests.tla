------------------------------ MODULE WebRequests ------------------------------
(***************************************************************************)
(* Service calls of imported lights and of the identify button, and the    *)
(* queries of the polls, as requests to the web API (web_client.py).  The  *)
(* calls run in executor threads, so several may be under way at once, for *)
(* one lamp too; a request is repeated when the connection fails, whether  *)
(* or not the bridge has executed it by then.                              *)
(*                                                                         *)
(* Left out: how long a thread sleeps between attempts; a request that the *)
(* bridge executes after the client has given it up.                       *)
(***************************************************************************)
EXTENDS NoValue, FiniteSets, Naturals, SequencesExt

CONSTANTS
  Thread,     \* a service call or query each
  Channel,    \* of the lamp: brightness, colortemp, ...
  Attempts    \* _REQUEST_ATTEMPTS

WebAssumption ==
  None \notin Thread /\ Attempts \in Nat \ {0} /\ IsFiniteSet(Channel)

VARIABLES
  asked,      \* the channels a call is to set
  queue,      \* the requests it has still to get answered
  at,         \* where it is within _request_once, or how it has ended
  failures,   \* `attempt', the failed attempts
  strikes,    \* how often the first of its requests has failed
  light,      \* whose value the lamp has taken over, by channel
  pending,    \* whose value waits for an apply_now at the bridge
  alone,      \* the call that found the lamp at rest and has run alone
  final       \* the calls that met a failure no retry can mend

webVars == <<asked, queue, at, failures, strikes, light, pending, alone, final>>

Request == [chs : SUBSET Channel, apply : BOOLEAN]
Running == {"token", "vdc", "reply"}
Untouched == [ch \in Channel |-> None]
Busy(c) == at[c] \in Running

WebTypeOK ==
  /\ asked \in [Thread -> SUBSET Channel]
  /\ queue \in [Thread -> Seq(Request)]
  /\ at \in [Thread -> Running \union {"idle", "ok", "error"}]
  /\ {failures, strikes} \subseteq [Thread -> 0..Attempts]
  /\ \A c \in Thread : Busy(c) => queue[c] # <<>> /\ failures[c] < Attempts
  /\ {light, pending} \subseteq [Channel -> Thread \union {None}]
  /\ alone \in Thread \union {None} /\ final \in SUBSET Thread

WebInit ==
  /\ asked = [c \in Thread |-> {}] /\ queue = [c \in Thread |-> <<>>]
  /\ at = [c \in Thread |-> "idle"]
  /\ failures = [c \in Thread |-> 0] /\ strikes = failures
  /\ light = Untouched /\ pending = Untouched
  /\ alone = None /\ final = {}

(* Mutant of ApplyNow: the first channel applies, not the last. *)
ApplyFirst(i, n) == i = 1

(* Mutant of ApplyNow: each channel is applied at once. *)
ApplyEach(i, n) == TRUE

ApplyNow(i, n) == i = n

(* _set_channels_sync: a fade takes a notification for each channel.  No    *)
(* channel at all stands for identify and for the queries.                 *)
Requests(chs, fade) ==
  IF fade
  THEN LET order == SetToSeq(chs)
       IN [i \in 1..Len(order) |->
             [chs |-> {order[i]}, apply |-> ApplyNow(i, Len(order))]]
  ELSE <<[chs |-> chs, apply |-> chs # {}]>>

Start(c, chs, fade) ==
  /\ at[c] = "idle"
  /\ fade => chs # {}
  /\ asked' = [asked EXCEPT ![c] = chs]
  /\ queue' = [queue EXCEPT ![c] = Requests(chs, fade)]
  /\ at' = [at EXCEPT ![c] = "token"]
  /\ alone' = IF pending = Untouched /\ \A d \in Thread : ~Busy(d) THEN c ELSE None
  /\ UNCHANGED <<failures, strikes, light, pending, final>>

(* /tok/json has answered; 404 means that no token is needed. *)
TokenAnswered(c) ==
  /\ at[c] = "token"
  /\ at' = [at EXCEPT ![c] = "vdc"]
  /\ UNCHANGED <<asked, queue, failures, strikes, light, pending, alone, final>>

(* A notification stores its channel's value; apply_now applies the stored. *)
Executed(c) ==
  /\ at[c] = "vdc"
  /\ at' = [at EXCEPT ![c] = "reply"]
  /\ LET request == Head(queue[c])
         stored == [ch \in Channel |-> IF ch \in request.chs THEN c ELSE pending[ch]]
     IN IF request.apply
        THEN /\ light' = [ch \in Channel |->
                            IF stored[ch] = None THEN light[ch] ELSE stored[ch]]
             /\ pending' = Untouched
        ELSE pending' = stored /\ UNCHANGED light
  /\ UNCHANGED <<asked, queue, failures, strikes, alone, final>>

(* Mutant of Fresh: the attempts are those of the call, not of the request. *)
Worn(c) == UNCHANGED failures

Fresh(c) == failures' = [failures EXCEPT ![c] = 0]

Answered(c) ==
  /\ at[c] = "reply"
  /\ queue' = [queue EXCEPT ![c] = Tail(@)]
  /\ at' = [at EXCEPT ![c] = IF queue'[c] = <<>> THEN "ok" ELSE "token"]
  /\ Fresh(c) /\ strikes' = [strikes EXCEPT ![c] = 0]
  /\ UNCHANGED <<asked, light, pending, alone, final>>

-------------------------------------------------------------------------------
(* What goes wrong in an attempt, and what _request_once makes of it       *)

(* The connection is refused, reset or timed out, or the body is no JSON;   *)
(* the certificate is not the expected one; TLS fails within a reply; the  *)
(* server answers with an error status, with too much, or not in UTF-8.    *)
Fault == {"dropped", "certificate", "tls", "status", "oversized", "garbled"}

Possible(stage) ==
  CASE stage = "token" -> Fault
    [] stage = "vdc" -> {"dropped", "certificate", "status"}
    [] stage = "reply" -> {"dropped", "tls", "oversized", "garbled"}

(* Faults no retry mends.  urllib wraps what a handshake raises in an       *)
(* URLError, and its HTTPError is an OSError as well; _request_once turns  *)
(* only that of the token request into a Plan44WebApiError.  Nothing       *)
(* catches the UnicodeDecodeError of a garbled body.                       *)
Final == Fault \ {"dropped"}

IsOSError(stage, fault) ==
  fault \in {"dropped", "certificate"} \/ (fault = "status" /\ stage # "token")

(* Mutant of LastAttempt: one attempt too many. *)
LastAttemptLate(c) == failures[c] = Attempts

LastAttempt(c) == failures[c] + 1 = Attempts

(* The except clauses of _request_sync; a fade stops where it is. *)
Fails(c, fault) ==
  /\ Busy(c) /\ fault \in Possible(at[c])
  /\ failures' = [failures EXCEPT ![c] = @ + 1]
  /\ strikes' = [strikes EXCEPT ![c] = @ + 1]
  /\ at' = [at EXCEPT ![c] =
              IF IsOSError(at[c], fault) /\ ~LastAttempt(c) THEN "token" ELSE "error"]
  /\ final' = IF fault \in Final THEN final \union {c} ELSE final
  /\ UNCHANGED <<asked, queue, light, pending, alone>>

WebNext ==
  \/ \E c \in Thread, chs \in SUBSET Channel, fade \in BOOLEAN : Start(c, chs, fade)
  \/ \E c \in Thread : TokenAnswered(c) \/ Executed(c) \/ Answered(c)
  \/ \E c \in Thread, fault \in Fault : Fails(c, fault)

WebSpec == WebInit /\ [][WebNext]_webVars

-------------------------------------------------------------------------------
(* Properties                                                              *)

Taken(c) == {ch \in Channel : light[ch] = c}

(* A call the lamp was at rest for changes all of its channels at once or  *)
(* none, wherever it fails and however often its requests were repeated: a *)
(* colour and brightness change is one move (_set_channels_sync).          *)
OneMove == alone # None => Taken(alone) \in {{}, asked[alone]}

(* A call that reports success has been carried out, repeated or not; and  *)
(* when all calls report success nothing is left at the bridge for the     *)
(* next fade to apply, even if the calls overlapped.                       *)
Done ==
  /\ alone # None /\ at[alone] = "ok" => Taken(alone) = asked[alone]
  /\ (\A c \in Thread : at[c] \in {"idle", "ok"}) => pending = Untouched

(* A call fails for a fault that no retry mends, or because one request of *)
(* it has failed as often as allowed: each request has its own attempts.   *)
Patience == \A c \in Thread : at[c] = "error" => c \in final \/ strikes[c] = Attempts

(* A certificate problem, an HTTP error or an over-sized response fails    *)
(* the call at once (docstring of _request_sync).                          *)
PermanentFailsAtOnce == \A c \in final : at[c] = "error"
===============================================================================
