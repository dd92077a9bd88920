----------------------------- MODULE Retries_proofs ----------------------------
(***************************************************************************)
(* What ReconnectBackoff and WebRequests promise: the one for any positive *)
(* delays, the other for any threads, any finite set of channels and any   *)
(* number of attempts.                                                     *)
(***************************************************************************)
EXTENDS ReconnectBackoff, WebRequests, FiniteSetTheorems, TLAPS

(***************************************************************************)
(* ReconnectBackoff                                                        *)
(***************************************************************************)
(* While no loop is at work, the recorded time of the last connect is no   *)
(* earlier than the connection itself, unless set-up opened that.          *)
Recorded == loop = "done" /\ up /\ ~bySetup => lived # Never /\ lived <= age

(* After a drop there is a loop, so while there is none the client is up. *)
Attended == loop = "done" => up

BackoffInv == BackoffTypeOK /\ Recorded /\ Attended

LEMMA LongestBounds ==
  /\ Longest \in Nat /\ 1 <= Longest /\ Base <= Longest /\ MaxDelay <= Longest
  /\ Base \in 1..Longest
BY BackoffAssumption DEF Longest

LEMMA ThrottleIsBounded ==
  ASSUME BackoffTypeOK PROVE ReconnectThrottle(shortDelay) \in 0..Longest
BY LongestBounds, BackoffAssumption DEF BackoffTypeOK, ReconnectThrottle, AtMost

LEMMA DoubleIsBounded ==
  ASSUME NEW d \in 1..Longest PROVE AtMost(d * 2, MaxDelay) \in 1..Longest
BY LongestBounds, BackoffAssumption DEF AtMost

LEMMA AgesAreBounded ==
  ASSUME NEW n \in 0..Healthy
  PROVE  AtMost(n + 1, Healthy) \in 0..Healthy
BY BackoffAssumption DEF AtMost

-------------------------------------------------------------------------------
LEMMA BackoffStarts ==
  ASSUME Init PROVE BackoffInv
BY LongestBounds, BackoffAssumption DEF Init, BackoffInv, BackoffTypeOK, Recorded, Attended

LEMMA DropKeeps ==
  ASSUME BackoffInv, Drop PROVE BackoffInv'
<1>1. ReconnectThrottle(shortDelay) \in 0..Longest
  BY ThrottleIsBounded DEF BackoffInv
<1>2. BackoffTypeOK'
  <2>1. CASE loop = "done"
    <3>1. shortDelay' \in 0..Longest /\ timer' \in 0..Longest /\ delay' \in 1..Longest
      BY <1>1, <2>1, LongestBounds DEF Drop
    <3>2. loop' \in {"connect", "throttle"}
      BY <2>1 DEF Drop
    <3> QED
      BY <3>1, <3>2 DEF Drop, BackoffInv, BackoffTypeOK
  <2>2. CASE loop # "done"
    BY <2>2 DEF Drop, BackoffInv, BackoffTypeOK
  <2> QED
    BY <2>1, <2>2
<1>3. Recorded' /\ Attended'
  BY DEF Drop, BackoffInv, Recorded, Attended
<1> QED
  BY <1>2, <1>3 DEF BackoffInv

LEMMA RetryKeeps ==
  ASSUME BackoffInv, Retry PROVE BackoffInv'
BY DoubleIsBounded DEF Retry, BackoffInv, BackoffTypeOK, Recorded, Attended

LEMMA ConnectKeeps ==
  ASSUME BackoffInv, ConnectSucceeds \/ ConnectFails \/ ForwardConnects \/ ThrottleOver
  PROVE  BackoffInv'
<1>1. 0 \in 0..Healthy /\ 0 \in 0..Longest /\ delay \in 0..Longest
  BY LongestBounds, BackoffAssumption DEF BackoffInv, BackoffTypeOK
<1>2. BackoffTypeOK'
  <2>1. CASE ConnectSucceeds
    BY <1>1, <2>1 DEF ConnectSucceeds, BackoffInv, BackoffTypeOK
  <2>2. CASE ConnectFails \/ ForwardConnects \/ ThrottleOver
    BY <1>1, <2>2 DEF ConnectFails, ForwardConnects, ThrottleOver, BackoffInv, BackoffTypeOK
  <2> QED
    BY <2>1, <2>2
<1>3. Recorded' /\ Attended'
  BY BackoffAssumption
  DEF ConnectSucceeds, ConnectFails, ForwardConnects, ThrottleOver, BackoffInv, BackoffTypeOK,
      Recorded, Attended
<1> QED
  BY <1>2, <1>3 DEF BackoffInv

LEMMA TickKeeps ==
  ASSUME BackoffInv, Tick PROVE BackoffInv'
<1>1. age' \in 0..Healthy /\ lived' \in 0..Healthy \union {Never}
  BY AgesAreBounded DEF Tick, BackoffInv, BackoffTypeOK
<1>2. timer' \in 0..Longest
  BY LongestBounds DEF Tick, BackoffInv, BackoffTypeOK
<1>3. BackoffTypeOK' /\ Attended'
  BY <1>1, <1>2 DEF Tick, BackoffInv, BackoffTypeOK, Attended
<1>4. Recorded'
  BY BackoffAssumption DEF Tick, BackoffInv, BackoffTypeOK, Recorded, AtMost
<1> QED
  BY <1>3, <1>4 DEF BackoffInv

(* The inductive invariant: bounds, and what _last_connect_at is worth. *)
THEOREM BackoffInvariance == Spec => []BackoffInv
<1>1. Init => BackoffInv
  BY BackoffStarts
<1>2. BackoffInv /\ [Next]_vars => BackoffInv'
  <2> SUFFICES ASSUME BackoffInv, [Next]_vars PROVE BackoffInv'
    OBVIOUS
  <2>1. CASE UNCHANGED vars
    BY <2>1 DEF BackoffInv, BackoffTypeOK, Recorded, Attended, vars
  <2> QED
    BY <2>1, DropKeeps, RetryKeeps, ConnectKeeps, TickKeeps DEF Next
<1> QED
  BY <1>1, <1>2, PTL DEF Spec

(* No wait of the reconnect loop exceeds its maximum or, if that is longer, *)
(* the configured interval.                                                *)
THEOREM WaitsAreBounded == Spec => []BackoffTypeOK
<1>1. BackoffInv => BackoffTypeOK
  BY DEF BackoffInv
<1> QED
  BY <1>1, BackoffInvariance, PTL

(* For any base delay and any definition of a healthy session, connect and *)
(* drop cannot spin.                                                       *)
THEOREM NoSpin == Spec => ShortIsThrottled
<1>1. BackoffInv /\ [Next]_vars =>
        [Drop /\ loop = "done" /\ age < Healthy /\ ~bySetup => loop' = "throttle"]_vars
  <2> SUFFICES ASSUME BackoffInv, Drop, loop = "done", age < Healthy, ~bySetup
               PROVE  loop' = "throttle"
    OBVIOUS
  <2>1. lived # Never /\ lived < Healthy
    BY BackoffAssumption DEF BackoffInv, BackoffTypeOK, Recorded, Drop
  <2>2. shortDelay' = ReconnectThrottle(shortDelay)
    BY DEF Drop
  <2>3. ReconnectThrottle(shortDelay) # 0
    BY <2>1, BackoffAssumption DEF ReconnectThrottle, AtMost, BackoffInv, BackoffTypeOK
  <2> QED
    BY <2>2, <2>3 DEF Drop
<1> QED
  BY <1>1, BackoffInvariance, PTL DEF Spec, ShortIsThrottled

(***************************************************************************)
(* WebRequests                                                             *)
(***************************************************************************)
(* The failed attempts counted are those of the request at hand. *)
Counted == strikes = failures

(* The requests of a call set channels it was asked to; the last applies. *)
Shape(q, chs) ==
  \A i \in 1..Len(q) :
    /\ q[i].chs \subseteq chs
    /\ chs # {} => q[i].apply = (i = Len(q))
    /\ chs = {} => q[i].apply = FALSE

Shaped == \A c \in Thread : Shape(queue[c], asked[c])

Ended == \A c \in Thread : at[c] = "ok" => queue[c] = <<>>

(* A value waits at the bridge only for a call that has still to apply it, *)
(* or that has failed.                                                     *)
Owed ==
  \A ch \in Channel, c \in Thread : pending[ch] = c =>
    /\ ch \in asked[c] /\ at[c] \notin {"idle", "ok"}
    /\ ~(at[c] = "reply" /\ Head(queue[c]).apply)

Unstarted ==
  \A c \in Thread : at[c] = "idle" =>
    failures[c] = 0 /\ \A ch \in Channel : light[ch] # c

(* The call that runs alone: nothing of it has been applied and what it    *)
(* has not sent it has still to send, or everything has been applied.      *)
Ahead(c) == {ch \in Channel : \E i \in 1..Len(queue[c]) : ch \in queue[c][i].chs}

Collecting(c) ==
  /\ Taken(c) = {}
  /\ \A ch \in asked[c] : pending[ch] = c \/ ch \in Ahead(c)
  /\ at[c] = "reply" =>
       ~Head(queue[c]).apply /\ \A ch \in Head(queue[c]).chs : pending[ch] = c

Applied(c) == Taken(c) = asked[c] /\ Len(queue[c]) <= 1 /\ asked[c] # {}

Alone ==
  alone # None =>
    /\ \A d \in Thread \ {alone} : ~Busy(d)
    /\ \A ch \in Channel : pending[ch] \in {None, alone}
    /\ Collecting(alone) \/ Applied(alone)

WebInv == WebTypeOK /\ Counted /\ Shaped /\ Ended /\ Owed /\ Unstarted /\ Alone

-------------------------------------------------------------------------------
(* The requests of a call *)

LEMMA OrderOfChannels ==
  ASSUME WebAssumption, NEW chs \in SUBSET Channel
  PROVE  LET order == SetToSeq(chs)
         IN /\ order \in [1..Cardinality(chs) -> chs]
            /\ Cardinality(chs) \in Nat /\ order \in Seq(chs)
            /\ Len(order) = Cardinality(chs)
            /\ \A ch \in chs : \E i \in 1..Len(order) : order[i] = ch
<1> DEFINE n == Cardinality(chs)
           order == SetToSeq(chs)
<1>1. IsFiniteSet(chs)
  BY FS_Subset DEF WebAssumption
<1>2. n \in Nat /\ ExistsBijection(1..n, chs)
  BY <1>1, FS_CardinalityType
<1>3. \E f \in [1..n -> chs] : IsInjective(f)
  BY <1>2 DEF ExistsBijection, Bijection, Injection
<1>4. order \in [1..n -> chs] /\ IsInjective(order)
  BY <1>3 DEF SetToSeq
<1>5. order \in Seq(chs) /\ Len(order) = n
  BY <1>2, <1>4
<1>6. IsFiniteSet(1..n) /\ Cardinality(1..n) = n
  BY <1>2, FS_Interval
<1>7. order \in Injection(1..n, chs)
  BY <1>4 DEF Injection
<1>8. order \in Surjection(1..n, chs)
  BY <1>1, <1>6, <1>7, FS_Injection
<1>9. \A ch \in chs : \E i \in 1..n : order[i] = ch
  BY <1>8 DEF Surjection
<1> QED
  BY <1>2, <1>4, <1>5, <1>9

LEMMA RequestsOfACall ==
  ASSUME WebAssumption, NEW chs \in SUBSET Channel, NEW fade \in BOOLEAN,
         fade => chs # {}, NEW q, q = Requests(chs, fade)
  PROVE  /\ q \in Seq(Request) /\ q # <<>> /\ Shape(q, chs)
         /\ \A ch \in chs : \E i \in 1..Len(q) : ch \in q[i].chs
<1>1. CASE fade
  <2> DEFINE order == SetToSeq(chs)
  <2>1. q = [i \in 1..Len(order) |->
               [chs |-> {order[i]}, apply |-> i = Len(order)]]
    BY <1>1 DEF Requests, ApplyNow
  <2>2. /\ Len(order) \in Nat /\ order \in [1..Len(order) -> chs]
        /\ \A ch \in chs : \E i \in 1..Len(order) : order[i] = ch
    BY OrderOfChannels
  <2> HIDE DEF order
  <2>3. chs # {} /\ Len(order) # 0
    BY <1>1, <2>2
  <2>4. \A i \in 1..Len(order) : q[i].chs = {order[i]} /\ q[i].apply = (i = Len(order))
    BY <2>1
  <2>5. q \in Seq(Request) /\ Len(q) = Len(order)
    <3>1. \A i \in 1..Len(order) :
            [chs |-> {order[i]}, apply |-> i = Len(order)] \in Request
      BY <2>2 DEF Request
    <3>2. q \in [1..Len(order) -> Request]
      BY <2>1, <3>1
    <3> QED
      BY <2>2, <3>2
  <2>6. Shape(q, chs)
    <3>1. ASSUME NEW i \in 1..Len(q)
          PROVE  q[i].chs \subseteq chs /\ q[i].apply = (i = Len(q))
      <4>1. i \in 1..Len(order) /\ order[i] \in chs
        BY <2>2, <2>5
      <4>2. q[i].chs = {order[i]}
        BY <2>4, <4>1
      <4>3. q[i].apply = (i = Len(order))
        BY <2>4, <4>1
      <4> QED
        BY <2>5, <4>1, <4>2, <4>3
    <3> QED
      BY <2>3, <3>1 DEF Shape
  <2>7. ASSUME NEW ch \in chs PROVE \E i \in 1..Len(q) : ch \in q[i].chs
    <3>1. PICK i \in 1..Len(order) : order[i] = ch
      BY <2>2
    <3> QED
      BY <2>4, <2>5, <3>1
  <2> QED
    BY <2>3, <2>5, <2>6, <2>7
<1>2. CASE ~fade
  <2>1. q = <<[chs |-> chs, apply |-> chs # {}]>>
    BY <1>2 DEF Requests
  <2>2. q \in Seq(Request) /\ Len(q) = 1
    BY <2>1 DEF Request
  <2>3. q[1].chs = chs /\ q[1].apply = (chs # {})
    BY <2>1
  <2>4. Shape(q, chs)
    <3>1. chs # {} => q[1].apply = TRUE
      BY <2>3
    <3>2. chs = {} => q[1].apply = FALSE
      BY <2>3
    <3>3. \A i \in 1..Len(q) : i = 1 /\ i = Len(q)
      BY <2>2
    <3> QED
      BY <2>3, <3>1, <3>2, <3>3 DEF Shape
  <2>5. \A ch \in chs : \E i \in 1..Len(q) : ch \in q[i].chs
    BY <2>2, <2>3
  <2> QED
    BY <2>2, <2>4, <2>5
<1> QED
  BY <1>1, <1>2

(* What is left of a queue keeps its shape. *)
LEMMA TailOfRequests ==
  ASSUME NEW q \in Seq(Request), NEW chs, Shape(q, chs), q # <<>>
  PROVE  /\ Tail(q) \in Seq(Request) /\ Shape(Tail(q), chs)
         /\ Len(Tail(q)) = Len(q) - 1 /\ Head(q) = q[1] /\ Len(q) >= 1
         /\ \A i \in 2..Len(q) : Tail(q)[i - 1] = q[i]
<1>1. /\ Tail(q) \in Seq(Request) /\ Len(Tail(q)) = Len(q) - 1 /\ Head(q) = q[1]
      /\ Len(q) \in Nat /\ Len(q) >= 1
  OBVIOUS
<1>2. \A i \in 1..Len(Tail(q)) : Tail(q)[i] = q[i + 1]
  OBVIOUS
<1>3. Shape(Tail(q), chs)
  <2> SUFFICES ASSUME NEW i \in 1..Len(Tail(q))
               PROVE  /\ Tail(q)[i].chs \subseteq chs
                      /\ chs # {} => Tail(q)[i].apply = (i = Len(Tail(q)))
                      /\ chs = {} => Tail(q)[i].apply = FALSE
    BY DEF Shape
  <2>1. i + 1 \in 1..Len(q) /\ (i = Len(Tail(q)) <=> i + 1 = Len(q))
    BY <1>1
  <2>2. /\ q[i + 1].chs \subseteq chs
        /\ chs # {} => q[i + 1].apply = (i + 1 = Len(q))
        /\ chs = {} => q[i + 1].apply = FALSE
    BY <2>1 DEF Shape
  <2> QED
    BY <1>2, <2>1, <2>2
<1>4. \A i \in 2..Len(q) : Tail(q)[i - 1] = q[i]
  BY <1>1, <1>2
<1> QED
  BY <1>1, <1>3, <1>4

-------------------------------------------------------------------------------
(* Each part of the invariant, step by step *)

LEMMA WebStarts == ASSUME WebAssumption, WebInit PROVE WebInv
<1>1. WebTypeOK
  <2>1. {failures, strikes} \subseteq [Thread -> 0..Attempts]
    BY DEF WebAssumption, WebInit
  <2>2. queue \in [Thread -> Seq(Request)]
    BY DEF WebInit
  <2> QED
    BY <2>1, <2>2 DEF WebInit, WebTypeOK, Busy, Running, Untouched
<1>2. Counted /\ Ended /\ Alone
  BY DEF WebInit, Counted, Ended, Alone
<1>3. Shaped
  BY DEF WebInit, Shaped, Shape
<1>4. Owed /\ Unstarted
  BY DEF WebAssumption, WebInit, Owed, Unstarted, Untouched
<1> QED
  BY <1>1, <1>2, <1>3, <1>4 DEF WebInv

LEMMA StartKeeps ==
  ASSUME WebAssumption, WebInv, NEW c \in Thread, NEW chs \in SUBSET Channel,
         NEW fade \in BOOLEAN, Start(c, chs, fade)
  PROVE  WebInv'
<1> DEFINE q == Requests(chs, fade)
<1>1. /\ q \in Seq(Request) /\ q # <<>> /\ Shape(q, chs)
      /\ \A ch \in chs : \E i \in 1..Len(q) : ch \in q[i].chs
  BY RequestsOfACall DEF Start
<1>2. /\ at[c] = "idle" /\ at' = [at EXCEPT ![c] = "token"]
      /\ asked' = [asked EXCEPT ![c] = chs] /\ queue' = [queue EXCEPT ![c] = q]
      /\ UNCHANGED <<failures, strikes, light, pending, final>>
      /\ alone' = IF pending = Untouched /\ \A d \in Thread : ~Busy(d) THEN c ELSE None
  BY DEF Start
<1> HIDE DEF q
<1>3. failures[c] < Attempts
  BY <1>2 DEF WebInv, Unstarted, WebAssumption
<1>4. WebTypeOK'
  <2>1. queue' \in [Thread -> Seq(Request)] /\ asked' \in [Thread -> SUBSET Channel]
        /\ at' \in [Thread -> Running \union {"idle", "ok", "error"}]
    BY <1>1, <1>2 DEF WebInv, WebTypeOK, Running
  <2>2. ASSUME NEW d \in Thread, Busy(d)' PROVE queue'[d] # <<>> /\ failures'[d] < Attempts
    BY <1>1, <1>2, <1>3, <2>2 DEF WebInv, WebTypeOK, Busy
  <2> QED
    BY <1>2, <2>1, <2>2 DEF WebInv, WebTypeOK
<1>5. Counted' /\ Ended'
  BY <1>2 DEF WebInv, WebTypeOK, Counted, Ended
<1>6. Shaped'
  BY <1>1, <1>2 DEF WebInv, WebTypeOK, Shaped
<1>7. Owed' /\ Unstarted'
  BY <1>2 DEF WebInv, WebTypeOK, Owed, Unstarted
<1>8. Alone'
  <2> SUFFICES ASSUME alone' = c, pending = Untouched, \A d \in Thread : ~Busy(d)
               PROVE  /\ \A d \in Thread \ {c} : ~Busy(d)'
                      /\ \A ch \in Channel : pending'[ch] \in {None, c}
                      /\ Collecting(c)'
    BY <1>2 DEF Alone
  <2>1. \A d \in Thread \ {c} : ~Busy(d)'
    BY <1>2 DEF Busy, WebInv, WebTypeOK
  <2>2. Taken(c)' = {}
    BY <1>2 DEF Taken, WebInv, Unstarted
  <2>3. \A ch \in asked'[c] : ch \in Ahead(c)'
    BY <1>1, <1>2 DEF WebInv, WebTypeOK, Ahead
  <2>4. at'[c] # "reply"
    BY <1>2 DEF WebInv, WebTypeOK
  <2> QED
    BY <1>2, <2>1, <2>2, <2>3, <2>4 DEF Collecting, Untouched
<1> QED
  BY <1>4, <1>5, <1>6, <1>7, <1>8 DEF WebInv

LEMMA TokenAnsweredKeeps ==
  ASSUME WebInv, NEW c \in Thread, TokenAnswered(c) PROVE WebInv'
<1>1. /\ at[c] = "token" /\ at' = [at EXCEPT ![c] = "vdc"]
      /\ UNCHANGED <<asked, queue, failures, strikes, light, pending, alone, final>>
  BY DEF TokenAnswered
<1>2. WebTypeOK'
  BY <1>1 DEF WebInv, WebTypeOK, Busy, Running
<1>3. Counted' /\ Shaped' /\ Ended' /\ Owed' /\ Unstarted'
  BY <1>1 DEF WebInv, WebTypeOK, Counted, Shaped, Ended, Owed, Unstarted
<1>4. Alone'
  BY <1>1 DEF WebInv, WebTypeOK, Alone, Busy, Running, Collecting, Applied, Taken, Ahead
<1> QED
  BY <1>2, <1>3, <1>4 DEF WebInv

(* The request that is carried out is the first of a well-shaped queue. *)
LEMMA HeadOfQueue ==
  ASSUME WebInv, NEW c \in Thread, Busy(c)
  PROVE  /\ queue[c] \in Seq(Request) /\ queue[c] # <<>> /\ Head(queue[c]) = queue[c][1]
         /\ Len(queue[c]) \in Nat /\ Len(queue[c]) >= 1
         /\ Head(queue[c]).chs \subseteq asked[c] /\ asked[c] \subseteq Channel
         /\ asked[c] # {} => Head(queue[c]).apply = (1 = Len(queue[c]))
         /\ asked[c] = {} => Head(queue[c]).apply = FALSE
<1>1. queue[c] \in Seq(Request) /\ queue[c] # <<>> /\ asked[c] \subseteq Channel
  BY DEF WebInv, WebTypeOK
<1>2. Head(queue[c]) = queue[c][1] /\ Len(queue[c]) \in Nat /\ Len(queue[c]) >= 1
  BY <1>1
<1>3. /\ queue[c][1].chs \subseteq asked[c]
      /\ asked[c] # {} => queue[c][1].apply = (1 = Len(queue[c]))
      /\ asked[c] = {} => queue[c][1].apply = FALSE
  <2>1. Shape(queue[c], asked[c])
    BY DEF WebInv, Shaped
  <2>2. 1 \in 1..Len(queue[c])
    BY <1>2
  <2> QED
    BY <2>1, <2>2 DEF Shape
<1> QED
  BY <1>1, <1>2, <1>3

(* A call that runs is the one that runs alone, if there is one. *)
LEMMA RunsAlone ==
  ASSUME Alone, alone # None, NEW c \in Thread, Busy(c)
  PROVE  alone = c /\ (Collecting(c) \/ Applied(c))
BY DEF Alone

LEMMA AppliedAtBridge ==
  ASSUME WebAssumption, WebInv, NEW c \in Thread, Executed(c), Head(queue[c]).apply
  PROVE  Owed' /\ Unstarted' /\ Alone'
<1> DEFINE r == Head(queue[c])
           stored == [ch \in Channel |-> IF ch \in r.chs THEN c ELSE pending[ch]]
<1>1. /\ at[c] = "vdc" /\ Busy(c) /\ at' = [at EXCEPT ![c] = "reply"]
      /\ UNCHANGED <<asked, queue, failures, strikes, alone, final>>
      /\ pending' = Untouched
      /\ light' = [ch \in Channel |-> IF stored[ch] = None THEN light[ch] ELSE stored[ch]]
  BY DEF Executed, Busy, Running
<1>2. /\ asked[c] # {} /\ Len(queue[c]) = 1 /\ r = queue[c][1]
      /\ r.chs \subseteq asked[c] /\ asked[c] \subseteq Channel
  BY <1>1, HeadOfQueue
<1> HIDE DEF r
<1>3. c # None
  BY DEF WebAssumption
<1>4. Owed'
  BY <1>1 DEF WebAssumption, Owed, Untouched
<1>5. \A ch \in Channel : light'[ch] = IF ch \in r.chs THEN c
                                      ELSE IF pending[ch] = None THEN light[ch]
                                      ELSE pending[ch]
  BY <1>1, <1>3
<1>6. Unstarted'
  BY <1>1, <1>5 DEF WebInv, WebTypeOK, Unstarted, Owed
<1>7. Alone'
  <2> SUFFICES ASSUME alone # None
               PROVE  /\ alone = c /\ \A d \in Thread \ {c} : ~Busy(d)'
                      /\ \A ch \in Channel : pending'[ch] = None
                      /\ Applied(c)'
    BY <1>1 DEF Alone
  <2>1. alone = c /\ (Collecting(c) \/ Applied(c))
    BY <1>1, RunsAlone DEF WebInv
  <2>2. \A d \in Thread \ {c} : ~Busy(d)'
    BY <1>1, <2>1 DEF WebInv, WebTypeOK, Alone, Busy
  <2>3. \A ch \in Channel : pending'[ch] = None
    BY <1>1 DEF Untouched
  <2>4. \A ch \in Channel : pending[ch] \in {None, c} /\ (pending[ch] = c => ch \in asked[c])
    BY <2>1 DEF WebInv, Alone, Owed
  <2>5. \A ch \in Channel : light'[ch] = c <=>
          light[ch] = c \/ ch \in r.chs \/ pending[ch] = c
    BY <1>3, <1>5, <2>4
  <2>6. Taken(c)' = asked[c]
    <3>1. CASE Collecting(c)
      <4>1. \A ch \in asked[c] : ch \in r.chs \/ pending[ch] = c
        BY <1>2, <3>1 DEF Collecting, Ahead
      <4>2. \A ch \in Channel : light[ch] # c
        BY <3>1 DEF Collecting, Taken
      <4> QED
        BY <1>2, <2>4, <2>5, <4>1, <4>2 DEF Taken
    <3>2. CASE Applied(c)
      BY <1>2, <2>4, <2>5, <3>2 DEF Applied, Taken
    <3> QED
      BY <2>1, <3>1, <3>2
  <2> QED
    BY <1>1, <1>2, <2>1, <2>2, <2>3, <2>6 DEF Applied
<1> QED
  BY <1>4, <1>6, <1>7

LEMMA StoredAtBridge ==
  ASSUME WebAssumption, WebInv, NEW c \in Thread, Executed(c), ~Head(queue[c]).apply
  PROVE  Owed' /\ Unstarted' /\ Alone'
<1> DEFINE r == Head(queue[c])
<1>1. /\ at[c] = "vdc" /\ Busy(c) /\ at' = [at EXCEPT ![c] = "reply"]
      /\ UNCHANGED <<asked, queue, failures, strikes, light, alone, final>>
      /\ pending' = [ch \in Channel |-> IF ch \in r.chs THEN c ELSE pending[ch]]
  BY DEF Executed, Busy, Running
<1>2. /\ r.chs \subseteq asked[c] /\ asked[c] \subseteq Channel
      /\ Len(queue[c]) = 1 => asked[c] = {}
  BY <1>1, HeadOfQueue
<1>3. Len(queue[c]) \in Nat /\ Len(queue[c]) >= 1
  BY <1>1, HeadOfQueue
<1> HIDE DEF r
<1>4. Owed'
  <2> SUFFICES ASSUME NEW ch \in Channel, NEW d \in Thread, pending'[ch] = d
               PROVE  /\ ch \in asked[d] /\ at'[d] \notin {"idle", "ok"}
                      /\ ~(at'[d] = "reply" /\ Head(queue'[d]).apply)
    BY <1>1 DEF Owed
  <2>1. CASE d = c
    <3>1. ch \in asked[c]
      BY <1>1, <1>2, <2>1 DEF WebInv, Owed
    <3> QED
      BY <1>1, <2>1, <3>1 DEF WebInv, WebTypeOK
  <2>2. CASE d # c
    BY <1>1, <2>2 DEF WebInv, WebTypeOK, Owed
  <2> QED
    BY <2>1, <2>2
<1>5. Unstarted'
  BY <1>1 DEF WebInv, WebTypeOK, Unstarted
<1>6. Alone'
  <2> SUFFICES ASSUME alone # None
               PROVE  /\ alone = c /\ \A d \in Thread \ {c} : ~Busy(d)'
                      /\ \A ch \in Channel : pending'[ch] \in {None, c}
                      /\ Collecting(c)'
    BY <1>1 DEF Alone
  <2>1. alone = c /\ Collecting(c)
    <3>1. alone = c /\ (Collecting(c) \/ Applied(c))
      BY <1>1, RunsAlone DEF WebInv
    <3>2. ASSUME Applied(c) PROVE FALSE
      <4>1. Len(queue[c]) <= 1 /\ asked[c] # {}
        BY <3>2 DEF Applied
      <4>2. \A n \in Nat : n >= 1 /\ n <= 1 => n = 1
        OBVIOUS
      <4>3. Len(queue[c]) = 1
        BY <1>3, <4>1, <4>2
      <4> QED
        BY <1>2, <4>1, <4>3
    <3> QED
      BY <3>1, <3>2
  <2>2. \A d \in Thread \ {c} : ~Busy(d)'
    BY <1>1, <2>1 DEF WebInv, WebTypeOK, Alone, Busy
  <2>3. \A ch \in Channel : pending'[ch] \in {None, c}
    BY <1>1, <2>1 DEF WebInv, Alone
  <2>4. Taken(c)' = {} /\ Ahead(c)' = Ahead(c)
    BY <1>1, <2>1 DEF Collecting, Taken, Ahead
  <2>5. \A ch \in asked'[c] : pending'[ch] = c \/ ch \in Ahead(c)'
    BY <1>1, <1>2, <2>1, <2>4 DEF Collecting
  <2>6. ~Head(queue'[c]).apply /\ \A ch \in Head(queue'[c]).chs : pending'[ch] = c
    BY <1>1, <1>2 DEF r
  <2> QED
    BY <2>1, <2>2, <2>3, <2>4, <2>5, <2>6 DEF Collecting
<1> QED
  BY <1>4, <1>5, <1>6

LEMMA ExecutedKeeps ==
  ASSUME WebAssumption, WebInv, NEW c \in Thread, Executed(c) PROVE WebInv'
<1>1. /\ at[c] = "vdc" /\ at' = [at EXCEPT ![c] = "reply"]
      /\ UNCHANGED <<asked, queue, failures, strikes, alone, final>>
  BY DEF Executed
<1>2. {light', pending'} \subseteq [Channel -> Thread \union {None}]
  <2> DEFINE stored == [ch \in Channel |->
                          IF ch \in Head(queue[c]).chs THEN c ELSE pending[ch]]
  <2>1. stored \in [Channel -> Thread \union {None}]
    BY DEF WebInv, WebTypeOK
  <2>2. \/ /\ light' = [ch \in Channel |-> IF stored[ch] = None THEN light[ch] ELSE stored[ch]]
           /\ pending' = Untouched
        \/ pending' = stored /\ UNCHANGED light
    BY DEF Executed
  <2> QED
    BY <2>1, <2>2 DEF Untouched, WebInv, WebTypeOK
<1>3. WebTypeOK'
  BY <1>1, <1>2 DEF WebInv, WebTypeOK, Busy, Running
<1>4. Counted' /\ Shaped' /\ Ended'
  BY <1>1 DEF WebInv, WebTypeOK, Counted, Shaped, Ended
<1>5. Owed' /\ Unstarted' /\ Alone'
  BY AppliedAtBridge, StoredAtBridge
<1> QED
  BY <1>3, <1>4, <1>5 DEF WebInv

LEMMA AnsweredKeeps ==
  ASSUME WebAssumption, WebInv, NEW c \in Thread, Answered(c) PROVE WebInv'
<1> DEFINE q == queue[c]
<1>1. /\ at[c] = "reply" /\ Busy(c) /\ queue' = [queue EXCEPT ![c] = Tail(q)]
      /\ at' = [at EXCEPT ![c] = IF Tail(q) = <<>> THEN "ok" ELSE "token"]
      /\ failures' = [failures EXCEPT ![c] = 0] /\ strikes' = [strikes EXCEPT ![c] = 0]
      /\ UNCHANGED <<asked, light, pending, alone, final>>
  BY DEF Answered, Fresh, Busy, Running, WebInv, WebTypeOK
<1>2. /\ q \in Seq(Request) /\ q # <<>> /\ Head(q) = q[1]
      /\ Len(q) \in Nat /\ Len(q) >= 1
      /\ asked[c] # {} => Head(q).apply = (1 = Len(q))
  BY <1>1, HeadOfQueue
<1>3. /\ Tail(q) \in Seq(Request) /\ Shape(Tail(q), asked[c])
      /\ Len(Tail(q)) = Len(q) - 1
      /\ \A i \in 2..Len(q) : Tail(q)[i - 1] = q[i]
  BY <1>2, TailOfRequests DEF WebInv, Shaped
<1>4. Tail(q) = <<>> => Len(q) = 1
  <2>1. Tail(q) = <<>> => Len(Tail(q)) = 0
    BY Len(<<>>) = 0
  <2> QED
    BY <1>2, <1>3, <2>1
<1> HIDE DEF q
<1>5. WebTypeOK'
  <2>1. /\ queue' \in [Thread -> Seq(Request)]
        /\ at' \in [Thread -> Running \union {"idle", "ok", "error"}]
        /\ {failures', strikes'} \subseteq [Thread -> 0..Attempts]
    BY <1>1, <1>3 DEF WebAssumption, WebInv, WebTypeOK, Running
  <2>2. ASSUME NEW d \in Thread, Busy(d)' PROVE queue'[d] # <<>> /\ failures'[d] < Attempts
    BY <1>1, <2>2 DEF WebAssumption, WebInv, WebTypeOK, Busy, Running
  <2> QED
    BY <1>1, <2>1, <2>2 DEF WebInv, WebTypeOK
<1>6. Counted' /\ Ended' /\ Unstarted'
  BY <1>1 DEF WebInv, WebTypeOK, Counted, Ended, Unstarted
<1>7. Shaped'
  BY <1>1, <1>3 DEF WebInv, WebTypeOK, Shaped
<1>8. Owed'
  <2> SUFFICES ASSUME NEW ch \in Channel, NEW d \in Thread, pending[ch] = d
               PROVE  /\ ch \in asked[d] /\ at'[d] \notin {"idle", "ok"}
                      /\ ~(at'[d] = "reply" /\ Head(queue'[d]).apply)
    BY <1>1 DEF Owed
  <2>1. ch \in asked[d]
    BY DEF WebInv, Owed
  <2>2. CASE d = c
    <3>1. ~Head(q).apply
      BY <1>1, <2>2 DEF WebInv, Owed, q
    <3>2. Len(q) # 1
      BY <1>2, <2>1, <2>2, <3>1
    <3> QED
      BY <1>1, <1>4, <2>1, <2>2, <3>2 DEF WebInv, WebTypeOK
  <2>3. CASE d # c
    BY <1>1, <2>3 DEF WebInv, WebTypeOK, Owed
  <2> QED
    BY <2>2, <2>3
<1>9. Alone'
  <2> SUFFICES ASSUME alone # None
               PROVE  /\ alone = c /\ \A d \in Thread \ {c} : ~Busy(d)'
                      /\ \A ch \in Channel : pending[ch] \in {None, c}
                      /\ Collecting(c)' \/ Applied(c)'
    BY <1>1 DEF Alone
  <2>1. alone = c /\ (Collecting(c) \/ Applied(c))
    BY <1>1, RunsAlone DEF WebInv
  <2>2. /\ \A d \in Thread \ {c} : ~Busy(d)'
        /\ \A ch \in Channel : pending[ch] \in {None, c}
    BY <1>1, <2>1 DEF WebInv, WebTypeOK, Alone, Busy
  <2>3. Taken(c)' = Taken(c) /\ at'[c] # "reply" /\ queue'[c] = Tail(q)
    BY <1>1 DEF Taken, WebInv, WebTypeOK
  <2>4. CASE Collecting(c)
    <3>1. ASSUME NEW ch \in asked[c], pending[ch] # c PROVE ch \in Ahead(c)'
      <4>1. ch \in Channel /\ ch \in Ahead(c) /\ ch \notin Head(q).chs
        BY <1>1, <2>4, <3>1 DEF Collecting, WebInv, WebTypeOK, q
      <4>2. PICK i \in 1..Len(q) : ch \in q[i].chs
        BY <4>1 DEF Ahead, q
      <4>3. i \in 2..Len(q) /\ i - 1 \in 1..Len(Tail(q))
        BY <1>2, <1>3, <4>1, <4>2
      <4>4. ch \in Tail(q)[i - 1].chs
        BY <1>3, <4>2, <4>3
      <4> QED
        BY <2>3, <4>1, <4>3, <4>4 DEF Ahead
    <3> QED
      <4>1. Taken(c)' = {}
        BY <2>3, <2>4 DEF Collecting
      <4>2. \A ch \in asked'[c] : pending'[ch] = c \/ ch \in Ahead(c)'
        BY <1>1, <3>1
      <4> QED
        BY <2>1, <2>2, <2>3, <4>1, <4>2 DEF Collecting
  <2>5. CASE Applied(c)
    <3>1. Len(q) <= 1 /\ Len(queue'[c]) = Len(q) - 1
      BY <1>3, <2>3, <2>5 DEF Applied, q
    <3>2. Len(queue'[c]) <= 1
      BY <1>2, <3>1
    <3>3. Taken(c)' = asked'[c] /\ asked'[c] # {}
      BY <1>1, <2>3, <2>5 DEF Applied
    <3> QED
      BY <2>1, <2>2, <3>2, <3>3 DEF Applied
  <2> QED
    BY <2>1, <2>2, <2>4, <2>5
<1> QED
  BY <1>5, <1>6, <1>7, <1>8, <1>9 DEF WebInv

LEMMA FailsKeeps ==
  ASSUME WebAssumption, WebInv, NEW c \in Thread, NEW fault \in Fault, Fails(c, fault)
  PROVE  WebInv'
<1>1. /\ Busy(c) /\ failures' = [failures EXCEPT ![c] = @ + 1]
      /\ strikes' = [strikes EXCEPT ![c] = @ + 1]
      /\ at' = [at EXCEPT ![c] =
                  IF IsOSError(at[c], fault) /\ ~LastAttempt(c) THEN "token" ELSE "error"]
      /\ final' \in {final, final \union {c}}
      /\ UNCHANGED <<asked, queue, light, pending, alone>>
  BY DEF Fails
<1>2. /\ at'[c] \in {"token", "error"} /\ at[c] \in Running
      /\ at'[c] = "token" => failures[c] + 1 # Attempts
      /\ \A d \in Thread \ {c} : at'[d] = at[d]
  BY <1>1 DEF LastAttempt, WebInv, WebTypeOK, Busy
<1>3. failures[c] < Attempts /\ failures[c] \in Nat /\ Attempts \in Nat /\ queue[c] # <<>>
  BY <1>1 DEF WebAssumption, WebInv, WebTypeOK
<1>4. WebTypeOK'
  <2>1. {failures', strikes'} \subseteq [Thread -> 0..Attempts]
    BY <1>1, <1>3 DEF WebInv, WebTypeOK, Counted
  <2>2. at' \in [Thread -> Running \union {"idle", "ok", "error"}]
    BY <1>1 DEF WebInv, WebTypeOK, Running
  <2>3. ASSUME NEW d \in Thread, Busy(d)' PROVE queue'[d] # <<>> /\ failures'[d] < Attempts
    BY <1>1, <1>2, <1>3, <2>3 DEF WebInv, WebTypeOK, Busy, Running
  <2> QED
    BY <1>1, <2>1, <2>2, <2>3 DEF WebInv, WebTypeOK
<1>5. Counted' /\ Shaped' /\ Ended' /\ Owed' /\ Unstarted'
  BY <1>1, <1>2 DEF WebInv, WebTypeOK, Counted, Shaped, Ended, Owed, Unstarted, Running
<1>6. Alone'
  <2> SUFFICES ASSUME alone # None
               PROVE  /\ alone = c /\ \A d \in Thread \ {c} : ~Busy(d)'
                      /\ \A ch \in Channel : pending[ch] \in {None, c}
                      /\ Collecting(c)' \/ Applied(c)'
    BY <1>1 DEF Alone
  <2>1. alone = c /\ (Collecting(c) \/ Applied(c))
    BY <1>1, RunsAlone DEF WebInv
  <2>2. /\ \A d \in Thread \ {c} : ~Busy(d)'
        /\ \A ch \in Channel : pending[ch] \in {None, c}
    BY <1>2, <2>1 DEF WebInv, Alone, Busy
  <2>3. Taken(c)' = Taken(c) /\ Ahead(c)' = Ahead(c) /\ at'[c] # "reply"
    BY <1>1, <1>2 DEF Taken, Ahead
  <2> QED
    BY <1>1, <2>1, <2>2, <2>3 DEF Collecting, Applied
<1> QED
  BY <1>4, <1>5, <1>6 DEF WebInv

LEMMA StutterKeeps == ASSUME WebInv, UNCHANGED webVars PROVE WebInv'
BY DEF WebInv, WebTypeOK, Counted, Shaped, Ended, Owed, Unstarted, Alone, Busy, Collecting,
       Applied, Taken, Ahead, webVars

LEMMA StepKeeps == ASSUME WebAssumption, WebInv, [WebNext]_webVars PROVE WebInv'
BY StartKeeps, TokenAnsweredKeeps, ExecutedKeeps, AnsweredKeeps, FailsKeeps,
   StutterKeeps DEF WebNext

THEOREM WebInvariance == ASSUME WebAssumption PROVE WebSpec => []WebInv
<1>1. WebInit => WebInv
  BY WebStarts
<1>2. WebInv /\ [WebNext]_webVars => WebInv'
  BY StepKeeps
<1> QED
  BY <1>1, <1>2, PTL DEF WebSpec

(* The calls of _request_sync and _set_channels_sync keep their types, and *)
(* none makes more attempts than _REQUEST_ATTEMPTS.                        *)
THEOREM WebTyping == ASSUME WebAssumption PROVE WebSpec => []WebTypeOK
<1>1. WebInv => WebTypeOK
  BY DEF WebInv
<1> QED
  BY <1>1, WebInvariance, PTL

(* A light the call found at rest changes in one move or not at all,        *)
(* whatever fails and is repeated: _set_channels_sync applies at the end.  *)
THEOREM OneMoveAlways == ASSUME WebAssumption PROVE WebSpec => []OneMove
<1>1. WebInv => OneMove
  BY DEF WebInv, OneMove, Alone, Collecting, Applied
<1> QED
  BY <1>1, WebInvariance, PTL

(* A call of _request_sync that reports success has been carried out, and  *)
(* when all do nothing is left pending at the bridge.                      *)
THEOREM DoneAlways == ASSUME WebAssumption PROVE WebSpec => []Done
<1>1. ASSUME WebAssumption, WebInv PROVE Done
  <2>1. ASSUME alone # None, at[alone] = "ok" PROVE Taken(alone) = asked[alone]
    <3>1. alone \in Thread /\ queue[alone] = <<>> /\ asked[alone] \subseteq Channel
      BY <1>1, <2>1 DEF WebInv, WebTypeOK, Ended
    <3>2. CASE Collecting(alone)
      <4>1. Ahead(alone) = {}
        BY <3>1 DEF Ahead
      <4>2. asked[alone] = {}
        BY <1>1, <2>1, <3>1, <3>2, <4>1 DEF Collecting, WebInv, Owed
      <4> QED
        BY <3>2, <4>2 DEF Collecting
    <3> QED
      BY <1>1, <2>1, <3>2 DEF WebInv, Alone, Applied
  <2>2. ASSUME \A c \in Thread : at[c] \in {"idle", "ok"} PROVE pending = Untouched
    <3>1. \A ch \in Channel : pending[ch] = None
      BY <1>1, <2>2 DEF WebInv, WebTypeOK, Owed
    <3> QED
      BY <1>1, <3>1 DEF WebInv, WebTypeOK, Untouched
  <2> QED
    BY <2>1, <2>2 DEF Done
<1>2. WebAssumption /\ WebInv => Done
  BY <1>1
<1> QED
  BY <1>2, WebInvariance, PTL

LEMMA PatienceStep ==
  ASSUME WebInv, Patience, [WebNext]_webVars PROVE Patience'
<1>1. ASSUME NEW c \in Thread, NEW fault \in Fault, Fails(c, fault) PROVE Patience'
  <2> SUFFICES ASSUME NEW d \in Thread, at'[d] = "error"
               PROVE  d \in final' \/ strikes'[d] = Attempts
    BY DEF Patience
  <2>1. CASE d # c
    BY <1>1, <2>1 DEF Fails, WebInv, WebTypeOK, Patience
  <2>2. CASE d = c /\ LastAttempt(c)
    BY <1>1, <2>2 DEF Fails, LastAttempt, WebInv, WebTypeOK, Counted
  <2>3. CASE d = c /\ ~IsOSError(at[c], fault)
    <3>1. fault \in Final
      BY <1>1, <2>3 DEF IsOSError, Final, Fault
    <3> QED
      BY <1>1, <2>3, <3>1 DEF Fails
  <2>4. CASE d = c /\ IsOSError(at[c], fault) /\ ~LastAttempt(c)
    BY <1>1, <2>4 DEF Fails, WebInv, WebTypeOK
  <2> QED
    BY <2>1, <2>2, <2>3, <2>4
<1>2. ASSUME NEW c \in Thread, TokenAnswered(c) \/ Executed(c) \/ Answered(c)
      PROVE  Patience'
  BY <1>2 DEF TokenAnswered, Executed, Answered, Patience, WebInv, WebTypeOK
<1>3. ASSUME NEW c \in Thread, NEW chs \in SUBSET Channel, NEW fade \in BOOLEAN,
             Start(c, chs, fade)
      PROVE  Patience'
  BY <1>3 DEF Start, Patience, WebInv, WebTypeOK
<1>4. CASE UNCHANGED webVars
  BY <1>4 DEF Patience, webVars
<1> QED
  BY <1>1, <1>2, <1>3, <1>4 DEF WebNext

(* _request_sync gives a call up for a fault no retry mends, or when one    *)
(* of its requests has failed _REQUEST_ATTEMPTS times, never before.       *)
THEOREM PatienceAlways == ASSUME WebAssumption PROVE WebSpec => []Patience
<1>1. WebInit => Patience
  BY DEF WebInit, Patience
<1>2. WebInv /\ Patience /\ [WebNext]_webVars => Patience'
  BY PatienceStep
<1> QED
  BY <1>1, <1>2, WebInvariance, PTL DEF WebSpec
===============================================================================
