------------------------ MODULE GatewayFrontProofs ------------------------
(***************************************************************************)
(* Proofs about the readiness check of GatewayFront, for every number of   *)
(* pollers, every TTL and every time that an answer of S3 may take.        *)
(*                                                                         *)
(* The mutex of the probe's cache keeps probes apart (ProbeInv); the ages  *)
(* of the cached outcome, of an answer on its way and of the last time S3  *)
(* was up or down are related to each other (AgeInv).                      *)
(***************************************************************************)
EXTENDS GatewayFront, NaturalSets, TLAPS

Probing == {"probe", "up", "down"}

\* A client that probes holds the lock.
ProbeInv ==
  /\ queue \in Seq(Clients)
  /\ \A c \in Clients : pc[c] \in Probing => queue # << >> /\ Head(queue) = c

\* Senders are no pollers.
RoleInv ==
  /\ DOMAIN pc = Clients /\ DOMAIN answer = Clients /\ fleet \in Fleets
  /\ \A c \in Clients : pc[c] = "sent" => c \in senders

ClockInv ==
  /\ s3up \in BOOLEAN /\ age \in 0 .. ttl /\ transit \in 0 .. MaxTransit
  /\ since \in [up: Nat, down: Nat]
  /\ s3up => since.up = 0
  /\ ~s3up => since.down = 0

TransitInv ==
  \A c \in Clients : (pc[c] = "up" => since.up <= transit) /\ (pc[c] = "down" => since.down <= transit)

CacheInv ==
  /\ cache \in {{}, {TRUE}, {FALSE}}
  /\ TRUE \in cache /\ age < ttl => since.up <= age + MaxTransit
  /\ FALSE \in cache /\ age < ttl => since.down <= age + MaxTransit

AgeInv == ClockInv /\ TransitInv /\ CacheInv

FrontInv == ProbeInv /\ RoleInv /\ AgeInv

\* Who leaves the queue takes no one's place away.
LEMMA HeadStays ==
  ASSUME NEW q \in Seq(Clients), NEW i \in DOMAIN q, i # 1
  PROVE  RemoveAt(q, i) \in Seq(Clients) /\ RemoveAt(q, i) # << >> /\ Head(RemoveAt(q, i)) = Head(q)
<1>1. i \in 1 .. Len(q) /\ Len(q) \in Nat /\ i - 1 \in 1 .. Len(q)
  OBVIOUS
<1> DEFINE a == SubSeq(q, 1, i - 1)
           b == SubSeq(q, i + 1, Len(q))
<1>2. a \in Seq(Clients) /\ Len(a) = i - 1 /\ a[1] = q[1]
  BY <1>1
<1>3. b \in Seq(Clients)
  BY <1>1
<1> HIDE DEF a, b
<1>4. a \o b \in Seq(Clients) /\ Len(a \o b) >= 1 /\ (a \o b)[1] = a[1]
  BY <1>1, <1>2, <1>3
<1>5. RemoveAt(q, i) = a \o b
  BY DEF RemoveAt, a, b
<1>6. QED
  BY <1>1, <1>2, <1>4, <1>5

LEMMA RemoveType ==
  ASSUME NEW q \in Seq(Clients), NEW i \in DOMAIN q
  PROVE  RemoveAt(q, i) \in Seq(Clients)
<1>1. i \in 1 .. Len(q) /\ Len(q) \in Nat
  OBVIOUS
<1>2. SubSeq(q, 1, i - 1) \in Seq(Clients) /\ SubSeq(q, i + 1, Len(q)) \in Seq(Clients)
  BY <1>1
<1>3. QED
  BY <1>2 DEF RemoveAt

\* A client that stops waiting or probing.
LEMMA ReleaseInv ==
  ASSUME FrontInv, NEW c \in Clients, Release(c), NEW p, p \notin Probing,
         pc' = [pc EXCEPT ![c] = p]
  PROVE  ProbeInv'
<1>1. PICK i \in DOMAIN queue : queue[i] = c /\ queue' = RemoveAt(queue, i)
  BY DEF Release
<1>2. queue \in Seq(Clients) /\ queue' \in Seq(Clients)
  BY <1>1, RemoveType DEF FrontInv, ProbeInv
<1>3. ASSUME NEW d \in Clients, pc'[d] \in Probing PROVE queue' # << >> /\ Head(queue') = d
  <2>1. d # c /\ pc[d] \in Probing
    BY <1>3 DEF FrontInv, RoleInv
  <2>2. Head(queue) = d /\ Head(queue) = queue[1]
    BY <1>2, <2>1 DEF FrontInv, ProbeInv
  <2>3. i # 1
    BY <1>1, <2>1, <2>2
  <2>4. QED
    BY <1>1, <1>2, <2>2, <2>3, HeadStays
<1>4. QED
  BY <1>2, <1>3 DEF ProbeInv

\* At most one client probes.
LEMMA OneProber ==
  ASSUME FrontInv, NEW c \in Clients, NEW d \in Clients, Holds(c), pc[d] \in Probing
  PROVE  d = c
  BY DEF FrontInv, ProbeInv, Holds

\* An API request comes and goes.
LEMMA RequestInv ==
  ASSUME FrontInv, NEW c \in Clients,
         Send(c) \/ Arrive(c) \/ TooLarge(c) \/ Done(c)
  PROVE  FrontInv'
<1>1. PICK p \in {"sent", "answered", "idle"} :
        pc' = [pc EXCEPT ![c] = p] /\ (p = "sent" => c \in senders)
  BY DEF Send, Arrive, TooLarge, Done
<1>2. UNCHANGED <<fleet, readiness>> /\ DOMAIN answer' = DOMAIN answer
  BY DEF Send, Arrive, TooLarge, Done, front
<1>3. UNCHANGED <<s3up, queue, cache, age, transit, since>> /\ UNCHANGED senders
  BY <1>2 DEF readiness, senders
<1>4. \A d \in Clients : pc'[d] = IF d = c THEN p ELSE pc[d]
  BY <1>1 DEF FrontInv, RoleInv
<1>5. ProbeInv'
  BY <1>3, <1>4 DEF FrontInv, ProbeInv, Probing
<1>6. RoleInv'
  BY <1>1, <1>2, <1>3, <1>4 DEF FrontInv, RoleInv
<1>7. AgeInv'
  BY <1>3, <1>4 DEF FrontInv, AgeInv, ClockInv, TransitInv, CacheInv
<1>8. QED
  BY <1>5, <1>6, <1>7 DEF FrontInv

\* A poller asks: it waits for the lock, or is answered at once.
LEMMA PollInv ==
  ASSUME FrontInv, NEW c \in Clients, Poll(c) PROVE FrontInv'
<1>1. PICK p \in {"lock", "answered"} :
        /\ pc' = [pc EXCEPT ![c] = p]
        /\ queue' \in {queue, Append(queue, c)}
  BY DEF Poll
<1>2. UNCHANGED <<fleet, s3up, cache, age, transit, since>> /\ DOMAIN answer' = DOMAIN answer
  BY DEF Poll, front
<1>3. \A d \in Clients : pc'[d] = IF d = c THEN p ELSE pc[d]
  BY <1>1 DEF FrontInv, RoleInv
<1>4. queue \in Seq(Clients)
  BY DEF FrontInv, ProbeInv
<1>5. /\ queue' \in Seq(Clients)
      /\ queue # << >> => queue' # << >> /\ Head(queue') = Head(queue)
  <2>1. CASE queue' = Append(queue, c)
    <3>1. Append(queue, c) \in Seq(Clients) /\ Len(Append(queue, c)) = Len(queue) + 1 /\ Len(queue) \in Nat
      BY <1>4
    <3>2. queue # << >> => Append(queue, c)[1] = queue[1]
      BY <1>4
    <3>3. QED
      BY <1>4, <2>1, <3>1, <3>2
  <2>2. QED
    BY <1>1, <1>4, <2>1
<1>6. ProbeInv'
  BY <1>3, <1>5 DEF FrontInv, ProbeInv, Probing
<1>7. RoleInv'
  BY <1>1, <1>2, <1>3 DEF FrontInv, RoleInv, senders
<1>8. AgeInv'
  BY <1>2, <1>3 DEF FrontInv, AgeInv, ClockInv, TransitInv, CacheInv
<1>9. QED
  BY <1>6, <1>7, <1>8 DEF FrontInv

\* The lock is let go: with an answer from the cache, or by a poller that hangs up.
LEMMA LeaveInv ==
  ASSUME FrontInv, NEW c \in Clients, FromCache(c) \/ Hangup(c) PROVE FrontInv'
<1>1. PICK p \in {"answered", "idle"} : pc' = [pc EXCEPT ![c] = p] /\ Release(c)
  BY DEF FromCache, Hangup, Answer
<1>2. UNCHANGED <<fleet, s3up, cache, age, transit, since>> /\ DOMAIN answer' = DOMAIN answer
  BY DEF FromCache, Hangup, Answer, front
<1>3. \A d \in Clients : pc'[d] = IF d = c THEN p ELSE pc[d]
  BY <1>1 DEF FrontInv, RoleInv
<1>4. ProbeInv'
  BY <1>1, ReleaseInv DEF Probing
<1>5. RoleInv'
  BY <1>1, <1>2, <1>3 DEF FrontInv, RoleInv, senders
<1>6. AgeInv'
  BY <1>2, <1>3 DEF FrontInv, AgeInv, ClockInv, TransitInv, CacheInv
<1>7. QED
  BY <1>4, <1>5, <1>6 DEF FrontInv

LEMMA StartProbeInv ==
  ASSUME FrontInv, NEW c \in Clients, StartProbe(c) PROVE FrontInv'
<1>1. pc' = [pc EXCEPT ![c] = "probe"] /\ Holds(c) /\ UNCHANGED <<fleet, readiness, answer>>
  BY DEF StartProbe, front
<1>2. UNCHANGED <<s3up, queue, cache, age, transit, since>>
  BY <1>1 DEF readiness
<1>3. \A d \in Clients : pc'[d] = IF d = c THEN "probe" ELSE pc[d]
  BY <1>1 DEF FrontInv, RoleInv
<1>4. ProbeInv'
  BY <1>1, <1>2, <1>3 DEF FrontInv, ProbeInv, Holds
<1>5. RoleInv'
  BY <1>1, <1>2, <1>3 DEF FrontInv, RoleInv, senders
<1>6. AgeInv'
  BY <1>2, <1>3 DEF FrontInv, AgeInv, ClockInv, TransitInv, CacheInv
<1>7. QED
  BY <1>4, <1>5, <1>6 DEF FrontInv

LEMMA S3AnswersInv ==
  ASSUME FrontInv, NEW c \in Clients, S3Answers(c) PROVE FrontInv'
<1> DEFINE p == IF s3up THEN "up" ELSE "down"
<1>1. /\ pc' = [pc EXCEPT ![c] = p] /\ pc[c] = "probe" /\ transit' = 0
      /\ UNCHANGED <<fleet, answer, s3up, queue, cache, age, since>>
  BY DEF S3Answers, front
<1>2. \A d \in Clients : pc'[d] = IF d = c THEN p ELSE pc[d]
  BY <1>1 DEF FrontInv, RoleInv
<1>3. \A d \in Clients : pc[d] \in Probing => d = c
  BY <1>1 DEF FrontInv, ProbeInv, Probing
<1>4. ProbeInv'
  BY <1>1, <1>2, <1>3 DEF FrontInv, ProbeInv, Probing
<1>5. RoleInv'
  BY <1>1, <1>2 DEF FrontInv, RoleInv, senders
<1>6. AgeInv'
  <2>1. \A d \in Clients : (pc'[d] = "up" => since.up = 0) /\ (pc'[d] = "down" => since.down = 0)
    BY <1>2, <1>3 DEF FrontInv, AgeInv, ClockInv, Probing
  <2>2. 0 \in 0 .. MaxTransit
    BY FrontAssumption DEF FrontAssumption
  <2> HIDE DEF p
  <2>3. ClockInv'
    BY <1>1, <2>2 DEF FrontInv, AgeInv, ClockInv
  <2>4. TransitInv'
    BY <1>1, <2>1 DEF TransitInv
  <2>5. CacheInv'
    BY <1>1 DEF FrontInv, AgeInv, CacheInv
  <2>6. QED
    BY <2>3, <2>4, <2>5 DEF AgeInv
<1>7. QED
  BY <1>4, <1>5, <1>6 DEF FrontInv

LEMMA EndProbeInv ==
  ASSUME FrontInv, NEW c \in Clients, EndProbe(c) PROVE FrontInv'
<1>1. /\ pc' = [pc EXCEPT ![c] = "answered"] /\ Release(c) /\ pc[c] \in {"up", "down"}
      /\ cache' = {pc[c] = "up"} /\ age' = 0 /\ DOMAIN answer' = DOMAIN answer
      /\ UNCHANGED <<fleet, s3up, transit, since>>
  BY DEF EndProbe, Answer, front
<1>2. \A d \in Clients : pc'[d] = IF d = c THEN "answered" ELSE pc[d]
  BY <1>1 DEF FrontInv, RoleInv
<1>3. ProbeInv'
  BY <1>1, ReleaseInv DEF Probing
<1>4. RoleInv'
  BY <1>1, <1>2 DEF FrontInv, RoleInv, senders
<1>5. AgeInv'
  <2>1. transit \in Nat /\ transit <= MaxTransit /\ MaxTransit \in Nat /\ ttl \in Nat /\ since \in [up: Nat, down: Nat]
    BY FrontAssumption DEF FrontAssumption, FrontInv, AgeInv, ClockInv
  <2>2. ClockInv'
    BY <1>1, <2>1 DEF FrontInv, AgeInv, ClockInv
  <2>3. TransitInv'
    BY <1>1, <1>2 DEF FrontInv, AgeInv, TransitInv
  <2>4. (pc[c] = "up" => since.up <= transit) /\ (pc[c] = "down" => since.down <= transit)
    BY DEF FrontInv, AgeInv, TransitInv
  <2>5. CASE pc[c] = "up"
    <3>1. cache' = {TRUE}
      BY <1>1, <2>5
    <3>2. since'.up <= age' + MaxTransit
      BY <1>1, <2>1, <2>4, <2>5
    <3>3. QED
      BY <2>2, <2>3, <3>1, <3>2 DEF CacheInv, AgeInv
  <2>6. CASE pc[c] = "down"
    <3>1. cache' = {FALSE}
      BY <1>1, <2>6
    <3>2. since'.down <= age' + MaxTransit
      BY <1>1, <2>1, <2>4, <2>6
    <3>3. QED
      BY <2>2, <2>3, <3>1, <3>2 DEF CacheInv, AgeInv
  <2>7. QED
    BY <1>1, <2>5, <2>6
<1>6. QED
  BY <1>3, <1>4, <1>5 DEF FrontInv

LEMMA Clocks ==
  ASSUME FrontInv
  PROVE  /\ ttl \in Nat \ {0} /\ MaxTransit \in Nat
         /\ age \in Nat /\ age <= ttl /\ transit \in Nat /\ transit <= MaxTransit
         /\ since.up \in Nat /\ since.down \in Nat
  BY FrontAssumption DEF FrontAssumption, FrontInv, AgeInv, ClockInv

\* Time passes for the cache, for an answer on its way and for the history alike.
LEMMA TickInv ==
  ASSUME FrontInv, Tick PROVE FrontInv'
<1> DEFINE inTransit == \E c \in Clients : pc[c] \in {"up", "down"}
<1>0. /\ ttl \in Nat \ {0} /\ MaxTransit \in Nat /\ Horizon \in Nat /\ Horizon = ttl + MaxTransit + 1
      /\ age \in Nat /\ age <= ttl /\ transit \in Nat /\ transit <= MaxTransit
      /\ since.up \in Nat /\ since.down \in Nat
  BY FrontAssumption DEF FrontAssumption, FrontInv, AgeInv, ClockInv, Horizon
<1>1. /\ inTransit => transit < MaxTransit
      /\ age' = Min({age + 1, ttl})
      /\ transit' = IF inTransit THEN transit + 1 ELSE 0
      /\ since' = [up |-> IF s3up THEN 0 ELSE Min({since.up + 1, Horizon}),
                   down |-> IF s3up THEN Min({since.down + 1, Horizon}) ELSE 0]
      /\ UNCHANGED <<fleet, pc, answer, s3up, queue, cache>>
  BY DEF Tick, front
<1>2. age' \in 0 .. ttl /\ age' <= age + 1 /\ (age' < ttl => age' = age + 1)
  BY <1>0, <1>1, OfTwo
<1>3. transit' \in 0 .. MaxTransit
  BY <1>0, <1>1
<1>4. /\ since'.up \in Nat /\ since'.up <= since.up + 1 /\ since'.down \in Nat /\ since'.down <= since.down + 1
      /\ s3up => since'.up = 0
      /\ ~s3up => since'.down = 0
  <2>1. /\ Min({since.up + 1, Horizon}) \in Nat /\ Min({since.up + 1, Horizon}) <= since.up + 1
        /\ Min({since.down + 1, Horizon}) \in Nat /\ Min({since.down + 1, Horizon}) <= since.down + 1
    BY <1>0, OfTwo
  <2> DEFINE u == Min({since.up + 1, Horizon})
             d == Min({since.down + 1, Horizon})
  <2> HIDE DEF u, d
  <2>2. since' = [up |-> IF s3up THEN 0 ELSE u, down |-> IF s3up THEN d ELSE 0]
    BY <1>1 DEF u, d
  <2>3. u \in Nat /\ u <= since.up + 1 /\ d \in Nat /\ d <= since.down + 1
    BY <2>1 DEF u, d
  <2>4. QED
    BY <1>0, <2>2, <2>3
<1>5. ProbeInv' /\ RoleInv'
  BY <1>1 DEF FrontInv, ProbeInv, RoleInv, senders
<1>6. ClockInv'
  <2>1. since' \in [up: Nat, down: Nat]
    BY <1>1, <1>4
  <2>2. QED
    BY <1>1, <1>2, <1>3, <1>4, <2>1 DEF FrontInv, AgeInv, ClockInv
<1>7. TransitInv'
  <2> SUFFICES ASSUME NEW c \in Clients
               PROVE  (pc[c] = "up" => since'.up <= transit') /\ (pc[c] = "down" => since'.down <= transit')
    BY <1>1 DEF TransitInv
  <2>1. pc[c] \in {"up", "down"} => transit' = transit + 1
    BY <1>1
  <2>2. (pc[c] = "up" => since.up <= transit) /\ (pc[c] = "down" => since.down <= transit)
    BY DEF FrontInv, AgeInv, TransitInv
  <2>3. QED
    BY <1>0, <1>4, <2>1, <2>2
<1>8. CacheInv'
  <2>1. ASSUME TRUE \in cache, age' < ttl PROVE since'.up <= age' + MaxTransit
    <3>1. age < ttl /\ age' = age + 1
      BY <1>0, <1>2, <2>1
    <3>2. since.up <= age + MaxTransit
      BY <2>1, <3>1 DEF FrontInv, AgeInv, CacheInv
    <3>3. QED
      BY <1>0, <1>4, <3>1, <3>2
  <2>2. ASSUME FALSE \in cache, age' < ttl PROVE since'.down <= age' + MaxTransit
    <3>1. age < ttl /\ age' = age + 1
      BY <1>0, <1>2, <2>2
    <3>2. since.down <= age + MaxTransit
      BY <2>2, <3>1 DEF FrontInv, AgeInv, CacheInv
    <3>3. QED
      BY <1>0, <1>4, <3>1, <3>2
  <2>3. QED
    BY <1>1, <2>1, <2>2 DEF FrontInv, AgeInv, CacheInv
<1>9. QED
  BY <1>5, <1>6, <1>7, <1>8 DEF FrontInv, AgeInv

LEMMA TurnInv ==
  ASSUME FrontInv, S3Turns PROVE FrontInv'
<1>1. /\ s3up' = ~s3up
      /\ since' = IF s3up THEN [since EXCEPT !.down = 0] ELSE [since EXCEPT !.up = 0]
      /\ UNCHANGED <<fleet, pc, answer, queue, cache, age, transit>>
  BY DEF S3Turns, front
<1>0. since \in [up: Nat, down: Nat] /\ s3up \in BOOLEAN /\ MaxTransit \in Nat /\ age \in Nat /\ transit \in Nat
  BY FrontAssumption DEF FrontAssumption, FrontInv, AgeInv, ClockInv
<1>2. /\ since' \in [up: Nat, down: Nat]
      /\ since'.up <= since.up /\ since'.down <= since.down
      /\ s3up' => since'.up = 0
      /\ ~s3up' => since'.down = 0
  <2>1. CASE s3up
    BY <1>0, <1>1, <2>1 DEF FrontInv, AgeInv, ClockInv
  <2>2. CASE ~s3up
    BY <1>0, <1>1, <2>2 DEF FrontInv, AgeInv, ClockInv
  <2>3. QED
    BY <2>1, <2>2
<1>3. ProbeInv' /\ RoleInv'
  BY <1>1 DEF FrontInv, ProbeInv, RoleInv, senders
<1>4. ClockInv'
  BY <1>1, <1>2 DEF FrontInv, AgeInv, ClockInv
<1>5. TransitInv'
  BY <1>0, <1>1, <1>2 DEF FrontInv, AgeInv, TransitInv
<1>6. CacheInv'
  <2>1. TRUE \in cache /\ age < ttl => since'.up <= age + MaxTransit
    BY <1>0, <1>2 DEF FrontInv, AgeInv, CacheInv
  <2>2. FALSE \in cache /\ age < ttl => since'.down <= age + MaxTransit
    BY <1>0, <1>2 DEF FrontInv, AgeInv, CacheInv
  <2>3. QED
    BY <1>1, <2>1, <2>2 DEF FrontInv, AgeInv, CacheInv
<1>7. QED
  BY <1>3, <1>4, <1>5, <1>6 DEF FrontInv, AgeInv

LEMMA FrontInvAlways == Spec => []FrontInv
<1>1. Init => FrontInv
  <2> SUFFICES ASSUME Init PROVE FrontInv
    OBVIOUS
  <2>0. ttl \in Nat /\ MaxTransit \in Nat /\ Horizon \in Nat
    BY FrontAssumption DEF FrontAssumption, Horizon
  <2>1. pc = [c \in Clients |-> "idle"] /\ queue = << >> /\ cache = {} /\ age = ttl /\ transit = 0
    BY DEF Init
  <2>2. ProbeInv
    BY <2>1 DEF ProbeInv, Probing
  <2>3. RoleInv
    BY DEF Init, RoleInv
  <2>4. ClockInv
    <3>0. s3up \in BOOLEAN
      BY DEF Init
    <3>1. s3up \in BOOLEAN /\ age \in 0 .. ttl /\ transit \in 0 .. MaxTransit
      BY ONLY <2>0, <2>1, <3>0
    <3>2. CASE s3up
      BY <2>0, <3>1, <3>2 DEF Init, ClockInv
    <3>3. CASE ~s3up
      BY <2>0, <3>1, <3>3 DEF Init, ClockInv
    <3>4. QED
      BY <3>2, <3>3
  <2>5. TransitInv /\ CacheInv
    BY <2>1 DEF TransitInv, CacheInv
  <2>6. QED
    BY <2>2, <2>3, <2>4, <2>5 DEF FrontInv, AgeInv
<1>2. FrontInv /\ [Next]_vars => FrontInv'
  <2> SUFFICES ASSUME FrontInv, [Next]_vars PROVE FrontInv'
    OBVIOUS
  <2>1. CASE WallTick \/ (\E ok \in BOOLEAN : FlushEnds(ok)) \/ UNCHANGED vars
    <3>1. UNCHANGED <<fleet, pc, answer, s3up, queue, cache, age, transit, since>>
      BY <2>1 DEF WallTick, FlushEnds, vars, front, readiness
    <3>2. QED
      BY <3>1 DEF FrontInv, ProbeInv, RoleInv, AgeInv, ClockInv, TransitInv, CacheInv, senders
  <2>2. QED
    BY <2>1, RequestInv, PollInv, LeaveInv, StartProbeInv, S3AnswersInv, EndProbeInv, TickInv, TurnInv
    DEF Next, Step
<1>3. QED
  BY <1>1, <1>2, PTL DEF Spec

-----------------------------------------------------------------------------
\* However many pollers ask at the same time and hang up, there is one probe at a
\* time and none within the TTL of an outcome (sink.rs:39-47, 102-113).
THEOREM OneProbeAlways == Spec => OneProbe
<1> DEFINE Once == \A c \in Clients : pc[c] = "lock" /\ pc'[c] = "probe" =>
                     /\ \A d \in Clients : pc[d] \notin {"probe", "up", "down"}
                     /\ cache # {} => age = ttl
<1>1. FrontInv /\ [Next]_vars => [Once]_vars
  <2> SUFFICES ASSUME FrontInv, Next, NEW c \in Clients, pc[c] = "lock", pc'[c] = "probe"
               PROVE  /\ \A d \in Clients : pc[d] \notin {"probe", "up", "down"}
                      /\ cache # {} => age = ttl
    OBVIOUS
  <2>0. DOMAIN pc = Clients
    BY DEF FrontInv, RoleInv
  <2>1. StartProbe(c)
    BY <2>0 DEF Next, Step, Send, Arrive, TooLarge, Done, Poll, FromCache, StartProbe, S3Answers,
         EndProbe, Hangup, Answer, Tick, WallTick, S3Turns, FlushEnds
  <2>2. \A d \in Clients : pc[d] \notin Probing
    BY <2>1, OneProber DEF StartProbe, Probing
  <2>3. age \in 0 .. ttl /\ ttl \in Nat /\ (cache # {} => ~(age < ttl))
    BY <2>1, FrontAssumption DEF StartProbe, Fresh, FrontInv, AgeInv, ClockInv, FrontAssumption
  <2>4. QED
    BY <2>2, <2>3 DEF Probing
<1>2. QED
  BY <1>1, FrontInvAlways, PTL DEF Spec, OneProbe

\* /ready is never staler than the TTL and the way back of one probe, for every
\* length of both (sink.rs:35-36).
THEOREM ReadyFreshAlways == Spec => ReadyFresh
<1> DEFINE Timely == \A c \in pollers : answer[c] = "" =>
                       /\ answer'[c] = "ready" => since.up <= ttl + MaxTransit
                       /\ answer'[c] = "not ready" => ~last_flush_ok \/ since.down <= ttl + MaxTransit
<1>1. FrontInv /\ [Next]_vars => [Timely]_vars
  <2> SUFFICES ASSUME FrontInv, Next, NEW c \in pollers, answer[c] = ""
               PROVE  /\ answer'[c] = "ready" => since.up <= ttl + MaxTransit
                      /\ answer'[c] = "not ready" => ~last_flush_ok \/ since.down <= ttl + MaxTransit
    OBVIOUS
  <2>0. c \in Clients /\ c \notin senders /\ DOMAIN answer = Clients /\ pc[c] # "sent"
    BY FrontAssumption DEF FrontAssumption, FrontInv, RoleInv, pollers, senders
  <2>1. /\ ttl \in Nat /\ MaxTransit \in Nat /\ age \in Nat /\ transit \in Nat /\ transit <= MaxTransit
        /\ since.up \in Nat /\ since.down \in Nat
    BY Clocks
  <2>2. CASE answer'[c] = answer[c]
    BY <2>2
  <2>3. CASE FromCache(c)
    <3>1. PICK ok \in cache : answer' = [answer EXCEPT ![c] = IF ok THEN "ready" ELSE "not ready"]
      BY <2>3 DEF FromCache, Answer
    <3>2. age < ttl
      BY <2>3 DEF FromCache, Fresh
    <3>3. CASE cache = {TRUE}
      <4>1. since.up <= age + MaxTransit
        BY <3>2, <3>3 DEF FrontInv, AgeInv, CacheInv
      <4>2. since.up <= ttl + MaxTransit
        BY ONLY <2>1, <3>2, <4>1
      <4>3. answer'[c] = "ready"
        BY <2>0, <3>1, <3>3
      <4>4. QED
        BY <4>2, <4>3
    <3>4. CASE cache = {FALSE}
      <4>1. since.down <= age + MaxTransit
        BY <3>2, <3>4 DEF FrontInv, AgeInv, CacheInv
      <4>2. since.down <= ttl + MaxTransit
        BY ONLY <2>1, <3>2, <4>1
      <4>3. answer'[c] = "not ready"
        BY <2>0, <3>1, <3>4
      <4>4. QED
        BY <4>2, <4>3
    <3>5. QED
      BY <3>1, <3>3, <3>4 DEF FrontInv, AgeInv, CacheInv
  <2>4. CASE EndProbe(c)
    <3>1. /\ pc[c] \in {"up", "down"}
          /\ answer' = [answer EXCEPT ![c] = IF pc[c] = "up" THEN "ready" ELSE "not ready"]
      BY <2>4 DEF EndProbe, Answer
    <3>2. (pc[c] = "up" => since.up <= transit) /\ (pc[c] = "down" => since.down <= transit)
      BY <2>0 DEF FrontInv, AgeInv, TransitInv
    <3>3. CASE pc[c] = "up"
      <4>1. since.up <= ttl + MaxTransit
        BY ONLY <2>1, <3>2, <3>3
      <4>2. answer'[c] = "ready"
        BY <2>0, <3>1, <3>3
      <4>3. QED
        BY <4>1, <4>2
    <3>4. CASE pc[c] = "down"
      <4>1. since.down <= ttl + MaxTransit
        BY ONLY <2>1, <3>2, <3>4
      <4>2. answer'[c] = "not ready"
        BY <2>0, <3>1, <3>4
      <4>3. QED
        BY <4>1, <4>2
    <3>5. QED
      BY <3>1, <3>3, <3>4
  <2>5. CASE Poll(c)
    BY <2>0, <2>5 DEF Poll
  <2>6. CASE \E d \in Clients : d # c /\ (Poll(d) \/ FromCache(d) \/ EndProbe(d) \/ Arrive(d) \/ TooLarge(d) \/ Done(d))
    <3>1. PICK d \in Clients : d # c /\ (Poll(d) \/ FromCache(d) \/ EndProbe(d) \/ Arrive(d) \/ TooLarge(d) \/ Done(d))
      BY <2>6
    <3>2. answer'[c] = answer[c]
      BY <2>0, <3>1 DEF Poll, FromCache, EndProbe, Answer, Arrive, TooLarge, Done
    <3>3. QED
      BY <2>2, <3>2
  <2>7. CASE Done(c)
    BY <2>0, <2>7 DEF Done
  <2>8. CASE UNCHANGED answer
    BY <2>2, <2>8
  <2>9. ~Arrive(c) /\ ~TooLarge(c)
    BY <2>0 DEF Arrive, TooLarge
  <2>10. ASSUME NEW d \in Clients, Send(d) \/ StartProbe(d) \/ S3Answers(d) \/ Hangup(d) PROVE UNCHANGED answer
    BY <2>10 DEF Send, StartProbe, S3Answers, Hangup
  <2>11. Tick \/ WallTick \/ S3Turns \/ (\E ok \in BOOLEAN : FlushEnds(ok)) => UNCHANGED answer
    BY DEF Tick, WallTick, S3Turns, FlushEnds
  <2>12. QED
    BY <2>3, <2>4, <2>5, <2>6, <2>7, <2>8, <2>9, <2>10, <2>11 DEF Next, Step
<1>2. QED
  BY <1>1, FrontInvAlways, PTL DEF Spec, ReadyFresh
===========================================================================
