---------------------------- MODULE GatewayFront ----------------------------
(***************************************************************************)
(* What a request meets before its handler, and the readiness check        *)
(* (crates/s4logs-gateway/src/{handlers,api,sink}.rs).                     *)
(*                                                                         *)
(* Senders sign API requests with their own clocks; what carries a request *)
(* may delay it, rewrite it to another form of the same request, or damage *)
(* it.  Pollers ask /ready, which probes S3 at most once per TTL: the      *)
(* probe is awaited while the cache is locked, and a poller that hangs up  *)
(* drops its handler there.                                                *)
(***************************************************************************)
EXTENDS RequestAuth

CONSTANTS
  Clients,
  Fleets,      \* senders and pollers among them
  Starts,      \* dates on which the gateway may be observed
  Skews,       \* by how many slots a sender's clock may be off
  ttl,         \* ProbedStore: ticks for which a probe is served from the cache
  MaxTransit,  \* ticks that an answer of S3 may take to come back
  MaxWall,     \* bound on slots that pass
  MaxHangups   \* bound on pollers that hang up

ASSUME FrontAssumption ==
  /\ \A f \in Fleets : f[1] \subseteq Clients /\ f[2] \subseteq Clients \ f[1]
  /\ Starts \subseteq Nat \X (1 .. 12) \X (1 .. 31)
  /\ Skews \subseteq Int
  /\ ttl \in Nat \ {0} /\ MaxTransit \in Nat /\ MaxWall \in Nat /\ MaxHangups \in Nat

VARIABLES
  auth,      \* AuthMode
  fleet,     \* clients that send API requests, and clients that ask /ready
  start,     \* the date at the beginning
  wall,      \* SystemTime: slots since the last slot of that date
  pc,        \* per client
  sent,      \* per sender: the request as it was sent
  got,       \* per sender: the request as it arrived
  answer,    \* per client: its last answer
  s3up,      \* does S3 answer?
  last_flush_ok,  \* BufferManager
  queue,     \* the cache's mutex: its holder and those that wait, in order
  cache,     \* outcome of the last probe, if there is one
  age,       \* Instant: ticks since then, as far as ttl
  transit,   \* ticks for which the answer to a probe is under way
  hangups,
  (* history *)
  since      \* ticks since S3 was last up and last down, as far as it matters

front == <<auth, fleet, start, wall, sent, got>>
readiness == <<s3up, last_flush_ok, queue, cache, age, transit, hangups, since>>
vars == <<front, readiness, pc, answer>>

senders == fleet[1]
pollers == fleet[2]

-----------------------------------------------------------------------------
(* The calendar *)

IsLeap(y) == y % 4 = 0 /\ (y % 100 # 0 \/ y % 400 = 0)

DaysIn(y, m) ==
  CASE m = 2 -> IF IsLeap(y) THEN 29 ELSE 28 [] m \in {4, 6, 9, 11} -> 30 [] OTHER -> 31

NextDate(date) ==
  CASE date[3] < DaysIn(date[1], date[2]) -> <<date[1], date[2], date[3] + 1>>
    [] date[2] < 12 -> <<date[1], date[2] + 1, 1>>
    [] OTHER -> <<date[1] + 1, 1, 1>>

\* Days from 1970-01-01, counted year by year and month by month.
DaysBefore(date) ==
  MapThenSumSet(LAMBDA y : IF IsLeap(y) THEN 366 ELSE 365, 1970 .. date[1] - 1)
    + MapThenSumSet(LAMBDA m : DaysIn(date[1], m), 1 .. date[2] - 1) + date[3] - 1

\* The server's time, in slots since 1970.
Now == DaysBefore(start) * Day + Day - 1 + wall

\* The date and slot of a time on the first or the second day.
Stamp(t) == [date |-> IF t \div Day = DaysBefore(start) THEN start ELSE NextDate(start), slot |-> t % Day]

-----------------------------------------------------------------------------
(* Requests *)

Names == {"host", "user-agent", "x-amz-target"}

Target(action) == <<<<"Logs_20140328.", action>>>>

\* A request as its sender makes it, in canonical form.
Plain(stamp, sha256) ==
  [method |-> "POST", path |-> "/", query |-> <<<<1, 1>>, <<2, 0>>>>,
   headers |-> [n \in Names |-> CASE n = "host" -> <<<<"gw">>>>
                                  [] n = "user-agent" -> <<<<"agent", " ", "v1">>, <<"lib">>>>
                                  [] OTHER -> Target("PutLogEvents")],
   amz_date |-> {stamp}, sha256 |-> sha256, body |-> "batch", authorization |-> {}]

\* What the sender's signer makes of it.
SignerCanonical(req) ==
  [method |-> req.method, path |-> req.path, query |-> req.query,
   headers |-> [n \in Names |-> IF n = "user-agent" THEN <<"agent", " ", "v1", ",", "lib">>
                                ELSE req.headers[n][1]],
   payload |-> IF UNSIGNED_PAYLOAD \in req.sha256 THEN UNSIGNED_PAYLOAD ELSE <<"sha256", req.body>>]

Signed(req, stamp, key, secret) ==
  LET scope == <<key, stamp.date, "eu-west-1", "logs", "aws4_request">>
  IN [req EXCEPT !.authorization =
        {[algorithm |-> "AWS4-HMAC-SHA256",
          parts |-> <<<<"Credential", scope>>, <<"SignedHeaders", Names>>,
                      <<"Signature", Mac(secret, stamp, scope, SignerCanonical(req))>>>>]}]

Payloads == {{}, {<<"sha256", "batch">>}, {UNSIGNED_PAYLOAD}}

\* Requests that are signed as they should be.
WellSigned(stamp) == {Signed(Plain(stamp, h), stamp, access_key, secret_key) : h \in Payloads}

\* Requests of senders that are set up otherwise: not at all, with another key or
\* secret, for another algorithm or scope, without a part or a date, or with one
\* that is none.
OtherwiseSigned(stamp) ==
  LET req == Signed(Plain(stamp, {}), stamp, access_key, secret_key)
      a == CHOOSE x \in req.authorization : TRUE
      With(b) == [req EXCEPT !.authorization = {b}]
  IN {Plain(stamp, {}),
      Signed(Plain(stamp, {}), stamp, "other", secret_key),
      Signed(Plain(stamp, {}), stamp, access_key, "other"),
      With([a EXCEPT !.algorithm = "AWS4-ECDSA-P256-SHA256"]),
      With([a EXCEPT !.parts = Tail(@)]),
      With([a EXCEPT !.parts[1][2] = Front(@)]),
      With([a EXCEPT !.parts[2][2] = {}]),
      With([a EXCEPT !.parts[1][2][2] = <<1999, 1, 1>>]),
      [req EXCEPT !.amz_date = {}],
      [req EXCEPT !.amz_date = {[stamp EXCEPT !.date[2] = 13]}]}

\* Other forms of the same request: the query in another order or without an empty
\* value's `=`, more blanks, lines of a header made one, parts in another order, a
\* header that is not signed.
Rewritten(req) ==
  {req, [req EXCEPT !.query = Reverse(@)], [req EXCEPT !.query[2] = <<2>>],
   [req EXCEPT !.headers["user-agent"] = <<<<" ", "agent", "\t", " ", "v1">>, <<"lib", " ">>>>],
   [req EXCEPT !.headers["user-agent"] = <<<<"agent", " ", "v1", ",", "lib">>>>],
   [req EXCEPT !.authorization = {[a EXCEPT !.parts = Reverse(@)] : a \in @}],
   [req EXCEPT !.headers = [n \in Names \cup {"via"} |-> IF n = "via" THEN <<<<"lb">>>> ELSE @[n]]]}

\* Damage: another request, or less of this one.
DamagedForms(req) ==
  {[req EXCEPT !.method = "PUT"], [req EXCEPT !.query = Tail(@)],
   [req EXCEPT !.headers["user-agent"] = <<<<" ">>>> \o @],
   [req EXCEPT !.headers["x-amz-target"] = Target("CreateLogGroup")],
   [req EXCEPT !.headers["x-amz-target"] = Target("GetLogEvents")],
   [req EXCEPT !.headers = [n \in Names \ {"x-amz-target"} |-> @[n]]],
   [req EXCEPT !.body = "other"], [req EXCEPT !.body = "cut"]}

-----------------------------------------------------------------------------
(* The way to the handler *)

Supported ==
  {"PutLogEvents", "CreateLogGroup", "CreateLogStream", "DescribeLogGroups", "DescribeLogStreams"}

\* dispatch and parse_body; "handled": a handler has the request.
Dispatch(req) ==
  CASE "x-amz-target" \notin DOMAIN req.headers -> "MissingAction"
    [] req.headers["x-amz-target"][1][2] \notin Supported -> "InvalidAction"
    [] req.body = "cut" -> "SerializationException"
    [] OTHER -> "handled"

\* auth_middleware
Authenticate(req) == IF auth = "None" THEN "Ok" ELSE verify(req, Now)

Respond(req) ==
  LET v == Authenticate(req)
  IN CASE v = "Ok" -> Dispatch(req)
       [] v = "MissingToken" -> "MissingAuthenticationTokenException"
       [] OTHER -> "InvalidSignatureException"

Send(c) ==
  /\ c \in senders /\ pc[c] = "idle"
  /\ \E skew \in Skews :
       LET stamp == Stamp(Now + skew)
       IN \E r \in WellSigned(stamp) \cup (IF skew = 0 THEN OtherwiseSigned(stamp) ELSE {}) :
            sent' = [sent EXCEPT ![c] = <<r, Now + skew>>]
  /\ pc' = [pc EXCEPT ![c] = "sent"]
  /\ UNCHANGED <<auth, fleet, start, wall, got, answer, readiness>>

\* The request arrives, is read and answered.
Arrive(c) ==
  /\ pc[c] = "sent"
  /\ \E r \in Rewritten(sent[c][1]) \cup DamagedForms(sent[c][1]) :
       /\ got' = [got EXCEPT ![c] = <<r>>]
       /\ answer' = [answer EXCEPT ![c] = Respond(r)]
  /\ pc' = [pc EXCEPT ![c] = "answered"]
  /\ UNCHANGED <<auth, fleet, start, wall, sent, readiness>>

\* The body is longer than MAX_REQUEST_BODY_BYTES, or cannot be read.
TooLarge(c) ==
  /\ pc[c] = "sent"
  /\ answer' = [answer EXCEPT ![c] = "RequestEntityTooLargeException"]
  /\ pc' = [pc EXCEPT ![c] = "answered"]
  /\ UNCHANGED <<front, readiness>>

\* The client goes on with its next request.
Done(c) ==
  /\ pc[c] = "answered"
  /\ pc' = [pc EXCEPT ![c] = "idle"]
  /\ sent' = [sent EXCEPT ![c] = << >>] /\ got' = [got EXCEPT ![c] = << >>]
  /\ answer' = [answer EXCEPT ![c] = ""]
  /\ UNCHANGED <<auth, fleet, start, wall, readiness>>

-----------------------------------------------------------------------------
(* Readiness *)

\* BufferManager::ready: a failed flush answers for S3; else the probe's cache.
Poll(c) ==
  /\ c \in pollers /\ pc[c] = "idle"
  /\ \/ /\ last_flush_ok
        /\ pc' = [pc EXCEPT ![c] = "lock"] /\ queue' = Append(queue, c)
        /\ UNCHANGED answer
     \/ /\ ~last_flush_ok
        /\ pc' = [pc EXCEPT ![c] = "answered"] /\ answer' = [answer EXCEPT ![c] = "not ready"]
        /\ UNCHANGED queue
  /\ UNCHANGED <<front, s3up, last_flush_ok, cache, age, transit, hangups, since>>

\* Mutant: the cache is not locked while the probe is awaited.
AnyWaiter(c) == c \in Range(queue)

\* The mutex is held by the first in the queue.
Holds(c) == queue # << >> /\ Head(queue) = c

\* Mutant: a good outcome is served for ever.
FreshIfGood == cache # {} /\ (age < ttl \/ TRUE \in cache)

\* Mutant: a bad outcome is served for ever.
FreshIfBad == cache # {} /\ (age < ttl \/ FALSE \in cache)

Fresh == cache # {} /\ age < ttl

\* c leaves the queue; the next one, if any, has the lock.
Release(c) == \E i \in DOMAIN queue : queue[i] = c /\ queue' = RemoveAt(queue, i)

Answer(c, ok) ==
  /\ answer' = [answer EXCEPT ![c] = IF ok THEN "ready" ELSE "not ready"]
  /\ pc' = [pc EXCEPT ![c] = "answered"]
  /\ Release(c)

\* ProbedStore::ready, from the cache.
FromCache(c) ==
  /\ pc[c] = "lock" /\ Holds(c) /\ Fresh
  /\ \E ok \in cache : Answer(c, ok)
  /\ UNCHANGED <<front, s3up, last_flush_ok, cache, age, transit, hangups, since>>

StartProbe(c) ==
  /\ pc[c] = "lock" /\ Holds(c) /\ ~Fresh
  /\ pc' = [pc EXCEPT ![c] = "probe"]
  /\ UNCHANGED <<front, readiness, answer>>

\* S3 answers the probe, or the client gives up on it.
S3Answers(c) ==
  /\ pc[c] = "probe"
  /\ pc' = [pc EXCEPT ![c] = IF s3up THEN "up" ELSE "down"]
  /\ transit' = 0
  /\ UNCHANGED <<front, answer, s3up, last_flush_ok, queue, cache, age, hangups, since>>

\* The outcome is cached with the time at which it came back.
EndProbe(c) ==
  /\ pc[c] \in {"up", "down"}
  /\ cache' = {pc[c] = "up"} /\ age' = 0
  /\ Answer(c, pc[c] = "up")
  /\ UNCHANGED <<front, s3up, last_flush_ok, transit, hangups, since>>

\* A poller hangs up: its handler is dropped where it waits, and the lock with it.
Hangup(c) ==
  /\ pc[c] \in {"lock", "probe", "up", "down"} /\ hangups < MaxHangups
  /\ hangups' = hangups + 1
  /\ pc' = [pc EXCEPT ![c] = "idle"]
  /\ Release(c)
  /\ UNCHANGED <<front, answer, s3up, last_flush_ok, cache, age, transit, since>>

-----------------------------------------------------------------------------
(* Clocks and the world, as far as some client depends on them *)

Horizon == ttl + MaxTransit + 1

\* Time goes on, no longer than the answer to a probe may be under way.
Tick ==
  LET Passed(n) == Min({n + 1, Horizon})
      inTransit == \E c \in Clients : pc[c] \in {"up", "down"}
  IN /\ pollers # {} /\ (inTransit => transit < MaxTransit)
     /\ age' = Min({age + 1, ttl})
     /\ transit' = IF inTransit THEN transit + 1 ELSE 0
     /\ since' = [up |-> IF s3up THEN 0 ELSE Passed(since.up),
                  down |-> IF s3up THEN Passed(since.down) ELSE 0]
     /\ UNCHANGED <<front, pc, answer, s3up, last_flush_ok, queue, cache, hangups>>

WallTick ==
  /\ senders # {} /\ wall < MaxWall
  /\ wall' = wall + 1
  /\ UNCHANGED <<auth, fleet, start, sent, got, pc, answer, readiness>>

\* S3 goes down or comes up.
S3Turns ==
  /\ pollers # {}
  /\ s3up' = ~s3up
  /\ since' = IF s3up THEN [since EXCEPT !.down = 0] ELSE [since EXCEPT !.up = 0]
  /\ UNCHANGED <<front, pc, answer, last_flush_ok, queue, cache, age, transit, hangups>>

\* A flush ends, well or not.
FlushEnds(ok) ==
  /\ pollers # {}
  /\ last_flush_ok' = ok
  /\ UNCHANGED <<front, pc, answer, s3up, queue, cache, age, transit, hangups, since>>

Init ==
  /\ auth \in {"None", "SigV4"} /\ fleet \in Fleets /\ start \in Starts /\ wall = 0
  /\ pc = [c \in Clients |-> "idle"]
  /\ sent = [c \in Clients |-> << >>] /\ got = [c \in Clients |-> << >>]
  /\ answer = [c \in Clients |-> ""]
  /\ s3up \in BOOLEAN /\ last_flush_ok = TRUE
  /\ queue = << >> /\ cache = {} /\ age = ttl /\ transit = 0
  /\ hangups = 0
  /\ since = [up |-> IF s3up THEN 0 ELSE Horizon, down |-> IF s3up THEN Horizon ELSE 0]

\* What the gateway and its pollers do by themselves.
Step(c) ==
  Poll(c) \/ FromCache(c) \/ StartProbe(c) \/ S3Answers(c) \/ EndProbe(c) \/ Done(c)

Next ==
  \/ \E c \in Clients : Send(c) \/ Arrive(c) \/ TooLarge(c) \/ Step(c) \/ Hangup(c)
  \/ Tick \/ WallTick \/ S3Turns \/ \E ok \in BOOLEAN : FlushEnds(ok)

Spec == Init /\ [][Next]_vars

\* Pollers keep asking, calls to S3 return, and time passes.
FairSpec == Spec /\ (\A c \in Clients : WF_vars(Step(c))) /\ WF_vars(Tick)

-----------------------------------------------------------------------------
(* Properties *)

\* g is the request s, in some form; what is not signed may differ.
SameRequest(s, g) ==
  \E r \in Rewritten(s) : g = IF UNSIGNED_PAYLOAD \in s.sha256 THEN [r EXCEPT !.body = g.body] ELSE r

\* c's request was signed with the gateway's key, at most MAX_CLOCK_SKEW ago, or
\* ahead, by its date, and g is that request.
Authentic(c, g) ==
  /\ sent[c][1] \in WellSigned(Stamp(sent[c][2]))
  /\ sent[c][2] - Now <= MAX_CLOCK_SKEW /\ Now - sent[c][2] <= MAX_CLOCK_SKEW
  /\ SameRequest(sent[c][1], g)

Arrives(c) == pc[c] = "sent" /\ got'[c] # << >>

IsRefused(a) == a \in {"MissingAuthenticationTokenException", "InvalidSignatureException"}

\* With SigV4 on, a request gets past the middleware exactly if it was signed with
\* the gateway's credential, in time, and is what was signed: damage on the way
\* never reaches a handler (handlers.rs:127-154, auth.rs:206-258), and no sender
\* is refused for its clock within the skew, across midnight, a leap day or a new
\* year, or for what writes its request in another form (auth.rs:91-115, 206-327).
\* With SigV4 off nothing is refused for its signature.
AuthExact ==
  [][\A c \in senders : Arrives(c) =>
       (~IsRefused(answer'[c]) <=> auth # "SigV4" \/ Authentic(c, got'[c][1]))]_vars

\* Pollers that ask at the same time cause one probe, and none follows an outcome
\* within the TTL; only after a poller hung up S3 may be asked again at once
\* (sink.rs:39-47, 102-113).
OneProbe ==
  [][\A c \in Clients : pc[c] = "lock" /\ pc'[c] = "probe" =>
       /\ \A d \in Clients : pc[d] \notin {"probe", "up", "down"}
       /\ cache # {} => age = ttl]_vars

\* /ready is not staler than the TTL and the way back of one probe: a 200 means that
\* S3 answered within that time; a 503 that the last flush failed or that S3 did
\* not answer at some time within it (sink.rs:35-36).
ReadyFresh ==
  [][\A c \in pollers : answer[c] = "" =>
       /\ answer'[c] = "ready" => since.up <= ttl + MaxTransit
       /\ answer'[c] = "not ready" => ~last_flush_ok \/ since.down <= ttl + MaxTransit]_vars

\* Once S3 stays up and flushes succeed, every poller is told so again and again,
\* whatever was cached before and whoever hung up while holding the lock
\* (buffer.rs:140-142, sink.rs:102-113).
PollersSeeReady ==
  \A c \in Clients :
    <>[](s3up /\ last_flush_ok /\ c \in pollers) => []<>(answer[c] = "ready")
=============================================================================
