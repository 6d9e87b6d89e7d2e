-------------------------- MODULE GatewayApiProofs --------------------------
(***************************************************************************)
(* Proofs about GatewayApi, for every routing configuration, every fleet   *)
(* of agents and every number of failures, hang-ups and restarts.          *)
(*                                                                         *)
(* Part 1: what a handler knows of its batch when it answers.              *)
(* Part 2: paging through a registry that grows.                           *)
(***************************************************************************)
EXTENDS GatewayApi, NaturalSets, FiniteSetTheorems, TLAPS

-----------------------------------------------------------------------------
(* Part 1: answers *)

Places == {"group", "groupFwd", "stream", "streamFwd", "put", "buffer", "putFwd", "done"}

\* Where an agent is says what has become of its batch: push_events is awaited
\* only on a route to S3, and the passthrough of such a route comes after it.
\* While no request is lost, the one push that succeeded is the last.
AgentInv(a) ==
  /\ pc[a] \in Places /\ copies[a] \in Nat /\ kept[a] \in Nat
  /\ pc[a] = "buffer" => ToS3(RouteOf(a))
  /\ pc[a] = "putFwd" => ToCloudwatch(RouteOf(a)) /\ (ToS3(RouteOf(a)) => copies[a] > kept[a])
  /\ a \in acked => /\ pc[a] = "done"
                    /\ RouteOf(a) = "cloudwatch" => a \in delivered \cup refused
                    /\ ToS3(RouteOf(a)) => copies[a] > kept[a]
  /\ copies[a] >= kept[a]
  /\ copies[a] > 0 => ToS3(RouteOf(a))
  /\ ~lost => \/ copies[a] = kept[a]
              \/ copies[a] = kept[a] + 1 /\ pc[a] \in {"putFwd", "done"}

ApiInv ==
  /\ DOMAIN pc = Agents /\ DOMAIN copies = Agents /\ DOMAIN kept = Agents /\ acked \subseteq Agents
  /\ pc = [a \in Agents |-> pc[a]] /\ copies = [a \in Agents |-> copies[a]]
  /\ kept = [a \in Agents |-> kept[a]]
  /\ \A a \in Agents : AgentInv(a)

\* An agent is left alone by the steps of the others.
LEMMA AgentFrame ==
  ASSUME NEW a \in Agents, AgentInv(a), UNCHANGED <<fleet, table>>,
         pc'[a] = pc[a], copies'[a] = copies[a], kept'[a] = kept[a], a \in acked' <=> a \in acked,
         a \in delivered \cup refused => a \in delivered' \cup refused', lost => lost'
  PROVE  AgentInv(a)'
BY DEF AgentInv, RouteOf, Route, Target, ToS3, ToCloudwatch

\* A step of one agent goes to l and leaves n copies and m kept ones, and makes the
\* agent's part of the invariant true.
AgentStep(a, l, n, m) ==
  /\ pc' = [pc EXCEPT ![a] = l] /\ copies' = [copies EXCEPT ![a] = n] /\ kept' = [kept EXCEPT ![a] = m]
  /\ acked' = acked \/ acked' = acked \cup {a}
  /\ delivered \subseteq delivered' /\ refused \subseteq refused'
  /\ lost => lost'
  /\ UNCHANGED <<fleet, table>>
  /\ pc'[a] = l /\ copies'[a] = n /\ kept'[a] = m => AgentInv(a)'

\* It has to answer for that agent alone.
LEMMA OneAgent ==
  ASSUME ApiInv, NEW a \in Agents, NEW l, NEW n, NEW m, AgentStep(a, l, n, m)
  PROVE  ApiInv'
<1>0. /\ pc' = [pc EXCEPT ![a] = l] /\ copies' = [copies EXCEPT ![a] = n] /\ kept' = [kept EXCEPT ![a] = m]
      /\ acked' = acked \/ acked' = acked \cup {a}
      /\ delivered \subseteq delivered' /\ refused \subseteq refused'
      /\ lost => lost'
      /\ UNCHANGED <<fleet, table>>
      /\ pc'[a] = l /\ copies'[a] = n /\ kept'[a] = m => AgentInv(a)'
  BY DEF AgentStep
<1>1. pc'[a] = l /\ copies'[a] = n /\ kept'[a] = m
  BY <1>0 DEF ApiInv
<1>2. \A b \in Agents : b # a => /\ pc'[b] = pc[b] /\ copies'[b] = copies[b] /\ kept'[b] = kept[b]
                                 /\ b \in acked' <=> b \in acked
  BY <1>0 DEF ApiInv
<1>3. ASSUME NEW b \in Agents PROVE AgentInv(b)'
  <2>1. CASE b = a
    BY <1>0, <1>1, <2>1
  <2>2. CASE b # a
    BY <1>0, <1>2, <2>2, AgentFrame DEF ApiInv
  <2>3. QED
    BY <2>1, <2>2
<1>4. QED
  BY <1>0, <1>3 DEF ApiInv

\* The route of an agent does not change.
LEMMA SameRoute ==
  ASSUME NEW a, UNCHANGED <<fleet, table>> PROVE RouteOf(a)' = RouteOf(a)
BY DEF RouteOf, Route, Target

\* S3 and CloudWatch are what a route to "s3", "both" or "cloudwatch" reaches.
LEMMA Reaches ==
  ASSUME NEW r
  PROVE  /\ ToS3(r) <=> r = "s3" \/ r = "both"
         /\ ToCloudwatch(r) <=> r = "cloudwatch" \/ r = "both"
         /\ r = "cloudwatch" => ~ToS3(r)
BY DEF ToS3, ToCloudwatch

\* Steps of an agent's requests.
LEMMA RequestInv ==
  ASSUME ApiInv, NEW a \in Agents, Request(a) PROVE ApiInv'
<1>0. /\ AgentInv(a) /\ copies[a] \in Nat /\ kept[a] \in Nat
      /\ copies = [copies EXCEPT ![a] = copies[a]] /\ kept = [kept EXCEPT ![a] = kept[a]]
  BY DEF ApiInv, AgentInv
<1>1. CASE CreateLogGroup(a)
  <2>1. PICK l \in {"groupFwd", "stream"} : pc' = [pc EXCEPT ![a] = l]
    BY <1>1 DEF CreateLogGroup, Goto
  <2>2. UNCHANGED <<fleet, table, copies, kept, acked, delivered, refused, lost>> /\ pc[a] = "group"
    BY <1>1 DEF CreateLogGroup, CwUnchanged, RestUnchanged
  <2>3. pc'[a] = l => AgentInv(a)'
    BY <1>0, <2>2, SameRoute DEF AgentInv, Places
  <2>4. AgentStep(a, l, copies[a], kept[a])
    BY <1>0, <2>1, <2>2, <2>3 DEF AgentStep
  <2>5. QED
    BY <2>4, OneAgent
<1>2. CASE ForwardGroup(a)
  <2>1. pc' = [pc EXCEPT ![a] = "stream"]
    BY <1>2 DEF ForwardGroup, Goto
  <2>2. UNCHANGED <<fleet, table, copies, kept, acked, delivered, refused, lost>> /\ pc[a] = "groupFwd"
    BY <1>2 DEF ForwardGroup, RestUnchanged
  <2>3. pc'[a] = "stream" => AgentInv(a)'
    BY <1>0, <2>2, SameRoute DEF AgentInv, Places
  <2>4. AgentStep(a, "stream", copies[a], kept[a])
    BY <1>0, <2>1, <2>2, <2>3 DEF AgentStep
  <2>5. QED
    BY <2>4, OneAgent
<1>3. CASE CreateLogStream(a)
  <2>1. PICK l \in {"group", "put", "streamFwd"} : pc' = [pc EXCEPT ![a] = l]
    BY <1>3 DEF CreateLogStream, Goto
  <2>2. UNCHANGED <<fleet, table, copies, kept, acked, delivered, refused, lost>> /\ pc[a] = "stream"
    BY <1>3 DEF CreateLogStream, CwUnchanged, RestUnchanged
  <2>3. pc'[a] = l => AgentInv(a)'
    BY <1>0, <2>2, SameRoute DEF AgentInv, Places
  <2>4. AgentStep(a, l, copies[a], kept[a])
    BY <1>0, <2>1, <2>2, <2>3 DEF AgentStep
  <2>5. QED
    BY <2>4, OneAgent
<1>4. CASE ForwardStream(a)
  <2>1. pc' = [pc EXCEPT ![a] = "put"]
    BY <1>4 DEF ForwardStream, Goto
  <2>2. UNCHANGED <<fleet, table, copies, kept, acked, delivered, refused, lost>> /\ pc[a] = "streamFwd"
    BY <1>4 DEF ForwardStream, RestUnchanged
  <2>3. pc'[a] = "put" => AgentInv(a)'
    BY <1>0, <2>2, SameRoute DEF AgentInv, Places
  <2>4. AgentStep(a, "put", copies[a], kept[a])
    BY <1>0, <2>1, <2>2, <2>3 DEF AgentStep
  <2>5. QED
    BY <2>4, OneAgent
<1>5. CASE PutLogEvents(a)
  <2>1. UNCHANGED <<fleet, table, copies, kept, delivered, refused, lost>> /\ pc[a] = "put"
    BY <1>5 DEF PutLogEvents, CwUnchanged, RestUnchanged
  <2>2. CASE ToS3(RouteOf(a)) /\ Goto(a, "buffer") /\ UNCHANGED acked
    <3>1. pc'[a] = "buffer" => AgentInv(a)'
      BY <1>0, <2>1, <2>2, SameRoute DEF AgentInv, Places
    <3>2. AgentStep(a, "buffer", copies[a], kept[a])
      BY <1>0, <2>1, <2>2, <3>1 DEF AgentStep, Goto
    <3>3. QED
      BY <3>2, OneAgent
  <2>3. CASE ~ToS3(RouteOf(a)) /\ ToCloudwatch(RouteOf(a)) /\ Goto(a, "putFwd") /\ UNCHANGED acked
    <3>1. pc'[a] = "putFwd" => AgentInv(a)'
      BY <1>0, <2>1, <2>3, SameRoute DEF AgentInv, Places
    <3>2. AgentStep(a, "putFwd", copies[a], kept[a])
      BY <1>0, <2>1, <2>3, <3>1 DEF AgentStep, Goto
    <3>3. QED
      BY <3>2, OneAgent
  <2>4. CASE ~ToS3(RouteOf(a)) /\ ~ToCloudwatch(RouteOf(a)) /\ Ack(a)
    <3>1. pc'[a] = "done" => AgentInv(a)'
      BY <1>0, <2>1, <2>4, SameRoute, Reaches DEF AgentInv, Places
    <3>2. AgentStep(a, "done", copies[a], kept[a])
      BY <1>0, <2>1, <2>4, <3>1 DEF AgentStep, Ack, Goto
    <3>3. QED
      BY <3>2, OneAgent
  <2>5. QED
    BY <1>5, <2>2, <2>3, <2>4 DEF PutLogEvents
<1>6. CASE PushEvents(a)
  <2>1. UNCHANGED <<fleet, table, delivered, refused, lost>> /\ pc[a] = "buffer" /\ a \notin acked
    BY <1>0, <1>6 DEF PushEvents, CwUnchanged, RestUnchanged, AgentInv
  <2>2. CASE /\ copies' = [copies EXCEPT ![a] = copies[a] + 1] /\ UNCHANGED kept
             /\ ToCloudwatch(RouteOf(a)) /\ Goto(a, "putFwd") /\ UNCHANGED acked
    <3>1. pc'[a] = "putFwd" /\ copies'[a] = copies[a] + 1 => AgentInv(a)'
      BY <1>0, <2>1, <2>2, SameRoute DEF AgentInv, Places
    <3>2. AgentStep(a, "putFwd", copies[a] + 1, kept[a])
      BY <1>0, <2>1, <2>2, <3>1 DEF AgentStep, Goto
    <3>3. QED
      BY <3>2, OneAgent
  <2>3. CASE /\ copies' = [copies EXCEPT ![a] = copies[a] + 1] /\ UNCHANGED kept
             /\ ~ToCloudwatch(RouteOf(a)) /\ Ack(a)
    <3>1. pc'[a] = "done" /\ copies'[a] = copies[a] + 1 => AgentInv(a)'
      BY <1>0, <2>1, <2>3, SameRoute, Reaches DEF AgentInv, Places
    <3>2. AgentStep(a, "done", copies[a] + 1, kept[a])
      BY <1>0, <2>1, <2>3, <3>1 DEF AgentStep, Ack, Goto
    <3>3. QED
      BY <3>2, OneAgent
  <2>4. ASSUME NEW n \in {0, 1}, Refuse(a), copies' = [copies EXCEPT ![a] = copies[a] + n],
               kept' = [kept EXCEPT ![a] = kept[a] + n]
        PROVE  ApiInv'
    <3>1. /\ copies[a] + n \in Nat /\ kept[a] + n \in Nat /\ copies[a] + n >= kept[a] + n
          /\ ~lost => copies[a] + n = kept[a] + n
      BY <1>0, <2>1 DEF AgentInv
    <3>2. ToS3(RouteOf(a)) /\ UNCHANGED acked
      BY <1>0, <2>1, <2>4 DEF AgentInv, Refuse
    <3>3. pc'[a] = "group" /\ copies'[a] = copies[a] + n /\ kept'[a] = kept[a] + n => AgentInv(a)'
      BY <2>1, <3>1, <3>2, SameRoute DEF AgentInv, Places
    <3>4. AgentStep(a, "group", copies[a] + n, kept[a] + n)
      BY <1>0, <2>1, <2>4, <3>3 DEF AgentStep, Refuse, Goto
    <3>5. QED
      BY <3>4, OneAgent
  <2>5. QED
    BY <1>6, <2>2, <2>3, <2>4 DEF PushEvents
<1>7. CASE ForwardPut(a)
  <2>1. /\ UNCHANGED <<fleet, table, copies, kept, lost>> /\ pc[a] = "putFwd" /\ a \notin acked
        /\ delivered \subseteq delivered' /\ refused \subseteq refused'
    BY <1>0, <1>7 DEF ForwardPut, CwTakes, RestUnchanged, AgentInv
  <2>2. CASE a \in delivered' \cup refused' /\ Ack(a)
    <3>1. pc'[a] = "done" => AgentInv(a)'
      BY <1>0, <2>1, <2>2, SameRoute, Reaches DEF AgentInv, Places
    <3>2. AgentStep(a, "done", copies[a], kept[a])
      BY <1>0, <2>1, <2>2, <3>1 DEF AgentStep, Ack, Goto
    <3>3. QED
      BY <3>2, OneAgent
  <2>3. CASE ToS3(RouteOf(a)) /\ Ack(a)
    <3>1. pc'[a] = "done" => AgentInv(a)'
      BY <1>0, <2>1, <2>3, SameRoute, Reaches DEF AgentInv, Places
    <3>2. AgentStep(a, "done", copies[a], kept[a])
      BY <1>0, <2>1, <2>3, <3>1 DEF AgentStep, Ack, Goto
    <3>3. QED
      BY <3>2, OneAgent
  <2>4. CASE ~ToS3(RouteOf(a)) /\ Refuse(a)
    <3>1. pc'[a] = "group" => AgentInv(a)'
      BY <1>0, <2>1, <2>4, SameRoute DEF AgentInv, Places, Refuse
    <3>2. AgentStep(a, "group", copies[a], kept[a])
      BY <1>0, <2>1, <2>4, <3>1 DEF AgentStep, Refuse, Goto
    <3>3. QED
      BY <3>2, OneAgent
  <2>5. QED
    BY <1>7, <2>2, <2>3, <2>4 DEF ForwardPut, CwTakes, PassthroughFailed
<1>8. QED
  BY <1>1, <1>2, <1>3, <1>4, <1>5, <1>6, <1>7 DEF Request

\* A handler that is dropped at an await takes its knowledge with it, but nothing
\* was acknowledged; what it leaves behind is the promise of a resend.
LEMMA HangupInv ==
  ASSUME ApiInv, NEW a \in Agents, Hangup(a) PROVE ApiInv'
<1>0. /\ AgentInv(a) /\ copies[a] \in Nat /\ kept[a] \in Nat
      /\ kept = [kept EXCEPT ![a] = kept[a]]
  BY DEF ApiInv, AgentInv
<1>1. PICK n \in {0, 1} : (pc[a] # "buffer" => n = 0) /\ copies' = [copies EXCEPT ![a] = copies[a] + n]
  BY DEF Hangup
<1>2. /\ pc' = [pc EXCEPT ![a] = Repeated(pc[a])] /\ lost' = TRUE
      /\ UNCHANGED <<fleet, table, kept, acked, delivered, refused>>
      /\ pc[a] \in {"groupFwd", "streamFwd", "buffer", "putFwd"}
  BY DEF Hangup, Goto, CwUnchanged
<1>3. Repeated(pc[a]) \in {"group", "stream", "put"}
  BY <1>2 DEF Repeated
<1>4. copies[a] + n \in Nat /\ copies[a] + n >= kept[a] /\ (copies[a] + n > 0 => ToS3(RouteOf(a)))
  BY <1>0, <1>1 DEF AgentInv
<1>5. pc'[a] = Repeated(pc[a]) /\ copies'[a] = copies[a] + n /\ kept'[a] = kept[a] => AgentInv(a)'
  BY <1>0, <1>2, <1>3, <1>4, SameRoute DEF AgentInv, Places
<1>6. AgentStep(a, Repeated(pc[a]), copies[a] + n, kept[a])
  BY <1>0, <1>1, <1>2, <1>5 DEF AgentStep
<1>7. QED
  BY <1>6, OneAgent

\* A restart drops every handler at its await.
LEMMA RestartInv == ASSUME ApiInv, Restart PROVE ApiInv'
<1>1. /\ pc' = [a \in Agents |-> Repeated(pc[a])] /\ lost' = TRUE
      /\ UNCHANGED <<fleet, table, copies, kept, acked, delivered, refused>>
  BY DEF Restart, CwUnchanged
<1>2. ASSUME NEW a \in Agents PROVE AgentInv(a)'
  <2>1. AgentInv(a) /\ pc'[a] = Repeated(pc[a])
    BY <1>1 DEF ApiInv
  <2>2. /\ Repeated(pc[a]) \in {"group", "stream", "put", "done"}
        /\ pc[a] = "done" => Repeated(pc[a]) = "done"
    BY <2>1 DEF Repeated, AgentInv, Places
  <2>3. QED
    BY <1>1, <2>1, <2>2, SameRoute DEF AgentInv, Places
<1>3. QED
  BY <1>1, <1>2 DEF ApiInv

\* What an agent's place says of its batch holds always.
LEMMA SpecApiInv == Spec => []ApiInv
<1>1. Init => ApiInv
  BY DEF Init, ApiInv, AgentInv, Places
<1>2. ASSUME ApiInv, [Next]_vars PROVE ApiInv'
  <2>1. CASE UNCHANGED <<fleet, table, pc, copies, kept, acked, delivered, refused, lost>>
    BY <1>2, <2>1, AgentFrame DEF ApiInv
  <2>2. ASSUME NEW a \in Agents, Request(a) \/ Hangup(a) PROVE ApiInv'
    BY <1>2, <2>2, RequestInv, HangupInv
  <2>3. CASE Restart
    BY <1>2, <2>3, RestartInv
  <2>4. ASSUME NEW of \in {0} \cup Groups, StartListing(of) PROVE ApiInv'
    BY <2>1, <2>4 DEF StartListing, CwUnchanged
  <2>5. CASE DescribePage
    BY <2>1, <2>5 DEF DescribePage, CwUnchanged
  <2>6. QED
    BY <1>2, <2>1, <2>2, <2>3, <2>4, <2>5 DEF Next, vars
<1>3. QED
  BY <1>1, <1>2, PTL DEF Spec

\* A batch that put_log_events answered with 200 has gone where its route says,
\* on every routing configuration and after any mix of failures, hang-ups and
\* restarts: all of it into the buffer, or to a CloudWatch that took it, though
\* it may have rejected events of it.
THEOREM AckTruthfulAlways == Spec => []AckTruthful
<1>1. ApiInv => AckTruthful
  BY DEF ApiInv, AgentInv, AckTruthful, ToS3
<1>2. QED
  BY <1>1, SpecApiInv, PTL

\* While every request is answered, an agent's batch is buffered once, and once
\* more for every push that failed with records of it already kept: no other
\* answer of put_log_events makes an agent send what the buffer has.
THEOREM NoResendAlways == Spec => []NoResend
<1>1. ApiInv => NoResend
  BY DEF ApiInv, AgentInv, NoResend
<1>2. QED
  BY <1>1, SpecApiInv, PTL
-----------------------------------------------------------------------------
(* Part 2: paging *)

\* The registry holds finitely many names of the configured sets.
RegistryInv ==
  /\ fleet \in Fleets
  /\ groups \subseteq Groups /\ IsFiniteSet(groups)
  /\ streams \subseteq Groups \X Streams /\ IsFiniteSet(streams)

\* A client that is paging has, or will meet at or after its token, every name
\* that it must see.
ListerInv ==
  /\ lister \in [on: BOOLEAN, of: {0} \cup Groups, token: Nat, must: SUBSET Nat, got: SUBSET Nat]
  /\ ~lister.on => lister.must \subseteq lister.got
  /\ lister.on => \A n \in lister.must :
       /\ n \in Names(lister.of)
       /\ n \in lister.got \/ lister.token <= Rank(Names(lister.of), n)

\* What a Describe lists is a finite set of numbers.
LEMMA NamesFinite ==
  ASSUME RegistryInv, NEW of PROVE Names(of) \in SUBSET Nat /\ IsFiniteSet(Names(of))
<1>1. CASE of = 0
  BY <1>1, ApiAssumption DEF ApiAssumption, Names, RegistryInv
<1>2. CASE of # 0
  <2> DEFINE N == {s \in Streams : <<of, s>> \in streams}
             f == [s \in N |-> <<of, s>>]
  <2>1. f \in [N -> streams] /\ \A x, y \in N : f[x] = f[y] => x = y
    OBVIOUS
  <2>2. f \in Injection(N, streams)
    <3> HIDE DEF f, N
    <3> QED BY <2>1 DEF Injection, IsInjective
  <2>3. IsFiniteSet(N)
    <3> HIDE DEF f, N
    <3> QED BY <2>2, FS_Injection DEF RegistryInv
  <2>4. QED
    BY <1>2, <2>3, ApiAssumption DEF ApiAssumption, Names
<1>3. QED
  BY <1>1, <1>2

\* The same, of every list at once.
LEMMA AllNamesFinite ==
  RegistryInv => \A of : Names(of) \in SUBSET Nat /\ IsFiniteSet(Names(of))
BY NamesFinite

\* Page and Rank speak of the same offsets.
LEMMA PageRank ==
  ASSUME NEW of, NEW token
  PROVE  Page(of, token) = {n \in Names(of) : /\ token <= Rank(Names(of), n)
                                              /\ Rank(Names(of), n) < token + Limit}
BY DEF Page, Rank, Below

\* A page has at most Limit names.
LEMMA PageSize ==
  ASSUME RegistryInv, NEW of, NEW token \in Nat
  PROVE  /\ IsFiniteSet(Page(of, token)) /\ Cardinality(Page(of, token)) \in Nat
         /\ Cardinality(Page(of, token)) <= Limit
<1> DEFINE N == Names(of)
           P == Page(of, token)
           f == [n \in P |-> Rank(N, n)]
           I == token .. (token + Limit - 1)
<1>0. Limit \in Nat \ {0}
  BY ApiAssumption DEF ApiAssumption
<1>1. N \in SUBSET Nat /\ IsFiniteSet(N)
  BY NamesFinite
<1>2. P \subseteq N /\ \A n \in P : Rank(N, n) \in I
  <2>1. \A n \in N : Rank(N, n) \in Nat
    BY <1>1, RankBound
  <2>2. QED
    BY <1>0, <2>1, PageRank
<1>3. IsFiniteSet(P) /\ Cardinality(P) \in Nat
  BY <1>1, <1>2, FS_Subset, FS_CardinalityType
<1>4. \A x, y \in P : f[x] = f[y] => x = y
  <2> SUFFICES ASSUME NEW x \in P, NEW y \in P, x # y PROVE f[x] # f[y]
    OBVIOUS
  <2>1. x \in N /\ y \in N /\ x \in Nat /\ y \in Nat
    BY <1>1, <1>2
  <2>2. x < y \/ y < x
    BY <2>1
  <2>3. Rank(N, x) < Rank(N, y) \/ Rank(N, y) < Rank(N, x)
    <3> HIDE DEF N
    <3> QED BY <1>1, <2>1, <2>2, RankOrder
  <2>4. Rank(N, x) \in Nat /\ Rank(N, y) \in Nat
    <3> HIDE DEF N
    <3> QED BY <1>1, <2>1, RankBound
  <2>5. Rank(N, x) # Rank(N, y)
    <3> HIDE DEF N
    <3> QED BY <2>3, <2>4
  <2>6. QED
    BY <2>5
<1>5. f \in Injection(P, I)
  <2>1. f \in [P -> I]
    BY <1>2
  <2> HIDE DEF f, P, I
  <2> QED BY <1>4, <2>1 DEF Injection, IsInjective
<1>6. IsFiniteSet(I) /\ Cardinality(I) = Limit
  <2>1. /\ IsFiniteSet(I)
        /\ Cardinality(I) = IF token > token + Limit - 1 THEN 0 ELSE (token + Limit - 1) - token + 1
    BY <1>0, FS_Interval
  <2>2. QED
    BY <1>0, <2>1
<1>7. Cardinality(P) <= Cardinality(I)
  <2> HIDE DEF f, P, I
  <2> QED BY <1>5, <1>6, FS_Injection
<1>8. QED
  BY <1>3, <1>6, <1>7

\* A page leaves nothing behind: what it does not have has a later offset than
\* the next token.
LEMMA PageLeaves ==
  ASSUME RegistryInv, NEW of, NEW token \in Nat, NEW n \in Names(of),
         token <= Rank(Names(of), n), n \notin Page(of, token)
  PROVE  NextToken(token, Page(of, token)) <= Rank(Names(of), n)
<1> DEFINE c == Cardinality(Page(of, token))
           r == Rank(Names(of), n)
<1>1. c \in Nat /\ c <= Limit
  BY PageSize
<1>2. r \in Nat
  BY NamesFinite, RankBound
<1>3. ~(r < token + Limit)
  BY PageRank
<1>4. Limit \in Nat
  BY ApiAssumption DEF ApiAssumption
<1> HIDE DEF c, r
<1>5. token + c <= r
  BY <1>1, <1>2, <1>3, <1>4
<1>6. QED
  BY <1>5 DEF NextToken, c, r

\* The last page is the last: no name has an offset at or after the next token.
LEMMA LastPage ==
  ASSUME RegistryInv, lister.token \in Nat, ~More(lister, Page(lister.of, lister.token)),
         NEW n \in Names(lister.of), lister.token <= Rank(Names(lister.of), n)
  PROVE  n \in Page(lister.of, lister.token)
<1> DEFINE N == Names(lister.of)
           P == Page(lister.of, lister.token)
           r == Rank(N, n)
<1>0. Limit \in Nat \ {0} /\ N \in SUBSET Nat /\ IsFiniteSet(N)
  BY NamesFinite, ApiAssumption DEF ApiAssumption
<1>1. r \in Nat /\ Cardinality(N) \in Nat /\ r < Cardinality(N)
  <2> HIDE DEF N
  <2> QED BY <1>0, RankBound DEF N
<1>2. CASE P = {}
  <2>1. lister.token < Cardinality(N)
    <3> HIDE DEF N, r
    <3>1. lister.token <= r
      BY DEF N, r
    <3> QED BY <1>1, <3>1
  <2>2. PICK x \in N : Rank(N, x) = lister.token
    <3> HIDE DEF N
    <3> QED BY <1>0, <2>1, RankOnto
  <2>3. lister.token <= Rank(N, x) /\ Rank(N, x) < lister.token + Limit
    BY <1>0, <2>2
  <2>4. x \in P
    BY <2>2, <2>3, PageRank
  <2>5. QED
    BY <1>2, <2>4
<1>3. CASE n \notin P /\ P # {}
  <2>1. NextToken(lister.token, P) <= r
    BY <1>3, PageLeaves
  <2>2. ~(lister.token + Cardinality(P) < Cardinality(N))
    BY <1>3 DEF More
  <2>3. Cardinality(P) \in Nat
    BY PageSize
  <2> HIDE DEF P, N, r
  <2>4. QED
    BY <1>1, <2>1, <2>2, <2>3 DEF NextToken
<1>4. QED
  BY <1>2, <1>3

\* The registry only grows, except at a restart, which also ends every client's
\* paging.
LEMMA RegistryStep ==
  ASSUME RegistryInv, [Next]_vars
  PROVE  /\ RegistryInv'
         /\ Restart \/ \A of : Names(of) \subseteq Names(of)'
<1>1. CASE Restart
  <2>1. RegistryInv'
    BY <1>1, FS_EmptySet DEF Restart, RegistryInv
  <2>2. QED
    BY <1>1, <2>1
<1>2. CASE UNCHANGED <<fleet, groups, streams>>
  BY <1>2 DEF RegistryInv, Names
<1>3. ASSUME NEW a \in Agents, Request(a) PROVE RegistryInv' /\ \A of : Names(of) \subseteq Names(of)'
  <2>1. Target(a) \in Groups \X Streams /\ Group(a) \in Groups
    BY ApiAssumption DEF ApiAssumption, RegistryInv, Fleet, Target, Group
  <2>2. /\ fleet' = fleet
        /\ groups' = groups \/ groups' = groups \cup {Group(a)}
        /\ streams' = streams \/ streams' = streams \cup {Target(a)}
    BY <1>3 DEF Request, CreateLogGroup, ForwardGroup, CreateLogStream, ForwardStream, PutLogEvents,
                PushEvents, ForwardPut, RegistryUnchanged, RestUnchanged
  <2>3. IsFiniteSet(groups \cup {Group(a)}) /\ IsFiniteSet(streams \cup {Target(a)})
    BY FS_AddElement DEF RegistryInv
  <2>4. RegistryInv'
    BY <2>1, <2>2, <2>3 DEF RegistryInv
  <2>5. QED
    BY <2>2, <2>4 DEF Names
<1>4. ASSUME NEW a \in Agents, Hangup(a) PROVE UNCHANGED <<fleet, groups, streams>>
  BY <1>4 DEF Hangup, RegistryUnchanged
<1>5. ASSUME NEW of \in {0} \cup Groups, StartListing(of) PROVE UNCHANGED <<fleet, groups, streams>>
  BY <1>5 DEF StartListing, RegistryUnchanged
<1>6. CASE DescribePage
  BY <1>2, <1>6 DEF DescribePage, RegistryUnchanged
<1>7. QED
  BY <1>1, <1>2, <1>3, <1>4, <1>5, <1>6 DEF Next, vars

\* A client that does not step keeps what it has: a name's offset can only rise.
LEMMA ListerFrame ==
  ASSUME RegistryInv, RegistryInv', ListerInv, UNCHANGED lister,
         Names(lister.of) \subseteq Names(lister.of)'
  PROVE  ListerInv'
<1> DEFINE N == Names(lister.of)
<1>1. N' \in SUBSET Nat /\ IsFiniteSet(N') /\ N \in SUBSET N' /\ N \in SUBSET Nat /\ IsFiniteSet(N)
  <2>1. N \in SUBSET Nat /\ IsFiniteSet(N)
    BY NamesFinite
  <2>2. (\A of : Names(of) \in SUBSET Nat /\ IsFiniteSet(Names(of)))'
    BY AllNamesFinite, PTL
  <2>3. QED
    BY <2>1, <2>2
<1>2. ASSUME NEW n \in N PROVE Rank(N, n) <= Rank(N', n) /\ Rank(N, n) \in Nat /\ Rank(N', n) \in Nat
  <2> HIDE DEF N
  <2>1. n \in N'
    BY <1>1
  <2>2. QED
    BY <1>1, <2>1, RankGrows, RankBound
<1>3. ASSUME lister.on, NEW n \in lister.must
      PROVE  n \in N' /\ (n \in lister.got \/ lister.token <= Rank(N', n))
  <2>1. n \in N /\ (n \in lister.got \/ lister.token <= Rank(N, n)) /\ lister.token \in Nat
    BY <1>3 DEF ListerInv
  <2>2. Rank(N, n) <= Rank(N', n) /\ Rank(N, n) \in Nat /\ Rank(N', n) \in Nat
    BY <1>2, <2>1
  <2> HIDE DEF N
  <2>3. QED
    BY <1>1, <2>1, <2>2
<1>4. QED
  BY <1>3 DEF ListerInv

\* The next page.
LEMMA DescribePageInv ==
  ASSUME RegistryInv, ListerInv, DescribePage PROVE ListerInv'
<1> DEFINE N == Names(lister.of)
           P == Page(lister.of, lister.token)
           c == Cardinality(P)
<1>0. /\ lister \in [on: BOOLEAN, of: {0} \cup Groups, token: Nat, must: SUBSET Nat, got: SUBSET Nat]
      /\ lister.on /\ UNCHANGED <<groups, streams>>
  BY DEF ListerInv, DescribePage, RegistryUnchanged
<1>1. /\ P \in SUBSET Nat /\ c \in Nat /\ lister.token + c \in Nat /\ More(lister, P) \in BOOLEAN
  <2>1. N \in SUBSET Nat /\ P \subseteq N
    BY NamesFinite, PageRank
  <2>2. c \in Nat
    BY <1>0, PageSize
  <2>3. QED
    BY <1>0, <2>1, <2>2 DEF More
<1>2. lister' = [lister EXCEPT !.on = More(lister, P), !.got = lister.got \cup P,
                               !.token = lister.token + c]
  BY DEF DescribePage, NextToken
<1>3. /\ lister' \in [on: BOOLEAN, of: {0} \cup Groups, token: Nat, must: SUBSET Nat, got: SUBSET Nat]
      /\ lister'.on = More(lister, P) /\ lister'.of = lister.of /\ lister'.must = lister.must
      /\ lister'.got = lister.got \cup P /\ lister'.token = lister.token + c
  <2> HIDE DEF P, c
  <2> QED BY <1>0, <1>1, <1>2
<1>4. \A n \in lister.must : n \in N /\ (n \in lister.got \/ lister.token <= Rank(N, n))
  BY <1>0 DEF ListerInv
<1>5. ASSUME ~More(lister, P), NEW n \in lister.must PROVE n \in lister.got \cup P
  BY <1>0, <1>4, <1>5, LastPage
<1>6. ASSUME NEW n \in lister.must, n \notin lister.got \cup P PROVE lister.token + c <= Rank(N, n)
  BY <1>0, <1>4, <1>6, PageLeaves DEF NextToken
<1>7. Names(lister.of)' = N
  BY <1>0, <1>3 DEF Names
<1> HIDE DEF N, P, c
<1>8. QED
  BY <1>3, <1>4, <1>5, <1>6, <1>7 DEF ListerInv

\* Both parts hold always.
LEMMA SpecListerInv == Spec => [](RegistryInv /\ ListerInv)
<1>1. Init => RegistryInv /\ ListerInv
  BY FS_EmptySet DEF Init, RegistryInv, ListerInv, NotListing
<1>2. ASSUME RegistryInv, ListerInv, [Next]_vars PROVE RegistryInv' /\ ListerInv'
  <2>1. RegistryInv' /\ (Restart \/ \A of : Names(of) \subseteq Names(of)')
    BY <1>2, RegistryStep
  <2>2. CASE Restart
    BY <2>1, <2>2 DEF Restart, ListerInv, NotListing
  <2>3. CASE UNCHANGED lister /\ ~Restart
    <3>1. Names(lister.of) \subseteq Names(lister.of)'
      BY <2>1, <2>3 DEF Names
    <3>2. QED
      BY <1>2, <2>1, <2>3, <3>1, ListerFrame
  <2>4. ASSUME NEW of \in {0} \cup Groups, StartListing(of) PROVE ListerInv'
    <3>1. Names(of) \in SUBSET Nat /\ IsFiniteSet(Names(of)) /\ Names(of)' = Names(of)
      BY <1>2, <2>4, NamesFinite DEF StartListing, RegistryUnchanged, Names
    <3>2. /\ lister' \in [on: BOOLEAN, of: {0} \cup Groups, token: Nat, must: SUBSET Nat, got: SUBSET Nat]
          /\ lister'.on /\ lister'.of = of /\ lister'.must = Names(of) /\ lister'.token = 0
      BY <2>4, <3>1 DEF StartListing, NotListing
    <3>3. \A n \in Names(of) : Rank(Names(of), n) \in Nat
      BY <3>1, RankBound
    <3>4. Names(lister.of)' = Names(of)
      BY <3>1, <3>2 DEF Names
    <3>5. QED
      BY <3>2, <3>3, <3>4 DEF ListerInv
  <2>5. CASE DescribePage
    BY <1>2, <2>1, <2>5, DescribePageInv
  <2>6. (\E a \in Agents : Request(a) \/ Hangup(a)) => UNCHANGED lister
    BY DEF Request, Hangup, CreateLogGroup, ForwardGroup, CreateLogStream, ForwardStream, PutLogEvents,
           PushEvents, ForwardPut, RestUnchanged
  <2>7. \/ Restart \/ UNCHANGED lister \/ DescribePage
        \/ \E of \in {0} \cup Groups : StartListing(of)
    BY <1>2, <2>6 DEF Next, vars
  <2>8. CASE \E of \in {0} \cup Groups : StartListing(of)
    BY <2>1, <2>4, <2>8
  <2>9. QED
    BY <2>2, <2>3, <2>5, <2>7, <2>8
<1>3. QED
  BY <1>1, <1>2, PTL DEF Spec

\* A client that pages a Describe to its end has every name that the registry
\* had when it began, however many names are created between its pages and in
\* whatever order they sort (paginate's tokens are offsets).
THEOREM DescribeCompleteAlways == Spec => []DescribeComplete
<1>1. ListerInv => DescribeComplete
  BY DEF ListerInv, DescribeComplete
<1>2. QED
  BY <1>1, SpecListerInv, PTL
=============================================================================
