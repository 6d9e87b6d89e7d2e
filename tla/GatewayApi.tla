----------------------------- MODULE GatewayApi -----------------------------
(***************************************************************************)
(* The gateway's requests: routing, the registry of groups and streams and *)
(* the passthrough to CloudWatch                                           *)
(* (crates/s4logs-gateway/src/{handlers,registry,routing,forward}.rs).     *)
(*                                                                         *)
(* Each agent creates its group and stream and delivers one batch to them, *)
(* retrying what was not answered with success; "already exists" counts as *)
(* success.  A handler awaits the buffer and the forwarded calls, and other *)
(* requests run meanwhile.  The buffer itself is GatewayBuffer: here a push *)
(* is accepted, or fails before or after it kept records of the batch.     *)
(*                                                                         *)
(* Names are numbers: the registry lists them in order.                    *)
(***************************************************************************)
EXTENDS Integers, FiniteSets, Sequences

CONSTANTS
  Groups, Streams,  \* names
  Agents,
  Fleets,           \* what the agents are configured to do
  Tables,           \* routing configurations
  Limit,            \* names on a Describe page
  MaxFaults         \* bound on failures, hang-ups and restarts

Actions == {"s3", "cloudwatch", "both", "drop"}

\* A compiled rule: the names that its globs match.
Rule == [groups: SUBSET Groups, streams: SUBSET Streams, action: Actions]

Table == [default: Actions, rules: Seq(Rule)]

\* The group and stream of each agent, and the agents that put before they create.
Fleet == [target: [Agents -> Groups \X Streams], putFirst: SUBSET Agents]

ASSUME ApiAssumption ==
  /\ Groups \subseteq Nat /\ Streams \subseteq Nat
  /\ Fleets \subseteq Fleet
  /\ Tables \subseteq Table
  /\ Limit \in Nat \ {0} /\ MaxFaults \in Nat

VARIABLES
  fleet,
  table,      \* the RoutingConfig
  groups,     \* Registry: known groups
  streams,    \* Registry: known streams, with their group
  cwGroups, cwStreams,  \* what exists in CloudWatch
  delivered,  \* agents whose batch is in CloudWatch as a whole
  pc,         \* per agent: its request, or the await its handler is at
  lister,     \* a client that pages through a Describe
  faults,
  (* history *)
  copies,     \* per agent: pushes that put records of its batch into the buffer
  kept,       \* per agent: those of them that were answered with an error
  refused,    \* agents whose batch CloudWatch took with some events rejected
  acked,      \* agents whose batch was acknowledged
  lost,       \* has a request been cut off?
  uncreated   \* has a create been answered with success, or cut off, with nothing created?

vars == <<fleet, table, groups, streams, cwGroups, cwStreams, delivered, pc, lister,
          faults, copies, kept, refused, acked, lost, uncreated>>

NotListing == [on |-> FALSE, of |-> 0, token |-> 0, must |-> {}, got |-> {}]

Init ==
  /\ fleet \in Fleets /\ table \in Tables
  /\ groups = {} /\ streams = {}
  /\ cwGroups = {} /\ cwStreams = {} /\ delivered = {}
  /\ pc = [a \in Agents |-> IF a \in fleet.putFirst THEN "put" ELSE "group"]
  /\ lister = NotListing
  /\ faults = 0
  /\ copies = [a \in Agents |-> 0] /\ kept = [a \in Agents |-> 0]
  /\ refused = {} /\ acked = {}
  /\ lost = FALSE /\ uncreated = FALSE

-----------------------------------------------------------------------------
(* Routing *)

\* Mutant: `both` is taken for S3 alone and `cloudwatch` for neither.
NeverToCloudwatch(action) == FALSE

ToS3(action) == action \in {"s3", "both"}

ToCloudwatch(action) == action \in {"cloudwatch", "both"}

\* RoutingConfig::route: the first matching rule wins.
Route(g, s) ==
  LET match == {i \in DOMAIN table.rules :
                  g \in table.rules[i].groups /\ s \in table.rules[i].streams}
  IN IF match = {} THEN table.default
     ELSE table.rules[CHOOSE i \in match : \A k \in match : i <= k].action

\* Mutant: the first rule that matches the group decides for all its streams.
FirstRuleReaches(g) ==
  LET match == {i \in DOMAIN table.rules : g \in table.rules[i].groups}
  IN IF match = {} THEN ToCloudwatch(table.default)
     ELSE ToCloudwatch(table.rules[CHOOSE i \in match : \A k \in match : i <= k].action)

\* RoutingConfig::group_may_reach_cloudwatch
MayReachCloudwatch(g) ==
  \/ ToCloudwatch(table.default)
  \/ \E i \in DOMAIN table.rules :
       g \in table.rules[i].groups /\ ToCloudwatch(table.rules[i].action)

Target(a) == fleet.target[a]

Group(a) == Target(a)[1]

RouteOf(a) == Route(Target(a)[1], Target(a)[2])

-----------------------------------------------------------------------------
(* Requests *)

Fault == faults < MaxFaults /\ faults' = faults + 1

Goto(a, l) == pc' = [pc EXCEPT ![a] = l]

RegistryUnchanged == UNCHANGED <<groups, streams>>
CwUnchanged == UNCHANGED <<cwGroups, cwStreams, delivered, refused>>
RestUnchanged == UNCHANGED <<fleet, table, lister, lost>>

\* create_log_group: recorded, then forwarded if a route may need it.
CreateLogGroup(a) ==
  /\ pc[a] = "group"
  /\ groups' = groups \cup {Group(a)}
  /\ Goto(a, IF Group(a) \notin groups /\ MayReachCloudwatch(Group(a))
             THEN "groupFwd" ELSE "stream")
  /\ UNCHANGED <<streams, faults, copies, kept, acked, uncreated>> /\ CwUnchanged /\ RestUnchanged

\* CwForward::create_log_group; the client is answered with success anyway.
ForwardGroup(a) ==
  /\ pc[a] = "groupFwd"
  /\ \/ cwGroups' = cwGroups \cup {Group(a)} /\ UNCHANGED <<faults, uncreated>>
     \/ Fault /\ uncreated' = TRUE /\ UNCHANGED cwGroups
  /\ Goto(a, "stream")
  /\ UNCHANGED <<cwStreams, delivered, refused, copies, kept, acked>> /\ RegistryUnchanged /\ RestUnchanged

\* Mutant: only groups that were forwarded count as created.
GroupForwarded(a) == Group(a) \in cwGroups

GroupKnown(a) == Group(a) \in groups

\* create_log_stream: not found, already there, or recorded and forwarded.
CreateLogStream(a) ==
  /\ pc[a] = "stream"
  /\ \/ /\ ~GroupKnown(a)
        /\ Goto(a, "group") /\ UNCHANGED streams
     \/ /\ GroupKnown(a) /\ Target(a) \in streams
        /\ Goto(a, "put") /\ UNCHANGED streams
     \/ /\ GroupKnown(a) /\ Target(a) \notin streams
        /\ Goto(a, IF ToCloudwatch(RouteOf(a)) THEN "streamFwd" ELSE "put")
        /\ streams' = streams \cup {Target(a)}
  /\ UNCHANGED <<groups, faults, copies, kept, acked, uncreated>> /\ CwUnchanged /\ RestUnchanged

\* CloudWatch accepts a stream of a group that it knows.
CwAcceptsStream(a) == Group(a) \in cwGroups

\* CwForward::create_log_stream; the client is answered with success anyway.
ForwardStream(a) ==
  /\ pc[a] = "streamFwd"
  /\ \/ CwAcceptsStream(a) /\ cwStreams' = cwStreams \cup {Target(a)}
        /\ UNCHANGED <<faults, uncreated>>
     \/ ~CwAcceptsStream(a) /\ UNCHANGED <<cwStreams, faults, uncreated>>
     \/ Fault /\ uncreated' = TRUE /\ UNCHANGED cwStreams
  /\ Goto(a, "put")
  /\ UNCHANGED <<cwGroups, delivered, refused, copies, kept, acked>> /\ RegistryUnchanged /\ RestUnchanged

Ack(a) == acked' = acked \cup {a} /\ Goto(a, "done")

\* A 5xx answer: the agent makes sure that its stream exists and tries again.
Refuse(a) == UNCHANGED acked /\ Goto(a, "group")

\* put_log_events, up to its first await: route and touch.
PutLogEvents(a) ==
  /\ pc[a] = "put"
  /\ groups' = groups \cup {Group(a)}
  /\ streams' = streams \cup {Target(a)}
  /\ \/ ToS3(RouteOf(a)) /\ Goto(a, "buffer") /\ UNCHANGED acked
     \/ ~ToS3(RouteOf(a)) /\ ToCloudwatch(RouteOf(a)) /\ Goto(a, "putFwd") /\ UNCHANGED acked
     \/ ~ToS3(RouteOf(a)) /\ ~ToCloudwatch(RouteOf(a)) /\ Ack(a)
  /\ UNCHANGED <<faults, copies, kept, uncreated>> /\ CwUnchanged /\ RestUnchanged

\* BufferManager::push_events accepts the batch or fails: before it kept
\* anything (over the cap, no segment), or with records of the batch in the
\* buffer already (a later record or the group commit failed).
PushEvents(a) ==
  /\ pc[a] = "buffer"
  /\ \/ /\ copies' = [copies EXCEPT ![a] = @ + 1]
        /\ IF ToCloudwatch(RouteOf(a)) THEN Goto(a, "putFwd") /\ UNCHANGED acked ELSE Ack(a)
        /\ UNCHANGED <<kept, faults>>
     \/ /\ Fault /\ Refuse(a)
        /\ \E n \in {0, 1} : /\ copies' = [copies EXCEPT ![a] = @ + n]
                             /\ kept' = [kept EXCEPT ![a] = @ + n]
  /\ UNCHANGED uncreated /\ CwUnchanged /\ RegistryUnchanged /\ RestUnchanged

\* Mutant: a failed passthrough is an error on every route.
RefuseAlways(a) == Refuse(a)

\* A failed passthrough is an error only if the gateway holds no other copy.
PassthroughFailed(a) == IF ToS3(RouteOf(a)) THEN Ack(a) ELSE Refuse(a)

\* CloudWatch takes batches of streams it knows, and may reject events of a
\* batch that it takes; the answer's rejectedLogEventsInfo says so.
CwTakes(a) ==
  /\ Target(a) \in cwStreams
  /\ \/ delivered' = delivered \cup {a} /\ UNCHANGED refused
     \/ refused' = refused \cup {a} /\ UNCHANGED delivered

\* CwForward::put_log_events: any Ok answer counts, rejected events or not.
ForwardPut(a) ==
  /\ pc[a] = "putFwd"
  /\ \/ CwTakes(a) /\ Ack(a) /\ UNCHANGED faults
     \/ Target(a) \notin cwStreams /\ PassthroughFailed(a) /\ UNCHANGED <<delivered, refused, faults>>
     \/ Fault /\ PassthroughFailed(a) /\ UNCHANGED <<delivered, refused>>
  /\ UNCHANGED <<cwGroups, cwStreams, copies, kept, uncreated>> /\ RegistryUnchanged /\ RestUnchanged

-----------------------------------------------------------------------------
(* Cut off requests *)

\* The agent repeats the request that it got no answer to.
Repeated(l) ==
  CASE l = "groupFwd" -> "group"
    [] l = "streamFwd" -> "stream"
    [] l \in {"buffer", "putFwd"} -> "put"
    [] OTHER -> l

\* The client hangs up and the handler is dropped at its await; a batch in
\* push_events may be in the buffer by then.
Hangup(a) ==
  /\ Fault
  /\ pc[a] \in {"groupFwd", "streamFwd", "buffer", "putFwd"}
  /\ Goto(a, Repeated(pc[a]))
  /\ \E n \in {0, 1} :
       /\ pc[a] # "buffer" => n = 0
       /\ copies' = [copies EXCEPT ![a] = @ + n]
  /\ lost' = TRUE
  /\ uncreated' = (uncreated \/ pc[a] \in {"groupFwd", "streamFwd"})
  /\ UNCHANGED <<fleet, table, lister, kept, acked>> /\ CwUnchanged /\ RegistryUnchanged

\* The process restarts; the registry starts empty.
Restart ==
  /\ Fault
  /\ groups' = {} /\ streams' = {}
  /\ pc' = [a \in Agents |-> Repeated(pc[a])]
  /\ lister' = NotListing
  /\ lost' = TRUE
  /\ UNCHANGED <<fleet, table, copies, kept, acked, uncreated>> /\ CwUnchanged

-----------------------------------------------------------------------------
(* Describe: `of` 0 lists groups, a group lists its streams *)

Names(of) == IF of = 0 THEN groups ELSE {s \in Streams : <<of, s>> \in streams}

\* paginate: the names at the offsets that start at the token.
Page(of, token) ==
  {n \in Names(of) : LET rank == Cardinality({m \in Names(of) : m < n})
                     IN token <= rank /\ rank < token + Limit}

StartListing(of) ==
  /\ ~lister.on /\ (of # 0 => of \in groups)
  /\ lister' = [NotListing EXCEPT !.on = TRUE, !.of = of, !.must = Names(of)]
  /\ UNCHANGED <<fleet, table, faults, copies, kept, acked, lost, uncreated, pc>>
  /\ CwUnchanged /\ RegistryUnchanged

\* Mutant: the token skips a name.
NextTokenSkips(token, page) == token + Cardinality(page) + 1

NextToken(token, page) == token + Cardinality(page)

\* Is there another page?
More(l, page) == page # {} /\ l.token + Cardinality(page) < Cardinality(Names(l.of))

DescribePage ==
  LET page == Page(lister.of, lister.token)
  IN /\ lister.on
     /\ lister' = [lister EXCEPT !.on = More(lister, page), !.got = @ \cup page,
                                 !.token = NextToken(lister.token, page)]
     /\ UNCHANGED <<fleet, table, faults, copies, kept, acked, lost, uncreated, pc>>
     /\ CwUnchanged /\ RegistryUnchanged

-----------------------------------------------------------------------------
Request(a) ==
  \/ CreateLogGroup(a) \/ ForwardGroup(a)
  \/ CreateLogStream(a) \/ ForwardStream(a)
  \/ PutLogEvents(a) \/ PushEvents(a) \/ ForwardPut(a)

Next ==
  \/ \E a \in Agents : Request(a) \/ Hangup(a)
  \/ Restart
  \/ \E of \in {0} \cup Groups : StartListing(of)
  \/ DescribePage

Spec == Init /\ [][Next]_vars

\* Agents keep sending requests and handlers run to their answers.
FairSpec == Spec /\ \A a \in Agents : WF_vars(Request(a))

-----------------------------------------------------------------------------
(* Properties *)

\* A batch answered with 200 has gone where its route says: a push took all of
\* it for S3 and both, and CloudWatch took it for a pure passthrough
\* (handlers.rs:206-216).  Of what CloudWatch took it may have rejected events,
\* and the gateway does not look (forward.rs:112-121).
AckTruthful ==
  \A a \in acked :
    /\ RouteOf(a) = "cloudwatch" => a \in delivered \cup refused
    /\ RouteOf(a) \in {"s3", "both"} => copies[a] > kept[a]

\* An agent whose requests were all answered has its batch buffered once more
\* than its pushes failed with records already kept: no answer but such a push's
\* makes it send again what the buffer has, however often creates, passthroughs
\* and other pushes fail (handlers.rs:209-212, buffer.rs:163-173).
NoResend == ~lost => \A a \in Agents : copies[a] <= kept[a] + 1

\* A client that pages to the end sees every name that was there when it began,
\* however many are created meanwhile (handlers.rs:384-405).
DescribeComplete == ~lister.on => lister.must \subseteq lister.got

\* An agent that creates before it puts, in a group that is its own.
CreatesFirst(a) == a \notin fleet.putFirst /\ \A b \in Agents : Group(b) = Group(a) => b = a

\* Every batch is acknowledged in the end, across restarts, hang-ups and failed
\* puts, unless a create was lost or the group is shared: then only a route that
\* does not depend on CloudWatch alone promises it (handlers.rs:258-272).
AllAcked ==
  \A a \in Agents :
    <>(a \in acked \/ (RouteOf(a) = "cloudwatch" /\ (uncreated \/ ~CreatesFirst(a))))
=============================================================================
