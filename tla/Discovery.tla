----------------------------- MODULE Discovery -----------------------------
(***************************************************************************)
(* What the commands over log groups have in common: the backoff around    *)
(* every CloudWatch call (crates/s4logs-drain/src/cw.rs), the selection of *)
(* groups (discover.rs) and the exit codes (crates/s4logs-cli/src/main.rs).*)
(*                                                                         *)
(* A command lists the groups page by page while others are created and    *)
(* deleted.  Names are numbers: DescribeLogGroups lists them in order.  A  *)
(* call is answered, fails, or is throttled and tried again after a delay. *)
(***************************************************************************)
EXTENDS Integers, FiniteSets, FiniteSetsExt, Sequences

CONSTANTS
  Groups,         \* names that a group may have
  NoCreationTime, \* groups that are listed without a creation time
  Commands,       \* command lines
  PageLen,        \* groups on a page of DescribeLogGroups
  base_ms, cap_ms, max_attempts,  \* BackoffConfig
  U64Max,         \* the largest number of milliseconds
  MaxChurn        \* bound on groups created or deleted during a listing

Main == 0

\* GroupSelector: the names it matches, and those with its literal prefix, which
\* is all that CloudWatch is asked for.
Selector == [kind: {"exact", "glob", "all"}, match: SUBSET Groups, hint: SUBSET Groups]

Command ==
  [name: {"drain", "reconcile", "plan", "grep", "report"}, sel: Selector,
   valid: BOOLEAN,      \* ranges, bucket, account and glob are as they must be
   dry_run: BOOLEAN, retention: BOOLEAN, apply_retention: BOOLEAN,
   group_concurrency: Nat]

ASSUME DiscoveryAssumption ==
  /\ Groups \subseteq Nat \ {Main} /\ IsFiniteSet(Groups) /\ NoCreationTime \subseteq Groups
  /\ Commands \subseteq Command
  /\ \A c \in Commands :
       /\ c.sel.match \subseteq c.sel.hint
       /\ c.sel.kind = "exact" => Cardinality(c.sel.match) = 1
       /\ c.sel.kind = "all" => c.sel.match = Groups
       /\ c.apply_retention => c.retention
  /\ PageLen \in Nat \ {0} /\ max_attempts \in Nat \ {0}
  /\ base_ms \in Nat /\ cap_ms \in 0 .. U64Max /\ U64Max \in Nat /\ MaxChurn \in Nat

VARIABLES
  cw,      \* groups in CloudWatch
  cmd,     \* the command line
  phase,   \* how far the command is
  code,    \* its exit code
  token,   \* the last name on the pages so far
  found,   \* the groups discovered
  call,    \* per caller: tries of its call that were throttled, time it waited
  churn,   \* groups created or deleted so far
  (* history *)
  present  \* groups that were there since the listing began

discovery == <<cw, cmd, phase, code, token, found, call, churn, present>>

NoCall == [n |-> 0, waited |-> 0]

InitDiscovery ==
  /\ cmd \in Commands
  /\ cw \in IF cmd.name = "report" THEN {{}} ELSE SUBSET Groups
  /\ phase = "start" /\ code = 0
  /\ token = Main /\ found = {}
  /\ call = [x \in {Main} \cup Groups |-> NoCall]
  /\ churn = 0
  /\ present = {}

-----------------------------------------------------------------------------
(* The backoff *)

\* Mutant: the product wraps around.
DelayScaleWraps(attempt) ==
  Max({1, Min({cap_ms, (base_ms * 2 ^ Min({attempt - 1, 20})) % (U64Max + 1)})})

\* delay_ms, the scale: doubled per attempt, saturating, capped, and never 0.
DelayScale(attempt) ==
  Max({1, Min({cap_ms, Min({U64Max, base_ms * 2 ^ Min({attempt - 1, 20})})})})

\* delay_ms: the hash picks a delay in the upper half of the scale.
Delays(attempt) ==
  LET half == DelayScale(attempt) \div 2
  IN {half + (h % (half + 1)) : h \in 0 .. half}

\* Mutant: one try too many.
MayRetryOnceMore(x) == call[x].n <= max_attempts

\* with_backoff: the try that is throttled now is not the last one.
MayRetry(x) == call[x].n + 1 < max_attempts

\* The call of x is throttled and will be tried again after its delay.
Throttled(x) ==
  /\ MayRetry(x)
  /\ \E d \in Delays(call[x].n + 1) :
       call' = [call EXCEPT ![x] = [n |-> @.n + 1, waited |-> @.waited + d]]

\* with_backoff returns: the answer, an error, or the last throttling.
Returned(x) == call' = [call EXCEPT ![x] = NoCall]

-----------------------------------------------------------------------------
(* The command and its exit *)

Exit(c) == phase' = "exit" /\ code' = c

\* An option is missing or contradicts another: a usage error, before any call.
UsageError ==
  /\ phase = "start" /\ ~cmd.valid
  /\ Exit(2)
  /\ UNCHANGED <<cw, cmd, token, found, call, churn, present>>

\* grep and restore take an exact name as it is; report reads only S3.
AsksCloudWatch ==
  /\ cmd.name # "report"
  /\ ~(cmd.name = "grep" /\ cmd.sel.kind = "exact")

StartListing ==
  /\ phase = "start" /\ cmd.valid /\ AsksCloudWatch
  /\ phase' = "list"
  /\ present' = cw
  /\ UNCHANGED <<cw, cmd, code, token, found, call, churn>>

\* resolve_source_groups, the fast path: no call to CloudWatch.
ExactSource ==
  /\ phase = "start" /\ cmd.valid /\ cmd.name = "grep" /\ cmd.sel.kind = "exact"
  /\ found' = cmd.sel.match
  /\ Exit(0)
  /\ UNCHANGED <<cw, cmd, token, call, churn, present>>

-----------------------------------------------------------------------------
(* discover_log_groups *)

\* What DescribeLogGroups has left to list under the prefix.
Unlisted == {g \in cw \cap cmd.sel.hint : g > token}

\* A page: the next names, in order.
Page == {g \in Unlisted : Cardinality({h \in Unlisted : h < g}) < PageLen}

\* Mutant: without a next token the names of the page are not looked at.
NamedUnlessLast == IF Unlisted = Page THEN {} ELSE Page \ NoCreationTime

\* The names of a page that count: a group without creation time is skipped.
Named == Page \ NoCreationTime

\* GroupSelector::matches
Matches(g) == g \in cmd.sel.match

\* Mutant: the first page is asked for again.
SameToken == token

NextToken == Max(Page \cup {token})

\* All pages are in: go on with the groups, or stop without any.
Discovered(gs) ==
  /\ found' = gs
  /\ \/ gs = {} /\ cmd.name # "plan" /\ Exit(2)
     \/ gs # {} /\ cmd.name = "grep" /\ Exit(0)
     \/ (gs # {} \/ cmd.name = "plan") /\ cmd.name # "grep"
        /\ phase' = "work" /\ UNCHANGED code

\* list_log_groups: pages until there is no token, filtered by the selector.
ListPage ==
  /\ phase = "list" /\ cmd.sel.kind # "exact"
  /\ Returned(Main)
  /\ token' = NextToken
  /\ LET gs == found \cup {g \in Named : Matches(g)}
     IN \/ Unlisted # Page /\ found' = gs /\ UNCHANGED <<phase, code>>
        \/ Unlisted = Page /\ Discovered(gs)
  /\ UNCHANGED <<cw, cmd, churn, present>>

\* describe_log_group: pages until the exact name shows up with its creation
\* time; else an error.
DescribePage ==
  LET hit == Page \cap cmd.sel.match
  IN /\ phase = "list" /\ cmd.sel.kind = "exact"
     /\ Returned(Main)
     /\ token' = NextToken
     /\ \/ hit # {} /\ hit \cap NoCreationTime = {} /\ Discovered(hit)
        \/ hit # {} /\ hit \cap NoCreationTime # {} /\ Exit(1) /\ UNCHANGED found
        \/ hit = {} /\ Unlisted # Page /\ UNCHANGED <<found, phase, code>>
        \/ hit = {} /\ Unlisted = Page /\ Exit(1) /\ UNCHANGED found
     /\ UNCHANGED <<cw, cmd, churn, present>>

ListThrottled ==
  /\ phase = "list"
  /\ Throttled(Main)
  /\ UNCHANGED <<cw, cmd, phase, code, token, found, churn, present>>

\* Any other error, or the last try throttled.
ListFails ==
  /\ phase = "list"
  /\ Returned(Main) /\ Exit(1)
  /\ UNCHANGED <<cw, cmd, token, found, churn, present>>

\* Others create and delete groups while this command lists them.
Churn(g) ==
  /\ phase = "list" /\ churn < MaxChurn
  /\ cw' = IF g \in cw THEN cw \ {g} ELSE cw \cup {g}
  /\ present' = present \ {g}
  /\ churn' = churn + 1
  /\ UNCHANGED <<cmd, phase, code, token, found, call>>

DiscoveryStep ==
  \/ UsageError \/ StartListing \/ ExactSource
  \/ ListPage \/ DescribePage \/ ListThrottled \/ ListFails

-----------------------------------------------------------------------------
(* Properties *)

\* A call is tried at most max_attempts times, and what it waited is within the
\* documented bounds: for each retry between half and all of
\* min(base * 2^(attempt - 1), cap), at least 1, with no overflow (cw.rs:147-163).
BackoffBounded ==
  \A x \in DOMAIN call :
    LET n == call[x].n
        scale == [i \in 1 .. n |-> Max({1, Min({cap_ms, base_ms * 2 ^ (i - 1)})})]
    IN /\ n < max_attempts
       /\ MapThenSumSet(LAMBDA i : scale[i] \div 2, 1 .. n) <= call[x].waited
       /\ call[x].waited <= MapThenSumSet(LAMBDA i : scale[i], 1 .. n)

\* A listing that succeeds has every matching group that was there all the time,
\* whatever was created or deleted between its pages, and no group that the
\* selector does not match (discover.rs:88-116).
FoundComplete ==
  /\ \A g \in found : g \in cmd.sel.match
  /\ phase \notin {"start", "list"} /\ code # 1 /\ cmd.valid /\ AsksCloudWatch =>
       {g \in present : g \in cmd.sel.match} \ NoCreationTime \subseteq found
=============================================================================
