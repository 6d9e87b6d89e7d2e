---------------------------- MODULE PlanCommand ----------------------------
(***************************************************************************)
(* `s4logs plan` (crates/s4logs-cli/src/commands/plan.rs): what the        *)
(* discovered groups cost and what a drain would save.                     *)
(*                                                                         *)
(* The bytes that a group ingested come from GetMetricData, some queries   *)
(* per call, each answer in several pages that may hold parts of a query's *)
(* datapoints.  Amounts are whole numbers: 100000ths of a dollar, for one  *)
(* unit of bytes, times the days of the sample.                            *)
(***************************************************************************)
EXTENDS Discovery, SortAndSum

CONSTANTS
  Stored,         \* per group: storedBytes, which CloudWatch may give as negative
  Incoming,       \* per group: the daily IncomingBytes, one per day with data
  ingest_days,    \* --ingest-days
  METRIC_QUERIES_PER_CALL

ASSUME PlanAssumption ==
  /\ Stored \in [Groups -> Int] /\ Incoming \in [Groups -> Seq(Nat)]
  /\ ingest_days \in Nat \ {0} /\ METRIC_QUERIES_PER_CALL \in Nat \ {0}

VARIABLES
  batch,    \* index of the first query of the call
  points,   \* datapoints of the call that no page has had yet
  asked,    \* is the call of this batch under way?
  sums      \* per index: the bytes so far

planVars == <<batch, points, asked, sums>>

InitPlan ==
  /\ batch = 1 /\ points = {} /\ asked = FALSE
  /\ sums = [i \in 1 .. Cardinality(Groups) |-> 0]

\* The discovered groups, sorted by name: the index is the id of a query.
Names == InOrder(found, LAMBDA g, h : g < h)

\* metric_batches: the queries of the call.
Queries == batch .. Min({batch + METRIC_QUERIES_PER_CALL - 1, Cardinality(found)})

\* Mutant: the ids number the queries of one call.
IdWithinCall(i) == <<"m", i - batch + 1>>

query_id(i) == <<"m", i>>

parse_query_id(id) == IF id[1] = "m" THEN {id[2]} ELSE {}

\* The daily datapoints of a query.
Datapoints(i) ==
  LET bytes == Incoming[Names[i]]
  IN {[id |-> query_id(i), day |-> d, bytes |-> bytes[d]] : d \in DOMAIN bytes}

\* Every query of the batch, with its datapoints.
AskMetrics ==
  /\ phase = "work" /\ cmd.name = "plan" /\ ~asked /\ batch <= Cardinality(found)
  /\ asked' = TRUE
  /\ points' = UNION {Datapoints(i) : i \in Queries}
  /\ UNCHANGED <<discovery, batch, sums>>

\* What a page adds to the sum of index i.
Added(i, page) ==
  sums[i] + Total([p \in page |-> p.bytes], {p \in page : i \in parse_query_id(p.id)})

\* fetch_ingest_sums: a page of the answer; the last one has no token.
MetricPage(page) ==
  /\ phase = "work" /\ cmd.name = "plan" /\ asked
  /\ page \subseteq points /\ (page = {} => points = {})
  /\ sums' = [i \in DOMAIN sums |-> Added(i, page)]
  /\ points' = points \ page
  /\ \/ points' # {} /\ UNCHANGED <<batch, asked>>
     \/ points' = {} /\ asked' = FALSE /\ batch' = batch + METRIC_QUERIES_PER_CALL
  /\ UNCHANGED discovery

MetricFails ==
  /\ phase = "work" /\ cmd.name = "plan" /\ asked
  /\ Exit(1)
  /\ UNCHANGED <<cw, cmd, token, found, call, churn, present, planVars>>

EndPlan ==
  /\ phase = "work" /\ cmd.name = "plan" /\ ~asked /\ batch > Cardinality(found)
  /\ Exit(0)
  /\ UNCHANGED <<cw, cmd, token, found, call, churn, present, planVars>>

PlanStep == AskMetrics \/ (\E page \in SUBSET points : MetricPage(page)) \/ MetricFails \/ EndPlan

-----------------------------------------------------------------------------
(* The table *)

\* Mutant: the bypassed ingest is counted for all of the bytes, and storage twice.
SavingsTwice(stored, ingest) == 2 * (stored * 3000 - stored * 65 * 23) * ingest_days + ingest * 50000 * 30

\* Storage at 3 cents against 65% of it at 2.3 cents, and 90% of the ingest.
Savings(stored, ingest) ==
  (stored * 3000 - stored * 65 * 23) * ingest_days + ingest * 45000 * 30

\* compute_row; ingest at 50 cents, scaled from the sample to 30 days.
Row(name, stored, ingest) ==
  [name |-> name, stored |-> stored, ingest |-> ingest,
   cost |-> stored * 3000 * ingest_days + ingest * 50000 * 30,
   savings |-> Savings(stored, ingest)]

Rows == {Row(Names[i], Max({0, Stored[Names[i]]}), sums[i]) : i \in 1 .. Cardinality(found)}

\* build_summary: by cost, descending, then by name.
Costlier(r, s) == r.cost > s.cost \/ (r.cost = s.cost /\ r.name < s.name)

Table == InOrder(Rows, Costlier)

TotalRow ==
  Row(Main, Total([r \in Rows |-> r.stored], Rows), Total([r \in Rows |-> r.ingest], Rows))

-----------------------------------------------------------------------------
(* Properties *)

PlanDone == phase = "exit" /\ code = 0 /\ cmd.name = "plan"

\* The table names every group once, the costliest first; its last row is the sum
\* of all the others, and no row promises to save more than the group costs
\* (plan.rs:168-197).  Each group's ingest is the sum of all its datapoints, each
\* counted once and for no other group, however the answers are cut into calls and
\* pages (plan.rs:397-439).
PlanSound ==
  PlanDone =>
    /\ \A i \in 1 .. Cardinality(found) :
         sums[i] = Total(Incoming[Names[i]], DOMAIN Incoming[Names[i]])
    /\ {Table[i].name : i \in DOMAIN Table} = found /\ Len(Table) = Cardinality(found)
    /\ \A i, k \in DOMAIN Table : i < k => Table[i].cost >= Table[k].cost
    /\ TotalRow.cost = Total([i \in DOMAIN Table |-> Table[i].cost], DOMAIN Table)
    /\ TotalRow.savings = Total([i \in DOMAIN Table |-> Table[i].savings], DOMAIN Table)
    /\ \A i \in DOMAIN Table : 0 <= Table[i].savings /\ Table[i].savings <= Table[i].cost
=============================================================================
