---------------------------- MODULE DrainCommand ----------------------------
(***************************************************************************)
(* `s4logs drain` over the groups that were discovered                     *)
(* (crates/s4logs-cli/src/commands/drain.rs, drain_groups and the reports  *)
(* of crates/s4logs-drain/src/job.rs).                                     *)
(*                                                                         *)
(* One job per group, several at a time, or with --reconcile one after the *)
(* other; then the retention gate for the groups whose job succeeded, one  *)
(* after the other.  What a job does with its windows is Drain: here it    *)
(* ends one window after the other, with calls that are throttled or fail. *)
(***************************************************************************)
EXTENDS Discovery

CONSTANTS
  WindowsOf   \* per group: how many windows its range has

ASSUME DrainCommandAssumption == WindowsOf \in [Groups -> Nat]

VARIABLES
  job,       \* per group: its job and DrainReport
  gate,      \* the retention pass: the group it is at, and where there
  passed,    \* groups whose gate was evaluated
  applied,   \* groups whose retention this command has changed
  (* history *)
  erred      \* groups with a call that failed

drainVars == <<job, gate, passed, applied, erred>>

NoReport == [total |-> 0, processed |-> 0, skipped |-> 0, empty |-> 0, records |-> 0, objects |-> 0]

NoJob == [pc |-> "none", left |-> 0, report |-> NoReport]

NoGate == [at |-> Main, pc |-> "none"]

InitDrainCommand ==
  /\ job = [g \in Groups |-> NoJob]
  /\ gate = NoGate
  /\ passed = {} /\ applied = {} /\ erred = {}

-----------------------------------------------------------------------------
IsDrain == cmd.name \in {"drain", "reconcile"}

Running == {g \in Groups : job[g].pc \in {"describe", "run"}}

Ended(g) == job[g].pc \in {"ok", "failed"}

SetJob(g, j) == job' = [job EXCEPT ![g] = j]

\* drain_groups runs up to group_concurrency jobs; a reconcile runs its groups in
\* the order of their names.
MayStart(g) ==
  \/ cmd.name = "drain" /\ Cardinality(Running) < Max({1, cmd.group_concurrency})
  \/ cmd.name = "reconcile" /\ \A h \in found : h < g => Ended(h)

\* DrainJob::run: the range begins at the creation time that the listing gave; a
\* reconcile asks for it again.
StartGroup(g) ==
  /\ phase = "work" /\ IsDrain
  /\ g \in found /\ job[g].pc = "none" /\ MayStart(g)
  /\ SetJob(g, [pc |-> IF cmd.name = "reconcile" THEN "describe" ELSE "run",
                left |-> WindowsOf[g], report |-> [NoReport EXCEPT !.total = WindowsOf[g]]])
  /\ UNCHANGED <<discovery, gate, passed, applied, erred>>

DescribeGroup(g) ==
  /\ job[g].pc = "describe"
  /\ Returned(g)
  /\ job' = [job EXCEPT ![g].pc = "run"]
  /\ UNCHANGED <<cw, cmd, phase, code, token, found, churn, present, gate, passed, applied, erred>>

\* DrainReport::absorb
Absorb(r, o) ==
  IF o.skipped THEN [r EXCEPT !.skipped = @ + 1]
  ELSE [r EXCEPT !.processed = @ + 1, !.empty = @ + (IF o.records = 0 THEN 1 ELSE 0),
                 !.records = @ + o.records, !.objects = @ + o.objects]

\* A window has ended; the job goes on to the next.
EndWindow(g, o) ==
  SetJob(g, [job[g] EXCEPT !.left = @ - 1, !.report = Absorb(@, o)])

\* A drain skips a window that has a manifest, without a call to CloudWatch; a
\* reconcile pages it again.
SkipWindow(g) ==
  /\ cmd.name = "drain" /\ job[g].pc = "run" /\ job[g].left > 0 /\ call[g] = NoCall
  /\ EndWindow(g, [skipped |-> TRUE, records |-> 0, objects |-> 0])
  /\ UNCHANGED <<discovery, gate, passed, applied, erred>>

\* A window is paged: filter_log_events was answered, with n events.
PageWindow(g, n) ==
  /\ job[g].pc = "run" /\ job[g].left > 0
  /\ Returned(g)
  /\ EndWindow(g, [skipped |-> FALSE, records |-> n, objects |-> IF cmd.dry_run THEN 0 ELSE n])
  /\ UNCHANGED <<cw, cmd, phase, code, token, found, churn, present, gate, passed, applied, erred>>

JobThrottled(g) ==
  /\ job[g].pc = "describe" \/ (job[g].pc = "run" /\ job[g].left > 0)
  /\ Throttled(g)
  /\ UNCHANGED <<cw, cmd, phase, code, token, found, churn, present, drainVars>>

JobSucceeds(g) ==
  /\ job[g].pc = "run" /\ job[g].left = 0
  /\ job' = [job EXCEPT ![g].pc = "ok"]
  /\ UNCHANGED <<discovery, gate, passed, applied, erred>>

\* Mutant: a failure ends the whole fan-out.
CancelSiblings(g) ==
  /\ g \in Running
  /\ Returned(g)
  /\ job' = [h \in Groups |-> IF h \in Running THEN [job[h] EXCEPT !.pc = "failed"] ELSE job[h]]
  /\ phase' = "gate"
  /\ erred' = erred \cup {g}
  /\ UNCHANGED <<cw, cmd, code, token, found, churn, present, gate, passed, applied>>

\* The first error ends the job of this group and of no other.
JobFails(g) ==
  /\ g \in Running
  /\ Returned(g)
  /\ job' = [job EXCEPT ![g].pc = "failed"]
  /\ erred' = erred \cup {g}
  /\ UNCHANGED <<cw, cmd, phase, code, token, found, churn, present, gate, passed, applied>>

\* All groups have an outcome.
JobsEnd ==
  /\ phase = "work" /\ IsDrain /\ \A g \in found : Ended(g)
  /\ phase' = "gate"
  /\ UNCHANGED <<cw, cmd, code, token, found, call, churn, present, drainVars>>

-----------------------------------------------------------------------------
(* The report *)

Succeeded == {g \in found : job[g].pc = "ok"}

Failed == {g \in found : job[g].pc = "failed"}

\* Mutant: what a failed group did before it failed is added up too.
AddedUpAlways(g) == g \in found

\* MultiDrainReport::succeeded
AddedUp(g) == g \in Succeeded

\* MultiDrainReport::aggregate
Aggregate ==
  LET Total(f) == MapThenSumSet(LAMBDA g : job[g].report[f], {g \in found : AddedUp(g)})
  IN [f \in DOMAIN NoReport |-> Total(f)]

-----------------------------------------------------------------------------
(* The retention pass *)

NextGate == {g \in found : g > gate.at}

Applies == cmd.apply_retention /\ ~cmd.dry_run

\* Mutant: the gate is evaluated for every group.
AnyOutcome(g) == TRUE

\* The gate is only for groups whose drain succeeded.
IsGated(g) == job[g].pc = "ok"

\* The next group, if its drain succeeded; else it is passed over.
EnterGate ==
  /\ phase = "gate" /\ cmd.retention /\ gate.pc = "none" /\ NextGate # {}
  /\ LET g == Min(NextGate)
     IN gate' = [at |-> g, pc |-> IF IsGated(g) THEN "plan" ELSE "none"]
  /\ UNCHANGED <<discovery, job, passed, applied, erred>>

\* plan_retention: windows are missing, or all are covered.
PlanRetention ==
  /\ phase = "gate" /\ gate.pc = "plan"
  /\ passed' = passed \cup {gate.at}
  /\ \/ gate' = [gate EXCEPT !.pc = "none"]
     \/ gate' = [gate EXCEPT !.pc = IF Applies THEN "put" ELSE "none"]
  /\ UNCHANGED <<discovery, job, applied, erred>>

\* put_retention_policy
PutRetention ==
  /\ phase = "gate" /\ gate.pc = "put"
  /\ Returned(Main)
  /\ applied' = applied \cup {gate.at}
  /\ gate' = [gate EXCEPT !.pc = "none"]
  /\ UNCHANGED <<cw, cmd, phase, code, token, found, churn, present, job, passed, erred>>

PutThrottled ==
  /\ phase = "gate" /\ gate.pc = "put"
  /\ Throttled(Main)
  /\ UNCHANGED <<cw, cmd, phase, code, token, found, churn, present, drainVars>>

\* An error at the gate ends the command: later groups have no gate.
GateFails ==
  /\ phase = "gate" /\ gate.pc \in {"plan", "put"}
  /\ Returned(Main) /\ Exit(1)
  /\ UNCHANGED <<cw, cmd, token, found, churn, present, drainVars>>

\* Mutant: the exit code only says that the command ran to its end.
AlwaysZero == 0

ExitCode == IF Failed = {} THEN 0 ELSE 1

EndDrain ==
  /\ phase = "gate" /\ gate.pc = "none" /\ (cmd.retention => NextGate = {})
  /\ Exit(ExitCode)
  /\ UNCHANGED <<cw, cmd, token, found, call, churn, present, drainVars>>

DrainStep ==
  \/ \E g \in Groups :
       \/ StartGroup(g) \/ DescribeGroup(g) \/ SkipWindow(g)
       \/ \E n \in {0, 1} : PageWindow(g, n)
       \/ JobThrottled(g) \/ JobSucceeds(g) \/ JobFails(g)
  \/ JobsEnd \/ EnterGate \/ PlanRetention \/ PutRetention \/ PutThrottled \/ GateFails \/ EndDrain

-----------------------------------------------------------------------------
(* Properties *)

\* A drain that exits with 0 has drained every group it discovered, and with
\* --retention-days evaluated the gate of each; one that exits with 2 has done
\* nothing (commands/drain.rs:187-201, main.rs:3).
ExitTruthful ==
  phase = "exit" /\ IsDrain =>
    /\ code = 0 => /\ \A g \in found : job[g].pc = "ok"
                   /\ cmd.retention => passed = found
    /\ code = 2 => applied = {} /\ \A g \in Groups : job[g] = NoJob

\* A group's failure stops no other group: when the jobs are over, every group
\* that was discovered and whose own calls did not fail is drained to its last
\* window, and no other counts as drained (job.rs:552-554).  What the command
\* prints adds up all the same: of the windows it reports, each was either paged
\* or skipped (job.rs:574-600).
FailuresIsolated ==
  phase = "gate" =>
    /\ \A g \in found :
         IF g \in erred THEN job[g].pc = "failed" ELSE job[g].pc = "ok" /\ job[g].left = 0
    /\ Aggregate.total = Aggregate.processed + Aggregate.skipped
    /\ Aggregate.empty <= Aggregate.processed
    /\ cmd.dry_run => Aggregate.objects = 0

\* Retention is changed only for a group that this very command drained to the
\* end without an error, and never in a dry run (commands/drain.rs:152-165).
RetentionAfterDrain ==
  \A g \in applied : job[g].pc = "ok" /\ job[g].left = 0 /\ ~cmd.dry_run /\ g \in passed
=============================================================================
