------------------------------ MODULE Commands ------------------------------
(***************************************************************************)
(* The commands over log groups, each one run of the s4logs binary: drain  *)
(* and reconcile, plan, report, and the selection of groups that grep and  *)
(* restore begin with.                                                     *)
(***************************************************************************)
EXTENDS DrainCommand, PlanCommand, ReportCommand

vars == <<discovery, drainVars, planVars, reportVars>>

Init == InitDiscovery /\ InitDrainCommand /\ InitPlan /\ InitReport

\* A step of the command itself.
Step ==
  \/ DiscoveryStep /\ UNCHANGED <<drainVars, planVars, reportVars>>
  \/ DrainStep /\ UNCHANGED <<planVars, reportVars>>
  \/ PlanStep /\ UNCHANGED <<drainVars, reportVars>>
  \/ ReportStep /\ UNCHANGED <<drainVars, planVars>>

\* What others do meanwhile.
Meanwhile ==
  \/ \E g \in Groups : Churn(g) /\ UNCHANGED <<drainVars, planVars, reportVars>>
  \/ \E k \in Keys, v \in {Absent, 1, 2, Damaged} :
       WriteManifest(k, v) /\ UNCHANGED <<drainVars, planVars>>

Next == Step \/ Meanwhile

Spec == Init /\ [][Next]_vars

\* The process runs on as long as it can: every call returns or is throttled.
FairSpec == Spec /\ WF_vars(Step)

-----------------------------------------------------------------------------
(* Properties *)

\* Every command comes to an end and exits with a code: no loop over pages, tries,
\* groups, windows or keys goes on for ever, and no job waits for another that
\* never ends (cw.rs:165-187, drain.rs:187-201).
CommandEnds == <>(phase = "exit")
=============================================================================
