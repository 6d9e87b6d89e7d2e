----------------------------- MODULE SortAndSum -----------------------------
(***************************************************************************)
(* What the readers do with finite sets: sort_by with a total order, and   *)
(* adding up (crates/s4logs-cli/src/scan.rs, commands/plan.rs, report.rs). *)
(***************************************************************************)
EXTENDS Integers, FiniteSetsExt, SequencesExt

\* The elements of S, each before those it precedes (sort_by).
InOrder(S, Before(_, _)) ==
  CHOOSE s \in SetToSeqs(S) : \A i, k \in DOMAIN s : i < k => Before(s[i], s[k])

\* The sum of F over S.
Total(F, S) == MapThenSumSet(LAMBDA x : F[x], S)
=============================================================================
