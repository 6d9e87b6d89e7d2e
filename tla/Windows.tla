------------------------------ MODULE Windows ------------------------------
(***************************************************************************)
(* The window grid of a log group (crates/s4logs-drain/src/window.rs).     *)
(*                                                                         *)
(* The drain asks for the complete windows of a range, the retention gate  *)
(* for all windows that begin before its cutoff.  Both walk a grid that    *)
(* starts anew at every UTC day, so that a window size that does not       *)
(* divide the day is cut at midnight.  Manifests are keyed by a window's   *)
(* bounds: the two walks must agree on them wherever they begin.           *)
(***************************************************************************)
EXTENDS Integers

CONSTANTS
  DayMs,    \* length of a day
  MaxTs,    \* bound on the timestamps
  Sizes     \* --window

ASSUME WindowsAssumption ==
  /\ DayMs \in Nat \ {0} /\ MaxTs \in Nat
  /\ Sizes \subseteq Nat \ {0}

VARIABLES
  walk,     \* which of the two functions runs
  from, to, size,  \* its arguments
  start,    \* where the next window begins
  out,      \* the windows so far
  done

vars == <<walk, from, to, size, start, out, done>>

Min(a, b) == IF a < b THEN a ELSE b

\* Mutant: the grid does not start anew at midnight.
AlignedToEpoch(ts, sz) == (ts \div sz) * sz

align_down(ts, sz) ==
  LET day == (ts \div DayMs) * DayMs
  IN day + ((ts - day) \div sz) * sz

\* Mutant: a boundary at midnight is cut at itself.
NextStuck(boundary, sz) ==
  Min(boundary + sz, ((boundary + DayMs - 1) \div DayMs) * DayMs)

next_boundary(boundary, sz) ==
  Min(boundary + sz, (boundary \div DayMs) * DayMs + DayMs)

\* validate: sizes are positive and times not negative.
Init ==
  /\ walk \in {"windows", "windows_covering"}
  /\ from \in 0 .. MaxTs /\ to \in 0 .. MaxTs /\ size \in Sizes
  /\ start = align_down(from, size)
  /\ out = {}
  /\ done = FALSE

\* Mutant: windows_covering stops at the last complete window.
StopsAtCutoff(end) == end > to

\* windows keeps the windows that have ended, windows_covering those begun.
Stop(end) == IF walk = "windows" THEN end > to ELSE start >= to

\* One turn of the loop.
Step ==
  LET end == next_boundary(start, size)
  IN /\ ~done
     /\ \/ /\ Stop(end)
           /\ done' = TRUE
           /\ UNCHANGED <<start, out>>
        \/ /\ ~Stop(end)
           /\ out' = out \cup {<<start, end>>}
           /\ start' = end
           /\ UNCHANGED done
     /\ UNCHANGED <<walk, from, to, size>>

\* The walk is over; the caller has its windows.
Returned == done /\ UNCHANGED vars

Next == Step \/ Returned

Spec == Init /\ [][Next]_vars

FairSpec == Spec /\ WF_vars(Step)

-----------------------------------------------------------------------------
(* Reference: the boundaries are the midnights and, within a day, the       *)
(* multiples of the size; a window lies between two boundaries with none    *)
(* in between.                                                              *)

IsBoundary(t, sz) == (t % DayMs) % sz = 0

IsWindow(w, sz) ==
  /\ IsBoundary(w[1], sz) /\ IsBoundary(w[2], sz) /\ w[1] < w[2]
  /\ \A t \in w[1] + 1 .. w[2] - 1 : ~IsBoundary(t, sz)

Grid(sz) == {w \in (0 .. MaxTs) \X (1 .. MaxTs + DayMs) : IsWindow(w, sz)}

\* The windows are exactly those of the grid that the range asks for, whatever
\* the range begins with: a window has the same bounds, and so the same
\* manifest key, for the drain and for the gate.
SameGrid ==
  done => out = {w \in Grid(size) :
                   w[2] > from /\ (IF walk = "windows" THEN w[2] <= to ELSE w[1] < to)}

\* No event falls between windows: each time of the gate's range is in a window,
\* and each time of the drain's range up to its last boundary.
NoHole ==
  done => \A t \in from .. to - 1 :
            \/ \E w \in out : w[1] <= t /\ t < w[2]
            \/ walk = "windows" /\ next_boundary(align_down(t, size), size) > to

\* The walk ends: each turn moves on, also across midnight.
Terminates == <>done
=============================================================================
