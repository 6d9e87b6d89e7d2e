------------------------------ MODULE MCDrain ------------------------------
(* Small instances of Drain. *)
EXTENDS Drain

CONSTANT j1

\* Three events of two streams; the third is in a window of its own when
\* windows are two long.
ThreeEvents == 1 .. 3
ThreeTimes == <<0, 1, 2>>
ThreeStreams == <<1, 2, 1>>

\* Each event from a stream of its own.
OwnStreams == <<1, 2, 3>>
=============================================================================
