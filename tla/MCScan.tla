------------------------------- MODULE MCScan -------------------------------
(* A small instance of Scan. *)
EXTENDS Scan

\* Four records on two days; two share a time and differ in stream.
FourRecords == 1 .. 4
FourTimes == <<1, 2, 2, 4>>
FourStreams == <<1, 2, 1, 1>>
FourSizes == <<1, 1, 2, 4>>

\* Two chunks of the first day and one of the second.
ThreeDays == <<0, 0, 1>>

\* Within a day, across the days, and with an end that cuts a frame.
FourCommands ==
  {[mode |-> "grep", from |-> 1, to |-> 3], [mode |-> "file", from |-> 2, to |-> 5],
   [mode |-> "wrap", from |-> 0, to |-> 8], [mode |-> "raw", from |-> 0, to |-> 8]}
=============================================================================
