-------------------------- MODULE MCGatewayBuffer --------------------------
(* Small instances of GatewayBuffer. *)
EXTENDS GatewayBuffer, TLC

CONSTANTS k1, k2, e1, e2, e3, r1, r2

\* A request of one record, and one whose two records fall on two days.
TwoRequests == {r1, r2}
TwoBatches == r1 :> {e1} @@ r2 :> {e2, e3}

ThreeRecords == {e1, e2, e3}
ThreeDays == [e \in ThreeRecords |-> IF e = e3 THEN k2 ELSE k1]
=============================================================================
