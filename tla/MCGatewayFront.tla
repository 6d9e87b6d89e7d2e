--------------------------- MODULE MCGatewayFront ---------------------------
(* Small instances of GatewayFront. *)
EXTENDS GatewayFront

CONSTANTS c1, c2, c3

\* A sender, or three pollers.
SmallFleets == {<<{c1}, {}>>, <<{}, {c1, c2, c3}>>}

\* A clock that is right, off by as much as is allowed, or by more.
SmallSkews == -2 .. 2

\* The last day of a year, and of February in years that are leap years and not.
EndsOfMonth == {<<2023, 12, 31>>, <<2024, 2, 28>>, <<2024, 2, 29>>, <<2100, 2, 28>>}
=============================================================================
