---------------------------- MODULE MCGatewayApi ----------------------------
(* Small instances of GatewayApi. *)
EXTENDS GatewayApi, TLC

CONSTANTS a1, a2

\* Two agents on one group, one of which puts before it creates, or on a group each.
SmallFleets ==
  {[target |-> a1 :> <<1, 1>> @@ a2 :> <<1, 2>>, putFirst |-> {a2}],
   [target |-> a1 :> <<1, 1>> @@ a2 :> <<2, 1>>, putFirst |-> {}]}

R(G, S, act) == [groups |-> G, streams |-> S, action |-> act]

\* No rule, a rule for one stream, and a rule that hides a later one.
SmallTables ==
  [default: Actions, rules: {<< >>}]
    \cup [default: {"s3"}, rules: {<<R({1}, {1}, act)>> : act \in {"cloudwatch", "both"}}]
    \cup [default: {"cloudwatch"}, rules: {<<R({1}, {1}, "s3")>>}]
    \cup [default: {"s3"},
          rules: {<<R({1}, {2}, "s3"), R({1, 2}, {1, 2}, act)>> : act \in {"cloudwatch", "both"}}]
=============================================================================
