----------------------------- MODULE MCCommands -----------------------------
EXTENDS Commands

\* Three groups; "glob" selects the first and the last of them and asks for the
\* prefix of all, "exact" the second, whose creation time may be missing.
MCGroups == 1 .. 3

All == [kind |-> "all", match |-> MCGroups, hint |-> MCGroups]
Glob == [kind |-> "glob", match |-> {1, 3}, hint |-> MCGroups]
Exact(g) == [kind |-> "exact", match |-> {g}, hint |-> {h \in MCGroups : h >= g}]

Cmd(name, sel) ==
  [name |-> name, sel |-> sel, valid |-> TRUE, dry_run |-> FALSE,
   retention |-> FALSE, apply_retention |-> FALSE, group_concurrency |-> 2]

MCCommands ==
  {[Cmd("drain", Glob) EXCEPT !.retention = TRUE, !.apply_retention = TRUE],
   [Cmd("drain", Exact(1)) EXCEPT !.retention = TRUE, !.apply_retention = TRUE, !.dry_run = TRUE],
   [Cmd("reconcile", Glob) EXCEPT !.retention = TRUE, !.apply_retention = TRUE],
   [Cmd("drain", Exact(2)) EXCEPT !.group_concurrency = 0],
   [Cmd("drain", All) EXCEPT !.valid = FALSE],
   Cmd("plan", All), Cmd("grep", Glob), Cmd("grep", Exact(3)),
   Cmd("report", Glob), Cmd("report", All)}

MCWindowsOf == <<2, 0, 1>>

\* The stored bytes of group 3 are negative, as CloudWatch may list them.
MCStored == <<5, 0, -1>>
MCIncoming == <<<<1, 2>>, <<>>, <<4>>>>

\* Group 1 has two windows with a tick between them and one that holds both, group
\* 3 two adjacent ones; key 4 is foreign.
MCKeys == 1 .. 6
MCKeyGroup == <<1, 1, 1, Main, 3, 3>>
MCKeyWindow == <<<<0, 2>>, <<0, 8>>, <<3, 5>>, <<0, 1>>, <<0, 2>>, <<2, 4>>>>

\* An object of an old manifest, one drained without --storage-class, and one with.
Old(n) == [len |-> n, raw |-> 4 * n, class |-> "STANDARD", sized |-> FALSE, classed |-> FALSE]
Plain(n) == [Old(n) EXCEPT !.sized = TRUE]
New(n, c) == [Plain(n) EXCEPT !.class = c, !.classed = TRUE]

MCObjects ==
  [k \in MCKeys |->
     CASE k = 1 -> << <<New(2, "STANDARD_IA")>>, <<New(2, "STANDARD_IA"), New(1, "GLACIER_IR")>> >>
       [] k = 3 -> << <<>>, <<Plain(1)>> >>
       [] OTHER -> << <<Old(3)>>, <<Old(3), Plain(1)>> >>]
=============================================================================
