--------------------------- MODULE CommandsProofs ---------------------------
(***************************************************************************)
(* Proofs about Commands, for every set of groups, every command line and  *)
(* every number of pages, windows, throttled calls and failures.           *)
(*                                                                         *)
(* Part 1: discovery, a listing of groups that come and go.                *)
(* Part 2: the jobs of a drain, its retention pass and its exit code.      *)
(* Part 3: the sums of a drain's report.                                   *)
(* Part 4: the backoff.                                                    *)
(* Part 5: the manifests that a report reads while others write them.      *)
(* Part 6: the coverage of windows in order, and its gaps.                 *)
(* Part 7: the savings of a report.                                        *)
(* Part 8: the datapoints of a plan, page by page.                         *)
(* Part 9: the table of a plan and its last row.                           *)
(***************************************************************************)
EXTENDS Commands, NaturalSets, FiniteSetTheorems, SequenceTheorems, TLAPS

-----------------------------------------------------------------------------
(* Part 1: discovery *)

\* The groups that a listing must find.
Wanted == {g \in present : g \in cmd.sel.match} \ NoCreationTime

DiscoveryInv ==
  /\ cmd \in Commands /\ cw \subseteq Groups /\ token \in Nat
  /\ found \subseteq cmd.sel.match /\ found \subseteq Groups
  /\ phase \in {"start", "list", "work", "gate", "keys", "read", "exit"}
  /\ phase # "exit" => code = 0
  /\ phase = "start" => token = Main /\ found = {}
  /\ phase \in {"keys", "read"} => cmd.name = "report"
  /\ phase = "list" =>
       /\ present \subseteq cw
       /\ cmd.sel.kind # "exact" => \A g \in Wanted : g <= token => g \in found
  /\ phase \notin {"start", "list"} /\ code # 1 /\ cmd.valid /\ AsksCloudWatch => Wanted \subseteq found

\* A command line is as the parser leaves it.
LEMMA CommandShape ==
  ASSUME NEW c \in Commands
  PROVE  /\ c.sel.match \subseteq c.sel.hint /\ c.sel.match \subseteq Groups
         /\ c.sel.kind = "exact" => Cardinality(c.sel.match) = 1
<1>1. c \in Command /\ Groups \subseteq Nat
  BY DiscoveryAssumption DEF DiscoveryAssumption
<1>2. c.sel \in Selector
  BY <1>1 DEF Command
<1>3. c.sel.match \subseteq Groups
  BY <1>2 DEF Selector
<1>4. QED
  BY <1>3, DiscoveryAssumption DEF DiscoveryAssumption

\* The token moves forward over names that the page has.
LEMMA PageToken ==
  ASSUME DiscoveryInv
  PROVE  /\ Page \subseteq Unlisted /\ Unlisted \subseteq Groups
         /\ NextToken \in Nat
         /\ \A g \in Unlisted : g <= NextToken => g \in Page
<1>0. Groups \subseteq Nat /\ IsFiniteSet(Groups) /\ PageLen \in Nat
  BY DiscoveryAssumption DEF DiscoveryAssumption
<1>1. Page \subseteq Unlisted /\ Unlisted \subseteq Groups /\ token \in Nat
  BY DEF Page, Unlisted, DiscoveryInv
<1> DEFINE S == Page \cup {token}
<1>2. S \in SUBSET Nat /\ IsFiniteSet(S) /\ S # {}
  <2>1. IsFiniteSet(Page)
    BY <1>0, <1>1, FS_Subset
  <2>2. QED
    BY <1>0, <1>1, <2>1, FS_AddElement
<1>3. NextToken \in S
  <2> HIDE DEF S
  <2> QED BY <1>2, MaxIn DEF NextToken, S
<1>4. NextToken \in Nat
  BY <1>2, <1>3
<1>5. ASSUME NEW g \in Unlisted, g <= NextToken PROVE g \in Page
  <2>1. g \in Nat /\ g > token
    BY <1>0, <1>1 DEF Unlisted
  <2>2. NextToken \in Page
    BY <1>1, <1>3, <1>5, <2>1
  <2> DEFINE A == {h \in Unlisted : h < g}
             B == {h \in Unlisted : h < NextToken}
  <2>3. A \in SUBSET B /\ B \in SUBSET Groups
    <3>1. \A h \in Unlisted : h \in Nat
      BY <1>0, <1>1
    <3>2. ASSUME NEW h \in Unlisted, h < g PROVE h < NextToken
      <4> HIDE DEF S
      <4> QED BY <1>4, <1>5, <2>1, <3>1, <3>2
    <3>3. A \subseteq B
      BY <3>2
    <3>4. B \subseteq Groups
      BY <1>1
    <3> HIDE DEF A, B
    <3>5. QED
      BY <3>3, <3>4
  <2>4. IsFiniteSet(B) /\ IsFiniteSet(A) /\ Cardinality(A) <= Cardinality(B)
    <3> HIDE DEF A, B
    <3> QED BY <1>0, <2>3, FS_Subset
  <2>5. Cardinality(A) \in Nat /\ Cardinality(B) \in Nat
    BY <2>4, FS_CardinalityType
  <2>6. Cardinality(B) < PageLen
    BY <2>2 DEF Page
  <2>7. Cardinality(A) < PageLen
    <3> HIDE DEF A, B
    <3> QED BY <1>0, <2>4, <2>5, <2>6
  <2>8. QED
    BY <2>7 DEF Page
<1>6. QED
  BY <1>1, <1>4, <1>5

\* A page of the listing.
LEMMA ListPageInv ==
  ASSUME DiscoveryInv, ListPage PROVE DiscoveryInv'
<1> DEFINE gs == found \cup {g \in Named : Matches(g)}
<1>0. /\ phase = "list" /\ cmd.sel.kind # "exact" /\ token' = NextToken /\ found' = gs
      /\ UNCHANGED <<cw, cmd, present>> /\ present \subseteq cw /\ cmd \in Commands /\ code = 0
  BY DEF ListPage, Discovered, DiscoveryInv
<1>1. /\ Page \subseteq Unlisted /\ Unlisted \subseteq Groups /\ NextToken \in Nat
      /\ \A g \in Unlisted : g <= NextToken => g \in Page
  BY PageToken
<1>2. gs \subseteq cmd.sel.match /\ gs \subseteq Groups
  BY <1>1 DEF Named, Matches, DiscoveryInv
<1>3. ASSUME NEW g \in Wanted, g <= token PROVE g \in gs
  BY <1>0, <1>3 DEF DiscoveryInv
<1>4. ASSUME NEW g \in Wanted, ~(g <= token) PROVE g \in Unlisted
  <2>1. g \in cw /\ g \in Groups /\ g \in cmd.sel.hint
    BY <1>0, CommandShape DEF Wanted, DiscoveryInv
  <2>2. g \in Nat /\ token \in Nat
    BY <2>1, DiscoveryAssumption DEF DiscoveryAssumption, DiscoveryInv
  <2>3. QED
    BY <1>4, <2>1, <2>2 DEF Unlisted
<1>5. ASSUME NEW g \in Wanted, g \in Page PROVE g \in gs
  BY <1>5 DEF Wanted, Named, Matches
<1>6. Wanted' = Wanted
  BY <1>0 DEF Wanted
<1>7. CASE Unlisted # Page /\ UNCHANGED <<phase, code>>
  <2>1. \A g \in Wanted : g <= NextToken => g \in gs
    BY <1>1, <1>3, <1>4, <1>5
  <2> HIDE DEF gs
  <2>2. QED
    BY <1>0, <1>1, <1>2, <1>6, <1>7, <2>1 DEF DiscoveryInv
<1>8. CASE Unlisted = Page /\ Discovered(gs)
  <2>1. Wanted \subseteq gs
    BY <1>3, <1>4, <1>5, <1>8
  <2>2. phase' \in {"work", "exit"} /\ (phase' # "exit" => code' = 0)
    BY <1>0, <1>8 DEF Discovered, Exit
  <2> HIDE DEF gs
  <2>3. QED
    BY <1>0, <1>1, <1>2, <1>6, <2>1, <2>2 DEF DiscoveryInv, AsksCloudWatch
<1>9. QED
  BY <1>7, <1>8 DEF ListPage

\* A page of the search for an exact name.
LEMMA DescribePageInv ==
  ASSUME DiscoveryInv, DescribePage PROVE DiscoveryInv'
<1> DEFINE hit == Page \cap cmd.sel.match
<1>0. /\ phase = "list" /\ cmd.sel.kind = "exact" /\ token' = NextToken
      /\ UNCHANGED <<cw, cmd, present>> /\ present \subseteq cw /\ cmd \in Commands /\ code = 0
  BY DEF DescribePage, DiscoveryInv
<1>1. Page \subseteq Unlisted /\ Unlisted \subseteq Groups /\ NextToken \in Nat
  BY PageToken
<1>2. PICK x : cmd.sel.match = {x}
  <2>1. Cardinality(cmd.sel.match) = 1 /\ cmd.sel.match \subseteq Groups
    BY <1>0, CommandShape
  <2>2. IsFiniteSet(cmd.sel.match)
    BY <2>1, DiscoveryAssumption, FS_Subset DEF DiscoveryAssumption
  <2>3. QED
    BY <2>1, <2>2, FS_Singleton
<1>3. Wanted' = Wanted
  BY <1>0 DEF Wanted
<1>4. CASE hit # {} /\ Discovered(hit)
  <2>1. hit = cmd.sel.match
    BY <1>2, <1>4
  <2>2. Wanted \subseteq hit
    BY <2>1 DEF Wanted
  <2>3. phase' \in {"work", "exit"} /\ (phase' # "exit" => code' = 0) /\ found' = hit
    BY <1>0, <1>4 DEF Discovered, Exit
  <2>4. hit \subseteq Groups /\ hit \subseteq cmd.sel.match
    BY <1>1
  <2> HIDE DEF hit
  <2>5. QED
    BY <1>0, <1>1, <1>3, <2>2, <2>3, <2>4 DEF DiscoveryInv, AsksCloudWatch
<1>5. CASE UNCHANGED found /\ Exit(1)
  BY <1>0, <1>1, <1>5 DEF DiscoveryInv, Exit
<1>6. CASE UNCHANGED <<found, phase, code>>
  BY <1>0, <1>1, <1>3, <1>6 DEF DiscoveryInv
<1>7. QED
  BY <1>4, <1>5, <1>6 DEF DescribePage

\* What the commands do after discovery leaves its outcome alone.
LEMMA DiscoveryFrame ==
  ASSUME DiscoveryInv, UNCHANGED <<cw, cmd, token, found, present>>,
         \/ UNCHANGED <<phase, code>>
         \/ /\ phase \notin {"start", "list", "exit"}
            /\ phase' = "exit"
         \/ /\ phase \in {"work", "keys"} /\ UNCHANGED code
            /\ phase' \in {"gate", "keys", "read"} /\ (phase' # "gate" => cmd.name = "report")
  PROVE  DiscoveryInv'
<1>1. Wanted' = Wanted /\ AsksCloudWatch' = AsksCloudWatch
  BY DEF Wanted, AsksCloudWatch
<1>2. QED
  BY <1>1 DEF DiscoveryInv

\* Others create or delete a group during the listing.
LEMMA ChurnInv ==
  ASSUME DiscoveryInv, NEW g \in Groups, Churn(g) PROVE DiscoveryInv'
<1>1. /\ phase = "list" /\ UNCHANGED <<cmd, phase, code, token, found>>
      /\ present' = present \ {g} /\ present \subseteq cw
      /\ cw' = IF g \in cw THEN cw \ {g} ELSE cw \cup {g}
  BY DEF Churn, DiscoveryInv
<1>2. cw' \subseteq Groups /\ present' \subseteq cw'
  BY <1>1 DEF DiscoveryInv
<1>3. Wanted' \subseteq Wanted
  BY <1>1 DEF Wanted
<1>4. QED
  BY <1>1, <1>2, <1>3 DEF DiscoveryInv

\* The other steps of discovery.
LEMMA DiscoveryStepInv ==
  ASSUME DiscoveryInv, DiscoveryStep PROVE DiscoveryInv'
<1>1. CASE UsageError
  <2>1. UNCHANGED <<cw, cmd, token, found, present>> /\ phase' = "exit" /\ ~cmd.valid
    BY <1>1 DEF UsageError, Exit
  <2>2. QED
    BY <2>1 DEF DiscoveryInv
<1>2. CASE StartListing
  <2>1. /\ UNCHANGED <<cw, cmd, token, found, code>> /\ phase' = "list" /\ phase = "start"
        /\ present' = cw
    BY <1>2 DEF StartListing
  <2>2. \A g \in Wanted' : ~(g <= token)
    <3>1. \A g \in Wanted' : g \in Groups
      BY <2>1 DEF Wanted, DiscoveryInv
    <3>2. \A g \in Groups : ~(g <= Main)
      BY DiscoveryAssumption DEF DiscoveryAssumption, Main
    <3>3. QED
      BY <2>1, <3>1, <3>2 DEF DiscoveryInv
  <2>3. QED
    BY <2>1, <2>2 DEF DiscoveryInv
<1>3. CASE ExactSource
  <2>1. /\ UNCHANGED <<cw, cmd, token, present>> /\ phase' = "exit"
        /\ found' = cmd.sel.match /\ ~AsksCloudWatch
    BY <1>3 DEF ExactSource, Exit, AsksCloudWatch
  <2>2. cmd.sel.match \subseteq Groups /\ ~AsksCloudWatch'
    BY <2>1, CommandShape DEF DiscoveryInv, AsksCloudWatch
  <2>3. QED
    BY <2>1, <2>2 DEF DiscoveryInv
<1>4. CASE ListThrottled
  BY <1>4, DiscoveryFrame DEF ListThrottled
<1>5. CASE ListFails
  BY <1>5 DEF ListFails, Exit, DiscoveryInv
<1>6. QED
  BY <1>1, <1>2, <1>3, <1>4, <1>5, ListPageInv, DescribePageInv DEF DiscoveryStep

\* A step of a drain or a plan, after discovery.
LEMMA DrainPlanInv ==
  ASSUME DiscoveryInv, DrainStep \/ PlanStep PROVE DiscoveryInv'
<1>1. /\ UNCHANGED <<cw, cmd, token, found, present>>
      /\ \/ UNCHANGED <<phase, code>>
         \/ phase \in {"work", "gate"} /\ phase' = "exit"
         \/ phase = "work" /\ phase' = "gate" /\ UNCHANGED code
  <2>1. CASE DrainStep
    BY <2>1 DEF DrainStep, StartGroup, DescribeGroup, SkipWindow, PageWindow, JobThrottled,
         JobSucceeds, JobFails, JobsEnd, EnterGate, PlanRetention, PutRetention, PutThrottled,
         GateFails, EndDrain, Exit, discovery
  <2>2. CASE PlanStep
    BY <2>2 DEF PlanStep, AskMetrics, MetricPage, MetricFails, EndPlan, Exit, discovery
  <2>3. QED
    BY <2>1, <2>2
<1>2. QED
  BY <1>1, DiscoveryFrame

\* A step of a report, or of those who write manifests meanwhile.
LEMMA ReportInv ==
  ASSUME DiscoveryInv,
         ReportStep \/ \E k \in Keys, v \in {Absent, 1, 2, Damaged} : WriteManifest(k, v)
  PROVE  DiscoveryInv'
<1>1. CASE StartReport
  BY <1>1 DEF StartReport, DiscoveryInv, AsksCloudWatch
<1>2. CASE ListKeys
  <2>1. cmd.name = "report"
    BY <1>2 DEF ListKeys, DiscoveryInv
  <2>2. phase = "keys" /\ phase' \in {"keys", "read"} /\ UNCHANGED <<cw, cmd, token, found, present, code>>
    BY <1>2 DEF ListKeys
  <2>3. QED
    BY <2>1, <2>2, DiscoveryFrame
<1>3. CASE ReadManifest
  BY <1>3, DiscoveryFrame DEF ReadManifest, discovery
<1>4. CASE ReportFails \/ EndReport
  BY <1>4, DiscoveryFrame DEF ReportFails, EndReport, Exit
<1>5. CASE \E k \in Keys, v \in {Absent, 1, 2, Damaged} : WriteManifest(k, v)
  BY <1>5, DiscoveryFrame DEF WriteManifest, discovery
<1>6. QED
  BY <1>1, <1>2, <1>3, <1>4, <1>5 DEF ReportStep

LEMMA DiscoveryInvAlways == Spec => []DiscoveryInv
<1>1. Init => DiscoveryInv
  BY DEF Init, InitDiscovery, DiscoveryInv, Main
<1>2. DiscoveryInv /\ [Next]_vars => DiscoveryInv'
  <2> SUFFICES ASSUME DiscoveryInv, [Next]_vars PROVE DiscoveryInv'
    OBVIOUS
  <2>1. CASE UNCHANGED vars
    BY <2>1, DiscoveryFrame DEF vars, discovery
  <2>2. CASE Next
    BY <2>2, DiscoveryStepInv, DrainPlanInv, ReportInv, ChurnInv DEF Next, Step, Meanwhile
  <2>3. QED
    BY <2>1, <2>2
<1>3. QED
  BY <1>1, <1>2, PTL DEF Spec

\* However groups come and go between the pages of a listing (discover.rs:88-116), a
\* command that goes on with its result has every matching group that was there all
\* the time, and never a group that the selector does not match.
THEOREM FoundCompleteAlways == Spec => []FoundComplete
<1>1. DiscoveryInv => FoundComplete
  BY DEF DiscoveryInv, FoundComplete, Wanted
<1>2. QED
  BY <1>1, DiscoveryInvAlways, PTL

-----------------------------------------------------------------------------
(* Part 2: the drain *)

Report == [total: Nat, processed: Nat, skipped: Nat, empty: Nat, records: Nat, objects: Nat]

Job == [pc: {"none", "describe", "run", "ok", "failed"}, left: Nat, report: Report]

\* The report of a job adds up at any time.
Balanced(g) ==
  LET r == job[g].report
  IN /\ r.total = r.processed + r.skipped + job[g].left
     /\ r.empty <= r.processed
     /\ cmd.dry_run => r.objects = 0

JobInv(g) ==
  /\ job[g] \in Job
  /\ job[g].pc = "none" => job[g] = NoJob
  /\ job[g].pc # "none" => g \in found /\ IsDrain /\ phase \in {"work", "gate", "exit"}
  /\ job[g].pc \in {"describe", "run"} => phase = "work"
  /\ job[g].pc = "ok" => job[g].left = 0
  /\ job[g].pc = "failed" <=> g \in erred
  /\ Balanced(g)

\* Where the retention pass is.
PassInv ==
  /\ gate \in [at: Nat, pc: {"none", "plan", "put"}]
  /\ passed \subseteq found /\ applied \subseteq passed
  /\ \A g \in passed : job[g].pc = "ok"
  /\ applied # {} => ~cmd.dry_run
  /\ phase \notin {"gate", "exit"} \/ ~IsDrain => gate = NoGate /\ passed = {}
  /\ phase = "gate" =>
       /\ IsDrain
       /\ \A g \in found : Ended(g)
       /\ gate.pc # "none" => gate.at \in found /\ job[gate.at].pc = "ok"
       /\ gate.pc = "put" => Applies /\ gate.at \in passed
       /\ cmd.retention =>
            \A g \in found : g <= gate.at /\ job[g].pc = "ok" =>
              g \in passed \/ (g = gate.at /\ gate.pc = "plan")
  /\ phase = "exit" /\ IsDrain =>
       /\ code = 0 => /\ \A g \in found : job[g].pc = "ok"
                      /\ cmd.retention => found \subseteq passed
       /\ code = 2 => passed = {} /\ \A g \in Groups : job[g] = NoJob

DrainCommandInv ==
  /\ DOMAIN job = Groups /\ erred \subseteq Groups
  /\ \A g \in Groups : JobInv(g)
  /\ PassInv

\* A step of discovery, or of another command: a drain has no job yet.
LEMMA NoDrainYet ==
  ASSUME DiscoveryInv, DrainCommandInv, UNCHANGED <<cmd, drainVars>>,
         ~IsDrain \/ phase \in {"start", "list"},
         phase' # "gate", IsDrain /\ phase' = "exit" => code' # 0
  PROVE  DrainCommandInv'
<1>1. UNCHANGED <<job, gate, passed, applied, erred>> /\ IsDrain' = IsDrain
  BY DEF drainVars, IsDrain
<1>2. passed = {} /\ applied = {} /\ gate = NoGate
  BY DEF DrainCommandInv, PassInv
<1>3. ASSUME NEW g \in Groups PROVE job[g] = NoJob
  BY DEF DrainCommandInv, JobInv
<1>4. ASSUME NEW g \in Groups PROVE JobInv(g)'
  <2>1. JobInv(g)
    BY DEF DrainCommandInv
  <2>2. job'[g].pc = "none" /\ job'[g] = NoJob
    BY <1>1, <1>3 DEF NoJob
  <2>3. Balanced(g)'
    BY <1>1, <2>1 DEF JobInv, Balanced
  <2>4. QED
    BY <1>1, <2>1, <2>2, <2>3 DEF JobInv
<1>5. PassInv'
  BY <1>1, <1>2, <1>3 DEF DrainCommandInv, PassInv
<1>6. QED
  BY <1>1, <1>4, <1>5 DEF DrainCommandInv

\* A step of one job of a drain.
LEMMA JobStep ==
  ASSUME DrainCommandInv, NEW g \in Groups, NEW j, phase = "work", IsDrain, g \in found,
         job' = [job EXCEPT ![g] = j], UNCHANGED <<cmd, found, phase, code, gate, passed, applied>>,
         \A h \in Groups : h # g => (h \in erred' <=> h \in erred),
         erred' \subseteq Groups, JobInv(g)'
  PROVE  DrainCommandInv'
<1>0. UNCHANGED IsDrain
  BY DEF IsDrain
<1>1. gate = NoGate /\ passed = {} /\ applied = {}
  BY DEF DrainCommandInv, PassInv
<1>2. ASSUME NEW h \in Groups, h # g PROVE JobInv(h)'
  <2>1. JobInv(h) /\ job'[h] = job[h]
    BY <1>2 DEF DrainCommandInv
  <2>2. QED
    BY <1>0, <1>2, <2>1 DEF JobInv, Balanced
<1>3. PassInv'
  BY <1>0, <1>1 DEF DrainCommandInv, PassInv
<1>4. QED
  BY <1>2, <1>3 DEF DrainCommandInv

\* A step of the retention pass: the jobs are over.
LEMMA PassStep ==
  ASSUME DrainCommandInv, UNCHANGED <<cmd, found, job, erred>>,
         phase = "gate", phase' \in {"gate", "exit"}, PassInv'
  PROVE  DrainCommandInv'
<1>1. ASSUME NEW g \in Groups PROVE JobInv(g)'
  <2>1. JobInv(g)
    BY DEF DrainCommandInv
  <2>2. QED
    BY <2>1 DEF JobInv, Balanced, IsDrain
<1>2. QED
  BY <1>1 DEF DrainCommandInv

LEMMA WindowCount == \A g \in Groups : WindowsOf[g] \in Nat
  BY DrainCommandAssumption DEF DrainCommandAssumption

\* The steps of the jobs.
LEMMA StartGroupInv ==
  ASSUME DrainCommandInv, NEW g \in Groups, StartGroup(g) PROVE DrainCommandInv'
<1> DEFINE j == [pc |-> IF cmd.name = "reconcile" THEN "describe" ELSE "run",
                 left |-> WindowsOf[g], report |-> [NoReport EXCEPT !.total = WindowsOf[g]]]
<1>1. /\ phase = "work" /\ IsDrain /\ g \in found /\ job[g].pc = "none"
      /\ job' = [job EXCEPT ![g] = j]
      /\ UNCHANGED <<cmd, found, phase, code, gate, passed, applied, erred>>
  BY DEF StartGroup, SetJob, discovery
<1>2. JobInv(g) /\ DOMAIN job = Groups /\ erred \subseteq Groups
  BY DEF DrainCommandInv
<1>3. /\ j.pc \in {"describe", "run"} /\ j.left = WindowsOf[g]
      /\ j.report = [total |-> WindowsOf[g], processed |-> 0, skipped |-> 0, empty |-> 0,
                     records |-> 0, objects |-> 0]
  BY DEF NoReport
<1>4. j \in Job
  BY WindowCount DEF Job, Report, NoReport
<1>5. job'[g] = j
  BY <1>1, <1>2
<1> HIDE DEF j
<1>6. Balanced(g)'
  BY <1>3, <1>5, WindowCount DEF Balanced
<1>7. JobInv(g)'
  BY <1>1, <1>2, <1>3, <1>4, <1>5, <1>6 DEF JobInv, IsDrain
<1>8. QED
  BY <1>1, <1>2, <1>7, JobStep

\* The outcome of a window is absorbed.
LEMMA EndWindowInv ==
  ASSUME DrainCommandInv, NEW g \in Groups, NEW n \in {0, 1}, NEW k \in BOOLEAN, NEW o,
         o = [skipped |-> k, records |-> n, objects |-> IF cmd.dry_run THEN 0 ELSE n],
         job[g].pc = "run", job[g].left > 0, EndWindow(g, o),
         UNCHANGED <<cmd, found, phase, code, gate, passed, applied, erred>>
  PROVE  DrainCommandInv'
<1> DEFINE r == job[g].report
           j == [job[g] EXCEPT !.left = @ - 1, !.report = Absorb(@, o)]
<1>1. JobInv(g) /\ DOMAIN job = Groups /\ erred \subseteq Groups
  BY DEF DrainCommandInv
<1>2. job[g] \in Job /\ job[g].left \in Nat /\ r \in Report /\ Balanced(g)
  BY <1>1 DEF JobInv, Job
<1>3. phase = "work" /\ g \in found /\ IsDrain
  BY <1>1 DEF JobInv
<1>4. Absorb(r, o) \in Report
  <2>1. o.skipped = k /\ o.records \in Nat /\ o.objects \in Nat
    OBVIOUS
  <2>2. CASE k
    BY <1>2, <2>1, <2>2 DEF Absorb, Report
  <2>3. CASE ~k
    <3> DEFINE e == IF o.records = 0 THEN 1 ELSE 0
    <3>1. e \in Nat
      OBVIOUS
    <3>2. Absorb(r, o) = [r EXCEPT !.processed = @ + 1, !.empty = @ + e,
                                   !.records = @ + o.records, !.objects = @ + o.objects]
      BY <2>1, <2>3 DEF Absorb
    <3>3. /\ r.total \in Nat /\ r.processed + 1 \in Nat /\ r.skipped \in Nat /\ r.empty + e \in Nat
          /\ r.records + o.records \in Nat /\ r.objects + o.objects \in Nat
      <4> HIDE DEF r, e
      <4> QED BY <1>2, <2>1, <3>1 DEF Report
    <3>4. Absorb(r, o) = [total |-> r.total, processed |-> r.processed + 1, skipped |-> r.skipped,
                          empty |-> r.empty + e, records |-> r.records + o.records,
                          objects |-> r.objects + o.objects]
      <4> HIDE DEF r, e
      <4> QED BY <1>2, <3>2 DEF Report
    <3> HIDE DEF r, e
    <3>5. QED
      BY <3>3, <3>4 DEF Report
  <2>4. QED
    BY <2>2, <2>3
<1>5. /\ Absorb(r, o).total = r.total
      /\ Absorb(r, o).processed + Absorb(r, o).skipped = r.processed + r.skipped + 1
      /\ Absorb(r, o).empty <= Absorb(r, o).processed
      /\ cmd.dry_run => Absorb(r, o).objects = 0
  BY <1>2 DEF Absorb, Report, Balanced
<1>6. j.pc = "run" /\ j.left = job[g].left - 1 /\ j.report = Absorb(r, o) /\ j \in Job
  <2> DEFINE q == job[g]
             a == Absorb(r, o)
  <2>1. q \in Job /\ q.left - 1 \in Nat /\ a \in Report /\ q.pc = "run"
    BY <1>2, <1>4
  <2>2. j = [q EXCEPT !.left = q.left - 1, !.report = a]
    BY <2>1 DEF Job
  <2> HIDE DEF q, a, j, r
  <2>3. j.pc = "run" /\ j.left = q.left - 1 /\ j.report = a /\ j \in Job
    BY <2>1, <2>2 DEF Job
  <2>4. QED
    BY <2>3 DEF q, a
<1>7. job' = [job EXCEPT ![g] = j] /\ job'[g] = j
  BY <1>1 DEF EndWindow, SetJob
<1>8. Balanced(g)'
  <2>1. r.total \in Nat /\ r.processed \in Nat /\ r.skipped \in Nat
    BY <1>2 DEF Report
  <2>2. /\ Absorb(r, o).processed \in Nat /\ Absorb(r, o).skipped \in Nat
        /\ Absorb(r, o).empty \in Nat
    BY <1>4 DEF Report
  <2>3. r.total = r.processed + r.skipped + job[g].left
    BY <1>2 DEF Balanced
  <2> HIDE DEF r, j
  <2>4. j.report.total = j.report.processed + j.report.skipped + j.left
    BY <1>2, <1>5, <1>6, <2>1, <2>2, <2>3
  <2>5. QED
    BY <1>5, <1>6, <1>7, <2>4 DEF Balanced
<1> HIDE DEF j, r
<1>9. JobInv(g)'
  BY <1>1, <1>3, <1>6, <1>7, <1>8 DEF JobInv, IsDrain
<1>10. QED
  BY <1>1, <1>3, <1>7, <1>9, JobStep

\* The job of a group moves on with its windows and its report as they are.
LEMMA MoveJobInv ==
  ASSUME DrainCommandInv, NEW g \in Groups, NEW c \in {"run", "ok", "failed"},
         g \in Running, c = "ok" => job[g].left = 0,
         job' = [job EXCEPT ![g].pc = c],
         erred' = IF c = "failed" THEN erred \cup {g} ELSE erred,
         UNCHANGED <<cmd, found, phase, code, gate, passed, applied>>
  PROVE  DrainCommandInv'
<1> DEFINE j == [job[g] EXCEPT !.pc = c]
<1>1. JobInv(g) /\ DOMAIN job = Groups /\ erred \subseteq Groups
  BY DEF DrainCommandInv
<1>2. job[g] \in Job /\ Balanced(g) /\ job[g].pc \in {"describe", "run"}
  BY <1>1 DEF JobInv, Running
<1>3. phase = "work" /\ g \in found /\ IsDrain /\ g \notin erred
  BY <1>1, <1>2 DEF JobInv
<1>4. j.pc = c /\ j.left = job[g].left /\ j.report = job[g].report /\ j \in Job
  BY <1>2 DEF Job
<1>5. job' = [job EXCEPT ![g] = j] /\ job'[g] = j
  BY <1>1
<1> HIDE DEF j
<1>6. Balanced(g)'
  BY <1>2, <1>4, <1>5 DEF Balanced
<1>7. JobInv(g)'
  BY <1>1, <1>3, <1>4, <1>5, <1>6 DEF JobInv, IsDrain
<1>8. QED
  BY <1>1, <1>3, <1>5, <1>7, JobStep

\* Every step of a job.
LEMMA JobStepInv ==
  ASSUME DrainCommandInv, NEW g \in Groups,
         \/ StartGroup(g) \/ DescribeGroup(g) \/ SkipWindow(g)
         \/ \E n \in {0, 1} : PageWindow(g, n)
         \/ JobThrottled(g) \/ JobSucceeds(g) \/ JobFails(g)
  PROVE  DrainCommandInv'
<1>1. CASE DescribeGroup(g)
  BY <1>1, MoveJobInv DEF DescribeGroup, Running
<1>2. CASE SkipWindow(g)
  <2> DEFINE o == [skipped |-> TRUE, records |-> 0, objects |-> 0]
  <2>1. o = [skipped |-> TRUE, records |-> 0, objects |-> IF cmd.dry_run THEN 0 ELSE 0]
    OBVIOUS
  <2>2. /\ job[g].pc = "run" /\ job[g].left > 0 /\ EndWindow(g, o)
        /\ UNCHANGED <<cmd, found, phase, code, gate, passed, applied, erred>>
    BY <1>2 DEF SkipWindow, discovery
  <2> HIDE DEF o
  <2>3. QED
    BY <2>1, <2>2, EndWindowInv
<1>3. CASE \E n \in {0, 1} : PageWindow(g, n)
  <2>1. PICK n \in {0, 1} : PageWindow(g, n)
    BY <1>3
  <2> DEFINE o == [skipped |-> FALSE, records |-> n, objects |-> IF cmd.dry_run THEN 0 ELSE n]
  <2>2. /\ job[g].pc = "run" /\ job[g].left > 0 /\ EndWindow(g, o)
        /\ UNCHANGED <<cmd, found, phase, code, gate, passed, applied, erred>>
    BY <2>1 DEF PageWindow
  <2>3. o = [skipped |-> FALSE, records |-> n, objects |-> IF cmd.dry_run THEN 0 ELSE n]
    OBVIOUS
  <2> HIDE DEF o
  <2>4. QED
    BY <2>2, <2>3, EndWindowInv
<1>4. CASE JobThrottled(g)
  <2>1. UNCHANGED <<cmd, found, phase, code, job, gate, passed, applied, erred>>
    BY <1>4 DEF JobThrottled, drainVars
  <2>2. QED
    BY <2>1 DEF DrainCommandInv, JobInv, Balanced, PassInv, IsDrain, Applies, Ended
<1>5. CASE JobSucceeds(g)
  BY <1>5, MoveJobInv DEF JobSucceeds, Running, discovery
<1>6. CASE JobFails(g)
  BY <1>6, MoveJobInv DEF JobFails
<1>7. QED
  BY <1>1, <1>2, <1>3, <1>4, <1>5, <1>6, StartGroupInv

\* The steps of the retention pass.
LEMMA EnterGateInv ==
  ASSUME DiscoveryInv, DrainCommandInv, EnterGate PROVE DrainCommandInv'
<1> DEFINE m == Min(NextGate)
<1>0. PassInv /\ found \subseteq Nat /\ gate.at \in Nat
  BY DiscoveryAssumption DEF DrainCommandInv, PassInv, DiscoveryInv, DiscoveryAssumption
<1>1. m \in NextGate /\ \A y \in NextGate : m <= y
  <2>1. NextGate \in SUBSET Nat /\ NextGate # {}
    BY <1>0 DEF NextGate, EnterGate
  <2>2. QED
    BY <2>1, MinIn
<1>2. /\ phase = "gate" /\ cmd.retention /\ gate.pc = "none"
      /\ gate' = [at |-> m, pc |-> IF job[m].pc = "ok" THEN "plan" ELSE "none"]
      /\ UNCHANGED <<cmd, found, phase, code, job, passed, applied, erred>>
  BY DEF EnterGate, IsGated, discovery
<1>3. m \in Nat /\ m \in found /\ m > gate.at
  BY <1>0, <1>1 DEF NextGate
<1> HIDE DEF m
<1>4. gate' \in [at: Nat, pc: {"none", "plan", "put"}] /\ gate'.at = m /\ gate'.pc # "put"
      /\ (gate'.pc = "plan" <=> job[m].pc = "ok")
  BY <1>2, <1>3
<1>5. ASSUME NEW g \in found, g <= m, job[g].pc = "ok" PROVE g \in passed \/ (g = m /\ gate'.pc = "plan")
  <2>1. g \in Nat
    BY <1>0
  <2>2. CASE g <= gate.at
    BY <1>0, <1>2, <1>5, <2>2 DEF PassInv
  <2>3. CASE g > gate.at
    BY <1>1, <1>3, <1>4, <1>5, <2>1, <2>3 DEF NextGate
  <2>4. QED
    BY <1>0, <2>1, <2>2, <2>3
<1>6. PassInv'
  BY <1>0, <1>2, <1>3, <1>4, <1>5 DEF PassInv, IsDrain, Ended
<1>7. QED
  BY <1>2, <1>6, PassStep

LEMMA PassStepInv ==
  ASSUME DiscoveryInv, DrainCommandInv,
         PlanRetention \/ PutRetention \/ PutThrottled \/ GateFails \/ EndDrain
  PROVE  DrainCommandInv'
<1>0. PassInv /\ found \subseteq Nat /\ gate \in [at: Nat, pc: {"none", "plan", "put"}]
  BY DiscoveryAssumption DEF DrainCommandInv, PassInv, DiscoveryInv, DiscoveryAssumption
<1>1. CASE PlanRetention
  <2>1. /\ phase = "gate" /\ gate.pc = "plan" /\ passed' = passed \cup {gate.at}
        /\ UNCHANGED <<cmd, found, phase, code, job, applied, erred>>
        /\ gate' = [gate EXCEPT !.pc = "none"] \/ gate' = [gate EXCEPT !.pc = IF Applies THEN "put" ELSE "none"]
    BY <1>1 DEF PlanRetention, discovery
  <2>2. gate.at \in found /\ job[gate.at].pc = "ok"
    BY <1>0, <2>1 DEF PassInv
  <2>3. /\ gate' \in [at: Nat, pc: {"none", "put"}] /\ gate'.at = gate.at
        /\ gate'.pc = "put" => Applies
    BY <1>0, <2>1
  <2>4. PassInv'
    BY <1>0, <2>1, <2>2, <2>3 DEF PassInv, IsDrain, Ended, Applies
  <2>5. QED
    BY <2>1, <2>4, PassStep
<1>2. CASE PutRetention
  <2>1. /\ phase = "gate" /\ gate.pc = "put" /\ applied' = applied \cup {gate.at}
        /\ UNCHANGED <<cmd, found, phase, code, job, passed, erred>>
        /\ gate' = [gate EXCEPT !.pc = "none"]
    BY <1>2 DEF PutRetention
  <2>2. gate.at \in passed /\ ~cmd.dry_run
    BY <1>0, <2>1 DEF PassInv, Applies
  <2>3. gate' \in [at: Nat, pc: {"none"}] /\ gate'.at = gate.at
    BY <1>0, <2>1
  <2>4. PassInv'
    BY <1>0, <2>1, <2>2, <2>3 DEF PassInv, IsDrain, Ended, Applies
  <2>5. QED
    BY <2>1, <2>4, PassStep
<1>3. CASE PutThrottled
  <2>1. phase = "gate" /\ UNCHANGED <<cmd, found, phase, code, job, gate, passed, applied, erred>>
    BY <1>3 DEF PutThrottled, drainVars
  <2>2. PassInv'
    BY <1>0, <2>1 DEF PassInv, IsDrain, Ended, Applies
  <2>3. QED
    BY <2>1, <2>2, PassStep
<1>4. CASE GateFails
  <2>1. /\ phase = "gate" /\ phase' = "exit" /\ code' = 1
        /\ UNCHANGED <<cmd, found, job, gate, passed, applied, erred>>
    BY <1>4 DEF GateFails, Exit, drainVars
  <2>2. PassInv'
    BY <1>0, <2>1 DEF PassInv, IsDrain
  <2>3. QED
    BY <2>1, <2>2, PassStep
<1>5. CASE EndDrain
  <2>1. /\ phase = "gate" /\ phase' = "exit" /\ code' = ExitCode /\ gate.pc = "none"
        /\ cmd.retention => NextGate = {}
        /\ UNCHANGED <<cmd, found, job, gate, passed, applied, erred>>
    BY <1>5 DEF EndDrain, Exit, drainVars
  <2>2. code' \in {0, 1} /\ (code' = 0 => Failed = {})
    BY <2>1 DEF ExitCode
  <2>3. ASSUME code' = 0, NEW g \in found PROVE job[g].pc = "ok" /\ (cmd.retention => g \in passed)
    <3>1. job[g].pc = "ok"
      BY <1>0, <2>1, <2>2, <2>3 DEF PassInv, Failed, Ended
    <3>2. ASSUME cmd.retention PROVE g <= gate.at
      BY <1>0, <2>1, <3>2 DEF NextGate
    <3>3. QED
      BY <1>0, <2>1, <3>1, <3>2 DEF PassInv
  <2>4. PassInv'
    BY <1>0, <2>1, <2>2, <2>3 DEF PassInv, IsDrain
  <2>5. QED
    BY <2>1, <2>4, PassStep
<1>6. QED
  BY <1>1, <1>2, <1>3, <1>4, <1>5

\* The fan-out is over.
LEMMA JobsEndInv ==
  ASSUME DiscoveryInv, DrainCommandInv, JobsEnd PROVE DrainCommandInv'
<1>1. /\ phase = "work" /\ phase' = "gate" /\ IsDrain /\ \A g \in found : Ended(g)
      /\ UNCHANGED <<cmd, code, found, job, gate, passed, applied, erred>>
  BY DEF JobsEnd, drainVars
<1>2. gate = NoGate /\ passed = {} /\ applied = {} /\ found \subseteq Groups
  BY <1>1 DEF DrainCommandInv, PassInv, DiscoveryInv
<1>3. ASSUME NEW g \in found PROVE ~(g <= gate.at)
  BY <1>2, DiscoveryAssumption DEF DiscoveryAssumption, NoGate, Main
<1>4. PassInv'
  BY <1>1, <1>2, <1>3 DEF PassInv, IsDrain, Ended, NoGate, DrainCommandInv
<1>5. ASSUME NEW g \in Groups PROVE JobInv(g)'
  <2>1. JobInv(g) /\ (g \in found => Ended(g))
    BY <1>1 DEF DrainCommandInv
  <2>2. job[g].pc \notin {"describe", "run"}
    BY <2>1 DEF JobInv, Ended
  <2>3. QED
    BY <1>1, <2>1, <2>2 DEF JobInv, Balanced, IsDrain
<1>6. QED
  BY <1>1, <1>4, <1>5 DEF DrainCommandInv

LEMMA DrainCommandInvAlways == Spec => [](DiscoveryInv /\ DrainCommandInv)
<1>1. Init => DrainCommandInv
  <2> SUFFICES ASSUME Init PROVE DrainCommandInv
    OBVIOUS
  <2>1. /\ job = [g \in Groups |-> NoJob] /\ gate = NoGate /\ passed = {} /\ applied = {}
        /\ erred = {} /\ phase = "start"
    BY DEF Init, InitDrainCommand, InitDiscovery
  <2>2. NoJob \in Job
    BY DEF NoJob, NoReport, Job, Report
  <2>3. PassInv
    BY <2>1 DEF PassInv, NoGate, Main
  <2>4. ASSUME NEW g \in Groups PROVE JobInv(g)
    <3>1. job[g] = NoJob
      BY <2>1
    <3>2. Balanced(g)
      BY <3>1 DEF Balanced, NoJob, NoReport
    <3>3. QED
      BY <2>1, <2>2, <3>1, <3>2 DEF JobInv, NoJob
  <2>5. QED
    BY <2>1, <2>3, <2>4 DEF DrainCommandInv
<1>2. DiscoveryInv /\ DrainCommandInv /\ [Next]_vars => DrainCommandInv'
  <2> SUFFICES ASSUME DiscoveryInv, DrainCommandInv, [Next]_vars PROVE DrainCommandInv'
    OBVIOUS
  <2>1. CASE UNCHANGED vars
    <3>1. UNCHANGED <<cmd, found, phase, code, job, gate, passed, applied, erred>>
      BY <2>1 DEF vars, discovery, drainVars
    <3>2. QED
      BY <3>1 DEF DrainCommandInv, JobInv, Balanced, PassInv, IsDrain, Applies, Ended
  <2>2. CASE DiscoveryStep /\ UNCHANGED drainVars
    <3>1. /\ UNCHANGED cmd /\ phase \in {"start", "list"} /\ phase' # "gate"
          /\ IsDrain /\ phase' = "exit" => code' # 0
      BY <2>2 DEF DiscoveryStep, UsageError, StartListing, ExactSource, ListPage, DescribePage,
           ListThrottled, ListFails, Discovered, Exit, IsDrain
    <3>2. QED
      BY <2>2, <3>1, NoDrainYet
  <2>3. CASE DrainStep
    BY <2>3, JobStepInv, EnterGateInv, PassStepInv, JobsEndInv DEF DrainStep
  <2>4. CASE PlanStep /\ UNCHANGED drainVars
    <3>1. UNCHANGED cmd /\ ~IsDrain /\ phase' # "gate"
      BY <2>4 DEF PlanStep, AskMetrics, MetricPage, MetricFails, EndPlan, Exit, discovery, IsDrain
    <3>2. QED
      BY <2>4, <3>1, NoDrainYet
  <2>5. CASE ReportStep /\ UNCHANGED drainVars
    <3>1. UNCHANGED cmd /\ ~IsDrain /\ phase' # "gate"
      BY <2>5 DEF ReportStep, StartReport, ListKeys, ReadManifest, ReportFails, EndReport, Exit,
           discovery, IsDrain, DiscoveryInv
    <3>2. QED
      BY <2>5, <3>1, NoDrainYet
  <2>6. CASE \E g \in Groups : Churn(g) /\ UNCHANGED drainVars
    <3>1. UNCHANGED <<cmd, drainVars>> /\ phase = "list" /\ phase' = "list"
      BY <2>6 DEF Churn
    <3>2. QED
      BY <3>1, NoDrainYet
  <2>7. CASE \E k \in Keys, v \in {Absent, 1, 2, Damaged} : WriteManifest(k, v) /\ UNCHANGED drainVars
    <3>1. UNCHANGED <<cmd, drainVars>> /\ ~IsDrain /\ phase' # "gate"
      BY <2>7 DEF WriteManifest, discovery, IsDrain
    <3>2. QED
      BY <3>1, NoDrainYet
  <2>8. QED
    BY <2>1, <2>2, <2>3, <2>4, <2>5, <2>6, <2>7 DEF Next, Step, Meanwhile
<1>3. QED
  BY <1>1, <1>2, DiscoveryInvAlways, PTL DEF Spec

\* A drain that exits with 0 has drained every group it discovered and evaluated the
\* gate of each, and one that exits with 2 has done nothing, for any number of
\* groups, jobs at a time, failures and throttled calls (commands/drain.rs:187-201).
THEOREM ExitTruthfulAlways == Spec => []ExitTruthful
<1>1. DiscoveryInv /\ DrainCommandInv => ExitTruthful
  <2> SUFFICES ASSUME DrainCommandInv PROVE ExitTruthful
    OBVIOUS
  <2>1. PassInv
    BY DEF DrainCommandInv
  <2>2. QED
    BY <2>1 DEF PassInv, ExitTruthful
<1>2. QED
  BY <1>1, DrainCommandInvAlways, PTL

\* Retention is changed only for a group that this command drained to its last window
\* without an error and whose gate it evaluated, never in a dry run
\* (commands/drain.rs:152-165).
THEOREM RetentionAfterDrainAlways == Spec => []RetentionAfterDrain
<1>1. DiscoveryInv /\ DrainCommandInv => RetentionAfterDrain
  <2> SUFFICES ASSUME DiscoveryInv, DrainCommandInv, NEW g \in applied
               PROVE  job[g].pc = "ok" /\ job[g].left = 0 /\ ~cmd.dry_run /\ g \in passed
    BY DEF RetentionAfterDrain
  <2>1. g \in passed /\ g \in Groups /\ job[g].pc = "ok" /\ ~cmd.dry_run
    BY DEF DrainCommandInv, PassInv, DiscoveryInv
  <2>2. JobInv(g)
    BY <2>1 DEF DrainCommandInv
  <2>3. QED
    BY <2>1, <2>2 DEF JobInv
<1>2. QED
  BY <1>1, DrainCommandInvAlways, PTL

-----------------------------------------------------------------------------
(* Part 3: the report of a drain *)

\* What field f of the reports of the groups in S adds up to.
Column(f) == [g \in Groups |-> job[g].report[f]]

\* The aggregate is a sum over the groups that are added up.
LEMMA AggregateIsSum ==
  ASSUME DiscoveryInv, NEW f \in DOMAIN NoReport
  PROVE  /\ IsFiniteSet(Succeeded) /\ Succeeded \subseteq Groups
         /\ Aggregate[f] = SumOver(Column(f), Succeeded)
<1>1. Succeeded \subseteq Groups /\ IsFiniteSet(Groups)
  BY DiscoveryAssumption DEF DiscoveryAssumption, DiscoveryInv, Succeeded
<1>2. IsFiniteSet(Succeeded)
  BY <1>1, FS_Subset
<1>3. {g \in found : AddedUp(g)} = Succeeded
  BY DEF AddedUp, Succeeded
<1> DEFINE T == Succeeded
           Is(h) == h = [s \in SUBSET T |->
                           IF s = {} THEN 0
                           ELSE job[CHOOSE x \in s : TRUE].report[f] + h[s \ {CHOOSE x \in s : TRUE}]]
           it == CHOOSE h : Is(h)
<1>4. Aggregate[f] = MapThenSumSet(LAMBDA g : job[g].report[f], {g \in found : AddedUp(g)})
  BY DEF Aggregate
<1>5. Aggregate[f] = it[T]
  BY <1>3, <1>4 DEF MapThenSumSet, MapThenFoldSet
<1>6. ASSUME NEW h PROVE Is(h) <=> IsSum(Column(f), SUBSET T, h)
  <2>1. \A s \in SUBSET T : s # {} => Pick(s) \in Groups
    BY <1>1 DEF Pick
  <2>2. \A s \in SUBSET T : s # {} => Column(f)[Pick(s)] = job[Pick(s)].report[f]
    BY <2>1 DEF Column
  <2>3. QED
    BY <2>2 DEF IsSum, Pick
<1>7. \E h : Is(h)
  <2> HIDE DEF T, Is
  <2> QED BY <1>2, <1>6, SumExists DEF T
<1>8. Is(it)
  <2> HIDE DEF Is
  <2> QED BY <1>7
<1> HIDE DEF Is, it
<1>9. QED
  BY <1>1, <1>2, <1>5, <1>6, <1>8, SumUnique

\* When the jobs are over, every group that was discovered and whose own calls did not
\* fail is drained to its last window, and the numbers that the command prints add up,
\* for any number of groups (job.rs:552-554, 574-600).
THEOREM FailuresIsolatedAlways == Spec => []FailuresIsolated
<1>1. DiscoveryInv /\ DrainCommandInv => FailuresIsolated
  <2> SUFFICES ASSUME DiscoveryInv, DrainCommandInv, phase = "gate"
               PROVE  /\ \A g \in found :
                           IF g \in erred THEN job[g].pc = "failed" ELSE job[g].pc = "ok" /\ job[g].left = 0
                      /\ Aggregate.total = Aggregate.processed + Aggregate.skipped
                      /\ Aggregate.empty <= Aggregate.processed
                      /\ cmd.dry_run => Aggregate.objects = 0
    BY DEF FailuresIsolated
  <2>1. ASSUME NEW g \in found
        PROVE  IF g \in erred THEN job[g].pc = "failed" ELSE job[g].pc = "ok" /\ job[g].left = 0
    <3>1. g \in Groups /\ Ended(g)
      BY DEF DiscoveryInv, DrainCommandInv, PassInv
    <3>2. JobInv(g)
      BY <3>1 DEF DrainCommandInv
    <3>3. QED
      BY <3>1, <3>2 DEF JobInv, Ended
  <2> DEFINE S == Succeeded
  <2>2. /\ Aggregate.total = SumOver(Column("total"), S)
        /\ Aggregate.processed = SumOver(Column("processed"), S)
        /\ Aggregate.skipped = SumOver(Column("skipped"), S)
        /\ Aggregate.empty = SumOver(Column("empty"), S)
        /\ Aggregate.objects = SumOver(Column("objects"), S)
        /\ IsFiniteSet(S)
    <3>1. /\ "total" \in DOMAIN NoReport /\ "processed" \in DOMAIN NoReport
          /\ "skipped" \in DOMAIN NoReport /\ "empty" \in DOMAIN NoReport
          /\ "objects" \in DOMAIN NoReport
      BY DEF NoReport
    <3>2. QED
      BY <3>1, AggregateIsSum
  <2>3. ASSUME NEW g \in S
        PROVE  /\ Column("total")[g] \in Nat /\ Column("processed")[g] \in Nat
               /\ Column("skipped")[g] \in Nat /\ Column("empty")[g] \in Nat
               /\ Column("objects")[g] \in Nat
               /\ Column("total")[g] = Column("processed")[g] + Column("skipped")[g]
               /\ Column("empty")[g] <= Column("processed")[g]
               /\ cmd.dry_run => Column("objects")[g] = 0
    <3>1. g \in Groups /\ job[g].pc = "ok"
      BY DEF Succeeded, DiscoveryInv
    <3>2. JobInv(g) /\ job[g].left = 0
      BY <3>1 DEF DrainCommandInv, JobInv
    <3>3. job[g].report \in Report /\ Balanced(g)
      BY <3>2 DEF JobInv, Job
    <3>4. QED
      BY <3>1, <3>2, <3>3 DEF Column, Report, Balanced
  <2> HIDE DEF S
  <2>4. Aggregate.total = Aggregate.processed + Aggregate.skipped
    BY <2>2, <2>3, SumAdd
  <2>5. Aggregate.empty <= Aggregate.processed
    BY <2>2, <2>3, SumMono
  <2>6. ASSUME cmd.dry_run PROVE Aggregate.objects = 0
    <3> DEFINE F == Column("objects")
    <3>1. \A g \in S : F[g] \in Nat /\ F[g] = F[g] + F[g]
      BY <2>3, <2>6
    <3> HIDE DEF F
    <3>2. SumOver(F, S) = SumOver(F, S) + SumOver(F, S) /\ SumOver(F, S) \in Nat
      BY <2>2, <3>1, SumAdd, SumType
    <3>3. ASSUME NEW n \in Nat, n = n + n PROVE n = 0
      BY <3>3
    <3>4. SumOver(F, S) = 0
      BY <3>2, <3>3
    <3>5. QED
      BY <2>2, <3>4 DEF F
  <2>7. QED
    BY <2>1, <2>4, <2>5, <2>6
<1>2. QED
  BY <1>1, DrainCommandInvAlways, PTL

-----------------------------------------------------------------------------
(* Part 4: the backoff *)

\* The documented scale of each retry, and the least delay.
Scales == [i \in Nat \ {0} |-> Max({1, Min({cap_ms, base_ms * 2 ^ (i - 1)})})]

Halves == [i \in Nat \ {0} |-> Scales[i] \div 2]

\* The doubling stops after 20 retries (cw.rs:155): a configuration with more of them
\* and a cap above a million times the base waits less than documented.  The shipped
\* one tries 8 times (cw.rs:142).
ShortBackoff == max_attempts <= 22

CallInv(x) ==
  /\ call[x] \in [n: Nat, waited: Nat]
  /\ call[x].n < max_attempts
  /\ SumOver(Halves, 1 .. call[x].n) <= call[x].waited
  /\ call[x].waited <= SumOver(Scales, 1 .. call[x].n)

Callers == {Main} \cup Groups

CallsInv == DOMAIN call = Callers /\ \A x \in Callers : CallInv(x)

LEMMA ScaleType ==
  \A i \in Nat \ {0} :
    /\ Scales[i] \in Nat /\ Halves[i] = Scales[i] \div 2
    /\ Halves[i] \in Nat /\ Halves[i] + Halves[i] <= Scales[i]
<1> SUFFICES ASSUME NEW i \in Nat \ {0}
             PROVE  /\ Scales[i] \in Nat /\ Halves[i] = Scales[i] \div 2
                    /\ Halves[i] \in Nat /\ Halves[i] + Halves[i] <= Scales[i]
  OBVIOUS
<1> DEFINE m == Min({cap_ms, base_ms * 2 ^ (i - 1)})
<1>1. cap_ms \in Int /\ base_ms * 2 ^ (i - 1) \in Int
  BY DiscoveryAssumption DEF DiscoveryAssumption
<1>2. m \in Int
  BY <1>1, OfTwo
<1>3. Scales[i] = Max({1, m})
  BY DEF Scales
<1> HIDE DEF m
<1>4. Max({1, m}) \in Nat
  BY <1>2, OfTwo
<1>5. Halves[i] = Scales[i] \div 2 /\ Scales[i] \in Nat
  BY <1>3, <1>4 DEF Halves
<1>6. QED
  BY <1>5

\* What the code computes for the retries that there are.
LEMMA ScaleDocumented ==
  ASSUME ShortBackoff, NEW n \in Nat, n + 1 < max_attempts
  PROVE  DelayScale(n + 1) = Scales[n + 1]
<1> DEFINE p == base_ms * 2 ^ n
<1>0. max_attempts \in Nat /\ max_attempts <= 22
  BY DiscoveryAssumption DEF DiscoveryAssumption, ShortBackoff
<1>1. Min({(n + 1) - 1, 20}) = n /\ (n + 1) - 1 = n
  BY <1>0, OfTwo
<1>2. p \in Int /\ cap_ms \in Int /\ U64Max \in Int /\ cap_ms <= U64Max
  BY DiscoveryAssumption DEF DiscoveryAssumption
<1>3. DelayScale(n + 1) = Max({1, Min({cap_ms, Min({U64Max, p})})})
  BY <1>1 DEF DelayScale
<1>4. Scales[n + 1] = Max({1, Min({cap_ms, p})})
  <2>1. Scales[n + 1] = Max({1, Min({cap_ms, base_ms * 2 ^ ((n + 1) - 1)})})
    BY DEF Scales
  <2>2. QED
    BY <1>1, <2>1
<1> HIDE DEF p
<1>5. Min({cap_ms, Min({U64Max, p})}) = Min({cap_ms, p})
  BY <1>2, OfTwo
<1>6. QED
  BY <1>3, <1>4, <1>5

\* The sums grow by one term per retry.
LEMMA SumNext ==
  ASSUME NEW n \in Nat
  PROVE  /\ SumOver(Scales, 1 .. (n + 1)) = Scales[n + 1] + SumOver(Scales, 1 .. n)
         /\ SumOver(Halves, 1 .. (n + 1)) = Halves[n + 1] + SumOver(Halves, 1 .. n)
         /\ SumOver(Scales, 1 .. n) \in Nat /\ SumOver(Halves, 1 .. n) \in Nat
<1> DEFINE S == 1 .. (n + 1)
<1>1. IsFiniteSet(S) /\ IsFiniteSet(1 .. n)
  BY FS_Interval
<1>2. S \ {n + 1} = 1 .. n /\ n + 1 \in S /\ \A i \in S : i \in Nat \ {0}
  OBVIOUS
<1>3. \A i \in S : Scales[i] \in Nat /\ Halves[i] \in Nat
  BY <1>2, ScaleType
<1>4. \A i \in 1 .. n : Scales[i] \in Nat /\ Halves[i] \in Nat
  BY <1>2, <1>3
<1>5. SumOver(Scales, 1 .. n) \in Nat /\ SumOver(Halves, 1 .. n) \in Nat
  BY <1>1, <1>4, SumType
<1> HIDE DEF S
<1>6. SumOver(Scales, S) = Scales[n + 1] + SumOver(Scales, S \ {n + 1})
  BY <1>1, <1>2, <1>3, SumRemove
<1>7. SumOver(Halves, S) = Halves[n + 1] + SumOver(Halves, S \ {n + 1})
  BY <1>1, <1>2, <1>3, SumRemove
<1>8. QED
  BY <1>2, <1>5, <1>6, <1>7 DEF S

LEMMA NoRetry == SumOver(Scales, 1 .. 0) = 0 /\ SumOver(Halves, 1 .. 0) = 0
<1>1. IsFiniteSet(1 .. 0) /\ 1 .. 0 = {}
  BY FS_Interval
<1>2. PICK f : IsSum(Scales, SUBSET (1 .. 0), f) /\ f[1 .. 0] = SumOver(Scales, 1 .. 0)
  BY <1>1, SumFold
<1>3. PICK h : IsSum(Halves, SUBSET (1 .. 0), h) /\ h[1 .. 0] = SumOver(Halves, 1 .. 0)
  BY <1>1, SumFold
<1>4. QED
  BY <1>1, <1>2, <1>3 DEF IsSum

\* A call is throttled, or comes back.
LEMMA ThrottledInv ==
  ASSUME ShortBackoff, CallsInv, NEW x \in Callers, Throttled(x) PROVE CallsInv'
<1> DEFINE n == call[x].n
           w == call[x].waited
<1>1. CallInv(x) /\ n \in Nat /\ w \in Nat /\ n + 1 < max_attempts /\ DOMAIN call = Callers
  BY DEF CallsInv, CallInv, Throttled, MayRetry
<1>2. PICK d \in Delays(n + 1) : call' = [call EXCEPT ![x] = [n |-> n + 1, waited |-> w + d]]
  BY DEF Throttled
<1> DEFINE half == DelayScale(n + 1) \div 2
<1>3. /\ DelayScale(n + 1) = Scales[n + 1] /\ Scales[n + 1] \in Nat
      /\ half = Halves[n + 1] /\ half \in Nat /\ half + half <= Scales[n + 1]
  <2>1. DelayScale(n + 1) = Scales[n + 1]
    <3> HIDE DEF n
    <3> QED BY <1>1, ScaleDocumented
  <2>2. n + 1 \in Nat \ {0}
    BY <1>1
  <2> HIDE DEF n
  <2>3. QED
    BY <2>1, <2>2, ScaleType
<1>4. PICK h \in 0 .. half : d = half + (h % (half + 1))
  BY <1>2 DEF Delays
<1> HIDE DEF n, w, half
<1>5. d \in Nat /\ half <= d /\ d <= Scales[n + 1]
  <2>1. h % (half + 1) \in 0 .. half
    BY <1>3, <1>4
  <2>2. QED
    BY <1>3, <1>4, <2>1
<1>6. call'[x] = [n |-> n + 1, waited |-> w + d] /\ DOMAIN call' = Callers
  BY <1>1, <1>2
<1>7. CallInv(x)'
  <2>1. SumOver(Halves, 1 .. n) <= w /\ w <= SumOver(Scales, 1 .. n)
    BY <1>1 DEF CallInv, n, w
  <2> DEFINE lo == SumOver(Halves, 1 .. n)
             hi == SumOver(Scales, 1 .. n)
  <2>0. /\ SumOver(Halves, 1 .. (n + 1)) = half + lo /\ lo \in Nat
        /\ SumOver(Scales, 1 .. (n + 1)) = Scales[n + 1] + hi /\ hi \in Nat
    BY <1>1, <1>3, SumNext
  <2>2. SumOver(Halves, 1 .. (n + 1)) <= w + d
    <3> HIDE DEF lo, hi
    <3>1. half + lo <= w + d
      <4>1. w \in Nat /\ d \in Nat /\ lo \in Nat /\ half \in Nat
        BY <1>1, <1>3, <1>5, <2>0
      <4>2. lo <= w /\ half <= d
        BY <1>5, <2>1 DEF lo
      <4>3. QED BY <4>1, <4>2
    <3>2. QED
      BY <2>0, <3>1
  <2>3. w + d <= SumOver(Scales, 1 .. (n + 1))
    <3> HIDE DEF lo, hi
    <3>1. w + d <= Scales[n + 1] + hi
      <4>1. w \in Nat /\ d \in Nat /\ hi \in Nat /\ Scales[n + 1] \in Nat
        BY <1>1, <1>3, <1>5, <2>0
      <4>2. w <= hi /\ d <= Scales[n + 1]
        BY <1>5, <2>1 DEF hi
      <4>3. QED BY <4>1, <4>2
    <3>2. QED
      BY <2>0, <3>1
  <2>4. QED
    BY <1>1, <1>5, <1>6, <2>2, <2>3 DEF CallInv
<1>8. ASSUME NEW y \in Callers, y # x PROVE CallInv(y)'
  <2>1. call'[y] = call[y] /\ CallInv(y)
    BY <1>1, <1>2, <1>8 DEF CallsInv
  <2>2. QED
    BY <2>1 DEF CallInv
<1>9. QED
  BY <1>6, <1>7, <1>8 DEF CallsInv

LEMMA ReturnedInv ==
  ASSUME CallsInv, NEW x \in Callers, Returned(x) PROVE CallsInv'
<1>1. DOMAIN call = Callers /\ DOMAIN call' = Callers /\ call'[x] = NoCall
  BY DEF CallsInv, Returned
<1>2. ASSUME NEW y \in Callers, y # x PROVE CallInv(y)'
  <2>1. call'[y] = call[y] /\ CallInv(y)
    BY <1>1, <1>2 DEF CallsInv, Returned
  <2>2. QED
    BY <2>1 DEF CallInv
<1>3. CallInv(x)'
  BY <1>1, NoRetry, DiscoveryAssumption DEF CallInv, NoCall, DiscoveryAssumption
<1>4. QED
  BY <1>1, <1>2, <1>3 DEF CallsInv

LEMMA CallsInvAlways ==
  ASSUME ShortBackoff PROVE Spec => []CallsInv
<1>1. Init => CallsInv
  <2> SUFFICES ASSUME Init PROVE CallsInv
    OBVIOUS
  <2>1. call = [x \in Callers |-> NoCall]
    BY DEF Init, InitDiscovery, Callers
  <2>2. ASSUME NEW x \in Callers PROVE CallInv(x)
    <3>1. call[x] = NoCall
      BY <2>1
    <3>2. QED
      BY <3>1, NoRetry, DiscoveryAssumption DEF CallInv, NoCall, DiscoveryAssumption
  <2>3. QED
    BY <2>1, <2>2 DEF CallsInv
<1>2. CallsInv /\ [Next]_vars => CallsInv'
  <2> SUFFICES ASSUME CallsInv, [Next]_vars PROVE CallsInv'
    OBVIOUS
  <2>0. Main \in Callers /\ \A g \in Groups : g \in Callers
    BY DEF Callers
  <2>1. CASE UNCHANGED call
    BY <2>1 DEF CallsInv, CallInv
  <2>2. CASE \E x \in Callers : Throttled(x)
    BY <2>2, ThrottledInv
  <2>3. CASE \E x \in Callers : Returned(x)
    BY <2>3, ReturnedInv
  <2>4. DiscoveryStep => \/ UNCHANGED call
                         \/ \E x \in Callers : Throttled(x) \/ Returned(x)
    BY <2>0 DEF DiscoveryStep, UsageError, StartListing, ExactSource, ListPage, DescribePage,
         ListThrottled, ListFails
  <2>5. DrainStep => \/ UNCHANGED call
                     \/ \E x \in Callers : Throttled(x) \/ Returned(x)
    BY <2>0 DEF DrainStep, StartGroup, DescribeGroup, SkipWindow, PageWindow, JobThrottled,
         JobSucceeds, JobFails, JobsEnd, EnterGate, PlanRetention, PutRetention, PutThrottled,
         GateFails, EndDrain, discovery
  <2>6. PlanStep \/ ReportStep \/ Meanwhile => UNCHANGED call
    BY DEF PlanStep, AskMetrics, MetricPage, MetricFails, EndPlan, ReportStep, StartReport,
         ListKeys, ReadManifest, ReportFails, EndReport, Meanwhile, Churn, WriteManifest, discovery
  <2>7. UNCHANGED vars => UNCHANGED call
    BY DEF vars, discovery
  <2>8. QED
    BY <2>1, <2>2, <2>3, <2>4, <2>5, <2>6, <2>7 DEF Next, Step
<1>3. QED
  BY <1>1, <1>2, PTL DEF Spec

\* A fold that adds up the halves of the scales.
IsHalfSum(scale, T, h) ==
  h = [s \in SUBSET T |->
         IF s = {} THEN 0
         ELSE (scale[CHOOSE x \in s : TRUE] \div 2) + h[s \ {CHOOSE x \in s : TRUE}]]

\* The sums that the documentation of the backoff speaks of.
LEMMA DocumentedSums ==
  ASSUME NEW n \in Nat, NEW scale,
         scale = [i \in 1 .. n |-> Max({1, Min({cap_ms, base_ms * 2 ^ (i - 1)})})]
  PROVE  /\ (CHOOSE h : IsHalfSum(scale, 1 .. n, h))[1 .. n] = SumOver(Halves, 1 .. n)
         /\ SumOver(scale, 1 .. n) = SumOver(Scales, 1 .. n)
<1> DEFINE T == 1 .. n
           it == CHOOSE h : IsHalfSum(scale, T, h)
<1>1. IsFiniteSet(T)
  BY FS_Interval
<1>2. ASSUME NEW i \in T PROVE scale[i] = Scales[i] /\ scale[i] \div 2 = Halves[i]
  <2>1. scale[i] = Scales[i]
    BY DEF Scales
  <2>2. QED
    BY <2>1, ScaleType
<1>3. SumOver(scale, T) = SumOver(Scales, T)
  <2> HIDE DEF T
  <2> QED BY <1>1, <1>2, SumEqual
<1> HIDE DEF T
<1>4. ASSUME NEW h PROVE IsHalfSum(scale, T, h) <=> IsSum(Halves, SUBSET T, h)
  <2>1. ASSUME NEW s \in SUBSET T, s # {} PROVE Halves[Pick(s)] = scale[Pick(s)] \div 2
    BY <1>2, <2>1 DEF Pick
  <2> DEFINE L == [s \in SUBSET T |-> IF s = {} THEN 0 ELSE (scale[Pick(s)] \div 2) + h[s \ {Pick(s)}]]
             R == [s \in SUBSET T |-> IF s = {} THEN 0 ELSE Halves[Pick(s)] + h[s \ {Pick(s)}]]
  <2>2. L = R
    <3>1. ASSUME NEW s \in SUBSET T PROVE L[s] = R[s]
      <4>1. CASE s = {}
        BY <4>1
      <4>2. CASE s # {}
        <5>1. L[s] = (scale[Pick(s)] \div 2) + h[s \ {Pick(s)}]
          BY <4>2, Zenon
        <5>2. R[s] = Halves[Pick(s)] + h[s \ {Pick(s)}]
          BY <4>2, Zenon
        <5> HIDE DEF L, R
        <5>3. QED
          BY <2>1, <4>2, <5>1, <5>2, Zenon
      <4>3. QED
        BY <4>1, <4>2
    <3>2. QED
      BY <3>1, Zenon
  <2>3. IsHalfSum(scale, T, h) <=> h = L
    BY DEF IsHalfSum, Pick
  <2>4. IsSum(Halves, SUBSET T, h) <=> h = R
    BY DEF IsSum
  <2> HIDE DEF L, R
  <2>5. QED
    BY <2>2, <2>3, <2>4
<1>5. \E h : IsHalfSum(scale, T, h)
  BY <1>1, <1>4, SumExists
<1>6. IsHalfSum(scale, T, it)
  BY <1>5
<1> HIDE DEF it
<1>7. it[T] = SumOver(Halves, T)
  BY <1>1, <1>4, <1>6, SumUnique
<1>8. QED
  BY <1>3, <1>7 DEF T, it

\* A call is tried at most max_attempts times and waits within the documented bounds,
\* with no overflow, for every base, cap and number of attempts up to 22
\* (cw.rs:147-163).
THEOREM BackoffBoundedAlways ==
  ASSUME ShortBackoff PROVE Spec => []BackoffBounded
<1>1. CallsInv => BackoffBounded
  <2> SUFFICES ASSUME CallsInv, NEW x \in DOMAIN call
               PROVE  LET n == call[x].n
                          scale == [i \in 1 .. n |-> Max({1, Min({cap_ms, base_ms * 2 ^ (i - 1)})})]
                      IN /\ n < max_attempts
                         /\ MapThenSumSet(LAMBDA i : scale[i] \div 2, 1 .. n) <= call[x].waited
                         /\ call[x].waited <= MapThenSumSet(LAMBDA i : scale[i], 1 .. n)
    BY DEF BackoffBounded
  <2> DEFINE n == call[x].n
             scale == [i \in 1 .. n |-> Max({1, Min({cap_ms, base_ms * 2 ^ (i - 1)})})]
  <2>1. CallInv(x) /\ n \in Nat
    BY DEF CallsInv, CallInv
  <2>2. MapThenSumSet(LAMBDA i : scale[i] \div 2, 1 .. n) = (CHOOSE h : IsHalfSum(scale, 1 .. n, h))[1 .. n]
    BY DEF MapThenSumSet, MapThenFoldSet, IsHalfSum
  <2>3. MapThenSumSet(LAMBDA i : scale[i], 1 .. n) = SumOver(scale, 1 .. n)
    BY DEF SumOver
  <2>4. /\ (CHOOSE h : IsHalfSum(scale, 1 .. n, h))[1 .. n] = SumOver(Halves, 1 .. n)
        /\ SumOver(scale, 1 .. n) = SumOver(Scales, 1 .. n)
    <3>1. scale = [i \in 1 .. n |-> Max({1, Min({cap_ms, base_ms * 2 ^ (i - 1)})})]
      OBVIOUS
    <3> HIDE DEF n, scale
    <3>2. QED
      BY <2>1, <3>1, DocumentedSums
  <2>5. /\ MapThenSumSet(LAMBDA i : scale[i] \div 2, 1 .. n) <= call[x].waited
        /\ call[x].waited <= MapThenSumSet(LAMBDA i : scale[i], 1 .. n)
    BY <2>1, <2>2, <2>3, <2>4 DEF CallInv
  <2>6. QED
    BY <2>1, <2>5 DEF CallInv
<1>2. QED
  BY <1>1, CallsInvAlways, PTL

-----------------------------------------------------------------------------
(* Part 5: the manifests that a report reads *)

\* Keys of the listing that were there all the time and are yet to be read or, when
\* their group is selected, have been.
Accounted(k) == k \in keys \/ (IsSelected(k) => k \in ManifestsOf(KeyGroup[k]))

ReadInv ==
  /\ manifests \in [Keys -> {Absent, 1, 2, Damaged}] /\ keys \subseteq Keys /\ lastKey \in Nat
  /\ got \in [Groups -> SUBSET (Keys \X {1, 2})] /\ steady \subseteq Keys
  /\ cmd.name = "report" => phase \notin {"list", "work", "gate"} /\ \A k \in steady : manifests[k] = 1
  /\ phase \notin {"keys", "read", "exit"} => keys = {} /\ lastKey = 0
  /\ phase \notin {"read", "exit"} => \A g \in Groups : got[g] = {}
  /\ phase = "keys" => \A k \in steady : k <= lastKey => k \in keys
  /\ phase = "read" \/ ReportDone => \A k \in steady : Accounted(k)
  /\ ReportDone => keys = {}
  /\ \A g \in Groups : \A m \in got[g] :
       /\ KeyGroup[m[1]] = g /\ g \in cmd.sel.match /\ m[1] \notin keys
       /\ \A n \in got[g] : m[1] = n[1] => m = n

\* What the other commands do does not matter to a report.
LEMMA ReadFrame ==
  ASSUME ReadInv, UNCHANGED <<cmd, reportVars>>,
         \/ UNCHANGED <<phase, code>>
         \/ /\ cmd.name # "report" /\ phase \notin {"keys", "read", "exit"}
            /\ phase' \in {"list", "work", "gate", "exit"}
         \/ phase' = "exit" /\ code' # 0
  PROVE  ReadInv'
<1>1. UNCHANGED <<manifests, lastKey, keys, got, steady>>
  BY DEF reportVars
<1>2. \A k \in Keys : Accounted(k)' <=> Accounted(k)
  BY <1>1 DEF Accounted, IsSelected, Matches, ManifestsOf
<1>3. (phase' = "read" => phase = "read") /\ (ReportDone' => ReportDone)
  BY DEF ReportDone
<1>4. ReportDone' \/ phase' = "read" => \A k \in steady : Accounted(k)'
  BY <1>2, <1>3 DEF ReadInv
<1>5. /\ phase' \notin {"keys", "read", "exit"} => phase \notin {"keys", "read", "exit"}
      /\ phase' \notin {"read", "exit"} => phase \notin {"read", "exit"}
      /\ phase' = "keys" => phase = "keys"
      /\ cmd.name = "report" => (phase' \in {"list", "work", "gate"} => phase' = phase)
  OBVIOUS
<1>6. QED
  BY <1>1, <1>3, <1>4, <1>5 DEF ReadInv

\* The keys of a page are the next ones.
LEMMA KeysOfPage ==
  ASSUME ReadInv
  PROVE  /\ KeysPage \subseteq KeysLeft /\ KeysLeft \subseteq Keys
         /\ Max(KeysPage \cup {lastKey}) \in Nat
         /\ \A k \in KeysLeft : k <= Max(KeysPage \cup {lastKey}) => k \in KeysPage
<1>0. Keys \subseteq Nat /\ IsFiniteSet(Keys) /\ KeyPageLen \in Nat
  BY ReportAssumption DEF ReportAssumption
<1>1. KeysPage \subseteq KeysLeft /\ KeysLeft \subseteq Keys /\ lastKey \in Nat
  BY DEF KeysPage, KeysLeft, ReadInv
<1> DEFINE S == KeysPage \cup {lastKey}
           top == Max(S)
<1>2. S \in SUBSET Nat /\ IsFiniteSet(S) /\ S # {}
  <2>1. IsFiniteSet(KeysPage)
    BY <1>0, <1>1, FS_Subset
  <2>2. QED
    BY <1>0, <1>1, <2>1, FS_AddElement
<1>3. top \in S
  <2> HIDE DEF S
  <2> QED BY <1>2, MaxIn
<1>4. top \in Nat
  <2> HIDE DEF S, top
  <2> QED BY <1>2, <1>3
<1> HIDE DEF top
<1>5. ASSUME NEW k \in KeysLeft, k <= top PROVE k \in KeysPage
  <2>1. k \in Nat /\ k > lastKey
    BY <1>0, <1>1 DEF KeysLeft
  <2>2. top \in KeysPage
    BY <1>1, <1>3, <1>4, <1>5, <2>1
  <2> DEFINE A == {j \in KeysLeft : j < k}
             B == {j \in KeysLeft : j < top}
  <2>3. A \in SUBSET B /\ B \in SUBSET Keys
    <3>1. \A j \in KeysLeft : j \in Nat
      BY <1>0, <1>1
    <3>2. \A j \in KeysLeft : j < k => j < top
      BY <1>4, <1>5, <2>1, <3>1
    <3>3. A \subseteq B /\ B \subseteq Keys
      BY <1>1, <3>2
    <3> HIDE DEF A, B
    <3>4. QED BY <3>3
  <2>4. IsFiniteSet(B) /\ IsFiniteSet(A) /\ Cardinality(A) <= Cardinality(B)
    <3> HIDE DEF A, B
    <3> QED BY <1>0, <2>3, FS_Subset
  <2>5. Cardinality(A) \in Nat /\ Cardinality(B) \in Nat
    BY <2>4, FS_CardinalityType
  <2>6. Cardinality(B) < KeyPageLen
    BY <2>2 DEF KeysPage
  <2>7. Cardinality(A) < KeyPageLen
    <3> HIDE DEF A, B
    <3> QED BY <1>0, <2>4, <2>5, <2>6
  <2>8. QED
    BY <2>7 DEF KeysPage
<1>6. QED
  BY <1>1, <1>4, <1>5 DEF top

\* A page of keys: what was there all the time up to its last key has been listed.
LEMMA ListKeysInv ==
  ASSUME DiscoveryInv, ReadInv, ListKeys PROVE ReadInv'
<1> DEFINE top == Max(KeysPage \cup {lastKey})
<1>1. /\ phase = "keys" /\ phase' \in {"keys", "read"} /\ cmd.name = "report"
      /\ UNCHANGED <<cmd, code, manifests, got, steady>>
      /\ keys' = keys \cup KeysPage /\ lastKey' = top
      /\ phase' = "read" => KeysPage = KeysLeft
  BY DEF ListKeys, DiscoveryInv, NoMoreKeys
<1>2. /\ KeysPage \subseteq KeysLeft /\ KeysLeft \subseteq Keys /\ top \in Nat
      /\ \A k \in KeysLeft : k <= top => k \in KeysPage
  BY KeysOfPage
<1> HIDE DEF top
<1>3. ASSUME NEW k \in steady, k <= top \/ KeysPage = KeysLeft PROVE k \in keys'
  <2>1. k \in Nat /\ lastKey \in Nat /\ k \in Keys /\ manifests[k] # Absent
    BY <1>1, ReportAssumption DEF ReportAssumption, ReadInv, Absent
  <2>2. CASE k <= lastKey
    BY <1>1, <2>2 DEF ReadInv
  <2>3. CASE k > lastKey
    <3>1. k \in KeysLeft
      BY <2>1, <2>3 DEF KeysLeft
    <3>2. QED
      BY <1>1, <1>2, <1>3, <3>1
  <2>4. QED
    BY <2>1, <2>2, <2>3
<1>4. phase' = "read" => \A k \in steady : Accounted(k)'
  BY <1>1, <1>3 DEF Accounted
<1>5. \A g \in Groups : got'[g] = {}
  BY <1>1 DEF ReadInv
<1>6. QED
  BY <1>1, <1>2, <1>3, <1>4, <1>5 DEF ReadInv, ReportDone

\* A key is read: its manifest is added to its own group, unless it is not selected,
\* is gone or does not decode.
LEMMA ReadManifestInv ==
  ASSUME DiscoveryInv, ReadInv, ReadManifest PROVE ReadInv'
<1>1. PICK k \in keys : k = Min(keys)
  <2>1. keys \in SUBSET Nat /\ keys # {}
    BY ReportAssumption DEF ReportAssumption, ReadInv, ReadManifest
  <2>2. QED
    BY <2>1, MinIn
<1>2. /\ phase = "read" /\ UNCHANGED <<cmd, phase, code, manifests, lastKey, steady>>
      /\ keys' = keys \ {k} /\ cmd.name = "report"
      /\ got' = IF IsSelected(k) /\ manifests[k] \notin {Absent, Damaged}
                THEN [got EXCEPT ![KeyGroup[k]] = @ \cup {<<k, manifests[k]>>}] ELSE got
  BY <1>1 DEF ReadManifest, discovery, DiscoveryInv
<1>3. k \in Keys /\ keys \subseteq Keys /\ KeyGroup[k] \in Groups \cup {Main}
  BY ReportAssumption DEF ReportAssumption, ReadInv
<1>4. CASE IsSelected(k) /\ manifests[k] \notin {Absent, Damaged}
  <2>1. KeyGroup[k] \in Groups /\ KeyGroup[k] \in cmd.sel.match /\ manifests[k] \in {1, 2}
    BY <1>3, <1>4 DEF IsSelected, Matches, ReadInv
  <2> DEFINE w == KeyGroup[k]
             m0 == <<k, manifests[k]>>
  <2>2. /\ got' \in [Groups -> SUBSET (Keys \X {1, 2})]
        /\ got'[w] = got[w] \cup {m0} /\ \A g \in Groups : g # w => got'[g] = got[g]
    <3>1. m0 \in Keys \X {1, 2}
      BY <1>3, <2>1
    <3>2. w \in Groups /\ got \in [Groups -> SUBSET (Keys \X {1, 2})]
      BY <2>1 DEF ReadInv
    <3>3. got' = [got EXCEPT ![w] = got[w] \cup {m0}]
      BY <1>2, <1>4, <3>2
    <3> HIDE DEF w, m0
    <3>4. QED
      BY <3>1, <3>2, <3>3
  <2>3. \A n \in got[w] : n[1] # k
    BY <2>1 DEF ReadInv
  <2>4. ASSUME NEW g \in Groups, NEW m \in got'[g]
        PROVE  /\ KeyGroup[m[1]] = g /\ g \in cmd.sel.match /\ m[1] \notin keys'
               /\ \A n \in got'[g] : m[1] = n[1] => m = n
    <3>1. CASE m \in got[g]
      <4>1. /\ KeyGroup[m[1]] = g /\ g \in cmd.sel.match /\ m[1] \notin keys
            /\ \A n \in got[g] : m[1] = n[1] => m = n
        BY <3>1 DEF ReadInv
      <4>2. m[1] # k
        BY <4>1
      <4>3. \A n \in got'[g] : n \in got[g] \/ n = m0
        BY <2>2
      <4>4. QED
        BY <1>2, <4>1, <4>2, <4>3
    <3>2. CASE m \notin got[g]
      <4>1. g = w /\ m = m0
        BY <2>2, <3>2
      <4>2. QED
        BY <1>2, <2>1, <2>2, <2>3, <4>1
    <3>3. QED
      BY <3>1, <3>2
  <2>5. ASSUME NEW j \in steady PROVE Accounted(j)'
    <3>1. Accounted(j) /\ j \in Keys
      BY <1>2 DEF ReadInv
    <3>2. CASE j = k
      <4>1. m0 \in got'[w] /\ m0[1] = j
        BY <2>2, <3>2
      <4>2. j \in ManifestsOf(w)'
        BY <4>1 DEF ManifestsOf
      <4>3. QED
        BY <3>2, <4>2 DEF Accounted
    <3>3. CASE j # k
      <4>1. j \in keys => j \in keys'
        BY <1>2, <3>3
      <4>2. \A g \in Groups : ManifestsOf(g) \subseteq ManifestsOf(g)'
        BY <2>2 DEF ManifestsOf
      <4>3. IsSelected(j)' <=> IsSelected(j)
        BY <1>2 DEF IsSelected, Matches
      <4>4. IsSelected(j) => KeyGroup[j] \in Groups
        BY <3>1, ReportAssumption DEF ReportAssumption, IsSelected
      <4>5. QED
        BY <3>1, <4>1, <4>2, <4>3, <4>4 DEF Accounted
    <3>4. QED
      BY <3>2, <3>3
  <2> HIDE DEF w, m0
  <2>6. QED
    BY <1>2, <1>3, <2>2, <2>4, <2>5 DEF ReadInv, ReportDone
<1>5. CASE ~(IsSelected(k) /\ manifests[k] \notin {Absent, Damaged})
  <2>1. got' = got /\ keys' \subseteq keys
    BY <1>2, <1>5
  <2>2. ASSUME NEW j \in steady PROVE Accounted(j)'
    <3>1. Accounted(j)
      BY <1>2 DEF ReadInv
    <3>2. j = k => ~IsSelected(j)
      BY <1>2, <1>5 DEF ReadInv, Absent, Damaged
    <3>3. (IsSelected(j)' <=> IsSelected(j)) /\ ManifestsOf(KeyGroup[j])' = ManifestsOf(KeyGroup[j])
      BY <1>2, <2>1 DEF IsSelected, Matches, ManifestsOf
    <3>4. QED
      BY <1>2, <3>1, <3>2, <3>3 DEF Accounted
  <2>3. QED
    BY <1>2, <1>3, <2>1, <2>2 DEF ReadInv, ReportDone
<1>6. QED
  BY <1>4, <1>5

\* Others write, replace, delete or damage a manifest: it is not steady any more.
LEMMA WriteManifestInv ==
  ASSUME ReadInv, NEW k \in Keys, NEW v \in {Absent, 1, 2, Damaged}, WriteManifest(k, v)
  PROVE  ReadInv'
<1>1. /\ UNCHANGED <<cmd, phase, code, lastKey, keys, got>> /\ steady' = steady \ {k}
      /\ manifests' = [manifests EXCEPT ![k] = v]
  BY DEF WriteManifest, discovery
<1>2. /\ manifests' \in [Keys -> {Absent, 1, 2, Damaged}]
      /\ \A j \in Keys : j # k => manifests'[j] = manifests[j]
  BY <1>1 DEF ReadInv
<1>3. \A j \in Keys : Accounted(j)' <=> Accounted(j)
  BY <1>1 DEF Accounted, IsSelected, Matches, ManifestsOf
<1>4. ReportDone' <=> ReportDone
  BY <1>1 DEF ReportDone
<1>5. QED
  BY <1>1, <1>2, <1>3, <1>4 DEF ReadInv

LEMMA ReadInvAlways == Spec => [](DiscoveryInv /\ ReadInv)
<1>1. Init => ReadInv
  <2> SUFFICES ASSUME Init PROVE ReadInv
    OBVIOUS
  <2>1. /\ phase = "start" /\ lastKey = 0 /\ keys = {} /\ got = [g \in Groups |-> {}]
        /\ steady = {k \in Keys : manifests[k] # Absent}
        /\ manifests \in [Keys -> {Absent, 1}]
    BY DEF Init, InitDiscovery, InitReport
  <2>2. QED
    BY <2>1 DEF ReadInv, ReportDone, Absent
<1>2. DiscoveryInv /\ ReadInv /\ [Next]_vars => ReadInv'
  <2> SUFFICES ASSUME DiscoveryInv, ReadInv, [Next]_vars PROVE ReadInv'
    OBVIOUS
  <2>1. CASE UNCHANGED vars
    BY <2>1, ReadFrame DEF vars, discovery
  <2>2. CASE DiscoveryStep /\ UNCHANGED reportVars
    <3>1. UNCHANGED cmd
      BY <2>2 DEF DiscoveryStep, UsageError, StartListing, ExactSource, ListPage, DescribePage,
           ListThrottled, ListFails
    <3>2. \/ UNCHANGED <<phase, code>>
          \/ /\ cmd.name # "report" /\ phase \notin {"keys", "read", "exit"}
             /\ phase' \in {"list", "work", "gate", "exit"}
          \/ phase' = "exit" /\ code' # 0
      <4>1. phase = "list" => cmd.name # "report"
        BY DEF ReadInv
      <4>2. QED
        BY <2>2, <4>1 DEF DiscoveryStep, UsageError, StartListing, ExactSource, ListPage, DescribePage,
           ListThrottled, ListFails, Exit, Discovered, AsksCloudWatch
    <3>3. QED
      BY <2>2, <3>1, <3>2, ReadFrame
  <2>3. CASE (DrainStep \/ PlanStep) /\ UNCHANGED reportVars
    <3>1. /\ UNCHANGED cmd
          /\ \/ UNCHANGED <<phase, code>>
             \/ phase \in {"work", "gate"} /\ phase' \in {"gate", "exit"}
      <4>1. CASE DrainStep
        BY <4>1 DEF DrainStep, StartGroup, DescribeGroup, SkipWindow, PageWindow, JobThrottled,
             JobSucceeds, JobFails, JobsEnd, EnterGate, PlanRetention, PutRetention, PutThrottled,
             GateFails, EndDrain, Exit, discovery
      <4>2. CASE PlanStep
        BY <4>2 DEF PlanStep, AskMetrics, MetricPage, MetricFails, EndPlan, Exit, discovery
      <4>3. QED
        BY <2>3, <4>1, <4>2
    <3>2. phase \in {"work", "gate"} => cmd.name # "report"
      BY DEF ReadInv
    <3>3. QED
      BY <2>3, <3>1, <3>2, ReadFrame
  <2>4. CASE (\E g \in Groups : Churn(g)) /\ UNCHANGED reportVars
    BY <2>4, ReadFrame DEF Churn
  <2>5. CASE StartReport
    <3>1. /\ phase = "start" /\ phase' = "keys" /\ UNCHANGED <<cmd, manifests, lastKey, keys, got, steady>>
      BY <2>5 DEF StartReport, reportVars
    <3>2. \A k \in steady : ~(k <= lastKey)
      <4>1. lastKey = 0 /\ steady \subseteq Keys
        BY <3>1 DEF ReadInv
      <4>2. \A k \in Keys : ~(k <= 0)
        BY ReportAssumption DEF ReportAssumption
      <4>3. QED
        BY <4>1, <4>2
    <3>3. QED
      BY <3>1, <3>2 DEF ReadInv, ReportDone
  <2>6. CASE ReportFails
    BY <2>6, ReadFrame DEF ReportFails, Exit
  <2>7. CASE EndReport
    <3>1. /\ phase = "read" /\ keys = {} /\ phase' = "exit"
          /\ UNCHANGED <<cmd, manifests, lastKey, keys, got, steady>>
      BY <2>7 DEF EndReport, Exit, reportVars
    <3>2. \A k \in steady : Accounted(k)'
      BY <3>1 DEF ReadInv, Accounted, IsSelected, Matches, ManifestsOf
    <3>3. QED
      BY <3>1, <3>2 DEF ReadInv
  <2>8. QED
    BY <2>1, <2>2, <2>3, <2>4, <2>5, <2>6, <2>7, ListKeysInv, ReadManifestInv, WriteManifestInv
       DEF Next, Step, Meanwhile, ReportStep
<1>3. QED
  BY <1>1, <1>2, DiscoveryInvAlways, PTL DEF Spec

\* A report that ends has each steady manifest of the selected groups.
LEMMA ReadExact ==
  ASSUME ReadInv PROVE ReportExact
<1> SUFFICES ASSUME ReportDone, NEW g \in Groups
             PROVE  /\ {k \in steady : KeyGroup[k] = g /\ g \in cmd.sel.match} \subseteq ManifestsOf(g)
                    /\ g \notin cmd.sel.match => got[g] = {}
                    /\ \A m, n \in got[g] : KeyGroup[m[1]] = g /\ (m[1] = n[1] => m = n)
  BY DEF ReportExact
<1>1. ASSUME NEW k \in steady, KeyGroup[k] = g, g \in cmd.sel.match PROVE k \in ManifestsOf(g)
  <2>1. Accounted(k) /\ keys = {}
    BY DEF ReadInv
  <2>2. IsSelected(k)
    BY <1>1, DiscoveryAssumption DEF DiscoveryAssumption, IsSelected, Matches
  <2>3. QED
    BY <1>1, <2>1, <2>2 DEF Accounted
<1>2. QED
  BY <1>1 DEF ReadInv

-----------------------------------------------------------------------------
(* Part 6: coverage and gaps *)

\* A listing of a finite set in the order R, as InOrder picks one, exists and has
\* every element once.
LEMMA ListingExists ==
  ASSUME NEW S, IsFiniteSet(S), NEW R, Orders(R, S)
  PROVE  \E s \in SetToSeqs(S) : \A i, k \in DOMAIN s : i < k => <<s[i], s[k]>> \in R
<1>1. PICK s \in [1 .. Cardinality(S) -> S] :
         /\ \A i, k \in 1 .. Cardinality(S) : i # k => s[i] # s[k]
         /\ \A i, k \in 1 .. Cardinality(S) : i < k => <<s[i], s[k]>> \in R
  BY ListInOrder
<1>2. s \in SetToSeqs(S)
  BY <1>1 DEF SetToSeqs
<1>3. QED
  BY <1>1, <1>2

Lists(s, n, S) ==
  /\ n \in Nat /\ s \in [1 .. n -> S] /\ DOMAIN s = 1 .. n
  /\ \A i, k \in 1 .. n : i # k => s[i] # s[k]
  /\ S = {s[i] : i \in 1 .. n}
  /\ \A x \in S : \E i \in 1 .. n : s[i] = x

LEMMA ListingOnto ==
  ASSUME NEW S, IsFiniteSet(S), NEW s \in SetToSeqs(S)
  PROVE  Lists(s, Len(s), S) /\ Len(s) = Cardinality(S)
<1> DEFINE n == Cardinality(S)
<1>1. n \in Nat
  BY FS_CardinalityType
<1>2. s \in [1 .. n -> S] /\ \A i, k \in 1 .. n : i # k => s[i] # s[k]
  BY DEF SetToSeqs
<1> HIDE DEF n
<1>3. IsFiniteSet(1 .. n) /\ Cardinality(1 .. n) = n
  BY <1>1, FS_Interval
<1>4. s \in Injection(1 .. n, S)
  BY <1>2 DEF Injection, IsInjective
<1>5. s \in Surjection(1 .. n, S)
  <2>1. Cardinality(1 .. n) = Cardinality(S)
    BY <1>3 DEF n
  <2>2. QED
    BY <1>4, <2>1, FS_Injection
<1>6. \A x \in S : \E i \in 1 .. n : s[i] = x
  BY <1>5 DEF Surjection
<1>7. Len(s) = n
  BY <1>1, <1>2
<1>8. S = {s[i] : i \in 1 .. n}
  BY <1>2, <1>6
<1>9. QED
  BY <1>1, <1>2, <1>6, <1>7, <1>8 DEF n, Lists

\* Windows 1 .. n from a[i] to b[i], in the order of their starts.
Spread(n, a, b) ==
  /\ n \in Nat \ {0} /\ a \in [1 .. n -> Nat] /\ b \in [1 .. n -> Nat]
  /\ \A i \in 1 .. n : a[i] < b[i]
  /\ \A i, k \in 1 .. n : i < k => a[i] <= a[k]

\* The times that are in none of them, the first of each stretch of these, and the
\* windows with a gap after them.
Missed(n, a, b) == {t \in a[1] .. b[n] - 1 : \A i \in 1 .. n : ~(a[i] <= t /\ t < b[i])}

FirstMissed(n, a, b) == {t \in Missed(n, a, b) : t - 1 \notin Missed(n, a, b)}

GapsIn(n, a, b) == {i \in 1 .. n - 1 : a[i + 1] > b[i]}

LEMMA NoGapNothingMissed ==
  ASSUME NEW n, NEW a, NEW b, Spread(n, a, b), GapsIn(n, a, b) = {}
  PROVE  Missed(n, a, b) = {}
<1> SUFFICES ASSUME NEW t \in Missed(n, a, b) PROVE FALSE
  OBVIOUS
<1>0. n \in Nat /\ n >= 1 /\ 1 \in 1 .. n /\ n \in 1 .. n
  BY DEF Spread
<1>1. \A i \in 1 .. n : a[i] \in Nat /\ b[i] \in Nat /\ ~(a[i] <= t /\ t < b[i])
  BY DEF Spread, Missed
<1>2. t \in Int /\ a[1] <= t /\ t < b[n]
  BY <1>0, <1>1 DEF Missed
<1> DEFINE P == {0} \cup {i \in 1 .. n : b[i] <= t}
<1>3. ASSUME NEW i \in 1 .. n, i - 1 \in P PROVE i \in P
  <2>1. CASE i = 1
    <3>1. b[1] <= t
      BY <1>0, <1>1, <1>2
    <3>2. QED BY <2>1, <3>1, <1>0
  <2>2. CASE i # 1
    <3> DEFINE j == i - 1
    <3>1. j \in 1 .. n /\ j \in 1 .. n - 1 /\ j + 1 = i /\ b[j] <= t
      BY <1>0, <1>3, <2>2
    <3>2. ~(a[i] > b[j])
      BY <3>1 DEF GapsIn
    <3> HIDE DEF j
    <3>3. b[i] <= t
      BY <1>1, <1>2, <3>1, <3>2
    <3>4. QED BY <3>3
  <2>3. QED
    BY <2>1, <2>2
<1>4. n \in P
  <2>1. 0 \in P
    OBVIOUS
  <2> HIDE DEF P
  <2>2. QED BY <1>0, <1>3, <2>1, UpTo
<1>5. QED
  BY <1>0, <1>1, <1>2, <1>4

\* Windows that do not overlap: each gap misses a stretch of times, which begins
\* where the window before it ends.
LEMMA GapsMissStretches ==
  ASSUME NEW n, NEW a, NEW b, Spread(n, a, b), \A i, k \in 1 .. n : i < k => b[i] <= a[k]
  PROVE  /\ \A i \in 1 .. n : b[i] <= b[n]
         /\ Cardinality(GapsIn(n, a, b)) = Cardinality(FirstMissed(n, a, b))
<1> DEFINE M == Missed(n, a, b)
           G == GapsIn(n, a, b)
           F == {t \in M : t - 1 \notin M}
           f == [i \in G |-> b[i]]
<1>0. n \in Nat /\ n >= 1 /\ 1 \in 1 .. n /\ n \in 1 .. n
  BY DEF Spread
<1>1. \A i \in 1 .. n : a[i] \in Nat /\ b[i] \in Nat /\ a[i] < b[i] /\ i \in Nat
  BY DEF Spread
<1>2. ASSUME NEW i \in 1 .. n, NEW k \in 1 .. n, i < k
      PROVE  b[i] <= a[k] /\ b[i] < b[k] /\ a[i] <= a[k]
  BY <1>1, <1>2 DEF Spread
<1>3. \A i \in 1 .. n : b[i] <= b[n] /\ a[1] <= a[i]
  <2> SUFFICES ASSUME NEW i \in 1 .. n PROVE b[i] <= b[n] /\ a[1] <= a[i]
    OBVIOUS
  <2>1. i = n \/ i < n
    BY <1>0
  <2>2. i = 1 \/ 1 < i
    BY <1>0
  <2>3. b[i] <= b[n]
    BY <1>0, <1>1, <1>2, <2>1
  <2>4. a[1] <= a[i]
    BY <1>0, <1>1, <1>2, <2>2
  <2>5. QED BY <2>3, <2>4
<1>4. \A t : t \in M <=> /\ t \in Int /\ a[1] <= t /\ t < b[n]
                         /\ \A i \in 1 .. n : ~(a[i] <= t /\ t < b[i])
  BY <1>0, <1>1 DEF Missed
<1>5. \A i : i \in G <=> i \in 1 .. n /\ i + 1 \in 1 .. n /\ a[i + 1] > b[i]
  BY <1>0 DEF GapsIn
<1> HIDE DEF M, G
<1>6. ASSUME NEW i \in G PROVE b[i] \in F
  <2>1. i \in 1 .. n /\ i + 1 \in 1 .. n /\ a[i + 1] > b[i] /\ i < i + 1 /\ i \in Nat
    BY <1>1, <1>5
  <2>2. b[i] \in Nat /\ a[i] \in Nat /\ a[i] < b[i] /\ a[1] \in Nat /\ b[n] \in Nat
    BY <1>0, <1>1, <2>1
  <2>3. a[1] <= b[i]
    BY <1>3, <2>1, <2>2
  <2>4. b[i] < b[n]
    <3>1. b[i] < b[i + 1] /\ b[i + 1] <= b[n] /\ b[i + 1] \in Nat
      BY <1>1, <1>2, <1>3, <2>1
    <3>2. QED BY <2>2, <3>1
  <2>5. ASSUME NEW k \in 1 .. n PROVE ~(a[k] <= b[i] /\ b[i] < b[k])
    <3>0. k \in Nat /\ a[k] \in Nat /\ b[k] \in Nat /\ a[i + 1] \in Nat
      BY <1>1, <2>1
    <3>1. CASE k <= i
      <4>1. b[k] <= b[i]
        BY <1>2, <2>1, <2>2, <3>0, <3>1
      <4>2. QED BY <2>2, <3>0, <4>1
    <3>2. CASE k > i
      <4>1. a[i + 1] <= a[k]
        <5>1. k = i + 1 \/ i + 1 < k
          BY <2>1, <3>0, <3>2
        <5>2. QED BY <1>2, <2>1, <3>0, <5>1
      <4>2. QED BY <2>1, <2>2, <3>0, <4>1
    <3>3. QED BY <2>1, <3>0, <3>1, <3>2
  <2>6. b[i] \in M
    BY <1>4, <2>2, <2>3, <2>4, <2>5
  <2>7. b[i] - 1 \notin M
    <3>1. a[i] <= b[i] - 1 /\ b[i] - 1 < b[i]
      BY <2>2
    <3>2. QED BY <1>4, <2>1, <3>1
  <2>8. QED BY <2>6, <2>7
<1>7. ASSUME NEW t \in F PROVE \E i \in G : b[i] = t
  <2>1. /\ t \in Int /\ a[1] <= t /\ t < b[n] /\ \A i \in 1 .. n : ~(a[i] <= t /\ t < b[i])
    BY <1>4
  <2>2. a[1] # t
    BY <1>0, <1>1, <2>1
  <2>3. t - 1 \in Int /\ a[1] <= t - 1 /\ t - 1 < b[n]
    BY <1>0, <1>1, <2>1, <2>2
  <2>4. PICK k \in 1 .. n : a[k] <= t - 1 /\ t - 1 < b[k]
    BY <1>4, <2>3
  <2>5. b[k] = t
    BY <1>1, <2>1, <2>4
  <2>6. k # n /\ k \in Nat
    BY <2>1, <2>5
  <2>7. k + 1 \in 1 .. n /\ k < k + 1
    BY <1>0, <2>6
  <2>8. b[k] <= a[k + 1] /\ a[k + 1] \in Nat /\ b[k + 1] \in Nat /\ a[k + 1] < b[k + 1]
    BY <1>1, <1>2, <2>7
  <2>9. ~(a[k + 1] <= t /\ t < b[k + 1])
    BY <2>1, <2>7
  <2>10. a[k + 1] > b[k]
    BY <2>1, <2>5, <2>8, <2>9
  <2>11. QED BY <1>5, <2>5, <2>7, <2>10
<1>8. ASSUME NEW i \in G, NEW k \in G, b[i] = b[k] PROVE i = k
  <2>1. i \in 1 .. n /\ k \in 1 .. n
    BY <1>5
  <2>2. i \in Nat /\ k \in Nat /\ b[i] \in Nat /\ b[k] \in Nat
    BY <1>1, <2>1
  <2>3. ~(i < k) /\ ~(k < i)
    BY <1>2, <1>8, <2>1, <2>2
  <2>4. QED BY <2>2, <2>3
<1> HIDE DEF F
<1>9. ExistsBijection(G, F)
  <2>1. f \in [G -> F]
    BY <1>6
  <2>2. f \in Bijection(G, F)
    BY <1>7, <1>8, <2>1 DEF Bijection, Injection, Surjection, IsInjective
  <2>3. QED BY <2>2 DEF ExistsBijection
<1>10. IsFiniteSet(G)
  <2>1. IsFiniteSet(1 .. n)
    BY <1>0, FS_Interval
  <2>2. G \in SUBSET (1 .. n)
    BY <1>5
  <2>3. QED BY <2>1, <2>2, FS_Subset
<1>11. Cardinality(G) = Cardinality(F)
  BY <1>9, <1>10, FS_Bijection
<1>12. QED
  BY <1>3, <1>11 DEF F, G, M, FirstMissed

\* The windows of a group's manifests, as they are listed.
LEMMA CoveredSpread ==
  ASSUME ReadInv, NEW g \in Groups, got[g] # {}
  PROVE  LET c == Covered(g)
             n == Len(c)
             a == [i \in 1 .. n |-> c[i][1]]
             b == [i \in 1 .. n |-> c[i][2]]
         IN /\ Spread(n, a, b) /\ DOMAIN c = 1 .. n
            /\ \A i \in 1 .. n : \E k \in ManifestsOf(g) : c[i] = KeyWindow[k]
            /\ \A k \in ManifestsOf(g) : \E i \in 1 .. n : c[i] = KeyWindow[k]
            /\ \A i, k \in 1 .. n : i # k => c[i] # c[k]
<1> DEFINE S == {KeyWindow[k] : k \in ManifestsOf(g)}
           B(v, w) == v[1] < w[1] \/ (v[1] = w[1] /\ v[2] < w[2])
           R == {p \in S \X S : B(p[1], p[2])}
           c == Covered(g)
           n == Len(c)
           a == [i \in 1 .. n |-> c[i][1]]
           b == [i \in 1 .. n |-> c[i][2]]
<1>1. ManifestsOf(g) \in SUBSET Keys /\ ManifestsOf(g) # {}
  <2>1. got[g] \in SUBSET (Keys \X {1, 2})
    BY DEF ReadInv
  <2>2. \A m \in got[g] : m[1] \in Keys
    BY <2>1
  <2>3. QED
    BY <2>2 DEF ManifestsOf
<1>2. IsFiniteSet(S) /\ S # {}
  <2>1. IsFiniteSet(ManifestsOf(g))
    BY <1>1, ReportAssumption, FS_Subset DEF ReportAssumption
  <2> DEFINE h == [k \in ManifestsOf(g) |-> KeyWindow[k]]
  <2>2. h \in Surjection(ManifestsOf(g), S)
    BY DEF Surjection
  <2>3. S # {}
    BY <1>1
  <2> HIDE DEF h, S
  <2>4. QED
    BY <2>1, <2>2, <2>3, FS_Surjection
<1>3. \A w \in S : w[1] \in Nat /\ w[2] \in Nat /\ w[1] < w[2] /\ w = <<w[1], w[2]>>
  <2>1. KeyWindow \in [Keys -> {w \in Nat \X Nat : w[1] < w[2]}]
    BY ReportAssumption DEF ReportAssumption
  <2>2. \A k \in ManifestsOf(g) : KeyWindow[k] \in Nat \X Nat /\ KeyWindow[k][1] < KeyWindow[k][2]
    BY <1>1, <2>1
  <2>3. QED BY <2>2
<1>4. c = CHOOSE s \in SetToSeqs(S) : \A i, k \in DOMAIN s : i < k => B(s[i], s[k])
  BY DEF Covered, InOrder
<1>5. \A v, w \in S : <<v, w>> \in R <=> B(v, w)
  OBVIOUS
<1>6. \A k \in ManifestsOf(g) : KeyWindow[k] \in S
  OBVIOUS
<1>7. \A w \in S : \E k \in ManifestsOf(g) : w = KeyWindow[k]
  OBVIOUS
<1> HIDE DEF S, R, c
<1>8. Orders(R, S)
  <2>1. \A v \in S : ~B(v, v)
    BY <1>3
  <2>2. \A v, w \in S : v # w => B(v, w) \/ B(w, v)
    BY <1>3
  <2>3. \A u, v, w \in S : B(u, v) /\ B(v, w) => B(u, w)
    BY <1>3
  <2> HIDE DEF B
  <2>4. QED BY <1>5, <2>1, <2>2, <2>3 DEF Orders
<1>9. c \in SetToSeqs(S) /\ \A i, k \in DOMAIN c : i < k => B(c[i], c[k])
  <2>1. PICK s \in SetToSeqs(S) : \A i, k \in DOMAIN s : i < k => <<s[i], s[k]>> \in R
    BY <1>2, <1>8, ListingExists
  <2>2. \A i \in DOMAIN s : s[i] \in S
    BY DEF SetToSeqs
  <2> HIDE DEF B
  <2>3. \A i, k \in DOMAIN s : i < k => B(s[i], s[k])
    BY <1>5, <2>1, <2>2
  <2>4. QED BY <1>4, <2>3
<1>10. /\ n \in Nat /\ c \in [1 .. n -> S] /\ DOMAIN c = 1 .. n
       /\ \A i, k \in 1 .. n : i # k => c[i] # c[k]
       /\ \A x \in S : \E i \in 1 .. n : c[i] = x
  <2>1. Lists(c, n, S)
    BY <1>2, <1>9, ListingOnto
  <2> HIDE DEF n
  <2>2. QED BY <2>1 DEF Lists
<1> HIDE DEF n
<1>11. n # 0
  BY <1>2, <1>10
<1>12. \A i \in 1 .. n : c[i] \in S
  BY <1>10
<1>13. Spread(n, a, b)
  <2>1. \A i, k \in 1 .. n : i < k => c[i][1] <= c[k][1]
    BY <1>3, <1>9, <1>10, <1>12
  <2>2. QED
    BY <1>3, <1>10, <1>11, <1>12, <2>1 DEF Spread
<1>14. QED
  BY <1>6, <1>7, <1>10, <1>12, <1>13 DEF n, c

LEMMA CoverageHonest ==
  ASSUME ReadInv PROVE GapsHonest
<1> SUFFICES ASSUME NEW g \in Groups, got[g] # {}
             PROVE  /\ coverage_gaps(g) = 0 => Holes(g) = {}
                    /\ Disjoint(g) =>
                         /\ coverage_gaps(g) = Cardinality({t \in Holes(g) : t - 1 \notin Holes(g)})
                         /\ \A k \in ManifestsOf(g) : KeyWindow[k][2] <= coverage_to(g)
  BY DEF GapsHonest
<1> DEFINE c == Covered(g)
           n == Len(c)
           a == [i \in 1 .. n |-> c[i][1]]
           b == [i \in 1 .. n |-> c[i][2]]
<1>1. /\ Spread(n, a, b) /\ DOMAIN c = 1 .. n
      /\ \A i \in 1 .. n : \E k \in ManifestsOf(g) : c[i] = KeyWindow[k]
      /\ \A k \in ManifestsOf(g) : \E i \in 1 .. n : c[i] = KeyWindow[k]
      /\ \A i, k \in 1 .. n : i # k => c[i] # c[k]
  BY CoveredSpread
<1>2. n \in Nat /\ 1 \in 1 .. n /\ n \in 1 .. n
  BY <1>1 DEF Spread
<1>3. coverage_from(g) = a[1] /\ coverage_to(g) = b[n]
  BY <1>2 DEF coverage_from, coverage_to
<1>4. coverage_gaps(g) = Cardinality(GapsIn(n, a, b))
  <2>1. \A i \in 1 .. n - 1 : i \in 1 .. n /\ i + 1 \in 1 .. n
    BY <1>2
  <2>2. \A i \in 1 .. n - 1 : IsGap(c[i], c[i + 1]) <=> a[i + 1] > b[i]
    BY <2>1 DEF IsGap
  <2>3. {i \in 1 .. n - 1 : IsGap(c[i], c[i + 1])} = GapsIn(n, a, b)
    <3> HIDE DEF a, b
    <3> QED BY <2>2 DEF GapsIn
  <2>4. QED BY <2>3 DEF coverage_gaps
<1>5. Holes(g) = Missed(n, a, b)
  <2>1. ASSUME NEW t
        PROVE  (\A k \in ManifestsOf(g) : ~(KeyWindow[k][1] <= t /\ t < KeyWindow[k][2]))
                 <=> \A i \in 1 .. n : ~(a[i] <= t /\ t < b[i])
    <3>1. \A i \in 1 .. n : a[i] = c[i][1] /\ b[i] = c[i][2]
      OBVIOUS
    <3> HIDE DEF a, b, c, n
    <3>2. QED BY <1>1, <3>1
  <2> HIDE DEF a, b, c, n
  <2>2. QED BY <1>3, <2>1 DEF Holes, Missed
<1>6. ASSUME Disjoint(g), NEW i \in 1 .. n, NEW k \in 1 .. n, i < k PROVE b[i] <= a[k]
  <2>1. PICK p \in ManifestsOf(g) : c[i] = KeyWindow[p]
    BY <1>1
  <2>2. PICK q \in ManifestsOf(g) : c[k] = KeyWindow[q]
    BY <1>1
  <2>3. i # k
    BY <1>2, <1>6
  <2>4. p # q
    BY <1>1, <2>1, <2>2, <2>3
  <2>5. c[i][2] <= c[k][1] \/ c[k][2] <= c[i][1]
    BY <1>6, <2>1, <2>2, <2>4 DEF Disjoint
  <2>6. b[i] <= a[k] \/ b[k] <= a[i]
    BY <2>5
  <2> HIDE DEF a, b, n
  <2>7. /\ a[i] \in Nat /\ a[k] \in Nat /\ b[i] \in Nat /\ b[k] \in Nat
        /\ a[i] <= a[k] /\ a[k] < b[k]
    BY <1>1, <1>6 DEF Spread
  <2>8. QED BY <2>6, <2>7
<1>7. GapsIn(n, a, b) \in SUBSET (1 .. n)
  BY <1>2 DEF GapsIn
<1>8. \A k \in ManifestsOf(g) : \E i \in 1 .. n : KeyWindow[k][2] = b[i]
  BY <1>1
<1> HIDE DEF a, b, c, n
<1>9. coverage_gaps(g) = 0 => Holes(g) = {}
  <2>1. IsFiniteSet(GapsIn(n, a, b))
    <3>1. IsFiniteSet(1 .. n)
      BY <1>2, FS_Interval
    <3>2. QED BY <1>7, <3>1, FS_Subset
  <2>2. coverage_gaps(g) = 0 => GapsIn(n, a, b) = {}
    BY <1>4, <2>1, FS_EmptySet
  <2>3. QED BY <1>1, <1>5, <2>2, NoGapNothingMissed
<1>10. ASSUME Disjoint(g)
       PROVE  /\ coverage_gaps(g) = Cardinality({t \in Holes(g) : t - 1 \notin Holes(g)})
              /\ \A k \in ManifestsOf(g) : KeyWindow[k][2] <= coverage_to(g)
  <2>1. \A i, k \in 1 .. n : i < k => b[i] <= a[k]
    BY <1>6, <1>10
  <2>2. /\ \A i \in 1 .. n : b[i] <= b[n]
        /\ Cardinality(GapsIn(n, a, b)) = Cardinality(FirstMissed(n, a, b))
    BY <1>1, <2>1, GapsMissStretches
  <2>3. FirstMissed(n, a, b) = {t \in Holes(g) : t - 1 \notin Holes(g)}
    BY <1>5 DEF FirstMissed
  <2>4. QED
    BY <1>3, <1>4, <1>8, <2>2, <2>3
<1>11. QED
  BY <1>9, <1>10

-----------------------------------------------------------------------------
(* Part 7: the savings *)

LEMMA TotalIsSum ==
  ASSUME NEW F, NEW S PROVE Total(F, S) = SumOver(F, S)
BY DEF Total, SumOver

ObjectRecord == [len: Nat, raw: Nat, class: Classes, sized: BOOLEAN, classed: BOOLEAN]

SoundObjects(objs) == IsFiniteSet(objs) /\ \A p \in objs : Obj(p) \in ObjectRecord

\* What aggregate_group and finish_pricing add for each object.
RawOf(objs) == [p \in objs |-> IF Obj(p).sized THEN Obj(p).raw ELSE 0]

PriceOf(objs) == [p \in objs |-> Price(PricedClass(Obj(p))) * Obj(p).len]

\* The objects of a group are objects of its own manifests.
LEMMA ObjectsSound ==
  ASSUME ReadInv, NEW g \in Groups
  PROVE  SoundObjects(ObjectsOf(g)) /\ \A p \in ObjectsOf(g) : KeyGroup[p[1]] = g
<1> DEFINE Place(m) == {<<m[1], m[2], i>> : i \in DOMAIN Objects[m[1]][m[2]]}
<1>1. got[g] \in SUBSET (Keys \X {1, 2})
  BY DEF ReadInv
<1>2. ASSUME NEW k \in Keys, NEW v \in {1, 2}
      PROVE  /\ Objects[k][v] \in Seq(ObjectRecord) /\ Len(Objects[k][v]) \in Nat
             /\ DOMAIN Objects[k][v] = 1 .. Len(Objects[k][v])
             /\ \A i \in DOMAIN Objects[k][v] : Objects[k][v][i] \in ObjectRecord
  <2>1. Objects[k][v] \in Seq(ObjectRecord)
    BY ReportAssumption DEF ReportAssumption, ObjectRecord
  <2> HIDE DEF ObjectRecord
  <2>2. QED BY <2>1, LenProperties, ElementOfSeq
<1>3. IsFiniteSet(got[g])
  <2>1. IsFiniteSet(Keys)
    BY ReportAssumption DEF ReportAssumption
  <2>2. IsFiniteSet({1, 2})
    <3>1. {1, 2} = {1} \cup {2}
      OBVIOUS
    <3>2. IsFiniteSet({1} \cup {2})
      BY FS_Singleton, FS_Union
    <3>3. QED BY <3>1, <3>2
  <2>3. IsFiniteSet(Keys \X {1, 2})
    BY <2>1, <2>2, FS_Product
  <2>4. QED BY <1>1, <2>3, FS_Subset
<1>4. ASSUME NEW m \in got[g]
      PROVE  IsFiniteSet(Place(m)) /\ \A p \in Place(m) : Obj(p) \in ObjectRecord /\ KeyGroup[p[1]] = g
  <2>1. m[1] \in Keys /\ m[2] \in {1, 2} /\ KeyGroup[m[1]] = g
    BY <1>1 DEF ReadInv
  <2> DEFINE D == DOMAIN Objects[m[1]][m[2]]
             f == [i \in D |-> <<m[1], m[2], i>>]
  <2>2. IsFiniteSet(D)
    <3> DEFINE n == Len(Objects[m[1]][m[2]])
    <3>1. D = 1 .. n /\ n \in Nat
      BY <1>2, <2>1
    <3> HIDE DEF D, n
    <3>2. QED BY <3>1, FS_Interval
  <2>3. f \in Surjection(D, Place(m))
    BY DEF Surjection
  <2>4. IsFiniteSet(Place(m))
    <3> HIDE DEF Place, D, f
    <3> QED BY <2>2, <2>3, FS_Surjection
  <2>5. \A i \in D : Objects[m[1]][m[2]][i] \in ObjectRecord
    BY <1>2, <2>1
  <2>6. ASSUME NEW p \in Place(m) PROVE Obj(p) \in ObjectRecord /\ KeyGroup[p[1]] = g
    <3>1. PICK i \in D : p = <<m[1], m[2], i>>
      OBVIOUS
    <3>2. p[1] = m[1] /\ p[2] = m[2] /\ p[3] = i
      BY <3>1
    <3>3. QED
      BY <2>1, <2>5, <3>2 DEF Obj
  <2>7. QED BY <2>4, <2>6
<1>5. ObjectsOf(g) = UNION {Place(m) : m \in got[g]}
  BY DEF ObjectsOf
<1> HIDE DEF Place
<1>6. IsFiniteSet(ObjectsOf(g))
  <2> DEFINE U == {Place(m) : m \in got[g]}
             f == [m \in got[g] |-> Place(m)]
  <2>1. f \in Surjection(got[g], U)
    BY DEF Surjection
  <2>2. \A T \in U : IsFiniteSet(T)
    BY <1>4
  <2>3. ObjectsOf(g) = UNION U
    BY <1>5
  <2> HIDE DEF U, f
  <2>4. IsFiniteSet(U)
    BY <1>3, <2>1, FS_Surjection
  <2>5. QED BY <2>2, <2>3, <2>4, FS_UNION
<1>7. QED
  BY <1>4, <1>5, <1>6 DEF SoundObjects

LEMMA PriceTypes ==
  ASSUME NEW objs, SoundObjects(objs), NEW p \in objs
  PROVE  /\ Obj(p).len \in Nat /\ Obj(p).raw \in Nat
         /\ PricedClass(Obj(p)) \in Classes /\ Obj(p).class \in Classes
         /\ Price(Obj(p).class) \in Nat /\ Price(PricedClass(Obj(p))) \in Nat
         /\ RawOf(objs)[p] \in Nat /\ PriceOf(objs)[p] \in Nat
<1>1. Obj(p) \in ObjectRecord
  BY DEF SoundObjects
<1>2. Obj(p).len \in Nat /\ Obj(p).raw \in Nat /\ Obj(p).class \in Classes
  BY <1>1 DEF ObjectRecord
<1>3. PricedClass(Obj(p)) \in Classes
  BY <1>2 DEF PricedClass, Classes
<1>4. \A c \in Classes : Price(c) \in Nat
  BY DEF Price, Classes
<1>5. RawOf(objs)[p] \in Nat
  BY <1>2 DEF RawOf
<1>6. Price(PricedClass(Obj(p))) * Obj(p).len \in Nat
  <2> DEFINE x == Price(PricedClass(Obj(p)))
             y == Obj(p).len
  <2>1. x \in Nat /\ y \in Nat
    BY <1>2, <1>3, <1>4
  <2> HIDE DEF x, y
  <2>2. x * y \in Nat
    BY <2>1
  <2>3. QED BY <2>2 DEF x, y
<1>7. PriceOf(objs)[p] \in Nat
  BY <1>6 DEF PriceOf
<1>8. QED
  BY <1>2, <1>3, <1>4, <1>5, <1>7

\* Pricing the bytes of each class is pricing each object.
LEMMA PricedByClass ==
  ASSUME NEW objs, SoundObjects(objs)
  PROVE  /\ Total([c \in Classes |-> Price(c) * ByClass(objs, c)], Classes) = SumOver(PriceOf(objs), objs)
         /\ SumOver(PriceOf(objs), objs) \in Nat
<1> DEFINE O == [c \in Classes |-> {p \in objs : PricedClass(Obj(p)) = c}]
           L == [p \in objs |-> Obj(p).len]
           H == [c \in Classes |-> Price(c) * ByClass(objs, c)]
           P == PriceOf(objs)
<1>1. IsFiniteSet(Classes) /\ \A c \in Classes : Price(c) \in Nat
  <2>1. IsFiniteSet({"STANDARD"} \cup {"STANDARD_IA"} \cup {"GLACIER_IR"})
    BY FS_Singleton, FS_Union
  <2>2. Classes = {"STANDARD"} \cup {"STANDARD_IA"} \cup {"GLACIER_IR"}
    BY DEF Classes
  <2>3. QED BY <2>1, <2>2 DEF Price, Classes
<1>2. IsFiniteSet(objs) /\ \A p \in objs : P[p] \in Nat /\ L[p] \in Nat
  BY PriceTypes DEF SoundObjects
<1>3. ASSUME NEW c \in Classes
      PROVE  O[c] \in SUBSET objs /\ IsFiniteSet(O[c]) /\ H[c] = SumOver(P, O[c])
  <2>1. O[c] \in SUBSET objs
    OBVIOUS
  <2>2. IsFiniteSet(O[c])
    BY <1>2, <2>1, FS_Subset
  <2>3. \A p \in O[c] : P[p] = Price(c) * L[p]
    BY DEF PriceOf
  <2>4. ByClass(objs, c) = SumOver(L, O[c])
    BY TotalIsSum DEF ByClass
  <2>5. H[c] = Price(c) * ByClass(objs, c)
    OBVIOUS
  <2> HIDE DEF O, L, H, P
  <2>6. SumOver(P, O[c]) = Price(c) * SumOver(L, O[c])
    BY <1>1, <1>2, <2>1, <2>2, <2>3, SumScale
  <2>7. QED BY <2>1, <2>2, <2>4, <2>5, <2>6
<1>4. PartsApart(O, Classes)
  BY DEF PartsApart
<1>5. PartsFrom(O, Classes) = objs
  BY PriceTypes DEF PartsFrom
<1>6. Total(H, Classes) = SumOver(H, Classes)
  BY TotalIsSum
<1> HIDE DEF O, L, H, P
<1>7. SumOver(P, PartsFrom(O, Classes)) = SumOver(H, Classes)
  <2>1. \A c \in Classes : \A p \in O[c] : P[p] \in Nat
    BY <1>2, <1>3
  <2>2. (\A c \in Classes : IsFiniteSet(O[c])) /\ \A c \in Classes : H[c] = SumOver(P, O[c])
    BY <1>3
  <2>3. IsFiniteSet(Classes)
    BY <1>1
  <2>4. QED BY <1>4, <2>1, <2>2, <2>3, SumUnions
<1>8. SumOver(P, objs) \in Nat
  BY <1>2, SumType
<1>9. QED
  BY <1>5, <1>6, <1>7, <1>8 DEF H, P

LEMMA SavingsOf ==
  ASSUME NEW objs, SoundObjects(objs)
  PROVE  /\ SumOver(RawOf(objs), objs) \in Nat /\ SumOver(PriceOf(objs), objs) \in Nat
         /\ ReportedSavings(objs) = SumOver(RawOf(objs), objs) * 75 - SumOver(PriceOf(objs), objs)
<1>1. SumOver(RawOf(objs), objs) \in Nat
  BY PriceTypes, SumType DEF SoundObjects
<1>2. RawBytes(objs) = SumOver(RawOf(objs), objs)
  BY TotalIsSum DEF RawBytes, RawOf
<1>3. QED
  BY <1>1, <1>2, PricedByClass DEF ReportedSavings

\* Unknown sizes and classes make the savings smaller.
LEMMA SavingsAtMost ==
  ASSUME NEW objs, SoundObjects(objs) PROVE ReportedSavings(objs) <= TrueSavings(objs)
<1> DEFINE R == RawOf(objs)
           R75 == [p \in objs |-> 75 * R[p]]
           T == [p \in objs |-> Obj(p).raw * 75]
           P == PriceOf(objs)
           Q == [p \in objs |-> Price(Obj(p).class) * Obj(p).len]
<1>1. IsFiniteSet(objs) /\ \A p \in objs : R[p] \in Nat /\ P[p] \in Nat
  BY PriceTypes DEF SoundObjects
<1>2. ASSUME NEW p \in objs PROVE R75[p] \in Nat /\ T[p] \in Nat /\ R75[p] <= T[p] /\ R75[p] = 75 * R[p]
  <2>1. Obj(p).raw \in Nat /\ R[p] \in {0, Obj(p).raw}
    BY PriceTypes DEF RawOf
  <2> HIDE DEF R
  <2>2. QED BY <2>1
<1>3. ASSUME NEW p \in objs PROVE Q[p] \in Nat /\ Q[p] <= P[p]
  <2> DEFINE y == Obj(p).len
             o == Obj(p)
  <2>1. y \in Nat /\ o.class \in Classes
    BY PriceTypes
  <2>2. Q[p] = Price(o.class) * y /\ P[p] = Price(PricedClass(o)) * y
    BY DEF PriceOf
  <2>3. /\ Price(o.class) \in {230, 125, 40}
        /\ Price(PricedClass(o)) \in {230, Price(o.class)}
    <3>1. PricedClass(o) = o.class \/ PricedClass(o) = "STANDARD"
      BY DEF PricedClass
    <3>2. Price("STANDARD") = 230 /\ Price("STANDARD_IA") = 125 /\ Price("GLACIER_IR") = 40
      BY DEF Price
    <3> HIDE DEF o
    <3>3. QED BY <2>1, <3>1, <3>2 DEF Classes
  <2> HIDE DEF P, Q, y, o
  <2>4. QED BY <2>1, <2>2, <2>3
<1>4. TrueSavings(objs) = SumOver(T, objs) - SumOver(Q, objs)
  BY TotalIsSum DEF TrueSavings
<1>5. /\ ReportedSavings(objs) = SumOver(R, objs) * 75 - SumOver(P, objs)
      /\ SumOver(R, objs) \in Nat /\ SumOver(P, objs) \in Nat
  BY SavingsOf
<1> HIDE DEF R, R75, T, P, Q
<1>6. SumOver(R75, objs) = 75 * SumOver(R, objs)
  BY <1>1, <1>2, SumScale
<1>7. SumOver(R75, objs) <= SumOver(T, objs)
  BY <1>1, <1>2, SumMono
<1>8. SumOver(Q, objs) <= SumOver(P, objs)
  BY <1>1, <1>3, SumMono
<1>9. SumOver(Q, objs) \in Nat /\ SumOver(T, objs) \in Nat
  BY <1>1, <1>2, <1>3, SumType
<1>10. QED
  BY <1>4, <1>5, <1>6, <1>7, <1>8, <1>9

\* The last row, priced from all objects, is the sum of the rows.
LEMMA LastRowIsSum ==
  ASSUME ReadInv
  PROVE  ReportedSavings(AllObjects) = Total([g \in Groups |-> ReportedSavings(ObjectsOf(g))], Groups)
<1> DEFINE O == [g \in Groups |-> ObjectsOf(g)]
           A == PartsFrom(O, Groups)
           R == RawOf(A)
           P == PriceOf(A)
           HR == [g \in Groups |-> SumOver(R, O[g])]
           HP == [g \in Groups |-> SumOver(P, O[g])]
           HR75 == [g \in Groups |-> 75 * HR[g]]
           V == [g \in Groups |-> ReportedSavings(ObjectsOf(g))]
<1>1. IsFiniteSet(Groups)
  BY DiscoveryAssumption DEF DiscoveryAssumption
<1>2. \A g \in Groups : O[g] = ObjectsOf(g) /\ SoundObjects(O[g]) /\ IsFiniteSet(O[g])
  BY ObjectsSound DEF SoundObjects
<1>3. PartsApart(O, Groups)
  <2>1. \A g \in Groups : \A p \in O[g] : KeyGroup[p[1]] = g
    BY <1>2, ObjectsSound
  <2> HIDE DEF O
  <2>2. QED BY <2>1 DEF PartsApart
<1>4. AllObjects = A
  <2>1. {O[g] : g \in Groups} = {ObjectsOf(g) : g \in Groups}
    OBVIOUS
  <2>2. QED BY <2>1 DEF AllObjects, PartsFrom
<1>5. \A g \in Groups : O[g] \in SUBSET A
  <2> HIDE DEF O
  <2> QED BY DEF PartsFrom
<1>6. \A p \in A : \E g \in Groups : p \in O[g]
  <2> HIDE DEF O
  <2> QED BY DEF PartsFrom
<1>7. \A g \in Groups : HR[g] = SumOver(R, O[g]) /\ HP[g] = SumOver(P, O[g]) /\ HR75[g] = 75 * HR[g]
  OBVIOUS
<1> HIDE DEF O, A
<1>8. \A p \in A : Obj(p) \in ObjectRecord
  BY <1>2, <1>6 DEF SoundObjects
<1>9. IsFiniteSet(A)
  <2> DEFINE U == {O[g] : g \in Groups}
             f == [g \in Groups |-> O[g]]
  <2>1. f \in Surjection(Groups, U)
    BY DEF Surjection
  <2>2. \A T \in U : IsFiniteSet(T)
    BY <1>2
  <2>3. A = UNION U
    BY DEF A, PartsFrom
  <2> HIDE DEF U, f
  <2>4. IsFiniteSet(U)
    BY <1>1, <2>1, FS_Surjection
  <2>5. QED BY <2>2, <2>3, <2>4, FS_UNION
<1>10. SoundObjects(A)
  BY <1>8, <1>9 DEF SoundObjects
<1>11. \A p \in A : R[p] \in Nat /\ P[p] \in Nat
  BY <1>10, PriceTypes
<1>12. ASSUME NEW g \in Groups
       PROVE  /\ HR[g] \in Nat /\ HP[g] \in Nat /\ HR75[g] \in Nat /\ V[g] = HR75[g] - HP[g]
  <2>1. \A p \in O[g] : RawOf(O[g])[p] = R[p] /\ PriceOf(O[g])[p] = P[p]
    BY <1>5 DEF RawOf, PriceOf
  <2>2. SumOver(RawOf(O[g]), O[g]) = SumOver(R, O[g]) /\ SumOver(PriceOf(O[g]), O[g]) = SumOver(P, O[g])
    <3> HIDE DEF R, P
    <3> QED BY <1>2, <2>1, SumEqual
  <2>3. /\ SumOver(RawOf(O[g]), O[g]) \in Nat /\ SumOver(PriceOf(O[g]), O[g]) \in Nat
        /\ ReportedSavings(O[g]) = SumOver(RawOf(O[g]), O[g]) * 75 - SumOver(PriceOf(O[g]), O[g])
    BY <1>2, SavingsOf
  <2>4. V[g] = ReportedSavings(O[g])
    BY <1>2
  <2> HIDE DEF HR, HP, HR75, V, R, P
  <2>5. QED BY <1>7, <2>2, <2>3, <2>4
<1>13. /\ ReportedSavings(A) = SumOver(R, A) * 75 - SumOver(P, A)
       /\ SumOver(R, A) \in Nat /\ SumOver(P, A) \in Nat
  BY <1>10, SavingsOf
<1>14. Total(V, Groups) = SumOver(V, Groups)
  BY TotalIsSum
<1> HIDE DEF R, P, HR, HP, HR75, V
<1>15. SumOver(R, A) = SumOver(HR, Groups) /\ SumOver(P, A) = SumOver(HP, Groups)
  <2>1. \A g \in Groups : \A p \in O[g] : R[p] \in Nat /\ P[p] \in Nat
    BY <1>5, <1>11
  <2>2. \A g \in Groups : IsFiniteSet(O[g])
    BY <1>2
  <2>3. SumOver(R, PartsFrom(O, Groups)) = SumOver(HR, Groups)
    BY <1>1, <1>3, <1>7, <2>1, <2>2, SumUnions
  <2>4. SumOver(P, PartsFrom(O, Groups)) = SumOver(HP, Groups)
    BY <1>1, <1>3, <1>7, <2>1, <2>2, SumUnions
  <2>5. QED BY <2>3, <2>4 DEF A
<1>16. SumOver(HR75, Groups) = 75 * SumOver(HR, Groups)
  BY <1>1, <1>7, <1>12, SumScale
<1>17. SumOver(V, Groups) = SumOver(HR75, Groups) - SumOver(HP, Groups)
  BY <1>1, <1>12, SumDiff
<1>18. ReportedSavings(A) = SumOver(V, Groups)
  BY <1>13, <1>15, <1>16, <1>17
<1>19. QED
  BY <1>4, <1>14, <1>18 DEF V

\* A report that is printed is right about what is archived, about what is missing and
\* about what it saves, while drains and reconciles go on: for every set of keys and
\* windows, every number of pages and of manifests written, replaced, deleted or
\* damaged meanwhile (report.rs:1-36, 76-80, 305-333).
THEOREM ReportHonestAlways == Spec => []ReportHonest
<1>1. ReadInv => ReportHonest
  <2> SUFFICES ASSUME ReadInv PROVE ReportExact /\ GapsHonest /\ SavingsLowerBound
    BY DEF ReportHonest
  <2>1. \A g \in Groups : ReportedSavings(ObjectsOf(g)) <= TrueSavings(ObjectsOf(g))
    BY ObjectsSound, SavingsAtMost
  <2>2. SavingsLowerBound
    BY <2>1, LastRowIsSum DEF SavingsLowerBound
  <2>3. QED
    BY <2>2, ReadExact, CoverageHonest
<1>2. QED
  BY <1>1, ReadInvAlways, PTL

-----------------------------------------------------------------------------
(* Part 8: the sums of a plan *)

\* The names in order, the datapoints of a query and their bytes, for the groups gs.
NamesOf(gs) == InOrder(gs, LAMBDA g, h : g < h)

PointsOf(gs, i) ==
  LET bytes == Incoming[NamesOf(gs)[i]]
  IN {[id |-> query_id(i), day |-> d, bytes |-> bytes[d]] : d \in DOMAIN bytes}

WholeOf(gs, i) == SumOver(Incoming[NamesOf(gs)[i]], DOMAIN Incoming[NamesOf(gs)[i]])

BytesIn(ps) == SumOver([p \in ps |-> p.bytes], ps)

QueriesOf(b, n) == b .. Min({b + METRIC_QUERIES_PER_CALL - 1, n})

\* The datapoints of query i that no page has had yet.
PendingIn(gs, b, a, ps, i) ==
  IF i < b THEN {}
  ELSE IF a /\ i \in QueriesOf(b, Cardinality(gs)) THEN ps \cap PointsOf(gs, i)
  ELSE PointsOf(gs, i)

\* At any time, what a query has got and what is pending add up to all of its bytes.
SumsInv ==
  /\ batch \in Nat \ {0} /\ asked \in BOOLEAN
  /\ sums \in [1 .. Cardinality(Groups) -> Nat]
  /\ asked => \A p \in points : \E i \in QueriesOf(batch, Cardinality(found)) : p \in PointsOf(found, i)
  /\ \A i \in 1 .. Cardinality(found) :
       sums[i] + BytesIn(PendingIn(found, batch, asked, points, i)) = WholeOf(found, i)

PlanInv ==
  cmd.name = "plan" =>
    /\ phase \notin {"work", "exit"} =>
         batch = 1 /\ asked = FALSE /\ sums = [i \in 1 .. Cardinality(Groups) |-> 0]
    /\ phase = "work" => SumsInv
    /\ PlanDone => SumsInv /\ ~asked /\ batch > Cardinality(found)

\* The groups in the order of their names.
LEMMA NamesListed ==
  ASSUME NEW gs \in SUBSET Groups
  PROVE  /\ IsFiniteSet(gs) /\ Cardinality(gs) \in Nat /\ Cardinality(gs) <= Cardinality(Groups)
         /\ Cardinality(Groups) \in Nat
         /\ Lists(NamesOf(gs), Cardinality(gs), gs)
<1> DEFINE R == {p \in gs \X gs : p[1] < p[2]}
           c == NamesOf(gs)
<1>1. IsFiniteSet(Groups) /\ Groups \subseteq Nat
  BY DiscoveryAssumption DEF DiscoveryAssumption
<1>2. IsFiniteSet(gs) /\ Cardinality(gs) \in Nat /\ Cardinality(gs) <= Cardinality(Groups)
      /\ Cardinality(Groups) \in Nat
  BY <1>1, FS_Subset, FS_CardinalityType
<1>3. \A g, h \in gs : (<<g, h>> \in R <=> g < h) /\ g \in Nat
  BY <1>1
<1>4. c = CHOOSE s \in SetToSeqs(gs) : \A i, k \in DOMAIN s : i < k => s[i] < s[k]
  BY DEF NamesOf, InOrder
<1> HIDE DEF R, c
<1>5. Orders(R, gs)
  <2>1. gs \subseteq Nat
    BY <1>3
  <2>2. /\ \A x \in gs : ~(x < x)
        /\ \A x, y \in gs : x # y => x < y \/ y < x
        /\ \A x, y, z \in gs : x < y /\ y < z => x < z
    BY <2>1
  <2>3. QED BY <1>3, <2>2 DEF Orders
<1>6. PICK s \in SetToSeqs(gs) : \A i, k \in DOMAIN s : i < k => <<s[i], s[k]>> \in R
  BY <1>2, <1>5, ListingExists
<1>7. \A i \in DOMAIN s : s[i] \in gs
  BY DEF SetToSeqs
<1>8. \A i, k \in DOMAIN s : i < k => s[i] < s[k]
  BY <1>3, <1>6, <1>7
<1>9. c \in SetToSeqs(gs)
  BY <1>4, <1>8
<1>10. Lists(c, Len(c), gs) /\ Len(c) = Cardinality(gs)
  BY <1>2, <1>9, ListingOnto
<1>11. QED
  BY <1>2, <1>10 DEF c

\* The datapoints of a query: finitely many, its own, and their bytes are the whole.
LEMMA PointsShape ==
  ASSUME NEW gs \in SUBSET Groups, NEW i \in 1 .. Cardinality(gs)
  PROVE  /\ IsFiniteSet(PointsOf(gs, i)) /\ \A p \in PointsOf(gs, i) : p.bytes \in Nat
         /\ \A p \in PointsOf(gs, i) : p.id = query_id(i)
         /\ BytesIn(PointsOf(gs, i)) = WholeOf(gs, i)
         /\ NamesOf(gs)[i] \in Groups
<1> DEFINE g == NamesOf(gs)[i]
           bytes == Incoming[g]
           D == DOMAIN bytes
           s == [d \in D |-> [id |-> query_id(i), day |-> d, bytes |-> bytes[d]]]
           P == PointsOf(gs, i)
           F == [p \in P |-> p.bytes]
<1>1. g \in Groups
  BY NamesListed DEF Lists
<1>2. bytes \in Seq(Nat) /\ Len(bytes) \in Nat /\ D = 1 .. Len(bytes)
  <2>1. bytes \in Seq(Nat)
    BY <1>1, PlanAssumption DEF PlanAssumption
  <2> HIDE DEF bytes
  <2>2. QED BY <2>1, LenProperties
<1>3. \A d \in D : bytes[d] \in Nat
  <2> HIDE DEF bytes
  <2> QED BY <1>2, ElementOfSeq
<1>4. IsFiniteSet(D)
  <2> DEFINE n == Len(bytes)
  <2>1. n \in Nat /\ D = 1 .. n
    BY <1>2
  <2> HIDE DEF n, D
  <2>2. QED BY <2>1, FS_Interval
<1>5. P = {s[d] : d \in D}
  BY DEF PointsOf
<1> HIDE DEF g, P
<1>6. ASSUME NEW d \in D
      PROVE  s[d] \in P /\ s[d].bytes = bytes[d] /\ s[d].day = d /\ s[d].id = query_id(i)
  <2>1. s[d] = [id |-> query_id(i), day |-> d, bytes |-> bytes[d]]
    OBVIOUS
  <2>2. s[d] \in P
    BY <1>5
  <2> HIDE DEF s, D, bytes
  <2>3. QED BY <2>1, <2>2
<1>7. \A p \in P : \E d \in D : p = s[d]
  BY <1>5
<1> HIDE DEF D, s
<1>8. \A p \in P : p.bytes \in Nat /\ p.id = query_id(i)
  BY <1>3, <1>6, <1>7
<1>9. \A d, e \in D : s[d] = s[e] => d = e
  BY <1>6
<1>10. \A d \in D : bytes[d] \in Nat /\ bytes[d] = F[s[d]]
  BY <1>3, <1>6
<1>11. IsFiniteSet({s[d] : d \in D}) /\ SumOver(bytes, D) = SumOver(F, {s[d] : d \in D})
  <2> HIDE DEF F, bytes
  <2> QED BY <1>4, <1>9, <1>10, SumImage
<1>12. IsFiniteSet(P) /\ SumOver(bytes, D) = SumOver(F, P)
  BY <1>5, <1>11
<1>13. BytesIn(P) = SumOver(F, P) /\ WholeOf(gs, i) = SumOver(bytes, D)
  BY DEF BytesIn, WholeOf, D, g
<1>14. QED
  BY <1>1, <1>8, <1>12, <1>13 DEF P, g

\* Bytes that a page takes away.
LEMMA BytesSplit ==
  ASSUME NEW S, IsFiniteSet(S), \A p \in S : p.bytes \in Nat, NEW T \in SUBSET S,
         NEW X, T \in SUBSET X
  PROVE  /\ BytesIn(S) = BytesIn(T) + BytesIn(S \ T)
         /\ BytesIn(T) = SumOver([p \in X |-> p.bytes], T)
         /\ BytesIn(T) \in Nat /\ BytesIn(S \ T) \in Nat
<1> DEFINE F == [p \in S |-> p.bytes]
           FT == [p \in T |-> p.bytes]
           FX == [p \in X |-> p.bytes]
           U == S \ T
           FU == [p \in U |-> p.bytes]
<1>1. /\ \A p \in S : F[p] \in Nat
      /\ \A p \in T : FT[p] = F[p] /\ FT[p] = FX[p]
      /\ \A p \in U : FU[p] = F[p]
  OBVIOUS
<1>2. /\ BytesIn(S) = SumOver(F, S) /\ BytesIn(T) = SumOver(FT, T) /\ BytesIn(U) = SumOver(FU, U)
  BY DEF BytesIn
<1>3. IsFiniteSet(T) /\ IsFiniteSet(U) /\ U \in SUBSET S
  BY FS_Subset
<1> HIDE DEF F, FT, FX, FU
<1>4. SumOver(F, S) = SumOver(F, T) + SumOver(F, U) /\ SumOver(F, T) \in Nat /\ SumOver(F, U) \in Nat
  BY <1>1, SumSplit
<1>5. SumOver(FT, T) = SumOver(F, T) /\ SumOver(FT, T) = SumOver(FX, T)
  BY <1>1, <1>3, SumEqual
<1> HIDE DEF U
<1>6. SumOver(FU, U) = SumOver(F, U)
  BY <1>1, <1>3, SumEqual
<1>7. QED
  BY <1>2, <1>4, <1>5, <1>6 DEF U, FX

\* A pending datapoint is one of its query.
LEMMA PendingShape ==
  ASSUME NEW gs \in SUBSET Groups, NEW i \in 1 .. Cardinality(gs), NEW b, NEW a, NEW ps
  PROVE  LET S == PendingIn(gs, b, a, ps, i)
         IN /\ S \in SUBSET PointsOf(gs, i) /\ IsFiniteSet(S)
            /\ \A p \in S : p.bytes \in Nat /\ p.id = query_id(i)
<1>1. PendingIn(gs, b, a, ps, i) \in SUBSET PointsOf(gs, i)
  BY DEF PendingIn
<1>2. QED
  BY <1>1, PointsShape, FS_Subset

\* The queries of a call.
LEMMA QueryRange ==
  ASSUME NEW b \in Nat \ {0}, NEW n \in Nat
  PROVE  \A i : i \in QueriesOf(b, n) <=> i \in 1 .. n /\ b <= i /\ i < b + METRIC_QUERIES_PER_CALL
<1> DEFINE m == METRIC_QUERIES_PER_CALL
           x == b + m - 1
<1>1. m \in Nat /\ m # 0
  BY PlanAssumption DEF PlanAssumption
<1>2. Min({x, n}) = IF x <= n THEN x ELSE n
  BY <1>1, OfTwo
<1>3. QueriesOf(b, n) = b .. (IF x <= n THEN x ELSE n)
  BY <1>2 DEF QueriesOf
<1> HIDE DEF m
<1>4. QED
  BY <1>1, <1>3 DEF m

LEMMA AskMetricsInv ==
  ASSUME DiscoveryInv, SumsInv, AskMetrics PROVE SumsInv'
<1> DEFINE n == Cardinality(found)
           Q == QueriesOf(batch, n)
<1>1. /\ found \in SUBSET Groups /\ batch \in Nat \ {0} /\ ~asked /\ asked'
      /\ UNCHANGED <<found, batch, sums>> /\ asked' \in BOOLEAN
      /\ points' = UNION {Datapoints(i) : i \in Queries}
  BY DEF AskMetrics, SumsInv, DiscoveryInv, discovery
<1>2. Queries = Q /\ \A i : Datapoints(i) = PointsOf(found, i)
  BY DEF Queries, QueriesOf, Datapoints, PointsOf, Names, NamesOf
<1>3. \A p : p \in points' <=> \E i \in Q : p \in PointsOf(found, i)
  BY <1>1, <1>2
<1> HIDE DEF Q
<1>4. ASSUME NEW i \in 1 .. n
      PROVE  PendingIn(found, batch, TRUE, points', i) = PendingIn(found, batch, FALSE, points, i)
  <2>1. i \in Q => points' \cap PointsOf(found, i) = PointsOf(found, i)
    BY <1>3
  <2>2. QED
    BY <2>1 DEF PendingIn, Q
<1>5. asked = FALSE /\ asked' = TRUE
  BY <1>1 DEF SumsInv
<1>6. QED
  BY <1>1, <1>3, <1>4, <1>5 DEF SumsInv, Q

\* A page moves bytes from what is pending to the sums.
LEMMA MetricPageInv ==
  ASSUME DiscoveryInv, SumsInv, NEW page \in SUBSET points, MetricPage(page) PROVE SumsInv'
<1> DEFINE n == Cardinality(found)
           m == METRIC_QUERIES_PER_CALL
           Q == QueriesOf(batch, n)
           Of(i) == {p \in page : i \in parse_query_id(p.id)}
           Old(i) == PendingIn(found, batch, asked, points, i)
           New(i) == PendingIn(found, batch', asked', points', i)
<1>1. /\ found \in SUBSET Groups /\ batch \in Nat \ {0} /\ asked = TRUE /\ UNCHANGED found
      /\ sums \in [1 .. Cardinality(Groups) -> Nat]
      /\ points' = points \ page
      /\ \/ asked' = asked /\ batch' = batch
         \/ points' = {} /\ asked' = FALSE /\ batch' = batch + m
      /\ sums' = [i \in 1 .. Cardinality(Groups) |-> Added(i, page)]
  BY DEF MetricPage, SumsInv, DiscoveryInv, discovery
<1>2. /\ IsFiniteSet(found) /\ n \in Nat /\ n <= Cardinality(Groups) /\ Cardinality(Groups) \in Nat
      /\ m \in Nat /\ m # 0
  BY <1>1, NamesListed, PlanAssumption DEF PlanAssumption
<1>3. \A i : i \in Q <=> i \in 1 .. n /\ batch <= i /\ i < batch + m
  BY <1>1, <1>2, QueryRange
<1>4. \A p \in points : \E i \in Q : p \in PointsOf(found, i)
  BY <1>1 DEF SumsInv
<1>5. \A i, k : k \in parse_query_id(query_id(i)) <=> k = i
  BY DEF parse_query_id, query_id
<1> HIDE DEF n, m, Q
<1>6. ASSUME NEW i, NEW p \in points
      PROVE  i \in parse_query_id(p.id) <=> i \in Q /\ p \in PointsOf(found, i)
  <2>1. PICK k \in Q : p \in PointsOf(found, k)
    BY <1>4
  <2>2. p.id = query_id(k)
    BY <1>1, <1>3, <2>1, PointsShape DEF n
  <2>3. i \in Q /\ p \in PointsOf(found, i) => p.id = query_id(i)
    BY <1>1, <1>3, PointsShape DEF n
  <2>4. i \in parse_query_id(p.id) <=> i = k
    BY <1>5, <2>2
  <2>5. i \in Q /\ p \in PointsOf(found, i) => i \in parse_query_id(p.id)
    BY <1>5, <2>3
  <2>6. QED
    BY <2>1, <2>4, <2>5
<1>7. ASSUME NEW i \in 1 .. n
      PROVE  Of(i) \in SUBSET Old(i) /\ New(i) = Old(i) \ Of(i)
  <2>0. i \in Nat
    BY <1>2
  <2>1. CASE i \in Q
    <3>1. batch <= i /\ i < batch + m
      BY <1>3, <2>1
    <3>2. Old(i) = points \cap PointsOf(found, i)
      BY <1>1, <2>0, <2>1, <3>1 DEF PendingIn, n, Q
    <3>3. Of(i) = page \cap PointsOf(found, i)
      BY <1>6, <2>1
    <3>4. New(i) = points' \cap PointsOf(found, i)
      <4>1. CASE asked' = asked /\ batch' = batch
        BY <1>1, <2>0, <2>1, <3>1, <4>1 DEF PendingIn, n, Q
      <4>2. CASE points' = {} /\ asked' = FALSE /\ batch' = batch + m
        BY <3>1, <4>2 DEF PendingIn
      <4>3. QED BY <1>1, <4>1, <4>2
    <3> HIDE DEF Old, New, Of
    <3>5. QED BY <1>1, <3>2, <3>3, <3>4
  <2>2. CASE i \notin Q
    <3>1. i < batch \/ ~(i < batch + m)
      BY <1>1, <1>2, <1>3, <2>0, <2>2
    <3>2. Of(i) = {}
      BY <1>6, <2>2
    <3>3. New(i) = Old(i)
      <4>1. CASE asked' = asked /\ batch' = batch
        BY <1>1, <2>2, <4>1 DEF PendingIn, n, Q
      <4>2. CASE points' = {} /\ asked' = FALSE /\ batch' = batch + m
        <5>1. i < batch <=> i < batch + m
          BY <1>1, <1>2, <2>0, <3>1
        <5>2. QED BY <2>2, <4>2, <5>1 DEF PendingIn, n, Q
      <4>3. QED BY <1>1, <4>1, <4>2
    <3> HIDE DEF Old, New, Of
    <3>4. QED BY <3>2, <3>3
  <2>3. QED BY <2>1, <2>2
<1>8. ASSUME NEW i \in 1 .. n
      PROVE  /\ sums'[i] \in Nat
             /\ sums'[i] + BytesIn(New(i)) = WholeOf(found, i)
  <2>1. i \in 1 .. Cardinality(Groups) /\ sums[i] \in Nat
    BY <1>1, <1>2
  <2>2. sums'[i] = sums[i] + SumOver([p \in page |-> p.bytes], Of(i))
    BY <1>1, <2>1, TotalIsSum DEF Added
  <2>3. IsFiniteSet(Old(i)) /\ \A p \in Old(i) : p.bytes \in Nat
    BY <1>1, PendingShape DEF n
  <2>4. sums[i] + BytesIn(Old(i)) = WholeOf(found, i)
    BY DEF SumsInv, n
  <2>5. Of(i) \in SUBSET Old(i) /\ Of(i) \in SUBSET page /\ New(i) = Old(i) \ Of(i)
    BY <1>7
  <2> HIDE DEF Old, New, Of
  <2>6. /\ BytesIn(Old(i)) = BytesIn(Of(i)) + BytesIn(Old(i) \ Of(i))
        /\ BytesIn(Of(i)) = SumOver([p \in page |-> p.bytes], Of(i))
        /\ BytesIn(Of(i)) \in Nat /\ BytesIn(Old(i) \ Of(i)) \in Nat
    BY <2>3, <2>5, BytesSplit
  <2>7. sums'[i] = sums[i] + BytesIn(Of(i)) /\ BytesIn(Old(i)) = BytesIn(Of(i)) + BytesIn(New(i))
    BY <2>2, <2>5, <2>6
  <2>8. QED
    BY <2>1, <2>4, <2>5, <2>6, <2>7
<1>9. sums' \in [1 .. Cardinality(Groups) -> Nat]
  <2>1. ASSUME NEW i \in 1 .. Cardinality(Groups) PROVE sums'[i] \in Nat
    <3>1. CASE i \in 1 .. n
      BY <1>8, <3>1
    <3>2. CASE i \notin 1 .. n
      <4>1. Of(i) = {}
        BY <1>3, <1>6, <3>2
      <4>2. sums'[i] = sums[i] + SumOver([p \in page |-> p.bytes], Of(i)) /\ sums[i] \in Nat
        BY <1>1, TotalIsSum DEF Added
      <4> HIDE DEF Of
      <4>3. sums'[i] = sums[i] + 0
        BY <4>1, <4>2, SumEmpty
      <4>4. QED BY <4>2, <4>3
    <3>3. QED BY <3>1, <3>2
  <2>2. sums' = [i \in 1 .. Cardinality(Groups) |-> sums'[i]]
    BY <1>1
  <2>3. QED BY <2>1, <2>2
<1>10. batch' \in Nat \ {0} /\ asked' \in BOOLEAN
  <2>1. asked' = TRUE \/ asked' = FALSE
    BY <1>1
  <2>2. batch' = batch \/ batch' = batch + m
    BY <1>1
  <2>3. batch' \in Nat \ {0}
    BY <1>1, <1>2, <2>2
  <2>4. QED BY <2>1, <2>3
<1>11. asked' => \A p \in points' : \E i \in QueriesOf(batch', n) : p \in PointsOf(found, i)
  BY <1>1, <1>4 DEF Q
<1>12. QED
  BY <1>1, <1>8, <1>9, <1>10, <1>11 DEF SumsInv, n

\* When discovery is done everything is pending.
LEMMA NothingAsked ==
  ASSUME DiscoveryInv', batch' = 1, asked' = FALSE, sums' = [i \in 1 .. Cardinality(Groups) |-> 0]
  PROVE  SumsInv'
<1> DEFINE n == Cardinality(found')
<1>1. found' \in SUBSET Groups
  BY DEF DiscoveryInv
<1>2. n \in Nat /\ n <= Cardinality(Groups) /\ Cardinality(Groups) \in Nat
  BY <1>1, NamesListed
<1>3. ASSUME NEW i \in 1 .. n
      PROVE  sums'[i] + BytesIn(PendingIn(found', batch', asked', points', i)) = WholeOf(found', i)
  <2>1. sums'[i] = 0
    BY <1>2
  <2>2. PendingIn(found', batch', asked', points', i) = PointsOf(found', i)
    BY <1>2 DEF PendingIn
  <2>3. BytesIn(PointsOf(found', i)) = WholeOf(found', i)
    BY <1>1, PointsShape
  <2>4. BytesIn(PointsOf(found', i)) \in Nat
    <3>1. IsFiniteSet(PointsOf(found', i)) /\ \A p \in PointsOf(found', i) : p.bytes \in Nat
      BY <1>1, PointsShape
    <3>2. QED BY <3>1, SumType DEF BytesIn
  <2>5. QED BY <2>1, <2>2, <2>3, <2>4
<1>4. batch' \in Nat \ {0} /\ asked' \in BOOLEAN /\ sums' \in [1 .. Cardinality(Groups) -> Nat]
  <2>1. sums' \in [1 .. Cardinality(Groups) -> Nat]
    OBVIOUS
  <2>2. batch' \in Nat \ {0}
    OBVIOUS
  <2>3. asked' \in BOOLEAN
    OBVIOUS
  <2>4. QED BY <2>1, <2>2, <2>3
<1>5. ~asked'
  OBVIOUS
<1>6. QED
  BY <1>3, <1>4, <1>5 DEF SumsInv

\* What the other commands do does not matter to a plan.
LEMMA PlanFrame ==
  ASSUME DiscoveryInv, DiscoveryInv', PlanInv, UNCHANGED <<cmd, planVars>>,
         \/ UNCHANGED <<phase, code, found>>
         \/ cmd.name # "plan"
         \/ phase \notin {"work", "exit"} /\ (phase' = "exit" => code' # 0)
         \/ phase' = "exit" /\ code' # 0
  PROVE  PlanInv'
<1>1. UNCHANGED <<batch, points, asked, sums>>
  BY DEF planVars
<1>2. CASE UNCHANGED <<phase, code, found>>
  <2>1. (SumsInv' <=> SumsInv) /\ (PlanDone' <=> PlanDone)
    BY <1>1, <1>2 DEF SumsInv, PlanDone
  <2>2. QED
    BY <1>1, <1>2, <2>1 DEF PlanInv
<1>3. CASE cmd.name # "plan"
  BY <1>3 DEF PlanInv
<1>4. CASE cmd.name = "plan" /\ phase \notin {"work", "exit"} /\ (phase' = "exit" => code' # 0)
  <2>1. batch = 1 /\ asked = FALSE /\ sums = [i \in 1 .. Cardinality(Groups) |-> 0]
    BY <1>4 DEF PlanInv
  <2>2. batch' = 1 /\ asked' = FALSE /\ sums' = [i \in 1 .. Cardinality(Groups) |-> 0]
    BY <1>1, <2>1
  <2>3. SumsInv'
    BY <2>2, NothingAsked
  <2>4. ~PlanDone'
    BY <1>4 DEF PlanDone
  <2>5. QED
    BY <2>2, <2>3, <2>4 DEF PlanInv
<1>5. CASE phase' = "exit" /\ code' # 0
  BY <1>5 DEF PlanInv, PlanDone
<1>6. QED
  BY <1>2, <1>3, <1>4, <1>5

LEMMA PlanInvAlways == Spec => [](DiscoveryInv /\ PlanInv)
<1>1. Init => PlanInv
  BY DEF Init, InitDiscovery, InitPlan, PlanInv, PlanDone
<1>2. DiscoveryInv /\ DiscoveryInv' /\ DrainCommandInv /\ PlanInv /\ [Next]_vars => PlanInv'
  <2> SUFFICES ASSUME DiscoveryInv, DiscoveryInv', DrainCommandInv, PlanInv, [Next]_vars PROVE PlanInv'
    OBVIOUS
  <2>1. CASE UNCHANGED vars
    <3>1. UNCHANGED <<cmd, planVars, phase, code, found>>
      BY <2>1 DEF vars, discovery
    <3>2. QED BY <3>1, PlanFrame
  <2>2. CASE DiscoveryStep /\ UNCHANGED planVars
    <3>1. /\ UNCHANGED cmd /\ phase \in {"start", "list"}
          /\ cmd.name = "plan" /\ phase' = "exit" => code' # 0
      BY <2>2 DEF DiscoveryStep, UsageError, StartListing, ExactSource, ListPage, DescribePage,
           ListThrottled, ListFails, Discovered, Exit
    <3>2. QED
      BY <2>2, <3>1, PlanFrame
  <2>3. CASE DrainStep /\ UNCHANGED planVars
    <3>1. /\ UNCHANGED <<cmd, found>>
          /\ \/ UNCHANGED <<phase, code>>
             \/ phase = "work" /\ IsDrain
             \/ phase = "gate"
      BY <2>3 DEF DrainStep, StartGroup, DescribeGroup, SkipWindow, PageWindow, JobThrottled,
           JobSucceeds, JobFails, JobsEnd, EnterGate, PlanRetention, PutRetention, PutThrottled,
           GateFails, EndDrain, Exit, discovery
    <3>2. phase = "gate" => IsDrain
      BY DEF DrainCommandInv, PassInv
    <3>3. IsDrain => cmd.name # "plan"
      BY DEF IsDrain
    <3>4. QED
      BY <2>3, <3>1, <3>2, <3>3, PlanFrame
  <2>4. CASE ReportStep /\ UNCHANGED planVars
    <3>1. UNCHANGED cmd /\ cmd.name # "plan"
      BY <2>4 DEF ReportStep, StartReport, ListKeys, ReadManifest, ReportFails, EndReport, Exit,
           discovery, DiscoveryInv
    <3>2. QED BY <2>4, <3>1, PlanFrame
  <2>5. CASE (\E g \in Groups : Churn(g)) /\ UNCHANGED planVars
    <3>1. UNCHANGED <<cmd, phase, code, found>>
      BY <2>5 DEF Churn
    <3>2. QED BY <2>5, <3>1, PlanFrame
  <2>6. CASE (\E k \in Keys, v \in {Absent, 1, 2, Damaged} : WriteManifest(k, v)) /\ UNCHANGED planVars
    <3>1. UNCHANGED <<cmd, phase, code, found>>
      BY <2>6 DEF WriteManifest, discovery
    <3>2. QED BY <2>6, <3>1, PlanFrame
  <2>7. CASE AskMetrics
    <3>1. phase = "work" /\ phase' = "work" /\ cmd' = cmd /\ cmd.name = "plan"
      BY <2>7 DEF AskMetrics, discovery
    <3>2. SumsInv'
      BY <2>7, <3>1, AskMetricsInv DEF PlanInv
    <3>3. QED BY <3>1, <3>2 DEF PlanInv, PlanDone
  <2>8. CASE \E page \in SUBSET points : MetricPage(page)
    <3>1. phase = "work" /\ phase' = "work" /\ cmd' = cmd /\ cmd.name = "plan"
      BY <2>8 DEF MetricPage, discovery
    <3>2. SumsInv'
      BY <2>8, <3>1, MetricPageInv DEF PlanInv
    <3>3. QED BY <3>1, <3>2 DEF PlanInv, PlanDone
  <2>9. CASE MetricFails
    BY <2>9, PlanFrame DEF MetricFails, Exit
  <2>10. CASE EndPlan
    <3>1. /\ phase = "work" /\ phase' = "exit" /\ cmd.name = "plan" /\ ~asked /\ batch > Cardinality(found)
          /\ UNCHANGED <<cmd, found, batch, points, asked, sums>>
      BY <2>10 DEF EndPlan, Exit, planVars
    <3>2. SumsInv'
      BY <3>1 DEF PlanInv, SumsInv
    <3>3. QED BY <3>1, <3>2 DEF PlanInv
  <2>11. QED
    BY <2>1, <2>2, <2>3, <2>4, <2>5, <2>6, <2>7, <2>8, <2>9, <2>10
       DEF Next, Step, Meanwhile, PlanStep
<1>3. QED
  BY <1>1, <1>2, DrainCommandInvAlways, PTL DEF Spec

\* A plan that ends has all the bytes.
LEMMA SumsDone ==
  ASSUME DiscoveryInv, PlanInv, PlanDone
  PROVE  \A i \in 1 .. Cardinality(found) :
           sums[i] \in Nat /\ sums[i] = Total(Incoming[Names[i]], DOMAIN Incoming[Names[i]])
<1> SUFFICES ASSUME NEW i \in 1 .. Cardinality(found)
             PROVE  sums[i] \in Nat /\ sums[i] = Total(Incoming[Names[i]], DOMAIN Incoming[Names[i]])
  OBVIOUS
<1>1. SumsInv /\ batch > Cardinality(found) /\ found \in SUBSET Groups
  BY DEF PlanInv, PlanDone, DiscoveryInv
<1>2. Cardinality(found) \in Nat /\ Cardinality(found) <= Cardinality(Groups) /\ Cardinality(Groups) \in Nat
  BY <1>1, NamesListed
<1>3. i < batch /\ sums[i] \in Nat
  BY <1>1, <1>2 DEF SumsInv
<1>4. PendingIn(found, batch, asked, points, i) = {}
  BY <1>3 DEF PendingIn
<1>5. BytesIn({}) = 0
  BY SumEmpty DEF BytesIn
<1>6. sums[i] = WholeOf(found, i)
  BY <1>1, <1>3, <1>4, <1>5 DEF SumsInv
<1>7. WholeOf(found, i) = Total(Incoming[Names[i]], DOMAIN Incoming[Names[i]])
  BY TotalIsSum DEF WholeOf, Names, NamesOf
<1>8. QED
  BY <1>3, <1>6, <1>7

-----------------------------------------------------------------------------
(* Part 9: the table of a plan *)

\* The amounts of a row: multiples of its bytes.
CostOf(x, y) == x * 3000 * ingest_days + y * 50000 * 30

StorageCost == 3000 * ingest_days
IngestCost == 50000 * 30
StorageSaved == 1505 * ingest_days
IngestSaved == 45000 * 30

LEMMA RowAmounts ==
  ASSUME NEW x \in Nat, NEW y \in Nat
  PROVE  /\ CostOf(x, y) = StorageCost * x + IngestCost * y
         /\ Savings(x, y) = StorageSaved * x + IngestSaved * y
         /\ StorageCost * x \in Nat /\ IngestCost * y \in Nat
         /\ StorageSaved * x \in Nat /\ IngestSaved * y \in Nat
         /\ CostOf(x, y) \in Nat /\ Savings(x, y) \in Nat /\ Savings(x, y) <= CostOf(x, y)
<1> DEFINE d == ingest_days
           z == d * x
<1>1. d \in Nat
  BY PlanAssumption DEF PlanAssumption
<1> HIDE DEF d
<1>2. z \in Nat
  BY <1>1
<1>3. /\ (3000 * d) * x = 3000 * z /\ (1505 * d) * x = 1505 * z
      /\ x * 3000 * d = 3000 * z /\ (x * 3000 - x * 65 * 23) * d = 1505 * z
  BY <1>1
<1> HIDE DEF z
<1>4. /\ StorageCost * x = 3000 * z /\ StorageSaved * x = 1505 * z
      /\ CostOf(x, y) = 3000 * z + y * 50000 * 30
      /\ Savings(x, y) = 1505 * z + y * 45000 * 30
  BY <1>3 DEF StorageCost, StorageSaved, CostOf, Savings, d
<1>5. QED
  BY <1>2, <1>4 DEF IngestCost, IngestSaved

LEMMA Multiples ==
  StorageCost \in Nat /\ IngestCost \in Nat /\ StorageSaved \in Nat /\ IngestSaved \in Nat
BY PlanAssumption DEF PlanAssumption, StorageCost, IngestCost, StorageSaved, IngestSaved

\* F is a times X and b times Y.
Mixes(S, F, a, X, b, Y) ==
  \A r \in S : /\ X[r] \in Nat /\ Y[r] \in Nat /\ F[r] \in Nat
               /\ a * X[r] \in Nat /\ b * Y[r] \in Nat
               /\ F[r] = a * X[r] + b * Y[r]

\* A sum of such multiples is the multiple of the sums.
LEMMA SumOfMultiples ==
  ASSUME NEW S, IsFiniteSet(S), NEW a \in Nat, NEW b \in Nat, NEW X, NEW Y, NEW F,
         Mixes(S, F, a, X, b, Y)
  PROVE  SumOver(F, S) = a * SumOver(X, S) + b * SumOver(Y, S)
<1> DEFINE G == [r \in S |-> a * X[r]]
           H == [r \in S |-> b * Y[r]]
<1>1. \A r \in S : /\ G[r] = a * X[r] /\ H[r] = b * Y[r] /\ G[r] \in Nat /\ H[r] \in Nat
                   /\ X[r] \in Nat /\ Y[r] \in Nat /\ F[r] \in Nat /\ F[r] = G[r] + H[r]
  BY DEF Mixes
<1> HIDE DEF G, H
<1>2. SumOver(G, S) = a * SumOver(X, S)
  BY <1>1, SumScale
<1>3. SumOver(H, S) = b * SumOver(Y, S)
  BY <1>1, SumScale
<1>4. SumOver(F, S) = SumOver(G, S) + SumOver(H, S)
  BY <1>1, SumAdd
<1>5. QED
  BY <1>2, <1>3, <1>4

RowRecord == [name: Groups, stored: Nat, ingest: Nat, cost: Nat, savings: Nat]

SoundRow(r) ==
  /\ r \in RowRecord
  /\ r.cost = CostOf(r.stored, r.ingest) /\ r.savings = Savings(r.stored, r.ingest)

\* One row for each group.
LEMMA RowsShape ==
  ASSUME DiscoveryInv, PlanInv, PlanDone
  PROVE  /\ IsFiniteSet(Rows) /\ Cardinality(Rows) = Cardinality(found)
         /\ \A r \in Rows : SoundRow(r)
         /\ \A q, r \in Rows : q.name = r.name => q = r
         /\ {r.name : r \in Rows} = found
<1> DEFINE n == Cardinality(found)
           D == 1 .. n
           R(i) == Row(Names[i], Max({0, Stored[Names[i]]}), sums[i])
           f == [i \in D |-> R(i)]
<1>1. found \in SUBSET Groups
  BY DEF DiscoveryInv
<1>2. n \in Nat /\ Lists(Names, n, found)
  BY <1>1, NamesListed DEF Names, NamesOf
<1> HIDE DEF n
<1>3. /\ \A i \in D : Names[i] \in found /\ Names[i] \in Groups
      /\ \A i, k \in D : i # k => Names[i] # Names[k]
      /\ \A g \in found : \E i \in D : Names[i] = g
  BY <1>1, <1>2 DEF Lists
<1>4. ASSUME NEW i \in D PROVE R(i).name = Names[i] /\ SoundRow(R(i))
  <2> DEFINE x == Max({0, Stored[Names[i]]})
             y == sums[i]
  <2>1. Stored[Names[i]] \in Int
    BY <1>3, PlanAssumption DEF PlanAssumption
  <2>2. x \in Nat
    <3> DEFINE v == Stored[Names[i]]
    <3>1. v \in Int
      BY <2>1
    <3> HIDE DEF v
    <3>2. Max({0, v}) = IF 0 <= v THEN v ELSE 0
      BY <3>1, OfTwo
    <3>3. Max({0, v}) \in Nat
      BY <3>1, <3>2
    <3>4. QED BY <3>3 DEF v
  <2>3. y \in Nat
    BY SumsDone DEF n
  <2>4. R(i) = [name |-> Names[i], stored |-> x, ingest |-> y,
                cost |-> CostOf(x, y), savings |-> Savings(x, y)]
    BY DEF Row, CostOf
  <2> HIDE DEF x, y, R
  <2>5. CostOf(x, y) \in Nat /\ Savings(x, y) \in Nat
    BY <2>2, <2>3, RowAmounts
  <2>6. /\ R(i).name = Names[i] /\ R(i).stored = x /\ R(i).ingest = y
        /\ R(i).cost = CostOf(x, y) /\ R(i).savings = Savings(x, y)
    BY <2>4
  <2>7. R(i) \in RowRecord
    BY <1>3, <2>2, <2>3, <2>4, <2>5 DEF RowRecord
  <2>8. QED
    BY <2>6, <2>7 DEF SoundRow
<1>5. Rows = {R(i) : i \in D}
  BY DEF Rows, n
<1> HIDE DEF R, D
<1>6. \A r \in Rows : \E i \in D : r = R(i)
  BY <1>5
<1>7. \A i \in D : R(i) \in Rows
  BY <1>5
<1>8. f \in Bijection(D, Rows)
  <2>1. f \in [D -> Rows]
    BY <1>7
  <2>2. \A i, k \in D : f[i] = f[k] => i = k
    BY <1>3, <1>4
  <2>3. \A r \in Rows : \E i \in D : f[i] = r
    BY <1>6
  <2>4. QED BY <2>1, <2>2, <2>3 DEF Bijection, Injection, Surjection, IsInjective
<1>9. IsFiniteSet(D) /\ Cardinality(D) = n
  BY <1>2, FS_Interval DEF D
<1>10. IsFiniteSet(Rows) /\ Cardinality(Rows) = n
  <2>1. ExistsBijection(D, Rows)
    BY <1>8 DEF ExistsBijection
  <2>2. QED BY <1>9, <2>1, FS_Bijection
<1>11. \A q, r \in Rows : q.name = r.name => q = r
  BY <1>3, <1>4, <1>6
<1>12. {r.name : r \in Rows} = found
  BY <1>3, <1>4, <1>6, <1>7
<1>13. QED
  BY <1>4, <1>6, <1>10, <1>11, <1>12 DEF n

\* The rows, sorted.
LEMMA TableLists ==
  ASSUME DiscoveryInv, PlanInv, PlanDone
  PROVE  /\ Lists(Table, Len(Table), Rows) /\ Len(Table) = Cardinality(found)
         /\ \A i, k \in 1 .. Len(Table) : i < k => Table[i].cost >= Table[k].cost
<1> DEFINE R == {p \in Rows \X Rows : Costlier(p[1], p[2])}
           c == Table
<1>1. /\ IsFiniteSet(Rows) /\ Cardinality(Rows) = Cardinality(found)
      /\ \A r \in Rows : SoundRow(r)
      /\ \A q, r \in Rows : q.name = r.name => q = r
  BY RowsShape
<1>2. \A r \in Rows : r.cost \in Nat /\ r.name \in Nat
  <2>1. Groups \subseteq Nat
    BY DiscoveryAssumption DEF DiscoveryAssumption
  <2>2. \A r \in Rows : r \in RowRecord
    BY <1>1 DEF SoundRow
  <2>3. \A r \in RowRecord : r.cost \in Nat /\ r.name \in Groups
    BY DEF RowRecord
  <2>4. QED BY <2>1, <2>2, <2>3
<1>3. \A q, r \in Rows : <<q, r>> \in R <=> Costlier(q, r)
  OBVIOUS
<1>4. c = CHOOSE s \in SetToSeqs(Rows) : \A i, k \in DOMAIN s : i < k => Costlier(s[i], s[k])
  BY DEF Table, InOrder
<1> HIDE DEF R, c
<1>5. Orders(R, Rows)
  <2>1. \A q \in Rows : ~Costlier(q, q)
    BY <1>2 DEF Costlier
  <2>2. \A q, r \in Rows : q # r => Costlier(q, r) \/ Costlier(r, q)
    <3> SUFFICES ASSUME NEW q \in Rows, NEW r \in Rows, q # r PROVE Costlier(q, r) \/ Costlier(r, q)
      OBVIOUS
    <3>1. q.name # r.name
      BY <1>1
    <3>2. QED BY <1>2, <3>1 DEF Costlier
  <2>3. \A p, q, r \in Rows : Costlier(p, q) /\ Costlier(q, r) => Costlier(p, r)
    BY <1>2 DEF Costlier
  <2>4. QED BY <1>3, <2>1, <2>2, <2>3 DEF Orders
<1>6. PICK s \in SetToSeqs(Rows) : \A i, k \in DOMAIN s : i < k => <<s[i], s[k]>> \in R
  BY <1>1, <1>5, ListingExists
<1>7. \A i \in DOMAIN s : s[i] \in Rows
  BY DEF SetToSeqs
<1>8. \A i, k \in DOMAIN s : i < k => Costlier(s[i], s[k])
  BY <1>3, <1>6, <1>7
<1>9. c \in SetToSeqs(Rows) /\ \A i, k \in DOMAIN c : i < k => Costlier(c[i], c[k])
  BY <1>4, <1>8
<1>10. Lists(c, Len(c), Rows) /\ Len(c) = Cardinality(Rows)
  BY <1>1, <1>9, ListingOnto
<1>11. DOMAIN c = 1 .. Len(c) /\ \A i \in 1 .. Len(c) : c[i] \in Rows
  BY <1>10 DEF Lists
<1>12. \A i, k \in 1 .. Len(c) : i < k => c[i].cost >= c[k].cost
  <2> SUFFICES ASSUME NEW i \in 1 .. Len(c), NEW k \in 1 .. Len(c), i < k PROVE c[i].cost >= c[k].cost
    OBVIOUS
  <2>1. Costlier(c[i], c[k]) /\ c[i].cost \in Nat /\ c[k].cost \in Nat
    BY <1>2, <1>9, <1>11
  <2>2. QED BY <2>1 DEF Costlier
<1>13. QED
  BY <1>1, <1>10, <1>12 DEF c

LEMMA LastRowOfPlan ==
  ASSUME DiscoveryInv, PlanInv, PlanDone
  PROVE  /\ TotalRow.cost = SumOver([r \in Rows |-> r.cost], Rows)
         /\ TotalRow.savings = SumOver([r \in Rows |-> r.savings], Rows)
<1> DEFINE X == [r \in Rows |-> r.stored]
           Y == [r \in Rows |-> r.ingest]
           C == [r \in Rows |-> r.cost]
           V == [r \in Rows |-> r.savings]
           x == SumOver(X, Rows)
           y == SumOver(Y, Rows)
<1>1. IsFiniteSet(Rows) /\ \A r \in Rows : SoundRow(r)
  BY RowsShape
<1>2. TotalRow = Row(Main, x, y)
  BY TotalIsSum DEF TotalRow
<1>3. ASSUME NEW r \in Rows
      PROVE  /\ X[r] \in Nat /\ Y[r] \in Nat /\ C[r] \in Nat /\ V[r] \in Nat
             /\ StorageCost * X[r] \in Nat /\ IngestCost * Y[r] \in Nat
             /\ C[r] = StorageCost * X[r] + IngestCost * Y[r]
             /\ StorageSaved * X[r] \in Nat /\ IngestSaved * Y[r] \in Nat
             /\ V[r] = StorageSaved * X[r] + IngestSaved * Y[r]
  <2>1. SoundRow(r)
    BY <1>1
  <2>2. r.stored \in Nat /\ r.ingest \in Nat /\ r.cost \in Nat /\ r.savings \in Nat
    BY <2>1 DEF SoundRow, RowRecord
  <2>3. r.cost = CostOf(r.stored, r.ingest) /\ r.savings = Savings(r.stored, r.ingest)
    BY <2>1 DEF SoundRow
  <2>4. X[r] = r.stored /\ Y[r] = r.ingest /\ C[r] = r.cost /\ V[r] = r.savings
    OBVIOUS
  <2> DEFINE a == r.stored
             b == r.ingest
  <2>5. a \in Nat /\ b \in Nat
    BY <2>2
  <2> HIDE DEF X, Y, C, V, a, b
  <2>6. /\ CostOf(a, b) = StorageCost * a + IngestCost * b
        /\ Savings(a, b) = StorageSaved * a + IngestSaved * b
        /\ StorageCost * a \in Nat /\ IngestCost * b \in Nat
        /\ StorageSaved * a \in Nat /\ IngestSaved * b \in Nat
    BY <2>5, RowAmounts
  <2>7. X[r] = a /\ Y[r] = b /\ C[r] = CostOf(a, b) /\ V[r] = Savings(a, b)
    BY <2>3, <2>4 DEF a, b
  <2>8. C[r] \in Nat /\ V[r] \in Nat
    BY <2>2, <2>4
  <2>9. QED
    BY <2>5, <2>6, <2>7, <2>8
<1> HIDE DEF X, Y, C, V
<1>4. x \in Nat /\ y \in Nat
  BY <1>1, <1>3, SumType
<1>5. SumOver(C, Rows) = StorageCost * x + IngestCost * y
  <2>1. Mixes(Rows, C, StorageCost, X, IngestCost, Y)
    BY <1>3 DEF Mixes
  <2>2. QED BY <1>1, <2>1, Multiples, SumOfMultiples
<1>6. SumOver(V, Rows) = StorageSaved * x + IngestSaved * y
  <2>1. Mixes(Rows, V, StorageSaved, X, IngestSaved, Y)
    BY <1>3 DEF Mixes
  <2>2. QED BY <1>1, <2>1, Multiples, SumOfMultiples
<1> HIDE DEF x, y
<1>7. TotalRow.cost = CostOf(x, y) /\ TotalRow.savings = Savings(x, y)
  BY <1>2 DEF Row, CostOf
<1>8. TotalRow.cost = StorageCost * x + IngestCost * y /\ TotalRow.savings = StorageSaved * x + IngestSaved * y
  BY <1>4, <1>7, RowAmounts
<1>9. QED
  BY <1>5, <1>6, <1>8 DEF C, V

\* Each group's ingest is the sum of all its datapoints, each counted once and for no
\* other group, however many groups there are and however the answers are cut into
\* calls and pages (plan.rs:397-439); the table names every group once, the costliest
\* first, its last row is the sum of the others, and no row promises more than the
\* group costs (plan.rs:168-197).
THEOREM PlanSoundAlways == Spec => []PlanSound
<1>1. DiscoveryInv /\ PlanInv => PlanSound
  <2> SUFFICES ASSUME DiscoveryInv, PlanInv, PlanDone
               PROVE  /\ \A i \in 1 .. Cardinality(found) :
                           sums[i] = Total(Incoming[Names[i]], DOMAIN Incoming[Names[i]])
                      /\ {Table[i].name : i \in DOMAIN Table} = found /\ Len(Table) = Cardinality(found)
                      /\ \A i, k \in DOMAIN Table : i < k => Table[i].cost >= Table[k].cost
                      /\ TotalRow.cost = Total([i \in DOMAIN Table |-> Table[i].cost], DOMAIN Table)
                      /\ TotalRow.savings = Total([i \in DOMAIN Table |-> Table[i].savings], DOMAIN Table)
                      /\ \A i \in DOMAIN Table : 0 <= Table[i].savings /\ Table[i].savings <= Table[i].cost
    BY DEF PlanSound
  <2> DEFINE t == Table
             D == 1 .. Len(t)
             C == [r \in Rows |-> r.cost]
             V == [r \in Rows |-> r.savings]
             HC == [i \in D |-> t[i].cost]
             HV == [i \in D |-> t[i].savings]
  <2>1. /\ Lists(t, Len(t), Rows) /\ Len(t) = Cardinality(found)
        /\ \A i, k \in D : i < k => t[i].cost >= t[k].cost
    BY TableLists
  <2>2. /\ DOMAIN t = D /\ Len(t) \in Nat /\ \A i \in D : t[i] \in Rows
        /\ \A i, k \in D : t[i] = t[k] => i = k
        /\ Rows = {t[i] : i \in D}
    BY <2>1 DEF Lists
  <2>3. (\A r \in Rows : SoundRow(r)) /\ {r.name : r \in Rows} = found
    BY RowsShape
  <2>4. ASSUME NEW r \in Rows
        PROVE  /\ r.cost \in Nat /\ r.savings \in Nat /\ r.savings <= r.cost
               /\ C[r] = r.cost /\ V[r] = r.savings
    <3>1. SoundRow(r)
      BY <2>3
    <3>2. r.stored \in Nat /\ r.ingest \in Nat /\ r.cost \in Nat /\ r.savings \in Nat
      BY <3>1 DEF SoundRow, RowRecord
    <3>3. r.savings <= r.cost
      <4>1. Savings(r.stored, r.ingest) <= CostOf(r.stored, r.ingest)
        BY <3>2, RowAmounts
      <4>2. QED BY <3>1, <4>1 DEF SoundRow
    <3>4. QED BY <3>2, <3>3
  <2>5. {t[i].name : i \in D} = found
    <3>1. \A i \in D : t[i].name \in found
      BY <2>2, <2>3
    <3>2. \A g \in found : \E i \in D : t[i].name = g
      BY <2>2, <2>3
    <3>3. QED BY <3>1, <3>2
  <2>6. \A i \in D : HC[i] = t[i].cost /\ HV[i] = t[i].savings
    OBVIOUS
  <2>7. IsFiniteSet(D)
    BY <2>2, FS_Interval
  <2>8. Total(HC, D) = SumOver(HC, D) /\ Total(HV, D) = SumOver(HV, D)
    BY TotalIsSum
  <2>9. TotalRow.cost = SumOver(C, Rows) /\ TotalRow.savings = SumOver(V, Rows)
    BY LastRowOfPlan
  <2> HIDE DEF t, D, C, V, HC, HV
  <2>10. \A i \in D : /\ HC[i] \in Nat /\ HC[i] = C[t[i]]
                      /\ HV[i] \in Nat /\ HV[i] = V[t[i]]
    BY <2>2, <2>4, <2>6
  <2>11. SumOver(HC, D) = SumOver(C, {t[i] : i \in D})
    BY <2>2, <2>7, <2>10, SumImage
  <2>12. SumOver(HV, D) = SumOver(V, {t[i] : i \in D})
    BY <2>2, <2>7, <2>10, SumImage
  <2>13. TotalRow.cost = Total(HC, D) /\ TotalRow.savings = Total(HV, D)
    BY <2>2, <2>8, <2>9, <2>11, <2>12
  <2>14. \A i \in D : 0 <= t[i].savings /\ t[i].savings <= t[i].cost
    BY <2>2, <2>4
  <2>15. \A i \in 1 .. Cardinality(found) :
           sums[i] = Total(Incoming[Names[i]], DOMAIN Incoming[Names[i]])
    BY SumsDone
  <2>16. QED
    BY <2>1, <2>2, <2>5, <2>13, <2>14, <2>15 DEF t, HC, HV
<1>2. QED
  BY <1>1, PlanInvAlways, PTL
=============================================================================
