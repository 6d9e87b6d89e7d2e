--------------------------- MODULE ReportCommand ---------------------------
(***************************************************************************)
(* `s4logs report` (crates/s4logs-cli/src/commands/report.rs): a summary   *)
(* of the manifests of an account, read while drains write them            *)
(* (crates/s4logs-drain/src/manifest.rs).                                  *)
(*                                                                         *)
(* Manifest keys are numbers in the order of a LIST.  A manifest is at a   *)
(* version: a reconcile writes one with more objects.                      *)
(***************************************************************************)
EXTENDS Discovery, SortAndSum

CONSTANTS
  Keys,        \* keys under the manifest prefix of the account
  KeyGroup,    \* their log group, or Main for a foreign key
  KeyWindow,   \* their window
  Objects,     \* per key and version: [len, raw, class, sized, classed]
  KeyPageLen,  \* keys on a page of ListObjectsV2
  MaxWrites    \* bound on manifests written, deleted or damaged meanwhile

Classes == {"STANDARD", "STANDARD_IA", "GLACIER_IR"}

ASSUME ReportAssumption ==
  /\ Keys \subseteq Nat \ {0} /\ IsFiniteSet(Keys)
  /\ KeyGroup \in [Keys -> Groups \cup {Main}]
  /\ KeyWindow \in [Keys -> {w \in Nat \X Nat : w[1] < w[2]}]
  /\ \A k \in Keys : \A v \in {1, 2} :
       Objects[k][v] \in Seq([len: Nat, raw: Nat, class: Classes, sized: BOOLEAN, classed: BOOLEAN])
  /\ KeyPageLen \in Nat \ {0} /\ MaxWrites \in Nat

VARIABLES
  manifests,  \* per key: its version, 0 for none, 3 for one that does not decode
  lastKey,    \* the last key listed
  keys,       \* keys listed and not yet read
  got,        \* per group: key and version of the manifests read
  writes,
  (* history *)
  steady      \* keys whose manifest was there, unchanged, since the report began

reportVars == <<manifests, lastKey, keys, got, writes, steady>>

Absent == 0
Damaged == 3

InitReport ==
  /\ manifests \in IF cmd.name = "report" THEN [Keys -> {Absent, 1}] ELSE {[k \in Keys |-> Absent]}
  /\ lastKey = 0 /\ keys = {}
  /\ got = [g \in Groups |-> {}]
  /\ writes = 0
  /\ steady = {k \in Keys : manifests[k] # Absent}

\* A drain writes a manifest, a reconcile replaces it, a rule deletes it, or it
\* is cut short.
WriteManifest(k, v) ==
  /\ cmd.name = "report" /\ phase \in {"keys", "read"} /\ writes < MaxWrites
  /\ v # manifests[k]
  /\ manifests' = [manifests EXCEPT ![k] = v]
  /\ steady' = steady \ {k}
  /\ writes' = writes + 1
  /\ UNCHANGED <<discovery, lastKey, keys, got>>

StartReport ==
  /\ phase = "start" /\ cmd.valid /\ cmd.name = "report"
  /\ phase' = "keys"
  /\ UNCHANGED <<cw, cmd, code, token, found, call, churn, present, reportVars>>

-----------------------------------------------------------------------------
(* Reading the manifests *)

KeysLeft == {k \in Keys : manifests[k] # Absent /\ k > lastKey}

KeysPage == {k \in KeysLeft : Cardinality({j \in KeysLeft : j < k}) < KeyPageLen}

\* Mutant: one page is all there is.
OnePage == TRUE

\* list_keys loops until there is no token.
NoMoreKeys == KeysPage = KeysLeft

\* ObjectStore::list_keys: pages until there is no token.
ListKeys ==
  /\ phase = "keys"
  /\ keys' = keys \cup KeysPage
  /\ lastKey' = Max(KeysPage \cup {lastKey})
  /\ phase' = IF NoMoreKeys THEN "read" ELSE "keys"
  /\ UNCHANGED <<cw, cmd, code, token, found, call, churn, present, manifests, got, writes, steady>>

\* The keys that are read: those of a selected group, as the key names it.
IsSelected(k) == KeyGroup[k] # Main /\ Matches(KeyGroup[k])

\* One key: foreign and not selected ones are passed over, and so is a manifest
\* that is gone or does not decode.
ReadManifest ==
  LET k == Min(keys)
      v == manifests[k]
  IN /\ phase = "read" /\ keys # {}
     /\ keys' = keys \ {k}
     /\ got' = IF IsSelected(k) /\ v \notin {Absent, Damaged}
               THEN [got EXCEPT ![KeyGroup[k]] = @ \cup {<<k, v>>}] ELSE got
     /\ UNCHANGED <<discovery, manifests, lastKey, writes, steady>>

ReportFails ==
  /\ phase \in {"keys", "read"}
  /\ Exit(1)
  /\ UNCHANGED <<cw, cmd, token, found, call, churn, present, reportVars>>

EndReport ==
  /\ phase = "read" /\ keys = {}
  /\ Exit(0)
  /\ UNCHANGED <<cw, cmd, token, found, call, churn, present, reportVars>>

ReportStep == StartReport \/ ListKeys \/ ReadManifest \/ ReportFails \/ EndReport

-----------------------------------------------------------------------------
(* aggregate_group *)

ManifestsOf(g) == {m[1] : m \in got[g]}

\* The objects that the manifests of g list, as key, version and place.
ObjectsOf(g) == UNION {{<<m[1], m[2], i>> : i \in DOMAIN Objects[m[1]][m[2]]} : m \in got[g]}

Obj(p) == Objects[p[1]][p[2]][p[3]]

\* The windows in the order of their bounds.
Covered(g) ==
  InOrder({KeyWindow[k] : k \in ManifestsOf(g)},
          LAMBDA v, w : v[1] < w[1] \/ (v[1] = w[1] /\ v[2] < w[2]))

coverage_from(g) == Covered(g)[1][1]

coverage_to(g) == Covered(g)[Len(Covered(g))][2]

\* Mutant: windows that miss one tick are taken for adjacent.
IsGapAfterTick(v, w) == w[1] > v[2] + 1

IsGap(v, w) == w[1] > v[2]

coverage_gaps(g) ==
  Cardinality({i \in 1 .. Len(Covered(g)) - 1 : IsGap(Covered(g)[i], Covered(g)[i + 1])})

\* Mutant: an unknown class is taken for the cheapest.
PricedCheap(o) == IF o.classed THEN o.class ELSE "GLACIER_IR"

\* An object without a recorded class is priced as STANDARD.
PricedClass(o) == IF o.classed THEN o.class ELSE "STANDARD"

\* s3_price_per_gib_month, in 10000ths of a dollar
Price(class) ==
  CASE class = "STANDARD_IA" -> 125 [] class = "GLACIER_IR" -> 40 [] OTHER -> 230

\* aggregate_group adds up, object by object: raw bytes, where they are known, and
\* the bytes of each class.
RawBytes(objs) == Total([p \in objs |-> IF Obj(p).sized THEN Obj(p).raw ELSE 0], objs)

ByClass(objs, class) ==
  Total([p \in objs |-> Obj(p).len], {p \in objs : PricedClass(Obj(p)) = class})

\* finish_pricing: what CloudWatch bills for the raw bytes, at a quarter of their
\* size, less the price of each class; old manifests do not know the raw bytes.
ReportedSavings(objs) ==
  RawBytes(objs) * 75 - Total([c \in Classes |-> Price(c) * ByClass(objs, c)], Classes)

\* build_summary: the last row is priced from the bytes of all groups.
AllObjects == UNION {ObjectsOf(g) : g \in Groups}

-----------------------------------------------------------------------------
(* Properties *)

ReportDone == phase = "exit" /\ code = 0 /\ cmd.name = "report"

\* The report has each manifest of the selected groups that was there all the time,
\* once and under its own group, and none of other groups, whatever was written,
\* replaced, deleted or damaged meanwhile (report.rs:305-333).
ReportExact ==
  ReportDone =>
    \A g \in Groups :
      /\ {k \in steady : KeyGroup[k] = g /\ g \in cmd.sel.match} \subseteq ManifestsOf(g)
      /\ g \notin cmd.sel.match => got[g] = {}
      /\ \A m, n \in got[g] : KeyGroup[m[1]] = g /\ (m[1] = n[1] => m = n)

Holes(g) ==
  {t \in coverage_from(g) .. coverage_to(g) - 1 :
     \A k \in ManifestsOf(g) : ~(KeyWindow[k][1] <= t /\ t < KeyWindow[k][2])}

Disjoint(g) ==
  \A j, k \in ManifestsOf(g) :
    j # k => KeyWindow[j][2] <= KeyWindow[k][1] \/ KeyWindow[k][2] <= KeyWindow[j][1]

\* A report without gaps means what it says: every time of the coverage that it
\* prints is in a window.  As long as windows do not overlap, the gaps are counted
\* one by one and the coverage is that of all windows (report.rs:76-80).
GapsHonest ==
  ReportDone =>
    \A g \in Groups : got[g] # {} =>
      /\ coverage_gaps(g) = 0 => Holes(g) = {}
      /\ Disjoint(g) =>
           /\ coverage_gaps(g) = Cardinality({t \in Holes(g) : t - 1 \notin Holes(g)})
           /\ \A k \in ManifestsOf(g) : KeyWindow[k][2] <= coverage_to(g)

TrueSavings(objs) ==
  Total([p \in objs |-> Obj(p).raw * 75], objs)
    - Total([p \in objs |-> Price(Obj(p).class) * Obj(p).len], objs)

\* Where sizes or classes were not recorded, the savings are a lower bound, for
\* each group and in the last row, which is the sum of the others
\* (report.rs:7-9, 32-36).
SavingsLowerBound ==
  ReportDone =>
    /\ \A g \in Groups : ReportedSavings(ObjectsOf(g)) <= TrueSavings(ObjectsOf(g))
    /\ ReportedSavings(AllObjects) =
         Total([g \in Groups |-> ReportedSavings(ObjectsOf(g))], Groups)

\* A report that is printed is right about what is archived, about what is missing
\* and about what it saves, while drains and reconciles go on (report.rs:1-36).
ReportHonest == ReportExact /\ GapsHonest /\ SavingsLowerBound
=============================================================================
