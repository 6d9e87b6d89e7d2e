---------------------------- MODULE DrainProofs ----------------------------
(***************************************************************************)
(* Proofs about Drain, for every set of events, windows and runs, every    *)
(* chunk size and every number of failures.                                *)
(*                                                                         *)
(* Part 1: what the operators of Drain return.                             *)
(* Part 2: types.                                                          *)
(* Part 3: the inductive invariant of runs that do not overlap, one lemma  *)
(*         per action.                                                     *)
(* Part 4: what follows for the archive and for the retention gate.        *)
(***************************************************************************)
EXTENDS Drain, NaturalSets, FiniteSetTheorems, SequenceTheorems, TLAPS

-----------------------------------------------------------------------------
(* Part 1: operators *)

\* next_attempt is free: above every attempt that the manifest lists.
LEMMA NextAttemptFree ==
  ASSUME NEW m \in Manifest
  PROVE  /\ NextAttempt(m) \in 1 .. MaxAttempt + 1
         /\ \A o \in m.objs : o.key[2] < NextAttempt(m)
<1> DEFINE Above == {a \in 1 .. MaxAttempt + 1 : \A o \in m.objs : o.key[2] < a}
<1>0. MaxAttempt \in Nat
  BY DrainAssumption DEF DrainAssumption
<1>1. \A o \in m.objs : o.key[2] \in 0 .. MaxAttempt
  BY DEF Manifest, Object, Key
<1>2. Above \subseteq Nat /\ MaxAttempt + 1 \in Above
  BY <1>0, <1>1
<1>3. PICK a \in Above : \A b \in Above : a <= b
  <2> HIDE DEF Above
  <2> QED BY <1>2, LeastNatural
<1>4. a = 1 \/ \E o \in m.objs : o.key[2] = a - 1
  <2>1. CASE a # 1 /\ \A o \in m.objs : o.key[2] # a - 1
    <3>1. a - 1 \in Above
      BY <1>0, <1>1, <1>3, <2>1
    <3>2. QED
      BY <1>0, <1>3, <3>1
  <2>2. QED
    BY <2>1
<1>5. \E b \in 1 .. MaxAttempt + 1 :
        /\ \A o \in m.objs : o.key[2] < b
        /\ b = 1 \/ \E o \in m.objs : o.key[2] = b - 1
  BY <1>3, <1>4
<1>6. QED
  BY <1>5 DEF NextAttempt

-----------------------------------------------------------------------------
(* Part 2: types *)

\* A run's filters are sets of streams, however list_log_streams orders them.
LEMMA ShardsType ==
  ASSUME TypeOK PROVE Shards \in Seq(SUBSET Streams)
<1> DEFINE known == {StreamOf[e] : e \in ingested}
           c == Cardinality(known)
<1>1. known \subseteq Streams /\ known \subseteq Nat
  BY DrainAssumption DEF DrainAssumption, TypeOK, Streams
<1>2. IsFiniteSet(known)
  <2>1. IsFiniteSet(ingested)
    BY DrainAssumption, FS_Subset DEF DrainAssumption, TypeOK
  <2>2. [e \in ingested |-> StreamOf[e]] \in Surjection(ingested, known)
    BY DEF Surjection
  <2>3. QED
    <3> HIDE DEF known
    <3> QED BY <2>1, <2>2, FS_Surjection
<1>3. c \in Nat /\ \E s \in [1 .. c -> known] : \A i, k \in DOMAIN s : i < k => s[i] < s[k]
  <2> HIDE DEF known
  <2> QED BY <1>1, <1>2, AscendingList, FS_CardinalityType
<1>4. Listed \in [1 .. c -> known]
  BY <1>3 DEF Listed
<1>5. Listed \in Seq(Streams)
  <2>1. Listed \in [1 .. c -> Streams]
    <3> HIDE DEF known, c
    <3> QED BY <1>1, <1>4
  <2> HIDE DEF known, c
  <2> QED BY <1>3, <2>1, SeqDef
<1>6. ASSUME NEW s \in Seq(Streams) PROVE partition_streams(s) \in Seq(SUBSET Streams)
  <2> DEFINE ceil == (Len(s) + MAX_STREAMS_PER_FILTER - 1) \div MAX_STREAMS_PER_FILTER
             want == IF ShardStreams > ceil THEN ShardStreams ELSE ceil
             n == IF want < Len(s) THEN want ELSE Len(s)
  <2>1. MAX_STREAMS_PER_FILTER \in Nat \ {0} /\ ShardStreams \in Nat \ {0} /\ Len(s) \in Nat
    BY <1>6, DrainAssumption DEF DrainAssumption
  <2>2. ceil \in Nat
    BY <2>1
  <2>3. n \in Nat
    <3> HIDE DEF ceil
    <3> QED BY <2>1, <2>2
  <2>4. \A i \in 1 .. n : {s[k] : k \in {k \in DOMAIN s : (k - 1) % n = i - 1}} \in SUBSET Streams
    BY <1>6
  <2>5. [i \in 1 .. n |-> {s[k] : k \in {k \in DOMAIN s : (k - 1) % n = i - 1}}] \in Seq(SUBSET Streams)
    <3> HIDE DEF n
    <3> QED BY <2>3, <2>4
  <2>6. QED
    BY <2>5 DEF partition_streams
<1>7. QED
  BY <1>5, <1>6 DEF Shards

\* The record that a window's task starts with has a task's type.
LEMMA NoTaskType == NoTask \in Task /\ NoManifest \in Manifest /\ Idle \in Job
<1>1. NoManifest \in Manifest
  BY DEF NoManifest, Manifest
<1>2. NoTask \in Task
  BY <1>1, DrainAssumption DEF DrainAssumption, NoTask, Task
<1>3. Idle \in Job
  BY DEF Idle, Job
<1>4. QED
  BY <1>1, <1>2, <1>3

\* A task that starts to page keeps its type.
LEMMA PagingType ==
  ASSUME TypeOK, NEW j \in Jobs, NEW w \in Windows, NEW t \in Task
  PROVE  Paging(j, w, t) \in Task
BY DEF Paging, Task, In, TypeOK

\* A step of one window's task leaves the other tasks alone.
LEMMA SetTaskType ==
  ASSUME TypeOK, NEW j \in Jobs, NEW w \in Windows, NEW t \in Task, SetTask(j, w, t)
  PROVE  /\ task' \in [Jobs -> [Windows -> Task]]
         /\ task'[j][w] = t
         /\ \A i \in Jobs, v \in Windows : i # j \/ v # w => task'[i][v] = task[i][v]
BY DEF TypeOK, SetTask

\* A run that ends forgets its windows; others go on.
LEMMA EndJobType ==
  ASSUME TypeOK, NEW j \in Jobs, EndJob(j)
  PROVE  /\ job' \in [Jobs -> Job] /\ task' \in [Jobs -> [Windows -> Task]]
         /\ job'[j] = Idle /\ \A w \in Windows : task'[j][w] = NoTask
         /\ \A i \in Jobs : i # j => job'[i] = job[i] /\ task'[i] = task[i]
BY NoTaskType DEF TypeOK, EndJob

\* Everything but the runs and their tasks.
StateType ==
  /\ now \in 0 .. MaxNow
  /\ cw \subseteq ingested /\ ingested \subseteq Events
  /\ retention \in Nat \cup {Forever}
  /\ objects \subseteq Object
  /\ manifest \in [Windows -> Manifest]
  /\ faults \in 0 .. MaxFaults
  /\ late \subseteq Events /\ proved \subseteq Events
  /\ promised \in [Windows -> SUBSET Events]
  /\ gateCut \in Nat

\* The events of the objects that a task wrote, or a manifest lists, are events.
LEMMA EventsOfType ==
  ASSUME NEW S \in SUBSET Object
  PROVE  /\ UNION {o.evs : o \in S} \subseteq Events
         /\ IsFiniteSet(UNION {o.evs : o \in S})
         /\ Cardinality(UNION {o.evs : o \in S}) \in Nat
<1>1. UNION {o.evs : o \in S} \subseteq Events
  BY DEF Object
<1>2. QED
  BY <1>1, DrainAssumption, FS_Subset, FS_CardinalityType DEF DrainAssumption

\* The first state is well typed.
LEMMA InitType == Init => TypeOK
<1> SUFFICES ASSUME Init PROVE TypeOK
  OBVIOUS
<1>1. job \in [Jobs -> Job] /\ task \in [Jobs -> [Windows -> Task]]
  BY NoTaskType DEF Init
<1>2. StateType
  BY NoTaskType, DrainAssumption DEF DrainAssumption, Init, StateType
<1>3. QED
  BY <1>1, <1>2 DEF TypeOK, StateType
\* A step that leaves the runs and their tasks well typed and does not touch
\* the rest keeps every type.
LEMMA QuietType ==
  ASSUME TypeOK, EnvUnchanged, StoreUnchanged, UNCHANGED faults,
         job' \in [Jobs -> Job], task' \in [Jobs -> [Windows -> Task]]
  PROVE  TypeOK'
BY DEF TypeOK, EnvUnchanged, StoreUnchanged

\* Steps of CloudWatch, and damage to a manifest, keep the types.
LEMMA CloudWatchType == TypeOK /\ CloudWatch => TypeOK'
<1> SUFFICES ASSUME TypeOK, CloudWatch PROVE TypeOK'
  OBVIOUS
<1>1. CASE Tick
  BY <1>1, DrainAssumption DEF DrainAssumption, TypeOK, Tick, StoreUnchanged
<1>2. CASE \E e \in Events : Ingest(e) \/ Expire(e)
  BY <1>2 DEF TypeOK, Ingest, Expire, StoreUnchanged
<1>3. ASSUME NEW w \in Windows, Damage(w) PROVE TypeOK'
  <2>1. [state |-> "corrupt", objs |-> {}, count |-> 0] \in Manifest
    BY DEF Manifest
  <2>2. manifest' \in [Windows -> Manifest]
    BY <1>3, <2>1 DEF TypeOK, Damage
  <2>3. faults' \in 0 .. MaxFaults
    BY <1>3, DrainAssumption DEF DrainAssumption, TypeOK, Damage, Fault
  <2>4. QED
    BY <1>3, <2>2, <2>3 DEF TypeOK, Damage, EnvUnchanged
<1>4. QED
  BY <1>1, <1>2, <1>3 DEF CloudWatch

\* Steps of a window's task keep the types.
LEMMA WindowType ==
  ASSUME TypeOK, NEW j \in Jobs, NEW w \in Windows, Window(j, w)
  PROVE  TypeOK'
<1> DEFINE t == task[j][w]
<1>0. t \in Task /\ job \in [Jobs -> Job] /\ manifest[w] \in Manifest
  BY DEF TypeOK
<1>1. CASE GetManifest(j, w)
  <2>1. [NoTask EXCEPT !.pc = "done"] \in Task /\ Paging(j, w, NoTask) \in Task
    <3>1. [NoTask EXCEPT !.pc = "done"] \in Task
      BY NoTaskType DEF Task
    <3>2. QED
      BY <3>1, NoTaskType, PagingType
  <2>2. task' \in [Jobs -> [Windows -> Task]]
    BY <1>1, <2>1, SetTaskType DEF GetManifest
  <2>3. QED
    BY <1>0, <1>1, <2>2, QuietType DEF GetManifest
<1>2. CASE GetForReconcile(j, w)
  <2>1. /\ [NoTask EXCEPT !.pc = "drain"] \in Task
        /\ [NoTask EXCEPT !.pc = "read", !.base = manifest[w], !.unread = manifest[w].objs] \in Task
    BY <1>0, NoTaskType DEF Task, Manifest
  <2>2. job' \in [Jobs -> Job] /\ task' \in [Jobs -> [Windows -> Task]]
    BY <1>0, <1>2, <2>1, SetTaskType, EndJobType DEF GetForReconcile
  <2>3. QED
    BY <1>2, <2>2, QuietType DEF GetForReconcile
<1>3. ASSUME NEW m \in t.unread, ReadObject(j, w, m) PROVE TypeOK'
  <2>1. \A o \in Body(m.key) :
          [t EXCEPT !.unread = @ \ {m}, !.seen = @ \cup o.evs] \in Task
    BY <1>0 DEF Task, Body, Object, TypeOK
  <2>2. job' \in [Jobs -> Job] /\ task' \in [Jobs -> [Windows -> Task]]
    BY <1>0, <1>3, <2>1, SetTaskType, EndJobType DEF ReadObject
  <2>3. QED
    BY <1>3, <2>2, QuietType DEF ReadObject
<1>4. CASE Repage(j, w)
  <2>1. NextAttempt(t.base) <= MaxAttempt => [t EXCEPT !.att = NextAttempt(t.base)] \in Task
    <3>1. t.base \in Manifest
      BY <1>0 DEF Task
    <3>2. NextAttempt(t.base) \in 1 .. MaxAttempt + 1
      BY <3>1, NextAttemptFree
    <3>3. NextAttempt(t.base) <= MaxAttempt => NextAttempt(t.base) \in 0 .. MaxAttempt
      BY <3>2, DrainAssumption DEF DrainAssumption
    <3>4. QED
      BY <1>0, <3>3 DEF Task
  <2>2. NextAttempt(t.base) <= MaxAttempt =>
          Paging(j, w, [t EXCEPT !.att = NextAttempt(t.base)]) \in Task
    BY <2>1, PagingType
  <2>3. job' \in [Jobs -> Job] /\ task' \in [Jobs -> [Windows -> Task]]
    BY <1>0, <1>4, <2>2, SetTaskType, EndJobType DEF Repage
  <2>4. QED
    BY <1>4, <2>3, QuietType DEF Repage
<1>5. ASSUME NEW e \in t.left, Fetch(j, w, e) PROVE TypeOK'
  <2> DEFINE buf == IF IsMissing(t, e) THEN t.buf \cup {e} ELSE t.buf
             pc == IF Cardinality(buf) >= ChunkTarget THEN "put" ELSE "page"
             u == [t EXCEPT !.left = @ \ {e}, !.buf = buf, !.pc = pc]
  <2>1. u \in Task
    <3>1. buf \in SUBSET Events /\ pc \in {"page", "put"}
      BY <1>0 DEF Task
    <3> HIDE DEF t, buf, pc
    <3>2. QED
      BY <1>0, <3>1 DEF Task
  <2>2. SetTask(j, w, u) /\ UNCHANGED <<job, faults>> /\ EnvUnchanged /\ StoreUnchanged
    BY <1>5 DEF Fetch
  <2> HIDE DEF u
  <2>3. task' \in [Jobs -> [Windows -> Task]]
    BY <2>1, <2>2, SetTaskType
  <2>4. QED
    BY <1>0, <2>2, <2>3, QuietType
<1>6. CASE PutChunk(j, w)
  <2> DEFINE o == [key |-> <<w, t.att, t.seq>>, evs |-> t.buf]
             u == [t EXCEPT !.pc = "page", !.buf = {}, !.seq = @ + 1, !.objs = @ \cup {o}]
  <2>1. o \in Object
    BY <1>0 DEF Task, Object, Key
  <2>2. u \in Task
    <3> HIDE DEF o, t
    <3>1. t.seq + 1 \in Nat /\ t.objs \cup {o} \in SUBSET Object
      BY <1>0, <2>1 DEF Task
    <3>2. QED
      BY <1>0, <3>1 DEF Task
  <2>3. SetTask(j, w, u) /\ objects' = (objects \ Body(o.key)) \cup {o}
    BY <1>6 DEF PutChunk
  <2> HIDE DEF o, u
  <2>4. task' \in [Jobs -> [Windows -> Task]]
    BY <2>2, <2>3, SetTaskType
  <2>5. QED
    BY <1>6, <2>1, <2>3, <2>4 DEF PutChunk, TypeOK, EnvUnchanged
<1>7. ASSUME NEW m \in Manifest, PutManifest(w, m) \/ UNCHANGED <<manifest, proved>>,
             NEW p \in SUBSET Events, promised' = [promised EXCEPT ![w] = p],
             SetTask(j, w, [NoTask EXCEPT !.pc = "done"]),
             UNCHANGED <<objects, job, faults>>, EnvUnchanged
      PROVE  TypeOK'
  <2>1. [NoTask EXCEPT !.pc = "done"] \in Task
    BY NoTaskType DEF Task
  <2>2. task' \in [Jobs -> [Windows -> Task]]
    BY <1>7, <2>1, SetTaskType
  <2>3. UNION {o.evs : o \in m.objs} \subseteq Events
    BY EventsOfType DEF Manifest
  <2>4. manifest' \in [Windows -> Manifest] /\ proved' \subseteq Events
    BY <1>7, <2>3 DEF PutManifest, TypeOK
  <2>5. QED
    BY <1>7, <2>2, <2>4 DEF TypeOK, EnvUnchanged
<1>8. CASE FinishWindow(j, w)
  <2> DEFINE m == [state |-> "good", objs |-> t.objs, count |-> Cardinality(Appended(t))]
  <2>1. m \in Manifest
    <3>1. t.objs \in SUBSET Object
      BY <1>0 DEF Task
    <3>2. Cardinality(Appended(t)) \in Nat
      BY <3>1, EventsOfType DEF Appended
    <3>3. QED
      BY <3>1, <3>2 DEF Manifest
  <2>2. t.vis \cap cw \in SUBSET Events
    BY <1>0 DEF Task
  <2> HIDE DEF m
  <2>3. PutManifest(w, m)
    BY <1>8 DEF FinishWindow, m
  <2>4. QED
    BY <1>7, <1>8, <2>1, <2>2, <2>3 DEF FinishWindow
<1>9. CASE FinishReconcile(j, w)
  <2> DEFINE m == [state |-> "good", objs |-> t.base.objs \cup t.objs,
                   count |-> t.base.count + Cardinality(Appended(t))]
  <2>1. m \in Manifest
    <3>1. t.objs \in SUBSET Object /\ t.base \in Manifest
      BY <1>0 DEF Task
    <3>2. Cardinality(Appended(t)) \in Nat
      BY <3>1, EventsOfType DEF Appended
    <3>3. QED
      BY <3>1, <3>2 DEF Manifest
  <2>2. promised[w] \cup (t.vis \cap cw) \in SUBSET Events
    BY <1>0 DEF Task, TypeOK
  <2> HIDE DEF m
  <2>3. PutManifest(w, m) \/ UNCHANGED <<manifest, proved>>
    BY <1>9 DEF FinishReconcile, m
  <2>4. promised' = [promised EXCEPT ![w] = promised[w] \cup (t.vis \cap cw)]
    BY <1>9 DEF FinishReconcile
  <2>5. QED
    BY <1>7, <1>9, <2>1, <2>2, <2>3, <2>4 DEF FinishReconcile
<1>10. QED
  BY <1>1, <1>2, <1>3, <1>4, <1>5, <1>6, <1>8, <1>9 DEF Window

\* A run's own steps keep the types.
LEMMA RunType ==
  ASSUME TypeOK, NEW j \in Jobs, Run(j) PROVE TypeOK'
<1>0. job[j] \in Job /\ job \in [Jobs -> Job] /\ task \in [Jobs -> [Windows -> Task]]
  BY DEF TypeOK
<1>1. ASSUME NEW m \in Modes, NEW to \in RangeEnds, StartJob(j, m, to) PROVE TypeOK'
  <2>1. [Idle EXCEPT !.pc = "run", !.mode = m, !.shards = Shards] \in Job
    BY ShardsType, NoTaskType, DrainAssumption DEF DrainAssumption, Job
  <2>2. [NoTask EXCEPT !.pc = "todo"] \in Task /\ NoTask \in Task
    BY NoTaskType DEF Task
  <2>3. job' \in [Jobs -> Job]
    BY <1>0, <1>1, <2>1 DEF StartJob
  <2>4. task' \in [Jobs -> [Windows -> Task]]
    BY <1>0, <1>1, <2>2 DEF StartJob
  <2>5. QED
    BY <1>1, <2>3, <2>4, QuietType DEF StartJob
<1>2. CASE EndRun(j)
  <2>1. CASE EndJob(j)
    BY <1>2, <2>1, EndJobType, QuietType DEF EndRun
  <2>2. CASE /\ job' = [job EXCEPT ![j].pc = "gate", ![j].cutoff = now - Days,
                                   ![j].need = CoveringWindows(now - Days)]
             /\ UNCHANGED task
    <3>1. now - Days \in Int /\ CoveringWindows(now - Days) \subseteq Windows
      BY DrainAssumption DEF DrainAssumption, TypeOK, CoveringWindows
    <3>2. job' \in [Jobs -> Job]
      BY <1>0, <2>2, <3>1 DEF Job
    <3>3. QED
      BY <1>0, <1>2, <2>2, <3>2, QuietType DEF EndRun
  <2>3. QED
    BY <1>2, <2>1, <2>2 DEF EndRun
<1>3. ASSUME NEW w \in job[j].need, CheckWindow(j, w) PROVE TypeOK'
  <2>1. CASE EndJob(j)
    BY <1>3, <2>1, EndJobType, QuietType DEF CheckWindow
  <2>2. CASE job' = [job EXCEPT ![j].need = @ \ {w}] /\ UNCHANGED task
    <3>1. job' \in [Jobs -> Job]
      BY <1>0, <2>2 DEF Job
    <3>2. QED
      BY <1>0, <1>3, <2>2, <3>1, QuietType DEF CheckWindow
  <2>3. QED
    BY <1>3, <2>1, <2>2 DEF CheckWindow
<1>4. CASE ApplyRetention(j)
  <2>1. job' \in [Jobs -> Job] /\ task' \in [Jobs -> [Windows -> Task]]
    BY <1>4, EndJobType DEF ApplyRetention
  <2>2. gateCut' \in Nat /\ retention' \in Nat
    BY <1>0, <1>4, DrainAssumption DEF DrainAssumption, ApplyRetention, TypeOK, Job
  <2>3. QED
    BY <1>4, <2>1, <2>2 DEF TypeOK, ApplyRetention, StoreUnchanged
<1>5. CASE JobFails(j)
  <2>1. job' \in [Jobs -> Job] /\ task' \in [Jobs -> [Windows -> Task]]
    BY <1>5, EndJobType DEF JobFails
  <2>2. faults' \in 0 .. MaxFaults
    BY <1>5, DrainAssumption DEF DrainAssumption, JobFails, Fault, TypeOK
  <2>3. QED
    BY <1>5, <2>1, <2>2 DEF TypeOK, JobFails, EnvUnchanged, StoreUnchanged
<1>6. QED
  BY <1>1, <1>2, <1>3, <1>4, <1>5, WindowType DEF Run

\* Every step keeps the types.
LEMMA NextType == TypeOK /\ [Next]_vars => TypeOK'
<1> SUFFICES ASSUME TypeOK, [Next]_vars PROVE TypeOK'
  OBVIOUS
<1>1. CASE UNCHANGED vars
  BY <1>1 DEF TypeOK, vars
<1>2. QED
  BY <1>1, CloudWatchType, RunType DEF Next

\* Every variable keeps its type for every choice of the constants; a reconcile
\* refuses (reconcile.rs, attempt > 99) before it would use an attempt whose
\* number does not fit the object's name.
THEOREM DrainTypeCorrect == Spec => []TypeOK
BY InitType, NextType, PTL DEF Spec
-----------------------------------------------------------------------------
(* Part 3: runs that do not overlap *)

\* One run of the group at a time: the operator schedules them so.
SerialRuns == ~Overlap

\* The events of a set of objects.
EvsOf(S) == UNION {o.evs : o \in S}

\* No event is in two of the objects.
Disjoint(S) == \A a, b \in S : a # b => a.evs \cap b.evs = {}

\* The objects are in S3, unchanged, and belong to window w.
Holds(w, S) == \A o \in S : o \in objects /\ o.key[1] = w

\* The manifest lists no event twice and counts them.
Exact(m) == Disjoint(m.objs) /\ m.count = Cardinality(EvsOf(m.objs))

\* At most one run is active; a run that is idle or at the gate has no window
\* in flight.
Serial ==
  /\ \A i, k \in Jobs : job[i].pc # "idle" /\ job[k].pc # "idle" => i = k
  /\ \A j \in Jobs, w \in Windows :
       /\ job[j].pc = "idle" => task[j][w] = NoTask
       /\ job[j].pc = "gate" => task[j][w].pc \in {"none", "done"}

\* S3 has one object under a key.
KeysUnique == \A a, b \in objects : a.key = b.key => a = b

\* Without stream shards a run pages with a filter that all events pass.
Unsharded == ShardStreams = 1 => \A j \in Jobs : job[j].shards = << >>

\* The events of window w that CloudWatch still has and that were delivered
\* before the drain of the window began.
OnTime(w) == (cw \cap In(w)) \ late

\* What a valid manifest stands for.
ManifestInv(w) ==
  Good(w) =>
    /\ Holds(w, manifest[w].objs) /\ Exact(manifest[w])
    /\ ShardStreams = 1 => promised[w] \subseteq EvsOf(manifest[w].objs)
    /\ ShardStreams = 1 /\ ~Corruption => OnTime(w) \subseteq EvsOf(manifest[w].objs)

\* The task works from a manifest that it has read.
Repairs(t) == t.pc = "read" \/ (t.pc \in {"page", "put"} /\ t.att > 0)

\* The manifest that a repair started from still describes S3, is the one in S3
\* if that is valid, and what was read back of it is what its objects hold.
BaseInv(j, w) ==
  LET t == task[j][w]
  IN Repairs(t) =>
       /\ Holds(w, t.base.objs) /\ Exact(t.base)
       /\ Good(w) => manifest[w] = t.base
       /\ t.unread \subseteq t.base.objs /\ t.seen = EvsOf(t.base.objs \ t.unread)
       /\ ShardStreams = 1 => promised[w] \subseteq EvsOf(t.base.objs)
       /\ ~Corruption => Good(w)

\* A task that reads the archive back has written nothing.
ReadInv(j, w) ==
  LET t == task[j][w]
  IN t.pc = "read" => t.att = 0 /\ t.objs = {} /\ t.buf = {} /\ t.seq = 0

\* A task that pages writes under names of its own.
NameInv(j, w) ==
  LET t == task[j][w]
  IN t.pc \in {"page", "put"} =>
       /\ t.att > 0 => t.unread = {} /\ \A o \in t.base.objs : o.key[2] < t.att
       /\ t.att = 0 => ~Good(w) /\ t.seen = {}
       /\ Holds(w, t.objs) /\ \A o \in t.objs : o.key[2] = t.att /\ o.key[3] < t.seq

\* A task that pages has each event in one place: still to come, in the writer,
\* in an object it wrote, or in the archive it read back.
PlaceInv(j, w) ==
  LET t == task[j][w]
  IN t.pc \in {"page", "put"} =>
       /\ Disjoint(t.objs)
       /\ t.left \cap t.buf = {} /\ (t.left \cup t.buf) \cap EvsOf(t.objs) = {}
       /\ t.seen \cap (t.buf \cup EvsOf(t.objs)) = {}

\* A task that pages with one filter loses no event that CloudWatch shows it.
SightInv(j, w) ==
  LET t == task[j][w]
  IN t.pc \in {"page", "put"} =>
       /\ t.vis \subseteq ingested
       /\ ShardStreams = 1 => t.vis \cap cw \subseteq t.left \cup t.buf \cup EvsOf(t.objs) \cup t.seen
       /\ ShardStreams = 1 /\ t.att = 0 => OnTime(w) \subseteq t.left \cup t.buf \cup EvsOf(t.objs)

\* What holds of a window's task at every step.
TaskInv(j, w) ==
  BaseInv(j, w) /\ ReadInv(j, w) /\ NameInv(j, w) /\ PlaceInv(j, w) /\ SightInv(j, w)

\* What a manifest has once listed, a valid manifest lists.
ProvedInv ==
  ~Corruption => \A e \in proved : \E w \in Windows : Good(w) /\ e \in EvsOf(manifest[w].objs)

\* The windows that the gate has passed have valid manifests.
GateInv ==
  ~Corruption =>
    /\ \A v \in CoveringWindows(gateCut) : Good(v)
    /\ \A j \in Jobs : job[j].pc = "gate" =>
         \A v \in CoveringWindows(job[j].cutoff) : v \in job[j].need \/ Good(v)

\* The inductive invariant.  Its parts hold one another up: PutChunk spares the
\* objects of a manifest because the task's attempt is free (NameInv), which it is
\* because no other run has moved the manifest since it was read (BaseInv, Serial).
DrainInv ==
  /\ TypeOK /\ Serial /\ KeysUnique /\ Unsharded
  /\ \A w \in Windows : ManifestInv(w)
  /\ \A j \in Jobs, w \in Windows : TaskInv(j, w)
  /\ ProvedInv /\ GateInv

\* The events of a union are those of its parts.
LEMMA EvsOfUnion ==
  ASSUME NEW S, NEW T PROVE EvsOf(S \cup T) = EvsOf(S) \cup EvsOf(T)
BY DEF EvsOf

\* One object has its own events, no object has none.
LEMMA EvsOfOne == EvsOf({}) = {} /\ \A o : EvsOf({o}) = o.evs
BY DEF EvsOf

\* All that a window's invariants look at is as before.
WindowKept(w) ==
  /\ manifest'[w] = manifest[w] /\ promised'[w] = promised[w]
  /\ UNCHANGED <<cw, ingested, late>>
  /\ \A o \in objects : o.key[1] = w => o \in objects'

\* A step that is not about the window keeps what its manifest stands for ...
LEMMA ManifestFrame ==
  ASSUME NEW w \in Windows, ManifestInv(w), WindowKept(w) PROVE ManifestInv(w)'
BY DEF ManifestInv, WindowKept, Good, Holds, Exact, OnTime, Disjoint, EvsOf, In

\* ... and what its task has.
LEMMA TaskFrame ==
  ASSUME NEW j \in Jobs, NEW w \in Windows, TaskInv(j, w), WindowKept(w),
         task'[j][w] = task[j][w]
  PROVE  TaskInv(j, w)'
<1>1. BaseInv(j, w)'
  BY DEF TaskInv, BaseInv, WindowKept, Good, Holds, Exact, Repairs, Disjoint, EvsOf
<1>2. ReadInv(j, w)'
  BY DEF TaskInv, ReadInv
<1>3. NameInv(j, w)'
  BY DEF TaskInv, NameInv, WindowKept, Good, Holds
<1>4. PlaceInv(j, w)'
  BY DEF TaskInv, PlaceInv, Disjoint, EvsOf
<1>5. SightInv(j, w)'
  BY DEF TaskInv, SightInv, WindowKept, OnTime, EvsOf, In
<1>6. QED
  BY <1>1, <1>2, <1>3, <1>4, <1>5 DEF TaskInv

\* A window that is not in flight has nothing to keep.
LEMMA NotInFlight ==
  ASSUME NEW j \in Jobs, NEW w \in Windows, task'[j][w].pc \notin {"read", "page", "put"}
  PROVE  TaskInv(j, w)'
BY DEF TaskInv, BaseInv, ReadInv, NameInv, PlaceInv, SightInv, Repairs

\* While a window is in flight its run is the only one.
LEMMA Alone ==
  ASSUME TypeOK, Serial, NEW j \in Jobs, NEW w \in Windows, task[j][w].pc \notin {"none", "done"}
  PROVE  /\ job[j].pc = "run"
         /\ \A i \in Jobs : i # j => job[i].pc = "idle" /\ \A v \in Windows : task[i][v] = NoTask
<1>1. job[j].pc \in {"idle", "run", "gate"}
  BY DEF TypeOK, Job
<1>2. job[j].pc = "run"
  BY <1>1 DEF Serial, NoTask
<1>3. QED
  BY <1>2 DEF Serial

\* The parts of the invariant that a step of one window's task can disturb.
Parts ==
  /\ Serial
  /\ \A w \in Windows : ManifestInv(w)
  /\ \A j \in Jobs, w \in Windows : TaskInv(j, w)

\* A step of one window's task has to answer for that window alone.
LEMMA OneWindow ==
  ASSUME DrainInv, NEW j \in Jobs, NEW w \in Windows,
         task[j][w].pc \notin {"none", "done"}, UNCHANGED job,
         \A i \in Jobs, v \in Windows : i # j \/ v # w => task'[i][v] = task[i][v],
         \A v \in Windows : v # w => WindowKept(v),
         ManifestInv(w)', TaskInv(j, w)'
  PROVE  Parts'
<1>1. /\ job[j].pc = "run"
      /\ \A i \in Jobs : i # j => job[i].pc = "idle" /\ \A v \in Windows : task[i][v] = NoTask
  BY Alone DEF DrainInv
<1>2. Serial'
  BY <1>1 DEF DrainInv, Serial
<1>3. ASSUME NEW v \in Windows PROVE ManifestInv(v)'
  BY ManifestFrame DEF DrainInv
<1>4. ASSUME NEW i \in Jobs, NEW v \in Windows PROVE TaskInv(i, v)'
  <2>1. CASE i = j /\ v = w
    BY <2>1
  <2>2. CASE i = j /\ v # w
    BY <2>2, TaskFrame DEF DrainInv
  <2>3. CASE i # j
    <3>1. task'[i][v] = NoTask
      BY <1>1, <2>3
    <3>2. task'[i][v].pc \notin {"read", "page", "put"}
      BY <3>1 DEF NoTask
    <3>3. QED
      BY <3>2, NotInFlight
  <2>4. QED
    BY <2>1, <2>2, <2>3
<1>5. QED
  BY <1>2, <1>3, <1>4 DEF Parts

\* A step that changes tasks only keeps the parts about S3, the filters and the
\* gate.
LEMMA StoreFrame ==
  ASSUME DrainInv, TypeOK', Parts', UNCHANGED <<objects, manifest, proved, job, gateCut>>
  PROVE  DrainInv'
<1>1. KeysUnique' /\ Unsharded'
  BY DEF DrainInv, KeysUnique, Unsharded
<1>2. ProvedInv'
  BY DEF DrainInv, ProvedInv, Good, EvsOf
<1>3. GateInv'
  BY DEF DrainInv, GateInv, Good, CoveringWindows
<1>4. QED
  BY <1>1, <1>2, <1>3 DEF DrainInv, Parts

\* Tick, and stuttering.
LEMMA QuietInv ==
  ASSUME DrainInv, TypeOK',
         UNCHANGED <<cw, ingested, late, objects, manifest, promised, proved, job, task, gateCut>>
  PROVE  DrainInv'
<1>1. \A w \in Windows : WindowKept(w)
  BY DEF WindowKept
<1>2. Serial'
  BY DEF DrainInv, Serial
<1>3. (\A w \in Windows : ManifestInv(w)') /\ \A j \in Jobs, w \in Windows : TaskInv(j, w)'
  BY <1>1, ManifestFrame, TaskFrame DEF DrainInv
<1>4. QED
  BY <1>2, <1>3, StoreFrame DEF Parts

\* A run that ends, for whatever reason, leaves S3 as the invariant has it.
LEMMA EndJobInv ==
  ASSUME DrainInv, TypeOK', NEW j \in Jobs, EndJob(j), StoreUnchanged,
         UNCHANGED <<cw, ingested, late>>,
         ~Corruption => \A v \in CoveringWindows(gateCut') : Good(v)
  PROVE  DrainInv'
<1>0. TypeOK
  BY DEF DrainInv
<1>1. /\ job'[j] = Idle /\ \A w \in Windows : task'[j][w] = NoTask
      /\ \A i \in Jobs : i # j => job'[i] = job[i] /\ task'[i] = task[i]
  BY <1>0, EndJobType
<1>2. Serial'
  BY <1>1 DEF DrainInv, Serial, Idle
<1>3. \A w \in Windows : WindowKept(w)
  BY DEF WindowKept, StoreUnchanged
<1>4. \A w \in Windows : ManifestInv(w)'
  BY <1>3, ManifestFrame DEF DrainInv
<1>5. \A i \in Jobs, w \in Windows : TaskInv(i, w)'
  <2> SUFFICES ASSUME NEW i \in Jobs, NEW w \in Windows PROVE TaskInv(i, w)'
    OBVIOUS
  <2>1. CASE i = j
    BY <1>1, <2>1, NotInFlight DEF NoTask
  <2>2. CASE i # j
    BY <1>1, <1>3, <2>2, TaskFrame DEF DrainInv
  <2>3. QED
    BY <2>1, <2>2
<1>6. KeysUnique' /\ Unsharded'
  BY <1>1 DEF DrainInv, KeysUnique, Unsharded, StoreUnchanged, Idle
<1>7. ProvedInv'
  BY DEF DrainInv, ProvedInv, StoreUnchanged, Good, EvsOf
<1>8. GateInv'
  BY <1>1 DEF DrainInv, GateInv, StoreUnchanged, Good, CoveringWindows, Idle
<1>9. QED
  BY <1>2, <1>4, <1>5, <1>6, <1>7, <1>8 DEF DrainInv

\* An event arrives: it is late for a window that is being paged or has its
\* manifest, and no task had it in view.
LEMMA IngestInv ==
  ASSUME DrainInv, TypeOK', NEW e \in Events, Ingest(e) PROVE DrainInv'
<1> USE DEF StoreUnchanged
<1>1. /\ e \notin ingested /\ cw' = cw \cup {e} /\ ingested' = ingested \cup {e}
      /\ late \subseteq late'
      /\ UNCHANGED <<objects, manifest, promised, proved, job, task, gateCut>>
  BY DEF Ingest
<1>2. ASSUME NEW w \in Windows, Good(w) \/ \E j \in Jobs : IsPaging(j, w)
      PROVE  OnTime(w)' \subseteq OnTime(w)
  <2>1. CASE e \in In(w)
    <3>1. WindowOf(e) = w
      BY <2>1 DEF In
    <3>2. e \in late'
      BY <1>2, <3>1 DEF Ingest
    <3>3. QED
      BY <1>1, <3>2 DEF OnTime, In
  <2>2. CASE e \notin In(w)
    BY <1>1, <2>2 DEF OnTime, In
  <2>3. QED
    BY <2>1, <2>2
<1>3. Serial'
  BY <1>1 DEF DrainInv, Serial
<1>4. ASSUME NEW w \in Windows PROVE ManifestInv(w)'
  <2>1. Good(w)' <=> Good(w)
    BY <1>1 DEF Good
  <2>2. QED
    BY <1>1, <1>2, <2>1 DEF DrainInv, ManifestInv, Holds, Exact, Disjoint, EvsOf
<1>5. ASSUME NEW j \in Jobs, NEW w \in Windows PROVE TaskInv(j, w)'
  <2>0. TaskInv(j, w)
    BY DEF DrainInv
  <2>1. BaseInv(j, w)' /\ ReadInv(j, w)' /\ NameInv(j, w)' /\ PlaceInv(j, w)'
    BY <1>1, <2>0 DEF TaskInv, BaseInv, ReadInv, NameInv, PlaceInv, Good, Holds, Exact, Repairs,
                      Disjoint, EvsOf
  <2>2. SightInv(j, w)'
    <3>1. task[j][w].pc \in {"page", "put"} => OnTime(w)' \subseteq OnTime(w)
      BY <1>2 DEF IsPaging
    <3>2. QED
      BY <1>1, <2>0, <3>1 DEF TaskInv, SightInv, EvsOf
  <2>3. QED
    BY <2>1, <2>2 DEF TaskInv
<1>6. QED
  BY <1>1, <1>3, <1>4, <1>5, StoreFrame DEF Parts

\* An event that CloudWatch deletes takes nothing from S3.
LEMMA ExpireInv ==
  ASSUME DrainInv, TypeOK', NEW e \in Events, Expire(e) PROVE DrainInv'
<1>1. /\ cw' = cw \ {e}
      /\ UNCHANGED <<ingested, late, objects, manifest, promised, proved, job, task, gateCut>>
  BY DEF Expire, StoreUnchanged
<1>2. \A w \in Windows : OnTime(w)' \subseteq OnTime(w)
  BY <1>1 DEF OnTime, In
<1>3. Serial'
  BY <1>1 DEF DrainInv, Serial
<1>4. ASSUME NEW w \in Windows PROVE ManifestInv(w)'
  BY <1>1, <1>2 DEF DrainInv, ManifestInv, Good, Holds, Exact, Disjoint, EvsOf
<1>5. ASSUME NEW j \in Jobs, NEW w \in Windows PROVE TaskInv(j, w)'
  <2>0. TaskInv(j, w)
    BY DEF DrainInv
  <2>1. BaseInv(j, w)' /\ ReadInv(j, w)' /\ NameInv(j, w)' /\ PlaceInv(j, w)'
    BY <1>1, <2>0 DEF TaskInv, BaseInv, ReadInv, NameInv, PlaceInv, Good, Holds, Exact, Repairs,
                      Disjoint, EvsOf
  <2>2. SightInv(j, w)'
    BY <1>1, <1>2, <2>0 DEF TaskInv, SightInv, EvsOf
  <2>3. QED
    BY <2>1, <2>2 DEF TaskInv
<1>6. QED
  BY <1>1, <1>3, <1>4, <1>5, StoreFrame DEF Parts

\* A manifest that no longer decodes stands for nothing.
LEMMA DamageInv ==
  ASSUME DrainInv, TypeOK', NEW u \in Windows, Damage(u) PROVE DrainInv'
<1>1. /\ Corruption
      /\ UNCHANGED <<cw, ingested, late, objects, promised, proved, job, task, gateCut>>
  BY DEF Damage, EnvUnchanged
<1>2. ~Good(u)' /\ \A w \in Windows : w # u => manifest'[w] = manifest[w]
  BY DEF Damage, Good, DrainInv, TypeOK
<1>3. \A w \in Windows : Good(w)' => Good(w) /\ manifest'[w] = manifest[w]
  BY <1>2 DEF Good
<1>4. Serial' /\ KeysUnique' /\ Unsharded'
  BY <1>1 DEF DrainInv, Serial, KeysUnique, Unsharded
<1>5. ProvedInv' /\ GateInv'
  BY <1>1 DEF ProvedInv, GateInv
<1>6. ASSUME NEW w \in Windows PROVE ManifestInv(w)'
  BY <1>1, <1>3 DEF DrainInv, ManifestInv, Holds, Exact, OnTime, Disjoint, EvsOf, In
<1>7. ASSUME NEW j \in Jobs, NEW w \in Windows PROVE TaskInv(j, w)'
  <2>0. TaskInv(j, w)
    BY DEF DrainInv
  <2>1. BaseInv(j, w)'
    BY <1>1, <1>3, <2>0 DEF TaskInv, BaseInv, Holds, Exact, Repairs, Disjoint, EvsOf
  <2>2. ReadInv(j, w)' /\ NameInv(j, w)' /\ PlaceInv(j, w)'
    BY <1>1, <1>3, <2>0 DEF TaskInv, ReadInv, NameInv, PlaceInv, Holds, Disjoint, EvsOf
  <2>3. SightInv(j, w)'
    BY <1>1, <2>0 DEF TaskInv, SightInv, OnTime, EvsOf, In
  <2>4. QED
    BY <2>1, <2>2, <2>3 DEF TaskInv
<1>8. QED
  BY <1>4, <1>5, <1>6, <1>7 DEF DrainInv

\* A run starts when no other is active.
LEMMA StartJobInv ==
  ASSUME SerialRuns, DrainInv, TypeOK', NEW j \in Jobs, NEW m \in Modes, NEW to, StartJob(j, m, to)
  PROVE  DrainInv'
<1>1. /\ \A i \in Jobs : job[i].pc = "idle"
      /\ UNCHANGED <<cw, ingested, late, objects, manifest, promised, proved, gateCut>>
  BY DEF StartJob, SerialRuns, EnvUnchanged, StoreUnchanged
<1>2. /\ job'[j] = [Idle EXCEPT !.pc = "run", !.mode = m, !.shards = Shards]
      /\ \A i \in Jobs : i # j => job'[i] = job[i] /\ task'[i] = task[i]
      /\ \A w \in Windows : task'[j][w] \in {NoTask, [NoTask EXCEPT !.pc = "todo"]}
  BY DEF StartJob, DrainInv, TypeOK
<1>3. job'[j].pc = "run" /\ (ShardStreams = 1 => job'[j].shards = << >>)
  BY <1>2 DEF Idle, Shards
<1>4. Serial'
  <2>1. \A i \in Jobs : i # j => job'[i].pc = "idle"
    BY <1>1, <1>2
  <2>2. \A i \in Jobs, w \in Windows : i # j => task'[i][w] = NoTask
    BY <1>1, <1>2 DEF DrainInv, Serial
  <2>3. QED
    BY <1>3, <2>1, <2>2 DEF Serial
<1>5. KeysUnique' /\ Unsharded'
  BY <1>1, <1>2, <1>3 DEF DrainInv, KeysUnique, Unsharded
<1>6. \A w \in Windows : WindowKept(w)
  BY <1>1 DEF WindowKept
<1>7. \A w \in Windows : ManifestInv(w)'
  BY <1>6, ManifestFrame DEF DrainInv
<1>8. ASSUME NEW i \in Jobs, NEW w \in Windows PROVE TaskInv(i, w)'
  <2>1. CASE i = j
    <3>1. task'[i][w].pc \in {"none", "todo"}
      BY <1>2, <2>1 DEF NoTask
    <3>2. QED
      BY <3>1, NotInFlight
  <2>2. CASE i # j
    BY <1>2, <1>6, <2>2, TaskFrame DEF DrainInv
  <2>3. QED
    BY <2>1, <2>2
<1>9. ProvedInv'
  BY <1>1 DEF DrainInv, ProvedInv, Good, EvsOf
<1>10. GateInv'
  BY <1>1, <1>2, <1>3 DEF DrainInv, GateInv, Good, CoveringWindows
<1>11. QED
  BY <1>4, <1>5, <1>7, <1>8, <1>9, <1>10 DEF DrainInv

\* All windows are done: the run ends or goes to the gate with every window that
\* the cutoff covers still to check.
LEMMA EndRunInv ==
  ASSUME DrainInv, TypeOK', NEW j \in Jobs, EndRun(j) PROVE DrainInv'
<1>0. UNCHANGED <<cw, ingested, late, gateCut, objects, manifest, promised, proved>> /\ StoreUnchanged
  BY DEF EndRun, EnvUnchanged, StoreUnchanged
<1>1. CASE EndJob(j)
  BY <1>0, <1>1, EndJobInv DEF DrainInv, GateInv
<1>2. CASE /\ job' = [job EXCEPT ![j].pc = "gate", ![j].cutoff = now - Days,
                                 ![j].need = CoveringWindows(now - Days)]
           /\ UNCHANGED task
  <2>1. /\ job'[j].pc = "gate" /\ job'[j].shards = job[j].shards
        /\ job'[j].need = CoveringWindows(job'[j].cutoff)
        /\ \A i \in Jobs : i # j => job'[i] = job[i]
    BY <1>2 DEF DrainInv, TypeOK, Job
  <2>2. Serial'
    <3>1. job[j].pc = "run" /\ \A w \in Windows : task'[j][w].pc \in {"none", "done"}
      BY <1>2 DEF EndRun
    <3>2. \A i \in Jobs : job'[i].pc # "idle" => job[i].pc # "idle"
      BY <2>1, <3>1
    <3>3. \A i, k \in Jobs : job'[i].pc # "idle" /\ job'[k].pc # "idle" => i = k
      BY <3>2 DEF DrainInv, Serial
    <3>4. \A i \in Jobs, w \in Windows :
            /\ job'[i].pc = "idle" => task'[i][w] = NoTask
            /\ job'[i].pc = "gate" => task'[i][w].pc \in {"none", "done"}
      <4> SUFFICES ASSUME NEW i \in Jobs, NEW w \in Windows
                   PROVE  /\ job'[i].pc = "idle" => task'[i][w] = NoTask
                          /\ job'[i].pc = "gate" => task'[i][w].pc \in {"none", "done"}
        OBVIOUS
      <4>1. CASE i = j
        BY <2>1, <3>1, <4>1
      <4>2. CASE i # j
        <5>1. job'[i] = job[i] /\ task'[i][w] = task[i][w]
          BY <1>2, <2>1, <4>2
        <5>2. QED
          BY <5>1 DEF DrainInv, Serial
      <4>3. QED
        BY <4>1, <4>2
    <3>5. QED
      BY <3>3, <3>4 DEF Serial
  <2>3. KeysUnique' /\ Unsharded'
    BY <1>0, <2>1 DEF DrainInv, KeysUnique, Unsharded
  <2>4. \A w \in Windows : WindowKept(w)
    BY <1>0 DEF WindowKept
  <2>5. (\A w \in Windows : ManifestInv(w)') /\ \A i \in Jobs, w \in Windows : TaskInv(i, w)'
    BY <1>2, <2>4, ManifestFrame, TaskFrame DEF DrainInv
  <2>6. ProvedInv'
    BY <1>0 DEF DrainInv, ProvedInv, Good, EvsOf
  <2>7. GateInv'
    BY <1>0, <2>1 DEF DrainInv, GateInv, Good, CoveringWindows
  <2>8. QED
    BY <2>2, <2>3, <2>5, <2>6, <2>7 DEF DrainInv
<1>3. QED
  BY <1>1, <1>2 DEF EndRun

\* The gate ticks off a window whose manifest is valid.
LEMMA CheckWindowInv ==
  ASSUME DrainInv, TypeOK', NEW j \in Jobs, NEW u \in Windows, CheckWindow(j, u) PROVE DrainInv'
<1>0. UNCHANGED <<cw, ingested, late, gateCut, objects, manifest, promised, proved>> /\ StoreUnchanged
  BY DEF CheckWindow, EnvUnchanged, StoreUnchanged
<1>1. CASE EndJob(j)
  BY <1>0, <1>1, EndJobInv DEF DrainInv, GateInv
<1>2. CASE Good(u) /\ job' = [job EXCEPT ![j].need = @ \ {u}] /\ UNCHANGED task
  <2>1. /\ job'[j].pc = job[j].pc /\ job'[j].shards = job[j].shards
        /\ job'[j].need = job[j].need \ {u} /\ job'[j].cutoff = job[j].cutoff
        /\ \A i \in Jobs : i # j => job'[i] = job[i]
    BY <1>2 DEF DrainInv, TypeOK, Job
  <2>2. Serial'
    <3>1. \A i \in Jobs : job'[i].pc = job[i].pc
      BY <2>1
    <3>2. QED
      BY <1>2, <3>1 DEF DrainInv, Serial
  <2>3. KeysUnique' /\ Unsharded'
    BY <1>0, <2>1 DEF DrainInv, KeysUnique, Unsharded
  <2>4. \A w \in Windows : WindowKept(w)
    BY <1>0 DEF WindowKept
  <2>5. (\A w \in Windows : ManifestInv(w)') /\ \A i \in Jobs, w \in Windows : TaskInv(i, w)'
    BY <1>2, <2>4, ManifestFrame, TaskFrame DEF DrainInv
  <2>6. ProvedInv'
    BY <1>0 DEF DrainInv, ProvedInv, Good, EvsOf
  <2>7. GateInv'
    BY <1>0, <1>2, <2>1 DEF DrainInv, GateInv, Good, CoveringWindows
  <2>8. QED
    BY <2>2, <2>3, <2>5, <2>6, <2>7 DEF DrainInv
<1>3. QED
  BY <1>1, <1>2 DEF CheckWindow, Covers

\* The gate lets a cutoff through when every window it covers is ticked off.
LEMMA ApplyRetentionInv ==
  ASSUME DrainInv, TypeOK', NEW j \in Jobs, ApplyRetention(j) PROVE DrainInv'
<1>1. ~Corruption => \A v \in CoveringWindows(job[j].cutoff) : Good(v)
  BY DEF ApplyRetention, DrainInv, GateInv
<1>2. ~Corruption => \A v \in CoveringWindows(gateCut') : Good(v)
  BY <1>1 DEF ApplyRetention, DrainInv, GateInv
<1>3. QED
  BY <1>2, EndJobInv DEF ApplyRetention

\* A drain skips a valid window, else it pages with everything still to come.
LEMMA GetManifestInv ==
  ASSUME DrainInv, TypeOK', NEW j \in Jobs, NEW w \in Windows, GetManifest(j, w) PROVE DrainInv'
<1> DEFINE u == IF Good(w) THEN [NoTask EXCEPT !.pc = "done"] ELSE Paging(j, w, NoTask)
<1>0. TypeOK /\ u \in Task
  <2>1. TypeOK
    BY DEF DrainInv
  <2>2. [NoTask EXCEPT !.pc = "done"] \in Task /\ Paging(j, w, NoTask) \in Task
    BY <2>1, NoTaskType, PagingType DEF Task
  <2>3. QED
    BY <2>1, <2>2
<1>1. /\ SetTask(j, w, u) /\ task[j][w].pc \in {"todo", "drain"}
      /\ UNCHANGED <<cw, ingested, late, objects, manifest, promised, proved, job, gateCut>>
  BY DEF GetManifest, Covers, EnvUnchanged, StoreUnchanged
<1> HIDE DEF u
<1>2. /\ task'[j][w] = u
      /\ \A i \in Jobs, v \in Windows : i # j \/ v # w => task'[i][v] = task[i][v]
  BY <1>0, <1>1, SetTaskType
<1>3. \A v \in Windows : WindowKept(v)
  BY <1>1 DEF WindowKept
<1>4. ManifestInv(w)'
  BY <1>3, ManifestFrame DEF DrainInv
<1>5. TaskInv(j, w)'
  <2>1. CASE Good(w)
    <3>1. u.pc = "done"
      BY <2>1 DEF u, NoTask
    <3>2. QED
      BY <1>2, <3>1, NotInFlight
  <2>2. CASE ~Good(w)
    <3>1. /\ u.pc = "page" /\ u.att = 0 /\ u.seen = {} /\ u.objs = {} /\ u.buf = {}
          /\ u.vis = cw \cap In(w) /\ u.left = {e \in In(w) : Filtered(j, e)}
      BY <2>2 DEF u, Paging, NoTask
    <3>2. EvsOf(u.objs) = {}
      BY <3>1, EvsOfOne
    <3>3. ShardStreams = 1 => u.left = In(w)
      BY <3>1 DEF Filtered, DrainInv, Unsharded
    <3>4. BaseInv(j, w)' /\ ReadInv(j, w)'
      BY <1>2, <3>1 DEF BaseInv, ReadInv, Repairs
    <3>5. NameInv(j, w)'
      BY <1>1, <1>2, <2>2, <3>1 DEF NameInv, Good, Holds
    <3>6. PlaceInv(j, w)'
      BY <1>2, <3>1, <3>2 DEF PlaceInv, Disjoint
    <3>7. SightInv(j, w)'
      <4>1. u.vis \subseteq ingested
        BY <1>0, <3>1 DEF TypeOK
      <4>2. OnTime(w)' \subseteq In(w)
        BY DEF OnTime, In
      <4>3. QED
        BY <1>1, <1>2, <3>1, <3>3, <4>1, <4>2 DEF SightInv
    <3>8. QED
      BY <3>4, <3>5, <3>6, <3>7 DEF TaskInv
  <2>3. QED
    BY <2>1, <2>2
<1>6. task[j][w].pc \notin {"none", "done"}
  BY <1>1
<1>7. Parts'
  BY <1>1, <1>2, <1>3, <1>4, <1>5, <1>6, OneWindow
<1>8. QED
  BY <1>1, <1>7, StoreFrame

\* A reconcile drains a window without manifest and reads back a valid one.
LEMMA GetForReconcileInv ==
  ASSUME DrainInv, TypeOK', NEW j \in Jobs, NEW w \in Windows, GetForReconcile(j, w) PROVE DrainInv'
<1>0. TypeOK
  BY DEF DrainInv
<1>1. /\ task[j][w].pc = "todo" /\ StoreUnchanged
      /\ UNCHANGED <<cw, ingested, late, objects, manifest, promised, proved, gateCut>>
  BY DEF GetForReconcile, EnvUnchanged, StoreUnchanged
<1>2. \A v \in Windows : WindowKept(v)
  BY <1>1 DEF WindowKept
<1>3. ManifestInv(w)'
  BY <1>2, ManifestFrame DEF DrainInv
<1>4. CASE EndJob(j)
  BY <1>1, <1>4, EndJobInv DEF DrainInv, GateInv
<1>5. CASE UNCHANGED job /\ SetTask(j, w, [NoTask EXCEPT !.pc = "drain"])
  <2>1. [NoTask EXCEPT !.pc = "drain"] \in Task
    BY NoTaskType DEF Task
  <2>2. /\ task'[j][w] = [NoTask EXCEPT !.pc = "drain"]
        /\ \A i \in Jobs, v \in Windows : i # j \/ v # w => task'[i][v] = task[i][v]
    BY <1>0, <1>5, <2>1, SetTaskType
  <2>3. TaskInv(j, w)'
    BY <2>2, NotInFlight DEF NoTask
  <2>4. Parts'
    BY <1>1, <1>2, <1>3, <1>5, <2>2, <2>3, OneWindow
  <2>5. QED
    BY <1>1, <1>5, <2>4, StoreFrame
<1>6. CASE /\ UNCHANGED job /\ Good(w)
           /\ SetTask(j, w, [NoTask EXCEPT !.pc = "read", !.base = manifest[w],
                                           !.unread = manifest[w].objs])
  <2> DEFINE u == [NoTask EXCEPT !.pc = "read", !.base = manifest[w], !.unread = manifest[w].objs]
  <2>1. u \in Task
    BY <1>0, NoTaskType DEF Task, Manifest, TypeOK
  <2>2. /\ u.pc = "read" /\ u.base = manifest[w] /\ u.unread = manifest[w].objs /\ u.seen = {}
        /\ u.att = 0 /\ u.objs = {} /\ u.buf = {} /\ u.seq = 0
    BY DEF NoTask
  <2>3. SetTask(j, w, u)
    BY <1>6
  <2> HIDE DEF u
  <2>4. /\ task'[j][w] = u
        /\ \A i \in Jobs, v \in Windows : i # j \/ v # w => task'[i][v] = task[i][v]
    BY <1>0, <2>1, <2>3, SetTaskType
  <2>5. BaseInv(j, w)'
    <3>1. ManifestInv(w) /\ manifest' = manifest /\ promised' = promised /\ objects' = objects
      BY <1>1 DEF DrainInv
    <3>2. u.base.objs \ u.unread = {} /\ EvsOf({}) = {}
      BY <2>2, EvsOfOne
    <3>3. u.seen = EvsOf(u.base.objs \ u.unread)
      BY <2>2, <3>2
    <3>4. QED
      BY <1>6, <2>2, <2>4, <3>1, <3>3 DEF BaseInv, ManifestInv, Good, Holds, Exact
  <2>6. ReadInv(j, w)' /\ NameInv(j, w)' /\ PlaceInv(j, w)' /\ SightInv(j, w)'
    BY <2>2, <2>4 DEF ReadInv, NameInv, PlaceInv, SightInv
  <2>7. TaskInv(j, w)'
    BY <2>5, <2>6 DEF TaskInv
  <2>8. Parts'
    BY <1>1, <1>2, <1>3, <1>6, <2>4, <2>7, OneWindow
  <2>9. QED
    BY <1>1, <1>6, <2>8, StoreFrame
<1>7. QED
  BY <1>4, <1>5, <1>6 DEF GetForReconcile

\* The body read back is the one the manifest lists: keys are unique in S3.
LEMMA ReadObjectInv ==
  ASSUME DrainInv, TypeOK', NEW j \in Jobs, NEW w \in Windows,
         NEW m \in task[j][w].unread, ReadObject(j, w, m)
  PROVE  DrainInv'
<1> DEFINE t == task[j][w]
<1>0. TypeOK /\ t \in Task /\ TaskInv(j, w)
  BY DEF DrainInv, TypeOK
<1>1. /\ t.pc = "read" /\ StoreUnchanged
      /\ UNCHANGED <<cw, ingested, late, objects, manifest, promised, proved, gateCut>>
  BY DEF ReadObject, EnvUnchanged, StoreUnchanged
<1>2. \A v \in Windows : WindowKept(v)
  BY <1>1 DEF WindowKept
<1>3. ManifestInv(w)'
  BY <1>2, ManifestFrame DEF DrainInv
<1>4. CASE EndJob(j)
  BY <1>1, <1>4, EndJobInv DEF DrainInv, GateInv
<1>5. ASSUME NEW o \in Body(m.key), UNCHANGED job,
             SetTask(j, w, [t EXCEPT !.unread = @ \ {m}, !.seen = @ \cup o.evs])
      PROVE  DrainInv'
  <2> DEFINE u == [t EXCEPT !.unread = @ \ {m}, !.seen = @ \cup o.evs]
  <2>1. o = m /\ m \in t.base.objs
    <3>1. m \in t.base.objs /\ m \in objects
      BY <1>0, <1>1 DEF TaskInv, BaseInv, Holds, Repairs
    <3>2. QED
      BY <3>1 DEF Body, DrainInv, KeysUnique
  <2>2. /\ u.pc = "read" /\ u.base = t.base /\ u.unread = t.unread \ {m} /\ u.seen = t.seen \cup m.evs
        /\ u.att = t.att /\ u.objs = t.objs /\ u.buf = t.buf /\ u.seq = t.seq
    BY <1>0, <1>1, <2>1 DEF Task
  <2>3. u \in Task
    <3> HIDE DEF t
    <3>1. o.evs \in SUBSET Events
      BY <1>0 DEF Body, TypeOK, Object
    <3>2. QED
      BY <1>0, <3>1 DEF Task
  <2>4. SetTask(j, w, u)
    BY <1>5
  <2> HIDE DEF u
  <2>5. /\ task'[j][w] = u
        /\ \A i \in Jobs, v \in Windows : i # j \/ v # w => task'[i][v] = task[i][v]
    BY <1>0, <2>3, <2>4, SetTaskType
  <2>6. BaseInv(j, w)'
    <3>1. u.base.objs \ u.unread = (t.base.objs \ t.unread) \cup {m}
      BY <2>1, <2>2
    <3>2. EvsOf(u.base.objs \ u.unread) = EvsOf(t.base.objs \ t.unread) \cup m.evs
      <4>1. EvsOf({m}) = m.evs
        BY EvsOfOne
      <4>2. EvsOf((t.base.objs \ t.unread) \cup {m}) = EvsOf(t.base.objs \ t.unread) \cup EvsOf({m})
        BY EvsOfUnion
      <4>3. QED
        BY <3>1, <4>1, <4>2
    <3>3. BaseInv(j, w) /\ Repairs(t)
      BY <1>0, <1>1 DEF TaskInv, Repairs
    <3>4. u.seen = EvsOf(u.base.objs \ u.unread)
      BY <2>2, <3>2, <3>3 DEF BaseInv
    <3>5. QED
      BY <1>1, <2>2, <2>5, <3>3, <3>4 DEF BaseInv, Good, Holds, Exact
  <2>7. ReadInv(j, w)' /\ NameInv(j, w)' /\ PlaceInv(j, w)' /\ SightInv(j, w)'
    BY <1>0, <1>1, <2>2, <2>5 DEF TaskInv, ReadInv, NameInv, PlaceInv, SightInv
  <2>8. TaskInv(j, w)'
    BY <2>6, <2>7 DEF TaskInv
  <2>9. Parts'
    BY <1>1, <1>2, <1>3, <1>5, <2>5, <2>8, OneWindow
  <2>10. QED
    BY <1>1, <1>5, <2>9, StoreFrame
<1>6. QED
  BY <1>4, <1>5 DEF ReadObject

\* A repair pages under an attempt above all those of its manifest.
LEMMA RepageInv ==
  ASSUME DrainInv, TypeOK', NEW j \in Jobs, NEW w \in Windows, Repage(j, w) PROVE DrainInv'
<1> DEFINE t == task[j][w]
           a == NextAttempt(t.base)
           u == Paging(j, w, [t EXCEPT !.att = a])
<1>0. TypeOK /\ t \in Task /\ TaskInv(j, w)
  BY DEF DrainInv, TypeOK
<1>1. /\ t.pc = "read" /\ t.unread = {} /\ StoreUnchanged
      /\ UNCHANGED <<cw, ingested, late, objects, manifest, promised, proved, gateCut>>
  BY DEF Repage, EnvUnchanged, StoreUnchanged
<1>2. \A v \in Windows : WindowKept(v)
  BY <1>1 DEF WindowKept
<1>3. ManifestInv(w)'
  BY <1>2, ManifestFrame DEF DrainInv
<1>4. CASE EndJob(j)
  BY <1>1, <1>4, EndJobInv DEF DrainInv, GateInv
<1>5. CASE UNCHANGED job /\ a <= MaxAttempt /\ SetTask(j, w, u)
  <2>1. a \in 1 .. MaxAttempt + 1 /\ \A o \in t.base.objs : o.key[2] < a
    BY <1>0, NextAttemptFree DEF Task
  <2>2. a \in 0 .. MaxAttempt /\ a > 0
    BY <1>5, <2>1, DrainAssumption DEF DrainAssumption
  <2>3. u \in Task
    <3>1. [t EXCEPT !.att = a] \in Task
      <4> HIDE DEF t, a
      <4> QED BY <1>0, <2>2 DEF Task
    <3>2. QED
      BY <1>0, <3>1, PagingType
  <2>4. /\ u.pc = "page" /\ u.base = t.base /\ u.unread = t.unread /\ u.seen = t.seen
        /\ u.att = a /\ u.objs = t.objs /\ u.buf = t.buf /\ u.seq = t.seq
        /\ u.vis = cw \cap In(w) /\ u.left = {e \in In(w) : Filtered(j, e)}
    <3> HIDE DEF t, a
    <3> QED BY <1>0 DEF Paging, Task
  <2> HIDE DEF u, a
  <2>5. /\ task'[j][w] = u
        /\ \A i \in Jobs, v \in Windows : i # j \/ v # w => task'[i][v] = task[i][v]
    BY <1>0, <1>5, <2>3, SetTaskType
  <2>6. u.objs = {} /\ u.buf = {} /\ EvsOf(u.objs) = {} /\ (ShardStreams = 1 => u.left = In(w))
    BY <1>0, <1>1, <2>4, EvsOfOne DEF TaskInv, ReadInv, Filtered, DrainInv, Unsharded
  <2>7. BaseInv(j, w)'
    <3>1. BaseInv(j, w) /\ Repairs(t) /\ Repairs(u)
      BY <1>0, <1>1, <2>2, <2>4 DEF TaskInv, Repairs
    <3>2. QED
      BY <1>1, <2>4, <2>5, <3>1 DEF BaseInv, Good, Holds, Exact
  <2>8. ReadInv(j, w)'
    BY <2>4, <2>5 DEF ReadInv
  <2>9. NameInv(j, w)'
    BY <1>1, <2>1, <2>2, <2>4, <2>5, <2>6 DEF NameInv, Holds
  <2>10. PlaceInv(j, w)'
    BY <2>5, <2>6 DEF PlaceInv, Disjoint
  <2>11. SightInv(j, w)'
    BY <1>0, <1>1, <2>2, <2>4, <2>5, <2>6 DEF SightInv, TypeOK
  <2>12. TaskInv(j, w)'
    BY <2>7, <2>8, <2>9, <2>10, <2>11 DEF TaskInv
  <2>13. Parts'
    BY <1>1, <1>2, <1>3, <1>5, <2>5, <2>12, OneWindow
  <2>14. QED
    BY <1>1, <1>5, <2>13, StoreFrame
<1>6. QED
  BY <1>4, <1>5 DEF Repage

\* A page: an event moves from what is to come into the writer, unless
\* CloudWatch has deleted it or the archive has it.
LEMMA FetchInv ==
  ASSUME DrainInv, TypeOK', NEW j \in Jobs, NEW w \in Windows,
         NEW e \in task[j][w].left, Fetch(j, w, e)
  PROVE  DrainInv'
<1> DEFINE t == task[j][w]
           buf == IF IsMissing(t, e) THEN t.buf \cup {e} ELSE t.buf
           pc == IF Cardinality(buf) >= ChunkTarget THEN "put" ELSE "page"
           u == [t EXCEPT !.left = @ \ {e}, !.buf = buf, !.pc = pc]
<1>0. TypeOK /\ t \in Task /\ TaskInv(j, w)
  BY DEF DrainInv, TypeOK
<1>1. /\ t.pc = "page" /\ SetTask(j, w, u)
      /\ UNCHANGED <<cw, ingested, late, objects, manifest, promised, proved, job, gateCut>>
  BY DEF Fetch, EnvUnchanged, StoreUnchanged
<1>2. \A v \in Windows : WindowKept(v)
  BY <1>1 DEF WindowKept
<1>3. ManifestInv(w)'
  BY <1>2, ManifestFrame DEF DrainInv
<1>4. buf \in SUBSET Events /\ pc \in {"page", "put"}
  BY <1>0 DEF Task
<1>5. u \in Task
  <2> HIDE DEF t, buf, pc
  <2> QED BY <1>0, <1>4 DEF Task
<1>6. /\ u.pc = pc /\ u.left = t.left \ {e} /\ u.buf = buf /\ u.base = t.base /\ u.unread = t.unread
      /\ u.seen = t.seen /\ u.att = t.att /\ u.objs = t.objs /\ u.seq = t.seq /\ u.vis = t.vis
  <2> HIDE DEF t, buf, pc
  <2> QED BY <1>0 DEF Task
<1>7. /\ buf \subseteq t.buf \cup {e} /\ t.buf \subseteq buf
      /\ e \in buf \ t.buf => e \notin t.seen
      /\ e \in cw => e \in buf \cup t.seen
  BY DEF IsMissing
<1> HIDE DEF u, pc, buf
<1>8. /\ task'[j][w] = u
      /\ \A i \in Jobs, v \in Windows : i # j \/ v # w => task'[i][v] = task[i][v]
  BY <1>0, <1>1, <1>5, SetTaskType
<1>9. u.pc \in {"page", "put"}
  BY <1>4, <1>6
<1>10. BaseInv(j, w)'
  <2>1. BaseInv(j, w) /\ (Repairs(u) => Repairs(t))
    BY <1>0, <1>1, <1>6, <1>9 DEF TaskInv, Repairs
  <2>2. QED
    BY <1>1, <1>6, <1>8, <2>1 DEF BaseInv, Good, Holds, Exact
<1>11. ReadInv(j, w)'
  BY <1>8, <1>9 DEF ReadInv
<1>12. NameInv(j, w)'
  <2>1. NameInv(j, w)
    BY <1>0 DEF TaskInv
  <2>2. QED
    BY <1>1, <1>6, <1>8, <2>1 DEF NameInv, Good, Holds
<1>13. PlaceInv(j, w)'
  <2>1. PlaceInv(j, w)
    BY <1>0 DEF TaskInv
  <2>2. QED
    BY <1>1, <1>6, <1>7, <1>8, <2>1 DEF PlaceInv
<1>14. SightInv(j, w)'
  <2>1. SightInv(j, w) /\ NameInv(j, w) /\ OnTime(w)' = OnTime(w) /\ OnTime(w) \subseteq cw
    BY <1>0, <1>1 DEF TaskInv, OnTime, In
  <2>2. t.att = 0 => t.seen = {}
    BY <1>1, <2>1 DEF NameInv
  <2>3. QED
    BY <1>1, <1>6, <1>7, <1>8, <2>1, <2>2 DEF SightInv
<1>15. TaskInv(j, w)'
  BY <1>10, <1>11, <1>12, <1>13, <1>14 DEF TaskInv
<1>16. Parts'
  BY <1>1, <1>2, <1>3, <1>8, <1>15, OneWindow
<1>17. QED
  BY <1>1, <1>16, StoreFrame

\* A chunk is written under a key that no manifest in use lists.
LEMMA PutChunkInv ==
  ASSUME DrainInv, TypeOK', NEW j \in Jobs, NEW w \in Windows, PutChunk(j, w) PROVE DrainInv'
<1> DEFINE t == task[j][w]
           o == [key |-> <<w, t.att, t.seq>>, evs |-> t.buf]
           u == [t EXCEPT !.pc = "page", !.buf = {}, !.seq = @ + 1, !.objs = @ \cup {o}]
<1>0. TypeOK /\ t \in Task /\ TaskInv(j, w) /\ t.seq \in Nat /\ t.att \in Nat
  <2>1. TypeOK /\ t \in Task /\ TaskInv(j, w)
    BY DEF DrainInv, TypeOK
  <2>2. QED
    BY <2>1, DrainAssumption DEF DrainAssumption, Task
<1>1. /\ t.pc \in {"page", "put"} /\ SetTask(j, w, u)
      /\ objects' = (objects \ Body(o.key)) \cup {o}
      /\ UNCHANGED <<cw, ingested, late, manifest, promised, proved, job, gateCut>>
  BY DEF PutChunk, EnvUnchanged
<1>2. o \in Object /\ o.key[1] = w /\ o.key[2] = t.att /\ o.key[3] = t.seq /\ o.evs = t.buf
  BY <1>0 DEF Task, Object, Key
<1> HIDE DEF o
<1>3. u \in Task
  <2> HIDE DEF t
  <2>1. t.seq + 1 \in Nat /\ t.objs \cup {o} \in SUBSET Object
    BY <1>0, <1>2 DEF Task
  <2>2. QED
    BY <1>0, <2>1 DEF Task
<1>4. /\ u.pc = "page" /\ u.left = t.left /\ u.buf = {} /\ u.base = t.base /\ u.unread = t.unread
      /\ u.seen = t.seen /\ u.att = t.att /\ u.objs = t.objs \cup {o} /\ u.seq = t.seq + 1
      /\ u.vis = t.vis
  <2> HIDE DEF t
  <2> QED BY <1>0 DEF Task
<1> HIDE DEF u
<1>5. /\ task'[j][w] = u
      /\ \A i \in Jobs, v \in Windows : i # j \/ v # w => task'[i][v] = task[i][v]
  BY <1>0, <1>1, <1>3, SetTaskType
<1>6. \A b \in objects : b \in objects' \/ b.key = o.key
  BY <1>1 DEF Body
<1>7. \A v \in Windows : v # w => WindowKept(v)
  <2> SUFFICES ASSUME NEW v \in Windows, v # w PROVE WindowKept(v)
    OBVIOUS
  <2>1. \A b \in objects : b.key[1] = v => b \in objects'
    BY <1>2, <1>6
  <2>2. QED
    BY <1>1, <2>1 DEF WindowKept
<1>8. NameInv(j, w) /\ BaseInv(j, w) /\ PlaceInv(j, w) /\ SightInv(j, w)
  BY <1>0 DEF TaskInv
<1>9. t.att > 0 => Repairs(t) /\ \A b \in t.base.objs : b \in objects /\ b.key[1] = w /\ b.key[2] < t.att
  BY <1>1, <1>8 DEF NameInv, BaseInv, Repairs, Holds
<1>10. t.att > 0 => \A b \in t.base.objs : b \in objects' /\ b.key[1] = w
  <2> SUFFICES ASSUME t.att > 0, NEW b \in t.base.objs PROVE b \in objects' /\ b.key[1] = w
    OBVIOUS
  <2>1. b \in objects /\ b.key[1] = w /\ b.key[2] < t.att /\ b.key[2] # t.att
    <3>1. b \in objects /\ b.key[1] = w /\ b.key[2] < t.att
      BY <1>9
    <3>2. b.key[2] \in Nat
      BY <1>0, <3>1, DrainAssumption DEF DrainAssumption, TypeOK, Object, Key
    <3>3. QED
      BY <1>0, <3>1, <3>2
  <2>2. QED
    BY <1>2, <1>6, <2>1
<1>11. ManifestInv(w)'
  <2>1. Good(w) => t.att > 0 /\ manifest[w] = t.base
    BY <1>0, <1>1, <1>8, <1>9 DEF NameInv, BaseInv
  <2>2. Good(w) => \A b \in manifest[w].objs : b \in objects' /\ b.key[1] = w
    BY <1>10, <2>1
  <2>3. QED
    BY <1>1, <2>2 DEF DrainInv, ManifestInv, Good, Holds, Exact, OnTime, In
<1>12. BaseInv(j, w)'
  <2>1. Repairs(u) => t.att > 0
    BY <1>4 DEF Repairs
  <2>2. QED
    BY <1>1, <1>4, <1>5, <1>8, <1>9, <1>10, <2>1 DEF BaseInv, Good, Exact, Holds
<1>13. ReadInv(j, w)'
  BY <1>4, <1>5 DEF ReadInv
<1>14. NameInv(j, w)'
  <2>1. ASSUME NEW b \in u.objs
        PROVE  b \in objects' /\ b.key[1] = w /\ b.key[2] = u.att /\ b.key[3] < u.seq
    <3>1. CASE b = o
      BY <1>0, <1>1, <1>2, <1>4, <3>1
    <3>2. CASE b \in t.objs
      <4>1. b \in objects /\ b.key[1] = w /\ b.key[2] = t.att /\ b.key[3] < t.seq
        BY <1>1, <1>8, <3>2 DEF NameInv, Holds
      <4>2. b.key[3] \in Nat
        BY <1>0, <4>1 DEF TypeOK, Object, Key
      <4>3. b.key[3] # t.seq /\ b.key[3] < t.seq + 1
        BY <1>0, <4>1, <4>2
      <4>4. QED
        BY <1>2, <1>4, <1>6, <4>1, <4>3
    <3>3. QED
      BY <1>4, <3>1, <3>2
  <2>2. QED
    BY <1>1, <1>4, <1>5, <1>8, <2>1 DEF NameInv, Good, Holds
<1>15. EvsOf(u.objs) = EvsOf(t.objs) \cup t.buf
  <2>1. EvsOf({o}) = o.evs
    BY EvsOfOne
  <2>2. EvsOf(t.objs \cup {o}) = EvsOf(t.objs) \cup EvsOf({o})
    BY EvsOfUnion
  <2>3. QED
    BY <1>2, <1>4, <2>1, <2>2
<1>16. PlaceInv(j, w)'
  <2>1. \A b \in t.objs : b.evs \subseteq EvsOf(t.objs)
    BY DEF EvsOf
  <2>2. \A b \in t.objs : b.evs \cap o.evs = {}
    BY <1>1, <1>2, <1>8, <2>1 DEF PlaceInv
  <2>3. Disjoint(u.objs)
    BY <1>1, <1>4, <1>8, <2>2 DEF PlaceInv, Disjoint
  <2>4. QED
    BY <1>1, <1>4, <1>5, <1>8, <1>15, <2>3 DEF PlaceInv
<1>17. SightInv(j, w)'
  BY <1>1, <1>4, <1>5, <1>8, <1>15 DEF SightInv, OnTime, In
<1>18. TaskInv(j, w)'
  BY <1>12, <1>13, <1>14, <1>16, <1>17 DEF TaskInv
<1>19. Parts'
  BY <1>1, <1>5, <1>7, <1>11, <1>18, OneWindow
<1>20. KeysUnique'
  BY <1>1, <1>6 DEF DrainInv, KeysUnique, Body
<1>21. Unsharded' /\ ProvedInv' /\ GateInv'
  BY <1>1 DEF DrainInv, Unsharded, ProvedInv, GateInv, Good, EvsOf, CoveringWindows
<1>22. QED
  BY <1>19, <1>20, <1>21 DEF DrainInv, Parts

\* A manifest is written: the window's task is over, and the windows that had a
\* valid manifest still have one.
LEMMA PutManifestInv ==
  ASSUME DrainInv, TypeOK', NEW j \in Jobs, NEW w \in Windows, NEW m,
         task[j][w].pc \notin {"none", "done"},
         PutManifest(w, m), m.state = "good", ManifestInv(w)',
         ~Corruption /\ Good(w) => EvsOf(manifest[w].objs) \subseteq EvsOf(m.objs),
         \A v \in Windows : v # w => promised'[v] = promised[v],
         SetTask(j, w, [NoTask EXCEPT !.pc = "done"]),
         UNCHANGED <<cw, ingested, late, objects, job, gateCut>>
  PROVE  DrainInv'
<1>0. TypeOK /\ manifest \in [Windows -> Manifest] /\ [NoTask EXCEPT !.pc = "done"] \in Task
  BY NoTaskType DEF DrainInv, TypeOK, Task
<1>1. /\ task'[j][w] = [NoTask EXCEPT !.pc = "done"]
      /\ \A i \in Jobs, v \in Windows : i # j \/ v # w => task'[i][v] = task[i][v]
  BY <1>0, SetTaskType
<1>2. manifest'[w] = m /\ \A v \in Windows : v # w => manifest'[v] = manifest[v]
  BY <1>0 DEF PutManifest
<1>3. \A v \in Windows : v # w => WindowKept(v)
  BY <1>2 DEF WindowKept
<1>4. TaskInv(j, w)'
  BY <1>1, NotInFlight DEF NoTask
<1>5. Parts'
  BY <1>1, <1>3, <1>4, OneWindow
<1>6. \A v \in Windows : Good(v) => Good(v)'
  BY <1>2 DEF Good
<1>7. KeysUnique' /\ Unsharded'
  BY DEF DrainInv, KeysUnique, Unsharded
<1>8. ProvedInv'
  <2> SUFFICES ASSUME ~Corruption, NEW e \in proved'
               PROVE  \E v \in Windows : Good(v)' /\ e \in EvsOf(manifest'[v].objs)
    BY DEF ProvedInv, EvsOf
  <2>1. CASE e \in EvsOf(m.objs)
    BY <1>2, <2>1 DEF Good
  <2>2. CASE e \in proved
    <3>1. PICK v \in Windows : Good(v) /\ e \in EvsOf(manifest[v].objs)
      BY <2>2 DEF DrainInv, ProvedInv
    <3>2. CASE v = w
      BY <1>2, <1>6, <3>1, <3>2
    <3>3. CASE v # w
      BY <1>2, <1>6, <3>1, <3>3
    <3>4. QED
      BY <3>2, <3>3
  <2>3. QED
    BY <2>1, <2>2 DEF PutManifest, EvsOf
<1>9. GateInv'
  BY <1>6 DEF DrainInv, GateInv, CoveringWindows
<1>10. QED
  BY <1>5, <1>7, <1>8, <1>9 DEF DrainInv, Parts

\* The manifest of a first drain lists the objects the task wrote.
LEMMA FinishWindowInv ==
  ASSUME DrainInv, TypeOK', NEW j \in Jobs, NEW w \in Windows, FinishWindow(j, w) PROVE DrainInv'
<1> DEFINE t == task[j][w]
           m == [state |-> "good", objs |-> t.objs, count |-> Cardinality(Appended(t))]
<1>1. /\ t.pc = "page" /\ t.left = {} /\ t.buf = {} /\ t.att = 0 /\ PutManifest(w, m)
      /\ promised' = [promised EXCEPT ![w] = t.vis \cap cw]
      /\ SetTask(j, w, [NoTask EXCEPT !.pc = "done"])
      /\ UNCHANGED <<cw, ingested, late, objects, job, gateCut>>
  BY DEF FinishWindow, WindowDone, EnvUnchanged
<1>2. /\ NameInv(j, w) /\ PlaceInv(j, w) /\ SightInv(j, w)
      /\ manifest \in [Windows -> Manifest] /\ promised \in [Windows -> SUBSET Events]
  BY DEF DrainInv, TaskInv, TypeOK
<1>3. m.state = "good" /\ m.objs = t.objs /\ m.count = Cardinality(EvsOf(t.objs))
  BY DEF Appended, EvsOf
<1> HIDE DEF m
<1>4. manifest'[w] = m /\ promised'[w] = t.vis \cap cw /\ \A v \in Windows : v # w => promised'[v] = promised[v]
  BY <1>1, <1>2 DEF PutManifest
<1>5. ~Good(w) /\ t.seen = {} /\ Holds(w, t.objs) /\ Disjoint(t.objs)
  BY <1>1, <1>2 DEF NameInv, PlaceInv
<1>6. ManifestInv(w)'
  <2>1. \A b \in m.objs : b \in objects' /\ b.key[1] = w
    BY <1>1, <1>3, <1>5 DEF Holds
  <2>2. Exact(m)
    BY <1>3, <1>5 DEF Exact
  <2>3. ShardStreams = 1 => t.vis \cap cw \subseteq EvsOf(m.objs) /\ OnTime(w) \subseteq EvsOf(m.objs)
    BY <1>1, <1>2, <1>3, <1>5 DEF SightInv
  <2>4. OnTime(w)' = OnTime(w)
    BY <1>1 DEF OnTime, In
  <2>5. QED
    BY <1>4, <2>1, <2>2, <2>3, <2>4 DEF ManifestInv, Holds, Exact
<1>7. QED
  BY <1>1, <1>3, <1>4, <1>5, <1>6, PutManifestInv

\* The manifest of a repair adds what was missing to the manifest it read.
LEMMA FinishReconcileInv ==
  ASSUME DrainInv, TypeOK', NEW j \in Jobs, NEW w \in Windows, FinishReconcile(j, w) PROVE DrainInv'
<1> DEFINE t == task[j][w]
           m == [state |-> "good", objs |-> t.base.objs \cup t.objs,
                 count |-> t.base.count + Cardinality(Appended(t))]
<1>1. /\ t.pc = "page" /\ t.left = {} /\ t.buf = {} /\ t.att > 0
      /\ promised' = [promised EXCEPT ![w] = promised[w] \cup (t.vis \cap cw)]
      /\ SetTask(j, w, [NoTask EXCEPT !.pc = "done"])
      /\ UNCHANGED <<cw, ingested, late, objects, job, gateCut>>
  BY DEF FinishReconcile, WindowDone, EnvUnchanged
<1>2. /\ NameInv(j, w) /\ PlaceInv(j, w) /\ SightInv(j, w) /\ BaseInv(j, w) /\ t \in Task
      /\ manifest \in [Windows -> Manifest] /\ promised \in [Windows -> SUBSET Events] /\ TypeOK
  BY DEF DrainInv, TaskInv, TypeOK
<1>3. /\ Holds(w, t.base.objs) /\ Exact(t.base) /\ (Good(w) => manifest[w] = t.base)
      /\ (ShardStreams = 1 => promised[w] \subseteq EvsOf(t.base.objs))
      /\ (~Corruption => Good(w)) /\ t.seen = EvsOf(t.base.objs)
  <2>1. Repairs(t) /\ t.unread = {}
    BY <1>1, <1>2 DEF Repairs, NameInv
  <2>2. t.base.objs \ t.unread = t.base.objs
    BY <2>1
  <2>3. QED
    BY <1>2, <2>1, <2>2 DEF BaseInv
<1>4. /\ promised'[w] = promised[w] \cup (t.vis \cap cw)
      /\ \A v \in Windows : v # w => promised'[v] = promised[v]
  BY <1>1, <1>2
<1>5. ShardStreams = 1 => promised'[w] \subseteq EvsOf(t.base.objs) \cup EvsOf(t.objs)
  BY <1>1, <1>2, <1>3, <1>4 DEF SightInv
<1>6. OnTime(w)' = OnTime(w)
  BY <1>1 DEF OnTime, In
<1>7. CASE Appended(t) = {} /\ UNCHANGED <<manifest, proved>>
  <2>1. EvsOf(t.objs) = {}
    BY <1>7 DEF Appended, EvsOf
  <2>2. Good(w)' => Good(w) /\ manifest'[w] = t.base
    BY <1>3, <1>7 DEF Good
  <2>3. ManifestInv(w)'
    <3>1. ManifestInv(w)
      BY DEF DrainInv
    <3>2. QED
      BY <1>1, <1>3, <1>5, <1>6, <1>7, <2>1, <2>2, <3>1 DEF ManifestInv, Holds, Exact
  <2>4. [NoTask EXCEPT !.pc = "done"] \in Task
    BY NoTaskType DEF Task
  <2>5. /\ task'[j][w] = [NoTask EXCEPT !.pc = "done"]
        /\ \A i \in Jobs, v \in Windows : i # j \/ v # w => task'[i][v] = task[i][v]
    BY <1>1, <1>2, <2>4, SetTaskType
  <2>6. TaskInv(j, w)'
    BY <2>5, NotInFlight DEF NoTask
  <2>7. \A v \in Windows : v # w => WindowKept(v)
    BY <1>1, <1>4, <1>7 DEF WindowKept
  <2>8. Parts'
    BY <1>1, <2>3, <2>5, <2>6, <2>7, OneWindow
  <2>9. QED
    BY <1>1, <1>7, <2>8, StoreFrame
<1>8. CASE PutManifest(w, m)
  <2>1. /\ m.state = "good" /\ m.objs = t.base.objs \cup t.objs
        /\ m.count = t.base.count + Cardinality(EvsOf(t.objs))
    BY DEF Appended, EvsOf
  <2> HIDE DEF m
  <2>2. EvsOf(m.objs) = EvsOf(t.base.objs) \cup EvsOf(t.objs)
    BY <2>1, EvsOfUnion
  <2>3. manifest'[w] = m
    BY <1>2, <1>8 DEF PutManifest
  <2>4. \A b \in m.objs : b \in objects' /\ b.key[1] = w
    BY <1>1, <1>2, <1>3, <2>1 DEF NameInv, Holds
  <2>5. EvsOf(t.base.objs) \cap EvsOf(t.objs) = {}
    BY <1>1, <1>2, <1>3 DEF PlaceInv
  <2>6. Disjoint(m.objs)
    <3> SUFFICES ASSUME NEW a \in m.objs, NEW b \in m.objs, a # b PROVE a.evs \cap b.evs = {}
      BY DEF Disjoint
    <3>1. Disjoint(t.base.objs) /\ Disjoint(t.objs)
      BY <1>1, <1>2, <1>3 DEF PlaceInv, Exact
    <3>2. /\ \A x \in t.base.objs : x.evs \subseteq EvsOf(t.base.objs)
          /\ \A x \in t.objs : x.evs \subseteq EvsOf(t.objs)
      BY DEF EvsOf
    <3>3. CASE (a \in t.base.objs /\ b \in t.base.objs) \/ (a \in t.objs /\ b \in t.objs)
      BY <3>1, <3>3 DEF Disjoint
    <3>4. CASE (a \in t.base.objs /\ b \in t.objs) \/ (a \in t.objs /\ b \in t.base.objs)
      BY <2>5, <3>2, <3>4
    <3>5. QED
      BY <2>1, <3>3, <3>4
  <2>7. m.count = Cardinality(EvsOf(m.objs))
    <3>1. /\ IsFiniteSet(EvsOf(t.base.objs)) /\ IsFiniteSet(EvsOf(t.objs))
          /\ Cardinality(EvsOf(t.base.objs)) \in Nat /\ Cardinality(EvsOf(t.objs)) \in Nat
      <4>1. t.base.objs \in SUBSET Object /\ t.objs \in SUBSET Object
        BY <1>2 DEF Task, Manifest
      <4>2. QED
        BY <4>1, EventsOfType DEF EvsOf
    <3>2. Cardinality(EvsOf(t.base.objs) \cup EvsOf(t.objs)) =
            Cardinality(EvsOf(t.base.objs)) + Cardinality(EvsOf(t.objs))
            - Cardinality(EvsOf(t.base.objs) \cap EvsOf(t.objs))
      BY <3>1, FS_Union
    <3>3. Cardinality(EvsOf(t.base.objs) \cap EvsOf(t.objs)) = 0
      BY <2>5, FS_EmptySet
    <3>4. t.base.count = Cardinality(EvsOf(t.base.objs))
      BY <1>3 DEF Exact
    <3>5. Cardinality(EvsOf(t.base.objs) \cup EvsOf(t.objs)) =
            Cardinality(EvsOf(t.base.objs)) + Cardinality(EvsOf(t.objs))
      BY <3>1, <3>2, <3>3
    <3>6. Cardinality(EvsOf(m.objs)) = Cardinality(EvsOf(t.base.objs) \cup EvsOf(t.objs))
      BY <2>2
    <3>7. QED
      BY <2>1, <3>4, <3>5, <3>6
  <2>8. ShardStreams = 1 /\ ~Corruption => OnTime(w) \subseteq EvsOf(t.base.objs)
    BY <1>3 DEF DrainInv, ManifestInv
  <2>9. ManifestInv(w)'
    BY <1>5, <1>6, <2>2, <2>3, <2>4, <2>6, <2>7, <2>8 DEF ManifestInv, Holds, Exact
  <2>10. Good(w) => EvsOf(manifest[w].objs) \subseteq EvsOf(m.objs)
    BY <1>3, <2>2
  <2>11. QED
    BY <1>1, <1>4, <1>8, <2>1, <2>9, <2>10, PutManifestInv
<1>9. QED
  BY <1>7, <1>8 DEF FinishReconcile

-----------------------------------------------------------------------------
(* Part 4: theorems *)

\* The invariant holds at the start ...
LEMMA InitInv == Init => DrainInv
<1> SUFFICES ASSUME Init PROVE DrainInv
  OBVIOUS
<1>1. TypeOK
  BY InitType
<1>2. /\ job = [j \in Jobs |-> Idle] /\ task = [j \in Jobs |-> [w \in Windows |-> NoTask]]
      /\ manifest = [w \in Windows |-> NoManifest] /\ objects = {} /\ proved = {} /\ gateCut = 0
  BY DEF Init
<1>3. Serial /\ KeysUnique /\ Unsharded
  BY <1>2 DEF Serial, KeysUnique, Unsharded, Idle
<1>4. \A w \in Windows : ManifestInv(w)
  BY <1>2 DEF ManifestInv, Good, NoManifest
<1>5. \A j \in Jobs, w \in Windows : TaskInv(j, w)
  BY <1>2 DEF TaskInv, BaseInv, ReadInv, NameInv, PlaceInv, SightInv, Repairs, NoTask
<1>6. ProvedInv
  BY <1>2 DEF ProvedInv
<1>7. GateInv
  BY <1>2, DrainAssumption DEF DrainAssumption, GateInv, CoveringWindows, Idle
<1>8. QED
  BY <1>1, <1>3, <1>4, <1>5, <1>6, <1>7 DEF DrainInv

\* ... and after every step of the clock, of CloudWatch and of a run.
LEMMA NextInv ==
  ASSUME SerialRuns, DrainInv, [Next]_vars PROVE DrainInv'
<1>0. TypeOK'
  BY NextType DEF DrainInv
<1>1. CASE UNCHANGED vars
  BY <1>0, <1>1, QuietInv DEF vars
<1>2. CASE CloudWatch
  <2>1. CASE Tick
    BY <1>0, <2>1, QuietInv DEF Tick, StoreUnchanged
  <2>2. QED
    BY <1>0, <1>2, <2>1, IngestInv, ExpireInv, DamageInv DEF CloudWatch
<1>3. ASSUME NEW j \in Jobs, Run(j) PROVE DrainInv'
  <2>1. ASSUME NEW m \in Modes, NEW to \in RangeEnds, StartJob(j, m, to) PROVE DrainInv'
    BY <1>0, <2>1, StartJobInv
  <2>2. ASSUME NEW w \in Windows, Window(j, w) PROVE DrainInv'
    BY <1>0, <2>2, GetManifestInv, GetForReconcileInv, ReadObjectInv, RepageInv, FetchInv,
       PutChunkInv, FinishWindowInv, FinishReconcileInv DEF Window
  <2>3. CASE EndRun(j)
    BY <1>0, <2>3, EndRunInv
  <2>4. ASSUME NEW w \in job[j].need, CheckWindow(j, w) PROVE DrainInv'
    <3>1. w \in Windows
      BY DEF DrainInv, TypeOK, Job
    <3>2. QED
      BY <1>0, <2>4, <3>1, CheckWindowInv
  <2>5. CASE ApplyRetention(j)
    BY <1>0, <2>5, ApplyRetentionInv
  <2>6. CASE JobFails(j)
    <3>1. EndJob(j) /\ StoreUnchanged /\ UNCHANGED <<cw, ingested, late, gateCut>>
      BY <2>6 DEF JobFails, EnvUnchanged
    <3>2. QED
      BY <1>0, <3>1, EndJobInv DEF DrainInv, GateInv
  <2>7. QED
    BY <1>3, <2>1, <2>2, <2>3, <2>4, <2>5, <2>6 DEF Run
<1>4. QED
  BY <1>1, <1>2, <1>3 DEF Next

\* Hence always.
LEMMA SpecInv == ASSUME SerialRuns PROVE Spec => []DrainInv
<1>1. SerialRuns
  OBVIOUS
<1>2. DrainInv /\ [Next]_vars => DrainInv'
  BY <1>1, NextInv
<1>3. QED
  BY <1>2, InitInv, PTL DEF Spec

\* When runs do not overlap, every object that a valid manifest lists is in S3
\* with the body the manifest records, whatever runs crashed, were repeated or
\* repaired the window before: PutChunk never writes under a listed key.
THEOREM ManifestProvesAlways == ASSUME SerialRuns PROVE Spec => []ManifestProves
<1>1. DrainInv => ManifestProves
  BY DEF DrainInv, ManifestInv, ManifestProves, Holds
<1>2. QED
  BY <1>1, SpecInv, PTL

\* When runs do not overlap, a valid manifest lists no event twice and its
\* record_count is the number of its events, after any number of repairs.
THEOREM OnceInManifestAlways == ASSUME SerialRuns PROVE Spec => []OnceInManifest
<1>1. DrainInv => OnceInManifest
  BY DEF DrainInv, ManifestInv, OnceInManifest, Exact, Disjoint, EvsOf
<1>2. QED
  BY <1>1, SpecInv, PTL

\* One filter that all events pass (shard_streams 1, compute_shards returns no
\* shards).
OneFilter == ShardStreams = 1

\* When runs do not overlap and do not shard by stream, the objects of a valid
\* manifest hold every event that was visible from the first page of a pass over
\* the window until its manifest was written.
THEOREM ManifestCompleteAlways ==
  ASSUME SerialRuns, OneFilter PROVE Spec => []ManifestComplete
<1>1. DrainInv => ManifestComplete
  <2> SUFFICES ASSUME DrainInv, NEW w \in Windows, Good(w) PROVE promised[w] \subseteq Archived(w)
    BY DEF ManifestComplete
  <2>1. EvsOf(manifest[w].objs) \subseteq Archived(w)
    BY DEF DrainInv, ManifestInv, Holds, EvsOf, Archived
  <2>2. QED
    BY <2>1 DEF OneFilter, DrainInv, ManifestInv
<1>2. QED
  BY <1>1, SpecInv, PTL

\* No manifest object is damaged in S3.
SoundStore == ~Corruption

\* When runs do not overlap and no manifest is damaged, an event that some
\* manifest has listed stays in S3: no later run replaces its object.
THEOREM ProvedKeptAlways ==
  ASSUME SerialRuns, SoundStore PROVE Spec => []ProvedKept
<1>1. DrainInv => ProvedKept
  <2> SUFFICES ASSUME DrainInv, NEW e \in proved PROVE e \in Stored
    BY DEF ProvedKept
  <2>1. PICK w \in Windows : Good(w) /\ e \in EvsOf(manifest[w].objs)
    BY DEF SoundStore, DrainInv, ProvedInv
  <2>2. manifest[w].objs \subseteq objects
    BY <2>1 DEF DrainInv, ManifestInv, Holds
  <2>3. QED
    BY <2>1, <2>2 DEF EvsOf, Stored
<1>2. QED
  BY <1>1, SpecInv, PTL

\* No event is older than its group.
BornInGroup == \A e \in Events : Ts[e] >= Created

\* When runs do not overlap, do not shard by stream and no manifest is damaged,
\* what CloudWatch deletes of the time before a cutoff that the retention gate
\* let through is in S3, unless it was delivered after its window was paged.
THEOREM ExpiryArchivedAlways ==
  ASSUME SerialRuns, OneFilter, SoundStore, BornInGroup PROVE Spec => ExpiryArchived
<1>1. ASSUME DrainInv, [Next]_vars, NEW e \in cw \ cw', Ts[e] < gateCut, e \notin late
      PROVE  e \in Stored
  <2> DEFINE w == WindowOf(e)
  <2>0. e \in Events
    BY <1>1 DEF DrainInv, TypeOK
  <2>1. Ts[e] \in Nat /\ WindowLen \in Nat \ {0} /\ Created \in Nat /\ gateCut \in Nat
    BY <1>1, <2>0, DrainAssumption DEF DrainAssumption, DrainInv, TypeOK
  <2>2. w \in Windows /\ (w + 1) * WindowLen > Created /\ w \in Nat
    BY <2>0, DrainAssumption DEF DrainAssumption, WindowOf
  <2>3. w * WindowLen <= Ts[e]
    BY <2>1, Z3 DEF WindowOf
  <2>4. w * WindowLen < gateCut /\ ~(gateCut <= Created)
    <3>1. w * WindowLen \in Int
      BY <2>1, <2>2
    <3>2. Ts[e] >= Created
      BY <2>0 DEF BornInGroup
    <3> HIDE DEF w
    <3>3. QED
      BY <1>1, <2>1, <2>3, <3>1, <3>2
  <2>5. w \in CoveringWindows(gateCut)
    BY <2>2, <2>4 DEF CoveringWindows
  <2>6. Good(w)
    BY <1>1, <2>5 DEF DrainInv, GateInv, SoundStore
  <2>7. e \in OnTime(w)
    BY <1>1, <2>0 DEF OnTime, In
  <2> HIDE DEF w
  <2>8. e \in EvsOf(manifest[w].objs) /\ manifest[w].objs \subseteq objects
    BY <1>1, <2>2, <2>6, <2>7 DEF DrainInv, ManifestInv, OneFilter, SoundStore, Holds
  <2>9. QED
    BY <2>8 DEF EvsOf, Stored
<1>2. DrainInv /\ [Next]_vars =>
        [\A e \in cw \ cw' : Ts[e] < gateCut /\ e \notin late => e \in Stored]_vars
  BY <1>1
<1>3. QED
  BY <1>2, SpecInv, PTL DEF Spec, ExpiryArchived
=============================================================================
