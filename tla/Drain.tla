------------------------------- MODULE Drain -------------------------------
(***************************************************************************)
(* Mode A: draining one CloudWatch log group to S3                         *)
(* (crates/s4logs-drain/src/{job,reconcile,retention,manifest,shard}.rs    *)
(* and the command that runs them, crates/s4logs-cli/src/commands/drain.rs) *)
(*                                                                         *)
(* A run pages every complete window of the group, writes its events to    *)
(* data objects and then a manifest that stands for "this window is        *)
(* archived".  A later run skips a window with a valid manifest; a         *)
(* reconcile run reads the archived objects back, pages the window again   *)
(* and appends what is missing.  After a successful run the retention gate *)
(* may shorten the group's retention, and CloudWatch then deletes what is  *)
(* older.                                                                  *)
(*                                                                         *)
(* Window w is [w * WindowLen, (w + 1) * WindowLen).  An event is its own  *)
(* event_id, and one unit of the chunk size.  Dry runs write nothing and   *)
(* are left out.                                                           *)
(***************************************************************************)
EXTENDS Integers, FiniteSets, SequencesExt

CONSTANTS
  Events,       \* events that may be delivered to CloudWatch
  Ts,           \* their timestamps
  StreamOf,     \* their log streams, numbered in the order of their names
  Windows,      \* indices of the windows of the grid
  WindowLen,    \* DrainOptions::window_ms
  Created,      \* creation time of the log group
  Margin,       \* DrainOptions::now_cutoff_ms
  ChunkTarget,  \* DrainOptions::chunk_target_bytes
  Concurrency,  \* DrainOptions::concurrency
  ShardStreams, \* DrainOptions::shard_streams
  MAX_STREAMS_PER_FILTER,
  Tos,          \* ends of the range that a run may be given with --to
  Jobs,         \* processes that run `s4logs drain`, one run after the other
  Modes,        \* "drain" and, with --reconcile, "reconcile"
  Overlap,      \* may two runs overlap in time?
  Days,         \* --retention-days
  Forever,      \* a retention that deletes nothing
  InitialRetention,
  MaxAttempt,   \* 99 reconcile attempts per window
  Corruption,   \* may a manifest object be damaged?
  MaxNow,       \* bound on the clock
  MaxFaults     \* bound on failures

ASSUME DrainAssumption ==
  /\ IsFiniteSet(Events)
  /\ Ts \in [Events -> Nat] /\ StreamOf \in [Events -> Nat] /\ Tos \subseteq Nat
  /\ Windows \subseteq Nat
  /\ WindowLen \in Nat \ {0} /\ ChunkTarget \in Nat \ {0} /\ Concurrency \in Nat \ {0}
  /\ Created \in Nat /\ Margin \in Nat /\ Days \in Nat \ {0}
  /\ MaxAttempt \in Nat /\ MaxNow \in Nat /\ MaxFaults \in Nat
  /\ Forever \notin Nat /\ InitialRetention \in Nat \cup {Forever}
  /\ Modes \subseteq {"drain", "reconcile"}
  /\ ShardStreams \in Nat \ {0} /\ MAX_STREAMS_PER_FILTER \in Nat \ {0}
  /\ Overlap \in BOOLEAN /\ Corruption \in BOOLEAN
  /\ \A e \in Events : Ts[e] \div WindowLen \in Windows
                        /\ (Ts[e] \div WindowLen + 1) * WindowLen > Created

VARIABLES
  now,          \* wall clock
  cw,           \* events FilterLogEvents can return
  ingested,     \* events ever delivered
  retention,    \* the group's retention
  objects,      \* data objects in S3, with their sidecars
  manifest,     \* per window: the manifest object
  job,          \* per process: its run
  task,         \* per process and window: process_window
  faults,       \* failures so far
  (* history *)
  late,         \* delivered when the drain of their window had begun
  promised,     \* per window: visible from the first page to the manifest
  proved,       \* events some manifest has listed
  gateCut       \* the latest cutoff the gate has let through

vars == <<now, cw, ingested, retention, objects, manifest, job, task, faults,
          late, promised, proved, gateCut>>

WindowOf(e) == Ts[e] \div WindowLen

In(w) == {e \in Events : WindowOf(e) = w}

Streams == {StreamOf[e] : e \in Events}

\* ObjectNaming: attempt 0 is a base name, attempt n > 0 the name -r{n}{seq}.
Key == Windows \X (0 .. MaxAttempt) \X Nat

\* A data object, and the entry that a manifest keeps of it: the entry's
\* checksum and length tell whether the body is still the one it was.
Object == [key: Key, evs: SUBSET Events]

Manifest == [state: {"none", "good", "corrupt"}, objs: SUBSET Object, count: Nat]

NoManifest == [state |-> "none", objs |-> {}, count |-> 0]

Good(w) == manifest[w].state = "good"

Idle == [pc |-> "idle", mode |-> "drain", shards |-> << >>, cutoff |-> 0,
         need |-> {}]

NoTask == [pc |-> "none", base |-> NoManifest, unread |-> {}, seen |-> {}, att |-> 0,
           left |-> {}, vis |-> {}, buf |-> {}, seq |-> 0, objs |-> {}]

Init ==
  /\ now = 0
  /\ cw = {}
  /\ ingested = {}
  /\ retention = InitialRetention
  /\ objects = {}
  /\ manifest = [w \in Windows |-> NoManifest]
  /\ job = [j \in Jobs |-> Idle]
  /\ task = [j \in Jobs |-> [w \in Windows |-> NoTask]]
  /\ faults = 0
  /\ late = {}
  /\ promised = [w \in Windows |-> {}]
  /\ proved = {}
  /\ gateCut = 0

-----------------------------------------------------------------------------
Stored == UNION {o.evs : o \in objects}

Body(k) == {o \in objects : o.key = k}

\* What the objects that a manifest names hold now.
Archived(w) == UNION {o.evs : o \in {o \in objects : \E m \in manifest[w].objs : m.key = o.key}}

Fault == faults < MaxFaults /\ faults' = faults + 1

SetTask(j, w, t) == task' = [task EXCEPT ![j][w] = t]

EnvUnchanged == UNCHANGED <<now, cw, ingested, retention, late, gateCut>>
StoreUnchanged == UNCHANGED <<objects, manifest, promised, proved>>

-----------------------------------------------------------------------------
(* CloudWatch *)

Tick ==
  /\ now < MaxNow
  /\ now' = now + 1
  /\ UNCHANGED <<cw, ingested, retention, job, task, faults, late, gateCut>>
  /\ StoreUnchanged

IsPaging(j, w) == task[j][w].pc \in {"page", "put"}

OldEnough(e, days) == days # Forever /\ Ts[e] < now - days

\* An event becomes visible, at its time or later.
Ingest(e) ==
  /\ e \notin ingested /\ Ts[e] <= now /\ ~OldEnough(e, retention)
  /\ cw' = cw \cup {e}
  /\ ingested' = ingested \cup {e}
  /\ late' = IF Good(WindowOf(e)) \/ \E j \in Jobs : IsPaging(j, WindowOf(e))
             THEN late \cup {e} ELSE late
  /\ UNCHANGED <<now, retention, job, task, faults, gateCut>> /\ StoreUnchanged

\* CloudWatch deletes an event that is older than the retention.
Expire(e) ==
  /\ e \in cw /\ OldEnough(e, retention)
  /\ cw' = cw \ {e}
  /\ UNCHANGED <<now, ingested, retention, job, task, faults, late, gateCut>>
  /\ StoreUnchanged

\* A manifest object that no longer decodes, or is of another version.
Damage(w) ==
  /\ Corruption /\ Good(w) /\ Fault
  /\ manifest' = [manifest EXCEPT ![w] = [state |-> "corrupt", objs |-> {}, count |-> 0]]
  /\ UNCHANGED <<objects, job, task, promised, proved>> /\ EnvUnchanged

-----------------------------------------------------------------------------
(* A run: resolve_range, compute_shards, windows, process_window *)

\* windows: the complete windows of [Created, to).
CompleteWindows(to) ==
  {w \in Windows : (w + 1) * WindowLen > Created /\ (w + 1) * WindowLen <= to}

\* list_log_streams, all pages: the streams in the order of their names.
Listed ==
  LET known == {StreamOf[e] : e \in ingested}
  IN CHOOSE s \in [1 .. Cardinality(known) -> known] :
       \A i, k \in DOMAIN s : i < k => s[i] < s[k]

\* partition_streams: round robin, and more shards than were asked for if a
\* filter could not name all the streams of one.
partition_streams(streams) ==
  LET len  == Len(streams)
      ceil == (len + MAX_STREAMS_PER_FILTER - 1) \div MAX_STREAMS_PER_FILTER
      want == IF ShardStreams > ceil THEN ShardStreams ELSE ceil
      n    == IF want < len THEN want ELSE len
  IN [i \in 1 .. n |-> {streams[k] : k \in {k \in DOMAIN streams : (k - 1) % n = i - 1}}]

\* compute_shards: none if one filter would name every stream.
Shards ==
  IF ShardStreams = 1 \/ Len(partition_streams(Listed)) < 2 THEN << >>
  ELSE partition_streams(Listed)

\* resolve_range: by default the range ends a margin before now.
RangeEnds == {now - Margin} \cup Tos

StartJob(j, m, to) ==
  /\ job[j].pc = "idle"
  /\ Overlap \/ \A i \in Jobs : job[i].pc = "idle"
  /\ job' = [job EXCEPT ![j] = [Idle EXCEPT !.pc = "run", !.mode = m, !.shards = Shards]]
  /\ task' = [task EXCEPT ![j] = [w \in Windows |->
                IF w \in CompleteWindows(to) THEN [NoTask EXCEPT !.pc = "todo"]
                ELSE NoTask]]
  /\ UNCHANGED faults /\ EnvUnchanged /\ StoreUnchanged

\* The run ends, with whatever windows were in flight dropped at their await.
EndJob(j) ==
  /\ job' = [job EXCEPT ![j] = Idle]
  /\ task' = [task EXCEPT ![j] = [w \in Windows |-> NoTask]]

InFlight(j) == {w \in Windows : task[j][w].pc \notin {"none", "todo", "done"}}

\* buffer_unordered(concurrency): a window may begin.
MayBegin(j) == job[j].pc = "run" /\ Cardinality(InFlight(j)) < Concurrency

\* Does one of the run's filters let the event pass?
Filtered(j, e) == job[j].shards = << >> \/ \E s \in ToSet(job[j].shards) : StreamOf[e] \in s

\* The task starts to page its window.
Paging(j, w, t) ==
  [t EXCEPT !.pc = "page", !.left = {e \in In(w) : Filtered(j, e)}, !.vis = cw \cap In(w)]

\* Mutant: whatever object is at the manifest's key.
AnyManifest(w) == manifest[w].state # "none"

\* Mutant: a window is never skipped.
NoManifestCovers(w) == FALSE

\* manifest_covers_window
Covers(w) == Good(w)

\* DrainJob::process_window: skip on a valid manifest, else page from scratch.
GetManifest(j, w) ==
  /\ \/ MayBegin(j) /\ task[j][w].pc = "todo" /\ job[j].mode = "drain"
     \/ task[j][w].pc = "drain"
  /\ SetTask(j, w, IF Covers(w) THEN [NoTask EXCEPT !.pc = "done"] ELSE Paging(j, w, NoTask))
  /\ UNCHANGED <<job, faults>> /\ EnvUnchanged /\ StoreUnchanged

\* ReconcileJob::process_window: drain a window without manifest, fail on one
\* that does not decode, else read the archive back.
GetForReconcile(j, w) ==
  /\ MayBegin(j) /\ task[j][w].pc = "todo" /\ job[j].mode = "reconcile"
  /\ \/ /\ manifest[w].state = "none"
        /\ SetTask(j, w, [NoTask EXCEPT !.pc = "drain"])
        /\ UNCHANGED job
     \/ /\ manifest[w].state = "corrupt"
        /\ EndJob(j)
     \/ /\ Good(w)
        /\ SetTask(j, w, [NoTask EXCEPT !.pc = "read", !.base = manifest[w],
                                        !.unread = manifest[w].objs])
        /\ UNCHANGED job
  /\ UNCHANGED faults /\ EnvUnchanged /\ StoreUnchanged

\* decode_object checks the size of what it decodes, not its checksum.
Decodes(m, o) == Cardinality(o.evs) = Cardinality(m.evs)

\* reconcile_window, 1: one object of the manifest is read back.
ReadObject(j, w, m) ==
  LET t == task[j][w]
  IN /\ t.pc = "read" /\ m \in t.unread
     /\ \/ /\ \E o \in Body(m.key) :
                /\ Decodes(m, o)
                /\ SetTask(j, w, [t EXCEPT !.unread = @ \ {m}, !.seen = @ \cup o.evs])
           /\ UNCHANGED job
        \/ /\ \A o \in Body(m.key) : ~Decodes(m, o)
           /\ EndJob(j)
     /\ UNCHANGED faults /\ EnvUnchanged /\ StoreUnchanged

\* Mutant: every reconcile is the first.
FirstAttempt(m) == 1

\* next_attempt
NextAttempt(m) ==
  CHOOSE a \in 1 .. MaxAttempt + 1 :
    /\ \A o \in m.objs : o.key[2] < a
    /\ a = 1 \/ \E o \in m.objs : o.key[2] = a - 1

\* Mutant: no limit on the attempts.
RepageUnlimited(j, w) ==
  LET t == task[j][w]
  IN /\ t.pc = "read" /\ t.unread = {}
     /\ SetTask(j, w, Paging(j, w, [t EXCEPT !.att = NextAttempt(t.base)]))
     /\ UNCHANGED <<job, faults>> /\ EnvUnchanged /\ StoreUnchanged

\* reconcile_window, 2: all is read; page the window under a free attempt.
Repage(j, w) ==
  LET t == task[j][w]
      a == NextAttempt(t.base)
  IN /\ t.pc = "read" /\ t.unread = {}
     /\ \/ a <= MaxAttempt /\ SetTask(j, w, Paging(j, w, [t EXCEPT !.att = a])) /\ UNCHANGED job
        \/ a > MaxAttempt /\ EndJob(j)
     /\ UNCHANGED faults /\ EnvUnchanged /\ StoreUnchanged

\* page_stream: the two events are paged by the same chain of calls.
SameShard(j, e, f) ==
  job[j].shards = << >> \/ \E s \in ToSet(job[j].shards) : {StreamOf[e], StreamOf[f]} \subseteq s

\* event_pages: the events of a shard come in the order of their timestamps.
NextPage(j, t) == {e \in t.left : \A f \in t.left : SameShard(j, e, f) => Ts[e] <= Ts[f]}

\* Mutant: a reconcile appends every event that it pages.
AppendedAlways(t, e) == e \in cw

\* The page has the event and the archive, as far as it was read back, has not.
IsMissing(t, e) == e \in cw /\ e \notin t.seen

\* A page: a missing event is pushed; a full writer is flushed before the next.
Fetch(j, w, e) ==
  LET t   == task[j][w]
      buf == IF IsMissing(t, e) THEN t.buf \cup {e} ELSE t.buf
  IN /\ t.pc = "page" /\ e \in NextPage(j, t)
     /\ SetTask(j, w, [t EXCEPT !.left = @ \ {e}, !.buf = buf,
                                !.pc = IF Cardinality(buf) >= ChunkTarget THEN "put" ELSE "page"])
     /\ UNCHANGED <<job, faults>> /\ EnvUnchanged /\ StoreUnchanged

\* WindowWriter::flush: the data object and its sidecars are written.
PutChunk(j, w) ==
  LET t == task[j][w]
      o == [key |-> <<w, t.att, t.seq>>, evs |-> t.buf]
  IN /\ t.pc = "put" \/ (t.pc = "page" /\ t.left = {})
     /\ t.buf # {}
     /\ objects' = (objects \ Body(o.key)) \cup {o}
     /\ SetTask(j, w, [t EXCEPT !.pc = "page", !.buf = {}, !.seq = @ + 1,
                                !.objs = @ \cup {o}])
     /\ UNCHANGED <<manifest, promised, proved, job, faults>> /\ EnvUnchanged

Appended(t) == UNION {o.evs : o \in t.objs}

\* Mutant: the last, partial chunk is not flushed.
PagesDone(t) == t.pc = "page" /\ t.left = {}

\* All pages are read and the writer is flushed.
WindowDone(t) == t.pc = "page" /\ t.left = {} /\ t.buf = {}

\* The manifest object is replaced.
PutManifest(w, m) ==
  /\ manifest' = [manifest EXCEPT ![w] = m]
  /\ proved' = proved \cup UNION {o.evs : o \in m.objs}

\* process_window, last: the window's manifest, also when it has no events.
FinishWindow(j, w) ==
  LET t == task[j][w]
  IN /\ WindowDone(t) /\ t.att = 0
     /\ PutManifest(w, [state |-> "good", objs |-> t.objs,
                        count |-> Cardinality(Appended(t))])
     /\ promised' = [promised EXCEPT ![w] = t.vis \cap cw]
     /\ SetTask(j, w, [NoTask EXCEPT !.pc = "done"])
     /\ UNCHANGED <<objects, job, faults>> /\ EnvUnchanged

\* reconcile_window, 3: the manifest that was read, with what was appended; none
\* is written if nothing was missing.
FinishReconcile(j, w) ==
  LET t == task[j][w]
  IN /\ WindowDone(t) /\ t.att > 0
     /\ \/ Appended(t) = {} /\ UNCHANGED <<manifest, proved>>
        \/ /\ Appended(t) # {}
           /\ PutManifest(w, [state |-> "good", objs |-> t.base.objs \cup t.objs,
                              count |-> t.base.count + Cardinality(Appended(t))])
     /\ promised' = [promised EXCEPT ![w] = @ \cup (t.vis \cap cw)]
     /\ SetTask(j, w, [NoTask EXCEPT !.pc = "done"])
     /\ UNCHANGED <<objects, job, faults>> /\ EnvUnchanged

\* A call fails for good, or the process dies: nothing is undone.
JobFails(j) ==
  /\ job[j].pc # "idle" /\ Fault
  /\ EndJob(j)
  /\ EnvUnchanged /\ StoreUnchanged

-----------------------------------------------------------------------------
(* The retention gate *)

\* Mutant: the gate asks only for the windows that end before the cutoff.
CompleteBefore(cut) ==
  {w \in Windows : (w + 1) * WindowLen > Created /\ (w + 1) * WindowLen <= cut}

\* windows_covering: every window that starts before the cutoff.
CoveringWindows(cut) ==
  IF cut <= Created THEN {}
  ELSE {w \in Windows : (w + 1) * WindowLen > Created /\ w * WindowLen < cut}

\* All windows are done: the run ends, or goes on to the gate.
EndRun(j) ==
  /\ job[j].pc = "run" /\ \A w \in Windows : task[j][w].pc \in {"none", "done"}
  /\ \/ EndJob(j)
     \/ /\ job' = [job EXCEPT ![j].pc = "gate", ![j].cutoff = now - Days,
                              ![j].need = CoveringWindows(now - Days)]
        /\ UNCHANGED task
  /\ UNCHANGED faults /\ EnvUnchanged /\ StoreUnchanged

\* plan_retention looks at one required window.  A gap ends the run: the rest
\* of the plan is only reported.
CheckWindow(j, w) ==
  /\ job[j].pc = "gate" /\ w \in job[j].need
  /\ \/ Covers(w) /\ job' = [job EXCEPT ![j].need = @ \ {w}] /\ UNCHANGED task
     \/ ~Covers(w) /\ EndJob(j)
  /\ UNCHANGED faults /\ EnvUnchanged /\ StoreUnchanged

\* enforce_retention with apply; without it the run ends as in EndRun.
ApplyRetention(j) ==
  /\ job[j].pc = "gate" /\ job[j].need = {}
  /\ retention' = Days
  /\ gateCut' = IF job[j].cutoff > gateCut THEN job[j].cutoff ELSE gateCut
  /\ EndJob(j)
  /\ UNCHANGED <<now, cw, ingested, late, faults>> /\ StoreUnchanged

-----------------------------------------------------------------------------
Window(j, w) ==
  \/ GetManifest(j, w) \/ GetForReconcile(j, w)
  \/ \E m \in task[j][w].unread : ReadObject(j, w, m)
  \/ Repage(j, w)
  \/ \E e \in task[j][w].left : Fetch(j, w, e)
  \/ PutChunk(j, w) \/ FinishWindow(j, w) \/ FinishReconcile(j, w)

Run(j) ==
  \/ \E m \in Modes, to \in RangeEnds : StartJob(j, m, to)
  \/ \E w \in Windows : Window(j, w)
  \/ EndRun(j) \/ \E w \in job[j].need : CheckWindow(j, w)
  \/ ApplyRetention(j) \/ JobFails(j)

CloudWatch ==
  \/ Tick
  \/ \E e \in Events : Ingest(e) \/ Expire(e)
  \/ \E w \in Windows : Damage(w)

Next == CloudWatch \/ \E j \in Jobs : Run(j)

Spec == Init /\ [][Next]_vars

\* A started run goes on until it ends.
Progress(j) ==
  \/ \E w \in Windows : Window(j, w)
  \/ EndRun(j) \/ \E w \in job[j].need : CheckWindow(j, w)
  \/ ApplyRetention(j)

\* Time passes, and the operator keeps scheduling runs of each mode.
FairSpec ==
  /\ Spec
  /\ WF_vars(Tick)
  /\ \A j \in Jobs : WF_vars(Progress(j)) /\ \A m \in Modes : SF_vars(StartJob(j, m, now - Margin))

-----------------------------------------------------------------------------
(* Properties *)

Task ==
  [pc: {"none", "todo", "drain", "read", "page", "put", "done"},
   base: Manifest, unread: SUBSET Object, seen: SUBSET Events, att: 0 .. MaxAttempt,
   left: SUBSET Events, vis: SUBSET Events, buf: SUBSET Events, seq: Nat,
   objs: SUBSET Object]

Job ==
  [pc: {"idle", "run", "gate"}, mode: {"drain", "reconcile"}, shards: Seq(SUBSET Streams),
   cutoff: Int, need: SUBSET Windows]

\* Every variable has its type; a reconcile never names an object with an
\* attempt beyond the two digits of its name (reconcile.rs, attempt > 99).
TypeOK ==
  /\ now \in 0 .. MaxNow
  /\ cw \subseteq ingested /\ ingested \subseteq Events
  /\ retention \in Nat \cup {Forever}
  /\ objects \subseteq Object
  /\ manifest \in [Windows -> Manifest]
  /\ job \in [Jobs -> Job]
  /\ task \in [Jobs -> [Windows -> Task]]
  /\ faults \in 0 .. MaxFaults
  /\ late \subseteq Events /\ proved \subseteq Events
  /\ promised \in [Windows -> SUBSET Events]
  /\ gateCut \in Nat

\* Each object a valid manifest lists is in S3 with the body the manifest
\* records: no crashed, repeated or repairing run has overwritten it.
ManifestProves == \A w \in Windows : Good(w) => manifest[w].objs \subseteq objects

\* A valid manifest's objects hold every event that was visible from the first
\* page of a pass over the window until its manifest was written.
ManifestComplete == \A w \in Windows : Good(w) => promised[w] \subseteq Archived(w)

\* A valid manifest lists no event twice, however often the window was
\* repaired, and its record_count counts the events.
OnceInManifest ==
  \A w \in Windows : Good(w) =>
    /\ \A a, b \in manifest[w].objs : a # b => a.evs \cap b.evs = {}
    /\ manifest[w].count = Cardinality(UNION {o.evs : o \in manifest[w].objs})

\* An event that some manifest has listed stays in S3.
ProvedKept == proved \subseteq Stored

\* When CloudWatch deletes an event from before the cutoff that the gate let
\* through, it is in S3, unless it was delivered after its window was paged.
ExpiryArchived ==
  [][\A e \in cw \ cw' : Ts[e] < gateCut /\ e \notin late => e \in Stored]_vars

\* An event that CloudWatch keeps is listed by a valid manifest in the end, on
\* time or late, after failed runs and after damage to a manifest.
EventuallyArchived ==
  \A e \in Events : e \in cw ~>
    \/ Good(WindowOf(e)) /\ e \in Archived(WindowOf(e))
    \/ e \notin cw
=============================================================================
