-------------------------------- MODULE Scan --------------------------------
(***************************************************************************)
(* Reading the archive: `s4logs grep` and `s4logs restore`                 *)
(* (crates/s4logs-cli/src/scan.rs, commands/restore.rs, over the objects   *)
(* that crates/s4logs-core/src/{chunk,store,read}.rs write and read).      *)
(*                                                                         *)
(* A scan lists the chunks of the days that a range touches, loads their   *)
(* sidecars, keeps the frames whose time bounds overlap the range, and     *)
(* merges the chunks in the order of time while it fetches them lazily.    *)
(* A restore packs what the merge emits into PutLogEvents batches.         *)
(* Meanwhile writers put further chunks: data first, then the sidecars.    *)
(*                                                                         *)
(* Chunks are numbered in the order in which a scan arranges their keys    *)
(* (log group, day, name).  A message is its length and whether the        *)
(* pattern matches it.                                                     *)
(***************************************************************************)
EXTENDS Integers, Sequences, SequencesExt, SortAndSum

CONSTANTS
  Records,
  Ts, StreamOf,   \* timestamp and stream of a record
  Size,           \* length of its message
  Matches,        \* records that grep's pattern matches
  Chunks,         \* keys of data objects
  DayOf,          \* their dt= partitions
  DayMs,
  FrameTarget,    \* ChunkConfig::frame_target_bytes, in records
  Commands,       \* [mode, from, to]: grep, restore to a file, or to a log group,
                  \* wrapped or raw
  WrapLen,        \* what the wrap adds to a message
  EVENT_OVERHEAD_BYTES, MAX_BATCH_EVENTS, MAX_BATCH_BYTES, MAX_BATCH_SPAN_MS,
  PUT_MAX_ATTEMPTS,
  OldBefore,      \* CloudWatch refuses events before this time as too old,
  ExpiredBefore,  \* before this one, by the target's retention, as expired,
  NewFrom,        \* and from this one on as too new
  MaxFaults       \* bound on lost sidecars and failed calls

ASSUME ScanAssumption ==
  /\ IsFiniteSet(Records)
  /\ Ts \in [Records -> Nat] /\ StreamOf \in [Records -> Nat] /\ Size \in [Records -> Nat]
  /\ Matches \subseteq Records
  /\ Chunks \subseteq Nat /\ DayOf \in [Chunks -> Nat]
  /\ DayMs \in Nat \ {0} /\ FrameTarget \in Nat \ {0}
  /\ Commands \subseteq [mode: {"grep", "file", "wrap", "raw"}, from: Nat, to: Nat]
  /\ OldBefore \in Nat /\ ExpiredBefore \in Nat /\ NewFrom \in Nat
  /\ OldBefore <= NewFrom /\ ExpiredBefore <= NewFrom
  /\ PUT_MAX_ATTEMPTS \in Nat \ {0} /\ MAX_BATCH_EVENTS \in Nat \ {0} /\ MaxFaults \in Nat
  /\ WrapLen \in Nat /\ EVENT_OVERHEAD_BYTES \in Nat
  /\ MAX_BATCH_BYTES \in Nat /\ MAX_BATCH_SPAN_MS \in Nat

VARIABLES
  frames,    \* per chunk: the frames of its data object, none before its PUT
  sidecars,  \* per chunk: are S4IX and S4LT there and do they fit?
  phase,     \* of the command
  cmd,       \* the command
  dates,     \* days still to be listed
  locs,      \* listed chunks still to be opened
  sources,   \* ChunkSources: chunk and fetch units
  batches,   \* decoded records per source
  heap,      \* head record of each source
  refill,    \* sources that must give their next record before a pop
  popped,    \* the record to be returned after its source's refill
  batch,     \* EventBatcher
  sending,   \* the batch at PutLogEvents
  attempt,
  ensured,   \* BatchSender: the target group and stream were created
  rejected,  \* BatchSender: events that CloudWatch refused
  faults,
  (* history *)
  must,      \* records in S3 when the scan began
  out,       \* records emitted
  sent       \* batches that CloudWatch took

store == <<frames, sidecars>>
listing == <<dates, locs, sources>>
merge == <<batches, heap, refill, popped>>
restore == <<batch, sending, attempt, ensured, rejected, sent>>
vars == <<store, phase, cmd, listing, merge, restore, faults, must, out>>

Archived == UNION {UNION {ToSet(f.recs) : f \in ToSet(frames[c])} : c \in Chunks}

Fault == faults < MaxFaults /\ faults' = faults + 1

NoCommand == [mode |-> "grep", from |-> 0, to |-> 0]

Init ==
  /\ frames = [c \in Chunks |-> << >>]
  /\ sidecars = [c \in Chunks |-> FALSE]
  /\ phase = "idle" /\ cmd = NoCommand
  /\ dates = {} /\ locs = {} /\ sources = << >>
  /\ batches = << >> /\ heap = {} /\ refill = << >> /\ popped = << >>
  /\ batch = << >> /\ sending = << >> /\ attempt = 1 /\ sent = << >>
  /\ ensured = FALSE /\ rejected = 0
  /\ faults = 0
  /\ must = {} /\ out = << >>

-----------------------------------------------------------------------------
(* Chunks: chunk.rs and put_chunk *)

Least(S) == CHOOSE x \in S : \A y \in S : x <= y
Most(S) == CHOOSE x \in S : \A y \in S : y <= x

\* Mutant: bounds as if records came in the order of time.
FrameOfFirstAndLast(s) == [recs |-> s, min |-> Ts[s[1]], max |-> Ts[s[Len(s)]]]

\* A zstd frame and its S4LT entry.
Frame(s) ==
  LET times == {Ts[r] : r \in ToSet(s)}
  IN [recs |-> s, min |-> Least(times), max |-> Most(times)]

\* ChunkWriter::push cuts a frame when its target is reached.
Push(w, r) ==
  LET pending == Append(w.pending, r)
  IN IF Len(pending) >= FrameTarget
     THEN [cut |-> Append(w.cut, Frame(pending)), pending |-> << >>]
     ELSE [w EXCEPT !.pending = pending]

\* ChunkWriter::encode: the frames cut so far and the pending rest.
Encode(w) == IF w.pending = << >> THEN w.cut ELSE Append(w.cut, Frame(w.pending))

\* Once the listed chunks are open, a scan reads only the bodies of these, and no
\* key is written twice here: what writers do then is left out.
Open == phase \in {"idle", "list"}

\* put_chunk, 1: the data object of some records of its day, in any order.
PutData(c) ==
  /\ Open /\ frames[c] = << >>
  /\ \E s \in SetToAllKPermutations({r \in Records \ Archived : Ts[r] \div DayMs = DayOf[c]}) :
       /\ s # << >>
       /\ frames' = [frames EXCEPT ![c] = Encode(FoldLeft(Push, [cut |-> << >>, pending |-> << >>], s))]
  /\ UNCHANGED <<sidecars, phase, cmd, listing, merge, restore, faults, must, out>>

\* put_chunk, 2 and 3: with the second sidecar a reader can use them.
PutSidecars(c) ==
  /\ Open /\ frames[c] # << >> /\ ~sidecars[c]
  /\ sidecars' = [sidecars EXCEPT ![c] = TRUE]
  /\ UNCHANGED <<frames, phase, cmd, listing, merge, restore, faults, must, out>>

-----------------------------------------------------------------------------
(* Listing and pruning *)

dates_in_range(from, to) ==
  IF from >= to THEN {} ELSE from \div DayMs .. (to - 1) \div DayMs

\* A range that is empty is a usage error.
StartScan(c) ==
  /\ phase = "idle" /\ c.from < c.to
  /\ phase' = "list" /\ cmd' = c
  /\ dates' = dates_in_range(c.from, c.to)
  /\ must' = Archived
  /\ UNCHANGED <<store, locs, sources, merge, restore, faults, out>>

\* list_keys under a dt= partition
list_keys(d) == {c \in Chunks : frames[c] # << >> /\ DayOf[c] = d}

\* list_range_chunks, one LIST per dt= partition.
ListDate(d) ==
  /\ phase = "list" /\ d \in dates /\ d = Least(dates)
  /\ dates' = dates \ {d}
  /\ locs' = locs \cup list_keys(d)
  /\ UNCHANGED <<store, phase, cmd, sources, merge, restore, faults, must, out>>

\* TimeRange::overlaps
Overlaps(f) == f.min < cmd.to /\ f.max >= cmd.from

\* Mutant: frames that share a time are decoded one after the other.
JoinsIfBefore(last, f) == f.min < last.max

\* A frame that begins within the last cluster belongs to it.
Joins(last, f) == f.min <= last.max

\* cluster_spans: adds frame i of chunk c.
AddSpan(c, clusters, i) ==
  LET f == frames[c][i]
      n == Len(clusters)
  IN IF n > 0 /\ Joins(clusters[n], f)
     THEN [clusters EXCEPT ![n] = [spans |-> Append(@.spans, i),
                                   max |-> IF f.max > @.max THEN f.max ELSE @.max]]
     ELSE Append(clusters, [spans |-> <<i>>, max |-> f.max])

\* frames_overlapping, sorted by (min_ts, frame_idx)
SortedSpans(c) ==
  LET fs == frames[c]
      S  == {i \in DOMAIN fs : Overlaps(fs[i])}
      Before(i, k) == fs[i].min < fs[k].min \/ (fs[i].min = fs[k].min /\ i < k)
  IN InOrder(S, Before)

\* load_indexes finds both sidecars and decodes them.
load_indexes(c) == sidecars[c]

\* The fetch units of a chunk: clusters of frames, or the whole object if the
\* sidecars are not there, not decodable or out of step.
Units(c) ==
  IF load_indexes(c)
  THEN LET clusters == FoldLeft(LAMBDA cs, i : AddSpan(c, cs, i), << >>, SortedSpans(c))
       IN [k \in DOMAIN clusters |-> clusters[k].spans]
  ELSE << [i \in DOMAIN frames[c] |-> i] >>

\* A sidecar is deleted, damaged or replaced by one that does not fit.
LoseSidecar(c) ==
  /\ Open /\ sidecars[c] /\ Fault
  /\ sidecars' = [sidecars EXCEPT ![c] = FALSE]
  /\ UNCHANGED <<frames, phase, cmd, listing, merge, restore, must, out>>

\* build_group_sources: the next listed chunk, in the order of the keys.
OpenChunk ==
  LET c == Least(locs)
  IN /\ phase = "list" /\ dates = {} /\ locs # {}
     /\ locs' = locs \ {c}
     /\ sources' = IF Units(c) = << >> THEN sources
                   ELSE Append(sources, [chunk |-> c, units |-> Units(c)])
     /\ UNCHANGED <<store, phase, cmd, dates, merge, restore, faults, must, out>>

\* KWayMerge::new; the first pull primes every source.
StartMerge ==
  /\ phase = "list" /\ dates = {} /\ locs = {}
  /\ phase' = "merge"
  /\ batches' = [i \in DOMAIN sources |-> << >>]
  /\ refill' = [i \in DOMAIN sources |-> i]
  /\ UNCHANGED <<store, cmd, listing, heap, popped, restore, faults, must, out>>

-----------------------------------------------------------------------------
(* The merge *)

\* record_matches
Wanted(r) == cmd.from <= Ts[r] /\ Ts[r] < cmd.to /\ (cmd.mode = "grep" => r \in Matches)

\* By time and stream.
Earlier(r, s) == Ts[r] < Ts[s] \/ (Ts[r] = Ts[s] /\ StreamOf[r] < StreamOf[s])

\* The order of heads; the numbers of their sources break ties.
Precedes(r, i, s, k) == Earlier(r, s) \/ (~Earlier(s, r) /\ i < k)

\* The line at p of what is fetched for a unit: line p[2] of its frame p[1].
LineAt(c, unit, p) == frames[c][unit[p[1]]].recs[p[2]]

\* get_range of each frame of a cluster, in the cluster's order, or get_bytes.
GetRanges(c, unit) ==
  UNION {{<<k, j>> : j \in DOMAIN frames[c][unit[k]].recs} : k \in DOMAIN unit}

\* stream_full_object and emit_records: the lines that match.
emit_records(c, unit) == {p \in GetRanges(c, unit) : Wanted(LineAt(c, unit, p))}

\* The stable sort of the lines of a unit.
Sorted(c, unit) ==
  LET Before(p, q) ==
        LET r == LineAt(c, unit, p)
            s == LineAt(c, unit, q)
        IN \/ Earlier(r, s)
           \/ ~Earlier(s, r) /\ (p[1] < q[1] \/ (p[1] = q[1] /\ p[2] < q[2]))
  IN InOrder(emit_records(c, unit), Before)

\* ChunkSource::next_batch: fetch a unit, decode, filter and sort.
Decode(src, unit) ==
  LET order == Sorted(src.chunk, unit)
  IN [k \in DOMAIN order |-> LineAt(src.chunk, unit, order[k])]

\* Mutant: a source with nothing left to fetch is asked again and again.
RefillForever ==
  LET i == Head(refill)
      src == sources[i]
  IN /\ phase = "merge" /\ refill # << >> /\ sending = << >>
     /\ \/ /\ batches[i] # << >>
           /\ heap' = heap \cup {[rec |-> Head(batches[i]), src |-> i]}
           /\ batches' = [batches EXCEPT ![i] = Tail(@)]
           /\ refill' = Tail(refill) /\ UNCHANGED sources
        \/ /\ batches[i] = << >> /\ src.units # << >>
           /\ batches' = [batches EXCEPT ![i] = Decode(src, Head(src.units))]
           /\ sources' = [sources EXCEPT ![i].units = Tail(@)]
           /\ UNCHANGED <<heap, refill>>
     /\ UNCHANGED <<store, phase, cmd, dates, locs, popped, restore, faults, must, out>>

\* KWayMerge::refill, one turn of its loop for the source at the front.
Refill ==
  LET i == Head(refill)
      src == sources[i]
  IN /\ phase = "merge" /\ refill # << >> /\ sending = << >>
     /\ \/ /\ batches[i] # << >>
           /\ heap' = heap \cup {[rec |-> Head(batches[i]), src |-> i]}
           /\ batches' = [batches EXCEPT ![i] = Tail(@)]
           /\ refill' = Tail(refill) /\ UNCHANGED sources
        \/ /\ batches[i] = << >> /\ src.units # << >>
           /\ batches' = [batches EXCEPT ![i] = Decode(src, Head(src.units))]
           /\ sources' = [sources EXCEPT ![i].units = Tail(@)]
           /\ UNCHANGED <<heap, refill>>
        \/ /\ batches[i] = << >> /\ src.units = << >>
           /\ refill' = Tail(refill) /\ UNCHANGED <<heap, batches, sources>>
     /\ UNCHANGED <<store, phase, cmd, dates, locs, popped, restore, faults, must, out>>

\* KWayMerge::next_indexed takes the least head and refills its source.
Pop ==
  /\ phase = "merge" /\ refill = << >> /\ popped = << >> /\ sending = << >>
  /\ \E h \in heap :
       /\ \A g \in heap : g # h => Precedes(h.rec, h.src, g.rec, g.src)
       /\ heap' = heap \ {h}
       /\ refill' = <<h.src>>
       /\ popped' = <<h.rec>>
  /\ UNCHANGED <<store, phase, cmd, listing, batches, restore, faults, must, out>>

-----------------------------------------------------------------------------
(* Restore *)

Cost(r) == Size[r] + (IF cmd.mode = "wrap" THEN WrapLen ELSE 0) + EVENT_OVERHEAD_BYTES

\* A wrapped event is sent with the time of the restore.
Stamp(r) == IF cmd.mode = "raw" THEN Ts[r] ELSE 0

Fits(r) == Cost(r) <= MAX_BATCH_BYTES

Bytes(b) == FoldLeft(LAMBDA n, r : n + Cost(r), 0, b)

\* Mutant: the size of the event that comes is not counted.
FullWithout(r) ==
  /\ batch # << >>
  /\ \/ Len(batch) >= MAX_BATCH_EVENTS
     \/ Bytes(batch) >= MAX_BATCH_BYTES
     \/ Stamp(r) - Stamp(batch[1]) > MAX_BATCH_SPAN_MS

\* EventBatcher::push: the event does not fit into the batch.
Full(r) ==
  /\ batch # << >>
  /\ \/ Len(batch) >= MAX_BATCH_EVENTS
     \/ Bytes(batch) + Cost(r) > MAX_BATCH_BYTES
     \/ Stamp(r) - Stamp(batch[1]) > MAX_BATCH_SPAN_MS

\* Mutant: the event that did not fit is dropped with the batch's end.
EmitDropping(r) ==
  IF cmd.mode \in {"grep", "file"} \/ ~Fits(r) THEN UNCHANGED <<batch, sending>>
  ELSE IF Full(r) THEN sending' = batch /\ batch' = << >>
  ELSE batch' = Append(batch, r) /\ UNCHANGED sending

\* What a command does with a record: print it, or batch it.
Emit(r) ==
  IF cmd.mode \in {"grep", "file"} \/ ~Fits(r) THEN UNCHANGED <<batch, sending>>
  ELSE IF Full(r) THEN sending' = batch /\ batch' = <<r>>
  ELSE batch' = Append(batch, r) /\ UNCHANGED sending

\* next_indexed returns: the command handles the record.
Return ==
  /\ phase = "merge" /\ refill = << >> /\ popped # << >>
  /\ popped' = << >>
  /\ out' = Append(out, Head(popped))
  /\ Emit(Head(popped))
  /\ UNCHANGED <<store, phase, cmd, listing, batches, heap, refill, attempt, ensured, rejected, sent, faults, must>>

\* The stream is drained: EventBatcher::finish.
Finish ==
  /\ phase = "merge" /\ refill = << >> /\ heap = {} /\ popped = << >> /\ sending = << >>
  /\ phase' = "finish"
  /\ sending' = batch /\ batch' = << >>
  /\ UNCHANGED <<store, cmd, listing, merge, attempt, ensured, rejected, sent, faults, must, out>>

Done ==
  /\ phase = "finish" /\ sending = << >>
  /\ phase' = "done"
  /\ UNCHANGED <<store, cmd, listing, merge, restore, faults, must, out>>

\* ensure_group_and_stream, before the first batch; what exists already is fine.
EnsureTarget ==
  /\ sending # << >> /\ phase \in {"merge", "finish"} /\ ~ensured
  /\ ensured' = TRUE
  /\ UNCHANGED <<store, phase, cmd, listing, merge, batch, sending, attempt, rejected, sent,
                 faults, must, out>>

\* What PutLogEvents does not store: a wrapped event is stamped now.
Refused(r) ==
  cmd.mode = "raw" /\ (Ts[r] < OldBefore \/ Ts[r] < ExpiredBefore \/ Ts[r] >= NewFrom)

\* It has two reasons to refuse an event that is too old and expired.
RefusedTwice(r) == cmd.mode = "raw" /\ Ts[r] < OldBefore /\ Ts[r] < ExpiredBefore

\* RejectedLogEventsInfo: the exclusive ends of the events that are too old and of
\* those that are expired, and the start of those that are too new, counted from 0.
EndBefore(b, t) == Most({0} \cup {i \in DOMAIN b : cmd.mode = "raw" /\ Ts[b[i]] < t})
TooOldEnd(b) == EndBefore(b, OldBefore)
ExpiredEnd(b) == EndBefore(b, ExpiredBefore)
TooNewStart(b) ==
  Least({Len(b)} \cup {i - 1 : i \in {i \in DOMAIN b : cmd.mode = "raw" /\ Ts[b[i]] >= NewFrom}})

\* The answers to a batch: every refused event is named.  Where one has both
\* reasons, CloudWatch may give either or both; an end that it does not give is 0.
RejectedLogEventsInfo(b) ==
  {i \in [old: {0, TooOldEnd(b)}, expired: {0, ExpiredEnd(b)}, new: {TooNewStart(b)}] :
     (i.old < TooOldEnd(b) => TooOldEnd(b) <= i.expired)
     /\ (i.expired < ExpiredEnd(b) => ExpiredEnd(b) <= i.old)}

\* Mutant: the start is taken for a count.
RejectionsUpTo(info, batch_len) ==
  info.old + info.expired + (IF info.new = batch_len THEN 0 ELSE info.new)

\* Rejections::from_indexes and total: the two prefixes are added up.
Rejections(info, batch_len) == info.old + info.expired + (batch_len - info.new)

\* Mutant: one attempt too many.
MayRetryOnceMore == attempt <= PUT_MAX_ATTEMPTS

MayRetry == attempt < PUT_MAX_ATTEMPTS

\* BatchSender::send with put_batch_with_backoff: taken or throttled.
SendBatch ==
  /\ sending # << >> /\ phase \in {"merge", "finish"} /\ ensured
  /\ \/ /\ sent' = Append(sent, sending) /\ sending' = << >> /\ attempt' = 1
        /\ \E info \in RejectedLogEventsInfo(sending) :
             rejected' = rejected + Rejections(info, Len(sending))
        /\ UNCHANGED phase
     \/ /\ MayRetry
        /\ attempt' = attempt + 1
        /\ UNCHANGED <<phase, rejected, sent, sending>>
     \/ /\ ~MayRetry
        /\ phase' = "failed"
        /\ UNCHANGED <<attempt, rejected, sent, sending>>
  /\ UNCHANGED <<store, cmd, listing, merge, batch, ensured, faults, must, out>>

\* Any other call fails: the command ends with an error.
CommandFails ==
  /\ phase \in {"list", "merge", "finish"} /\ Fault
  /\ phase' = "failed"
  /\ UNCHANGED <<store, cmd, listing, merge, restore, must, out>>

-----------------------------------------------------------------------------
Command ==
  \/ \E d \in dates : ListDate(d)
  \/ OpenChunk \/ StartMerge \/ Refill \/ Pop \/ Return
  \/ EnsureTarget \/ SendBatch \/ Finish \/ Done

Next ==
  \/ \E c \in Chunks : PutData(c) \/ PutSidecars(c) \/ LoseSidecar(c)
  \/ \E c \in Commands : StartScan(c)
  \/ Command \/ CommandFails

Spec == Init /\ [][Next]_vars

\* A command that was started runs on.
FairSpec == Spec /\ WF_vars(Command)

-----------------------------------------------------------------------------
(* Properties *)

\* A command that ends without an error has emitted every matching record that
\* was in S3 when it began, none that does not match, and none twice, whatever
\* writers put meanwhile and whichever sidecars were lost or not yet there.
ScanExact ==
  phase = "done" =>
    /\ {r \in must : Wanted(r)} \subseteq ToSet(out)
    /\ \A r \in ToSet(out) : r \in Archived /\ Wanted(r)
    /\ IsInjective(out)

\* The output ascends by timestamp and, within one, by stream, over all chunks
\* and at every moment (scan.rs:5-6).
Ordered ==
  \A i \in 1 .. Len(out) - 1 :
    \/ Ts[out[i]] < Ts[out[i + 1]]
    \/ Ts[out[i]] = Ts[out[i + 1]] /\ StreamOf[out[i]] <= StreamOf[out[i + 1]]

\* Every batch that is sent keeps the limits of PutLogEvents: events, bytes, span
\* and chronological order (restore.rs:181-185), and is tried a bounded number of
\* times (restore.rs:489-529).
BatchLegal ==
  /\ attempt <= PUT_MAX_ATTEMPTS
  /\ \A b \in ToSet(sent) \cup {sending} :
       /\ Len(b) <= MAX_BATCH_EVENTS
       /\ Bytes(b) <= MAX_BATCH_BYTES
       /\ \A i, k \in DOMAIN b : i < k => /\ Stamp(b[i]) <= Stamp(b[k])
                                          /\ Stamp(b[k]) - Stamp(b[i]) <= MAX_BATCH_SPAN_MS

\* The records of s that a batch can hold.
Fitting(s) == FoldLeft(LAMBDA t, r : IF Fits(r) THEN Append(t, r) ELSE t, << >>, s)

\* A restore sends what the scan emitted, in its order, each event once, except
\* events that no batch can hold: after throttling and between batches too.  A
\* restore with nothing to send creates no log group (restore.rs:286-288).  The
\* count of rejected events that it prints, although all it learns of a batch is
\* where the old and the expired ones end and the new ones start
\* (restore.rs:249-276), leaves out no event that CloudWatch did not store, and is
\* above their number by no more than the events that were both too old and
\* expired, which it may count for each of the two.
NothingSkipped ==
  /\ cmd.mode \in {"wrap", "raw"} =>
       FlattenSeq(sent) \o sending \o batch = Fitting(out)
  /\ ensured => \E r \in ToSet(out) : Fits(r)
  /\ LET all == FlattenSeq(sent)
         refused == Cardinality({i \in DOMAIN all : Refused(all[i])})
         twice == Cardinality({i \in DOMAIN all : RefusedTwice(all[i])})
     IN rejected \in refused .. refused + twice

\* A started command ends, also when clusters hold no matching record and when
\* CloudWatch keeps throttling (scan.rs:299-310, restore.rs:489-529).
Ends == (phase = "list") ~> (phase \in {"done", "failed"})
=============================================================================
