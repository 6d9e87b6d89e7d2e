--------------------------- MODULE GatewayBuffer ---------------------------
(***************************************************************************)
(* The gateway's buffer manager and its write-ahead log                    *)
(* (crates/s4logs-gateway/src/{buffer,wal,lib}.rs, and the store call      *)
(* put_chunk of crates/s4logs-core/src/store.rs).                          *)
(*                                                                         *)
(* Concurrent PutLogEvents handlers push records into one buffer per       *)
(* (log group, UTC day) key under one mutex; buffers are taken out of the  *)
(* map under the mutex and written to S3 after it is released, by the      *)
(* handler itself, by the periodic sweeper, or by the main task (startup   *)
(* replay and final flush).  With a WAL every record is appended to its    *)
(* buffer's segment file and fsynced before the 200 is sent; a segment is  *)
(* deleted once its buffer is stored, and segments that survive a crash    *)
(* are replayed at startup.                                                *)
(*                                                                         *)
(* A record is one accepted event of one request: a client's retry is      *)
(* another request with records of its own.  Every record is one unit of   *)
(* the byte limits.  A buffer or a segment is the set of its records.      *)
(***************************************************************************)
EXTENDS Integers, FiniteSets

CONSTANTS
  Keys,         \* buffer keys: (log group, UTC day of the event)
  Records,      \* records offered to the gateway
  Requests,     \* PutLogEvents calls
  SegIds,       \* names of WAL segment files
  NoSeg,        \* the segment of a buffer when there is no WAL
  Sweeper,      \* the age-flush task
  Main,         \* the task that replays at startup and flushes at shutdown
  KeyOf,        \* the buffer key of a record
  Batch,        \* the records of a request
  WalOn,        \* is wal_dir configured?
  FlushBytes,   \* BufferConfig::flush_bytes
  MaxBuffered,  \* BufferConfig::max_buffered_bytes
  TornAppends,  \* may a failed WAL write leave part of its line behind?
  Disconnects,  \* may a client hang up while its handler awaits a flush?
  Encodes,      \* may encoding a buffer fail?
  MaxFaults     \* bound on the number of failures in one behaviour

ASSUME ConstantsAssumption ==
  /\ NoSeg \notin SegIds
  /\ Sweeper \notin Requests /\ Main \notin Requests /\ Sweeper # Main
  /\ KeyOf \in [Records -> Keys]
  /\ Batch \in [Requests -> SUBSET Records]
  /\ \A r, q \in Requests : r # q => Batch[r] \cap Batch[q] = {}
  /\ WalOn \in BOOLEAN /\ TornAppends \in BOOLEAN
  /\ Disconnects \in BOOLEAN /\ Encodes \in BOOLEAN
  /\ FlushBytes \in Nat /\ MaxBuffered \in Nat /\ MaxFaults \in Nat

VARIABLES
  phase,        \* what the main task does
  buffers,      \* BufferManager::buffers, the map of live buffers
  taken,        \* per task: buffers it took out of the map and must flush
  put,          \* per task: the taken buffer whose data object is in S3
                \*   while put_chunk has not returned yet
  verdict,      \* per task: how its last flush_one ended, until flush_taken
                \*   stores it in the /ready bit
  wal,          \* the segment files
  old,          \* segments found at startup, to delete once replayed
  scan,         \* their entries that replay has not pushed yet
  req,          \* per request: where its handler is
  todo,         \* per request: records not pushed yet
  lastFlushOk,  \* the /ready bit
  mainErr,      \* did a flush of the main task fail?
  copies,       \* per record: in how many S3 objects it is
  (* history *)
  acked,        \* records of requests answered 200
  dropped,      \* records counted in s4logs_flush_dropped_events_total
  lossy,        \* has the process crashed or exited with an error?
  window,       \* has a duplicate window been hit?
  faults        \* failures so far

vars == <<phase, buffers, taken, put, verdict, wal, old, scan, req, todo, lastFlushOk,
          mainErr, copies, acked, dropped, lossy, window, faults>>

Actors == Requests \cup {Sweeper, Main}

Buf == [key: Keys, evs: SUBSET Records, seg: SegIds \cup {NoSeg}, aged: BOOLEAN]

Segment == [exists: BOOLEAN, durable: SUBSET Records, pending: SUBSET Records,
            torn: BOOLEAN]

NoFile == [exists |-> FALSE, durable |-> {}, pending |-> {}, torn |-> FALSE]

Phases == {"down", "replay", "replayed", "replayFlush", "up", "stopping", "final"}

Verdicts == {"none", "ok", "failed"}

\* Where a handler can be.  The mutex is held in "push" and "take".
ReqStates == {"new", "reserve", "admitted", "push", "take", "flush",
              "acked", "failed", "gone"}

TypeOK ==
  /\ phase \in Phases
  /\ buffers \in SUBSET Buf
  /\ taken \in [Actors -> SUBSET Buf]
  /\ put \in [Actors -> SUBSET Buf]
  /\ verdict \in [Actors -> Verdicts]
  /\ wal \in [SegIds -> Segment]
  /\ old \in SUBSET SegIds
  /\ scan \in SUBSET Records
  /\ req \in [Requests -> ReqStates]
  /\ todo \in [Requests -> SUBSET Records]
  /\ lastFlushOk \in BOOLEAN
  /\ mainErr \in BOOLEAN
  /\ copies \in [Records -> Nat]
  /\ acked \in SUBSET Records
  /\ dropped \in SUBSET Records
  /\ lossy \in BOOLEAN
  /\ window \in BOOLEAN
  /\ faults \in 0..MaxFaults
  /\ \A a \in Actors : put[a] \subseteq taken[a]

Init ==
  /\ phase = "down"
  /\ buffers = {}
  /\ taken = [a \in Actors |-> {}]
  /\ put = [a \in Actors |-> {}]
  /\ verdict = [a \in Actors |-> "none"]
  /\ wal = [s \in SegIds |-> NoFile]
  /\ old = {}
  /\ scan = {}
  /\ req = [r \in Requests |-> "new"]
  /\ todo = [r \in Requests |-> Batch[r]]
  /\ lastFlushOk = TRUE
  /\ mainErr = FALSE
  /\ copies = [e \in Records |-> 0]
  /\ acked = {}
  /\ dropped = {}
  /\ lossy = FALSE
  /\ window = FALSE
  /\ faults = 0

-----------------------------------------------------------------------------
(* Vocabulary *)

Stored == {e \in Records : copies[e] > 0}

Lines(s) == wal[s].durable \cup wal[s].pending

Durable == UNION {wal[s].durable : s \in SegIds}

InMemory == UNION {b.evs : b \in buffers}

InFlight == UNION {b.evs : b \in UNION {taken[a] : a \in Actors}}

\* A flush_taken has returned, or has not begun.
Flushed(a) == taken[a] = {} /\ verdict[a] = "none"

\* flush_taken turns to the next of its buffers.
Flushing(a, b) == b \in taken[a] /\ verdict[a] = "none"

Live(k) == {b \in buffers : b.key = k}

LiveSegs == {b.seg : b \in buffers}

\* buffered_total.  Live buffers have different keys, so their records differ.
BufferedTotal(B) == Cardinality(UNION {b.evs : b \in B})

LockFree == \A r \in Requests : req[r] \notin {"push", "take"}

Fault == faults < MaxFaults /\ faults' = faults + 1

NoFault == UNCHANGED faults

-----------------------------------------------------------------------------
(* WAL segment operations *)

\* Mutant: a name is picked without create_new, so it may be in use.
FreshSegsColliding ==
  IF WalOn THEN {s \in SegIds : s = CHOOSE x \in SegIds : TRUE} ELSE {NoSeg}

\* WalSegment::create: a name no file has.  Names are only ever compared, so
\* any one of the free names stands for the random one.
FreshSegs ==
  LET free == {s \in SegIds : ~wal[s].exists}
  IN IF WalOn THEN {s \in free : s = CHOOSE x \in free : TRUE} ELSE {NoSeg}

\* WalSegment::append.  A line written after a torn fragment shares its line
\* with the fragment, and scan_dir cannot decode it.
AppendLine(f, e) ==
  [exists  |-> TRUE,
   durable |-> f.durable,
   pending |-> IF f.torn THEN f.pending ELSE f.pending \cup {e},
   torn    |-> FALSE]

\* WalSegment::append failing: write_all may have written part of the line.
TornLine(f) ==
  {[f EXCEPT !.exists = TRUE, !.torn = t] : t \in {f.torn, f.torn \/ TornAppends}}

\* WalSegment::sync.
Synced(f) == [f EXCEPT !.durable = f.durable \cup f.pending, !.pending = {}]

\* Mutant: the segment of a stored buffer is never removed.
DeleteForgotten(w, s) == w

\* WalSegment::delete of the segment of a buffer.
Delete(w, s) == [x \in SegIds |-> IF x = s THEN NoFile ELSE w[x]]

-----------------------------------------------------------------------------
(* push_one *)

\* The live buffer for key k, or a new one with a fresh segment.
Opened(k) ==
  IF Live(k) # {} THEN Live(k)
  ELSE {[key |-> k, evs |-> {}, seg |-> s, aged |-> FALSE] : s \in FreshSegs}

\* Append to the segment, then push into the writer.
PushOne(e) ==
  \E b \in Opened(KeyOf[e]) :
    /\ wal' = [s \in SegIds |-> IF s = b.seg THEN AppendLine(wal[s], e) ELSE wal[s]]
    /\ buffers' = (buffers \ {b}) \cup {[b EXCEPT !.evs = b.evs \cup {e}]}

\* Mutant: a segment that cannot be created leaves a buffer without one.
CreateFallsBack(k) ==
  /\ WalOn /\ Live(k) = {} /\ UNCHANGED wal
  /\ buffers' = buffers \cup {[key |-> k, evs |-> {}, seg |-> NoSeg, aged |-> FALSE]}

\* Creating the segment fails: no buffer is inserted.
CreateFails(k) == WalOn /\ Live(k) = {} /\ UNCHANGED <<wal, buffers>>

\* Appending fails: the buffer stays in the map, the record is not pushed.
AppendFails(k) ==
  /\ WalOn
  /\ \E b \in Opened(k) : \E f \in TornLine(wal[b.seg]) :
       /\ wal' = [wal EXCEPT ![b.seg] = f]
       /\ buffers' = buffers \cup {b}

\* Mutant: sync_wal returns without an fsync.
SyncWalSkipped(S) == wal' = wal

\* sync_wal: every live segment is synced, or one of the dirty ones fails.
SyncWal(S) == wal' = [s \in SegIds |-> IF s \in S THEN Synced(wal[s]) ELSE wal[s]]

SyncFails ==
  \E bad \in LiveSegs \cap SegIds : \E S \in SUBSET (LiveSegs \ {bad}) :
    wal[bad].pending # {} /\ SyncWal(S)

-----------------------------------------------------------------------------
(* push_events *)

HandlerUnchanged ==
  UNCHANGED <<phase, verdict, old, scan, lastFlushOk, mainErr, copies, dropped, lossy, window>>

Largest == {b \in buffers : \A c \in buffers : Cardinality(b.evs) >= Cardinality(c.evs)}

OverCap(r) == BufferedTotal(buffers) + Cardinality(Batch[r]) > MaxBuffered

\* reserve: enough room at once, or take the largest buffer out to flush it.
Reserve(r) ==
  /\ phase = "up" /\ req[r] = "new" /\ LockFree
  /\ \/ /\ ~OverCap(r)
        /\ req' = [req EXCEPT ![r] = "admitted"]
        /\ UNCHANGED <<buffers, taken>>
     \/ /\ OverCap(r) /\ buffers = {}
        /\ req' = [req EXCEPT ![r] = "failed"]
        /\ UNCHANGED <<buffers, taken>>
     \/ /\ OverCap(r)
        /\ \E b \in Largest : /\ taken' = [taken EXCEPT ![r] = {b}]
                              /\ buffers' = buffers \ {b}
        /\ req' = [req EXCEPT ![r] = "reserve"]
  /\ UNCHANGED <<put, wal, todo, acked>> /\ NoFault /\ HandlerUnchanged

\* reserve, after the make-room flush: the still_over check.
Recheck(r) ==
  /\ req[r] = "reserve" /\ Flushed(r) /\ LockFree
  /\ req' = [req EXCEPT ![r] = IF OverCap(r) THEN "failed" ELSE "admitted"]
  /\ UNCHANGED <<buffers, taken, put, wal, todo, acked>> /\ NoFault /\ HandlerUnchanged

\* The handler enters or is in its critical section.
HoldsLock(r) == req[r] = "push" \/ (req[r] = "admitted" /\ LockFree)

\* One record of the batch.
PushEvent(r, e) ==
  /\ HoldsLock(r) /\ e \in todo[r]
  /\ PushOne(e)
  /\ todo' = [todo EXCEPT ![r] = @ \ {e}]
  /\ req' = [req EXCEPT ![r] = "push"]
  /\ UNCHANGED <<taken, put, acked>> /\ NoFault /\ HandlerUnchanged

\* One record of the batch fails; push_events returns Err with the lock
\* released, and what the batch pushed before stays in the buffers.  The
\* writer fails only while cutting a frame, with the record already in it.
PushEventFails(r, e) ==
  /\ HoldsLock(r) /\ e \in todo[r] /\ Fault
  /\ CreateFails(KeyOf[e]) \/ AppendFails(KeyOf[e]) \/ (Encodes /\ PushOne(e))
  /\ req' = [req EXCEPT ![r] = "failed"]
  /\ UNCHANGED <<taken, put, todo, acked>> /\ HandlerUnchanged

\* The group commit of the batch.
SyncBatch(r) ==
  /\ HoldsLock(r) /\ todo[r] = {}
  /\ SyncWal(LiveSegs)
  /\ req' = [req EXCEPT ![r] = "take"]
  /\ UNCHANGED <<buffers, taken, put, todo, acked>> /\ NoFault /\ HandlerUnchanged

SyncBatchFails(r) ==
  /\ HoldsLock(r) /\ todo[r] = {} /\ Fault
  /\ SyncFails
  /\ req' = [req EXCEPT ![r] = "failed"]
  /\ UNCHANGED <<buffers, taken, put, todo, acked>> /\ HandlerUnchanged

FlushDue == {b \in buffers : Cardinality(b.evs) >= FlushBytes}

\* Mutant: the cap is not checked again after the push.
TakenWhenDue(D) == D = FlushDue

\* The buffers push_events takes before it unlocks: those that are due, then
\* the largest of the rest, one after the other, until the total fits the cap.
TakenAtUnlock(D) ==
  LET extra == D \ FlushDue
      rest  == buffers \ D
  IN /\ FlushDue \subseteq D
     /\ BufferedTotal(rest) <= MaxBuffered
     /\ \A b \in extra, c \in rest : Cardinality(b.evs) >= Cardinality(c.evs)
     /\ extra # {} => \E b \in extra :
          /\ \A c \in extra : Cardinality(c.evs) >= Cardinality(b.evs)
          /\ BufferedTotal(rest \cup {b}) > MaxBuffered

Take(r) ==
  /\ req[r] = "take"
  /\ \E D \in SUBSET buffers :
       /\ TakenAtUnlock(D)
       /\ taken' = [taken EXCEPT ![r] = D]
       /\ buffers' = buffers \ D
  /\ req' = [req EXCEPT ![r] = "flush"]
  /\ UNCHANGED <<put, wal, todo, acked>> /\ NoFault /\ HandlerUnchanged

\* Every buffer it took was flushed or put back: 200.
Respond(r) ==
  /\ req[r] = "flush" /\ Flushed(r)
  /\ req' = [req EXCEPT ![r] = "acked"]
  /\ acked' = acked \cup Batch[r]
  /\ UNCHANGED <<buffers, taken, put, wal, todo>> /\ NoFault /\ HandlerUnchanged

\* The client hangs up while the handler awaits a PUT: the handler is dropped
\* at that await, with the buffers it took.
Disconnect(r) ==
  /\ Disconnects /\ req[r] \in {"reserve", "flush"} /\ Fault
  /\ \E b \in taken[r] : Flushing(r, b)
  /\ req' = [req EXCEPT ![r] = "gone"]
  /\ taken' = [taken EXCEPT ![r] = {}]
  /\ put' = [put EXCEPT ![r] = {}]
  /\ window' = (window \/ put[r] # {})
  /\ UNCHANGED <<phase, buffers, verdict, wal, old, scan, todo, lastFlushOk, mainErr,
                 copies, acked, dropped, lossy>>

-----------------------------------------------------------------------------
(* flush_taken and flush_one, by the handler, the sweeper or the main task *)

FlushUnchanged == UNCHANGED <<phase, old, scan, req, todo, acked, lossy, lastFlushOk>>

\* put_chunk: the data object is written first.
PutData(a, b) ==
  /\ Flushing(a, b) /\ put[a] = {} /\ b.evs # {}
  /\ put' = [put EXCEPT ![a] = {b}]
  /\ copies' = [e \in Records |-> IF e \in b.evs THEN copies[e] + 1 ELSE copies[e]]
  /\ UNCHANGED <<buffers, taken, verdict, wal, mainErr, dropped, window>>
  /\ NoFault /\ FlushUnchanged

\* put_chunk returned Ok, or there was nothing to store: retire the segment.
FlushOk(a, b) ==
  /\ Flushing(a, b)
  /\ put[a] = {b} \/ (put[a] = {} /\ b.evs = {})
  /\ \/ wal' = Delete(wal, b.seg) /\ NoFault /\ UNCHANGED window
     \/ b.seg # NoSeg /\ Fault /\ window' = TRUE /\ UNCHANGED wal
  /\ taken' = [taken EXCEPT ![a] = @ \ {b}]
  /\ put' = [put EXCEPT ![a] = {}]
  /\ verdict' = [verdict EXCEPT ![a] = "ok"]
  /\ UNCHANGED <<buffers, mainErr, copies, dropped>> /\ FlushUnchanged

\* Mutant: reinsert is a plain insert and replaces a recreated buffer.
ReinsertOverwriting(b, decodable) ==
  buffers' = (buffers \ Live(b.key)) \cup {b} /\ UNCHANGED dropped

\* Mutant: a recreated buffer swallows the old one although each has a segment.
ReinsertMerging(b, decodable) ==
  /\ \/ Live(b.key) = {} /\ buffers' = buffers \cup {b}
     \/ \E d \in Live(b.key) :
          buffers' = (buffers \ {d}) \cup {[d EXCEPT !.evs = d.evs \cup b.evs]}
  /\ UNCHANGED dropped

\* Mutant: a buffer that failed to flush is left to the next start.
ReinsertNever(b, decodable) == UNCHANGED <<buffers, dropped>>

\* reinsert: put the buffer back, unless its key was recreated meanwhile.
\* Then a WAL buffer is left to replay, and a buffer without WAL is merged
\* into the live one, or dropped and counted if there is no chunk to decode.
Reinsert(b, decodable) ==
  LET now == Live(b.key)
  IN \/ /\ now = {}
        /\ buffers' = buffers \cup {b}
        /\ UNCHANGED dropped
     \/ /\ now # {} /\ b.seg # NoSeg
        /\ UNCHANGED <<buffers, dropped>>
     \/ /\ now # {} /\ b.seg = NoSeg
        /\ \E d \in now :
             buffers' = (buffers \ {d}) \cup
               {[d EXCEPT !.aged = d.aged \/ b.aged,
                          !.evs = IF decodable THEN d.evs \cup b.evs ELSE d.evs]}
        /\ dropped' = IF decodable THEN dropped ELSE dropped \cup b.evs

\* put_chunk failed, at the data object or at a sidecar, or encode failed: the
\* buffer goes back into the map, and the lock is released.  first_err is the
\* task's own.
FlushFails(a, b) ==
  /\ Flushing(a, b) /\ b.evs # {} /\ put[a] \subseteq {b} /\ LockFree /\ Fault
  /\ \/ Reinsert(b, TRUE)
     \/ Encodes /\ put[a] = {} /\ Reinsert(b, FALSE)
  /\ taken' = [taken EXCEPT ![a] = @ \ {b}]
  /\ put' = [put EXCEPT ![a] = {}]
  /\ window' = (window \/ put[a] # {})
  /\ verdict' = [verdict EXCEPT ![a] = "failed"]
  /\ mainErr' = (mainErr \/ a = Main)
  /\ UNCHANGED <<wal, copies>> /\ FlushUnchanged

\* Mutant: a successful flush leaves the bit alone.
StoreFailures(a) ==
  /\ verdict[a] # "none"
  /\ lastFlushOk' = (lastFlushOk /\ verdict[a] = "ok")
  /\ verdict' = [verdict EXCEPT ![a] = "none"]
  /\ UNCHANGED <<phase, buffers, taken, put, wal, old, scan, req, todo, mainErr,
                 copies, acked, dropped, lossy, window, faults>>

\* flush_taken: the /ready bit takes the verdict on the buffer.  No lock is
\* held since flush_one put the buffer back or stored it, so other tasks may
\* have flushed and stored theirs in between.
StoreReady(a) ==
  /\ verdict[a] # "none"
  /\ lastFlushOk' = (verdict[a] = "ok")
  /\ verdict' = [verdict EXCEPT ![a] = "none"]
  /\ UNCHANGED <<phase, buffers, taken, put, wal, old, scan, req, todo, mainErr,
                 copies, acked, dropped, lossy, window, faults>>

-----------------------------------------------------------------------------
(* The sweeper *)

\* flush_interval passes for a buffer.
Age(b) ==
  /\ phase \in {"up", "stopping"} /\ b \in buffers /\ ~b.aged /\ LockFree
  /\ buffers' = (buffers \ {b}) \cup {[b EXCEPT !.aged = TRUE]}
  /\ UNCHANGED <<phase, taken, put, verdict, wal, old, scan, req, todo, lastFlushOk,
                 mainErr, copies, acked, dropped, lossy, window, faults>>

\* Mutants: a tick does not wait for the sweep before it; only large buffers
\* expire.
SweeperNeverWaits == TRUE
ExpiredIfLarge == {b \in buffers : b.aged /\ Cardinality(b.evs) >= FlushBytes}

\* sweep_loop awaits a sweep before it waits for the next tick.
SweeperIdle == Flushed(Sweeper)

Expired == {b \in buffers : b.aged}

\* sweep_expired
Sweep ==
  /\ phase \in {"up", "stopping"} /\ SweeperIdle /\ LockFree
  /\ Expired # {}
  /\ taken' = [taken EXCEPT ![Sweeper] = Expired]
  /\ buffers' = buffers \ Expired
  /\ UNCHANGED <<phase, put, verdict, wal, old, scan, req, todo, lastFlushOk,
                 mainErr, copies, acked, dropped, lossy, window, faults>>

-----------------------------------------------------------------------------
(* The main task: serve_listener and replay_wal *)

MainUnchanged == UNCHANGED <<put, verdict, todo, req, copies, acked, dropped>>

\* The process starts; scan_dir reads every segment.
Start ==
  LET found == {s \in SegIds : wal[s].exists}
  IN /\ phase = "down"
     /\ old' = found
     /\ scan' = UNION {Lines(s) : s \in found}
     /\ phase' = IF found = {} THEN "up" ELSE "replay"
     /\ lastFlushOk' = TRUE /\ mainErr' = FALSE
     /\ UNCHANGED <<buffers, taken, wal, lossy, window, faults>> /\ MainUnchanged

ReplayEvent(e) ==
  /\ phase = "replay" /\ e \in scan
  /\ PushOne(e)
  /\ scan' = scan \ {e}
  /\ UNCHANGED <<phase, taken, old, lastFlushOk, mainErr, lossy, window, faults>>
  /\ MainUnchanged

ReplaySync ==
  /\ phase = "replay" /\ scan = {}
  /\ SyncWal(LiveSegs)
  /\ phase' = "replayed"
  /\ UNCHANGED <<buffers, taken, old, scan, lastFlushOk, mainErr, lossy, window, faults>>
  /\ MainUnchanged

\* The old files are removed (a failure is only logged), then what is due is
\* taken and flushed.
ReplayRetire ==
  /\ phase = "replayed"
  /\ \/ /\ wal' = [s \in SegIds |-> IF s \in old THEN NoFile ELSE wal[s]]
        /\ UNCHANGED window /\ NoFault
     \/ /\ \E kept \in SUBSET old : kept # {} /\
             wal' = [s \in SegIds |-> IF s \in old \ kept THEN NoFile ELSE wal[s]]
        /\ window' = TRUE /\ Fault
  /\ old' = {}
  /\ taken' = [taken EXCEPT ![Main] = FlushDue]
  /\ buffers' = buffers \ FlushDue
  /\ phase' = "replayFlush"
  /\ UNCHANGED <<scan, lastFlushOk, mainErr, lossy>> /\ MainUnchanged

\* replay_wal returned Ok: serve requests.
Serve ==
  /\ phase = "replayFlush" /\ Flushed(Main) /\ ~mainErr
  /\ phase' = "up"
  /\ UNCHANGED <<buffers, taken, wal, old, scan, lastFlushOk, mainErr, lossy, window, faults>>
  /\ MainUnchanged

\* A push or the sync of the replay fails: serve_listener returns the error.
ReplayFails ==
  /\ phase = "replay" /\ Fault
  /\ \/ \E e \in scan : CreateFails(KeyOf[e]) \/ AppendFails(KeyOf[e])
                         \/ (Encodes /\ PushOne(e))
     \/ scan = {} /\ SyncFails /\ UNCHANGED buffers
  /\ phase' = "final" /\ mainErr' = TRUE
  /\ window' = TRUE
  /\ UNCHANGED <<taken, old, scan, lastFlushOk, lossy>> /\ MainUnchanged

\* SIGTERM: no new request is accepted.
Shutdown ==
  /\ phase = "up"
  /\ phase' = "stopping"
  /\ UNCHANGED <<buffers, taken, wal, old, scan, lastFlushOk, mainErr, lossy, window, faults>>
  /\ MainUnchanged

\* The handlers and the sweeper have finished: flush_all.
FlushAll ==
  /\ phase = "stopping" /\ Flushed(Sweeper)
  /\ \A r \in Requests : req[r] \in {"new", "acked", "failed", "gone"}
  /\ phase' = "final"
  /\ taken' = [taken EXCEPT ![Main] = buffers]
  /\ buffers' = {}
  /\ UNCHANGED <<wal, old, scan, lastFlushOk, mainErr, lossy, window, faults>>
  /\ MainUnchanged

\* The process ends, and its memory with it: after the final flush, or with
\* an error from the replay.
Exit ==
  /\ Flushed(Main)
  /\ phase = "final" \/ (phase = "replayFlush" /\ mainErr)
  /\ phase' = "down"
  /\ buffers' = {} /\ old' = {} /\ scan' = {}
  /\ lossy' = (lossy \/ mainErr)
  /\ UNCHANGED <<taken, wal, lastFlushOk, mainErr, window, faults>> /\ MainUnchanged

\* A crash or a power loss.  Of the lines not yet synced any part survives.
Crash ==
  /\ phase # "down" /\ Fault
  /\ \E kept \in SUBSET Records :
       wal' = [s \in SegIds |->
                [wal[s] EXCEPT !.durable = @ \cup (wal[s].pending \cap kept),
                               !.pending = {}, !.torn = FALSE]]
  /\ phase' = "down" /\ buffers' = {} /\ old' = {} /\ scan' = {}
  /\ taken' = [a \in Actors |-> {}]
  /\ put' = [a \in Actors |-> {}]
  /\ verdict' = [a \in Actors |-> "none"]
  /\ req' = [r \in Requests |->
              IF req[r] \in {"new", "acked", "failed"} THEN req[r] ELSE "gone"]
  /\ lossy' = TRUE
  /\ window' = (window \/ phase \in {"replay", "replayed"}
                       \/ \E a \in Actors : put[a] # {})
  /\ UNCHANGED <<todo, lastFlushOk, mainErr, copies, acked, dropped>>

-----------------------------------------------------------------------------
Handler(r) ==
  \/ Reserve(r) \/ Recheck(r)
  \/ \E e \in todo[r] : PushEvent(r, e) \/ PushEventFails(r, e)
  \/ SyncBatch(r) \/ SyncBatchFails(r)
  \/ Take(r) \/ Respond(r) \/ Disconnect(r)

Flush(a) == \E b \in taken[a] : PutData(a, b) \/ FlushOk(a, b) \/ FlushFails(a, b)

SweeperTask == Sweep \/ \E b \in buffers : Age(b)

MainTask ==
  \/ Start
  \/ \E e \in scan : ReplayEvent(e)
  \/ ReplaySync \/ ReplayRetire \/ ReplayFails \/ Serve
  \/ Shutdown \/ FlushAll \/ Exit \/ Crash

Next ==
  \/ \E r \in Requests : Handler(r)
  \/ \E a \in Actors : Flush(a) \/ StoreReady(a)
  \/ SweeperTask
  \/ MainTask

Spec == Init /\ [][Next]_vars


(* Fairness.  The runtime keeps polling every task that can make a step:     *)
(* handlers run to their response, taken buffers are put, the sweeper ticks, *)
(* time passes, and the main task finishes what it began.  A failure, a      *)
(* client's request, a shutdown and a restart need never happen; failures    *)
(* are finitely many (MaxFaults), so S3 accepts a PUT in the end.            *)
Progress(r) == Recheck(r) \/ (\E e \in todo[r] : PushEvent(r, e))
               \/ SyncBatch(r) \/ Take(r) \/ Respond(r)

Fairness ==
  /\ \A r \in Requests : WF_vars(Progress(r))
  /\ \A a \in Actors : /\ WF_vars(\E b \in taken[a] : PutData(a, b) \/ FlushOk(a, b))
                        /\ WF_vars(StoreReady(a))
  /\ WF_vars(\E b \in buffers : Age(b))
  /\ WF_vars(Sweep)
  /\ WF_vars((\E e \in scan : ReplayEvent(e)) \/ ReplaySync \/ ReplayRetire \/ Serve
             \/ FlushAll \/ Exit)

FairSpec == Spec /\ Fairness

-----------------------------------------------------------------------------
(* Properties *)

\* With a WAL, an acknowledged record is in S3 or in a synced line of a
\* segment that scan_dir can decode, whatever handlers, flushes and restarts
\* did since: a crash or a power loss at this point loses none of it
\* (wal.rs:14-18, README.md:491-493).
AckedRecoverable == WalOn => acked \subseteq Stored \cup Durable

\* With a WAL, no record lives in a buffer, in the map or taken for a flush,
\* without a line of its own segment behind it (buffer.rs:245-247: "a WAL
\* failure never leaves an event that exists only in memory").
NeverOnlyInMemory ==
  WalOn => \A b \in buffers \cup UNION {taken[a] : a \in Actors} :
             b.seg \in SegIds /\ wal[b.seg].exists /\ b.evs \subseteq Lines(b.seg)

\* With a WAL the gateway is an at-least-once log: what was durable or stored
\* once stays so across flushes, deletes, replays and crashes, and only such
\* records are acknowledged (wal.rs:12-23).
Log == INSTANCE AtLeastOnceLog WITH safe <- Stored \cup Durable, archived <- Stored
ImplementsLog == Log!LSpec

\* Without a WAL, an acknowledged record is in S3, in the map or in a flush,
\* unless the process crashed, exited with an error, or counted the record in
\* s4logs_flush_dropped_events_total: failed flushes, recreated keys and a
\* clean shutdown lose nothing (buffer.rs:23-25, 394-458).
NoSilentLoss ==
  lossy \/ acked \subseteq Stored \cup InMemory \cup InFlight \cup dropped \cup Durable

\* A record is in two objects only after a crash, a hang-up or a failed sidecar
\* PUT between its data PUT and its segment's removal, a failed removal, or an
\* interrupted replay (wal.rs:19-23 and 174-176 name the crash, the removal and
\* the replay).  Failed PUTs that stored nothing, recreated keys and restarts
\* never store a record twice.
DuplicatesOnlyInWindows == window \/ \A e \in Records : copies[e] <= 1

\* As long as nothing has failed, the bytes in the map exceed max_buffered_bytes
\* only inside a critical section, although reserve and the push are two
\* critical sections and handlers race between them (buffer.rs:172-189).
CapHolds == (faults = 0 /\ LockFree) => BufferedTotal(buffers) <= MaxBuffered

\* An acknowledged record reaches S3.  Three ends excuse it: the process is
\* down or crashed, the drop counter counted it, or (with a WAL) a failed
\* flush met a recreated key and left it to the replay of the next start.
AckedReachS3 ==
  \A e \in Records :
    e \in acked ~> \/ e \in Stored \cup dropped
                   \/ lossy
                   \/ WalOn /\ e \in Durable \ (InMemory \cup InFlight)

\* As long as anything is buffered or in a flush, the /ready bit comes back by
\* itself, with no further request, unless the process ends
\* (buffer.rs:377-392).
ReadyRecoversIfBuffered ==
  (~lastFlushOk /\ InMemory \cup InFlight # {})
    ~> (lastFlushOk \/ phase \in {"final", "down"})

\* "`/ready` bit: cleared when a flush fails, set again on the next successful
\* flush" (buffer.rs:121-122): a failed flush leaves its buffer to a next flush,
\* so the bit comes back without a further request, unless the process ends.
ReadyRecovers == ~lastFlushOk ~> (lastFlushOk \/ phase \in {"final", "down"})

-----------------------------------------------------------------------------
(* The inductive invariant behind AckedRecoverable and ImplementsLog, for a  *)
(* WAL whose failed writes leave nothing behind.                             *)

\* A buffer and its segment hold the same records; live segments have no owner
\* but one, and are not among the files the replay is about to remove.
Mirrored(b) ==
  b.seg \in SegIds \ old /\ wal[b.seg].exists /\ b.evs = Lines(b.seg)

MirrorInv ==
  /\ \A s \in SegIds : ~wal[s].torn /\ (~wal[s].exists => Lines(s) = {})
  /\ \A s \in old : wal[s].exists
  /\ \A b \in buffers : Mirrored(b)
  /\ \A a \in Actors : \A b \in taken[a] : Mirrored(b)

OwnerInv ==
  /\ \A b, c \in buffers : b.seg = c.seg => b = c
  /\ \A a \in Actors : \A b \in taken[a] : \A c \in buffers : b.seg # c.seg
  /\ \A a, d \in Actors : \A b \in taken[a], c \in taken[d] :
       b.seg = c.seg => a = d /\ b = c

\* What the handlers and the main task have reached.
ControlInv ==
  /\ \A r \in Requests :
       /\ req[r] \in {"new", "reserve", "admitted"} => todo[r] = Batch[r]
       /\ req[r] \notin {"reserve", "flush"} => taken[r] = {}
       /\ req[r] \notin {"new", "acked", "failed", "gone"} => phase \in {"up", "stopping"}
  /\ \A r, q \in Requests :
       req[r] \in {"push", "take"} /\ req[q] \in {"push", "take"} => r = q
  /\ phase \notin {"replayFlush", "final"} => taken[Main] = {}
  /\ phase \notin {"up", "stopping"} => taken[Sweeper] = {}

\* A process that has ended keeps no memory.
DownInv == phase = "down" => buffers = {} /\ old = {}

\* A batch is in the live buffers while it is pushed and durable once synced;
\* a replayed entry is in the live buffers, and durable there before the file
\* it came from is removed.
BatchInv ==
  /\ \A r \in Requests :
       /\ req[r] = "push" => Batch[r] \subseteq todo[r] \cup InMemory
       /\ req[r] \in {"take", "flush"} => Batch[r] \subseteq Stored \cup Durable
  /\ \A a \in Actors : \A b \in put[a] : b.evs \subseteq Stored
  /\ phase = "replay" => \A s \in old : Lines(s) \subseteq scan \cup InMemory
  /\ phase = "replayed" =>
       \A s \in old : Lines(s) \subseteq UNION {wal[x].durable : x \in SegIds \ old}
=============================================================================
