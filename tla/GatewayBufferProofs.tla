------------------------ MODULE GatewayBufferProofs ------------------------
(***************************************************************************)
(* Proofs about GatewayBuffer, for every set of keys, records, requests    *)
(* and segments, every limit and every number of failures.                 *)
(*                                                                         *)
(* Part 1: types and control (no assumption on the WAL).                   *)
(* Part 2: with a WAL whose failed writes leave no fragment, the gateway   *)
(* is an at-least-once log, and an acknowledged record is recoverable.     *)
(* Part 3: until something fails the map keeps the cap.                    *)
(* Part 4: without a WAL no acknowledged record is lost silently.          *)
(* Part 5: only the documented windows store a record twice.               *)
(***************************************************************************)
EXTENDS GatewayBuffer, FiniteSetTheorems, TLAPS

USE ConstantsAssumption
    DEF ConstantsAssumption, Actors, Buf, Segment, NoFile, Phases, ReqStates

-----------------------------------------------------------------------------
(* Part 1: types and control *)

\* The operations on the map and the segments return maps and segments.

\* A fresh segment is a name without a file.
LEMMA FreshSegsType ==
  /\ FreshSegs \subseteq SegIds \cup {NoSeg}
  /\ WalOn => \A s \in FreshSegs : s \in SegIds /\ ~wal[s].exists
  /\ ~WalOn => FreshSegs = {NoSeg}
<1> DEFINE free == {s \in SegIds : ~wal[s].exists}
<1>1. FreshSegs = IF WalOn THEN {s \in free : s = CHOOSE x \in free : TRUE} ELSE {NoSeg}
  BY DEF FreshSegs
<1>2. \A s \in {s \in free : s = CHOOSE x \in free : TRUE} : s \in free
  OBVIOUS
<1>3. QED
  BY <1>1, <1>2

\* Opened is the live buffer of a key, or an empty one on a fresh segment.
LEMMA OpenedType ==
  ASSUME TypeOK, NEW k \in Keys, NEW b \in Opened(k)
  PROVE  /\ b \in Buf /\ b.key = k
         /\ b \in buffers \/ (b.evs = {} /\ b.seg \in FreshSegs)
<1>1. CASE Live(k) # {}
  BY <1>1 DEF TypeOK, Opened, Live
<1>2. CASE Live(k) = {}
  <2>1. PICK s \in FreshSegs : b = [key |-> k, evs |-> {}, seg |-> s, aged |-> FALSE]
    BY <1>2 DEF Opened
  <2>2. QED
    BY <2>1, FreshSegsType
<1>3. QED
  BY <1>1, <1>2

\* push_one extends one live buffer and its segment.
LEMMA PushOneType ==
  ASSUME TypeOK, NEW e \in Records, PushOne(e)
  PROVE  wal' \in [SegIds -> Segment] /\ buffers' \in SUBSET Buf
<1>1. PICK b \in Opened(KeyOf[e]) :
        /\ wal' = [s \in SegIds |-> IF s = b.seg THEN AppendLine(wal[s], e) ELSE wal[s]]
        /\ buffers' = (buffers \ {b}) \cup {[b EXCEPT !.evs = b.evs \cup {e}]}
  BY DEF PushOne
<1>2. b \in Buf
  BY OpenedType
<1>3. \A f \in Segment : AppendLine(f, e) \in Segment
  BY DEF AppendLine
<1>4. wal' \in [SegIds -> Segment]
  BY <1>1, <1>3 DEF TypeOK
<1>5. buffers' \in SUBSET Buf
  BY <1>1, <1>2 DEF TypeOK
<1>6. QED
  BY <1>4, <1>5

\* A failed append keeps or inserts the buffer and touches its segment.
LEMMA AppendFailsType ==
  ASSUME TypeOK, NEW k \in Keys, AppendFails(k)
  PROVE  wal' \in [SegIds -> Segment] /\ buffers' \in SUBSET Buf
<1>0. PICK b \in Opened(k) : \E f \in TornLine(wal[b.seg]) :
        wal' = [wal EXCEPT ![b.seg] = f] /\ buffers' = buffers \cup {b}
  BY DEF AppendFails
<1>1. PICK f \in TornLine(wal[b.seg]) :
        wal' = [wal EXCEPT ![b.seg] = f] /\ buffers' = buffers \cup {b}
  BY <1>0
<1>2. b \in Buf
  BY OpenedType
<1>3. b.seg \in SegIds => f \in Segment
  <2>1. SUFFICES ASSUME b.seg \in SegIds PROVE f \in Segment
    OBVIOUS
  <2>2. wal[b.seg] \in Segment
    BY <2>1 DEF TypeOK
  <2>3. PICK t \in {wal[b.seg].torn, wal[b.seg].torn \/ TornAppends} :
          f = [wal[b.seg] EXCEPT !.exists = TRUE, !.torn = t]
    BY DEF TornLine
  <2>4. t \in BOOLEAN
    BY <2>2
  <2>5. QED
    BY <2>2, <2>3, <2>4
<1>4. QED
  BY <1>1, <1>2, <1>3 DEF TypeOK

\* The segments keep their type when sync_wal commits them.
LEMMA SyncWalType ==
  ASSUME TypeOK, NEW S, SyncWal(S)
  PROVE  wal' \in [SegIds -> Segment]
<1>1. \A f \in Segment : Synced(f) \in Segment
  BY DEF Synced
<1>2. QED
  BY <1>1 DEF TypeOK, SyncWal

\* The segments keep their type when sync_wal stops at a failure.
LEMMA SyncFailsType ==
  ASSUME TypeOK, SyncFails
  PROVE  wal' \in [SegIds -> Segment]
BY SyncWalType DEF SyncFails

\* A failed flush puts back, leaves or merges a buffer of the right type.
LEMMA ReinsertType ==
  ASSUME TypeOK, NEW b \in Buf, NEW d \in BOOLEAN, Reinsert(b, d)
  PROVE  buffers' \in SUBSET Buf /\ dropped' \in SUBSET Records
<1>1. CASE Live(b.key) = {}
  BY <1>1 DEF TypeOK, Reinsert
<1>2. CASE Live(b.key) # {} /\ b.seg # NoSeg
  BY <1>2 DEF TypeOK, Reinsert
<1>3. CASE Live(b.key) # {} /\ b.seg = NoSeg
  <2>1. PICK c \in Live(b.key) :
          buffers' = (buffers \ {c}) \cup
            {[c EXCEPT !.aged = c.aged \/ b.aged,
                       !.evs = IF d THEN c.evs \cup b.evs ELSE c.evs]}
    BY <1>3 DEF Reinsert
  <2>2. c \in Buf
    BY DEF Live, TypeOK
  <2>3. (c.aged \/ b.aged) \in BOOLEAN
    OBVIOUS
  <2>4. (IF d THEN c.evs \cup b.evs ELSE c.evs) \in SUBSET Records
    <3>1. c.evs \in SUBSET Records /\ b.evs \in SUBSET Records
      BY <2>2
    <3>2. QED BY <3>1
  <2>5. buffers' \in SUBSET Buf
    <3> DEFINE aged == c.aged \/ b.aged
               evs == IF d THEN c.evs \cup b.evs ELSE c.evs
    <3>1. aged \in BOOLEAN /\ evs \in SUBSET Records
      BY <2>3, <2>4
    <3>2. buffers' = (buffers \ {c}) \cup {[c EXCEPT !.aged = aged, !.evs = evs]}
      BY <2>1
    <3> HIDE DEF aged, evs
    <3>3. [c EXCEPT !.aged = aged, !.evs = evs] \in Buf
      BY <2>2, <3>1
    <3>4. QED BY <3>2, <3>3 DEF TypeOK
  <2>6. dropped' \in SUBSET Records
    BY <1>3 DEF Reinsert, TypeOK
  <2>7. QED
    BY <2>5, <2>6
<1>4. QED
  BY <1>1, <1>2, <1>3

\* What the invariants speak of: everything but the /ready bit and the verdicts
\* on their way to it.
holdings == <<phase, buffers, taken, put, wal, old, scan, req, todo, mainErr, copies,
              acked, dropped, lossy, window, faults>>

\* Storing a verdict moves no record.
LEMMA StoreReadyMovesNothing ==
  ASSUME NEW a \in Actors, StoreReady(a) PROVE UNCHANGED holdings
BY DEF StoreReady, holdings

\* A step of the process, or one that moves nothing.
Moves == \/ \E r \in Requests : Handler(r)
         \/ \E a \in Actors : Flush(a)
         \/ SweeperTask
         \/ MainTask

LEMMA StepCases == [Next]_vars => UNCHANGED holdings \/ Moves
BY StoreReadyMovesNothing DEF Next, Moves, vars, holdings

\* The count of failures stays in its bound.
LEMMA FaultType ==
  ASSUME TypeOK, Fault PROVE faults' \in 0..MaxFaults
BY DEF TypeOK, Fault

\* The first state is well typed and its control state consistent.
LEMMA InitTypeControl == Init => TypeOK /\ ControlInv
<1> SUFFICES ASSUME Init PROVE TypeOK /\ ControlInv
  OBVIOUS
<1>1. wal \in [SegIds -> Segment] /\ taken \in [Actors -> SUBSET Buf]
      /\ put \in [Actors -> SUBSET Buf] /\ \A a \in Actors : put[a] \subseteq taken[a]
  BY DEF Init
<1>2. /\ todo \in [Requests -> SUBSET Records] /\ copies \in [Records -> Nat]
      /\ req \in [Requests -> ReqStates] /\ faults \in 0..MaxFaults
  BY DEF Init
<1>3. TypeOK
  BY <1>1, <1>2 DEF Init, TypeOK, Verdicts
<1>4. ControlInv
  BY DEF Init, ControlInv
<1>5. QED
  BY <1>3, <1>4

\* A handler's steps keep the types and the control invariant: the mutex has
\* one holder, and only a handler that awaits a flush has buffers taken.
LEMMA HandlerTypeControl ==
  ASSUME TypeOK, ControlInv, NEW r \in Requests, Handler(r)
  PROVE  TypeOK' /\ ControlInv'
<1> USE DEF NoFault, HandlerUnchanged
<1>1. CASE Reserve(r)
  <2>0. /\ taken' \in [Actors -> SUBSET Buf] /\ buffers' \in SUBSET Buf
        /\ \A a \in Actors : put[a] \subseteq taken'[a]
    BY <1>1 DEF TypeOK, ControlInv, Reserve, Largest
  <2>1. TypeOK'
    BY <1>1, <2>0 DEF TypeOK, Reserve
  <2>2. ControlInv'
    BY <1>1 DEF TypeOK, ControlInv, Reserve, LockFree
  <2>3. QED BY <2>1, <2>2
<1>2. CASE Recheck(r)
  <2>1. TypeOK'
    BY <1>2 DEF TypeOK, Recheck
  <2>2. ControlInv'
    BY <1>2 DEF TypeOK, ControlInv, Recheck, Flushed, LockFree
  <2>3. QED BY <2>1, <2>2
<1>3. ASSUME NEW e \in todo[r], PushEvent(r, e) PROVE TypeOK' /\ ControlInv'
  <2>1. e \in Records
    BY DEF TypeOK
  <2>2. wal' \in [SegIds -> Segment] /\ buffers' \in SUBSET Buf
    BY <1>3, <2>1, PushOneType DEF PushEvent
  <2>3. TypeOK'
    BY <1>3, <2>2 DEF TypeOK, PushEvent
  <2>4. ControlInv'
    BY <1>3 DEF TypeOK, ControlInv, PushEvent, HoldsLock, LockFree
  <2>5. QED BY <2>3, <2>4
<1>4. ASSUME NEW e \in todo[r], PushEventFails(r, e) PROVE TypeOK' /\ ControlInv'
  <2>1. e \in Records /\ KeyOf[e] \in Keys
    BY DEF TypeOK
  <2>2. CreateFails(KeyOf[e]) => wal' \in [SegIds -> Segment] /\ buffers' \in SUBSET Buf
    BY DEF TypeOK, CreateFails
  <2>3. wal' \in [SegIds -> Segment] /\ buffers' \in SUBSET Buf
    BY <1>4, <2>1, <2>2, PushOneType, AppendFailsType DEF PushEventFails
  <2>4. faults' \in 0..MaxFaults
    BY <1>4, FaultType DEF PushEventFails
  <2>5. /\ UNCHANGED <<phase, taken, put, verdict, old, scan, todo, lastFlushOk, mainErr, copies,
                       acked, dropped, lossy, window>>
        /\ req' = [req EXCEPT ![r] = "failed"] /\ HoldsLock(r)
    BY <1>4 DEF PushEventFails
  <2>6. TypeOK'
    BY <2>3, <2>4, <2>5 DEF TypeOK
  <2>7. ControlInv'
    BY <2>5 DEF TypeOK, ControlInv, HoldsLock, LockFree
  <2>8. QED BY <2>6, <2>7
<1>5. CASE SyncBatch(r)
  <2>1. wal' \in [SegIds -> Segment]
    BY <1>5, SyncWalType DEF SyncBatch
  <2>2. TypeOK'
    BY <1>5, <2>1 DEF TypeOK, SyncBatch
  <2>3. ControlInv'
    BY <1>5 DEF TypeOK, ControlInv, SyncBatch, HoldsLock, LockFree
  <2>4. QED BY <2>2, <2>3
<1>6. CASE SyncBatchFails(r)
  <2>1. wal' \in [SegIds -> Segment] /\ faults' \in 0..MaxFaults
    BY <1>6, SyncFailsType, FaultType DEF SyncBatchFails
  <2>2. /\ UNCHANGED <<phase, buffers, taken, put, verdict, old, scan, todo, lastFlushOk, mainErr,
                       copies, acked, dropped, lossy, window>>
        /\ req' = [req EXCEPT ![r] = "failed"] /\ HoldsLock(r)
    BY <1>6 DEF SyncBatchFails
  <2>3. TypeOK'
    BY <2>1, <2>2 DEF TypeOK
  <2>4. ControlInv'
    BY <2>2 DEF TypeOK, ControlInv, HoldsLock, LockFree
  <2>5. QED BY <2>3, <2>4
<1>7. CASE Take(r)
  <2>1. TypeOK'
    BY <1>7 DEF TypeOK, ControlInv, Take
  <2>2. ControlInv'
    BY <1>7 DEF TypeOK, ControlInv, Take
  <2>3. QED BY <2>1, <2>2
<1>8. CASE Respond(r)
  <2>1. TypeOK'
    BY <1>8 DEF TypeOK, Respond
  <2>2. ControlInv'
    BY <1>8 DEF TypeOK, ControlInv, Respond, Flushed
  <2>3. QED BY <2>1, <2>2
<1>9. CASE Disconnect(r)
  <2>1. TypeOK'
    BY <1>9, FaultType DEF TypeOK, Disconnect
  <2>2. ControlInv'
    <3>1. /\ UNCHANGED <<phase, todo>> /\ req' = [req EXCEPT ![r] = "gone"]
          /\ taken' = [taken EXCEPT ![r] = {}]
      BY <1>9 DEF Disconnect
    <3>2. QED BY <3>1 DEF TypeOK, ControlInv
  <2>3. QED BY <2>1, <2>2
<1>10. QED
  BY <1>1, <1>2, <1>3, <1>4, <1>5, <1>6, <1>7, <1>8, <1>9 DEF Handler

\* A step of flush_one keeps types and control.
LEMMA FlushTypeControl ==
  ASSUME TypeOK, ControlInv, NEW a \in Actors, Flush(a)
  PROVE  TypeOK' /\ ControlInv'
<1> USE DEF NoFault, FlushUnchanged
<1>0. PICK b \in taken[a] : PutData(a, b) \/ FlushOk(a, b) \/ FlushFails(a, b)
  BY DEF Flush
<1>b. b \in Buf
  BY DEF TypeOK
<1>1. CASE PutData(a, b)
  <2>1. TypeOK'
    BY <1>1, <1>b DEF TypeOK, PutData
  <2>2. ControlInv'
    BY <1>1 DEF ControlInv, PutData
  <2>3. QED BY <2>1, <2>2
<1>2. CASE FlushOk(a, b)
  <2>1. wal' \in [SegIds -> Segment]
    <3>1. Delete(wal, b.seg) \in [SegIds -> Segment]
      BY DEF TypeOK, Delete
    <3>2. QED BY <1>2, <3>1 DEF TypeOK, FlushOk
  <2>2. faults' \in 0..MaxFaults /\ window' \in BOOLEAN
    BY <1>2, FaultType DEF TypeOK, FlushOk
  <2>3. TypeOK'
    BY <1>2, <2>1, <2>2 DEF TypeOK, FlushOk, Verdicts
  <2>4. ControlInv'
    BY <1>2 DEF TypeOK, ControlInv, FlushOk
  <2>5. QED BY <2>3, <2>4
<1>3. CASE FlushFails(a, b)
  <2>1. buffers' \in SUBSET Buf /\ dropped' \in SUBSET Records
    BY <1>3, <1>b, ReinsertType DEF FlushFails
  <2>2. faults' \in 0..MaxFaults
    BY <1>3, FaultType DEF FlushFails
  <2>3. /\ UNCHANGED <<wal, copies, phase, old, scan, req, todo, acked, lossy>>
        /\ lastFlushOk' = lastFlushOk /\ verdict' = [verdict EXCEPT ![a] = "failed"]
        /\ taken' = [taken EXCEPT ![a] = @ \ {b}] /\ put' = [put EXCEPT ![a] = {}]
        /\ window' \in BOOLEAN /\ mainErr' \in BOOLEAN
    BY <1>3 DEF FlushFails, TypeOK
  <2>4. TypeOK'
    BY <2>1, <2>2, <2>3 DEF TypeOK, Verdicts
  <2>5. ControlInv'
    BY <2>3 DEF TypeOK, ControlInv
  <2>6. QED BY <2>4, <2>5
<1>4. QED
  BY <1>0, <1>1, <1>2, <1>3

\* A step of the sweep loop keeps types and control.
LEMMA SweeperTypeControl ==
  ASSUME TypeOK, ControlInv, SweeperTask
  PROVE  TypeOK' /\ ControlInv'
<1>1. CASE Sweep
  <2>1. TypeOK'
    BY <1>1 DEF TypeOK, Sweep, SweeperIdle, Flushed, Expired
  <2>2. ControlInv'
    BY <1>1 DEF TypeOK, ControlInv, Sweep, SweeperIdle, Flushed, Expired
  <2>3. QED BY <2>1, <2>2
<1>2. ASSUME NEW b \in buffers, Age(b) PROVE TypeOK' /\ ControlInv'
  <2>1. TypeOK'
    BY <1>2 DEF TypeOK, Age
  <2>2. ControlInv'
    BY <1>2 DEF ControlInv, Age
  <2>3. QED BY <2>1, <2>2
<1>3. QED
  BY <1>1, <1>2 DEF SweeperTask

\* A step of serve_listener, from replay to exit, keeps types and control.
LEMMA MainTypeControl ==
  ASSUME TypeOK, ControlInv, MainTask
  PROVE  TypeOK' /\ ControlInv'
<1> USE DEF NoFault, MainUnchanged
<1>1. CASE Start
  <2>1. \A s \in SegIds : Lines(s) \subseteq Records
    BY DEF TypeOK, Lines
  <2>2. scan' \in SUBSET Records /\ old' \in SUBSET SegIds /\ phase' \in Phases
    BY <1>1, <2>1 DEF Start
  <2>3. TypeOK'
    BY <1>1, <2>2 DEF TypeOK, Start
  <2>4. ControlInv'
    BY <1>1 DEF TypeOK, ControlInv, Start
  <2>5. QED BY <2>3, <2>4
<1>2. ASSUME NEW e \in scan, ReplayEvent(e) PROVE TypeOK' /\ ControlInv'
  <2>1. wal' \in [SegIds -> Segment] /\ buffers' \in SUBSET Buf
    BY <1>2, PushOneType DEF TypeOK, ReplayEvent
  <2>2. TypeOK'
    BY <1>2, <2>1 DEF TypeOK, ReplayEvent
  <2>3. ControlInv'
    BY <1>2 DEF ControlInv, ReplayEvent
  <2>4. QED BY <2>2, <2>3
<1>3. CASE ReplaySync
  <2>1. wal' \in [SegIds -> Segment]
    BY <1>3, SyncWalType DEF ReplaySync
  <2>2. TypeOK'
    BY <1>3, <2>1 DEF TypeOK, ReplaySync
  <2>3. ControlInv'
    BY <1>3 DEF ControlInv, ReplaySync
  <2>4. QED BY <2>2, <2>3
<1>4. CASE ReplayRetire
  <2>1. wal' \in [SegIds -> Segment]
    <3>1. PICK S : wal' = [s \in SegIds |-> IF s \in S THEN NoFile ELSE wal[s]]
      BY <1>4 DEF ReplayRetire
    <3>2. QED BY <3>1 DEF TypeOK
  <2>2. faults' \in 0..MaxFaults /\ window' \in BOOLEAN
    BY <1>4, FaultType DEF TypeOK, ReplayRetire
  <2>3. /\ UNCHANGED <<put, verdict, todo, req, copies, acked, dropped, scan, lastFlushOk, mainErr, lossy>>
        /\ old' = {} /\ taken' = [taken EXCEPT ![Main] = FlushDue]
        /\ buffers' = buffers \ FlushDue /\ phase' = "replayFlush" /\ phase = "replayed"
    BY <1>4 DEF ReplayRetire
  <2>4. FlushDue \in SUBSET Buf
    BY DEF TypeOK, FlushDue
  <2>5. TypeOK'
    BY <2>1, <2>2, <2>3, <2>4 DEF TypeOK, ControlInv
  <2>6. ControlInv'
    BY <2>3 DEF TypeOK, ControlInv
  <2>7. QED BY <2>5, <2>6
<1>5. CASE ReplayFails
  <2>1. \A e \in scan : e \in Records /\ KeyOf[e] \in Keys
    BY DEF TypeOK
  <2>2. \A e \in scan : CreateFails(KeyOf[e]) =>
          wal' \in [SegIds -> Segment] /\ buffers' \in SUBSET Buf
    BY DEF TypeOK, CreateFails
  <2>3. wal' \in [SegIds -> Segment] /\ buffers' \in SUBSET Buf
    <3>1. CASE \E e \in scan : CreateFails(KeyOf[e]) \/ AppendFails(KeyOf[e]) \/ PushOne(e)
      BY <3>1, <2>1, <2>2, PushOneType, AppendFailsType
    <3>2. CASE SyncFails /\ UNCHANGED buffers
      BY <3>2, SyncFailsType DEF TypeOK
    <3>3. QED BY <1>5, <3>1, <3>2 DEF ReplayFails
  <2>4. faults' \in 0..MaxFaults
    BY <1>5, FaultType DEF ReplayFails
  <2>5. /\ UNCHANGED <<put, verdict, todo, req, copies, acked, dropped, taken, old, scan, lastFlushOk, lossy>>
        /\ phase = "replay" /\ phase' = "final" /\ mainErr' = TRUE /\ window' = TRUE
    BY <1>5 DEF ReplayFails
  <2>6. TypeOK'
    BY <2>3, <2>4, <2>5 DEF TypeOK
  <2>7. ControlInv'
    BY <2>5 DEF ControlInv
  <2>8. QED BY <2>6, <2>7
<1>6. CASE Serve
  BY <1>6 DEF TypeOK, ControlInv, Serve, Flushed
<1>7. CASE Shutdown
  BY <1>7 DEF TypeOK, ControlInv, Shutdown
<1>8. CASE FlushAll
  <2>1. TypeOK'
    BY <1>8 DEF TypeOK, ControlInv, FlushAll
  <2>2. ControlInv'
    BY <1>8 DEF TypeOK, ControlInv, FlushAll, Flushed
  <2>3. QED BY <2>1, <2>2
<1>9. CASE Exit
  BY <1>9 DEF TypeOK, ControlInv, Exit, Flushed
<1>10. CASE Crash
  <2>1. wal' \in [SegIds -> Segment]
    <3>1. PICK kept \in SUBSET Records :
            wal' = [s \in SegIds |->
                     [wal[s] EXCEPT !.durable = @ \cup (wal[s].pending \cap kept),
                                    !.pending = {}, !.torn = FALSE]]
      BY <1>10 DEF Crash
    <3>2. \A s \in SegIds : wal[s] \in Segment
      BY DEF TypeOK
    <3>3. QED BY <3>1, <3>2
  <2>2. req' \in [Requests -> ReqStates] /\ faults' \in 0..MaxFaults /\ window' \in BOOLEAN
    BY <1>10, FaultType DEF TypeOK, Crash
  <2>3. TypeOK'
    BY <1>10, <2>1, <2>2 DEF TypeOK, Crash, Verdicts
  <2>4. ControlInv'
    BY <1>10 DEF TypeOK, ControlInv, Crash
  <2>5. QED BY <2>3, <2>4
<1>11. QED
  BY <1>1, <1>2, <1>3, <1>4, <1>5, <1>6, <1>7, <1>8, <1>9, <1>10 DEF MainTask

\* Every step keeps types and control.
LEMMA StepTypeControl ==
  TypeOK /\ ControlInv /\ [Next]_vars => TypeOK' /\ ControlInv'
<1> SUFFICES ASSUME TypeOK, ControlInv, [Next]_vars PROVE TypeOK' /\ ControlInv'
  OBVIOUS
<1>1. CASE UNCHANGED vars
  BY <1>1 DEF vars, TypeOK, ControlInv
<1>2. ASSUME NEW a \in Actors, StoreReady(a) PROVE TypeOK' /\ ControlInv'
  BY <1>2 DEF StoreReady, TypeOK, ControlInv, Verdicts
<1>3. CASE Next
  BY <1>2, <1>3, HandlerTypeControl, FlushTypeControl, SweeperTypeControl, MainTypeControl
  DEF Next
<1>4. QED
  BY <1>1, <1>3

\* The state keeps its types, and a task's unfinished PUT is always of a buffer
\* it still holds: no flush of a handler, the sweeper or the main task is
\* forgotten half way (buffer.rs flush_taken, flush_one).
THEOREM TypeCorrect == Spec => []TypeOK
<1>1. Init => TypeOK /\ ControlInv
  BY InitTypeControl
<1>2. TypeOK /\ ControlInv /\ [Next]_vars => (TypeOK /\ ControlInv)'
  BY StepTypeControl
<1>3. QED
  BY <1>1, <1>2, PTL DEF Spec

-----------------------------------------------------------------------------
(* Part 2: the at-least-once log *)

WalAssumption == WalOn /\ ~TornAppends

Safe == Stored \cup Durable

\* What a state needs so that the segments mirror the buffers after a step.
Inv == TypeOK /\ ControlInv /\ MirrorInv /\ OwnerInv /\ BatchInv

\* push_one writes the record to the segment of the buffer it pushes it into,
\* and touches no other segment.
LEMMA PushOneMirror ==
  ASSUME Inv, WalAssumption, NEW e \in Records, PushOne(e), UNCHANGED <<taken, old>>
  PROVE  /\ MirrorInv' /\ OwnerInv'
         /\ Durable \subseteq Durable'
         /\ InMemory \cup {e} \subseteq InMemory'
         /\ \A s \in old : wal'[s] = wal[s]
<1> USE DEF Inv
<1>1. PICK b \in Opened(KeyOf[e]) :
        /\ wal' = [s \in SegIds |-> IF s = b.seg THEN AppendLine(wal[s], e) ELSE wal[s]]
        /\ buffers' = (buffers \ {b}) \cup {[b EXCEPT !.evs = b.evs \cup {e}]}
  BY DEF PushOne
<1> DEFINE nb == [b EXCEPT !.evs = b.evs \cup {e}]
<1>2. b \in Buf /\ (b \in buffers \/ (b.evs = {} /\ b.seg \in FreshSegs))
  BY OpenedType
<1>3. b.seg \in SegIds \ old /\ b.evs = Lines(b.seg)
  BY <1>2, FreshSegsType DEF WalAssumption, MirrorInv, Mirrored
<1>4. /\ \A c \in buffers \ {b} : c.seg # b.seg
      /\ \A a \in Actors : \A c \in taken[a] : c.seg # b.seg
  BY <1>2, FreshSegsType DEF WalAssumption, MirrorInv, Mirrored, OwnerInv
<1>5. \A s \in SegIds \ {b.seg} : wal'[s] = wal[s]
  BY <1>1
<1>6. wal'[b.seg] = [exists |-> TRUE, durable |-> wal[b.seg].durable,
                     pending |-> wal[b.seg].pending \cup {e}, torn |-> FALSE]
  BY <1>1, <1>3 DEF AppendLine, MirrorInv
<1>7. nb.seg = b.seg /\ nb.evs = b.evs \cup {e} /\ buffers' = (buffers \ {b}) \cup {nb}
  BY <1>1, <1>2
<1> HIDE DEF nb
<1>8. \A s \in SegIds : wal'[s].durable = wal[s].durable
  BY <1>5, <1>6
<1>9. nb.evs = Lines(b.seg)'
  BY <1>3, <1>6, <1>7 DEF Lines
<1>10. \A s \in SegIds \ {b.seg} : Lines(s)' = Lines(s)
  BY <1>5 DEF Lines
<1>11. MirrorInv'
  <2>1. \A s \in SegIds : ~wal'[s].torn /\ (~wal'[s].exists => Lines(s)' = {})
    BY <1>5, <1>6, <1>10 DEF MirrorInv
  <2>2. \A s \in old' : wal'[s].exists
    BY <1>3, <1>5, <1>6 DEF MirrorInv, TypeOK
  <2>3. \A c \in buffers' : Mirrored(c)'
    <3>1. Mirrored(nb)'
      BY <1>3, <1>6, <1>7, <1>9 DEF Mirrored
    <3>2. \A c \in buffers \ {b} : Mirrored(c)'
      BY <1>4, <1>5, <1>10 DEF MirrorInv, Mirrored
    <3>3. QED BY <1>7, <3>1, <3>2
  <2>4. \A a \in Actors : \A c \in taken'[a] : Mirrored(c)'
    BY <1>4, <1>5, <1>10 DEF MirrorInv, Mirrored
  <2>5. QED BY <2>1, <2>2, <2>3, <2>4 DEF MirrorInv
<1>12. OwnerInv'
  <2>1. \A c, d \in buffers' : c.seg = d.seg => c = d
    BY <1>4, <1>7 DEF OwnerInv
  <2>2. \A a \in Actors : \A c \in taken'[a] : \A d \in buffers' : c.seg # d.seg
    BY <1>4, <1>7 DEF OwnerInv
  <2>3. QED BY <2>1, <2>2 DEF OwnerInv
<1>13. Durable \subseteq Durable'
  BY <1>8 DEF Durable
<1>14. InMemory \cup {e} \subseteq InMemory'
  <2>1. \A x \in InMemory : x \in InMemory'
    <3>1. SUFFICES ASSUME NEW x, NEW c \in buffers, x \in c.evs PROVE x \in InMemory'
      BY DEF InMemory
    <3>2. CASE c = b
      BY <3>1, <3>2, <1>7 DEF InMemory
    <3>3. CASE c # b
      BY <3>1, <3>3, <1>7 DEF InMemory
    <3>4. QED BY <3>2, <3>3
  <2>2. e \in InMemory'
    BY <1>7 DEF InMemory
  <2>3. QED BY <2>1, <2>2
<1>15. QED
  BY <1>3, <1>5, <1>11, <1>12, <1>13, <1>14 DEF TypeOK

\* A failed append changes no record of any segment or buffer.
LEMMA AppendFailsMirror ==
  ASSUME Inv, WalAssumption, NEW k \in Keys, AppendFails(k), UNCHANGED <<taken, old>>
  PROVE  /\ MirrorInv' /\ OwnerInv'
         /\ Durable \subseteq Durable'
         /\ InMemory \subseteq InMemory'
         /\ \A s \in SegIds : Lines(s)' = Lines(s)
<1> USE DEF Inv
<1>0. PICK b \in Opened(k) : \E f \in TornLine(wal[b.seg]) :
        wal' = [wal EXCEPT ![b.seg] = f] /\ buffers' = buffers \cup {b}
  BY DEF AppendFails
<1>1. PICK f \in TornLine(wal[b.seg]) :
        wal' = [wal EXCEPT ![b.seg] = f] /\ buffers' = buffers \cup {b}
  BY <1>0
<1>2. b \in Buf /\ (b \in buffers \/ (b.evs = {} /\ b.seg \in FreshSegs))
  BY OpenedType
<1>3. b.seg \in SegIds \ old /\ b.evs = Lines(b.seg)
  BY <1>2, FreshSegsType DEF WalAssumption, MirrorInv, Mirrored
<1>4. /\ \A c \in buffers \ {b} : c.seg # b.seg
      /\ \A a \in Actors : \A c \in taken[a] : c.seg # b.seg
  BY <1>2, FreshSegsType DEF WalAssumption, MirrorInv, Mirrored, OwnerInv
<1>5. /\ f.exists /\ ~f.torn
      /\ f.durable = wal[b.seg].durable /\ f.pending = wal[b.seg].pending
  <2>1. PICK t \in {wal[b.seg].torn, wal[b.seg].torn \/ TornAppends} :
          f = [wal[b.seg] EXCEPT !.exists = TRUE, !.torn = t]
    BY DEF TornLine
  <2>2. ~t
    BY <1>3, <2>1 DEF WalAssumption, MirrorInv
  <2>3. wal[b.seg] \in Segment
    BY <1>3 DEF TypeOK
  <2>4. QED BY <2>1, <2>2, <2>3
<1>6. wal'[b.seg] = f /\ \A s \in SegIds \ {b.seg} : wal'[s] = wal[s]
  BY <1>1, <1>3 DEF TypeOK
<1>7. \A s \in SegIds : Lines(s)' = Lines(s) /\ wal'[s].durable = wal[s].durable
  BY <1>5, <1>6 DEF Lines
<1>8. MirrorInv'
  <2>1. \A s \in SegIds : ~wal'[s].torn /\ (~wal'[s].exists => Lines(s)' = {})
    BY <1>5, <1>6, <1>7 DEF MirrorInv
  <2>2. \A s \in old' : wal'[s].exists
    BY <1>5, <1>6 DEF MirrorInv, TypeOK
  <2>3. Mirrored(b)'
    BY <1>3, <1>5, <1>6, <1>7 DEF Mirrored
  <2>4. \A c \in buffers' : Mirrored(c)'
    BY <1>1, <1>5, <1>6, <1>7, <2>3 DEF MirrorInv, Mirrored
  <2>5. \A a \in Actors : \A c \in taken'[a] : Mirrored(c)'
    BY <1>4, <1>6, <1>7 DEF MirrorInv, Mirrored
  <2>6. QED BY <2>1, <2>2, <2>4, <2>5 DEF MirrorInv
<1>9. OwnerInv'
  <2>1. \A c, d \in buffers' : c.seg = d.seg => c = d
    BY <1>1, <1>4 DEF OwnerInv
  <2>2. \A a \in Actors : \A c \in taken'[a] : \A d \in buffers' : c.seg # d.seg
    BY <1>1, <1>4 DEF OwnerInv
  <2>3. QED BY <2>1, <2>2 DEF OwnerInv
<1>10. Durable \subseteq Durable' /\ InMemory \subseteq InMemory'
  BY <1>1, <1>7 DEF Durable, InMemory
<1>11. QED
  BY <1>7, <1>8, <1>9, <1>10

\* An fsync moves lines from pending to durable and changes no segment's lines.
LEMMA SyncMirror ==
  ASSUME Inv, NEW S, SyncWal(S), UNCHANGED <<buffers, taken, old>>
  PROVE  /\ MirrorInv' /\ OwnerInv'
         /\ Durable \subseteq Durable'
         /\ \A s \in SegIds : Lines(s)' = Lines(s)
         /\ \A s \in S \cap SegIds : Lines(s) = wal'[s].durable
<1> USE DEF Inv
<1>1. \A s \in SegIds : wal'[s] = IF s \in S THEN Synced(wal[s]) ELSE wal[s]
  BY DEF SyncWal
<1>2. \A s \in SegIds : wal[s] \in Segment
  BY DEF TypeOK
<1>3. \A f \in Segment : /\ Synced(f).exists = f.exists /\ Synced(f).torn = f.torn
                         /\ Synced(f).durable = f.durable \cup f.pending
                         /\ Synced(f).pending = {}
  BY DEF Synced
<1>4. \A s \in SegIds : /\ wal'[s].exists = wal[s].exists /\ wal'[s].torn = wal[s].torn
                        /\ wal[s].durable \subseteq wal'[s].durable
                        /\ Lines(s)' = Lines(s)
                        /\ s \in S => Lines(s) = wal'[s].durable
  BY <1>1, <1>2, <1>3 DEF Lines
<1>5. MirrorInv'
  <2>1. \A s \in SegIds : ~wal'[s].torn /\ (~wal'[s].exists => Lines(s)' = {})
    BY <1>4 DEF MirrorInv
  <2>2. \A s \in old' : wal'[s].exists
    BY <1>4 DEF MirrorInv, TypeOK
  <2>3. \A b : Mirrored(b) => Mirrored(b)'
    BY <1>4 DEF Mirrored
  <2>4. QED BY <2>1, <2>2, <2>3 DEF MirrorInv
<1>6. OwnerInv'
  BY DEF OwnerInv
<1>7. Durable \subseteq Durable'
  BY <1>4 DEF Durable
<1>8. QED
  BY <1>4, <1>5, <1>6, <1>7

\* Taking buffers out of the map moves owners only.
LEMMA TakeOwner ==
  ASSUME Inv, NEW a \in Actors, NEW D \in SUBSET buffers, taken[a] = {},
         buffers' = buffers \ D, taken' = [taken EXCEPT ![a] = D]
  PROVE  OwnerInv'
<1> USE DEF Inv
<1>1. taken'[a] = D /\ \A d \in Actors \ {a} : taken'[d] = taken[d]
  BY DEF TypeOK
<1>2. \A b, c \in buffers' : b.seg = c.seg => b = c
  BY DEF OwnerInv
<1>3. \A d \in Actors : \A b \in taken'[d] : \A c \in buffers' : b.seg # c.seg
  BY <1>1 DEF OwnerInv
<1>4. ASSUME NEW x \in Actors, NEW y \in Actors,
             NEW b \in taken'[x], NEW c \in taken'[y], b.seg = c.seg
      PROVE  x = y /\ b = c
  <2>1. CASE x = a /\ y = a
    BY <1>1, <1>4, <2>1 DEF OwnerInv
  <2>2. CASE x = a /\ y # a
    BY <1>1, <1>4, <2>2 DEF OwnerInv
  <2>3. CASE x # a /\ y = a
    BY <1>1, <1>4, <2>3 DEF OwnerInv
  <2>4. CASE x # a /\ y # a
    BY <1>1, <1>4, <2>4 DEF OwnerInv
  <2>5. QED BY <2>1, <2>2, <2>3, <2>4
<1>5. QED BY <1>2, <1>3, <1>4 DEF OwnerInv

\* Taking buffers for a flush keeps each one mirrored by its segment.
LEMMA TakeMirror ==
  ASSUME Inv, NEW a \in Actors, NEW D \in SUBSET buffers, taken[a] = {},
         buffers' = buffers \ D, taken' = [taken EXCEPT ![a] = D],
         UNCHANGED <<wal, old>>
  PROVE  MirrorInv' /\ OwnerInv'
<1>1. taken'[a] = D /\ \A d \in Actors \ {a} : taken'[d] = taken[d]
  BY DEF Inv, TypeOK
<1>2. MirrorInv'
  BY <1>1 DEF Inv, MirrorInv, Mirrored, Lines
<1>3. QED BY <1>2, TakeOwner

\* Dropping buffers, or files from the list of the replay, disturbs nothing.
LEMMA DropMirror ==
  ASSUME Inv, buffers' \subseteq buffers,
         \A a \in Actors : taken'[a] \subseteq taken[a],
         old' \subseteq old, UNCHANGED wal
  PROVE  MirrorInv' /\ OwnerInv'
<1>1. MirrorInv'
  BY DEF Inv, MirrorInv, Mirrored, Lines
<1>2. OwnerInv'
  BY DEF Inv, OwnerInv
<1>3. QED BY <1>1, <1>2

\* Steps that store and acknowledge nothing, and forget nothing.
Quiet == /\ UNCHANGED <<copies, acked>>
         /\ Safe \subseteq Safe'

\* A step that stores and acknowledges nothing and loses no durable record is quiet.
LEMMA QuietByDurable ==
  ASSUME UNCHANGED <<copies, acked>>, Durable \subseteq Durable'
  PROVE  Quiet
BY DEF Quiet, Safe, Stored

\* What a step owes: the invariant, and a step of the log or none.
Owes == MirrorInv' /\ OwnerInv' /\ BatchInv' /\ Quiet

\* A handler step keeps what is owed to clients durable.
LEMMA HandlerOwes ==
  ASSUME Inv, WalAssumption, NEW r \in Requests, Handler(r), ~Respond(r)
  PROVE  Owes
<1> USE DEF Inv, NoFault, HandlerUnchanged
<1>1. CASE Reserve(r)
  <2>1. UNCHANGED <<put, wal, todo, acked, phase, old, scan, copies>>
    BY <1>1 DEF Reserve
  <2>2. LockFree /\ req[r] = "new"
    BY <1>1 DEF Reserve
  <2>3. \E D \in SUBSET buffers : buffers' = buffers \ D /\ taken' = [taken EXCEPT ![r] = D]
    <3>1. taken[r] = {}
      BY <2>2 DEF ControlInv
    <3>2. taken = [taken EXCEPT ![r] = {}]
      BY <3>1 DEF TypeOK
    <3>3. CASE UNCHANGED <<buffers, taken>>
      BY <3>2, <3>3
    <3>4. CASE \E b \in Largest : taken' = [taken EXCEPT ![r] = {b}] /\ buffers' = buffers \ {b}
      BY <3>4 DEF Largest
    <3>5. QED BY <1>1, <3>3, <3>4 DEF Reserve
  <2>4. MirrorInv' /\ OwnerInv'
    BY <2>1, <2>2, <2>3, TakeMirror DEF ControlInv
  <2>5. Quiet
    BY <2>1, QuietByDurable DEF Durable
  <2>6. \A q \in Requests : /\ req'[q] = "push" => req[q] = "push"
                            /\ req'[q] \in {"take", "flush"} => req[q] \in {"take", "flush"}
    BY <1>1 DEF Reserve, TypeOK
  <2>7. phase = "up"
    BY <1>1 DEF Reserve
  <2>8. BatchInv'
    BY <2>1, <2>2, <2>6, <2>7 DEF BatchInv, LockFree, Stored, Durable
  <2>9. QED BY <2>4, <2>5, <2>8 DEF Owes
<1>2. CASE Recheck(r)
  <2>1. UNCHANGED <<buffers, taken, put, wal, todo, acked, phase, old, scan, copies>>
    BY <1>2 DEF Recheck
  <2>2. MirrorInv' /\ OwnerInv'
    BY <2>1, DropMirror
  <2>3. Quiet
    BY <2>1, QuietByDurable DEF Durable
  <2>4. \A q \in Requests : /\ req'[q] = "push" => req[q] = "push"
                            /\ req'[q] \in {"take", "flush"} => req[q] \in {"take", "flush"}
    BY <1>2 DEF Recheck, TypeOK
  <2>5. BatchInv'
    BY <2>1, <2>4 DEF BatchInv, Stored, Durable, InMemory, Lines
  <2>6. QED BY <2>2, <2>3, <2>5 DEF Owes
<1>3. ASSUME NEW e \in todo[r], PushEvent(r, e) PROVE Owes
  <2>1. /\ UNCHANGED <<taken, put, acked, phase, old, scan, copies>>
        /\ todo' = [todo EXCEPT ![r] = todo[r] \ {e}]
        /\ req' = [req EXCEPT ![r] = "push"] /\ HoldsLock(r) /\ PushOne(e)
    BY <1>3 DEF PushEvent
  <2>2. e \in Records
    BY DEF TypeOK
  <2>3. /\ MirrorInv' /\ OwnerInv' /\ Durable \subseteq Durable'
        /\ InMemory \cup {e} \subseteq InMemory' /\ \A s \in old : wal'[s] = wal[s]
    BY <2>1, <2>2, PushOneMirror
  <2>4. Quiet
    BY <2>1, <2>3, QuietByDurable
  <2>5. phase \in {"up", "stopping"}
    BY <2>1 DEF HoldsLock, ControlInv
  <2>6. Batch[r] \subseteq todo'[r] \cup InMemory'
    <3>1. Batch[r] \subseteq todo[r] \cup InMemory
      BY <2>1 DEF HoldsLock, ControlInv, BatchInv
    <3>2. todo'[r] = todo[r] \ {e}
      BY <2>1 DEF TypeOK
    <3>3. QED BY <3>1, <3>2, <2>3
  <2>7. \A q \in Requests \ {r} : req'[q] # "push"
    BY <2>1 DEF HoldsLock, ControlInv, LockFree, TypeOK
  <2>8. \A q \in Requests : req'[q] \in {"take", "flush"} => Batch[q] \subseteq Safe'
    BY <2>1, <2>4 DEF BatchInv, TypeOK, Quiet, Safe
  <2>9. BatchInv'
    BY <2>1, <2>5, <2>6, <2>7, <2>8 DEF BatchInv, Safe, Stored
  <2>10. QED BY <2>3, <2>4, <2>9 DEF Owes
<1>4. ASSUME NEW e \in todo[r], PushEventFails(r, e) PROVE Owes
  <2>1. /\ UNCHANGED <<taken, put, todo, acked, phase, old, scan, copies>>
        /\ req' = [req EXCEPT ![r] = "failed"] /\ HoldsLock(r)
        /\ CreateFails(KeyOf[e]) \/ AppendFails(KeyOf[e]) \/ PushOne(e)
    BY <1>4 DEF PushEventFails
  <2>2. e \in Records /\ KeyOf[e] \in Keys
    BY DEF TypeOK
  <2>3. MirrorInv' /\ OwnerInv' /\ Durable \subseteq Durable'
    <3>1. CASE CreateFails(KeyOf[e])
      BY <2>1, <3>1, DropMirror DEF CreateFails, Durable
    <3>2. CASE AppendFails(KeyOf[e])
      BY <2>1, <2>2, <3>2, AppendFailsMirror
    <3>3. CASE PushOne(e)
      BY <2>1, <2>2, <3>3, PushOneMirror
    <3>4. QED BY <2>1, <3>1, <3>2, <3>3
  <2>4. Quiet
    BY <2>1, <2>3, QuietByDurable
  <2>5. phase \in {"up", "stopping"}
    BY <2>1 DEF HoldsLock, ControlInv
  <2>6. \A q \in Requests : req'[q] # "push"
    BY <2>1 DEF HoldsLock, ControlInv, LockFree, TypeOK
  <2>7. \A q \in Requests : req'[q] \in {"take", "flush"} => Batch[q] \subseteq Safe'
    BY <2>1, <2>4 DEF BatchInv, TypeOK, Quiet, Safe
  <2>8. BatchInv'
    BY <2>1, <2>5, <2>6, <2>7 DEF BatchInv, Safe, Stored
  <2>9. QED BY <2>3, <2>4, <2>8 DEF Owes
<1>5. CASE SyncBatch(r)
  <2>1. /\ UNCHANGED <<buffers, taken, put, todo, acked, phase, old, scan, copies>>
        /\ req' = [req EXCEPT ![r] = "take"] /\ HoldsLock(r) /\ todo[r] = {} /\ SyncWal(LiveSegs)
    BY <1>5 DEF SyncBatch
  <2>2. /\ MirrorInv' /\ OwnerInv' /\ Durable \subseteq Durable'
        /\ \A s \in LiveSegs \cap SegIds : Lines(s) = wal'[s].durable
    BY <2>1, SyncMirror
  <2>3. Quiet
    BY <2>1, <2>2, QuietByDurable
  <2>4. InMemory \subseteq Durable'
    <3>1. \A b \in buffers : b.seg \in LiveSegs \cap SegIds /\ b.evs = Lines(b.seg)
      BY DEF LiveSegs, MirrorInv, Mirrored
    <3>2. \A b \in buffers : b.evs \subseteq Durable'
      BY <2>2, <3>1 DEF Durable
    <3>3. QED BY <3>2 DEF InMemory
  <2>5. Batch[r] \subseteq Safe'
    <3>1. Batch[r] \subseteq todo[r] \cup InMemory
      BY <2>1 DEF HoldsLock, ControlInv, BatchInv
    <3>2. QED BY <2>1, <2>4, <3>1 DEF Safe
  <2>6. phase \in {"up", "stopping"}
    BY <2>1 DEF HoldsLock, ControlInv
  <2>7. \A q \in Requests : req'[q] # "push"
    BY <2>1 DEF HoldsLock, ControlInv, LockFree, TypeOK
  <2>8. \A q \in Requests : req'[q] \in {"take", "flush"} => Batch[q] \subseteq Safe'
    BY <2>1, <2>3, <2>5 DEF BatchInv, TypeOK, Quiet, Safe
  <2>9. BatchInv'
    BY <2>1, <2>6, <2>7, <2>8 DEF BatchInv, Safe, Stored
  <2>10. QED BY <2>2, <2>3, <2>9 DEF Owes
<1>6. CASE SyncBatchFails(r)
  <2>1. /\ UNCHANGED <<buffers, taken, put, todo, acked, phase, old, scan, copies>>
        /\ req' = [req EXCEPT ![r] = "failed"] /\ HoldsLock(r) /\ \E S : SyncWal(S)
    BY <1>6 DEF SyncBatchFails, SyncFails
  <2>2. MirrorInv' /\ OwnerInv' /\ Durable \subseteq Durable'
    BY <2>1, SyncMirror
  <2>3. Quiet
    BY <2>1, <2>2, QuietByDurable
  <2>4. phase \in {"up", "stopping"}
    BY <2>1 DEF HoldsLock, ControlInv
  <2>5. \A q \in Requests : req'[q] # "push"
    BY <2>1 DEF HoldsLock, ControlInv, LockFree, TypeOK
  <2>6. \A q \in Requests : req'[q] \in {"take", "flush"} => Batch[q] \subseteq Safe'
    BY <2>1, <2>3 DEF BatchInv, TypeOK, Quiet, Safe
  <2>7. BatchInv'
    BY <2>1, <2>4, <2>5, <2>6 DEF BatchInv, Safe, Stored
  <2>8. QED BY <2>2, <2>3, <2>7 DEF Owes
<1>7. CASE Take(r)
  <2>1. /\ UNCHANGED <<put, wal, todo, acked, phase, old, scan, copies>>
        /\ req' = [req EXCEPT ![r] = "flush"] /\ req[r] = "take"
        /\ \E D \in SUBSET buffers : buffers' = buffers \ D /\ taken' = [taken EXCEPT ![r] = D]
    BY <1>7 DEF Take
  <2>2. taken[r] = {} /\ phase \in {"up", "stopping"}
    BY <2>1 DEF ControlInv
  <2>3. MirrorInv' /\ OwnerInv'
    BY <2>1, <2>2, TakeMirror
  <2>4. Quiet
    BY <2>1, QuietByDurable DEF Durable
  <2>5. \A q \in Requests : req'[q] # "push"
    BY <2>1 DEF ControlInv, TypeOK
  <2>6. \A q \in Requests : req'[q] \in {"take", "flush"} => req[q] \in {"take", "flush"}
    BY <2>1 DEF TypeOK
  <2>7. BatchInv'
    BY <2>1, <2>2, <2>5, <2>6 DEF BatchInv, Stored, Durable
  <2>8. QED BY <2>3, <2>4, <2>7 DEF Owes
<1>8. CASE Disconnect(r)
  <2>1. /\ UNCHANGED <<buffers, wal, todo, acked, phase, old, scan, copies>>
        /\ req' = [req EXCEPT ![r] = "gone"]
        /\ taken' = [taken EXCEPT ![r] = {}] /\ put' = [put EXCEPT ![r] = {}]
    BY <1>8 DEF Disconnect
  <2>2. \A a \in Actors : taken'[a] \subseteq taken[a] /\ put'[a] \subseteq put[a]
    BY <2>1 DEF TypeOK
  <2>3. MirrorInv' /\ OwnerInv'
    BY <2>1, <2>2, DropMirror
  <2>4. Quiet
    BY <2>1, QuietByDurable DEF Durable
  <2>5. \A q \in Requests : /\ req'[q] = "push" => req[q] = "push"
                            /\ req'[q] \in {"take", "flush"} => req[q] \in {"take", "flush"}
    BY <2>1 DEF TypeOK
  <2>6. BatchInv'
    BY <2>1, <2>2, <2>5 DEF BatchInv, Stored, Durable, InMemory, Lines
  <2>7. QED BY <2>3, <2>4, <2>6 DEF Owes
<1>9. QED
  BY <1>1, <1>2, <1>3, <1>4, <1>5, <1>6, <1>7, <1>8 DEF Handler

\* A task flushes only while handlers run or at the ends of the main task, so
\* never between the scan of the old segments and their removal.
LEMMA FlushPhase ==
  ASSUME TypeOK, ControlInv, NEW a \in Actors, taken[a] # {}
  PROVE  phase \notin {"replay", "replayed"}
BY DEF ControlInv, TypeOK

\* put_chunk has written the data object: the buffer's records are archived.
LEMMA PutDataArchives ==
  ASSUME Inv, NEW a \in Actors, NEW b \in taken[a], PutData(a, b)
  PROVE  /\ MirrorInv' /\ OwnerInv' /\ BatchInv' /\ acked' = acked
         /\ b.evs \in SUBSET Records
         /\ Stored' = Stored \cup b.evs /\ Safe' = Safe \cup b.evs
<1> USE DEF Inv
<1>1. /\ UNCHANGED <<phase, buffers, taken, wal, old, scan, req, todo, acked>>
      /\ put' = [put EXCEPT ![a] = {b}]
      /\ copies' = [e \in Records |-> IF e \in b.evs THEN copies[e] + 1 ELSE copies[e]]
  BY DEF PutData, FlushUnchanged
<1>2. b.evs \in SUBSET Records
  BY DEF TypeOK
<1>3. Stored' = Stored \cup b.evs
  <2>1. \A e \in Records : copies[e] \in Nat
    BY DEF TypeOK
  <2>2. \A e \in Records : copies'[e] > 0 <=> (copies[e] > 0 \/ e \in b.evs)
    BY <1>1, <2>1
  <2>3. QED BY <1>2, <2>2 DEF Stored
<1>4. Durable' = Durable
  BY <1>1 DEF Durable
<1>5. MirrorInv' /\ OwnerInv'
  BY <1>1, DropMirror
<1>6. \A d \in Actors : \A c \in put'[d] : c.evs \subseteq Stored'
  BY <1>1, <1>3 DEF TypeOK, BatchInv
<1>7. BatchInv'
  BY <1>1, <1>3, <1>4, <1>6, FlushPhase DEF BatchInv, InMemory
<1>8. QED
  BY <1>1, <1>2, <1>3, <1>4, <1>5, <1>7 DEF Safe

\* A stored buffer's segment is retired: its lines are the buffer's records,
\* all of them stored, and no other buffer owns it.
LEMMA RetireMirror ==
  ASSUME Inv, NEW a \in Actors, NEW b \in taken[a], b.evs \subseteq Stored,
         wal' = Delete(wal, b.seg), taken' = [taken EXCEPT ![a] = @ \ {b}],
         UNCHANGED <<buffers, old, copies>>
  PROVE  MirrorInv' /\ OwnerInv' /\ Safe \subseteq Safe'
<1> USE DEF Inv
<1>1. Mirrored(b) /\ b \in Buf
  BY DEF MirrorInv, TypeOK
<1>2. wal'[b.seg] = NoFile /\ \A s \in SegIds \ {b.seg} : wal'[s] = wal[s]
  BY <1>1 DEF Delete, Mirrored
<1>3. Lines(b.seg)' = {} /\ \A s \in SegIds \ {b.seg} : Lines(s)' = Lines(s)
  BY <1>2 DEF Lines
<1>4. taken'[a] = taken[a] \ {b} /\ \A d \in Actors \ {a} : taken'[d] = taken[d]
  BY DEF TypeOK
<1>5. \A d \in Actors : \A c \in taken'[d] : c \in taken[d] /\ c.seg # b.seg
  BY <1>4 DEF OwnerInv
<1>6. \A c \in buffers : c.seg # b.seg
  BY DEF OwnerInv
<1>7. MirrorInv'
  <2>1. \A s \in SegIds : ~wal'[s].torn /\ (~wal'[s].exists => Lines(s)' = {})
    BY <1>2, <1>3 DEF MirrorInv
  <2>2. \A s \in old' : wal'[s].exists
    BY <1>1, <1>2 DEF MirrorInv, Mirrored, TypeOK
  <2>3. \A c : Mirrored(c) /\ c.seg # b.seg => Mirrored(c)'
    BY <1>2, <1>3 DEF Mirrored
  <2>4. QED BY <1>5, <1>6, <2>1, <2>2, <2>3 DEF MirrorInv
<1>8. OwnerInv'
  BY <1>5 DEF OwnerInv
<1>9. Safe \subseteq Safe'
  <2>1. wal[b.seg].durable \subseteq Stored
    BY <1>1 DEF Mirrored, Lines
  <2>2. Durable \subseteq Stored \cup Durable'
    BY <1>2, <2>1 DEF Durable
  <2>3. QED BY <2>2 DEF Safe, Stored
<1>10. QED
  BY <1>7, <1>8, <1>9

\* A failed flush either gives the buffer back to the map or leaves its
\* segment without an owner, for the next replay.
LEMMA ReinsertMirror ==
  ASSUME Inv, NEW a \in Actors, NEW b \in taken[a], NEW d, Reinsert(b, d),
         taken' = [taken EXCEPT ![a] = @ \ {b}], UNCHANGED <<wal, old>>
  PROVE  MirrorInv' /\ OwnerInv'
<1> USE DEF Inv
<1>1. Mirrored(b)
  BY DEF MirrorInv
<1>2. b.seg # NoSeg
  BY <1>1 DEF Mirrored
<1>3. buffers' = buffers \/ buffers' = buffers \cup {b}
  BY <1>2 DEF Reinsert
<1>4. taken'[a] = taken[a] \ {b} /\ \A x \in Actors \ {a} : taken'[x] = taken[x]
  BY DEF TypeOK
<1>5. \A x \in Actors : \A c \in taken'[x] : c \in taken[x] /\ c.seg # b.seg
  BY <1>4 DEF OwnerInv
<1>6. \A c : Mirrored(c) => Mirrored(c)'
  BY DEF Mirrored, Lines
<1>7. MirrorInv'
  BY <1>1, <1>3, <1>5, <1>6 DEF MirrorInv, Lines
<1>8. OwnerInv'
  <2>1. \A c \in buffers : c.seg # b.seg
    BY DEF OwnerInv
  <2>2. \A c, e \in buffers' : c.seg = e.seg => c = e
    BY <1>3, <2>1 DEF OwnerInv
  <2>3. \A x \in Actors : \A c \in taken'[x] : \A e \in buffers' : c.seg # e.seg
    BY <1>3, <1>5 DEF OwnerInv
  <2>4. QED BY <1>5, <2>2, <2>3 DEF OwnerInv
<1>9. QED
  BY <1>7, <1>8

\* A step of flush_one keeps what is owed to clients durable.
LEMMA FlushOwes ==
  ASSUME Inv, WalAssumption, NEW a \in Actors, NEW b \in taken[a],
         FlushOk(a, b) \/ FlushFails(a, b)
  PROVE  Owes
<1> USE DEF Inv
<1>1. /\ UNCHANGED <<phase, old, scan, req, todo, acked, copies>>
      /\ taken' = [taken EXCEPT ![a] = @ \ {b}] /\ put' = [put EXCEPT ![a] = {}]
  BY DEF FlushOk, FlushFails, FlushUnchanged
<1>2. phase \notin {"replay", "replayed"}
  BY FlushPhase
<1>3. \A d \in Actors : put'[d] \subseteq put[d]
  BY <1>1 DEF TypeOK
<1>4. CASE FlushOk(a, b)
  <2>1. UNCHANGED buffers
    BY <1>4 DEF FlushOk
  <2>2. b.evs \subseteq Stored
    BY <1>4 DEF FlushOk, BatchInv
  <2>3. MirrorInv' /\ OwnerInv' /\ Safe \subseteq Safe'
    <3>1. CASE wal' = Delete(wal, b.seg)
      BY <1>1, <2>1, <2>2, <3>1, RetireMirror
    <3>2. CASE UNCHANGED wal
      <4>1. \A d \in Actors : taken'[d] \subseteq taken[d]
        BY <1>1 DEF TypeOK
      <4>2. MirrorInv' /\ OwnerInv'
        BY <1>1, <2>1, <3>2, <4>1, DropMirror
      <4>3. QED BY <1>1, <3>2, <4>2 DEF Safe, Stored, Durable
    <3>3. QED BY <1>4, <3>1, <3>2 DEF FlushOk
  <2>4. Quiet
    BY <1>1, <2>3 DEF Quiet
  <2>5. BatchInv'
    BY <1>1, <1>2, <1>3, <2>1, <2>3 DEF BatchInv, Safe, Stored, InMemory
  <2>6. QED BY <2>3, <2>4, <2>5 DEF Owes
<1>5. CASE FlushFails(a, b)
  <2>1. UNCHANGED wal /\ LockFree /\ \E d : Reinsert(b, d)
    BY <1>5 DEF FlushFails
  <2>2. MirrorInv' /\ OwnerInv'
    BY <1>1, <2>1, ReinsertMirror
  <2>3. Quiet
    BY <1>1, <2>1, QuietByDurable DEF Durable
  <2>4. BatchInv'
    BY <1>1, <1>2, <1>3, <2>1 DEF BatchInv, LockFree, Stored, Durable
  <2>5. QED BY <2>2, <2>3, <2>4 DEF Owes
<1>6. QED
  BY <1>4, <1>5

\* A step of the sweep loop keeps what is owed to clients durable.
LEMMA SweeperOwes ==
  ASSUME Inv, WalAssumption, SweeperTask
  PROVE  Owes
<1> USE DEF Inv
<1>1. CASE Sweep
  <2>1. /\ UNCHANGED <<phase, put, wal, old, scan, req, todo, copies, acked>>
        /\ phase \in {"up", "stopping"} /\ LockFree /\ taken[Sweeper] = {}
        /\ \E D \in SUBSET buffers :
             buffers' = buffers \ D /\ taken' = [taken EXCEPT ![Sweeper] = D]
    BY <1>1 DEF Sweep, SweeperIdle, Flushed, Expired
  <2>2. MirrorInv' /\ OwnerInv'
    BY <2>1, TakeMirror
  <2>3. Quiet
    BY <2>1, QuietByDurable DEF Durable
  <2>4. BatchInv'
    BY <2>1 DEF BatchInv, LockFree, Stored, Durable
  <2>5. QED BY <2>2, <2>3, <2>4 DEF Owes
<1>2. ASSUME NEW b \in buffers, Age(b) PROVE Owes
  <2> DEFINE nb == [b EXCEPT !.aged = TRUE]
  <2>1. /\ UNCHANGED <<phase, taken, put, wal, old, scan, req, todo, copies, acked>>
        /\ phase \in {"up", "stopping"} /\ LockFree
        /\ buffers' = (buffers \ {b}) \cup {nb}
    BY <1>2 DEF Age
  <2>2. nb.seg = b.seg /\ nb.evs = b.evs
    BY DEF TypeOK
  <2> HIDE DEF nb
  <2>3. MirrorInv'
    <3>1. \A c : Mirrored(c) => Mirrored(c)'
      BY <2>1 DEF Mirrored, Lines
    <3>2. Mirrored(nb)'
      BY <2>1, <2>2 DEF MirrorInv, Mirrored, Lines
    <3>3. QED BY <2>1, <3>1, <3>2 DEF MirrorInv, Lines
  <2>4. OwnerInv'
    <3>1. \A c, d \in buffers' : c.seg = d.seg => c = d
      BY <2>1, <2>2 DEF OwnerInv
    <3>2. \A a \in Actors : \A c \in taken'[a] : \A d \in buffers' : c.seg # d.seg
      BY <2>1, <2>2 DEF OwnerInv
    <3>3. QED BY <2>1, <3>1, <3>2 DEF OwnerInv
  <2>5. Quiet
    BY <2>1, QuietByDurable DEF Durable
  <2>6. BatchInv'
    BY <2>1 DEF BatchInv, LockFree, Stored, Durable
  <2>7. QED BY <2>3, <2>4, <2>5, <2>6 DEF Owes
<1>3. QED
  BY <1>1, <1>2 DEF SweeperTask

\* Outside "up" and "stopping" no handler is in flight, so what BatchInv says
\* of handlers is vacuous.
LEMMA NoHandler ==
  ASSUME TypeOK, ControlInv, phase \notin {"up", "stopping"}
  PROVE  /\ \A r \in Requests : req[r] \notin {"push", "take", "flush"} /\ taken[r] = {}
         /\ taken[Sweeper] = {}
BY DEF TypeOK, ControlInv

\* Start: the old segments are those on disk; nothing is in memory.
LEMMA StartOwes ==
  ASSUME Inv, DownInv, Start
  PROVE  Owes
<1> USE DEF Inv
<1>1. /\ UNCHANGED <<buffers, taken, put, wal, req, todo, copies, acked>>
      /\ phase = "down" /\ phase' \in {"up", "replay"}
      /\ old' = {s \in SegIds : wal[s].exists}
      /\ scan' = UNION {Lines(s) : s \in {s \in SegIds : wal[s].exists}}
  BY DEF Start, MainUnchanged
<1>2. buffers = {} /\ \A a \in Actors : taken[a] = {}
  BY <1>1, NoHandler DEF DownInv, ControlInv
<1>3. MirrorInv'
  BY <1>1, <1>2 DEF MirrorInv, Lines
<1>4. OwnerInv'
  BY <1>1, <1>2 DEF OwnerInv
<1>5. Quiet
  BY <1>1, QuietByDurable DEF Durable
<1>6. \A s \in old' : Lines(s)' \subseteq scan'
  BY <1>1 DEF Lines
<1>7. BatchInv'
  BY <1>1, <1>6, NoHandler DEF BatchInv, Stored
<1>8. QED BY <1>3, <1>4, <1>5, <1>7 DEF Owes

\* The replay pushes an entry: the old segments are left alone.
LEMMA ReplayEventOwes ==
  ASSUME Inv, WalAssumption, NEW e \in scan, ReplayEvent(e)
  PROVE  Owes
<1> USE DEF Inv
<1>1. /\ UNCHANGED <<phase, taken, put, verdict, old, req, todo, copies, acked>>
      /\ phase = "replay" /\ scan' = scan \ {e} /\ PushOne(e) /\ e \in Records
  BY DEF ReplayEvent, MainUnchanged, TypeOK
<1>2. /\ MirrorInv' /\ OwnerInv' /\ Durable \subseteq Durable'
      /\ InMemory \cup {e} \subseteq InMemory' /\ \A s \in old : wal'[s] = wal[s]
  BY <1>1, PushOneMirror
<1>3. Quiet
  BY <1>1, <1>2, QuietByDurable
<1>4. \A s \in old : Lines(s)' \subseteq scan' \cup InMemory'
  <2>1. \A s \in old : Lines(s)' = Lines(s)
    BY <1>2 DEF Lines
  <2>2. \A s \in old : Lines(s) \subseteq scan \cup InMemory
    BY <1>1 DEF BatchInv
  <2>3. QED BY <1>1, <1>2, <2>1, <2>2
<1>5. BatchInv'
  BY <1>1, <1>4, NoHandler DEF BatchInv, Stored
<1>6. QED BY <1>2, <1>3, <1>5 DEF Owes

\* The replay's fsync: every old entry is now durable in a new segment.
LEMMA ReplaySyncOwes ==
  ASSUME Inv, ReplaySync
  PROVE  Owes
<1> USE DEF Inv
<1>1. /\ UNCHANGED <<buffers, taken, put, old, scan, req, todo, copies, acked>>
      /\ phase = "replay" /\ phase' = "replayed" /\ scan = {} /\ SyncWal(LiveSegs)
  BY DEF ReplaySync, MainUnchanged
<1>2. /\ MirrorInv' /\ OwnerInv' /\ Durable \subseteq Durable'
      /\ \A s \in SegIds : Lines(s)' = Lines(s)
      /\ \A s \in LiveSegs \cap SegIds : Lines(s) = wal'[s].durable
  BY <1>1, SyncMirror
<1>3. Quiet
  BY <1>1, <1>2, QuietByDurable
<1>4. InMemory \subseteq UNION {wal'[x].durable : x \in SegIds \ old}
  <2>1. \A b \in buffers : b.seg \in (LiveSegs \cap SegIds) \ old /\ b.evs = Lines(b.seg)
    BY DEF LiveSegs, MirrorInv, Mirrored
  <2>2. \A b \in buffers : b.evs \subseteq UNION {wal'[x].durable : x \in SegIds \ old}
    BY <1>2, <2>1
  <2>3. QED BY <2>2 DEF InMemory
<1>5. \A s \in old : Lines(s)' \subseteq UNION {wal'[x].durable : x \in SegIds \ old}
  <2>1. \A s \in old : Lines(s) \subseteq InMemory
    BY <1>1 DEF BatchInv
  <2>2. \A s \in old : Lines(s)' = Lines(s)
    BY <1>2 DEF TypeOK
  <2>3. QED BY <1>4, <2>1, <2>2
<1>6. BatchInv'
  BY <1>1, <1>5, NoHandler DEF BatchInv, Stored
<1>7. QED BY <1>2, <1>3, <1>6 DEF Owes

\* The old segments are removed, all or some: each of their entries stays
\* durable in a new segment.
LEMMA ReplayRetireOwes ==
  ASSUME Inv, ReplayRetire
  PROVE  Owes
<1> USE DEF Inv
<1>1. /\ UNCHANGED <<put, scan, req, todo, copies, acked>>
      /\ phase = "replayed" /\ phase' = "replayFlush" /\ old' = {}
      /\ taken' = [taken EXCEPT ![Main] = FlushDue] /\ buffers' = buffers \ FlushDue
  BY DEF ReplayRetire, MainUnchanged
<1>2. PICK G \in SUBSET old :
        wal' = [s \in SegIds |-> IF s \in G THEN NoFile ELSE wal[s]]
  BY DEF ReplayRetire
<1>3. /\ \A s \in SegIds \ G : wal'[s] = wal[s]
      /\ \A s \in SegIds \cap G : wal'[s] = NoFile
  BY <1>2
<1>4. /\ \A s \in SegIds \ G : Lines(s)' = Lines(s)
      /\ \A s \in SegIds \cap G : Lines(s)' = {}
  BY <1>3 DEF Lines
<1>5. FlushDue \subseteq buffers /\ taken[Main] = {}
  BY <1>1 DEF FlushDue, ControlInv
<1>6. OwnerInv'
  BY <1>1, <1>5, TakeOwner
<1>7. MirrorInv'
  <2>1. \A s \in SegIds : ~wal'[s].torn /\ (~wal'[s].exists => Lines(s)' = {})
    BY <1>3, <1>4 DEF MirrorInv
  <2>2. \A c : Mirrored(c) => Mirrored(c)'
    BY <1>1, <1>3, <1>4 DEF Mirrored
  <2>3. \A a \in Actors : taken'[a] \subseteq taken[a] \cup buffers
    BY <1>1, <1>5 DEF TypeOK
  <2>4. QED BY <1>1, <2>1, <2>2, <2>3 DEF MirrorInv
<1>8. Durable \subseteq Durable'
  <2>1. \A s \in SegIds \cap G : wal[s].durable \subseteq UNION {wal[x].durable : x \in SegIds \ old}
    BY <1>1 DEF BatchInv, Lines
  <2>2. \A x \in SegIds \ old : wal[x].durable \subseteq Durable'
    BY <1>3 DEF Durable
  <2>3. \A x \in SegIds \ G : wal[x].durable \subseteq Durable'
    BY <1>3 DEF Durable
  <2>4. \A x \in SegIds : wal[x].durable \subseteq Durable'
    BY <2>1, <2>2, <2>3
  <2>5. QED BY <2>4 DEF Durable
<1>9. Quiet
  BY <1>1, <1>8, QuietByDurable
<1>10. BatchInv'
  BY <1>1, NoHandler DEF BatchInv, Stored
<1>11. QED BY <1>6, <1>7, <1>9, <1>10 DEF Owes

\* The other steps of the main task, and the crash.
LEMMA MainOwes ==
  ASSUME Inv, DownInv, WalAssumption, MainTask
  PROVE  Owes
<1> USE DEF Inv, MainUnchanged
<1>1. CASE Start
  BY <1>1, StartOwes
<1>2. ASSUME NEW e \in scan, ReplayEvent(e) PROVE Owes
  BY <1>2, ReplayEventOwes
<1>3. CASE ReplaySync
  BY <1>3, ReplaySyncOwes
<1>4. CASE ReplayRetire
  BY <1>4, ReplayRetireOwes
<1>5. CASE ReplayFails
  <2>1. /\ UNCHANGED <<taken, put, old, scan, req, todo, copies, acked>>
        /\ phase = "replay" /\ phase' = "final"
    BY <1>5 DEF ReplayFails
  <2>2. \/ \E e \in scan : CreateFails(KeyOf[e]) \/ AppendFails(KeyOf[e]) \/ PushOne(e)
        \/ SyncFails /\ UNCHANGED buffers
    BY <1>5 DEF ReplayFails
  <2>3. MirrorInv' /\ OwnerInv' /\ Durable \subseteq Durable'
    <3>1. ASSUME NEW e \in scan, CreateFails(KeyOf[e])
          PROVE  MirrorInv' /\ OwnerInv' /\ Durable \subseteq Durable'
      BY <2>1, <3>1, DropMirror DEF CreateFails, Durable
    <3>2. ASSUME NEW e \in scan, AppendFails(KeyOf[e])
          PROVE  MirrorInv' /\ OwnerInv' /\ Durable \subseteq Durable'
      <4>1. KeyOf[e] \in Keys
        BY DEF TypeOK
      <4>2. QED BY <2>1, <3>2, <4>1, AppendFailsMirror
    <3>3. ASSUME NEW e \in scan, PushOne(e)
          PROVE  MirrorInv' /\ OwnerInv' /\ Durable \subseteq Durable'
      <4>1. e \in Records
        BY DEF TypeOK
      <4>2. QED BY <2>1, <3>3, <4>1, PushOneMirror
    <3>4. ASSUME SyncFails, UNCHANGED buffers
          PROVE  MirrorInv' /\ OwnerInv' /\ Durable \subseteq Durable'
      BY <2>1, <3>4, SyncMirror DEF SyncFails
    <3>5. QED BY <2>2, <3>1, <3>2, <3>3, <3>4
  <2>4. Quiet
    BY <2>1, <2>3, QuietByDurable
  <2>5. BatchInv'
    BY <2>1, NoHandler DEF BatchInv, Stored
  <2>6. QED BY <2>3, <2>4, <2>5 DEF Owes
<1>6. CASE Serve \/ Shutdown
  <2>1. /\ UNCHANGED <<buffers, taken, put, wal, old, scan, req, todo, copies, acked>>
        /\ phase' \in {"up", "stopping"}
    BY <1>6 DEF Serve, Shutdown
  <2>2. MirrorInv' /\ OwnerInv'
    BY <2>1, DropMirror
  <2>3. Quiet
    BY <2>1, QuietByDurable DEF Durable
  <2>4. BatchInv'
    BY <2>1 DEF BatchInv, Stored, Durable, InMemory
  <2>5. QED BY <2>2, <2>3, <2>4 DEF Owes
<1>7. CASE FlushAll
  <2>1. /\ UNCHANGED <<put, wal, old, scan, req, todo, copies, acked>>
        /\ phase = "stopping" /\ phase' = "final"
        /\ taken' = [taken EXCEPT ![Main] = buffers] /\ buffers' = buffers \ buffers
        /\ \A r \in Requests : req[r] \in {"new", "acked", "failed", "gone"}
    BY <1>7 DEF FlushAll
  <2>2. taken[Main] = {}
    BY <2>1 DEF ControlInv
  <2>3. MirrorInv' /\ OwnerInv'
    BY <2>1, <2>2, TakeMirror
  <2>4. Quiet
    BY <2>1, QuietByDurable DEF Durable
  <2>5. BatchInv'
    BY <2>1 DEF BatchInv, Stored
  <2>6. QED BY <2>3, <2>4, <2>5 DEF Owes
<1>8. CASE Exit
  <2>1. /\ UNCHANGED <<taken, put, wal, req, todo, copies, acked>>
        /\ phase \in {"final", "replayFlush"} /\ phase' = "down"
        /\ buffers' = {} /\ old' = {} /\ scan' = {}
    BY <1>8 DEF Exit
  <2>2. MirrorInv' /\ OwnerInv'
    BY <2>1, DropMirror
  <2>3. Quiet
    BY <2>1, QuietByDurable DEF Durable
  <2>4. BatchInv'
    BY <2>1, NoHandler DEF BatchInv, Stored
  <2>5. QED BY <2>2, <2>3, <2>4 DEF Owes
<1>9. CASE Crash
  <2>1. /\ UNCHANGED <<todo, copies, acked>>
        /\ phase' = "down" /\ buffers' = {} /\ old' = {}
        /\ taken' = [a \in Actors |-> {}] /\ put' = [a \in Actors |-> {}]
        /\ req' = [r \in Requests |->
                    IF req[r] \in {"new", "acked", "failed"} THEN req[r] ELSE "gone"]
    BY <1>9 DEF Crash
  <2>2. PICK kept \in SUBSET Records :
          wal' = [s \in SegIds |->
                   [wal[s] EXCEPT !.durable = @ \cup (wal[s].pending \cap kept),
                                  !.pending = {}, !.torn = FALSE]]
    BY <1>9 DEF Crash
  <2>3. \A s \in SegIds : wal[s] \in Segment
    BY DEF TypeOK
  <2>4. \A s \in SegIds : /\ wal'[s].exists = wal[s].exists /\ ~wal'[s].torn
                          /\ wal[s].durable \subseteq wal'[s].durable
                          /\ Lines(s)' \subseteq Lines(s)
    BY <2>2, <2>3 DEF Lines
  <2>5. MirrorInv' /\ OwnerInv'
    BY <2>1, <2>4 DEF MirrorInv, OwnerInv
  <2>6. Quiet
    BY <2>1, <2>4, QuietByDurable DEF Durable
  <2>7. BatchInv'
    BY <2>1 DEF BatchInv
  <2>8. QED BY <2>5, <2>6, <2>7 DEF Owes
<1>10. QED
  BY <1>1, <1>2, <1>3, <1>4, <1>5, <1>6, <1>7, <1>8, <1>9 DEF MainTask

\* The response: the batch has been durable since its fsync.
LEMMA RespondAcks ==
  ASSUME Inv, NEW r \in Requests, Respond(r)
  PROVE  /\ MirrorInv' /\ OwnerInv' /\ BatchInv'
         /\ Batch[r] \subseteq Safe /\ acked' = acked \cup Batch[r]
         /\ UNCHANGED <<copies, wal>>
<1> USE DEF Inv
<1>1. /\ UNCHANGED <<buffers, taken, put, wal, todo, phase, old, scan, copies>>
      /\ req' = [req EXCEPT ![r] = "acked"] /\ acked' = acked \cup Batch[r] /\ req[r] = "flush"
  BY DEF Respond, HandlerUnchanged
<1>2. MirrorInv' /\ OwnerInv'
  BY <1>1, DropMirror
<1>3. Batch[r] \subseteq Safe
  BY <1>1 DEF BatchInv, Safe
<1>4. \A q \in Requests : /\ req'[q] = "push" => req[q] = "push"
                          /\ req'[q] \in {"take", "flush"} => req[q] \in {"take", "flush"}
  BY <1>1 DEF TypeOK
<1>5. BatchInv'
  BY <1>1, <1>4 DEF BatchInv, Stored, Durable, InMemory, Lines
<1>6. QED
  BY <1>1, <1>2, <1>3, <1>5

\* The map is empty while the process is down: only Exit and Crash end it, and
\* nothing is pushed before Start.
LEMMA DownStep ==
  ASSUME TypeOK, ControlInv, DownInv, Moves
  PROVE  DownInv'
<1>1. SUFFICES ASSUME phase' = "down" PROVE buffers' = {} /\ old' = {}
  BY DEF DownInv
<1>2. ASSUME NEW r \in Requests, Handler(r) PROVE FALSE
  <2>1. UNCHANGED phase
    BY <1>2 DEF Handler, Reserve, Recheck, PushEvent, PushEventFails, SyncBatch,
                SyncBatchFails, Take, Respond, Disconnect, HandlerUnchanged
  <2>2. phase = "down"
    BY <1>1, <2>1
  <2>3. req[r] \notin {"reserve", "admitted", "push", "take", "flush"}
    BY <2>2 DEF ControlInv
  <2>4. QED
    BY <1>2, <2>2, <2>3 DEF Handler, Reserve, Recheck, PushEvent, PushEventFails,
         SyncBatch, SyncBatchFails, Take, Respond, Disconnect, HoldsLock
<1>3. ASSUME NEW a \in Actors, Flush(a) PROVE FALSE
  <2>1. UNCHANGED phase /\ taken[a] # {}
    BY <1>3 DEF Flush, PutData, FlushOk, FlushFails, FlushUnchanged
  <2>2. QED BY <1>1, <2>1 DEF ControlInv, TypeOK
<1>4. CASE SweeperTask
  BY <1>1, <1>4 DEF SweeperTask, Sweep, Age
<1>5. CASE MainTask
  BY <1>1, <1>5 DEF MainTask, Start, ReplayEvent, ReplaySync, ReplayRetire, ReplayFails,
                    Serve, Shutdown, FlushAll, Exit, Crash
<1>6. QED
  BY <1>2, <1>3, <1>4, <1>5 DEF Moves

\* The inductive invariant.
IInv == Inv /\ DownInv /\ acked \subseteq Safe

\* The first state satisfies the inductive invariant and starts the log.
LEMMA InitIInv == Init => IInv /\ Log!LInit
<1> SUFFICES ASSUME Init PROVE IInv /\ Log!LInit
  OBVIOUS
<1>1. TypeOK /\ ControlInv
  BY InitTypeControl
<1>2. Stored = {} /\ Durable = {} /\ \A s \in SegIds : Lines(s) = {}
  BY DEF Init, Stored, Durable, Lines
<1>3. MirrorInv
  BY <1>2 DEF Init, MirrorInv
<1>4. OwnerInv /\ DownInv
  BY DEF Init, OwnerInv, DownInv
<1>5. BatchInv
  BY DEF Init, BatchInv
<1>6. IInv
  BY <1>1, <1>3, <1>4, <1>5 DEF IInv, Inv, Init
<1>7. Log!LInit
  BY <1>2 DEF Init, Log!LInit
<1>8. QED
  BY <1>6, <1>7

\* Every step keeps the invariant and is a step of the abstract log, or none.
LEMMA StepIInv ==
  ASSUME WalAssumption, IInv, [Next]_vars
  PROVE  IInv' /\ [Log!LNext]_(Log!lvars)
<1> USE DEF IInv
<1>1. TypeOK' /\ ControlInv'
  BY StepTypeControl DEF Inv
<1>2. CASE UNCHANGED holdings
  <2>1. UNCHANGED <<Stored, Durable, acked>>
    BY <1>2 DEF holdings, Stored, Durable
  <2>2. MirrorInv' /\ OwnerInv'
    BY <1>2, DropMirror DEF holdings
  <2>3. DownInv' /\ BatchInv'
    BY <1>2, <2>1 DEF holdings, Inv, DownInv, BatchInv, InMemory, Lines
  <2>4. IInv'
    BY <1>1, <2>1, <2>2, <2>3 DEF Inv, Safe
  <2>5. QED BY <2>1, <2>4 DEF Log!lvars
<1>3. CASE Moves
  <2>1. DownInv'
    BY <1>3, DownStep DEF Inv
  <2>2. Stored' \subseteq Records /\ Durable' \subseteq Records
    BY <1>1 DEF Stored, Durable, TypeOK
  <2>3. ASSUME Owes PROVE IInv' /\ [Log!LNext]_(Log!lvars)
    <3>1. IInv'
      BY <1>1, <2>1, <2>3 DEF Inv, Owes, Quiet
    <3>2. Stored' = Stored /\ acked' = acked /\ Safe \subseteq Safe'
      BY <2>3 DEF Owes, Quiet, Stored
    <3>3. Log!Secure(Safe')
      BY <3>2 DEF Log!Secure, Safe
    <3>4. Log!LNext
      BY <2>2, <3>3 DEF Log!LNext, Safe
    <3>5. QED BY <3>1, <3>4
  <2>4. ASSUME NEW r \in Requests, Respond(r) PROVE IInv' /\ [Log!LNext]_(Log!lvars)
    <3>1. /\ MirrorInv' /\ OwnerInv' /\ BatchInv'
          /\ Batch[r] \subseteq Safe /\ acked' = acked \cup Batch[r]
          /\ UNCHANGED <<Stored, Durable>>
      BY <2>4, RespondAcks DEF Stored, Durable
    <3>2. IInv'
      BY <1>1, <2>1, <3>1 DEF Inv, Safe
    <3>3. Log!Acknowledge(Batch[r])
      BY <3>1 DEF Log!Acknowledge, Safe
    <3>4. Log!LNext
      BY <3>3 DEF Log!LNext
    <3>5. QED BY <3>2, <3>4
  <2>5. ASSUME NEW a \in Actors, NEW b \in taken[a], PutData(a, b)
        PROVE  IInv' /\ [Log!LNext]_(Log!lvars)
    <3>1. /\ MirrorInv' /\ OwnerInv' /\ BatchInv' /\ acked' = acked
          /\ b.evs \in SUBSET Records
          /\ Stored' = Stored \cup b.evs /\ Safe' = Safe \cup b.evs
      BY <2>5, PutDataArchives
    <3>2. IInv'
      BY <1>1, <2>1, <3>1 DEF Inv
    <3>3. Log!Archive(b.evs)
      BY <3>1 DEF Log!Archive, Safe
    <3>4. Log!LNext
      BY <3>1, <3>3 DEF Log!LNext
    <3>5. QED BY <3>2, <3>4
  <2>6. ASSUME NEW r \in Requests, Handler(r) PROVE IInv' /\ [Log!LNext]_(Log!lvars)
    BY <2>3, <2>4, <2>6, HandlerOwes
  <2>7. ASSUME NEW a \in Actors, Flush(a) PROVE IInv' /\ [Log!LNext]_(Log!lvars)
    <3>1. PICK b \in taken[a] : PutData(a, b) \/ FlushOk(a, b) \/ FlushFails(a, b)
      BY <2>7 DEF Flush
    <3>2. CASE PutData(a, b)
      BY <2>5, <3>2
    <3>3. CASE FlushOk(a, b) \/ FlushFails(a, b)
      BY <2>3, <3>3, FlushOwes
    <3>4. QED BY <3>1, <3>2, <3>3
  <2>8. CASE SweeperTask
    BY <2>3, <2>8, SweeperOwes
  <2>9. CASE MainTask
    BY <2>3, <2>9, MainOwes
  <2>10. QED
    BY <1>3, <2>6, <2>7, <2>8, <2>9 DEF Moves
<1>4. QED
  BY <1>2, <1>3, StepCases

\* With a WAL whose failed writes leave no fragment, no schedule of handlers,
\* sweeper, failed PUTs, hang-ups, fsync errors, crashes and restarts makes
\* the gateway lose a record it answered 200 for (wal.rs:12-18).
THEOREM AckedRecoverableAlways ==
  ASSUME WalAssumption
  PROVE  Spec => []AckedRecoverable
<1>1. Init => IInv
  BY InitIInv
<1>2. IInv /\ [Next]_vars => IInv'
  BY StepIInv
<1>3. IInv => AckedRecoverable
  BY DEF IInv, Safe, AckedRecoverable
<1>4. QED
  BY <1>1, <1>2, <1>3, PTL DEF Spec

\* Under the same assumption a record is never in a buffer, live or being
\* flushed, without a line of that buffer's own segment (buffer.rs:245-247).
THEOREM NeverOnlyInMemoryAlways ==
  ASSUME WalAssumption
  PROVE  Spec => []NeverOnlyInMemory
<1>1. Init => IInv
  BY InitIInv
<1>2. IInv /\ [Next]_vars => IInv'
  BY StepIInv
<1>3. IInv => NeverOnlyInMemory
  BY DEF IInv, Inv, MirrorInv, Mirrored, NeverOnlyInMemory
<1>4. QED
  BY <1>1, <1>2, <1>3, PTL DEF Spec

\* Under the same assumption the gateway implements the at-least-once log:
\* flushes, segment deletions, replays and crashes forget no durable record.
THEOREM GatewayImplementsLog ==
  ASSUME WalAssumption
  PROVE  Spec => ImplementsLog
<1>1. Init => IInv /\ Log!LInit
  BY InitIInv
<1>2. IInv /\ [Next]_vars => IInv' /\ [Log!LNext]_(Log!lvars)
  BY StepIInv
<1>3. QED
  BY <1>1, <1>2, PTL DEF Spec, ImplementsLog, Log!LSpec

-----------------------------------------------------------------------------
(* Part 3: the cap *)

\* Every file belongs to a buffer in the map or in a flush.
Owned ==
  \A s \in SegIds : wal[s].exists =>
    \E b \in buffers \cup UNION {taken[a] : a \in Actors} : b.seg = s

\* What holds until the first failure.  The cap itself is not inductive: a
\* replay pushes without it, and there is none because each file has an owner.
Capped ==
  /\ IsFiniteSet(InMemory)
  /\ LockFree => Cardinality(InMemory) <= MaxBuffered
  /\ phase \notin {"replay", "replayed", "replayFlush"}
  /\ phase = "final" => buffers = {}
  /\ Owned

CapInv == faults = 0 => Capped

\* What push_one does to the map, the files and the records in memory.
LEMMA PushOneEffect ==
  ASSUME TypeOK, NEW e \in Records, PushOne(e)
  PROVE  \E b, nb \in Buf :
           /\ b \in buffers \/ (b.evs = {} /\ b.seg \in FreshSegs)
           /\ nb.seg = b.seg /\ nb.evs = b.evs \cup {e}
           /\ buffers' = (buffers \ {b}) \cup {nb}
           /\ \A s \in SegIds : s # b.seg => wal'[s] = wal[s]
           /\ b.seg \in SegIds => wal'[b.seg].exists
           /\ b.seg \in SegIds => Lines(b.seg)' \subseteq Lines(b.seg) \cup {e}
<1>1. PICK b \in Opened(KeyOf[e]) :
        /\ wal' = [s \in SegIds |-> IF s = b.seg THEN AppendLine(wal[s], e) ELSE wal[s]]
        /\ buffers' = (buffers \ {b}) \cup {[b EXCEPT !.evs = b.evs \cup {e}]}
  BY DEF PushOne
<1> DEFINE nb == [b EXCEPT !.evs = b.evs \cup {e}]
<1>2. b \in Buf /\ (b \in buffers \/ (b.evs = {} /\ b.seg \in FreshSegs))
  BY OpenedType
<1>3. nb \in Buf /\ nb.seg = b.seg /\ nb.evs = b.evs \cup {e}
      /\ buffers' = (buffers \ {b}) \cup {nb}
  BY <1>1, <1>2
<1> HIDE DEF nb
<1>4. \A s \in SegIds : s # b.seg => wal'[s] = wal[s]
  BY <1>1
<1>5. b.seg \in SegIds =>
        /\ wal'[b.seg].exists
        /\ wal'[b.seg].durable = wal[b.seg].durable
        /\ wal'[b.seg].pending \subseteq wal[b.seg].pending \cup {e}
  BY <1>1 DEF AppendLine
<1>6. b.seg \in SegIds => Lines(b.seg)' \subseteq Lines(b.seg) \cup {e}
  BY <1>5 DEF Lines
<1>7. QED
  BY <1>2, <1>3, <1>4, <1>5, <1>6

\* push_one adds its record to what is in memory, and nothing else.
LEMMA PushOneMemory ==
  ASSUME TypeOK, NEW e \in Records, PushOne(e)
  PROVE  InMemory' = InMemory \cup {e}
<1>1. PICK b, nb \in Buf :
        /\ b \in buffers \/ b.evs = {}
        /\ nb.evs = b.evs \cup {e}
        /\ buffers' = (buffers \ {b}) \cup {nb}
  BY PushOneEffect
<1>2. \A x \in InMemory : x \in InMemory'
  <2>1. SUFFICES ASSUME NEW x, NEW c \in buffers, x \in c.evs PROVE x \in InMemory'
    BY DEF InMemory
  <2>2. CASE c = b
    BY <1>1, <2>1, <2>2 DEF InMemory
  <2>3. CASE c # b
    BY <1>1, <2>1, <2>3 DEF InMemory
  <2>4. QED BY <2>2, <2>3
<1>3. e \in InMemory'
  BY <1>1 DEF InMemory
<1>4. \A x \in InMemory' : x \in InMemory \cup {e}
  BY <1>1 DEF InMemory
<1>5. QED
  BY <1>2, <1>3, <1>4

\* A smaller map holds a smaller total.
LEMMA FewerBuffers ==
  ASSUME IsFiniteSet(InMemory), buffers' \subseteq buffers
  PROVE  /\ IsFiniteSet(InMemory')
         /\ Cardinality(InMemory') <= Cardinality(InMemory)
<1>1. InMemory' \in SUBSET InMemory
  BY DEF InMemory
<1>2. QED
  BY <1>1, FS_Subset

\* Taking buffers out of the map leaves each file its owner.
LEMMA TakeOwned ==
  ASSUME TypeOK, Owned, NEW a \in Actors, NEW D \in SUBSET buffers, taken[a] = {},
         buffers' = buffers \ D, taken' = [taken EXCEPT ![a] = D], UNCHANGED wal
  PROVE  Owned'
<1>1. taken'[a] = D /\ \A d \in Actors : d # a => taken'[d] = taken[d]
  BY DEF TypeOK
<1>2. SUFFICES ASSUME NEW s \in SegIds, wal[s].exists
               PROVE  \E b \in buffers' \cup UNION {taken'[d] : d \in Actors} : b.seg = s
  BY DEF Owned
<1>3. PICK b \in buffers \cup UNION {taken[d] : d \in Actors} : b.seg = s
  BY <1>2 DEF Owned
<1>4. CASE b \in buffers
  BY <1>1, <1>3, <1>4
<1>5. CASE \E d \in Actors : b \in taken[d]
  BY <1>1, <1>3, <1>5
<1>6. QED BY <1>3, <1>4, <1>5

\* push_one leaves each file its owner and gives a new one its buffer.
LEMMA PushOneOwned ==
  ASSUME TypeOK, Owned, NEW e \in Records, PushOne(e), UNCHANGED taken
  PROVE  Owned'
<1>1. PICK b, nb \in Buf :
        /\ nb.seg = b.seg
        /\ buffers' = (buffers \ {b}) \cup {nb}
        /\ \A s \in SegIds : s # b.seg => wal'[s] = wal[s]
  BY PushOneEffect
<1>2. SUFFICES ASSUME NEW s \in SegIds, wal'[s].exists
               PROVE  \E c \in buffers' \cup UNION {taken'[d] : d \in Actors} : c.seg = s
  BY DEF Owned
<1>3. CASE s = b.seg
  BY <1>1, <1>3
<1>4. CASE s # b.seg
  <2>1. PICK c \in buffers \cup UNION {taken[d] : d \in Actors} : c.seg = s
    BY <1>1, <1>2, <1>4 DEF Owned
  <2>2. QED BY <1>1, <1>4, <2>1
<1>5. QED BY <1>3, <1>4

\* A handler that fails in nothing keeps the cap: reserve only takes buffers
\* out, and a critical section that pushed ends with the total within the cap.
LEMMA HandlerCapped ==
  ASSUME TypeOK, ControlInv, Capped, NEW r \in Requests, Handler(r), ~Fault
  PROVE  Capped'
<1> USE DEF NoFault, HandlerUnchanged
<1>0. MaxBuffered \in Nat /\ IsFiniteSet(InMemory) /\ Cardinality(InMemory) \in Nat
  BY FS_CardinalityType DEF Capped
<1>1. CASE Reserve(r)
  <2>1. /\ UNCHANGED <<phase, wal>> /\ phase = "up" /\ LockFree
    BY <1>1 DEF Reserve
  <2>2. \E D \in SUBSET buffers : buffers' = buffers \ D /\ taken' = [taken EXCEPT ![r] = D]
    <3>1. taken[r] = {}
      BY <1>1 DEF Reserve, ControlInv
    <3>2. taken = [taken EXCEPT ![r] = {}]
      BY <3>1 DEF TypeOK
    <3>3. CASE UNCHANGED <<buffers, taken>>
      BY <3>2, <3>3
    <3>4. CASE \E b \in Largest : taken' = [taken EXCEPT ![r] = {b}] /\ buffers' = buffers \ {b}
      BY <3>4 DEF Largest
    <3>5. QED BY <1>1, <3>3, <3>4 DEF Reserve
  <2>3. taken[r] = {}
    BY <1>1 DEF Reserve, ControlInv
  <2>4. Owned'
    BY <2>1, <2>2, <2>3, TakeOwned DEF Capped
  <2>5. IsFiniteSet(InMemory') /\ Cardinality(InMemory') <= Cardinality(InMemory)
    BY <2>2, <1>0, FewerBuffers
  <2>6. Cardinality(InMemory') \in Nat /\ Cardinality(InMemory) <= MaxBuffered
    BY <2>1, <2>5, FS_CardinalityType DEF Capped
  <2>7. Cardinality(InMemory') <= MaxBuffered
    BY <1>0, <2>5, <2>6
  <2>8. QED BY <2>1, <2>4, <2>5, <2>7 DEF Capped
<1>2. CASE Recheck(r)
  <2>1. UNCHANGED <<buffers, taken, wal, phase>> /\ LockFree /\ req[r] = "reserve"
    BY <1>2 DEF Recheck
  <2>2. QED BY <2>1 DEF Capped, Owned, InMemory
<1>3. ASSUME NEW e \in todo[r], PushEvent(r, e) PROVE Capped'
  <2>1. /\ UNCHANGED <<taken, phase>> /\ req' = [req EXCEPT ![r] = "push"]
        /\ HoldsLock(r) /\ PushOne(e) /\ e \in Records
    BY <1>3 DEF PushEvent, TypeOK
  <2>2. ~LockFree'
    BY <2>1 DEF LockFree, TypeOK
  <2>3. phase \in {"up", "stopping"}
    BY <2>1 DEF HoldsLock, ControlInv
  <2>4. IsFiniteSet(InMemory')
    BY <1>0, <2>1, PushOneMemory, FS_AddElement
  <2>5. Owned'
    BY <2>1, PushOneOwned DEF Capped
  <2>6. QED BY <2>1, <2>2, <2>3, <2>4, <2>5 DEF Capped
<1>4. CASE SyncBatch(r)
  <2>1. /\ UNCHANGED <<taken, buffers, phase>> /\ req' = [req EXCEPT ![r] = "take"]
        /\ SyncWal(LiveSegs)
    BY <1>4 DEF SyncBatch
  <2>2. ~LockFree'
    BY <2>1 DEF LockFree, TypeOK
  <2>3. \A s \in SegIds : wal'[s].exists = wal[s].exists
    <3>1. \A f \in Segment : Synced(f).exists = f.exists
      BY DEF Synced
    <3>2. QED BY <2>1, <3>1 DEF SyncWal, TypeOK
  <2>4. Owned'
    BY <2>1, <2>3 DEF Owned, Capped
  <2>5. QED BY <2>1, <2>2, <2>4 DEF Capped, InMemory
<1>5. CASE Take(r)
  <2>1. /\ UNCHANGED <<wal, phase>> /\ req[r] = "take"
    BY <1>5 DEF Take
  <2>2. PICK D \in SUBSET buffers :
          /\ TakenAtUnlock(D) /\ taken' = [taken EXCEPT ![r] = D] /\ buffers' = buffers \ D
    BY <1>5 DEF Take
  <2>3. taken[r] = {} /\ phase \in {"up", "stopping"}
    BY <2>1 DEF ControlInv
  <2>4. Owned'
    BY <2>1, <2>2, <2>3, TakeOwned DEF Capped
  <2>5. IsFiniteSet(InMemory')
    BY <1>0, <2>2, FewerBuffers
  <2>6. Cardinality(InMemory') <= MaxBuffered
    BY <2>2 DEF TakenAtUnlock, BufferedTotal, InMemory
  <2>7. QED BY <2>1, <2>3, <2>4, <2>5, <2>6 DEF Capped
<1>6. CASE Respond(r)
  <2>1. UNCHANGED <<buffers, taken, wal, phase>> /\ req' = [req EXCEPT ![r] = "acked"]
        /\ req[r] = "flush"
    BY <1>6 DEF Respond
  <2>2. LockFree' => LockFree
    BY <2>1 DEF LockFree, TypeOK
  <2>3. QED BY <2>1, <2>2 DEF Capped, Owned, InMemory
<1>7. QED
  BY <1>1, <1>2, <1>3, <1>4, <1>5, <1>6 DEF Handler, PushEventFails, SyncBatchFails, Disconnect

\* A flush that succeeds removes the file with its buffer.
LEMMA FlushCapped ==
  ASSUME TypeOK, ControlInv, Capped, NEW a \in Actors, Flush(a), ~Fault
  PROVE  Capped'
<1> USE DEF NoFault, FlushUnchanged
<1>0. PICK b \in taken[a] : PutData(a, b) \/ FlushOk(a, b)
  BY DEF Flush, FlushFails
<1>1. CASE PutData(a, b)
  <2>1. UNCHANGED <<buffers, taken, wal, phase, req>>
    BY <1>1 DEF PutData
  <2>2. QED BY <2>1 DEF Capped, Owned, InMemory, LockFree
<1>2. CASE FlushOk(a, b)
  <2>1. /\ UNCHANGED <<buffers, phase, req>> /\ wal' = Delete(wal, b.seg)
        /\ taken' = [taken EXCEPT ![a] = @ \ {b}]
    BY <1>2 DEF FlushOk
  <2>2. Owned'
    <3>1. SUFFICES ASSUME NEW s \in SegIds, wal'[s].exists
                   PROVE  \E c \in buffers' \cup UNION {taken'[d] : d \in Actors} : c.seg = s
      BY DEF Owned
    <3>2. s # b.seg /\ wal[s].exists
      BY <2>1, <3>1 DEF Delete
    <3>3. PICK c \in buffers \cup UNION {taken[d] : d \in Actors} : c.seg = s
      BY <3>2 DEF Owned, Capped
    <3>4. c # b
      BY <3>2, <3>3
    <3>5. CASE c \in buffers
      BY <2>1, <3>3, <3>5
    <3>6. ASSUME NEW d \in Actors, c \in taken[d]
          PROVE  c \in taken'[d]
      BY <2>1, <3>4, <3>6 DEF TypeOK
    <3>7. QED BY <3>3, <3>5, <3>6
  <2>3. QED BY <2>1, <2>2 DEF Capped, InMemory, LockFree
<1>3. QED
  BY <1>0, <1>1, <1>2

\* The sweeper only takes buffers out; a buffer that ages keeps its records.
LEMMA SweeperCapped ==
  ASSUME TypeOK, ControlInv, Capped, SweeperTask
  PROVE  Capped'
<1>0. MaxBuffered \in Nat /\ IsFiniteSet(InMemory) /\ Cardinality(InMemory) \in Nat
  BY FS_CardinalityType DEF Capped
<1>1. CASE Sweep
  <2>1. /\ UNCHANGED <<phase, wal, req>> /\ LockFree /\ taken[Sweeper] = {}
        /\ phase \in {"up", "stopping"}
        /\ \E D \in SUBSET buffers :
             buffers' = buffers \ D /\ taken' = [taken EXCEPT ![Sweeper] = D]
    BY <1>1 DEF Sweep, SweeperIdle, Flushed, Expired
  <2>2. Owned'
    BY <2>1, TakeOwned DEF Capped
  <2>3. IsFiniteSet(InMemory') /\ Cardinality(InMemory') <= Cardinality(InMemory)
    BY <1>0, <2>1, FewerBuffers
  <2>4. Cardinality(InMemory') \in Nat /\ Cardinality(InMemory) <= MaxBuffered
    BY <2>1, <2>3, FS_CardinalityType DEF Capped
  <2>5. Cardinality(InMemory') <= MaxBuffered
    BY <1>0, <2>3, <2>4
  <2>6. QED BY <2>1, <2>2, <2>3, <2>5 DEF Capped
<1>2. ASSUME NEW b \in buffers, Age(b) PROVE Capped'
  <2> DEFINE nb == [b EXCEPT !.aged = TRUE]
  <2>1. /\ UNCHANGED <<phase, taken, wal, req>> /\ phase \in {"up", "stopping"}
        /\ buffers' = (buffers \ {b}) \cup {nb}
    BY <1>2 DEF Age
  <2>2. nb.seg = b.seg /\ nb.evs = b.evs
    BY DEF TypeOK
  <2> HIDE DEF nb
  <2>3. InMemory' = InMemory
    <3>1. \A x \in InMemory : x \in InMemory'
      BY <2>1, <2>2 DEF InMemory
    <3>2. \A x \in InMemory' : x \in InMemory
      BY <2>1, <2>2 DEF InMemory
    <3>3. QED BY <3>1, <3>2
  <2>4. Owned'
    <3>1. SUFFICES ASSUME NEW s \in SegIds, wal[s].exists
                   PROVE  \E c \in buffers' \cup UNION {taken'[d] : d \in Actors} : c.seg = s
      BY <2>1 DEF Owned
    <3>2. PICK c \in buffers \cup UNION {taken[d] : d \in Actors} : c.seg = s
      BY <3>1 DEF Owned, Capped
    <3>3. QED BY <2>1, <2>2, <3>2
  <2>5. QED BY <2>1, <2>3, <2>4 DEF Capped, LockFree
<1>3. QED
  BY <1>1, <1>2 DEF SweeperTask

\* Without a failure every file goes with its buffer, so a process that ends
\* leaves none and the next start replays nothing.
LEMMA MainCapped ==
  ASSUME TypeOK, ControlInv, DownInv, Capped, MainTask, ~Fault
  PROVE  Capped'
<1> USE DEF NoFault, MainUnchanged
<1>1. CASE Start
  <2>1. UNCHANGED <<buffers, taken, wal, req>> /\ phase = "down"
    BY <1>1 DEF Start
  <2>2. buffers = {} /\ \A a \in Actors : taken[a] = {}
    BY <2>1, NoHandler DEF DownInv, ControlInv
  <2>3. \A s \in SegIds : ~wal[s].exists
    BY <2>2 DEF Capped, Owned
  <2>4. phase' = "up"
    BY <1>1, <2>3 DEF Start
  <2>5. QED BY <2>1, <2>4 DEF Capped, Owned, InMemory, LockFree
<1>2. CASE Shutdown
  <2>1. UNCHANGED <<buffers, taken, wal, req>> /\ phase' = "stopping"
    BY <1>2 DEF Shutdown
  <2>2. QED BY <2>1 DEF Capped, Owned, InMemory, LockFree
<1>3. CASE FlushAll
  <2>1. /\ UNCHANGED <<wal, req>> /\ phase = "stopping" /\ phase' = "final"
        /\ taken' = [taken EXCEPT ![Main] = buffers] /\ buffers' = buffers \ buffers
        /\ buffers' = {}
    BY <1>3 DEF FlushAll
  <2>2. taken[Main] = {}
    BY <2>1 DEF ControlInv
  <2>3. Owned'
    BY <2>1, <2>2, TakeOwned DEF Capped
  <2>4. InMemory' = {}
    BY <2>1 DEF InMemory
  <2>5. QED BY <2>1, <2>3, <2>4, FS_EmptySet DEF Capped
<1>4. CASE Exit
  <2>1. /\ UNCHANGED <<taken, wal, req>> /\ phase = "final" /\ phase' = "down"
        /\ buffers' = {}
    BY <1>4 DEF Exit, Capped
  <2>2. buffers = {}
    BY <2>1 DEF Capped
  <2>3. Owned' /\ InMemory' = {}
    BY <2>1, <2>2 DEF Capped, Owned, InMemory
  <2>4. QED BY <2>1, <2>3, FS_EmptySet DEF Capped
<1>5. QED
  BY <1>1, <1>2, <1>3, <1>4 DEF MainTask, Capped, ReplayEvent, ReplaySync, ReplayRetire,
       ReplayFails, Serve, Crash

\* No step undoes a failure.
LEMMA FaultStays ==
  ASSUME TypeOK, Moves, faults' = 0
  PROVE  faults = 0 /\ ~Fault
<1>1. faults \in Nat
  BY DEF TypeOK
<1>2. ~Fault
  BY <1>1 DEF Fault
<1>3. Fault \/ UNCHANGED faults
  <2>1. ASSUME NEW r \in Requests, Handler(r) PROVE Fault \/ UNCHANGED faults
    BY <2>1 DEF Handler, Reserve, Recheck, PushEvent, PushEventFails, SyncBatch,
                SyncBatchFails, Take, Respond, Disconnect, NoFault
  <2>2. ASSUME NEW a \in Actors, Flush(a) PROVE Fault \/ UNCHANGED faults
    BY <2>2 DEF Flush, PutData, FlushOk, FlushFails, NoFault
  <2>3. CASE SweeperTask
    BY <2>3 DEF SweeperTask, Sweep, Age
  <2>4. CASE MainTask
    BY <2>4 DEF MainTask, Start, ReplayEvent, ReplaySync, ReplayRetire, ReplayFails,
                Serve, Shutdown, FlushAll, Exit, Crash, NoFault
  <2>5. QED BY <2>1, <2>2, <2>3, <2>4 DEF Moves
<1>4. QED BY <1>2, <1>3

\* Although reserve and the push are two critical sections and handlers race
\* between them, until something fails the bytes in the map exceed
\* max_buffered_bytes only while a handler holds the lock (buffer.rs:172-189).
THEOREM CapHoldsAlways == Spec => []CapHolds
<1> DEFINE J == TypeOK /\ ControlInv /\ DownInv /\ CapInv
<1>1. Init => J
  <2> SUFFICES ASSUME Init PROVE J
    OBVIOUS
  <2>1. InMemory = {}
    BY DEF Init, InMemory
  <2>2. Owned
    BY DEF Init, Owned
  <2>3. Capped
    BY <2>1, <2>2, FS_EmptySet DEF Init, Capped
  <2>4. DownInv
    BY DEF Init, DownInv
  <2>5. QED BY <2>3, <2>4, InitTypeControl DEF CapInv
<1>2. J /\ [Next]_vars => J'
  <2> SUFFICES ASSUME J, [Next]_vars PROVE J'
    OBVIOUS
  <2>1. TypeOK' /\ ControlInv'
    BY StepTypeControl
  <2>2. CASE UNCHANGED holdings
    BY <2>1, <2>2 DEF holdings, DownInv, CapInv, Capped, Owned, InMemory, LockFree
  <2>3. CASE Moves
    <3>1. DownInv'
      BY <2>3, DownStep
    <3>2. ASSUME faults' = 0 PROVE Capped'
      <4>1. Capped /\ ~Fault
        BY <2>3, <3>2, FaultStays DEF CapInv
      <4>2. QED
        BY <2>3, <4>1, HandlerCapped, FlushCapped, SweeperCapped, MainCapped DEF Moves
    <3>3. QED BY <2>1, <3>1, <3>2 DEF CapInv
  <2>4. QED BY <2>2, <2>3, StepCases
<1>3. J => CapHolds
  BY DEF CapInv, Capped, CapHolds, BufferedTotal, InMemory
<1>4. QED
  BY <1>1, <1>2, <1>3, PTL DEF Spec

-----------------------------------------------------------------------------
(* Part 4: nothing is lost silently *)

\* Without a WAL a handler that is dropped at an await takes its buffers along.
MemoryAssumption == ~WalOn /\ ~Disconnects

\* Where a record is accounted for.
Held == Stored \cup InMemory \cup InFlight \cup dropped

\* Without a WAL there are no files and so no replay; a final flush without an
\* error leaves no buffer behind.
MemoryInv ==
  /\ \A b \in buffers : b.seg = NoSeg
  /\ \A a \in Actors : \A b \in taken[a] : b.seg = NoSeg
  /\ \A s \in SegIds : ~wal[s].exists
  /\ phase \notin {"replay", "replayed", "replayFlush"}
  /\ phase = "final" /\ ~mainErr => buffers = {}
  /\ \A a \in Actors : \A b \in put[a] : b.evs \subseteq Stored

\* A batch is accounted for from its push on.
HeldInv ==
  /\ acked \subseteq Held
  /\ \A r \in Requests :
       /\ req[r] = "push" => Batch[r] \subseteq todo[r] \cup Held
       /\ req[r] \in {"take", "flush"} => Batch[r] \subseteq Held

\* What a step owes without a WAL, unless it ends the process with a loss.
HeldOwes == MemoryInv' /\ (lossy => lossy') /\ (lossy' \/ (HeldInv => HeldInv'))

\* Taking buffers out for a flush loses sight of none.
LEMMA TakeHeld ==
  ASSUME TypeOK, NEW a \in Actors, NEW D \in SUBSET buffers, taken[a] = {},
         buffers' = buffers \ D, taken' = [taken EXCEPT ![a] = D],
         UNCHANGED <<copies, dropped>>
  PROVE  Held \subseteq Held'
<1>1. taken'[a] = D /\ \A d \in Actors : d # a => taken'[d] = taken[d]
  BY DEF TypeOK
<1>2. InMemory \subseteq InMemory' \cup InFlight'
  <2>1. SUFFICES ASSUME NEW c \in buffers, NEW x \in c.evs PROVE x \in InMemory' \cup InFlight'
    BY DEF InMemory
  <2>2. CASE c \in D
    BY <1>1, <2>2 DEF InFlight
  <2>3. CASE c \notin D
    BY <2>3 DEF InMemory
  <2>4. QED BY <2>2, <2>3
<1>3. InFlight \subseteq InFlight'
  <2>1. SUFFICES ASSUME NEW d \in Actors, NEW c \in taken[d], NEW x \in c.evs
                 PROVE  x \in InFlight'
    BY DEF InFlight
  <2>2. c \in taken'[d]
    BY <1>1
  <2>3. QED BY <2>2 DEF InFlight
<1>4. Stored' = Stored
  BY DEF Stored
<1>5. QED BY <1>2, <1>3, <1>4 DEF Held

\* Taking buffers out of the map without a WAL.
LEMMA TakeMemory ==
  ASSUME TypeOK, MemoryInv, NEW a \in Actors, NEW D \in SUBSET buffers,
         buffers' = buffers \ D, taken' = [taken EXCEPT ![a] = D],
         UNCHANGED <<put, wal, phase, mainErr, copies>>
  PROVE  MemoryInv'
<1>1. \A d \in Actors : taken'[d] \subseteq taken[d] \cup buffers
  BY DEF TypeOK
<1>2. \A d \in Actors : \A b \in taken'[d] : b.seg = NoSeg
  BY <1>1 DEF MemoryInv
<1>3. QED BY <1>2 DEF MemoryInv, Stored

\* push_one without a WAL: the record is in memory, and no file comes to be.
LEMMA PushHeld ==
  ASSUME TypeOK, MemoryInv, MemoryAssumption, NEW e \in Records, PushOne(e),
         phase \in {"up", "stopping"}, UNCHANGED <<taken, put, phase, mainErr, copies, dropped>>
  PROVE  MemoryInv' /\ Held \cup {e} \subseteq Held'
<1>1. PICK b, nb \in Buf :
        /\ b \in buffers \/ (b.evs = {} /\ b.seg \in FreshSegs)
        /\ nb.seg = b.seg
        /\ buffers' = (buffers \ {b}) \cup {nb}
        /\ \A s \in SegIds : s # b.seg => wal'[s] = wal[s]
  BY PushOneEffect
<1>2. b.seg = NoSeg
  BY <1>1, FreshSegsType DEF MemoryInv, MemoryAssumption
<1>3. \A c \in buffers' : c.seg = NoSeg
  BY <1>1, <1>2 DEF MemoryInv
<1>4. \A s \in SegIds : ~wal'[s].exists
  BY <1>1, <1>2 DEF MemoryInv
<1>5. MemoryInv'
  BY <1>3, <1>4 DEF MemoryInv, Stored
<1>6. InMemory' = InMemory \cup {e}
  BY PushOneMemory
<1>7. QED BY <1>5, <1>6 DEF Held, Stored, InFlight

\* A sync creates no file.
LEMMA SyncMemory ==
  ASSUME TypeOK, MemoryInv, NEW S, SyncWal(S),
         UNCHANGED <<buffers, taken, put, phase, mainErr, copies>>
  PROVE  MemoryInv'
<1>1. \A f \in Segment : Synced(f).exists = f.exists
  BY DEF Synced
<1>2. \A s \in SegIds : wal'[s].exists = wal[s].exists
  BY <1>1 DEF SyncWal, TypeOK
<1>3. QED BY <1>2 DEF MemoryInv, Stored

\* A step that moves no handler forward keeps HeldInv when it keeps Held.
LEMMA HeldKept ==
  ASSUME Held \subseteq Held', UNCHANGED <<acked, todo>>, lossy => lossy', MemoryInv',
         \A r \in Requests :
           /\ req'[r] = "push" => req[r] = "push"
           /\ req'[r] \in {"take", "flush"} => req[r] \in {"take", "flush"}
  PROVE  HeldOwes
BY DEF HeldOwes, HeldInv

\* A handler step without a WAL.
LEMMA HandlerHeld ==
  ASSUME TypeOK, ControlInv, MemoryInv, MemoryAssumption, NEW r \in Requests, Handler(r)
  PROVE  HeldOwes
<1> USE DEF NoFault, HandlerUnchanged
<1>1. CASE Reserve(r)
  <2>1. /\ UNCHANGED <<put, wal, todo, acked, phase, mainErr, copies, dropped, lossy>>
        /\ phase = "up"
    BY <1>1 DEF Reserve
  <2>2. taken[r] = {}
    BY <1>1 DEF Reserve, ControlInv
  <2>3. \E D \in SUBSET buffers : buffers' = buffers \ D /\ taken' = [taken EXCEPT ![r] = D]
    <3>2. taken = [taken EXCEPT ![r] = {}]
      BY <2>2 DEF TypeOK
    <3>3. CASE UNCHANGED <<buffers, taken>>
      BY <3>2, <3>3
    <3>4. CASE \E b \in Largest : taken' = [taken EXCEPT ![r] = {b}] /\ buffers' = buffers \ {b}
      BY <3>4 DEF Largest
    <3>5. QED BY <1>1, <3>3, <3>4 DEF Reserve
  <2>4. Held \subseteq Held'
    BY <2>1, <2>2, <2>3, TakeHeld
  <2>5. MemoryInv'
    BY <2>1, <2>2, <2>3, TakeMemory
  <2>6. \A q \in Requests : /\ req'[q] = "push" => req[q] = "push"
                            /\ req'[q] \in {"take", "flush"} => req[q] \in {"take", "flush"}
    BY <1>1 DEF Reserve, TypeOK
  <2>7. QED BY <2>1, <2>4, <2>5, <2>6, HeldKept
<1>2. CASE Recheck(r)
  <2>1. /\ UNCHANGED <<buffers, taken, put, wal, todo, acked, phase, mainErr, copies,
                       dropped, lossy>>
    BY <1>2 DEF Recheck
  <2>2. \A q \in Requests : /\ req'[q] = "push" => req[q] = "push"
                            /\ req'[q] \in {"take", "flush"} => req[q] \in {"take", "flush"}
    BY <1>2 DEF Recheck, TypeOK
  <2>3. MemoryInv' /\ Held' = Held
    BY <2>1 DEF MemoryInv, Held, Stored, InMemory, InFlight
  <2>4. QED BY <2>1, <2>2, <2>3, HeldKept
<1>3. ASSUME NEW e \in todo[r], PushEvent(r, e) PROVE HeldOwes
  <2>1. /\ UNCHANGED <<taken, put, acked, phase, mainErr, copies, dropped, lossy>>
        /\ todo' = [todo EXCEPT ![r] = todo[r] \ {e}]
        /\ req' = [req EXCEPT ![r] = "push"] /\ HoldsLock(r) /\ PushOne(e) /\ e \in Records
    BY <1>3 DEF PushEvent, TypeOK
  <2>2. MemoryInv' /\ Held \cup {e} \subseteq Held'
    BY <2>1, PushHeld DEF HoldsLock, ControlInv
  <2>3. todo'[r] = todo[r] \ {e} /\ todo[r] \subseteq todo'[r] \cup {e}
    BY <2>1 DEF TypeOK
  <2>4. HeldInv => Batch[r] \subseteq todo[r] \cup Held
    BY <2>1 DEF HoldsLock, ControlInv, HeldInv
  <2>5. \A q \in Requests \ {r} : req'[q] = req[q] /\ todo'[q] = todo[q]
    BY <2>1 DEF TypeOK
  <2>6. req'[r] = "push"
    BY <2>1 DEF TypeOK
  <2>7. HeldInv => HeldInv'
    <3>1. SUFFICES ASSUME HeldInv PROVE HeldInv'
      OBVIOUS
    <3>2. acked' \subseteq Held'
      BY <2>1, <2>2, <3>1 DEF HeldInv
    <3>3. Batch[r] \subseteq todo'[r] \cup Held'
      BY <2>2, <2>3, <2>4, <3>1
    <3>4. \A q \in Requests \ {r} :
            /\ req'[q] = "push" => Batch[q] \subseteq todo'[q] \cup Held'
            /\ req'[q] \in {"take", "flush"} => Batch[q] \subseteq Held'
      BY <2>2, <2>5, <3>1 DEF HeldInv
    <3>5. QED BY <2>6, <3>2, <3>3, <3>4 DEF HeldInv
  <2>8. QED BY <2>1, <2>2, <2>7 DEF HeldOwes
<1>4. ASSUME NEW e \in todo[r], PushEventFails(r, e) PROVE HeldOwes
  <2>1. /\ UNCHANGED <<taken, put, todo, acked, phase, mainErr, copies, dropped, lossy>>
        /\ req' = [req EXCEPT ![r] = "failed"] /\ HoldsLock(r) /\ PushOne(e) /\ e \in Records
    BY <1>4 DEF PushEventFails, CreateFails, AppendFails, MemoryAssumption, TypeOK
  <2>2. MemoryInv' /\ Held \cup {e} \subseteq Held'
    BY <2>1, PushHeld DEF HoldsLock, ControlInv
  <2>3. \A q \in Requests : /\ req'[q] = "push" => req[q] = "push"
                            /\ req'[q] \in {"take", "flush"} => req[q] \in {"take", "flush"}
    BY <2>1 DEF TypeOK
  <2>4. QED BY <2>1, <2>2, <2>3, HeldKept
<1>5. CASE SyncBatch(r)
  <2>1. /\ UNCHANGED <<buffers, taken, put, todo, acked, phase, mainErr, copies, dropped, lossy>>
        /\ req' = [req EXCEPT ![r] = "take"] /\ HoldsLock(r) /\ todo[r] = {} /\ SyncWal(LiveSegs)
    BY <1>5 DEF SyncBatch
  <2>2. MemoryInv' /\ Held' = Held
    BY <2>1, SyncMemory DEF Held, Stored, InMemory, InFlight
  <2>3. HeldInv => Batch[r] \subseteq Held
    BY <2>1 DEF HoldsLock, ControlInv, HeldInv
  <2>4. req'[r] = "take" /\ \A q \in Requests \ {r} : req'[q] = req[q]
    BY <2>1 DEF TypeOK
  <2>5. HeldInv => HeldInv'
    BY <2>1, <2>2, <2>3, <2>4 DEF HeldInv
  <2>6. QED BY <2>1, <2>2, <2>5 DEF HeldOwes
<1>6. CASE SyncBatchFails(r)
  <2>1. /\ UNCHANGED <<buffers, taken, put, todo, acked, phase, mainErr, copies, dropped, lossy>>
        /\ req' = [req EXCEPT ![r] = "failed"] /\ \E S : SyncWal(S)
    BY <1>6 DEF SyncBatchFails, SyncFails
  <2>2. MemoryInv' /\ Held' = Held
    BY <2>1, SyncMemory DEF Held, Stored, InMemory, InFlight
  <2>3. \A q \in Requests : /\ req'[q] = "push" => req[q] = "push"
                            /\ req'[q] \in {"take", "flush"} => req[q] \in {"take", "flush"}
    BY <2>1 DEF TypeOK
  <2>4. QED BY <2>1, <2>2, <2>3, HeldKept
<1>7. CASE Take(r)
  <2>1. /\ UNCHANGED <<put, wal, todo, acked, phase, mainErr, copies, dropped, lossy>>
        /\ req' = [req EXCEPT ![r] = "flush"] /\ req[r] = "take"
        /\ \E D \in SUBSET buffers : buffers' = buffers \ D /\ taken' = [taken EXCEPT ![r] = D]
    BY <1>7 DEF Take
  <2>2. taken[r] = {} /\ phase \in {"up", "stopping"}
    BY <2>1 DEF ControlInv
  <2>3. Held \subseteq Held'
    BY <2>1, <2>2, TakeHeld
  <2>4. MemoryInv'
    BY <2>1, <2>2, TakeMemory
  <2>5. \A q \in Requests : /\ req'[q] = "push" => req[q] = "push"
                            /\ req'[q] \in {"take", "flush"} => req[q] \in {"take", "flush"}
    BY <2>1 DEF TypeOK
  <2>6. QED BY <2>1, <2>3, <2>4, <2>5, HeldKept
<1>8. CASE Respond(r)
  <2>1. /\ UNCHANGED <<buffers, taken, put, wal, todo, phase, mainErr, copies, dropped, lossy>>
        /\ req' = [req EXCEPT ![r] = "acked"] /\ acked' = acked \cup Batch[r] /\ req[r] = "flush"
    BY <1>8 DEF Respond
  <2>2. MemoryInv' /\ Held' = Held
    BY <2>1 DEF MemoryInv, Held, Stored, InMemory, InFlight
  <2>3. req'[r] = "acked" /\ \A q \in Requests \ {r} : req'[q] = req[q]
    BY <2>1 DEF TypeOK
  <2>4. HeldInv => HeldInv'
    BY <2>1, <2>2, <2>3 DEF HeldInv
  <2>5. QED BY <2>1, <2>2, <2>4 DEF HeldOwes
<1>9. QED
  BY <1>1, <1>2, <1>3, <1>4, <1>5, <1>6, <1>7, <1>8 DEF Handler, Disconnect, MemoryAssumption

\* A failed flush without a WAL puts the records back into the map, or counts
\* them as dropped.
LEMMA ReinsertHeld ==
  ASSUME TypeOK, MemoryInv, NEW a \in Actors, NEW b \in taken[a], NEW d \in BOOLEAN,
         Reinsert(b, d), taken' = [taken EXCEPT ![a] = @ \ {b}], UNCHANGED copies
  PROVE  Held \subseteq Held' /\ \A c \in buffers' : c.seg = NoSeg
<1>1. b.seg = NoSeg /\ b \in Buf
  BY DEF MemoryInv, TypeOK
<1>2. \A x \in Actors : \A c \in taken[x] : c = b \/ c \in taken'[x]
  BY DEF TypeOK
<1>3. InFlight \subseteq InFlight' \cup b.evs
  BY <1>2 DEF InFlight
<1>4. Stored' = Stored
  BY DEF Stored
<1>5. CASE Live(b.key) = {}
  <2>1. buffers' = buffers \cup {b} /\ dropped' = dropped
    BY <1>5 DEF Reinsert
  <2>2. InMemory \cup b.evs \subseteq InMemory'
    BY <2>1 DEF InMemory
  <2>3. \A c \in buffers' : c.seg = NoSeg
    BY <1>1, <2>1 DEF MemoryInv
  <2>4. QED BY <1>3, <1>4, <2>1, <2>2, <2>3 DEF Held
<1>6. CASE Live(b.key) # {}
  <2>1. PICK c \in Live(b.key) :
          buffers' = (buffers \ {c}) \cup
            {[c EXCEPT !.aged = c.aged \/ b.aged,
                       !.evs = IF d THEN c.evs \cup b.evs ELSE c.evs]}
    BY <1>1, <1>6 DEF Reinsert
  <2> DEFINE nc == [c EXCEPT !.aged = c.aged \/ b.aged,
                             !.evs = IF d THEN c.evs \cup b.evs ELSE c.evs]
  <2>2. c \in Buf /\ c \in buffers
    BY DEF Live, TypeOK
  <2>3. nc.seg = c.seg /\ nc.evs = IF d THEN c.evs \cup b.evs ELSE c.evs
    BY <2>2
  <2>4. buffers' = (buffers \ {c}) \cup {nc}
    BY <2>1
  <2> HIDE DEF nc
  <2>5. InMemory \subseteq InMemory'
    <3>1. SUFFICES ASSUME NEW x, NEW y \in buffers, x \in y.evs PROVE x \in InMemory'
      BY DEF InMemory
    <3>2. CASE y = c
      <4>1. x \in nc.evs
        BY <2>3, <3>1, <3>2
      <4>2. QED BY <2>4, <4>1 DEF InMemory
    <3>3. CASE y # c
      BY <2>4, <3>1, <3>3 DEF InMemory
    <3>4. QED BY <3>2, <3>3
  <2>6. dropped' = IF d THEN dropped ELSE dropped \cup b.evs
    BY <1>1, <1>6 DEF Reinsert
  <2>7. b.evs \subseteq InMemory' \cup dropped'
    <3>1. CASE d
      <4>1. b.evs \subseteq nc.evs
        BY <2>3, <3>1
      <4>2. QED BY <2>4, <4>1 DEF InMemory
    <3>2. CASE ~d
      BY <2>6, <3>2
    <3>3. QED BY <3>1, <3>2
  <2>8. dropped \subseteq dropped'
    BY <2>6
  <2>9. \A y \in buffers' : y.seg = NoSeg
    BY <2>2, <2>3, <2>4 DEF MemoryInv
  <2>10. QED BY <1>3, <1>4, <2>5, <2>7, <2>8, <2>9 DEF Held
<1>7. QED BY <1>5, <1>6

\* A step of flush_one without a WAL.
LEMMA FlushHeld ==
  ASSUME TypeOK, ControlInv, MemoryInv, MemoryAssumption, NEW a \in Actors, Flush(a)
  PROVE  HeldOwes
<1> USE DEF NoFault, FlushUnchanged
<1>0. PICK b \in taken[a] : PutData(a, b) \/ FlushOk(a, b) \/ FlushFails(a, b)
  BY DEF Flush
<1>a. UNCHANGED <<phase, req, todo, acked, lossy>>
  BY <1>0 DEF PutData, FlushOk, FlushFails
<1>b. b \in Buf /\ b.evs \subseteq Records /\ b.seg = NoSeg
  BY DEF TypeOK, MemoryInv
<1>c. SUFFICES MemoryInv' /\ Held \subseteq Held'
  BY <1>a, HeldKept
<1>1. CASE PutData(a, b)
  <2>1. /\ UNCHANGED <<buffers, taken, wal, mainErr, dropped>>
        /\ put' = [put EXCEPT ![a] = {b}]
        /\ copies' = [e \in Records |-> IF e \in b.evs THEN copies[e] + 1 ELSE copies[e]]
    BY <1>1 DEF PutData
  <2>2. \A e \in Records : copies[e] \in Nat
    BY DEF TypeOK
  <2>3. \A e \in Records : copies'[e] > 0 <=> (copies[e] > 0 \/ e \in b.evs)
    BY <2>1, <2>2
  <2>4. Stored' = Stored \cup b.evs
    BY <1>b, <2>3 DEF Stored
  <2>5. \A d \in Actors : \A c \in put'[d] : c.evs \subseteq Stored'
    BY <2>1, <2>4 DEF TypeOK, MemoryInv
  <2>6. MemoryInv'
    BY <1>a, <2>1, <2>5 DEF MemoryInv
  <2>7. QED BY <2>1, <2>4, <2>6 DEF Held, InMemory, InFlight
<1>2. CASE FlushOk(a, b)
  <2>1. /\ UNCHANGED <<buffers, mainErr, copies, dropped>>
        /\ wal' = Delete(wal, b.seg)
        /\ taken' = [taken EXCEPT ![a] = @ \ {b}] /\ put' = [put EXCEPT ![a] = {}]
    BY <1>2, <1>b DEF FlushOk
  <2>2. b.evs \subseteq Stored
    BY <1>2 DEF FlushOk, MemoryInv
  <2>3. \A d \in Actors : /\ put'[d] \subseteq put[d] /\ taken'[d] \subseteq taken[d]
                         /\ \A c \in taken[d] : c = b \/ c \in taken'[d]
    BY <2>1 DEF TypeOK
  <2>4. \A s \in SegIds : ~wal'[s].exists
    BY <2>1 DEF Delete, MemoryInv
  <2>5. MemoryInv'
    BY <1>a, <2>1, <2>3, <2>4 DEF MemoryInv, Stored
  <2>6. InFlight \subseteq InFlight' \cup Stored
    BY <2>2, <2>3 DEF InFlight
  <2>7. QED BY <2>1, <2>5, <2>6 DEF Held, InMemory, Stored
<1>3. CASE FlushFails(a, b)
  <2>1. /\ UNCHANGED <<wal, copies>>
        /\ taken' = [taken EXCEPT ![a] = @ \ {b}] /\ put' = [put EXCEPT ![a] = {}]
        /\ mainErr' = (mainErr \/ a = Main)
        /\ \E d \in BOOLEAN : Reinsert(b, d)
    BY <1>3 DEF FlushFails
  <2>2. Held \subseteq Held' /\ \A c \in buffers' : c.seg = NoSeg
    BY <2>1, ReinsertHeld
  <2>3. \A d \in Actors : put'[d] \subseteq put[d] /\ taken'[d] \subseteq taken[d]
    BY <2>1 DEF TypeOK
  <2>4. phase = "final" => mainErr'
    <3>1. phase = "final" => a = Main
      BY NoHandler
    <3>2. QED BY <2>1, <3>1
  <2>5. MemoryInv'
    BY <1>a, <2>1, <2>2, <2>3, <2>4 DEF MemoryInv, Stored
  <2>6. QED BY <2>2, <2>5
<1>4. QED
  BY <1>0, <1>1, <1>2, <1>3

\* A step of the sweep loop without a WAL.
LEMMA SweeperHeld ==
  ASSUME TypeOK, ControlInv, MemoryInv, SweeperTask
  PROVE  HeldOwes
<1>1. CASE Sweep
  <2>1. /\ UNCHANGED <<phase, put, wal, req, todo, mainErr, copies, acked, dropped, lossy>>
        /\ taken[Sweeper] = {}
        /\ \E D \in SUBSET buffers :
             buffers' = buffers \ D /\ taken' = [taken EXCEPT ![Sweeper] = D]
    BY <1>1 DEF Sweep, SweeperIdle, Flushed, Expired
  <2>2. MemoryInv' /\ Held \subseteq Held'
    BY <2>1, TakeMemory, TakeHeld
  <2>3. QED BY <2>1, <2>2, HeldKept
<1>2. ASSUME NEW b \in buffers, Age(b) PROVE HeldOwes
  <2> DEFINE nb == [b EXCEPT !.aged = TRUE]
  <2>1. /\ UNCHANGED <<phase, taken, put, wal, req, todo, mainErr, copies, acked, dropped, lossy>>
        /\ phase \in {"up", "stopping"} /\ buffers' = (buffers \ {b}) \cup {nb}
    BY <1>2 DEF Age
  <2>2. nb.seg = b.seg /\ nb.evs = b.evs
    BY DEF TypeOK
  <2> HIDE DEF nb
  <2>3. InMemory \subseteq InMemory'
    BY <2>1, <2>2 DEF InMemory
  <2>4. Held \subseteq Held'
    BY <2>1, <2>3 DEF Held, Stored, InFlight
  <2>5. MemoryInv'
    BY <2>1, <2>2 DEF MemoryInv, Stored
  <2>6. QED BY <2>1, <2>4, <2>5, HeldKept
<1>3. QED
  BY <1>1, <1>2 DEF SweeperTask

\* A step of the main task without a WAL: the final flush takes everything, and
\* a process that exits with buffers left has had an error.
LEMMA MainHeld ==
  ASSUME TypeOK, ControlInv, MemoryInv, MainTask
  PROVE  HeldOwes
<1> USE DEF MainUnchanged
<1>1. CASE Start
  <2>1. UNCHANGED <<buffers, taken, wal, lossy, put, todo, req, copies, acked, dropped>>
    BY <1>1 DEF Start
  <2>2. phase' = "up"
    BY <1>1 DEF Start, MemoryInv
  <2>3. MemoryInv' /\ Held' = Held
    BY <2>1, <2>2 DEF MemoryInv, Held, Stored, InMemory, InFlight
  <2>4. QED BY <2>1, <2>3, HeldKept
<1>2. CASE Shutdown
  <2>1. /\ UNCHANGED <<buffers, taken, wal, mainErr, lossy, put, todo, req, copies, acked, dropped>>
        /\ phase' = "stopping"
    BY <1>2 DEF Shutdown
  <2>2. MemoryInv' /\ Held' = Held
    BY <2>1 DEF MemoryInv, Held, Stored, InMemory, InFlight
  <2>3. QED BY <2>1, <2>2, HeldKept
<1>3. CASE FlushAll
  <2>1. /\ UNCHANGED <<wal, mainErr, lossy, put, todo, req, copies, acked, dropped>>
        /\ phase = "stopping" /\ phase' = "final" /\ buffers' = {}
        /\ taken' = [taken EXCEPT ![Main] = buffers] /\ buffers' = buffers \ buffers
    BY <1>3 DEF FlushAll
  <2>2. taken[Main] = {}
    BY <2>1 DEF ControlInv
  <2>3. Held \subseteq Held'
    BY <2>1, <2>2, TakeHeld
  <2>4. \A d \in Actors : taken'[d] \subseteq taken[d] \cup buffers
    BY <2>1 DEF TypeOK
  <2>5. MemoryInv'
    BY <2>1, <2>4 DEF MemoryInv, Stored
  <2>6. QED BY <2>1, <2>3, <2>5, HeldKept
<1>4. CASE Exit
  <2>1. /\ UNCHANGED <<taken, wal, mainErr, put, todo, req, copies, acked, dropped>>
        /\ phase = "final" /\ phase' = "down" /\ buffers' = {} /\ lossy' = (lossy \/ mainErr)
    BY <1>4 DEF Exit, MemoryInv
  <2>2. MemoryInv'
    BY <2>1 DEF MemoryInv, Stored
  <2>3. CASE lossy'
    BY <2>2, <2>3, Zenon DEF HeldOwes
  <2>4. CASE ~lossy'
    <3>1. ~mainErr /\ ~lossy /\ ~lossy'
      BY <2>1, <2>4
    <3>2. buffers = {} /\ buffers' = {}
      BY <2>1, <3>1 DEF MemoryInv
    <3>3. Held' = Held
      BY <2>1, <3>2 DEF Held, Stored, InMemory, InFlight
    <3>4. QED BY <2>1, <2>2, <3>1, <3>3, HeldKept
  <2>5. QED BY <2>3, <2>4
<1>5. CASE Crash
  <2>1. /\ phase' = "down" /\ buffers' = {} /\ lossy' = TRUE
        /\ taken' = [a \in Actors |-> {}] /\ put' = [a \in Actors |-> {}]
    BY <1>5 DEF Crash
  <2>2. PICK kept \in SUBSET Records :
          wal' = [s \in SegIds |->
                   [wal[s] EXCEPT !.durable = @ \cup (wal[s].pending \cap kept),
                                  !.pending = {}, !.torn = FALSE]]
    BY <1>5 DEF Crash
  <2>3. \A s \in SegIds : wal[s] \in Segment
    BY DEF TypeOK
  <2>4. \A s \in SegIds : wal'[s].exists = wal[s].exists
    BY <2>2, <2>3
  <2>5. MemoryInv'
    BY <2>1, <2>4 DEF MemoryInv
  <2>6. lossy'
    BY <2>1
  <2>7. QED BY <2>5, <2>6, Zenon DEF HeldOwes
<1>6. QED
  BY <1>1, <1>2, <1>3, <1>4, <1>5 DEF MainTask, MemoryInv, ReplayEvent, ReplaySync,
       ReplayRetire, ReplayFails, Serve

\* Without a WAL and without hang-ups, failed flushes, keys recreated during a
\* flush and a clean shutdown lose no acknowledged record (buffer.rs:394-458);
\* with a WAL as in part 2 nothing loses one, crashes included.
THEOREM NoSilentLossAlways ==
  ASSUME MemoryAssumption \/ WalAssumption
  PROVE  Spec => []NoSilentLoss
<1>1. CASE WalAssumption
  <2>1. Init => IInv
    BY InitIInv
  <2>2. IInv /\ [Next]_vars => IInv'
    BY <1>1, StepIInv
  <2>3. IInv => NoSilentLoss
    BY DEF IInv, Safe, NoSilentLoss
  <2>4. QED
    BY <2>1, <2>2, <2>3, PTL DEF Spec
<1>2. CASE MemoryAssumption
  <2> DEFINE J == TypeOK /\ ControlInv /\ MemoryInv /\ (lossy \/ HeldInv)
  <2>1. Init => J
    <3> SUFFICES ASSUME Init PROVE J
      OBVIOUS
    <3>1. MemoryInv
      BY DEF Init, MemoryInv
    <3>2. HeldInv
      BY DEF Init, HeldInv
    <3>3. QED BY <3>1, <3>2, InitTypeControl
  <2>2. J /\ [Next]_vars => J'
    <3> SUFFICES ASSUME J, [Next]_vars PROVE J'
      OBVIOUS
    <3>1. TypeOK' /\ ControlInv'
      BY StepTypeControl
    <3>2. CASE UNCHANGED holdings
      <4>1. MemoryInv'
        BY <3>2 DEF holdings, MemoryInv, Stored
      <4>2. (lossy \/ HeldInv)'
        BY <3>2 DEF holdings, HeldInv, Held, Stored, InMemory, InFlight
      <4>3. QED BY <3>1, <4>1, <4>2
    <3>3. CASE Moves
      <4>1. HeldOwes
        BY <1>2, <3>3, HandlerHeld, FlushHeld, SweeperHeld, MainHeld DEF Moves
      <4>2. QED BY <3>1, <4>1 DEF HeldOwes
    <3>4. QED BY <3>2, <3>3, StepCases
  <2>3. J => NoSilentLoss
    BY DEF HeldInv, Held, NoSilentLoss
  <2>4. QED
    BY <2>1, <2>2, <2>3, PTL DEF Spec
<1>3. QED
  BY <1>1, <1>2

-----------------------------------------------------------------------------
(* Part 5: duplicates *)

Holders == buffers \cup UNION {taken[a] : a \in Actors}

\* Records of requests that may still push them.
Waiting ==
  UNION {todo[r] : r \in {q \in Requests : req[q] \in {"new", "reserve", "admitted", "push"}}}

\* A record is in one buffer at most.
OneHolder ==
  /\ \A b, c \in buffers : \A e \in b.evs : e \in c.evs => b = c
  /\ \A a \in Actors : \A b \in taken[a] : \A c \in buffers : \A e \in b.evs : e \notin c.evs
  /\ \A a, d \in Actors : \A b \in taken[a] : \A c \in taken[d] : \A e \in b.evs :
       e \in c.evs => a = d /\ b = c

\* It is in S3 only when that buffer's data object is written.
Unstored ==
  /\ \A b \in buffers : \A e \in b.evs : copies[e] = 0
  /\ \A a \in Actors : \A b \in taken[a] : b \in put[a] \/ \A e \in b.evs : copies[e] = 0

OneCopy == \A e \in Records : copies[e] <= 1

\* A stored record is on a line only until its flush retires the segment.
Retiring ==
  \A s \in SegIds : \A e \in Lines(s) : copies[e] > 0 =>
    \E a \in Actors : \E b \in put[a] : e \in b.evs

\* The lines of a record in memory are in its buffer's own segment, except those
\* that are being replayed.
OwnLines ==
  /\ \A s \in SegIds : ~wal[s].exists => Lines(s) = {}
  /\ \A s \in SegIds \ old : \A b \in Holders : \A e \in b.evs : e \in Lines(s) => b.seg = s

\* A record that is still to be pushed is nowhere else.
Unpushed ==
  /\ \A r \in Requests : todo[r] \subseteq Batch[r]
  /\ \A e \in Waiting \cup scan : copies[e] = 0 /\ \A b \in Holders : e \notin b.evs
  /\ \A e \in Waiting : e \notin scan /\ \A s \in SegIds : e \notin Lines(s)
  /\ \A e \in scan : \A s \in SegIds \ old : e \notin Lines(s)

ReplayOnly ==
  /\ phase # "replay" => scan = {}
  /\ phase \notin {"replay", "replayed"} => old = {}

Once == OneHolder /\ Unstored /\ OneCopy /\ Retiring /\ OwnLines /\ Unpushed /\ ReplayOnly

OnceInv == window \/ Once

\* A record in a buffer was in one of the same segment, or of none, before.
SameHolders ==
  \A b \in Holders' : \A e \in b.evs :
    \E c \in Holders : e \in c.evs /\ c.seg \in {b.seg, NoSeg}

FewerLines ==
  \A s \in SegIds : Lines(s)' \subseteq Lines(s) /\ (~wal'[s].exists => Lines(s)' = {})

FewerWaiting ==
  /\ Waiting' \subseteq Waiting /\ scan' \subseteq scan
  /\ \A r \in Requests : todo'[r] \subseteq todo[r]

\* The map, the flushes and the copies after a step that drops buffers or none.
LEMMA DropOnce ==
  ASSUME TypeOK, OneHolder, Unstored, buffers' \subseteq buffers,
         \A a \in Actors : taken'[a] \subseteq taken[a] /\ put[a] \cap taken'[a] \subseteq put'[a],
         UNCHANGED copies
  PROVE  OneHolder' /\ Unstored' /\ SameHolders
<1>1. OneHolder'
  <2>1. \A b, c \in buffers' : \A e \in b.evs : e \in c.evs => b = c
    BY DEF OneHolder
  <2>2. \A a \in Actors : \A b \in taken'[a] : \A c \in buffers' : \A e \in b.evs : e \notin c.evs
    BY DEF OneHolder
  <2>3. \A a, d \in Actors : \A b \in taken'[a] : \A c \in taken'[d] : \A e \in b.evs :
          e \in c.evs => a = d /\ b = c
    BY DEF OneHolder
  <2>4. QED BY <2>1, <2>2, <2>3 DEF OneHolder
<1>2. Unstored'
  <2>1. \A b \in buffers' : \A e \in b.evs : copies'[e] = 0
    BY DEF Unstored
  <2>2. \A a \in Actors : \A b \in taken'[a] : b \in put'[a] \/ \A e \in b.evs : copies'[e] = 0
    BY DEF Unstored
  <2>3. QED BY <2>1, <2>2 DEF Unstored
<1>3. SameHolders
  BY DEF SameHolders, Holders
<1>4. QED BY <1>1, <1>2, <1>3

\* Taking buffers out of the map for a flush.
LEMMA TakeOnce ==
  ASSUME TypeOK, OneHolder, Unstored, NEW a \in Actors, NEW D \in SUBSET buffers, taken[a] = {},
         buffers' = buffers \ D, taken' = [taken EXCEPT ![a] = D], UNCHANGED <<put, copies>>
  PROVE  OneHolder' /\ Unstored' /\ SameHolders
<1>1. taken'[a] = D /\ \A d \in Actors : d # a => taken'[d] = taken[d]
  BY DEF TypeOK
<1>2. OneHolder'
  <2>1. \A b, c \in buffers' : \A e \in b.evs : e \in c.evs => b = c
    BY DEF OneHolder
  <2>2. \A d \in Actors : \A b \in taken'[d] : \A c \in buffers' : \A e \in b.evs : e \notin c.evs
    BY <1>1 DEF OneHolder
  <2>3. ASSUME NEW x \in Actors, NEW y \in Actors, NEW b \in taken'[x], NEW c \in taken'[y],
               NEW e \in b.evs, e \in c.evs
        PROVE  x = y /\ b = c
    <3>1. CASE x = a /\ y = a
      BY <1>1, <2>3, <3>1 DEF OneHolder
    <3>2. CASE x = a /\ y # a
      BY <1>1, <2>3, <3>2 DEF OneHolder
    <3>3. CASE x # a /\ y = a
      BY <1>1, <2>3, <3>3 DEF OneHolder
    <3>4. CASE x # a /\ y # a
      BY <1>1, <2>3, <3>4 DEF OneHolder
    <3>5. QED BY <3>1, <3>2, <3>3, <3>4
  <2>4. QED BY <2>1, <2>2, <2>3 DEF OneHolder
<1>3. Unstored'
  <2>1. \A d \in Actors : \A b \in taken'[d] : b \in put[d] \/ \A e \in b.evs : copies[e] = 0
    BY <1>1 DEF Unstored
  <2>2. QED BY <2>1 DEF Unstored
<1>4. \A b \in Holders' : b \in Holders
  BY <1>1 DEF Holders
<1>5. SameHolders
  BY <1>4 DEF SameHolders
<1>6. QED BY <1>2, <1>3, <1>5

\* Lines stay in their buffers' segments when they only get fewer.
LEMMA KeepOwnLines ==
  ASSUME OwnLines, SameHolders, FewerLines, \A s \in old : s \in old' \/ Lines(s)' = {}
  PROVE  OwnLines'
<1>1. \A s \in SegIds : ~wal'[s].exists => Lines(s)' = {}
  BY DEF FewerLines
<1>2. ASSUME NEW s \in SegIds \ old', NEW b \in Holders', NEW e \in b.evs, e \in Lines(s)'
      PROVE  b.seg = s
  <2>1. s \notin old /\ e \in Lines(s)
    BY <1>2 DEF FewerLines
  <2>2. PICK c \in Holders : e \in c.evs /\ c.seg \in {b.seg, NoSeg}
    BY <1>2 DEF SameHolders
  <2>3. QED BY <2>1, <2>2 DEF OwnLines
<1>3. QED BY <1>1, <1>2 DEF OwnLines

\* What waits to be pushed stays nowhere else when nothing is pushed.
LEMMA KeepUnpushed ==
  ASSUME Unpushed, SameHolders, FewerLines, FewerWaiting, UNCHANGED copies,
         scan' = {} \/ old' = old
  PROVE  Unpushed'
<1>1. \A r \in Requests : todo'[r] \subseteq Batch[r]
  BY DEF Unpushed, FewerWaiting
<1>2. \A e \in Waiting' \cup scan' : e \in Waiting \cup scan
  BY DEF FewerWaiting
<1>3. \A e \in Waiting' \cup scan' : copies'[e] = 0
  BY <1>2 DEF Unpushed
<1>4. ASSUME NEW e \in Waiting' \cup scan', NEW b \in Holders' PROVE e \notin b.evs
  BY <1>2 DEF Unpushed, SameHolders
<1>5. \A e \in Waiting' : e \notin scan' /\ \A s \in SegIds : e \notin Lines(s)'
  BY DEF Unpushed, FewerWaiting, FewerLines
<1>6. \A e \in scan' : \A s \in SegIds \ old' : e \notin Lines(s)'
  BY DEF Unpushed, FewerWaiting, FewerLines
<1>7. QED BY <1>1, <1>3, <1>4, <1>5, <1>6 DEF Unpushed

\* A flush goes on, or its line is gone.
LEMMA KeepRetiring ==
  ASSUME Retiring, FewerLines, UNCHANGED copies, \A a \in Actors : put[a] \subseteq put'[a]
  PROVE  Retiring'
<1>1. SUFFICES ASSUME NEW s \in SegIds, NEW e \in Lines(s)', copies'[e] > 0
               PROVE  \E a \in Actors : \E b \in put'[a] : e \in b.evs
  BY DEF Retiring
<1>2. e \in Lines(s) /\ copies[e] > 0
  BY <1>1 DEF FewerLines
<1>3. \E a \in Actors : \E b \in put[a] : e \in b.evs
  BY <1>2 DEF Retiring
<1>4. QED BY <1>3

\* Handlers that push nothing make no record wait again.
LEMMA KeepWaiting ==
  ASSUME \A r \in Requests :
           /\ todo'[r] \subseteq todo[r]
           /\ req'[r] \in {"new", "reserve", "admitted", "push"}
                => req[r] \in {"new", "reserve", "admitted", "push"},
         scan' \subseteq scan
  PROVE  FewerWaiting
<1>1. Waiting' \subseteq Waiting
  BY DEF Waiting
<1>2. QED BY <1>1 DEF FewerWaiting

\* Steps that leave the files alone, and syncs.
LEMMA SameLines ==
  ASSUME OwnLines, UNCHANGED wal
  PROVE  FewerLines
BY DEF OwnLines, FewerLines, Lines

\* A sync changes no segment's lines.
LEMMA SyncLines ==
  ASSUME TypeOK, OwnLines, NEW S, SyncWal(S)
  PROVE  FewerLines
<1>1. \A f \in Segment : /\ Synced(f).exists = f.exists
                         /\ Synced(f).durable \cup Synced(f).pending = f.durable \cup f.pending
  BY DEF Synced
<1>2. \A s \in SegIds : wal'[s].exists = wal[s].exists /\ Lines(s)' = Lines(s)
  BY <1>1 DEF SyncWal, TypeOK, Lines
<1>3. QED BY <1>2 DEF FewerLines, OwnLines

\* The record that push_one adds was nowhere else, and goes into one buffer and
\* onto a line of that buffer's segment.
LEMMA PushOnce ==
  ASSUME TypeOK, Once, NEW e \in Records, PushOne(e), e \in Waiting \cup scan,
         FewerWaiting, e \notin Waiting' \cup scan', UNCHANGED <<taken, put, copies, old>>
  PROVE  OneHolder' /\ Unstored' /\ Retiring' /\ OwnLines' /\ Unpushed'
<1> USE DEF Once
<1>1. PICK b, nb \in Buf :
        /\ b \in buffers \/ (b.evs = {} /\ b.seg \in FreshSegs)
        /\ nb.seg = b.seg /\ nb.evs = b.evs \cup {e}
        /\ buffers' = (buffers \ {b}) \cup {nb}
        /\ \A s \in SegIds : s # b.seg => wal'[s] = wal[s]
        /\ b.seg \in SegIds => wal'[b.seg].exists
        /\ b.seg \in SegIds => Lines(b.seg)' \subseteq Lines(b.seg) \cup {e}
  BY PushOneEffect
<1>2. copies[e] = 0 /\ \A c \in Holders : e \notin c.evs
  BY DEF Unpushed
<1>3. \A s \in SegIds \ old : e \notin Lines(s)
  BY DEF Unpushed
<1>4. \A c \in buffers' : c = nb \/ (c \in buffers /\ c # b)
  BY <1>1
<1>5. \A x \in b.evs : b \in buffers
  BY <1>1
<1>6. \A s \in SegIds : s # b.seg => Lines(s)' = Lines(s)
  BY <1>1 DEF Lines
<1>7. \A s \in SegIds : Lines(s)' \subseteq Lines(s) \cup {e}
  BY <1>1, <1>6
<1>8. \A c \in buffers : c \in Holders
  BY DEF Holders
<1>9. \A a \in Actors : \A c \in taken[a] : c \in Holders
  BY DEF Holders
<1>10. OneHolder'
  <2>1. ASSUME NEW c \in buffers', NEW d \in buffers', NEW x \in c.evs, x \in d.evs
        PROVE  c = d
    <3>1. CASE x = e
      BY <1>2, <1>4, <1>8, <2>1, <3>1
    <3>2. CASE x # e
      <4>1. CASE c = nb /\ d # nb
        BY <1>1, <1>4, <1>5, <2>1, <3>2, <4>1 DEF OneHolder
      <4>2. CASE c # nb /\ d = nb
        BY <1>1, <1>4, <1>5, <2>1, <3>2, <4>2 DEF OneHolder
      <4>3. CASE c # nb /\ d # nb
        BY <1>4, <2>1, <4>3 DEF OneHolder
      <4>4. QED BY <4>1, <4>2, <4>3
    <3>3. QED BY <3>1, <3>2
  <2>2. ASSUME NEW a \in Actors, NEW d \in taken[a], NEW c \in buffers', NEW x \in d.evs, x \in c.evs
        PROVE  FALSE
    <3>1. x # e
      BY <1>2, <1>9, <2>2
    <3>2. CASE c = nb
      BY <1>1, <1>5, <2>2, <3>1, <3>2 DEF OneHolder
    <3>3. CASE c # nb
      BY <1>4, <2>2, <3>3 DEF OneHolder
    <3>4. QED BY <3>2, <3>3
  <2>3. QED BY <2>1, <2>2 DEF OneHolder
<1>11. Unstored'
  <2>1. \A x \in nb.evs : copies[x] = 0
    BY <1>1, <1>2, <1>5 DEF Unstored
  <2>2. QED BY <1>4, <2>1 DEF Unstored
<1>12. Retiring'
  <2>1. SUFFICES ASSUME NEW s \in SegIds, NEW x \in Lines(s)', copies'[x] > 0
                 PROVE  \E a \in Actors : \E c \in put'[a] : x \in c.evs
    BY DEF Retiring
  <2>2. copies[x] > 0 /\ x # e
    BY <1>2, <2>1
  <2>3. x \in Lines(s)
    BY <1>7, <2>1, <2>2
  <2>4. QED BY <2>2, <2>3 DEF Retiring
<1>13. OwnLines'
  <2>1. \A s \in SegIds : ~wal'[s].exists => Lines(s)' = {}
    BY <1>1, <1>6 DEF OwnLines
  <2>2. ASSUME NEW s \in SegIds \ old', NEW c \in Holders', NEW x \in c.evs, x \in Lines(s)'
        PROVE  c.seg = s
    <3>1. c = nb \/ c \in Holders
      BY <1>4, <1>8, <1>9 DEF Holders
    <3>2. CASE x = e
      <4>1. s = b.seg
        BY <1>3, <1>6, <2>2, <3>2
      <4>2. c = nb
        BY <1>2, <2>2, <3>1, <3>2
      <4>3. QED BY <1>1, <4>1, <4>2
    <3>3. CASE x # e
      <4>1. x \in Lines(s)
        BY <1>7, <2>2, <3>3
      <4>2. CASE c = nb
        <5>1. x \in b.evs /\ b \in Holders
          BY <1>1, <1>5, <1>8, <2>2, <3>3, <4>2
        <5>2. QED BY <1>1, <2>2, <4>1, <4>2, <5>1 DEF OwnLines
      <4>3. CASE c \in Holders
        BY <2>2, <4>1, <4>3 DEF OwnLines
      <4>4. QED BY <3>1, <4>2, <4>3
    <3>4. QED BY <3>2, <3>3
  <2>3. QED BY <2>1, <2>2 DEF OwnLines
<1>14. Unpushed'
  <2>1. \A r \in Requests : todo'[r] \subseteq Batch[r]
    BY DEF Unpushed, FewerWaiting
  <2>2. \A x \in Waiting' \cup scan' : x \in Waiting \cup scan /\ x # e
    BY DEF FewerWaiting
  <2>3. \A x \in Waiting' \cup scan' : copies'[x] = 0
    BY <2>2 DEF Unpushed
  <2>4. ASSUME NEW x \in Waiting' \cup scan', NEW c \in Holders' PROVE x \notin c.evs
    <3>1. c = nb \/ c \in Holders
      BY <1>4, <1>8, <1>9 DEF Holders
    <3>2. x \in Waiting \cup scan /\ x # e
      BY <2>2
    <3>3. CASE c = nb
      BY <1>1, <1>5, <1>8, <3>2, <3>3 DEF Unpushed
    <3>4. CASE c \in Holders
      BY <3>2, <3>4 DEF Unpushed
    <3>5. QED BY <3>1, <3>3, <3>4
  <2>5. \A x \in Waiting' : x \notin scan' /\ \A s \in SegIds : x \notin Lines(s)'
    BY <1>7, <2>2 DEF Unpushed, FewerWaiting
  <2>6. \A x \in scan' : \A s \in SegIds \ old' : x \notin Lines(s)'
    BY <1>7, <2>2 DEF Unpushed, FewerWaiting
  <2>7. QED BY <2>1, <2>3, <2>4, <2>5, <2>6 DEF Unpushed
<1>15. QED
  BY <1>10, <1>11, <1>12, <1>13, <1>14

\* A step that only moves handlers on, drops buffers or takes them out.
LEMMA CalmOnce ==
  ASSUME Once, OneHolder', Unstored', SameHolders, FewerLines, FewerWaiting,
         \A a \in Actors : put[a] \subseteq put'[a], UNCHANGED <<copies, old, scan, phase>>
  PROVE  Once'
<1>1. OwnLines' /\ Unpushed' /\ Retiring'
  BY KeepOwnLines, KeepUnpushed, KeepRetiring DEF Once
<1>2. OneCopy' /\ ReplayOnly'
  BY DEF Once, OneCopy, ReplayOnly
<1>3. QED BY <1>1, <1>2 DEF Once

\* A failed append leaves the lines and the records in memory as they are.
LEMMA AppendFailsOnce ==
  ASSUME TypeOK, Once, NEW k \in Keys, AppendFails(k), UNCHANGED <<taken, put, copies>>
  PROVE  OneHolder' /\ Unstored' /\ SameHolders /\ FewerLines
<1> USE DEF Once
<1>0. PICK b \in Opened(k) : \E f \in TornLine(wal[b.seg]) :
        wal' = [wal EXCEPT ![b.seg] = f] /\ buffers' = buffers \cup {b}
  BY DEF AppendFails
<1>1. PICK f \in TornLine(wal[b.seg]) :
        wal' = [wal EXCEPT ![b.seg] = f] /\ buffers' = buffers \cup {b}
  BY <1>0
<1>2. b \in buffers \/ b.evs = {}
  BY OpenedType
<1>3. \A s \in SegIds : Lines(s)' = Lines(s) /\ (wal[s].exists => wal'[s].exists)
  <2>1. CASE b.seg \in SegIds
    <3>1. PICK t : f = [wal[b.seg] EXCEPT !.exists = TRUE, !.torn = t]
      BY DEF TornLine
    <3>2. wal[b.seg] \in Segment
      BY <2>1 DEF TypeOK
    <3>3. f.exists /\ f.durable = wal[b.seg].durable /\ f.pending = wal[b.seg].pending
      BY <3>1, <3>2
    <3>4. wal'[b.seg] = f /\ \A s \in SegIds : s # b.seg => wal'[s] = wal[s]
      BY <1>1, <2>1 DEF TypeOK
    <3>5. QED BY <3>3, <3>4 DEF Lines
  <2>2. CASE b.seg \notin SegIds
    <3>1. \A s \in SegIds : wal'[s] = wal[s]
      BY <1>1, <2>2 DEF TypeOK
    <3>2. QED BY <3>1 DEF Lines
  <2>3. QED BY <2>1, <2>2
<1>4. FewerLines
  BY <1>3 DEF FewerLines, OwnLines
<1>5. OneHolder'
  <2>1. \A c, d \in buffers' : \A e \in c.evs : e \in d.evs => c = d
    BY <1>1, <1>2 DEF OneHolder
  <2>2. \A a \in Actors : \A c \in taken[a] : \A d \in buffers' : \A e \in c.evs : e \notin d.evs
    BY <1>1, <1>2 DEF OneHolder
  <2>3. QED BY <2>1, <2>2 DEF OneHolder
<1>6. Unstored'
  BY <1>1, <1>2 DEF Unstored
<1>7. SameHolders
  BY <1>1, <1>2 DEF SameHolders, Holders
<1>8. QED BY <1>4, <1>5, <1>6, <1>7

\* A record is of one batch: once its handler has pushed it or given up, no
\* handler has it to push.
LEMMA PushedLeaves ==
  ASSUME TypeOK, Unpushed, NEW r \in Requests, NEW e \in todo[r],
         \A q \in Requests : todo'[q] \subseteq todo[q],
         e \notin todo'[r] \/ req'[r] = "failed"
  PROVE  e \notin Waiting'
<1>1. \A q \in Requests : q # r => e \notin todo'[q]
  BY DEF Unpushed
<1>2. QED BY <1>1 DEF Waiting

\* A handler step stores nothing, and pushes a record once.
LEMMA HandlerOnce ==
  ASSUME TypeOK, ControlInv, Once, NEW r \in Requests, Handler(r), ~window'
  PROVE  Once'
<1> USE DEF NoFault, HandlerUnchanged
<1>0. OneHolder /\ Unstored /\ OwnLines /\ Unpushed
  BY DEF Once
<1>1. CASE Reserve(r)
  <2>1. UNCHANGED <<put, wal, todo, phase, old, scan, copies>>
    BY <1>1 DEF Reserve
  <2>2. taken[r] = {}
    BY <1>1 DEF Reserve, ControlInv
  <2>3. \E D \in SUBSET buffers : buffers' = buffers \ D /\ taken' = [taken EXCEPT ![r] = D]
    <3>1. taken = [taken EXCEPT ![r] = {}]
      BY <2>2 DEF TypeOK
    <3>2. CASE UNCHANGED <<buffers, taken>>
      BY <3>1, <3>2
    <3>3. CASE \E b \in Largest : taken' = [taken EXCEPT ![r] = {b}] /\ buffers' = buffers \ {b}
      BY <3>3 DEF Largest
    <3>4. QED BY <1>1, <3>2, <3>3 DEF Reserve
  <2>4. OneHolder' /\ Unstored' /\ SameHolders
    BY <1>0, <2>1, <2>2, <2>3, TakeOnce
  <2>5. FewerWaiting
    BY <1>1, <2>1, KeepWaiting DEF Reserve, TypeOK
  <2>6. QED BY <1>0, <2>1, <2>4, <2>5, SameLines, CalmOnce
<1>2. CASE Recheck(r)
  <2>1. UNCHANGED <<buffers, taken, put, wal, todo, phase, old, scan, copies>>
    BY <1>2 DEF Recheck
  <2>2. OneHolder' /\ Unstored' /\ SameHolders
    BY <1>0, <2>1, DropOnce
  <2>3. FewerWaiting
    BY <1>2, <2>1, KeepWaiting DEF Recheck, TypeOK
  <2>4. QED BY <1>0, <2>1, <2>2, <2>3, SameLines, CalmOnce
<1>3. ASSUME NEW e \in todo[r], PushEvent(r, e) PROVE Once'
  <2>1. /\ UNCHANGED <<taken, put, phase, old, scan, copies>>
        /\ todo' = [todo EXCEPT ![r] = todo[r] \ {e}]
        /\ req' = [req EXCEPT ![r] = "push"] /\ HoldsLock(r) /\ PushOne(e) /\ e \in Records
    BY <1>3 DEF PushEvent, TypeOK
  <2>2. e \notin todo'[r] /\ \A q \in Requests : todo'[q] \subseteq todo[q]
    BY <2>1 DEF TypeOK
  <2>3. e \in Waiting
    BY <2>1 DEF HoldsLock, Waiting
  <2>4. FewerWaiting
    BY <2>1, <2>2, KeepWaiting DEF HoldsLock, TypeOK
  <2>5. e \notin Waiting' \cup scan'
    BY <1>0, <2>1, <2>2, <2>3, PushedLeaves DEF Unpushed
  <2>6. OneHolder' /\ Unstored' /\ Retiring' /\ OwnLines' /\ Unpushed'
    BY <2>1, <2>3, <2>4, <2>5, PushOnce
  <2>7. QED BY <2>1, <2>6 DEF Once, OneCopy, ReplayOnly
<1>4. ASSUME NEW e \in todo[r], PushEventFails(r, e) PROVE Once'
  <2>1. /\ UNCHANGED <<taken, put, todo, phase, old, scan, copies>>
        /\ req' = [req EXCEPT ![r] = "failed"] /\ HoldsLock(r)
        /\ CreateFails(KeyOf[e]) \/ AppendFails(KeyOf[e]) \/ PushOne(e)
        /\ e \in Records /\ KeyOf[e] \in Keys
    BY <1>4 DEF PushEventFails, TypeOK
  <2>2. FewerWaiting
    BY <2>1, KeepWaiting DEF TypeOK
  <2>3. CASE CreateFails(KeyOf[e])
    <3>1. UNCHANGED <<wal, buffers>>
      BY <2>3 DEF CreateFails
    <3>2. OneHolder' /\ Unstored' /\ SameHolders
      BY <1>0, <2>1, <3>1, DropOnce
    <3>3. QED BY <1>0, <2>1, <2>2, <3>1, <3>2, SameLines, CalmOnce
  <2>4. CASE AppendFails(KeyOf[e])
    <3>1. OneHolder' /\ Unstored' /\ SameHolders /\ FewerLines
      BY <2>1, <2>4, AppendFailsOnce
    <3>2. QED BY <2>1, <2>2, <3>1, CalmOnce
  <2>5. CASE PushOne(e)
    <3>1. e \in Waiting
      BY <2>1 DEF HoldsLock, Waiting
    <3>2. req'[r] = "failed"
      BY <2>1 DEF TypeOK
    <3>3. e \notin Waiting' \cup scan'
      BY <1>0, <2>1, <3>1, <3>2, PushedLeaves DEF Unpushed
    <3>4. OneHolder' /\ Unstored' /\ Retiring' /\ OwnLines' /\ Unpushed'
      BY <2>1, <2>2, <2>5, <3>1, <3>3, PushOnce
    <3>5. QED BY <2>1, <3>4 DEF Once, OneCopy, ReplayOnly
  <2>6. QED BY <2>1, <2>3, <2>4, <2>5
<1>5. CASE SyncBatch(r) \/ SyncBatchFails(r)
  <2>1. /\ UNCHANGED <<buffers, taken, put, todo, phase, old, scan, copies>>
        /\ \E S : SyncWal(S)
        /\ req' = [req EXCEPT ![r] = "take"] \/ req' = [req EXCEPT ![r] = "failed"]
    BY <1>5 DEF SyncBatch, SyncBatchFails, SyncFails
  <2>2. OneHolder' /\ Unstored' /\ SameHolders
    BY <1>0, <2>1, DropOnce
  <2>3. FewerWaiting
    BY <2>1, KeepWaiting DEF TypeOK
  <2>4. FewerLines
    BY <1>0, <2>1, SyncLines
  <2>5. QED BY <2>1, <2>2, <2>3, <2>4, CalmOnce
<1>6. CASE Take(r)
  <2>1. /\ UNCHANGED <<put, wal, todo, phase, old, scan, copies>>
        /\ req' = [req EXCEPT ![r] = "flush"] /\ req[r] = "take"
        /\ \E D \in SUBSET buffers : buffers' = buffers \ D /\ taken' = [taken EXCEPT ![r] = D]
    BY <1>6 DEF Take
  <2>2. taken[r] = {}
    BY <2>1 DEF ControlInv
  <2>3. OneHolder' /\ Unstored' /\ SameHolders
    BY <1>0, <2>1, <2>2, TakeOnce
  <2>4. FewerWaiting
    BY <2>1, KeepWaiting DEF TypeOK
  <2>5. QED BY <1>0, <2>1, <2>3, <2>4, SameLines, CalmOnce
<1>7. CASE Respond(r)
  <2>1. /\ UNCHANGED <<buffers, taken, put, wal, todo, phase, old, scan, copies>>
        /\ req' = [req EXCEPT ![r] = "acked"]
    BY <1>7 DEF Respond
  <2>2. OneHolder' /\ Unstored' /\ SameHolders
    BY <1>0, <2>1, DropOnce
  <2>3. FewerWaiting
    BY <2>1, KeepWaiting DEF TypeOK
  <2>4. QED BY <1>0, <2>1, <2>2, <2>3, SameLines, CalmOnce
<1>8. CASE Disconnect(r)
  <2>1. /\ UNCHANGED <<buffers, wal, todo, phase, old, scan, copies>>
        /\ req' = [req EXCEPT ![r] = "gone"]
        /\ taken' = [taken EXCEPT ![r] = {}] /\ put' = [put EXCEPT ![r] = {}]
        /\ window' = (window \/ put[r] # {})
    BY <1>8 DEF Disconnect
  <2>2. put[r] = {}
    BY <2>1
  <2>3. \A a \in Actors : taken'[a] \subseteq taken[a] /\ put'[a] = put[a]
    BY <2>1, <2>2 DEF TypeOK
  <2>4. OneHolder' /\ Unstored' /\ SameHolders
    BY <1>0, <2>1, <2>3, DropOnce
  <2>5. FewerWaiting
    BY <2>1, KeepWaiting DEF TypeOK
  <2>6. QED BY <1>0, <2>1, <2>3, <2>4, <2>5, SameLines, CalmOnce
<1>9. QED
  BY <1>1, <1>2, <1>3, <1>4, <1>5, <1>6, <1>7, <1>8 DEF Handler

\* put_chunk writes records that are in no other buffer and not in S3 yet.
LEMMA PutDataOnce ==
  ASSUME TypeOK, Once, NEW a \in Actors, NEW b \in taken[a], PutData(a, b)
  PROVE  Once'
<1> USE DEF Once
<1>1. /\ UNCHANGED <<phase, buffers, taken, wal, old, scan, req, todo>>
      /\ put' = [put EXCEPT ![a] = {b}] /\ put[a] = {}
      /\ copies' = [e \in Records |-> IF e \in b.evs THEN copies[e] + 1 ELSE copies[e]]
  BY DEF PutData, FlushUnchanged
<1>2. b.evs \subseteq Records /\ \A e \in Records : copies[e] \in Nat
  BY DEF TypeOK
<1>3. \A e \in b.evs : copies[e] = 0
  BY <1>1 DEF Unstored
<1>4. put'[a] = {b} /\ \A d \in Actors : d # a => put'[d] = put[d]
  BY <1>1 DEF TypeOK
<1>5. \A e \in Records : e \notin b.evs => copies'[e] = copies[e]
  BY <1>1
<1>6. \A e \in b.evs : copies'[e] = 1
  BY <1>1, <1>2, <1>3
<1>7. UNCHANGED <<Holders, Waiting>> /\ \A s \in SegIds : Lines(s)' = Lines(s)
  BY <1>1 DEF Holders, Waiting, Lines
<1>8. OneHolder' /\ OwnLines' /\ ReplayOnly'
  BY <1>1, <1>7 DEF OneHolder, OwnLines, ReplayOnly
<1>9. Unstored'
  <2>1. \A c \in buffers : \A e \in c.evs : e \in Records /\ e \notin b.evs /\ copies[e] = 0
    BY DEF OneHolder, Unstored, TypeOK
  <2>2. ASSUME NEW d \in Actors, NEW c \in taken[d], c \notin put'[d], NEW e \in c.evs
        PROVE  copies'[e] = 0
    <3>1. c \notin put[d] /\ (d # a \/ c # b)
      BY <1>1, <1>4, <2>2
    <3>2. e \in Records /\ copies[e] = 0 /\ e \notin b.evs
      BY <3>1 DEF Unstored, OneHolder, TypeOK
    <3>3. QED BY <1>5, <3>2
  <2>3. \A c \in buffers' : \A e \in c.evs : copies'[e] = 0
    BY <1>1, <1>5, <2>1
  <2>4. QED BY <1>1, <2>2, <2>3 DEF Unstored
<1>10. OneCopy'
  BY <1>5, <1>6 DEF OneCopy
<1>11. Retiring'
  <2>1. SUFFICES ASSUME NEW s \in SegIds, NEW e \in Lines(s), copies'[e] > 0
                 PROVE  \E d \in Actors : \E c \in put'[d] : e \in c.evs
    BY <1>7 DEF Retiring
  <2>2. CASE e \in b.evs
    BY <1>4, <2>2
  <2>3. CASE e \notin b.evs
    <3>1. e \in Records
      BY DEF Lines, TypeOK
    <3>2. copies[e] > 0
      BY <1>5, <2>1, <2>3, <3>1
    <3>3. PICK d \in Actors : \E c \in put[d] : e \in c.evs
      BY <3>2 DEF Retiring
    <3>4. d # a
      BY <1>1, <3>3
    <3>5. QED BY <1>4, <3>3, <3>4
  <2>4. QED BY <2>2, <2>3
<1>12. Unpushed'
  <2>1. b \in Holders
    BY DEF Holders
  <2>2. \A e \in Waiting \cup scan : e \in Records /\ e \notin b.evs /\ copies[e] = 0
    <3>1. Waiting \cup scan \subseteq Records
      BY DEF Waiting, TypeOK
    <3>2. QED BY <2>1, <3>1 DEF Unpushed
  <2>3. \A e \in Waiting \cup scan : copies'[e] = 0
    BY <1>5, <2>2
  <2>4. QED BY <1>1, <1>7, <2>3 DEF Unpushed
<1>13. QED
  BY <1>8, <1>9, <1>10, <1>11, <1>12

\* A flush that ends removes the only segment its records are in.
LEMMA FlushOkOnce ==
  ASSUME TypeOK, ControlInv, Once, NEW a \in Actors, NEW b \in taken[a], FlushOk(a, b), ~window'
  PROVE  Once'
<1> USE DEF Once
<1>1. /\ UNCHANGED <<phase, buffers, copies, old, scan, req, todo>>
      /\ wal' = Delete(wal, b.seg) /\ put[a] \subseteq {b}
      /\ taken' = [taken EXCEPT ![a] = @ \ {b}] /\ put' = [put EXCEPT ![a] = {}]
  BY DEF FlushOk, FlushUnchanged
<1>2. /\ taken'[a] = taken[a] \ {b} /\ put'[a] = {}
      /\ \A d \in Actors : d # a => taken'[d] = taken[d] /\ put'[d] = put[d]
  BY <1>1 DEF TypeOK
<1>3. OneHolder' /\ Unstored' /\ SameHolders
  <2>1. \A d \in Actors : taken'[d] \subseteq taken[d] /\ put[d] \cap taken'[d] \subseteq put'[d]
    BY <1>1, <1>2
  <2>2. QED BY <1>1, <2>1, DropOnce
<1>4. /\ \A s \in SegIds : s # b.seg => wal'[s] = wal[s]
      /\ b.seg \in SegIds => wal'[b.seg] = NoFile
  BY <1>1 DEF Delete
<1>5. /\ \A s \in SegIds : s # b.seg => Lines(s)' = Lines(s)
      /\ b.seg \in SegIds => Lines(b.seg)' = {}
  BY <1>4 DEF Lines
<1>6. FewerLines
  BY <1>4, <1>5 DEF FewerLines, OwnLines
<1>7. FewerWaiting
  BY <1>1, KeepWaiting
<1>8. OwnLines' /\ Unpushed'
  BY <1>1, <1>3, <1>6, <1>7, KeepOwnLines, KeepUnpushed
<1>9. Retiring'
  <2>1. SUFFICES ASSUME NEW s \in SegIds, NEW e \in Lines(s)', copies[e] > 0
                 PROVE  \E d \in Actors : \E c \in put'[d] : e \in c.evs
    BY <1>1 DEF Retiring
  <2>2. e \in Lines(s) /\ s # b.seg
    BY <1>5, <2>1
  <2>3. s \notin old
    BY FlushPhase DEF ReplayOnly
  <2>4. e \notin b.evs
    BY <2>2, <2>3 DEF OwnLines, Holders
  <2>5. PICK d \in Actors : \E c \in put[d] : e \in c.evs
    BY <2>1, <2>2 DEF Retiring
  <2>6. d # a
    BY <1>1, <2>4, <2>5
  <2>7. QED BY <1>2, <2>5, <2>6
<1>10. OneCopy' /\ ReplayOnly'
  BY <1>1 DEF OneCopy, ReplayOnly
<1>11. QED
  BY <1>3, <1>8, <1>9, <1>10

\* A buffer that was not stored goes back, stays in its segment, or is merged.
LEMMA ReinsertOnce ==
  ASSUME TypeOK, OneHolder, Unstored, NEW a \in Actors, NEW b \in taken[a], put[a] = {},
         NEW d \in BOOLEAN, Reinsert(b, d), taken' = [taken EXCEPT ![a] = @ \ {b}],
         \A x \in Actors : put'[x] = put[x], UNCHANGED copies
  PROVE  OneHolder' /\ Unstored' /\ SameHolders
<1>1. taken'[a] = taken[a] \ {b} /\ \A x \in Actors : x # a => taken'[x] = taken[x]
  BY DEF TypeOK
<1>2. \A e \in b.evs : copies[e] = 0
  BY DEF Unstored
<1>3. \A c \in buffers : \A e \in b.evs : e \notin c.evs
  BY DEF OneHolder
<1>4. \A x \in Actors : \A c \in taken'[x] : c \in taken[x] /\ \A e \in b.evs : e \notin c.evs
  BY <1>1 DEF OneHolder
<1>5. b \in Holders /\ b \in Buf
  BY DEF Holders, TypeOK
<1>6. \A x, y \in Actors : \A c \in taken'[x] : \A f \in taken'[y] : \A e \in c.evs :
        e \in f.evs => x = y /\ c = f
  BY <1>4 DEF OneHolder
<1>7. \A x \in Actors : \A c \in taken'[x] : c \in put'[x] \/ \A e \in c.evs : copies'[e] = 0
  BY <1>4 DEF Unstored
<1>8. CASE buffers' = buffers \cup {b}
  <2>1. \A c, f \in buffers' : \A e \in c.evs : e \in f.evs => c = f
    BY <1>3, <1>8 DEF OneHolder
  <2>2. \A x \in Actors : \A c \in taken'[x] : \A f \in buffers' : \A e \in c.evs : e \notin f.evs
    BY <1>4, <1>8 DEF OneHolder
  <2>3. Unstored'
    BY <1>2, <1>7, <1>8 DEF Unstored
  <2>4. \A c \in Holders' : c \in Holders
    BY <1>4, <1>5, <1>8 DEF Holders
  <2>5. QED BY <1>6, <2>1, <2>2, <2>3, <2>4 DEF OneHolder, SameHolders
<1>9. CASE buffers' = buffers
  <2>1. \A x \in Actors : taken'[x] \subseteq taken[x] /\ put[x] \cap taken'[x] \subseteq put'[x]
    BY <1>4
  <2>2. QED BY <1>9, <2>1, DropOnce
<1>10. CASE b.seg = NoSeg /\ Live(b.key) # {}
  <2>1. PICK c \in Live(b.key) :
          buffers' = (buffers \ {c}) \cup
            {[c EXCEPT !.aged = c.aged \/ b.aged,
                       !.evs = IF d THEN c.evs \cup b.evs ELSE c.evs]}
    BY <1>10 DEF Reinsert
  <2> DEFINE nc == [c EXCEPT !.aged = c.aged \/ b.aged,
                             !.evs = IF d THEN c.evs \cup b.evs ELSE c.evs]
  <2>2. c \in Buf /\ c \in buffers
    BY DEF Live, TypeOK
  <2>3. nc.seg = c.seg /\ nc.evs = IF d THEN c.evs \cup b.evs ELSE c.evs
    BY <2>2
  <2>4. buffers' = (buffers \ {c}) \cup {nc}
    BY <2>1
  <2> HIDE DEF nc
  <2>5. nc.evs \subseteq c.evs \cup b.evs
    BY <2>3
  <2>6. \A y, z \in buffers' : \A e \in y.evs : e \in z.evs => y = z
    <3>1. \A y \in buffers \ {c} : \A e \in nc.evs : e \notin y.evs
      BY <1>3, <2>2, <2>5 DEF OneHolder
    <3>2. QED BY <2>4, <3>1 DEF OneHolder
  <2>7. \A x \in Actors : \A y \in taken'[x] : \A z \in buffers' : \A e \in y.evs : e \notin z.evs
    <3>1. \A x \in Actors : \A y \in taken'[x] : \A e \in y.evs : e \notin nc.evs
      BY <1>4, <2>2, <2>5 DEF OneHolder
    <3>2. QED BY <1>4, <2>4, <3>1 DEF OneHolder
  <2>8. Unstored'
    <3>1. \A e \in nc.evs : copies[e] = 0
      BY <1>2, <2>2, <2>5 DEF Unstored
    <3>2. QED BY <1>7, <2>4, <3>1 DEF Unstored
  <2>9. SameHolders
    <3>1. \A y \in Holders' : y = nc \/ y \in Holders
      BY <1>4, <2>4 DEF Holders
    <3>2. c \in Holders
      BY <2>2 DEF Holders
    <3>3. \A e \in nc.evs : \E y \in Holders : e \in y.evs /\ y.seg \in {nc.seg, NoSeg}
      BY <1>5, <1>10, <2>3, <2>5, <3>2
    <3>4. QED BY <3>1, <3>3 DEF SameHolders
  <2>10. QED BY <1>6, <2>6, <2>7, <2>8, <2>9 DEF OneHolder
<1>11. QED
  BY <1>8, <1>9, <1>10 DEF Reinsert

\* A step of flush_one.
LEMMA FlushOnce ==
  ASSUME TypeOK, ControlInv, Once, NEW a \in Actors, Flush(a), ~window'
  PROVE  Once'
<1>0. PICK b \in taken[a] : PutData(a, b) \/ FlushOk(a, b) \/ FlushFails(a, b)
  BY DEF Flush
<1>1. CASE PutData(a, b)
  BY <1>1, PutDataOnce
<1>2. CASE FlushOk(a, b)
  BY <1>2, FlushOkOnce
<1>3. CASE FlushFails(a, b)
  <2>1. /\ UNCHANGED <<phase, wal, copies, old, scan, req, todo>>
        /\ taken' = [taken EXCEPT ![a] = @ \ {b}] /\ put' = [put EXCEPT ![a] = {}]
        /\ window' = (window \/ put[a] # {})
        /\ \E d \in BOOLEAN : Reinsert(b, d)
    BY <1>3 DEF FlushFails, FlushUnchanged
  <2>2. put[a] = {}
    BY <2>1
  <2>3. \A x \in Actors : put'[x] = put[x]
    BY <2>1, <2>2 DEF TypeOK
  <2>4. OneHolder' /\ Unstored' /\ SameHolders
    BY <2>1, <2>2, <2>3, ReinsertOnce DEF Once
  <2>5. FewerWaiting
    BY <2>1, KeepWaiting
  <2>6. FewerLines
    BY <2>1, SameLines DEF Once
  <2>7. QED BY <2>1, <2>3, <2>4, <2>5, <2>6, CalmOnce
<1>4. QED
  BY <1>0, <1>1, <1>2, <1>3

\* A step of the sweep loop.
LEMMA SweeperOnce ==
  ASSUME TypeOK, ControlInv, Once, SweeperTask
  PROVE  Once'
<1>0. OneHolder /\ Unstored /\ OwnLines
  BY DEF Once
<1>1. CASE Sweep
  <2>1. /\ UNCHANGED <<phase, put, wal, old, scan, req, todo, copies>> /\ taken[Sweeper] = {}
        /\ \E D \in SUBSET buffers :
             buffers' = buffers \ D /\ taken' = [taken EXCEPT ![Sweeper] = D]
    BY <1>1 DEF Sweep, SweeperIdle, Flushed, Expired
  <2>2. OneHolder' /\ Unstored' /\ SameHolders
    BY <1>0, <2>1, TakeOnce
  <2>3. FewerWaiting /\ FewerLines
    BY <1>0, <2>1, KeepWaiting, SameLines
  <2>4. QED BY <2>1, <2>2, <2>3, CalmOnce
<1>2. ASSUME NEW b \in buffers, Age(b) PROVE Once'
  <2> DEFINE nb == [b EXCEPT !.aged = TRUE]
  <2>1. /\ UNCHANGED <<phase, taken, put, wal, old, scan, req, todo, copies>>
        /\ buffers' = (buffers \ {b}) \cup {nb}
    BY <1>2 DEF Age
  <2>2. nb.seg = b.seg /\ nb.evs = b.evs
    BY DEF TypeOK
  <2> HIDE DEF nb
  <2>3. OneHolder'
    <3>1. \A c, d \in buffers' : \A e \in c.evs : e \in d.evs => c = d
      BY <1>0, <2>1, <2>2 DEF OneHolder
    <3>2. \A a \in Actors : \A c \in taken[a] : \A d \in buffers' : \A e \in c.evs : e \notin d.evs
      BY <1>0, <2>1, <2>2 DEF OneHolder
    <3>3. QED BY <1>0, <2>1, <3>1, <3>2 DEF OneHolder
  <2>4. Unstored'
    BY <1>0, <2>1, <2>2 DEF Unstored
  <2>5. SameHolders
    <3>1. \A c \in Holders' : c = nb \/ c \in Holders
      BY <2>1 DEF Holders
    <3>2. b \in Holders
      BY DEF Holders
    <3>3. QED BY <2>2, <3>1, <3>2 DEF SameHolders
  <2>6. FewerWaiting /\ FewerLines
    BY <1>0, <2>1, KeepWaiting, SameLines
  <2>7. QED BY <2>1, <2>3, <2>4, <2>5, <2>6, CalmOnce
<1>3. QED
  BY <1>1, <1>2 DEF SweeperTask

\* Nothing is held by a process that has ended.
LEMMA NothingHeld ==
  ASSUME TypeOK, buffers = {}, \A a \in Actors : taken[a] = {}
  PROVE  Holders = {} /\ \A a \in Actors : put[a] = {}
BY DEF Holders, TypeOK

\* A step that ends the process: memory is lost, no PUT was under way.
Lost ==
  /\ buffers' = {} /\ (\A a \in Actors : taken'[a] = {} /\ put[a] = {})
  /\ old' = {} /\ scan' = {}
  /\ FewerLines /\ FewerWaiting /\ UNCHANGED copies

\* What was in memory is left to the segments, and none of that is in S3.
LEMMA EndOnce ==
  ASSUME TypeOK, Once, Lost
  PROVE  Once'
<1> USE DEF Once
<1>1. Holders' = {}
  BY DEF Lost, Holders
<1>2. OneHolder' /\ Unstored' /\ OneCopy' /\ ReplayOnly'
  BY DEF Lost, OneHolder, Unstored, OneCopy, ReplayOnly
<1>3. SameHolders
  BY <1>1 DEF SameHolders
<1>4. Unpushed'
  BY <1>3, KeepUnpushed DEF Lost
<1>5. OwnLines'
  BY <1>1 DEF Lost, FewerLines, OwnLines
<1>6. Retiring'
  <2>1. \A s \in SegIds : \A e \in Lines(s) : ~(copies[e] > 0)
    BY DEF Retiring, Lost
  <2>2. QED BY <2>1 DEF Retiring, Lost, FewerLines
<1>7. QED
  BY <1>2, <1>4, <1>5, <1>6

\* A documented window is never forgotten.
LEMMA WindowStays ==
  ASSUME Moves, ~window' PROVE ~window
<1>1. ASSUME NEW r \in Requests, Handler(r) PROVE ~window
  BY <1>1 DEF Handler, Reserve, Recheck, PushEvent, PushEventFails, SyncBatch,
              SyncBatchFails, Take, Respond, Disconnect, HandlerUnchanged
<1>2. ASSUME NEW a \in Actors, Flush(a) PROVE ~window
  BY <1>2 DEF Flush, PutData, FlushOk, FlushFails
<1>3. CASE SweeperTask
  BY <1>3 DEF SweeperTask, Sweep, Age
<1>4. CASE MainTask
  BY <1>4 DEF MainTask, Start, ReplayEvent, ReplaySync, ReplayRetire, ReplayFails,
              Serve, Shutdown, FlushAll, Exit, Crash
<1>5. QED
  BY <1>1, <1>2, <1>3, <1>4 DEF Moves

\* A step of the main task: what a start replays is not in S3 and in no buffer,
\* and its old lines are gone before a flush stores it.
LEMMA MainOnce ==
  ASSUME TypeOK, ControlInv, DownInv, Once, MainTask, ~window', TypeOK'
  PROVE  Once'
<1> USE DEF MainUnchanged, NoFault
<1>0. OneHolder /\ Unstored /\ OneCopy /\ Retiring /\ OwnLines /\ Unpushed /\ ReplayOnly
  BY DEF Once
<1>1. CASE Start
  <2>1. /\ UNCHANGED <<buffers, taken, put, wal, req, todo, copies>>
        /\ phase = "down" /\ old' = {s \in SegIds : wal[s].exists}
        /\ scan' = UNION {Lines(s) : s \in {s \in SegIds : wal[s].exists}}
        /\ phase' = IF {s \in SegIds : wal[s].exists} = {} THEN "up" ELSE "replay"
    BY <1>1 DEF Start
  <2>2. buffers = {} /\ \A a \in Actors : taken[a] = {}
    BY <2>1, NoHandler DEF DownInv, ControlInv
  <2>3. Holders = {} /\ \A a \in Actors : put[a] = {}
    BY <2>2, NothingHeld
  <2>4. Holders' = {} /\ Waiting' = Waiting /\ \A s \in SegIds : Lines(s)' = Lines(s)
    BY <2>1, <2>3 DEF Holders, Waiting, Lines
  <2>5. OneHolder' /\ Unstored' /\ OneCopy' /\ Retiring'
    BY <1>0, <2>1, <2>2, <2>4 DEF OneHolder, Unstored, OneCopy, Retiring
  <2>6. OwnLines'
    BY <1>0, <2>1, <2>4 DEF OwnLines
  <2>7. ReplayOnly'
    BY <2>1 DEF ReplayOnly
  <2>8. \A e \in scan' : copies[e] = 0
    <3>1. SUFFICES ASSUME NEW s \in SegIds, NEW e \in Lines(s) PROVE copies[e] = 0
      BY <2>1
    <3>2. ~(copies[e] > 0)
      BY <1>0, <2>3 DEF Retiring
    <3>3. copies[e] \in Nat
      BY DEF Lines, TypeOK
    <3>4. QED BY <3>2, <3>3
  <2>9. \A e \in Waiting : e \notin scan' /\ copies[e] = 0 /\ \A s \in SegIds : e \notin Lines(s)
    BY <1>0, <2>1 DEF Unpushed
  <2>10. \A s \in SegIds \ old' : Lines(s) = {}
    BY <1>0, <2>1 DEF OwnLines
  <2>11. Unpushed'
    BY <1>0, <2>1, <2>4, <2>8, <2>9, <2>10 DEF Unpushed
  <2>12. QED BY <2>5, <2>6, <2>7, <2>11 DEF Once
<1>2. ASSUME NEW e \in scan, ReplayEvent(e) PROVE Once'
  <2>1. /\ UNCHANGED <<phase, taken, put, verdict, old, req, todo, copies>>
        /\ phase = "replay" /\ scan' = scan \ {e} /\ PushOne(e) /\ e \in Records
    BY <1>2 DEF ReplayEvent, TypeOK
  <2>2. FewerWaiting /\ Waiting' = Waiting
    BY <2>1, KeepWaiting DEF Waiting
  <2>3. e \notin Waiting' \cup scan'
    BY <1>0, <2>1, <2>2 DEF Unpushed
  <2>4. OneHolder' /\ Unstored' /\ Retiring' /\ OwnLines' /\ Unpushed'
    BY <2>1, <2>2, <2>3, PushOnce
  <2>5. QED BY <1>0, <2>1, <2>4 DEF Once, OneCopy, ReplayOnly
<1>3. CASE ReplaySync
  <2>1. /\ UNCHANGED <<buffers, taken, put, old, scan, req, todo, copies>>
        /\ phase = "replay" /\ phase' = "replayed" /\ scan = {} /\ SyncWal(LiveSegs)
    BY <1>3 DEF ReplaySync
  <2>2. OneHolder' /\ Unstored' /\ SameHolders
    BY <1>0, <2>1, DropOnce
  <2>3. FewerWaiting /\ FewerLines
    BY <1>0, <2>1, KeepWaiting, SyncLines
  <2>4. OwnLines' /\ Unpushed' /\ Retiring'
    BY <1>0, <2>1, <2>2, <2>3, KeepOwnLines, KeepUnpushed, KeepRetiring
  <2>5. OneCopy' /\ ReplayOnly'
    BY <1>0, <2>1 DEF OneCopy, ReplayOnly
  <2>6. QED BY <2>2, <2>4, <2>5 DEF Once
<1>4. CASE ReplayRetire
  <2>1. /\ UNCHANGED <<put, scan, req, todo, copies>> /\ phase = "replayed"
        /\ phase' = "replayFlush" /\ old' = {}
        /\ wal' = [s \in SegIds |-> IF s \in old THEN NoFile ELSE wal[s]]
        /\ taken' = [taken EXCEPT ![Main] = FlushDue] /\ buffers' = buffers \ FlushDue
    BY <1>4 DEF ReplayRetire
  <2>2. FlushDue \in SUBSET buffers /\ taken[Main] = {} /\ scan = {}
    BY <1>0, <2>1 DEF FlushDue, ControlInv, ReplayOnly
  <2>3. OneHolder' /\ Unstored' /\ SameHolders
    BY <1>0, <2>1, <2>2, TakeOnce
  <2>4. /\ \A s \in SegIds : s \in old => wal'[s] = NoFile /\ Lines(s)' = {}
        /\ \A s \in SegIds : s \notin old => wal'[s] = wal[s] /\ Lines(s)' = Lines(s)
    BY <2>1 DEF Lines
  <2>5. FewerLines
    BY <1>0, <2>4 DEF FewerLines, OwnLines
  <2>6. FewerWaiting
    BY <2>1, KeepWaiting
  <2>7. \A s \in old : Lines(s)' = {}
    BY <2>4 DEF TypeOK
  <2>8. OwnLines' /\ Unpushed' /\ Retiring'
    BY <1>0, <2>1, <2>2, <2>3, <2>5, <2>6, <2>7, KeepOwnLines, KeepUnpushed, KeepRetiring
  <2>9. OneCopy' /\ ReplayOnly'
    BY <1>0, <2>1, <2>2 DEF OneCopy, ReplayOnly
  <2>10. QED BY <2>3, <2>8, <2>9 DEF Once
<1>5. CASE Serve \/ Shutdown
  <2>1. /\ UNCHANGED <<buffers, taken, put, wal, old, scan, req, todo, copies>>
        /\ phase \in {"replayFlush", "up"}
    BY <1>5 DEF Serve, Shutdown
  <2>2. OneHolder' /\ Unstored' /\ SameHolders
    BY <1>0, <2>1, DropOnce
  <2>3. FewerWaiting /\ FewerLines
    BY <1>0, <2>1, KeepWaiting, SameLines
  <2>4. OwnLines' /\ Unpushed' /\ Retiring'
    BY <1>0, <2>1, <2>2, <2>3, KeepOwnLines, KeepUnpushed, KeepRetiring
  <2>5. OneCopy' /\ ReplayOnly'
    BY <1>0, <2>1 DEF OneCopy, ReplayOnly
  <2>6. QED BY <2>2, <2>4, <2>5 DEF Once
<1>6. CASE FlushAll
  <2>1. /\ UNCHANGED <<put, wal, old, scan, req, todo, copies>>
        /\ phase = "stopping" /\ buffers' = buffers \ buffers
        /\ taken' = [taken EXCEPT ![Main] = buffers]
    BY <1>6 DEF FlushAll
  <2>2. taken[Main] = {}
    BY <2>1 DEF ControlInv
  <2>3. OneHolder' /\ Unstored' /\ SameHolders
    BY <1>0, <2>1, <2>2, TakeOnce
  <2>4. FewerWaiting /\ FewerLines
    BY <1>0, <2>1, KeepWaiting, SameLines
  <2>5. OwnLines' /\ Unpushed' /\ Retiring'
    BY <1>0, <2>1, <2>3, <2>4, KeepOwnLines, KeepUnpushed, KeepRetiring
  <2>6. OneCopy' /\ ReplayOnly'
    BY <1>0, <2>1 DEF OneCopy, ReplayOnly
  <2>7. QED BY <2>3, <2>5, <2>6 DEF Once
<1>7. CASE Exit
  <2>1. /\ UNCHANGED <<taken, put, wal, req, todo, copies>> /\ phase \in {"final", "replayFlush"}
        /\ taken[Main] = {} /\ buffers' = {} /\ old' = {} /\ scan' = {}
    BY <1>7 DEF Exit, Flushed
  <2>2. \A a \in Actors : taken'[a] = {}
    BY <2>1, NoHandler
  <2>3. \A a \in Actors : put[a] = {}
    BY <2>1, <2>2 DEF TypeOK
  <2>4. FewerLines /\ FewerWaiting
    BY <1>0, <2>1, SameLines, KeepWaiting
  <2>5. Lost
    BY <2>1, <2>2, <2>3, <2>4 DEF Lost
  <2>6. QED BY <2>5, EndOnce
<1>8. CASE Crash
  <2>1. /\ UNCHANGED <<todo, copies>> /\ buffers' = {} /\ old' = {} /\ scan' = {}
        /\ taken' = [a \in Actors |-> {}]
        /\ req' = [r \in Requests |->
                    IF req[r] \in {"new", "acked", "failed"} THEN req[r] ELSE "gone"]
        /\ \A a \in Actors : put[a] = {}
        /\ phase \notin {"replay", "replayed"}
    BY <1>8 DEF Crash
  <2>2. PICK kept \in SUBSET Records :
          wal' = [s \in SegIds |->
                   [wal[s] EXCEPT !.durable = @ \cup (wal[s].pending \cap kept),
                                  !.pending = {}, !.torn = FALSE]]
    BY <1>8 DEF Crash
  <2>3. \A s \in SegIds : wal[s] \in Segment
    BY DEF TypeOK
  <2>4. \A s \in SegIds : wal'[s].exists = wal[s].exists /\ Lines(s)' \subseteq Lines(s)
    BY <2>2, <2>3 DEF Lines
  <2>5. FewerLines
    BY <1>0, <2>4 DEF FewerLines, OwnLines
  <2>6. FewerWaiting
    BY <2>1, KeepWaiting DEF TypeOK
  <2>7. Lost
    BY <2>1, <2>5, <2>6 DEF Lost
  <2>8. QED BY <2>7, EndOnce
<1>9. QED
  BY <1>1, <1>2, <1>3, <1>4, <1>5, <1>6, <1>7, <1>8 DEF MainTask, ReplayFails

\* Records are in two objects only after one of the documented windows: failed
\* PUTs that stored nothing, recreated keys, hang-ups before a PUT, torn lines,
\* restarts and clean replays never store a record twice (wal.rs:19-23).
THEOREM DuplicatesOnlyInWindowsAlways == Spec => []DuplicatesOnlyInWindows
<1> DEFINE J == TypeOK /\ ControlInv /\ DownInv /\ OnceInv
<1>1. Init => J
  <2> SUFFICES ASSUME Init PROVE J
    OBVIOUS
  <2>1. TypeOK /\ ControlInv /\ DownInv
    BY InitTypeControl DEF Init, DownInv
  <2>2. Holders = {} /\ \A s \in SegIds : Lines(s) = {}
    BY DEF Init, Holders, Lines
  <2>3. OneHolder /\ Unstored /\ OneCopy /\ Retiring
    BY <2>2 DEF Init, OneHolder, Unstored, OneCopy, Retiring
  <2>4. OwnLines /\ ReplayOnly
    BY <2>2 DEF Init, OwnLines, ReplayOnly
  <2>5. Unpushed
    BY <2>1, <2>2 DEF Init, Unpushed, Waiting, TypeOK
  <2>6. QED BY <2>1, <2>3, <2>4, <2>5 DEF OnceInv, Once
<1>2. J /\ [Next]_vars => J'
  <2> SUFFICES ASSUME J, [Next]_vars PROVE J'
    OBVIOUS
  <2>1. TypeOK' /\ ControlInv'
    BY StepTypeControl
  <2>2. CASE UNCHANGED holdings
    <3>1. DownInv'
      BY <2>2 DEF holdings, DownInv
    <3>2. ASSUME Once PROVE Once'
      <4>1. OneHolder' /\ Unstored' /\ SameHolders
        BY <2>2, <3>2, DropOnce DEF holdings, Once
      <4>2. FewerWaiting /\ FewerLines
        BY <2>2, <3>2, KeepWaiting, SameLines DEF holdings, Once
      <4>3. QED BY <2>2, <3>2, <4>1, <4>2, CalmOnce DEF holdings
    <3>3. QED BY <2>1, <2>2, <3>1, <3>2 DEF OnceInv, holdings
  <2>3. CASE Moves
    <3>1. DownInv'
      BY <2>3, DownStep
    <3>2. ASSUME ~window' PROVE Once'
      <4>1. ~window
        BY <2>3, <3>2, WindowStays
      <4>2. Once
        BY <4>1 DEF OnceInv
      <4>3. QED
        BY <2>1, <2>3, <3>2, <4>2, HandlerOnce, FlushOnce, SweeperOnce, MainOnce DEF Moves
    <3>3. QED BY <2>1, <3>1, <3>2 DEF OnceInv
  <2>4. QED BY <2>2, <2>3, StepCases
<1>3. J => DuplicatesOnlyInWindows
  BY DEF OnceInv, Once, OneCopy, DuplicatesOnlyInWindows
<1>4. QED
  BY <1>1, <1>2, <1>3, PTL DEF Spec
=============================================================================
