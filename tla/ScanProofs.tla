----------------------------- MODULE ScanProofs -----------------------------
(***************************************************************************)
(* Proofs about Scan, for every set of records and chunks, every command,  *)
(* every frame size, every limit of a batch and every number of failures.  *)
(*                                                                         *)
(* Part 1: what a chunk writer makes of its records.                       *)
(* Part 2: the units in which a chunk is fetched.                          *)
(* Part 3: the lines of a unit, sorted.                                    *)
(* Part 4: a source of the merge.                                          *)
(* Part 5: the inductive invariant of readers, writers and the merge.      *)
(* Part 6: the scan has what it wants, once and in order.                  *)
(* Part 7: the batches of a restore.                                       *)
(* Part 8: what is sent, and what of it CloudWatch refuses.                *)
(***************************************************************************)
EXTENDS Scan, NaturalSets, FiniteSetTheorems, SequenceTheorems, TLAPS

-----------------------------------------------------------------------------
(* Part 1: chunks *)

\* A frame whose bounds hold its records.
SoundFrames ==
  {f \in [recs: Seq(Records), min: Nat, max: Nat] :
     f.recs # << >> /\ \A r \in ToSet(f.recs) : f.min <= Ts[r] /\ Ts[r] <= f.max}

\* The records of a sequence of frames.
RecsIn(fs) == UNION {ToSet(f.recs) : f \in ToSet(fs)}

\* No record is in two places of the frames.
OncePlaced(fs) ==
  \A k, m \in DOMAIN fs : \A i \in DOMAIN fs[k].recs, j \in DOMAIN fs[m].recs :
    fs[k].recs[i] = fs[m].recs[j] => k = m /\ i = j

LEMMA ToSetSeq ==
  ASSUME NEW X, NEW s \in Seq(X)
  PROVE  /\ DOMAIN s = 1 .. Len(s) /\ Len(s) \in Nat
         /\ \A i \in 1 .. Len(s) : s[i] \in X /\ s[i] \in ToSet(s)
         /\ \A x \in ToSet(s) : x \in X /\ \E i \in 1 .. Len(s) : x = s[i]
         /\ s # << >> => Len(s) > 0 /\ s[1] \in ToSet(s)
<1>1. DOMAIN s = 1 .. Len(s) /\ Len(s) \in Nat /\ \A i \in 1 .. Len(s) : s[i] \in X
  BY LenProperties, ElementOfSeq
<1>2. s # << >> => Len(s) > 0
  BY EmptySeq
<1>3. s # << >> => s[1] \in ToSet(s)
  BY <1>1, <1>2 DEF ToSet
<1>4. QED
  BY <1>1, <1>2, <1>3 DEF ToSet

LEMMA ToSetAppend ==
  ASSUME NEW X, NEW s \in Seq(X), NEW x \in X
  PROVE  /\ Append(s, x) \in Seq(X) /\ Len(Append(s, x)) = Len(s) + 1
         /\ DOMAIN Append(s, x) = 1 .. (Len(s) + 1)
         /\ \A i \in 1 .. Len(s) : Append(s, x)[i] = s[i]
         /\ Append(s, x)[Len(s) + 1] = x
         /\ ToSet(Append(s, x)) = ToSet(s) \cup {x}
         /\ Append(s, x) # << >>
<1>1. /\ Append(s, x) \in Seq(X) /\ Len(Append(s, x)) = Len(s) + 1
      /\ \A i \in 1 .. Len(s) : Append(s, x)[i] = s[i]
      /\ Append(s, x)[Len(s) + 1] = x /\ Len(s) \in Nat
  OBVIOUS
<1>2. DOMAIN Append(s, x) = 1 .. (Len(s) + 1) /\ DOMAIN s = 1 .. Len(s)
  BY <1>1, LenProperties
<1> DEFINE t == Append(s, x)
<1>3. ToSet(t) = ToSet(s) \cup {x}
  <2> HIDE DEF t
  <2>1. DOMAIN t = 1 .. (Len(s) + 1) /\ t[Len(s) + 1] = x /\ \A i \in 1 .. Len(s) : t[i] = s[i]
    BY <1>1, <1>2 DEF t
  <2>2. \A i \in DOMAIN t : t[i] \in ToSet(s) \cup {x}
    BY <1>1, <1>2, <2>1 DEF ToSet
  <2>3. \A i \in DOMAIN s : s[i] \in ToSet(t)
    <3>1. \A i \in DOMAIN s : i \in DOMAIN t /\ t[i] = s[i]
      BY <1>1, <1>2, <2>1
    <3>2. QED BY <3>1 DEF ToSet
  <2>4. x \in ToSet(t)
    <3>1. Len(s) + 1 \in DOMAIN t
      BY <1>1, <2>1
    <3>2. QED BY <2>1, <3>1 DEF ToSet
  <2>5. ToSet(t) \subseteq ToSet(s) \cup {x}
    BY <2>2 DEF ToSet
  <2>6. ToSet(s) \subseteq ToSet(t)
    BY <2>3 DEF ToSet
  <2>7. QED BY <2>4, <2>5, <2>6
<1>4. t # << >>
  BY <1>1
<1>5. QED
  BY <1>1, <1>2, <1>3, <1>4

\* The times of some records are finitely many.
LEMMA TimesFinite ==
  ASSUME NEW s \in Seq(Records), s # << >>, NEW times, times = {Ts[r] : r \in ToSet(s)}
  PROVE  times \in SUBSET Nat /\ IsFiniteSet(times) /\ times # {}
<1>1. ToSet(s) \in SUBSET Records /\ ToSet(s) # {}
  BY ToSetSeq
<1>2. IsFiniteSet(ToSet(s))
  BY <1>1, ScanAssumption, FS_Subset DEF ScanAssumption
<1> DEFINE f == [r \in ToSet(s) |-> Ts[r]]
<1>3. f \in Surjection(ToSet(s), times)
  BY DEF Surjection
<1>4. IsFiniteSet(times)
  BY <1>2, <1>3, FS_Surjection
<1>5. \A r \in ToSet(s) : Ts[r] \in Nat
  BY <1>1, ScanAssumption DEF ScanAssumption
<1>6. QED
  BY <1>1, <1>4, <1>5

LEMMA LeastIn ==
  ASSUME NEW S \in SUBSET Nat, S # {}
  PROVE  Least(S) \in S /\ \A y \in S : Least(S) <= y
<1>1. \E x \in S : \A y \in S : x <= y
  BY LeastNatural
<1>2. QED BY <1>1 DEF Least

LEMMA MostIn ==
  ASSUME NEW S \in SUBSET Nat, IsFiniteSet(S), S # {}
  PROVE  Most(S) \in S /\ \A y \in S : y <= Most(S)
<1>1. Max(S) \in S /\ \A y \in S : y <= Max(S)
  BY MaxIn
<1>2. \E x \in S : \A y \in S : y <= x
  BY <1>1
<1>3. QED BY <1>2 DEF Most

\* A frame records the bounds of its records, in whatever order they come.
LEMMA FrameSound ==
  ASSUME NEW s \in Seq(Records), s # << >>
  PROVE  Frame(s) \in SoundFrames /\ Frame(s).recs = s
<1> DEFINE times == {Ts[r] : r \in ToSet(s)}
<1>1. times \in SUBSET Nat /\ IsFiniteSet(times) /\ times # {}
  BY TimesFinite
<1>2. /\ Least(times) \in Nat /\ Most(times) \in Nat
      /\ \A y \in times : Least(times) <= y /\ y <= Most(times)
  <2> HIDE DEF times
  <2>1. Least(times) \in times /\ \A y \in times : Least(times) <= y
    BY <1>1, LeastIn
  <2>2. Most(times) \in times /\ \A y \in times : y <= Most(times)
    BY <1>1, MostIn
  <2>3. QED BY <1>1, <2>1, <2>2
<1>3. Frame(s) = [recs |-> s, min |-> Least(times), max |-> Most(times)]
  BY DEF Frame
<1>4. \A r \in ToSet(s) : Least(times) <= Ts[r] /\ Ts[r] <= Most(times)
  BY <1>2
<1> HIDE DEF times
<1>5. QED
  BY <1>2, <1>3, <1>4 DEF SoundFrames

\* A chunk writer between two records.
Writer == [cut: Seq(SoundFrames), pending: Seq(Records)]

NoWriter == [cut |-> << >>, pending |-> << >>]

LEMMA PushWriter ==
  ASSUME NEW w \in Writer, NEW r \in Records
  PROVE  /\ Push(w, r) \in Writer
         /\ \/ /\ Push(w, r).cut = Append(w.cut, Frame(Append(w.pending, r)))
               /\ Push(w, r).pending = << >>
            \/ Push(w, r).cut = w.cut /\ Push(w, r).pending = Append(w.pending, r)
<1> DEFINE p == Append(w.pending, r)
<1>1. w.pending \in Seq(Records) /\ w.cut \in Seq(SoundFrames)
  BY DEF Writer
<1>2. p \in Seq(Records) /\ p # << >>
  BY <1>1, ToSetAppend
<1>3. Push(w, r) = IF Len(p) >= FrameTarget THEN [cut |-> Append(w.cut, Frame(p)), pending |-> << >>]
                   ELSE [w EXCEPT !.pending = p]
  BY DEF Push
<1> HIDE DEF p
<1>4. Append(w.cut, Frame(p)) \in Seq(SoundFrames)
  BY <1>1, <1>2, FrameSound
<1>5. << >> \in Seq(Records)
  OBVIOUS
<1>6. CASE Len(p) >= FrameTarget
  <2>1. Push(w, r) = [cut |-> Append(w.cut, Frame(p)), pending |-> << >>]
    BY <1>3, <1>6
  <2>2. QED BY <1>4, <1>5, <2>1 DEF Writer, p
<1>7. CASE ~(Len(p) >= FrameTarget)
  <2>1. Push(w, r) = [w EXCEPT !.pending = p]
    BY <1>3, <1>7
  <2>2. Push(w, r) = [cut |-> w.cut, pending |-> p]
    BY <2>1 DEF Writer
  <2>3. QED BY <1>1, <1>2, <2>2 DEF Writer, p
<1>8. QED BY <1>6, <1>7

\* ChunkWriter::push, record after record.
LEMMA PushTrace ==
  ASSUME NEW s \in Seq(Records)
  PROVE  \E a \in [0 .. Len(s) -> Writer] :
           /\ a[0] = NoWriter
           /\ \A i \in 1 .. Len(s) : a[i] = Push(a[i - 1], s[i])
           /\ FoldLeft(Push, [cut |-> << >>, pending |-> << >>], s) = a[Len(s)]
<1> DEFINE n == Len(s)
           Is(h) == h = [t \in SUBSET DOMAIN s |->
                           IF t = {} THEN NoWriter ELSE Push(h[t \ {Max(t)}], s[Max(t)])]
           it == CHOOSE h : Is(h)
           G == [p \in Writer \X (1 .. n) |-> Push(p[1], s[p[2]])]
<1>1. n \in Nat /\ DOMAIN s = 1 .. n /\ \A i \in 1 .. n : s[i] \in Records
  BY ToSetSeq
<1>2. FoldLeft(Push, [cut |-> << >>, pending |-> << >>], s) = it[DOMAIN s]
  BY DEF FoldLeft, MapThenFoldSet, NoWriter
<1>3. NoWriter \in Writer
  BY DEF NoWriter, Writer
<1>4. \A x \in Writer : \A i \in 1 .. n : G[<<x, i>>] = Push(x, s[i]) /\ G[<<x, i>>] \in Writer
  BY <1>1, PushWriter
<1> HIDE DEF n, G
<1>5. StaysIn(G, n, Writer)
  BY <1>4 DEF StaysIn
<1>6. PICK f : IsFold(G, NoWriter, n, f) /\ Unfolds(n, Writer, f)
  BY <1>1, <1>3, <1>5, FoldSolves
<1>7. Is(f)
  BY <1>1, <1>4, <1>6 DEF IsFold, Unfolds
<1>8. Is(it)
  <2> HIDE DEF Is
  <2> QED BY <1>7
<1> HIDE DEF it
<1>9. it[{}] = NoWriter
  BY <1>8
<1>10. ASSUME NEW t \in SUBSET (1 .. n), t # {}, it[t \ {Max(t)}] \in Writer
       PROVE  it[t] = G[<<it[t \ {Max(t)}], Max(t)>>]
  <2>1. Max(t) \in 1 .. n
    BY <1>1, <1>10, MaxOfPart
  <2>2. it[t] = Push(it[t \ {Max(t)}], s[Max(t)])
    BY <1>1, <1>8, <1>10
  <2>3. QED BY <1>4, <1>10, <2>1, <2>2
<1>11. PICK a \in Traces(G, NoWriter, n, Writer) : a[n] = it[1 .. n]
  <2>1. Follows(G, n, Writer, it)
    BY <1>10 DEF Follows
  <2>2. QED BY <1>1, <1>3, <1>5, <1>9, <2>1, FoldSteps
<1>12. a \in [0 .. n -> Writer] /\ a[0] = NoWriter
  BY <1>11 DEF Traces
<1>13. \A i \in 1 .. n : a[i] = Push(a[i - 1], s[i])
  <2>1. \A i \in 1 .. n : a[i - 1] \in Writer
    BY <1>1, <1>12
  <2>2. QED BY <1>4, <1>11, <2>1 DEF Traces
<1>14. QED
  BY <1>1, <1>2, <1>11, <1>12, <1>13 DEF n

\* One more frame of records that are nowhere else.
LEMMA AppendFrame ==
  ASSUME NEW fs \in Seq(SoundFrames), OncePlaced(fs), NEW f \in SoundFrames, IsInjective(f.recs),
         RecsIn(fs) \cap ToSet(f.recs) = {}
  PROVE  /\ Append(fs, f) \in Seq(SoundFrames) /\ OncePlaced(Append(fs, f))
         /\ RecsIn(Append(fs, f)) = RecsIn(fs) \cup ToSet(f.recs)
<1> DEFINE gs == Append(fs, f)
<1>1. /\ gs \in Seq(SoundFrames) /\ DOMAIN gs = 1 .. (Len(fs) + 1)
      /\ \A i \in 1 .. Len(fs) : gs[i] = fs[i]
      /\ gs[Len(fs) + 1] = f /\ ToSet(gs) = ToSet(fs) \cup {f}
      /\ DOMAIN fs = 1 .. Len(fs) /\ Len(fs) \in Nat
  BY ToSetAppend, ToSetSeq
<1> HIDE DEF gs
<1>2. RecsIn(gs) = RecsIn(fs) \cup ToSet(f.recs)
  BY <1>1 DEF RecsIn
<1>3. ASSUME NEW k \in DOMAIN fs, NEW i \in DOMAIN fs[k].recs, NEW j \in DOMAIN f.recs,
             fs[k].recs[i] = f.recs[j]
      PROVE  FALSE
  <2>1. fs[k].recs[i] \in ToSet(fs[k].recs) /\ f.recs[j] \in ToSet(f.recs) /\ fs[k] \in ToSet(fs)
    BY DEF ToSet
  <2>2. fs[k].recs[i] \in RecsIn(fs)
    BY <2>1 DEF RecsIn
  <2>3. QED BY <1>3, <2>1, <2>2
<1>4. ASSUME NEW k \in DOMAIN gs, NEW m \in DOMAIN gs,
             NEW i \in DOMAIN gs[k].recs, NEW j \in DOMAIN gs[m].recs,
             gs[k].recs[i] = gs[m].recs[j]
      PROVE  k = m /\ i = j
  <2>1. CASE k \in DOMAIN fs /\ m \in DOMAIN fs
    BY <1>1, <1>4, <2>1 DEF OncePlaced
  <2>2. CASE k \in DOMAIN fs /\ m = Len(fs) + 1
    BY <1>1, <1>3, <1>4, <2>2
  <2>3. CASE k = Len(fs) + 1 /\ m \in DOMAIN fs
    BY <1>1, <1>3, <1>4, <2>3
  <2>4. CASE k = Len(fs) + 1 /\ m = Len(fs) + 1
    BY <1>1, <1>4, <2>4 DEF IsInjective
  <2>5. k \in DOMAIN fs \/ k = Len(fs) + 1
    BY <1>1
  <2>6. m \in DOMAIN fs \/ m = Len(fs) + 1
    BY <1>1
  <2>7. QED BY <2>1, <2>2, <2>3, <2>4, <2>5, <2>6
<1>5. OncePlaced(gs)
  BY <1>4 DEF OncePlaced
<1>6. QED BY <1>1, <1>2, <1>5 DEF gs

LEMMA AppendOnce ==
  ASSUME NEW X, NEW s \in Seq(X), IsInjective(s), NEW x \in X, x \notin ToSet(s)
  PROVE  IsInjective(Append(s, x))
<1> DEFINE t == Append(s, x)
<1>1. /\ DOMAIN t = 1 .. (Len(s) + 1) /\ DOMAIN s = 1 .. Len(s) /\ Len(s) \in Nat
      /\ \A i \in 1 .. Len(s) : t[i] = s[i] /\ s[i] \in ToSet(s)
      /\ t[Len(s) + 1] = x
  BY ToSetAppend, ToSetSeq
<1> HIDE DEF t
<1>2. \A i, k \in DOMAIN s : s[i] = s[k] => i = k
  BY DEF IsInjective
<1>3. \A i, k \in 1 .. (Len(s) + 1) : t[i] = t[k] => i = k
  BY <1>1, <1>2
<1>4. IsInjective(t)
  BY <1>1, <1>3 DEF IsInjective
<1>5. QED BY <1>4 DEF t

\* A writer holds the records of S, each in one place.
HoldsEach(w, S) ==
  /\ RecsIn(w.cut) \cup ToSet(w.pending) = S
  /\ OncePlaced(w.cut) /\ IsInjective(w.pending)
  /\ RecsIn(w.cut) \cap ToSet(w.pending) = {}

LEMMA PushHolds ==
  ASSUME NEW w \in Writer, NEW S, HoldsEach(w, S), NEW r \in Records, r \notin S
  PROVE  HoldsEach(Push(w, r), S \cup {r})
<1> DEFINE p == Append(w.pending, r)
           v == Push(w, r)
<1>1. w.pending \in Seq(Records) /\ w.cut \in Seq(SoundFrames)
  BY DEF Writer
<1>2. p \in Seq(Records) /\ p # << >> /\ ToSet(p) = ToSet(w.pending) \cup {r}
  BY <1>1, ToSetAppend
<1>3. r \notin ToSet(w.pending) /\ r \notin RecsIn(w.cut)
  BY DEF HoldsEach
<1>4. IsInjective(p)
  <2>1. IsInjective(w.pending)
    BY DEF HoldsEach
  <2>2. QED BY <1>1, <1>3, <2>1, AppendOnce
<1>5. (v.cut = Append(w.cut, Frame(p)) /\ v.pending = << >>) \/ (v.cut = w.cut /\ v.pending = p)
  BY PushWriter
<1> HIDE DEF p, v
<1>6. CASE v.cut = Append(w.cut, Frame(p)) /\ v.pending = << >>
  <2>1. Frame(p) \in SoundFrames /\ Frame(p).recs = p
    BY <1>2, FrameSound
  <2>2. RecsIn(w.cut) \cap ToSet(p) = {}
    BY <1>2, <1>3 DEF HoldsEach
  <2>3. OncePlaced(v.cut) /\ RecsIn(v.cut) = RecsIn(w.cut) \cup ToSet(p)
    BY <1>1, <1>4, <1>6, <2>1, <2>2, AppendFrame DEF HoldsEach
  <2>4. ToSet(v.pending) = {} /\ IsInjective(v.pending)
    BY <1>6 DEF ToSet, IsInjective
  <2>5. QED BY <1>2, <2>3, <2>4 DEF HoldsEach, v
<1>7. CASE v.cut = w.cut /\ v.pending = p
  BY <1>2, <1>3, <1>4, <1>7 DEF HoldsEach, v
<1>8. QED BY <1>5, <1>6, <1>7

\* put_chunk writes each of its records once, in frames with true bounds.
LEMMA EncodeChunk ==
  ASSUME NEW s \in Seq(Records), IsInjective(s)
  PROVE  LET fs == Encode(FoldLeft(Push, [cut |-> << >>, pending |-> << >>], s))
         IN fs \in Seq(SoundFrames) /\ OncePlaced(fs) /\ RecsIn(fs) = ToSet(s)
<1> DEFINE n == Len(s)
<1>1. PICK a \in [0 .. n -> Writer] :
        /\ a[0] = NoWriter
        /\ \A i \in 1 .. n : a[i] = Push(a[i - 1], s[i])
        /\ FoldLeft(Push, [cut |-> << >>, pending |-> << >>], s) = a[n]
  BY PushTrace
<1>2. n \in Nat /\ DOMAIN s = 1 .. n /\ \A i \in 1 .. n : s[i] \in Records
  BY ToSetSeq
<1> HIDE DEF n
<1> DEFINE P == {i \in Nat : HoldsEach(a[i], {s[k] : k \in 1 .. i})}
<1>3. 0 \in P
  <2>1. {s[k] : k \in 1 .. 0} = {}
    OBVIOUS
  <2>2. HoldsEach(NoWriter, {})
    BY DEF HoldsEach, NoWriter, RecsIn, ToSet, OncePlaced, IsInjective
  <2>3. QED BY <1>1, <2>1, <2>2
<1>4. ASSUME NEW i \in 1 .. n, i - 1 \in P PROVE i \in P
  <2> DEFINE S == {s[k] : k \in 1 .. (i - 1)}
  <2>1. i \in Nat /\ i - 1 \in 0 .. n /\ a[i - 1] \in Writer /\ s[i] \in Records
    BY <1>1, <1>2
  <2>2. HoldsEach(a[i - 1], S)
    BY <1>4
  <2>3. s[i] \notin S
    BY <1>2, <2>1 DEF IsInjective
  <2>4. {s[k] : k \in 1 .. i} = S \cup {s[i]}
    <3>1. 1 .. i = (1 .. (i - 1)) \cup {i}
      BY <2>1
    <3>2. QED BY <3>1
  <2> HIDE DEF S
  <2>5. HoldsEach(Push(a[i - 1], s[i]), S \cup {s[i]})
    BY <2>1, <2>2, <2>3, PushHolds
  <2>6. QED BY <1>1, <2>1, <2>4, <2>5
<1>5. n \in P
  <2> HIDE DEF P
  <2>1. \A i \in 0 .. n : i \in P
    BY <1>2, <1>3, <1>4, UpTo
  <2>2. QED BY <1>2, <2>1
<1> DEFINE w == a[n]
           fs == Encode(w)
<1>6. w \in Writer /\ HoldsEach(w, ToSet(s))
  <2>1. {s[k] : k \in 1 .. n} = ToSet(s)
    BY <1>2 DEF ToSet
  <2>2. QED BY <1>1, <1>2, <1>5, <2>1
<1> HIDE DEF w
<1>7. w.pending \in Seq(Records) /\ w.cut \in Seq(SoundFrames)
  BY <1>6 DEF Writer
<1>8. CASE w.pending = << >>
  <2>1. fs = w.cut /\ ToSet(w.pending) = {}
    BY <1>8 DEF Encode, ToSet
  <2>2. fs \in Seq(SoundFrames) /\ OncePlaced(fs) /\ RecsIn(fs) = ToSet(s)
    BY <1>6, <1>7, <2>1 DEF HoldsEach
  <2>3. QED BY <1>1, <2>2 DEF w
<1>9. CASE w.pending # << >>
  <2>1. Frame(w.pending) \in SoundFrames /\ Frame(w.pending).recs = w.pending
    BY <1>7, <1>9, FrameSound
  <2>2. fs = Append(w.cut, Frame(w.pending))
    BY <1>9 DEF Encode
  <2>3. fs \in Seq(SoundFrames) /\ OncePlaced(fs) /\ RecsIn(fs) = RecsIn(w.cut) \cup ToSet(w.pending)
    BY <1>6, <1>7, <2>1, <2>2, AppendFrame DEF HoldsEach
  <2>4. QED BY <1>1, <1>6, <2>3 DEF w, HoldsEach
<1>10. QED BY <1>8, <1>9

-----------------------------------------------------------------------------
(* Part 2: the fetch units of a chunk *)

LEMMA SeqOfFunction ==
  ASSUME NEW S, NEW n \in Nat, NEW s \in [1 .. n -> S]
  PROVE  s \in Seq(S) /\ Len(s) = n
  OBVIOUS

\* A listing of a finite set holds each of its elements once.
LEMMA ListingHolds ==
  ASSUME NEW S, IsFiniteSet(S), NEW s \in SetToSeqs(S)
  PROVE  s \in Seq(S) /\ IsInjective(s) /\ ToSet(s) = S
<1> DEFINE n == Cardinality(S)
<1>1. n \in Nat
  BY FS_CardinalityType
<1>2. s \in [1 .. n -> S] /\ \A i, k \in 1 .. n : i # k => s[i] # s[k]
  BY DEF SetToSeqs
<1>3. IsFiniteSet(1 .. n) /\ Cardinality(1 .. n) = n
  <2> HIDE DEF n
  <2> QED BY <1>1, FS_Interval
<1>4. s \in Surjection(1 .. n, S)
  <2>1. s \in Injection(1 .. n, S)
    BY <1>2 DEF Injection, IsInjective
  <2>2. QED BY <1>3, <2>1, FS_Injection
<1>5. s \in Seq(S)
  BY <1>1, <1>2, SeqOfFunction
<1>6. ToSet(s) = S
  BY <1>2, <1>4 DEF ToSet, Surjection
<1>7. QED BY <1>2, <1>5, <1>6 DEF IsInjective

\* Wanted, for command k.
WantedBy(k, r) == k.from <= Ts[r] /\ Ts[r] < k.to /\ (k.mode = "grep" => r \in Matches)

\* The records of a fetch unit: some frames of fs.
UnitRecs(fs, u) == UNION {ToSet(fs[i].recs) : i \in ToSet(u)}

\* No frame is in two places of the units, and frames of a later unit begin after
\* those of an earlier one have ended.
GoodUnits(fs, us) ==
  /\ us \in Seq(Seq(DOMAIN fs))
  /\ \A k \in DOMAIN us : IsInjective(us[k])
  /\ \A k, m \in DOMAIN us : k < m =>
       \A i \in ToSet(us[k]), j \in ToSet(us[m]) : fs[i].max < fs[j].min

\* What command k has still to get from the units.
Left(k, fs, us) == {r \in UNION {UnitRecs(fs, us[m]) : m \in DOMAIN us} : WantedBy(k, r)}

\* The order of frames_overlapping is total.
LEMMA SpansListed ==
  ASSUME NEW c, frames[c] \in Seq(SoundFrames)
  PROVE  LET t == SortedSpans(c)
             fs == frames[c]
         IN /\ t \in Seq(DOMAIN fs) /\ IsInjective(t)
            /\ ToSet(t) = {i \in DOMAIN fs : Overlaps(fs[i])}
            /\ \A i, k \in DOMAIN t : i < k => fs[t[i]].min <= fs[t[k]].min
<1> DEFINE fs == frames[c]
           t == SortedSpans(c)
           S == {i \in DOMAIN fs : Overlaps(fs[i])}
           B(i, k) == fs[i].min < fs[k].min \/ (fs[i].min = fs[k].min /\ i < k)
           R == {p \in S \X S : B(p[1], p[2])}
<1>1. DOMAIN fs = 1 .. Len(fs) /\ Len(fs) \in Nat /\ \A i \in DOMAIN fs : fs[i].min \in Nat
  BY ToSetSeq DEF SoundFrames
<1>2. IsFiniteSet(S)
  <2>1. IsFiniteSet(DOMAIN fs)
    BY <1>1, FS_Interval
  <2>2. S \in SUBSET DOMAIN fs
    OBVIOUS
  <2> HIDE DEF S
  <2> QED BY <2>1, <2>2, FS_Subset
<1>3. \A i, k \in S : <<i, k>> \in R <=> B(i, k)
  OBVIOUS
<1>4. \A i \in S : i \in Nat /\ fs[i].min \in Nat
  BY <1>1
<1>5. t = CHOOSE s \in SetToSeqs(S) : \A i, k \in DOMAIN s : i < k => B(s[i], s[k])
  BY DEF SortedSpans, InOrder
<1> HIDE DEF S, R, fs, t
<1>6. Orders(R, S)
  <2>1. \A i \in S : <<i, i>> \notin R
    BY <1>3, <1>4
  <2>2. \A i, k \in S : i # k => <<i, k>> \in R \/ <<k, i>> \in R
    BY <1>3, <1>4
  <2>3. \A i, j, k \in S : <<i, j>> \in R /\ <<j, k>> \in R => <<i, k>> \in R
    BY <1>3, <1>4
  <2>4. QED BY <2>1, <2>2, <2>3 DEF Orders
<1>7. \E s \in SetToSeqs(S) : \A i, k \in DOMAIN s : i < k => B(s[i], s[k])
  <2>1. PICK s \in [1 .. Cardinality(S) -> S] :
           /\ \A i, k \in 1 .. Cardinality(S) : i # k => s[i] # s[k]
           /\ \A i, k \in 1 .. Cardinality(S) : i < k => <<s[i], s[k]>> \in R
    BY <1>2, <1>6, ListInOrder
  <2>2. s \in SetToSeqs(S)
    BY <2>1 DEF SetToSeqs
  <2>3. \A i, k \in DOMAIN s : i < k => <<s[i], s[k]>> \in R /\ s[i] \in S /\ s[k] \in S
    BY <2>1
  <2> HIDE DEF B
  <2>4. \A i, k \in DOMAIN s : i < k => B(s[i], s[k])
    BY <1>3, <2>3
  <2>5. QED BY <2>2, <2>4
<1>8. t \in SetToSeqs(S) /\ \A i, k \in DOMAIN t : i < k => B(t[i], t[k])
  <2> HIDE DEF B
  <2> QED BY <1>5, <1>7
<1>9. t \in Seq(S) /\ IsInjective(t) /\ ToSet(t) = S
  BY <1>2, <1>8, ListingHolds
<1>10. \A i \in DOMAIN t : t[i] \in S
  BY <1>9, ToSetSeq
<1>11. \A i, k \in DOMAIN t : i < k => fs[t[i]].min <= fs[t[k]].min
  BY <1>4, <1>8, <1>10
<1>12. t \in Seq(DOMAIN fs)
  <2>1. S \subseteq DOMAIN fs
    BY DEF S
  <2>2. QED BY <1>9, <2>1, SeqMonotonic
<1>13. QED
  BY <1>9, <1>11, <1>12 DEF t, fs, S

\* Clusters of frames of a chunk with n frames.
ClustersOf(n) == Seq([spans: Seq(1 .. n), max: Nat])

LEMMA AddSpanCases ==
  ASSUME NEW c, frames[c] \in Seq(SoundFrames), NEW n, n = Len(frames[c]),
         NEW cs \in ClustersOf(n), NEW i \in 1 .. n
  PROVE  LET v == AddSpan(c, cs, i)
             f == frames[c][i]
             m == Len(cs)
         IN /\ v \in ClustersOf(n)
            /\ \/ /\ m > 0 /\ f.min <= cs[m].max
                  /\ Len(v) = m /\ \A k \in 1 .. (m - 1) : v[k] = cs[k]
                  /\ v[m].spans = Append(cs[m].spans, i)
                  /\ v[m].max = IF f.max > cs[m].max THEN f.max ELSE cs[m].max
               \/ /\ m > 0 => ~(f.min <= cs[m].max)
                  /\ v = Append(cs, [spans |-> <<i>>, max |-> f.max])
<1> DEFINE fs == frames[c]
           f == fs[i]
           m == Len(cs)
           v == AddSpan(c, cs, i)
           e == [spans |-> Append(cs[m].spans, i), max |-> IF f.max > cs[m].max THEN f.max ELSE cs[m].max]
<1>1. f.max \in Nat /\ f.min \in Nat /\ m \in Nat /\ DOMAIN cs = 1 .. m
  BY ToSetSeq DEF SoundFrames, ClustersOf
<1>2. CASE m > 0 /\ Joins(cs[m], f)
  <2>1. m \in 1 .. m
    BY <1>1, <1>2
  <2>2. cs[m].spans \in Seq(1 .. n) /\ cs[m].max \in Nat
    <3>1. cs[m] \in [spans: Seq(1 .. n), max: Nat]
      BY <2>1, ElementOfSeq DEF ClustersOf
    <3> HIDE DEF m
    <3> QED BY <3>1
  <2>3. e \in [spans: Seq(1 .. n), max: Nat]
    BY <1>1, <2>2
  <2>4. v = [cs EXCEPT ![m] = e]
    BY <1>2, <2>1, <1>1 DEF AddSpan
  <2> HIDE DEF v, e
  <2>5. v \in ClustersOf(n) /\ Len(v) = m /\ v[m] = e /\ \A k \in 1 .. m : k # m => v[k] = cs[k]
    BY <2>1, <2>3, <2>4, ExceptSeq DEF ClustersOf
  <2>6. \A k \in 1 .. (m - 1) : v[k] = cs[k]
    <3> HIDE DEF m
    <3>1. \A k \in 1 .. (m - 1) : k \in 1 .. m /\ k # m
      BY <1>1
    <3>2. QED BY <2>5, <3>1
  <2>7. f.min <= cs[m].max
    BY <1>2 DEF Joins
  <2>8. QED BY <1>2, <2>5, <2>6, <2>7 DEF v, e
<1>3. CASE ~(m > 0 /\ Joins(cs[m], f))
  <2>1. v = Append(cs, [spans |-> <<i>>, max |-> f.max])
    BY <1>3 DEF AddSpan
  <2>2. [spans |-> <<i>>, max |-> f.max] \in [spans: Seq(1 .. n), max: Nat]
    BY <1>1
  <2> HIDE DEF v
  <2>3. v \in ClustersOf(n)
    BY <2>1, <2>2 DEF ClustersOf
  <2>4. m > 0 => ~(f.min <= cs[m].max)
    BY <1>3 DEF Joins
  <2>5. QED BY <2>1, <2>3, <2>4 DEF v
<1>4. QED BY <1>2, <1>3

ClusterSpans(c, s) == FoldLeft(LAMBDA cs, i : AddSpan(c, cs, i), << >>, s)

\* cluster_spans, frame after frame.
LEMMA SpanTrace ==
  ASSUME NEW c, frames[c] \in Seq(SoundFrames), NEW m, m = Len(frames[c]), NEW s \in Seq(1 .. m)
  PROVE  \E a \in [0 .. Len(s) -> ClustersOf(m)] :
           /\ a[0] = << >>
           /\ \A i \in 1 .. Len(s) : a[i] = AddSpan(c, a[i - 1], s[i])
           /\ ClusterSpans(c, s) = a[Len(s)]
<1> DEFINE n == Len(s)
           W == ClustersOf(m)
           Is(h) == h = [t \in SUBSET DOMAIN s |->
                           IF t = {} THEN << >> ELSE AddSpan(c, h[t \ {Max(t)}], s[Max(t)])]
           it == CHOOSE h : Is(h)
           G == [p \in W \X (1 .. n) |-> AddSpan(c, p[1], s[p[2]])]
<1>1. n \in Nat /\ DOMAIN s = 1 .. n /\ \A i \in 1 .. n : s[i] \in 1 .. m
  BY ToSetSeq
<1>2. ClusterSpans(c, s) = it[DOMAIN s]
  BY DEF ClusterSpans, FoldLeft, MapThenFoldSet
<1>3. << >> \in W
  BY DEF ClustersOf
<1>4. \A x \in W : \A i \in 1 .. n : G[<<x, i>>] = AddSpan(c, x, s[i]) /\ G[<<x, i>>] \in W
  BY <1>1, AddSpanCases
<1> HIDE DEF n, G, W
<1>5. StaysIn(G, n, W)
  BY <1>4 DEF StaysIn
<1>6. PICK f : IsFold(G, << >>, n, f) /\ Unfolds(n, W, f)
  BY <1>1, <1>3, <1>5, FoldSolves
<1>7. Is(f)
  BY <1>1, <1>4, <1>6 DEF IsFold, Unfolds
<1>8. Is(it)
  <2> HIDE DEF Is
  <2> QED BY <1>7
<1> HIDE DEF it
<1>9. it[{}] = << >>
  BY <1>8
<1>10. ASSUME NEW t \in SUBSET (1 .. n), t # {}, it[t \ {Max(t)}] \in W
       PROVE  it[t] = G[<<it[t \ {Max(t)}], Max(t)>>]
  <2>1. Max(t) \in 1 .. n
    BY <1>1, <1>10, MaxOfPart
  <2>2. it[t] = AddSpan(c, it[t \ {Max(t)}], s[Max(t)])
    BY <1>1, <1>8, <1>10
  <2>3. QED BY <1>4, <1>10, <2>1, <2>2
<1>11. PICK a \in Traces(G, << >>, n, W) : a[n] = it[1 .. n]
  <2>1. Follows(G, n, W, it)
    BY <1>10 DEF Follows
  <2>2. QED BY <1>1, <1>3, <1>5, <1>9, <2>1, FoldSteps
<1>12. a \in [0 .. n -> W] /\ a[0] = << >>
  BY <1>11 DEF Traces
<1>13. \A i \in 1 .. n : a[i] = AddSpan(c, a[i - 1], s[i])
  <2>1. \A i \in 1 .. n : a[i - 1] \in W
    BY <1>1, <1>12
  <2>2. QED BY <1>4, <1>11, <2>1 DEF Traces
<1>14. QED
  BY <1>1, <1>2, <1>11, <1>12, <1>13 DEF n, W

\* Clusters of the frames S: each ends before the frames of the later ones begin.
Clustered(fs, cs, S) ==
  /\ \A k \in DOMAIN cs : cs[k].spans # << >> /\ IsInjective(cs[k].spans)
  /\ UNION {ToSet(cs[k].spans) : k \in DOMAIN cs} = S
  /\ \A k \in DOMAIN cs : \A j \in ToSet(cs[k].spans) : fs[j].max <= cs[k].max
  /\ \A k, l \in DOMAIN cs : k < l => \A j \in ToSet(cs[l].spans) : cs[k].max < fs[j].min

\* Frames that come in the order of their least times keep it so.
LEMMA AddSpanClustered ==
  ASSUME NEW c, frames[c] \in Seq(SoundFrames), NEW n, n = Len(frames[c]),
         NEW cs \in ClustersOf(n), NEW S, Clustered(frames[c], cs, S),
         NEW i \in 1 .. n, i \notin S, \A j \in S : frames[c][j].min <= frames[c][i].min
  PROVE  Clustered(frames[c], AddSpan(c, cs, i), S \cup {i})
<1> DEFINE fs == frames[c]
           m == Len(cs)
           v == AddSpan(c, cs, i)
<1>1. /\ v \in ClustersOf(n)
      /\ \/ /\ m > 0 /\ fs[i].min <= cs[m].max
            /\ Len(v) = m /\ \A k \in 1 .. (m - 1) : v[k] = cs[k]
            /\ v[m].spans = Append(cs[m].spans, i)
            /\ v[m].max = IF fs[i].max > cs[m].max THEN fs[i].max ELSE cs[m].max
         \/ /\ m > 0 => ~(fs[i].min <= cs[m].max)
            /\ v = Append(cs, [spans |-> <<i>>, max |-> fs[i].max])
  BY AddSpanCases
<1>2. \A k \in 1 .. n : fs[k].min \in Nat /\ fs[k].max \in Nat
  <2>1. \A k \in 1 .. n : fs[k] \in SoundFrames
    BY ToSetSeq
  <2>2. QED BY <2>1 DEF SoundFrames
<1>3. /\ m \in Nat /\ DOMAIN cs = 1 .. m /\ DOMAIN v = 1 .. Len(v) /\ Len(v) \in Nat
      /\ \A k \in 1 .. m : cs[k] \in [spans: Seq(1 .. n), max: Nat]
  <2> HIDE DEF v
  <2>1. m \in Nat /\ DOMAIN cs = 1 .. m /\ \A k \in 1 .. m : cs[k] \in [spans: Seq(1 .. n), max: Nat]
    <3> DEFINE X == [spans: Seq(1 .. n), max: Nat]
    <3>1. cs \in Seq(X)
      BY DEF ClustersOf
    <3> HIDE DEF X
    <3>2. m \in Nat /\ DOMAIN cs = 1 .. m /\ \A k \in 1 .. m : cs[k] \in X
      BY <3>1, ToSetSeq
    <3>3. QED BY <3>2 DEF X
  <2>2. DOMAIN v = 1 .. Len(v) /\ Len(v) \in Nat
    BY <1>1, LenProperties DEF ClustersOf
  <2>3. QED BY <2>1, <2>2
<1> HIDE DEF m, v, fs
<1>4. \A k \in 1 .. m : /\ cs[k].spans \in Seq(1 .. n) /\ cs[k].max \in Nat
                        /\ cs[k].spans # << >> /\ IsInjective(cs[k].spans)
                        /\ ToSet(cs[k].spans) \subseteq S /\ ToSet(cs[k].spans) \subseteq 1 .. n
  <2>1. \A k \in 1 .. m : cs[k].spans \in Seq(1 .. n) /\ cs[k].max \in Nat
    BY <1>3
  <2>2. \A k \in 1 .. m : ToSet(cs[k].spans) \subseteq 1 .. n
    BY <2>1, ToSetSeq
  <2>3. QED BY <1>3, <2>1, <2>2 DEF Clustered, fs
<1>5. \A k \in 1 .. m : \E j \in ToSet(cs[k].spans) : TRUE
  BY <1>4, ToSetSeq
<1>6. /\ \A k \in 1 .. m : \A j \in ToSet(cs[k].spans) : fs[j].max <= cs[k].max
      /\ \A k, l \in 1 .. m : k < l => \A j \in ToSet(cs[l].spans) : cs[k].max < fs[j].min
      /\ UNION {ToSet(cs[k].spans) : k \in 1 .. m} = S
      /\ \A j \in S : fs[j].min <= fs[i].min
  BY <1>3 DEF Clustered, fs
<1>7. \A k \in 1 .. m : k < m => cs[k].max < fs[i].min
  <2> SUFFICES ASSUME NEW k \in 1 .. m, k < m PROVE cs[k].max < fs[i].min
    OBVIOUS
  <2>1. m \in 1 .. m
    BY <1>3
  <2>2. PICK j \in ToSet(cs[m].spans) : TRUE
    BY <1>5, <2>1
  <2>3. j \in 1 .. n /\ j \in S
    BY <1>4, <2>1, <2>2
  <2>4. cs[k].max < fs[j].min /\ fs[j].min <= fs[i].min /\ cs[k].max \in Nat
    BY <1>4, <1>6, <2>1, <2>2, <2>3
  <2>5. QED BY <1>2, <2>3, <2>4
<1>8. CASE /\ m > 0 /\ fs[i].min <= cs[m].max
           /\ Len(v) = m /\ \A k \in 1 .. (m - 1) : v[k] = cs[k]
           /\ v[m].spans = Append(cs[m].spans, i)
           /\ v[m].max = IF fs[i].max > cs[m].max THEN fs[i].max ELSE cs[m].max
  <2>1. m \in 1 .. m /\ \A k \in 1 .. m : k # m => v[k] = cs[k]
    BY <1>3, <1>8
  <2>2. i \notin ToSet(cs[m].spans)
    BY <1>4, <2>1
  <2>3. ToSet(v[m].spans) = ToSet(cs[m].spans) \cup {i} /\ v[m].spans # << >>
    <3>1. cs[m].spans \in Seq(1 .. n)
      BY <1>4, <2>1
    <3>2. \A q \in Seq(1 .. n) : ToSet(Append(q, i)) = ToSet(q) \cup {i} /\ Append(q, i) # << >>
      BY ToSetAppend
    <3>3. QED BY <1>8, <3>1, <3>2
  <2>4. IsInjective(v[m].spans)
    BY <1>4, <1>8, <2>1, <2>2, AppendOnce
  <2>5. v[m].max \in Nat /\ cs[m].max <= v[m].max /\ fs[i].max <= v[m].max
    BY <1>2, <1>4, <1>8, <2>1
  <2>6. \A k \in 1 .. m : v[k].spans # << >> /\ IsInjective(v[k].spans)
    BY <1>4, <2>1, <2>3, <2>4
  <2>7. \A k \in 1 .. m : \A j \in ToSet(v[k].spans) : fs[j].max <= v[k].max
    <3>1. \A j \in ToSet(cs[m].spans) : fs[j].max <= v[m].max
      <4>1. \A j \in ToSet(cs[m].spans) : fs[j].max \in Nat /\ fs[j].max <= cs[m].max
        BY <1>2, <1>4, <1>6, <2>1
      <4>2. cs[m].max \in Nat
        BY <1>4, <2>1
      <4>3. QED BY <2>5, <4>1, <4>2
    <3>2. \A j \in ToSet(v[m].spans) : fs[j].max <= v[m].max
      BY <2>3, <2>5, <3>1
    <3>3. QED BY <1>6, <2>1, <3>2
  <2>8. \A k, l \in 1 .. m : k < l => \A j \in ToSet(v[l].spans) : v[k].max < fs[j].min
    <3> SUFFICES ASSUME NEW k \in 1 .. m, NEW l \in 1 .. m, k < l, NEW j \in ToSet(v[l].spans)
                 PROVE  v[k].max < fs[j].min
      OBVIOUS
    <3>1. k # m /\ v[k] = cs[k] /\ k < m
      BY <1>3, <2>1
    <3>2. CASE l # m
      BY <1>6, <2>1, <3>1, <3>2
    <3>3. CASE l = m /\ j = i
      BY <1>7, <3>1, <3>3
    <3>4. CASE l = m /\ j # i
      BY <1>6, <2>1, <2>3, <3>1, <3>4
    <3>5. QED BY <3>2, <3>3, <3>4
  <2>9. UNION {ToSet(v[k].spans) : k \in 1 .. m} = S \cup {i}
    BY <1>6, <2>1, <2>3
  <2>10. QED BY <1>3, <1>8, <2>6, <2>7, <2>8, <2>9 DEF Clustered, fs, v
<1>9. CASE /\ m > 0 => ~(fs[i].min <= cs[m].max)
           /\ v = Append(cs, [spans |-> <<i>>, max |-> fs[i].max])
  <2> DEFINE e == [spans |-> <<i>>, max |-> fs[i].max]
  <2>1. e \in [spans: Seq(1 .. n), max: Nat]
    BY <1>2
  <2>2. e.spans = <<i>> /\ e.max = fs[i].max /\ ToSet(<<i>>) = {i} /\ IsInjective(<<i>>) /\ <<i>> # << >>
    BY DEF ToSet, IsInjective
  <2>3. /\ Len(v) = m + 1 /\ \A k \in 1 .. m : v[k] = cs[k]
        /\ v[m + 1] = e
    <3> HIDE DEF e
    <3> QED BY <1>9, <2>1, ToSetAppend DEF ClustersOf, m, e
  <2> HIDE DEF e
  <2>4. \A k \in 1 .. m : cs[k].max < fs[i].min
    <3>1. CASE m = 0
      BY <3>1
    <3>2. CASE m > 0
      <4>1. m \in 1 .. m /\ cs[m].max \in Nat /\ fs[i].min \in Nat
        BY <1>2, <1>3, <1>4, <3>2
      <4>2. cs[m].max < fs[i].min
        BY <1>9, <3>2, <4>1
      <4>3. QED BY <1>3, <1>7, <4>2
    <3>3. QED BY <1>3, <3>1, <3>2
  <2>5. \A k \in 1 .. (m + 1) : k = m + 1 \/ k \in 1 .. m
    BY <1>3
  <2>6. \A k \in 1 .. (m + 1) : v[k].spans # << >> /\ IsInjective(v[k].spans)
    BY <1>4, <2>2, <2>3, <2>5
  <2>7. \A k \in 1 .. (m + 1) : \A j \in ToSet(v[k].spans) : fs[j].max <= v[k].max
    <3>1. fs[i].max <= fs[i].max
      BY <1>2
    <3>2. QED BY <1>6, <2>2, <2>3, <2>5, <3>1
  <2>8. \A k, l \in 1 .. (m + 1) : k < l => \A j \in ToSet(v[l].spans) : v[k].max < fs[j].min
    <3> SUFFICES ASSUME NEW k \in 1 .. (m + 1), NEW l \in 1 .. (m + 1), k < l, NEW j \in ToSet(v[l].spans)
                 PROVE  v[k].max < fs[j].min
      OBVIOUS
    <3>1. k \in 1 .. m /\ v[k] = cs[k]
      BY <1>3, <2>3
    <3>2. CASE l = m + 1
      BY <2>2, <2>3, <2>4, <3>1, <3>2
    <3>3. CASE l \in 1 .. m
      BY <1>6, <2>3, <3>1, <3>3
    <3>4. QED BY <2>5, <3>2, <3>3
  <2>9. UNION {ToSet(v[k].spans) : k \in 1 .. (m + 1)} = S \cup {i}
    <3>1. m + 1 \in 1 .. (m + 1) /\ \A k \in 1 .. m : k \in 1 .. (m + 1)
      BY <1>3
    <3>2. v[m + 1].spans = <<i>> /\ ToSet(v[m + 1].spans) = {i}
      BY <2>2, <2>3
    <3>3. \A k \in 1 .. (m + 1) : ToSet(v[k].spans) \subseteq S \cup {i}
      <4>1. \A k \in 1 .. m : ToSet(v[k].spans) \subseteq S
        BY <1>6, <2>3
      <4>2. QED BY <2>5, <3>2, <4>1
    <3>4. \A j \in S : \E k \in 1 .. (m + 1) : j \in ToSet(v[k].spans)
      <4>1. \A j \in S : \E k \in 1 .. m : j \in ToSet(v[k].spans)
        BY <1>6, <2>3
      <4>2. QED BY <3>1, <4>1
    <3>5. \E k \in 1 .. (m + 1) : i \in ToSet(v[k].spans)
      BY <3>1, <3>2
    <3>6. QED BY <3>3, <3>4, <3>5
  <2>10. QED BY <1>3, <2>3, <2>6, <2>7, <2>8, <2>9 DEF Clustered, fs, v
<1>10. QED BY <1>1, <1>8, <1>9

\* cluster_spans of the frames that overlap the range.
LEMMA SpansClustered ==
  ASSUME NEW c, frames[c] \in Seq(SoundFrames)
  PROVE  LET cs == ClusterSpans(c, SortedSpans(c))
         IN /\ cs \in ClustersOf(Len(frames[c]))
            /\ Clustered(frames[c], cs, {i \in DOMAIN frames[c] : Overlaps(frames[c][i])})
<1> DEFINE fs == frames[c]
           m == Len(fs)
           t == SortedSpans(c)
           n == Len(t)
           cs == ClusterSpans(c, t)
<1>1. m \in Nat /\ DOMAIN fs = 1 .. m
  BY ToSetSeq
<1>2. /\ t \in Seq(1 .. m) /\ IsInjective(t) /\ ToSet(t) = {i \in DOMAIN fs : Overlaps(fs[i])}
      /\ \A i, k \in DOMAIN t : i < k => fs[t[i]].min <= fs[t[k]].min
  BY <1>1, SpansListed
<1> HIDE DEF t
<1>3. n \in Nat /\ DOMAIN t = 1 .. n /\ \A i \in 1 .. n : t[i] \in 1 .. m
  BY <1>2, ToSetSeq
<1>4. PICK a \in [0 .. n -> ClustersOf(m)] :
        /\ a[0] = << >>
        /\ \A i \in 1 .. n : a[i] = AddSpan(c, a[i - 1], t[i])
        /\ cs = a[n]
  BY <1>2, SpanTrace
<1> HIDE DEF n, cs
<1> DEFINE P == {i \in Nat : Clustered(fs, a[i], {t[k] : k \in 1 .. i})}
<1>5. 0 \in P
  <2>1. {t[k] : k \in 1 .. 0} = {}
    OBVIOUS
  <2>2. Clustered(fs, << >>, {})
    BY DEF Clustered
  <2>3. QED BY <1>4, <2>1, <2>2
<1>6. ASSUME NEW i \in 1 .. n, i - 1 \in P PROVE i \in P
  <2> DEFINE S == {t[k] : k \in 1 .. (i - 1)}
  <2>1. i \in Nat /\ i - 1 \in 0 .. n /\ a[i - 1] \in ClustersOf(m) /\ t[i] \in 1 .. m
    BY <1>3, <1>4
  <2>2. Clustered(fs, a[i - 1], S)
    BY <1>6
  <2>3. \A k \in 1 .. (i - 1) : k \in DOMAIN t /\ i \in DOMAIN t /\ k < i
    BY <1>3, <2>1
  <2>4. t[i] \notin S
    BY <1>2, <2>3 DEF IsInjective
  <2>5. \A j \in S : fs[j].min <= fs[t[i]].min
    BY <1>2, <2>3
  <2>6. {t[k] : k \in 1 .. i} = S \cup {t[i]}
    <3>1. 1 .. i = (1 .. (i - 1)) \cup {i}
      BY <2>1
    <3>2. QED BY <3>1
  <2> HIDE DEF S
  <2>7. Clustered(fs, AddSpan(c, a[i - 1], t[i]), S \cup {t[i]})
    BY <2>1, <2>2, <2>4, <2>5, AddSpanClustered
  <2>8. QED BY <1>4, <2>1, <2>6, <2>7
<1>7. n \in P
  <2> HIDE DEF P
  <2>1. \A i \in 0 .. n : i \in P
    BY <1>3, <1>5, <1>6, UpTo
  <2>2. QED BY <1>3, <2>1
<1>8. {t[k] : k \in 1 .. n} = ToSet(t)
  BY <1>3 DEF ToSet
<1>9. cs \in ClustersOf(m)
  BY <1>3, <1>4
<1>10. QED
  BY <1>2, <1>4, <1>7, <1>8, <1>9 DEF cs, t

\* Every record that is wanted is in a unit that is fetched, and units come in the
\* order of time, with the sidecars and without.
LEMMA UnitsGood ==
  ASSUME NEW c, frames[c] \in Seq(SoundFrames), cmd.from \in Nat, cmd.to \in Nat
  PROVE  /\ GoodUnits(frames[c], Units(c))
         /\ \A r \in RecsIn(frames[c]) : WantedBy(cmd, r) => r \in Left(cmd, frames[c], Units(c))
<1> DEFINE fs == frames[c]
           m == Len(fs)
           us == Units(c)
<1>1. m \in Nat /\ DOMAIN fs = 1 .. m /\ \A i \in 1 .. m : fs[i] \in SoundFrames
  BY ToSetSeq
<1>2. ASSUME NEW r \in RecsIn(fs), WantedBy(cmd, r)
      PROVE  \E i \in 1 .. m : r \in ToSet(fs[i].recs) /\ Overlaps(fs[i])
  <2>1. PICK i \in 1 .. m : r \in ToSet(fs[i].recs)
    BY <1>1 DEF RecsIn, ToSet
  <2>2. fs[i] \in SoundFrames
    BY <1>1
  <2>3. /\ fs[i].min \in Nat /\ fs[i].max \in Nat /\ fs[i].recs \in Seq(Records)
        /\ fs[i].min <= Ts[r] /\ Ts[r] <= fs[i].max
    BY <2>1, <2>2 DEF SoundFrames
  <2>4. Ts[r] \in Nat
    BY <2>1, <2>3, ToSetSeq, ScanAssumption DEF ScanAssumption
  <2>5. Overlaps(fs[i])
    BY <1>2, <2>3, <2>4 DEF Overlaps, WantedBy
  <2>6. QED BY <2>1, <2>5
<1>3. CASE ~load_indexes(c)
  <2> DEFINE u == [i \in DOMAIN fs |-> i]
  <2>1. us = <<u>>
    BY <1>3 DEF Units
  <2>2. u \in Seq(DOMAIN fs) /\ IsInjective(u) /\ ToSet(u) = DOMAIN fs
    <3>1. u \in [1 .. m -> DOMAIN fs]
      BY <1>1
    <3>2. u \in Seq(DOMAIN fs)
      BY <1>1, <3>1, SeqOfFunction
    <3>3. QED BY <3>2 DEF IsInjective, ToSet
  <2> HIDE DEF u, us
  <2>3. us \in Seq(Seq(DOMAIN fs)) /\ DOMAIN us = {1} /\ us[1] = u
    <3>1. \A X : \A x \in X : <<x>> \in Seq(X) /\ DOMAIN <<x>> = {1} /\ <<x>>[1] = x
      OBVIOUS
    <3>2. QED BY <2>1, <2>2, <3>1
  <2>4. GoodUnits(fs, us)
    BY <2>2, <2>3 DEF GoodUnits
  <2>5. ASSUME NEW r \in RecsIn(fs), WantedBy(cmd, r) PROVE r \in Left(cmd, fs, us)
    <3>1. PICK i \in 1 .. m : r \in ToSet(fs[i].recs)
      BY <1>2, <2>5
    <3>2. r \in UnitRecs(fs, us[1])
      BY <1>1, <2>2, <2>3, <3>1 DEF UnitRecs
    <3>3. QED BY <2>3, <2>5, <3>2 DEF Left
  <2>6. QED BY <2>4, <2>5 DEF us
<1>4. CASE load_indexes(c)
  <2> DEFINE cs == ClusterSpans(c, SortedSpans(c))
             S == {i \in DOMAIN fs : Overlaps(fs[i])}
  <2>1. us = [k \in DOMAIN cs |-> cs[k].spans]
    BY <1>4 DEF Units, ClusterSpans
  <2>2. cs \in ClustersOf(m) /\ Clustered(fs, cs, S)
    BY SpansClustered
  <2> HIDE DEF us, cs, S
  <2>3. DOMAIN cs = 1 .. Len(cs) /\ Len(cs) \in Nat
    BY <2>2, LenProperties DEF ClustersOf
  <2>4. \A k \in DOMAIN cs : cs[k].spans \in Seq(DOMAIN fs) /\ cs[k].max \in Nat
    <3> DEFINE X == [spans: Seq(1 .. m), max: Nat]
    <3>1. cs \in Seq(X)
      BY <2>2 DEF ClustersOf
    <3> HIDE DEF X
    <3>2. \A k \in DOMAIN cs : cs[k] \in X
      BY <3>1, ToSetSeq
    <3>3. QED BY <1>1, <3>2 DEF X
  <2>5. us \in Seq(Seq(DOMAIN fs)) /\ DOMAIN us = DOMAIN cs /\ \A k \in DOMAIN cs : us[k] = cs[k].spans
    <3>1. us \in [1 .. Len(cs) -> Seq(DOMAIN fs)]
      BY <2>1, <2>3, <2>4
    <3>2. us \in Seq(Seq(DOMAIN fs))
      BY <2>3, <3>1, SeqOfFunction
    <3>3. QED BY <2>1, <3>2
  <2>6. ASSUME NEW k \in DOMAIN us, NEW l \in DOMAIN us, k < l, NEW i \in ToSet(us[k]), NEW j \in ToSet(us[l])
        PROVE  fs[i].max < fs[j].min
    <3>1. fs[i].max <= cs[k].max /\ cs[k].max < fs[j].min /\ cs[k].max \in Nat
      BY <2>2, <2>4, <2>5, <2>6 DEF Clustered
    <3>2. i \in 1 .. m /\ j \in 1 .. m
      <4>1. us[k] \in Seq(DOMAIN fs) /\ us[l] \in Seq(DOMAIN fs)
        BY <2>4, <2>5
      <4>2. QED BY <1>1, <2>6, <4>1, ToSetSeq
    <3>3. fs[i].max \in Nat /\ fs[j].min \in Nat
      BY <1>1, <3>2 DEF SoundFrames
    <3>4. QED BY <3>1, <3>3
  <2>7. GoodUnits(fs, us)
    BY <2>2, <2>5, <2>6 DEF GoodUnits, Clustered
  <2>8. ASSUME NEW r \in RecsIn(fs), WantedBy(cmd, r) PROVE r \in Left(cmd, fs, us)
    <3>1. PICK i \in 1 .. m : r \in ToSet(fs[i].recs) /\ Overlaps(fs[i])
      BY <1>2, <2>8
    <3>2. i \in S
      BY <1>1, <3>1 DEF S
    <3>3. PICK k \in DOMAIN us : i \in ToSet(us[k])
      BY <2>2, <2>5, <3>2 DEF Clustered
    <3>4. r \in UnitRecs(fs, us[k])
      BY <3>1, <3>3 DEF UnitRecs
    <3>5. QED BY <2>8, <3>4 DEF Left
  <2>9. QED BY <2>7, <2>8 DEF us
<1>5. QED BY <1>3, <1>4

-----------------------------------------------------------------------------
(* Part 3: what a fetched unit gives *)

\* A position of a unit and the record there.
LEMMA PositionOf ==
  ASSUME NEW c, frames[c] \in Seq(SoundFrames), NEW u \in Seq(DOMAIN frames[c]),
         NEW p \in GetRanges(c, u)
  PROVE  /\ p = <<p[1], p[2]>> /\ p[1] \in DOMAIN u /\ p[2] \in DOMAIN frames[c][u[p[1]]].recs
         /\ u[p[1]] \in DOMAIN frames[c] /\ p[1] \in Nat /\ p[2] \in Nat
         /\ LineAt(c, u, p) \in Records /\ LineAt(c, u, p) \in ToSet(frames[c][u[p[1]]].recs)
<1> DEFINE fs == frames[c]
<1>1. PICK k \in DOMAIN u : \E j \in DOMAIN fs[u[k]].recs : p = <<k, j>>
  BY DEF GetRanges
<1>2. PICK j \in DOMAIN fs[u[k]].recs : p = <<k, j>>
  BY <1>1
<1>3. k \in Nat /\ u[k] \in DOMAIN fs
  BY ToSetSeq
<1>4. fs[u[k]].recs \in Seq(Records)
  <2>1. fs[u[k]] \in SoundFrames
    BY <1>3, ToSetSeq
  <2>2. QED BY <2>1 DEF SoundFrames
<1> HIDE DEF fs
<1>5. j \in Nat /\ fs[u[k]].recs[j] \in Records /\ fs[u[k]].recs[j] \in ToSet(fs[u[k]].recs)
  BY <1>4, ToSetSeq
<1>6. QED
  BY <1>2, <1>3, <1>5 DEF LineAt, fs

\* The positions of a unit hold different records.
LEMMA PositionsOnce ==
  ASSUME NEW c, frames[c] \in Seq(SoundFrames), OncePlaced(frames[c]),
         NEW u \in Seq(DOMAIN frames[c]), IsInjective(u),
         NEW p \in GetRanges(c, u), NEW q \in GetRanges(c, u),
         LineAt(c, u, p) = LineAt(c, u, q)
  PROVE  p = q
<1>1. /\ p = <<p[1], p[2]>> /\ p[1] \in DOMAIN u /\ p[2] \in DOMAIN frames[c][u[p[1]]].recs
      /\ u[p[1]] \in DOMAIN frames[c]
  BY PositionOf
<1>2. /\ q = <<q[1], q[2]>> /\ q[1] \in DOMAIN u /\ q[2] \in DOMAIN frames[c][u[q[1]]].recs
      /\ u[q[1]] \in DOMAIN frames[c]
  BY PositionOf
<1>3. u[p[1]] = u[q[1]] /\ p[2] = q[2]
  BY <1>1, <1>2 DEF LineAt, OncePlaced
<1>4. p[1] = q[1]
  BY <1>1, <1>2, <1>3 DEF IsInjective
<1>5. QED
  BY <1>1, <1>2, <1>3, <1>4

LEMMA PositionsFinite ==
  ASSUME NEW c, frames[c] \in Seq(SoundFrames), OncePlaced(frames[c]),
         NEW u \in Seq(DOMAIN frames[c]), IsInjective(u)
  PROVE  IsFiniteSet(emit_records(c, u))
<1> DEFINE S == emit_records(c, u)
           f == [p \in S |-> LineAt(c, u, p)]
<1>1. \A p \in S : p \in GetRanges(c, u)
  BY DEF emit_records
<1>2. \A p \in S : LineAt(c, u, p) \in Records
  BY <1>1, PositionOf
<1>3. \A p, q \in S : LineAt(c, u, p) = LineAt(c, u, q) => p = q
  BY <1>1, PositionsOnce
<1> HIDE DEF S
<1>4. f \in Injection(S, Records)
  BY <1>2, <1>3 DEF Injection, IsInjective
<1>5. IsFiniteSet(S)
  BY <1>4, FS_Injection, ScanAssumption DEF ScanAssumption
<1>6. QED BY <1>5 DEF S

\* R orders the pairs of S by T and V, and then by what they are.
StableBy(R, S, T, V) ==
  \A p, q \in S : <<p, q>> \in R <=>
    \/ T[p] < T[q] \/ (T[p] = T[q] /\ V[p] < V[q])
    \/ /\ ~(T[q] < T[p] \/ (T[q] = T[p] /\ V[q] < V[p]))
       /\ (p[1] < q[1] \/ (p[1] = q[1] /\ p[2] < q[2]))

PairsIn(S) == \A p \in S : p = <<p[1], p[2]>> /\ p[1] \in Nat /\ p[2] \in Nat

\* The order of a stable sort is total.
LEMMA StableOrder ==
  ASSUME NEW S, PairsIn(S), NEW T \in [S -> Nat], NEW V \in [S -> Nat], NEW R, StableBy(R, S, T, V)
  PROVE  Orders(R, S)
<1>1. \A p \in S : T[p] \in Nat /\ V[p] \in Nat /\ p[1] \in Nat /\ p[2] \in Nat
  BY DEF PairsIn
<1>2. \A p \in S : <<p, p>> \notin R
  BY <1>1 DEF StableBy
<1>3. \A p, q \in S : p # q => <<p, q>> \in R \/ <<q, p>> \in R
  <2> SUFFICES ASSUME NEW p \in S, NEW q \in S, p # q PROVE <<p, q>> \in R \/ <<q, p>> \in R
    OBVIOUS
  <2>1. p[1] # q[1] \/ p[2] # q[2]
    BY DEF PairsIn
  <2>2. QED BY <1>1, <2>1 DEF StableBy
<1>4. \A p, q, s \in S : <<p, q>> \in R /\ <<q, s>> \in R => <<p, s>> \in R
  BY <1>1 DEF StableBy
<1>5. QED BY <1>2, <1>3, <1>4 DEF Orders

\* The lines of a unit that match, sorted.
LEMMA LinesSorted ==
  ASSUME NEW c, frames[c] \in Seq(SoundFrames), OncePlaced(frames[c]),
         NEW u \in Seq(DOMAIN frames[c]), IsInjective(u)
  PROVE  LET o == Sorted(c, u)
         IN /\ o \in Seq(emit_records(c, u)) /\ IsInjective(o) /\ ToSet(o) = emit_records(c, u)
            /\ \A i, k \in DOMAIN o : i < k => ~Earlier(LineAt(c, u, o[k]), LineAt(c, u, o[i]))
<1> DEFINE S == emit_records(c, u)
           o == Sorted(c, u)
           T == [p \in S |-> Ts[LineAt(c, u, p)]]
           V == [p \in S |-> StreamOf[LineAt(c, u, p)]]
           B(p, q) == \/ Earlier(LineAt(c, u, p), LineAt(c, u, q))
                      \/ /\ ~Earlier(LineAt(c, u, q), LineAt(c, u, p))
                         /\ (p[1] < q[1] \/ (p[1] = q[1] /\ p[2] < q[2]))
           R == {x \in S \X S : B(x[1], x[2])}
<1>1. IsFiniteSet(S)
  BY PositionsFinite
<1>2. \A p \in S : /\ p = <<p[1], p[2]>> /\ p[1] \in Nat /\ p[2] \in Nat
                   /\ LineAt(c, u, p) \in Records
  BY PositionOf DEF emit_records
<1>3. o = CHOOSE s \in SetToSeqs(S) : \A i, k \in DOMAIN s : i < k => B(s[i], s[k])
  BY DEF Sorted, InOrder
<1> HIDE DEF S, o
<1>4. T \in [S -> Nat] /\ V \in [S -> Nat]
  BY <1>2, ScanAssumption DEF ScanAssumption
<1>5. \A p, q \in S : /\ Earlier(LineAt(c, u, p), LineAt(c, u, q)) <=>
                           T[p] < T[q] \/ (T[p] = T[q] /\ V[p] < V[q])
                      /\ <<p, q>> \in R <=> B(p, q)
  BY DEF Earlier
<1>6. Orders(R, S)
  <2> HIDE DEF T, V, R
  <2>1. StableBy(R, S, T, V)
    BY <1>5 DEF StableBy
  <2>2. PairsIn(S)
    BY <1>2 DEF PairsIn
  <2>3. QED BY <1>4, <2>1, <2>2, StableOrder
<1> HIDE DEF R
<1>7. \E s \in SetToSeqs(S) : \A i, k \in DOMAIN s : i < k => B(s[i], s[k])
  <2>1. PICK s \in [1 .. Cardinality(S) -> S] :
           /\ \A i, k \in 1 .. Cardinality(S) : i # k => s[i] # s[k]
           /\ \A i, k \in 1 .. Cardinality(S) : i < k => <<s[i], s[k]>> \in R
    BY <1>1, <1>6, ListInOrder
  <2>2. s \in SetToSeqs(S)
    BY <2>1 DEF SetToSeqs
  <2>3. \A i, k \in DOMAIN s : i < k => <<s[i], s[k]>> \in R /\ s[i] \in S /\ s[k] \in S
    BY <2>1
  <2> HIDE DEF B
  <2>4. \A i, k \in DOMAIN s : i < k => B(s[i], s[k])
    BY <1>5, <2>3
  <2>5. QED BY <2>2, <2>4
<1>8. o \in SetToSeqs(S) /\ \A i, k \in DOMAIN o : i < k => B(o[i], o[k])
  <2> HIDE DEF B
  <2> QED BY <1>3, <1>7
<1>9. o \in Seq(S) /\ IsInjective(o) /\ ToSet(o) = S
  BY <1>1, <1>8, ListingHolds
<1>10. \A p, q \in S : B(p, q) => ~Earlier(LineAt(c, u, q), LineAt(c, u, p))
  <2> SUFFICES ASSUME NEW p \in S, NEW q \in S, Earlier(LineAt(c, u, p), LineAt(c, u, q))
               PROVE  ~Earlier(LineAt(c, u, q), LineAt(c, u, p))
    OBVIOUS
  <2> HIDE DEF T, V
  <2>1. T[p] \in Nat /\ T[q] \in Nat /\ V[p] \in Nat /\ V[q] \in Nat
    BY <1>4
  <2>2. T[p] < T[q] \/ (T[p] = T[q] /\ V[p] < V[q])
    BY <1>5
  <2>3. ~(T[q] < T[p] \/ (T[q] = T[p] /\ V[q] < V[p]))
    BY <2>1, <2>2
  <2>4. QED BY <1>5, <2>3
<1>11. \A i \in DOMAIN o : o[i] \in S
  BY <1>9, ToSetSeq
<1>12. \A i, k \in DOMAIN o : i < k => ~Earlier(LineAt(c, u, o[k]), LineAt(c, u, o[i]))
  <2> HIDE DEF B
  <2> QED BY <1>8, <1>10, <1>11
<1>13. QED
  BY <1>9, <1>12 DEF o, S

\* next_batch gives the wanted records of its unit, in order, each once.
LEMMA DecodeGives ==
  ASSUME NEW src, frames[src.chunk] \in Seq(SoundFrames), OncePlaced(frames[src.chunk]),
         NEW u \in Seq(DOMAIN frames[src.chunk]), IsInjective(u)
  PROVE  LET d == Decode(src, u)
             fs == frames[src.chunk]
         IN /\ d \in Seq(Records) /\ IsInjective(d)
            /\ ToSet(d) = {r \in UnitRecs(fs, u) : WantedBy(cmd, r)}
            /\ \A i, k \in DOMAIN d : i < k => ~Earlier(d[k], d[i])
<1> DEFINE c == src.chunk
           fs == frames[c]
           S == emit_records(c, u)
           o == Sorted(c, u)
           d == Decode(src, u)
<1>1. /\ o \in Seq(S) /\ IsInjective(o) /\ ToSet(o) = S
      /\ \A i, k \in DOMAIN o : i < k => ~Earlier(LineAt(c, u, o[k]), LineAt(c, u, o[i]))
  BY LinesSorted
<1>2. d = [k \in DOMAIN o |-> LineAt(c, u, o[k])]
  BY DEF Decode
<1>3. \A p \in S : p \in GetRanges(c, u) /\ LineAt(c, u, p) \in Records
  BY PositionOf DEF emit_records
<1>4. \A p, q \in S : LineAt(c, u, p) = LineAt(c, u, q) => p = q
  BY <1>3, PositionsOnce
<1>5. \A p \in S : LineAt(c, u, p) \in UnitRecs(fs, u) /\ WantedBy(cmd, LineAt(c, u, p))
  <2> SUFFICES ASSUME NEW p \in S
               PROVE  LineAt(c, u, p) \in UnitRecs(fs, u) /\ WantedBy(cmd, LineAt(c, u, p))
    OBVIOUS
  <2>1. p[1] \in DOMAIN u /\ LineAt(c, u, p) \in ToSet(fs[u[p[1]]].recs)
    BY <1>3, PositionOf
  <2>2. u[p[1]] \in ToSet(u)
    BY <2>1 DEF ToSet
  <2>3. WantedBy(cmd, LineAt(c, u, p))
    BY DEF emit_records, Wanted, WantedBy
  <2>4. QED BY <2>1, <2>2, <2>3 DEF UnitRecs
<1>6. ASSUME NEW r \in UnitRecs(fs, u), WantedBy(cmd, r) PROVE \E p \in S : r = LineAt(c, u, p)
  <2>1. PICK k \in DOMAIN u : r \in ToSet(fs[u[k]].recs)
    BY DEF UnitRecs, ToSet
  <2>2. PICK j \in DOMAIN fs[u[k]].recs : r = fs[u[k]].recs[j]
    BY <2>1 DEF ToSet
  <2>3. <<k, j>> \in GetRanges(c, u)
    BY <2>1, <2>2 DEF GetRanges
  <2>4. LineAt(c, u, <<k, j>>) = r
    BY <2>2 DEF LineAt
  <2>5. <<k, j>> \in S
    BY <1>6, <2>3, <2>4 DEF emit_records, Wanted, WantedBy
  <2>6. QED BY <2>4, <2>5
<1> HIDE DEF S, o, d, fs
<1>7. DOMAIN o = 1 .. Len(o) /\ Len(o) \in Nat /\ (\A i \in DOMAIN o : o[i] \in S) /\ DOMAIN d = DOMAIN o
  BY <1>1, <1>2, ToSetSeq
<1>8. d \in Seq(Records)
  <2>1. d \in [1 .. Len(o) -> Records]
    BY <1>2, <1>3, <1>7
  <2>2. QED BY <1>7, <2>1, SeqOfFunction
<1>9. IsInjective(d)
  BY <1>1, <1>2, <1>4, <1>7 DEF IsInjective
<1>10. \A i, k \in DOMAIN d : i < k => ~Earlier(d[k], d[i])
  BY <1>1, <1>2, <1>7
<1>11. ToSet(d) = {LineAt(c, u, p) : p \in S}
  <2>1. \A p \in S : \E i \in DOMAIN o : p = o[i]
    BY <1>1 DEF ToSet
  <2>2. QED BY <1>2, <1>7, <2>1 DEF ToSet
<1>12. ToSet(d) = {r \in UnitRecs(fs, u) : WantedBy(cmd, r)}
  BY <1>5, <1>6, <1>11
<1>13. QED
  BY <1>8, <1>9, <1>10, <1>12 DEF d, fs

-----------------------------------------------------------------------------
(* Part 4: a source of the merge *)

LEMMA EarlierOrder ==
  ASSUME NEW a \in Records, NEW b \in Records, NEW c \in Records
  PROVE  /\ ~Earlier(a, a)
         /\ ~Earlier(b, a) /\ ~Earlier(c, b) => ~Earlier(c, a)
         /\ Earlier(a, b) => ~Earlier(b, a)
         /\ Ts[a] < Ts[b] => ~Earlier(b, a)
         /\ ~Earlier(b, a) => Ts[a] <= Ts[b]
         /\ ~Earlier(b, a) => Ts[a] < Ts[b] \/ (Ts[a] = Ts[b] /\ StreamOf[a] <= StreamOf[b])
<1>1. \A r \in Records : Ts[r] \in Nat /\ StreamOf[r] \in Nat
  BY ScanAssumption DEF ScanAssumption
<1>2. QED BY <1>1 DEF Earlier

\* The rest of a sequence.
LEMMA TailOf ==
  ASSUME NEW X, NEW s \in Seq(X), s # << >>
  PROVE  /\ Head(s) = s[1] /\ Head(s) \in X /\ Head(s) \in ToSet(s) /\ Tail(s) \in Seq(X)
         /\ DOMAIN Tail(s) = 1 .. (Len(s) - 1) /\ DOMAIN s = 1 .. Len(s) /\ Len(s) \in Nat \ {0}
         /\ \A i \in DOMAIN Tail(s) : i + 1 \in DOMAIN s /\ i + 1 > 1 /\ Tail(s)[i] = s[i + 1]
         /\ ToSet(s) = ToSet(Tail(s)) \cup {s[1]}
         /\ IsInjective(s) => IsInjective(Tail(s)) /\ s[1] \notin ToSet(Tail(s))
<1> DEFINE t == Tail(s)
<1>1. DOMAIN s = 1 .. Len(s) /\ Len(s) \in Nat \ {0}
  BY EmptySeq, LenProperties
<1>2. Head(s) = s[1] /\ Head(s) \in X /\ t \in Seq(X) /\ Len(t) = Len(s) - 1
  BY HeadTailProperties
<1>3. \A i \in 1 .. (Len(s) - 1) : t[i] = s[i + 1]
  OBVIOUS
<1>4. DOMAIN t = 1 .. (Len(s) - 1)
  <2> HIDE DEF t
  <2> QED BY <1>2, LenProperties
<1> HIDE DEF t
<1>5. \A i \in 1 .. (Len(s) - 1) : i + 1 \in 1 .. Len(s) /\ i + 1 > 1
  BY <1>1
<1>6. \A i \in 1 .. Len(s) : i = 1 \/ \E k \in 1 .. (Len(s) - 1) : i = k + 1
  <2>1. \A i \in 1 .. Len(s) : i # 1 => i - 1 \in 1 .. (Len(s) - 1) /\ i = (i - 1) + 1
    BY <1>1
  <2>2. QED BY <2>1
<1>7. 1 \in DOMAIN s
  BY <1>1
<1>8. ToSet(s) = ToSet(t) \cup {s[1]}
  <2>1. ToSet(s) = {s[i] : i \in 1 .. Len(s)} /\ ToSet(t) = {s[i + 1] : i \in 1 .. (Len(s) - 1)}
    BY <1>1, <1>3, <1>4 DEF ToSet
  <2>2. QED BY <1>1, <1>5, <1>6, <1>7, <2>1
<1>9. ASSUME IsInjective(s) PROVE IsInjective(t) /\ s[1] \notin ToSet(t)
  <2>1. \A i, k \in DOMAIN s : s[i] = s[k] => i = k
    BY <1>9 DEF IsInjective
  <2>2. \A i \in 1 .. (Len(s) - 1) : s[1] # s[i + 1]
    <3>1. \A i \in 1 .. (Len(s) - 1) : i + 1 \in DOMAIN s /\ i + 1 # 1
      BY <1>1, <1>5
    <3>2. QED BY <1>7, <2>1, <3>1
  <2>3. \A i, k \in 1 .. (Len(s) - 1) : s[i + 1] = s[k + 1] => i = k
    <3>1. \A i, k \in 1 .. (Len(s) - 1) : i + 1 \in DOMAIN s /\ (i + 1 = k + 1 => i = k)
      BY <1>1, <1>5
    <3>2. QED BY <2>1, <3>1
  <2>4. IsInjective(t)
    BY <1>3, <1>4, <2>3 DEF IsInjective
  <2>5. s[1] \notin ToSet(t)
    BY <1>3, <1>4, <2>2 DEF ToSet
  <2>6. QED BY <2>4, <2>5
<1>10. QED
  BY <1>1, <1>2, <1>3, <1>4, <1>5, <1>7, <1>8, <1>9 DEF t, ToSet

\* What command k has still to get from a source with units us and decoded records b.
Ahead(k, fs, us, b) == ToSet(b) \cup Left(k, fs, us)

\* Decoded records are in order, each once, and before those of the units left.
SourceInv(k, fs, us, b) ==
  /\ GoodUnits(fs, us)
  /\ b \in Seq(Records) /\ IsInjective(b)
  /\ \A i, j \in DOMAIN b : i < j => ~Earlier(b[j], b[i])
  /\ \A r \in ToSet(b) : r \in RecsIn(fs) /\ WantedBy(k, r)
  /\ \A r \in ToSet(b), s \in Left(k, fs, us) : Ts[r] < Ts[s]

LEMMA InFrames ==
  ASSUME NEW fs \in Seq(SoundFrames), NEW i \in DOMAIN fs
  PROVE  /\ fs[i].recs \in Seq(Records) /\ fs[i].min \in Nat /\ fs[i].max \in Nat
         /\ ToSet(fs[i].recs) \subseteq Records /\ ToSet(fs[i].recs) \subseteq RecsIn(fs)
         /\ \A r \in ToSet(fs[i].recs) : fs[i].min <= Ts[r] /\ Ts[r] <= fs[i].max
<1>1. fs[i] \in SoundFrames /\ fs[i] \in ToSet(fs)
  BY ToSetSeq
<1>2. /\ fs[i].recs \in Seq(Records) /\ fs[i].min \in Nat /\ fs[i].max \in Nat
      /\ \A r \in ToSet(fs[i].recs) : fs[i].min <= Ts[r] /\ Ts[r] <= fs[i].max
  BY <1>1 DEF SoundFrames
<1>3. ToSet(fs[i].recs) \subseteq Records
  BY <1>2, ToSetSeq
<1>4. QED BY <1>1, <1>2, <1>3 DEF RecsIn

LEMMA UnitIn ==
  ASSUME NEW fs \in Seq(SoundFrames), NEW u \in Seq(DOMAIN fs), NEW r \in UnitRecs(fs, u)
  PROVE  /\ r \in RecsIn(fs) /\ r \in Records
         /\ \E i \in ToSet(u) : i \in DOMAIN fs /\ r \in ToSet(fs[i].recs)
<1>1. PICK i \in ToSet(u) : r \in ToSet(fs[i].recs)
  BY DEF UnitRecs
<1>2. i \in DOMAIN fs
  BY ToSetSeq
<1>3. QED BY <1>1, <1>2, InFrames

LEMMA LeftIn ==
  ASSUME NEW k, NEW fs \in Seq(SoundFrames), NEW us, GoodUnits(fs, us), NEW r \in Left(k, fs, us)
  PROVE  r \in RecsIn(fs) /\ r \in Records /\ WantedBy(k, r)
<1>1. PICK m \in DOMAIN us : r \in UnitRecs(fs, us[m]) /\ WantedBy(k, r)
  BY DEF Left
<1>2. us[m] \in Seq(DOMAIN fs)
  BY ToSetSeq DEF GoodUnits
<1>3. QED BY <1>1, <1>2, UnitIn

LEMMA AheadIn ==
  ASSUME NEW k, NEW fs \in Seq(SoundFrames), NEW us, NEW b, SourceInv(k, fs, us, b),
         NEW r \in Ahead(k, fs, us, b)
  PROVE  r \in RecsIn(fs) /\ r \in Records /\ WantedBy(k, r)
<1>1. CASE r \in ToSet(b)
  BY <1>1, ToSetSeq DEF SourceInv
<1>2. CASE r \in Left(k, fs, us)
  BY <1>2, LeftIn DEF SourceInv
<1>3. QED BY <1>1, <1>2 DEF Ahead

\* The head of a source goes to the heap: nothing that comes from the source later
\* belongs before it.
LEMMA TakeHead ==
  ASSUME NEW k, NEW fs \in Seq(SoundFrames), NEW us, NEW b, SourceInv(k, fs, us, b), b # << >>
  PROVE  /\ Head(b) \in Ahead(k, fs, us, b)
         /\ SourceInv(k, fs, us, Tail(b))
         /\ Ahead(k, fs, us, Tail(b)) = Ahead(k, fs, us, b) \ {Head(b)}
         /\ \A r \in Ahead(k, fs, us, Tail(b)) : ~Earlier(r, Head(b))
<1> DEFINE t == Tail(b)
           h == b[1]
<1>1. b \in Seq(Records) /\ IsInjective(b)
  BY DEF SourceInv
<1>2. /\ Head(b) = h /\ h \in Records /\ h \in ToSet(b) /\ t \in Seq(Records)
      /\ DOMAIN t = 1 .. (Len(b) - 1) /\ DOMAIN b = 1 .. Len(b) /\ Len(b) \in Nat \ {0}
      /\ \A i \in DOMAIN t : i + 1 \in DOMAIN b /\ i + 1 > 1 /\ t[i] = b[i + 1]
      /\ ToSet(b) = ToSet(t) \cup {h} /\ IsInjective(t) /\ h \notin ToSet(t)
  <2>1. Head(b) = h /\ h \in Records /\ h \in ToSet(b) /\ t \in Seq(Records)
    BY <1>1, TailOf
  <2>2. /\ DOMAIN t = 1 .. (Len(b) - 1) /\ DOMAIN b = 1 .. Len(b) /\ Len(b) \in Nat \ {0}
        /\ \A i \in DOMAIN t : i + 1 \in DOMAIN b /\ i + 1 > 1 /\ t[i] = b[i + 1]
    BY <1>1, TailOf
  <2>3. ToSet(b) = ToSet(t) \cup {h} /\ IsInjective(t) /\ h \notin ToSet(t)
    BY <1>1, TailOf
  <2>4. QED BY <2>1, <2>2, <2>3
<1>3. \A i, j \in DOMAIN b : i < j => ~Earlier(b[j], b[i])
  BY DEF SourceInv
<1> HIDE DEF t, h
<1>4. \A i, j \in DOMAIN t : i < j => ~Earlier(t[j], t[i])
  <2>1. \A i, j \in DOMAIN t : i < j => i + 1 < j + 1
    BY <1>2
  <2>2. QED BY <1>2, <1>3, <2>1
<1>5. SourceInv(k, fs, us, t)
  BY <1>2, <1>4 DEF SourceInv
<1>6. \A s \in Left(k, fs, us) : Ts[h] < Ts[s] /\ Ts[h] \in Nat /\ s \in Records
  BY <1>2, LeftIn, ScanAssumption DEF SourceInv, ScanAssumption
<1>7. h \notin Left(k, fs, us)
  <2>1. \A x \in Nat : ~(x < x)
    OBVIOUS
  <2>2. QED BY <1>6, <2>1
<1>8. Ahead(k, fs, us, t) = Ahead(k, fs, us, b) \ {h}
  BY <1>2, <1>7 DEF Ahead
<1>9. \A r \in ToSet(t) : ~Earlier(r, h)
  <2>1. 1 \in DOMAIN b
    BY <1>2
  <2>2. \A i \in DOMAIN t : ~Earlier(t[i], b[1])
    BY <1>2, <1>3, <2>1
  <2>3. QED BY <2>2 DEF ToSet, h
<1>10. \A r \in Left(k, fs, us) : ~Earlier(r, h)
  BY <1>2, <1>6, EarlierOrder
<1>11. QED
  BY <1>2, <1>5, <1>8, <1>9, <1>10 DEF Ahead, t

\* A unit is fetched when the decoded records are used up: it comes before the rest.
LEMMA FetchUnit ==
  ASSUME NEW src, NEW fs \in Seq(SoundFrames), fs = frames[src.chunk], OncePlaced(fs),
         NEW us, us # << >>, SourceInv(cmd, fs, us, << >>)
  PROVE  /\ SourceInv(cmd, fs, Tail(us), Decode(src, Head(us)))
         /\ Ahead(cmd, fs, Tail(us), Decode(src, Head(us))) = Ahead(cmd, fs, us, << >>)
<1> DEFINE u == us[1]
           vs == Tail(us)
           d == Decode(src, u)
<1>1. GoodUnits(fs, us) /\ us \in Seq(Seq(DOMAIN fs))
  BY DEF SourceInv, GoodUnits
<1>2. /\ Head(us) = u /\ u \in Seq(DOMAIN fs) /\ vs \in Seq(Seq(DOMAIN fs))
      /\ DOMAIN vs = 1 .. (Len(us) - 1) /\ DOMAIN us = 1 .. Len(us) /\ Len(us) \in Nat \ {0}
      /\ \A i \in DOMAIN vs : i + 1 \in DOMAIN us /\ i + 1 > 1 /\ vs[i] = us[i + 1]
      /\ ToSet(us) = ToSet(vs) \cup {u}
  <2>1. Head(us) = u /\ u \in Seq(DOMAIN fs) /\ vs \in Seq(Seq(DOMAIN fs))
    BY <1>1, TailOf
  <2>2. /\ DOMAIN vs = 1 .. (Len(us) - 1) /\ DOMAIN us = 1 .. Len(us) /\ Len(us) \in Nat \ {0}
        /\ \A i \in DOMAIN vs : i + 1 \in DOMAIN us /\ i + 1 > 1 /\ vs[i] = us[i + 1]
    BY <1>1, TailOf
  <2>3. ToSet(us) = ToSet(vs) \cup {u}
    BY <1>1, TailOf
  <2>4. QED BY <2>1, <2>2, <2>3
<1>3. 1 \in DOMAIN us /\ IsInjective(u)
  <2>1. 1 \in DOMAIN us
    BY <1>2
  <2>2. QED BY <1>1, <2>1 DEF GoodUnits
<1>4. /\ d \in Seq(Records) /\ IsInjective(d)
      /\ ToSet(d) = {r \in UnitRecs(fs, u) : WantedBy(cmd, r)}
      /\ \A i, k \in DOMAIN d : i < k => ~Earlier(d[k], d[i])
  <2> HIDE DEF u
  <2> QED BY <1>2, <1>3, DecodeGives
<1> HIDE DEF vs, d, u
<1>5. GoodUnits(fs, vs)
  <2>1. \A i \in DOMAIN vs : IsInjective(vs[i])
    BY <1>1, <1>2 DEF GoodUnits
  <2>2. ASSUME NEW k \in DOMAIN vs, NEW m \in DOMAIN vs, k < m, NEW i \in ToSet(vs[k]), NEW j \in ToSet(vs[m])
        PROVE  fs[i].max < fs[j].min
    <3>1. k + 1 \in DOMAIN us /\ m + 1 \in DOMAIN us /\ vs[k] = us[k + 1] /\ vs[m] = us[m + 1]
      BY <1>2
    <3>2. k + 1 < m + 1
      BY <1>2, <2>2
    <3>3. QED BY <1>1, <2>2, <3>1, <3>2 DEF GoodUnits
  <2>3. QED BY <1>2, <2>1, <2>2 DEF GoodUnits
<1>6. Left(cmd, fs, us) = ToSet(d) \cup Left(cmd, fs, vs)
  <2>1. UNION {UnitRecs(fs, us[m]) : m \in DOMAIN us} = UNION {UnitRecs(fs, w) : w \in ToSet(us)}
    BY DEF ToSet
  <2>2. UNION {UnitRecs(fs, vs[m]) : m \in DOMAIN vs} = UNION {UnitRecs(fs, w) : w \in ToSet(vs)}
    BY DEF ToSet
  <2>3. UNION {UnitRecs(fs, w) : w \in ToSet(us)} = UnitRecs(fs, u) \cup UNION {UnitRecs(fs, w) : w \in ToSet(vs)}
    BY <1>2
  <2>4. QED BY <1>4, <2>1, <2>2, <2>3 DEF Left
<1>7. ASSUME NEW r \in ToSet(d), NEW s \in Left(cmd, fs, vs) PROVE Ts[r] < Ts[s]
  <2>1. r \in UnitRecs(fs, u)
    BY <1>4
  <2>2. PICK i \in ToSet(u) : i \in DOMAIN fs /\ r \in ToSet(fs[i].recs)
    BY <1>2, <2>1, UnitIn
  <2>3. PICK m \in DOMAIN vs : s \in UnitRecs(fs, vs[m])
    BY DEF Left
  <2>4. vs[m] \in Seq(DOMAIN fs)
    BY <1>2, ToSetSeq
  <2>5. PICK j \in ToSet(vs[m]) : j \in DOMAIN fs /\ s \in ToSet(fs[j].recs)
    BY <2>3, <2>4, UnitIn
  <2>6. fs[i].max < fs[j].min
    <3>1. m + 1 \in DOMAIN us /\ vs[m] = us[m + 1] /\ 1 < m + 1
      BY <1>2
    <3>2. QED BY <1>1, <1>3, <2>2, <2>5, <3>1 DEF GoodUnits, u
  <2>7. fs[i].max \in Nat /\ Ts[r] <= fs[i].max /\ r \in Records
    BY <2>2, InFrames
  <2>8. fs[j].min \in Nat /\ fs[j].min <= Ts[s] /\ s \in Records
    BY <2>5, InFrames
  <2>9. Ts[r] \in Nat /\ Ts[s] \in Nat
    BY <2>7, <2>8, ScanAssumption DEF ScanAssumption
  <2>10. QED BY <2>6, <2>7, <2>8, <2>9
<1>8. \A r \in ToSet(d) : r \in RecsIn(fs) /\ WantedBy(cmd, r)
  BY <1>2, <1>4, UnitIn
<1>9. SourceInv(cmd, fs, vs, d)
  BY <1>4, <1>5, <1>7, <1>8 DEF SourceInv
<1>10. Ahead(cmd, fs, vs, d) = Ahead(cmd, fs, us, << >>)
  BY <1>6 DEF Ahead, ToSet
<1>11. QED BY <1>2, <1>9, <1>10 DEF d, vs

-----------------------------------------------------------------------------
(* Part 5: the inductive invariant *)

\* What is in S3: each record in one place, in the partition of its day.
StoreInv ==
  /\ frames \in [Chunks -> Seq(SoundFrames)]
  /\ \A c \in Chunks : OncePlaced(frames[c])
  /\ \A c, d \in Chunks : c # d => RecsIn(frames[c]) \cap RecsIn(frames[d]) = {}
  /\ \A c \in Chunks : \A r \in RecsIn(frames[c]) : Ts[r] \div DayMs = DayOf[c]

CmdInv ==
  /\ phase \in {"idle", "list", "merge", "finish", "done", "failed"}
  /\ cmd \in [mode: {"grep", "file", "wrap", "raw"}, from: Nat, to: Nat]

\* Opened chunks: each once, and of each what its units say.
SourcesInv ==
  /\ sources \in Seq([chunk: Chunks, units: Seq(Seq(Nat))])
  /\ \A i, k \in DOMAIN sources : sources[i].chunk = sources[k].chunk => i = k
  /\ \A i \in DOMAIN sources : /\ frames[sources[i].chunk] # << >>
                               /\ GoodUnits(frames[sources[i].chunk], sources[i].units)

\* A listing reaches r: its chunk is still to be listed, or to be opened, or is
\* open with r in a unit.
Reaches(r) ==
  \E c \in Chunks :
    /\ r \in RecsIn(frames[c])
    /\ \/ DayOf[c] \in dates
       \/ c \in locs
       \/ \E i \in DOMAIN sources : sources[i].chunk = c /\ r \in Left(cmd, frames[c], sources[i].units)

\* Before the merge.
ListInv ==
  phase \in {"idle", "list"} =>
    /\ batches = << >> /\ heap = {} /\ refill = << >> /\ popped = << >> /\ out = << >>
    /\ phase = "idle" => dates = {} /\ locs = {} /\ sources = << >> /\ must = {}
    /\ locs \subseteq Chunks /\ (dates # {} => sources = << >>)
    /\ \A c \in locs : /\ frames[c] # << >> /\ DayOf[c] \notin dates
                       /\ \A i \in DOMAIN sources : sources[i].chunk # c
    /\ \A r \in must : WantedBy(cmd, r) => Reaches(r)

AheadOf(i) == Ahead(cmd, frames[sources[i].chunk], sources[i].units, batches[i])

\* What the merge has still to pop.
Upcoming == {h.rec : h \in heap} \cup UNION {AheadOf(i) : i \in DOMAIN sources}

Merging == phase \in {"merge", "finish", "done"}

\* Each source in itself.
SourcesOrdered ==
  Merging =>
    /\ batches \in [DOMAIN sources -> Seq(Records)]
    /\ \A i \in DOMAIN sources :
         SourceInv(cmd, frames[sources[i].chunk], sources[i].units, batches[i])

\* The heap holds the head of each source that is not to be refilled and has one.
HeapInv ==
  Merging =>
    /\ refill \in Seq(DOMAIN sources) /\ IsInjective(refill)
    /\ heap \subseteq [rec: Records, src: DOMAIN sources]
    /\ \A g, h \in heap : g.src = h.src => g = h
    /\ \A h \in heap :
         /\ h.src \notin ToSet(refill)
         /\ h.rec \in RecsIn(frames[sources[h.src].chunk]) /\ WantedBy(cmd, h.rec)
         /\ h.rec \notin AheadOf(h.src) /\ \A r \in AheadOf(h.src) : ~Earlier(r, h.rec)
    /\ \A i \in DOMAIN sources :
         i \in ToSet(refill) \/ AheadOf(i) = {} \/ \E h \in heap : h.src = i

\* What was emitted is in order, each record once, and is wanted.
OutInv ==
  /\ out \in Seq(Records) /\ IsInjective(out)
  /\ \A i, k \in DOMAIN out : i < k => ~Earlier(out[k], out[i])
  /\ \A r \in ToSet(out) : r \in Archived /\ WantedBy(cmd, r)

\* Nothing upcoming belongs before what was popped, and nothing is lost.
PopInv ==
  Merging =>
    /\ popped \in Seq(Records) /\ Len(popped) <= 1
    /\ \A p \in ToSet(popped) : p \in Archived /\ WantedBy(cmd, p)
    /\ \A p \in ToSet(popped), r \in ToSet(out) : p # r /\ ~Earlier(p, r)
    /\ \A u \in Upcoming, r \in ToSet(popped) \cup ToSet(out) : u # r /\ ~Earlier(u, r)
    /\ \A r \in must : WantedBy(cmd, r) => r \in ToSet(out) \cup ToSet(popped) \cup Upcoming
    /\ phase \in {"finish", "done"} => refill = << >> /\ heap = {} /\ popped = << >>

LEMMA ArchivedIs == Archived = UNION {RecsIn(frames[c]) : c \in Chunks}
  BY DEF Archived, RecsIn

LEMMA NoRecs == RecsIn(<< >>) = {} /\ ToSet(<< >>) = {}
  BY DEF RecsIn, ToSet

\* put_chunk writes records that are nowhere else, of its day.
LEMMA PutDataEffect ==
  ASSUME StoreInv, NEW c \in Chunks, PutData(c)
  PROVE  /\ frames[c] = << >> /\ frames' \in [Chunks -> Seq(SoundFrames)]
         /\ \A d \in Chunks : d # c => frames'[d] = frames[d]
         /\ OncePlaced(frames'[c])
         /\ \A r \in RecsIn(frames'[c]) :
              r \in Records /\ r \notin Archived /\ Ts[r] \div DayMs = DayOf[c]
<1> DEFINE X == {r \in Records \ Archived : Ts[r] \div DayMs = DayOf[c]}
<1>1. PICK s \in SetToAllKPermutations(X) :
        frames' = [frames EXCEPT ![c] = Encode(FoldLeft(Push, [cut |-> << >>, pending |-> << >>], s))]
  BY DEF PutData
<1>2. PICK S \in SUBSET X : s \in SetToSeqs(S)
  BY <1>1 DEF SetToAllKPermutations
<1>3. IsFiniteSet(S) /\ S \subseteq Records
  <2>1. S \in SUBSET Records
    BY <1>2
  <2>2. IsFiniteSet(Records)
    BY ScanAssumption DEF ScanAssumption
  <2>3. QED BY <2>1, <2>2, FS_Subset
<1>4. s \in Seq(S) /\ IsInjective(s) /\ ToSet(s) = S
  BY <1>2, <1>3, ListingHolds
<1>5. s \in Seq(Records)
  BY <1>3, <1>4, SeqMonotonic
<1> DEFINE fs == Encode(FoldLeft(Push, [cut |-> << >>, pending |-> << >>], s))
<1>6. fs \in Seq(SoundFrames) /\ OncePlaced(fs) /\ RecsIn(fs) = S
  BY <1>4, <1>5, EncodeChunk
<1>7. frames' = [frames EXCEPT ![c] = fs]
  BY <1>1
<1> HIDE DEF fs
<1>8. frames' \in [Chunks -> Seq(SoundFrames)] /\ frames'[c] = fs /\ \A d \in Chunks : d # c => frames'[d] = frames[d]
  BY <1>6, <1>7 DEF StoreInv
<1>9. frames[c] = << >>
  BY DEF PutData
<1>10. QED BY <1>2, <1>6, <1>8, <1>9

\* Only put_chunk changes the data objects.
LEMMA FramesStep ==
  ASSUME [Next]_vars
  PROVE  frames' = frames \/ \E c \in Chunks : PutData(c)
  BY DEF Next, Command, vars, store, listing, merge, restore, PutSidecars, LoseSidecar, StartScan,
         ListDate, OpenChunk, StartMerge, Refill, Pop, Return, EnsureTarget, SendBatch, Finish, Done,
         CommandFails

LEMMA StoreStep == ASSUME StoreInv, [Next]_vars PROVE StoreInv'
<1>1. CASE frames' = frames
  BY <1>1 DEF StoreInv
<1>2. ASSUME NEW c \in Chunks, PutData(c) PROVE StoreInv'
  <2>1. /\ frames' \in [Chunks -> Seq(SoundFrames)]
        /\ \A d \in Chunks : d # c => frames'[d] = frames[d]
        /\ OncePlaced(frames'[c])
        /\ \A r \in RecsIn(frames'[c]) : r \notin Archived /\ Ts[r] \div DayMs = DayOf[c]
    BY <1>2, PutDataEffect
  <2>2. \A d \in Chunks : d # c => RecsIn(frames'[d]) \subseteq Archived
    BY <2>1, ArchivedIs
  <2>3. \A d, e \in Chunks : d # e => RecsIn(frames'[d]) \cap RecsIn(frames'[e]) = {}
    <3> SUFFICES ASSUME NEW d \in Chunks, NEW e \in Chunks, d # e
                 PROVE  RecsIn(frames'[d]) \cap RecsIn(frames'[e]) = {}
      OBVIOUS
    <3>1. CASE d # c /\ e # c
      BY <2>1, <3>1 DEF StoreInv
    <3>2. CASE d = c
      BY <2>1, <2>2, <3>2
    <3>3. CASE e = c
      BY <2>1, <2>2, <3>3
    <3>4. QED BY <3>1, <3>2, <3>3
  <2>4. \A d \in Chunks : /\ OncePlaced(frames'[d])
                          /\ \A r \in RecsIn(frames'[d]) : Ts[r] \div DayMs = DayOf[d]
    BY <2>1 DEF StoreInv
  <2>5. QED BY <2>1, <2>3, <2>4 DEF StoreInv
<1>3. QED BY <1>1, <1>2, FramesStep

LEMMA CmdStep == ASSUME CmdInv, [Next]_vars PROVE CmdInv'
<1>1. ASSUME NEW c \in Commands, StartScan(c) PROVE CmdInv'
  BY <1>1, ScanAssumption DEF StartScan, CmdInv, ScanAssumption
<1>2. CASE UNCHANGED vars
  BY <1>2 DEF vars, CmdInv
<1>3. ASSUME NEW c \in Chunks, PutData(c) \/ PutSidecars(c) \/ LoseSidecar(c) PROVE CmdInv'
  BY <1>3 DEF PutData, PutSidecars, LoseSidecar, CmdInv
<1>4. CASE Command \/ CommandFails
  BY <1>4 DEF Command, CommandFails, CmdInv, ListDate, OpenChunk, StartMerge, Refill, Pop, Return,
              EnsureTarget, SendBatch, Finish, Done
<1>5. QED BY <1>1, <1>2, <1>3, <1>4 DEF Next

LEMMA UnitsTyped ==
  ASSUME NEW fs \in Seq(SoundFrames), NEW us, GoodUnits(fs, us)
  PROVE  us \in Seq(Seq(Nat))
<1>1. DOMAIN fs \subseteq Nat
  BY ToSetSeq
<1>2. Seq(DOMAIN fs) \subseteq Seq(Nat)
  BY <1>1, SeqMonotonic
<1>3. us \in Seq(Seq(DOMAIN fs))
  BY DEF GoodUnits
<1>4. QED BY <1>2, <1>3, SeqMonotonic

\* A source and its place.
LEMMA SourceAt ==
  ASSUME StoreInv, SourcesInv, NEW i \in DOMAIN sources
  PROVE  /\ sources[i] \in [chunk: Chunks, units: Seq(Seq(Nat))]
         /\ sources[i].chunk \in Chunks /\ sources[i].units \in Seq(Seq(Nat))
         /\ frames[sources[i].chunk] \in Seq(SoundFrames)
         /\ OncePlaced(frames[sources[i].chunk])
         /\ GoodUnits(frames[sources[i].chunk], sources[i].units)
         /\ i \in Nat /\ DOMAIN sources = 1 .. Len(sources) /\ Len(sources) \in Nat
<1> DEFINE X == [chunk: Chunks, units: Seq(Seq(Nat))]
<1>1. sources \in Seq(X)
  BY DEF SourcesInv
<1> HIDE DEF X
<1>2. sources[i] \in X /\ DOMAIN sources = 1 .. Len(sources) /\ Len(sources) \in Nat
  BY <1>1, ToSetSeq
<1>3. sources[i].chunk \in Chunks /\ sources[i].units \in Seq(Seq(Nat))
  BY <1>2 DEF X
<1>4. QED
  BY <1>2, <1>3 DEF StoreInv, SourcesInv, X

LEMMA OtherUnits ==
  ASSUME NEW x \in [chunk: Chunks, units: Seq(Seq(Nat))], NEW v
  PROVE  [x EXCEPT !.units = v] = [chunk |-> x.chunk, units |-> v]
  OBVIOUS

\* KWayMerge::refill, for the source i at the front: its head goes to the heap, or
\* a unit is fetched, or it is exhausted.
Refilled(i) ==
  /\ i \in DOMAIN sources /\ refill # << >>
  /\ sources' \in Seq([chunk: Chunks, units: Seq(Seq(Nat))])
  /\ DOMAIN sources' = DOMAIN sources
  /\ \A k \in DOMAIN sources : sources'[k].chunk = sources[k].chunk
  /\ \A k \in DOMAIN sources : k # i => sources'[k] = sources[k] /\ batches'[k] = batches[k]
  /\ batches' \in [DOMAIN sources -> Seq(Records)]
  /\ SourceInv(cmd, frames[sources[i].chunk], sources'[i].units, batches'[i])
  /\ \/ /\ refill' = Tail(refill)
        /\ \E h \in AheadOf(i) :
             /\ heap' = heap \cup {[rec |-> h, src |-> i]}
             /\ AheadOf(i)' = AheadOf(i) \ {h}
             /\ \A r \in AheadOf(i) \ {h} : ~Earlier(r, h)
     \/ heap' = heap /\ refill' = refill /\ AheadOf(i)' = AheadOf(i)
     \/ heap' = heap /\ refill' = Tail(refill) /\ AheadOf(i)' = AheadOf(i) /\ AheadOf(i) = {}

LEMMA RefillEffect ==
  ASSUME StoreInv, CmdInv, SourcesInv, SourcesOrdered, HeapInv, Refill, NEW i, i = Head(refill)
  PROVE  Refilled(i)
<1> DEFINE c == sources[i].chunk
           fs == frames[c]
           us == sources[i].units
           b == batches[i]
<1>1. phase = "merge" /\ refill # << >> /\ frames' = frames /\ cmd' = cmd
  BY DEF Refill, store
<1>2. /\ refill \in Seq(DOMAIN sources) /\ batches \in [DOMAIN sources -> Seq(Records)]
      /\ \A k \in DOMAIN sources : SourceInv(cmd, frames[sources[k].chunk], sources[k].units, batches[k])
  BY <1>1 DEF HeapInv, SourcesOrdered, Merging
<1>3. i \in DOMAIN sources
  BY <1>1, <1>2, TailOf
<1>4. /\ sources[i] \in [chunk: Chunks, units: Seq(Seq(Nat))] /\ c \in Chunks /\ us \in Seq(Seq(Nat))
      /\ fs \in Seq(SoundFrames) /\ OncePlaced(fs) /\ SourceInv(cmd, fs, us, b)
      /\ DOMAIN sources = 1 .. Len(sources) /\ Len(sources) \in Nat
      /\ b \in Seq(Records)
  BY <1>2, <1>3, SourceAt
<1>5. sources \in Seq([chunk: Chunks, units: Seq(Seq(Nat))])
  BY DEF SourcesInv
<1>6. AheadOf(i) = Ahead(cmd, fs, us, b)
  BY DEF AheadOf
<1>7. CASE /\ b # << >>
           /\ heap' = heap \cup {[rec |-> Head(b), src |-> i]}
           /\ batches' = [batches EXCEPT ![i] = Tail(@)]
           /\ refill' = Tail(refill) /\ sources' = sources
  <2>1. batches' = [batches EXCEPT ![i] = Tail(b)]
    BY <1>7
  <2> HIDE DEF fs, us, b
  <2>2. /\ Head(b) \in Ahead(cmd, fs, us, b) /\ SourceInv(cmd, fs, us, Tail(b))
        /\ Ahead(cmd, fs, us, Tail(b)) = Ahead(cmd, fs, us, b) \ {Head(b)}
        /\ \A r \in Ahead(cmd, fs, us, Tail(b)) : ~Earlier(r, Head(b))
    BY <1>4, <1>7, TakeHead
  <2>3. Tail(b) \in Seq(Records)
    BY <1>4, <1>7, TailOf
  <2>4. /\ batches' \in [DOMAIN sources -> Seq(Records)] /\ batches'[i] = Tail(b)
        /\ \A k \in DOMAIN sources : k # i => batches'[k] = batches[k]
    BY <1>2, <1>3, <2>1, <2>3
  <2>5. AheadOf(i)' = Ahead(cmd, fs, us, Tail(b))
    BY <1>1, <1>7, <2>4 DEF AheadOf, fs, us
  <2>6. QED
    BY <1>1, <1>3, <1>5, <1>6, <1>7, <2>2, <2>4, <2>5 DEF fs, us, Refilled
<1>8. CASE /\ b = << >> /\ us # << >>
           /\ batches' = [batches EXCEPT ![i] = Decode(sources[i], Head(us))]
           /\ sources' = [sources EXCEPT ![i].units = Tail(@)]
           /\ heap' = heap /\ refill' = refill
  <2> DEFINE d == Decode(sources[i], Head(us))
             e == [chunk |-> c, units |-> Tail(us)]
  <2>1. SourceInv(cmd, fs, Tail(us), d) /\ Ahead(cmd, fs, Tail(us), d) = Ahead(cmd, fs, us, << >>)
    <3> HIDE DEF us
    <3> QED BY <1>4, <1>8, FetchUnit
  <2>2. e \in [chunk: Chunks, units: Seq(Seq(Nat))] /\ d \in Seq(Records)
    <3>1. Tail(us) \in Seq(Seq(Nat))
      BY <1>4, <1>8, TailOf
    <3>2. d \in Seq(Records)
      BY <2>1 DEF SourceInv
    <3>3. QED BY <1>4, <3>1, <3>2
  <2>3. sources' = [sources EXCEPT ![i] = e]
    <3>1. \A v : [sources[i] EXCEPT !.units = v] = [chunk |-> c, units |-> v]
      BY <1>4, OtherUnits
    <3>2. QED BY <1>4, <1>8, <3>1
  <2> HIDE DEF d, e
  <2>4. /\ sources' \in Seq([chunk: Chunks, units: Seq(Seq(Nat))]) /\ DOMAIN sources' = DOMAIN sources
        /\ sources'[i] = e /\ \A k \in DOMAIN sources : k # i => sources'[k] = sources[k]
    <3>1. i \in 1 .. Len(sources)
      BY <1>3, <1>4
    <3>2. sources' \in Seq([chunk: Chunks, units: Seq(Seq(Nat))])
      BY <1>5, <2>2, <2>3, <3>1, ExceptSeq
    <3>3. QED BY <1>3, <2>3, <3>2
  <2>5. /\ batches' \in [DOMAIN sources -> Seq(Records)] /\ batches'[i] = d
        /\ \A k \in DOMAIN sources : k # i => batches'[k] = batches[k]
    BY <1>2, <1>3, <1>8, <2>2 DEF d
  <2>6. e.chunk = c /\ e.units = Tail(us)
    BY DEF e
  <2>7. AheadOf(i)' = Ahead(cmd, fs, Tail(us), d)
    BY <1>1, <2>4, <2>5, <2>6 DEF AheadOf
  <2>8. AheadOf(i)' = AheadOf(i)
    BY <1>6, <1>8, <2>1, <2>7
  <2>9. \A k \in DOMAIN sources : sources'[k].chunk = sources[k].chunk
    BY <2>4, <2>6
  <2>10. SourceInv(cmd, fs, sources'[i].units, batches'[i])
    BY <2>1, <2>4, <2>5, <2>6
  <2>11. QED
    BY <1>1, <1>3, <1>8, <2>4, <2>5, <2>8, <2>9, <2>10 DEF Refilled
<1>9. CASE /\ b = << >> /\ us = << >> /\ refill' = Tail(refill)
           /\ heap' = heap /\ batches' = batches /\ sources' = sources
  <2>1. AheadOf(i)' = AheadOf(i)
    BY <1>1, <1>9 DEF AheadOf
  <2>2. AheadOf(i) = {}
    BY <1>6, <1>9 DEF Ahead, Left, ToSet
  <2>3. QED
    BY <1>1, <1>2, <1>3, <1>4, <1>5, <1>9, <2>1, <2>2 DEF Refilled
<1>10. QED
  BY <1>7, <1>8, <1>9 DEF Refill

\* All that the invariant of the merge is about, but the phase.
core == <<frames, cmd, dates, locs, sources, batches, heap, refill, popped, out, must>>

LEMMA Steps ==
  ASSUME [Next]_vars
  PROVE  \/ \E c \in Chunks : PutData(c)
         \/ \E c \in Commands : StartScan(c)
         \/ \E d \in dates : ListDate(d)
         \/ OpenChunk \/ StartMerge \/ Refill \/ Pop \/ Return \/ Finish
         \/ /\ core' = core
            /\ phase' = phase \/ phase' = "failed" \/ (phase = "finish" /\ phase' = "done")
<1> DEFINE Q == /\ core' = core
                /\ phase' = phase \/ phase' = "failed" \/ (phase = "finish" /\ phase' = "done")
<1>1. CASE UNCHANGED vars
  BY <1>1 DEF vars, store, listing, merge, core
<1>2. ASSUME NEW c \in Chunks, PutSidecars(c) PROVE Q
  BY <1>2 DEF PutSidecars, listing, merge, core
<1>3. ASSUME NEW c \in Chunks, LoseSidecar(c) PROVE Q
  BY <1>3 DEF LoseSidecar, listing, merge, core
<1>4. CASE EnsureTarget
  BY <1>4 DEF EnsureTarget, store, listing, merge, core
<1>5. CASE SendBatch
  BY <1>5 DEF SendBatch, store, listing, merge, core
<1>6. CASE Done
  BY <1>6 DEF Done, store, listing, merge, core
<1>7. CASE CommandFails
  BY <1>7 DEF CommandFails, store, listing, merge, core
<1>8. QED
  BY <1>1, <1>2, <1>3, <1>4, <1>5, <1>6, <1>7 DEF Next, Command

LEMMA SourcesStep ==
  ASSUME StoreInv, CmdInv, SourcesInv, ListInv, SourcesOrdered, HeapInv, [Next]_vars
  PROVE  SourcesInv'
<1>1. CASE frames' = frames /\ sources' = sources
  BY <1>1 DEF SourcesInv
<1>2. ASSUME NEW c \in Chunks, PutData(c) PROVE SourcesInv'
  <2>1. frames[c] = << >> /\ \A d \in Chunks : d # c => frames'[d] = frames[d]
    BY <1>2, PutDataEffect
  <2>2. sources' = sources
    BY <1>2 DEF PutData, listing
  <2>3. \A i \in DOMAIN sources : frames'[sources[i].chunk] = frames[sources[i].chunk]
    <3>1. \A i \in DOMAIN sources : sources[i].chunk \in Chunks /\ frames[sources[i].chunk] # << >>
      BY SourceAt DEF SourcesInv
    <3>2. QED BY <2>1, <3>1
  <2>4. QED BY <2>2, <2>3 DEF SourcesInv
<1>3. CASE OpenChunk
  <2> DEFINE c == Least(locs)
             e == [chunk |-> c, units |-> Units(c)]
  <2>1. phase = "list" /\ locs # {} /\ frames' = frames
    BY <1>3 DEF OpenChunk, store
  <2>2. /\ locs \subseteq Chunks
        /\ \A x \in locs : frames[x] # << >> /\ \A i \in DOMAIN sources : sources[i].chunk # x
    BY <2>1 DEF ListInv
  <2>3. c \in locs
    <3>1. locs \in SUBSET Nat
      BY <2>2, ScanAssumption DEF ScanAssumption
    <3>2. QED BY <2>1, <3>1, LeastIn
  <2>4. /\ c \in Chunks /\ frames[c] # << >> /\ frames[c] \in Seq(SoundFrames)
        /\ \A i \in DOMAIN sources : sources[i].chunk # c
    BY <2>2, <2>3 DEF StoreInv
  <2>5. GoodUnits(frames[c], Units(c))
    BY <2>4, UnitsGood DEF CmdInv
  <2>6. e \in [chunk: Chunks, units: Seq(Seq(Nat))]
    BY <2>4, <2>5, UnitsTyped
  <2>7. CASE sources' = sources
    BY <1>1, <2>1, <2>7
  <2>8. CASE sources' = Append(sources, e)
    <3> HIDE DEF e
    <3> DEFINE n == Len(sources)
    <3>1. sources \in Seq([chunk: Chunks, units: Seq(Seq(Nat))])
      BY DEF SourcesInv
    <3>2. /\ sources' \in Seq([chunk: Chunks, units: Seq(Seq(Nat))])
          /\ DOMAIN sources' = 1 .. (n + 1) /\ sources'[n + 1] = e
          /\ \A i \in 1 .. n : sources'[i] = sources[i]
      BY <2>6, <2>8, <3>1, ToSetAppend
    <3>3. DOMAIN sources = 1 .. n /\ n \in Nat
      BY <3>1, LenProperties
    <3>4. e.chunk = c /\ e.units = Units(c)
      BY DEF e
    <3> HIDE DEF n, c
    <3>5. \A i \in 1 .. (n + 1) : i = n + 1 \/ i \in 1 .. n
      BY <3>3
    <3>6. ASSUME NEW i \in 1 .. (n + 1)
          PROVE  /\ frames[sources'[i].chunk] # << >>
                 /\ GoodUnits(frames[sources'[i].chunk], sources'[i].units)
      <4>1. CASE i = n + 1
        BY <2>4, <2>5, <3>2, <3>4, <4>1
      <4>2. CASE i \in 1 .. n
        BY <3>2, <3>3, <4>2 DEF SourcesInv
      <4>3. QED BY <3>5, <4>1, <4>2
    <3>7. ASSUME NEW i \in 1 .. (n + 1), NEW k \in 1 .. (n + 1), sources'[i].chunk = sources'[k].chunk
          PROVE  i = k
      <4>1. CASE i \in 1 .. n /\ k \in 1 .. n
        BY <3>2, <3>3, <3>7, <4>1 DEF SourcesInv
      <4>2. CASE i = n + 1 /\ k \in 1 .. n
        BY <2>4, <3>2, <3>3, <3>4, <3>7, <4>2
      <4>3. CASE k = n + 1 /\ i \in 1 .. n
        BY <2>4, <3>2, <3>3, <3>4, <3>7, <4>3
      <4>4. QED BY <3>5, <4>1, <4>2, <4>3
    <3>8. QED BY <2>1, <3>2, <3>6, <3>7 DEF SourcesInv
  <2>9. QED BY <1>3, <2>7, <2>8 DEF OpenChunk
<1>4. CASE Refill
  <2>0. PICK i : i = Head(refill)
    OBVIOUS
  <2>1. /\ i \in DOMAIN sources
        /\ sources' \in Seq([chunk: Chunks, units: Seq(Seq(Nat))])
        /\ DOMAIN sources' = DOMAIN sources
        /\ \A k \in DOMAIN sources : sources'[k].chunk = sources[k].chunk
        /\ \A k \in DOMAIN sources : k # i => sources'[k] = sources[k]
        /\ SourceInv(cmd, frames[sources[i].chunk], sources'[i].units, batches'[i])
    <3>1. Refilled(i)
      BY <1>4, <2>0, RefillEffect
    <3>2. QED BY <3>1 DEF Refilled
  <2>2. frames' = frames
    BY <1>4 DEF Refill, store
  <2>3. GoodUnits(frames[sources[i].chunk], sources'[i].units)
    BY <2>1 DEF SourceInv
  <2>4. \A k \in DOMAIN sources : GoodUnits(frames[sources[k].chunk], sources'[k].units)
    BY <2>1, <2>3 DEF SourcesInv
  <2>5. QED BY <2>1, <2>2, <2>4 DEF SourcesInv
<1>5. CASE \/ \E c \in Commands : StartScan(c)
           \/ \E d \in dates : ListDate(d)
           \/ StartMerge \/ Pop \/ Return \/ Finish \/ core' = core
  BY <1>1, <1>5 DEF StartScan, ListDate, StartMerge, Pop, Return, Finish, core, store, listing
<1>6. QED BY <1>2, <1>3, <1>4, <1>5, Steps

\* Days of a range: the day of a time within is one of them.
LEMMA DayInRange ==
  ASSUME NEW from \in Nat, NEW to \in Nat, NEW t \in Nat, from <= t, t < to
  PROVE  t \div DayMs \in dates_in_range(from, to)
<1> DEFINE D == DayMs
<1>1. D \in Nat \ {0}
  BY ScanAssumption DEF ScanAssumption
<1>2. \A x \in Nat : x \div D \in Nat /\ D * (x \div D) <= x /\ x < D * (x \div D) + D
  BY <1>1
<1>3. \A x, y \in Nat : x <= y => x \div D <= y \div D
  <2> SUFFICES ASSUME NEW x \in Nat, NEW y \in Nat, x <= y, x \div D > y \div D PROVE FALSE
    BY <1>2
  <2> DEFINE p == x \div D
             q == y \div D
  <2>1. p \in Nat /\ q \in Nat /\ p >= q + 1 /\ D * p <= x /\ y < D * q + D
    BY <1>2
  <2> HIDE DEF p, q, D
  <2>2. D * p >= D * (q + 1)
    BY <1>1, <2>1
  <2>3. D * (q + 1) = D * q + D
    BY <1>1, <2>1
  <2>4. D * p \in Nat /\ D * q \in Nat
    BY <1>1, <2>1
  <2>5. QED BY <1>1, <2>1, <2>2, <2>3, <2>4
<1>4. to - 1 \in Nat /\ t <= to - 1 /\ ~(from >= to)
  OBVIOUS
<1>5. from \div D <= t \div D /\ t \div D <= (to - 1) \div D
  BY <1>3, <1>4
<1>6. from \div D \in Nat /\ t \div D \in Nat /\ (to - 1) \div D \in Nat
  BY <1>2, <1>4
<1>7. QED BY <1>4, <1>5, <1>6 DEF dates_in_range

\* What a listing was to reach it still reaches, whatever writers put meanwhile.
LEMMA ListStep ==
  ASSUME StoreInv, CmdInv, SourcesInv, ListInv, [Next]_vars
  PROVE  ListInv'
<1>1. ASSUME NEW c \in Chunks, PutData(c) PROVE ListInv'
  <2>1. frames[c] = << >> /\ \A d \in Chunks : d # c => frames'[d] = frames[d]
    BY <1>1, PutDataEffect
  <2>2. /\ phase \in {"idle", "list"} /\ phase' = phase /\ cmd' = cmd /\ must' = must /\ out' = out
        /\ batches' = batches /\ heap' = heap /\ refill' = refill /\ popped' = popped
        /\ dates' = dates /\ locs' = locs /\ sources' = sources
    BY <1>1 DEF PutData, Open, listing, merge
  <2>3. \A d \in Chunks : frames[d] # << >> => frames'[d] = frames[d]
    BY <2>1
  <2>4. ASSUME NEW r, Reaches(r) PROVE Reaches(r)'
    <3>1. PICK d \in Chunks :
            /\ r \in RecsIn(frames[d])
            /\ \/ DayOf[d] \in dates
               \/ d \in locs
               \/ \E i \in DOMAIN sources : sources[i].chunk = d /\ r \in Left(cmd, frames[d], sources[i].units)
      BY <2>4 DEF Reaches
    <3>2. frames'[d] = frames[d]
      BY <2>3, <3>1, NoRecs
    <3>3. QED BY <2>2, <3>1, <3>2 DEF Reaches
  <2>5. locs \subseteq Chunks /\ \A d \in locs : frames'[d] # << >>
    BY <2>2, <2>3 DEF ListInv
  <2>6. QED BY <2>2, <2>4, <2>5 DEF ListInv
<1>2. ASSUME NEW c \in Commands, StartScan(c) PROVE ListInv'
  <2>1. /\ phase = "idle" /\ phase' = "list" /\ cmd' = c /\ dates' = dates_in_range(c.from, c.to)
        /\ must' = Archived /\ frames' = frames /\ locs' = locs /\ sources' = sources
        /\ batches' = batches /\ heap' = heap /\ refill' = refill /\ popped' = popped /\ out' = out
    BY <1>2 DEF StartScan, store, merge
  <2>2. locs = {} /\ sources = << >>
    BY <2>1 DEF ListInv
  <2>3. c.from \in Nat /\ c.to \in Nat
    BY ScanAssumption DEF ScanAssumption
  <2>4. ASSUME NEW r \in Archived, WantedBy(c, r) PROVE Reaches(r)'
    <3>1. PICK d \in Chunks : r \in RecsIn(frames[d])
      BY ArchivedIs
    <3>2. Ts[r] \div DayMs = DayOf[d]
      BY <3>1 DEF StoreInv
    <3>3. Ts[r] \in Nat
      <4>1. frames[d] \in Seq(SoundFrames)
        BY DEF StoreInv
      <4>2. PICK k \in DOMAIN frames[d] : r \in ToSet(frames[d][k].recs)
        BY <3>1 DEF RecsIn, ToSet
      <4>3. r \in Records
        BY <4>1, <4>2, InFrames
      <4>4. QED BY <4>3, ScanAssumption DEF ScanAssumption
    <3>4. DayOf[d] \in dates'
      BY <2>1, <2>3, <2>4, <3>2, <3>3, DayInRange DEF WantedBy
    <3>5. QED BY <2>1, <3>1, <3>4 DEF Reaches
  <2>5. QED BY <2>1, <2>2, <2>4 DEF ListInv
<1>3. ASSUME NEW d \in dates, ListDate(d) PROVE ListInv'
  <2>1. /\ phase = "list" /\ phase' = "list" /\ dates' = dates \ {d} /\ locs' = locs \cup list_keys(d)
        /\ frames' = frames /\ cmd' = cmd /\ sources' = sources /\ must' = must /\ out' = out
        /\ batches' = batches /\ heap' = heap /\ refill' = refill /\ popped' = popped
    BY <1>3 DEF ListDate, store, merge
  <2>2. sources = << >> /\ locs \subseteq Chunks
    BY <2>1 DEF ListInv
  <2>3. list_keys(d) = {c \in Chunks : frames[c] # << >> /\ DayOf[c] = d}
    BY DEF list_keys
  <2>4. \A c \in locs' : c \in Chunks /\ frames'[c] # << >> /\ DayOf[c] \notin dates'
    BY <2>1, <2>2, <2>3 DEF ListInv
  <2>5. ASSUME NEW r, Reaches(r) PROVE Reaches(r)'
    <3>1. PICK c \in Chunks : r \in RecsIn(frames[c]) /\ (DayOf[c] \in dates \/ c \in locs)
      BY <2>2, <2>5 DEF Reaches
    <3>2. frames[c] # << >>
      BY <3>1, NoRecs
    <3>3. DayOf[c] \in dates' \/ c \in locs'
      BY <2>1, <2>3, <3>1, <3>2
    <3>4. QED BY <2>1, <3>1, <3>3 DEF Reaches
  <2>6. QED BY <2>1, <2>2, <2>4, <2>5 DEF ListInv
<1>4. CASE OpenChunk
  <2> DEFINE c == Least(locs)
             e == [chunk |-> c, units |-> Units(c)]
             n == Len(sources)
  <2>1. /\ phase = "list" /\ phase' = "list" /\ dates = {} /\ dates' = dates /\ locs # {} /\ locs' = locs \ {c}
        /\ sources' = IF Units(c) = << >> THEN sources ELSE Append(sources, e)
        /\ frames' = frames /\ cmd' = cmd /\ must' = must /\ out' = out
        /\ batches' = batches /\ heap' = heap /\ refill' = refill /\ popped' = popped
    BY <1>4 DEF OpenChunk, store, merge
  <2>2. /\ locs \subseteq Chunks
        /\ \A x \in locs : frames[x] # << >> /\ \A i \in DOMAIN sources : sources[i].chunk # x
    BY <2>1 DEF ListInv
  <2>3. c \in locs /\ c \in Chunks /\ frames[c] \in Seq(SoundFrames)
    <3>1. locs \in SUBSET Nat
      BY <2>2, ScanAssumption DEF ScanAssumption
    <3>2. c \in locs
      BY <2>1, <3>1, LeastIn
    <3>3. QED BY <2>2, <3>2 DEF StoreInv
  <2>4. /\ GoodUnits(frames[c], Units(c))
        /\ \A r \in RecsIn(frames[c]) : WantedBy(cmd, r) => r \in Left(cmd, frames[c], Units(c))
    BY <2>3, UnitsGood DEF CmdInv
  <2>5. e \in [chunk: Chunks, units: Seq(Seq(Nat))] /\ e.chunk = c /\ e.units = Units(c)
    BY <2>3, <2>4, UnitsTyped
  <2>6. sources \in Seq([chunk: Chunks, units: Seq(Seq(Nat))]) /\ DOMAIN sources = 1 .. n /\ n \in Nat
    BY LenProperties DEF SourcesInv
  <2>7. Units(c) = << >> => \A r \in RecsIn(frames[c]) : ~WantedBy(cmd, r)
    <3>1. Left(cmd, frames[c], << >>) = {}
      BY DEF Left
    <3>2. QED BY <2>4, <3>1
  <2> HIDE DEF c, e, n
  <2>8. /\ \A i \in DOMAIN sources : i \in DOMAIN sources' /\ sources'[i] = sources[i]
        /\ \A i \in DOMAIN sources' : i \in DOMAIN sources \/ sources'[i] = e
        /\ Units(c) # << >> => \E i \in DOMAIN sources' : sources'[i] = e
    <3>1. CASE Units(c) = << >>
      BY <2>1, <3>1
    <3>2. CASE Units(c) # << >>
      <4>1. sources' = Append(sources, e)
        BY <2>1, <3>2
      <4>2. /\ DOMAIN sources' = 1 .. (n + 1) /\ sources'[n + 1] = e
            /\ \A i \in 1 .. n : sources'[i] = sources[i]
        BY <2>5, <2>6, <4>1, ToSetAppend DEF n
      <4>3. n + 1 \in 1 .. (n + 1) /\ \A i \in 1 .. (n + 1) : i \in 1 .. n \/ i = n + 1
        BY <2>6
      <4>4. \A i \in 1 .. n : i \in 1 .. (n + 1)
        BY <2>6
      <4>5. QED BY <2>6, <4>2, <4>3, <4>4
    <3>3. QED BY <3>1, <3>2
  <2>9. \A x \in locs' : \A i \in DOMAIN sources' : sources'[i].chunk # x
    BY <2>1, <2>2, <2>5, <2>8
  <2>10. ASSUME NEW r, WantedBy(cmd, r), Reaches(r) PROVE Reaches(r)'
    <3>1. PICK d \in Chunks :
            /\ r \in RecsIn(frames[d])
            /\ \/ DayOf[d] \in dates
               \/ d \in locs
               \/ \E i \in DOMAIN sources : sources[i].chunk = d /\ r \in Left(cmd, frames[d], sources[i].units)
      BY <2>10 DEF Reaches
    <3>2. CASE d \in locs /\ d # c
      BY <2>1, <3>1, <3>2 DEF Reaches
    <3>3. CASE d = c
      <4>1. PICK i \in DOMAIN sources' : sources'[i] = e
        BY <2>7, <2>8, <2>10, <3>1, <3>3
      <4>2. sources'[i].chunk = d /\ r \in Left(cmd, frames[d], sources'[i].units)
        BY <2>4, <2>5, <2>10, <3>1, <3>3, <4>1
      <4>3. QED BY <2>1, <3>1, <4>1, <4>2 DEF Reaches
    <3>4. CASE \E i \in DOMAIN sources : sources[i].chunk = d /\ r \in Left(cmd, frames[d], sources[i].units)
      <4>1. PICK i \in DOMAIN sources : sources[i].chunk = d /\ r \in Left(cmd, frames[d], sources[i].units)
        BY <3>4
      <4>2. i \in DOMAIN sources' /\ sources'[i] = sources[i]
        BY <2>8
      <4>3. QED BY <2>1, <3>1, <4>1, <4>2 DEF Reaches
    <3>5. QED BY <2>1, <3>1, <3>2, <3>3, <3>4
  <2>11. QED BY <2>1, <2>2, <2>9, <2>10 DEF ListInv
<1>5. CASE StartMerge \/ Refill \/ Pop \/ Return \/ Finish
  BY <1>5 DEF ListInv, StartMerge, Refill, Pop, Return, Finish
<1>6. CASE /\ core' = core
           /\ phase' = phase \/ phase' = "failed" \/ (phase = "finish" /\ phase' = "done")
  BY <1>6 DEF ListInv, Reaches, core
<1>7. QED BY <1>1, <1>2, <1>3, <1>4, <1>5, <1>6, Steps

LEMMA SourcesOrderedStep ==
  ASSUME StoreInv, CmdInv, SourcesInv, ListInv, SourcesOrdered, HeapInv, [Next]_vars
  PROVE  SourcesOrdered'
<1>1. CASE StartMerge
  <2>1. /\ frames' = frames /\ cmd' = cmd /\ sources' = sources
        /\ batches' = [i \in DOMAIN sources |-> << >>]
    BY <1>1 DEF StartMerge, store, listing
  <2>2. << >> \in Seq(Records) /\ ToSet(<< >>) = {} /\ IsInjective(<< >>)
    BY DEF ToSet, IsInjective
  <2>3. \A i \in DOMAIN sources : SourceInv(cmd, frames[sources[i].chunk], sources[i].units, << >>)
    BY <2>2 DEF SourceInv, SourcesInv
  <2>4. QED BY <2>1, <2>2, <2>3 DEF SourcesOrdered
<1>2. CASE Refill
  <2>1. PICK i : i = Head(refill)
    OBVIOUS
  <2>2. Refilled(i)
    BY <1>2, <2>1, RefillEffect
  <2>3. frames' = frames /\ cmd' = cmd /\ phase' = phase /\ phase = "merge"
    BY <1>2 DEF Refill, store
  <2>4. \A k \in DOMAIN sources : SourceInv(cmd, frames[sources[k].chunk], sources[k].units, batches[k])
    BY <2>3 DEF SourcesOrdered, Merging
  <2>5. \A k \in DOMAIN sources : SourceInv(cmd, frames[sources'[k].chunk], sources'[k].units, batches'[k])
    BY <2>2, <2>4 DEF Refilled
  <2>6. QED BY <2>2, <2>3, <2>5 DEF SourcesOrdered, Refilled
<1>3. CASE Pop \/ Return \/ Finish
  BY <1>3 DEF Pop, Return, Finish, SourcesOrdered, Merging, store, listing, merge
<1>4. CASE \/ \E c \in Chunks : PutData(c)
           \/ \E c \in Commands : StartScan(c)
           \/ \E d \in dates : ListDate(d)
           \/ OpenChunk
  BY <1>4 DEF PutData, Open, StartScan, ListDate, OpenChunk, SourcesOrdered, Merging
<1>5. CASE /\ core' = core
           /\ phase' = phase \/ phase' = "failed" \/ (phase = "finish" /\ phase' = "done")
  BY <1>5 DEF SourcesOrdered, Merging, core
<1>6. QED BY <1>1, <1>2, <1>3, <1>4, <1>5, Steps

\* Only a refill changes what a source has ahead.
LEMMA AheadSame ==
  ASSUME frames' = frames, cmd' = cmd, NEW i, sources'[i] = sources[i], batches'[i] = batches[i]
  PROVE  AheadOf(i)' = AheadOf(i)
  BY DEF AheadOf

LEMMA HeapStep ==
  ASSUME StoreInv, CmdInv, SourcesInv, ListInv, SourcesOrdered, HeapInv, [Next]_vars
  PROVE  HeapInv'
<1>1. CASE StartMerge
  <2>1. /\ phase = "list" /\ sources' = sources /\ heap' = heap
        /\ refill' = [i \in DOMAIN sources |-> i]
    BY <1>1 DEF StartMerge, listing
  <2>2. heap' = {}
    BY <2>1 DEF ListInv
  <2>3. DOMAIN sources = 1 .. Len(sources) /\ Len(sources) \in Nat
    BY LenProperties DEF SourcesInv
  <2> DEFINE n == Len(sources)
  <2> HIDE DEF n
  <2>4. refill' \in [1 .. n -> DOMAIN sources] /\ n \in Nat
    BY <2>1, <2>3 DEF n
  <2>5. refill' \in Seq(DOMAIN sources)
    BY <2>4, SeqOfFunction
  <2>6. IsInjective(refill') /\ ToSet(refill') = DOMAIN sources
    BY <2>1 DEF IsInjective, ToSet
  <2>7. QED BY <2>1, <2>2, <2>5, <2>6 DEF HeapInv
<1>2. CASE Refill
  <2>1. PICK i : i = Head(refill)
    OBVIOUS
  <2>2. Refilled(i)
    BY <1>2, <2>1, RefillEffect
  <2>3. frames' = frames /\ cmd' = cmd /\ phase = "merge"
    BY <1>2 DEF Refill, store
  <2>4. /\ i \in DOMAIN sources /\ refill # << >> /\ DOMAIN sources' = DOMAIN sources
        /\ \A k \in DOMAIN sources : sources'[k].chunk = sources[k].chunk
    BY <2>2 DEF Refilled
  <2>5. \A k \in DOMAIN sources : k # i => AheadOf(k)' = AheadOf(k)
    BY <2>2, <2>3, AheadSame DEF Refilled
  <2>6. /\ refill \in Seq(DOMAIN sources) /\ IsInjective(refill)
        /\ heap \subseteq [rec: Records, src: DOMAIN sources]
        /\ \A g, h \in heap : g.src = h.src => g = h
        /\ \A h \in heap :
             /\ h.src \notin ToSet(refill)
             /\ h.rec \in RecsIn(frames[sources[h.src].chunk]) /\ WantedBy(cmd, h.rec)
             /\ h.rec \notin AheadOf(h.src) /\ \A r \in AheadOf(h.src) : ~Earlier(r, h.rec)
        /\ \A k \in DOMAIN sources :
             k \in ToSet(refill) \/ AheadOf(k) = {} \/ \E h \in heap : h.src = k
    BY <2>3 DEF HeapInv, Merging
  <2>7. /\ Tail(refill) \in Seq(DOMAIN sources) /\ IsInjective(Tail(refill))
        /\ ToSet(refill) = ToSet(Tail(refill)) \cup {i} /\ i \notin ToSet(Tail(refill))
    BY <2>1, <2>4, <2>6, TailOf
  <2>8. \A h \in heap : h.src \in DOMAIN sources /\ h.src # i
    BY <2>6, <2>7
  \* The parts of the invariant, with the old heap
  <2>9. \A h \in heap : \A k : k = h.src =>
          /\ h.rec \in RecsIn(frames[sources'[k].chunk]) /\ WantedBy(cmd, h.rec)
          /\ h.rec \notin AheadOf(k)' /\ \A r \in AheadOf(k)' : ~Earlier(r, h.rec)
    BY <2>4, <2>5, <2>6, <2>8
  <2>10. \A k \in DOMAIN sources : k # i =>
           k \in ToSet(Tail(refill)) \/ AheadOf(k)' = {} \/ \E h \in heap : h.src = k
    BY <2>5, <2>6, <2>7
  <2>11. CASE heap' = heap /\ refill' = refill
    <3>1. \A h \in heap : /\ h.src \notin ToSet(refill')
                          /\ h.rec \in RecsIn(frames'[sources'[h.src].chunk]) /\ WantedBy(cmd', h.rec)
      BY <2>3, <2>6, <2>9, <2>11
    <3>2. \A k \in DOMAIN sources : k \in ToSet(refill) \/ AheadOf(k)' = {} \/ \E h \in heap : h.src = k
      BY <2>7, <2>10
    <3>3. \A h \in heap' : \A k : k = h.src => h.rec \notin AheadOf(k)' /\ \A r \in AheadOf(k)' : ~Earlier(r, h.rec)
      BY <2>9, <2>11
    <3>4. QED BY <2>4, <2>6, <2>11, <3>1, <3>2, <3>3 DEF HeapInv
  <2>12. CASE heap' = heap /\ refill' = Tail(refill) /\ AheadOf(i)' = AheadOf(i) /\ AheadOf(i) = {}
    <3>1. \A h \in heap : /\ h.src \notin ToSet(refill')
                          /\ h.rec \in RecsIn(frames'[sources'[h.src].chunk]) /\ WantedBy(cmd', h.rec)
      BY <2>3, <2>6, <2>7, <2>9, <2>12
    <3>2. \A k \in DOMAIN sources : k \in ToSet(refill') \/ AheadOf(k)' = {} \/ \E h \in heap : h.src = k
      BY <2>10, <2>12
    <3>3. \A h \in heap' : \A k : k = h.src => h.rec \notin AheadOf(k)' /\ \A r \in AheadOf(k)' : ~Earlier(r, h.rec)
      BY <2>9, <2>12
    <3>4. QED BY <2>4, <2>6, <2>7, <2>12, <3>1, <3>2, <3>3 DEF HeapInv
  <2>13. ASSUME NEW x \in AheadOf(i), refill' = Tail(refill),
                heap' = heap \cup {[rec |-> x, src |-> i]},
                AheadOf(i)' = AheadOf(i) \ {x}, \A r \in AheadOf(i) \ {x} : ~Earlier(r, x)
         PROVE  HeapInv'
    <3> DEFINE e == [rec |-> x, src |-> i]
    <3>1. e.rec = x /\ e.src = i
      OBVIOUS
    <3>2. x \in RecsIn(frames[sources[i].chunk]) /\ x \in Records /\ WantedBy(cmd, x)
      <4>1. SourceInv(cmd, frames[sources[i].chunk], sources[i].units, batches[i])
        BY <2>3, <2>4 DEF SourcesOrdered, Merging
      <4>2. frames[sources[i].chunk] \in Seq(SoundFrames)
        BY <2>4, SourceAt
      <4>3. QED BY <4>1, <4>2, AheadIn DEF AheadOf
    <3>3. e \in [rec: Records, src: DOMAIN sources]
      BY <2>4, <3>2
    <3>4. heap' = heap \cup {e}
      BY <2>13
    <3> HIDE DEF e
    <3>5. heap' \subseteq [rec: Records, src: DOMAIN sources] /\ \A g, h \in heap' : g.src = h.src => g = h
      BY <2>6, <2>8, <3>1, <3>3, <3>4
    <3>6. \A h \in heap' : /\ h.src \notin ToSet(refill')
                           /\ h.rec \in RecsIn(frames'[sources'[h.src].chunk]) /\ WantedBy(cmd', h.rec)
      BY <2>3, <2>4, <2>6, <2>7, <2>9, <2>13, <3>1, <3>2, <3>4
    <3>7. \A h \in heap' : \A k : k = h.src => h.rec \notin AheadOf(k)' /\ \A r \in AheadOf(k)' : ~Earlier(r, h.rec)
      BY <2>9, <2>13, <3>1, <3>4
    <3>8. \A k \in DOMAIN sources : k \in ToSet(refill') \/ AheadOf(k)' = {} \/ \E h \in heap' : h.src = k
      BY <2>10, <2>13, <3>1, <3>4
    <3>9. QED BY <2>4, <2>7, <2>13, <3>5, <3>6, <3>7, <3>8 DEF HeapInv
  <2>14. QED BY <2>2, <2>11, <2>12, <2>13 DEF Refilled
<1>3. CASE Pop
  <2>1. PICK h \in heap : heap' = heap \ {h} /\ refill' = <<h.src>>
    BY <1>3 DEF Pop
  <2>2. /\ frames' = frames /\ cmd' = cmd /\ phase = "merge" /\ refill = << >>
        /\ sources' = sources /\ batches' = batches
    BY <1>3 DEF Pop, store, listing
  <2>3. \A k : AheadOf(k)' = AheadOf(k)
    BY <2>2, AheadSame
  <2>4. /\ heap \subseteq [rec: Records, src: DOMAIN sources]
        /\ \A f, g \in heap : f.src = g.src => f = g
        /\ \A g \in heap :
             /\ g.rec \in RecsIn(frames[sources[g.src].chunk]) /\ WantedBy(cmd, g.rec)
             /\ g.rec \notin AheadOf(g.src) /\ \A r \in AheadOf(g.src) : ~Earlier(r, g.rec)
        /\ \A k \in DOMAIN sources :
             k \in ToSet(refill) \/ AheadOf(k) = {} \/ \E g \in heap : g.src = k
    BY <2>2 DEF HeapInv, Merging
  <2>5. h.src \in DOMAIN sources
    BY <2>1, <2>4
  <2>6. refill' \in Seq(DOMAIN sources) /\ IsInjective(refill') /\ ToSet(refill') = {h.src}
    BY <2>1, <2>5 DEF IsInjective, ToSet
  <2>7. \A g \in heap' : /\ g \in heap /\ g.src \notin ToSet(refill')
                         /\ g.rec \in RecsIn(frames'[sources'[g.src].chunk]) /\ WantedBy(cmd', g.rec)
    BY <2>1, <2>2, <2>4, <2>6
  <2>8. \A g \in heap' : \A k : k = g.src => g.rec \notin AheadOf(k)' /\ \A r \in AheadOf(k)' : ~Earlier(r, g.rec)
    BY <2>3, <2>4, <2>7
  <2>9. \A k \in DOMAIN sources : k \in ToSet(refill') \/ AheadOf(k)' = {} \/ \E g \in heap' : g.src = k
    <3>1. ToSet(refill) = {}
      BY <2>2, NoRecs
    <3>2. QED BY <2>1, <2>3, <2>4, <2>6, <3>1
  <2>10. QED BY <2>1, <2>2, <2>4, <2>6, <2>7, <2>8, <2>9 DEF HeapInv
<1>4. CASE Return \/ Finish
  <2>1. /\ frames' = frames /\ cmd' = cmd /\ sources' = sources /\ batches' = batches /\ heap' = heap
        /\ refill' = refill /\ phase = "merge"
    BY <1>4 DEF Return, Finish, store, listing, merge
  <2>2. \A k : AheadOf(k)' = AheadOf(k)
    BY <2>1, AheadSame
  <2>3. QED BY <2>1, <2>2 DEF HeapInv, Merging
<1>5. CASE \/ \E c \in Chunks : PutData(c)
           \/ \E c \in Commands : StartScan(c)
           \/ \E d \in dates : ListDate(d)
           \/ OpenChunk
  BY <1>5 DEF PutData, Open, StartScan, ListDate, OpenChunk, HeapInv, Merging
<1>6. CASE /\ core' = core
           /\ phase' = phase \/ phase' = "failed" \/ (phase = "finish" /\ phase' = "done")
  <2>1. \A k : AheadOf(k)' = AheadOf(k)
    BY <1>6, AheadSame DEF core
  <2>2. QED BY <1>6, <2>1 DEF HeapInv, Merging, core
<1>7. QED BY <1>1, <1>2, <1>3, <1>4, <1>5, <1>6, Steps

\* What is upcoming is in S3 and wanted.
LEMMA AheadOfIn ==
  ASSUME StoreInv, SourcesInv, SourcesOrdered, Merging, NEW i \in DOMAIN sources, NEW r \in AheadOf(i)
  PROVE  /\ r \in RecsIn(frames[sources[i].chunk]) /\ r \in Records /\ WantedBy(cmd, r)
         /\ sources[i].chunk \in Chunks
<1>1. SourceInv(cmd, frames[sources[i].chunk], sources[i].units, batches[i])
  BY DEF SourcesOrdered
<1>2. frames[sources[i].chunk] \in Seq(SoundFrames) /\ sources[i].chunk \in Chunks
  BY SourceAt
<1>3. QED BY <1>1, <1>2, AheadIn DEF AheadOf

\* A record is in the chunk of one source only.
LEMMA OneSource ==
  ASSUME StoreInv, SourcesInv, NEW i \in DOMAIN sources, NEW k \in DOMAIN sources, i # k,
         NEW r \in RecsIn(frames[sources[i].chunk]), NEW s \in RecsIn(frames[sources[k].chunk])
  PROVE  r # s
<1>1. sources[i].chunk # sources[k].chunk
  BY DEF SourcesInv
<1>2. sources[i].chunk \in Chunks /\ sources[k].chunk \in Chunks
  BY SourceAt
<1>3. QED BY <1>1, <1>2 DEF StoreInv

\* A refill neither adds nor loses a record.
LEMMA RefillKeeps ==
  ASSUME StoreInv, CmdInv, SourcesInv, SourcesOrdered, HeapInv, Refill
  PROVE  Upcoming' = Upcoming
<1>1. PICK i : i = Head(refill)
  OBVIOUS
<1>2. Refilled(i)
  BY <1>1, RefillEffect
<1>3. frames' = frames /\ cmd' = cmd
  BY DEF Refill, store
<1>4. i \in DOMAIN sources /\ DOMAIN sources' = DOMAIN sources
  BY <1>2 DEF Refilled
<1>5. \A k \in DOMAIN sources : k # i => AheadOf(k)' = AheadOf(k)
  BY <1>2, <1>3, AheadSame DEF Refilled
<1>6. CASE heap' = heap /\ AheadOf(i)' = AheadOf(i)
  <2>1. \A k \in DOMAIN sources : AheadOf(k)' = AheadOf(k)
    BY <1>5, <1>6
  <2>2. QED BY <1>4, <1>6, <2>1 DEF Upcoming
<1>7. ASSUME NEW x \in AheadOf(i), heap' = heap \cup {[rec |-> x, src |-> i]},
             AheadOf(i)' = AheadOf(i) \ {x}
      PROVE  Upcoming' = Upcoming
  <2> DEFINE H == {h.rec : h \in heap}
             A == UNION {AheadOf(k) : k \in DOMAIN sources}
             B == UNION {AheadOf(k)' : k \in DOMAIN sources}
  <2>1. {h.rec : h \in heap'} = H \cup {x}
    <3> DEFINE e == [rec |-> x, src |-> i]
    <3>1. e.rec = x /\ heap' = heap \cup {e}
      BY <1>7
    <3> HIDE DEF e
    <3>2. QED BY <3>1
  <2>2. \A k \in DOMAIN sources : AheadOf(k)' \subseteq AheadOf(k) /\ AheadOf(k) \subseteq AheadOf(k)' \cup {x}
    BY <1>5, <1>7
  <2>3. B \cup {x} = A
    BY <1>4, <1>7, <2>2
  <2>4. Upcoming = H \cup A
    BY DEF Upcoming
  <2>5. Upcoming' = {h.rec : h \in heap'} \cup B
    BY <1>4 DEF Upcoming
  <2> HIDE DEF H, A, B
  <2>6. QED BY <2>1, <2>3, <2>4, <2>5
<1>8. QED BY <1>2, <1>6, <1>7 DEF Refilled

\* The least head is before everything that comes, and is not to come again.
LEMMA PopLeast ==
  ASSUME StoreInv, CmdInv, SourcesInv, SourcesOrdered, HeapInv, Merging, refill = << >>,
         NEW h \in heap, \A g \in heap : g # h => Precedes(h.rec, h.src, g.rec, g.src)
  PROVE  /\ h.rec \in Records /\ h.rec \in Archived /\ WantedBy(cmd, h.rec) /\ h.rec \in Upcoming
         /\ \A g \in heap : g # h => g.rec # h.rec /\ ~Earlier(g.rec, h.rec)
         /\ \A k \in DOMAIN sources : \A u \in AheadOf(k) : u # h.rec /\ ~Earlier(u, h.rec)
<1>1. /\ heap \subseteq [rec: Records, src: DOMAIN sources]
      /\ \A f, g \in heap : f.src = g.src => f = g
      /\ \A g \in heap :
           /\ g.rec \in RecsIn(frames[sources[g.src].chunk]) /\ WantedBy(cmd, g.rec)
           /\ g.rec \notin AheadOf(g.src) /\ \A r \in AheadOf(g.src) : ~Earlier(r, g.rec)
      /\ \A k \in DOMAIN sources : AheadOf(k) = {} \/ \E g \in heap : g.src = k
  BY NoRecs DEF HeapInv
<1>2. \A g \in heap : g.rec \in Records /\ g.src \in DOMAIN sources
  BY <1>1
<1>3. h.rec \in Archived
  <2>1. sources[h.src].chunk \in Chunks
    BY <1>2, SourceAt
  <2>2. QED BY <1>1, <2>1, ArchivedIs
<1>4. ASSUME NEW g \in heap, g # h PROVE g.rec # h.rec /\ ~Earlier(g.rec, h.rec)
  <2>1. g.src # h.src
    BY <1>1, <1>4
  <2>2. g.rec # h.rec
    BY <1>1, <1>2, <2>1, OneSource
  <2>3. Precedes(h.rec, h.src, g.rec, g.src)
    BY <1>4
  <2>4. QED BY <1>2, <2>2, <2>3, EarlierOrder DEF Precedes
<1>5. ASSUME NEW k \in DOMAIN sources, NEW u \in AheadOf(k) PROVE u # h.rec /\ ~Earlier(u, h.rec)
  <2>1. u \in RecsIn(frames[sources[k].chunk]) /\ u \in Records
    BY AheadOfIn
  <2>2. PICK g \in heap : g.src = k
    BY <1>1
  <2>3. ~Earlier(u, g.rec) /\ u # g.rec
    BY <1>1, <2>2
  <2>4. CASE g = h
    BY <2>3, <2>4
  <2>5. CASE g # h
    <3>1. ~Earlier(g.rec, h.rec)
      BY <1>4, <2>5
    <3>2. ~Earlier(u, h.rec)
      BY <1>2, <2>1, <2>3, <3>1, EarlierOrder
    <3>3. k # h.src
      BY <1>1, <2>2, <2>5
    <3>4. u # h.rec
      BY <1>1, <1>2, <2>1, <3>3, OneSource
    <3>5. QED BY <3>2, <3>4
  <2>6. QED BY <2>4, <2>5
<1>6. h.rec \in Upcoming
  BY DEF Upcoming
<1>7. QED BY <1>1, <1>2, <1>3, <1>4, <1>5, <1>6

LEMMA UpcomingSame ==
  ASSUME frames' = frames, cmd' = cmd, sources' = sources, batches' = batches, heap' = heap
  PROVE  Upcoming' = Upcoming
<1>1. \A k : AheadOf(k)' = AheadOf(k)
  BY AheadSame
<1>2. QED BY <1>1 DEF Upcoming

LEMMA PopStep ==
  ASSUME StoreInv, CmdInv, SourcesInv, ListInv, SourcesOrdered, HeapInv, OutInv, PopInv, [Next]_vars
  PROVE  PopInv'
<1>1. CASE StartMerge
  <2>1. /\ phase = "list" /\ phase' = "merge" /\ frames' = frames /\ cmd' = cmd /\ sources' = sources
        /\ batches' = [i \in DOMAIN sources |-> << >>] /\ dates = {} /\ locs = {}
        /\ popped' = popped /\ out' = out /\ must' = must
    BY <1>1 DEF StartMerge, store, listing
  <2>2. popped' = << >> /\ out' = << >>
    BY <2>1 DEF ListInv
  <2>3. << >> \in Seq(Records) /\ Len(<< >>) = 0 /\ ToSet(<< >>) = {}
    BY NoRecs
  <2>4. ASSUME NEW r \in must, WantedBy(cmd, r) PROVE r \in Upcoming'
    <3>1. Reaches(r)
      BY <2>1, <2>4 DEF ListInv
    <3>2. PICK i \in DOMAIN sources : r \in Left(cmd, frames[sources[i].chunk], sources[i].units)
      BY <2>1, <3>1 DEF Reaches
    <3>3. r \in AheadOf(i)'
      BY <2>1, <3>2 DEF AheadOf, Ahead
    <3>4. QED BY <2>1, <3>2, <3>3 DEF Upcoming
  <2>5. QED BY <2>1, <2>2, <2>3, <2>4 DEF PopInv
<1>2. CASE Refill
  <2>1. Upcoming' = Upcoming
    BY <1>2, RefillKeeps
  <2>2. /\ frames' = frames /\ cmd' = cmd /\ phase' = "merge" /\ phase = "merge"
        /\ popped' = popped /\ out' = out /\ must' = must
    BY <1>2 DEF Refill, store
  <2>3. Archived' = Archived
    BY <2>2 DEF Archived
  <2>4. QED BY <2>1, <2>2, <2>3 DEF PopInv, Merging
<1>3. CASE Pop
  <2>1. PICK h \in heap : /\ \A g \in heap : g # h => Precedes(h.rec, h.src, g.rec, g.src)
                          /\ heap' = heap \ {h} /\ popped' = <<h.rec>>
    BY <1>3 DEF Pop
  <2>2. /\ frames' = frames /\ cmd' = cmd /\ phase = "merge" /\ phase' = "merge" /\ refill = << >> /\ popped = << >>
        /\ sources' = sources /\ batches' = batches /\ out' = out /\ must' = must
    BY <1>3 DEF Pop, store, listing
  <2>3. Merging
    BY <2>2 DEF Merging
  <2>4. /\ h.rec \in Records /\ h.rec \in Archived /\ WantedBy(cmd, h.rec) /\ h.rec \in Upcoming
        /\ \A g \in heap : g # h => g.rec # h.rec /\ ~Earlier(g.rec, h.rec)
        /\ \A k \in DOMAIN sources : \A u \in AheadOf(k) : u # h.rec /\ ~Earlier(u, h.rec)
    BY <2>1, <2>2, <2>3, PopLeast
  <2>5. \A k : AheadOf(k)' = AheadOf(k)
    BY <2>2, AheadSame
  <2> DEFINE x == h.rec
             A == UNION {AheadOf(k) : k \in DOMAIN sources}
  <2>6. Upcoming = {g.rec : g \in heap} \cup A /\ Upcoming' = {g.rec : g \in heap'} \cup A
    BY <2>2, <2>5 DEF Upcoming
  <2>7. \A u \in A : u # x /\ ~Earlier(u, x)
    BY <2>4
  <2>8. \A u \in {g.rec : g \in heap'} : u # x /\ ~Earlier(u, x)
    BY <2>1, <2>4
  <2>9. {g.rec : g \in heap} = {g.rec : g \in heap'} \cup {x}
    BY <2>1
  <2> HIDE DEF x, A
  <2>10. Upcoming' \subseteq Upcoming /\ Upcoming = Upcoming' \cup {x} /\ \A u \in Upcoming' : u # x /\ ~Earlier(u, x)
    BY <2>6, <2>7, <2>8, <2>9
  <2>11. popped' \in Seq(Records) /\ Len(popped') <= 1 /\ ToSet(popped') = {x} /\ ToSet(popped) = {}
    <3>1. popped' = <<x>> /\ x \in Records
      BY <2>1, <2>4 DEF x
    <3>2. QED BY <2>2, <3>1, NoRecs DEF ToSet
  <2>12. Archived' = Archived
    BY <2>2 DEF Archived
  <2>13. /\ \A u \in Upcoming, r \in ToSet(out) : u # r /\ ~Earlier(u, r)
         /\ \A r \in must : WantedBy(cmd, r) => r \in ToSet(out) \cup Upcoming
    BY <2>3, <2>11 DEF PopInv
  <2>14. x \in Upcoming /\ x \in Archived /\ WantedBy(cmd, x)
    BY <2>4 DEF x
  <2>15. QED BY <2>2, <2>10, <2>11, <2>12, <2>13, <2>14 DEF PopInv
<1>4. CASE Return
  <2>1. /\ frames' = frames /\ cmd' = cmd /\ sources' = sources /\ batches' = batches /\ heap' = heap
        /\ refill' = refill /\ phase = "merge" /\ phase' = "merge" /\ must' = must
        /\ popped # << >> /\ popped' = << >> /\ out' = Append(out, Head(popped))
    BY <1>4 DEF Return, store, listing
  <2>2. Upcoming' = Upcoming
    BY <2>1, UpcomingSame
  <2>3. popped \in Seq(Records) /\ Len(popped) <= 1 /\ out \in Seq(Records)
    BY <2>1 DEF PopInv, OutInv, Merging
  <2>4. Head(popped) \in Records /\ ToSet(popped) = {Head(popped)}
    <3>1. Head(popped) = popped[1] /\ Head(popped) \in Records /\ DOMAIN popped = 1 .. Len(popped) /\ Len(popped) \in Nat \ {0}
      BY <2>1, <2>3, TailOf
    <3>2. DOMAIN popped = {1}
      BY <2>3, <3>1
    <3>3. QED BY <3>1, <3>2 DEF ToSet
  <2>5. ToSet(out') = ToSet(out) \cup ToSet(popped) /\ ToSet(popped') = {} /\ Len(popped') = 0 /\ popped' \in Seq(Records)
    BY <2>1, <2>3, <2>4, ToSetAppend, NoRecs
  <2>6. /\ \A u \in Upcoming, r \in ToSet(popped) \cup ToSet(out) : u # r /\ ~Earlier(u, r)
        /\ \A r \in must : WantedBy(cmd, r) => r \in ToSet(out) \cup ToSet(popped) \cup Upcoming
    BY <2>1 DEF PopInv, Merging
  <2>7. QED BY <2>1, <2>2, <2>5, <2>6 DEF PopInv
<1>5. CASE Finish
  <2>1. /\ frames' = frames /\ cmd' = cmd /\ sources' = sources /\ batches' = batches /\ heap' = heap
        /\ refill' = refill /\ popped' = popped /\ out' = out /\ must' = must /\ phase = "merge"
        /\ refill = << >> /\ heap = {} /\ popped = << >>
    BY <1>5 DEF Finish, store, listing, merge
  <2>2. Upcoming' = Upcoming /\ Archived' = Archived
    BY <2>1, UpcomingSame DEF Archived
  <2>3. QED BY <2>1, <2>2 DEF PopInv, Merging
<1>6. CASE \/ \E c \in Chunks : PutData(c)
           \/ \E c \in Commands : StartScan(c)
           \/ \E d \in dates : ListDate(d)
           \/ OpenChunk
  BY <1>6 DEF PutData, Open, StartScan, ListDate, OpenChunk, PopInv, Merging
<1>7. CASE /\ core' = core
           /\ phase' = phase \/ phase' = "failed" \/ (phase = "finish" /\ phase' = "done")
  <2>1. Upcoming' = Upcoming /\ Archived' = Archived
    BY <1>7, UpcomingSame DEF core, Archived
  <2>2. QED BY <1>7, <2>1 DEF PopInv, Merging, core
<1>8. QED BY <1>1, <1>2, <1>3, <1>4, <1>5, <1>6, <1>7, Steps

\* next_indexed returns the one record that was popped.
LEMMA ReturnEffect ==
  ASSUME OutInv, PopInv, Return
  PROVE  /\ out \in Seq(Records) /\ Head(popped) \in Records
         /\ out' = Append(out, Head(popped)) /\ ToSet(popped) = {Head(popped)}
         /\ Head(popped) \in Archived /\ WantedBy(cmd, Head(popped))
         /\ \A r \in ToSet(out) : Head(popped) # r /\ ~Earlier(Head(popped), r)
<1>1. phase = "merge" /\ popped # << >> /\ out' = Append(out, Head(popped))
  BY DEF Return
<1>2. /\ popped \in Seq(Records) /\ Len(popped) <= 1 /\ out \in Seq(Records)
      /\ \A p \in ToSet(popped) : p \in Archived /\ WantedBy(cmd, p)
      /\ \A p \in ToSet(popped), r \in ToSet(out) : p # r /\ ~Earlier(p, r)
  BY <1>1 DEF PopInv, OutInv, Merging
<1>3. Head(popped) = popped[1] /\ Head(popped) \in Records /\ DOMAIN popped = 1 .. Len(popped) /\ Len(popped) \in Nat \ {0}
  BY <1>1, <1>2, TailOf
<1>4. DOMAIN popped = {1}
  BY <1>2, <1>3
<1>5. ToSet(popped) = {Head(popped)}
  BY <1>3, <1>4 DEF ToSet
<1>6. QED BY <1>1, <1>2, <1>3, <1>5

\* The output grows at its end by what belongs there.
LEMMA OutAppend ==
  ASSUME NEW q \in Seq(Records), IsInjective(q), NEW p \in Records,
         \A i, k \in DOMAIN q : i < k => ~Earlier(q[k], q[i]),
         \A r \in ToSet(q) : p # r /\ ~Earlier(p, r)
  PROVE  /\ Append(q, p) \in Seq(Records) /\ IsInjective(Append(q, p))
         /\ \A i, k \in DOMAIN Append(q, p) : i < k => ~Earlier(Append(q, p)[k], Append(q, p)[i])
<1> DEFINE t == Append(q, p)
           n == Len(q)
<1>1. /\ t \in Seq(Records) /\ DOMAIN t = 1 .. (n + 1) /\ t[n + 1] = p
      /\ \A i \in 1 .. n : t[i] = q[i]
  BY ToSetAppend
<1>2. n \in Nat /\ DOMAIN q = 1 .. n
  BY LenProperties
<1>3. IsInjective(t)
  <2>1. p \notin ToSet(q)
    OBVIOUS
  <2>2. QED BY <2>1, AppendOnce
<1> HIDE DEF t, n
<1>4. ASSUME NEW i \in DOMAIN t, NEW k \in DOMAIN t, i < k PROVE ~Earlier(t[k], t[i])
  <2>1. i \in 1 .. n /\ (k = n + 1 \/ k \in 1 .. n)
    BY <1>1, <1>2, <1>4
  <2>2. q[i] \in ToSet(q)
    BY <1>2, <2>1 DEF ToSet
  <2>3. CASE k = n + 1
    BY <1>1, <2>1, <2>2, <2>3
  <2>4. CASE k \in 1 .. n
    BY <1>1, <1>2, <1>4, <2>1, <2>4
  <2>5. QED BY <2>1, <2>3, <2>4
<1>5. QED BY <1>1, <1>3, <1>4 DEF t

LEMMA OutStep ==
  ASSUME StoreInv, ListInv, OutInv, PopInv, [Next]_vars
  PROVE  OutInv'
<1>1. CASE out' = << >>
  <2>1. << >> \in Seq(Records) /\ IsInjective(<< >>) /\ ToSet(<< >>) = {} /\ DOMAIN << >> = {}
    BY NoRecs DEF IsInjective
  <2>2. QED BY <1>1, <2>1 DEF OutInv
<1>2. CASE out' = out /\ frames' = frames /\ cmd' = cmd
  BY <1>2 DEF OutInv, Archived
<1>3. CASE Return
  <2>1. /\ out \in Seq(Records) /\ Head(popped) \in Records
        /\ out' = Append(out, Head(popped))
        /\ Head(popped) \in Archived /\ WantedBy(cmd, Head(popped))
        /\ \A r \in ToSet(out) : Head(popped) # r /\ ~Earlier(Head(popped), r)
    BY <1>3, ReturnEffect
  <2>2. cmd' = cmd /\ Archived' = Archived
    BY <1>3 DEF Return, store, Archived
  <2>3. /\ out' \in Seq(Records) /\ IsInjective(out')
        /\ \A i, k \in DOMAIN out' : i < k => ~Earlier(out'[k], out'[i])
    BY <2>1, OutAppend DEF OutInv
  <2>4. ToSet(out') = ToSet(out) \cup {Head(popped)}
    BY <2>1, ToSetAppend
  <2>5. QED BY <2>1, <2>2, <2>3, <2>4 DEF OutInv
<1>4. CASE \E c \in Chunks : PutData(c)
  BY <1>1, <1>4 DEF PutData, Open, ListInv
<1>5. CASE \E c \in Commands : StartScan(c)
  BY <1>1, <1>5 DEF StartScan, ListInv
<1>6. CASE \/ \E d \in dates : ListDate(d)
           \/ OpenChunk \/ StartMerge \/ Refill \/ Pop \/ Finish
           \/ core' = core
  BY <1>2, <1>6 DEF ListDate, OpenChunk, StartMerge, Refill, Pop, Finish, core, store
<1>7. QED BY <1>3, <1>4, <1>5, <1>6, Steps

-----------------------------------------------------------------------------
(* Part 6: the scan *)

ScanInv ==
  /\ StoreInv /\ CmdInv /\ SourcesInv /\ ListInv
  /\ SourcesOrdered /\ HeapInv /\ OutInv /\ PopInv

LEMMA ScanInit == ASSUME Init PROVE ScanInv
<1>1. ToSet(<< >>) = {} /\ RecsIn(<< >>) = {}
  BY NoRecs
<1>2. StoreInv
  <2>1. << >> \in Seq(SoundFrames) /\ OncePlaced(<< >>)
    BY DEF OncePlaced
  <2>2. QED BY <1>1, <2>1 DEF Init, StoreInv
<1>3. CmdInv
  BY DEF Init, CmdInv, NoCommand
<1>4. SourcesInv
  BY DEF Init, SourcesInv
<1>5. ListInv
  BY DEF Init, ListInv
<1>6. SourcesOrdered /\ HeapInv /\ PopInv
  BY DEF Init, SourcesOrdered, HeapInv, PopInv, Merging
<1>7. OutInv
  BY <1>1 DEF Init, OutInv, IsInjective
<1>8. QED BY <1>2, <1>3, <1>4, <1>5, <1>6, <1>7 DEF ScanInv

LEMMA ScanStep == ASSUME ScanInv, [Next]_vars PROVE ScanInv'
<1> USE DEF ScanInv
<1>1. StoreInv' /\ CmdInv'
  BY StoreStep, CmdStep
<1>2. SourcesInv' /\ ListInv'
  BY SourcesStep, ListStep
<1>3. SourcesOrdered' /\ HeapInv'
  BY SourcesOrderedStep, HeapStep
<1>4. OutInv' /\ PopInv'
  BY OutStep, PopStep
<1>5. QED BY <1>1, <1>2, <1>3, <1>4

LEMMA ScanAlways == Spec => []ScanInv
<1>1. Init => ScanInv
  BY ScanInit
<1>2. ScanInv /\ [Next]_vars => ScanInv'
  BY ScanStep
<1>3. QED BY <1>1, <1>2, PTL DEF Spec

LEMMA OutOrdered == ASSUME OutInv PROVE Ordered
<1> SUFFICES ASSUME NEW i \in 1 .. Len(out) - 1
             PROVE  \/ Ts[out[i]] < Ts[out[i + 1]]
                    \/ Ts[out[i]] = Ts[out[i + 1]] /\ StreamOf[out[i]] <= StreamOf[out[i + 1]]
  BY DEF Ordered
<1>1. out \in Seq(Records) /\ Len(out) \in Nat /\ DOMAIN out = 1 .. Len(out)
  BY LenProperties DEF OutInv
<1>2. i \in DOMAIN out /\ i + 1 \in DOMAIN out /\ i < i + 1
  BY <1>1
<1>3. out[i] \in Records /\ out[i + 1] \in Records
  BY <1>1, <1>2
<1>4. ~Earlier(out[i + 1], out[i])
  BY <1>2 DEF OutInv
<1>5. Ts[out[i]] \in Nat /\ Ts[out[i + 1]] \in Nat /\ StreamOf[out[i]] \in Nat /\ StreamOf[out[i + 1]] \in Nat
  BY <1>3, ScanAssumption DEF ScanAssumption
<1>6. QED BY <1>4, <1>5 DEF Earlier

LEMMA DrainedExact == ASSUME ScanInv PROVE ScanExact
<1> SUFFICES ASSUME phase = "done"
             PROVE  /\ {r \in must : Wanted(r)} \subseteq ToSet(out)
                    /\ \A r \in ToSet(out) : r \in Archived /\ Wanted(r)
                    /\ IsInjective(out)
  BY DEF ScanExact
<1>1. \A r : Wanted(r) <=> WantedBy(cmd, r)
  BY DEF Wanted, WantedBy
<1>2. /\ refill = << >> /\ heap = {} /\ popped = << >>
      /\ \A r \in must : WantedBy(cmd, r) => r \in ToSet(out) \cup ToSet(popped) \cup Upcoming
  BY DEF ScanInv, PopInv, Merging
<1>3. \A i \in DOMAIN sources : AheadOf(i) = {}
  BY <1>2, NoRecs DEF ScanInv, HeapInv, Merging
<1>4. Upcoming = {} /\ ToSet(popped) = {}
  BY <1>2, <1>3, NoRecs DEF Upcoming
<1>5. QED BY <1>1, <1>2, <1>4 DEF ScanInv, OutInv

\* grep and restore emit in the order of time and stream: over chunks that overlap,
\* frames that share a time, and sources that are refilled between two records.
THEOREM OrderedAlways == Spec => []Ordered
<1>1. ScanInv => Ordered
  BY OutOrdered DEF ScanInv
<1>2. QED BY <1>1, ScanAlways, PTL

\* A command that ends well has emitted exactly the matching records: what the
\* listing, the pruning of frames, the lazy fetches and the merge could lose or
\* repeat is in the output once.
THEOREM ScanExactAlways == Spec => []ScanExact
<1>1. ScanInv => ScanExact
  BY DrainedExact
<1>2. QED BY <1>1, ScanAlways, PTL

-----------------------------------------------------------------------------
(* Part 7: batches *)

CostIn(md, r) == Size[r] + (IF md = "wrap" THEN WrapLen ELSE 0) + EVENT_OVERHEAD_BYTES

StampIn(md, r) == IF md = "raw" THEN Ts[r] ELSE 0

BytesIn(md, b) == FoldLeft(LAMBDA n, r : n + CostIn(md, r), 0, b)

LEMMA ByMode ==
  /\ \A r : Cost(r) = CostIn(cmd.mode, r) /\ Stamp(r) = StampIn(cmd.mode, r)
  /\ \A b : Bytes(b) = BytesIn(cmd.mode, b)
<1>1. \A r : Cost(r) = CostIn(cmd.mode, r) /\ Stamp(r) = StampIn(cmd.mode, r)
  BY DEF Cost, CostIn, Stamp, StampIn
<1>2. \A b : Bytes(b) = BytesIn(cmd.mode, b)
  BY DEF Bytes, BytesIn, Cost, CostIn, FoldLeft, MapThenFoldSet
<1>3. QED BY <1>1, <1>2

LEMMA CostTyped ==
  ASSUME NEW md, NEW r \in Records
  PROVE  CostIn(md, r) \in Nat /\ StampIn(md, r) \in Nat
<1>1. Size[r] \in Nat /\ Ts[r] \in Nat /\ WrapLen \in Nat /\ EVENT_OVERHEAD_BYTES \in Nat
  BY ScanAssumption DEF ScanAssumption
<1>2. QED BY <1>1 DEF CostIn, StampIn

\* The bytes of a batch, event after event.
LEMMA BytesTrace ==
  ASSUME NEW md, NEW s \in Seq(Records)
  PROVE  \E a \in [0 .. Len(s) -> Nat] :
           /\ a[0] = 0
           /\ \A i \in 1 .. Len(s) : a[i] = a[i - 1] + CostIn(md, s[i])
           /\ BytesIn(md, s) = a[Len(s)]
<1> DEFINE n == Len(s)
           Is(h) == h = [t \in SUBSET DOMAIN s |->
                           IF t = {} THEN 0 ELSE h[t \ {Max(t)}] + CostIn(md, s[Max(t)])]
           it == CHOOSE h : Is(h)
           G == [p \in Nat \X (1 .. n) |-> p[1] + CostIn(md, s[p[2]])]
<1>1. n \in Nat /\ DOMAIN s = 1 .. n /\ \A i \in 1 .. n : s[i] \in Records
  BY ToSetSeq
<1>2. BytesIn(md, s) = it[DOMAIN s]
  BY DEF BytesIn, FoldLeft, MapThenFoldSet
<1>3. \A x \in Nat : \A i \in 1 .. n : G[<<x, i>>] = x + CostIn(md, s[i]) /\ G[<<x, i>>] \in Nat
  BY <1>1, CostTyped
<1> HIDE DEF n, G
<1>4. StaysIn(G, n, Nat)
  BY <1>3 DEF StaysIn
<1>5. PICK f : IsFold(G, 0, n, f) /\ Unfolds(n, Nat, f)
  BY <1>1, <1>4, FoldSolves
<1>6. Is(f)
  BY <1>1, <1>3, <1>5 DEF IsFold, Unfolds
<1>7. Is(it)
  <2> HIDE DEF Is
  <2> QED BY <1>6
<1> HIDE DEF it
<1>8. it[{}] = 0
  BY <1>7
<1>9. ASSUME NEW t \in SUBSET (1 .. n), t # {}, it[t \ {Max(t)}] \in Nat
      PROVE  it[t] = G[<<it[t \ {Max(t)}], Max(t)>>]
  <2>1. Max(t) \in 1 .. n
    BY <1>1, <1>9, MaxOfPart
  <2>2. it[t] = it[t \ {Max(t)}] + CostIn(md, s[Max(t)])
    BY <1>1, <1>7, <1>9
  <2>3. QED BY <1>3, <1>9, <2>1, <2>2
<1>10. PICK a \in Traces(G, 0, n, Nat) : a[n] = it[1 .. n]
  <2>1. Follows(G, n, Nat, it)
    BY <1>9 DEF Follows
  <2>2. QED BY <1>1, <1>4, <1>8, <2>1, FoldSteps
<1>11. a \in [0 .. n -> Nat] /\ a[0] = 0
  BY <1>10 DEF Traces
<1>12. \A i \in 1 .. n : a[i] = a[i - 1] + CostIn(md, s[i])
  <2>1. \A i \in 1 .. n : a[i - 1] \in Nat
    BY <1>1, <1>11
  <2>2. QED BY <1>3, <1>10, <2>1 DEF Traces
<1>13. QED
  BY <1>1, <1>2, <1>10, <1>11, <1>12 DEF n

\* What EventBatcher::push adds to the bytes of its batch.
LEMMA BytesAppend ==
  ASSUME NEW md, NEW b \in Seq(Records), NEW r \in Records
  PROVE  /\ BytesIn(md, b) \in Nat /\ BytesIn(md, << >>) = 0
         /\ BytesIn(md, Append(b, r)) = BytesIn(md, b) + CostIn(md, r)
<1> DEFINE n == Len(b)
           t == Append(b, r)
<1>1. /\ n \in Nat /\ t \in Seq(Records) /\ Len(t) = n + 1 /\ t[n + 1] = r
      /\ \A i \in 1 .. n : t[i] = b[i]
  BY ToSetAppend, LenProperties
<1>2. BytesIn(md, << >>) = 0
  <2>1. << >> \in Seq(Records) /\ Len(<< >>) = 0
    OBVIOUS
  <2>2. \E a \in [0 .. 0 -> Nat] : a[0] = 0 /\ BytesIn(md, << >>) = a[0]
    <3>1. \E a \in [0 .. Len(<< >>) -> Nat] : a[0] = 0 /\ BytesIn(md, << >>) = a[Len(<< >>)]
      BY <2>1, BytesTrace
    <3>2. QED BY <2>1, <3>1
  <2>3. QED BY <2>2
<1>3. PICK a \in [0 .. n -> Nat] :
        /\ a[0] = 0 /\ \A i \in 1 .. n : a[i] = a[i - 1] + CostIn(md, b[i])
        /\ BytesIn(md, b) = a[n]
  BY BytesTrace
<1> HIDE DEF n, t
<1>4. PICK c \in [0 .. (n + 1) -> Nat] :
        /\ c[0] = 0 /\ \A i \in 1 .. (n + 1) : c[i] = c[i - 1] + CostIn(md, t[i])
        /\ BytesIn(md, t) = c[n + 1]
  <2>1. \E c \in [0 .. Len(t) -> Nat] :
          /\ c[0] = 0 /\ \A i \in 1 .. Len(t) : c[i] = c[i - 1] + CostIn(md, t[i])
          /\ BytesIn(md, t) = c[Len(t)]
    BY <1>1, BytesTrace
  <2>2. QED BY <1>1, <2>1
<1>5. c[n] = a[n]
  <2> DEFINE G == [p \in Nat \X (1 .. n) |-> p[1] + CostIn(md, b[p[2]])]
  <2>1. \A i \in 1 .. n : a[i - 1] \in Nat /\ c[i - 1] \in Nat /\ i \in 1 .. (n + 1)
    BY <1>1
  <2>2. \A i \in 1 .. n : a[i] = G[<<a[i - 1], i>>] /\ c[i] = G[<<c[i - 1], i>>]
    BY <1>1, <1>3, <1>4, <2>1
  <2> HIDE DEF G
  <2>3. n \in Nat /\ c[0] = a[0]
    BY <1>1, <1>3, <1>4
  <2>4. RunOf(G, n, c) /\ RunOf(G, n, a)
    BY <2>2 DEF RunOf
  <2>5. QED BY <2>3, <2>4, TraceUnique
<1>6. c[n + 1] = c[n] + CostIn(md, r) /\ a[n] \in Nat
  <2>1. n + 1 \in 1 .. (n + 1) /\ (n + 1) - 1 = n /\ n \in 0 .. n
    BY <1>1
  <2>2. QED BY <1>1, <1>4, <2>1
<1>7. QED BY <1>2, <1>3, <1>4, <1>5, <1>6 DEF t

\* A batch that PutLogEvents takes.
Legal(md, b) ==
  /\ b \in Seq(Records)
  /\ Len(b) <= MAX_BATCH_EVENTS
  /\ BytesIn(md, b) <= MAX_BATCH_BYTES
  /\ \A i, k \in DOMAIN b : i < k => /\ StampIn(md, b[i]) <= StampIn(md, b[k])
                                     /\ StampIn(md, b[k]) - StampIn(md, b[i]) <= MAX_BATCH_SPAN_MS

LEMMA LegalEmpty ==
  ASSUME NEW md
  PROVE  Legal(md, << >>)
<1>1. << >> \in Seq(Records) /\ Len(<< >>) = 0 /\ DOMAIN << >> = {}
  OBVIOUS
<1>2. BytesIn(md, << >>) = 0
  <2>1. PICK a \in [0 .. Len(<< >>) -> Nat] : a[0] = 0 /\ BytesIn(md, << >>) = a[Len(<< >>)]
    BY <1>1, BytesTrace
  <2>2. QED BY <1>1, <2>1
<1>3. MAX_BATCH_EVENTS \in Nat /\ MAX_BATCH_BYTES \in Nat
  BY ScanAssumption DEF ScanAssumption
<1>4. QED BY <1>1, <1>2, <1>3 DEF Legal

\* EventBatcher::push keeps a batch legal: the first event bounds the span of all.
LEMMA LegalAppend ==
  ASSUME NEW md, NEW b, Legal(md, b), NEW r \in Records,
         Len(b) < MAX_BATCH_EVENTS, BytesIn(md, b) + CostIn(md, r) <= MAX_BATCH_BYTES,
         b # << >> => StampIn(md, r) - StampIn(md, b[1]) <= MAX_BATCH_SPAN_MS,
         \A i \in DOMAIN b : StampIn(md, b[i]) <= StampIn(md, r)
  PROVE  Legal(md, Append(b, r))
<1> DEFINE n == Len(b)
           t == Append(b, r)
<1>1. /\ b \in Seq(Records) /\ n \in Nat /\ DOMAIN b = 1 .. n
      /\ \A i \in 1 .. n : b[i] \in Records
  BY ToSetSeq DEF Legal
<1>2. /\ t \in Seq(Records) /\ Len(t) = n + 1 /\ DOMAIN t = 1 .. (n + 1) /\ t[n + 1] = r
      /\ \A i \in 1 .. n : t[i] = b[i]
  BY <1>1, ToSetAppend
<1>3. BytesIn(md, t) <= MAX_BATCH_BYTES
  BY <1>1, BytesAppend
<1>4. Len(t) <= MAX_BATCH_EVENTS
  BY <1>1, <1>2, ScanAssumption DEF ScanAssumption
<1> HIDE DEF n, t
<1>5. ASSUME NEW i \in DOMAIN t, NEW k \in DOMAIN t, i < k
      PROVE  /\ StampIn(md, t[i]) <= StampIn(md, t[k])
             /\ StampIn(md, t[k]) - StampIn(md, t[i]) <= MAX_BATCH_SPAN_MS
  <2>1. i \in 1 .. n /\ (k = n + 1 \/ k \in 1 .. n)
    BY <1>1, <1>2, <1>5
  <2>2. CASE k = n + 1
    <3>1. /\ StampIn(md, b[i]) \in Nat /\ StampIn(md, b[1]) \in Nat /\ StampIn(md, r) \in Nat
          /\ MAX_BATCH_SPAN_MS \in Nat
      <4>1. 1 \in 1 .. n
        BY <1>1, <2>1
      <4>2. QED BY <1>1, <2>1, <4>1, CostTyped, ScanAssumption DEF ScanAssumption
    <3>2. b # << >> /\ StampIn(md, b[1]) <= StampIn(md, b[i])
      <4>1. 1 \in DOMAIN b /\ (i = 1 \/ 1 < i)
        BY <1>1, <2>1
      <4>2. CASE i = 1
        BY <3>1, <4>1, <4>2
      <4>3. CASE 1 < i
        BY <1>1, <2>1, <4>1, <4>3 DEF Legal
      <4>4. QED BY <4>1, <4>2, <4>3
    <3>3. StampIn(md, r) - StampIn(md, b[1]) <= MAX_BATCH_SPAN_MS /\ StampIn(md, b[i]) <= StampIn(md, r)
      BY <1>1, <2>1, <3>2
    <3>4. StampIn(md, r) - StampIn(md, b[i]) <= MAX_BATCH_SPAN_MS
      BY <3>1, <3>2, <3>3
    <3>5. t[i] = b[i] /\ t[k] = r
      BY <1>2, <2>1, <2>2
    <3>6. QED BY <3>3, <3>4, <3>5
  <2>3. CASE k \in 1 .. n
    <3>1. t[i] = b[i] /\ t[k] = b[k] /\ i \in DOMAIN b /\ k \in DOMAIN b
      BY <1>1, <1>2, <2>1, <2>3
    <3>2. QED BY <1>5, <3>1 DEF Legal
  <2>4. QED BY <2>1, <2>2, <2>3
<1>6. QED BY <1>2, <1>3, <1>4, <1>5 DEF Legal, t

\* Batches are legal, hold what the scan emitted, and none is begun before its time.
RestoreInv ==
  /\ attempt \in 1 .. PUT_MAX_ATTEMPTS
  /\ Legal(cmd.mode, batch) /\ Legal(cmd.mode, sending)
  /\ sent \in Seq(Seq(Records)) /\ \A b \in ToSet(sent) : Legal(cmd.mode, b)
  /\ \A r \in ToSet(batch) \cup ToSet(sending) : r \in ToSet(out) /\ CostIn(cmd.mode, r) <= MAX_BATCH_BYTES
  /\ popped # << >> \/ refill # << >> => sending = << >>
  /\ phase \in {"idle", "list"} \/ cmd.mode \in {"grep", "file"} =>
       batch = << >> /\ sending = << >> /\ sent = << >>
  /\ phase \in {"idle", "list"} => ~ensured

\* What a command does with the record that is returned.
LEMMA EmitEffect ==
  ASSUME OutInv, PopInv, RestoreInv, Return, NEW r, r = Head(popped), NEW md, md = cmd.mode
  PROVE  /\ r \in Records /\ out \in Seq(Records) /\ out' = Append(out, r) /\ sending = << >>
         /\ \/ /\ md \in {"grep", "file"} \/ CostIn(md, r) > MAX_BATCH_BYTES
               /\ batch' = batch /\ sending' = sending
            \/ /\ md \notin {"grep", "file"} /\ CostIn(md, r) <= MAX_BATCH_BYTES
               /\ sending' = batch /\ batch' = Append(<< >>, r) /\ Legal(md, Append(<< >>, r))
            \/ /\ md \notin {"grep", "file"} /\ CostIn(md, r) <= MAX_BATCH_BYTES
               /\ sending' = sending /\ batch' = Append(batch, r) /\ Legal(md, Append(batch, r))
<1>1. /\ out \in Seq(Records) /\ r \in Records /\ out' = Append(out, r)
      /\ \A q \in ToSet(out) : ~Earlier(r, q)
  BY ReturnEffect
<1>2. sending = << >> /\ Emit(r)
  BY DEF Return, RestoreInv
<1>3. Fits(r) <=> CostIn(md, r) <= MAX_BATCH_BYTES
  BY ByMode DEF Fits
<1>4. CostIn(md, r) \in Nat /\ MAX_BATCH_BYTES \in Nat /\ MAX_BATCH_SPAN_MS \in Nat /\ MAX_BATCH_EVENTS \in Nat \ {0}
  BY <1>1, CostTyped, ScanAssumption DEF ScanAssumption
<1>5. CASE md \in {"grep", "file"} \/ ~Fits(r)
  <2>1. batch' = batch /\ sending' = sending
    BY <1>2, <1>5 DEF Emit
  <2>2. QED BY <1>1, <1>2, <1>3, <1>4, <1>5, <2>1
<1>6. CASE md \notin {"grep", "file"} /\ Fits(r) /\ Full(r)
  <2>1. sending' = batch /\ batch' = <<r>> /\ <<r>> = Append(<< >>, r)
    BY <1>2, <1>6 DEF Emit
  <2>2. Legal(md, Append(<< >>, r))
    <3>1. /\ Legal(md, << >>) /\ Len(<< >>) < MAX_BATCH_EVENTS /\ DOMAIN << >> = {}
          /\ << >> \in Seq(Records)
      BY <1>4, LegalEmpty
    <3>2. BytesIn(md, << >>) = 0
      BY <1>1, <3>1, BytesAppend
    <3>3. BytesIn(md, << >>) + CostIn(md, r) <= MAX_BATCH_BYTES
      BY <1>3, <1>4, <1>6, <3>2
    <3>4. QED BY <1>1, <3>1, <3>3, LegalAppend
  <2>3. QED BY <1>1, <1>2, <1>3, <1>6, <2>1, <2>2
<1>7. CASE md \notin {"grep", "file"} /\ Fits(r) /\ ~Full(r)
  <2>1. batch' = Append(batch, r) /\ sending' = sending
    BY <1>2, <1>7 DEF Emit
  <2>2. Legal(md, batch) /\ batch \in Seq(Records) /\ \A i \in DOMAIN batch : batch[i] \in ToSet(out)
    BY DEF RestoreInv, Legal, ToSet
  <2>3. BytesIn(md, batch) \in Nat /\ Len(batch) \in Nat /\ BytesIn(md, << >>) = 0
    BY <1>1, <2>2, BytesAppend, LenProperties
  <2>4. CASE batch = << >>
    <3>1. Len(batch) = 0 /\ BytesIn(md, batch) = 0 /\ DOMAIN batch = {}
      BY <2>3, <2>4
    <3>2. Len(batch) < MAX_BATCH_EVENTS /\ BytesIn(md, batch) + CostIn(md, r) <= MAX_BATCH_BYTES
      BY <1>3, <1>4, <1>7, <3>1
    <3>3. Legal(md, Append(batch, r))
      BY <1>1, <2>2, <2>4, <3>1, <3>2, LegalAppend
    <3>4. QED BY <1>1, <1>2, <1>3, <1>7, <2>1, <3>3
  <2>5. CASE batch # << >>
    <3>1. 1 \in DOMAIN batch /\ batch[1] \in Records
      BY <2>2, <2>3, <2>5, LenProperties
    <3>2. StampIn(md, batch[1]) \in Nat /\ StampIn(md, r) \in Nat
      BY <1>1, <3>1, CostTyped
    <3>3. /\ ~(Len(batch) >= MAX_BATCH_EVENTS)
          /\ ~(BytesIn(md, batch) + CostIn(md, r) > MAX_BATCH_BYTES)
          /\ ~(StampIn(md, r) - StampIn(md, batch[1]) > MAX_BATCH_SPAN_MS)
      BY <1>7, <2>5, ByMode DEF Full
    <3>4. /\ Len(batch) < MAX_BATCH_EVENTS /\ BytesIn(md, batch) + CostIn(md, r) <= MAX_BATCH_BYTES
          /\ StampIn(md, r) - StampIn(md, batch[1]) <= MAX_BATCH_SPAN_MS
      BY <1>4, <2>3, <3>2, <3>3
    <3>5. ASSUME NEW i \in DOMAIN batch PROVE StampIn(md, batch[i]) <= StampIn(md, r)
      <4>1. batch[i] \in Records /\ ~Earlier(r, batch[i])
        BY <1>1, <2>2
      <4>2. Ts[batch[i]] <= Ts[r]
        BY <1>1, <4>1, EarlierOrder
      <4>3. QED BY <4>2 DEF StampIn
    <3>6. Legal(md, Append(batch, r))
      BY <1>1, <2>2, <3>4, <3>5, LegalAppend
    <3>7. QED BY <1>1, <1>2, <1>3, <1>7, <2>1, <3>6
  <2>6. QED BY <2>4, <2>5
<1>8. QED BY <1>5, <1>6, <1>7

\* Only these actions touch what a restore keeps.
LEMMA RestoreSteps ==
  ASSUME [Next]_vars
  PROVE  \/ Return \/ Finish \/ EnsureTarget \/ SendBatch
         \/ \E c \in Commands : StartScan(c)
         \/ /\ UNCHANGED <<restore, cmd, out>>
            /\ phase' \in {"idle", "list"} => phase \in {"idle", "list"}
            /\ UNCHANGED <<popped, refill>> \/ sending = << >> \/ (phase = "list" /\ StartMerge)
<1> DEFINE Q == /\ UNCHANGED <<restore, cmd, out>>
                /\ phase' \in {"idle", "list"} => phase \in {"idle", "list"}
                /\ UNCHANGED <<popped, refill>> \/ sending = << >> \/ (phase = "list" /\ StartMerge)
<1>1. CASE UNCHANGED vars
  BY <1>1 DEF vars, merge
<1>2. ASSUME NEW c \in Chunks, PutData(c) \/ PutSidecars(c) \/ LoseSidecar(c) PROVE Q
  BY <1>2 DEF PutData, PutSidecars, LoseSidecar, merge
<1>3. ASSUME NEW d \in dates, ListDate(d) PROVE Q
  BY <1>3 DEF ListDate, merge
<1>4. CASE OpenChunk
  BY <1>4 DEF OpenChunk, merge
<1>5. CASE StartMerge
  BY <1>5 DEF StartMerge
<1>6. CASE Refill
  BY <1>6 DEF Refill
<1>7. CASE Pop
  BY <1>7 DEF Pop
<1>8. CASE Done
  BY <1>8 DEF Done, merge
<1>9. CASE CommandFails
  BY <1>9 DEF CommandFails, merge
<1>10. QED
  BY <1>1, <1>2, <1>3, <1>4, <1>5, <1>6, <1>7, <1>8, <1>9 DEF Next, Command

LEMMA RestoreStep ==
  ASSUME OutInv, PopInv, ListInv, RestoreInv, [Next]_vars
  PROVE  RestoreInv'
<1>1. CASE Return
  <2>1. PICK r : r = Head(popped)
    OBVIOUS
  <2>2. PICK md : md = cmd.mode
    OBVIOUS
  <2>3. /\ r \in Records /\ out \in Seq(Records) /\ out' = Append(out, r) /\ sending = << >>
        /\ \/ /\ md \in {"grep", "file"} \/ CostIn(md, r) > MAX_BATCH_BYTES
              /\ batch' = batch /\ sending' = sending
           \/ /\ md \notin {"grep", "file"} /\ CostIn(md, r) <= MAX_BATCH_BYTES
              /\ sending' = batch /\ batch' = Append(<< >>, r) /\ Legal(md, Append(<< >>, r))
           \/ /\ md \notin {"grep", "file"} /\ CostIn(md, r) <= MAX_BATCH_BYTES
              /\ sending' = sending /\ batch' = Append(batch, r) /\ Legal(md, Append(batch, r))
    BY <1>1, <2>1, <2>2, EmitEffect
  <2>4. /\ cmd' = cmd /\ attempt' = attempt /\ ensured' = ensured /\ sent' = sent
        /\ phase = "merge" /\ phase' = "merge" /\ popped' = << >> /\ refill' = << >>
    BY <1>1 DEF Return
  <2>5. ToSet(out') = ToSet(out) \cup {r}
    BY <2>3, ToSetAppend
  <2>6. Legal(md, batch) /\ Legal(md, sending) /\ batch \in Seq(Records) /\ << >> \in Seq(Records)
    BY <2>2 DEF RestoreInv, Legal
  <2>7. ToSet(Append(<< >>, r)) = {r} /\ ToSet(Append(batch, r)) = ToSet(batch) \cup {r} /\ ToSet(<< >>) = {}
    <3>1. ToSet(<< >>) = {}
      BY NoRecs
    <3>2. ToSet(Append(batch, r)) = ToSet(batch) \cup {r}
      BY <2>3, <2>6, ToSetAppend
    <3>3. ToSet(Append(<< >>, r)) = ToSet(<< >>) \cup {r}
      <4> DEFINE e == << >>
      <4>1. r \in Records /\ e \in Seq(Records)
        BY <2>3, <2>6
      <4> HIDE DEF e
      <4>2. ToSet(Append(e, r)) = ToSet(e) \cup {r}
        BY <4>1, ToSetAppend
      <4>3. QED BY <4>2 DEF e
    <3>4. QED BY <3>1, <3>2, <3>3
  <2>8. Legal(md, batch') /\ Legal(md, sending')
    BY <2>3, <2>6
  <2>9. \A x \in ToSet(batch') \cup ToSet(sending') : x \in ToSet(out') /\ CostIn(md, x) <= MAX_BATCH_BYTES
    <3>1. \A x \in ToSet(batch) \cup ToSet(sending) : x \in ToSet(out) /\ CostIn(md, x) <= MAX_BATCH_BYTES
      BY <2>2 DEF RestoreInv
    <3>2. ToSet(batch') \cup ToSet(sending') \subseteq ToSet(batch) \cup ToSet(sending)
          \/ ( /\ CostIn(md, r) <= MAX_BATCH_BYTES
               /\ ToSet(batch') \cup ToSet(sending') \subseteq ToSet(batch) \cup ToSet(sending) \cup {r} )
      BY <2>3, <2>7
    <3>3. QED BY <2>5, <3>1, <3>2
  <2>10. md \in {"grep", "file"} => batch' = << >> /\ sending' = << >> /\ sent' = << >>
    BY <2>2, <2>3, <2>4 DEF RestoreInv
  <2>11. QED BY <2>2, <2>4, <2>8, <2>9, <2>10 DEF RestoreInv
<1>2. CASE Finish
  <2>1. /\ cmd' = cmd /\ attempt' = attempt /\ ensured' = ensured /\ sent' = sent /\ out' = out
        /\ phase = "merge" /\ phase' = "finish" /\ popped' = << >> /\ refill' = << >>
        /\ sending' = batch /\ batch' = << >>
    BY <1>2 DEF Finish, merge
  <2>2. Legal(cmd.mode, << >>) /\ ToSet(<< >>) = {}
    BY LegalEmpty, NoRecs
  <2>3. QED BY <2>1, <2>2 DEF RestoreInv
<1>3. CASE EnsureTarget
  BY <1>3 DEF EnsureTarget, RestoreInv, merge
<1>4. CASE SendBatch
  <2>1. /\ cmd' = cmd /\ ensured' = ensured /\ out' = out /\ batch' = batch
        /\ popped' = popped /\ refill' = refill /\ phase \in {"merge", "finish"} /\ phase' \in {"merge", "finish", "failed"}
    BY <1>4 DEF SendBatch, merge
  <2>2. CASE sent' = Append(sent, sending) /\ sending' = << >> /\ attempt' = 1 /\ sending # << >>
    <3>1. sent \in Seq(Seq(Records)) /\ sending \in Seq(Records)
      BY DEF RestoreInv, Legal
    <3>2. sent' \in Seq(Seq(Records)) /\ ToSet(sent') = ToSet(sent) \cup {sending}
      BY <2>2, <3>1, ToSetAppend
    <3>3. Legal(cmd.mode, << >>) /\ ToSet(<< >>) = {}
      BY LegalEmpty, NoRecs
    <3>4. 1 \in 1 .. PUT_MAX_ATTEMPTS
      BY ScanAssumption DEF ScanAssumption
    <3>5. cmd.mode \notin {"grep", "file"}
      BY <2>2 DEF RestoreInv
    <3>6. QED BY <2>1, <2>2, <3>2, <3>3, <3>4, <3>5 DEF RestoreInv
  <2>3. CASE attempt < PUT_MAX_ATTEMPTS /\ attempt' = attempt + 1 /\ sent' = sent /\ sending' = sending
    <3>1. attempt' \in 1 .. PUT_MAX_ATTEMPTS
      BY <2>3, ScanAssumption DEF RestoreInv, ScanAssumption
    <3>2. QED BY <2>1, <2>3, <3>1 DEF RestoreInv
  <2>4. CASE attempt' = attempt /\ sent' = sent /\ sending' = sending
    BY <2>1, <2>4 DEF RestoreInv
  <2>5. QED BY <1>4, <2>2, <2>3, <2>4 DEF SendBatch, MayRetry
<1>5. ASSUME NEW c \in Commands, StartScan(c) PROVE RestoreInv'
  <2>1. /\ phase = "idle" /\ phase' = "list" /\ restore' = restore /\ merge' = merge /\ out' = out
    BY <1>5 DEF StartScan
  <2>2. batch = << >> /\ sending = << >> /\ sent = << >> /\ ~ensured
    BY <2>1 DEF RestoreInv
  <2>3. Legal(cmd'.mode, << >>) /\ ToSet(<< >>) = {}
    BY LegalEmpty, NoRecs
  <2>4. QED BY <2>1, <2>2, <2>3 DEF RestoreInv, restore, merge
<1>6. CASE /\ UNCHANGED <<restore, cmd, out>>
           /\ phase' \in {"idle", "list"} => phase \in {"idle", "list"}
           /\ UNCHANGED <<popped, refill>> \/ sending = << >> \/ (phase = "list" /\ StartMerge)
  BY <1>6 DEF RestoreInv, restore
<1>7. QED BY <1>1, <1>2, <1>3, <1>4, <1>5, <1>6, RestoreSteps

LEMMA RestoreInit == ASSUME Init PROVE RestoreInv
<1>1. Legal(cmd.mode, << >>) /\ ToSet(<< >>) = {} /\ << >> \in Seq(Seq(Records))
  BY LegalEmpty, NoRecs
<1>2. 1 \in 1 .. PUT_MAX_ATTEMPTS
  BY ScanAssumption DEF ScanAssumption
<1>3. QED BY <1>1, <1>2 DEF Init, RestoreInv

LEMMA RestoreAlways == Spec => [](ScanInv /\ RestoreInv)
<1>1. Init => RestoreInv
  BY RestoreInit
<1>2. ScanInv /\ RestoreInv /\ [Next]_vars => RestoreInv'
  BY RestoreStep DEF ScanInv
<1>3. QED BY <1>1, <1>2, ScanAlways, PTL DEF Spec

\* Every batch that a restore sends, or tries again, keeps the limits of
\* PutLogEvents: events, bytes, span and order.
THEOREM BatchLegalAlways == Spec => []BatchLegal
<1>1. RestoreInv => BatchLegal
  <2> SUFFICES ASSUME RestoreInv PROVE BatchLegal
    OBVIOUS
  <2>1. attempt <= PUT_MAX_ATTEMPTS
    BY ScanAssumption DEF RestoreInv, ScanAssumption
  <2>2. \A b \in ToSet(sent) \cup {sending} : Legal(cmd.mode, b)
    BY DEF RestoreInv
  <2>3. QED BY <2>1, <2>2, ByMode DEF BatchLegal, Legal
<1>2. QED BY <1>1, RestoreAlways, PTL

-----------------------------------------------------------------------------
(* Part 8: what is sent *)

FittingIn(md, s) ==
  FoldLeft(LAMBDA t, r : IF CostIn(md, r) <= MAX_BATCH_BYTES THEN Append(t, r) ELSE t, << >>, s)

\* One record more.
FitNext(md, t, r) == IF CostIn(md, r) <= MAX_BATCH_BYTES THEN Append(t, r) ELSE t

\* The records that fit, one after the other.
LEMMA FittingTrace ==
  ASSUME NEW md, NEW s \in Seq(Records)
  PROVE  \E a \in [0 .. Len(s) -> Seq(Records)] :
           /\ a[0] = << >>
           /\ \A i \in 1 .. Len(s) : a[i] = FitNext(md, a[i - 1], s[i])
           /\ FittingIn(md, s) = a[Len(s)]
<1> DEFINE n == Len(s)
           W == Seq(Records)
           Is(h) == h = [t \in SUBSET DOMAIN s |->
                           IF t = {} THEN << >> ELSE FitNext(md, h[t \ {Max(t)}], s[Max(t)])]
           it == CHOOSE h : Is(h)
           G == [p \in W \X (1 .. n) |-> FitNext(md, p[1], s[p[2]])]
<1>1. n \in Nat /\ DOMAIN s = 1 .. n /\ \A i \in 1 .. n : s[i] \in Records
  BY ToSetSeq
<1>2. FittingIn(md, s) = it[DOMAIN s]
  BY DEF FittingIn, FitNext, FoldLeft, MapThenFoldSet
<1>3. << >> \in W
  OBVIOUS
<1>4. \A x \in W : \A i \in 1 .. n : G[<<x, i>>] = FitNext(md, x, s[i]) /\ G[<<x, i>>] \in W
  <2>1. \A x \in W : \A i \in 1 .. n : Append(x, s[i]) \in W
    BY <1>1
  <2>2. \A x \in W : \A i \in 1 .. n : FitNext(md, x, s[i]) \in W
    BY <2>1 DEF FitNext
  <2>3. QED BY <2>2
<1> HIDE DEF n, G, W
<1>5. StaysIn(G, n, W)
  BY <1>4 DEF StaysIn
<1>6. PICK f : IsFold(G, << >>, n, f) /\ Unfolds(n, W, f)
  BY <1>1, <1>3, <1>5, FoldSolves
<1>7. Is(f)
  BY <1>1, <1>4, <1>6 DEF IsFold, Unfolds
<1>8. Is(it)
  <2> HIDE DEF Is
  <2> QED BY <1>7
<1> HIDE DEF it
<1>9. it[{}] = << >>
  BY <1>8
<1>10. ASSUME NEW t \in SUBSET (1 .. n), t # {}, it[t \ {Max(t)}] \in W
       PROVE  it[t] = G[<<it[t \ {Max(t)}], Max(t)>>]
  <2>1. Max(t) \in 1 .. n
    BY <1>1, <1>10, MaxOfPart
  <2>2. it[t] = FitNext(md, it[t \ {Max(t)}], s[Max(t)])
    BY <1>1, <1>8, <1>10
  <2>3. QED BY <1>4, <1>10, <2>1, <2>2
<1>11. PICK a \in Traces(G, << >>, n, W) : a[n] = it[1 .. n]
  <2>1. Follows(G, n, W, it)
    BY <1>10 DEF Follows
  <2>2. QED BY <1>1, <1>3, <1>5, <1>9, <2>1, FoldSteps
<1>12. a \in [0 .. n -> W] /\ a[0] = << >>
  BY <1>11 DEF Traces
<1>13. \A i \in 1 .. n : a[i] = FitNext(md, a[i - 1], s[i])
  <2>1. \A i \in 1 .. n : a[i - 1] \in W
    BY <1>1, <1>12
  <2>2. QED BY <1>4, <1>11, <2>1 DEF Traces
<1>14. QED
  BY <1>1, <1>2, <1>11, <1>12, <1>13 DEF n, W

LEMMA FittingAppend ==
  ASSUME NEW md, NEW s \in Seq(Records), NEW r \in Records
  PROVE  /\ FittingIn(md, s) \in Seq(Records) /\ FittingIn(md, << >>) = << >>
         /\ FittingIn(md, Append(s, r)) = FitNext(md, FittingIn(md, s), r)
<1> DEFINE n == Len(s)
           t == Append(s, r)
           W == Seq(Records)
<1>1. /\ n \in Nat /\ t \in Seq(Records) /\ Len(t) = n + 1 /\ t[n + 1] = r
      /\ \A i \in 1 .. n : t[i] = s[i]
  BY ToSetAppend, LenProperties
<1>2. FittingIn(md, << >>) = << >>
  <2>1. << >> \in Seq(Records) /\ Len(<< >>) = 0
    OBVIOUS
  <2>2. \E a \in [0 .. 0 -> Seq(Records)] : a[0] = << >> /\ FittingIn(md, << >>) = a[0]
    <3>1. \E a \in [0 .. Len(<< >>) -> Seq(Records)] : a[0] = << >> /\ FittingIn(md, << >>) = a[Len(<< >>)]
      BY <2>1, FittingTrace
    <3>2. QED BY <2>1, <3>1
  <2>3. QED BY <2>2
<1>3. PICK a \in [0 .. n -> W] :
        /\ a[0] = << >> /\ \A i \in 1 .. n : a[i] = FitNext(md, a[i - 1], s[i])
        /\ FittingIn(md, s) = a[n]
  BY FittingTrace
<1> HIDE DEF n, t, W
<1>4. PICK c \in [0 .. (n + 1) -> W] :
        /\ c[0] = << >> /\ \A i \in 1 .. (n + 1) : c[i] = FitNext(md, c[i - 1], t[i])
        /\ FittingIn(md, t) = c[n + 1]
  <2>1. \E c \in [0 .. Len(t) -> W] :
          /\ c[0] = << >> /\ \A i \in 1 .. Len(t) : c[i] = FitNext(md, c[i - 1], t[i])
          /\ FittingIn(md, t) = c[Len(t)]
    BY <1>1, FittingTrace DEF W
  <2>2. QED BY <1>1, <2>1
<1>5. c[n] = a[n]
  <2> DEFINE G == [p \in W \X (1 .. n) |-> FitNext(md, p[1], s[p[2]])]
  <2>1. \A i \in 1 .. n : a[i - 1] \in W /\ c[i - 1] \in W /\ i \in 1 .. (n + 1)
    BY <1>1
  <2>2. \A i \in 1 .. n : a[i] = G[<<a[i - 1], i>>] /\ c[i] = G[<<c[i - 1], i>>]
    BY <1>1, <1>3, <1>4, <2>1
  <2> HIDE DEF G
  <2>3. n \in Nat /\ c[0] = a[0]
    BY <1>1, <1>3, <1>4
  <2>4. RunOf(G, n, c) /\ RunOf(G, n, a)
    BY <2>2 DEF RunOf
  <2>5. QED BY <2>3, <2>4, TraceUnique
<1>6. c[n + 1] = FitNext(md, c[n], r) /\ a[n] \in W
  <2>1. n + 1 \in 1 .. (n + 1) /\ (n + 1) - 1 = n /\ n \in 0 .. n
    BY <1>1
  <2>2. QED BY <1>1, <1>4, <2>1
<1>7. QED BY <1>2, <1>3, <1>4, <1>5, <1>6 DEF t, W

\* FlattenSeq, batch after batch.
LEMMA FlattenTrace ==
  ASSUME NEW X, NEW s \in Seq(Seq(X))
  PROVE  \E a \in [0 .. Len(s) -> Seq(X)] :
           /\ a[0] = << >>
           /\ \A i \in 1 .. Len(s) : a[i] = a[i - 1] \o s[i]
           /\ FlattenSeq(s) = a[Len(s)]
<1> DEFINE n == Len(s)
           W == Seq(X)
           Is(h) == h = [i \in 1 .. Len(s) |-> IF i = 1 THEN s[i] ELSE h[i - 1] \o s[i]]
           it == CHOOSE h : Is(h)
           G == [p \in W \X (1 .. n) |-> p[1] \o s[p[2]]]
<1>1. n \in Nat /\ DOMAIN s = 1 .. n /\ \A i \in 1 .. n : s[i] \in W
  BY ToSetSeq
<1>2. << >> \in W
  OBVIOUS
<1>3. \A x \in W : \A i \in 1 .. n : G[<<x, i>>] = x \o s[i] /\ G[<<x, i>>] \in W
  <2>1. \A x \in W : \A i \in 1 .. n : x \o s[i] \in W
    BY <1>1, ConcatProperties
  <2>2. QED BY <2>1
<1>4. \A y \in W : << >> \o y = y
  BY ConcatEmptySeq
<1>5. FlattenSeq(s) = IF n = 0 THEN s ELSE it[n]
  BY DEF FlattenSeq
<1>6. n = 0 => s = << >>
  BY <1>1
<1> HIDE DEF G, W
<1>7. StaysIn(G, n, W)
  BY <1>3 DEF StaysIn
<1>8. PICK a \in [0 .. n -> W] : a[0] = << >> /\ \A i \in 1 .. n : a[i] = G[<<a[i - 1], i>>]
  <2>1. PICK f : IsFold(G, << >>, n, f) /\ Unfolds(n, W, f)
    BY <1>1, <1>2, <1>7, FoldSolves
  <2>2. f[{}] = << >> /\ \A t \in SUBSET (1 .. n) : t # {} => f[t] = G[<<f[t \ {Max(t)}], Max(t)>>]
    <3>1. {} \in SUBSET (1 .. n)
      OBVIOUS
    <3>2. QED BY <2>1, <3>1 DEF IsFold
  <2>3. Follows(G, n, W, f)
    BY <2>2 DEF Follows
  <2>4. \E a \in Traces(G, << >>, n, W) : a[n] = f[1 .. n]
    BY <1>1, <1>2, <1>7, <2>2, <2>3, FoldSteps
  <2>5. QED BY <2>4 DEF Traces
<1>9. \A i \in 1 .. n : a[i - 1] \in W /\ a[i] = a[i - 1] \o s[i]
  <2>1. \A i \in 1 .. n : a[i - 1] \in W
    <3>1. n \in Nat
      BY <1>1
    <3>2. \A i \in 1 .. n : i - 1 \in 0 .. n
      BY <3>1
    <3>3. QED BY <1>8, <3>2
  <2>2. QED BY <1>3, <1>8, <2>1
<1>10. \E h : Is(h)
  <2> DEFINE h == [i \in 1 .. n |-> a[i]]
  <2>1. ASSUME NEW i \in 1 .. n PROVE h[i] = IF i = 1 THEN s[i] ELSE h[i - 1] \o s[i]
    <3>1. CASE i = 1
      BY <1>1, <1>4, <1>8, <1>9, <3>1
    <3>2. CASE i # 1
      <4>1. i - 1 \in 1 .. n
        BY <1>1, <3>2
      <4>2. QED BY <1>9, <3>2, <4>1
    <3>3. QED BY <3>1, <3>2
  <2>2. Is(h)
    BY <2>1
  <2>3. QED BY <2>2
<1>11. Is(it)
  <2> HIDE DEF Is
  <2> QED BY <1>10
<1>12. \A i \in 1 .. n : it[i] = IF i = 1 THEN s[i] ELSE it[i - 1] \o s[i]
  <2> HIDE DEF it
  <2> QED BY <1>11
<1> HIDE DEF it, n
<1>13. \A i \in 1 .. n : it[i] = a[i]
  <2> DEFINE P == {i \in Nat : i = 0 \/ it[i] = a[i]}
  <2>1. 0 \in P
    OBVIOUS
  <2>2. ASSUME NEW i \in 1 .. n, i - 1 \in P PROVE i \in P
    <3>1. CASE i = 1
      <4>1. a[1 - 1] = << >> /\ a[1] = a[1 - 1] \o s[1] /\ s[1] \in W
        BY <1>1, <1>8, <1>9, <3>1
      <4>2. a[1] = s[1] /\ it[1] = s[1]
        BY <1>4, <1>12, <3>1, <4>1
      <4>3. QED BY <3>1, <4>2
    <3>2. CASE i # 1
      <4>1. i \in Nat /\ i - 1 # 0
        BY <1>1, <3>2
      <4>2. it[i - 1] = a[i - 1]
        BY <2>2, <4>1
      <4>3. it[i] = it[i - 1] \o s[i] /\ a[i] = a[i - 1] \o s[i]
        BY <1>9, <1>12, <3>2
      <4>4. QED BY <4>1, <4>2, <4>3
    <3>3. QED BY <3>1, <3>2
  <2>3. \A i \in 0 .. n : i \in P
    <3> HIDE DEF P
    <3> QED BY <1>1, <2>1, <2>2, UpTo
  <2>4. \A i \in 1 .. n : i \in 0 .. n /\ i # 0
    BY <1>1
  <2>5. QED BY <2>3, <2>4
<1>14. FlattenSeq(s) = a[n]
  <2>1. CASE n = 0
    BY <1>5, <1>6, <1>8, <2>1
  <2>2. CASE n # 0
    <3>1. n \in 1 .. n
      BY <1>1, <2>2
    <3>2. QED BY <1>5, <1>13, <2>2, <3>1
  <2>3. QED BY <2>1, <2>2
<1>15. QED BY <1>8, <1>9, <1>14 DEF n, W

LEMMA FlattenAppend ==
  ASSUME NEW X, NEW s \in Seq(Seq(X)), NEW b \in Seq(X)
  PROVE  /\ FlattenSeq(s) \in Seq(X) /\ FlattenSeq(<< >>) = << >>
         /\ FlattenSeq(Append(s, b)) = FlattenSeq(s) \o b
<1> DEFINE n == Len(s)
           t == Append(s, b)
           W == Seq(X)
<1>1. /\ n \in Nat /\ t \in Seq(W) /\ Len(t) = n + 1 /\ t[n + 1] = b
      /\ \A i \in 1 .. n : t[i] = s[i] /\ s[i] \in W
  <2>1. \A i \in 1 .. n : s[i] \in W
    BY ToSetSeq
  <2>2. QED BY <2>1, ToSetAppend, LenProperties
<1>2. FlattenSeq(<< >>) = << >>
  BY DEF FlattenSeq
<1>3. PICK a \in [0 .. n -> W] :
        /\ a[0] = << >> /\ \A i \in 1 .. n : a[i] = a[i - 1] \o s[i]
        /\ FlattenSeq(s) = a[n]
  BY FlattenTrace
<1> HIDE DEF n, t
<1>4. PICK c \in [0 .. (n + 1) -> W] :
        /\ c[0] = << >> /\ \A i \in 1 .. (n + 1) : c[i] = c[i - 1] \o t[i]
        /\ FlattenSeq(t) = c[n + 1]
  <2>1. \E c \in [0 .. Len(t) -> W] :
          /\ c[0] = << >> /\ \A i \in 1 .. Len(t) : c[i] = c[i - 1] \o t[i]
          /\ FlattenSeq(t) = c[Len(t)]
    BY <1>1, FlattenTrace
  <2>2. QED BY <1>1, <2>1
<1> HIDE DEF W
<1>5. c[n] = a[n]
  <2> DEFINE G == [p \in W \X (1 .. n) |-> p[1] \o s[p[2]]]
  <2>1. \A i \in 1 .. n : a[i - 1] \in W /\ c[i - 1] \in W /\ i \in 1 .. (n + 1)
    BY <1>1
  <2>2. \A i \in 1 .. n : a[i] = G[<<a[i - 1], i>>] /\ c[i] = G[<<c[i - 1], i>>]
    BY <1>1, <1>3, <1>4, <2>1
  <2> HIDE DEF G
  <2>3. n \in Nat /\ c[0] = a[0]
    BY <1>1, <1>3, <1>4
  <2>4. RunOf(G, n, c) /\ RunOf(G, n, a)
    BY <2>2 DEF RunOf
  <2>5. QED BY <2>3, <2>4, TraceUnique
<1>6. c[n + 1] = c[n] \o b /\ a[n] \in W
  <2>1. n + 1 \in 1 .. (n + 1) /\ (n + 1) - 1 = n /\ n \in 0 .. n
    BY <1>1
  <2>2. QED BY <1>1, <1>4, <2>1
<1>7. QED BY <1>2, <1>3, <1>4, <1>5, <1>6 DEF t, W

\* The records that CloudWatch refuses, and those it has two reasons to refuse.
RefusedIn(md) ==
  {r \in Records : md = "raw" /\ (Ts[r] < OldBefore \/ Ts[r] < ExpiredBefore \/ Ts[r] >= NewFrom)}
TwiceIn(md) == {r \in Records : md = "raw" /\ Ts[r] < OldBefore /\ Ts[r] < ExpiredBefore}

\* The places of the records of R in s.
PlacesOf(R, s) == {i \in DOMAIN s : s[i] \in R}

LEMMA PlacesFinite ==
  ASSUME NEW R, NEW s \in Seq(Records)
  PROVE  IsFiniteSet(PlacesOf(R, s)) /\ Cardinality(PlacesOf(R, s)) \in Nat
<1>1. IsFiniteSet(1 .. Len(s)) /\ DOMAIN s = 1 .. Len(s)
  BY LenProperties, FS_Interval
<1>2. IsFiniteSet(PlacesOf(R, s))
  BY <1>1, FS_Subset DEF PlacesOf
<1>3. QED BY <1>2, FS_CardinalityType

\* A set of numbers has as many elements when all are moved by n.
LEMMA Shifted ==
  ASSUME NEW n \in Nat, NEW S \in SUBSET Nat, IsFiniteSet(S)
  PROVE  IsFiniteSet({n + i : i \in S}) /\ Cardinality({n + i : i \in S}) = Cardinality(S)
<1> DEFINE T == {n + i : i \in S}
           f == [i \in S |-> n + i]
<1>1. f \in [S -> T]
  OBVIOUS
<1>2. \A i, k \in S : f[i] = f[k] => i = k
  OBVIOUS
<1>3. \A y \in T : \E i \in S : f[i] = y
  OBVIOUS
<1> HIDE DEF f, T
<1>4. f \in Bijection(S, T)
  BY <1>1, <1>2, <1>3 DEF Bijection, Injection, Surjection, IsInjective
<1>5. ExistsBijection(S, T)
  BY <1>4 DEF ExistsBijection
<1>6. QED BY <1>5, FS_Bijection DEF T

\* The places in two stretches.
LEMMA PlacesConcat ==
  ASSUME NEW R, NEW s \in Seq(Records), NEW t \in Seq(Records)
  PROVE  Cardinality(PlacesOf(R, s \o t)) = Cardinality(PlacesOf(R, s)) + Cardinality(PlacesOf(R, t))
<1> DEFINE n == Len(s)
           m == Len(t)
           u == s \o t
           A == PlacesOf(R, s)
           B == PlacesOf(R, t)
           C == {n + i : i \in B}
<1>1. n \in Nat /\ m \in Nat /\ DOMAIN s = 1 .. n /\ DOMAIN t = 1 .. m
  BY LenProperties
<1>2. /\ DOMAIN u = 1 .. (n + m)
      /\ \A i \in 1 .. (n + m) : u[i] = IF i <= n THEN s[i] ELSE t[i - n]
  BY ConcatProperties, LenProperties
<1>3. IsFiniteSet(A) /\ Cardinality(A) \in Nat /\ IsFiniteSet(B) /\ Cardinality(B) \in Nat
  BY PlacesFinite
<1>4. /\ \A i : i \in A <=> i \in 1 .. n /\ s[i] \in R
      /\ \A i : i \in B <=> i \in 1 .. m /\ t[i] \in R
      /\ \A i : i \in PlacesOf(R, u) <=> i \in 1 .. (n + m) /\ u[i] \in R
  BY <1>1, <1>2 DEF PlacesOf
<1>5. B \in SUBSET Nat
  BY <1>1, <1>4
<1>6. IsFiniteSet(C) /\ Cardinality(C) = Cardinality(B)
  BY <1>1, <1>3, <1>5, Shifted
<1> HIDE DEF n, m, u, A, B
<1>7. \A i : i \in C <=> i \in (n + 1) .. (n + m) /\ t[i - n] \in R
  <2>1. \A i \in C : i \in (n + 1) .. (n + m) /\ i - n \in B
    BY <1>1, <1>4
  <2>2. ASSUME NEW i \in (n + 1) .. (n + m), t[i - n] \in R PROVE i \in C
    <3>1. i - n \in 1 .. m /\ i = n + (i - n)
      BY <1>1
    <3>2. i - n \in B
      BY <1>4, <2>2, <3>1
    <3>3. QED BY <3>1, <3>2
  <2>3. QED BY <1>4, <2>1, <2>2
<1> HIDE DEF C
<1>8. PlacesOf(R, u) = A \cup C
  <2>1. ASSUME NEW i \in 1 .. n PROVE i \in 1 .. (n + m) /\ u[i] = s[i]
    BY <1>1, <1>2
  <2>2. ASSUME NEW i \in (n + 1) .. (n + m) PROVE i \in 1 .. (n + m) /\ u[i] = t[i - n]
    BY <1>1, <1>2
  <2>3. \A i \in 1 .. (n + m) : i \in 1 .. n \/ i \in (n + 1) .. (n + m)
    BY <1>1
  <2>4. QED BY <1>4, <1>7, <2>1, <2>2, <2>3
<1>9. A \cap C = {}
  BY <1>1, <1>4, <1>7
<1>10. Cardinality(A \cup C) = Cardinality(A) + Cardinality(C) - Cardinality({})
  BY <1>3, <1>6, <1>9, FS_Union
<1>11. Cardinality({}) = 0
  BY FS_EmptySet
<1>12. QED BY <1>3, <1>6, <1>8, <1>10, <1>11 DEF u, A, B

\* k counts each refused event of s, and none more than twice.
CountIn(md, s, k) ==
  /\ k \in Nat
  /\ Cardinality(PlacesOf(RefusedIn(md), s)) <= k
  /\ k <= Cardinality(PlacesOf(RefusedIn(md), s)) + Cardinality(PlacesOf(TwiceIn(md), s))

LEMMA CountConcat ==
  ASSUME NEW md, NEW s \in Seq(Records), NEW t \in Seq(Records), NEW j, NEW k,
         CountIn(md, s, j), CountIn(md, t, k)
  PROVE  CountIn(md, s \o t, j + k)
<1> DEFINE R(u) == Cardinality(PlacesOf(RefusedIn(md), u))
           T(u) == Cardinality(PlacesOf(TwiceIn(md), u))
<1>1. R(s) \in Nat /\ R(t) \in Nat /\ T(s) \in Nat /\ T(t) \in Nat
  BY PlacesFinite
<1>2. R(s \o t) = R(s) + R(t) /\ T(s \o t) = T(s) + T(t)
  BY PlacesConcat
<1>3. j \in Nat /\ k \in Nat /\ R(s) <= j /\ j <= R(s) + T(s) /\ R(t) <= k /\ k <= R(t) + T(t)
  BY DEF CountIn
<1> HIDE DEF R, T
<1>4. j + k \in Nat /\ R(s \o t) <= j + k /\ j + k <= R(s \o t) + T(s \o t)
  BY <1>1, <1>2, <1>3
<1>5. QED BY <1>4 DEF CountIn, R, T

LEMMA CountZero ==
  ASSUME NEW md, NEW k, CountIn(md, << >>, k)
  PROVE  k = 0
<1>1. PlacesOf(RefusedIn(md), << >>) = {} /\ PlacesOf(TwiceIn(md), << >>) = {}
  BY DEF PlacesOf
<1>2. QED BY <1>1, FS_EmptySet DEF CountIn

\* The events before t are the first o of b.
FirstBefore(md, b, t, o) ==
  /\ o \in 0 .. Len(b)
  /\ {i \in DOMAIN b : md = "raw" /\ Ts[b[i]] < t} = 1 .. o

\* In a batch in order, the events before a time are its beginning.
LEMMA EndBeforeIs ==
  ASSUME NEW md, md = cmd.mode, NEW b, Legal(md, b), NEW t \in Nat
  PROVE  FirstBefore(md, b, t, EndBefore(b, t))
<1> DEFINE n == Len(b)
           Old == {i \in DOMAIN b : md = "raw" /\ Ts[b[i]] < t}
           o == EndBefore(b, t)
<1>1. n \in Nat /\ DOMAIN b = 1 .. n /\ \A i \in 1 .. n : Ts[b[i]] \in Nat
  <2>1. b \in Seq(Records)
    BY DEF Legal
  <2>2. n \in Nat /\ DOMAIN b = 1 .. n /\ \A i \in 1 .. n : b[i] \in Records
    BY <2>1, ToSetSeq
  <2>3. QED BY <2>2, ScanAssumption DEF ScanAssumption
<1>2. \A i : i \in Old <=> i \in 1 .. n /\ md = "raw" /\ Ts[b[i]] < t
  BY <1>1
<1>3. o = Most({0} \cup Old)
  BY DEF EndBefore
<1>4. md = "raw" => \A i, k \in 1 .. n : i < k => Ts[b[i]] <= Ts[b[k]]
  BY <1>1 DEF Legal, StampIn
<1> HIDE DEF n, Old, o
<1>5. o \in {0} \cup Old /\ \A y \in {0} \cup Old : y <= o
  <2>1. {0} \cup Old \in SUBSET Nat /\ {0} \cup Old # {} /\ {0} \cup Old \subseteq 0 .. n
    BY <1>1, <1>2
  <2>2. IsFiniteSet({0} \cup Old)
    <3>1. IsFiniteSet(0 .. n)
      BY <1>1, FS_Interval
    <3>2. QED BY <2>1, <3>1, FS_Subset
  <2>3. QED BY <1>3, <2>1, <2>2, MostIn
<1>6. o \in 0 .. n
  BY <1>1, <1>2, <1>5
<1>7. \A i \in Old : i \in 1 .. o
  BY <1>1, <1>2, <1>5, <1>6
<1>8. ASSUME NEW i \in 1 .. o PROVE i \in Old
  <2>1. o \in Old /\ i \in 1 .. n /\ o \in 1 .. n /\ (i = o \/ i < o)
    BY <1>1, <1>5, <1>6
  <2>2. Ts[b[o]] < t /\ md = "raw"
    BY <1>2, <2>1
  <2>3. CASE i = o
    BY <2>1, <2>3
  <2>4. CASE i < o
    <3>1. Ts[b[i]] <= Ts[b[o]] /\ Ts[b[i]] \in Nat /\ Ts[b[o]] \in Nat
      BY <1>1, <1>4, <2>1, <2>2, <2>4
    <3>2. Ts[b[i]] < t
      BY <2>2, <3>1
    <3>3. QED BY <1>2, <2>1, <2>2, <3>2
  <2>5. QED BY <2>1, <2>3, <2>4
<1>9. Old = 1 .. o
  BY <1>7, <1>8
<1>10. QED BY <1>6, <1>9 DEF n, Old, o, FirstBefore

\* And those from a time on are its end.
LEMMA TooNewStartIs ==
  ASSUME NEW md, md = cmd.mode, NEW b, Legal(md, b)
  PROVE  /\ TooNewStart(b) \in 0 .. Len(b)
         /\ {i \in DOMAIN b : md = "raw" /\ Ts[b[i]] >= NewFrom} = (TooNewStart(b) + 1) .. Len(b)
<1> DEFINE n == Len(b)
           New == {i \in DOMAIN b : md = "raw" /\ Ts[b[i]] >= NewFrom}
           w == TooNewStart(b)
<1>1. n \in Nat /\ DOMAIN b = 1 .. n /\ \A i \in 1 .. n : Ts[b[i]] \in Nat
  <2>1. b \in Seq(Records)
    BY DEF Legal
  <2>2. n \in Nat /\ DOMAIN b = 1 .. n /\ \A i \in 1 .. n : b[i] \in Records
    BY <2>1, ToSetSeq
  <2>3. QED BY <2>2, ScanAssumption DEF ScanAssumption
<1>2. \A i : i \in New <=> i \in 1 .. n /\ md = "raw" /\ Ts[b[i]] >= NewFrom
  BY <1>1
<1>3. w = Least({n} \cup {i - 1 : i \in New})
  BY DEF TooNewStart
<1>4. md = "raw" => \A i, k \in 1 .. n : i < k => Ts[b[i]] <= Ts[b[k]]
  BY <1>1 DEF Legal, StampIn
<1>5. NewFrom \in Nat
  BY ScanAssumption DEF ScanAssumption
<1> HIDE DEF n, New, w
<1>6. w \in {n} \cup {i - 1 : i \in New} /\ \A y \in {n} \cup {i - 1 : i \in New} : w <= y
  <2>1. {n} \cup {i - 1 : i \in New} \in SUBSET Nat
    BY <1>1, <1>2
  <2>2. QED BY <1>3, <2>1, LeastIn
<1>7. w \in 0 .. n
  BY <1>1, <1>2, <1>6
<1>8. ASSUME NEW i \in New PROVE i \in (w + 1) .. n
  <2>1. i - 1 \in {k - 1 : k \in New} /\ i \in 1 .. n
    BY <1>2
  <2>2. w <= i - 1
    BY <1>6, <2>1
  <2>3. QED BY <1>1, <1>7, <2>1, <2>2
<1>9. ASSUME NEW i \in (w + 1) .. n PROVE i \in New
  <2>1. i \in 1 .. n /\ w # n
    BY <1>1, <1>7
  <2>2. PICK j \in New : w = j - 1
    BY <1>6, <2>1
  <2>3. j \in 1 .. n /\ md = "raw" /\ Ts[b[j]] >= NewFrom
    BY <1>2, <2>2
  <2>4. j = i \/ j < i
    BY <1>1, <1>7, <2>2, <2>3
  <2>5. CASE j < i
    <3>1. Ts[b[j]] <= Ts[b[i]] /\ Ts[b[i]] \in Nat /\ Ts[b[j]] \in Nat
      BY <1>1, <1>4, <2>1, <2>3, <2>5
    <3>2. Ts[b[i]] >= NewFrom
      BY <1>5, <2>3, <3>1
    <3>3. QED BY <1>2, <2>1, <2>3, <3>2
  <2>6. QED BY <2>2, <2>4, <2>5
<1>10. New = (w + 1) .. n
  BY <1>8, <1>9
<1>11. QED BY <1>7, <1>10 DEF n, New, w

\* The sizes of two beginnings and an end of 1 .. n that the beginnings do not reach.
StretchSizes(n, o, e, w) ==
  /\ o <= e => /\ Cardinality((1 .. o) \cup (1 .. e) \cup ((w + 1) .. n)) = e + (n - w)
               /\ Cardinality((1 .. o) \cap (1 .. e)) = o
  /\ e <= o => /\ Cardinality((1 .. o) \cup (1 .. e) \cup ((w + 1) .. n)) = o + (n - w)
               /\ Cardinality((1 .. o) \cap (1 .. e)) = e

LEMMA ThreeStretches ==
  ASSUME NEW n \in Nat, NEW o \in 0 .. n, NEW e \in 0 .. n, NEW w \in 0 .. n, o <= w, e <= w
  PROVE  StretchSizes(n, o, e, w)
<1>1. ASSUME NEW x \in 0 .. n PROVE IsFiniteSet(1 .. x) /\ Cardinality(1 .. x) = x
  <2>1. IsFiniteSet(1 .. x) /\ Cardinality(1 .. x) = IF 1 > x THEN 0 ELSE x - 1 + 1
    BY FS_Interval
  <2>2. QED BY <2>1
<1>2. IsFiniteSet((w + 1) .. n) /\ Cardinality((w + 1) .. n) = n - w
  <2>1. IsFiniteSet((w + 1) .. n) /\ Cardinality((w + 1) .. n) = IF w + 1 > n THEN 0 ELSE n - (w + 1) + 1
    BY FS_Interval
  <2>2. QED BY <2>1
<1>3. ASSUME NEW x \in 0 .. n, x <= w PROVE Cardinality((1 .. x) \cup ((w + 1) .. n)) = x + (n - w)
  <2>1. (1 .. x) \cap ((w + 1) .. n) = {}
    BY <1>3
  <2> DEFINE A == 1 .. x
             B == (w + 1) .. n
  <2>2. IsFiniteSet(A) /\ Cardinality(A) = x /\ IsFiniteSet(B) /\ Cardinality(B) = n - w /\ A \cap B = {}
    BY <1>1, <1>2, <2>1
  <2> HIDE DEF A, B
  <2>3. Cardinality(A \cup B) = Cardinality(A) + Cardinality(B) - Cardinality(A \cap B)
    BY <2>2, FS_Union
  <2>4. Cardinality(A \cap B) = 0
    BY <2>2, FS_EmptySet
  <2>5. Cardinality(A \cup B) = x + (n - w)
    BY <2>2, <2>3, <2>4
  <2>6. QED BY <2>5 DEF A, B
<1>4. CASE o <= e
  <2>1. (1 .. o) \cup (1 .. e) = 1 .. e /\ (1 .. o) \cap (1 .. e) = 1 .. o
    BY <1>4
  <2>2. Cardinality((1 .. e) \cup ((w + 1) .. n)) = e + (n - w)
    BY <1>3
  <2>3. Cardinality(1 .. o) = o
    BY <1>1
  <2>4. e <= o => o = e
    BY <1>4
  <2>5. QED BY <2>1, <2>2, <2>3, <2>4 DEF StretchSizes
<1>5. CASE e <= o
  <2>1. (1 .. o) \cup (1 .. e) = 1 .. o /\ (1 .. o) \cap (1 .. e) = 1 .. e
    BY <1>5
  <2>2. Cardinality((1 .. o) \cup ((w + 1) .. n)) = o + (n - w)
    BY <1>3
  <2>3. Cardinality(1 .. e) = e
    BY <1>1
  <2>4. o <= e => o = e
    BY <1>5
  <2>5. QED BY <2>1, <2>2, <2>3, <2>4 DEF StretchSizes
<1>6. o <= e \/ e <= o
  OBVIOUS
<1>7. QED BY <1>4, <1>5, <1>6

\* Rejections::from_indexes leaves out no refused event of a batch that is in order,
\* and counts none twice that is not both too old and expired.
LEMMA RejectionsAre ==
  ASSUME NEW md, md = cmd.mode, NEW b, Legal(md, b), NEW info \in RejectedLogEventsInfo(b)
  PROVE  CountIn(md, b, Rejections(info, Len(b)))
<1> DEFINE n == Len(b)
           Old == {i \in DOMAIN b : md = "raw" /\ Ts[b[i]] < OldBefore}
           Expired == {i \in DOMAIN b : md = "raw" /\ Ts[b[i]] < ExpiredBefore}
           New == {i \in DOMAIN b : md = "raw" /\ Ts[b[i]] >= NewFrom}
           o == TooOldEnd(b)
           e == ExpiredEnd(b)
           w == TooNewStart(b)
<1>1. n \in Nat /\ DOMAIN b = 1 .. n /\ \A i \in 1 .. n : b[i] \in Records /\ Ts[b[i]] \in Nat
  <2>1. b \in Seq(Records)
    BY DEF Legal
  <2>2. n \in Nat /\ DOMAIN b = 1 .. n /\ \A i \in 1 .. n : b[i] \in Records
    BY <2>1, ToSetSeq
  <2>3. QED BY <2>2, ScanAssumption DEF ScanAssumption
<1>2. /\ OldBefore \in Nat /\ ExpiredBefore \in Nat /\ NewFrom \in Nat
      /\ OldBefore <= NewFrom /\ ExpiredBefore <= NewFrom
  BY ScanAssumption DEF ScanAssumption
<1>3. o \in 0 .. n /\ Old = 1 .. o /\ e \in 0 .. n /\ Expired = 1 .. e
  <2>1. FirstBefore(md, b, OldBefore, EndBefore(b, OldBefore))
    BY <1>2, EndBeforeIs
  <2>2. FirstBefore(md, b, ExpiredBefore, EndBefore(b, ExpiredBefore))
    BY <1>2, EndBeforeIs
  <2>3. QED BY <2>1, <2>2 DEF FirstBefore, TooOldEnd, ExpiredEnd
<1>4. w \in 0 .. n /\ New = (w + 1) .. n
  BY TooNewStartIs
<1>5. PlacesOf(RefusedIn(md), b) = Old \cup Expired \cup New
  BY <1>1 DEF PlacesOf, RefusedIn
<1>6. PlacesOf(TwiceIn(md), b) = Old \cap Expired
  BY <1>1 DEF PlacesOf, TwiceIn
<1>7. Old \cap New = {} /\ Expired \cap New = {}
  BY <1>1, <1>2
<1>8. /\ info.old \in {0, o} /\ info.expired \in {0, e} /\ info.new = w
      /\ info.old < o => o <= info.expired
      /\ info.expired < e => e <= info.old
      /\ Rejections(info, n) = info.old + info.expired + (n - info.new)
  BY DEF RejectedLogEventsInfo, Rejections
<1> DEFINE k == Rejections(info, n)
           R == PlacesOf(RefusedIn(md), b)
           T == PlacesOf(TwiceIn(md), b)
<1> HIDE DEF n, Old, Expired, New, o, e, w, k, R, T
<1>9. o <= w /\ e <= w
  <2>1. ASSUME NEW x \in 0 .. n, (1 .. x) \cap ((w + 1) .. n) = {} PROVE x <= w
    <3>1. CASE x > w
      <4>1. x \in 1 .. x /\ x \in (w + 1) .. n
        BY <1>1, <1>4, <3>1
      <4>2. QED BY <2>1, <4>1
    <3>2. QED BY <1>1, <1>4, <3>1
  <2>2. QED BY <1>3, <1>4, <1>7, <2>1
<1>10. R = (1 .. o) \cup (1 .. e) \cup ((w + 1) .. n) /\ T = (1 .. o) \cap (1 .. e)
  BY <1>3, <1>4, <1>5, <1>6 DEF R, T
<1>11. /\ o <= e => Cardinality(R) = e + (n - w) /\ Cardinality(T) = o
       /\ e <= o => Cardinality(R) = o + (n - w) /\ Cardinality(T) = e
  <2>1. n \in Nat /\ o \in 0 .. n /\ e \in 0 .. n /\ w \in 0 .. n /\ o <= w /\ e <= w
    BY <1>1, <1>3, <1>4, <1>9
  <2>2. StretchSizes(n, o, e, w)
    BY <2>1, ThreeStretches
  <2>3. QED BY ONLY <1>10, <2>2, Zenon DEF StretchSizes
<1>12. k = info.old + info.expired + (n - w)
  BY <1>8 DEF k
<1>13. k \in Nat /\ Cardinality(R) <= k /\ k <= Cardinality(R) + Cardinality(T)
  <2>1. CASE o <= e
    BY <1>1, <1>3, <1>4, <1>8, <1>11, <1>12, <2>1
  <2>2. CASE e <= o
    BY <1>1, <1>3, <1>4, <1>8, <1>11, <1>12, <2>2
  <2>3. QED BY <1>3, <2>1, <2>2
<1>14. QED BY <1>13 DEF CountIn, k, R, T, n

\* What is sent, on its way and batched is what was emitted and fits.
SentInv ==
  /\ cmd.mode \in {"wrap", "raw"} =>
       (FlattenSeq(sent) \o sending) \o batch = FittingIn(cmd.mode, out)
  /\ ensured => \E r \in ToSet(out) : CostIn(cmd.mode, r) <= MAX_BATCH_BYTES
  /\ CountIn(cmd.mode, FlattenSeq(sent), rejected)

LEMMA SentEmpty ==
  ASSUME NEW md
  PROVE  /\ FlattenSeq(<< >>) = << >> /\ FittingIn(md, << >>) = << >>
         /\ (<< >> \o << >>) \o << >> = << >>
         /\ CountIn(md, << >>, 0)
<1>1. << >> \in Seq(Records)
  OBVIOUS
<1>2. FlattenSeq(<< >>) = << >>
  BY DEF FlattenSeq
<1>3. FittingIn(md, << >>) = << >>
  BY <1>1, FittingTrace
<1>4. << >> \o << >> = << >>
  BY <1>1, ConcatEmptySeq
<1>5. PlacesOf(RefusedIn(md), << >>) = {} /\ PlacesOf(TwiceIn(md), << >>) = {}
  BY DEF PlacesOf
<1>6. CountIn(md, << >>, 0)
  BY <1>5, FS_EmptySet DEF CountIn
<1>7. QED BY <1>2, <1>3, <1>4, <1>6

LEMMA SentStep ==
  ASSUME OutInv, PopInv, ListInv, RestoreInv, SentInv, [Next]_vars
  PROVE  SentInv'
<1> DEFINE F == FlattenSeq(sent)
           X == Seq(Records)
<1>1. sent \in Seq(X) /\ sending \in X /\ batch \in X /\ out \in X /\ << >> \in X
  BY DEF RestoreInv, Legal, OutInv
<1>2. F \in X
  BY <1>1, FlattenAppend
<1>3. \A y \in X : y \o << >> = y /\ << >> \o y = y
  BY ConcatEmptySeq
<1>4. \A y, z, v \in X : (y \o z) \o v = y \o (z \o v)
  BY ConcatAssociative
<1>5. \A y, z \in X : y \o z \in X
  BY ConcatProperties
<1>6. \A y \in X : \A r \in Records : Append(y, r) = y \o <<r>> /\ <<r>> \in X
  BY AppendIsConcat
<1> HIDE DEF F, X
<1>7. CASE Return
  <2>1. PICK r : r = Head(popped)
    OBVIOUS
  <2>2. PICK md : md = cmd.mode
    OBVIOUS
  <2>3. /\ r \in Records /\ out' = Append(out, r) /\ sending = << >>
        /\ \/ /\ md \in {"grep", "file"} \/ CostIn(md, r) > MAX_BATCH_BYTES
              /\ batch' = batch /\ sending' = sending
           \/ /\ CostIn(md, r) <= MAX_BATCH_BYTES
              /\ sending' = batch /\ batch' = Append(<< >>, r)
           \/ /\ CostIn(md, r) <= MAX_BATCH_BYTES
              /\ sending' = sending /\ batch' = Append(batch, r)
    BY <1>7, <2>1, <2>2, EmitEffect
  <2>4. cmd' = cmd /\ ensured' = ensured /\ sent' = sent /\ rejected' = rejected
    BY <1>7 DEF Return
  <2>5. ToSet(out') = ToSet(out) \cup {r}
    BY <1>1, <2>3, ToSetAppend DEF X
  <2>6. FittingIn(md, out') = FitNext(md, FittingIn(md, out), r) /\ FittingIn(md, out) \in X
    BY <1>1, <2>3, FittingAppend DEF X
  <2>7. ASSUME md \in {"wrap", "raw"} PROVE (F \o sending') \o batch' = FittingIn(md, out')
    <3>1. F \o batch = FittingIn(md, out)
      <4>1. (F \o << >>) \o batch = FittingIn(md, out)
        BY <2>2, <2>3, <2>7 DEF SentInv, F
      <4>2. QED BY <1>2, <1>3, <4>1
    <3>2. CASE CostIn(md, r) > MAX_BATCH_BYTES /\ batch' = batch /\ sending' = sending
      <4>1. ~(CostIn(md, r) <= MAX_BATCH_BYTES)
        <5>1. CostIn(md, r) \in Nat /\ MAX_BATCH_BYTES \in Nat
          BY <2>3, CostTyped, ScanAssumption DEF ScanAssumption
        <5>2. QED BY <3>2, <5>1
      <4>2. FittingIn(md, out') = FittingIn(md, out)
        BY <2>6, <4>1 DEF FitNext
      <4>3. F \o sending' = F
        BY <1>2, <1>3, <2>3, <3>2
      <4>4. QED BY <3>1, <3>2, <4>2, <4>3
    <3>3. CASE CostIn(md, r) <= MAX_BATCH_BYTES /\ sending' = batch /\ batch' = Append(<< >>, r)
      <4>1. FittingIn(md, out') = Append(FittingIn(md, out), r)
        BY <2>6, <3>3 DEF FitNext
      <4>2. batch' = << >> \o <<r>> /\ <<r>> \in X
        BY <1>1, <1>6, <2>3, <3>3
      <4>3. batch' = <<r>>
        BY <1>3, <4>2
      <4>4. QED BY <1>6, <2>3, <2>6, <3>1, <3>3, <4>1, <4>3
    <3>4. CASE CostIn(md, r) <= MAX_BATCH_BYTES /\ sending' = sending /\ batch' = Append(batch, r)
      <4>1. FittingIn(md, out') = FittingIn(md, out) \o <<r>>
        BY <1>6, <2>3, <2>6, <3>4 DEF FitNext
      <4>2. batch' = batch \o <<r>> /\ <<r>> \in X
        BY <1>1, <1>6, <2>3, <3>4
      <4>3. F \o sending' = F
        BY <1>2, <1>3, <2>3, <3>4
      <4>4. (F \o batch) \o <<r>> = F \o (batch \o <<r>>)
        <5>1. F \in X /\ batch \in X /\ <<r>> \in X
          BY <1>1, <1>2, <4>2
        <5>2. QED BY ONLY <1>4, <5>1, Zenon
      <4>5. QED BY <3>1, <4>1, <4>2, <4>3, <4>4
    <3>5. md \notin {"grep", "file"}
      BY <2>7
    <3>6. QED BY <2>3, <3>2, <3>3, <3>4, <3>5
  <2>8. ensured' => \E x \in ToSet(out') : CostIn(md, x) <= MAX_BATCH_BYTES
    BY <2>2, <2>4, <2>5 DEF SentInv
  <2>9. CountIn(md, F, rejected')
    BY <2>2, <2>4 DEF SentInv, F
  <2>10. QED BY <2>2, <2>4, <2>7, <2>8, <2>9 DEF SentInv, F
<1>8. CASE Finish
  <2>1. /\ cmd' = cmd /\ ensured' = ensured /\ sent' = sent /\ rejected' = rejected /\ out' = out
        /\ sending = << >> /\ sending' = batch /\ batch' = << >>
    BY <1>8 DEF Finish
  <2>2. (F \o << >>) \o batch = (F \o batch) \o << >>
    BY <1>1, <1>2, <1>3, <1>5
  <2>3. QED BY <2>1, <2>2 DEF SentInv, F
<1>9. CASE EnsureTarget
  <2>1. /\ cmd' = cmd /\ sent' = sent /\ rejected' = rejected /\ out' = out
        /\ sending # << >> /\ sending' = sending /\ batch' = batch
    BY <1>9 DEF EnsureTarget
  <2>2. sending[1] \in ToSet(sending)
    <3>1. 1 \in DOMAIN sending
      BY <1>1, <2>1, LenProperties DEF X
    <3>2. QED BY <3>1 DEF ToSet
  <2>3. \E r \in ToSet(out) : CostIn(cmd.mode, r) <= MAX_BATCH_BYTES
    BY <2>2 DEF RestoreInv
  <2>4. QED BY <2>1, <2>3 DEF SentInv
<1>10. CASE SendBatch
  <2>1. cmd' = cmd /\ ensured' = ensured /\ out' = out /\ batch' = batch
    BY <1>10 DEF SendBatch
  <2>2. CASE /\ sent' = Append(sent, sending) /\ sending' = << >>
             /\ \E info \in RejectedLogEventsInfo(sending) :
                  rejected' = rejected + Rejections(info, Len(sending))
    <3>1. FlattenSeq(sent') = F \o sending
      BY <1>1, <2>2, FlattenAppend DEF F, X
    <3>2. F \o sending \in X /\ (F \o sending) \o << >> = F \o sending
      BY <1>1, <1>2, <1>3, <1>5
    <3>3. PICK md : md = cmd.mode
      OBVIOUS
    <3>4. PICK k : rejected' = rejected + k /\ CountIn(md, sending, k)
      BY <2>2, <3>3, RejectionsAre DEF RestoreInv
    <3>5. CountIn(md, F, rejected)
      BY <3>3 DEF SentInv, F
    <3>6. CountIn(md, F \o sending, rejected')
      BY <1>1, <1>2, <3>4, <3>5, CountConcat DEF X
    <3>7. QED BY <2>1, <2>2, <3>1, <3>2, <3>3, <3>6 DEF SentInv, F
  <2>3. CASE sent' = sent /\ sending' = sending /\ rejected' = rejected
    BY <2>1, <2>3 DEF SentInv
  <2>4. QED BY <1>10, <2>2, <2>3 DEF SendBatch
<1>11. ASSUME NEW c \in Commands, StartScan(c) PROVE SentInv'
  <2>1. phase = "idle" /\ restore' = restore /\ out' = out
    BY <1>11 DEF StartScan
  <2>2. batch = << >> /\ sending = << >> /\ sent = << >> /\ ~ensured /\ out = << >>
    BY <2>1 DEF RestoreInv, ListInv
  <2>3. rejected = 0
    BY <2>2, SentEmpty, CountZero DEF SentInv
  <2>4. PICK md : md = cmd'.mode
    OBVIOUS
  <2>5. /\ FlattenSeq(<< >>) = << >> /\ FittingIn(md, << >>) = << >>
        /\ (<< >> \o << >>) \o << >> = << >>
        /\ CountIn(md, << >>, 0)
    BY SentEmpty
  <2>6. /\ batch' = << >> /\ sending' = << >> /\ sent' = << >> /\ ~ensured' /\ out' = << >> /\ rejected' = 0
    BY <2>1, <2>2, <2>3 DEF restore
  <2>7. QED BY <2>4, <2>5, <2>6 DEF SentInv
<1>12. CASE UNCHANGED <<restore, cmd, out>>
  BY <1>12 DEF SentInv, restore
<1>13. QED BY <1>7, <1>8, <1>9, <1>10, <1>11, <1>12, RestoreSteps

LEMMA FittingByMode == \A s : Fitting(s) = FittingIn(cmd.mode, s)
  BY DEF Fitting, FittingIn, Fits, Cost, CostIn, FoldLeft, MapThenFoldSet

\* A restore sends what the scan emitted, in its order and each event once, across
\* batches and throttled attempts, and its count of rejected events is right.
THEOREM NothingSkippedAlways == Spec => []NothingSkipped
<1>1. Init => SentInv
  BY SentEmpty DEF Init, SentInv, NoCommand
<1>2. ScanInv /\ RestoreInv /\ SentInv /\ [Next]_vars => SentInv'
  BY SentStep DEF ScanInv
<1>3. RestoreInv /\ SentInv => NothingSkipped
  <2> SUFFICES ASSUME RestoreInv, SentInv PROVE NothingSkipped
    OBVIOUS
  <2>1. \A r : Fits(r) <=> CostIn(cmd.mode, r) <= MAX_BATCH_BYTES
    BY ByMode DEF Fits
  <2>2. CountIn(cmd.mode, FlattenSeq(sent), rejected)
    BY DEF SentInv
  <2>3. Fitting(out) = FittingIn(cmd.mode, out)
    BY FittingByMode
  <2> DEFINE all == FlattenSeq(sent)
             refused == Cardinality({i \in DOMAIN all : Refused(all[i])})
             twice == Cardinality({i \in DOMAIN all : RefusedTwice(all[i])})
  <2>4. all \in Seq(Records)
    BY FlattenAppend DEF RestoreInv
  <2>5. \A i \in DOMAIN all : all[i] \in Records
    BY <2>4, ToSetSeq
  <2> HIDE DEF all
  <2>6. /\ {i \in DOMAIN all : Refused(all[i])} = PlacesOf(RefusedIn(cmd.mode), all)
        /\ {i \in DOMAIN all : RefusedTwice(all[i])} = PlacesOf(TwiceIn(cmd.mode), all)
    BY <2>5 DEF PlacesOf, RefusedIn, TwiceIn, Refused, RefusedTwice
  <2>7. refused \in Nat /\ twice \in Nat
    BY <2>4, <2>6, PlacesFinite
  <2>8. rejected \in Nat /\ refused <= rejected /\ rejected <= refused + twice
    BY <2>2, <2>6 DEF CountIn, all
  <2> HIDE DEF refused, twice
  <2>9. rejected \in refused .. refused + twice
    BY <2>7, <2>8
  <2>10. QED BY <2>1, <2>3, <2>9 DEF SentInv, NothingSkipped, all, refused, twice
<1>4. QED BY <1>1, <1>2, <1>3, RestoreAlways, PTL DEF Spec
=============================================================================
