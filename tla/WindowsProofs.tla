--------------------------- MODULE WindowsProofs ---------------------------
(***************************************************************************)
(* Proofs that the walks over the window grid leave no hole and cut the    *)
(* windows of the reference grid, for every length of the day, every       *)
(* window size and every range.                                            *)
(***************************************************************************)
EXTENDS Windows, TLAPS

-----------------------------------------------------------------------------
(* Division *)

\* The quotient of the grid arithmetic is the largest multiple that fits.
LEMMA DivBounds ==
  ASSUME NEW a \in Nat, NEW b \in Nat \ {0}
  PROVE  /\ a \div b \in Nat
         /\ (a \div b) * b <= a
         /\ a < (a \div b) * b + b
  OBVIOUS

\* Multiples of b that are less than b apart are equal.
LEMMA MultiplesApart ==
  ASSUME NEW p \in Nat, NEW q \in Nat, NEW b \in Nat \ {0}, p < q
  PROVE  p * b + b <= q * b
<1>1. q - p - 1 \in Nat
  OBVIOUS
<1>2. (q - p - 1) * b \in Nat
  BY <1>1
<1>3. (q - p - 1) * b = q * b - p * b - b
  OBVIOUS
<1>4. QED
  BY <1>2, <1>3

\* Dividing gives back the factor of a multiple plus a remainder.
LEMMA DivUnique ==
  ASSUME NEW q \in Nat, NEW b \in Nat \ {0}, NEW r \in Nat, r < b
  PROVE  (q * b + r) \div b = q
<1> DEFINE a == q * b + r
           p == a \div b
<1>1. a \in Nat /\ q * b \in Nat
  OBVIOUS
<1>2. p \in Nat /\ p * b <= a /\ a < p * b + b
  BY <1>1, DivBounds
<1>3. p * b \in Nat
  BY <1>2
<1>4. ~(p < q)
  <2>1. p < q => p * b + b <= q * b
    BY <1>2, MultiplesApart
  <2>2. QED
    BY <1>1, <1>2, <1>3, <2>1
<1>5. ~(q < p)
  <2>1. q < p => q * b + b <= p * b
    BY <1>2, MultiplesApart
  <2>2. QED
    BY <1>1, <1>2, <1>3, <2>1
<1>6. QED
  BY <1>2, <1>4, <1>5

-----------------------------------------------------------------------------
(* The grid *)

\* The k-th boundary of day d.
Boundary(d, k, sz) == d * DayMs + k * sz

\* b is a boundary: align_down and next_boundary stay among these.
Aligned(b, sz) ==
  \E d, k \in Nat : b = Boundary(d, k, sz) /\ k * sz < DayMs

\* A time less than a window after a boundary, and on the same day, is aligned
\* to it.
LEMMA AlignOf ==
  ASSUME NEW sz \in Nat \ {0}, NEW d \in Nat, NEW k \in Nat, NEW r \in Nat,
         r < sz, k * sz + r < DayMs
  PROVE  align_down(Boundary(d, k, sz) + r, sz) = Boundary(d, k, sz)
<1> DEFINE ts == Boundary(d, k, sz) + r
           rest == k * sz + r
<1>1. DayMs \in Nat \ {0}
  BY WindowsAssumption DEF WindowsAssumption
<1>2. rest \in Nat /\ d * DayMs \in Nat /\ k * sz \in Nat
  BY <1>1
<1>3. ts = d * DayMs + rest
  BY <1>1, <1>2 DEF Boundary
<1>4. ts \div DayMs = d
  <2>1. (d * DayMs + rest) \div DayMs = d
    BY <1>1, <1>2, DivUnique
  <2>2. QED
    BY <1>3, <2>1
<1>5. ts - d * DayMs = k * sz + r
  BY <1>2, <1>3
<1>6. (k * sz + r) \div sz = k
  BY DivUnique
<1>7. QED
  BY <1>4, <1>5, <1>6 DEF align_down, Boundary

\* Every time is less than a window after a boundary of its day.
LEMMA AlignExists ==
  ASSUME NEW ts \in Nat, NEW sz \in Nat \ {0}
  PROVE  \E d, k, r \in Nat : ts = Boundary(d, k, sz) + r /\ r < sz /\ k * sz + r < DayMs
<1>1. DayMs \in Nat \ {0}
  BY WindowsAssumption DEF WindowsAssumption
<1> DEFINE d == ts \div DayMs
           rest == ts - d * DayMs
           k == rest \div sz
           r == rest - k * sz
<1>2. d \in Nat /\ d * DayMs <= ts /\ ts < d * DayMs + DayMs /\ d * DayMs \in Nat
  BY <1>1, DivBounds
<1>3. rest \in Nat /\ rest < DayMs
  <2> HIDE DEF d
  <2> QED BY <1>1, <1>2
<1>4. k \in Nat /\ k * sz <= rest /\ rest < k * sz + sz /\ k * sz \in Nat
  <2> HIDE DEF rest
  <2> QED BY <1>3, DivBounds
<1>5. r \in Nat /\ r < sz /\ k * sz + r = rest
  <2> HIDE DEF rest, k
  <2> QED BY <1>3, <1>4
<1>6. ts = Boundary(d, k, sz) + r
  <2>1. ts = d * DayMs + rest
    <3> HIDE DEF d
    <3> QED BY <1>2
  <2> HIDE DEF d, k, r, rest
  <2> QED BY <1>2, <1>4, <1>5, <2>1 DEF Boundary
<1>7. QED
  <2> HIDE DEF d, k, r, rest
  <2> QED BY <1>2, <1>3, <1>4, <1>5, <1>6

\* The walk begins at a boundary, not after the time it was asked for.
LEMMA AlignDown ==
  ASSUME NEW ts \in Nat, NEW sz \in Nat \ {0}
  PROVE  /\ align_down(ts, sz) \in Nat /\ align_down(ts, sz) <= ts
         /\ Aligned(align_down(ts, sz), sz)
<1>1. PICK d \in Nat, k \in Nat, r \in Nat :
        ts = Boundary(d, k, sz) + r /\ r < sz /\ k * sz + r < DayMs
  BY AlignExists
<1>2. align_down(ts, sz) = Boundary(d, k, sz)
  BY <1>1, AlignOf
<1>3. DayMs \in Nat /\ d * DayMs \in Nat /\ k * sz \in Nat
  BY WindowsAssumption DEF WindowsAssumption
<1>4. k * sz < DayMs
  BY <1>1, <1>3
<1>5. QED
  BY <1>1, <1>2, <1>3, <1>4 DEF Aligned, Boundary

\* The next boundary is later, is a boundary, and the times before it are
\* aligned to this one.
LEMMA NextBoundary ==
  ASSUME NEW b \in Nat, NEW sz \in Nat \ {0}, Aligned(b, sz)
  PROVE  /\ next_boundary(b, sz) \in Nat /\ b < next_boundary(b, sz)
         /\ Aligned(next_boundary(b, sz), sz)
         /\ \A t \in Nat : b <= t /\ t < next_boundary(b, sz) => align_down(t, sz) = b
<1>1. PICK d \in Nat, k \in Nat : b = Boundary(d, k, sz) /\ k * sz < DayMs
  BY DEF Aligned
<1>2. DayMs \in Nat \ {0} /\ d * DayMs \in Nat /\ k * sz \in Nat
  BY WindowsAssumption DEF WindowsAssumption
<1>3. b = d * DayMs + k * sz
  BY <1>1 DEF Boundary
<1>4. b \div DayMs = d
  <2>1. (d * DayMs + k * sz) \div DayMs = d
    BY <1>1, <1>2, DivUnique
  <2>2. QED
    BY <1>3, <2>1
<1>5. next_boundary(b, sz) = Min(b + sz, d * DayMs + DayMs)
  BY <1>4 DEF next_boundary
<1>6. /\ next_boundary(b, sz) \in Nat /\ b < next_boundary(b, sz)
      /\ next_boundary(b, sz) <= b + sz /\ next_boundary(b, sz) <= d * DayMs + DayMs
  BY <1>1, <1>2, <1>3, <1>5 DEF Min
<1>7. Aligned(next_boundary(b, sz), sz)
  <2>1. CASE b + sz < d * DayMs + DayMs
    <3>1. next_boundary(b, sz) = b + sz
      BY <1>2, <1>5, <2>1 DEF Min
    <3>2. (k + 1) * sz = k * sz + sz
      OBVIOUS
    <3>3. b + sz = Boundary(d, k + 1, sz) /\ (k + 1) * sz < DayMs
      BY <1>2, <1>3, <2>1, <3>2 DEF Boundary
    <3>4. QED
      BY <3>1, <3>3 DEF Aligned
  <2>2. CASE ~(b + sz < d * DayMs + DayMs)
    <3>1. next_boundary(b, sz) = d * DayMs + DayMs
      BY <1>2, <1>5, <2>2 DEF Min
    <3>2. (d + 1) * DayMs = d * DayMs + DayMs
      BY <1>2
    <3>3. 0 * sz = 0
      OBVIOUS
    <3>4. next_boundary(b, sz) = Boundary(d + 1, 0, sz) /\ 0 * sz < DayMs
      BY <1>2, <3>1, <3>2, <3>3 DEF Boundary
    <3>5. QED
      BY <3>4 DEF Aligned
  <2>3. QED
    BY <2>1, <2>2
<1>8. ASSUME NEW t \in Nat, b <= t, t < next_boundary(b, sz)
      PROVE  align_down(t, sz) = b
  <2>1. t - b \in Nat /\ t - b < sz /\ k * sz + (t - b) < DayMs
    BY <1>2, <1>3, <1>6, <1>8
  <2>2. align_down(Boundary(d, k, sz) + (t - b), sz) = Boundary(d, k, sz)
    BY <2>1, AlignOf
  <2>3. b + (t - b) = t
    BY <1>8
  <2>4. QED
    BY <1>1, <2>2, <2>3
<1>9. QED
  BY <1>6, <1>7, <1>8

-----------------------------------------------------------------------------
(* The walk *)

\* The walk stands at a boundary, has covered the range up to it, and when it
\* is over it had a reason to stop there.
WalkInv ==
  /\ walk \in {"windows", "windows_covering"}
  /\ from \in Nat /\ to \in Nat /\ size \in Nat \ {0}
  /\ start \in Nat /\ Aligned(start, size)
  /\ \A t \in Nat : from <= t /\ t < start => \E w \in out : w[1] <= t /\ t < w[2]
  /\ done => Stop(next_boundary(start, size))

\* Where the walk begins there is nothing to cover yet.
LEMMA InitWalk == Init => WalkInv
<1> SUFFICES ASSUME Init PROVE WalkInv
  OBVIOUS
<1>1. from \in Nat /\ to \in Nat /\ size \in Nat \ {0}
  BY WindowsAssumption DEF Init, WindowsAssumption
<1>2. start \in Nat /\ start <= from /\ Aligned(start, size)
  BY <1>1, AlignDown DEF Init
<1>3. QED
  BY <1>1, <1>2 DEF Init, WalkInv

\* A turn of the loop covers the times up to the next boundary.
LEMMA StepWalk == WalkInv /\ [Next]_vars => WalkInv'
<1> SUFFICES ASSUME WalkInv, [Next]_vars PROVE WalkInv'
  OBVIOUS
<1> DEFINE end == next_boundary(start, size)
<1>1. CASE UNCHANGED vars
  BY <1>1 DEF vars, WalkInv, Stop
<1>2. CASE Returned
  BY <1>2 DEF Returned, vars, WalkInv, Stop
<1>3. CASE Step
  <2>1. end \in Nat /\ start < end /\ Aligned(end, size)
    BY NextBoundary DEF WalkInv
  <2>2. CASE Stop(end) /\ done' = TRUE /\ UNCHANGED <<start, out>>
    BY <1>3, <2>2 DEF Step, WalkInv, Stop
  <2>3. CASE /\ ~Stop(end) /\ out' = out \cup {<<start, end>>}
             /\ start' = end /\ UNCHANGED done
    <3>1. ~done /\ UNCHANGED <<walk, from, to, size>>
      BY <1>3 DEF Step
    <3>2. ASSUME NEW t \in Nat, from <= t, t < end
          PROVE  \E w \in out' : w[1] <= t /\ t < w[2]
      <4>1. CASE t < start
        BY <2>3, <3>2, <4>1 DEF WalkInv
      <4>2. CASE start <= t
        <5>1. <<start, end>> \in out'
          BY <2>3
        <5> HIDE DEF end
        <5> QED BY <3>2, <4>2, <5>1
      <4>3. QED
        BY <4>1, <4>2 DEF WalkInv
    <3>3. QED
      <4> HIDE DEF end
      <4> QED BY <2>1, <2>3, <3>1, <3>2 DEF WalkInv
  <2>4. QED
    BY <1>3, <2>2, <2>3 DEF Step
<1>4. QED
  BY <1>1, <1>2, <1>3 DEF Next

\* When a walk is over, what lies before the range's end and after the last
\* window belongs to the window that the drain leaves for a later run.
LEMMA WalkNoHole == WalkInv => NoHole
<1> SUFFICES ASSUME WalkInv, done, NEW t \in from .. to - 1
             PROVE  \/ \E w \in out : w[1] <= t /\ t < w[2]
                    \/ walk = "windows" /\ next_boundary(align_down(t, size), size) > to
  BY DEF NoHole
<1>1. t \in Nat /\ from <= t /\ t < to
  BY DEF WalkInv
<1>2. CASE t < start
  BY <1>1, <1>2 DEF WalkInv
<1>3. CASE start <= t
  <2>1. walk = "windows" /\ next_boundary(start, size) > to
    BY <1>1, <1>3 DEF WalkInv, Stop
  <2>2. next_boundary(start, size) \in Nat /\ t < next_boundary(start, size)
    BY <1>1, <2>1, NextBoundary DEF WalkInv
  <2>3. align_down(t, size) = start
    BY <1>1, <1>3, <2>2, NextBoundary DEF WalkInv
  <2>4. QED
    BY <2>1, <2>3
<1>4. QED
  BY <1>1, <1>2, <1>3 DEF WalkInv

\* Neither walk leaves a hole: an event that the gate may let expire is in a
\* window that it asked a manifest for, and one that the drain does not page
\* belongs to a window that is not over.
THEOREM NoHoleAlways == Spec => []NoHole
<1>1. Init => WalkInv
  BY InitWalk
<1>2. WalkInv /\ [Next]_vars => WalkInv'
  BY StepWalk
<1>3. WalkInv => NoHole
  BY WalkNoHole
<1>4. QED
  BY <1>1, <1>2, <1>3, PTL DEF Spec

-----------------------------------------------------------------------------
(* The reference grid *)

\* The remainder of a multiple plus a remainder.
LEMMA ModUnique ==
  ASSUME NEW q \in Nat, NEW b \in Nat \ {0}, NEW r \in Nat, r < b
  PROVE  (q * b + r) % b = r
<1> DEFINE a == q * b + r
<1>1. a \in Nat /\ q * b \in Nat
  OBVIOUS
<1>2. a \div b = q
  BY DivUnique
<1>3. \A x \in Nat : x = (x \div b) * b + (x % b)
  OBVIOUS
<1>4. a = q * b + (a % b) /\ (a % b) \in Nat
  <2>1. a = (a \div b) * b + (a % b)
    BY <1>1, <1>3
  <2>2. a % b \in Nat
    BY <1>1
  <2> HIDE DEF a
  <2>3. QED BY <1>2, <2>1, <2>2
<1>5. QED
  BY <1>1, <1>4

\* The boundaries of the reference are the times that are aligned to themselves.
LEMMA BoundaryFixed ==
  ASSUME NEW t \in Nat, NEW sz \in Nat \ {0}
  PROVE  IsBoundary(t, sz) <=> align_down(t, sz) = t
<1>1. PICK d \in Nat, k \in Nat, r \in Nat :
        t = Boundary(d, k, sz) + r /\ r < sz /\ k * sz + r < DayMs
  BY AlignExists
<1>2. align_down(t, sz) = Boundary(d, k, sz)
  BY <1>1, AlignOf
<1>3. DayMs \in Nat \ {0} /\ d * DayMs \in Nat /\ k * sz \in Nat
  BY WindowsAssumption DEF WindowsAssumption
<1>4. t = d * DayMs + (k * sz + r) /\ Boundary(d, k, sz) \in Nat
  BY <1>1, <1>3 DEF Boundary
<1>5. t % DayMs = k * sz + r
  <2>1. (d * DayMs + (k * sz + r)) % DayMs = k * sz + r
    BY <1>1, <1>3, ModUnique
  <2>2. QED BY <1>4, <2>1
<1>6. (k * sz + r) % sz = r
  BY <1>1, ModUnique
<1>7. IsBoundary(t, sz) <=> r = 0
  BY <1>5, <1>6 DEF IsBoundary
<1>8. QED
  BY <1>1, <1>2, <1>4, <1>7

\* Those are the boundaries that the walk stands at.
LEMMA BoundaryAligned ==
  ASSUME NEW t \in Nat, NEW sz \in Nat \ {0}
  PROVE  IsBoundary(t, sz) <=> Aligned(t, sz)
<1>1. ASSUME IsBoundary(t, sz) PROVE Aligned(t, sz)
  BY <1>1, BoundaryFixed, AlignDown
<1>2. ASSUME Aligned(t, sz) PROVE IsBoundary(t, sz)
  <2>1. next_boundary(t, sz) \in Nat /\ t < next_boundary(t, sz)
        /\ \A u \in Nat : t <= u /\ u < next_boundary(t, sz) => align_down(u, sz) = t
    BY <1>2, NextBoundary
  <2>2. align_down(t, sz) = t
    BY <2>1
  <2>3. QED BY <2>2, BoundaryFixed
<1>3. QED
  BY <1>1, <1>2

\* Between a boundary and the next one there is no other.
LEMMA NoneBetween ==
  ASSUME NEW b \in Nat, NEW t \in Nat, NEW sz \in Nat \ {0},
         IsBoundary(b, sz), IsBoundary(t, sz), b < t
  PROVE  next_boundary(b, sz) <= t
<1>1. /\ next_boundary(b, sz) \in Nat
      /\ \A u \in Nat : b <= u /\ u < next_boundary(b, sz) => align_down(u, sz) = b
  BY BoundaryAligned, NextBoundary
<1>2. align_down(t, sz) = t
  BY BoundaryFixed
<1>3. QED
  BY <1>1, <1>2

\* A window of the reference is what lies between a boundary and next_boundary.
LEMMA WindowIs ==
  ASSUME NEW b \in Nat, NEW e \in Nat, NEW sz \in Nat \ {0}
  PROVE  IsWindow(<<b, e>>, sz) <=> IsBoundary(b, sz) /\ e = next_boundary(b, sz)
<1>1. ASSUME IsBoundary(b, sz), e = next_boundary(b, sz)
      PROVE  IsWindow(<<b, e>>, sz)
  <2>1. /\ b < e /\ Aligned(e, sz)
        /\ \A u \in Nat : b <= u /\ u < e => align_down(u, sz) = b
    BY <1>1, BoundaryAligned, NextBoundary
  <2>2. IsBoundary(e, sz)
    BY <2>1, BoundaryAligned
  <2>3. ASSUME NEW t \in b + 1 .. e - 1 PROVE ~IsBoundary(t, sz)
    <3>1. t \in Nat /\ b < t /\ t < e
      OBVIOUS
    <3>2. align_down(t, sz) = b
      BY <2>1, <3>1
    <3>3. QED BY <3>1, <3>2, BoundaryFixed
  <2>4. QED BY <1>1, <2>1, <2>2, <2>3 DEF IsWindow
<1>2. ASSUME IsWindow(<<b, e>>, sz)
      PROVE  IsBoundary(b, sz) /\ e = next_boundary(b, sz)
  <2>1. /\ IsBoundary(b, sz) /\ IsBoundary(e, sz) /\ b < e
        /\ \A t \in b + 1 .. e - 1 : ~IsBoundary(t, sz)
    BY <1>2 DEF IsWindow
  <2> DEFINE n == next_boundary(b, sz)
  <2>2. n \in Nat /\ b < n /\ Aligned(n, sz)
    BY <2>1, BoundaryAligned, NextBoundary
  <2>3. IsBoundary(n, sz)
    BY <2>2, BoundaryAligned
  <2>4. n <= e
    BY <2>1, NoneBetween
  <2> HIDE DEF n
  <2>5. ~(n < e)
    BY <2>1, <2>2, <2>3
  <2>6. QED BY <2>1, <2>2, <2>4, <2>5 DEF n
<1>3. QED
  BY <1>1, <1>2

\* A time is before the end of the window it is aligned to.
LEMMA InItsWindow ==
  ASSUME NEW ts \in Nat, NEW sz \in Nat \ {0}
  PROVE  ts < next_boundary(align_down(ts, sz), sz)
<1> DEFINE a == align_down(ts, sz)
           n == next_boundary(a, sz)
<1>1. a \in Nat /\ a <= ts /\ Aligned(a, sz)
  BY AlignDown
<1>2. n \in Nat /\ a < n /\ Aligned(n, sz)
  BY <1>1, NextBoundary
<1>3. PICK d \in Nat, k \in Nat, r \in Nat :
        ts = Boundary(d, k, sz) + r /\ r < sz /\ k * sz + r < DayMs
  BY AlignExists
<1>4. a = Boundary(d, k, sz)
  BY <1>3, AlignOf
<1>5. DayMs \in Nat \ {0} /\ d * DayMs \in Nat /\ k * sz \in Nat
  BY WindowsAssumption DEF WindowsAssumption
<1>6. a = d * DayMs + k * sz /\ k * sz < DayMs
  BY <1>3, <1>4, <1>5 DEF Boundary
<1>7. a \div DayMs = d
  <2>1. (d * DayMs + k * sz) \div DayMs = d
    BY <1>5, <1>6, DivUnique
  <2>2. QED BY <1>6, <2>1
<1>8. n = Min(a + sz, d * DayMs + DayMs)
  BY <1>7 DEF next_boundary
<1>9. ts = d * DayMs + k * sz + r
  BY <1>3, <1>5 DEF Boundary
<1> HIDE DEF a, n
<1>10. ts < n
  BY <1>3, <1>5, <1>6, <1>8, <1>9 DEF Min
<1>11. QED BY <1>10 DEF a, n

\* A window ends within a day of its beginning.
LEMMA WindowShort ==
  ASSUME NEW b \in Nat, NEW sz \in Nat \ {0}
  PROVE  next_boundary(b, sz) <= b + DayMs
<1>1. DayMs \in Nat \ {0}
  BY WindowsAssumption DEF WindowsAssumption
<1>2. b \div DayMs \in Nat /\ (b \div DayMs) * DayMs <= b /\ (b \div DayMs) * DayMs \in Nat
  BY <1>1, DivBounds
<1> DEFINE m == (b \div DayMs) * DayMs
<1>3. next_boundary(b, sz) = Min(b + sz, m + DayMs)
  BY DEF next_boundary
<1> HIDE DEF m
<1>4. m \in Nat /\ m <= b
  BY <1>2 DEF m
<1>5. QED
  BY <1>1, <1>3, <1>4 DEF Min

-----------------------------------------------------------------------------
(* The walk and the grid *)

\* What the range asks for.
Asked(w) == IF walk = "windows" THEN w[2] <= to ELSE w[1] < to

\* The walk has exactly the windows of the grid from its first boundary up to
\* where it stands, and each is one that the range asks for.
GridInv ==
  /\ from \in 0 .. MaxTs /\ to \in 0 .. MaxTs /\ size \in Nat \ {0}
  /\ align_down(from, size) <= start
  /\ \A w \in out : /\ w \in Nat \X Nat /\ IsWindow(w, size) /\ Asked(w)
                    /\ align_down(from, size) <= w[1] /\ w[1] < start
  /\ \A b, e \in Nat :
       IsWindow(<<b, e>>, size) /\ align_down(from, size) <= b /\ b < start => <<b, e>> \in out

\* Where the walk begins there is no window yet.
LEMMA InitGrid == Init => GridInv
<1> SUFFICES ASSUME Init PROVE GridInv
  OBVIOUS
<1>1. from \in 0 .. MaxTs /\ to \in 0 .. MaxTs /\ size \in Nat \ {0} /\ from \in Nat
  BY WindowsAssumption DEF Init, WindowsAssumption
<1>2. align_down(from, size) \in Nat /\ start = align_down(from, size) /\ out = {}
  BY <1>1, AlignDown DEF Init
<1>3. QED
  BY <1>1, <1>2 DEF GridInv

\* A turn of the loop adds the one window that begins where the walk stands.
LEMMA StepGrid == WalkInv /\ GridInv /\ [Next]_vars => GridInv'
<1> SUFFICES ASSUME WalkInv, GridInv, [Next]_vars PROVE GridInv'
  OBVIOUS
<1>1. CASE UNCHANGED vars
  BY <1>1 DEF vars, GridInv, Asked
<1>2. CASE Returned
  BY <1>2 DEF Returned, vars, GridInv, Asked
<1>3. CASE Step
  <2> DEFINE end == next_boundary(start, size)
             first == align_down(from, size)
  <2>0. UNCHANGED <<walk, from, to, size>> /\ start \in Nat /\ size \in Nat \ {0}
        /\ from \in Nat /\ to \in Nat
    BY <1>3 DEF Step, WalkInv
  <2>1. end \in Nat /\ start < end /\ Aligned(start, size)
    BY NextBoundary DEF WalkInv
  <2>2. IsBoundary(start, size) /\ IsWindow(<<start, end>>, size)
    BY <2>0, <2>1, BoundaryAligned, WindowIs
  <2>3. first \in Nat
    BY <2>0, AlignDown
  <2>4. CASE Stop(end) /\ done' = TRUE /\ UNCHANGED <<start, out>>
    BY <2>0, <2>4 DEF GridInv, Asked
  <2>5. CASE /\ ~Stop(end) /\ out' = out \cup {<<start, end>>} /\ start' = end
    <3>1. Asked(<<start, end>>)
      BY <2>0, <2>1, <2>5 DEF Stop, Asked
    <3>2. first <= start /\ first' = first
      BY <2>0 DEF GridInv
    <3>3. \A w : Asked(w)' = Asked(w)
      BY <2>0 DEF Asked
    <3>4. ASSUME NEW b \in Nat, NEW e \in Nat, IsWindow(<<b, e>>, size), first <= b, b < end
          PROVE  <<b, e>> \in out'
      <4>1. CASE b < start
        BY <2>5, <3>4, <4>1 DEF GridInv
      <4>2. CASE start <= b
        <5>1. IsBoundary(b, size) /\ e = next_boundary(b, size)
          BY <2>0, <3>4, WindowIs
        <5>2. ~(start < b)
          BY <2>0, <2>1, <2>2, <3>4, <5>1, NoneBetween
        <5>3. b = start
          BY <2>0, <4>2, <5>2
        <5>4. QED BY <2>5, <5>1, <5>3
      <4>3. QED BY <2>0, <4>1, <4>2
    <3>5. \A w \in out : /\ w \in Nat \X Nat /\ IsWindow(w, size) /\ Asked(w)'
                         /\ first <= w[1] /\ w[1] < end
      <4>1. SUFFICES ASSUME NEW w \in out
                     PROVE  /\ w \in Nat \X Nat /\ IsWindow(w, size) /\ Asked(w)'
                            /\ first <= w[1] /\ w[1] < end
        OBVIOUS
      <4>2. /\ w \in Nat \X Nat /\ IsWindow(w, size) /\ Asked(w)
            /\ first <= w[1] /\ w[1] < start
        BY DEF GridInv
      <4>3. w[1] \in Nat
        BY <4>2
      <4> HIDE DEF end, first
      <4>4. QED BY <2>0, <2>1, <3>3, <4>2, <4>3
    <3>6. ASSUME NEW w, w = <<start, end>>
          PROVE  /\ w \in Nat \X Nat /\ IsWindow(w, size) /\ Asked(w)'
                 /\ first <= w[1] /\ w[1] < end
      <4>1. Asked(w) /\ IsWindow(w, size)
        BY <2>2, <3>1, <3>6
      <4>2. Asked(w)'
        BY <3>3, <4>1
      <4> HIDE DEF end, first
      <4>3. w \in Nat \X Nat /\ w[1] = start
        BY <2>0, <2>1, <3>6
      <4>4. QED BY <2>1, <3>2, <4>1, <4>2, <4>3
    <3>7. ASSUME NEW w \in out'
          PROVE  /\ w \in Nat \X Nat /\ IsWindow(w, size) /\ Asked(w)'
                 /\ first <= w[1] /\ w[1] < end
      <4>1. w \in out \/ w = <<start, end>>
        BY <2>5
      <4> HIDE DEF end, first
      <4>2. CASE w \in out
        BY <3>5, <4>2
      <4>3. CASE w = <<start, end>>
        BY <3>6, <4>3
      <4>4. QED BY <4>1, <4>2, <4>3
    <3>8. first <= end
      <4> HIDE DEF end, first
      <4> QED BY <2>0, <2>1, <2>3, <3>2
    <3>9. from' \in 0 .. MaxTs /\ to' \in 0 .. MaxTs /\ size' \in Nat \ {0}
      BY <2>0 DEF GridInv
    <3>10. align_down(from, size)' = first /\ start' = end /\ size' = size
      BY <2>0, <2>5
    <3> HIDE DEF end, first
    <3>11. QED
      BY <3>4, <3>7, <3>8, <3>9, <3>10 DEF GridInv
  <2>6. QED
    BY <1>3, <2>4, <2>5 DEF Step
<1>4. QED
  BY <1>1, <1>2, <1>3 DEF Next

\* When the walk is over, its windows are those that the range asks for.
LEMMA WalkSameGrid == WalkInv /\ GridInv => SameGrid
<1> SUFFICES ASSUME WalkInv, GridInv, done PROVE
      out = {w \in Grid(size) : w[2] > from /\ Asked(w)}
  BY DEF SameGrid, Asked
<1> DEFINE first == align_down(from, size)
<1>1. /\ from \in Nat /\ to \in Nat /\ size \in Nat \ {0} /\ start \in Nat /\ DayMs \in Nat \ {0}
      /\ from <= MaxTs /\ to <= MaxTs /\ MaxTs \in Nat
  BY WindowsAssumption DEF WalkInv, GridInv, WindowsAssumption
<1>2. /\ first \in Nat /\ first <= from /\ IsBoundary(first, size)
      /\ from < next_boundary(first, size)
  BY <1>1, AlignDown, BoundaryAligned, InItsWindow
<1>3. IsBoundary(start, size)
  BY <1>1, BoundaryAligned DEF WalkInv
<1>4. next_boundary(start, size) \in Nat /\ next_boundary(first, size) \in Nat
  BY <1>1, <1>2, <1>3, BoundaryAligned, NextBoundary
<1>5. ASSUME NEW w \in out PROVE w \in Grid(size) /\ w[2] > from /\ Asked(w)
  <2>1. PICK b \in Nat, e \in Nat : w = <<b, e>>
    BY DEF GridInv
  <2>2. IsWindow(<<b, e>>, size) /\ Asked(w) /\ first <= b /\ b < start
    BY <2>1 DEF GridInv
  <2>3. IsBoundary(b, size) /\ e = next_boundary(b, size) /\ b < e
    BY <1>1, <2>2, WindowIs DEF IsWindow
  <2>4. b <= MaxTs
    BY <1>1, <2>1, <2>2, <2>3 DEF Asked
  <2>5. e <= MaxTs + DayMs /\ 1 <= e
    <3>1. e <= b + DayMs
      BY <1>1, <2>3, WindowShort
    <3>2. QED BY <1>1, <2>3, <2>4, <3>1
  <2>6. e > from
    <3>1. CASE b = first
      BY <1>2, <2>3, <3>1
    <3>2. CASE first < b
      <4>1. next_boundary(first, size) <= b
        BY <1>1, <1>2, <2>3, <3>2, NoneBetween
      <4> HIDE DEF first
      <4>2. QED BY <1>1, <1>2, <1>4, <2>3, <4>1
    <3>3. QED
      <4> HIDE DEF first
      <4> QED BY <1>2, <2>2, <3>1, <3>2
  <2>7. <<b, e>> \in (0 .. MaxTs) \X (1 .. MaxTs + DayMs)
    BY <1>1, <2>4, <2>5
  <2>8. QED BY <2>1, <2>2, <2>6, <2>7 DEF Grid
<1>6. ASSUME NEW w \in Grid(size), w[2] > from, Asked(w) PROVE w \in out
  <2>1. w \in (0 .. MaxTs) \X (1 .. MaxTs + DayMs) /\ IsWindow(w, size)
    BY DEF Grid
  <2>2. PICK b \in 0 .. MaxTs, e \in 1 .. MaxTs + DayMs : w = <<b, e>>
    BY <2>1
  <2>3. b \in Nat /\ e \in Nat /\ e > from
    BY <1>1, <1>6, <2>2
  <2>4. IsBoundary(b, size) /\ e = next_boundary(b, size) /\ b < e
    BY <1>1, <2>1, <2>2, <2>3, WindowIs DEF IsWindow
  <2>5. first <= b
    <3>1. SUFFICES ASSUME b < first PROVE FALSE
      BY <1>2, <2>3
    <3>2. e <= first
      BY <1>1, <1>2, <2>3, <2>4, <3>1, NoneBetween
    <3> HIDE DEF first
    <3>3. QED BY <1>1, <1>2, <2>3, <3>2
  <2>6. b < start
    <3>1. SUFFICES ASSUME start <= b PROVE FALSE
      BY <1>1, <2>3
    <3>2. Stop(next_boundary(start, size))
      BY DEF WalkInv
    <3>3. walk = "windows" /\ next_boundary(start, size) > to /\ e <= to
      BY <1>1, <1>6, <2>2, <2>3, <3>1, <3>2 DEF Stop, Asked
    <3>4. CASE start = b
      BY <1>1, <1>4, <2>3, <2>4, <3>3, <3>4
    <3>5. CASE start < b
      <4>1. next_boundary(start, size) <= b
        BY <1>1, <1>3, <2>3, <2>4, <3>5, NoneBetween
      <4>2. QED BY <1>1, <1>4, <2>3, <2>4, <3>3, <4>1
    <3>6. QED BY <1>1, <2>3, <3>1, <3>4, <3>5
  <2>7. QED BY <2>1, <2>2, <2>3, <2>5, <2>6 DEF GridInv
<1>7. QED
  <2>1. \A w \in out : w \in {x \in Grid(size) : x[2] > from /\ Asked(x)}
    BY <1>5
  <2>2. \A w \in {x \in Grid(size) : x[2] > from /\ Asked(x)} : w \in out
    BY <1>6
  <2>3. QED BY <2>1, <2>2

\* The drain and the gate cut the same windows, wherever their ranges begin: a
\* manifest that the drain writes for a window is the one that the gate asks for.
THEOREM SameGridAlways == Spec => []SameGrid
<1>1. Init => WalkInv /\ GridInv
  BY InitWalk, InitGrid
<1>2. WalkInv /\ GridInv /\ [Next]_vars => (WalkInv /\ GridInv)'
  BY StepWalk, StepGrid
<1>3. WalkInv /\ GridInv => SameGrid
  BY WalkSameGrid
<1>4. QED
  BY <1>1, <1>2, <1>3, PTL DEF Spec
=============================================================================
