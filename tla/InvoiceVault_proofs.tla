------------------------ MODULE InvoiceVault_proofs ------------------------
(***************************************************************************)
(* Proofs about InvoiceVault for any accounts, units, face value, bond,    *)
(* periods and pledges.                                                    *)
(***************************************************************************)
EXTENDS InvoiceVault, FiniteSetTheorems, TLAPS

-----------------------------------------------------------------------------
\* Arithmetic.

\* Every non-empty set of naturals has a least element, which is how the
\* lemmas below do induction: by a least counterexample.
LEMMA LeastNat ==
  ASSUME NEW T \in SUBSET Nat, T # {}
  PROVE  \E x \in T : \A y \in T : x <= y
<1> DEFINE D == {1..n : n \in T}
<1>1. \A n \in T : IsFiniteSet(1..n) /\ 1..n \in SUBSET Nat
  <2> TAKE n \in T
  <2>1. n \in Int /\ 1 \in Int
    OBVIOUS
  <2>2. IsFiniteSet(1..n)
    BY <2>1, FS_Interval
  <2> QED
    BY <2>1, <2>2
<1>2. D \subseteq FiniteSubsetsOf(Nat) /\ D # {}
  BY <1>1 DEF FiniteSubsetsOf
<1>3. PICK d \in D : \A e \in D : ~(<<e, d>> \in StrictSubsetOrdering(Nat))
  <2>1. IsWellFoundedOn(StrictSubsetOrdering(Nat), FiniteSubsetsOf(Nat))
    BY FS_StrictSubsetOrderingWellFounded
  <2> HIDE DEF D
  <2> QED
    BY <1>2, <2>1, WFMin
<1>4. PICK x \in T : d = 1..x
  OBVIOUS
<1>5. ASSUME NEW y \in T, y < x
      PROVE  FALSE
  <2>1. 1..y \in SUBSET Nat /\ 1..x \in SUBSET Nat
    BY <1>1
  <2>2. 1..y \subseteq 1..x /\ x \in 1..x /\ x \notin 1..y
    BY <1>5
  <2>3. <<1..y, 1..x>> \in StrictSubsetOrdering(Nat)
    BY <2>1, <2>2 DEF StrictSubsetOrdering
  <2> QED
    BY <1>3, <1>4, <2>3
<1> QED
  BY <1>4, <1>5

\* Integer division rounds down.
LEMMA DivNat ==
  ASSUME NEW n \in Nat, NEW c \in Nat \ {0}
  PROVE  /\ n \div c \in Nat
         /\ c * (n \div c) <= n
         /\ n < c * (n \div c) + c
OBVIOUS

\* A quotient is the largest number that fits.
LEMMA DivFloor ==
  ASSUME NEW n \in Nat, NEW c \in Nat \ {0}, NEW q \in Nat, c * q <= n
  PROVE  q <= n \div c
<1>1. n \div c \in Nat /\ n < c * (n \div c) + c
  BY DivNat
<1> QED
  BY <1>1

\* mulDiv, the contract's rounded-down share, as the proofs use it: it
\* grows with the units, two shares never exceed the share of the sum, and
\* all the units get everything.
LEMMA ShareBounds ==
  ASSUME NEW a \in Nat, NEW c \in Nat \ {0}, NEW u \in Nat, NEW v \in Nat
  PROVE  /\ mulDiv(a, u, c) \in Nat
         /\ u <= v => mulDiv(a, u, c) <= mulDiv(a, v, c)
         /\ mulDiv(a, u, c) + mulDiv(a, v, c) <= mulDiv(a, u + v, c)
         /\ mulDiv(a, c, c) = a
         /\ mulDiv(a, 0, c) = 0
         /\ a >= c => mulDiv(a, u, c) >= u
<1> DEFINE p == (a * u) \div c
           q == (a * v) \div c
<1>1. a * u \in Nat /\ a * v \in Nat /\ a * (u + v) \in Nat /\ a * c \in Nat
  OBVIOUS
<1>2. p \in Nat /\ c * p <= a * u /\ q \in Nat /\ c * q <= a * v
  BY <1>1, DivNat
<1>3. u <= v => p <= q
  <2> SUFFICES ASSUME u <= v PROVE p <= q
    OBVIOUS
  <2> HIDE DEF p
  <2>1. a * u <= a * v
    OBVIOUS
  <2>2. c * p <= a * v
    BY <1>1, <1>2, <2>1
  <2> QED
    BY <1>1, <1>2, <2>2, DivFloor
<1>4. p + q <= (a * (u + v)) \div c
  <2> HIDE DEF p, q
  <2>1. c * (p + q) = c * p + c * q /\ a * (u + v) = a * u + a * v
    BY <1>2
  <2>2. c * (p + q) <= a * (u + v) /\ p + q \in Nat
    BY <1>1, <1>2, <2>1
  <2> QED
    BY <1>1, <2>2, DivFloor
<1>5. (a * c) \div c = a
  <2>1. a <= (a * c) \div c
    BY <1>1, DivFloor
  <2>2. (a * c) \div c \in Nat /\ c * ((a * c) \div c) <= a * c
    BY <1>1, DivNat
  <2> QED
    BY <2>1, <2>2
<1>6. (a * 0) \div c = 0
  OBVIOUS
<1>7. a >= c => p >= u
  <2> SUFFICES ASSUME a >= c PROVE p >= u
    OBVIOUS
  <2>1. c * u <= a * u
    OBVIOUS
  <2> QED
    BY <1>1, <2>1, DivFloor
<1> QED
  BY <1>2, <1>3, <1>4, <1>5, <1>6, <1>7 DEF mulDiv

\* A quotient rounded up.
roundUp(n, c) == n \div c + (IF n % c # 0 THEN 1 ELSE 0)

\* It is the smallest number that covers the dividend.
LEMMA RoundUpBounds ==
  ASSUME NEW n \in Nat, NEW c \in Nat \ {0}
  PROVE  /\ roundUp(n, c) \in Nat
         /\ n <= c * roundUp(n, c)
         /\ \A k \in Nat : n <= c * k => roundUp(n, c) <= k
<1> DEFINE q == n \div c
<1>1. q \in Nat /\ c * q <= n /\ n < c * q + c
  BY DivNat
<1>2. n % c = n - c * q
  OBVIOUS
<1> HIDE DEF q
<1>3. CASE n % c # 0
  <2>1. roundUp(n, c) = q + 1
    BY <1>3 DEF roundUp, q
  <2>2. c * (q + 1) = c * q + c
    BY <1>1
  <2>3. ASSUME NEW k \in Nat, n <= c * k, k < q + 1
        PROVE  FALSE
    <3>1. c * k <= c * q
      BY <1>1, <2>3
    <3> QED
      BY <1>1, <1>2, <1>3, <2>3, <3>1
  <2> QED
    BY <1>1, <2>1, <2>2, <2>3
<1>4. CASE n % c = 0
  <2>1. roundUp(n, c) = q
    BY <1>1, <1>4 DEF roundUp, q
  <2>2. ASSUME NEW k \in Nat, n <= c * k, k < q
        PROVE  FALSE
    <3>1. c * (k + 1) <= c * q /\ c * (k + 1) = c * k + c
      BY <1>1, <2>2
    <3> QED
      BY <1>1, <1>2, <1>4, <2>2, <3>1
  <2> QED
    BY <1>1, <1>2, <1>4, <2>1, <2>2
<1> QED
  BY <1>3, <1>4

\* requiredBond, rounded up: it grows with the supply, is nothing for no
\* units and the initial bond for all of them.
LEMMA RequiredBondBounds ==
  ASSUME NEW u \in 0..initialUnits, NEW v \in 0..initialUnits
  PROVE  /\ requiredBond(u) \in 0..initialBond
         /\ u <= v => requiredBond(u) <= requiredBond(v)
         /\ requiredBond(0) = 0
         /\ requiredBond(initialUnits) = initialBond
<1> DEFINE c == initialUnits
           b == initialBond
<1>1. c \in Nat \ {0} /\ b \in Nat
  <2>1. advanceAmount * bondBps \in Nat /\ BasisPoints \in Nat \ {0}
    BY VaultAssumption DEF BasisPoints
  <2>2. (advanceAmount * bondBps) \div BasisPoints \in Nat
    BY <2>1, DivNat
  <2> QED
    BY <2>2, VaultAssumption DEF initialBond
<1> HIDE DEF c, b
<1>2. \A n \in 0..c : b * n \in Nat /\ requiredBond(n) = roundUp(b * n, c)
  BY <1>1 DEF requiredBond, mulDiv, roundUp, c, b
<1>3. \A n \in 0..c : requiredBond(n) \in Nat /\ b * n <= c * requiredBond(n)
  BY <1>1, <1>2, RoundUpBounds
<1>4. \A n \in 0..c, k \in Nat : b * n <= c * k => requiredBond(n) <= k
  <2> SUFFICES ASSUME NEW n \in 0..c, NEW k \in Nat, b * n <= c * k
               PROVE  requiredBond(n) <= k
    OBVIOUS
  <2> QED
    BY <1>1, <1>2, RoundUpBounds
<1>5. u \in 0..c /\ v \in 0..c /\ c \in 0..c /\ 0 \in 0..c
  BY <1>1 DEF c
<1>6. b * u <= c * b
  BY <1>1, <1>5
<1>7. requiredBond(u) \in 0..b
  <2>1. requiredBond(u) \in Nat /\ requiredBond(u) <= b
    BY <1>1, <1>3, <1>4, <1>5, <1>6
  <2> QED
    BY <1>1, <2>1
<1>8. u <= v => requiredBond(u) <= requiredBond(v)
  <2> SUFFICES ASSUME u <= v PROVE requiredBond(u) <= requiredBond(v)
    OBVIOUS
  <2>1. b * u <= b * v /\ b * u \in Nat /\ b * v \in Nat
    BY <1>1, <1>5
  <2>2. b * v <= c * requiredBond(v) /\ requiredBond(v) \in Nat
    BY <1>3, <1>5
  <2>3. b * u <= c * requiredBond(v)
    BY <1>1, <2>1, <2>2
  <2> QED
    BY <1>4, <1>5, <2>2, <2>3
<1>9. requiredBond(0) = 0
  <2>1. b * 0 <= c * 0
    BY <1>1
  <2> QED
    BY <1>3, <1>4, <1>5, <2>1
<1>10. requiredBond(c) = b
  <2>1. b * c <= c * b /\ b * c <= c * requiredBond(c) /\ requiredBond(c) \in Nat
    BY <1>1, <1>3, <1>5
  <2>2. requiredBond(c) <= b
    BY <1>1, <1>4, <1>5, <2>1
  <2>3. b <= requiredBond(c)
    BY <1>1, <2>1
  <2> QED
    BY <1>1, <2>1, <2>2, <2>3
<1> QED
  BY <1>7, <1>8, <1>9, <1>10 DEF c, b

-----------------------------------------------------------------------------
\* The binary search.

\* Checkpoints are in strictly increasing order of the sequence numbers in
\* use.
Ordered(checkpoints, last) ==
    /\ \A i \in 1..Len(checkpoints) : checkpoints[i].sequence \in 1..last
    /\ \A i, j \in 1..Len(checkpoints) :
            i < j => checkpoints[i].sequence < checkpoints[j].sequence

\* The order alone, of any N records with a sequence number.
Rising(cp, N) == \A i, j \in 1..N : i < j => cp[i].sequence < cp[j].sequence

\* What the search looks for between two bounds: everything up to m is not
\* after "at", everything beyond it is.
Splits(cp, at, low, high, m) ==
    /\ m \in low..high
    /\ \A i \in (low + 1)..m : cp[i].sequence <= at
    /\ \A i \in (m + 1)..high : cp[i].sequence > at

\* In an ordered list there is such a place.
LEMMA SplitExists ==
  ASSUME NEW N \in Nat, NEW cp, \A i \in 1..N : cp[i].sequence \in Nat,
         Rising(cp, N), NEW at \in Nat,
         NEW low \in 0..N, NEW high \in low..N
  PROVE  \E m \in low..high : Splits(cp, at, low, high, m)
<1> DEFINE T == {n \in low..high : \A i \in (n + 1)..high : cp[i].sequence > at}
<1>1. T \in SUBSET Nat /\ high \in T
  OBVIOUS
<1>2. PICK n \in T : \A k \in T : n <= k
  <2> HIDE DEF T
  <2> QED
    BY <1>1, LeastNat
<1>3. n \in low..high /\ \A i \in (n + 1)..high : cp[i].sequence > at
  OBVIOUS
<1>4. ASSUME n # low
      PROVE  cp[n].sequence <= at
  <2>1. n - 1 \in low..high /\ ~(n <= n - 1) /\ n \in 1..N
    BY <1>3, <1>4
  <2>2. n - 1 \notin T
    BY <1>2, <2>1
  <2>3. PICK i \in ((n - 1) + 1)..high : ~(cp[i].sequence > at)
    BY <2>1, <2>2
  <2>4. i \in n..high
    BY <1>3, <2>3
  <2>5. i = n
    BY <1>3, <2>3, <2>4
  <2> QED
    BY <2>1, <2>3, <2>5
<1>5. \A i \in (low + 1)..n : cp[i].sequence <= at
  <2> TAKE i \in (low + 1)..n
  <2>1. i \in 1..N /\ n \in 1..N /\ n # low
    BY <1>3
  <2>2. cp[i].sequence <= cp[n].sequence
    BY <2>1 DEF Rising
  <2> QED
    BY <1>4, <2>1, <2>2
<1>6. Splits(cp, at, low, high, n)
  BY <1>3, <1>5 DEF Splits
<1> QED
  BY <1>3, <1>6

\* There is only one such place, whatever the order.
LEMMA SplitUnique ==
  ASSUME NEW N \in Nat, NEW cp, \A i \in 1..N : cp[i].sequence \in Nat,
         NEW at \in Nat,
         NEW low \in 0..N, NEW high \in low..N,
         NEW m, Splits(cp, at, low, high, m), NEW n, Splits(cp, at, low, high, n)
  PROVE  m = n
<1>1. m \in low..high /\ n \in low..high
  BY DEF Splits
<1>2. ASSUME NEW k, NEW l, Splits(cp, at, low, high, k), Splits(cp, at, low, high, l), k < l
      PROVE  FALSE
  <2>1. k \in low..high /\ l \in low..high
    BY <1>2 DEF Splits
  <2>2. l \in (k + 1)..high /\ l \in (low + 1)..l /\ l \in 1..N
    BY <1>2, <2>1
  <2>3. cp[l].sequence > at /\ cp[l].sequence <= at
    BY <1>2, <2>2 DEF Splits
  <2> QED
    BY <2>2, <2>3
<1>3. ~(m < n) /\ ~(n < m)
  BY <1>2
<1> QED
  BY <1>1, <1>3

\* The middle of a window with two different bounds.
LEMMA Middle ==
  ASSUME NEW low \in Nat, NEW high \in Nat, low < high
  PROVE  (low + high) \div 2 \in low..(high - 1)
OBVIOUS

\* A place found in the lower half, when the middle is after "at", or in
\* the upper half, when it is not, is the place in the whole window.
LEMMA HalfWindow ==
  ASSUME NEW N \in Nat, NEW cp, \A i \in 1..N : cp[i].sequence \in Nat,
         Rising(cp, N), NEW at \in Nat,
         NEW low \in 0..N, NEW high \in low..N, NEW mid \in low..(high - 1), NEW m
  PROVE  /\ cp[mid + 1].sequence > at /\ Splits(cp, at, low, mid, m) => Splits(cp, at, low, high, m)
         /\ ~(cp[mid + 1].sequence > at) /\ Splits(cp, at, mid + 1, high, m) => Splits(cp, at, low, high, m)
<1>1. mid + 1 \in 1..N /\ mid \in Nat
  OBVIOUS
<1>2. ASSUME cp[mid + 1].sequence > at, Splits(cp, at, low, mid, m)
      PROVE  Splits(cp, at, low, high, m)
  <2>1. ASSUME NEW i \in (mid + 1)..high
        PROVE  cp[i].sequence > at
    <3>1. i \in 1..N /\ (i = mid + 1 \/ mid + 1 < i)
      BY <1>1
    <3> QED
      BY <1>1, <1>2, <3>1 DEF Rising
  <2>2. m \in low..mid
    BY <1>2 DEF Splits
  <2>3. ASSUME NEW i \in (m + 1)..high
        PROVE  cp[i].sequence > at
    <3>1. i \in (m + 1)..mid \/ i \in (mid + 1)..high
      BY <1>1, <2>2
    <3> QED
      BY <1>2, <2>1, <3>1 DEF Splits
  <2>4. m \in low..high
    BY <1>1, <2>2
  <2> QED
    BY <1>2, <2>3, <2>4 DEF Splits
<1>3. ASSUME ~(cp[mid + 1].sequence > at), Splits(cp, at, mid + 1, high, m)
      PROVE  Splits(cp, at, low, high, m)
  <2>1. ASSUME NEW i \in (low + 1)..(mid + 1)
        PROVE  cp[i].sequence <= at
    <3>1. i \in 1..N /\ (i = mid + 1 \/ i < mid + 1)
      BY <1>1
    <3> QED
      BY <1>1, <1>3, <3>1 DEF Rising
  <2>2. m \in (mid + 1)..high
    BY <1>3 DEF Splits
  <2>3. ASSUME NEW i \in (low + 1)..m
        PROVE  cp[i].sequence <= at
    <3>1. i \in (low + 1)..(mid + 1) \/ i \in ((mid + 1) + 1)..m
      BY <1>1, <2>2
    <3> QED
      BY <1>3, <2>1, <3>1 DEF Splits
  <2>4. m \in low..high
    BY <1>1, <2>2
  <2> QED
    BY <1>3, <2>3, <2>4 DEF Splits
<1> QED
  BY <1>2, <1>3

\* One unfolding of the search, for any function it may be defined by.
Halve(N, cp, at, f) ==
    [window \in (0..N) \X (0..N) |->
        LET low  == window[1]
            high == window[2]
            mid  == (low + high) \div 2
        IN  IF low >= high THEN high
            ELSE IF cp[mid + 1].sequence > at THEN f[<<low, mid>>]
            ELSE f[<<mid + 1, high>>]]

\* What one unfolding says of a window.
LEMMA HalveAt ==
  ASSUME NEW N \in Nat, NEW cp, NEW at, NEW f, NEW low \in 0..N, NEW high \in 0..N
  PROVE  Halve(N, cp, at, f)[<<low, high>>] =
            IF low >= high THEN high
            ELSE IF cp[(low + high) \div 2 + 1].sequence > at
                 THEN f[<<low, (low + high) \div 2>>]
                 ELSE f[<<(low + high) \div 2 + 1, high>>]
<1>1. <<low, high>> \in (0..N) \X (0..N)
  OBVIOUS
<1> QED
  BY <1>1 DEF Halve

\* There is a function that the search's recursion defines: the one that
\* gives the place in every window.
LEMMA SearchIsDefined ==
  ASSUME NEW N \in Nat, NEW cp, \A i \in 1..N : cp[i].sequence \in Nat,
         Rising(cp, N), NEW at \in Nat
  PROVE  \E f : f = Halve(N, cp, at, f)
<1> DEFINE W == (0..N) \X (0..N)
           place(l, h) == CHOOSE m \in l..h : Splits(cp, at, l, h, m)
           F == [w \in W |-> IF w[1] >= w[2] THEN w[2] ELSE place(w[1], w[2])]
<1>1. ASSUME NEW l \in 0..N, NEW h \in l..N
      PROVE  Splits(cp, at, l, h, F[<<l, h>>])
  <2>0. <<l, h>> \in W
    OBVIOUS
  <2>1. CASE l < h
    <3>1. \E m \in l..h : Splits(cp, at, l, h, m)
      BY SplitExists
    <3>2. Splits(cp, at, l, h, place(l, h))
      BY <3>1
    <3>3. F[<<l, h>>] = place(l, h)
      BY <2>0, <2>1
    <3> QED
      BY <3>2, <3>3
  <2>2. CASE l = h
    <3>1. F[<<l, h>>] = h
      BY <2>0, <2>2
    <3> QED
      BY <2>2, <3>1 DEF Splits
  <2> QED
    BY <2>1, <2>2
<1>2. ASSUME NEW l \in 0..N, NEW h \in 0..N, l >= h
      PROVE  F[<<l, h>>] = h
  BY <1>2
<1> HIDE DEF F
<1>3. ASSUME NEW l \in 0..N, NEW h \in 0..N
      PROVE  F[<<l, h>>] = Halve(N, cp, at, F)[<<l, h>>]
  <2> PICK mid : mid = (l + h) \div 2
    OBVIOUS
  <2>0. Halve(N, cp, at, F)[<<l, h>>] =
            IF l >= h THEN h
            ELSE IF cp[mid + 1].sequence > at THEN F[<<l, mid>>] ELSE F[<<mid + 1, h>>]
    BY HalveAt
  <2>1. CASE l >= h
    BY <1>2, <2>0, <2>1
  <2>2. CASE l < h
    <3>1. h \in l..N
      BY <2>2
    <3>2. mid \in l..(h - 1)
      BY <2>2, Middle
    <3>3. Splits(cp, at, l, h, F[<<l, h>>])
      BY <1>1, <3>1
    <3>4. CASE cp[mid + 1].sequence > at
      <4>1. mid \in l..N
        BY <3>2
      <4>2. Splits(cp, at, l, mid, F[<<l, mid>>])
        BY <1>1, <4>1
      <4>3. Splits(cp, at, l, h, F[<<l, mid>>])
        BY <3>1, <3>2, <3>4, <4>2, HalfWindow
      <4>4. F[<<l, h>>] = F[<<l, mid>>]
        BY <3>1, <3>3, <4>3, SplitUnique
      <4> QED
        BY <2>0, <2>2, <3>4, <4>4
    <3>5. CASE ~(cp[mid + 1].sequence > at)
      <4>1. mid + 1 \in 0..N /\ h \in (mid + 1)..N
        BY <3>2
      <4>2. Splits(cp, at, mid + 1, h, F[<<mid + 1, h>>])
        BY <1>1, <4>1
      <4>3. Splits(cp, at, l, h, F[<<mid + 1, h>>])
        BY <3>1, <3>2, <3>5, <4>2, HalfWindow
      <4>4. F[<<l, h>>] = F[<<mid + 1, h>>]
        BY <3>1, <3>3, <4>3, SplitUnique
      <4> QED
        BY <2>0, <2>2, <3>5, <4>4
    <3> QED
      BY <3>4, <3>5
  <2> QED
    BY <2>1, <2>2
<1>4. \A w \in W : F[w] = Halve(N, cp, at, F)[w]
  <2> TAKE w \in W
  <2>1. PICK l \in 0..N, h \in 0..N : w = <<l, h>>
    OBVIOUS
  <2> QED
    BY <1>3, <2>1
<1>5. F = [w \in W |-> F[w]] /\ Halve(N, cp, at, F) = [w \in W |-> Halve(N, cp, at, F)[w]]
  BY DEF F, Halve
<1>6. F = Halve(N, cp, at, F)
  BY <1>4, <1>5
<1> QED
  BY <1>6

\* Whatever function the recursion defines finds the place in every window.
LEMMA SearchFinds ==
  ASSUME NEW N \in Nat, NEW cp, \A i \in 1..N : cp[i].sequence \in Nat,
         Rising(cp, N), NEW at \in Nat,
         NEW f, f = Halve(N, cp, at, f),
         NEW low \in 0..N, NEW high \in low..N
  PROVE  Splits(cp, at, low, high, f[<<low, high>>])
<1> DEFINE Right(l, h) == Splits(cp, at, l, h, f[<<l, h>>])
           T == {d \in Nat : \E l \in 0..N : \E h \in l..N : h - l = d /\ ~Right(l, h)}
<1> SUFFICES ASSUME ~Right(low, high) PROVE FALSE
  OBVIOUS
<1>1. PICK d \in T : \A e \in T : d <= e
  <2>1. high - low \in Nat
    OBVIOUS
  <2>2. \E l \in 0..N : \E h \in l..N : h - l = high - low /\ ~Right(l, h)
    <3> HIDE DEF Right
    <3> QED
      OBVIOUS
  <2>3. T \in SUBSET Nat /\ high - low \in T
    BY <2>1, <2>2
  <2> HIDE DEF T
  <2> QED
    BY <2>3, LeastNat
<1>2. PICK l \in 0..N : \E h \in l..N : h - l = d /\ ~Right(l, h)
  BY <1>1
<1>3. PICK h \in l..N : h - l = d /\ ~Right(l, h)
  BY <1>2
<1>4. ASSUME NEW l2 \in 0..N, NEW h2 \in l2..N, h2 - l2 < h - l
      PROVE  Right(l2, h2)
  <2>1. h2 - l2 \in Nat /\ h - l = d
    BY <1>3
  <2>2. h2 - l2 \notin T
    <3>1. ~(d <= h2 - l2)
      BY <1>4, <2>1
    <3> HIDE DEF T
    <3> QED
      BY <1>1, <3>1
  <2>3. ~(\E l1 \in 0..N : \E h1 \in l1..N : h1 - l1 = h2 - l2 /\ ~Right(l1, h1))
    BY <2>1, <2>2
  <2> HIDE DEF Right
  <2> QED
    BY <2>3
<1> PICK mid : mid = (l + h) \div 2
  OBVIOUS
<1>5. h \in 0..N
  OBVIOUS
<1>8. f[<<l, h>>] =
        IF l >= h THEN h
        ELSE IF cp[mid + 1].sequence > at THEN f[<<l, mid>>] ELSE f[<<mid + 1, h>>]
  <2>1. Halve(N, cp, at, f)[<<l, h>>] =
            IF l >= h THEN h
            ELSE IF cp[mid + 1].sequence > at THEN f[<<l, mid>>] ELSE f[<<mid + 1, h>>]
    BY <1>5, HalveAt
  <2> QED
    BY <2>1
<1>6. CASE l = h
  <2>1. f[<<l, h>>] = h
    BY <1>5, <1>6, <1>8
  <2> QED
    BY <1>3, <1>6, <2>1 DEF Splits
<1>7. CASE l < h
  <2>1. mid \in l..(h - 1)
    BY <1>5, <1>7, Middle
  <2>2. CASE cp[mid + 1].sequence > at
    <3>1. f[<<l, h>>] = f[<<l, mid>>]
      BY <1>5, <1>7, <1>8, <2>2
    <3>2. mid \in l..N /\ mid - l < h - l
      BY <2>1
    <3>3. Right(l, mid)
      BY <1>4, <3>2
    <3> QED
      BY <1>3, <2>1, <2>2, <3>1, <3>3, HalfWindow
  <2>3. CASE ~(cp[mid + 1].sequence > at)
    <3>1. f[<<l, h>>] = f[<<mid + 1, h>>]
      BY <1>5, <1>7, <1>8, <2>3
    <3>2. mid + 1 \in 0..N /\ h \in (mid + 1)..N /\ h - (mid + 1) < h - l
      BY <2>1
    <3>3. Right(mid + 1, h)
      BY <1>4, <3>2
    <3> QED
      BY <1>3, <2>1, <2>3, <3>1, <3>3, HalfWindow
  <2> QED
    BY <2>2, <2>3
<1> QED
  BY <1>6, <1>7

\* _lookup returns the balance of the last checkpoint that is not after
\* "at", and zero when there is none: for every ordered list of
\* checkpoints of any length.
THEOREM LookupIsExact ==
  ASSUME NEW cp \in Seq(Checkpoint), NEW last \in Nat, Ordered(cp, last), NEW at \in Nat,
         NEW m \in 0..Len(cp),
         \A i \in 1..m : cp[i].sequence <= at,
         \A i \in (m + 1)..Len(cp) : cp[i].sequence > at
  PROVE  lookup(cp, at) = IF m = 0 THEN 0 ELSE cp[m].balance
<1> DEFINE N == Len(cp)
           f == CHOOSE g : g = Halve(N, cp, at, g)
<1>1. N \in Nat
  OBVIOUS
<1>2. lookup(cp, at) = IF f[<<0, N>>] = 0 THEN 0 ELSE cp[f[<<0, N>>]].balance
  BY DEF lookup, Halve
<1>3. (\A i \in 1..N : cp[i].sequence \in Nat) /\ Rising(cp, N)
  BY DEF Ordered, Rising
<1>4. f = Halve(N, cp, at, f)
  <2> HIDE DEF N
  <2> QED
    BY <1>1, <1>3, SearchIsDefined
<1> HIDE DEF f
<1>5. m \in 0..N /\ (\A i \in 1..m : cp[i].sequence <= at)
      /\ (\A i \in (m + 1)..N : cp[i].sequence > at)
  OBVIOUS
<1> HIDE DEF N
<1>6. 0 \in 0..N /\ N \in 0..N
  BY <1>1
<1>7. Splits(cp, at, 0, N, f[<<0, N>>])
  BY <1>1, <1>3, <1>4, <1>6, SearchFinds
<1>8. Splits(cp, at, 0, N, m)
  BY <1>1, <1>5 DEF Splits
<1>9. f[<<0, N>>] = m
  BY <1>1, <1>3, <1>6, <1>7, <1>8, SplitUnique
<1> QED
  BY <1>2, <1>9

\* Every lookup in an ordered list has such a last checkpoint.
LEMMA LookupFinds ==
  ASSUME NEW cp \in Seq(Checkpoint), NEW last \in Nat, Ordered(cp, last), NEW at \in Nat
  PROVE  \E m \in 0..Len(cp) :
            /\ \A i \in 1..m : cp[i].sequence <= at
            /\ \A i \in (m + 1)..Len(cp) : cp[i].sequence > at
            /\ lookup(cp, at) = IF m = 0 THEN 0 ELSE cp[m].balance
<1> DEFINE N == Len(cp)
<1>1. N \in Nat
  OBVIOUS
<1>2. (\A i \in 1..N : cp[i].sequence \in Nat) /\ Rising(cp, N)
  BY DEF Ordered, Rising
<1>3. \E m \in 0..N : Splits(cp, at, 0, N, m)
  <2> HIDE DEF N
  <2>1. 0 \in 0..N /\ N \in 0..N
    BY <1>1
  <2> QED
    BY <1>1, <1>2, <2>1, SplitExists
<1>4. PICK m \in 0..N : Splits(cp, at, 0, N, m)
  BY <1>3
<1>5. m \in Nat /\ (\A i \in 1..m : cp[i].sequence <= at)
      /\ (\A i \in (m + 1)..N : cp[i].sequence > at)
  <2> HIDE DEF N
  <2> QED
    BY <1>1, <1>4 DEF Splits
<1>6. lookup(cp, at) = IF m = 0 THEN 0 ELSE cp[m].balance
  BY <1>5, LookupIsExact
<1> QED
  BY <1>5, <1>6

\* A lookup returns a number of units.
LEMMA LookupRange ==
  ASSUME NEW cp \in Seq(Checkpoint), NEW last \in Nat, Ordered(cp, last), NEW at \in Nat
  PROVE  lookup(cp, at) \in 0..initialUnits
<1>1. PICK m \in 0..Len(cp) : lookup(cp, at) = IF m = 0 THEN 0 ELSE cp[m].balance
  BY LookupFinds
<1>2. ASSUME m # 0 PROVE cp[m].balance \in 0..initialUnits
  <2>1. m \in 1..Len(cp)
    BY <1>2
  <2>2. cp[m] \in Checkpoint
    BY <2>1
  <2> QED
    BY <2>2 DEF Checkpoint
<1>3. 0 \in 0..initialUnits
  BY VaultAssumption
<1> QED
  BY <1>1, <1>2, <1>3

\* A list that is not written stays ordered, and the next sequence number
\* finds what the last one found.
LEMMA CheckpointsKept ==
  ASSUME NEW cp \in Seq(Checkpoint), NEW last \in Nat, Ordered(cp, last)
  PROVE  Ordered(cp, last + 1) /\ lookup(cp, last + 1) = lookup(cp, last)
<1>1. Ordered(cp, last + 1)
  BY DEF Ordered
<1>2. Len(cp) \in 0..Len(cp) /\ (\A i \in 1..Len(cp) : cp[i].sequence <= last)
      /\ (\A i \in 1..Len(cp) : cp[i].sequence <= last + 1)
      /\ (\A i \in (Len(cp) + 1)..Len(cp) : cp[i].sequence > last)
      /\ (\A i \in (Len(cp) + 1)..Len(cp) : cp[i].sequence > last + 1)
  BY DEF Ordered
<1>3. lookup(cp, last) = IF Len(cp) = 0 THEN 0 ELSE cp[Len(cp)].balance
  BY <1>2, LookupIsExact
<1>4. lookup(cp, last + 1) = IF Len(cp) = 0 THEN 0 ELSE cp[Len(cp)].balance
  BY <1>2, LookupIsExact
<1> QED
  BY <1>1, <1>3, <1>4

\* Writing at the next sequence number appends: the list stays ordered,
\* the new number finds the new value, and every earlier one what it
\* found before.
LEMMA CheckpointWritten ==
  ASSUME NEW cp \in Seq(Checkpoint), NEW last \in 0..(MaxSequence - 1), Ordered(cp, last),
         NEW v \in 0..initialUnits, NEW cp2, cp2 = writeCheckpoint(cp, last + 1, v)
  PROVE  /\ cp2 \in Seq(Checkpoint) /\ Ordered(cp2, last + 1)
         /\ lookup(cp2, last + 1) = v
         /\ \A q \in 0..last : lookup(cp2, q) = lookup(cp, q)
<1> DEFINE n == Len(cp)
           entry == [sequence |-> last + 1, balance |-> v]
<1>0. n \in Nat /\ last \in Nat /\ last + 1 \in 0..MaxSequence /\ MaxSequence \in Nat
  BY VaultAssumption
<1>1. \A i \in 1..n : cp[i].sequence \in 1..last
  BY DEF Ordered
<1>2. cp2 = Append(cp, entry)
  <2>1. ~(n # 0 /\ cp[n].sequence = last + 1)
    BY <1>0, <1>1
  <2> QED
    BY <2>1 DEF writeCheckpoint
<1>3. entry \in Checkpoint
  BY <1>0 DEF Checkpoint
<1>4. cp2 \in Seq(Checkpoint) /\ Len(cp2) = n + 1 /\ cp2[n + 1] = entry
      /\ \A i \in 1..n : cp2[i] = cp[i]
  <2> HIDE DEF entry
  <2> QED
    BY <1>2, <1>3
<1>5. entry.sequence = last + 1 /\ entry.balance = v
  OBVIOUS
<1>6. \A i, j \in 1..n : i < j => cp[i].sequence < cp[j].sequence
  BY DEF Ordered
<1> HIDE DEF n, entry
<1>10. last + 1 \in Nat /\ cp2 \in Seq(Checkpoint)
  BY <1>0, <1>4
<1>7. Ordered(cp2, last + 1)
  <2>1. \A i \in 1..(n + 1) : i \in 1..n \/ i = n + 1
    BY <1>0
  <2>2. \A i \in 1..(n + 1) : cp2[i].sequence \in 1..(last + 1)
    BY <1>0, <1>1, <1>4, <1>5, <2>1
  <2>3. ASSUME NEW i \in 1..(n + 1), NEW j \in 1..(n + 1), i < j
        PROVE  cp2[i].sequence < cp2[j].sequence
    <3>1. i \in 1..n
      BY <1>0, <2>3
    <3>2. CASE j \in 1..n
      BY <1>4, <1>6, <2>3, <3>1, <3>2
    <3>3. CASE j = n + 1
      BY <1>0, <1>1, <1>4, <1>5, <3>1, <3>3
    <3> QED
      BY <2>1, <3>2, <3>3
  <2> QED
    <3>1. Len(cp2) = n + 1
      BY <1>4
    <3>2. (\A i \in 1..Len(cp2) : cp2[i].sequence \in 1..(last + 1))
          /\ (\A i, j \in 1..Len(cp2) : i < j => cp2[i].sequence < cp2[j].sequence)
      BY <2>2, <2>3, <3>1
    <3> QED
      BY <3>2 DEF Ordered
<1>8. lookup(cp2, last + 1) = v
  <2>1. n + 1 \in 0..Len(cp2)
    BY <1>0, <1>4
  <2>2. \A i \in 1..(n + 1) : cp2[i].sequence <= last + 1
    BY <1>0, <1>4, <1>7 DEF Ordered
  <2>3. \A i \in ((n + 1) + 1)..Len(cp2) : cp2[i].sequence > last + 1
    BY <1>0, <1>4
  <2>4. lookup(cp2, last + 1) = IF n + 1 = 0 THEN 0 ELSE cp2[n + 1].balance
    BY <1>7, <1>10, <2>1, <2>2, <2>3, LookupIsExact, Zenon
  <2> QED
    BY <1>0, <1>4, <1>5, <2>4
<1>9. ASSUME NEW q \in 0..last
      PROVE  lookup(cp2, q) = lookup(cp, q)
  <2>0. q \in Nat
    BY <1>0
  <2>1. PICK m \in 0..n :
            /\ \A i \in 1..m : cp[i].sequence <= q
            /\ \A i \in (m + 1)..n : cp[i].sequence > q
            /\ lookup(cp, q) = IF m = 0 THEN 0 ELSE cp[m].balance
    <3>1. \E m \in 0..Len(cp) :
            /\ \A i \in 1..m : cp[i].sequence <= q
            /\ \A i \in (m + 1)..Len(cp) : cp[i].sequence > q
            /\ lookup(cp, q) = IF m = 0 THEN 0 ELSE cp[m].balance
      BY <1>0, <2>0, LookupFinds
    <3> QED
      BY <3>1 DEF n
  <2>2. m \in 0..Len(cp2)
    BY <1>0, <1>4
  <2>3. \A i \in 1..m : cp2[i].sequence <= q
    BY <1>0, <1>4, <2>1
  <2>4. \A i \in (m + 1)..Len(cp2) : cp2[i].sequence > q
    <3> TAKE i \in (m + 1)..Len(cp2)
    <3>1. i \in (m + 1)..n \/ i = n + 1
      BY <1>0, <1>4
    <3>2. i \in (m + 1)..n => i \in 1..n
      BY <1>0
    <3> QED
      BY <1>0, <1>4, <1>5, <2>0, <2>1, <3>1, <3>2
  <2>5. lookup(cp2, q) = IF m = 0 THEN 0 ELSE cp2[m].balance
    BY <1>7, <1>10, <2>0, <2>2, <2>3, <2>4, LookupIsExact, Zenon
  <2>6. m # 0 => cp2[m] = cp[m]
    BY <1>0, <1>4
  <2> QED
    BY <2>1, <2>5, <2>6
<1> QED
  BY <1>4, <1>7, <1>8, <1>9

\* An empty list finds nothing.
LEMMA NoCheckpoints ==
  ASSUME NEW last \in Nat
  PROVE  << >> \in Seq(Checkpoint) /\ Ordered(<< >>, last) /\ \A q \in Nat : lookup(<< >>, q) = 0
<1>1. << >> \in Seq(Checkpoint) /\ Len(<< >>) = 0
  OBVIOUS
<1>2. Ordered(<< >>, last)
  BY <1>1 DEF Ordered
<1>3. ASSUME NEW q \in Nat
      PROVE  lookup(<< >>, q) = 0
  <2>1. PICK m \in 0..Len(<< >>) : lookup(<< >>, q) = IF m = 0 THEN 0 ELSE << >>[m].balance
    BY <1>1, <1>2, LookupFinds
  <2> QED
    BY <1>1, <2>1
<1> QED
  BY <1>1, <1>2, <1>3

\* A first checkpoint is found from its own sequence number on.
LEMMA FirstCheckpoint ==
  ASSUME NEW at \in 1..MaxSequence, NEW last \in at..MaxSequence, NEW v \in 0..initialUnits,
         NEW cp, cp = writeCheckpoint(<< >>, at, v)
  PROVE  /\ cp \in Seq(Checkpoint) /\ Ordered(cp, last)
         /\ \A q \in Nat : lookup(cp, q) = IF q < at THEN 0 ELSE v
<1> DEFINE entry == [sequence |-> at, balance |-> v]
<1>0. MaxSequence \in Nat /\ at \in Nat /\ last \in Nat
  BY VaultAssumption
<1>1. cp = Append(<< >>, entry)
  BY DEF writeCheckpoint
<1>2. entry \in Checkpoint /\ entry.sequence = at /\ entry.balance = v
  BY <1>0 DEF Checkpoint
<1> HIDE DEF entry
<1>3. cp \in Seq(Checkpoint) /\ Len(cp) = 1 /\ cp[1] = entry
  <2>0. << >> \in Seq(Checkpoint) /\ Len(<< >>) = 0
    OBVIOUS
  <2>1. PICK e \in Seq(Checkpoint) : e = << >> /\ Len(e) = 0
    BY <2>0
  <2>2. cp = Append(e, entry)
    BY <1>1, <2>1
  <2>3. cp \in Seq(Checkpoint) /\ Len(cp) = Len(e) + 1 /\ cp[Len(e) + 1] = entry
    BY <1>2, <2>2
  <2> QED
    BY <2>1, <2>3
<1>4. Ordered(cp, last)
  <2>0. Len(cp) = 1
    BY <1>3
  <2>1. \A i \in 1..Len(cp) : i = 1
    <3>1. \A i \in 1..1 : i = 1
      OBVIOUS
    <3> QED
      BY <2>0, <3>1
  <2>2. \A i \in 1..Len(cp) : cp[i].sequence = at
    BY <1>2, <1>3, <2>1
  <2>3. at \in 1..last /\ ~(1 < 1)
    BY <1>0
  <2> QED
    BY <2>1, <2>2, <2>3 DEF Ordered
<1>5. ASSUME NEW q \in Nat
      PROVE  lookup(cp, q) = IF q < at THEN 0 ELSE v
  <2>1. CASE q < at
    <3>1. 0 \in 0..Len(cp) /\ (\A i \in 1..0 : cp[i].sequence <= q)
          /\ (\A i \in (0 + 1)..Len(cp) : cp[i].sequence > q)
      BY <1>0, <1>2, <1>3, <2>1
    <3>2. lookup(cp, q) = IF 0 = 0 THEN 0 ELSE cp[0].balance
      BY <1>0, <1>3, <1>4, <3>1, LookupIsExact, Zenon
    <3> QED
      BY <2>1, <3>2
  <2>2. CASE ~(q < at)
    <3>1. 1 \in 0..Len(cp) /\ (\A i \in 1..1 : cp[i].sequence <= q)
          /\ (\A i \in (1 + 1)..Len(cp) : cp[i].sequence > q)
      BY <1>0, <1>2, <1>3, <2>2
    <3>2. lookup(cp, q) = IF 1 = 0 THEN 0 ELSE cp[1].balance
      BY <1>0, <1>3, <1>4, <3>1, LookupIsExact, Zenon
    <3> QED
      BY <1>2, <1>3, <2>2, <3>2
  <2> QED
    BY <2>1, <2>2
<1> QED
  BY <1>3, <1>4, <1>5

\* One checkpoint per sequence number is found by its number.
LEMMA RunningCheckpoints ==
  ASSUME NEW n \in 1..MaxSequence, NEW total, NEW cp \in [1..n -> Checkpoint],
         \A i \in 1..n : cp[i].sequence = i /\ cp[i].balance = total[i]
  PROVE  /\ cp \in Seq(Checkpoint) /\ Ordered(cp, n)
         /\ \A q \in 0..n : lookup(cp, q) = IF q = 0 THEN 0 ELSE total[q]
<1>0. MaxSequence \in Nat /\ n \in Nat
  BY VaultAssumption
<1>1. \A i \in 1..n : cp[i].sequence = i /\ cp[i].balance = total[i]
  OBVIOUS
<1>2. cp \in [1..n -> Checkpoint]
  OBVIOUS
<1>3. cp \in Seq(Checkpoint) /\ Len(cp) = n
  BY <1>0, <1>2
<1>4. Ordered(cp, n)
  BY <1>0, <1>1, <1>3 DEF Ordered
<1>5. ASSUME NEW q \in 0..n
      PROVE  lookup(cp, q) = IF q = 0 THEN 0 ELSE total[q]
  <2>1. q \in 0..Len(cp) /\ q \in Nat /\ (\A i \in 1..q : cp[i].sequence <= q)
        /\ (\A i \in (q + 1)..Len(cp) : cp[i].sequence > q)
    BY <1>0, <1>1, <1>3
  <2>2. lookup(cp, q) = IF q = 0 THEN 0 ELSE cp[q].balance
    BY <1>0, <1>3, <1>4, <2>1, LookupIsExact, Zenon
  <2>3. q # 0 => cp[q].balance = total[q]
    BY <1>0, <1>1
  <2> QED
    BY <2>2, <2>3
<1> QED
  BY <1>3, <1>4, <1>5

\* Sequence numbers start at one: nothing is found at zero.
LEMMA NothingAtZero ==
  ASSUME NEW cp \in Seq(Checkpoint), NEW last \in Nat, Ordered(cp, last)
  PROVE  lookup(cp, 0) = 0
<1>1. PICK m \in 0..Len(cp) : /\ \A i \in 1..m : cp[i].sequence <= 0
                             /\ lookup(cp, 0) = IF m = 0 THEN 0 ELSE cp[m].balance
  BY LookupFinds
<1>2. ASSUME m # 0 PROVE FALSE
  <2>1. m \in 1..m /\ m \in 1..Len(cp)
    BY <1>2
  <2> QED
    BY <1>1, <2>1 DEF Ordered
<1> QED
  BY <1>1, <1>2

-----------------------------------------------------------------------------
\* Sums as cardinalities.

\* One element per unit of every pile: a pile of at most M units for every
\* member of S.  unitsOf and the sets of runningTotal are of this form.
piles(S, M, f) == {u \in S \X (1..M) : u[2] <= f[u[1]]}

\* A sum of finitely many numbers is a number.
LEMMA PilesFinite ==
  ASSUME NEW S, IsFiniteSet(S), NEW M \in Nat, NEW f
  PROVE  IsFiniteSet(piles(S, M, f)) /\ Cardinality(piles(S, M, f)) \in Nat
<1>1. IsFiniteSet(1..M)
  BY FS_Interval
<1>2. IsFiniteSet(S \X (1..M))
  BY <1>1, FS_Product
<1>3. piles(S, M, f) \in SUBSET (S \X (1..M))
  BY DEF piles
<1>4. IsFiniteSet(piles(S, M, f))
  BY <1>2, <1>3, FS_Subset
<1> QED
  BY <1>4, FS_CardinalityType

\* Only the sizes of the piles matter.
LEMMA PilesSame ==
  ASSUME NEW S, NEW M, NEW f, NEW g, \A s \in S : f[s] = g[s]
  PROVE  piles(S, M, f) = piles(S, M, g)
BY DEF piles

\* One more member adds the size of its pile.
LEMMA PilesAdd ==
  ASSUME NEW S, IsFiniteSet(S), NEW a, a \notin S, NEW M \in Nat, NEW f, f[a] \in 0..M
  PROVE  Cardinality(piles(S \cup {a}, M, f)) = Cardinality(piles(S, M, f)) + f[a]
<1>0. PICK k \in 0..M : k = f[a]
  OBVIOUS
<1> DEFINE column == {a} \X (1..k)
<1>1. piles(S \cup {a}, M, f) = piles(S, M, f) \cup column
  <2>1. \A u : u \in column <=> u \in {a} \X (1..M) /\ u[2] <= f[u[1]]
    BY <1>0
  <2>2. \A u : u \in (S \cup {a}) \X (1..M) <=> u \in S \X (1..M) \/ u \in {a} \X (1..M)
    OBVIOUS
  <2> HIDE DEF column
  <2>3. \A u : u \in piles(S \cup {a}, M, f) <=> u \in piles(S, M, f) \/ u \in column
    BY <2>1, <2>2, Zenon DEF piles
  <2> QED
    BY <2>3
<1>2. piles(S, M, f) \cap column = {}
  BY DEF piles
<1>3. IsFiniteSet(column) /\ Cardinality(column) = k
  <2>1. IsFiniteSet(1..k) /\ Cardinality(1..k) = k
    <3>1. 1 \in Int /\ k \in Int
      OBVIOUS
    <3>2. IsFiniteSet(1..k) /\ Cardinality(1..k) = IF 1 > k THEN 0 ELSE k - 1 + 1
      BY <3>1, FS_Interval
    <3> QED
      BY <3>2
  <2>2. IsFiniteSet({a}) /\ Cardinality({a}) = 1
    BY FS_Singleton
  <2>3. IsFiniteSet(column) /\ Cardinality(column) = 1 * k
    BY <2>1, <2>2, FS_Product
  <2> QED
    BY <2>3
<1>4. IsFiniteSet(piles(S, M, f)) /\ Cardinality(piles(S, M, f)) \in Nat
  BY PilesFinite
<1>5. Cardinality({}) = 0
  BY FS_EmptySet
<1> HIDE DEF column
<1>6. Cardinality(piles(S, M, f) \cup column) =
        Cardinality(piles(S, M, f)) + Cardinality(column) - Cardinality(piles(S, M, f) \cap column)
  BY <1>3, <1>4, FS_Union
<1>7. Cardinality(piles(S, M, f) \cup column) = Cardinality(piles(S, M, f)) + k
  <2>1. Cardinality(piles(S, M, f) \cap column) = 0
    BY <1>2, <1>5
  <2> QED
    BY <1>3, <1>4, <1>6, <2>1
<1> QED
  BY <1>0, <1>1, <1>7

\* Changing one pile changes the sum by the difference.
LEMMA PilesChange ==
  ASSUME NEW S, IsFiniteSet(S), NEW a \in S, NEW M \in Nat, NEW f, f[a] \in 0..M,
         NEW g, g[a] \in 0..M, \A s \in S \ {a} : f[s] = g[s]
  PROVE  /\ Cardinality(piles(S, M, g)) = Cardinality(piles(S, M, f)) - f[a] + g[a]
         /\ f[a] <= Cardinality(piles(S, M, f))
<1> DEFINE R == S \ {a}
<1>1. S = R \cup {a} /\ a \notin R
  OBVIOUS
<1>2. IsFiniteSet(R)
  BY FS_RemoveElement
<1>3. piles(R, M, f) = piles(R, M, g)
  BY PilesSame
<1> HIDE DEF R
<1>4. Cardinality(piles(S, M, f)) = Cardinality(piles(R, M, f)) + f[a]
  BY <1>1, <1>2, PilesAdd
<1>5. Cardinality(piles(S, M, g)) = Cardinality(piles(R, M, g)) + g[a]
  BY <1>1, <1>2, PilesAdd
<1>6. Cardinality(piles(R, M, f)) \in Nat
  BY <1>2, PilesFinite
<1> QED
  BY <1>3, <1>4, <1>5, <1>6

\* Two piles together are no more than the sum.
LEMMA PilesTwo ==
  ASSUME NEW S, IsFiniteSet(S), NEW a \in S, NEW b \in S, a # b, NEW M \in Nat,
         NEW f \in [S -> 0..M]
  PROVE  f[a] + f[b] <= Cardinality(piles(S, M, f))
<1> DEFINE g == [f EXCEPT ![a] = 0]
<1>1. g[a] = 0 /\ g[b] = f[b] /\ \A s \in S \ {a} : f[s] = g[s]
  OBVIOUS
<1>2. f[a] \in 0..M /\ f[b] \in 0..M /\ 0 \in 0..M
  OBVIOUS
<1> HIDE DEF g
<1>3. Cardinality(piles(S, M, g)) = Cardinality(piles(S, M, f)) - f[a] + g[a]
  BY <1>1, <1>2, PilesChange
<1>4. g[b] <= Cardinality(piles(S, M, g))
  BY <1>1, <1>2, PilesChange
<1>5. Cardinality(piles(S, M, f)) \in Nat
  BY PilesFinite
<1> QED
  BY <1>1, <1>2, <1>3, <1>4, <1>5

\* Piles may be renamed, and empty ones left out.
LEMMA PilesRenamed ==
  ASSUME NEW S, IsFiniteSet(S), NEW T, NEW M \in Nat, NEW f, NEW g,
         NEW h \in [S -> T], \A s \in S : g[h[s]] = f[s],
         \A s, r \in S : h[s] = h[r] => s = r,
         \A t \in T : g[t] \in Nat /\ (g[t] # 0 => \E s \in S : h[s] = t)
  PROVE  Cardinality(piles(T, M, g)) = Cardinality(piles(S, M, f))
<1> DEFINE A == piles(S, M, f)
           B == piles(T, M, g)
           b == [u \in A |-> <<h[u[1]], u[2]>>]
<1>1. \A u \in A : b[u] \in B
  BY DEF piles
<1>2. \A u, v \in A : b[u] = b[v] => u = v
  BY DEF piles
<1>3. ASSUME NEW w \in B
      PROVE  \E u \in A : b[u] = w
  <2>1. PICK t \in T, k \in 1..M : w = <<t, k>> /\ k <= g[t]
    BY DEF piles
  <2>2. g[t] \in Nat /\ g[t] # 0
    BY <2>1
  <2>3. PICK s \in S : h[s] = t
    BY <2>2
  <2>4. <<s, k>> \in A
    BY <2>1, <2>3 DEF piles
  <2>5. b[<<s, k>>] = w
    BY <2>1, <2>3, <2>4
  <2> QED
    BY <2>4, <2>5
<1>4. b \in Bijection(A, B)
  <2>1. b \in [A -> B]
    BY <1>1
  <2>2. DOMAIN b = A
    OBVIOUS
  <2> HIDE DEF A, B, b
  <2>3. b \in Injection(A, B)
    BY <1>2, <2>1, <2>2 DEF Injection, IsInjective
  <2>4. b \in Surjection(A, B)
    BY <1>3, <2>1 DEF Surjection
  <2> QED
    BY <2>3, <2>4 DEF Bijection
<1>5. IsFiniteSet(A)
  BY PilesFinite
<1>6. ExistsBijection(A, B)
  <2> HIDE DEF A, B, b
  <2> QED
    BY <1>4 DEF ExistsBijection
<1> HIDE DEF A, B
<1>7. Cardinality(B) = Cardinality(A)
  BY <1>5, <1>6, FS_Bijection
<1> QED
  BY <1>7 DEF A, B

-----------------------------------------------------------------------------
\* The inductive invariant.

\* Before activation nothing has been issued, locked, paid or recorded;
\* afterwards every unit is outstanding, burned or released, and a default
\* comes only after the protection has ended.
Issuance ==
    /\ protectionState = "Unfunded" <=> receivableState = "Unissued"
    /\ receivableState = "DefaultOutstanding" => protectionState \in {"Entitled", "Released"}
    /\ cvaBurned + totalSupply <= initialUnits
    /\ protectionState = "Unfunded" =>
        /\ cvaBurned = 0 /\ totalSupply = 0 /\ sequence = 0
        /\ \A a \in Accounts : balanceOf[a] = 0 /\ balanceCheckpoints[a] = << >>
        /\ supplyCheckpoints = << >>
        /\ bondLocked = 0 /\ bondReturned = 0 /\ entitlementAllocated = 0
        /\ redeemedFace = 0 /\ cvaReleasedFace = 0

\* The recorded balances of every account, at a sequence number.
balancesAt(q) == [a \in Accounts |-> balanceAt(a, q)]

\* The checkpoints can be searched, and what they hold adds up.
History ==
    /\ \A a \in Accounts : Ordered(balanceCheckpoints[a], sequence)
    /\ Ordered(supplyCheckpoints, sequence)
    /\ \A q \in 0..sequence : totalSupplyAt(q) = Cardinality(unitsOf(balancesAt(q)))
    /\ \A a \in Accounts : balanceAt(a, sequence) = balanceOf[a]
    /\ totalSupplyAt(sequence) = totalSupply

\* A pending conflict was recorded with units outstanding, of which some
\* may have been redeemed since.
Snapshot ==
    protectionState \in {"CommitPending", "ConflictConfirmed"} =>
        /\ pendingConflict.snapshotSupply # 0
        /\ totalSupply <= pendingConflict.snapshotSupply
        /\ pendingConflict.snapshotSequence <= sequence

\* What has been claimed is at most the rounded share of the units that
\* claimed, until the last units take the rest.
Shares ==
    /\ protectionState # "Entitled" =>
        /\ entitlementAllocated = 0 /\ entitlementClaimed = 0
        /\ entitlementClaimedUnits = 0 /\ bondClaimedBy = {}
    /\ protectionState = "Entitled" =>
        /\ entitlementSnapshotSupply # 0
        /\ entitlementSnapshotSequence <= sequence
        /\ entitlementSnapshotSupply = totalSupplyAt(entitlementSnapshotSequence)
        /\ IF entitlementClaimedUnits = entitlementSnapshotSupply
           THEN entitlementClaimed = entitlementAllocated
           ELSE entitlementClaimed <=
                    mulDiv(entitlementAllocated, entitlementClaimedUnits,
                           entitlementSnapshotSupply)

\* The units and the bond claimed so far, pile by pile.
shareOf == [a \in Accounts |-> mulDiv(entitlementAllocated,
                balancesAt(entitlementSnapshotSequence)[a], entitlementSnapshotSupply)]

Claims ==
    protectionState = "Entitled" =>
        /\ entitlementClaimedUnits =
                Cardinality(piles(bondClaimedBy, initialUnits,
                                  balancesAt(entitlementSnapshotSequence)))
        /\ entitlementClaimedUnits # entitlementSnapshotSupply =>
            entitlementClaimed = Cardinality(piles(bondClaimedBy, initialBond, shareOf))

\* The accounting needs the face of the units to fit what is still owed,
\* the bond to be what the supply or the snapshot requires, and a claim to
\* leave enough for the later ones.
VaultInv ==
    /\ TypeOK
    /\ Issuance
    /\ History
    /\ Snapshot
    /\ Shares
    /\ Claims
    /\ BondMatchesExposure
    /\ FaceIsConserved
    /\ AccountingHolds

\* The constants the amounts are made of.
LEMMA Amounts ==
  /\ initialUnits \in Nat \ {0} /\ faceValue \in Nat /\ faceValue >= initialUnits
  /\ advanceAmount \in Nat /\ initialBond \in Nat \ {0} /\ netProceeds = advanceAmount - initialBond
  /\ MaxSequence \in Nat /\ MaxTimestamp \in Nat /\ Horizon \in 0..MaxTimestamp
<1>1. advanceAmount * bondBps \in Nat /\ BasisPoints \in Nat \ {0}
  BY VaultAssumption DEF BasisPoints
<1>2. (advanceAmount * bondBps) \div BasisPoints \in Nat
  BY <1>1, DivNat
<1>3. initialBond \in Nat
  BY <1>2 DEF initialBond
<1> QED
  BY <1>3, VaultAssumption DEF netProceeds

\* A transaction that moves no unit leaves the history as it is.
LEMMA HistoryKept ==
  ASSUME History, UNCHANGED unitVars
  PROVE  /\ History'
         /\ \A q : totalSupplyAt(q)' = totalSupplyAt(q)
         /\ \A q : balancesAt(q)' = balancesAt(q)
<1>1. UNCHANGED <<sequence, balanceOf, totalSupply, balanceCheckpoints, supplyCheckpoints>>
  BY DEF unitVars
<1>2. \A q : totalSupplyAt(q)' = totalSupplyAt(q)
  BY <1>1 DEF totalSupplyAt
<1>3. \A a, q : balanceAt(a, q)' = balanceAt(a, q)
  BY <1>1 DEF balanceAt
<1>4. \A q : balancesAt(q)' = balancesAt(q)
  BY <1>3 DEF balancesAt
<1>5. ASSUME NEW q \in 0..sequence
      PROVE  totalSupplyAt(q)' = Cardinality(unitsOf(balancesAt(q)))'
  <2>1. unitsOf(balancesAt(q))' = unitsOf(balancesAt(q))
    BY <1>4 DEF unitsOf
  <2> QED
    BY <1>2, <2>1 DEF History
<1>6. (\A a \in Accounts : balanceAt(a, sequence) = balanceOf[a])'
  BY <1>1 DEF History, balanceAt
<1>7. (totalSupplyAt(sequence) = totalSupply)'
  BY <1>1 DEF History, totalSupplyAt
<1>8. History'
  BY <1>1, <1>5, <1>6, <1>7 DEF History
<1> QED
  BY <1>2, <1>4, <1>8

\* Everything the amounts are made of.
amountVars == <<receivableState, unitVars, cvaSupply, cvaAccounted, cvaBurned, moneyVars>>

\* The environment, the set-up calls and revealConflict leave the amounts
\* alone, and so keep the invariant if they keep the types.
LEMMA AmountsKept ==
  ASSUME VaultInv, UNCHANGED amountVars, TypeOK',
         custodyCredit' = custodyCredit \/ protectionState = "Unfunded",
         \/ UNCHANGED <<protectionState, pendingConflict>>
         \/ /\ protectionState = "CommitPending" /\ protectionState' = "ConflictConfirmed"
            /\ pendingConflict'.snapshotSequence = pendingConflict.snapshotSequence
            /\ pendingConflict'.snapshotSupply = pendingConflict.snapshotSupply
            /\ pendingConflict'.snapshotBond = pendingConflict.snapshotBond
  PROVE  VaultInv'
<1>0. UNCHANGED <<receivableState, unitVars, sequence, balanceOf, totalSupply, balanceCheckpoints,
        supplyCheckpoints, cvaSupply, cvaAccounted, cvaBurned, bondLocked, bondReturned,
        entitlementAllocated, entitlementClaimed, entitlementClaimedUnits,
        entitlementSnapshotSequence, entitlementSnapshotSupply, bondClaimedBy,
        redemptionEscrow, redeemedFace, cvaReleasedFace, settlementCredit,
        settlementCreditTotal, cash>>
  BY DEF amountVars, unitVars, moneyVars, bondVars, entitlementVars, redemptionVars, creditVars
<1>1. Issuance'
  BY <1>0 DEF VaultInv, Issuance
<1>2. History'
  BY <1>0, HistoryKept DEF VaultInv
<1>3. Snapshot'
  BY <1>0 DEF VaultInv, Snapshot
<1>4. Shares'
  BY <1>0 DEF VaultInv, Shares, totalSupplyAt
<1>5. Claims'
  <2>1. balancesAt(entitlementSnapshotSequence)' = balancesAt(entitlementSnapshotSequence)
    BY <1>0 DEF balancesAt, balanceAt
  <2>2. shareOf' = shareOf
    BY <1>0, <2>1 DEF shareOf
  <2> QED
    BY <1>0, <2>1, <2>2 DEF VaultInv, Claims
<1>6. BondMatchesExposure'
  BY <1>0 DEF VaultInv, BondMatchesExposure, totalSupplyAt
<1>7. FaceIsConserved'
  BY <1>0 DEF VaultInv, FaceIsConserved, remainingFace
<1>8. AccountingHolds'
  BY <1>0 DEF VaultInv, AccountingHolds, unitsOf, accountedSettlementBalance
<1> QED
  BY <1>1, <1>2, <1>3, <1>4, <1>5, <1>6, <1>7, <1>8 DEF VaultInv

\* The vault starts with nothing issued.
LEMMA InitInv ==
  ASSUME Init
  PROVE  VaultInv
<1> USE Amounts
<1>1. TypeOK
  <2>1. NoConflict \in Conflict
    BY DEF NoConflict, Conflict
  <2>2. << >> \in Seq(Checkpoint)
    OBVIOUS
  <2>3. now \in 0..Horizon /\ denied \subseteq Deniable /\ isFacility \subseteq Accounts
        /\ authorizedOriginator \subseteq Accounts
    BY VaultAssumption DEF Init
  <2>4. protectionState \in ProtectionStates /\ receivableState \in ReceivableStates
    BY DEF Init, ProtectionStates, ReceivableStates
  <2>5. balanceOf \in [Accounts -> 0..initialUnits] /\ settlementCredit \in [Accounts -> Nat]
        /\ balanceCheckpoints \in [Accounts -> Seq(Checkpoint)]
    BY <2>2 DEF Init
  <2>6. {custodyCredit, cvaSupply, cvaAccounted, cvaBurned, totalSupply} \subseteq 0..initialUnits
        /\ {entitlementClaimedUnits, entitlementSnapshotSupply} \subseteq 0..initialUnits
        /\ {bondLocked, bondReturned, entitlementAllocated, entitlementClaimed}
                \subseteq 0..initialBond
        /\ {redemptionEscrow, redeemedFace, cvaReleasedFace} \subseteq 0..faceValue
        /\ sequence \in 0..MaxSequence /\ entitlementSnapshotSequence \in 0..MaxSequence
        /\ cash \in Nat /\ settlementCreditTotal \in Nat
    BY DEF Init
  <2>7. defaultCvaReleaseStarted \in BOOLEAN /\ pendingConflict \in Conflict
        /\ supplyCheckpoints \in Seq(Checkpoint) /\ bondClaimedBy \subseteq Accounts
        /\ usedPledgeDigest \subseteq Pledges /\ protectedPledge \in Pledges \cup {None}
    BY <2>1, <2>2 DEF Init
  <2> QED
    BY <2>3, <2>4, <2>5, <2>6, <2>7 DEF TypeOK
<1>2. \A q \in Nat : lookup(<< >>, q) = 0
  <2> TAKE q \in Nat
  <2>1. << >> \in Seq(Checkpoint) /\ Len(<< >>) = 0
    OBVIOUS
  <2>2. Ordered(<< >>, 0)
    BY <2>1 DEF Ordered
  <2>3. PICK m \in 0..Len(<< >>) :
            lookup(<< >>, q) = IF m = 0 THEN 0 ELSE << >>[m].balance
    BY <2>1, <2>2, LookupFinds
  <2> QED
    BY <2>1, <2>3
<1>3. ASSUME NEW f, \A a \in Accounts : f[a] = 0
      PROVE  Cardinality(unitsOf(f)) = 0
  <2>1. unitsOf(f) = {}
    BY <1>3 DEF unitsOf
  <2> QED
    BY <2>1, FS_EmptySet
<1>4. Issuance
  BY DEF Init, Issuance
<1>5. History
  <2>1. Ordered(<< >>, 0)
    BY DEF Ordered
  <2>2. totalSupplyAt(0) = 0 /\ \A a \in Accounts : balanceAt(a, 0) = 0 /\ balancesAt(0)[a] = 0
    BY <1>2 DEF Init, totalSupplyAt, balanceAt, balancesAt
  <2>3. Cardinality(unitsOf(balancesAt(0))) = 0
    BY <1>3, <2>2
  <2> QED
    BY <2>1, <2>2, <2>3 DEF Init, History
<1>6. Snapshot /\ Shares /\ Claims /\ BondMatchesExposure
  BY DEF Init, Snapshot, Shares, Claims, BondMatchesExposure
<1>7. FaceIsConserved
  <2>1. mulDiv(faceValue, 0, initialUnits) = 0
    BY ShareBounds
  <2> QED
    BY <2>1 DEF Init, FaceIsConserved, remainingFace
<1>8. AccountingHolds
  <2>1. Cardinality(unitsOf(balanceOf)) = 0
    BY <1>3 DEF Init
  <2> QED
    BY <2>1, VaultAssumption DEF Init, AccountingHolds, accountedSettlementBalance
<1> QED
  BY <1>1, <1>4, <1>5, <1>6, <1>7, <1>8 DEF VaultInv

\* bindVault: the custody credit may change before activation.
LEMMA BindVault ==
  ASSUME VaultInv, bindVault
  PROVE  VaultInv'
<1> USE DEF envVars, stateVars, pledgeVars, unitVars, cvaVars, moneyVars,
        bondVars, entitlementVars, redemptionVars, creditVars
<1>1. custodyCredit' \in 0..initialUnits /\ protectionState = "Unfunded"
  BY Amounts DEF bindVault
<1>2. UNCHANGED <<envVars, stateVars, authorizedOriginator, pledgeVars, unitVars, cvaSupply,
                  cvaAccounted, cvaBurned, moneyVars>>
  BY DEF bindVault
<1>3. TypeOK'
  BY <1>1, <1>2 DEF VaultInv, TypeOK
<1> QED
  BY <1>1, <1>2, <1>3, AmountsKept DEF amountVars

\* The factory's owner, the buyer, the blocks and the policies change
\* nothing the accounting is about.
LEMMA Environment ==
  ASSUME VaultInv,
         \/ \E f \in Relisted, enabled \in BOOLEAN : setFacility(f, enabled)
         \/ \E caller, signer \in Accounts : authorizeOriginatorWallet(caller, signer)
         \/ Tick
         \/ \E answer \in Deniable : changePolicy(answer)
  PROVE  VaultInv'
<1> USE DEF envVars, stateVars, pledgeVars, unitVars, cvaVars, moneyVars,
        bondVars, entitlementVars, redemptionVars, creditVars
<1>1. UNCHANGED <<stateVars, pledgeVars, unitVars, cvaVars, moneyVars>>
  BY DEF setFacility, authorizeOriginatorWallet, Tick, changePolicy
<1>2. now' \in 0..Horizon /\ denied' \subseteq Deniable /\ isFacility' \subseteq Accounts
      /\ authorizedOriginator' \subseteq Accounts
  <2>0. now \in 0..Horizon /\ denied \subseteq Deniable /\ isFacility \subseteq Accounts
        /\ authorizedOriginator \subseteq Accounts
    BY DEF VaultInv, TypeOK
  <2>1. CASE \E f \in Relisted, enabled \in BOOLEAN : setFacility(f, enabled)
    BY <2>0, <2>1, VaultAssumption DEF setFacility
  <2>2. CASE \E caller, signer \in Accounts : authorizeOriginatorWallet(caller, signer)
    BY <2>0, <2>2 DEF authorizeOriginatorWallet
  <2>3. CASE Tick
    BY <2>0, <2>3, Amounts DEF Tick
  <2>4. CASE \E answer \in Deniable : changePolicy(answer)
    BY <2>0, <2>4 DEF changePolicy
  <2> QED
    BY <2>1, <2>2, <2>3, <2>4
<1>3. TypeOK'
  BY <1>1, <1>2 DEF VaultInv, TypeOK
<1> QED
  BY <1>1, <1>3, AmountsKept DEF amountVars

\* revealConflict: only the pledge and the cure deadline are recorded.
LEMMA RevealConflict ==
  ASSUME VaultInv, NEW caller \in Accounts, NEW p \in Pledges, revealConflict(caller, p)
  PROVE  VaultInv'
<1> USE DEF envVars, pledgeVars, unitVars, cvaVars, moneyVars,
        bondVars, entitlementVars, redemptionVars, creditVars
<1>1. pendingConflict \in Conflict /\ now \in Nat /\ curePeriod \in Nat
  BY Amounts, VaultAssumption DEF VaultInv, TypeOK
<1>2. pendingConflict' \in Conflict
      /\ pendingConflict'.snapshotSequence = pendingConflict.snapshotSequence
      /\ pendingConflict'.snapshotSupply = pendingConflict.snapshotSupply
      /\ pendingConflict'.snapshotBond = pendingConflict.snapshotBond
  <2>1. now + curePeriod \in Nat
    BY <1>1
  <2> PICK deadline \in Nat : deadline = now + curePeriod
    BY <2>1
  <2>2. pendingConflict' = [pendingConflict EXCEPT
                !.conflictingPledge = p, !.cureDeadline = deadline]
    BY DEF revealConflict
  <2> QED
    BY <1>1, <2>2 DEF Conflict
<1>3. TypeOK'
  BY <1>2 DEF VaultInv, TypeOK, revealConflict, usePledge, ProtectionStates
<1> QED
  BY <1>2, <1>3, AmountsKept DEF revealConflict, amountVars

\* _creditSettlement keeps the total equal to the two credits.
LEMMA Credited ==
  ASSUME VaultInv, NEW refund \in Nat, NEW bond \in Nat, creditSettlement(refund, bond)
  PROVE  /\ settlementCredit' \in [Accounts -> Nat] /\ settlementCreditTotal' \in Nat
         /\ settlementCreditTotal' = settlementCreditTotal + refund + bond
         /\ settlementCreditTotal' = settlementCredit'[buyer] + settlementCredit'[originatorTreasury]
         /\ \A a \in Accounts \ {buyer, originatorTreasury} : settlementCredit'[a] = 0
<1>1. /\ settlementCredit \in [Accounts -> Nat] /\ settlementCreditTotal \in Nat
      /\ settlementCreditTotal = settlementCredit[buyer] + settlementCredit[originatorTreasury]
      /\ \A a \in Accounts \ {buyer, originatorTreasury} : settlementCredit[a] = 0
  BY DEF VaultInv, TypeOK, AccountingHolds
<1>2. buyer \in Accounts /\ originatorTreasury \in Accounts /\ buyer # originatorTreasury
  BY VaultAssumption
<1>3. /\ settlementCredit' \in [Accounts -> Nat]
      /\ settlementCredit'[buyer] = settlementCredit[buyer] + refund
      /\ settlementCredit'[originatorTreasury] = settlementCredit[originatorTreasury] + bond
      /\ \A a \in Accounts \ {buyer, originatorTreasury} : settlementCredit'[a] = settlementCredit[a]
  BY <1>1, <1>2 DEF creditSettlement
<1>4. settlementCreditTotal' = settlementCreditTotal + refund + bond
  BY DEF creditSettlement
<1> QED
  BY <1>1, <1>2, <1>3, <1>4

\* The numbers of the invariant, for the arithmetic of the transactions.
LEMMA Numbers ==
  ASSUME VaultInv
  PROVE  /\ custodyCredit \in 0..initialUnits /\ cvaSupply \in 0..initialUnits
         /\ cvaAccounted \in 0..initialUnits /\ cvaBurned \in 0..initialUnits
         /\ totalSupply \in 0..initialUnits /\ sequence \in 0..MaxSequence
         /\ bondLocked \in 0..initialBond /\ bondReturned \in 0..initialBond
         /\ entitlementAllocated \in 0..initialBond /\ entitlementClaimed \in 0..initialBond
         /\ entitlementClaimedUnits \in 0..initialUnits
         /\ entitlementSnapshotSupply \in 0..initialUnits
         /\ redemptionEscrow \in 0..faceValue /\ redeemedFace \in 0..faceValue
         /\ cvaReleasedFace \in 0..faceValue
         /\ settlementCreditTotal \in Nat /\ cash \in Nat
         /\ pendingConflict \in Conflict
         /\ requiredBond(totalSupply) \in 0..initialBond
         /\ cash = bondLocked + (entitlementAllocated - entitlementClaimed) + redemptionEscrow
                        + settlementCreditTotal
         /\ redemptionEscrow <= faceValue - redeemedFace - cvaReleasedFace
<1>1. totalSupply \in 0..initialUnits
  BY DEF VaultInv, TypeOK
<1>2. requiredBond(totalSupply) \in 0..initialBond
  BY <1>1, RequiredBondBounds
<1> QED
  BY <1>2 DEF VaultInv, TypeOK, AccountingHolds, FaceIsConserved, accountedSettlementBalance,
        remainingFace

\* commitConflict records the supply, the sequence number and the bond
\* that the supply requires.
LEMMA CommitConflict ==
  ASSUME VaultInv, NEW caller \in Accounts, NEW c \in Commitments, commitConflict(caller, c)
  PROVE  VaultInv'
<1> USE DEF envVars, pledgeVars, unitVars, cvaVars, moneyVars,
        bondVars, entitlementVars, redemptionVars, creditVars
<1>1. protectionState = "Active" /\ protectionState' = "CommitPending" /\ totalSupply # 0
  BY DEF commitConflict
<1>2. UNCHANGED <<envVars, receivableState, authorizedOriginator, pledgeVars, unitVars, cvaVars,
                  moneyVars>>
  BY DEF commitConflict
<1>3. /\ pendingConflict'.snapshotSequence = sequence
      /\ pendingConflict'.snapshotSupply = totalSupply
      /\ pendingConflict'.snapshotBond = requiredBond(totalSupply)
  BY DEF commitConflict
<1>4. TypeOK'
  <2>1. now + revealPeriod \in Nat /\ now \in Nat /\ c \in Commitment
    <3>1. now \in Nat
      BY Amounts DEF VaultInv, TypeOK
    <3>2. revealPeriod \in Nat /\ c \in Commitment
      BY VaultAssumption
    <3> QED
      BY <3>1, <3>2
  <2>2. pendingConflict' \in Conflict
    BY <2>1, Numbers DEF commitConflict, Conflict
  <2>3. protectionState' \in ProtectionStates
    BY <1>1 DEF ProtectionStates
  <2> QED
    BY <1>2, <2>2, <2>3 DEF VaultInv, TypeOK
<1>5. Issuance'
  BY <1>1, <1>2 DEF VaultInv, Issuance
<1>6. History'
  BY <1>2, HistoryKept DEF VaultInv
<1>7. Snapshot'
  BY <1>1, <1>2, <1>3, Numbers, Amounts DEF Snapshot
<1>8. Shares' /\ Claims'
  BY <1>1, <1>2 DEF VaultInv, Shares, Claims
<1>9. BondMatchesExposure'
  BY <1>1, <1>2, <1>3 DEF VaultInv, History, BondMatchesExposure, totalSupplyAt
<1>10. FaceIsConserved'
  BY <1>2 DEF VaultInv, FaceIsConserved, remainingFace
<1>11. AccountingHolds'
  BY <1>1, <1>2 DEF VaultInv, AccountingHolds, unitsOf, accountedSettlementBalance
<1> QED
  BY <1>4, <1>5, <1>6, <1>7, <1>8, <1>9, <1>10, <1>11 DEF VaultInv

\* expireCommit and cureConflict: what the units redeemed in the meantime
\* no longer require goes back to the originator.
LEMMA Reactivate ==
  ASSUME VaultInv, reactivate, protectionState \in {"CommitPending", "ConflictConfirmed"}
  PROVE  VaultInv'
<1> USE DEF envVars, unitVars, cvaVars, entitlementVars, redemptionVars
<1> DEFINE excess == excessBond("Active", totalSupply)
<1>1. UNCHANGED <<envVars, receivableState, authorizedOriginator, usedPledgeDigest,
                  usedPledgeNonce, protectedPledge, unitVars, cvaVars, entitlementVars,
                  redemptionVars, cash>>
  BY DEF reactivate
<1>2. protectionState' = "Active" /\ pendingConflict' = NoConflict
  BY DEF reactivate
<1>3. excess \in Nat /\ excess = bondLocked - requiredBond(totalSupply)
  <2>1. pendingConflict.snapshotSupply \in 0..initialUnits
        /\ totalSupply <= pendingConflict.snapshotSupply
        /\ bondLocked = requiredBond(pendingConflict.snapshotSupply)
    BY Numbers DEF VaultInv, Snapshot, BondMatchesExposure, Conflict
  <2>2. requiredBond(totalSupply) <= bondLocked
    BY <2>1, Numbers, RequiredBondBounds
  <2> QED
    BY <2>2, Numbers, Amounts DEF excessBond
<1>4. bondLocked' = bondLocked - excess /\ bondReturned' = bondReturned + excess
  BY DEF reactivate, returnBond
<1>5. creditSettlement(0, excess)
  BY DEF reactivate
<1> HIDE DEF excess
<1>6. bondLocked' = requiredBond(totalSupply)
  BY <1>3, <1>4, Numbers, Amounts
<1>7. /\ settlementCredit' \in [Accounts -> Nat] /\ settlementCreditTotal' \in Nat
      /\ settlementCreditTotal' = settlementCreditTotal + 0 + excess
      /\ settlementCreditTotal' = settlementCredit'[buyer] + settlementCredit'[originatorTreasury]
      /\ \A a \in Accounts \ {buyer, originatorTreasury} : settlementCredit'[a] = 0
  BY <1>3, <1>5, Credited
<1>8. bondLocked + bondReturned + entitlementAllocated = initialBond /\ entitlementAllocated = 0
  BY DEF VaultInv, AccountingHolds, Shares
<1>9. TypeOK'
  <2>1. NoConflict \in Conflict
    BY Amounts DEF NoConflict, Conflict
  <2>2. bondLocked' \in 0..initialBond /\ bondReturned' \in 0..initialBond
    BY <1>3, <1>4, <1>8, Numbers, Amounts
  <2>3. protectionState' \in ProtectionStates
    BY <1>2 DEF ProtectionStates
  <2> QED
    BY <1>1, <1>2, <1>7, <2>1, <2>2, <2>3 DEF VaultInv, TypeOK
<1>10. Issuance'
  BY <1>1, <1>2 DEF VaultInv, Issuance
<1>11. History'
  BY <1>1, HistoryKept DEF VaultInv
<1>12. Snapshot' /\ Shares' /\ Claims'
  BY <1>1, <1>2 DEF VaultInv, Snapshot, Shares, Claims
<1>13. BondMatchesExposure'
  <2>1. bondLocked' = requiredBond(totalSupply)'
    BY <1>1, <1>6 DEF requiredBond
  <2> QED
    BY <1>2, <2>1 DEF BondMatchesExposure
<1>14. FaceIsConserved'
  BY <1>1 DEF VaultInv, FaceIsConserved, remainingFace
<1>15. AccountingHolds'
  <2>1. (bondLocked + bondReturned + entitlementAllocated = initialBond)'
    BY <1>1, <1>3, <1>4, <1>8, Numbers, Amounts
  <2>2. (cash = accountedSettlementBalance)'
    BY <1>1, <1>3, <1>4, <1>7, Numbers, Amounts DEF accountedSettlementBalance
  <2> QED
    BY <1>1, <1>2, <1>7, <2>1, <2>2 DEF VaultInv, AccountingHolds, unitsOf
<1> QED
  BY <1>9, <1>10, <1>11, <1>12, <1>13, <1>14, <1>15 DEF VaultInv

\* finalizeConflict: the whole locked bond becomes the entitlement.
LEMMA FinalizeConflict ==
  ASSUME VaultInv, finalizeConflict
  PROVE  VaultInv'
<1> USE DEF envVars, pledgeVars, unitVars, cvaVars, redemptionVars, creditVars
<1>1. UNCHANGED <<envVars, receivableState, authorizedOriginator, pledgeVars, unitVars, cvaVars,
                  bondReturned, entitlementClaimed, entitlementClaimedUnits, bondClaimedBy,
                  redemptionVars, creditVars, cash>>
  BY DEF finalizeConflict
<1>2. protectionState = "ConflictConfirmed" /\ protectionState' = "Entitled"
      /\ pendingConflict' = NoConflict
  BY DEF finalizeConflict
<1>3. pendingConflict.snapshotBond = bondLocked
      /\ bondLocked = requiredBond(pendingConflict.snapshotSupply)
      /\ pendingConflict.snapshotSupply = totalSupplyAt(pendingConflict.snapshotSequence)
      /\ pendingConflict.snapshotSupply # 0
      /\ pendingConflict.snapshotSequence <= sequence
  BY <1>2 DEF VaultInv, BondMatchesExposure, Snapshot
<1>4. entitlementAllocated' = bondLocked /\ bondLocked' = 0
      /\ entitlementSnapshotSequence' = pendingConflict.snapshotSequence
      /\ entitlementSnapshotSupply' = pendingConflict.snapshotSupply
  BY <1>3, Numbers, Amounts DEF finalizeConflict
<1>5. entitlementAllocated = 0 /\ entitlementClaimed = 0 /\ entitlementClaimedUnits = 0
      /\ bondClaimedBy = {}
  BY <1>2 DEF VaultInv, Shares
<1>6. pendingConflict.snapshotSupply \in 0..initialUnits
      /\ pendingConflict.snapshotSequence \in 0..MaxSequence
  BY Numbers DEF Conflict
<1>7. TypeOK'
  <2>1. NoConflict \in Conflict
    BY Amounts DEF NoConflict, Conflict
  <2>2. bondLocked' \in 0..initialBond /\ entitlementAllocated' \in 0..initialBond
    BY <1>4, Numbers, Amounts
  <2>3. protectionState' \in ProtectionStates
    BY <1>2 DEF ProtectionStates
  <2> QED
    BY <1>1, <1>2, <1>4, <1>6, <2>1, <2>2, <2>3 DEF VaultInv, TypeOK
<1>8. Issuance'
  BY <1>1, <1>2 DEF VaultInv, Issuance
<1>9. History'
  BY <1>1, HistoryKept DEF VaultInv
<1>10. Snapshot'
  BY <1>2 DEF Snapshot
<1>11. Shares'
  <2>1. entitlementSnapshotSupply' = totalSupplyAt(entitlementSnapshotSequence)'
    BY <1>1, <1>3, <1>4 DEF totalSupplyAt
  <2>2. mulDiv(entitlementAllocated, entitlementClaimedUnits, entitlementSnapshotSupply)' \in Nat
    <3>1. entitlementAllocated' \in Nat /\ entitlementSnapshotSupply' \in Nat \ {0}
          /\ entitlementClaimedUnits' = 0 /\ 0 \in Nat
      BY <1>1, <1>3, <1>4, <1>5, <1>6, Numbers, Amounts
    <3> QED
      BY <3>1, ShareBounds DEF mulDiv
  <2> QED
    BY <1>1, <1>2, <1>3, <1>4, <1>5, <1>6, <2>1, <2>2 DEF Shares
<1>12. Claims'
  <2>1. bondClaimedBy' = {} /\ entitlementClaimedUnits' = 0 /\ entitlementClaimed' = 0
    BY <1>1, <1>5
  <2>2. \A M, f : piles({}, M, f) = {}
    BY DEF piles
  <2>3. Cardinality({}) = 0
    BY FS_EmptySet
  <2> QED
    BY <2>1, <2>2, <2>3 DEF Claims
<1>13. BondMatchesExposure'
  BY <1>2, <1>3, <1>4 DEF BondMatchesExposure, requiredBond
<1>14. FaceIsConserved'
  BY <1>1 DEF VaultInv, FaceIsConserved, remainingFace
<1>15. AccountingHolds'
  <2>1. (bondLocked + bondReturned + entitlementAllocated = initialBond)'
    BY <1>1, <1>2, <1>4, <1>5, Numbers, Amounts DEF VaultInv, AccountingHolds
  <2>2. (cash = accountedSettlementBalance)'
    BY <1>1, <1>4, <1>5, Numbers, Amounts DEF accountedSettlementBalance
  <2>3. (entitlementClaimed <= entitlementAllocated /\
         entitlementClaimedUnits <= entitlementSnapshotSupply)'
    BY <1>1, <1>4, <1>5, <1>6, Numbers, Amounts
  <2> QED
    BY <1>1, <1>2, <2>1, <2>2, <2>3 DEF VaultInv, AccountingHolds, unitsOf
<1> QED
  BY <1>7, <1>8, <1>9, <1>10, <1>11, <1>12, <1>13, <1>14, <1>15 DEF VaultInv

\* fundRedemption: the escrow grows by what the vault receives, up to what
\* is still owed.
LEMMA FundRedemption ==
  ASSUME VaultInv, NEW caller \in Accounts, NEW amount \in 0..faceValue,
         fundRedemption(caller, amount)
  PROVE  VaultInv'
<1> USE DEF envVars, stateVars, pledgeVars, unitVars, cvaVars, bondVars, entitlementVars, creditVars
<1>1. UNCHANGED <<envVars, stateVars, authorizedOriginator, pledgeVars, unitVars, cvaVars, bondVars,
                  entitlementVars, redeemedFace, cvaReleasedFace, defaultCvaReleaseStarted,
                  creditVars>>
  BY DEF fundRedemption
<1>2. redemptionEscrow' = redemptionEscrow + amount /\ cash' = cash + amount
      /\ amount <= faceValue - redeemedFace - cvaReleasedFace - redemptionEscrow
  BY DEF fundRedemption, remainingFace
<1>3. TypeOK'
  <2>1. redemptionEscrow' \in 0..faceValue /\ cash' \in Nat
    BY <1>2, Numbers, Amounts
  <2> QED
    BY <1>1, <2>1 DEF VaultInv, TypeOK
<1>4. Issuance' /\ Snapshot'
  BY <1>1 DEF VaultInv, Issuance, Snapshot
<1>5. History'
  BY <1>1, HistoryKept DEF VaultInv
<1>6. Shares'
  BY <1>1 DEF VaultInv, Shares, totalSupplyAt
<1>7. Claims'
  <2>1. balancesAt(entitlementSnapshotSequence)' = balancesAt(entitlementSnapshotSequence)
    BY <1>1 DEF balancesAt, balanceAt
  <2>2. shareOf' = shareOf
    BY <1>1, <2>1 DEF shareOf
  <2> QED
    BY <1>1, <2>1, <2>2 DEF VaultInv, Claims
<1>8. BondMatchesExposure'
  BY <1>1 DEF VaultInv, BondMatchesExposure, totalSupplyAt
<1>9. FaceIsConserved'
  <2>1. (redemptionEscrow <= remainingFace)'
    BY <1>1, <1>2, Numbers, Amounts DEF remainingFace
  <2> QED
    BY <1>1, <2>1 DEF VaultInv, FaceIsConserved, remainingFace
<1>10. AccountingHolds'
  <2>1. (cash = accountedSettlementBalance)'
    BY <1>1, <1>2, Numbers, Amounts DEF accountedSettlementBalance
  <2> QED
    BY <1>1, <2>1 DEF VaultInv, AccountingHolds, unitsOf
<1> QED
  BY <1>3, <1>4, <1>5, <1>6, <1>7, <1>8, <1>9, <1>10 DEF VaultInv

\* claimSettlementCredit: the credit paid leaves the total and the vault.
LEMMA ClaimSettlementCredit ==
  ASSUME VaultInv, NEW caller \in Accounts, claimSettlementCredit(caller)
  PROVE  VaultInv'
<1> USE DEF envVars, stateVars, pledgeVars, unitVars, cvaVars, bondVars, entitlementVars,
        redemptionVars
<1>1. UNCHANGED <<envVars, stateVars, authorizedOriginator, pledgeVars, unitVars, cvaVars, bondVars,
                  entitlementVars, redemptionVars>>
  BY DEF claimSettlementCredit
<1> PICK amount : amount = settlementCredit[caller]
  OBVIOUS
<1>2. amount # 0 /\ settlementCredit' = [settlementCredit EXCEPT ![caller] = 0]
      /\ settlementCreditTotal' = settlementCreditTotal - amount /\ cash' = cash - amount
  BY DEF claimSettlementCredit
<1>3. /\ settlementCredit \in [Accounts -> Nat] /\ settlementCreditTotal \in Nat
      /\ settlementCreditTotal = settlementCredit[buyer] + settlementCredit[originatorTreasury]
      /\ \A a \in Accounts \ {buyer, originatorTreasury} : settlementCredit[a] = 0
  BY DEF VaultInv, TypeOK, AccountingHolds
<1>4. buyer \in Accounts /\ originatorTreasury \in Accounts /\ buyer # originatorTreasury
  BY VaultAssumption
<1>5. amount \in Nat /\ caller \in {buyer, originatorTreasury}
  BY <1>2, <1>3
<1>6. /\ settlementCredit' \in [Accounts -> Nat] /\ settlementCreditTotal' \in Nat
      /\ settlementCreditTotal' = settlementCredit'[buyer] + settlementCredit'[originatorTreasury]
      /\ \A a \in Accounts \ {buyer, originatorTreasury} : settlementCredit'[a] = 0
  BY <1>2, <1>3, <1>4, <1>5
<1>7. entitlementClaimed <= entitlementAllocated /\ amount <= settlementCreditTotal
  BY <1>2, <1>3, <1>4, <1>5, <1>6 DEF VaultInv, AccountingHolds
<1>8. TypeOK'
  <2>1. cash' \in Nat
    BY <1>2, <1>5, <1>7, Numbers, Amounts
  <2> QED
    BY <1>1, <1>6, <2>1 DEF VaultInv, TypeOK
<1>9. Issuance' /\ Snapshot'
  BY <1>1 DEF VaultInv, Issuance, Snapshot
<1>10. History'
  BY <1>1, HistoryKept DEF VaultInv
<1>11. Shares'
  BY <1>1 DEF VaultInv, Shares, totalSupplyAt
<1>12. Claims'
  <2>1. balancesAt(entitlementSnapshotSequence)' = balancesAt(entitlementSnapshotSequence)
    BY <1>1 DEF balancesAt, balanceAt
  <2>2. shareOf' = shareOf
    BY <1>1, <2>1 DEF shareOf
  <2> QED
    BY <1>1, <2>1, <2>2 DEF VaultInv, Claims
<1>13. BondMatchesExposure'
  BY <1>1 DEF VaultInv, BondMatchesExposure, totalSupplyAt
<1>14. FaceIsConserved'
  BY <1>1 DEF VaultInv, FaceIsConserved, remainingFace
<1>15. AccountingHolds'
  <2>1. (cash = accountedSettlementBalance)'
    BY <1>1, <1>2, <1>5, Numbers, Amounts DEF accountedSettlementBalance
  <2> QED
    BY <1>1, <1>6, <2>1 DEF VaultInv, AccountingHolds, unitsOf
<1> QED
  BY <1>8, <1>9, <1>10, <1>11, <1>12, <1>13, <1>14, <1>15 DEF VaultInv

\* closeProtection: the rest of the bond goes back.
LEMMA CloseProtection ==
  ASSUME VaultInv, closeProtection
  PROVE  VaultInv'
<1> USE DEF envVars, pledgeVars, unitVars, cvaVars, entitlementVars, redemptionVars
<1>1. UNCHANGED <<envVars, pendingConflict, authorizedOriginator, pledgeVars, unitVars, cvaVars,
                  entitlementVars, redemptionVars, cash>>
  BY DEF closeProtection
<1>2. protectionState = "Active" /\ protectionState' = "Released"
      /\ receivableState' = IF totalSupply # 0 THEN "DefaultOutstanding" ELSE "Redeemed"
  BY DEF closeProtection
<1>3. bondLocked' = 0 /\ bondReturned' = bondReturned + bondLocked
  BY Numbers, Amounts DEF closeProtection, returnBond
<1>4. bondLocked \in Nat
  BY Numbers, Amounts
<1>5. /\ settlementCredit' \in [Accounts -> Nat] /\ settlementCreditTotal' \in Nat
      /\ settlementCreditTotal' = settlementCreditTotal + 0 + bondLocked
      /\ settlementCreditTotal' = settlementCredit'[buyer] + settlementCredit'[originatorTreasury]
      /\ \A a \in Accounts \ {buyer, originatorTreasury} : settlementCredit'[a] = 0
  <2> PICK bond \in Nat : bond = bondLocked
    BY <1>4
  <2>1. creditSettlement(0, bond)
    BY DEF closeProtection
  <2> QED
    BY <2>1, Credited
<1>6. bondLocked + bondReturned + entitlementAllocated = initialBond /\ entitlementAllocated = 0
      /\ entitlementClaimed = 0
  BY <1>2 DEF VaultInv, AccountingHolds, Shares
<1>7. TypeOK'
  <2>1. bondLocked' \in 0..initialBond /\ bondReturned' \in 0..initialBond
    BY <1>3, <1>6, Numbers, Amounts
  <2>2. protectionState' \in ProtectionStates /\ receivableState' \in ReceivableStates
    BY <1>2 DEF ProtectionStates, ReceivableStates
  <2> QED
    BY <1>1, <1>5, <2>1, <2>2 DEF VaultInv, TypeOK
<1>8. Issuance'
  BY <1>1, <1>2 DEF VaultInv, Issuance
<1>9. History'
  BY <1>1, HistoryKept DEF VaultInv
<1>10. Snapshot' /\ Shares' /\ Claims'
  BY <1>1, <1>2 DEF VaultInv, Snapshot, Shares, Claims
<1>11. BondMatchesExposure'
  BY <1>2, <1>3 DEF BondMatchesExposure
<1>12. FaceIsConserved'
  <2>1. totalSupply = 0 => remainingFace = 0
    BY <1>2 DEF VaultInv, TypeOK, ReceivableStates, Issuance, FaceIsConserved
  <2> QED
    BY <1>1, <1>2, <2>1 DEF VaultInv, FaceIsConserved, remainingFace
<1>13. AccountingHolds'
  <2>1. (bondLocked + bondReturned + entitlementAllocated = initialBond)'
    BY <1>1, <1>3, <1>6, Numbers, Amounts
  <2>2. (cash = accountedSettlementBalance)'
    BY <1>1, <1>3, <1>5, <1>6, Numbers, Amounts DEF accountedSettlementBalance
  <2> QED
    BY <1>1, <1>2, <1>5, <2>1, <2>2 DEF VaultInv, AccountingHolds, unitsOf
<1> QED
  BY <1>7, <1>8, <1>9, <1>10, <1>11, <1>12, <1>13 DEF VaultInv

\* markDefault changes the receivable's state only.
LEMMA MarkDefault ==
  ASSUME VaultInv, markDefault
  PROVE  VaultInv'
<1> USE DEF envVars, pledgeVars, unitVars, cvaVars, moneyVars, bondVars, entitlementVars,
        redemptionVars, creditVars
<1>1. UNCHANGED <<envVars, protectionState, pendingConflict, authorizedOriginator, pledgeVars,
                  unitVars, cvaVars, moneyVars>>
  BY DEF markDefault
<1>2. receivableState = "Outstanding" /\ receivableState' = "DefaultOutstanding"
      /\ protectionState = "Entitled"
  BY DEF markDefault
<1>3. TypeOK'
  <2>1. receivableState' \in ReceivableStates
    BY <1>2 DEF ReceivableStates
  <2> QED
    BY <1>1, <2>1 DEF VaultInv, TypeOK
<1>4. Issuance' /\ Snapshot'
  BY <1>1, <1>2 DEF VaultInv, Issuance, Snapshot
<1>5. History'
  BY <1>1, HistoryKept DEF VaultInv
<1>6. Shares'
  BY <1>1 DEF VaultInv, Shares, totalSupplyAt
<1>7. Claims'
  <2>1. balancesAt(entitlementSnapshotSequence)' = balancesAt(entitlementSnapshotSequence)
    BY <1>1 DEF balancesAt, balanceAt
  <2>2. shareOf' = shareOf
    BY <1>1, <2>1 DEF shareOf
  <2> QED
    BY <1>1, <2>1, <2>2 DEF VaultInv, Claims
<1>8. BondMatchesExposure'
  BY <1>1 DEF VaultInv, BondMatchesExposure, totalSupplyAt
<1>9. FaceIsConserved'
  BY <1>1, <1>2 DEF VaultInv, FaceIsConserved, remainingFace
<1>10. AccountingHolds'
  BY <1>1 DEF VaultInv, AccountingHolds, unitsOf, accountedSettlementBalance
<1> QED
  BY <1>3, <1>4, <1>5, <1>6, <1>7, <1>8, <1>9, <1>10 DEF VaultInv

\* A rounded share is at most the whole.
LEMMA ShareAtMost ==
  ASSUME NEW a \in Nat, NEW c \in Nat \ {0}, NEW u \in 0..c
  PROVE  mulDiv(a, u, c) \in 0..a
<1>1. u \in Nat /\ c \in Nat /\ u <= c
  OBVIOUS
<1>2. mulDiv(a, u, c) \in Nat /\ mulDiv(a, u, c) <= mulDiv(a, c, c) /\ mulDiv(a, c, c) = a
  BY <1>1, ShareBounds
<1> QED
  BY <1>2

\* The recorded balances are numbers of units, and no more of them
\* together than the recorded supply.
LEMMA RecordedBalances ==
  ASSUME VaultInv, NEW q \in 0..sequence
  PROVE  /\ balancesAt(q) \in [Accounts -> 0..initialUnits]
         /\ totalSupplyAt(q) = Cardinality(piles(Accounts, initialUnits, balancesAt(q)))
<1>1. q \in Nat /\ sequence \in Nat
  BY Numbers, Amounts
<1>2. ASSUME NEW a \in Accounts
      PROVE  balanceAt(a, q) \in 0..initialUnits
  <2>1. balanceCheckpoints[a] \in Seq(Checkpoint) /\ Ordered(balanceCheckpoints[a], sequence)
    BY DEF VaultInv, TypeOK, History
  <2> QED
    BY <1>1, <2>1, LookupRange DEF balanceAt
<1>3. balancesAt(q) \in [Accounts -> 0..initialUnits]
  BY <1>2 DEF balancesAt
<1>4. unitsOf(balancesAt(q)) = piles(Accounts, initialUnits, balancesAt(q))
  BY DEF unitsOf, piles
<1> QED
  BY <1>3, <1>4 DEF VaultInv, History

\* No record-date holder who has not claimed is crowded out by the claims
\* already made.
LEMMA ClaimFits ==
  ASSUME VaultInv, protectionState = "Entitled", NEW a \in Accounts \ bondClaimedBy
  PROVE  entitlementClaimedUnits + balanceAt(a, entitlementSnapshotSequence)
            <= entitlementSnapshotSupply
<1> DEFINE f == balancesAt(entitlementSnapshotSequence)
           S == bondClaimedBy
<1>1. entitlementSnapshotSequence \in 0..sequence
  BY Numbers, Amounts DEF VaultInv, TypeOK, Shares
<1>2. f \in [Accounts -> 0..initialUnits]
      /\ entitlementSnapshotSupply = Cardinality(piles(Accounts, initialUnits, f))
  BY <1>1, RecordedBalances DEF VaultInv, Shares
<1>3. entitlementClaimedUnits = Cardinality(piles(S, initialUnits, f))
  BY DEF VaultInv, Claims
<1>4. f[a] = balanceAt(a, entitlementSnapshotSequence)
  BY DEF balancesAt
<1>5. S \subseteq Accounts /\ IsFiniteSet(Accounts)
  BY VaultAssumption DEF VaultInv, TypeOK
<1> HIDE DEF f, S
<1>6. IsFiniteSet(S)
  BY <1>5, FS_Subset
<1>7. f[a] \in 0..initialUnits /\ a \notin S
  BY <1>2 DEF S
<1>8. Cardinality(piles(S \cup {a}, initialUnits, f)) = Cardinality(piles(S, initialUnits, f)) + f[a]
  BY <1>6, <1>7, Amounts, PilesAdd
<1>9. piles(S \cup {a}, initialUnits, f) \in SUBSET piles(Accounts, initialUnits, f)
  BY <1>5 DEF piles
<1>10. IsFiniteSet(piles(Accounts, initialUnits, f))
  BY <1>5, Amounts, PilesFinite
<1>11. Cardinality(piles(S \cup {a}, initialUnits, f)) <= Cardinality(piles(Accounts, initialUnits, f))
  BY <1>9, <1>10, FS_Subset
<1> QED
  BY <1>2, <1>3, <1>4, <1>8, <1>11

\* claimBond: a share by the record date, the last one the rest.
LEMMA ClaimBond ==
  ASSUME VaultInv, NEW caller \in Accounts, claimBond(caller)
  PROVE  VaultInv'
<1> USE DEF envVars, stateVars, pledgeVars, unitVars, cvaVars, bondVars, redemptionVars, creditVars
<1>1. UNCHANGED <<envVars, stateVars, authorizedOriginator, pledgeVars, unitVars, cvaVars, bondVars,
                  entitlementAllocated, entitlementSnapshotSequence, entitlementSnapshotSupply,
                  redemptionVars, creditVars>>
  BY DEF claimBond
<1> PICK units : units = balanceAt(caller, entitlementSnapshotSequence)
  OBVIOUS
<1> PICK amount : amount = claimAmount(units)
  OBVIOUS
<1>2. /\ mayClaimBond(caller, units)
      /\ bondClaimedBy' = bondClaimedBy \cup {caller}
      /\ entitlementClaimedUnits' = entitlementClaimedUnits + units
      /\ entitlementClaimed' = entitlementClaimed + amount
      /\ cash' = cash - amount
  BY DEF claimBond
<1>3. protectionState = "Entitled" /\ caller \notin bondClaimedBy /\ units # 0
      /\ entitlementClaimedUnits + units <= entitlementSnapshotSupply
  BY <1>2 DEF mayClaimBond
<1> DEFINE A == entitlementAllocated
           C == entitlementSnapshotSupply
           n == entitlementClaimedUnits
           f == balancesAt(entitlementSnapshotSequence)
<1>4. A \in 0..initialBond /\ n \in 0..initialUnits /\ C \in 0..initialUnits /\ C # 0
      /\ entitlementClaimed \in 0..initialBond
      /\ entitlementSnapshotSequence \in 0..sequence
      /\ entitlementSnapshotSupply = totalSupplyAt(entitlementSnapshotSequence)
  BY <1>3, Numbers, Amounts DEF VaultInv, TypeOK, Shares
<1>5. f \in [Accounts -> 0..initialUnits] /\ f[caller] = units
  BY <1>4, RecordedBalances DEF balancesAt
<1>6. units \in 1..initialUnits
  BY <1>3, <1>5, Amounts
<1>7. n # C /\ entitlementClaimed <= mulDiv(A, n, C)
  BY <1>3, <1>4, <1>6, Amounts DEF VaultInv, Shares
<1>8. amount = IF n + units = C THEN A - entitlementClaimed ELSE mulDiv(A, units, C)
  BY DEF claimAmount
<1> HIDE DEF A, C, n, f
<1>9. A \in Nat /\ C \in Nat \ {0} /\ n \in Nat /\ units \in Nat /\ n + units \in 0..C
  BY <1>3, <1>4, <1>6, Amounts DEF n, C
<1>10. mulDiv(A, n, C) \in Nat /\ mulDiv(A, units, C) \in Nat
       /\ mulDiv(A, n, C) + mulDiv(A, units, C) <= mulDiv(A, n + units, C)
  BY <1>9, ShareBounds
<1>11. mulDiv(A, n + units, C) \in 0..A
  BY <1>9, ShareAtMost
<1>12. amount \in Nat /\ entitlementClaimed + amount <= A
       /\ IF n + units = C THEN entitlementClaimed + amount = A
          ELSE entitlementClaimed + amount <= mulDiv(A, n + units, C)
  <2>1. entitlementClaimed \in Nat /\ mulDiv(A, n, C) <= A
    BY <1>4, <1>9, <1>10, <1>11, Amounts
  <2>2. CASE n + units = C
    BY <1>7, <1>8, <1>9, <2>1, <1>10, <2>2
  <2>3. CASE n + units # C
    BY <1>7, <1>8, <1>9, <1>10, <1>11, <2>1, <2>3
  <2> QED
    BY <2>2, <2>3
<1>13. TypeOK'
  <2>1. entitlementClaimedUnits' \in 0..initialUnits
    BY <1>2, <1>4, <1>9, Amounts DEF n, C
  <2>2. entitlementClaimed' \in 0..initialBond
    BY <1>2, <1>4, <1>12, Amounts
  <2>3. cash' \in Nat
    BY <1>2, <1>4, <1>12, Numbers, Amounts DEF A
  <2>4. bondClaimedBy' \subseteq Accounts
    BY <1>2 DEF VaultInv, TypeOK
  <2> QED
    BY <1>1, <2>1, <2>2, <2>3, <2>4 DEF VaultInv, TypeOK
<1>14. Issuance' /\ Snapshot'
  BY <1>1 DEF VaultInv, Issuance, Snapshot
<1>15. History'
  BY <1>1, HistoryKept DEF VaultInv
<1>16. Shares'
  <2>1. entitlementClaimedUnits' = n + units /\ entitlementSnapshotSupply' = C
        /\ entitlementAllocated' = A /\ entitlementClaimed' = entitlementClaimed + amount
    BY <1>1, <1>2 DEF n, C, A
  <2>2. (entitlementSnapshotSupply = totalSupplyAt(entitlementSnapshotSequence)
         /\ entitlementSnapshotSequence <= sequence /\ entitlementSnapshotSupply # 0)'
    BY <1>1, <1>3 DEF VaultInv, Shares, totalSupplyAt
  <2> QED
    BY <1>1, <1>3, <1>12, <2>1, <2>2 DEF Shares
<1>17. Claims'
  <2>1. balancesAt(entitlementSnapshotSequence)' = f
    BY <1>1 DEF balancesAt, balanceAt, f
  <2>2. shareOf' = shareOf
    BY <1>1, <2>1 DEF shareOf, f
  <2> DEFINE S == bondClaimedBy
             g == shareOf
  <2>3. IsFiniteSet(S) /\ caller \notin S
    <3>1. S \subseteq Accounts /\ IsFiniteSet(Accounts)
      BY VaultAssumption DEF VaultInv, TypeOK
    <3> QED
      BY <1>3, <3>1, FS_Subset
  <2>4. g[caller] = mulDiv(A, units, C)
    BY <1>5 DEF shareOf, A, C, f
  <2>5. mulDiv(A, units, C) \in 0..initialBond
    <3>1. mulDiv(A, units, C) \in Nat /\ mulDiv(A, units, C) <= A
      BY <1>9, <1>10, <1>11
    <3> QED
      BY <1>4, <1>9, <3>1, Amounts
  <2>6. n = Cardinality(piles(S, initialUnits, f))
        /\ entitlementClaimed = Cardinality(piles(S, initialBond, g))
    BY <1>3, <1>7 DEF VaultInv, Claims, n, C, f
  <2> HIDE DEF S, g
  <2>7. Cardinality(piles(S \cup {caller}, initialUnits, f)) = n + units
    <3>1. f[caller] \in 0..initialUnits
      BY <1>5
    <3> QED
      BY <1>5, <2>3, <2>6, <3>1, Amounts, PilesAdd
  <2>8. Cardinality(piles(S \cup {caller}, initialBond, g)) = entitlementClaimed + mulDiv(A, units, C)
    <3>1. g[caller] \in 0..initialBond
      BY <2>4, <2>5
    <3>2. Cardinality(piles(S \cup {caller}, initialBond, g)) =
                Cardinality(piles(S, initialBond, g)) + g[caller]
      BY <2>3, <3>1, Amounts, PilesAdd
    <3> QED
      BY <2>4, <2>6, <3>2
  <2>9. entitlementClaimedUnits' = Cardinality(piles(bondClaimedBy, initialUnits,
                                        balancesAt(entitlementSnapshotSequence)))'
    BY <1>2, <2>1, <2>7 DEF S, n
  <2>10. ASSUME entitlementClaimedUnits' # entitlementSnapshotSupply'
         PROVE  entitlementClaimed' = Cardinality(piles(bondClaimedBy, initialBond, shareOf))'
    <3>1. n + units # C
      BY <1>1, <1>2, <2>10 DEF n, C
    <3>2. entitlementClaimed' = entitlementClaimed + mulDiv(A, units, C)
      BY <1>2, <1>8, <3>1
    <3> QED
      BY <1>2, <2>2, <2>8, <3>2 DEF S, g
  <2> QED
    BY <2>9, <2>10 DEF Claims
<1>18. BondMatchesExposure'
  BY <1>1 DEF VaultInv, BondMatchesExposure, totalSupplyAt
<1>19. FaceIsConserved'
  BY <1>1 DEF VaultInv, FaceIsConserved, remainingFace
<1>20. AccountingHolds'
  <2>1. (cash = accountedSettlementBalance)'
    BY <1>1, <1>2, <1>4, <1>12, Numbers, Amounts DEF accountedSettlementBalance
  <2>2. (entitlementClaimed <= entitlementAllocated
         /\ entitlementClaimedUnits <= entitlementSnapshotSupply)'
    BY <1>1, <1>2, <1>3, <1>12 DEF A
  <2> QED
    BY <1>1, <2>1, <2>2 DEF VaultInv, AccountingHolds, unitsOf
<1> QED
  BY <1>13, <1>14, <1>15, <1>16, <1>17, <1>18, <1>19, <1>20 DEF VaultInv

\* _update writes the next sequence number: the new history is ordered and
\* adds up, and the old one is still found.
LEMMA UnitsMoved ==
  ASSUME VaultInv, NEW touched \in SUBSET Accounts, NEW balances \in [Accounts -> 0..initialUnits],
         NEW supply \in 0..initialUnits, recordBalances(touched, balances, supply),
         \A a \in Accounts \ touched : balances[a] = balanceOf[a],
         supply = Cardinality(unitsOf(balances))
  PROVE  /\ sequence' \in 0..MaxSequence /\ sequence' = sequence + 1
         /\ balanceOf' \in [Accounts -> 0..initialUnits] /\ totalSupply' \in 0..initialUnits
         /\ balanceCheckpoints' \in [Accounts -> Seq(Checkpoint)]
         /\ supplyCheckpoints' \in Seq(Checkpoint)
         /\ History'
         /\ \A q \in 0..sequence : totalSupplyAt(q)' = totalSupplyAt(q)
         /\ \A q \in 0..sequence : balancesAt(q)' = balancesAt(q)
<1>1. /\ sequence < MaxSequence /\ sequence' = sequence + 1
      /\ balanceOf' = balances /\ totalSupply' = supply
      /\ supplyCheckpoints' = writeCheckpoint(supplyCheckpoints, sequence + 1, supply)
  BY DEF recordBalances
<1>2. balanceCheckpoints' = [a \in Accounts |->
            IF a \in touched
            THEN writeCheckpoint(balanceCheckpoints[a], sequence + 1, balances[a])
            ELSE balanceCheckpoints[a]]
  BY DEF recordBalances
<1>3. sequence \in 0..(MaxSequence - 1) /\ sequence \in Nat /\ sequence' \in 0..MaxSequence
  BY <1>1, Numbers, Amounts
<1>4. /\ supplyCheckpoints' \in Seq(Checkpoint)
      /\ Ordered(supplyCheckpoints', sequence + 1)
      /\ lookup(supplyCheckpoints', sequence + 1) = supply
      /\ \A q \in 0..sequence : lookup(supplyCheckpoints', q) = lookup(supplyCheckpoints, q)
  <2>1. supplyCheckpoints \in Seq(Checkpoint) /\ Ordered(supplyCheckpoints, sequence)
    BY DEF VaultInv, TypeOK, History
  <2> QED
    BY <1>1, <1>3, <2>1, CheckpointWritten
<1>5. ASSUME NEW a \in Accounts
      PROVE  /\ balanceCheckpoints'[a] \in Seq(Checkpoint)
             /\ Ordered(balanceCheckpoints'[a], sequence + 1)
             /\ lookup(balanceCheckpoints'[a], sequence + 1) = balances[a]
             /\ \A q \in 0..sequence :
                    lookup(balanceCheckpoints'[a], q) = lookup(balanceCheckpoints[a], q)
  <2>1. balanceCheckpoints[a] \in Seq(Checkpoint) /\ Ordered(balanceCheckpoints[a], sequence)
        /\ lookup(balanceCheckpoints[a], sequence) = balanceOf[a]
    BY DEF VaultInv, TypeOK, History, balanceAt
  <2>2. CASE a \in touched
    <3>1. balances[a] \in 0..initialUnits
      OBVIOUS
    <3>2. balanceCheckpoints'[a] = writeCheckpoint(balanceCheckpoints[a], sequence + 1, balances[a])
      BY <1>2, <2>2
    <3> QED
      BY <1>3, <2>1, <3>1, <3>2, CheckpointWritten
  <2>3. CASE a \notin touched
    <3>1. balanceCheckpoints'[a] = balanceCheckpoints[a] /\ balances[a] = balanceOf[a]
      BY <1>2, <2>3
    <3>2. Ordered(balanceCheckpoints[a], sequence + 1)
          /\ lookup(balanceCheckpoints[a], sequence + 1) = lookup(balanceCheckpoints[a], sequence)
      BY <1>3, <2>1, CheckpointsKept
    <3> QED
      BY <2>1, <3>1, <3>2
  <2> QED
    BY <2>2, <2>3
<1>6. balanceCheckpoints' \in [Accounts -> Seq(Checkpoint)]
  BY <1>2, <1>5
<1>7. \A q \in 0..sequence : totalSupplyAt(q)' = totalSupplyAt(q)
  BY <1>4 DEF totalSupplyAt
<1>8. \A q \in 0..sequence : balancesAt(q)' = balancesAt(q)
  BY <1>5 DEF balancesAt, balanceAt
<1> PICK next : next = sequence + 1
  OBVIOUS
<1>9. balancesAt(next)' = balances
  <2>1. \A a \in Accounts : balancesAt(next)'[a] = balances[a]
    BY <1>5 DEF balancesAt, balanceAt
  <2>2. balancesAt(next)' = [a \in Accounts |-> balancesAt(next)'[a]]
    BY DEF balancesAt
  <2> QED
    BY <2>1, <2>2
<1>10. History'
  <2>1. \A q : unitsOf(balancesAt(q))' = unitsOf(balancesAt(q)')
    BY DEF unitsOf
  <2>2. ASSUME NEW q \in 0..sequence'
        PROVE  totalSupplyAt(q)' = Cardinality(unitsOf(balancesAt(q)))'
    <3>1. CASE q \in 0..sequence
      BY <1>7, <1>8, <2>1, <3>1 DEF VaultInv, History
    <3>2. CASE q = next
      BY <1>4, <1>9, <2>1, <3>2 DEF totalSupplyAt
    <3> QED
      BY <1>1, <1>3, <3>1, <3>2
  <2>3. (\A a \in Accounts : Ordered(balanceCheckpoints[a], sequence))'
        /\ Ordered(supplyCheckpoints, sequence)'
    BY <1>1, <1>4, <1>5 DEF Ordered
  <2>4. (\A a \in Accounts : balanceAt(a, sequence) = balanceOf[a])'
    BY <1>1, <1>5 DEF balanceAt
  <2>5. (totalSupplyAt(sequence) = totalSupply)'
    BY <1>1, <1>4 DEF totalSupplyAt
  <2> QED
    BY <2>2, <2>3, <2>4, <2>5 DEF History
<1> QED
  BY <1>1, <1>3, <1>4, <1>6, <1>7, <1>8, <1>10

\* What depends on the history only at a sequence number in the past.
LEMMA RecordDateKept ==
  ASSUME VaultInv,
         UNCHANGED <<entitlementAllocated, entitlementClaimed, entitlementClaimedUnits,
                     entitlementSnapshotSequence, entitlementSnapshotSupply, bondClaimedBy>>,
         protectionState' = protectionState
            \/ (protectionState # "Entitled" /\ protectionState' # "Entitled"),
         sequence' = sequence + 1,
         \A q \in 0..sequence : totalSupplyAt(q)' = totalSupplyAt(q),
         \A q \in 0..sequence : balancesAt(q)' = balancesAt(q)
  PROVE  Shares' /\ Claims'
<1>1. CASE protectionState # "Entitled"
  BY <1>1 DEF VaultInv, Shares, Claims
<1>2. CASE protectionState = "Entitled"
  <2>0. PICK q : q = entitlementSnapshotSequence
    OBVIOUS
  <2>1. q \in 0..sequence /\ sequence \in Nat
    BY <1>2, <2>0, Numbers, Amounts DEF VaultInv, TypeOK, Shares
  <2>2. totalSupplyAt(entitlementSnapshotSequence)' = totalSupplyAt(entitlementSnapshotSequence)
    <3>1. totalSupplyAt(q)' = totalSupplyAt(q)
      BY <2>1
    <3> QED
      BY <2>0, <3>1 DEF totalSupplyAt
  <2>3. balancesAt(entitlementSnapshotSequence)' = balancesAt(entitlementSnapshotSequence)
    <3>1. balancesAt(q)' = balancesAt(q)
      BY <2>1
    <3> QED
      BY <2>0, <3>1 DEF balancesAt, balanceAt
  <2>4. shareOf' = shareOf
    BY <2>3 DEF shareOf
  <2>5. Shares'
    BY <1>2, <2>0, <2>1, <2>2 DEF VaultInv, Shares
  <2>6. Claims'
    BY <1>2, <2>3, <2>4 DEF VaultInv, Claims
  <2> QED
    BY <2>5, <2>6
<1> QED
  BY <1>1, <1>2

\* The same of a pending conflict's snapshot.
LEMMA SnapshotKept ==
  ASSUME VaultInv, UNCHANGED <<pendingConflict, bondLocked>>, protectionState' = protectionState,
         protectionState \in {"CommitPending", "ConflictConfirmed"},
         sequence' = sequence + 1, totalSupply' <= totalSupply, totalSupply' \in 0..initialUnits,
         \A q \in 0..sequence : totalSupplyAt(q)' = totalSupplyAt(q)
  PROVE  Snapshot' /\ BondMatchesExposure'
<1>0. PICK q : q = pendingConflict.snapshotSequence
  OBVIOUS
<1>1. pendingConflict.snapshotSupply \in 0..initialUnits
      /\ pendingConflict.snapshotSequence \in 0..MaxSequence
      /\ sequence \in Nat /\ totalSupply \in 0..initialUnits
  BY Numbers, Amounts DEF Conflict
<1>2. /\ pendingConflict.snapshotSupply # 0
      /\ totalSupply <= pendingConflict.snapshotSupply
      /\ pendingConflict.snapshotSequence <= sequence
      /\ bondLocked = pendingConflict.snapshotBond
      /\ bondLocked = requiredBond(pendingConflict.snapshotSupply)
      /\ pendingConflict.snapshotSupply = totalSupplyAt(pendingConflict.snapshotSequence)
  BY DEF VaultInv, Snapshot, BondMatchesExposure
<1>3. q \in 0..sequence
  BY <1>0, <1>1, <1>2, Amounts
<1>4. totalSupplyAt(pendingConflict.snapshotSequence)' =
        totalSupplyAt(pendingConflict.snapshotSequence)
  <2>1. totalSupplyAt(q)' = totalSupplyAt(q)
    BY <1>3
  <2> QED
    BY <1>0, <2>1 DEF totalSupplyAt
<1>5. Snapshot'
  BY <1>1, <1>2, Amounts DEF Snapshot
<1>6. BondMatchesExposure'
  BY <1>2, <1>4 DEF BondMatchesExposure, requiredBond
<1> QED
  BY <1>5, <1>6

\* The units in circulation, as piles.
LEMMA UnitsArePiles ==
  ASSUME VaultInv
  PROVE  /\ IsFiniteSet(Accounts) /\ balanceOf \in [Accounts -> 0..initialUnits]
         /\ totalSupply = Cardinality(piles(Accounts, initialUnits, balanceOf))
         /\ \A f : unitsOf(f) = piles(Accounts, initialUnits, f)
<1>1. \A f : unitsOf(f) = piles(Accounts, initialUnits, f)
  BY DEF unitsOf, piles
<1> QED
  BY <1>1, VaultAssumption DEF VaultInv, TypeOK, AccountingHolds

\* Burning units of one holder takes them from the supply.
LEMMA UnitsBurned ==
  ASSUME VaultInv, NEW holder \in Accounts, NEW units \in 1..initialUnits,
         units <= balanceOf[holder], burnUnits(holder, units)
  PROVE  /\ units <= totalSupply /\ totalSupply' = totalSupply - units
         /\ totalSupply' = Cardinality(unitsOf(balanceOf))'
         /\ sequence' \in 0..MaxSequence /\ sequence' = sequence + 1
         /\ balanceOf' \in [Accounts -> 0..initialUnits] /\ totalSupply' \in 0..initialUnits
         /\ balanceCheckpoints' \in [Accounts -> Seq(Checkpoint)]
         /\ supplyCheckpoints' \in Seq(Checkpoint)
         /\ History'
         /\ \A q \in 0..sequence : totalSupplyAt(q)' = totalSupplyAt(q)
         /\ \A q \in 0..sequence : balancesAt(q)' = balancesAt(q)
<1> DEFINE balances == [balanceOf EXCEPT ![holder] = @ - units]
           supply == totalSupply - units
<1>1. recordBalances({holder}, balances, supply)
  BY DEF burnUnits
<1>2. balanceOf[holder] \in 0..initialUnits /\ balances \in [Accounts -> 0..initialUnits]
      /\ balances[holder] = balanceOf[holder] - units
      /\ \A a \in Accounts \ {holder} : balanceOf[a] = balances[a]
  BY UnitsArePiles, Amounts
<1>3. balances[holder] \in 0..initialUnits
  BY <1>2
<1>4. balanceOf' = balances /\ totalSupply' = supply
  BY <1>1 DEF recordBalances
<1> HIDE DEF balances
<1>5. Cardinality(piles(Accounts, initialUnits, balances)) =
            Cardinality(piles(Accounts, initialUnits, balanceOf)) - balanceOf[holder] + balances[holder]
      /\ balanceOf[holder] <= Cardinality(piles(Accounts, initialUnits, balanceOf))
  BY <1>2, <1>3, UnitsArePiles, Amounts, PilesChange
<1>6. units <= totalSupply /\ supply \in 0..initialUnits
      /\ supply = Cardinality(piles(Accounts, initialUnits, balances))
  BY <1>2, <1>3, <1>5, UnitsArePiles, Numbers, Amounts
<1>7. unitsOf(balances) = piles(Accounts, initialUnits, balances)
  BY UnitsArePiles
<1>8. unitsOf(balanceOf)' = unitsOf(balances)
  BY <1>4 DEF unitsOf
<1> HIDE DEF supply
<1>9. /\ sequence' \in 0..MaxSequence /\ sequence' = sequence + 1
      /\ balanceOf' \in [Accounts -> 0..initialUnits] /\ totalSupply' \in 0..initialUnits
      /\ balanceCheckpoints' \in [Accounts -> Seq(Checkpoint)]
      /\ supplyCheckpoints' \in Seq(Checkpoint)
      /\ History'
      /\ \A q \in 0..sequence : totalSupplyAt(q)' = totalSupplyAt(q)
      /\ \A q \in 0..sequence : balancesAt(q)' = balancesAt(q)
  <2>1. {holder} \in SUBSET Accounts /\ \A a \in Accounts \ {holder} : balances[a] = balanceOf[a]
    BY <1>2
  <2>2. supply = Cardinality(unitsOf(balances))
    BY <1>6, <1>7
  <2> QED
    BY <1>1, <1>2, <1>6, <2>1, <2>2, UnitsMoved
<1>10. totalSupply' = Cardinality(unitsOf(balanceOf))'
  BY <1>4, <1>6, <1>7, <1>8
<1> QED
  BY <1>4, <1>6, <1>9, <1>10 DEF supply

\* transfer moves units between two holders, or none if they are one.
LEMMA Transfer ==
  ASSUME VaultInv, NEW from \in Accounts, NEW to \in Accounts, NEW value \in 0..initialUnits,
         transfer(from, to, value)
  PROVE  /\ VaultInv'
         /\ \A q \in 0..sequence : totalSupplyAt(q)' = totalSupplyAt(q)
         /\ \A q \in 0..sequence : balancesAt(q)' = balancesAt(q)
<1> USE DEF envVars, stateVars, pledgeVars, cvaVars, moneyVars, bondVars, entitlementVars,
        redemptionVars, creditVars
<1>1. UNCHANGED <<envVars, stateVars, authorizedOriginator, pledgeVars, cvaVars, moneyVars>>
  BY DEF transfer
<1> DEFINE M == initialUnits
           f == balanceOf
           g == [a \in Accounts |-> f[a] - (IF a = from THEN value ELSE 0)
                                         + (IF a = to THEN value ELSE 0)]
<1>2. recordBalances({from, to}, g, totalSupply) /\ value <= f[from]
      /\ receivableState \in {"Outstanding", "DefaultOutstanding"}
  BY DEF transfer
<1>3. f \in [Accounts -> 0..M] /\ IsFiniteSet(Accounts) /\ M \in Nat /\ totalSupply \in 0..M
      /\ totalSupply = Cardinality(piles(Accounts, M, f))
  BY UnitsArePiles, Numbers, Amounts
<1>4. balanceOf' = g /\ totalSupply' = totalSupply
  BY <1>2 DEF recordBalances
<1>5. unitsOf(g) = piles(Accounts, M, g)
  BY UnitsArePiles
<1> HIDE DEF M, f
<1>6. g \in [Accounts -> 0..M] /\ Cardinality(piles(Accounts, M, g)) = totalSupply
  <2>0. f[from] \in 0..M /\ f[to] \in 0..M /\ value \in 0..M
    BY <1>3 DEF M
  <2>1. CASE from = to
    <3>1. \A a \in Accounts : g[a] = f[a]
      BY <1>3, <2>0, <2>1
    <3>2. g \in [Accounts -> 0..M]
      BY <1>3, <3>1
    <3> HIDE DEF g
    <3>3. piles(Accounts, M, g) = piles(Accounts, M, f)
      BY <3>1, PilesSame
    <3> QED
      BY <1>3, <3>2, <3>3
  <2>2. CASE from # to
    <3> DEFINE h == [f EXCEPT ![from] = f[from] - value]
    <3>1. f[from] + f[to] <= totalSupply
      BY <1>3, <2>2, PilesTwo
    <3>2. h[from] = f[from] - value /\ h[to] = f[to] /\ \A a \in Accounts \ {from} : f[a] = h[a]
      BY <1>3, <2>2
    <3>3. g[to] = f[to] + value /\ g[from] = f[from] - value
          /\ \A a \in Accounts \ {to} : h[a] = g[a]
      BY <1>3, <2>0, <2>2, <3>2
    <3>4. h[from] \in 0..M /\ g[to] \in 0..M
      BY <1>2, <1>3, <2>0, <3>1, <3>2, <3>3
    <3>5. \A a \in Accounts : g[a] \in 0..M
      <4> TAKE a \in Accounts
      <4>1. f[a] \in 0..M
        BY <1>3
      <4> QED
        BY <1>2, <2>0, <3>2, <3>3, <3>4, <4>1
    <3>6. g \in [Accounts -> 0..M]
      BY <3>5
    <3> HIDE DEF g, h
    <3>7. Cardinality(piles(Accounts, M, h)) = Cardinality(piles(Accounts, M, f)) - f[from] + h[from]
      BY <1>3, <2>0, <3>2, <3>4, PilesChange
    <3>8. Cardinality(piles(Accounts, M, g)) = Cardinality(piles(Accounts, M, h)) - h[to] + g[to]
      <4>1. h[to] \in 0..M
        BY <2>0, <3>2
      <4> QED
        BY <1>3, <3>3, <3>4, <4>1, PilesChange
    <3> QED
      BY <1>3, <2>0, <3>2, <3>3, <3>6, <3>7, <3>8
  <2> QED
    BY <2>1, <2>2
<1> HIDE DEF g
<1>7. /\ sequence' \in 0..MaxSequence /\ sequence' = sequence + 1
      /\ balanceOf' \in [Accounts -> 0..initialUnits] /\ totalSupply' \in 0..initialUnits
      /\ balanceCheckpoints' \in [Accounts -> Seq(Checkpoint)]
      /\ supplyCheckpoints' \in Seq(Checkpoint)
      /\ History'
      /\ \A q \in 0..sequence : totalSupplyAt(q)' = totalSupplyAt(q)
      /\ \A q \in 0..sequence : balancesAt(q)' = balancesAt(q)
  <2>1. {from, to} \in SUBSET Accounts /\ \A a \in Accounts \ {from, to} : g[a] = balanceOf[a]
    <3>1. \A a \in Accounts \ {from, to} : balanceOf[a] \in Int
      BY <1>3 DEF f, M
    <3> QED
      BY <3>1 DEF g, f
  <2>2. totalSupply = Cardinality(unitsOf(g))
    BY <1>5, <1>6
  <2>3. g \in [Accounts -> 0..initialUnits] /\ totalSupply \in 0..initialUnits
    BY <1>3, <1>6 DEF M
  <2> QED
    BY <1>2, <2>1, <2>2, <2>3, UnitsMoved
<1>8. totalSupply' = Cardinality(unitsOf(balanceOf))'
  <2>1. unitsOf(balanceOf)' = unitsOf(g)
    BY <1>4 DEF unitsOf
  <2> QED
    BY <1>4, <1>5, <1>6, <2>1
<1>9. protectionState # "Unfunded"
  BY <1>2 DEF VaultInv, Issuance
<1>10. TypeOK'
  BY <1>1, <1>7 DEF VaultInv, TypeOK
<1>11. Issuance'
  BY <1>1, <1>4, <1>9 DEF VaultInv, Issuance
<1>12. Shares' /\ Claims'
  BY <1>1, <1>7, RecordDateKept
<1>13. Snapshot' /\ BondMatchesExposure'
  <2>1. CASE protectionState \in {"CommitPending", "ConflictConfirmed"}
    BY <1>1, <1>3, <1>4, <1>7, <2>1, SnapshotKept DEF M
  <2>2. CASE protectionState \notin {"CommitPending", "ConflictConfirmed"}
    BY <1>1, <1>4, <2>2 DEF VaultInv, Snapshot, BondMatchesExposure, requiredBond
  <2> QED
    BY <2>1, <2>2
<1>14. FaceIsConserved'
  BY <1>1, <1>4 DEF VaultInv, FaceIsConserved, remainingFace
<1>15. AccountingHolds'
  BY <1>1, <1>4, <1>8 DEF VaultInv, AccountingHolds, accountedSettlementBalance
<1> QED
  BY <1>7, <1>10, <1>11, <1>12, <1>13, <1>14, <1>15 DEF VaultInv

\* _faceAmount: what is paid for some of the units leaves at least the
\* rounded face of the others, and the last units take all that is left.
LEMMA FaceOut ==
  ASSUME VaultInv, NEW units \in 1..initialUnits, units <= totalSupply
  PROVE  /\ faceAmount(units) \in 1..faceValue /\ faceAmount(units) <= remainingFace
         /\ remainingFace \in Nat
         /\ mulDiv(faceValue, totalSupply - units, initialUnits) <= remainingFace - faceAmount(units)
         /\ units = totalSupply => faceAmount(units) = remainingFace
<1> DEFINE share(n) == mulDiv(faceValue, n, initialUnits)
<1> PICK rest : rest = totalSupply - units
  OBVIOUS
<1>1. rest \in Nat /\ units \in Nat /\ totalSupply \in Nat /\ rest + units = totalSupply
  BY Numbers, Amounts
<1>2. share(totalSupply) <= remainingFace /\ remainingFace \in Nat /\ remainingFace <= faceValue
  BY Numbers, Amounts DEF VaultInv, FaceIsConserved, AccountingHolds, remainingFace
<1>3. share(rest) \in Nat /\ share(rest) + share(units) <= share(rest + units) /\ share(0) = 0
      /\ share(totalSupply) \in Nat
  BY <1>1, Amounts, ShareBounds
<1>4. share(units) \in Nat /\ share(units) >= units /\ share(totalSupply) >= totalSupply
  BY <1>1, Amounts, ShareBounds
<1> HIDE DEF share
<1>5. CASE units = totalSupply
  <2>1. faceAmount(units) = remainingFace /\ rest = 0
    BY <1>1, <1>5 DEF faceAmount
  <2> QED
    BY <1>1, <1>2, <1>3, <1>4, <1>5, <2>1, Amounts DEF share
<1>6. CASE units # totalSupply
  <2>1. faceAmount(units) = share(units)
    BY <1>6 DEF faceAmount, share
  <2>2. share(rest) + share(units) <= remainingFace
    BY <1>1, <1>2, <1>3, <1>4
  <2>3. share(units) \in 1..faceValue /\ share(units) <= remainingFace
        /\ share(rest) <= remainingFace - share(units)
    BY <1>1, <1>2, <1>3, <1>4, <2>2, Amounts
  <2> QED
    BY <1>2, <1>6, <2>1, <2>3 DEF share
<1> QED
  BY <1>5, <1>6

\* redeem: units are burned, their face leaves the escrow and the vault,
\* and the bond they no longer require goes back, unless a conflict holds
\* it.
LEMMA Redeem ==
  ASSUME VaultInv, NEW caller \in Accounts, NEW units \in 0..initialUnits, redeem(caller, units)
  PROVE  VaultInv'
<1> USE DEF envVars, pledgeVars, entitlementVars
<1>1. UNCHANGED <<envVars, pendingConflict, authorizedOriginator, pledgeVars, entitlementVars,
                  cvaReleasedFace, defaultCvaReleaseStarted>>
  BY DEF redeem
<1> PICK amount : amount = faceAmount(units)
  OBVIOUS
<1> PICK refund : refund = excessEscrow(amount, amount)
  OBVIOUS
<1> PICK excess : excess = excessBond(protectionState, totalSupply - units)
  OBVIOUS
<1>2. mayRedeem(caller, units) /\ burnUnits(caller, units)
  BY DEF redeem
<1>3. /\ receivableState \in {"Outstanding", "DefaultOutstanding"}
      /\ units \in 1..initialUnits /\ units <= balanceOf[caller]
      /\ amount <= redemptionEscrow /\ units <= cvaAccounted /\ units <= custodyCredit
  BY <1>2, Amounts DEF mayRedeem, isRedemptionReady
<1>4. /\ custodyCredit' = custodyCredit - units /\ cvaSupply' = cvaSupply - units
      /\ cvaAccounted' = cvaAccounted - units /\ cvaBurned' = cvaBurned + units
      /\ redeemedFace' = redeemedFace + amount
      /\ redemptionEscrow' = redemptionEscrow - amount - refund /\ cash' = cash - amount
      /\ bondLocked' = bondLocked - excess /\ bondReturned' = bondReturned + excess
      /\ creditSettlement(refund, excess)
  BY DEF redeem, returnBond
<1>5. /\ protectionState' = IF units = totalSupply /\ protectionState = "Active" THEN "Released"
                            ELSE protectionState
      /\ receivableState' = IF units = totalSupply THEN "Redeemed" ELSE receivableState
  BY DEF redeem
<1>6. /\ units <= totalSupply /\ totalSupply' = totalSupply - units
      /\ totalSupply' = Cardinality(unitsOf(balanceOf))'
      /\ sequence' \in 0..MaxSequence /\ sequence' = sequence + 1
      /\ balanceOf' \in [Accounts -> 0..initialUnits] /\ totalSupply' \in 0..initialUnits
      /\ balanceCheckpoints' \in [Accounts -> Seq(Checkpoint)]
      /\ supplyCheckpoints' \in Seq(Checkpoint)
      /\ History'
      /\ \A q \in 0..sequence : totalSupplyAt(q)' = totalSupplyAt(q)
      /\ \A q \in 0..sequence : balancesAt(q)' = balancesAt(q)
  BY <1>2, <1>3, UnitsBurned
<1>s. /\ units <= totalSupply /\ totalSupply' = totalSupply - units /\ totalSupply' \in 0..initialUnits
      /\ totalSupply' <= totalSupply /\ units \in Nat /\ totalSupply \in Nat
  <2>1. units <= totalSupply /\ totalSupply' = totalSupply - units /\ totalSupply' \in 0..initialUnits
    BY <1>6
  <2> QED
    BY <1>3, <2>1, Numbers, Amounts
<1>7. /\ amount \in 1..faceValue /\ amount <= remainingFace /\ remainingFace \in Nat
      /\ mulDiv(faceValue, totalSupply - units, initialUnits) <= remainingFace - amount
      /\ units = totalSupply => amount = remainingFace
  BY <1>3, <1>6, FaceOut
<1>8. refund = 0
  <2>1. redemptionEscrow <= remainingFace /\ redemptionEscrow \in Nat
    BY Numbers, Amounts DEF VaultInv, FaceIsConserved
  <2> QED
    BY <1>7, <2>1, Amounts DEF excessEscrow
<1>9. /\ excess \in Nat /\ excess <= bondLocked
      /\ protectionState = "Active" => bondLocked - excess = requiredBond(totalSupply - units)
      /\ protectionState # "Active" => excess = 0
  <2>1. CASE protectionState = "Active"
    <3> PICK rest : rest = totalSupply - units
      OBVIOUS
    <3>1. rest \in 0..initialUnits /\ rest <= totalSupply /\ totalSupply \in 0..initialUnits
      BY <1>3, <1>s, Numbers, Amounts
    <3>2. requiredBond(rest) \in 0..initialBond /\ requiredBond(rest) <= requiredBond(totalSupply)
      BY <3>1, RequiredBondBounds
    <3>3. bondLocked = requiredBond(totalSupply)
      BY <2>1 DEF VaultInv, BondMatchesExposure
    <3> QED
      BY <2>1, <3>2, <3>3, Numbers, Amounts DEF excessBond
  <2>2. CASE protectionState # "Active"
    BY <2>2, Numbers, Amounts DEF excessBond
  <2> QED
    BY <2>1, <2>2
<1>10. /\ settlementCredit' \in [Accounts -> Nat] /\ settlementCreditTotal' \in Nat
       /\ settlementCreditTotal' = settlementCreditTotal + 0 + excess
       /\ settlementCreditTotal' = settlementCredit'[buyer] + settlementCredit'[originatorTreasury]
       /\ \A a \in Accounts \ {buyer, originatorTreasury} : settlementCredit'[a] = 0
  BY <1>4, <1>8, <1>9, Credited
<1>11. /\ protectionState # "Unfunded" /\ custodyCredit = cvaAccounted /\ totalSupply = cvaAccounted
       /\ cvaSupply = initialUnits - cvaBurned
       /\ bondLocked + bondReturned + entitlementAllocated = initialBond
       /\ cvaBurned + totalSupply <= initialUnits
       /\ entitlementClaimed <= entitlementAllocated
       /\ entitlementClaimedUnits <= entitlementSnapshotSupply
       /\ protectionState # "Entitled" => entitlementAllocated = 0
  BY <1>3 DEF VaultInv, Issuance, AccountingHolds, Shares
<1>12. remainingFace' = remainingFace - amount
  BY <1>1, <1>4, <1>7, Numbers, Amounts DEF remainingFace
<1>13. TypeOK'
  <2>1. {custodyCredit', cvaSupply', cvaAccounted', cvaBurned', totalSupply'} \subseteq 0..initialUnits
    BY <1>3, <1>4, <1>s, <1>11, Numbers, Amounts
  <2>2. bondLocked' \in 0..initialBond /\ bondReturned' \in 0..initialBond
    BY <1>4, <1>9, <1>11, Numbers, Amounts
  <2>3. redemptionEscrow' \in 0..faceValue /\ redeemedFace' \in 0..faceValue /\ cash' \in Nat
    BY <1>3, <1>4, <1>7, <1>8, <1>11, Numbers, Amounts DEF remainingFace
  <2>4. protectionState' \in ProtectionStates /\ receivableState' \in ReceivableStates
    BY <1>5 DEF VaultInv, TypeOK, ProtectionStates, ReceivableStates
  <2> QED
    BY <1>1, <1>6, <1>10, <2>1, <2>2, <2>3, <2>4 DEF VaultInv, TypeOK
<1>14. Issuance'
  <2>1. (cvaBurned + totalSupply)' = cvaBurned + totalSupply
    BY <1>3, <1>4, <1>s, Numbers, Amounts
  <2> QED
    BY <1>3, <1>5, <1>11, <2>1 DEF VaultInv, Issuance
<1>15. Shares' /\ Claims'
  BY <1>1, <1>5, <1>6, RecordDateKept
<1>16. Snapshot' /\ BondMatchesExposure'
  <2>1. CASE protectionState \in {"CommitPending", "ConflictConfirmed"}
    <3>1. bondLocked' = bondLocked /\ totalSupply' <= totalSupply /\ protectionState' = protectionState
      BY <1>3, <1>4, <1>5, <1>s, <1>9, <2>1, Numbers, Amounts
    <3> QED
      BY <1>1, <1>6, <2>1, <3>1, SnapshotKept
  <2>2. CASE protectionState = "Active"
    <3>1. bondLocked' = requiredBond(totalSupply)'
      BY <1>4, <1>6, <1>9, <2>2 DEF requiredBond
    <3>2. units = totalSupply => bondLocked' = 0
      <4>1. units = totalSupply => totalSupply - units = 0
        BY <1>3
      <4>2. requiredBond(0) = 0
        BY Amounts, Numbers, RequiredBondBounds
      <4> QED
        BY <1>4, <1>9, <2>2, <4>1, <4>2
    <3> QED
      BY <1>5, <2>2, <3>1, <3>2 DEF Snapshot, BondMatchesExposure
  <2>3. CASE protectionState \in {"Entitled", "Released"}
    <3>1. bondLocked' = bondLocked
      BY <1>4, <1>9, <2>3, Numbers, Amounts
    <3> QED
      BY <1>1, <1>5, <2>3, <3>1 DEF VaultInv, Snapshot, BondMatchesExposure, requiredBond
  <2> QED
    BY <1>11, <2>1, <2>2, <2>3 DEF VaultInv, TypeOK, ProtectionStates
<1>17. FaceIsConserved'
  <2>1. (redemptionEscrow <= remainingFace)'
    BY <1>3, <1>4, <1>7, <1>8, <1>12, Numbers, Amounts DEF VaultInv, FaceIsConserved
  <2>2. (mulDiv(faceValue, totalSupply, initialUnits) <= remainingFace)'
    BY <1>6, <1>7, <1>12 DEF mulDiv
  <2>3. units = totalSupply => totalSupply' = 0 /\ remainingFace' = 0
    BY <1>3, <1>s, <1>7, <1>12
  <2>4. units # totalSupply => totalSupply' # 0
    BY <1>3, <1>s, Numbers, Amounts
  <2> QED
    BY <1>3, <1>5, <2>1, <2>2, <2>3, <2>4 DEF FaceIsConserved
<1>18. AccountingHolds'
  <2>1. (cash = accountedSettlementBalance)'
    BY <1>1, <1>3, <1>4, <1>7, <1>8, <1>9, <1>10, <1>11, Numbers, Amounts
        DEF accountedSettlementBalance
  <2>2. (redeemedFace + cvaReleasedFace <= faceValue)'
    BY <1>1, <1>4, <1>7, Numbers, Amounts DEF remainingFace
  <2>3. (cvaSupply = initialUnits - cvaBurned /\ custodyCredit = cvaAccounted
         /\ totalSupply = cvaAccounted
         /\ bondLocked + bondReturned + entitlementAllocated = initialBond)'
    BY <1>1, <1>3, <1>4, <1>s, <1>9, <1>11, Numbers, Amounts
  <2> QED
    BY <1>1, <1>6, <1>10, <1>11, <2>1, <2>2, <2>3 DEF AccountingHolds
<1> QED
  BY <1>6, <1>13, <1>14, <1>15, <1>16, <1>17, <1>18 DEF VaultInv

\* releaseDefaultCva: units are burned for CVA, and what the escrow then
\* holds beyond the rest of the face goes back to the buyer.
LEMMA ReleaseDefaultCva ==
  ASSUME VaultInv, NEW caller \in Accounts, NEW units \in 0..initialUnits,
         releaseDefaultCva(caller, units)
  PROVE  VaultInv'
<1> USE DEF envVars, pledgeVars, entitlementVars, bondVars
<1>1. UNCHANGED <<envVars, protectionState, pendingConflict, authorizedOriginator, pledgeVars,
                  cvaSupply, cvaBurned, bondVars, entitlementVars, redeemedFace, cash>>
  BY DEF releaseDefaultCva
<1> PICK released : released = faceAmount(units)
  OBVIOUS
<1> PICK refund : refund = excessEscrow(0, released)
  OBVIOUS
<1>2. mayReleaseCva(caller, units) /\ burnUnits(caller, units)
  BY DEF releaseDefaultCva
<1>3. /\ receivableState = "DefaultOutstanding"
      /\ units \in 1..initialUnits /\ units <= balanceOf[caller]
      /\ units <= cvaAccounted /\ units <= custodyCredit
  BY <1>2, Amounts DEF mayReleaseCva
<1>4. /\ custodyCredit' = custodyCredit - units /\ cvaAccounted' = cvaAccounted - units
      /\ cvaReleasedFace' = cvaReleasedFace + released
      /\ redemptionEscrow' = redemptionEscrow - refund
      /\ creditSettlement(refund, 0) /\ defaultCvaReleaseStarted' = TRUE
      /\ receivableState' = IF units = totalSupply THEN "Redeemed" ELSE receivableState
  BY DEF releaseDefaultCva
<1>5. /\ units <= totalSupply /\ totalSupply' = totalSupply - units
      /\ totalSupply' = Cardinality(unitsOf(balanceOf))'
      /\ sequence' \in 0..MaxSequence /\ sequence' = sequence + 1
      /\ balanceOf' \in [Accounts -> 0..initialUnits] /\ totalSupply' \in 0..initialUnits
      /\ balanceCheckpoints' \in [Accounts -> Seq(Checkpoint)]
      /\ supplyCheckpoints' \in Seq(Checkpoint)
      /\ History'
      /\ \A q \in 0..sequence : totalSupplyAt(q)' = totalSupplyAt(q)
      /\ \A q \in 0..sequence : balancesAt(q)' = balancesAt(q)
  BY <1>2, <1>3, UnitsBurned
<1>6. /\ units <= totalSupply /\ totalSupply' = totalSupply - units /\ totalSupply' \in 0..initialUnits
      /\ units \in Nat /\ totalSupply \in Nat
  <2>1. units <= totalSupply /\ totalSupply' = totalSupply - units /\ totalSupply' \in 0..initialUnits
    BY <1>5
  <2> QED
    BY <1>3, <2>1, Numbers, Amounts
<1>7. /\ released \in 1..faceValue /\ released <= remainingFace /\ remainingFace \in Nat
      /\ mulDiv(faceValue, totalSupply - units, initialUnits) <= remainingFace - released
      /\ units = totalSupply => released = remainingFace
  BY <1>3, <1>6, FaceOut
<1>8. /\ refund \in Nat /\ refund <= redemptionEscrow
      /\ redemptionEscrow - refund <= remainingFace - released
  <2>1. redemptionEscrow \in Nat
    BY Numbers, Amounts
  <2>2. refund = IF (redemptionEscrow - 0) - (remainingFace - released) > 0
                 THEN (redemptionEscrow - 0) - (remainingFace - released) ELSE 0
    BY DEF excessEscrow
  <2> QED
    BY <1>7, <2>1, <2>2, Amounts
<1>9. /\ settlementCredit' \in [Accounts -> Nat] /\ settlementCreditTotal' \in Nat
      /\ settlementCreditTotal' = settlementCreditTotal + refund + 0
      /\ settlementCreditTotal' = settlementCredit'[buyer] + settlementCredit'[originatorTreasury]
      /\ \A a \in Accounts \ {buyer, originatorTreasury} : settlementCredit'[a] = 0
  BY <1>4, <1>8, Credited
<1>10. /\ protectionState \in {"Entitled", "Released"}
       /\ custodyCredit = cvaAccounted /\ totalSupply = cvaAccounted
       /\ cvaSupply = initialUnits - cvaBurned
       /\ bondLocked + bondReturned + entitlementAllocated = initialBond
       /\ cvaBurned + totalSupply <= initialUnits
       /\ entitlementClaimed <= entitlementAllocated
       /\ entitlementClaimedUnits <= entitlementSnapshotSupply
  BY <1>3 DEF VaultInv, Issuance, AccountingHolds
<1>11. remainingFace' = remainingFace - released
  BY <1>1, <1>4, <1>7, Numbers, Amounts DEF remainingFace
<1>12. TypeOK'
  <2>1. {custodyCredit', cvaAccounted'} \subseteq 0..initialUnits
    BY <1>3, <1>4, Numbers, Amounts
  <2>2. redemptionEscrow' \in 0..faceValue /\ cvaReleasedFace' \in 0..faceValue
    BY <1>4, <1>7, <1>8, Numbers, Amounts DEF remainingFace
  <2>3. receivableState' \in ReceivableStates
    BY <1>4 DEF VaultInv, TypeOK, ReceivableStates
  <2> QED
    BY <1>1, <1>4, <1>5, <1>9, <2>1, <2>2, <2>3 DEF VaultInv, TypeOK
<1>13. Issuance'
  <2>1. (cvaBurned + totalSupply)' <= initialUnits
    BY <1>1, <1>6, <1>10, Numbers, Amounts
  <2> QED
    BY <1>1, <1>3, <1>4, <1>10, <2>1 DEF Issuance
<1>14. Shares' /\ Claims'
  BY <1>1, <1>5, RecordDateKept
<1>15. Snapshot' /\ BondMatchesExposure'
  BY <1>1, <1>10 DEF VaultInv, Snapshot, BondMatchesExposure, requiredBond
<1>16. FaceIsConserved'
  <2>1. (redemptionEscrow <= remainingFace)'
    BY <1>4, <1>8, <1>11
  <2>2. (mulDiv(faceValue, totalSupply, initialUnits) <= remainingFace)'
    BY <1>6, <1>7, <1>11 DEF mulDiv
  <2>3. units = totalSupply => totalSupply' = 0 /\ remainingFace' = 0
    BY <1>6, <1>7, <1>11
  <2>4. units # totalSupply => totalSupply' # 0
    BY <1>6
  <2> QED
    BY <1>3, <1>4, <2>1, <2>2, <2>3, <2>4 DEF FaceIsConserved
<1>17. AccountingHolds'
  <2>1. (cash = accountedSettlementBalance)'
    BY <1>1, <1>4, <1>8, <1>9, Numbers, Amounts DEF accountedSettlementBalance
  <2>2. (redeemedFace + cvaReleasedFace <= faceValue)'
    BY <1>1, <1>4, <1>7, Numbers, Amounts DEF remainingFace
  <2>3. (custodyCredit = cvaAccounted /\ totalSupply = cvaAccounted)'
    BY <1>4, <1>6, <1>10
  <2> QED
    BY <1>1, <1>5, <1>9, <1>10, <2>1, <2>2, <2>3 DEF AccountingHolds
<1> QED
  BY <1>5, <1>12, <1>13, <1>14, <1>15, <1>16, <1>17 DEF VaultInv

\* activate: every unit is minted to an allocated holder, one sequence
\* number per mint, and at each of them the balances minted so far add up
\* to the running total.
LEMMA Activate ==
  ASSUME VaultInv, NEW caller \in Accounts, NEW funder \in Accounts, NEW pledge \in Pledges,
         NEW allocation \in Allocations, activate(caller, pledge, funder, allocation)
  PROVE  VaultInv'
<1> USE DEF envVars, entitlementVars, redemptionVars, creditVars
<1> DEFINE n == Len(allocation)
           M == initialUnits
           total == runningTotal(allocation)
           lot(a) == {i \in 1..n : allocation[i][1] = a}
           mint(a) == CHOOSE i \in lot(a) : TRUE
           size == [i \in 1..n |-> allocation[i][2]]
           owner == [i \in 1..n |-> allocation[i][1]]
<1>1. UNCHANGED <<envVars, pendingConflict, authorizedOriginator, usedCancellationNonce,
                  custodyCredit, cvaSupply, cvaBurned, bondReturned, entitlementVars,
                  redemptionVars, creditVars>>
  BY DEF activate
<1>2. /\ protectionState = "Unfunded" /\ protectionState' = "Active"
      /\ receivableState' = "Outstanding" /\ custodyCredit = initialUnits
      /\ cvaAccounted' = initialUnits /\ bondLocked' = initialBond
      /\ totalSupply' = initialUnits /\ cash' = cash + advanceAmount - netProceeds
      /\ usedPledgeDigest' = usedPledgeDigest \cup {pledge} /\ protectedPledge' = pledge
  BY DEF activate, usePledge
<1>3. /\ n # 0 /\ total[n] = initialUnits /\ sequence' = sequence + n /\ sequence + n <= MaxSequence
      /\ balanceOf' = [a \in Accounts |-> IF lot(a) = {} THEN 0 ELSE allocation[mint(a)][2]]
      /\ balanceCheckpoints' = [a \in Accounts |->
            IF lot(a) = {} THEN << >>
            ELSE writeCheckpoint(<< >>, sequence + mint(a), allocation[mint(a)][2])]
      /\ supplyCheckpoints' = [i \in 1..n |-> [sequence |-> sequence + i, balance |-> total[i]]]
  BY DEF activate
<1>4. \A i \in 1..n : /\ allocation[i][2] # 0 /\ lot(allocation[i][1]) = {i}
                      /\ requireHolder(allocation[i][1])
                      /\ isRedemptionReady(allocation[i][2])
  BY DEF activate
<1>5. /\ sequence = 0 /\ cvaBurned = 0 /\ bondReturned = 0 /\ entitlementAllocated = 0
      /\ redeemedFace = 0 /\ cvaReleasedFace = 0 /\ totalSupply = 0
  BY <1>2 DEF VaultInv, Issuance
<1>6. n \in Nat /\ M \in Nat /\ n \in 1..MaxSequence
  <2>1. allocation \in Seq((Accounts \cup {Vault, Adapter}) \X Nat)
    BY VaultAssumption
  <2>2. n \in Nat
    BY <2>1
  <2> QED
    BY <1>3, <1>5, <2>2, Amounts
<1>7. \A i \in 1..n : /\ owner[i] = allocation[i][1] /\ owner[i] \in Accounts
                      /\ size[i] = allocation[i][2] /\ size[i] \in 1..M
  <2> TAKE i \in 1..n
  <2>1. allocation[i] \in (Accounts \cup {Vault, Adapter}) \X Nat
    BY VaultAssumption
  <2>2. allocation[i][1] \in Accounts
    BY <1>4, VaultAssumption DEF requireHolder, requireHolderRole, isEligible
  <2>3. allocation[i][2] \in 1..M
    BY <1>2, <1>4, <2>1, Amounts DEF isRedemptionReady
  <2> QED
    BY <2>2, <2>3
<1>8. \A i, j \in 1..n : owner[i] = owner[j] => i = j
  <2> SUFFICES ASSUME NEW i \in 1..n, NEW j \in 1..n, owner[i] = owner[j] PROVE i = j
    OBVIOUS
  <2>1. allocation[i][1] = allocation[j][1]
    BY <1>7
  <2>2. j \in lot(allocation[i][1])
    BY <2>1
  <2> QED
    BY <1>4, <2>2
<1>9. \A a \in Accounts : lot(a) # {} => mint(a) \in 1..n /\ owner[mint(a)] = a
  <2> SUFFICES ASSUME NEW a \in Accounts, lot(a) # {}
               PROVE  mint(a) \in 1..n /\ owner[mint(a)] = a
    OBVIOUS
  <2>1. mint(a) \in lot(a)
    OBVIOUS
  <2> QED
    BY <2>1
<1>10. \A i \in 1..n : lot(owner[i]) = {i} /\ mint(owner[i]) = i
  <2> TAKE i \in 1..n
  <2>1. lot(owner[i]) = {i}
    BY <1>4, <1>7
  <2> QED
    BY <2>1
<1>11. \A i \in 0..n : total[i] = Cardinality(piles(1..i, M, size))
  <2> TAKE i \in 0..n
  <2>1. total[i] = Cardinality({u \in (1..i) \X (1..M) : u[2] <= allocation[u[1]][2]})
    BY DEF runningTotal
  <2>2. \A u \in (1..i) \X (1..M) : u[1] \in 1..n
    BY <1>6
  <2>3. {u \in (1..i) \X (1..M) : u[2] <= allocation[u[1]][2]} = piles(1..i, M, size)
    BY <1>7, <2>2 DEF piles
  <2> QED
    BY <2>1, <2>3
<1>12. \A i \in 0..n : total[i] \in 0..M
  <2> HIDE DEF total, size, n, M
  <2> TAKE i \in 0..n
  <2>1. IsFiniteSet(1..n) /\ IsFiniteSet(1..i) /\ i \in Nat /\ n \in 0..n
    BY <1>6, FS_Interval
  <2>2. IsFiniteSet(piles(1..n, M, size)) /\ Cardinality(piles(1..i, M, size)) \in Nat
    BY <1>6, <2>1, PilesFinite
  <2>3. piles(1..i, M, size) \in SUBSET piles(1..n, M, size)
    BY <1>6 DEF piles
  <2>4. Cardinality(piles(1..i, M, size)) <= Cardinality(piles(1..n, M, size))
    BY <2>2, <2>3, FS_Subset
  <2>5. total[n] = M
    BY <1>3 DEF M
  <2>6. total[i] \in Nat /\ total[i] <= M
    BY <1>6, <1>11, <2>1, <2>2, <2>4, <2>5
  <2> QED
    BY <1>6, <2>6
<1>13. \A a \in Accounts : balanceOf'[a] = IF lot(a) = {} THEN 0 ELSE size[mint(a)]
  BY <1>3, <1>7, <1>9
<1>14. \A a \in Accounts : balanceCheckpoints'[a] =
            IF lot(a) = {} THEN << >> ELSE writeCheckpoint(<< >>, mint(a), size[mint(a)])
  <2> TAKE a \in Accounts
  <2>1. lot(a) # {} => sequence + mint(a) = mint(a) /\ size[mint(a)] = allocation[mint(a)][2]
    BY <1>5, <1>7, <1>9
  <2> HIDE DEF lot, mint, size
  <2> QED
    BY <1>3, <2>1
<1>15. supplyCheckpoints' = [i \in 1..n |-> [sequence |-> i, balance |-> total[i]]]
  BY <1>3, <1>5
<1> HIDE DEF total, lot, mint, size, owner, n, M
<1>16. /\ supplyCheckpoints' \in Seq(Checkpoint) /\ Ordered(supplyCheckpoints', n)
       /\ \A q \in 0..n : lookup(supplyCheckpoints', q) = IF q = 0 THEN 0 ELSE total[q]
  <2> PICK cp : cp = supplyCheckpoints'
    OBVIOUS
  <2>1. \A i \in 1..n : i \in 0..MaxSequence /\ total[i] \in 0..initialUnits
    BY <1>6, <1>12, Amounts DEF M
  <2>2. cp \in [1..n -> Checkpoint]
    BY <1>15, <2>1 DEF Checkpoint
  <2>3. \A i \in 1..n : cp[i].sequence = i /\ cp[i].balance = total[i]
    BY <1>15
  <2>4. /\ cp \in Seq(Checkpoint) /\ Ordered(cp, n)
        /\ \A q \in 0..n : lookup(cp, q) = IF q = 0 THEN 0 ELSE total[q]
    BY <1>6, <2>2, <2>3, RunningCheckpoints
  <2> QED
    BY <2>4
<1>17. ASSUME NEW a \in Accounts
       PROVE  /\ balanceCheckpoints'[a] \in Seq(Checkpoint)
              /\ Ordered(balanceCheckpoints'[a], n)
              /\ \A q \in Nat : lookup(balanceCheckpoints'[a], q) =
                    IF lot(a) # {} /\ mint(a) <= q THEN size[mint(a)] ELSE 0
  <2>1. CASE lot(a) = {}
    BY <1>6, <1>14, <2>1, NoCheckpoints
  <2>2. CASE lot(a) # {}
    <3> PICK at, v : at = mint(a) /\ v = size[mint(a)]
      OBVIOUS
    <3>1. at \in 1..MaxSequence /\ n \in at..MaxSequence /\ at \in Nat
      BY <1>6, <1>9, <2>2, Amounts
    <3>2. v \in 0..initialUnits
      BY <1>6, <1>7, <1>9, <2>2 DEF M
    <3>3. balanceCheckpoints'[a] = writeCheckpoint(<< >>, at, v)
      BY <1>14, <2>2
    <3>4. /\ balanceCheckpoints'[a] \in Seq(Checkpoint) /\ Ordered(balanceCheckpoints'[a], n)
          /\ \A q \in Nat : lookup(balanceCheckpoints'[a], q) = IF q < at THEN 0 ELSE v
      BY <3>1, <3>2, <3>3, FirstCheckpoint
    <3> QED
      BY <2>2, <3>1, <3>4
  <2> QED
    BY <2>1, <2>2
<1>18. ASSUME NEW q \in 0..n
       PROVE  /\ \A a \in Accounts : balancesAt(q)'[a] =
                    IF lot(a) # {} /\ mint(a) <= q THEN size[mint(a)] ELSE 0
              /\ totalSupplyAt(q)' = total[q]
              /\ totalSupplyAt(q)' = Cardinality(unitsOf(balancesAt(q)))'
  <2>0. q \in Nat /\ n \in Nat /\ \A i \in 1..q : i \in 1..n
    BY <1>6
  <2>1. \A a \in Accounts : balancesAt(q)'[a] =
                    IF lot(a) # {} /\ mint(a) <= q THEN size[mint(a)] ELSE 0
    BY <1>17, <2>0 DEF balancesAt, balanceAt
  <2>2. totalSupplyAt(q)' = total[q]
    <3>1. totalSupplyAt(q)' = IF q = 0 THEN 0 ELSE total[q]
      BY <1>16 DEF totalSupplyAt
    <3>2. total[0] = 0
      <4>1. piles(1..0, M, size) = {}
        BY DEF piles
      <4>2. 0 \in 0..n
        BY <2>0
      <4> QED
        BY <1>11, <4>1, <4>2, FS_EmptySet
    <3> QED
      BY <3>1, <3>2
  <2>3. Cardinality(piles(Accounts, M, balancesAt(q)')) = Cardinality(piles(1..q, M, size))
    <3> PICK g : g = balancesAt(q)'
      OBVIOUS
    <3>1. \A i \in 1..q : owner[i] \in Accounts /\ g[owner[i]] = size[i]
      <4> TAKE i \in 1..q
      <4>1. i \in 1..n /\ owner[i] \in Accounts /\ lot(owner[i]) # {} /\ mint(owner[i]) = i /\ i <= q
        BY <1>7, <1>10, <2>0
      <4> QED
        BY <2>1, <4>1
    <3>2. \A i, j \in 1..q : owner[i] = owner[j] => i = j
      BY <1>8, <2>0
    <3>3. ASSUME NEW a \in Accounts
          PROVE  g[a] \in Nat /\ (g[a] # 0 => \E i \in 1..q : owner[i] = a)
      <4>1. CASE lot(a) # {} /\ mint(a) <= q
        <5>1. mint(a) \in 1..q /\ owner[mint(a)] = a /\ size[mint(a)] \in Nat
          BY <1>6, <1>7, <1>9, <2>0, <4>1
        <5> QED
          BY <2>1, <4>1, <5>1
      <4>2. CASE ~(lot(a) # {} /\ mint(a) <= q)
        BY <2>1, <4>2
      <4> QED
        BY <4>1, <4>2
    <3>4. IsFiniteSet(1..q)
      BY <2>0, FS_Interval
    <3>5. \A a \in Accounts : g[a] \in Nat /\ (g[a] # 0 => \E i \in 1..q : owner[i] = a)
      BY <3>3
    <3> DEFINE h == [i \in 1..q |-> owner[i]]
    <3>6. /\ h \in [1..q -> Accounts]
          /\ \A i \in 1..q : g[h[i]] = size[i]
          /\ \A i, j \in 1..q : h[i] = h[j] => i = j
          /\ \A a \in Accounts : g[a] \in Nat /\ (g[a] # 0 => \E i \in 1..q : h[i] = a)
      BY <3>1, <3>2, <3>5
    <3> HIDE DEF h
    <3>7. ASSUME NEW S, S = 1..q
          PROVE  Cardinality(piles(Accounts, M, g)) = Cardinality(piles(S, M, size))
      <4>1. /\ IsFiniteSet(S) /\ M \in Nat /\ h \in [S -> Accounts]
            /\ \A s \in S : g[h[s]] = size[s]
            /\ \A s, r \in S : h[s] = h[r] => s = r
            /\ \A t \in Accounts : g[t] \in Nat /\ (g[t] # 0 => \E s \in S : h[s] = t)
        BY <1>6, <3>4, <3>6, <3>7
      <4> QED
        BY <4>1, PilesRenamed
    <3> QED
      BY <3>7
  <2>4. unitsOf(balancesAt(q))' = piles(Accounts, M, balancesAt(q)')
    BY DEF unitsOf, piles, M
  <2> QED
    BY <1>11, <2>1, <2>2, <2>3, <2>4
<1>19. sequence' = n /\ n \in 0..n /\ n \in Nat
  BY <1>3, <1>5, <1>6 DEF n
<1>20. \A a \in Accounts : balanceOf'[a] = balancesAt(n)'[a]
  <2> TAKE a \in Accounts
  <2>1. lot(a) # {} => mint(a) <= n
    BY <1>6, <1>9
  <2> QED
    BY <1>13, <1>18, <1>19, <2>1
<1>21. History'
  <2>1. \A a \in Accounts : balanceAt(a, n)' = balanceOf'[a]
    BY <1>20 DEF balancesAt, balanceAt
  <2>2. totalSupplyAt(n)' = totalSupply'
    BY <1>2, <1>3, <1>18, <1>19
  <2>3. (\A q \in 0..sequence : totalSupplyAt(q) = Cardinality(unitsOf(balancesAt(q))))'
    BY <1>18, <1>19
  <2>4. (\A a \in Accounts : Ordered(balanceCheckpoints[a], sequence))'
        /\ Ordered(supplyCheckpoints, sequence)'
    BY <1>16, <1>17, <1>19 DEF Ordered
  <2>5. (\A a \in Accounts : balanceAt(a, sequence) = balanceOf[a])'
    BY <1>19, <2>1 DEF balanceAt
  <2>6. (totalSupplyAt(sequence) = totalSupply)'
    BY <1>19, <2>2 DEF totalSupplyAt
  <2> QED
    BY <2>3, <2>4, <2>5, <2>6 DEF History
<1>22. totalSupply' = Cardinality(unitsOf(balanceOf))'
  <2>1. unitsOf(balanceOf)' = unitsOf(balancesAt(n))'
    BY <1>20 DEF unitsOf
  <2> QED
    BY <1>2, <1>3, <1>18, <1>19, <2>1
<1>23. TypeOK'
  <2>1. protectionState' \in ProtectionStates /\ receivableState' \in ReceivableStates
    BY <1>2 DEF ProtectionStates, ReceivableStates
  <2>2. balanceOf' \in [Accounts -> 0..initialUnits]
    <3>1. \A a \in Accounts : balanceOf'[a] \in 0..initialUnits
      BY <1>6, <1>7, <1>9, <1>13 DEF M
    <3>2. balanceOf' = [a \in Accounts |-> balanceOf'[a]]
      BY <1>3
    <3> QED
      BY <3>1, <3>2
  <2>3. balanceCheckpoints' \in [Accounts -> Seq(Checkpoint)]
    <3>1. balanceCheckpoints' = [a \in Accounts |-> balanceCheckpoints'[a]]
      BY <1>3
    <3> QED
      BY <1>17, <3>1
  <2>4. sequence' \in 0..MaxSequence /\ bondLocked' \in 0..initialBond
        /\ {cvaAccounted', totalSupply'} \subseteq 0..initialUnits
    BY <1>2, <1>6, <1>19, Amounts
  <2>5. cash' \in Nat
    BY <1>2, Numbers, Amounts
  <2>6. usedPledgeDigest' \subseteq Pledges /\ protectedPledge' \in Pledges \cup {None}
    BY <1>2 DEF VaultInv, TypeOK
  <2> QED
    BY <1>1, <1>16, <2>1, <2>2, <2>3, <2>4, <2>5, <2>6 DEF VaultInv, TypeOK
<1>24. Issuance'
  BY <1>1, <1>2, <1>5, Amounts DEF Issuance
<1>25. Snapshot' /\ Shares' /\ Claims'
  BY <1>1, <1>2 DEF VaultInv, Snapshot, Shares, Claims
<1>26. BondMatchesExposure'
  <2>1. requiredBond(initialUnits) = initialBond
    BY Amounts, RequiredBondBounds
  <2> QED
    BY <1>2, <2>1 DEF BondMatchesExposure, requiredBond
<1>27. FaceIsConserved'
  <2>1. mulDiv(faceValue, initialUnits, initialUnits) = faceValue
    BY Amounts, ShareBounds
  <2>2. remainingFace' = faceValue
    BY <1>1, <1>5, Amounts DEF remainingFace
  <2>3. (mulDiv(faceValue, totalSupply, initialUnits) <= remainingFace)'
    BY <1>2, <2>1, <2>2, Amounts DEF mulDiv
  <2>4. (redemptionEscrow <= remainingFace)'
    BY <1>1, <2>2, Numbers, Amounts
  <2> QED
    BY <1>2, <2>3, <2>4, Amounts DEF FaceIsConserved
<1>28. AccountingHolds'
  <2>1. (cash = accountedSettlementBalance)'
    BY <1>1, <1>2, <1>5, Numbers, Amounts DEF accountedSettlementBalance, VaultInv, Issuance
  <2>2. (bondLocked + bondReturned + entitlementAllocated = initialBond)'
    BY <1>1, <1>2, <1>5, Amounts
  <2> QED
    BY <1>1, <1>2, <1>22, <2>1, <2>2 DEF VaultInv, AccountingHolds
<1> QED
  BY <1>21, <1>23, <1>24, <1>25, <1>26, <1>27, <1>28 DEF VaultInv

-----------------------------------------------------------------------------
\* The theorems.

\* Every transaction, and a step that is none, keeps the invariant.
LEMMA NextInv ==
  VaultInv /\ [Next]_vars => VaultInv'
<1> SUFFICES ASSUME VaultInv, [Next]_vars
             PROVE  VaultInv'
  OBVIOUS
<1>1. CASE bindVault
  BY <1>1, BindVault
<1>2. CASE \/ \E f \in Relisted, enabled \in BOOLEAN : setFacility(f, enabled)
           \/ \E caller, signer \in Accounts : authorizeOriginatorWallet(caller, signer)
           \/ Tick
           \/ \E answer \in Deniable : changePolicy(answer)
  BY <1>2, Environment
<1>3. CASE \E caller, funder \in Accounts, p \in Pledges, a \in Allocations :
                activate(caller, p, funder, a)
  BY <1>3, Activate
<1>4. CASE \E from, to \in Accounts, value \in 0..initialUnits : transfer(from, to, value)
  BY <1>4, Transfer
<1>5. CASE \E caller \in Accounts, c \in Commitments : commitConflict(caller, c)
  BY <1>5, CommitConflict
<1>6. CASE \E caller \in Accounts, p \in Pledges : revealConflict(caller, p)
  BY <1>6, RevealConflict
<1>7. CASE expireCommit
  BY <1>7, Reactivate DEF expireCommit
<1>8. CASE \E caller \in Accounts, c \in Cancellations : cureConflict(caller, c)
  BY <1>8, Reactivate DEF cureConflict
<1>9. CASE finalizeConflict
  BY <1>9, FinalizeConflict
<1>10. CASE \E caller \in Accounts : claimBond(caller) \/ claimSettlementCredit(caller)
  BY <1>10, ClaimBond, ClaimSettlementCredit
<1>11. CASE \E caller \in Accounts, amount \in 0..faceValue : fundRedemption(caller, amount)
  BY <1>11, FundRedemption
<1>12. CASE \E caller \in Accounts, units \in 0..initialUnits :
                redeem(caller, units) \/ releaseDefaultCva(caller, units)
  BY <1>12, Redeem, ReleaseDefaultCva
<1>13. CASE closeProtection
  BY <1>13, CloseProtection
<1>14. CASE markDefault
  BY <1>14, MarkDefault
<1>15. CASE UNCHANGED vars
  <2>1. UNCHANGED amountVars /\ UNCHANGED <<protectionState, pendingConflict, custodyCredit>>
    BY <1>15 DEF vars, stateVars, cvaVars, amountVars
  <2>2. TypeOK'
    BY <1>15 DEF VaultInv, TypeOK, vars, envVars, stateVars, pledgeVars, unitVars, cvaVars,
          moneyVars, bondVars, entitlementVars, redemptionVars, creditVars
  <2> QED
    BY <2>1, <2>2, AmountsKept
<1> QED
  BY <1>1, <1>2, <1>3, <1>4, <1>5, <1>6, <1>7, <1>8, <1>9, <1>10, <1>11, <1>12, <1>13, <1>14,
     <1>15 DEF Next

\* The inductive invariant holds in every reachable state of the vault.
THEOREM VaultInvariant == Spec => []VaultInv
BY InitInv, NextInv, PTL DEF Spec

\* Every variable keeps its type; no subtraction of the contract goes
\* below zero.
THEOREM VaultTypes == Spec => []TypeOK
<1>1. VaultInv => TypeOK
  BY DEF VaultInv
<1> QED
  BY <1>1, VaultInvariant, PTL

\* No transaction ever trips over _assertAccounting or _assertCvaIntegrity
\* and every token in the vault is owed to somebody.
THEOREM AccountingIsSound == Spec => []AccountingHolds
<1>1. VaultInv => AccountingHolds
  BY DEF VaultInv
<1> QED
  BY <1>1, VaultInvariant, PTL

\* The bond locked is what the units, or the snapshot of a conflict,
\* require, and nothing is stranded once the protection has ended.
THEOREM BondIsExact == Spec => []BondMatchesExposure
<1>1. VaultInv => BondMatchesExposure
  BY DEF VaultInv
<1> QED
  BY <1>1, VaultInvariant, PTL

\* Roundings never make the escrow or the last units fall short of the
\* face value.
THEOREM FaceIsPaid == Spec => []FaceIsConserved
<1>1. VaultInv => FaceIsConserved
  BY DEF VaultInv
<1> QED
  BY <1>1, VaultInvariant, PTL

\* What balanceAt and totalSupplyAt find at any sequence number adds up.
THEOREM RecordDatesAddUp == Spec => []HistoryAddsUp
<1>1. VaultInv => HistoryAddsUp
  BY DEF VaultInv, History, HistoryAddsUp, balancesAt
<1> QED
  BY <1>1, VaultInvariant, PTL

\* Claims pay rounded shares of the bond by the record date, the last one
\* the rest, and no unclaimed share is ever crowded out.
THEOREM BondIsShared == Spec => []ClaimsAreShares
<1>1. ASSUME VaultInv, protectionState = "Entitled"
      PROVE  ClaimsAreShares
  <2> DEFINE at == entitlementSnapshotSequence
             share(a) == mulDiv(entitlementAllocated, balanceAt(a, at), entitlementSnapshotSupply)
  <2>1. bondClaimedBy \subseteq Accounts
    BY <1>1 DEF VaultInv, TypeOK
  <2>2. \A a \in Accounts : balancesAt(at)[a] = balanceAt(a, at) /\ shareOf[a] = share(a)
    BY DEF balancesAt, shareOf
  <2>3. piles(bondClaimedBy, initialUnits, balancesAt(at)) =
            {u \in bondClaimedBy \X (1..initialUnits) : u[2] <= balanceAt(u[1], at)}
    BY <2>1, <2>2 DEF piles
  <2> HIDE DEF share
  <2>4. piles(bondClaimedBy, initialBond, shareOf) =
            {u \in bondClaimedBy \X (1..initialBond) : u[2] <= share(u[1])}
    BY <2>1, <2>2 DEF piles
  <2>5. entitlementClaimedUnits =
            Cardinality({u \in bondClaimedBy \X (1..initialUnits) : u[2] <= balanceAt(u[1], at)})
    BY <1>1, <2>3 DEF VaultInv, Claims
  <2>6. entitlementClaimed =
                IF entitlementClaimedUnits = entitlementSnapshotSupply
                THEN entitlementAllocated
                ELSE Cardinality({u \in bondClaimedBy \X (1..initialBond) : u[2] <= share(u[1])})
    BY <1>1, <2>4 DEF VaultInv, Claims, Shares
  <2>7. ASSUME NEW a \in Accounts \ bondClaimedBy
        PROVE  entitlementClaimedUnits + balanceAt(a, at) <= entitlementSnapshotSupply
    BY <1>1, <2>2, <2>7, ClaimFits
  <2> QED
    BY <2>5, <2>6, <2>7 DEF ClaimsAreShares, share
<1>2. VaultInv => ClaimsAreShares
  <2>1. protectionState # "Entitled" => ClaimsAreShares
    BY DEF ClaimsAreShares
  <2> QED
    BY <1>1, <2>1
<1> QED
  BY <1>2, VaultInvariant, PTL

\* In default a holder may redeem its whole position for cash or release
\* it as CVA, and never both: the two guards are each other's negation.
THEOREM DefaultHasAnExit == Spec => []DefaultAlwaysHasAnExit
<1>1. ASSUME VaultInv, NEW a \in Accounts,
             receivableState = "DefaultOutstanding", balanceOf[a] # 0,
             requireHolder(a), cvaIntegrity,
             Allows("identity", Vault), Allows("identity", Adapter)
      PROVE  mayRedeem(a, balanceOf[a]) # mayReleaseCva(a, balanceOf[a])
  <2> PICK units : units = balanceOf[a]
    OBVIOUS
  <2>1. /\ units \in 1..initialUnits /\ units <= totalSupply
        /\ units <= cvaAccounted /\ units <= custodyCredit
    <3>0. balanceOf \in [Accounts -> 0..initialUnits]
      BY <1>1 DEF VaultInv, TypeOK
    <3>1. balanceOf[a] \in 0..initialUnits /\ units \in 1..initialUnits
      BY <1>1, <3>0, Amounts
    <3>2. units <= Cardinality(piles(Accounts, initialUnits, balanceOf))
      BY <3>1, Amounts, VaultAssumption, PilesChange
    <3>3. /\ totalSupply = Cardinality(unitsOf(balanceOf)) /\ totalSupply = cvaAccounted
          /\ custodyCredit = cvaAccounted
      BY <1>1 DEF VaultInv, AccountingHolds, Issuance
    <3> QED
      BY <1>1, <3>1, <3>2, <3>3, UnitsArePiles
  <2>2. faceAmount(units) \in 1..faceValue
    BY <1>1, <2>1, FaceOut
  <2>3. faceAmount(units) # 0 /\ units # 0
    BY <2>1, <2>2, Amounts
  <2>4. mayRedeem(a, units) <=>
            /\ faceAmount(units) <= redemptionEscrow
            /\ Allows("burn", Adapter) /\ Allows("cash", a)
    BY <1>1, <2>1, <2>3 DEF mayRedeem, requireHolder, isRedemptionReady, transferAllowed,
          requireSettlementIdentity
  <2>5. redemptionEscrow >= faceAmount(units) <=> faceAmount(units) <= redemptionEscrow
    BY <1>1, <2>2, Numbers, Amounts
  <2>6. cashIsAvailable(a) <=>
            /\ faceAmount(units) <= redemptionEscrow
            /\ Allows("burn", Adapter) /\ Allows("cash", a)
    BY <1>1, <2>1, <2>3, <2>5 DEF cashIsAvailable, isRedemptionReady
  <2>7. mayReleaseCva(a, units) <=> ~cashIsAvailable(a)
    BY <1>1, <2>1, <2>3 DEF mayReleaseCva
  <2> QED
    BY <2>4, <2>6, <2>7
<1>2. VaultInv => DefaultAlwaysHasAnExit
  BY <1>1 DEF DefaultAlwaysHasAnExit
<1> QED
  BY <1>2, VaultInvariant, PTL

\* No transaction changes what a record date already passed returns: the
\* checkpoint written for a new sequence number hides no older one.
LEMMA HistoryStep ==
  ASSUME VaultInv, [Next]_vars, NEW q \in 0..sequence
  PROVE  /\ totalSupplyAt(q)' = totalSupplyAt(q)
         /\ balancesAt(q)' = balancesAt(q)
<1>0. History
  BY DEF VaultInv
<1>1. CASE UNCHANGED unitVars
  BY <1>0, <1>1, HistoryKept
<1>2. CASE \E from, to \in Accounts, value \in 0..initialUnits : transfer(from, to, value)
  BY <1>2, Transfer
<1>3. ASSUME NEW caller \in Accounts, NEW units \in 0..initialUnits,
             redeem(caller, units) \/ releaseDefaultCva(caller, units)
      PROVE  /\ totalSupplyAt(q)' = totalSupplyAt(q)
             /\ balancesAt(q)' = balancesAt(q)
  <2>1. burnUnits(caller, units) /\ units # 0 /\ units <= balanceOf[caller]
    BY <1>3 DEF redeem, mayRedeem, releaseDefaultCva, mayReleaseCva
  <2>2. units \in 1..initialUnits
    BY <2>1, Amounts
  <2>3. /\ \A k \in 0..sequence : totalSupplyAt(k)' = totalSupplyAt(k)
        /\ \A k \in 0..sequence : balancesAt(k)' = balancesAt(k)
    BY <2>1, <2>2, UnitsBurned
  <2> QED
    BY <2>3
<1>4. CASE \E caller, funder \in Accounts, p \in Pledges, a \in Allocations :
                activate(caller, p, funder, a)
  <2>1. VaultInv'
    BY NextInv
  <2>2. q = 0
    <3>1. sequence = 0
      BY <1>4 DEF activate, VaultInv, Issuance
    <3> QED
      BY <3>1
  <2>3. /\ sequence \in Nat /\ balanceCheckpoints \in [Accounts -> Seq(Checkpoint)]
        /\ supplyCheckpoints \in Seq(Checkpoint) /\ Ordered(supplyCheckpoints, sequence)
        /\ \A a \in Accounts : Ordered(balanceCheckpoints[a], sequence)
    BY Amounts DEF VaultInv, TypeOK, History
  <2>4. /\ sequence' \in Nat /\ balanceCheckpoints' \in [Accounts -> Seq(Checkpoint)]
        /\ supplyCheckpoints' \in Seq(Checkpoint) /\ Ordered(supplyCheckpoints', sequence')
        /\ \A a \in Accounts : Ordered(balanceCheckpoints'[a], sequence')
    BY <2>1, Amounts DEF VaultInv, TypeOK, History, Ordered
  <2>5. lookup(supplyCheckpoints, 0) = 0 /\ lookup(supplyCheckpoints', 0) = 0
    BY <2>3, <2>4, NothingAtZero
  <2>6. ASSUME NEW a \in Accounts
        PROVE  lookup(balanceCheckpoints[a], 0) = 0 /\ lookup(balanceCheckpoints'[a], 0) = 0
    <3>1. balanceCheckpoints[a] \in Seq(Checkpoint) /\ balanceCheckpoints'[a] \in Seq(Checkpoint)
      BY <2>3, <2>4
    <3> QED
      BY <2>3, <2>4, <3>1, NothingAtZero
  <2>7. totalSupplyAt(q)' = totalSupplyAt(q)
    BY <2>2, <2>5 DEF totalSupplyAt
  <2>8. \A a \in Accounts : balanceAt(a, q)' = balanceAt(a, q)
    BY <2>2, <2>6 DEF balanceAt
  <2> QED
    BY <2>7, <2>8 DEF balancesAt
<1>5. CASE UNCHANGED vars
  BY <1>1, <1>5 DEF vars
<1>6. ASSUME Next,
             ~ \E from, to \in Accounts, value \in 0..initialUnits : transfer(from, to, value),
             ~ \E caller \in Accounts, units \in 0..initialUnits :
                    redeem(caller, units) \/ releaseDefaultCva(caller, units),
             ~ \E caller, funder \in Accounts, p \in Pledges, a \in Allocations :
                    activate(caller, p, funder, a)
      PROVE  UNCHANGED unitVars
  BY <1>6 DEF Next, bindVault, setFacility, authorizeOriginatorWallet, commitConflict,
        revealConflict, expireCommit, cureConflict, reactivate, finalizeConflict, claimBond,
        claimSettlementCredit, fundRedemption, closeProtection, markDefault, Tick, changePolicy
<1> QED
  BY <1>1, <1>2, <1>3, <1>4, <1>5, <1>6

\* A balance or a supply at a sequence number already used never changes.
THEOREM RecordDatesAreImmutable == Spec => HistoryIsImmutable
<1> DEFINE Kept == \A q \in 0..sequence :
                        /\ totalSupplyAt(q)' = totalSupplyAt(q)
                        /\ \A a \in Accounts : balanceAt(a, q)' = balanceAt(a, q)
<1>1. VaultInv /\ [Next]_vars => [Kept]_vars
  <2> SUFFICES ASSUME VaultInv, [Next]_vars, NEW q \in 0..sequence
               PROVE  /\ totalSupplyAt(q)' = totalSupplyAt(q)
                      /\ \A a \in Accounts : balanceAt(a, q)' = balanceAt(a, q)
    OBVIOUS
  <2>1. totalSupplyAt(q)' = totalSupplyAt(q) /\ balancesAt(q)' = balancesAt(q)
    BY HistoryStep
  <2>2. \A a \in Accounts : /\ balancesAt(q)[a] = balanceAt(a, q)
                            /\ balancesAt(q)'[a] = balanceAt(a, q)'
    BY DEF balancesAt
  <2> QED
    BY <2>1, <2>2
<1> QED
  BY <1>1, VaultInvariant, PTL DEF Spec, HistoryIsImmutable

\* No bond goes back while a conflict is pending, and an entitlement keeps
\* its record date, its amount and its claims for ever.
THEOREM EntitlementIsFrozen == Spec => PendingBondIsFrozen
<1> DEFINE Frozen ==
        /\ (protectionState \in {"CommitPending", "ConflictConfirmed", "Entitled"}
            /\ protectionState' # "Active") => bondReturned' = bondReturned
        /\ protectionState = "Entitled" =>
            /\ protectionState' = "Entitled"
            /\ entitlementAllocated' = entitlementAllocated
            /\ entitlementSnapshotSequence' = entitlementSnapshotSequence
            /\ entitlementSnapshotSupply' = entitlementSnapshotSupply
            /\ bondClaimedBy \subseteq bondClaimedBy'
<1>1. VaultInv /\ [Next]_vars => [Frozen]_vars
  <2> SUFFICES ASSUME VaultInv, Next
               PROVE  Frozen
    OBVIOUS
  <2> USE DEF stateVars, moneyVars, bondVars, entitlementVars
  <2>1. CASE \/ bindVault \/ Tick \/ markDefault
             \/ \E f \in Relisted, enabled \in BOOLEAN : setFacility(f, enabled)
             \/ \E caller, signer \in Accounts : authorizeOriginatorWallet(caller, signer)
             \/ \E from, to \in Accounts, value \in 0..initialUnits : transfer(from, to, value)
             \/ \E answer \in Deniable : changePolicy(answer)
             \/ \E caller \in Accounts, amount \in 0..faceValue : fundRedemption(caller, amount)
             \/ \E caller \in Accounts : claimBond(caller) \/ claimSettlementCredit(caller)
    BY <2>1 DEF bindVault, Tick, markDefault, setFacility, authorizeOriginatorWallet, transfer,
          changePolicy, fundRedemption, claimBond, claimSettlementCredit
  <2>2. CASE \/ \E caller, funder \in Accounts, p \in Pledges, a \in Allocations :
                    activate(caller, p, funder, a)
             \/ \E caller \in Accounts, c \in Commitments : commitConflict(caller, c)
             \/ \E caller \in Accounts, p \in Pledges : revealConflict(caller, p)
             \/ finalizeConflict \/ closeProtection
    BY <2>2 DEF activate, commitConflict, revealConflict, finalizeConflict, closeProtection
  <2>3. CASE \/ expireCommit
             \/ \E caller \in Accounts, c \in Cancellations : cureConflict(caller, c)
    BY <2>3 DEF expireCommit, cureConflict, reactivate
  <2>4. ASSUME NEW caller \in Accounts, NEW units \in 0..initialUnits, redeem(caller, units)
        PROVE  Frozen
    <3>1. protectionState # "Active" => bondReturned' = bondReturned /\ protectionState' = protectionState
      BY <2>4, Numbers, Amounts DEF redeem, returnBond, excessBond
    <3> QED
      BY <2>4, <3>1 DEF redeem
  <2>5. CASE \E caller \in Accounts, units \in 0..initialUnits : releaseDefaultCva(caller, units)
    BY <2>5 DEF releaseDefaultCva
  <2> QED
    BY <2>1, <2>2, <2>3, <2>4, <2>5 DEF Next
<1> QED
  BY <1>1, VaultInvariant, PTL DEF Spec, PendingBondIsFrozen
=============================================================================
