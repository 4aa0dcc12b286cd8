------------------------------ MODULE Inductions ------------------------------
(***************************************************************************)
(* Induction over numbers and over the steps of a fold, in the form in     *)
(* which the proofs of this project use it.  A fold over a sequence is     *)
(* followed step by step: a[k] is what the first k members make of it.     *)
(* With it come sums over sets, the order of sorted sequences and the ends *)
(* of finite sets of numbers.                                              *)
(***************************************************************************)
EXTENDS Integers, SequencesExt, FiniteSetTheorems, WellFoundedInduction, TLAPS

\* A set of numbers has a least member.
LEMMA LeastOf ==
    ASSUME NEW T \in SUBSET Nat, T # {}
    PROVE  \E m \in T : \A n \in T : m <= n
<1> DEFINE R == {ss \in Nat \X Nat : ss[1] < ss[2]}
<1>1. OpToRel(<, Nat) = R
  BY Zenon DEF OpToRel
<1>2. IsWellFoundedOn(R, Nat)
  BY <1>1, NatLessThanWellFounded, Zenon
<1>3. PICK x \in T : \A y \in T : ~(<<y, x>> \in R)
  BY <1>2, WFMin
<1>4. SUFFICES ASSUME NEW y \in T, y < x PROVE FALSE
  OBVIOUS
<1>5. <<y, x>> \in R
  BY <1>4
<1> HIDE DEF R
<1> QED
  BY <1>3, <1>5

\* A set that contains 0 and with each number below N its successor.
LEMMA Induct ==
    ASSUME NEW N \in Nat, NEW P, 0 \in P, \A k \in 0 .. N - 1 : k \in P => k + 1 \in P
    PROVE  0 .. N \subseteq P
<1> SUFFICES ASSUME (0 .. N) \ P # {} PROVE FALSE
  OBVIOUS
<1>1. PICK m \in (0 .. N) \ P : \A n \in (0 .. N) \ P : m <= n
  <2>1. (0 .. N) \ P \in SUBSET Nat
    OBVIOUS
  <2> QED
    BY <2>1, LeastOf
<1>2. m - 1 \in 0 .. N - 1 /\ m - 1 \in P
  BY <1>1
<1> QED
  BY <1>1, <1>2

\* The largest member of a set of numbers up to n.
LEMMA MaxOf ==
    ASSUME NEW n \in Nat, NEW t \in SUBSET (1 .. n), t # {}
    PROVE  Max(t) \in t /\ \A x \in t : x <= Max(t)
<1> DEFINE T == {n - x : x \in t}
<1>1. T \in SUBSET Nat /\ T # {}
  <2>1. ASSUME NEW x \in t PROVE n - x \in Nat
    <3>1. x \in 1 .. n
      OBVIOUS
    <3> QED
      BY <3>1
  <2> QED
    BY <2>1
<1>2. PICK m \in T : \A x \in T : m <= x
  BY <1>1, LeastOf
<1>3. n - m \in t /\ \A x \in t : x <= n - m
  BY <1>2
<1>4. \E x \in t : \A y \in t : x >= y
  <2>1. \A y \in t : n - m >= y
    BY <1>1, <1>2, <1>3
  <2> QED
    BY <1>3, <2>1
<1> HIDE DEF T
<1>5. Max(t) \in t /\ \A y \in t : Max(t) >= y
  BY <1>4 DEF Max
<1> QED
  BY <1>5

LEMMA MaxOfInterval ==
    ASSUME NEW k \in Nat, NEW t, t \subseteq 1 .. k + 1, k + 1 \in t
    PROVE  Max(t) = k + 1 /\ t \ {Max(t)} \in SUBSET (1 .. k)
<1>1. k + 1 \in Nat /\ t \in SUBSET (1 .. (k + 1)) /\ t # {}
  OBVIOUS
<1>2. Max(t) \in t /\ \A x \in t : x <= Max(t)
  BY ONLY <1>1, MaxOf
<1>3. \A x \in t : x \in 1 .. k + 1
  OBVIOUS
<1>4. Max(t) = k + 1
  <2>1. Max(t) \in 1 .. k + 1 /\ k + 1 <= Max(t)
    BY <1>2, <1>3
  <2> QED
    BY <2>1
<1>5. \A x \in t \ {k + 1} : x \in 1 .. k
  BY <1>3
<1> QED
  BY <1>4, <1>5
\* An interval tells how long it is.
LEMMA SameInterval == ASSUME NEW m \in Nat, NEW n \in Nat, 1 .. m = 1 .. n PROVE m = n
<1>1. m \in 1 .. m \/ m = 0
  OBVIOUS
<1>2. n \in 1 .. n \/ n = 0
  OBVIOUS
<1>3. \A i \in 1 .. n : i \in 1 .. m
  OBVIOUS
<1>4. \A i \in 1 .. m : i \in 1 .. n
  OBVIOUS
<1> QED
  BY <1>1, <1>2, <1>3, <1>4
-----------------------------------------------------------------------------
(* A fold of the library is a function h on the sets of places; F[k] is    *)
(* what the member at place k does to a value of X.                        *)

Folds(h, N, X, base, F) ==
    h = [t \in SUBSET (1 .. N) |-> IF t = {} THEN base ELSE F[Max(t)][h[t \ {Max(t)}]]]

LEMMA FoldExists ==
    ASSUME NEW N \in Nat, NEW X, NEW base \in X, NEW F \in [1 .. N -> [X -> X]]
    PROVE  \E h \in [SUBSET (1 .. N) -> X] : Folds(h, N, X, base, F)
<1> DEFINE Good == {n \in 0 .. N : \E h \in [SUBSET (1 .. n) -> X] : Folds(h, n, X, base, F)}
<1>1. 0 \in Good
  <2> DEFINE h0 == [t \in SUBSET (1 .. 0) |-> base]
  <2>1. h0 \in [SUBSET (1 .. 0) -> X] /\ Folds(h0, 0, X, base, F) /\ 0 \in 0 .. N
    BY DEF Folds
  <2> HIDE DEF h0
  <2> QED
    BY <2>1
<1>2. ASSUME NEW k \in 0 .. N - 1, k \in Good PROVE k + 1 \in Good
  <2>1. PICK h \in [SUBSET (1 .. k) -> X] : Folds(h, k, X, base, F)
    BY <1>2
  <2> DEFINE new == [t \in SUBSET (1 .. k + 1) |->
                        IF k + 1 \in t THEN F[k + 1][h[t \ {k + 1}]] ELSE h[t]]
             Value(g, t) == IF t = {} THEN base ELSE F[Max(t)][g[t \ {Max(t)}]]
  <2>2. ASSUME NEW t \in SUBSET (1 .. k + 1), k + 1 \in t PROVE new[t] = Value(new, t) /\ new[t] \in X
    <3>1. Max(t) = k + 1 /\ t \ {Max(t)} \in SUBSET (1 .. k)
      <4>1. k \in Nat /\ t \subseteq 1 .. k + 1
        OBVIOUS
      <4> QED
        BY ONLY <2>2, <4>1, MaxOfInterval
    <3>2. t \ {k + 1} \in SUBSET (1 .. k + 1) /\ k + 1 \notin t \ {k + 1} /\ k + 1 \in 1 .. N
      BY <3>1
    <3>3. new[t] = F[k + 1][h[t \ {k + 1}]] /\ new[t \ {k + 1}] = h[t \ {k + 1}]
      BY <2>2, <3>2
    <3>4. h[t \ {k + 1}] \in X
      BY <3>1
    <3> HIDE DEF new
    <3>5. new[t] \in X
      BY <3>2, <3>3, <3>4
    <3> QED
      BY <2>2, <3>1, <3>3, <3>5
  <2>3. ASSUME NEW t \in SUBSET (1 .. k + 1), k + 1 \notin t PROVE new[t] = Value(new, t) /\ new[t] \in X
    <3>1. t \in SUBSET (1 .. k)
      BY <2>3
    <3>2. new[t] = h[t] /\ h[t] = Value(h, t) /\ h[t] \in X
      <4>1. new[t] = h[t]
        BY <2>3
      <4> HIDE DEF new
      <4>2. h[t] = Value(h, t)
        BY <2>1, <3>1 DEF Folds
      <4> QED
        BY <3>1, <4>1, <4>2
    <3>3. CASE t = {}
      <4> HIDE DEF new
      <4> QED
        BY <3>2, <3>3
    <3>4. CASE t # {}
      <4>1. t \ {Max(t)} \in SUBSET (1 .. k + 1) /\ k + 1 \notin t \ {Max(t)}
        BY <2>3
      <4>2. new[t \ {Max(t)}] = h[t \ {Max(t)}]
        BY <4>1
      <4> HIDE DEF new
      <4> QED
        BY <3>2, <3>4, <4>2
    <3> QED
      BY <3>3, <3>4
  <2>4. Folds(new, k + 1, X, base, F) /\ new \in [SUBSET (1 .. k + 1) -> X]
    <3> HIDE DEF Value
    <3>1. \A t \in SUBSET (1 .. k + 1) : new[t] = Value(new, t) /\ new[t] \in X
      BY <2>2, <2>3
    <3>2. new = [t \in SUBSET (1 .. k + 1) |-> new[t]]
      OBVIOUS
    <3> HIDE DEF new
    <3>3. new = [t \in SUBSET (1 .. k + 1) |-> Value(new, t)]
      BY <3>1, <3>2
    <3> QED
      BY <3>1, <3>2, <3>3 DEF Value, Folds
  <2>5. k + 1 \in 0 .. N
    OBVIOUS
  <2> HIDE DEF new
  <2> QED
    BY <2>4, <2>5
<1>3. N \in Good
  <2> HIDE DEF Good
  <2>1. 0 .. N \subseteq Good
    BY <1>1, <1>2, Induct
  <2> QED
    BY <2>1
<1> QED
  BY <1>3

\* What the members do is asked for on X only.
Follows(h, N, X, base, F) ==
    /\ h[{}] = base
    /\ \A t \in SUBSET (1 .. N) : t # {} /\ h[t \ {Max(t)}] \in X =>
          h[t] = F[Max(t)][h[t \ {Max(t)}]]

Through(a, N, X, base, F) ==
    /\ a \in [0 .. N -> X]
    /\ a[0] = base /\ \A k \in 1 .. N : a[k] = F[k][a[k - 1]]

\* The values that a fold goes through.
LEMMA FoldSteps ==
    ASSUME NEW N \in Nat, NEW X, NEW base \in X, NEW F \in [1 .. N -> [X -> X]], NEW h,
           Follows(h, N, X, base, F)
    PROVE  \E a : Through(a, N, X, base, F) /\ h[1 .. N] = a[N]
<1>0. /\ h[{}] = base
      /\ \A t \in SUBSET (1 .. N) : t # {} /\ h[t \ {Max(t)}] \in X =>
            h[t] = F[Max(t)][h[t \ {Max(t)}]]
  BY DEF Follows
<1>1. 1 .. 0 = {}
  OBVIOUS
<1>2. ASSUME NEW k \in 0 .. N - 1, h[1 .. k] \in X
      PROVE  h[1 .. k + 1] = F[k + 1][h[1 .. k]] /\ h[1 .. k + 1] \in X
  <2>1. k \in Nat /\ 1 .. k + 1 \subseteq 1 .. k + 1 /\ k + 1 \in 1 .. k + 1
    OBVIOUS
  <2>2. Max(1 .. k + 1) = k + 1
    BY ONLY <2>1, MaxOfInterval
  <2>3. (1 .. k + 1) \ {k + 1} = 1 .. k /\ 1 .. k + 1 # {} /\ 1 .. k + 1 \in SUBSET (1 .. N)
    <3>1. k + 1 \in 1 .. k + 1 /\ \A i \in 1 .. k + 1 : i \in 1 .. N
      OBVIOUS
    <3>2. (1 .. k + 1) \ {k + 1} = 1 .. k
      OBVIOUS
    <3> QED
      BY <3>1, <3>2
  <2>4. h[1 .. k + 1] = F[k + 1][h[1 .. k]]
    BY <1>0, <1>2, <2>2, <2>3
  <2>5. k + 1 \in 1 .. N
    OBVIOUS
  <2> QED
    BY <1>2, <2>4, <2>5
<1> DEFINE Good == {k \in 0 .. N : h[1 .. k] \in X}
<1>3. 0 .. N \subseteq Good
  <2>1. 0 \in Good
    BY <1>0, <1>1
  <2>2. \A k \in 0 .. N - 1 : k \in Good => k + 1 \in Good
    <3> TAKE k \in 0 .. N - 1
    <3> HAVE k \in Good
    <3>1. k + 1 \in 0 .. N
      OBVIOUS
    <3> QED
      BY <1>2, <3>1
  <2> HIDE DEF Good
  <2> QED
    BY <2>1, <2>2, Induct
<1> DEFINE a == [k \in 0 .. N |-> h[1 .. k]]
<1>4. a \in [0 .. N -> X]
  BY <1>3
<1>5. a[0] = base /\ h[1 .. N] = a[N]
  BY <1>0, <1>1
<1>6. ASSUME NEW k \in 1 .. N PROVE a[k] = F[k][a[k - 1]]
  <2>1. k - 1 \in 0 .. N - 1 /\ k - 1 \in 0 .. N /\ (k - 1) + 1 = k /\ k \in 0 .. N
    OBVIOUS
  <2>2. h[1 .. k - 1] \in X
    BY <1>3, <2>1
  <2>3. h[1 .. (k - 1) + 1] = F[(k - 1) + 1][h[1 .. k - 1]]
    BY <1>2, <2>1, <2>2
  <2> QED
    BY <2>1, <2>3
<1> HIDE DEF a
<1>7. Through(a, N, X, base, F)
  BY <1>4, <1>5, <1>6 DEF Through
<1> QED
  BY <1>5, <1>7

\* A recursive function over 0 .. N, each value made of the one before it.
LEMMA RecursionExists ==
    ASSUME NEW N \in Nat, NEW X, NEW base \in X, NEW F \in [1 .. N -> [X -> X]]
    PROVE  \E a : Through(a, N, X, base, F)
<1>1. PICK h \in [SUBSET (1 .. N) -> X] : Folds(h, N, X, base, F)
  BY FoldExists
<1>2. {} \in SUBSET (1 .. N)
  OBVIOUS
<1>3. Follows(h, N, X, base, F)
  <2>1. \A t \in SUBSET (1 .. N) : h[t] = IF t = {} THEN base ELSE F[Max(t)][h[t \ {Max(t)}]]
    BY <1>1 DEF Folds
  <2> QED
    BY <1>2, <2>1 DEF Follows
<1> QED
  BY <1>3, FoldSteps
-----------------------------------------------------------------------------
(* Sums, orders and the ends of finite sets of numbers.                    *)

\* Where an induction ends.
LEMMA Reaches ==
    ASSUME NEW N \in Nat, NEW P, 0 \in P, \A k \in 0 .. N - 1 : k \in P => k + 1 \in P
    PROVE  N \in P
<1>1. 0 .. N \subseteq P
  BY Induct
<1> QED
  BY <1>1

LEMMA TimesMore ==
    ASSUME NEW b \in Nat, NEW x \in Int, NEW y \in Int, x <= y
    PROVE  b * x <= b * y
<1>1. ASSUME NEW d \in Nat PROVE b * d >= 0
  OBVIOUS
<1>2. b * (y - x) >= 0
  <2>1. y - x \in Nat
    OBVIOUS
  <2> QED
    BY <1>1, <2>1
<1>3. b * (y - x) = b * y - b * x /\ b * y \in Int /\ b * x \in Int
  OBVIOUS
<1> QED
  BY <1>2, <1>3

\* Division rounds down.
LEMMA DivIs ==
    ASSUME NEW a \in Int, NEW b \in Nat, b > 0
    PROVE  a \div b \in Int /\ b * (a \div b) <= a /\ a < b * (a \div b) + b
  OBVIOUS

LEMMA DivBetween ==
    ASSUME NEW a \in Int, NEW b \in Nat, b > 0, NEW lo \in Int, NEW hi \in Int,
           b * lo <= a, a <= b * hi
    PROVE  a \div b \in lo .. hi
<1> DEFINE q == a \div b
<1>1. q \in Int /\ b * q <= a /\ a < b * q + b
  BY DivIs
<1> HIDE DEF q
<1>2. b * (q + 1) = b * q + b /\ b * (hi + 1) = b * hi + b /\ b * q \in Int /\ b * lo \in Int /\ b * hi \in Int
  BY <1>1
<1>3. lo <= q
  <2> SUFFICES ASSUME q + 1 <= lo PROVE FALSE
    BY <1>1
  <2>1. b * (q + 1) <= b * lo
    BY <1>1, TimesMore
  <2> QED
    BY <1>1, <1>2, <2>1
<1>4. q <= hi
  <2> SUFFICES ASSUME hi + 1 <= q PROVE FALSE
    BY <1>1
  <2>1. b * (hi + 1) <= b * q
    BY <1>1, TimesMore
  <2> QED
    BY <1>1, <1>2, <2>1
<1> QED
  BY <1>1, <1>3, <1>4 DEF q

Beginnings(a, n, f) == a \in [0 .. n -> Int] /\ a[0] = 0 /\ \A k \in 1 .. n : a[k] = a[k - 1] + f[k]

LEMMA BeginningsExist ==
    ASSUME NEW n \in Nat, NEW f \in [1 .. n -> Int]
    PROVE  \E a : Beginnings(a, n, f)
<1> DEFINE F == [k \in 1 .. n |-> [v \in Int |-> v + f[k]]]
<1>1. F \in [1 .. n -> [Int -> Int]]
  OBVIOUS
<1>2. \A k \in 1 .. n : \A v \in Int : F[k][v] = v + f[k]
  OBVIOUS
<1> HIDE DEF F
<1>3. PICK a : Through(a, n, Int, 0, F)
  <2>1. 0 \in Int
    OBVIOUS
  <2> QED
    BY <1>1, <2>1, RecursionExists
<1>4. a \in [0 .. n -> Int] /\ a[0] = 0 /\ \A k \in 1 .. n : a[k] = F[k][a[k - 1]]
  BY <1>3 DEF Through
<1>5. ASSUME NEW k \in 1 .. n PROVE a[k] = a[k - 1] + f[k]
  <2>1. k - 1 \in 0 .. n
    OBVIOUS
  <2> QED
    BY <1>2, <1>4, <2>1
<1> QED
  BY <1>4, <1>5 DEF Beginnings

\* Two functions that are the same but for one member.
DifferAt(f, g, n, x) == x \in 1 .. n /\ \A k \in 1 .. n : k # x => g[k] = f[k]

\* The sums of two beginnings differ as their members do.
SumsDiffer(a, b, n, f, g, x) == b[n] = a[n] + (g[x] - f[x])

LEMMA BeginningsOne ==
    ASSUME NEW n \in Nat, NEW f, NEW g, NEW a, NEW b, Beginnings(a, n, f), Beginnings(b, n, g),
           f \in [1 .. n -> Int], g \in [1 .. n -> Int],
           NEW x, DifferAt(f, g, n, x)
    PROVE  SumsDiffer(a, b, n, f, g, x)
<1> DEFINE d == g[x] - f[x]
<1>5. x \in 1 .. n /\ \A k \in 1 .. n : k # x => g[k] = f[k]
  BY DEF DifferAt
<1>4. d \in Int /\ g[x] = f[x] + d
  BY <1>5
<1> HIDE DEF d
<1> DEFINE P == {k \in 0 .. n : b[k] = a[k] + (IF x <= k THEN d ELSE 0)}
<1>1. 0 \in P
  <2>1. a[0] = 0 /\ b[0] = 0
    BY DEF Beginnings
  <2>2. ~(x <= 0) /\ 0 \in 0 .. n
    BY <1>5
  <2> QED
    BY <2>1, <2>2
<1>2. ASSUME NEW k \in 0 .. n - 1, k \in P PROVE k + 1 \in P
  <2>1. k + 1 \in 1 .. n /\ (k + 1) - 1 = k /\ k \in 0 .. n /\ k + 1 \in 0 .. n
    OBVIOUS
  <2>2. a[k + 1] = a[k] + f[k + 1] /\ b[k + 1] = b[k] + g[k + 1] /\ a[k] \in Int /\ f[k + 1] \in Int
    BY <2>1 DEF Beginnings
  <2>3. b[k] = a[k] + (IF x <= k THEN d ELSE 0)
    BY <1>2
  <2>4. CASE x = k + 1
    <3>1. g[k + 1] = f[k + 1] + d /\ ~(x <= k)
      BY <1>4, <2>4
    <3> QED
      BY <1>4, <2>1, <2>2, <2>3, <2>4, <3>1
  <2>5. CASE x # k + 1
    <3>1. x <= k + 1 <=> x <= k
      BY <1>5, <2>5
    <3>2. g[k + 1] = f[k + 1]
      BY <1>5, <2>1, <2>5
    <3> QED
      BY <1>4, <2>1, <2>2, <2>3, <3>1, <3>2
  <2> QED
    BY <2>4, <2>5
<1>3. n \in P
  <2> HIDE DEF P
  <2> QED
    BY <1>1, <1>2, Reaches
<1> QED
  BY <1>3, <1>5 DEF d, SumsDiffer

LEMMA BeginningsSame ==
    ASSUME NEW n \in Nat, NEW m \in Nat, m <= n, NEW f, NEW g, NEW a, NEW b,
           Beginnings(a, n, f), Beginnings(b, m, g), \A k \in 1 .. m : g[k] = f[k]
    PROVE  \A k \in 0 .. m : b[k] = a[k]
<1> DEFINE P == {k \in 0 .. m : b[k] = a[k]}
<1>1. 0 \in P
  BY DEF Beginnings
<1>2. ASSUME NEW k \in 0 .. m - 1, k \in P PROVE k + 1 \in P
  <2>1. k + 1 \in 1 .. m /\ k + 1 \in 1 .. n /\ (k + 1) - 1 = k /\ k + 1 \in 0 .. m
    OBVIOUS
  <2>2. a[k + 1] = a[k] + f[k + 1] /\ b[k + 1] = b[k] + g[k + 1] /\ g[k + 1] = f[k + 1]
    BY <2>1 DEF Beginnings
  <2> QED
    BY <1>2, <2>1, <2>2
<1>3. 0 .. m \subseteq P
  <2> HIDE DEF P
  <2> QED
    BY <1>1, <1>2, Induct
<1> QED
  BY <1>3

Adds(h, f, S) == h = [t \in SUBSET S |-> IF t = {} THEN 0
                                          ELSE f[CHOOSE x \in t : TRUE] + h[t \ {CHOOSE x \in t : TRUE}]]

Masked(f, n, t) == [k \in 1 .. n |-> IF k \in t THEN f[k] ELSE 0]

LEMMA AddsExists ==
    ASSUME NEW n \in Nat, NEW f \in [1 .. n -> Int]
    PROVE  \E h : Adds(h, f, 1 .. n) /\ \A a : Beginnings(a, n, f) => h[1 .. n] = a[n]
<1> DEFINE B(t) == CHOOSE a : Beginnings(a, n, Masked(f, n, t))
           h == [t \in SUBSET (1 .. n) |-> B(t)[n]]
           some(t) == CHOOSE x \in t : TRUE
<1>1. ASSUME NEW t PROVE Beginnings(B(t), n, Masked(f, n, t)) /\ Masked(f, n, t) \in [1 .. n -> Int]
  <2>1. Masked(f, n, t) \in [1 .. n -> Int]
    BY DEF Masked
  <2> QED
    BY <2>1, BeginningsExist
<1>2. h[{}] = 0
  <2>1. {} \in SUBSET (1 .. n) /\ h[{}] = B({})[n]
    OBVIOUS
  <2> DEFINE b == B({})
  <2>2. Beginnings(b, n, Masked(f, n, {}))
    BY <1>1
  <2> HIDE DEF b
  <2> DEFINE P == {k \in 0 .. n : b[k] = 0}
  <2>3. 0 \in P
    BY <2>2 DEF Beginnings
  <2>4. ASSUME NEW k \in 0 .. n - 1, k \in P PROVE k + 1 \in P
    <3>1. k + 1 \in 1 .. n /\ (k + 1) - 1 = k /\ k + 1 \in 0 .. n
      OBVIOUS
    <3>2. b[k + 1] = b[k] + Masked(f, n, {})[k + 1] /\ Masked(f, n, {})[k + 1] = 0
      BY <2>2, <3>1 DEF Beginnings, Masked
    <3> QED
      BY <2>4, <3>1, <3>2
  <2>5. n \in P
    <3> HIDE DEF P
    <3> QED
      BY <2>3, <2>4, Reaches
  <2> HIDE DEF h
  <2> QED
    BY <2>1, <2>5 DEF b
<1>3. ASSUME NEW t \in SUBSET (1 .. n), t # {} PROVE h[t] = f[some(t)] + h[t \ {some(t)}]
  <2> DEFINE x == some(t)
             u == t \ {x}
  <2>1. x \in t /\ x \in 1 .. n
    BY <1>3
  <2> HIDE DEF x
  <2>2. u \in SUBSET (1 .. n)
    OBVIOUS
  <2>3. h[t] = B(t)[n] /\ h[u] = B(u)[n]
    BY <2>2
  <2>4. /\ Masked(f, n, t)[x] = Masked(f, n, u)[x] + f[x] /\ f[x] \in Int
        /\ \A k \in 1 .. n : k # x => Masked(f, n, t)[k] = Masked(f, n, u)[k]
    BY <2>1 DEF Masked
  <2>5. Beginnings(B(t), n, Masked(f, n, t)) /\ Beginnings(B(u), n, Masked(f, n, u))
        /\ Masked(f, n, u) \in [1 .. n -> Int]
    BY <1>1
  <2> HIDE DEF h, u, B
  <2>6. B(t)[n] = B(u)[n] + f[x]
    <3> DEFINE whole == Masked(f, n, t)
               rest == Masked(f, n, u)
               atWhole == B(t)
               atRest == B(u)
    <3>1. Beginnings(atRest, n, rest) /\ Beginnings(atWhole, n, whole)
      BY <1>1
    <3>2. rest \in [1 .. n -> Int] /\ whole \in [1 .. n -> Int]
      BY <1>1
    <3>3. DifferAt(rest, whole, n, x)
      BY <2>1, <2>4 DEF DifferAt
    <3>4. whole[x] - rest[x] = f[x]
      BY <2>1, <2>4, <3>2
    <3> HIDE DEF whole, rest, atWhole, atRest
    <3>5. SumsDiffer(atRest, atWhole, n, rest, whole, x)
      BY <3>1, <3>2, <3>3, BeginningsOne, Zenon
    <3> QED
      BY <3>4, <3>5 DEF atWhole, atRest, SumsDiffer
  <2>7. B(u)[n] \in Int
    BY <2>5 DEF Beginnings
  <2> QED
    BY <2>3, <2>4, <2>6, <2>7 DEF x, u
<1>4. h = [t \in SUBSET (1 .. n) |-> h[t]]
  OBVIOUS
<1>5. ASSUME NEW a, Beginnings(a, n, f) PROVE h[1 .. n] = a[n]
  <2> DEFINE b == B(1 .. n)
  <2>1. h[1 .. n] = b[n]
    OBVIOUS
  <2>2. Beginnings(b, n, Masked(f, n, 1 .. n))
    BY <1>1
  <2> HIDE DEF h, b
  <2>3. \A k \in 1 .. n : Masked(f, n, 1 .. n)[k] = f[k]
    BY DEF Masked
  <2>4. b[n] = a[n]
    BY <1>5, <2>2, <2>3, BeginningsSame
  <2> QED
    BY <2>1, <2>4
<1> HIDE DEF h
<1>6. Adds(h, f, 1 .. n)
  <2>1. \A t \in SUBSET (1 .. n) : h[t] = IF t = {} THEN 0 ELSE f[some(t)] + h[t \ {some(t)}]
    BY <1>2, <1>3
  <2> QED
    BY <1>4, <2>1 DEF Adds
<1> QED
  BY <1>5, <1>6

LEMMA AddsUnique ==
    ASSUME NEW S, IsFiniteSet(S), NEW f, NEW g, NEW h, Adds(g, f, S), Adds(h, f, S)
    PROVE  g[S] = h[S]
<1> DEFINE some(t) == CHOOSE x \in t : TRUE
           N == Cardinality(S)
           P == {k \in 0 .. N : \A t \in SUBSET S : Cardinality(t) <= k => g[t] = h[t]}
<1>1. N \in Nat /\ \A t \in SUBSET S : IsFiniteSet(t) /\ Cardinality(t) \in Nat
  BY FS_CardinalityType, FS_Subset
<1>2. \A t \in SUBSET S : /\ g[t] = IF t = {} THEN 0 ELSE f[some(t)] + g[t \ {some(t)}]
                          /\ h[t] = IF t = {} THEN 0 ELSE f[some(t)] + h[t \ {some(t)}]
  BY DEF Adds
<1>3. 0 \in P
  <2>1. ASSUME NEW t \in SUBSET S, Cardinality(t) <= 0 PROVE g[t] = h[t]
    <3>1. t = {}
      BY <1>1, <2>1, FS_EmptySet
    <3> QED
      BY <1>2, <3>1
  <2> QED
    BY <1>1, <2>1
<1>4. ASSUME NEW k \in 0 .. N - 1, k \in P PROVE k + 1 \in P
  <2>1. k + 1 \in 0 .. N
    BY <1>1
  <2>2. ASSUME NEW t \in SUBSET S, Cardinality(t) <= k + 1, t # {} PROVE g[t] = h[t]
    <3> DEFINE x == some(t)
               u == t \ {x}
    <3>1. x \in t
      BY <2>2
    <3> HIDE DEF x
    <3>2. u \in SUBSET S /\ Cardinality(u) = Cardinality(t) - 1
      BY <1>1, <3>1, FS_RemoveElement
    <3>3. g[u] = h[u]
      <4>1. Cardinality(u) <= k
        BY <1>1, <2>2, <3>2
      <4> QED
        BY <1>4, <3>2, <4>1
    <3> HIDE DEF u, P
    <3> QED
      BY <1>2, <2>2, <3>3 DEF u, x
  <2>3. \A t \in SUBSET S : Cardinality(t) <= k + 1 => g[t] = h[t]
    <3>1. \A t \in SUBSET S : t = {} => g[t] = h[t]
      BY <1>2
    <3> HIDE DEF P
    <3> QED
      BY <2>2, <3>1
  <2> QED
    BY <2>1, <2>3
<1>5. N \in P
  <2> HIDE DEF P
  <2> QED
    BY <1>1, <1>3, <1>4, Reaches
<1> QED
  BY <1>1, <1>5

LEMMA SumIs ==
    ASSUME NEW n \in Nat, NEW f \in [1 .. n -> Int], NEW a, Beginnings(a, n, f)
    PROVE  SumFunction(f) = a[n]
<1>1. PICK h : Adds(h, f, 1 .. n) /\ h[1 .. n] = a[n]
  BY AddsExists
<1>2. DOMAIN f = 1 .. n /\ IsFiniteSet(1 .. n)
  BY FS_Interval
<1>3. PICK g : Adds(g, f, 1 .. n) /\ SumFunction(f) = g[1 .. n]
  <2> DEFINE iter == CHOOSE h1 : h1 = [t \in SUBSET (1 .. n) |-> IF t = {} THEN 0
                                          ELSE f[CHOOSE x \in t : TRUE] + h1[t \ {CHOOSE x \in t : TRUE}]]
  <2>1. SumFunction(f) = iter[1 .. n]
    BY <1>2 DEF SumFunction, SumFunctionOnSet, FoldFunctionOnSet, MapThenFoldSet
  <2>2. Adds(iter, f, 1 .. n)
    <3> DEFINE A(h1) == h1 = [t \in SUBSET (1 .. n) |-> IF t = {} THEN 0
                                ELSE f[CHOOSE x \in t : TRUE] + h1[t \ {CHOOSE x \in t : TRUE}]]
    <3>1. A(h)
      BY <1>1 DEF Adds
    <3> HIDE DEF A
    <3>2. A(CHOOSE h1 : A(h1))
      BY <3>1
    <3> QED
      BY <3>2 DEF A, Adds
  <2> QED
    BY <2>1, <2>2
<1> QED
  BY <1>1, <1>2, <1>3, AddsUnique

\* A sum grows by its last member.
LEMMA SumGrows ==
    ASSUME NEW n \in Nat, NEW f \in [1 .. n -> Int], NEW g \in [1 .. n + 1 -> Int],
           \A k \in 1 .. n : g[k] = f[k]
    PROVE  SumFunction(g) = SumFunction(f) + g[n + 1] /\ SumFunction(f) \in Int
<1>1. PICK a : Beginnings(a, n, f)
  BY BeginningsExist
<1>2. PICK b : Beginnings(b, n + 1, g)
  <2>1. n + 1 \in Nat
    OBVIOUS
  <2> QED
    BY <2>1, BeginningsExist
<1>3. SumFunction(f) = a[n] /\ SumFunction(g) = b[n + 1]
  <2>1. n + 1 \in Nat
    OBVIOUS
  <2> QED
    BY <1>1, <1>2, <2>1, SumIs
<1>4. a[n] = b[n]
  <2>1. \A k \in 0 .. n : a[k] = b[k]
    <3>1. n + 1 \in Nat /\ n <= n + 1 /\ \A k \in 1 .. n : f[k] = g[k]
      OBVIOUS
    <3> QED
      BY <1>1, <1>2, <3>1, BeginningsSame
  <2> QED
    BY <2>1
<1>5. b[n + 1] = b[(n + 1) - 1] + g[n + 1] /\ (n + 1) - 1 = n /\ n + 1 \in 1 .. n + 1
  BY <1>2 DEF Beginnings
<1>6. a[n] \in Int
  BY <1>1 DEF Beginnings
<1> QED
  BY <1>3, <1>4, <1>5, <1>6

LEMMA SumNumber == ASSUME NEW n \in Nat, NEW f \in [1 .. n -> Int] PROVE SumFunction(f) \in Int
<1>1. PICK a : Beginnings(a, n, f)
  BY BeginningsExist
<1>2. a[n] \in Int
  BY <1>1 DEF Beginnings
<1>3. SumFunction(f) = a[n]
  BY <1>1, SumIs
<1> QED
  BY <1>2, <1>3

\* A window that slides by one loses its first member and gains its last.
LEMMA SumSlides ==
    ASSUME NEW n \in Nat, n > 0, NEW f \in [1 .. n -> Int], NEW g \in [1 .. n -> Int],
           \A k \in 1 .. n - 1 : g[k] = f[k + 1]
    PROVE  SumFunction(g) = SumFunction(f) - f[1] + g[n]
<1>1. PICK a : Beginnings(a, n, f)
  BY BeginningsExist
<1>2. PICK b : Beginnings(b, n, g)
  BY BeginningsExist
<1> DEFINE P == {k \in 0 .. n - 1 : b[k] = a[k + 1] - f[1]}
<1>3. 0 \in P
  <2>1. a[1] = a[0] + f[1] /\ a[0] = 0 /\ b[0] = 0 /\ f[1] \in Int
    BY <1>1, <1>2 DEF Beginnings
  <2> QED
    BY <2>1
<1>4. ASSUME NEW k \in 0 .. (n - 1) - 1, k \in P PROVE k + 1 \in P
  <2>1. k + 1 \in 1 .. n /\ k + 2 \in 1 .. n /\ k + 1 \in 1 .. n - 1 /\ (k + 1) - 1 = k
        /\ (k + 2) - 1 = k + 1 /\ (k + 1) + 1 = k + 2 /\ k + 1 \in 0 .. n - 1
    OBVIOUS
  <2>2. a[k + 2] = a[k + 1] + f[k + 2] /\ b[k + 1] = b[k] + g[k + 1] /\ g[k + 1] = f[k + 2]
    <3>1. a[k + 2] = a[(k + 2) - 1] + f[k + 2]
      BY <1>1, <2>1 DEF Beginnings
    <3>2. b[k + 1] = b[(k + 1) - 1] + g[k + 1]
      BY <1>2, <2>1 DEF Beginnings
    <3>3. g[k + 1] = f[(k + 1) + 1]
      BY <2>1
    <3>4. (k + 2) - 1 = k + 1 /\ (k + 1) - 1 = k /\ (k + 1) + 1 = k + 2
      OBVIOUS
    <3> QED
      BY ONLY <3>1, <3>2, <3>3, <3>4, Zenon
  <2>3. a[k + 1] \in Int /\ f[k + 2] \in Int /\ f[1] \in Int
    <3>1. a \in [0 .. n -> Int]
      BY <1>1 DEF Beginnings
    <3>2. k + 1 \in 0 .. n /\ 1 \in 1 .. n
      OBVIOUS
    <3> QED
      BY <2>1, <3>1, <3>2
  <2> QED
    BY <1>4, <2>1, <2>2, <2>3
<1>5. n - 1 \in P
  <2> HIDE DEF P
  <2>1. n - 1 \in Nat
    OBVIOUS
  <2> QED
    BY <1>3, <1>4, <2>1, Reaches
<1>6. b[n] = b[n - 1] + g[n] /\ b[n - 1] = a[n] - f[1] /\ a[n] \in Int /\ f[1] \in Int /\ g[n] \in Int
  <2>1. n \in 1 .. n /\ (n - 1) + 1 = n /\ n \in 0 .. n /\ 1 \in 1 .. n
    OBVIOUS
  <2> QED
    BY <1>1, <1>2, <1>5, <2>1 DEF Beginnings
<1>7. SumFunction(f) = a[n] /\ SumFunction(g) = b[n]
  BY <1>1, <1>2, SumIs
<1> QED
  BY <1>6, <1>7

\* A mean lies between the members.
LEMMA MeanBetween ==
    ASSUME NEW n \in Nat, n > 0, NEW f \in [1 .. n -> Int], NEW lo \in Int, NEW hi \in Int,
           \A k \in 1 .. n : f[k] \in lo .. hi
    PROVE  SumFunction(f) \div n \in lo .. hi
<1>1. PICK a : Beginnings(a, n, f)
  BY BeginningsExist
<1> DEFINE P == {k \in 0 .. n : k * lo <= a[k] /\ a[k] <= k * hi}
<1>2. 0 \in P
  <2>1. a[0] = 0 /\ 0 * lo = 0 /\ 0 * hi = 0
    BY <1>1 DEF Beginnings
  <2> QED
    BY <2>1
<1>3. ASSUME NEW k \in 0 .. n - 1, k \in P PROVE k + 1 \in P
  <2>1. k + 1 \in 1 .. n /\ (k + 1) - 1 = k /\ k \in 0 .. n /\ k + 1 \in 0 .. n
    OBVIOUS
  <2>2. a[k + 1] = a[k] + f[k + 1] /\ a[k] \in Int /\ f[k + 1] \in lo .. hi
    BY <1>1, <2>1 DEF Beginnings
  <2>3. (k + 1) * lo = k * lo + lo /\ (k + 1) * hi = k * hi + hi /\ k * lo \in Int /\ k * hi \in Int
    OBVIOUS
  <2>4. k * lo <= a[k] /\ a[k] <= k * hi
    BY <1>3
  <2>5. k * lo + lo <= a[k + 1] /\ a[k + 1] <= k * hi + hi
    BY <2>2, <2>3, <2>4
  <2> QED
    BY <2>1, <2>3, <2>5
<1>4. n \in P
  <2> HIDE DEF P
  <2> QED
    BY <1>2, <1>3, Reaches
<1>5. n * lo <= a[n] /\ a[n] <= n * hi /\ a[n] \in Int
  BY <1>1, <1>4 DEF Beginnings
<1>6. SumFunction(f) = a[n]
  BY <1>1, SumIs
<1> QED
  BY <1>5, <1>6, DivBetween

\* p names the members of f in order.
Orders(p, f, n) ==
    /\ p \in [1 .. n -> 1 .. n]
    /\ \A i, j \in 1 .. n : p[i] = p[j] => i = j
    /\ \A i, j \in 1 .. n : i < j => f[p[i]] <= f[p[j]]

\* A new member is put behind those that are not larger.
LEMMA OrderInserted ==
    ASSUME NEW k \in Nat, NEW f \in [1 .. k + 1 -> Int], NEW p, Orders(p, f, k)
    PROVE  \E q : Orders(q, f, k + 1)
<1>1. /\ p \in [1 .. k -> 1 .. k] /\ \A i, j \in 1 .. k : p[i] = p[j] => i = j
      /\ \A i, j \in 1 .. k : i < j => f[p[i]] <= f[p[j]]
  BY DEF Orders
<1> DEFINE x == f[k + 1]
           T == {i \in 1 .. k : x < f[p[i]]} \cup {k + 1}
<1>2. PICK m \in T : \A i \in T : m <= i
  <2>1. T \in SUBSET Nat /\ T # {}
    OBVIOUS
  <2> HIDE DEF T
  <2> QED
    BY <2>1, LeastOf
<1>3. m \in 1 .. k + 1 /\ m \in Nat
  BY <1>2
<1>4. \A i \in 1 .. k : f[p[i]] \in Int /\ x \in Int
  <2>1. \A i \in 1 .. k : p[i] \in 1 .. k + 1
    BY <1>1
  <2> QED
    BY <2>1
<1>5. \A i \in 1 .. k : i < m => f[p[i]] <= x
  <2> TAKE i \in 1 .. k
  <2> HAVE i < m
  <2>1. i \notin T
    BY <1>2, <1>3
  <2> QED
    BY <1>4, <2>1
<1>6. \A i \in 1 .. k : m <= i => x <= f[p[i]]
  <2> TAKE i \in 1 .. k
  <2> HAVE m <= i
  <2>1. m \in 1 .. k /\ x < f[p[m]]
    BY <1>2, <1>3
  <2>2. f[p[m]] <= f[p[i]]
    <3>1. CASE m = i
      BY <1>4, <2>1, <3>1
    <3>2. CASE m < i
      BY <1>1, <2>1, <3>2
    <3> QED
      BY <1>3, <3>1, <3>2
  <2> QED
    BY <1>4, <2>1, <2>2
<1> DEFINE q == [i \in 1 .. k + 1 |-> IF i < m THEN p[i] ELSE IF i = m THEN k + 1 ELSE p[i - 1]]
<1>7. ASSUME NEW i \in 1 .. k + 1
      PROVE  /\ i < m => i \in 1 .. k /\ q[i] = p[i]
             /\ i = m => q[i] = k + 1
             /\ i > m => i - 1 \in 1 .. k /\ q[i] = p[i - 1]
  BY <1>3
<1> HIDE DEF q, x, T
<1>8. q \in [1 .. k + 1 -> 1 .. k + 1]
  <2>1. \A i \in 1 .. k : p[i] \in 1 .. k + 1
    BY <1>1
  <2>2. \A i \in 1 .. k + 1 : q[i] \in 1 .. k + 1
    <3> TAKE i \in 1 .. k + 1
    <3>1. i < m \/ i = m \/ i > m
      BY <1>3
    <3>2. CASE i < m
      BY <1>7, <2>1, <3>2
    <3>3. CASE i = m
      <4>1. k + 1 \in 1 .. k + 1
        OBVIOUS
      <4> QED
        BY <1>7, <3>3, <4>1
    <3>4. CASE i > m
      BY <1>7, <2>1, <3>4
    <3> QED
      BY <3>1, <3>2, <3>3, <3>4
  <2> QED
    BY <2>2 DEF q
<1>9. ASSUME NEW i \in 1 .. k + 1, NEW j \in 1 .. k + 1, i < j PROVE q[i] # q[j] /\ f[q[i]] <= f[q[j]]
  <2>1. CASE j < m
    <3>1. i < m /\ i \in 1 .. k /\ j \in 1 .. k /\ q[i] = p[i] /\ q[j] = p[j]
      BY <1>3, <1>7, <1>9, <2>1
    <3> QED
      BY <1>1, <1>9, <3>1
  <2>2. CASE j = m
    <3>1. i \in 1 .. k /\ i < m /\ q[i] = p[i] /\ q[j] = k + 1 /\ p[i] \in 1 .. k
      BY <1>1, <1>3, <1>7, <1>9, <2>2
    <3>2. f[p[i]] <= x
      BY <1>5, <3>1
    <3> QED
      BY <3>1, <3>2 DEF x
  <2>3. CASE i = m
    <3>1. j - 1 \in 1 .. k /\ m <= j - 1 /\ q[j] = p[j - 1] /\ q[i] = k + 1 /\ p[j - 1] \in 1 .. k
      BY <1>1, <1>3, <1>7, <1>9, <2>3
    <3>2. x <= f[p[j - 1]]
      BY <1>6, <3>1
    <3> QED
      BY <3>1, <3>2 DEF x
  <2>4. CASE i < m /\ j > m
    <3>1. i \in 1 .. k /\ j - 1 \in 1 .. k /\ i < j - 1 /\ q[i] = p[i] /\ q[j] = p[j - 1]
      BY <1>3, <1>7, <1>9, <2>4
    <3>2. i # j - 1
      BY <3>1
    <3>3. p[i] # p[j - 1] /\ f[p[i]] <= f[p[j - 1]]
      BY <1>1, <3>1, <3>2
    <3> QED
      BY <3>1, <3>3
  <2>5. CASE i > m
    <3>1. j > m /\ i - 1 \in 1 .. k /\ j - 1 \in 1 .. k /\ i - 1 < j - 1 /\ q[i] = p[i - 1] /\ q[j] = p[j - 1]
      BY <1>3, <1>7, <1>9, <2>5
    <3> QED
      BY <1>1, <3>1
  <2> QED
    BY <1>3, <1>9, <2>1, <2>2, <2>3, <2>4, <2>5
<1>10. \A i, j \in 1 .. k + 1 : q[i] = q[j] => i = j
  BY <1>9
<1>11. Orders(q, f, k + 1)
  BY <1>8, <1>9, <1>10 DEF Orders
<1> QED
  BY <1>11

LEMMA OrderExists ==
    ASSUME NEW n \in Nat, NEW f \in [1 .. n -> Int]
    PROVE  \E p : Orders(p, f, n)
<1> DEFINE P == {k \in 0 .. n : \E p : Orders(p, f, k)}
<1>1. 0 \in P
  <2> DEFINE p == [i \in 1 .. 0 |-> i]
  <2>1. Orders(p, f, 0)
    BY DEF Orders
  <2> HIDE DEF p
  <2> QED
    BY <2>1
<1>2. ASSUME NEW k \in 0 .. n - 1, k \in P PROVE k + 1 \in P
  <2>1. PICK p : Orders(p, f, k)
    BY <1>2
  <2> DEFINE g == [i \in 1 .. k + 1 |-> f[i]]
  <2>2. g \in [1 .. k + 1 -> Int] /\ \A i \in 1 .. k + 1 : g[i] = f[i]
    OBVIOUS
  <2> HIDE DEF g
  <2>3. Orders(p, g, k)
    <3>1. /\ p \in [1 .. k -> 1 .. k] /\ \A i, j \in 1 .. k : p[i] = p[j] => i = j
          /\ \A i, j \in 1 .. k : i < j => f[p[i]] <= f[p[j]]
      BY <2>1 DEF Orders
    <3>2. \A i \in 1 .. k : g[p[i]] = f[p[i]]
      <4>1. \A i \in 1 .. k : p[i] \in 1 .. k + 1
        BY <3>1
      <4> QED
        BY <2>2, <4>1
    <3> QED
      BY <3>1, <3>2 DEF Orders
  <2>4. PICK q : Orders(q, g, k + 1)
    <3>1. k \in Nat
      OBVIOUS
    <3> QED
      BY <2>2, <2>3, <3>1, OrderInserted
  <2>5. Orders(q, f, k + 1)
    BY <2>2, <2>4 DEF Orders
  <2> QED
    BY <2>5
<1>3. n \in P
  <2> HIDE DEF P
  <2> QED
    BY <1>1, <1>2, Reaches
<1> QED
  BY <1>3

\* The least and the largest of finitely many numbers.
LEMMA EndsOf ==
    ASSUME NEW n \in Nat, n > 0, NEW f \in [1 .. n -> Int]
    PROVE  LET S == {f[k] : k \in 1 .. n} IN
           /\ S \subseteq Int /\ Min(S) \in S /\ Max(S) \in S
           /\ \A x \in S : Min(S) <= x /\ x <= Max(S)
<1> DEFINE S == {f[k] : k \in 1 .. n}
<1>1. PICK p : Orders(p, f, n)
  BY OrderExists
<1>2. /\ p \in [1 .. n -> 1 .. n] /\ \A i, j \in 1 .. n : i < j => f[p[i]] <= f[p[j]]
      /\ \A i, j \in 1 .. n : p[i] = p[j] => i = j
  BY <1>1 DEF Orders
<1>3. \A i \in 1 .. n : \E k \in 1 .. n : p[k] = i
  <2>1. p \in Injection(1 .. n, 1 .. n)
    BY <1>2 DEF Injection, IsInjective
  <2>2. p \in Surjection(1 .. n, 1 .. n)
    BY <2>1, FS_Interval, FS_Injection
  <2> QED
    BY <2>2 DEF Surjection
<1>4. ASSUME NEW k \in 1 .. n PROVE f[p[1]] <= f[k] /\ f[k] <= f[p[n]]
  <2>1. PICK i \in 1 .. n : p[i] = k
    BY <1>3
  <2>2. 1 \in 1 .. n /\ n \in 1 .. n /\ f[k] \in Int
    OBVIOUS
  <2>3. f[p[1]] <= f[p[i]]
    <3>1. CASE i = 1
      BY <2>1, <2>2, <3>1
    <3>2. CASE 1 < i
      BY <1>2, <2>2, <3>2
    <3> QED
      BY <3>1, <3>2
  <2>4. f[p[i]] <= f[p[n]]
    <3>1. CASE i = n
      BY <2>1, <2>2, <3>1
    <3>2. CASE i < n
      BY <1>2, <2>2, <3>2
    <3> QED
      BY <3>1, <3>2
  <2> QED
    BY <2>1, <2>3, <2>4
<1>5. S \subseteq Int /\ f[p[1]] \in S /\ f[p[n]] \in S
  <2>1. p[1] \in 1 .. n /\ p[n] \in 1 .. n
    BY <1>2
  <2> QED
    BY <2>1
<1>6. \A x \in S : f[p[1]] <= x /\ x <= f[p[n]]
  BY <1>4
<1> HIDE DEF S
<1>7. Min(S) \in S /\ \A x \in S : Min(S) <= x
  BY <1>5, <1>6 DEF Min
<1>8. Max(S) \in S /\ \A x \in S : x <= Max(S)
  <2>1. \A x \in S : f[p[n]] >= x
    BY <1>5, <1>6
  <2>2. Max(S) \in S /\ \A x \in S : Max(S) >= x
    BY <1>5, <2>1 DEF Max
  <2> QED
    BY <1>5, <2>2
<1> QED
  BY <1>5, <1>7, <1>8 DEF S

\* The ends of a set of numbers between 0 and n.
LEMMA EndsWithin ==
    ASSUME NEW n \in Nat, NEW S \in SUBSET (0 .. n), S # {}
    PROVE  /\ Min(S) \in S /\ Max(S) \in S /\ \A x \in S : Min(S) <= x /\ x <= Max(S)
<1>1. \A x \in S : x \in Int /\ x \in Nat /\ x <= n /\ n - x \in Nat
  OBVIOUS
<1>2. PICK a \in S : \A x \in S : a <= x
  <2>1. S \in SUBSET Nat
    BY <1>1
  <2> QED
    BY <2>1, LeastOf
<1>3. PICK b \in S : \A x \in S : x <= b
  <2> DEFINE T == {n - x : x \in S}
  <2>1. T \in SUBSET Nat /\ T # {}
    BY <1>1
  <2> HIDE DEF T
  <2>2. PICK t \in T : \A u \in T : t <= u
    BY <2>1, LeastOf
  <2>3. PICK y \in S : t = n - y
    BY DEF T
  <2>4. \A x \in S : x <= y
    <3> TAKE x \in S
    <3>1. n - x \in T
      BY DEF T
    <3>2. n - y <= n - x
      BY <2>2, <2>3, <3>1
    <3> QED
      BY <1>1, <3>2
  <2> QED
    BY <2>4
<1>4. Min(S) \in S /\ \A x \in S : Min(S) <= x
  BY <1>2 DEF Min
<1>5. Max(S) \in S /\ \A x \in S : x <= Max(S)
  <2>1. \A x \in S : b >= x
    BY <1>1, <1>3
  <2>2. Max(S) \in S /\ \A x \in S : Max(S) >= x
    BY <2>1 DEF Max
  <2> QED
    BY <1>1, <2>2
<1> QED
  BY <1>4, <1>5

LEMMA MaxIs == ASSUME NEW S, S \subseteq Int, NEW m \in S, \A x \in S : x <= m PROVE Max(S) = m
<1>1. Max(S) \in S /\ \A y \in S : Max(S) >= y
  <2>1. \A y \in S : m >= y
    OBVIOUS
  <2> QED
    BY <2>1 DEF Max
<1>2. Max(S) >= m /\ Max(S) <= m /\ Max(S) \in Int /\ m \in Int
  BY <1>1
<1> QED
  BY <1>2

LEMMA MinIs == ASSUME NEW S, S \subseteq Int, NEW m \in S, \A x \in S : m <= x PROVE Min(S) = m
<1>1. Min(S) \in S /\ \A y \in S : Min(S) <= y
  BY DEF Min
<1>2. Min(S) >= m /\ Min(S) <= m /\ Min(S) \in Int /\ m \in Int
  BY <1>1
<1> QED
  BY <1>2

\* The ends of up to four numbers.
LEMMA EndsOfFour ==
    ASSUME NEW a \in Int, NEW b \in Int, NEW c \in Int, NEW d \in Int, NEW S, S = {a, b, c, d}
    PROVE  /\ S \subseteq Int /\ Min(S) \in S /\ Max(S) \in S
           /\ \A x \in S : Min(S) <= x /\ x <= Max(S)
<1> DEFINE f == [k \in 1 .. 4 |-> IF k = 1 THEN a ELSE IF k = 2 THEN b ELSE IF k = 3 THEN c ELSE d]
<1>1. f \in [1 .. 4 -> Int] /\ f[1] = a /\ f[2] = b /\ f[3] = c /\ f[4] = d
  OBVIOUS
<1> HIDE DEF f
<1>2. 1 .. 4 = {1, 2, 3, 4}
  OBVIOUS
<1>3. S = {f[k] : k \in 1 .. 4}
  <2>1. {f[k] : k \in 1 .. 4} = {f[1], f[2], f[3], f[4]}
    BY <1>2
  <2> QED
    BY <1>1, <2>1
<1>4. LET T == {f[k] : k \in 1 .. 4} IN
      /\ T \subseteq Int /\ Min(T) \in T /\ Max(T) \in T
      /\ \A x \in T : Min(T) <= x /\ x <= Max(T)
  <2>1. 4 \in Nat /\ 4 > 0
    OBVIOUS
  <2> QED
    BY ONLY <1>1, <2>1, EndsOf
<1> DEFINE T == {f[k] : k \in 1 .. 4}
<1>5. S = T
  BY <1>3
<1>6. /\ T \subseteq Int /\ Min(T) \in T /\ Max(T) \in T
      /\ \A x \in T : Min(T) <= x /\ x <= Max(T)
  BY <1>4
<1> HIDE DEF T
<1> QED
  BY <1>5, <1>6

\* What lies in every range that holds four numbers lies between their ends.
LEMMA InFour ==
    ASSUME NEW a \in Int, NEW b \in Int, NEW c \in Int, NEW d \in Int, NEW S, S = {a, b, c, d}, NEW v,
           \A lo, hi \in Int : (\A y \in S : y \in lo .. hi) => v \in lo .. hi
    PROVE  v \in Min(S) .. Max(S)
<1> DEFINE lo == Min(S)
           hi == Max(S)
<1>1. S \subseteq Int /\ lo \in S /\ hi \in S /\ \A x \in S : lo <= x /\ x <= hi
  BY EndsOfFour
<1> HIDE DEF lo, hi
<1>2. lo \in Int /\ hi \in Int /\ \A y \in S : y \in lo .. hi
  BY <1>1
<1>3. v \in lo .. hi
  BY <1>2
<1> QED
  BY <1>3 DEF lo, hi

LEMMA ProductIs == ASSUME NEW a \in Int, NEW b \in Int PROVE a * b \in Int
  OBVIOUS
=============================================================================
