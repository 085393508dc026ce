------------------------------- MODULE Lemmas -------------------------------
(***************************************************************************)
(* Facts that the proofs share: numbers that wrap, quotients, and loops    *)
(* over 1 .. n that carry a value from one round to the next.              *)
(***************************************************************************)
EXTENDS Integers, WellFoundedInduction, TLAPS

(* Numbers that wrap at m                                                   *)

LEMMA WrapRange ==
  ASSUME NEW a \in Int, NEW m \in Nat \ {0}
  PROVE  a % m \in 0 .. m - 1
OBVIOUS

LEMMA WrapUnique ==
  ASSUME NEW m \in Nat \ {0}, NEW q \in Int, NEW r \in 0 .. m - 1
  PROVE  (q * m + r) % m = r
OBVIOUS

LEMMA WrapSplit ==
  ASSUME NEW a \in Int, NEW m \in Nat \ {0}
  PROVE  \E q \in Int : a = q * m + (a % m)
<1> DEFINE q == a \div m
           r == a % m
<1>1. r = a - m * q
  BY SMT
<1>2. q \in Int /\ r \in Int
  BY WrapRange
<1> HIDE DEF q, r
<1>3. a = q * m + r
  BY <1>1, <1>2, SMT
<1> QED
  BY <1>2, <1>3 DEF r

(* Whole turns make no difference. *)
LEMMA WrapTurns ==
  ASSUME NEW a \in Int, NEW k \in Int, NEW m \in Nat \ {0}
  PROVE  (a + k * m) % m = a % m
<1>1. PICK q \in Int : a = q * m + (a % m)
  BY WrapSplit
<1> DEFINE r == a % m
<1>2. r \in 0 .. m - 1 /\ a = q * m + r
  BY <1>1, WrapRange
<1> HIDE DEF r
<1>3. a + k * m = (q + k) * m + r
  BY <1>2, SMT
<1>4. ((q + k) * m + r) % m = r
  <2>1. q + k \in Int
    OBVIOUS
  <2> QED
    BY <1>2, <2>1, WrapUnique
<1> QED
  BY <1>3, <1>4 DEF r

(* A sum or a difference may be taken of wrapped numbers. *)
LEMMA WrapAdd ==
  ASSUME NEW a \in Int, NEW b \in Int, NEW m \in Nat \ {0}
  PROVE  ((a % m) + b) % m = (a + b) % m
<1>1. PICK q \in Int : a = q * m + (a % m)
  BY WrapSplit
<1> DEFINE r == a % m
<1>2. r \in Int /\ r + b \in Int
  BY WrapRange
<1>3. a = q * m + r
  BY <1>1
<1> HIDE DEF r
<1>4. a + b = (r + b) + q * m
  BY <1>2, <1>3, SMT
<1>5. ((r + b) + q * m) % m = (r + b) % m
  BY <1>2, WrapTurns
<1> QED
  BY <1>4, <1>5 DEF r

LEMMA WrapSub ==
  ASSUME NEW a \in Int, NEW b \in Int, NEW m \in Nat \ {0}
  PROVE  ((a % m) - (b % m)) % m = (a - b) % m
<1>1. PICK q \in Int : b = q * m + (b % m)
  BY WrapSplit
<1>2. a % m \in Int /\ b % m \in Int
  BY WrapRange
<1>3. ((a % m) - (b % m)) % m = (a - (b % m)) % m
  <2>1. - (b % m) \in Int /\ (a % m) + (- (b % m)) = (a % m) - (b % m)
        /\ a + (- (b % m)) = a - (b % m)
    BY <1>2
  <2> QED
    BY <2>1, WrapAdd
<1>4. a - (b % m) = (a - b) + q * m
  BY <1>1, <1>2, SMT
<1>5. ((a - b) + q * m) % m = (a - b) % m
  <2>1. a - b \in Int
    OBVIOUS
  <2> QED
    BY <2>1, WrapTurns
<1> QED
  BY <1>3, <1>4, <1>5

(* Numbers less than a turn apart can be told apart. *)
LEMMA WrapDistance ==
  ASSUME NEW a \in Int, NEW b \in Int, NEW m \in Nat \ {0}, a - b \in 0 .. m - 1
  PROVE  ((a % m) - (b % m)) % m = a - b
<1>1. (a - b) % m = a - b
  <2> DEFINE d == a - b
  <2>1. d \in 0 .. m - 1
    OBVIOUS
  <2> HIDE DEF d
  <2>2. d % m = d
    BY <2>1, SMT
  <2> QED
    BY <2>2 DEF d
<1> QED
  BY <1>1, WrapSub

LEMMA WrapInjective ==
  ASSUME NEW a \in Int, NEW b \in Int, NEW m \in Nat \ {0},
         - m < a - b, a - b < m, a % m = b % m
  PROVE  a = b
<1>1. CASE a >= b
  <2>1. a - b \in 0 .. m - 1
    BY <1>1
  <2>2. ((a % m) - (b % m)) % m = a - b
    BY <2>1, WrapDistance
  <2>3. (a % m) - (b % m) = 0
    BY WrapRange
  <2>4. 0 % m = 0
    BY SMT
  <2> QED
    BY <2>2, <2>3, <2>4
<1>2. CASE ~ (a >= b)
  <2>1. b - a \in 0 .. m - 1
    BY <1>2
  <2>2. ((b % m) - (a % m)) % m = b - a
    BY <2>1, WrapDistance
  <2>3. (b % m) - (a % m) = 0
    BY WrapRange
  <2>4. 0 % m = 0
    BY SMT
  <2> QED
    BY <2>2, <2>3, <2>4
<1> QED
  BY <1>1, <1>2

(* Quotients                                                                *)

LEMMA DivBounds ==
  ASSUME NEW n \in Nat, NEW d \in Nat \ {0}, NEW lo \in Nat, NEW hi \in Nat,
         lo * d <= n, n <= hi * d
  PROVE  n \div d \in Int /\ lo <= n \div d /\ n \div d <= hi
<1>1. n \div d \in Int
  OBVIOUS
<1>2. lo <= n \div d
  OBVIOUS
<1>3. n \div d <= hi
  OBVIOUS
<1> QED
  BY <1>1, <1>2, <1>3

-----------------------------------------------------------------------------
(* Loops                                                                    *)

(* What holds before the first round and is kept by every round holds after *)
(* each.  T is the set of rounds after which it holds.                      *)
LEMMA LoopInvariant ==
  ASSUME NEW n \in Nat, NEW T, 0 \in T, \A k \in 1 .. n : k - 1 \in T => k \in T
  PROVE  0 .. n \subseteq T
<1> DEFINE bad == {k \in 0 .. n : k \notin T}
<1> SUFFICES ASSUME bad # {}
             PROVE  FALSE
  OBVIOUS
<1>1. bad \subseteq Nat
  OBVIOUS
<1>2. PICK k \in bad : \A j \in bad : <<j, k>> \notin OpToRel(<, Nat)
  BY <1>1, NatLessThanWellFounded, WFMin
<1>3. k \in 0 .. n /\ k \notin T /\ k # 0
  OBVIOUS
<1>4. k - 1 \notin bad
  <2>1. k - 1 \in Nat /\ k \in Nat /\ k - 1 < k
    BY <1>3
  <2>2. <<k - 1, k>> \in OpToRel(<, Nat)
    BY <2>1 DEF OpToRel
  <2> QED
    BY <1>2, <2>2
<1>5. k - 1 \in T
  BY <1>3, <1>4
<1> QED
  BY <1>3, <1>5

(* The values g of a loop after each of its n rounds, of which round k      *)
(* steps from the value t to step[<<t, k>>].                                *)
IsRun(g, n, S, start, step) ==
    /\ g \in [0 .. n -> S]
    /\ g[0] = start
    /\ \A k \in 1 .. n : g[k] = step[<<g[k - 1], k>>]

(* Every loop whose rounds step from value to value runs to its end.        *)
LEMMA LoopRuns ==
  ASSUME NEW n \in Nat, NEW S, NEW start \in S, NEW step \in [S \X (1 .. n) -> S]
  PROVE  \E g : IsRun(g, n, S, start, step)
<1> DEFINE Run(m, g) == IsRun(g, m, S, start, step)
           T == {m \in 0 .. n : \E g : Run(m, g)}
<1>1. 0 \in T
  <2> DEFINE g == [k \in 0 .. 0 |-> start]
  <2>1. Run(0, g)
    BY DEF IsRun
  <2>2. 0 \in 0 .. n
    OBVIOUS
  <2> HIDE DEF g
  <2>3. \E h : Run(0, h)
    BY <2>1
  <2> HIDE DEF Run
  <2> QED
    BY <2>2, <2>3
<1>2. ASSUME NEW m \in 1 .. n, m - 1 \in T
      PROVE  m \in T
  <2>1. PICK g : Run(m - 1, g)
    BY <1>2
  <2> DEFINE h == [k \in 0 .. m |-> IF k = m THEN step[<<g[m - 1], m>>] ELSE g[k]]
  <2> USE DEF IsRun
  <2>2. g[m - 1] \in S /\ step[<<g[m - 1], m>>] \in S
    <3>1. m - 1 \in 0 .. m - 1
      BY <1>2
    <3> QED
      BY <2>1, <3>1
  <2>3. h \in [0 .. m -> S]
    BY <2>1, <2>2
  <2>4. h[0] = start /\ h[m] = step[<<g[m - 1], m>>]
    BY <2>1
  <2>5. \A k \in 0 .. m - 1 : h[k] = g[k]
    OBVIOUS
  <2>6. ASSUME NEW k \in 1 .. m
        PROVE  h[k] = step[<<h[k - 1], k>>]
    <3>1. CASE k = m
      <4>1. h[m - 1] = g[m - 1]
        BY <2>5
      <4> QED
        BY <2>4, <3>1, <4>1
    <3>2. CASE k # m
      <4>1. k \in 1 .. m - 1 /\ k - 1 \in 0 .. m - 1 /\ k \in 0 .. m - 1
        BY <2>6, <3>2
      <4> QED
        BY <2>1, <2>5, <4>1
    <3> QED
      BY <3>1, <3>2
  <2> HIDE DEF h
  <2>7. Run(m, h)
    BY <2>3, <2>4, <2>6
  <2> QED
    BY <2>7
<1>3. n \in T
  <2> HIDE DEF T
  <2> QED
    BY <1>1, <1>2, LoopInvariant
<1>4. PICK g : Run(n, g)
  BY <1>3
<1> QED
  BY <1>4
=============================================================================
