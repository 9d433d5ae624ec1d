----------------------------- MODULE ProofBasics -----------------------------
(***************************************************************************)
(* Facts about the natural numbers that the proofs of several components   *)
(* need: the least element of a set and induction, both stated for sets    *)
(* and not for predicates, so that a proof can cite them.                  *)
(***************************************************************************)
EXTENDS Integers, WellFoundedInduction, TLAPS

LEMMA LeastNatural ==
    ASSUME NEW S \in SUBSET Nat, S # {}
    PROVE  \E n \in S : \A m \in S : n <= m
<1>1. PICK n \in S : \A m \in S : ~(<<m, n>> \in OpToRel(<, Nat))
    BY NatLessThanWellFounded, WFMin, Zenon
<1>2. ASSUME NEW m \in S PROVE n <= m
    <2>1. m \in Nat /\ n \in Nat
        OBVIOUS
    <2>2. <<m, n>> \in Nat \X Nat
        BY <2>1
    <2>3. ~(m < n)
        BY <1>1, <2>2, Zenon DEF OpToRel
    <2>4. QED
        BY <2>1, <2>3
<1>3. QED
    BY <1>2

\* Induction over the natural numbers, for a set.
LEMMA SetInduction ==
    ASSUME NEW S \in SUBSET Nat, 0 \in S, \A n \in S : n + 1 \in S
    PROVE  S = Nat
<1> SUFFICES ASSUME Nat \ S # {} PROVE FALSE
    OBVIOUS
<1>1. PICK n \in Nat \ S : \A m \in Nat \ S : n <= m
    BY LeastNatural
<1>2. n - 1 \in Nat /\ n - 1 \notin Nat \ S
    BY <1>1
<1>3. (n - 1) + 1 \in S
    BY <1>2
<1>4. QED
    BY <1>1, <1>3

\* g is the first n + 1 values of the sequence that starts with x and in which
\* step says what follows the i-th value.
Unfolds(g, S, x, step, n) ==
    /\ g \in [0 .. n -> S]
    /\ g[0] = x
    /\ \A i \in 0 .. n - 1 : g[i + 1] = step[<<i, g[i]>>]

\* A function defined by recursion exists, however long its domain.
LEMMA RecursionExists ==
    ASSUME NEW S, NEW x, x \in S, NEW step, step \in [Nat \X S -> S], NEW n, n \in Nat
    PROVE  \E g : Unfolds(g, S, x, step, n)
<1> DEFINE Good(m, g) == g[0] = x /\ \A i \in 0 .. m - 1 : g[i + 1] = step[<<i, g[i]>>]
           T == { m \in Nat : \E g \in [0 .. m -> S] : Good(m, g) }
<1>1. 0 \in T
    <2> DEFINE g == [i \in 0 .. 0 |-> x]
    <2>1. g \in [0 .. 0 -> S] /\ Good(0, g)
        OBVIOUS
    <2>2. QED
        BY <2>1
<1>2. ASSUME NEW m \in T PROVE m + 1 \in T
    <2>1. PICK g \in [0 .. m -> S] : Good(m, g)
        OBVIOUS
    <2> DEFINE h == [i \in 0 .. m + 1 |-> IF i = m + 1 THEN step[<<m, g[m]>>] ELSE g[i]]
    <2>2. m \in Nat /\ g[m] \in S /\ step[<<m, g[m]>>] \in S
        OBVIOUS
    <2>3. h \in [0 .. m + 1 -> S]
        BY <2>2
    <2>4. h[0] = x
        BY <2>1, <2>2
    <2>5. \A i \in 0 .. m : h[i] = g[i]
        BY <2>2
    <2>6. h[m + 1] = step[<<m, h[m]>>]
        <3>1. m \in 0 .. m /\ m + 1 \in 0 .. m + 1
            BY <2>2
        <3>2. h[m + 1] = step[<<m, g[m]>>]
            BY <3>1
        <3> HIDE DEF h
        <3>3. QED
            BY <2>5, <3>1, <3>2
    <2>7. \A i \in 0 .. (m + 1) - 1 : h[i + 1] = step[<<i, h[i]>>]
        <3> SUFFICES ASSUME NEW i \in 0 .. (m + 1) - 1 PROVE h[i + 1] = step[<<i, h[i]>>]
            OBVIOUS
        <3> HIDE DEF h
        <3>1. CASE i = m
            BY <2>6, <3>1
        <3>2. CASE i # m
            <4>1. i \in 0 .. m - 1 /\ i + 1 \in 0 .. m /\ i \in 0 .. m
                BY <2>2, <3>2
            <4>2. g[i + 1] = step[<<i, g[i]>>]
                BY <2>1, <4>1
            <4>3. QED
                BY <2>5, <4>1, <4>2
        <3>3. QED
            BY <3>1, <3>2
    <2> HIDE DEF h
    <2>8. Good(m + 1, h)
        BY <2>4, <2>7
    <2> HIDE DEF Good
    <2>9. QED
        BY <2>2, <2>3, <2>8
<1>3. T = Nat
    <2> HIDE DEF T
    <2>1. T \in SUBSET Nat
        BY DEF T
    <2>2. QED
        BY <1>1, <1>2, <2>1, SetInduction
<1>4. QED
    BY <1>3 DEF Unfolds

-----------------------------------------------------------------------------
(* Remainders.                                                             *)

LEMMA Remainder ==
    ASSUME NEW x \in Int, NEW n \in Nat \ {0}
    PROVE  /\ x % n \in 0 .. n - 1
           /\ x \div n \in Int
           /\ x = n * (x \div n) + (x % n)
OBVIOUS

LEMMA RemainderIsUnique ==
    ASSUME NEW n \in Nat \ {0}, NEW q \in Int, NEW r \in 0 .. n - 1
    PROVE  (n * q + r) % n = r
<1> DEFINE x == n * q + r
           p == x \div n
           s == x % n
<1>1. x \in Int
    OBVIOUS
<1>2. p \in Int /\ s \in 0 .. n - 1 /\ x = n * p + s
    BY <1>1, Remainder
<1>3. n * (q - p) = s - r
    BY <1>2
<1> DEFINE d == q - p
<1>4. d \in Int /\ n * d = s - r
    BY <1>2, <1>3
<1> HIDE DEF d, p, s, x
<1>5. d = 0
    <2>1. CASE d >= 1
        <3>1. n * d >= n
            BY <1>4, <2>1
        <3>2. QED
            BY <1>2, <1>4, <3>1
    <2>2. CASE d <= -1
        <3>1. n * d <= -n
            BY <1>4, <2>2
        <3>2. QED
            BY <1>2, <1>4, <3>1
    <2>3. QED
        BY <1>4, <2>1, <2>2
<1>6. s = r
    BY <1>2, <1>4, <1>5
<1>7. QED
    BY <1>6 DEF s, x

\* A remainder can be taken before a sum or after it.
LEMMA RemainderOfSum ==
    ASSUME NEW x \in Int, NEW k \in Int, NEW n \in Nat \ {0}
    PROVE  ((x % n) + k) % n = (x + k) % n
<1> DEFINE p == x \div n
           y == (x % n) + k
           q == y \div n
           r == y % n
<1>1. p \in Int /\ x % n \in Int /\ x = n * p + (x % n)
    BY Remainder
<1>2. y \in Int
    BY <1>1
<1>3. q \in Int /\ r \in 0 .. n - 1 /\ y = n * q + r
    BY <1>2, Remainder
<1>4. x + k = n * p + (n * q + r)
    BY <1>1, <1>3
<1> HIDE DEF p, q, r
<1>5. x + k = n * (p + q) + r
    BY <1>1, <1>3, <1>4
<1>6. (n * (p + q) + r) % n = r
    <2>1. p + q \in Int /\ r \in 0 .. n - 1
        BY <1>1, <1>3
    <2>2. QED
        BY <2>1, RemainderIsUnique, Zenon
<1>7. QED
    BY <1>5, <1>6 DEF r

\* Going round n places never leaves them.
LEMMA StaysWithin ==
    ASSUME NEW h \in Int, NEW k \in Int, NEW n \in Nat \ {0}
    PROVE  (h + k) % n \in 0 .. n - 1
<1>1. h + k \in Int
    OBVIOUS
<1>2. QED
    BY <1>1, Remainder, Zenon

\* Going round n places from anywhere passes each of them.
LEMMA AllTheWayRound ==
    ASSUME NEW h \in Int, NEW n \in Nat \ {0}, NEW i \in 0 .. n - 1
    PROVE  \E k \in 0 .. n - 1 : (h + k) % n = i
<1> DEFINE k == (i - h) % n
<1>1. k \in 0 .. n - 1
    BY Remainder
<1>2. (k + h) % n = ((i - h) + h) % n
    <2>1. i - h \in Int
        OBVIOUS
    <2>2. QED
        BY <2>1, RemainderOfSum, Zenon
<1>3. (i - h) + h = n * 0 + i
    OBVIOUS
<1>4. (n * 0 + i) % n = i
    BY RemainderIsUnique
<1>5. (h + k) % n = i
    BY <1>1, <1>2, <1>3, <1>4
<1>6. QED
    BY <1>1, <1>5

-----------------------------------------------------------------------------
(* The greatest of finitely many values.                                   *)

LEMMA GreatestExists ==
    ASSUME NEW n \in Nat, NEW f \in [0 .. n - 1 -> Nat], NEW least \in Nat
    PROVE  \E m \in {least} \cup { f[i] : i \in 0 .. n - 1 } :
                m >= least /\ \A i \in 0 .. n - 1 : m >= f[i]
<1> DEFINE Top(m, k) == m >= least /\ \A i \in 0 .. k - 1 : m >= f[i]
           T == { k \in Nat : k <= n =>
                    \E m \in {least} \cup { f[i] : i \in 0 .. k - 1 } : Top(m, k) }
<1>1. 0 \in T
    OBVIOUS
<1>2. ASSUME NEW k \in T PROVE k + 1 \in T
    <2>1. CASE k + 1 <= n
        <3>1. k \in Nat /\ k <= n /\ k \in 0 .. n - 1 /\ f[k] \in Nat
            BY <2>1
        <3>2. PICK m \in {least} \cup { f[i] : i \in 0 .. k - 1 } : Top(m, k)
            BY <3>1
        <3>3. m \in Nat /\ \A i \in 0 .. k - 1 : i \in 0 .. n - 1 /\ f[i] \in Nat
            BY <3>1
        <3>4. \A i \in 0 .. (k + 1) - 1 : i \in 0 .. k - 1 \/ i = k
            BY <3>1
        <3> DEFINE top == IF m >= f[k] THEN m ELSE f[k]
        <3>5. top \in {least} \cup { f[i] : i \in 0 .. (k + 1) - 1 }
            <4>1. k \in 0 .. (k + 1) - 1 /\ \A i \in 0 .. k - 1 : i \in 0 .. (k + 1) - 1
                BY <3>1
            <4>2. QED
                BY <3>2, <4>1
        <3>6. Top(top, k + 1)
            BY <3>1, <3>2, <3>3, <3>4
        <3>7. QED
            BY <3>1, <3>5, <3>6
    <2>2. CASE ~(k + 1 <= n)
        BY <2>2
    <2>3. QED
        BY <2>1, <2>2
<1>3. T = Nat
    <2> HIDE DEF T
    <2>1. T \in SUBSET Nat
        BY DEF T
    <2>2. QED
        BY <1>1, <1>2, <2>1, SetInduction
<1>4. n \in T
    BY <1>3
<1>5. QED
    BY <1>4
=============================================================================
