---------------------------- MODULE SetInduction -----------------------------
(***************************************************************************)
(* Induction over the natural numbers, stated with sets in place of        *)
(* predicates so that it can be applied without operator parameters.       *)
(***************************************************************************)
EXTENDS Integers, WellFoundedInduction, TLAPS

LEMMA LeastNumber ==
    ASSUME NEW T \in SUBSET Nat, T # {}
    PROVE  \E n \in T : \A m \in T : n <= m
<1>1. PICK n \in T : \A m \in T : <<m, n>> \notin OpToRel(<, Nat)
  BY NatLessThanWellFounded, WFMin
<1>2. \A m \in T : ~(m < n)
  BY <1>1 DEF OpToRel
<1>3. \A m \in T : n <= m
  BY <1>2
<1> QED
  BY <1>3

LEMMA GreatestNumber ==
    ASSUME NEW N \in Nat, NEW T \in SUBSET (1..N), T # {}
    PROVE  \E n \in T : \A m \in T : m <= n
<1> DEFINE Mirror == {k \in Nat : N - k \in T}
<1>1. \A m \in T : N - m \in Mirror
  OBVIOUS
<1>2. Mirror \in SUBSET Nat /\ Mirror # {}
  BY <1>1
<1>3. PICK k \in Mirror : \A l \in Mirror : k <= l
  BY <1>2, LeastNumber
<1>4. N - k \in T /\ \A m \in T : m <= N - k
  BY <1>1, <1>3
<1> QED
  BY <1>4

\* What holds of 1 and of each number when it holds of those before it.
LEMMA Upwards ==
    ASSUME NEW N \in Nat, NEW T,
           \A n \in 1..N : (\A m \in 1..n - 1 : m \in T) => n \in T
    PROVE  1..N \subseteq T
<1> SUFFICES ASSUME ~(1..N \subseteq T) PROVE FALSE
  OBVIOUS
<1> DEFINE Rest == {n \in 1..N : n \notin T}
<1>1. Rest \in SUBSET Nat /\ Rest # {}
  OBVIOUS
<1>2. PICK n \in Rest : \A m \in Rest : n <= m
  BY <1>1, LeastNumber
<1>3. \A m \in 1..n - 1 : m \in T
  BY <1>2
<1> QED
  BY <1>2, <1>3

\* What holds of each number when it holds of those after it.
LEMMA Downwards ==
    ASSUME NEW N \in Nat, NEW T,
           \A n \in 1..N : (\A m \in n + 1..N : m \in T) => n \in T
    PROVE  1..N \subseteq T
<1> DEFINE Mirror == {k \in 1..N : N + 1 - k \in T}
<1>1. ASSUME NEW k \in 1..N, \A l \in 1..k - 1 : l \in Mirror
      PROVE  k \in Mirror
  <2>1. \A m \in N + 1 - k + 1..N : N + 1 - m \in 1..k - 1 /\ N + 1 - (N + 1 - m) = m
    OBVIOUS
  <2>2. \A m \in N + 1 - k + 1..N : m \in T
    BY <1>1, <2>1
  <2>3. N + 1 - k \in 1..N
    OBVIOUS
  <2> QED
    BY <2>2, <2>3
<1>2. 1..N \subseteq Mirror
  <2> HIDE DEF Mirror
  <2> QED
    BY <1>1, Upwards
<1>3. \A n \in 1..N : N + 1 - n \in 1..N /\ N + 1 - (N + 1 - n) = n
  OBVIOUS
<1> QED
  BY <1>2, <1>3
=============================================================================
