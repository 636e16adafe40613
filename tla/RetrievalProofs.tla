-------------------------- MODULE RetrievalProofs ---------------------------
(***************************************************************************)
(* Theorems about Retrieval, for any index, any day and any queries.       *)
(***************************************************************************)
EXTENDS Retrieval, SetInduction, FiniteSetTheorems, TLAPS

-----------------------------------------------------------------------------
(* What is sorted and cut off.                                             *)

\* A set of pairs that puts the elements of S in one order.
Orders(R, S) ==
    /\ \A a \in S : <<a, a>> \notin R
    /\ \A a, b \in S : a = b \/ <<a, b>> \in R \/ <<b, a>> \in R
    /\ \A a, b, c \in S : <<a, b>> \in R /\ <<b, c>> \in R => <<a, c>> \in R

Ahead(R, S, a) == {b \in S : <<b, a>> \in R}

\* Who is ahead has fewer ahead.
LEMMA AheadCounts ==
    ASSUME NEW S, IsFiniteSet(S), NEW R, Orders(R, S), NEW a \in S, NEW b \in S
    PROVE  /\ IsFiniteSet(Ahead(R, S, a)) /\ Cardinality(Ahead(R, S, a)) \in Nat
           /\ <<a, b>> \in R =>
                 Cardinality(Ahead(R, S, a)) < Cardinality(Ahead(R, S, b))
<1>1. \A c \in S : /\ IsFiniteSet(Ahead(R, S, c))
                   /\ Cardinality(Ahead(R, S, c)) \in Nat
  BY FS_Subset, FS_CardinalityType DEF Ahead
<1>2. ASSUME <<a, b>> \in R
      PROVE  Cardinality(Ahead(R, S, a)) < Cardinality(Ahead(R, S, b))
  <2>1. Ahead(R, S, a) \cup {a} \subseteq Ahead(R, S, b) /\ a \notin Ahead(R, S, a)
    BY <1>2 DEF Ahead, Orders
  <2>2. Cardinality(Ahead(R, S, a) \cup {a}) = Cardinality(Ahead(R, S, a)) + 1
    BY <1>1, <2>1, FS_AddElement
  <2>3. Cardinality(Ahead(R, S, a) \cup {a}) <= Cardinality(Ahead(R, S, b))
    BY <1>1, <2>1, FS_Subset
  <2> QED
    BY <1>1, <2>2, <2>3
<1> QED
  BY <1>1, <1>2

\* No more than k have fewer than k ahead.
LEMMA FewLead ==
    ASSUME NEW S, IsFiniteSet(S), NEW R, Orders(R, S), NEW k \in Nat
    PROVE  Cardinality({a \in S : Cardinality(Ahead(R, S, a)) < k}) <= k
<1> DEFINE T == {a \in S : Cardinality(Ahead(R, S, a)) < k}
           f == [a \in T |-> Cardinality(Ahead(R, S, a))]
<1>1. f \in [T -> 0..k - 1]
  <2>1. ASSUME NEW a \in T PROVE Cardinality(Ahead(R, S, a)) \in Nat
    BY AheadCounts
  <2> QED
    BY <2>1
<1>2. \A a, b \in T : f[a] = f[b] => a = b
  <2> SUFFICES ASSUME NEW a \in T, NEW b \in T, f[a] = f[b], a # b PROVE FALSE
    OBVIOUS
  <2>1. Cardinality(Ahead(R, S, a)) = Cardinality(Ahead(R, S, b))
    OBVIOUS
  <2>2. <<a, b>> \in R \/ <<b, a>> \in R
    BY DEF Orders
  <2> QED
    BY <2>1, <2>2, AheadCounts
<1>3. f \in Injection(T, 0..k - 1)
  BY <1>1, <1>2 DEF Injection, IsInjective
<1>4. IsFiniteSet(0..k - 1) /\ Cardinality(0..k - 1) = k
  BY FS_Interval
<1> HIDE DEF f
<1>5. Cardinality(T) <= Cardinality(0..k - 1)
  BY <1>3, <1>4, FS_Injection
<1> QED
  BY <1>4, <1>5

\* Somebody leads.
LEMMA SomeLeads ==
    ASSUME NEW S, IsFiniteSet(S), NEW R, Orders(R, S), S # {}
    PROVE  \E a \in S : \A b \in S : <<b, a>> \notin R
<1> DEFINE T == {Cardinality(Ahead(R, S, a)) : a \in S}
<1>1. T \in SUBSET Nat /\ T # {}
  BY AheadCounts
<1>2. PICK n \in T : \A m \in T : n <= m
  BY <1>1, LeastNumber
<1>3. PICK a \in S : n = Cardinality(Ahead(R, S, a))
  BY <1>2
<1>4. \A b \in S : Cardinality(Ahead(R, S, a)) <= Cardinality(Ahead(R, S, b))
  BY <1>2, <1>3
<1>5. ASSUME NEW b \in S, <<b, a>> \in R PROVE FALSE
  <2>1. Cardinality(Ahead(R, S, b)) < Cardinality(Ahead(R, S, a))
    BY <1>5, AheadCounts
  <2>2. /\ Cardinality(Ahead(R, S, b)) \in Nat
        /\ Cardinality(Ahead(R, S, a)) \in Nat
    BY AheadCounts
  <2> QED
    BY <1>4, <2>1, <2>2
<1> QED
  BY <1>5

-----------------------------------------------------------------------------
(* The fusion of two answers.                                              *)

IsAnswer(hits) ==
    /\ \E n \in 0..Candidates : DOMAIN hits = 1..n
    /\ \A i \in DOMAIN hits : hits[i].chunk \in Nat

\* A list has at most one place for a chunk; it is ranked there.
LEMMA Lists ==
    ASSUME NEW hits, IsAnswer(hits)
    PROVE  /\ IsFiniteSet(UniqueRanked(hits)) /\ UniqueRanked(hits) \subseteq DOMAIN hits
           /\ \A i, j \in UniqueRanked(hits) : hits[i].chunk = hits[j].chunk => i = j
           /\ \A chunk : /\ Rank(hits, chunk) \in 0..Candidates
                         /\ Rank(hits, chunk) = 0 <=>
                               \A i \in UniqueRanked(hits) : hits[i].chunk # chunk
<1>1. PICK n \in 0..Candidates : DOMAIN hits = 1..n
  BY DEF IsAnswer
<1>2. UniqueRanked(hits) \subseteq 1..n /\ n \in Nat
  BY <1>1, FusionAssumption DEF UniqueRanked, FirstSeen
<1>3. IsFiniteSet(1..n) /\ Cardinality(1..n) = n
  BY <1>2, FS_Interval
<1>4. IsFiniteSet(UniqueRanked(hits))
  BY <1>2, <1>3, FS_Subset
<1>5. ASSUME NEW i \in UniqueRanked(hits), NEW j \in UniqueRanked(hits),
             hits[i].chunk = hits[j].chunk
      PROVE  i = j
  <2>1. i \in FirstSeen(hits) /\ j \in FirstSeen(hits)
    BY DEF UniqueRanked
  <2>2. ~(i < j) /\ ~(j < i)
    BY <1>5, <2>1 DEF FirstSeen
  <2> QED
    BY <1>2, <2>2
<1>6. ASSUME NEW chunk
      PROVE  /\ Rank(hits, chunk) \in 0..Candidates
             /\ Rank(hits, chunk) = 0 <=>
                   \A i \in UniqueRanked(hits) : hits[i].chunk # chunk
  <2> DEFINE upTo == {j \in UniqueRanked(hits) :
                        \E i \in UniqueRanked(hits) : j <= i /\ hits[i].chunk = chunk}
  <2>1. upTo \in SUBSET (1..n)
    BY <1>2
  <2>2. IsFiniteSet(upTo) /\ Cardinality(upTo) <= n /\ Cardinality(upTo) \in Nat
    BY <1>3, <2>1, FS_Subset, FS_CardinalityType
  <2>3. upTo = {} <=> \A i \in UniqueRanked(hits) : hits[i].chunk # chunk
    <3>1. \A i \in UniqueRanked(hits) : i <= i
      BY <1>2
    <3> QED
      BY <3>1
  <2>4. Rank(hits, chunk) = Cardinality(upTo)
    BY DEF Rank
  <2>5. Cardinality(upTo) = 0 <=> upTo = {}
    BY <2>2, FS_EmptySet
  <2> HIDE DEF upTo
  <2> QED
    BY <1>2, <2>2, <2>3, <2>4, <2>5, FusionAssumption
<1> QED
  BY <1>1, <1>2, <1>4, <1>5, <1>6

\* A better rank has a greater share of the score.
LEMMA Denominators ==
    ASSUME NEW r \in 1..Candidates
    PROVE  /\ Scale \div (RankConstant + r) \in Nat \ {0}
           /\ Scale = (RankConstant + r) * (Scale \div (RankConstant + r))
<1>1. RankConstant + r \in Nat \ {0} /\ Scale % (RankConstant + r) = 0
      /\ Scale \in Nat \ {0}
  BY FusionAssumption
<1>2. PICK d \in Nat \ {0} : d = RankConstant + r
  BY <1>1
<1>3. Scale % d = 0 /\ Scale \in Nat
  BY <1>1, <1>2
<1>4. Scale = d * (Scale \div d) /\ Scale \div d \in Nat
  BY <1>3
<1>5. Scale \div d # 0
  BY <1>1, <1>4
<1> QED
  BY <1>2, <1>4, <1>5

LEMMA Product ==
    ASSUME NEW c \in Nat \ {0}, NEW d \in Nat \ {0}, NEW p \in Nat \ {0},
           NEW q \in Nat \ {0}, NEW w \in Nat \ {0}, c * p = d * q, c < d
    PROVE  p > q /\ w * p > w * q /\ w * p \in Nat /\ w * q \in Nat
<1>1. ASSUME p <= q PROVE FALSE
  <2>1. c * p <= c * q
    BY <1>1
  <2>2. c * q < d * q
    OBVIOUS
  <2> QED
    BY <2>1, <2>2
<1>2. p > q
  BY <1>1
<1>3. w * p > w * q
  BY <1>2
<1> QED
  BY <1>2, <1>3

LEMMA SharesFall ==
    ASSUME NEW hits, IsAnswer(hits), NEW weight \in Nat \ {0}, NEW a, NEW b
    PROVE  /\ Share(hits, weight, a) \in Nat
           /\ Rank(hits, b) > 0 /\ Rank(hits, a) \in 1..Rank(hits, b) - 1 =>
                 Share(hits, weight, a) > Share(hits, weight, b)
<1>1. Rank(hits, a) \in 0..Candidates /\ Rank(hits, b) \in 0..Candidates
  BY Lists
<1>2. Candidates \in Nat /\ RankConstant \in Nat
  BY FusionAssumption
<1>3. Share(hits, weight, a) \in Nat
  <2>1. CASE Rank(hits, a) = 0
    BY <2>1 DEF Share
  <2>2. CASE Rank(hits, a) # 0
    <3>1. Rank(hits, a) \in 1..Candidates
      BY <1>1, <1>2, <2>2
    <3>2. Scale \div (RankConstant + Rank(hits, a)) \in Nat
      BY <3>1, Denominators
    <3>3. PICK q \in Nat : q = Scale \div (RankConstant + Rank(hits, a))
      BY <3>2
    <3>4. weight * q \in Nat
      OBVIOUS
    <3> QED
      BY <2>2, <3>3, <3>4 DEF Share
  <2> QED
    BY <2>1, <2>2
<1>4. ASSUME Rank(hits, b) > 0, Rank(hits, a) \in 1..Rank(hits, b) - 1
      PROVE  Share(hits, weight, a) > Share(hits, weight, b)
  <2>1. PICK r \in 1..Candidates : r = Rank(hits, a)
    BY <1>1, <1>2, <1>4
  <2>2. PICK t \in 1..Candidates : t = Rank(hits, b)
    BY <1>1, <1>2, <1>4
  <2>3. r < t /\ r # 0 /\ t # 0
    BY <1>2, <1>4, <2>1, <2>2
  <2>4. PICK p \in Nat \ {0} : p = Scale \div (RankConstant + r)
                               /\ Scale = (RankConstant + r) * p
    BY Denominators
  <2>5. PICK q \in Nat \ {0} : q = Scale \div (RankConstant + t)
                               /\ Scale = (RankConstant + t) * q
    BY Denominators
  <2>6. PICK c \in Nat \ {0} : c = RankConstant + r
    BY <1>2, <2>3
  <2>7. PICK d \in Nat \ {0} : d = RankConstant + t
    BY <1>2, <2>3
  <2>9. c * p = d * q /\ c < d
    <3>1. Scale = c * p
      BY <2>4, <2>6
    <3>2. Scale = d * q
      BY <2>5, <2>7
    <3>3. RankConstant + r < RankConstant + t
      BY <1>2, <2>3
    <3> QED
      BY <2>6, <2>7, <3>1, <3>2, <3>3
  <2>10. weight * p > weight * q
    BY <2>9, Product
  <2>8. Share(hits, weight, a) = weight * p /\ Share(hits, weight, b) = weight * q
    BY <2>1, <2>2, <2>3, <2>4, <2>5 DEF Share
  <2> QED
    BY <2>8, <2>10
<1> QED
  BY <1>3, <1>4

\* What the fusion of two answers is made of.
LEMMA FusedFacts ==
    ASSUME NEW lexical, IsAnswer(lexical), NEW vector, IsAnswer(vector)
    PROVE  /\ IsFiniteSet(Fused(lexical, vector))
           /\ \A r \in Fused(lexical, vector) :
                 /\ r = Fuse(r.hit, lexical, vector)
                 /\ r.score \in Nat /\ r.hit.chunk \in Nat
                 /\ \/ \E i \in DOMAIN lexical : r.hit = lexical[i]
                    \/ \E i \in DOMAIN vector : r.hit = vector[i]
                 /\ Rank(lexical, r.hit.chunk) > 0 \/ Rank(vector, r.hit.chunk) > 0
           /\ \A a, b \in Fused(lexical, vector) : a.hit.chunk = b.hit.chunk => a = b
<1> DEFINE only == {i \in UniqueRanked(vector) : Rank(lexical, vector[i].chunk) = 0}
           f == [i \in UniqueRanked(lexical) |-> Fuse(lexical[i], lexical, vector)]
           g == [i \in only |-> Fuse(vector[i], lexical, vector)]
           F == {f[i] : i \in UniqueRanked(lexical)}
           G == {g[i] : i \in only}
<1>1. Fused(lexical, vector) = F \cup G
  BY DEF Fused
<1>2. /\ IsFiniteSet(UniqueRanked(lexical)) /\ UniqueRanked(lexical) \subseteq DOMAIN lexical
      /\ IsFiniteSet(UniqueRanked(vector)) /\ UniqueRanked(vector) \subseteq DOMAIN vector
  BY Lists
<1>3. IsFiniteSet(F)
  <2>1. f \in Surjection(UniqueRanked(lexical), F)
    BY DEF Surjection
  <2> QED
    BY <1>2, <2>1, FS_Surjection
<1>4. IsFiniteSet(G)
  <2>1. g \in Surjection(only, G)
    BY DEF Surjection
  <2>2. IsFiniteSet(only)
    BY <1>2, FS_Subset
  <2> QED
    BY <2>1, <2>2, FS_Surjection
<1> HIDE DEF f, g, F, G
<1>5. IsFiniteSet(Fused(lexical, vector))
  BY <1>1, <1>3, <1>4, FS_Union
<1>6. ASSUME NEW r \in Fused(lexical, vector)
      PROVE  \/ \E i \in UniqueRanked(lexical) : r = Fuse(lexical[i], lexical, vector)
             \/ /\ \E i \in UniqueRanked(vector) : r = Fuse(vector[i], lexical, vector)
                /\ Rank(lexical, r.hit.chunk) = 0
  BY DEF Fused, Fuse
<1> HIDE DEF only
<1>7. ASSUME NEW r \in Fused(lexical, vector)
      PROVE  /\ r = Fuse(r.hit, lexical, vector)
             /\ r.score \in Nat /\ r.hit.chunk \in Nat
             /\ \/ \E i \in DOMAIN lexical : r.hit = lexical[i]
                \/ \E i \in DOMAIN vector : r.hit = vector[i]
             /\ Rank(lexical, r.hit.chunk) > 0 \/ Rank(vector, r.hit.chunk) > 0
  <2>1. \A hit : /\ Fuse(hit, lexical, vector).hit = hit
                 /\ Fuse(hit, lexical, vector).score =
                       Share(lexical, LexicalWeight, hit.chunk)
                         + Share(vector, VectorWeight, hit.chunk)
    BY DEF Fuse
  <2>2. PICK hit : /\ r = Fuse(hit, lexical, vector)
                   /\ \/ \E i \in UniqueRanked(lexical) : hit = lexical[i]
                      \/ \E i \in UniqueRanked(vector) : hit = vector[i]
    BY <1>6
  <2>3. r.hit = hit /\ r = Fuse(r.hit, lexical, vector)
    BY <2>1, <2>2
  <2>4. r.hit.chunk \in Nat
    BY <1>2, <2>2, <2>3 DEF IsAnswer
  <2>5. /\ Share(lexical, LexicalWeight, hit.chunk) \in Nat
        /\ Share(vector, VectorWeight, hit.chunk) \in Nat
    BY SharesFall, FusionAssumption
  <2>6. r.score \in Nat
    BY <2>1, <2>2, <2>5
  <2>7. \/ \E i \in DOMAIN lexical : r.hit = lexical[i]
        \/ \E i \in DOMAIN vector : r.hit = vector[i]
    BY <1>2, <2>2, <2>3
  <2>8. /\ Rank(lexical, r.hit.chunk) \in 0..Candidates
        /\ Rank(vector, r.hit.chunk) \in 0..Candidates
        /\ Rank(lexical, r.hit.chunk) # 0 \/ Rank(vector, r.hit.chunk) # 0
    BY <2>2, <2>3, Lists
  <2>9. Candidates \in Nat
    BY FusionAssumption
  <2> QED
    BY <2>3, <2>4, <2>6, <2>7, <2>8, <2>9
<1>8. ASSUME NEW a \in Fused(lexical, vector), NEW b \in Fused(lexical, vector),
             a.hit.chunk = b.hit.chunk
      PROVE  a = b
  <2>1. \A hit : Fuse(hit, lexical, vector).hit = hit
    BY DEF Fuse
  <2>2. CASE Rank(lexical, a.hit.chunk) = 0
    <3>1. \A i \in UniqueRanked(lexical) : lexical[i].chunk # a.hit.chunk
      BY <2>2, Lists
    <3>2. PICK i \in UniqueRanked(vector) : a = Fuse(vector[i], lexical, vector)
      BY <1>6, <2>1, <3>1
    <3>3. PICK j \in UniqueRanked(vector) : b = Fuse(vector[j], lexical, vector)
      BY <1>6, <1>8, <2>1, <3>1
    <3>4. i = j
      BY <1>8, <2>1, <3>2, <3>3, Lists
    <3> QED
      BY <3>2, <3>3, <3>4
  <2>3. CASE Rank(lexical, a.hit.chunk) # 0
    <3>1. PICK i \in UniqueRanked(lexical) : a = Fuse(lexical[i], lexical, vector)
      BY <1>6, <2>3
    <3>2. PICK j \in UniqueRanked(lexical) : b = Fuse(lexical[j], lexical, vector)
      BY <1>6, <1>8, <2>3
    <3>3. i = j
      BY <1>8, <2>1, <3>1, <3>2, Lists
    <3> QED
      BY <3>1, <3>2, <3>3
  <2> QED
    BY <2>2, <2>3
<1> QED
  BY <1>5, <1>7, <1>8
-----------------------------------------------------------------------------
(* The two orders.                                                         *)

ByScore(S) == {p \in S \X S : Before(p[1], p[2])}
ByRelevance(S) == {p \in S \X S : MoreRelevant(p[1], p[2])}

\* Results whose chunks differ and whose scores are numbers.
IsRanking(S) ==
    /\ IsFiniteSet(S)
    /\ \A r \in S : r.score \in Nat /\ r.hit.chunk \in Nat
                    /\ Relevance(r.hit.entry) \in Nat
    /\ \A a, b \in S : a.hit.chunk = b.hit.chunk => a = b

LEMMA ScoresOrder ==
    ASSUME NEW S, IsRanking(S)
    PROVE  /\ Orders(ByScore(S), S)
           /\ \A r \in S : {q \in S : Before(q, r)} = Ahead(ByScore(S), S, r)
<1>1. \A a, b \in S : <<a, b>> \in ByScore(S) <=> Before(a, b)
  BY DEF ByScore
<1>2. \A a \in S : ~Before(a, a)
  BY DEF IsRanking, Before
<1>3. \A a, b \in S : a = b \/ Before(a, b) \/ Before(b, a)
  BY DEF IsRanking, Before
<1>4. \A a, b, c \in S : Before(a, b) /\ Before(b, c) => Before(a, c)
  BY DEF IsRanking, Before
<1> QED
  BY <1>1, <1>2, <1>3, <1>4 DEF Orders, Ahead

LEMMA RelevanceOrders ==
    ASSUME NEW S, IsRanking(S)
    PROVE  /\ Orders(ByRelevance(S), S)
           /\ \A r \in S :
                 {q \in S : MoreRelevant(q, r)} = Ahead(ByRelevance(S), S, r)
<1>1. \A a, b \in S : <<a, b>> \in ByRelevance(S) <=> MoreRelevant(a, b)
  BY DEF ByRelevance
<1>2. \A a \in S : ~MoreRelevant(a, a)
  BY DEF IsRanking, Before, MoreRelevant
<1>3. \A a, b \in S : a = b \/ MoreRelevant(a, b) \/ MoreRelevant(b, a)
  BY DEF IsRanking, Before, MoreRelevant
<1>4. \A a, b, c \in S : MoreRelevant(a, b) /\ MoreRelevant(b, c) => MoreRelevant(a, c)
  BY DEF IsRanking, Before, MoreRelevant
<1> QED
  BY <1>1, <1>2, <1>3, <1>4 DEF Orders, Ahead

LEMMA Sub ==
    ASSUME NEW S, IsRanking(S), NEW T \in SUBSET S
    PROVE  IsRanking(T)
<1>1. IsFiniteSet(T)
  BY FS_Subset DEF IsRanking
<1> QED
  BY <1>1 DEF IsRanking

\* Of a ranking, no more than k lead, and with one that leads those that are
\* ahead of it.
LEMMA Leaders ==
    ASSUME NEW T, IsRanking(T), NEW k \in Nat
    PROVE  /\ Leading(T, k) \subseteq T
           /\ Cardinality(Leading(T, k)) <= k
           /\ \A b \in Leading(T, k) : \A a \in T :
                 MoreRelevant(a, b) => a \in Leading(T, k)
<1>1. IsFiniteSet(T) /\ Orders(ByRelevance(T), T)
  BY RelevanceOrders DEF IsRanking
<1>2. Leading(T, k) = {a \in T : Cardinality(Ahead(ByRelevance(T), T, a)) < k}
  BY RelevanceOrders DEF Leading
<1>3. Cardinality(Leading(T, k)) <= k
  BY <1>1, <1>2, FewLead
<1>4. ASSUME NEW b \in Leading(T, k), NEW a \in T, MoreRelevant(a, b)
      PROVE  a \in Leading(T, k)
  <2>1. b \in T /\ Cardinality(Ahead(ByRelevance(T), T, b)) < k
    BY <1>2
  <2>2. <<a, b>> \in ByRelevance(T)
    BY <1>4, <2>1 DEF ByRelevance
  <2>3. /\ Cardinality(Ahead(ByRelevance(T), T, a)) <
              Cardinality(Ahead(ByRelevance(T), T, b))
        /\ Cardinality(Ahead(ByRelevance(T), T, a)) \in Nat
        /\ Cardinality(Ahead(ByRelevance(T), T, b)) \in Nat
    BY <1>1, <2>1, <2>2, AheadCounts
  <2>4. Cardinality(Ahead(ByRelevance(T), T, a)) < k
    BY <2>1, <2>3
  <2> QED
    BY <1>2, <2>4
<1> QED
  BY <1>2, <1>3, <1>4

\* What is diversified: one result per document, no more than the limit,
\* and for a result that is ahead of one of them its document is there.
LEMMA Diversified ==
    ASSUME NEW S, IsRanking(S), NEW k \in Nat
    PROVE  /\ Diversify(S, k) \subseteq S
           /\ Cardinality(Diversify(S, k)) <= k
           /\ \A a, b \in Diversify(S, k) : a.hit.document = b.hit.document => a = b
           /\ \A b \in Diversify(S, k) : \A a \in S :
                 MoreRelevant(a, b) =>
                    \E f \in Diversify(S, k) : f.hit.document = a.hit.document
<1> DEFINE T == {r \in S : \A q \in S :
                   q.hit.document = r.hit.document => ~MoreRelevant(q, r)}
<1>1. Diversify(S, k) = Leading(T, k)
  BY DEF Diversify
<1>2. IsRanking(T) /\ T \in SUBSET S
  BY Sub
<1>3. \A a, b \in T : a.hit.document = b.hit.document => a = b
  <2>1. \A a, b \in S : a = b \/ MoreRelevant(a, b) \/ MoreRelevant(b, a)
    BY DEF IsRanking, Before, MoreRelevant
  <2> QED
    BY <2>1
<1>4. ASSUME NEW b \in T, b \in Leading(T, k), NEW a \in S, MoreRelevant(a, b)
      PROVE  \E f \in Leading(T, k) : f.hit.document = a.hit.document
  <2> DEFINE D == {q \in S : q.hit.document = a.hit.document}
  <2>1. IsRanking(D) /\ D # {}
    BY Sub
  <2>2. IsFiniteSet(D) /\ Orders(ByRelevance(D), D)
    BY <2>1, RelevanceOrders DEF IsRanking
  <2>3. PICK f \in D : \A q \in D : <<q, f>> \notin ByRelevance(D)
    <3> HIDE DEF D
    <3> QED
      BY <2>1, <2>2, SomeLeads
  <2>4. \A q \in D : ~MoreRelevant(q, f)
    BY <2>3 DEF ByRelevance
  <2>5. f \in T
    BY <2>4
  <2>6. f = a \/ MoreRelevant(f, a)
    BY <2>4 DEF IsRanking, Before, MoreRelevant
  <2>7. f \in S /\ a \in S /\ b \in S
    OBVIOUS
  <2>8. MoreRelevant(f, b)
    BY <1>4, <2>6, <2>7 DEF IsRanking, Before, MoreRelevant
  <2>9. f \in Leading(T, k)
    <3> HIDE DEF T
    <3> QED
      BY <1>2, <1>4, <2>5, <2>8, Leaders
  <2> QED
    BY <2>9
<1> HIDE DEF T
<1>5. Leading(T, k) \subseteq T /\ Cardinality(Leading(T, k)) <= k
  BY <1>2, Leaders
<1> QED
  BY <1>1, <1>2, <1>3, <1>4, <1>5

-----------------------------------------------------------------------------
(* The invariant.                                                          *)

\* A search answers with entries of its kind.
KindsInv ==
    \A search \in Kind \X Mode : \A i \in DOMAIN answers[search] :
        answers[search][i].entry.kind = search[1]

\* What was given is what the answers give on that day.
EvidenceInv ==
    evidence = IF outcome = "evidence" THEN Chosen(givenOn) ELSE {}

Inductive == TypeOK /\ KindsInv /\ EvidenceInv

\* What is fused is described by the answers.
All(kind) == Fused(answers[<<kind, "lexical">>], answers[<<kind, "vector">>])

IsResult(r, kind) ==
    /\ r.hit.chunk \in Chunks
    /\ r.hit.entry \in Contents[r.hit.chunk]
    /\ r.hit.document = DocumentOf[r.hit.chunk]
    /\ r.hit.entry.kind = kind

LEMMA Answers ==
    ASSUME TypeOK, NEW kind \in Kind
    PROVE  /\ IsAnswer(answers[<<kind, "lexical">>])
           /\ IsAnswer(answers[<<kind, "vector">>])
<1>1. ASSUME NEW search \in Kind \X Mode PROVE IsAnswer(answers[search])
  <2>1. \E n \in 0..Candidates : DOMAIN answers[search] = 1..n
    BY DEF TypeOK
  <2>2. \A i \in DOMAIN answers[search] : answers[search][i].chunk \in Nat
    BY RetrievalAssumption DEF TypeOK, Hit
  <2> QED
    BY <2>1, <2>2 DEF IsAnswer
<1> QED
  BY <1>1 DEF Mode

LEMMA Results ==
    ASSUME TypeOK, KindsInv, NEW kind \in Kind
    PROVE  /\ IsRanking(All(kind))
           /\ \A r \in All(kind) : IsResult(r, kind)
<1>1. IsAnswer(answers[<<kind, "lexical">>]) /\ IsAnswer(answers[<<kind, "vector">>])
  BY Answers
<1>2. ASSUME NEW r \in All(kind) PROVE IsResult(r, kind)
  <2>1. PICK mode \in Mode : \E i \in DOMAIN answers[<<kind, mode>>] :
                                r.hit = answers[<<kind, mode>>][i]
    BY <1>1, FusedFacts DEF All, Mode
  <2>2. PICK i \in DOMAIN answers[<<kind, mode>>] : r.hit = answers[<<kind, mode>>][i]
    BY <2>1
  <2>3. PICK c \in Chunks : \E entry \in Contents[c] : r.hit = Hit(c, entry)
    BY <2>2 DEF TypeOK
  <2>4. r.hit.entry.kind = kind
    BY <2>2 DEF KindsInv
  <2> QED
    BY <2>3, <2>4 DEF IsResult, Hit
<1>3. ASSUME NEW r \in All(kind) PROVE Relevance(r.hit.entry) \in Nat
  <2>1. r.hit.entry \in Entries
    BY <1>2, RetrievalAssumption DEF IsResult
  <2>2. r.hit.entry.words \in Nat /\ r.hit.entry.phrases \in Nat
    BY <2>1 DEF Entries
  <2> QED
    BY <2>2 DEF Relevance
<1>4. IsFiniteSet(All(kind))
  BY <1>1, FusedFacts DEF All
<1>5. \A r \in All(kind) : r.score \in Nat /\ r.hit.chunk \in Nat
  BY <1>1, FusedFacts DEF All
<1>6. \A a, b \in All(kind) : a.hit.chunk = b.hit.chunk => a = b
  BY <1>1, FusedFacts DEF All
<1> QED
  BY <1>2, <1>3, <1>4, <1>5, <1>6 DEF IsRanking

LEMMA Selection ==
    ASSUME TypeOK, KindsInv, NEW kind \in Kind, NEW today
    PROVE  /\ Selected(kind, today) \subseteq Supported(kind, today)
           /\ Supported(kind, today) \subseteq Found(kind)
           /\ Found(kind) \subseteq All(kind)
           /\ IsFiniteSet(Selected(kind, today))
           /\ Cardinality(Selected(kind, today)) <= EvidenceLimit[kind]
           /\ EvidenceLimit[kind] \in Nat
           /\ \A a, b \in Selected(kind, today) :
                 a.hit.document = b.hit.document => a = b
           /\ \A b \in Selected(kind, today) : \A a \in Supported(kind, today) :
                 MoreRelevant(a, b) =>
                    \E f \in Selected(kind, today) : f.hit.document = a.hit.document
<1>1. Found(kind) \subseteq All(kind) /\ Supported(kind, today) \subseteq Found(kind)
  BY DEF Found, All, ReciprocalRankFusion, Supported
<1>2. IsRanking(Supported(kind, today))
  BY <1>1, Results, Sub
<1>3. EvidenceLimit[kind] \in Nat
  BY RetrievalAssumption
<1>4. PICK k \in Nat : k = EvidenceLimit[kind]
  BY <1>3
<1>5. PICK S : S = Supported(kind, today)
  OBVIOUS
<1>6. Selected(kind, today) = Diversify(S, k)
  BY <1>4, <1>5 DEF Selected
<1>7. /\ Diversify(S, k) \subseteq S
      /\ Cardinality(Diversify(S, k)) <= k
      /\ \A a, b \in Diversify(S, k) : a.hit.document = b.hit.document => a = b
      /\ \A b \in Diversify(S, k) : \A a \in S :
            MoreRelevant(a, b) =>
               \E f \in Diversify(S, k) : f.hit.document = a.hit.document
  BY <1>2, <1>5, Diversified
<1>8. IsFiniteSet(S)
  BY <1>2, <1>5 DEF IsRanking
<1>9. IsFiniteSet(Diversify(S, k))
  BY <1>7, <1>8, FS_Subset
<1> QED
  BY <1>1, <1>3, <1>4, <1>5, <1>6, <1>7, <1>9

\* Each piece of evidence is selected for its kind; a chosen chunk is there
\* with its last version.
LEMMA Evidence ==
    ASSUME Inductive
    PROVE  /\ \A r \in evidence :
                 /\ r.hit.entry.kind \in Kind
                 /\ r \in Selected(r.hit.entry.kind, givenOn)
                 /\ r \in Supported(r.hit.entry.kind, givenOn)
                 /\ r \in Found(r.hit.entry.kind)
                 /\ r \in All(r.hit.entry.kind)
                 /\ IsResult(r, r.hit.entry.kind)
           /\ \A a, b \in evidence : a.hit.chunk = b.hit.chunk => a = b
           /\ evidence # {} =>
                 \A kind \in Kind : \A r \in Selected(kind, givenOn) :
                    \E e \in evidence : e.hit.chunk = r.hit.chunk
<1> USE DEF Inductive
<1>1. CASE evidence = {}
  BY <1>1
<1>2. CASE evidence # {}
  <2> DEFINE O == Selected("official_scheme", givenOn)
             G == Selected("business_guide", givenOn)
  <2>1. evidence = ByChunk(O, G)
    BY <1>2 DEF EvidenceInv, Chosen
  <2>2. "official_scheme" \in Kind /\ "business_guide" \in Kind
    BY DEF Kind
  <2>3. /\ \A r \in O : /\ IsResult(r, "official_scheme")
                        /\ r \in Supported("official_scheme", givenOn)
                        /\ r \in Found("official_scheme")
                        /\ r \in All("official_scheme")
        /\ \A r \in G : /\ IsResult(r, "business_guide")
                        /\ r \in Supported("business_guide", givenOn)
                        /\ r \in Found("business_guide")
                        /\ r \in All("business_guide")
    BY <2>2, Results, Selection
  <2>4. /\ \A a, b \in O : a.hit.chunk = b.hit.chunk => a = b
        /\ \A a, b \in G : a.hit.chunk = b.hit.chunk => a = b
    BY <2>2, <2>3, Results DEF IsRanking
  <2>5. \A r \in O : r.hit.entry.kind = "official_scheme"
    BY <2>3 DEF IsResult
  <2>6. \A r \in G : r.hit.entry.kind = "business_guide"
    BY <2>3 DEF IsResult
  <2>7. \A r \in evidence : r \in O \/ r \in G
    BY <2>1 DEF ByChunk
  <2>8. ASSUME NEW r \in evidence
        PROVE  /\ r.hit.entry.kind \in Kind
               /\ r \in Selected(r.hit.entry.kind, givenOn)
               /\ r \in Supported(r.hit.entry.kind, givenOn)
               /\ r \in Found(r.hit.entry.kind)
               /\ r \in All(r.hit.entry.kind)
               /\ IsResult(r, r.hit.entry.kind)
    <3>1. CASE r \in O
      BY <2>2, <2>3, <2>5, <3>1
    <3>2. CASE r \in G
      BY <2>2, <2>3, <2>6, <3>2
    <3> QED
      BY <2>7, <3>1, <3>2
  <2> HIDE DEF O, G
  <2>9. \A a, b \in evidence : a.hit.chunk = b.hit.chunk => a = b
    BY <2>1, <2>4 DEF ByChunk
  <2>10. ASSUME NEW kind \in Kind, NEW r \in Selected(kind, givenOn)
         PROVE  \E e \in evidence : e.hit.chunk = r.hit.chunk
    <3>1. r \in O \/ r \in G
      BY DEF Kind, O, G
    <3> QED
      BY <2>1, <3>1 DEF ByChunk
  <2> QED
    BY <2>8, <2>9, <2>10
<1> QED
  BY <1>1, <1>2

\* Contents are records of their type, of which None is none.
LEMMA IndexedIsContent ==
    ASSUME TypeOK, NEW c \in Chunks, NEW search \in Kind \X Mode,
           index[c] # None, Matches(index[c], search[1], asOf)
    PROVE  index[c] \in Contents[c] /\ index[c].kind = search[1]
BY DEF TypeOK, Matches

LEMMA Start ==
    Init => Inductive
<1> SUFFICES ASSUME Init PROVE Inductive
  OBVIOUS
<1> USE RetrievalAssumption, FusionAssumption DEF Init
<1>1. \A search \in Kind \X Mode :
         answers[search] = <<>> /\ DOMAIN answers[search] = 1..0
  OBVIOUS
<1>2. 0 \in 0..Candidates /\ 0 \in 0..MaxDay /\ 0 \in 0..MaxChanges
  OBVIOUS
<1>3. DOMAIN answers = Kind \X Mode
  OBVIOUS
<1>4. \A search \in Kind \X Mode :
         /\ \E n \in 0..Candidates : DOMAIN answers[search] = 1..n
         /\ \A i \in DOMAIN answers[search] :
               \E c \in Chunks : \E entry \in Contents[c] :
                  answers[search][i] = Hit(c, entry)
  <2> SUFFICES ASSUME NEW search \in Kind \X Mode
               PROVE  /\ \E n \in 0..Candidates : DOMAIN answers[search] = 1..n
                      /\ \A i \in DOMAIN answers[search] :
                            \E c \in Chunks : \E entry \in Contents[c] :
                               answers[search][i] = Hit(c, entry)
    OBVIOUS
  <2>1. DOMAIN answers[search] = 1..0
    BY <1>1
  <2>2. \A i \in 1..0 : FALSE
    OBVIOUS
  <2> QED
    BY ONLY <1>2, <2>1, <2>2
<1>5. DOMAIN index = Chunks
  OBVIOUS
<1>6. TypeOK
  BY <1>2, <1>3, <1>4, <1>5 DEF TypeOK
<1>7. KindsInv
  BY <1>1 DEF KindsInv
<1>8. EvidenceInv
  BY DEF EvidenceInv
<1> QED
  BY <1>6, <1>7, <1>8 DEF Inductive

\* What an answer brings.
LEMMA AnswerKeeps ==
    ASSUME Inductive, NEW search \in Kind \X Mode, Answer(search)
    PROVE  Inductive'
<1> USE DEF Inductive
<1>1. /\ outcome = "asking" /\ waiting' = waiting \ {search}
      /\ UNCHANGED <<environment, outcome, asked, embedding, evidence, givenOn>>
  BY DEF Answer
<1> DEFINE matching == {c \in Chunks : /\ index[c] # None
                                       /\ Matches(index[c], search[1], asOf)}
<1>2. PICK n \in 0..Candidates : \E ranked \in Injection(1..n, matching) :
         answers' = [answers EXCEPT ![search] =
                       [i \in 1..n |-> Hit(ranked[i], index[ranked[i]])]]
  BY DEF Answer
<1>3. PICK ranked \in Injection(1..n, matching) :
         answers' = [answers EXCEPT ![search] =
                       [i \in 1..n |-> Hit(ranked[i], index[ranked[i]])]]
  BY <1>2
<1>4. \A i \in 1..n : ranked[i] \in matching
  BY DEF Injection
<1>5. ASSUME NEW i \in 1..n
      PROVE  /\ ranked[i] \in Chunks /\ index[ranked[i]] \in Contents[ranked[i]]
             /\ index[ranked[i]].kind = search[1]
  <2>1. PICK c \in matching : c = ranked[i]
    BY <1>4
  <2> QED
    BY <2>1, IndexedIsContent
<1> HIDE DEF matching
<1>6. DOMAIN answers = Kind \X Mode
  BY DEF TypeOK
<1>7. /\ DOMAIN answers' = Kind \X Mode
      /\ answers'[search] = [i \in 1..n |-> Hit(ranked[i], index[ranked[i]])]
      /\ \A other \in Kind \X Mode : other # search => answers'[other] = answers[other]
  BY <1>3, <1>6
<1>8. ASSUME NEW other \in Kind \X Mode
      PROVE  /\ \E m \in 0..Candidates : DOMAIN answers'[other] = 1..m
             /\ \A i \in DOMAIN answers'[other] :
                   /\ \E c \in Chunks : \E entry \in Contents[c] :
                         answers'[other][i] = Hit(c, entry)
                   /\ answers'[other][i].entry.kind = other[1]
  <2>1. CASE other = search
    <3>1. DOMAIN answers'[other] = 1..n
      BY <1>7, <2>1
    <3>2. ASSUME NEW i \in 1..n
          PROVE  /\ \E c \in Chunks : \E entry \in Contents[c] :
                       answers'[other][i] = Hit(c, entry)
                 /\ answers'[other][i].entry.kind = other[1]
      <4>1. answers'[other][i] = Hit(ranked[i], index[ranked[i]])
        BY <1>7, <2>1
      <4> QED
        BY <1>5, <2>1, <4>1 DEF Hit
    <3> QED
      BY <3>1, <3>2
  <2>2. CASE other # search
    <3>1. answers'[other] = answers[other]
      BY <1>7, <2>2
    <3> QED
      BY <3>1 DEF TypeOK, KindsInv
  <2> QED
    BY <2>1, <2>2
<1>9. TypeOK'
  BY <1>1, <1>7, <1>8 DEF TypeOK, environment, asked
<1>10. KindsInv'
  BY <1>8 DEF KindsInv
<1>11. EvidenceInv'
  BY <1>1 DEF EvidenceInv
<1> QED
  BY <1>9, <1>10, <1>11

\* What is chosen depends on the answers and the day alone.
LEMMA DeliverKeeps ==
    ASSUME Inductive, Deliver
    PROVE  Inductive'
<1> USE DEF Inductive
<1>1. /\ evidence' = Chosen(day) /\ outcome' = "evidence" /\ givenOn' = day
      /\ UNCHANGED <<environment, asked, embedding, waiting, answers>>
  BY DEF Deliver
<1>2. \A kind \in Kind : \A r \in Selected(kind, day) : IsResult(r, kind)
  BY Results, Selection
<1>3. \A r \in Chosen(day) : \E kind \in Kind : r \in Selected(kind, day)
  BY DEF Chosen, ByChunk, Kind
<1>4. \A r \in evidence' : r.hit.chunk \in Chunks /\ r.hit.entry \in Contents[r.hit.chunk]
  BY <1>1, <1>2, <1>3 DEF IsResult
<1>5. TypeOK'
  BY <1>1, <1>4 DEF TypeOK, environment, asked
<1>6. KindsInv'
  BY <1>1 DEF KindsInv
<1>7. Chosen(day) = Chosen(givenOn)'
  BY <1>1 DEF Chosen, Selected, Supported, Found
<1>8. EvidenceInv'
  BY <1>1, <1>7 DEF EvidenceInv
<1> QED
  BY <1>5, <1>6, <1>8

LEMMA StepKeeps ==
    Inductive /\ [Next]_vars => Inductive'
<1> SUFFICES ASSUME Inductive, [Next]_vars PROVE Inductive'
  OBVIOUS
<1>1. ASSUME Midnight PROVE Inductive'
  <2>1. /\ outcome = "asking" /\ day' \in 0..MaxDay
        /\ UNCHANGED <<index, changes, outcome, asked, embedding, waiting, answers,
                       evidence, givenOn>>
    BY <1>1, RetrievalAssumption DEF Midnight, Inductive, TypeOK
  <2>2. TypeOK'
    BY <2>1 DEF Inductive, TypeOK, asked
  <2>3. KindsInv' /\ EvidenceInv'
    BY <2>1 DEF Inductive, KindsInv, EvidenceInv
  <2> QED
    BY <2>2, <2>3 DEF Inductive
<1>2. ASSUME NEW c \in Chunks, Rewrite(c) PROVE Inductive'
  <2>1. /\ outcome = "asking" /\ changes' \in 0..MaxChanges
        /\ UNCHANGED <<day, outcome, asked, embedding, waiting, answers, evidence,
                       givenOn>>
    BY <1>2, RetrievalAssumption DEF Rewrite, Inductive, TypeOK
  <2>2. DOMAIN index' = Chunks /\ \A d \in Chunks : index'[d] \in Contents[d] \cup {None}
    BY <1>2 DEF Rewrite, Inductive, TypeOK
  <2>3. TypeOK'
    BY <2>1, <2>2 DEF Inductive, TypeOK, asked
  <2>4. KindsInv' /\ EvidenceInv'
    BY <2>1 DEF Inductive, KindsInv, EvidenceInv
  <2> QED
    BY <2>3, <2>4 DEF Inductive
<1>3. ASSUME Refuse \/ Ask \/ SearchFails \/ Overflow PROVE Inductive'
  <2>1. /\ outcome # "evidence" /\ outcome' \in {"asking", "failed"}
        /\ embedding' \subseteq Kind /\ waiting' \subseteq Kind \X Mode
        /\ asOf' \in 0..MaxDay
        /\ UNCHANGED <<environment, query, answers, evidence, givenOn>>
    BY <1>3 DEF Refuse, Ask, SearchFails, Overflow, Answered, Inductive, TypeOK, asked
  <2>2. TypeOK'
    BY <2>1 DEF Inductive, TypeOK, environment
  <2>3. KindsInv' /\ EvidenceInv'
    BY <2>1 DEF Inductive, KindsInv, EvidenceInv
  <2> QED
    BY <2>2, <2>3 DEF Inductive
<1>4. ASSUME Deliver PROVE Inductive'
  BY <1>4, DeliverKeeps
<1>5. ASSUME NEW kind \in Kind, Embed(kind) PROVE Inductive'
  <2>1. /\ embedding' \subseteq Kind /\ waiting' \subseteq Kind \X Mode
        /\ UNCHANGED <<environment, outcome, asked, answers, evidence, givenOn>>
    BY <1>5 DEF Embed, Inductive, TypeOK
  <2>2. TypeOK'
    BY <2>1 DEF Inductive, TypeOK, environment, asked
  <2>3. Chosen(givenOn)' = Chosen(givenOn)
    BY <2>1 DEF Chosen, Selected, Supported, Found
  <2>4. KindsInv' /\ EvidenceInv'
    BY <2>1, <2>3 DEF Inductive, KindsInv, EvidenceInv
  <2> QED
    BY <2>2, <2>4 DEF Inductive
<1>6. ASSUME NEW search \in Kind \X Mode, Answer(search) PROVE Inductive'
  BY <1>6, AnswerKeeps
<1>7. ASSUME UNCHANGED vars PROVE Inductive'
  <2>1. TypeOK'
    BY <1>7 DEF Inductive, TypeOK, vars, environment, asked
  <2>2. Chosen(givenOn)' = Chosen(givenOn)
    BY <1>7 DEF Chosen, Selected, Supported, Found, vars
  <2>3. KindsInv' /\ EvidenceInv'
    BY <1>7, <2>2 DEF Inductive, KindsInv, EvidenceInv, vars
  <2> QED
    BY <2>1, <2>3 DEF Inductive
<1> QED
  BY <1>1, <1>2, <1>3, <1>4, <1>5, <1>6, <1>7 DEF Next

LEMMA AlwaysInductive ==
    Spec => []Inductive
BY Start, StepKeeps, PTL DEF Spec

-----------------------------------------------------------------------------
(* Theorems.                                                               *)

\* Every variable keeps its type: an answer holds hits of the index, and
\* what is given is described by it.
THEOREM RetrievalTypesKept ==
    Spec => []TypeOK
<1>1. Inductive => TypeOK
  BY DEF Inductive
<1> QED
  BY <1>1, AlwaysInductive, PTL

\* Whenever the index is rewritten and the day changes during the searches,
\* evidence is in force on the day it is given.
THEOREM GivenIsInForce ==
    Spec => []EvidenceIsCurrent
<1>1. Inductive => EvidenceIsCurrent
  <2> SUFFICES ASSUME Inductive, NEW given \in evidence
               PROVE  LET entry == given.hit.entry
                      IN  /\ entry.published
                          /\ entry.from <= givenOn
                             /\ (entry.until = None \/ givenOn <= entry.until)
                          /\ entry.captured # None
                          /\ entry.captured <= givenOn
                          /\ givenOn <= entry.captured + MaxAge[entry.kind]
    BY DEF EvidenceIsCurrent
  <2>1. PICK entry : entry = given.hit.entry
    OBVIOUS
  <2>2. Fresh(entry, givenOn) /\ entry.kind \in Kind
    BY <2>1, Evidence DEF Supported
  <2>3. entry \in Entries
    <3>1. IsResult(given, given.hit.entry.kind)
      BY Evidence
    <3> QED
      BY <2>1, <3>1, RetrievalAssumption DEF IsResult
  <2>4. /\ entry.until \in Int \cup {None} /\ entry.captured \in Int \cup {None}
        /\ entry.from \in Int /\ MaxAge[entry.kind] \in Nat /\ givenOn \in Nat
    BY <2>2, <2>3, RetrievalAssumption DEF Entries, Inductive, TypeOK
  <2>5. /\ entry.captured <= givenOn
        /\ givenOn <= entry.captured + MaxAge[entry.kind]
    BY <2>2, <2>4 DEF Fresh
  <2>6. entry.until = None \/ givenOn <= entry.until
    BY <2>2, <2>4 DEF Fresh
  <2> QED
    BY <2>1, <2>2, <2>5, <2>6 DEF Fresh
<1> QED
  BY <1>1, AlwaysInductive, PTL

\* A citation id names one piece of evidence, also when a chunk was found
\* as a scheme by one search and as a guide by another.
THEOREM OneTextPerCitation ==
    Spec => []CitationsAreDistinct
<1>1. Inductive => CitationsAreDistinct
  BY Evidence DEF CitationsAreDistinct
<1> QED
  BY <1>1, AlwaysInductive, PTL

\* One result of a document for each kind, and no kind above its limit.
THEOREM NoCrowding ==
    Spec => []NoDocumentCrowdsOut
<1>1. Inductive => NoDocumentCrowdsOut
  <2> SUFFICES ASSUME Inductive, NEW kind \in Kind
               PROVE  LET ofKind == {given \in evidence : given.hit.entry.kind = kind}
                      IN  /\ Cardinality(ofKind) <= EvidenceLimit[kind]
                          /\ \A a, b \in ofKind : a.hit.document = b.hit.document => a = b
    BY DEF NoDocumentCrowdsOut
  <2> DEFINE ofKind == {given \in evidence : given.hit.entry.kind = kind}
  <2>1. ofKind \in SUBSET Selected(kind, givenOn)
    BY Evidence
  <2>2. /\ IsFiniteSet(Selected(kind, givenOn))
        /\ Cardinality(Selected(kind, givenOn)) <= EvidenceLimit[kind]
        /\ EvidenceLimit[kind] \in Nat
        /\ \A a, b \in Selected(kind, givenOn) : a.hit.document = b.hit.document => a = b
    BY Selection DEF Inductive
  <2> HIDE DEF ofKind
  <2>3. /\ IsFiniteSet(ofKind) /\ Cardinality(ofKind) <= Cardinality(Selected(kind, givenOn))
        /\ Cardinality(ofKind) \in Nat /\ Cardinality(Selected(kind, givenOn)) \in Nat
    BY <2>1, <2>2, FS_Subset, FS_CardinalityType
  <2>4. Cardinality(ofKind) <= EvidenceLimit[kind]
    BY <2>2, <2>3
  <2>5. \A a, b \in ofKind : a.hit.document = b.hit.document => a = b
    BY <2>1, <2>2
  <2> QED
    BY <2>4, <2>5 DEF ofKind
<1> QED
  BY <1>1, AlwaysInductive, PTL

\* Who outranks another has the greater score.
LEMMA OutrankingScores ==
    ASSUME TypeOK, NEW kind \in Kind, NEW a \in All(kind), NEW b \in All(kind),
           Outranks(kind, a.hit.chunk, b.hit.chunk)
    PROVE  a.score > b.score
<1> DEFINE lexical == answers[<<kind, "lexical">>]
           vector == answers[<<kind, "vector">>]
<1>1. IsAnswer(lexical) /\ IsAnswer(vector)
  BY Answers
<1>2. All(kind) = Fused(lexical, vector)
  BY DEF All
<1>3. /\ Rank(lexical, b.hit.chunk) > 0 =>
            Rank(lexical, a.hit.chunk) \in 1..Rank(lexical, b.hit.chunk) - 1
      /\ Rank(vector, b.hit.chunk) > 0 =>
            Rank(vector, a.hit.chunk) \in 1..Rank(vector, b.hit.chunk) - 1
  BY DEF Outranks, Mode
<1> HIDE DEF lexical, vector
<1>4. ASSUME NEW hits, IsAnswer(hits), NEW weight \in Nat \ {0},
             Rank(hits, b.hit.chunk) > 0 =>
                Rank(hits, a.hit.chunk) \in 1..Rank(hits, b.hit.chunk) - 1
      PROVE  /\ Share(hits, weight, a.hit.chunk) \in Nat
             /\ Share(hits, weight, b.hit.chunk) \in Nat
             /\ Share(hits, weight, a.hit.chunk) >= Share(hits, weight, b.hit.chunk)
             /\ Rank(hits, b.hit.chunk) > 0 =>
                   Share(hits, weight, a.hit.chunk) > Share(hits, weight, b.hit.chunk)
  <2>1. /\ Share(hits, weight, a.hit.chunk) \in Nat
        /\ Share(hits, weight, b.hit.chunk) \in Nat
        /\ Rank(hits, b.hit.chunk) > 0 =>
              Share(hits, weight, a.hit.chunk) > Share(hits, weight, b.hit.chunk)
    BY <1>4, SharesFall
  <2>2. Rank(hits, b.hit.chunk) \in Nat
    BY <1>4, Lists, FusionAssumption
  <2>3. Rank(hits, b.hit.chunk) = 0 => Share(hits, weight, b.hit.chunk) = 0
    BY DEF Share
  <2> QED
    BY <2>1, <2>2, <2>3
<1>5. Rank(lexical, b.hit.chunk) > 0 \/ Rank(vector, b.hit.chunk) > 0
  BY <1>1, <1>2, FusedFacts
<1>6. /\ a = Fuse(a.hit, lexical, vector)
      /\ b = Fuse(b.hit, lexical, vector)
  BY <1>1, <1>2, FusedFacts
<1>7. /\ a.score = Share(lexical, LexicalWeight, a.hit.chunk)
                     + Share(vector, VectorWeight, a.hit.chunk)
      /\ b.score = Share(lexical, LexicalWeight, b.hit.chunk)
                     + Share(vector, VectorWeight, b.hit.chunk)
  BY <1>6 DEF Fuse
<1>8. /\ Share(lexical, LexicalWeight, a.hit.chunk) \in Nat
      /\ Share(lexical, LexicalWeight, b.hit.chunk) \in Nat
      /\ Share(lexical, LexicalWeight, a.hit.chunk) >=
            Share(lexical, LexicalWeight, b.hit.chunk)
      /\ Rank(lexical, b.hit.chunk) > 0 =>
            Share(lexical, LexicalWeight, a.hit.chunk) >
               Share(lexical, LexicalWeight, b.hit.chunk)
  BY <1>1, <1>3, <1>4, FusionAssumption
<1>9. /\ Share(vector, VectorWeight, a.hit.chunk) \in Nat
      /\ Share(vector, VectorWeight, b.hit.chunk) \in Nat
      /\ Share(vector, VectorWeight, a.hit.chunk) >=
            Share(vector, VectorWeight, b.hit.chunk)
      /\ Rank(vector, b.hit.chunk) > 0 =>
            Share(vector, VectorWeight, a.hit.chunk) >
               Share(vector, VectorWeight, b.hit.chunk)
  BY <1>1, <1>3, <1>4, FusionAssumption
<1> QED
  BY <1>5, <1>7, <1>8, <1>9

\* The fused results that are kept include who is before one of them.
LEMMA FoundUpwards ==
    ASSUME TypeOK, KindsInv, NEW kind \in Kind, NEW a \in All(kind),
           NEW b \in Found(kind), Before(a, b)
    PROVE  a \in Found(kind)
<1> DEFINE S == All(kind)
           before(r) == Ahead(ByScore(S), S, r)
<1>1. IsRanking(S)
  BY Results
<1>2. IsFiniteSet(S) /\ Orders(ByScore(S), S)
      /\ \A r \in S : {q \in S : Before(q, r)} = before(r)
  BY <1>1, ScoresOrder DEF IsRanking
<1>3. PICK k \in Nat : k = FusedLimit[kind]
  BY RetrievalAssumption
<1>4. Found(kind) = {r \in S : Cardinality({q \in S : Before(q, r)}) < k}
  BY <1>3 DEF Found, ReciprocalRankFusion, All
<1>5. a \in S /\ b \in S /\ <<a, b>> \in ByScore(S)
  BY <1>4 DEF ByScore
<1> HIDE DEF S
<1>6. /\ Cardinality(before(a)) < Cardinality(before(b))
      /\ Cardinality(before(a)) \in Nat /\ Cardinality(before(b)) \in Nat
  BY <1>2, <1>5, AheadCounts
<1>7. Cardinality(before(b)) < k
  BY <1>2, <1>4, <1>5
<1>8. Cardinality(before(a)) < k
  BY <1>6, <1>7
<1> QED
  BY <1>2, <1>4, <1>5, <1>8

\* The cut of the fused results, the order by relevance, one result per
\* document, the limit and the deduplication leave nothing worse in the place
\* of something better.
THEOREM NothingBetterDisplaced ==
    Spec => []NoWorseChunkDisplaces
<1>1. Inductive => NoWorseChunkDisplaces
  <2> SUFFICES ASSUME Inductive, NEW given \in evidence,
                      NEW better \in All(given.hit.entry.kind),
                      Fresh(better.hit.entry, givenOn),
                      Relevance(better.hit.entry) >= MinRelevance,
                      Relevance(better.hit.entry) >= Relevance(given.hit.entry),
                      Outranks(given.hit.entry.kind, better.hit.chunk, given.hit.chunk)
               PROVE  \E other \in evidence : other.hit.document = better.hit.document
    BY DEF NoWorseChunkDisplaces, All
  <2>1. PICK kind \in Kind : kind = given.hit.entry.kind
    BY Evidence
  <2>2. /\ given \in Selected(kind, givenOn) /\ given \in Found(kind)
        /\ given \in All(kind) /\ better \in All(kind)
    BY <2>1, Evidence
  <2>3. better.score > given.score
    BY <2>1, <2>2, OutrankingScores DEF Inductive
  <2>4. Before(better, given)
    BY <2>3 DEF Before
  <2>5. better \in Found(kind)
    BY <2>2, <2>4, FoundUpwards DEF Inductive
  <2>6. better \in Supported(kind, givenOn)
    BY <2>5 DEF Supported
  <2>7. Relevance(better.hit.entry) \in Nat /\ Relevance(given.hit.entry) \in Nat
    BY <2>2, Results DEF Inductive, IsRanking
  <2>8. MoreRelevant(better, given)
    BY <2>4, <2>7 DEF MoreRelevant
  <2>9. PICK f \in Selected(kind, givenOn) : f.hit.document = better.hit.document
    BY <2>2, <2>6, <2>8, Selection DEF Inductive
  <2>10. PICK e \in evidence : e.hit.chunk = f.hit.chunk
    BY <2>9, Evidence
  <2>11. f \in All(kind)
    BY <2>9, Selection DEF Inductive
  <2>12. f.hit.document = DocumentOf[f.hit.chunk]
    BY <2>11, Results DEF Inductive, IsResult
  <2>13. e.hit.document = DocumentOf[e.hit.chunk]
    BY <2>10, Evidence DEF IsResult
  <2> QED
    BY <2>9, <2>10, <2>12, <2>13
<1> QED
  BY <1>1, AlwaysInductive, PTL
=============================================================================
