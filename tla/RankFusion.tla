----------------------------- MODULE RankFusion ------------------------------
(***************************************************************************)
(* Reciprocal-rank fusion of a lexical and a vector answer                 *)
(* (apps/api/app/retrieval/fusion.py).                                     *)
(*                                                                         *)
(* A hit is a record with a chunk, which is a number that stands for its   *)
(* id and its place in the order of ids, and the document of that chunk;   *)
(* the rest of it is carried along.  An answer is a sequence of hits.  A   *)
(* list made of an answer is the set of the places it keeps, and what is   *)
(* sorted and cut off is a set with an order: what stays has few before    *)
(* it.  Weights are 0.8 and 1.0 times a common factor, and scores are      *)
(* multiplied by Scale: they are compared and never shown.                 *)
(***************************************************************************)
EXTENDS Integers, FiniteSets

CONSTANTS
    RankConstant,   \* rank_constant
    LexicalWeight,  \* lexical_weight
    VectorWeight,   \* vector_weight
    PerDocument,    \* max_chunks_per_document
    Candidates,     \* candidate_count: the most hits of an answer
    Scale           \* a multiple of every denominator that occurs

ASSUME FusionAssumption ==
    /\ RankConstant \in Nat \ {0}
    /\ LexicalWeight \in Nat \ {0} /\ VectorWeight \in Nat \ {0}
    /\ PerDocument \in 1..1000
    /\ Candidates \in 1..1000
    /\ Scale \in Nat \ {0}
    /\ \A rank \in 1..Candidates : Scale % (RankConstant + rank) = 0

-----------------------------------------------------------------------------
\* The places where a chunk is seen for the first time.
FirstSeen(hits) ==
    {i \in DOMAIN hits :
        \A j \in DOMAIN hits : j < i => hits[j].chunk # hits[i].chunk}

\* The places that _unique_ranked keeps: those, until PerDocument of their
\* document are kept.
UniqueRanked(hits) ==
    {i \in FirstSeen(hits) :
        Cardinality({j \in FirstSeen(hits) :
            j < i /\ hits[j].document = hits[i].document}) < PerDocument}

\* The rank of a chunk in the list made of an answer, 0 if it is not there.
Rank(hits, chunk) ==
    Cardinality({j \in UniqueRanked(hits) :
        \E i \in UniqueRanked(hits) : j <= i /\ hits[i].chunk = chunk})

\* Mutant: weight / rank_constant + rank.
ShareUnbracketed(hits, weight, chunk) ==
    IF Rank(hits, chunk) = 0 THEN 0
    ELSE weight * (Scale \div RankConstant) + Scale * Rank(hits, chunk)

\* What a list adds to the score of a chunk.
Share(hits, weight, chunk) ==
    IF Rank(hits, chunk) = 0 THEN 0
    ELSE weight * (Scale \div (RankConstant + Rank(hits, chunk)))

\* The result for a hit.
Fuse(hit, lexical, vector) ==
    [hit |-> hit,
     score |-> Share(lexical, LexicalWeight, hit.chunk)
             + Share(vector, VectorWeight, hit.chunk)]

\* A chunk in both lists keeps the hit of the lexical one.
Fused(lexical, vector) ==
    LET only == {i \in UniqueRanked(vector) : Rank(lexical, vector[i].chunk) = 0}
    IN  {Fuse(lexical[i], lexical, vector) : i \in UniqueRanked(lexical)}
          \cup {Fuse(vector[i], lexical, vector) : i \in only}

\* By falling score, ties by rising chunk id.
Before(a, b) ==
    \/ a.score > b.score
    \/ a.score = b.score /\ a.hit.chunk < b.hit.chunk

\* reciprocal_rank_fusion: the first `limit' of the results.
ReciprocalRankFusion(lexical, vector, limit) ==
    LET fused == Fused(lexical, vector)
    IN  {r \in fused : Cardinality({q \in fused : Before(q, r)}) < limit}
=============================================================================
