-------------------------- MODULE ReleaseGateProofs --------------------------
(***************************************************************************)
(* Theorems about ReleaseGate, for any sources, indexes, revisions and     *)
(* releases.                                                               *)
(***************************************************************************)
EXTENDS ReleaseGate, FiniteSetTheorems, TLAPS

Full(i) == Cardinality(documents[i]) >= RequiredDocuments

\* An index that passed the evaluation of one dataset and is full.
Cleared(i, d) == i \in Indexes /\ Full(i) /\ i \in vetted[d]

\* What a report says of itself when the gate would take it.
ReportsAreTrue == \A d \in Splits : Gate(reports[d]) => Cleared(reports[d].index, d)

\* What a release knows of an index from the reports it has read.
Knows(step, i) ==
    /\ step \in {"report_held_out", "hash_tuning", "hash_held_out",
                 "reading", "moving"} => Cleared(i, "tuning")
    /\ step \in {"hash_tuning", "hash_held_out", "reading", "moving"} =>
          Cleared(i, "held_out")

ReleasesKnow == \A r \in Releases : Knows(releases[r].step, releases[r].index)

AliasIsSound == \A i \in alias, d \in Splits : Cleared(i, d)

\* A release that is about to move the alias knows where it is, unless
\* another has moved it meanwhile.
MovesAreCurrent ==
    \A r \in Releases :
        releases[r].step = "moving" /\ ~overlapped => releases[r].existing = alias

\* An evaluation searches after it has hashed its dataset.
SearchesAreHashed ==
    \A d \in Splits :
        evaluations[d].step = "searching" => evaluations[d].revision \in Revisions

Inductive ==
    /\ TypeOK /\ SearchesAreHashed
    /\ ReportsAreTrue /\ ReleasesKnow /\ AliasIsSound
    /\ MovesAreCurrent /\ AliasNamesOneIndex

-----------------------------------------------------------------------------
(* Types.                                                                  *)

LEMMA DocumentsCounted ==
    ASSUME NEW S \in SUBSET Sources
    PROVE  IsFiniteSet(S) /\ Cardinality(S) \in 0..Cardinality(Sources)
<1>1. IsFiniteSet(S) /\ Cardinality(S) <= Cardinality(Sources)
  BY FS_Subset, ReleaseAssumption
<1>2. Cardinality(S) \in Nat /\ Cardinality(Sources) \in Nat
  BY <1>1, FS_CardinalityType, ReleaseAssumption
<1> QED
  BY <1>1, <1>2

\* What an evaluation writes is a report.
LEMMA EvaluatedTyped ==
    ASSUME TypeOK, NEW d \in Splits, NEW i \in Indexes,
           evaluations[d].revision \in Revisions,
           NEW counted \in SUBSET documents[i], NEW passed \in BOOLEAN
    PROVE  Evaluated(d, i, counted, passed) \in Report
<1>1. counted \in SUBSET Sources
  BY DEF TypeOK
<1>2. Cardinality(counted) \in 0..Cardinality(Sources)
  BY <1>1, DocumentsCounted
<1>3. evaluations[d].approved \in BOOLEAN
  BY DEF TypeOK, Evaluation
<1> QED
  BY <1>2, <1>3 DEF Evaluated, Report

LEMMA ReleaseTyped ==
    /\ NewRelease \in Release
    /\ [NewRelease EXCEPT !.step = "ended"] \in Release
    /\ NoEvaluation \in Evaluation
BY DEF NewRelease, Release, Step, NoEvaluation, Evaluation

\* Taking a step keeps the type of a release.
LEMMA ToTyped ==
    ASSUME releases \in [Releases -> Release], NEW r \in Releases,
           NEW step \in Step, To(r, step)
    PROVE  releases' \in [Releases -> Release]
<1>1. [releases[r] EXCEPT !.step = step] \in Release
  BY DEF Release
<1> QED
  BY <1>1 DEF To

LEMMA ToChangesTheStep ==
    ASSUME releases \in [Releases -> Release], NEW r \in Releases,
           NEW step, To(r, step)
    PROVE  /\ releases'[r].step = step
           /\ releases'[r].index = releases[r].index
BY DEF To, Release

LEMMA EndedTyped ==
    ASSUME releases \in [Releases -> Release], NEW r \in Releases, Ended(r)
    PROVE  releases' \in [Releases -> Release]
BY ReleaseTyped DEF Ended

LEMMA Begins == Init => Inductive
<1> SUFFICES ASSUME Init PROVE Inductive
  OBVIOUS
<1>1. 0 \in 0..Cardinality(Sources)
  BY DocumentsCounted, FS_EmptySet
<1>2. reports \in [Splits -> Report]
  <2>1. \A d \in Splits :
          [index |-> None, revision |-> datasets[d], approved |-> FALSE,
           documents |-> 0, passed |-> FALSE] \in Report
    BY <1>1 DEF Init, Report
  <2> QED
    BY <2>1 DEF Init
<1>3. TypeOK
  BY <1>2, ReleaseTyped DEF Init, TypeOK, Index!Init
<1>4. ReportsAreTrue
  BY DEF Init, ReportsAreTrue, Gate
<1>5. AliasNamesOneIndex
  BY FS_EmptySet DEF Init, AliasNamesOneIndex
<1> QED
  BY <1>3, <1>4, <1>5
     DEF Init, Inductive, ReleasesKnow, Knows, AliasIsSound, MovesAreCurrent,
         NewRelease, SearchesAreHashed, NoEvaluation

-----------------------------------------------------------------------------
(* The steps one by one: their types.                                      *)

LEMMA IndexStepTyped ==
    ASSUME TypeOK, Index!Next, UNCHANGED <<evaluation, promotion>>
    PROVE  TypeOK'
<1>1. /\ created' \subseteq Indexes
      /\ documents' \in [Indexes -> SUBSET Sources]
      /\ ingested' \in [Indexes -> SUBSET Sources]
  BY DEF TypeOK, Index!Next, Index!Create, Index!AddEvidence, Index!Complete
<1> QED
  BY <1>1 DEF TypeOK, evaluation, promotion

LEMMA EvaluationStepTyped ==
    ASSUME TypeOK, SearchesAreHashed, NEW d \in Splits,
           \/ Edit(d) \/ LoadInputs(d) \/ HashInputs(d)
           \/ \E i \in Indexes : Evaluate(d, i)
    PROVE  TypeOK'
<1>1. CASE Edit(d)
  BY <1>1 DEF TypeOK, Edit, indexes, promotion
<1>2. CASE LoadInputs(d)
  <2>1. \A approved \in BOOLEAN :
          [evaluations[d] EXCEPT !.step = "hashing", !.approved = approved] \in Evaluation
    BY DEF TypeOK, Evaluation
  <2>2. (datasets[d] \in Approved) \in BOOLEAN
    OBVIOUS
  <2>3. PICK approved \in BOOLEAN : approved = (datasets[d] \in Approved)
    BY <2>2
  <2>4. evaluations' = [evaluations EXCEPT ![d] =
                          [evaluations[d] EXCEPT !.step = "hashing",
                                                 !.approved = approved]]
    BY <1>2, <2>3 DEF LoadInputs
  <2>5. evaluations' \in [Splits -> Evaluation]
    BY <2>1, <2>4 DEF TypeOK
  <2> QED
    BY <1>2, <2>5 DEF TypeOK, LoadInputs, indexes, promotion
<1>3. CASE HashInputs(d)
  <2>1. [evaluations[d] EXCEPT !.step = "searching",
                               !.revision = datasets[d]] \in Evaluation
    BY DEF TypeOK, Evaluation
  <2>2. evaluations' \in [Splits -> Evaluation]
    BY <1>3, <2>1 DEF TypeOK, HashInputs
  <2> QED
    BY <1>3, <2>2 DEF TypeOK, HashInputs, indexes, promotion
<1>4. ASSUME NEW i \in Indexes, Evaluate(d, i) PROVE TypeOK'
  <2>1. PICK counted \in (SUBSET documents[i]) \ {{}}, passed \in BOOLEAN :
          /\ reports' = [reports EXCEPT ![d] = Evaluated(d, i, counted, passed)]
          /\ vetted' = IF passed /\ evaluations[d].approved
                       THEN [vetted EXCEPT ![d] = @ \cup {i}] ELSE vetted
    BY <1>4 DEF Evaluate
  <2>2. Evaluated(d, i, counted, passed) \in Report
    BY <1>4, EvaluatedTyped DEF Evaluate, SearchesAreHashed
  <2>3. evaluations' \in [Splits -> Evaluation]
    BY <1>4, ReleaseTyped DEF TypeOK, Evaluate
  <2>4. reports' \in [Splits -> Report] /\ vetted' \in [Splits -> SUBSET Indexes]
    BY <2>1, <2>2 DEF TypeOK
  <2> QED
    BY <1>4, <2>3, <2>4 DEF TypeOK, Evaluate, indexes, promotion
<1> QED
  BY <1>1, <1>2, <1>3, <1>4

LEMMA ReadingStepTyped ==
    ASSUME TypeOK, NEW r \in Releases, NEW d \in Splits,
           ParseDataset(r, d) \/ ParseReport(r, d) \/ HashDataset(r, d)
    PROVE  TypeOK'
<1>1. releases \in [Releases -> Release] /\ reports[d] \in Report
  BY DEF TypeOK
<1>2. CASE ParseDataset(r, d)
  <2>1. releases' \in [Releases -> Release]
    BY <1>1, <1>2, ToTyped DEF ParseDataset, Step
  <2> QED
    BY <1>2, <2>1 DEF TypeOK, ParseDataset, indexes, evaluation
<1>3. CASE ParseReport(r, d)
  <2>1. \A step \in Step :
          [releases[r] EXCEPT !.step = step, !.index = reports[d].index,
                              !.revision[d] = reports[d].revision] \in Release
    BY <1>1 DEF Release, Report
  <2>2. releases' \in [Releases -> Release]
    BY <1>1, <1>3, <2>1 DEF ParseReport, Step
  <2> QED
    BY <1>3, <2>2 DEF TypeOK, ParseReport, indexes, evaluation
<1>4. CASE HashDataset(r, d)
  <2>1. releases' \in [Releases -> Release]
    BY <1>1, <1>4, ToTyped DEF HashDataset, Step
  <2> QED
    BY <1>4, <2>1 DEF TypeOK, HashDataset, indexes, evaluation
<1> QED
  BY <1>2, <1>3, <1>4

LEMMA MovingStepTyped ==
    ASSUME TypeOK, ReleasesKnow, NEW r \in Releases,
           ReadAlias(r) \/ MoveAlias(r) \/ ReleaseFails(r)
    PROVE  TypeOK'
<1>1. releases \in [Releases -> Release]
  BY DEF TypeOK
<1>2. CASE ReadAlias(r)
  <2>1. [releases[r] EXCEPT !.step = "moving", !.existing = alias] \in Release
    BY <1>1 DEF TypeOK, Release, Step
  <2>2. releases' \in [Releases -> Release]
    BY <1>1, <1>2, <2>1 DEF ReadAlias
  <2> QED
    BY <1>2, <2>2 DEF TypeOK, ReadAlias, indexes, evaluation
<1>3. ASSUME releases[r].step = "moving", Moved(r)
      PROVE  alias' \subseteq Indexes /\ overlapped' \in BOOLEAN
  BY <1>3 DEF TypeOK, Moved, ReleasesKnow, Knows, Cleared
<1>4. CASE MoveAlias(r)
  BY <1>1, <1>3, <1>4, EndedTyped DEF TypeOK, MoveAlias, indexes, evaluation
<1>5. CASE ReleaseFails(r)
  BY <1>1, <1>3, <1>5, EndedTyped DEF TypeOK, ReleaseFails, indexes, evaluation
<1> QED
  BY <1>2, <1>4, <1>5

\* Every step keeps the types.
LEMMA StepTyped ==
    ASSUME Inductive, [Next]_vars
    PROVE  TypeOK'
<1>1. TypeOK /\ SearchesAreHashed /\ ReleasesKnow
  BY DEF Inductive
<1>2. CASE UNCHANGED vars
  BY <1>1, <1>2 DEF TypeOK, vars, indexes, evaluation, promotion
<1>3. CASE Index!Next /\ UNCHANGED <<evaluation, promotion>>
  BY <1>1, <1>3, IndexStepTyped
<1>4. CASE \E d \in Splits :
              \/ Edit(d) \/ LoadInputs(d) \/ HashInputs(d)
              \/ \E i \in Indexes : Evaluate(d, i)
  BY <1>1, <1>4, EvaluationStepTyped
<1>5. CASE \E r \in Releases :
              \/ \E d \in Splits :
                    ParseDataset(r, d) \/ ParseReport(r, d) \/ HashDataset(r, d)
              \/ ReadAlias(r) \/ MoveAlias(r) \/ ReleaseFails(r)
  BY <1>1, <1>5, ReadingStepTyped, MovingStepTyped
<1> QED
  BY <1>2, <1>3, <1>4, <1>5 DEF Next

-----------------------------------------------------------------------------
(* What is cleared stays cleared: indexes only grow, and an evaluation     *)
(* that was passed is not taken back.                                      *)

LEMMA OnlyGrows ==
    ASSUME TypeOK, [Next]_vars
    PROVE  /\ \A i \in Indexes : documents[i] \subseteq documents'[i]
           /\ \A d \in Splits : vetted[d] \subseteq vetted'[d]
<1>1. CASE UNCHANGED vars
  BY <1>1 DEF vars, indexes, evaluation
<1>2. CASE Index!Next /\ UNCHANGED <<evaluation, promotion>>
  BY <1>2 DEF TypeOK, Index!Next, Index!Create, Index!AddEvidence,
              Index!Complete, evaluation
<1>3. ASSUME NEW e \in Splits, Edit(e) \/ LoadInputs(e) \/ HashInputs(e)
      PROVE  documents' = documents /\ vetted' = vetted
  BY <1>3 DEF Edit, LoadInputs, HashInputs, indexes
<1>4. ASSUME NEW e \in Splits, NEW j \in Indexes, Evaluate(e, j)
      PROVE  documents' = documents /\ \A d \in Splits : vetted[d] \subseteq vetted'[d]
  BY <1>4 DEF TypeOK, Evaluate, indexes
<1>5. ASSUME NEW r \in Releases,
             \/ \E d \in Splits :
                   ParseDataset(r, d) \/ ParseReport(r, d) \/ HashDataset(r, d)
             \/ ReadAlias(r) \/ MoveAlias(r) \/ ReleaseFails(r)
      PROVE  documents' = documents /\ vetted' = vetted
  BY <1>5 DEF ParseDataset, ParseReport, HashDataset, ReadAlias, MoveAlias,
              ReleaseFails, indexes, evaluation
<1> QED
  BY <1>1, <1>2, <1>3, <1>4, <1>5 DEF Next

LEMMA ClearedStays ==
    ASSUME Inductive, [Next]_vars, NEW i, NEW d \in Splits, Cleared(i, d)
    PROVE  Cleared(i, d)'
<1>1. i \in Indexes /\ documents[i] \subseteq documents'[i]
      /\ i \in vetted'[d]
  BY OnlyGrows DEF Inductive, Cleared
<1>2. documents[i] \in SUBSET Sources /\ documents'[i] \in SUBSET Sources
  BY <1>1, StepTyped DEF TypeOK, Inductive
<1>3. IsFiniteSet(documents'[i])
  BY <1>2, DocumentsCounted
<1>4. Cardinality(documents[i]) <= Cardinality(documents'[i])
  BY <1>1, <1>3, FS_Subset
<1>5. /\ Cardinality(documents[i]) \in Nat /\ Cardinality(documents'[i]) \in Nat
      /\ RequiredDocuments \in Nat
  BY <1>2, DocumentsCounted, FS_CardinalityType, FS_Subset, ReleaseAssumption
<1>6. Full(i)'
  BY <1>4, <1>5 DEF Cleared, Full
<1> QED
  BY <1>1, <1>6 DEF Cleared

-----------------------------------------------------------------------------
(* The reports.                                                            *)

\* A report the gate would take is of an index that is as full as it says.
LEMMA EvaluatedIsTrue ==
    ASSUME TypeOK, NEW d \in Splits, NEW i \in Indexes,
           NEW counted \in SUBSET documents[i], NEW passed \in BOOLEAN,
           Gate(Evaluated(d, i, counted, passed))
    PROVE  Full(i) /\ passed /\ evaluations[d].approved
<1>1. /\ Cardinality(counted) = RequiredDocuments
      /\ passed /\ evaluations[d].approved
  BY DEF Gate, Evaluated
<1>2. documents[i] \in SUBSET Sources
  BY DEF TypeOK
<1>3. Cardinality(counted) <= Cardinality(documents[i])
  BY <1>2, DocumentsCounted, FS_Subset
<1> QED
  BY <1>1, <1>3 DEF Full

LEMMA ReportsStayTrue ==
    ASSUME Inductive, [Next]_vars
    PROVE  ReportsAreTrue'
<1>1. ASSUME NEW d \in Splits, reports'[d] = reports[d], Gate(reports'[d])
      PROVE  Cleared(reports[d].index, d)'
  <2>1. Cleared(reports[d].index, d)
    BY <1>1 DEF Inductive, ReportsAreTrue
  <2>2. PICK i : i = reports[d].index
    OBVIOUS
  <2> QED
    BY <2>1, <2>2, <1>1, ClearedStays DEF Cleared, Full
<1>2. CASE reports' = reports
  BY <1>1, <1>2 DEF ReportsAreTrue, Gate, Cleared, Full
<1>3. ASSUME NEW e \in Splits, NEW i \in Indexes, Evaluate(e, i)
      PROVE  ReportsAreTrue'
  <2>1. PICK counted \in (SUBSET documents[i]) \ {{}}, passed \in BOOLEAN :
          /\ reports' = [reports EXCEPT ![e] = Evaluated(e, i, counted, passed)]
          /\ vetted' = IF passed /\ evaluations[e].approved
                       THEN [vetted EXCEPT ![e] = @ \cup {i}] ELSE vetted
    BY <1>3 DEF Evaluate
  <2>2. TypeOK /\ documents' = documents
    BY <1>3 DEF Inductive, Evaluate, indexes
  <2>3. /\ reports'[e] = Evaluated(e, i, counted, passed)
        /\ \A d \in Splits \ {e} : reports'[d] = reports[d]
    BY <2>1, <2>2 DEF TypeOK
  <2>4. ASSUME Gate(reports'[e])
        PROVE  i \in Indexes /\ Full(i)' /\ i \in vetted'[e]
    <3>1. Full(i) /\ passed /\ evaluations[e].approved
      BY <2>2, <2>3, <2>4, EvaluatedIsTrue
    <3> QED
      BY <3>1, <2>1, <2>2 DEF Full, TypeOK
  <2>5. reports'[e].index = i
    BY <2>3 DEF Evaluated
  <2>6. Gate(reports[e])' => Cleared(reports[e].index, e)'
    BY <2>4, <2>5 DEF Cleared, Full, Gate
  <2>7. \A d \in Splits \ {e} : Gate(reports[d])' => Cleared(reports[d].index, d)'
    BY <2>3, <1>1 DEF Cleared, Full, Gate
  <2> QED
    BY <2>6, <2>7 DEF ReportsAreTrue
<1>4. \/ reports' = reports
      \/ \E e \in Splits, i \in Indexes : Evaluate(e, i)
  BY DEF Next, vars, evaluation, Edit, LoadInputs, HashInputs, ParseDataset,
         ParseReport, HashDataset, ReadAlias, MoveAlias, ReleaseFails
<1> QED
  BY <1>2, <1>3, <1>4

\* An evaluation hashes before it searches.
LEMMA SearchesStayHashed ==
    ASSUME TypeOK, SearchesAreHashed, [Next]_vars
    PROVE  SearchesAreHashed'
<1>1. CASE evaluations' = evaluations
  BY <1>1 DEF SearchesAreHashed
<1>2. ASSUME NEW e \in Splits, LoadInputs(e) \/ HashInputs(e)
                               \/ \E i \in Indexes : Evaluate(e, i)
      PROVE  SearchesAreHashed'
  BY <1>2 DEF SearchesAreHashed, TypeOK, Evaluation, LoadInputs, HashInputs,
              Evaluate, NoEvaluation
<1>3. \/ evaluations' = evaluations
      \/ \E e \in Splits : LoadInputs(e) \/ HashInputs(e)
                             \/ \E i \in Indexes : Evaluate(e, i)
  BY DEF Next, vars, evaluation, Edit, ParseDataset,
         ParseReport, HashDataset, ReadAlias, MoveAlias, ReleaseFails
<1> QED
  BY <1>1, <1>2, <1>3

-----------------------------------------------------------------------------
(* The releases.                                                           *)

LEMMA KnownStays ==
    ASSUME Inductive, [Next]_vars, NEW step, NEW i, Knows(step, i)
    PROVE  Knows(step, i)'
BY ClearedStays DEF Knows, Splits

\* A release that a step leaves alone knows what it knew.
LEMMA ReleasesStay ==
    ASSUME Inductive, [Next]_vars, NEW r \in Releases,
           releases'[r] = releases[r]
    PROVE  Knows(releases[r].step, releases[r].index)'
<1>1. Knows(releases[r].step, releases[r].index)
  BY DEF Inductive, ReleasesKnow
<1>2. PICK step, i : step = releases[r].step /\ i = releases[r].index
  OBVIOUS
<1>3. Knows(step, i)'
  BY <1>1, <1>2, KnownStays
<1> QED
  BY <1>2, <1>3 DEF Knows, Cleared, Full

\* What a release does adds to what it knows only what the gate has checked.
LEMMA ReleaseLearns ==
    ASSUME Inductive, [Next]_vars, NEW r \in Releases,
           \/ \E d \in Splits :
                 ParseDataset(r, d) \/ ParseReport(r, d) \/ HashDataset(r, d)
           \/ ReadAlias(r) \/ MoveAlias(r) \/ ReleaseFails(r)
    PROVE  Knows(releases[r].step, releases[r].index)'
<1>1. /\ releases \in [Releases -> Release] /\ releases' \in [Releases -> Release]
      /\ Knows(releases[r].step, releases[r].index)
      /\ documents' = documents /\ vetted' = vetted
  <2>1. TypeOK /\ TypeOK'
    BY StepTyped DEF Inductive
  <2> QED
    BY <2>1 DEF TypeOK, Inductive, ReleasesKnow, ParseDataset, ParseReport,
       HashDataset, ReadAlias, MoveAlias, ReleaseFails, indexes, evaluation
<1>2. CASE \E d \in Splits : ParseDataset(r, d)
  <2>1. releases'[r].step \in {"parse_held_out", "report_tuning"}
    BY <1>1, <1>2, ToChangesTheStep DEF ParseDataset
  <2> QED
    BY <2>1 DEF Knows
<1>3. ASSUME NEW d \in Splits, ParseReport(r, d)
      PROVE  Knows(releases[r].step, releases[r].index)'
  <2>1. /\ releases'[r].index = reports[d].index
        /\ releases'[r].step = IF d = "tuning" THEN "report_held_out" ELSE "hash_tuning"
        /\ \/ releases[r].step = "report_tuning" /\ d = "tuning"
           \/ /\ releases[r].step = "report_held_out" /\ d = "held_out"
              /\ reports[d].index = releases[r].index
    BY <1>1, <1>3 DEF ParseReport, Release
  <2>2. Cleared(reports[d].index, d)
    BY <1>3 DEF ParseReport, Inductive, ReportsAreTrue
  <2>3. PICK i : i = reports[d].index
    OBVIOUS
  <2>4. Knows(releases'[r].step, i)
    BY <1>1, <2>1, <2>2, <2>3 DEF Knows
  <2> QED
    BY <1>1, <2>1, <2>3, <2>4 DEF Knows, Cleared, Full
<1>4. CASE \E d \in Splits : HashDataset(r, d)
  <2>1. /\ releases'[r].index = releases[r].index
        /\ releases[r].step \in {"hash_tuning", "hash_held_out"}
    BY <1>1, <1>4, ToChangesTheStep DEF HashDataset
  <2> QED
    BY <1>1, <2>1 DEF Knows, Cleared, Full
<1>5. CASE ReadAlias(r)
  <2>1. releases'[r].index = releases[r].index /\ releases[r].step = "reading"
    BY <1>1, <1>5 DEF ReadAlias
  <2> QED
    BY <1>1, <2>1 DEF Knows, Cleared, Full
<1>6. CASE MoveAlias(r) \/ ReleaseFails(r)
  <2>1. releases'[r].step = "ended"
    BY <1>1, <1>6 DEF MoveAlias, ReleaseFails, Ended, NewRelease
  <2> QED
    BY <2>1 DEF Knows
<1> QED
  BY <1>2, <1>3, <1>4, <1>5, <1>6

LEMMA ReleasesStillKnow ==
    ASSUME Inductive, [Next]_vars
    PROVE  ReleasesKnow'
<1> SUFFICES ASSUME NEW r \in Releases
             PROVE  Knows(releases[r].step, releases[r].index)'
  BY DEF ReleasesKnow
<1>1. CASE releases'[r] = releases[r]
  BY <1>1, ReleasesStay
<1>2. CASE \/ \E d \in Splits :
                 ParseDataset(r, d) \/ ParseReport(r, d) \/ HashDataset(r, d)
           \/ ReadAlias(r) \/ MoveAlias(r) \/ ReleaseFails(r)
  BY <1>2, ReleaseLearns
<1>3. ASSUME NEW q \in Releases, q # r,
             \/ \E d \in Splits :
                   ParseDataset(q, d) \/ ParseReport(q, d) \/ HashDataset(q, d)
             \/ ReadAlias(q) \/ MoveAlias(q) \/ ReleaseFails(q)
      PROVE  releases'[r] = releases[r]
  BY <1>3 DEF Inductive, TypeOK, ParseDataset, ParseReport, HashDataset, To,
              ReadAlias, MoveAlias, ReleaseFails, Ended
<1>4. ASSUME \/ UNCHANGED vars
             \/ Index!Next /\ UNCHANGED <<evaluation, promotion>>
             \/ \E d \in Splits :
                   \/ Edit(d) \/ LoadInputs(d) \/ HashInputs(d)
                   \/ \E i \in Indexes : Evaluate(d, i)
      PROVE  releases'[r] = releases[r]
  BY <1>4 DEF vars, promotion, Edit, LoadInputs, HashInputs, Evaluate
<1> QED
  BY <1>1, <1>2, <1>3, <1>4 DEF Next

-----------------------------------------------------------------------------
(* The alias.                                                              *)

\* The alias moves to an index that its release knows, in one step.
LEMMA MovedIsKnown ==
    ASSUME Inductive, NEW r \in Releases, releases[r].step = "moving", Moved(r)
    PROVE  /\ \A d \in Splits : Cleared(releases[r].index, d)
           /\ alias' \subseteq alias \cup {releases[r].index}
           /\ alias' # {}
           /\ ~overlapped' =>
                 /\ alias' = {releases[r].index}
                 /\ \A q \in Releases \ {r} : releases[q].step # "moving"
BY DEF Inductive, ReleasesKnow, Knows, Splits, Moved, MovesAreCurrent, TypeOK

\* The steps that touch the alias.
LEMMA AliasSteps ==
    ASSUME [Next]_vars
    PROVE  \/ UNCHANGED <<alias, overlapped>>
           \/ \E r \in Releases : /\ releases[r].step = "moving"
                                  /\ Moved(r) /\ Ended(r)
                                  /\ UNCHANGED <<indexes, evaluation>>
BY DEF Next, vars, promotion, Edit, LoadInputs, HashInputs, Evaluate,
       ParseDataset, ParseReport, HashDataset, ReadAlias, MoveAlias, ReleaseFails

LEMMA AliasStaysSound ==
    ASSUME Inductive, [Next]_vars
    PROVE  AliasIsSound' /\ AliasNamesOneIndex'
<1>1. CASE UNCHANGED <<alias, overlapped>>
  BY <1>1, ClearedStays DEF Inductive, AliasIsSound, AliasNamesOneIndex
<1>2. ASSUME NEW r \in Releases, releases[r].step = "moving", Moved(r)
      PROVE  AliasIsSound' /\ AliasNamesOneIndex'
  <2>1. PICK i : i = releases[r].index
    OBVIOUS
  <2>2. /\ \A d \in Splits : Cleared(i, d)
        /\ alias' \subseteq alias \cup {i}
        /\ ~overlapped' => alias' = {i}
    BY <1>2, <2>1, MovedIsKnown
  <2>3. \A j \in alias', d \in Splits : Cleared(j, d)
    BY <2>2 DEF Inductive, AliasIsSound
  <2>4. AliasIsSound'
    BY <2>3, ClearedStays DEF AliasIsSound
  <2> QED
    BY <2>2, <2>4, FS_Singleton DEF AliasNamesOneIndex
<1> QED
  BY <1>1, <1>2, AliasSteps

LEMMA MovesStayCurrent ==
    ASSUME Inductive, [Next]_vars
    PROVE  MovesAreCurrent'
<1> SUFFICES ASSUME NEW r \in Releases, (releases[r].step = "moving")', ~overlapped'
             PROVE  releases'[r].existing = alias'
  BY DEF MovesAreCurrent
<1>1. releases \in [Releases -> Release] /\ MovesAreCurrent
  BY DEF Inductive, TypeOK
<1>2. ASSUME NEW q \in Releases, releases[q].step = "moving", Moved(q), Ended(q)
      PROVE  FALSE
  <2>1. q # r
    BY <1>1, <1>2 DEF Ended, NewRelease
  <2>2. releases[r].step = "moving"
    BY <1>1, <1>2, <2>1 DEF Ended
  <2> QED
    BY <1>2, <2>1, <2>2, MovedIsKnown
<1>3. UNCHANGED <<alias, overlapped>>
  BY <1>2, AliasSteps
<1>4. CASE releases'[r] = releases[r]
  BY <1>1, <1>3, <1>4 DEF MovesAreCurrent
<1>5. CASE ReadAlias(r)
  BY <1>1, <1>3, <1>5 DEF ReadAlias
<1>6. CASE \/ \E d \in Splits :
                 ParseDataset(r, d) \/ ParseReport(r, d) \/ HashDataset(r, d)
           \/ MoveAlias(r) \/ ReleaseFails(r)
  <2>1. CASE \E d \in Splits : ParseDataset(r, d)
    BY <1>1, <2>1, ToChangesTheStep DEF ParseDataset
  <2>2. CASE \E d \in Splits : ParseReport(r, d)
    BY <1>1, <2>2 DEF ParseReport, Release
  <2>3. CASE \E d \in Splits : HashDataset(r, d)
    BY <1>1, <2>3, ToChangesTheStep DEF HashDataset
  <2>4. CASE MoveAlias(r) \/ ReleaseFails(r)
    BY <1>1, <2>4 DEF MoveAlias, ReleaseFails, Ended, NewRelease
  <2> QED
    BY <1>6, <2>1, <2>2, <2>3, <2>4
<1>7. ASSUME NEW q \in Releases, q # r,
             \/ \E d \in Splits :
                   ParseDataset(q, d) \/ ParseReport(q, d) \/ HashDataset(q, d)
             \/ ReadAlias(q) \/ MoveAlias(q) \/ ReleaseFails(q)
      PROVE  releases'[r] = releases[r]
  BY <1>1, <1>7 DEF ParseDataset, ParseReport, HashDataset, To, ReadAlias,
                    MoveAlias, ReleaseFails, Ended
<1>8. ASSUME \/ UNCHANGED vars
             \/ Index!Next /\ UNCHANGED <<evaluation, promotion>>
             \/ \E d \in Splits :
                   \/ Edit(d) \/ LoadInputs(d) \/ HashInputs(d)
                   \/ \E i \in Indexes : Evaluate(d, i)
      PROVE  releases'[r] = releases[r]
  BY <1>8 DEF vars, promotion, Edit, LoadInputs, HashInputs, Evaluate
<1> QED
  BY <1>4, <1>5, <1>6, <1>7, <1>8 DEF Next

-----------------------------------------------------------------------------
(* The theorems.                                                           *)

LEMMA InductiveHolds == Spec => []Inductive
<1>1. Inductive /\ [Next]_vars => Inductive'
  <2> SUFFICES ASSUME Inductive, [Next]_vars PROVE Inductive'
    OBVIOUS
  <2>1. SearchesAreHashed'
    BY SearchesStayHashed DEF Inductive
  <2> QED
    BY <2>1, StepTyped, ReportsStayTrue, ReleasesStillKnow, AliasStaysSound,
       MovesStayCurrent DEF Inductive
<1> QED
  BY <1>1, Begins, PTL DEF Spec

\* Every variable of evaluations and releases keeps its type.
THEOREM ReleaseTypesKept == Spec => []TypeOK
<1>1. Inductive => TypeOK
  BY DEF Inductive
<1> QED
  BY <1>1, InductiveHolds, PTL

\* An index under the read alias has evidence of at least the required
\* number of sources, from then on (release.py:67-71): what a report counted
\* is in the index, and an index only grows.
THEOREM ServedIsFull == Spec => []ServedIndexIsFull
<1>1. Inductive => ServedIndexIsFull
  BY DEF Inductive, AliasIsSound, Cleared, Full, ServedIndexIsFull, Splits
<1> QED
  BY <1>1, InductiveHolds, PTL

\* An index under the read alias passed both evaluations on judgments that
\* were approved as they were used (release.py:50-66), in whatever order
\* files are edited, reports written and the files read.
THEOREM ServedWasVetted == Spec => []ServedIndexWasVetted
<1>1. Inductive => ServedIndexWasVetted
  BY DEF Inductive, AliasIsSound, Cleared, ServedIndexWasVetted
<1> QED
  BY <1>1, InductiveHolds, PTL

\* The alias names one index, unless one release moved it between the two
\* requests of another (release.py:134-147).
THEOREM AliasIsSingle == Spec => []AliasNamesOneIndex
<1>1. Inductive => AliasNamesOneIndex
  BY DEF Inductive
<1> QED
  BY <1>1, InductiveHolds, PTL

\* Once the alias is there it stays, whatever fails (release.py:130).
THEOREM AliasNeverGone == Spec => AliasStaysReadable
<1>1. Inductive /\ [Next]_vars => [alias # {} => alias' # {}]_vars
  BY AliasSteps, MovedIsKnown
<1> QED
  BY <1>1, InductiveHolds, PTL DEF Spec, AliasStaysReadable
=============================================================================
