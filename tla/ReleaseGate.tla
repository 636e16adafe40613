---------------------------- MODULE ReleaseGate -----------------------------
(***************************************************************************)
(* From evaluation reports to the read alias                               *)
(* (packages/evaluation/rag_evaluation/runner.py, release.py).             *)
(*                                                                         *)
(* Indexes fill up as DerivedIndex says while operators edit the judgment  *)
(* files, run evaluations that overwrite one report file per dataset, and  *)
(* run releases that read the files one by one and then move the alias     *)
(* with two requests.  Both commands read a dataset twice, to parse it and *)
(* to hash it, and it may have been edited in between.  A revision of a    *)
(* dataset stands for its SHA-256; it is approved or it is not.            *)
(***************************************************************************)
EXTENDS Integers, FiniteSets

CONSTANTS
    Sources,             \* source ids, of every manifest
    Corpus,              \* the reviewed sources
    Indexes,             \* index names
    Revisions,           \* bound: contents a dataset file may have
    Approved,            \* those with human-approved judgments
    RequiredDocuments,   \* required_document_count
    Releases,            \* runs of the release command with --promote
    None                 \* no index

ASSUME ReleaseAssumption ==
    /\ Corpus \subseteq Sources /\ IsFiniteSet(Sources)
    /\ RequiredDocuments = Cardinality(Corpus) /\ RequiredDocuments > 0
    /\ Approved \subseteq Revisions
    /\ None \notin Indexes

VARIABLES
    created, documents, ingested,   \* the indexes, as DerivedIndex has them
    datasets,     \* the revision of each dataset file
    evaluations,  \* the evaluation of each dataset that is under way
    reports,      \* the report file of each dataset
    releases,     \* where each release stands
    alias,        \* the indexes under the read alias
    vetted,       \* history: indexes with an approved, passing report
    overlapped    \* history: a release moved the alias between another's requests

Index == INSTANCE DerivedIndex

evaluation == <<datasets, evaluations, reports, vetted>>
promotion == <<releases, alias, overlapped>>
indexes == <<created, documents, ingested>>
vars == <<indexes, evaluation, promotion>>

-----------------------------------------------------------------------------
Splits == {"tuning", "held_out"}

\* `approved': the judgment status of the dataset as it was parsed;
\* `passed': every threshold of the gate and the fusion configuration.
Report == [index : Indexes \cup {None}, revision : Revisions,
           approved : BOOLEAN, documents : 0..Cardinality(Sources),
           passed : BOOLEAN]

Evaluation == [step : {"idle", "hashing", "searching"}, approved : BOOLEAN,
               revision : Revisions \cup {None}]

\* What a release does next.
Step == {"parse_tuning", "parse_held_out", "report_tuning", "report_held_out",
         "hash_tuning", "hash_held_out", "reading", "moving", "ended"}

Release == [step : Step, index : Indexes \cup {None},
            revision : [Splits -> Revisions \cup {None}],
            existing : SUBSET Indexes]

NoEvaluation == [step |-> "idle", approved |-> FALSE, revision |-> None]
NewRelease == [step |-> "parse_tuning", index |-> None,
               revision |-> [d \in Splits |-> None], existing |-> {}]

Init ==
    /\ Index!Init
    /\ datasets \in [Splits -> Revisions]
    /\ evaluations = [d \in Splits |-> NoEvaluation]
    /\ reports = [d \in Splits |->
                    [index |-> None, revision |-> datasets[d], approved |-> FALSE,
                     documents |-> 0, passed |-> FALSE]]
    /\ releases = [r \in Releases |-> NewRelease]
    /\ alias = {}
    /\ vetted = [d \in Splits |-> {}]
    /\ overlapped = FALSE

-----------------------------------------------------------------------------
(* Judgments and evaluations.                                              *)

Edit(d) ==
    /\ \E v \in Revisions \ {datasets[d]} : datasets' = [datasets EXCEPT ![d] = v]
    /\ UNCHANGED <<indexes, evaluations, reports, vetted, promotion>>

\* load_inputs.  Bound: one evaluation at a time.
LoadInputs(d) ==
    /\ \A other \in Splits : evaluations[other].step = "idle"
    /\ evaluations' = [evaluations EXCEPT ![d].step = "hashing",
                          ![d].approved = datasets[d] \in Approved]
    /\ UNCHANGED <<indexes, datasets, reports, vetted, promotion>>

HashInputs(d) ==
    /\ evaluations[d].step = "hashing"
    /\ evaluations' = [evaluations EXCEPT ![d].step = "searching",
                          ![d].revision = datasets[d]]
    /\ UNCHANGED <<indexes, datasets, reports, vetted, promotion>>

Evaluated(d, i, counted, passed) ==
    [index |-> i, revision |-> evaluations[d].revision,
     approved |-> evaluations[d].approved,
     documents |-> Cardinality(counted), passed |-> passed]

\* An evaluation counts the documents of its embedding model, at least one,
\* and searches; the index may have grown by the time the report is used.
Evaluate(d, i) ==
    /\ evaluations[d].step = "searching"
    /\ i \in created
    /\ \E counted \in (SUBSET documents[i]) \ {{}}, passed \in BOOLEAN :
          /\ reports' = [reports EXCEPT ![d] = Evaluated(d, i, counted, passed)]
          /\ vetted' = IF passed /\ evaluations[d].approved
                       THEN [vetted EXCEPT ![d] = @ \cup {i}] ELSE vetted
    /\ evaluations' = [evaluations EXCEPT ![d] = NoEvaluation]
    /\ UNCHANGED <<indexes, datasets, promotion>>

-----------------------------------------------------------------------------
(* Releases.  Nothing is done before all files are read, so a release that *)
(* validate_release will refuse takes no step past the file that is the    *)
(* reason.                                                                 *)

To(r, step) == releases' = [releases EXCEPT ![r].step = step]

\* Bound: one release reads at a time; reading changes nothing.
OthersDoNotRead(r) ==
    \A q \in Releases \ {r} :
        releases[q].step \in {"parse_tuning", "reading", "moving", "ended"}

\* The judgments of a dataset are approved as it is parsed.
ParseDataset(r, d) ==
    /\ OthersDoNotRead(r)
    /\ datasets[d] \in Approved
    /\ \/ releases[r].step = "parse_tuning" /\ d = "tuning" /\ To(r, "parse_held_out")
       \/ releases[r].step = "parse_held_out" /\ d = "held_out" /\ To(r, "report_tuning")
    /\ UNCHANGED <<indexes, evaluation, alias, overlapped>>

\* Mutant: a hash that fits is taken for approval.
GateTrustingHash(report) ==
    /\ report.index # None
    /\ report.documents = RequiredDocuments
    /\ report.passed

\* Mutant: the documents are not counted.
GateAnyCount(report) ==
    /\ report.approved
    /\ report.index # None
    /\ report.passed

\* What validate_release wants of each report.
Gate(report) ==
    /\ report.approved
    /\ report.index # None
    /\ report.documents = RequiredDocuments
    /\ report.passed

\* The two reports are of one index.
ParseReport(r, d) ==
    /\ Gate(reports[d])
    /\ \/ releases[r].step = "report_tuning" /\ d = "tuning"
       \/ /\ releases[r].step = "report_held_out" /\ d = "held_out"
          /\ reports[d].index = releases[r].index
    /\ releases' = [releases EXCEPT
          ![r].step = IF d = "tuning" THEN "report_held_out" ELSE "hash_tuning",
          ![r].index = reports[d].index,
          ![r].revision[d] = reports[d].revision]
    /\ UNCHANGED <<indexes, evaluation, alias, overlapped>>

\* The file as it is now has the hash that its report has.
HashDataset(r, d) ==
    /\ datasets[d] = releases[r].revision[d]
    /\ \/ releases[r].step = "hash_tuning" /\ d = "tuning" /\ To(r, "hash_held_out")
       \/ releases[r].step = "hash_held_out" /\ d = "held_out" /\ To(r, "reading")
    /\ UNCHANGED <<indexes, evaluation, alias, overlapped>>

\* Mutant: the answer that there is no such alias is read for an index.
ReadAliasMissing(r) ==
    /\ releases[r].step = "reading"
    /\ releases[r].index \in created
    /\ releases' = [releases EXCEPT ![r].step = "moving",
                      ![r].existing = IF alias = {} THEN {None} ELSE alias]
    /\ UNCHANGED <<indexes, evaluation, alias, overlapped>>

\* HEAD of the index, then GET of the alias.
ReadAlias(r) ==
    /\ releases[r].step = "reading"
    /\ releases[r].index \in created
    /\ releases' = [releases EXCEPT ![r].step = "moving", ![r].existing = alias]
    /\ UNCHANGED <<indexes, evaluation, alias, overlapped>>

Ended(r) ==
    releases' = [releases EXCEPT ![r] = [NewRelease EXCEPT !.step = "ended"]]

\* Mutant: the old indexes keep the alias.
MovedOnly(r) ==
    /\ alias' = alias \cup {releases[r].index}
    /\ overlapped' = (overlapped \/ \E q \in Releases \ {r} :
                                        releases[q].step = "moving")

\* One POST removes the alias from the indexes that had it and adds it to
\* the new one.
Moved(r) ==
    /\ alias' = (alias \ releases[r].existing) \cup {releases[r].index}
    /\ overlapped' = (overlapped \/ \E q \in Releases \ {r} :
                                        releases[q].step = "moving")

\* Mutant: the alias is removed in a request of its own.
MoveInTwo(r) ==
    /\ releases[r].step = "moving"
    /\ IF alias \cap releases[r].existing # {}
       THEN alias' = alias \ releases[r].existing /\ UNCHANGED <<releases, overlapped>>
       ELSE Moved(r) /\ Ended(r)
    /\ UNCHANGED <<indexes, evaluation>>

MoveAlias(r) ==
    /\ releases[r].step = "moving"
    /\ Moved(r) /\ Ended(r)
    /\ UNCHANGED <<indexes, evaluation>>

\* A request fails, perhaps after it took effect, or the command is killed;
\* the service may also refuse to remove an alias that is gone by now.
ReleaseFails(r) ==
    /\ releases[r].step \in {"reading", "moving"}
    /\ Ended(r)
    /\ \/ UNCHANGED <<alias, overlapped>>
       \/ releases[r].step = "moving" /\ Moved(r)
    /\ UNCHANGED <<indexes, evaluation>>

-----------------------------------------------------------------------------
Next ==
    \/ Index!Next /\ UNCHANGED <<evaluation, promotion>>
    \/ \E d \in Splits :
          \/ Edit(d) \/ LoadInputs(d) \/ HashInputs(d)
          \/ \E i \in Indexes : Evaluate(d, i)
    \/ \E r \in Releases :
          \/ \E d \in Splits :
                ParseDataset(r, d) \/ ParseReport(r, d) \/ HashDataset(r, d)
          \/ ReadAlias(r) \/ MoveAlias(r) \/ ReleaseFails(r)

Spec == Init /\ [][Next]_vars

-----------------------------------------------------------------------------
(* Properties.                                                             *)

\* Every variable has its type.
TypeOK ==
    /\ created \subseteq Indexes
    /\ documents \in [Indexes -> SUBSET Sources]
    /\ ingested \in [Indexes -> SUBSET Sources]
    /\ datasets \in [Splits -> Revisions]
    /\ evaluations \in [Splits -> Evaluation]
    /\ reports \in [Splits -> Report]
    /\ releases \in [Releases -> Release]
    /\ alias \subseteq Indexes
    /\ vetted \in [Splits -> SUBSET Indexes]
    /\ overlapped \in BOOLEAN

\* An index under the alias has, from then on, evidence of at least the
\* required number of sources, whatever was ingested, evaluated or edited
\* since its reports.  (release.py:67-71)
ServedIndexIsFull ==
    \A i \in alias : Cardinality(documents[i]) >= RequiredDocuments

\* An index under the alias has passed both evaluations on judgments that
\* were approved as they were used, although files are edited between their
\* parsing and their hashing, reports are overwritten and releases
\* interleave.  (release.py:50-66, 159-167; cli.py:35-39)
ServedIndexWasVetted == \A i \in alias, d \in Splits : i \in vetted[d]

\* The alias names one index at most, unless one release moved it between
\* the two requests of another.  (release.py:134-147)
AliasNamesOneIndex == ~overlapped => Cardinality(alias) <= 1

\* Readers of the alias never find it gone once it was there: it moves in
\* one request, whatever fails.  (release.py:130 "Atomically")
AliasStaysReadable == [][alias # {} => alias' # {}]_vars
=============================================================================
