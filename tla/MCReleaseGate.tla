--------------------------- MODULE MCReleaseGate ----------------------------
(***************************************************************************)
(* Instances of ReleaseGate for TLC.                                       *)
(***************************************************************************)
EXTENDS ReleaseGate, TLC

CONSTANTS r1, r2, i1, i2, scheme, guide, candidate, reviewed

ReleaseSymmetry ==
    Permutations(Indexes) \cup Permutations(Releases) \cup Permutations(Sources)

\* Reports that the gate refuses, and evaluations of judgments that were not
\* approved, behave alike whatever else they say, and nothing reads
\* `ingested': only the types tell such states apart.
Refused(report) == IF Gate(report) THEN report ELSE None
Doomed(run) == IF run.approved THEN run ELSE run.step

Rest(release) ==
    CASE release.step = "hash_held_out" -> [release EXCEPT !.revision["tuning"] = None]
      [] release.step \in {"reading", "moving"} ->
            [release EXCEPT !.revision = [d \in Splits |-> None]]
      [] OTHER -> release

Distinguished ==
    <<created, documents, datasets, [d \in Splits |-> Refused(reports[d])],
      [d \in Splits |-> Doomed(evaluations[d])],
      [r \in Releases |-> Rest(releases[r])], alias, vetted, overlapped>>
=============================================================================
