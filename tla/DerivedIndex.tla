---------------------------- MODULE DerivedIndex ----------------------------
(***************************************************************************)
(* What the search indexes derived from the reviewed sources promise,      *)
(* without fetching, chunks or batches: an index is there once created,    *)
(* a source that has evidence in it keeps some, and a source is reported   *)
(* as indexed only when it has.  Evidence may be overwritten by that of    *)
(* another version of its source: versions are not told apart here.        *)
(* Ingestion implements this specification; ReleaseGate builds on it.      *)
(***************************************************************************)
CONSTANTS
    Sources,   \* source ids, of every manifest
    Indexes    \* index names

VARIABLES
    created,     \* the indexes that exist
    documents,   \* for each index the sources with a chunk in it
    ingested     \* for each index the sources a job reported as indexed

indexVars == <<created, documents, ingested>>

Init ==
    /\ created = {}
    /\ documents = [i \in Indexes |-> {}]
    /\ ingested = [i \in Indexes |-> {}]

Create(i) ==
    /\ created' = created \cup {i}
    /\ UNCHANGED <<documents, ingested>>

\* Some chunks of a source are written, new ones or over older ones.
AddEvidence(i, s) ==
    /\ i \in created
    /\ documents' = [documents EXCEPT ![i] = @ \cup {s}]
    /\ UNCHANGED <<created, ingested>>

\* The last chunks of a source are written, or there was nothing left to write.
Complete(i, s) ==
    /\ i \in created
    /\ documents' = [documents EXCEPT ![i] = @ \cup {s}]
    /\ ingested' = [ingested EXCEPT ![i] = @ \cup {s}]
    /\ UNCHANGED created

Next ==
    \E i \in Indexes :
        \/ Create(i)
        \/ \E s \in Sources : AddEvidence(i, s) \/ Complete(i, s)

Spec == Init /\ [][Next]_indexVars
=============================================================================
