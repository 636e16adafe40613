----------------------------- MODULE Ingestion ------------------------------
(***************************************************************************)
(* The ingestion worker (apps/worker/worker/cli.py, pipeline.py): jobs     *)
(* that fetch reviewed sources, cut them into chunks and write the chunks  *)
(* in batches into a search index that other jobs may be writing too.      *)
(*                                                                         *)
(* A step is what happens between two requests to the network.  A fetched  *)
(* version of a source is its number of chunks; the n-th chunk of a source *)
(* has the same id in every version, so writing replaces.                  *)
(***************************************************************************)
EXTENDS Integers, Sequences, FiniteSetsExt

CONSTANTS
    Sources,       \* source ids
    Manifest,      \* the sources, in the order of the manifest file
    Indexes,       \* index names
    Jobs,          \* runs of the worker
    None,          \* no job, no index
    Dimensions,    \* embedding dimensions a job may be given
    Lengths,       \* numbers of chunks a version of a source may have
    BulkSize,      \* bulk_size: chunks in a batch
    MaxAttempts    \* max_attempts of a fetch

ASSUME IngestionAssumption ==
    /\ Manifest \in Seq(Sources)
    /\ \A s \in Sources : \E k \in DOMAIN Manifest : Manifest[k] = s
    /\ None \notin Jobs \cup Indexes
    /\ Dimensions \subseteq Nat \ {0} /\ Lengths \subseteq Nat \ {0}
    /\ BulkSize \in Nat \ {0} /\ MaxAttempts \in Nat \ {0}

VARIABLES
    jobs,        \* where each job stands
    dimension,   \* the vector dimension of each index, 0 when there is none
    chunks       \* for each index, source and number the job that wrote it

vars == <<jobs, dimension, chunks>>

-----------------------------------------------------------------------------
Numbers == UNION {1..length : length \in Lengths}

\* `at' is the place in the manifest of the source in hand, `length' the
\* chunks of each version fetched (0 before), `indexed' and `failed' the
\* outcomes.
Job == [step : {"idle", "fetching", "creating", "checking", "writing", "ended"},
        index : Indexes \cup {None}, selected : SUBSET Sources, at : 0..Len(Manifest),
        lenient : BOOLEAN, dimension : Dimensions \cup {0},
        attempt : 0..MaxAttempts, length : [Sources -> Lengths \cup {0}],
        written : Nat, indexed : SUBSET Sources, failed : SUBSET Sources,
        exit : {"none", "zero", "error"}]

NoJob == [step |-> "idle", index |-> None, selected |-> {}, at |-> 0,
          lenient |-> FALSE, dimension |-> 0, attempt |-> 0,
          length |-> [s \in Sources |-> 0], written |-> 0, indexed |-> {},
          failed |-> {}, exit |-> "none"]

Running(j) == jobs[j].step \notin {"idle", "ended"}

Source(j) == Manifest[jobs[j].at]

Pending(j) == jobs[j].length[Source(j)]

\* The chunks of the next bulk request.
Batch(j) == {n \in 1..Pending(j) : jobs[j].written < n
                                   /\ n <= jobs[j].written + BulkSize}

Init ==
    /\ jobs = [j \in Jobs |-> NoJob]
    /\ dimension = [i \in Indexes |-> 0]
    /\ chunks = [i \in Indexes |-> [s \in Sources |-> [n \in Numbers |-> None]]]

-----------------------------------------------------------------------------
(* Shapes shared by the steps.                                             *)

Over(job, exit) ==
    [job EXCEPT !.step = "ended", !.exit = exit, !.attempt = 0, !.written = 0]

\* The places of the selected sources that are still to come.
Left(job) == {k \in DOMAIN Manifest : job.at < k /\ Manifest[k] \in job.selected}

\* The loop of run() over the selected sources, once one of them is done with:
\* it goes on to the next, or the job ends and fails if any of them failed.
NextSource(job) ==
    IF Left(job) # {}
    THEN [job EXCEPT !.at = Min(Left(job)), !.step = "fetching", !.attempt = 1,
                     !.written = 0]
    ELSE Over(job, IF job.failed = {} THEN "zero" ELSE "error")

Written(j, numbers) ==
    chunks' = [chunks EXCEPT ![jobs[j].index][Source(j)] =
                 [n \in Numbers |-> IF n \in numbers THEN j ELSE @[n]]]

\* PUT makes an index that is missing; one that exists is left as it is.
Created(i, d) ==
    dimension' = [dimension EXCEPT ![i] = IF @ = 0 THEN d ELSE @]

-----------------------------------------------------------------------------
(* A job.                                                                  *)

\* All sources of the manifest or those named by --source-id.
Start(j) ==
    /\ jobs[j].step = "idle"
    /\ \E i \in Indexes, d \in Dimensions, lenient \in BOOLEAN,
          chosen \in (SUBSET Sources) \ {{}} :
          jobs' = [jobs EXCEPT ![j] =
                     NextSource([@ EXCEPT !.index = i, !.selected = chosen,
                                          !.lenient = lenient, !.dimension = d])]
    /\ UNCHANGED <<dimension, chunks>>

\* The source is fetched, extracted, cut and embedded.
Fetch(j) ==
    /\ jobs[j].step = "fetching"
    /\ \E length \in Lengths :
          jobs' = [jobs EXCEPT ![j].step = "creating", ![j].attempt = 0,
                               ![j].length[Source(j)] = length]
    /\ UNCHANGED <<dimension, chunks>>

\* Mutant: one attempt too many.
RetryOnceMore(j) ==
    /\ jobs[j].step = "fetching" /\ jobs[j].attempt <= MaxAttempts
    /\ jobs' = [jobs EXCEPT ![j].attempt = @ + 1]
    /\ UNCHANGED <<dimension, chunks>>

\* Mutant: the backoff starts over instead of giving up.
RetryForever(j) ==
    /\ jobs[j].step = "fetching"
    /\ jobs' = [jobs EXCEPT ![j].attempt = (@ % MaxAttempts) + 1]
    /\ UNCHANGED <<dimension, chunks>>

\* A timeout or transport error, then the backoff and another attempt.
Retry(j) ==
    /\ jobs[j].step = "fetching" /\ jobs[j].attempt < MaxAttempts
    /\ jobs' = [jobs EXCEPT ![j].attempt = @ + 1]
    /\ UNCHANGED <<dimension, chunks>>

\* Mutant: the index is made anew for every source.
RecreateIndex(j) ==
    /\ jobs[j].step = "creating"
    /\ dimension' = [dimension EXCEPT ![jobs[j].index] = jobs[j].dimension]
    /\ chunks' = [chunks EXCEPT ![jobs[j].index] =
                    [s \in Sources |-> [n \in Numbers |-> None]]]
    /\ jobs' = [jobs EXCEPT ![j].step = "checking"]

CreateIndex(j) ==
    /\ jobs[j].step = "creating"
    /\ Created(jobs[j].index, jobs[j].dimension)
    /\ jobs' = [jobs EXCEPT ![j].step = "checking"]
    /\ UNCHANGED chunks

\* Mutant: whatever dimension the index has will do.
SkipMapping(j) ==
    /\ jobs[j].step = "checking"
    /\ jobs' = [jobs EXCEPT ![j].step = "writing", ![j].written = 0]
    /\ UNCHANGED <<dimension, chunks>>

CheckMapping(j) ==
    /\ jobs[j].step = "checking"
    /\ dimension[jobs[j].index] = jobs[j].dimension
    /\ jobs' = [jobs EXCEPT ![j].step = "writing", ![j].written = 0]
    /\ UNCHANGED <<dimension, chunks>>

\* Mutant: item errors in an accepted bulk response are overlooked.
WriteSome(j) ==
    /\ jobs[j].step = "writing"
    /\ \E numbers \in SUBSET Batch(j) : Written(j, numbers)
    /\ LET sent == [jobs[j] EXCEPT !.written = @ + BulkSize]
       IN  jobs' = [jobs EXCEPT ![j] =
                      IF sent.written < Pending(j) THEN sent
                      ELSE NextSource([sent EXCEPT !.indexed = @ \cup {Source(j)}])]
    /\ UNCHANGED dimension

\* A bulk request all of whose items are accepted; after the last one the
\* source is indexed.
WriteBatch(j) ==
    /\ jobs[j].step = "writing"
    /\ Written(j, Batch(j))
    /\ LET sent == [jobs[j] EXCEPT !.written = @ + BulkSize]
       IN  jobs' = [jobs EXCEPT ![j] =
                      IF sent.written < Pending(j) THEN sent
                      ELSE NextSource([sent EXCEPT !.indexed = @ \cup {Source(j)}])]
    /\ UNCHANGED dimension

\* What a request may have done to the index when its answer is an error, does
\* not come, or comes after the job is gone.
CutShort(j) ==
    \/ UNCHANGED <<dimension, chunks>>
    \/ /\ jobs[j].step = "creating"
       /\ Created(jobs[j].index, jobs[j].dimension)
       /\ UNCHANGED chunks
    \/ /\ jobs[j].step = "writing"
       /\ \E numbers \in SUBSET Batch(j) : Written(j, numbers)
       /\ UNCHANGED dimension

\* Any exception out of ingest_source: the last attempt, a refused response,
\* an incompatible mapping, item errors.  Only --continue-on-error goes on.
SourceFails(j) ==
    /\ Running(j)
    /\ CutShort(j)
    /\ jobs' = [jobs EXCEPT ![j] =
                  IF jobs[j].lenient
                  THEN NextSource([jobs[j] EXCEPT !.failed = @ \cup {Source(j)}])
                  ELSE Over(jobs[j], "error")]

Killed(j) ==
    /\ Running(j)
    /\ CutShort(j)
    /\ jobs' = [jobs EXCEPT ![j] = Over(@, "error")]

-----------------------------------------------------------------------------
Works(j) ==
    \/ Fetch(j) \/ Retry(j) \/ CreateIndex(j) \/ CheckMapping(j)
    \/ WriteBatch(j) \/ SourceFails(j)

Next == \E j \in Jobs : Start(j) \/ Works(j) \/ Killed(j)

\* Every request of a job has a timeout, so a job that is not killed takes
\* its next step.  (The timeouts are httpx's, of each read: what is assumed
\* besides is that no server trickles its answer for ever.)
FairSpec == Init /\ [][Next]_vars /\ \A j \in Jobs : WF_vars(Works(j))

Spec == Init /\ [][Next]_vars

-----------------------------------------------------------------------------
(* Properties.                                                             *)

\* Every variable has its type.
TypeOK ==
    /\ jobs \in [Jobs -> Job]
    /\ dimension \in [Indexes -> Dimensions \cup {0}]
    /\ chunks \in [Indexes -> [Sources -> [Numbers -> Jobs \cup {None}]]]

\* A job that exits with zero left no chunk of any selected source missing,
\* whatever failed on the way, was retried, or ran at the same time.
\* (cli.py:80-92, pipeline.py:427-441)
ZeroExitMeansIndexed ==
    \A j \in Jobs :
        jobs[j].exit = "zero" =>
            \A s \in jobs[j].selected :
                /\ jobs[j].length[s] # 0
                /\ \A n \in 1..jobs[j].length[s] :
                      chunks[jobs[j].index][s][n] # None

\* All vectors of an index have its dimension, whichever of several jobs
\* created it.  (pipeline.py:409-426)
IndexHasOneDimension ==
    \A i \in Indexes, s \in Sources, n \in Numbers :
        chunks[i][s][n] # None =>
            jobs[chunks[i][s][n]].dimension = dimension[i]

\* Every job that is not killed ends, whatever the network does.
\* (pipeline.py:291-299: bounded attempts)
JobsEnd == \A j \in Jobs : jobs[j].step = "fetching" ~> jobs[j].step = "ended"

\* The refinement mapping to DerivedIndex: a source that has evidence in an
\* index keeps some, and is reported only when it has.  Of which version the
\* evidence is, it does not say: see IndexedVersionsStay.
\* (pipeline.py:406-442, 445-491; cli.py:80-92)
Derived == INSTANCE DerivedIndex WITH
    created   <- {i \in Indexes : dimension[i] # 0},
    documents <- [i \in Indexes |->
                    {s \in Sources : \E n \in Numbers : chunks[i][s][n] # None}],
    ingested  <- [i \in Indexes |->
                    {s \in Sources : \E j \in Jobs :
                        jobs[j].index = i /\ s \in jobs[j].indexed}]

ImplementsDerivedIndex == Derived!Spec

\* The documented promise: "Checksum changes create new source versions and
\* review tasks; they do not overwrite evidence" (docs/ai/RAG_DESIGN.md:139).
\* Where a job indexed a version of a source, no chunk of another version
\* has taken the place of one of its chunks.
IndexedVersionsStay ==
    \A j \in Jobs : \A s \in jobs[j].indexed : \A n \in 1..jobs[j].length[s] :
        LET writer == chunks[jobs[j].index][s][n]
        IN  writer # None => jobs[writer].length[s] = jobs[j].length[s]
=============================================================================
