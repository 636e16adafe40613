--------------------------- MODULE IngestionProofs ---------------------------
(***************************************************************************)
(* Theorems about Ingestion, for any manifest, indexes and jobs.           *)
(***************************************************************************)
EXTENDS Ingestion, SetInduction, TLAPS

HasChunk(i, s, n) == chunks[i][s][n] # None

\* Every chunk of the version of a source that a job fetched is there.
Complete(job, s) ==
    /\ job.length[s] # 0
    /\ \A n \in 1..job.length[s] : HasChunk(job.index, s, n)

\* A job that has a source in hand.
AtSource(j) ==
    /\ jobs[j].at \in DOMAIN Manifest
    /\ Source(j) \in jobs[j].selected

Storing == {"creating", "checking", "writing"}

\* What is known at each step of a job.
StepInv(j) ==
    /\ jobs[j].step # "idle" =>
          jobs[j].index \in Indexes /\ jobs[j].dimension \in Dimensions
    /\ jobs[j].step = "idle" => jobs[j] = NoJob
    /\ Running(j) => AtSource(j)
    /\ jobs[j].step \in Storing => Pending(j) # 0
    /\ jobs[j].step = "checking" => dimension[jobs[j].index] # 0
    /\ jobs[j].step = "writing" =>
          /\ dimension[jobs[j].index] = jobs[j].dimension
          /\ jobs[j].written < Pending(j)
          /\ \A n \in 1..jobs[j].written : HasChunk(jobs[j].index, Source(j), n)

\* A source that the loop has passed failed or is complete, unless the
\* manifest names it again and the job is at it again.
Passed(j) ==
    \A k \in DOMAIN Manifest :
        Running(j) /\ k < jobs[j].at /\ Manifest[k] \in jobs[j].selected =>
            \/ Manifest[k] \in jobs[j].failed
            \/ Complete(jobs[j], Manifest[k])
            \/ jobs[j].step \in Storing /\ Manifest[k] = Source(j)

\* What a job reports is there.
Reported(job) ==
    \A s \in job.indexed :
        /\ job.index \in Indexes /\ dimension[job.index] # 0
        /\ \E n \in Numbers : HasChunk(job.index, s, n)

\* A job tells how it ended when it has.
Told(j) ==
    /\ jobs[j].exit # "none" => jobs[j].step = "ended"
    /\ jobs[j].exit = "zero" =>
          \A s \in jobs[j].selected : Complete(jobs[j], s)

JobInv(j) == StepInv(j) /\ Passed(j) /\ Reported(jobs[j]) /\ Told(j)

\* Whoever wrote a chunk has been given the dimension of the index.
Dimensioned ==
    \A i \in Indexes, s \in Sources, n \in Numbers :
        HasChunk(i, s, n) =>
            /\ jobs[chunks[i][s][n]].step # "idle"
            /\ jobs[chunks[i][s][n]].dimension = dimension[i]
            /\ dimension[i] # 0

Inductive == TypeOK /\ Dimensioned /\ \A j \in Jobs : JobInv(j)

-----------------------------------------------------------------------------
(* The loop over the sources.                                              *)

LEMMA LeastElement ==
    ASSUME NEW T \in SUBSET Nat, T # {}
    PROVE  Min(T) \in T /\ \A m \in T : Min(T) <= m
<1>1. \E n \in T : \A m \in T : n <= m
  BY LeastNumber
<1> QED
  BY <1>1 DEF Min

\* What the loop does with a job whose source is done with: it takes up the
\* first of the selected sources to come, or the job ends.
Advanced(job, next) ==
    /\ next.index = job.index /\ next.selected = job.selected
    /\ next.dimension = job.dimension /\ next.length = job.length
    /\ next.indexed = job.indexed /\ next.failed = job.failed
    /\ \/ /\ next.step = "fetching" /\ next.exit = job.exit
          /\ next.at \in DOMAIN Manifest
          /\ Manifest[next.at] \in job.selected
          /\ \A k \in DOMAIN Manifest :
                k < next.at /\ Manifest[k] \in job.selected => k <= job.at
       \/ /\ next.step = "ended"
          /\ next.exit = IF job.failed = {} THEN "zero" ELSE "error"
          /\ \A k \in DOMAIN Manifest :
                Manifest[k] \in job.selected => k <= job.at

\* The places of the manifest.
LEMMA Places == DOMAIN Manifest = 1..Len(Manifest) /\ Len(Manifest) \in Nat
BY IngestionAssumption

LEMMA NextSourceAdvances ==
    ASSUME NEW job \in Job,
           job.step \in {"idle", "fetching", "creating", "checking", "writing"}
    PROVE  NextSource(job) \in Job /\ Advanced(job, NextSource(job))
<1>1. Left(job) \in SUBSET Nat
  BY Places DEF Left
<1>2. CASE Left(job) # {}
  <2>1. /\ Min(Left(job)) \in DOMAIN Manifest
        /\ Manifest[Min(Left(job))] \in job.selected
        /\ \A k \in Left(job) : Min(Left(job)) <= k
    BY <1>1, <1>2, LeastElement DEF Left
  <2>2. NextSource(job) =
          [job EXCEPT !.at = Min(Left(job)), !.step = "fetching", !.attempt = 1,
                      !.written = 0]
    BY <1>2 DEF NextSource
  <2>3. \A k \in DOMAIN Manifest :
          k < Min(Left(job)) /\ Manifest[k] \in job.selected => k <= job.at
    <3>1. job.at \in Nat
      BY Places DEF Job
    <3>2. \A k \in DOMAIN Manifest :
            job.at < k /\ Manifest[k] \in job.selected => Min(Left(job)) <= k
      BY <2>1 DEF Left
    <3> QED
      BY <2>1, <3>1, <3>2, Places
  <2>4. Min(Left(job)) \in 0..Len(Manifest)
    BY <2>1, Places
  <2>5. NextSource(job) \in Job
    <3>1. 1 \in 0..MaxAttempts /\ 0 \in Nat
      BY IngestionAssumption
    <3>2. PICK at \in 0..Len(Manifest) : at = Min(Left(job))
      BY <2>4
    <3> HIDE DEF Left
    <3> QED
      BY <2>2, <3>1, <3>2 DEF Job
  <2> QED
    BY <2>1, <2>2, <2>3, <2>5 DEF Advanced
<1>3. CASE Left(job) = {}
  <2>1. NextSource(job) = Over(job, IF job.failed = {} THEN "zero" ELSE "error")
    BY <1>3 DEF NextSource
  <2>2. \A k \in DOMAIN Manifest : Manifest[k] \in job.selected => k <= job.at
    <3>1. job.at \in Nat
      BY Places DEF Job
    <3> QED
      BY <1>3, <3>1, Places DEF Left
  <2>3. NextSource(job) \in Job
    <3>1. 0 \in 0..MaxAttempts /\ 0 \in Nat
      BY IngestionAssumption
    <3>2. PICK exit \in {"none", "zero", "error"} :
            exit = IF job.failed = {} THEN "zero" ELSE "error"
      OBVIOUS
    <3> QED
      BY <2>1, <3>1, <3>2 DEF Over, Job
  <2> QED
    BY <2>1, <2>2, <2>3 DEF Advanced, Over
<1> QED
  BY <1>2, <1>3

-----------------------------------------------------------------------------
(* What is written.                                                        *)

LEMMA WrittenEffect ==
    ASSUME TypeOK, NEW j \in Jobs, AtSource(j),
           jobs[j].index \in Indexes, NEW numbers, Written(j, numbers)
    PROVE  /\ chunks' \in [Indexes -> [Sources -> [Numbers -> Jobs \cup {None}]]]
           /\ \A i \in Indexes, s \in Sources, n \in Numbers :
                chunks'[i][s][n] =
                  IF i = jobs[j].index /\ s = Source(j) /\ n \in numbers
                  THEN j ELSE chunks[i][s][n]
<1>1. jobs[j].index \in Indexes /\ Source(j) \in Sources
  BY DEF TypeOK, AtSource, Job
<1>2. PICK i, s : i = jobs[j].index /\ s = Source(j)
  OBVIOUS
<1>3. chunks' = [chunks EXCEPT ![i][s] =
                   [n \in Numbers |-> IF n \in numbers THEN j ELSE @[n]]]
  BY <1>2 DEF Written
<1> QED
  BY <1>1, <1>2, <1>3 DEF TypeOK

\* Dimensions are given once and chunks never go.
Grows ==
    /\ \A i \in Indexes : dimension[i] # 0 => dimension'[i] = dimension[i]
    /\ \A i \in Indexes, s \in Sources, n \in Numbers :
          HasChunk(i, s, n) => HasChunk(i, s, n)'

LEMMA CreatedEffect ==
    ASSUME TypeOK, NEW i \in Indexes, NEW d \in Dimensions, Created(i, d)
    PROVE  /\ dimension' \in [Indexes -> Dimensions \cup {0}]
           /\ \A k \in Indexes : dimension[k] # 0 => dimension'[k] = dimension[k]
           /\ dimension'[i] # 0
BY IngestionAssumption DEF TypeOK, Created

LEMMA CutShortEffect ==
    ASSUME TypeOK, NEW j \in Jobs, AtSource(j), CutShort(j),
           jobs[j].index \in Indexes, jobs[j].dimension \in Dimensions
    PROVE  /\ dimension' \in [Indexes -> Dimensions \cup {0}]
           /\ chunks' \in [Indexes -> [Sources -> [Numbers -> Jobs \cup {None}]]]
           /\ Grows
<1>1. CASE UNCHANGED <<dimension, chunks>>
  BY <1>1 DEF TypeOK, Grows, HasChunk
<1>2. CASE Created(jobs[j].index, jobs[j].dimension) /\ UNCHANGED chunks
  BY <1>2, CreatedEffect DEF Grows, HasChunk, TypeOK
<1>3. ASSUME NEW numbers, Written(j, numbers), UNCHANGED dimension
      PROVE  /\ dimension' \in [Indexes -> Dimensions \cup {0}]
             /\ chunks' \in [Indexes -> [Sources -> [Numbers -> Jobs \cup {None}]]]
             /\ Grows
  <2>1. j # None
    BY IngestionAssumption
  <2>2. /\ chunks' \in [Indexes -> [Sources -> [Numbers -> Jobs \cup {None}]]]
        /\ \A i \in Indexes, s \in Sources, n \in Numbers :
             chunks'[i][s][n] = j \/ chunks'[i][s][n] = chunks[i][s][n]
    BY <1>3, WrittenEffect
  <2> QED
    BY <1>3, <2>1, <2>2 DEF TypeOK, Grows, HasChunk
<1> QED
  BY <1>1, <1>2, <1>3 DEF CutShort

-----------------------------------------------------------------------------
(* What a step leaves of what is known.                                    *)

\* The numbers of the chunks of a version are numbers of chunks.
LEMMA LengthsAreNumbers ==
    ASSUME NEW job \in Job, NEW s \in Sources
    PROVE  job.length[s] \in Nat /\ 1..job.length[s] \subseteq Numbers
<1>1. job.length[s] \in Lengths \cup {0}
  BY DEF Job
<1>2. job.length[s] \in Nat
  <2>1. Lengths \cup {0} \subseteq Nat
    BY IngestionAssumption
  <2> QED
    BY <1>1, <2>1, Zenon
<1>3. \A length \in Lengths : 1..length \subseteq Numbers
  BY DEF Numbers
<1>4. 1..0 = {}
  OBVIOUS
<1>5. job.length[s] = 0 => 1..job.length[s] \subseteq Numbers
  BY <1>4
<1> QED
  BY <1>1, <1>2, <1>3, <1>5

LEMMA CompleteStays ==
    ASSUME Grows, NEW job \in Job, job.index \in Indexes, NEW s \in Sources,
           Complete(job, s)
    PROVE  Complete(job, s)'
BY LengthsAreNumbers DEF Complete, Grows

LEMMA ReportedStays ==
    ASSUME Grows, NEW job \in Job, Reported(job)
    PROVE  Reported(job)'
BY DEF Reported, Grows, Job

\* A job that a step leaves alone.
LEMMA OthersKeep ==
    ASSUME Inductive, Grows, NEW q \in Jobs, jobs'[q] = jobs[q]
    PROVE  JobInv(q)'
<1>1. jobs[q] \in Job /\ JobInv(q)
  BY DEF Inductive, TypeOK
<1>2. PICK job \in Job : job = jobs[q] /\ job = jobs'[q]
  BY <1>1
<1>3. ASSUME NEW s \in Sources, Complete(jobs[q], s), jobs[q].index \in Indexes
      PROVE  Complete(jobs[q], s)'
  BY <1>2, <1>3, CompleteStays DEF Complete, HasChunk
<1>4. Reported(jobs[q])'
  BY <1>1, <1>2, ReportedStays DEF JobInv, Reported, HasChunk
<1>5. StepInv(q)'
  <2>1. (AtSource(q) => AtSource(q)') /\ (Running(q)' => Running(q))
    BY <1>2 DEF AtSource, Source, Running
  <2>2. /\ (Pending(q)' = Pending(q)) /\ (Source(q)' = Source(q))
    BY <1>2 DEF Pending, Source
  <2>3. ASSUME jobs[q].step = "checking"
        PROVE  dimension'[jobs[q].index] # 0
    BY <1>1, <2>3, IngestionAssumption DEF JobInv, StepInv, Grows
  <2>4. ASSUME jobs[q].step = "writing"
        PROVE  /\ dimension'[jobs[q].index] = jobs[q].dimension
               /\ jobs[q].written < Pending(q)
               /\ \A n \in 1..jobs[q].written :
                     HasChunk(jobs[q].index, Source(q), n)'
    <3>1. /\ AtSource(q) /\ jobs[q].index \in Indexes
          /\ dimension[jobs[q].index] = jobs[q].dimension
          /\ dimension[jobs[q].index] # 0
          /\ jobs[q].written < Pending(q)
          /\ \A n \in 1..jobs[q].written : HasChunk(jobs[q].index, Source(q), n)
      BY <1>1, <2>4, IngestionAssumption DEF JobInv, StepInv, Running
    <3>2. Source(q) \in Sources
      BY <1>1, <3>1 DEF AtSource, Job
    <3>3. 1..Pending(q) \subseteq Numbers
      BY <1>1, <3>2, LengthsAreNumbers DEF Pending
    <3>4. jobs[q].length \in [Sources -> Lengths \cup {0}] /\ jobs[q].written \in Nat
      BY <1>1 DEF Job
    <3>5. 1..jobs[q].written \subseteq Numbers
      <4>1. Pending(q) \in Nat
        BY <1>1, <3>2, LengthsAreNumbers DEF Pending
      <4> QED
        BY <3>1, <3>3, <3>4, <4>1
    <3>6. PICK i, t : i = jobs[q].index /\ t = Source(q)
      OBVIOUS
    <3>7. \A n \in 1..jobs[q].written : HasChunk(i, t, n)'
      BY <3>1, <3>2, <3>5, <3>6 DEF Grows
    <3> QED
      BY <1>2, <2>2, <3>1, <3>6, <3>7 DEF Grows, HasChunk
  <2>5. Running(q)' => AtSource(q)'
    BY <1>1, <2>1 DEF JobInv, StepInv
  <2> QED
    BY <1>1, <1>2, <2>2, <2>3, <2>4, <2>5 DEF JobInv, StepInv, HasChunk
<1>6. Passed(q)'
  BY <1>1, <1>2, <1>3 DEF JobInv, Passed, StepInv, AtSource, Running, Source, Job
<1>7. Told(q)'
  <2>1. jobs[q].exit = "zero"  => jobs[q].index \in Indexes
    BY <1>1 DEF JobInv, Told, StepInv
  <2> QED
    BY <1>1, <1>2, <1>3, <2>1 DEF JobInv, Told, Job
<1> QED
  BY <1>4, <1>5, <1>6, <1>7 DEF JobInv

\* A job whose loop goes on.
LEMMA LoopKeeps ==
    ASSUME NEW j \in Jobs, NEW job \in Job, Advanced(job, jobs'[j]),
           job.index \in Indexes, job.dimension \in Dimensions,
           job.exit = "none", Reported(job)',
           \A k \in DOMAIN Manifest :
              k <= job.at /\ Manifest[k] \in job.selected =>
                 Manifest[k] \in job.failed \/ Complete(job, Manifest[k])'
    PROVE  JobInv(j)'
<1>1. StepInv(j)'
  BY DEF Advanced, StepInv, Running, AtSource, Source, Storing
<1>2. \A s : Complete(job, s)' => Complete(jobs[j], s)'
  BY DEF Advanced, Complete, HasChunk
<1>3. Passed(j)'
  BY <1>2 DEF Advanced, Passed, Running
<1>4. Reported(jobs[j])'
  BY DEF Advanced, Reported, HasChunk
<1>5. Told(j)'
  BY <1>2, IngestionAssumption DEF Advanced, Told, Job
<1> QED
  BY <1>1, <1>3, <1>4, <1>5 DEF JobInv

-----------------------------------------------------------------------------
(* The steps of a job.                                                     *)

\* A step that changes one job, and of the index only what grows.
OneJob(j) ==
    /\ \A q \in Jobs \ {j} : jobs'[q] = jobs[q]
    /\ jobs'[j] \in Job
    /\ dimension' \in [Indexes -> Dimensions \cup {0}]
    /\ chunks' \in [Indexes -> [Sources -> [Numbers -> Jobs \cup {None}]]]
    /\ Grows

LEMMA SameIndexes ==
    ASSUME TypeOK, UNCHANGED <<dimension, chunks>>
    PROVE  /\ dimension' \in [Indexes -> Dimensions \cup {0}]
           /\ chunks' \in [Indexes -> [Sources -> [Numbers -> Jobs \cup {None}]]]
           /\ Grows
BY DEF TypeOK, Grows, HasChunk

LEMMA StartKeeps ==
    ASSUME Inductive, NEW j \in Jobs, Start(j)
    PROVE  OneJob(j) /\ JobInv(j)'
<1>1. jobs \in [Jobs -> Job] /\ jobs[j] \in Job /\ jobs[j] = NoJob
  BY DEF Inductive, TypeOK, JobInv, StepInv, Start
<1>2. PICK i \in Indexes, d \in Dimensions, lenient \in BOOLEAN,
           chosen \in (SUBSET Sources) \ {{}} :
        jobs' = [jobs EXCEPT ![j] =
                   NextSource([@ EXCEPT !.index = i, !.selected = chosen,
                                        !.lenient = lenient, !.dimension = d])]
  BY DEF Start
<1>3. PICK job \in Job :
        job = [jobs[j] EXCEPT !.index = i, !.selected = chosen,
                              !.lenient = lenient, !.dimension = d]
  BY <1>1 DEF Job
<1>4. /\ job.index = i /\ job.dimension = d /\ job.exit = "none"
      /\ job.indexed = {} /\ job.at = 0 /\ job.step = "idle"
  BY <1>1, <1>3 DEF NoJob
<1>5. jobs'[j] = NextSource(job) /\ \A q \in Jobs \ {j} : jobs'[q] = jobs[q]
  BY <1>1, <1>2, <1>3
<1>6. jobs'[j] \in Job /\ Advanced(job, jobs'[j])
  BY <1>4, <1>5, NextSourceAdvances
<1>7. \A k \in DOMAIN Manifest : ~(k <= job.at)
  BY <1>4, Places
<1>8. JobInv(j)'
  BY <1>4, <1>6, <1>7, LoopKeeps DEF Reported
<1> QED
  BY <1>5, <1>6, <1>8, SameIndexes DEF OneJob, Inductive, Start

LEMMA FetchKeeps ==
    ASSUME Inductive, NEW j \in Jobs, Fetch(j)
    PROVE  OneJob(j) /\ JobInv(j)'
<1>1. jobs \in [Jobs -> Job] /\ jobs[j] \in Job /\ JobInv(j) /\ AtSource(j)
      /\ jobs[j].step = "fetching"
  BY DEF Inductive, TypeOK, JobInv, StepInv, Fetch, Running
<1>2. Source(j) \in Sources
  BY <1>1 DEF AtSource, Job
<1>3. PICK length \in Lengths :
        jobs' = [jobs EXCEPT ![j].step = "creating", ![j].attempt = 0,
                             ![j].length[Source(j)] = length]
  BY DEF Fetch
<1>4. PICK s : s = Source(j)
  OBVIOUS
<1>5. /\ jobs'[j] = [jobs[j] EXCEPT !.step = "creating", !.attempt = 0,
                                    !.length = [@ EXCEPT ![s] = length]]
      /\ \A q \in Jobs \ {j} : jobs'[q] = jobs[q]
  BY <1>1, <1>3, <1>4
<1>6. jobs'[j] \in Job
  <2>1. 0 \in 0..MaxAttempts
    BY IngestionAssumption
  <2>2. [jobs[j].length EXCEPT ![s] = length] \in [Sources -> Lengths \cup {0}]
    BY <1>1 DEF Job
  <2> QED
    BY <1>1, <1>5, <2>1, <2>2 DEF Job
<1>7. /\ jobs'[j].step = "creating" /\ jobs'[j].at = jobs[j].at
      /\ jobs'[j].index = jobs[j].index /\ jobs'[j].dimension = jobs[j].dimension
      /\ jobs'[j].selected = jobs[j].selected /\ jobs'[j].failed = jobs[j].failed
      /\ jobs'[j].indexed = jobs[j].indexed /\ jobs'[j].exit = jobs[j].exit
      /\ jobs'[j].length[s] = length
      /\ \A t \in Sources \ {s} : jobs'[j].length[t] = jobs[j].length[t]
  BY <1>1, <1>2, <1>4, <1>5 DEF Job
<1>8. Source(j)' = s
  BY <1>4, <1>7 DEF Source
<1>9. StepInv(j)'
  BY <1>1, <1>4, <1>7, <1>8, IngestionAssumption
     DEF JobInv, StepInv, AtSource, Running, Source, Storing, Pending
<1>10. UNCHANGED <<dimension, chunks>>
  BY DEF Fetch
<1>11. \A t \in Sources \ {s} : Complete(jobs[j], t) => Complete(jobs[j], t)'
  BY <1>7, <1>10 DEF Complete, HasChunk
<1>12. Passed(j)'
  BY <1>1, <1>4, <1>7, <1>8, <1>11 DEF JobInv, Passed, Running, Storing, Job
<1>13. Reported(jobs[j])' /\ Told(j)'
  BY <1>1, <1>7, <1>10 DEF JobInv, Reported, Told, HasChunk
<1> QED
  BY <1>5, <1>6, <1>9, <1>10, <1>12, <1>13, SameIndexes
     DEF OneJob, Inductive, JobInv

LEMMA RetryKeeps ==
    ASSUME Inductive, NEW j \in Jobs, Retry(j)
    PROVE  OneJob(j) /\ JobInv(j)'
<1>1. jobs \in [Jobs -> Job] /\ jobs[j] \in Job /\ JobInv(j)
      /\ jobs[j].step = "fetching"
  BY DEF Inductive, TypeOK, JobInv, Retry
<1>2. /\ jobs'[j] = [jobs[j] EXCEPT !.attempt = @ + 1]
      /\ \A q \in Jobs \ {j} : jobs'[q] = jobs[q]
      /\ UNCHANGED <<dimension, chunks>>
  BY <1>1 DEF Retry
<1>3. jobs[j].attempt + 1 \in 0..MaxAttempts
  BY <1>1, IngestionAssumption DEF Retry, Job
<1>4. jobs'[j] \in Job
  BY <1>1, <1>2, <1>3 DEF Job
<1>5. /\ jobs'[j].step = "fetching" /\ jobs'[j].at = jobs[j].at
      /\ jobs'[j].index = jobs[j].index /\ jobs'[j].dimension = jobs[j].dimension
      /\ jobs'[j].selected = jobs[j].selected /\ jobs'[j].failed = jobs[j].failed
      /\ jobs'[j].indexed = jobs[j].indexed /\ jobs'[j].exit = jobs[j].exit
      /\ jobs'[j].length = jobs[j].length
  BY <1>1, <1>2 DEF Job
<1>6. StepInv(j)'
  BY <1>1, <1>5 DEF JobInv, StepInv, AtSource, Running, Source, Storing
<1>7. Passed(j)'
  BY <1>1, <1>2, <1>5 DEF JobInv, Passed, Running, Complete, HasChunk, Storing
<1>8. Reported(jobs[j])' /\ Told(j)'
  BY <1>1, <1>2, <1>5 DEF JobInv, Reported, Told, HasChunk
<1> QED
  BY <1>2, <1>4, <1>6, <1>7, <1>8, SameIndexes DEF OneJob, Inductive, JobInv

LEMMA CreateIndexKeeps ==
    ASSUME Inductive, NEW j \in Jobs, CreateIndex(j)
    PROVE  OneJob(j) /\ JobInv(j)'
<1>1. jobs \in [Jobs -> Job] /\ jobs[j] \in Job /\ JobInv(j) /\ AtSource(j)
      /\ jobs[j].step = "creating" /\ jobs[j].index \in Indexes
      /\ jobs[j].dimension \in Dimensions
  BY DEF Inductive, TypeOK, JobInv, StepInv, Running, CreateIndex
<1>2. /\ dimension' \in [Indexes -> Dimensions \cup {0}]
      /\ \A k \in Indexes : dimension[k] # 0 => dimension'[k] = dimension[k]
      /\ dimension'[jobs[j].index] # 0
  BY <1>1, CreatedEffect DEF Inductive, CreateIndex
<1>3. /\ jobs'[j] = [jobs[j] EXCEPT !.step = "checking"]
      /\ \A q \in Jobs \ {j} : jobs'[q] = jobs[q]
      /\ UNCHANGED chunks
  BY <1>1 DEF CreateIndex
<1>4. jobs'[j] \in Job
  BY <1>1, <1>3 DEF Job
<1>5. /\ jobs'[j].step = "checking" /\ jobs'[j].at = jobs[j].at
      /\ jobs'[j].index = jobs[j].index /\ jobs'[j].dimension = jobs[j].dimension
      /\ jobs'[j].selected = jobs[j].selected /\ jobs'[j].failed = jobs[j].failed
      /\ jobs'[j].indexed = jobs[j].indexed /\ jobs'[j].exit = jobs[j].exit
      /\ jobs'[j].length = jobs[j].length
  BY <1>1, <1>3 DEF Job
<1>6. Grows
  BY <1>2, <1>3 DEF Grows, HasChunk
<1>7. StepInv(j)'
  BY <1>1, <1>2, <1>5
     DEF JobInv, StepInv, AtSource, Running, Source, Storing, Pending
<1>8. Passed(j)'
  BY <1>1, <1>3, <1>5
     DEF JobInv, Passed, Running, Complete, HasChunk, Storing, Source
<1>9. Reported(jobs[j])'
  BY <1>1, <1>2, <1>3, <1>5 DEF JobInv, Reported, HasChunk
<1>10. Told(j)'
  BY <1>1, <1>5 DEF JobInv, Told
<1> QED
  BY <1>2, <1>3, <1>4, <1>6, <1>7, <1>8, <1>9, <1>10
     DEF OneJob, Inductive, TypeOK, JobInv

LEMMA CheckMappingKeeps ==
    ASSUME Inductive, NEW j \in Jobs, CheckMapping(j)
    PROVE  OneJob(j) /\ JobInv(j)'
<1>1. jobs \in [Jobs -> Job] /\ jobs[j] \in Job /\ JobInv(j) /\ AtSource(j)
      /\ jobs[j].step = "checking" /\ jobs[j].index \in Indexes
      /\ jobs[j].dimension \in Dimensions /\ Pending(j) # 0
  BY DEF Inductive, TypeOK, JobInv, StepInv, Running, Storing, CheckMapping
<1>2. /\ jobs'[j] = [jobs[j] EXCEPT !.step = "writing", !.written = 0]
      /\ \A q \in Jobs \ {j} : jobs'[q] = jobs[q]
      /\ UNCHANGED <<dimension, chunks>>
      /\ dimension[jobs[j].index] = jobs[j].dimension
  BY <1>1 DEF CheckMapping
<1>3. jobs'[j] \in Job
  <2>1. 0 \in Nat
    OBVIOUS
  <2> QED
    BY <1>1, <1>2, <2>1 DEF Job
<1>4. /\ jobs'[j].step = "writing" /\ jobs'[j].at = jobs[j].at
      /\ jobs'[j].index = jobs[j].index /\ jobs'[j].dimension = jobs[j].dimension
      /\ jobs'[j].selected = jobs[j].selected /\ jobs'[j].failed = jobs[j].failed
      /\ jobs'[j].indexed = jobs[j].indexed /\ jobs'[j].exit = jobs[j].exit
      /\ jobs'[j].length = jobs[j].length /\ jobs'[j].written = 0
  BY <1>1, <1>2 DEF Job
<1>5. Pending(j)' = Pending(j) /\ Source(j)' = Source(j)
  BY <1>4 DEF Pending, Source
<1>6. Pending(j) \in Nat /\ 0 < Pending(j)
  <2>1. Source(j) \in Sources
    BY <1>1 DEF AtSource, Job
  <2>2. Pending(j) \in Nat
    BY <1>1, <2>1, LengthsAreNumbers DEF Pending
  <2> QED
    BY <1>1, <2>2
<1>7. StepInv(j)'
  BY <1>1, <1>2, <1>4, <1>5, <1>6 DEF StepInv, AtSource, Running, Storing
<1>8. Passed(j)'
  BY <1>1, <1>2, <1>4, <1>5 DEF JobInv, Passed, Running, Complete, HasChunk, Storing
<1>9. Reported(jobs[j])' /\ Told(j)'
  BY <1>1, <1>2, <1>4 DEF JobInv, Reported, Told, HasChunk
<1> QED
  BY <1>2, <1>3, <1>7, <1>8, <1>9, SameIndexes DEF OneJob, Inductive, JobInv

\* A batch completes what was written up to its last chunk.
LEMMA BatchFollows ==
    ASSUME Inductive, NEW j \in Jobs, jobs[j].step = "writing"
    PROVE  /\ AtSource(j) /\ jobs[j].index \in Indexes /\ Source(j) \in Sources
           /\ jobs[j].written \in Nat /\ Pending(j) \in Nat
           /\ 1..Pending(j) \subseteq Numbers
           /\ Batch(j) \subseteq Numbers /\ Batch(j) # {}
           /\ \A n \in 1..Pending(j) :
                 n <= jobs[j].written + BulkSize =>
                    n \in Batch(j) \/ HasChunk(jobs[j].index, Source(j), n)
<1>1. jobs[j] \in Job /\ JobInv(j) /\ AtSource(j) /\ jobs[j].index \in Indexes
  BY DEF Inductive, TypeOK, JobInv, StepInv, Running
<1>2. Source(j) \in Sources /\ jobs[j].written \in Nat
  BY <1>1 DEF AtSource, Job
<1>3. Pending(j) \in Nat /\ 1..Pending(j) \subseteq Numbers
  BY <1>1, <1>2, LengthsAreNumbers DEF Pending
<1>4. /\ jobs[j].written < Pending(j)
      /\ \A n \in 1..jobs[j].written : HasChunk(jobs[j].index, Source(j), n)
  BY <1>1 DEF JobInv, StepInv
<1>5. BulkSize \in Nat \ {0}
  BY IngestionAssumption
<1>6. jobs[j].written + 1 \in Batch(j)
  BY <1>2, <1>3, <1>4, <1>5 DEF Batch
<1>7. Batch(j) \subseteq 1..Pending(j)
  BY DEF Batch
<1>8. \A n \in 1..Pending(j) :
        n <= jobs[j].written + BulkSize => n \in Batch(j) \/ n \in 1..jobs[j].written
  BY <1>2, <1>3, <1>5 DEF Batch
<1> QED
  BY <1>1, <1>2, <1>3, <1>4, <1>6, <1>7, <1>8

LEMMA WriteBatchKeeps ==
    ASSUME Inductive, NEW j \in Jobs, WriteBatch(j)
    PROVE  OneJob(j) /\ JobInv(j)'
<1> DEFINE numbers == Batch(j)
           sent == [jobs[j] EXCEPT !.written = @ + BulkSize]
<1>0. PICK i, s : i = jobs[j].index /\ s = Source(j)
  OBVIOUS
<1>1. jobs \in [Jobs -> Job] /\ jobs[j] \in Job /\ JobInv(j)
      /\ jobs[j].step = "writing" /\ jobs[j].exit = "none"
      /\ jobs[j].dimension \in Dimensions
  BY DEF Inductive, TypeOK, JobInv, StepInv, Told, WriteBatch
<1>2. /\ AtSource(j) /\ i \in Indexes /\ s \in Sources
      /\ jobs[j].written \in Nat /\ Pending(j) \in Nat
      /\ 1..Pending(j) \subseteq Numbers
      /\ numbers \subseteq Numbers /\ numbers # {}
      /\ \A n \in 1..Pending(j) :
            n <= jobs[j].written + BulkSize => n \in numbers \/ HasChunk(i, s, n)
  BY <1>0, <1>1, BatchFollows
<1>3. /\ chunks' \in [Indexes -> [Sources -> [Numbers -> Jobs \cup {None}]]]
      /\ \A k \in Indexes, t \in Sources, n \in Numbers :
           chunks'[k][t][n] = IF k = i /\ t = s /\ n \in numbers
                              THEN j ELSE chunks[k][t][n]
      /\ UNCHANGED dimension
  BY <1>0, <1>2, WrittenEffect DEF Inductive, WriteBatch
<1>4. j # None
  BY IngestionAssumption
<1>5. Grows
  BY <1>3, <1>4 DEF Grows, HasChunk
<1>6. \A n \in 1..Pending(j) : n <= jobs[j].written + BulkSize => HasChunk(i, s, n)'
  <2> SUFFICES ASSUME NEW n \in 1..Pending(j), n <= jobs[j].written + BulkSize
               PROVE  chunks'[i][s][n] # None
    BY DEF HasChunk
  <2>1. n \in numbers \/ HasChunk(i, s, n)
    BY <1>2
  <2>2. chunks'[i][s][n] = IF n \in numbers THEN j ELSE chunks[i][s][n]
    BY <1>2, <1>3
  <2> QED
    BY <2>1, <2>2, <1>4 DEF HasChunk
<1>7. PICK job \in Job : job = sent
  <2>1. jobs[j].written + BulkSize \in Nat
    BY <1>2, IngestionAssumption
  <2> QED
    BY <1>1, <2>1 DEF Job
<1>8. /\ job.written = jobs[j].written + BulkSize
      /\ job.step = "writing" /\ job.at = jobs[j].at /\ Source(j) = Manifest[job.at]
      /\ job.index = i /\ job.dimension = jobs[j].dimension
      /\ job.selected = jobs[j].selected /\ job.failed = jobs[j].failed
      /\ job.indexed = jobs[j].indexed /\ job.exit = "none"
      /\ job.length = jobs[j].length
  BY <1>0, <1>1, <1>7 DEF Job, Source
<1>9. Pending(j) = job.length[s]
  BY <1>0, <1>8 DEF Pending
<1>10. CASE job.written < Pending(j)
  <2>1. /\ jobs'[j] = job
        /\ \A q \in Jobs \ {j} : jobs'[q] = jobs[q]
    BY <1>1, <1>7, <1>10 DEF WriteBatch
  <2>2. Source(j)' = s /\ Pending(j)' = Pending(j)
    BY <1>0, <1>8, <1>9, <2>1 DEF Source, Pending
  <2>3. \A n \in 1..job.written : HasChunk(i, s, n)'
    <3>1. job.written \in Nat
      BY DEF Job
    <3> QED
      BY <1>2, <1>6, <1>8, <1>10, <3>1
  <2>4. StepInv(j)'
    <3>1. dimension[i] = jobs[j].dimension
      BY <1>0, <1>1 DEF JobInv, StepInv
    <3>2. Pending(j) # 0
      BY <1>1 DEF JobInv, StepInv, Storing
    <3> QED
      BY <1>0, <1>1, <1>2, <1>3, <1>8, <1>10, <2>1, <2>2, <2>3, <3>1, <3>2
         DEF StepInv, AtSource, Running, HasChunk
  <2>5. \A t \in Sources : Complete(jobs[j], t) => Complete(jobs[j], t)'
    <3> SUFFICES ASSUME NEW t \in Sources, Complete(jobs[j], t)
                 PROVE  Complete(jobs[j], t)'
      OBVIOUS
    <3>1. Complete(job, t)
      BY <1>0, <1>8 DEF Complete, HasChunk
    <3>2. Complete(job, t)'
      BY <1>2, <1>5, <1>8, <3>1, CompleteStays
    <3> QED
      BY <2>1, <3>2 DEF Complete, HasChunk
  <2>6. Passed(j)'
    BY <1>0, <1>1, <1>8, <2>1, <2>2, <2>5
       DEF JobInv, Passed, Running, Storing, Job
  <2>7. Reported(jobs[j])'
    <3>1. Reported(job)
      BY <1>0, <1>1, <1>8 DEF JobInv, Reported, HasChunk
    <3> QED
      BY <1>5, <2>1, <3>1, ReportedStays DEF Reported, HasChunk
  <2>8. Told(j)'
    BY <1>8, <2>1 DEF Told
  <2> QED
    BY <1>3, <1>5, <2>1, <2>4, <2>6, <2>7, <2>8 DEF OneJob, JobInv, Inductive, TypeOK
<1>11. CASE ~(job.written < Pending(j))
  <2>1. PICK done \in Job : done = [job EXCEPT !.indexed = @ \cup {s}]
    BY <1>2 DEF Job
  <2>2. /\ jobs'[j] = NextSource(done)
        /\ \A q \in Jobs \ {j} : jobs'[q] = jobs[q]
    BY <1>0, <1>1, <1>7, <1>11, <2>1 DEF WriteBatch
  <2>3. /\ done.step = "writing" /\ done.at = jobs[j].at
        /\ done.index = i /\ done.dimension = jobs[j].dimension
        /\ done.selected = jobs[j].selected /\ done.failed = jobs[j].failed
        /\ done.indexed = jobs[j].indexed \cup {s} /\ done.exit = "none"
        /\ done.length = jobs[j].length
    BY <1>8, <2>1 DEF Job
  <2>4. jobs'[j] \in Job /\ Advanced(done, jobs'[j])
    BY <2>2, <2>3, NextSourceAdvances
  <2>5. Complete(done, s)'
    <3>1. job.written \in Nat
      BY DEF Job
    <3>2. \A n \in 1..Pending(j) : HasChunk(i, s, n)'
      BY <1>2, <1>6, <1>8, <1>11, <3>1
    <3>3. Pending(j) # 0
      BY <1>1 DEF JobInv, StepInv, Storing
    <3> QED
      BY <1>8, <1>9, <2>3, <3>2, <3>3 DEF Complete
  <2>6. Reported(done)'
    <3>1. \A t \in jobs[j].indexed :
             dimension[i] # 0 /\ \E n \in Numbers : HasChunk(i, t, n)
      BY <1>0, <1>1 DEF JobInv, Reported
    <3>2. dimension[i] # 0
      BY <1>0, <1>1, IngestionAssumption DEF JobInv, StepInv
    <3>3. \E n \in Numbers : HasChunk(i, s, n)'
      BY <1>2, <1>3, <1>4 DEF HasChunk
    <3>4. jobs[j].indexed \subseteq Sources
      BY <1>1 DEF Job
    <3> QED
      BY <1>2, <1>3, <1>5, <2>3, <3>1, <3>2, <3>3, <3>4 DEF Reported, Grows
  <2>7. \A t \in Sources : Complete(jobs[j], t) => Complete(done, t)'
    <3> SUFFICES ASSUME NEW t \in Sources, Complete(jobs[j], t)
                 PROVE  Complete(done, t)'
      OBVIOUS
    <3>1. Complete(done, t)
      BY <1>0, <2>3 DEF Complete, HasChunk
    <3> QED
      BY <1>2, <1>5, <2>3, <3>1, CompleteStays
  <2>8. \A k \in DOMAIN Manifest :
          k <= done.at /\ Manifest[k] \in done.selected =>
             Manifest[k] \in done.failed \/ Complete(done, Manifest[k])'
    <3> SUFFICES ASSUME NEW k \in DOMAIN Manifest, k <= done.at,
                        Manifest[k] \in done.selected
                 PROVE  Manifest[k] \in done.failed \/ Complete(done, Manifest[k])'
      OBVIOUS
    <3>1. Manifest[k] \in Sources
      BY IngestionAssumption
    <3>2. CASE Manifest[k] = s
      BY <2>5, <3>2
    <3>3. CASE Manifest[k] # s
      <4>1. k < jobs[j].at
        BY <1>0, <1>2, <2>3, <3>3, Places DEF Source, AtSource
      <4> QED
        BY <1>0, <1>1, <2>3, <2>7, <3>1, <3>3, <4>1 DEF JobInv, Passed, Running
    <3> QED
      BY <3>2, <3>3
  <2>9. JobInv(j)'
    BY <1>1, <1>2, <2>3, <2>4, <2>6, <2>8, LoopKeeps
  <2> QED
    BY <1>3, <1>5, <2>2, <2>4, <2>9 DEF OneJob, Inductive, TypeOK
<1> QED
  BY <1>10, <1>11

\* What a job knows when it fails or is killed, and what that leaves.
LEMMA CutKeeps ==
    ASSUME Inductive, NEW j \in Jobs, Running(j), CutShort(j)
    PROVE  /\ dimension' \in [Indexes -> Dimensions \cup {0}]
           /\ chunks' \in [Indexes -> [Sources -> [Numbers -> Jobs \cup {None}]]]
           /\ Grows
BY CutShortEffect DEF Inductive, JobInv, StepInv, Running

LEMMA OverKeeps ==
    ASSUME Inductive, Grows, NEW j \in Jobs, Running(j),
           jobs'[j] = Over(jobs[j], "error")
    PROVE  jobs'[j] \in Job /\ JobInv(j)'
<1>1. jobs[j] \in Job /\ JobInv(j) /\ jobs[j].step # "idle"
  BY DEF Inductive, TypeOK, Running
<1>2. 0 \in 0..MaxAttempts /\ 0 \in Nat
  BY IngestionAssumption
<1>3. jobs'[j] \in Job
  BY <1>1, <1>2 DEF Over, Job
<1>4. /\ jobs'[j].step = "ended" /\ jobs'[j].exit = "error"
      /\ jobs'[j].index = jobs[j].index /\ jobs'[j].dimension = jobs[j].dimension
      /\ jobs'[j].indexed = jobs[j].indexed
  BY <1>1 DEF Over, Job
<1>5. Reported(jobs[j])'
  <2>1. PICK job \in Job : job = jobs[j]
    BY <1>1
  <2>2. Reported(job)'
    BY <1>1, <2>1, ReportedStays DEF JobInv, Reported, HasChunk
  <2> QED
    BY <1>4, <2>1, <2>2 DEF Reported, HasChunk
<1>6. StepInv(j)' /\ Passed(j)' /\ Told(j)'
  BY <1>1, <1>4 DEF JobInv, StepInv, Passed, Told, Running, Storing
<1> QED
  BY <1>3, <1>5, <1>6 DEF JobInv

LEMMA KilledKeeps ==
    ASSUME Inductive, NEW j \in Jobs, Killed(j)
    PROVE  OneJob(j) /\ JobInv(j)'
<1>1. /\ jobs'[j] = Over(jobs[j], "error")
      /\ \A q \in Jobs \ {j} : jobs'[q] = jobs[q]
  BY DEF Inductive, TypeOK, Killed
<1> QED
  BY <1>1, CutKeeps, OverKeeps DEF Killed, OneJob

LEMMA SourceFailsKeeps ==
    ASSUME Inductive, NEW j \in Jobs, SourceFails(j)
    PROVE  OneJob(j) /\ JobInv(j)'
<1>1. /\ Running(j) /\ Grows
      /\ dimension' \in [Indexes -> Dimensions \cup {0}]
      /\ chunks' \in [Indexes -> [Sources -> [Numbers -> Jobs \cup {None}]]]
  BY CutKeeps DEF SourceFails
<1>2. \A q \in Jobs \ {j} : jobs'[q] = jobs[q]
  BY DEF Inductive, TypeOK, SourceFails
<1>3. CASE ~jobs[j].lenient
  <2>1. jobs'[j] = Over(jobs[j], "error")
    BY <1>3 DEF Inductive, TypeOK, SourceFails
  <2> QED
    BY <1>1, <1>2, <2>1, OverKeeps DEF OneJob
<1>4. CASE jobs[j].lenient
  <2>1. jobs[j] \in Job /\ JobInv(j) /\ AtSource(j) /\ jobs[j].exit = "none"
        /\ jobs[j].index \in Indexes /\ jobs[j].dimension \in Dimensions
        /\ jobs[j].step \in {"fetching", "creating", "checking", "writing"}
    BY <1>1 DEF Inductive, TypeOK, JobInv, StepInv, Running, Told, Job
  <2>2. PICK s \in Sources : s = Source(j)
    BY <2>1 DEF AtSource, Job
  <2>3. PICK job \in Job : job = [jobs[j] EXCEPT !.failed = @ \cup {s}]
    BY <2>1 DEF Job
  <2>4. jobs'[j] = NextSource(job)
    BY <1>4, <2>2, <2>3 DEF Inductive, TypeOK, SourceFails
  <2>5. /\ job.step = jobs[j].step /\ job.at = jobs[j].at
        /\ job.index = jobs[j].index /\ job.dimension = jobs[j].dimension
        /\ job.selected = jobs[j].selected /\ job.failed = jobs[j].failed \cup {s}
        /\ job.indexed = jobs[j].indexed /\ job.exit = "none"
        /\ job.length = jobs[j].length
    BY <2>1, <2>3 DEF Job
  <2>6. jobs'[j] \in Job /\ Advanced(job, jobs'[j])
    BY <2>1, <2>4, <2>5, NextSourceAdvances
  <2>7. Reported(job)'
    <3>1. Reported(job)
      BY <2>1, <2>5 DEF JobInv, Reported, HasChunk
    <3> QED
      BY <1>1, <3>1, ReportedStays
  <2>8. \A t \in Sources : Complete(jobs[j], t) => Complete(job, t)'
    <3> SUFFICES ASSUME NEW t \in Sources, Complete(jobs[j], t)
                 PROVE  Complete(job, t)'
      OBVIOUS
    <3>1. Complete(job, t)
      BY <2>5 DEF Complete, HasChunk
    <3> QED
      BY <1>1, <2>1, <2>5, <3>1, CompleteStays
  <2>9. \A k \in DOMAIN Manifest :
          k <= job.at /\ Manifest[k] \in job.selected =>
             Manifest[k] \in job.failed \/ Complete(job, Manifest[k])'
    <3> SUFFICES ASSUME NEW k \in DOMAIN Manifest, k <= job.at,
                        Manifest[k] \in job.selected, Manifest[k] \notin job.failed
                 PROVE  Complete(job, Manifest[k])'
      OBVIOUS
    <3>1. Manifest[k] \in Sources
      BY IngestionAssumption
    <3>2. k < jobs[j].at
      BY <2>1, <2>2, <2>5, Places DEF Source, AtSource
    <3> QED
      BY <1>1, <2>1, <2>2, <2>5, <2>8, <3>1, <3>2 DEF JobInv, Passed
  <2>10. JobInv(j)'
    BY <2>1, <2>5, <2>6, <2>7, <2>9, LoopKeeps
  <2> QED
    BY <1>1, <1>2, <2>6, <2>10 DEF OneJob
<1> QED
  BY <1>3, <1>4

LEMMA JobStepKeeps ==
    ASSUME Inductive, NEW j \in Jobs, Start(j) \/ Works(j) \/ Killed(j)
    PROVE  OneJob(j) /\ JobInv(j)'
BY StartKeeps, FetchKeeps, RetryKeeps, CreateIndexKeeps, CheckMappingKeeps,
   WriteBatchKeeps, SourceFailsKeeps, KilledKeeps DEF Works

-----------------------------------------------------------------------------
(* Chunks and the dimension of their index.                                *)

\* Who may write: a job that has seen that its dimension is the index's.
LEMMA WrittenByMapped ==
    ASSUME Inductive, NEW j \in Jobs, Start(j) \/ Works(j) \/ Killed(j)
    PROVE  \/ UNCHANGED chunks
           \/ /\ jobs[j].step = "writing"
              /\ dimension[jobs[j].index] = jobs[j].dimension
              /\ jobs[j].index \in Indexes
              /\ jobs[j].dimension \in Dimensions
              /\ \A i \in Indexes, s \in Sources, n \in Numbers :
                    \/ chunks'[i][s][n] = chunks[i][s][n]
                    \/ i = jobs[j].index /\ chunks'[i][s][n] = j
<1>1. \/ UNCHANGED chunks
      \/ jobs[j].step = "writing" /\ \E numbers : Written(j, numbers)
  BY DEF Works, Start, Fetch, Retry, CreateIndex, CheckMapping, WriteBatch,
         SourceFails, Killed, CutShort
<1>2. ASSUME jobs[j].step = "writing", NEW numbers, Written(j, numbers)
      PROVE  /\ dimension[jobs[j].index] = jobs[j].dimension
             /\ jobs[j].index \in Indexes
             /\ jobs[j].dimension \in Dimensions
             /\ \A i \in Indexes, s \in Sources, n \in Numbers :
                   \/ chunks'[i][s][n] = chunks[i][s][n]
                   \/ i = jobs[j].index /\ chunks'[i][s][n] = j
  <2>1. /\ AtSource(j) /\ jobs[j].index \in Indexes
        /\ jobs[j].dimension \in Dimensions
        /\ dimension[jobs[j].index] = jobs[j].dimension
    BY <1>2 DEF Inductive, JobInv, StepInv, Running
  <2> QED
    BY <1>2, <2>1, WrittenEffect DEF Inductive
<1> QED
  BY <1>1, <1>2

\* What a job was started with it keeps, and it reports a source only with the
\* last batch of that source.
KeepsReport(j) ==
    /\ jobs'[j].step # "idle"
    /\ jobs'[j].dimension = jobs[j].dimension /\ jobs'[j].index = jobs[j].index
    /\ \/ jobs'[j].indexed = jobs[j].indexed
       \/ WriteBatch(j) /\ jobs'[j].indexed = jobs[j].indexed \cup {Source(j)}

LEMMA ReportKept ==
    ASSUME Inductive, NEW j \in Jobs, Works(j) \/ Killed(j)
    PROVE  KeepsReport(j)
<1>1. jobs \in [Jobs -> Job] /\ jobs[j] \in Job
  BY DEF Inductive, TypeOK
<1>2. CASE Fetch(j) \/ Retry(j) \/ CreateIndex(j) \/ CheckMapping(j)
  BY <1>1, <1>2
     DEF Fetch, Retry, CreateIndex, CheckMapping, Job, KeepsReport
<1>3. ASSUME jobs'[j] = Over(jobs[j], "error")
      PROVE  KeepsReport(j)
  BY <1>1, <1>3 DEF Over, Job, KeepsReport
<1>4. ASSUME NEW job \in Job, job.dimension = jobs[j].dimension,
             job.index = jobs[j].index,
             \/ job.indexed = jobs[j].indexed
             \/ WriteBatch(j) /\ job.indexed = jobs[j].indexed \cup {Source(j)},
             job.step # "idle", job.step # "ended", jobs'[j] = NextSource(job)
      PROVE  KeepsReport(j)
  <2>1. job.step \in {"idle", "fetching", "creating", "checking", "writing"}
    BY <1>4 DEF Job
  <2> QED
    BY <1>4, <2>1, NextSourceAdvances DEF Advanced, KeepsReport
<1>5. CASE WriteBatch(j)
  <2>1. jobs[j].step = "writing" /\ Source(j) \in Sources /\ jobs[j].written \in Nat
    BY <1>5, BatchFollows DEF WriteBatch
  <2>2. PICK sent \in Job : sent = [jobs[j] EXCEPT !.written = @ + BulkSize]
    <3>1. jobs[j].written + BulkSize \in Nat
      BY <2>1, IngestionAssumption
    <3> QED
      BY <1>1, <3>1 DEF Job
  <2>3. PICK done \in Job : done = [sent EXCEPT !.indexed = @ \cup {Source(j)}]
    BY <2>1 DEF Job
  <2>4. jobs'[j] = sent \/ jobs'[j] = NextSource(done)
    BY <1>1, <1>5, <2>2, <2>3 DEF WriteBatch
  <2>5. /\ sent.dimension = jobs[j].dimension /\ sent.step = "writing"
        /\ sent.index = jobs[j].index /\ sent.indexed = jobs[j].indexed
        /\ done.dimension = jobs[j].dimension /\ done.step = "writing"
        /\ done.index = jobs[j].index
        /\ done.indexed = jobs[j].indexed \cup {Source(j)}
    BY <1>1, <2>1, <2>2, <2>3 DEF Job
  <2>6. CASE jobs'[j] = sent
    BY <2>5, <2>6 DEF KeepsReport
  <2> QED
    BY <1>4, <1>5, <2>4, <2>5, <2>6
<1>6. CASE SourceFails(j)
  <2>1. Running(j) /\ AtSource(j)
    BY <1>6 DEF SourceFails, Inductive, JobInv, StepInv
  <2>2. Source(j) \in Sources
    BY <1>1, <2>1 DEF AtSource, Job
  <2>3. PICK job \in Job : job = [jobs[j] EXCEPT !.failed = @ \cup {Source(j)}]
    BY <1>1, <2>2 DEF Job
  <2>4. jobs'[j] = NextSource(job) \/ jobs'[j] = Over(jobs[j], "error")
    BY <1>1, <1>6, <2>3 DEF SourceFails
  <2>5. /\ job.dimension = jobs[j].dimension /\ job.step = jobs[j].step
        /\ job.index = jobs[j].index /\ job.indexed = jobs[j].indexed
    BY <1>1, <2>3 DEF Job
  <2> QED
    BY <1>3, <1>4, <2>1, <2>4, <2>5 DEF Running
<1>7. CASE Killed(j)
  BY <1>1, <1>3, <1>7 DEF Killed
<1> QED
  BY <1>2, <1>5, <1>6, <1>7 DEF Works

\* The job that writes the first chunk of an index need not be the one that
\* made it, but it has checked the dimension.
LEMMA DimensionedKept ==
    ASSUME Inductive, NEW j \in Jobs, Start(j) \/ Works(j) \/ Killed(j)
    PROVE  Dimensioned'
<1> SUFFICES ASSUME NEW i \in Indexes, NEW s \in Sources, NEW n \in Numbers,
                    chunks'[i][s][n] # None
             PROVE  /\ jobs'[chunks'[i][s][n]].step # "idle"
                    /\ jobs'[chunks'[i][s][n]].dimension = dimension'[i]
                    /\ dimension'[i] # 0
  BY DEF Dimensioned, HasChunk
<1>1. /\ OneJob(j)
      /\ dimension[i] # 0 => dimension'[i] = dimension[i]
  BY JobStepKeeps DEF OneJob, Grows
<1>2. PICK writer : writer = chunks'[i][s][n]
  OBVIOUS
<1>3. writer \in Jobs
  BY <1>1, <1>2 DEF OneJob
<1>4. /\ jobs[writer].step # "idle" /\ jobs[writer].dimension = dimension[i]
      /\ dimension[i] # 0
  <2>1. CASE writer = chunks[i][s][n]
    BY <1>2, <2>1 DEF Inductive, Dimensioned, HasChunk
  <2>2. CASE writer # chunks[i][s][n]
    <3>1. /\ jobs[j].step = "writing" /\ writer = j /\ i = jobs[j].index
          /\ dimension[jobs[j].index] = jobs[j].dimension
          /\ jobs[j].dimension \in Dimensions
      BY <1>2, <2>2, WrittenByMapped
    <3> QED
      BY <3>1, IngestionAssumption
  <2> QED
    BY <2>1, <2>2
<1>5. CASE writer # j
  BY <1>1, <1>2, <1>3, <1>4, <1>5 DEF OneJob
<1>6. CASE writer = j
  <2>1. Works(j) \/ Killed(j)
    BY <1>4, <1>6 DEF Start
  <2> QED
    BY <1>1, <1>2, <1>4, <1>6, <2>1, ReportKept DEF KeepsReport
<1> QED
  BY <1>5, <1>6

-----------------------------------------------------------------------------
(* The theorems.                                                           *)

LEMMA NoJobYet ==
    /\ NoJob \in Job
    /\ NoJob.step = "idle" /\ NoJob.indexed = {} /\ NoJob.exit = "none"
<1>1. NoJob \in Job
  BY Places, IngestionAssumption DEF NoJob, Job
<1>2. NoJob.step = "idle" /\ NoJob.indexed = {} /\ NoJob.exit = "none"
  BY DEF NoJob
<1> QED
  BY <1>1, <1>2

LEMMA InitEstablishes == Init => Inductive
<1> SUFFICES ASSUME Init PROVE Inductive
  OBVIOUS
<1>1. \A j \in Jobs : jobs[j] = NoJob
  BY DEF Init
<1>3. TypeOK
  BY NoJobYet DEF Init, TypeOK
<1>4. Dimensioned
  BY DEF Init, Dimensioned, HasChunk
<1>5. \A j \in Jobs : JobInv(j)
  <2> SUFFICES ASSUME NEW j \in Jobs PROVE JobInv(j)
    OBVIOUS
  <2>1. /\ jobs[j] = NoJob /\ jobs[j].step = "idle" /\ jobs[j].indexed = {}
        /\ jobs[j].exit = "none"
    BY <1>1, NoJobYet
  <2> QED
    BY <2>1 DEF JobInv, StepInv, Passed, Reported, Told, Running, Storing
<1> QED
  BY <1>3, <1>4, <1>5 DEF Inductive

LEMMA NextPreserves == Inductive /\ [Next]_vars => Inductive'
<1> SUFFICES ASSUME Inductive, [Next]_vars PROVE Inductive'
  OBVIOUS
<1>1. CASE UNCHANGED vars
  <2>1. UNCHANGED <<jobs, dimension, chunks>>
    BY <1>1 DEF vars
  <2>2. Grows
    BY <2>1 DEF Grows, HasChunk
  <2>3. \A j \in Jobs : JobInv(j)'
    BY <2>1, <2>2, OthersKeep
  <2>4. TypeOK' /\ Dimensioned'
    BY <2>1 DEF Inductive, TypeOK, Dimensioned, HasChunk
  <2> QED
    BY <2>3, <2>4 DEF Inductive
<1>2. ASSUME NEW j \in Jobs, Start(j) \/ Works(j) \/ Killed(j)
      PROVE  Inductive'
  <2>1. OneJob(j) /\ JobInv(j)'
    BY <1>2, JobStepKeeps
  <2>2. \A q \in Jobs : JobInv(q)'
    BY <2>1, OthersKeep DEF OneJob
  <2>3. jobs' \in [Jobs -> Job]
    <3>1. jobs' = [q \in Jobs |-> jobs'[q]]
      BY <1>2 DEF Inductive, TypeOK, Works, Start, Fetch, Retry, CreateIndex,
                  CheckMapping, WriteBatch, SourceFails, Killed
    <3>2. \A q \in Jobs : jobs'[q] \in Job
      BY <2>1 DEF OneJob, Inductive, TypeOK
    <3> QED
      BY <3>1, <3>2, Zenon
  <2>4. TypeOK'
    BY <2>1, <2>3 DEF TypeOK, OneJob
  <2>5. Dimensioned'
    BY <1>2, DimensionedKept
  <2> QED
    BY <2>2, <2>4, <2>5 DEF Inductive
<1> QED
  BY <1>1, <1>2 DEF Next

LEMMA InductiveHolds == Spec => []Inductive
<1>1. Init => Inductive
  BY InitEstablishes
<1>2. Inductive /\ [Next]_vars => Inductive'
  BY NextPreserves
<1> QED
  BY <1>1, <1>2, PTL DEF Spec

\* The variables keep their types, at any number of jobs on any indexes.
THEOREM IngestionTypesKept == Spec => []TypeOK
<1>1. Inductive => TypeOK
  BY DEF Inductive
<1> QED
  BY <1>1, InductiveHolds, PTL

\* A worker that exits with zero has left every chunk of the version it fetched
\* of every selected source in the index, whatever else writes to it.
THEOREM ZeroExitIsTrue == Spec => []ZeroExitMeansIndexed
<1>1. Inductive => ZeroExitMeansIndexed
  BY DEF Inductive, JobInv, Told, Complete, HasChunk, ZeroExitMeansIndexed
<1> QED
  BY <1>1, InductiveHolds, PTL

\* Vectors of two dimensions never share an index, whoever made it first.
THEOREM OneDimension == Spec => []IndexHasOneDimension
<1>1. Inductive => IndexHasOneDimension
  BY DEF Inductive, Dimensioned, HasChunk, IndexHasOneDimension
<1> QED
  BY <1>1, InductiveHolds, PTL

-----------------------------------------------------------------------------
(* The refinement of DerivedIndex.                                         *)

Existing == {i \in Indexes : dimension[i] # 0}

Documents(i) == {s \in Sources : \E n \in Numbers : HasChunk(i, s, n)}

Ingested(i) ==
    {s \in Sources : \E j \in Jobs : jobs[j].index = i /\ s \in jobs[j].indexed}

LEMMA DerivedInit == Init => Derived!Init
<1> SUFFICES ASSUME Init PROVE Derived!Init
  OBVIOUS
<1>1. \A j \in Jobs : jobs[j].indexed = {}
  BY DEF Init, NoJob
<1> QED
  BY <1>1 DEF Init, Derived!Init


\* A step with the effect of one of the abstract operations, or of none.
SameDocuments == \A i \in Indexes : Documents(i)' = Documents(i)

SameIngested == \A i \in Indexes : Ingested(i)' = Ingested(i)

Adds(i, s) ==
    \A k \in Indexes :
        Documents(k)' = IF k = i THEN Documents(k) \cup {s} ELSE Documents(k)

Reports(i, s) ==
    \A k \in Indexes :
        Ingested(k)' = IF k = i THEN Ingested(k) \cup {s} ELSE Ingested(k)

LEMMA SameIndexEffect ==
    ASSUME UNCHANGED <<dimension, chunks>>
    PROVE  Existing' = Existing /\ SameDocuments
BY DEF Existing, SameDocuments, Documents, HasChunk

LEMMA CreatedAdds ==
    ASSUME TypeOK, NEW i \in Indexes, NEW d \in Dimensions, Created(i, d),
           UNCHANGED chunks
    PROVE  Existing' = Existing \cup {i} /\ SameDocuments
<1>1. \A k \in Indexes : dimension'[k] # 0 <=> dimension[k] # 0 \/ k = i
  BY IngestionAssumption DEF TypeOK, Created
<1> QED
  BY <1>1 DEF Existing, SameDocuments, Documents, HasChunk

\* A write adds the source in hand, if it writes anything.
LEMMA WrittenAdds ==
    ASSUME Inductive, NEW j \in Jobs, jobs[j].step = "writing",
           NEW numbers \in SUBSET Batch(j), Written(j, numbers),
           UNCHANGED dimension
    PROVE  /\ Existing' = Existing
           /\ jobs[j].index \in Existing /\ Source(j) \in Sources
           /\ IF numbers = {} THEN SameDocuments ELSE Adds(jobs[j].index, Source(j))
<1>0. PICK i, s : i = jobs[j].index /\ s = Source(j)
  OBVIOUS
<1>1. /\ AtSource(j) /\ i \in Indexes /\ s \in Sources /\ numbers \subseteq Numbers
      /\ dimension[i] # 0 /\ j # None
  BY <1>0, BatchFollows, IngestionAssumption DEF Inductive, JobInv, StepInv
<1>2. \A k \in Indexes, t \in Sources, n \in Numbers :
        chunks'[k][t][n] = IF k = i /\ t = s /\ n \in numbers
                           THEN j ELSE chunks[k][t][n]
  BY <1>0, <1>1, WrittenEffect DEF Inductive
<1>3. CASE numbers = {}
  BY <1>0, <1>1, <1>2, <1>3 DEF Existing, SameDocuments, Documents, HasChunk
<1>4. CASE numbers # {}
  <2>1. ASSUME NEW k \in Indexes, NEW t \in Sources
        PROVE  (\E n \in Numbers : chunks'[k][t][n] # None)
                 <=> (k = i /\ t = s) \/ (\E n \in Numbers : chunks[k][t][n] # None)
    BY <1>1, <1>2, <1>4
  <2>2. Adds(i, s)
    BY <1>1, <2>1 DEF Adds, Documents, HasChunk
  <2> QED
    BY <1>0, <1>1, <1>4, <2>2 DEF Existing
<1> QED
  BY <1>3, <1>4

\* What an answer that does not count has done to the index.
LEMMA CutShortAdds ==
    ASSUME Inductive, NEW j \in Jobs, Running(j), CutShort(j)
    PROVE  \/ Existing' = Existing /\ SameDocuments
           \/ \E i \in Indexes : Existing' = Existing \cup {i} /\ SameDocuments
           \/ \E i \in Existing, s \in Sources : Existing' = Existing /\ Adds(i, s)
<1>1. jobs[j].index \in Indexes /\ jobs[j].dimension \in Dimensions
  BY DEF Inductive, JobInv, StepInv, Running
<1>2. CASE UNCHANGED <<dimension, chunks>>
  BY <1>2, SameIndexEffect
<1>3. CASE Created(jobs[j].index, jobs[j].dimension) /\ UNCHANGED chunks
  BY <1>1, <1>3, CreatedAdds DEF Inductive
<1>4. CASE /\ jobs[j].step = "writing"
           /\ \E numbers \in SUBSET Batch(j) : Written(j, numbers)
           /\ UNCHANGED dimension
  BY <1>4, WrittenAdds
<1> QED
  BY <1>2, <1>3, <1>4 DEF CutShort

LEMMA SameReports ==
    ASSUME \A i, s : (\E q \in Jobs : jobs'[q].index = i /\ s \in jobs'[q].indexed)
                       <=> \E q \in Jobs : jobs[q].index = i /\ s \in jobs[q].indexed
    PROVE  SameIngested
<1> SUFFICES ASSUME NEW i \in Indexes PROVE Ingested(i)' = Ingested(i)
  BY DEF SameIngested
<1>1. \A s \in Sources :
        (\E q \in Jobs : jobs'[q].index = i /\ s \in jobs'[q].indexed)
          <=> \E q \in Jobs : jobs[q].index = i /\ s \in jobs[q].indexed
  OBVIOUS
<1> QED
  BY <1>1, Zenon DEF Ingested

\* What a step does to the reports.
LEMMA IngestedBy ==
    ASSUME Inductive, NEW j \in Jobs, Start(j) \/ Works(j) \/ Killed(j)
    PROVE  SameIngested \/ (WriteBatch(j) /\ Reports(jobs[j].index, Source(j)))
<1>1. \A q \in Jobs \ {j} : jobs'[q] = jobs[q]
  BY JobStepKeeps DEF OneJob
<1>2. CASE Start(j)
  <2>1. jobs[j].indexed = {}
    BY <1>2, NoJobYet DEF Inductive, JobInv, StepInv, Start
  <2>2. jobs'[j].indexed = {}
    <3>1. PICK job \in Job : /\ jobs'[j] = NextSource(job)
                             /\ job.indexed = {} /\ job.step = "idle"
      <4>1. jobs \in [Jobs -> Job] /\ jobs[j] = NoJob /\ NoJob \in Job
        BY <1>2, NoJobYet DEF Inductive, TypeOK, JobInv, StepInv, Start
      <4>2. PICK i \in Indexes, d \in Dimensions, lenient \in BOOLEAN,
                 chosen \in (SUBSET Sources) \ {{}} :
              jobs' = [jobs EXCEPT ![j] =
                         NextSource([@ EXCEPT !.index = i, !.selected = chosen,
                                              !.lenient = lenient, !.dimension = d])]
        BY <1>2 DEF Start
      <4>3. PICK job \in Job :
              job = [NoJob EXCEPT !.index = i, !.selected = chosen,
                                  !.lenient = lenient, !.dimension = d]
        BY <4>1 DEF Job
      <4> QED
        BY <4>1, <4>2, <4>3 DEF NoJob
    <3> QED
      BY <3>1, NextSourceAdvances DEF Advanced
  <2>3. \A i, s : (\E q \in Jobs : jobs'[q].index = i /\ s \in jobs'[q].indexed)
                    <=> \E q \in Jobs : jobs[q].index = i /\ s \in jobs[q].indexed
    BY <1>1, <2>1, <2>2
  <2> QED
    BY <2>3, SameReports
<1>3. CASE Works(j) \/ Killed(j)
  <2>1. KeepsReport(j)
    BY <1>3, ReportKept
  <2>2. CASE jobs'[j].indexed = jobs[j].indexed
    <3>1. \A i, s : (\E q \in Jobs : jobs'[q].index = i /\ s \in jobs'[q].indexed)
                      <=> \E q \in Jobs : jobs[q].index = i /\ s \in jobs[q].indexed
      BY <1>1, <2>1, <2>2 DEF KeepsReport
    <3> QED
      BY <3>1, SameReports
  <2>3. CASE WriteBatch(j) /\ jobs'[j].indexed = jobs[j].indexed \cup {Source(j)}
    <3>1. PICK i, s : i = jobs[j].index /\ s = Source(j)
      OBVIOUS
    <3>2. s \in Sources
      BY <2>3, <3>1, BatchFollows DEF WriteBatch
    <3>3. \A k, t : (\E q \in Jobs : jobs'[q].index = k /\ t \in jobs'[q].indexed)
                      <=> \/ k = i /\ t = s
                          \/ \E q \in Jobs : jobs[q].index = k /\ t \in jobs[q].indexed
      BY <1>1, <2>1, <2>3, <3>1 DEF KeepsReport
    <3>4. Reports(i, s)
      BY <3>2, <3>3 DEF Reports, Ingested
    <3> QED
      BY <2>3, <3>1, <3>4
  <2> QED
    BY <2>1, <2>2, <2>3 DEF KeepsReport
<1> QED
  BY <1>2, <1>3

\* Each step has the effect of an operation of DerivedIndex, or none.
LEMMA StepMaps ==
    ASSUME Inductive, NEW j \in Jobs, Start(j) \/ Works(j) \/ Killed(j)
    PROVE  \/ Existing' = Existing /\ SameDocuments /\ SameIngested
           \/ \E i \in Indexes :
                 Existing' = Existing \cup {i} /\ SameDocuments /\ SameIngested
           \/ \E i \in Existing, s \in Sources :
                 /\ Existing' = Existing /\ Adds(i, s)
                 /\ SameIngested \/ Reports(i, s)
<1>1. CASE Start(j) \/ Fetch(j) \/ Retry(j) \/ CheckMapping(j)
  <2>1. UNCHANGED <<dimension, chunks>>
    BY <1>1 DEF Start, Fetch, Retry, CheckMapping
  <2>2. ~WriteBatch(j) \/ Existing' = Existing
    BY <2>1, SameIndexEffect
  <2>3. ~WriteBatch(j)
    BY <1>1 DEF Start, Fetch, Retry, CheckMapping, WriteBatch
  <2> QED
    BY <2>1, <2>3, SameIndexEffect, IngestedBy
<1>2. CASE CreateIndex(j)
  <2>1. jobs[j].index \in Indexes /\ jobs[j].dimension \in Dimensions
    BY <1>2 DEF Inductive, JobInv, StepInv, CreateIndex
  <2>2. Existing' = Existing \cup {jobs[j].index} /\ SameDocuments
    BY <1>2, <2>1, CreatedAdds DEF Inductive, CreateIndex
  <2>3. ~WriteBatch(j)
    BY <1>2 DEF CreateIndex, WriteBatch
  <2> QED
    BY <2>1, <2>2, <2>3, IngestedBy
<1>3. CASE WriteBatch(j)
  <2>1. Batch(j) # {} /\ jobs[j].step = "writing"
    BY <1>3, BatchFollows DEF WriteBatch
  <2>2. /\ Existing' = Existing /\ jobs[j].index \in Existing /\ Source(j) \in Sources
        /\ Adds(jobs[j].index, Source(j))
    BY <1>3, <2>1, WrittenAdds DEF WriteBatch
  <2> QED
    BY <2>2, IngestedBy
<1>4. CASE (SourceFails(j) \/ Killed(j)) /\ ~WriteBatch(j)
  <2>1. Running(j) /\ CutShort(j)
    BY <1>4 DEF SourceFails, Killed
  <2>2. SameIngested
    BY <1>4, IngestedBy
  <2> QED
    BY <2>1, <2>2, CutShortAdds
<1> QED
  BY <1>1, <1>2, <1>3, <1>4 DEF Works

\* A worker, however many of them run, whatever fails or is killed, does to an
\* index only what DerivedIndex allows: a source that has evidence in it keeps
\* some, of whatever version, and is reported only when it has.
THEOREM ImplementsDerived == Spec => ImplementsDerivedIndex
<1>1. Init => Derived!Init
  BY DerivedInit
<1>2. Inductive /\ [Next]_vars => [Derived!Next]_(Derived!indexVars)
  <2> SUFFICES ASSUME Inductive, [Next]_vars
               PROVE  [Derived!Next]_(Derived!indexVars)
    OBVIOUS
  <2> DEFINE documents == [i \in Indexes |-> Documents(i)]
             ingested == [i \in Indexes |-> Ingested(i)]
  <2>1. ASSUME Existing' = Existing, SameDocuments, SameIngested
        PROVE  UNCHANGED Derived!indexVars
    <3>1. documents' = documents /\ ingested' = ingested
      BY <2>1 DEF SameDocuments, SameIngested
    <3> QED
      BY <2>1, <3>1
         DEF Derived!indexVars, Existing, Documents, Ingested, HasChunk
  <2>2. ASSUME NEW i \in Indexes, Existing' = Existing \cup {i}, SameDocuments,
               SameIngested
        PROVE  Derived!Create(i)
    <3>1. documents' = documents /\ ingested' = ingested
      BY <2>2 DEF SameDocuments, SameIngested
    <3> QED
      BY <2>2, <3>1 DEF Derived!Create, Existing, Documents, Ingested, HasChunk
  <2>3. ASSUME NEW i \in Existing, NEW s \in Sources, Existing' = Existing,
               Adds(i, s), SameIngested
        PROVE  Derived!AddEvidence(i, s)
    <3>1. /\ documents' = [documents EXCEPT ![i] = @ \cup {s}]
          /\ ingested' = ingested
      BY <2>3 DEF Adds, SameIngested
    <3> QED
      BY <2>3, <3>1 DEF Derived!AddEvidence, Existing, Documents, Ingested, HasChunk
  <2>4. ASSUME NEW i \in Existing, NEW s \in Sources, Existing' = Existing,
               Adds(i, s), Reports(i, s)
        PROVE  Derived!Complete(i, s)
    <3>1. /\ documents' = [documents EXCEPT ![i] = @ \cup {s}]
          /\ ingested' = [ingested EXCEPT ![i] = @ \cup {s}]
      BY <2>4 DEF Adds, Reports
    <3> QED
      BY <2>4, <3>1 DEF Derived!Complete, Existing, Documents, Ingested, HasChunk
  <2>5. CASE UNCHANGED vars
    <3>1. Existing' = Existing /\ SameDocuments /\ SameIngested
      BY <2>5 DEF vars, Existing, SameDocuments, SameIngested, Documents, Ingested,
                  HasChunk
    <3> QED
      BY <2>1, <3>1
  <2>6. ASSUME NEW j \in Jobs, Start(j) \/ Works(j) \/ Killed(j)
        PROVE  [Derived!Next]_(Derived!indexVars)
    <3>1. Existing \subseteq Indexes
      BY DEF Existing
    <3> QED
      BY <2>1, <2>2, <2>3, <2>4, <2>6, <3>1, StepMaps DEF Derived!Next
  <2> QED
    BY <2>5, <2>6 DEF Next
<1> QED
  BY <1>1, <1>2, InductiveHolds, PTL
     DEF Spec, Derived!Spec, ImplementsDerivedIndex
=============================================================================
