# Formal models of MSME Saarthi AI

TLA+ modules of the parts of this repository whose order of steps matters, the
TLC configurations that check them on small instances, and TLAPS proofs of every
safety property they check. `PROJECT.json` maps every definition to the lines it models,
lists the runs, a mutant of the code for every property, the hazards of the
code and the theorems.

    tlc -workers 2 -config MCChatStreamOne.cfg MCChatStream.tla
    tlapm ChatStreamProofs.tla

## 1. Inventory

| Part | State it keeps | Operations | Talks to |
|---|---|---|---|
| Chat service (`features/chat/service.py`, `router.py`) | the locals of each `stream_message` coroutine | stream, history, clear | message store, graph, provider, client by SSE |
| Claim validation (`agents/chat/citation_validation.py`) | none | validate | called by the chat service |
| Message store (`features/chat/repository.py`) | rows of `chat_messages` | add, list, delete a conversation | PostgreSQL / SQLite |
| LLM providers (`agents/chat/provider.py`) | an open HTTP stream | stream, understand a query | the LLM API |
| Hybrid retrieval (`retrieval/`, `agents/chat/retrieval.py`) | the answers of the searches under way | retrieve: two kinds, a lexical and a vector search of each, fusion, selection | OpenSearch, the embedding provider |
| Identity (`features/auth/`) | accounts, sessions | register, login, authenticate, logout | the same database, a cookie |
| Ingestion worker (`apps/worker`) | a search index | fetch, chunk, embed, create index, bulk write | source sites, OpenSearch |
| Evaluation and release gate (`packages/evaluation`) | dataset and report files, the read alias | evaluate, validate a release, promote | OpenSearch, files |
| Eligibility engine (`packages/eligibility-engine`) | a loaded rule set, the calls and outcomes of an evaluation | load a rule set, build a profile, evaluate | a library; the API does not call it yet |
| Web chat page (`apps/web/.../chat-page.tsx`, `chat-api.ts`) | turns, status, conversation id, one abort controller | submit, stop, new chat, clear, restore | the chat API |
| Web authentication provider | one of three session states | restore, login, logout | the identity API |
| Local service scripts (`scripts/`) | pid files | start, stop, status | processes |

**What is hard in each, and what makes it correct.**

- *Chat service.* Every `await` and every `yield` is a point where a
  disconnect, a cancellation, the generation deadline, a clear of the same
  conversation or a crash may come in. Two commits make one turn. Text is shown
  before it is validated. Correct means: what the client was left looking at,
  what is stored and what the validator let through are the same thing; an
  announced answer is durable; retracted text stays retracted; each request
  ends, unless it waits for a database or a reader that never comes, and closes
  its provider stream.
- *Web page.* One abort controller and one status for coroutines that outlive
  New chat, Clear and the restoring of the history; rows are paired with
  questions by position. Correct means an answer stands under its question, a
  completed turn survives a reload, and a busy page can be stopped.
- *Identity.* Lookup and touch, account and session are separate transactions;
  their outcome may be unknown to the caller. Correct means one registration of
  an address wins, a session opens only its owner's account, and expiry and
  logout hold against any interleaving.
- *Ingestion.* Several jobs may write one index; batches may be accepted in
  part; a timeout says nothing of the effect. Correct means that a zero exit
  says the evidence is there, one index has one vector dimension, and a source
  that has evidence in an index keeps some.
- *Evaluation and release.* Four files written at different times, and read one
  by one, decide what readers see; a dataset is parsed and hashed in two reads;
  two requests move the alias. Correct means that what is served
  was vetted and complete, and that readers always find one index.
- *Retrieval.* Four searches read the index at moments of their own while
  ingestion rewrites it and midnight may pass; ranks are taken after crowding
  chunks were dropped from each list; limits of length on the way in and out.
  Correct means that what is given is in force when it is given, that no
  document crowds out others, that one citation id names one text, and that
  evidence is not displaced by evidence worse in every respect.
- *Eligibility.* A three-valued evaluation of a tree whose rules were checked
  when they were loaded. Correct means that an accepted rule set never raises,
  that missing facts are never taken for failed or met ones, that more facts
  never turn a decision around, and that every rule is reported once.
- *Scripts.* A process is started before its pid is written and a pid may be
  reused.

## 2. Plan

Done, in this order: the chat turn (`CitationValidation`, `ChatStream`,
`TurnContract`); the page that talks to it (`WebChat`); identity
(`AuthSessions`); the derived index and its two users (`DerivedIndex`,
`Ingestion`, `ReleaseGate`, the last with files read one at a time); retrieval
(`RankFusion`, `Retrieval`); the eligibility engine (`Eligibility`). Each has a
module of proofs: `ChatStreamProofs`, `AuthSessionsProofs`,
`ReleaseGateProofs`, `IngestionProofs`, `EligibilityProofs`, `WebChatProofs`,
`RetrievalProofs`, the last four of them on `SetInduction`.

Left, most important first:

1. What the proofs know and no run states: that an inductive invariant of one
   module gives the other its assumptions. `WebChat` takes the order of rows and
   the events of a response as `TurnContract` promises them; a refinement of
   `TurnContract` by the API part of `WebChat` would tie the two.
2. Stronger contracts that the proofs are close to: that each page of `WebChat`
   shows a prefix of the stored history, that a job of `Ingestion` leaves alone
   the sources it was not given.
3. The provider's event stream (deltas, completion, failure, early end), which
   `ChatStream` takes as given.

## 3. The modules

### CitationValidation, ChatStream, TurnContract

`ChatStream` has one coroutine per request. `pc` names the suspension point
(`listing` is the await of `list_for_conversation`, `addingUser` that of `add`,
`reading` the wait for the next provider chunk, `sending` a `yield` of a delta
and so on); `turn` holds the locals of `stream_message`, `screen` what the
response has sent, `store` the committed rows. A step is the code between two
suspension points, every early return and exception included:
`BufferChunk`/`FlushChunk`/`StreamEndsFlushing` are the coalescing loop of
service.py:182-196, `OversizedDelta` and `OversizedAnswer` the Pydantic limits
that turn a good answer into an error, `Raise` the router's `except` clauses.

Text is a count of chunks. That is enough, because the code only appends and
flushes: losing, repeating or reordering a chunk shows in the counts. The one
thing it hides is the `strip()` of the stored text, which drops surrounding white
space that was shown. `CitationValidation` keeps each claim's attributes as
the validator computes them (citations, material or not, asserts eligibility or
not, supported by which sources) and its loop as it is; `Grounded` states what
a validated claim promises without mentioning the codes.

The environment is `Disconnect`, `Cancel` (the server cancels the response of a
client that left, at any await), the deadline, `StoreFails` (a commit whose
outcome the service does not learn), `Clear` and `Crash`. The deadline has two
faces, because `asyncio.timeout` encloses `yield`s: `GenerationTimesOut` while
the generator itself waits, `DeadlineWhileSending` while the response is being
sent.

`TurnContract` is the promise without streaming: a question is recorded before
it is worked on, an answer is recorded once and after it, the client is told
only then. `ChatStream` implements it by `phase <- PhaseOf(r)`, `record <-` the
rows without their content, `told <-` the terminal event.

### WebChat

The page's state (`page`), its mount effect (`restore`), its DELETE (`clear`),
each `submit()` coroutine (`calls`) and the events of each response that are
not read yet (`wire`); the API side is as coarse as `TurnContract`, with the order
of rows added. A row is placed by `created_at`, set when the message is built
and not when it is committed, so `log` holds the messages in the order they
were built and `saved` those that are stored; `log` only grows. The turns on the
screen are a set, each with its question's stream, its answer's and the text:
no property depends on where on the screen a turn stands. `historyToTurns` pairs a
question with the last reply before the next question, as the function of chat-page.tsx does.
`Rewrite` maps over the turns by id as `setTurns(items => items.map(...))` does,
`EndCall` resets the one controller whoever's it is. History variables (`told`,
`lost`, `overlap`, `restarted`) only serve the properties.

### AuthSessions

Calls of `register`, `login`, `authenticate`, `logout` suspend at their
transactions. A secret is named by the call that issued it, a password by the
registration that chose it; `Admits` is the `WHERE` clause of
`get_account_by_session_hash`. `CallFails` ends a call at any transaction with
or without its effect. The code has no writer of account and membership status,
so both stay active.

### DerivedIndex, Ingestion, ReleaseGate

`DerivedIndex` is what an index promises: it is there once created, a source
that has evidence in it keeps some, and is reported as indexed only when it has.
It does not tell versions of a source apart: the code overwrites one by another
(section 7), and nothing is promised of which is there. `Ingestion` is the worker: jobs take a part of the manifest,
fetch a source (with `Retry`), create the index, check its mapping and write
batches; `SourceFails` is any exception out of `ingest_source`, `NextSource`
the loop of `run()` with its `--continue-on-error` and its exit. A version of a
source is the number of its chunks, since the id of a chunk is its number: a
chunk of the index knows the job that wrote it, and so its version.
`CutShort` is what a request may have done when its answer is an error or does
not come. It takes effect no later than the failure of its job: an effect
delayed beyond a timeout, which OpenSearch may apply later, is not modelled.
Embedding is part of `Fetch`; it
changes nothing but may fail, as `SourceFails` does.

`ReleaseGate` composes `DerivedIndex` with judgments (`Edit`), evaluations and
releases. An evaluation parses its dataset (`LoadInputs`), hashes the file
(`HashInputs`) and then counts, searches and writes its report (`Evaluate`). A
release parses both datasets (`ParseDataset`) and both reports (`ParseReport`)
and hashes the datasets (`HashDataset`), in the order of cli.py and
release.py, each file as it is at that moment. The checks of
`validate_release` stand at the step that reads the last file they need: the
code makes them after all reads, but a release changes nothing before it has
passed all of them, so a release that will be refused just takes no further
step. `ReadAlias` is the HEAD and GET, `MoveAlias` the POST. A revision of a
dataset stands for its SHA-256. A report passes its thresholds or not, whatever
its index: the metrics are averages over cases, and nothing in the gate forces
a passing report to rest on a full index. An evaluation counts any non-empty
part of the documents, as a search without refresh, or of one embedding model,
may see. OpenSearch may apply or refuse a move that removes an alias gone by
now: both are allowed (`MoveAlias`, `ReleaseFails`).

### RankFusion, Retrieval

`RankFusion` is `fusion.py`: duplicates and crowding chunks dropped from each
list, reciprocal ranks, ties by chunk id. A list made of an answer is the set of
the places it keeps (`UniqueRanked`), a rank is the number of kept places up to
the chunk's, and a list that is sorted and cut off is a set with an order, of
which those remain that have fewer than the limit before them
(`ReciprocalRankFusion`, `Leading`). The weights are 0.8 and 1.0, given as 4
and 5, and scores are multiplied by `Scale`, a multiple of every denominator, so
that they compare as the code's do up to the rounding of floating point. The
order of the evidence in the prompt is left out: `evidence` is a set.

`Retrieval` is one call of `retrieve`: the query with the context appended is
built or refused (`Ask`, `Refuse`), each kind is embedded (`Embed`) and sends
its two searches (`Answer`, each with the index and the day's filters as of its
own moment), and `Deliver` fuses, drops what is no longer fresh or not relevant
enough, takes a document once and cuts to the limits; one piece that does not
fit the evidence model fails all (`Overflow`). Evidence is judged as the search
read it: a withdrawal between the search and the answer is seen by neither the
code nor `EvidenceIsCurrent`. A text is the number of query
words and phrases that it holds, and its lengths. An answer is any
ordered part of what matches, of up to `Candidates`, which covers every
ranking by BM25 or by any embedding.

### Eligibility

`Acceptable` is the loading of a rule set: what Pydantic and
`validate_semantics` check, empty groups and empty lists included, over values
that carry their Python type (so `True == 1`, decimals given as text and what
Pydantic takes for a bool are what they are in the code);
`ValidProfiles` and `Profile` are the validators of a profile. `Evaluate`,
`Descend`, `Atomic` and `Combine` are the recursion of `_evaluate_rule` as a
stack, with the shared list of outcomes; `Raises` is the `TypeError` of
`_as_decimal`. `Holds` is the reference: the two-valued meaning of the rules
over a complete profile.

## 4. The runs

| Run | What it shows | States |
|---|---|---|
| `chat_one` | one request with six kinds of claim, two chunk lengths, every failure: `TypeOK` with what it says of rows and pending text, `FinalMatchesStore`, `FinalIsDurable`, `StoredAnswersAreGrounded`, `NothingFollowsRetraction`, `RequestsEnd`, `ProviderStreamsClose` | 22 k |
| `chat_two` | two requests of two conversations, clears, crash: `AnswersHaveTheirQuestion`, `HistoryOnlyGrowsOrClears`, `ImplementsTurnContract` | 279 k |
| `web_chat` | two submits, one more conversation, two gestures: `AnswersStayWithTheirQuestion`, `CompletedTurnsSurviveReload`, `BusyMeansStoppable` | 2.3 M |
| `auth_calls` | four calls on one address, time, failures: `OneRegistrationWins`, `SessionsBelongToTheirAccount`, `LoggedOutStaysOut`, `ServedWithinLimits` | 1.1 M |
| `ingestion` | two jobs at once on two sources: `ZeroExitMeansIndexed`, `IndexHasOneDimension`, `ImplementsDerivedIndex`, `JobsEnd` | 376 k |
| `release` | two releases, two indexes, growing and being evaluated while files are edited: `ServedIndexIsFull`, `ServedIndexWasVetted`, `AliasNamesOneIndex`, `AliasStaysReadable` | 659 k |
| `retrieval` | one retrieval while a chunk is rewritten and midnight passes: `EvidenceIsCurrent`, `NoDocumentCrowdsOut`, `CitationsAreDistinct`, `NoWorseChunkDisplaces` | 218 k |
| `eligibility` | two evaluations of each of 60 rule sets: `AcceptedRulesNeverRaise`, `RecursionIsBounded`, `EveryRuleReportedOnce`, `DecidedOutcomesStand`, `DecisionIsCertain` | 436 k |
| `chat_deadline`, `web_restore`, `auth_idle`, `ingestion_versions` | each a violation, see section 7 | |

**Bounds, and why they are enough.**

- `ChunkSizes = {1, 4}`, `FlushLength = 2`, `MaxDelta = 4`, `MaxAnswer = 5`
  scale 180, 500 and 8000: with three chunks there are chunks that are buffered,
  that flush, that overflow a delta with what is pending, and answers within and
  above the limit. `MaxClears = 1`: a second clear finds a state the first
  could have left. Two requests in `chat_two` are in different conversations so
  that a clear that loses its filter shows; they meet only in the store, so that
  run needs no evidence. Two requests of one conversation are in `web_chat`.
- `MaxGestures = 2` in `web_chat` allows every pair of stop, new chat, clear and
  reopening with two streams. The page is reopened only while no DELETE of it is
  under way, because a second DELETE would need a second `clear`.
- `MaxTime = 2` with limits 1 and 2 reaches a session before, at and after both
  limits. Four calls are enough for two registrations, a login and a request.
  Since the idle limit never moves, the absolute one never comes first: that
  half of `ServedWithinLimits` follows from the other as the code is.
- `Lengths = {1, 2}` with `BulkSize = 1`: versions that grow, shrink, and take
  more than one batch. `MaxAttempts = 2` has a first and a last attempt.
- Two indexes, two releases and two sources are the least for a replaced index,
  an overtaken release and a partial count; two revisions, one of them
  approved, let a file be edited between its two reads and back again. One
  evaluation runs at a time and one release reads at a time
  (`OthersDoNotRead`): they meet in what they write, which any number of others
  may have written before. The `VIEW` of `release` leaves out what no guard or
  update of other variables can still read.
- Three chunks, two of them of one document, answers of two hits, limits of two
  schemes and one guide: duplicates, crowding, and each limit reached. The
  entries stand at the edges of validity, age, relevance and length, one
  changes its kind. One midnight and one rewriting: a second of either finds
  answers the first could have found. They happen only while the searches run,
  because any index may be there when they begin.
- 48 trees `outer(not a, inner(b, c))` with every operator, evaluated for two of 27
  profiles in either order, and 12 rule sets with one thing wrong each; depth 3
  and count 6 are reached by trees that are accepted and exceeded by one that
  is not. Two evaluations are what a comparison of results takes.

`CHECK_DEADLOCK FALSE` everywhere: each instance ends when its requests, calls
or jobs have.

**Fairness.** Only `RequestsEnd`, `ProviderStreamsClose` and `JobsEnd` use it.
In the chat: the service's own steps where nothing but the event loop is waited
for; the deadline, because it is a timer; finalization, because asyncio closes
abandoned asynchronous generators. Two kinds of wait are bounded by nothing in
the code, and no fairness is assumed for them (`UntimedWait`). One is for a
backend (`AwaitsBackend`): the engine is made without a statement timeout
(core/database.py:17-22), and the timeouts of the retrieval clients are per
read. The other is for a client that stays connected to read an event sent
outside `asyncio.timeout` (`AwaitsReader`: service.py:147, 150, 168, 172, 208).
So `RequestsEnd` says that a request ends *or* hangs for ever at one of these
waits: generation always ends, whatever the provider does and whether or not the
client reads the deltas, and so does everything a request does after its client
has gone but waiting for a backend. A request counts as ended once its last
event is handed to the response; a client that does not read that one
(service.py:229, router.py:106) holds the response, which has nothing open.
Nothing is assumed of the provider, the client, the backends or a crash. In
ingestion: a job that is not killed takes its next step, because each of its
requests has a timeout; these are httpx's, of each read, so what is assumed
besides is that no server trickles an answer for ever. A retry is a step, so
`JobsEnd` rests on the bound on attempts.

## 5. What is proved

Every property of every passing run but the three of liveness: the invariants,
the three action properties and both refinements, for every value of the constants that satisfies the named assumptions
(`ConversationAssumption`, `ClaimAssumption`, `SizeAssumption`,
`OfficialAssumption`; `NoneAssumption`, `LimitAssumption`; `ReleaseAssumption`;
`IngestionAssumption`; `EligibilityAssumption`; `PageAssumption`;
`FusionAssumption`, `RetrievalAssumption`). They say what kind of value a constant
is, that "none" is none of the others, and what the code's constructors check
(limits that are positive, `candidate_count` from 1 to 1000).

- `ChatStreamProofs`: `TypeCorrect`, `FinalMatches`, `FinalDurable`,
  `StoredGrounded`, `AnswersFollowQuestions`, `HistoryDiscipline`,
  `RetractionIsFinal`, and `Implements`: every step of `ChatStream` is a step of
  `TurnContract` or a stutter.
- `WebChatProofs`: `PageTypesKept`, `AnswersStay`, `CompletedTurnsSurvive`,
  `StopReachesTheStream`: for any number of submits, conversations and gestures.
- `AuthSessionsProofs`: `TypesKept`, `RegistrationIsExclusive`,
  `SessionsAreOwned`, `LogoutIsFinal`, `ServiceIsTimely`.
- `ReleaseGateProofs`: `ReleaseTypesKept`, `ServedIsFull`, `ServedWasVetted`,
  `AliasIsSingle`, `AliasNeverGone`: all properties of the `release` run, for
  any number of sources, indexes, revisions and releases.
- `IngestionProofs`: `IngestionTypesKept`, `ZeroExitIsTrue`, `OneDimension`, and
  `ImplementsDerived`: for any manifest, any number of jobs, indexes and
  attempts, every step of `Ingestion` is a step of `DerivedIndex` or a stutter.
- `RetrievalProofs`: `RetrievalTypesKept`, `GivenIsInForce`,
  `OneTextPerCitation`, `NoCrowding`, `NothingBetterDisplaced`: for any index,
  answers, rank constant, weights and limits.
- `EligibilityProofs`: `EligibilityTypesKept`, `NeverRaises`, `DecisionsAreTrue`,
  `DecisionsStand`, `ResultsAreComplete`, `RecursionStaysBounded`: for rule sets
  of any depth and size.
- `SetInduction`: induction over the numbers, with a set in the place of the
  predicate (`LeastNumber`, `GreatestNumber`, `Upwards`, `Downwards`), for the
  first source to come, the last reply, the first result and the tree of rules.

*The argument for the chat.* None of the properties is inductive: that a stored
answer equals the screen says nothing of a request still streaming. `Inductive`
adds what is known at each suspension point: before generation nothing is shown
(`Fresh`); while reading, shown plus pending chunks are the chunks received
(`Unretracted`); once the answer is decided, the screen is replaced exactly if
there is a fallback reason, and otherwise all chunks are shown, the claims
are valid and the citations are theirs (`Settled`). `StoreInv` says that every row
is the question or answer its request would store with its current locals,
which never change after it is stored. `TypeCorrect` is more than types, and rests on
it: that a request has one question and one answer at most follows from
`StoreInv`, and that pending text is short is kept by every step
(`PendingStep`). That a valid set of claims is grounded
is a lemma about `CitationValidation` alone (`ValidIsGrounded`).

*The argument for identity.* `CallInv` records what each kind of call knows at
each step (a call that is about to create a session owns the account or has
shown its password; a call that touches was admitted at its own time);
`SessionInv` ties each session row to the call that issued it. Accounts never
change hands and revocation is never undone: that is what carries both across
the steps of other calls.

*The argument for releases.* An index is `Cleared` for a dataset when it is full
and has passed on approved judgments. Indexes only grow and a passed evaluation
is not taken back, so what is cleared stays cleared (`ClearedStays`); then a
report that the gate would take is of a cleared index (`ReportsAreTrue`), a
release knows what its reports told it, however old they are by now
(`ReleasesKnow`), and so does the alias (`AliasIsSound`). That the hash of a
dataset fits is not needed for any of it: the status that a report carries is
that of the judgments as they were parsed. `MovesAreCurrent` says that a
release about to move the alias knows where it is unless it was overtaken,
which gives `AliasNamesOneIndex`.

*The argument for the page.* A page is right because of what the API keeps in
order, so the invariant spans both. Each request builds a question and then at
most one reply (`LogInv`); the messages of two requests of a conversation are
not mixed unless the requests overlapped (`OrderInv`); a question that was
deleted under its request took everything before it along, so that its reply
has no question to appear under (`OrphanInv`); what is announced is stored
unless it was deleted (`SavedInv`). With these the history that the API serves
is true (`HistoryIsTrue`): a reply of another request never stands between a
question and its own. On the page's side the final event comes last and a
replacement after the text (`WireInv`), so a turn shows what was decided
once it has been read (`TextInv`); and a history under way is of a
conversation in which nothing is asked meanwhile (`RestoreInv`), which is what
makes it harmless that it overwrites the turns. `BusyInv` ties the one
controller to the one submit under way. `AnswersStay` is about conversations
without overlapping requests: those of the page overlap only when a stopped or
abandoned request is still at work on the server.

*The argument for ingestion.* `Passed` is the invariant of the loop of `run()`: a
source that the loop is beyond has failed or is complete. Chunks never go
(`Grows`), so it stays true whatever other jobs do; it makes the zero exit true
(`Told`). A manifest may name a source twice, and then a source that was
complete is being written again, perhaps in a longer version: the third case
of `Passed`. `Dimensioned` ties each chunk to the dimension of the job that
wrote it, which `CheckMapping` compared with that of the index.

*The argument for retrieval.* The evidence is `Chosen` of the answers on the day it
is given (`EvidenceInv`), whatever has happened to the index since; an answer
holds entries of the kind that was searched for (`KindsInv`). The rest is about
the operators: the elements of a finite ordered set that have fewer than `k`
ahead are at most `k`, and with one of them come those ahead of it (`FewLead`,
`AheadCounts`, `Leaders`). A better rank has a greater share (`SharesFall`), so who
outranks another in each list that has it comes before it (`OutrankingScores`),
survives the cut of fusion with it (`FoundUpwards`) and the selection too, or
another of its document does (`Diversified`); the deduplication by chunk may
replace a piece by another text of the same document, no more (`Evidence`).

*The argument for eligibility.* The stack is a path through the tree (`PathInv`), and
what the outcomes tell of is what the calls under way have had returned
(`DoneInv`): so each rule is reported once, children first, and all of them when
the root returns. What the outcomes say is compared with `Solutions`: the
assignments of a status to each rule that agree with the rules' operators.
Every call returns what each solution says (`ValueInv`), and there is one
(`SolutionsExist`). By induction over the tree, a solution that is not
"unknown" is the two-valued meaning of the rule for every completion of the
profile (`KnownIsTrue`), and remains for a profile that knows more (`KnownStays`).
`NothingRaises` shows that the loading refuses every comparison that
`_as_decimal` could not make. The depth of the stack is the depth of a call in
the tree (`DepthOfCalls`), which the loading bounds.

## 6. Only model-checked

Liveness (`RequestsEnd`, `ProviderStreamsClose`, `JobsEnd`): fairness and
ENABLED are out of the prover's reach. The four properties of the violation
runs are false. Induction theorems that take an operator cannot be used with the
provers at hand; where data had to be gone through (the order of rows, the tree
of rules, the first of a ranking), the proofs use sets of numbers, and the model
counts and compares where the code loops. That `UniqueRanked` is what the loop of
`_unique_ranked` keeps is therefore a claim about the translation: the set of
first places of a chunk with fewer than the limit of its document before them.

## 7. Where code and documents differ

1. `chat_deadline`: a deadline that expires while a delta is being sent ends a
   connected client's response with neither fallback nor error
   (service.py:177; RAG_DESIGN.md:17).
2. `web_restore`: New chat during the restoring of the history; the old
   conversation appears on a page that writes to the new one (chat-page.tsx:148;
   README.md:308).
3. `auth_idle`: a session in continuous use ends after the idle limit, for
   `touch_session` never moves it (repository.py:142; README.md:287).
4. `ingestion_versions`: a new version of a source overwrites the chunks of the
   version before it, chunk by chunk, under the same ids (pipeline.py:472;
   RAG_DESIGN.md:139). A shorter version leaves the tail of the longer one
   behind as well, so that an index may hold a source in a mixture of versions.

Seen while modelling, without a run of their own:

- The question is stored before its answer exists, so `chat_messages` holds
  turns that never completed (service.py:146; DATA_MODEL.md:144).
- A message of 501 to 4000 characters, which schemas.py:15 and state.py:108
  accept, is stored and can never be answered: the query, with the business
  context appended to it, is refused above 500 (retrieval/models.py:59). So is
  one of white space only (`Refuse` in `Retrieval`).
- A chunk of a provider that is longer than 500 characters, or an answer of more
  than 8000, turns a good answer into an error (`OversizedDelta`,
  `OversizedAnswer`; schemas.py:66, models.py:29).
- A client that stays connected and reads nothing holds its request at any
  event sent before or after generation, for no timeout encloses those yields.
- A clear does not wait for a stream of its conversation, whose answer is then
  added without its question (service.py:228, 261). The properties of the store
  exempt conversations that were cleared meanwhile (`cleared`).
- New chat neither aborts the stream under way nor waits for it: when that stream
  ends it makes the page idle and drops the one controller, though another
  stream may be running by then (chat-page.tsx:158-169, 226-236).
  `BusyMeansStoppable` exempts such a page (`restarted`).
- Submitting is possible while a clear is under way; its answer wipes the turn
  from the screen (chat-page.tsx:185-189, 201; `lost`). Two requests of one
  conversation at once may have a reply shown under the other's question
  (chat-page.tsx:108; `overlap`).
- A release that another overtook between its two requests leaves two indexes
  under the alias or fails (release.py:134-146; `overlapped`).
- The gate counts documents with at least one chunk, so an index whose sources
  were all cut short counts as complete (release.py:67; RAG_DESIGN.md:166).
- A report's hash may be that of another revision than the one evaluated, when
  the file is edited between the two reads.
- A chunk of more than 2000 characters, or a section name of more than 200,
  fails the whole retrieval (state.py:95, state.py:20), and the index admits
  20000 and 300.
- A chunk that is rewritten between the two searches of a kind is kept in its
  lexical version; the limit per document (fusion.py:24) comes before freshness
  and relevance, so a chunk that is dropped later may shut out another of its
  document.
- When one search fails, `gather` leaves the others running.
- Profile codes are stripped and put in upper case, rule values are not: a rule
  value in lower case never matches. `exists` never fails, so its `not` never
  passes.

## 8. Not modelled

Image generation (a stateless call), prompts and the mock provider's wording,
UI pages and styling, logging, configuration, health, hashing and encryption,
stateless header middleware, evaluation metrics (averages of reals), text
extraction. The in-memory message repository is used by tests only. The web
authentication provider holds one value set by the answer of one call; the
server side of it is in `AuthSessions`. The provider's event stream is parsed
line by line into the chunks, the end or the error that `ChatStream` takes from
it; what embedding models compute is any ranking in `Retrieval`. The scripts start and stop services on a developer's
machine; what matters in them belongs to the operating system.
