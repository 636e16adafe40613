------------------------------ MODULE Retrieval ------------------------------
(***************************************************************************)
(* One retrieval of evidence for a chat message                            *)
(* (apps/api/app/retrieval/opensearch.py, queries.py, models.py and        *)
(* ChatGraphRunner._retrieve).                                             *)
(*                                                                         *)
(* A lexical and a vector search for official schemes run concurrently     *)
(* with the same two for business guides.  Each reads the index at a       *)
(* moment of its own, while ingestion rewrites it and midnight may pass;   *)
(* the evidence is chosen from the four answers when all are there.  The   *)
(* text of a chunk is the query's words and phrases in it and its length.  *)
(***************************************************************************)
EXTENDS RankFusion, Functions

CONSTANTS
    Chunks,          \* chunk ids, numbers
    DocumentOf,      \* the document of each chunk
    Contents,        \* what the index may hold of each chunk
    Queries,         \* the messages with their business contexts
    MaxAge,          \* official_max_age_days and guide_max_age_days
    FusedLimit,      \* 12 official, 8 guides: RetrievalQuery.limit
    EvidenceLimit,   \* 3 official, 1 guide: _select_relevant's limit
    MinRelevance,    \* 2
    MaxQuery,        \* 500: RetrievalQuery.query max_length
    MaxContent,      \* 2000: RetrievedEvidence.content max_length
    MaxSection,      \* 200: Citation.section max_length
    None,            \* no date, no entry
    MaxDay,          \* bound: days that may begin
    MaxChanges       \* bound: chunks rewritten meanwhile

Kind == {"official_scheme", "business_guide"}
Mode == {"lexical", "vector"}

\* An OpenSearchDocument.  `words' and `phrases' count those it shares with
\* the query, stop words and short words left out; `content' and `section'
\* are lengths.
Entries ==
    [kind : Kind, published : BOOLEAN, from : Int, until : Int \cup {None},
     captured : Int \cup {None}, words : Nat, phrases : Nat, content : Nat,
     section : Nat]

ASSUME RetrievalAssumption ==
    /\ Chunks \subseteq Nat
    /\ DOMAIN DocumentOf = Chunks /\ DOMAIN Contents = Chunks
    /\ \A c \in Chunks : Contents[c] \subseteq Entries
    /\ MaxAge \in [Kind -> Nat \ {0}]
    /\ FusedLimit \in [Kind -> 1..50] /\ EvidenceLimit \in [Kind -> Nat \ {0}]
    /\ {MinRelevance, MaxQuery, MaxContent, MaxSection, MaxDay, MaxChanges}
         \subseteq Nat
    /\ None \notin Int

VARIABLES
    day,         \* date.today()
    index,       \* the entry of each chunk, None if it has none
    changes,     \* rewrites so far
    query,       \* the message and the context it is sent with
    outcome,     \* "idle", "asking", "evidence" or "failed"
    asOf,        \* the day `today' was read
    embedding,   \* the kinds whose embed_query is awaited
    waiting,     \* the searches whose answers are awaited
    answers,     \* the hits of each search
    evidence,    \* what retrieve returned
    givenOn      \* the day it did

environment == <<day, index, changes>>
asked == <<query, asOf>>
vars == <<environment, outcome, asked, embedding, waiting, answers,
          evidence, givenOn>>

-----------------------------------------------------------------------------
\* _relevance_score.
Relevance(entry) == entry.words + 3 * entry.phrases

\* build_filter_clauses with the filters that retrieve sets: a date that is
\* missing is in no range.
Matches(entry, kind, today) ==
    /\ entry.published
    /\ entry.kind = kind
    /\ entry.from <= today
    /\ entry.until = None \/ entry.until >= today
    /\ entry.captured # None
    /\ entry.captured \in (today - MaxAge[kind])..today

\* Mutant: what the search was filtered by is taken to hold still.
FreshAsFiltered(entry, today) == TRUE

\* _is_fresh.
Fresh(entry, today) ==
    /\ entry.published
    /\ entry.from <= today
    /\ entry.until = None \/ entry.until >= today
    /\ entry.captured # None
    /\ today - entry.captured \in 0..MaxAge[entry.kind]

Hit(chunk, entry) ==
    [chunk |-> chunk, document |-> DocumentOf[chunk], entry |-> entry]

-----------------------------------------------------------------------------
(* Choosing the evidence.                                                  *)

\* _select_relevant's order: relevance, then score; a stable sort keeps
\* fusion's order of ties.
MoreRelevant(a, b) ==
    \/ Relevance(a.hit.entry) > Relevance(b.hit.entry)
    \/ Relevance(a.hit.entry) = Relevance(b.hit.entry) /\ Before(a, b)

\* The first `limit' of the results.
Leading(results, limit) ==
    {r \in results : Cardinality({q \in results : MoreRelevant(q, r)}) < limit}

\* Mutant: the limit alone.
DiversifyNot(results, limit) == Leading(results, limit)

\* _diversify with one result per document, the first.
Diversify(results, limit) ==
    Leading({r \in results : \A q \in results :
                q.hit.document = r.hit.document => ~MoreRelevant(q, r)},
            limit)

Found(kind) ==
    ReciprocalRankFusion(answers[<<kind, "lexical">>],
                         answers[<<kind, "vector">>], FusedLimit[kind])

Supported(kind, today) ==
    {result \in Found(kind) : /\ Fresh(result.hit.entry, today)
                              /\ Relevance(result.hit.entry) >= MinRelevance}

Selected(kind, today) == Diversify(Supported(kind, today), EvidenceLimit[kind])

\* Mutant: the two selections one after the other.
ByChunkNot(official, guides) == official \cup guides

\* {item.source_chunk_id: item ...}.values(): of a chunk in both the last.
ByChunk(official, guides) ==
    guides \cup {r \in official : \A g \in guides : g.hit.chunk # r.hit.chunk}

Chosen(today) ==
    ByChunk(Selected("official_scheme", today), Selected("business_guide", today))

\* RetrievedEvidence and Citation can be built of it.
Fits(result) ==
    /\ result.hit.entry.content <= MaxContent
    /\ result.hit.entry.section <= MaxSection

-----------------------------------------------------------------------------
(* The retrieval and what happens around it.                               *)

\* A query: how long the message is and the context's text (0: none), and
\* whether the two hold nothing but white space.
Init ==
    /\ day = 0 /\ changes = 0
    /\ index \in [Chunks -> UNION {Contents[c] : c \in Chunks} \cup {None}]
    /\ \A c \in Chunks : index[c] \in Contents[c] \cup {None}
    /\ query \in Queries
    /\ outcome = "idle" /\ asOf = 0
    /\ embedding = {} /\ waiting = {}
    /\ answers = [s \in Kind \X Mode |-> <<>>]
    /\ evidence = {} /\ givenOn = 0

\* What happens before it begins is another Init, what happens after it has
\* ended concerns nobody.
Midnight ==
    /\ outcome = "asking"
    /\ day < MaxDay
    /\ day' = day + 1
    /\ UNCHANGED <<index, changes, outcome, asked, embedding, waiting, answers,
                   evidence, givenOn>>

\* Ingestion writes a chunk anew.
Rewrite(c) ==
    /\ outcome = "asking"
    /\ changes < MaxChanges
    /\ changes' = changes + 1
    /\ \E entry \in Contents[c] : index' = [index EXCEPT ![c] = entry]
    /\ UNCHANGED <<day, outcome, asked, embedding, waiting, answers,
                   evidence, givenOn>>

\* The two joined by a space, when there is a context.
FocusedLength ==
    query.message + (IF query.context = 0 THEN 0 ELSE 1 + query.context)

\* Both RetrievalQuery objects are built before anything is sent.
Refuse ==
    /\ outcome = "idle"
    /\ FocusedLength > MaxQuery \/ query.blank
    /\ outcome' = "failed" /\ asOf' = day
    /\ UNCHANGED <<environment, query, embedding, waiting, answers,
                   evidence, givenOn>>

\* Mutant: a vector of its own for each of the four searches.
AskForEach ==
    /\ outcome = "idle"
    /\ FocusedLength <= MaxQuery /\ ~query.blank
    /\ outcome' = "asking" /\ asOf' = day
    /\ embedding' = Kind \X Mode
    /\ UNCHANGED <<environment, query, waiting, answers, evidence, givenOn>>

Ask ==
    /\ outcome = "idle"
    /\ FocusedLength <= MaxQuery /\ ~query.blank
    /\ outcome' = "asking" /\ asOf' = day
    /\ embedding' = Kind
    /\ UNCHANGED <<environment, query, waiting, answers, evidence, givenOn>>

\* search() has its vector and sends both of its requests.
Embed(kind) ==
    /\ outcome = "asking" /\ kind \in embedding
    /\ embedding' = embedding \ {kind}
    /\ waiting' = waiting \cup ({kind} \X Mode)
    /\ UNCHANGED <<environment, outcome, asked, answers, evidence, givenOn>>

\* OpenSearch answers with some of what matches, in some order: the lexical
\* query wants a share of the words, the vector query is approximate.
Answer(search) ==
    /\ outcome = "asking" /\ search \in waiting
    /\ waiting' = waiting \ {search}
    /\ LET matching == {c \in Chunks : /\ index[c] # None
                                      /\ Matches(index[c], search[1], asOf)}
       IN  \E n \in 0..Candidates : \E ranked \in Injection(1..n, matching) :
              answers' = [answers EXCEPT ![search] =
                            [i \in 1..n |-> Hit(ranked[i], index[ranked[i]])]]
    /\ UNCHANGED <<environment, outcome, asked, embedding, evidence, givenOn>>

\* An embedding or a search raises, times out or cannot be validated.  The
\* searches that are still running are left to themselves: what they answer
\* is read by nobody.
SearchFails ==
    /\ outcome = "asking" /\ embedding \cup waiting # {}
    /\ outcome' = "failed"
    /\ embedding' = {} /\ waiting' = {}
    /\ UNCHANGED <<environment, asked, answers, evidence, givenOn>>

Answered == outcome = "asking" /\ embedding \cup waiting = {}

Deliver ==
    /\ Answered
    /\ \A result \in Chosen(day) : Fits(result)
    /\ evidence' = Chosen(day)
    /\ outcome' = "evidence" /\ givenOn' = day
    /\ UNCHANGED <<environment, asked, embedding, waiting, answers>>

\* One piece of evidence that is too long fails them all.
Overflow ==
    /\ Answered
    /\ \E result \in Chosen(day) : ~Fits(result)
    /\ outcome' = "failed"
    /\ UNCHANGED <<environment, asked, embedding, waiting, answers, evidence,
                   givenOn>>

-----------------------------------------------------------------------------
Next ==
    \/ Midnight
    \/ \E c \in Chunks : Rewrite(c)
    \/ Refuse \/ Ask \/ SearchFails \/ Deliver \/ Overflow
    \/ \E kind \in Kind : Embed(kind)
    \/ \E search \in Kind \X Mode : Answer(search)

Spec == Init /\ [][Next]_vars

-----------------------------------------------------------------------------
(* Properties.                                                             *)

\* Every variable has its type.
TypeOK ==
    /\ day \in 0..MaxDay /\ asOf \in 0..MaxDay /\ givenOn \in 0..MaxDay
    /\ changes \in 0..MaxChanges
    /\ DOMAIN index = Chunks
    /\ \A c \in Chunks : index[c] \in Contents[c] \cup {None}
    /\ query \in Queries
    /\ outcome \in {"idle", "asking", "evidence", "failed"}
    /\ embedding \subseteq Kind /\ waiting \subseteq Kind \X Mode
    /\ DOMAIN answers = Kind \X Mode
    /\ \A search \in Kind \X Mode :
          /\ \E n \in 0..Candidates : DOMAIN answers[search] = 1..n
          /\ \A i \in DOMAIN answers[search] :
                \E c \in Chunks : \E entry \in Contents[c] :
                   answers[search][i] = Hit(c, entry)
    /\ \A given \in evidence :
          given.hit.chunk \in Chunks /\ given.hit.entry \in Contents[given.hit.chunk]

\* Evidence is in force on the day it is given, published and no older than
\* its kind may be, even when midnight passed after the search that found
\* it.  It is judged as the search read it: that it was withdrawn since is
\* not seen, by the code or here.  (opensearch.py:88-104; RAG_DESIGN.md "fails closed")
EvidenceIsCurrent ==
    \A given \in evidence :
        LET entry == given.hit.entry
        IN  /\ entry.published
            /\ entry.from <= givenOn /\ (entry.until = None \/ givenOn <= entry.until)
            /\ entry.captured # None
            /\ entry.captured <= givenOn
            /\ givenOn <= entry.captured + MaxAge[entry.kind]

\* No document speaks twice as an official scheme or twice as a guide, and
\* no kind exceeds its share of the prompt, although either search may rank
\* another chunk of a document first.  (fusion.py:24, opensearch.py:186)
NoDocumentCrowdsOut ==
    \A kind \in Kind :
        LET ofKind == {given \in evidence : given.hit.entry.kind = kind}
        IN  /\ Cardinality(ofKind) <= EvidenceLimit[kind]
            /\ \A a, b \in ofKind : a.hit.document = b.hit.document => a = b

\* No citation id names two pieces of evidence, although a source may have
\* changed its kind between the searches: what the claim validator and the
\* client look up by id is one text.  (opensearch.py:221)
CitationsAreDistinct ==
    \A a, b \in evidence : a.hit.chunk = b.hit.chunk => a = b

\* Each list that has the worse chunk has the better one ahead of it.
Outranks(kind, better, worse) ==
    \A mode \in Mode :
        LET hits == answers[<<kind, mode>>]
        IN  Rank(hits, worse) > 0 => Rank(hits, better) \in 1..Rank(hits, worse) - 1

\* Evidence is not displaced by evidence that is worse in every respect: if
\* a chunk was given, the document of each current chunk that is as relevant
\* and ahead of it in every list that has it was given too.  A chunk that
\* was rewritten between the two searches counts in its lexical version.
\* (fusion.py:61-75, opensearch.py:171-186)
NoWorseChunkDisplaces ==
    \A given \in evidence :
        LET kind == given.hit.entry.kind
        IN  \A better \in Fused(answers[<<kind, "lexical">>],
                                answers[<<kind, "vector">>]) :
            /\ Fresh(better.hit.entry, givenOn)
            /\ Relevance(better.hit.entry) >= MinRelevance
            /\ Relevance(better.hit.entry) >= Relevance(given.hit.entry)
            /\ Outranks(kind, better.hit.chunk, given.hit.chunk)
            => \E other \in evidence : other.hit.document = better.hit.document
=============================================================================
