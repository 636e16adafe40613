----------------------------- MODULE ChatStream -----------------------------
(***************************************************************************)
(* Chat requests served by ChatService.stream_message behind the SSE       *)
(* router, sharing one message store                                       *)
(* (apps/api/app/features/chat/service.py, router.py, repository.py).      *)
(*                                                                         *)
(* Each request is an asyncio coroutine.  A step is the code from one      *)
(* suspension point (an await, or a yield that waits for the response to   *)
(* be sent) to the next, so requests, disconnects, cancellations, the      *)
(* generation deadline, conversation clears and a process crash interleave *)
(* exactly where the event loop lets them.  Generated text is a count of   *)
(* provider chunks, always shown and stored in order, plus the claims it   *)
(* makes.                                                                  *)
(***************************************************************************)
EXTENDS Integers, CitationValidation

CONSTANTS
    Requests,        \* POST /messages calls
    Conversations,   \* conversation ids
    ConversationOf,  \* the conversation each request names
    Claims,          \* claims a provider may generate
    ChunkSizes,      \* lengths of provider chunks
    FlushLength,     \* 180: pending text that forces a text_delta
    MaxDelta,        \* 500: TextDeltaEvent.text max_length
    MaxAnswer,       \* 8000: ChatMessage.content max_length
    MaxChunks,       \* bound: chunks one generation yields
    MaxClears        \* bound: DELETE calls

ASSUME ConversationAssumption == ConversationOf \in [Requests -> Conversations]
ASSUME ClaimAssumption == Claims \subseteq Claim
ASSUME SizeAssumption ==
    /\ ChunkSizes \subseteq Nat \ {0}
    /\ FlushLength \in Nat /\ MaxDelta \in Nat /\ MaxAnswer \in Nat
    /\ FlushLength <= MaxDelta
    /\ MaxChunks \in Nat /\ MaxClears \in Nat

VARIABLES
    pc,       \* where each coroutine is suspended, or how it ended
    turn,     \* the locals of each stream_message call
    open,     \* whether a provider stream is open for the request
    screen,   \* what the response has sent to the client so far
    gone,     \* whether the client has disconnected
    store,    \* committed chat_messages rows
    cleared,  \* history: a clear deleted rows since the request began
    clears    \* clears so far

vars == <<pc, turn, open, screen, gone, store, cleared, clears>>

-----------------------------------------------------------------------------
Ended == {"done",     \* FinalEvent sent
          "failed",   \* ErrorEvent sent by the router
          "left",     \* returned or cancelled after a disconnect
          "cut",      \* cancelled by the deadline while sending a delta
          "crashed"}

Point == {"idle", "listing", "addingUser", "understanding", "retrieving",
          "preparing", "previewing", "reading", "sending", "sendingLast",
          "deciding", "checking", "addingAnswer", "finishing"} \cup Ended

Reason == {"none", "provider_timeout", "citation_validation_failed"}

Turn == [evidence : SUBSET Sources,
         chunks : Nat, size : Nat, pending : Nat, pendingSize : Nat,
         reason : Reason, claims : SUBSET Claims, cited : SUBSET Sources]

Screen == [previews : SUBSET Sources, shown : Nat, replaced : BOOLEAN,
           terminal : {"none", "final", "error"}, cites : SUBSET Sources]

Message == [req : Requests, role : {"user", "assistant"},
            text : {"question", "model", "fallback"},
            chunks : Nat, cites : SUBSET Sources]

Question(r) == [req |-> r, role |-> "user", text |-> "question",
                chunks |-> 0, cites |-> {}]

\* The assistant ChatMessage a turn would store with its current locals.
Answer(r) ==
    [req    |-> r,
     role   |-> "assistant",
     text   |-> IF turn[r].reason = "none" THEN "model" ELSE "fallback",
     chunks |-> IF turn[r].reason = "none" THEN turn[r].chunks ELSE 0,
     cites  |-> turn[r].cited]

Active(r) == pc[r] \notin {"idle"} \cup Ended

EmptyTurn == [evidence |-> {}, chunks |-> 0, size |-> 0, pending |-> 0,
              pendingSize |-> 0, reason |-> "none", claims |-> {},
              cited |-> {}]

EmptyScreen == [previews |-> {}, shown |-> 0, replaced |-> FALSE,
                terminal |-> "none", cites |-> {}]

Init ==
    /\ pc = [r \in Requests |-> "idle"]
    /\ turn = [r \in Requests |-> EmptyTurn]
    /\ open = [r \in Requests |-> FALSE]
    /\ screen = [r \in Requests |-> EmptyScreen]
    /\ gone = [r \in Requests |-> FALSE]
    /\ store = {}
    /\ cleared = [r \in Requests |-> FALSE]
    /\ clears = 0

-----------------------------------------------------------------------------
(* Shapes shared by the steps.                                             *)

Goto(r, from, to) ==
    /\ pc[r] = from
    /\ pc' = [pc EXCEPT ![r] = to]

\* `if await is_disconnected(): return', inside or outside the stream block.
Leave(r) ==
    /\ gone[r]
    /\ pc' = [pc EXCEPT ![r] = "left"]
    /\ open' = [open EXCEPT ![r] = FALSE]
    /\ UNCHANGED <<turn, screen, gone, store, cleared, clears>>

\* An exception unwinds the generator; event_stream answers with ErrorEvent.
Raise(r) ==
    /\ pc' = [pc EXCEPT ![r] = "failed"]
    /\ open' = [open EXCEPT ![r] = FALSE]
    /\ screen' = [screen EXCEPT ![r].terminal = "error"]
    /\ UNCHANGED <<turn, gone, cleared, clears>>

-----------------------------------------------------------------------------
(* The request up to generation.                                           *)

Arrive(r) ==
    /\ Goto(r, "idle", "listing")
    /\ UNCHANGED <<turn, open, screen, gone, store, cleared, clears>>

ListHistory(r) ==
    /\ Goto(r, "listing", "addingUser")
    /\ UNCHANGED <<turn, open, screen, gone, store, cleared, clears>>

\* Mutant: the user message is built but never handed to the repository.
AddUserUnsaved(r) ==
    /\ Goto(r, "addingUser", "understanding")
    /\ UNCHANGED <<turn, open, screen, gone, store, cleared, clears>>

AddUser(r) ==
    /\ Goto(r, "addingUser", "understanding")
    /\ store' = store \cup {Question(r)}
    /\ UNCHANGED <<turn, open, screen, gone, cleared, clears>>

\* The two status events, each followed by a disconnect check.
CheckClient(r) ==
    /\ ~gone[r]
    /\ \/ Goto(r, "understanding", "retrieving")
       \/ Goto(r, "retrieving", "preparing")
    /\ UNCHANGED <<turn, open, screen, gone, store, cleared, clears>>

NoticeLeft(r) ==
    /\ \/ pc[r] \in {"understanding", "retrieving", "checking"}
       \/ pc[r] = "previewing" /\ screen[r].previews # turn[r].evidence
    /\ Leave(r)

Prepare(r) ==
    /\ Goto(r, "preparing", "previewing")
    /\ \E found \in SUBSET Sources :
          turn' = [turn EXCEPT ![r].evidence = found]
    /\ UNCHANGED <<open, screen, gone, store, cleared, clears>>

PrepareFails(r) ==
    /\ pc[r] = "preparing"
    /\ Raise(r)
    /\ UNCHANGED store

Preview(r) ==
    /\ pc[r] = "previewing"
    /\ ~gone[r]
    /\ \E id \in turn[r].evidence \ screen[r].previews :
          screen' = [screen EXCEPT ![r].previews = @ \cup {id}]
    /\ UNCHANGED <<pc, turn, open, gone, store, cleared, clears>>

StartStream(r) ==
    /\ Goto(r, "previewing", "reading")
    /\ screen[r].previews = turn[r].evidence
    /\ open' = [open EXCEPT ![r] = TRUE]
    /\ UNCHANGED <<turn, screen, gone, store, cleared, clears>>

-----------------------------------------------------------------------------
(* The body of `async with asyncio.timeout': coalescing provider chunks.   *)

\* A chunk of this length arrives while the client is connected.
Receives(r, len) ==
    /\ pc[r] = "reading"
    /\ turn[r].chunks < MaxChunks
    /\ ~gone[r]
    /\ len \in ChunkSizes

\* Mutant: the threshold looks at the last chunk instead of all that is pending.
FlushesByChunk(r, len, newline) ==
    newline \/ len >= FlushLength

Flushes(r, len, newline) ==
    newline \/ turn[r].pendingSize + len >= FlushLength

BufferChunk(r) ==
    \E len \in ChunkSizes :
        /\ Receives(r, len)
        /\ ~Flushes(r, len, FALSE)
        /\ turn' = [turn EXCEPT ![r] =
                     [turn[r] EXCEPT !.chunks = turn[r].chunks + 1,
                                     !.size = turn[r].size + len,
                                     !.pending = turn[r].pending + 1,
                                     !.pendingSize = turn[r].pendingSize + len]]
        /\ UNCHANGED <<pc, open, screen, gone, store, cleared, clears>>

FlushChunk(r) ==
    \E len \in ChunkSizes, newline \in BOOLEAN :
        /\ Receives(r, len)
        /\ Flushes(r, len, newline)
        /\ turn[r].pendingSize + len <= MaxDelta
        /\ turn' = [turn EXCEPT ![r] =
                     [turn[r] EXCEPT !.chunks = turn[r].chunks + 1,
                                     !.size = turn[r].size + len,
                                     !.pending = 0,
                                     !.pendingSize = 0]]
        /\ screen' = [screen EXCEPT ![r].shown = @ + turn[r].pending + 1]
        /\ pc' = [pc EXCEPT ![r] = "sending"]
        /\ UNCHANGED <<open, gone, store, cleared, clears>>

\* TextDeltaEvent refuses a delta above max_length with a ValidationError.
OversizedDelta(r) ==
    \E len \in ChunkSizes :
        /\ Receives(r, len)
        /\ Flushes(r, len, FALSE)
        /\ turn[r].pendingSize + len > MaxDelta
        /\ Raise(r)
        /\ UNCHANGED store

ChunkAfterLeft(r) ==
    /\ pc[r] = "reading"
    /\ turn[r].chunks < MaxChunks
    /\ Leave(r)

Resume(r) ==
    /\ Goto(r, "sending", "reading")
    /\ UNCHANGED <<turn, open, screen, gone, store, cleared, clears>>

\* The provider finishes: what is pending is flushed, then the stream closes.
StreamEndsFlushing(r) ==
    /\ Goto(r, "reading", "sendingLast")
    /\ turn[r].pending > 0
    /\ screen' = [screen EXCEPT ![r].shown = @ + turn[r].pending]
    /\ UNCHANGED <<turn, open, gone, store, cleared, clears>>

\* Mutant: the stream ends without flushing what is pending.
StreamEndsUnflushed(r) ==
    /\ Goto(r, "reading", "deciding") \/ Goto(r, "sendingLast", "deciding")
    /\ open' = [open EXCEPT ![r] = FALSE]
    /\ UNCHANGED <<turn, screen, gone, store, cleared, clears>>

StreamEnds(r) ==
    /\ \/ Goto(r, "reading", "deciding") /\ turn[r].pending = 0
       \/ Goto(r, "sendingLast", "deciding")
    /\ open' = [open EXCEPT ![r] = FALSE]
    /\ UNCHANGED <<turn, screen, gone, store, cleared, clears>>

ProviderFails(r) ==
    /\ pc[r] = "reading"
    /\ Raise(r)
    /\ UNCHANGED store

\* Mutant: a timeout leaves the provider stream open.
TimesOutStreaming(r) ==
    /\ Goto(r, "reading", "deciding")
    /\ turn' = [turn EXCEPT ![r].reason = "provider_timeout"]
    /\ UNCHANGED <<open, screen, gone, store, cleared, clears>>

\* ProviderTimeoutError, or the deadline while the generator itself waits.
GenerationTimesOut(r) ==
    /\ Goto(r, "reading", "deciding")
    /\ turn' = [turn EXCEPT ![r].reason = "provider_timeout"]
    /\ open' = [open EXCEPT ![r] = FALSE]
    /\ UNCHANGED <<screen, gone, store, cleared, clears>>

\* The deadline cancels the task while the generator is suspended at a
\* yield: the cancellation lands in the response's send, outside the
\* `async with', so neither except clause of the service sees it.
DeadlineWhileSending(r) ==
    /\ pc[r] \in {"sending", "sendingLast"}
    /\ pc' = [pc EXCEPT ![r] = "cut"]
    /\ UNCHANGED <<turn, open, screen, gone, store, cleared, clears>>

-----------------------------------------------------------------------------
(* Validation, fallback, persistence and the final event.                  *)

AcceptAnswer(r) ==
    /\ Goto(r, "deciding", "checking")
    /\ turn[r].reason = "none"
    /\ turn[r].chunks > 0
    /\ \E claims \in SUBSET Claims :
          /\ Valid(claims, turn[r].evidence)
          /\ turn' = [turn EXCEPT ![r] =
                       [turn[r] EXCEPT !.claims = claims,
                                       !.cited = CitedIds(claims)]]
    /\ UNCHANGED <<open, screen, gone, store, cleared, clears>>

\* What was streamed before a timeout is validated too, to no effect; a blank
\* or invalid answer is refused.  The text is the provider's, so any answer,
\* even whitespace, may be refused.
FallBack(r) ==
    /\ Goto(r, "deciding", "checking")
    /\ turn' = [turn EXCEPT ![r] =
                  [turn[r] EXCEPT
                     !.reason = IF turn[r].reason = "none"
                                THEN "citation_validation_failed"
                                ELSE turn[r].reason,
                     !.cited = turn[r].evidence \cap Official]]
    /\ screen' = [screen EXCEPT ![r].replaced = TRUE]
    /\ UNCHANGED <<open, gone, store, cleared, clears>>

\* Mutant: the final event is prepared without storing the answer first.
BeginAnswerUnsaved(r) ==
    /\ Goto(r, "checking", "finishing")
    /\ ~gone[r]
    /\ turn[r].reason = "none" => turn[r].size <= MaxAnswer
    /\ UNCHANGED <<turn, open, screen, gone, store, cleared, clears>>

\* Mutant: pending text is flushed after the fallback decision.
BeginAnswerFlushing(r) ==
    /\ Goto(r, "checking", "addingAnswer")
    /\ ~gone[r]
    /\ turn[r].reason = "none" => turn[r].size <= MaxAnswer
    /\ screen' = [screen EXCEPT ![r].shown = @ + turn[r].pending]
    /\ UNCHANGED <<turn, open, gone, store, cleared, clears>>

BeginAnswer(r) ==
    /\ Goto(r, "checking", "addingAnswer")
    /\ ~gone[r]
    /\ turn[r].reason = "none" => turn[r].size <= MaxAnswer
    /\ UNCHANGED <<turn, open, screen, gone, store, cleared, clears>>

\* ChatMessage refuses content above max_length with a ValidationError.
OversizedAnswer(r) ==
    /\ pc[r] = "checking"
    /\ ~gone[r]
    /\ turn[r].reason = "none" /\ turn[r].size > MaxAnswer
    /\ Raise(r)
    /\ UNCHANGED store

AddAnswer(r) ==
    /\ Goto(r, "addingAnswer", "finishing")
    /\ store' = store \cup {Answer(r)}
    /\ UNCHANGED <<turn, open, screen, gone, cleared, clears>>

Finish(r) ==
    /\ Goto(r, "finishing", "done")
    /\ screen' = [screen EXCEPT ![r] =
                    [screen[r] EXCEPT !.terminal = "final",
                                      !.cites = turn[r].evidence \cap turn[r].cited]]
    /\ UNCHANGED <<turn, open, gone, store, cleared, clears>>

\* The database fails a call; whether a commit under way took effect is
\* not known to the service.
StoreFails(r) ==
    /\ \/ pc[r] = "listing" /\ store' = store
       \/ pc[r] = "addingUser" /\ store' \in {store, store \cup {Question(r)}}
       \/ pc[r] = "addingAnswer" /\ store' \in {store, store \cup {Answer(r)}}
    /\ Raise(r)

-----------------------------------------------------------------------------
(* The environment of the handlers.                                        *)

Disconnect(r) ==
    /\ Active(r) /\ ~gone[r]
    /\ gone' = [gone EXCEPT ![r] = TRUE]
    /\ UNCHANGED <<pc, turn, open, screen, store, cleared, clears>>

\* The server cancels the response of a client that left, at any await.  A
\* commit in flight may have taken effect.  A generator suspended at a yield
\* is not unwound: its provider stream stays open until it is finalized.
Cancel(r) ==
    /\ Active(r) /\ gone[r]
    /\ pc' = [pc EXCEPT ![r] = "left"]
    /\ open' = [open EXCEPT ![r] = @ /\ pc[r] # "reading"]
    /\ \/ store' = store
       \/ pc[r] = "addingUser" /\ store' = store \cup {Question(r)}
       \/ pc[r] = "addingAnswer" /\ store' = store \cup {Answer(r)}
    /\ UNCHANGED <<turn, screen, gone, cleared, clears>>

\* The event loop closes an abandoned asynchronous generator.
Finalize(r) ==
    /\ pc[r] \in {"left", "cut"} /\ open[r]
    /\ open' = [open EXCEPT ![r] = FALSE]
    /\ UNCHANGED <<pc, turn, screen, gone, store, cleared, clears>>

\* Mutant: the delete statement has lost its conversation filter.
ClearUnscoped(c) ==
    /\ clears < MaxClears
    /\ clears' = clears + 1
    /\ store' = {}
    /\ cleared' = [r \in Requests |->
                     cleared[r] \/ (ConversationOf[r] = c /\ pc[r] # "idle")]
    /\ UNCHANGED <<pc, turn, open, screen, gone>>

Clear(c) ==
    /\ clears < MaxClears
    /\ clears' = clears + 1
    /\ store' = {m \in store : ConversationOf[m.req] # c}
    /\ cleared' = [r \in Requests |->
                     cleared[r] \/ (ConversationOf[r] = c /\ pc[r] # "idle")]
    /\ UNCHANGED <<pc, turn, open, screen, gone>>

\* The API process dies and restarts; rows are in PostgreSQL, the rest is
\* lost.
Crash ==
    /\ \E r \in Requests : Active(r)
    /\ pc' = [r \in Requests |-> IF Active(r) THEN "crashed" ELSE pc[r]]
    /\ open' = [r \in Requests |-> FALSE]
    /\ UNCHANGED <<turn, screen, gone, store, cleared, clears>>

-----------------------------------------------------------------------------
\* What the service does by itself: its awaits return or raise.
Serve(r) ==
    \/ ListHistory(r) \/ AddUser(r) \/ CheckClient(r) \/ NoticeLeft(r)
    \/ Prepare(r) \/ PrepareFails(r) \/ Preview(r) \/ StartStream(r)
    \/ AcceptAnswer(r) \/ FallBack(r) \/ BeginAnswer(r) \/ OversizedAnswer(r)
    \/ AddAnswer(r) \/ Finish(r) \/ StoreFails(r)

\* What the provider's stream and the client's socket decide.
Generate(r) ==
    \/ BufferChunk(r) \/ FlushChunk(r) \/ OversizedDelta(r)
    \/ ChunkAfterLeft(r) \/ Resume(r) \/ StreamEndsFlushing(r)
    \/ StreamEnds(r) \/ ProviderFails(r)

\* Mutant: the deadline covers the provider's stream only, not the response.
ProviderDeadline(r) == GenerationTimesOut(r)

Deadline(r) == GenerationTimesOut(r) \/ DeadlineWhileSending(r)

Next ==
    \/ \E r \in Requests :
          \/ Arrive(r) \/ Serve(r) \/ Generate(r) \/ Deadline(r)
          \/ Disconnect(r) \/ Cancel(r) \/ Finalize(r)
    \/ \E c \in Conversations : Clear(c)
    \/ Crash

Spec == Init /\ [][Next]_vars

\* Waiting for PostgreSQL, which is given no statement timeout
\* (core/database.py:17-22), or for retrieval, whose timeouts are per read.
AwaitsBackend(r) ==
    pc[r] \in {"listing", "addingUser", "preparing", "addingAnswer", "finishing"}

\* Suspended at a yield outside asyncio.timeout (service.py:147, 150, 168, 172,
\* 208), which goes on when a connected client reads what it was sent.
AwaitsReader(r) ==
    /\ ~gone[r]
    /\ \/ pc[r] \in {"understanding", "retrieving", "previewing"}
       \/ pc[r] = "checking" /\ screen[r].replaced

\* Where nothing in the code bounds how long a request waits.
UntimedWait(r) == AwaitsBackend(r) \/ AwaitsReader(r)

\* The event loop runs what is ready to run, the generation timer fires, and
\* abandoned generators are finalized.  Nothing is assumed of the provider,
\* the client, the database, retrieval or a crash.
Fairness ==
    \A r \in Requests : /\ WF_vars(~UntimedWait(r) /\ Serve(r))
                        /\ WF_vars(Deadline(r))
                        /\ WF_vars(Finalize(r))

FairSpec == Spec /\ Fairness

-----------------------------------------------------------------------------
(* Properties.                                                             *)

\* Every variable has its type.
Typed ==
    /\ pc \in [Requests -> Point]
    /\ turn \in [Requests -> Turn]
    /\ open \in [Requests -> BOOLEAN]
    /\ screen \in [Requests -> Screen]
    /\ gone \in [Requests -> BOOLEAN]
    /\ store \subseteq Message
    /\ cleared \in [Requests -> BOOLEAN]
    /\ clears \in 0..MaxClears

\* A request has at most one question and one answer in the store.
OneRowEach ==
    \A m, n \in store : (m.req = n.req /\ m.role = n.role) => m = n

\* Text held back between two chunks is shorter than the flush length, so the
\* flush at the end of a stream, which tests no length (service.py:195-196),
\* never builds a delta that TextDeltaEvent refuses.
PendingIsShort ==
    \A r \in Requests :
        turn[r].pendingSize = 0 \/ turn[r].pendingSize < FlushLength

\* Every variable has its type, the store holds at most one question and one
\* answer of a request, and what is pending fits in one delta.
\* (service.py:139, 188-196, 220; schemas.py:66)
TypeOK == Typed /\ OneRowEach /\ PendingIsShort

\* Whatever answer of a finished request is in the history is exactly what
\* its client was left looking at: the whole generated text when it was
\* accepted (no chunk lost or repeated by the coalescing), the fallback when
\* it was replaced, with the same citations, each of them previewed.
\* (service.py:173-239, RAG_DESIGN.md "without changing the generated text")
FinalMatchesStore ==
    \A m \in store :
        (m.role = "assistant" /\ screen[m.req].terminal = "final") =>
            /\ m.text = "fallback" <=> screen[m.req].replaced
            /\ m.text = "model" => m.chunks = screen[m.req].shown
            /\ m.cites = screen[m.req].cites
            /\ m.cites \subseteq screen[m.req].previews

\* A client that received the final event will find the answer in the
\* history, unless the conversation was cleared while the request ran or
\* after it.  (service.py:228-229: persisted before it is announced)
FinalIsDurable ==
    \A r \in Requests :
        (screen[r].terminal = "final" /\ ~cleared[r]) =>
            {Question(r), Answer(r)} \subseteq store

\* No generated answer reaches the history unless each of its claims is
\* grounded in official evidence retrieved for the very request, and a
\* fallback cites official evidence only.  (service.py:202-217)
StoredAnswersAreGrounded ==
    \A m \in store :
        /\ m.text = "model" =>
              \A claim \in turn[m.req].claims :
                  /\ Grounded(claim, turn[m.req].evidence)
                  /\ claim.cites \subseteq m.cites
        /\ m.text = "fallback" =>
              m.cites = turn[m.req].evidence \cap Official

\* An answer without its question is left behind only by a clear that ran
\* while the request did.  (service.py:146, 228, 261)
AnswersHaveTheirQuestion ==
    \A m \in store :
        (m.role = "assistant" /\ ~cleared[m.req]) => Question(m.req) \in store

\* Rows disappear only by clearing the whole of one conversation, and a
\* request that has ended writes nothing more.  (repository.py:49-57,
\* 106-119; service.py: no write is left running behind a return)
HistoryOnlyGrowsOrClears ==
    [][/\ \A m \in store \ store' :
             store' = {n \in store : ConversationOf[n.req] # ConversationOf[m.req]}
       /\ \A m \in store' \ store : pc[m.req] \notin Ended]_vars

\* Once the client has seen a text_replace or a terminal event, no
\* provisional text follows it.  (service.py:207-239, router.py:85-105)
NothingFollowsRetraction ==
    [][\A r \in Requests :
          (screen[r].replaced \/ screen[r].terminal # "none") =>
              /\ screen'[r].shown = screen[r].shown
              /\ screen'[r].replaced = screen[r].replaced
              /\ screen[r].terminal # "none" => screen'[r] = screen[r]]_vars

\* Whatever the provider and the client do, every request that arrives ends,
\* or hangs for ever at one of the waits the code does not bound: for the
\* database or retrieval, or for a connected client to read an event sent
\* before or after generation.  Generation itself, its silent provider and its
\* client that stops reading a delta included, always ends.  A request has
\* ended once its last event is handed to the response: a client that never
\* reads that one delays nothing but the response's own end.
\* (service.py:177: the total generation deadline)
RequestsEnd ==
    \A r \in Requests :
        (pc[r] = "listing" ~> pc[r] \in Ended) \/ <>[]UntimedWait(r)

\* Every provider stream is closed: on success, timeout, failure,
\* disconnect and abandonment.  (service.py:197-198, graph.py:74-78)
ProviderStreamsClose == \A r \in Requests : open[r] ~> ~open[r]

\* The refinement mapping to TurnContract, and the claim that every step of
\* the streaming service is a step of that contract or a stutter.
\* (service.py:118-239 against its class docstring, service.py:94)
PhaseOf(r) ==
    CASE pc[r] = "idle" -> "waiting"
      [] pc[r] \in {"listing", "addingUser"} -> "open"
      [] pc[r] = "finishing" -> "answered"
      [] pc[r] \in Ended -> "closed"
      [] OTHER -> "asked"

Contract == INSTANCE TurnContract WITH
    Turns    <- Requests,
    Threads  <- Conversations,
    ThreadOf <- ConversationOf,
    phase    <- [r \in Requests |-> PhaseOf(r)],
    record   <- {<<m.req, m.role>> : m \in store},
    told     <- [r \in Requests |-> screen[r].terminal]

ImplementsTurnContract == Contract!Spec

\* The inductive invariant behind the theorems.  Fresh, Unretracted and Settled
\* are what is known of a request before generation, during it and once its
\* answer is decided.
Fresh(r) ==
    /\ turn[r].chunks = 0 /\ turn[r].pending = 0 /\ turn[r].reason = "none"
    /\ screen[r].shown = 0 /\ ~screen[r].replaced

Unretracted(r) ==
    /\ turn[r].reason = "none"
    /\ ~screen[r].replaced
    /\ screen[r].previews = turn[r].evidence

Settled(r) ==
    /\ screen[r].previews = turn[r].evidence
    /\ screen[r].replaced <=> turn[r].reason # "none"
    /\ turn[r].reason = "none" =>
          /\ screen[r].shown = turn[r].chunks
          /\ Valid(turn[r].claims, turn[r].evidence)
          /\ turn[r].cited = CitedIds(turn[r].claims)
    /\ turn[r].reason # "none" => turn[r].cited = turn[r].evidence \cap Official

TurnInv(r) ==
    /\ pc[r] \in {"idle", "listing", "addingUser", "understanding",
                  "retrieving", "preparing"} =>
          Fresh(r) /\ screen[r].previews = {}
    /\ pc[r] = "previewing" =>
          Fresh(r) /\ screen[r].previews \subseteq turn[r].evidence
    /\ pc[r] \in {"reading", "sending"} =>
          Unretracted(r) /\ screen[r].shown + turn[r].pending = turn[r].chunks
    /\ pc[r] = "sendingLast" =>
          Unretracted(r) /\ screen[r].shown = turn[r].chunks
    /\ pc[r] = "deciding" =>
          /\ screen[r].previews = turn[r].evidence
          /\ ~screen[r].replaced
          /\ turn[r].reason = "none" => screen[r].shown = turn[r].chunks
    /\ pc[r] \in {"checking", "addingAnswer", "finishing", "done"} => Settled(r)
    /\ screen[r].terminal = "final" <=> pc[r] = "done"
    /\ screen[r].terminal = "error" <=> pc[r] = "failed"
    /\ pc[r] = "done" => screen[r].cites = turn[r].evidence \cap turn[r].cited

\* Where a request has its question, and its answer, behind it.
Asked == {"understanding", "retrieving", "preparing", "previewing", "reading",
          "sending", "sendingLast", "deciding", "checking", "addingAnswer",
          "finishing", "done"}
Answered == {"finishing", "done"}

StoreInv ==
    /\ \A m \in store :
          /\ pc[m.req] # "idle"
          /\ \/ m = Question(m.req)
             \/ /\ m = Answer(m.req)
                /\ Settled(m.req)
                /\ pc[m.req] \in {"finishing"} \cup Ended
                /\ ~cleared[m.req] => Question(m.req) \in store
    /\ \A r \in Requests :
          ~cleared[r] => /\ pc[r] \in Asked => Question(r) \in store
                         /\ pc[r] \in Answered => Answer(r) \in store

Inductive == Typed /\ (\A r \in Requests : TurnInv(r)) /\ StoreInv

\* The documented promise: "A total generation deadline converts timeout
\* into a deterministic source-list fallback" (docs/ai/RAG_DESIGN.md:17).
\* While the server runs and the client stays, an ended request has
\* therefore been told its final answer or an error.
ConnectedClientsAreAnswered ==
    \A r \in Requests :
        (pc[r] \in Ended \ {"crashed"} /\ ~gone[r]) =>
            screen[r].terminal # "none"
=============================================================================
