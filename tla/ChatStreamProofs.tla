-------------------------- MODULE ChatStreamProofs --------------------------
(***************************************************************************)
(* Proofs about ChatStream for any requests, conversations, claims and     *)
(* bounds.                                                                 *)
(***************************************************************************)
EXTENDS ChatStream, TLAPS

\* The citation gate does what its codes are for: an answer that raises no
\* code is made of grounded claims (citation_validation.py:86-151).
LEMMA ValidIsGrounded ==
    ASSUME NEW claims \in SUBSET Claim, NEW evidence \in SUBSET Sources,
           Valid(claims, evidence)
    PROVE  \A claim \in claims : Grounded(claim, evidence)
<1> SUFFICES ASSUME NEW claim \in claims
             PROVE  Grounded(claim, evidence)
  OBVIOUS
<1>1. \A code \in Code : ~Raises(code, claim, evidence)
  BY DEF Valid, Codes
<1>2. /\ claim.cites \subseteq evidence
      /\ ~claim.asserts
      /\ claim.material => claim.cites # {}
      /\ claim.material => \A id \in claim.cites : id \in Official
  BY <1>1 DEF Raises, Code
<1>3. Usable(claim, evidence) = claim.cites
  BY <1>2 DEF Usable
<1>4. claim.cites # {} => claim.cites \cap claim.supportedBy # {}
  BY <1>1, <1>3 DEF Raises, Code
<1> QED
  BY <1>2, <1>4 DEF Grounded

-----------------------------------------------------------------------------
(* The types.                                                              *)

LEMMA QuestionType == \A r \in Requests : Question(r) \in Message
BY DEF Question, Message

\* The records of one request.
LEMMA LocalTypes ==
    ASSUME Typed, NEW r \in Requests
    PROVE  /\ turn[r] \in Turn
           /\ screen[r] \in Screen
           /\ [screen[r] EXCEPT !.terminal = "error"] \in Screen
<1>1. turn[r] \in Turn /\ screen[r] \in Screen
  BY DEF Typed
<1> QED
  BY <1>1 DEF Screen

\* What replacing the counters of a record leaves it: a record of its type.
LEMMA UpdatedTurn ==
    \A t \in Turn, chunks \in Nat, size \in Nat, pending \in Nat,
       pendingSize \in Nat :
          [t EXCEPT !.chunks = chunks, !.size = size, !.pending = pending,
                    !.pendingSize = pendingSize] \in Turn
BY DEF Turn

LEMMA UpdatedScreen ==
    \A s \in Screen, shown \in Nat : [s EXCEPT !.shown = shown] \in Screen
BY DEF Screen

LEMMA AnswerType == Typed => \A r \in Requests : Answer(r) \in Message
<1> SUFFICES ASSUME Typed, NEW r \in Requests
             PROVE  Answer(r) \in Message
  OBVIOUS
<1>1. turn[r] \in Turn
  BY DEF Typed
<1> QED
  BY <1>1 DEF Answer, Message, Turn

\* Every step keeps every variable in its type.
LEMMA TypeStep == Typed /\ [Next]_vars => Typed'
<1> SUFFICES ASSUME Typed, [Next]_vars
             PROVE  Typed'
  OBVIOUS
<1> USE DEF Typed
<1>1. ASSUME NEW r \in Requests, Arrive(r) \/ Serve(r)
      PROVE  Typed'
  <2>1. CASE Arrive(r) \/ ListHistory(r) \/ CheckClient(r) \/ NoticeLeft(r)
             \/ BeginAnswer(r)
    BY <2>1 DEF Arrive, ListHistory, CheckClient, NoticeLeft, BeginAnswer,
                Goto, Leave, Point, Ended
  <2>2. CASE AddUser(r)
    BY <2>2, QuestionType DEF AddUser, Goto, Point
  <2>3. CASE Prepare(r)
    <3>1. PICK found \in SUBSET Sources :
             turn' = [turn EXCEPT ![r].evidence = found]
      BY <2>3 DEF Prepare
    <3>2. [turn[r] EXCEPT !.evidence = found] \in Turn
      BY LocalTypes DEF Turn
    <3>3. turn' \in [Requests -> Turn]
      BY <3>1, <3>2
    <3> QED
      BY <2>3, <3>3 DEF Prepare, Goto, Point
  <2>4. CASE PrepareFails(r) \/ OversizedAnswer(r) \/ StoreFails(r)
    <3>1. screen' \in [Requests -> Screen]
      BY <2>4, LocalTypes DEF PrepareFails, OversizedAnswer, StoreFails, Raise
    <3>2. store' \subseteq Message
      BY <2>4, QuestionType, AnswerType
         DEF PrepareFails, OversizedAnswer, StoreFails
    <3> QED
      BY <2>4, <3>1, <3>2
         DEF PrepareFails, OversizedAnswer, StoreFails, Raise, Point, Ended
  <2>5. CASE Preview(r)
    <3>1. PICK id \in turn[r].evidence \ screen[r].previews :
             screen' = [screen EXCEPT ![r].previews = @ \cup {id}]
      BY <2>5 DEF Preview
    <3>2. id \in Sources
      BY <3>1, LocalTypes DEF Turn
    <3>3. [screen[r] EXCEPT !.previews = @ \cup {id}] \in Screen
      BY <3>2, LocalTypes DEF Screen
    <3>4. screen' \in [Requests -> Screen]
      BY <3>1, <3>3
    <3> QED
      BY <2>5, <3>4 DEF Preview
  <2>6. CASE StartStream(r)
    BY <2>6 DEF StartStream, Goto, Point
  <2>7. CASE AcceptAnswer(r)
    <3>1. PICK claims \in SUBSET Claims :
             turn' = [turn EXCEPT ![r] =
                        [turn[r] EXCEPT !.claims = claims,
                                        !.cited = CitedIds(claims)]]
      BY <2>7 DEF AcceptAnswer
    <3>2. CitedIds(claims) \in SUBSET Sources
      BY <3>1, ClaimAssumption DEF CitedIds, Claim
    <3>3. [turn[r] EXCEPT !.claims = claims,
                          !.cited = CitedIds(claims)] \in Turn
      BY <3>2, LocalTypes DEF Turn
    <3>4. turn' \in [Requests -> Turn]
      BY <3>1, <3>3
    <3> QED
      BY <2>7, <3>4 DEF AcceptAnswer, Goto, Point
  <2>8. CASE FallBack(r)
    <3>1. \A reason \in Reason :
             [turn[r] EXCEPT !.reason = reason,
                             !.cited = turn[r].evidence \cap Official] \in Turn
      BY LocalTypes DEF Turn
    <3>2. turn[r].reason \in Reason
      BY LocalTypes DEF Turn
    <3>3. turn' \in [Requests -> Turn]
      BY <2>8, <3>1, <3>2 DEF FallBack, Reason
    <3>4. [screen[r] EXCEPT !.replaced = TRUE] \in Screen
      BY LocalTypes DEF Screen
    <3>5. screen' \in [Requests -> Screen]
      BY <2>8, <3>4 DEF FallBack
    <3> QED
      BY <2>8, <3>3, <3>5 DEF FallBack, Goto, Point
  <2>9. CASE AddAnswer(r)
    BY <2>9, AnswerType DEF AddAnswer, Goto, Point
  <2>10. CASE Finish(r)
    <3>1. [screen[r] EXCEPT !.terminal = "final",
                            !.cites = turn[r].evidence \cap turn[r].cited]
             \in Screen
      BY LocalTypes DEF Screen, Turn
    <3>2. screen' \in [Requests -> Screen]
      BY <2>10, <3>1 DEF Finish
    <3> QED
      BY <2>10, <3>2 DEF Finish, Goto, Point, Ended
  <2> QED
    BY <1>1, <2>1, <2>2, <2>3, <2>4, <2>5, <2>6, <2>7, <2>8, <2>9, <2>10
       DEF Serve
<1>2. ASSUME NEW r \in Requests, Generate(r) \/ Deadline(r)
      PROVE  Typed'
  <2>1. CASE BufferChunk(r)
    <3>1. PICK len \in ChunkSizes :
             turn' = [turn EXCEPT ![r] =
                        [turn[r] EXCEPT !.chunks = turn[r].chunks + 1,
                                        !.size = turn[r].size + len,
                                        !.pending = turn[r].pending + 1,
                                        !.pendingSize = turn[r].pendingSize + len]]
      BY <2>1 DEF BufferChunk
    <3>2. /\ turn[r].chunks + 1 \in Nat /\ turn[r].size + len \in Nat
          /\ turn[r].pending + 1 \in Nat /\ turn[r].pendingSize + len \in Nat
      BY LocalTypes, SizeAssumption DEF Turn
    <3>3. turn' \in [Requests -> Turn]
      BY <3>1, <3>2, LocalTypes, UpdatedTurn
    <3> QED
      BY <2>1, <3>3 DEF BufferChunk
  <2>2. CASE FlushChunk(r)
    <3>1. PICK len \in ChunkSizes :
             turn' = [turn EXCEPT ![r] =
                        [turn[r] EXCEPT !.chunks = turn[r].chunks + 1,
                                        !.size = turn[r].size + len,
                                        !.pending = 0,
                                        !.pendingSize = 0]]
      BY <2>2 DEF FlushChunk
    <3>2. /\ turn[r].chunks + 1 \in Nat /\ turn[r].size + len \in Nat
          /\ screen[r].shown + turn[r].pending + 1 \in Nat
      BY LocalTypes, SizeAssumption DEF Turn, Screen
    <3>3. turn' \in [Requests -> Turn]
      BY <3>1, <3>2, LocalTypes, UpdatedTurn
    <3>4. screen' = [screen EXCEPT ![r] =
                       [screen[r] EXCEPT !.shown = screen[r].shown + turn[r].pending + 1]]
      BY <2>2 DEF FlushChunk
    <3>5. screen' \in [Requests -> Screen]
      BY <3>2, <3>4, LocalTypes, UpdatedScreen
    <3> QED
      BY <2>2, <3>3, <3>5 DEF FlushChunk, Point
  <2>3. CASE OversizedDelta(r) \/ ProviderFails(r)
    <3>1. screen' = [screen EXCEPT ![r].terminal = "error"]
      BY <2>3 DEF OversizedDelta, ProviderFails, Raise
    <3>2. screen' \in [Requests -> Screen]
      BY <3>1, LocalTypes
    <3> QED
      BY <2>3, <3>2 DEF OversizedDelta, ProviderFails, Raise, Point, Ended
  <2>4. CASE ChunkAfterLeft(r) \/ Resume(r) \/ StreamEnds(r)
             \/ DeadlineWhileSending(r)
    BY <2>4 DEF ChunkAfterLeft, Leave, Resume, StreamEnds,
                DeadlineWhileSending, Goto, Point, Ended
  <2>5. CASE StreamEndsFlushing(r)
    <3>1. screen[r].shown + turn[r].pending \in Nat
      BY LocalTypes DEF Screen, Turn
    <3>2. screen' \in [Requests -> Screen]
      BY <2>5, <3>1, LocalTypes, UpdatedScreen DEF StreamEndsFlushing
    <3> QED
      BY <2>5, <3>2 DEF StreamEndsFlushing, Goto, Point
  <2>6. CASE GenerationTimesOut(r)
    <3>1. [turn[r] EXCEPT !.reason = "provider_timeout"] \in Turn
      BY LocalTypes DEF Turn, Reason
    <3>2. turn' \in [Requests -> Turn]
      BY <2>6, <3>1 DEF GenerationTimesOut
    <3> QED
      BY <2>6, <3>2 DEF GenerationTimesOut, Goto, Point
  <2> QED
    BY <1>2, <2>1, <2>2, <2>3, <2>4, <2>5, <2>6 DEF Generate, Deadline
<1>3. ASSUME NEW r \in Requests, Disconnect(r) \/ Cancel(r) \/ Finalize(r)
      PROVE  Typed'
  <2>1. CASE Disconnect(r) \/ Finalize(r)
    BY <2>1 DEF Disconnect, Finalize
  <2>2. CASE Cancel(r)
    BY <2>2, QuestionType, AnswerType DEF Cancel, Point, Ended
  <2> QED
    BY <1>3, <2>1, <2>2
<1>4. ASSUME NEW c \in Conversations, Clear(c)
      PROVE  Typed'
  BY <1>4, SizeAssumption DEF Clear
<1>5. CASE Crash
  BY <1>5 DEF Crash, Point, Ended
<1>6. CASE UNCHANGED vars
  BY <1>6 DEF vars
<1> QED
  BY <1>1, <1>2, <1>3, <1>4, <1>5, <1>6 DEF Next

-----------------------------------------------------------------------------
(* The inductive invariant, one request at a time.                         *)

\* A request that a step leaves alone keeps its part of the invariant.
LEMMA TurnFrame ==
    ASSUME NEW r \in Requests, TurnInv(r),
           pc'[r] = pc[r], turn'[r] = turn[r], screen'[r] = screen[r]
    PROVE  TurnInv(r)'
BY DEF TurnInv, Fresh, Unretracted, Settled

\* A step of one request leaves the others alone.
LEMMA OthersUntouched ==
    ASSUME Typed, NEW r \in Requests, NEW s \in Requests, r # s,
           \/ Arrive(r) \/ Serve(r) \/ Generate(r) \/ Deadline(r)
           \/ Disconnect(r) \/ Cancel(r) \/ Finalize(r)
    PROVE  pc'[s] = pc[s] /\ turn'[s] = turn[s] /\ screen'[s] = screen[s]
<1> USE DEF Typed, Goto, Leave, Raise
<1>1. CASE Arrive(r) \/ Disconnect(r) \/ Cancel(r) \/ Finalize(r) \/ Deadline(r)
  BY <1>1 DEF Arrive, Disconnect, Cancel, Finalize, Deadline,
              GenerationTimesOut, DeadlineWhileSending
<1>2. CASE Serve(r)
  BY <1>2 DEF Serve, ListHistory, AddUser, CheckClient, NoticeLeft, Prepare,
              PrepareFails, Preview, StartStream, AcceptAnswer, FallBack,
              BeginAnswer, OversizedAnswer, AddAnswer, Finish, StoreFails
<1>3. CASE Generate(r)
  BY <1>3 DEF Generate, BufferChunk, FlushChunk, OversizedDelta,
              ChunkAfterLeft, Resume, StreamEndsFlushing, StreamEnds,
              ProviderFails
<1> QED
  BY <1>1, <1>2, <1>3

\* The steps of a request keep its own part of the invariant.
LEMMA TurnStepServe ==
    ASSUME Typed, NEW r \in Requests, TurnInv(r), Arrive(r) \/ Serve(r)
    PROVE  TurnInv(r)'
<1> USE DEF Typed, TurnInv
<1>1. /\ turn[r] \in Turn /\ screen[r] \in Screen
      /\ turn[r].evidence \subseteq Sources
  BY LocalTypes DEF Turn
<1>2. CASE \/ Arrive(r) \/ ListHistory(r) \/ AddUser(r) \/ CheckClient(r)
           \/ NoticeLeft(r) \/ BeginAnswer(r) \/ AddAnswer(r)
  BY <1>2 DEF Arrive, ListHistory, AddUser, CheckClient, NoticeLeft,
              BeginAnswer, AddAnswer, Goto, Leave, Fresh, Settled
<1>3. CASE PrepareFails(r) \/ OversizedAnswer(r) \/ StoreFails(r)
  <2>1. /\ pc'[r] = "failed" /\ screen'[r].terminal = "error"
    BY <1>1, <1>3 DEF PrepareFails, OversizedAnswer, StoreFails, Raise, Screen
  <2> QED
    BY <2>1
<1>4. CASE Prepare(r)
  <2>1. PICK found \in SUBSET Sources :
           turn' = [turn EXCEPT ![r].evidence = found]
    BY <1>4 DEF Prepare
  <2>2. turn'[r] = [turn[r] EXCEPT !.evidence = found]
    BY <2>1
  <2>3. /\ turn'[r].chunks = turn[r].chunks
        /\ turn'[r].pending = turn[r].pending
        /\ turn'[r].reason = turn[r].reason
    BY <1>1, <2>2 DEF Turn
  <2> QED
    BY <1>4, <2>3 DEF Prepare, Goto, Fresh
<1>5. CASE Preview(r)
  <2>1. PICK id \in turn[r].evidence \ screen[r].previews :
           screen' = [screen EXCEPT ![r].previews = @ \cup {id}]
    BY <1>5 DEF Preview
  <2>2. /\ screen'[r].previews = screen[r].previews \cup {id}
        /\ screen'[r].shown = screen[r].shown
        /\ screen'[r].replaced = screen[r].replaced
        /\ screen'[r].terminal = screen[r].terminal
    BY <1>1, <2>1 DEF Screen
  <2> QED
    BY <1>5, <2>2 DEF Preview, Fresh
<1>6. CASE StartStream(r)
  BY <1>1, <1>6 DEF StartStream, Goto, Fresh, Unretracted, Turn, Screen
<1>7. CASE AcceptAnswer(r)
  <2>1. PICK claims \in SUBSET Claims :
           /\ Valid(claims, turn[r].evidence)
           /\ turn' = [turn EXCEPT ![r] =
                          [turn[r] EXCEPT !.claims = claims,
                                          !.cited = CitedIds(claims)]]
    BY <1>7 DEF AcceptAnswer
  <2>2. /\ turn'[r].claims = claims /\ turn'[r].cited = CitedIds(claims)
        /\ turn'[r].evidence = turn[r].evidence
        /\ turn'[r].reason = turn[r].reason
        /\ turn'[r].chunks = turn[r].chunks
    BY <1>1, <2>1 DEF Turn
  <2> QED
    BY <1>7, <2>1, <2>2 DEF AcceptAnswer, Goto, Settled
<1>8. CASE FallBack(r)
  <2>1. /\ turn'[r].reason # "none"
        /\ turn'[r].cited = turn[r].evidence \cap Official
        /\ turn'[r].evidence = turn[r].evidence
    BY <1>1, <1>8 DEF FallBack, Turn
  <2>2. /\ screen'[r].replaced
        /\ screen'[r].previews = screen[r].previews
        /\ screen'[r].terminal = screen[r].terminal
    BY <1>1, <1>8 DEF FallBack, Screen
  <2> QED
    BY <1>8, <2>1, <2>2 DEF FallBack, Goto, Settled
<1>9. CASE Finish(r)
  <2>1. /\ screen'[r].terminal = "final"
        /\ screen'[r].cites = turn[r].evidence \cap turn[r].cited
        /\ screen'[r].previews = screen[r].previews
        /\ screen'[r].shown = screen[r].shown
        /\ screen'[r].replaced = screen[r].replaced
    BY <1>1, <1>9 DEF Finish, Screen
  <2> QED
    BY <1>9, <2>1 DEF Finish, Goto, Settled
<1> QED
  BY <1>2, <1>3, <1>4, <1>5, <1>6, <1>7, <1>8, <1>9 DEF Serve

LEMMA TurnStepGenerate ==
    ASSUME Typed, NEW r \in Requests, TurnInv(r), Generate(r) \/ Deadline(r)
    PROVE  TurnInv(r)'
<1> USE DEF Typed, TurnInv
<1>1. turn[r] \in Turn /\ screen[r] \in Screen
  BY LocalTypes
<1>2. CASE BufferChunk(r)
  <2>1. /\ turn'[r].chunks = turn[r].chunks + 1
        /\ turn'[r].pending = turn[r].pending + 1
        /\ turn'[r].reason = turn[r].reason
        /\ turn'[r].evidence = turn[r].evidence
    BY <1>1, <1>2 DEF BufferChunk, Turn
  <2>2. turn[r].chunks \in Nat /\ turn[r].pending \in Nat /\ screen[r].shown \in Nat
    BY <1>1 DEF Turn, Screen
  <2> QED
    BY <1>2, <2>1, <2>2 DEF BufferChunk, Receives, Unretracted
<1>3. CASE FlushChunk(r)
  <2>1. /\ turn'[r].chunks = turn[r].chunks + 1
        /\ turn'[r].pending = 0
        /\ turn'[r].reason = turn[r].reason
        /\ turn'[r].evidence = turn[r].evidence
    BY <1>1, <1>3 DEF FlushChunk, Turn
  <2>2. /\ screen'[r].shown = screen[r].shown + turn[r].pending + 1
        /\ screen'[r].replaced = screen[r].replaced
        /\ screen'[r].previews = screen[r].previews
        /\ screen'[r].terminal = screen[r].terminal
    BY <1>1, <1>3 DEF FlushChunk, Screen
  <2>3. turn[r].chunks \in Nat /\ turn[r].pending \in Nat /\ screen[r].shown \in Nat
    BY <1>1 DEF Turn, Screen
  <2>4. pc[r] = "reading" /\ pc'[r] = "sending"
    BY <1>3 DEF FlushChunk, Receives
  <2> QED
    BY <2>1, <2>2, <2>3, <2>4 DEF Unretracted
<1>4. CASE OversizedDelta(r) \/ ProviderFails(r)
  <2>1. Raise(r)
    BY <1>4 DEF OversizedDelta, ProviderFails
  <2>2. /\ pc'[r] = "failed" /\ screen'[r].terminal = "error"
    BY <1>1, <2>1 DEF Raise, Screen
  <2> QED
    BY <2>2
<1>5. CASE \/ ChunkAfterLeft(r) \/ Resume(r) \/ StreamEnds(r)
           \/ DeadlineWhileSending(r)
  BY <1>1, <1>5 DEF ChunkAfterLeft, Leave, Resume, StreamEnds,
       DeadlineWhileSending, Goto, Unretracted, Turn, Screen
<1>6. CASE StreamEndsFlushing(r)
  <2>1. /\ screen'[r].shown = screen[r].shown + turn[r].pending
        /\ screen'[r].replaced = screen[r].replaced
        /\ screen'[r].previews = screen[r].previews
        /\ screen'[r].terminal = screen[r].terminal
    BY <1>1, <1>6 DEF StreamEndsFlushing, Screen
  <2> QED
    BY <1>6, <2>1 DEF StreamEndsFlushing, Goto, Unretracted
<1>7. CASE GenerationTimesOut(r)
  <2>1. /\ turn'[r].reason = "provider_timeout"
        /\ turn'[r].evidence = turn[r].evidence
    BY <1>1, <1>7 DEF GenerationTimesOut, Turn
  <2> QED
    BY <1>7, <2>1 DEF GenerationTimesOut, Goto, Unretracted
<1> QED
  BY <1>2, <1>3, <1>4, <1>5, <1>6, <1>7 DEF Generate, Deadline

LEMMA TurnStep ==
    ASSUME Typed, \A r \in Requests : TurnInv(r), [Next]_vars
    PROVE  \A r \in Requests : TurnInv(r)'
<1> SUFFICES ASSUME NEW s \in Requests
             PROVE  TurnInv(s)'
  OBVIOUS
<1>1. ASSUME NEW r \in Requests, Arrive(r) \/ Serve(r) \/ Generate(r) \/ Deadline(r)
      PROVE  TurnInv(s)'
  <2>1. CASE r = s
    BY <1>1, <2>1, TurnStepServe, TurnStepGenerate
  <2>2. CASE r # s
    BY <1>1, <2>2, OthersUntouched, TurnFrame
  <2> QED
    BY <2>1, <2>2
<1>2. ASSUME NEW r \in Requests, Disconnect(r) \/ Cancel(r) \/ Finalize(r)
      PROVE  TurnInv(s)'
  <2>1. CASE Disconnect(r) \/ Finalize(r)
    BY <1>2, <2>1, TurnFrame DEF Disconnect, Finalize
  <2>2. CASE Cancel(r) /\ r = s
    BY <2>2 DEF Cancel, TurnInv, Typed, Active, Ended
  <2>3. CASE Cancel(r) /\ r # s
    BY <2>3, OthersUntouched, TurnFrame
  <2> QED
    BY <1>2, <2>1, <2>2, <2>3
<1>3. ASSUME NEW c \in Conversations, Clear(c)
      PROVE  TurnInv(s)'
  BY <1>3, TurnFrame DEF Clear
<1>4. CASE Crash
  <2>1. CASE Active(s)
    BY <1>4, <2>1 DEF Crash, TurnInv, Typed, Active, Ended
  <2>2. CASE ~Active(s)
    BY <1>4, <2>2, TurnFrame DEF Crash
  <2> QED
    BY <2>1, <2>2
<1>5. CASE UNCHANGED vars
  BY <1>5, TurnFrame DEF vars
<1> QED
  BY <1>1, <1>2, <1>3, <1>4, <1>5 DEF Next
-----------------------------------------------------------------------------
(* The part of the invariant about the store.                              *)

\* A step writes at most the question or the answer of one request, when its
\* coroutine is at that write; only a clear deletes.
LEMMA WritesAreScoped ==
    ASSUME Typed, NEW r \in Requests,
           \/ Arrive(r) \/ Serve(r) \/ Generate(r) \/ Deadline(r)
           \/ Disconnect(r) \/ Cancel(r) \/ Finalize(r)
    PROVE  /\ cleared' = cleared
           /\ \/ store' = store
              \/ /\ pc[r] = "addingUser"
                 /\ store' = store \cup {Question(r)}
              \/ /\ pc[r] = "addingAnswer"
                 /\ store' = store \cup {Answer(r)}
                 /\ turn' = turn
                 /\ pc'[r] \in {"finishing", "failed", "left"}
<1> USE DEF Typed, Goto, Leave, Raise
<1>1. CASE Arrive(r) \/ Disconnect(r) \/ Cancel(r) \/ Finalize(r) \/ Deadline(r)
  BY <1>1 DEF Arrive, Disconnect, Cancel, Finalize, Deadline,
              GenerationTimesOut, DeadlineWhileSending
<1>2. CASE Serve(r)
  BY <1>2 DEF Serve, ListHistory, AddUser, CheckClient, NoticeLeft, Prepare,
              PrepareFails, Preview, StartStream, AcceptAnswer, FallBack,
              BeginAnswer, OversizedAnswer, AddAnswer, Finish, StoreFails
<1>3. CASE Generate(r)
  BY <1>3 DEF Generate, BufferChunk, FlushChunk, OversizedDelta,
              ChunkAfterLeft, Resume, StreamEndsFlushing, StreamEnds,
              ProviderFails
<1> QED
  BY <1>1, <1>2, <1>3

\* The step reaches the points after a write only by making the write.
LEMMA WritesAreMade ==
    ASSUME Typed, NEW r \in Requests,
           \/ Arrive(r) \/ Serve(r) \/ Generate(r) \/ Deadline(r)
           \/ Disconnect(r) \/ Cancel(r) \/ Finalize(r)
    PROVE  /\ pc'[r] \in Asked =>
                 pc[r] \in Asked \/ store' = store \cup {Question(r)}
           /\ pc'[r] \in Answered =>
                 \/ pc[r] \in Answered
                 \/ pc[r] = "addingAnswer" /\ store' = store \cup {Answer(r)}
<1> USE DEF Typed, Goto, Leave, Raise, Asked, Answered
<1>1. CASE Arrive(r) \/ Disconnect(r) \/ Cancel(r) \/ Finalize(r) \/ Deadline(r)
  BY <1>1 DEF Arrive, Disconnect, Cancel, Finalize, Deadline,
              GenerationTimesOut, DeadlineWhileSending
<1>2. CASE Serve(r)
  BY <1>2 DEF Serve, ListHistory, AddUser, CheckClient, NoticeLeft, Prepare,
              PrepareFails, Preview, StartStream, AcceptAnswer, FallBack,
              BeginAnswer, OversizedAnswer, AddAnswer, Finish, StoreFails
<1>3. CASE Generate(r)
  <2>1. pc[r] \in {"reading", "sending", "sendingLast"}
    BY <1>3 DEF Generate, BufferChunk, FlushChunk, Receives, OversizedDelta,
       ChunkAfterLeft, Resume, StreamEndsFlushing, StreamEnds, ProviderFails
  <2>2. pc'[r] \in {"reading", "sending", "sendingLast", "deciding",
                    "failed", "left"}
    BY <1>3, <2>1 DEF Generate, BufferChunk, FlushChunk, Receives,
       OversizedDelta, ChunkAfterLeft, Resume, StreamEndsFlushing, StreamEnds,
       ProviderFails
  <2> QED
    BY <2>1, <2>2
<1> QED
  BY <1>1, <1>2, <1>3

\* Once its answer is decided a request never changes it again.
LEMMA SettledStays ==
    ASSUME Typed, NEW r \in Requests, Settled(r),
           pc[r] \in {"addingAnswer", "finishing"} \cup Ended, [Next]_vars
    PROVE  /\ Settled(r)' /\ turn'[r] = turn[r]
           /\ pc[r] \in {"finishing"} \cup Ended =>
                 pc'[r] \in {"finishing"} \cup Ended
<1>1. screen[r] \in Screen /\ r \in DOMAIN screen /\ pc \in [Requests -> Point]
  BY LocalTypes DEF Typed
<1>2. ASSUME NEW s \in Requests, s # r,
             \/ Arrive(s) \/ Serve(s) \/ Generate(s) \/ Deadline(s)
             \/ Disconnect(s) \/ Cancel(s) \/ Finalize(s)
      PROVE  pc'[r] = pc[r] /\ turn'[r] = turn[r] /\ screen'[r] = screen[r]
  BY <1>2, OthersUntouched
<1>3. ASSUME Arrive(r) \/ Generate(r) \/ Deadline(r)
      PROVE  FALSE
  BY <1>3 DEF Arrive, Generate, Deadline, BufferChunk, FlushChunk, Receives,
     OversizedDelta, ChunkAfterLeft, Resume, StreamEndsFlushing, StreamEnds,
     ProviderFails, GenerationTimesOut, DeadlineWhileSending, Goto, Ended
<1>4. CASE Serve(r)
  <2>1. AddAnswer(r) \/ Finish(r) \/ StoreFails(r)
    BY <1>4 DEF Serve, ListHistory, AddUser, CheckClient, NoticeLeft, Prepare,
       PrepareFails, Preview, StartStream, AcceptAnswer, FallBack, BeginAnswer,
       OversizedAnswer, Goto, Ended
  <2>2. /\ turn' = turn /\ pc'[r] \in {"finishing"} \cup Ended
        /\ screen'[r].previews = screen[r].previews
        /\ screen'[r].shown = screen[r].shown
        /\ screen'[r].replaced = screen[r].replaced
    <3>1. CASE AddAnswer(r)
      BY <3>1, <1>1 DEF AddAnswer, Goto
    <3>2. CASE Finish(r)
      BY <3>2, <1>1 DEF Finish, Goto, Ended, Screen
    <3>3. CASE StoreFails(r)
      BY <3>3, <1>1 DEF StoreFails, Raise, Ended, Screen
    <3> QED
      BY <2>1, <3>1, <3>2, <3>3
  <2> QED
    BY <2>2 DEF Settled
<1>5. CASE Disconnect(r) \/ Cancel(r) \/ Finalize(r)
  BY <1>1, <1>5 DEF Disconnect, Cancel, Finalize, Settled, Ended
<1>6. ASSUME pc'[r] = pc[r], turn'[r] = turn[r], screen'[r] = screen[r]
      PROVE  Settled(r)'
  BY <1>6 DEF Settled
<1>7. ASSUME NEW c \in Conversations, Clear(c)
      PROVE  pc'[r] = pc[r] /\ turn'[r] = turn[r] /\ screen'[r] = screen[r]
  BY <1>7 DEF Clear
<1>8. CASE Crash
  BY <1>1, <1>8 DEF Crash, Settled, Ended
<1>9. CASE UNCHANGED vars
  BY <1>6, <1>9 DEF vars
<1> QED
  BY <1>2, <1>3, <1>4, <1>5, <1>6, <1>7, <1>8, <1>9 DEF Next

\* A clear marks every request whose rows it deletes; nothing else deletes.
LEMMA RowsStay ==
    ASSUME Inductive, [Next]_vars, NEW m \in store, ~cleared'[m.req]
    PROVE  m \in store' /\ ~cleared[m.req]
<1> USE DEF Inductive
<1>1. m.req \in Requests /\ pc[m.req] # "idle"
  BY DEF Typed, Message, StoreInv
<1>2. ASSUME NEW c \in Conversations, Clear(c)
      PROVE  m \in store' /\ ~cleared[m.req]
  BY <1>1, <1>2 DEF Clear, Typed
<1>3. ASSUME NEW r \in Requests,
             \/ Arrive(r) \/ Serve(r) \/ Generate(r) \/ Deadline(r)
             \/ Disconnect(r) \/ Cancel(r) \/ Finalize(r)
      PROVE  m \in store' /\ ~cleared[m.req]
  BY <1>3, WritesAreScoped
<1> QED
  BY <1>2, <1>3 DEF Next, Crash, vars

\* A request that has arrived has arrived for good.
LEMMA ArrivedForGood ==
    ASSUME Typed, [Next]_vars, NEW r \in Requests, pc[r] # "idle"
    PROVE  pc'[r] # "idle"
<1> USE DEF Typed, Goto, Leave, Raise
<1>1. CASE Arrive(r) \/ Disconnect(r) \/ Cancel(r) \/ Finalize(r) \/ Deadline(r)
  BY <1>1 DEF Arrive, Disconnect, Cancel, Finalize, Deadline,
              GenerationTimesOut, DeadlineWhileSending
<1>2. CASE Serve(r)
  BY <1>2 DEF Serve, ListHistory, AddUser, CheckClient, NoticeLeft, Prepare,
              PrepareFails, Preview, StartStream, AcceptAnswer, FallBack,
              BeginAnswer, OversizedAnswer, AddAnswer, Finish, StoreFails
<1>3. CASE Generate(r)
  BY <1>3 DEF Generate, BufferChunk, FlushChunk, OversizedDelta,
              ChunkAfterLeft, Resume, StreamEndsFlushing, StreamEnds,
              ProviderFails
<1> QED
  BY <1>1, <1>2, <1>3, OthersUntouched DEF Next, Clear, Crash, vars

\* The first half of StoreInv: what the rows are.
LEMMA RowsStep ==
    ASSUME Inductive, [Next]_vars, NEW m \in store'
    PROVE  /\ pc'[m.req] # "idle"
           /\ \/ m = Question(m.req)
              \/ /\ m = Answer(m.req)'
                 /\ Settled(m.req)'
                 /\ pc'[m.req] \in {"finishing"} \cup Ended
                 /\ ~cleared'[m.req] => Question(m.req) \in store'
<1> USE DEF Inductive
<1>1. CASE m \in store
  <2>1. m.req \in Requests
    BY <1>1 DEF Typed, Message
  <2>2. pc'[m.req] # "idle"
    BY <1>1, <2>1, ArrivedForGood DEF StoreInv
  <2>3. CASE m = Question(m.req)
    BY <2>2, <2>3
  <2>4. CASE /\ m = Answer(m.req)
             /\ Settled(m.req)
             /\ pc[m.req] \in {"finishing"} \cup Ended
             /\ ~cleared[m.req] => Question(m.req) \in store
    <3>1. /\ Settled(m.req)' /\ turn'[m.req] = turn[m.req]
          /\ pc'[m.req] \in {"finishing"} \cup Ended
      BY <2>1, <2>4, SettledStays
    <3>2. m = Answer(m.req)'
      BY <2>4, <3>1 DEF Answer
    <3>3. ASSUME ~cleared'[m.req] PROVE Question(m.req) \in store'
      <4>1. Question(m.req) \in store
        BY <1>1, <2>4, <3>3, RowsStay
      <4>2. Question(m.req).req = m.req
        BY DEF Question
      <4> QED
        BY <3>3, <4>1, <4>2, RowsStay
    <3> QED
      BY <2>2, <3>1, <3>2, <3>3
  <2> QED
    BY <1>1, <2>3, <2>4 DEF StoreInv
<1>2. CASE m \notin store
  <2>1. PICK r \in Requests :
           \/ pc[r] = "addingUser" /\ m = Question(r)
           \/ /\ pc[r] = "addingAnswer" /\ m = Answer(r)
              /\ store' = store \cup {m} /\ turn' = turn /\ cleared' = cleared
              /\ pc'[r] \in {"finishing", "failed", "left"}
    <3>1. ASSUME NEW r \in Requests,
                 \/ Arrive(r) \/ Serve(r) \/ Generate(r) \/ Deadline(r)
                 \/ Disconnect(r) \/ Cancel(r) \/ Finalize(r)
          PROVE  \/ pc[r] = "addingUser" /\ m = Question(r)
                 \/ /\ pc[r] = "addingAnswer" /\ m = Answer(r)
                    /\ store' = store \cup {m} /\ turn' = turn
                    /\ cleared' = cleared
                    /\ pc'[r] \in {"finishing", "failed", "left"}
      BY <1>2, <3>1, WritesAreScoped
    <3>2. ~(Crash \/ UNCHANGED vars \/ \E c \in Conversations : Clear(c))
      BY <1>2 DEF Crash, vars, Clear
    <3> QED
      BY <3>1, <3>2 DEF Next
  <2>2. m.req = r
    BY <2>1 DEF Question, Answer
  <2>3. pc'[r] # "idle"
    BY <2>1, ArrivedForGood
  <2>4. CASE m = Question(r)
    BY <2>2, <2>3, <2>4
  <2>5. CASE /\ pc[r] = "addingAnswer" /\ m = Answer(r)
             /\ store' = store \cup {m} /\ turn' = turn /\ cleared' = cleared
             /\ pc'[r] \in {"finishing", "failed", "left"}
    <3>1. Settled(r)'
      BY <2>5, SettledStays DEF TurnInv
    <3>2. ~cleared[r] => Question(r) \in store
      BY <2>5 DEF StoreInv, Asked
    <3> QED
      BY <2>2, <2>3, <2>5, <3>1, <3>2 DEF Answer, Ended
  <2> QED
    BY <2>1, <2>4, <2>5
<1> QED
  BY <1>1, <1>2

\* The second half of StoreInv: which rows there are.
LEMMA DurableStep ==
    ASSUME Inductive, [Next]_vars, NEW r \in Requests, ~cleared'[r]
    PROVE  /\ pc'[r] \in Asked => Question(r) \in store'
           /\ pc'[r] \in Answered => Answer(r)' \in store'
<1> USE DEF Inductive
<1>1. /\ Question(r) \in store => Question(r) \in store'
      /\ Answer(r) \in store => Answer(r) \in store'
  BY RowsStay DEF Question, Answer
<1>2. ~cleared[r]
  <2>1. ASSUME NEW s \in Requests,
               \/ Arrive(s) \/ Serve(s) \/ Generate(s) \/ Deadline(s)
               \/ Disconnect(s) \/ Cancel(s) \/ Finalize(s)
        PROVE  cleared' = cleared
    BY <2>1, WritesAreScoped
  <2> QED
    BY <2>1 DEF Next, Clear, Crash, vars, Typed
<1>3. /\ pc'[r] \in Asked => pc[r] \in Asked \/ Question(r) \in store'
      /\ pc'[r] \in Answered =>
            pc[r] \in Answered \/ (pc[r] = "addingAnswer" /\ Answer(r) \in store')
  <2> DEFINE Made ==
        /\ pc'[r] \in Asked => pc[r] \in Asked \/ Question(r) \in store'
        /\ pc'[r] \in Answered =>
              pc[r] \in Answered \/ (pc[r] = "addingAnswer" /\ Answer(r) \in store')
  <2>1. ASSUME \/ Arrive(r) \/ Serve(r) \/ Generate(r) \/ Deadline(r)
               \/ Disconnect(r) \/ Cancel(r) \/ Finalize(r)
        PROVE  Made
    BY <2>1, WritesAreMade, WritesAreScoped DEF Asked, Answered
  <2>2. ASSUME pc'[r] = pc[r]
        PROVE  Made
    BY <2>2
  <2>3. CASE Crash
    BY <2>3 DEF Crash, Asked, Answered, Typed
  <2> QED
    BY <2>1, <2>2, <2>3, OthersUntouched DEF Next, Clear, vars
<1>4. pc[r] \in Answered \cup {"addingAnswer"} => turn'[r] = turn[r]
  BY SettledStays DEF TurnInv, Answered, Ended
<1>5. turn'[r] = turn[r] => Answer(r)' = Answer(r)
  BY DEF Answer
<1> QED
  BY <1>1, <1>2, <1>3, <1>4, <1>5 DEF StoreInv

\* Inductive is an inductive invariant.
THEOREM InductiveInvariant == Spec => []Inductive
<1>1. Init => Inductive
  <2> SUFFICES ASSUME Init PROVE Inductive
    OBVIOUS
  <2>1. Typed
    BY SizeAssumption
       DEF Init, Typed, EmptyTurn, EmptyScreen, Turn, Screen, Point, Reason
  <2>2. \A r \in Requests : TurnInv(r)
    BY DEF Init, TurnInv, Fresh, EmptyTurn, EmptyScreen
  <2>3. StoreInv
    BY DEF Init, StoreInv, Asked, Answered
  <2> QED
    BY <2>1, <2>2, <2>3 DEF Inductive
<1>2. Inductive /\ [Next]_vars => Inductive'
  <2> SUFFICES ASSUME Inductive, [Next]_vars PROVE Inductive'
    OBVIOUS
  <2>1. Typed'
    BY TypeStep DEF Inductive
  <2>2. (\A r \in Requests : TurnInv(r))'
    BY TurnStep DEF Inductive
  <2>3. StoreInv'
    BY RowsStep, DurableStep DEF StoreInv
  <2> QED
    BY <2>1, <2>2, <2>3 DEF Inductive
<1> QED
  BY <1>1, <1>2, PTL DEF Spec
-----------------------------------------------------------------------------
(* Type correctness, with what it says of rows and of pending text.        *)

\* Only a chunk that is not flushed leaves more text pending, and what it
\* leaves is below the flush length.
LEMMA PendingStep ==
    ASSUME Typed, PendingIsShort, [Next]_vars
    PROVE  PendingIsShort'
<1> SUFFICES ASSUME NEW r \in Requests
             PROVE  \/ turn'[r].pendingSize = 0
                    \/ turn'[r].pendingSize < FlushLength
  BY DEF PendingIsShort
<1>1. turn[r] \in Turn /\ turn \in [Requests -> Turn]
  BY DEF Typed
<1>2. ASSUME turn'[r].pendingSize = turn[r].pendingSize
      PROVE  \/ turn'[r].pendingSize = 0
             \/ turn'[r].pendingSize < FlushLength
  BY <1>2 DEF PendingIsShort
<1>3. ASSUME NEW s \in Requests, r # s,
             \/ Arrive(s) \/ Serve(s) \/ Generate(s) \/ Deadline(s)
             \/ Disconnect(s) \/ Cancel(s) \/ Finalize(s)
      PROVE  turn'[r].pendingSize = turn[r].pendingSize
  BY <1>3, OthersUntouched
<1>4. CASE BufferChunk(r)
  <2>1. PICK len \in ChunkSizes :
           /\ ~Flushes(r, len, FALSE)
           /\ turn' = [turn EXCEPT ![r] =
                        [turn[r] EXCEPT !.chunks = turn[r].chunks + 1,
                                        !.size = turn[r].size + len,
                                        !.pending = turn[r].pending + 1,
                                        !.pendingSize = turn[r].pendingSize + len]]
    BY <1>4 DEF BufferChunk
  <2>2. turn'[r].pendingSize = turn[r].pendingSize + len
    BY <1>1, <2>1 DEF Turn
  <2>3. turn[r].pendingSize + len < FlushLength
    BY <1>1, <2>1, SizeAssumption DEF Flushes, Turn
  <2> QED
    BY <2>2, <2>3
<1>5. CASE FlushChunk(r)
  <2>1. PICK len \in ChunkSizes :
           turn' = [turn EXCEPT ![r] =
                     [turn[r] EXCEPT !.chunks = turn[r].chunks + 1,
                                     !.size = turn[r].size + len,
                                     !.pending = 0,
                                     !.pendingSize = 0]]
    BY <1>5 DEF FlushChunk
  <2> QED
    BY <1>1, <2>1 DEF Turn
<1>6. CASE Prepare(r)
  <2>1. PICK found \in SUBSET Sources :
           turn' = [turn EXCEPT ![r].evidence = found]
    BY <1>6 DEF Prepare
  <2> QED
    BY <1>1, <1>2, <2>1 DEF Turn
<1>7. CASE AcceptAnswer(r)
  <2>1. PICK claims \in SUBSET Claims :
           turn' = [turn EXCEPT ![r] =
                     [turn[r] EXCEPT !.claims = claims,
                                     !.cited = CitedIds(claims)]]
    BY <1>7 DEF AcceptAnswer
  <2> QED
    BY <1>1, <1>2, <2>1 DEF Turn
<1>8. CASE FallBack(r) \/ GenerationTimesOut(r)
  <2>1. CASE FallBack(r)
    <3>1. turn'[r] = [turn[r] EXCEPT
                        !.reason = IF turn[r].reason = "none"
                                   THEN "citation_validation_failed"
                                   ELSE turn[r].reason,
                        !.cited = turn[r].evidence \cap Official]
      BY <1>1, <2>1 DEF FallBack
    <3>2. turn'[r].pendingSize = turn[r].pendingSize
      BY <1>1, <3>1 DEF Turn
    <3> QED
      BY <1>2, <3>2
  <2>2. CASE GenerationTimesOut(r)
    <3>1. turn'[r] = [turn[r] EXCEPT !.reason = "provider_timeout"]
      BY <1>1, <2>2 DEF GenerationTimesOut
    <3>2. turn'[r].pendingSize = turn[r].pendingSize
      BY <1>1, <3>1 DEF Turn
    <3> QED
      BY <1>2, <3>2
  <2> QED
    BY <1>8, <2>1, <2>2
<1>9. CASE \/ Arrive(r) \/ ListHistory(r) \/ AddUser(r) \/ CheckClient(r)
           \/ NoticeLeft(r) \/ PrepareFails(r) \/ Preview(r) \/ StartStream(r)
           \/ BeginAnswer(r) \/ OversizedAnswer(r) \/ AddAnswer(r)
           \/ Finish(r) \/ StoreFails(r) \/ OversizedDelta(r)
           \/ ChunkAfterLeft(r) \/ Resume(r) \/ StreamEndsFlushing(r)
           \/ StreamEnds(r) \/ ProviderFails(r) \/ DeadlineWhileSending(r)
           \/ Disconnect(r) \/ Cancel(r) \/ Finalize(r)
  BY <1>2, <1>9 DEF Arrive, ListHistory, AddUser, CheckClient, NoticeLeft,
     PrepareFails, Preview, StartStream, BeginAnswer, OversizedAnswer,
     AddAnswer, Finish, StoreFails, OversizedDelta, ChunkAfterLeft, Resume,
     StreamEndsFlushing, StreamEnds, ProviderFails, DeadlineWhileSending,
     Disconnect, Cancel, Finalize, Leave, Raise
<1>10. CASE Crash \/ UNCHANGED vars \/ \E c \in Conversations : Clear(c)
  BY <1>2, <1>10 DEF Crash, Clear, vars
<1> QED
  BY <1>2, <1>3, <1>4, <1>5, <1>6, <1>7, <1>8, <1>9, <1>10
     DEF Next, Serve, Generate, Deadline

\* Rows are told apart by their request and role: each is the question or the
\* answer of its request.
LEMMA RowsAreUnique ==
    ASSUME StoreInv
    PROVE  OneRowEach
<1>1. \A m \in store : m = Question(m.req) \/ m = Answer(m.req)
  BY DEF StoreInv
<1>2. \A m \in store : \/ m = Question(m.req) /\ m.role = "user"
                       \/ m = Answer(m.req) /\ m.role = "assistant"
  BY <1>1 DEF Question, Answer
<1> QED
  BY <1>2 DEF OneRowEach

\* In every reachable state each variable has its type, no request has two
\* questions or two answers in the store, and pending text is shorter than the
\* flush length, for any requests and limits.
THEOREM TypeCorrect == Spec => []TypeOK
<1>1. Init => PendingIsShort
  BY DEF Init, PendingIsShort, EmptyTurn
<1>2. Inductive /\ PendingIsShort /\ [Next]_vars => PendingIsShort'
  BY PendingStep DEF Inductive
<1>3. Inductive /\ PendingIsShort => TypeOK
  BY RowsAreUnique DEF Inductive, TypeOK
<1> QED
  BY <1>1, <1>2, <1>3, InductiveInvariant, PTL DEF Spec
-----------------------------------------------------------------------------
(* The properties, for any instance.                                       *)

LEMMA CitedIsRetrieved ==
    ASSUME Typed, NEW r \in Requests, Settled(r)
    PROVE  turn[r].cited \subseteq turn[r].evidence
<1>1. turn[r].claims \subseteq Claim /\ turn[r].evidence \subseteq Sources
  BY LocalTypes, ClaimAssumption DEF Turn
<1>2. CASE turn[r].reason = "none"
  <2>1. \A claim \in turn[r].claims : claim.cites \subseteq turn[r].evidence
    BY <1>1, <1>2, ValidIsGrounded DEF Settled, Grounded
  <2> QED
    BY <1>2, <2>1 DEF Settled, CitedIds
<1> QED
  BY <1>2 DEF Settled

\* The answer in the history of a finished request is what its client sees.
THEOREM FinalMatches == Spec => []FinalMatchesStore
<1>1. Inductive => FinalMatchesStore
  <2> SUFFICES ASSUME Inductive, NEW m \in store, m.role = "assistant",
                      screen[m.req].terminal = "final"
               PROVE  /\ m.text = "fallback" <=> screen[m.req].replaced
                      /\ m.text = "model" => m.chunks = screen[m.req].shown
                      /\ m.cites = screen[m.req].cites
                      /\ m.cites \subseteq screen[m.req].previews
    BY DEF FinalMatchesStore
  <2> DEFINE r == m.req
  <2>1. r \in Requests /\ Typed /\ TurnInv(r)
    BY DEF Inductive, Typed, Message
  <2>2. m = Answer(r) /\ Settled(r)
    <3>1. Question(r).role = "user"
      BY DEF Question
    <3> QED
      BY <3>1 DEF Inductive, StoreInv
  <2>3. screen[r].cites = turn[r].evidence \cap turn[r].cited
    BY <2>1 DEF TurnInv
  <2>4. turn[r].cited \subseteq turn[r].evidence
    BY <2>1, <2>2, CitedIsRetrieved
  <2>5. /\ m.cites = turn[r].cited
        /\ m.text = IF turn[r].reason = "none" THEN "model" ELSE "fallback"
        /\ turn[r].reason = "none" => m.chunks = turn[r].chunks
    BY <2>2 DEF Answer
  <2> QED
    BY <2>2, <2>3, <2>4, <2>5 DEF Settled
<1> QED
  BY <1>1, InductiveInvariant, PTL

\* What a client was told is final stays in the history until a clear.
THEOREM FinalDurable == Spec => []FinalIsDurable
<1>1. Inductive => FinalIsDurable
  BY DEF Inductive, FinalIsDurable, TurnInv, StoreInv, Asked, Answered
<1> QED
  BY <1>1, InductiveInvariant, PTL

\* No ungrounded generated claim is ever stored.
THEOREM StoredGrounded == Spec => []StoredAnswersAreGrounded
<1>1. Inductive => StoredAnswersAreGrounded
  <2> SUFFICES ASSUME Inductive, NEW m \in store
               PROVE  /\ m.text = "model" =>
                           \A claim \in turn[m.req].claims :
                              /\ Grounded(claim, turn[m.req].evidence)
                              /\ claim.cites \subseteq m.cites
                      /\ m.text = "fallback" =>
                           m.cites = turn[m.req].evidence \cap Official
    BY DEF StoredAnswersAreGrounded
  <2> DEFINE r == m.req
  <2>1. r \in Requests /\ Typed
    BY DEF Inductive, Typed, Message
  <2>2. turn[r].claims \subseteq Claim /\ turn[r].evidence \subseteq Sources
    BY <2>1, LocalTypes, ClaimAssumption DEF Turn
  <2>3. CASE m = Question(r)
    BY <2>3 DEF Question
  <2>4. CASE m = Answer(r) /\ Settled(r)
    <3>1. /\ m.cites = turn[r].cited
          /\ m.text = IF turn[r].reason = "none" THEN "model" ELSE "fallback"
      BY <2>4 DEF Answer
    <3>2. ASSUME turn[r].reason = "none", NEW claim \in turn[r].claims
          PROVE  Grounded(claim, turn[r].evidence) /\ claim.cites \subseteq m.cites
      <4>1. Valid(turn[r].claims, turn[r].evidence)
        BY <2>4, <3>2 DEF Settled
      <4>2. turn[r].cited = CitedIds(turn[r].claims)
        BY <2>4, <3>2 DEF Settled
      <4>3. Grounded(claim, turn[r].evidence)
        BY <2>2, <4>1, ValidIsGrounded
      <4> QED
        BY <3>1, <4>2, <4>3 DEF CitedIds
    <3> QED
      BY <2>4, <3>1, <3>2 DEF Settled
  <2> QED
    BY <2>3, <2>4 DEF Inductive, StoreInv
<1> QED
  BY <1>1, InductiveInvariant, PTL

\* Only a clear leaves an answer without its question.
THEOREM AnswersFollowQuestions == Spec => []AnswersHaveTheirQuestion
<1>1. Inductive => AnswersHaveTheirQuestion
  BY DEF Inductive, AnswersHaveTheirQuestion, StoreInv
<1> QED
  BY <1>1, InductiveInvariant, PTL

\* Rows are deleted by whole conversations and written by live requests.
THEOREM HistoryDiscipline == Spec => HistoryOnlyGrowsOrClears
<1> DEFINE Discipline ==
      /\ \A m \in store \ store' :
            store' = {n \in store : ConversationOf[n.req] # ConversationOf[m.req]}
      /\ \A m \in store' \ store : pc[m.req] \notin Ended
<1>1. Inductive /\ [Next]_vars => Discipline
  <2> SUFFICES ASSUME Inductive, [Next]_vars PROVE Discipline
    OBVIOUS
  <2>1. ASSUME NEW c \in Conversations, Clear(c)
        PROVE  Discipline
    BY <2>1 DEF Clear
  <2>2. ASSUME NEW r \in Requests,
               \/ Arrive(r) \/ Serve(r) \/ Generate(r) \/ Deadline(r)
               \/ Disconnect(r) \/ Cancel(r) \/ Finalize(r)
        PROVE  Discipline
    BY <2>2, WritesAreScoped DEF Inductive, Question, Answer, Ended
  <2> QED
    BY <2>1, <2>2 DEF Next, Crash, vars
<1> QED
  BY <1>1, InductiveInvariant, PTL DEF Spec, HistoryOnlyGrowsOrClears
\* After a text_replace no provisional text is sent, after a terminal event
\* nothing is.
THEOREM RetractionIsFinal == Spec => NothingFollowsRetraction
<1> DEFINE Silent(r) ==
      (screen[r].replaced \/ screen[r].terminal # "none") =>
          /\ screen'[r].shown = screen[r].shown
          /\ screen'[r].replaced = screen[r].replaced
          /\ screen[r].terminal # "none" => screen'[r] = screen[r]
<1>1. Inductive /\ [Next]_vars => \A r \in Requests : Silent(r)
  <2> SUFFICES ASSUME Inductive, [Next]_vars, NEW r \in Requests,
                      screen[r].replaced \/ screen[r].terminal # "none"
               PROVE  Silent(r)
    OBVIOUS
  <2>1. /\ Typed /\ TurnInv(r) /\ screen[r] \in Screen
        /\ pc[r] \in Point
    BY LocalTypes DEF Inductive, Typed
  <2>2. /\ pc[r] \in {"checking", "addingAnswer", "finishing"} \cup Ended
        /\ screen[r].terminal # "none" => pc[r] \in {"done", "failed"}
    BY <2>1 DEF TurnInv, Fresh, Unretracted, Point, Ended, Screen
  <2>3. ASSUME screen'[r] = screen[r]
        PROVE  Silent(r)
    BY <2>3
  <2>4. ASSUME \/ Arrive(r) \/ Serve(r) \/ Generate(r) \/ Deadline(r)
               \/ Disconnect(r) \/ Cancel(r) \/ Finalize(r)
        PROVE  Silent(r)
    <3>1. CASE Arrive(r) \/ Generate(r) \/ Deadline(r)
      <4>1. pc[r] \in {"idle", "reading", "sending", "sendingLast"}
        BY <3>1 DEF Arrive, Generate, Deadline, BufferChunk, FlushChunk,
           Receives, OversizedDelta, ChunkAfterLeft, Resume,
           StreamEndsFlushing, StreamEnds, ProviderFails, GenerationTimesOut,
           DeadlineWhileSending, Goto
      <4> QED
        BY <2>2, <4>1 DEF Ended
    <3>2. CASE Serve(r)
      <4>1. \/ NoticeLeft(r) \/ BeginAnswer(r) \/ OversizedAnswer(r)
            \/ AddAnswer(r) \/ Finish(r) \/ StoreFails(r)
        BY <2>2, <3>2 DEF Serve, ListHistory, AddUser, CheckClient, Prepare,
           PrepareFails, Preview, StartStream, AcceptAnswer, FallBack, Goto,
           Ended
      <4>2. CASE NoticeLeft(r) \/ BeginAnswer(r) \/ AddAnswer(r)
        BY <4>2 DEF NoticeLeft, Leave, BeginAnswer, AddAnswer
      <4>3. CASE OversizedAnswer(r) \/ StoreFails(r)
        <5>1. /\ Raise(r)
              /\ pc[r] \in {"checking", "listing", "addingUser", "addingAnswer"}
          BY <4>3 DEF OversizedAnswer, StoreFails
        <5>2. /\ screen'[r].shown = screen[r].shown
              /\ screen'[r].replaced = screen[r].replaced
          BY <2>1, <5>1 DEF Raise, Screen, Typed
        <5> QED
          BY <2>2, <5>1, <5>2
      <4>4. CASE Finish(r)
        <5>1. /\ screen'[r].shown = screen[r].shown
              /\ screen'[r].replaced = screen[r].replaced
              /\ pc[r] = "finishing"
          BY <2>1, <4>4 DEF Finish, Goto, Screen, Typed
        <5> QED
          BY <2>2, <5>1
      <4> QED
        BY <4>1, <4>2, <4>3, <4>4
    <3>3. CASE Disconnect(r) \/ Cancel(r) \/ Finalize(r)
      BY <3>3 DEF Disconnect, Cancel, Finalize
    <3> QED
      BY <2>4, <3>1, <3>2, <3>3
  <2> QED
    BY <2>1, <2>3, <2>4, OthersUntouched DEF Next, Clear, Crash, vars
<1> QED
  BY <1>1, InductiveInvariant, PTL DEF Spec, NothingFollowsRetraction

-----------------------------------------------------------------------------
(* The service implements the contract of a turn.                          *)

Phase == [r \in Requests |-> PhaseOf(r)]
Record == {<<m.req, m.role>> : m \in store}
Told == [r \in Requests |-> screen[r].terminal]

\* What a step of one request does to the contract's phase and told.
LEMMA ContractFrame ==
    ASSUME Inductive, NEW r \in Requests,
           \/ Arrive(r) \/ Serve(r) \/ Generate(r) \/ Deadline(r)
           \/ Disconnect(r) \/ Cancel(r) \/ Finalize(r)
    PROVE  /\ Phase' = [Phase EXCEPT ![r] = PhaseOf(r)']
           /\ Told' = [Told EXCEPT ![r] = screen'[r].terminal]
<1>1. \A s \in Requests : s # r => pc'[s] = pc[s] /\ screen'[s] = screen[s]
  BY OthersUntouched DEF Inductive
<1>2. \A s \in Requests : s # r => PhaseOf(s)' = PhaseOf(s)
  BY <1>1 DEF PhaseOf
<1>3. Phase' = [s \in Requests |-> PhaseOf(s)']
  BY DEF Phase
<1>4. Told' = [s \in Requests |-> screen'[s].terminal]
  BY DEF Told
<1> QED
  BY <1>1, <1>2, <1>3, <1>4 DEF Phase, Told

\* A step that keeps phase, rows and terminal event is a stutter.
LEMMA ContractStutter ==
    ASSUME Inductive, NEW r \in Requests,
           \/ Arrive(r) \/ Serve(r) \/ Generate(r) \/ Deadline(r)
           \/ Disconnect(r) \/ Cancel(r) \/ Finalize(r),
           PhaseOf(r)' = PhaseOf(r), store' = store,
           screen'[r].terminal = screen[r].terminal
    PROVE  Phase' = Phase /\ Record' = Record /\ Told' = Told
<1>1. Phase' = Phase /\ Told' = Told
  BY ContractFrame DEF Phase, Told
<1>2. Record' = Record
  BY DEF Record
<1> QED
  BY <1>1, <1>2

LEMMA RecordGrows ==
    ASSUME NEW r \in Requests
    PROVE  /\ store' = store \cup {Question(r)} =>
                 Record' = Record \cup {<<r, "user">>}
           /\ store' = store \cup {Answer(r)} =>
                 Record' = Record \cup {<<r, "assistant">>}
<1>1. Question(r).req = r /\ Question(r).role = "user"
  BY DEF Question
<1>2. Answer(r).req = r /\ Answer(r).role = "assistant"
  BY DEF Answer
<1>3. ASSUME store' = store \cup {Question(r)}
      PROVE  Record' = Record \cup {<<r, "user">>}
  BY <1>1, <1>3 DEF Record
<1>4. ASSUME store' = store \cup {Answer(r)}
      PROVE  Record' = Record \cup {<<r, "assistant">>}
  BY <1>2, <1>4 DEF Record
<1> QED
  BY <1>3, <1>4

ContractVars == <<Phase, Record, Told>>

\* The steps the contract does not see.
LEMMA HiddenStep ==
    ASSUME Inductive, NEW r \in Requests,
           \/ ListHistory(r) \/ CheckClient(r) \/ Prepare(r) \/ Preview(r)
           \/ StartStream(r) \/ AcceptAnswer(r) \/ FallBack(r)
           \/ BeginAnswer(r) \/ BufferChunk(r) \/ FlushChunk(r) \/ Resume(r)
           \/ StreamEndsFlushing(r) \/ StreamEnds(r)
           \/ GenerationTimesOut(r) \/ Disconnect(r) \/ Finalize(r)
    PROVE  UNCHANGED ContractVars
<1>1. /\ screen[r] \in Screen /\ screen \in [Requests -> Screen]
      /\ pc \in [Requests -> Point]
  BY LocalTypes DEF Inductive, Typed
<1>2. store' = store
  BY DEF ListHistory, CheckClient, Prepare, Preview, StartStream,
     AcceptAnswer, FallBack, BeginAnswer, BufferChunk, FlushChunk, Resume,
     StreamEndsFlushing, StreamEnds, GenerationTimesOut, Disconnect, Finalize
<1>3. screen'[r].terminal = screen[r].terminal
  <2>1. CASE Preview(r) \/ FlushChunk(r) \/ StreamEndsFlushing(r) \/ FallBack(r)
    <3>1. CASE Preview(r)
      BY <1>1, <3>1 DEF Preview, Screen
    <3>2. CASE FlushChunk(r)
      <4>1. screen' = [screen EXCEPT ![r].shown = screen[r].shown
                                                  + turn[r].pending + 1]
        BY <3>2 DEF FlushChunk
      <4> QED
        BY <1>1, <4>1 DEF Screen
    <3>3. CASE StreamEndsFlushing(r)
      BY <1>1, <3>3 DEF StreamEndsFlushing, Screen
    <3>4. CASE FallBack(r)
      BY <1>1, <3>4 DEF FallBack, Screen
    <3> QED
      BY <2>1, <3>1, <3>2, <3>3, <3>4
  <2>2. CASE ~(Preview(r) \/ FlushChunk(r) \/ StreamEndsFlushing(r) \/ FallBack(r))
    BY <2>2 DEF ListHistory, CheckClient, Prepare, StartStream,
       AcceptAnswer, BeginAnswer, BufferChunk, Resume,
       StreamEnds, GenerationTimesOut, Disconnect, Finalize
  <2> QED
    BY <2>1, <2>2
<1>4. PhaseOf(r)' = PhaseOf(r)
  <2>1. CASE ListHistory(r)
    BY <1>1, <2>1 DEF ListHistory, Goto, PhaseOf, Ended
  <2>2. CASE CheckClient(r) \/ Prepare(r) \/ StartStream(r) \/ AcceptAnswer(r)
             \/ FallBack(r) \/ BeginAnswer(r)
    BY <1>1, <2>2 DEF CheckClient, Prepare, StartStream, AcceptAnswer,
       FallBack, BeginAnswer, Goto, PhaseOf, Ended
  <2>3. CASE FlushChunk(r)
    BY <1>1, <2>3 DEF FlushChunk, Receives, PhaseOf, Ended
  <2>4. CASE Resume(r) \/ StreamEndsFlushing(r) \/ StreamEnds(r)
             \/ GenerationTimesOut(r)
    BY <1>1, <2>4 DEF Resume, StreamEndsFlushing, StreamEnds,
       GenerationTimesOut, Goto, PhaseOf, Ended
  <2>5. CASE Preview(r) \/ BufferChunk(r) \/ Disconnect(r) \/ Finalize(r)
    BY <2>5 DEF Preview, BufferChunk, Disconnect, Finalize, PhaseOf
  <2> QED
    BY <2>1, <2>2, <2>3, <2>4, <2>5
<1> QED
  BY <1>2, <1>3, <1>4, ContractStutter
     DEF ContractVars, Serve, Generate, Deadline

\* A request that ends in an ErrorEvent.
LEMMA FailStep ==
    ASSUME Inductive, NEW r \in Requests,
           \/ PrepareFails(r) \/ OversizedDelta(r) \/ OversizedAnswer(r)
           \/ ProviderFails(r) \/ StoreFails(r)
    PROVE  Contract!Fail(r)
<1>1. /\ screen \in [Requests -> Screen] /\ pc \in [Requests -> Point]
  BY DEF Inductive, Typed
<1>2. Raise(r)
  BY DEF PrepareFails, OversizedDelta, OversizedAnswer, ProviderFails,
     StoreFails
<1>3. pc'[r] = "failed" /\ screen'[r].terminal = "error"
  BY <1>1, <1>2 DEF Raise, Screen
<1>4. PhaseOf(r)' = "closed"
  BY <1>3 DEF PhaseOf, Ended
<1>5. /\ PhaseOf(r) \in {"open", "asked"}
      /\ \/ Record' = Record
         \/ PhaseOf(r) = "open" /\ Record' = Record \cup {<<r, "user">>}
         \/ PhaseOf(r) = "asked" /\ Record' = Record \cup {<<r, "assistant">>}
  <2>1. CASE StoreFails(r)
    BY <2>1, RecordGrows DEF StoreFails, PhaseOf, Ended, Record
  <2>2. CASE ~StoreFails(r)
    <3>1. store' = store
          /\ pc[r] \in {"preparing", "reading", "checking"}
      BY <2>2 DEF PrepareFails, OversizedDelta, OversizedAnswer,
         ProviderFails, Receives
    <3> QED
      BY <3>1 DEF PhaseOf, Ended, Record
  <2> QED
    BY <2>1, <2>2
<1>6. /\ Phase' = [Phase EXCEPT ![r] = "closed"]
      /\ Told' = [Told EXCEPT ![r] = "error"]
  BY <1>3, <1>4, ContractFrame DEF Serve, Generate
<1>7. Phase[r] = PhaseOf(r)
  BY DEF Phase
<1> QED
  BY <1>5, <1>6, <1>7
     DEF Contract!Fail, Contract!MayWrite, Phase, Record, Told

\* A request that ends without telling its client.
LEMMA AbandonStep ==
    ASSUME Inductive, NEW r \in Requests,
           \/ NoticeLeft(r) \/ ChunkAfterLeft(r) \/ Cancel(r)
           \/ DeadlineWhileSending(r)
    PROVE  Contract!Abandon(r)
<1>1. /\ screen \in [Requests -> Screen] /\ pc \in [Requests -> Point]
  BY DEF Inductive, Typed
<1>2. pc'[r] \in {"left", "cut"} /\ screen' = screen
  BY <1>1 DEF NoticeLeft, ChunkAfterLeft, Leave, Cancel, DeadlineWhileSending
<1>3. PhaseOf(r)' = "closed"
  BY <1>2 DEF PhaseOf, Ended
<1>4. /\ PhaseOf(r) \in {"open", "asked", "answered"}
      /\ \/ Record' = Record
         \/ PhaseOf(r) = "open" /\ Record' = Record \cup {<<r, "user">>}
         \/ PhaseOf(r) = "asked" /\ Record' = Record \cup {<<r, "assistant">>}
  <2>1. CASE Cancel(r)
    <3>1. PhaseOf(r) \in {"open", "asked", "answered"}
      BY <1>1, <2>1 DEF Cancel, Active, PhaseOf, Ended, Point
    <3>2. CASE store' = store
      BY <3>1, <3>2 DEF Record
    <3>3. CASE pc[r] = "addingUser" /\ store' = store \cup {Question(r)}
      BY <3>1, <3>3, RecordGrows DEF PhaseOf, Ended
    <3>4. CASE pc[r] = "addingAnswer" /\ store' = store \cup {Answer(r)}
      BY <3>1, <3>4, RecordGrows DEF PhaseOf, Ended
    <3> QED
      BY <2>1, <3>2, <3>3, <3>4 DEF Cancel
  <2>2. CASE ~Cancel(r)
    <3>1. store' = store
          /\ pc[r] \in {"understanding", "retrieving", "checking",
                        "previewing", "reading", "sending", "sendingLast"}
      BY <2>2 DEF NoticeLeft, ChunkAfterLeft, Leave, DeadlineWhileSending
    <3> QED
      BY <3>1 DEF PhaseOf, Ended, Record
  <2> QED
    BY <2>1, <2>2
<1>5. /\ Phase' = [Phase EXCEPT ![r] = "closed"]
      /\ Told' = Told
  BY <1>2, <1>3, ContractFrame DEF Serve, Generate, Deadline, Told
<1>6. Phase[r] = PhaseOf(r)
  BY DEF Phase
<1> QED
  BY <1>4, <1>5, <1>6
     DEF Contract!Abandon, Contract!MayWrite, Phase, Record, Told

LEMMA ContractStep ==
    ASSUME Inductive, NEW r \in Requests,
           \/ Arrive(r) \/ Serve(r) \/ Generate(r) \/ Deadline(r)
           \/ Disconnect(r) \/ Cancel(r) \/ Finalize(r)
    PROVE  \/ Contract!Open(r) \/ Contract!Ask(r) \/ Contract!Reply(r)
           \/ Contract!Announce(r) \/ Contract!Fail(r) \/ Contract!Abandon(r)
           \/ UNCHANGED ContractVars
<1>1. /\ screen[r] \in Screen /\ screen \in [Requests -> Screen]
      /\ pc \in [Requests -> Point]
  BY LocalTypes DEF Inductive, Typed
<1>2. Phase[r] = PhaseOf(r)
  BY DEF Phase
<1>3. CASE Arrive(r)
  <2>1. PhaseOf(r) = "waiting" /\ PhaseOf(r)' = "open"
    BY <1>1, <1>3 DEF Arrive, Goto, PhaseOf, Ended
  <2>2. Record' = Record /\ Told' = Told
    BY <1>3 DEF Arrive, Record, Told
  <2>3. Contract!Open(r)
    BY <1>2, <1>3, <2>1, <2>2, ContractFrame
       DEF Contract!Open, Contract!Moves, Phase, Record, Told
  <2> QED
    BY <2>3
<1>4. CASE AddUser(r)
  <2>1. PhaseOf(r) = "open" /\ PhaseOf(r)' = "asked"
    BY <1>1, <1>4 DEF AddUser, Goto, PhaseOf, Ended
  <2>2. Record' = Record \cup {<<r, "user">>} /\ Told' = Told
    BY <1>4, RecordGrows DEF AddUser, Told
  <2>3. Contract!Ask(r)
    BY <1>2, <1>4, <2>1, <2>2, ContractFrame
       DEF Serve, Contract!Ask, Contract!Moves, Phase, Record, Told
  <2> QED
    BY <2>3
<1>5. CASE AddAnswer(r)
  <2>1. PhaseOf(r) = "asked" /\ PhaseOf(r)' = "answered"
    BY <1>1, <1>5 DEF AddAnswer, Goto, PhaseOf, Ended
  <2>2. Record' = Record \cup {<<r, "assistant">>} /\ Told' = Told
    BY <1>5, RecordGrows DEF AddAnswer, Told
  <2>3. Contract!Reply(r)
    BY <1>2, <1>5, <2>1, <2>2, ContractFrame
       DEF Serve, Contract!Reply, Contract!Moves, Phase, Record, Told
  <2> QED
    BY <2>3
<1>6. CASE Finish(r)
  <2>1. PhaseOf(r) = "answered" /\ PhaseOf(r)' = "closed"
    BY <1>1, <1>6 DEF Finish, Goto, PhaseOf, Ended
  <2>2. Record' = Record /\ screen'[r].terminal = "final"
    BY <1>1, <1>6 DEF Finish, Record, Screen
  <2>3. Contract!Announce(r)
    BY <1>2, <1>6, <2>1, <2>2, ContractFrame
       DEF Serve, Contract!Announce, Contract!Moves, Phase, Record, Told
  <2> QED
    BY <2>3
<1>7. CASE \/ PrepareFails(r) \/ OversizedDelta(r) \/ OversizedAnswer(r)
           \/ ProviderFails(r) \/ StoreFails(r)
  BY <1>7, FailStep
<1>8. CASE \/ NoticeLeft(r) \/ ChunkAfterLeft(r) \/ Cancel(r)
           \/ DeadlineWhileSending(r)
  BY <1>8, AbandonStep
<1>9. CASE \/ ListHistory(r) \/ CheckClient(r) \/ Prepare(r) \/ Preview(r)
           \/ StartStream(r) \/ AcceptAnswer(r) \/ FallBack(r)
           \/ BeginAnswer(r) \/ BufferChunk(r) \/ FlushChunk(r) \/ Resume(r)
           \/ StreamEndsFlushing(r) \/ StreamEnds(r)
           \/ GenerationTimesOut(r) \/ Disconnect(r) \/ Finalize(r)
  BY <1>9, HiddenStep
<1> QED
  BY <1>3, <1>4, <1>5, <1>6, <1>7, <1>8, <1>9
     DEF Serve, Generate, Deadline

\* A clear of a conversation forgets the records of its turns, no others.
LEMMA ForgetStep ==
    ASSUME NEW c \in Conversations, Clear(c)
    PROVE  Contract!Forget(c)
<1>1. Phase' = Phase /\ Told' = Told
  BY DEF Clear, Phase, Told, PhaseOf
<1>2. Record' = {entry \in Record : ConversationOf[entry[1]] # c}
  BY DEF Clear, Record
<1> QED
  BY <1>1, <1>2 DEF Contract!Forget, Phase, Record, Told

\* A crash closes every turn under way.
LEMMA CrashStep ==
    ASSUME Inductive, Crash
    PROVE  Contract!AbandonAll
<1>1. pc \in [Requests -> Point]
  BY DEF Inductive, Typed
<1>2. \A r \in Requests :
         PhaseOf(r)' = IF PhaseOf(r) = "waiting" THEN "waiting" ELSE "closed"
  <2> SUFFICES ASSUME NEW r \in Requests
               PROVE  PhaseOf(r)' = IF PhaseOf(r) = "waiting"
                                    THEN "waiting" ELSE "closed"
    OBVIOUS
  <2>1. CASE Active(r)
    <3>1. pc'[r] = "crashed" /\ pc[r] # "idle"
      BY <1>1, <2>1 DEF Crash, Active
    <3> QED
      BY <3>1 DEF PhaseOf, Ended
  <2>2. CASE ~Active(r)
    <3>1. pc'[r] = pc[r] /\ pc[r] \in {"idle"} \cup Ended
      BY <1>1, <2>2 DEF Crash, Active
    <3> QED
      BY <3>1 DEF PhaseOf, Ended
  <2> QED
    BY <2>1, <2>2
<1>3. Phase' = [r \in Requests |->
                  IF Phase[r] = "waiting" THEN "waiting" ELSE "closed"]
  BY <1>2 DEF Phase
<1>4. Record' = Record /\ Told' = Told
  BY DEF Crash, Record, Told
<1> QED
  BY <1>3, <1>4 DEF Contract!AbandonAll, Phase, Record, Told

\* The streaming service implements the contract of a turn: whatever the
\* interleaving of requests, disconnects, timeouts, clears and crashes, a
\* question is recorded before its turn is worked on, an answer at most once
\* and after it, and a client is told of an answer once it is recorded.
\* (service.py:118-239)
THEOREM Implements == Spec => ImplementsTurnContract
<1>1. Init => Contract!Init
  <2> SUFFICES ASSUME Init PROVE Contract!Init
    OBVIOUS
  <2>1. Phase = [r \in Requests |-> "waiting"]
    <3>1. \A r \in Requests : pc[r] = "idle"
      BY DEF Init
    <3>2. \A r \in Requests : PhaseOf(r) = "waiting"
      BY <3>1 DEF PhaseOf, Ended
    <3> QED
      BY <3>2 DEF Phase
  <2>2. Record = {}
    BY DEF Init, Record
  <2>3. Told = [r \in Requests |-> "none"]
    BY DEF Init, Told, EmptyScreen
  <2> QED
    BY <2>1, <2>2, <2>3 DEF Contract!Init, Phase, Record, Told
<1>2. Inductive /\ [Next]_vars => [Contract!Next]_(Contract!vars)
  <2> SUFFICES ASSUME Inductive, [Next]_vars
               PROVE  Contract!Next \/ UNCHANGED ContractVars
    BY DEF Contract!vars, ContractVars, Phase, Record, Told
  <2>1. CASE UNCHANGED vars
    BY <2>1 DEF vars, ContractVars, Phase, Record, Told, PhaseOf
  <2>2. ASSUME NEW r \in Requests,
               \/ Arrive(r) \/ Serve(r) \/ Generate(r) \/ Deadline(r)
               \/ Disconnect(r) \/ Cancel(r) \/ Finalize(r)
        PROVE  Contract!Next \/ UNCHANGED ContractVars
    BY <2>2, ContractStep DEF Contract!Next
  <2>3. ASSUME NEW c \in Conversations, Clear(c)
        PROVE  Contract!Next
    BY <2>3, ForgetStep DEF Contract!Next
  <2>4. CASE Crash
    BY <2>4, CrashStep DEF Contract!Next
  <2> QED
    BY <2>1, <2>2, <2>3, <2>4 DEF Next
<1> QED
  BY <1>1, <1>2, InductiveInvariant, PTL
     DEF Spec, ImplementsTurnContract, Contract!Spec
=============================================================================
