------------------------------ MODULE WebChat ------------------------------
(***************************************************************************)
(* The chat page (apps/web/src/features/chat/chat-page.tsx, chat-api.ts)   *)
(* talking to the chat API over a wire with delay.                         *)
(*                                                                         *)
(* The page keeps its turns, one status, one abort controller and one      *)
(* conversation id; each submit() is a coroutine that outlives New chat,   *)
(* Clear and the restoring of the history.  The API is what TurnContract   *)
(* promises, with the order of rows: a row is placed in a conversation by  *)
(* the time it is built (created_at), not by the time it is committed.     *)
(* The turns on the screen are a set: nothing depends on their order.      *)
(***************************************************************************)
EXTENDS Naturals, Sequences, FiniteSets, Functions

CONSTANTS
    Streams,         \* submits, each with the turn and the request it makes
    Conversations,   \* bound: conversation ids the page may generate
    First,           \* the id found in localStorage
    None,            \* no stream, no conversation
    MaxGestures      \* bound: uses of Stop, New chat, Clear and leaving

ASSUME PageAssumption ==
    /\ First \in Conversations /\ None \notin Streams \cup Conversations
    /\ MaxGestures \in Nat

VARIABLES
    page,      \* the component's state and refs
    restore,   \* the history request of the page's mount
    clear,     \* the DELETE request of the page
    calls,     \* each submit(): where it stands, and its conversation
    wire,      \* the events of each response not yet read
    server,    \* what the API is doing for each request
    log,       \* the messages in the order they were built
    saved,     \* those that are stored
    told,      \* history: streams whose final event the page has read
    lost,      \* history: streams a clear ran into or deleted
    overlap,   \* history: conversations that had two requests at once
    restarted, \* history: a new chat began with something under way
    gestures   \* uses of those so far

vars == <<page, restore, clear, calls, wire, server, log, saved, told, lost,
          overlap, restarted, gestures>>

-----------------------------------------------------------------------------
Text == {"none", "streamed", "fallback", "stopped"}
Row  == [id : Streams, role : {"user", "assistant"}, text : Text]

\* A turn on the screen: its question's stream, its answer's, and the text.
ShownTurn == [id : Streams, from : Streams \cup {None}, text : Text]

Blank(s) == [id |-> s, from |-> None, text |-> "none"]

ConversationOf(s) == calls[s].conv

\* The places of the stored messages of a conversation.
Rows(c) == {i \in DOMAIN log : log[i] \in saved /\ ConversationOf(log[i].id) = c}

Asked(rows) == {i \in rows : log[i].role = "user"}
Replies(rows) == {i \in rows : log[i].role = "assistant"}

\* The turn that shows the message at i answered by that at j.
Turn(i, j) == [id |-> log[i].id, from |-> log[j].id, text |-> log[j].text]

\* Mutant: the n-th answer goes to the n-th question.
pairByPosition(rows) ==
    LET nth(i, S) == Cardinality({k \in S : k <= i})
    IN  {IF \E j \in Replies(rows) : nth(j, Replies(rows)) = nth(i, Asked(rows))
         THEN Turn(i, CHOOSE j \in Replies(rows) :
                          nth(j, Replies(rows)) = nth(i, Asked(rows)))
         ELSE Blank(log[i].id) : i \in Asked(rows)}

\* The replies that come after a question and before the next one.
RepliesTo(i, rows) ==
    {j \in Replies(rows) : j > i /\ \A k \in Asked(rows) : k <= i \/ k > j}

\* historyToTurns: of the replies to a question the last one is shown.
historyToTurns(rows) ==
    {IF RepliesTo(i, rows) = {} THEN Blank(log[i].id)
     ELSE Turn(i, CHOOSE j \in RepliesTo(i, rows) :
                      \A l \in RepliesTo(i, rows) : l <= j) : i \in Asked(rows)}

Busy == page.status = "busy"

Gesture == gestures < MaxGestures /\ gestures' = gestures + 1
Running == {s \in Streams : calls[s].state = "attached"}

\* Requests the API is still working on.
Working(s) == server[s] \in {"asking", "working", "replying", "replied"}

Init ==
    /\ page = [conv |-> First, turns |-> {}, status |-> "loading",
               stop |-> None]
    /\ restore = [state |-> "asked", conv |-> First, turns |-> {}]
    /\ clear = [state |-> "none", conv |-> None]
    /\ calls = [s \in Streams |-> [state |-> "unused", conv |-> None]]
    /\ wire = [s \in Streams |-> <<>>]
    /\ server = [s \in Streams |-> "none"]
    /\ log = <<>> /\ saved = {}
    /\ told = {} /\ lost = {} /\ overlap = {}
    /\ restarted = FALSE
    /\ gestures = 0

-----------------------------------------------------------------------------
(* The page.                                                               *)

\* Mutant: the controller is not kept for the Stop button.
SubmitUncontrolled(s) ==
    /\ page.status \notin {"busy", "loading"}
    /\ calls[s].state = "unused"
    /\ calls' = [calls EXCEPT ![s] = [state |-> "attached", conv |-> page.conv]]
    /\ page' = [page EXCEPT !.turns = @ \cup {Blank(s)}, !.status = "busy"]
    /\ UNCHANGED <<restore, clear, wire, server, log, saved, told, lost,
                   overlap, restarted, gestures>>

Submit(s) ==
    /\ page.status \notin {"busy", "loading"}
    /\ calls[s].state = "unused"
    /\ calls' = [calls EXCEPT ![s] = [state |-> "attached", conv |-> page.conv]]
    /\ page' = [page EXCEPT !.turns = @ \cup {Blank(s)}, !.status = "busy",
                            !.stop = s]
    /\ UNCHANGED <<restore, clear, wire, server, log, saved, told, lost,
                   overlap, restarted, gestures>>

\* setTurns maps over the turns on the screen by id, wherever they are.
Rewrite(s, text) ==
    {IF t.id = s THEN [id |-> s, from |-> s, text |-> text] ELSE t : t \in page.turns}

\* What ends a submit(): its catch clause sets the status and perhaps the
\* turn, its finally clause resets the controller, whoever's it is by now.
\* What the response still holds is never read.
EndCall(s, status, turns) ==
    /\ calls' = [calls EXCEPT ![s].state = "over"]
    /\ wire' = [wire EXCEPT ![s] = <<>>]
    /\ page' = [page EXCEPT !.status = status, !.turns = turns, !.stop = None]

\* streamChatMessage reads the next event of the response.
Read(s) ==
    /\ calls[s].state = "attached" /\ wire[s] # <<>>
    /\ wire' = [wire EXCEPT ![s] = Tail(@)]
    /\ \/ /\ Head(wire[s]) = "status"
          /\ page' = [page EXCEPT !.status = "busy"]
          /\ UNCHANGED told
       \/ /\ Head(wire[s]) = "text_delta"
          /\ page' = [page EXCEPT !.turns = Rewrite(s, "streamed")]
          /\ UNCHANGED told
       \/ /\ Head(wire[s]) = "text_replace"
          /\ page' = [page EXCEPT !.turns = Rewrite(s, "fallback")]
          /\ UNCHANGED told
       \/ /\ Head(wire[s]) = "final"
          /\ told' = told \cup {s}
          /\ UNCHANGED page
    /\ UNCHANGED <<restore, clear, calls, server, log, saved, lost, overlap,
                   restarted, gestures>>

\* The response says error or is at its end: an error unless the final event
\* was read.
ReadEnd(s) ==
    /\ calls[s].state = "attached" /\ wire[s] = <<>> /\ server[s] = "over"
    /\ EndCall(s, IF s \in told THEN "idle" ELSE "error", page.turns)
    /\ UNCHANGED <<restore, clear, server, log, saved, told, lost, overlap,
                   restarted, gestures>>

\* The connection breaks, or the request never reaches the API.
ConnectionFails(s) ==
    /\ calls[s].state = "attached"
    /\ EndCall(s, "error", page.turns)
    /\ UNCHANGED <<restore, clear, server, log, saved, told, lost, overlap,
                   restarted, gestures>>

Stopped(s) ==
    {IF t.id = s /\ t.text = "none"
     THEN [id |-> s, from |-> s, text |-> "stopped"] ELSE t : t \in page.turns}

Stop ==
    /\ Gesture
    /\ Busy /\ page.stop # None
    /\ EndCall(page.stop, "idle", Stopped(page.stop))
    /\ UNCHANGED <<restore, clear, server, log, saved, told, lost, overlap,
                   restarted>>

\* crypto.randomUUID(): an id that nothing refers to.
Fresh == {c \in Conversations \ {First, page.conv, restore.conv, clear.conv} :
             \A s \in Streams : calls[s].conv # c}

\* Mutant: the id is removed and the next one left to a reload.
newConversationUnnamed ==
    /\ page' = [page EXCEPT !.conv = None, !.turns = {}, !.status = "idle"]
    /\ restarted' = (restarted \/ Running # {} \/ restore.state # "none")

\* newConversation(): from the header's button, or after a clear.  The
\* coroutines under way and the pending restore are left as they are.
newConversation ==
    /\ \E c \in Fresh :
          page' = [page EXCEPT !.conv = c, !.turns = {}, !.status = "idle"]
    /\ restarted' = (restarted \/ Running # {} \/ restore.state # "none")

NewChat ==
    /\ Gesture
    /\ newConversation
    /\ UNCHANGED <<restore, clear, calls, wire, server, log, saved, told,
                   lost, overlap>>

RestoreArrives ==
    /\ restore.state = "answered"
    /\ page' = [page EXCEPT !.turns = restore.turns, !.status = "idle"]
    /\ restore' = [restore EXCEPT !.state = "none", !.turns = {}]
    /\ UNCHANGED <<clear, calls, wire, server, log, saved, told, lost,
                   overlap, restarted, gestures>>

RestoreFails ==
    /\ restore.state \in {"asked", "answered"}
    /\ page' = [page EXCEPT !.status = "idle"]
    /\ restore' = [restore EXCEPT !.state = "none", !.turns = {}]
    /\ UNCHANGED <<clear, calls, wire, server, log, saved, told, lost,
                   overlap, restarted, gestures>>

clearConversation ==
    /\ Gesture
    /\ ~Busy /\ clear.state = "none" /\ page.turns # {}
    /\ clear' = [state |-> "asked", conv |-> page.conv]
    /\ UNCHANGED <<page, restore, calls, wire, server, log, saved, told,
                   lost, overlap, restarted>>

ClearAnswered ==
    /\ clear.state = "done"
    /\ clear' = [clear EXCEPT !.state = "none"]
    /\ newConversation
    /\ UNCHANGED <<restore, calls, wire, server, log, saved, told, lost,
                   overlap, gestures>>

ClearFails ==
    /\ clear.state \in {"asked", "done"}
    /\ clear' = [clear EXCEPT !.state = "none"]
    /\ UNCHANGED <<page, restore, calls, wire, server, log, saved, told,
                   lost, overlap, restarted, gestures>>

\* The page is left and opened again: unmounting aborts the controller's
\* stream; the others run on with nowhere to write.
Remount ==
    /\ Gesture
    /\ clear.state = "none"
    /\ page' = [page EXCEPT !.turns = {}, !.status = "loading", !.stop = None]
    /\ calls' = [s \in Streams |->
                   IF s \in Running THEN [calls[s] EXCEPT !.state = "over"]
                   ELSE calls[s]]
    /\ wire' = [s \in Streams |-> IF s \in Running THEN <<>> ELSE wire[s]]
    /\ restore' = [state |-> "asked", conv |-> page.conv, turns |-> {}]
    /\ UNCHANGED <<clear, server, log, saved, told, lost, overlap,
                   restarted>>
-----------------------------------------------------------------------------
(* The API.                                                                *)

\* An event reaches the wire while its reader is there.
Sends(s, events) ==
    wire' = IF calls[s].state = "attached"
            THEN [wire EXCEPT ![s] = @ \o events] ELSE wire

Build(s, role, text) ==
    log' = Append(log, [id |-> s, role |-> role, text |-> text])

LastOf(s) == CHOOSE m \in Range(log) :
                m.id = s /\ (server[s] = "replying" <=> m.role = "assistant")

\* The request arrives, even from a page that has given it up since.
Ask(s) ==
    /\ calls[s].state # "unused" /\ server[s] = "none"
    /\ server' = [server EXCEPT ![s] = "asking"]
    /\ Build(s, "user", "none")
    /\ overlap' = IF \E t \in Streams : Working(t)
                        /\ ConversationOf(t) = ConversationOf(s)
                  THEN overlap \cup {ConversationOf(s)} ELSE overlap
    /\ UNCHANGED <<page, restore, clear, calls, wire, saved, told, lost,
                   restarted, gestures>>

SaveQuestion(s) ==
    /\ server[s] = "asking"
    /\ server' = [server EXCEPT ![s] = "working"]
    /\ saved' = saved \cup {LastOf(s)}
    /\ Sends(s, <<"status">>)
    /\ UNCHANGED <<page, restore, clear, calls, log, told, lost, overlap,
                   restarted, gestures>>

\* Validated text, or a fallback that replaces whatever was shown.
Decide(s) ==
    /\ server[s] = "working"
    /\ server' = [server EXCEPT ![s] = "replying"]
    /\ \/ Sends(s, <<"text_delta">>) /\ Build(s, "assistant", "streamed")
       \/ /\ Sends(s, <<"text_delta", "text_replace">>)
          /\ Build(s, "assistant", "fallback")
    /\ UNCHANGED <<page, restore, clear, calls, saved, told, lost, overlap,
                   restarted, gestures>>

SaveAnswer(s) ==
    /\ server[s] = "replying"
    /\ server' = [server EXCEPT ![s] = "replied"]
    /\ saved' = saved \cup {LastOf(s)}
    /\ UNCHANGED <<page, restore, clear, calls, wire, log, told, lost,
                   overlap, restarted, gestures>>

\* Mutant: the final event does not wait for the commit.
AnnounceEarly(s) ==
    /\ server[s] = "replying"
    /\ server' = [server EXCEPT ![s] = "over"]
    /\ Sends(s, <<"final">>)
    /\ UNCHANGED <<page, restore, clear, calls, log, saved, told, lost,
                   overlap, restarted, gestures>>

Announce(s) ==
    /\ server[s] = "replied"
    /\ server' = [server EXCEPT ![s] = "over"]
    /\ Sends(s, <<"final">>)
    /\ UNCHANGED <<page, restore, clear, calls, log, saved, told, lost,
                   overlap, restarted, gestures>>

\* The request fails with an error event, or is cut off or abandoned without
\* a word; a commit under way may have taken effect, provisional text may
\* have been sent.
GiveUp(s) ==
    /\ Working(s)
    /\ server' = [server EXCEPT ![s] = "over"]
    /\ \/ Sends(s, <<>>)
       \/ server[s] = "working" /\ Sends(s, <<"text_delta">>)
    /\ \/ UNCHANGED saved
       \/ server[s] \in {"asking", "replying"} /\ saved' = saved \cup {LastOf(s)}
    /\ UNCHANGED <<page, restore, clear, calls, log, told, lost, overlap,
                   restarted, gestures>>

ServeHistory ==
    /\ restore.state = "asked"
    /\ restore' = [restore EXCEPT !.state = "answered",
                                  !.turns = historyToTurns(Rows(restore.conv))]
    /\ UNCHANGED <<page, clear, calls, wire, server, log, saved, told, lost,
                   overlap, restarted, gestures>>

ServeClear ==
    /\ clear.state = "asked"
    /\ clear' = [clear EXCEPT !.state = "done"]
    /\ saved' = {m \in saved : ConversationOf(m.id) # clear.conv}
    /\ lost' = lost \cup {s \in Streams : ConversationOf(s) = clear.conv}
    /\ UNCHANGED <<page, restore, calls, wire, server, log, told, overlap,
                   restarted, gestures>>

-----------------------------------------------------------------------------
Next ==
    \/ \E s \in Streams :
          \/ Submit(s) \/ Read(s) \/ ReadEnd(s) \/ ConnectionFails(s)
          \/ Ask(s) \/ SaveQuestion(s) \/ Decide(s) \/ SaveAnswer(s)
          \/ Announce(s) \/ GiveUp(s)
    \/ Stop \/ NewChat \/ RestoreArrives \/ RestoreFails
    \/ clearConversation \/ ClearAnswered \/ ClearFails \/ Remount
    \/ ServeHistory \/ ServeClear

Spec == Init /\ [][Next]_vars

-----------------------------------------------------------------------------
(* Properties.                                                             *)

\* Every variable has its type.
TypeOK ==
    /\ page \in [conv : Conversations, turns : SUBSET ShownTurn,
                 status : {"idle", "loading", "busy", "error"},
                 stop : Streams \cup {None}]
    /\ restore \in [state : {"none", "asked", "answered"}, conv : Conversations,
                    turns : SUBSET ShownTurn]
    /\ clear \in [state : {"none", "asked", "done"},
                  conv : Conversations \cup {None}]
    /\ calls \in [Streams -> [state : {"unused", "attached", "over"},
                              conv : Conversations \cup {None}]]
    /\ wire \in [Streams -> Seq({"status", "text_delta", "text_replace", "final"})]
    /\ server \in [Streams -> {"none", "asking", "working", "replying",
                               "replied", "over"}]
    /\ log \in Seq(Row) /\ saved \subseteq Range(log)
    /\ told \subseteq Streams /\ lost \subseteq Streams
    /\ overlap \subseteq Conversations
    /\ restarted \in BOOLEAN /\ gestures \in 0..MaxGestures

\* Live or restored, after stops, failures, clears and reopened pages, an
\* answer on the screen belongs to the question above it, unless two
\* requests of the conversation were at the API at the same time.
\* (chat-page.tsx:108-118 pairs rows by position; repository.py:92 orders
\* them by the time they were built)
AnswersStayWithTheirQuestion ==
    LET reopened == {historyToTurns(Rows(c)) : c \in Conversations \ overlap}
    IN  \A t \in page.turns \cup UNION reopened :
            ConversationOf(t.id) \notin overlap => t.from \in {None, t.id}

\* What a completed turn shows is what opening the page again would show,
\* unless it was cleared or two requests overlapped.
\* (chat-page.tsx:108-118 and 221-224 against service.py:206-228)
CompletedTurnsSurviveReload ==
    \A t \in page.turns :
        ( /\ t.id \in told
          /\ t.id \notin lost
          /\ ConversationOf(t.id) \notin overlap ) =>
            t \in historyToTurns(Rows(ConversationOf(t.id)))

\* The page is busy exactly while its one stream is, and Stop reaches that
\* stream, unless a new chat began while something was under way.
\* (chat-page.tsx:143, 201, 204, 226-236, 273)
BusyMeansStoppable ==
    ~restarted =>
        /\ Busy <=> Running # {}
        /\ Running # {} => Running = {page.stop}

\* The documented promise: GET "restores the actor-scoped visible
\* conversation" (README.md:308).  What the page shows is then part of the
\* conversation it writes to.
ShowsItsOwnConversation ==
    \A t \in page.turns : ConversationOf(t.id) = page.conv
=============================================================================
