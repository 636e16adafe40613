---------------------------- MODULE TurnContract ----------------------------
(***************************************************************************)
(* What the chat API promises about a turn, without streaming, coalescing, *)
(* validation or deadlines: a question is recorded before it is worked on, *)
(* an answer is recorded at most once and only after its question, and the *)
(* client is told of an answer only once it is recorded.  ChatStream       *)
(* implements this specification.                                          *)
(***************************************************************************)
EXTENDS Integers

CONSTANTS
    Turns,      \* questions put to the API
    Threads,    \* conversations
    ThreadOf    \* the conversation of each turn

VARIABLES
    phase,    \* how far each turn has come
    record,   \* the durable entries: a turn's question and its answer
    told      \* how the client was told the turn ended

vars == <<phase, record, told>>

Init ==
    /\ phase = [t \in Turns |-> "waiting"]
    /\ record = {}
    /\ told = [t \in Turns |-> "none"]

Moves(t, from, to) == phase[t] = from /\ phase' = [phase EXCEPT ![t] = to]

Open(t) == Moves(t, "waiting", "open") /\ UNCHANGED <<record, told>>

Ask(t) ==
    /\ Moves(t, "open", "asked")
    /\ record' = record \cup {<<t, "user">>}
    /\ UNCHANGED told

Reply(t) ==
    /\ Moves(t, "asked", "answered")
    /\ record' = record \cup {<<t, "assistant">>}
    /\ UNCHANGED told

Announce(t) ==
    /\ Moves(t, "answered", "closed")
    /\ told' = [told EXCEPT ![t] = "final"]
    /\ UNCHANGED record

\* A write under way when a turn is given up may or may not take effect.
MayWrite(t) ==
    \/ record' = record
    \/ phase[t] = "open" /\ record' = record \cup {<<t, "user">>}
    \/ phase[t] = "asked" /\ record' = record \cup {<<t, "assistant">>}

Fail(t) ==
    /\ phase[t] \in {"open", "asked"}
    /\ phase' = [phase EXCEPT ![t] = "closed"]
    /\ told' = [told EXCEPT ![t] = "error"]
    /\ MayWrite(t)

Abandon(t) ==
    /\ phase[t] \in {"open", "asked", "answered"}
    /\ phase' = [phase EXCEPT ![t] = "closed"]
    /\ MayWrite(t)
    /\ UNCHANGED told

AbandonAll ==
    /\ phase' = [t \in Turns |->
                   IF phase[t] = "waiting" THEN "waiting" ELSE "closed"]
    /\ UNCHANGED <<record, told>>

Forget(k) ==
    /\ record' = {entry \in record : ThreadOf[entry[1]] # k}
    /\ UNCHANGED <<phase, told>>

Next ==
    \/ \E t \in Turns :
          Open(t) \/ Ask(t) \/ Reply(t) \/ Announce(t) \/ Fail(t) \/ Abandon(t)
    \/ AbandonAll
    \/ \E k \in Threads : Forget(k)

Spec == Init /\ [][Next]_vars
=============================================================================
