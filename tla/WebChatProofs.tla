---------------------------- MODULE WebChatProofs ----------------------------
(***************************************************************************)
(* Theorems about WebChat, for any numbers of submits, conversations and   *)
(* gestures.                                                               *)
(***************************************************************************)
EXTENDS WebChat, SetInduction, TLAPS

QuestionOf(s) == [id |-> s, role |-> "user", text |-> "none"]

IsReply(m, s) == m.id = s /\ m.role = "assistant"
HasReply(s) == \E i \in DOMAIN log : IsReply(log[i], s)

Says(s, event) == \E i \in DOMAIN wire[s] : wire[s][i] = event

\* Every message of s that was built is stored.
Stored(s) == \A i \in DOMAIN log : log[i].id = s => log[i] \in saved

\* A turn shows what the API decided.
Shows(t) ==
    \A i \in DOMAIN log : IsReply(log[i], t.id) =>
        t = [id |-> t.id, from |-> t.id, text |-> log[i].text]

Together(i, j) == ConversationOf(log[i].id) = ConversationOf(log[j].id)
Overlapped(i) == ConversationOf(log[i].id) \in overlap

\* A submit has a conversation from its first step on, before its request,
\* and the controller is that of a submit under way.
CallsInv ==
    /\ \A s \in Streams :
          /\ calls[s].state = "unused" <=> calls[s].conv = None
          /\ server[s] # "none" => calls[s].state # "unused"
    /\ page.stop # None => calls[page.stop].state = "attached"

\* Each request builds a question, then at most one reply.
LogInv ==
    /\ \A i, j \in DOMAIN log :
          log[i].id = log[j].id /\ log[i].role = log[j].role => i = j
    /\ \A i \in DOMAIN log :
          /\ server[log[i].id] # "none"
          /\ log[i].role = "user" => log[i].text = "none"
          /\ log[i].role = "assistant" =>
                /\ log[i].text \in {"streamed", "fallback"}
                /\ server[log[i].id] \in {"replying", "replied", "over"}
                /\ \E k \in 1..i - 1 : log[k] = QuestionOf(log[i].id)
    /\ \A s \in Streams :
          /\ Working(s) => \E i \in DOMAIN log : log[i] = QuestionOf(s)
          /\ server[s] \in {"replying", "replied"} => HasReply(s)

\* The messages of two requests of a conversation are not mixed, unless they
\* overlapped: what was built last is of the request at work.
OrderInv ==
    /\ \A i, j \in DOMAIN log :
          i < j /\ Together(i, j) /\ Working(log[i].id) =>
             log[j].id = log[i].id \/ Overlapped(i)
    /\ \A i, j, k \in DOMAIN log :
          i < j /\ j < k /\ log[i].id = log[k].id /\ Together(i, j) =>
             log[j].id = log[i].id \/ Overlapped(i)

\* A question that was deleted while its request was at work took all before
\* it along: its reply has no question to be shown under.
OrphanInv ==
    \A i, k \in DOMAIN log :
        /\ i <= k /\ Together(i, k) /\ ~Overlapped(k)
        /\ log[k].role = "user" /\ log[k] \notin saved
        /\ server[log[k].id] = "working" \/ HasReply(log[k].id)
        => log[i] \notin saved

\* What is announced is stored, unless it was deleted.
SavedInv ==
    \A s \in Streams :
        /\ Says(s, "final") \/ s \in told => server[s] = "over" /\ HasReply(s)
        /\ s \notin lost =>
              /\ server[s] \in {"working", "replied"} => Stored(s)
              /\ server[s] = "replying" => QuestionOf(s) \in saved
              /\ Says(s, "final") \/ s \in told => Stored(s)

\* The final event is the last, and a replacement comes after the text.
WireInv ==
    \A s \in Streams :
        /\ \A i, j \in DOMAIN wire[s] : i < j =>
              /\ wire[s][i] # "final"
              /\ wire[s][i] = "text_replace" => wire[s][j] # "text_delta"
        /\ server[s] \in {"none", "asking"} => wire[s] = <<>>
        /\ server[s] = "working" =>
              ~Says(s, "text_delta") /\ ~Says(s, "text_replace")
        /\ s \in told => wire[s] = <<>>

\* The turn shows what was decided, once the page has read it.
TextInv ==
    \A s \in Streams : calls[s].state = "attached" =>
        \A i \in DOMAIN log : IsReply(log[i], s) =>
            \/ Says(s, "text_replace") /\ log[i].text = "fallback"
            \/ /\ ~Says(s, "text_replace") /\ Says(s, "text_delta")
               /\ log[i].text = "streamed"
            \/ /\ ~Says(s, "text_replace") /\ ~Says(s, "text_delta")
               /\ \A t \in page.turns : t.id = s => Shows(t)

\* A turn on the screen: its answer is its own, and complete when it was told.
TurnIsTrue(t) ==
    ConversationOf(t.id) \notin overlap =>
        /\ t.from \in {None, t.id}
        /\ t.id \in told \ lost => Shows(t)

PageInv == \A t \in page.turns : TurnIsTrue(t)

\* What a restore reads is over, and nothing is asked of its conversation
\* until it has arrived.
RestoreInv ==
    /\ restore.state # "none" =>
          /\ \A s \in Streams :
                calls[s].conv = restore.conv => calls[s].state = "over"
          /\ page.conv = restore.conv => page.status = "loading" /\ Running = {}
    /\ \A t \in restore.turns : calls[t.id].conv = restore.conv /\ TurnIsTrue(t)
    /\ restore.state # "answered" => restore.turns = {}

\* The page is busy with one submit, and none is begun while it restores.
BusyInv ==
    ~restarted =>
        /\ Busy <=> Running # {}
        /\ Running # {} => Running = {page.stop}
        /\ restore.state # "none" => page.conv = restore.conv

Inductive ==
    /\ TypeOK /\ CallsInv /\ LogInv /\ OrderInv /\ OrphanInv /\ SavedInv
    /\ WireInv /\ TextInv /\ PageInv /\ RestoreInv /\ BusyInv

-----------------------------------------------------------------------------
(* What a step leaves alone.                                               *)

\* A message that was built belongs to a request.
LEMMA Messages ==
    ASSUME TypeOK
    PROVE  /\ Len(log) \in Nat /\ DOMAIN log = 1..Len(log)
           /\ \A i \in DOMAIN log : log[i] \in Row /\ log[i].id \in Streams
           /\ \A s \in Streams : Len(wire[s]) \in Nat
                /\ DOMAIN wire[s] = 1..Len(wire[s])
<1>1. log \in Seq(Row) /\ \A s \in Streams :
         wire[s] \in Seq({"status", "text_delta", "text_replace", "final"})
  BY DEF TypeOK
<1>2. \A i \in DOMAIN log : log[i] \in Row
  BY <1>1
<1>3. \A i \in DOMAIN log : log[i].id \in Streams
  BY <1>2 DEF Row
<1> QED
  BY <1>1, <1>2, <1>3

\* The conversation of a request stays.
LEMMA RequestsStay ==
    ASSUME Inductive, UNCHANGED <<server, log, saved, overlap>>,
           \A s \in Streams : server[s] # "none" => calls'[s].conv = calls[s].conv
    PROVE  LogInv' /\ OrderInv' /\ OrphanInv'
<1>1. \A i \in DOMAIN log : calls'[log[i].id].conv = calls[log[i].id].conv
  BY Messages DEF Inductive, LogInv
<1>2. \A i, j \in DOMAIN log : (Together(i, j)' <=> Together(i, j))
         /\ (Overlapped(i)' <=> Overlapped(i))
  BY <1>1 DEF Together, Overlapped, ConversationOf
<1>3. LogInv'
  BY DEF Inductive, LogInv, Working, HasReply
<1>4. OrderInv'
  BY <1>2 DEF Inductive, OrderInv, Working
<1>5. OrphanInv'
  BY <1>2 DEF Inductive, OrphanInv, HasReply
<1> QED
  BY <1>3, <1>4, <1>5

\* Events that are read by nobody announce nothing.
LEMMA WiresStay ==
    ASSUME Inductive, UNCHANGED <<server, log, saved, lost, told>>,
           \A s \in Streams : wire'[s] \in {wire[s], <<>>}
    PROVE  SavedInv' /\ WireInv'
<1>1. \A s \in Streams : \A event : Says(s, event)' => Says(s, event)
  BY DEF Says
<1>2. SavedInv'
  BY <1>1 DEF Inductive, SavedInv, Stored, HasReply
<1>3. WireInv'
  BY <1>1 DEF Inductive, WireInv
<1> QED
  BY <1>2, <1>3

\* A turn stays true, whatever is built for requests that were not answered.
LEMMA TruthsStay ==
    ASSUME Inductive, UNCHANGED told,
           \A i \in DOMAIN log' :
              (i \in DOMAIN log /\ log'[i] = log[i]) \/ log'[i].id \notin told,
           \A s \in Streams : calls'[s].conv = calls[s].conv,
           overlap \subseteq overlap', lost \subseteq lost'
    PROVE  /\ \A t \in page.turns \cup restore.turns :
                 calls'[t.id].conv = calls[t.id].conv /\ TurnIsTrue(t)'
           /\ \A t \in restore.turns : calls'[t.id].conv = restore.conv
<1>1. ASSUME NEW t \in page.turns \cup restore.turns
      PROVE  calls'[t.id].conv = calls[t.id].conv /\ TurnIsTrue(t)'
  <2>1. t.id \in Streams /\ TurnIsTrue(t)
    BY DEF Inductive, TypeOK, ShownTurn, PageInv, RestoreInv
  <2>2. Shows(t) /\ t.id \in told => Shows(t)'
    BY DEF Shows, IsReply
  <2> QED
    BY <2>1, <2>2 DEF TurnIsTrue, ConversationOf
<1> QED
  BY <1>1 DEF Inductive, RestoreInv

\* A turn stays true.
LEMMA TruthStays ==
    ASSUME NEW t, TurnIsTrue(t), UNCHANGED <<log, told>>,
           calls'[t.id].conv = calls[t.id].conv,
           overlap \subseteq overlap', lost \subseteq lost'
    PROVE  TurnIsTrue(t)'
BY DEF TurnIsTrue, Shows, ConversationOf

-----------------------------------------------------------------------------
(* The page.                                                               *)

LEMMA SubmitKeeps ==
    ASSUME Inductive, NEW s \in Streams, Submit(s)
    PROVE  Inductive'
<1>1. /\ page.status \notin {"busy", "loading"} /\ calls[s].state = "unused"
      /\ calls[s].conv = None /\ server[s] = "none" /\ wire[s] = <<>>
      /\ calls' = [calls EXCEPT ![s] = [state |-> "attached", conv |-> page.conv]]
      /\ page' = [page EXCEPT !.turns = @ \cup {Blank(s)}, !.status = "busy",
                              !.stop = s]
      /\ UNCHANGED <<restore, clear, wire, server, log, saved, told, lost,
                     overlap, restarted, gestures>>
  BY DEF Submit, Inductive, CallsInv, WireInv
<1>2. \A r \in Streams : r # s => calls'[r] = calls[r]
  BY <1>1 DEF Inductive, TypeOK
<1>3. calls'[s] = [state |-> "attached", conv |-> page.conv]
  BY <1>1 DEF Inductive, TypeOK
<1>4. /\ page'.turns = page.turns \cup {Blank(s)} /\ page'.status = "busy"
      /\ page'.stop = s /\ page'.conv = page.conv
  BY <1>1 DEF Inductive, TypeOK
<1>5. TypeOK'
  <2>1. Blank(s) \in ShownTurn
    BY DEF Blank, ShownTurn, Text
  <2> QED
    BY <1>1, <2>1 DEF Inductive, TypeOK
<1>6. CallsInv'
  BY <1>1, <1>2, <1>3, <1>4, PageAssumption DEF Inductive, TypeOK, CallsInv
<1>7. LogInv' /\ OrderInv' /\ OrphanInv'
  BY <1>1, <1>2, RequestsStay
<1>8. SavedInv' /\ WireInv'
  BY <1>1, WiresStay
<1>9. TextInv'
  <2>1. \A i \in DOMAIN log : log[i].id # s
    BY <1>1 DEF Inductive, LogInv
  <2>2. \A r \in Streams : \A event : Says(r, event)' <=> Says(r, event)
    BY <1>1 DEF Says
  <2>3. \A t : Shows(t)' <=> Shows(t)
    BY <1>1 DEF Shows
  <2>4. Blank(s).id = s
    BY DEF Blank
  <2> QED
    BY <1>1, <1>2, <1>4, <2>1, <2>2, <2>3, <2>4 DEF Inductive, TextInv, IsReply
<1>10. PageInv'
  <2>1. s \notin told
    BY <1>1 DEF Inductive, SavedInv
  <2>2. TurnIsTrue(Blank(s))'
    BY <1>1, <2>1 DEF TurnIsTrue, Blank
  <2>3. ASSUME NEW t \in page.turns PROVE TurnIsTrue(t)'
    <3>1. TurnIsTrue(t)
      BY DEF Inductive, PageInv
    <3>2. CASE t.id = s
      <4>1. t.from \in {None, s}
        BY <1>1, <3>1, <3>2, PageAssumption
           DEF TurnIsTrue, ConversationOf, Inductive, TypeOK
      <4> QED
        BY <1>1, <2>1, <3>2, <4>1 DEF TurnIsTrue
    <3>3. CASE t.id # s
      <4>1. t.id \in Streams
        BY DEF Inductive, TypeOK, ShownTurn
      <4> QED
        BY <1>1, <1>2, <3>1, <3>3, <4>1, TruthStays
    <3> QED
      BY <3>2, <3>3
  <2> QED
    BY <1>4, <2>2, <2>3 DEF PageInv
<1>11. RestoreInv'
  <2>1. restore.state # "none" => page.conv # restore.conv
    BY <1>1 DEF Inductive, RestoreInv
  <2>2. ASSUME NEW t \in restore.turns
        PROVE  calls'[t.id].conv = restore.conv /\ TurnIsTrue(t)'
    <3>1. /\ calls[t.id].conv = restore.conv /\ TurnIsTrue(t)
          /\ t.id \in Streams /\ restore.conv \in Conversations
      BY DEF Inductive, RestoreInv, TypeOK, ShownTurn
    <3>2. calls'[t.id] = calls[t.id]
      BY <1>1, <1>2, <3>1, PageAssumption
    <3> QED
      BY <1>1, <3>1, <3>2, TruthStays
  <2> QED
    BY <1>1, <1>2, <1>3, <1>4, <2>1, <2>2 DEF Inductive, RestoreInv
<1>12. BusyInv'
  BY <1>1, <1>2, <1>3, <1>4 DEF Inductive, BusyInv, Busy, Running
<1> QED
  BY <1>5, <1>6, <1>7, <1>8, <1>9, <1>10, <1>11, <1>12 DEF Inductive

\* A submit ends: its catch clause may have rewritten its turn.
LEMMA EndCallKeeps ==
    ASSUME Inductive, NEW s \in Streams, calls[s].state = "attached",
           NEW status \in {"idle", "error"},
           NEW turns \in {page.turns, Stopped(s)}, EndCall(s, status, turns),
           UNCHANGED <<restore, clear, server, log, saved, told, lost, overlap,
                       restarted>>,
           gestures' \in 0..MaxGestures
    PROVE  Inductive'
<1>1. /\ \A r \in Streams : r # s => calls'[r] = calls[r] /\ wire'[r] = wire[r]
      /\ calls'[s] = [state |-> "over", conv |-> calls[s].conv]
      /\ wire'[s] = <<>>
      /\ page'.turns = turns /\ page'.status = status /\ page'.stop = None
      /\ page'.conv = page.conv
  BY DEF EndCall, Inductive, TypeOK
<1>2. \A t \in turns : \/ t \in page.turns
                       \/ t = [id |-> s, from |-> s, text |-> "stopped"]
  BY DEF Stopped
<1>3. TypeOK'
  <2>1. turns \subseteq ShownTurn
    BY <1>2 DEF Inductive, TypeOK, ShownTurn, Text
  <2>2. page' \in [conv : Conversations, turns : SUBSET ShownTurn,
                   status : {"idle", "loading", "busy", "error"},
                   stop : Streams \cup {None}]
    BY <2>1 DEF EndCall, Inductive, TypeOK
  <2>3. calls' \in [Streams -> [state : {"unused", "attached", "over"},
                                conv : Conversations \cup {None}]]
    BY DEF EndCall, Inductive, TypeOK
  <2>4. wire' \in [Streams ->
                     Seq({"status", "text_delta", "text_replace", "final"})]
    BY DEF EndCall, Inductive, TypeOK
  <2> QED
    BY <2>2, <2>3, <2>4 DEF Inductive, TypeOK
<1>4. CallsInv'
  BY <1>1 DEF Inductive, CallsInv
<1>5. LogInv' /\ OrderInv' /\ OrphanInv'
  BY <1>1, RequestsStay
<1>6. SavedInv' /\ WireInv'
  BY <1>1, WiresStay
<1>7. TextInv'
  <2>1. ASSUME NEW r \in Streams, r # s, NEW event
        PROVE  Says(r, event)' <=> Says(r, event)
    BY <1>1, <2>1 DEF Says
  <2>2. \A t : Shows(t)' <=> Shows(t)
    BY DEF Shows
  <2>3. \A t \in turns : t.id # s => t \in page.turns
    BY <1>2
  <2> QED
    BY <1>1, <2>1, <2>2, <2>3 DEF Inductive, TextInv
<1>8. \A t \in page.turns \cup restore.turns : TurnIsTrue(t)'
  BY <1>1, TruthsStay
<1>9. PageInv'
  <2> SUFFICES ASSUME NEW t \in turns PROVE TurnIsTrue(t)'
    BY <1>1 DEF PageInv
  <2>1. CASE t \in page.turns
    BY <1>8, <2>1
  <2>2. CASE t \notin page.turns
    <3>1. t = [id |-> s, from |-> s, text |-> "stopped"] /\ turns = Stopped(s)
      BY <1>2, <2>2
    <3>2. PICK u \in page.turns : u.id = s /\ u.text = "none"
      BY <2>2, <3>1 DEF Stopped
    <3>3. s \in told \ lost /\ ConversationOf(s) \notin overlap => FALSE
      <4> SUFFICES ASSUME s \in told \ lost, ConversationOf(s) \notin overlap
                   PROVE  FALSE
        OBVIOUS
      <4>1. Shows(u)
        BY <3>2 DEF Inductive, PageInv, TurnIsTrue
      <4>2. PICK i \in DOMAIN log : IsReply(log[i], s)
        BY DEF Inductive, SavedInv, HasReply
      <4>3. log[i].text # "none"
        BY <4>2 DEF Inductive, LogInv, IsReply
      <4> QED
        BY <3>2, <4>1, <4>2, <4>3 DEF Shows
    <3> QED
      BY <1>1, <3>1, <3>3 DEF TurnIsTrue, ConversationOf
  <2> QED
    BY <2>1, <2>2
<1>10. RestoreInv'
  <2>1. \A t \in restore.turns : calls'[t.id].conv = restore.conv /\ TurnIsTrue(t)'
    BY <1>1, TruthsStay
  <2>2. restore.state # "none" => page.conv # restore.conv
    BY DEF Inductive, RestoreInv, Running
  <2> QED
    BY <1>1, <2>1, <2>2 DEF Inductive, RestoreInv
<1>11. BusyInv'
  BY <1>1 DEF Inductive, BusyInv, Busy, Running
<1> QED
  BY <1>3, <1>4, <1>5, <1>6, <1>7, <1>9, <1>10, <1>11 DEF Inductive

LEMMA ReadEndKeeps ==
    ASSUME Inductive, NEW s \in Streams, ReadEnd(s) \/ ConnectionFails(s)
    PROVE  Inductive'
<1>1. PICK status \in {"idle", "error"} : EndCall(s, status, page.turns)
  BY DEF ReadEnd, ConnectionFails
<1> QED
  BY <1>1, EndCallKeeps DEF ReadEnd, ConnectionFails, Inductive, TypeOK

LEMMA StopKeeps == Inductive /\ Stop => Inductive'
<1> SUFFICES ASSUME Inductive, Stop PROVE Inductive'
  OBVIOUS
<1>1. PICK s \in Streams : s = page.stop
  BY DEF Stop, Inductive, TypeOK
<1>2. calls[s].state = "attached" /\ EndCall(s, "idle", Stopped(s))
  BY <1>1 DEF Stop, Inductive, CallsInv
<1>3. gestures' \in 0..MaxGestures
  BY PageAssumption DEF Stop, Gesture, Inductive, TypeOK
<1> QED
  BY <1>2, <1>3, EndCallKeeps DEF Stop

\* The page reads an event: it may rewrite the submit's turn.
LEMMA ReadKeeps ==
    ASSUME Inductive, NEW s \in Streams, Read(s)
    PROVE  Inductive'
<1>1. /\ calls[s].state = "attached" /\ wire[s] # <<>>
      /\ wire' = [wire EXCEPT ![s] = Tail(wire[s])]
      /\ UNCHANGED <<restore, clear, calls, server, log, saved, lost, overlap,
                     restarted, gestures>>
  BY DEF Read
<1>2. /\ wire[s] \in Seq({"status", "text_delta", "text_replace", "final"})
      /\ \A r \in Streams : r # s => wire'[r] = wire[r]
      /\ wire'[s] = Tail(wire[s]) /\ s \notin told
  BY <1>1 DEF Inductive, TypeOK, WireInv
<1>3. /\ Len(wire[s]) \in Nat \ {0} /\ Len(wire'[s]) = Len(wire[s]) - 1
      /\ \A i \in 1..Len(wire'[s]) : wire'[s][i] = wire[s][i + 1]
      /\ DOMAIN wire[s] = 1..Len(wire[s]) /\ DOMAIN wire'[s] = 1..Len(wire'[s])
      /\ Head(wire[s]) = wire[s][1]
      /\ wire[s][1] \in {"status", "text_delta", "text_replace", "final"}
  <2>1. ASSUME NEW S, NEW seq \in Seq(S), seq # <<>>, NEW rest, rest = Tail(seq)
        PROVE  /\ Len(seq) \in Nat \ {0} /\ Len(rest) = Len(seq) - 1
               /\ \A i \in 1..Len(rest) : rest[i] = seq[i + 1]
               /\ DOMAIN seq = 1..Len(seq) /\ DOMAIN rest = 1..Len(rest)
               /\ Head(seq) = seq[1] /\ seq[1] \in S
    BY <2>1
  <2>2. PICK rest : rest = wire'[s]
    OBVIOUS
  <2>3. rest = Tail(wire[s])
    BY <1>2, <2>2
  <2> QED
    BY <1>1, <1>2, <2>1, <2>2, <2>3
<1>4. /\ \A r \in Streams : \A e : r # s => (Says(r, e)' <=> Says(r, e))
      /\ \A e : Says(s, e) <=> e = Head(wire[s]) \/ Says(s, e)'
  <2>1. ASSUME NEW e PROVE Says(s, e) <=> e = Head(wire[s]) \/ Says(s, e)'
    <3>1. Says(s, e) => e = Head(wire[s]) \/ Says(s, e)'
      <4> SUFFICES ASSUME NEW i \in 1..Len(wire[s]), wire[s][i] = e, i # 1
                   PROVE  Says(s, e)'
        BY <1>3 DEF Says
      <4>1. i - 1 \in 1..Len(wire'[s]) /\ wire'[s][i - 1] = wire[s][i]
        BY <1>3
      <4> QED
        BY <1>3, <4>1 DEF Says
    <3>2. Says(s, e)' => Says(s, e)
      <4> SUFFICES ASSUME NEW i \in 1..Len(wire'[s]), wire'[s][i] = e
                   PROVE  Says(s, e)
        BY <1>3 DEF Says
      <4>1. i + 1 \in 1..Len(wire[s])
        BY <1>3
      <4> QED
        BY <1>3, <4>1 DEF Says
    <3> QED
      BY <1>3, <3>1, <3>2 DEF Says
  <2> QED
    BY <1>2, <2>1 DEF Says
<1>5. TypeOK'
  <2>1. \A text \in {"streamed", "fallback"} : Rewrite(s, text) \subseteq ShownTurn
    BY DEF Rewrite, Inductive, TypeOK, ShownTurn, Text
  <2>2. page' \in [conv : Conversations, turns : SUBSET ShownTurn,
                   status : {"idle", "loading", "busy", "error"},
                   stop : Streams \cup {None}]
    BY <2>1 DEF Read, Inductive, TypeOK
  <2>3. wire' \in [Streams ->
                     Seq({"status", "text_delta", "text_replace", "final"})]
    BY <1>1, <1>2 DEF Inductive, TypeOK
  <2> QED
    BY <1>1, <2>2, <2>3 DEF Read, Inductive, TypeOK
<1>6. /\ page'.conv = page.conv /\ page'.stop = page.stop
      /\ page'.status \in {page.status, "busy"}
  BY DEF Read, Inductive, TypeOK
<1>7. CallsInv'
  BY <1>1, <1>6 DEF Inductive, CallsInv
<1>8. LogInv' /\ OrderInv' /\ OrphanInv'
  BY <1>1, RequestsStay
<1>9. \A t : Shows(t)' <=> Shows(t)
  BY <1>1 DEF Shows
<1>10. WireInv'
  <2>1. \A i \in DOMAIN wire'[s] : i + 1 \in DOMAIN wire[s]
    BY <1>3
  <2>2. \A i, j \in DOMAIN wire'[s] : i < j =>
          /\ wire'[s][i] # "final"
          /\ wire'[s][i] = "text_replace" => wire'[s][j] # "text_delta"
    <3> SUFFICES ASSUME NEW i \in DOMAIN wire'[s], NEW j \in DOMAIN wire'[s], i < j
                 PROVE  /\ wire'[s][i] # "final"
                        /\ wire'[s][i] = "text_replace" => wire'[s][j] # "text_delta"
      OBVIOUS
    <3>1. i + 1 < j + 1
      BY <1>3
    <3> QED
      BY <1>3, <2>1, <3>1 DEF Inductive, WireInv
  <2>3. s \in told' => wire'[s] = <<>>
    <3> SUFFICES ASSUME s \in told', wire'[s] # <<>> PROVE FALSE
      OBVIOUS
    <3>1. wire[s][1] = "final"
      BY <1>2, <1>3 DEF Read
    <3>2. 1 \in DOMAIN wire[s] /\ 2 \in DOMAIN wire[s]
      BY <1>2, <1>3
    <3> QED
      BY <3>1, <3>2 DEF Inductive, WireInv
  <2>4. server[s] \notin {"none", "asking"}
    BY <1>1 DEF Inductive, WireInv
  <2>5. \A r \in Streams : r # s /\ r \in told' => r \in told
    BY DEF Read
  <2> QED
    BY <1>1, <1>2, <1>4, <2>2, <2>3, <2>4, <2>5 DEF Inductive, WireInv
<1>11. SavedInv'
  <2>1. told' \subseteq told \cup {s} /\ (s \in told' => Says(s, "final"))
    BY <1>2, <1>4 DEF Read
  <2>2. \A r \in Streams : (Says(r, "final") \/ r \in told)' =>
           Says(r, "final") \/ r \in told
    BY <1>4, <2>1
  <2> QED
    BY <1>1, <2>2 DEF Inductive, SavedInv, Stored, HasReply
<1>12. RestoreInv'
  <2>1. restore.state # "none" => page.conv # restore.conv
    BY <1>1 DEF Inductive, RestoreInv, Running
  <2>2. \A t \in restore.turns : t.id # s
    BY <1>1 DEF Inductive, RestoreInv
  <2>3. \A t \in restore.turns : TurnIsTrue(t)'
    BY <1>1, <1>9, <2>2 DEF Read, Inductive, RestoreInv, TurnIsTrue, ConversationOf
  <2> QED
    BY <1>1, <1>6, <2>1, <2>3 DEF Inductive, RestoreInv
<1>13. BusyInv'
  <2>1. s \in Running
    BY <1>1 DEF Running
  <2> QED
    BY <1>1, <1>6, <2>1 DEF Inductive, BusyInv, Busy, Running
<1>14. TextInv' /\ PageInv'
  <2>1. CASE Head(wire[s]) = "status"
    <3>1. page'.turns = page.turns /\ told' = told
      BY <2>1 DEF Read, Inductive, TypeOK
    <3>2. TextInv'
      BY <1>1, <1>4, <1>9, <2>1, <3>1 DEF Inductive, TextInv
    <3>3. PageInv'
      BY <1>1, <3>1, TruthsStay DEF PageInv
    <3> QED
      BY <3>2, <3>3
  <2>2. CASE Head(wire[s]) = "final"
    <3>1. page'.turns = page.turns /\ told' = told \cup {s}
      BY <2>2 DEF Read
    <3>2. TextInv'
      BY <1>1, <1>4, <1>9, <2>2, <3>1 DEF Inductive, TextInv
    <3>3. wire'[s] = <<>>
      BY <1>10, <3>1 DEF WireInv
    <3>4. \A e : ~Says(s, e)'
      BY <3>3 DEF Says
    <3>5. \A t \in page.turns : t.id = s => Shows(t)
      <4>1. PICK i \in DOMAIN log : IsReply(log[i], s)
        BY <1>4, <2>2 DEF Inductive, SavedInv, HasReply
      <4> QED
        BY <1>1, <1>4, <2>2, <3>4, <4>1 DEF Inductive, TextInv
    <3>6. \A t \in page.turns : TurnIsTrue(t)'
      BY <1>1, <1>9, <3>1, <3>5 DEF Inductive, PageInv, TurnIsTrue, ConversationOf
    <3> QED
      BY <3>1, <3>2, <3>6 DEF PageInv
  <2>3. ASSUME NEW text \in {"streamed", "fallback"},
               page'.turns = Rewrite(s, text), told' = told,
               Head(wire[s]) = IF text = "streamed" THEN "text_delta"
                               ELSE "text_replace"
        PROVE  TextInv' /\ PageInv'
    <3> DEFINE shown == [id |-> s, from |-> s, text |-> text]
    <3>1. \A t \in page'.turns : (t.id # s /\ t \in page.turns) \/ t = shown
      BY <2>3 DEF Rewrite
    <3>2. \A t \in page'.turns : t.id # s => t \in page.turns
      BY <3>1
    <3>3. \A t \in page'.turns : t.id = s => t = shown
      BY <3>1
    <3>4. PageInv'
      <4>1. \A t \in page.turns : TurnIsTrue(t)'
        BY <1>1, <2>3, TruthsStay
      <4>2. TurnIsTrue(shown)'
        BY <1>2, <2>3 DEF TurnIsTrue
      <4> QED
        BY <3>1, <4>1, <4>2 DEF PageInv
    <3>6. text = "fallback" => ~Says(s, "text_delta")'
      <4> SUFFICES ASSUME text = "fallback", NEW i \in DOMAIN wire'[s],
                          wire'[s][i] = "text_delta"
                   PROVE  FALSE
        BY DEF Says
      <4>1. /\ 1 \in DOMAIN wire[s] /\ i + 1 \in DOMAIN wire[s] /\ 1 < i + 1
            /\ wire[s][1] = "text_replace" /\ wire[s][i + 1] = "text_delta"
        <5>1. Len(wire'[s]) \in Nat /\ i \in 1..Len(wire'[s])
          BY <1>3
        <5>2. i + 1 \in 1..Len(wire[s]) /\ 1 \in 1..Len(wire[s]) /\ 1 < i + 1
          BY <1>3, <5>1
        <5>3. wire'[s][i] = wire[s][i + 1]
          BY <1>3, <5>1
        <5> QED
          BY <1>3, <2>3, <5>2, <5>3
      <4> QED
        BY <4>1 DEF Inductive, WireInv
    <3>7. ASSUME NEW i \in DOMAIN log, IsReply(log[i], s)
          PROVE  \/ Says(s, "text_replace")' /\ log[i].text = "fallback"
                 \/ /\ ~Says(s, "text_replace")' /\ Says(s, "text_delta")'
                    /\ log[i].text = "streamed"
                 \/ /\ ~Says(s, "text_replace")' /\ ~Says(s, "text_delta")'
                    /\ log[i].text = text
      BY <1>1, <1>4, <2>3, <3>6, <3>7 DEF Inductive, TextInv
    <3>8. ASSUME NEW i \in DOMAIN log, IsReply(log[i], s), log[i].text = text
          PROVE  Shows(shown)
      BY <3>8 DEF Inductive, LogInv, Shows, IsReply
    <3>9. TextInv'
      BY <1>1, <1>4, <1>9, <3>2, <3>3, <3>7, <3>8 DEF Inductive, TextInv
    <3> QED
      BY <3>4, <3>9
  <2> QED
    <3>1. CASE Head(wire[s]) = "text_delta"
      <4>1. page'.turns = Rewrite(s, "streamed") /\ told' = told
        BY <3>1 DEF Read, Inductive, TypeOK
      <4> QED
        BY <2>3, <3>1, <4>1
    <3>2. CASE Head(wire[s]) = "text_replace"
      <4>1. page'.turns = Rewrite(s, "fallback") /\ told' = told
        BY <3>2 DEF Read, Inductive, TypeOK
      <4> QED
        BY <2>3, <3>2, <4>1
    <3> QED
      BY <1>3, <2>1, <2>2, <3>1, <3>2
<1> QED
  BY <1>5, <1>7, <1>8, <1>10, <1>11, <1>12, <1>13, <1>14 DEF Inductive

\* What the page and its restore do alone leaves the requests' part alone.
LEMMA PageStep ==
    ASSUME Inductive,
           UNCHANGED <<calls, wire, server, log, saved, told, lost, overlap>>
    PROVE  /\ LogInv' /\ OrderInv' /\ OrphanInv' /\ SavedInv' /\ WireInv'
           /\ \A t \in page.turns \cup restore.turns : TurnIsTrue(t)'
           /\ \A t \in restore.turns : calls'[t.id].conv = restore.conv
           /\ page'.stop = page.stop => CallsInv'
           /\ (\A t \in page'.turns : t \in page.turns
                  \/ calls[t.id].state # "attached") => TextInv'
<1>1. LogInv' /\ OrderInv' /\ OrphanInv'
  BY RequestsStay
<1>2. SavedInv' /\ WireInv'
  BY WiresStay
<1>3. /\ \A t \in page.turns \cup restore.turns : TurnIsTrue(t)'
      /\ \A t \in restore.turns : calls'[t.id].conv = restore.conv
  BY TruthsStay
<1>4. page'.stop = page.stop => CallsInv'
  BY DEF Inductive, CallsInv
<1>5. (\A t \in page'.turns : t \in page.turns \/ calls[t.id].state # "attached")
         => TextInv'
  <2>1. \A s, e : Says(s, e)' <=> Says(s, e)
    BY DEF Says
  <2>2. \A t : Shows(t)' <=> Shows(t)
    BY DEF Shows
  <2> QED
    BY <2>1, <2>2 DEF Inductive, TextInv
<1> QED
  BY <1>1, <1>2, <1>3, <1>4, <1>5

\* A new chat: nothing refers to its id.
LEMMA NewConversationKeeps ==
    ASSUME Inductive, newConversation,
           UNCHANGED <<restore, calls, wire, server, log, saved, told, lost,
                       overlap>>,
           clear' \in [state : {"none", "asked", "done"},
                       conv : Conversations \cup {None}],
           gestures' \in 0..MaxGestures
    PROVE  Inductive'
<1>1. PICK c \in Fresh :
        page' = [page EXCEPT !.conv = c, !.turns = {}, !.status = "idle"]
  BY DEF newConversation
<1>2. /\ page'.conv = c /\ page'.turns = {} /\ page'.status = "idle"
      /\ page'.stop = page.stop
      /\ restarted' = (restarted \/ Running # {} \/ restore.state # "none")
  BY <1>1 DEF newConversation, Inductive, TypeOK
<1>3. c \in Conversations /\ c # restore.conv
  BY DEF Fresh
<1>4. TypeOK'
  <2>1. page' \in [conv : Conversations, turns : SUBSET ShownTurn,
                   status : {"idle", "loading", "busy", "error"},
                   stop : Streams \cup {None}]
    BY <1>1, <1>3 DEF Inductive, TypeOK
  <2>2. restarted' \in BOOLEAN
    BY <1>2 DEF Inductive, TypeOK
  <2> QED
    BY <2>1, <2>2 DEF Inductive, TypeOK
<1>5. /\ LogInv' /\ OrderInv' /\ OrphanInv' /\ SavedInv' /\ WireInv'
      /\ CallsInv' /\ TextInv'
      /\ \A t \in restore.turns : calls'[t.id].conv = restore.conv /\ TurnIsTrue(t)'
  BY <1>2, PageStep
<1>6. PageInv'
  BY <1>2 DEF PageInv
<1>7. RestoreInv'
  BY <1>2, <1>3, <1>5 DEF Inductive, RestoreInv
<1>8. BusyInv'
  BY <1>2 DEF Inductive, BusyInv, Busy, Running
<1> QED
  BY <1>4, <1>5, <1>6, <1>7, <1>8 DEF Inductive

LEMMA NewChatKeeps == Inductive /\ (NewChat \/ ClearAnswered) => Inductive'
<1> SUFFICES ASSUME Inductive, NewChat \/ ClearAnswered PROVE Inductive'
  OBVIOUS
<1>1. newConversation /\ UNCHANGED <<restore, calls, wire, server, log, saved,
                                    told, lost, overlap>>
  BY DEF NewChat, ClearAnswered
<1>2. clear' \in [state : {"none", "asked", "done"},
                  conv : Conversations \cup {None}]
  BY DEF NewChat, ClearAnswered, Inductive, TypeOK
<1>3. gestures' \in 0..MaxGestures
  BY PageAssumption DEF NewChat, ClearAnswered, Gesture, Inductive, TypeOK
<1> QED
  BY <1>1, <1>2, <1>3, NewConversationKeeps

\* The history arrives, or an error in its place.
LEMMA RestoreEnds ==
    Inductive /\ (RestoreArrives \/ RestoreFails) => Inductive'
<1> SUFFICES ASSUME Inductive, RestoreArrives \/ RestoreFails
             PROVE  Inductive'
  OBVIOUS
<1>1. /\ restore.state # "none"
      /\ page'.turns \in {page.turns, restore.turns} /\ page'.status = "idle"
      /\ page'.conv = page.conv /\ page'.stop = page.stop
      /\ restore' = [restore EXCEPT !.state = "none", !.turns = {}]
      /\ restore'.state = "none" /\ restore'.turns = {}
      /\ UNCHANGED <<clear, calls, wire, server, log, saved, told, lost,
                     overlap, restarted, gestures>>
  BY DEF RestoreArrives, RestoreFails, Inductive, TypeOK
<1>2. TypeOK'
  <2>1. page' \in [conv : Conversations, turns : SUBSET ShownTurn,
                   status : {"idle", "loading", "busy", "error"},
                   stop : Streams \cup {None}]
    BY DEF RestoreArrives, RestoreFails, Inductive, TypeOK
  <2>2. restore' \in [state : {"none", "asked", "answered"},
                      conv : Conversations, turns : SUBSET ShownTurn]
    BY <1>1 DEF Inductive, TypeOK
  <2> QED
    BY <1>1, <2>1, <2>2 DEF Inductive, TypeOK
<1>3. \A t \in restore.turns : calls[t.id].state # "attached"
  BY <1>1 DEF Inductive, RestoreInv, TypeOK, ShownTurn
<1>4. /\ LogInv' /\ OrderInv' /\ OrphanInv' /\ SavedInv' /\ WireInv'
      /\ CallsInv' /\ TextInv'
      /\ \A t \in page.turns \cup restore.turns : TurnIsTrue(t)'
  BY <1>1, <1>3, PageStep
<1>5. PageInv'
  BY <1>1, <1>4 DEF PageInv
<1>6. RestoreInv'
  BY <1>1 DEF RestoreInv
<1>7. BusyInv'
  BY <1>1 DEF Inductive, BusyInv, Busy, Running, RestoreInv
<1> QED
  BY <1>2, <1>4, <1>5, <1>6, <1>7 DEF Inductive

LEMMA ClearingKeeps ==
    Inductive /\ (clearConversation \/ ClearFails) => Inductive'
<1> SUFFICES ASSUME Inductive, clearConversation \/ ClearFails
             PROVE  Inductive'
  OBVIOUS
<1>1. UNCHANGED <<page, restore, calls, wire, server, log, saved, told, lost,
                 overlap, restarted>>
  BY DEF clearConversation, ClearFails
<1>2. TypeOK'
  <2>1. clear' \in [state : {"none", "asked", "done"},
                    conv : Conversations \cup {None}]
    <3>1. CASE clearConversation
      BY <3>1 DEF clearConversation, Inductive, TypeOK
    <3>2. CASE ClearFails
      BY <3>2 DEF ClearFails, Inductive, TypeOK
    <3> QED
      BY <3>1, <3>2
  <2>2. gestures' \in 0..MaxGestures
    BY PageAssumption DEF clearConversation, ClearFails, Gesture, Inductive, TypeOK
  <2> QED
    BY <1>1, <2>1, <2>2 DEF Inductive, TypeOK
<1>3. /\ LogInv' /\ OrderInv' /\ OrphanInv' /\ SavedInv' /\ WireInv'
      /\ CallsInv' /\ TextInv'
      /\ \A t \in page.turns \cup restore.turns : TurnIsTrue(t)'
  BY <1>1, PageStep
<1>4. PageInv' /\ RestoreInv' /\ BusyInv'
  BY <1>1, <1>3 DEF Inductive, PageInv, RestoreInv, BusyInv, Busy, Running
<1> QED
  BY <1>2, <1>3, <1>4 DEF Inductive

\* The page is opened again: the submits it had are over.
LEMMA RemountKeeps == Inductive /\ Remount => Inductive'
<1> SUFFICES ASSUME Inductive, Remount PROVE Inductive'
  OBVIOUS
<1>1. /\ page' = [page EXCEPT !.turns = {}, !.status = "loading", !.stop = None]
      /\ page'.conv = page.conv /\ page'.turns = {}
      /\ page'.status = "loading" /\ page'.stop = None
      /\ restore' = [state |-> "asked", conv |-> page.conv, turns |-> {}]
      /\ UNCHANGED <<clear, server, log, saved, told, lost, overlap, restarted>>
  BY DEF Remount, Inductive, TypeOK
<1>2. /\ \A s \in Streams :
            calls'[s] = IF s \in Running THEN [calls[s] EXCEPT !.state = "over"]
                        ELSE calls[s]
      /\ \A s \in Streams : wire'[s] = IF s \in Running THEN <<>> ELSE wire[s]
  BY DEF Remount
<1>3. ASSUME NEW s \in Streams
      PROVE  /\ calls'[s] \in [state : {"unused", "attached", "over"},
                               conv : Conversations \cup {None}]
             /\ calls'[s].conv = calls[s].conv
             /\ calls'[s].state = IF s \in Running THEN "over" ELSE calls[s].state
             /\ calls[s].state \in {"unused", "attached", "over"}
  <2>1. calls[s] \in [state : {"unused", "attached", "over"},
                      conv : Conversations \cup {None}]
    BY DEF Inductive, TypeOK
  <2>2. calls'[s] = IF s \in Running THEN [calls[s] EXCEPT !.state = "over"]
                    ELSE calls[s]
    BY <1>2
  <2> QED
    BY <2>1, <2>2
<1>4. \A s \in Streams : calls'[s].state # "attached"
  BY <1>3 DEF Running
<1>5. TypeOK'
  <2>1. page' \in [conv : Conversations, turns : SUBSET ShownTurn,
                   status : {"idle", "loading", "busy", "error"},
                   stop : Streams \cup {None}]
    BY <1>1 DEF Inductive, TypeOK
  <2>2. calls' \in [Streams -> [state : {"unused", "attached", "over"},
                                conv : Conversations \cup {None}]]
    BY <1>3 DEF Remount
  <2>3. wire' \in [Streams ->
                     Seq({"status", "text_delta", "text_replace", "final"})]
    BY DEF Remount, Inductive, TypeOK
  <2>4. restore' \in [state : {"none", "asked", "answered"},
                      conv : Conversations, turns : SUBSET ShownTurn]
    BY <1>1 DEF Inductive, TypeOK
  <2>5. gestures' \in 0..MaxGestures
    BY PageAssumption DEF Remount, Gesture, Inductive, TypeOK
  <2> QED
    BY <1>1, <2>1, <2>2, <2>3, <2>4, <2>5 DEF Inductive, TypeOK
<1>6. CallsInv'
  BY <1>1, <1>3 DEF Inductive, CallsInv, Running
<1>7. LogInv' /\ OrderInv' /\ OrphanInv'
  BY <1>1, <1>3, RequestsStay
<1>8. SavedInv' /\ WireInv'
  BY <1>1, <1>2, WiresStay
<1>9. TextInv' /\ PageInv'
  BY <1>1, <1>4 DEF TextInv, PageInv
<1>10. RestoreInv'
  <2>1. \A s \in Streams : calls'[s].conv = page.conv => calls'[s].state = "over"
    BY <1>3, <1>4, PageAssumption DEF Inductive, CallsInv, TypeOK
  <2> QED
    BY <1>1, <1>4, <2>1 DEF RestoreInv, Running
<1>11. BusyInv'
  BY <1>1, <1>4 DEF BusyInv, Busy, Running
<1> QED
  BY <1>5, <1>6, <1>7, <1>8, <1>9, <1>10, <1>11 DEF Inductive

-----------------------------------------------------------------------------
(* The API.                                                                *)

Events == {"status", "text_delta", "text_replace", "final"}

\* What the API does for a request that is not over leaves the page alone.
LEMMA ApiStep ==
    ASSUME Inductive, NEW s \in Streams, server[s] # "over",
           calls[s].state # "unused",
           NEW stage \in {"asking", "working", "replying", "replied", "over"},
           server' = [server EXCEPT ![s] = stage],
           UNCHANGED <<page, restore, calls, told, lost, restarted>>,
           overlap \subseteq overlap',
           \A i \in DOMAIN log' :
              (i \in DOMAIN log /\ log'[i] = log[i]) \/ log'[i].id = s
    PROVE  /\ s \notin told /\ ~Says(s, "final")
           /\ CallsInv' /\ PageInv' /\ RestoreInv' /\ BusyInv'
           /\ server'[s] = stage
           /\ \A r \in Streams : r # s => server'[r] = server[r]
<1>1. s \notin told /\ ~Says(s, "final")
  BY DEF Inductive, SavedInv
<1>2. /\ \A t \in page.turns \cup restore.turns : TurnIsTrue(t)'
      /\ \A t \in restore.turns : calls'[t.id].conv = restore.conv
  BY <1>1, TruthsStay
<1>3. server'[s] = stage /\ \A r \in Streams : r # s => server'[r] = server[r]
  BY DEF Inductive, TypeOK
<1>4. CallsInv'
  BY <1>3 DEF Inductive, CallsInv
<1>5. PageInv' /\ RestoreInv' /\ BusyInv'
  BY <1>2 DEF Inductive, PageInv, RestoreInv, BusyInv, Busy, Running
<1> QED
  BY <1>1, <1>3, <1>4, <1>5

LEMMA Concatenation ==
    ASSUME NEW S, NEW a \in Seq(S), NEW b \in Seq(S), NEW c, c = a \o b
    PROVE  /\ c \in Seq(S) /\ Len(a) \in Nat /\ Len(b) \in Nat
           /\ DOMAIN a = 1..Len(a) /\ DOMAIN b = 1..Len(b)
           /\ DOMAIN c = 1..Len(a) + Len(b)
           /\ \A i \in DOMAIN a : i \in DOMAIN c /\ c[i] = a[i]
           /\ \A i \in DOMAIN b : Len(a) + i \in DOMAIN c /\ c[Len(a) + i] = b[i]
           /\ \A i \in DOMAIN c : \/ i \in DOMAIN a /\ c[i] = a[i]
                                 \/ /\ i - Len(a) \in DOMAIN b /\ i > Len(a)
                                    /\ c[i] = b[i - Len(a)]
OBVIOUS

\* Events are sent in order, to a reader who is there.
LEMMA SendsInOrder ==
    ASSUME Inductive, NEW s \in Streams, ~Says(s, "final"), s \notin told,
           NEW events \in Seq(Events), Sends(s, events),
           \A i, j \in DOMAIN events : i < j =>
              /\ events[i] # "final"
              /\ events[i] = "text_replace" => events[j] # "text_delta",
           Says(s, "text_replace") =>
              \A i \in DOMAIN events : events[i] # "text_delta"
    PROVE  /\ wire' \in [Streams -> Seq(Events)]
           /\ \A r \in Streams : r # s => wire'[r] = wire[r]
           /\ \A r \in Streams : \A e : r # s => (Says(r, e)' <=> Says(r, e))
           /\ calls[s].state # "attached" => wire'[s] = wire[s]
           /\ \A e : Says(s, e)' =>
                 Says(s, e) \/ \E i \in DOMAIN events : events[i] = e
           /\ calls[s].state = "attached" => \A e :
                 Says(s, e)' <=> Says(s, e) \/ \E i \in DOMAIN events : events[i] = e
           /\ \A r \in Streams : \A i, j \in DOMAIN wire'[r] : i < j =>
                 /\ wire'[r][i] # "final"
                 /\ wire'[r][i] = "text_replace" => wire'[r][j] # "text_delta"
           /\ \A r \in Streams : r \in told => wire'[r] = <<>>
<1>1. wire \in [Streams -> Seq(Events)]
  BY DEF Inductive, TypeOK, Events
<1>2. PICK next : next = wire[s] \o events
  OBVIOUS
<1>3. wire[s] \in Seq(Events) /\ next \in Seq(Events)
  BY <1>1, <1>2
<1>4. /\ wire' = IF calls[s].state = "attached" THEN [wire EXCEPT ![s] = next]
                 ELSE wire
      /\ wire' \in [Streams -> Seq(Events)]
      /\ \A r \in Streams : r # s => wire'[r] = wire[r]
      /\ calls[s].state # "attached" => wire'[s] = wire[s]
      /\ calls[s].state = "attached" => wire'[s] = next
  BY <1>1, <1>2, <1>3 DEF Sends
<1>5. /\ \A i \in DOMAIN wire[s] : i \in DOMAIN next /\ next[i] = wire[s][i]
      /\ \A i \in DOMAIN events :
            Len(wire[s]) + i \in DOMAIN next /\ next[Len(wire[s]) + i] = events[i]
      /\ \A i \in DOMAIN next :
            \/ i \in DOMAIN wire[s] /\ next[i] = wire[s][i]
            \/ /\ i - Len(wire[s]) \in DOMAIN events /\ i > Len(wire[s])
               /\ next[i] = events[i - Len(wire[s])]
      /\ DOMAIN next \subseteq Int /\ Len(wire[s]) \in Nat
      /\ DOMAIN wire[s] = 1..Len(wire[s])
  <2>1. PICK sent : sent = wire[s]
    OBVIOUS
  <2>2. sent \in Seq(Events) /\ next = sent \o events
    BY <1>2, <1>3, <2>1
  <2>3. /\ Len(sent) \in Nat
        /\ DOMAIN sent = 1..Len(sent) /\ DOMAIN next = 1..Len(sent) + Len(events)
        /\ Len(events) \in Nat
        /\ \A i \in DOMAIN sent : i \in DOMAIN next /\ next[i] = sent[i]
        /\ \A i \in DOMAIN events :
              Len(sent) + i \in DOMAIN next /\ next[Len(sent) + i] = events[i]
        /\ \A i \in DOMAIN next :
              \/ i \in DOMAIN sent /\ next[i] = sent[i]
              \/ /\ i - Len(sent) \in DOMAIN events /\ i > Len(sent)
                 /\ next[i] = events[i - Len(sent)]
    BY <2>2, Concatenation
  <2>4. DOMAIN next \subseteq Int
    BY <2>3
  <2> QED
    BY <2>1, <2>3, <2>4
<1>6. \A e : (\E i \in DOMAIN next : next[i] = e) <=>
               Says(s, e) \/ \E i \in DOMAIN events : events[i] = e
  <2> SUFFICES ASSUME NEW e
               PROVE  (\E i \in DOMAIN next : next[i] = e) <=>
                        Says(s, e) \/ \E i \in DOMAIN events : events[i] = e
    OBVIOUS
  <2>1. (\E i \in DOMAIN next : next[i] = e) =>
           Says(s, e) \/ \E i \in DOMAIN events : events[i] = e
    BY <1>5 DEF Says
  <2>2. Says(s, e) \/ (\E i \in DOMAIN events : events[i] = e) =>
           \E i \in DOMAIN next : next[i] = e
    BY <1>5 DEF Says
  <2> QED
    BY <2>1, <2>2
<1>7. /\ \A r \in Streams : \A e : r # s => (Says(r, e)' <=> Says(r, e))
      /\ \A e : Says(s, e)' =>
            Says(s, e) \/ \E i \in DOMAIN events : events[i] = e
      /\ calls[s].state = "attached" => \A e :
            Says(s, e)' <=> Says(s, e) \/ \E i \in DOMAIN events : events[i] = e
  BY <1>4, <1>6 DEF Says
<1>8. ASSUME NEW i \in DOMAIN next, NEW j \in DOMAIN next, i < j
      PROVE  /\ next[i] # "final"
             /\ next[i] = "text_replace" => next[j] # "text_delta"
  <2>1. CASE i \in DOMAIN wire[s] /\ next[i] = wire[s][i]
    <3>1. next[i] # "final"
      BY <2>1 DEF Says
    <3>2. CASE j \in DOMAIN wire[s] /\ next[j] = wire[s][j]
      BY <1>8, <2>1, <3>1, <3>2 DEF Inductive, WireInv
    <3>3. CASE j - Len(wire[s]) \in DOMAIN events /\ next[j] = events[j - Len(wire[s])]
      BY <2>1, <3>1, <3>3 DEF Says
    <3> QED
      BY <1>5, <3>2, <3>3
  <2>2. CASE /\ i - Len(wire[s]) \in DOMAIN events /\ i > Len(wire[s])
             /\ next[i] = events[i - Len(wire[s])]
    <3>1. j \notin DOMAIN wire[s]
      BY <1>5, <1>8, <2>2
    <3>2. j - Len(wire[s]) \in DOMAIN events /\ next[j] = events[j - Len(wire[s])]
      BY <1>5, <3>1
    <3>3. i - Len(wire[s]) < j - Len(wire[s])
      BY <1>5, <1>8
    <3> QED
      BY <2>2, <3>2, <3>3
  <2> QED
    BY <1>5, <2>1, <2>2
<1>9. ASSUME NEW r \in Streams
      PROVE  /\ \A i, j \in DOMAIN wire'[r] : i < j =>
                   /\ wire'[r][i] # "final"
                   /\ wire'[r][i] = "text_replace" => wire'[r][j] # "text_delta"
             /\ r \in told => wire'[r] = <<>>
  <2>1. CASE wire'[r] = wire[r]
    BY <2>1 DEF Inductive, WireInv
  <2>2. CASE r = s /\ wire'[r] = next
    BY <1>8, <2>2
  <2> QED
    BY <1>4, <2>1, <2>2
<1> QED
  BY <1>4, <1>7, <1>9

\* What is saved next for a request is its question, or its reply.
LEMMA LastOfIs ==
    ASSUME Inductive, NEW s \in Streams, server[s] \in {"asking", "replying"}
    PROVE  \E i \in DOMAIN log :
              /\ LastOf(s) = log[i] /\ log[i].id = s
              /\ server[s] = "asking" => log[i] = QuestionOf(s)
              /\ server[s] = "replying" => IsReply(log[i], s)
<1> DEFINE IsLast(m) == m.id = s /\ (server[s] = "replying" <=> m.role = "assistant")
<1>1. \E i \in DOMAIN log : IsLast(log[i])
  <2>1. CASE server[s] = "asking"
    <3>1. PICK i \in DOMAIN log : log[i] = QuestionOf(s)
      BY <2>1 DEF Inductive, LogInv, Working
    <3> QED
      BY <2>1, <3>1 DEF QuestionOf
  <2>2. CASE server[s] = "replying"
    BY <2>2 DEF Inductive, LogInv, HasReply, IsReply
  <2> QED
    BY <2>1, <2>2
<1>2. LastOf(s) \in Range(log) /\ IsLast(LastOf(s))
  <2>1. \E m \in Range(log) : IsLast(m)
    BY <1>1 DEF Range
  <2> QED
    BY <2>1 DEF LastOf
<1>3. PICK i \in DOMAIN log : LastOf(s) = log[i]
  BY <1>2 DEF Range
<1>4. log[i] \in Row /\ log[i].id = s
  BY <1>2, <1>3, Messages DEF Inductive
<1>5. server[s] = "asking" => log[i] = QuestionOf(s)
  <2> SUFFICES ASSUME server[s] = "asking" PROVE log[i] = QuestionOf(s)
    OBVIOUS
  <2>1. log[i].role = "user"
    BY <1>2, <1>3, <1>4 DEF Row
  <2>2. log[i].text = "none"
    BY <2>1 DEF Inductive, LogInv
  <2> QED
    BY <1>4, <2>1, <2>2 DEF Row, QuestionOf
<1> QED
  BY <1>2, <1>3, <1>4, <1>5 DEF IsReply

\* The messages when one of a request is stored, or none.
LEMMA SavingKeeps ==
    ASSUME Inductive, NEW s \in Streams, Working(s),
           NEW stage \in {"working", "replied", "over"},
           server' = [server EXCEPT ![s] = stage], UNCHANGED <<calls, log, overlap>>,
           saved \subseteq saved', \A m \in saved' : m \in saved \/ m.id = s,
           stage = "working" => server[s] = "asking" /\ QuestionOf(s) \in saved',
           stage = "replied" => server[s] = "replying"
    PROVE  LogInv' /\ OrderInv' /\ OrphanInv'
<1>1. server'[s] = stage /\ \A r \in Streams : r # s => server'[r] = server[r]
  BY DEF Inductive, TypeOK
<1>2. \A r \in Streams : Working(r)' => Working(r)
  BY <1>1 DEF Working
<1>3. \A i, j \in DOMAIN log : (Together(i, j)' <=> Together(i, j))
         /\ (Overlapped(i)' <=> Overlapped(i))
  BY DEF Together, Overlapped, ConversationOf
<1>4. LogInv'
  <2>1. ASSUME NEW i \in DOMAIN log
        PROVE  /\ server'[log[i].id] # "none"
               /\ log[i].role = "assistant" =>
                     server'[log[i].id] \in {"replying", "replied", "over"}
    <3>1. log[i].id \in Streams
      BY Messages DEF Inductive
    <3> QED
      BY <1>1, <3>1 DEF Inductive, LogInv
  <2>2. ASSUME NEW r \in Streams
        PROVE  /\ Working(r)' => \E i \in DOMAIN log : log[i] = QuestionOf(r)
               /\ server'[r] \in {"replying", "replied"} => HasReply(r)
    <3>1. server'[r] \in {"replying", "replied"} => server[r] \in {"replying", "replied"}
      BY <1>1
    <3> QED
      BY <1>2, <3>1 DEF Inductive, LogInv
  <2> QED
    BY <2>1, <2>2 DEF Inductive, LogInv, HasReply
<1>5. OrderInv'
  <2>1. \A i \in DOMAIN log : log[i].id \in Streams
    BY Messages DEF Inductive
  <2> QED
    BY <1>2, <1>3, <2>1 DEF Inductive, OrderInv
<1>6. OrphanInv'
  <2> SUFFICES ASSUME NEW i \in DOMAIN log, NEW k \in DOMAIN log,
                      i <= k, Together(i, k), ~Overlapped(k),
                      log[k].role = "user", log[k] \notin saved',
                      server'[log[k].id] = "working" \/ HasReply(log[k].id),
                      log[i] \in saved'
               PROVE  FALSE
    BY <1>3 DEF OrphanInv, HasReply
  <2>1. i \in Int /\ k \in Int /\ log[i] \in Row /\ log[k] \in Row
        /\ log[k].id \in Streams
    BY Messages DEF Inductive
  <2>2. ~(log[k].id = s /\ stage = "working")
    BY <2>1 DEF Inductive, LogInv, Row, QuestionOf
  <2>3. server[log[k].id] = "working" \/ HasReply(log[k].id)
    BY <1>1, <2>1, <2>2
  <2>4. log[i] \notin saved
    BY <2>3 DEF Inductive, OrphanInv
  <2>5. log[i].id = s /\ i < k
    BY <2>1, <2>4
  <2>6. ~Overlapped(i)
    BY DEF Overlapped, Together
  <2>7. log[k].id = s
    BY <2>5, <2>6 DEF Inductive, OrderInv
  <2>8. log[i].role = "assistant"
    BY <2>1, <2>5, <2>7 DEF Inductive, LogInv, Row
  <2>9. PICK q \in 1..i - 1 : log[q] = QuestionOf(s)
    BY <2>5, <2>8 DEF Inductive, LogInv
  <2>10. q \in DOMAIN log /\ q # k
    BY <2>1, <2>5, Messages DEF Inductive
  <2> QED
    BY <2>7, <2>9, <2>10 DEF Inductive, LogInv, QuestionOf
<1> QED
  BY <1>4, <1>5, <1>6

\* The events that come with a stage of a request.
Reports(s, stage, events) ==
    \/ events = <<>>
    \/ events = <<"status">> /\ stage = "working"
    \/ events = <<"text_delta">> /\ server[s] = "working" /\ stage = "over"
    \/ events = <<"final">> /\ server[s] = "replied" /\ stage = "over"

\* A request goes on without building a message.
LEMMA ReportKeeps ==
    ASSUME Inductive, NEW s \in Streams, Working(s),
           NEW stage \in {"working", "replied", "over"},
           NEW events, Reports(s, stage, events), Sends(s, events),
           server' = [server EXCEPT ![s] = stage],
           UNCHANGED <<page, restore, clear, calls, log, told, lost, overlap,
                       restarted, gestures>>,
           saved \subseteq saved', saved' \subseteq Range(log),
           \A m \in saved' : m \in saved \/ m.id = s,
           stage = "working" => server[s] = "asking" /\ QuestionOf(s) \in saved',
           stage = "replied" => /\ server[s] = "replying"
                                /\ \E i \in DOMAIN log :
                                      IsReply(log[i], s) /\ log[i] \in saved'
    PROVE  Inductive'
<1>1. server[s] # "over" /\ server[s] # "none" /\ calls[s].state # "unused"
  BY DEF Working, Inductive, CallsInv
<1>2. /\ s \notin told /\ ~Says(s, "final")
      /\ CallsInv' /\ PageInv' /\ RestoreInv' /\ BusyInv'
      /\ server'[s] = stage
      /\ \A r \in Streams : r # s => server'[r] = server[r]
  BY <1>1, ApiStep
<1>3. LogInv' /\ OrderInv' /\ OrphanInv'
  BY SavingKeeps
<1>4. /\ events \in Seq(Events)
      /\ \A i, j \in DOMAIN events : i < j => FALSE
      /\ \A e : (\E i \in DOMAIN events : events[i] = e) <=> <<e>> = events
      /\ server[s] = "working" => ~Says(s, "text_replace")
  <2>1. server[s] = "working" => ~Says(s, "text_replace")
    BY DEF Inductive, WireInv
  <2>2. CASE events = <<>>
    BY <2>1, <2>2
  <2>3. ASSUME NEW e \in Events, events = <<e>>
        PROVE  /\ events \in Seq(Events)
               /\ \A i, j \in DOMAIN events : i < j => FALSE
               /\ \A d : (\E i \in DOMAIN events : events[i] = d) <=> <<d>> = events
    <3>1. DOMAIN events = {1} /\ events[1] = e /\ events \in Seq(Events)
      BY <2>3
    <3>2. \A d : <<d>> = events <=> d = e
      BY <2>3
    <3> QED
      BY <3>1, <3>2
  <2> QED
    BY <2>1, <2>2, <2>3 DEF Reports, Events
<1>5. ~Says(s, "text_replace") \/ <<"text_delta">> # events
  BY <1>4 DEF Reports
<1>6. /\ wire' \in [Streams -> Seq(Events)]
      /\ \A r \in Streams : r # s => wire'[r] = wire[r]
      /\ \A r \in Streams : \A e : r # s => (Says(r, e)' <=> Says(r, e))
      /\ \A e : Says(s, e)' => Says(s, e) \/ <<e>> = events
      /\ calls[s].state = "attached" => \A e :
            Says(s, e)' <=> Says(s, e) \/ <<e>> = events
      /\ \A r \in Streams : \A i, j \in DOMAIN wire'[r] : i < j =>
            /\ wire'[r][i] # "final"
            /\ wire'[r][i] = "text_replace" => wire'[r][j] # "text_delta"
      /\ \A r \in Streams : r \in told => wire'[r] = <<>>
  <2>1. Says(s, "text_replace") => \A i \in DOMAIN events : events[i] # "text_delta"
    BY <1>4, <1>5
  <2>2. \A i, j \in DOMAIN events : i < j =>
           /\ events[i] # "final"
           /\ events[i] = "text_replace" => events[j] # "text_delta"
    BY <1>4
  <2>3. events \in Seq(Events)
    BY <1>4
  <2>4. /\ wire' \in [Streams -> Seq(Events)]
        /\ \A r \in Streams : r # s => wire'[r] = wire[r]
        /\ \A r \in Streams : \A e : r # s => (Says(r, e)' <=> Says(r, e))
        /\ \A e : Says(s, e)' =>
              Says(s, e) \/ \E i \in DOMAIN events : events[i] = e
        /\ calls[s].state = "attached" => \A e :
              Says(s, e)' <=> Says(s, e) \/ \E i \in DOMAIN events : events[i] = e
        /\ \A r \in Streams : \A i, j \in DOMAIN wire'[r] : i < j =>
              /\ wire'[r][i] # "final"
              /\ wire'[r][i] = "text_replace" => wire'[r][j] # "text_delta"
        /\ \A r \in Streams : r \in told => wire'[r] = <<>>
    BY <1>2, <2>1, <2>2, <2>3, SendsInOrder
  <2> QED
    BY <1>4, <2>4
<1>7. \A e : <<e>> = events =>
          \/ e = "status" /\ stage = "working"
          \/ e = "text_delta" /\ server[s] = "working" /\ stage = "over"
          \/ e = "final" /\ server[s] = "replied" /\ stage = "over"
  <2>1. \A d, e : (<<e>> = <<d>> => e = d) /\ <<e>> # <<>>
    OBVIOUS
  <2> QED
    BY <2>1, Zenon DEF Reports
<1>8. TypeOK'
  <2>1. server' \in [Streams -> {"none", "asking", "working", "replying",
                                 "replied", "over"}]
    BY DEF Inductive, TypeOK
  <2> QED
    BY <1>6, <2>1 DEF Inductive, TypeOK, Events
<1>9. SavedInv'
  <2>1. \A r \in Streams : r # s => (Stored(r) => Stored(r)')
    BY DEF Stored
  <2>2. \A r \in Streams : r # s => (Says(r, "final")' <=> Says(r, "final"))
    BY <1>6
  <2>3. Says(s, "final")' => server[s] = "replied" /\ stage = "over"
    BY <1>2, <1>6, <1>7
  <2>4. server[s] = "replied" => HasReply(s)
    BY DEF Inductive, LogInv
  <2>5. \A r \in Streams : HasReply(r)' <=> HasReply(r)
    BY DEF HasReply
  <2>6. s \notin lost /\ server[s] = "replied" => Stored(s)'
    BY DEF Inductive, SavedInv, Stored
  <2>7. ASSUME stage \in {"working", "replied"}, s \notin lost PROVE Stored(s)'
    <3> SUFFICES ASSUME NEW i \in DOMAIN log, log[i].id = s PROVE log[i] \in saved'
      BY DEF Stored
    <3>1. log[i] \in Row
      BY Messages DEF Inductive
    <3>2. CASE log[i].role = "user"
      <4>1. log[i] = QuestionOf(s)
        BY <3>1, <3>2 DEF Inductive, LogInv, Row, QuestionOf
      <4>2. server[s] = "replying" => QuestionOf(s) \in saved
        BY <2>7 DEF Inductive, SavedInv
      <4> QED
        BY <2>7, <4>1, <4>2
    <3>3. CASE log[i].role = "assistant"
      <4>1. stage = "replied"
        BY <2>7, <3>3 DEF Inductive, LogInv
      <4>2. PICK j \in DOMAIN log : IsReply(log[j], s) /\ log[j] \in saved'
        BY <4>1
      <4>3. i = j
        BY <3>3, <4>2 DEF Inductive, LogInv, IsReply
      <4> QED
        BY <4>2, <4>3
    <3> QED
      BY <3>1, <3>2, <3>3 DEF Row
  <2>8. ASSUME NEW r \in Streams, r # s
        PROVE  /\ (Says(r, "final") \/ r \in told)' =>
                     (server[r] = "over" /\ HasReply(r))'
               /\ r \notin lost' =>
                     /\ server'[r] \in {"working", "replied"} => Stored(r)'
                     /\ server'[r] = "replying" => QuestionOf(r) \in saved'
                     /\ (Says(r, "final") \/ r \in told)' => Stored(r)'
    BY <1>2, <2>1, <2>2, <2>5, <2>8 DEF Inductive, SavedInv
  <2>9. /\ (Says(s, "final") \/ s \in told)' => (server[s] = "over" /\ HasReply(s))'
        /\ s \notin lost' =>
              /\ server'[s] \in {"working", "replied"} => Stored(s)'
              /\ server'[s] # "replying"
              /\ (Says(s, "final") \/ s \in told)' => Stored(s)'
    BY <1>2, <2>3, <2>4, <2>5, <2>6, <2>7
  <2>10. \A r : QuestionOf(r)' = QuestionOf(r)
    BY DEF QuestionOf
  <2> QED
    BY <2>8, <2>9, <2>10 DEF SavedInv
<1>10. WireInv'
  <2>1. server'[s] = "working" => ~Says(s, "text_delta")' /\ ~Says(s, "text_replace")'
    <3> SUFFICES ASSUME stage = "working"
                 PROVE  ~Says(s, "text_delta")' /\ ~Says(s, "text_replace")'
      BY <1>2
    <3>1. \A e : ~Says(s, e)
      BY DEF Inductive, WireInv, Says
    <3> QED
      BY <1>6, <1>7, <3>1
  <2> QED
    BY <1>2, <1>6, <2>1 DEF Inductive, WireInv
<1>11. TextInv'
  <2>1. \A t : Shows(t)' <=> Shows(t)
    BY DEF Shows
  <2>2. ASSUME NEW i \in DOMAIN log, IsReply(log[i], s), calls[s].state = "attached"
        PROVE  \A e \in {"text_delta", "text_replace"} : Says(s, e)' <=> Says(s, e)
    <3>1. server[s] # "working"
      BY <2>2 DEF Inductive, LogInv, IsReply
    <3> QED
      BY <1>6, <1>7, <2>2, <3>1
  <2>3. ASSUME NEW r \in Streams, calls[r].state = "attached",
               NEW i \in DOMAIN log, IsReply(log[i], r)
        PROVE  \A e \in {"text_delta", "text_replace"} : Says(r, e)' <=> Says(r, e)
    BY <1>6, <2>2, <2>3
  <2> QED
    BY <2>1, <2>3 DEF Inductive, TextInv
<1> QED
  BY <1>2, <1>3, <1>8, <1>9, <1>10, <1>11 DEF Inductive

LEMMA SaveQuestionKeeps ==
    ASSUME Inductive, NEW s \in Streams, SaveQuestion(s)
    PROVE  Inductive'
<1>1. PICK i \in DOMAIN log : LastOf(s) = log[i] /\ log[i] = QuestionOf(s)
  BY LastOfIs DEF SaveQuestion
<1>2. saved' = saved \cup {log[i]} /\ log[i].id = s /\ log[i] \in Range(log)
  BY <1>1 DEF SaveQuestion, QuestionOf, Range
<1> QED
  BY <1>1, <1>2, ReportKeeps DEF SaveQuestion, Working, Reports, Inductive, TypeOK

LEMMA SaveAnswerKeeps ==
    ASSUME Inductive, NEW s \in Streams, SaveAnswer(s)
    PROVE  Inductive'
<1>1. PICK i \in DOMAIN log : LastOf(s) = log[i] /\ IsReply(log[i], s)
  BY LastOfIs DEF SaveAnswer
<1>2. saved' = saved \cup {log[i]} /\ log[i].id = s /\ log[i] \in Range(log)
  BY <1>1 DEF SaveAnswer, IsReply, Range
<1>3. Sends(s, <<>>)
  <2>1. PICK sent \in Seq(Events) : sent = wire[s]
    BY DEF Inductive, TypeOK, Events
  <2>2. sent \o <<>> = sent
    OBVIOUS
  <2> QED
    BY <2>1, <2>2 DEF SaveAnswer, Sends, Inductive, TypeOK
<1> QED
  BY <1>1, <1>2, <1>3, ReportKeeps DEF SaveAnswer, Working, Reports, Inductive, TypeOK

LEMMA AnnounceKeeps ==
    ASSUME Inductive, NEW s \in Streams, Announce(s)
    PROVE  Inductive'
BY ReportKeeps DEF Announce, Working, Reports, Inductive, TypeOK

LEMMA GiveUpKeeps ==
    ASSUME Inductive, NEW s \in Streams, GiveUp(s)
    PROVE  Inductive'
<1>1. PICK events : Reports(s, "over", events) /\ Sends(s, events)
  BY DEF GiveUp, Reports
<1>2. /\ saved \subseteq saved' /\ saved' \subseteq Range(log)
      /\ \A m \in saved' : m \in saved \/ m.id = s
  <2>1. CASE saved' = saved
    BY <2>1 DEF Inductive, TypeOK
  <2>2. CASE server[s] \in {"asking", "replying"} /\ saved' = saved \cup {LastOf(s)}
    <3>1. PICK i \in DOMAIN log : LastOf(s) = log[i] /\ log[i].id = s
      BY <2>2, LastOfIs
    <3> QED
      BY <2>2, <3>1 DEF Inductive, TypeOK, Range
  <2> QED
    BY <2>1, <2>2 DEF GiveUp
<1> QED
  BY <1>1, <1>2, ReportKeeps DEF GiveUp

\* The log when a message is built.
LEMMA Built ==
    ASSUME TypeOK, NEW s \in Streams, NEW role \in {"user", "assistant"},
           NEW text \in Text, Build(s, role, text)
    PROVE  /\ log' \in Seq(Row) /\ Range(log) \subseteq Range(log')
           /\ DOMAIN log' = DOMAIN log \cup {Len(log) + 1}
           /\ Len(log) + 1 \notin DOMAIN log
           /\ \A i \in DOMAIN log : i \in Int /\ i < Len(log) + 1 /\ log'[i] = log[i]
           /\ log'[Len(log) + 1] = [id |-> s, role |-> role, text |-> text]
<1>1. ASSUME NEW old \in Seq(Row), NEW m \in Row, NEW new, new = Append(old, m)
      PROVE  /\ new \in Seq(Row)
             /\ DOMAIN new = DOMAIN old \cup {Len(old) + 1}
             /\ Len(old) + 1 \notin DOMAIN old
             /\ \A i \in DOMAIN old : i \in Int /\ i < Len(old) + 1 /\ new[i] = old[i]
             /\ new[Len(old) + 1] = m
  BY <1>1
<1>2. PICK old \in Seq(Row) : old = log
  BY DEF TypeOK
<1>3. PICK m \in Row : m = [id |-> s, role |-> role, text |-> text]
  BY DEF Row
<1>4. PICK new : new = log'
  OBVIOUS
<1>5. new = Append(old, m)
  BY <1>2, <1>3, <1>4 DEF Build
<1>6. /\ new \in Seq(Row)
      /\ DOMAIN new = DOMAIN old \cup {Len(old) + 1}
      /\ Len(old) + 1 \notin DOMAIN old
      /\ \A i \in DOMAIN old : i \in Int /\ i < Len(old) + 1 /\ new[i] = old[i]
      /\ new[Len(old) + 1] = m
  BY <1>1, <1>5
<1>7. Range(log) \subseteq Range(log')
  BY <1>2, <1>4, <1>6 DEF Range
<1> QED
  BY <1>2, <1>3, <1>4, <1>6, <1>7

LEMMA AskKeeps ==
    ASSUME Inductive, NEW s \in Streams, Ask(s)
    PROVE  Inductive'
<1> DEFINE last == Len(log) + 1
<1>1. /\ calls[s].state # "unused" /\ server[s] = "none"
      /\ server' = [server EXCEPT ![s] = "asking"]
      /\ UNCHANGED <<page, restore, clear, calls, wire, saved, told, lost,
                     restarted, gestures>>
      /\ overlap \subseteq overlap' /\ overlap' \subseteq overlap \cup {ConversationOf(s)}
      /\ ConversationOf(s) \in overlap' \/ \A t \in Streams :
            Working(t) => ConversationOf(t) # ConversationOf(s)
  BY DEF Ask
<1>2. /\ log' \in Seq(Row) /\ Range(log) \subseteq Range(log')
      /\ DOMAIN log' = DOMAIN log \cup {last} /\ last \notin DOMAIN log
      /\ last \in Int
      /\ \A i \in DOMAIN log : i \in Int /\ i < last /\ log'[i] = log[i]
      /\ log'[last] = QuestionOf(s)
  <2>1. Build(s, "user", "none") /\ "none" \in Text
    BY DEF Ask, Text
  <2> QED
    <3>1. Len(log) \in Nat
      BY Messages DEF Inductive
    <3>2. /\ log' \in Seq(Row) /\ Range(log) \subseteq Range(log')
          /\ DOMAIN log' = DOMAIN log \cup {last} /\ last \notin DOMAIN log
          /\ \A i \in DOMAIN log : i \in Int /\ i < last /\ log'[i] = log[i]
          /\ log'[last] = [id |-> s, role |-> "user", text |-> "none"]
      BY <2>1, Built DEF Inductive
    <3> QED
      BY <3>1, <3>2 DEF QuestionOf
<1> HIDE DEF last
<1>3. /\ s \notin told /\ ~Says(s, "final")
      /\ CallsInv' /\ PageInv' /\ RestoreInv' /\ BusyInv'
      /\ server'[s] = "asking"
      /\ \A r \in Streams : r # s => server'[r] = server[r]
  <2>1. \A i \in DOMAIN log' : (i \in DOMAIN log /\ log'[i] = log[i]) \/ log'[i].id = s
    BY <1>2 DEF QuestionOf
  <2> QED
    BY <1>1, <2>1, ApiStep
<1>4. \A i \in DOMAIN log :
         log[i].id \in Streams /\ log[i].id # s /\ log'[i].id = log[i].id
  BY <1>1, <1>2, Messages DEF Inductive, LogInv
<1>5. \A r : HasReply(r)' <=> HasReply(r)
  BY <1>2, <1>4 DEF HasReply, IsReply, QuestionOf
<1>6. log'[last].id = s /\ log'[last].role = "user" /\ log'[last].text = "none"
  BY <1>2 DEF QuestionOf
<1>7. TypeOK'
  <2>1. server' \in [Streams -> {"none", "asking", "working", "replying",
                                 "replied", "over"}]
    BY <1>1 DEF Inductive, TypeOK
  <2>2. ConversationOf(s) \in Conversations
    BY <1>1 DEF ConversationOf, Inductive, TypeOK, CallsInv
  <2>3. overlap' \subseteq Conversations
    BY <1>1, <2>2 DEF Inductive, TypeOK
  <2>4. saved' \subseteq Range(log')
    BY <1>1, <1>2 DEF Inductive, TypeOK
  <2> QED
    BY <1>1, <1>2, <2>1, <2>3, <2>4 DEF Inductive, TypeOK
<1>8. LogInv'
  <2>1. ASSUME NEW i \in DOMAIN log', NEW j \in DOMAIN log',
               log'[i].id = log'[j].id, log'[i].role = log'[j].role
        PROVE  i = j
    BY <1>2, <1>4, <1>6, <2>1 DEF Inductive, LogInv
  <2>2. ASSUME NEW i \in DOMAIN log'
        PROVE  /\ server'[log'[i].id] # "none"
               /\ log'[i].role = "user" => log'[i].text = "none"
               /\ log'[i].role = "assistant" =>
                     /\ log'[i].text \in {"streamed", "fallback"}
                     /\ server'[log'[i].id] \in {"replying", "replied", "over"}
                     /\ \E k \in 1..i - 1 : log'[k] = QuestionOf(log'[i].id)
    <3>1. CASE i = last
      BY <1>3, <1>6, <3>1
    <3>2. CASE i \in DOMAIN log
      <4>1. \A k \in 1..i - 1 : log'[k] = log[k]
        BY <1>2, <3>2, Messages DEF Inductive
      <4> QED
        BY <1>2, <1>3, <1>4, <3>2, <4>1 DEF Inductive, LogInv
    <3> QED
      BY <1>2, <3>1, <3>2
  <2>3. ASSUME NEW r \in Streams
        PROVE  /\ Working(r)' => \E i \in DOMAIN log' : log'[i] = QuestionOf(r)
               /\ server'[r] \in {"replying", "replied"} => HasReply(r)'
    <3>1. CASE r = s
      BY <1>2, <1>3, <3>1
    <3>2. CASE r # s
      <4>1. (Working(r)' <=> Working(r)) /\ server'[r] = server[r]
        BY <1>3, <3>2 DEF Working
      <4>2. Working(r) => \E i \in DOMAIN log : log[i] = QuestionOf(r)
        BY DEF Inductive, LogInv
      <4>3. server[r] \in {"replying", "replied"} => HasReply(r)
        BY DEF Inductive, LogInv
      <4> QED
        BY <1>2, <1>5, <4>1, <4>2, <4>3
    <3> QED
      BY <3>1, <3>2
  <2>4. \A r : QuestionOf(r)' = QuestionOf(r)
    BY DEF QuestionOf
  <2> QED
    BY <2>1, <2>2, <2>3, <2>4 DEF LogInv
<1>9. OrderInv'
  <2>1. ASSUME NEW i \in DOMAIN log', NEW j \in DOMAIN log', i < j,
               Together(i, j)', Working(log[i].id)'
        PROVE  log'[j].id = log'[i].id \/ Overlapped(i)'
    <3>1. i \in DOMAIN log
      BY <1>2, <2>1
    <3>2. Working(log[i].id)
      BY <1>3, <1>4, <2>1, <3>1 DEF Working
    <3>3. CASE j \in DOMAIN log
      <4>1. Together(i, j) /\ (Overlapped(i) => Overlapped(i)')
        BY <1>1, <1>4, <2>1, <3>1, <3>3 DEF Together, Overlapped, ConversationOf
      <4>2. log[j].id = log[i].id \/ Overlapped(i)
        BY <2>1, <3>1, <3>2, <3>3, <4>1 DEF Inductive, OrderInv
      <4> QED
        BY <1>4, <3>1, <3>3, <4>1, <4>2
    <3>4. CASE j = last
      <4>1. calls[log[i].id].conv = calls[s].conv
        BY <1>1, <1>4, <1>6, <2>1, <3>1, <3>4 DEF Together, ConversationOf
      <4>2. ConversationOf(s) \in overlap'
        BY <1>1, <1>4, <3>1, <3>2, <4>1 DEF ConversationOf
      <4> QED
        BY <1>1, <1>4, <3>1, <4>1, <4>2 DEF Overlapped, ConversationOf
    <3> QED
      BY <1>2, <3>3, <3>4
  <2>2. ASSUME NEW i \in DOMAIN log', NEW j \in DOMAIN log', NEW k \in DOMAIN log',
               i < j, j < k, log'[i].id = log'[k].id, Together(i, j)'
        PROVE  log'[j].id = log'[i].id \/ Overlapped(i)'
    <3>1. i \in DOMAIN log /\ j \in DOMAIN log
      BY <1>2, <2>2
    <3>2. k \in DOMAIN log
      BY <1>2, <1>4, <1>6, <2>2, <3>1
    <3> QED
      <4>1. Together(i, j) /\ (Overlapped(i) => Overlapped(i)')
        BY <1>1, <1>4, <2>2, <3>1 DEF Together, Overlapped, ConversationOf
      <4>2. log[i].id = log[k].id
        BY <1>4, <2>2, <3>1, <3>2
      <4>3. log[j].id = log[i].id \/ Overlapped(i)
        BY <2>2, <3>1, <3>2, <4>1, <4>2 DEF Inductive, OrderInv
      <4> QED
        BY <1>4, <3>1, <4>1, <4>3
  <2> QED
    BY <2>1, <2>2 DEF OrderInv
<1>10. OrphanInv'
  <2> SUFFICES ASSUME NEW i \in DOMAIN log', NEW k \in DOMAIN log',
                      i <= k, Together(i, k)', ~Overlapped(k)',
                      log'[k].role = "user", log'[k] \notin saved',
                      server'[log'[k].id] = "working" \/ HasReply(log[k].id)'
               PROVE  log'[i] \notin saved'
    BY DEF OrphanInv
  <2>1. k \in DOMAIN log
    <3> SUFFICES ASSUME k = last PROVE FALSE
      BY <1>2
    <3>1. HasReply(s)
      BY <1>3, <1>5, <1>6
    <3> QED
      BY <1>4, <3>1 DEF HasReply, IsReply
  <2>2. i \in DOMAIN log
    BY <1>2, <2>1
  <2> QED
    <3>1. Together(i, k) /\ ~Overlapped(k)
      BY <1>1, <1>4, <2>1, <2>2 DEF Together, Overlapped, ConversationOf
    <3>2. log'[k] = log[k] /\ log'[i] = log[i] /\ log[k].id \in Streams \ {s}
      BY <1>2, <1>4, <2>1, <2>2
    <3>3. server[log[k].id] = "working" \/ HasReply(log[k].id)
      BY <1>3, <1>5, <3>2
    <3> QED
      BY <1>1, <2>1, <2>2, <3>1, <3>2, <3>3 DEF Inductive, OrphanInv
<1>11. SavedInv' /\ WireInv' /\ TextInv'
  <2>1. \A r \in Streams : r # s => (Stored(r)' <=> Stored(r))
    BY <1>1, <1>2, <1>4, <1>6 DEF Stored
  <2>2. \A r, e : Says(r, e)' <=> Says(r, e)
    BY <1>1 DEF Says
  <2>3. \A r : QuestionOf(r)' = QuestionOf(r)
    BY DEF QuestionOf
  <2>4. SavedInv'
    BY <1>1, <1>3, <1>5, <2>1, <2>2, <2>3 DEF Inductive, SavedInv
  <2>5. WireInv'
    BY <1>1, <1>3, <2>2 DEF Inductive, WireInv
  <2>6. \A t : Shows(t)' <=> Shows(t)
    BY <1>2, <1>4, <1>6 DEF Shows, IsReply
  <2>7. \A i \in DOMAIN log' : \A r : IsReply(log'[i], r) =>
           i \in DOMAIN log /\ log'[i] = log[i]
    BY <1>2, <1>6 DEF IsReply
  <2>8. TextInv'
    BY <1>1, <2>2, <2>6, <2>7 DEF Inductive, TextInv
  <2> QED
    BY <2>4, <2>5, <2>8
<1> QED
  BY <1>3, <1>7, <1>8, <1>9, <1>10, <1>11 DEF Inductive

\* What a decision sends.
Provisional(text) ==
    IF text = "streamed" THEN <<"text_delta">> ELSE <<"text_delta", "text_replace">>

LEMMA DecideKeeps ==
    ASSUME Inductive, NEW s \in Streams, Decide(s)
    PROVE  Inductive'
<1> DEFINE last == Len(log) + 1
<1>1. /\ server[s] = "working" /\ calls[s].state # "unused"
      /\ server' = [server EXCEPT ![s] = "replying"]
      /\ UNCHANGED <<page, restore, clear, calls, saved, told, lost, overlap,
                     restarted, gestures>>
  BY DEF Decide, Inductive, CallsInv
<1>2. PICK text \in {"streamed", "fallback"} :
         Sends(s, Provisional(text)) /\ Build(s, "assistant", text)
  <2>1. CASE Sends(s, <<"text_delta">>) /\ Build(s, "assistant", "streamed")
    BY <2>1 DEF Provisional
  <2>2. CASE /\ Sends(s, <<"text_delta", "text_replace">>)
             /\ Build(s, "assistant", "fallback")
    BY <2>2 DEF Provisional
  <2> QED
    BY <2>1, <2>2 DEF Decide
<1>3. /\ log' \in Seq(Row) /\ Range(log) \subseteq Range(log')
      /\ DOMAIN log' = DOMAIN log \cup {last} /\ last \notin DOMAIN log
      /\ last \in Int
      /\ \A i \in DOMAIN log : i \in Int /\ i < last /\ log'[i] = log[i]
      /\ log'[last].id = s /\ log'[last].role = "assistant"
      /\ log'[last].text = text
  <2>1. /\ log' \in Seq(Row) /\ Range(log) \subseteq Range(log')
        /\ DOMAIN log' = DOMAIN log \cup {last} /\ last \notin DOMAIN log
        /\ \A i \in DOMAIN log : i \in Int /\ i < last /\ log'[i] = log[i]
        /\ log'[last] = [id |-> s, role |-> "assistant", text |-> text]
    <3>1. text \in Text
      BY DEF Text
    <3> QED
      BY <1>2, <3>1, Built DEF Inductive
  <2>2. Len(log) \in Nat
    BY Messages DEF Inductive
  <2> QED
    BY <2>1, <2>2
<1> HIDE DEF last
<1>4. /\ s \notin told /\ ~Says(s, "final")
      /\ CallsInv' /\ PageInv' /\ RestoreInv' /\ BusyInv'
      /\ server'[s] = "replying"
      /\ \A r \in Streams : r # s => server'[r] = server[r]
  <2>1. \A i \in DOMAIN log' : (i \in DOMAIN log /\ log'[i] = log[i]) \/ log'[i].id = s
    BY <1>3
  <2> QED
    BY <1>1, <2>1, ApiStep
<1>5. \A i \in DOMAIN log :
         /\ log[i].id \in Streams /\ log'[i].id = log[i].id
         /\ log[i].id = s => log[i].role # "assistant"
  BY <1>1, <1>3, Messages DEF Inductive, LogInv
<1>6. PICK asked \in DOMAIN log : log[asked] = QuestionOf(s) /\ log[asked].id = s
  BY <1>1 DEF Inductive, LogInv, Working, QuestionOf
<1>7. /\ wire' \in [Streams -> Seq(Events)]
      /\ \A r \in Streams : r # s => wire'[r] = wire[r]
      /\ \A r \in Streams : \A e : r # s => (Says(r, e)' <=> Says(r, e))
      /\ calls[s].state = "attached" =>
            /\ Says(s, "text_delta")'
            /\ Says(s, "text_replace")' <=> text = "fallback"
      /\ ~Says(s, "final")'
      /\ \A r \in Streams : \A i, j \in DOMAIN wire'[r] : i < j =>
            /\ wire'[r][i] # "final"
            /\ wire'[r][i] = "text_replace" => wire'[r][j] # "text_delta"
      /\ \A r \in Streams : r \in told => wire'[r] = <<>>
  <2>1. PICK events : events = Provisional(text)
    OBVIOUS
  <2>2. /\ events \in Seq(Events) /\ events[1] = "text_delta"
        /\ DOMAIN events = IF text = "streamed" THEN {1} ELSE {1, 2}
        /\ text = "fallback" => events[2] = "text_replace"
    <3>1. CASE text = "streamed"
      <4>1. events = <<"text_delta">>
        BY <2>1, <3>1 DEF Provisional
      <4> QED
        BY <3>1, <4>1 DEF Events
    <3>2. CASE text = "fallback"
      <4>1. events = <<"text_delta", "text_replace">>
        BY <2>1, <3>2 DEF Provisional
      <4> QED
        BY <3>2, <4>1 DEF Events
    <3> QED
      BY <3>1, <3>2
  <2>3. ~Says(s, "text_replace") /\ ~Says(s, "text_delta")
    BY <1>1 DEF Inductive, WireInv
  <2>4. \A i, j \in DOMAIN events : i < j =>
           /\ events[i] # "final"
           /\ events[i] = "text_replace" => events[j] # "text_delta"
    BY <2>2
  <2>5. /\ wire' \in [Streams -> Seq(Events)]
        /\ \A r \in Streams : r # s => wire'[r] = wire[r]
        /\ \A r \in Streams : \A e : r # s => (Says(r, e)' <=> Says(r, e))
        /\ \A e : Says(s, e)' =>
              Says(s, e) \/ \E i \in DOMAIN events : events[i] = e
        /\ calls[s].state = "attached" => \A e :
              Says(s, e)' <=> Says(s, e) \/ \E i \in DOMAIN events : events[i] = e
        /\ \A r \in Streams : \A i, j \in DOMAIN wire'[r] : i < j =>
              /\ wire'[r][i] # "final"
              /\ wire'[r][i] = "text_replace" => wire'[r][j] # "text_delta"
        /\ \A r \in Streams : r \in told => wire'[r] = <<>>
    BY <1>2, <1>4, <2>1, <2>2, <2>3, <2>4, SendsInOrder
  <2>6. \A i \in DOMAIN events : events[i] # "final"
    BY <2>2
  <2>7. \E i \in DOMAIN events : events[i] = "text_delta"
    BY <2>2
  <2>8. (\E i \in DOMAIN events : events[i] = "text_replace") <=> text = "fallback"
    BY <2>2
  <2> QED
    BY <1>4, <2>3, <2>5, <2>6, <2>7, <2>8
<1>8. TypeOK'
  <2>1. server' \in [Streams -> {"none", "asking", "working", "replying",
                                 "replied", "over"}]
    BY <1>1 DEF Inductive, TypeOK
  <2>2. saved' \subseteq Range(log')
    BY <1>1, <1>3 DEF Inductive, TypeOK
  <2> QED
    BY <1>1, <1>3, <1>7, <2>1, <2>2 DEF Inductive, TypeOK, Events
<1>9. LogInv'
  <2>1. ASSUME NEW i \in DOMAIN log', NEW j \in DOMAIN log',
               log'[i].id = log'[j].id, log'[i].role = log'[j].role
        PROVE  i = j
    BY <1>3, <1>5, <2>1 DEF Inductive, LogInv
  <2>2. ASSUME NEW i \in DOMAIN log'
        PROVE  /\ server'[log'[i].id] # "none"
               /\ log'[i].role = "user" => log'[i].text = "none"
               /\ log'[i].role = "assistant" =>
                     /\ log'[i].text \in {"streamed", "fallback"}
                     /\ server'[log'[i].id] \in {"replying", "replied", "over"}
                     /\ \E k \in 1..i - 1 : log'[k] = QuestionOf(log'[i].id)
    <3>1. CASE i = last
      <4>1. asked \in 1..last - 1 /\ log'[asked] = QuestionOf(s)
        BY <1>3, <1>6, Messages DEF Inductive
      <4> QED
        BY <1>3, <1>4, <3>1, <4>1
    <3>2. CASE i \in DOMAIN log
      <4>1. \A k \in 1..i - 1 : log'[k] = log[k]
        BY <1>3, <3>2, Messages DEF Inductive
      <4> QED
        BY <1>3, <1>4, <1>5, <3>2, <4>1 DEF Inductive, LogInv
    <3> QED
      BY <1>3, <3>1, <3>2
  <2>3. ASSUME NEW r \in Streams
        PROVE  /\ Working(r)' => \E i \in DOMAIN log' : log'[i] = QuestionOf(r)
               /\ server'[r] \in {"replying", "replied"} => HasReply(r)'
    <3>1. CASE r = s
      <4>1. HasReply(s)'
        BY <1>3 DEF HasReply, IsReply
      <4> QED
        BY <1>3, <1>6, <3>1, <4>1
    <3>2. CASE r # s
      <4>1. (Working(r)' <=> Working(r)) /\ server'[r] = server[r]
        BY <1>4, <3>2 DEF Working
      <4>2. Working(r) => \E i \in DOMAIN log : log[i] = QuestionOf(r)
        BY DEF Inductive, LogInv
      <4>3. server[r] \in {"replying", "replied"} => HasReply(r)
        BY DEF Inductive, LogInv
      <4>4. HasReply(r) => HasReply(r)'
        BY <1>3 DEF HasReply
      <4> QED
        BY <1>3, <4>1, <4>2, <4>3, <4>4
    <3> QED
      BY <3>1, <3>2
  <2>4. \A r : QuestionOf(r)' = QuestionOf(r)
    BY DEF QuestionOf
  <2> QED
    BY <2>1, <2>2, <2>3, <2>4 DEF LogInv
<1>10. Working(s) /\ \A r \in Streams : Working(r)' => Working(r)
  BY <1>1, <1>4 DEF Working
<1>11. OrderInv'
  <2>1. ASSUME NEW i \in DOMAIN log', NEW j \in DOMAIN log', i < j,
               Together(i, j)', Working(log[i].id)'
        PROVE  log'[j].id = log'[i].id \/ Overlapped(i)'
    <3>1. i \in DOMAIN log
      BY <1>3, <2>1
    <3>2. Working(log[i].id) /\ (Overlapped(i)' <=> Overlapped(i))
      BY <1>1, <1>4, <1>5, <2>1, <3>1 DEF Working, Overlapped, ConversationOf
    <3>3. CASE j \in DOMAIN log
      <4>1. Together(i, j)
        BY <1>1, <1>5, <2>1, <3>1, <3>3 DEF Together, ConversationOf
      <4>2. log[j].id = log[i].id \/ Overlapped(i)
        BY <2>1, <3>1, <3>2, <3>3, <4>1 DEF Inductive, OrderInv
      <4> QED
        BY <1>5, <3>1, <3>2, <3>3, <4>2
    <3>4. CASE j = last /\ log[i].id # s
      <4>1. /\ Together(i, asked) /\ Together(asked, i)
            /\ Overlapped(asked) <=> Overlapped(i)
        BY <1>1, <1>3, <1>5, <1>6, <2>1, <3>1, <3>4
           DEF Together, Overlapped, ConversationOf
      <4>2. i \in Int /\ asked \in Int /\ i # asked
        BY <1>3, <1>6, <3>1, <3>4
      <4>3. Overlapped(i)
        BY <1>6, <1>10, <3>1, <3>2, <3>4, <4>1, <4>2 DEF Inductive, OrderInv
      <4> QED
        BY <3>2, <4>3
    <3> QED
      BY <1>3, <1>5, <3>1, <3>3, <3>4
  <2>2. ASSUME NEW i \in DOMAIN log', NEW j \in DOMAIN log', NEW k \in DOMAIN log',
               i < j, j < k, log'[i].id = log'[k].id, Together(i, j)'
        PROVE  log'[j].id = log'[i].id \/ Overlapped(i)'
    <3>1. i \in DOMAIN log /\ j \in DOMAIN log
      BY <1>3, <2>2
    <3>2. Together(i, j) /\ (Overlapped(i)' <=> Overlapped(i))
      BY <1>1, <1>5, <2>2, <3>1 DEF Together, Overlapped, ConversationOf
    <3>3. CASE k \in DOMAIN log
      <4>1. log[i].id = log[k].id
        BY <1>5, <2>2, <3>1, <3>3
      <4> QED
        BY <1>5, <2>2, <3>1, <3>2, <3>3, <4>1 DEF Inductive, OrderInv
    <3>4. CASE k = last
      <4>1. Working(log[i].id)
        BY <1>3, <1>5, <1>10, <2>2, <3>1, <3>4
      <4> QED
        BY <1>5, <2>2, <3>1, <3>2, <4>1 DEF Inductive, OrderInv
    <3> QED
      BY <1>3, <3>3, <3>4
  <2> QED
    BY <2>1, <2>2 DEF OrderInv
<1>12. OrphanInv'
  <2> SUFFICES ASSUME NEW i \in DOMAIN log', NEW k \in DOMAIN log',
                      i <= k, Together(i, k)', ~Overlapped(k)',
                      log'[k].role = "user", log'[k] \notin saved',
                      server'[log'[k].id] = "working" \/ HasReply(log[k].id)'
               PROVE  log'[i] \notin saved'
    BY DEF OrphanInv
  <2>1. k \in DOMAIN log
    BY <1>3
  <2>2. i \in DOMAIN log
    BY <1>3, <2>1
  <2>3. Together(i, k) /\ ~Overlapped(k)
    BY <1>1, <1>5, <2>1, <2>2 DEF Together, Overlapped, ConversationOf
  <2>4. log'[k] = log[k] /\ log'[i] = log[i] /\ log[k].id \in Streams
    BY <1>3, <1>5, <2>1, <2>2
  <2>5. server[log[k].id] = "working" \/ HasReply(log[k].id)
    <3>1. CASE log[k].id = s
      BY <1>1, <3>1
    <3>2. CASE log[k].id # s
      <4>1. HasReply(log[k].id)' => HasReply(log[k].id)
        BY <1>3, <2>4, <3>2 DEF HasReply, IsReply
      <4> QED
        BY <1>4, <2>4, <3>2, <4>1
    <3> QED
      BY <3>1, <3>2
  <2> QED
    BY <1>1, <2>1, <2>2, <2>3, <2>4, <2>5 DEF Inductive, OrphanInv
<1>13. SavedInv' /\ WireInv' /\ TextInv'
  <2>1. \A r \in Streams : r # s =>
           (Stored(r)' <=> Stored(r)) /\ (HasReply(r)' <=> HasReply(r))
    BY <1>1, <1>3, <1>5 DEF Stored, HasReply, IsReply
  <2>2. \A r : QuestionOf(r)' = QuestionOf(r)
    BY DEF QuestionOf
  <2>3. s \notin lost => QuestionOf(s) \in saved
    BY <1>1, <1>6 DEF Inductive, SavedInv, Stored
  <2>4. SavedInv'
    BY <1>1, <1>4, <1>7, <2>1, <2>2, <2>3 DEF Inductive, SavedInv
  <2>5. WireInv'
    BY <1>1, <1>4, <1>7 DEF Inductive, WireInv
  <2>6. \A t : t.id # s => (Shows(t)' <=> Shows(t))
    BY <1>3, <1>5 DEF Shows, IsReply
  <2>7. \A i \in DOMAIN log', r \in Streams : IsReply(log'[i], r) =>
           \/ r = s /\ log'[i].text = text
           \/ r # s /\ i \in DOMAIN log /\ log'[i] = log[i]
    BY <1>3, <1>5 DEF IsReply
  <2>8. TextInv'
    BY <1>1, <1>2, <1>7, <2>6, <2>7 DEF Inductive, TextInv
  <2> QED
    BY <2>4, <2>5, <2>8
<1> QED
  BY <1>4, <1>8, <1>9, <1>11, <1>12, <1>13 DEF Inductive

-----------------------------------------------------------------------------
(* The history.                                                            *)

\* The turns are the questions, each with the last reply to it.
LEMMA HistoryIs ==
    ASSUME Inductive, NEW c
    PROVE  /\ \A t \in historyToTurns(Rows(c)) : \E i \in Asked(Rows(c)) :
                 \/ RepliesTo(i, Rows(c)) = {} /\ t = Blank(log[i].id)
                 \/ \E j \in RepliesTo(i, Rows(c)) : t = Turn(i, j)
           /\ \A i \in Asked(Rows(c)) : \A j \in RepliesTo(i, Rows(c)) :
                 (\A l \in RepliesTo(i, Rows(c)) : l = j) =>
                    Turn(i, j) \in historyToTurns(Rows(c))
<1>1. ASSUME NEW i \in Asked(Rows(c)), RepliesTo(i, Rows(c)) # {}
      PROVE  (CHOOSE j \in RepliesTo(i, Rows(c)) :
                 \A l \in RepliesTo(i, Rows(c)) : l <= j) \in RepliesTo(i, Rows(c))
  <2>1. RepliesTo(i, Rows(c)) \in SUBSET (1..Len(log)) /\ Len(log) \in Nat
    BY Messages DEF Inductive, RepliesTo, Replies, Rows
  <2>2. \E j \in RepliesTo(i, Rows(c)) : \A l \in RepliesTo(i, Rows(c)) : l <= j
    BY <1>1, <2>1, GreatestNumber
  <2> QED
    BY <2>2
<1>2. ASSUME NEW i \in Asked(Rows(c)), NEW j \in RepliesTo(i, Rows(c)),
             \A l \in RepliesTo(i, Rows(c)) : l = j
      PROVE  Turn(i, j) \in historyToTurns(Rows(c))
  <2>1. (CHOOSE k \in RepliesTo(i, Rows(c)) :
            \A l \in RepliesTo(i, Rows(c)) : l <= k) = j
    BY <1>1, <1>2
  <2> DEFINE shown(q) ==
        IF RepliesTo(q, Rows(c)) = {} THEN Blank(log[q].id)
        ELSE Turn(q, CHOOSE k \in RepliesTo(q, Rows(c)) :
                        \A l \in RepliesTo(q, Rows(c)) : l <= k)
  <2>2. shown(i) = Turn(i, j)
    BY <2>1
  <2>3. historyToTurns(Rows(c)) = {shown(q) : q \in Asked(Rows(c))}
    BY DEF historyToTurns
  <2> HIDE DEF shown
  <2> QED
    BY <2>2, <2>3
<1> QED
  BY <1>1, <1>2 DEF historyToTurns

\* Without an overlap a reply is shown under its own question.
LEMMA OwnReplies ==
    ASSUME Inductive, NEW c, c \notin overlap, NEW i \in Asked(Rows(c)),
           NEW j \in RepliesTo(i, Rows(c))
    PROVE  log[j].id = log[i].id
<1>1. /\ i \in DOMAIN log /\ log[i].role = "user" /\ log[i] \in saved
      /\ ConversationOf(log[i].id) = c
      /\ j \in DOMAIN log /\ log[j].role = "assistant" /\ i < j
      /\ ConversationOf(log[j].id) = c
      /\ \A k \in Asked(Rows(c)) : k <= i \/ k > j
  BY DEF Asked, Rows, RepliesTo, Replies
<1>2. i \in Int /\ j \in Int
  BY <1>1, Messages DEF Inductive
<1>3. PICK k \in 1..j - 1 : log[k] = QuestionOf(log[j].id)
  BY <1>1 DEF Inductive, LogInv
<1>4. /\ k \in DOMAIN log /\ k \in Int /\ k < j
      /\ log[k].id = log[j].id /\ log[k].role = "user"
  <2>1. k \in DOMAIN log /\ k \in Int /\ k < j
    BY <1>1, <1>2, <1>3, Messages DEF Inductive
  <2> QED
    BY <1>3, <2>1 DEF QuestionOf
<1>5. Together(k, i) /\ Together(i, k) /\ ~Overlapped(k)
  BY <1>1, <1>4 DEF Together, Overlapped
<1>6. k < i => log[i].id = log[k].id
  BY <1>1, <1>4, <1>5 DEF Inductive, OrderInv
<1>7. CASE log[k] \in saved
  <2>1. k \in Asked(Rows(c))
    BY <1>1, <1>4, <1>7 DEF Asked, Rows
  <2>2. k <= i
    BY <1>1, <1>2, <1>4, <2>1
  <2> QED
    BY <1>2, <1>4, <1>6, <2>2
<1>8. CASE log[k] \notin saved
  <2>1. HasReply(log[k].id)
    BY <1>1, <1>4 DEF HasReply, IsReply
  <2>2. ~(i <= k)
    BY <1>1, <1>4, <1>5, <1>8, <2>1 DEF Inductive, OrphanInv
  <2> QED
    BY <1>2, <1>4, <1>6, <2>2
<1> QED
  BY <1>7, <1>8

\* A completed turn is in the history, unless it was deleted.
LEMMA CompletedReply ==
    ASSUME Inductive, NEW s \in told \ lost, ConversationOf(s) \notin overlap
    PROVE  \A i \in DOMAIN log : log[i].id = s /\ log[i].role = "user" =>
              \E j \in RepliesTo(i, Rows(ConversationOf(s))) : IsReply(log[j], s)
<1> DEFINE rows == Rows(ConversationOf(s))
<1> SUFFICES ASSUME NEW i \in DOMAIN log, log[i].id = s, log[i].role = "user"
             PROVE  \E j \in RepliesTo(i, rows) : IsReply(log[j], s)
  OBVIOUS
<1>1. s \in Streams /\ HasReply(s) /\ Stored(s)
  BY DEF Inductive, TypeOK, SavedInv
<1>2. PICK j \in DOMAIN log : IsReply(log[j], s)
  BY <1>1 DEF HasReply
<1>3. i \in Int /\ j \in Int
  BY Messages DEF Inductive
<1>4. PICK q \in 1..j - 1 : log[q] = QuestionOf(s)
  BY <1>2 DEF Inductive, LogInv, IsReply
<1>5. q \in DOMAIN log
  BY <1>2, <1>3, <1>4, Messages DEF Inductive
<1>6. q = i
  BY <1>4, <1>5 DEF Inductive, LogInv, QuestionOf
<1>7. i < j
  BY <1>3, <1>4, <1>6
<1>8. j \in Replies(rows)
  BY <1>1, <1>2 DEF Replies, Rows, Stored, IsReply
<1>9. ASSUME NEW k \in Asked(rows), ~(k <= i), ~(k > j) PROVE FALSE
  <2>1. /\ k \in DOMAIN log /\ log[k].role = "user"
        /\ ConversationOf(log[k].id) = ConversationOf(s)
    BY DEF Asked, Rows
  <2>2. k \in Int /\ k # j
    BY <1>2, <2>1, Messages DEF Inductive, IsReply
  <2>3. Together(i, k) /\ ~Overlapped(i)
    BY <2>1 DEF Together, Overlapped
  <2>4. i < k /\ k < j
    BY <1>3, <1>9, <2>2
  <2>5. log[k].id = s
    BY <1>2, <2>1, <2>3, <2>4 DEF Inductive, OrderInv, IsReply
  <2> QED
    BY <1>3, <2>1, <2>2, <2>4, <2>5 DEF Inductive, LogInv
<1> QED
  BY <1>2, <1>7, <1>8, <1>9 DEF RepliesTo

\* What the history shows is true.
LEMMA HistoryIsTrue ==
    ASSUME Inductive, NEW c, NEW t \in historyToTurns(Rows(c))
    PROVE  t \in ShownTurn /\ ConversationOf(t.id) = c /\ TurnIsTrue(t)
<1>1. PICK i \in Asked(Rows(c)) :
         \/ RepliesTo(i, Rows(c)) = {} /\ t = Blank(log[i].id)
         \/ \E j \in RepliesTo(i, Rows(c)) : t = Turn(i, j)
  BY HistoryIs
<1>2. /\ i \in DOMAIN log /\ log[i].role = "user" /\ log[i].id \in Streams
      /\ ConversationOf(log[i].id) = c
  BY Messages DEF Inductive, Asked, Rows
<1>3. CASE RepliesTo(i, Rows(c)) = {} /\ t = Blank(log[i].id)
  <2>1. t \in ShownTurn /\ t.id = log[i].id /\ t.from = None
    BY <1>2, <1>3 DEF Blank, ShownTurn, Text
  <2>2. c \notin overlap => log[i].id \notin told \ lost
    BY <1>2, <1>3, CompletedReply
  <2> QED
    BY <1>2, <2>1, <2>2 DEF TurnIsTrue
<1>4. ASSUME NEW j \in RepliesTo(i, Rows(c)), t = Turn(i, j)
      PROVE  t \in ShownTurn /\ ConversationOf(t.id) = c /\ TurnIsTrue(t)
  <2>1. j \in DOMAIN log /\ log[j].role = "assistant" /\ log[j] \in Row
    BY Messages DEF Inductive, RepliesTo, Replies, Rows
  <2>2. t = [id |-> log[i].id, from |-> log[j].id, text |-> log[j].text]
    BY <1>4 DEF Turn
  <2>3. t \in ShownTurn /\ t.id = log[i].id
    BY <1>2, <2>1, <2>2 DEF ShownTurn, Row
  <2>4. c \notin overlap => log[j].id = log[i].id
    BY OwnReplies
  <2>5. c \notin overlap => Shows(t)
    BY <2>1, <2>2, <2>4 DEF Inductive, LogInv, Shows, IsReply
  <2> QED
    BY <1>2, <2>2, <2>3, <2>4, <2>5 DEF TurnIsTrue
<1> QED
  BY <1>1, <1>3, <1>4

LEMMA ServeHistoryKeeps == Inductive /\ ServeHistory => Inductive'
<1> SUFFICES ASSUME Inductive, ServeHistory PROVE Inductive'
  OBVIOUS
<1>1. PICK turns : turns = historyToTurns(Rows(restore.conv))
  OBVIOUS
<1>2. /\ restore.state = "asked"
      /\ restore' = [restore EXCEPT !.state = "answered", !.turns = turns]
      /\ restore'.state = "answered" /\ restore'.turns = turns
      /\ restore'.conv = restore.conv
      /\ UNCHANGED <<page, clear, calls, wire, server, log, saved, told, lost,
                     overlap, restarted, gestures>>
  BY <1>1 DEF ServeHistory, Inductive, TypeOK
<1>3. \A t \in turns :
         t \in ShownTurn /\ ConversationOf(t.id) = restore.conv /\ TurnIsTrue(t)
  BY <1>1, HistoryIsTrue
<1>4. TypeOK'
  <2>1. restore' \in [state : {"none", "asked", "answered"},
                      conv : Conversations, turns : SUBSET ShownTurn]
    BY <1>2, <1>3 DEF Inductive, TypeOK
  <2> QED
    BY <1>2, <2>1 DEF Inductive, TypeOK
<1>5. /\ LogInv' /\ OrderInv' /\ OrphanInv' /\ SavedInv' /\ WireInv'
      /\ CallsInv' /\ TextInv' /\ \A t \in page.turns : TurnIsTrue(t)'
  BY <1>2, PageStep
<1>6. RestoreInv'
  <2>1. \A t \in turns : TurnIsTrue(t)'
    BY <1>2, <1>3, TruthStays
  <2> QED
    BY <1>2, <1>3, <2>1 DEF Inductive, RestoreInv, ConversationOf, Running
<1>7. PageInv' /\ BusyInv'
  BY <1>2, <1>5 DEF Inductive, PageInv, BusyInv, Busy, Running
<1> QED
  BY <1>4, <1>5, <1>6, <1>7 DEF Inductive

\* A clear deletes what a conversation has, in one transaction.
LEMMA ServeClearKeeps == Inductive /\ ServeClear => Inductive'
<1> SUFFICES ASSUME Inductive, ServeClear PROVE Inductive'
  OBVIOUS
<1>1. /\ clear' = [clear EXCEPT !.state = "done"]
      /\ saved' = {m \in saved : ConversationOf(m.id) # clear.conv}
      /\ lost' = lost \cup {s \in Streams : ConversationOf(s) = clear.conv}
      /\ UNCHANGED <<page, restore, calls, wire, server, log, told, overlap,
                     restarted, gestures>>
  BY DEF ServeClear
<1>2. TypeOK'
  <2>1. clear' \in [state : {"none", "asked", "done"},
                    conv : Conversations \cup {None}]
    BY <1>1 DEF Inductive, TypeOK
  <2>2. saved' \subseteq Range(log) /\ lost' \subseteq Streams
    BY <1>1 DEF Inductive, TypeOK
  <2> QED
    BY <1>1, <2>1, <2>2 DEF Inductive, TypeOK
<1>3. CallsInv' /\ LogInv' /\ WireInv'
  <2>1. \A r, e : Says(r, e)' <=> Says(r, e)
    BY <1>1 DEF Says
  <2> QED
    BY <1>1, <2>1
       DEF Inductive, CallsInv, LogInv, WireInv, Working, HasReply, QuestionOf
<1>4. OrderInv'
  BY <1>1 DEF Inductive, OrderInv, Working, Together, Overlapped, ConversationOf
<1>5. OrphanInv'
  <2> SUFFICES ASSUME NEW i \in DOMAIN log, NEW k \in DOMAIN log,
                      i <= k, Together(i, k), ~Overlapped(k),
                      log[k].role = "user", log[k] \notin saved',
                      server[log[k].id] = "working" \/ HasReply(log[k].id)
               PROVE  log[i] \notin saved'
    BY <1>1 DEF OrphanInv, Together, Overlapped, HasReply, ConversationOf
  <2>1. CASE log[k] \in saved
    BY <1>1, <2>1 DEF Together
  <2>2. CASE log[k] \notin saved
    BY <1>1, <2>2 DEF Inductive, OrphanInv
  <2> QED
    BY <2>1, <2>2
<1>6. SavedInv'
  <2>1. \A r, e : Says(r, e)' <=> Says(r, e)
    BY <1>1 DEF Says
  <2>2. \A r : HasReply(r)' <=> HasReply(r)
    BY <1>1 DEF HasReply
  <2>3. ASSUME NEW r \in Streams, r \notin lost'
        PROVE  /\ r \notin lost /\ (Stored(r) => Stored(r)')
               /\ QuestionOf(r) \in saved => QuestionOf(r) \in saved'
    <3>1. r \notin lost /\ ConversationOf(r) # clear.conv
      BY <1>1, <2>3
    <3> QED
      BY <1>1, <3>1 DEF Stored, QuestionOf
  <2>4. \A r : QuestionOf(r)' = QuestionOf(r)
    BY DEF QuestionOf
  <2> QED
    BY <1>1, <2>1, <2>2, <2>3, <2>4 DEF Inductive, SavedInv
<1>7. TextInv'
  <2>1. \A r, e : Says(r, e)' <=> Says(r, e)
    BY <1>1 DEF Says
  <2>2. \A t : Shows(t)' <=> Shows(t)
    BY <1>1 DEF Shows
  <2> QED
    BY <1>1, <2>1, <2>2 DEF Inductive, TextInv
<1>8. PageInv' /\ RestoreInv' /\ BusyInv'
  <2>1. /\ \A t \in page.turns \cup restore.turns : TurnIsTrue(t)'
        /\ \A t \in restore.turns : calls'[t.id].conv = restore.conv
    BY <1>1, TruthsStay
  <2> QED
    BY <1>1, <2>1 DEF Inductive, PageInv, RestoreInv, BusyInv, Busy, Running
<1> QED
  BY <1>2, <1>3, <1>4, <1>5, <1>6, <1>7, <1>8 DEF Inductive

-----------------------------------------------------------------------------
(* The theorems.                                                           *)

LEMMA InitEstablishes == Init => Inductive
<1> SUFFICES ASSUME Init PROVE Inductive
  OBVIOUS
<1>1. TypeOK
  <2>1. page \in [conv : Conversations, turns : SUBSET ShownTurn,
                 status : {"idle", "loading", "busy", "error"},
                 stop : Streams \cup {None}]
    BY PageAssumption DEF Init
  <2>2. /\ restore \in [state : {"none", "asked", "answered"},
                       conv : Conversations, turns : SUBSET ShownTurn]
        /\ clear \in [state : {"none", "asked", "done"},
                     conv : Conversations \cup {None}]
    BY PageAssumption DEF Init
  <2>3. /\ calls \in [Streams -> [state : {"unused", "attached", "over"},
                                 conv : Conversations \cup {None}]]
        /\ wire \in [Streams ->
                     Seq({"status", "text_delta", "text_replace", "final"})]
        /\ server \in [Streams -> {"none", "asking", "working", "replying",
                                  "replied", "over"}]
    BY DEF Init
  <2>4. log \in Seq(Row) /\ saved \subseteq Range(log) /\ gestures \in 0..MaxGestures
    BY PageAssumption DEF Init
  <2> QED
    BY <2>1, <2>2, <2>3, <2>4 DEF Init, TypeOK
<1>2. /\ DOMAIN log = {} /\ \A s \in Streams : wire[s] = <<>>
      /\ \A s \in Streams : \A e : ~Says(s, e)
  BY DEF Init, Says
<1>3. CallsInv /\ LogInv /\ OrderInv /\ OrphanInv
  BY <1>2 DEF Init, CallsInv, LogInv, OrderInv, OrphanInv, Working
<1>4. SavedInv /\ WireInv /\ TextInv
  BY <1>2 DEF Init, SavedInv, WireInv, TextInv
<1>5. PageInv /\ RestoreInv /\ BusyInv
  BY PageAssumption DEF Init, PageInv, RestoreInv, BusyInv, Busy, Running
<1> QED
  BY <1>1, <1>3, <1>4, <1>5 DEF Inductive

LEMMA StutterKeeps == Inductive /\ UNCHANGED vars => Inductive'
<1> SUFFICES ASSUME Inductive, UNCHANGED vars PROVE Inductive'
  OBVIOUS
<1>1. UNCHANGED <<page, restore, clear, calls, wire, server, log, saved, told,
                 lost, overlap, restarted, gestures>>
  BY DEF vars
<1>2. TypeOK'
  BY <1>1 DEF Inductive, TypeOK
<1>3. /\ LogInv' /\ OrderInv' /\ OrphanInv' /\ SavedInv' /\ WireInv'
      /\ CallsInv' /\ TextInv'
      /\ \A t \in page.turns \cup restore.turns : TurnIsTrue(t)'
  BY <1>1, PageStep
<1>4. PageInv' /\ RestoreInv' /\ BusyInv'
  BY <1>1, <1>3 DEF Inductive, PageInv, RestoreInv, BusyInv, Busy, Running
<1> QED
  BY <1>2, <1>3, <1>4 DEF Inductive

LEMMA InductiveHolds == Spec => []Inductive
<1>1. Inductive /\ [Next]_vars => Inductive'
  <2> SUFFICES ASSUME Inductive, [Next]_vars PROVE Inductive'
    OBVIOUS
  <2>1. ASSUME NEW s \in Streams, Submit(s) PROVE Inductive'
    BY <2>1, SubmitKeeps
  <2>2. ASSUME NEW s \in Streams, Read(s) PROVE Inductive'
    BY <2>2, ReadKeeps
  <2>3. ASSUME NEW s \in Streams, ReadEnd(s) \/ ConnectionFails(s) PROVE Inductive'
    BY <2>3, ReadEndKeeps
  <2>4. ASSUME NEW s \in Streams, Ask(s) PROVE Inductive'
    BY <2>4, AskKeeps
  <2>5. ASSUME NEW s \in Streams, SaveQuestion(s) PROVE Inductive'
    BY <2>5, SaveQuestionKeeps
  <2>6. ASSUME NEW s \in Streams, Decide(s) PROVE Inductive'
    BY <2>6, DecideKeeps
  <2>7. ASSUME NEW s \in Streams, SaveAnswer(s) PROVE Inductive'
    BY <2>7, SaveAnswerKeeps
  <2>8. ASSUME NEW s \in Streams, Announce(s) PROVE Inductive'
    BY <2>8, AnnounceKeeps
  <2>9. ASSUME NEW s \in Streams, GiveUp(s) PROVE Inductive'
    BY <2>9, GiveUpKeeps
  <2>10. CASE Stop
    BY <2>10, StopKeeps
  <2>11. CASE NewChat \/ ClearAnswered
    BY <2>11, NewChatKeeps
  <2>12. CASE RestoreArrives \/ RestoreFails
    BY <2>12, RestoreEnds
  <2>13. CASE clearConversation \/ ClearFails
    BY <2>13, ClearingKeeps
  <2>14. CASE Remount
    BY <2>14, RemountKeeps
  <2>15. CASE ServeHistory
    BY <2>15, ServeHistoryKeeps
  <2>16. CASE ServeClear
    BY <2>16, ServeClearKeeps
  <2>17. CASE UNCHANGED vars
    BY <2>17, StutterKeeps
  <2> QED
    BY <2>1, <2>2, <2>3, <2>4, <2>5, <2>6, <2>7, <2>8, <2>9, <2>10, <2>11,
       <2>12, <2>13, <2>14, <2>15, <2>16, <2>17 DEF Next
<1> QED
  BY <1>1, InitEstablishes, PTL DEF Spec

\* Every variable keeps its type (WebChat.TypeOK).
THEOREM PageTypesKept == Spec => []TypeOK
<1>1. Inductive => TypeOK
  BY DEF Inductive
<1> QED
  BY <1>1, InductiveHolds, PTL

\* Live or restored, an answer on the screen belongs to the question above it
\* unless two requests of the conversation were at the API together, for any
\* number of submits, chats and gestures (chat-page.tsx:108-118, 143-236;
\* repository.py:92).
THEOREM AnswersStay == Spec => []AnswersStayWithTheirQuestion
<1>1. Inductive => AnswersStayWithTheirQuestion
  <2> SUFFICES ASSUME Inductive,
                      NEW t \in page.turns \cup
                           UNION {historyToTurns(Rows(c)) :
                                     c \in Conversations \ overlap},
                      ConversationOf(t.id) \notin overlap
               PROVE  t.from \in {None, t.id}
    BY DEF AnswersStayWithTheirQuestion
  <2>1. CASE t \in page.turns
    BY <2>1 DEF Inductive, PageInv, TurnIsTrue
  <2>2. ASSUME NEW c \in Conversations \ overlap, t \in historyToTurns(Rows(c))
        PROVE  t.from \in {None, t.id}
    BY <2>2, HistoryIsTrue DEF TurnIsTrue
  <2> QED
    BY <2>1, <2>2
<1> QED
  BY <1>1, InductiveHolds, PTL

\* What a completed turn shows is what opening the page again shows, unless it
\* was cleared or two requests overlapped (chat-page.tsx:108-118 and 221-224,
\* service.py:206-228).
THEOREM CompletedTurnsSurvive == Spec => []CompletedTurnsSurviveReload
<1>1. Inductive => CompletedTurnsSurviveReload
  <2> SUFFICES ASSUME Inductive, NEW t \in page.turns, t.id \in told \ lost,
                      ConversationOf(t.id) \notin overlap
               PROVE  t \in historyToTurns(Rows(ConversationOf(t.id)))
    BY DEF CompletedTurnsSurviveReload
  <2> DEFINE rows == Rows(ConversationOf(t.id))
  <2>1. t.id \in Streams /\ Shows(t) /\ HasReply(t.id) /\ Stored(t.id)
    BY DEF Inductive, TypeOK, PageInv, TurnIsTrue, SavedInv
  <2>2. PICK l \in DOMAIN log : IsReply(log[l], t.id)
    BY <2>1 DEF HasReply
  <2>3. PICK i \in 1..l - 1 : log[i] = QuestionOf(t.id)
    BY <2>2 DEF Inductive, LogInv, IsReply
  <2>4. i \in DOMAIN log /\ log[i].id = t.id /\ log[i].role = "user"
    BY <2>2, <2>3, Messages DEF Inductive, QuestionOf
  <2>5. PICK j \in RepliesTo(i, rows) : IsReply(log[j], t.id)
    BY <2>4, CompletedReply
  <2>6. i \in Asked(rows)
    BY <2>1, <2>4 DEF Asked, Rows, Stored
  <2>7. \A k \in RepliesTo(i, rows) : k = j
    <3> SUFFICES ASSUME NEW k \in RepliesTo(i, rows) PROVE k = j
      OBVIOUS
    <3>1. log[k].id = t.id
      BY <2>4, <2>6, OwnReplies
    <3> QED
      BY <2>5, <3>1 DEF Inductive, LogInv, RepliesTo, Replies, Rows, IsReply
  <2>8. Turn(i, j) \in historyToTurns(rows)
    BY <2>6, <2>7, HistoryIs
  <2>9. j \in DOMAIN log
    BY DEF RepliesTo, Replies, Rows
  <2> QED
    BY <2>1, <2>4, <2>5, <2>8, <2>9 DEF Shows, Turn, IsReply
<1> QED
  BY <1>1, InductiveHolds, PTL

\* The page is busy exactly while its one stream is, and Stop reaches that
\* stream, unless a new chat began with something under way
\* (chat-page.tsx:143, 201, 204, 226-236, 273).
THEOREM StopReachesTheStream == Spec => []BusyMeansStoppable
<1>1. Inductive => BusyMeansStoppable
  BY DEF Inductive, BusyInv, BusyMeansStoppable
<1> QED
  BY <1>1, InductiveHolds, PTL
=============================================================================
