--------------------------- MODULE ChatRowsProofs ---------------------------
(***************************************************************************)
(* Proofs about what the chat path stores, for any number of sessions that *)
(* share conversations, turns and faults: the rows of a conversation are   *)
(* in order, no turn runs whose message is not among them, and what a run  *)
(* changes in the backends is in the audit log.                            *)
(***************************************************************************)
EXTENDS ChatTurnsProofs

Early == {"ensure", "allow", "persist"}
Stored == {"history", "post", "call", "stream"}

Row == [role : {"user", "assistant"}, turn : Nat, text : Seq(Nat)]

RowsTyped ==
  /\ conversationID \in [Sessions -> Conversations \cup {NoConversation}]
  /\ DOMAIN conversations = Conversations /\ DOMAIN request = Sessions
  /\ turns \in Nat /\ turn \in [Sessions -> Nat]
  /\ reply \in [Sessions -> Seq(Nat)]
  /\ messages \in [Conversations -> Seq(Row)]

(***************************************************************************)
(* The inductive invariant.  A turn has a number of its own; it has no row *)
(* before its message is stored, then that row, in a conversation that     *)
(* exists, and no reply before its response is over.                       *)
(***************************************************************************)
InConversation(s) ==
  pc[s] \in Busy =>
    /\ conversationID[s] \in Conversations /\ target[s] \in Customers
    /\ turn[s] > 0 /\ turn[s] <= turns
    /\ pc[s] # "ensure" => conversations[conversationID[s]] # NoCustomer

NotStored(s) ==
  pc[s] \in Early =>
    \A c \in Conversations : \A i \in 1..Len(messages[c]) : messages[c][i].turn # turn[s]

IsStored(s) ==
  pc[s] \in Stored =>
    \E i \in 1..Len(messages[conversationID[s]]) :
      messages[conversationID[s]][i] = UserRow(turn[s])

NoReplyYet(s) ==
  pc[s] \in Stored /\ ~Over(s) =>
    \A c \in Conversations : \A i \in 1..Len(messages[c]) :
      messages[c][i].turn = turn[s] => messages[c][i].role = "user"


Session(s) ==
  InConversation(s) /\ NotStored(s) /\ IsStored(s) /\ NoReplyYet(s) /\ OwnNumber(s)

Numbered ==
  /\ \A c \in Conversations : \A i \in 1..Len(messages[c]) : messages[c][i].turn <= turns
  /\ \A s, t \in Sessions : s # t /\ pc[s] \in Busy /\ pc[t] \in Busy => turn[s] # turn[t]

RowsInv == RowsTyped /\ Numbered /\ RowsInOrder /\ \A s \in Sessions : Session(s)

-----------------------------------------------------------------------------
(* At first nothing is stored. *)
LEMMA InitRows == Init => RowsInv
<1> SUFFICES ASSUME Init PROVE RowsInv
  OBVIOUS
<1>1. /\ messages = [c \in Conversations |-> <<>>] /\ \A s \in Sessions : pc[s] = "down"
      /\ RowsTyped
  BY DEF Init, GatewayInit, StoreInit, RowsTyped
<1>2. Numbered /\ RowsInOrder
  BY <1>1 DEF Numbered, RowsInOrder, Busy
<1>3. \A s \in Sessions : Session(s)
  BY <1>1 DEF Session, InConversation, NotStored, IsStored, NoReplyYet, OwnNumber,
              Early, Stored, Busy, Sending
<1> QED
  BY <1>1, <1>2, <1>3 DEF RowsInv

(***************************************************************************)
(* What a session keeps in every step that is not the beginning of a turn, *)
(* or an insertion of its own.                                             *)
(***************************************************************************)
Steady(s) ==
  pc'[s] \in Busy =>
    /\ pc[s] \in Busy
    /\ turn'[s] = turn[s] /\ conversationID'[s] = conversationID[s] /\ target'[s] = target[s]
    /\ pc[s] \in Early <=> pc'[s] \in Early
    /\ pc[s] = "ensure" /\ pc'[s] # "ensure" => conversations'[conversationID[s]] # NoCustomer
    /\ pc'[s] \in Sending =>
         request'[s].turn = turn[s] \/ (pc[s] \in Sending /\ request'[s].turn = request[s].turn)
    /\ Over(s) => Over(s)'

ConversationsKept ==
  /\ DOMAIN conversations' = Conversations
  /\ \A c \in Conversations : conversations[c] # NoCustomer => conversations'[c] # NoCustomer

(* One row more in one conversation. *)
LEMMA Inserted ==
  ASSUME RowsTyped, NEW c \in Conversations, NEW row \in Row, Insert(c, row)
  PROVE  /\ messages' \in [Conversations -> Seq(Row)]
         /\ Len(messages[c]) \in Nat /\ Len(messages'[c]) = Len(messages[c]) + 1
         /\ messages'[c][Len(messages[c]) + 1] = row
         /\ \A i \in 1..Len(messages[c]) : messages'[c][i] = messages[c][i]
         /\ \A d \in Conversations : d # c => messages'[d] = messages[d]
<1>1. messages \in [Conversations -> Seq(Row)]
      /\ messages' = [messages EXCEPT ![c] = Append(@, row)]
  BY DEF RowsTyped, Insert
<1>2. Append(messages[c], row) \in Seq(Row)
  BY <1>1
<1>3. messages' \in [Conversations -> Seq(Row)] /\ messages'[c] = Append(messages[c], row)
      /\ \A d \in Conversations : d # c => messages'[d] = messages[d]
  BY <1>1, <1>2
<1>4. messages[c] \in Seq(Row)
  BY <1>1
<1> QED
  BY <1>3, <1>4

(* Nothing is stored: sessions that are steady stay what they are. *)
LEMMA QuietRows ==
  ASSUME RowsInv, RowsTyped', UNCHANGED <<messages, turns>>, ConversationsKept,
         \A s \in Sessions : Steady(s)
  PROVE  RowsInv'
<1>0. RowsTyped /\ Numbered /\ RowsInOrder /\ \A s \in Sessions : Session(s)
  BY DEF RowsInv
<1>1. Numbered' /\ RowsInOrder'
  BY <1>0 DEF Numbered, RowsInOrder, Steady, ConversationsKept
<1>2. ASSUME NEW s \in Sessions PROVE Session(s)'
  <2>1. InConversation(s)'
    BY <1>0 DEF Session, Steady, InConversation, ConversationsKept
  <2>2. NotStored(s)'
    BY <1>0 DEF Session, Steady, NotStored, Early, Busy
  <2>3. IsStored(s)' /\ NoReplyYet(s)'
    BY <1>0 DEF Session, Steady, IsStored, NoReplyYet, Early, Stored, Busy
  <2>4. OwnNumber(s)'
    BY <1>0 DEF Session, Steady, OwnNumber, Sending, Busy
  <2> QED
    BY <2>1, <2>2, <2>3, <2>4 DEF Session
<1> QED
  BY <1>0, <1>1, <1>2 DEF RowsInv

(***************************************************************************)
(* A row of a turn is stored: no other session's turn is concerned, and    *)
(* the conversation stays in order if the turn had no row, or its message  *)
(* only and now its reply.                                                 *)
(***************************************************************************)
LEMMA RowStored ==
  ASSUME RowsInv, NEW s \in Sessions, NEW row \in Row, Insert(conversationID[s], row),
         row.turn = turn[s], pc[s] \in Busy \ {"ensure"},
         UNCHANGED <<turns, turn, conversationID, target, conversations, request>>,
         RowsTyped', \A t \in Sessions \ {s} : Steady(t), pc'[s] \in Busy => pc[s] \in Busy,
         \/ row.role = "user" /\ pc[s] \in Early
         \/ row.role = "assistant" /\ pc[s] \in Stored /\ ~Over(s),
         Session(s)'
  PROVE  RowsInv'
<1> DEFINE c == conversationID[s]
           n == Len(messages[c]) + 1
<1>0. RowsTyped /\ Numbered /\ RowsInOrder /\ \A t \in Sessions : Session(t)
  BY DEF RowsInv
<1>1. c \in Conversations /\ conversations[c] # NoCustomer /\ turn[s] <= turns
  BY <1>0 DEF Session, InConversation
<1>2. /\ Len(messages[c]) \in Nat /\ Len(messages'[c]) = n /\ messages'[c][n] = row
      /\ \A i \in 1..Len(messages[c]) : messages'[c][i] = messages[c][i]
      /\ \A d \in Conversations : d # c => messages'[d] = messages[d]
  BY <1>0, <1>1, Inserted
<1>3. \A i \in 1..n : i = n \/ i \in 1..Len(messages[c])
  BY <1>2
<1> HIDE DEF c, n
<1>4. Numbered'
  <2>1. \A d \in Conversations : \A i \in 1..Len(messages'[d]) : messages'[d][i].turn <= turns
    BY <1>0, <1>1, <1>2, <1>3 DEF Numbered
  <2>2. \A t \in Sessions : pc'[t] \in Busy => pc[t] \in Busy /\ turn'[t] = turn[t]
    BY DEF Steady
  <2> QED
    BY <1>0, <2>1, <2>2 DEF Numbered
<1>5. RowsInOrder'
  <2>1. \A d \in Conversations : messages'[d] # <<>> => conversations'[d] # NoCustomer
    BY <1>0, <1>1, <1>2 DEF RowsInOrder
  <2>2. /\ \A i, j \in 1..Len(messages[c]) :
             i < j /\ messages[c][i].turn = messages[c][j].turn =>
               messages[c][i].role = "user" /\ messages[c][j].role = "assistant"
        /\ \A j \in 1..Len(messages[c]) : messages[c][j].role = "assistant" =>
             \E i \in 1..(j - 1) : messages[c][i].turn = messages[c][j].turn
    BY <1>0, <1>1 DEF RowsInOrder
  <2>3. \A i \in 1..Len(messages[c]) : messages[c][i].turn = row.turn =>
          messages[c][i].role = "user" /\ row.role = "assistant"
    <3>1. CASE row.role = "user" /\ pc[s] \in Early
      BY <1>0, <1>1, <3>1 DEF Session, NotStored
    <3>2. CASE row.role = "assistant" /\ pc[s] \in Stored /\ ~Over(s)
      BY <1>0, <1>1, <3>2 DEF Session, NoReplyYet
    <3> QED
      BY <3>1, <3>2
  <2>4. row.role = "assistant" => \E i \in 1..Len(messages[c]) : messages[c][i].turn = row.turn
    <3>1. row.role = "assistant" => pc[s] \in Stored /\ IsStored(s)
      BY <1>0 DEF Session
    <3> QED
      BY <3>1 DEF IsStored, UserRow, c
  <2>5. \A i, j \in 1..n :
          i < j /\ messages'[c][i].turn = messages'[c][j].turn =>
            messages'[c][i].role = "user" /\ messages'[c][j].role = "assistant"
    BY <1>2, <1>3, <2>2, <2>3
  <2>6. ASSUME NEW j \in 1..n, messages'[c][j].role = "assistant"
        PROVE  \E i \in 1..(j - 1) : messages'[c][i].turn = messages'[c][j].turn
    <3>1. CASE j = n
      <4>1. PICK i \in 1..Len(messages[c]) : messages[c][i].turn = row.turn
        BY <1>2, <2>4, <2>6, <3>1
      <4>2. i \in 1..(n - 1)
        BY <1>1, <1>2 DEF n
      <4> QED
        BY <1>2, <3>1, <4>1, <4>2
    <3>2. CASE j \in 1..Len(messages[c])
      <4>1. PICK i \in 1..(j - 1) : messages[c][i].turn = messages[c][j].turn
        BY <1>2, <2>2, <2>6, <3>2
      <4>2. i \in 1..Len(messages[c])
        BY <1>2, <3>2
      <4> QED
        BY <1>2, <3>2, <4>1, <4>2
    <3> QED
      BY <1>3, <3>1, <3>2
  <2>7. ASSUME NEW d \in Conversations, d # c
        PROVE  /\ \A i, j \in 1..Len(messages'[d]) :
                    i < j /\ messages'[d][i].turn = messages'[d][j].turn =>
                      messages'[d][i].role = "user" /\ messages'[d][j].role = "assistant"
               /\ \A j \in 1..Len(messages'[d]) : messages'[d][j].role = "assistant" =>
                    \E i \in 1..(j - 1) : messages'[d][i].turn = messages'[d][j].turn
    BY <1>0, <1>2, <2>7 DEF RowsInOrder
  <2> QED
    BY <1>2, <2>1, <2>5, <2>6, <2>7 DEF RowsInOrder
<1>6. ASSUME NEW t \in Sessions, t # s PROVE Session(t)'
  <2>1. Session(t) /\ Steady(t)
    BY <1>0, <1>6
  <2>2. InConversation(t)' /\ OwnNumber(t)'
    BY <2>1 DEF Session, Steady, InConversation, OwnNumber, Sending, Busy
  <2>3. pc[t] \in Busy => turn[t] # row.turn
    BY <1>0, <1>6 DEF Numbered
  <2>4. NotStored(t)'
    BY <1>1, <1>2, <1>3, <2>1, <2>3 DEF Session, Steady, NotStored, Early, Busy
  <2>5. IsStored(t)'
    <3>1. pc'[t] \in Stored => pc[t] \in Stored /\ IsStored(t) /\ InConversation(t)
      BY <2>1 DEF Session, Steady, Early, Stored, Busy
    <3>2. pc'[t] \in Stored => conversationID'[t] = conversationID[t] /\ turn'[t] = turn[t]
      OBVIOUS
    <3>3. 1..Len(messages[c]) \subseteq 1..Len(messages'[c])
      BY <1>2 DEF n
    <3> QED
      BY <1>2, <3>1, <3>2, <3>3 DEF IsStored, InConversation, UserRow, Stored, Busy
  <2>6. NoReplyYet(t)'
    BY <1>1, <1>2, <1>3, <2>1, <2>3 DEF Session, Steady, NoReplyYet, Early, Stored, Busy
  <2> QED
    BY <2>2, <2>4, <2>5, <2>6 DEF Session
<1> QED
  BY <1>0, <1>4, <1>5, <1>6 DEF RowsInv
-----------------------------------------------------------------------------
(* What a step of one session leaves to the others. *)
Apart(s) ==
  /\ OthersSame(s)
  /\ \A t \in Sessions \ {s} :
       /\ conversationID'[t] = conversationID[t] /\ target'[t] = target[t]
       /\ request'[t] = request[t]

(* The others are steady. *)
LEMMA ApartSteady ==
  ASSUME NEW s \in Sessions, Apart(s), NEW t \in Sessions \ {s}
  PROVE  Steady(t)
BY DEF Apart, OthersSame, Steady, Over

(* A step of one session that stores nothing and begins no turn. *)
LEMMA QuietStep ==
  ASSUME RowsInv, NEW s \in Sessions, Apart(s), Steady(s), RowsTyped', ConversationsKept,
         UNCHANGED <<messages, turns>>
  PROVE  RowsInv'
BY ApartSteady, QuietRows

(* The steps to the next place in the turn. *)
LEMMA OnwardRows ==
  ASSUME TurnInv, RowsInv, NEW s \in Sessions,
         EnsureConversation(s) \/ Allowed(s) \/ LoadHistory(s) \/ PostTurn(s) \/ StreamStarts(s)
  PROVE  RowsInv'
<1> USE DEF wire, session, store, bounds
<1>0. /\ RowsTyped /\ Session(s) /\ DOMAIN pc = Sessions /\ DOMAIN body = Sessions
      /\ DOMAIN request = Sessions /\ got \in [Sessions -> Nat] /\ stream \in [Sessions -> Seq(SomeLine)]
  BY DEF RowsInv, TurnInv, ScopeInv, WireTyped, RowsTyped
<1>1. UNCHANGED <<messages, turns, turn, conversationID, target, reply, answers, conn, left>>
  BY DEF EnsureConversation, Allowed, LoadHistory, PostTurn, StreamStarts
<1>2. CASE EnsureConversation(s)
  <2>1. /\ pc[s] = "ensure" /\ pc' = [pc EXCEPT ![s] = "allow"] /\ UNCHANGED <<request, stream, got, body>>
        /\ Ensure(conversationID[s], target[s])
    BY <1>2 DEF EnsureConversation, Go
  <2>2. conversationID[s] \in Conversations /\ target[s] # NoCustomer
    BY <1>0, <2>1, AbsentAssumption DEF Session, InConversation, Busy
  <2>3. ConversationsKept /\ conversations'[conversationID[s]] # NoCustomer
    BY <1>0, <2>1, <2>2 DEF Ensure, ConversationsKept, RowsTyped
  <2>4. RowsTyped' /\ Apart(s)
    BY <1>0, <1>1, <2>1, <2>3 DEF RowsTyped, ConversationsKept, Apart, OthersSame
  <2>5. Steady(s)
    BY <1>0, <1>1, <2>1, <2>3 DEF Steady, Early, Busy, Sending, Over
  <2> QED
    BY <1>1, <2>3, <2>4, <2>5, QuietStep
<1>3. CASE Allowed(s)
  <2>1. /\ pc[s] = "allow" /\ pc' = [pc EXCEPT ![s] = "persist"]
        /\ UNCHANGED <<request, stream, got, body, conversations>>
    BY <1>3 DEF Allowed, Go
  <2>2. RowsTyped' /\ Apart(s) /\ ConversationsKept
    BY <1>0, <1>1, <2>1 DEF RowsTyped, ConversationsKept, Apart, OthersSame
  <2>3. Steady(s)
    BY <1>0, <1>1, <2>1 DEF Steady, Early, Busy, Sending, Over
  <2> QED
    BY <1>1, <2>2, <2>3, QuietStep
<1>4. CASE LoadHistory(s)
  <2>1. /\ pc[s] = "history" /\ pc' = [pc EXCEPT ![s] = "post"]
        /\ UNCHANGED <<stream, got, body, conversations>>
        /\ \E new : new.turn = turn[s] /\ request' = [request EXCEPT ![s] = new]
    BY <1>4 DEF LoadHistory, Go
  <2>2. RowsTyped' /\ Apart(s) /\ ConversationsKept /\ request'[s].turn = turn[s]
    BY <1>0, <1>1, <2>1 DEF RowsTyped, ConversationsKept, Apart, OthersSame
  <2>3. Steady(s)
    BY <1>0, <1>1, <2>1, <2>2 DEF Steady, Early, Busy, Sending, Over
  <2> QED
    BY <1>1, <2>2, <2>3, QuietStep
<1>5. CASE PostTurn(s) \/ StreamStarts(s)
  <2>1. /\ \/ pc[s] = "post" /\ pc' = [pc EXCEPT ![s] = "call"]
           \/ pc[s] = "call" /\ pc' = [pc EXCEPT ![s] = "stream"]
        /\ \A t \in Sessions \ {s} : stream'[t] = stream[t] /\ got'[t] = got[t] /\ body'[t] = body[t]
        /\ UNCHANGED <<request, conversations>>
    BY <1>0, <1>5 DEF PostTurn, StreamStarts, Go
  <2>2. RowsTyped' /\ Apart(s) /\ ConversationsKept
    BY <1>0, <1>1, <2>1 DEF RowsTyped, ConversationsKept, Apart, OthersSame
  <2>3. Steady(s)
    BY <1>0, <1>1, <2>1 DEF Steady, Early, Busy, Sending, Over
  <2> QED
    BY <1>1, <2>2, <2>3, QuietStep
<1> QED
  BY <1>2, <1>3, <1>4, <1>5
(* The steps that end a turn, or begin or end a session, and store nothing. *)
LEMMA EndingRows ==
  ASSUME TurnInv, RowsInv, NEW s \in Sessions,
         \/ EnsureFails(s) \/ Denied(s) \/ AllowFails(s) \/ HistoryFails(s) \/ AgentUnavailable(s)
         \/ StreamEnds(s) \/ Connect(s) \/ Disconnect(s) \/ (PersistFails(s) /\ UNCHANGED messages)
  PROVE  RowsInv'
<1> USE DEF wire, session, store, bounds
<1>0. /\ RowsTyped /\ Session(s) /\ DOMAIN pc = Sessions /\ DOMAIN body = Sessions /\ AnswersTyped
  BY DEF RowsInv, TurnInv, ScopeInv, WireTyped, AnswerInv
<1>1. \E next \in {"read", "down"} : Go(s, next)
  BY DEF EnsureFails, Denied, AllowFails, HistoryFails, AgentUnavailable, StreamEnds, Connect,
         Disconnect, PersistFails, SendError
<1>2. UNCHANGED <<messages, turns, reply, target, request, stream, got, left>>
  BY DEF EnsureFails, Denied, AllowFails, HistoryFails, AgentUnavailable, StreamEnds, Connect,
         Disconnect, PersistFails
<1>3. /\ body' = body \/ body' = [body EXCEPT ![s] = "none"]
      /\ turn' = turn \/ turn' = [turn EXCEPT ![s] = 0]
      /\ \/ conversationID' = conversationID
         \/ conversationID' = [conversationID EXCEPT ![s] = NoConversation]
  BY DEF EnsureFails, Denied, AllowFails, HistoryFails, AgentUnavailable, StreamEnds, Connect,
         Disconnect, PersistFails
<1>4. \A t \in Sessions \ {s} : answers'[t] = answers[t] /\ conn'[t] = conn[t]
  BY <1>0 DEF EnsureFails, Denied, AllowFails, HistoryFails, AgentUnavailable, StreamEnds, Connect,
              Disconnect, PersistFails, SendError, AnswersTyped
<1>5. ConversationsKept
  <2>1. ASSUME EnsureFails(s), Ensure(conversationID[s], target[s]) PROVE ConversationsKept
    <3>1. conversationID[s] \in Conversations
      BY <1>0, <2>1 DEF EnsureFails, Session, InConversation, Busy
    <3> QED
      BY <1>0, <2>1, <3>1 DEF Ensure, ConversationsKept, RowsTyped
  <2>2. conversations' = conversations \/ (EnsureFails(s) /\ Ensure(conversationID[s], target[s]))
    BY DEF EnsureFails, Denied, AllowFails, HistoryFails, AgentUnavailable, StreamEnds, Connect,
           Disconnect, PersistFails
  <2> QED
    BY <1>0, <2>1, <2>2 DEF ConversationsKept, RowsTyped
<1>6. RowsTyped'
  <2>1. turn' \in [Sessions -> Nat]
    <3>1. turn \in [Sessions -> Nat]
      BY <1>0 DEF RowsTyped
    <3> QED
      BY <1>3, <3>1
  <2>2. conversationID' \in [Sessions -> Conversations \cup {NoConversation}]
    BY <1>0, <1>3 DEF RowsTyped
  <2> QED
    BY <1>0, <1>2, <1>5, <2>1, <2>2 DEF RowsTyped, ConversationsKept
<1>7. Apart(s)
  <2>1. \A t \in Sessions \ {s} : pc'[t] = pc[t]
    BY <1>0, <1>1 DEF Go
  <2>2. \A t \in Sessions \ {s} : body'[t] = body[t]
    BY <1>0, <1>3
  <2>3. \A t \in Sessions \ {s} : turn'[t] = turn[t] /\ conversationID'[t] = conversationID[t]
    BY <1>0, <1>3 DEF RowsTyped
  <2> QED
    BY <1>2, <1>4, <2>1, <2>2, <2>3 DEF Apart, OthersSame
<1>8. Steady(s)
  BY <1>0, <1>1 DEF Go, Steady, Busy
<1> QED
  BY <1>2, <1>5, <1>6, <1>7, <1>8, QuietStep

(* The lines that are read, and what the browser does meanwhile. *)
LEMMA LineRows ==
  ASSUME TurnInv, RowsInv, NEW s \in Sessions,
         \/ ForwardFails(s) \/ OnToken(s) \/ OnToolCall(s) \/ OnToolResult(s) \/ OnError(s)
         \/ (OnDone(s) /\ UNCHANGED messages) \/ ReceiveInvalid(s) \/ BrowserLeaves(s)
  PROVE  RowsInv'
<1> USE DEF wire, session, store, bounds
<1>0. /\ RowsTyped /\ Session(s) /\ AnswersTyped /\ got \in [Sessions -> Nat]
  BY DEF RowsInv, TurnInv, ScopeInv, WireTyped, AnswerInv
<1>1. /\ UNCHANGED <<pc, messages, turns, turn, target, conversationID, conversations, request,
                     stream, body>>
  BY DEF ForwardFails, OnToken, OnToolCall, OnToolResult, OnError, OnDone, Forward,
         ReceiveInvalid, BrowserLeaves
<1>2. got' = got \/ (got' = [got EXCEPT ![s] = @ + 1] /\ got[s] < Len(stream[s]))
  BY DEF ForwardFails, OnToken, OnToolCall, OnToolResult, OnError, OnDone, Forward,
         ReceiveInvalid, BrowserLeaves, Consume, Reading
<1>3. reply' = reply \/ reply' = [reply EXCEPT ![s] = <<>>]
      \/ reply' = [reply EXCEPT ![s] = Append(@, got[s] + 1)]
  BY DEF ForwardFails, OnToken, OnToolCall, OnToolResult, OnError, OnDone, Forward,
         ReceiveInvalid, BrowserLeaves
<1>4. \A t \in Sessions \ {s} :
        answers'[t] = answers[t] /\ conn'[t] = conn[t] /\ left'[t] = left[t]
  BY <1>0 DEF ForwardFails, OnToken, OnToolCall, OnToolResult, OnError, OnDone, Forward,
              ReceiveInvalid, BrowserLeaves, AnswersTyped
<1>5. reply' \in [Sessions -> Seq(Nat)]
  <2>1. Append(reply[s], got[s] + 1) \in Seq(Nat) /\ <<>> \in Seq(Nat)
    BY <1>0 DEF RowsTyped
  <2> QED
    BY <1>0, <1>3, <2>1 DEF RowsTyped
<1>6. RowsTyped' /\ ConversationsKept
  BY <1>0, <1>1, <1>5 DEF RowsTyped, ConversationsKept
<1>7. Apart(s)
  BY <1>0, <1>1, <1>2, <1>4 DEF Apart, OthersSame
<1>8. Steady(s)
  BY <1>0, <1>1, <1>2 DEF Steady, Over, Busy, Sending, Early
<1> QED
  BY <1>1, <1>6, <1>7, <1>8, QuietStep

(* A turn begins, with a number nobody has had. *)
LEMMA ReceiveRows ==
  ASSUME TurnInv, RowsInv, NEW s \in Sessions, Receive(s)
  PROVE  RowsInv'
<1> USE DEF wire, session, store, bounds
<1>0. /\ RowsTyped /\ Numbered /\ RowsInOrder /\ (\A t \in Sessions : Session(t))
      /\ DOMAIN pc = Sessions /\ target \in [Sessions -> MaybeCustomer] /\ AnswersTyped
  BY DEF RowsInv, TurnInv, ScopeInv, WireTyped, AnswerInv
<1>1. /\ UNCHANGED <<messages, conversations, request, stream, got, body, conn, left>>
      /\ pc' = [pc EXCEPT ![s] = "ensure"] /\ turns' = turns + 1
      /\ turn' = [turn EXCEPT ![s] = turns + 1] /\ reply' = [reply EXCEPT ![s] = <<>>]
      /\ answers' = [answers EXCEPT ![s] = 0]
  BY DEF Receive, Go
<1>2. PICK c \in Conversations : conversationID' = [conversationID EXCEPT ![s] = c]
  BY <1>0 DEF Receive, Fresh, RowsTyped
<1>3. PICK customer \in Customers : target' = [target EXCEPT ![s] = customer]
  <2>1. PICK asked \in Customers :
          target' = [target EXCEPT ![s] = IF Role(s) = "customer" THEN SubOf[s] ELSE asked]
    BY DEF Receive
  <2>2. Role(s) = "customer" => SubOf[s] \in Customers
    BY SubOfAssumption DEF Role
  <2> QED
    BY <2>1, <2>2
<1>4. RowsTyped'
  BY <1>0, <1>1, <1>2 DEF RowsTyped
<1>5. \A t \in Sessions \ {s} : Steady(t)
  BY <1>0, <1>1, <1>2, <1>3, ApartSteady DEF Apart, OthersSame, RowsTyped, AnswersTyped
<1>6. \A d \in Conversations : \A i \in 1..Len(messages[d]) :
        messages[d][i].turn <= turns /\ messages[d][i].turn \in Nat
  <2>1. \A d \in Conversations : \A i \in 1..Len(messages[d]) : messages[d][i] \in Row
    BY <1>0 DEF RowsTyped
  <2> QED
    BY <1>0, <2>1 DEF Numbered, Row
<1>7. Session(s)'
  <2>1. pc'[s] = "ensure" /\ turn'[s] = turns + 1 /\ conversationID'[s] = c /\ target'[s] = customer
    BY <1>0, <1>1, <1>2, <1>3 DEF RowsTyped
  <2>2. NotStored(s)'
    BY <1>0, <1>1, <1>6, <2>1 DEF NotStored, RowsTyped
  <2> QED
    BY <1>0, <1>1, <2>1, <2>2
       DEF Session, InConversation, IsStored, NoReplyYet, OwnNumber, Early, Stored, Sending, RowsTyped
<1>8. ASSUME NEW t \in Sessions \ {s} PROVE Session(t)' /\ (pc'[t] \in Busy => turn'[t] <= turns)
  <2>1. Session(t) /\ Steady(t) /\ turn[t] \in Nat /\ turns \in Nat
    BY <1>0, <1>5 DEF RowsTyped
  <2>2. InConversation(t)' /\ OwnNumber(t)' /\ (pc'[t] \in Busy => turn'[t] <= turns)
    BY <1>1, <2>1 DEF Session, Steady, InConversation, OwnNumber, Sending, Busy
  <2>3. NotStored(t)' /\ IsStored(t)' /\ NoReplyYet(t)'
    BY <1>1, <2>1 DEF Session, Steady, NotStored, IsStored, NoReplyYet, Early, Stored, Busy
  <2> QED
    BY <2>2, <2>3 DEF Session
<1>9. Numbered'
  <2>1. turn'[s] = turns + 1 /\ turns \in Nat /\ \A t \in Sessions : turn'[t] \in Nat
    BY <1>0, <1>1, <1>4 DEF RowsTyped
  <2>2. \A t, u \in Sessions \ {s} : pc'[t] = pc[t] /\ turn'[t] = turn[t]
    BY <1>0, <1>1 DEF RowsTyped
  <2>3. \A d \in Conversations : \A i \in 1..Len(messages'[d]) : messages'[d][i].turn <= turns'
    BY <1>1, <1>6, <2>1
  <2>4. \A t \in Sessions \ {s} : pc'[t] \in Busy => turn'[t] # turn'[s]
    BY <1>8, <2>1
  <2>5. \A t, u \in Sessions \ {s} : t # u /\ pc'[t] \in Busy /\ pc'[u] \in Busy => turn'[t] # turn'[u]
    BY <1>0, <2>2 DEF Numbered
  <2> QED
    BY <2>3, <2>4, <2>5 DEF Numbered
<1>10. RowsInOrder'
  <2>1. RowsInOrder /\ messages' = messages /\ conversations' = conversations
    BY <1>0, <1>1
  <2> QED
    BY <2>1 DEF RowsInOrder
<1> QED
  BY <1>4, <1>7, <1>8, <1>9, <1>10 DEF RowsInv
(* The turn's message is stored. *)
LEMMA MessageRows ==
  ASSUME TurnInv, RowsInv, NEW s \in Sessions,
         PersistUser(s) \/ PersistFails(s), Insert(conversationID[s], UserRow(turn[s]))
  PROVE  RowsInv'
<1> USE DEF wire, session, store, bounds
<1> DEFINE row == UserRow(turn[s])
           c == conversationID[s]
           n == Len(messages[c]) + 1
<1>0. RowsTyped /\ Session(s) /\ DOMAIN pc = Sessions /\ AnswersTyped
  BY DEF RowsInv, TurnInv, ScopeInv, WireTyped, AnswerInv
<1>1. /\ UNCHANGED <<turns, turn, conversationID, target, conversations, request, reply, stream, got,
                     body, left>>
      /\ pc[s] = "persist"
      /\ pc' = [pc EXCEPT ![s] = "history"] \/ pc' = [pc EXCEPT ![s] = "read"]
      /\ \A t \in Sessions \ {s} : answers'[t] = answers[t] /\ conn'[t] = conn[t]
  BY <1>0 DEF PersistUser, PersistFails, SendError, Go, AnswersTyped
<1>2. c \in Conversations /\ conversations[c] # NoCustomer
  BY <1>0, <1>1 DEF Session, InConversation, Busy
<1>3. row \in Row /\ row.turn = turn[s] /\ row.role = "user"
  BY <1>0 DEF UserRow, Row, RowsTyped
<1>4. /\ messages' \in [Conversations -> Seq(Row)]
      /\ Len(messages[c]) \in Nat /\ Len(messages'[c]) = n /\ messages'[c][n] = row
      /\ \A i \in 1..Len(messages[c]) : messages'[c][i] = messages[c][i]
      /\ \A d \in Conversations : d # c => messages'[d] = messages[d]
  BY <1>0, <1>2, <1>3, Inserted
<1>5. RowsTyped'
  BY <1>0, <1>1, <1>4 DEF RowsTyped
<1>6. Apart(s)
  BY <1>0, <1>1 DEF Apart, OthersSame
<1>7. Session(s)'
  <2>1. CASE pc'[s] = "read"
    BY <2>1 DEF Session, InConversation, NotStored, IsStored, NoReplyYet, OwnNumber, Busy, Early,
                Stored, Sending
  <2>2. CASE pc'[s] = "history"
    <3>1. InConversation(s)' /\ NotStored(s)' /\ OwnNumber(s)'
      BY <1>0, <1>1, <2>2
         DEF Session, InConversation, NotStored, OwnNumber, Busy, Early, Sending
    <3>2. IsStored(s)'
      <4>1. n \in 1..Len(messages'[c])
        BY <1>4
      <4> QED
        BY <1>1, <1>4, <4>1 DEF IsStored
    <3>3. NoReplyYet(s)'
      <4>1. \A d \in Conversations : \A i \in 1..Len(messages[d]) : messages[d][i].turn # turn[s]
        BY <1>0, <1>1 DEF Session, NotStored, Early
      <4>2. \A i \in 1..n : i = n \/ i \in 1..Len(messages[c])
        BY <1>4
      <4> HIDE DEF n, c, row
      <4>3. \A d \in Conversations : \A i \in 1..Len(messages'[d]) :
              messages'[d][i].turn = turn[s] => messages'[d][i].role = "user"
        BY <1>2, <1>3, <1>4, <4>1, <4>2
      <4> QED
        BY <1>1, <4>3 DEF NoReplyYet
    <3> QED
      BY <3>1, <3>2, <3>3 DEF Session
  <2> QED
    BY <1>0, <1>1, <2>1, <2>2
<1>8. \A t \in Sessions \ {s} : Steady(t)
  BY <1>6, ApartSteady
<1>9. pc[s] \in Busy \ {"ensure"} /\ pc[s] \in Early
  BY <1>1 DEF Busy, Early
<1> HIDE DEF row, c, n
<1>10. Insert(conversationID[s], row)
  BY DEF row
<1> QED
  BY <1>1, <1>3, <1>5, <1>7, <1>8, <1>9, <1>10, RowStored

(* The reply is stored: the response is over. *)
LEMMA ReplyRows ==
  ASSUME TurnInv, RowsInv, NEW s \in Sessions,
         OnDone(s), Insert(conversationID[s], AssistantRow(turn[s], reply[s]))
  PROVE  RowsInv'
<1> USE DEF wire, session, store, bounds
<1> DEFINE row == AssistantRow(turn[s], reply[s])
           c == conversationID[s]
<1>0. /\ RowsTyped /\ Session(s) /\ Ends(s) /\ AnswersTyped
      /\ got \in [Sessions -> Nat] /\ Len(stream[s]) \in Nat
  BY DEF RowsInv, TurnInv, ScopeInv, WireTyped, AnswerInv, EndInv
<1>1. /\ UNCHANGED <<pc, turns, turn, conversationID, target, conversations, request, stream, body,
                     left, conn>>
      /\ got' = [got EXCEPT ![s] = @ + 1] /\ reply' = [reply EXCEPT ![s] = <<>>]
      /\ answers' = [answers EXCEPT ![s] = @ + 1]
      /\ pc[s] = "stream" /\ got[s] < Len(stream[s]) /\ stream[s][got[s] + 1].type = "done"
  BY DEF OnDone, Forward, Consume, Reading, Line
<1>2. c \in Conversations
  BY <1>0, <1>1 DEF Session, InConversation, Busy
<1>3. row \in Row /\ row.turn = turn[s] /\ row.role = "assistant"
  BY <1>0 DEF AssistantRow, Row, RowsTyped
<1>4. /\ messages' \in [Conversations -> Seq(Row)]
      /\ Len(messages[c]) \in Nat /\ Len(messages'[c]) = Len(messages[c]) + 1
      /\ \A i \in 1..Len(messages[c]) : messages'[c][i] = messages[c][i]
  BY <1>0, <1>2, <1>3, Inserted
<1>5. RowsTyped'
  BY <1>0, <1>1, <1>4 DEF RowsTyped
<1>6. Apart(s)
  BY <1>0, <1>1 DEF Apart, OthersSame, AnswersTyped
<1>7. ~Over(s) /\ Over(s)'
  <2>1. got[s] + 1 \in 1..Len(stream[s])
    BY <1>0, <1>1
  <2>2. got[s] + 1 = Len(stream[s]) /\ body[s] \notin {"called", "open"}
    BY <1>0, <1>1, <2>1 DEF Ends, Ending
  <2> QED
    BY <1>0, <1>1, <2>2 DEF Over, Ends
<1>8. Session(s)'
  <2>1. InConversation(s)' /\ NotStored(s)' /\ OwnNumber(s)' /\ NoReplyYet(s)'
    BY <1>0, <1>1, <1>7
       DEF Session, InConversation, NotStored, OwnNumber, NoReplyYet, Busy, Early, Sending
  <2>2. IsStored(s)'
    <3>1. PICK i \in 1..Len(messages[c]) : messages[c][i] = UserRow(turn[s])
      BY <1>0, <1>1 DEF Session, IsStored, Stored
    <3>2. i \in 1..Len(messages'[c]) /\ messages'[c][i] = UserRow(turn[s])
      BY <1>4, <3>1
    <3> QED
      BY <1>1, <3>2 DEF IsStored, UserRow
  <2> QED
    BY <2>1, <2>2 DEF Session
<1>9. \A t \in Sessions \ {s} : Steady(t)
  BY <1>6, ApartSteady
<1>10. pc[s] \in Busy \ {"ensure"} /\ pc[s] \in Stored
  BY <1>1 DEF Busy, Stored
<1> HIDE DEF row, c
<1>11. Insert(conversationID[s], row)
  BY DEF row
<1> QED
  BY <1>1, <1>3, <1>5, <1>7, <1>8, <1>9, <1>10, <1>11, RowStored

(* The gateway keeps the rows in order ... *)
LEMMA GatewayRows ==
  ASSUME TurnInv, RowsInv, GatewayNext
  PROVE  RowsInv'
<1>1. ASSUME NEW s \in Sessions, PersistUser(s) \/ PersistFails(s) PROVE RowsInv'
  <2>1. Insert(conversationID[s], UserRow(turn[s])) \/ (PersistFails(s) /\ UNCHANGED messages)
    BY <1>1 DEF PersistUser, PersistFails
  <2> QED
    BY <1>1, <2>1, MessageRows, EndingRows
<1>2. ASSUME NEW s \in Sessions, OnDone(s) PROVE RowsInv'
  <2>1. Insert(conversationID[s], AssistantRow(turn[s], reply[s])) \/ UNCHANGED messages
    BY <1>2 DEF OnDone
  <2> QED
    BY <1>2, <2>1, ReplyRows, LineRows
<1>3. ASSUME GatewayCrash PROVE RowsInv'
  <2>1. /\ UNCHANGED <<conversationID, conversations, turns, turn, reply, messages, request>>
        /\ pc' = [s \in Sessions |-> "down"]
    BY <1>3 DEF GatewayCrash, wire, session, store, bounds
  <2>2. RowsTyped' /\ ConversationsKept
    BY <2>1 DEF RowsInv, RowsTyped, ConversationsKept
  <2>3. \A s \in Sessions : Steady(s)
    BY <2>1 DEF Steady, Busy
  <2> QED
    BY <2>1, <2>2, <2>3, QuietRows
<1> QED
  BY <1>1, <1>2, <1>3, OnwardRows, EndingRows, LineRows, ReceiveRows
     DEF GatewayNext, TurnStep, BrowserStep

(* ... and the agent has nothing to do with them. *)
LEMMA AgentRows ==
  ASSUME TurnInv, RowsInv, AgentNext, UNCHANGED gatewayVars
  PROVE  RowsInv'
<1>1. UNCHANGED <<gatewayVars, request, got>> /\ \A s \in Sessions : Responds(s)
  BY AgentAnswers, AgentResponds DEF TurnInv, ScopeInv, Answering
<1>2. RowsTyped' /\ ConversationsKept
  BY <1>1 DEF RowsInv, RowsTyped, ConversationsKept, gatewayVars
<1>3. \A s \in Sessions : Steady(s)
  BY <1>1 DEF Steady, gatewayVars, Responds, Untouched, Longer, Cut, Over
<1> QED
  BY <1>1, <1>2, <1>3, QuietRows DEF gatewayVars

(* Every step keeps them in order. *)
LEMMA RowsStep == TurnInv /\ RowsInv /\ [Next]_vars => RowsInv'
<1> SUFFICES ASSUME TurnInv, RowsInv, [Next]_vars PROVE RowsInv'
  OBVIOUS
<1>1. CASE UNCHANGED vars
  <2>1. RowsTyped' /\ ConversationsKept
    BY <1>1 DEF vars, wire, gatewayVars, RowsInv, RowsTyped, ConversationsKept
  <2>2. \A s \in Sessions : Steady(s)
    BY <1>1 DEF vars, wire, gatewayVars, Steady, Over
  <2> QED
    BY <1>1, <2>1, <2>2, QuietRows DEF vars, gatewayVars
<1> QED
  BY <1>1, GatewayRows, AgentRows DEF Next

(***************************************************************************)
(* However many sessions share a conversation, its rows make sense.        *)
(***************************************************************************)
THEOREM RowsOrdered == Spec => []RowsInOrder
<1>1. Init => TurnInv /\ RowsInv
  BY InitTurn, InitRows
<1>2. TurnInv /\ RowsInv /\ [Next]_vars => TurnInv' /\ RowsInv'
  BY TurnStepped, RowsStep
<1>3. RowsInv => RowsInOrder
  BY DEF RowsInv
<1> QED
  BY <1>1, <1>2, <1>3, PTL DEF Spec

(***************************************************************************)
(* What runs in the agent is a turn whose message is on record.            *)
(***************************************************************************)
THEOREM StoredFirst == Spec => []OnlyStoredTurnsRun
<1>1. Init => TurnInv /\ RowsInv
  BY InitTurn, InitRows
<1>2. TurnInv /\ RowsInv /\ [Next]_vars => TurnInv' /\ RowsInv'
  BY TurnStepped, RowsStep
<1>3. TurnInv /\ RowsInv => OnlyStoredTurnsRun
  <2> SUFFICES ASSUME TurnInv, RowsInv, NEW s \in Sessions, body[s] # "none"
               PROVE  \E c \in Conversations : \E i \in 1..Len(messages[c]) :
                        messages[c][i] = UserRow(request[s].turn)
    BY DEF OnlyStoredTurnsRun
  <2>1. pc[s] \in Waiting /\ Session(s)
    BY DEF TurnInv, ScopeInv, TurnsOwn, Awaited, RowsInv
  <2>2. /\ IsStored(s) /\ pc[s] \in Stored /\ request[s].turn = turn[s]
        /\ conversationID[s] \in Conversations
    BY <2>1 DEF Session, InConversation, OwnNumber, Waiting, Stored, Sending, Busy
  <2> QED
    BY <2>2 DEF IsStored
<1> QED
  BY <1>1, <1>2, <1>3, PTL DEF Spec

-----------------------------------------------------------------------------
(***************************************************************************)
(* The audit log.  As long as nothing fails and the browser stays: every   *)
(* call in flight has its event in the queue, the response follows the     *)
(* queue, every line to be audited that was read has its row, and a change *)
(* of a backend has its row or its line is to come.                        *)
(***************************************************************************)
Clean(s) == ~left[s] /\ faults = 0 /\ crashes = 0
Live(s) == body[s] \in {"open", "closed"}

AnnouncedAt(s, at, call) ==
  at \in 1..Len(events[s]) /\ events[s][at] = ToolCall(call, request[s].target)

ToAudit(line) == line.type = "tool_call" /\ line.audit

Marked(s, at) == ToAudit(stream[s][at])
LogHas(log, t, at) == \E row \in log : row.turn = t /\ row.at = at
HasRow(t, at) == LogHas(auditLog, t, at)

CallsAnnounced(s) == Live(s) => \A f \in inflight[s] : AnnouncedAt(s, f.at, f.call)
Follows(s) ==
  /\ Live(s) => \A i \in 1..Len(stream[s]) :
       i \in 1..Len(events[s]) => stream[s][i] = events[s][i]
  /\ body[s] = "open" => Len(stream[s]) <= Len(events[s])
  /\ body[s] = "closed" => Len(events[s]) <= Len(stream[s])
ReadAudited(s) ==
  pc[s] \in Waiting => \A at \in 1..got[s] : Marked(s, at) => HasRow(turn[s], at)
EffectsKnown(s) ==
  \A e \in effects[s] :
    \/ HasRow(e.turn, e.at)
    \/ /\ Live(s) /\ e.turn = turn[s] /\ got[s] < e.at
       /\ e.at \in 1..Len(events[s]) /\ ToAudit(events[s][e.at])

Recorded(s) == CallsAnnounced(s) /\ Follows(s) /\ ReadAudited(s) /\ EffectsKnown(s)

AuditInv ==
  crashes \in Nat /\ faults \in Nat /\ \A s \in Sessions : Clean(s) => Recorded(s)

\* What a step of the gateway does to the record of one session.
Records(s) ==
  /\ auditLog \subseteq auditLog'
  /\ pc'[s] \in Waiting => turn'[s] = turn[s] /\ request'[s] = request[s]
  /\ ReadsLine(s) /\ Marked(s, got[s] + 1) =>
       LogHas(auditLog', turn[s], got[s] + 1)
  /\ Finishes(s) =>
       body[s] \in {"none", "refused"} \/ (body[s] = "closed" /\ got[s] = Len(stream[s]))

(***************************************************************************)
(* A gateway that does not fail, and whose browser stays, writes the row   *)
(* of a line as it reads the line, and reads a response to its end.        *)
(***************************************************************************)
LEMMA GatewayRecords ==
  ASSUME TurnInv, faults \in Nat, GatewayNext, NEW s \in Sessions, Clean(s)'
  PROVE  Records(s) /\ ~left[s] /\ faults = 0
<1> USE DEF wire, session, store, bounds
<1> DEFINE Kept == Records(s) /\ ~left[s] /\ faults = 0
<1>0. /\ DOMAIN pc = Sessions /\ DOMAIN body = Sessions /\ DOMAIN turn = Sessions
      /\ DOMAIN left = Sessions /\ DOMAIN request = Sessions /\ got \in [Sessions -> Nat]
      /\ ~left[s] => conn[s] = "up"
  BY DEF TurnInv, AnswerInv, AnswersTyped, Answers, ScopeInv, WireTyped
<1>1. ~Fault /\ ~left'[s] /\ faults' = 0
  BY DEF Fault, Clean
<1>2. ASSUME UNCHANGED <<auditLog, body, got>>, ~left[s], faults = 0,
             pc'[s] \in Waiting => turn'[s] = turn[s] /\ request'[s] = request[s]
      PROVE  Kept
  BY <1>0, <1>2 DEF Records, ReadsLine, Finishes
<1>3. ASSUME NEW r \in Sessions,
             \/ EnsureConversation(r) \/ Allowed(r) \/ Denied(r) \/ PersistUser(r)
             \/ StreamStarts(r) \/ ReceiveInvalid(r) \/ Disconnect(r) \/ BrowserLeaves(r)
      PROVE  Kept
  <2>1. UNCHANGED <<auditLog, body, got, faults, turn, request>>
    BY <1>3 DEF EnsureConversation, Allowed, Denied, PersistUser, StreamStarts,
                ReceiveInvalid, Disconnect, BrowserLeaves
  <2>2. ~left[s]
    BY <1>0, <1>1, <1>3 DEF EnsureConversation, Allowed, Denied, PersistUser, StreamStarts,
                ReceiveInvalid, Disconnect, BrowserLeaves
  <2> QED
    BY <1>1, <1>2, <2>1, <2>2
<1>4. ASSUME NEW r \in Sessions, LoadHistory(r) \/ Connect(r) \/ Receive(r) PROVE Kept
  <2>1. UNCHANGED <<auditLog, body, got, faults, left>>
    BY <1>4 DEF LoadHistory, Connect, Receive
  <2>2. /\ pc'[r] \notin Waiting
        /\ s # r => turn'[s] = turn[s] /\ request'[s] = request[s]
    BY <1>0, <1>4 DEF LoadHistory, Connect, Receive, Go, Waiting
  <2> QED
    BY <1>1, <1>2, <2>1, <2>2
<1>5. ASSUME NEW r \in Sessions, PostTurn(r) PROVE Kept
  <2>1. /\ UNCHANGED <<auditLog, turn, request, left, faults>>
        /\ body'[r] = "called" /\ pc[r] = "post"
        /\ s # r => got'[s] = got[s] /\ body'[s] = body[s]
    BY <1>0, <1>5 DEF PostTurn
  <2> QED
    BY <1>0, <1>1, <2>1 DEF Records, ReadsLine, Finishes
<1>6. ASSUME NEW r \in Sessions, AgentUnavailable(r) \/ StreamEnds(r) PROVE Kept
  <2>1. /\ UNCHANGED <<auditLog, turn, request, stream, got, left, faults>>
        /\ body[r] = "refused" \/ (body[r] = "closed" /\ got[r] = Len(stream[r]))
        /\ s # r => body'[s] = body[s]
    BY <1>0, <1>6 DEF AgentUnavailable, StreamEnds
  <2> QED
    BY <1>0, <1>1, <2>1 DEF Records, ReadsLine, Finishes
<1>7. ASSUME NEW r \in Sessions, OnToken(r) \/ OnToolResult(r) \/ OnDone(r) \/ OnError(r)
      PROVE  Kept
  <2>1. /\ UNCHANGED <<auditLog, turn, request, stream, body, left, faults>>
        /\ stream[r][got[r] + 1].type # "tool_call"
        /\ s # r => got'[s] = got[s]
    BY <1>0, <1>1, <1>7 DEF OnToken, OnToolResult, OnDone, OnError, Forward, Line, Consume
  <2> QED
    BY <1>0, <1>1, <2>1 DEF Records, ReadsLine, Finishes, Marked, ToAudit
<1>8. ASSUME NEW r \in Sessions, OnToolCall(r) PROVE Kept
  <2>1. /\ UNCHANGED <<turn, request, stream, body, left, faults>>
        /\ s # r => got'[s] = got[s]
    BY <1>0, <1>1, <1>8 DEF OnToolCall, Forward, Consume
  <2>2. /\ auditLog \subseteq auditLog'
        /\ stream[r][got[r] + 1].audit => AuditRow(r, stream[r][got[r] + 1]) \in auditLog'
    BY <1>1, <1>8 DEF OnToolCall, Line
  <2>3. \A line : AuditRow(r, line).turn = turn[r] /\ AuditRow(r, line).at = got[r] + 1
    BY DEF AuditRow
  <2> QED
    BY <1>0, <1>1, <2>1, <2>2, <2>3 DEF Records, ReadsLine, Finishes, Marked, ToAudit, LogHas
<1>9. ASSUME NEW r \in Sessions, ForwardFails(r) PROVE Kept
  <2>1. /\ UNCHANGED <<auditLog, turn, request, stream, body, left, faults>> /\ conn[r] # "up"
        /\ s # r => got'[s] = got[s]
    BY <1>0, <1>9 DEF ForwardFails, Consume
  <2> QED
    BY <1>0, <1>1, <2>1 DEF Records, ReadsLine, Finishes
<1>10. ASSUME NEW r \in Sessions, EnsureFails(r) \/ AllowFails(r) \/ PersistFails(r) \/ HistoryFails(r)
       PROVE  FALSE
  BY <1>1, <1>10 DEF EnsureFails, AllowFails, PersistFails, HistoryFails
<1>11. ~GatewayCrash
  BY <1>1 DEF GatewayCrash
<1> QED
  BY <1>3, <1>4, <1>5, <1>6, <1>7, <1>8, <1>9, <1>10, <1>11 DEF GatewayNext, TurnStep, BrowserStep

(* So it keeps the audit complete. *)
LEMMA GatewayAudit ==
  ASSUME TurnInv, AuditInv, GatewayNext, UNCHANGED agentVars
  PROVE  AuditInv'
<1>1. faults' \in Nat
  BY DEF AuditInv, GatewayNext, TurnStep, BrowserStep, GatewayCrash, Fault,
         EnsureConversation, EnsureFails, Allowed, Denied, AllowFails, PersistUser, PersistFails,
         LoadHistory, HistoryFails, PostTurn, StreamStarts, AgentUnavailable, ForwardFails,
         OnToken, OnToolCall, OnToolResult, OnDone, OnError, StreamEnds,
         Connect, ReceiveInvalid, Receive, Disconnect, BrowserLeaves
<1>2. ASSUME NEW s \in Sessions, Clean(s)'
      PROVE  Recorded(s)'
  <2>1. Records(s) /\ Clean(s) /\ Reads(s) /\ UNCHANGED <<events, inflight, effects>>
    BY <1>2, GatewayRecords, GatewayReads
       DEF AuditInv, Clean, TurnInv, ScopeInv, agentVars
  <2>2. /\ CallsAnnounced(s) /\ Follows(s) /\ ReadAudited(s) /\ EffectsKnown(s)
        /\ Awaited(s) /\ Ends(s)
        /\ got[s] \in Nat /\ Len(stream[s]) \in Nat /\ Len(events[s]) \in Nat
    BY <2>1 DEF AuditInv, Recorded, TurnInv, EndInv, ScopeInv, TurnsOwn, WireTyped
  <2>3. \A at, t : LogHas(auditLog, t, at) => LogHas(auditLog', t, at)
    BY <2>1 DEF Records, LogHas
  <2> USE DEF Recorded
  <2>4. CASE Elsewhere(s) \/ Opens(s)
    <3>1. /\ stream'[s] = stream[s] /\ body'[s] = body[s] /\ got'[s] = got[s]
          /\ pc'[s] \in Waiting => pc[s] \in Waiting /\ turn'[s] = turn[s] /\ request'[s] = request[s]
      BY <2>1, <2>4 DEF Elsewhere, Opens, SameWire, Records, Waiting
    <3>2. Live(s) => pc'[s] \in Waiting
      <4>1. Awaited(s)'
        BY ScopeStep DEF TurnInv, ScopeInv, TurnsOwn, Next
      <4> QED
        BY <3>1, <4>1 DEF Live, Awaited
    <3>3. CallsAnnounced(s)' /\ Follows(s)'
      BY <2>1, <2>2, <3>1, <3>2 DEF CallsAnnounced, Follows, Live, AnnouncedAt
    <3>4. ReadAudited(s)'
      BY <2>2, <2>3, <3>1 DEF ReadAudited, Marked, HasRow
    <3>5. EffectsKnown(s)'
      BY <2>1, <2>2, <2>3, <3>1, <3>2 DEF EffectsKnown, Live, HasRow
    <3> QED
      BY <3>3, <3>4, <3>5
  <2>5. CASE ReadsLine(s)
    <3>1. /\ stream'[s] = stream[s] /\ body'[s] = body[s] /\ got'[s] = got[s] + 1
          /\ got[s] < Len(stream[s]) /\ pc[s] \in Waiting /\ pc'[s] \in Waiting
          /\ turn'[s] = turn[s] /\ request'[s] = request[s]
          /\ Marked(s, got[s] + 1) => LogHas(auditLog', turn[s], got[s] + 1)
      BY <2>1, <2>5 DEF ReadsLine, SameWire, Records, Waiting
    <3>2. CallsAnnounced(s)' /\ Follows(s)'
      BY <2>1, <2>2, <3>1 DEF CallsAnnounced, Follows, Live, AnnouncedAt
    <3>3. ReadAudited(s)'
      <4>1. \A at \in 1..got'[s] : at \in 1..got[s] \/ at = got[s] + 1
        BY <2>2, <3>1
      <4> QED
        BY <2>2, <2>3, <3>1, <4>1 DEF ReadAudited, Marked, HasRow
    <3>4. EffectsKnown(s)'
      <4>1. \A at \in 1..Len(events[s]) : got[s] < at => at = got[s] + 1 \/ got'[s] < at
        BY <2>2, <3>1
      <4>2. ASSUME Live(s), got[s] + 1 \in 1..Len(events[s])
            PROVE  stream[s][got[s] + 1] = events[s][got[s] + 1]
        <5>1. got[s] + 1 \in 1..Len(stream[s])
          BY <2>2, <3>1
        <5> QED
          BY <2>2, <4>2, <5>1 DEF Follows
      <4> QED
        BY <2>1, <2>2, <2>3, <3>1, <4>1, <4>2 DEF EffectsKnown, Live, Marked, HasRow
    <3> QED
      BY <3>2, <3>3, <3>4
  <2>6. CASE Posts(s)
    BY <2>1, <2>2, <2>3, <2>6
       DEF Posts, Waiting, Awaited, CallsAnnounced, Follows, ReadAudited, EffectsKnown, Live, HasRow
  <2>7. CASE Finishes(s)
    <3>1. body'[s] = "none" /\ pc'[s] \notin Waiting
      BY <2>7 DEF Finishes, Waiting
    <3>2. Live(s) => Len(events[s]) <= got[s]
      BY <2>1, <2>2, <2>7 DEF Records, Follows, Live
    <3>3. EffectsKnown(s)'
      BY <2>1, <2>2, <2>3, <3>2 DEF EffectsKnown, HasRow
    <3> QED
      BY <3>1, <3>3 DEF CallsAnnounced, Follows, ReadAudited, Live
  <2> QED
    BY <2>1, <2>4, <2>5, <2>6, <2>7 DEF Reads
<1> QED
  BY <1>1, <1>2 DEF AuditInv, agentVars

(***************************************************************************)
(* What a step of chat-agent does to the calls and changes of one session: *)
(* a run begins with neither, or calls in flight are those of before or    *)
(* announced, and changes are those of before or of a call in flight.      *)
(***************************************************************************)
Begins(s) == body[s] = "called" /\ inflight'[s] = {} /\ effects'[s] = {}
Continues(s) ==
  /\ Live(s)' => Live(s)
  /\ \A i \in 1..Len(events[s]) : i \in 1..Len(events'[s]) /\ events'[s][i] = events[s][i]
  /\ \A f \in inflight'[s] :
       (\E g \in inflight[s] : f.at = g.at /\ f.call = g.call) \/ AnnouncedAt(s, f.at, f.call)'
  /\ \A e \in effects'[s] : e \in effects[s] \/
       (Live(s) /\ \E f \in inflight[s] :
          e.turn = request[s].turn /\ e.at = f.at /\ Mutates(f.call))
RunsOn(s) == Begins(s) \/ Continues(s)

(* An event more keeps those before it. *)
LEMMA QueueGrows ==
  ASSUME WireTyped, NEW s \in Sessions, NEW line, Queue(s, line)
  PROVE  /\ Len(events'[s]) = Len(events[s]) + 1 /\ events'[s][Len(events[s]) + 1] = line
         /\ \A i \in 1..Len(events[s]) : i \in 1..Len(events'[s]) /\ events'[s][i] = events[s][i]
         /\ \A t \in Sessions : t # s => events'[t] = events[t]
<1>1. events[s] \in Seq(SomeLine) /\ events'[s] = Append(events[s], line)
      /\ \A t \in Sessions : t # s => events'[t] = events[t]
  BY DEF WireTyped, Queue
<1> QED
  BY <1>1

(* Every step of chat-agent is one of these for every session. *)
LEMMA AgentRunsOn ==
  ASSUME WireTyped, AgentNext, crashes \in Nat, crashes' = 0
  PROVE  \A s \in Sessions : RunsOn(s)
<1> USE DEF RunsOn
<1>0. /\ DOMAIN body = Sessions /\ events \in [Sessions -> Seq(SomeLine)]
      /\ inflight \in [Sessions -> SUBSET InFlight] /\ DOMAIN effects = Sessions
      /\ \A s \in Sessions : Len(events[s]) \in Nat
  BY DEF WireTyped
<1>1. ASSUME NEW s \in Sessions, StartRun(s) \/ InitFails(s) PROVE \A t \in Sessions : RunsOn(t)
  <2>1. /\ body[s] = "called" /\ inflight'[s] = {} /\ effects'[s] = {}
        /\ \A t \in Sessions : t # s =>
             /\ body'[t] = body[t] /\ inflight'[t] = inflight[t] /\ effects'[t] = effects[t]
             /\ events'[t] = events[t]
    BY <1>0, <1>1 DEF StartRun, InitFails, CloseBody
  <2> QED
    BY <2>1 DEF Begins, Continues, Live
<1>2. ASSUME NEW s \in Sessions,
             \/ WriteText(s) \/ WriteCall(s) \/ WriteResult(s) \/ Finish(s) \/ AgentFails(s)
             \/ AgentRefuses(s)
      PROVE  \A t \in Sessions : RunsOn(t)
  <2>1. /\ UNCHANGED <<events, inflight, effects>>
        /\ \A t \in Sessions : body'[t] \in {"open", "closed"} => body[t] \in {"open", "closed"}
    BY <1>0, <1>2 DEF WriteText, WriteCall, WriteResult, Write, Finish, AgentFails, AgentRefuses,
                      CloseBody, Running, agentVars
  <2> QED
    BY <2>1 DEF Continues, Live
<1>3. ASSUME NEW s \in Sessions, NEW line, Queue(s, line), UNCHANGED <<body, effects>>,
             \A t \in Sessions : inflight'[t] \subseteq inflight[t]
      PROVE  \A t \in Sessions : RunsOn(t)
  <2> SUFFICES ASSUME NEW t \in Sessions PROVE Continues(t)
    OBVIOUS
  <2>1. Live(t)' => Live(t)
    BY <1>3 DEF Live
  <2>2. \A f \in inflight'[t] : \E g \in inflight[t] : f.at = g.at /\ f.call = g.call
    BY <1>3
  <2>3. \A i \in 1..Len(events[t]) : i \in 1..Len(events'[t]) /\ events'[t][i] = events[t][i]
    BY <1>3, QueueGrows
  <2> QED
    BY <1>3, <2>1, <2>2, <2>3 DEF Continues
<1>m. ASSUME NEW s \in Sessions, ModelText(s) PROVE \A t \in Sessions : RunsOn(t)
  BY <1>3, <1>m DEF ModelText, wire
<1>a. ASSUME NEW s \in Sessions, ToolEnd(s) \/ ToolError(s) PROVE \A t \in Sessions : RunsOn(t)
  <2>1. PICK f \in inflight[s], failed \in BOOLEAN : Answer(s, f, failed)
    BY <1>a DEF ToolEnd, ToolError
  <2>2. UNCHANGED <<body, effects>> /\ Queue(s, ToolResult(f.at, failed))
        /\ \A t \in Sessions : inflight'[t] \subseteq inflight[t]
    BY <1>0, <2>1 DEF Answer, wire
  <2> QED
    BY <1>3, <2>2
<1>4. ASSUME NEW s \in Sessions, ToolStart(s) PROVE \A t \in Sessions : RunsOn(t)
  <2>1. PICK call \in ModelCalls \cap Calls(request[s].role) :
          /\ Queue(s, ToolCall(call, request[s].target))
          /\ inflight' = [inflight EXCEPT ![s] =
               @ \cup {[at |-> Len(events[s]) + 1, call |-> call, ran |-> FALSE]}]
    BY <1>4 DEF ToolStart
  <2> DEFINE line == ToolCall(call, request[s].target)
             new == [at |-> Len(events[s]) + 1, call |-> call, ran |-> FALSE]
  <2>2. UNCHANGED <<body, effects, request>>
    BY <1>4 DEF ToolStart, wire
  <2> HIDE DEF line
  <2>3. /\ Len(events'[s]) = Len(events[s]) + 1 /\ events'[s][Len(events[s]) + 1] = line
        /\ \A i \in 1..Len(events[s]) : i \in 1..Len(events'[s]) /\ events'[s][i] = events[s][i]
        /\ \A t \in Sessions : t # s => events'[t] = events[t]
    BY <2>1, QueueGrows DEF line
  <2>4. Len(events[s]) + 1 \in 1..Len(events'[s])
    BY <1>0, <2>3
  <2>5. new.at = Len(events[s]) + 1 /\ new.call = call
    OBVIOUS
  <2>6. /\ \A f \in inflight'[s] : f \in inflight[s] \/ f = new
        /\ \A t \in Sessions : t # s => inflight'[t] = inflight[t]
    BY <1>0, <2>1
  <2> HIDE DEF new
  <2>7. \A f : f = new => AnnouncedAt(s, f.at, f.call)'
    BY <2>2, <2>3, <2>4, <2>5 DEF AnnouncedAt, line
  <2> QED
    BY <2>2, <2>3, <2>6, <2>7 DEF Continues, Live
<1>5. ASSUME NEW s \in Sessions, ToolTakesEffect(s) PROVE \A t \in Sessions : RunsOn(t)
  <2>1. PICK f \in inflight[s] :
          /\ Mutates(f.call)
          /\ inflight' = [inflight EXCEPT ![s] = (@ \ {f}) \cup {[f EXCEPT !.ran = TRUE]}]
          /\ effects' = [effects EXCEPT ![s] = @ \cup
               {[turn |-> request[s].turn, at |-> f.at, call |-> f.call,
                 customer |-> Affected(f.call, request[s].target)]}]
    BY <1>5 DEF ToolTakesEffect
  <2> DEFINE ran == [f EXCEPT !.ran = TRUE]
             change == [turn |-> request[s].turn, at |-> f.at, call |-> f.call,
                        customer |-> Affected(f.call, request[s].target)]
  <2>2. Live(s) /\ UNCHANGED <<body, events>>
    BY <1>5 DEF ToolTakesEffect, Live, wire
  <2>3. f \in InFlight
    BY <1>0
  <2>4. ran.at = f.at /\ ran.call = f.call
    BY <2>3 DEF InFlight
  <2>5. change.turn = request[s].turn /\ change.at = f.at
    OBVIOUS
  <2> HIDE DEF ran, change
  <2>6. /\ \A g \in inflight'[s] : g \in inflight[s] \/ g = ran
        /\ \A e \in effects'[s] : e \in effects[s] \/ e = change
        /\ \A t \in Sessions : t # s => inflight'[t] = inflight[t] /\ effects'[t] = effects[t]
    BY <1>0, <2>1 DEF ran, change
  <2> QED
    BY <2>1, <2>2, <2>4, <2>5, <2>6 DEF Continues, Live
<1>6. ASSUME AgentCrash PROVE FALSE
  BY <1>6 DEF AgentCrash
<1> QED
  BY <1>1, <1>2, <1>m, <1>a, <1>4, <1>5, <1>6 DEF AgentNext, AgentStep

(* A response that no crash cuts off follows the queue to its end. *)
LEMMA AgentFollows ==
  ASSUME WireTyped, AgentNext, crashes \in Nat, crashes' = 0, NEW t \in Sessions,
         Ends(t), Follows(t), Responds(t)
  PROVE  Follows(t)'
<1>0. /\ DOMAIN body = Sessions /\ events \in [Sessions -> Seq(SomeLine)]
      /\ stream \in [Sessions -> Seq(SomeLine)]
      /\ Len(events[t]) \in Nat /\ Len(stream[t]) \in Nat
  BY DEF WireTyped
<1>1. ASSUME UNCHANGED <<stream, body, events>> PROVE Follows(t)'
  BY <1>1 DEF Follows, Live
<1>2. ASSUME stream'[t] = stream[t], body'[t] = body[t], events'[t] = events[t] PROVE Follows(t)'
  BY <1>2 DEF Follows, Live
<1>3. ASSUME NEW s \in Sessions, NEW line, Queue(s, line), Running(s), UNCHANGED wire
      PROVE  Follows(t)'
  <2>1. CASE t # s
    BY <1>2, <1>3, <2>1, QueueGrows DEF wire
  <2>2. CASE t = s
    <3>1. /\ body[t] = "open" /\ UNCHANGED <<stream, body>> /\ Len(events'[t]) = Len(events[t]) + 1
          /\ \A i \in 1..Len(events[t]) : events'[t][i] = events[t][i]
      BY <1>3, <2>2, QueueGrows DEF wire, Running
    <3>2. \A i \in 1..Len(stream[t]) : i \in 1..Len(events[t])
      BY <1>0, <3>1 DEF Follows
    <3> QED
      BY <1>0, <3>1, <3>2 DEF Follows, Live
  <2> QED
    BY <2>1, <2>2
<1>4. ASSUME NEW s \in Sessions, StartRun(s) \/ InitFails(s) PROVE Follows(t)'
  <2>1. CASE t # s
    BY <1>0, <1>2, <1>4, <2>1 DEF StartRun, InitFails, CloseBody, Yield
  <2>2. CASE t = s
    <3>1. events'[t] = <<>> /\ stream[t] = <<>>
      BY <1>0, <1>4, <2>2 DEF StartRun, InitFails, Ends
    <3>2. CASE StartRun(t)
      BY <1>0, <3>1, <3>2 DEF StartRun, Follows
    <3>3. CASE InitFails(t)
      <4>1. stream'[t] = Append(<<>>, Error) /\ body'[t] = "closed"
        BY <1>0, <3>1, <3>3 DEF InitFails, CloseBody, Yield
      <4> QED
        BY <3>1, <4>1 DEF Follows
    <3> QED
      BY <1>4, <2>2, <3>2, <3>3
  <2> QED
    BY <2>1, <2>2
<1>5. ASSUME NEW s \in Sessions, ModelText(s) PROVE Follows(t)'
  BY <1>3, <1>5 DEF ModelText
<1>6. ASSUME NEW s \in Sessions, ToolStart(s) \/ ToolEnd(s) \/ ToolError(s) PROVE Follows(t)'
  <2>1. Running(s) /\ UNCHANGED wire /\ \E line : Queue(s, line)
    BY <1>6 DEF ToolStart, ToolEnd, ToolError, Answer
  <2> QED
    BY <1>3, <2>1
<1>7. ASSUME NEW s \in Sessions, ToolTakesEffect(s) PROVE Follows(t)'
  BY <1>1, <1>7 DEF ToolTakesEffect, wire
<1>8. ASSUME NEW s \in Sessions, NEW type, Write(s, type) PROVE Follows(t)'
  <2>1. CASE t # s
    BY <1>0, <1>2, <1>8, <2>1 DEF Write, Yield
  <2>2. CASE t = s
    <3> DEFINE n == Len(stream[t])
    <3>1. /\ body[t] = "open" /\ UNCHANGED <<body, events>> /\ n < Len(events[t])
          /\ stream'[t] = Append(stream[t], events[t][n + 1])
      BY <1>0, <1>8, <2>2 DEF Write, Yield, Running, NextEvent
    <3>2. stream[t] \in Seq(SomeLine) /\ n \in Nat
      BY <1>0
    <3>3. /\ Len(stream'[t]) = n + 1 /\ stream'[t][n + 1] = events[t][n + 1]
          /\ \A i \in 1..n : stream'[t][i] = stream[t][i]
      BY <3>1, <3>2
    <3>4. \A i \in 1..n : i \in 1..Len(events[t])
      BY <1>0, <3>1
    <3> HIDE DEF n
    <3>5. \A i \in 1..(n + 1) : i \in 1..n \/ i = n + 1
      BY <3>2
    <3>6. \A i \in 1..n : stream[t][i] = events[t][i]
      BY <3>1, <3>4 DEF Follows, Live, n
    <3> QED
      BY <1>0, <3>1, <3>3, <3>5, <3>6 DEF Follows, Live, n
  <2> QED
    BY <2>1, <2>2
<1>9. ASSUME NEW s \in Sessions, WriteText(s) \/ WriteCall(s) \/ WriteResult(s)
      PROVE  Follows(t)'
  BY <1>8, <1>9 DEF WriteText, WriteCall, WriteResult
<1>10. ASSUME NEW s \in Sessions, Finish(s) \/ AgentFails(s) PROVE Follows(t)'
  <2>1. CASE t # s
    BY <1>0, <1>2, <1>10, <2>1 DEF Finish, AgentFails, CloseBody, Yield, agentVars
  <2>2. CASE t = s
    <3>1. /\ body[t] = "open" /\ body'[t] = "closed" /\ UNCHANGED events
          /\ Len(stream[t]) = Len(events[t])
      BY <1>0, <1>10, <2>2 DEF Finish, AgentFails, Running, Drained, CloseBody, agentVars
    <3>2. /\ Len(stream[t]) <= Len(stream'[t])
          /\ \A i \in 1..Len(stream[t]) : stream'[t][i] = stream[t][i]
      <4>1. stream'[t] = stream[t] \o LastWords(t) \o <<Done>> \/ stream'[t] = Append(stream[t], Error)
        BY <1>0, <1>10, <2>2 DEF Finish, AgentFails, Yield
      <4>2. CASE stream'[t] = Append(stream[t], Error) \/ stream'[t] = Append(stream[t], Done)
        <5>1. stream[t] \in Seq(SomeLine)
          BY <1>0
        <5> QED
          BY <4>2, <5>1
      <4>3. CASE stream'[t] = Append(Append(stream[t], Token), Done)
        <5>1. stream[t] \in Seq(SomeLine) /\ Append(stream[t], Token) \in Seq(SomeLine)
          BY <1>0, PlainLines
        <5>2. Len(Append(stream[t], Token)) = Len(stream[t]) + 1
              /\ \A i \in 1..Len(stream[t]) : Append(stream[t], Token)[i] = stream[t][i]
          BY <5>1
        <5>3. Len(stream'[t]) = Len(stream[t]) + 2
              /\ \A i \in 1..(Len(stream[t]) + 1) : stream'[t][i] = Append(stream[t], Token)[i]
          BY <4>3, <5>1, <5>2
        <5>4. Len(stream[t]) <= Len(stream'[t])
          BY <1>0, <5>3
        <5>5. ASSUME NEW i \in 1..Len(stream[t]) PROVE stream'[t][i] = stream[t][i]
          <6>1. i \in 1..(Len(stream[t]) + 1)
            BY <1>0
          <6> QED
            BY <5>2, <5>3, <6>1
        <5> QED
          BY <5>4, <5>5
      <4> QED
        BY <1>0, <4>1, <4>2, <4>3, LastWordsAppended
    <3> QED
      BY <1>0, <3>1, <3>2 DEF Follows, Live
  <2> QED
    BY <2>1, <2>2
<1>11. ASSUME NEW s \in Sessions, AgentRefuses(s) PROVE Follows(t)'
  BY <1>0, <1>2, <1>11 DEF AgentRefuses, agentVars, Follows, Live
<1>12. ~AgentCrash
  BY DEF AgentCrash
<1> QED
  BY <1>4, <1>5, <1>6, <1>7, <1>9, <1>10, <1>11, <1>12 DEF AgentNext, AgentStep

(***************************************************************************)
(* A call that takes effect has its line: the row is there if the line was *)
(* read, and is to come otherwise.                                         *)
(***************************************************************************)
LEMMA AgentAudit ==
  ASSUME TurnInv, RowsInv, AuditInv, AgentNext, UNCHANGED gatewayVars
  PROVE  AuditInv'
<1>1. /\ UNCHANGED <<pc, left, turn, auditLog, faults, request, got>>
      /\ crashes' \in Nat /\ (crashes' = 0 => crashes = 0)
  <2>1. UNCHANGED <<pc, left, turn, auditLog, faults, request, got>>
    BY AgentAnswers DEF TurnInv, ScopeInv, Answering, gatewayVars
  <2>2. ASSUME NEW s \in Sessions, AgentStep(s) \/ AgentRefuses(s) PROVE UNCHANGED crashes
    BY <2>2 DEF AgentStep, AgentRefuses, StartRun, InitFails, ModelText, ToolStart,
                ToolTakesEffect, ToolEnd, ToolError, Answer, WriteText, WriteCall, WriteResult,
                Write, Finish, AgentFails, agentVars
  <2>3. UNCHANGED crashes \/ crashes' = crashes + 1
    BY <2>2 DEF AgentNext, AgentCrash
  <2> QED
    BY <2>1, <2>3 DEF AuditInv
<1>2. ASSUME NEW s \in Sessions, Clean(s)'
      PROVE  Recorded(s)'
  <2>1. Clean(s) /\ RunsOn(s) /\ Responds(s)
    BY <1>1, <1>2, AgentRunsOn, AgentResponds DEF Clean, AuditInv, TurnInv, ScopeInv
  <2>2. /\ CallsAnnounced(s) /\ Follows(s) /\ ReadAudited(s) /\ EffectsKnown(s)
        /\ Awaited(s) /\ Ends(s) /\ OwnNumber(s)
        /\ got[s] \in Nat /\ Len(stream[s]) \in Nat /\ Len(events[s]) \in Nat
    BY <2>1 DEF AuditInv, Recorded, TurnInv, EndInv, ScopeInv, TurnsOwn, WireTyped, RowsInv, Session
  <2>f. Follows(s)'
    BY <1>2, <2>1, <2>2, AgentFollows DEF Clean, AuditInv, TurnInv, ScopeInv
  <2>3. \A i \in 1..got[s] : i \in 1..Len(stream[s]) /\ stream'[s][i] = stream[s][i]
    BY <2>1, <2>2 DEF Ends, Responds, Untouched, Longer, Cut
  <2>4. ReadAudited(s)'
    BY <1>1, <2>2, <2>3 DEF ReadAudited, Marked, HasRow
  <2> USE DEF Recorded
  <2>5. CASE Begins(s)
    BY <2>f, <2>4, <2>5 DEF Begins, CallsAnnounced, EffectsKnown
  <2>6. CASE Continues(s)
    <3>1. ASSUME NEW at, NEW call, AnnouncedAt(s, at, call) PROVE AnnouncedAt(s, at, call)'
      BY <1>1, <2>6, <3>1 DEF AnnouncedAt, Continues
    <3>2. CallsAnnounced(s)'
      BY <2>2, <2>6, <3>1 DEF CallsAnnounced, Continues
    <3>l. Live(s) => Live(s)'
      BY <2>1 DEF Responds, Untouched, Longer, Cut, Live
    <3>3. ASSUME NEW e \in effects[s]
          PROVE  \/ HasRow(e.turn, e.at)'
                 \/ /\ Live(s)' /\ e.turn = turn'[s] /\ got'[s] < e.at
                    /\ e.at \in 1..Len(events'[s]) /\ ToAudit(events'[s][e.at])
      BY <1>1, <2>2, <2>6, <3>l, <3>3 DEF EffectsKnown, Continues, HasRow
    <3>4. ASSUME NEW e, Live(s), NEW f \in inflight[s],
                 e.turn = request[s].turn, e.at = f.at, Mutates(f.call)
          PROVE  \/ HasRow(e.turn, e.at)'
                 \/ /\ Live(s)' /\ e.turn = turn'[s] /\ got'[s] < e.at
                    /\ e.at \in 1..Len(events'[s]) /\ ToAudit(events'[s][e.at])
      <4>1. AnnouncedAt(s, e.at, f.call) /\ ComputeAudit(f.call)
        BY <2>2, <3>4 DEF CallsAnnounced, Mutates, ComputeAudit
      <4>2. e.at \in 1..Len(events[s]) /\ ToAudit(events[s][e.at])
        BY <4>1 DEF AnnouncedAt, ToAudit, ToolCall
      <4>3. pc[s] \in Waiting /\ e.turn = turn[s]
        BY <2>2, <3>4 DEF Live, Awaited, OwnNumber, Waiting, Sending
      <4>4. CASE got[s] < e.at
        BY <1>1, <2>6, <3>4, <3>l, <4>2, <4>3, <4>4 DEF Continues
      <4>5. CASE e.at \in 1..got[s]
        <5>1. e.at \in 1..Len(stream[s])
          BY <2>3, <4>5
        <5>2. Marked(s, e.at)
          BY <2>2, <3>4, <4>2, <5>1 DEF Follows, Marked
        <5> QED
          BY <1>1, <2>2, <4>3, <4>5, <5>2 DEF ReadAudited, HasRow
      <4> QED
        BY <2>2, <4>2, <4>4, <4>5
    <3>5. EffectsKnown(s)'
      BY <2>6, <3>3, <3>4 DEF EffectsKnown, Continues
    <3> QED
      BY <2>f, <2>4, <3>2, <3>5
  <2> QED
    BY <2>1, <2>5, <2>6 DEF RunsOn
<1> QED
  BY <1>1, <1>2 DEF AuditInv

(* Every step keeps the audit complete. *)
LEMMA AuditStep == TurnInv /\ RowsInv /\ AuditInv /\ [Next]_vars => AuditInv'
<1> SUFFICES ASSUME TurnInv, RowsInv, AuditInv, [Next]_vars PROVE AuditInv'
  OBVIOUS
<1>1. CASE UNCHANGED vars
  BY <1>1 DEF vars, wire, gatewayVars, agentVars, AuditInv, Clean, Recorded, CallsAnnounced, Follows,
              ReadAudited, EffectsKnown, Live, AnnouncedAt, Marked, HasRow
<1> QED
  BY <1>1, GatewayAudit, AgentAudit DEF Next

(***************************************************************************)
(* Once the line that announces it has been read, a change of a backend    *)
(* has its row in audit_log, unless something fails or the browser leaves. *)
(***************************************************************************)
THEOREM ChangesAudited == Spec => []ReadEffectsAudited
<1>1. Init => TurnInv /\ RowsInv /\ AuditInv
  <2>1. Init => AuditInv
    BY DEF Init, GatewayInit, AgentInit, AuditInv, Recorded, CallsAnnounced, Follows, ReadAudited,
           EffectsKnown, Live, Waiting
  <2> QED
    BY <2>1, InitTurn, InitRows
<1>2. TurnInv /\ RowsInv /\ AuditInv /\ [Next]_vars => TurnInv' /\ RowsInv' /\ AuditInv'
  BY TurnStepped, RowsStep, AuditStep
<1>3. TurnInv /\ RowsInv /\ AuditInv => ReadEffectsAudited
  <2> SUFFICES ASSUME TurnInv, RowsInv, AuditInv, NEW s \in Sessions, Clean(s),
                      NEW e \in effects[s], ~Audited(e)
               PROVE  e.turn = request[s].turn /\ InTurn(s) /\ got[s] < e.at
    BY DEF ReadEffectsAudited, Clean
  <2>1. Live(s) /\ e.turn = turn[s] /\ got[s] < e.at
    BY DEF AuditInv, Recorded, EffectsKnown, HasRow, LogHas, Audited
  <2>2. pc[s] \in Waiting /\ OwnNumber(s)
    BY <2>1 DEF Live, TurnInv, ScopeInv, TurnsOwn, Awaited, RowsInv, Session
  <2> QED
    BY <2>1, <2>2 DEF OwnNumber, Waiting, Sending, InTurn
<1> QED
  BY <1>1, <1>2, <1>3, PTL DEF Spec

-----------------------------------------------------------------------------
(***************************************************************************)
(* The assembled reply.  It is empty until the response is read, and then, *)
(* as long as no line was lost on the way to the browser, it is the text   *)
(* of what has been read.                                                  *)
(***************************************************************************)
ReadTokens(s) == {i \in 1..got[s] : stream[s][i] = Token}

Assembled(s) ==
  /\ pc[s] \in Busy \ {"stream"} => reply[s] = <<>>
  /\ pc[s] = "stream" /\ ~Over(s) /\ conn[s] # "broken" => Assembles(reply[s], ReadTokens(s))

ReplyInv == \A s \in Sessions : Assembled(s)

(* One token more. *)
LEMMA AssemblesMore ==
  ASSUME NEW n \in Nat, NEW positions \in SUBSET (1..n), NEW text \in Seq(Nat),
         Assembles(text, positions)
  PROVE  Assembles(Append(text, n + 1), positions \cup {n + 1})
<1> DEFINE longer == Append(text, n + 1)
           k == Len(text) + 1
<1>1. /\ DOMAIN text = 1..Len(text) /\ Len(text) \in Nat /\ DOMAIN longer = 1..k
      /\ longer[k] = n + 1 /\ \A i \in DOMAIN text : longer[i] = text[i]
  OBVIOUS
<1>2. \A i \in 1..k : i \in DOMAIN text \/ i = k
  BY <1>1
<1>3. \A i \in DOMAIN text : text[i] \in positions /\ text[i] < n + 1
  BY DEF Assembles
<1> HIDE DEF longer, k
<1>4. \A i, j \in DOMAIN longer : i < j => longer[i] < longer[j]
  <2> SUFFICES ASSUME NEW i \in 1..k, NEW j \in 1..k, i < j PROVE longer[i] < longer[j]
    BY <1>1
  <2>1. i \in DOMAIN text
    BY <1>1, <1>2 DEF k
  <2>2. CASE j = k
    BY <1>1, <1>3, <2>1, <2>2
  <2>3. CASE j \in DOMAIN text
    BY <1>1, <2>1, <2>3 DEF Assembles
  <2> QED
    BY <1>2, <2>2, <2>3
<1>5. {longer[i] : i \in DOMAIN longer} = positions \cup {n + 1}
  <2>1. ASSUME NEW i \in DOMAIN longer PROVE longer[i] \in positions \cup {n + 1}
    BY <1>1, <1>2, <1>3
  <2>2. ASSUME NEW p \in positions PROVE \E i \in DOMAIN longer : longer[i] = p
    <3>1. PICK i \in DOMAIN text : text[i] = p
      BY DEF Assembles
    <3> QED
      BY <1>1, <3>1 DEF k
  <2>3. k \in DOMAIN longer /\ longer[k] = n + 1
    BY <1>1 DEF k
  <2> QED
    BY <2>1, <2>2, <2>3, Zenon
<1> QED
  BY <1>4, <1>5 DEF Assembles, longer

(* It is enough to look at the session that takes the step. *)
LEMMA OneReply ==
  ASSUME ReplyInv, NEW s \in Sessions, OthersSame(s),
         \A t \in Sessions \ {s} : reply'[t] = reply[t], Assembled(s)'
  PROVE  ReplyInv'
<1>1. ASSUME NEW t \in Sessions \ {s} PROVE Assembled(t)'
  <2>1. /\ pc'[t] = pc[t] /\ got'[t] = got[t] /\ stream'[t] = stream[t] /\ body'[t] = body[t]
        /\ conn'[t] = conn[t] /\ reply'[t] = reply[t] /\ Assembled(t)
    BY DEF OthersSame, ReplyInv
  <2>2. ReadTokens(t)' = ReadTokens(t) /\ Over(t)' = Over(t)
    BY <2>1 DEF ReadTokens, Over
  <2> QED
    BY <2>1, <2>2 DEF Assembled
<1> QED
  BY <1>1 DEF ReplyInv

(* A token that is read goes into the reply. *)
LEMMA TokenAssembled ==
  ASSUME TurnInv, RowsInv, NEW s \in Sessions, Assembled(s), OnToken(s)
  PROVE  Assembled(s)'
<1>0. /\ got \in [Sessions -> Nat] /\ reply \in [Sessions -> Seq(Nat)]
      /\ stream[s] \in Seq(SomeLine) /\ Len(stream[s]) \in Nat
  BY DEF TurnInv, ScopeInv, WireTyped, RowsInv, RowsTyped
<1>1. /\ pc[s] = "stream" /\ got[s] < Len(stream[s]) /\ stream[s][got[s] + 1].type = "token"
      /\ conn[s] # "broken" /\ got'[s] = got[s] + 1 /\ reply'[s] = Append(reply[s], got[s] + 1)
      /\ UNCHANGED <<pc, stream>>
  BY <1>0 DEF OnToken, Forward, Reading, Line, Consume
<1>2. stream[s][got[s] + 1] = Token
  <2>1. stream[s][got[s] + 1] \in SomeLine
    BY <1>0, <1>1
  <2> QED
    BY <1>1, <2>1 DEF SomeLine, Terminators, Done, Error, Token
<1>3. Assembles(reply[s], ReadTokens(s))
  BY <1>0, <1>1 DEF Assembled, Over
<1>4. ReadTokens(s)' = ReadTokens(s) \cup {got[s] + 1}
  <2>1. 1..(got[s] + 1) = (1..got[s]) \cup {got[s] + 1}
    BY <1>0
  <2> QED
    BY <1>1, <1>2, <2>1 DEF ReadTokens
<1>5. ReadTokens(s) \in SUBSET (1..got[s])
  BY DEF ReadTokens
<1>6. Assembles(Append(reply[s], got[s] + 1), ReadTokens(s) \cup {got[s] + 1})
  <2>1. got[s] \in Nat /\ reply[s] \in Seq(Nat)
    BY <1>0
  <2> QED
    BY <1>3, <1>5, <2>1, AssemblesMore
<1> QED
  BY <1>1, <1>4, <1>6 DEF Assembled, Busy

(* The gateway loses nothing of the text it has read. *)
LEMMA GatewayReplies ==
  ASSUME TurnInv, RowsInv, ReplyInv, GatewayNext
  PROVE  ReplyInv'
<1> USE DEF wire, session, store, bounds
<1>0. /\ DOMAIN pc = Sessions /\ DOMAIN body = Sessions /\ AnswersTyped /\ RowsTyped
      /\ got \in [Sessions -> Nat] /\ stream \in [Sessions -> Seq(SomeLine)]
      /\ \A s \in Sessions : /\ Assembled(s) /\ Answers(s) /\ Ends(s) /\ Len(stream[s]) \in Nat
  BY DEF TurnInv, ScopeInv, WireTyped, AnswerInv, EndInv, ReplyInv, RowsInv
<1>1. ASSUME NEW s \in Sessions,
             EnsureConversation(s) \/ Allowed(s) \/ PersistUser(s) \/ LoadHistory(s) \/ PostTurn(s)
      PROVE  ReplyInv'
  <2>1. /\ UNCHANGED <<reply, answers, conn, left, turn>> /\ pc[s] \in Busy \ {"stream"}
        /\ \E next \in Busy \ {"stream"} : pc' = [pc EXCEPT ![s] = next]
        /\ \A t \in Sessions \ {s} : stream'[t] = stream[t] /\ got'[t] = got[t] /\ body'[t] = body[t]
    BY <1>0, <1>1 DEF EnsureConversation, Allowed, PersistUser, LoadHistory, PostTurn, Go, Busy
  <2>2. OthersSame(s) /\ Assembled(s)'
    BY <1>0, <2>1 DEF OthersSame, Assembled
  <2> QED
    BY <2>1, <2>2, OneReply
<1>2. ASSUME NEW s \in Sessions, StreamStarts(s) PROVE ReplyInv'
  <2>1. /\ UNCHANGED <<reply, answers, conn, left, turn, stream, got, body>>
        /\ pc[s] = "call" /\ pc' = [pc EXCEPT ![s] = "stream"]
    BY <1>2 DEF StreamStarts, Go
  <2>2. reply[s] = <<>> /\ got[s] = 0 /\ Assembles(<<>>, {})
    BY <1>0, <2>1 DEF Assembled, Ends, Busy, Assembles
  <2>3. ReadTokens(s)' = {}
    BY <2>1, <2>2 DEF ReadTokens
  <2>4. OthersSame(s) /\ Assembled(s)'
    BY <1>0, <2>1, <2>2, <2>3 DEF OthersSame, Assembled
  <2> QED
    BY <2>1, <2>4, OneReply
<1>3. ASSUME NEW s \in Sessions,
             \/ EnsureFails(s) \/ Denied(s) \/ AllowFails(s) \/ PersistFails(s) \/ HistoryFails(s)
             \/ AgentUnavailable(s) \/ StreamEnds(s) \/ Connect(s) \/ Disconnect(s)
      PROVE  ReplyInv'
  <2>1. \E next \in {"read", "down"} : pc' = [pc EXCEPT ![s] = next]
    BY <1>3 DEF EnsureFails, Denied, AllowFails, PersistFails, HistoryFails, AgentUnavailable,
                StreamEnds, Connect, Disconnect, SendError, Go
  <2>2. UNCHANGED <<reply, stream, got, left>>
    BY <1>3 DEF EnsureFails, Denied, AllowFails, PersistFails, HistoryFails, AgentUnavailable,
                StreamEnds, Connect, Disconnect
  <2>3. /\ body' = body \/ body' = [body EXCEPT ![s] = "none"]
        /\ turn' = turn \/ turn' = [turn EXCEPT ![s] = 0]
    BY <1>3 DEF EnsureFails, Denied, AllowFails, PersistFails, HistoryFails, AgentUnavailable,
                StreamEnds, Connect, Disconnect
  <2>4. \A t \in Sessions \ {s} : answers'[t] = answers[t] /\ conn'[t] = conn[t]
    BY <1>0, <1>3 DEF EnsureFails, Denied, AllowFails, PersistFails, HistoryFails, AgentUnavailable,
                StreamEnds, Connect, Disconnect, SendError, AnswersTyped
  <2>5. OthersSame(s)
    BY <1>0, <2>1, <2>2, <2>3, <2>4 DEF OthersSame, AnswersTyped
  <2>6. Assembled(s)'
    BY <1>0, <2>1 DEF Assembled, Busy
  <2> QED
    BY <2>2, <2>5, <2>6, OneReply
<1>4. ASSUME NEW s \in Sessions, Receive(s) PROVE ReplyInv'
  <2>1. /\ UNCHANGED <<stream, got, body, conn, left>> /\ pc' = [pc EXCEPT ![s] = "ensure"]
        /\ turn' = [turn EXCEPT ![s] = turns + 1] /\ reply' = [reply EXCEPT ![s] = <<>>]
        /\ answers' = [answers EXCEPT ![s] = 0]
    BY <1>4 DEF Receive, Go
  <2>2. OthersSame(s) /\ Assembled(s)' /\ \A t \in Sessions \ {s} : reply'[t] = reply[t]
    BY <1>0, <2>1 DEF OthersSame, Assembled, AnswersTyped, RowsTyped
  <2> QED
    BY <2>2, OneReply
<1>5. ASSUME NEW s \in Sessions, ReceiveInvalid(s) PROVE ReplyInv'
  <2>1. /\ UNCHANGED <<stream, got, body, left, pc, turn, reply>> /\ pc[s] = "read"
        /\ \A t \in Sessions \ {s} : answers'[t] = answers[t] /\ conn'[t] = conn[t]
    BY <1>0, <1>5 DEF ReceiveInvalid, AnswersTyped
  <2>2. OthersSame(s) /\ Assembled(s)'
    BY <2>1 DEF OthersSame, Assembled, Busy
  <2> QED
    BY <2>1, <2>2, OneReply
<1>6. ASSUME NEW s \in Sessions, BrowserLeaves(s) PROVE ReplyInv'
  <2>1. /\ UNCHANGED <<stream, got, body, answers, pc, turn, reply>> /\ ~left[s]
        /\ conn' = [conn EXCEPT ![s] = "gone"] /\ left' = [left EXCEPT ![s] = TRUE]
    BY <1>6 DEF BrowserLeaves
  <2>2. conn[s] # "broken"
    BY <1>0, <2>1 DEF Answers
  <2>3. OthersSame(s) /\ Assembled(s)'
    BY <1>0, <2>1, <2>2 DEF OthersSame, Assembled, ReadTokens, Over, AnswersTyped
  <2> QED
    BY <2>1, <2>3, OneReply
<1>7. ASSUME NEW s \in Sessions,
             ForwardFails(s) \/ OnToken(s) \/ OnToolCall(s) \/ OnToolResult(s) \/ OnDone(s) \/ OnError(s)
      PROVE  ReplyInv'
  <2>1. /\ UNCHANGED <<pc, stream, body, left, turn>> /\ pc[s] = "stream" /\ got[s] < Len(stream[s])
        /\ got' = [got EXCEPT ![s] = @ + 1]
    BY <1>7 DEF ForwardFails, OnToken, OnToolCall, OnToolResult, OnDone, OnError, Forward, Reading,
                Consume
  <2>2. \A t \in Sessions \ {s} : answers'[t] = answers[t] /\ conn'[t] = conn[t]
    BY <1>0, <1>7 DEF ForwardFails, OnToken, OnToolCall, OnToolResult, OnDone, OnError, Forward,
                      AnswersTyped
  <2>3. \A t \in Sessions \ {s} : reply'[t] = reply[t]
    BY <1>0, <1>7 DEF ForwardFails, OnToken, OnToolCall, OnToolResult, OnDone, OnError, Forward,
                      RowsTyped
  <2>4. OthersSame(s)
    BY <1>0, <2>1, <2>2 DEF OthersSame
  <2>5. CASE OnToken(s)
    BY <1>0, <2>3, <2>4, <2>5, TokenAssembled, OneReply
  <2>6. CASE ForwardFails(s)
    <3>1. conn'[s] = "broken"
      BY <1>0, <2>6 DEF ForwardFails, AnswersTyped
    <3> QED
      BY <2>1, <2>3, <2>4, <3>1, OneReply DEF Assembled, Busy
  <2>7. CASE OnToolCall(s) \/ OnToolResult(s)
    <3>1. stream[s][got[s] + 1] # Token /\ reply' = reply /\ conn' = conn
      BY <2>7 DEF OnToolCall, OnToolResult, Forward, Line, Token
    <3>2. ReadTokens(s)' = ReadTokens(s)
      <4>1. got'[s] = got[s] + 1 /\ 1..(got[s] + 1) = (1..got[s]) \cup {got[s] + 1}
        BY <1>0, <2>1
      <4> QED
        BY <2>1, <3>1, <4>1 DEF ReadTokens
    <3>3. ~Over(s)
      BY <1>0, <2>1 DEF Over
    <3>4. Assembled(s)'
      BY <1>0, <2>1, <3>1, <3>2, <3>3 DEF Assembled, Busy
    <3> QED
      BY <2>3, <2>4, <3>4, OneReply
  <2>8. CASE OnDone(s) \/ OnError(s)
    <3>1. stream[s][got[s] + 1].type \in Ending
      BY <2>8 DEF OnDone, OnError, Forward, Line, Ending
    <3>2. got[s] + 1 \in 1..Len(stream[s])
      BY <1>0, <2>1
    <3>3. got[s] + 1 = Len(stream[s]) /\ body[s] = "closed"
      BY <1>0, <2>1, <3>1, <3>2 DEF Ends
    <3>4. Assembled(s)'
      BY <1>0, <2>1, <3>3 DEF Assembled, Over, Busy
    <3> QED
      BY <2>3, <2>4, <3>4, OneReply
  <2> QED
    BY <1>7, <2>5, <2>6, <2>7, <2>8
<1>8. ASSUME GatewayCrash PROVE ReplyInv'
  BY <1>8 DEF GatewayCrash, ReplyInv, Assembled, Busy
<1> QED
  BY <1>1, <1>2, <1>3, <1>4, <1>5, <1>6, <1>7, <1>8 DEF GatewayNext, TurnStep, BrowserStep

(* Nor does the agent take back what has been read. *)
LEMMA AgentReplies ==
  ASSUME TurnInv, ReplyInv, AgentNext, UNCHANGED gatewayVars
  PROVE  ReplyInv'
<1>1. UNCHANGED <<pc, got, conn, reply>>
  BY AgentAnswers DEF TurnInv, ScopeInv, Answering, gatewayVars
<1>2. ASSUME NEW s \in Sessions PROVE Assembled(s)'
  <2>1. Responds(s) /\ Ends(s) /\ Assembled(s) /\ got[s] \in Nat /\ Len(stream[s]) \in Nat
    BY AgentResponds DEF TurnInv, EndInv, ReplyInv, ScopeInv, WireTyped
  <2>2. Over(s) => Over(s)'
    BY <1>1, <2>1 DEF Over, Responds, Untouched, Longer, Cut
  <2>3. \A i \in 1..got[s] : stream'[s][i] = stream[s][i]
    BY <2>1 DEF Responds, Untouched, Longer, Cut, Ends
  <2>4. ReadTokens(s)' = ReadTokens(s)
    BY <1>1, <2>3 DEF ReadTokens
  <2> QED
    BY <1>1, <2>1, <2>2, <2>4 DEF Assembled
<1> QED
  BY <1>2 DEF ReplyInv

(* Every step keeps the reply. *)
LEMMA ReplyStep == TurnInv /\ RowsInv /\ ReplyInv /\ [Next]_vars => ReplyInv'
<1> SUFFICES ASSUME TurnInv, RowsInv, ReplyInv, [Next]_vars PROVE ReplyInv'
  OBVIOUS
<1>1. CASE UNCHANGED vars
  BY <1>1 DEF vars, wire, gatewayVars, ReplyInv, Assembled, ReadTokens, Over
<1> QED
  BY <1>1, GatewayReplies, AgentReplies DEF Next

\* What StoredReplyWhole says of a step.
WholeReplyStored ==
  \A c \in Conversations : messages'[c] # messages[c] =>
    LET row == messages'[c][Len(messages'[c])]
    IN  row.role = "assistant" =>
          \E s \in Sessions :
            /\ turn[s] = row.turn /\ conversationID[s] = c
            /\ Complete(stream[s]) /\ Assembles(row.text, Tokens(stream[s]))

(* The reply that is stored at the end is the text of the whole response. *)
LEMMA DoneStoresWhole ==
  ASSUME TurnInv, RowsInv, ReplyInv, NEW s \in Sessions, OnDone(s)
  PROVE  Complete(stream[s]) /\ Assembles(reply[s], Tokens(stream[s]))
<1>0. /\ got[s] \in Nat /\ stream[s] \in Seq(SomeLine) /\ Len(stream[s]) \in Nat
      /\ Ends(s) /\ Assembled(s)
  BY DEF TurnInv, ScopeInv, WireTyped, EndInv, ReplyInv
<1>1. /\ pc[s] = "stream" /\ got[s] < Len(stream[s]) /\ stream[s][got[s] + 1].type = "done"
      /\ conn[s] # "broken"
  BY DEF OnDone, Forward, Reading, Line
<1>2. got[s] + 1 \in 1..Len(stream[s]) /\ stream[s][got[s] + 1] \in SomeLine
  BY <1>0, <1>1
<1>3. got[s] + 1 = Len(stream[s])
  BY <1>0, <1>1, <1>2 DEF Ends, Ending
<1>4. stream[s][Len(stream[s])] = Done /\ Done # Token
  BY <1>1, <1>2, <1>3 DEF SomeLine, Terminators, Done, Error, Token
<1>5. Tokens(stream[s]) = ReadTokens(s)
  <2>1. 1..Len(stream[s]) = (1..got[s]) \cup {Len(stream[s])}
    BY <1>0, <1>3
  <2> QED
    BY <1>4, <2>1 DEF Tokens, ReadTokens
<1>6. Assembles(reply[s], ReadTokens(s))
  BY <1>0, <1>1 DEF Assembled, Over
<1> QED
  BY <1>0, <1>1, <1>4, <1>5, <1>6 DEF Complete

(* A row that is inserted is the last of its conversation. *)
LEMMA OnlyInserted ==
  ASSUME RowsInv, NEW s \in Sessions, pc[s] \in Busy, NEW row \in Row,
         Insert(conversationID[s], row),
         row.role = "assistant" =>
           /\ turn[s] = row.turn
           /\ Complete(stream[s]) /\ Assembles(row.text, Tokens(stream[s]))
  PROVE  WholeReplyStored
<1> DEFINE c == conversationID[s]
<1>1. RowsTyped /\ c \in Conversations
  BY DEF RowsInv, Session, InConversation
<1> HIDE DEF c
<1>2. Insert(c, row)
  BY DEF c
<1>3. /\ messages'[c][Len(messages'[c])] = row
      /\ \A d \in Conversations : d # c => messages'[d] = messages[d]
  BY <1>1, <1>2, Inserted
<1> QED
  BY <1>3 DEF WholeReplyStored, c

(***************************************************************************)
(* A reply is stored only of a response that came to its regular end, and  *)
(* is all of its text and nothing else, whichever lines, sessions and      *)
(* failures came between.                                                  *)
(***************************************************************************)
THEOREM RepliesWhole == Spec => StoredReplyWhole
<1>1. Init => TurnInv /\ RowsInv /\ ReplyInv
  <2>1. Init => ReplyInv
    BY DEF Init, GatewayInit, ReplyInv, Assembled, Busy
  <2> QED
    BY <2>1, InitTurn, InitRows
<1>2. TurnInv /\ RowsInv /\ ReplyInv /\ [Next]_vars => TurnInv' /\ RowsInv' /\ ReplyInv'
  BY TurnStepped, RowsStep, ReplyStep
<1>3. TurnInv /\ RowsInv /\ ReplyInv /\ [Next]_vars => [WholeReplyStored]_vars
  <2> SUFFICES ASSUME TurnInv, RowsInv, ReplyInv, Next PROVE WholeReplyStored
    OBVIOUS
  <2> USE DEF wire, session, store, bounds
  <2>1. ASSUME UNCHANGED messages PROVE WholeReplyStored
    BY <2>1 DEF WholeReplyStored
  <2>2. ASSUME NEW s \in Sessions, PersistUser(s) \/ PersistFails(s) PROVE WholeReplyStored
    <3>1. CASE Insert(conversationID[s], UserRow(turn[s]))
      <4>1. UserRow(turn[s]) \in Row /\ UserRow(turn[s]).role # "assistant"
        BY DEF UserRow, Row, RowsInv, RowsTyped
      <4>2. pc[s] \in Busy
        BY <2>2 DEF PersistUser, PersistFails, Busy
      <4> QED
        BY <3>1, <4>1, <4>2, OnlyInserted
    <3> QED
      BY <2>1, <2>2, <3>1 DEF PersistUser, PersistFails
  <2>3. ASSUME NEW s \in Sessions, OnDone(s) PROVE WholeReplyStored
    <3>1. CASE Insert(conversationID[s], AssistantRow(turn[s], reply[s]))
      <4> DEFINE row == AssistantRow(turn[s], reply[s])
      <4>1. row \in Row /\ row.turn = turn[s] /\ row.text = reply[s]
        BY DEF AssistantRow, Row, RowsInv, RowsTyped
      <4>2. pc[s] \in Busy
        BY <2>3 DEF OnDone, Forward, Reading, Busy
      <4>3. Complete(stream[s]) /\ Assembles(row.text, Tokens(stream[s]))
        BY <2>3, <4>1, DoneStoresWhole
      <4> HIDE DEF row
      <4>4. Insert(conversationID[s], row)
        BY <3>1 DEF row
      <4> QED
        BY <4>1, <4>2, <4>3, <4>4, OnlyInserted
    <3> QED
      BY <2>1, <2>3, <3>1 DEF OnDone
  <2>4. ASSUME NEW s \in Sessions,
               \/ EnsureConversation(s) \/ EnsureFails(s) \/ Allowed(s) \/ Denied(s) \/ AllowFails(s)
               \/ LoadHistory(s) \/ HistoryFails(s) \/ PostTurn(s) \/ StreamStarts(s)
               \/ AgentUnavailable(s) \/ StreamEnds(s) \/ BrowserStep(s)
        PROVE  UNCHANGED messages
    BY <2>4 DEF EnsureConversation, EnsureFails, Allowed, Denied, AllowFails, LoadHistory, HistoryFails,
                PostTurn, StreamStarts, AgentUnavailable, StreamEnds, BrowserStep, Connect,
                ReceiveInvalid, Receive, Disconnect, BrowserLeaves
  <2>5. ASSUME NEW s \in Sessions,
               ForwardFails(s) \/ OnToken(s) \/ OnToolCall(s) \/ OnToolResult(s) \/ OnError(s)
        PROVE  UNCHANGED messages
    BY <2>5 DEF ForwardFails, OnToken, OnToolCall, OnToolResult, OnError
  <2>6. ASSUME GatewayCrash \/ UNCHANGED gatewayVars PROVE UNCHANGED messages
    BY <2>6 DEF GatewayCrash, gatewayVars
  <2> QED
    BY <2>1, <2>2, <2>3, <2>4, <2>5, <2>6 DEF Next, GatewayNext, TurnStep
<1> QED
  BY <1>1, <1>2, <1>3, PTL DEF Spec, StoredReplyWhole, WholeReplyStored

-----------------------------------------------------------------------------
(***************************************************************************)
(* Type correctness.  Besides their types the proof needs that the turns   *)
(* are counted up to their bound and that a request is made for somebody;  *)
(* that a turn is for somebody, has a number and a conversation is part of *)
(* RowsInv.                                                                *)
(***************************************************************************)
RequestFor(s) == pc[s] \in Sending => request[s].target \in Customers

TypeInv == TypeOK /\ turns <= MaxTurns /\ \A s \in Sessions : RequestFor(s)

Places == {"down", "read", "ensure", "allow", "persist", "history", "post", "call", "stream"}

(* Calls are announced for somebody, and concern somebody. *)
LEMMA CallsTyped ==
  ASSUME NEW call \in AllCalls, NEW customer \in Customers
  PROVE  /\ Mutates(call) => Affected(call, customer) \in Customers
         /\ ToolCall(call, customer) \in AnyLine
<1>1. Mutates(call) => Affected(call, customer) \in Customers
  BY OwnerAssumption
     DEF AllCalls, Affected, CustomerIdArgTools, CustomerTools, Mutates, ValidArgs, StaticAudit
<1> DEFINE audit == ComputeAudit(call)
           about == ComputeTarget(call, customer)
<1>2. /\ about \in Customers \cup {NoCustomer}
      /\ about = NoCustomer => ~ValidArgs(call)
  BY AbsentAssumption DEF AllCalls, ComputeTarget, CustomerIdArgTools, CustomerTools, ValidArgs
<1>3. audit \in BOOLEAN
  BY DEF ComputeAudit
<1>4. ToolCall(call, customer) =
        [type |-> "tool_call", call |-> call, audit |-> audit, target |-> about]
  BY DEF ToolCall
<1> HIDE DEF audit, about
<1> QED
  BY <1>1, <1>2, <1>3, <1>4 DEF AnyLine

(* At first everything is typed. *)
LEMMA InitTypes == Init => TypeInv
<1> SUFFICES ASSUME Init PROVE TypeInv
  OBVIOUS
<1>1. /\ messages \in [Conversations -> Seq(Rows)] /\ stream \in [Sessions -> Seq(AnyLine)]
      /\ events \in [Sessions -> Seq(AnyLine)]
  <2>1. <<>> \in Seq(Rows) /\ <<>> \in Seq(AnyLine)
    OBVIOUS
  <2> QED
    BY <2>1 DEF Init, GatewayInit, StoreInit, AgentInit
<1>2. turns <= MaxTurns /\ faults \in 0..MaxFaults /\ crashes \in 0..AgentFaults
  BY BoundsAssumption, FaultsAssumption DEF Init, GatewayInit, AgentInit
<1>3. GatewayTypeOK /\ \A s \in Sessions : RequestFor(s)
  BY <1>1, <1>2 DEF Init, GatewayInit, StoreInit, GatewayTypeOK, RequestFor, Sending
<1>4. AgentTypeOK
  BY <1>1, <1>2 DEF Init, AgentInit, AgentTypeOK
<1> QED
  BY <1>2, <1>3, <1>4 DEF TypeInv, TypeOK

(* Where a session is, and in which state its connection. *)
LEMMA PlacesTyped ==
  ASSUME pc \in [Sessions -> Places], conn \in [Sessions -> {"up", "gone", "broken"}], GatewayNext
  PROVE  pc' \in [Sessions -> Places] /\ conn' \in [Sessions -> {"up", "gone", "broken"}]
<1> USE DEF wire, session, store, bounds
<1> DEFINE Goal == pc' \in [Sessions -> Places] /\ conn' \in [Sessions -> {"up", "gone", "broken"}]
<1>1. ASSUME NEW s \in Sessions, NEW next \in Places, Go(s, next), UNCHANGED conn PROVE Goal
  BY <1>1 DEF Go
<1>2. ASSUME NEW s \in Sessions, SendError(s) PROVE Goal
  BY <1>2 DEF SendError, Go, Places
<1>3. ASSUME NEW s \in Sessions,
             \/ EnsureConversation(s) \/ Allowed(s) \/ PersistUser(s) \/ LoadHistory(s) \/ PostTurn(s)
             \/ StreamStarts(s) \/ StreamEnds(s) \/ Disconnect(s) \/ Receive(s)
      PROVE  Goal
  <2>1. UNCHANGED conn /\ \E next \in Places : Go(s, next)
    BY <1>3 DEF EnsureConversation, Allowed, PersistUser, LoadHistory, PostTurn, StreamStarts,
                StreamEnds, Disconnect, Receive, Places
  <2> QED
    BY <1>1, <2>1
<1>4. ASSUME NEW s \in Sessions,
             \/ EnsureFails(s) \/ Denied(s) \/ AllowFails(s) \/ PersistFails(s) \/ HistoryFails(s)
             \/ AgentUnavailable(s)
      PROVE  Goal
  <2>1. SendError(s)
    BY <1>4 DEF EnsureFails, Denied, AllowFails, PersistFails, HistoryFails, AgentUnavailable
  <2> QED
    BY <1>2, <2>1
<1>5. ASSUME NEW s \in Sessions,
             \/ ForwardFails(s) \/ OnToken(s) \/ OnToolCall(s) \/ OnToolResult(s) \/ OnDone(s)
             \/ OnError(s) \/ ReceiveInvalid(s) \/ BrowserLeaves(s)
      PROVE  Goal
  <2>1. /\ UNCHANGED pc
        /\ conn' = conn \/ \E state \in {"gone", "broken"} : conn' = [conn EXCEPT ![s] = state]
    BY <1>5 DEF ForwardFails, OnToken, OnToolCall, OnToolResult, OnDone, OnError, Forward,
                ReceiveInvalid, BrowserLeaves
  <2> QED
    BY <2>1
<1>6. ASSUME NEW s \in Sessions, Connect(s) PROVE Goal
  BY <1>6 DEF Connect, Go, Places
<1>7. ASSUME GatewayCrash PROVE Goal
  BY <1>7 DEF GatewayCrash, Places
<1> HIDE DEF Goal
<1>8. Goal
  BY <1>3, <1>4, <1>5, <1>6, <1>7 DEF GatewayNext, TurnStep, BrowserStep
<1> QED
  BY <1>8 DEF Goal

(* What is stored. *)
LEMMA StoreTyped ==
  ASSUME TurnInv, RowsInv, TypeInv, GatewayNext
  PROVE  /\ conversations' \in [Conversations -> Customers \cup {NoCustomer}]
         /\ messages' \in [Conversations -> Seq(Rows)]
         /\ \A row \in auditLog' : row.actor \in Customers \cup Employees /\ row.target \in Customers
<1> USE DEF wire, session, store, bounds
<1> DEFINE Entries(log) ==
             \A row \in log : row.actor \in Customers \cup Employees /\ row.target \in Customers
<1>0. /\ conversations \in [Conversations -> Customers \cup {NoCustomer}]
      /\ messages \in [Conversations -> Seq(Rows)] /\ Entries(auditLog)
      /\ stream \in [Sessions -> Seq(AnyLine)] /\ got \in [Sessions -> Nat]
      /\ turns <= MaxTurns /\ turns \in Nat /\ turn \in [Sessions -> Nat]
      /\ reply \in [Sessions -> Seq(Nat)] /\ \A s \in Sessions : InConversation(s)
  BY DEF TypeInv, TypeOK, GatewayTypeOK, AgentTypeOK, TurnInv, ScopeInv, WireTyped, RowsInv, RowsTyped,
         Session
<1>1. conversations' \in [Conversations -> Customers \cup {NoCustomer}]
  <2>1. ASSUME NEW s \in Sessions, pc[s] = "ensure", Ensure(conversationID[s], target[s])
        PROVE  conversations' \in [Conversations -> Customers \cup {NoCustomer}]
    <3>1. target[s] \in Customers /\ conversationID[s] \in Conversations
      BY <1>0, <2>1 DEF InConversation, Busy
    <3> QED
      BY <1>0, <2>1, <3>1 DEF Ensure
  <2>2. \/ UNCHANGED conversations
        \/ \E s \in Sessions : pc[s] = "ensure" /\ Ensure(conversationID[s], target[s])
    <3>1. GatewayCrash => UNCHANGED conversations
      BY DEF GatewayCrash
    <3>2. \A s \in Sessions :
            EnsureConversation(s) \/ EnsureFails(s) =>
              pc[s] = "ensure" /\ (UNCHANGED conversations \/ Ensure(conversationID[s], target[s]))
      BY DEF EnsureConversation, EnsureFails
    <3>3. ASSUME NEW s \in Sessions, TurnStep(s), ~EnsureConversation(s), ~EnsureFails(s)
          PROVE  UNCHANGED conversations
      BY <3>3 DEF TurnStep, Allowed, Denied, AllowFails, PersistUser, PersistFails, LoadHistory,
             HistoryFails, PostTurn, StreamStarts, AgentUnavailable, ForwardFails, OnToken, OnToolCall,
             OnToolResult, OnDone, OnError, StreamEnds, Forward
    <3>4. \A s \in Sessions : BrowserStep(s) => UNCHANGED conversations
      BY DEF BrowserStep, Connect, ReceiveInvalid, Receive, Disconnect, BrowserLeaves
    <3> QED
      BY <3>1, <3>2, <3>3, <3>4 DEF GatewayNext
  <2> QED
    BY <1>0, <2>1, <2>2
<1>2. messages' \in [Conversations -> Seq(Rows)]
  <2>1. ASSUME NEW s \in Sessions, pc[s] \in Busy, NEW row,
               row \in {UserRow(turn[s]), AssistantRow(turn[s], reply[s])},
               Insert(conversationID[s], row)
        PROVE  messages' \in [Conversations -> Seq(Rows)]
    <3>1. conversationID[s] \in Conversations /\ turn[s] \in 1..MaxTurns
      BY <1>0, <2>1, BoundsAssumption DEF InConversation
    <3>2. row \in Rows
      <4>1. <<>> \in Seq(Nat) /\ reply[s] \in Seq(Nat)
        BY <1>0
      <4>2. UserRow(turn[s]) \in Rows
        BY <3>1, <4>1 DEF UserRow, Rows
      <4>3. AssistantRow(turn[s], reply[s]) \in Rows
        BY <3>1, <4>1 DEF AssistantRow, Rows
      <4> QED
        BY <2>1, <4>2, <4>3
    <3> QED
      BY <1>0, <2>1, <3>1, <3>2 DEF Insert
  <2>2. \/ UNCHANGED messages
        \/ \E s \in Sessions : pc[s] \in Busy
             /\ \/ Insert(conversationID[s], UserRow(turn[s]))
                \/ Insert(conversationID[s], AssistantRow(turn[s], reply[s]))
    <3>1. GatewayCrash => UNCHANGED messages
      BY DEF GatewayCrash
    <3>2. ASSUME NEW s \in Sessions, PersistUser(s) \/ PersistFails(s) \/ OnDone(s)
          PROVE  /\ pc[s] \in Busy
                 /\ \/ UNCHANGED messages
                    \/ Insert(conversationID[s], UserRow(turn[s]))
                    \/ Insert(conversationID[s], AssistantRow(turn[s], reply[s]))
      BY <3>2 DEF PersistUser, PersistFails, OnDone, Forward, Reading, Busy
    <3>3. ASSUME NEW s \in Sessions, TurnStep(s), ~PersistUser(s), ~PersistFails(s), ~OnDone(s)
          PROVE  UNCHANGED messages
      BY <3>3 DEF TurnStep, EnsureConversation, EnsureFails, Allowed, Denied, AllowFails, LoadHistory,
             HistoryFails, PostTurn, StreamStarts, AgentUnavailable, ForwardFails, OnToken, OnToolCall,
             OnToolResult, OnError, StreamEnds
    <3>4. \A s \in Sessions : BrowserStep(s) => UNCHANGED messages
      BY DEF BrowserStep, Connect, ReceiveInvalid, Receive, Disconnect, BrowserLeaves
    <3> QED
      BY <3>1, <3>2, <3>3, <3>4 DEF GatewayNext
  <2> QED
    BY <1>0, <2>1, <2>2
<1>3. Entries(auditLog')
  <2>1. ASSUME NEW s \in Sessions, OnToolCall(s) PROVE Entries(auditLog')
    <3> DEFINE line == stream[s][got[s] + 1]
               row == AuditRow(s, line)
    <3>1. /\ pc[s] = "stream" /\ got[s] < Len(stream[s]) /\ line.type = "tool_call"
          /\ auditLog' = auditLog \/ auditLog' = auditLog \cup {row}
      BY <2>1 DEF OnToolCall, Forward, Reading, Line
    <3>2. line \in AnyLine
      BY <1>0, <3>1
    <3>3. line.target \in Customers \cup {NoCustomer} /\ SubOf[s] \in Customers \cup Employees
      BY <3>1, <3>2, SubOfAssumption DEF AnyLine, Token, Terminators, Done, Error
    <3>4. target[s] \in Customers
      BY <1>0, <3>1 DEF InConversation, Busy
    <3>5. row.actor = SubOf[s] /\ row.target \in Customers
      BY <3>3, <3>4 DEF AuditRow
    <3> QED
      BY <1>0, <3>1, <3>3, <3>5
  <2>2. GatewayCrash => UNCHANGED auditLog
    BY DEF GatewayCrash
  <2>3. ASSUME NEW s \in Sessions, TurnStep(s), ~OnToolCall(s) PROVE UNCHANGED auditLog
    BY <2>3 DEF TurnStep, EnsureConversation, EnsureFails, Allowed, Denied, AllowFails, PersistUser,
           PersistFails, LoadHistory, HistoryFails, PostTurn, StreamStarts, AgentUnavailable,
           ForwardFails, OnToken, OnToolResult, OnDone, OnError, StreamEnds
  <2>4. \A s \in Sessions : BrowserStep(s) => UNCHANGED auditLog
    BY DEF BrowserStep, Connect, ReceiveInvalid, Receive, Disconnect, BrowserLeaves
  <2> QED
    BY <1>0, <2>1, <2>2, <2>3, <2>4 DEF GatewayNext
<1> QED
  BY <1>1, <1>2, <1>3

(* The rest of what a session keeps. *)
LEMMA GatewayTypes ==
  ASSUME TurnInv, RowsInv, TypeInv, GatewayNext, UNCHANGED agentVars
  PROVE  TypeInv'
<1> USE DEF wire, session, store, bounds
<1>0. TurnInv' /\ RowsInv'
  BY TurnStepped, RowsStep DEF Next
<1>1. pc' \in [Sessions -> Places] /\ conn' \in [Sessions -> {"up", "gone", "broken"}]
  BY PlacesTyped DEF TypeInv, TypeOK, GatewayTypeOK, Places
<1>2. conversationID' \in [Sessions -> Conversations \cup {NoConversation}]
  BY <1>0 DEF RowsInv, RowsTyped
<1>3. target' \in [Sessions -> Customers \cup {NoCustomer}]
  BY <1>0 DEF TurnInv, ScopeInv, WireTyped, MaybeCustomer
<1>4. answers' \in [Sessions -> 0..1]
  <2>1. answers \in [Sessions -> 0..1] /\ \A s \in Sessions : answers'[s] \in 0..1
    BY <1>0 DEF TypeInv, TypeOK, GatewayTypeOK, TurnInv, AnswerInv, Answers
  <2>2. \/ UNCHANGED answers
        \/ \E s \in Sessions : \E n : answers' = [answers EXCEPT ![s] = n]
    <3>1. GatewayCrash => UNCHANGED answers
      BY DEF GatewayCrash
    <3>2. ASSUME NEW s \in Sessions, TurnStep(s)
          PROVE  UNCHANGED answers \/ \E n : answers' = [answers EXCEPT ![s] = n]
      BY <3>2 DEF TurnStep, EnsureConversation, EnsureFails, Allowed, Denied, AllowFails, PersistUser,
             PersistFails, LoadHistory, HistoryFails, PostTurn, StreamStarts, AgentUnavailable,
             ForwardFails, OnToken, OnToolCall, OnToolResult, OnDone, OnError, StreamEnds, SendError
    <3>3. ASSUME NEW s \in Sessions, BrowserStep(s)
          PROVE  UNCHANGED answers \/ \E n : answers' = [answers EXCEPT ![s] = n]
      BY <3>3 DEF BrowserStep, Connect, ReceiveInvalid, Receive, Disconnect, BrowserLeaves
    <3> QED
      BY <3>1, <3>2, <3>3 DEF GatewayNext
  <2> QED
    BY <2>1, <2>2
<1>5. faults' \in 0..MaxFaults
  <2>1. UNCHANGED faults \/ Fault
    BY DEF GatewayNext, TurnStep, BrowserStep, GatewayCrash,
           EnsureConversation, EnsureFails, Allowed, Denied, AllowFails, PersistUser, PersistFails,
           LoadHistory, HistoryFails, PostTurn, StreamStarts, AgentUnavailable, ForwardFails,
           OnToken, OnToolCall, OnToolResult, OnDone, OnError, StreamEnds,
           Connect, ReceiveInvalid, Receive, Disconnect, BrowserLeaves
  <2> QED
    BY <2>1, BoundsAssumption DEF Fault, TypeInv, TypeOK, GatewayTypeOK
<1>6. turns' <= MaxTurns
  <2>1. UNCHANGED turns \/ (turns < MaxTurns /\ turns' = turns + 1)
    BY DEF GatewayNext, TurnStep, BrowserStep, GatewayCrash,
           EnsureConversation, EnsureFails, Allowed, Denied, AllowFails, PersistUser, PersistFails,
           LoadHistory, HistoryFails, PostTurn, StreamStarts, AgentUnavailable, ForwardFails, Forward,
           OnToken, OnToolCall, OnToolResult, OnDone, OnError, StreamEnds,
           Connect, ReceiveInvalid, Receive, Disconnect, BrowserLeaves
  <2> QED
    BY <2>1, BoundsAssumption DEF TypeInv, RowsInv, RowsTyped
<1>7. stream' \in [Sessions -> Seq(AnyLine)]
  <2>1. UNCHANGED stream \/ \E s \in Sessions : stream' = [stream EXCEPT ![s] = <<>>]
    BY DEF GatewayNext, TurnStep, BrowserStep, GatewayCrash,
           EnsureConversation, EnsureFails, Allowed, Denied, AllowFails, PersistUser, PersistFails,
           LoadHistory, HistoryFails, PostTurn, StreamStarts, AgentUnavailable, ForwardFails, Forward,
           OnToken, OnToolCall, OnToolResult, OnDone, OnError, StreamEnds,
           Connect, ReceiveInvalid, Receive, Disconnect, BrowserLeaves
  <2>2. stream \in [Sessions -> Seq(AnyLine)] /\ <<>> \in Seq(AnyLine)
    BY DEF TypeInv, TypeOK, AgentTypeOK
  <2> QED
    BY <2>1, <2>2
<1>8. ASSUME NEW s \in Sessions PROVE RequestFor(s)'
  <2>1. \/ pc'[s] \in Sending => pc[s] \in Sending /\ request'[s] = request[s]
        \/ request'[s].target = target[s] /\ pc[s] = "history"
    <3>1. ASSUME NEW r \in Sessions, LoadHistory(r)
          PROVE  /\ r # s => pc'[s] = pc[s] /\ request'[s] = request[s]
                 /\ r = s => request'[s].target = target[s] /\ pc[s] = "history"
      BY <3>1 DEF LoadHistory, Go, TurnInv, ScopeInv, WireTyped
    <3>2. ASSUME ~ \E r \in Sessions : LoadHistory(r)
          PROVE  pc'[s] \in Sending => pc[s] \in Sending /\ request'[s] = request[s]
      <4>1. UNCHANGED request
        BY <3>2 DEF GatewayNext, TurnStep, BrowserStep, GatewayCrash,
             EnsureConversation, EnsureFails, Allowed, Denied, AllowFails, PersistUser, PersistFails,
             HistoryFails, PostTurn, StreamStarts, AgentUnavailable, ForwardFails, Forward,
             OnToken, OnToolCall, OnToolResult, OnDone, OnError, StreamEnds,
             Connect, ReceiveInvalid, Receive, Disconnect, BrowserLeaves
      <4>2. ASSUME NEW r \in Sessions, CalmStep(r) PROVE pc'[s] \in Sending => pc[s] \in Sending
        BY <4>2, CalmSteps DEF Calm, Onward, TurnInv, ScopeInv
      <4>3. ASSUME NEW r \in Sessions,
                   Receive(r) \/ PostTurn(r) \/ AgentUnavailable(r) \/ StreamEnds(r) \/ OnToolCall(r)
            PROVE  pc'[s] \in Sending => pc[s] \in Sending
        BY <4>3 DEF Receive, PostTurn, AgentUnavailable, StreamEnds, OnToolCall, Forward, SendError, Go,
                    Sending, TurnInv, ScopeInv, WireTyped
      <4>4. GatewayCrash => pc'[s] \notin Sending
        BY DEF GatewayCrash, Sending
      <4> QED
        BY <3>2, <4>1, <4>2, <4>3, <4>4 DEF GatewayNext, TurnStep, BrowserStep, CalmStep
    <3> QED
      BY <3>1, <3>2
  <2>2. pc[s] = "history" => target[s] \in Customers
    BY DEF RowsInv, Session, InConversation, Busy
  <2> QED
    BY <2>1, <2>2 DEF TypeInv, RequestFor
<1>9. GatewayTypeOK'
  BY <1>1, <1>2, <1>3, <1>4, <1>5, StoreTyped DEF GatewayTypeOK, Places
<1>10. AgentTypeOK'
  BY <1>7 DEF TypeInv, TypeOK, AgentTypeOK, agentVars
<1> QED
  BY <1>6, <1>8, <1>9, <1>10 DEF TypeInv, TypeOK

(* What the agent keeps and writes, for turns that are somebody's. *)
LEMMA AgentTypes ==
  ASSUME AgentTypeOK, AgentNext,
         \A s \in Sessions : body[s] # "none" =>
           request[s].target \in Customers /\ request[s].turn \in Nat
  PROVE  AgentTypeOK'
<1> USE DEF AgentTypeOK
<1>0. Done \in AnyLine /\ Error \in AnyLine /\ Token \in AnyLine
  BY DEF AnyLine, Terminators
<1>1. ASSUME NEW s \in Sessions, NEW line \in AnyLine, Yield(s, line)
      PROVE  stream' \in [Sessions -> Seq(AnyLine)]
  BY <1>1 DEF Yield
<1>q. ASSUME NEW s \in Sessions, NEW line \in AnyLine, Queue(s, line)
      PROVE  events' \in [Sessions -> Seq(AnyLine)]
  BY <1>q DEF Queue
<1>2. ASSUME NEW s \in Sessions, StartRun(s) \/ InitFails(s) PROVE AgentTypeOK'
  <2>1. <<>> \in Seq(AnyLine)
    OBVIOUS
  <2>2. events' = [events EXCEPT ![s] = <<>>] /\ UNCHANGED <<crashes, cut>>
        /\ inflight' = [inflight EXCEPT ![s] = {}] /\ effects' = [effects EXCEPT ![s] = {}]
    BY <1>2 DEF StartRun, InitFails
  <2>3. stream' \in [Sessions -> Seq(AnyLine)]
    BY <1>0, <1>1, <1>2 DEF StartRun, InitFails
  <2>4. pending' \in [Sessions -> BOOLEAN] /\ narrated' \in [Sessions -> BOOLEAN]
    BY <1>2 DEF StartRun, InitFails
  <2> QED
    BY <2>1, <2>2, <2>3, <2>4
<1>3. ASSUME NEW s \in Sessions, ModelText(s) PROVE AgentTypeOK'
  BY <1>0, <1>q, <1>3 DEF ModelText, wire
<1>4. ASSUME NEW s \in Sessions, ToolStart(s) PROVE AgentTypeOK'
  <2>1. PICK call \in ModelCalls \cap Calls(request[s].role) :
          /\ Queue(s, ToolCall(call, request[s].target))
          /\ inflight' = [inflight EXCEPT ![s] =
               @ \cup {[at |-> Len(events[s]) + 1, call |-> call, ran |-> FALSE]}]
    BY <1>4 DEF ToolStart
  <2>2. call \in AllCalls /\ request[s].target \in Customers
    BY <1>4, <2>1 DEF Calls, ToolStart, Running
  <2>3. events' \in [Sessions -> Seq(AnyLine)]
    BY <1>q, <2>1, <2>2, CallsTyped
  <2>4. [at |-> Len(events[s]) + 1, call |-> call, ran |-> FALSE] \in InFlight
    BY <2>2 DEF InFlight
  <2>5. inflight' \in [Sessions -> SUBSET InFlight]
    BY <2>1, <2>4
  <2> QED
    BY <1>4, <2>3, <2>5 DEF ToolStart, wire
<1>5. ASSUME NEW s \in Sessions, ToolTakesEffect(s) PROVE AgentTypeOK'
  <2>1. PICK f \in inflight[s] :
          /\ Mutates(f.call)
          /\ inflight' = [inflight EXCEPT ![s] = (@ \ {f}) \cup {[f EXCEPT !.ran = TRUE]}]
          /\ effects' = [effects EXCEPT ![s] = @ \cup
               {[turn |-> request[s].turn, at |-> f.at, call |-> f.call,
                 customer |-> Affected(f.call, request[s].target)]}]
    BY <1>5 DEF ToolTakesEffect
  <2>2. f \in InFlight /\ request[s].target \in Customers /\ request[s].turn \in Nat
    BY <1>5, <2>1 DEF ToolTakesEffect
  <2>3. Affected(f.call, request[s].target) \in Customers
    BY <2>1, <2>2, CallsTyped DEF InFlight
  <2>4. inflight' \in [Sessions -> SUBSET InFlight]
    <3>1. [f EXCEPT !.ran = TRUE] \in InFlight
      BY <2>2 DEF InFlight
    <3> QED
      BY <2>1, <3>1
  <2>5. effects' \in [Sessions -> SUBSET [turn : Nat, at : Nat, call : AllCalls, customer : Customers]]
    BY <2>1, <2>2, <2>3 DEF InFlight
  <2> QED
    BY <1>5, <2>4, <2>5 DEF ToolTakesEffect, wire
<1>6. ASSUME NEW s \in Sessions, NEW f \in inflight[s], NEW failed \in BOOLEAN, Answer(s, f, failed)
      PROVE  AgentTypeOK'
  <2>1. ToolResult(f.at, failed) \in AnyLine
    <3>1. f.at \in Nat
      BY DEF InFlight
    <3> QED
      BY <3>1 DEF ToolResult, AnyLine
  <2>2. events' \in [Sessions -> Seq(AnyLine)]
    BY <1>q, <1>6, <2>1 DEF Answer
  <2>3. inflight' \in [Sessions -> SUBSET InFlight]
    BY <1>6 DEF Answer
  <2> QED
    BY <1>6, <2>2, <2>3 DEF Answer, wire
<1>7. ASSUME NEW s \in Sessions, WriteText(s) \/ WriteCall(s) \/ WriteResult(s)
      PROVE  AgentTypeOK'
  <2>1. PICK type : Write(s, type)
    BY <1>7 DEF WriteText, WriteCall, WriteResult
  <2>2. NextEvent(s) \in AnyLine
    BY <2>1 DEF Write, NextEvent
  <2>3. stream' \in [Sessions -> Seq(AnyLine)]
    BY <1>1, <2>1, <2>2 DEF Write
  <2>4. pending' \in [Sessions -> BOOLEAN] /\ narrated' \in [Sessions -> BOOLEAN]
    <3>1. \A line \in AnyLine : line.type = "tool_result" => line.failed \in BOOLEAN
      <4>1. Token.type # "tool_result" /\ Done.type # "tool_result" /\ Error.type # "tool_result"
        BY DEF Token, Done, Error
      <4>2. ASSUME NEW line \in AnyLine, line.type = "tool_result"
            PROVE  line \in [type : {"tool_result"}, at : Nat, failed : BOOLEAN]
        BY <4>1, <4>2 DEF AnyLine, Terminators
      <4> QED
        BY <4>2
    <3> QED
      BY <1>7, <2>2, <3>1 DEF WriteText, WriteCall, WriteResult, Write
  <2> QED
    BY <2>1, <2>3, <2>4 DEF Write
<1>8. ASSUME NEW s \in Sessions, Finish(s) PROVE AgentTypeOK'
  <2>1. stream[s] \o LastWords(s) \o <<Done>> \in Seq(AnyLine)
    BY <1>0 DEF LastWords
  <2>2. stream' \in [Sessions -> Seq(AnyLine)]
    BY <1>8, <2>1 DEF Finish
  <2> QED
    BY <1>8, <2>2 DEF Finish, agentVars
<1>9. ASSUME NEW s \in Sessions, AgentFails(s) PROVE AgentTypeOK'
  BY <1>0, <1>1, <1>9 DEF AgentFails, agentVars
<1>10. ASSUME NEW s \in Sessions, AgentRefuses(s) PROVE AgentTypeOK'
  BY <1>10 DEF AgentRefuses, agentVars
<1>11. ASSUME AgentCrash PROVE AgentTypeOK'
  <2>1. PICK kept \in [Sessions -> 0..MaxResponse] :
          /\ \A s \in Sessions :
               kept[s] \in (IF body[s] = "open" THEN got[s] ELSE Len(stream[s]))..Len(stream[s])
          /\ stream' = [s \in Sessions |-> SubSeq(stream[s], 1, kept[s])]
    BY <1>11 DEF AgentCrash
  <2>2. ASSUME NEW s \in Sessions PROVE SubSeq(stream[s], 1, kept[s]) \in Seq(AnyLine)
    BY <2>1, MaxLinesAssumption DEF MaxResponse
  <2>3. stream' \in [Sessions -> Seq(AnyLine)]
    BY <2>1, <2>2
  <2>4. cut' \subseteq Nat
    BY <1>11 DEF AgentCrash
  <2>5. crashes' \in 0..AgentFaults
    BY <1>11, FaultsAssumption DEF AgentCrash
  <2> QED
    BY <1>11, <2>3, <2>4, <2>5 DEF AgentCrash
<1>12. ASSUME NEW s \in Sessions, ToolEnd(s) \/ ToolError(s) PROVE AgentTypeOK'
  BY <1>6, <1>12 DEF ToolEnd, ToolError
<1> QED
  BY <1>2, <1>3, <1>4, <1>5, <1>7, <1>8, <1>9, <1>10, <1>11, <1>12 DEF AgentNext, AgentStep

(***************************************************************************)
(* Every reachable state of the chat path is typed: places, rows, requests *)
(* and responses, of whatever sessions and however they fail.              *)
(***************************************************************************)
THEOREM SystemTyped == Spec => []TypeOK
<1>1. Init => TurnInv /\ RowsInv /\ TypeInv
  BY InitTurn, InitRows, InitTypes
<1>2. TurnInv /\ RowsInv /\ TypeInv /\ [Next]_vars => TurnInv' /\ RowsInv' /\ TypeInv'
  <2> SUFFICES ASSUME TurnInv, RowsInv, TypeInv, [Next]_vars PROVE TypeInv'
    BY TurnStepped, RowsStep
  <2>1. CASE AgentNext /\ UNCHANGED gatewayVars
    <3>1. UNCHANGED <<gatewayVars, request>>
      BY <2>1, AgentAnswers DEF TurnInv, ScopeInv, Answering
    <3>2. \A s \in Sessions : body[s] # "none" =>
            request[s].target \in Customers /\ request[s].turn \in Nat
      <4> SUFFICES ASSUME NEW s \in Sessions, body[s] # "none"
                   PROVE  request[s].target \in Customers /\ request[s].turn \in Nat
        OBVIOUS
      <4>1. pc[s] \in Sending
        BY DEF TurnInv, ScopeInv, TurnsOwn, Awaited, Waiting, Sending
      <4>2. request[s].turn = turn[s] /\ turn[s] \in Nat
        BY <4>1 DEF RowsInv, Session, OwnNumber, RowsTyped
      <4> QED
        BY <4>1, <4>2 DEF TypeInv, RequestFor
    <3>3. AgentTypeOK'
      BY <2>1, <3>2, AgentTypes DEF TypeInv, TypeOK
    <3>4. GatewayTypeOK'
      BY <3>1 DEF TypeInv, TypeOK, GatewayTypeOK, gatewayVars
    <3> QED
      BY <3>1, <3>3, <3>4 DEF TypeInv, TypeOK, RequestFor, gatewayVars
  <2>2. CASE UNCHANGED vars
    BY <2>2 DEF vars, wire, gatewayVars, agentVars, TypeInv, TypeOK, GatewayTypeOK, AgentTypeOK,
                RequestFor
  <2> QED
    BY <2>1, <2>2, GatewayTypes DEF Next
<1>3. TypeInv => TypeOK
  BY DEF TypeInv
<1> QED
  BY <1>1, <1>2, <1>3, PTL DEF Spec

=============================================================================
