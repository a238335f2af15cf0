----------------------------- MODULE ChatSocket -----------------------------
(***************************************************************************)
(* useChatSocket.ts of employee-console-ui, the websocket hook of the chat *)
(* panel; customer-portal-ui's is the same without targets and dividers.   *)
(* The other end is TurnFrames, what chat-gateway promises.  Every sign-in *)
(* makes a socket; the handlers of the one before are never removed, and   *)
(* its close handshake ends only when the gateway has finished its turn.   *)
(*                                                                         *)
(* React runs a functional update at once only if nothing is pending, and  *)
(* not always then; otherwise with the next render.  Messages are          *)
(* numbered; a token is the number of the message it answers.  Tool cards, *)
(* the mark of a bubble that still streams and the status "error", which a *)
(* close always follows, are left out.                                     *)
(***************************************************************************)
EXTENDS TurnFrames, Sequences

CONSTANTS
  Targets,      \* customers an employee may be assisting
  MaxMessages,  \* bound: messages sent
  MaxForwarded, \* bound: tokens forwarded of one response
  MaxOnWire     \* bound: frames on their way to one browser

None == "none"

ASSUME SocketAssumption ==
  /\ Connections \subseteq Nat \ {0}
  /\ {MaxMessages, MaxForwarded, MaxOnWire} \subseteq Nat
  /\ None \notin Targets

\* What a wire carries, in either direction.
Wire(type, of) == [type |-> type, of |-> of]
Close == Wire("close", 0)

VARIABLES
  inbox,       \* inbox[k]: messages on their way to the gateway, a close the last
  outbox,      \* outbox[k]: frames on their way to the browser, a close the last
  inTurn,      \* inTurn[k]: the message the gateway answers, or answered last;
               \* 0 without a connection
  ready,       \* ready[k]: readyState of the browser's socket
  socket,      \* wsRef: the socket of the sign-in, 0 when signed out
  status,      \* "connecting", "open" or "closed"
  isWaiting,
  items,       \* the transcript
  pending,     \* functional updates of items that have not run
  assistant,   \* currentAssistantIdRef: a position in items, 0 for null
  lastTarget,  \* lastTargetRef
  sent,        \* messages so far
  delivered,   \* history: tokens of the sign-in's socket that were handled
  slipped,     \* history: messages of the sign-in answered before all their
               \* tokens were rendered, or never answered
  deferred,    \* history: messages whose own update did not run at once
  late         \* history: a close of an earlier socket has set the status

wires == <<inbox, outbox, inTurn>>
view == <<items, pending, assistant, lastTarget, delivered, deferred>>
vars == <<frameVars, wires, ready, socket, status, isWaiting, view, sent, slipped, late>>

Init ==
  /\ FramesInit
  /\ inbox = [k \in Connections |-> <<>>] /\ outbox = [k \in Connections |-> <<>>]
  /\ inTurn = [k \in Connections |-> 0]
  /\ ready = [k \in Connections |-> "new"]
  /\ socket = 0 /\ status = "connecting" /\ isWaiting = FALSE
  /\ items = <<>> /\ pending = <<>> /\ assistant = 0 /\ lastTarget = None
  /\ sent = 0 /\ delivered = <<>> /\ slipped = {} /\ deferred = {} /\ late = FALSE

-----------------------------------------------------------------------------
\* The functional updates, and what they do to items and the ref they read.
Update(kind, of, target) == [kind |-> kind, of |-> of, target |-> target]
Token(m) == Update("token", m, None)
Failure(m) == Update("error", m, None)
Message(m, target) == Update("user", m, target)
Divider(m, target) == Update("divider", m, target)
Bubble(m) == [kind |-> "assistant", text |-> <<m>>]
Longer(bubble, m) == [bubble EXCEPT !.text = Append(@, m)]

\* `last` is lastTargetRef at the moment the update runs.
Run(v, update, last) ==
  CASE update.kind = "token" /\ v.assistant # 0 ->
         [v EXCEPT !.items[v.assistant] = Longer(@, update.of)]
    [] update.kind = "token" /\ v.assistant = 0 ->
         [items |-> Append(v.items, Bubble(update.of)), assistant |-> Len(v.items) + 1]
    [] update.kind = "error" -> [v EXCEPT !.items = Append(@, update)]
    [] update.kind = "user" ->
         [v EXCEPT !.items = @ \o (IF last \notin {None, update.target}
                                     THEN <<Divider(update.of, update.target)>> ELSE <<>>)
                               \o <<update>>]

View(ref) == [items |-> items, assistant |-> ref]
\* after[n] is the view after the first n updates.
Runs(v, updates, last) ==
  LET after[n \in 0..Len(updates)] ==
        IF n = 0 THEN v ELSE Run(after[n - 1], updates[n], last)
  IN  after
RunAll(v, updates, last) == Runs(v, updates, last)[Len(updates)]
ShowView(v) == items' = v.items /\ assistant' = v.assistant

\* Mutant of SetItems: not a function of the items before but of the items
\* of the last render, so that an update before it that is pending is lost.
SetItemsStale(ref, update) ==
  \/ /\ pending = <<>> /\ ShowView(Run(View(ref), update, lastTarget))
     /\ UNCHANGED pending
  \/ pending' = <<update>> /\ assistant' = ref /\ UNCHANGED items

\* setItems(update) in a handler that leaves the ref at `ref`.
SetItems(ref, update) ==
  \/ /\ pending = <<>> /\ ShowView(Run(View(ref), update, lastTarget))
     /\ UNCHANGED pending
  \/ pending' = Append(pending, update) /\ assistant' = ref /\ UNCHANGED items

Render ==
  /\ pending # <<>> /\ pending' = <<>>
  /\ ShowView(RunAll(View(assistant), pending, lastTarget))
  /\ UNCHANGED <<frameVars, wires, ready, socket, status, isWaiting, lastTarget, sent,
                 delivered, slipped, deferred, late>>

-----------------------------------------------------------------------------
\* Mutants of ResetRefs: the target, or the bubble, of the sign-in before is kept.
ResetBubbleRef == assistant' = 0 /\ UNCHANGED lastTarget
ResetTargetRef == lastTarget' = None /\ UNCHANGED assistant

ResetRefs == assistant' = 0 /\ lastTarget' = None

\* A token: the effect makes a socket and resets what the hook keeps.
SignIn(k) ==
  /\ socket = 0 /\ ready[k] = "new" /\ \A j \in Connections : j < k => ready[j] # "new"
  /\ socket' = k /\ ready' = [ready EXCEPT ![k] = "connecting"]
  /\ status' = "connecting" /\ isWaiting' = FALSE /\ late' = FALSE
  /\ items' = <<>> /\ ResetRefs
  /\ delivered' = <<>> /\ deferred' = {} /\ slipped' = {}
  /\ UNCHANGED <<frameVars, wires, pending, sent>>

\* No token any more: the cleanup closes the socket, the effect clears items.
SignOut ==
  /\ socket # 0
  /\ LET v == RunAll(View(assistant), pending, lastTarget) IN assistant' = v.assistant
  /\ items' = <<>> /\ pending' = <<>> /\ delivered' = <<>> /\ deferred' = {}
  /\ status' = "connecting" /\ socket' = 0 /\ late' = FALSE
  /\ IF ready[socket] \in {"connecting", "open"}
       THEN /\ ready' = [ready EXCEPT ![socket] = "closing"]
            /\ IF phase[socket] = "down"
                 THEN outbox' = [outbox EXCEPT ![socket] = <<Close>>] /\ UNCHANGED inbox
                 ELSE inbox' = [inbox EXCEPT ![socket] = Append(@, Close)] /\ UNCHANGED outbox
       ELSE UNCHANGED <<ready, inbox, outbox>>
  /\ UNCHANGED <<frameVars, inTurn, isWaiting, lastTarget, sent, slipped>>

\* Mutant of Opened: onopen is taken for the answer to "connecting" only.
OpenedOnce(k) ==
  /\ ready[k] = "connecting" /\ Connect(k)
  /\ ready' = [ready EXCEPT ![k] = "open"]
  /\ status' = IF status = "connecting" THEN "open" ELSE status
  /\ late' = FALSE
  /\ UNCHANGED <<wires, socket, isWaiting, view, sent, slipped>>

\* The connection cannot be made: the token is refused, or nobody listens.
CannotOpen(k) ==
  /\ ready[k] = "connecting" /\ socket = k
  /\ ready' = [ready EXCEPT ![k] = "closed"] /\ status' = "closed"
  /\ UNCHANGED <<frameVars, wires, socket, isWaiting, view, sent, slipped, late>>

\* The gateway accepts the connection; onopen.
Opened(k) ==
  /\ ready[k] = "connecting" /\ Connect(k)
  /\ ready' = [ready EXCEPT ![k] = "open"] /\ status' = "open" /\ late' = FALSE
  /\ UNCHANGED <<wires, socket, isWaiting, view, sent, slipped>>

\* sendMessage, from a panel that lets the employee send while the status is
\* open: the update runs before or after lastTargetRef is overwritten, but
\* before the next click.
SendMessage(target) ==
  /\ \A i \in DOMAIN pending : pending[i].kind # "user"
  /\ socket # 0 /\ ready[socket] = "open" /\ status = "open" /\ sent < MaxMessages
  /\ sent' = sent + 1
  /\ SetItems(assistant, Message(sent', target))
  /\ deferred' = IF pending' = <<>> THEN deferred ELSE deferred \cup {sent'}
  /\ lastTarget' = target
  /\ isWaiting' = TRUE
  /\ inbox' = [inbox EXCEPT ![socket] = Append(@, Wire("message", sent'))]
  /\ UNCHANGED <<frameVars, outbox, inTurn, ready, socket, status, delivered, slipped, late>>

-----------------------------------------------------------------------------
\* The gateway, with the actions TurnFrames allows it.
Emits(k, frame) == outbox' = [outbox EXCEPT ![k] = Append(@, frame)]

Take(k) ==
  /\ inbox[k] # <<>> /\ Head(inbox[k]) # Close /\ Begin(k)
  /\ inTurn' = [inTurn EXCEPT ![k] = Head(inbox[k]).of]
  /\ inbox' = [inbox EXCEPT ![k] = Tail(@)]
  /\ UNCHANGED <<outbox, slipped>>

Forward(k) ==
  /\ Len(outbox[k]) < MaxOnWire
  /\ \/ forwarded[k] < MaxForwarded /\ Frame(k) /\ Emits(k, Wire("token", inTurn[k]))
     \/ Refuse(k) /\ Emits(k, Wire("error", inTurn[k]))
     \/ Answer(k) /\ \E type \in {"done", "error"} : Emits(k, Wire(type, inTurn[k]))
  /\ UNCHANGED <<inbox, inTurn, slipped>>

EndTurn(k) ==
  /\ End(k)
  /\ slipped' = IF k = socket /\ answered[k] = 0 THEN slipped \cup {inTurn[k]} ELSE slipped
  /\ UNCHANGED wires

\* The close handshake, read between two turns.
CloseRead(k) ==
  /\ inbox[k] # <<>> /\ Head(inbox[k]) = Close /\ Drop(k)
  /\ inbox' = [inbox EXCEPT ![k] = <<>>] /\ Emits(k, Close)
  /\ inTurn' = [inTurn EXCEPT ![k] = 0]
  /\ UNCHANGED slipped

\* The gateway restarts under its connections.
GatewayRestarts ==
  /\ \E k \in Connections : phase[k] # "down"
  /\ Restart
  /\ inbox' = [k \in Connections |-> <<>>]
  /\ outbox' = [k \in Connections |-> IF phase[k] = "down" THEN outbox[k]
                                                           ELSE Append(outbox[k], Close)]
  /\ inTurn' = [k \in Connections |-> 0]
  /\ slipped' = IF socket # 0 /\ phase[socket] = "turn" THEN slipped \cup {inTurn[socket]}
                                                        ELSE slipped

Browsers == <<ready, socket, status, isWaiting, view, sent, late>>
GatewayMust(k) == (Take(k) \/ EndTurn(k) \/ CloseRead(k)) /\ UNCHANGED Browsers
GatewayMay ==
  (GatewayRestarts \/ \E k \in Connections : Forward(k)) /\ UNCHANGED Browsers

-----------------------------------------------------------------------------
Arrives(k) == Head(outbox[k])
Arrival(k) ==
  /\ outbox[k] # <<>> /\ outbox' = [outbox EXCEPT ![k] = Tail(@)]
  /\ UNCHANGED <<frameVars, inbox, inTurn, socket, lastTarget, sent, deferred>>

\* A socket that is not open any more gets no frames.
FrameDropped(k) ==
  /\ Arrival(k) /\ Arrives(k) # Close /\ ready[k] # "open"
  /\ UNCHANGED <<ready, status, isWaiting, items, pending, assistant, delivered, slipped, late>>

OnMessage(k, type) ==
  /\ Arrival(k) /\ Arrives(k).type = type /\ ready[k] = "open"
  /\ UNCHANGED <<ready, status, late>>

OnToken(k) ==
  /\ OnMessage(k, "token") /\ isWaiting' = FALSE
  /\ SetItems(assistant, Token(Arrives(k).of))
  /\ delivered' = Append(delivered, Arrives(k).of)
  /\ UNCHANGED slipped

\* A token that has not been rendered will find the ref cleared.
Slips(k) ==
  slipped' = IF \E i \in DOMAIN pending : pending[i].kind = "token"
               THEN slipped \cup {Arrives(k).of} ELSE slipped

\* Mutant of OnDone: the ref to the bubble is kept.
OnDoneKeepsRef(k) ==
  /\ OnMessage(k, "done") /\ isWaiting' = FALSE
  /\ Slips(k) /\ UNCHANGED <<items, pending, assistant, delivered>>

OnDone(k) ==
  /\ OnMessage(k, "done") /\ isWaiting' = FALSE
  /\ assistant' = 0 /\ Slips(k) /\ UNCHANGED <<items, pending, delivered>>

\* Mutant of OnError: the waiting indicator stays.
OnErrorWaiting(k) ==
  /\ OnMessage(k, "error")
  /\ SetItems(0, Failure(Arrives(k).of))
  /\ Slips(k) /\ UNCHANGED <<isWaiting, delivered>>

OnError(k) ==
  /\ OnMessage(k, "error") /\ isWaiting' = FALSE
  /\ SetItems(0, Failure(Arrives(k).of))
  /\ Slips(k) /\ UNCHANGED delivered

\* onclose, of whichever socket; its handler is never removed.
OnClose(k) ==
  /\ Arrival(k) /\ Arrives(k) = Close
  /\ ready' = [ready EXCEPT ![k] = "closed"] /\ status' = "closed"
  /\ late' = (late \/ (socket # 0 /\ socket # k))
  /\ UNCHANGED <<isWaiting, items, pending, assistant, delivered, slipped>>

Browser(k) == FrameDropped(k) \/ OnToken(k) \/ OnDone(k) \/ OnError(k) \/ OnClose(k)

Next ==
  \/ \E k \in Connections : SignIn(k) \/ CannotOpen(k) \/ Opened(k)
                               \/ Browser(k) \/ GatewayMust(k)
  \/ \E target \in Targets : SendMessage(target)
  \/ SignOut \/ Render \/ GatewayMay

\* A turn that was taken ends, with an answer or without (TurnsEnd of
\* ChatSystem), frames are delivered and updates rendered; nobody has to
\* sign in or out, to write, or to restart anything.
Spec == Init /\ [][Next]_vars
FairSpec ==
  /\ Spec
  /\ WF_vars(Render)
  /\ \A k \in Connections : WF_vars(Browser(k)) /\ WF_vars(GatewayMust(k))

-----------------------------------------------------------------------------
ItemOk(item) ==
  \/ item.kind = "assistant" /\ item.text # <<>>
  \/ item.kind \in {"user", "divider", "error"} /\ item.of \in 1..sent

TypeOK ==
  /\ phase \in [Connections -> {"down", "idle", "turn"}]
  /\ ready \in [Connections -> {"new", "connecting", "open", "closing", "closed"}]
  /\ socket \in {0} \cup Connections /\ status \in {"connecting", "open", "closed"}
  /\ isWaiting \in BOOLEAN /\ delivered \in Seq(1..sent)
  /\ \A i \in DOMAIN items : ItemOk(items[i])
  /\ assistant # 0 /\ socket # 0 =>
       assistant \in DOMAIN items /\ items[assistant].kind = "assistant"

(***************************************************************************)
(* The answer to one message stands in a bubble of its own, unless the     *)
(* answer to the message before slipped: it ended before React had         *)
(* rendered its last tokens, or without done or error.                     *)
(***************************************************************************)
BubblePerTurn ==
  \A i \in DOMAIN items : items[i].kind = "assistant" =>
    LET text == items[i].text
    IN  \A j \in 2..Len(text) : text[j - 1] \in {text[j]} \cup slipped

(***************************************************************************)
(* Once everything is rendered, the transcript holds every token that the  *)
(* socket of this sign-in has been sent, in order, and no other token,     *)
(* whichever updates React has put off and whatever earlier sockets do.    *)
(***************************************************************************)
Said(text, item) == IF item.kind = "assistant" THEN text \o item.text ELSE text
Texts(list) ==
  LET upTo[n \in 0..Len(list)] == IF n = 0 THEN <<>> ELSE Said(upTo[n - 1], list[n])
  IN  upTo
Transcript(list) == Texts(list)[Len(list)]

TranscriptOwn == pending = <<>> => delivered = Transcript(items)

(***************************************************************************)
(* "Changing it mid-session drops a divider": one stands before a message  *)
(* only if the message before it in this sign-in is for another customer,  *)
(* and then it does, unless React has put off the later message's update.  *)
(***************************************************************************)
IsUser(list, i) == list[i].kind = "user"
AfterDivider(list, j) == j > 1 /\ list[j - 1].kind = "divider"
Precedes(list, i, j) == IsUser(list, i) /\ \A k \in (i + 1)..(j - 1) : ~IsUser(list, k)
Changes(list, j) ==
  \E i \in 1..(j - 1) : Precedes(list, i, j) /\ list[i].target # list[j].target

Divided(list, putOff) ==
  \A j \in DOMAIN list : IsUser(list, j) =>
    /\ AfterDivider(list, j) => Changes(list, j)
    /\ Changes(list, j) /\ list[j].of \notin putOff => AfterDivider(list, j)

DividersTrue == Divided(items, deferred)

(***************************************************************************)
(* The status that enables the composer is that of the sign-in's socket,   *)
(* unless the socket of an earlier sign-in was closed after this one had   *)
(* opened.                                                                 *)
(***************************************************************************)
StatusTrue ==
  socket # 0 /\ ~late => (status = "open" <=> ready[socket] = "open")

(***************************************************************************)
(* The waiting indicator goes out, unless the connection is lost or the    *)
(* gateway ends the turn of the last message without an answer.            *)
(***************************************************************************)
NeverAnswered ==
  inTurn[socket] = sent /\ phase[socket] = "idle" /\ answered[socket] = 0

WaitingEnds ==
  isWaiting ~> (~isWaiting \/ socket = 0 \/ ready[socket] # "open" \/ NeverAnswered)
=============================================================================
