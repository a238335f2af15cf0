# Telco chat demo: TLA+ models, model checks and proofs

The repository is a workshop on OpenChoreo. Most of it is prose, manifests and
screenshots; its one program of its own is the telco chat demo under
`src/docs/scenarios/telco-chat-demo/services/`, and that is what is specified
here. All paths below are relative to that directory.

## 1. The system

```
 customer-portal-ui ─┐  websocket /ws/chat                    ┌─ subscription-service ─┐
                     ├──────────► chat-gateway ──► chat-agent ┤                        ├─ Postgres telco-db
 employee-console-ui ┘            │        │  POST   │   HTTP  └─ network-ops-service ──┘
      │                     Postgres    Redis  /agent/stream  ▲            ▲
      │                     chat-db    (limits)    │          │            │
      │                                     language model    │            │
      └──────────────── tabs: REST calls ─────────────────────┴────────────┘
```

### 1.1 Components, their state and their operations

| component | state it keeps | operations that change it | models |
|---|---|---|---|
| **chat-gateway**, websocket sessions (`handlers_ws.go`, `db.go`, `agent.go`) | per connection: conversation id, target customer, assembled reply; Postgres: `conversations`, `messages`, `audit_log` | the turn handler: resolve target and conversation, ensure the row, ask the limiter, insert the message, load the history, POST to chat-agent, and for each line forward / collect / audit / store | `ChatGateway`, `TurnFrames` |
| **chat-gateway**, rate limiter (`ratelimit.go`) | Redis: a counter per actor with a time to live | `Allow` = INCR, then EXPIRE for the call that created the key | `RateLimiter`, `TimedRateLimiter` |
| **chat-gateway**, login and REST (`auth.go`, `handlers_auth.go`, `handlers_rest.go`) | none | none (tokens are signed, messages are read) | only what a session gets from its token: role and subject |
| **chat-agent**, a turn (`agent/streaming.py`, `main.py`) | per run: the queue of its events, calls in flight, `pending_tool_error`, `narrated_since_error`; nothing survives a run | the event loop of `stream_chat`: text, tool start / end / error, last words, done, error | `ChatAgent`, `AgentStream`, `AgentProtocol`, `ChatAgentAlone` |
| **chat-agent**, tools (`agent/tools.py`, `clients/backend.py`) | none | `build_tools`, `compute_audit`, `compute_target_customer_id`, the tool bodies | `ToolCatalog`; the catalog tool's GET and PUT in `SubscriptionService` |
| **subscription-service** (`schema.go`, `handlers.go`) | Postgres: `plans`, `customers`, `subscriptions` | `seed` at every start; create / update / delete plan, set subscription | `SubscriptionSeeding`, `SubscriptionService` |
| **network-ops-service** (`schema.go`, `handlers.go`) | Postgres: `usage_records`, `service_reports` | `migrate` and `seed` at every start; create and patch a report | `NetworkOps` |
| **employee-console-ui** (`IncidentsTab.tsx`, `api.ts`, `useChatSocket.ts`) | React state: selected report, detail card, drafts, `loading`, `saving`; socket, transcript, open bubble, last target | open, save and leave a report; sign in and out, send, the socket's events | `IncidentsTab`, `ChatSocket` |
| **customer-portal-ui** (`useChatSocket.ts`) | React state: socket, transcript, open bubble | the same hook without targets and dividers | `ChatSocket` |
| logging and CORS wrappers, installation guide, manifests, Dockerfiles | none | none | not modelled |

### 1.2 How they interact, and what is hard

* Each websocket connection is served by a goroutine of its own, one turn after
  the other. Several sessions may have the same actor (shared limiter key) and
  may continue the same conversation (shared rows), and every database, Redis
  or agent call is a point where they interleave.
* chat-agent answers one POST with a stream of JSON lines. It goes on writing,
  and its tools go on changing accounts, whether or not the gateway can still
  deliver the lines to a browser.
* The model calls tools in batches; the calls of one batch run concurrently,
  take effect in the backend at some moment of their own, and end in any order.
* The run goes on in a task of its own and queues its events. `stream_chat`
  writes a line when it gets to the event and its reader lets it, so a tool may
  have changed an account before the line that announces it is written.
* A tool gives a backend 15 s. A call that failed may have been applied.
* `Shutdown` in `main.go` does not wait for upgraded connections: a restart of
  chat-gateway cuts a turn between any two of its statements. A restart of
  chat-agent truncates a response without a terminator.
* Both backends seed their tables at every start, one statement at a time and
  outside any transaction, in every replica, while other replicas serve.
* The statements of a handler are not in a transaction, so what was checked may
  be stale when it is used; `manage_plan_catalog` merges its arguments into a
  plan it has read in an earlier request, and `patchReport` reads the report
  again after its UPDATE.
* The UIs' `async` functions await requests that nothing cancels. Answers
  arrive in any order, also when another report is open or the tab was left.
* A sign-out closes the socket but does not remove its handlers; the close
  handshake ends only after the gateway has finished its turn, and its `onclose`
  may find another sign-in's socket open.
* React runs a functional update at once or with the next render. The hooks keep
  refs (the open bubble, the last target) next to the state, and an update that
  was put off reads a ref that has changed meanwhile.

### 1.3 What makes each part correct

* Limiter: at most 20 turns per life of an actor's key, no key without an
  expiry, at most twice the limit in any window of time.
* Agent: a response is well formed (`AgentProtocol`), every failure is talked
  about before `done`, a response that ends has announced every change of an
  account with the audit flag, a turn calls tools of its own role only, and a
  customer's turn changes nothing but that customer's data.
* Gateway: rows stay in order, every turn that ends is answered exactly once,
  nothing follows the answer, only a whole reply is stored, nothing unrecorded or
  refused reaches the agent, every turn ends.
* Gateway and agent together: every change is audited under the right customer.
* subscription-service: nobody's edit of a plan blanks another field, a
  withdrawn plan stays withdrawn, an answer tells of a plan that was in force, a
  start never overwrites, and every replica serves in the end.
* network-ops-service: a start changes no row and adds none to a table it found
  filled, a PATCH is answered with the report after it, a usage history holds the
  latest days in order, every replica serves in the end.
* Incidents tab: a save goes to the report on the card with that report's form,
  and the tab never hangs in "loading" or "saving".
* Chat hooks: every token of the own socket stands in the transcript once and in
  order, each answer in a bubble of its own, a divider where the customer
  changes, and the status and the waiting indicator tell the truth.

`PROJECT.json` lists the hazards one by one with the line each sits at and the
properties that watch over it.

## 2. Modules

```
ToolCatalog ◄── AgentStream ◄─┬─ AgentProtocol        what a response promises
                              ├─ ChatAgent ◄── ChatAgentAlone ◄── ChatAgentProofs, MCChatAgent
                              └─ ChatGateway
        ChatGateway + ChatAgent ◄── ChatSystem ◄─┬─ MCChatSystem
                                       ┆         └─ ChatSystemProofs ◄── ChatTurnsProofs ◄── ChatRowsProofs
                                   implements
                                       ┆
                                  TurnFrames ◄── ChatSocket ◄── ChatSocketProofs, MCChatSocket
RateLimiter ◄─┬─ TimedRateLimiter ◄── RateLimiterProofs, MCTimedRateLimiter
              └─ MCRateLimiter
SubscriptionSeeding ◄── SubscriptionService ◄── SubscriptionProofs, MCSubscriptionService
NetworkOps ◄── IncidentsTab ◄── IncidentsTabProofs, MCIncidentsTab
```

An arrow is EXTENDS. Three abstract specifications are stated, and the detailed
ones shown to implement them: `ChatAgentAlone` implements `AgentProtocol`,
`ChatSystem` implements `TurnFrames`, `TimedRateLimiter` implements `RateLimiter`.

**`RateLimiter`** – `Allow` with INCR (`Incr`) and EXPIRE (`Expire`) as separate
steps of a caller. `IncrReplyLost`, `IncrFails` and `ExpireFails` are the error
returns, with and without the effect of the command; `Crash` is a restart of
the gateway, which Redis survives; `KeyExpires` is Redis. `granted` is a history
variable: turns granted in the present life of the key.

**`TimedRateLimiter`** – the same steps with a clock, to ask about intervals of
time, not lives of a key. `remaining` counts down the time a key has to live and
`recent[a][i]` counts the grants of the last `i` ticks, for every `i` up to the
window; neither grows without end, so time needs no bound. `Tick` waits while a key is overdue, until Redis has
dropped it.

**`ToolCatalog`** – operators only: which tools a role is given, which calls are
audited, which customer a call is reported to concern (`ComputeTarget`), and,
read off the tool bodies, which calls change a backend (`Mutates`) and whose
data (`Affected`). `ComputeTarget` and `Affected` come from different code, and
the difference is what `TargetIsAffected` asks about.

**`AgentStream`** – the wire between gateway and agent: the request, the lines
written, how many the gateway has read, and the state of the response body
(`none`, `called`, `refused`, `open`, `closed`).

**`AgentProtocol`** – the abstract specification of a response, one session at a
time and without flags, tools or effects.

**`ChatAgent`** – a run and its reader. `astream_events` runs the graph in a task
of its own, which queues what happens (`ModelText`, `ToolStart`, `ToolEnd`,
`ToolError`) in `events`, while backends apply requests (`ToolTakesEffect`). The
loop of `stream_chat` takes the events off one by one and writes a line for each
(`WriteText`, `WriteCall`, `WriteResult`), as late as its reader makes it. A run
that has finished or failed ends the response when its queue is drained
(`Finish` with `LastWords`, `AgentFails`). The queue is kept whole in the model:
the first `Len(stream[s])` of `events[s]` have been written, so that a call and
its line have one position. `inflight` holds the started calls; `pending` and
`narrated` are the two local variables of the function, which change when a line
is written; `effects` and `cut`, the turns whose response a crash has cut off,
are history variables. `AgentCrash` kills the process, `AgentRefuses` is a
request that cannot be sent or is answered with an error status, which needs no
crash and is not counted as one.

**`ChatAgentAlone`** – `ChatAgent` with the most general client, which sends any
request and goes away at any time (`Leave`: the generator is closed and the run
cancelled). It is the module `ChatAgentProofs` is about.

**`ChatGateway`** – the turn handler, one action per call that leaves the
process. `pc` names the call a turn is at:

| `pc` | code | actions |
|---|---|---|
| `read` | `run`, `handleChatMessage` up to the first query | `Receive`, `ReceiveInvalid`, `Disconnect` |
| `ensure` | `ensureConversation` | `EnsureConversation`, `EnsureFails` |
| `allow` | `Allow` | `Allowed`, `Denied`, `AllowFails` |
| `persist` | `insertMessage` | `PersistUser`, `PersistFails` |
| `history` | `recentHistory` | `LoadHistory`, `HistoryFails` |
| `post`, `call` | `StreamTurn` | `PostTurn`, `StreamStarts`, `AgentUnavailable` |
| `stream` | `streamAgentResponse`, `handleAgentLine` | `OnToken`, `OnToolCall`, `OnToolResult`, `OnDone`, `OnError`, `ForwardFails`, `StreamEnds` |

A connection is `up`, `gone` (the browser left, nothing has noticed) or `broken`
(a write has failed, all later ones do). A frame written to a `gone` connection
may still succeed. The limiter is seen as the answers it can give.

**`ChatSystem`** – `ChatGateway` and `ChatAgent` over `AgentStream`: each step is
a step of one that leaves the other's variables alone. Its properties relate
the gateway's tables to the agent's effects.

**`TurnFrames`** – what the gateway promises a browser, per connection: turns one
after the other, frames until one answers the turn, nothing after the answer,
perhaps no answer at all. It says nothing of how. `ChatSystem` maps `pc` to
`phase`, `answers` to `answered` and, within `stream`, `got` to `forwarded`.

**`ChatSocket`** – `useChatSocket.ts` of the employees' console over
`TurnFrames`. `pending` are the functional updates React has not run, `assistant`
and `lastTarget` the two refs, `inbox` and `outbox` what is on a wire, in order and
with a close last. `SetItems` runs an update at once or puts it off, `Render` runs what
was put off, `Run` is what an update does when it runs, with the refs as they
are then, and `RunAll` what several do in order. `delivered`, `slipped`, `deferred` and `late` are history: the tokens
handled, and what the properties except (3.1). The gateway's actions are those
of `TurnFrames` with a frame put on the wire.

**`SubscriptionSeeding`** – the start of a replica: the two counts, each insert,
and the guard that makes the subscriptions depend on the customers' count.
Primary and foreign keys are enforced, a violated one ends the process.

**`SubscriptionService`** – the handlers statement by statement, called by tools
of chat-agent, while further replicas are started (`ScaleUp`). `call[c].step` is
the statement a call is at. Histories: `asked` (values somebody wanted), `moves`
(subscriptions set, with the number of the call), `retired` (how many calls had
begun when a plan was withdrawn).

**`NetworkOps`** – the start of a replica statement by statement, and all six
handlers. A request is a record in a slot, `call[q]`, sent by whoever uses the
service and kept until its client has taken the answer; its `step` is the
statement it is at, so the UPDATE of `patchReport` (`PatchReport`) and the SELECT
after it (`Reload`) interleave with other requests. `rev` is `updated_at`. A
random id is fresh or taken; one that is taken makes `CreateReport` fail, or ends
a start (`ReplicaDies`). The query of a usage history is stated by ranks
(`Latest`): kept are the days with fewer than `n` later ones, and the `i`-th of
the answer is the one with `i - 1` before it.

**`IncidentsTab`** – the tab's card and form over `NetworkOps`, with chat-agent's
tools as other clients. `awaited` are the slots whose answer is for the tab as it
is mounted now: `LeaveTab` empties it and the requests go on (`Related`,
`Taken`). `draft.of` and `raced` are history: the report the form was filled
from, and whether an opening overlapped another request of the tab.

**`MC...`** – values for the constants of one TLC instance each; they define
nothing that is used elsewhere. **`...Proofs`** – theorems and proofs, see 5.

Operators whose comment begins "Mutant of" are not part of any specification.
Each is the mapped definition after it with a plausible bug; the run named in
`PROJECT.json` refutes its property with the mutant in place, which shows the
property has a grip on that line of the code.

## 3. Runs

All instances use two of whatever must interleave, unless said otherwise, and a
budget of faults. Nobody must send messages or click, so a finished instance is
idle: that, and the budgets of turns, calls and events, are why the runs of those
modules have `CHECK_DEADLOCK FALSE`. Only `ChatAgentResponses` has deadlock
checking on, since its client can always send or leave.

### 3.1 Runs that pass

| run | question | bounds | distinct states |
|---|---|---|---|
| `RateLimiterWindows` | Is the limit kept for every interleaving, lost reply and crash, in every life of a key and in any interval of a window's length; can an actor be locked out without a fault? | 2 callers, 2 actors, limit 2, 4 INCRs per key, window 2 ticks, 1 fault | 503 638 |
| `ChatAgentResponses` | Does one response keep the protocol, the scope and the announcement of every change? | 1 run at a time (runs share nothing), 4 tools, up to 3 calls, nothing new started after 4 events, 1 crash | 668 164 |
| `ChatSystemFaults` | Rows, answers, frames and the end of every turn under faults | 1 session, 2 turns on one conversation, 1 gateway fault or restart, 1 agent crash, an agent that may refuse, a browser that may leave, 1 call, nothing new started after 3 events | 630 518 |
| `ChatSystemScope` | A customer's and an employee's sessions interleave: rows, scope and audit | 2 sessions, 2 customers, 2 conversations, 2 turns, 1 event and what ends it, calls with and without the customer they need | 1 111 055 |
| `SubscriptionReplicas` | Concurrent tools against catalog and subscriptions while a second replica starts on the same database | 2 replicas, 1 of them from the beginning, 2 callers, 3 calls or further replicas, 3 plans, 2 customers, 1 fault | 912 940 |
| `IncidentsTabRaces` | An employee opens, saves and leaves reports while a tool calls, a replica starts or one dies | 2 replicas, 1 of them from the beginning, 2 requests of the tab and 1 of a tool, 1 customer, 2 days of usage, 2 demo reports, 2 statuses, 2 notes, 3 events | 244 065 |
| `ChatSocketTranscript` | Two sign-ins one after the other: whose words stand where, and what do status and waiting indicator say? | 2 connections, 2 targets, 2 messages, 2 tokens per response, 1 frame on a wire | 664 823 |

Why the bounds reach the interesting cases:

* *Limiter.* The limit matters at `limit` and `limit + 1`, so a limit of 2 with
  4 INCRs has turns granted by EXPIRE's caller, granted without it, and denied.
  A second actor shows that keys do not disturb each other. A window of 2 ticks
  has grants at its two ends, and a key can be full at the end of one interval
  and the next one full at the start of the following. The limit of 20 and the
  60 s are abstracted; the proof of the quota is for every limit and window.
* *Agent.* `MaxLines` and `MaxCalls` bound the events after which a run starts
  nothing more and its calls; answers, last words and the line that ends the
  response come on top. That is enough for two concurrent calls that both end, a
  failed one with later text and another failure, a failure and nothing said after
  it, and a run that is several events ahead of its lines. Of the five calls one
  changes nothing, one concerns the caller, one has its customer as an argument,
  one lacks that argument and is rejected, and one is about a report whose owner
  only the backend knows. A larger batch is covered by the proofs, which bound neither calls nor lines.
* *Faults.* One fault per run decides where a turn is cut; faults do not depend
  on one another except through the rows they leave, and the second turn meets
  those.
* *Scope.* Two turns in two sessions are the smallest instance in which rows of
  one conversation interleave; an employee's turn for `bob` and a customer's
  turn of `alice` on one conversation is in it. A change, its
  answer and `done` fit in the bound of one event. A call without the customer it
  needs is announced and audited before its tool rejects it, which is the audit
  row for the turn's own target (`AuditRow`).
* *Subscription.* Three calls allow the check-then-upsert of one caller to be
  separated by a withdrawal, a GET and PUT by a change, and either by a starting
  replica; two fields are enough to tell a merged plan from a partial one; the
  third plan is one that only a create can add.
* *Incidents tab.* Three events, counting requests, replicas and faults alike, are an
  opening, a save and either a tool's update, a crash or a second replica
  between any two statements of these; or two openings and a save, which is the
  smallest case of crossing answers. Reports are as many as must differ, a
  second status and note are enough to see which draft was sent. The proofs
  bound neither events nor reports.
* *Chat hook.* Two messages are enough for a bubble that the next answer joins,
  and for a divider; two tokens for an update that is put off behind another. A
  second sign-in is what an old socket can disturb. One frame on each wire
  delays a close past any step of the other side; further ones would only wait.

What each property says is stated above its definition. `TypeOK` holds more
than types where the code promises more: at most one answer per turn, a card that
shows a row of the table, an open bubble that is one of the transcript.

Some properties of the UIs except what the code does get wrong; the exception is
a history variable in the property, so that the rest is still checked:

* `SaveHitsShown` / `raced`: while the answer of an earlier opening or save is
  awaited, another report can be opened. The late answer fills card and form, and
  Save sends that form to the report opened last. (Save also sends both drafts,
  so it reverts what a tool has changed since.)
* `StatusTrue` / `late`: the close of the socket of an earlier sign-in arrives when
  the new one is open, and sets the status to closed.
* `BubblePerTurn` / `slipped`: a response that is cut off leaves its bubble open,
  and a `done` or `error` that arrives before the last tokens were rendered clears
  the ref too early. Either way the next answer is appended to the same bubble.
* `DividersTrue` / `deferred`: the update that compares with `lastTargetRef` may
  run after the ref was overwritten; then the divider is missing.
* `WaitingEnds`: the waiting indicator stays if the connection is lost or the
  gateway ends a turn without an answer.

### 3.2 Runs that end in a violation

Each checks one sentence of the repository that the code does not keep.

* **`RateLimiterLockout`** / `LockoutEnds`. Only the call that saw `count == 1`
  sends EXPIRE. If the INCR reply is lost, EXPIRE fails, or the process dies
  between the two, the key has no time to live and the actor is refused for
  ever, where the README says 20 turns per 60 s window. The same property up to
  a fault, `LockoutEndsUnlessFault`, passes.
* **`ChatSystemAuditLost`** / `EffectsAudited`. `handleAgentLine` writes the line
  to the browser first and returns if that fails, before its switch records the
  audit row. A browser that leaves in the middle of a turn therefore takes the
  audit row of a change with it, which chat-agent nevertheless makes.
  `ReadEffectsAudited`, with the exception for browsers that leave, passes.
* **`ChatSystemHistory`** / `NoMessageTwice`. The history is queried after the
  user's message has been inserted and so ends with it; `_build_messages`
  appends the message again. The code's comments speak of prior messages.
* **`ChatSystemSubject`** / `SubjectIsTarget`. An employee may name another
  customer in the next turn of the same connection; `ON CONFLICT DO NOTHING`
  keeps the first customer as subject, while the README says the subject is
  always the customer the conversation concerns.
* **`SubscriptionSeeds`** / `SeededBeforeServing`. A crash between the first
  customer row and the last subscription leaves a table that is not empty, so
  every later start skips the rest and serves customers without a subscription;
  the README calls a restart safe.

One difference between README and code is not a finding. The README says the
stored reply is the tokens "since the last done"; the handler also empties its
buffer at the start of every turn, so tokens before an `error` are dropped.
`StoredReplyWhole` states the code's, stronger, behaviour.

## 4. Fairness

* `RateLimiter!FairSpec`: WF of `Expire` (a goroutine that has its INCR reply
  goes on) and of `KeyExpires` (Redis drops keys). `TimedFairSpec` adds WF of
  `Tick`: time passes. No caller is made to call.
* `ChatSystem!FairSpec`: per session, WF of the gateway's `TurnStep` and of
  `AgentProgress`, the run's steps and the loop's. A goroutine in a turn is always ready to take its next step:
  stores answer or fail. The agent's progress rests on more: a backend call ends
  within 15 s (`clients/backend.py`), the model answers, and LangGraph bounds the
  number of rounds of a run, which `MaxLines` and `MaxCalls` stand for. Refusing, failing and crashing are not
  fair, and neither are browsers. The gateway's client has no timeout of its own,
  so a hung agent with an open connection would hold the turn; `TurnsEnd` is
  conditional on this fairness.
* `SubscriptionService!FairSpec`: WF of `BootStep` per replica. The platform restarts a
  process that exits, and a starting replica waits for nobody. WF is enough
  although another replica's rows can kill it: rows are only added, so it
  eventually counts a table that is not empty.
* `IncidentsTab!FairSpec`: WF of `Boot` per replica, as above; of `Serve` per
  request, since a statement of Postgres ends; and of `TabStep`, since a promise
  whose answer is there settles. A request that is refused or loses its answer
  is a failed one, as it is for `fetch`. Nobody has to click, and no fault has to
  happen.
* `ChatSocket!FairSpec`: WF of `Render` and of `Browser` (React renders, frames
  that were sent are delivered) and of `GatewayMust`: the gateway takes a message
  that has come and ends a turn it has begun, which is `TurnsEnd` of `ChatSystem`,
  where it is checked. Forwarding is not fair: a turn may end without an answer.

## 5. Proofs

tlapm checks eight modules; every leaf is a call to Z3, Zenon or LS4. The
instances of section 3 are small; the theorems hold for every value of the
constants that the named assumptions allow. Every safety property of a run that
passes is the statement of a theorem. Liveness is not (5.7).

| module | theorems | from the assumptions |
|---|---|---|
| `RateLimiterProofs` | `TypeCorrect`, `QuotaHolds`, `KeysExpire`, `KeyOwned`, `ClockRefines`, `TimedQuota`, `BurstsBounded` | `RateLimitMaxAssumption`, `MaxFaultsAssumption`, with the clock `WindowAssumption` |
| `ChatAgentProofs` | `TypeCorrect`, `FlagsTrue`, `Scoped`, `ChangesAnnounced`, `TargetNamed`, `Implements` | `OwnerAssumption`, `AbsentAssumption`, `MaxLinesAssumption`, `FaultsAssumption`, `RequestsAssumption` |
| `ChatSystemProofs` | `SystemScope` | `AbsentAssumption`, `SubOfAssumption`, `RolesAssumption` |
| `ChatTurnsProofs` | `AnsweredOnce`, `FramesImplemented` | the same |
| `ChatRowsProofs` | `RowsOrdered`, `StoredFirst`, `ChangesAudited`, `RepliesWhole`, `SystemTyped` | the same, and for `SystemTyped` `OwnerAssumption`, `MaxLinesAssumption`, `FaultsAssumption`, `BoundsAssumption` |
| `ChatSocketProofs` | `TypeCorrect`, `StatusCorrect`, `TranscriptCorrect`, `DividersCorrect`, `BubblesCorrect` | `SocketAssumption` |
| `SubscriptionProofs` | `ValuesTraced`, `WithdrawnStays`, `MovedInTime`, `StartsAdd`, `AnswersTrue` | `CallsAssumption` |
| `IncidentsTabProofs` | `KeptRows`, `PatchShown`, `SaveHits`, `HistoryCorrect`, `TypeCorrect` | `NetworkOpsAssumption`, `OpenAssumption`, `TabAssumption` |

The assumptions say what kind of value a constant is, and three things of more
substance: customers and employees have different names (`RolesAssumption`),
absence (`NoCustomer`, `None`) is no customer, and a tool that files a report
files it for a customer (`TabAssumption`).

Two of the modules need induction, `ChatSocketProofs` over the updates React runs in
one render and the items of a transcript, `IncidentsTabProofs` over the days of a
history. The induction theorems of the library take an operator as a parameter, which
the provers cannot be given. What they can be given is a set: the lemmas
`SetInduction` and `FirstDay` follow from the well-foundedness of `<`
(`WFMin`, `NatLessThanWellFounded`), and an induction names the set of the numbers
for which its statement holds, or fails. What is computed step by step is therefore defined
by recursive functions on `0..n` (`Runs`, `Texts`), whose equations lemmas such as
`RunsExist` and `RunsIs` establish.

### 5.1 Rate limiter

* `QuotaHolds`: `[]WindowQuota`. The quota is not inductive by itself: EXPIRE
  grants a turn without looking at the counter. `KeyInv` adds `PendingOwnsKey`:
  whoever is before its EXPIRE is the only such caller of the key, the key is
  there and cannot expire under it, and the turn still owed to it is not among
  those granted (`granted < count`). With `GrantsCounted` every INCR that grants
  sees a counter beyond what was granted.
* `KeysExpire`: `[]NoOrphanKey`, from the same invariant: without a fault a key
  with no time to live has its creator before EXPIRE. `TypeCorrect` is
  `[]TypeOK`, `KeyOwned` is `[]KeyInv` itself.
* `ClockRefines`: `TimedSpec => Spec`. The clock only restricts when a key may
  expire, so every step of `TimedNext` is a step of `Next` or leaves the
  variables of `RateLimiter` alone. `TimedQuota` cites the theorems above through it.
* `BurstsBounded`: `TimedSpec => []BurstBound`, for every limit and every window.
  `TimedInv` says why twice the limit is enough: the grants of the last window are
  those of the key that lives and at most one limit of earlier ones
  (`OneLimitBefore`), and all grants since EXPIRE are the key's own
  (`OwnSinceExpire`), so a key that has lived its time leaves a window with at
  most its own.

### 5.2 One response of chat-agent

* `TypeCorrect`: `[]TypeOK`.
* `FlagsTrue`: `[]FlagsAgree`. `RunInv` says of every open run that the flags agree
  with the lines (`FlagsTell`), and that the calls in flight are exactly the events
  without an answer, one call per event, and results answer earlier calls only
  (`OpenCalls`). The `Append...` lemmas say what one more event or line does to
  these. A call's position identifies it, without which two calls of one tool could
  answer each other.
* `FollowInv` ties the lines to the queue: what is written are the first events, in
  order, and a response that ended has written all of them. `AnnounceInv` speaks of
  the queue alone: every call in it is of the turn's role, every call in flight, also
  of a response that is closed, has the event `ToolCall(call, request.target)` at its
  position, and every change came from such a call. That says nothing of lines, and a
  change may be ahead of its line. The next three theorems follow from both.
* `Scoped`: `[]CustomerScope`, for both roles; the lemma `CustomerCalls` says that for
  a customer's tools target and affected customer are the run's.
* `ChangesAnnounced`, `TargetNamed`: `[]EffectsAnnounced`, `[]TargetIsAffected`.
* `Implements`: `Spec => KeepsProtocol`, i.e. `ChatAgentAlone` implements
  `AgentProtocol` under the identity mapping. Each action is mapped to a step of
  the protocol in each session, or to a stutter: `ToolTakesEffect` stutters,
  what only the run does (its events, effects) stutters too, `Finish` is `PDone`
  because of `RunInv` and the drained queue (no call without an answer, last words
  if needed), `AgentCrash` is `PCut` or `PRefuse` in every session at once.

### 5.3 Gateway and agent together, for any sessions, conversations and faults

* `SystemScope`: `[]CustomerScope`. The property speaks of the two ends, effects
  and audit rows; what it follows from is what lies between. `ScopeInv`: for a
  customer's session the turn's target and the request's are the customer
  (`TurnsOwn`), and the events queued, the lines written and the calls in flight are of the
  customer's tools for that customer (`RunsOwn`), so a line read gives an audit
  row of that customer (`OwnAudit`). `Awaited` ties the two programs: the agent
  has something to do for a session only while its turn waits for it.
* `AnsweredOnce`: `[]OneAnswerPerTurn`. A turn is over when the response is, and
  the last line must have been the one that answers. `EndInv` says what a response
  is to its reader: nothing follows done or error, the gateway reads no further
  than the lines go, and only a dying agent leaves a closed response without
  its end, that of a turn in `cut`. `NumberInv` (the request of a turn carries its
  number) says that `cut` names the turn that waits. `AnswerInv` says how far an answer has come: none while there is more
  to read, one as soon as the line that ends the response was read.
* `FramesImplemented`: `Spec => ImplementsTurnFrames`. With the mapping of section
  2 a gateway step is the step of `TurnFrames` of the same kind or, at the stores
  and the agent's side, a stutter. `EndInv` and `AnswerInv` show that a forwarded line finds the turn
  unanswered, which is the guard of `Frame` and `Answer`.
* `RowsOrdered` and `StoredFirst`: `[]RowsInOrder`, `[]OnlyStoredTurnsRun`. Sessions
  append to the same conversation at any time, so order follows from numbers:
  `RowsInv` says that turns under way have distinct numbers no row exceeds
  (`Numbered`), that a turn has no row before its INSERT (`NotStored`), its message
  from then on (`IsStored`), and no reply before its response is read to the end
  (`NoReplyYet`, which needs `EndInv`: there is one `done`).

* `ChangesAudited`: `[]ReadEffectsAudited`. `AuditInv` ties agent and audit log by
  the position of an event: a call in flight has its event there, the lines follow
  the events (`Follows`), a marked line the gateway has read has its row, so a change
  is either in the log or its line is still unread or unwritten. What makes it inductive comes from the theorems before it: the
  turn's number is the request's (`NumberInv`), a response is read to its end
  (`EndInv`), and the connection is up until the browser leaves (`AnswerInv`).
* `RepliesWhole`: `Spec => StoredReplyWhole`. `ReplyInv`: while the response is read and
  the browser can be written to, the reply in the gateway's memory is the tokens
  among the lines read, in order (`Assembled`), and before that it is empty. The row
  is inserted when `done` has been read, after which there are no lines (`EndInv`).
  A connection that is broken ends the loop before anything is stored, so
  nothing is lost by leaving it out.
* `SystemTyped`: `[]TypeOK` of gateway and agent together. `TypeInv` adds that a turn
  which sends a request sends it for somebody (`RequestFor`), without which a
  target in a line or an audit row need not be a customer.

### 5.4 subscription-service, for any replicas, callers and plans

* `ValuesTraced`: `[]ValuesAsked`. `CatalogInv` adds `WantsAsked`: what a call is
  about to write was asked for, when it asked or when it read the plan that it
  merges its edit into, however old that plan is by then.
* `WithdrawnStays`: `Spec => WithdrawnForGood`. `CatalogMoves` lists the four things
  a step can do to the catalog; none makes a row active that is there already.
* `MovedInTime`: `[]NoMoveToWithdrawn`. `MovesInv` adds `Timely`: a plan that is
  offered has not been retired, and a call that has found its plan offered began
  before it was. The UPSERT, which looks at nothing, rests on that.

* `StartsAdd`: `Spec => StartOnlyAdds`. Each INSERT of a start is of a row that is not
  there, whatever the counts said before.
* `AnswersTrue`: `[]AnswerInForce`. `ShownInv` says that each row is what the moves so
  far make it. For a demo row this needs that its customer was not moved before,
  which holds because whoever was moved has a row. `PastForce` says that later moves do not
  change what was in force; the latest of a customer's moves exists by the
  well-foundedness of `<` (`Greatest`).

### 5.5 network-ops-service and the incidents tab, for any replicas, requests, reports and events

* `KeptRows`: `Spec => RowsKept`. A count that found rows earlier says nothing
  about a replica that died meanwhile; `BootInv` says that whoever fills a table
  found it empty when it started, and that a table once found filled stays so.
* `PatchShown`: `[]PatchAnswered`. `PatchInv` follows a PATCH between its UPDATE and
  its SELECT: the row it will read is at its own revision, with what it asked for,
  or at a later one, whoever else writes.
* `SaveHits`: `Spec => SaveHitsShown`. `FollowsInv`: as long as no opening
  overlapped another request, every answer the tab waits for, its card and its
  form are of the selected report. It says nothing of `raced` states, in which
  the code does save another report's form.
* `HistoryCorrect`: `[]HistoryLatest`, for any number of days and any limit. The
  lemma `LatestIs` says what ranks compute: by induction (`DayAt`) every number
  below the number of days is the rank of a day, and different days have different
  ranks, so the answer ascends and leaves out nothing it has room for. `Fine`
  adds to the invariant that an answered history is that of a finite set of days.
* `TypeCorrect`: `[]TypeOK`. `TypeInv` follows what the tab awaits: a request of the tab
  is about a report on record and has its row once that is read (`Fine`), and while
  the tab waits or shows a card a report is selected (`CardTyped`). For the seeded usage
  the number of the row a replica is at has to stay within customers times days
  (`SeededKey`).

### 5.6 The chat hook, for any sign-ins, messages, tokens and renders

All five theorems rest on `HookInv`, whose parts lean on each other.

* `TypeCorrect`: `[]TypeOK`. `Lifecycle` says which sockets are heard: only that of the
  sign-in is connecting or open. `Ref` says that the ref of the bubble that grows names the
  last bubble of the list.
* `StatusCorrect`: `[]StatusTrue`, from `Lifecycle`: no other socket opens, and the
  close of another is what `late` records.
* `TranscriptCorrect`: `[]TranscriptOwn`. The property speaks of states in which
  nothing is pending. `Complete` speaks of all: the list as it will be when all
  pending updates have run (`Shown`) has exactly the tokens handled. `RunAll` of
  one more update is one `Run` more, by induction, so that it does not matter which updates
  React runs at once and which it puts off.
* `DividersCorrect`: `[]DividersTrue`. `LastMessage`: a message whose update is pending is
  the only one and was deferred, and otherwise the last message on the list is for
  `lastTarget`, which is what the next update compares with.
* `BubblesCorrect`: `[]BubblePerTurn`. `Unmixed` says it of the items and of the pending
  updates as well, and `Answering` of what is on the wire: once tokens of a message
  have come, whatever ends its answer comes before a token of the next, or the
  message has `slipped`.

### 5.7 Only model-checked

Liveness (`LockoutEndsUnlessFault`, `TurnsEnd`, `EventuallyServes`, `TabSettles`,
`WaitingEnds`) needs fairness and with it ENABLED, which is out of the prover's
reach. The five properties that do not hold (3.2) are refuted by TLC's
counterexamples.

## 6. What the models leave out

* The language model is any sequence of text and batches of calls. Prompts
  are not modelled; nothing is shown to hold because a prompt asks for it.
* Text, names, amounts, tokens and ids are distinct values without structure. A
  message is its turn's number, a reply the positions of its tokens. Conversation
  ids are fresh: a collision of UUIDs is not modelled. A collision of report ids,
  which have four random bytes, is.
* Verifying a token is taken to yield the subject and role it was issued for.
* Redis keeps its data. PUBLISH is left out: nothing in the repository subscribes.
* A change that a request sent earlier still makes once nobody waits for the response
  is not modelled: `ChatAgentAlone` takes the run away with a client that leaves, and
  `ChatSystem` the response that was read to its end. No property speaks of it;
  a reader that leaves or a process that dies may lose the line of a change.
* A backend change that arrives after the tool's 15 s are over, and after its
  result has been reported, is not modelled in `ChatAgent`; one that was applied
  although the tool reports a failure is. In `SubscriptionService` a call whose tool has given
  up takes no further step, because the handler's context is cancelled.
* `TargetIsAffected` does not speak of `manage_service_reports`. An update of a report is
  announced with the assisted customer, because its arguments do not say whose
  report it is.
* A concurrent change of another field of a plan is reverted by the PUT of a
  tool that read before it. This lost update follows from reading and
  writing in two requests; `ValuesAsked` only excludes that a field becomes
  something nobody asked for. The same is true of a report's drafts.
* The validations of network-ops-service: a PATCH that changes nothing is refused
  as in the code; a report's category and description are not modelled, so any
  create may be refused, and a usage request without a date asks for day 0, which
  has no record. A request that was sent is served also if no replica is left
  by then; that it fails instead is `RequestFails`.
* Two replicas of network-ops-service that start together on an empty database
  insert the demo reports twice, under fresh ids. `RowsKept` speaks of tables
  that held rows when a replica started.
* `listCustomers` and `getCustomer` of subscription-service change no state and
  no modelled client acts on their answers.
* Of the consoles: the list of incidents with its filters, the customers tab,
  tool cards, the mark of a bubble that still streams, the status "error", which
  a close always follows, login, and rendering. The two lists of related reports
  that are fetched together are one request.
* `ChatSocket` has tokens and answers on the wire; the frames of tools, which only
  add a card to the transcript and touch neither bubble nor refs, are left out.
* The wrappers for logging and CORS keep no state.

## 7. Plan

1. *Prove more.* That a restart of the gateway or the agent leaves the rows of other
   sessions alone follows from `RowsInv` and could be stated as an action property
   of its own.
2. *Extend the model.* `CustomersTab`, which is `IncidentsTab`'s pattern with a
   profile, a subscription and usage, over both backends at once; the list of incidents, which a
   save refreshes while a filter changes.

## 8. Running it

```
tlc -config RateLimiterWindows.cfg MCTimedRateLimiter   # any run: see PROJECT.json for the module
tlapm ChatRowsProofs.tla                                # any proof module
```
