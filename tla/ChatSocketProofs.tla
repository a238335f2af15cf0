-------------------------- MODULE ChatSocketProofs --------------------------
(* What the safety properties of the chat hook rest on, for every number   *)
(* of sign-ins, messages and tokens.                                       *)
EXTENDS ChatSocket, WellFoundedInduction, TLAPS

(***************************************************************************)
(* Induction: a set of numbers with 0 that is closed under successor is    *)
(* all of them.                                                            *)
(***************************************************************************)
LEMMA SetInduction ==
  ASSUME NEW S, 0 \in S, \A n \in Nat : n \in S => n + 1 \in S
  PROVE  \A n \in Nat : n \in S
<1> DEFINE R == OpToRel(<, Nat)
           T == Nat \ S
<1>1. ASSUME NEW x \in T, \A y \in T : ~(<<y, x>> \in R) PROVE FALSE
  <2>1. R = {ss \in Nat \X Nat : ss[1] < ss[2]}
    BY DEF OpToRel
  <2> HIDE DEF R
  <2>2. x - 1 \in Nat /\ x - 1 < x
    BY <1>1
  <2>3. <<x - 1, x>> \in R
    BY <1>1, <2>1, <2>2
  <2>4. x - 1 \in S
    BY <1>1, <2>2, <2>3
  <2> QED
    BY <1>1, <2>2, <2>4
<1>2. IsWellFoundedOn(R, Nat)
  BY NatLessThanWellFounded
<1> HIDE DEF R
<1>3. T = {}
  BY <1>1, <1>2, WFMin
<1> QED
  BY <1>3

(***************************************************************************)
(* RunAll unfolds: no update, and one more.                                *)
(***************************************************************************)
RunsTo(g, m, v, updates, last) ==
  g = [n \in 0..m |-> IF n = 0 THEN v ELSE Run(g[n - 1], updates[n], last)]

LEMMA RunsExist ==
  ASSUME NEW v, NEW updates, NEW last, NEW m \in Nat
  PROVE  \E g : RunsTo(g, m, v, updates, last)
<1> DEFINE S == {n \in Nat : \E g : RunsTo(g, n, v, updates, last)}
<1>1. 0 \in S
  <2> DEFINE g == [n \in 0..0 |-> v]
  <2>1. RunsTo(g, 0, v, updates, last)
    BY DEF RunsTo
  <2> QED
    BY <2>1
<1>2. ASSUME NEW n \in Nat, n \in S PROVE n + 1 \in S
  <2>1. PICK g : RunsTo(g, n, v, updates, last)
    BY <1>2
  <2> DEFINE h == [k \in 0..(n + 1) |-> IF k = 0 THEN v
                                   ELSE IF k = n + 1 THEN Run(g[n], updates[n + 1], last) ELSE g[k]]
  <2>2. \A k \in 0..n : h[k] = g[k]
    BY <2>1 DEF RunsTo
  <2>3. RunsTo(h, n + 1, v, updates, last)
    <3> SUFFICES ASSUME NEW k \in 0..(n + 1)
                 PROVE  h[k] = IF k = 0 THEN v ELSE Run(h[k - 1], updates[k], last)
      BY DEF RunsTo
    <3>1. CASE k = 0
      BY <3>1
    <3>2. CASE k = n + 1
      BY <2>2, <3>2
    <3>3. CASE k \in 1..n
      <4>1. h[k] = g[k] /\ h[k - 1] = g[k - 1] /\ k - 1 \in 0..n
        BY <2>2, <3>3
      <4>2. g[k] = Run(g[k - 1], updates[k], last)
        BY <2>1, <3>3 DEF RunsTo
      <4> QED
        BY <3>3, <4>1, <4>2
    <3> QED
      BY <3>1, <3>2, <3>3
  <2> QED
    BY <2>3
<1> HIDE DEF S
<1>3. m \in S
  BY <1>1, <1>2, SetInduction
<1> QED
  BY <1>3 DEF S

LEMMA RunsIs ==
  ASSUME NEW v, NEW updates, NEW last, Len(updates) \in Nat
  PROVE  RunsTo(Runs(v, updates, last), Len(updates), v, updates, last)
<1>1. \E g : RunsTo(g, Len(updates), v, updates, last)
  BY RunsExist
<1> QED
  BY <1>1, Zenon DEF Runs, RunsTo

(* Runs over lists that agree agree. *)
LEMMA RunsAgree ==
  ASSUME NEW v, NEW last, NEW m \in Nat, NEW n \in Nat, m <= n, NEW few, NEW many,
         \A k \in 1..m : few[k] = many[k],
         NEW g, RunsTo(g, m, v, few, last), NEW h, RunsTo(h, n, v, many, last)
  PROVE  \A k \in 0..m : g[k] = h[k]
<1> DEFINE S == {k \in Nat : k <= m => g[k] = h[k]}
<1>1. 0 \in S
  BY DEF RunsTo
<1>2. ASSUME NEW k \in Nat, k \in S PROVE k + 1 \in S
  <2>1. CASE k + 1 <= m
    <3>0. k + 1 \in 0..m /\ k + 1 \in 0..n /\ k + 1 # 0 /\ (k + 1) - 1 = k
      BY <2>1
    <3>1. g[k + 1] = Run(g[k], few[k + 1], last) /\ h[k + 1] = Run(h[k], many[k + 1], last)
      BY <3>0 DEF RunsTo
    <3>2. g[k] = h[k] /\ few[k + 1] = many[k + 1]
      BY <1>2, <2>1
    <3> QED
      BY <3>1, <3>2
  <2>2. CASE ~(k + 1 <= m)
    BY <2>2
  <2> QED
    BY <2>1, <2>2
<1> HIDE DEF S
<1>3. \A k \in Nat : k \in S
  BY <1>1, <1>2, SetInduction
<1> QED
  BY <1>3 DEF S

LEMMA RunAllNone == ASSUME NEW v, NEW last PROVE RunAll(v, <<>>, last) = v
<1>1. Len(<<>>) = 0
  OBVIOUS
<1> QED
  BY <1>1, RunsIs DEF RunAll, RunsTo

LEMMA RunAllMore ==
  ASSUME NEW v, NEW last, NEW U, NEW updates \in Seq(U), NEW u \in U
  PROVE  RunAll(v, Append(updates, u), last) = Run(RunAll(v, updates, last), u, last)
<1> DEFINE more == Append(updates, u)
           n == Len(updates)
           g == Runs(v, updates, last)
           h == Runs(v, more, last)
<1>1. /\ n \in Nat /\ Len(more) = n + 1 /\ more[n + 1] = u
      /\ \A k \in 1..n : updates[k] = more[k]
  OBVIOUS
<1>2. RunsTo(g, n, v, updates, last) /\ RunsTo(h, n + 1, v, more, last)
  <2>1. Len(updates) \in Nat /\ Len(more) \in Nat
    BY <1>1
  <2>2. RunsTo(g, n, v, updates, last)
    BY <2>1, RunsIs
  <2>3. RunsTo(h, Len(more), v, more, last)
    <3> HIDE DEF more
    <3> QED
      BY <2>1, RunsIs
  <2> QED
    BY <1>1, <2>2, <2>3
<1>3. g[n] = h[n]
  <2> HIDE DEF g, h, more, n
  <2> QED
    BY <1>1, <1>2, RunsAgree
<1>4. h[n + 1] = Run(h[n], more[n + 1], last)
  <2> HIDE DEF g, h, more, n
  <2> QED
    BY <1>1, <1>2 DEF RunsTo
<1> QED
  BY <1>1, <1>3, <1>4 DEF RunAll

(***************************************************************************)
(* The same for the text of a transcript.                                  *)
(***************************************************************************)
TextsTo(g, m, list) == g = [n \in 0..m |-> IF n = 0 THEN <<>> ELSE Said(g[n - 1], list[n])]

LEMMA TextsExist ==
  ASSUME NEW list, NEW m \in Nat
  PROVE  \E g : TextsTo(g, m, list)
<1> DEFINE S == {n \in Nat : \E g : TextsTo(g, n, list)}
<1>1. 0 \in S
  <2> DEFINE g == [n \in 0..0 |-> <<>>]
  <2>1. TextsTo(g, 0, list)
    BY DEF TextsTo
  <2> QED
    BY <2>1
<1>2. ASSUME NEW n \in Nat, n \in S PROVE n + 1 \in S
  <2>1. PICK g : TextsTo(g, n, list)
    BY <1>2
  <2> DEFINE h == [k \in 0..(n + 1) |-> IF k = 0 THEN <<>>
                                   ELSE IF k = n + 1 THEN Said(g[n], list[n + 1]) ELSE g[k]]
  <2>2. \A k \in 0..n : h[k] = g[k]
    BY <2>1 DEF TextsTo
  <2>3. TextsTo(h, n + 1, list)
    <3> SUFFICES ASSUME NEW k \in 0..(n + 1)
                 PROVE  h[k] = IF k = 0 THEN <<>> ELSE Said(h[k - 1], list[k])
      BY DEF TextsTo
    <3>1. CASE k = 0
      BY <3>1
    <3>2. CASE k = n + 1
      BY <2>2, <3>2
    <3>3. CASE k \in 1..n
      <4>1. h[k] = g[k] /\ h[k - 1] = g[k - 1] /\ k - 1 \in 0..n
        BY <2>2, <3>3
      <4>2. g[k] = Said(g[k - 1], list[k])
        BY <2>1, <3>3 DEF TextsTo
      <4> QED
        BY <3>3, <4>1, <4>2
    <3> QED
      BY <3>1, <3>2, <3>3
  <2> QED
    BY <2>3
<1> HIDE DEF S
<1>3. m \in S
  BY <1>1, <1>2, SetInduction
<1> QED
  BY <1>3 DEF S

LEMMA TextsAre ==
  ASSUME NEW list, Len(list) \in Nat
  PROVE  TextsTo(Texts(list), Len(list), list)
<1>1. \E g : TextsTo(g, Len(list), list)
  BY TextsExist
<1> QED
  BY <1>1, Zenon DEF Texts, TextsTo

LEMMA TextsAgree ==
  ASSUME NEW m \in Nat, NEW n \in Nat, m <= n, NEW few, NEW many,
         \A k \in 1..m : few[k] = many[k],
         NEW g, TextsTo(g, m, few), NEW h, TextsTo(h, n, many)
  PROVE  \A k \in 0..m : g[k] = h[k]
<1> DEFINE S == {k \in Nat : k <= m => g[k] = h[k]}
<1>1. 0 \in S
  BY DEF TextsTo
<1>2. ASSUME NEW k \in Nat, k \in S PROVE k + 1 \in S
  <2>1. CASE k + 1 <= m
    <3>0. k + 1 \in 0..m /\ k + 1 \in 0..n /\ k + 1 # 0 /\ (k + 1) - 1 = k
      BY <2>1
    <3>1. g[k + 1] = Said(g[k], few[k + 1]) /\ h[k + 1] = Said(h[k], many[k + 1])
      BY <3>0 DEF TextsTo
    <3>2. g[k] = h[k] /\ few[k + 1] = many[k + 1]
      BY <1>2, <2>1
    <3> QED
      BY <3>1, <3>2
  <2>2. CASE ~(k + 1 <= m)
    BY <2>2
  <2> QED
    BY <2>1, <2>2
<1> HIDE DEF S
<1>3. \A k \in Nat : k \in S
  BY <1>1, <1>2, SetInduction
<1> QED
  BY <1>3 DEF S

LEMMA TranscriptNone == Transcript(<<>>) = <<>>
<1>1. Len(<<>>) = 0
  OBVIOUS
<1> QED
  BY <1>1, TextsAre DEF Transcript, TextsTo

LEMMA TranscriptMore ==
  ASSUME NEW Items, NEW list \in Seq(Items), NEW item \in Items
  PROVE  Transcript(Append(list, item)) = Said(Transcript(list), item)
<1> DEFINE more == Append(list, item)
           n == Len(list)
           g == Texts(list)
           h == Texts(more)
<1>1. /\ n \in Nat /\ Len(more) = n + 1 /\ more[n + 1] = item
      /\ \A k \in 1..n : list[k] = more[k]
  OBVIOUS
<1>2. TextsTo(g, n, list) /\ TextsTo(h, n + 1, more)
  <2>1. Len(list) \in Nat /\ Len(more) \in Nat
    BY <1>1
  <2>2. TextsTo(g, n, list)
    BY <2>1, TextsAre
  <2>3. TextsTo(h, Len(more), more)
    <3> HIDE DEF more
    <3> QED
      BY <2>1, TextsAre
  <2> QED
    BY <1>1, <2>2, <2>3
<1>3. g[n] = h[n]
  <2> HIDE DEF g, h, more, n
  <2> QED
    BY <1>1, <1>2, TextsAgree
<1>4. h[n + 1] = Said(h[n], more[n + 1])
  <2> HIDE DEF g, h, more, n
  <2> QED
    BY <1>1, <1>2 DEF TextsTo
<1> QED
  BY <1>1, <1>3, <1>4 DEF Transcript
(***************************************************************************)
(* The inductive invariant.  What the variables hold; what becomes of a    *)
(* socket; and the ref, which is null or the last bubble of the list.      *)
(***************************************************************************)
Phases == {"down", "idle", "turn"}
States == {"new", "connecting", "open", "closing", "closed"}
Wires(n) == [type : {"message", "token", "done", "error"}, of : 1..n] \cup {Close}
Updates(n) == [kind : {"token", "error", "user"}, of : 1..n, target : Targets \cup {None}]
Bubbles(n) == [kind : {"assistant"}, text : Seq(1..n) \ {<<>>}]
Notes(n) == [kind : {"user", "divider", "error"}, of : 1..n, target : Targets \cup {None}]
Items(n) == Bubbles(n) \cup Notes(n)

FramesTyped ==
  /\ phase \in [Connections -> Phases] /\ answered \in [Connections -> Nat]
  /\ forwarded \in [Connections -> Nat]
WiresTyped ==
  /\ sent \in Nat
  /\ inbox \in [Connections -> Seq(Wires(sent))]
  /\ outbox \in [Connections -> Seq(Wires(sent))]
TurnsTyped ==
  /\ inTurn \in [Connections -> 0..sent]
  /\ \A k \in Connections : phase[k] = "turn" => inTurn[k] # 0
HookTyped ==
  /\ ready \in [Connections -> States] /\ socket \in Connections \cup {0}
  /\ status \in {"connecting", "open", "closed"} /\ isWaiting \in BOOLEAN /\ late \in BOOLEAN
ViewTyped ==
  /\ items \in Seq(Items(sent)) /\ pending \in Seq(Updates(sent))
  /\ assistant \in Nat /\ lastTarget \in Targets \cup {None}
HistoryTyped ==
  delivered \in Seq(1..sent) /\ slipped \subseteq 1..sent /\ deferred \subseteq 1..sent
Typed ==
  FramesTyped /\ WiresTyped /\ TurnsTyped /\ HookTyped /\ ViewTyped /\ HistoryTyped

Empty == items = <<>> /\ pending = <<>> /\ delivered = <<>>

Lifecycle ==
  /\ \A k \in Connections : ready[k] \in {"connecting", "open"} => k = socket
  /\ \A k \in Connections : ready[k] \in {"new", "connecting"} =>
       phase[k] = "down" /\ inbox[k] = <<>> /\ outbox[k] = <<>>
  /\ socket = 0 => Empty
  /\ socket # 0 /\ ready[socket] = "connecting" => Empty /\ assistant = 0
  /\ socket # 0 => ready[socket] # "new"

IsBubble(list, i) == list[i].kind = "assistant"
RefTo(list, ref) ==
  ref # 0 => /\ ref \in DOMAIN list /\ IsBubble(list, ref)
             /\ \A i \in DOMAIN list : ref < i => ~IsBubble(list, i)
Ref == socket # 0 => RefTo(items, assistant)

Shown == RunAll(View(assistant), pending, lastTarget)
Complete == socket # 0 => delivered = Transcript(Shown.items)

(* Of the dividers: a message whose update is pending is the last one. *)
NoMessage(updates) == \A i \in DOMAIN updates : updates[i].kind # "user"
LastIs(list, target) ==
  \/ target = None /\ \A i \in DOMAIN list : ~IsUser(list, i)
  \/ target # None /\ \E i \in DOMAIN list : Precedes(list, i, Len(list) + 1)
                                             /\ list[i].target = target
LastMessage ==
  /\ socket # 0 /\ NoMessage(pending) => LastIs(items, lastTarget)
  /\ \A i \in DOMAIN pending : pending[i].kind = "user" =>
       /\ pending[i].of \in deferred /\ pending[i].target = lastTarget
       /\ lastTarget # None
       /\ \A j \in DOMAIN pending : j # i => pending[j].kind # "user"
  /\ ~AfterDivider(items, Len(items) + 1)

(* Of the bubbles. *)
Whole(list, S) ==
  \A i \in DOMAIN list : IsBubble(list, i) =>
    \A b \in DOMAIN list[i].text : \A a \in 1..(b - 1) :
      list[i].text[a] \in {list[i].text[b]} \cup S
InBubble(v, x) ==
  v.assistant # 0 /\ x \in {v.items[v.assistant].text[a] : a \in DOMAIN v.items[v.assistant].text}
IsToken(i) == pending[i].kind = "token"
Adds(x, updates) == \E i \in DOMAIN updates : updates[i].kind = "token" /\ updates[i].of = x
Awaits(x) == Adds(x, pending)
Unmixed ==
  socket # 0 =>
    /\ Whole(items, slipped)
    /\ \A j \in DOMAIN pending : \A i \in 1..(j - 1) :
         IsToken(i) /\ IsToken(j) => pending[i].of \in {pending[j].of} \cup slipped
    /\ \A x \in 1..sent : \A j \in DOMAIN pending :
         InBubble(View(assistant), x) /\ IsToken(j) => x \in {pending[j].of} \cup slipped

Going == {x \in {inTurn[socket]} : phase[socket] = "turn" /\ answered[socket] = 0}
Streams(frames, i, j) == \A n \in i..j : frames[n].type = "token"
Ends(x, frames, i, S, G) ==
  /\ \A j \in i..Len(frames) : Streams(frames, i, j - 1) /\ frames[j] # Close =>
       x \in {frames[j].of} \cup S
  /\ Streams(frames, i, Len(frames)) => x \in S \cup G
IsOpen(x) == InBubble(View(assistant), x) \/ Awaits(x)
Answering ==
  socket # 0 /\ ready[socket] = "open" =>
    /\ \A x \in 1..sent : IsOpen(x) => Ends(x, outbox[socket], 1, slipped, Going)
    /\ \A i \in DOMAIN outbox[socket] : outbox[socket][i].type = "token" =>
         Ends(outbox[socket][i].of, outbox[socket], i + 1, slipped, Going)

HookInv == /\ Typed /\ Lifecycle /\ Ref /\ StatusTrue /\ Complete
           /\ LastMessage /\ DividersTrue /\ Unmixed /\ Answering


-----------------------------------------------------------------------------
(***************************************************************************)
(* What one update does to a view whose ref is good.                       *)
(***************************************************************************)
Views(n) == [items : Seq(Items(n)), assistant : Nat]
Good(v, n) == v \in Views(n) /\ RefTo(v.items, v.assistant)

Grows(v, u) ==
  [items |-> [v.items EXCEPT ![v.assistant] = Longer(@, u.of)], assistant |-> v.assistant]
Starts(v, u) == [items |-> Append(v.items, Bubble(u.of)), assistant |-> Len(v.items) + 1]
Appends(v, u) == [items |-> Append(v.items, u), assistant |-> v.assistant]
Divides(v, u) ==
  [items |-> Append(Append(v.items, Divider(u.of, u.target)), u), assistant |-> v.assistant]

LEMMA RunCases ==
  ASSUME NEW n \in Nat, NEW v, Good(v, n), NEW u \in Updates(n), NEW last
  PROVE  \/ u.kind = "token" /\ v.assistant # 0 /\ Run(v, u, last) = Grows(v, u)
         \/ u.kind = "token" /\ v.assistant = 0 /\ Run(v, u, last) = Starts(v, u)
         \/ /\ u.kind # "token" /\ (u.kind = "user" => last \in {None, u.target})
            /\ Run(v, u, last) = Appends(v, u)
         \/ u.kind = "user" /\ last \notin {None, u.target} /\ Run(v, u, last) = Divides(v, u)
<1>1. v.items \in Seq(Items(n)) /\ v.assistant \in Nat
      /\ v = [items |-> v.items, assistant |-> v.assistant]
  BY DEF Good, Views
<1>2. u.kind \in {"token", "error", "user"}
  BY DEF Updates
<1>3. CASE u.kind = "token" /\ v.assistant # 0
  <2>1. Run(v, u, last) = [v EXCEPT !.items[v.assistant] = Longer(@, u.of)]
    BY <1>3 DEF Run
  <2>2. ASSUME NEW list, NEW a, v = [items |-> list, assistant |-> a]
        PROVE  [v EXCEPT !.items[a] = Longer(@, u.of)]
                 = [items |-> [list EXCEPT ![a] = Longer(@, u.of)], assistant |-> a]
    BY <2>2
  <2>3. Run(v, u, last) = Grows(v, u)
    BY <1>1, <2>1, <2>2 DEF Grows
  <2> QED
    BY <1>3, <2>3
<1>4. CASE u.kind = "token" /\ v.assistant = 0
  BY <1>4 DEF Run, Starts
<1>5. CASE u.kind = "error"
  BY <1>1, <1>5 DEF Run, Appends
<1>6. CASE u.kind = "user" /\ last \in {None, u.target}
  <2>1. v.items \o <<>> \o <<u>> = Append(v.items, u)
    BY <1>1
  <2>2. Run(v, u, last) = [v EXCEPT !.items = @ \o <<>> \o <<u>>]
    BY <1>6 DEF Run
  <2> QED
    BY <1>1, <1>6, <2>1, <2>2 DEF Appends
<1>7. CASE u.kind = "user" /\ last \notin {None, u.target}
  <2> DEFINE d == Divider(u.of, u.target)
  <2>1. v.items \o <<d>> \o <<u>> = Append(Append(v.items, d), u)
    BY <1>1
  <2>2. Run(v, u, last) = [v EXCEPT !.items = @ \o <<d>> \o <<u>>]
    BY <1>7 DEF Run
  <2> QED
    BY <1>1, <1>7, <2>1, <2>2 DEF Divides
<1> QED
  BY <1>2, <1>3, <1>4, <1>5, <1>6, <1>7

LEMMA UpdateKinds ==
  ASSUME NEW n \in Nat, NEW u \in Updates(n)
  PROVE  /\ u.kind # "token" => u \in Notes(n) /\ u \in Items(n)
         /\ Divider(u.of, u.target) \in Notes(n) /\ Divider(u.of, u.target) \in Items(n)
         /\ Bubble(u.of) \in Bubbles(n) /\ Bubble(u.of) \in Items(n)
         /\ Divider(u.of, u.target).kind = "divider" /\ Bubble(u.of).kind = "assistant"
<1>1. u.of \in 1..n /\ u.target \in Targets \cup {None} /\ u.kind \in {"token", "error", "user"}
  BY DEF Updates
<1>2. <<u.of>> \in Seq(1..n) \ {<<>>}
  BY <1>1
<1>3. u.kind # "token" => u \in Notes(n)
  BY <1>1 DEF Updates, Notes
<1> QED
  BY <1>1, <1>2, <1>3 DEF Items, Notes, Bubbles, Divider, Update, Bubble

LEMMA LongerTyped ==
  ASSUME NEW n \in Nat, NEW item \in Items(n), item.kind = "assistant", NEW m \in 1..n
  PROVE  /\ item.text \in Seq(1..n) \ {<<>>}
         /\ Longer(item, m) \in Bubbles(n) /\ Longer(item, m) \in Items(n)
         /\ Longer(item, m).text = Append(item.text, m) /\ Longer(item, m).kind = "assistant"
<1>1. item \in Bubbles(n)
  BY DEF Items, Notes
<1>2. PICK text \in Seq(1..n) \ {<<>>} : item = [kind |-> "assistant", text |-> text]
  BY <1>1 DEF Bubbles
<1>3. Append(text, m) \in Seq(1..n) \ {<<>>}
  BY <1>2
<1>4. ASSUME NEW t, NEW b, b = [kind |-> "assistant", text |-> t]
      PROVE  Longer(b, m) = [kind |-> "assistant", text |-> Append(t, m)] /\ b.text = t
  <2>1. \A x : [b EXCEPT !.text = x] = [kind |-> "assistant", text |-> x]
    BY <1>4
  <2>2. Longer(b, m) = [b EXCEPT !.text = Append(b.text, m)]
    BY DEF Longer
  <2>3. b.text = t
    BY <1>4
  <2>4. [b EXCEPT !.text = Append(b.text, m)] = [kind |-> "assistant", text |-> Append(b.text, m)]
    BY <2>1, Zenon
  <2> QED
    BY <2>2, <2>3, <2>4
<1>5. Longer(item, m) = [kind |-> "assistant", text |-> Append(text, m)] /\ item.text = text
  BY <1>2, <1>4
<1> DEFINE more == Append(text, m)
           b == [kind |-> "assistant", text |-> more]
<1>6. Longer(item, m) = b /\ b.text = more /\ b.kind = "assistant" /\ b \in Bubbles(n)
  BY <1>3, <1>5 DEF Bubbles
<1> HIDE DEF b
<1> QED
  BY <1>2, <1>5, <1>6 DEF Items

(* The ref stays good. *)
LEMMA RunGood ==
  ASSUME NEW n \in Nat, NEW v, Good(v, n), NEW u \in Updates(n), NEW last
  PROVE  Good(Run(v, u, last), n)
<1>1. v.items \in Seq(Items(n)) /\ v.assistant \in Nat /\ RefTo(v.items, v.assistant)
  BY DEF Good, Views
<1>2. u.of \in 1..n
  BY DEF Updates
<1>3. CASE v.assistant # 0 /\ Run(v, u, last) = Grows(v, u)
  <2> DEFINE a == v.assistant
             list == [v.items EXCEPT ![a] = Longer(@, u.of)]
  <2>1. a \in DOMAIN v.items /\ IsBubble(v.items, a)
    BY <1>1, <1>3 DEF RefTo
  <2>2. Longer(v.items[a], u.of) \in Items(n)
    BY <1>1, <1>2, <2>1, LongerTyped DEF IsBubble
  <2>3. list \in Seq(Items(n)) /\ DOMAIN list = DOMAIN v.items
    BY <1>1, <2>1, <2>2
  <2>4. \A i \in DOMAIN list : list[i] = IF i = a THEN Longer(v.items[a], u.of) ELSE v.items[i]
    BY <2>1, <2>3
  <2>5. RefTo(list, a)
    <3>0. Longer(v.items[a], u.of).kind = v.items[a].kind
      BY <1>1, <1>2, <2>1, LongerTyped DEF IsBubble
    <3>1. \A i \in DOMAIN list : list[i].kind = v.items[i].kind
      BY <2>1, <2>3, <2>4, <3>0
    <3> HIDE DEF list
    <3> QED
      BY <1>1, <1>3, <2>1, <2>3, <3>1 DEF RefTo, IsBubble
  <2> QED
    BY <1>1, <1>3, <2>3, <2>5 DEF Good, Views, Grows
<1>4. CASE Run(v, u, last) = Starts(v, u)
  <2>1. Append(v.items, Bubble(u.of)) \in Seq(Items(n))
    BY <1>1, UpdateKinds
  <2>2. RefTo(Append(v.items, Bubble(u.of)), Len(v.items) + 1)
    BY <1>1 DEF RefTo, IsBubble, Bubble
  <2> QED
    BY <1>1, <1>4, <2>1, <2>2 DEF Good, Views, Starts
<1>5. ASSUME NEW list \in Seq(Items(n)), RefTo(list, v.assistant),
             NEW item \in Items(n), item.kind # "assistant"
      PROVE  Append(list, item) \in Seq(Items(n)) /\ RefTo(Append(list, item), v.assistant)
  BY <1>1, <1>5 DEF RefTo, IsBubble
<1>6. CASE u.kind # "token" /\ Run(v, u, last) = Appends(v, u)
  <2>1. u \in Items(n) /\ u.kind # "assistant"
    BY <1>6, UpdateKinds DEF Updates
  <2> QED
    BY <1>1, <1>5, <1>6, <2>1 DEF Good, Views, Appends
<1>7. CASE u.kind = "user" /\ Run(v, u, last) = Divides(v, u)
  <2> DEFINE d == Divider(u.of, u.target)
  <2>1. u \in Items(n) /\ u.kind # "assistant" /\ d \in Items(n) /\ d.kind # "assistant"
    BY <1>7, UpdateKinds
  <2> HIDE DEF d
  <2>2. Append(v.items, d) \in Seq(Items(n)) /\ RefTo(Append(v.items, d), v.assistant)
    BY <1>1, <1>5, <2>1
  <2>3. /\ Append(Append(v.items, d), u) \in Seq(Items(n))
        /\ RefTo(Append(Append(v.items, d), u), v.assistant)
    BY <1>5, <2>1, <2>2
  <2> QED
    BY <1>1, <1>7, <2>3 DEF Good, Views, Divides, d
<1> QED
  BY <1>3, <1>4, <1>6, <1>7, RunCases

(***************************************************************************)
(* What one update does to the text of a transcript.                       *)
(***************************************************************************)
LEMMA SaidItem ==
  ASSUME NEW n \in Nat, NEW text \in Seq(1..n), NEW item \in Items(n)
  PROVE  /\ item.kind # "assistant" => Said(text, item) = text
         /\ item.kind = "assistant" => /\ item.text \in Seq(1..n)
                                       /\ Said(text, item) = text \o item.text
         /\ Said(text, item) \in Seq(1..n)
<1>1. item.kind = "assistant" => item.text \in Seq(1..n)
  BY DEF Items, Bubbles, Notes
<1>2. ASSUME NEW more \in Seq(1..n) PROVE text \o more \in Seq(1..n)
  OBVIOUS
<1> QED
  BY <1>1, <1>2 DEF Said

LEMMA SaidLonger ==
  ASSUME NEW n \in Nat, NEW text \in Seq(1..n), NEW more \in Seq(1..n), NEW m \in 1..n
  PROVE  text \o Append(more, m) = Append(text \o more, m)
OBVIOUS

LEMMA TranscriptTyped ==
  ASSUME NEW n \in Nat, NEW list \in Seq(Items(n))
  PROVE  Transcript(list) \in Seq(1..n)
<1> DEFINE g == Texts(list)
           m == Len(list)
           S == {k \in Nat : k <= m => g[k] \in Seq(1..n)}
<1>1. m \in Nat /\ \A k \in 1..m : list[k] \in Items(n)
  OBVIOUS
<1>2. TextsTo(g, m, list)
  BY <1>1, TextsAre
<1> HIDE DEF g, m
<1>3. 0 \in S
  BY <1>1, <1>2 DEF TextsTo
<1>4. ASSUME NEW k \in Nat, k \in S PROVE k + 1 \in S
  <2>1. CASE k + 1 <= m
    <3>1. g[k + 1] = Said(g[k], list[k + 1])
      BY <1>1, <1>2, <2>1 DEF TextsTo
    <3>2. g[k] \in Seq(1..n) /\ list[k + 1] \in Items(n)
      BY <1>1, <1>4, <2>1
    <3>3. Said(g[k], list[k + 1]) \in Seq(1..n)
      BY <3>2, SaidItem
    <3> QED
      BY <3>1, <3>3
  <2> QED
    BY <1>1, <2>1
<1> HIDE DEF S
<1>5. m \in S
  BY <1>1, <1>3, <1>4, SetInduction
<1> QED
  BY <1>1, <1>5 DEF S, Transcript, g, m

LEMMA TranscriptLonger ==
  ASSUME NEW n \in Nat, NEW list \in Seq(Items(n)), NEW a, a # 0, RefTo(list, a),
         NEW m \in 1..n, NEW more, Len(more) = Len(list), more[a] = Longer(list[a], m),
         \A k \in 1..Len(list) : k # a => more[k] = list[k]
  PROVE  Transcript(more) = Append(Transcript(list), m)
<1> DEFINE l == Len(list)
           g == Texts(list)
           h == Texts(more)
           S == {k \in Nat : /\ k < a => h[k] = g[k]
                             /\ a <= k /\ k <= l => h[k] = Append(g[k], m)
                             /\ k <= l => g[k] \in Seq(1..n)}
<1>1. l \in Nat /\ a \in 1..l /\ list[a].kind = "assistant"
      /\ \A k \in 1..l : list[k] \in Items(n) /\ (a < k => list[k].kind # "assistant")
  BY DEF RefTo, IsBubble
<1>2. Longer(list[a], m) \in Items(n) /\ list[a].text \in Seq(1..n)
      /\ Longer(list[a], m).text = Append(list[a].text, m)
      /\ Longer(list[a], m).kind = "assistant"
  BY <1>1, LongerTyped
<1>3. Len(more) = l /\ more[a] = Longer(list[a], m)
      /\ \A k \in 1..l : k # a => more[k] = list[k]
  BY <1>1
<1>4. TextsTo(g, l, list) /\ TextsTo(h, l, more)
  <2>1. TextsTo(g, l, list)
    BY <1>1, TextsAre
  <2>2. TextsTo(h, Len(more), more)
    BY <1>1, <1>3, TextsAre
  <2> QED
    BY <1>3, <2>1, <2>2
<1> HIDE DEF g, h, l
<1>5. 0 \in S
  BY <1>1, <1>4 DEF TextsTo
<1>6. ASSUME NEW k \in Nat, k \in S PROVE k + 1 \in S
  <2>1. CASE k + 1 <= l
    <3>0. k + 1 \in 0..l /\ k + 1 # 0 /\ (k + 1) - 1 = k
      BY <1>1, <2>1
    <3>1. g[k + 1] = Said(g[k], list[k + 1]) /\ h[k + 1] = Said(h[k], more[k + 1])
      BY <1>4, <3>0 DEF TextsTo
    <3>2. g[k] \in Seq(1..n) /\ list[k + 1] \in Items(n)
      BY <1>1, <1>6, <2>1
    <3>4. g[k + 1] \in Seq(1..n)
      BY <3>1, <3>2, SaidItem
    <3>5. CASE k + 1 < a
      <4>1. h[k] = g[k] /\ more[k + 1] = list[k + 1]
        BY <1>1, <1>3, <1>6, <2>1, <3>5
      <4>2. h[k + 1] = g[k + 1]
        BY <3>1, <4>1
      <4> QED
        BY <3>4, <3>5, <4>2, <1>1
    <3>6. CASE k + 1 = a
      <4>1. h[k] = g[k] /\ more[k + 1] = Longer(list[k + 1], m)
        BY <1>1, <1>3, <1>6, <2>1, <3>6
      <4> DEFINE text == list[k + 1].text
      <4>2. text \in Seq(1..n) /\ Longer(list[k + 1], m) \in Items(n)
            /\ Longer(list[k + 1], m).text = Append(text, m)
            /\ Longer(list[k + 1], m).kind = "assistant" /\ list[k + 1].kind = "assistant"
        BY <1>1, <1>2, <3>6
      <4>3. g[k + 1] = g[k] \o text
        BY <3>1, <3>2, <4>2, SaidItem
      <4>4. h[k + 1] = g[k] \o Append(text, m)
        <5>1. Said(g[k], Longer(list[k + 1], m)) = g[k] \o Longer(list[k + 1], m).text
          BY <3>2, <4>2, SaidItem, Zenon
        <5> QED
          BY <3>1, <4>1, <4>2, <5>1, Zenon
      <4>5. g[k] \o Append(text, m) = Append(g[k] \o text, m)
        BY <3>2, <4>2, SaidLonger
      <4>6. h[k + 1] = Append(g[k + 1], m)
        BY <4>3, <4>4, <4>5
      <4> QED
        BY <3>4, <3>6, <4>6
    <3>7. CASE a < k + 1
      <4>1. h[k] = Append(g[k], m) /\ more[k + 1] = list[k + 1]
            /\ list[k + 1].kind # "assistant"
        BY <1>1, <1>3, <1>6, <2>1, <3>7
      <4>2. g[k + 1] = g[k] /\ h[k + 1] = Append(g[k], m)
        BY <3>1, <4>1 DEF Said
      <4>3. k + 1 \in Nat /\ ~(k + 1 < a)
        BY <1>1, <3>7
      <4>4. h[k + 1] = Append(g[k + 1], m)
        BY <4>2, Zenon
      <4> QED
        BY <3>4, <4>3, <4>4, Zenon
    <3> QED
      BY <1>1, <3>5, <3>6, <3>7
  <2> QED
    BY <1>1, <2>1
<1> HIDE DEF S
<1>7. l \in S
  BY <1>1, <1>5, <1>6, SetInduction
<1>8. h[l] = Append(g[l], m)
  BY <1>1, <1>7 DEF S
<1> QED
  BY <1>3, <1>8 DEF Transcript, g, h, l

Heard(text, u) == IF u.kind = "token" THEN Append(text, u.of) ELSE text

LEMMA RunTranscript ==
  ASSUME NEW n \in Nat, NEW v, Good(v, n), NEW u \in Updates(n), NEW last
  PROVE  Transcript(Run(v, u, last).items) = Heard(Transcript(v.items), u)
<1>1. v.items \in Seq(Items(n)) /\ v.assistant \in Nat /\ RefTo(v.items, v.assistant)
  BY DEF Good, Views
<1>2. u.of \in 1..n
  BY DEF Updates
<1>3. Transcript(v.items) \in Seq(1..n)
  BY <1>1, TranscriptTyped
<1>4. CASE u.kind = "token" /\ v.assistant # 0 /\ Run(v, u, last) = Grows(v, u)
  <2>1. Transcript([v.items EXCEPT ![v.assistant] = Longer(@, u.of)])
          = Append(Transcript(v.items), u.of)
    <3> DEFINE a == v.assistant
               list == v.items
               m == u.of
               more == [list EXCEPT ![a] = Longer(@, m)]
    <3>1. list \in Seq(Items(n)) /\ a # 0 /\ RefTo(list, a) /\ m \in 1..n
      BY <1>1, <1>2, <1>4
    <3>2. Len(more) = Len(list) /\ more[a] = Longer(list[a], m)
          /\ \A k \in 1..Len(list) : k # a => more[k] = list[k]
      BY <3>1 DEF RefTo, IsBubble
    <3> HIDE DEF a, list, m, more
    <3>3. Transcript(more) = Append(Transcript(list), m)
      BY <3>1, <3>2, TranscriptLonger
    <3> QED
      BY <3>3 DEF a, list, m, more
  <2> QED
    BY <1>4, <2>1 DEF Grows, Heard
<1>5. CASE u.kind = "token" /\ Run(v, u, last) = Starts(v, u)
  <2>1. Transcript(Append(v.items, Bubble(u.of))) = Said(Transcript(v.items), Bubble(u.of))
    BY <1>1, UpdateKinds, TranscriptMore
  <2>2. Said(Transcript(v.items), Bubble(u.of)) = Append(Transcript(v.items), u.of)
    BY <1>2, <1>3 DEF Said, Bubble
  <2> QED
    BY <1>5, <2>1, <2>2 DEF Starts, Heard
<1>6. ASSUME NEW list \in Seq(Items(n)), NEW item \in Items(n), item.kind # "assistant"
      PROVE  Transcript(Append(list, item)) = Transcript(list)
  BY <1>6, TranscriptMore DEF Said
<1>7. CASE u.kind # "token" /\ Run(v, u, last) = Appends(v, u)
  <2>1. u \in Items(n) /\ u.kind # "assistant"
    BY <1>7, UpdateKinds DEF Updates
  <2> QED
    BY <1>1, <1>6, <1>7, <2>1 DEF Appends, Heard
<1>8. CASE u.kind = "user" /\ Run(v, u, last) = Divides(v, u)
  <2> DEFINE d == Divider(u.of, u.target)
  <2>1. u \in Items(n) /\ u.kind # "assistant" /\ d \in Items(n) /\ d.kind # "assistant"
    BY <1>8, UpdateKinds
  <2> HIDE DEF d
  <2>2. Append(v.items, d) \in Seq(Items(n))
    BY <1>1, <2>1
  <2>3. Transcript(Append(v.items, d)) = Transcript(v.items)
    BY <1>1, <1>6, <2>1
  <2>4. Transcript(Append(Append(v.items, d), u)) = Transcript(v.items)
    BY <1>6, <2>1, <2>2, <2>3
  <2> QED
    BY <1>8, <2>4 DEF Divides, Heard, d
<1> QED
  BY <1>4, <1>5, <1>7, <1>8, RunCases

(***************************************************************************)
(* What all the pending updates do.                                        *)
(***************************************************************************)
LEMMA RunsGood ==
  ASSUME NEW n \in Nat, NEW v, Good(v, n), NEW updates \in Seq(Updates(n)), NEW last
  PROVE  /\ RunsTo(Runs(v, updates, last), Len(updates), v, updates, last)
         /\ \A k \in 0..Len(updates) : Good(Runs(v, updates, last)[k], n)
         /\ Good(RunAll(v, updates, last), n)
<1> DEFINE g == Runs(v, updates, last)
           m == Len(updates)
           S == {k \in Nat : k <= m => Good(g[k], n)}
<1>1. m \in Nat /\ \A k \in 1..m : updates[k] \in Updates(n)
  OBVIOUS
<1>2. RunsTo(g, m, v, updates, last)
  BY <1>1, RunsIs
<1> HIDE DEF g, m
<1>3. 0 \in S
  BY <1>1, <1>2 DEF RunsTo
<1>4. ASSUME NEW k \in Nat, k \in S PROVE k + 1 \in S
  <2>1. CASE k + 1 <= m
    <3>1. g[k + 1] = Run(g[k], updates[k + 1], last)
      BY <1>1, <1>2, <2>1 DEF RunsTo
    <3>2. Good(g[k], n) /\ updates[k + 1] \in Updates(n)
      BY <1>1, <1>4, <2>1
    <3> QED
      BY <3>1, <3>2, RunGood
  <2> QED
    BY <1>1, <2>1
<1> HIDE DEF S
<1>5. \A k \in Nat : k \in S
  BY <1>3, <1>4, SetInduction
<1>6. \A k \in 0..m : Good(g[k], n)
  BY <1>1, <1>5 DEF S
<1>7. Good(g[m], n)
  BY <1>1, <1>6
<1> QED
  BY <1>2, <1>6, <1>7 DEF RunAll, g, m

(* The text does not depend on the ref, nor on the target. *)
LEMMA RunAllTranscript ==
  ASSUME NEW n \in Nat, NEW v, Good(v, n), NEW w, Good(w, n),
         Transcript(v.items) = Transcript(w.items),
         NEW updates \in Seq(Updates(n)), NEW last, NEW target
  PROVE  Transcript(RunAll(v, updates, last).items) = Transcript(RunAll(w, updates, target).items)
<1> DEFINE g == Runs(v, updates, last)
           h == Runs(w, updates, target)
           m == Len(updates)
           S == {k \in Nat : k <= m => Transcript(g[k].items) = Transcript(h[k].items)}
<1>1. m \in Nat /\ \A k \in 1..m : updates[k] \in Updates(n)
  OBVIOUS
<1>2. /\ RunsTo(g, m, v, updates, last) /\ RunsTo(h, m, w, updates, target)
      /\ \A k \in 0..m : Good(g[k], n) /\ Good(h[k], n)
  BY <1>1, RunsGood
<1> HIDE DEF g, h, m
<1>3. 0 \in S
  BY <1>1, <1>2 DEF RunsTo
<1>4. ASSUME NEW k \in Nat, k \in S PROVE k + 1 \in S
  <2>1. CASE k + 1 <= m
    <3>1. /\ g[k + 1] = Run(g[k], updates[k + 1], last)
          /\ h[k + 1] = Run(h[k], updates[k + 1], target)
      BY <1>1, <1>2, <2>1 DEF RunsTo
    <3>2. Good(g[k], n) /\ Good(h[k], n) /\ updates[k + 1] \in Updates(n)
      BY <1>1, <1>2, <2>1
    <3>3. Transcript(g[k + 1].items) = Heard(Transcript(g[k].items), updates[k + 1])
      BY <3>1, <3>2, RunTranscript
    <3>4. Transcript(h[k + 1].items) = Heard(Transcript(h[k].items), updates[k + 1])
      BY <3>1, <3>2, RunTranscript
    <3> QED
      BY <1>1, <1>4, <2>1, <3>3, <3>4
  <2> QED
    BY <1>1, <2>1
<1> HIDE DEF S
<1>5. m \in S
  BY <1>1, <1>3, <1>4, SetInduction
<1>6. Transcript(g[m].items) = Transcript(h[m].items)
  BY <1>1, <1>5 DEF S
<1> QED
  BY <1>6 DEF RunAll, g, h, m

(***************************************************************************)
(* Dividers: what stands at j depends on the messages and dividers up to   *)
(* j; a list that grows by anything but a message stays divided; and a     *)
(* message changes the target if it is not the last message's.             *)
(***************************************************************************)
LEMMA Alike ==
  ASSUME NEW m \in Nat, NEW one, NEW two,
         \A i \in 1..m : /\ two[i].kind = one[i].kind
                         /\ one[i].kind = "user" => two[i] = one[i]
  PROVE  \A j \in 1..m : /\ IsUser(two, j) <=> IsUser(one, j)
                         /\ AfterDivider(two, j) <=> AfterDivider(one, j)
                         /\ IsUser(one, j) => (Changes(two, j) <=> Changes(one, j))
<1>1. \A j \in 1..m : (IsUser(two, j) <=> IsUser(one, j))
                      /\ (AfterDivider(two, j) <=> AfterDivider(one, j))
  BY DEF IsUser, AfterDivider
<1>2. ASSUME NEW j \in 1..m, NEW i \in 1..(j - 1)
      PROVE  Precedes(two, i, j) <=> Precedes(one, i, j)
  <2>1. \A k \in (i + 1)..(j - 1) : k \in 1..m
    OBVIOUS
  <2> QED
    BY <1>1, <2>1 DEF Precedes
<1>3. ASSUME NEW j \in 1..m, IsUser(one, j)
      PROVE  Changes(two, j) <=> Changes(one, j)
  <2>1. two[j] = one[j]
    BY <1>3 DEF IsUser
  <2>2. \A i \in 1..(j - 1) : Precedes(one, i, j) => two[i] = one[i]
    BY DEF Precedes, IsUser
  <2> QED
    BY <1>2, <2>1, <2>2 DEF Changes
<1> QED
  BY <1>1, <1>3

LEMMA AlikeDivided ==
  ASSUME NEW n \in Nat, NEW one \in Seq(Items(n)), NEW two \in Seq(Items(n)),
         Len(two) = Len(one), NEW putOff,
         \A i \in 1..Len(one) : /\ two[i].kind = one[i].kind
                                /\ one[i].kind = "user" => two[i] = one[i]
  PROVE  /\ Divided(one, putOff) => Divided(two, putOff)
         /\ \A target : LastIs(one, target) => LastIs(two, target)
         /\ AfterDivider(two, Len(two) + 1) => AfterDivider(one, Len(one) + 1)
<1> DEFINE m == Len(one)
<1>1. m \in Nat /\ DOMAIN one = 1..m /\ DOMAIN two = 1..m /\ Len(two) = m
  OBVIOUS
<1>2. \A i \in 1..m : two[i].kind = one[i].kind /\ (one[i].kind = "user" => two[i] = one[i])
  OBVIOUS
<1> HIDE DEF m
<1>3. \A j \in 1..m : /\ IsUser(two, j) <=> IsUser(one, j)
                      /\ AfterDivider(two, j) <=> AfterDivider(one, j)
                      /\ IsUser(one, j) => (Changes(two, j) <=> Changes(one, j))
  BY <1>1, <1>2, Alike
<1>4. Divided(one, putOff) => Divided(two, putOff)
  BY <1>1, <1>2, <1>3 DEF Divided, IsUser
<1>5. ASSUME NEW i \in 1..m PROVE Precedes(one, i, m + 1) => Precedes(two, i, m + 1)
  <2>1. \A k \in (i + 1)..((m + 1) - 1) : k \in 1..m
    BY <1>1
  <2> QED
    BY <1>3, <2>1 DEF Precedes
<1>6. \A target : LastIs(one, target) => LastIs(two, target)
  <2>1. \A i \in 1..m : Precedes(one, i, m + 1) => two[i] = one[i]
    BY <1>2 DEF Precedes, IsUser
  <2> QED
    BY <1>1, <1>3, <1>5, <2>1 DEF LastIs, m
<1>7. AfterDivider(two, m + 1) => AfterDivider(one, m + 1)
  BY <1>1, <1>2 DEF AfterDivider
<1> QED
  BY <1>1, <1>4, <1>6, <1>7 DEF m

LEMMA ItemDivided ==
  ASSUME NEW n \in Nat, NEW list \in Seq(Items(n)), NEW item \in Items(n),
         item.kind # "user", NEW putOff
  PROVE  /\ Divided(list, putOff) => Divided(Append(list, item), putOff)
         /\ \A target : LastIs(list, target) => LastIs(Append(list, item), target)
         /\ AfterDivider(Append(list, item), Len(list) + 2) <=> item.kind = "divider"
<1> DEFINE m == Len(list)
           more == Append(list, item)
<1>1. m \in Nat /\ DOMAIN list = 1..m /\ DOMAIN more = 1..(m + 1) /\ Len(more) = m + 1
      /\ more[m + 1] = item /\ \A i \in 1..m : more[i] = list[i]
  OBVIOUS
<1> HIDE DEF m, more
<1>2. \A j \in 1..m : /\ IsUser(more, j) <=> IsUser(list, j)
                      /\ AfterDivider(more, j) <=> AfterDivider(list, j)
                      /\ IsUser(list, j) => (Changes(more, j) <=> Changes(list, j))
  BY <1>1, Alike
<1>3. ~IsUser(more, m + 1)
  BY <1>1 DEF IsUser
<1>4. Divided(list, putOff) => Divided(more, putOff)
  BY <1>1, <1>2, <1>3 DEF Divided
<1>5. ASSUME NEW i \in 1..m, Precedes(list, i, m + 1) PROVE Precedes(more, i, (m + 1) + 1)
  <2>1. \A k \in (i + 1)..(((m + 1) + 1) - 1) : k = m + 1 \/ k \in (i + 1)..((m + 1) - 1)
    BY <1>1
  <2>2. \A k \in (i + 1)..((m + 1) - 1) : k \in 1..m
    BY <1>1
  <2> QED
    BY <1>2, <1>3, <1>5, <2>1, <2>2 DEF Precedes
<1>6. \A target : LastIs(list, target) => LastIs(more, target)
  BY <1>1, <1>2, <1>3, <1>5 DEF LastIs, m
<1>7. AfterDivider(more, m + 2) <=> item.kind = "divider"
  BY <1>1 DEF AfterDivider
<1> QED
  BY <1>4, <1>6, <1>7 DEF m, more

LEMMA ChangesIf ==
  ASSUME NEW n \in Nat, NEW list \in Seq(Items(n)), NEW u \in Items(n), u.kind = "user",
         NEW last, LastIs(list, last)
  PROVE  Changes(Append(list, u), Len(list) + 1) <=> last \notin {None, u.target}
<1> DEFINE m == Len(list)
           more == Append(list, u)
<1>1. m \in Nat /\ DOMAIN list = 1..m /\ DOMAIN more = 1..(m + 1)
      /\ more[m + 1] = u /\ \A i \in 1..m : more[i] = list[i]
  OBVIOUS
<1>2. 1..((m + 1) - 1) = 1..m
  BY <1>1
<1> HIDE DEF m, more
<1>3. ASSUME NEW i \in 1..m
      PROVE  /\ IsUser(more, i) <=> IsUser(list, i)
             /\ Precedes(more, i, m + 1) <=> Precedes(list, i, m + 1)
  <2>1. \A k \in (i + 1)..((m + 1) - 1) : k \in 1..m
    BY <1>1
  <2> QED
    BY <1>1, <2>1 DEF Precedes, IsUser
<1>4. CASE last = None
  <2>1. \A i \in 1..m : ~IsUser(list, i)
    BY <1>1, <1>4 DEF LastIs
  <2>2. ~Changes(more, m + 1)
    BY <1>2, <1>3, <2>1 DEF Changes, Precedes
  <2> QED
    BY <1>4, <2>2 DEF m, more
<1>5. CASE last # None
  <2>1. PICK i \in 1..m : Precedes(list, i, m + 1) /\ list[i].target = last
    BY <1>1, <1>5 DEF LastIs, m
  <2>2. ASSUME NEW k \in 1..m, Precedes(list, k, m + 1) PROVE k = i
    BY <1>1, <2>1, <2>2 DEF Precedes
  <2>3. Changes(more, m + 1) <=> list[i].target # u.target
    BY <1>1, <1>2, <1>3, <2>1, <2>2 DEF Changes
  <2> QED
    BY <1>5, <2>1, <2>3 DEF m, more
<1> QED
  BY <1>4, <1>5

LEMMA MessageDivided ==
  ASSUME NEW n \in Nat, NEW list \in Seq(Items(n)), NEW u \in Items(n), u.kind = "user",
         u.target # None, NEW putOff, Divided(list, putOff),
         AfterDivider(list, Len(list) + 1) => Changes(Append(list, u), Len(list) + 1),
         Changes(Append(list, u), Len(list) + 1) /\ u.of \notin putOff
           => AfterDivider(list, Len(list) + 1)
  PROVE  /\ Divided(Append(list, u), putOff)
         /\ LastIs(Append(list, u), u.target)
         /\ ~AfterDivider(Append(list, u), Len(list) + 2)
<1> DEFINE m == Len(list)
           more == Append(list, u)
<1>1. m \in Nat /\ DOMAIN list = 1..m /\ DOMAIN more = 1..(m + 1) /\ Len(more) = m + 1
      /\ more[m + 1] = u /\ \A i \in 1..m : more[i] = list[i]
  OBVIOUS
<1>2. /\ AfterDivider(list, m + 1) => Changes(more, m + 1)
      /\ Changes(more, m + 1) /\ u.of \notin putOff => AfterDivider(list, m + 1)
  OBVIOUS
<1> HIDE DEF m, more
<1>3. \A j \in 1..m : /\ IsUser(more, j) <=> IsUser(list, j)
                      /\ AfterDivider(more, j) <=> AfterDivider(list, j)
                      /\ IsUser(list, j) => (Changes(more, j) <=> Changes(list, j))
  BY <1>1, Alike
<1>4. AfterDivider(more, m + 1) <=> AfterDivider(list, m + 1)
  BY <1>1 DEF AfterDivider
<1>5. Divided(more, putOff)
  <2> SUFFICES ASSUME NEW j \in 1..(m + 1), IsUser(more, j)
               PROVE  /\ AfterDivider(more, j) => Changes(more, j)
                      /\ Changes(more, j) /\ more[j].of \notin putOff => AfterDivider(more, j)
    BY <1>1 DEF Divided
  <2>1. CASE j = m + 1
    BY <1>1, <1>2, <1>4, <2>1
  <2>2. CASE j # m + 1
    <3>1. j \in 1..m
      BY <1>1, <2>2
    <3> QED
      BY <1>1, <1>3, <3>1 DEF Divided
  <2> QED
    BY <2>1, <2>2
<1>6. Precedes(more, m + 1, (m + 1) + 1)
  BY <1>1 DEF Precedes, IsUser
<1>7. LastIs(more, u.target)
  <2>1. m + 1 \in DOMAIN more /\ more[m + 1].target = u.target
    BY <1>1
  <2> QED
    BY <1>1, <1>6, <2>1 DEF LastIs
<1>8. ~AfterDivider(more, m + 2)
  BY <1>1 DEF AfterDivider
<1> QED
  BY <1>5, <1>7, <1>8 DEF m, more

(* One update, of any kind; a message is put off, or follows the target. *)
LEMMA RunDivided ==
  ASSUME NEW n \in Nat, NEW v, Good(v, n), NEW u \in Updates(n), NEW last, NEW putOff,
         Divided(v.items, putOff), ~AfterDivider(v.items, Len(v.items) + 1),
         u.kind = "user" => /\ u.target # None
                            /\ \/ last = u.target /\ u.of \in putOff
                               \/ LastIs(v.items, last)
  PROVE  LET list == Run(v, u, last).items
         IN  /\ Divided(list, putOff) /\ ~AfterDivider(list, Len(list) + 1)
             /\ u.kind = "user" => LastIs(list, u.target)
             /\ u.kind # "user" => \A target : LastIs(v.items, target) => LastIs(list, target)
<1> DEFINE list == v.items
           r == Run(v, u, last)
           m == Len(list)
<1>1. list \in Seq(Items(n)) /\ v.assistant \in Nat /\ RefTo(list, v.assistant)
      /\ m \in Nat /\ u.of \in 1..n
  BY DEF Good, Views, Updates
<1>2. u.kind # "token" => u \in Items(n) /\ u.kind # "assistant" /\ u.kind # "divider"
  BY UpdateKinds DEF Updates
<1>3. CASE u.kind = "token" /\ v.assistant # 0 /\ r = Grows(v, u)
  <2> DEFINE a == v.assistant
             more == [list EXCEPT ![a] = Longer(@, u.of)]
  <2>1. a \in DOMAIN list /\ list[a].kind = "assistant" /\ list[a] \in Items(n)
    BY <1>1, <1>3 DEF RefTo, IsBubble
  <2>2. Longer(list[a], u.of) \in Items(n) /\ Longer(list[a], u.of).kind = "assistant"
    BY <1>1, <2>1, LongerTyped
  <2>3. /\ more \in Seq(Items(n)) /\ Len(more) = m
        /\ \A i \in 1..m : more[i].kind = list[i].kind
                           /\ (list[i].kind = "user" => more[i] = list[i])
    BY <1>1, <2>1, <2>2
  <2>4. r.items = more
    BY <1>3 DEF Grows
  <2> HIDE DEF more, list
  <2>5. /\ Divided(list, putOff) => Divided(more, putOff)
        /\ \A target : LastIs(list, target) => LastIs(more, target)
        /\ AfterDivider(more, m + 1) => AfterDivider(list, m + 1)
    BY <1>1, <2>3, AlikeDivided
  <2> QED
    BY <1>3, <2>3, <2>4, <2>5 DEF list
<1>4. ASSUME NEW item \in Items(n), item.kind \notin {"user", "divider"}
      PROVE  /\ Divided(Append(list, item), putOff)
             /\ ~AfterDivider(Append(list, item), Len(Append(list, item)) + 1)
             /\ \A target : LastIs(list, target) => LastIs(Append(list, item), target)
  <2>1. Len(Append(list, item)) + 1 = m + 2
    BY <1>1
  <2> QED
    BY <1>1, <1>4, <2>1, ItemDivided
<1>5. CASE u.kind = "token" /\ r = Starts(v, u)
  <2>1. Bubble(u.of) \in Items(n) /\ Bubble(u.of).kind = "assistant"
    BY <1>5, UpdateKinds
  <2>2. r.items = Append(list, Bubble(u.of))
    BY <1>5 DEF Starts
  <2> QED
    BY <1>4, <1>5, <2>1, <2>2
<1>6. CASE u.kind = "error" /\ r = Appends(v, u)
  <2>1. r.items = Append(list, u)
    BY <1>6 DEF Appends
  <2> QED
    BY <1>2, <1>4, <1>6, <2>1
<1>7. CASE u.kind = "user" /\ last \in {None, u.target} /\ r = Appends(v, u)
  <2>1. r.items = Append(list, u) /\ Len(Append(list, u)) + 1 = m + 2
    BY <1>1, <1>7 DEF Appends
  <2>2. u \in Items(n)
    BY <1>2, <1>7
  <2>3. u.of \in putOff \/ ~Changes(Append(list, u), m + 1)
    BY <1>1, <1>7, <2>2, ChangesIf
  <2>4. Divided(list, putOff) /\ ~AfterDivider(list, m + 1) /\ u.target # None
    BY <1>7
  <2>5. /\ Divided(Append(list, u), putOff)
        /\ LastIs(Append(list, u), u.target)
        /\ ~AfterDivider(Append(list, u), m + 2)
    BY <1>1, <1>7, <2>2, <2>3, <2>4, MessageDivided
  <2> QED
    BY <1>7, <2>1, <2>5
<1>8. CASE u.kind = "user" /\ last \notin {None, u.target} /\ r = Divides(v, u)
  <2> DEFINE d == Divider(u.of, u.target)
             more == Append(list, d)
  <2>1. u \in Items(n) /\ d \in Items(n) /\ d.kind = "divider"
    BY <1>2, <1>8, UpdateKinds
  <2> HIDE DEF d
  <2>2. more \in Seq(Items(n)) /\ Len(more) = m + 1
    BY <1>1, <2>1
  <2>3. Divided(list, putOff) /\ LastIs(list, last) /\ u.target # None
    BY <1>8
  <2>4. /\ Divided(more, putOff) /\ LastIs(more, last)
        /\ AfterDivider(more, m + 2)
    BY <1>1, <2>1, <2>3, ItemDivided
  <2>5. r.items = Append(more, u) /\ Len(Append(more, u)) + 1 = Len(more) + 2
    BY <1>1, <1>8, <2>2 DEF Divides, d
  <2> HIDE DEF more
  <2>6. AfterDivider(more, Len(more) + 1)
    BY <1>1, <2>2, <2>4
  <2>7. Changes(Append(more, u), Len(more) + 1)
    BY <1>8, <2>1, <2>2, <2>4, ChangesIf
  <2>8. /\ Divided(Append(more, u), putOff)
        /\ LastIs(Append(more, u), u.target)
        /\ ~AfterDivider(Append(more, u), Len(more) + 2)
    BY <1>8, <2>1, <2>2, <2>3, <2>4, <2>6, <2>7, MessageDivided
  <2> QED
    BY <1>8, <2>5, <2>8
<1>9. u.kind \in {"token", "error", "user"}
  BY DEF Updates
<1> QED
  BY <1>3, <1>5, <1>6, <1>7, <1>8, <1>9, RunCases

LEMMA RunsDivided ==
  ASSUME NEW n \in Nat, NEW v, Good(v, n), NEW updates \in Seq(Updates(n)), NEW last,
         NEW putOff, Divided(v.items, putOff), ~AfterDivider(v.items, Len(v.items) + 1),
         NoMessage(updates) => LastIs(v.items, last),
         \A i \in DOMAIN updates : updates[i].kind = "user" =>
           last # None /\ updates[i].target = last /\ updates[i].of \in putOff
  PROVE  LET list == RunAll(v, updates, last).items
         IN  /\ Divided(list, putOff) /\ ~AfterDivider(list, Len(list) + 1)
             /\ LastIs(list, last)
<1> DEFINE g == Runs(v, updates, last)
           m == Len(updates)
           StaysDivided(k) ==
             /\ Divided(g[k].items, putOff)
             /\ ~AfterDivider(g[k].items, Len(g[k].items) + 1)
             /\ (\A i \in (k + 1)..m : updates[i].kind # "user") => LastIs(g[k].items, last)
           S == {k \in Nat : k <= m => StaysDivided(k)}
<1>1. m \in Nat /\ DOMAIN updates = 1..m /\ \A k \in 1..m : updates[k] \in Updates(n)
  OBVIOUS
<1>2. RunsTo(g, m, v, updates, last) /\ \A k \in 0..m : Good(g[k], n)
  BY <1>1, RunsGood
<1> HIDE DEF g, m
<1>3. 0 \in S
  <2>1. g[0] = v
    BY <1>1, <1>2 DEF RunsTo
  <2>2. StaysDivided(0)
    BY <1>1, <2>1 DEF NoMessage
  <2> QED
    BY <2>2
<1>4. ASSUME NEW k \in Nat, k \in S PROVE k + 1 \in S
  <2> SUFFICES ASSUME k + 1 <= m PROVE StaysDivided(k + 1)
    OBVIOUS
  <2> DEFINE u == updates[k + 1]
  <2>1. k + 1 \in 0..m /\ k + 1 \in 1..m /\ k \in 0..m /\ (k + 1) - 1 = k
    BY <1>1
  <2>2. g[k + 1] = Run(g[k], u, last)
    BY <1>2, <2>1 DEF RunsTo
  <2>3. Good(g[k], n) /\ u \in Updates(n) /\ StaysDivided(k)
    BY <1>1, <1>2, <1>4, <2>1
  <2>4. u.kind = "user" => last # None /\ u.target = last /\ u.of \in putOff
    BY <1>1, <2>1
  <2> HIDE DEF u
  <2>5. /\ Divided(g[k + 1].items, putOff)
        /\ ~AfterDivider(g[k + 1].items, Len(g[k + 1].items) + 1)
        /\ u.kind = "user" => LastIs(g[k + 1].items, last)
        /\ u.kind # "user" => (LastIs(g[k].items, last) => LastIs(g[k + 1].items, last))
    BY <2>2, <2>3, <2>4, RunDivided
  <2>6. ASSUME \A i \in ((k + 1) + 1)..m : updates[i].kind # "user"
        PROVE  LastIs(g[k + 1].items, last)
    <3>1. CASE u.kind = "user"
      BY <2>5, <3>1
    <3>2. CASE u.kind # "user"
      <4>1. \A i \in (k + 1)..m : i = k + 1 \/ i \in ((k + 1) + 1)..m
        BY <1>1
      <4>2. \A i \in (k + 1)..m : updates[i].kind # "user"
        BY <2>6, <3>2, <4>1 DEF u
      <4> QED
        BY <2>3, <2>5, <3>2, <4>2
    <3> QED
      BY <3>1, <3>2
  <2> QED
    BY <2>5, <2>6
<1> HIDE DEF S
<1>5. m \in S
  BY <1>1, <1>3, <1>4, SetInduction
<1>6. StaysDivided(m)
  BY <1>1, <1>5 DEF S
<1>7. LastIs(g[m].items, last)
  BY <1>1, <1>6
<1> QED
  BY <1>6, <1>7 DEF RunAll, g, m

(***************************************************************************)
(* Bubbles: a token goes into the bubble of the ref, or starts its own.    *)
(***************************************************************************)
LEMMA RunWhole ==
  ASSUME NEW n \in Nat, NEW v, Good(v, n), NEW u \in Updates(n), NEW last, NEW S,
         Whole(v.items, S),
         u.kind = "token" => \A x \in 1..n : InBubble(v, x) => x \in {u.of} \cup S
  PROVE  /\ Whole(Run(v, u, last).items, S)
         /\ \A x \in 1..n : InBubble(Run(v, u, last), x) =>
              InBubble(v, x) \/ (u.kind = "token" /\ u.of = x)
<1> DEFINE list == v.items
           r == Run(v, u, last)
           m == Len(list)
<1>1. list \in Seq(Items(n)) /\ v.assistant \in Nat /\ RefTo(list, v.assistant)
      /\ m \in Nat /\ DOMAIN list = 1..m /\ u.of \in 1..n
  BY DEF Good, Views, Updates
<1>2. u.kind # "token" => u \in Items(n) /\ u.kind # "assistant"
  BY UpdateKinds DEF Updates
<1>3. CASE u.kind = "token" /\ v.assistant # 0 /\ r = Grows(v, u)
  <2> DEFINE a == v.assistant
             text == list[a].text
             more == [list EXCEPT ![a] = Longer(@, u.of)]
  <2>1. a \in 1..m /\ list[a].kind = "assistant" /\ list[a] \in Items(n)
    BY <1>1, <1>3 DEF RefTo, IsBubble
  <2>2. Longer(list[a], u.of).text = Append(text, u.of) /\ text \in Seq(1..n)
    <3>1. ASSUME NEW item \in Items(n), item.kind = "assistant"
          PROVE  Longer(item, u.of).text = Append(item.text, u.of) /\ item.text \in Seq(1..n)
      BY <1>1, <3>1, LongerTyped
    <3> QED
      BY <2>1, <3>1
  <2>3. /\ DOMAIN more = 1..m /\ more[a] = Longer(list[a], u.of)
        /\ \A i \in 1..m : i # a => more[i] = list[i]
    BY <1>1, <2>1
  <2>4. r.items = more /\ r.assistant = a
    BY <1>3 DEF Grows
  <2> DEFINE l == Len(text)
             longer == more[a].text
  <2>5. /\ l \in Nat /\ DOMAIN text = 1..l /\ DOMAIN longer = 1..(l + 1)
        /\ longer[l + 1] = u.of /\ \A b \in 1..l : longer[b] = text[b] /\ text[b] \in 1..n
    <3>1. longer = Append(text, u.of)
      BY <2>2, <2>3
    <3> HIDE DEF text, longer
    <3> QED
      BY <1>1, <2>2, <3>1
  <2>6. \A b \in 1..l : \A c \in 1..(b - 1) : text[c] \in {text[b]} \cup S
    BY <1>1, <2>1, <2>5 DEF Whole, IsBubble
  <2>7. \A c \in 1..l : text[c] \in {u.of} \cup S
    <3> SUFFICES ASSUME NEW c \in 1..l PROVE text[c] \in {u.of} \cup S
      OBVIOUS
    <3>1. InBubble(v, text[c])
      BY <1>3, <2>5 DEF InBubble
    <3> QED
      BY <1>3, <2>5, <3>1
  <2> HIDE DEF more, text, longer, l, list, a
  <2>8. \A b \in 1..(l + 1) : \A c \in 1..(b - 1) : longer[c] \in {longer[b]} \cup S
    <3> SUFFICES ASSUME NEW b \in 1..(l + 1), NEW c \in 1..(b - 1)
                 PROVE  longer[c] \in {longer[b]} \cup S
      OBVIOUS
    <3>1. c \in 1..l /\ longer[c] = text[c]
      BY <2>5
    <3>2. CASE b = l + 1
      BY <2>5, <2>7, <3>1, <3>2
    <3>3. CASE b \in 1..l
      BY <2>5, <2>6, <3>1, <3>3
    <3> QED
      BY <2>5, <3>2, <3>3
  <2>9. Whole(more, S)
    <3> SUFFICES ASSUME NEW i \in 1..m, IsBubble(more, i),
                        NEW b \in DOMAIN more[i].text, NEW c \in 1..(b - 1)
                 PROVE  more[i].text[c] \in {more[i].text[b]} \cup S
      BY <2>3 DEF Whole
    <3>1. CASE i = a
      BY <2>5, <2>8, <3>1 DEF longer
    <3>2. CASE i # a
      <4>1. more[i] = list[i]
        BY <2>3, <3>2
      <4> QED
        BY <1>1, <4>1 DEF Whole, IsBubble, list
    <3> QED
      BY <3>1, <3>2
  <2>10. ASSUME NEW x \in 1..n, InBubble(r, x) PROVE InBubble(v, x) \/ u.of = x
    <3>1. PICK b \in 1..(l + 1) : longer[b] = x
      BY <2>4, <2>5, <2>10 DEF InBubble, longer
    <3>2. CASE b = l + 1
      BY <2>5, <3>1, <3>2
    <3>3. CASE b \in 1..l
      BY <1>3, <2>5, <3>1, <3>3 DEF InBubble, text, list, a
    <3> QED
      BY <2>5, <3>2, <3>3
  <2> QED
    BY <1>3, <2>4, <2>9, <2>10
<1>4. ASSUME NEW some \in Seq(Items(n)), NEW item \in Items(n), Whole(some, S),
             item.kind = "assistant" => item.text = <<u.of>>
      PROVE  Whole(Append(some, item), S)
  <2> DEFINE more == Append(some, item)
             l == Len(some)
  <2>1. l \in Nat /\ DOMAIN some = 1..l /\ DOMAIN more = 1..(l + 1) /\ more[l + 1] = item
        /\ \A i \in 1..l : more[i] = some[i]
    OBVIOUS
  <2> HIDE DEF more, l
  <2> SUFFICES ASSUME NEW i \in 1..(l + 1), IsBubble(more, i),
                      NEW b \in DOMAIN more[i].text, NEW c \in 1..(b - 1)
               PROVE  more[i].text[c] \in {more[i].text[b]} \cup S
    BY <2>1 DEF Whole, more
  <2>2. CASE i = l + 1
    <3>1. more[i].text = <<u.of>>
      BY <1>4, <2>1, <2>2 DEF IsBubble
    <3>2. b = 1
      BY <3>1
    <3> QED
      BY <3>2
  <2>3. CASE i \in 1..l
    <3>1. more[i] = some[i]
      BY <2>1, <2>3
    <3> QED
      BY <1>4, <2>1, <2>3, <3>1 DEF Whole, IsBubble
  <2> QED
    BY <2>1, <2>2, <2>3
<1>5. CASE u.kind = "token" /\ r = Starts(v, u)
  <2>1. Bubble(u.of) \in Items(n) /\ Bubble(u.of).text = <<u.of>>
    BY <1>5, UpdateKinds DEF Bubble
  <2>2. r.items = Append(list, Bubble(u.of)) /\ r.assistant = m + 1
    BY <1>5 DEF Starts
  <2>3. Whole(Append(list, Bubble(u.of)), S)
    BY <1>1, <1>4, <2>1
  <2>4. r.items[r.assistant] = Bubble(u.of)
    BY <1>1, <2>1, <2>2
  <2>5. \A x : InBubble(r, x) => x = u.of
    BY <2>1, <2>4 DEF InBubble
  <2> QED
    BY <1>5, <2>2, <2>3, <2>5
<1>6. ASSUME NEW some \in Seq(Items(n)), v.assistant # 0 => v.assistant \in DOMAIN some,
             NEW item \in Items(n), NEW x,
             InBubble([items |-> Append(some, item), assistant |-> v.assistant], x)
      PROVE  InBubble([items |-> some, assistant |-> v.assistant], x)
  <2>1. v.assistant # 0 => Append(some, item)[v.assistant] = some[v.assistant]
    BY <1>6
  <2> QED
    BY <1>6, <2>1 DEF InBubble
<1>7. v = [items |-> list, assistant |-> v.assistant] /\ Whole(list, S)
      /\ (v.assistant # 0 => v.assistant \in DOMAIN list)
  BY <1>1 DEF Good, Views, RefTo
<1> DEFINE Showing(some) == [items |-> some, assistant |-> v.assistant]
<1>0. \A x : InBubble(Showing(list), x) => InBubble(v, x)
  BY DEF InBubble
<1>8. CASE u.kind # "token" /\ r = Appends(v, u)
  <2>1. u \in Items(n) /\ u.kind # "assistant"
    BY <1>2, <1>8
  <2> HIDE DEF list
  <2>2. Whole(Append(list, u), S)
    BY <1>1, <1>4, <1>7, <2>1
  <2>3. r = Showing(Append(list, u)) /\ r.items = Append(list, u)
    BY <1>8 DEF Appends, list
  <2>4. \A x : InBubble(Showing(Append(list, u)), x) => InBubble(Showing(list), x)
    BY <1>1, <1>6, <1>7, <2>1
  <2> HIDE DEF r, Showing
  <2>5. \A x : InBubble(r, x) => InBubble(v, x)
    BY <1>0, <2>3, <2>4
  <2> QED
    BY <2>2, <2>3, <2>5 DEF r
<1>9. CASE u.kind = "user" /\ r = Divides(v, u)
  <2> DEFINE d == Divider(u.of, u.target)
             some == Append(list, d)
  <2>1. u \in Items(n) /\ u.kind # "assistant" /\ d \in Items(n) /\ d.kind = "divider"
    BY <1>2, <1>9, UpdateKinds
  <2> HIDE DEF d, list
  <2>2. some \in Seq(Items(n)) /\ Whole(some, S)
        /\ (v.assistant # 0 => v.assistant \in DOMAIN some)
    <3>1. Whole(some, S)
      BY <1>1, <1>4, <1>7, <2>1
    <3> QED
      BY <1>1, <1>7, <2>1, <3>1
  <2>3. \A x : InBubble(Showing(some), x) => InBubble(Showing(list), x)
    BY <1>1, <1>6, <1>7, <2>1
  <2>4. r = Showing(Append(some, u)) /\ r.items = Append(some, u)
    BY <1>9 DEF Divides, list, d
  <2> HIDE DEF some
  <2>5. Whole(Append(some, u), S)
    BY <1>4, <2>1, <2>2
  <2>6. \A x : InBubble(Showing(Append(some, u)), x) => InBubble(Showing(some), x)
    BY <1>6, <2>1, <2>2
  <2> HIDE DEF r, Showing
  <2>7. \A x : InBubble(r, x) => InBubble(v, x)
    BY <1>0, <2>3, <2>4, <2>6
  <2> QED
    BY <2>4, <2>5, <2>7 DEF r
<1> QED
  BY <1>3, <1>5, <1>8, <1>9, RunCases

LEMMA RunsWhole ==
  ASSUME NEW n \in Nat, NEW v, Good(v, n), NEW updates \in Seq(Updates(n)), NEW last, NEW S,
         Whole(v.items, S),
         \A j \in DOMAIN updates : \A i \in 1..(j - 1) :
           updates[i].kind = "token" /\ updates[j].kind = "token" =>
             updates[i].of \in {updates[j].of} \cup S,
         \A x \in 1..n : \A j \in DOMAIN updates :
           InBubble(v, x) /\ updates[j].kind = "token" => x \in {updates[j].of} \cup S
  PROVE  /\ Whole(RunAll(v, updates, last).items, S)
         /\ \A x \in 1..n : InBubble(RunAll(v, updates, last), x) =>
              InBubble(v, x) \/ Adds(x, updates)
<1> DEFINE g == Runs(v, updates, last)
           m == Len(updates)
           Read(x, k) == \E i \in 1..k : updates[i].kind = "token" /\ updates[i].of = x
           Holds(k) == /\ Whole(g[k].items, S)
                       /\ \A x \in 1..n : InBubble(g[k], x) => InBubble(v, x) \/ Read(x, k)
           T == {k \in Nat : k <= m => Holds(k)}
<1>1. m \in Nat /\ DOMAIN updates = 1..m /\ \A k \in 1..m : updates[k] \in Updates(n)
  OBVIOUS
<1>2. RunsTo(g, m, v, updates, last) /\ \A k \in 0..m : Good(g[k], n)
  BY <1>1, RunsGood
<1> HIDE DEF g, m
<1>3. 0 \in T
  <2>1. g[0] = v
    BY <1>1, <1>2 DEF RunsTo
  <2> QED
    BY <2>1
<1>4. ASSUME NEW k \in Nat, k \in T PROVE k + 1 \in T
  <2> SUFFICES ASSUME k + 1 <= m PROVE Holds(k + 1)
    OBVIOUS
  <2> DEFINE u == updates[k + 1]
  <2>1. k + 1 \in 0..m /\ k + 1 \in 1..m /\ k \in 0..m /\ (k + 1) - 1 = k
    BY <1>1
  <2>2. g[k + 1] = Run(g[k], u, last)
    BY <1>2, <2>1 DEF RunsTo
  <2>3. Good(g[k], n) /\ u \in Updates(n) /\ Holds(k)
    BY <1>1, <1>2, <1>4, <2>1
  <2>4. ASSUME u.kind = "token", NEW x \in 1..n, InBubble(g[k], x) PROVE x \in {u.of} \cup S
    <3>1. CASE InBubble(v, x)
      BY <1>1, <2>1, <2>4, <3>1
    <3>2. CASE Read(x, k)
      <4>1. PICK i \in 1..k : updates[i].kind = "token" /\ updates[i].of = x
        BY <3>2
      <4>2. i \in 1..((k + 1) - 1) /\ k + 1 \in DOMAIN updates
        BY <1>1, <2>1
      <4> QED
        BY <2>4, <4>1, <4>2
    <3> QED
      BY <2>3, <2>4, <3>1, <3>2
  <2>5. Read(u.of, k + 1) \/ u.kind # "token"
    BY <1>1, <2>1
  <2>6. \A x : Read(x, k) => Read(x, k + 1)
    BY <2>1
  <2> HIDE DEF u, Read
  <2>7. /\ Whole(g[k + 1].items, S)
        /\ \A x \in 1..n : InBubble(g[k + 1], x) =>
             InBubble(g[k], x) \/ (u.kind = "token" /\ u.of = x)
    <3>1. u.kind = "token" => \A x \in 1..n : InBubble(g[k], x) => x \in {u.of} \cup S
      BY <2>4
    <3>2. Good(g[k], n) /\ u \in Updates(n) /\ Whole(g[k].items, S)
      BY <2>3
    <3> DEFINE w == g[k]
    <3> HIDE DEF w
    <3>3. /\ Whole(Run(w, u, last).items, S)
          /\ \A x \in 1..n : InBubble(Run(w, u, last), x) =>
               InBubble(w, x) \/ (u.kind = "token" /\ u.of = x)
      BY <3>1, <3>2, RunWhole DEF w
    <3> QED
      BY <2>2, <3>3 DEF w
  <2> QED
    BY <2>3, <2>5, <2>6, <2>7
<1> HIDE DEF T
<1>5. m \in T
  BY <1>1, <1>3, <1>4, SetInduction
<1>6. Holds(m)
  BY <1>1, <1>5 DEF T
<1> QED
  BY <1>1, <1>6 DEF RunAll, g, m, Adds

-----------------------------------------------------------------------------
(***************************************************************************)
(* The steps.  What is typed stays typed as messages are sent.             *)
(***************************************************************************)
LEMMA SeqWider == ASSUME NEW A, NEW B, A \subseteq B PROVE Seq(A) \subseteq Seq(B)
<1> SUFFICES ASSUME NEW s \in Seq(A) PROVE s \in Seq(B)
  OBVIOUS
<1>1. Len(s) \in Nat /\ s \in [1..Len(s) -> A]
  OBVIOUS
<1> QED
  BY <1>1

LEMMA Wider ==
  ASSUME NEW n \in Nat, NEW m \in Nat, n <= m
  PROVE  /\ Wires(n) \subseteq Wires(m) /\ Seq(Wires(n)) \subseteq Seq(Wires(m))
         /\ Items(n) \subseteq Items(m) /\ Seq(Items(n)) \subseteq Seq(Items(m))
         /\ Updates(n) \subseteq Updates(m) /\ Seq(Updates(n)) \subseteq Seq(Updates(m))
         /\ 1..n \subseteq 1..m /\ Seq(1..n) \subseteq Seq(1..m)
<1>1. 1..n \subseteq 1..m
  OBVIOUS
<1>2. Seq(1..n) \subseteq Seq(1..m)
  BY <1>1, SeqWider
<1>3. Wires(n) \subseteq Wires(m)
  BY <1>1 DEF Wires
<1>4. Updates(n) \subseteq Updates(m)
  BY <1>1 DEF Updates
<1>5. Bubbles(n) \subseteq Bubbles(m)
  BY <1>2 DEF Bubbles
<1>6. Notes(n) \subseteq Notes(m)
  BY <1>1 DEF Notes
<1>7. Items(n) \subseteq Items(m)
  BY <1>5, <1>6 DEF Items
<1> QED
  BY <1>1, <1>2, <1>3, <1>4, <1>7, SeqWider

(* Every step is one of these. *)
StepOf(k) ==
  \/ SignIn(k) \/ CannotOpen(k) \/ Opened(k)
  \/ FrameDropped(k) \/ OnToken(k) \/ OnDone(k) \/ OnError(k) \/ OnClose(k)
  \/ (Take(k) /\ UNCHANGED Browsers) \/ (EndTurn(k) /\ UNCHANGED Browsers)
  \/ (CloseRead(k) /\ UNCHANGED Browsers) \/ (Forward(k) /\ UNCHANGED Browsers)
StepOfAll ==
  \/ SignOut \/ Render \/ (GatewayRestarts /\ UNCHANGED Browsers)
  \/ \E target \in Targets : SendMessage(target)

LEMMA StepCases ==
  ASSUME [Next]_vars
  PROVE  \/ \E k \in Connections : StepOf(k)
         \/ StepOfAll
         \/ UNCHANGED vars
BY DEF Next, Browser, GatewayMust, GatewayMay, StepOf, StepOfAll

(* The functional update of a handler, run at once or put off. *)
LEMMA SetItemsGood ==
  ASSUME Typed, Ref, socket # 0, NEW n \in Nat, sent <= n, NEW u \in Updates(n),
         NEW ref \in {assistant, 0}, SetItems(ref, u)
  PROVE  /\ items' \in Seq(Items(n)) /\ pending' \in Seq(Updates(n)) /\ assistant' \in Nat
         /\ RefTo(items', assistant')
         /\ Good(View(ref), n)
<1>1. items \in Seq(Items(n)) /\ pending \in Seq(Updates(n)) /\ ref \in Nat
  BY Wider DEF Typed, WiresTyped, ViewTyped
<1>2. Good(View(ref), n)
  BY <1>1 DEF Good, Views, View, Ref, RefTo
<1>3. CASE pending' = Append(pending, u) /\ assistant' = ref /\ items' = items
  BY <1>1, <1>2, <1>3 DEF Ref, RefTo
<1>4. CASE ShowView(Run(View(ref), u, lastTarget)) /\ pending' = pending
  <2>1. Good(Run(View(ref), u, lastTarget), n)
    BY <1>2, RunGood
  <2> QED
    BY <1>1, <1>2, <1>4, <2>1 DEF ShowView, Good, Views
<1> QED
  BY <1>2, <1>3, <1>4 DEF SetItems

LEMMA ShownGood ==
  ASSUME Typed, Ref, socket # 0
  PROVE  /\ Good(View(assistant), sent) /\ Good(Shown, sent)
         /\ Shown.items \in Seq(Items(sent)) /\ Shown.assistant \in Nat
         /\ RefTo(Shown.items, Shown.assistant)
<1>1. Good(View(assistant), sent)
  BY DEF Typed, ViewTyped, Ref, Good, Views, View
<1>2. Good(Shown, sent)
  BY <1>1, RunsGood DEF Typed, WiresTyped, ViewTyped, Shown
<1> QED
  BY <1>1, <1>2 DEF Good, Views

LEMMA ArrivalOf ==
  ASSUME Typed, Lifecycle, NEW k \in Connections, Arrival(k)
  PROVE  /\ Arrives(k) \in Wires(sent) /\ Tail(outbox[k]) \in Seq(Wires(sent))
         /\ outbox' \in [Connections -> Seq(Wires(sent))]
         /\ \A j \in Connections : j # k => outbox'[j] = outbox[j]
         /\ outbox'[k] = Tail(outbox[k])
         /\ Arrives(k).type = "token" \/ Arrives(k).type = "done" \/ Arrives(k).type = "error"
              => Arrives(k).of \in 1..sent
         /\ ready[k] = "open" => k = socket /\ socket # 0
<1>1. outbox[k] \in Seq(Wires(sent)) /\ outbox[k] # <<>> /\ k # 0
  BY SocketAssumption DEF Typed, WiresTyped, Arrival
<1>2. Arrives(k) \in Wires(sent) /\ Tail(outbox[k]) \in Seq(Wires(sent))
  BY <1>1 DEF Arrives
<1>3. Close.type = "close"
  BY DEF Close, Wire
<1> QED
  BY <1>1, <1>2, <1>3 DEF Arrival, Typed, WiresTyped, Wires, Lifecycle


(* The connections of the gateway. *)
LEMMA FramesStep == ASSUME FramesTyped, [Next]_vars PROVE FramesTyped'
<1>1. ASSUME NEW k \in Connections, StepOf(k) PROVE FramesTyped'
  <2>1. CASE UNCHANGED frameVars
    BY <2>1 DEF FramesTyped, frameVars
  <2>2. CASE Opened(k)
    BY <2>2 DEF FramesTyped, Opened, Connect, InPhase, AnsweredIs, Phases
  <2>3. CASE Take(k)
    BY <2>3 DEF FramesTyped, Take, Begin, InPhase, AnsweredIs, Phases
  <2>4. CASE EndTurn(k)
    BY <2>4 DEF FramesTyped, EndTurn, End, InPhase, ForwardedIs, Phases
  <2>5. CASE CloseRead(k)
    BY <2>5 DEF FramesTyped, CloseRead, Drop, InPhase, Phases
  <2>6. CASE Forward(k)
    <3>1. CASE Frame(k) \/ Answer(k)
      BY <3>1 DEF FramesTyped, Frame, Answer, AnsweredIs, ForwardedIs
    <3>2. CASE Refuse(k)
      BY <3>2 DEF FramesTyped, Refuse, InPhase, AnsweredIs, Phases
    <3> QED
      BY <2>6, <3>1, <3>2 DEF Forward
  <2> QED
    BY <1>1, <2>1, <2>2, <2>3, <2>4, <2>5, <2>6
       DEF StepOf, SignIn, CannotOpen, FrameDropped, OnToken, OnDone, OnError, OnClose,
           OnMessage, Arrival
<1>2. CASE GatewayRestarts
  BY <1>2 DEF FramesTyped, GatewayRestarts, Restart, Phases
<1>3. CASE UNCHANGED frameVars
  BY <1>3 DEF FramesTyped, frameVars
<1> QED
  BY <1>1, <1>2, <1>3, StepCases DEF StepOfAll, SignOut, Render, SendMessage, vars

LEMMA WiresStep == ASSUME Typed, Lifecycle, [Next]_vars PROVE WiresTyped'
<1>0. /\ sent \in Nat /\ Close \in Wires(sent)
      /\ \A k \in Connections : inbox[k] \in Seq(Wires(sent)) /\ outbox[k] \in Seq(Wires(sent))
  BY DEF Typed, WiresTyped, Wires
<1>1. ASSUME NEW k \in Connections, StepOf(k) PROVE WiresTyped'
  <2>1. CASE UNCHANGED <<inbox, outbox, sent>>
    BY <2>1 DEF Typed, WiresTyped
  <2>2. CASE Arrival(k)
    <3>1. outbox' \in [Connections -> Seq(Wires(sent))]
      BY <2>2, ArrivalOf
    <3> QED
      BY <2>2, <3>1 DEF Typed, WiresTyped, Arrival
  <2>3. CASE Take(k) /\ UNCHANGED Browsers
    <3>1. Tail(inbox[k]) \in Seq(Wires(sent))
      BY <1>0, <2>3 DEF Take
    <3> QED
      BY <2>3, <3>1 DEF Typed, WiresTyped, Take, Browsers
  <2>4. CASE CloseRead(k) /\ UNCHANGED Browsers
    <3>1. Append(outbox[k], Close) \in Seq(Wires(sent)) /\ <<>> \in Seq(Wires(sent))
      BY <1>0
    <3> QED
      BY <2>4, <3>1 DEF Typed, WiresTyped, CloseRead, Emits, Browsers
  <2>5. CASE Forward(k) /\ UNCHANGED Browsers
    <3>1. phase[k] = "turn"
      BY <2>5 DEF Forward, Frame, Refuse, Answer, InPhase
    <3>2. inTurn[k] \in 1..sent
      BY <1>0, <3>1 DEF Typed, TurnsTyped
    <3>3. \A type \in {"token", "done", "error"} : Wire(type, inTurn[k]) \in Wires(sent)
      BY <3>2 DEF Wire, Wires
    <3>4. PICK frame \in Wires(sent) : Emits(k, frame)
      BY <2>5, <3>3 DEF Forward
    <3>5. Append(outbox[k], frame) \in Seq(Wires(sent))
      BY <1>0, <3>4
    <3> QED
      BY <2>5, <3>4, <3>5 DEF Typed, WiresTyped, Forward, Emits, Browsers
  <2> QED
    BY <1>1, <2>1, <2>2, <2>3, <2>4, <2>5
       DEF StepOf, SignIn, CannotOpen, Opened, FrameDropped, OnToken, OnDone, OnError, OnClose,
           OnMessage, EndTurn, wires, Browsers
<1>2. CASE SignOut
  <2>1. socket \in Connections
    BY <1>2 DEF Typed, HookTyped, SignOut
  <2>2. Append(inbox[socket], Close) \in Seq(Wires(sent)) /\ <<Close>> \in Seq(Wires(sent))
    BY <1>0, <2>1
  <2> QED
    BY <1>2, <2>2 DEF Typed, WiresTyped, SignOut
<1>3. CASE GatewayRestarts /\ UNCHANGED Browsers
  <2>1. \A k \in Connections : Append(outbox[k], Close) \in Seq(Wires(sent))
    BY <1>0
  <2>2. <<>> \in Seq(Wires(sent))
    OBVIOUS
  <2> QED
    BY <1>0, <1>3, <2>1, <2>2 DEF WiresTyped, GatewayRestarts, Browsers
<1>4. ASSUME NEW target \in Targets, SendMessage(target) PROVE WiresTyped'
  <2>1. sent' = sent + 1 /\ sent' \in Nat /\ sent <= sent' /\ socket \in Connections
    BY <1>0, <1>4 DEF Typed, HookTyped, SendMessage
  <2>2. Seq(Wires(sent)) \subseteq Seq(Wires(sent'))
    BY <1>0, <2>1, Wider
  <2>3. inbox[socket] \in Seq(Wires(sent')) /\ Wire("message", sent') \in Wires(sent')
    BY <1>0, <2>1, <2>2 DEF Wires, Wire
  <2>4. Append(inbox[socket], Wire("message", sent')) \in Seq(Wires(sent'))
    BY <2>3
  <2>5. inbox \in [Connections -> Seq(Wires(sent'))] /\ outbox \in [Connections -> Seq(Wires(sent'))]
    BY <2>2 DEF Typed, WiresTyped
  <2>6. inbox' = [inbox EXCEPT ![socket] = Append(@, Wire("message", sent'))] /\ outbox' = outbox
    BY <1>4 DEF SendMessage
  <2> QED
    BY <2>1, <2>4, <2>5, <2>6 DEF WiresTyped
<1>5. CASE UNCHANGED <<inbox, outbox, sent>>
  BY <1>5 DEF Typed, WiresTyped
<1> QED
  BY <1>1, <1>2, <1>3, <1>4, <1>5, StepCases DEF StepOfAll, Render, vars, wires

LEMMA TurnsStep == ASSUME Typed, Lifecycle, [Next]_vars PROVE TurnsTyped'
<1>0. sent \in Nat /\ phase \in [Connections -> Phases] /\ inTurn \in [Connections -> 0..sent]
      /\ \A k \in Connections : phase[k] = "turn" => inTurn[k] # 0
  BY DEF Typed, WiresTyped, FramesTyped, TurnsTyped
<1>1. ASSUME NEW k \in Connections, StepOf(k) PROVE TurnsTyped'
  <2>1. CASE UNCHANGED <<frameVars, inTurn, sent>>
    BY <1>0, <2>1 DEF TurnsTyped, frameVars
  <2>2. CASE Opened(k)
    BY <1>0, <2>2 DEF TurnsTyped, Opened, Connect, InPhase, wires
  <2>3. CASE Take(k) /\ UNCHANGED Browsers
    <3>1. inbox[k] \in Seq(Wires(sent)) /\ inbox[k] # <<>> /\ Head(inbox[k]) # Close
      BY <2>3 DEF Typed, WiresTyped, Take
    <3>2. Head(inbox[k]).of \in 1..sent
      BY <3>1 DEF Wires
    <3>3. inTurn' = [inTurn EXCEPT ![k] = Head(inbox[k]).of] /\ sent' = sent
          /\ phase' = [phase EXCEPT ![k] = "turn"]
      BY <2>3 DEF Take, Begin, InPhase, Browsers
    <3> QED
      BY <1>0, <3>2, <3>3 DEF TurnsTyped
  <2>4. CASE EndTurn(k) /\ UNCHANGED Browsers
    BY <1>0, <2>4 DEF TurnsTyped, EndTurn, End, InPhase, wires, Browsers
  <2>5. CASE CloseRead(k) /\ UNCHANGED Browsers
    BY <1>0, <2>5 DEF TurnsTyped, CloseRead, Drop, InPhase, Browsers
  <2>6. CASE Forward(k) /\ UNCHANGED Browsers
    <3>1. \A j \in Connections : phase'[j] = "turn" => phase[j] = "turn"
      <4>1. CASE phase' = phase
        BY <4>1
      <4>2. CASE Refuse(k)
        BY <1>0, <4>2 DEF Refuse, InPhase
      <4> QED
        BY <2>6, <4>1, <4>2 DEF Forward, Frame, Answer
    <3>2. UNCHANGED <<inTurn, sent>>
      BY <2>6 DEF Forward, Browsers
    <3> QED
      BY <1>0, <3>1, <3>2 DEF TurnsTyped
  <2> QED
    BY <1>1, <2>1, <2>2, <2>3, <2>4, <2>5, <2>6
       DEF StepOf, SignIn, CannotOpen, FrameDropped, OnToken, OnDone, OnError, OnClose,
           OnMessage, Arrival, wires
<1>2. CASE GatewayRestarts /\ UNCHANGED Browsers
  BY <1>0, <1>2 DEF TurnsTyped, GatewayRestarts, Restart, Browsers
<1>3. CASE \E target \in Targets : SendMessage(target)
  BY <1>0, <1>3 DEF TurnsTyped, SendMessage, frameVars
<1>4. CASE UNCHANGED <<frameVars, inTurn, sent>>
  BY <1>0, <1>4 DEF TurnsTyped, frameVars
<1> QED
  BY <1>1, <1>2, <1>3, <1>4, StepCases DEF StepOfAll, SignOut, Render, vars, wires

(* The state of the hook. *)
LEMMA HookStep == ASSUME HookTyped, [Next]_vars PROVE HookTyped'
<1>1. ASSUME NEW k \in Connections, StepOf(k) PROVE HookTyped'
  <2>1. CASE UNCHANGED <<ready, socket, status, isWaiting, late>>
    BY <2>1 DEF HookTyped
  <2>2. CASE SignIn(k)
    BY <2>2 DEF HookTyped, SignIn, States
  <2>3. CASE CannotOpen(k)
    BY <2>3 DEF HookTyped, CannotOpen, States
  <2>4. CASE Opened(k)
    BY <2>4 DEF HookTyped, Opened, States
  <2>5. CASE OnToken(k) \/ OnDone(k) \/ OnError(k)
    BY <2>5 DEF HookTyped, OnToken, OnDone, OnError, OnMessage, Arrival
  <2>6. CASE OnClose(k)
    BY <2>6 DEF HookTyped, OnClose, Arrival, States
  <2> QED
    BY <1>1, <2>1, <2>2, <2>3, <2>4, <2>5, <2>6 DEF StepOf, FrameDropped, Arrival, Browsers
<1>2. CASE SignOut
  BY <1>2 DEF HookTyped, SignOut, States
<1>3. CASE \E target \in Targets : SendMessage(target)
  BY <1>3 DEF HookTyped, SendMessage
<1>4. CASE UNCHANGED <<ready, socket, status, isWaiting, late>>
  BY <1>4 DEF HookTyped
<1> QED
  BY <1>1, <1>2, <1>3, <1>4, StepCases DEF StepOfAll, Render, Browsers, vars

(* Steps that leave what is shown alone. *)
Quiet == UNCHANGED <<socket, items, pending, assistant, lastTarget, delivered, deferred, sent>>

LEMMA QuietSteps ==
  ASSUME Typed, Lifecycle, NEW k \in Connections, StepOf(k)
  PROVE  \/ SignIn(k) \/ (OnToken(k) /\ k = socket) \/ (OnError(k) /\ k = socket)
         \/ (OnDone(k) /\ k = socket)
         \/ Quiet /\ slipped \subseteq slipped'
<1>1. CASE OnToken(k) \/ OnDone(k) \/ OnError(k)
  BY <1>1 DEF OnToken, OnDone, OnError, OnMessage, Lifecycle
<1>2. CASE CannotOpen(k) \/ Opened(k) \/ FrameDropped(k) \/ OnClose(k)
  BY <1>2 DEF CannotOpen, Opened, FrameDropped, OnClose, Arrival, Quiet, view
<1>3. CASE (Take(k) \/ EndTurn(k) \/ CloseRead(k) \/ Forward(k)) /\ UNCHANGED Browsers
  BY <1>3 DEF Take, EndTurn, CloseRead, Forward, Browsers, Quiet, view
<1> QED
  BY <1>1, <1>2, <1>3 DEF StepOf

LEMMA QuietStepsOfAll ==
  ASSUME Typed, (GatewayRestarts /\ UNCHANGED Browsers) \/ UNCHANGED vars
  PROVE  Quiet /\ slipped \subseteq slipped'
BY DEF GatewayRestarts, Browsers, Quiet, view, vars

(* What a frame of the sign-in's socket hands to its handler. *)
LEMMA Handled ==
  ASSUME Typed, Lifecycle, NEW k \in Connections, OnToken(k) \/ OnDone(k) \/ OnError(k)
  PROVE  /\ k = socket /\ socket # 0 /\ ready[socket] = "open" /\ Arrives(k).of \in 1..sent
         /\ Token(Arrives(k).of) \in Updates(sent) /\ Failure(Arrives(k).of) \in Updates(sent)
         /\ Token(Arrives(k).of).kind = "token" /\ Failure(Arrives(k).of).kind = "error"
         /\ Token(Arrives(k).of).of = Arrives(k).of
         /\ UNCHANGED <<socket, sent, ready, lastTarget, deferred>>
<1>1. Arrival(k) /\ ready[k] = "open" /\ Arrives(k).type \in {"token", "done", "error"}
  BY DEF OnToken, OnDone, OnError, OnMessage
<1>2. k = socket /\ socket # 0 /\ Arrives(k).of \in 1..sent
  BY <1>1, ArrivalOf
<1>3. UNCHANGED <<socket, sent, ready, lastTarget, deferred>>
  BY DEF OnToken, OnDone, OnError, OnMessage, Arrival
<1> QED
  BY <1>1, <1>2, <1>3 DEF Token, Failure, Update, Updates

(* What an employee's message hands to its update. *)
LEMMA Messaged ==
  ASSUME Typed, NEW target \in Targets, SendMessage(target)
  PROVE  /\ socket # 0 /\ socket \in Connections /\ ready[socket] = "open"
         /\ sent \in Nat /\ sent' = sent + 1 /\ sent' \in Nat /\ sent <= sent'
         /\ Message(sent', target) \in Updates(sent')
         /\ Message(sent', target).kind = "user" /\ Message(sent', target).of = sent'
         /\ Message(sent', target).target = target
         /\ target # None /\ lastTarget' = target /\ NoMessage(pending)
         /\ SetItems(assistant, Message(sent', target))
         /\ UNCHANGED <<socket, ready, delivered, slipped>>
<1>1. sent \in Nat /\ sent' = sent + 1 /\ socket # 0 /\ socket \in Connections
  BY DEF Typed, WiresTyped, HookTyped, SendMessage
<1>2. Message(sent', target) \in Updates(sent')
  BY <1>1 DEF Message, Update, Updates
<1> QED
  BY <1>1, <1>2, SocketAssumption DEF SendMessage, Message, Update, NoMessage

LEMMA ViewStep == ASSUME Typed, Lifecycle, Ref, [Next]_vars PROVE ViewTyped' /\ Ref'
<1>0. sent \in Nat /\ ViewTyped /\ (socket # 0 => RefTo(items, assistant))
  BY DEF Typed, WiresTyped, Ref
<1>1. CASE Quiet
  BY <1>0, <1>1 DEF ViewTyped, Ref, Quiet
<1>2. ASSUME NEW k \in Connections, SignIn(k) PROVE ViewTyped' /\ Ref'
  <2>1. items' = <<>> /\ assistant' = 0 /\ lastTarget' = None /\ pending' = pending /\ sent' = sent
    BY <1>2 DEF SignIn, ResetRefs
  <2>2. items' \in Seq(Items(sent))
    BY <2>1
  <2> QED
    BY <1>0, <2>1, <2>2 DEF ViewTyped, Ref, RefTo
<1>3. ASSUME NEW k \in Connections, OnToken(k) PROVE ViewTyped' /\ Ref'
  <2>1. SetItems(assistant, Token(Arrives(k).of))
    BY <1>3 DEF OnToken
  <2> QED
    BY <1>0, <1>3, <2>1, Handled, SetItemsGood DEF ViewTyped, Ref
<1>4. ASSUME NEW k \in Connections, OnError(k) PROVE ViewTyped' /\ Ref'
  <2>1. SetItems(0, Failure(Arrives(k).of))
    BY <1>4 DEF OnError
  <2> QED
    BY <1>0, <1>4, <2>1, Handled, SetItemsGood DEF ViewTyped, Ref
<1>5. ASSUME NEW k \in Connections, OnDone(k) PROVE ViewTyped' /\ Ref'
  <2>1. assistant' = 0 /\ items' = items /\ pending' = pending /\ UNCHANGED <<sent, lastTarget>>
    BY <1>5, Handled DEF OnDone
  <2> QED
    BY <1>0, <2>1 DEF ViewTyped, Ref, RefTo
<1>6. CASE SignOut
  <2>1. Shown.assistant \in Nat
    BY <1>6, ShownGood DEF SignOut
  <2>2. assistant' = Shown.assistant /\ items' = <<>> /\ pending' = <<>> /\ socket' = 0
        /\ UNCHANGED <<sent, lastTarget>>
    BY <1>6 DEF SignOut, Shown
  <2>3. items' \in Seq(Items(sent)) /\ pending' \in Seq(Updates(sent))
    BY <2>2
  <2> QED
    BY <1>0, <2>1, <2>2, <2>3 DEF ViewTyped, Ref
<1>7. CASE Render
  <2>1. socket # 0
    BY <1>7 DEF Lifecycle, Empty, Render
  <2>2. items' = Shown.items /\ assistant' = Shown.assistant /\ pending' = <<>>
        /\ UNCHANGED <<sent, lastTarget>>
    BY <1>7 DEF Render, ShowView, Shown
  <2>3. pending' \in Seq(Updates(sent))
    BY <2>2
  <2> QED
    BY <1>0, <2>1, <2>2, <2>3, ShownGood DEF ViewTyped, Ref
<1>8. ASSUME NEW target \in Targets, SendMessage(target) PROVE ViewTyped' /\ Ref'
  <2>1. items' \in Seq(Items(sent')) /\ pending' \in Seq(Updates(sent')) /\ assistant' \in Nat
        /\ RefTo(items', assistant')
    BY <1>8, Messaged, SetItemsGood
  <2> QED
    BY <1>8, <2>1, Messaged DEF ViewTyped, Ref
<1> QED
  BY <1>1, <1>2, <1>3, <1>4, <1>5, <1>6, <1>7, <1>8, StepCases, QuietSteps, QuietStepsOfAll
     DEF StepOfAll

LEMMA HistoryStep == ASSUME Typed, Lifecycle, [Next]_vars PROVE HistoryTyped'
<1>0. sent \in Nat /\ HistoryTyped
      /\ \A k \in Connections : phase[k] = "turn" => inTurn[k] \in 1..sent
  BY DEF Typed, WiresTyped, TurnsTyped
<1>1. ASSUME NEW k \in Connections, StepOf(k) PROVE HistoryTyped'
  <2>1. CASE UNCHANGED <<sent, delivered, slipped, deferred>>
    BY <1>0, <2>1 DEF HistoryTyped
  <2>2. CASE SignIn(k)
    <3>1. delivered' = <<>> /\ deferred' = {} /\ slipped' = {} /\ sent' = sent
      BY <2>2 DEF SignIn
    <3>2. <<>> \in Seq(1..sent)
      OBVIOUS
    <3> QED
      BY <3>1, <3>2 DEF HistoryTyped
  <2>3. CASE OnToken(k)
    <3>1. /\ delivered' = Append(delivered, Arrives(k).of) /\ Arrives(k).of \in 1..sent
          /\ UNCHANGED <<sent, slipped, deferred>>
      BY <2>3, Handled DEF OnToken
    <3>2. delivered' \in Seq(1..sent)
      BY <1>0, <3>1 DEF HistoryTyped
    <3> QED
      BY <1>0, <3>1, <3>2 DEF HistoryTyped
  <2>4. CASE OnDone(k) \/ OnError(k)
    <3>1. /\ slipped' \subseteq slipped \cup {Arrives(k).of} /\ Arrives(k).of \in 1..sent
          /\ UNCHANGED <<sent, delivered, deferred>>
      BY <2>4, Handled DEF OnDone, OnError, Slips
    <3> QED
      BY <1>0, <3>1 DEF HistoryTyped
  <2>5. CASE EndTurn(k) /\ UNCHANGED Browsers
    <3>1. /\ slipped' \subseteq slipped \cup {inTurn[k]} /\ inTurn[k] \in 1..sent
          /\ UNCHANGED <<sent, delivered, deferred>>
      BY <1>0, <2>5 DEF EndTurn, End, InPhase, Browsers, view
    <3> QED
      BY <1>0, <3>1 DEF HistoryTyped
  <2> QED
    BY <1>1, <2>1, <2>2, <2>3, <2>4, <2>5
       DEF StepOf, CannotOpen, Opened, FrameDropped, OnClose, Arrival, Take, CloseRead, Forward,
           Browsers, view
<1>2. CASE GatewayRestarts /\ UNCHANGED Browsers
  <2>1. socket # 0 => socket \in Connections
    BY DEF Typed, HookTyped
  <2>2. slipped' \subseteq 1..sent
    BY <1>0, <1>2, <2>1 DEF GatewayRestarts, HistoryTyped
  <2> QED
    BY <1>0, <1>2, <2>2 DEF HistoryTyped, Browsers, view
<1>3. CASE SignOut
  <2>1. delivered' = <<>> /\ deferred' = {} /\ UNCHANGED <<sent, slipped>>
    BY <1>3 DEF SignOut
  <2>2. <<>> \in Seq(1..sent)
    OBVIOUS
  <2> QED
    BY <1>0, <2>1, <2>2 DEF HistoryTyped
<1>4. ASSUME NEW target \in Targets, SendMessage(target) PROVE HistoryTyped'
  <2>1. sent' \in Nat /\ sent <= sent' /\ sent' \in 1..sent'
    BY <1>4, Messaged
  <2>2. Seq(1..sent) \subseteq Seq(1..sent') /\ 1..sent \subseteq 1..sent'
    BY <1>0, <2>1, Wider
  <2>3. deferred' \subseteq deferred \cup {sent'} /\ UNCHANGED <<delivered, slipped>>
    BY <1>4 DEF SendMessage
  <2> QED
    BY <1>0, <2>1, <2>2, <2>3 DEF HistoryTyped
<1>5. CASE UNCHANGED <<sent, delivered, slipped, deferred>>
  BY <1>0, <1>5 DEF HistoryTyped
<1> QED
  BY <1>1, <1>2, <1>3, <1>4, <1>5, StepCases DEF StepOfAll, Render, vars, view

LEMMA TypedStep == ASSUME Typed, Lifecycle, Ref, [Next]_vars PROVE Typed'
BY FramesStep, WiresStep, TurnsStep, HookStep, ViewStep, HistoryStep DEF Typed

(* What becomes of a socket. *)
LEMMA LifecycleStep == ASSUME Typed, Lifecycle, [Next]_vars PROVE Lifecycle'
<1> USE SocketAssumption
<1>0. /\ ready \in [Connections -> States] /\ socket \in Connections \cup {0}
      /\ phase \in [Connections -> Phases]
      /\ \A k \in Connections : k # 0 /\ inbox[k] \in Seq(Wires(sent)) /\ outbox[k] \in Seq(Wires(sent))
      /\ inbox \in [Connections -> Seq(Wires(sent))] /\ outbox \in [Connections -> Seq(Wires(sent))]
  BY DEF Typed, HookTyped, FramesTyped, WiresTyped
<1>1. ASSUME NEW k \in Connections, StepOf(k) PROVE Lifecycle'
  <2>1. CASE SignIn(k)
    BY <1>0, <2>1 DEF Lifecycle, Empty, SignIn, ResetRefs, frameVars, wires
  <2>2. CASE CannotOpen(k)
    BY <1>0, <2>2 DEF Lifecycle, Empty, CannotOpen, frameVars, wires, view
  <2>3. CASE Opened(k)
    BY <1>0, <2>3 DEF Lifecycle, Empty, Opened, Connect, InPhase, wires, view
  <2>4. CASE FrameDropped(k)
    BY <1>0, <2>4 DEF Lifecycle, Empty, FrameDropped, Arrival, frameVars
  <2>5. CASE OnToken(k) \/ OnDone(k) \/ OnError(k)
    <3>1. socket # 0 /\ ready[socket] = "open" /\ UNCHANGED <<socket, ready>>
      BY <2>5, Handled
    <3>2. Arrival(k) /\ ready[k] = "open"
      BY <2>5 DEF OnToken, OnDone, OnError, OnMessage
    <3> QED
      BY <1>0, <3>1, <3>2 DEF Lifecycle, Arrival, frameVars
  <2>6. CASE OnClose(k)
    BY <1>0, <2>6 DEF Lifecycle, Empty, OnClose, Arrival, frameVars
  <2>7. CASE Take(k) /\ UNCHANGED Browsers
    BY <1>0, <2>7 DEF Lifecycle, Empty, Take, Begin, InPhase, Browsers, view
  <2>8. CASE EndTurn(k) /\ UNCHANGED Browsers
    BY <1>0, <2>8 DEF Lifecycle, Empty, EndTurn, End, InPhase, Browsers, view, wires
  <2>9. CASE CloseRead(k) /\ UNCHANGED Browsers
    BY <1>0, <2>9 DEF Lifecycle, Empty, CloseRead, Drop, InPhase, Emits, Browsers, view
  <2>10. CASE Forward(k) /\ UNCHANGED Browsers
    <3>1. phase[k] = "turn"
      BY <2>10 DEF Forward, Frame, Refuse, Answer, InPhase
    <3>2. \A j \in Connections : j # k => phase'[j] = phase[j] /\ outbox'[j] = outbox[j]
      BY <1>0, <2>10 DEF Forward, Frame, Refuse, Answer, InPhase, Emits
    <3>3. UNCHANGED <<ready, socket, items, pending, assistant, delivered, inbox>>
      BY <2>10 DEF Forward, Browsers, view
    <3> QED
      BY <1>0, <3>1, <3>2, <3>3 DEF Lifecycle, Empty
  <2> QED
    BY <1>1, <2>1, <2>2, <2>3, <2>4, <2>5, <2>6, <2>7, <2>8, <2>9, <2>10 DEF StepOf
<1>2. CASE SignOut
  <2>1. CASE ready[socket] \in {"connecting", "open"}
    <3>1. \A k \in Connections : k # socket => ready'[k] = ready[k]
                                   /\ inbox'[k] = inbox[k] /\ outbox'[k] = outbox[k]
      BY <1>0, <1>2, <2>1 DEF SignOut
    <3>2. ready'[socket] = "closing" /\ phase' = phase /\ socket' = 0 /\ Empty'
      BY <1>0, <1>2, <2>1 DEF SignOut, Empty, frameVars
    <3> QED
      BY <1>0, <3>1, <3>2 DEF Lifecycle
  <2>2. CASE ready[socket] \notin {"connecting", "open"}
    BY <1>0, <1>2, <2>2 DEF Lifecycle, Empty, SignOut, frameVars
  <2> QED
    BY <2>1, <2>2
<1>3. CASE Render
  BY <1>0, <1>3 DEF Lifecycle, Empty, Render, frameVars, wires
<1>4. CASE GatewayRestarts /\ UNCHANGED Browsers
  BY <1>0, <1>4 DEF Lifecycle, Empty, GatewayRestarts, Restart, Browsers, view
<1>5. ASSUME NEW target \in Targets, SendMessage(target) PROVE Lifecycle'
  BY <1>0, <1>5 DEF Lifecycle, SendMessage, frameVars
<1>6. CASE UNCHANGED vars
  BY <1>6 DEF Lifecycle, Empty, vars, view, wires, frameVars
<1> QED
  BY <1>1, <1>2, <1>3, <1>4, <1>5, <1>6, StepCases DEF StepOfAll

(* The status. *)
LEMMA StatusStep == ASSUME Typed, Lifecycle, StatusTrue, [Next]_vars PROVE StatusTrue'
<1> USE SocketAssumption
<1>0. /\ ready \in [Connections -> States] /\ socket \in Connections \cup {0}
      /\ \A k \in Connections : k # 0
  BY DEF Typed, HookTyped
<1>1. ASSUME NEW k \in Connections, StepOf(k) PROVE StatusTrue'
  <2>1. CASE SignIn(k)
    BY <1>0, <2>1 DEF StatusTrue, SignIn
  <2>2. CASE CannotOpen(k)
    BY <1>0, <2>2 DEF StatusTrue, CannotOpen
  <2>3. CASE Opened(k)
    BY <1>0, <2>3 DEF StatusTrue, Opened, Lifecycle
  <2>4. CASE OnClose(k)
    BY <1>0, <2>4 DEF StatusTrue, OnClose, Arrival
  <2>5. CASE UNCHANGED <<ready, socket, status, late>>
    BY <2>5 DEF StatusTrue
  <2> QED
    BY <1>1, <2>1, <2>2, <2>3, <2>4, <2>5
       DEF StepOf, FrameDropped, OnToken, OnDone, OnError, OnMessage, Arrival, Browsers
<1>2. CASE SignOut
  BY <1>2 DEF StatusTrue, SignOut
<1>3. CASE UNCHANGED <<ready, socket, status, late>>
  BY <1>3 DEF StatusTrue
<1> QED
  BY <1>1, <1>2, <1>3, StepCases DEF StepOfAll, Render, SendMessage, Browsers, vars

(***************************************************************************)
(* The transcript: what is shown once everything is rendered is what the   *)
(* sign-in's socket has delivered.                                         *)
(***************************************************************************)
LEMMA SetItemsTranscript ==
  ASSUME Typed, Ref, socket # 0, NEW n \in Nat, sent <= n, NEW u \in Updates(n),
         NEW ref \in {assistant, 0}, SetItems(ref, u)
  PROVE  Transcript(Shown.items)' = Heard(Transcript(Shown.items), u)
<1>1. items \in Seq(Items(n)) /\ pending \in Seq(Updates(n))
  BY Wider DEF Typed, WiresTyped, ViewTyped
<1>2. Good(View(ref), n) /\ Good(View(assistant), n)
  BY <1>1 DEF Typed, ViewTyped, Good, Views, View, Ref, RefTo
<1>3. Shown' = RunAll([items |-> items', assistant |-> assistant'], pending', lastTarget')
  BY DEF Shown, View
<1>4. View(ref).items = View(assistant).items /\ View(assistant).items = items
  BY DEF View
<1>5. CASE pending' = Append(pending, u) /\ assistant' = ref /\ items' = items
  <2> DEFINE r == RunAll(View(ref), pending, lastTarget')
  <2>1. Shown' = RunAll(View(ref), Append(pending, u), lastTarget')
    BY <1>3, <1>5 DEF View
  <2>2. RunAll(View(ref), Append(pending, u), lastTarget') = Run(r, u, lastTarget')
    BY <1>1, RunAllMore
  <2>3. Good(r, n)
    BY <1>1, <1>2, RunsGood
  <2>4. Transcript(r.items) = Transcript(Shown.items)
    BY <1>1, <1>2, <1>4, RunAllTranscript DEF Shown
  <2> HIDE DEF r
  <2>5. Transcript(Run(r, u, lastTarget').items) = Heard(Transcript(r.items), u)
    BY <2>3, RunTranscript
  <2>6. Shown'.items = Run(r, u, lastTarget').items
    BY <2>1, <2>2
  <2>7. Transcript(Shown.items)' = Transcript(Shown'.items)
    OBVIOUS
  <2> QED
    BY <2>4, <2>5, <2>6, <2>7
<1>6. CASE pending = <<>> /\ ShowView(Run(View(ref), u, lastTarget)) /\ pending' = pending
  <2> DEFINE r == Run(View(ref), u, lastTarget)
  <2>1. Good(r, n)
    BY <1>2, RunGood
  <2>2. r = [items |-> r.items, assistant |-> r.assistant]
    BY <2>1 DEF Good, Views
  <2>3. Shown' = r
    BY <1>3, <1>6, <2>2, RunAllNone DEF ShowView
  <2>4. Transcript(r.items) = Heard(Transcript(items), u)
    BY <1>2, <1>4, RunTranscript
  <2>5. Shown.items = items
    BY <1>4, <1>6, RunAllNone DEF Shown
  <2> QED
    BY <2>3, <2>4, <2>5
<1> QED
  BY <1>5, <1>6 DEF SetItems

LEMMA CompleteStep == ASSUME Typed, Lifecycle, Ref, Complete, [Next]_vars PROVE Complete'
<1>0. sent \in Nat /\ pending \in Seq(Updates(sent))
  BY DEF Typed, WiresTyped, ViewTyped
<1>1. CASE Quiet
  BY <1>1 DEF Complete, Shown, View, Quiet
<1>2. ASSUME NEW k \in Connections, SignIn(k) PROVE Complete'
  <2>1. items' = <<>> /\ pending' = <<>> /\ delivered' = <<>>
    BY <1>2 DEF SignIn, Lifecycle, Empty
  <2>2. Shown' = [items |-> <<>>, assistant |-> assistant']
    BY <2>1, RunAllNone DEF Shown, View
  <2>3. Shown'.items = <<>>
    BY <2>2
  <2> QED
    BY <2>1, <2>3, TranscriptNone DEF Complete
<1>3. ASSUME NEW k \in Connections, OnToken(k) PROVE Complete'
  <2> DEFINE u == Token(Arrives(k).of)
  <2>1. SetItems(assistant, u) /\ delivered' = Append(delivered, Arrives(k).of)
    BY <1>3 DEF OnToken
  <2>2. socket # 0 /\ u \in Updates(sent) /\ u.kind = "token" /\ u.of = Arrives(k).of
    BY <1>3, Handled
  <2> HIDE DEF u
  <2>3. Transcript(Shown.items)' = Heard(Transcript(Shown.items), u)
    BY <1>0, <2>1, <2>2, SetItemsTranscript
  <2> QED
    BY <2>1, <2>2, <2>3 DEF Complete, Heard
<1>4. ASSUME NEW k \in Connections, OnError(k) PROVE Complete'
  <2> DEFINE u == Failure(Arrives(k).of)
  <2>1. SetItems(0, u) /\ delivered' = delivered
    BY <1>4 DEF OnError
  <2>2. socket # 0 /\ u \in Updates(sent) /\ u.kind = "error"
    BY <1>4, Handled
  <2> HIDE DEF u
  <2>3. Transcript(Shown.items)' = Heard(Transcript(Shown.items), u)
    BY <1>0, <2>1, <2>2, SetItemsTranscript
  <2> QED
    BY <2>1, <2>2, <2>3 DEF Complete, Heard
<1>5. ASSUME NEW k \in Connections, OnDone(k) PROVE Complete'
  <2>1. /\ socket # 0 /\ assistant' = 0 /\ UNCHANGED <<items, pending, delivered, lastTarget>>
    BY <1>5, Handled DEF OnDone
  <2>2. Good(View(assistant), sent) /\ Good(View(0), sent)
    BY <2>1, ShownGood DEF Good, Views, View, RefTo
  <2>3. View(0).items = View(assistant).items
    BY DEF View
  <2>4. Shown' = RunAll(View(0), pending, lastTarget)
    BY <2>1 DEF Shown, View
  <2>5. Transcript(Shown'.items) = Transcript(Shown.items)
    BY <1>0, <2>2, <2>3, <2>4, RunAllTranscript DEF Shown
  <2> QED
    BY <2>1, <2>5 DEF Complete
<1>6. CASE SignOut
  BY <1>6 DEF SignOut, Complete
<1>7. CASE Render
  <2>1. socket # 0
    BY <1>7 DEF Lifecycle, Empty, Render
  <2>2. items' = Shown.items /\ pending' = <<>> /\ delivered' = delivered
    BY <1>7 DEF Render, ShowView, Shown
  <2>3. Shown' = [items |-> items', assistant |-> assistant']
    BY <2>2, RunAllNone DEF Shown, View
  <2>4. Shown'.items = Shown.items
    BY <2>2, <2>3
  <2> QED
    BY <2>1, <2>2, <2>4 DEF Complete
<1>8. ASSUME NEW target \in Targets, SendMessage(target) PROVE Complete'
  <2> DEFINE u == Message(sent', target)
  <2>1. /\ SetItems(assistant, u) /\ delivered' = delivered /\ u \in Updates(sent')
        /\ u.kind = "user" /\ socket # 0 /\ sent' \in Nat /\ sent <= sent'
    BY <1>8, Messaged
  <2> HIDE DEF u
  <2>2. Transcript(Shown.items)' = Heard(Transcript(Shown.items), u)
    BY <2>1, SetItemsTranscript
  <2> QED
    BY <2>1, <2>2 DEF Complete, Heard
<1> QED
  BY <1>1, <1>2, <1>3, <1>4, <1>5, <1>6, <1>7, <1>8, StepCases, QuietSteps, QuietStepsOfAll
     DEF StepOfAll

(***************************************************************************)
(* The dividers.                                                           *)
(***************************************************************************)
LEMMA SetItemsDividers ==
  ASSUME Typed, Ref, socket # 0, LastMessage, DividersTrue, NEW u \in Updates(sent),
         u.kind # "user", NEW ref \in {assistant, 0}, SetItems(ref, u),
         UNCHANGED <<socket, lastTarget, deferred>>
  PROVE  LastMessage' /\ DividersTrue'
<1>0. sent \in Nat /\ pending \in Seq(Updates(sent))
  BY DEF Typed, WiresTyped, ViewTyped
<1>1. CASE pending' = Append(pending, u) /\ items' = items
  <2>1. /\ DOMAIN pending' = 1..(Len(pending) + 1) /\ DOMAIN pending = 1..Len(pending)
        /\ pending'[Len(pending) + 1] = u
        /\ \A i \in DOMAIN pending : pending'[i] = pending[i]
    BY <1>0, <1>1
  <2>2. \A i \in DOMAIN pending' : pending'[i].kind = "user" =>
          i \in DOMAIN pending /\ pending[i] = pending'[i]
    BY <1>0, <2>1
  <2>3. NoMessage(pending') => NoMessage(pending)
    BY <1>0, <2>1 DEF NoMessage
  <2> QED
    BY <1>1, <2>2, <2>3 DEF LastMessage, DividersTrue
<1>2. CASE pending = <<>> /\ ShowView(Run(View(ref), u, lastTarget)) /\ pending' = pending
  <2> DEFINE v == View(ref)
  <2>1. NoMessage(pending) /\ LastIs(items, lastTarget)
    BY <1>2 DEF LastMessage, NoMessage
  <2>2. v.items = items /\ Good(v, sent)
    BY <1>0, SetItemsGood DEF View
  <2> HIDE DEF v
  <2>3. /\ Divided(v.items, deferred) /\ ~AfterDivider(v.items, Len(v.items) + 1)
        /\ LastIs(v.items, lastTarget)
    BY <2>1, <2>2 DEF LastMessage, DividersTrue
  <2>4. LET list == Run(v, u, lastTarget).items
        IN  /\ Divided(list, deferred) /\ ~AfterDivider(list, Len(list) + 1)
            /\ LastIs(list, lastTarget)
    BY <1>0, <2>2, <2>3, RunDivided
  <2>5. items' = Run(v, u, lastTarget).items
    BY <1>2 DEF ShowView, v
  <2> QED
    BY <1>2, <2>4, <2>5 DEF LastMessage, DividersTrue
<1> QED
  BY <1>1, <1>2 DEF SetItems

LEMMA DividersStep ==
  ASSUME Typed, Lifecycle, Ref, LastMessage, DividersTrue, [Next]_vars
  PROVE  LastMessage' /\ DividersTrue'
<1>0. sent \in Nat /\ pending \in Seq(Updates(sent)) /\ items \in Seq(Items(sent))
  BY DEF Typed, WiresTyped, ViewTyped
<1>1. CASE Quiet
  BY <1>1 DEF LastMessage, DividersTrue, Quiet
<1>2. ASSUME items' = <<>>, pending' = <<>>, lastTarget' = None \/ socket' = 0
      PROVE  LastMessage' /\ DividersTrue'
  BY <1>2 DEF LastMessage, DividersTrue, LastIs, AfterDivider, Divided
<1>3. ASSUME NEW k \in Connections, SignIn(k) PROVE LastMessage' /\ DividersTrue'
  <2>1. items' = <<>> /\ pending' = <<>> /\ lastTarget' = None
    BY <1>3 DEF SignIn, ResetRefs, Lifecycle, Empty
  <2> QED
    BY <1>2, <2>1
<1>4. CASE SignOut
  BY <1>2, <1>4 DEF SignOut
<1>5. ASSUME NEW k \in Connections, OnToken(k) PROVE LastMessage' /\ DividersTrue'
  <2>1. SetItems(assistant, Token(Arrives(k).of))
    BY <1>5 DEF OnToken
  <2> QED
    BY <1>5, <2>1, Handled, SetItemsDividers
<1>6. ASSUME NEW k \in Connections, OnError(k) PROVE LastMessage' /\ DividersTrue'
  <2>1. SetItems(0, Failure(Arrives(k).of))
    BY <1>6 DEF OnError
  <2> QED
    BY <1>6, <2>1, Handled, SetItemsDividers
<1>7. ASSUME NEW k \in Connections, OnDone(k) PROVE LastMessage' /\ DividersTrue'
  BY <1>7, Handled DEF OnDone, LastMessage, DividersTrue
<1>8. CASE Render
  <2> DEFINE v == View(assistant)
  <2>1. socket # 0
    BY <1>8 DEF Lifecycle, Empty, Render
  <2>2. items' = RunAll(v, pending, lastTarget).items /\ pending' = <<>>
        /\ UNCHANGED <<lastTarget, deferred, socket>>
    BY <1>8 DEF Render, ShowView
  <2>3. v.items = items /\ Good(v, sent)
    BY <2>1, ShownGood DEF View
  <2> HIDE DEF v
  <2>4. /\ Divided(v.items, deferred) /\ ~AfterDivider(v.items, Len(v.items) + 1)
        /\ NoMessage(pending) => LastIs(v.items, lastTarget)
        /\ \A i \in DOMAIN pending : pending[i].kind = "user" =>
             /\ lastTarget # None /\ pending[i].target = lastTarget
             /\ pending[i].of \in deferred
    BY <2>1, <2>3 DEF LastMessage, DividersTrue
  <2>5. LET list == RunAll(v, pending, lastTarget).items
        IN  /\ Divided(list, deferred) /\ ~AfterDivider(list, Len(list) + 1)
            /\ LastIs(list, lastTarget)
    BY <1>0, <2>3, <2>4, RunsDivided
  <2> QED
    BY <2>2, <2>5 DEF LastMessage, DividersTrue
<1>9. ASSUME NEW target \in Targets, SendMessage(target) PROVE LastMessage' /\ DividersTrue'
  <2> DEFINE u == Message(sent', target)
  <2>1. /\ SetItems(assistant, u) /\ u \in Updates(sent') /\ u.kind = "user" /\ u.of = sent'
        /\ u.target = target /\ target # None /\ lastTarget' = target /\ NoMessage(pending)
        /\ socket # 0 /\ socket' = socket /\ sent' \in Nat /\ sent <= sent'
    BY <1>9, Messaged
  <2>2. deferred' = IF pending' = <<>> THEN deferred ELSE deferred \cup {sent'}
    BY <1>9 DEF SendMessage
  <2>3. LastIs(items, lastTarget)
    BY <2>1 DEF LastMessage
  <2> HIDE DEF u
  <2>4. CASE pending' = Append(pending, u) /\ items' = items
    <3>1. /\ DOMAIN pending' = 1..(Len(pending) + 1) /\ DOMAIN pending = 1..Len(pending)
          /\ pending'[Len(pending) + 1] = u /\ Len(pending) \in Nat
          /\ \A i \in DOMAIN pending : pending'[i] = pending[i]
      <4>1. pending \in Seq(Updates(sent'))
        BY <1>0, <2>1, Wider
      <4> QED
        BY <2>1, <2>4, <4>1
    <3>2. pending' # <<>>
      BY <3>1
    <3>3. deferred' = deferred \cup {sent'}
      BY <2>2, <3>2
    <3>4. \A i \in DOMAIN pending' : pending'[i].kind = "user" => i = Len(pending) + 1
      BY <2>1, <3>1 DEF NoMessage
    <3>5. ~NoMessage(pending')
      BY <2>1, <3>1 DEF NoMessage
    <3>6. Divided(items, deferred')
      BY <3>3 DEF DividersTrue, Divided
    <3> QED
      BY <2>1, <2>4, <3>1, <3>3, <3>4, <3>5, <3>6 DEF LastMessage, DividersTrue
  <2>5. CASE pending = <<>> /\ ShowView(Run(View(assistant), u, lastTarget)) /\ pending' = pending
    <3> DEFINE v == View(assistant)
    <3>1. v.items = items /\ Good(v, sent')
      BY <2>1, SetItemsGood DEF View
    <3> HIDE DEF v
    <3>2. /\ Divided(v.items, deferred) /\ ~AfterDivider(v.items, Len(v.items) + 1)
          /\ LastIs(v.items, lastTarget)
      BY <2>3, <3>1 DEF LastMessage, DividersTrue
    <3>3. LET list == Run(v, u, lastTarget).items
          IN  /\ Divided(list, deferred) /\ ~AfterDivider(list, Len(list) + 1)
              /\ LastIs(list, target)
      BY <2>1, <3>1, <3>2, RunDivided
    <3>4. items' = Run(v, u, lastTarget).items /\ deferred' = deferred
      BY <2>2, <2>5 DEF ShowView, v
    <3> QED
      BY <2>1, <2>5, <3>3, <3>4 DEF LastMessage, DividersTrue
  <2> QED
    BY <2>1, <2>4, <2>5 DEF SetItems
<1> QED
  BY <1>1, <1>3, <1>4, <1>5, <1>6, <1>7, <1>8, <1>9, StepCases, QuietSteps, QuietStepsOfAll
     DEF StepOfAll

(***************************************************************************)
(* The bubbles: tokens that may still share one.                           *)
(***************************************************************************)
LEMMA BubbleTyped ==
  ASSUME NEW n \in Nat, NEW v, Good(v, n), NEW x, InBubble(v, x)
  PROVE  x \in 1..n
<1>1. v.items \in Seq(Items(n)) /\ v.assistant \in DOMAIN v.items
      /\ v.items[v.assistant].kind = "assistant"
  BY DEF Good, Views, RefTo, IsBubble, InBubble
<1>2. v.items[v.assistant] \in Items(n)
  BY <1>1
<1>3. v.items[v.assistant].text \in Seq(1..n)
  BY <1>1, <1>2 DEF Items, Bubbles, Notes
<1>4. PICK a \in DOMAIN v.items[v.assistant].text : x = v.items[v.assistant].text[a]
  BY DEF InBubble
<1> QED
  BY <1>3, <1>4

LEMMA OpenTyped ==
  ASSUME Typed, Ref, socket # 0, NEW x, IsOpen(x)
  PROVE  x \in 1..sent
<1>0. sent \in Nat /\ pending \in Seq(Updates(sent))
  BY DEF Typed, WiresTyped, ViewTyped
<1>1. CASE Awaits(x)
  <2>1. PICK i \in DOMAIN pending : pending[i].of = x
    BY <1>1 DEF Awaits, Adds
  <2>2. pending[i] \in Updates(sent)
    BY <1>0
  <2> QED
    BY <2>1, <2>2 DEF Updates
<1>2. CASE InBubble(View(assistant), x)
  BY <1>0, <1>2, ShownGood, BubbleTyped
<1> QED
  BY <1>1, <1>2 DEF IsOpen

LEMMA SetItemsUnmixed ==
  ASSUME Typed, Ref, socket # 0, Unmixed, sent' \in Nat, sent <= sent', NEW u \in Updates(sent'),
         NEW ref \in {assistant, 0}, SetItems(ref, u),
         socket' = socket, slipped \subseteq slipped',
         u.kind = "token" => \A x \in 1..sent : IsOpen(x) => x \in {u.of} \cup slipped
  PROVE  /\ Unmixed'
         /\ \A x : IsOpen(x)' => \/ Awaits(x) \/ (u.kind = "token" /\ x = u.of)
                                 \/ ref = assistant /\ InBubble(View(assistant), x)
<1>0. sent \in Nat /\ pending \in Seq(Updates(sent)) /\ pending \in Seq(Updates(sent'))
      /\ DOMAIN pending = 1..Len(pending) /\ Len(pending) \in Nat
  <2>1. sent \in Nat /\ pending \in Seq(Updates(sent))
    BY DEF Typed, WiresTyped, ViewTyped
  <2>2. pending \in Seq(Updates(sent'))
    BY <2>1, Wider
  <2> QED
    BY <2>1, <2>2
<1>1. \A x : InBubble(View(ref), x) => ref = assistant /\ InBubble(View(assistant), x)
  BY DEF InBubble, View
<1>2. \A x : IsOpen(x) => x \in 1..sent
  BY OpenTyped
<1>3. CASE pending' = Append(pending, u) /\ assistant' = ref /\ items' = items
  <2> DEFINE m == Len(pending)
  <2>1. /\ DOMAIN pending' = 1..(m + 1) /\ pending'[m + 1] = u
        /\ \A i \in 1..m : pending'[i] = pending[i]
    BY <1>0, <1>3
  <2>2. \A x : InBubble(View(assistant), x)' => InBubble(View(ref), x)
    BY <1>3 DEF InBubble, View
  <2>3. \A x : Awaits(x)' => Awaits(x) \/ (u.kind = "token" /\ x = u.of)
    BY <1>0, <2>1 DEF Awaits, Adds, IsToken
  <2>4. Whole(items', slipped')
    BY <1>3 DEF Unmixed, Whole
  <2>5. ASSUME NEW j \in DOMAIN pending', NEW i \in 1..(j - 1), IsToken(i)', IsToken(j)'
        PROVE  pending'[i].of \in {pending'[j].of} \cup slipped'
    <3>1. i \in 1..m /\ pending'[i] = pending[i] /\ IsToken(i)
      BY <1>0, <2>1, <2>5 DEF IsToken
    <3>2. CASE j = m + 1
      <4>1. Awaits(pending[i].of)
        BY <1>0, <3>1 DEF Awaits, Adds, IsToken
      <4>2. pending[i].of \in {u.of} \cup slipped /\ pending'[j] = u
        BY <1>2, <2>1, <2>5, <3>2, <4>1 DEF IsOpen, IsToken
      <4> QED
        BY <3>1, <4>2
    <3>3. CASE j \in 1..m
      BY <1>0, <2>1, <2>5, <3>1, <3>3 DEF Unmixed, IsToken
    <3> QED
      BY <1>0, <2>1, <3>2, <3>3
  <2>6. ASSUME NEW x \in 1..sent', NEW j \in DOMAIN pending',
               InBubble(View(assistant), x)', IsToken(j)'
        PROVE  x \in {pending'[j].of} \cup slipped'
    <3>1. InBubble(View(assistant), x) /\ x \in 1..sent
      BY <1>1, <1>2, <2>2, <2>6 DEF IsOpen
    <3>2. CASE j = m + 1
      BY <2>1, <2>6, <3>1, <3>2 DEF IsOpen, IsToken
    <3>3. CASE j \in 1..m
      BY <1>0, <2>1, <2>6, <3>1, <3>3 DEF Unmixed, IsToken
    <3> QED
      BY <1>0, <2>1, <3>2, <3>3
  <2>7. Unmixed'
    BY <2>4, <2>5, <2>6 DEF Unmixed
  <2> QED
    BY <1>1, <2>2, <2>3, <2>7 DEF IsOpen
<1>4. CASE pending = <<>> /\ ShowView(Run(View(ref), u, lastTarget)) /\ pending' = pending
  <2> DEFINE v == View(ref)
             r == Run(v, u, lastTarget)
  <2>1. Good(v, sent') /\ v.items = items
    BY SetItemsGood DEF View
  <2>2. Whole(v.items, slipped')
    BY <2>1 DEF Unmixed, Whole
  <2>3. u.kind = "token" => \A x \in 1..sent' : InBubble(v, x) => x \in {u.of} \cup slipped'
    BY <1>1, <1>2 DEF IsOpen
  <2>4. Good(r, sent')
    BY <2>1, RunGood
  <2> HIDE DEF v
  <2>5. /\ Whole(r.items, slipped')
        /\ \A x \in 1..sent' : InBubble(r, x) => InBubble(v, x) \/ (u.kind = "token" /\ u.of = x)
    BY <2>1, <2>2, <2>3, RunWhole
  <2>6. items' = r.items /\ assistant' = r.assistant
    BY <1>4 DEF ShowView, v
  <2> HIDE DEF r
  <2>7. \A x : IsOpen(x)' => InBubble(r, x)
    BY <1>4, <2>6 DEF IsOpen, Awaits, Adds, InBubble, View
  <2>8. \A x : InBubble(r, x) => x \in 1..sent'
    BY <2>4, BubbleTyped
  <2>9. Unmixed'
    BY <1>4, <2>5, <2>6 DEF Unmixed
  <2> QED
    BY <1>1, <2>5, <2>7, <2>8, <2>9 DEF v
<1> QED
  BY <1>3, <1>4 DEF SetItems

LEMMA ShownUnmixed ==
  ASSUME Typed, Ref, socket # 0, Unmixed
  PROVE  /\ Whole(Shown.items, slipped)
         /\ \A x : InBubble(Shown, x) => IsOpen(x)
<1> DEFINE v == View(assistant)
<1>1. /\ sent \in Nat /\ v.items = items /\ Good(v, sent) /\ Good(Shown, sent)
      /\ pending \in Seq(Updates(sent))
  BY ShownGood DEF View, Typed, WiresTyped, ViewTyped
<1>2. Whole(v.items, slipped)
  BY <1>1 DEF Unmixed
<1>3. \A j \in DOMAIN pending : \A i \in 1..(j - 1) :
        pending[i].kind = "token" /\ pending[j].kind = "token" =>
          pending[i].of \in {pending[j].of} \cup slipped
  BY DEF Unmixed, IsToken
<1>4. \A x \in 1..sent : \A j \in DOMAIN pending :
        InBubble(v, x) /\ pending[j].kind = "token" => x \in {pending[j].of} \cup slipped
  BY DEF Unmixed, IsToken
<1>5. Shown = RunAll(v, pending, lastTarget)
  BY DEF Shown
<1> HIDE DEF v
<1>6. /\ Whole(RunAll(v, pending, lastTarget).items, slipped)
      /\ \A x \in 1..sent : InBubble(RunAll(v, pending, lastTarget), x) =>
           InBubble(v, x) \/ Adds(x, pending)
  BY <1>1, <1>2, <1>3, <1>4, RunsWhole
<1>7. \A x : InBubble(Shown, x) => x \in 1..sent
  BY <1>1, BubbleTyped
<1> QED
  BY <1>5, <1>6, <1>7 DEF IsOpen, Awaits, Adds, IsToken, v

(* The trail of frames behind a token. *)
LEMMA EndsMore ==
  ASSUME NEW x, NEW frames, NEW i, NEW S, NEW G, NEW T, NEW H, Ends(x, frames, i, S, G),
         S \subseteq T, x \in G => x \in T \cup H
  PROVE  Ends(x, frames, i, T, H)
BY DEF Ends

LEMMA EndsAppend ==
  ASSUME NEW x, NEW W, NEW frames \in Seq(W), NEW frame \in W, NEW i \in 1..(Len(frames) + 1),
         NEW S, NEW G, NEW T, NEW H, Ends(x, frames, i, S, G), S \subseteq T,
         x \in G => frame = Close \/ x \in {frame.of} \cup T,
         x \in G /\ frame.type = "token" => x \in T \cup H
  PROVE  Ends(x, Append(frames, frame), i, T, H)
<1> DEFINE l == Len(frames)
           more == Append(frames, frame)
<1>1. l \in Nat /\ Len(more) = l + 1 /\ more[l + 1] = frame
      /\ \A j \in 1..l : more[j] = frames[j]
  OBVIOUS
<1>2. i \in 1..(l + 1)
  OBVIOUS
<1> HIDE DEF l, more
<1>3. ASSUME NEW j \in i..(l + 1) PROVE Streams(more, i, j - 1) <=> Streams(frames, i, j - 1)
  <2>1. \A k \in i..(j - 1) : k \in 1..l
    BY <1>1, <1>2
  <2> QED
    BY <1>1, <2>1 DEF Streams
<1>4. ASSUME NEW j \in i..(l + 1), Streams(more, i, j - 1), more[j] # Close
      PROVE  x \in {more[j].of} \cup T
  <2>1. CASE j = l + 1
    <3>1. Streams(frames, i, l)
      BY <1>1, <1>3, <1>4, <2>1
    <3> QED
      BY <1>1, <1>4, <2>1, <3>1 DEF Ends, l
  <2>2. CASE j # l + 1
    <3>1. j \in i..l /\ more[j] = frames[j]
      BY <1>1, <1>2, <2>2
    <3> QED
      BY <1>3, <1>4, <3>1 DEF Ends, l
  <2> QED
    BY <2>1, <2>2
<1>5. ASSUME Streams(more, i, l + 1) PROVE x \in T \cup H
  <2>1. frame.type = "token"
    BY <1>1, <1>2, <1>5 DEF Streams
  <2>2. Streams(frames, i, l)
    BY <1>1, <1>2, <1>5 DEF Streams
  <2> QED
    BY <2>1, <2>2 DEF Ends, l
<1> QED
  BY <1>1, <1>4, <1>5 DEF Ends, more

LEMMA EndsTail ==
  ASSUME NEW x, NEW W, NEW frames \in Seq(W), frames # <<>>, NEW i \in Nat, i >= 1,
         NEW S, NEW G, Ends(x, frames, i + 1, S, G)
  PROVE  Ends(x, Tail(frames), i, S, G)
<1> DEFINE l == Len(frames)
           less == Tail(frames)
<1>1. l \in Nat /\ l >= 1 /\ Len(less) = l - 1 /\ \A j \in 1..(l - 1) : less[j] = frames[j + 1]
  OBVIOUS
<1> HIDE DEF l, less
<1>2. ASSUME NEW j \in Nat, j <= l - 1, Streams(less, i, j) PROVE Streams(frames, i + 1, j + 1)
  <2> SUFFICES ASSUME NEW k \in (i + 1)..(j + 1) PROVE frames[k].type = "token"
    BY DEF Streams
  <2>1. k - 1 \in i..j /\ k - 1 \in 1..(l - 1) /\ (k - 1) + 1 = k
    BY <1>1, <1>2
  <2> QED
    BY <1>1, <1>2, <2>1 DEF Streams
<1>3. ASSUME NEW j \in i..(l - 1), Streams(less, i, j - 1), less[j] # Close
      PROVE  x \in {less[j].of} \cup S
  <2>1. j + 1 \in (i + 1)..l /\ less[j] = frames[j + 1] /\ (j + 1) - 1 = (j - 1) + 1
        /\ j - 1 \in Nat /\ j - 1 <= l - 1
    BY <1>1
  <2>2. Streams(frames, i + 1, (j + 1) - 1)
    BY <1>2, <1>3, <2>1
  <2> QED
    BY <1>3, <2>1, <2>2 DEF Ends, l
<1>4. ASSUME Streams(less, i, l - 1) PROVE x \in S \cup G
  <2>1. Streams(frames, i + 1, l)
    BY <1>1, <1>2, <1>4
  <2> QED
    BY <2>1 DEF Ends, l
<1> QED
  BY <1>1, <1>3, <1>4 DEF Ends, less

LEMMA EndsHead ==
  ASSUME NEW x, NEW W, NEW frames \in Seq(W), frames # <<>>, NEW S, NEW G,
         Ends(x, frames, 1, S, G), Head(frames) # Close
  PROVE  /\ x \in {Head(frames).of} \cup S
         /\ Head(frames).type = "token" => Ends(x, frames, 2, S, G)
<1>1. Len(frames) \in Nat /\ Len(frames) >= 1 /\ Head(frames) = frames[1]
  OBVIOUS
<1>2. Streams(frames, 1, 0)
  BY DEF Streams
<1>3. x \in {Head(frames).of} \cup S
  BY <1>1, <1>2 DEF Ends
<1>4. ASSUME frames[1].type = "token", NEW j \in Nat, Streams(frames, 2, j)
      PROVE  Streams(frames, 1, j)
  BY <1>4 DEF Streams
<1>5. ASSUME frames[1].type = "token" PROVE Ends(x, frames, 2, S, G)
  <2>1. ASSUME NEW j \in 2..Len(frames), Streams(frames, 2, j - 1), frames[j] # Close
        PROVE  x \in {frames[j].of} \cup S
    <3>1. j \in 1..Len(frames) /\ j - 1 \in Nat
      BY <1>1
    <3>2. Streams(frames, 1, j - 1)
      BY <1>4, <1>5, <2>1, <3>1
    <3> QED
      BY <2>1, <3>1, <3>2 DEF Ends
  <2>2. Streams(frames, 2, Len(frames)) => x \in S \cup G
    BY <1>1, <1>4, <1>5 DEF Ends
  <2> QED
    BY <2>1, <2>2 DEF Ends
<1> QED
  BY <1>1, <1>3, <1>5

(* One frame less on the wire to the sign-in's socket. *)
LEMMA AnsweringTail ==
  ASSUME Typed, Ref, Answering, socket # 0, ready[socket] = "open", outbox[socket] # <<>>,
         Head(outbox[socket]) # Close
  PROVE  /\ \A x : IsOpen(x) => x \in {Head(outbox[socket]).of} \cup slipped
         /\ Head(outbox[socket]).type = "token" =>
              \A x : IsOpen(x) \/ x = Head(outbox[socket]).of =>
                Ends(x, Tail(outbox[socket]), 1, slipped, Going)
         /\ \A i \in DOMAIN Tail(outbox[socket]) : Tail(outbox[socket])[i].type = "token" =>
              Ends(Tail(outbox[socket])[i].of, Tail(outbox[socket]), i + 1, slipped, Going)
<1> DEFINE frames == outbox[socket]
           less == Tail(frames)
<1>1. frames \in Seq(Wires(sent)) /\ frames # <<>> /\ Head(frames) # Close
  BY DEF Typed, WiresTyped, HookTyped
<1>2. /\ \A x : IsOpen(x) => Ends(x, frames, 1, slipped, Going)
      /\ \A i \in DOMAIN frames : frames[i].type = "token" =>
           Ends(frames[i].of, frames, i + 1, slipped, Going)
  BY OpenTyped DEF Answering
<1> HIDE DEF frames
<1>3. /\ Head(frames) = frames[1] /\ 1 \in DOMAIN frames /\ Len(frames) \in Nat
      /\ DOMAIN less = 1..(Len(frames) - 1) /\ \A i \in DOMAIN less : less[i] = frames[i + 1]
      /\ \A i \in DOMAIN less : i + 1 \in DOMAIN frames /\ i + 1 \in Nat /\ i \in Nat /\ i >= 1
  BY <1>1
<1>4. \A x : IsOpen(x) => x \in {Head(frames).of} \cup slipped
  BY <1>1, <1>2, EndsHead
<1>5. ASSUME Head(frames).type = "token", NEW x, IsOpen(x) \/ x = Head(frames).of
      PROVE  Ends(x, less, 1, slipped, Going)
  <2>1. Ends(x, frames, 1 + 1, slipped, Going)
    <3>1. CASE IsOpen(x)
      BY <1>1, <1>2, <1>5, <3>1, EndsHead
    <3>2. CASE x = Head(frames).of
      BY <1>2, <1>3, <1>5, <3>2
    <3> QED
      BY <1>5, <3>1, <3>2
  <2> QED
    BY <1>1, <2>1, EndsTail
<1>6. ASSUME NEW i \in DOMAIN less, less[i].type = "token"
      PROVE  Ends(less[i].of, less, i + 1, slipped, Going)
  <2>1. Ends(less[i].of, frames, (i + 1) + 1, slipped, Going)
    BY <1>2, <1>3, <1>6
  <2> QED
    BY <1>1, <1>3, <2>1, EndsTail
<1> QED
  BY <1>4, <1>5, <1>6 DEF frames

LEMMA UnmixedStep ==
  ASSUME Typed, Lifecycle, Ref, Unmixed, Answering, [Next]_vars PROVE Unmixed'
<1>0. sent \in Nat
  BY DEF Typed, WiresTyped
<1>1. CASE Quiet /\ slipped \subseteq slipped'
  BY <1>1 DEF Unmixed, Whole, Quiet, InBubble, View, IsToken
<1>2. ASSUME items' = <<>>, pending' = <<>>, assistant' = 0 \/ socket' = 0 PROVE Unmixed'
  BY <1>2 DEF Unmixed, Whole, InBubble, View
<1>3. ASSUME NEW k \in Connections, SignIn(k) PROVE Unmixed'
  BY <1>2, <1>3 DEF SignIn, ResetRefs, Lifecycle, Empty
<1>4. CASE SignOut
  BY <1>2, <1>4 DEF SignOut
<1>5. ASSUME NEW k \in Connections, OnToken(k) PROVE Unmixed'
  <2> DEFINE u == Token(Arrives(k).of)
  <2>1. /\ SetItems(assistant, u) /\ slipped' = slipped /\ Arrival(k) /\ Arrives(k).type = "token"
      BY <1>5 DEF OnToken, OnMessage
  <2>2. /\ u \in Updates(sent) /\ u.of = Arrives(k).of /\ k = socket /\ socket # 0
        /\ ready[socket] = "open" /\ UNCHANGED <<socket, sent>>
    BY <1>5, Handled
  <2>3. outbox[socket] # <<>> /\ Head(outbox[socket]) # Close
    BY <2>1, <2>2 DEF Arrival, Arrives, Close, Wire
  <2>4. \A x : IsOpen(x) => x \in {u.of} \cup slipped
    BY <2>2, <2>3, AnsweringTail DEF Arrives
  <2> HIDE DEF u
  <2> QED
    BY <1>0, <2>1, <2>2, <2>4, SetItemsUnmixed
<1>6. ASSUME NEW k \in Connections, OnError(k) PROVE Unmixed'
  <2> DEFINE u == Failure(Arrives(k).of)
  <2>1. SetItems(0, u) /\ slipped \subseteq slipped'
      BY <1>6 DEF OnError, Slips
  <2>2. /\ u \in Updates(sent) /\ u.kind = "error" /\ socket # 0 /\ UNCHANGED <<socket, sent>>
    BY <1>6, Handled
  <2> HIDE DEF u
  <2> QED
    BY <1>0, <2>1, <2>2, SetItemsUnmixed
<1>7. ASSUME NEW k \in Connections, OnDone(k) PROVE Unmixed'
  <2>1. /\ assistant' = 0 /\ slipped \subseteq slipped'
        /\ UNCHANGED <<items, pending, socket, sent>>
    BY <1>7, Handled DEF OnDone, Slips
  <2> QED
    BY <2>1 DEF Unmixed, Whole, InBubble, View, IsToken
<1>8. CASE Render
  <2>1. socket # 0
    BY <1>8 DEF Lifecycle, Empty, Render
  <2>2. items' = Shown.items /\ pending' = <<>> /\ UNCHANGED <<slipped, socket, sent>>
    BY <1>8 DEF Render, ShowView, Shown
  <2>3. Whole(Shown.items, slipped)
    BY <2>1, ShownUnmixed
  <2> QED
    BY <2>2, <2>3 DEF Unmixed
<1>9. ASSUME NEW target \in Targets, SendMessage(target) PROVE Unmixed'
  BY <1>9, Messaged, SetItemsUnmixed
<1> QED
  BY <1>1, <1>3, <1>4, <1>5, <1>6, <1>7, <1>8, <1>9, StepCases, QuietSteps, QuietStepsOfAll
     DEF StepOfAll

(* Nothing is added to the wire of the sign-in's socket. *)
LEMMA AnsweringSame ==
  ASSUME Typed, Ref, Answering, socket' = socket, outbox'[socket] = outbox[socket],
         ready'[socket] = "open" => ready[socket] = "open", slipped \subseteq slipped',
         \A x : IsOpen(x)' => IsOpen(x),
         \A x \in Going : x \in slipped' \cup Going'
  PROVE  Answering'
<1> SUFFICES ASSUME socket # 0, ready[socket] = "open"
             PROVE  /\ \A x : IsOpen(x)' => Ends(x, outbox[socket], 1, slipped', Going')
                    /\ \A i \in DOMAIN outbox[socket] : outbox[socket][i].type = "token" =>
                         Ends(outbox[socket][i].of, outbox[socket], i + 1, slipped', Going')
  BY DEF Answering
<1>1. ASSUME NEW x, IsOpen(x)' PROVE Ends(x, outbox[socket], 1, slipped', Going')
  <2>1. Ends(x, outbox[socket], 1, slipped, Going)
    BY <1>1, OpenTyped DEF Answering
  <2> QED
    BY <2>1, EndsMore
<1>2. ASSUME NEW i \in DOMAIN outbox[socket], outbox[socket][i].type = "token"
      PROVE  Ends(outbox[socket][i].of, outbox[socket], i + 1, slipped', Going')
  <2>1. Ends(outbox[socket][i].of, outbox[socket], i + 1, slipped, Going)
    BY <1>2 DEF Answering
  <2> QED
    BY <2>1, EndsMore
<1> QED
  BY <1>1, <1>2

(* One frame more on the wire to the sign-in's socket. *)
LEMMA AnsweringMore ==
  ASSUME Typed, Ref, Answering, socket' = socket, socket # 0, ready' = ready,
         UNCHANGED <<items, pending, assistant>>, NEW frame \in Wires(sent),
         outbox'[socket] = Append(outbox[socket], frame), slipped \subseteq slipped',
         \A x \in Going : frame = Close \/ x \in {frame.of} \cup slipped',
         frame.type = "token" => \A x \in Going \cup {frame.of} : x \in slipped' \cup Going'
  PROVE  Answering'
<1> DEFINE frames == outbox[socket]
           more == Append(frames, frame)
<1>1. frames \in Seq(Wires(sent))
  BY DEF Typed, WiresTyped, HookTyped
<1> SUFFICES ASSUME ready[socket] = "open"
             PROVE  /\ \A x : IsOpen(x)' => Ends(x, more, 1, slipped', Going')
                    /\ \A i \in DOMAIN more : more[i].type = "token" =>
                         Ends(more[i].of, more, i + 1, slipped', Going')
  BY DEF Answering
<1>2. \A x : IsOpen(x)' => IsOpen(x)
  BY DEF IsOpen, InBubble, View, Awaits, Adds, IsToken
<1>3. /\ \A x : IsOpen(x) => Ends(x, frames, 1, slipped, Going)
      /\ \A i \in DOMAIN frames : frames[i].type = "token" =>
           Ends(frames[i].of, frames, i + 1, slipped, Going)
  BY OpenTyped DEF Answering
<1> HIDE DEF frames
<1>4. /\ Len(frames) \in Nat /\ DOMAIN frames = 1..Len(frames) /\ Len(more) = Len(frames) + 1
      /\ DOMAIN more = 1..(Len(frames) + 1) /\ more[Len(frames) + 1] = frame
      /\ \A i \in DOMAIN frames : more[i] = frames[i]
  BY <1>1
<1>5. ASSUME NEW x, NEW i \in 1..(Len(frames) + 1), Ends(x, frames, i, slipped, Going)
      PROVE  Ends(x, more, i, slipped', Going')
  BY <1>1, <1>5, EndsAppend
<1>6. ASSUME NEW x, IsOpen(x)' PROVE Ends(x, more, 1, slipped', Going')
  BY <1>2, <1>3, <1>4, <1>5, <1>6
<1>7. ASSUME NEW i \in DOMAIN more, more[i].type = "token"
      PROVE  Ends(more[i].of, more, i + 1, slipped', Going')
  <2>1. CASE i = Len(frames) + 1
    <3>1. frame.of \in slipped' \cup Going'
      BY <1>4, <1>7, <2>1
    <3> HIDE DEF more
    <3> QED
      BY <1>4, <2>1, <3>1 DEF Ends
  <2>2. CASE i \in DOMAIN frames
    <3>1. i + 1 \in 1..(Len(frames) + 1) /\ more[i] = frames[i]
      BY <1>4, <2>2
    <3>2. Ends(frames[i].of, frames, i + 1, slipped, Going)
      BY <1>3, <1>7, <2>2, <3>1
    <3> QED
      BY <1>5, <3>1, <3>2
  <2> QED
    BY <1>4, <2>1, <2>2
<1> QED
  BY <1>6, <1>7

(* One frame less, that was handled. *)
LEMMA AnsweringLess ==
  ASSUME Typed, Ref, Answering, socket' = socket, socket # 0, ready[socket] = "open",
         outbox[socket] # <<>>, Head(outbox[socket]) # Close,
         outbox'[socket] = Tail(outbox[socket]), slipped \subseteq slipped', Going' = Going,
         \A x : IsOpen(x)' => x \in slipped' \/ Ends(x, Tail(outbox[socket]), 1, slipped, Going)
  PROVE  Answering'
<1> DEFINE less == Tail(outbox[socket])
<1>1. ASSUME NEW x, IsOpen(x)' PROVE Ends(x, less, 1, slipped', Going')
  <2>1. CASE x \in slipped'
    BY <2>1 DEF Ends
  <2>2. CASE Ends(x, less, 1, slipped, Going)
    BY <2>2, EndsMore
  <2> QED
    BY <1>1, <2>1, <2>2
<1>2. ASSUME NEW i \in DOMAIN less, less[i].type = "token"
      PROVE  Ends(less[i].of, less, i + 1, slipped', Going')
  <2>1. Ends(less[i].of, less, i + 1, slipped, Going)
    BY <1>2, AnsweringTail
  <2> QED
    BY <2>1, EndsMore
<1> QED
  BY <1>1, <1>2 DEF Answering

LEMMA AnsweringStep ==
  ASSUME Typed, Lifecycle, Ref, Unmixed, Answering, [Next]_vars PROVE Answering'
<1> USE SocketAssumption
<1>0. /\ sent \in Nat /\ Close \in Wires(sent) /\ ready \in [Connections -> States]
      /\ phase \in [Connections -> Phases] /\ answered \in [Connections -> Nat]
      /\ inTurn \in [Connections -> 0..sent]
      /\ outbox \in [Connections -> Seq(Wires(sent))]
      /\ socket # 0 => socket \in Connections
      /\ \A k \in Connections : k # 0
  BY DEF Typed, FramesTyped, WiresTyped, TurnsTyped, HookTyped, Wires
<1>1. ASSUME UNCHANGED <<items, pending, assistant>> PROVE \A x : IsOpen(x)' => IsOpen(x)
  BY <1>1 DEF IsOpen, InBubble, View, Awaits, Adds, IsToken
<1>2. ASSUME UNCHANGED <<frameVars, inTurn, socket>> PROVE Going' = Going
  BY <1>2 DEF Going, frameVars
<1>3. ASSUME NEW k \in Connections, StepOf(k) PROVE Answering'
  <2>1. CASE SignIn(k)
    BY <1>0, <2>1 DEF SignIn, Answering
  <2>2. CASE CannotOpen(k)
    BY <1>0, <2>2 DEF CannotOpen, Answering
  <2>3. CASE Opened(k)
    <3>1. k = socket /\ outbox[k] = <<>> /\ items = <<>> /\ pending = <<>> /\ assistant = 0
      BY <2>3 DEF Opened, Lifecycle, Empty
    <3>2. UNCHANGED <<outbox, items, pending, assistant, socket>>
      BY <2>3 DEF Opened, wires, view
    <3>3. \A x : ~IsOpen(x)'
      BY <3>1, <3>2 DEF IsOpen, InBubble, View, Awaits, Adds
    <3> QED
      BY <3>1, <3>2, <3>3 DEF Answering
  <2>4. CASE FrameDropped(k) \/ OnClose(k)
    <3>1. /\ UNCHANGED <<frameVars, inTurn, socket, items, pending, assistant, slipped>>
          /\ outbox' = [outbox EXCEPT ![k] = Tail(@)]
      BY <2>4 DEF FrameDropped, OnClose, Arrival
    <3>2. CASE k = socket
      <4>1. ready'[socket] # "open"
        BY <1>0, <2>4, <3>2 DEF FrameDropped, OnClose
      <4> QED
        BY <3>1, <4>1 DEF Answering
    <3>3. CASE k # socket /\ socket # 0
      <4>1. outbox'[socket] = outbox[socket] /\ ready'[socket] = ready[socket]
        BY <1>0, <2>4, <3>1, <3>3 DEF FrameDropped, OnClose
      <4> QED
        BY <1>1, <1>2, <3>1, <4>1, AnsweringSame
    <3>4. CASE socket = 0
      BY <3>1, <3>4 DEF Answering
    <3> QED
      BY <3>2, <3>3, <3>4
  <2>5. CASE OnToken(k) \/ OnDone(k) \/ OnError(k)
    <3>1. /\ Arrival(k) /\ Arrives(k).type \in {"token", "done", "error"}
      BY <2>5 DEF OnToken, OnDone, OnError, OnMessage
    <3>2. /\ k = socket /\ socket # 0 /\ ready[socket] = "open" /\ UNCHANGED <<socket, sent>>
          /\ Token(Arrives(k).of) \in Updates(sent) /\ Failure(Arrives(k).of) \in Updates(sent)
          /\ Token(Arrives(k).of).of = Arrives(k).of /\ Failure(Arrives(k).of).kind = "error"
      BY <2>5, Handled
    <3>3. outbox[socket] # <<>> /\ Head(outbox[socket]) # Close
          /\ Arrives(k) = Head(outbox[socket]) /\ outbox'[socket] = Tail(outbox[socket])
      BY <1>0, <3>1, <3>2 DEF Arrival, Arrives, Close, Wire
    <3>4. /\ \A x : IsOpen(x) => x \in {Arrives(k).of} \cup slipped
          /\ Arrives(k).type = "token" =>
               \A x : IsOpen(x) \/ x = Arrives(k).of =>
                 Ends(x, Tail(outbox[socket]), 1, slipped, Going)
      BY <3>2, <3>3, AnsweringTail
    <3>5. Going' = Going
      BY <1>2, <3>1 DEF Arrival
    <3>6. CASE OnToken(k)
      <4> DEFINE u == Token(Arrives(k).of)
      <4>1. SetItems(assistant, u) /\ slipped' = slipped /\ Arrives(k).type = "token"
        BY <3>6 DEF OnToken, OnMessage
      <4>2. u \in Updates(sent) /\ u.of = Arrives(k).of
        BY <3>2
      <4> HIDE DEF u
      <4>3. \A x : IsOpen(x) => x \in {u.of} \cup slipped
        BY <3>4, <4>2
      <4>4. \A x : IsOpen(x)' => IsOpen(x) \/ x = u.of
        BY <1>0, <3>2, <4>1, <4>2, <4>3, SetItemsUnmixed DEF IsOpen
      <4>5. \A x : IsOpen(x)' => Ends(x, Tail(outbox[socket]), 1, slipped, Going)
        BY <3>4, <4>1, <4>2, <4>4
      <4> QED
        BY <3>2, <3>3, <3>5, <4>1, <4>5, AnsweringLess
    <3>7. CASE OnDone(k) \/ OnError(k)
      <4>1. \A x : IsOpen(x)' => Awaits(x)
        <5>1. CASE OnDone(k)
          BY <5>1 DEF OnDone, IsOpen, InBubble, View, Awaits, Adds, IsToken
        <5>2. CASE OnError(k)
          <6> DEFINE u == Failure(Arrives(k).of)
          <6>1. SetItems(0, u) /\ slipped \subseteq slipped'
            BY <5>2 DEF OnError, Slips
          <6>2. u \in Updates(sent) /\ u.kind # "token"
            BY <3>2
          <6> HIDE DEF u
          <6>3. \A x : IsOpen(x)' => \/ Awaits(x) \/ (u.kind = "token" /\ x = u.of)
                                     \/ 0 = assistant /\ InBubble(View(assistant), x)
            BY <1>0, <3>2, <6>1, <6>2, SetItemsUnmixed
          <6> QED
            BY <6>2, <6>3 DEF InBubble, View
        <5> QED
          BY <3>7, <5>1, <5>2
      <4>2. Slips(k)
        BY <3>7 DEF OnDone, OnError
      <4>3. ASSUME NEW x, Awaits(x) PROVE x \in slipped'
        <5>1. x \in {Arrives(k).of} \cup slipped
          BY <3>4, <4>3 DEF IsOpen
        <5>2. slipped' = slipped \cup {Arrives(k).of}
          BY <4>2, <4>3 DEF Slips, Awaits, Adds, IsToken
        <5> QED
          BY <5>1, <5>2
      <4>4. slipped \subseteq slipped'
        BY <4>2 DEF Slips
      <4> QED
        BY <3>2, <3>3, <3>5, <4>1, <4>3, <4>4, AnsweringLess
    <3> QED
      BY <2>5, <3>6, <3>7
  <2>6. CASE (Take(k) \/ EndTurn(k) \/ CloseRead(k) \/ Forward(k)) /\ UNCHANGED Browsers
    <3>1. UNCHANGED <<socket, ready, items, pending, assistant, sent>> /\ slipped \subseteq slipped'
      BY <2>6 DEF Browsers, view, Take, EndTurn, CloseRead, Forward
    <3>2. CASE socket = 0
      BY <3>1, <3>2 DEF Answering
    <3>3. CASE k # socket /\ socket # 0
      <4>1. outbox'[socket] = outbox[socket] /\ inTurn'[socket] = inTurn[socket]
        BY <1>0, <2>6, <3>3 DEF Take, EndTurn, CloseRead, Forward, wires, Emits
      <4>2. phase'[socket] = phase[socket] /\ answered'[socket] = answered[socket]
        BY <1>0, <2>6, <3>3
           DEF Take, EndTurn, CloseRead, Forward, Begin, End, Drop, Frame, Refuse, Answer,
               InPhase, AnsweredIs
      <4>3. Going' = Going
        BY <3>1, <4>1, <4>2 DEF Going
      <4> QED
        BY <1>1, <3>1, <4>1, <4>3, AnsweringSame
    <3>4. CASE k = socket /\ Take(k)
      <4>1. Going = {} /\ outbox' = outbox
        BY <3>4 DEF Take, Begin, InPhase, Going
      <4> QED
        BY <1>1, <3>1, <4>1, AnsweringSame
    <3>5. CASE k = socket /\ EndTurn(k)
      <4>1. \A x \in Going : x \in slipped'
        BY <3>5 DEF EndTurn, Going
      <4>2. outbox' = outbox
        BY <3>5 DEF EndTurn, wires
      <4> QED
        BY <1>1, <3>1, <4>1, <4>2, AnsweringSame
    <3>6. CASE k = socket /\ CloseRead(k)
      <4>1. outbox'[socket] = Append(outbox[socket], Close) /\ slipped' = slipped
        BY <1>0, <3>6 DEF CloseRead, Emits
      <4>2. Close.type # "token" /\ socket # 0
        BY <1>0, <3>6 DEF Close, Wire
      <4> QED
        BY <1>0, <3>1, <4>1, <4>2, AnsweringMore
    <3>7. CASE k = socket /\ Forward(k)
      <4>1. /\ phase[k] = "turn" /\ answered[k] = 0 /\ inTurn[k] \in 1..sent
            /\ UNCHANGED <<inTurn, slipped>>
        BY <1>0, <3>7 DEF Forward, Frame, Refuse, Answer, InPhase, Typed, TurnsTyped
      <4>2. Going = {inTurn[k]}
        BY <3>7, <4>1 DEF Going
      <4>3. ASSUME NEW type \in {"token", "done", "error"}, Emits(k, Wire(type, inTurn[k])),
                   type = "token" => Frame(k)
            PROVE  Answering'
        <5> DEFINE frame == Wire(type, inTurn[k])
        <5>1. frame \in Wires(sent) /\ frame.of = inTurn[k] /\ frame.type = type
          BY <4>1 DEF Wire, Wires
        <5>2. outbox'[socket] = Append(outbox[socket], frame)
          BY <1>0, <3>7, <4>3 DEF Emits
        <5>3. type = "token" => Going' = Going
          BY <3>1, <4>1, <4>3 DEF Frame, Going
        <5>4. socket # 0
          BY <1>0, <3>7
        <5> HIDE DEF frame
        <5> QED
          BY <3>1, <4>1, <4>2, <5>1, <5>2, <5>3, <5>4, AnsweringMore
      <4> QED
        BY <3>7, <4>3 DEF Forward
    <3> QED
      BY <2>6, <3>2, <3>3, <3>4, <3>5, <3>6, <3>7
  <2> QED
    BY <1>3, <2>1, <2>2, <2>3, <2>4, <2>5, <2>6 DEF StepOf
<1>4. CASE SignOut
  BY <1>4 DEF SignOut, Answering
<1>5. CASE Render
  <2>1. socket # 0
    BY <1>5 DEF Lifecycle, Empty, Render
  <2>2. items' = Shown.items /\ assistant' = Shown.assistant /\ pending' = <<>>
        /\ UNCHANGED <<frameVars, wires, slipped, socket, ready>>
    BY <1>5 DEF Render, ShowView, Shown
  <2>3. \A x : IsOpen(x)' => InBubble(Shown, x)
    BY <2>2 DEF IsOpen, InBubble, View, Awaits, Adds
  <2>4. \A x : IsOpen(x)' => IsOpen(x)
    BY <2>1, <2>3, ShownUnmixed
  <2>5. Going' = Going
    BY <1>2, <2>2 DEF wires
  <2> QED
    BY <2>2, <2>4, <2>5, AnsweringSame DEF wires
<1>6. CASE GatewayRestarts /\ UNCHANGED Browsers
  <2>1. UNCHANGED <<socket, ready, items, pending, assistant, sent>> /\ slipped \subseteq slipped'
    BY <1>6 DEF GatewayRestarts, Browsers, view
  <2>2. socket # 0 => \A x \in Going : x \in slipped'
    BY <1>6 DEF GatewayRestarts, Going
  <2>3. CASE socket = 0
    BY <2>1, <2>3 DEF Answering
  <2>4. CASE socket # 0 /\ phase[socket] = "down"
    <3>1. outbox'[socket] = outbox[socket]
      BY <1>0, <1>6, <2>4 DEF GatewayRestarts
    <3> QED
      BY <1>1, <2>1, <2>2, <2>4, <3>1, AnsweringSame
  <2>5. CASE socket # 0 /\ phase[socket] # "down"
    <3>1. outbox'[socket] = Append(outbox[socket], Close)
      BY <1>0, <1>6, <2>5 DEF GatewayRestarts
    <3>2. Close.type # "token"
      BY DEF Close, Wire
    <3> QED
      BY <1>0, <2>1, <2>5, <3>1, <3>2, AnsweringMore
  <2> QED
    BY <2>3, <2>4, <2>5
<1>7. ASSUME NEW target \in Targets, SendMessage(target) PROVE Answering'
  <2> DEFINE u == Message(sent', target)
  <2>1. /\ SetItems(assistant, u) /\ u \in Updates(sent') /\ u.kind = "user"
        /\ socket # 0 /\ sent' \in Nat /\ sent <= sent' /\ UNCHANGED <<socket, ready, slipped>>
    BY <1>7, Messaged
  <2>2. UNCHANGED <<frameVars, inTurn, outbox>>
    BY <1>7 DEF SendMessage
  <2> HIDE DEF u
  <2>3. \A x : IsOpen(x)' => IsOpen(x)
    BY <2>1, SetItemsUnmixed DEF IsOpen
  <2>4. Going' = Going
    BY <1>2, <2>1, <2>2
  <2> QED
    BY <2>1, <2>2, <2>3, <2>4, AnsweringSame
<1>8. CASE UNCHANGED vars
  <2>1. UNCHANGED <<frameVars, inTurn, outbox, socket, ready, items, pending, assistant, slipped>>
    BY <1>8 DEF vars, wires, view
  <2> QED
    BY <1>1, <1>2, <2>1, AnsweringSame
<1> QED
  BY <1>3, <1>4, <1>5, <1>6, <1>7, <1>8, StepCases DEF StepOfAll

-----------------------------------------------------------------------------
LEMMA HookInit == ASSUME Init PROVE HookInv
<1> USE SocketAssumption
<1>1. Typed
  <2>1. FramesTyped
    BY DEF Init, FramesInit, FramesTyped, Phases
  <2>5. TurnsTyped
    BY DEF Init, FramesInit, TurnsTyped
  <2>6. HookTyped
    BY DEF Init, HookTyped, States
  <2>2. \A A : <<>> \in Seq(A)
    OBVIOUS
  <2>3. WiresTyped
    BY <2>2 DEF Init, WiresTyped
  <2>4. ViewTyped /\ HistoryTyped
    BY <2>2 DEF Init, ViewTyped, HistoryTyped
  <2> QED
    BY <2>1, <2>3, <2>4, <2>5, <2>6 DEF Typed
<1>2. Lifecycle
  BY DEF Init, FramesInit, Lifecycle, Empty
<1>3. Ref /\ StatusTrue /\ Complete /\ Unmixed /\ Answering
  BY DEF Init, Ref, StatusTrue, Complete, Unmixed, Answering
<1>4. LastMessage /\ DividersTrue
  BY DEF Init, LastMessage, DividersTrue, Divided, AfterDivider
<1> QED
  BY <1>1, <1>2, <1>3, <1>4 DEF HookInv

LEMMA HookNext == ASSUME HookInv, [Next]_vars PROVE HookInv'
BY TypedStep, LifecycleStep, ViewStep, StatusStep, CompleteStep, DividersStep, UnmixedStep,
   AnsweringStep DEF HookInv

LEMMA HookInvariant == Spec => []HookInv
<1>1. Init => HookInv
  BY HookInit
<1>2. HookInv /\ [Next]_vars => HookInv'
  BY HookNext
<1> QED
  BY <1>1, <1>2, PTL DEF Spec

(***************************************************************************)
(* What the hook keeps is well-formed: the ref to the bubble of the answer *)
(* in progress is null or a bubble of the list.                            *)
(***************************************************************************)
THEOREM TypeCorrect == Spec => []TypeOK
<1>1. HookInv => TypeOK
  <2> SUFFICES ASSUME HookInv PROVE TypeOK
    OBVIOUS
  <2>1. items \in Seq(Items(sent)) /\ Typed /\ Ref
    BY DEF HookInv, Typed, ViewTyped
  <2>2. ASSUME NEW i \in DOMAIN items PROVE ItemOk(items[i])
    <3>1. items[i] \in Items(sent)
      BY <2>1
    <3> QED
      BY <3>1 DEF Items, Bubbles, Notes, ItemOk
  <2> QED
    BY <2>1, <2>2 DEF Typed, FramesTyped, HookTyped, HistoryTyped, Phases, States, Ref, RefTo,
                     IsBubble, TypeOK
<1> QED
  BY <1>1, HookInvariant, PTL

(***************************************************************************)
(* The status that enables the composer is that of the sign-in's socket,   *)
(* as long as no close of an earlier socket came in between.               *)
(***************************************************************************)
THEOREM StatusCorrect == Spec => []StatusTrue
<1>1. HookInv => StatusTrue
  BY DEF HookInv
<1> QED
  BY <1>1, HookInvariant, PTL

(***************************************************************************)
(* Rendered, the transcript is what the sign-in's socket has delivered.    *)
(***************************************************************************)
THEOREM TranscriptCorrect == Spec => []TranscriptOwn
<1>1. HookInv => TranscriptOwn
  <2> SUFFICES ASSUME HookInv, pending = <<>> PROVE delivered = Transcript(items)
    BY DEF TranscriptOwn
  <2>1. CASE socket = 0
    BY <2>1, TranscriptNone DEF HookInv, Lifecycle, Empty
  <2>2. CASE socket # 0
    <3>1. Shown.items = items
      BY RunAllNone DEF Shown, View
    <3> QED
      BY <2>2, <3>1 DEF HookInv, Complete
  <2> QED
    BY <2>1, <2>2
<1> QED
  BY <1>1, HookInvariant, PTL

(***************************************************************************)
(* A divider stands before a message that changes the customer, and        *)
(* nowhere else.                                                           *)
(***************************************************************************)
THEOREM DividersCorrect == Spec => []DividersTrue
<1>1. HookInv => DividersTrue
  BY DEF HookInv
<1> QED
  BY <1>1, HookInvariant, PTL

(***************************************************************************)
(* No bubble mixes the answers to two messages, unless the first slipped.  *)
(***************************************************************************)
THEOREM BubblesCorrect == Spec => []BubblePerTurn
<1>1. HookInv => BubblePerTurn
  <2> SUFFICES ASSUME HookInv, NEW i \in DOMAIN items, items[i].kind = "assistant",
                      NEW j \in 2..Len(items[i].text)
               PROVE  items[i].text[j - 1] \in {items[i].text[j]} \cup slipped
    BY DEF BubblePerTurn
  <2>1. socket # 0
    BY DEF HookInv, Lifecycle, Empty
  <2>2. Whole(items, slipped) /\ items \in Seq(Items(sent))
    BY <2>1 DEF HookInv, Unmixed, Typed, ViewTyped
  <2>3. items[i].text \in Seq(1..sent)
    <3>1. items[i] \in Items(sent)
      BY <2>2
    <3> QED
      BY <3>1 DEF Items, Bubbles, Notes
  <2>4. j \in DOMAIN items[i].text /\ j - 1 \in 1..(j - 1)
    BY <2>3
  <2> QED
    BY <2>2, <2>4 DEF Whole, IsBubble
<1> QED
  BY <1>1, HookInvariant, PTL
=============================================================================
