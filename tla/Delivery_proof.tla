-------------------------- MODULE Delivery_proof --------------------------
(***************************************************************************)
(* Proofs about Delivery, for any requests, chats and pieces, any number   *)
(* of attempts and marks, and any number of events under way.              *)
(*                                                                         *)
(* A turn ends once, and the end of its stream and its whole answer stand  *)
(* in the queues in the order in which they were published; everything     *)
(* here comes of that.                                                     *)
(***************************************************************************)
EXTENDS Delivery, TLAPS, FiniteSetTheorems, SequenceTheorems

----------------------------------------------------------------------------
\* Queues

In(q, e) == \E i \in 1..Len(q) : q[i] = e

Before(q, a, b) == \E i, j \in 1..Len(q) : i < j /\ q[i] = a /\ q[j] = b

LEMMA EmptyQueue == (\A e : ~In(<<>>, e)) /\ (\A a, b : ~Before(<<>>, a, b))
BY DEF In, Before

LEMMA QueueTaken ==
    ASSUME NEW S, NEW q \in Seq(S), q # <<>>
    PROVE  /\ Tail(q) \in Seq(S) /\ Head(q) \in S /\ In(q, Head(q))
           /\ \A e : In(Tail(q), e) => In(q, e) /\ Before(q, Head(q), e)
           /\ \A e : In(q, e) => e = Head(q) \/ In(Tail(q), e)
           /\ \A a, b : Before(Tail(q), a, b) => Before(q, a, b)
           /\ \A a, b : Before(q, a, b) =>
                 In(Tail(q), b) /\ (a = Head(q) \/ Before(Tail(q), a, b))
<1> DEFINE t == Tail(q)
<1> DEFINE n == Len(q)
<1>1. /\ t \in Seq(S) /\ Head(q) = q[1] /\ n \in Nat \ {0} /\ Len(t) = n - 1
      /\ \A i \in 1..(n - 1) : t[i] = q[i + 1]
      /\ \A i \in 1..n : q[i] \in S
  BY HeadTailProperties, ElementOfSeq, LenProperties
<1> HIDE DEF t, n
<1>2. Head(q) \in S /\ In(q, Head(q))
  BY <1>1 DEF In, n
<1>3. ASSUME NEW e, In(t, e) PROVE In(q, e) /\ Before(q, Head(q), e)
  <2>1. PICK i \in 1..(n - 1) : t[i] = e
    BY <1>1, <1>3 DEF In
  <2>2. i + 1 \in 1..n /\ 1 \in 1..n /\ 1 < i + 1 /\ q[i + 1] = e
    BY <1>1, <2>1
  <2>3. QED BY <1>1, <2>2 DEF In, Before, n
<1>4. ASSUME NEW e, In(q, e) PROVE e = Head(q) \/ In(t, e)
  <2>1. PICK i \in 1..n : q[i] = e
    BY <1>4 DEF In, n
  <2>2. CASE i = 1
    BY <1>1, <2>1, <2>2
  <2>3. CASE i # 1
    <3>1. i - 1 \in 1..(n - 1) /\ t[i - 1] = e
      BY <1>1, <2>1, <2>3
    <3>2. QED BY <1>1, <3>1 DEF In
  <2>4. QED BY <2>2, <2>3
<1>5. ASSUME NEW a, NEW b, Before(t, a, b) PROVE Before(q, a, b)
  <2>1. PICK i, j \in 1..(n - 1) : i < j /\ t[i] = a /\ t[j] = b
    BY <1>1, <1>5 DEF Before
  <2>2. i + 1 \in 1..n /\ j + 1 \in 1..n /\ i + 1 < j + 1 /\ q[i + 1] = a /\ q[j + 1] = b
    BY <1>1, <2>1
  <2>3. QED BY <2>2 DEF Before, n
<1>6. ASSUME NEW a, NEW b, Before(q, a, b)
      PROVE  In(t, b) /\ (a = Head(q) \/ Before(t, a, b))
  <2>1. PICK i, j \in 1..n : i < j /\ q[i] = a /\ q[j] = b
    BY <1>6 DEF Before, n
  <2>2. j - 1 \in 1..(n - 1) /\ t[j - 1] = b
    BY <1>1, <2>1
  <2>3. CASE i = 1
    BY <1>1, <2>1, <2>2, <2>3 DEF In
  <2>4. CASE i # 1
    <3>1. i - 1 \in 1..(n - 1) /\ t[i - 1] = a /\ i - 1 < j - 1
      BY <1>1, <2>1, <2>4
    <3>2. QED BY <1>1, <2>2, <3>1 DEF In, Before
  <2>5. QED BY <2>3, <2>4
<1>7. QED BY <1>1, <1>2, <1>3, <1>4, <1>5, <1>6 DEF t

LEMMA QueueJoined ==
    ASSUME NEW S, NEW q \in Seq(S), NEW o \in Seq(S)
    PROVE  /\ q \o o \in Seq(S)
           /\ \A e : In(q \o o, e) <=> In(q, e) \/ In(o, e)
           /\ \A a, b : Before(q \o o, a, b) <=>
                 Before(q, a, b) \/ Before(o, a, b) \/ (In(q, a) /\ In(o, b))
<1> DEFINE t == q \o o
<1> DEFINE n == Len(q)
<1> DEFINE m == Len(o)
<1>1. /\ t \in Seq(S) /\ n \in Nat /\ m \in Nat /\ Len(t) = n + m
      /\ \A i \in 1..(n + m) : t[i] = IF i <= n THEN q[i] ELSE o[i - n]
  BY ConcatProperties, LenProperties
<1> HIDE DEF t, n, m
<1>2. ASSUME NEW e, In(t, e) PROVE In(q, e) \/ In(o, e)
  <2>1. PICK i \in 1..(n + m) : t[i] = e
    BY <1>1, <1>2 DEF In
  <2>2. CASE i <= n
    BY <1>1, <2>1, <2>2 DEF In, n
  <2>3. CASE i > n
    <3>1. i - n \in 1..m /\ o[i - n] = e
      BY <1>1, <2>1, <2>3
    <3>2. QED BY <3>1 DEF In, m
  <2>4. QED BY <1>1, <2>1, <2>2, <2>3
<1>3. ASSUME NEW e, In(q, e) PROVE In(t, e)
  <2>1. PICK i \in 1..n : q[i] = e
    BY <1>3 DEF In, n
  <2>2. i \in 1..(n + m) /\ t[i] = e
    BY <1>1, <2>1
  <2>3. QED BY <1>1, <2>2 DEF In
<1>4. ASSUME NEW e, In(o, e) PROVE In(t, e)
  <2>1. PICK i \in 1..m : o[i] = e
    BY <1>4 DEF In, m
  <2>2. n + i \in 1..(n + m) /\ ~(n + i <= n) /\ (n + i) - n = i
    BY <1>1, <2>1
  <2>3. t[n + i] = e
    BY <1>1, <2>1, <2>2
  <2>4. QED BY <1>1, <2>2, <2>3 DEF In
<1>5. ASSUME NEW a, NEW b, Before(t, a, b)
      PROVE  Before(q, a, b) \/ Before(o, a, b) \/ (In(q, a) /\ In(o, b))
  <2>1. PICK i, j \in 1..(n + m) : i < j /\ t[i] = a /\ t[j] = b
    BY <1>1, <1>5 DEF Before
  <2>2. CASE j <= n
    <3>1. i \in 1..n /\ j \in 1..n /\ q[i] = a /\ q[j] = b
      BY <1>1, <2>1, <2>2
    <3>2. QED BY <2>1, <3>1 DEF Before, n
  <2>3. CASE i <= n /\ j > n
    <3>1. i \in 1..n /\ j - n \in 1..m /\ q[i] = a /\ o[j - n] = b
      BY <1>1, <2>1, <2>3
    <3>2. QED BY <3>1 DEF In, n, m
  <2>4. CASE i > n
    <3>1. i - n \in 1..m /\ j - n \in 1..m /\ i - n < j - n /\ o[i - n] = a /\ o[j - n] = b
      BY <1>1, <2>1, <2>4
    <3>2. QED BY <3>1 DEF Before, m
  <2>5. QED BY <1>1, <2>1, <2>2, <2>3, <2>4
<1>6. ASSUME NEW a, NEW b, Before(q, a, b) PROVE Before(t, a, b)
  <2>1. PICK i, j \in 1..n : i < j /\ q[i] = a /\ q[j] = b
    BY <1>6 DEF Before, n
  <2>2. i \in 1..(n + m) /\ j \in 1..(n + m) /\ t[i] = a /\ t[j] = b
    BY <1>1, <2>1
  <2>3. QED BY <1>1, <2>1, <2>2 DEF Before
<1>7. ASSUME NEW a, NEW b, Before(o, a, b) PROVE Before(t, a, b)
  <2>1. PICK i, j \in 1..m : i < j /\ o[i] = a /\ o[j] = b
    BY <1>7 DEF Before, m
  <2>2. /\ n + i \in 1..(n + m) /\ n + j \in 1..(n + m) /\ n + i < n + j
        /\ ~(n + i <= n) /\ ~(n + j <= n) /\ (n + i) - n = i /\ (n + j) - n = j
    BY <1>1, <2>1
  <2>3. t[n + i] = a /\ t[n + j] = b
    BY <1>1, <2>1, <2>2
  <2>4. QED BY <1>1, <2>2, <2>3 DEF Before
<1>8. ASSUME NEW a, NEW b, In(q, a), In(o, b) PROVE Before(t, a, b)
  <2>1. PICK i \in 1..n, j \in 1..m : q[i] = a /\ o[j] = b
    BY <1>8 DEF In, n, m
  <2>2. /\ i \in 1..(n + m) /\ n + j \in 1..(n + m) /\ i < n + j
        /\ ~(n + j <= n) /\ (n + j) - n = j
    BY <1>1, <2>1
  <2>3. t[i] = a /\ t[n + j] = b
    BY <1>1, <2>1, <2>2
  <2>4. QED BY <1>1, <2>2, <2>3 DEF Before
<1>9. QED BY <1>1, <1>2, <1>3, <1>4, <1>5, <1>6, <1>7, <1>8 DEF t

LEMMA QueueAppended ==
    ASSUME NEW S, NEW q \in Seq(S), NEW x \in S
    PROVE  /\ Append(q, x) \in Seq(S)
           /\ \A e : In(Append(q, x), e) <=> In(q, e) \/ e = x
           /\ \A a, b : Before(Append(q, x), a, b) <=> Before(q, a, b) \/ (In(q, a) /\ b = x)
<1> DEFINE o == <<x>>
<1>1. o \in Seq(S) /\ Append(q, x) = q \o o
  BY AppendIsConcat
<1>2. \A e : In(o, e) <=> e = x
  BY DEF In
<1>3. \A a, b : ~Before(o, a, b)
  BY DEF Before
<1> HIDE DEF o
<1>4. /\ q \o o \in Seq(S)
      /\ \A e : In(q \o o, e) <=> In(q, e) \/ In(o, e)
      /\ \A a, b : Before(q \o o, a, b) <=>
            Before(q, a, b) \/ Before(o, a, b) \/ (In(q, a) /\ In(o, b))
  BY <1>1, QueueJoined
<1> DEFINE t == q \o o
<1> HIDE DEF t
<1>5. /\ t \in Seq(S) /\ Append(q, x) = t
      /\ \A e : In(t, e) <=> In(q, e) \/ In(o, e)
      /\ \A a, b : Before(t, a, b) <=>
            Before(q, a, b) \/ Before(o, a, b) \/ (In(q, a) /\ In(o, b))
  BY <1>1, <1>4 DEF t
<1>6. QED BY <1>2, <1>3, <1>5

LEMMA QueuedType ==
    ASSUME NEW S, NEW q \in Seq(S), NEW e, In(q, e) PROVE e \in S
BY ElementOfSeq DEF In

----------------------------------------------------------------------------
\* Turns

Going == {"heard", "streaming", "broken", "closed"}

Submitted(t) == t.stage \in {"streaming", "broken", "closed"}

\* Not a piece of the answer has been published.
Fresh(t) ==
    t.stage \in {"none", "heard"} \/ (t.stage = "streaming" /\ t.attempt = 1 /\ t.chunks = 0)

TurnOK(t) ==
    /\ t.stage # "none" => t.chat \in Chats
    /\ t.stage = "none" => t.kind = "user"
    /\ t.stage = "heard" => t.kind = "user"
    /\ t.stage \in Going =>
          t.attempt >= 1 /\ (t.kind = "user" => t.source = Platform[t.chat])

TurnInv == TypeOK /\ \A r \in Requests : TurnOK(turn[r])

\* A turn begins or goes on to t, and never back.
Moved(r, t) ==
    /\ t \in Turn /\ TurnOK(t) /\ t.stage # "none"
    /\ turn' = [turn EXCEPT ![r] = t]
    /\ \/ turn[r].stage = "none" /\ Fresh(t)
       \/ /\ turn[r].stage \in Going /\ t.stage # "heard"
          /\ t.kind = turn[r].kind /\ t.chat = turn[r].chat
          /\ Fresh(t) => Fresh(turn[r])

Silently(r, t) ==
    /\ Moved(r, t) /\ UNCHANGED mails
    /\ Submitted(t) /\ t.kind = "user" => Submitted(turn[r])

Streams(e) == e.topic \in {"llm.chunk", "llm.response"}

\* What is published when a turn goes on.
Saying(r, t, e) ==
    \/ /\ e.topic = "user.message" /\ turn[r].stage = "heard" /\ t.stage = "streaming"
       /\ ~e.silent
    \/ /\ Streams(e) /\ turn[r].stage = "streaming" /\ t.stage \in {"streaming", "closed"}
       /\ ~Fresh(t) /\ ~e.silent
    \/ /\ e.topic = "route.message" /\ Submitted(turn[r]) /\ t.stage \in {"replied", "failed"}
       /\ ~e.silent /\ (e.tagged \/ Fresh(turn[r]))
    \/ /\ e.topic = "assistant.message" /\ Submitted(turn[r]) /\ t.stage = "quiet"
       /\ e.silent /\ ~e.tagged

Says(r, t, e) ==
    /\ Moved(r, t) /\ Publish(e)
    /\ e \in Event /\ e.req = r /\ e.chat = turn[r].chat /\ e.source = turn[r].source
    /\ Saying(r, t, e)

LEMMA EventType ==
    ASSUME TurnInv, NEW r \in Requests, turn[r].stage # "none",
           NEW topic \in {"user.message", "llm.chunk", "llm.response", "route.message",
                          "assistant.message"}
    PROVE  /\ EventOf(r, topic) \in Event
           /\ EventOf(r, topic).topic = topic /\ EventOf(r, topic).req = r
           /\ EventOf(r, topic).chat = turn[r].chat /\ EventOf(r, topic).source = turn[r].source
           /\ EventOf(r, topic).tagged = TRUE /\ EventOf(r, topic).silent = FALSE
<1>1. turn[r] \in Turn /\ turn[r].chat \in Chats
  BY DEF TurnInv, TypeOK, TurnOK
<1>2. turn[r].source \in Sources /\ turn[r].loud \in BOOLEAN
  BY <1>1 DEF Turn
<1>3. [n |-> 0, stop |-> FALSE] \in [n: Nat, stop: BOOLEAN]
  OBVIOUS
<1>4. QED BY <1>1, <1>2, <1>3 DEF EventOf, Event

\* The end of a turn.
LEMMA OverMoves ==
    ASSUME TurnInv, NEW r \in Requests, NEW stage \in {"replied", "failed", "quiet"},
           Submitted(turn[r]), turn' = [turn EXCEPT ![r] = Over(r, stage)]
    PROVE  Moved(r, Over(r, stage)) /\ Over(r, stage).stage = stage
<1> DEFINE a == turn[r]
<1> DEFINE t == Over(r, stage)
<1>1. a \in Turn /\ TurnOK(a)
  BY DEF TurnInv, TypeOK
<1>2. /\ a.kind \in {"user", "trigger"} /\ a.chat \in AnyChat /\ a.loud \in BOOLEAN
      /\ a.marker \in BOOLEAN /\ a.stage # "none" /\ a.stage \in Going
  BY <1>1 DEF Turn, Submitted, Going
<1>3. "" \in Sources /\ 0 \in 0..MaxAttempts /\ 0 \in 0..MaxChunks /\ 0 \in 0..2
  BY DeliveryAssumption DEF Sources
<1>4. t = [a EXCEPT !.stage = stage, !.source = "", !.attempt = 0, !.chunks = 0, !.run = 0,
                    !.loud = stage = "replied" /\ @]
  BY DEF Over
<1>5. (stage = "replied" /\ a.loud) \in BOOLEAN
  OBVIOUS
<1>6. t \in Turn /\ t.stage = stage /\ t.kind = a.kind /\ t.chat = a.chat
  BY <1>1, <1>3, <1>4, <1>5 DEF Turn
<1> HIDE DEF a, t
<1>7. t.stage \notin Going /\ t.stage # "none" /\ ~Fresh(t) /\ t.stage # "heard"
  BY <1>6 DEF Going, Fresh
<1>8. TurnOK(t)
  BY <1>1, <1>2, <1>6, <1>7 DEF TurnOK
<1>9. QED BY <1>2, <1>6, <1>7, <1>8 DEF Moved, a, t

TurnActs(r) ==
    \/ \E c \in ChatsOf[r] :
         UserWrites(r, c) \/ \E s \in {Platform[c], ""} : TriggerFires(r, c, s)
    \/ UserSubmits(r)
    \/ \E piece \in Pieces : StreamChunk(r, piece)
    \/ StreamMarker(r) \/ StreamBreaks(r) \/ StreamAgain(r) \/ StreamCloses(r)
    \/ Answering(r) \/ Apologise(r) \/ Refuse(r)
    \/ \E c \in Chats : \/ TelegramSends(r, c) \/ TelegramSpeaks(r, c)
                        \/ TelegramSendsFile(r, c) \/ WechatSends(r, c)
                        \/ FeishuSends(r, c)

\* What a turn leaves alone.
Aside ==
    /\ UNCHANGED <<channels, buffer, streamed, evicted, loops, shown, chunking>>
    /\ current' \in [Platforms -> AnyChat] /\ typing' \in SUBSET Chats

TurnEffect(r) ==
    /\ \E t : Silently(r, t) \/ \E e : Says(r, t, e)
    /\ Aside

LEMMA TurnBegins ==
    ASSUME TurnInv, NEW r \in Requests, NEW c \in ChatsOf[r]
    PROVE  /\ UserWrites(r, c) => TurnEffect(r)
           /\ \A s \in Sources : TriggerFires(r, c, s) => TurnEffect(r)
<1>1. c \in Chats /\ Platform[c] \in Platforms
  BY DeliveryAssumption
<1>2. MaxAttempts \in Nat \ {0} /\ MaxChunks \in Nat
  BY DeliveryAssumption
<1>3. 1 \in 0..MaxAttempts /\ 0 \in 0..MaxChunks /\ 0 \in 0..2 /\ 0 \in 0..MaxAttempts
  BY <1>2
<1>4. NoTurn \in Turn
  BY <1>3 DEF NoTurn, Turn, Sources, AnyChat
<1>5. ASSUME UserWrites(r, c) PROVE TurnEffect(r)
  <2> DEFINE t == [NoTurn EXCEPT !.stage = "heard", !.source = Platform[c], !.chat = c,
                                 !.attempt = 1]
  <2>1. turn[r].stage = "none" /\ turn' = [turn EXCEPT ![r] = t] /\ UNCHANGED mails
    BY <1>5 DEF UserWrites
  <2>2. Platform[c] \in Sources /\ c \in AnyChat
    BY <1>1 DEF Sources, AnyChat
  <2>3. t \in Turn
    BY <1>3, <1>4, <2>2 DEF Turn
  <2>4. t.stage = "heard" /\ t.kind = "user" /\ t.chat = c /\ t.source = Platform[c]
        /\ t.attempt = 1
    BY DEF NoTurn
  <2> HIDE DEF t
  <2>5. TurnOK(t) /\ Fresh(t) /\ ~Submitted(t)
    BY <1>1, <2>4 DEF TurnOK, Fresh, Submitted
  <2>6. Silently(r, t)
    BY <2>1, <2>3, <2>4, <2>5 DEF Silently, Moved
  <2>7. Aside
    <3>1. current \in [Platforms -> AnyChat] /\ typing \in SUBSET Chats
      BY DEF TurnInv, TypeOK
    <3>2. current' \in [Platforms -> AnyChat]
      BY <1>5, <2>2, <3>1 DEF UserWrites
    <3>3. QED BY <1>5, <3>1, <3>2 DEF UserWrites, Aside
  <2>8. QED BY <2>6, <2>7 DEF TurnEffect
<1>6. ASSUME NEW s \in Sources, TriggerFires(r, c, s) PROVE TurnEffect(r)
  <2> DEFINE t == [NoTurn EXCEPT !.stage = "streaming", !.kind = "trigger", !.source = s,
                                 !.chat = c, !.attempt = 1]
  <2>1. turn[r].stage = "none" /\ turn' = [turn EXCEPT ![r] = t] /\ UNCHANGED mails
    BY <1>6 DEF TriggerFires
  <2>2. s \in Sources /\ c \in AnyChat
    BY <1>1 DEF Sources, AnyChat
  <2>3. t \in Turn
    BY <1>3, <1>4, <2>2 DEF Turn
  <2>4. t.stage = "streaming" /\ t.kind = "trigger" /\ t.chat = c
        /\ t.attempt = 1 /\ t.chunks = 0
    BY DEF NoTurn
  <2> HIDE DEF t
  <2>5. TurnOK(t) /\ Fresh(t)
    BY <1>1, <2>4 DEF TurnOK, Fresh
  <2>6. Silently(r, t)
    BY <2>1, <2>3, <2>4, <2>5 DEF Silently, Moved
  <2>7. Aside
    BY <1>6 DEF TriggerFires, plugins, Aside, TurnInv, TypeOK
  <2>8. QED BY <2>6, <2>7 DEF TurnEffect
<1>7. QED BY <1>5, <1>6

LEMMA NothingAside ==
    ASSUME TypeOK, UNCHANGED <<channels, plugins, chunking>> PROVE Aside
BY DEF TypeOK, plugins, Aside

LEMMA TurnStreams ==
    ASSUME TurnInv, NEW r \in Requests
    PROVE  /\ UserSubmits(r) \/ StreamMarker(r) \/ StreamBreaks(r) \/ StreamAgain(r)
              \/ StreamCloses(r) => TurnEffect(r)
           /\ \A piece \in Pieces : StreamChunk(r, piece) => TurnEffect(r)
<1> DEFINE a == turn[r]
<1>0. a \in Turn /\ TurnOK(a) /\ turn \in [Requests -> Turn] /\ TypeOK
  BY DEF TurnInv, TypeOK
<1>1. /\ a.kind \in {"user", "trigger"} /\ a.chat \in AnyChat /\ a.loud \in BOOLEAN
      /\ a.marker \in BOOLEAN /\ a.attempt \in 0..MaxAttempts /\ a.chunks \in 0..MaxChunks
      /\ a.run \in 0..2 /\ MaxAttempts \in Nat \ {0} /\ MaxChunks \in Nat
      /\ Pieces \subseteq [n: Nat, stop: BOOLEAN]
  BY <1>0, DeliveryAssumption DEF Turn
<1>2. ASSUME UserSubmits(r) PROVE TurnEffect(r)
  <2> DEFINE t == [a EXCEPT !.stage = "streaming"]
  <2> DEFINE e == EventOf(r, "user.message")
  <2>1. a.stage = "heard" /\ turn' = [turn EXCEPT ![r] = t] /\ Publish(e) /\ Aside
    BY <1>0, <1>2, NothingAside DEF UserSubmits
  <2>2. /\ e \in Event /\ e.req = r /\ e.chat = a.chat /\ e.source = a.source
        /\ e.topic = "user.message" /\ ~e.silent
    BY <2>1, EventType
  <2>3. t \in Turn /\ t.stage = "streaming" /\ t.kind = a.kind /\ t.chat = a.chat
        /\ t.source = a.source /\ t.attempt = a.attempt
    BY <1>0 DEF Turn
  <2> HIDE DEF t, e, a
  <2>4. TurnOK(t)
    BY <1>0, <2>1, <2>3 DEF TurnOK, Going
  <2>5. Moved(r, t)
    BY <2>1, <2>3, <2>4 DEF Moved, a, Going, Fresh
  <2>6. Says(r, t, e)
    BY <2>1, <2>2, <2>3, <2>5 DEF Says, Saying, a
  <2>7. QED BY <2>1, <2>6 DEF TurnEffect
<1>3. ASSUME NEW piece \in Pieces, StreamChunk(r, piece) PROVE TurnEffect(r)
  <2> DEFINE run == Least(2, a.run + piece.n)
  <2> DEFINE t == [a EXCEPT !.chunks = @ + 1, !.run = IF piece.stop THEN 0 ELSE run,
                            !.loud = @ \/ run > 1]
  <2> DEFINE e == [EventOf(r, "llm.chunk") EXCEPT !.piece = piece]
  <2>1. a.stage = "streaming" /\ a.chunks < MaxChunks /\ turn' = [turn EXCEPT ![r] = t]
        /\ Publish(e) /\ Aside
    BY <1>0, <1>3, NothingAside DEF StreamChunk
  <2>2. /\ e \in Event /\ e.req = r /\ e.chat = a.chat /\ e.source = a.source
        /\ e.topic = "llm.chunk" /\ ~e.silent
    <3> DEFINE f == EventOf(r, "llm.chunk")
    <3>1. /\ f \in Event /\ f.req = r /\ f.chat = a.chat /\ f.source = a.source
          /\ f.topic = "llm.chunk" /\ f.silent = FALSE
      BY <2>1, EventType
    <3> HIDE DEF f
    <3>2. piece \in [n: Nat, stop: BOOLEAN] /\ e = [f EXCEPT !.piece = piece]
      BY <1>1 DEF f
    <3>3. QED BY <3>1, <3>2 DEF Event
  <2>3. piece.n \in Nat /\ piece.stop \in BOOLEAN
    BY <1>1
  <2>4. run \in 0..2 /\ (IF piece.stop THEN 0 ELSE run) \in 0..2
    BY <1>1, <2>3 DEF Least
  <2>5. (a.loud \/ run > 1) \in BOOLEAN /\ a.chunks + 1 \in 0..MaxChunks /\ a.chunks + 1 # 0
    BY <1>1, <2>1
  <2> HIDE DEF run
  <2>6. t \in Turn /\ t.stage = "streaming" /\ t.kind = a.kind /\ t.chat = a.chat
        /\ t.source = a.source /\ t.attempt = a.attempt /\ t.chunks = a.chunks + 1
    BY <1>0, <2>1, <2>4, <2>5 DEF Turn
  <2> HIDE DEF t, e, a
  <2>7. TurnOK(t) /\ ~Fresh(t)
    BY <1>0, <2>1, <2>5, <2>6 DEF TurnOK, Going, Fresh
  <2>8. Moved(r, t)
    BY <2>1, <2>6, <2>7 DEF Moved, a, Going
  <2>9. Says(r, t, e)
    BY <2>1, <2>2, <2>6, <2>7, <2>8 DEF Says, Saying, Streams, a
  <2>10. QED BY <2>1, <2>9 DEF TurnEffect
<1>4. ASSUME StreamMarker(r) PROVE TurnEffect(r)
  <2> DEFINE t == [a EXCEPT !.chunks = 1, !.marker = TRUE, !.loud = TRUE, !.run = 2]
  <2> DEFINE e == [EventOf(r, "llm.chunk") EXCEPT !.piece = [n |-> 2, stop |-> FALSE]]
  <2>1. a.stage = "streaming" /\ MaxChunks > 0 /\ turn' = [turn EXCEPT ![r] = t]
        /\ Publish(e) /\ Aside
    BY <1>0, <1>4, NothingAside DEF StreamMarker
  <2>2. /\ e \in Event /\ e.req = r /\ e.chat = a.chat /\ e.source = a.source
        /\ e.topic = "llm.chunk" /\ ~e.silent
    <3> DEFINE f == EventOf(r, "llm.chunk")
    <3>1. /\ f \in Event /\ f.req = r /\ f.chat = a.chat /\ f.source = a.source
          /\ f.topic = "llm.chunk" /\ f.silent = FALSE
      BY <2>1, EventType
    <3> HIDE DEF f
    <3>2. e = [f EXCEPT !.piece = [n |-> 2, stop |-> FALSE]]
      BY DEF f
    <3>3. QED BY <3>1, <3>2 DEF Event
  <2>3. 1 \in 0..MaxChunks /\ 2 \in 0..2
    BY <1>1, <2>1
  <2>4. t \in Turn /\ t.stage = "streaming" /\ t.kind = a.kind /\ t.chat = a.chat
        /\ t.source = a.source /\ t.attempt = a.attempt /\ t.chunks = 1
    BY <1>0, <2>1, <2>3 DEF Turn
  <2> HIDE DEF t, e, a
  <2>5. TurnOK(t) /\ ~Fresh(t)
    BY <1>0, <2>1, <2>4 DEF TurnOK, Going, Fresh
  <2>6. Moved(r, t)
    BY <2>1, <2>4, <2>5 DEF Moved, a, Going
  <2>7. Says(r, t, e)
    BY <2>1, <2>2, <2>4, <2>5, <2>6 DEF Says, Saying, Streams, a
  <2>8. QED BY <2>1, <2>7 DEF TurnEffect
<1>5. ASSUME StreamBreaks(r) PROVE TurnEffect(r)
  <2> DEFINE t == [a EXCEPT !.stage = "broken"]
  <2>1. a.stage = "streaming" /\ turn' = [turn EXCEPT ![r] = t] /\ UNCHANGED mails /\ Aside
    BY <1>0, <1>5, NothingAside DEF StreamBreaks
  <2>2. t \in Turn /\ t.stage = "broken" /\ t.kind = a.kind /\ t.chat = a.chat
        /\ t.source = a.source /\ t.attempt = a.attempt
    BY <1>0 DEF Turn
  <2> HIDE DEF t, a
  <2>3. TurnOK(t) /\ ~Fresh(t)
    BY <1>0, <2>1, <2>2 DEF TurnOK, Going, Fresh
  <2>4. Silently(r, t)
    BY <2>1, <2>2, <2>3 DEF Silently, Moved, a, Going, Submitted
  <2>5. QED BY <2>1, <2>4 DEF TurnEffect
<1>6. ASSUME StreamAgain(r) PROVE TurnEffect(r)
  <2> DEFINE t == [a EXCEPT !.stage = "streaming", !.attempt = @ + 1, !.chunks = 0, !.run = 0,
                            !.loud = FALSE, !.marker = FALSE]
  <2>1. a.stage = "broken" /\ a.attempt < MaxAttempts /\ turn' = [turn EXCEPT ![r] = t]
        /\ UNCHANGED mails /\ Aside
    BY <1>0, <1>6, NothingAside DEF StreamAgain
  <2>2. a.attempt + 1 \in 0..MaxAttempts /\ 0 \in 0..MaxChunks /\ 0 \in 0..2
    BY <1>1, <2>1
  <2>3. t \in Turn /\ t.stage = "streaming" /\ t.kind = a.kind /\ t.chat = a.chat
        /\ t.source = a.source /\ t.attempt = a.attempt + 1
    BY <1>0, <2>2 DEF Turn
  <2> HIDE DEF t
  <2>4. a.attempt >= 1
    BY <1>0, <2>1 DEF TurnOK, Going
  <2>5. t.attempt >= 1 /\ t.attempt # 1
    BY <1>1, <2>3, <2>4
  <2> HIDE DEF a
  <2>6. TurnOK(t) /\ ~Fresh(t)
    BY <1>0, <2>1, <2>3, <2>5 DEF TurnOK, Going, Fresh
  <2>7. Silently(r, t)
    BY <2>1, <2>3, <2>6 DEF Silently, Moved, a, Going, Submitted
  <2>8. QED BY <2>1, <2>7 DEF TurnEffect
<1>7. ASSUME StreamCloses(r) PROVE TurnEffect(r)
  <2> DEFINE t == [a EXCEPT !.stage = "closed"]
  <2> DEFINE e == EventOf(r, "llm.response")
  <2>1. a.stage = "streaming" /\ turn' = [turn EXCEPT ![r] = t] /\ Publish(e) /\ Aside
    BY <1>0, <1>7, NothingAside DEF StreamCloses
  <2>2. /\ e \in Event /\ e.req = r /\ e.chat = a.chat /\ e.source = a.source
        /\ e.topic = "llm.response" /\ ~e.silent
    BY <2>1, EventType
  <2>3. t \in Turn /\ t.stage = "closed" /\ t.kind = a.kind /\ t.chat = a.chat
        /\ t.source = a.source /\ t.attempt = a.attempt
    BY <1>0 DEF Turn
  <2> HIDE DEF t, e, a
  <2>4. TurnOK(t) /\ ~Fresh(t)
    BY <1>0, <2>1, <2>3 DEF TurnOK, Going, Fresh
  <2>5. Moved(r, t)
    BY <2>1, <2>3, <2>4 DEF Moved, a, Going
  <2>6. Says(r, t, e)
    BY <2>1, <2>2, <2>3, <2>4, <2>5 DEF Says, Saying, Streams, a
  <2>7. QED BY <2>1, <2>6 DEF TurnEffect
<1>8. QED BY <1>2, <1>3, <1>4, <1>5, <1>6, <1>7

LEMMA TurnEnds ==
    ASSUME TurnInv, NEW r \in Requests
    PROVE  Answering(r) \/ Apologise(r) \/ Refuse(r) => TurnEffect(r)
<1> DEFINE a == turn[r]
<1>0. a \in Turn /\ TurnOK(a) /\ TypeOK
  BY DEF TurnInv, TypeOK
<1>1. ASSUME NEW e \in Event, NEW stage \in {"replied", "failed"}, Submitted(a),
             turn' = [turn EXCEPT ![r] = Over(r, stage)], Publish(e),
             UNCHANGED <<channels, plugins, chunking>>,
             e.req = r, e.chat = a.chat, e.source = a.source, e.topic = "route.message",
             ~e.silent, e.tagged \/ Fresh(a)
      PROVE  TurnEffect(r)
  <2>1. Moved(r, Over(r, stage)) /\ Over(r, stage).stage = stage
    BY <1>1, OverMoves
  <2>2. Says(r, Over(r, stage), e)
    BY <1>1, <2>1 DEF Says, Saying
  <2>3. Aside
    BY <1>0, <1>1, NothingAside
  <2>4. QED BY <2>2, <2>3 DEF TurnEffect
<1>2. ASSUME Reply(r) PROVE TurnEffect(r)
  <2> DEFINE e == EventOf(r, "route.message")
  <2>1. /\ a.stage = "closed" /\ turn' = [turn EXCEPT ![r] = Over(r, "replied")] /\ Publish(e)
        /\ UNCHANGED <<channels, plugins, chunking>>
    BY <1>2 DEF Reply
  <2>2. /\ e \in Event /\ e.req = r /\ e.chat = a.chat /\ e.source = a.source
        /\ e.topic = "route.message" /\ ~e.silent /\ e.tagged
    BY <2>1, EventType
  <2> HIDE DEF e, a
  <2>3. QED BY <1>1, <2>1, <2>2 DEF Submitted
<1>3. ASSUME Apologise(r) PROVE TurnEffect(r)
  <2> DEFINE f == EventOf(r, "route.message")
  <2> DEFINE e == [f EXCEPT !.loud = TRUE]
  <2>1. /\ a.stage = "broken" /\ turn' = [turn EXCEPT ![r] = Over(r, "failed")] /\ Publish(e)
        /\ UNCHANGED <<channels, plugins, chunking>>
    BY <1>3 DEF Apologise
  <2>2. /\ f \in Event /\ f.req = r /\ f.chat = a.chat /\ f.source = a.source
        /\ f.topic = "route.message" /\ f.silent = FALSE /\ f.tagged = TRUE
    BY <2>1, EventType
  <2> HIDE DEF f, a
  <2>3. /\ e \in Event /\ e.req = r /\ e.chat = a.chat /\ e.source = a.source
        /\ e.topic = "route.message" /\ ~e.silent /\ e.tagged
    BY <2>2 DEF Event
  <2> HIDE DEF e
  <2>4. QED BY <1>1, <2>1, <2>3 DEF Submitted
<1>4. ASSUME Refuse(r) PROVE TurnEffect(r)
  <2> DEFINE f == EventOf(r, "route.message")
  <2> DEFINE e == [f EXCEPT !.loud = TRUE, !.tagged = FALSE]
  <2>1. /\ a.stage = "streaming" /\ a.attempt = 1 /\ a.chunks = 0
        /\ turn' = [turn EXCEPT ![r] = Over(r, "failed")] /\ Publish(e)
        /\ UNCHANGED <<channels, plugins, chunking>>
    BY <1>4 DEF Refuse
  <2>2. /\ f \in Event /\ f.req = r /\ f.chat = a.chat /\ f.source = a.source
        /\ f.topic = "route.message" /\ f.silent = FALSE
    BY <2>1, EventType
  <2> HIDE DEF f, a
  <2>3. /\ e \in Event /\ e.req = r /\ e.chat = a.chat /\ e.source = a.source
        /\ e.topic = "route.message" /\ ~e.silent
    BY <2>2 DEF Event
  <2> HIDE DEF e
  <2>4. QED BY <1>1, <2>1, <2>3 DEF Submitted, Fresh
<1>5. ASSUME EndQuietly(r) PROVE TurnEffect(r)
  <2>1. /\ a.stage = "closed" /\ turn' = [turn EXCEPT ![r] = Over(r, "quiet")]
        /\ UNCHANGED mails /\ UNCHANGED <<channels, plugins, chunking>>
    BY <1>5 DEF EndQuietly
  <2>2. Moved(r, Over(r, "quiet")) /\ Over(r, "quiet").stage = "quiet"
    BY <2>1, OverMoves DEF Submitted
  <2>3. Silently(r, Over(r, "quiet"))
    BY <2>1, <2>2 DEF Silently, Submitted
  <2>4. Aside
    BY <1>0, <2>1, NothingAside
  <2>5. QED BY <2>3, <2>4 DEF TurnEffect
<1>6. ASSUME ReplySilently(r) PROVE TurnEffect(r)
  <2> DEFINE f == EventOf(r, "assistant.message")
  <2> DEFINE e == [f EXCEPT !.silent = TRUE, !.tagged = FALSE]
  <2>1. /\ a.stage = "closed" /\ turn' = [turn EXCEPT ![r] = Over(r, "quiet")] /\ Publish(e)
        /\ UNCHANGED <<channels, plugins, chunking>>
    BY <1>6 DEF ReplySilently
  <2>2. /\ f \in Event /\ f.req = r /\ f.chat = a.chat /\ f.source = a.source
        /\ f.topic = "assistant.message"
    BY <2>1, EventType
  <2> HIDE DEF f
  <2>3. /\ e \in Event /\ e.req = r /\ e.chat = a.chat /\ e.source = a.source
        /\ e.topic = "assistant.message" /\ e.silent /\ ~e.tagged
    BY <2>2 DEF Event
  <2> HIDE DEF e
  <2>4. Moved(r, Over(r, "quiet")) /\ Over(r, "quiet").stage = "quiet"
    BY <2>1, OverMoves DEF Submitted
  <2>5. Says(r, Over(r, "quiet"), e)
    BY <2>1, <2>3, <2>4 DEF Says, Saying, Submitted
  <2>6. Aside
    BY <1>0, <2>1, NothingAside
  <2>7. QED BY <2>5, <2>6 DEF TurnEffect
<1>7. QED BY <1>2, <1>3, <1>4, <1>5, <1>6 DEF Answering

LEMMA ToolActs ==
    ASSUME TurnInv, NEW r \in Requests, NEW c \in Chats
    PROVE  \/ TelegramSends(r, c) \/ TelegramSpeaks(r, c) \/ TelegramSendsFile(r, c)
           \/ WechatSends(r, c) \/ FeishuSends(r, c)
           => TurnEffect(r)
<1>1. ASSUME ToolEnds(r), typing' \in SUBSET Chats PROVE TurnEffect(r)
  <2>1. /\ turn[r].stage = "closed" /\ turn' = [turn EXCEPT ![r] = Over(r, "quiet")]
        /\ UNCHANGED mails
    BY <1>1 DEF ToolEnds
  <2>2. Moved(r, Over(r, "quiet")) /\ Over(r, "quiet").stage = "quiet"
    BY <2>1, OverMoves DEF Submitted
  <2>3. Silently(r, Over(r, "quiet"))
    BY <2>1, <2>2 DEF Silently, Submitted
  <2>4. Aside
    BY <1>1 DEF ToolEnds, Aside, TurnInv, TypeOK
  <2>5. QED BY <2>3, <2>4 DEF TurnEffect
<1>2. typing \in SUBSET Chats
  BY DEF TurnInv, TypeOK
<1>3. QED BY <1>1, <1>2 DEF TelegramSends, TelegramSpeaks, TelegramSendsFile, WechatSends,
                             FeishuSends

LEMMA TurnStep == ASSUME TurnInv, NEW r \in Requests PROVE TurnActs(r) => TurnEffect(r)
<1>1. \A c \in ChatsOf[r] : \A s \in {Platform[c], ""} : s \in Sources
  BY DeliveryAssumption DEF Sources
<1>2. \A c \in ChatsOf[r] : \A s \in {Platform[c], ""} : TriggerFires(r, c, s) => TurnEffect(r)
  BY <1>1, TurnBegins
<1>3. QED BY <1>2, TurnBegins, TurnStreams, TurnEnds, ToolActs DEF TurnActs

----------------------------------------------------------------------------
\* The plugins

Seg(e, p) == [req |-> e.req, how |-> "segment", platform |-> p, chat |-> e.chat]

\* What a plugin does with the event that it takes.
Handles(e, p) ==
    \/ UNCHANGED <<shown, streamed, evicted>>
    \/ Streams(e) /\ e.source = p /\ shown' = shown \cup {Seg(e, p)} /\ MarkStreamed(p, e.req)
    \/ /\ e.topic = "assistant.message" /\ e.source = p /\ e.tagged
       /\ streamed' = [streamed EXCEPT ![p] = @ \ {e.req}] /\ UNCHANGED <<shown, evicted>>
    \/ /\ e.topic = "assistant.message" /\ e.source = p
       /\ ~(e.tagged /\ e.req \in streamed[p])
       /\ \E c \in AnyChat :
            /\ shown' = shown \cup
                 {[req |-> e.req, how |-> Whole(e), platform |-> p, chat |-> c]}
            /\ c = e.chat \/ (p = "telegram" /\ Whole(e) = "whole")
       /\ UNCHANGED <<streamed, evicted>>

PluginEffect ==
    /\ imMail # <<>> /\ imMail' = Tail(imMail)
    /\ UNCHANGED <<turn, routerMail, channels, chunking>>
    /\ current' \in [Platforms -> AnyChat] /\ typing' \in SUBSET Chats
    /\ buffer' \in [Requests -> Nat \cup {NoBuffer}] /\ loops' \in [Chats -> Nat]
    /\ \E p \in Platforms : Handles(Head(imMail), p)

LEMMA HeadEvent ==
    ASSUME TypeOK, imMail # <<>>
    PROVE  LET e == Head(imMail) IN
           /\ e \in Event /\ e.req \in Requests /\ e.chat \in Chats /\ e.chat \in AnyChat
           /\ e.piece.n \in Nat /\ e.piece.stop \in BOOLEAN
           /\ e.tagged \in BOOLEAN /\ e.silent \in BOOLEAN /\ e.loud \in BOOLEAN
<1> DEFINE e == Head(imMail)
<1>1. e \in Event
  BY QueueTaken DEF TypeOK
<1> HIDE DEF e
<1>2. /\ e.req \in Requests /\ e.chat \in Chats /\ e.piece \in [n: Nat, stop: BOOLEAN]
      /\ e.tagged \in BOOLEAN /\ e.silent \in BOOLEAN /\ e.loud \in BOOLEAN
  BY <1>1 DEF Event
<1>3. QED BY <1>1, <1>2 DEF AnyChat, e

LEMMA ChunkShown == ASSUME TypeOK, NEW p \in Platforms PROVE ShowChunk(p) => PluginEffect
<1> SUFFICES ASSUME ShowChunk(p) PROVE PluginEffect
  OBVIOUS
<1> DEFINE e == Head(imMail)
<1> DEFINE held == IF buffer[e.req] = NoBuffer THEN 0 ELSE buffer[e.req]
<1> DEFINE said == held + e.piece.n
<1> DEFINE cut == e.piece.stop \/ said >= MaxBuffer
<1>1. /\ imMail # <<>> /\ e.topic = "llm.chunk" /\ e.source = p
      /\ buffer' = [buffer EXCEPT ![e.req] = IF cut THEN 0 ELSE said]
      /\ IF cut /\ VisibleSegment(said)
         THEN Show(e.req, "segment", p, e.chat) /\ MarkStreamed(p, e.req)
         ELSE UNCHANGED <<shown, streamed, evicted>>
      /\ imMail' = Tail(imMail)
      /\ UNCHANGED <<turn, routerMail, channels, current, typing, loops, chunking>>
  BY DEF ShowChunk, Seen
<1>2. e.req \in Requests /\ e.piece.n \in Nat
  BY <1>1, HeadEvent
<1>3. held \in Nat
  BY <1>2 DEF TypeOK
<1>4. said \in Nat
  BY <1>2, <1>3
<1> HIDE DEF held, said, cut
<1>5. buffer' \in [Requests -> Nat \cup {NoBuffer}]
  BY <1>1, <1>2, <1>4 DEF TypeOK
<1>6. Handles(e, p)
  BY <1>1 DEF Handles, Streams, Show, Seg
<1>7. QED BY <1>1, <1>5, <1>6 DEF PluginEffect, TypeOK

LEMMA RestShown == ASSUME TypeOK, NEW p \in Platforms PROVE ShowRest(p) => PluginEffect
<1> SUFFICES ASSUME ShowRest(p) PROVE PluginEffect
  OBVIOUS
<1> DEFINE e == Head(imMail)
<1>1. /\ imMail # <<>> /\ e.topic = "llm.response" /\ e.source = p
      /\ buffer' = [buffer EXCEPT ![e.req] = NoBuffer]
      /\ IF VisibleSegment(buffer[e.req])
         THEN Show(e.req, "segment", p, e.chat) /\ MarkStreamed(p, e.req)
         ELSE UNCHANGED <<shown, streamed, evicted>>
      /\ typing' = IF p = "telegram" THEN typing \ {e.chat} ELSE typing
      /\ imMail' = Tail(imMail)
      /\ UNCHANGED <<turn, routerMail, channels, current, loops, chunking>>
  BY DEF ShowRest, Seen
<1>2. buffer' \in [Requests -> Nat \cup {NoBuffer}] /\ typing' \in SUBSET Chats
  BY <1>1 DEF TypeOK
<1>3. Handles(e, p)
  BY <1>1 DEF Handles, Streams, Show, Seg
<1>4. QED BY <1>1, <1>2, <1>3 DEF PluginEffect, TypeOK

LEMMA StreamTaken == ASSUME TypeOK, NEW p \in Platforms PROVE TakeStreamed(p) => PluginEffect
<1> SUFFICES ASSUME TakeStreamed(p) PROVE PluginEffect
  OBVIOUS
<1>1. /\ imMail # <<>> /\ imMail' = Tail(imMail) /\ Handles(Head(imMail), p)
      /\ UNCHANGED <<turn, routerMail, channels, current, buffer, loops, chunking>>
  BY DEF TakeStreamed, Seen, Handles
<1>2. typing' \in SUBSET Chats
  BY DEF TakeStreamed, TypeOK
<1>3. QED BY <1>1, <1>2 DEF PluginEffect, TypeOK

LEMMA AnswersShown ==
    ASSUME TypeOK PROVE TelegramAnswers \/ FeishuAnswers \/ WechatAnswers => PluginEffect
<1> DEFINE e == Head(imMail)
<1>0. "telegram" \in Platforms /\ "feishu" \in Platforms /\ "wechat" \in Platforms
  BY DEF Platforms
<1>1. ASSUME TelegramAnswers PROVE PluginEffect
  <2> DEFINE c == current["telegram"]
  <2>1. /\ imMail # <<>> /\ e.topic = "assistant.message" /\ e.source = "telegram"
        /\ ~(e.tagged /\ e.req \in streamed["telegram"])
        /\ typing' = typing \ {c}
        /\ IF e.silent \/ ~e.loud THEN UNCHANGED shown ELSE Show(e.req, "whole", "telegram", c)
        /\ imMail' = Tail(imMail)
        /\ UNCHANGED <<turn, routerMail, channels, current, buffer, streamed, evicted, loops,
                       chunking>>
    BY <1>1 DEF TelegramAnswers, NotStreamed, Seen
  <2>2. c \in AnyChat /\ typing' \in SUBSET Chats
    BY <1>0, <2>1 DEF TypeOK
  <2> HIDE DEF c, e
  <2>3. Handles(e, "telegram")
    BY <2>1, <2>2 DEF Handles, Show, Whole
  <2>4. QED BY <1>0, <2>1, <2>2, <2>3 DEF PluginEffect, TypeOK, e
<1>2. ASSUME FeishuAnswers PROVE PluginEffect
  <2>1. /\ imMail # <<>> /\ e.topic = "assistant.message" /\ e.source = "feishu"
        /\ ~(e.tagged /\ e.req \in streamed["feishu"])
        /\ current' = [current EXCEPT !["feishu"] = e.chat]
        /\ Show(e.req, Whole(e), "feishu", e.chat)
        /\ imMail' = Tail(imMail)
        /\ UNCHANGED <<turn, routerMail, channels, buffer, streamed, evicted, typing, loops,
                       chunking>>
    BY <1>2 DEF FeishuAnswers, NotStreamed, Seen
  <2>2. e.chat \in AnyChat
    BY <2>1, HeadEvent
  <2> HIDE DEF e
  <2>3. current' \in [Platforms -> AnyChat]
    BY <2>1, <2>2 DEF TypeOK
  <2>4. Handles(e, "feishu")
    BY <2>1, <2>2 DEF Handles, Show
  <2>5. QED BY <1>0, <2>1, <2>3, <2>4 DEF PluginEffect, TypeOK, e
<1>3. ASSUME WechatAnswers PROVE PluginEffect
  <2>1. /\ imMail # <<>> /\ e.topic = "assistant.message" /\ e.source = "wechat"
        /\ ~(e.tagged /\ e.req \in streamed["wechat"])
        /\ IF e.loud THEN Show(e.req, Whole(e), "wechat", e.chat) ELSE UNCHANGED shown
        /\ imMail' = Tail(imMail)
        /\ UNCHANGED <<turn, routerMail, channels, current, buffer, streamed, evicted, typing,
                       loops, chunking>>
    BY <1>3 DEF WechatAnswers, NotStreamed, Seen
  <2>2. e.chat \in AnyChat
    BY <2>1, HeadEvent
  <2> HIDE DEF e
  <2>3. Handles(e, "wechat")
    BY <2>1, <2>2 DEF Handles, Show
  <2>4. QED BY <1>0, <2>1, <2>3 DEF PluginEffect, TypeOK, e
<1>4. QED BY <1>1, <1>2, <1>3

LEMMA MessagesPass == ASSUME TypeOK PROVE TelegramUnknown \/ TelegramTypes => PluginEffect
<1>0. "telegram" \in Platforms
  BY DEF Platforms
<1>1. ASSUME TelegramUnknown PROVE PluginEffect
  BY <1>0, <1>1 DEF TelegramUnknown, Seen, PluginEffect, Handles, TypeOK, plugins
<1>2. ASSUME TelegramTypes PROVE PluginEffect
  <2> DEFINE c == current["telegram"]
  <2>1. /\ imMail # <<>> /\ c # NoChat /\ imMail' = Tail(imMail)
        /\ typing' = typing \cup {c} /\ loops' = [loops EXCEPT ![c] = @ + 1]
        /\ UNCHANGED <<turn, routerMail, channels, current, buffer, streamed, evicted, shown,
                       chunking>>
    BY <1>2 DEF TelegramTypes, Seen
  <2>2. c \in Chats
    BY <1>0, <2>1 DEF TypeOK, AnyChat
  <2> HIDE DEF c
  <2>3. typing' \in SUBSET Chats /\ loops' \in [Chats -> Nat]
    BY <2>1, <2>2 DEF TypeOK
  <2>4. QED BY <1>0, <2>1, <2>3 DEF PluginEffect, Handles, TypeOK
<1>3. QED BY <1>1, <1>2

LEMMA PluginStep == ASSUME TypeOK PROVE PluginManager => PluginEffect
<1>1. "telegram" \in Platforms /\ "feishu" \in Platforms /\ "wechat" \in Platforms
  BY DEF Platforms
<1>2. QED BY <1>1, ChunkShown, RestShown, StreamTaken, AnswersShown, MessagesPass
          DEF PluginManager, TelegramStreams, FeishuStreams, WechatStreams

----------------------------------------------------------------------------
\* The router

TakesRoute == routerMail # <<>> /\ Head(routerMail).topic = "route.message"

\* One copy for each target, under the target's name.
RouteEffect ==
    LET e == Head(routerMail)
    IN
    /\ TakesRoute /\ routerMail' = Tail(routerMail)
    /\ \E o \in Seq(Event) :
         /\ imMail' = imMail \o o
         /\ \A x : In(o, x) => \E p \in ResolveTargets(e.source) : x = RoutedTo(e, p)
         /\ \A a, b : Before(o, a, b) => a.source # b.source
    /\ UNCHANGED <<turn, plugins, channels, chunking>>

LEMMA TargetsArePlatforms ==
    ASSUME TypeOK, NEW s \in Sources PROVE ResolveTargets(s) \subseteq Platforms
BY DEF ResolveTargets, Registered, Sources

LEMMA RoutedType ==
    ASSUME NEW e \in Event, NEW p \in Platforms
    PROVE  /\ RoutedTo(e, p) \in Event /\ RoutedTo(e, p).source = p
           /\ RoutedTo(e, p).topic = "assistant.message" /\ RoutedTo(e, p).req = e.req
           /\ RoutedTo(e, p).chat = e.chat /\ RoutedTo(e, p).silent = e.silent
           /\ RoutedTo(e, p).tagged = e.tagged
<1>1. p \in Sources
  BY DEF Sources
<1>2. QED BY <1>1 DEF RoutedTo, Event

LEMMA PlatformsFinite == IsFiniteSet(Platforms)
<1>1. IsFiniteSet({"telegram"}) /\ IsFiniteSet({"feishu"}) /\ IsFiniteSet({"wechat"})
  BY FS_Singleton
<1>2. IsFiniteSet({"telegram"} \cup {"feishu"})
  BY <1>1, FS_Union
<1>3. IsFiniteSet(({"telegram"} \cup {"feishu"}) \cup {"wechat"})
  BY <1>1, <1>2, FS_Union
<1>4. ({"telegram"} \cup {"feishu"}) \cup {"wechat"} = Platforms
  BY DEF Platforms
<1>5. QED BY <1>3, <1>4

LEMMA RouteStep == ASSUME TypeOK, RouteMessage PROVE RouteEffect
<1> DEFINE e == Head(routerMail)
<1> DEFINE targets == ResolveTargets(e.source)
<1> DEFINE copies == {RoutedTo(e, p) : p \in targets}
<1>1. PICK o \in [1..Cardinality(copies) -> copies] :
        /\ \A i, j \in DOMAIN o : i # j => o[i] # o[j]
        /\ imMail' = imMail \o o
  BY DEF RouteMessage
<1>2. /\ routerMail # <<>> /\ e.topic = "route.message" /\ routerMail' = Tail(routerMail)
      /\ UNCHANGED <<turn, plugins, channels, chunking>>
  BY DEF RouteMessage
<1>3. e \in Event /\ e.source \in Sources
  <2>1. e \in Event
    BY <1>2, QueueTaken DEF TypeOK
  <2> HIDE DEF e
  <2>2. QED BY <2>1 DEF Event
<1>4. targets \subseteq Platforms
  BY <1>3, TargetsArePlatforms
<1>5. IsFiniteSet(targets)
  BY <1>4, PlatformsFinite, FS_Subset
<1> HIDE DEF e, targets
<1>6. copies \subseteq Event
  BY <1>3, <1>4, RoutedType
<1>7. IsFiniteSet(copies)
  <2> DEFINE f == [p \in targets |-> RoutedTo(e, p)]
  <2>1. f \in Surjection(targets, copies)
    BY DEF Surjection
  <2> HIDE DEF f, copies
  <2>2. QED BY <1>5, <2>1, FS_Surjection
<1> DEFINE n == Cardinality(copies)
<1>8. n \in Nat
  BY <1>7, FS_CardinalityType
<1>9. \A x \in copies : \E p \in targets : x = RoutedTo(e, p)
  OBVIOUS
<1> HIDE DEF copies
<1>10. o \in [1..n -> copies]
  BY <1>1
<1> HIDE DEF n
<1>11. o \in Seq(Event) /\ Len(o) = n
  <2>1. o \in [1..n -> Event]
    BY <1>6, <1>10
  <2>2. o \in Seq(Event)
    BY <1>8, <2>1, IsASeq
  <2>3. DOMAIN o = 1..Len(o) /\ Len(o) \in Nat
    BY <2>2, LenProperties
  <2>4. DOMAIN o = 1..n
    BY <2>1
  <2>5. 1..Len(o) = 1..n
    BY <2>3, <2>4
  <2>6. \A k, m \in Nat : 1..k = 1..m => k = m
    <3>1. SUFFICES ASSUME NEW k \in Nat, NEW m \in Nat, 1..k = 1..m, k < m PROVE FALSE
      OBVIOUS
    <3>2. m \in 1..m /\ m \notin 1..k
      BY <3>1
    <3>3. QED BY <3>1, <3>2
  <2>7. QED BY <1>8, <2>2, <2>3, <2>5, <2>6
<1>12. \A x : In(o, x) => x \in copies
  BY <1>10, <1>11 DEF In
<1>13. ASSUME NEW a, NEW b, Before(o, a, b) PROVE a.source # b.source
  <2>1. PICK i, j \in 1..n : i < j /\ o[i] = a /\ o[j] = b
    BY <1>11, <1>13 DEF Before
  <2>2. a # b /\ a \in copies /\ b \in copies
    <3>1. i \in DOMAIN o /\ j \in DOMAIN o /\ i # j
      <4>1. DOMAIN o = 1..n
        BY <1>10
      <4>2. i # j
        BY <1>8, <2>1
      <4>3. QED BY <2>1, <4>1, <4>2
    <3>2. o[i] \in copies /\ o[j] \in copies /\ o[i] # o[j]
      BY <1>1, <1>10, <3>1
    <3>3. QED BY <2>1, <3>2
  <2>3. PICK p \in targets, q \in targets : a = RoutedTo(e, p) /\ b = RoutedTo(e, q)
    BY <1>9, <2>2
  <2>4. a.source = p /\ b.source = q
    BY <1>3, <1>4, <2>3, RoutedType
  <2>5. QED BY <2>2, <2>3, <2>4
<1>14. /\ o \in Seq(Event) /\ imMail' = imMail \o o
       /\ \A x : In(o, x) => \E p \in ResolveTargets(e.source) : x = RoutedTo(e, p)
       /\ \A a, b : Before(o, a, b) => a.source # b.source
  BY <1>1, <1>9, <1>11, <1>12, <1>13 DEF targets
<1>15. QED BY <1>2, <1>14 DEF RouteEffect, TakesRoute, e

----------------------------------------------------------------------------
\* Types

Idle ==
    /\ UNCHANGED <<turn, mails, channels, shown, streamed, evicted, buffer, current, chunking>>
    /\ typing' \in SUBSET Chats /\ loops' \in [Chats -> Nat]

\* The steps of the whole.
Effect ==
    \/ \E r \in Requests : TurnEffect(r)
    \/ RegisterChannel
    \/ RouteEffect
    \/ PluginEffect
    \/ Idle

LEMMA NextEffect == TurnInv /\ [Next]_vars => Effect
<1> SUFFICES ASSUME TurnInv, [Next]_vars PROVE Effect
  OBVIOUS
<1>0. TypeOK
  BY DEF TurnInv
<1>1. ASSUME NEW c \in Chats, TypingEnds(c) PROVE Idle
  <2>1. loops[c] \in Nat /\ loops[c] > 0 /\ loops' = [loops EXCEPT ![c] = @ - 1]
    BY <1>0, <1>1 DEF TypingEnds, TypeOK
  <2>2. loops[c] - 1 \in Nat
    BY <2>1
  <2>3. loops' \in [Chats -> Nat]
    BY <1>0, <2>1, <2>2 DEF TypeOK
  <2>4. QED BY <1>0, <1>1, <2>3 DEF TypingEnds, TypeOK, Idle
<1>2. CASE UNCHANGED vars
  BY <1>0, <1>2 DEF vars, mails, plugins, TypeOK, Idle, Effect
<1>3. CASE Next
  <2>1. \/ \E r \in Requests : TurnActs(r)
        \/ Router \/ PluginManager
        \/ \E c \in Chats : TypingEnds(c)
    BY <1>3 DEF Next, TurnActs
  <2>2. QED BY <1>0, <1>1, <2>1, TurnStep, RouteStep, PluginStep DEF Router, Effect
<1>4. QED BY <1>2, <1>3

LEMMA PublishType ==
    ASSUME NEW e \in Event, Publish(e), routerMail \in Seq(Event), imMail \in Seq(Event)
    PROVE  routerMail' \in Seq(Event) /\ imMail' \in Seq(Event)
BY QueueAppended DEF Publish

LEMMA TurnKeepsTypes ==
    ASSUME TurnInv, NEW r \in Requests, TurnEffect(r)
    PROVE  TurnInv'
<1>1. PICK t : Silently(r, t) \/ \E e : Says(r, t, e)
  BY DEF TurnEffect
<1>2. Moved(r, t) /\ Aside
  BY <1>1 DEF TurnEffect, Silently, Says
<1>3. routerMail' \in Seq(Event) /\ imMail' \in Seq(Event)
  <2>1. CASE Silently(r, t)
    BY <2>1 DEF Silently, mails, TurnInv, TypeOK
  <2>2. CASE \E e : Says(r, t, e)
    BY <2>2, PublishType DEF Says, TurnInv, TypeOK
  <2>3. QED BY <1>1, <2>1, <2>2
<1>4. t \in Turn /\ TurnOK(t) /\ turn' = [turn EXCEPT ![r] = t] /\ turn \in [Requests -> Turn]
  BY <1>2 DEF Moved, TurnInv, TypeOK
<1>5. turn' \in [Requests -> Turn] /\ \A q \in Requests : TurnOK(turn'[q])
  BY <1>4 DEF TurnInv
<1>6. TypeOK'
  BY <1>2, <1>3, <1>5 DEF Aside, TurnInv, TypeOK
<1>7. QED BY <1>5, <1>6 DEF TurnInv

LEMMA HandlesType ==
    ASSUME TypeOK, imMail # <<>>, NEW p \in Platforms, Handles(Head(imMail), p)
    PROVE  /\ streamed' \in [Platforms -> SUBSET Requests] /\ evicted' \in SUBSET Requests
           /\ shown' \in SUBSET Shown
<1> DEFINE e == Head(imMail)
<1>1. e.req \in Requests /\ e.chat \in AnyChat /\ e.silent \in BOOLEAN
  BY HeadEvent
<1>2. /\ streamed \in [Platforms -> SUBSET Requests] /\ evicted \in SUBSET Requests
      /\ shown \in SUBSET Shown
  BY DEF TypeOK
<1> HIDE DEF e
<1>3. ASSUME MarkStreamed(p, e.req)
      PROVE  streamed' \in [Platforms -> SUBSET Requests] /\ evicted' \in SUBSET Requests
  <2>1. streamed[p] \cup {e.req} \in SUBSET Requests
    BY <1>1, <1>2
  <2>2. QED BY <1>2, <1>3, <2>1 DEF MarkStreamed
<1>4. \A c \in AnyChat, h \in {"segment", "whole", "silent"} :
         [req |-> e.req, how |-> h, platform |-> p, chat |-> c] \in Shown
  BY <1>1 DEF Shown
<1>5. Seg(e, p) \in Shown /\ \A c \in AnyChat :
         [req |-> e.req, how |-> Whole(e), platform |-> p, chat |-> c] \in Shown
  BY <1>1, <1>4 DEF Seg, Whole
<1>6. QED BY <1>2, <1>3, <1>5 DEF Handles, e

LEMMA TurnInvStep == TurnInv /\ Effect => TurnInv'
<1> SUFFICES ASSUME TurnInv, Effect PROVE TurnInv'
  OBVIOUS
<1>0. TypeOK /\ routerMail \in Seq(Event) /\ imMail \in Seq(Event)
  BY DEF TurnInv, TypeOK
<1>1. CASE \E r \in Requests : TurnEffect(r)
  BY <1>1, TurnKeepsTypes
<1>2. CASE RegisterChannel
  <2> DEFINE e == Head(routerMail)
  <2>1. /\ routerMail # <<>> /\ channels' = [channels EXCEPT ![e.source] = e.chat]
        /\ routerMail' = Tail(routerMail) /\ UNCHANGED <<turn, imMail, plugins, chunking>>
    BY <1>2 DEF RegisterChannel
  <2>2. e \in Event /\ routerMail' \in Seq(Event)
    BY <1>0, <2>1, QueueTaken
  <2> HIDE DEF e
  <2>3. e.chat \in AnyChat
    BY <2>2 DEF Event, AnyChat
  <2>4. channels' \in [Platforms -> AnyChat]
    BY <1>0, <2>1, <2>3 DEF TypeOK
  <2>5. QED BY <2>1, <2>2, <2>4 DEF TurnInv, TypeOK, plugins
<1>3. CASE RouteEffect
  <2>1. /\ routerMail # <<>> /\ routerMail' = Tail(routerMail)
        /\ \E o \in Seq(Event) : imMail' = imMail \o o
        /\ UNCHANGED <<turn, plugins, channels, chunking>>
    BY <1>3 DEF RouteEffect, TakesRoute
  <2>2. routerMail' \in Seq(Event) /\ imMail' \in Seq(Event)
    BY <1>0, <2>1, QueueTaken, QueueJoined
  <2>3. QED BY <2>1, <2>2 DEF TurnInv, TypeOK, plugins
<1>4. CASE PluginEffect
  <2>1. imMail' \in Seq(Event)
    BY <1>0, <1>4, QueueTaken DEF PluginEffect
  <2>2. /\ streamed' \in [Platforms -> SUBSET Requests] /\ evicted' \in SUBSET Requests
        /\ shown' \in SUBSET Shown
    BY <1>0, <1>4, HandlesType DEF PluginEffect
  <2>3. QED BY <1>4, <2>1, <2>2 DEF PluginEffect, TurnInv, TypeOK
<1>5. CASE Idle
  BY <1>5 DEF Idle, mails, TurnInv, TypeOK
<1>6. QED BY <1>1, <1>2, <1>3, <1>4, <1>5 DEF Effect

LEMMA TurnInvInit == Init => TurnInv
<1> SUFFICES ASSUME Init PROVE TurnInv
  OBVIOUS
<1>1. 0 \in 0..MaxAttempts /\ 0 \in 0..MaxChunks /\ 0 \in 0..2
  BY DeliveryAssumption
<1>2. NoTurn \in Turn
  BY <1>1 DEF NoTurn, Turn, Sources, AnyChat
<1>3. TurnOK(NoTurn)
  BY DEF TurnOK, NoTurn, Going
<1>4. TypeOK
  BY <1>2, EmptySeq DEF Init, TypeOK, AnyChat
<1>5. QED BY <1>3, <1>4 DEF Init, TurnInv

LEMMA TurnInvariant == Spec => []TurnInv
<1>1. TurnInv /\ [Next]_vars => TurnInv'
  BY NextEffect, TurnInvStep
<1>2. QED BY <1>1, TurnInvInit, PTL DEF Spec

----------------------------------------------------------------------------
\* The events under way

Answer(e) == e.topic \in {"route.message", "assistant.message"} /\ ~e.silent

\* An event is of a turn that has begun, and goes where the turn wants; a whole
\* answer is the end of its turn.
EventOK(e) ==
    /\ turn[e.req].stage \notin {"none", "heard"}
    /\ e.chat = turn[e.req].chat
    /\ e.topic = "user.message" => turn[e.req].kind = "user"
    /\ turn[e.req].kind = "user" => e.source = Platform[e.chat]
    /\ Answer(e) => turn[e.req].stage \in {"replied", "failed"}

EventsOK == \A e : In(routerMail, e) \/ In(imMail, e) => EventOK(e)

TopicsOK ==
    /\ \A e : In(routerMail, e) => e.topic \in RouterTopics /\ ~e.silent
    /\ \A e : In(imMail, e) => e.topic # "route.message" /\ (e.silent => ~e.tagged)

\* After the whole answer there is no piece of it, nor the answer again.
AnswerLast ==
    \A a, b : Before(imMail, a, b) /\ a.req = b.req /\ Answer(a) =>
        ~Streams(b) /\ (Answer(b) => a.source # b.source)

RoutedOnce ==
    /\ \A a, b : Before(routerMail, a, b) /\ Answer(a) /\ Answer(b) => a.req # b.req
    /\ \A a, b : In(routerMail, a) /\ In(imMail, b) /\ Answer(a) /\ Answer(b) => a.req # b.req

MailInv == EventsOK /\ TopicsOK /\ AnswerLast /\ RoutedOnce

LEMMA PublishQueues ==
    ASSUME TypeOK, NEW e \in Event, Publish(e)
    PROVE  /\ \A x : In(routerMail', x) <=> In(routerMail, x) \/ (x = e /\ e.topic \in RouterTopics)
           /\ \A x : In(imMail', x) <=> In(imMail, x) \/ (x = e /\ ForPlugins(e))
           /\ \A a, b : Before(routerMail', a, b) <=>
                 Before(routerMail, a, b) \/ (In(routerMail, a) /\ b = e /\ e.topic \in RouterTopics)
           /\ \A a, b : Before(imMail', a, b) <=>
                 Before(imMail, a, b) \/ (In(imMail, a) /\ b = e /\ ForPlugins(e))
<1>0. routerMail \in Seq(Event) /\ imMail \in Seq(Event)
  BY DEF TypeOK
<1>1. /\ imMail' = IF ForPlugins(e) THEN Append(imMail, e) ELSE imMail
      /\ routerMail' = IF e.topic \in RouterTopics THEN Append(routerMail, e) ELSE routerMail
  BY DEF Publish
<1>2. /\ \A x : In(Append(imMail, e), x) <=> In(imMail, x) \/ x = e
      /\ \A a, b : Before(Append(imMail, e), a, b) <=>
            Before(imMail, a, b) \/ (In(imMail, a) /\ b = e)
  BY <1>0, QueueAppended
<1>3. /\ \A x : In(Append(routerMail, e), x) <=> In(routerMail, x) \/ x = e
      /\ \A a, b : Before(Append(routerMail, e), a, b) <=>
            Before(routerMail, a, b) \/ (In(routerMail, a) /\ b = e)
  BY <1>0, QueueAppended
<1>4. CASE ForPlugins(e) /\ e.topic \in RouterTopics
  BY <1>1, <1>2, <1>3, <1>4
<1>5. CASE ForPlugins(e) /\ e.topic \notin RouterTopics
  BY <1>1, <1>2, <1>5
<1>6. CASE ~ForPlugins(e) /\ e.topic \in RouterTopics
  BY <1>1, <1>3, <1>6
<1>7. CASE ~ForPlugins(e) /\ e.topic \notin RouterTopics
  BY <1>1, <1>7
<1>8. QED BY <1>4, <1>5, <1>6, <1>7

LEMMA QueuedEvent ==
    ASSUME TypeOK, NEW e, In(routerMail, e) \/ In(imMail, e)
    PROVE  e \in Event /\ e.req \in Requests
<1>1. e \in Event
  BY QueuedType DEF TypeOK
<1>2. QED BY <1>1 DEF Event

\* What a turn does next leaves the events of the others alone, and its own are
\* of a turn that goes on.
LEMMA MovedEventOK ==
    ASSUME TurnInv, NEW r \in Requests, NEW t, Moved(r, t), NEW e,
           e.req \in Requests, EventOK(e)
    PROVE  EventOK(e)'
<1>1. turn \in [Requests -> Turn] /\ turn' = [turn EXCEPT ![r] = t]
  BY DEF TurnInv, TypeOK, Moved
<1>2. CASE e.req # r
  <2>1. turn'[e.req] = turn[e.req]
    BY <1>1, <1>2
  <2>2. QED BY <2>1 DEF EventOK
<1>3. CASE e.req = r
  <2>1. turn'[e.req] = t /\ turn[e.req] = turn[r]
    BY <1>1, <1>3
  <2>2. turn[r].stage \notin {"none", "heard"}
    BY <1>3 DEF EventOK
  <2>3. turn[r].stage \in Going /\ t.stage \notin {"none", "heard"}
        /\ t.kind = turn[r].kind /\ t.chat = turn[r].chat
    BY <2>2 DEF Moved
  <2>4. ~Answer(e)
    BY <1>3, <2>3 DEF EventOK, Going
  <2>5. QED BY <2>1, <2>3, <2>4 DEF EventOK
<1>4. QED BY <1>2, <1>3

LEMMA SaidEventOK ==
    ASSUME TurnInv, NEW r \in Requests, NEW t, NEW e, Says(r, t, e)
    PROVE  EventOK(e)' /\ turn[r].stage \in Going /\ (e.topic = "assistant.message" => ~Answer(e))
<1>1. turn \in [Requests -> Turn] /\ TurnOK(turn[r])
  BY DEF TurnInv, TypeOK
<1>2. /\ turn' = [turn EXCEPT ![r] = t] /\ e.req = r /\ e.chat = turn[r].chat
      /\ e.source = turn[r].source /\ Saying(r, t, e) /\ t.stage # "none"
  BY DEF Says, Moved
<1>3. turn[r].stage \in Going
  BY <1>2 DEF Saying, Submitted, Going
<1>4. t.kind = turn[r].kind /\ t.chat = turn[r].chat /\ t.stage # "heard"
  BY <1>3 DEF Says, Moved, Going
<1>5. turn'[e.req] = t
  BY <1>1, <1>2
<1>6. turn[r].kind = "user" => e.source = Platform[e.chat]
  BY <1>1, <1>2, <1>3 DEF TurnOK
<1>7. e.topic = "user.message" => turn[r].kind = "user"
  BY <1>1, <1>2 DEF TurnOK, Saying, Streams
<1>8. Answer(e) => t.stage \in {"replied", "failed"} /\ e.topic # "assistant.message"
  BY <1>2 DEF Answer, Saying, Streams
<1>9. QED BY <1>2, <1>3, <1>4, <1>5, <1>6, <1>7, <1>8 DEF EventOK

LEMMA MailSaid ==
    ASSUME TurnInv, MailInv, NEW r \in Requests, NEW t, NEW e, Says(r, t, e)
    PROVE  MailInv'
<1>0. TypeOK /\ Moved(r, t) /\ e \in Event /\ Publish(e) /\ e.req = r
  BY DEF TurnInv, Says
<1>1. /\ \A x : In(routerMail', x) <=> In(routerMail, x) \/ (x = e /\ e.topic \in RouterTopics)
      /\ \A x : In(imMail', x) <=> In(imMail, x) \/ (x = e /\ ForPlugins(e))
      /\ \A a, b : Before(routerMail', a, b) <=>
            Before(routerMail, a, b) \/ (In(routerMail, a) /\ b = e /\ e.topic \in RouterTopics)
      /\ \A a, b : Before(imMail', a, b) <=>
            Before(imMail, a, b) \/ (In(imMail, a) /\ b = e /\ ForPlugins(e))
  BY <1>0, PublishQueues
<1>2. EventOK(e)' /\ turn[r].stage \in Going /\ (e.topic = "assistant.message" => ~Answer(e))
  BY SaidEventOK
<1>3. EventsOK'
  <2>1. ASSUME NEW x, In(routerMail, x) \/ In(imMail, x) PROVE EventOK(x)'
    BY <1>0, <2>1, QueuedEvent, MovedEventOK DEF MailInv, EventsOK
  <2>2. QED BY <1>1, <1>2, <2>1 DEF EventsOK
<1>4. ASSUME NEW a, In(routerMail, a) \/ In(imMail, a), Answer(a) PROVE a.req # r
  BY <1>2, <1>4 DEF MailInv, EventsOK, EventOK, Going
<1>5. Saying(r, t, e)
  BY DEF Says
<1>6. TopicsOK'
  <2>1. e.topic \in RouterTopics => ~e.silent
    BY <1>5 DEF RouterTopics, Saying, Streams
  <2>2. ForPlugins(e) => e.topic # "route.message" /\ (e.silent => ~e.tagged)
    BY <1>5 DEF ForPlugins, Saying, Streams
  <2>3. QED BY <1>1, <2>1, <2>2 DEF TopicsOK, MailInv
<1>7. AnswerLast'
  BY <1>0, <1>1, <1>4 DEF AnswerLast, MailInv
<1>8. ForPlugins(e) => ~Answer(e)
  BY <1>2 DEF ForPlugins, Answer
<1>9. RoutedOnce'
  BY <1>0, <1>1, <1>4, <1>8 DEF RoutedOnce, MailInv
<1>10. QED BY <1>3, <1>6, <1>7, <1>9 DEF MailInv


LEMMA MailKept ==
    ASSUME TurnInv, MailInv, NEW r \in Requests, NEW t, Silently(r, t)
    PROVE  MailInv'
<1>1. TypeOK /\ Moved(r, t) /\ routerMail' = routerMail /\ imMail' = imMail
  BY DEF TurnInv, Silently, mails
<1>2. EventsOK'
  <2>1. ASSUME NEW x, In(routerMail, x) \/ In(imMail, x) PROVE EventOK(x)'
    BY <1>1, <2>1, QueuedEvent, MovedEventOK DEF MailInv, EventsOK
  <2>2. QED BY <1>1, <2>1 DEF EventsOK
<1>3. QED BY <1>1, <1>2 DEF MailInv, TopicsOK, AnswerLast, RoutedOnce

\* Events are taken from the queues.
LEMMA MailShrinks ==
    ASSUME MailInv, turn' = turn,
           \A x : In(routerMail', x) => In(routerMail, x),
           \A x : In(imMail', x) => In(imMail, x),
           \A a, b : Before(routerMail', a, b) => Before(routerMail, a, b),
           \A a, b : Before(imMail', a, b) => Before(imMail, a, b)
    PROVE  MailInv'
<1>1. EventsOK'
  BY DEF MailInv, EventsOK, EventOK
<1>2. TopicsOK'
  BY DEF MailInv, TopicsOK
<1>3. AnswerLast'
  BY DEF MailInv, AnswerLast
<1>4. RoutedOnce'
  BY DEF MailInv, RoutedOnce
<1>5. QED BY <1>1, <1>2, <1>3, <1>4 DEF MailInv

\* The head of the router's queue is taken, and its copies join the plugins'.
LEMMA MailRouted ==
    ASSUME TurnInv, MailInv, RouteEffect,
           turn[Head(routerMail).req].kind = "user" =>
               ResolveTargets(Head(routerMail).source) = {Head(routerMail).source}
    PROVE  MailInv'
<1> DEFINE e == Head(routerMail)
<1> DEFINE targets == ResolveTargets(e.source)
<1>0. /\ TypeOK /\ routerMail \in Seq(Event) /\ imMail \in Seq(Event) /\ routerMail # <<>>
      /\ e.topic = "route.message" /\ routerMail' = Tail(routerMail) /\ turn' = turn
  BY DEF TurnInv, TypeOK, RouteEffect, TakesRoute
<1>1. PICK o \in Seq(Event) :
        /\ imMail' = imMail \o o
        /\ \A x : In(o, x) => \E p \in targets : x = RoutedTo(e, p)
        /\ \A a, b : Before(o, a, b) => a.source # b.source
  BY DEF RouteEffect
<1>2. /\ e \in Event /\ In(routerMail, e)
      /\ \A x : In(routerMail', x) => In(routerMail, x) /\ Before(routerMail, e, x)
      /\ \A a, b : Before(routerMail', a, b) => Before(routerMail, a, b)
  BY <1>0, QueueTaken
<1>3. /\ \A x : In(imMail', x) <=> In(imMail, x) \/ In(o, x)
      /\ \A a, b : Before(imMail', a, b) <=>
            Before(imMail, a, b) \/ Before(o, a, b) \/ (In(imMail, a) /\ In(o, b))
  BY <1>0, <1>1, QueueJoined
<1>4. EventOK(e) /\ ~e.silent /\ Answer(e)
  BY <1>0, <1>2 DEF MailInv, EventsOK, TopicsOK, Answer
<1>5. e.source \in Sources
  BY <1>2 DEF Event
<1>6. targets \subseteq Platforms
  BY <1>0, <1>5, TargetsArePlatforms
<1>7. turn[e.req].kind = "user" => targets = {e.source}
  OBVIOUS
<1> HIDE DEF e, targets
<1>8. ASSUME NEW x, In(o, x)
      PROVE  /\ x.req = e.req /\ x.chat = e.chat /\ x.topic = "assistant.message" /\ ~x.silent
             /\ x.source \in targets /\ Answer(x)
  <2>1. PICK p \in targets : x = RoutedTo(e, p)
    BY <1>1, <1>8
  <2>2. /\ x.req = e.req /\ x.chat = e.chat /\ x.topic = "assistant.message"
        /\ x.silent = e.silent /\ x.source = p
    BY <1>2, <1>6, <2>1, RoutedType
  <2>3. QED BY <1>4, <2>2 DEF Answer
<1>9. ASSUME NEW x, In(o, x) PROVE EventOK(x)
  BY <1>4, <1>7, <1>8, <1>9 DEF EventOK, Answer
<1>10. EventsOK'
  <2>1. ASSUME NEW x, In(routerMail', x) \/ In(imMail', x) PROVE EventOK(x)
    BY <1>2, <1>3, <1>9, <2>1 DEF MailInv, EventsOK
  <2>2. QED BY <1>0, <2>1 DEF EventsOK, EventOK
<1>11. TopicsOK'
  BY <1>2, <1>3, <1>8 DEF MailInv, TopicsOK
<1>12. ASSUME NEW x, In(imMail, x), Answer(x) PROVE x.req # e.req
  BY <1>2, <1>4, <1>12 DEF MailInv, RoutedOnce
<1>13. \A a, b : Before(o, a, b) => In(o, a) /\ In(o, b)
  BY DEF Before, In
<1>14. AnswerLast'
  <2>1. ASSUME NEW a, NEW b, Before(imMail', a, b), a.req = b.req, Answer(a)
        PROVE  ~Streams(b) /\ (Answer(b) => a.source # b.source)
    <3>1. CASE Before(imMail, a, b)
      BY <2>1, <3>1 DEF MailInv, AnswerLast
    <3>2. CASE Before(o, a, b)
      BY <1>1, <1>8, <1>13, <3>2 DEF Streams
    <3>3. CASE In(imMail, a) /\ In(o, b)
      BY <1>8, <1>12, <2>1, <3>3
    <3>4. QED BY <1>3, <2>1, <3>1, <3>2, <3>3
  <2>2. QED BY <2>1 DEF AnswerLast
<1>15. RoutedOnce'
  <2>1. ASSUME NEW a, NEW b, Before(routerMail', a, b), Answer(a), Answer(b) PROVE a.req # b.req
    BY <1>2, <2>1 DEF MailInv, RoutedOnce
  <2>2. ASSUME NEW a, NEW b, In(routerMail', a), In(imMail', b), Answer(a), Answer(b)
        PROVE  a.req # b.req
    <3>1. CASE In(imMail, b)
      BY <1>2, <2>2, <3>1 DEF MailInv, RoutedOnce
    <3>2. CASE In(o, b)
      <4>1. e.req # a.req
        BY <1>2, <1>4, <2>2 DEF MailInv, RoutedOnce
      <4>2. QED BY <1>8, <3>2, <4>1
    <3>3. QED BY <1>3, <2>2, <3>1, <3>2
  <2>3. QED BY <2>1, <2>2 DEF RoutedOnce
<1>16. QED BY <1>10, <1>11, <1>14, <1>15 DEF MailInv


----------------------------------------------------------------------------
\* Where an answer goes

Registers(u, s) == u.topic = "user.message" /\ u.source = s

\* The router knows the platform of whoever waits for an answer, or is about to.
WriterKnown ==
    \A r \in Requests :
        turn[r].kind = "user" /\ Submitted(turn[r]) =>
            \/ channels[turn[r].source] # NoChat
            \/ \E u : In(routerMail, u) /\ Registers(u, turn[r].source)

\* It reads the user's message before the answer.
ReplyKnown ==
    \A e :
        In(routerMail, e) /\ e.topic = "route.message" /\ turn[e.req].kind = "user" =>
            \/ channels[e.source] # NoChat
            \/ \E u : Before(routerMail, u, e) /\ Registers(u, e.source)

ShownHome ==
    \A i \in shown :
        /\ turn[i.req].stage \notin {"none", "heard"}
        /\ turn[i.req].kind = "user" =>
              /\ i.platform = Platform[turn[i.req].chat]
              /\ i.chat = turn[i.req].chat \/ (i.platform = "telegram" /\ i.how = "whole")

HomeInv == MailInv /\ WriterKnown /\ ReplyKnown /\ ShownHome

LEMMA ShownRequest == ASSUME TypeOK, NEW i \in shown PROVE i.req \in Requests
<1>1. i \in Shown
  BY DEF TypeOK
<1>2. QED BY <1>1 DEF Shown

LEMMA ShownHomeMoved ==
    ASSUME TurnInv, ShownHome, NEW r \in Requests, NEW t, Moved(r, t), shown' = shown
    PROVE  ShownHome'
<1>1. turn \in [Requests -> Turn] /\ turn' = [turn EXCEPT ![r] = t] /\ TypeOK
  BY DEF TurnInv, TypeOK, Moved
<1>2. ASSUME NEW i \in shown
      PROVE  /\ turn'[i.req].stage \notin {"none", "heard"}
             /\ turn'[i.req].kind = turn[i.req].kind /\ turn'[i.req].chat = turn[i.req].chat
  <2>1. i.req \in Requests /\ turn[i.req].stage \notin {"none", "heard"}
    BY <1>1, ShownRequest DEF ShownHome
  <2>2. CASE i.req = r
    <3>1. turn'[i.req] = t
      BY <1>1, <2>2
    <3>2. t.stage \notin {"none", "heard"} /\ t.kind = turn[r].kind /\ t.chat = turn[r].chat
      BY <2>1, <2>2 DEF Moved
    <3>3. QED BY <2>2, <3>1, <3>2
  <2>3. CASE i.req # r
    <3>1. turn'[i.req] = turn[i.req]
      BY <1>1, <2>1, <2>3
    <3>2. QED BY <2>1, <3>1
  <2>4. QED BY <2>2, <2>3
<1> HIDE DEF ShownHome
<1>3. ASSUME NEW i \in shown
      PROVE  /\ turn'[i.req].stage \notin {"none", "heard"}
             /\ turn'[i.req].kind = "user" =>
                   /\ i.platform = Platform[turn'[i.req].chat]
                   /\ i.chat = turn'[i.req].chat \/ (i.platform = "telegram" /\ i.how = "whole")
  BY <1>2 DEF ShownHome
<1>4. QED BY <1>3 DEF ShownHome

LEMMA ReplyKnownMoved ==
    ASSUME TurnInv, HomeInv, NEW r \in Requests, NEW t, Moved(r, t), NEW e,
           In(routerMail, e), turn'[e.req].kind = "user"
    PROVE  turn[e.req].kind = "user"
<1>1. turn \in [Requests -> Turn] /\ turn' = [turn EXCEPT ![r] = t] /\ TypeOK
  BY DEF TurnInv, TypeOK, Moved
<1>2. e.req \in Requests /\ turn[e.req].stage \notin {"none", "heard"}
  BY <1>1, QueuedEvent DEF HomeInv, MailInv, EventsOK, EventOK
<1>3. CASE e.req = r
  BY <1>1, <1>2, <1>3 DEF Moved
<1>4. CASE e.req # r
  BY <1>1, <1>2, <1>4
<1>5. QED BY <1>3, <1>4

\* The turn that goes on keeps its source.
LEMMA SourceKept ==
    ASSUME TurnInv, NEW r \in Requests, NEW t, Moved(r, t), turn[r].stage \in Going,
           Submitted(t), t.kind = "user"
    PROVE  turn[r].kind = "user" /\ t.source = turn[r].source
<1>1. TurnOK(turn[r]) /\ TurnOK(t) /\ turn[r].stage # "none"
  BY DEF TurnInv, Moved, Going
<1>2. t.kind = turn[r].kind /\ t.chat = turn[r].chat
  BY <1>1 DEF Moved
<1>3. t.stage \in Going
  BY DEF Submitted, Going
<1>4. QED BY <1>1, <1>2, <1>3 DEF TurnOK

LEMMA HomeKept ==
    ASSUME TurnInv, HomeInv, NEW r \in Requests, NEW t, Silently(r, t), Aside
    PROVE  HomeInv'
<1>1. /\ turn \in [Requests -> Turn] /\ turn' = [turn EXCEPT ![r] = t] /\ Moved(r, t)
      /\ routerMail' = routerMail /\ imMail' = imMail /\ channels' = channels /\ shown' = shown
      /\ Submitted(t) /\ t.kind = "user" => Submitted(turn[r])
  BY DEF TurnInv, TypeOK, Silently, Moved, mails, Aside
<1>2. MailInv'
  BY MailKept DEF HomeInv
<1>3. ShownHome'
  BY <1>1, ShownHomeMoved DEF HomeInv
<1>4. ReplyKnown'
  <2>1. ASSUME NEW e, In(routerMail', e), e.topic = "route.message", turn'[e.req].kind = "user"
        PROVE  \/ channels'[e.source] # NoChat
               \/ \E u : Before(routerMail', u, e) /\ Registers(u, e.source)
    <3>1. turn[e.req].kind = "user"
      BY <1>1, <2>1, ReplyKnownMoved
    <3>2. QED BY <1>1, <2>1, <3>1 DEF HomeInv, ReplyKnown
  <2>2. QED BY <2>1 DEF ReplyKnown
<1>5. WriterKnown'
  <2>1. ASSUME NEW q \in Requests, turn'[q].kind = "user", Submitted(turn'[q])
        PROVE  \/ channels'[turn'[q].source] # NoChat
               \/ \E u : In(routerMail', u) /\ Registers(u, turn'[q].source)
    <3>1. turn[q].kind = "user" /\ Submitted(turn[q]) /\ turn'[q].source = turn[q].source
      <4>1. CASE q = r
        <5>1. turn'[q] = t /\ Submitted(turn[r]) /\ turn[r].stage \in Going
          BY <1>1, <2>1, <4>1 DEF Submitted, Going
        <5>2. QED BY <1>1, <2>1, <4>1, <5>1, SourceKept
      <4>2. CASE q # r
        BY <1>1, <2>1, <4>2
      <4>3. QED BY <4>1, <4>2
    <3>2. QED BY <1>1, <3>1 DEF HomeInv, WriterKnown
  <2>2. QED BY <2>1 DEF WriterKnown
<1>6. QED BY <1>2, <1>3, <1>4, <1>5 DEF HomeInv

LEMMA HomeSaid ==
    ASSUME TurnInv, HomeInv, NEW r \in Requests, NEW t, NEW e, Says(r, t, e), Aside
    PROVE  HomeInv'
<1>1. /\ turn \in [Requests -> Turn] /\ turn' = [turn EXCEPT ![r] = t] /\ Moved(r, t)
      /\ channels' = channels /\ shown' = shown /\ e \in Event /\ Publish(e) /\ e.req = r
      /\ e.source = turn[r].source /\ Saying(r, t, e) /\ TypeOK
  BY DEF TurnInv, TypeOK, Says, Moved, Aside
<1>2. MailInv'
  BY MailSaid DEF HomeInv
<1>3. ShownHome'
  BY <1>1, ShownHomeMoved DEF HomeInv
<1>4. /\ \A x : In(routerMail', x) <=> In(routerMail, x) \/ (x = e /\ e.topic \in RouterTopics)
      /\ \A a, b : Before(routerMail', a, b) <=>
            Before(routerMail, a, b) \/ (In(routerMail, a) /\ b = e /\ e.topic \in RouterTopics)
  BY <1>1, PublishQueues
<1>5. turn[r].stage \in Going /\ turn[r].stage # "none"
  BY SaidEventOK DEF Going
<1>6. ReplyKnown'
  <2>1. ASSUME NEW x, In(routerMail', x), x.topic = "route.message", turn'[x.req].kind = "user"
        PROVE  \/ channels'[x.source] # NoChat
               \/ \E u : Before(routerMail', u, x) /\ Registers(u, x.source)
    <3>1. CASE In(routerMail, x)
      <4>1. turn[x.req].kind = "user"
        BY <1>1, <2>1, <3>1, ReplyKnownMoved
      <4>2. \/ channels[x.source] # NoChat
            \/ \E u : Before(routerMail, u, x) /\ Registers(u, x.source)
        BY <2>1, <3>1, <4>1 DEF HomeInv, ReplyKnown
      <4>3. QED BY <1>1, <1>4, <4>2
    <3>2. CASE x = e /\ e.topic \in RouterTopics
      <4>1. turn'[r] = t /\ t.kind = "user"
        BY <1>1, <2>1, <3>2
      <4>2. turn[r].kind = "user" /\ Submitted(turn[r])
        BY <1>1, <1>5, <2>1, <3>2, <4>1 DEF Saying, Streams, Moved
      <4>3. \/ channels[e.source] # NoChat
            \/ \E u : In(routerMail, u) /\ Registers(u, e.source)
        BY <1>1, <4>2 DEF HomeInv, WriterKnown
      <4>4. QED BY <1>1, <1>4, <3>2, <4>3
    <3>3. QED BY <1>4, <2>1, <3>1, <3>2
  <2>2. QED BY <2>1 DEF ReplyKnown
<1>7. WriterKnown'
  <2>1. ASSUME NEW q \in Requests, turn'[q].kind = "user", Submitted(turn'[q])
        PROVE  \/ channels'[turn'[q].source] # NoChat
               \/ \E u : In(routerMail', u) /\ Registers(u, turn'[q].source)
    <3>1. CASE q = r
      <4>1. turn'[q] = t
        BY <1>1, <3>1
      <4>2. turn[r].kind = "user" /\ t.source = turn[r].source
        BY <1>1, <1>5, <2>1, <4>1, SourceKept
      <4>3. CASE Submitted(turn[r])
        BY <1>1, <1>4, <3>1, <4>1, <4>2, <4>3 DEF HomeInv, WriterKnown
      <4>4. CASE ~Submitted(turn[r])
        <5>1. e.topic = "user.message"
          BY <1>1, <4>4 DEF Saying, Submitted
        <5>2. In(routerMail', e) /\ Registers(e, turn[r].source)
          BY <1>1, <1>4, <5>1 DEF RouterTopics, Registers
        <5>3. QED BY <4>1, <4>2, <5>2
      <4>5. QED BY <4>3, <4>4
    <3>2. CASE q # r
      <4>1. turn'[q] = turn[q]
        BY <1>1, <3>2
      <4>2. QED BY <1>1, <1>4, <2>1, <4>1 DEF HomeInv, WriterKnown
    <3>3. QED BY <3>1, <3>2
  <2>2. QED BY <2>1 DEF WriterKnown
<1>8. QED BY <1>2, <1>3, <1>6, <1>7 DEF HomeInv


LEMMA HomeRegistered == ASSUME TurnInv, HomeInv, RegisterChannel PROVE HomeInv'
<1> DEFINE e == Head(routerMail)
<1>1. /\ routerMail # <<>> /\ e.topic = "user.message" /\ turn' = turn /\ imMail' = imMail
      /\ channels' = [channels EXCEPT ![e.source] = e.chat]
      /\ routerMail' = Tail(routerMail) /\ shown' = shown
      /\ channels \in [Platforms -> AnyChat] /\ routerMail \in Seq(Event)
  BY DEF RegisterChannel, plugins, TurnInv, TypeOK
<1>2. /\ e \in Event /\ In(routerMail, e)
      /\ \A x : In(routerMail', x) => In(routerMail, x)
      /\ \A x : In(routerMail, x) => x = e \/ In(routerMail', x)
      /\ \A a, b : Before(routerMail', a, b) => Before(routerMail, a, b)
      /\ \A a, b : Before(routerMail, a, b) => a = e \/ Before(routerMail', a, b)
  BY <1>1, QueueTaken
<1>3. EventOK(e)
  BY <1>2 DEF HomeInv, MailInv, EventsOK
<1> HIDE DEF e
<1>4. e.chat \in Chats /\ e.source = Platform[e.chat]
  BY <1>1, <1>2, <1>3 DEF EventOK, Event
<1>5. e.source \in Platforms /\ e.chat # NoChat
  BY <1>4, DeliveryAssumption
<1>6. channels'[e.source] # NoChat /\ \A s : channels[s] # NoChat => channels'[s] # NoChat
  <2>1. channels'[e.source] # NoChat
    BY <1>1, <1>5
  <2>2. \A s \in Platforms : channels[s] # NoChat => channels'[s] # NoChat
    BY <1>1, <1>5
  <2>3. DOMAIN channels' = DOMAIN channels /\ DOMAIN channels = Platforms
    BY <1>1
  <2>4. \A s : s # e.source => channels'[s] = channels[s]
    BY <1>1
  <2>5. QED BY <2>1, <2>2, <2>4
<1>7. MailInv'
  BY <1>1, <1>2, MailShrinks DEF HomeInv
<1>8. WriterKnown'
  <2>1. ASSUME NEW q \in Requests, turn[q].kind = "user", Submitted(turn[q])
        PROVE  \/ channels'[turn[q].source] # NoChat
               \/ \E u : In(routerMail', u) /\ Registers(u, turn[q].source)
    <3>1. \/ channels[turn[q].source] # NoChat
          \/ \E u : In(routerMail, u) /\ Registers(u, turn[q].source)
      BY <2>1 DEF HomeInv, WriterKnown
    <3>2. QED BY <1>2, <1>6, <3>1 DEF Registers
  <2>2. QED BY <1>1, <2>1 DEF WriterKnown
<1>9. ReplyKnown'
  <2>1. ASSUME NEW x, In(routerMail', x), x.topic = "route.message", turn[x.req].kind = "user"
        PROVE  \/ channels'[x.source] # NoChat
               \/ \E u : Before(routerMail', u, x) /\ Registers(u, x.source)
    <3>1. \/ channels[x.source] # NoChat
          \/ \E u : Before(routerMail, u, x) /\ Registers(u, x.source)
      BY <1>2, <2>1 DEF HomeInv, ReplyKnown
    <3>2. QED BY <1>2, <1>6, <3>1 DEF Registers
  <2>2. QED BY <1>1, <2>1 DEF ReplyKnown
<1>10. ShownHome'
  BY <1>1 DEF HomeInv, ShownHome
<1>11. QED BY <1>7, <1>8, <1>9, <1>10 DEF HomeInv

\* A reply is never broadcast: its platform is known when it is routed.
LEMMA ReplyHasOneTarget ==
    ASSUME TurnInv, HomeInv, TakesRoute, turn[Head(routerMail).req].kind = "user"
    PROVE  ResolveTargets(Head(routerMail).source) = {Head(routerMail).source}
<1> DEFINE e == Head(routerMail)
<1>1. routerMail # <<>> /\ e.topic = "route.message" /\ routerMail \in Seq(Event)
  BY DEF TakesRoute, TurnInv, TypeOK
<1>2. e \in Event /\ In(routerMail, e)
  BY <1>1, QueueTaken
<1>3. EventOK(e) /\ ~e.silent
  BY <1>2 DEF HomeInv, MailInv, EventsOK, TopicsOK
<1>4. \A u : ~(Before(routerMail, u, e) /\ Registers(u, e.source))
  <2>1. SUFFICES ASSUME NEW u, Before(routerMail, u, e), Registers(u, e.source) PROVE FALSE
    OBVIOUS
  <2>2. In(Tail(routerMail), e) /\ Before(routerMail, e, e)
    BY <1>1, <2>1, QueueTaken
  <2>3. Answer(e)
    BY <1>1, <1>3 DEF Answer
  <2>4. QED BY <2>2, <2>3 DEF HomeInv, MailInv, RoutedOnce
<1>5. channels[e.source] # NoChat
  BY <1>1, <1>2, <1>4 DEF HomeInv, ReplyKnown
<1> HIDE DEF e
<1>6. e.source \in Platforms
  BY <1>2, <1>3, DeliveryAssumption DEF EventOK, Event, e
<1>7. e.source # "" /\ e.source \in Registered
  BY <1>5, <1>6 DEF Registered, Platforms
<1>8. ResolveTargets(e.source) = {e.source}
  BY <1>7 DEF ResolveTargets
<1>9. QED BY <1>8 DEF e

LEMMA HomeRouted == ASSUME TurnInv, HomeInv, RouteEffect PROVE HomeInv'
<1> DEFINE e == Head(routerMail)
<1>1. /\ routerMail # <<>> /\ e.topic = "route.message" /\ turn' = turn /\ channels' = channels
      /\ routerMail' = Tail(routerMail) /\ shown' = shown /\ routerMail \in Seq(Event)
      /\ TakesRoute
  BY DEF RouteEffect, TakesRoute, plugins, TurnInv, TypeOK
<1>2. /\ \A x : In(routerMail', x) => In(routerMail, x)
      /\ \A x : In(routerMail, x) => x = e \/ In(routerMail', x)
      /\ \A a, b : Before(routerMail, a, b) => a = e \/ Before(routerMail', a, b)
  BY <1>1, QueueTaken
<1>3. MailInv'
  BY <1>1, ReplyHasOneTarget, MailRouted DEF HomeInv
<1> HIDE DEF e
<1>4. \A s : ~Registers(e, s)
  BY <1>1 DEF Registers
<1>5. WriterKnown'
  <2>1. ASSUME NEW q \in Requests, turn[q].kind = "user", Submitted(turn[q])
        PROVE  \/ channels[turn[q].source] # NoChat
               \/ \E u : In(routerMail', u) /\ Registers(u, turn[q].source)
    <3>1. \/ channels[turn[q].source] # NoChat
          \/ \E u : In(routerMail, u) /\ Registers(u, turn[q].source)
      BY <2>1 DEF HomeInv, WriterKnown
    <3>2. QED BY <1>2, <1>4, <3>1
  <2>2. QED BY <1>1, <2>1 DEF WriterKnown
<1>6. ReplyKnown'
  <2>1. ASSUME NEW x, In(routerMail', x), x.topic = "route.message", turn[x.req].kind = "user"
        PROVE  \/ channels[x.source] # NoChat
               \/ \E u : Before(routerMail', u, x) /\ Registers(u, x.source)
    <3>1. \/ channels[x.source] # NoChat
          \/ \E u : Before(routerMail, u, x) /\ Registers(u, x.source)
      BY <1>2, <2>1 DEF HomeInv, ReplyKnown
    <3>2. QED BY <1>2, <1>4, <3>1
  <2>2. QED BY <1>1, <2>1 DEF ReplyKnown
<1>7. ShownHome'
  BY <1>1 DEF HomeInv, ShownHome
<1>8. QED BY <1>3, <1>5, <1>6, <1>7 DEF HomeInv

LEMMA HomeTaken == ASSUME TurnInv, HomeInv, PluginEffect PROVE HomeInv'
<1> DEFINE e == Head(imMail)
<1>1. /\ imMail # <<>> /\ imMail' = Tail(imMail) /\ turn' = turn /\ routerMail' = routerMail
      /\ channels' = channels /\ imMail \in Seq(Event)
  BY DEF PluginEffect, TurnInv, TypeOK
<1>2. /\ e \in Event /\ In(imMail, e)
      /\ \A x : In(imMail', x) => In(imMail, x)
      /\ \A a, b : Before(imMail', a, b) => Before(imMail, a, b)
  BY <1>1, QueueTaken
<1>3. EventOK(e)
  BY <1>2 DEF HomeInv, MailInv, EventsOK
<1>4. PICK p \in Platforms : Handles(e, p)
  BY DEF PluginEffect
<1> HIDE DEF e
<1>5. MailInv'
  BY <1>1, <1>2, MailShrinks DEF HomeInv
<1>6. WriterKnown' /\ ReplyKnown'
  BY <1>1 DEF HomeInv, WriterKnown, ReplyKnown
<1>7. ASSUME NEW i \in shown'
      PROVE  \/ i \in shown
             \/ /\ e.source = p /\ i.req = e.req /\ i.platform = p
                /\ i.chat = e.chat \/ (p = "telegram" /\ i.how = "whole")
  <2>1. CASE UNCHANGED <<shown, streamed, evicted>>
    BY <1>7, <2>1
  <2>2. CASE e.source = p /\ shown' = shown \cup {Seg(e, p)}
    BY <1>7, <2>2 DEF Seg
  <2>3. CASE UNCHANGED <<shown, evicted>>
    BY <1>7, <2>3
  <2>4. CASE e.source = p /\ \E c \in AnyChat :
            /\ shown' = shown \cup
                 {[req |-> e.req, how |-> Whole(e), platform |-> p, chat |-> c]}
            /\ c = e.chat \/ (p = "telegram" /\ Whole(e) = "whole")
    BY <1>7, <2>4
  <2>5. QED BY <1>4, <2>1, <2>2, <2>3, <2>4 DEF Handles
<1>8. ShownHome'
  <2>1. ASSUME NEW i \in shown'
        PROVE  /\ turn[i.req].stage \notin {"none", "heard"}
               /\ turn[i.req].kind = "user" =>
                     /\ i.platform = Platform[turn[i.req].chat]
                     /\ i.chat = turn[i.req].chat \/ (i.platform = "telegram" /\ i.how = "whole")
    <3>1. CASE i \in shown
      BY <3>1 DEF HomeInv, ShownHome
    <3>2. CASE i \notin shown
      BY <1>3, <1>7, <3>2 DEF EventOK
    <3>3. QED BY <3>1, <3>2
  <2>2. QED BY <1>1, <2>1 DEF ShownHome
<1>9. QED BY <1>5, <1>6, <1>8 DEF HomeInv

LEMMA HomeIdle == ASSUME HomeInv, Idle PROVE HomeInv'
<1>1. /\ turn' = turn /\ routerMail' = routerMail /\ imMail' = imMail /\ channels' = channels
      /\ shown' = shown
  BY DEF Idle, mails
<1>2. MailInv'
  BY <1>1, MailShrinks DEF HomeInv
<1>3. QED BY <1>1, <1>2 DEF HomeInv, WriterKnown, ReplyKnown, ShownHome

LEMMA HomeInvStep == TurnInv /\ HomeInv /\ Effect => HomeInv'
<1> SUFFICES ASSUME TurnInv, HomeInv, Effect PROVE HomeInv'
  OBVIOUS
<1>1. ASSUME NEW r \in Requests, TurnEffect(r) PROVE HomeInv'
  BY <1>1, HomeKept, HomeSaid DEF TurnEffect
<1>2. QED BY <1>1, HomeRegistered, HomeRouted, HomeTaken, HomeIdle DEF Effect

LEMMA HomeInvInit == Init => HomeInv
<1> SUFFICES ASSUME Init PROVE HomeInv
  OBVIOUS
<1>1. /\ routerMail = <<>> /\ imMail = <<>> /\ shown = {}
      /\ turn = [r \in Requests |-> NoTurn]
  BY DEF Init
<1>2. /\ \A e : ~In(routerMail, e) /\ ~In(imMail, e)
      /\ \A a, b : ~Before(routerMail, a, b) /\ ~Before(imMail, a, b)
  BY <1>1, EmptyQueue
<1>3. MailInv
  BY <1>2 DEF MailInv, EventsOK, TopicsOK, AnswerLast, RoutedOnce
<1>4. \A r \in Requests : ~Submitted(turn[r])
  BY <1>1 DEF NoTurn, Submitted
<1>5. QED BY <1>1, <1>2, <1>3, <1>4 DEF HomeInv, WriterKnown, ReplyKnown, ShownHome

LEMMA HomeInvariant == Spec => []HomeInv
<1>1. TurnInv /\ HomeInv /\ [Next]_vars => HomeInv'
  BY NextEffect, HomeInvStep
<1>2. QED BY <1>1, HomeInvInit, TurnInvariant, PTL DEF Spec


----------------------------------------------------------------------------
\* An answer is shown one way

\* Nothing more of the answer can come to the plugin.
AllShown(r, p) ==
    /\ turn[r].stage \notin Going \cup {"none"}
    /\ \A e : In(routerMail, e) /\ e.req = r => ~Answer(e)
    /\ \A e : In(imMail, e) /\ e.req = r => ~Streams(e) /\ (Answer(e) => e.source # p)

\* A sentence is marked until the whole answer is gone, or its mark was dropped.
SegmentsMarked ==
    \A i \in shown :
        i.how = "segment" =>
            i.req \in evicted \/ i.req \in streamed[i.platform] \/ AllShown(i.req, i.platform)

WholesLast == \A i \in shown : i.how = "whole" => AllShown(i.req, i.platform)

\* Nothing of the stream is shown, or on its way.
Unseen(r) ==
    /\ \A i \in shown : i.how = "segment" => i.req # r
    /\ \A e : In(imMail, e) /\ Streams(e) => e.req # r

\* An answer without an id is given before any of the stream.
UntaggedUnseen ==
    \A e : (In(routerMail, e) \/ In(imMail, e)) /\ Answer(e) /\ ~e.tagged => Unseen(e.req)

FreshUnseen == \A r \in Requests : Fresh(turn[r]) => Unseen(r)

WayInv == SegmentsMarked /\ WholesLast /\ OneWayOnly /\ UntaggedUnseen /\ FreshUnseen

\* Another turn's events do not undo it, nor the router's.
LEMMA AllShownStays ==
    ASSUME NEW r, NEW p, AllShown(r, p), turn'[r] = turn[r],
           \A e : In(routerMail', e) /\ e.req = r => In(routerMail, e),
           \A e : In(imMail', e) /\ e.req = r => In(imMail, e)
    PROVE  AllShown(r, p)'
BY DEF AllShown

LEMMA UnseenStays ==
    ASSUME NEW r, Unseen(r),
           \A i \in shown' : i.how = "segment" /\ i.req = r => i \in shown,
           \A e : In(imMail', e) /\ Streams(e) /\ e.req = r => In(imMail, e)
    PROVE  Unseen(r)'
BY DEF Unseen

\* Nothing is shown and no mark is touched: what is on its way matters alone.
LEMMA WayStays ==
    ASSUME TypeOK, WayInv, shown' = shown, streamed' = streamed, evicted' = evicted,
           \A r \in Requests, p \in Platforms : AllShown(r, p) => AllShown(r, p)',
           UntaggedUnseen', FreshUnseen'
    PROVE  WayInv'
<1>1. ASSUME NEW i \in shown PROVE i.req \in Requests /\ i.platform \in Platforms
  <2>1. i \in Shown
    BY DEF TypeOK
  <2>2. QED BY <2>1 DEF Shown
<1>2. SegmentsMarked'
  <2>1. ASSUME NEW i \in shown, i.how = "segment"
        PROVE  \/ i.req \in evicted \/ i.req \in streamed[i.platform]
               \/ AllShown(i.req, i.platform)'
    BY <1>1, <2>1 DEF WayInv, SegmentsMarked
  <2>2. QED BY <2>1 DEF SegmentsMarked
<1>3. WholesLast'
  <2>1. ASSUME NEW i \in shown, i.how = "whole" PROVE AllShown(i.req, i.platform)'
    BY <1>1, <2>1 DEF WayInv, WholesLast
  <2>2. QED BY <2>1 DEF WholesLast
<1>4. OneWayOnly'
  BY DEF WayInv, OneWayOnly
<1>5. QED BY <1>2, <1>3, <1>4 DEF WayInv

LEMMA WayKept ==
    ASSUME TurnInv, WayInv, NEW r \in Requests, NEW t, Silently(r, t), Aside
    PROVE  WayInv'
<1>1. /\ turn \in [Requests -> Turn] /\ turn' = [turn EXCEPT ![r] = t] /\ Moved(r, t)
      /\ routerMail' = routerMail /\ imMail' = imMail
      /\ shown' = shown /\ streamed' = streamed /\ evicted' = evicted /\ TypeOK
  BY DEF TurnInv, TypeOK, Silently, Moved, mails, Aside
<1>2. ASSUME NEW q \in Requests, NEW p \in Platforms, AllShown(q, p) PROVE AllShown(q, p)'
  <2>1. q # r
    BY <1>1, <1>2 DEF AllShown, Moved
  <2>2. turn'[q] = turn[q]
    BY <1>1, <2>1
  <2>3. QED BY <1>1, <1>2, <2>2 DEF AllShown
<1>3. \A q : Unseen(q)' <=> Unseen(q)
  BY <1>1 DEF Unseen
<1>4. UntaggedUnseen'
  BY <1>1, <1>3 DEF WayInv, UntaggedUnseen
<1>5. FreshUnseen'
  <2>1. ASSUME NEW q \in Requests, Fresh(turn'[q]) PROVE Unseen(q)
    <3>1. CASE q = r
      <4>1. Fresh(t)
        BY <1>1, <2>1, <3>1
      <4>2. Fresh(turn[r])
        BY <1>1, <4>1 DEF Moved, Fresh
      <4>3. QED BY <3>1, <4>2 DEF WayInv, FreshUnseen
    <3>2. CASE q # r
      BY <1>1, <2>1, <3>2 DEF WayInv, FreshUnseen
    <3>3. QED BY <3>1, <3>2
  <2>2. QED BY <1>3, <2>1 DEF FreshUnseen
<1>6. QED BY <1>1, <1>2, <1>4, <1>5, WayStays

LEMMA WaySaid ==
    ASSUME TurnInv, MailInv, WayInv, NEW r \in Requests, NEW t, NEW e, Says(r, t, e), Aside
    PROVE  WayInv'
<1>1. /\ turn \in [Requests -> Turn] /\ turn' = [turn EXCEPT ![r] = t] /\ Moved(r, t)
      /\ e \in Event /\ Publish(e) /\ e.req = r /\ Saying(r, t, e)
      /\ shown' = shown /\ streamed' = streamed /\ evicted' = evicted /\ TypeOK
  BY DEF TurnInv, TypeOK, Says, Moved, Aside
<1>2. /\ \A x : In(routerMail', x) <=> In(routerMail, x) \/ (x = e /\ e.topic \in RouterTopics)
      /\ \A x : In(imMail', x) <=> In(imMail, x) \/ (x = e /\ ForPlugins(e))
  BY <1>1, PublishQueues
<1>3. turn[r].stage \in Going
  BY SaidEventOK
<1>4. ASSUME NEW q \in Requests, NEW p \in Platforms, AllShown(q, p) PROVE AllShown(q, p)'
  <2>1. q # r
    BY <1>3, <1>4 DEF AllShown
  <2>2. turn'[q] = turn[q]
    BY <1>1, <2>1
  <2>3. QED BY <1>1, <1>2, <1>4, <2>1, <2>2, AllShownStays
<1>5. ASSUME NEW q, Unseen(q), q # r \/ ~Streams(e) PROVE Unseen(q)'
  BY <1>1, <1>2, <1>5 DEF Unseen
<1>6. UntaggedUnseen'
  <2>1. ASSUME NEW x, In(routerMail', x) \/ In(imMail', x), Answer(x), ~x.tagged
        PROVE  Unseen(x.req)'
    <3>1. CASE In(routerMail, x) \/ In(imMail, x)
      <4>1. Unseen(x.req)
        BY <2>1, <3>1 DEF WayInv, UntaggedUnseen
      <4>2. x.req # r
        BY <1>3, <2>1, <3>1 DEF MailInv, EventsOK, EventOK, Going
      <4>3. QED BY <1>5, <4>1, <4>2
    <3>2. CASE x = e
      <4>1. ~Streams(e) /\ Fresh(turn[r])
        BY <1>1, <2>1, <3>2 DEF Saying, Answer, Streams
      <4>2. QED BY <1>1, <1>5, <3>2, <4>1 DEF WayInv, FreshUnseen
    <3>3. QED BY <1>2, <2>1, <3>1, <3>2
  <2>2. QED BY <2>1 DEF UntaggedUnseen
<1>7. FreshUnseen'
  <2>1. ASSUME NEW q \in Requests, Fresh(turn'[q]) PROVE Unseen(q)'
    <3>1. CASE q = r
      <4>1. Fresh(t)
        BY <1>1, <2>1, <3>1
      <4>2. Fresh(turn[r])
        BY <1>1, <4>1 DEF Moved, Fresh
      <4>3. ~Streams(e)
        BY <1>1, <4>1 DEF Saying, Streams
      <4>4. QED BY <1>5, <3>1, <4>2, <4>3 DEF WayInv, FreshUnseen
    <3>2. CASE q # r
      BY <1>1, <1>5, <2>1, <3>2 DEF WayInv, FreshUnseen
    <3>3. QED BY <3>1, <3>2
  <2>2. QED BY <2>1 DEF FreshUnseen
<1>8. QED BY <1>1, <1>4, <1>6, <1>7, WayStays

LEMMA WayRegistered == ASSUME TurnInv, WayInv, RegisterChannel PROVE WayInv'
<1>1. /\ routerMail # <<>> /\ turn' = turn /\ imMail' = imMail /\ routerMail' = Tail(routerMail)
      /\ shown' = shown /\ streamed' = streamed /\ evicted' = evicted /\ TypeOK
      /\ routerMail \in Seq(Event)
  BY DEF RegisterChannel, plugins, TurnInv, TypeOK
<1>2. \A x : In(routerMail', x) => In(routerMail, x)
  BY <1>1, QueueTaken
<1>3. \A q \in Requests, p \in Platforms : AllShown(q, p) => AllShown(q, p)'
  BY <1>1, <1>2, AllShownStays
<1>4. \A q : Unseen(q)' <=> Unseen(q)
  BY <1>1 DEF Unseen
<1>5. UntaggedUnseen'
  BY <1>1, <1>2, <1>4 DEF WayInv, UntaggedUnseen
<1>6. FreshUnseen'
  BY <1>1, <1>4 DEF WayInv, FreshUnseen
<1>7. QED BY <1>1, <1>3, <1>5, <1>6, WayStays

LEMMA WayRouted == ASSUME TurnInv, MailInv, WayInv, RouteEffect PROVE WayInv'
<1> DEFINE e == Head(routerMail)
<1>1. /\ TypeOK /\ routerMail \in Seq(Event) /\ imMail \in Seq(Event) /\ routerMail # <<>>
      /\ e.topic = "route.message" /\ routerMail' = Tail(routerMail) /\ turn' = turn
      /\ shown' = shown /\ streamed' = streamed /\ evicted' = evicted
  BY DEF TurnInv, TypeOK, RouteEffect, TakesRoute, plugins
<1>2. PICK o \in Seq(Event) :
        /\ imMail' = imMail \o o
        /\ \A x : In(o, x) => \E p \in ResolveTargets(e.source) : x = RoutedTo(e, p)
  BY DEF RouteEffect
<1>3. /\ e \in Event /\ In(routerMail, e) /\ \A x : In(routerMail', x) => In(routerMail, x)
  BY <1>1, QueueTaken
<1>4. \A x : In(imMail', x) <=> In(imMail, x) \/ In(o, x)
  BY <1>1, <1>2, QueueJoined
<1>5. Answer(e)
  BY <1>1, <1>3 DEF MailInv, TopicsOK, Answer
<1>6. e.source \in Sources
  BY <1>3 DEF Event
<1>7. ASSUME NEW x, In(o, x)
      PROVE  x.req = e.req /\ x.tagged = e.tagged /\ ~Streams(x)
  <2>1. PICK p \in Platforms : x = RoutedTo(e, p)
    BY <1>1, <1>2, <1>6, <1>7, TargetsArePlatforms
  <2>2. QED BY <1>3, <2>1, RoutedType DEF Streams
<1> HIDE DEF e
<1>8. ASSUME NEW q \in Requests, NEW p \in Platforms, AllShown(q, p) PROVE AllShown(q, p)'
  <2>1. q # e.req
    BY <1>3, <1>5, <1>8 DEF AllShown
  <2>2. QED BY <1>1, <1>3, <1>4, <1>7, <1>8, <2>1, AllShownStays
<1>9. \A q : Unseen(q) => Unseen(q)'
  BY <1>1, <1>4, <1>7, UnseenStays
<1>10. UntaggedUnseen'
  <2>1. ASSUME NEW x, In(routerMail', x) \/ In(imMail', x), Answer(x), ~x.tagged
        PROVE  Unseen(x.req)
    <3>1. CASE In(routerMail, x) \/ In(imMail, x)
      BY <2>1, <3>1 DEF WayInv, UntaggedUnseen
    <3>2. CASE In(o, x)
      BY <1>3, <1>5, <1>7, <2>1, <3>2 DEF WayInv, UntaggedUnseen
    <3>3. QED BY <1>3, <1>4, <2>1, <3>1, <3>2
  <2>2. QED BY <1>9, <2>1 DEF UntaggedUnseen
<1>11. FreshUnseen'
  BY <1>1, <1>9 DEF WayInv, FreshUnseen
<1>12. QED BY <1>1, <1>8, <1>10, <1>11, WayStays


\* The whole answer has come to the plugin: it was the last of its turn.
LEMMA AnswerIsLast ==
    ASSUME TurnInv, MailInv, imMail # <<>>, imMail' = Tail(imMail), routerMail' = routerMail,
           turn' = turn, NEW e, e = Head(imMail), Answer(e)
    PROVE  AllShown(e.req, e.source)'
<1>1. imMail \in Seq(Event)
  BY DEF TurnInv, TypeOK
<1>2. In(imMail, e) /\ \A x : In(imMail', x) => Before(imMail, e, x)
  BY <1>1, QueueTaken
<1>3. turn[e.req].stage \in {"replied", "failed"}
  BY <1>2 DEF MailInv, EventsOK, EventOK
<1>4. turn'[e.req].stage \notin Going \cup {"none"}
  BY <1>3 DEF Going
<1>5. \A x : In(routerMail', x) /\ x.req = e.req => ~Answer(x)
  BY <1>2 DEF MailInv, RoutedOnce
<1>6. \A x : In(imMail', x) /\ x.req = e.req =>
          ~Streams(x) /\ (Answer(x) => x.source # e.source)
  BY <1>2 DEF MailInv, AnswerLast
<1>7. QED BY <1>4, <1>5, <1>6 DEF AllShown

\* A mark that is not kept is remembered as dropped.
LEMMA MarkKept ==
    ASSUME TypeOK, NEW p \in Platforms, NEW r \in Requests, MarkStreamed(p, r)
    PROVE  /\ r \in evicted' \/ r \in streamed'[p]
           /\ evicted \subseteq evicted'
           /\ \A q \in Platforms : \A s \in streamed[q] : s \in evicted' \/ s \in streamed'[q]
<1> DEFINE marked == streamed[p] \cup {r}
<1>1. streamed \in [Platforms -> SUBSET Requests]
  BY DEF TypeOK
<1>2. CASE streamed' = [streamed EXCEPT ![p] = marked] /\ evicted' = evicted
  BY <1>1, <1>2
<1>3. ASSUME NEW x \in marked, streamed' = [streamed EXCEPT ![p] = marked \ {x}],
             evicted' = evicted \cup {x}
      PROVE  /\ r \in evicted' \/ r \in streamed'[p]
             /\ evicted \subseteq evicted'
             /\ \A q \in Platforms : \A s \in streamed[q] : s \in evicted' \/ s \in streamed'[q]
  <2>1. streamed'[p] = marked \ {x} /\ \A q \in Platforms : q # p => streamed'[q] = streamed[q]
    BY <1>1, <1>3
  <2>2. QED BY <1>3, <2>1
<1>4. QED BY <1>2, <1>3 DEF MarkStreamed

LEMMA WayTaken == ASSUME TurnInv, MailInv, WayInv, PluginEffect PROVE WayInv'
<1>0. PICK e : e = Head(imMail)
  OBVIOUS
<1>1. /\ TypeOK /\ imMail # <<>> /\ imMail' = Tail(imMail) /\ turn' = turn
      /\ routerMail' = routerMail /\ imMail \in Seq(Event)
      /\ streamed \in [Platforms -> SUBSET Requests]
  BY DEF PluginEffect, TurnInv, TypeOK
<1>2. e \in Event /\ In(imMail, e) /\ \A x : In(imMail', x) => In(imMail, x)
  BY <1>0, <1>1, QueueTaken
<1>3. PICK p \in Platforms : Handles(e, p)
  BY <1>0 DEF PluginEffect
<1>4. Answer(e) => AllShown(e.req, e.source)'
  BY <1>0, <1>1, AnswerIsLast
<1>5. e.req \in Requests
  BY <1>2 DEF Event
<1>6. \A q, s : AllShown(q, s) => AllShown(q, s)'
  BY <1>1, <1>2, AllShownStays
<1>7. ASSUME NEW i \in shown PROVE i.req \in Requests /\ i.platform \in Platforms
  <2>1. i \in Shown
    BY <1>1 DEF TypeOK
  <2>2. QED BY <2>1 DEF Shown
<1>8. ASSUME NEW i \in shown, i.how = "segment"
      PROVE  i.req \in evicted \/ i.req \in streamed[i.platform] \/ AllShown(i.req, i.platform)'
  BY <1>6, <1>8 DEF WayInv, SegmentsMarked
<1>9. ASSUME NEW i \in shown, i.how = "whole" PROVE AllShown(i.req, i.platform)'
  BY <1>6, <1>9 DEF WayInv, WholesLast
\* No sentence is shown now.
<1>10. ASSUME \A i \in shown' : i.how = "segment" => i \in shown
       PROVE  UntaggedUnseen' /\ FreshUnseen'
  <2>1. \A q : Unseen(q) => Unseen(q)'
    BY <1>2, <1>10, UnseenStays
  <2>2. QED BY <1>1, <1>2, <2>1 DEF WayInv, UntaggedUnseen, FreshUnseen
<1>11. CASE UNCHANGED <<shown, streamed, evicted>>
  <2>1. UntaggedUnseen' /\ FreshUnseen'
    BY <1>10, <1>11
  <2>2. QED BY <1>1, <1>6, <1>11, <2>1, WayStays
<1>12. CASE Streams(e) /\ e.source = p /\ shown' = shown \cup {Seg(e, p)} /\ MarkStreamed(p, e.req)
  <2>1. /\ e.req \in evicted' \/ e.req \in streamed'[p]
        /\ evicted \subseteq evicted'
        /\ \A q \in Platforms : \A s \in streamed[q] : s \in evicted' \/ s \in streamed'[q]
    BY <1>1, <1>5, <1>12, MarkKept
  <2>2. ASSUME NEW i \in shown' PROVE i \in shown \/ (i.how = "segment" /\ i.req = e.req /\ i.platform = p)
    BY <1>12, <2>2 DEF Seg
  <2>3. SegmentsMarked'
    <3>1. ASSUME NEW i \in shown', i.how = "segment"
          PROVE  \/ i.req \in evicted' \/ i.req \in streamed'[i.platform]
                 \/ AllShown(i.req, i.platform)'
      <4>1. CASE i \in shown
        BY <1>7, <1>8, <2>1, <3>1, <4>1
      <4>2. CASE i \notin shown
        BY <2>1, <2>2, <4>2
      <4>3. QED BY <4>1, <4>2
    <3>2. QED BY <3>1 DEF SegmentsMarked
  <2>4. WholesLast'
    <3>1. ASSUME NEW i \in shown', i.how = "whole" PROVE AllShown(i.req, i.platform)'
      BY <1>9, <2>2, <3>1
    <3>2. QED BY <3>1 DEF WholesLast
  <2>5. OneWayOnly'
    <3>1. ASSUME NEW i \in shown', NEW j \in shown', i.req = j.req, i.platform = j.platform,
                 i.how = "segment", j.how = "whole"
          PROVE  i.req \in evicted'
      <4>1. j \in shown /\ AllShown(j.req, j.platform)
        BY <2>2, <3>1 DEF WayInv, WholesLast
      <4>2. j.req # e.req
        BY <1>2, <1>12, <4>1 DEF AllShown
      <4>3. i \in shown
        BY <2>2, <3>1, <4>2
      <4>4. QED BY <2>1, <3>1, <4>1, <4>3 DEF WayInv, OneWayOnly
    <3>2. QED BY <3>1 DEF OneWayOnly
  <2>6. ASSUME NEW q, Unseen(q) PROVE Unseen(q)'
    <3>1. q # e.req
      BY <1>2, <1>12, <2>6 DEF Unseen
    <3>2. QED BY <1>2, <2>2, <2>6, <3>1, UnseenStays
  <2>7. UntaggedUnseen' /\ FreshUnseen'
    BY <1>1, <1>2, <2>6 DEF WayInv, UntaggedUnseen, FreshUnseen
  <2>8. QED BY <2>3, <2>4, <2>5, <2>7 DEF WayInv
<1>13. CASE /\ e.topic = "assistant.message" /\ e.source = p /\ e.tagged
            /\ streamed' = [streamed EXCEPT ![p] = @ \ {e.req}] /\ UNCHANGED <<shown, evicted>>
  <2>1. Answer(e)
    BY <1>2, <1>13 DEF MailInv, TopicsOK, Answer
  <2>2. AllShown(e.req, p)'
    BY <1>4, <1>13, <2>1
  <2>3. SegmentsMarked'
    <3>1. ASSUME NEW i \in shown, i.how = "segment"
          PROVE  \/ i.req \in evicted \/ i.req \in streamed'[i.platform]
                 \/ AllShown(i.req, i.platform)'
      <4>1. CASE i.req = e.req /\ i.platform = p
        BY <2>2, <4>1
      <4>2. CASE ~(i.req = e.req /\ i.platform = p)
        <5>1. i.req \in streamed[i.platform] => i.req \in streamed'[i.platform]
          BY <1>1, <1>7, <1>13, <4>2
        <5>2. QED BY <1>8, <3>1, <5>1
      <4>3. QED BY <4>1, <4>2
    <3>2. QED BY <1>13, <3>1 DEF SegmentsMarked
  <2>4. WholesLast'
    BY <1>9, <1>13 DEF WholesLast
  <2>5. OneWayOnly'
    BY <1>13 DEF WayInv, OneWayOnly
  <2>6. UntaggedUnseen' /\ FreshUnseen'
    BY <1>10, <1>13
  <2>7. QED BY <2>3, <2>4, <2>5, <2>6 DEF WayInv
<1>14. CASE /\ e.topic = "assistant.message" /\ e.source = p
            /\ ~(e.tagged /\ e.req \in streamed[p])
            /\ \E c \in AnyChat :
                 shown' = shown \cup
                   {[req |-> e.req, how |-> Whole(e), platform |-> p, chat |-> c]}
            /\ UNCHANGED <<streamed, evicted>>
  <2>1. Whole(e) = "whole" => Answer(e)
    BY <1>14 DEF Whole, Answer
  <2>2. Whole(e) # "segment"
    BY DEF Whole
  <2>3. ASSUME NEW i \in shown'
        PROVE i \in shown \/ (i.how = Whole(e) /\ i.req = e.req /\ i.platform = p)
    BY <1>14, <2>3
  <2>4. SegmentsMarked'
    <3>1. ASSUME NEW i \in shown', i.how = "segment"
          PROVE  \/ i.req \in evicted \/ i.req \in streamed[i.platform]
                 \/ AllShown(i.req, i.platform)'
      BY <1>8, <2>2, <2>3, <3>1
    <3>2. QED BY <1>14, <3>1 DEF SegmentsMarked
  <2>5. WholesLast'
    <3>1. ASSUME NEW i \in shown', i.how = "whole" PROVE AllShown(i.req, i.platform)'
      BY <1>4, <1>9, <1>14, <2>1, <2>3, <3>1
    <3>2. QED BY <3>1 DEF WholesLast
  <2>6. OneWayOnly'
    <3>1. ASSUME NEW i \in shown', NEW j \in shown', i.req = j.req, i.platform = j.platform,
                 i.how = "segment", j.how = "whole"
          PROVE  i.req \in evicted
      <4>1. i \in shown
        BY <2>2, <2>3, <3>1
      <4>2. CASE j \in shown
        BY <3>1, <4>1, <4>2 DEF WayInv, OneWayOnly
      <4>3. CASE j \notin shown
        <5>1. j.req = e.req /\ j.platform = p /\ Answer(e)
          BY <2>1, <2>3, <3>1, <4>3
        <5>2. ~AllShown(e.req, p)
          BY <1>2, <1>14, <5>1 DEF AllShown
        <5>3. ~Unseen(e.req)
          BY <3>1, <4>1, <5>1 DEF Unseen
        <5>4. e.tagged
          BY <1>2, <5>1, <5>3 DEF WayInv, UntaggedUnseen
        <5>5. e.req \notin streamed[p]
          BY <1>14, <5>4
        <5>6. QED BY <3>1, <4>1, <5>1, <5>2, <5>5 DEF WayInv, SegmentsMarked
      <4>4. QED BY <4>2, <4>3
    <3>2. QED BY <1>14, <3>1 DEF OneWayOnly
  <2>7. UntaggedUnseen' /\ FreshUnseen'
    BY <1>10, <2>2, <2>3
  <2>8. QED BY <2>4, <2>5, <2>6, <2>7 DEF WayInv
<1>15. QED BY <1>3, <1>11, <1>12, <1>13, <1>14 DEF Handles

LEMMA WayIdle == ASSUME TurnInv, WayInv, Idle PROVE WayInv'
<1>1. /\ turn' = turn /\ routerMail' = routerMail /\ imMail' = imMail
      /\ shown' = shown /\ streamed' = streamed /\ evicted' = evicted
  BY DEF Idle, mails
<1>2. QED BY <1>1 DEF WayInv, SegmentsMarked, WholesLast, OneWayOnly, UntaggedUnseen, FreshUnseen,
             AllShown, Unseen

LEMMA WayInvStep == TurnInv /\ MailInv /\ WayInv /\ Effect => WayInv'
<1> SUFFICES ASSUME TurnInv, MailInv, WayInv, Effect PROVE WayInv'
  OBVIOUS
<1>1. ASSUME NEW r \in Requests, TurnEffect(r) PROVE WayInv'
  BY <1>1, WayKept, WaySaid DEF TurnEffect
<1>2. QED BY <1>1, WayRegistered, WayRouted, WayTaken, WayIdle DEF Effect

LEMMA WayInvInit == Init => WayInv
<1> SUFFICES ASSUME Init PROVE WayInv
  OBVIOUS
<1>1. routerMail = <<>> /\ imMail = <<>> /\ shown = {}
  BY DEF Init
<1>2. \A e : ~In(routerMail, e) /\ ~In(imMail, e)
  BY <1>1, EmptyQueue
<1>3. \A r : Unseen(r)
  BY <1>1, <1>2 DEF Unseen
<1>4. QED BY <1>1, <1>3 DEF WayInv, SegmentsMarked, WholesLast, OneWayOnly, UntaggedUnseen,
                            FreshUnseen

----------------------------------------------------------------------------
\* Results

\* Every reachable state of turns, queues, plugins and what they have shown is
\* of its type (Delivery.tla, TypeOK).
THEOREM DeliveryTypeCorrect == Spec => []TypeOK
<1>1. TurnInv => TypeOK
  BY DEF TurnInv
<1>2. QED BY <1>1, TurnInvariant, PTL

\* What answers a user appears on the platform and in the chat that was written
\* from, and no fallback of the router broadcasts it (message_router.rs,
\* resolve_targets; the handlers of the messenger plugins).
THEOREM RepliesComeHome == Spec => []RepliesStayHome
<1>1. HomeInv => RepliesStayHome
  BY DEF HomeInv, ShownHome, RepliesStayHome
<1>2. QED BY <1>1, HomeInvariant, PTL

\* No plugin shows an answer in sentences and once more as a whole unless its
\* mark was dropped for want of room (TextStreamState in plugin-interface), however
\* often the stream broke off and was asked for again.
THEOREM NeverShownTwice == Spec => []OneWayOnly
<1>1. HomeInv => MailInv
  BY DEF HomeInv
<1>2. TurnInv /\ MailInv /\ WayInv /\ [Next]_vars => WayInv'
  BY NextEffect, WayInvStep
<1>3. WayInv => OneWayOnly
  BY DEF WayInv
<1>4. QED BY <1>1, <1>2, <1>3, WayInvInit, TurnInvariant, HomeInvariant, PTL DEF Spec
=============================================================================
