------------------------------ MODULE Delivery ------------------------------
(***************************************************************************)
(* How an answer gets from the LLM to a chat.  While LlmActor reads the    *)
(* stream of an answer (main-app/src/llm_actor.rs) it publishes every piece*)
(* as llm.chunk; the messenger plugins show finished sentences at once     *)
(* (TextStreamState, plugin-interface/src/lib.rs).  When the turn is over  *)
(* the pipeline publishes the whole answer as route.message, which         *)
(* MessageRouter (main-app/src/message_router.rs) addresses and publishes  *)
(* again as assistant.message; a plugin that has already shown the answer  *)
(* in pieces must drop it.                                                 *)
(*                                                                         *)
(* EventBus keeps one order of all events and hands each to its            *)
(* subscribers at once, so its own mailbox is folded into theirs: the      *)
(* router's and PluginManager's, which shows an event to every plugin.     *)
(*                                                                         *)
(* Text is counted, not spelt: a piece has so many visible characters and  *)
(* ends a sentence or not.  Left out: the order in which two sending       *)
(* threads of one chat reach the platform, failures of the platform, the   *)
(* comma, at which only the whole answer is split, and restarts: all of    *)
(* this is memory, and a fresh start is one.                               *)
(***************************************************************************)
EXTENDS Integers, Sequences, FiniteSets

CONSTANTS
    Requests,     \* request ids, one per LLM answer
    Triggers,     \* those that may be of a proactive trigger
    Chats,        \* chats of all platforms
    ChatsOf,      \* bound on the chats an answer may be for
    Platform,     \* the platform each chat belongs to
    NoChat,
    Pieces,       \* what one chunk may carry
    MaxChunks,    \* bound on the chunks of one attempt
    MaxAttempts,  \* max_retries of RetryChatRequest, one at least
    MaxBuffer,    \* TEXT_STREAM_MAX_BUFFER_CHARS
    MaxTracked,   \* TEXT_STREAM_MAX_TRACKED_REQUESTS
    MaxLag        \* bound on the events published and under way to a subscriber

Platforms == {"telegram", "feishu", "wechat"}

ASSUME DeliveryAssumption ==
    /\ Triggers \subseteq Requests
    /\ ChatsOf \in [Requests -> SUBSET Chats]
    /\ Platform \in [Chats -> Platforms]
    /\ NoChat \notin Chats
    /\ Pieces \subseteq [n: Nat, stop: BOOLEAN]
    /\ MaxBuffer \in Nat /\ MaxTracked \in Nat
    /\ MaxChunks \in Nat /\ MaxAttempts \in Nat \ {0} /\ MaxLag \in Nat

VARIABLES
    turn,        \* the turn that waits for each answer
    routerMail,  \* events on their way to MessageRouter
    imMail,      \* events on their way to the plugins
    channels,    \* the router's registry: the last chat of a platform
    current,     \* current_chat_id, last_chat_id of each plugin
    buffer,      \* buffers of TextStreamState
    streamed,    \* streamed_requests of each plugin's TextStreamState
    evicted,     \* marks dropped for want of room (remembered)
    typing,      \* processing_chats of the Telegram plugin
    loops,       \* its typing threads
    shown,       \* what was handed to a platform (remembered)
    chunking     \* IM_STREAM_CHUNKS

plugins == <<current, buffer, streamed, evicted, typing, loops, shown>>
mails == <<routerMail, imMail>>
vars == <<turn, mails, channels, plugins, chunking>>

----------------------------------------------------------------------------
\* Data

AnyChat == Chats \cup {NoChat}

\* No buffer is held for the request.
NoBuffer == -1

Sources == Platforms \cup {""}

Event ==
    [topic: {"user.message", "llm.chunk", "llm.response", "route.message", "assistant.message"},
     req: Requests, source: Sources, chat: Chats, piece: [n: Nat, stop: BOOLEAN],
     tagged: BOOLEAN, silent: BOOLEAN, loud: BOOLEAN]

\* StreamEventMeta::payload_base and the payloads built from it.
EventOf(r, topic) ==
    [topic |-> topic, req |-> r, source |-> turn[r].source, chat |-> turn[r].chat,
     piece |-> [n |-> 0, stop |-> FALSE], tagged |-> TRUE, silent |-> FALSE,
     loud |-> turn[r].loud]

\* run is the length of the sentence being said, loud that one was longer than
\* a single character, marker that the answer is the marker of silence.
Turn ==
    [stage: {"none", "heard", "streaming", "broken", "closed", "replied", "failed", "quiet"},
     kind: {"user", "trigger"}, source: Sources, chat: AnyChat, attempt: 0..MaxAttempts,
     chunks: 0..MaxChunks, run: 0..2, loud: BOOLEAN, marker: BOOLEAN]

NoTurn ==
    [stage |-> "none", kind |-> "user", source |-> "", chat |-> NoChat, attempt |-> 0,
     chunks |-> 0, run |-> 0, loud |-> FALSE, marker |-> FALSE]

\* What is remembered of a turn that is over.
Over(r, stage) ==
    [turn[r] EXCEPT !.stage = stage, !.source = "", !.attempt = 0, !.chunks = 0, !.run = 0,
                    !.loud = stage = "replied" /\ @]

\* how: a sentence of the stream, the whole answer, or the text of an event that
\* says it is silent.  What a tool sends is no answer and is not recorded.
Shown == [req: Requests, how: {"segment", "whole", "silent"}, platform: Platforms, chat: AnyChat]

\* Two characters are as visible as more.
Least(a, b) == IF a < b THEN a ELSE b

TypeOK ==
    /\ turn \in [Requests -> Turn]
    /\ routerMail \in Seq(Event) /\ imMail \in Seq(Event)
    /\ channels \in [Platforms -> AnyChat]
    /\ current \in [Platforms -> AnyChat]
    /\ buffer \in [Requests -> Nat \cup {NoBuffer}]
    /\ streamed \in [Platforms -> SUBSET Requests] /\ evicted \subseteq Requests
    /\ typing \subseteq Chats /\ loops \in [Chats -> Nat]
    /\ shown \subseteq Shown
    /\ chunking \in BOOLEAN

Init ==
    /\ turn = [r \in Requests |-> NoTurn]
    /\ routerMail = <<>> /\ imMail = <<>>
    /\ channels = [p \in Platforms |-> NoChat]
    /\ current = [p \in Platforms |-> NoChat]
    /\ buffer = [r \in Requests |-> NoBuffer]
    /\ streamed = [p \in Platforms |-> {}] /\ evicted = {}
    /\ typing = {} /\ loops = [c \in Chats |-> 0]
    /\ shown = {}
    /\ chunking \in BOOLEAN

----------------------------------------------------------------------------
\* EventBus

\* The topics of MessageRouter; PluginManager subscribes to all.
RouterTopics == {"user.message", "route.message"}

\* What some plugin acts on: each looks at the source, at IM_STREAM_CHUNKS and
\* at the topic.  Events that all of them pass over are not queued.
ForPlugins(e) ==
    /\ e.source # ""
    /\ \/ e.topic \in {"llm.chunk", "llm.response"} /\ chunking
       \/ e.topic = "user.message" /\ e.source = "telegram"
       \/ e.topic = "assistant.message"

Publish(e) ==
    /\ ForPlugins(e) => Len(imMail) < MaxLag
    /\ e.topic \in RouterTopics => Len(routerMail) < MaxLag
    /\ imMail' = IF ForPlugins(e) THEN Append(imMail, e) ELSE imMail
    /\ routerMail' = IF e.topic \in RouterTopics THEN Append(routerMail, e) ELSE routerMail

----------------------------------------------------------------------------
\* The turn and the stream of its answer

\* A message of a user: the callbacks of the Telegram bot and the WeChat poll
\* remember the chat at once, Feishu only when the chat is answered.
UserWrites(r, c) ==
    /\ turn[r].stage = "none"
    /\ turn' = [turn EXCEPT ![r] =
         [NoTurn EXCEPT !.stage = "heard", !.source = Platform[c], !.chat = c, !.attempt = 1]]
    /\ current' = IF Platform[c] = "feishu" THEN current
                  ELSE [current EXCEPT ![Platform[c]] = c]
    /\ UNCHANGED <<mails, channels, buffer, streamed, evicted, typing, loops, shown, chunking>>

\* ... and publish it later, from a thread of its own when a voice message is
\* transcribed first or a file is loaded; without a transcriber a voice message is
\* heard and never submitted.  The turn begins with the event.
UserSubmits(r) ==
    /\ turn[r].stage = "heard"
    /\ turn' = [turn EXCEPT ![r].stage = "streaming"]
    /\ Publish(EventOf(r, "user.message"))
    /\ UNCHANGED <<channels, plugins, chunking>>

\* A turn of proactive.trigger, which may name no source.
TriggerFires(r, c, s) ==
    /\ turn[r].stage = "none" /\ r \in Triggers
    /\ turn' = [turn EXCEPT ![r] =
         [NoTurn EXCEPT !.stage = "streaming", !.kind = "trigger", !.source = s, !.chat = c,
                        !.attempt = 1]]
    /\ UNCHANGED <<mails, channels, plugins, chunking>>

\* stream_llm: a delta with a content.
StreamChunk(r, piece) ==
    LET run == Least(2, turn[r].run + piece.n)
    IN
    /\ turn[r].stage = "streaming" /\ turn[r].chunks < MaxChunks /\ ~turn[r].marker
    /\ turn' = [turn EXCEPT ![r].chunks = @ + 1,
                            ![r].run = IF piece.stop THEN 0 ELSE run,
                            ![r].loud = @ \/ run > 1]
    /\ Publish([EventOf(r, "llm.chunk") EXCEPT !.piece = piece])
    /\ UNCHANGED <<channels, plugins, chunking>>

\* The answer to an idle trigger is NO_PROACTIVE_MARKER and nothing else.
StreamMarker(r) ==
    /\ turn[r].stage = "streaming" /\ turn[r].kind = "trigger" /\ turn[r].chunks = 0
    /\ MaxChunks > 0
    /\ turn' = [turn EXCEPT ![r].chunks = 1, ![r].marker = TRUE, ![r].loud = TRUE, ![r].run = 2]
    /\ Publish([EventOf(r, "llm.chunk") EXCEPT !.piece = [n |-> 2, stop |-> FALSE]])
    /\ UNCHANGED <<channels, plugins, chunking>>

\* A read error or an API error.
StreamBreaks(r) ==
    /\ turn[r].stage = "streaming"
    /\ turn' = [turn EXCEPT ![r].stage = "broken"]
    /\ UNCHANGED <<mails, channels, plugins, chunking>>

\* Mutation: without counting.
StreamAlways(r) ==
    /\ turn[r].stage = "broken"
    /\ turn' = [turn EXCEPT ![r] =
         [turn[r] EXCEPT !.stage = "streaming", !.attempt = @ + 1, !.chunks = 0, !.run = 0,
                         !.loud = FALSE, !.marker = FALSE]]
    /\ UNCHANGED <<mails, channels, plugins, chunking>>

\* RetryActor, or the fallback to the text model, asks again under the same id.
StreamAgain(r) ==
    /\ turn[r].stage = "broken" /\ turn[r].attempt < MaxAttempts
    /\ turn' = [turn EXCEPT ![r] =
         [turn[r] EXCEPT !.stage = "streaming", !.attempt = @ + 1, !.chunks = 0, !.run = 0,
                         !.loud = FALSE, !.marker = FALSE]]
    /\ UNCHANGED <<mails, channels, plugins, chunking>>

StreamCloses(r) ==
    /\ turn[r].stage = "streaming"
    /\ turn' = [turn EXCEPT ![r].stage = "closed"]
    /\ Publish(EventOf(r, "llm.response"))
    /\ UNCHANGED <<channels, plugins, chunking>>

\* The end of process_message: emit_reply.
Reply(r) ==
    /\ turn[r].stage = "closed" /\ turn[r].chunks > 0 /\ ~turn[r].marker
    /\ turn' = [turn EXCEPT ![r] = Over(r, "replied")]
    /\ Publish(EventOf(r, "route.message"))
    /\ UNCHANGED <<channels, plugins, chunking>>

\* An answer with a tool call, without a text, or dropped for its marker.
EndQuietly(r) ==
    /\ turn[r].stage = "closed"
    /\ turn' = [turn EXCEPT ![r] = Over(r, "quiet")]
    /\ UNCHANGED <<mails, channels, plugins, chunking>>

\* A tool has already sent the answer: an event for the plugins only, without a
\* request id.
ReplySilently(r) ==
    /\ turn[r].stage = "closed" /\ ~turn[r].marker
    /\ turn' = [turn EXCEPT ![r] = Over(r, "quiet")]
    /\ Publish([EventOf(r, "assistant.message") EXCEPT !.silent = TRUE, !.tagged = FALSE])
    /\ UNCHANGED <<channels, plugins, chunking>>

\* The retries are spent: an apology under the same id.
Apologise(r) ==
    /\ turn[r].stage = "broken"
    /\ turn' = [turn EXCEPT ![r] = Over(r, "failed")]
    /\ Publish([EventOf(r, "route.message") EXCEPT !.loud = TRUE])
    /\ UNCHANGED <<channels, plugins, chunking>>

\* Refused by the rate limit or the token budget, before an id was made.
Refuse(r) ==
    /\ turn[r].stage = "streaming" /\ turn[r].attempt = 1 /\ turn[r].chunks = 0
    /\ turn' = [turn EXCEPT ![r] = Over(r, "failed")]
    /\ Publish([EventOf(r, "route.message") EXCEPT !.loud = TRUE, !.tagged = FALSE])
    /\ UNCHANGED <<channels, plugins, chunking>>

----------------------------------------------------------------------------
\* MessageRouter

\* on_user_message
RegisterChannel ==
    /\ routerMail # <<>> /\ Head(routerMail).topic = "user.message"
    /\ channels' = [channels EXCEPT ![Head(routerMail).source] = Head(routerMail).chat]
    /\ routerMail' = Tail(routerMail)
    /\ UNCHANGED <<turn, imMail, plugins, chunking>>

Registered == {p \in Platforms : channels[p] # NoChat}

\* Mutation: the registry is asked for any channel, not for this one.
ResolveAnyChannel(source) == IF Registered # {} THEN Registered ELSE {source} \ {""}

\* resolve_targets: a named channel nobody has written on is not taken at its
\* word as long as others are known.
ResolveTargets(source) ==
    IF source = "" THEN Registered
    ELSE IF source \in Registered \/ Registered = {} THEN {source}
    ELSE Registered

\* build_route_payload: the text and the chat asked for, under the target's name.
RoutedTo(e, p) == [e EXCEPT !.topic = "assistant.message", !.source = p]

\* on_route_message: one assistant.message per target.
\* The plugins are independent, so the order of the targets does not matter.
RouteMessage ==
    LET e == Head(routerMail)
        targets == ResolveTargets(e.source)
        copies == {RoutedTo(e, p) : p \in targets}
    IN
    /\ routerMail # <<>> /\ e.topic = "route.message"
    /\ \E order \in [1..Cardinality(copies) -> copies] :
         /\ \A i, j \in DOMAIN order : i # j => order[i] # order[j]
         /\ imMail' = imMail \o order
    /\ routerMail' = Tail(routerMail)
    /\ UNCHANGED <<turn, channels, plugins, chunking>>

----------------------------------------------------------------------------
\* The messenger plugins

Show(r, how, p, c) == shown' = shown \cup {[req |-> r, how |-> how, platform |-> p, chat |-> c]}

\* Mutation: the request is not remembered.
MarkNothing(p, r) == UNCHANGED <<streamed, evicted>>

\* mark_streamed: over the limit any one mark goes.
MarkStreamed(p, r) ==
    LET marked == streamed[p] \cup {r}
    IN IF Cardinality(marked) <= MaxTracked
       THEN streamed' = [streamed EXCEPT ![p] = marked] /\ UNCHANGED evicted
       ELSE \E x \in marked : /\ streamed' = [streamed EXCEPT ![p] = marked \ {x}]
                              /\ evicted' = evicted \cup {x}

\* A segment of one character is not worth a message.
VisibleSegment(n) == n > 1

\* The plugin that must see the head of the mailbox: each looks at the source.
Seen(topic, p) == imMail # <<>> /\ Head(imMail).topic = topic /\ Head(imMail).source = p

\* The Telegram plugin passes over everything before its first message.
TelegramUnknown ==
    /\ Seen("user.message", "telegram") \/ Seen("assistant.message", "telegram")
    /\ current["telegram"] = NoChat
    /\ imMail' = Tail(imMail)
    /\ UNCHANGED <<turn, routerMail, channels, plugins, chunking>>

\* push_chunk: a finished sentence is shown, an unfinished one only when the
\* buffer is full; one too short to be shown is dropped.
ShowChunk(p) ==
    LET e == Head(imMail)
        held == IF buffer[e.req] = NoBuffer THEN 0 ELSE buffer[e.req]
        said == held + e.piece.n
        cut == e.piece.stop \/ said >= MaxBuffer
    IN
    /\ Seen("llm.chunk", p)
    /\ buffer' = [buffer EXCEPT ![e.req] = IF cut THEN 0 ELSE said]
    /\ IF cut /\ VisibleSegment(said)
       THEN Show(e.req, "segment", p, e.chat) /\ MarkStreamed(p, e.req)
       ELSE UNCHANGED <<shown, streamed, evicted>>
    /\ imMail' = Tail(imMail)
    /\ UNCHANGED <<turn, routerMail, channels, current, typing, loops, chunking>>

\* Mutation: the rest of the buffer is thrown away.
DropRest(p) ==
    LET e == Head(imMail)
    IN
    /\ Seen("llm.response", p)
    /\ buffer' = [buffer EXCEPT ![e.req] = NoBuffer]
    /\ IF buffer[e.req] # NoBuffer THEN MarkStreamed(p, e.req) ELSE UNCHANGED <<streamed, evicted>>
    /\ typing' = IF p = "telegram" THEN typing \ {e.chat} ELSE typing
    /\ imMail' = Tail(imMail)
    /\ UNCHANGED <<turn, routerMail, channels, current, loops, shown, chunking>>

\* flush, at the end of the stream.
ShowRest(p) ==
    LET e == Head(imMail)
    IN
    /\ Seen("llm.response", p)
    /\ buffer' = [buffer EXCEPT ![e.req] = NoBuffer]
    /\ IF VisibleSegment(buffer[e.req])
       THEN Show(e.req, "segment", p, e.chat) /\ MarkStreamed(p, e.req)
       ELSE UNCHANGED <<shown, streamed, evicted>>
    /\ typing' = IF p = "telegram" THEN typing \ {e.chat} ELSE typing
    /\ imMail' = Tail(imMail)
    /\ UNCHANGED <<turn, routerMail, channels, current, loops, chunking>>

TelegramStreams == ShowChunk("telegram") \/ ShowRest("telegram")

FeishuStreams == ShowChunk("feishu") \/ ShowRest("feishu")

WechatStreams == ShowChunk("wechat") \/ ShowRest("wechat")

\* take_streamed_request: the answer was shown in pieces.
TakeStreamed(p) ==
    LET e == Head(imMail)
    IN
    /\ Seen("assistant.message", p) /\ e.tagged /\ e.req \in streamed[p]
    /\ p = "telegram" => current[p] # NoChat
    /\ streamed' = [streamed EXCEPT ![p] = @ \ {e.req}]
    /\ typing' = IF p = "telegram" THEN typing \ {current[p]} ELSE typing
    /\ imMail' = Tail(imMail)
    /\ UNCHANGED <<turn, routerMail, channels, current, buffer, evicted, loops, shown, chunking>>

NotStreamed(p) ==
    /\ Seen("assistant.message", p)
    /\ ~(Head(imMail).tagged /\ Head(imMail).req \in streamed[p])

\* An answer the stream has not shown; text of single characters comes to
\* nothing where it is split.
Whole(e) == IF e.silent THEN "silent" ELSE "whole"

\* Telegram writes to the chat that wrote last, and keeps silent when told to.
TelegramAnswers ==
    LET e == Head(imMail)
        c == current["telegram"]
    IN
    /\ NotStreamed("telegram") /\ c # NoChat
    /\ typing' = typing \ {c}
    /\ IF e.silent \/ ~e.loud THEN UNCHANGED shown ELSE Show(e.req, "whole", "telegram", c)
    /\ imMail' = Tail(imMail)
    /\ UNCHANGED <<turn, routerMail, channels, current, buffer, streamed, evicted, loops,
                   chunking>>

\* Feishu does not split, so even a single character is sent.
FeishuAnswers ==
    LET e == Head(imMail)
    IN
    /\ NotStreamed("feishu")
    /\ current' = [current EXCEPT !["feishu"] = e.chat]
    /\ Show(e.req, Whole(e), "feishu", e.chat)
    /\ imMail' = Tail(imMail)
    /\ UNCHANGED <<turn, routerMail, channels, buffer, streamed, evicted, typing, loops,
                   chunking>>

\* Mutation: the reply goes to whoever wrote last.
WechatAnswersLast ==
    LET e == Head(imMail)
    IN
    /\ NotStreamed("wechat")
    /\ IF e.loud THEN Show(e.req, Whole(e), "wechat", current["wechat"]) ELSE UNCHANGED shown
    /\ imMail' = Tail(imMail)
    /\ UNCHANGED <<turn, routerMail, channels, current, buffer, streamed, evicted, typing, loops,
                   chunking>>

WechatAnswers ==
    LET e == Head(imMail)
    IN
    /\ NotStreamed("wechat")
    /\ IF e.loud THEN Show(e.req, Whole(e), "wechat", e.chat) ELSE UNCHANGED shown
    /\ imMail' = Tail(imMail)
    /\ UNCHANGED <<turn, routerMail, channels, current, buffer, streamed, evicted, typing, loops,
                   chunking>>

\* Every message of a user starts a thread that shows "typing" in the chat that
\* wrote last, until the chat leaves the set.
TelegramTypes ==
    LET c == current["telegram"]
    IN
    /\ Seen("user.message", "telegram") /\ c # NoChat
    /\ typing' = typing \cup {c}
    /\ loops' = [loops EXCEPT ![c] = @ + 1]
    /\ imMail' = Tail(imMail)
    /\ UNCHANGED <<turn, routerMail, channels, current, buffer, streamed, evicted, shown,
                   chunking>>

\* The thread sees that its chat has left the set, or gives up after 30 seconds
\* and takes it out, be it there for a newer thread.
TypingEnds(c) ==
    /\ loops[c] > 0
    /\ loops' = [loops EXCEPT ![c] = @ - 1]
    /\ typing' = typing \ {c}
    /\ UNCHANGED <<turn, mails, channels, current, buffer, streamed, evicted, shown,
                   chunking>>

----------------------------------------------------------------------------
\* The tools of the plugins: the answer r called one, which takes the chat it is
\* given or else the one the plugin remembers.  Its turn goes on under another id.

Addressee(r, p, c) == c \in {turn[r].chat, current[p]} \ {NoChat}

ToolEnds(r) ==
    /\ turn[r].stage = "closed"
    /\ turn' = [turn EXCEPT ![r] = Over(r, "quiet")]
    /\ UNCHANGED <<mails, channels, current, buffer, streamed, evicted, loops, shown, chunking>>

\* tg_send_message: typing ends in the chat that is written to.
TelegramSends(r, c) ==
    /\ Addressee(r, "telegram", c) /\ ToolEnds(r)
    /\ typing' = typing \ {c}

\* tg_send_voice does so before the speech is made, which may fail;
TelegramSpeaks(r, c) == TelegramSends(r, c)

\* tg_send_photo, tg_send_video and tg_send_document only when the file could be
\* read.
TelegramSendsFile(r, c) == TelegramSends(r, c) \/ (ToolEnds(r) /\ UNCHANGED typing)

\* wechat_send_message ends its typing, which is not part of this module;
\* wechat_send_image, wechat_send_file and feishu_send_message touch nothing.
WechatSends(r, c) == Addressee(r, "wechat", c) /\ ToolEnds(r) /\ UNCHANGED typing

FeishuSends(r, c) == Addressee(r, "feishu", c) /\ ToolEnds(r) /\ UNCHANGED typing

Router == RegisterChannel \/ RouteMessage

PluginManager ==
    \/ TelegramUnknown
    \/ TelegramStreams \/ FeishuStreams \/ WechatStreams
    \/ \E p \in Platforms : TakeStreamed(p)
    \/ TelegramAnswers \/ FeishuAnswers \/ WechatAnswers \/ TelegramTypes

Answering(r) == Reply(r) \/ EndQuietly(r) \/ ReplySilently(r)

Next ==
    \/ \E r \in Requests :
         \/ \E c \in ChatsOf[r] :
              UserWrites(r, c) \/ \E s \in {Platform[c], ""} : TriggerFires(r, c, s)
         \/ UserSubmits(r)
         \/ \E piece \in Pieces : StreamChunk(r, piece)
         \/ StreamMarker(r) \/ StreamBreaks(r) \/ StreamAgain(r) \/ StreamCloses(r)
         \/ Answering(r) \/ Apologise(r) \/ Refuse(r)
         \/ \E c \in Chats : \/ TelegramSends(r, c) \/ TelegramSpeaks(r, c)
                          \/ TelegramSendsFile(r, c) \/ WechatSends(r, c)
                          \/ FeishuSends(r, c)
    \/ Router \/ PluginManager
    \/ \E c \in Chats : TypingEnds(c)

Spec == Init /\ [][Next]_vars

\* Both actors empty their mailboxes, and a typing thread sleeps 4 s at a time.
FairSpec ==
    /\ Spec
    /\ WF_vars(Router) /\ WF_vars(PluginManager)
    /\ \A c \in Chats : WF_vars(TypingEnds(c))

----------------------------------------------------------------------------
\* Properties

\* An answer is not shown twice, in sentences and once more as a whole
\* (TextStreamState, mark and take), whatever broke off or was asked again, as
\* long as its mark was not dropped for want of room.
OneWayOnly ==
    \A i, j \in shown :
        /\ i.req = j.req /\ i.platform = j.platform
        /\ i.how = "segment" /\ j.how = "whole"
        => i.req \in evicted

\* What answers a user appears on the platform the user wrote on, in the chat
\* the user wrote in (the fallback to a broadcast never takes a reply: the
\* router reads the user's message before the reply).  Excepted are whole
\* messages of the Telegram plugin, which go to the chat that wrote last.
RepliesStayHome ==
    \A i \in shown :
        turn[i.req].kind = "user" =>
            /\ i.platform = Platform[turn[i.req].chat]
            /\ i.chat = turn[i.req].chat \/ (i.platform = "telegram" /\ i.how = "whole")

\* An answer that a user waits for and that has more than single characters is
\* shown, in pieces or as a whole.
ReplyIsShown ==
    \A r \in Requests :
        (turn[r].stage = "replied" /\ turn[r].kind = "user" /\ turn[r].loud)
            ~> (\E i \in shown : i.req = r)

\* docs/proactive-plugin.md:59 says that the marker of silence is not sent.
MarkerNeverShown == \A i \in shown : ~turn[i.req].marker

=============================================================================
