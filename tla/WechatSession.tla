--------------------------- MODULE WechatSession ---------------------------
(***************************************************************************)
(* plugins/wechat-claw-plugin: the session of the WeChat bot.  A login     *)
(* thread loads the saved session or shows QR codes; a poll thread fetches *)
(* messages, publishes them and starts typing indicators, which are tasks  *)
(* on its runtime; answers and stop() come from other threads.             *)
(*                                                                         *)
(* wait_for_login_with returns what the server confirmed, but nothing puts *)
(* it into PluginLoginHandler.result, where login_with_result looks for    *)
(* it: a confirmed login is an error like any other.  So the code after a  *)
(* login that succeeded is never reached and is not modelled; the saved    *)
(* session, if there is one, was there when the process first started.     *)
(*                                                                         *)
(* Left out: what answers look like (Delivery), the contents of media,     *)
(* whose download can fail without an effect on the session, and           *)
(* wait_loop's two seconds.                                                *)
(***************************************************************************)
EXTENDS Integers, Sequences, FiniteSets

CONSTANTS
    Users,
    MaxMessages,   \* bound on the messages that users write
    MaxErrors,     \* poll errors in a row that are borne (5)
    MaxAttempts,   \* QR logins in a row (3)
    MaxRefresh,    \* MAX_QR_REFRESH
    Slots,         \* bound on the typing tasks at a time
    MaxAge,        \* periods of four seconds that a typing task lives (8)
    Nobody

ASSUME WechatSessionAssumption ==
    /\ MaxMessages \in Nat /\ MaxErrors \in Nat
    /\ MaxAttempts \in Nat \ {0} /\ MaxRefresh \in Nat
    /\ MaxAge \in Nat \ {0}
    /\ Nobody \notin Users

VARIABLES
    plugin,      \* how far stop() has come
    running,     \* the flag all threads look at
    phase,       \* of the login thread
    attempt,     \* QR logins since the last success
    qr,          \* the code that is shown: what the server knows of it
    refreshes,
    scanned,     \* the handler's flag
    status,      \* BnStatus
    client,      \* there is one
    file,        \* data/wechat_session.json is there
    valid,       \* the server takes the token
    poll,        \* the poll thread
    errors,      \* consecutive_errors
    buf,         \* messages fetched; -1 for the empty one
    batch,       \* positions of the messages in hand
    inbox,       \* who wrote each message
    published,   \* positions of those published since a poll with the empty buf
    processing,  \* processing_users
    typing       \* the typing tasks

login == <<phase, attempt, qr, refreshes, scanned>>
polling == <<poll, errors, buf, batch, published>>
vars == <<plugin, running, login, status, client, file, valid, polling, inbox,
          processing, typing>>

----------------------------------------------------------------------------
\* Data

NoTask == [user |-> Nobody, age |-> 0]

Task == [user: Users, age: 0..MaxAge]

Alive == poll \in {"top", "asking", "handling", "typing"}

TypeOK ==
    /\ plugin \in {"started", "joining login", "joining poll", "stopped"}
    /\ running \in BOOLEAN
    /\ phase \in {"load", "wait", "join", "login", "between", "pause", "ended"}
    /\ attempt \in 0..MaxAttempts /\ refreshes \in 0..MaxRefresh
    /\ qr \in {"none", "shown", "scanned", "confirmed"} /\ scanned \in BOOLEAN
    /\ status \in {"uninitialized", "waiting_qr", "scanned", "online", "error"}
    /\ client \in BOOLEAN /\ file \in BOOLEAN /\ valid \in BOOLEAN
    /\ poll \in {"none", "top", "asking", "handling", "typing", "ended"}
    /\ errors \in 0..MaxErrors
    /\ buf \in -1..Len(inbox) /\ inbox \in Seq(Users)
    /\ \A i \in 1..Len(batch) : batch[i] \in 1..Len(inbox)
    /\ processing \subseteq Users
    /\ typing \in [Slots -> Task \cup {NoTask}]
    /\ ~Alive => \A k \in Slots : typing[k] = NoTask

\* new() and start().
Init ==
    /\ plugin = "started" /\ running = TRUE
    /\ phase = "load" /\ attempt = 0 /\ qr = "none" /\ refreshes = 0 /\ scanned = FALSE
    /\ status = "uninitialized" /\ client = FALSE
    /\ poll = "none" /\ errors = 0 /\ buf = -1 /\ batch = <<>> /\ published = <<>>
    /\ processing = {} /\ typing = [k \in Slots |-> NoTask]
    /\ file \in BOOLEAN /\ valid \in BOOLEAN /\ inbox = <<>>

----------------------------------------------------------------------------
\* The world outside

UserWrites(u) ==
    /\ Len(inbox) < MaxMessages
    /\ inbox' = Append(inbox, u)
    /\ UNCHANGED <<plugin, running, login, status, client, file, valid, polling,
                   processing, typing>>

TokenExpires ==
    /\ valid /\ valid' = FALSE
    /\ UNCHANGED <<plugin, running, login, status, client, file, polling, inbox,
                   processing, typing>>

\* An answer or a tool sends to the user.  A send that the server refuses removes
\* the saved session, while the poll thread has yet to find out.
Answer(u) ==
    /\ processing' = processing \ {u}
    /\ file' \in {file} \cup (IF client /\ ~valid THEN {FALSE} ELSE {})
    /\ UNCHANGED <<plugin, running, login, status, client, valid, polling, inbox, typing>>

----------------------------------------------------------------------------
\* The login thread: main_loop

\* start_poll_thread comes last, and the poll thread begins with an empty buf.
LoadSaved ==
    /\ phase = "load" /\ running /\ file
    /\ client' = TRUE /\ status' = "online"
    /\ poll' = "top" /\ errors' = 0 /\ buf' = -1 /\ batch' = <<>> /\ published' = <<>>
    /\ phase' = "wait"
    /\ UNCHANGED <<plugin, running, attempt, qr, refreshes, scanned, file, valid, inbox,
                   processing, typing>>

\* Mutation: the count of attempts goes on where it was.
AsksOn(n) ==
    /\ phase' = "login" /\ attempt' = attempt + 1
    /\ qr' = "none" /\ refreshes' = 0 /\ scanned' = FALSE

\* A new attempt has a new handler.
Asks(n) ==
    /\ phase' = "login" /\ attempt' = n
    /\ qr' = "none" /\ refreshes' = 0 /\ scanned' = FALSE

NoneSaved ==
    /\ phase = "load" /\ running /\ ~file
    /\ Asks(1)
    /\ UNCHANGED <<plugin, running, status, client, file, valid, polling, inbox,
                   processing, typing>>

\* wait_loop has seen that the status is another.
SessionEnds ==
    /\ phase = "wait" /\ running /\ status # "online"
    /\ file' = FALSE /\ client' = FALSE
    /\ phase' = "join"
    /\ UNCHANGED <<plugin, running, attempt, qr, refreshes, scanned, status, valid, polling,
                   inbox, processing, typing>>

\* stop_poll_thread, and on to a QR code.
PollJoined ==
    /\ phase = "join" /\ ~Alive
    /\ poll' = "none"
    /\ IF running THEN Asks(1) ELSE phase' = "ended" /\ UNCHANGED <<attempt, qr, refreshes, scanned>>
    /\ UNCHANGED <<plugin, running, status, client, file, valid, errors, buf, batch, published,
                   inbox, processing, typing>>

\* The thread returns wherever it looks at the flag.
LoginThreadEnds ==
    /\ phase \in {"load", "wait"} /\ ~running
    /\ phase' = "ended"
    /\ UNCHANGED <<plugin, running, attempt, qr, refreshes, scanned, status, client, file, valid,
                   polling, inbox, processing, typing>>

----------------------------------------------------------------------------
\* qr_login_via_sdk.  Nothing in an attempt looks at the flag.

Login(q, r, s) ==
    /\ phase = "login"
    /\ qr' = q /\ refreshes' = r /\ scanned' = s
    /\ UNCHANGED <<plugin, running, phase, attempt, status, client, file, valid, polling, inbox,
                   processing, typing>>

QrFetched == qr = "none" /\ Login("shown", refreshes, scanned)

QrScanned == qr = "shown" /\ Login("scanned", refreshes, TRUE)

QrConfirmed == qr = "scanned" /\ Login("confirmed", refreshes, scanned)

\* on_expired: there is another code, and the handler's flag stays.
QrExpires ==
    /\ qr \in {"shown", "scanned"} /\ refreshes < MaxRefresh
    /\ Login("shown", refreshes + 1, scanned)

\* The task beside the login copies the handler into the status.
ShowStatus ==
    /\ phase = "login" /\ qr # "none" /\ running
    /\ status' = IF scanned THEN "scanned" ELSE "waiting_qr"
    /\ UNCHANGED <<plugin, running, login, client, file, valid, polling, inbox, processing, typing>>

\* A request fails, the code has expired too often or the time is up; or the login
\* was confirmed, and its result is not found.
LoginFails ==
    /\ phase = "login"
    /\ IF attempt < MaxAttempts THEN phase' = "between" /\ UNCHANGED status
                                ELSE phase' = "pause" /\ status' = "error"
    /\ UNCHANGED <<plugin, running, attempt, qr, refreshes, scanned, client, file, valid,
                   polling, inbox, processing, typing>>

AsksAgain ==
    /\ phase = "between"
    /\ IF running THEN Asks(attempt + 1)
                  ELSE phase' = "pause" /\ UNCHANGED <<attempt, qr, refreshes, scanned>>
    /\ UNCHANGED <<plugin, running, status, client, file, valid, polling, inbox, processing, typing>>

Pauses ==
    /\ phase = "pause" /\ phase' = "load"
    /\ UNCHANGED <<plugin, running, attempt, qr, refreshes, scanned, status, client, file, valid,
                   polling, inbox, processing, typing>>

----------------------------------------------------------------------------
\* The poll thread: poll_loop.  With it go its locals and the tasks on its runtime,
\* which leave their users in processing_users.

PollEnds ==
    /\ poll' = "ended" /\ errors' = 0 /\ buf' = -1 /\ batch' = <<>> /\ published' = <<>>
    /\ typing' = [k \in Slots |-> NoTask]

\* Mutation: the flag is not looked at.
PollsOn ==
    /\ poll = "top"
    /\ poll' = "asking"
    /\ UNCHANGED <<plugin, running, login, status, client, file, valid, errors, buf, batch, published,
                   inbox, processing, typing>>

\* The flag is looked at between two requests only.
Polls ==
    /\ poll = "top"
    /\ IF running THEN poll' = "asking" /\ UNCHANGED <<errors, buf, batch, published, typing>>
                  ELSE PollEnds
    /\ UNCHANGED <<plugin, running, login, status, client, file, valid, inbox, processing>>

\* Mutation: the messages are fetched and the buf stays.
FetchedAgain(from, to) ==
    /\ buf' \in {from, -1}
    /\ batch' = [i \in 1..(to - from) |-> from + i]

\* The buf of the answer is taken before the messages are handled; an answer without
\* get_updates_buf leaves an empty one.  A server that names a position is taken to
\* name the end of what it gave.
Fetched(from, to) ==
    /\ buf' \in {to, -1}
    /\ batch' = [i \in 1..(to - from) |-> from + i]

\* Which messages the server gives for an empty buf is its affair.
PollReturns ==
    /\ poll = "asking" /\ valid
    /\ \E from \in IF buf = -1 THEN 0..Len(inbox) ELSE {buf} :
         \E to \in from..Len(inbox) : Fetched(from, to)
    /\ errors' = 0
    /\ poll' = "handling"
    /\ published' = IF buf = -1 THEN <<>> ELSE published
    /\ UNCHANGED <<plugin, running, login, status, client, file, valid, inbox, processing, typing>>

\* A refusal that has an errcode and no ret is read as an answer with nothing in it.
PollMisread ==
    /\ poll = "asking"
    /\ buf' = -1 /\ errors' = 0 /\ poll' = "handling"
    /\ UNCHANGED <<plugin, running, login, status, client, file, valid, batch, published, inbox,
                   processing, typing>>

\* The long poll timed out: no messages, and the buf that was sent.
PollTimesOut ==
    /\ poll = "asking"
    /\ errors' = 0 /\ poll' = "top"
    /\ UNCHANGED <<plugin, running, login, status, client, file, valid, buf, batch, published,
                   inbox, processing, typing>>

\* Mutation: the thread ends and nobody is told.
EndsUntold ==
    /\ poll = "asking" /\ ~valid
    /\ PollEnds
    /\ UNCHANGED <<plugin, running, login, status, client, file, valid, inbox, processing>>

\* Error -14, in ret.
PollRefused ==
    /\ poll = "asking" /\ ~valid
    /\ status' = "error"
    /\ PollEnds
    /\ UNCHANGED <<plugin, running, login, client, file, valid, inbox, processing>>

PollFails ==
    /\ poll = "asking"
    /\ \/ /\ errors >= MaxErrors
          /\ status' = "error"
          /\ PollEnds
       \/ /\ errors < MaxErrors
          /\ errors' = errors + 1 /\ poll' = "top"
          /\ UNCHANGED <<status, buf, batch, published, typing>>
    /\ UNCHANGED <<plugin, running, login, client, file, valid, inbox, processing>>

\* user.message is published; only then the typing starts.
Publish ==
    /\ poll = "handling" /\ batch # <<>>
    /\ published' = Append(published, Head(batch))
    /\ poll' = "typing"
    /\ UNCHANGED <<plugin, running, login, status, client, file, valid, errors, buf, batch, inbox,
                   processing, typing>>

\* start_typing, without a task when there is no ticket, whatever runs already.
StartTyping ==
    LET u == inbox[Head(batch)]
    IN
    /\ poll = "typing"
    /\ processing' = processing \cup {u}
    /\ \/ UNCHANGED typing
       \/ \E k \in Slots : /\ typing[k] = NoTask
                           /\ typing' = [typing EXCEPT ![k] = [user |-> u, age |-> 0]]
    /\ batch' = Tail(batch) /\ poll' = "handling"
    /\ UNCHANGED <<plugin, running, login, status, client, file, valid, errors, buf, published,
                   inbox>>

BatchDone ==
    /\ poll = "handling" /\ batch = <<>>
    /\ poll' = "top"
    /\ UNCHANGED <<plugin, running, login, status, client, file, valid, errors, buf, batch,
                   published, inbox, processing, typing>>

----------------------------------------------------------------------------
\* The typing tasks

Types(k) ==
    /\ typing[k] # NoTask /\ running /\ typing[k].age < MaxAge
    /\ typing[k].user \in processing
    /\ typing' = [typing EXCEPT ![k].age = @ + 1]
    /\ UNCHANGED <<plugin, running, login, status, client, file, valid, polling, inbox, processing>>

\* It was answered, sending failed, its time is over or the plugin stops.  The user
\* goes from the set even if another task types for a later message.
TypingEnds(k) ==
    /\ typing[k] # NoTask
    /\ processing' = processing \ {typing[k].user}
    /\ typing' = [typing EXCEPT ![k] = NoTask]
    /\ UNCHANGED <<plugin, running, login, status, client, file, valid, polling, inbox>>

----------------------------------------------------------------------------
\* Stopping, and what comes after

Stop ==
    /\ plugin = "started"
    /\ running' = FALSE /\ plugin' = "joining login"
    /\ UNCHANGED <<login, status, client, file, valid, polling, inbox, processing, typing>>

\* Mutation: the poll thread is joined first, and only if there is one by then.
PollJoinedFirst ==
    /\ plugin = "joining login" /\ ~Alive
    /\ plugin' = "joining poll"
    /\ UNCHANGED <<running, login, status, client, file, valid, polling, inbox, processing, typing>>

StopJoinsLogin ==
    /\ plugin = "joining login" /\ phase = "ended"
    /\ plugin' = "joining poll"
    /\ UNCHANGED <<running, login, status, client, file, valid, polling, inbox, processing, typing>>

StopJoinsPoll ==
    /\ plugin = "joining poll" /\ ~Alive
    /\ plugin' = "stopped" /\ poll' = "none"
    /\ UNCHANGED <<running, login, status, client, file, valid, errors, buf, batch, published,
                   inbox, processing, typing>>

\* Loaded again after stop(), or the process died and starts again.
Restart ==
    /\ plugin' = "started" /\ running' = TRUE
    /\ phase' = "load" /\ attempt' = 0 /\ qr' = "none" /\ refreshes' = 0 /\ scanned' = FALSE
    /\ status' = "uninitialized" /\ client' = FALSE
    /\ poll' = "none" /\ errors' = 0 /\ buf' = -1 /\ batch' = <<>> /\ published' = <<>>
    /\ processing' = {} /\ typing' = [k \in Slots |-> NoTask]
    /\ UNCHANGED <<file, valid, inbox>>

LoginThread ==
    \/ LoadSaved \/ NoneSaved \/ SessionEnds \/ PollJoined \/ LoginThreadEnds
    \/ LoginFails \/ AsksAgain \/ Pauses

PollThread ==
    \/ Polls \/ PollReturns \/ PollMisread \/ PollTimesOut \/ PollRefused \/ PollFails
    \/ Publish \/ StartTyping \/ BatchDone

Next ==
    \/ LoginThread \/ PollThread
    \/ QrFetched \/ QrScanned \/ QrConfirmed \/ QrExpires \/ ShowStatus
    \/ \E k \in Slots : Types(k) \/ TypingEnds(k)
    \/ \E u \in Users : UserWrites(u) \/ Answer(u)
    \/ TokenExpires \/ Stop \/ StopJoinsLogin \/ StopJoinsPoll \/ Restart

Spec == Init /\ [][Next]_vars

TaskStep(k) == Types(k) \/ TypingEnds(k)

\* Every request ends within a minute, an attempt within eight; the server refuses
\* an expired token in the end, and says so in ret.
FairSpec ==
    /\ Spec
    /\ WF_vars(LoginThread) /\ WF_vars(PollThread) /\ SF_vars(PollRefused)
    /\ \A k \in Slots : WF_vars(TaskStep(k))
    /\ WF_vars(StopJoinsLogin) /\ WF_vars(StopJoinsPoll)

----------------------------------------------------------------------------
\* Properties

\* When stop() has returned, the plugin manager unmaps the library: by then no thread
\* may be left in it, wherever the flag found the login and the poll.
StoppedMeansQuiet == plugin = "stopped" => phase = "ended" /\ poll = "none"

\* The buf is taken over before its messages are handled, polls fail and time out in
\* between, and yet the messages are published one after the other: none is left out
\* and none comes twice, as long as the server names a position.  When it names none,
\* the next poll starts over, and what comes then is the server's affair.
NothingSkipped == \A i \in 1..(Len(published) - 1) : published[i + 1] = published[i] + 1

\* stop() returns, although it waits for whatever the two threads are doing.
StopReturns == (plugin = "joining login") ~> (plugin # "joining login" /\ plugin # "joining poll")

\* TODO.md:18: error -14 is noticed, the saved token is removed and the bot asks for a
\* login.  An expired token does not stay unnoticed on the poll's way round its errors.
ExpiryIsNoticed ==
    (status = "online" /\ ~valid) ~> (status = "uninitialized" \/ ~running \/ (~file /\ ~client))

\* The position is kept when an answer names none, as the SDK's own stream of updates
\* does (ilink_sdk/messaging/receive.rs:172)?
PositionKept == [][Alive /\ Alive' /\ buf # -1 => buf' # -1]_vars

\* TODO.md:9: the QR login is done.  Does a confirmed code bring the bot online?
ConfirmedLogsIn == (qr = "confirmed" /\ running) ~> (status = "online" \/ ~running)

=============================================================================
