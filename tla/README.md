# BN_agent: TLA+ models and proofs

BN_agent is a personal agent: messenger plugins bring messages of several
peers, an LLM answers them, tools act, goal-driven loops run in the background.
All actors of `main-app` (actix) share one thread, so a handler runs to its next
`await` undisturbed; plugins have threads of their own.  Everything hard happens
*between* two awaits or two locks: other messages, other turns of the same peer,
a late answer, the end of the process.  These modules model that, TLC checks
them on small instances, and TLAPS proves the central invariants for every value
of the constants.

## 1. Inventory

| Component | State | Operations | What is hard | What makes it correct |
|---|---|---|---|---|
| `AgentLoopActor`, `AgentLoopRunner` (agent_loop_actor.rs) | table of loops, two shared flags per loop, SQLite rows | start, stop, pause, resume, list; the runner's steps and reports; prune; restore | API calls land at any await of a runner; late reports; pruning; restarts | a live runner is held, obeys its flags, ends when stopped; no zombie, no resurrection; places are bounded |
| `RetryActor` (retry_actor.rs) | circuit state, failure count, saved row | admit or reject, attempt, back off, settle | overlapping requests settle in any order; two clocks; restart | trips only on failure, closes only on success, survives a crash, every request ends |
| `ChatStoreActor` (chat_store.rs) | `chat_history`, `chat_sessions`, `owner_binding` | append, prune, bind the owner, summary batch and update, clear | compactions read, wait for an LLM and write | the summary skips nothing and repeats nothing |
| `PipelineActor` (pipeline.rs) | none but its tasks' locals | `process_message`: limits, snapshots, LLM, tool loop, store, reply | turns of one or several peers overlap and share a list, a history, a mailbox | contexts of the right peer; a history the chat API accepts; what was said is remembered |
| `LlmActor` (llm_actor.rs) | configuration | chat request, stream, persistence, compaction | half of the persistence is here, half in the pipeline | as above |
| `EventBus`, `TextStreamState` (plugin-interface) | subscribers; buffers and marks per request | publish; push and flush of sentences; mark and take | chunks of overlapping, broken and retried answers; a limit of marks | an answer is shown in pieces or as a whole, never both |
| `MessageRouter` (message_router.rs) | channels seen | register, route | replies to channels never seen | a reply reaches the peer it is for |
| IM plugins (Telegram, Feishu, WeChat) | current chat, stream state, typing | show sentences, show whole answers, typing, send tools | "the chat that wrote last" is not the chat that is answered | as above |
| WeChat session (wechat-claw-plugin) | flag, two threads, session file, buf, typing tasks | load, log in by QR code, poll, publish, type, stop | `stop()` joins two threads of which one starts the other; polls fail and expire | quiet after `stop()`, messages in order, an expired token is noticed |
| `PluginManager`, `ToolRegistry`, `tool_exec` | loaded libraries, tool table, calls on a thread pool | load, unload, reload, scan, call with a timeout | a load is a future; owned tools are a difference of names; a timed out tool goes on | no tool leads into an unloaded plugin |
| `ProactivePlugin` | reminders, idle timers and counters per peer | schedule, cancel, poll, reset | drawn times are kept, redrawn and snoozed; windows and midnights | idle triggers keep their distance and their limit; a reminder fires |
| `MemoryPlugin` | memories per peer, buffers | buffer, extract, supersede, archive, adopt | extractions of several peers write with ids an LLM made up | peers apart; outdated facts lead to current ones |
| `TokenUsageActor`, `RateLimitActor` | usage rows, token bucket | check, record, refill | check and use are apart | rate in every span; a bounded overshoot |
| `CancellationActor`, `MetricsActor`, HTTP API, Claude backend | | | | not modelled, see section 8 |
| other plugins (WebRTC, audio, images, video, toys, MCP, skills, TUI) | | one call out, one result in | | not modelled, see section 8 |

Interactions: IM plugins publish `user.message` on the `EventBus`; the
`PipelineActor` spawns a turn; the turn asks the limits, then the `PluginManager`
for snapshots and the `RetryActor` for an answer, which asks the `LlmActor`,
which reads and writes the `ChatStoreActor` and publishes the stream piece by
piece; the turn runs tools from the `ToolRegistry`, writes the tool chain to the
store and publishes `route.message`; the `MessageRouter` turns that into
`assistant.message` for the IM plugins.  The proactive plugin begins turns with
`proactive.trigger`, the memory plugin listens to the same events.  An agent loop
calls the LLM and the tools the same way, from a task of its own.

## 2. Modules

| Module | Models | Run | Proved in |
|---|---|---|---|
| `LoopLifecycle` | what a client may rely on of one loop: the abstract specification | `agent_loop_fleet` (`ImplementsLifecycle`) | `AgentLoop_proof` |
| `AgentLoop` | `AgentLoopActor` with all its runners, mailboxes, database and restarts | `agent_loop`, `agent_loop_fleet` | `AgentLoop_proof` |
| `RetryBreaker` | `RetryActor` | `breaker` | `LlmGates_proof` |
| `ChatStore` | `ChatStoreActor` and the compactions of `LlmActor` | `chat_store` | `ChatStore_proof` |
| `Pipeline` | turns of `process_message`, `LlmActor`'s part of them, the store's mailbox; instantiates `ChatStore` | `pipeline`, `pipeline_isolation` | `Pipeline_proof` |
| `Delivery` | an answer on its way: stream, `EventBus`, `MessageRouter`, `TextStreamState`, three IM plugins | `delivery` | `Delivery_proof` |
| `PluginRegistry` | `PluginManager`, `ToolRegistry`, `tool_exec` | `plugins` | `Plugins_proof` |
| `Proactive` | `ProactivePlugin` | `proactive` | `Proactive_proof` |
| `WechatSession` | login thread, poll thread and `stop()` of the WeChat plugin | `wechat` | `WechatSession_proof` |
| `Memory` | `MemoryPlugin` and its table | `memory` | `Plugins_proof` |
| `Admission` | `RateLimitActor`, `TokenUsageActor` and the turns between them | `admission` | `LlmGates_proof` |

`MC*` modules give TLC its sets and symmetries; each `.cfg` is one run.
Definitions above others that begin with "Mutation:" are plausible mistakes; they
take no part in a specification and serve to see each property fail.

### AgentLoop

`loops` is the actor's map (`Absent` for an id without an entry), `db` the
SQLite table, `stopFlag` and `pauseFlag` the two `AtomicBool`s, `runner` the
place of each task in its code, `mailbox` the `AgentLoopProgress` messages on
their way.  Handlers are actions of their names.  A runner's action is what it
does between two awaits: `RunnerEntersIteration`, `RunnerLeavesPause`,
`LlmDecides`, `LlmCallsTools`, `ToolsReturn`, `LlmFails`, `EndStep`, `Finish`.
Updates of the same millisecond (ties in `updated_at_ms`) are not modelled; the
200 ms sleep between steps is merged with the top of the next one.  An agent
loop's own refresh of the snapshots is left out here.

### RetryBreaker

One record per request (`stage`, attempts left, whether it is a probe), the
circuit, the count of failures, `cooling` for the process clock and the saved
row with the wall clock.  A restart may change the threshold and may find no
database.

### ChatStore

`rows` is `chat_history`, ids are never reused (`AUTOINCREMENT`), `session` the
summary columns, where a text is replaced by the set of ids it was made from.
`job` is what a compaction task has read.  The module relies on `OwnerBound`: a
compaction is started by a chat request, which has bound the owner before.
`Pipeline` discharges that (`ImplementsStore`).  `KeepRecent` is
`LLM_LONG_SUMMARY_KEEP_RECENT`, the newest rows a compaction leaves alone; what is
sent verbatim goes by another setting, `IMMEDIATE_CONTEXT_MSGS`, which is `Window`
of `Pipeline`.

### Pipeline

`turn[t]` holds the locals of one `process_message`; `mail` is the part of the
store's mailbox filled by `do_send`.  Requests to the store queue behind it, so
a read waits until `mail` is empty.  `LlmAnswers` stores what `LlmActor` stores
and spawns a compaction, `Finish` stores what the pipeline stores.  A scheduled
and an idle trigger differ only in the marker `[NO_PROACTIVE]`, so one kind of
turn stands for both.  `rounds` is `LLM_MAX_TOOL_ROUNDS`, which the code takes as it
is, zero included; the outcome "cut" is an answer that called a tool where no
round is allowed: it is sent, and stored by neither actor.

### Delivery

`turn[r]` is one answer of the LLM, from the message or trigger it answers
through `stream_llm` (`StreamChunk`, `StreamBreaks`, `StreamCloses`), a second
attempt under the same id (`StreamAgain`), to the reply, the silence or the
apology.  `routerMail` and `imMail` are what the `EventBus` has handed to the
router and to `PluginManager`, which shows each event to every plugin.
`buffer` and `streamed` are `TextStreamState`'s, `channels` the router's, and
`current`, `typing`, `loops` the plugins'.  `ShowChunk` and `ShowRest` are
`push_chunk` and `flush` with what the plugin sends; `TakeStreamed` drops a whole
answer whose mark is found; the three plugins' `...Answers` differ in the chat
they write to, in whether `silent` counts, and in what they split.  A text is
counted (no, one or more visible characters; the end of a sentence or not),
never spelt.  `shown` and `evicted` remember what was shown and which marks were
dropped.

### PluginRegistry

`table` maps names to loaded instances, `owned` is `tool_names` of an instance,
`registry` says whose executor each tool name has.  `LoadPlugin` asks for a load
that `LoadRuns` does later; a scan loads file after file (`ScanNext`);
`ReloadPlugin` removes the old instance at once and asks for the new one, which
comes later or not at all; a start may fail after it registered (`StartFails`).
`call` is a tool call on the blocking pool: queued, running, and whether its
caller has given up.  `image_describe`, which the pipeline runs on the actors'
thread and without the timeout, is none of these calls.  `clash` remembers names
registered twice or left behind, by which the code itself loses track.

### Proactive

`tasks` are the reminders, `peers` the `PeerActivity`s, `target` the peer that
the scheduling tools will file under.  Time is relative: waits count down, ages
count up to the longest wait they are compared with, the clock goes round a day;
so one unit passing is `Pass`, and one poll of everything under the lock `Tick`.
`Jittered` is `jitter_duration`: any value of its range.  `windows` is what the
process has read of its time windows, some of which, those across midnight,
contain no time at all; `fate` remembers what became of the reminder last filed
in a slot: fired, cancelled because its peer wrote, or lost in a restart.

### WechatSession

`phase` is the place of the login thread, `poll` that of the poll thread, which
the login thread starts; `plugin` how far `stop()` has come.  `buf`, `batch` and
`published` are positions of messages, so their order can be told.  An answer that
names no position leaves an empty buf (`Fetched`), and so does a refusal that is
read as an answer (`PollMisread`); which messages come after a poll with the empty
buf is the server's affair, and `published` starts anew there.  `typing`
holds the tasks on the poll thread's runtime, which die with it.  A confirmed QR
login is modelled as what the code makes of it, an error.

### Memory

`rows` is the table, an id the place in it.  `count` stands for the buffer of
a peer, `offered` for an extraction under way and what it was given.
`StoreFacts` folds `StoreOne` (upsert, find, supersede) over an answer and
archives; `DiesStoring` stops anywhere in between, each statement being a
transaction of its own, after a supersede as well as after an upsert, and nothing
but the restart follows (`down`).  `Backfill` adopts rows from before there were peers.

### Admission

`tokens` is the bucket, `mail` the mailbox of `TokenUsageActor`, `recorded` its
rows by age.  A turn takes a token and sends a check (`Begin`), the check passes
or not (`HandleMail`), each answer sends a record (`Answer`).  `OthersSpend` are
agent loops and the chat API, which record and never ask.

## 3. Runs

All runs but one find their properties to hold.  State counts are of distinct
states.

| Run | Question | Bounds | States |
|---|---|---|---|
| `agent_loop` | do steering and running of a loop ever contradict each other, and does every stop and every spent budget take effect? | one loop, two steps, one tool round, two pauses, the duration limit, a restart with or without its database | 34 thousand |
| `agent_loop_fleet` | is a loop lost, doubled or resurrected, and does the whole implement the life cycle a client sees? | three loops, two places, one kept terminal row, a restart | 1.4 million |
| `breaker` | does it trip for nothing, survive a crash, and does every request end? | three requests, threshold 1 or 3, two attempts, a restart | 70 thousand |
| `chat_store` | does the summary skip or repeat a message? | two compactions, two peers, pruning at 4, window 2, up to 6 rows of which 2 are older than the peer column | 233 thousand |
| `pipeline` | does the history stay true and acceptable, and is the store used as it assumes? | two turns of one or two peers, a limit of two tool rounds or of none, a window of 3 rows that cuts chains, a chain of an older version, compactions, restarts | 349 thousand |
| `pipeline_isolation` | are the contexts of a request those of its peer? | two turns of two peers | violated |
| `delivery` | is an answer shown twice, to the wrong user, or not at all? | two answers, one of which may be a trigger's, one piece in each of two attempts, four chats on three platforms, one mark per plugin | 1.2 million |
| `plugins` | do tools lead into what is loaded, and does each plugin own its own? | two plugins in three libraries that share a tool name and take one of the host's, four instances, two calls on one thread | 1.2 million |
| `proactive` | are idle triggers too early or too many, and does a reminder fire? | two peers of which one is followed, one reminder, a day of four units, a window that is half of it or none that opens, one trigger a day | 170 thousand |
| `wechat` | does `stop()` return and leave nothing, is a message skipped, is expiry noticed? | two users, two messages, two typing tasks, two logins, one error borne, answers with and without a position | 205 thousand |
| `memory` | do outdated facts lead to current ones, and do peers' facts stay apart, is a message forgotten unread? | two peers, two facts, an extraction every two messages, three messages buffered at most, answers of two facts with any ids | 849 thousand |
| `admission` | does the rate hold in every span, and by how much is a budget exceeded? | two turns of two answers, a burst of two, two windows, answers of cost 0 to 2, a restart at any time | 2.6 million |

What a component's "it holds" excludes:

* `OneWayOnly` excepts requests whose mark was dropped for want of room
  (`TEXT_STREAM_MAX_TRACKED_REQUESTS`); `RepliesStayHome` excepts whole answers
  of Telegram, which go to the chat that wrote last; `ReplyIsShown` excepts
  answers of single characters only.
* `ToolsComeFromLoaded` excepts names in `clash`.
* `SuccessorsAreCurrent` lets a fact end in one that points to itself: the LLM
  reported it again with its own id as the superseded one.
* `DailyLimitHolds` holds between restarts; the count is not saved.
* `NothingSkipped` is about messages since the last poll with the empty buf: as long
  as the server names a position in every answer, that is the whole session.
* `RemindersFire` excepts reminders whose peer writes, or that a restart loses, and
  settings whose windows never open (`Opens`), where they wait for ever.
* `HistoryIsTrue` asks of an answer that was cut short only that its question is
  stored: the answer is not.
* `SummaryStaysBehindRecent` is about the `KeepRecent` newest rows, not about what is
  sent verbatim; the two are the same only if the settings are.
* `RequestsWellFormed` excepts a history that a crash has torn, or that an older
  version has left in parts (`torn`).

Bounds.  Two turns are enough for every race on the snapshot list, the mailbox
and the history, which are all pairwise; two rounds are the least in which a
result can be attributed to an earlier call, none at all the limit that cuts an
answer short.  Three loops and two places give
admission, eviction and a late report at once.  Three requests let one trip the
breaker, one succeed late and one probe.  Two compactions overlap in every way,
since each touches one session, once, at each end.  Two answers are the least
that can drop each other's mark, share a chat and broadcast; one piece in each
of two attempts already gives a sentence shown before a break and one after.
Three libraries let a name be loaded twice from one file, replaced from another
and clash with a second plugin.  Peers do not touch each other's timers, so one
is followed while two write and file reminders.  Besides a window from one to two
there is one across midnight; alone, it never opens.  Two messages can be
skipped or doubled; one error borne and one more is the whole count.  Two facts
can contradict each other in both directions and over again.  Two turns of two
answers with records on their way are every order of check, use and record.
`MaxRows`, `MaxPauses`, `MaxCrashes`, `Legacy`, `MaxCount`, `MaxLag`, `Others`
bound what would grow for ever, `Limits` and `Windows` the settings a process may
have read; in `pipeline` `MaxRows` is never reached.  That
run starts with a chain in the table; from an empty one it finishes too, and the
theorems are about both.

Fairness.  `AgentLoop`: weak fairness of each runner's next step and of the
handling of each loop's reports; the executor polls every ready task and an
actor handles its mailbox.  `RetryBreaker`: weak fairness of each request's
progress.  Both assume that a call to the LLM or to a tool returns; tools have
`TOOL_TIMEOUT_SECS`, the LLM client has no timeout, so this is an assumption on
the environment (see the hazards).  `Delivery`: both actors empty their
mailboxes and a typing thread wakes.  `WechatSession`: weak
fairness of the two threads, of the tasks and of the joins (each request has a
timeout); strong fairness of `PollRefused`, since a poll of an expired token may
also time out, fail, or be refused in a form that is not recognised, but not for
ever.  `Proactive`: time passes (weakly), and
a poll that is enabled again and again, as windows open and close, happens
(strongly): it comes every 5 seconds.  `ChatStore`, `Pipeline`, `PluginRegistry`,
`Memory` and `Admission` state safety only and assume no fairness.

### Where documents and code disagree

`pipeline_isolation` is the one that is run: `process_message` awaits the refresh
of a list all turns share and then copies it, so a request may carry the
memories of another peer.

The following statements are defined in the modules and false of the code.  To
see the course of events, name one in its module's `.cfg` in place of the
properties there, with `FairSpec` for those that lead to something.

| Statement | Module | What the code does |
|---|---|---|
| `NoStepPastDeadline` | `AgentLoop` | the limit is looked at before the pause wait: a loop resumed late begins one more step |
| `StopFreesSlot` | `AgentLoop` | a loop that waits for the user has no runner to see the flag, and stays `stopping` |
| `OneProbe` | `RetryBreaker` | in half-open every request is let through |
| `OpenForCooldown` | `RetryBreaker` | a request admitted before the trip succeeds late and closes the circuit |
| `ToolWorkRemembered` | `Pipeline` | when the LLM fails after tools have run, the chain is not stored |
| `ResultsMatchCalls` | `Pipeline` | results are matched by position, and one tool adds an extra result |
| `AnswersRemembered` | `Pipeline` | with `LLM_MAX_TOOL_ROUNDS` = 0 (pipeline.rs:270) an answer that calls a tool is sent and stored by neither actor: llm_actor.rs:670 leaves it to the pipeline, which stores the chains of rounds (:293) |
| `NotSentTwice` | `Pipeline` | with a larger `IMMEDIATE_CONTEXT_MSGS` than `LLM_LONG_SUMMARY_KEEP_RECENT` a request carries rows verbatim and in the summary (README.md:112, :114 describe the two); `NothingSentTwice` proves that it takes this |
| `MarkerNeverShown` | `Delivery` | with `IM_STREAM_CHUNKS` the marker of silence is streamed like any text (docs/proactive-plugin.md:59) |
| `ConfirmedLogsIn` | `WechatSession` | nothing stores the result of a confirmed QR login (plugins/wechat-claw-plugin/TODO.md:9) |
| `PositionKept` | `WechatSession` | an answer without `get_updates_buf` empties the position (client.rs:155, lib.rs:1033); the SDK's own stream keeps the last one (ilink_sdk/messaging/receive.rs:172) |
| `PutOffAndSent` | `Proactive` | a reminder is put off to the next window (lib.rs:889) and waits for ever if none opens: one across midnight contains no time (lib.rs:130) |
| `SupersededStaysVisible` | `Memory` | archiving goes by `created_at`, so an old fact is archived the moment it is superseded |

Met on the way and left out of the models or allowed by them:

* Agent loops: one whose steps run out without a decision is `completed`
  (docs/agent-loop.md:79 says the goal is reached, :83 that a spent budget
  fails).
* `RETRY_MAX_ATTEMPTS` is read and logged and has no effect; callers pass 3 and 2.
* Several parallel tool calls in one stream end up as the last of them.
* Reminders are filed under the peer that wrote last, and they and the daily
  count are lost at a restart.  A delay too large for the clock panics while the
  lock is held, after which the plugin does nothing more
  (proactive-plugin/src/lib.rs:487, :540).
* WeChat: a refusal with an `errcode` and no `ret` is read as an answer without
  messages, which also empties the position.
* Loading a name that is loaded drops the old instance without `stop`, and its
  tools stay; `StopAll` is sent by nobody.
* WeChat: more than five failed polls delete a session that is valid; `scanned`
  is never reset; a uid stays in `processing_users` if typing is not wanted any
  more; `stop()` waits for a login attempt that runs, minutes at worst.
* Feishu and WeChat pass over `silent`; an apology is dropped if a sentence of
  the broken answer was shown.
* The rate limit is one bucket for all (the README's table says per session), and
  is full after a restart, where records that were not handled are lost.
* Memory: messages during an extraction are not heard; a `stop` then loses the
  facts; without a timeout of the LLM a peer may be `extracting` for ever; one
  conflict makes the whole adoption of old rows fail.

## 4. What is proved

For every number of loops, turns, requests, peers, rows, plugins, calls, messages
and every limit:

* `AgentLoop_proof`: types (`TypeCorrect`); a live runner is in the table and held
  (`LiveLoopsHeld`), a held loop has a runner or its last report on the way
  (`NoZombies`), flags and status agree (`FlagsMatch`), memory and database agree
  (`DbMirrors`), places are bounded (`ConcurrencyBounded`), a step begins only in
  a running loop (`StepsBeginOnlyRunning`), a dropped loop never returns
  (`NoResurrections`), and the refinement `LifecycleImplemented`.  None of them is
  inductive by itself: whether a late report may change a status depends on what
  the runner that sent it has done since.  The invariant of `SafetyInvariant`
  therefore says for each stage of a runner what table, flags and mailbox of its
  loop look like.  The refinement needs two facts more (`RefinementInv`): an end
  that is on its way to the actor is the one the runner has reached, and what was
  found at a restart without a database is apart from what runs now.
* `LlmGates_proof`, about what stands between a turn and the LLM; it extends both
  modules, which is why the general names of `RetryBreaker` carry its own.
  `RetryBreaker`: types, `NeverTripsForNothing`, `CrashRestores`,
  `ClosesOnSuccess`.  The invariant relates the saved row to memory and the
  state to the failure count.  `Admission`: types, `RateIsKept`,
  `OvershootBounded`.  They speak of sums, so the module first proves what the
  recursive function behind `SumTo` is (`SumExists`, `SumsAgree`, `SumStep`) and
  from that, by induction over its argument, how a sum grows, changes, shifts and is bounded.
  `RateInv` adds to what was let through in a span the tokens that are left.
  `TurnsAreBounded` says that no turn has more on its way than a turn costs; it
  holds after a check because of `CheckIsLast`: a check is the last message of its
  turn in the mailbox, so everything the same place spent before is in the table
  when the check is handled.
* `ChatStore_proof`: types, and that the summary covers its cursor and stays
  behind the newest rows (`SummaryComplete`, `SummaryBehindRecent`), and that the
  cursor never moves back (`CursorMonotone`).  The invariant has to speak of
  what a compaction holds while its LLM call runs: base and batch together
  contain every foldable row up to any id of the batch, and none of the
  `KeepRecent` newest rows.  Pruning keeps it because the newest after an append
  are among the newest before it and the new ones; inheriting old rows keeps it because
  nothing is folded before the owner is bound.
* `Pipeline_proof`, in two parts.  First `PipelineImplementsStore`: a step of a
  turn is a step of `ChatStore` or leaves it alone.  The crux is `OwnerReady`:
  whoever may start a compaction has had the owner bound by its own request.  By
  this refinement the facts of `ChatStore_proof` hold of the whole
  (`PipelineSummaryComplete`, and the store's half of `PipelineTypeCorrect`);
  they are cited through an instance of that module and not proved again.  Then
  the history, `RequestsAreWellFormed` and `HistoryTellsTheTruth`.  A message may be
  on disk or in the mailbox, so the proof reads both as one log, in which a
  handled append moves nothing, pruning takes away a beginning, and a turn adds
  at the end.  On this log `ChainsWhole` says that the messages of a chain stand
  side by side (`Adjacent`), that a result has its calls before it unless these
  were cut off with everything older (`Anchored`), and that calls have their
  results (`Complete`); `WordsInv` says what is in the log at the outcome of each
  turn.  The rows of an older version have no peer until the first request binds
  the owner, who then has all there is (`OwnerInherits`): until that moment nothing
  can have been appended (`RowsInherited`), so no chain gets mixed with theirs.
  `NothingSentTwice` puts the two settings together: if the window is no larger than
  `KeepRecent`, what a request carries verbatim is not in its summary.
* `Delivery_proof`: types (`DeliveryTypeCorrect`), an answer is shown one way
  (`NeverShownTwice`), a reply comes home (`RepliesComeHome`).  All three go by the
  order of the events in the two queues, so the module begins with lemmas about
  taking from, appending to and joining queues, and sums up every action in one of
  five effects (`NextEffect`): a turn goes on and publishes what its stage says, the
  router registers or routes, a plugin takes the head of its queue, or a typing
  thread ends.  `MailInv`: an event is of a turn that has begun; a whole answer is
  the end of its turn, is routed once, and no piece of the stream comes after it.
  `HomeInv` adds that the router knows the platform of whoever waits for an answer,
  or has the message that registers it still ahead of the answer; so no reply of a
  user is broadcast (`ReplyHasOneTarget`).  `WayInv` says when a sentence that was
  shown needs its mark no longer (`AllShown`: the turn is over and nothing of it is
  on its way to this plugin), and that an apology without a request id, which no
  mark could stop, is for a stream that has not begun (`UntaggedUnseen`,
  `FreshUnseen`).
* `Proactive_proof`: types, `IdleTriggersSpaced`, `DailyLimitKept`.  When a trigger fires the
  code compares no ages, only the drawn time with now.  `DueInv` is what makes that
  right: what is left of a drawn time and the age it was drawn from add up to the
  shortest draw at least, through every message, snooze, trigger and unit of time,
  and although the ages stop counting at the longest wait.
* `Plugins_proof`, about `PluginRegistry` and `Memory`.  The registry: types, no
  two plugins own a tool together (`OwnersAlwaysAgree`), and a tool leads into a
  loaded plugin (`ToolsAlwaysFromLoaded`).  The two need each other: that
  unloading takes away no tool of another plugin follows from the first, and that
  a new plugin owns only what nobody has follows from all owned names being
  registered.  `Memory`: each fact once for each peer (`MemoryTypeCorrect`), peers
  stay apart (`PeersStayApart`: another peer's answer changes nothing, also while an
  extraction of one's own is under way), outdated facts lead to current ones
  (`SuccessorsHold`), and nothing is cleared that the LLM was not asked about
  (`NothingIsClearedUnseen`).  That the pointers close no circle is not inductive
  as it stands; what is, is that the outdated facts can be ranked (`Good`): a fact
  gets a rank above all others when it is superseded, and its successor was
  current at that moment, so that a successor that is outdated too has the higher
  rank.  Each operation on the table keeps a ranking, possibly another one
  (`UpsertGood`, `SupersedeGood`, `ArchiveGood`, `BackfillGood`, `OlderGood`), an
  answer by induction over the facts in it (`StoreEachGood`).  `EndIsReached` then
  counts: following the pointers gives a new fact each time, of which there are
  no more than rows.
* `WechatSession_proof`: types, `stop()` leaves no thread (`StoppedIsQuiet`), and
  nothing is skipped between two polls with the empty buf (`NothingIsSkipped`).
  `OrderInv` and `BatchInv` say how the
  end of what was published, the batch in hand and the buf fit together at each
  place of the poll thread; `StopInv` that the login thread, which alone starts a
  poll thread, stays ended once it has seen the flag.

Assumptions are the `ASSUME`s of the modules: numbers are naturals, and positive
where the code has a positive constant or clamps to one (attempts, steps, backoff,
snooze, threads) or takes zero for no limit; the limit of tool rounds, the window and the
retention may be zero.  The placeholder for "no peer" is no peer.

Only model-checked: liveness (`StopTakesEffect`, `HeldForeverMeansPaused`,
`RequestsEnd`, `ReplyIsShown`, `RemindersFire`, `StopReturns`,
`ExpiryIsNoticed`), which is out of the prover's reach.  Every safety property of
a passing run is a theorem.

## 5. Plan

1. `Delivery`: an abstract specification of one answer's way, and more than one
   event under way to each actor.

## 6. Reading order

`LoopLifecycle`, `AgentLoop`, `AgentLoop_proof`; then `RetryBreaker` and its
proof; then `ChatStore`, `Pipeline` and `Delivery`, which follow a message
through the system; the plugins (`PluginRegistry`, `WechatSession`, `Proactive`,
`Memory`) and `Admission` stand by themselves.

## 7. Running

    tlc -workers 2 -config AgentLoop.cfg MCAgentLoop.tla
    tlapm AgentLoop_proof.tla

The other runs are listed in `PROJECT.json`.  `agent_loop_fleet`, `delivery`,
`memory`, `pipeline` and `wechat` take one to three minutes, the others less.

## 8. Not modelled

Prompt texts, titles, previews, metrics and log lines; the HTTP API's parsing
and authentication; the requests and media of the platforms; device I/O (WebRTC,
audio, speech, toys, images, video), MCP and skills, which are tools with one
call out and one result in, an input of `Pipeline` and `AgentLoop`; the TUI;
`CancellationActor`, with which no request is ever registered; `MetricsActor`,
which nothing acts on; the fallbacks to other models for images and videos and
the Claude backend, which stand behind the same request; agent loop mode of the
proactive plugin, which publishes another event.  SQL statements that are issued
succeed.  A crash destroys everything in memory and nothing in SQLite.
