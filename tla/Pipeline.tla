------------------------------ MODULE Pipeline ------------------------------
(***************************************************************************)
(* A message on its way through PipelineActor (main-app/src/pipeline.rs),  *)
(* LlmActor (main-app/src/llm_actor.rs) and ChatStoreActor.                *)
(*                                                                         *)
(* Every message is a task of its own: process_message runs once per user  *)
(* message and per proactive trigger, any number of them at a time, also   *)
(* of one peer.  A task refreshes the plugins' snapshots for its peer,     *)
(* asks the LLM, runs the tools the answer calls, asks again with all the  *)
(* calls and results so far, and in the end writes the tool chain to the   *)
(* history and replies.  It appends with do_send, so an append is a        *)
(* message in the store's mailbox; the store reads in the same order.      *)
(*                                                                         *)
(* The store is the module ChatStore.  A message is a member of a small    *)
(* set: whose it is, what kind, and which call a tool message answers.     *)
(* Left out: images, videos and files, token counts and metrics, the       *)
(* retries of one LLM call (module RetryBreaker) and the streamed chunks.  *)
(***************************************************************************)
EXTENDS Integers, Sequences, FiniteSets

CONSTANTS
    Turns,       \* runs of process_message
    Earlier,     \* those of an older version
    Left,        \* bound on the messages it may have left, in their order
    Peers, Unbound, Keep, KeepRecent, BatchSize, Legacy, MaxRows,
    MaxRounds,   \* bound on the tool rounds of a turn
    Limits,      \* bound on LLM_MAX_TOOL_ROUNDS
    Window       \* IMMEDIATE_CONTEXT_MSGS

ASSUME PipelineAssumption ==
    /\ MaxRounds \in Nat /\ Limits \subseteq 0..MaxRounds /\ Window \in Nat
    /\ Unbound \notin Peers /\ Earlier \cap Turns = {}
    /\ Keep \in Nat /\ KeepRecent \in Nat /\ BatchSize \in Nat
    /\ Legacy \in Nat /\ MaxRows \in Nat

VARIABLES
    rounds,      \* LLM_MAX_TOOL_ROUNDS
    turn,        \* the local state of each process_message
    snapshots,   \* whose contexts are in the shared snapshot list
    mail,        \* appends waiting in the store's mailbox
    torn,        \* messages are lost, by a restart or from the start
    rows, lastId, owner, session, job

----------------------------------------------------------------------------
\* Data

\* user and text are the words of both sides; calls and tool are a tool chain
\* of n calls and the result of the n-th; empty is its end without a text.
Message ==
    [turn: Turns \cup Earlier, kind: {"user", "text", "empty"}, n: {0}]
    \cup [turn: Turns \cup Earlier, kind: {"calls", "tool"}, n: 1..MaxRounds]

Msg(t, k, n) == [turn |-> t, kind |-> k, n |-> n]

Foldable == {m \in Message : m.kind \in {"user", "text"}}

Store == INSTANCE ChatStore WITH Messages <- Message, Jobs <- Turns

storeVars == <<rows, lastId, owner, session, job>>
vars == <<rounds, turn, snapshots, mail, torn, storeVars>>

PeerIds == Peers \cup {Unbound}

\* A proactive turn is one of proactive.trigger: scheduled, or of an idle
\* session, whose answer may be the marker of silence.
Kinds == {"user", "proactive"}

Stages == {"none", "arrived", "refreshed", "asking", "waiting", "answered", "done"}

\* What became of a turn: refused and failed are answered with an apology; cut is
\* an answer that called a tool although no round is allowed at all; dropped is the
\* marker of an idle trigger, silent an answer without a text or one already sent
\* by a tool, lost a turn that ended without a word.
Outcomes ==
    {"none", "refused", "failed", "replied", "cut", "silent", "dropped", "lost", "crashed"}

\* What the last response of the LLM says and whether it calls a tool.
Contents == {"text", "empty", "marker"}

\* results: for each entry of all_tool_results the call it belongs to, 0 for
\* the automatic description of a generated image.
Turn ==
    [stage: Stages, kind: Kinds, peer: PeerIds, context: PeerIds,
     calls: 0..MaxRounds, results: Seq(0..MaxRounds), round: 0..MaxRounds,
     calling: BOOLEAN, content: Contents, sentViaIm: BOOLEAN,
     compact: BOOLEAN, outcome: Outcomes]

NewTurn(p, k) ==
    [stage |-> "arrived", kind |-> k, peer |-> p, context |-> Unbound, calls |-> 0,
     results |-> <<>>, round |-> 0, calling |-> FALSE, content |-> "empty",
     sentViaIm |-> FALSE, compact |-> FALSE, outcome |-> "none"]

\* defer_store and allow_tools
Proactive(t) == turn[t].kind # "user"

FollowUp(t) == turn[t].calls > 0

\* A turn that is over keeps none of its locals; what it was is remembered for
\* the properties.
Ended(t, outcome) ==
    [NewTurn(turn[t].peer, turn[t].kind) EXCEPT
        !.stage = "done", !.calls = turn[t].calls, !.compact = turn[t].compact,
        !.outcome = outcome]

TypeOK ==
    /\ rounds \in 0..MaxRounds
    /\ turn \in [Turns -> Turn]
    /\ snapshots \in PeerIds
    /\ \A t \in Turns : turn[t].stage # "none" => turn[t].peer \in Peers
    /\ mail \in Seq([peer: Peers, msg: Message])
    /\ torn \in BOOLEAN
    /\ Store!TypeOK

\* No chain of the table has lost a part.
WholeChains ==
    \A r \in rows :
       /\ r.msg.kind = "calls" =>
             \A i \in 1..r.msg.n :
                \E s \in rows : s.id = r.id + i /\ s.msg = Msg(r.msg.turn, "tool", i)
       /\ r.msg.kind = "tool" =>
             \E c \in rows : /\ c.id = r.id - r.msg.n /\ c.msg.turn = r.msg.turn
                            /\ c.msg.kind = "calls" /\ c.msg.n >= r.msg.n

ASSUME LeftAssumption ==
    \A h \in Left : h \in Seq(Message) /\ \A i \in DOMAIN h : h[i].turn \in Earlier

Init ==
    /\ rounds \in Limits
    /\ turn = [t \in Turns |-> [NewTurn(Unbound, "user") EXCEPT !.stage = "none"]]
    /\ snapshots = Unbound
    /\ mail = <<>>
    /\ Store!Init
    /\ \E h \in Left : rows = {[id |-> i, peer |-> Unbound, msg |-> h[i]] : i \in DOMAIN h}
    /\ torn = ~WholeChains

\* The appends of a turn, in the order of their do_send.
Mailed(t, ms) == mail' = mail \o [i \in DOMAIN ms |-> [peer |-> turn[t].peer, msg |-> ms[i]]]

----------------------------------------------------------------------------
\* A turn

\* HandleUserMessage, or an event of the topic user.message or
\* proactive.trigger: process_message is spawned.
Receive(t, p, k) ==
    /\ turn[t].stage = "none"
    /\ turn' = [turn EXCEPT ![t] = NewTurn(p, k)]
    /\ UNCHANGED <<rounds, snapshots, mail, torn, storeVars>>

\* Rate limited, or the token budget is used up.
Refuse(t) ==
    /\ turn[t].stage = "arrived"
    /\ turn' = [turn EXCEPT ![t] = Ended(t, "refused")]
    /\ UNCHANGED <<rounds, snapshots, mail, torn, storeVars>>

\* PluginManager handles RefreshSnapshotsForPeer: it refills the one list all
\* turns share.
RefreshSnapshots(t) ==
    /\ turn[t].stage = "arrived"
    /\ snapshots' = turn[t].peer
    /\ turn' = [turn EXCEPT ![t].stage = "refreshed"]
    /\ UNCHANGED <<rounds, mail, torn, storeVars>>

\* The turn goes on after the await and clones the list.
ReadContexts(t) ==
    /\ turn[t].stage = "refreshed"
    /\ turn' = [turn EXCEPT ![t].stage = "asking", ![t].context = snapshots]
    /\ UNCHANGED <<rounds, snapshots, mail, torn, storeVars>>

\* Mutation: the owner is not bound before the history is read.
LlmReadsOnly(t) ==
    /\ turn[t].stage = "asking"
    /\ mail = <<>>
    /\ turn' = [turn EXCEPT ![t].stage = "waiting"]
    /\ UNCHANGED <<rounds, snapshots, mail, torn, storeVars>>

\* LlmActor handles ChatRequest: EnsureOwnerPeer, GetChatLongSummary and
\* FetchRecent wait behind the appends sent before; then the LLM is called.
LlmReads(t) ==
    /\ turn[t].stage = "asking"
    /\ mail = <<>>
    /\ Store!EnsureOwnerPeer(turn[t].peer)
    /\ turn' = [turn EXCEPT ![t].stage = "waiting"]
    /\ UNCHANGED <<rounds, snapshots, mail, torn>>

\* What LlmActor stores of a response: nothing when skip_store is set, else the
\* words of the user, and those of the assistant unless a tool is called.
StoredByLlm(t, calling, content) ==
    IF FollowUp(t) \/ Proactive(t) THEN <<>>
    ELSE <<Msg(t, "user", 0)>> \o
         IF ~calling /\ content # "empty" THEN <<Msg(t, "text", 0)>> ELSE <<>>

\* A response calls at most one tool (stream_llm keeps the last of several) and
\* none when none was offered; only a trigger is answered with the marker.
MayAnswer(t, calling, content) ==
    /\ calling => ~Proactive(t)
    /\ content = "marker" => Proactive(t)

\* The LLM answers.  After a plain answer that is stored a compaction of the
\* peer's history is spawned.
LlmAnswers(t, calling, content) ==
    /\ turn[t].stage = "waiting"
    /\ MayAnswer(t, calling, content)
    /\ turn' = [turn EXCEPT ![t].stage = "answered",
                            ![t].calling = calling,
                            ![t].content = content,
                            ![t].round = IF FollowUp(t) THEN @ + 1 ELSE @,
                            ![t].compact = @ \/ ~(calling \/ FollowUp(t) \/ Proactive(t))]
    /\ Mailed(t, StoredByLlm(t, calling, content))
    /\ UNCHANGED <<rounds, snapshots, torn, storeVars>>

\* All retries failed or the circuit is open.  A first request is answered with
\* an error; after a tool round the loop just ends, storing nothing.
LlmFails(t) ==
    /\ turn[t].stage = "waiting"
    /\ turn' = [turn EXCEPT ![t] = Ended(t, IF FollowUp(t) THEN "lost" ELSE "failed")]
    /\ UNCHANGED <<rounds, snapshots, mail, torn, storeVars>>

\* Mutation: the limit is checked one round too late.
MoreToolsOneMore(t) == turn[t].calling /\ turn[t].round <= rounds

\* The tool loop goes round once more.
MoreTools(t) == turn[t].calling /\ turn[t].round < rounds

\* The called tool returns or times out; the result joins all_tool_results and
\* the LLM is asked again.  A tool of an IM plugin has spoken to the user
\* itself; generate_image may push a description of the image as well.
ToolReturns(t, what) ==
    /\ turn[t].stage = "answered"
    /\ MoreTools(t)
    /\ LET call == turn[t].calls + 1 IN
       turn' = [turn EXCEPT ![t].stage = "asking",
                            ![t].calls = call,
                            ![t].results = @ \o IF what = "described" THEN <<call, 0>>
                                                                      ELSE <<call>>,
                            ![t].sentViaIm = @ \/ what = "sent"]
    /\ UNCHANGED <<rounds, snapshots, mail, torn, storeVars>>

\* The reply to an idle trigger that asks for silence.
Dropped(t) == Proactive(t) /\ turn[t].content = "marker"

\* The assistant's calls, one result per call by position, and the final text.
Chain(t) ==
    <<Msg(t, "calls", turn[t].calls)>>
    \o [i \in 1..turn[t].calls |-> Msg(t, "tool", i)]
    \o <<Msg(t, IF turn[t].content = "empty" THEN "empty" ELSE "text", 0)>>

\* Mutation: only tool chains are stored, the text of a proactive turn is not.
StoredChainOnly(t) == IF turn[t].round > 0 THEN Chain(t) ELSE <<>>

\* What the pipeline stores when the loop ends: the chain, or the text of a
\* proactive turn, whose request told LlmActor to store nothing.
StoredByPipeline(t) ==
    IF turn[t].round > 0 THEN Chain(t)
    ELSE IF Proactive(t) /\ turn[t].content # "empty" /\ ~Dropped(t)
         THEN <<Msg(t, "text", 0)>> ELSE <<>>

\* A call for which there is no round at all: neither actor stores the answer,
\* LlmActor because of the call, the pipeline because no round was run.
CutShort(t) == rounds = 0 /\ turn[t].calling

\* No tool is called or the rounds are used up: store and reply.
Finish(t) ==
    /\ turn[t].stage = "answered"
    /\ ~MoreTools(t)
    /\ Mailed(t, StoredByPipeline(t))
    /\ LET silent == turn[t].content = "empty" \/ turn[t].sentViaIm IN
       turn' = [turn EXCEPT ![t] = Ended(t, IF Dropped(t) THEN "dropped"
                                            ELSE IF silent THEN "silent"
                                            ELSE IF CutShort(t) THEN "cut" ELSE "replied")]
    /\ UNCHANGED <<rounds, snapshots, torn, storeVars>>

----------------------------------------------------------------------------
\* The store's mailbox, compactions, restarts

\* ChatStoreActor handles the next AppendJsonMessage.
StoreHandles ==
    /\ mail # <<>>
    /\ Store!AppendMessage(Head(mail).peer, Head(mail).msg)
    /\ mail' = Tail(mail)
    /\ UNCHANGED <<rounds, turn, snapshots, torn>>

\* The spawned compaction asks the store for a batch.
BeginCompaction(t) ==
    /\ turn[t].compact
    /\ mail = <<>>
    /\ turn' = [turn EXCEPT ![t].compact = FALSE]
    /\ \/ Store!FetchLongSummaryBatch(t, turn[t].peer)
       \/ Store!Batch(turn[t].peer) = {} /\ UNCHANGED storeVars
    /\ UNCHANGED <<rounds, snapshots, mail, torn>>

EndCompaction(t) ==
    /\ (mail = <<>> /\ Store!UpdateLongSummary(t)) \/ Store!CompactionFails(t)
    /\ UNCHANGED <<rounds, turn, snapshots, mail, torn>>

\* The process dies and starts again: turns and mail are gone.
Restart(clear) ==
    /\ turn' = [t \in Turns |->
                   IF turn[t].stage \in {"none", "done"}
                   THEN [turn[t] EXCEPT !.compact = FALSE]
                   ELSE [Ended(t, "crashed") EXCEPT !.compact = FALSE]]
    /\ snapshots' = Unbound
    /\ mail' = <<>>
    /\ torn' = (torn \/ clear \/ mail # <<>>)
    /\ UNCHANGED rounds
    /\ Store!Reopen(clear)

TurnStep(t) ==
    \/ RefreshSnapshots(t) \/ ReadContexts(t) \/ LlmReads(t)
    \/ \E calling \in BOOLEAN, content \in Contents : LlmAnswers(t, calling, content)
    \/ LlmFails(t)
    \/ \E what \in {"plain", "sent", "described"} : ToolReturns(t, what)
    \/ Finish(t)

Next ==
    \/ \E t \in Turns :
          \/ \E p \in Peers, k \in Kinds : Receive(t, p, k)
          \/ Refuse(t) \/ TurnStep(t) \/ BeginCompaction(t) \/ EndCompaction(t)
    \/ StoreHandles
    \/ \E clear \in BOOLEAN : Restart(clear)

Spec == Init /\ [][Next]_vars

----------------------------------------------------------------------------
\* What the LLM is sent

\* Mutation: results whose calls are out of the window are sent too.
HistoryUnfiltered(p) == Store!Newest(Store!PeerRows(p), Window)

\* FetchRecent, without the tool messages before the first calls.
History(p) ==
    LET recent == Store!Newest(Store!PeerRows(p), Window) IN
    {r \in recent :
        r.msg.kind = "tool" => \E c \in recent : c.msg.kind = "calls" /\ c.id < r.id}

SameTurn(r, c) == r.msg.turn = c.msg.turn

----------------------------------------------------------------------------
\* Properties

\* The history is one the chat API accepts whenever it can be read: every tool
\* message follows its calls with only tool messages of that chain between, and
\* all calls are answered.  Turns of one peer overlap, the window cuts chains;
\* only a restart in the middle of the appends of a chain may break one.
RequestsWellFormed ==
    mail = <<>> /\ ~torn =>
    \A p \in Peers : \A r \in History(p) :
       /\ r.msg.kind = "tool" =>
             \E c \in History(p) :
                /\ c.msg.kind = "calls" /\ SameTurn(r, c) /\ c.id < r.id
                /\ \A s \in History(p) :
                      c.id < s.id /\ s.id < r.id => s.msg.kind = "tool" /\ SameTurn(s, r)
       /\ r.msg.kind = "calls" =>
             \A i \in 1..r.msg.n : \E s \in History(p) : s.msg = Msg(r.msg.turn, "tool", i)

\* On disk or on its way there.
Remembered(m) == (\E r \in rows : r.msg = m) \/ (\E i \in DOMAIN mail : mail[i].msg = m)

\* What a user was told is in the history, and what the user had asked before
\* it (retention off, nothing destroyed by a restart), whoever stores it.  Of an
\* answer that was cut short only the question is.
RepliesRemembered ==
    Keep = 0 /\ ~torn =>
    \A t \in Turns :
       /\ turn[t].outcome = "replied" => Remembered(Msg(t, "text", 0))
       /\ turn[t].outcome \in {"replied", "cut"} /\ ~Proactive(t) => Remembered(Msg(t, "user", 0))
       /\ \A r, s \in rows :
             r.msg = Msg(t, "text", 0) /\ s.msg = Msg(t, "user", 0) => s.id < r.id

\* An idle trigger that asked for silence leaves no message behind.
SilenceLeavesNoTrace ==
    \A t \in Turns : turn[t].outcome = "dropped" =>
       \A k \in {"user", "text", "empty"} : ~Remembered(Msg(t, k, 0))

\* What users were told and what the history says are the same.
HistoryIsTrue == RepliesRemembered /\ SilenceLeavesNoTrace

\* The store sees only what its specification allows: in particular no history
\* is folded before the owner has inherited the old rows.
ImplementsStore == Store!Spec

\* A request does not carry a message both verbatim and in the summary: so only
\* where IMMEDIATE_CONTEXT_MSGS is no more than LLM_LONG_SUMMARY_KEEP_RECENT, which
\* nothing in the code sees to.
NotSentTwice ==
    \A p \in Peers : \A r \in History(p) : r.id \notin session[p].folded

\* The contexts of a request are those of its peer.
ContextIsolated ==
    \A t \in Turns : turn[t].stage \in {"asking", "waiting"} => turn[t].context = turn[t].peer

\* A turn that has run a tool ends with the chain in the history.
ToolWorkRemembered ==
    \A t \in Turns : FollowUp(t) /\ turn[t].stage = "done" /\ turn[t].outcome # "crashed" /\ ~torn =>
       Remembered(Msg(t, "calls", turn[t].calls))

\* Every answer a user was told is in the history: not so for one that was cut
\* short (llm_actor.rs:670 leaves it to the pipeline, which stores chains only).
AnswersRemembered ==
    Keep = 0 /\ ~torn =>
    \A t \in Turns : turn[t].outcome \in {"replied", "cut"} => Remembered(Msg(t, "text", 0))

\* The results sent to the LLM are those of the calls, in the same order.
ResultsMatchCalls ==
    \A t \in Turns : turn[t].stage = "asking" =>
       \A i \in 1..turn[t].calls : turn[t].results[i] = i
=============================================================================
