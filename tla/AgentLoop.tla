----------------------------- MODULE AgentLoop -----------------------------
(***************************************************************************)
(* AgentLoopActor (main-app/src/agent_loop_actor.rs): the actor that owns  *)
(* the table of goal-driven loops, one runner task per loop, the mailbox   *)
(* through which a runner reports, and the SQLite table that survives the  *)
(* process.                                                                *)
(*                                                                         *)
(* The actor handles one message at a time, so every handler is one        *)
(* action.  A runner is an async task on the same thread: what it does     *)
(* between two awaits is one action, and API calls may land at any await.  *)
(* Messages of one runner reach the actor in the order they were sent; a   *)
(* handler touches only the loop its message names, so one queue per loop  *)
(* keeps every order that matters.                                         *)
(*                                                                         *)
(* Left out: goals, plans, observation texts, events, metrics, tool        *)
(* payloads.  SQLite statements that are issued succeed; opening the       *)
(* database may fail, and the actor then runs without persistence.         *)
(***************************************************************************)
EXTENDS Integers, Sequences, FiniteSets

CONSTANTS
    LoopIds,          \* fresh uuids, each used once
    MaxConcurrent,    \* AGENT_LOOP_MAX_CONCURRENT, 0 = no limit
    MaxKeep,          \* AGENT_LOOP_MAX_KEEP
    MaxStepsCap,      \* MAX_STEPS_CAP
    MaxToolRoundsCap, \* MAX_TOOL_ROUNDS_CAP
    StepRequests,     \* the max_steps a caller may ask for
    RoundRequests,    \* the max_tool_rounds a caller may ask for
    DurationLimited,  \* AGENT_LOOP_MAX_DURATION_SECS > 0
    MaxPauses,        \* bound on accepted pauses
    MaxCrashes        \* bound on process restarts

ASSUME ConstantsAssumption ==
    /\ IsFiniteSet(LoopIds)
    /\ MaxConcurrent \in Nat /\ MaxKeep \in Nat
    /\ MaxStepsCap \in Nat \ {0} /\ MaxToolRoundsCap \in Nat
    /\ StepRequests \subseteq Nat /\ RoundRequests \subseteq Nat
    /\ DurationLimited \in BOOLEAN
    /\ MaxPauses \in Nat /\ MaxCrashes \in Nat

VARIABLES
    loops,      \* the actor's HashMap: each id's snapshot, or Absent
    stopFlag,   \* Arc<AtomicBool> shared by the actor and the runner
    pauseFlag,  \* Arc<AtomicBool> shared by the actor and the runner
    budget,     \* the clamped max_steps and max_tool_rounds of each loop
    runner,     \* where each runner task is
    expired,    \* the runner's wall clock has passed the duration limit
    mailbox,    \* AgentLoopProgress messages of each runner, oldest first
    db,         \* the agent_loops table
    persist,    \* whether this process could open the database
    newer,      \* <<a, b>>: a's updated_at_ms is later than b's
    pauses,     \* accepted pauses so far
    crashes     \* restarts so far

vars == <<loops, stopFlag, pauseFlag, budget, runner, expired, mailbox, db,
          persist, newer, pauses, crashes>>

----------------------------------------------------------------------------
\* Data

Held     == {"running", "paused", "stopping"}
Terminal == {"completed", "stopped", "failed"}
Settled  == Terminal \cup {"waiting_for_user"}
Status   == Held \cup Settled
Active   == Held \cup {"waiting_for_user"}

\* What a step may end with: the five outcomes of status_from_decision.
Outcomes == {"running", "completed", "waiting_for_user", "failed", "stopped"}

Errors == {"none", "run", "interrupted"}

Snapshot == [status: Status \cup {"absent"}, steps_taken: Nat, observations: Nat,
             last: Outcomes \cup {"none"}, error: Errors]

NewSnapshot(status) ==
    [status |-> status, steps_taken |-> 0, observations |-> 0,
     last |-> "none", error |-> "none"]

Absent == NewSnapshot("absent")

\* AgentLoopProgress: step 0 stands for "no step in this message".
Progress == [step: Nat, outcome: Outcomes \cup {"none"},
             status: Outcomes, error: Errors]

Heartbeat(step, outcome) ==
    [step |-> step, outcome |-> outcome, status |-> "running", error |-> "none"]

Report(status, error) ==
    [step |-> 0, outcome |-> "none", status |-> status, error |-> error]

Locations == {"unborn", "top", "held", "llm", "tools", "exited"}

Runner == [pc: Locations, step: Nat, round: Nat]

Exited == [pc |-> "exited", step |-> 0, round |-> 0]

Known(id) == loops[id].status # "absent"
Live(id)  == runner[id].pc \in {"top", "held", "llm", "tools"}

ActiveIds(table) == {id \in LoopIds : table[id].status \in Active}
LiveIds == {id \in LoopIds : Live(id)}

\* clamp(low, cap) of the Rust standard library
Clamp(n, low, cap) == IF n < low THEN low ELSE IF n > cap THEN cap ELSE n

\* now_ms() written to updated_at_ms of every loop of ids
Touch(ids) ==
    {p \in newer : p[1] \notin ids /\ p[2] \notin ids}
        \cup (ids \X (LoopIds \ ids))

\* persist_loop after a change that leaves the table as `table`
Saved(table, id) == IF persist THEN [db EXCEPT ![id] = table[id]] ELSE db

\* Mutation: off by one at the limit.
CanStartOneMore(active) == MaxConcurrent = 0 \/ active <= MaxConcurrent

CanStartNewLoop(active) == MaxConcurrent = 0 \/ active < MaxConcurrent

TypeOK ==
    /\ loops \in [LoopIds -> Snapshot]
    /\ stopFlag \in [LoopIds -> BOOLEAN]
    /\ pauseFlag \in [LoopIds -> BOOLEAN]
    /\ budget \in [LoopIds -> [steps: Nat, rounds: Nat]]
    /\ runner \in [LoopIds -> Runner]
    /\ expired \in [LoopIds -> BOOLEAN]
    /\ mailbox \in [LoopIds -> Seq(Progress)]
    /\ db \in [LoopIds -> Snapshot]
    /\ persist \in BOOLEAN
    /\ newer \in SUBSET (LoopIds \X LoopIds)
    /\ pauses \in Nat
    /\ crashes \in Nat

Init ==
    /\ loops = [id \in LoopIds |-> Absent]
    /\ stopFlag = [id \in LoopIds |-> FALSE]
    /\ pauseFlag = [id \in LoopIds |-> FALSE]
    /\ budget = [id \in LoopIds |-> [steps |-> 1, rounds |-> 0]]
    /\ runner = [id \in LoopIds |-> [pc |-> "unborn", step |-> 1, round |-> 0]]
    /\ expired = [id \in LoopIds |-> FALSE]
    /\ mailbox = [id \in LoopIds |-> <<>>]
    /\ db = [id \in LoopIds |-> Absent]
    /\ persist \in BOOLEAN
    /\ newer = {}
    /\ pauses = 0
    /\ crashes = 0

----------------------------------------------------------------------------
\* The actor's handlers

\* terminal_ids_to_prune: the sets that leave the MaxKeep most recently
\* updated terminal loops of a table.
TerminalIdsToPrune(table) ==
    LET terminal == {id \in LoopIds : table[id].status \in Terminal} IN
    {out \in SUBSET terminal :
        /\ Cardinality(terminal \ out) =
               IF Cardinality(terminal) <= MaxKeep THEN Cardinality(terminal)
                                                   ELSE MaxKeep
        /\ \A old \in out, kept \in terminal \ out : <<old, kept>> \notin newer}

\* prune_terminal: those loops leave the map, and the database if there is one.
Pruned(table, out) == [i \in LoopIds |-> IF i \in out THEN Absent ELSE table[i]]

\* start_loop_internal: admission, insertion, save, spawn, prune_terminal.
\* A rejected start changes nothing.
StartAgentLoop(id) ==
    /\ runner[id].pc = "unborn"
    /\ CanStartNewLoop(Cardinality(ActiveIds(loops)))
    /\ \E steps \in StepRequests, rounds \in RoundRequests :
           budget' = [budget EXCEPT ![id] =
                         [steps  |-> Clamp(steps, 1, MaxStepsCap),
                          rounds |-> Clamp(rounds, 0, MaxToolRoundsCap)]]
    /\ LET inserted == [loops EXCEPT ![id] = NewSnapshot("running")] IN
       \E out \in TerminalIdsToPrune(inserted) :
           /\ loops' = Pruned(inserted, out)
           /\ db' = IF persist THEN Pruned(Saved(inserted, id), out) ELSE db
    /\ runner' = [runner EXCEPT ![id].pc = "top"]
    /\ newer' = Touch({id})
    /\ UNCHANGED <<stopFlag, pauseFlag, expired, mailbox, persist, pauses, crashes>>

\* Handler<StopAgentLoop>: answers true for every id it knows.
StopAgentLoop(id) ==
    /\ Known(id)
    /\ stopFlag' = [stopFlag EXCEPT ![id] = TRUE]
    /\ IF loops[id].status = "running"
       THEN /\ loops' = [loops EXCEPT ![id].status = "stopping"]
            /\ newer' = Touch({id})
       ELSE UNCHANGED <<loops, newer>>
    /\ db' = Saved(loops', id)
    /\ UNCHANGED <<pauseFlag, budget, runner, expired, mailbox, persist, pauses, crashes>>

\* Handler<PauseAgentLoop>: only a running loop can be paused.
PauseAgentLoop(id) ==
    /\ loops[id].status = "running"
    /\ pauses < MaxPauses
    /\ pauseFlag' = [pauseFlag EXCEPT ![id] = TRUE]
    /\ loops' = [loops EXCEPT ![id].status = "paused"]
    /\ newer' = Touch({id})
    /\ db' = Saved(loops', id)
    /\ pauses' = pauses + 1
    /\ UNCHANGED <<stopFlag, budget, runner, expired, mailbox, persist, crashes>>

\* Handler<ResumeAgentLoop>: only a paused loop can be resumed.
ResumeAgentLoop(id) ==
    /\ loops[id].status = "paused"
    /\ pauseFlag' = [pauseFlag EXCEPT ![id] = FALSE]
    /\ loops' = [loops EXCEPT ![id].status = "running"]
    /\ newer' = Touch({id})
    /\ db' = Saved(loops', id)
    /\ UNCHANGED <<stopFlag, budget, runner, expired, mailbox, persist, pauses, crashes>>

\* Mutation: the heartbeat overwrites what was set from outside.
AppliedOverwriting(snap, msg) ==
    [status       |-> msg.status,
     steps_taken  |-> IF msg.step = 0 THEN snap.steps_taken ELSE msg.step,
     observations |-> IF msg.step = 0 THEN snap.observations
                                      ELSE snap.observations + 1,
     last         |-> IF msg.step = 0 THEN snap.last ELSE msg.outcome,
     error        |-> IF msg.error = "none" THEN snap.error ELSE msg.error]

\* The snapshot after a progress message; paused and stopping are not
\* overwritten by a heartbeat.
Applied(snap, msg) ==
    LET heldOutside == snap.status \in {"paused", "stopping"} IN
    [status       |-> IF heldOutside /\ msg.status = "running"
                      THEN snap.status ELSE msg.status,
     steps_taken  |-> IF msg.step = 0 THEN snap.steps_taken ELSE msg.step,
     observations |-> IF msg.step = 0 THEN snap.observations
                                      ELSE snap.observations + 1,
     last         |-> IF msg.step = 0 THEN snap.last ELSE msg.outcome,
     error        |-> IF msg.error = "none" THEN snap.error ELSE msg.error]

\* Handler<AgentLoopProgress>; a message of a loop no longer in the table is
\* dropped.
AgentLoopProgress(id) ==
    /\ mailbox[id] # <<>>
    /\ mailbox' = [mailbox EXCEPT ![id] = Tail(@)]
    /\ IF Known(id)
       THEN /\ loops' = [loops EXCEPT ![id] = Applied(@, Head(mailbox[id]))]
            /\ newer' = Touch({id})
            /\ db' = Saved(loops', id)
       ELSE UNCHANGED <<loops, newer, db>>
    /\ UNCHANGED <<stopFlag, pauseFlag, budget, runner, expired, persist, pauses, crashes>>

----------------------------------------------------------------------------
\* The runner task (AgentLoopRunner::run and run_step)

actorVars == <<loops, stopFlag, pauseFlag, budget, db, persist, newer, pauses, crashes>>

\* Mutation: the final status ignores a stop that arrived during the step.
FinishIgnoringStop(id, sent, status, error) ==
    /\ mailbox' = [mailbox EXCEPT ![id] = @ \o sent \o <<Report(status, error)>>]
    /\ runner' = [runner EXCEPT ![id] = Exited]

\* Mutation: the final report carries the request, not the result.
FinishStopping(id, sent, status, error) ==
    /\ mailbox' = [mailbox EXCEPT ![id] = @ \o sent \o
                     <<Report(IF stopFlag[id] THEN "stopping" ELSE status, error)>>]
    /\ runner' = [runner EXCEPT ![id] = Exited]

\* Leave the for loop: a stop request overrides the final status, and the
\* final report follows the messages `sent` before it.
Finish(id, sent, status, error) ==
    /\ mailbox' = [mailbox EXCEPT ![id] = @ \o sent \o
                     <<Report(IF stopFlag[id] THEN "stopped" ELSE status, error)>>]
    /\ runner' = [runner EXCEPT ![id] = Exited]

BeginStep(id) ==
    /\ runner' = [runner EXCEPT ![id].pc = "llm", ![id].round = 0]
    /\ UNCHANGED mailbox

\* `for step_index in 1..=max_steps` is exhausted: final_status still has its
\* initial value.
RunnerExhausts(id) ==
    /\ runner[id].pc = "top"
    /\ runner[id].step > budget[id].steps
    /\ Finish(id, <<>>, "completed", "none")
    /\ UNCHANGED <<actorVars, expired>>

\* Mutation: the pause flag is not looked at between steps.
RunnerSkipsPause(id) ==
    /\ runner[id].pc = "top"
    /\ runner[id].step <= budget[id].steps
    /\ \/ stopFlag[id] /\ Finish(id, <<>>, "stopped", "none")
       \/ ~stopFlag[id] /\ expired[id] /\ Finish(id, <<>>, "failed", "run")
       \/ ~stopFlag[id] /\ ~expired[id] /\ BeginStep(id)
    /\ UNCHANGED <<actorVars, expired>>

\* Top of an iteration: stop, then the duration limit, then the pause flag,
\* then the step.
RunnerEntersIteration(id) ==
    /\ runner[id].pc = "top"
    /\ runner[id].step <= budget[id].steps
    /\ \/ /\ stopFlag[id]
          /\ Finish(id, <<>>, "stopped", "none")
       \/ /\ ~stopFlag[id] /\ expired[id]
          /\ Finish(id, <<>>, "failed", "run")
       \/ /\ ~stopFlag[id] /\ ~expired[id] /\ pauseFlag[id]
          /\ runner' = [runner EXCEPT ![id].pc = "held"]
          /\ UNCHANGED mailbox
       \/ /\ ~stopFlag[id] /\ ~expired[id] /\ ~pauseFlag[id]
          /\ BeginStep(id)
    /\ UNCHANGED <<actorVars, expired>>

\* Mutation: the pause loop watches the pause flag alone.
RunnerWaitsForResume(id) ==
    /\ runner[id].pc = "held" /\ ~pauseFlag[id]
    /\ \/ stopFlag[id] /\ Finish(id, <<>>, "stopped", "none")
       \/ ~stopFlag[id] /\ BeginStep(id)
    /\ UNCHANGED <<actorVars, expired>>

\* The 200 ms poll of the pause loop finds the pause lifted or a stop.
RunnerLeavesPause(id) ==
    /\ runner[id].pc = "held"
    /\ \/ stopFlag[id] /\ Finish(id, <<>>, "stopped", "none")
       \/ ~stopFlag[id] /\ ~pauseFlag[id] /\ BeginStep(id)
    /\ UNCHANGED <<actorVars, expired>>

\* What run does with the outcome of a step.  Only the three statuses of the
\* match leave the loop; the next iteration may be preceded by a sleep.  A
\* failed outcome carries its reason, if it has one, as the error.
EndStep(id, outcome, reason) ==
    LET beat == Heartbeat(runner[id].step, outcome) IN
    IF outcome \in {"completed", "waiting_for_user", "failed"}
    THEN Finish(id, <<beat>>, outcome, IF outcome = "failed" THEN reason ELSE "none")
    ELSE /\ mailbox' = [mailbox EXCEPT ![id] = Append(@, beat)]
         /\ runner' = [runner EXCEPT ![id].pc = "top", ![id].step = @ + 1]

\* The LLM answers without tool calls and its decision ends the step.
LlmDecides(id) ==
    /\ runner[id].pc = "llm"
    /\ \E outcome \in Outcomes, reason \in {"none", "run"} :
           EndStep(id, outcome, reason)
    /\ UNCHANGED <<actorVars, expired>>

\* The LLM asks for tools: out of rounds the step fails, with a stop pending
\* it ends as stopped, otherwise the tools run.
LlmCallsTools(id) ==
    /\ runner[id].pc = "llm"
    /\ \/ /\ runner[id].round >= budget[id].rounds
          /\ EndStep(id, "failed", "run")
       \/ /\ runner[id].round < budget[id].rounds /\ stopFlag[id]
          /\ EndStep(id, "stopped", "none")
       \/ /\ runner[id].round < budget[id].rounds /\ ~stopFlag[id]
          /\ runner' = [runner EXCEPT ![id].pc = "tools"]
          /\ UNCHANGED mailbox
    /\ UNCHANGED <<actorVars, expired>>

\* execute_tool_calls returned, with results, errors or timeouts; the next
\* chat request is sent.
ToolsReturn(id) ==
    /\ runner[id].pc = "tools"
    /\ runner' = [runner EXCEPT ![id].pc = "llm", ![id].round = @ + 1]
    /\ UNCHANGED <<actorVars, expired, mailbox>>

\* A chat request failed: the error is reported once by itself and once more
\* in the final report.
LlmFails(id) ==
    /\ runner[id].pc = "llm"
    /\ Finish(id, <<Report("failed", "run")>>, "failed", "run")
    /\ UNCHANGED <<actorVars, expired>>

RunnerStep(id) ==
    \/ RunnerExhausts(id) \/ RunnerEntersIteration(id) \/ RunnerLeavesPause(id)
    \/ LlmDecides(id) \/ LlmCallsTools(id) \/ ToolsReturn(id) \/ LlmFails(id)

\* Wall-clock time passes the limit.
DeadlinePasses(id) ==
    /\ DurationLimited /\ Live(id) /\ ~expired[id]
    /\ expired' = [expired EXCEPT ![id] = TRUE]
    /\ UNCHANGED <<actorVars, runner, mailbox>>

----------------------------------------------------------------------------
\* The process dies and starts again (from_parts)

\* Mutation: stopping loops are not reconciled.
ReconciledExceptStopping(snap) ==
    IF snap.status \in {"running", "paused"}
    THEN [snap EXCEPT !.status = "failed",
                      !.error = IF @ = "none" THEN "interrupted" ELSE @]
    ELSE snap

\* reconcile_restored_status
Reconciled(snap) ==
    IF snap.status \in Held
    THEN [snap EXCEPT !.status = "failed",
                      !.error = IF @ = "none" THEN "interrupted" ELSE @]
    ELSE snap

\* Runners, mailboxes and flags die with the process; opened says whether the
\* new process could open the database.
Restart(opened) ==
    /\ crashes < MaxCrashes
    /\ crashes' = crashes + 1
    /\ persist' = opened
    /\ loops' = [id \in LoopIds |-> IF opened THEN Reconciled(db[id]) ELSE Absent]
    /\ db' = IF opened THEN loops' ELSE db
    /\ newer' = IF opened THEN Touch({id \in LoopIds : db[id].status \in Held})
                          ELSE newer
    /\ runner' = [id \in LoopIds |->
                     IF runner[id].pc = "unborn" THEN runner[id] ELSE Exited]
    /\ mailbox' = [id \in LoopIds |-> <<>>]
    /\ stopFlag' = [id \in LoopIds |-> FALSE]
    /\ pauseFlag' = [id \in LoopIds |-> FALSE]
    /\ expired' = [id \in LoopIds |-> FALSE]
    /\ UNCHANGED <<budget, pauses>>

----------------------------------------------------------------------------

Next ==
    \/ \E id \in LoopIds :
          \/ StartAgentLoop(id) \/ StopAgentLoop(id)
          \/ PauseAgentLoop(id) \/ ResumeAgentLoop(id)
          \/ AgentLoopProgress(id) \/ RunnerStep(id) \/ DeadlinePasses(id)
    \/ \E opened \in BOOLEAN : Restart(opened)

Spec == Init /\ [][Next]_vars

\* Tasks that can run are polled, mailboxes are drained, and every chat or
\* tool call returns.  API calls and crashes are not fair.
Fairness == \A id \in LoopIds :
    WF_vars(RunnerStep(id)) /\ WF_vars(AgentLoopProgress(id))

FairSpec == Spec /\ Fairness

----------------------------------------------------------------------------
\* Properties

\* A loop with a live runner is in the table and shown running, paused or
\* stopping: it is never evicted, shown as finished, or lost while a task
\* still spends LLM calls on it.
LiveLoopsAreHeld ==
    \A id \in LoopIds : Live(id) => loops[id].status \in Held

\* AGENT_LOOP_MAX_CONCURRENT bounds the runner tasks themselves, although
\* admission only counts the statuses the table shows.
ConcurrencyBound ==
    MaxConcurrent # 0 => Cardinality(LiveIds) <= MaxConcurrent

\* A loop shown as held has a runner, or that runner's last report is still
\* on its way: neither a restart nor a race leaves a loop that nobody works
\* for and nobody will settle.
NoZombieLoops ==
    \A id \in LoopIds :
        /\ loops[id].status \in Held
        /\ ~Live(id)
        => /\ mailbox[id] # <<>>
           /\ mailbox[id][Len(mailbox[id])].status \in Settled

\* The flags a live runner obeys and the status the API shows agree, so that
\* Resume, which insists on "paused", can always release a waiting runner,
\* and "stopping" is only shown when the runner has been told to stop.
FlagsMatchStatus ==
    \A id \in LoopIds : Live(id) =>
        /\ pauseFlag[id] <=> loops[id].status = "paused"
        /\ loops[id].status = "stopping" => stopFlag[id]

\* With persistence on, the table on disk is the table in memory after every
\* handler, so a crash at any moment loses nothing the API has shown.
DbMirrorsMemory == persist => db = loops

\* A loop dropped from memory and disk never comes back: not by a late
\* progress message of its runner, nor by a restart, nor by reuse of its id.
NoResurrection ==
    [][\A id \in LoopIds :
          /\ runner[id].pc # "unborn"
          /\ loops[id] = Absent /\ db[id] = Absent
          => loops'[id] = Absent /\ db'[id] = Absent]_vars

BeginsStep(id) == runner[id].pc \in {"top", "held"} /\ runner'[id].pc = "llm"

\* A runner begins a step only while the API shows the loop as running: a
\* pause or stop the API has acknowledged holds at the next step boundary.
StepsBeginOnlyWhileRunning ==
    [][\A id \in LoopIds : BeginsStep(id) => loops[id].status = "running"]_vars

\* A stop accepted while the runner is alive ends with the loop shown as
\* stopped, whatever the step in flight decides, unless the process restarts.
StopTakesEffect ==
    \A id \in LoopIds, c \in 0..MaxCrashes :
        Live(id) /\ stopFlag[id] /\ crashes = c
            ~> loops[id].status = "stopped" \/ crashes > c

\* A loop is held forever only if it was left paused and nobody asked it to
\* stop: step and tool-round budgets end every other loop.
HeldForeverMeansPaused ==
    \A id \in LoopIds :
        <>[](loops[id].status \in Held)
            => <>[](loops[id].status = "paused" /\ ~stopFlag[id])

\* AgentLoop implements the client's view of it.
Lifecycle == INSTANCE LoopLifecycle WITH
    Ids     <- LoopIds,
    Limit   <- MaxConcurrent,
    status  <- [id \in LoopIds |-> loops[id].status],
    working <- LiveIds,
    born    <- {id \in LoopIds : runner[id].pc # "unborn"}

\* The statuses the API shows, the live tasks and the ids in use only move as
\* the abstract life cycle allows.
ImplementsLifecycle == Lifecycle!LifecycleSpec

----------------------------------------------------------------------------
\* What the documents say and the code does not do

\* README.md: the total duration is checked between steps and a loop over it
\* is marked failed, so no step begins after the limit.
NoStepPastDeadline ==
    [][\A id \in LoopIds : BeginsStep(id) => ~expired[id]]_vars

\* A stop the API answered with "stopping" eventually frees the loop's place
\* among the running ones.
StopFreesSlot ==
    \A id \in LoopIds : stopFlag[id] ~> loops[id].status \notin Active
=============================================================================
