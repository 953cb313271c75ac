-------------------------- MODULE AgentLoop_proof --------------------------
(***************************************************************************)
(* Proofs about AgentLoop, for any number of loops, any limits and any     *)
(* number of restarts: types, then the safety properties, then that it     *)
(* implements LoopLifecycle.                                               *)
(*                                                                         *)
(* None of the safety properties is inductive by itself: that a live loop  *)
(* is held depends on what is still in its mailbox, and that a held loop   *)
(* without a runner will be settled depends on the last message of the     *)
(* mailbox.  LoopInv says, for each stage of a runner's life, what the     *)
(* table, the flags and the mailbox of its loop look like.                 *)
(***************************************************************************)
EXTENDS AgentLoop, FiniteSetTheorems, SequenceTheorems, TLAPS

\* Moving a runner, or showing another status, keeps the types.
LEMMA RunnerMoveType ==
    ASSUME TypeOK, NEW id \in LoopIds, NEW pc \in Locations, NEW n \in Nat, NEW k \in Nat
    PROVE  /\ [runner EXCEPT ![id].pc = pc] \in [LoopIds -> Runner]
           /\ [runner EXCEPT ![id].pc = pc, ![id].round = n] \in [LoopIds -> Runner]
           /\ [runner EXCEPT ![id].pc = pc, ![id].step = n] \in [LoopIds -> Runner]
<1>1. runner \in [LoopIds -> Runner]
  BY DEF TypeOK
<1>2. \A r \in Runner : /\ [r EXCEPT !.pc = pc] \in Runner
                       /\ [[r EXCEPT !.pc = pc] EXCEPT !.round = n] \in Runner
                       /\ [[r EXCEPT !.pc = pc] EXCEPT !.step = n] \in Runner
  BY DEF Runner
<1>3. QED BY <1>1, <1>2

LEMMA StatusType ==
    ASSUME TypeOK, NEW id \in LoopIds, NEW status \in Status
    PROVE  [loops EXCEPT ![id].status = status] \in [LoopIds -> Snapshot]
<1>1. loops[id] \in Snapshot
  BY DEF TypeOK
<1>2. [loops[id] EXCEPT !.status = status] \in Snapshot
  BY <1>1 DEF Snapshot
<1>3. QED BY <1>2 DEF TypeOK

\* Leaving the for loop keeps the queue and the runner well typed.
LEMMA FinishType ==
    ASSUME TypeOK, NEW id \in LoopIds, NEW sent \in Seq(Progress),
           NEW status \in Outcomes, NEW error \in Errors,
           Finish(id, sent, status, error)
    PROVE  /\ mailbox' \in [LoopIds -> Seq(Progress)]
           /\ runner' \in [LoopIds -> Runner]
<1> DEFINE final == Report(IF stopFlag[id] THEN "stopped" ELSE status, error)
<1>1. final \in Progress
  BY DEF TypeOK, Report, Progress, Outcomes
<1>2. mailbox[id] \o sent \o <<final>> \in Seq(Progress)
  <2>1. mailbox[id] \in Seq(Progress)
    BY DEF TypeOK
  <2>2. <<final>> \in Seq(Progress)
    BY <1>1
  <2> HIDE DEF final
  <2>3. QED BY <2>1, <2>2
<1>3. Exited \in Runner
  BY DEF Exited, Runner, Locations
<1>4. QED
  BY <1>2, <1>3 DEF Finish, TypeOK

LEMMA BeginStepType ==
    ASSUME TypeOK, NEW id \in LoopIds, BeginStep(id)
    PROVE  /\ mailbox' \in [LoopIds -> Seq(Progress)]
           /\ runner' \in [LoopIds -> Runner]
<1>1. "llm" \in Locations /\ 0 \in Nat
  BY DEF Locations
<1>2. QED BY <1>1, RunnerMoveType DEF TypeOK, BeginStep

LEMMA EndStepType ==
    ASSUME TypeOK, NEW id \in LoopIds, NEW outcome \in Outcomes,
           NEW reason \in {"none", "run"}, EndStep(id, outcome, reason)
    PROVE  /\ mailbox' \in [LoopIds -> Seq(Progress)]
           /\ runner' \in [LoopIds -> Runner]
<1> DEFINE beat == Heartbeat(runner[id].step, outcome)
<1>1. beat \in Progress
  BY DEF TypeOK, Heartbeat, Progress, Outcomes, Errors, Runner
<1>2. CASE outcome \in {"completed", "waiting_for_user", "failed"}
  <2>1. <<beat>> \in Seq(Progress)
    BY <1>1
  <2>2. (IF outcome = "failed" THEN reason ELSE "none") \in Errors
    BY DEF Errors
  <2>3. Finish(id, <<beat>>, outcome, IF outcome = "failed" THEN reason ELSE "none")
    BY <1>2 DEF EndStep
  <2> HIDE DEF beat
  <2>4. QED BY <2>1, <2>2, <2>3, FinishType
<1>3. CASE outcome \notin {"completed", "waiting_for_user", "failed"}
  <2>1. Append(mailbox[id], beat) \in Seq(Progress)
    <3> HIDE DEF beat
    <3>1. QED BY <1>1 DEF TypeOK
  <2>2. mailbox' = [mailbox EXCEPT ![id] = Append(@, beat)]
    BY <1>3 DEF EndStep
  <2>3. mailbox' \in [LoopIds -> Seq(Progress)]
    <3> HIDE DEF beat
    <3>1. QED BY <2>1, <2>2 DEF TypeOK
  <2>4. runner' \in [LoopIds -> Runner]
    <3>1. runner' = [runner EXCEPT ![id].pc = "top", ![id].step = runner[id].step + 1]
      BY <1>3 DEF EndStep
    <3>2. runner[id].step + 1 \in Nat /\ "top" \in Locations
      BY DEF TypeOK, Runner, Locations
    <3>3. QED BY <3>1, <3>2, RunnerMoveType
  <2>5. QED BY <2>3, <2>4
<1>4. QED BY <1>2, <1>3

LEMMA TouchType ==
    ASSUME TypeOK, NEW ids \in SUBSET LoopIds
    PROVE  Touch(ids) \in SUBSET (LoopIds \X LoopIds)
  BY DEF TypeOK, Touch

LEMMA NewSnapshotType == \A s \in Status \cup {"absent"} : NewSnapshot(s) \in Snapshot
  BY DEF NewSnapshot, Snapshot, Errors

\* Every action of the actor and of a runner, and a restart, keep the types.
LEMMA TypePreserved == TypeOK /\ [Next]_vars => TypeOK'
<1> SUFFICES ASSUME TypeOK, [Next]_vars PROVE TypeOK'
  OBVIOUS
<1>1. ASSUME NEW id \in LoopIds, StartAgentLoop(id) PROVE TypeOK'
  <2>1. budget' \in [LoopIds -> [steps: Nat, rounds: Nat]]
    BY <1>1, ConstantsAssumption DEF StartAgentLoop, TypeOK, Clamp
  <2>2. loops' \in [LoopIds -> Snapshot] /\ db' \in [LoopIds -> Snapshot]
    <3>1. NewSnapshot("running") \in Snapshot /\ Absent \in Snapshot
      BY NewSnapshotType DEF Status, Held, Absent
    <3> DEFINE inserted == [loops EXCEPT ![id] = NewSnapshot("running")]
    <3>2. inserted \in [LoopIds -> Snapshot]
      BY <3>1 DEF TypeOK
    <3>3. Saved(inserted, id) \in [LoopIds -> Snapshot]
      <4> HIDE DEF inserted
      <4>1. QED BY <3>2 DEF Saved, TypeOK
    <3>4. PICK out \in TerminalIdsToPrune(inserted) :
              /\ loops' = [i \in LoopIds |-> IF i \in out THEN Absent ELSE inserted[i]]
              /\ db' = IF persist
                       THEN [i \in LoopIds |->
                               IF i \in out THEN Absent ELSE Saved(inserted, id)[i]]
                       ELSE db
      BY <1>1 DEF StartAgentLoop, Pruned
    <3> HIDE DEF inserted
    <3>5. QED BY <3>1, <3>2, <3>3, <3>4 DEF TypeOK
  <2>3. newer' \in SUBSET (LoopIds \X LoopIds)
    BY <1>1, TouchType DEF StartAgentLoop
  <2>4. runner' \in [LoopIds -> Runner]
    <3>1. "top" \in Locations /\ 0 \in Nat
      BY DEF Locations
    <3>2. QED BY <1>1, <3>1, RunnerMoveType DEF StartAgentLoop
  <2>5. QED
    BY <1>1, <2>1, <2>2, <2>3, <2>4 DEF StartAgentLoop, TypeOK
<1>2. ASSUME NEW id \in LoopIds, StopAgentLoop(id) PROVE TypeOK'
  <2>1. newer' \in SUBSET (LoopIds \X LoopIds)
    <3>1. Touch({id}) \in SUBSET (LoopIds \X LoopIds)
      BY TouchType
    <3>2. QED BY <1>2, <3>1 DEF StopAgentLoop, TypeOK
  <2>2. loops' \in [LoopIds -> Snapshot]
    <3>1. [loops EXCEPT ![id].status = "stopping"] \in [LoopIds -> Snapshot]
      BY StatusType DEF Status, Held
    <3>2. QED BY <1>2, <3>1 DEF StopAgentLoop, TypeOK
  <2>3. QED
    BY <1>2, <2>1, <2>2 DEF StopAgentLoop, TypeOK, Saved
<1>3. ASSUME NEW id \in LoopIds, PauseAgentLoop(id) PROVE TypeOK'
  <2>1. newer' \in SUBSET (LoopIds \X LoopIds)
    <3>1. Touch({id}) \in SUBSET (LoopIds \X LoopIds)
      BY TouchType
    <3>2. QED BY <1>3, <3>1 DEF PauseAgentLoop, TypeOK
  <2>2. loops' \in [LoopIds -> Snapshot]
    <3>1. [loops EXCEPT ![id].status = "paused"] \in [LoopIds -> Snapshot]
      BY StatusType DEF Status, Held
    <3>2. QED BY <1>3, <3>1 DEF PauseAgentLoop, TypeOK
  <2>3. db' \in [LoopIds -> Snapshot]
    BY <1>3, <2>2 DEF PauseAgentLoop, TypeOK, Saved
  <2>4. pauses' \in Nat
    BY <1>3 DEF PauseAgentLoop, TypeOK
  <2>5. pauseFlag' \in [LoopIds -> BOOLEAN]
    BY <1>3 DEF PauseAgentLoop, TypeOK
  <2>6. QED
    BY <1>3, <2>1, <2>2, <2>3, <2>4, <2>5 DEF PauseAgentLoop, TypeOK
<1>4. ASSUME NEW id \in LoopIds, ResumeAgentLoop(id) PROVE TypeOK'
  <2>1. newer' \in SUBSET (LoopIds \X LoopIds)
    <3>1. Touch({id}) \in SUBSET (LoopIds \X LoopIds)
      BY TouchType
    <3>2. QED BY <1>4, <3>1 DEF ResumeAgentLoop, TypeOK
  <2>2. loops' \in [LoopIds -> Snapshot]
    <3>1. [loops EXCEPT ![id].status = "running"] \in [LoopIds -> Snapshot]
      BY StatusType DEF Status, Held
    <3>2. QED BY <1>4, <3>1 DEF ResumeAgentLoop, TypeOK
  <2>3. QED
    BY <1>4, <2>1, <2>2 DEF ResumeAgentLoop, TypeOK, Saved
<1>5. ASSUME NEW id \in LoopIds, AgentLoopProgress(id) PROVE TypeOK'
  <2>1. newer' \in SUBSET (LoopIds \X LoopIds)
    <3>1. Touch({id}) \in SUBSET (LoopIds \X LoopIds)
      BY TouchType
    <3>2. QED BY <1>5, <3>1 DEF AgentLoopProgress, TypeOK
  <2>2. Head(mailbox[id]) \in Progress /\ Tail(mailbox[id]) \in Seq(Progress)
    BY <1>5 DEF AgentLoopProgress, TypeOK
  <2>3. Applied(loops[id], Head(mailbox[id])) \in Snapshot
    <3>1. loops[id] \in Snapshot
      BY DEF TypeOK
    <3>2. \A snap \in Snapshot, msg \in Progress : Applied(snap, msg) \in Snapshot
      BY DEF Applied, Snapshot, Progress, Status, Held, Settled, Terminal, Outcomes
    <3>3. QED BY <2>2, <3>1, <3>2
  <2>4. loops' \in [LoopIds -> Snapshot]
    BY <1>5, <2>3 DEF AgentLoopProgress, TypeOK
  <2>5. mailbox' \in [LoopIds -> Seq(Progress)]
    BY <1>5, <2>2 DEF AgentLoopProgress, TypeOK
  <2>6. QED
    BY <1>5, <2>1, <2>4, <2>5 DEF AgentLoopProgress, TypeOK, Saved
<1>6. ASSUME NEW id \in LoopIds, RunnerStep(id) PROVE TypeOK'
  <2>1. /\ mailbox' \in [LoopIds -> Seq(Progress)]
        /\ runner' \in [LoopIds -> Runner]
    <3>0. <<>> \in Seq(Progress) /\ <<Report("failed", "run")>> \in Seq(Progress)
      BY DEF Report, Progress, Outcomes, Errors
    <3>00. {"completed", "stopped", "failed"} \subseteq Outcomes
           /\ {"none", "run"} \subseteq Errors
      BY DEF Outcomes, Errors
    <3>1. CASE RunnerExhausts(id)
      BY <3>1, <3>0, <3>00, FinishType DEF RunnerExhausts
    <3>2. CASE RunnerEntersIteration(id)
      <4>1. CASE Finish(id, <<>>, "stopped", "none")
        BY <4>1, <3>0, <3>00, FinishType
      <4>2. CASE Finish(id, <<>>, "failed", "run")
        BY <4>2, <3>0, <3>00, FinishType
      <4>3. CASE runner' = [runner EXCEPT ![id].pc = "held"] /\ UNCHANGED mailbox
        BY <4>3 DEF TypeOK, Runner, Locations
      <4>4. CASE BeginStep(id)
        BY <4>4, BeginStepType
      <4>5. QED BY <3>2, <4>1, <4>2, <4>3, <4>4 DEF RunnerEntersIteration
    <3>3. CASE RunnerLeavesPause(id)
      BY <3>3, <3>0, <3>00, FinishType, BeginStepType DEF RunnerLeavesPause
    <3>4. CASE LlmDecides(id)
      BY <3>4, EndStepType DEF LlmDecides
    <3>5. CASE LlmCallsTools(id)
      <4>1. CASE EndStep(id, "failed", "run") \/ EndStep(id, "stopped", "none")
        BY <4>1, <3>00, EndStepType
      <4>2. CASE runner' = [runner EXCEPT ![id].pc = "tools"] /\ UNCHANGED mailbox
        BY <4>2 DEF TypeOK, Runner, Locations
      <4>3. QED BY <3>5, <4>1, <4>2 DEF LlmCallsTools
    <3>6. CASE ToolsReturn(id)
      <4>1. runner[id].round + 1 \in Nat /\ "llm" \in Locations
        BY DEF TypeOK, Runner, Locations
      <4>2. /\ runner' = [runner EXCEPT ![id].pc = "llm",
                                        ![id].round = runner[id].round + 1]
            /\ mailbox' = mailbox
        BY <3>6 DEF ToolsReturn
      <4>3. runner' \in [LoopIds -> Runner]
        BY <4>1, <4>2, RunnerMoveType
      <4>4. QED BY <4>2, <4>3 DEF TypeOK
    <3>7. CASE LlmFails(id)
      <4>1. Finish(id, <<Report("failed", "run")>>, "failed", "run")
        BY <3>7 DEF LlmFails
      <4>2. "failed" \in Outcomes /\ "run" \in Errors
        BY <3>00
      <4>3. QED BY <4>1, <4>2, <3>0, FinishType
    <3>8. QED
      BY <1>6, <3>1, <3>2, <3>3, <3>4, <3>5, <3>6, <3>7 DEF RunnerStep
  <2>2. UNCHANGED <<actorVars, expired>>
    BY <1>6 DEF RunnerStep, RunnerExhausts, RunnerEntersIteration, RunnerLeavesPause,
                LlmDecides, LlmCallsTools, ToolsReturn, LlmFails
  <2>3. QED BY <2>1, <2>2 DEF TypeOK, actorVars
<1>7. ASSUME NEW id \in LoopIds, DeadlinePasses(id) PROVE TypeOK'
  BY <1>7 DEF DeadlinePasses, TypeOK, actorVars
<1>8. ASSUME NEW opened \in BOOLEAN, Restart(opened) PROVE TypeOK'
  <2>1. \A snap \in Snapshot : Reconciled(snap) \in Snapshot
    BY DEF Reconciled, Snapshot, Status, Settled, Terminal, Errors
  <2>2. loops' \in [LoopIds -> Snapshot]
    BY <1>8, <2>1, NewSnapshotType DEF Restart, TypeOK, Absent
  <2>3. newer' \in SUBSET (LoopIds \X LoopIds)
    <3>1. {i \in LoopIds : db[i].status \in Held} \in SUBSET LoopIds
      OBVIOUS
    <3>2. QED BY <1>8, <3>1, TouchType DEF Restart, TypeOK
  <2>4. runner' \in [LoopIds -> Runner]
    BY <1>8 DEF Restart, TypeOK, Exited, Runner, Locations
  <2>5. mailbox' \in [LoopIds -> Seq(Progress)]
    BY <1>8 DEF Restart
  <2>6. QED
    BY <1>8, <2>2, <2>3, <2>4, <2>5, ConstantsAssumption DEF Restart, TypeOK
<1>9. CASE UNCHANGED vars
  BY <1>9 DEF TypeOK, vars
<1>10. QED
  BY <1>1, <1>2, <1>3, <1>4, <1>5, <1>6, <1>7, <1>8, <1>9 DEF Next

\* TypeOK holds in every reachable state: counters stay natural numbers,
\* mailboxes hold progress messages only, and the table never shows a status
\* the API does not name.
THEOREM TypeCorrect == Spec => []TypeOK
<1>1. Init => TypeOK
  BY ConstantsAssumption, NewSnapshotType
     DEF Init, TypeOK, Absent, Runner, Locations
<1>2. QED BY <1>1, TypePreserved, PTL DEF Spec

----------------------------------------------------------------------------
\* Safety

\* Before the loop is admitted there is no trace of it.
Fresh(id) ==
    /\ loops[id] = Absent /\ db[id] = Absent
    /\ mailbox[id] = <<>>
    /\ ~pauseFlag[id]

\* While the runner lives, the table shows what the flags say, and only
\* heartbeats are on their way.
Steered(id) ==
    /\ loops[id].status \in Held
    /\ pauseFlag[id] <=> loops[id].status = "paused"
    /\ loops[id].status = "stopping" => stopFlag[id]
    /\ \A i \in 1..Len(mailbox[id]) : mailbox[id][i].status = "running"

\* Once it has exited, the loop is settled or will be by the last message.
Reporting(id) ==
    IF mailbox[id] = <<>> THEN loops[id].status \notin Held
    ELSE mailbox[id][Len(mailbox[id])].status \in Settled

LoopInvAt(id) ==
    /\ runner[id].pc = "unborn" => Fresh(id)
    /\ Live(id) => Steered(id)
    /\ runner[id].pc = "exited" => Reporting(id)

LoopInv == \A id \in LoopIds : LoopInvAt(id)

SafetyInv == TypeOK /\ LoopInv /\ DbMirrorsMemory

----------------------------------------------------------------------------
\* Taking the head of a queue keeps its last element, unless that was it.
LEMMA TailKeepsLast ==
    ASSUME NEW S, NEW q \in Seq(S), q # <<>>
    PROVE  /\ Len(q) \in Nat /\ Len(q) >= 1
           /\ Head(q) = q[1] /\ Tail(q) \in Seq(S)
           /\ Len(Tail(q)) = Len(q) - 1
           /\ \A i \in 1..Len(Tail(q)) : Tail(q)[i] = q[i + 1]
           /\ Len(q) = 1 => Tail(q) = <<>>
           /\ Len(q) > 1 => Tail(q) # <<>> /\ Tail(q)[Len(Tail(q))] = q[Len(q)]
<1>1. /\ Len(q) \in Nat /\ Len(q) >= 1
      /\ Head(q) = q[1] /\ Tail(q) \in Seq(S)
      /\ Len(Tail(q)) = Len(q) - 1
      /\ \A i \in 1..Len(Tail(q)) : Tail(q)[i] = q[i + 1]
  OBVIOUS
<1>2. ASSUME Len(q) = 1 PROVE Tail(q) = <<>>
  <2>1. \A t \in Seq(S) : t # <<>> => Len(t) \in Nat \ {0}
    BY EmptySeq
  <2>2. Len(Tail(q)) = 0
    BY <1>1, <1>2
  <2>3. QED BY <1>1, <2>1, <2>2
<1>3. ASSUME Len(q) > 1
      PROVE  Tail(q) # <<>> /\ Tail(q)[Len(Tail(q))] = q[Len(q)]
  <2>1. Len(Tail(q)) \in 1..Len(Tail(q)) /\ Len(Tail(q)) + 1 = Len(q)
    BY <1>1, <1>3
  <2>2. QED BY <1>1, <2>1
<1>4. QED BY <1>1, <1>2, <1>3

\* What an action does to the loops it does not name, and how it leaves them.

LEMMA Frame ==
    ASSUME NEW id \in LoopIds, LoopInvAt(id),
           loops'[id] = loops[id], db'[id] = db[id], mailbox'[id] = mailbox[id],
           stopFlag'[id] = stopFlag[id], pauseFlag'[id] = pauseFlag[id],
           runner'[id] = runner[id]
    PROVE  LoopInvAt(id)'
  BY DEF LoopInvAt, Fresh, Steered, Reporting, Live

LEMMA FinishReports ==
    ASSUME TypeOK, NEW id \in LoopIds, NEW sent \in Seq(Progress),
           NEW status \in Settled, NEW error \in Errors,
           Finish(id, sent, status, error)
    PROVE  LoopInvAt(id)'
<1> DEFINE final == Report(IF stopFlag[id] THEN "stopped" ELSE status, error)
<1>1. final \in Progress /\ final.status \in Settled
  BY DEF TypeOK, Report, Progress, Outcomes, Settled, Terminal
<1>2. mailbox'[id] = (mailbox[id] \o sent) \o <<final>> /\ runner'[id] = Exited
  BY DEF Finish, TypeOK
<1> HIDE DEF final
<1>3. mailbox[id] \o sent \in Seq(Progress)
  BY DEF TypeOK
<1>4. /\ mailbox'[id] # <<>>
      /\ mailbox'[id][Len(mailbox'[id])] = final
  BY <1>1, <1>2, <1>3
<1>5. QED
  BY <1>1, <1>2, <1>4 DEF LoopInvAt, Reporting, Live, Exited

\* Every step of a runner keeps the invariant of its own loop.
LEMMA RunnerStepKeepsLoop ==
    ASSUME TypeOK, NEW id \in LoopIds, LoopInvAt(id), RunnerStep(id)
    PROVE  LoopInvAt(id)'
<1>0. UNCHANGED <<actorVars, expired>>
  BY DEF RunnerStep, RunnerExhausts, RunnerEntersIteration, RunnerLeavesPause,
         LlmDecides, LlmCallsTools, ToolsReturn, LlmFails
<1>1. Live(id)
  BY DEF RunnerStep, RunnerExhausts, RunnerEntersIteration, RunnerLeavesPause,
         LlmDecides, LlmCallsTools, ToolsReturn, LlmFails, Live
<1>2. Steered(id)
  BY <1>1 DEF LoopInvAt
<1>3. ASSUME mailbox' = mailbox, runner'[id].pc \in {"top", "held", "llm", "tools"}
      PROVE  LoopInvAt(id)'
  BY <1>0, <1>2, <1>3 DEF actorVars, LoopInvAt, Steered, Live
<1>4. <<>> \in Seq(Progress) /\ <<Report("failed", "run")>> \in Seq(Progress)
  BY DEF Report, Progress, Outcomes, Errors
<1>5. /\ {"completed", "stopped", "failed", "waiting_for_user"} \subseteq Settled
      /\ {"none", "run"} \subseteq Errors
  BY DEF Settled, Terminal, Errors
<1>6. ASSUME NEW outcome \in Outcomes, NEW reason \in {"none", "run"},
             EndStep(id, outcome, reason)
      PROVE  LoopInvAt(id)'
  <2> DEFINE beat == Heartbeat(runner[id].step, outcome)
  <2>1. beat \in Progress /\ beat.status = "running"
    BY DEF TypeOK, Heartbeat, Progress, Outcomes, Errors, Runner
  <2>2. CASE outcome \in {"completed", "waiting_for_user", "failed"}
    <3>1. <<beat>> \in Seq(Progress)
      BY <2>1
    <3>2. (IF outcome = "failed" THEN reason ELSE "none") \in Errors
      BY DEF Errors
    <3>3. Finish(id, <<beat>>, outcome, IF outcome = "failed" THEN reason ELSE "none")
      BY <1>6, <2>2 DEF EndStep
    <3>4. outcome \in Settled
      BY <2>2, <1>5
    <3> HIDE DEF beat
    <3>5. QED BY <3>1, <3>2, <3>3, <3>4, FinishReports
  <2>3. CASE outcome \notin {"completed", "waiting_for_user", "failed"}
    <3>1. mailbox'[id] = Append(mailbox[id], beat) /\ runner'[id].pc = "top"
      BY <1>6, <2>3 DEF EndStep, TypeOK, Runner
    <3>2. mailbox[id] \in Seq(Progress)
      BY DEF TypeOK
    <3> HIDE DEF beat
    <3>3. \A i \in 1..Len(mailbox'[id]) : mailbox'[id][i].status = "running"
      BY <1>2, <2>1, <3>1, <3>2 DEF Steered
    <3>4. QED
      BY <1>0, <1>2, <3>1, <3>3 DEF actorVars, LoopInvAt, Steered, Live
  <2>4. QED BY <2>2, <2>3
<1>7. ASSUME BeginStep(id) PROVE LoopInvAt(id)'
  BY <1>3, <1>7 DEF BeginStep, TypeOK, Runner
<1>8. CASE RunnerExhausts(id)
  BY <1>8, <1>4, <1>5, FinishReports DEF RunnerExhausts
<1>9. CASE RunnerEntersIteration(id)
  <2>1. CASE Finish(id, <<>>, "stopped", "none")
    BY <2>1, <1>4, <1>5, FinishReports
  <2>2. CASE Finish(id, <<>>, "failed", "run")
    BY <2>2, <1>4, <1>5, FinishReports
  <2>3. CASE runner' = [runner EXCEPT ![id].pc = "held"] /\ UNCHANGED mailbox
    BY <2>3, <1>3 DEF TypeOK, Runner
  <2>4. CASE BeginStep(id)
    BY <2>4, <1>7
  <2>5. QED BY <1>9, <2>1, <2>2, <2>3, <2>4 DEF RunnerEntersIteration
<1>10. CASE RunnerLeavesPause(id)
  BY <1>10, <1>4, <1>5, <1>7, FinishReports DEF RunnerLeavesPause
<1>11. CASE LlmDecides(id)
  BY <1>11, <1>6 DEF LlmDecides
<1>12. CASE LlmCallsTools(id)
  <2>1. CASE EndStep(id, "failed", "run") \/ EndStep(id, "stopped", "none")
    BY <2>1, <1>6 DEF Outcomes
  <2>2. CASE runner' = [runner EXCEPT ![id].pc = "tools"] /\ UNCHANGED mailbox
    BY <2>2, <1>3 DEF TypeOK, Runner
  <2>3. QED BY <1>12, <2>1, <2>2 DEF LlmCallsTools
<1>13. CASE ToolsReturn(id)
  <2>1. mailbox' = mailbox /\ runner'[id].pc = "llm"
    BY <1>13 DEF ToolsReturn, TypeOK, Runner
  <2>2. QED BY <2>1, <1>3
<1>14. CASE LlmFails(id)
  <2>1. Finish(id, <<Report("failed", "run")>>, "failed", "run")
    BY <1>14 DEF LlmFails
  <2>2. "failed" \in Settled /\ "run" \in Errors
    BY <1>5
  <2>3. QED BY <2>1, <2>2, <1>4, FinishReports
<1>15. QED
  BY <1>8, <1>9, <1>10, <1>11, <1>12, <1>13, <1>14 DEF RunnerStep

\* A runner touches nothing but its own place and its own mailbox.
LEMMA RunnerStepFrames ==
    ASSUME TypeOK, NEW id \in LoopIds, RunnerStep(id)
    PROVE  /\ UNCHANGED <<actorVars, expired>>
           /\ Live(id)
           /\ \A j \in LoopIds \ {id} : runner'[j] = runner[j] /\ mailbox'[j] = mailbox[j]
<1>1. UNCHANGED <<actorVars, expired>>
  BY DEF RunnerStep, RunnerExhausts, RunnerEntersIteration, RunnerLeavesPause,
         LlmDecides, LlmCallsTools, ToolsReturn, LlmFails
<1>2. Live(id)
  BY DEF RunnerStep, RunnerExhausts, RunnerEntersIteration, RunnerLeavesPause,
         LlmDecides, LlmCallsTools, ToolsReturn, LlmFails, Live
<1>3. ASSUME NEW j \in LoopIds \ {id}
      PROVE  runner'[j] = runner[j] /\ mailbox'[j] = mailbox[j]
  BY <1>3 DEF TypeOK, RunnerStep, RunnerExhausts, RunnerEntersIteration, RunnerLeavesPause,
         LlmDecides, LlmCallsTools, ToolsReturn, LlmFails, BeginStep, EndStep, Finish
<1>4. QED BY <1>1, <1>2, <1>3

\* Pruning drops only terminal loops, and admission adds exactly one.
LEMMA StartFrames ==
    ASSUME TypeOK, NEW id \in LoopIds, StartAgentLoop(id)
    PROVE  /\ loops'[id].status = "running"
           /\ \A j \in LoopIds \ {id} :
                 \/ loops'[j] = loops[j] /\ db'[j] = db[j]
                 \/ /\ loops[j].status \in Terminal
                    /\ loops'[j] = Absent
                    /\ db'[j] = Absent \/ db'[j] = db[j]
           /\ persist /\ db = loops => db' = loops'
<1> DEFINE inserted == [loops EXCEPT ![id] = NewSnapshot("running")]
<1>1. PICK out \in TerminalIdsToPrune(inserted) :
          /\ loops' = [i \in LoopIds |-> IF i \in out THEN Absent ELSE inserted[i]]
          /\ db' = IF persist
                   THEN [i \in LoopIds |->
                           IF i \in out THEN Absent ELSE Saved(inserted, id)[i]]
                   ELSE db
  BY DEF StartAgentLoop, Pruned
<1>2. inserted[id].status = "running"
  BY DEF TypeOK, NewSnapshot
<1>3. \A j \in LoopIds \ {id} : inserted[j] = loops[j]
  BY DEF TypeOK
<1>4. \A i \in out : inserted[i].status \in Terminal
  BY DEF TerminalIdsToPrune
<1>5. id \notin out
  BY <1>2, <1>4 DEF Terminal
<1>6. \A j \in LoopIds : Saved(inserted, id)[j] = IF persist /\ j = id THEN inserted[id]
                                               ELSE db[j]
  BY DEF Saved, TypeOK
<1> HIDE DEF inserted
<1>7. loops'[id].status = "running"
  BY <1>1, <1>2, <1>5
<1>8. ASSUME NEW j \in LoopIds \ {id}
      PROVE  \/ loops'[j] = loops[j] /\ db'[j] = db[j]
             \/ /\ loops[j].status \in Terminal
                /\ loops'[j] = Absent
                /\ db'[j] = Absent \/ db'[j] = db[j]
  <2>1. CASE j \in out
    BY <1>1, <1>3, <1>4, <2>1
  <2>2. CASE j \notin out
    BY <1>1, <1>3, <1>6, <2>2
  <2>3. QED BY <2>1, <2>2
<1>9. ASSUME persist, db = loops PROVE db' = loops'
  <2>1. \A j \in LoopIds : Saved(inserted, id)[j] = inserted[j]
    BY <1>3, <1>6, <1>9
  <2>2. QED BY <1>1, <1>9, <2>1
<1>10. QED BY <1>7, <1>8, <1>9

----------------------------------------------------------------------------
\* The inductive invariant

LEMMA SafetyInit == Init => SafetyInv
<1> SUFFICES ASSUME Init PROVE SafetyInv
  OBVIOUS
<1>1. TypeOK
  BY ConstantsAssumption, NewSnapshotType DEF Init, TypeOK, Absent, Runner, Locations
<1>2. LoopInv
  BY DEF Init, LoopInv, LoopInvAt, Fresh, Live
<1>3. QED BY <1>1, <1>2 DEF SafetyInv, DbMirrorsMemory, Init

LEMMA LoopInvPreserved == TypeOK /\ LoopInv /\ [Next]_vars => LoopInv'
<1> SUFFICES ASSUME TypeOK, LoopInv, [Next]_vars, NEW j \in LoopIds
             PROVE  LoopInvAt(j)'
  BY DEF LoopInv
<1>0. LoopInvAt(j)
  BY DEF LoopInv
<1>1. ASSUME NEW id \in LoopIds, StartAgentLoop(id) PROVE LoopInvAt(j)'
  <2>1. CASE j = id
    <3>1. Fresh(id)
      BY <1>0, <1>1, <2>1 DEF LoopInvAt, StartAgentLoop
    <3>2. runner'[id].pc = "top" /\ mailbox'[id] = <<>> /\ ~pauseFlag'[id]
      BY <1>1, <3>1 DEF StartAgentLoop, Fresh, TypeOK, Runner
    <3>3. loops'[id].status = "running"
      BY <1>1, StartFrames
    <3>4. QED BY <2>1, <3>2, <3>3 DEF LoopInvAt, Steered, Live, Held
  <2>2. CASE j # id
    <3>1. /\ runner'[j] = runner[j] /\ mailbox'[j] = mailbox[j]
          /\ stopFlag'[j] = stopFlag[j] /\ pauseFlag'[j] = pauseFlag[j]
      BY <1>1, <2>2 DEF StartAgentLoop, TypeOK
    <3>2. CASE loops'[j] = loops[j] /\ db'[j] = db[j]
      BY <1>0, <3>1, <3>2, Frame
    <3>3. CASE loops[j].status \in Terminal /\ loops'[j] = Absent
      <4>1. loops[j] # Absent /\ loops[j].status \notin Held /\ Absent.status \notin Held
        BY <3>3 DEF Absent, NewSnapshot, Terminal, Held
      <4>2. QED
        BY <1>0, <3>1, <3>3, <4>1 DEF LoopInvAt, Fresh, Steered, Reporting, Live
    <3>4. QED BY <1>1, <2>2, <3>2, <3>3, StartFrames
  <2>3. QED BY <2>1, <2>2
<1>2. ASSUME NEW id \in LoopIds,
             StopAgentLoop(id) \/ PauseAgentLoop(id) \/ ResumeAgentLoop(id)
      PROVE  LoopInvAt(j)'
  <2>1. CASE j = id
    <3>1. /\ runner'[id] = runner[id] /\ mailbox'[id] = mailbox[id]
          /\ loops[id].status # "absent"
      BY <1>2 DEF StopAgentLoop, PauseAgentLoop, ResumeAgentLoop, Known
    <3>2. runner[id].pc # "unborn"
      BY <1>0, <2>1, <3>1 DEF LoopInvAt, Fresh, Absent, NewSnapshot
    <3>3. CASE StopAgentLoop(id)
      BY <1>0, <2>1, <3>1, <3>2, <3>3
         DEF StopAgentLoop, LoopInvAt, Steered, Reporting, Live, Held, TypeOK, Snapshot
    <3>4. CASE PauseAgentLoop(id)
      BY <1>0, <2>1, <3>1, <3>2, <3>4
         DEF PauseAgentLoop, LoopInvAt, Steered, Reporting, Live, Held, TypeOK, Snapshot
    <3>5. CASE ResumeAgentLoop(id)
      BY <1>0, <2>1, <3>1, <3>2, <3>5
         DEF ResumeAgentLoop, LoopInvAt, Steered, Reporting, Live, Held, TypeOK, Snapshot
    <3>6. QED BY <1>2, <3>3, <3>4, <3>5
  <2>2. CASE j # id
    <3>1. /\ runner'[j] = runner[j] /\ mailbox'[j] = mailbox[j]
          /\ stopFlag'[j] = stopFlag[j] /\ pauseFlag'[j] = pauseFlag[j]
          /\ loops'[j] = loops[j]
      BY <1>2, <2>2 DEF StopAgentLoop, PauseAgentLoop, ResumeAgentLoop, TypeOK
    <3>2. db'[j] = db[j]
      BY <1>2, <2>2 DEF StopAgentLoop, PauseAgentLoop, ResumeAgentLoop, TypeOK, Saved
    <3>3. QED BY <1>0, <3>1, <3>2, Frame
  <2>3. QED BY <2>1, <2>2
<1>3. ASSUME NEW id \in LoopIds, AgentLoopProgress(id) PROVE LoopInvAt(j)'
  <2>0. UNCHANGED <<runner, stopFlag, pauseFlag>>
    BY <1>3 DEF AgentLoopProgress
  <2>1. CASE j = id
    <3> DEFINE msg == Head(mailbox[id])
    <3>1. /\ mailbox[id] \in Seq(Progress) /\ mailbox[id] # <<>>
          /\ mailbox'[id] = Tail(mailbox[id])
      BY <1>3 DEF AgentLoopProgress, TypeOK
    <3>2. /\ Len(mailbox[id]) \in Nat /\ Len(mailbox[id]) >= 1
          /\ msg = mailbox[id][1]
          /\ Len(mailbox'[id]) = Len(mailbox[id]) - 1
          /\ \A i \in 1..Len(mailbox'[id]) : mailbox'[id][i] = mailbox[id][i + 1]
          /\ Len(mailbox[id]) = 1 => mailbox'[id] = <<>>
          /\ Len(mailbox[id]) > 1 =>
                /\ mailbox'[id] # <<>>
                /\ mailbox'[id][Len(mailbox'[id])] = mailbox[id][Len(mailbox[id])]
      BY <3>1, TailKeepsLast
    <3>3. runner[id].pc # "unborn"
      BY <1>0, <2>1, <3>1 DEF LoopInvAt, Fresh
    <3>4. loops'[id].status = IF Known(id) THEN Applied(loops[id], msg).status
                              ELSE loops[id].status
      BY <1>3 DEF AgentLoopProgress, TypeOK
    <3>5. CASE Live(id)
      <4>1. Steered(id)
        BY <1>0, <2>1, <3>5 DEF LoopInvAt
      <4>2. msg.status = "running"
        BY <4>1, <3>2 DEF Steered
      <4>3. loops'[id].status = loops[id].status
        BY <4>1, <4>2, <3>4 DEF Applied, Steered, Held, Known
      <4>4. \A i \in 1..Len(mailbox'[id]) : mailbox'[id][i].status = "running"
        BY <4>1, <3>1, <3>2 DEF Steered
      <4>5. Steered(id)'
        BY <4>1, <4>3, <4>4, <2>0 DEF Steered
      <4>6. QED BY <2>0, <2>1, <3>5, <4>5 DEF LoopInvAt, Live
    <3>6. CASE runner[id].pc = "exited"
      <4>1. Reporting(id)
        BY <1>0, <2>1, <3>6 DEF LoopInvAt
      <4>2. CASE Len(mailbox[id]) = 1
        <5>1. msg.status \in Settled /\ mailbox'[id] = <<>>
          BY <4>1, <4>2, <3>1, <3>2 DEF Reporting
        <5>2. loops'[id].status \notin Held
          BY <5>1, <3>4 DEF Applied, Settled, Terminal, Held, Known
        <5>3. QED BY <2>0, <2>1, <3>6, <5>1, <5>2 DEF LoopInvAt, Reporting, Live
      <4>3. CASE Len(mailbox[id]) > 1
        <5>1. /\ mailbox'[id] # <<>>
              /\ mailbox'[id][Len(mailbox'[id])] = mailbox[id][Len(mailbox[id])]
          BY <4>3, <3>2
        <5>2. mailbox'[id][Len(mailbox'[id])].status \in Settled
          BY <4>1, <5>1, <3>1 DEF Reporting
        <5>3. QED BY <2>0, <2>1, <3>6, <5>1, <5>2 DEF LoopInvAt, Reporting, Live
      <4>4. Len(mailbox[id]) = 1 \/ Len(mailbox[id]) > 1
        <5>1. \A n \in Nat : n >= 1 => n = 1 \/ n > 1
          OBVIOUS
        <5>2. QED BY <3>2, <5>1
      <4>5. QED BY <4>2, <4>3, <4>4
    <3>7. QED BY <3>3, <3>5, <3>6 DEF TypeOK, Runner, Locations, Live
  <2>2. CASE j # id
    <3>1. mailbox'[j] = mailbox[j] /\ loops'[j] = loops[j] /\ db'[j] = db[j]
      BY <1>3, <2>2 DEF AgentLoopProgress, TypeOK, Saved
    <3>2. QED BY <1>0, <2>0, <3>1, Frame
  <2>3. QED BY <2>1, <2>2
<1>4. ASSUME NEW id \in LoopIds, RunnerStep(id) PROVE LoopInvAt(j)'
  <2>1. CASE j = id
    BY <1>0, <1>4, <2>1, RunnerStepKeepsLoop
  <2>2. CASE j # id
    BY <1>0, <1>4, <2>2, RunnerStepFrames, Frame DEF actorVars
  <2>3. QED BY <2>1, <2>2
<1>5. ASSUME NEW id \in LoopIds, DeadlinePasses(id) PROVE LoopInvAt(j)'
  BY <1>0, <1>5, Frame DEF DeadlinePasses, actorVars
<1>6. ASSUME NEW opened \in BOOLEAN, Restart(opened) PROVE LoopInvAt(j)'
  <2>1. Reconciled(db[j]).status \notin Held
    BY DEF Reconciled, Held, TypeOK, Snapshot
  <2>2. Reconciled(Absent) = Absent /\ Absent.status \notin Held
    BY DEF Reconciled, Held, Absent, NewSnapshot
  <2>3. /\ loops'[j] = IF opened THEN Reconciled(db[j]) ELSE Absent
        /\ db'[j] = IF opened THEN loops'[j] ELSE db[j]
        /\ mailbox'[j] = <<>> /\ ~pauseFlag'[j]
        /\ runner'[j] = IF runner[j].pc = "unborn" THEN runner[j] ELSE Exited
    BY <1>6 DEF Restart
  <2>4. CASE runner[j].pc = "unborn"
    BY <1>0, <2>2, <2>3, <2>4 DEF LoopInvAt, Fresh, Live
  <2>5. CASE runner[j].pc # "unborn"
    BY <2>1, <2>2, <2>3, <2>5 DEF LoopInvAt, Reporting, Live, Exited
  <2>6. QED BY <2>4, <2>5
<1>7. CASE UNCHANGED vars
  BY <1>0, <1>7, Frame DEF vars
<1>8. QED
  BY <1>1, <1>2, <1>3, <1>4, <1>5, <1>6, <1>7 DEF Next

\* Every handler that changes the table writes the same rows to the database.
LEMMA MirrorPreserved == TypeOK /\ DbMirrorsMemory /\ [Next]_vars => DbMirrorsMemory'
<1> SUFFICES ASSUME TypeOK, DbMirrorsMemory, [Next]_vars PROVE DbMirrorsMemory'
  OBVIOUS
<1>1. ASSUME NEW id \in LoopIds, StartAgentLoop(id) PROVE DbMirrorsMemory'
  BY <1>1, StartFrames DEF StartAgentLoop, DbMirrorsMemory
<1>2. ASSUME NEW id \in LoopIds,
             StopAgentLoop(id) \/ PauseAgentLoop(id) \/ ResumeAgentLoop(id)
      PROVE  DbMirrorsMemory'
  <2>1. db' = Saved(loops', id) /\ persist' = persist
    BY <1>2 DEF StopAgentLoop, PauseAgentLoop, ResumeAgentLoop
  <2>2. \/ loops' = loops
        \/ \E s \in Status : loops' = [loops EXCEPT ![id].status = s]
    BY <1>2 DEF StopAgentLoop, PauseAgentLoop, ResumeAgentLoop, Status, Held
  <2>3. loops' = [loops EXCEPT ![id] = loops'[id]]
    BY <2>2 DEF TypeOK
  <2>4. QED BY <2>1, <2>3 DEF Saved, DbMirrorsMemory
<1>3. ASSUME NEW id \in LoopIds, AgentLoopProgress(id) PROVE DbMirrorsMemory'
  BY <1>3 DEF AgentLoopProgress, Saved, DbMirrorsMemory, TypeOK
<1>4. ASSUME NEW id \in LoopIds, RunnerStep(id) PROVE DbMirrorsMemory'
  BY <1>4, RunnerStepFrames DEF actorVars, DbMirrorsMemory
<1>5. ASSUME NEW id \in LoopIds, DeadlinePasses(id) PROVE DbMirrorsMemory'
  BY <1>5 DEF DeadlinePasses, actorVars, DbMirrorsMemory
<1>6. ASSUME NEW opened \in BOOLEAN, Restart(opened) PROVE DbMirrorsMemory'
  BY <1>6 DEF Restart, DbMirrorsMemory
<1>7. CASE UNCHANGED vars
  BY <1>7 DEF vars, DbMirrorsMemory
<1>8. QED
  BY <1>1, <1>2, <1>3, <1>4, <1>5, <1>6, <1>7 DEF Next

\* The invariant from which the theorems below follow.
THEOREM SafetyInvariant == Spec => []SafetyInv
<1>1. SafetyInv /\ [Next]_vars => SafetyInv'
  BY TypePreserved, LoopInvPreserved, MirrorPreserved DEF SafetyInv
<1>2. QED BY <1>1, SafetyInit, PTL DEF Spec

----------------------------------------------------------------------------
\* The properties

\* However many loops there are, one with a live runner is in the table and
\* held: pruning and late messages never take it out or settle it early.
THEOREM LiveLoopsHeld == Spec => []LiveLoopsAreHeld
<1>1. SafetyInv => LiveLoopsAreHeld
  BY DEF SafetyInv, LoopInv, LoopInvAt, Steered, LiveLoopsAreHeld
<1>2. QED BY <1>1, SafetyInvariant, PTL

\* A held loop has a runner or a last report on its way, after any number of
\* restarts.
THEOREM NoZombies == Spec => []NoZombieLoops
<1>1. SafetyInv => NoZombieLoops
  <2> SUFFICES ASSUME SafetyInv, NEW id \in LoopIds,
                      loops[id].status \in Held, ~Live(id)
               PROVE  /\ mailbox[id] # <<>>
                      /\ mailbox[id][Len(mailbox[id])].status \in Settled
    BY DEF NoZombieLoops
  <2>1. LoopInvAt(id) /\ runner[id].pc \in {"unborn", "exited"}
    BY DEF SafetyInv, LoopInv, TypeOK, Runner, Locations, Live
  <2>2. runner[id].pc = "exited"
    BY <2>1 DEF LoopInvAt, Fresh, Absent, NewSnapshot, Held
  <2>3. QED BY <2>1, <2>2 DEF LoopInvAt, Reporting
<1>2. QED BY <1>1, SafetyInvariant, PTL

\* The pause and stop flags of a live runner agree with the status shown.
THEOREM FlagsMatch == Spec => []FlagsMatchStatus
<1>1. SafetyInv => FlagsMatchStatus
  BY DEF SafetyInv, LoopInv, LoopInvAt, Steered, FlagsMatchStatus
<1>2. QED BY <1>1, SafetyInvariant, PTL

\* With a database, memory and disk agree after every handler.
THEOREM DbMirrors == Spec => []DbMirrorsMemory
<1>1. QED BY SafetyInvariant, PTL DEF SafetyInv

\* No step begins unless the loop is shown as running: an acknowledged pause
\* or stop holds at the next boundary, whatever the interleaving.
THEOREM StepsBeginOnlyRunning == Spec => StepsBeginOnlyWhileRunning
<1>1. SafetyInv /\ [Next]_vars =>
        [\A id \in LoopIds : BeginsStep(id) => loops[id].status = "running"]_vars
  <2> SUFFICES ASSUME SafetyInv, Next, NEW j \in LoopIds, BeginsStep(j)
               PROVE  loops[j].status = "running"
    BY DEF vars
  <2>1. TypeOK /\ LoopInvAt(j) /\ Live(j)
    BY DEF SafetyInv, LoopInv, BeginsStep, Live
  <2>2. PICK id \in LoopIds : RunnerStep(id)
    <3>1. ASSUME NEW id \in LoopIds, StartAgentLoop(id) PROVE FALSE
      BY <3>1, <2>1 DEF StartAgentLoop, BeginsStep, TypeOK, Runner
    <3>2. ASSUME NEW id \in LoopIds,
                 \/ StopAgentLoop(id) \/ PauseAgentLoop(id) \/ ResumeAgentLoop(id)
                 \/ AgentLoopProgress(id) \/ DeadlinePasses(id)
          PROVE  FALSE
      BY <3>2 DEF StopAgentLoop, PauseAgentLoop, ResumeAgentLoop, AgentLoopProgress,
                  DeadlinePasses, BeginsStep
    <3>3. ASSUME NEW opened \in BOOLEAN, Restart(opened) PROVE FALSE
      BY <3>3 DEF Restart, BeginsStep, Exited
    <3>4. QED BY <3>1, <3>2, <3>3 DEF Next
  <2>3. j = id
    BY <2>1, <2>2, RunnerStepFrames DEF BeginsStep
  <2>4. ~stopFlag[id] /\ ~pauseFlag[id]
    <3>1. CASE RunnerEntersIteration(id)
      BY <2>1, <2>3, <3>1 DEF RunnerEntersIteration, Finish, Exited, BeginsStep, TypeOK, Runner
    <3>2. CASE RunnerLeavesPause(id)
      BY <2>1, <2>3, <3>2 DEF RunnerLeavesPause, Finish, Exited, BeginsStep, TypeOK, Runner
    <3>3. CASE RunnerExhausts(id)
      BY <2>1, <2>3, <3>3 DEF RunnerExhausts, Finish, Exited, BeginsStep, TypeOK, Runner
    <3>4. CASE LlmDecides(id) \/ LlmCallsTools(id) \/ ToolsReturn(id) \/ LlmFails(id)
      BY <2>3, <3>4 DEF LlmDecides, LlmCallsTools, ToolsReturn, LlmFails, BeginsStep
    <3>5. QED BY <2>2, <3>1, <3>2, <3>3, <3>4 DEF RunnerStep
  <2>5. QED BY <2>1, <2>3, <2>4 DEF LoopInvAt, Steered, Held
<1>2. QED BY <1>1, SafetyInvariant, PTL DEF Spec, StepsBeginOnlyWhileRunning

\* Admission counts statuses, not tasks; since every live loop is active, the
\* count it compares with the limit is never below the number of tasks.
LEMMA ConcurrencyPreserved ==
    SafetyInv /\ ConcurrencyBound /\ [Next]_vars => ConcurrencyBound'
<1> SUFFICES ASSUME SafetyInv, ConcurrencyBound, [Next]_vars, MaxConcurrent # 0
             PROVE  Cardinality(LiveIds') <= MaxConcurrent
  BY DEF ConcurrencyBound
<1>1. /\ IsFiniteSet(LoopIds) /\ MaxConcurrent \in Nat
      /\ LiveIds \subseteq LoopIds /\ ActiveIds(loops) \subseteq LoopIds
  BY ConstantsAssumption DEF LiveIds, ActiveIds
<1>2. /\ IsFiniteSet(LiveIds) /\ IsFiniteSet(ActiveIds(loops))
      /\ Cardinality(LiveIds) \in Nat /\ Cardinality(ActiveIds(loops)) \in Nat
  BY <1>1, FS_Subset, FS_CardinalityType
<1>3. ASSUME LiveIds' \subseteq LiveIds
      PROVE  Cardinality(LiveIds') <= MaxConcurrent
  <2>1. /\ Cardinality(LiveIds') \in Nat
        /\ Cardinality(LiveIds') <= Cardinality(LiveIds)
    BY <1>2, <1>3, FS_Subset, FS_CardinalityType
  <2>2. Cardinality(LiveIds) <= MaxConcurrent
    BY DEF ConcurrencyBound
  <2>3. QED BY <1>1, <1>2, <2>1, <2>2
<1>4. ASSUME NEW id \in LoopIds, StartAgentLoop(id)
      PROVE  Cardinality(LiveIds') <= MaxConcurrent
  <2>1. LiveIds \subseteq ActiveIds(loops)
    BY DEF LiveIds, ActiveIds, SafetyInv, LoopInv, LoopInvAt, Steered, Held, Active
  <2>2. Cardinality(LiveIds) <= Cardinality(ActiveIds(loops))
    BY <1>2, <2>1, FS_Subset
  <2>3. Cardinality(ActiveIds(loops)) < MaxConcurrent
    BY <1>4 DEF StartAgentLoop, CanStartNewLoop
  <2>4. LiveIds' = LiveIds \cup {id} /\ id \notin LiveIds
    <3>1. runner \in [LoopIds -> Runner]
      BY DEF SafetyInv, TypeOK
    <3>2. runner[id].pc = "unborn" /\ runner'[id].pc = "top"
      BY <1>4, <3>1 DEF StartAgentLoop, Runner
    <3>3. \A i \in LoopIds \ {id} : runner'[i] = runner[i]
      BY <1>4, <3>1 DEF StartAgentLoop
    <3>4. QED BY <3>2, <3>3 DEF LiveIds, Live
  <2>5. Cardinality(LiveIds') = Cardinality(LiveIds) + 1
    BY <1>2, <2>4, FS_AddElement
  <2>6. QED BY <1>1, <1>2, <2>2, <2>3, <2>5
<1>5. ASSUME NEW id \in LoopIds, RunnerStep(id)
      PROVE  LiveIds' \subseteq LiveIds
  BY <1>5, RunnerStepFrames DEF LiveIds, Live, SafetyInv
<1>6. ASSUME NEW id \in LoopIds,
             \/ StopAgentLoop(id) \/ PauseAgentLoop(id) \/ ResumeAgentLoop(id)
             \/ AgentLoopProgress(id) \/ DeadlinePasses(id)
      PROVE  LiveIds' \subseteq LiveIds
  BY <1>6 DEF StopAgentLoop, PauseAgentLoop, ResumeAgentLoop, AgentLoopProgress,
              DeadlinePasses, LiveIds, Live
<1>7. ASSUME NEW opened \in BOOLEAN, Restart(opened)
      PROVE  LiveIds' \subseteq LiveIds
  BY <1>7 DEF Restart, LiveIds, Live, Exited
<1>8. CASE UNCHANGED vars
  BY <1>3, <1>8 DEF vars, LiveIds, Live
<1>9. QED
  BY <1>3, <1>4, <1>5, <1>6, <1>7, <1>8 DEF Next

\* The number of runner tasks never exceeds AGENT_LOOP_MAX_CONCURRENT.
THEOREM ConcurrencyBounded == Spec => []ConcurrencyBound
<1>1. Init => ConcurrencyBound
  <2> SUFFICES ASSUME Init PROVE Cardinality(LiveIds) <= MaxConcurrent \/ MaxConcurrent = 0
    BY DEF ConcurrencyBound
  <2>1. LiveIds = {}
    BY DEF Init, LiveIds, Live
  <2>2. QED BY <2>1, FS_EmptySet, ConstantsAssumption
<1>2. QED BY <1>1, ConcurrencyPreserved, SafetyInvariant, PTL DEF Spec

\* A loop that left both tables stays away: late reports are dropped, a
\* restart reads what the tables hold, and an id is admitted once.
THEOREM NoResurrections == Spec => NoResurrection
<1>1. SafetyInv /\ [Next]_vars =>
        [\A id \in LoopIds :
            /\ runner[id].pc # "unborn"
            /\ loops[id] = Absent /\ db[id] = Absent
            => loops'[id] = Absent /\ db'[id] = Absent]_vars
  <2> SUFFICES ASSUME SafetyInv, Next, NEW j \in LoopIds, runner[j].pc # "unborn",
                      loops[j] = Absent, db[j] = Absent
               PROVE  loops'[j] = Absent /\ db'[j] = Absent
    BY DEF vars
  <2>0. TypeOK /\ loops[j].status = "absent"
    BY DEF SafetyInv, Absent, NewSnapshot
  <2>1. ASSUME NEW id \in LoopIds, StartAgentLoop(id)
        PROVE  loops'[j] = Absent /\ db'[j] = Absent
    <3>1. j # id
      BY <2>1 DEF StartAgentLoop
    <3>2. QED BY <2>0, <2>1, <3>1, StartFrames
  <2>2. ASSUME NEW id \in LoopIds,
               StopAgentLoop(id) \/ PauseAgentLoop(id) \/ ResumeAgentLoop(id)
        PROVE  loops'[j] = Absent /\ db'[j] = Absent
    <3>1. j # id
      BY <2>0, <2>2 DEF StopAgentLoop, PauseAgentLoop, ResumeAgentLoop, Known
    <3>2. QED
      BY <2>0, <2>2, <3>1
         DEF StopAgentLoop, PauseAgentLoop, ResumeAgentLoop, Saved, TypeOK
  <2>3. ASSUME NEW id \in LoopIds, AgentLoopProgress(id)
        PROVE  loops'[j] = Absent /\ db'[j] = Absent
    BY <2>0, <2>3 DEF AgentLoopProgress, Known, Saved, TypeOK
  <2>4. ASSUME NEW id \in LoopIds, RunnerStep(id) \/ DeadlinePasses(id)
        PROVE  loops'[j] = Absent /\ db'[j] = Absent
    BY <2>0, <2>4, RunnerStepFrames DEF DeadlinePasses, actorVars
  <2>5. ASSUME NEW opened \in BOOLEAN, Restart(opened)
        PROVE  loops'[j] = Absent /\ db'[j] = Absent
    <3>1. Reconciled(Absent) = Absent
      BY DEF Reconciled, Absent, NewSnapshot, Held
    <3>2. /\ loops'[j] = IF opened THEN Reconciled(db[j]) ELSE Absent
          /\ db'[j] = IF opened THEN loops'[j] ELSE db[j]
      BY <2>5 DEF Restart
    <3>3. QED BY <3>1, <3>2
  <2>6. QED BY <2>1, <2>2, <2>3, <2>4, <2>5 DEF Next
<1>2. QED BY <1>1, SafetyInvariant, PTL DEF Spec, NoResurrection

----------------------------------------------------------------------------
\* The refinement
\*
\* Two things more than SafetyInv are needed.  What a runner says last settles
\* its loop once and for all: only the error of a failed chat request is told
\* twice, so that a failure may still become a stop.  And a process without a
\* database shows no loop that the database knows, so that opening it again
\* brings nothing back to an earlier status.

MayFollow(first, second) == first = "failed" /\ second \in {"failed", "stopped"}

EndsOnce(id) ==
    LET q == mailbox[id]
        n == Len(q)
    IN
    /\ \A i \in 1..(n - 1) :
          q[i].status = "running" \/ (i = n - 1 /\ MayFollow(q[i].status, q[n].status))
    /\ loops[id].status \in Settled /\ q # <<>> =>
          n = 1 /\ MayFollow(loops[id].status, q[1].status)

EndInv == \A id \in LoopIds : runner[id].pc = "exited" => EndsOnce(id)

OfflineApart == ~persist => \A id \in LoopIds : loops[id] = Absent \/ db[id] = Absent

RefinementInv == SafetyInv /\ EndInv /\ OfflineApart

LEMMA HeldIsNotSettled == Held \cap Settled = {} /\ "absent" \notin Held \cup Settled
  BY DEF Held, Settled, Terminal

\* Leaving the for loop ends the queue with what settles the loop.
LEMMA FinishEndsOnce ==
    ASSUME TypeOK, NEW id \in LoopIds, Steered(id), UNCHANGED loops,
           NEW sent \in Seq(Progress), NEW status \in Settled, NEW error \in Errors,
           Finish(id, sent, status, error),
           \/ sent = <<>>
           \/ \E m \in Progress : /\ sent = <<m>>
                                  /\ \/ m.status = "running"
                                     \/ m.status = "failed" /\ status = "failed"
    PROVE  EndsOnce(id)'
<1> DEFINE final == Report(IF stopFlag[id] THEN "stopped" ELSE status, error)
           before == mailbox[id]
           after == mailbox'[id]
<1>1. final \in Progress /\ (status = "failed" => MayFollow("failed", final.status))
  BY DEF TypeOK, Report, Progress, Outcomes, Settled, Terminal, MayFollow
<1>2. after = (before \o sent) \o <<final>> /\ before \in Seq(Progress)
  BY DEF Finish, TypeOK
<1>3. \A i \in 1..Len(before) : before[i].status = "running"
  BY DEF Steered
<1>4. loops'[id].status \notin Settled
  BY HeldIsNotSettled DEF Steered
<1> HIDE DEF final, before
<1>5. \A i \in 1..(Len(after) - 1) :
          after[i].status = "running"
          \/ (i = Len(after) - 1 /\ MayFollow(after[i].status, after[Len(after)].status))
  <2>1. CASE sent = <<>>
    <3>1. Len(after) = Len(before) + 1 /\ \A i \in 1..Len(before) : after[i] = before[i]
      BY <1>1, <1>2, <2>1
    <3>2. QED BY <1>2, <1>3, <3>1
  <2>2. ASSUME NEW m \in Progress, sent = <<m>>,
               m.status = "running" \/ (m.status = "failed" /\ status = "failed")
        PROVE  \A i \in 1..(Len(after) - 1) :
                  after[i].status = "running"
                  \/ (i = Len(after) - 1 /\ MayFollow(after[i].status, after[Len(after)].status))
    <3>1. /\ Len(after) = Len(before) + 2
          /\ \A i \in 1..Len(before) : after[i] = before[i]
          /\ after[Len(before) + 1] = m /\ after[Len(before) + 2] = final
      BY <1>1, <1>2, <2>2
    <3>2. m.status = "running" \/ MayFollow(m.status, final.status)
      BY <1>1, <2>2
    <3> HIDE DEF after
    <3>3. QED BY <1>2, <1>3, <3>1, <3>2
  <2>3. QED BY <2>1, <2>2
<1>6. QED BY <1>4, <1>5 DEF EndsOnce

\* A step of a runner leaves it alive, or ends its queue.
LEMMA RunnerStepEndsOnce ==
    ASSUME TypeOK, NEW id \in LoopIds, Steered(id), RunnerStep(id)
    PROVE  Live(id)' \/ (runner'[id].pc = "exited" /\ EndsOnce(id)')
<1> DEFINE Goal == Live(id)' \/ (runner'[id].pc = "exited" /\ EndsOnce(id)')
<1> SUFFICES Goal
  OBVIOUS
<1>1. UNCHANGED loops
  BY RunnerStepFrames DEF actorVars
<1>2. ASSUME NEW status \in Settled, NEW error \in Errors, Finish(id, <<>>, status, error)
      PROVE  Goal
  <2>1. runner'[id].pc = "exited"
    BY <1>2 DEF Finish, Exited, TypeOK
  <2>2. <<>> \in Seq(Progress)
    OBVIOUS
  <2>3. QED BY <1>1, <1>2, <2>1, <2>2, FinishEndsOnce
<1>3. ASSUME NEW m \in Progress, NEW status \in Settled, NEW error \in Errors,
             m.status = "running" \/ (m.status = "failed" /\ status = "failed"),
             Finish(id, <<m>>, status, error)
      PROVE  Goal
  <2>1. runner'[id].pc = "exited"
    BY <1>3 DEF Finish, Exited, TypeOK
  <2>2. <<m>> \in Seq(Progress)
    OBVIOUS
  <2>3. QED BY <1>1, <1>3, <2>1, <2>2, FinishEndsOnce
<1>4. ASSUME runner'[id].pc \in {"top", "held", "llm", "tools"} PROVE Goal
  BY <1>4 DEF Live
<1>5. /\ {"completed", "stopped", "failed", "waiting_for_user"} \subseteq Settled
      /\ {"none", "run"} \subseteq Errors
  BY DEF Settled, Terminal, Errors
<1>6. ASSUME NEW outcome \in Outcomes, NEW reason \in {"none", "run"},
             EndStep(id, outcome, reason)
      PROVE  Goal
  <2> DEFINE beat == Heartbeat(runner[id].step, outcome)
             why == IF outcome = "failed" THEN reason ELSE "none"
  <2>1. beat \in Progress /\ beat.status = "running" /\ why \in Errors
    BY DEF TypeOK, Heartbeat, Progress, Outcomes, Errors, Runner
  <2>2. CASE outcome \in {"completed", "waiting_for_user", "failed"}
    <3>1. Finish(id, <<beat>>, outcome, why)
      BY <1>6, <2>2 DEF EndStep
    <3>2. outcome \in Settled
      BY <1>5, <2>2
    <3> HIDE DEF beat, why, Goal
    <3>3. QED BY <1>3, <2>1, <3>1, <3>2
  <2>3. CASE outcome \notin {"completed", "waiting_for_user", "failed"}
    <3>1. runner'[id].pc = "top"
      BY <1>6, <2>3 DEF EndStep, TypeOK, Runner
    <3> HIDE DEF Goal
    <3>2. QED BY <1>4, <3>1
  <2>4. QED BY <2>2, <2>3
<1>7. ASSUME BeginStep(id) PROVE Goal
  <2>1. runner'[id].pc = "llm"
    BY <1>7 DEF BeginStep, TypeOK, Runner
  <2> HIDE DEF Goal
  <2>2. QED BY <1>4, <2>1
<1> HIDE DEF Goal
<1>8. CASE RunnerExhausts(id)
  BY <1>2, <1>5, <1>8 DEF RunnerExhausts
<1>9. CASE RunnerEntersIteration(id)
  <2>1. CASE runner' = [runner EXCEPT ![id].pc = "held"]
    <3>1. runner'[id].pc = "held"
      BY <2>1 DEF TypeOK, Runner
    <3>2. QED BY <1>4, <3>1
  <2>2. QED BY <1>2, <1>5, <1>7, <1>9, <2>1 DEF RunnerEntersIteration
<1>10. CASE RunnerLeavesPause(id)
  BY <1>2, <1>5, <1>7, <1>10 DEF RunnerLeavesPause
<1>11. CASE LlmDecides(id)
  BY <1>6, <1>11 DEF LlmDecides
<1>12. CASE LlmCallsTools(id)
  <2>1. CASE EndStep(id, "failed", "run") \/ EndStep(id, "stopped", "none")
    BY <1>6, <2>1 DEF Outcomes
  <2>2. CASE runner' = [runner EXCEPT ![id].pc = "tools"]
    <3>1. runner'[id].pc = "tools"
      BY <2>2 DEF TypeOK, Runner
    <3>2. QED BY <1>4, <3>1
  <2>3. QED BY <1>12, <2>1, <2>2 DEF LlmCallsTools
<1>13. CASE ToolsReturn(id)
  <2>1. runner'[id].pc = "llm"
    BY <1>13 DEF ToolsReturn, TypeOK, Runner
  <2>2. QED BY <1>4, <2>1
<1>14. CASE LlmFails(id)
  <2>1. /\ Report("failed", "run") \in Progress
        /\ Report("failed", "run").status = "failed"
    BY DEF Report, Progress, Outcomes, Errors
  <2>2. Finish(id, <<Report("failed", "run")>>, "failed", "run")
    BY <1>14 DEF LlmFails
  <2>3. QED BY <1>3, <1>5, <2>1, <2>2
<1>15. QED
  BY <1>8, <1>9, <1>10, <1>11, <1>12, <1>13, <1>14 DEF RunnerStep

\* Handling a report of an exited runner leaves the rest of its queue in order.
LEMMA ProgressEndsOnce ==
    ASSUME TypeOK, NEW id \in LoopIds, EndsOnce(id), AgentLoopProgress(id)
    PROVE  EndsOnce(id)'
<1> DEFINE q == mailbox[id]
           n == Len(q)
<1>1. /\ q \in Seq(Progress) /\ q # <<>>
      /\ mailbox'[id] = Tail(q)
      /\ loops'[id] = IF Known(id) THEN Applied(loops[id], Head(q)) ELSE loops[id]
  BY DEF AgentLoopProgress, TypeOK
<1>2. loops[id].status \in Status \cup {"absent"}
  BY DEF TypeOK, Snapshot
<1> HIDE DEF q
<1>3. /\ n \in Nat /\ n >= 1 /\ Head(q) = q[1]
      /\ Len(Tail(q)) = n - 1
      /\ \A i \in 1..(n - 1) : Tail(q)[i] = q[i + 1]
      /\ n = 1 => Tail(q) = <<>>
  BY <1>1, TailKeepsLast
<1>4. \A i \in 1..(n - 1) :
          q[i].status = "running" \/ (i = n - 1 /\ MayFollow(q[i].status, q[n].status))
  BY DEF EndsOnce, q
<1>5. CASE n = 1
  BY <1>1, <1>3, <1>5 DEF EndsOnce
<1>6. CASE n # 1
  <2>1. loops[id].status \notin Settled
    BY <1>1, <1>6 DEF EndsOnce, q
  <2>2. \A i \in 1..(Len(Tail(q)) - 1) :
            Tail(q)[i].status = "running"
            \/ (i = Len(Tail(q)) - 1 /\ MayFollow(Tail(q)[i].status, Tail(q)[Len(Tail(q))].status))
    BY <1>3, <1>4, <1>6
  <2>3. ASSUME loops'[id].status \in Settled
        PROVE  Len(Tail(q)) = 1 /\ MayFollow(loops'[id].status, Tail(q)[1].status)
    <3>1. Known(id) /\ loops'[id].status = Applied(loops[id], q[1]).status
      BY <1>1, <1>3, <2>1, <2>3
    <3>2. loops[id].status \in Held
      BY <1>2, <2>1, <3>1 DEF Known, Status
    <3>3. q[1].status # "running" /\ loops'[id].status = q[1].status
      BY <2>3, <3>1, <3>2, HeldIsNotSettled DEF Applied, Held
    <3>4. 1 \in 1..(n - 1)
      <4>1. \A k \in Nat : k >= 1 /\ k # 1 => 1 \in 1..(k - 1)
        OBVIOUS
      <4>2. QED BY <1>3, <1>6, <4>1, Zenon
    <3>5. 1 = n - 1 /\ MayFollow(q[1].status, q[n].status)
      BY <1>4, <3>3, <3>4
    <3>6. Tail(q)[1] = q[2] /\ n = 2
      BY <1>3, <3>4, <3>5
    <3>7. QED BY <1>3, <3>3, <3>5, <3>6
  <2>4. mailbox'[id] = Tail(q)
    BY <1>1
  <2> HIDE DEF MayFollow
  <2>5. QED BY <2>2, <2>3, <2>4 DEF EndsOnce
<1>7. QED BY <1>5, <1>6

LEMMA EndFrame ==
    ASSUME NEW id \in LoopIds, runner[id].pc = "exited" => EndsOnce(id),
           mailbox'[id] = mailbox[id], runner'[id] = runner[id],
           loops'[id] = loops[id] \/ loops'[id].status \notin Settled
    PROVE  runner'[id].pc = "exited" => EndsOnce(id)'
  BY DEF EndsOnce

LEMMA EndInvPreserved == SafetyInv /\ EndInv /\ [Next]_vars => EndInv'
<1> SUFFICES ASSUME SafetyInv, EndInv, [Next]_vars, NEW j \in LoopIds
             PROVE  runner'[j].pc = "exited" => EndsOnce(j)'
  BY DEF EndInv
<1>0. TypeOK /\ LoopInvAt(j) /\ (runner[j].pc = "exited" => EndsOnce(j))
  BY DEF SafetyInv, LoopInv, EndInv
<1>1. ASSUME NEW id \in LoopIds, StartAgentLoop(id)
      PROVE  runner'[j].pc = "exited" => EndsOnce(j)'
  <2>1. CASE j = id
    BY <1>0, <1>1, <2>1 DEF StartAgentLoop, TypeOK, Runner
  <2>2. CASE j # id
    <3>1. mailbox'[j] = mailbox[j] /\ runner'[j] = runner[j]
      BY <1>0, <1>1, <2>2 DEF StartAgentLoop, TypeOK
    <3>2. loops'[j] = loops[j] \/ loops'[j].status = "absent"
      BY <1>0, <1>1, <2>2, StartFrames DEF Absent, NewSnapshot
    <3>3. QED BY <1>0, <3>1, <3>2, EndFrame, HeldIsNotSettled
  <2>3. QED BY <2>1, <2>2
<1>2. ASSUME NEW id \in LoopIds,
             StopAgentLoop(id) \/ PauseAgentLoop(id) \/ ResumeAgentLoop(id)
      PROVE  runner'[j].pc = "exited" => EndsOnce(j)'
  <2>1. mailbox' = mailbox /\ runner' = runner
    BY <1>2 DEF StopAgentLoop, PauseAgentLoop, ResumeAgentLoop
  <2>2. loops'[j] = loops[j] \/ loops'[j].status \in Held
    BY <1>0, <1>2 DEF StopAgentLoop, PauseAgentLoop, ResumeAgentLoop, Held, TypeOK, Snapshot
  <2>3. QED BY <1>0, <2>1, <2>2, EndFrame, HeldIsNotSettled
<1>3. ASSUME NEW id \in LoopIds, AgentLoopProgress(id)
      PROVE  runner'[j].pc = "exited" => EndsOnce(j)'
  <2>1. CASE j = id
    BY <1>0, <1>3, <2>1, ProgressEndsOnce DEF AgentLoopProgress
  <2>2. CASE j # id
    <3>1. mailbox'[j] = mailbox[j] /\ runner'[j] = runner[j] /\ loops'[j] = loops[j]
      BY <1>0, <1>3, <2>2 DEF AgentLoopProgress, TypeOK
    <3>2. QED BY <1>0, <3>1, EndFrame
  <2>3. QED BY <2>1, <2>2
<1>4. ASSUME NEW id \in LoopIds, RunnerStep(id)
      PROVE  runner'[j].pc = "exited" => EndsOnce(j)'
  <2>1. CASE j = id
    <3>1. Steered(id)
      BY <1>0, <1>4, <2>1, RunnerStepFrames DEF LoopInvAt
    <3>2. QED BY <1>0, <1>4, <2>1, <3>1, RunnerStepEndsOnce DEF Live
  <2>2. CASE j # id
    <3>1. mailbox'[j] = mailbox[j] /\ runner'[j] = runner[j] /\ loops'[j] = loops[j]
      BY <1>0, <1>4, <2>2, RunnerStepFrames DEF actorVars
    <3>2. QED BY <1>0, <3>1, EndFrame
  <2>3. QED BY <2>1, <2>2
<1>5. ASSUME NEW id \in LoopIds, DeadlinePasses(id)
      PROVE  runner'[j].pc = "exited" => EndsOnce(j)'
  BY <1>0, <1>5, EndFrame DEF DeadlinePasses, actorVars
<1>6. ASSUME NEW opened \in BOOLEAN, Restart(opened)
      PROVE  runner'[j].pc = "exited" => EndsOnce(j)'
  <2>1. mailbox'[j] = <<>>
    BY <1>6 DEF Restart
  <2>2. QED BY <2>1 DEF EndsOnce
<1>7. CASE UNCHANGED vars
  BY <1>0, <1>7, EndFrame DEF vars
<1>8. QED
  BY <1>1, <1>2, <1>3, <1>4, <1>5, <1>6, <1>7 DEF Next

LEMMA OfflinePreserved == SafetyInv /\ OfflineApart /\ [Next]_vars => OfflineApart'
<1> SUFFICES ASSUME SafetyInv, OfflineApart, [Next]_vars, ~persist', NEW j \in LoopIds
             PROVE  loops'[j] = Absent \/ db'[j] = Absent
  BY DEF OfflineApart
<1>0. TypeOK /\ LoopInvAt(j) /\ (~persist => loops[j] = Absent \/ db[j] = Absent)
  BY DEF SafetyInv, LoopInv, OfflineApart
<1>1. ASSUME NEW id \in LoopIds, StartAgentLoop(id)
      PROVE  loops'[j] = Absent \/ db'[j] = Absent
  <2>1. ~persist /\ db' = db
    BY <1>1 DEF StartAgentLoop
  <2>2. CASE j = id
    BY <1>0, <1>1, <2>1, <2>2 DEF StartAgentLoop, LoopInvAt, Fresh
  <2>3. CASE j # id
    BY <1>0, <1>1, <2>1, <2>3, StartFrames
  <2>4. QED BY <2>2, <2>3
<1>2. ASSUME NEW id \in LoopIds,
             \/ StopAgentLoop(id) \/ PauseAgentLoop(id) \/ ResumeAgentLoop(id)
             \/ AgentLoopProgress(id)
      PROVE  loops'[j] = Absent \/ db'[j] = Absent
  <2>1. ~persist /\ db' = db /\ (j # id => loops'[j] = loops[j])
    BY <1>0, <1>2
       DEF StopAgentLoop, PauseAgentLoop, ResumeAgentLoop, AgentLoopProgress, Saved, TypeOK
  <2>2. loops[id] = Absent => loops' = loops
    BY <1>2 DEF StopAgentLoop, PauseAgentLoop, ResumeAgentLoop, AgentLoopProgress,
                Known, Absent, NewSnapshot
  <2>3. QED BY <1>0, <2>1, <2>2
<1>3. ASSUME NEW id \in LoopIds, RunnerStep(id) \/ DeadlinePasses(id)
      PROVE  loops'[j] = Absent \/ db'[j] = Absent
  BY <1>0, <1>3, RunnerStepFrames DEF DeadlinePasses, actorVars
<1>4. ASSUME NEW opened \in BOOLEAN, Restart(opened)
      PROVE  loops'[j] = Absent \/ db'[j] = Absent
  BY <1>4 DEF Restart
<1>5. CASE UNCHANGED vars
  BY <1>0, <1>5 DEF vars
<1>6. QED BY <1>1, <1>2, <1>3, <1>4, <1>5 DEF Next

LEMMA RefinementInvariant == Spec => []RefinementInv
<1>1. Init => EndInv /\ OfflineApart
  BY DEF Init, EndInv, OfflineApart
<1>2. QED
  BY <1>1, EndInvPreserved, OfflinePreserved, SafetyInvariant, PTL DEF Spec, RefinementInv

\* The state of LoopLifecycle that a state of AgentLoop shows.
shown == [id \in LoopIds |-> loops[id].status]
admitted == {id \in LoopIds : runner[id].pc # "unborn"}

Stutter == shown' = shown /\ LiveIds' = LiveIds /\ admitted' = admitted

\* Admission starts one loop, which is within the limit, and evicts only
\* terminal ones.
LEMMA StartIsAdmit ==
    ASSUME RefinementInv, NEW id \in LoopIds, StartAgentLoop(id)
    PROVE  Lifecycle!Admit(id)
<1>1. TypeOK /\ LoopInv
  BY DEF RefinementInv, SafetyInv
<1>2. /\ id \notin admitted /\ id \in LoopIds
      /\ admitted' = admitted \cup {id} /\ LiveIds' = LiveIds \cup {id}
  <2>1. runner[id].pc = "unborn" /\ runner'[id].pc = "top"
    BY <1>1 DEF StartAgentLoop, TypeOK, Runner
  <2>2. \A i \in LoopIds \ {id} : runner'[i] = runner[i]
    BY <1>1 DEF StartAgentLoop, TypeOK
  <2>3. QED BY <2>1, <2>2 DEF admitted, LiveIds, Live
<1>3. MaxConcurrent = 0 \/ Cardinality(LiveIds) < MaxConcurrent
  <2>1. LiveIds \subseteq ActiveIds(loops)
    BY <1>1 DEF LiveIds, ActiveIds, LoopInv, LoopInvAt, Steered, Held, Active
  <2>2. IsFiniteSet(ActiveIds(loops))
    BY ConstantsAssumption, FS_Subset DEF ActiveIds
  <2>3. /\ Cardinality(LiveIds) <= Cardinality(ActiveIds(loops))
        /\ Cardinality(LiveIds) \in Nat /\ Cardinality(ActiveIds(loops)) \in Nat
    BY <2>1, <2>2, FS_Subset, FS_CardinalityType
  <2>4. QED BY <2>3, ConstantsAssumption DEF StartAgentLoop, CanStartNewLoop
<1>4. \E out \in SUBSET {i \in LoopIds : shown[i] \in Lifecycle!TerminalStatus} :
          shown' = [i \in LoopIds |-> IF i = id THEN "running"
                                      ELSE IF i \in out THEN "absent" ELSE shown[i]]
  <2> DEFINE out == {i \in LoopIds \ {id} : loops[i].status \in Terminal /\ loops'[i] = Absent}
  <2>1. out \in SUBSET {i \in LoopIds : shown[i] \in Lifecycle!TerminalStatus}
    BY DEF shown, Terminal, Lifecycle!TerminalStatus
  <2>2. ASSUME NEW i \in LoopIds
        PROVE  loops'[i].status = IF i = id THEN "running"
                                  ELSE IF i \in out THEN "absent" ELSE loops[i].status
    BY <1>1, StartFrames DEF Absent, NewSnapshot
  <2> HIDE DEF out
  <2>3. QED BY <2>1, <2>2 DEF shown
<1>5. Lifecycle!Cardinality(LiveIds) = Cardinality(LiveIds)
  BY DEF Lifecycle!Cardinality, Cardinality
<1>6. QED BY <1>2, <1>3, <1>4, <1>5 DEF Lifecycle!Admit, shown, admitted

\* What the API does to a loop is a steering, or nothing that can be seen.
LEMMA ApiIsSteer ==
    ASSUME RefinementInv, NEW id \in LoopIds,
           StopAgentLoop(id) \/ PauseAgentLoop(id) \/ ResumeAgentLoop(id)
    PROVE  Lifecycle!Steer(id) \/ Stutter
<1>1. TypeOK
  BY DEF RefinementInv, SafetyInv
<1>2. LiveIds' = LiveIds /\ admitted' = admitted
  BY DEF StopAgentLoop, PauseAgentLoop, ResumeAgentLoop, LiveIds, Live, admitted
<1>3. ASSUME NEW from, NEW to, loops[id].status = from,
             loops' = [loops EXCEPT ![id].status = to],
             <<from, to>> \in {<<"running", "paused">>, <<"paused", "running">>,
                               <<"running", "stopping">>}
      PROVE  Lifecycle!Steer(id)
  <2>1. shown[id] = from /\ shown' = [shown EXCEPT ![id] = to]
    BY <1>1, <1>3 DEF shown, TypeOK, Snapshot
  <2>2. QED BY <1>2, <1>3, <2>1 DEF Lifecycle!Steer, shown, admitted
<1>4. CASE StopAgentLoop(id) /\ loops[id].status = "running"
  BY <1>3, <1>4 DEF StopAgentLoop
<1>5. CASE StopAgentLoop(id) /\ loops[id].status # "running"
  BY <1>2, <1>5 DEF StopAgentLoop, Stutter, shown
<1>6. CASE PauseAgentLoop(id)
  BY <1>3, <1>6 DEF PauseAgentLoop
<1>7. CASE ResumeAgentLoop(id)
  BY <1>3, <1>7 DEF ResumeAgentLoop
<1>8. QED BY <1>4, <1>5, <1>6, <1>7

\* A heartbeat cannot be seen; what a runner says last settles its loop.
LEMMA ProgressIsSettle ==
    ASSUME RefinementInv, NEW id \in LoopIds, AgentLoopProgress(id)
    PROVE  Lifecycle!Settle(id) \/ Stutter
<1> DEFINE m == Head(mailbox[id])
<1>1. TypeOK /\ LoopInvAt(id) /\ (runner[id].pc = "exited" => EndsOnce(id))
  BY DEF RefinementInv, SafetyInv, LoopInv, EndInv
<1>2. LiveIds' = LiveIds /\ admitted' = admitted
  BY DEF AgentLoopProgress, LiveIds, Live, admitted
<1>3. mailbox[id] # <<>> /\ mailbox[id] \in Seq(Progress)
  BY <1>1 DEF AgentLoopProgress, TypeOK
<1>4. /\ Len(mailbox[id]) \in Nat /\ Len(mailbox[id]) >= 1 /\ m = mailbox[id][1]
      /\ m \in Progress
  <2>1. Len(mailbox[id]) \in Nat /\ Len(mailbox[id]) >= 1 /\ m = mailbox[id][1]
    BY <1>3, TailKeepsLast
  <2>2. m \in Progress
    BY <1>3
  <2>3. QED BY <2>1, <2>2
<1>5. runner[id].pc # "unborn"
  BY <1>1, <1>3 DEF LoopInvAt, Fresh
<1>6. CASE ~Known(id)
  BY <1>2, <1>6 DEF AgentLoopProgress, Stutter, shown
<1>7. ASSUME Known(id), loops[id].status \in Held, m.status = "running"
      PROVE  Stutter
  <2>1. loops'[id].status = loops[id].status
    BY <1>1, <1>7 DEF AgentLoopProgress, Applied, TypeOK, Held
  <2>2. \A i \in LoopIds \ {id} : loops'[i] = loops[i]
    BY <1>1 DEF AgentLoopProgress, TypeOK
  <2>3. QED BY <1>2, <2>1, <2>2 DEF Stutter, shown
<1>8. ASSUME Known(id), runner[id].pc = "exited",
             \/ loops[id].status \in Held /\ m.status \in Settled
             \/ loops[id].status \in Settled /\ MayFollow(loops[id].status, m.status)
      PROVE  Lifecycle!Settle(id) \/ Stutter
  <2>1. loops'[id].status = m.status
    BY <1>1, <1>8, HeldIsNotSettled
       DEF AgentLoopProgress, Applied, TypeOK, Held, MayFollow, Settled, Terminal
  <2>2. shown' = [shown EXCEPT ![id] = m.status]
    <3>1. \A i \in LoopIds \ {id} : loops'[i] = loops[i]
      BY <1>1 DEF AgentLoopProgress, TypeOK
    <3>2. QED BY <2>1, <3>1 DEF shown
  <2>3. id \in admitted \ LiveIds
    BY <1>8 DEF admitted, LiveIds, Live
  <2>4. CASE loops[id].status \in Held /\ m.status \in Settled
    <3>1. shown[id] \in Lifecycle!HeldStatus /\ m.status \in Lifecycle!SettledStatus
      BY <2>4 DEF shown, Held, Settled, Terminal, Lifecycle!HeldStatus,
                  Lifecycle!SettledStatus, Lifecycle!TerminalStatus
    <3>2. QED BY <1>2, <2>2, <2>3, <3>1 DEF Lifecycle!Settle, shown, admitted
  <2>5. CASE loops[id].status = "failed" /\ m.status = "stopped"
    BY <1>2, <2>2, <2>3, <2>5 DEF Lifecycle!Settle, shown, admitted
  <2>6. CASE loops[id].status = "failed" /\ m.status = "failed"
    <3>1. shown' = shown
      BY <2>2, <2>6 DEF shown
    <3>2. QED BY <1>2, <3>1 DEF Stutter
  <2>7. QED BY <1>8, <2>4, <2>5, <2>6 DEF MayFollow
<1>9. CASE Known(id) /\ Live(id)
  <2>1. /\ loops[id].status \in Held
        /\ \A i \in 1..Len(mailbox[id]) : mailbox[id][i].status = "running"
    BY <1>1, <1>9 DEF LoopInvAt, Steered
  <2>2. m.status = "running"
    BY <1>4, <2>1
  <2>3. QED BY <1>7, <1>9, <2>1, <2>2
<1>10. CASE Known(id) /\ runner[id].pc = "exited"
  <2> DEFINE q == mailbox[id]
             n == Len(q)
  <2>1. /\ \A i \in 1..(n - 1) :
              q[i].status = "running" \/ (i = n - 1 /\ MayFollow(q[i].status, q[n].status))
        /\ loops[id].status \in Settled => n = 1 /\ MayFollow(loops[id].status, q[1].status)
        /\ q[n].status \in Settled
    BY <1>1, <1>3, <1>10 DEF EndsOnce, LoopInvAt, Reporting
  <2>2. loops[id].status \in Held \cup Settled
    BY <1>1, <1>10 DEF Known, TypeOK, Snapshot, Status
  <2>3. \A k \in Nat : k >= 1 /\ k # 1 => 1 \in 1..(k - 1)
    OBVIOUS
  <2>4. n = 1 \/ 1 \in 1..(n - 1)
    BY <1>4, <2>3, Zenon
  <2>5. m.status = "running" \/ m.status \in Settled
    <3>1. CASE n = 1
      BY <1>4, <2>1, <3>1
    <3>2. CASE 1 \in 1..(n - 1)
      BY <1>4, <2>1, <3>2 DEF MayFollow, Settled, Terminal
    <3>3. QED BY <2>4, <3>1, <3>2
  <2>6. loops[id].status \in Settled => MayFollow(loops[id].status, m.status)
    BY <1>4, <2>1
  <2> HIDE DEF m, q, n
  <2>7. CASE loops[id].status \in Settled
    BY <1>8, <1>10, <2>6, <2>7
  <2>8. CASE loops[id].status \in Held
    BY <1>7, <1>8, <1>10, <2>5, <2>8
  <2>9. QED BY <2>2, <2>7, <2>8
<1>11. Live(id) \/ runner[id].pc = "exited"
  BY <1>1, <1>5 DEF TypeOK, Runner, Locations, Live
<1>12. QED BY <1>6, <1>9, <1>10, <1>11

\* A runner works on unseen, or quits a held loop.
LEMMA RunnerStepIsQuit ==
    ASSUME RefinementInv, NEW id \in LoopIds, RunnerStep(id)
    PROVE  Lifecycle!Quit(id) \/ Stutter
<1>1. TypeOK /\ LoopInvAt(id) /\ runner \in [LoopIds -> Runner]
  BY DEF RefinementInv, SafetyInv, LoopInv, TypeOK
<1>2. /\ Live(id) /\ Steered(id) /\ loops' = loops
      /\ \A j \in LoopIds \ {id} : runner'[j] = runner[j]
  BY <1>1, RunnerStepFrames DEF LoopInvAt, actorVars
<1>3. Live(id)' \/ runner'[id].pc = "exited"
  BY <1>1, <1>2, RunnerStepEndsOnce
<1>4. shown' = shown /\ admitted' = admitted
  BY <1>2, <1>3 DEF shown, admitted, Live
<1>5. CASE Live(id)'
  BY <1>2, <1>4, <1>5 DEF LiveIds, Live, Stutter
<1>6. CASE runner'[id].pc = "exited"
  <2>1. id \in LiveIds /\ LiveIds' = LiveIds \ {id}
    BY <1>2, <1>6 DEF LiveIds, Live
  <2>2. shown[id] \in Lifecycle!HeldStatus
    BY <1>2 DEF shown, Steered, Held, Lifecycle!HeldStatus
  <2>3. QED BY <1>4, <2>1, <2>2 DEF Lifecycle!Quit, shown, admitted
<1>7. QED BY <1>3, <1>5, <1>6

\* A restart settles what is left of the table.
LEMMA RestartIsInterrupt ==
    ASSUME RefinementInv, NEW opened \in BOOLEAN, Restart(opened)
    PROVE  Lifecycle!Interrupt
<1>1. TypeOK
  BY DEF RefinementInv, SafetyInv
<1>2. LiveIds' = {} /\ admitted' = admitted
  <2>1. \A i \in LoopIds : runner'[i].pc = IF runner[i].pc = "unborn" THEN "unborn"
                                                                   ELSE "exited"
    BY DEF Restart, Exited
  <2>2. QED BY <2>1 DEF LiveIds, Live, admitted
<1>3. ASSUME NEW i \in LoopIds
      PROVE  /\ loops'[i].status \in Settled \cup {"absent"}
             /\ loops'[i].status = "absent" \/ loops'[i].status = db[i].status
                \/ (db[i].status \in Held /\ loops'[i].status = "failed")
             /\ db[i].status = "absent" => loops'[i].status = "absent"
  <2>1. db[i] \in Snapshot
    BY <1>1 DEF TypeOK
  <2>2. loops'[i] = IF opened THEN Reconciled(db[i]) ELSE Absent
    BY DEF Restart
  <2>3. Reconciled(db[i]).status = IF db[i].status \in Held THEN "failed" ELSE db[i].status
    BY <2>1 DEF Reconciled, Snapshot
  <2>4. "failed" \in Settled /\ Absent.status = "absent"
    BY DEF Settled, Terminal, Absent, NewSnapshot
  <2>5. db[i].status \in Held \cup Settled \cup {"absent"}
    BY <2>1 DEF Snapshot, Status
  <2>6. QED BY <2>2, <2>3, <2>4, <2>5, HeldIsNotSettled
<1>4. ASSUME NEW i \in LoopIds, i \notin admitted
      PROVE  loops'[i].status = "absent"
  <2>1. db[i] = Absent
    BY <1>4 DEF RefinementInv, SafetyInv, LoopInv, LoopInvAt, Fresh, admitted
  <2>2. QED BY <1>3, <2>1 DEF Absent, NewSnapshot
<1>5. ASSUME NEW i \in LoopIds, loops[i].status \in Settled
      PROVE  loops'[i].status \in {loops[i].status, "absent"}
  <2>1. CASE persist
    BY <1>3, <1>5, <2>1, HeldIsNotSettled DEF RefinementInv, SafetyInv, DbMirrorsMemory
  <2>2. CASE ~persist
    <3>1. loops[i] # Absent
      BY <1>5, HeldIsNotSettled DEF Absent, NewSnapshot
    <3>2. db[i] = Absent
      BY <2>2, <3>1 DEF RefinementInv, OfflineApart
    <3>3. QED BY <1>3, <3>2 DEF Absent, NewSnapshot
  <2>3. QED BY <1>1, <2>1, <2>2 DEF TypeOK
<1>6. Settled = Lifecycle!SettledStatus
  BY DEF Settled, Terminal, Lifecycle!SettledStatus, Lifecycle!TerminalStatus
<1>7. shown' \in [LoopIds -> Lifecycle!SettledStatus \cup {"absent"}]
  BY <1>3, <1>6 DEF shown
<1>8. \A i \in LoopIds \ admitted : shown'[i] = "absent"
  BY <1>4 DEF shown
<1>9. \A i \in LoopIds : shown[i] \in Lifecycle!SettledStatus =>
                             shown'[i] \in {shown[i], "absent"}
  BY <1>5, <1>6 DEF shown
<1>10. QED BY <1>2, <1>7, <1>8, <1>9 DEF Lifecycle!Interrupt, shown, admitted

LEMMA LifecycleStep ==
    RefinementInv /\ [Next]_vars => [Lifecycle!LifecycleNext]_(Lifecycle!lifecycleVars)
<1> SUFFICES ASSUME RefinementInv, [Next]_vars
             PROVE  Lifecycle!LifecycleNext \/ UNCHANGED Lifecycle!lifecycleVars
  OBVIOUS
<1>1. ASSUME Stutter PROVE UNCHANGED Lifecycle!lifecycleVars
  BY <1>1 DEF Stutter, shown, admitted, Lifecycle!lifecycleVars
<1>2. ASSUME NEW id \in LoopIds, StartAgentLoop(id)
      PROVE  Lifecycle!LifecycleNext
  BY <1>2, StartIsAdmit DEF Lifecycle!LifecycleNext
<1>3. ASSUME NEW id \in LoopIds,
             StopAgentLoop(id) \/ PauseAgentLoop(id) \/ ResumeAgentLoop(id)
      PROVE  Lifecycle!LifecycleNext \/ Stutter
  BY <1>3, ApiIsSteer DEF Lifecycle!LifecycleNext
<1>4. ASSUME NEW id \in LoopIds, AgentLoopProgress(id)
      PROVE  Lifecycle!LifecycleNext \/ Stutter
  BY <1>4, ProgressIsSettle DEF Lifecycle!LifecycleNext
<1>5. ASSUME NEW id \in LoopIds, RunnerStep(id)
      PROVE  Lifecycle!LifecycleNext \/ Stutter
  BY <1>5, RunnerStepIsQuit DEF Lifecycle!LifecycleNext
<1>6. ASSUME NEW id \in LoopIds, DeadlinePasses(id)
      PROVE  Stutter
  BY <1>6 DEF DeadlinePasses, actorVars, Stutter, shown, admitted, LiveIds, Live
<1>7. ASSUME NEW opened \in BOOLEAN, Restart(opened)
      PROVE  Lifecycle!LifecycleNext
  BY <1>7, RestartIsInterrupt DEF Lifecycle!LifecycleNext
<1>8. ASSUME UNCHANGED vars PROVE Stutter
  BY <1>8 DEF vars, Stutter, shown, admitted, LiveIds, Live
<1>9. Lifecycle!LifecycleNext \/ Stutter
  BY <1>2, <1>3, <1>4, <1>5, <1>6, <1>7, <1>8 DEF Next
<1>10. QED BY <1>1, <1>9

\* What a client may rely on (LoopLifecycle) is what the actor, its runners,
\* their mailboxes, pruning and restarts do, step by step, for any number of
\* loops and any limits.
THEOREM LifecycleImplemented == Spec => ImplementsLifecycle
<1>1. Init => Lifecycle!LifecycleInit
  <2> SUFFICES ASSUME Init PROVE Lifecycle!LifecycleInit
    OBVIOUS
  <2>1. shown = [id \in LoopIds |-> "absent"]
    BY DEF Init, shown, Absent, NewSnapshot
  <2>2. LiveIds = {} /\ admitted = {}
    BY DEF Init, LiveIds, Live, admitted
  <2>3. QED BY <2>1, <2>2 DEF Lifecycle!LifecycleInit, shown, admitted
<1>2. QED
  BY <1>1, LifecycleStep, RefinementInvariant, PTL
     DEF Spec, ImplementsLifecycle, Lifecycle!LifecycleSpec
=============================================================================
