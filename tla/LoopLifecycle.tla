--------------------------- MODULE LoopLifecycle ---------------------------
(***************************************************************************)
(* What a client of the agent-loop API may rely on, with no mailbox, flag, *)
(* runner position or database in sight: the status the API shows for each *)
(* loop, and which loops have a task working for them.  AgentLoop is shown *)
(* to implement it.                                                        *)
(*                                                                         *)
(* The promises: an id is admitted once; at most Limit loops are worked    *)
(* for; a loop is steered only while it is held; only a loop whose task    *)
(* has ended settles, and a settled loop never moves again, except that a  *)
(* failure may still turn into the stop that was asked for; only terminal  *)
(* loops are evicted; after a restart nothing is held and nobody works.    *)
(***************************************************************************)
EXTENDS Integers, FiniteSets

CONSTANTS Ids,    \* loop ids
          Limit   \* loops worked for at once, 0 = no limit

VARIABLES status,   \* what the API shows for each id
          working,  \* ids with a live task
          born      \* ids admitted so far

lifecycleVars == <<status, working, born>>

HeldStatus     == {"running", "paused", "stopping"}
TerminalStatus == {"completed", "stopped", "failed"}
SettledStatus  == TerminalStatus \cup {"waiting_for_user"}

LifecycleInit ==
    /\ status = [id \in Ids |-> "absent"]
    /\ working = {}
    /\ born = {}

\* A fresh id starts to run and old terminal loops may be evicted.
Admit(id) ==
    /\ id \notin born
    /\ Limit = 0 \/ Cardinality(working) < Limit
    /\ born' = born \cup {id}
    /\ working' = working \cup {id}
    /\ \E out \in SUBSET {i \in Ids : status[i] \in TerminalStatus} :
           status' = [i \in Ids |-> IF i = id THEN "running"
                                    ELSE IF i \in out THEN "absent"
                                    ELSE status[i]]

\* A client pauses, resumes or stops a held loop.
Steer(id) ==
    /\ \E move \in {<<"running", "paused">>, <<"paused", "running">>,
                    <<"running", "stopping">>} :
           /\ status[id] = move[1]
           /\ status' = [status EXCEPT ![id] = move[2]]
    /\ UNCHANGED <<working, born>>

\* The task of a held loop ends.
Quit(id) ==
    /\ id \in working
    /\ status[id] \in HeldStatus
    /\ working' = working \ {id}
    /\ UNCHANGED <<status, born>>

\* The end of the task becomes visible.
Settle(id) ==
    /\ id \in born \ working
    /\ \/ /\ status[id] \in HeldStatus
          /\ \E s \in SettledStatus : status' = [status EXCEPT ![id] = s]
       \/ /\ status[id] = "failed"
          /\ status' = [status EXCEPT ![id] = "stopped"]
    /\ UNCHANGED <<working, born>>

\* The process restarts: what is left of the table is settled.
Interrupt ==
    /\ working' = {}
    /\ status' \in [Ids -> SettledStatus \cup {"absent"}]
    /\ \A id \in Ids \ born : status'[id] = "absent"
    /\ \A id \in Ids : status[id] \in SettledStatus =>
           status'[id] \in {status[id], "absent"}
    /\ UNCHANGED born

LifecycleNext ==
    \/ \E id \in Ids : Admit(id) \/ Steer(id) \/ Quit(id) \/ Settle(id)
    \/ Interrupt

LifecycleSpec == LifecycleInit /\ [][LifecycleNext]_lifecycleVars
=============================================================================
