----------------------------- MODULE Admission -----------------------------
(***************************************************************************)
(* rate_limit_actor.rs and token_usage_actor.rs, and the turns of          *)
(* pipeline.rs that ask both before they ask the LLM: a token bucket for   *)
(* all peers together, and a budget of LLM tokens over rolling windows.    *)
(* What a turn spends is recorded after each answer, by a message that     *)
(* waits in the mailbox of TokenUsageActor behind the checks of others.    *)
(* Agent loops and the chat API record what they spend but never ask.      *)
(*                                                                         *)
(* A tick is the time in which the bucket regains Refill tokens; a record  *)
(* is known by its age in ticks, up to the longest window.  Left out: what *)
(* is counted besides the total (models, cache hits, calls).               *)
(***************************************************************************)
EXTENDS Integers, Sequences

CONSTANTS
    MaxTurns,    \* bound on the turns at once
    Burst,       \* RATE_LIMIT_BURST
    Refill,      \* RATE_LIMIT_PER_MIN, for one tick
    Periods,     \* those of daily, weekly, monthly that have a limit
    Window,      \* their length in ticks
    Longest,     \* no window is longer
    Limit,       \* TOKEN_BUDGET_*
    Dearest,     \* bound on the tokens of one answer
    Answers,     \* answers of one turn: LLM_MAX_TOOL_ROUNDS + 1
    Others       \* bound on the answers recorded in one tick by those who do not ask

ASSUME AdmissionAssumption ==
    /\ MaxTurns \in Nat
    /\ Burst \in Nat /\ Refill \in Nat
    /\ Longest \in Nat
    /\ Window \in [Periods -> 0..Longest] /\ Limit \in [Periods -> Nat \ {0}]
    /\ Dearest \in Nat /\ Answers \in Nat \ {0} /\ Others \in Nat

VARIABLES
    tokens,     \* of the bucket
    admitted,   \* requests the bucket let through, by age (remembered)
    turns,      \* where each turn is, and how many answers it may still get
    mail,       \* mailbox of TokenUsageActor
    recorded    \* token_usage: totals by who spent them and by age

vars == <<tokens, admitted, turns, mail, recorded>>

----------------------------------------------------------------------------
\* Data

Slots == 1..MaxTurns
Ages == 0..Longest
TurnCost == Answers * Dearest

Idle == [stage |-> "idle", left |-> 0]
Checking == [stage |-> "checking", left |-> 0]
Running(n) == [stage |-> "running", left |-> n]

CheckTokenBudget(s) == [check |-> TRUE, by |-> s, total |-> 0]
RecordTokenUsage(s, n) == [check |-> FALSE, by |-> s, total |-> n]

\* f[1] + ... + f[n]
SumTo(f, n) ==
    LET sum[k \in 0..n] == IF k = 0 THEN 0 ELSE sum[k - 1] + f[k]
    IN  sum[n]

\* What happened in the last a ticks and in this one.
Since(f, a) == f[0] + SumTo(f, a)

\* SUM(total_tokens) WHERE created_at >= datetime('now', window)
SpentBy(who, p) == Since(recorded[who], Window[p])
Used(p) == SpentBy("turns", p) + SpentBy("others", p)

\* evaluate_budget
AllowedOver == \A p \in Periods : Used(p) <= Limit[p]
Allowed == \A p \in Periods : Used(p) < Limit[p]

NothingSpent == [a \in Ages |-> 0]

Init ==
    /\ tokens = Burst
    /\ admitted = NothingSpent
    /\ turns = [s \in Slots |-> Idle]
    /\ mail = <<>>
    /\ recorded = [turns |-> NothingSpent, others |-> NothingSpent]

----------------------------------------------------------------------------
\* The bucket: refilled when it is asked, so refilling it as time passes is
\* the same.

Uncapped(n) == n + Refill
Refilled(n) == IF n + Refill < Burst THEN n + Refill ELSE Burst

ConsumeOne(s) ==
    /\ tokens' = tokens - 1
    /\ admitted' = [admitted EXCEPT ![0] = @ + 1]
    /\ turns' = [turns EXCEPT ![s] = Checking]
    /\ mail' = Append(mail, CheckTokenBudget(s))

PassesAtZero(s) ==
    /\ tokens >= 0
    /\ ConsumeOne(s)

\* process_message: CheckRateLimit, then CheckTokenBudget is sent
RatePasses(s) ==
    /\ tokens >= 1
    /\ ConsumeOne(s)

Begin(s) ==
    /\ turns[s] = Idle
    /\ RatePasses(s)
    /\ UNCHANGED recorded

----------------------------------------------------------------------------
\* TokenUsageActor takes its messages in order

Check ==
    /\ Head(mail).check
    /\ turns' = [turns EXCEPT ![Head(mail).by] = IF Allowed THEN Running(Answers) ELSE Idle]
    /\ UNCHANGED recorded

Record ==
    /\ ~Head(mail).check
    /\ recorded' = [recorded EXCEPT !.turns[0] = recorded.turns[0] + Head(mail).total]
    /\ UNCHANGED turns

HandleMail ==
    /\ mail # <<>>
    /\ mail' = Tail(mail)
    /\ Check \/ Record
    /\ UNCHANGED <<tokens, admitted>>

\* The LLM answers: the usage is sent, and the turn ends or calls tools.
Answer(s) ==
    /\ turns[s].stage = "running"
    /\ \E n \in 0..Dearest : mail' = Append(mail, RecordTokenUsage(s, n))
    /\ turns' = [turns EXCEPT ![s] = IF @.left = 1 THEN Idle ELSE Running(@.left - 1)]
    /\ UNCHANGED <<tokens, admitted, recorded>>

\* It ends without another answer, or the LLM fails.
End(s) ==
    /\ turns[s].stage = "running"
    /\ turns' = [turns EXCEPT ![s] = Idle]
    /\ UNCHANGED <<tokens, admitted, mail, recorded>>

\* An agent loop or the chat API: nobody waits for the record, so the place
\* of its message in the mailbox does not matter.
OthersSpend ==
    /\ recorded.others[0] < Others * Dearest
    /\ \E n \in 0..Dearest : recorded' = [recorded EXCEPT !.others[0] = recorded.others[0] + n]
    /\ UNCHANGED <<tokens, admitted, turns, mail>>

Older(f) == [a \in Ages |-> IF a = 0 THEN 0 ELSE f[a - 1]]
Tick ==
    /\ tokens' = Refilled(tokens)
    /\ admitted' = Older(admitted)
    /\ recorded' = [turns |-> Older(recorded.turns), others |-> Older(recorded.others)]
    /\ UNCHANGED <<turns, mail>>

\* Records that were not handled are lost, and the bucket is full again.
Restart ==
    /\ tokens' = Burst
    /\ admitted' = NothingSpent
    /\ turns' = [s \in Slots |-> Idle]
    /\ mail' = <<>>
    /\ UNCHANGED recorded

Next ==
    \/ \E s \in Slots : Begin(s) \/ Answer(s) \/ End(s)
    \/ HandleMail
    \/ OthersSpend
    \/ Tick
    \/ Restart

Spec == Init /\ [][Next]_vars

----------------------------------------------------------------------------
\* Properties

(***************************************************************************)
(* Counters are what they say, and a turn that waits for its check has one *)
(* in the mailbox.                                                         *)
(***************************************************************************)
TypeOK ==
    /\ tokens \in 0..Burst
    /\ admitted \in [Ages -> Nat]
    /\ turns \in [Slots -> {Idle, Checking} \cup {Running(n) : n \in 1..Answers}]
    /\ mail \in Seq([check : BOOLEAN, by : Slots, total : Nat])
    /\ recorded \in [turns : [Ages -> Nat], others : [Ages -> Nat]]
    /\ \A s \in Slots :
          (turns[s] = Checking) <=> \E i \in DOMAIN mail : mail[i] = CheckTokenBudget(s)

(***************************************************************************)
(* In any span of time, up to now and as far back as one looks, but not    *)
(* beyond a restart, which fills the bucket, it lets through no more than  *)
(* a burst and what it regains in that span.                               *)
(***************************************************************************)
RateHolds ==
    \A a \in Ages : Since(admitted, a) <= Burst + a * Refill

\* What is not recorded yet of the turns of s that have been let through.
Unrecorded(s) ==
    SumTo([i \in DOMAIN mail |-> IF mail[i].by = s THEN mail[i].total ELSE 0], Len(mail))
    + turns[s].left * Dearest

Underway == SumTo([s \in Slots |-> Unrecorded(s)], MaxTurns)

(***************************************************************************)
(* The budget is looked at before a turn and spent during it, so turns     *)
(* that overlap exceed it together: by less than what as many turns cost   *)
(* as there can be at once, in every window, whatever the order of checks, *)
(* answers and records.                                                    *)
(***************************************************************************)
OvershootIsBounded ==
    \A p \in Periods :
        SpentBy("turns", p) + Underway < Limit[p] + MaxTurns * TurnCost
=============================================================================
