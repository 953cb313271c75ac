----------------------------- MODULE Proactive -----------------------------
(***************************************************************************)
(* plugins/proactive-plugin/src/lib.rs: messages the assistant begins.     *)
(* Reminders are filed by two tools of the LLM and cancelled when their    *)
(* peer writes; idle triggers come when a peer has been silent long        *)
(* enough.  A background thread polls both and publishes                   *)
(* proactive.trigger, which the pipeline answers with a turn.              *)
(*                                                                         *)
(* Time is relative: a wait counts down to zero, an age counts up to the   *)
(* longest wait that anything is compared with, and the clock goes round a *)
(* day.  So runs of any length have finitely many states.                  *)
(*                                                                         *)
(* Left out: PROACTIVE_CHAT_ID and PROACTIVE_SOURCE (the default, which    *)
(* detects both), and what is published besides or instead of the trigger  *)
(* (PROACTIVE_AGENT_LOOP_MODE).                                            *)
(***************************************************************************)
EXTENDS Integers

CONSTANTS
    Peers,
    Watched,        \* bound on the activities followed: peers do not touch each other's
    Ids,            \* bound on the reminders: their slots
    Delays,         \* bound on the delays the tools are asked for
    Idle, IdleJitter, Cooldown, CooldownJitter,
    Snooze,         \* a third of Idle, but a minute at least
    MinMessages, DailyLimit, MaxBackoff,
    MaxUnanswered,  \* the exponent goes no further (8)
    Day,            \* units of time in a day
    Windows,        \* bound on PROACTIVE_TIME_WINDOWS: sets of windows, from and to
    Nobody

ASSUME ProactiveAssumption ==
    /\ Watched \subseteq Peers
    /\ Delays \subseteq Nat \ {0}
    /\ Idle \in Nat /\ Cooldown \in Nat /\ Snooze \in Nat \ {0}
    /\ IdleJitter \in 0..95 /\ CooldownJitter \in 0..95
    /\ MinMessages \in Nat /\ DailyLimit \in Nat
    /\ MaxBackoff \in Nat \ {0} /\ MaxUnanswered \in Nat
    /\ Day \in Nat \ {0} /\ Windows \subseteq SUBSET (Nat \X Nat)
    /\ Nobody \notin Peers

VARIABLES
    mode,      \* PROACTIVE_MODE
    enabled,   \* PROACTIVE_AUTONOMOUS_ENABLED
    windows,   \* time_windows
    clock,     \* time of the day
    tasks,     \* scheduled, all peers together
    peers,     \* PeerActivity of each peer
    target,    \* current_peer_id, or else the detected chat_id and source
    today,     \* idle triggers of each peer since midnight (remembered)
    fate       \* what became of the reminder in a slot (remembered)

vars == <<mode, enabled, windows, clock, tasks, peers, target, today, fate>>

----------------------------------------------------------------------------
\* Data

Least(a, b) == IF a < b THEN a ELSE b
Most(a, b) == IF a > b THEN a ELSE b

Radius(base, pct) == (base * pct) \div 100
Shortest(base, pct) == base - Radius(base, pct)
Longest(base, pct) == base + Radius(base, pct)

\* jitter_duration
Jittered(base, pct) == Shortest(base, pct)..Longest(base, pct)

\* Twice as long for each idle trigger without an answer.
PowerOf2[n \in 0..MaxUnanswered] == IF n = 0 THEN 1 ELSE 2 * PowerOf2[n - 1]
Backoff(unanswered) == Least(PowerOf2[Least(unanswered, MaxUnanswered)], MaxBackoff)

Never == -1
MaxAge == Most(Longest(Idle * MaxBackoff, IdleJitter), Longest(Cooldown * MaxBackoff, CooldownJitter))
MaxWait == Most(MaxAge, Longest(Snooze, Most(IdleJitter, 50)))
Older(age) == IF age = Never THEN Never ELSE Least(age + 1, MaxAge)
Sooner(wait) == IF wait = Never THEN Never ELSE Most(wait - 1, 0)

NoTask == [peer |-> Nobody, left |-> 0, every |-> 0]

\* every is zero for a task that fires once.
Task == [peer: Peers, left: Nat, every: Delays \cup {0}]

\* interaction: the age of the later of last_user_at and last_assistant_at.
Activity ==
    [interaction: Never..MaxAge, idled: Never..MaxAge, due: Never..MaxWait,
     unanswered: 0..MaxUnanswered, counted: Nat, wrote: 0..MinMessages]

NoActivity ==
    [interaction |-> Never, idled |-> Never, due |-> Never,
     unanswered |-> 0, counted |-> 0, wrote |-> 0]

\* None while the reminder waits, and for a recurring one again when it has begun
\* to wait for the next time.
Fate == {"none", "fired", "cancelled", "lost"}

TypeOK ==
    /\ mode \in {"auto", "semi-auto"} /\ enabled \in BOOLEAN /\ windows \in Windows
    /\ clock \in 0..(Day - 1)
    /\ tasks \in [Ids -> Task \cup {NoTask}]
    /\ peers \in [Watched -> Activity]
    /\ target \in Peers \cup {Nobody}
    /\ today \in [Watched -> Nat]
    /\ fate \in [Ids -> Fate]

Init ==
    /\ mode \in {"auto", "semi-auto"} /\ enabled \in BOOLEAN /\ windows \in Windows
    /\ clock \in 0..(Day - 1)
    /\ tasks = [i \in Ids |-> NoTask]
    /\ peers = [p \in Watched |-> NoActivity]
    /\ target = Nobody
    /\ today = [p \in Watched |-> 0]
    /\ fate = [i \in Ids |-> "none"]

----------------------------------------------------------------------------
\* When a peer may be addressed next

\* Mutation: the last idle trigger is forgotten.
NextWithoutCooldown(a) ==
    IF a.interaction = Never THEN {Never}
    ELSE {Most(wait - a.interaction, 0) : wait \in Jittered(Idle * Backoff(a.unanswered), IdleJitter)}

\* compute_next_autonomous_at
NextDue(a) ==
    LET b == Backoff(a.unanswered)
        silence == {Most(wait - a.interaction, 0) : wait \in Jittered(Idle * b, IdleJitter)}
        pause == {Most(wait - a.idled, 0) : wait \in Jittered(Cooldown * b, CooldownJitter)}
    IN
    IF a.interaction = Never THEN {Never}
    ELSE IF a.idled = Never THEN silence
    ELSE {Most(x, y) : x \in silence, y \in pause}

WithDue(a) == {[a EXCEPT !.due = d] : d \in NextDue(a)}

\* Whatever a message changes, a new time is drawn.
Touched(a) == IF enabled THEN WithDue(a) ELSE {a}

Follow(p, a) ==
    IF p \in Watched THEN \E b \in Touched(a) : peers' = [peers EXCEPT ![p] = b]
    ELSE UNCHANGED peers

----------------------------------------------------------------------------
\* on_event

\* The user is back: all reminders of this peer go.
Cancel(p) ==
    /\ tasks' = [i \in Ids |-> IF tasks[i].peer = p THEN NoTask ELSE tasks[i]]
    /\ fate' = [i \in Ids |-> IF tasks[i].peer = p THEN "cancelled" ELSE fate[i]]

UserMessage(p) ==
    /\ Follow(p, [peers[p] EXCEPT !.interaction = 0, !.unanswered = 0,
                                  !.wrote = Least(@ + 1, MinMessages)])
    /\ target' = p
    /\ Cancel(p)
    /\ UNCHANGED <<mode, enabled, windows, clock, today>>

\* A message of the assistant only makes known a chat where none is known yet.
AssistantMessage(p) ==
    /\ Follow(p, [peers[p] EXCEPT !.interaction = 0])
    /\ target' = IF target = Nobody THEN p ELSE target
    /\ UNCHANGED <<mode, enabled, windows, clock, tasks, today, fate>>

----------------------------------------------------------------------------
\* The tools.  They are called by a turn of any peer or by an agent loop, and file
\* the reminder for the peer that wrote last, whoever's turn it is.

File(i, delay, every) ==
    /\ tasks[i] = NoTask
    /\ target # Nobody
    /\ tasks' = [tasks EXCEPT ![i] = [peer |-> target, left |-> delay, every |-> every]]
    /\ fate' = [fate EXCEPT ![i] = "none"]
    /\ UNCHANGED <<mode, enabled, windows, clock, peers, target, today>>

ScheduleOnce(i, delay) == File(i, delay, 0)

ScheduleRecurring(i, delay) == File(i, delay, delay)

----------------------------------------------------------------------------
\* The background thread

\* contains_now: a window from the evening into the morning contains no time at all.
Contains(t) == \E w \in windows : w[1] <= t /\ t <= w[2]

InWindow == mode = "auto" \/ Contains(clock)

Fires(i) == tasks[i] # NoTask /\ tasks[i].left = 0

\* Mutation: a task that is not due is drained and not kept.
DrainsAll(i) ==
    LET t == tasks[i]
    IN IF t = NoTask \/ t.left > 0 \/ t.every = 0 THEN NoTask ELSE [t EXCEPT !.left = t.every]

\* A task that is due fires, and a recurring one begins to wait again.
Polled(i) ==
    LET t == tasks[i]
    IN IF t = NoTask \/ t.left > 0 THEN t
       ELSE IF t.every = 0 THEN NoTask
       ELSE [t EXCEPT !.left = t.every]

\* Mutation: the limit is one too many.
OneMore(p) ==
    /\ enabled
    /\ peers[p].wrote >= MinMessages
    /\ DailyLimit = 0 \/ peers[p].counted <= DailyLimit
    /\ \A i \in Ids : Polled(i).peer # p

\* The conditions of an idle trigger besides its time.
MayIdle(p) ==
    /\ enabled
    /\ peers[p].wrote >= MinMessages
    /\ DailyLimit = 0 \/ peers[p].counted < DailyLimit
    /\ \A i \in Ids : Polled(i).peer # p

\* Mutation: the exponent grows without end.
IdlesOn(a) ==
    WithDue([a EXCEPT !.idled = 0, !.counted = @ + 1, !.unanswered = @ + 1])

Idles(a) ==
    WithDue([a EXCEPT !.idled = 0, !.counted = @ + 1,
                      !.unanswered = Least(@ + 1, MaxUnanswered)])

\* The dice say: not now.
Snoozes(a) == {[a EXCEPT !.due = d] : d \in Jittered(Snooze, Most(IdleJitter, 50))}

Outcomes(p) ==
    IF MayIdle(p) /\ peers[p].due = 0 THEN Idles(peers[p]) \cup Snoozes(peers[p])
    ELSE {peers[p]}

\* tick: all reminders that are due, then the idle peers, under one lock.
Tick ==
    /\ InWindow
    /\ tasks' = [i \in Ids |-> Polled(i)]
    /\ peers' \in {after \in [Watched -> UNION {Outcomes(p) : p \in Watched}] :
                     \A p \in Watched : after[p] \in Outcomes(p)}
    /\ today' = [p \in Watched |-> today[p] + peers'[p].counted - peers[p].counted]
    /\ fate' = [i \in Ids |-> IF Fires(i) THEN "fired"
                              ELSE IF tasks[i] # NoTask THEN "none" ELSE fate[i]]
    /\ UNCHANGED <<mode, enabled, windows, clock, target>>

\* A unit of time passes.  At midnight the day key changes.
Pass ==
    LET midnight == clock + 1 = Day
    IN
    /\ clock' = (clock + 1) % Day
    /\ tasks' = [i \in Ids |-> [tasks[i] EXCEPT !.left = Sooner(@)]]
    /\ peers' = [p \in Watched |->
         [peers[p] EXCEPT !.interaction = Older(@), !.idled = Older(@), !.due = Sooner(@),
                          !.counted = IF midnight THEN 0 ELSE @]]
    /\ today' = IF midnight THEN [p \in Watched |-> 0] ELSE today
    /\ UNCHANGED <<mode, enabled, windows, target, fate>>

\* stop and start, or a crash: nothing is kept.
Restart ==
    /\ tasks' = [i \in Ids |-> NoTask]
    /\ peers' = [p \in Watched |-> NoActivity]
    /\ target' = Nobody
    /\ today' = [p \in Watched |-> 0]
    /\ fate' = [i \in Ids |-> IF tasks[i] # NoTask THEN "lost" ELSE fate[i]]
    /\ UNCHANGED <<mode, enabled, windows, clock>>

Next ==
    \/ \E p \in Peers : UserMessage(p) \/ AssistantMessage(p)
    \/ \E i \in Ids, delay \in Delays : ScheduleOnce(i, delay) \/ ScheduleRecurring(i, delay)
    \/ Tick \/ Pass \/ Restart

Spec == Init /\ [][Next]_vars

\* The thread polls every few seconds, far more often than the windows open and
\* close.
FairSpec == Spec /\ WF_vars(Pass) /\ SF_vars(Tick)

----------------------------------------------------------------------------
\* Properties

IdleFires(p) == today'[p] > today[p]

\* PROACTIVE_AUTONOMOUS_IDLE_SECS and _COOLDOWN_SECS, with jitter and backoff: the
\* drawn times are kept and redrawn, and yet an idle trigger never comes sooner
\* after the last message and after the last idle trigger than the shortest draw
\* for the number of triggers left unanswered.
IdleTriggersAreSpaced ==
    [][\A p \in Watched : IdleFires(p) =>
         LET b == Backoff(peers[p].unanswered)
             a == peers[p]
         IN /\ a.interaction >= Shortest(Idle * b, IdleJitter)
            /\ a.idled # Never => a.idled >= Shortest(Cooldown * b, CooldownJitter)]_vars

\* PROACTIVE_AUTONOMOUS_DAILY_LIMIT holds from midnight to midnight, as long as
\* the plugin is not restarted.
DailyLimitHolds == DailyLimit > 0 => \A p \in Watched : today[p] <= DailyLimit

\* The time windows ever let a poll through.
Opens == mode = "auto" \/ \E t \in 0..(Day - 1) : Contains(t)

\* A reminder that comes due outside the time windows is put off, not dropped and
\* not stuck: as long as some window is open at some time of the day, each reminder,
\* and a recurring one again and again, fires in the end, unless the user writes or
\* the plugin is restarted first.
RemindersFire == \A i \in Ids : (tasks[i] # NoTask /\ Opens) ~> (fate[i] # "none")

\* Not so when no window is ever open, as with 22:00-06:00 or a list that cannot be
\* read (tick's comment: kept, and sent once in the window): the reminder waits for
\* ever.
PutOffAndSent == \A i \in Ids : (tasks[i] # NoTask) ~> (fate[i] # "none")

=============================================================================
