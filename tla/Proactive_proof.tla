-------------------------- MODULE Proactive_proof --------------------------
(***************************************************************************)
(* Proofs about Proactive, for any peers, reminders, delays, windows and   *)
(* limits, and any base, jitter and backoff of the waits.                  *)
(*                                                                         *)
(* A drawn time counts down while the ages it was drawn from count up, so  *)
(* what is left of it and the age always make up the shortest draw         *)
(* (DueInv): that is why a time need not be compared again when it comes.  *)
(***************************************************************************)
EXTENDS Proactive, TLAPS, WellFoundedInduction

----------------------------------------------------------------------------
\* Waits

LEMMA ProductMonotone == \A a, b, c \in Nat : a <= b => a * c <= b * c
OBVIOUS

LEMMA RadiusBounds ==
    ASSUME NEW base \in Nat, NEW pct \in 0..95
    PROVE  /\ Radius(base, pct) \in Nat /\ Radius(base, pct) <= base
           /\ Shortest(base, pct) \in Nat /\ Longest(base, pct) \in Nat
           /\ Shortest(base, pct) <= Longest(base, pct)
<1>1. base * pct \in Nat
  OBVIOUS
<1>2. base * pct <= base * 100
  OBVIOUS
<1> DEFINE x == base * pct
<1>3. x \in Nat /\ x <= base * 100
  BY <1>1, <1>2
<1> HIDE DEF x
<1>4. x \div 100 \in Nat /\ x \div 100 <= base
  BY <1>3
<1>5. Radius(base, pct) = x \div 100
  BY DEF Radius, x
<1>6. QED BY <1>4, <1>5 DEF Shortest, Longest

LEMMA LongestMonotone ==
    ASSUME NEW a \in Nat, NEW b \in Nat, a <= b, NEW pct \in 0..95
    PROVE  Longest(a, pct) <= Longest(b, pct)
<1> DEFINE x == a * pct
<1> DEFINE y == b * pct
<1>1. x \in Nat /\ y \in Nat /\ x <= y
  BY ProductMonotone
<1> HIDE DEF x, y
<1>2. x \div 100 <= y \div 100 /\ x \div 100 \in Nat /\ y \div 100 \in Nat
  BY <1>1
<1>3. Longest(a, pct) = a + x \div 100 /\ Longest(b, pct) = b + y \div 100
  BY DEF Longest, Radius, x, y
<1>4. QED BY <1>2, <1>3

\* Induction over the natural numbers, for a set.
LEMMA SetInduction ==
    ASSUME NEW S, 0 \in S, \A n \in Nat : n \in S => n + 1 \in S
    PROVE  Nat \subseteq S
<1> SUFFICES ASSUME ~(Nat \subseteq S) PROVE FALSE
  OBVIOUS
<1> DEFINE T == Nat \ S
<1> DEFINE R == OpToRel(<,Nat)
<1>1. T \subseteq Nat /\ T # {}
  OBVIOUS
<1>2. IsWellFoundedOn(R, Nat)
  BY NatLessThanWellFounded
<1> HIDE DEF R
<1>3. PICK x \in T : \A y \in T : <<y, x>> \notin R
  BY <1>1, <1>2, WFMin
<1>4. x # 0 /\ x - 1 \in Nat /\ x - 1 \notin S
  OBVIOUS
<1>5. <<x - 1, x>> \in R
  <2> DEFINE z == <<x - 1, x>>
  <2>1. z \in Nat \X Nat /\ z[1] < z[2]
    BY <1>4
  <2> HIDE DEF z
  <2>2. z \in R
    BY <2>1 DEF R, OpToRel
  <2>3. QED
    BY <2>2 DEF z
<1>6. QED
  BY <1>3, <1>4, <1>5

\* d holds the powers of two up to the n-th.
IsPowers(d, n) == d = [k \in 0..n |-> IF k = 0 THEN 1 ELSE 2 * d[k - 1]]

LEMMA PowersExist == \A n \in Nat : \E d : IsPowers(d, n) /\ \A k \in 0..n : d[k] \in Nat \ {0}
<1> DEFINE S == {n \in Nat : \E d : IsPowers(d, n) /\ \A k \in 0..n : d[k] \in Nat \ {0}}
<1>1. 0 \in S
  <2> DEFINE d == [k \in 0..0 |-> 1]
  <2>1. d = [k \in 0..0 |-> IF k = 0 THEN 1 ELSE 2 * d[k - 1]] /\ \A k \in 0..0 : d[k] \in Nat \ {0}
    OBVIOUS
  <2>2. QED
    BY <2>1 DEF IsPowers
<1>2. ASSUME NEW n \in Nat, n \in S PROVE n + 1 \in S
  <2>1. PICK d : IsPowers(d, n) /\ \A k \in 0..n : d[k] \in Nat \ {0}
    BY <1>2
  <2>2. \A k \in 0..n : d[k] = IF k = 0 THEN 1 ELSE 2 * d[k - 1]
    BY ONLY <2>1 DEF IsPowers
  <2> DEFINE e == [k \in 0..(n + 1) |-> IF k <= n THEN d[k] ELSE 2 * d[n]]
  <2>3. ASSUME NEW k \in 0..(n + 1)
        PROVE  e[k] = (IF k = 0 THEN 1 ELSE 2 * e[k - 1]) /\ e[k] \in Nat \ {0}
    <3>1. n \in 0..n /\ d[n] \in Nat \ {0}
      BY <2>1
    <3>2. CASE k \in 0..n
      BY <2>1, <2>2, <3>2
    <3>3. CASE k = n + 1
      BY <3>1, <3>3
    <3>4. QED
      BY <3>2, <3>3
  <2>4. e = [k \in 0..(n + 1) |-> e[k]]
    OBVIOUS
  <2> HIDE DEF e
  <2>5. e = [k \in 0..(n + 1) |-> IF k = 0 THEN 1 ELSE 2 * e[k - 1]]
    BY <2>3, <2>4
  <2>6. IsPowers(e, n + 1)
    BY <2>5 DEF IsPowers
  <2>7. \A k \in 0..(n + 1) : e[k] \in Nat \ {0}
    BY <2>3
  <2>8. QED
    BY <2>6, <2>7
<1> HIDE DEF S
<1>3. Nat \subseteq S
  BY <1>1, <1>2, SetInduction
<1>4. QED
  BY <1>3 DEF S

LEMMA PowersAreNumbers == \A n \in 0..MaxUnanswered : PowerOf2[n] \in Nat \ {0}
<1>1. MaxUnanswered \in Nat
  BY ProactiveAssumption
<1>2. IsPowers(PowerOf2, MaxUnanswered)
  <2>1. \E d : IsPowers(d, MaxUnanswered)
    BY <1>1, PowersExist
  <2>2. QED
    BY <2>1 DEF PowerOf2, IsPowers
<1>3. \A k \in 0..MaxUnanswered :
        PowerOf2[k] = IF k = 0 THEN 1 ELSE 2 * PowerOf2[k - 1]
  BY ONLY <1>2 DEF IsPowers
<1> DEFINE S == {n \in Nat : n <= MaxUnanswered => PowerOf2[n] \in Nat \ {0}}
<1> HIDE DEF PowerOf2
<1>4. 0 \in S
  BY <1>1, <1>3
<1>5. ASSUME NEW n \in Nat, n \in S PROVE n + 1 \in S
  <2> SUFFICES ASSUME n + 1 <= MaxUnanswered PROVE PowerOf2[n + 1] \in Nat \ {0}
    OBVIOUS
  <2>1. n + 1 \in 0..MaxUnanswered /\ n + 1 # 0 /\ (n + 1) - 1 = n /\ n <= MaxUnanswered
    BY <1>1
  <2>2. PowerOf2[n + 1] = 2 * PowerOf2[n]
    BY <1>3, <2>1
  <2>3. QED
    BY <1>5, <2>1, <2>2
<1> HIDE DEF S
<1>6. Nat \subseteq S
  BY <1>4, <1>5, SetInduction
<1>7. QED
  BY <1>1, <1>6 DEF S

LEMMA BackoffBounds ==
    ASSUME NEW n \in 0..MaxUnanswered
    PROVE  Backoff(n) \in Nat \ {0} /\ Backoff(n) <= MaxBackoff
<1>1. PowerOf2[n] \in Nat \ {0} /\ MaxBackoff \in Nat \ {0}
  BY PowersAreNumbers, ProactiveAssumption
<1> DEFINE x == PowerOf2[n]
<1>2. x \in Nat \ {0}
  BY <1>1
<1>3. Backoff(n) = Least(x, MaxBackoff)
  <2>1. Least(n, MaxUnanswered) = n
    BY ProactiveAssumption DEF Least
  <2>2. QED BY <2>1 DEF Backoff
<1> HIDE DEF x
<1>4. QED BY <1>1, <1>2, <1>3 DEF Least

\* The waits for the silence and for the pause after an idle trigger.
SilenceFrom(n) == Shortest(Idle * Backoff(n), IdleJitter)
PauseFrom(n) == Shortest(Cooldown * Backoff(n), CooldownJitter)

LEMMA WaitBounds ==
    ASSUME NEW n \in 0..MaxUnanswered
    PROVE  /\ MaxAge \in Nat /\ MaxWait \in Nat /\ MaxAge <= MaxWait
           /\ Jittered(Idle * Backoff(n), IdleJitter) \subseteq SilenceFrom(n)..MaxAge
           /\ Jittered(Cooldown * Backoff(n), CooldownJitter) \subseteq PauseFrom(n)..MaxAge
           /\ SilenceFrom(n) \in 0..MaxAge /\ PauseFrom(n) \in 0..MaxAge
           /\ Jittered(Snooze, Most(IdleJitter, 50)) \subseteq 0..MaxWait
<1> DEFINE i == Idle * Backoff(n)
<1> DEFINE c == Cooldown * Backoff(n)
<1> DEFINE I == Idle * MaxBackoff
<1> DEFINE C == Cooldown * MaxBackoff
<1> DEFINE j == Most(IdleJitter, 50)
<1>1. Backoff(n) \in Nat /\ MaxBackoff \in Nat /\ Backoff(n) <= MaxBackoff
      /\ Idle \in Nat /\ Cooldown \in Nat /\ Snooze \in Nat
      /\ IdleJitter \in 0..95 /\ CooldownJitter \in 0..95
  BY BackoffBounds, ProactiveAssumption
<1>2. i \in Nat /\ c \in Nat /\ I \in Nat /\ C \in Nat
  BY <1>1
<1>3. i <= I /\ c <= C
  <2>1. \A a, b, k \in Nat : a <= b => k * a <= k * b
    OBVIOUS
  <2>2. QED BY <1>1, <2>1
<1>4. j \in 0..95
  BY <1>1 DEF Most
<1>5. MaxAge = Most(Longest(I, IdleJitter), Longest(C, CooldownJitter))
      /\ MaxWait = Most(MaxAge, Longest(Snooze, j))
  BY DEF MaxAge, MaxWait
<1>s. Jittered(Snooze, Most(IdleJitter, 50)) = Shortest(Snooze, j)..Longest(Snooze, j)
      /\ Jittered(Idle * Backoff(n), IdleJitter) = Shortest(i, IdleJitter)..Longest(i, IdleJitter)
      /\ Jittered(Cooldown * Backoff(n), CooldownJitter)
            = Shortest(c, CooldownJitter)..Longest(c, CooldownJitter)
      /\ SilenceFrom(n) = Shortest(i, IdleJitter) /\ PauseFrom(n) = Shortest(c, CooldownJitter)
  BY DEF Jittered, SilenceFrom, PauseFrom
<1> HIDE DEF i, c, I, C, j
<1>6. Longest(i, IdleJitter) <= Longest(I, IdleJitter)
      /\ Longest(c, CooldownJitter) <= Longest(C, CooldownJitter)
  BY <1>1, <1>2, <1>3, LongestMonotone
<1>7. /\ Shortest(i, IdleJitter) \in Nat /\ Longest(i, IdleJitter) \in Nat
      /\ Shortest(i, IdleJitter) <= Longest(i, IdleJitter)
      /\ Shortest(c, CooldownJitter) \in Nat /\ Longest(c, CooldownJitter) \in Nat
      /\ Shortest(c, CooldownJitter) <= Longest(c, CooldownJitter)
      /\ Longest(I, IdleJitter) \in Nat /\ Longest(C, CooldownJitter) \in Nat
      /\ Shortest(Snooze, j) \in Nat /\ Longest(Snooze, j) \in Nat
  BY <1>1, <1>2, <1>4, RadiusBounds
<1>8. MaxAge \in Nat /\ Longest(I, IdleJitter) <= MaxAge /\ Longest(C, CooldownJitter) <= MaxAge
  BY <1>5, <1>7 DEF Most
<1>9. MaxWait \in Nat /\ MaxAge <= MaxWait /\ Longest(Snooze, j) <= MaxWait
  BY <1>5, <1>7, <1>8 DEF Most
<1>10. Longest(i, IdleJitter) <= MaxAge /\ Longest(c, CooldownJitter) <= MaxAge
  BY <1>6, <1>7, <1>8
<1>11. QED BY <1>7, <1>8, <1>9, <1>10, <1>s

----------------------------------------------------------------------------
\* The invariant

\* What is left of a drawn time and the ages make up the shortest draw.
DueCovers(a) ==
    a.due # Never =>
       /\ a.interaction # Never /\ a.interaction + a.due >= SilenceFrom(a.unanswered)
       /\ a.idled # Never => a.idled + a.due >= PauseFrom(a.unanswered)

DueInv == enabled = TRUE => \A p \in Watched : DueCovers(peers[p])

\* The count of the day key is what has fired since midnight.
CountedIsToday ==
    \A p \in Watched : /\ today[p] = peers[p].counted
                       /\ DailyLimit > 0 => peers[p].counted <= DailyLimit

ProactiveInv == TypeOK /\ DueInv /\ CountedIsToday

LEMMA ActivityFields ==
    ASSUME NEW a \in Activity
    PROVE  /\ a.interaction \in Never..MaxAge /\ a.idled \in Never..MaxAge
           /\ a.due \in Never..MaxWait /\ a.unanswered \in 0..MaxUnanswered
           /\ a.counted \in Nat /\ a.wrote \in 0..MinMessages
           /\ MaxAge \in Nat /\ MaxWait \in Nat /\ MaxAge <= MaxWait
<1>1. 0 \in 0..MaxUnanswered
  BY ProactiveAssumption
<1>2. QED BY <1>1, WaitBounds DEF Activity

\* A time that is drawn keeps the distances, whatever it is drawn for.
LEMMA DrawnCovers ==
    ASSUME NEW a \in Activity, NEW d \in NextDue(a)
    PROVE  d \in Never..MaxWait /\ DueCovers([a EXCEPT !.due = d])
<1> DEFINE u == a.unanswered
<1> DEFINE silence == Jittered(Idle * Backoff(u), IdleJitter)
<1> DEFINE pause == Jittered(Cooldown * Backoff(u), CooldownJitter)
<1> DEFINE r == [a EXCEPT !.due = d]
<1>1. /\ a.interaction \in Never..MaxAge /\ a.idled \in Never..MaxAge /\ u \in 0..MaxUnanswered
  BY ActivityFields
<1>2. /\ MaxAge \in Nat /\ MaxWait \in Nat /\ MaxAge <= MaxWait
      /\ silence \subseteq SilenceFrom(u)..MaxAge /\ pause \subseteq PauseFrom(u)..MaxAge
      /\ SilenceFrom(u) \in 0..MaxAge /\ PauseFrom(u) \in 0..MaxAge
  BY <1>1, WaitBounds
<1>3. r.due = d /\ r.interaction = a.interaction /\ r.idled = a.idled /\ r.unanswered = u
  BY DEF Activity
<1>4. Never = -1
  BY DEF Never
<1>5. CASE a.interaction = Never
  <2>1. d = Never
    BY <1>5 DEF NextDue
  <2> HIDE DEF r
  <2>2. QED BY <1>2, <1>3, <1>4, <2>1 DEF DueCovers
<1>6. ASSUME a.interaction # Never, NEW x \in silence
      PROVE  /\ Most(x - a.interaction, 0) \in 0..MaxAge
             /\ a.interaction + Most(x - a.interaction, 0) >= SilenceFrom(u)
  <2>1. x \in SilenceFrom(u)..MaxAge /\ a.interaction \in 0..MaxAge
    BY <1>1, <1>2, <1>4, <1>6
  <2> HIDE DEF silence
  <2>2. QED BY <1>2, <2>1 DEF Most
<1>7. ASSUME a.idled # Never, NEW y \in pause
      PROVE  /\ Most(y - a.idled, 0) \in 0..MaxAge
             /\ a.idled + Most(y - a.idled, 0) >= PauseFrom(u)
  <2>1. y \in PauseFrom(u)..MaxAge /\ a.idled \in 0..MaxAge
    BY <1>1, <1>2, <1>4, <1>7
  <2> HIDE DEF pause
  <2>2. QED BY <1>2, <2>1 DEF Most
<1>8. CASE a.interaction # Never /\ a.idled = Never
  <2>1. PICK x \in silence : d = Most(x - a.interaction, 0)
    BY <1>8 DEF NextDue
  <2>2. d \in 0..MaxAge /\ a.interaction + d >= SilenceFrom(u)
    BY <1>6, <1>8, <2>1
  <2> HIDE DEF r, silence, pause
  <2>3. QED BY <1>2, <1>3, <1>4, <1>8, <2>2 DEF DueCovers
<1>9. CASE a.interaction # Never /\ a.idled # Never
  <2>1. PICK x \in silence, y \in pause : d = Most(Most(x - a.interaction, 0), Most(y - a.idled, 0))
    BY <1>9 DEF NextDue
  <2> DEFINE s == Most(x - a.interaction, 0)
  <2> DEFINE q == Most(y - a.idled, 0)
  <2>2. s \in 0..MaxAge /\ a.interaction + s >= SilenceFrom(u)
    BY <1>6, <1>9
  <2>3. q \in 0..MaxAge /\ a.idled + q >= PauseFrom(u)
    BY <1>7, <1>9
  <2>4. d = Most(s, q)
    BY <2>1
  <2>5. a.interaction \in 0..MaxAge /\ a.idled \in 0..MaxAge
    BY <1>1, <1>2, <1>4, <1>9
  <2> HIDE DEF s, q, r, silence, pause
  <2>6. d \in 0..MaxAge /\ s <= d /\ q <= d
    BY <1>2, <2>2, <2>3, <2>4 DEF Most
  <2>7. a.interaction + d >= SilenceFrom(u) /\ a.idled + d >= PauseFrom(u)
    BY <1>2, <2>2, <2>3, <2>5, <2>6
  <2>8. QED BY <1>2, <1>3, <1>4, <1>9, <2>6, <2>7 DEF DueCovers
<1>10. QED BY <1>5, <1>8, <1>9

LEMMA WithDueCovers ==
    ASSUME NEW a \in Activity, NEW b \in WithDue(a)
    PROVE  b \in Activity /\ DueCovers(b) /\ b.counted = a.counted
<1>1. PICK d \in NextDue(a) : b = [a EXCEPT !.due = d]
  BY DEF WithDue
<1>2. d \in Never..MaxWait /\ DueCovers(b)
  BY <1>1, DrawnCovers
<1>3. b \in Activity /\ b.counted = a.counted
  BY <1>1, <1>2 DEF Activity
<1>4. QED BY <1>2, <1>3

----------------------------------------------------------------------------
\* Steps

LEMMA InitInv == Init => ProactiveInv
<1> SUFFICES ASSUME Init PROVE ProactiveInv
  OBVIOUS
<1>1. NoActivity \in Activity
  <2>1. MaxAge \in Nat /\ MaxWait \in Nat /\ 0 \in 0..MaxUnanswered /\ 0 \in 0..MinMessages
    BY ProactiveAssumption, WaitBounds
  <2>2. QED BY <2>1 DEF NoActivity, Activity, Never
<1>2. NoActivity.due = Never /\ NoActivity.counted = 0
  BY DEF NoActivity
<1>3. TypeOK
  BY <1>1 DEF Init, TypeOK, Fate
<1>4. DueInv /\ CountedIsToday
  BY <1>2, ProactiveAssumption DEF Init, DueInv, DueCovers, CountedIsToday
<1>5. QED BY <1>3, <1>4 DEF ProactiveInv

\* A message changes the activity of one peer, which then draws a new time.
LEMMA FollowKeeps ==
    ASSUME ProactiveInv, NEW p \in Peers, NEW a, p \in Watched => a \in Activity,
           p \in Watched => a.counted = peers[p].counted,
           Follow(p, a), today' = today, enabled' = enabled
    PROVE  /\ peers' \in [Watched -> Activity] /\ DueInv' /\ CountedIsToday'
           /\ \A q \in Watched : peers'[q].counted = peers[q].counted
<1>0. peers \in [Watched -> Activity] /\ enabled \in BOOLEAN
  BY DEF ProactiveInv, TypeOK
<1>1. CASE p \notin Watched
  BY <1>0, <1>1 DEF Follow, ProactiveInv, DueInv, CountedIsToday
<1>2. CASE p \in Watched
  <2>1. PICK b \in Touched(a) : peers' = [peers EXCEPT ![p] = b]
    BY <1>2 DEF Follow
  <2>2. b \in Activity /\ b.counted = peers[p].counted /\ (enabled = TRUE => DueCovers(b))
    <3>1. CASE enabled = TRUE
      BY <1>2, <2>1, <3>1, WithDueCovers DEF Touched
    <3>2. CASE enabled = FALSE
      BY <1>2, <2>1, <3>2 DEF Touched
    <3>3. QED BY <1>0, <3>1, <3>2
  <2>3. peers'[p] = b /\ \A q \in Watched : q # p => peers'[q] = peers[q]
    BY <1>0, <1>2, <2>1
  <2>4. peers' \in [Watched -> Activity]
    BY <1>0, <2>1, <2>2
  <2>5. DueInv'
    BY <2>2, <2>3 DEF ProactiveInv, DueInv
  <2>6. \A q \in Watched : peers'[q].counted = peers[q].counted
    BY <2>2, <2>3
  <2>7. CountedIsToday'
    BY <2>6 DEF ProactiveInv, CountedIsToday
  <2>8. QED BY <2>4, <2>5, <2>6, <2>7
<1>3. QED BY <1>1, <1>2

LEMMA MessageKeeps ==
    ASSUME ProactiveInv, NEW p \in Peers, UserMessage(p) \/ AssistantMessage(p)
    PROVE  ProactiveInv' /\ today' = today
<1>0. peers \in [Watched -> Activity] /\ tasks \in [Ids -> Task \cup {NoTask}]
      /\ target \in Peers \cup {Nobody}
  BY DEF ProactiveInv, TypeOK
<1>1. MaxAge \in Nat /\ 0 \in 0..MaxUnanswered /\ MinMessages \in Nat /\ 0 \in Never..MaxAge
  BY ProactiveAssumption, WaitBounds DEF Never
<1>2. CASE UserMessage(p)
  <2> DEFINE a == [peers[p] EXCEPT !.interaction = 0, !.unanswered = 0,
                                   !.wrote = Least(@ + 1, MinMessages)]
  <2>1. p \in Watched => a \in Activity /\ a.counted = peers[p].counted
    <3> SUFFICES ASSUME p \in Watched PROVE a \in Activity /\ a.counted = peers[p].counted
      OBVIOUS
    <3>1. peers[p] \in Activity
      BY <1>0
    <3>2. Least(peers[p].wrote + 1, MinMessages) \in 0..MinMessages
      BY <1>1, <3>1, ActivityFields DEF Least
    <3>3. QED BY <1>1, <3>1, <3>2 DEF Activity
  <2>2. Follow(p, a) /\ today' = today /\ enabled' = enabled /\ mode' = mode /\ clock' = clock
        /\ windows' = windows /\ target' = p /\ Cancel(p)
    BY <1>2 DEF UserMessage
  <2> HIDE DEF a
  <2>3. peers' \in [Watched -> Activity] /\ DueInv' /\ CountedIsToday'
    BY <2>1, <2>2, FollowKeeps
  <2>4. tasks' \in [Ids -> Task \cup {NoTask}] /\ fate' \in [Ids -> Fate]
    <3>1. fate \in [Ids -> Fate] /\ "cancelled" \in Fate
      BY DEF ProactiveInv, TypeOK, Fate
    <3>2. QED BY <1>0, <2>2, <3>1 DEF Cancel
  <2>5. TypeOK'
    BY <2>2, <2>3, <2>4 DEF ProactiveInv, TypeOK
  <2>6. QED BY <2>2, <2>3, <2>5 DEF ProactiveInv
<1>3. CASE AssistantMessage(p)
  <2> DEFINE a == [peers[p] EXCEPT !.interaction = 0]
  <2>1. p \in Watched => a \in Activity /\ a.counted = peers[p].counted
    BY <1>0, <1>1 DEF Activity
  <2>2. Follow(p, a) /\ today' = today /\ enabled' = enabled /\ mode' = mode /\ clock' = clock
        /\ target' \in Peers \cup {Nobody} /\ tasks' = tasks
        /\ windows' = windows /\ fate' = fate
    BY <1>0, <1>3 DEF AssistantMessage
  <2> HIDE DEF a
  <2>3. peers' \in [Watched -> Activity] /\ DueInv' /\ CountedIsToday'
    BY <2>1, <2>2, FollowKeeps
  <2>4. TypeOK'
    BY <2>2, <2>3 DEF ProactiveInv, TypeOK
  <2>5. QED BY <2>2, <2>3, <2>4 DEF ProactiveInv
<1>4. QED BY <1>2, <1>3

LEMMA FileKeeps ==
    ASSUME ProactiveInv, NEW i \in Ids, NEW delay \in Delays,
           ScheduleOnce(i, delay) \/ ScheduleRecurring(i, delay)
    PROVE  ProactiveInv' /\ today' = today
<1>1. PICK every \in Delays \cup {0} : File(i, delay, every)
  BY DEF ScheduleOnce, ScheduleRecurring
<1>2. delay \in Nat
  BY ProactiveAssumption
<1>3. [peer |-> target, left |-> delay, every |-> every] \in Task
  BY <1>1, <1>2 DEF File, Task, ProactiveInv, TypeOK
<1>4. tasks' \in [Ids -> Task \cup {NoTask}]
  BY <1>1, <1>3 DEF File, ProactiveInv, TypeOK
<1>5. UNCHANGED <<mode, enabled, windows, clock, peers, target, today>>
  BY <1>1 DEF File
<1>6. fate' \in [Ids -> Fate]
  BY <1>1 DEF File, ProactiveInv, TypeOK, Fate
<1>7. QED BY <1>4, <1>5, <1>6 DEF ProactiveInv, TypeOK, DueInv, CountedIsToday

LEMMA PolledType ==
    ASSUME ProactiveInv, NEW i \in Ids PROVE Polled(i) \in Task \cup {NoTask}
<1>1. tasks[i] \in Task \cup {NoTask} /\ Delays \subseteq Nat
  BY ProactiveAssumption DEF ProactiveInv, TypeOK
<1>2. ASSUME NEW t \in Task PROVE [t EXCEPT !.left = t.every] \in Task
  BY <1>1 DEF Task
<1>3. QED BY <1>1, <1>2 DEF Polled

\* What a poll does to a peer: nothing, a trigger, or a new time by the dice.
LEMMA OutcomeOf ==
    ASSUME ProactiveInv, NEW p \in Watched, NEW b \in Outcomes(p)
    PROVE  /\ b \in Activity /\ (enabled = TRUE => DueCovers(b))
           /\ \/ b.counted = peers[p].counted
              \/ /\ b.counted = peers[p].counted + 1
                 /\ enabled = TRUE /\ peers[p].due = 0
                 /\ DailyLimit > 0 => peers[p].counted < DailyLimit
<1> DEFINE a == peers[p]
<1>0. a \in Activity /\ enabled \in BOOLEAN /\ DailyLimit \in Nat
  BY ProactiveAssumption DEF ProactiveInv, TypeOK
<1>1. /\ a.interaction \in Never..MaxAge /\ a.idled \in Never..MaxAge
      /\ a.due \in Never..MaxWait /\ a.unanswered \in 0..MaxUnanswered
      /\ a.counted \in Nat /\ a.wrote \in 0..MinMessages
      /\ MaxAge \in Nat /\ MaxWait \in Nat
  BY <1>0, ActivityFields
<1>2. enabled = TRUE => DueCovers(a)
  BY DEF ProactiveInv, DueInv
<1>3. CASE b = a
  BY <1>0, <1>2, <1>3
<1>4. ASSUME MayIdle(p), a.due = 0, b \in Idles(a)
      PROVE  /\ b \in Activity /\ DueCovers(b) /\ b.counted = a.counted + 1
             /\ enabled = TRUE /\ (DailyLimit > 0 => a.counted < DailyLimit)
  <2> DEFINE c == [a EXCEPT !.idled = 0, !.counted = @ + 1,
                            !.unanswered = Least(@ + 1, MaxUnanswered)]
  <2>1. Least(a.unanswered + 1, MaxUnanswered) \in 0..MaxUnanswered
    BY <1>1, ProactiveAssumption DEF Least
  <2>2. a.counted + 1 \in Nat /\ 0 \in Never..MaxAge
    BY <1>1 DEF Never
  <2>3. c \in Activity /\ c.counted = a.counted + 1
    BY <1>0, <2>1, <2>2 DEF Activity
  <2>4. b \in WithDue(c)
    BY <1>4 DEF Idles
  <2> HIDE DEF c
  <2>5. b \in Activity /\ DueCovers(b) /\ b.counted = c.counted
    BY <2>3, <2>4, WithDueCovers
  <2>6. enabled = TRUE /\ (DailyLimit > 0 => a.counted < DailyLimit)
    BY <1>0, <1>4 DEF MayIdle
  <2>7. QED BY <2>3, <2>5, <2>6
<1>5. ASSUME MayIdle(p), a.due = 0, b \in Snoozes(a)
      PROVE  b \in Activity /\ (enabled = TRUE => DueCovers(b)) /\ b.counted = a.counted
  <2>1. PICK d \in Jittered(Snooze, Most(IdleJitter, 50)) : b = [a EXCEPT !.due = d]
    BY <1>5 DEF Snoozes
  <2>2. d \in 0..MaxWait
    BY <1>1, <2>1, WaitBounds
  <2>3. d \in Never..MaxWait
    BY <1>1, <2>2 DEF Never
  <2>4. b \in Activity /\ b.counted = a.counted /\ b.due = d /\ b.interaction = a.interaction
        /\ b.idled = a.idled /\ b.unanswered = a.unanswered
    BY <1>0, <2>1, <2>3 DEF Activity
  <2>5. SilenceFrom(a.unanswered) \in 0..MaxAge /\ PauseFrom(a.unanswered) \in 0..MaxAge
    BY <1>1, WaitBounds
  <2>6. ASSUME DueCovers(a) PROVE DueCovers(b)
    BY <1>1, <1>5, <2>2, <2>4, <2>5, <2>6 DEF DueCovers, Never
  <2>7. QED BY <1>2, <2>4, <2>6
<1>6. b = a \/ (MayIdle(p) /\ a.due = 0 /\ (b \in Idles(a) \/ b \in Snoozes(a)))
  BY DEF Outcomes
<1> HIDE DEF a
<1>7. QED BY <1>3, <1>4, <1>5, <1>6 DEF a

LEMMA TickKeeps ==
    ASSUME ProactiveInv, Tick PROVE ProactiveInv'
<1>0. peers \in [Watched -> Activity] /\ today \in [Watched -> Nat] /\ DailyLimit \in Nat
      /\ \A p \in Watched : peers[p].counted \in Nat
  BY ProactiveAssumption DEF ProactiveInv, TypeOK, Activity
<1>1. /\ peers' \in [Watched -> UNION {Outcomes(p) : p \in Watched}]
      /\ \A p \in Watched : peers'[p] \in Outcomes(p)
      /\ today' = [p \in Watched |-> today[p] + peers'[p].counted - peers[p].counted]
      /\ UNCHANGED <<mode, enabled, windows, clock, target>>
      /\ tasks' = [i \in Ids |-> Polled(i)]
  BY DEF Tick
<1>2. ASSUME NEW p \in Watched
      PROVE  /\ peers'[p] \in Activity /\ (enabled = TRUE => DueCovers(peers'[p]))
             /\ today'[p] = peers'[p].counted /\ peers'[p].counted \in Nat
             /\ DailyLimit > 0 => peers'[p].counted <= DailyLimit
  <2>1. /\ peers'[p] \in Activity /\ (enabled = TRUE => DueCovers(peers'[p]))
        /\ \/ peers'[p].counted = peers[p].counted
           \/ /\ peers'[p].counted = peers[p].counted + 1
              /\ DailyLimit > 0 => peers[p].counted < DailyLimit
    BY <1>1, OutcomeOf
  <2>2. peers'[p].counted \in Nat
    BY <2>1 DEF Activity
  <2>3. today[p] = peers[p].counted /\ (DailyLimit > 0 => peers[p].counted <= DailyLimit)
    BY DEF ProactiveInv, CountedIsToday
  <2>4. today'[p] = today[p] + peers'[p].counted - peers[p].counted
    BY <1>1
  <2>5. today'[p] = peers'[p].counted
    BY <1>0, <2>2, <2>3, <2>4
  <2>6. DailyLimit > 0 => peers'[p].counted <= DailyLimit
    BY <1>0, <2>1, <2>2, <2>3
  <2>7. QED BY <2>1, <2>2, <2>5, <2>6
<1>3. peers' \in [Watched -> Activity] /\ today' \in [Watched -> Nat]
  BY <1>1, <1>2
<1>4. tasks' \in [Ids -> Task \cup {NoTask}] /\ fate' \in [Ids -> Fate]
  <2>1. tasks' \in [Ids -> Task \cup {NoTask}]
    BY <1>1, PolledType
  <2>2. fate' \in [Ids -> Fate]
    BY DEF Tick, ProactiveInv, TypeOK, Fate
  <2>3. QED BY <2>1, <2>2
<1>5. TypeOK'
  BY <1>1, <1>3, <1>4 DEF ProactiveInv, TypeOK
<1>6. DueInv' /\ CountedIsToday'
  BY <1>1, <1>2 DEF DueInv, CountedIsToday
<1>7. QED BY <1>5, <1>6 DEF ProactiveInv

LEMMA PassKeeps ==
    ASSUME ProactiveInv, Pass
    PROVE  ProactiveInv' /\ \A p \in Watched : today'[p] <= today[p]
<1> DEFINE midnight == clock + 1 = Day
<1> DEFINE aged(a) == [a EXCEPT !.interaction = Older(@), !.idled = Older(@), !.due = Sooner(@),
                                !.counted = IF midnight THEN 0 ELSE @]
<1>0. /\ peers \in [Watched -> Activity] /\ today \in [Watched -> Nat]
      /\ tasks \in [Ids -> Task \cup {NoTask}]
      /\ clock \in 0..(Day - 1) /\ Day \in Nat \ {0} /\ DailyLimit \in Nat
  BY ProactiveAssumption DEF ProactiveInv, TypeOK
<1>1. /\ clock' = (clock + 1) % Day
      /\ tasks' = [i \in Ids |-> [tasks[i] EXCEPT !.left = Sooner(@)]]
      /\ peers' = [p \in Watched |-> aged(peers[p])]
      /\ today' = IF midnight THEN [p \in Watched |-> 0] ELSE today
      /\ UNCHANGED <<mode, enabled, windows, target, fate>>
  BY DEF Pass
<1>2. clock' \in 0..(Day - 1)
  <2>1. \A n \in Nat, d \in Nat \ {0} : n % d \in 0..(d - 1)
    OBVIOUS
  <2>2. clock + 1 \in Nat
    BY <1>0
  <2>3. QED BY <1>0, <1>1, <2>1, <2>2
<1>3. tasks' \in [Ids -> Task \cup {NoTask}]
  <2>1. ASSUME NEW t \in Task PROVE [t EXCEPT !.left = Sooner(@)] \in Task
    <3>1. t.left \in Nat
      BY DEF Task
    <3>2. Sooner(t.left) \in Nat
      BY <3>1 DEF Sooner, Most, Never
    <3>3. QED BY <3>2 DEF Task
  <2>2. [NoTask EXCEPT !.left = Sooner(@)] = NoTask
    BY DEF NoTask, Sooner, Most, Never
  <2>3. QED BY <1>0, <1>1, <2>1, <2>2
<1>4. ASSUME NEW p \in Watched
      PROVE  /\ peers'[p] \in Activity /\ (DueCovers(peers[p]) => DueCovers(peers'[p]))
             /\ peers'[p].counted = IF midnight THEN 0 ELSE peers[p].counted
  <2> DEFINE a == peers[p]
  <2> DEFINE b == aged(a)
  <2> DEFINE i == Older(a.interaction)
  <2> DEFINE j == Older(a.idled)
  <2> DEFINE d == Sooner(a.due)
  <2>1. a \in Activity /\ peers'[p] = b
    BY <1>0, <1>1
  <2>2. /\ a.interaction \in Never..MaxAge /\ a.idled \in Never..MaxAge
        /\ a.due \in Never..MaxWait /\ a.unanswered \in 0..MaxUnanswered /\ a.counted \in Nat
        /\ MaxAge \in Nat /\ MaxWait \in Nat
    BY <2>1, ActivityFields
  <2>3. i \in Never..MaxAge /\ j \in Never..MaxAge /\ d \in Never..MaxWait
    BY <2>2 DEF Older, Sooner, Least, Most, Never
  <2>4. /\ i = Never <=> a.interaction = Never
        /\ i # Never => i = MaxAge \/ i = a.interaction + 1
        /\ j = Never <=> a.idled = Never
        /\ j # Never => j = MaxAge \/ j = a.idled + 1
        /\ d = Never <=> a.due = Never
        /\ d # Never => d >= 0 /\ d >= a.due - 1
    BY <2>2 DEF Older, Sooner, Least, Most, Never
  <2>5. /\ b = [a EXCEPT !.interaction = i, !.idled = j, !.due = d,
                         !.counted = IF midnight THEN 0 ELSE @]
    OBVIOUS
  <2> DEFINE c == IF midnight THEN 0 ELSE a.counted
  <2>6. c \in Nat
    BY <2>2
  <2> HIDE DEF a, b, i, j, d, c
  <2>7. b \in Activity /\ b.interaction = i /\ b.idled = j /\ b.due = d
        /\ b.unanswered = a.unanswered /\ b.counted = c
    BY <2>1, <2>3, <2>5, <2>6 DEF Activity, c
  <2>8. SilenceFrom(a.unanswered) \in 0..MaxAge /\ PauseFrom(a.unanswered) \in 0..MaxAge
    BY <2>2, WaitBounds
  <2>9. ASSUME DueCovers(a) PROVE DueCovers(b)
    <3>1. ASSUME d # Never
          PROVE  i # Never /\ i + d >= SilenceFrom(a.unanswered)
      BY <2>2, <2>3, <2>4, <2>8, <2>9, <3>1 DEF DueCovers, Never
    <3>2. ASSUME d # Never, j # Never
          PROVE  j + d >= PauseFrom(a.unanswered)
      BY <2>2, <2>3, <2>4, <2>8, <2>9, <3>2 DEF DueCovers, Never
    <3>3. QED BY <2>7, <3>1, <3>2 DEF DueCovers
  <2>10. QED BY <2>1, <2>7, <2>9 DEF a, c
<1> HIDE DEF aged, midnight
<1>5. peers' \in [Watched -> Activity]
  BY <1>1, <1>4
<1>6. DueInv'
  BY <1>1, <1>4 DEF ProactiveInv, DueInv
<1>7. ASSUME NEW p \in Watched
      PROVE  /\ today'[p] = peers'[p].counted /\ today'[p] \in Nat /\ today'[p] <= today[p]
             /\ DailyLimit > 0 => peers'[p].counted <= DailyLimit
  <2>1. today[p] = peers[p].counted /\ (DailyLimit > 0 => peers[p].counted <= DailyLimit)
        /\ today[p] \in Nat
    BY <1>0 DEF ProactiveInv, CountedIsToday
  <2>2. CASE midnight
    BY <1>0, <1>1, <1>4, <2>1, <2>2
  <2>3. CASE ~midnight
    BY <1>0, <1>1, <1>4, <2>1, <2>3
  <2>4. QED BY <2>2, <2>3
<1>8. today' \in [Watched -> Nat]
  BY <1>0, <1>1
<1>9. TypeOK'
  BY <1>1, <1>2, <1>3, <1>5, <1>8 DEF ProactiveInv, TypeOK
<1>10. CountedIsToday'
  BY <1>7 DEF CountedIsToday
<1>11. QED BY <1>6, <1>7, <1>9, <1>10 DEF ProactiveInv

LEMMA RestartKeeps ==
    ASSUME ProactiveInv, Restart
    PROVE  ProactiveInv' /\ \A p \in Watched : today'[p] <= today[p]
<1>1. NoActivity \in Activity
  <2>1. MaxAge \in Nat /\ MaxWait \in Nat /\ 0 \in 0..MaxUnanswered /\ 0 \in 0..MinMessages
    BY ProactiveAssumption, WaitBounds
  <2>2. QED BY <2>1 DEF NoActivity, Activity, Never
<1>2. NoActivity.due = Never /\ NoActivity.counted = 0
  BY DEF NoActivity
<1>3. TypeOK'
  <2>1. fate' \in [Ids -> Fate]
    BY DEF Restart, ProactiveInv, TypeOK, Fate
  <2>2. QED BY <1>1, <2>1 DEF Restart, ProactiveInv, TypeOK
<1>4. DueInv' /\ CountedIsToday'
  BY <1>2, ProactiveAssumption DEF Restart, DueInv, DueCovers, CountedIsToday
<1>5. \A p \in Watched : today'[p] <= today[p]
  BY DEF Restart, ProactiveInv, TypeOK
<1>6. QED BY <1>3, <1>4, <1>5 DEF ProactiveInv

LEMMA ProactiveStep ==
    ASSUME ProactiveInv, [Next]_vars PROVE ProactiveInv'
<1>1. CASE UNCHANGED vars
  BY <1>1 DEF vars, ProactiveInv, TypeOK, DueInv, CountedIsToday
<1>2. QED BY <1>1, MessageKeeps, FileKeeps, TickKeeps, PassKeeps, RestartKeeps DEF Next

\* An idle trigger is a poll that found its time come.
LEMMA IdleStep ==
    ASSUME ProactiveInv, [Next]_vars, NEW p \in Watched, IdleFires(p)
    PROVE  enabled = TRUE /\ peers[p].due = 0
<1>0. today \in [Watched -> Nat] /\ today[p] = peers[p].counted /\ peers[p].counted \in Nat
  BY DEF ProactiveInv, TypeOK, CountedIsToday
<1>1. today'[p] > today[p]
  BY DEF IdleFires
<1>2. CASE Tick
  <2>1. peers'[p] \in Outcomes(p)
        /\ today'[p] = today[p] + peers'[p].counted - peers[p].counted
    BY <1>2 DEF Tick
  <2>2. peers'[p].counted = peers[p].counted => today'[p] = today[p]
    BY <1>0, <2>1
  <2>3. peers'[p].counted # peers[p].counted
    BY <1>0, <1>1, <2>2
  <2>4. QED BY <2>1, <2>3, OutcomeOf
<1>3. CASE UNCHANGED vars
  BY <1>0, <1>1, <1>3 DEF vars
<1>4. CASE \/ \E q \in Peers : UserMessage(q) \/ AssistantMessage(q)
           \/ \E i \in Ids, delay \in Delays : ScheduleOnce(i, delay) \/ ScheduleRecurring(i, delay)
  <2>1. today' = today
    BY <1>4, MessageKeeps, FileKeeps
  <2>2. QED BY <1>0, <1>1, <2>1
<1>5. CASE Pass \/ Restart
  <2>1. today'[p] <= today[p] /\ today'[p] \in Nat
    BY <1>5, PassKeeps, RestartKeeps DEF ProactiveInv, TypeOK
  <2>2. QED BY <1>0, <1>1, <2>1
<1>6. QED BY <1>2, <1>3, <1>4, <1>5 DEF Next

----------------------------------------------------------------------------
\* Theorems

LEMMA ProactiveInvariant == Spec => []ProactiveInv
<1>1. Init => ProactiveInv
  BY InitInv
<1>2. ProactiveInv /\ [Next]_vars => ProactiveInv'
  BY ProactiveStep
<1>3. QED BY <1>1, <1>2, PTL DEF Spec

\* The types of the plugin's state, whatever the waits: a drawn time fits what the
\* model keeps of it.
THEOREM ProactiveTypeCorrect == Spec => []TypeOK
<1>1. ProactiveInv => TypeOK
  BY DEF ProactiveInv
<1>2. QED BY <1>1, ProactiveInvariant, PTL

\* No peer is addressed out of idleness more than PROACTIVE_AUTONOMOUS_DAILY_LIMIT
\* times between two midnights: the count in the peer's activity is the number of
\* triggers since midnight, and the poll looks at it under the lock it adds under.
THEOREM DailyLimitKept == Spec => []DailyLimitHolds
<1>1. ProactiveInv => DailyLimitHolds
  BY DEF ProactiveInv, CountedIsToday, DailyLimitHolds
<1>2. QED BY <1>1, ProactiveInvariant, PTL

\* What is left of a time that has come is nothing, so the ages have grown to the
\* shortest draw.
LEMMA SpacedStep ==
    ASSUME ProactiveInv, [Next]_vars, NEW p \in Watched, IdleFires(p)
    PROVE  LET b == Backoff(peers[p].unanswered)
               a == peers[p]
           IN /\ a.interaction >= Shortest(Idle * b, IdleJitter)
              /\ a.idled # Never => a.idled >= Shortest(Cooldown * b, CooldownJitter)
<1> DEFINE a == peers[p]
<1>1. enabled = TRUE /\ a.due = 0
  BY IdleStep
<1>2. a \in Activity /\ DueCovers(a)
  BY <1>1 DEF ProactiveInv, TypeOK, DueInv
<1>3. /\ a.interaction \in Never..MaxAge /\ a.idled \in Never..MaxAge
      /\ a.unanswered \in 0..MaxUnanswered /\ MaxAge \in Nat
  BY <1>2, ActivityFields
<1>4. SilenceFrom(a.unanswered) \in 0..MaxAge /\ PauseFrom(a.unanswered) \in 0..MaxAge
  BY <1>3, WaitBounds
<1> HIDE DEF a
<1>5. /\ a.interaction >= SilenceFrom(a.unanswered)
      /\ a.idled # Never => a.idled >= PauseFrom(a.unanswered)
  BY <1>1, <1>2, <1>3, <1>4 DEF DueCovers, Never
<1>6. QED BY <1>5 DEF a, SilenceFrom, PauseFrom

\* An idle trigger never comes sooner after the last message and the last idle
\* trigger than the shortest draw, for every base, jitter and backoff and however
\* often the times are drawn again.
THEOREM IdleTriggersSpaced == Spec => IdleTriggersAreSpaced
<1> DEFINE Spaced == \A p \in Watched : IdleFires(p) =>
                       LET b == Backoff(peers[p].unanswered)
                           a == peers[p]
                       IN /\ a.interaction >= Shortest(Idle * b, IdleJitter)
                          /\ a.idled # Never => a.idled >= Shortest(Cooldown * b, CooldownJitter)
<1>1. ProactiveInv /\ [Next]_vars => Spaced
  BY SpacedStep
<1>2. ProactiveInv /\ [Next]_vars => [Spaced]_vars
  BY <1>1
<1> HIDE DEF Spaced
<1>3. Spec => [][Spaced]_vars
  BY <1>2, ProactiveInvariant, PTL DEF Spec
<1>4. QED BY <1>3 DEF IdleTriggersAreSpaced, Spaced
=============================================================================
