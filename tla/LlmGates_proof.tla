--------------------------- MODULE LlmGates_proof ---------------------------
(***************************************************************************)
(* Proofs about what stands between a turn and the LLM: Admission, for any *)
(* number of turns, any bucket, windows and limits, and RetryBreaker, for  *)
(* any number of requests, any thresholds and any number of restarts.      *)
(*                                                                         *)
(* Admission counts by sums, so the proof begins with what those are:      *)
(* SumTo is a recursive function on 0..n, and what it does from n to n + 1 *)
(* follows from the function existing and being the only one.  RateHolds   *)
(* needs the tokens that are left beside those that were taken, and        *)
(* OvershootIsBounded that the check of a turn comes after everything the  *)
(* turns of that slot spent before: only then does a turn that is let      *)
(* through start with nothing on its way.                                  *)
(*                                                                         *)
(* RetryBreaker needs two facts that no property states: the row never     *)
(* shows a trip without a failure, or a restart could restore a trip that  *)
(* nobody caused, and a request that backs off has an attempt left.        *)
(***************************************************************************)
EXTENDS Admission, RetryBreaker, TLAPS, WellFoundedInduction

----------------------------------------------------------------------------
\* Induction: what holds of 0 and goes on to n + 1 holds of every number.

LEMMA SetInduction ==
    ASSUME NEW S, 0 \in S, \A n \in Nat : n \in S => n + 1 \in S
    PROVE  Nat \subseteq S
<1> SUFFICES ASSUME ~(Nat \subseteq S) PROVE FALSE
  OBVIOUS
<1> DEFINE T == Nat \ S
<1> DEFINE R == OpToRel(<,Nat)
<1>1. T \subseteq Nat /\ T # {}
  OBVIOUS
<1>2. IsWellFoundedOn(R, Nat)
  BY NatLessThanWellFounded
<1> HIDE DEF R
<1>3. PICK x \in T : \A y \in T : <<y, x>> \notin R
  BY <1>1, <1>2, WFMin
<1>4. x # 0 /\ x - 1 \in Nat /\ x - 1 \notin S
  OBVIOUS
<1>5. <<x - 1, x>> \in R
  <2> DEFINE z == <<x - 1, x>>
  <2>1. z \in Nat \X Nat /\ z[1] < z[2]
    BY <1>4
  <2> HIDE DEF z
  <2>2. z \in R
    BY <2>1 DEF R, OpToRel
  <2>3. QED
    BY <2>2 DEF z
<1>6. QED
  BY <1>3, <1>4, <1>5

----------------------------------------------------------------------------
\* Sums

IsSum(g, f, n) == g = [k \in 0..n |-> IF k = 0 THEN 0 ELSE g[k - 1] + f[k]]

LEMMA SumExists == \A f : \A n \in Nat : \E g : IsSum(g, f, n)
<1> SUFFICES ASSUME NEW f PROVE \A n \in Nat : \E g : IsSum(g, f, n)
  OBVIOUS
<1> DEFINE S == {n \in Nat : \E g : IsSum(g, f, n)}
<1>1. 0 \in S
  <2> DEFINE h == [k \in 0..0 |-> 0]
  <2>1. h = [k \in 0..0 |-> IF k = 0 THEN 0 ELSE h[k - 1] + f[k]]
    OBVIOUS
  <2>2. QED
    BY <2>1 DEF IsSum
<1>2. ASSUME NEW n \in Nat, n \in S PROVE n + 1 \in S
  <2>1. PICK g : IsSum(g, f, n)
    BY <1>2
  <2> DEFINE h == [k \in 0..(n + 1) |-> IF k <= n THEN g[k] ELSE g[n] + f[k]]
  <2>2. ASSUME NEW k \in 0..(n + 1)
        PROVE  h[k] = IF k = 0 THEN 0 ELSE h[k - 1] + f[k]
    <3>1. CASE k = 0
      BY <3>1, <2>1 DEF IsSum
    <3>2. CASE k \in 1..n
      <4>1. g[k] = g[k - 1] + f[k]
        BY <3>2, <2>1 DEF IsSum
      <4>2. h[k] = g[k] /\ h[k - 1] = g[k - 1]
        BY <3>2
      <4>3. QED
        BY <4>1, <4>2, <3>2
    <3>3. CASE k = n + 1
      <4>1. h[k] = g[n] + f[k] /\ h[k - 1] = g[n]
        BY <3>3
      <4>2. QED
        BY <4>1, <3>3
    <3>4. QED
      BY <3>1, <3>2, <3>3
  <2>3. h = [k \in 0..(n + 1) |-> h[k]]
    OBVIOUS
  <2> HIDE DEF h
  <2>4. h = [k \in 0..(n + 1) |-> IF k = 0 THEN 0 ELSE h[k - 1] + f[k]]
    BY <2>2, <2>3
  <2>5. QED
    BY <2>4 DEF IsSum
<1> HIDE DEF S
<1>3. Nat \subseteq S
  BY <1>1, <1>2, SetInduction
<1>4. QED
  BY <1>3 DEF S

LEMMA SumsAgree ==
    ASSUME NEW f, NEW n \in Nat, NEW m \in Nat, n <= m,
           NEW g, NEW h, IsSum(g, f, n), IsSum(h, f, m)
    PROVE  g[n] = h[n]
<1> DEFINE S == {k \in Nat : k <= n => g[k] = h[k]}
<1>1. 0 \in S
  BY DEF IsSum
<1>2. ASSUME NEW k \in Nat, k \in S PROVE k + 1 \in S
  <2> SUFFICES ASSUME k + 1 <= n PROVE g[k + 1] = h[k + 1]
    OBVIOUS
  <2>1. g[k + 1] = g[(k + 1) - 1] + f[k + 1] /\ h[k + 1] = h[(k + 1) - 1] + f[k + 1]
    BY DEF IsSum
  <2>2. (k + 1) - 1 = k
    OBVIOUS
  <2>3. QED
    BY <1>2, <2>1, <2>2
<1> HIDE DEF S
<1>3. Nat \subseteq S
  BY <1>1, <1>2, SetInduction
<1>4. QED
  BY <1>3 DEF S

LEMMA SumIsSum == \A f : \A n \in Nat : \E g : IsSum(g, f, n) /\ SumTo(f, n) = g[n]
<1> SUFFICES ASSUME NEW f, NEW n \in Nat
             PROVE  \E g : IsSum(g, f, n) /\ SumTo(f, n) = g[n]
  OBVIOUS
<1> DEFINE g == CHOOSE g : IsSum(g, f, n)
<1>1. IsSum(g, f, n)
  BY SumExists
<1>2. SumTo(f, n) = g[n]
  BY DEF SumTo, IsSum
<1>3. QED
  BY <1>1, <1>2

LEMMA SumStep ==
    \A f : /\ SumTo(f, 0) = 0
           /\ \A n \in Nat : SumTo(f, n + 1) = SumTo(f, n) + f[n + 1]
<1> TAKE f
<1>1. SumTo(f, 0) = 0
  BY SumIsSum DEF IsSum
<1>2. ASSUME NEW n \in Nat PROVE SumTo(f, n + 1) = SumTo(f, n) + f[n + 1]
  <2>1. PICK g : IsSum(g, f, n) /\ SumTo(f, n) = g[n]
    BY SumIsSum
  <2>2. PICK h : IsSum(h, f, n + 1) /\ SumTo(f, n + 1) = h[n + 1]
    BY SumIsSum
  <2>3. g[n] = h[n]
    BY <2>1, <2>2, SumsAgree
  <2>4. h[n + 1] = h[(n + 1) - 1] + f[n + 1] /\ (n + 1) - 1 = n
    BY <2>2 DEF IsSum
  <2>5. QED
    BY <2>1, <2>2, <2>3, <2>4
<1>3. QED
  BY <1>1, <1>2


LEMMA SumNat ==
    \A f : \A n \in Nat : (\A k \in 1..n : f[k] \in Nat) => SumTo(f, n) \in Nat
<1> TAKE f
<1> DEFINE S == {n \in Nat : (\A k \in 1..n : f[k] \in Nat) => SumTo(f, n) \in Nat}
<1>1. 0 \in S
  BY SumStep
<1>2. ASSUME NEW n \in Nat, n \in S PROVE n + 1 \in S
  <2>1. SumTo(f, n + 1) = SumTo(f, n) + f[n + 1]
    BY SumStep
  <2>2. QED
    BY <2>1, <1>2
<1> HIDE DEF S
<1>3. Nat \subseteq S
  BY <1>1, <1>2, SetInduction
<1>4. QED
  BY <1>3 DEF S

LEMMA SumLeq ==
    \A f, g : \A n \in Nat :
        (\A k \in 1..n : f[k] \in Nat /\ g[k] \in Nat /\ f[k] <= g[k])
        => SumTo(f, n) <= SumTo(g, n)
<1> TAKE f, g
<1> DEFINE Below(n) == \A k \in 1..n : f[k] \in Nat /\ g[k] \in Nat /\ f[k] <= g[k]
<1> DEFINE S == {n \in Nat : Below(n) => SumTo(f, n) <= SumTo(g, n)}
<1>1. 0 \in S
  BY SumStep
<1>2. ASSUME NEW n \in Nat, n \in S PROVE n + 1 \in S
  <2> SUFFICES ASSUME Below(n + 1) PROVE SumTo(f, n + 1) <= SumTo(g, n + 1)
    OBVIOUS
  <2>1. /\ SumTo(f, n + 1) = SumTo(f, n) + f[n + 1]
        /\ SumTo(g, n + 1) = SumTo(g, n) + g[n + 1]
    BY SumStep
  <2>2. Below(n) /\ f[n + 1] \in Nat /\ g[n + 1] \in Nat /\ f[n + 1] <= g[n + 1]
    OBVIOUS
  <2>3. SumTo(f, n) \in Nat /\ SumTo(g, n) \in Nat
    BY <2>2, SumNat
  <2> HIDE DEF Below
  <2>4. QED
    BY <2>1, <2>2, <2>3, <1>2
<1> HIDE DEF S
<1>3. Nat \subseteq S
  BY <1>1, <1>2, SetInduction
<1>4. QED
  BY <1>3 DEF S

LEMMA SumSame ==
    \A f, g : \A n \in Nat :
        (\A k \in 1..n : f[k] = g[k]) => SumTo(f, n) = SumTo(g, n)
<1> TAKE f, g
<1> DEFINE S == {n \in Nat : (\A k \in 1..n : f[k] = g[k]) => SumTo(f, n) = SumTo(g, n)}
<1>1. 0 \in S
  BY SumStep
<1>2. ASSUME NEW n \in Nat, n \in S PROVE n + 1 \in S
  <2>1. /\ SumTo(f, n + 1) = SumTo(f, n) + f[n + 1]
        /\ SumTo(g, n + 1) = SumTo(g, n) + g[n + 1]
    BY SumStep
  <2>2. QED
    BY <2>1, <1>2
<1> HIDE DEF S
<1>3. Nat \subseteq S
  BY <1>1, <1>2, SetInduction
<1>4. QED
  BY <1>3 DEF S

\* Every term at most c.
LEMMA SumBound ==
    \A f : \A c \in Nat : \A n \in Nat :
        (\A k \in 1..n : f[k] \in 0..c) => SumTo(f, n) \in 0..(n * c)
<1> TAKE f
<1> SUFFICES ASSUME NEW c \in Nat
             PROVE  \A n \in Nat : (\A k \in 1..n : f[k] \in 0..c) => SumTo(f, n) \in 0..(n * c)
  OBVIOUS
<1> DEFINE S == {n \in Nat : (\A k \in 1..n : f[k] \in 0..c) => SumTo(f, n) \in 0..(n * c)}
<1>1. 0 \in S
  BY SumStep
<1>2. ASSUME NEW n \in Nat, n \in S PROVE n + 1 \in S
  <2> SUFFICES ASSUME \A k \in 1..(n + 1) : f[k] \in 0..c
               PROVE  SumTo(f, n + 1) \in 0..((n + 1) * c)
    OBVIOUS
  <2>1. SumTo(f, n + 1) = SumTo(f, n) + f[n + 1]
    BY SumStep
  <2>2. f[n + 1] \in 0..c /\ SumTo(f, n) \in 0..(n * c)
    BY <1>2
  <2>3. (n + 1) * c = n * c + c /\ n * c \in Nat
    OBVIOUS
  <2>4. QED
    BY <2>1, <2>2, <2>3
<1> HIDE DEF S
<1>3. Nat \subseteq S
  BY <1>1, <1>2, SetInduction
<1>4. QED
  BY <1>3 DEF S

\* One term changes.
LEMMA SumChange ==
    \A f, g : \A s \in Nat \ {0} : \A n \in Nat :
        (/\ \A k \in 1..n : f[k] \in Nat /\ g[k] \in Nat
         /\ \A k \in 1..n : k # s => f[k] = g[k])
        => IF s <= n THEN SumTo(g, n) + f[s] = SumTo(f, n) + g[s]
                     ELSE SumTo(g, n) = SumTo(f, n)
<1> TAKE f, g
<1> SUFFICES ASSUME NEW s \in Nat \ {0}
             PROVE  \A n \in Nat :
                      (/\ \A k \in 1..n : f[k] \in Nat /\ g[k] \in Nat
                       /\ \A k \in 1..n : k # s => f[k] = g[k])
                      => IF s <= n THEN SumTo(g, n) + f[s] = SumTo(f, n) + g[s]
                                   ELSE SumTo(g, n) = SumTo(f, n)
  OBVIOUS
<1> DEFINE Close(n) == /\ \A k \in 1..n : f[k] \in Nat /\ g[k] \in Nat
                       /\ \A k \in 1..n : k # s => f[k] = g[k]
           Moved(n) == IF s <= n THEN SumTo(g, n) + f[s] = SumTo(f, n) + g[s]
                                 ELSE SumTo(g, n) = SumTo(f, n)
           S == {n \in Nat : Close(n) => Moved(n)}
<1>1. 0 \in S
  BY SumStep
<1>2. ASSUME NEW n \in Nat, n \in S PROVE n + 1 \in S
  <2> SUFFICES ASSUME Close(n + 1) PROVE Moved(n + 1)
    OBVIOUS
  <2>1. /\ SumTo(f, n + 1) = SumTo(f, n) + f[n + 1]
        /\ SumTo(g, n + 1) = SumTo(g, n) + g[n + 1]
    BY SumStep
  <2>2. Close(n) /\ f[n + 1] \in Nat /\ g[n + 1] \in Nat
    OBVIOUS
  <2>3. SumTo(f, n) \in Nat /\ SumTo(g, n) \in Nat
    BY <2>2, SumNat
  <2>4. Moved(n)
    BY <1>2, <2>2
  <2>5. CASE s = n + 1
    <3>1. SumTo(g, n) = SumTo(f, n)
      BY <2>4, <2>5
    <3>2. QED
      BY <2>1, <2>2, <2>3, <2>5, <3>1
  <2>6. CASE s # n + 1
    <3>1. f[n + 1] = g[n + 1]
      BY <2>6
    <3>2. CASE s <= n
      <4>1. f[s] \in Nat /\ g[s] \in Nat
        BY <3>2
      <4>2. QED
        BY <2>1, <2>2, <2>3, <2>4, <3>1, <3>2, <4>1
    <3>3. CASE ~(s <= n)
      BY <2>1, <2>2, <2>3, <2>4, <2>6, <3>1, <3>3
    <3>4. QED
      BY <3>2, <3>3
  <2>7. QED
    BY <2>5, <2>6
<1> HIDE DEF S
<1>3. Nat \subseteq S
  BY <1>1, <1>2, SetInduction
<1>4. QED
  BY <1>3 DEF S

\* The first term apart.
LEMMA SumFirst ==
    \A f, g : \A n \in Nat :
        (\A k \in 1..n : g[k] = f[k + 1] /\ g[k] \in Nat) /\ f[1] \in Nat
        => SumTo(f, n + 1) = f[1] + SumTo(g, n)
<1> TAKE f, g
<1> DEFINE Shifted(n) == (\A k \in 1..n : g[k] = f[k + 1] /\ g[k] \in Nat) /\ f[1] \in Nat
<1> DEFINE S == {n \in Nat : Shifted(n) => SumTo(f, n + 1) = f[1] + SumTo(g, n)}
<1>1. 0 \in S
  <2>1. SumTo(f, 0 + 1) = SumTo(f, 0) + f[0 + 1] /\ SumTo(f, 0) = 0 /\ SumTo(g, 0) = 0
    BY SumStep
  <2>2. QED
    BY <2>1
<1>2. ASSUME NEW n \in Nat, n \in S PROVE n + 1 \in S
  <2> SUFFICES ASSUME Shifted(n + 1)
               PROVE  SumTo(f, (n + 1) + 1) = f[1] + SumTo(g, n + 1)
    OBVIOUS
  <2>1. /\ SumTo(f, (n + 1) + 1) = SumTo(f, n + 1) + f[(n + 1) + 1]
        /\ SumTo(g, n + 1) = SumTo(g, n) + g[n + 1]
    BY SumStep
  <2>2. Shifted(n) /\ g[n + 1] = f[(n + 1) + 1] /\ g[n + 1] \in Nat /\ f[1] \in Nat
    OBVIOUS
  <2>3. SumTo(g, n) \in Nat
    BY <2>2, SumNat
  <2>4. SumTo(f, n + 1) = f[1] + SumTo(g, n)
    BY <1>2, <2>2
  <2>5. QED
    BY <2>1, <2>2, <2>3, <2>4
<1> HIDE DEF S
<1>3. Nat \subseteq S
  BY <1>1, <1>2, SetInduction
<1>4. QED
  BY <1>3 DEF S


----------------------------------------------------------------------------
\* Types, and where the check of a turn stands in the mailbox

Message == [check : BOOLEAN, by : Slots, total : Nat]
Stage == {Idle, Checking} \cup {Running(n) : n \in 1..Answers}
Age == [Ages -> Nat]

\* A turn that waits for its check asks for nothing after it.
CheckIsLast ==
    \A i \in DOMAIN mail :
        mail[i].check =>
            /\ mail[i] = CheckTokenBudget(mail[i].by)
            /\ \A j \in DOMAIN mail : mail[j].by = mail[i].by => j <= i

Waits(s) == \E i \in DOMAIN mail : mail[i] = CheckTokenBudget(s)

MailInv == TypeOK /\ CheckIsLast

LEMMA Ages0 == 0 \in Ages /\ Ages \subseteq Nat
  BY AdmissionAssumption DEF Ages

LEMMA StageFields ==
    /\ \A t \in Stage : t.left \in 0..Answers /\ t.stage \in {"idle", "checking", "running"}
    /\ \A t \in Stage : t.stage = "running" => t = Running(t.left) /\ t.left \in 1..Answers
    /\ \A t \in Stage : t.stage # "running" => t.left = 0
    /\ \A t \in Stage : t.stage = "running" => t # Checking
    /\ Idle \in Stage /\ Checking \in Stage /\ Idle # Checking
    /\ \A n \in 1..Answers : Running(n) \in Stage /\ Running(n) # Checking
<1>1. Idle.stage = "idle" /\ Idle.left = 0 /\ Checking.stage = "checking" /\ Checking.left = 0
  BY DEF Idle, Checking
<1>2. \A n : Running(n).stage = "running" /\ Running(n).left = n
  BY DEF Running
<1>3. \A t \in Stage : t = Idle \/ t = Checking \/ \E n \in 1..Answers : t = Running(n)
  BY DEF Stage
<1>4. Idle \in Stage /\ Checking \in Stage /\ \A n \in 1..Answers : Running(n) \in Stage
  BY DEF Stage
<1>5. Answers \in Nat \ {0} /\ 0 \in 0..Answers /\ 1..Answers \subseteq 0..Answers
  BY AdmissionAssumption
<1>6. QED
  BY <1>1, <1>2, <1>3, <1>4, <1>5

LEMMA MessageTypes ==
    /\ \A s \in Slots : CheckTokenBudget(s) \in Message
    /\ \A s \in Slots : \A n \in Nat : RecordTokenUsage(s, n) \in Message
    /\ \A s \in Slots : CheckTokenBudget(s).check /\ CheckTokenBudget(s).by = s
    /\ \A s, u \in Slots : \A n \in Nat : RecordTokenUsage(s, n) # CheckTokenBudget(u)
  BY DEF CheckTokenBudget, RecordTokenUsage, Message

LEMMA OlderType == \A f \in Age : Older(f) \in Age
<1> TAKE f \in Age
<1>1. \A a \in Ages : a # 0 => a - 1 \in Ages
  BY AdmissionAssumption DEF Ages
<1>2. QED
  BY <1>1 DEF Older, Age

LEMMA NothingSpentType == NothingSpent \in Age
  BY DEF NothingSpent, Age

\* The new last message of the mailbox.
LEMMA AppendParts ==
    ASSUME NEW m \in Seq(Message), NEW e \in Message
    PROVE  /\ Append(m, e) \in Seq(Message)
           /\ DOMAIN Append(m, e) = DOMAIN m \cup {Len(m) + 1}
           /\ Append(m, e)[Len(m) + 1] = e
           /\ \A i \in DOMAIN m : Append(m, e)[i] = m[i] /\ i <= Len(m) /\ i \in Nat
           /\ Len(m) + 1 \notin DOMAIN m
           /\ Len(m) \in Nat
<1>1. Append(m, e) \in Seq(Message) /\ Len(m) \in Nat /\ DOMAIN m = 1..Len(m)
  OBVIOUS
<1>2. Len(Append(m, e)) = Len(m) + 1
  OBVIOUS
<1>3. DOMAIN Append(m, e) = 1..(Len(m) + 1)
  BY <1>1, <1>2
<1>4. \A i \in 1..Len(m) : Append(m, e)[i] = m[i]
  OBVIOUS
<1>5. Append(m, e)[Len(m) + 1] = e
  OBVIOUS
<1>6. QED
  BY <1>1, <1>3, <1>4, <1>5

LEMMA TailParts ==
    ASSUME NEW m \in Seq(Message), m # <<>>
    PROVE  /\ Tail(m) \in Seq(Message)
           /\ Head(m) = m[1] /\ Head(m) \in Message /\ 1 \in DOMAIN m
           /\ \A i \in DOMAIN Tail(m) : i + 1 \in DOMAIN m /\ Tail(m)[i] = m[i + 1] /\ i \in Nat \ {0}
           /\ \A i \in DOMAIN m : i # 1 => i - 1 \in DOMAIN Tail(m) /\ Tail(m)[i - 1] = m[i]
           /\ DOMAIN m = 1..Len(m) /\ DOMAIN Tail(m) = 1..Len(Tail(m))
           /\ Len(m) = Len(Tail(m)) + 1 /\ Len(Tail(m)) \in Nat
<1>1. Len(m) \in Nat \ {0} /\ DOMAIN m = 1..Len(m) /\ Tail(m) \in Seq(Message)
  OBVIOUS
<1>2. Len(Tail(m)) = Len(m) - 1 /\ DOMAIN Tail(m) = 1..(Len(m) - 1)
  BY <1>1
<1>3. \A i \in 1..(Len(m) - 1) : Tail(m)[i] = m[i + 1]
  BY <1>1
<1>4. Head(m) = m[1] /\ m[1] \in Message
  BY <1>1
<1>5. QED
  BY <1>1, <1>2, <1>3, <1>4

LEMMA InitMail == Init => MailInv
<1> SUFFICES ASSUME Init PROVE MailInv
  OBVIOUS
<1>1. tokens \in 0..Burst /\ admitted \in Age
  BY NothingSpentType, AdmissionAssumption DEF Init
<1>2. recorded \in [turns : Age, others : Age]
  BY NothingSpentType DEF Init
<1>3. turns \in [Slots -> Stage] /\ \A s \in Slots : turns[s] # Checking
  BY StageFields DEF Init
<1>4. mail \in Seq(Message) /\ DOMAIN mail = {}
  BY DEF Init
<1>5. QED
  BY <1>1, <1>2, <1>3, <1>4
  DEF MailInv, TypeOK, CheckIsLast, Age, Stage, Message


LEMMA MailParts ==
    MailInv =>
        /\ tokens \in Nat /\ tokens <= Burst
        /\ admitted \in Age
        /\ turns \in [Slots -> Stage]
        /\ mail \in Seq(Message)
        /\ recorded \in [turns : Age, others : Age]
        /\ \A s \in Slots : turns[s] = Checking <=> Waits(s)
        /\ CheckIsLast
  BY AdmissionAssumption DEF MailInv, TypeOK, Age, Stage, Message, Waits

\* A message is added, of a turn that has no check in the mailbox.
LEMMA Sends ==
    ASSUME MailInv, NEW e \in Message, mail' = Append(mail, e),
           e.check => e = CheckTokenBudget(e.by),
           ~Waits(e.by)
    PROVE  /\ mail' \in Seq(Message)
           /\ CheckIsLast'
           /\ \A s \in Slots : Waits(s)' <=> Waits(s) \/ e = CheckTokenBudget(s)
<1> DEFINE n == Len(mail) + 1
<1>1. mail \in Seq(Message) /\ CheckIsLast
  BY MailParts
<1>2. /\ mail' \in Seq(Message) /\ DOMAIN mail' = DOMAIN mail \cup {n} /\ mail'[n] = e
      /\ \A i \in DOMAIN mail : mail'[i] = mail[i] /\ i <= Len(mail) /\ i \in Nat
      /\ n \notin DOMAIN mail /\ Len(mail) \in Nat
  BY <1>1, AppendParts
<1>3. \A i \in DOMAIN mail : mail[i].check => mail[i].by # e.by
  BY <1>1 DEF CheckIsLast, Waits
<1>4. ASSUME NEW i \in DOMAIN mail', mail'[i].check
      PROVE  /\ mail'[i] = CheckTokenBudget(mail'[i].by)
             /\ \A j \in DOMAIN mail' : mail'[j].by = mail'[i].by => j <= i
  <2>1. CASE i = n
    <3>1. \A j \in DOMAIN mail' : j <= n
      BY <1>2
    <3>2. QED
      BY <1>2, <1>4, <2>1, <3>1
  <2>2. CASE i \in DOMAIN mail
    <3>1. mail'[i] = mail[i] /\ mail'[n].by # mail'[i].by
      BY <1>2, <1>3, <1>4, <2>2
    <3>2. QED
      BY <1>1, <1>2, <1>4, <2>2, <3>1 DEF CheckIsLast
  <2>3. QED
    BY <1>2, <2>1, <2>2
<1>5. CheckIsLast'
  BY <1>4 DEF CheckIsLast
<1>6. \A s \in Slots : Waits(s)' <=> Waits(s) \/ e = CheckTokenBudget(s)
  BY <1>2 DEF Waits
<1>7. QED
  BY <1>2, <1>5, <1>6

\* The first message is handled.
LEMMA Handles ==
    ASSUME MailInv, mail # <<>>, mail' = Tail(mail)
    PROVE  /\ mail' \in Seq(Message)
           /\ CheckIsLast'
           /\ ~Head(mail).check => \A s \in Slots : Waits(s)' <=> Waits(s)
           /\ Head(mail).check =>
                /\ Waits(Head(mail).by) /\ Head(mail).by \in Slots
                /\ Head(mail).total = 0
                /\ \A i \in DOMAIN mail' : mail'[i].by # Head(mail).by
                /\ \A s \in Slots : Waits(s)' <=> Waits(s) /\ s # Head(mail).by
<1>1. mail \in Seq(Message) /\ CheckIsLast
  BY MailParts
<1>2. /\ mail' \in Seq(Message)
      /\ Head(mail) = mail[1] /\ Head(mail) \in Message /\ 1 \in DOMAIN mail
      /\ \A i \in DOMAIN mail' : i + 1 \in DOMAIN mail /\ mail'[i] = mail[i + 1] /\ i \in Nat \ {0}
      /\ \A i \in DOMAIN mail : i # 1 => i - 1 \in DOMAIN mail' /\ mail'[i - 1] = mail[i]
  BY <1>1, TailParts
<1>3. CheckIsLast'
  <2> SUFFICES ASSUME NEW i \in DOMAIN mail', mail'[i].check
               PROVE  /\ mail'[i] = CheckTokenBudget(mail'[i].by)
                      /\ \A j \in DOMAIN mail' : mail'[j].by = mail'[i].by => j <= i
    BY DEF CheckIsLast
  <2>1. mail[i + 1].check /\ i + 1 \in DOMAIN mail /\ i \in Nat
    BY <1>2
  <2>2. mail[i + 1] = CheckTokenBudget(mail[i + 1].by)
    BY <1>1, <2>1 DEF CheckIsLast
  <2>3. ASSUME NEW j \in DOMAIN mail', mail'[j].by = mail'[i].by PROVE j <= i
    <3>1. j + 1 \in DOMAIN mail /\ mail[j + 1].by = mail[i + 1].by /\ j \in Nat
      BY <1>2, <2>3
    <3>2. j + 1 <= i + 1
      BY <1>1, <2>1, <3>1 DEF CheckIsLast
    <3>3. QED
      BY <2>1, <3>1, <3>2
  <2>4. QED
    BY <1>2, <2>2, <2>3
<1>4. \A s \in Slots : Waits(s) <=> Waits(s)' \/ Head(mail) = CheckTokenBudget(s)
  <2> SUFFICES ASSUME NEW s \in Slots
               PROVE  Waits(s) <=> Waits(s)' \/ Head(mail) = CheckTokenBudget(s)
    OBVIOUS
  <2>1. Waits(s)' => Waits(s)
    BY <1>2 DEF Waits
  <2>2. Head(mail) = CheckTokenBudget(s) => Waits(s)
    BY <1>2 DEF Waits
  <2>3. Waits(s) => Waits(s)' \/ Head(mail) = CheckTokenBudget(s)
    BY <1>2 DEF Waits
  <2>4. QED
    BY <2>1, <2>2, <2>3
<1>5. ~Head(mail).check => \A s \in Slots : Waits(s)' <=> Waits(s)
  BY <1>4, MessageTypes
<1>6. ASSUME Head(mail).check
      PROVE  /\ Waits(Head(mail).by) /\ Head(mail).by \in Slots
             /\ Head(mail).total = 0
             /\ \A i \in DOMAIN mail' : mail'[i].by # Head(mail).by
             /\ \A s \in Slots : Waits(s)' <=> Waits(s) /\ s # Head(mail).by
  <2> DEFINE h == Head(mail)
  <2>1. h = CheckTokenBudget(h.by) /\ h.by \in Slots
    BY <1>1, <1>2, <1>6 DEF CheckIsLast, Message
  <2>2. h.total = 0
    BY <2>1 DEF CheckTokenBudget
  <2>3. Waits(h.by)
    BY <1>2, <2>1 DEF Waits
  <2>4. ASSUME NEW i \in DOMAIN mail' PROVE mail'[i].by # h.by
    <3>1. i + 1 \in DOMAIN mail /\ mail'[i] = mail[i + 1] /\ i \in Nat \ {0}
      BY <1>2
    <3>2. ~(i + 1 <= 1)
      BY <3>1
    <3>3. QED
      BY <1>1, <1>2, <1>6, <3>1, <3>2 DEF CheckIsLast
  <2>5. PICK u : u = h.by
    OBVIOUS
  <2>6. ~Waits(u)'
    <3>1. \A i \in DOMAIN mail' : mail'[i] # CheckTokenBudget(u)
      BY <2>1, <2>4, <2>5, MessageTypes
    <3>2. QED
      BY <3>1 DEF Waits
  <2>7. \A s \in Slots : h = CheckTokenBudget(s) => s = u
    BY <2>5, MessageTypes
  <2>8. \A s \in Slots : Waits(s)' <=> Waits(s) /\ s # u
    <3>1. h = CheckTokenBudget(u)
      BY <2>1, <2>5
    <3>2. QED
      BY <1>4, <2>6, <2>7, <3>1
  <2>9. QED
    BY <2>1, <2>2, <2>3, <2>4, <2>5, <2>8
<1>7. QED
  BY <1>2, <1>3, <1>5, <1>6


\* The conjuncts of the invariant that a step has to restore.
LEMMA MailNext ==
    (/\ tokens' \in Nat /\ tokens' <= Burst
     /\ admitted' \in Age
     /\ turns' \in [Slots -> Stage]
     /\ mail' \in Seq(Message)
     /\ recorded' \in [turns : Age, others : Age]
     /\ \A s \in Slots : turns'[s] = Checking <=> Waits(s)'
     /\ CheckIsLast')
    => MailInv'
  BY AdmissionAssumption DEF MailInv, TypeOK, Age, Stage, Message, Waits

LEMMA MailBegin == \A s \in Slots : MailInv /\ Begin(s) => MailInv'
<1> SUFFICES ASSUME NEW s \in Slots, MailInv, Begin(s) PROVE MailInv'
  OBVIOUS
<1> DEFINE e == CheckTokenBudget(s)
<1>1. /\ tokens' = tokens - 1 /\ tokens >= 1
      /\ admitted' = [admitted EXCEPT ![0] = admitted[0] + 1]
      /\ turns' = [turns EXCEPT ![s] = Checking]
      /\ mail' = Append(mail, e) /\ recorded' = recorded /\ turns[s] = Idle
  BY DEF Begin, RatePasses, ConsumeOne
<1>2. e \in Message /\ e.by = s /\ \A u \in Slots : e = CheckTokenBudget(u) <=> u = s
  BY MessageTypes
<1>3. ~Waits(e.by)
  BY <1>1, <1>2, MailParts, StageFields
<1> HIDE DEF e
<1>4. /\ mail' \in Seq(Message) /\ CheckIsLast'
      /\ \A u \in Slots : Waits(u)' <=> Waits(u) \/ e = CheckTokenBudget(u)
  BY <1>1, <1>2, <1>3, Sends DEF e
<1>5. tokens' \in Nat /\ tokens' <= Burst /\ recorded' \in [turns : Age, others : Age]
  BY <1>1, MailParts, AdmissionAssumption
<1>6. admitted' \in Age
  <2>1. admitted \in Age
    BY MailParts
  <2>2. admitted[0] + 1 \in Nat
    BY <2>1, Ages0 DEF Age
  <2>3. QED
    BY <1>1, <2>1, <2>2 DEF Age
<1>7. turns' \in [Slots -> Stage] /\ turns'[s] = Checking /\ \A u \in Slots : u # s => turns'[u] = turns[u]
  BY <1>1, MailParts, StageFields
<1>8. \A u \in Slots : turns'[u] = Checking <=> Waits(u)'
  BY <1>2, <1>4, <1>7, MailParts
<1>9. QED
  BY <1>4, <1>5, <1>6, <1>7, <1>8, MailNext

LEMMA MailAnswer == \A s \in Slots : MailInv /\ Answer(s) => MailInv'
<1> SUFFICES ASSUME NEW s \in Slots, MailInv, Answer(s) PROVE MailInv'
  OBVIOUS
<1>1. PICK n \in 0..Dearest : mail' = Append(mail, RecordTokenUsage(s, n))
  BY DEF Answer
<1> DEFINE e == RecordTokenUsage(s, n)
           t == IF turns[s].left = 1 THEN Idle ELSE Running(turns[s].left - 1)
<1>2. /\ turns[s].stage = "running"
      /\ turns' = [turns EXCEPT ![s] = t]
      /\ tokens' = tokens /\ admitted' = admitted /\ recorded' = recorded
  BY DEF Answer
<1>3. /\ e \in Message /\ ~e.check /\ e.by = s /\ \A u \in Slots : e # CheckTokenBudget(u)
  BY MessageTypes, AdmissionAssumption DEF RecordTokenUsage
<1>4. turns \in [Slots -> Stage] /\ turns[s] \in Stage /\ turns[s] # Checking
  BY <1>2, MailParts, StageFields
<1>5. ~Waits(e.by)
  BY <1>3, <1>4, MailParts
<1>6. t \in Stage /\ t # Checking
  <2>1. turns[s].left \in 1..Answers
    BY <1>2, <1>4, StageFields
  <2>2. turns[s].left # 1 => turns[s].left - 1 \in 1..Answers
    BY <2>1, AdmissionAssumption
  <2>3. QED
    BY <2>2, StageFields
<1> HIDE DEF e, t
<1>7. /\ mail' \in Seq(Message) /\ CheckIsLast'
      /\ \A u \in Slots : Waits(u)' <=> Waits(u) \/ e = CheckTokenBudget(u)
  BY <1>1, <1>3, <1>5, Sends DEF e
<1>8. turns' \in [Slots -> Stage] /\ \A u \in Slots : turns'[u] = Checking <=> turns[u] = Checking
  BY <1>2, <1>4, <1>6
<1>9. QED
  BY <1>2, <1>3, <1>7, <1>8, MailParts, MailNext

LEMMA MailEnd == \A s \in Slots : MailInv /\ End(s) => MailInv'
<1> SUFFICES ASSUME NEW s \in Slots, MailInv, End(s) PROVE MailInv'
  OBVIOUS
<1>1. /\ turns[s].stage = "running" /\ turns' = [turns EXCEPT ![s] = Idle]
      /\ tokens' = tokens /\ admitted' = admitted /\ recorded' = recorded /\ mail' = mail
  BY DEF End
<1>2. turns' \in [Slots -> Stage] /\ \A u \in Slots : turns'[u] = Checking <=> turns[u] = Checking
  BY <1>1, MailParts, StageFields
<1>3. CheckIsLast' /\ \A u \in Slots : Waits(u)' <=> Waits(u)
  BY <1>1, MailParts DEF CheckIsLast, Waits
<1>4. QED
  BY <1>1, <1>2, <1>3, MailParts, MailNext

LEMMA MailHandle == MailInv /\ HandleMail => MailInv'
<1> SUFFICES ASSUME MailInv, HandleMail PROVE MailInv'
  OBVIOUS
<1> DEFINE h == Head(mail)
<1>1. /\ mail # <<>> /\ mail' = Tail(mail) /\ tokens' = tokens /\ admitted' = admitted
  BY DEF HandleMail
<1>2. /\ mail' \in Seq(Message) /\ CheckIsLast'
      /\ ~h.check => \A s \in Slots : Waits(s)' <=> Waits(s)
      /\ h.check => /\ h.by \in Slots
                    /\ \A s \in Slots : Waits(s)' <=> Waits(s) /\ s # h.by
  BY <1>1, Handles
<1>3. h \in Message
  BY <1>1, MailParts, TailParts
<1> HIDE DEF h
<1>4. CASE Check
  <2> DEFINE t == IF Allowed THEN Running(Answers) ELSE Idle
  <2>1. h.check /\ turns' = [turns EXCEPT ![h.by] = t] /\ recorded' = recorded
    BY <1>4 DEF Check, h
  <2>2. t \in Stage /\ t # Checking
    BY StageFields, AdmissionAssumption
  <2> HIDE DEF t
  <2>3. /\ turns' \in [Slots -> Stage]
        /\ \A u \in Slots : turns'[u] = Checking <=> turns[u] = Checking /\ u # h.by
    BY <1>2, <2>1, <2>2, MailParts
  <2>4. QED
    BY <1>1, <1>2, <2>1, <2>3, MailParts, MailNext
<1>5. CASE Record
  <2>1. ~h.check /\ turns' = turns
        /\ recorded' = [recorded EXCEPT !.turns[0] = recorded.turns[0] + h.total]
    BY <1>5 DEF Record, h
  <2>2. recorded \in [turns : Age, others : Age]
    BY MailParts
  <2>3. recorded.turns[0] + h.total \in Nat
    BY <1>3, <2>2, Ages0 DEF Age, Message
  <2>4. recorded' \in [turns : Age, others : Age]
    BY <2>1, <2>2, <2>3 DEF Age
  <2>5. QED
    BY <1>1, <1>2, <2>1, <2>4, MailParts, MailNext
<1>6. QED
  BY <1>4, <1>5 DEF HandleMail

LEMMA MailOthers == MailInv /\ OthersSpend => MailInv'
<1> SUFFICES ASSUME MailInv, OthersSpend PROVE MailInv'
  OBVIOUS
<1>1. PICK n \in 0..Dearest :
        recorded' = [recorded EXCEPT !.others[0] = recorded.others[0] + n]
  BY DEF OthersSpend
<1>2. /\ turns' = turns /\ tokens' = tokens /\ admitted' = admitted /\ mail' = mail
  BY DEF OthersSpend
<1>3. recorded \in [turns : Age, others : Age]
  BY MailParts
<1>4. recorded.others[0] + n \in Nat
  BY <1>3, Ages0, AdmissionAssumption DEF Age
<1>5. recorded' \in [turns : Age, others : Age]
  BY <1>1, <1>3, <1>4 DEF Age
<1>6. CheckIsLast' /\ \A u \in Slots : Waits(u)' <=> Waits(u)
  BY <1>2, MailParts DEF CheckIsLast, Waits
<1>7. QED
  BY <1>2, <1>5, <1>6, MailParts, MailNext

LEMMA MailTick == MailInv /\ Tick => MailInv'
<1> SUFFICES ASSUME MailInv, Tick PROVE MailInv'
  OBVIOUS
<1>1. /\ tokens' = Refilled(tokens) /\ admitted' = Older(admitted)
      /\ recorded' = [turns |-> Older(recorded.turns), others |-> Older(recorded.others)]
      /\ turns' = turns /\ mail' = mail
  BY DEF Tick
<1>2. tokens' \in Nat /\ tokens' <= Burst
  BY <1>1, MailParts, AdmissionAssumption DEF Refilled
<1>3. admitted' \in Age /\ recorded' \in [turns : Age, others : Age]
  BY <1>1, MailParts, OlderType
<1>4. CheckIsLast' /\ \A u \in Slots : Waits(u)' <=> Waits(u)
  BY <1>1, MailParts DEF CheckIsLast, Waits
<1>5. QED
  BY <1>1, <1>2, <1>3, <1>4, MailParts, MailNext

LEMMA MailRestart == MailInv /\ Restart => MailInv'
<1> SUFFICES ASSUME MailInv, Restart PROVE MailInv'
  OBVIOUS
<1>1. /\ tokens' = Burst /\ admitted' = NothingSpent /\ turns' = [s \in Slots |-> Idle]
      /\ mail' = <<>> /\ recorded' = recorded
  BY DEF Restart
<1>2. CheckIsLast' /\ \A u \in Slots : ~Waits(u)'
  BY <1>1 DEF CheckIsLast, Waits
<1>3. turns' \in [Slots -> Stage] /\ \A u \in Slots : turns'[u] # Checking
  BY <1>1, StageFields
<1>4. QED
  BY <1>1, <1>2, <1>3, MailParts, MailNext, NothingSpentType, AdmissionAssumption

LEMMA MailStutter == MailInv /\ UNCHANGED vars => MailInv'
  BY DEF MailInv, TypeOK, CheckIsLast, vars

LEMMA MailStep == MailInv /\ [Next]_vars => MailInv'
  BY MailBegin, MailAnswer, MailEnd, MailHandle, MailOthers, MailTick, MailRestart, MailStutter
  DEF Next

\* Counters are what they say, and a turn waits for its check exactly while
\* the check is in the mailbox of TokenUsageActor.
THEOREM AdmissionTypeCorrect == Spec => []TypeOK
<1>1. MailInv => TypeOK
  BY DEF MailInv
<1>2. QED
  BY <1>1, InitMail, MailStep, PTL DEF Spec


----------------------------------------------------------------------------
\* What happened since

LEMMA AgeTerms == \A f \in Age : \A a \in Ages : a \in Nat /\ f[0] \in Nat /\ \A k \in 0..a : f[k] \in Nat
  BY AdmissionAssumption DEF Age, Ages

LEMMA SinceType == \A f \in Age : \A a \in Ages : Since(f, a) \in Nat /\ SumTo(f, a) \in Nat
<1> TAKE f \in Age
<1> TAKE a \in Ages
<1>1. SumTo(f, a) \in Nat
  BY AgeTerms, SumNat
<1>2. QED
  BY <1>1, AgeTerms DEF Since

\* One more thing happens.
LEMMA SinceAdds ==
    \A f \in Age : \A n \in Nat : \A a \in Ages :
        Since([f EXCEPT ![0] = f[0] + n], a) = Since(f, a) + n
<1> TAKE f \in Age
<1> TAKE n \in Nat
<1> TAKE a \in Ages
<1> DEFINE g == [f EXCEPT ![0] = f[0] + n]
<1>1. g[0] = f[0] + n /\ \A k \in 1..a : g[k] = f[k]
  BY Ages0, AdmissionAssumption DEF Age, Ages
<1> HIDE DEF g
<1>2. SumTo(g, a) = SumTo(f, a)
  BY <1>1, SumSame, AgeTerms
<1>3. Since(g, a) = Since(f, a) + n
  BY <1>1, <1>2, SinceType, AgeTerms DEF Since
<1>4. QED
  BY <1>3 DEF g

\* Time passes: everything is one tick further back.
LEMMA SinceOlder ==
    \A f \in Age :
        /\ Since(Older(f), 0) = 0
        /\ \A a \in Ages : a # 0 => a - 1 \in Ages /\ Since(Older(f), a) = Since(f, a - 1)
<1> TAKE f \in Age
<1> DEFINE g == Older(f)
<1>1. g[0] = 0 /\ \A k \in Ages : k # 0 => g[k] = f[k - 1]
  BY Ages0 DEF Older
<1> HIDE DEF g
<1>2. Since(g, 0) = 0
  BY <1>1, SumStep DEF Since
<1>3. ASSUME NEW a \in Ages, a # 0
      PROVE  a - 1 \in Ages /\ Since(g, a) = Since(f, a - 1)
  <2>1. a - 1 \in Ages /\ a - 1 \in Nat /\ a = (a - 1) + 1 /\ 1 \in Ages /\ a \in Nat
    BY <1>3, AdmissionAssumption DEF Ages
  <2>2. \A k \in 1..(a - 1) : f[k] = g[k + 1] /\ f[k] \in Nat
    <3>1. \A k \in 1..(a - 1) : k + 1 \in Ages /\ k + 1 # 0 /\ (k + 1) - 1 = k /\ k \in Ages
      BY <2>1, AdmissionAssumption DEF Ages
    <3>2. QED
      BY <1>1, <3>1 DEF Age
  <2>3. g[1] = f[0] /\ f[0] \in Nat
    BY <1>1, <2>1, Ages0 DEF Age
  <2>4. SumTo(g, (a - 1) + 1) = g[1] + SumTo(f, a - 1)
    BY <2>1, <2>2, <2>3, SumFirst
  <2>5. SumTo(g, a) = f[0] + SumTo(f, a - 1)
    BY <2>1, <2>3, <2>4
  <2>6. SumTo(f, a - 1) \in Nat
    BY <2>1, SinceType
  <2>7. Since(g, a) = Since(f, a - 1)
    BY <1>1, <2>3, <2>5, <2>6 DEF Since
  <2>8. QED
    BY <2>1, <2>7
<1>4. QED
  BY <1>2, <1>3 DEF g

\* Looking further back finds more.
LEMMA SinceGrows == \A f \in Age : \A a \in Ages : a # 0 => Since(f, a - 1) <= Since(f, a)
<1> TAKE f \in Age
<1> TAKE a \in Ages
<1> HAVE a # 0
<1>1. a - 1 \in Ages /\ a - 1 \in Nat /\ a = (a - 1) + 1
  BY AdmissionAssumption DEF Ages
<1>2. SumTo(f, (a - 1) + 1) = SumTo(f, a - 1) + f[(a - 1) + 1]
  BY <1>1, SumStep
<1>3. SumTo(f, a) = SumTo(f, a - 1) + f[a]
  BY <1>1, <1>2
<1>4. QED
  BY <1>1, <1>3, SinceType, AgeTerms DEF Since, Age

LEMMA OlderIsLess == \A f \in Age : \A a \in Ages : Since(Older(f), a) <= Since(f, a)
  BY SinceOlder, SinceGrows, SinceType

LEMMA NothingSince == \A a \in Ages : Since(NothingSpent, a) = 0
<1> TAKE a \in Ages
<1>1. NothingSpent[0] = 0 /\ \A k \in 1..a : NothingSpent[k] \in 0..0
  BY Ages0, AdmissionAssumption DEF NothingSpent, Ages
<1>2. SumTo(NothingSpent, a) \in 0..(a * 0) /\ a \in Nat
  BY <1>1, SumBound, Ages0
<1>3. SumTo(NothingSpent, a) = 0
  BY <1>2
<1>4. QED
  BY <1>1, <1>3 DEF Since

----------------------------------------------------------------------------
\* The rate

\* What was let through and what is left of the bucket: the invariant behind
\* RateHolds, which says nothing of the tokens a burst may still take.
RateInv == \A a \in Ages : Since(admitted, a) + tokens <= Burst + a * Refill

LEMMA InitRate == Init => RateInv
<1> SUFFICES ASSUME Init, NEW a \in Ages PROVE Since(admitted, a) + tokens <= Burst + a * Refill
  BY DEF RateInv
<1>1. Since(admitted, a) = 0 /\ tokens = Burst
  BY NothingSince DEF Init
<1>2. a \in Nat /\ a * Refill \in Nat
  BY Ages0, AdmissionAssumption
<1>3. QED
  BY <1>1, <1>2, AdmissionAssumption

LEMMA RateConsumes == \A s \in Slots : MailInv /\ RateInv /\ Begin(s) => RateInv'
<1> SUFFICES ASSUME NEW s \in Slots, MailInv, RateInv, Begin(s), NEW a \in Ages
             PROVE  Since(admitted', a) + tokens' <= Burst + a * Refill
  BY DEF RateInv
<1>1. tokens' = tokens - 1 /\ admitted' = [admitted EXCEPT ![0] = admitted[0] + 1]
  BY DEF Begin, RatePasses, ConsumeOne
<1>2. Since(admitted', a) = Since(admitted, a) + 1
  BY <1>1, SinceAdds, MailParts
<1>3. Since(admitted, a) + tokens <= Burst + a * Refill
  BY DEF RateInv
<1>4. Since(admitted, a) \in Nat /\ tokens \in Nat
  BY MailParts, SinceType
<1>5. a * Refill \in Nat
  BY Ages0, AdmissionAssumption
<1>6. QED
  BY <1>1, <1>2, <1>3, <1>4, <1>5, AdmissionAssumption

LEMMA RateTick == MailInv /\ RateInv /\ Tick => RateInv'
<1> SUFFICES ASSUME MailInv, RateInv, Tick, NEW a \in Ages
             PROVE  Since(admitted', a) + tokens' <= Burst + a * Refill
  BY DEF RateInv
<1>1. /\ admitted' = Older(admitted) /\ admitted \in Age /\ tokens \in Nat
      /\ tokens' \in Nat /\ tokens' <= tokens + Refill /\ tokens' <= Burst
  BY MailParts, AdmissionAssumption DEF Tick, Refilled
<1>2. CASE a = 0
  <2>1. Since(admitted', a) = 0
    BY <1>1, <1>2, SinceOlder
  <2>2. QED
    BY <1>1, <1>2, <2>1, AdmissionAssumption
<1>3. CASE a # 0
  <2>1. a - 1 \in Ages /\ Since(admitted', a) = Since(admitted, a - 1)
    BY <1>1, <1>3, SinceOlder
  <2>2. Since(admitted, a - 1) + tokens <= Burst + (a - 1) * Refill
    BY <2>1 DEF RateInv
  <2>3. (a - 1) * Refill + Refill = a * Refill /\ (a - 1) * Refill \in Nat /\ a \in Nat
    BY <2>1, Ages0, AdmissionAssumption
  <2>4. Since(admitted, a - 1) \in Nat
    BY <1>1, <2>1, SinceType
  <2>5. QED
    BY <1>1, <2>1, <2>2, <2>3, <2>4, AdmissionAssumption
<1>4. QED
  BY <1>2, <1>3

LEMMA RateRestart == RateInv /\ Restart => RateInv'
<1> SUFFICES ASSUME Restart, NEW a \in Ages
             PROVE  Since(admitted', a) + tokens' <= Burst + a * Refill
  BY DEF RateInv
<1>1. Since(admitted', a) = 0 /\ tokens' = Burst
  BY NothingSince DEF Restart
<1>2. a \in Nat /\ a * Refill \in Nat
  BY Ages0, AdmissionAssumption
<1>3. QED
  BY <1>1, <1>2, AdmissionAssumption

LEMMA RateSame == RateInv /\ UNCHANGED <<tokens, admitted>> => RateInv'
  BY DEF RateInv

LEMMA RateStep == MailInv /\ RateInv /\ [Next]_vars => RateInv'
<1>1. \A s \in Slots : Answer(s) \/ End(s) => UNCHANGED <<tokens, admitted>>
  BY DEF Answer, End
<1>2. HandleMail \/ OthersSpend \/ UNCHANGED vars => UNCHANGED <<tokens, admitted>>
  BY DEF HandleMail, OthersSpend, vars
<1>3. QED
  BY <1>1, <1>2, RateConsumes, RateTick, RateRestart, RateSame DEF Next

\* In every span of time since the start the bucket lets through no more than
\* a burst and what it regains in that span.
THEOREM RateIsKept == Spec => []RateHolds
<1>1. MailInv /\ RateInv => RateHolds
  <2> SUFFICES ASSUME MailInv, RateInv, NEW a \in Ages
               PROVE  Since(admitted, a) <= Burst + a * Refill
    BY DEF RateHolds
  <2>1. Since(admitted, a) \in Nat /\ tokens \in Nat /\ a * Refill \in Nat /\ Burst \in Nat
    BY MailParts, SinceType, Ages0, AdmissionAssumption
  <2>2. QED
    BY <2>1 DEF RateInv
<1>2. QED
  BY <1>1, InitMail, InitRate, MailStep, RateStep, PTL DEF Spec


----------------------------------------------------------------------------
\* What waits in the mailbox

CostOf(e, s) == IF e.by = s THEN e.total ELSE 0
InMail(m, s) == SumTo([i \in DOMAIN m |-> IF m[i].by = s THEN m[i].total ELSE 0], Len(m))

LEMMA UnrecordedParts == \A s \in Slots : Unrecorded(s) = InMail(mail, s) + turns[s].left * Dearest
  BY DEF Unrecorded, InMail

LEMMA InMailType == \A m \in Seq(Message) : \A s \in Slots : InMail(m, s) \in Nat
<1> TAKE m \in Seq(Message)
<1> TAKE s \in Slots
<1> DEFINE f == [i \in DOMAIN m |-> IF m[i].by = s THEN m[i].total ELSE 0]
<1>1. DOMAIN m = 1..Len(m) /\ Len(m) \in Nat /\ \A i \in 1..Len(m) : m[i] \in Message
  OBVIOUS
<1>2. \A i \in 1..Len(m) : f[i] \in Nat
  BY <1>1 DEF Message
<1> HIDE DEF f
<1>3. SumTo(f, Len(m)) \in Nat
  BY <1>1, <1>2, SumNat
<1>4. QED
  BY <1>3 DEF InMail, f

LEMMA InMailAppend ==
    \A m \in Seq(Message) : \A e \in Message : \A s \in Slots :
        InMail(Append(m, e), s) = InMail(m, s) + CostOf(e, s)
<1> TAKE m \in Seq(Message)
<1> TAKE e \in Message
<1> TAKE s \in Slots
<1> DEFINE f == [i \in DOMAIN m |-> IF m[i].by = s THEN m[i].total ELSE 0]
           w == Append(m, e)
           g == [i \in DOMAIN w |-> IF w[i].by = s THEN w[i].total ELSE 0]
           n == Len(m)
<1>1. n \in Nat /\ DOMAIN m = 1..n /\ DOMAIN w = 1..(n + 1) /\ Len(w) = n + 1
  OBVIOUS
<1>2. w[n + 1] = e /\ \A i \in 1..n : w[i] = m[i]
  OBVIOUS
<1>3. g[n + 1] = CostOf(e, s) /\ \A i \in 1..n : g[i] = f[i]
  BY <1>1, <1>2 DEF CostOf
<1> HIDE DEF f, g
<1>4. SumTo(g, n + 1) = SumTo(g, n) + g[n + 1] /\ SumTo(g, n) = SumTo(f, n)
  BY <1>1, <1>3, SumStep, SumSame
<1>5. SumTo(g, Len(w)) = SumTo(f, n) + CostOf(e, s)
  BY <1>1, <1>3, <1>4
<1>6. QED
  BY <1>5 DEF InMail, f, g

LEMMA InMailTail ==
    \A m \in Seq(Message) : m # <<>> =>
        \A s \in Slots : InMail(m, s) = CostOf(Head(m), s) + InMail(Tail(m), s)
<1> TAKE m \in Seq(Message)
<1> HAVE m # <<>>
<1> TAKE s \in Slots
<1> DEFINE w == Tail(m)
           f == [i \in DOMAIN m |-> IF m[i].by = s THEN m[i].total ELSE 0]
           g == [i \in DOMAIN w |-> IF w[i].by = s THEN w[i].total ELSE 0]
           n == Len(w)
<1>1. /\ w \in Seq(Message) /\ Head(m) = m[1] /\ m[1] \in Message /\ 1 \in DOMAIN m
      /\ \A i \in DOMAIN w : i + 1 \in DOMAIN m /\ w[i] = m[i + 1] /\ w[i] \in Message
      /\ DOMAIN w = 1..n /\ Len(m) = n + 1 /\ n \in Nat
  BY TailParts
<1>2. f[1] = CostOf(Head(m), s) /\ f[1] \in Nat
  BY <1>1 DEF CostOf, Message
<1>3. \A i \in 1..n : g[i] = f[i + 1] /\ g[i] \in Nat
  BY <1>1 DEF Message
<1> HIDE DEF w, f, g
<1>4. SumTo(f, n + 1) = f[1] + SumTo(g, n)
  BY <1>1, <1>2, <1>3, SumFirst
<1>5. SumTo(f, Len(m)) = CostOf(Head(m), s) + SumTo(g, Len(w))
  BY <1>1, <1>2, <1>4
<1>6. QED
  BY <1>5 DEF InMail, f, g, w

LEMMA InMailNone ==
    \A m \in Seq(Message) : \A s \in Slots :
        (\A i \in DOMAIN m : m[i].by # s) => InMail(m, s) = 0
<1> TAKE m \in Seq(Message)
<1> TAKE s \in Slots
<1> HAVE \A i \in DOMAIN m : m[i].by # s
<1> DEFINE f == [i \in DOMAIN m |-> IF m[i].by = s THEN m[i].total ELSE 0]
<1>1. DOMAIN m = 1..Len(m) /\ Len(m) \in Nat
  OBVIOUS
<1>2. \A i \in 1..Len(m) : f[i] \in 0..0
  BY <1>1
<1> HIDE DEF f
<1>3. SumTo(f, Len(m)) \in 0..(Len(m) * 0)
  BY <1>1, <1>2, SumBound
<1>4. SumTo(f, Len(m)) = 0
  BY <1>1, <1>3
<1>5. QED
  BY <1>4 DEF InMail, f

----------------------------------------------------------------------------
\* What a turn may still spend

\* No turn has more on its way than what a turn costs.  It is this, and that
\* a turn asks after its records are in the mailbox, that makes the check of a
\* turn see everything it spent before.
TurnsAreBounded == \A s \in Slots : Unrecorded(s) <= TurnCost

LEMMA TurnCostType ==
    /\ TurnCost \in Nat /\ TurnCost = Answers * Dearest /\ 0 * Dearest = 0
    /\ \A n \in Nat : n * Dearest \in Nat
    /\ \A n \in Nat \ {0} : (n - 1) * Dearest + Dearest = n * Dearest
  BY AdmissionAssumption DEF TurnCost

LEMMA UnrecordedType == MailInv => \A s \in Slots : Unrecorded(s) \in Nat
<1> SUFFICES ASSUME MailInv, NEW s \in Slots PROVE Unrecorded(s) \in Nat
  OBVIOUS
<1>1. InMail(mail, s) \in Nat /\ turns[s].left \in Nat
  BY MailParts, InMailType, StageFields, AdmissionAssumption
<1>2. QED
  BY <1>1, UnrecordedParts, TurnCostType

LEMMA UnrecordedNext == MailInv' => \A s \in Slots : Unrecorded(s)' \in Nat
<1>1. (MailInv => \A s \in Slots : Unrecorded(s) \in Nat)'
  BY UnrecordedType, PTL
<1>2. QED
  BY <1>1

LEMMA UnderwayType == MailInv => Underway \in Nat
<1> SUFFICES ASSUME MailInv PROVE Underway \in Nat
  OBVIOUS
<1> DEFINE f == [s \in Slots |-> Unrecorded(s)]
<1>1. \A k \in 1..MaxTurns : f[k] \in Nat
  BY UnrecordedType DEF Slots
<1> HIDE DEF f
<1>2. SumTo(f, MaxTurns) \in Nat
  BY <1>1, SumNat, AdmissionAssumption
<1>3. QED
  BY <1>2 DEF Underway, f

LEMMA UnderwayNext == MailInv' => Underway' \in Nat
<1>1. (MailInv => Underway \in Nat)'
  BY UnderwayType, PTL
<1>2. QED
  BY <1>1

\* No turn has more on its way than before: nor have all of them together.
LEMMA UnderwayLess ==
    MailInv /\ MailInv' /\ (\A s \in Slots : Unrecorded(s)' <= Unrecorded(s))
    => Underway' <= Underway
<1> SUFFICES ASSUME MailInv, MailInv', \A s \in Slots : Unrecorded(s)' <= Unrecorded(s)
             PROVE  Underway' <= Underway
  OBVIOUS
<1>0. PICK f : f = [s \in Slots |-> Unrecorded(s)]
  OBVIOUS
<1>1. PICK g : g = [s \in Slots |-> Unrecorded(s)']
  OBVIOUS
<1>2. \A s \in Slots : Unrecorded(s) \in Nat /\ Unrecorded(s)' \in Nat
  BY UnrecordedType, UnrecordedNext
<1>3. \A k \in 1..MaxTurns : g[k] \in Nat /\ f[k] \in Nat /\ g[k] <= f[k]
  BY <1>0, <1>1, <1>2 DEF Slots
<1>4. SumTo(g, MaxTurns) <= SumTo(f, MaxTurns)
  BY <1>3, SumLeq, AdmissionAssumption
<1>5. Underway = SumTo(f, MaxTurns)
  BY <1>0 DEF Underway
<1>6. Underway' = SumTo(g, MaxTurns)
  BY <1>1 DEF Underway, SumTo
<1>7. QED
  BY <1>4, <1>5, <1>6


LEMMA UnrecordedPartsNext ==
    \A s \in Slots : Unrecorded(s)' = InMail(mail', s) + turns'[s].left * Dearest
  BY DEF Unrecorded, InMail

\* Asking to begin spends nothing.
LEMMA SpendBegin ==
    \A s \in Slots : MailInv /\ Begin(s) => \A u \in Slots : Unrecorded(u)' <= Unrecorded(u)
<1> SUFFICES ASSUME NEW s \in Slots, MailInv, Begin(s), NEW u \in Slots
             PROVE  Unrecorded(u)' <= Unrecorded(u)
  OBVIOUS
<1>1. /\ turns' = [turns EXCEPT ![s] = Checking] /\ turns[s] = Idle
      /\ mail' = Append(mail, CheckTokenBudget(s))
  BY DEF Begin, RatePasses, ConsumeOne
<1>2. CheckTokenBudget(s) \in Message /\ CostOf(CheckTokenBudget(s), u) = 0
  BY MessageTypes DEF CostOf, CheckTokenBudget
<1>3. InMail(mail', u) = InMail(mail, u) + 0
  BY <1>1, <1>2, InMailAppend, MailParts
<1>4. turns'[u].left = turns[u].left
  BY <1>1, MailParts DEF Idle, Checking
<1>5. InMail(mail, u) \in Nat /\ turns[u].left \in Nat
  BY MailParts, InMailType, StageFields, AdmissionAssumption
<1>6. QED
  BY <1>3, <1>4, <1>5, UnrecordedParts, UnrecordedPartsNext, TurnCostType

\* An answer moves what it cost from what the turn may spend to the mailbox.
LEMMA SpendAnswer ==
    \A s \in Slots : MailInv /\ Answer(s) => \A u \in Slots : Unrecorded(u)' <= Unrecorded(u)
<1> SUFFICES ASSUME NEW s \in Slots, MailInv, Answer(s), NEW u \in Slots
             PROVE  Unrecorded(u)' <= Unrecorded(u)
  OBVIOUS
<1>1. PICK n \in 0..Dearest : mail' = Append(mail, RecordTokenUsage(s, n))
  BY DEF Answer
<1>2. /\ turns' = [turns EXCEPT ![s] = IF turns[s].left = 1 THEN Idle ELSE Running(turns[s].left - 1)]
      /\ turns[s].stage = "running"
  BY DEF Answer
<1>3. /\ RecordTokenUsage(s, n) \in Message /\ n \in Nat /\ n <= Dearest /\ Dearest \in Nat
      /\ CostOf(RecordTokenUsage(s, n), u) = IF s = u THEN n ELSE 0
  BY MessageTypes, AdmissionAssumption DEF CostOf, RecordTokenUsage
<1>4. InMail(mail', u) = InMail(mail, u) + (IF s = u THEN n ELSE 0)
  BY <1>1, <1>3, InMailAppend, MailParts
<1>5. turns \in [Slots -> Stage] /\ turns[s].left \in Nat \ {0}
  BY <1>2, MailParts, StageFields
<1>6. turns'[u].left = IF s = u THEN turns[s].left - 1 ELSE turns[u].left
  BY <1>2, <1>5 DEF Idle, Running
<1>7. InMail(mail, u) \in Nat /\ turns[u].left \in Nat /\ turns[u].left * Dearest \in Nat
  BY MailParts, InMailType, StageFields, AdmissionAssumption, TurnCostType
<1>8. CASE s = u
  <2>1. turns'[u].left * Dearest + Dearest = turns[u].left * Dearest
    BY <1>5, <1>6, <1>8, TurnCostType
  <2>2. turns'[u].left * Dearest \in Nat
    BY <1>5, <1>6, <1>8, TurnCostType
  <2>3. QED
    BY <1>3, <1>4, <1>7, <1>8, <2>1, <2>2, UnrecordedParts, UnrecordedPartsNext
<1>9. CASE s # u
  BY <1>4, <1>6, <1>7, <1>9, UnrecordedParts, UnrecordedPartsNext
<1>10. QED
  BY <1>8, <1>9

LEMMA SpendEnd ==
    \A s \in Slots : MailInv /\ End(s) => \A u \in Slots : Unrecorded(u)' <= Unrecorded(u)
<1> SUFFICES ASSUME NEW s \in Slots, MailInv, End(s), NEW u \in Slots
             PROVE  Unrecorded(u)' <= Unrecorded(u)
  OBVIOUS
<1>1. turns' = [turns EXCEPT ![s] = Idle] /\ mail' = mail
  BY DEF End
<1>2. turns'[u].left = IF s = u THEN 0 ELSE turns[u].left
  BY <1>1, MailParts DEF Idle
<1>3. InMail(mail, u) \in Nat /\ turns[u].left \in Nat /\ turns[u].left * Dearest \in Nat
  BY MailParts, InMailType, StageFields, AdmissionAssumption, TurnCostType
<1>4. turns'[u].left * Dearest <= turns[u].left * Dearest
  BY <1>2, <1>3, TurnCostType
<1>5. turns'[u].left * Dearest \in Nat
  BY <1>2, <1>3, TurnCostType
<1>6. QED
  BY <1>1, <1>3, <1>4, <1>5, UnrecordedParts, UnrecordedPartsNext

LEMMA SpendRestart ==
    MailInv /\ Restart => \A u \in Slots : Unrecorded(u)' <= Unrecorded(u)
<1> SUFFICES ASSUME MailInv, Restart, NEW u \in Slots
             PROVE  Unrecorded(u)' <= Unrecorded(u)
  OBVIOUS
<1>1. mail' = <<>> /\ turns'[u].left = 0
  BY DEF Restart, Idle
<1>2. InMail(mail', u) = 0
  <2>1. mail' \in Seq(Message) /\ DOMAIN mail' = {}
    BY <1>1
  <2>2. QED
    BY <2>1, InMailNone
<1>3. Unrecorded(u)' = 0
  BY <1>1, <1>2, UnrecordedPartsNext, TurnCostType
<1>4. QED
  BY <1>3, UnrecordedType

LEMMA SpendSame ==
    MailInv /\ UNCHANGED <<turns, mail>> => \A u \in Slots : Unrecorded(u)' <= Unrecorded(u)
<1> SUFFICES ASSUME MailInv, UNCHANGED <<turns, mail>>, NEW u \in Slots
             PROVE  Unrecorded(u)' <= Unrecorded(u)
  OBVIOUS
<1>1. Unrecorded(u)' = Unrecorded(u)
  BY UnrecordedParts, UnrecordedPartsNext
<1>2. QED
  BY <1>1, UnrecordedType

\* A check finds everything of its turn recorded: the turn starts afresh.
LEMMA SpendCheck ==
    MailInv /\ HandleMail /\ Check =>
        /\ Head(mail).by \in Slots
        /\ Unrecorded(Head(mail).by) = 0
        /\ \A u \in Slots : Unrecorded(u)' <= IF u = Head(mail).by /\ Allowed
                                              THEN TurnCost ELSE Unrecorded(u)
<1> SUFFICES ASSUME MailInv, HandleMail, Check
             PROVE  /\ Head(mail).by \in Slots
                    /\ Unrecorded(Head(mail).by) = 0
                    /\ \A u \in Slots : Unrecorded(u)' <= IF u = Head(mail).by /\ Allowed
                                                          THEN TurnCost ELSE Unrecorded(u)
  OBVIOUS
<1>1. PICK h : h = Head(mail)
  OBVIOUS
<1>2. /\ mail # <<>> /\ mail' = Tail(mail) /\ h.check
      /\ turns' = [turns EXCEPT ![h.by] = IF Allowed THEN Running(Answers) ELSE Idle]
  BY <1>1 DEF HandleMail, Check
<1>3. h.by \in Slots /\ h.total = 0 /\ Waits(h.by) /\ \A i \in DOMAIN mail' : mail'[i].by # h.by
  BY <1>1, <1>2, Handles
<1>4. \A u \in Slots : InMail(mail, u) = InMail(mail', u) /\ InMail(mail', u) \in Nat
  <2> TAKE u \in Slots
  <2>1. InMail(mail, u) = CostOf(h, u) + InMail(mail', u)
    BY <1>1, <1>2, MailParts, InMailTail
  <2>2. mail' \in Seq(Message)
    BY <1>2, Handles
  <2>3. InMail(mail', u) \in Nat
    BY <2>2, InMailType
  <2>4. QED
    BY <1>3, <2>1, <2>3 DEF CostOf
<1>5. InMail(mail', h.by) = 0
  <2>1. mail' \in Seq(Message)
    BY <1>2, Handles
  <2>2. QED
    BY <1>3, <2>1, InMailNone
<1>6. turns[h.by] = Checking /\ turns[h.by].left = 0
  BY <1>3, MailParts DEF Checking
<1>7. Unrecorded(h.by) = 0
  <2>1. Unrecorded(h.by) = InMail(mail, h.by) + turns[h.by].left * Dearest
    BY <1>3, UnrecordedParts
  <2>2. InMail(mail, h.by) = 0
    BY <1>3, <1>4, <1>5
  <2>3. QED
    BY <1>6, <2>1, <2>2, TurnCostType
<1>8. ASSUME NEW u \in Slots
      PROVE  Unrecorded(u)' <= IF u = h.by /\ Allowed THEN TurnCost ELSE Unrecorded(u)
  <2>1. Unrecorded(u) \in Nat
    BY UnrecordedType
  <2>2. CASE u # h.by
    <3>1. turns'[u] = turns[u]
      BY <1>2, <2>2, MailParts
    <3>2. Unrecorded(u)' = Unrecorded(u)
      BY <1>4, <3>1, UnrecordedParts, UnrecordedPartsNext
    <3>3. QED
      BY <2>1, <2>2, <3>2
  <2>3. CASE u = h.by
    <3>1. turns'[u].left = IF Allowed THEN Answers ELSE 0
      BY <1>2, <2>3, MailParts DEF Idle, Running
    <3>2. Unrecorded(u)' = 0 + turns'[u].left * Dearest
      BY <1>5, <2>3, UnrecordedPartsNext
    <3>3. CASE Allowed
      BY <2>3, <3>1, <3>2, <3>3, TurnCostType
    <3>4. CASE ~Allowed
      BY <2>1, <3>1, <3>2, <3>4, TurnCostType
    <3>5. QED
      BY <3>3, <3>4
  <2>4. QED
    BY <2>2, <2>3
<1>9. QED
  BY <1>1, <1>3, <1>7, <1>8

\* A record takes from what is on its way what it adds to the table.
LEMMA SpendRecord ==
    MailInv /\ HandleMail /\ Record =>
        /\ Head(mail).by \in Slots /\ Head(mail).total \in Nat
        /\ \A u \in Slots : u # Head(mail).by => Unrecorded(u)' = Unrecorded(u)
        /\ \A u \in Slots : u = Head(mail).by => Unrecorded(u)' + Head(mail).total = Unrecorded(u)
<1> SUFFICES ASSUME MailInv, HandleMail, Record
             PROVE  /\ Head(mail).by \in Slots /\ Head(mail).total \in Nat
                    /\ \A u \in Slots :
                          /\ u # Head(mail).by => Unrecorded(u)' = Unrecorded(u)
                          /\ u = Head(mail).by => Unrecorded(u)' + Head(mail).total = Unrecorded(u)
  OBVIOUS
<1>1. PICK h : h = Head(mail)
  OBVIOUS
<1>2. mail # <<>> /\ mail' = Tail(mail) /\ turns' = turns /\ mail \in Seq(Message)
  BY MailParts DEF HandleMail, Record
<1>3. h \in Message /\ h.by \in Slots /\ h.total \in Nat
  BY <1>1, <1>2, TailParts DEF Message
<1>4. ASSUME NEW u \in Slots
      PROVE  /\ u # h.by => Unrecorded(u)' = Unrecorded(u)
             /\ u = h.by => Unrecorded(u)' + h.total = Unrecorded(u)
  <2>1. InMail(mail, u) = CostOf(h, u) + InMail(mail', u)
    BY <1>1, <1>2, InMailTail
  <2>2. mail' \in Seq(Message)
    BY <1>2, Handles
  <2>3. InMail(mail', u) \in Nat /\ turns[u].left \in Nat
    BY <2>2, InMailType, MailParts, StageFields, AdmissionAssumption
  <2>4. PICK c \in Nat : c = turns[u].left * Dearest
    BY <2>3, TurnCostType
  <2>5. Unrecorded(u) = CostOf(h, u) + InMail(mail', u) + c /\ Unrecorded(u)' = InMail(mail', u) + c
    BY <1>2, <2>1, <2>4, UnrecordedParts, UnrecordedPartsNext
  <2>6. QED
    BY <1>3, <2>3, <2>4, <2>5 DEF CostOf
<1>5. QED
  BY <1>1, <1>3, <1>4


----------------------------------------------------------------------------
\* The budget

LEMMA SpentType ==
    MailInv => \A p \in Periods : /\ Window[p] \in Ages /\ Limit[p] \in Nat /\ Limit[p] > 0
                                  /\ SpentBy("turns", p) \in Nat /\ SpentBy("others", p) \in Nat
<1> SUFFICES ASSUME MailInv, NEW p \in Periods
             PROVE  /\ Window[p] \in Ages /\ Limit[p] \in Nat /\ Limit[p] > 0
                    /\ SpentBy("turns", p) \in Nat /\ SpentBy("others", p) \in Nat
  OBVIOUS
<1>1. Window[p] \in Ages /\ Limit[p] \in Nat /\ Limit[p] > 0
  BY AdmissionAssumption DEF Ages
<1>2. recorded["turns"] \in Age /\ recorded["others"] \in Age
  BY MailParts
<1>3. QED
  BY <1>1, <1>2, SinceType DEF SpentBy

LEMMA InitSpend == Init => TurnsAreBounded /\ OvershootIsBounded
<1> SUFFICES ASSUME Init PROVE TurnsAreBounded /\ OvershootIsBounded
  OBVIOUS
<1>1. MailInv
  BY InitMail
<1>2. ASSUME NEW s \in Slots PROVE Unrecorded(s) = 0
  <2>1. mail = <<>> /\ mail \in Seq(Message) /\ DOMAIN mail = {} /\ turns[s].left = 0
    BY DEF Init, Idle
  <2>2. InMail(mail, s) = 0
    BY <2>1, InMailNone
  <2>3. QED
    BY <2>1, <2>2, UnrecordedParts, TurnCostType
<1>3. TurnsAreBounded
  BY <1>2, TurnCostType DEF TurnsAreBounded
<1>4. Underway = 0
  <2>1. PICK f : f = [s \in Slots |-> Unrecorded(s)]
    OBVIOUS
  <2>2. \A k \in 1..MaxTurns : f[k] \in 0..0
    BY <1>2, <2>1 DEF Slots
  <2>3. SumTo(f, MaxTurns) \in 0..(MaxTurns * 0) /\ MaxTurns \in Nat
    BY <2>2, SumBound, AdmissionAssumption
  <2>4. SumTo(f, MaxTurns) = 0
    BY <2>3
  <2>5. QED
    BY <2>1, <2>4 DEF Underway
<1>5. ASSUME NEW p \in Periods
      PROVE  SpentBy("turns", p) + Underway < Limit[p] + MaxTurns * TurnCost
  <2>1. Window[p] \in Ages /\ Limit[p] \in Nat /\ Limit[p] > 0
    BY <1>1, SpentType
  <2>2. SpentBy("turns", p) = 0
    BY <2>1, NothingSince DEF SpentBy, Init
  <2>3. MaxTurns * TurnCost \in Nat
    BY TurnCostType, AdmissionAssumption
  <2>4. QED
    BY <1>4, <2>1, <2>2, <2>3
<1>6. QED
  BY <1>3, <1>5 DEF OvershootIsBounded

LEMMA MailPartsNext == MailInv' => recorded'.turns \in Age
  BY DEF MailInv, TypeOK, Age

LEMMA BoundedNext ==
    TurnsAreBounded /\ (\A u \in Slots : Unrecorded(u)' <= Unrecorded(u)) /\ MailInv /\ MailInv'
    => TurnsAreBounded'
<1> SUFFICES ASSUME TurnsAreBounded, \A u \in Slots : Unrecorded(u)' <= Unrecorded(u),
                    MailInv, MailInv', NEW s \in Slots
             PROVE  Unrecorded(s)' <= TurnCost
  BY DEF TurnsAreBounded, TurnCost
<1>1. Unrecorded(s) <= TurnCost /\ Unrecorded(s)' <= Unrecorded(s)
  BY DEF TurnsAreBounded
<1>2. Unrecorded(s) \in Nat /\ Unrecorded(s)' \in Nat
  BY UnrecordedType, UnrecordedNext
<1>3. QED
  BY <1>1, <1>2, TurnCostType

\* Nothing more on the way and nothing more in the table.
LEMMA OvershootNext ==
    /\ OvershootIsBounded /\ MailInv /\ MailInv'
    /\ \A u \in Slots : Unrecorded(u)' <= Unrecorded(u)
    /\ \A a \in Ages : Since(recorded'.turns, a) <= Since(recorded.turns, a)
    => OvershootIsBounded'
<1> SUFFICES ASSUME OvershootIsBounded, MailInv, MailInv',
                    \A u \in Slots : Unrecorded(u)' <= Unrecorded(u),
                    \A a \in Ages : Since(recorded'.turns, a) <= Since(recorded.turns, a),
                    NEW p \in Periods
             PROVE  SpentBy("turns", p)' + Underway' < Limit[p] + MaxTurns * TurnCost
  BY DEF OvershootIsBounded, TurnCost
<1>1. Underway' <= Underway /\ Underway \in Nat /\ Underway' \in Nat
  BY UnderwayLess, UnderwayType, UnderwayNext
<1>2. Window[p] \in Ages /\ Limit[p] \in Nat /\ SpentBy("turns", p) \in Nat
  BY SpentType
<1>3. SpentBy("turns", p)' = Since(recorded'.turns, Window[p])
  BY DEF SpentBy
<1>4. SpentBy("turns", p) = Since(recorded.turns, Window[p])
  BY DEF SpentBy
<1>5. recorded'.turns \in Age /\ Since(recorded'.turns, Window[p]) \in Nat
  BY <1>2, MailPartsNext, SinceType
<1>6. SpentBy("turns", p) + Underway < Limit[p] + MaxTurns * TurnCost
  BY DEF OvershootIsBounded
<1>7. MaxTurns * TurnCost \in Nat
  BY TurnCostType, AdmissionAssumption
<1>8. QED
  BY <1>1, <1>2, <1>3, <1>4, <1>5, <1>6, <1>7


LEMMA BoundedCheck ==
    MailInv /\ MailInv' /\ TurnsAreBounded /\ HandleMail /\ Check => TurnsAreBounded'
<1> SUFFICES ASSUME MailInv, MailInv', TurnsAreBounded, HandleMail, Check, NEW u \in Slots
             PROVE  Unrecorded(u)' <= TurnCost
  BY DEF TurnsAreBounded, TurnCost
<1>1. Unrecorded(u)' <= TurnCost \/ Unrecorded(u)' <= Unrecorded(u)
  BY SpendCheck
<1>2. Unrecorded(u) <= TurnCost /\ Unrecorded(u) \in Nat /\ Unrecorded(u)' \in Nat
  BY UnrecordedType, UnrecordedNext DEF TurnsAreBounded
<1>3. QED
  BY <1>1, <1>2, TurnCostType

LEMMA AllTurnsBounded == MailInv' /\ TurnsAreBounded' => Underway' <= MaxTurns * TurnCost
<1> SUFFICES ASSUME MailInv', TurnsAreBounded' PROVE Underway' <= MaxTurns * TurnCost
  OBVIOUS
<1>1. PICK f : f = [s \in Slots |-> Unrecorded(s)']
  OBVIOUS
<1>2. \A s \in Slots : Unrecorded(s)' \in Nat /\ Unrecorded(s)' <= TurnCost
  BY UnrecordedNext DEF TurnsAreBounded, TurnCost
<1>3. \A k \in 1..MaxTurns : f[k] \in 0..TurnCost
  BY <1>1, <1>2, TurnCostType DEF Slots
<1>4. SumTo(f, MaxTurns) \in 0..(MaxTurns * TurnCost)
  BY <1>3, SumBound, TurnCostType, AdmissionAssumption
<1>5. Underway' = SumTo(f, MaxTurns)
  BY <1>1 DEF Underway, SumTo
<1>6. QED
  BY <1>4, <1>5, TurnCostType, AdmissionAssumption

\* A check that lets a turn begin has just found the budget not reached.
LEMMA OvershootCheck ==
    MailInv /\ MailInv' /\ TurnsAreBounded /\ OvershootIsBounded /\ HandleMail /\ Check
    => OvershootIsBounded'
<1> SUFFICES ASSUME MailInv, MailInv', TurnsAreBounded, OvershootIsBounded, HandleMail, Check
             PROVE  OvershootIsBounded'
  OBVIOUS
<1>1. recorded' = recorded
  BY DEF Check
<1>2. CASE Allowed
  <2> SUFFICES ASSUME NEW p \in Periods
               PROVE  SpentBy("turns", p)' + Underway' < Limit[p] + MaxTurns * TurnCost
    BY DEF OvershootIsBounded, TurnCost
  <2>1. SpentBy("turns", p)' = SpentBy("turns", p)
    BY <1>1 DEF SpentBy
  <2>2. /\ SpentBy("turns", p) \in Nat /\ SpentBy("others", p) \in Nat
        /\ SpentBy("turns", p) + SpentBy("others", p) < Limit[p] /\ Limit[p] \in Nat
    BY <1>2, SpentType DEF Allowed, Used
  <2>3. Underway' <= MaxTurns * TurnCost /\ Underway' \in Nat
    BY BoundedCheck, AllTurnsBounded, UnderwayNext
  <2>4. MaxTurns * TurnCost \in Nat
    BY TurnCostType, AdmissionAssumption
  <2>5. QED
    BY <2>1, <2>2, <2>3, <2>4
<1>3. CASE ~Allowed
  <2>1. \A u \in Slots : Unrecorded(u)' <= Unrecorded(u)
    BY <1>3, SpendCheck
  <2>2. \A a \in Ages : Since(recorded'.turns, a) <= Since(recorded.turns, a)
    <3>1. recorded.turns \in Age
      BY MailParts
    <3>2. QED
      BY <1>1, <3>1, SinceType
  <2>3. QED
    BY <2>1, <2>2, OvershootNext
<1>4. QED
  BY <1>2, <1>3

LEMMA BoundedRecord ==
    MailInv /\ MailInv' /\ TurnsAreBounded /\ HandleMail /\ Record => TurnsAreBounded'
<1> SUFFICES ASSUME MailInv, MailInv', TurnsAreBounded, HandleMail, Record
             PROVE  TurnsAreBounded'
  OBVIOUS
<1>1. ASSUME NEW u \in Slots PROVE Unrecorded(u)' <= Unrecorded(u)
  <2>1. Unrecorded(u) \in Nat /\ Unrecorded(u)' \in Nat
    BY UnrecordedType, UnrecordedNext
  <2>2. Head(mail).total \in Nat
    BY SpendRecord
  <2>3. CASE u = Head(mail).by
    <3>1. Unrecorded(u)' + Head(mail).total = Unrecorded(u)
      BY <2>3, SpendRecord
    <3>2. QED
      BY <2>1, <2>2, <3>1
  <2>4. CASE u # Head(mail).by
    <3>1. Unrecorded(u)' = Unrecorded(u)
      BY <2>4, SpendRecord
    <3>2. QED
      BY <2>1, <3>1
  <2>5. QED
    BY <2>3, <2>4
<1>2. QED
  BY <1>1, BoundedNext

LEMMA OvershootRecord ==
    MailInv /\ MailInv' /\ OvershootIsBounded /\ HandleMail /\ Record => OvershootIsBounded'
<1> SUFFICES ASSUME MailInv, MailInv', OvershootIsBounded, HandleMail, Record, NEW p \in Periods
             PROVE  SpentBy("turns", p)' + Underway' < Limit[p] + MaxTurns * TurnCost
  BY DEF OvershootIsBounded, TurnCost
<1>1. PICK h : h = Head(mail)
  OBVIOUS
<1>2. h.by \in Slots /\ h.total \in Nat
  BY <1>1, SpendRecord
<1>3. Underway' + h.total = Underway
  <2>1. PICK f : f = [s \in Slots |-> Unrecorded(s)]
    OBVIOUS
  <2>2. PICK g : g = [s \in Slots |-> Unrecorded(s)']
    OBVIOUS
  <2>3. Underway = SumTo(f, MaxTurns)
    BY <2>1 DEF Underway
  <2>4. Underway' = SumTo(g, MaxTurns)
    BY <2>2 DEF Underway, SumTo
  <2>5. \A k \in 1..MaxTurns : f[k] \in Nat /\ g[k] \in Nat
    BY <2>1, <2>2, UnrecordedType, UnrecordedNext DEF Slots
  <2>6. \A k \in 1..MaxTurns : k # h.by => f[k] = g[k]
    BY <1>1, <2>1, <2>2, SpendRecord DEF Slots
  <2>7. g[h.by] + h.total = f[h.by]
    BY <1>1, <1>2, <2>1, <2>2, SpendRecord DEF Slots
  <2>8. h.by \in Nat \ {0} /\ h.by <= MaxTurns /\ MaxTurns \in Nat
    BY <1>2, AdmissionAssumption DEF Slots
  <2>9. SumTo(g, MaxTurns) + f[h.by] = SumTo(f, MaxTurns) + g[h.by]
    BY <2>5, <2>6, <2>8, SumChange
  <2>10. SumTo(g, MaxTurns) \in Nat /\ SumTo(f, MaxTurns) \in Nat
    BY <2>5, <2>8, SumNat
  <2>11. f[h.by] \in Nat /\ g[h.by] \in Nat
    BY <2>5, <2>8
  <2>12. QED
    BY <1>2, <2>3, <2>4, <2>7, <2>9, <2>10, <2>11
<1>4. SpentBy("turns", p)' = SpentBy("turns", p) + h.total
  <2>1. recorded.turns \in Age /\ Window[p] \in Ages
    BY MailParts, SpentType
  <2>2. recorded'.turns = [recorded.turns EXCEPT ![0] = recorded.turns[0] + h.total]
    BY <1>1, MailParts DEF Record
  <2>3. Since(recorded'.turns, Window[p]) = Since(recorded.turns, Window[p]) + h.total
    BY <1>2, <2>1, <2>2, SinceAdds
  <2>4. QED
    BY <2>3 DEF SpentBy
<1>5. SpentBy("turns", p) + Underway < Limit[p] + MaxTurns * TurnCost
  BY DEF OvershootIsBounded
<1>6. Underway' \in Nat /\ SpentBy("turns", p) \in Nat
  BY UnderwayNext, SpentType
<1>7. QED
  BY <1>2, <1>3, <1>4, <1>5, <1>6

\* A step that leaves the mailbox to others.
SpendsNothing ==
    /\ \A u \in Slots : Unrecorded(u)' <= Unrecorded(u)
    /\ \A a \in Ages : Since(recorded'.turns, a) <= Since(recorded.turns, a)

LEMMA SameTable ==
    MailInv /\ recorded'.turns = recorded.turns
    => \A a \in Ages : Since(recorded'.turns, a) <= Since(recorded.turns, a)
<1> SUFFICES ASSUME MailInv, recorded'.turns = recorded.turns, NEW a \in Ages
             PROVE  Since(recorded'.turns, a) <= Since(recorded.turns, a)
  OBVIOUS
<1>1. Since(recorded.turns, a) \in Nat
  BY MailParts, SinceType
<1>2. QED
  BY <1>1

LEMMA QuietSteps ==
    /\ \A s \in Slots : MailInv /\ (Begin(s) \/ Answer(s) \/ End(s)) => SpendsNothing
    /\ MailInv /\ (OthersSpend \/ Tick \/ Restart \/ UNCHANGED vars) => SpendsNothing
<1>1. \A s \in Slots : MailInv /\ Begin(s) => SpendsNothing
  BY SpendBegin, SameTable DEF Begin, SpendsNothing
<1>2. \A s \in Slots : MailInv /\ Answer(s) => SpendsNothing
  BY SpendAnswer, SameTable DEF Answer, SpendsNothing
<1>3. \A s \in Slots : MailInv /\ End(s) => SpendsNothing
  BY SpendEnd, SameTable DEF End, SpendsNothing
<1>4. MailInv /\ OthersSpend => SpendsNothing
  <2>1. MailInv /\ OthersSpend => recorded'.turns = recorded.turns
    BY MailParts DEF OthersSpend
  <2>2. QED
    BY <2>1, SpendSame, SameTable DEF OthersSpend, SpendsNothing
<1>5. MailInv /\ Tick => SpendsNothing
  <2>1. Tick => recorded'.turns = Older(recorded.turns)
    BY DEF Tick
  <2>2. MailInv => recorded.turns \in Age
    BY MailParts
  <2>3. QED
    BY <2>1, <2>2, OlderIsLess, SpendSame DEF Tick, SpendsNothing
<1>6. MailInv /\ Restart => SpendsNothing
  BY SpendRestart, SameTable DEF Restart, SpendsNothing
<1>7. MailInv /\ UNCHANGED vars => SpendsNothing
  BY SpendSame, SameTable DEF vars, SpendsNothing
<1>8. QED
  BY <1>1, <1>2, <1>3, <1>4, <1>5, <1>6, <1>7

BudgetInv == MailInv /\ TurnsAreBounded /\ OvershootIsBounded

LEMMA BudgetStep == BudgetInv /\ [Next]_vars => BudgetInv'
<1>1. BudgetInv /\ [Next]_vars => MailInv'
  BY MailStep DEF BudgetInv
<1>2. BudgetInv /\ MailInv' /\ SpendsNothing => BudgetInv'
  BY BoundedNext, OvershootNext DEF BudgetInv, SpendsNothing
<1>3. BudgetInv /\ MailInv' /\ HandleMail /\ Check => BudgetInv'
  BY BoundedCheck, OvershootCheck DEF BudgetInv
<1>4. BudgetInv /\ MailInv' /\ HandleMail /\ Record => BudgetInv'
  BY BoundedRecord, OvershootRecord DEF BudgetInv
<1>5. HandleMail => Check \/ Record
  BY DEF HandleMail
<1>6. [Next]_vars => \/ \E s \in Slots : Begin(s) \/ Answer(s) \/ End(s)
                     \/ HandleMail
                     \/ OthersSpend \/ Tick \/ Restart \/ UNCHANGED vars
  BY DEF Next
<1>7. BudgetInv => MailInv
  BY DEF BudgetInv
<1>8. QED
  BY <1>1, <1>2, <1>3, <1>4, <1>5, <1>6, <1>7, QuietSteps

\* Turns that overlap exceed a budget, together with what is still on its
\* way, by less than what as many turns cost as there can be at once: in every
\* window, for any number of turns and any order of checks and records.
THEOREM OvershootBounded == Spec => []OvershootIsBounded
<1>1. Init => BudgetInv
  BY InitMail, InitSpend DEF BudgetInv
<1>2. BudgetInv => OvershootIsBounded
  BY DEF BudgetInv
<1>3. QED
  BY <1>1, <1>2, BudgetStep, PTL DEF Spec

----------------------------------------------------------------------------
\* RetryBreaker

\* The row never shows a trip without a failure, whoever wrote it.
RowTrippedByFailure == row.state # "closed" => row.failures > 0

BackoffHasRoom ==
    \A r \in Requests :
        request[r].stage = "backoff" => request[r].attempt < request[r].limit

RequestsOK ==
    /\ request \in [Requests -> Request]
    /\ \A r \in Requests : request[r].attempt <= request[r].limit
    /\ BackoffHasRoom

BreakerInv ==
    /\ BreakerTypeOK
    /\ BackoffHasRoom
    /\ TrippedByFailure
    /\ RowTrippedByFailure
    /\ CrashKeepsBreaker

LEMMA AttemptLimitType == \A asked \in Nat : AttemptLimit(asked) \in 1..AttemptCap
  BY BreakerAssumption DEF AttemptLimit

\* Loading any row gives a breaker of the right type that is tripped only if
\* the row was.
LEMMA LoadType ==
    ASSUME NEW r \in Row
    PROVE  /\ Load(r) \in Row
           /\ Load(r).state = "closed" <=> r.state = "closed"
           /\ Load(r).failures = r.failures
           /\ Load(Load(r)) = Load(r)
  BY DEF Load, Row, CircuitState

LEMMA BreakerStart == BreakerInit => BreakerInv
<1> SUFFICES ASSUME BreakerInit PROVE BreakerInv
  OBVIOUS
<1>1. NewRequest \in Request /\ NewRequest.attempt <= NewRequest.limit
  BY BreakerAssumption DEF NewRequest, Request, Stages
<1>2. BreakerTypeOK
  BY <1>1 DEF BreakerInit, BreakerTypeOK, NoRow, Row, CircuitState
<1>3. BackoffHasRoom
  BY DEF BreakerInit, BackoffHasRoom, NewRequest
<1>4. QED
  BY <1>2, <1>3 DEF BreakerInit, BreakerInv, TrippedByFailure, RowTrippedByFailure,
                    CrashKeepsBreaker, Load, NoRow

\* A change of the breaker that is persisted leaves memory and row in step.
LEMMA PersistKeepsInv ==
    ASSUME BreakerInv, PersistState, persist' = persist,
           circuit' \in CircuitState, cooling' \in BOOLEAN, failures' \in Nat,
           circuit' # "closed" => failures' > 0
    PROVE  /\ row' \in Row
           /\ TrippedByFailure' /\ RowTrippedByFailure' /\ CrashKeepsBreaker'
<1>1. row' \in Row
  BY DEF PersistState, BreakerInv, BreakerTypeOK, Row
<1>2. RowTrippedByFailure'
  BY DEF PersistState, RowTrippedByFailure, BreakerInv
<1>3. CrashKeepsBreaker'
  BY DEF PersistState, CrashKeepsBreaker, Load
<1>4. QED BY <1>1, <1>2, <1>3 DEF TrippedByFailure

\* Whatever happens to a request, it stays within its limit.
LEMMA RequestsPreserved == BreakerInv /\ [BreakerNext]_breakerVars => RequestsOK'
<1> SUFFICES ASSUME BreakerInv, [BreakerNext]_breakerVars PROVE RequestsOK'
  OBVIOUS
<1>0. /\ request \in [Requests -> Request]
      /\ \A r \in Requests : /\ request[r].attempt <= request[r].limit
                             /\ request[r].stage = "backoff" =>
                                    request[r].attempt < request[r].limit
  BY DEF BreakerInv, BreakerTypeOK, BackoffHasRoom
<1>1. ASSUME NEW r \in Requests, NEW new \in Request,
             request' = [request EXCEPT ![r] = new],
             new.attempt <= new.limit, new.stage = "backoff" => new.attempt < new.limit
      PROVE  RequestsOK'
  BY <1>0, <1>1 DEF RequestsOK, BackoffHasRoom
<1>2. ASSUME NEW r \in Requests, NEW stage \in Stages,
             request' = [request EXCEPT ![r].stage = stage],
             stage = "backoff" => request[r].attempt < request[r].limit
      PROVE  RequestsOK'
  <2> DEFINE new == [request[r] EXCEPT !.stage = stage]
  <2>1. /\ new \in Request /\ new.attempt <= new.limit
        /\ new.stage = "backoff" => new.attempt < new.limit
    BY <1>0, <1>2 DEF Request
  <2>2. request' = [request EXCEPT ![r] = new]
    BY <1>2
  <2> HIDE DEF new
  <2>3. QED BY <1>1, <2>1, <2>2
<1>3. ASSUME NEW r \in Requests, RejectRequest(r) PROVE RequestsOK'
  BY <1>2, <1>3 DEF RejectRequest, Stages
<1>4. ASSUME NEW r \in Requests, AdmitRequest(r) PROVE RequestsOK'
  <2>1. PICK asked \in AskedRetries :
            request' = [request EXCEPT ![r] =
               [stage |-> "calling", attempt |-> 1, limit |-> AttemptLimit(asked),
                probe |-> circuit' = "half-open"]]
    BY <1>4 DEF AdmitRequest
  <2> DEFINE new == [stage |-> "calling", attempt |-> 1, limit |-> AttemptLimit(asked),
                     probe |-> circuit' = "half-open"]
  <2>2. AttemptLimit(asked) \in 1..AttemptCap /\ 1 \in 0..AttemptCap
    BY AttemptLimitType, BreakerAssumption
  <2>3. (circuit' = "half-open") \in BOOLEAN
    OBVIOUS
  <2>4. new \in Request /\ new.attempt <= new.limit /\ new.stage # "backoff"
    BY <2>2, <2>3 DEF Request, Stages
  <2>5. request' = [request EXCEPT ![r] = new]
    BY <2>1
  <2> HIDE DEF new
  <2>6. QED BY <1>1, <2>4, <2>5
<1>5. ASSUME NEW r \in Requests, AttemptSucceeds(r) PROVE RequestsOK'
  BY <1>2, <1>5 DEF AttemptSucceeds, Stages
<1>6. ASSUME NEW r \in Requests, AttemptFails(r) PROVE RequestsOK'
  BY <1>2, <1>6 DEF AttemptFails, Stages
<1>7. ASSUME NEW r \in Requests, RetryAttempt(r) PROVE RequestsOK'
  <2> DEFINE new == [request[r] EXCEPT !.stage = "calling", !.attempt = @ + 1]
  <2>1. new \in Request /\ new.attempt <= new.limit /\ new.stage # "backoff"
    BY <1>0, <1>7, BreakerAssumption DEF RetryAttempt, Request, Stages
  <2>2. request' = [request EXCEPT ![r] = new]
    BY <1>7 DEF RetryAttempt
  <2> HIDE DEF new
  <2>3. QED BY <1>1, <2>1, <2>2
<1>8. ASSUME NEW r \in Requests, RetriesExhausted(r) PROVE RequestsOK'
  BY <1>2, <1>8 DEF RetriesExhausted, Stages
<1>9. CASE UNCHANGED request
  BY <1>0, <1>9 DEF RequestsOK, BackoffHasRoom
<1>10. ASSUME NEW opened \in BOOLEAN, RestartBreaker(opened) PROVE RequestsOK'
  <2>1. \A q \in Requests : request'[q] = IF InFlight(q) THEN [request[q] EXCEPT !.stage = "lost"]
                                           ELSE request[q]
    BY <1>10 DEF RestartBreaker
  <2>2. \A q \in Requests : /\ request'[q] \in Request
                            /\ request'[q].attempt <= request'[q].limit
                            /\ request'[q].stage # "backoff"
    BY <1>0, <2>1 DEF Request, Stages, InFlight
  <2>3. QED BY <1>10, <2>2 DEF RestartBreaker, RequestsOK, BackoffHasRoom
<1>11. QED
  BY <1>3, <1>4, <1>5, <1>6, <1>7, <1>8, <1>9, <1>10
     DEF BreakerNext, Proceed, CooldownEnds, RowCooldownEnds, breakerVars

LEMMA BreakerPreserved == BreakerInv /\ [BreakerNext]_breakerVars => BreakerInv'
<1> SUFFICES ASSUME BreakerInv, [BreakerNext]_breakerVars PROVE BreakerInv'
  OBVIOUS
<1>0. BreakerTypeOK /\ RequestsOK'
  BY RequestsPreserved DEF BreakerInv
<1>1. ASSUME UNCHANGED <<breaker, threshold, row, persist, crashes>> PROVE BreakerInv'
  BY <1>0, <1>1 DEF BreakerInv, RequestsOK, breaker, BreakerTypeOK, TrippedByFailure,
                    RowTrippedByFailure, CrashKeepsBreaker
<1>2. ASSUME PersistState, UNCHANGED <<threshold, persist, crashes>>,
             circuit' \in CircuitState, cooling' \in BOOLEAN, failures' \in Nat,
             circuit' # "closed" => failures' > 0
      PROVE  BreakerInv'
  <2>1. /\ row' \in Row
        /\ TrippedByFailure' /\ RowTrippedByFailure' /\ CrashKeepsBreaker'
    BY <1>2, PersistKeepsInv
  <2>2. QED BY <1>0, <1>2, <2>1 DEF BreakerInv, RequestsOK, BreakerTypeOK
<1>3. ASSUME NEW r \in Requests, RejectRequest(r) PROVE BreakerInv'
  BY <1>1, <1>3 DEF RejectRequest
<1>4. ASSUME NEW r \in Requests, AdmitRequest(r) PROVE BreakerInv'
  <2>1. CASE circuit = "open"
    BY <1>0, <1>2, <1>4, <2>1
       DEF AdmitRequest, BreakerTypeOK, CircuitState, BreakerInv, TrippedByFailure
  <2>2. CASE circuit # "open"
    BY <1>1, <1>4, <2>2 DEF AdmitRequest, breaker
  <2>3. QED BY <2>1, <2>2
<1>5. ASSUME NEW r \in Requests, AttemptSucceeds(r) PROVE BreakerInv'
  BY <1>2, <1>5 DEF AttemptSucceeds, CircuitState
<1>6. ASSUME NEW r \in Requests, AttemptFails(r) \/ RetryAttempt(r) PROVE BreakerInv'
  BY <1>1, <1>6 DEF AttemptFails, RetryAttempt
<1>7. ASSUME NEW r \in Requests, RetriesExhausted(r) PROVE BreakerInv'
  <2>1. failures' \in Nat /\ failures' > 0
    BY <1>0, <1>7 DEF RetriesExhausted, BreakerTypeOK
  <2>2. circuit' \in CircuitState /\ cooling' \in BOOLEAN
    BY <1>0, <1>7 DEF RetriesExhausted, BreakerTypeOK, CircuitState
  <2>3. PersistState /\ UNCHANGED <<threshold, persist, crashes>>
    BY <1>7 DEF RetriesExhausted
  <2>4. QED BY <1>2, <2>1, <2>2, <2>3
<1>8. ASSUME CooldownEnds PROVE BreakerInv'
  BY <1>0, <1>8 DEF CooldownEnds, BreakerInv, RequestsOK, BreakerTypeOK, TrippedByFailure,
                    RowTrippedByFailure, CrashKeepsBreaker
<1>9. ASSUME RowCooldownEnds PROVE BreakerInv'
  <2>1. row' = [row EXCEPT !.cooling = FALSE] /\ row.state = "open" /\ row.cooling
    BY <1>9 DEF RowCooldownEnds
  <2>2. /\ row' \in Row /\ row'.state = row.state /\ row'.failures = row.failures
        /\ Load(row).state = "open" /\ Load(row').state = "half-open"
        /\ Load(row).failures = Load(row').failures
    BY <1>0, <2>1 DEF BreakerTypeOK, Row, Load
  <2>3. CrashKeepsBreaker'
    BY <1>9, <2>2 DEF RowCooldownEnds, breaker, BreakerInv, CrashKeepsBreaker
  <2>4. QED
    BY <1>0, <1>9, <2>2, <2>3
       DEF RowCooldownEnds, breaker, BreakerInv, RequestsOK, BreakerTypeOK, TrippedByFailure,
           RowTrippedByFailure
<1>10. ASSUME NEW opened \in BOOLEAN, RestartBreaker(opened) PROVE BreakerInv'
  <2> DEFINE source == IF opened THEN row ELSE NoRow
  <2>1. source \in Row /\ (source.state # "closed" => source.failures > 0)
    BY <1>0 DEF BreakerTypeOK, NoRow, Row, CircuitState, BreakerInv, RowTrippedByFailure
  <2>2. /\ circuit' = Load(source).state /\ cooling' = Load(source).cooling
        /\ failures' = Load(source).failures /\ row' = row /\ persist' = opened
        /\ threshold' \in Thresholds /\ crashes' = crashes + 1
    BY <1>10 DEF RestartBreaker
  <2>3. opened => source = row
    OBVIOUS
  <2> HIDE DEF source
  <2>4. /\ Load(source) \in Row /\ Load(source).failures = source.failures
        /\ Load(source).state = "closed" <=> source.state = "closed"
    BY <2>1, LoadType
  <2>5. BreakerTypeOK'
    BY <1>0, <2>2, <2>4 DEF BreakerTypeOK, RequestsOK, Row
  <2>6. TrippedByFailure' /\ RowTrippedByFailure'
    BY <2>1, <2>2, <2>4 DEF TrippedByFailure, RowTrippedByFailure, BreakerInv
  <2>7. CrashKeepsBreaker'
    BY <2>2, <2>3 DEF CrashKeepsBreaker
  <2>8. QED BY <1>0, <2>5, <2>6, <2>7 DEF BreakerInv, RequestsOK
<1>11. CASE UNCHANGED breakerVars
  BY <1>1, <1>11 DEF breakerVars, breaker
<1>12. QED
  BY <1>3, <1>4, <1>5, <1>6, <1>7, <1>8, <1>9, <1>10, <1>11 DEF BreakerNext, Proceed

\* The invariant from which the theorems below follow.
THEOREM BreakerInvariant == BreakerSpec => []BreakerInv
<1>1. QED BY BreakerStart, BreakerPreserved, PTL DEF BreakerSpec

----------------------------------------------------------------------------

\* No request makes more LLM calls than its clamped max_retries.
THEOREM BreakerTypeCorrect == BreakerSpec => []BreakerTypeOK
<1>1. QED BY BreakerInvariant, PTL DEF BreakerInv

\* A breaker that rejects has seen a failure no success followed, whatever the
\* interleaving of answers and restarts.
THEOREM NeverTripsForNothing == BreakerSpec => []TrippedByFailure
<1>1. QED BY BreakerInvariant, PTL DEF BreakerInv

\* With a database, a crash at any moment restores the breaker.
THEOREM CrashRestores == BreakerSpec => []CrashKeepsBreaker
<1>1. QED BY BreakerInvariant, PTL DEF BreakerInv

\* The circuit closes only on a success, or in a restart that had to do
\* without the database: what was saved always shows the trip.
THEOREM ClosesOnSuccess == BreakerSpec => ClosesOnlyOnSuccess
<1>1. BreakerInv /\ [BreakerNext]_breakerVars =>
        [circuit # "closed" /\ circuit' = "closed" =>
            \/ \E r \in Requests : /\ request[r].stage = "calling"
                                   /\ request'[r].stage = "answered"
            \/ crashes' > crashes /\ ~(persist /\ persist')]_breakerVars
  <2> SUFFICES ASSUME BreakerInv, BreakerNext, circuit # "closed", circuit' = "closed"
               PROVE  \/ \E r \in Requests : /\ request[r].stage = "calling"
                                             /\ request'[r].stage = "answered"
                      \/ crashes' > crashes /\ ~(persist /\ persist')
    BY DEF breakerVars
  <2>0. BreakerTypeOK /\ CrashKeepsBreaker
    BY DEF BreakerInv
  <2>1. ASSUME NEW r \in Requests, AttemptSucceeds(r)
        PROVE  request[r].stage = "calling" /\ request'[r].stage = "answered"
    BY <2>0, <2>1 DEF AttemptSucceeds, BreakerTypeOK, Request
  <2>2. ASSUME NEW r \in Requests,
               \/ RejectRequest(r) \/ AdmitRequest(r) \/ AttemptFails(r)
               \/ RetryAttempt(r) \/ RetriesExhausted(r)
        PROVE  FALSE
    BY <2>2 DEF RejectRequest, AdmitRequest, AttemptFails, RetryAttempt, RetriesExhausted, breaker
  <2>3. ASSUME CooldownEnds \/ RowCooldownEnds PROVE FALSE
    BY <2>3 DEF CooldownEnds, RowCooldownEnds, breaker
  <2>4. ASSUME NEW opened \in BOOLEAN, RestartBreaker(opened)
        PROVE  crashes' > crashes /\ ~(persist /\ persist')
    <3>1. crashes' > crashes
      BY <2>0, <2>4 DEF RestartBreaker, BreakerTypeOK
    <3>2. ASSUME persist, persist' PROVE FALSE
      <4>1. circuit' = Load(row).state
        BY <2>4, <3>2 DEF RestartBreaker
      <4>2. Load(row).state # "closed"
        BY <2>0, <3>2 DEF CrashKeepsBreaker
      <4>3. QED BY <4>1, <4>2
    <3>3. QED BY <3>1, <3>2
  <2>5. QED BY <2>1, <2>2, <2>3, <2>4 DEF BreakerNext, Proceed
<1>2. QED BY <1>1, BreakerInvariant, PTL DEF BreakerSpec, ClosesOnlyOnSuccess
=============================================================================
