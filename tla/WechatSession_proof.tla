------------------------ MODULE WechatSession_proof ------------------------
(***************************************************************************)
(* Proofs about WechatSession, for any users and messages, any limits of   *)
(* errors, attempts and refreshes, and any number of typing tasks.         *)
(*                                                                         *)
(* The threads share no lock.  What keeps the messages in order is that    *)
(* the poll thread alone writes the buf, the batch and what was published: *)
(* OrderInv says how the three fit together at each of its places.  What   *)
(* makes stop() safe is that the login thread, once it has seen the flag,  *)
(* stays ended, for only it starts a poll thread: StopInv.                 *)
(***************************************************************************)
EXTENDS WechatSession, SequenceTheorems, TLAPS

\* Between two attempts there is one left.
CountInv == phase = "between" => attempt < MaxAttempts

Ascends(s) == \A i \in 1..(Len(s) - 1) : s[i + 1] = s[i] + 1

\* The last position of s, which is not empty.
End(s) == s[Len(s)]

\* The buf is the last position that was fetched, if the server named it.
BatchInv ==
    /\ batch \in Seq(Nat) /\ Ascends(batch)
    /\ batch # <<>> => poll \in {"handling", "typing"} /\ buf \in {End(batch), -1}
    /\ poll = "typing" => batch # <<>>

\* What is published goes up to the batch, to its head included while typing starts.
OrderInv ==
    /\ published \in Seq(Nat) /\ NothingSkipped
    /\ Alive /\ published # <<>> /\ batch = <<>> => buf \in {End(published), -1}
    /\ poll = "handling" /\ published # <<>> /\ batch # <<>> =>
           Head(batch) = End(published) + 1
    /\ poll = "typing" => published # <<>> /\ Head(batch) = End(published)

\* The flag falls once, and stop() goes on only when the login thread has ended.
StopInv ==
    /\ plugin # "started" => ~running
    /\ plugin \in {"joining poll", "stopped"} => phase = "ended"

SessionInv == TypeOK /\ CountInv /\ BatchInv /\ OrderInv /\ StopInv /\ StoppedMeansQuiet

\* TypeOK in parts: each prover is good at some of them.
FlagsOK ==
    /\ plugin \in {"started", "joining login", "joining poll", "stopped"}
    /\ running \in BOOLEAN
    /\ phase \in {"load", "wait", "join", "login", "between", "pause", "ended"}
    /\ qr \in {"none", "shown", "scanned", "confirmed"} /\ scanned \in BOOLEAN
    /\ status \in {"uninitialized", "waiting_qr", "scanned", "online", "error"}
    /\ client \in BOOLEAN /\ file \in BOOLEAN /\ valid \in BOOLEAN
    /\ poll \in {"none", "top", "asking", "handling", "typing", "ended"}

flags == <<plugin, running, phase, qr, scanned, status, client, file, valid, poll>>

CountersOK ==
    /\ attempt \in 0..MaxAttempts /\ refreshes \in 0..MaxRefresh
    /\ errors \in 0..MaxErrors

MessagesOK ==
    /\ buf \in -1..Len(inbox) /\ inbox \in Seq(Users)
    /\ \A i \in 1..Len(batch) : batch[i] \in 1..Len(inbox)
    /\ processing \subseteq Users

TypingOK ==
    /\ typing \in [Slots -> Task \cup {NoTask}]
    /\ ~Alive => \A k \in Slots : typing[k] = NoTask

LEMMA TypeParts == TypeOK <=> FlagsOK /\ CountersOK /\ MessagesOK /\ TypingOK
  BY Zenon DEF TypeOK, FlagsOK, CountersOK, MessagesOK, TypingOK

LEMMA SessionInit == Init => SessionInv
<1> SUFFICES ASSUME Init PROVE SessionInv
  OBVIOUS
<1>1. <<>> \in Seq(Users) /\ <<>> \in Seq(Nat) /\ Len(<<>>) = 0
  OBVIOUS
<1>2. FlagsOK
  BY DEF Init, FlagsOK
<1>3. CountersOK /\ MessagesOK
  BY <1>1, WechatSessionAssumption DEF Init, CountersOK, MessagesOK
<1>4. TypingOK
  BY DEF Init, TypingOK
<1>5. TypeOK
  BY <1>2, <1>3, <1>4, TypeParts
<1>6. QED
  BY <1>1, <1>5, WechatSessionAssumption
     DEF Init, SessionInv, CountInv, BatchInv, OrderInv, StopInv, StoppedMeansQuiet,
         NothingSkipped, Ascends, Alive

----------------------------------------------------------------------------
\* Sequences of positions

LEMMA AppendNext ==
    ASSUME NEW s \in Seq(Nat), Ascends(s), NEW n \in Nat, s # <<>> => n = End(s) + 1
    PROVE  /\ Append(s, n) \in Seq(Nat) /\ Ascends(Append(s, n))
           /\ Append(s, n) # <<>> /\ End(Append(s, n)) = n
<1>1. /\ Append(s, n) \in Seq(Nat) /\ Len(Append(s, n)) = Len(s) + 1
      /\ Append(s, n)[Len(s) + 1] = n
      /\ \A i \in 1..Len(s) : Append(s, n)[i] = s[i]
  OBVIOUS
<1>2. ASSUME NEW i \in 1..Len(s) PROVE Append(s, n)[i + 1] = Append(s, n)[i] + 1
  <2>1. CASE i = Len(s)
    BY <1>1, <1>2, <2>1 DEF End
  <2>2. CASE i # Len(s)
    BY <1>1, <1>2, <2>2 DEF Ascends
  <2>3. QED
    BY <2>1, <2>2
<1>3. Append(s, n) # <<>>
  BY <1>1
<1>4. QED
  BY <1>1, <1>2, <1>3 DEF Ascends, End

LEMMA NoneLong == \A s \in Seq(Nat) : s = <<>> => Len(s) = 0
  BY EmptySeq

LEMMA TailNext ==
    ASSUME NEW s \in Seq(Nat), Ascends(s), s # <<>>
    PROVE  /\ Tail(s) \in Seq(Nat) /\ Ascends(Tail(s))
           /\ Tail(s) # <<>> => End(Tail(s)) = End(s) /\ Head(Tail(s)) = Head(s) + 1
           /\ Tail(s) = <<>> => End(s) = Head(s)
<1>1. /\ Len(s) \in Nat /\ Len(s) >= 1 /\ Head(s) = s[1]
      /\ Tail(s) \in Seq(Nat) /\ Len(Tail(s)) = Len(s) - 1
      /\ \A i \in 1..(Len(s) - 1) : Tail(s)[i] = s[i + 1]
  OBVIOUS
<1>2. Ascends(Tail(s))
  BY <1>1 DEF Ascends
<1>3. ASSUME Tail(s) # <<>>
      PROVE  End(Tail(s)) = End(s) /\ Head(Tail(s)) = Head(s) + 1
  <2>1. Len(Tail(s)) >= 1 /\ Head(Tail(s)) = Tail(s)[1]
    BY <1>1, <1>3
  <2>2. QED
    BY <1>1, <2>1 DEF End, Ascends
<1>4. ASSUME Tail(s) = <<>> PROVE End(s) = Head(s)
  <2>1. Len(Tail(s)) = 0
    BY <1>1, <1>4, NoneLong, Zenon
  <2>2. \A n \in Nat : n - 1 = 0 => n = 1
    OBVIOUS
  <2>3. Len(s) = 1
    BY <1>1, <2>1, <2>2, Zenon
  <2>4. QED
    BY <1>1, <2>3 DEF End
<1>5. QED
  BY <1>1, <1>2, <1>3, <1>4

----------------------------------------------------------------------------
\* Each part of the invariant is kept

LEMMA FlagsKept == FlagsOK /\ UNCHANGED flags => FlagsOK'
  BY Zenon DEF FlagsOK, flags

LEMMA FlagsButFile ==
    /\ FlagsOK /\ file' \in BOOLEAN
    /\ UNCHANGED <<plugin, running, phase, qr, scanned, status, client, valid, poll>>
    => FlagsOK'
  BY Zenon DEF FlagsOK

LEMMA FlagsButPoll ==
    /\ FlagsOK /\ poll' = "handling"
    /\ UNCHANGED <<plugin, running, phase, qr, scanned, status, client, file, valid>>
    => FlagsOK'
  BY Zenon DEF FlagsOK

LEMMA FlagsPreserved == SessionInv /\ [Next]_vars => FlagsOK'
<1> SUFFICES ASSUME SessionInv, [Next]_vars PROVE FlagsOK'
  OBVIOUS
<1>0. FlagsOK
  BY TypeParts DEF SessionInv
<1> USE DEF polling, login
<1>1. CASE LoadSaved \/ NoneSaved \/ SessionEnds \/ PollJoined
  BY <1>0, <1>1 DEF FlagsOK, LoadSaved, NoneSaved, SessionEnds, PollJoined, Asks
<1>2. CASE LoginThreadEnds \/ LoginFails \/ AsksAgain \/ Pauses
  BY <1>0, <1>2 DEF FlagsOK, LoginThreadEnds, LoginFails, AsksAgain, Pauses, Asks
<1>3. CASE QrFetched \/ QrScanned \/ QrConfirmed \/ QrExpires \/ ShowStatus
  BY <1>0, <1>3 DEF FlagsOK, QrFetched, QrScanned, QrConfirmed, QrExpires, ShowStatus, Login
<1>4. CASE Stop \/ StopJoinsLogin \/ StopJoinsPoll \/ TokenExpires \/ Restart
  BY <1>0, <1>4 DEF FlagsOK, Stop, StopJoinsLogin, StopJoinsPoll, TokenExpires, Restart
<1>5. ASSUME NEW u \in Users, UserWrites(u) PROVE FlagsOK'
  <2>1. UNCHANGED flags
    BY <1>5 DEF UserWrites, flags
  <2>2. QED
    BY <1>0, <2>1, FlagsKept
<1>6. ASSUME NEW u \in Users, Answer(u) PROVE FlagsOK'
  <2>1. file' \in {file} \cup (IF client /\ ~valid THEN {FALSE} ELSE {})
    BY <1>6 DEF Answer
  <2>2. file' \in BOOLEAN
    BY <1>0, <2>1 DEF FlagsOK
  <2>3. UNCHANGED <<plugin, running, phase, qr, scanned, status, client, valid, poll>>
    BY <1>6 DEF Answer
  <2>4. QED
    BY <1>0, <2>2, <2>3, FlagsButFile
<1>7. ASSUME NEW k \in Slots, TaskStep(k) PROVE FlagsOK'
  <2>1. UNCHANGED flags
    BY <1>7 DEF TaskStep, Types, TypingEnds, flags
  <2>2. QED
    BY <1>0, <2>1, FlagsKept
<1>8. CASE Polls \/ PollReturns \/ PollMisread \/ PollTimesOut \/ PollRefused
  BY <1>0, <1>8 DEF FlagsOK, Polls, PollReturns, PollMisread, PollTimesOut, PollRefused, PollEnds
<1>9. CASE PollFails \/ Publish \/ BatchDone
  BY <1>0, <1>9 DEF FlagsOK, PollFails, Publish, BatchDone, PollEnds
<1>10. CASE StartTyping
  <2>1. /\ poll' = "handling"
        /\ UNCHANGED <<plugin, running, phase, qr, scanned, status, client, file, valid>>
    BY <1>10 DEF StartTyping
  <2>2. QED
    BY <1>0, <2>1, FlagsButPoll
<1>11. CASE UNCHANGED vars
  <2>1. UNCHANGED flags
    BY <1>11 DEF vars, flags
  <2>2. QED
    BY <1>0, <2>1, FlagsKept
<1>12. QED
  BY <1>1, <1>2, <1>3, <1>4, <1>5, <1>6, <1>7, <1>8, <1>9, <1>10, <1>11
     DEF Next, LoginThread, PollThread, TaskStep

LEMMA CountersPreserved == SessionInv /\ [Next]_vars => CountersOK' /\ CountInv'
<1> SUFFICES ASSUME SessionInv, [Next]_vars PROVE CountersOK' /\ CountInv'
  OBVIOUS
<1>0. CountersOK /\ CountInv /\ FlagsOK
  BY TypeParts DEF SessionInv
<1> USE WechatSessionAssumption DEF CountersOK, CountInv, Alive, polling, login
<1>1. CASE LoadSaved \/ NoneSaved \/ SessionEnds \/ PollJoined
  BY <1>0, <1>1 DEF LoadSaved, NoneSaved, SessionEnds, PollJoined, Asks
<1>2. CASE LoginThreadEnds \/ LoginFails \/ AsksAgain \/ Pauses
  BY <1>0, <1>2 DEF LoginThreadEnds, LoginFails, AsksAgain, Pauses, Asks
<1>3. CASE QrFetched \/ QrScanned \/ QrConfirmed \/ QrExpires \/ ShowStatus
  BY <1>0, <1>3 DEF QrFetched, QrScanned, QrConfirmed, QrExpires, ShowStatus, Login
<1>4. CASE Stop \/ StopJoinsLogin \/ TokenExpires
  BY <1>0, <1>4 DEF Stop, StopJoinsLogin, TokenExpires
<1>5. CASE StopJoinsPoll
  BY <1>0, <1>5 DEF StopJoinsPoll
<1>6. CASE Restart
  BY <1>0, <1>6 DEF Restart
<1>7. ASSUME NEW u \in Users, UserWrites(u) \/ Answer(u) PROVE CountersOK' /\ CountInv'
  BY <1>0, <1>7 DEF UserWrites, Answer
<1>8. ASSUME NEW k \in Slots, TaskStep(k) PROVE CountersOK' /\ CountInv'
  BY <1>0, <1>8 DEF TaskStep, Types, TypingEnds
<1>9. CASE Polls \/ PollReturns \/ PollMisread \/ PollTimesOut \/ PollRefused
  BY <1>0, <1>9 DEF Polls, PollReturns, PollMisread, PollTimesOut, PollRefused, PollEnds
<1>10. CASE PollFails \/ Publish \/ StartTyping \/ BatchDone
  BY <1>0, <1>10 DEF PollFails, Publish, StartTyping, BatchDone, PollEnds
<1>11. CASE UNCHANGED vars
  BY <1>0, <1>11 DEF vars
<1>12. QED
  BY <1>1, <1>2, <1>3, <1>4, <1>5, <1>6, <1>7, <1>8, <1>9, <1>10, <1>11
     DEF Next, LoginThread, PollThread, TaskStep

LEMMA TypingPreserved == SessionInv /\ [Next]_vars => TypingOK'
<1> SUFFICES ASSUME SessionInv, [Next]_vars PROVE TypingOK'
  OBVIOUS
<1>0. TypingOK /\ MessagesOK /\ BatchInv
  BY TypeParts DEF SessionInv
<1>1. ASSUME UNCHANGED typing, ~Alive' => ~Alive PROVE TypingOK'
  BY <1>0, <1>1 DEF TypingOK
<1>2. ASSUME typing' = [k \in Slots |-> NoTask] PROVE TypingOK'
  BY <1>2 DEF TypingOK
<1>3. ASSUME Alive, Alive', NEW k \in Slots, NEW task \in Task \cup {NoTask},
             typing' = [typing EXCEPT ![k] = task]
      PROVE  TypingOK'
  BY <1>0, <1>3 DEF TypingOK
<1> USE DEF polling, login
<1>4. CASE LoginThread
  <2>1. UNCHANGED typing /\ (~Alive' => ~Alive)
    BY <1>4 DEF LoginThread, LoadSaved, NoneSaved, SessionEnds, PollJoined, LoginThreadEnds,
          LoginFails, AsksAgain, Pauses, Alive
  <2>2. QED
    BY <1>1, <2>1
<1>5. CASE QrFetched \/ QrScanned \/ QrConfirmed \/ QrExpires \/ ShowStatus
  BY <1>1, <1>5 DEF QrFetched, QrScanned, QrConfirmed, QrExpires, ShowStatus, Login, Alive
<1>6. CASE Stop \/ StopJoinsLogin \/ StopJoinsPoll \/ TokenExpires
  BY <1>1, <1>6 DEF Stop, StopJoinsLogin, StopJoinsPoll, TokenExpires, Alive
<1>7. ASSUME NEW u \in Users, UserWrites(u) \/ Answer(u) PROVE TypingOK'
  BY <1>1, <1>7 DEF UserWrites, Answer, Alive
<1>8. CASE Restart
  BY <1>2, <1>8 DEF Restart
<1>9. ASSUME NEW k \in Slots, TaskStep(k) PROVE TypingOK'
  <2>0. UNCHANGED poll /\ typing[k] # NoTask
    BY <1>9 DEF TaskStep, Types, TypingEnds
  <2>1. Alive /\ Alive'
    BY <1>0, <2>0 DEF TypingOK, Alive
  <2>2. CASE TypingEnds(k)
    BY <1>3, <2>1, <2>2 DEF TypingEnds
  <2>3. CASE Types(k)
    <3>1. typing[k] \in Task /\ typing[k].age < MaxAge
      BY <1>0, <2>0, <2>3 DEF Types, TypingOK
    <3> DEFINE task == [typing[k] EXCEPT !.age = @ + 1]
    <3>2. task \in Task
      BY <3>1, WechatSessionAssumption DEF Task
    <3>3. typing' = [typing EXCEPT ![k] = task]
      BY <2>3 DEF Types
    <3> HIDE DEF task
    <3>4. QED
      BY <1>3, <2>1, <3>2, <3>3
  <2>4. QED
    BY <1>9, <2>2, <2>3 DEF TaskStep
<1>10. CASE Polls \/ PollRefused \/ PollFails
  BY <1>1, <1>2, <1>10 DEF Polls, PollRefused, PollFails, PollEnds, Alive
<1>11. CASE PollReturns \/ PollMisread \/ PollTimesOut \/ Publish \/ BatchDone
  BY <1>1, <1>11 DEF PollReturns, PollMisread, PollTimesOut, Publish, BatchDone, Alive
<1>12. CASE StartTyping
  <2>1. Alive /\ Alive'
    BY <1>12 DEF StartTyping, Alive
  <2>2. CASE UNCHANGED typing
    BY <1>1, <2>1, <2>2
  <2>3. CASE ~UNCHANGED typing
    <3> DEFINE task == [user |-> inbox[Head(batch)], age |-> 0]
    <3>1. PICK k \in Slots : typing' = [typing EXCEPT ![k] = task]
      BY <1>12, <2>3 DEF StartTyping
    <3>2. batch \in Seq(Nat) /\ batch # <<>>
      BY <1>0, <1>12 DEF StartTyping, BatchInv
    <3>3. Head(batch) \in 1..Len(inbox)
      BY <1>0, <3>2 DEF MessagesOK
    <3>4. task \in Task
      BY <1>0, <3>3, WechatSessionAssumption DEF MessagesOK, Task
    <3> HIDE DEF task
    <3>5. QED
      BY <1>3, <2>1, <3>1, <3>4
  <2>4. QED
    BY <2>2, <2>3
<1>13. CASE UNCHANGED vars
  BY <1>1, <1>13 DEF vars, Alive
<1>14. QED
  BY <1>4, <1>5, <1>6, <1>7, <1>8, <1>9, <1>10, <1>11, <1>12, <1>13
     DEF Next, PollThread, TaskStep

\* The login thread and stop() never touch what the poll thread counts, except where
\* a session begins or a joined thread is forgotten.
LEMMA PollKept ==
    ASSUME SessionInv,
           \/ UNCHANGED <<poll, buf, batch, published>>
           \/ poll' = "none" /\ ~Alive /\ UNCHANGED <<buf, batch, published>>
           \/ poll' \in {"none", "top"} /\ buf' = -1 /\ batch' = <<>> /\ published' = <<>>
    PROVE  BatchInv' /\ OrderInv'
<1>1. CASE UNCHANGED <<poll, buf, batch, published>>
  BY <1>1 DEF SessionInv, BatchInv, OrderInv, NothingSkipped, Ascends, End, Alive
<1>2. CASE poll' = "none" /\ ~Alive /\ UNCHANGED <<buf, batch, published>>
  BY <1>2 DEF SessionInv, BatchInv, OrderInv, NothingSkipped, Ascends, End, Alive
<1>3. CASE poll' \in {"none", "top"} /\ buf' = -1 /\ batch' = <<>> /\ published' = <<>>
  BY <1>3 DEF BatchInv, OrderInv, NothingSkipped, Ascends, Alive
<1>4. QED
  BY <1>1, <1>2, <1>3

LEMMA MessagesPreserved == SessionInv /\ [Next]_vars => MessagesOK'
<1> SUFFICES ASSUME SessionInv, [Next]_vars PROVE MessagesOK'
  OBVIOUS
<1>0. MessagesOK /\ TypingOK /\ BatchInv
  BY TypeParts DEF SessionInv
<1>1. Len(inbox) \in Nat /\ Len(batch) \in Nat
  BY <1>0 DEF MessagesOK, BatchInv
<1>2. ASSUME UNCHANGED inbox, buf' \in {buf, -1}, batch' \in {batch, <<>>},
             processing' \subseteq Users
      PROVE  MessagesOK'
  <2>1. buf' \in -1..Len(inbox)
    BY <1>0, <1>1, <1>2 DEF MessagesOK
  <2>2. \A i \in 1..Len(batch') : batch'[i] \in 1..Len(inbox)
    <3>1. CASE batch' = batch
      BY <1>0, <3>1 DEF MessagesOK
    <3>2. CASE batch' = <<>>
      BY <3>2
    <3>3. QED
      BY <1>2, <3>1, <3>2
  <2>3. QED
    BY <1>0, <1>2, <2>1, <2>2 DEF MessagesOK
<1> USE DEF polling, login
<1>3. CASE LoginThread
  <2>1. UNCHANGED <<inbox, processing>> /\ buf' \in {buf, -1} /\ batch' \in {batch, <<>>}
    BY <1>3 DEF LoginThread, LoadSaved, NoneSaved, SessionEnds, PollJoined, LoginThreadEnds,
          LoginFails, AsksAgain, Pauses
  <2>2. QED
    BY <1>0, <1>2, <2>1 DEF MessagesOK
<1>4. CASE QrFetched \/ QrScanned \/ QrConfirmed \/ QrExpires \/ ShowStatus
  <2>1. UNCHANGED <<inbox, processing, buf, batch>>
    BY <1>4 DEF QrFetched, QrScanned, QrConfirmed, QrExpires, ShowStatus, Login
  <2>2. QED
    BY <1>0, <1>2, <2>1 DEF MessagesOK
<1>5. CASE Stop \/ StopJoinsLogin \/ StopJoinsPoll \/ TokenExpires \/ UNCHANGED vars
  <2>1. UNCHANGED <<inbox, processing, buf, batch>>
    BY <1>5 DEF Stop, StopJoinsLogin, StopJoinsPoll, TokenExpires, vars
  <2>2. QED
    BY <1>0, <1>2, <2>1 DEF MessagesOK
<1>6. CASE Restart
  BY <1>2, <1>6 DEF Restart
<1>7. ASSUME NEW u \in Users, UserWrites(u) PROVE MessagesOK'
  <2>1. inbox' = Append(inbox, u) /\ UNCHANGED <<buf, batch, processing>>
    BY <1>7 DEF UserWrites
  <2>2. inbox' \in Seq(Users) /\ Len(inbox') = Len(inbox) + 1
    BY <1>0, <2>1 DEF MessagesOK
  <2>3. QED
    BY <1>0, <1>1, <2>1, <2>2 DEF MessagesOK
<1>8. ASSUME NEW u \in Users, Answer(u) PROVE MessagesOK'
  <2>1. UNCHANGED <<inbox, buf, batch>> /\ processing' \subseteq processing
    BY <1>8 DEF Answer
  <2>2. QED
    BY <1>0, <1>2, <2>1 DEF MessagesOK
<1>9. ASSUME NEW k \in Slots, TaskStep(k) PROVE MessagesOK'
  <2>1. UNCHANGED <<inbox, buf, batch>> /\ processing' \subseteq processing
    BY <1>9 DEF TaskStep, Types, TypingEnds
  <2>2. QED
    BY <1>0, <1>2, <2>1 DEF MessagesOK
<1>10. CASE Polls \/ PollMisread \/ PollTimesOut \/ PollRefused \/ PollFails \/ Publish \/ BatchDone
  <2>1. UNCHANGED <<inbox, processing>> /\ buf' \in {buf, -1} /\ batch' \in {batch, <<>>}
    BY <1>10 DEF Polls, PollMisread, PollTimesOut, PollRefused, PollFails, Publish, BatchDone, PollEnds
  <2>2. QED
    BY <1>0, <1>2, <2>1 DEF MessagesOK
<1>11. CASE PollReturns
  <2>1. UNCHANGED <<inbox, processing>>
    BY <1>11 DEF PollReturns
  <2>2. PICK from \in -1..Len(inbox), to \in Nat :
            0 <= from /\ from <= to /\ to <= Len(inbox) /\ Fetched(from, to)
    BY <1>0, <1>1, <1>11 DEF PollReturns, MessagesOK
  <2>3. to - from \in Nat
    BY <2>2
  <2>4. Len(batch') = to - from /\ \A i \in 1..(to - from) : batch'[i] = from + i
    BY <2>2, <2>3 DEF Fetched
  <2>5. \A i \in 1..Len(batch') : batch'[i] \in 1..Len(inbox)
    BY <1>1, <2>2, <2>3, <2>4
  <2>6. buf' \in -1..Len(inbox)
    BY <1>1, <2>2 DEF Fetched
  <2>7. QED
    BY <1>0, <2>1, <2>5, <2>6 DEF MessagesOK
<1>12. CASE StartTyping
  <2>1. batch # <<>> /\ batch' = Tail(batch) /\ UNCHANGED <<inbox, buf>>
    BY <1>0, <1>12 DEF StartTyping, BatchInv
  <2>2. Head(batch) \in 1..Len(inbox)
    BY <1>0, <2>1 DEF MessagesOK, BatchInv
  <2>3. processing' \subseteq Users
    BY <1>0, <1>12, <2>2 DEF StartTyping, MessagesOK
  <2>4. /\ Len(Tail(batch)) = Len(batch) - 1
        /\ \A i \in 1..(Len(batch) - 1) : Tail(batch)[i] = batch[i + 1]
    BY <1>0, <2>1 DEF BatchInv
  <2>5. \A i \in 1..Len(batch') : batch'[i] \in 1..Len(inbox)
    BY <1>0, <1>1, <2>1, <2>4 DEF MessagesOK
  <2>6. QED
    BY <1>0, <2>1, <2>3, <2>5 DEF MessagesOK
<1>13. QED
  BY <1>3, <1>4, <1>5, <1>6, <1>7, <1>8, <1>9, <1>10, <1>11, <1>12
     DEF Next, PollThread, TaskStep

\* The order of the messages is kept, and with it the batch.
LEMMA OrderPreserved == SessionInv /\ [Next]_vars => BatchInv' /\ OrderInv'
<1> SUFFICES ASSUME SessionInv, [Next]_vars PROVE BatchInv' /\ OrderInv'
  OBVIOUS
<1>0. MessagesOK /\ BatchInv /\ OrderInv /\ FlagsOK
  BY TypeParts DEF SessionInv
<1> USE DEF polling, login
<1>1. CASE LoadSaved \/ PollJoined \/ Restart \/ StopJoinsPoll
  BY <1>1, PollKept DEF LoadSaved, PollJoined, Restart, StopJoinsPoll
<1>2. CASE NoneSaved \/ SessionEnds \/ LoginThreadEnds \/ LoginFails \/ AsksAgain \/ Pauses
  <2>1. UNCHANGED polling
    BY <1>2 DEF NoneSaved, SessionEnds, LoginThreadEnds, LoginFails, AsksAgain, Pauses
  <2>2. QED
    BY <2>1, PollKept
<1>3. CASE QrFetched \/ QrScanned \/ QrConfirmed \/ QrExpires \/ ShowStatus
  <2>1. UNCHANGED polling
    BY <1>3 DEF QrFetched, QrScanned, QrConfirmed, QrExpires, ShowStatus, Login
  <2>2. QED
    BY <2>1, PollKept
<1>4. CASE Stop \/ StopJoinsLogin \/ TokenExpires \/ UNCHANGED vars
  <2>1. UNCHANGED polling
    BY <1>4 DEF Stop, StopJoinsLogin, TokenExpires, vars
  <2>2. QED
    BY <2>1, PollKept
<1>5. ASSUME NEW u \in Users, UserWrites(u) \/ Answer(u) PROVE BatchInv' /\ OrderInv'
  <2>1. UNCHANGED polling
    BY <1>5 DEF UserWrites, Answer
  <2>2. QED
    BY <2>1, PollKept
<1>6. ASSUME NEW k \in Slots, TaskStep(k) PROVE BatchInv' /\ OrderInv'
  <2>1. UNCHANGED polling
    BY <1>6 DEF TaskStep, Types, TypingEnds
  <2>2. QED
    BY <2>1, PollKept
<1>7. CASE Polls \/ PollMisread \/ PollTimesOut \/ PollRefused \/ PollFails
  <2>1. batch = <<>> /\ poll \in {"top", "asking"}
    BY <1>0, <1>7 DEF Polls, PollMisread, PollTimesOut, PollRefused, PollFails, BatchInv
  <2>2. CASE PollEnds
    <3>1. <<>> \in Seq(Nat) /\ Len(<<>>) = 0
      OBVIOUS
    <3>2. QED
      BY <2>2, <3>1 DEF PollEnds, BatchInv, OrderInv, NothingSkipped, Ascends, Alive
  <2>3. CASE ~PollEnds
    <3>1. /\ batch' = <<>> /\ buf' \in {buf, -1} /\ UNCHANGED published
          /\ poll' \in {"top", "asking", "handling"}
      BY <1>7, <2>1, <2>3 DEF Polls, PollMisread, PollTimesOut, PollRefused, PollFails
    <3>2. QED
      BY <1>0, <2>1, <3>1
         DEF BatchInv, OrderInv, NothingSkipped, Ascends, End, Alive
  <2>4. QED
    BY <2>2, <2>3
<1>8. CASE BatchDone
  BY <1>0, <1>8 DEF BatchDone, BatchInv, OrderInv, NothingSkipped, Ascends, End, Alive
<1>9. CASE PollReturns
  <2>1. /\ poll = "asking" /\ poll' = "handling" /\ batch = <<>>
        /\ published' = IF buf = -1 THEN <<>> ELSE published
        /\ published # <<>> => buf \in {End(published), -1}
    BY <1>0, <1>9 DEF PollReturns, BatchInv, OrderInv, Alive
  <2>2. PICK from \in Nat, to \in Nat :
            from <= to /\ (buf = -1 \/ from = buf) /\ Fetched(from, to)
    BY <1>0, <1>9 DEF PollReturns, MessagesOK
  <2>3. to - from \in Nat
    BY <2>2
  <2>4. /\ batch' \in Seq(Nat) /\ Len(batch') = to - from
        /\ \A i \in 1..(to - from) : batch'[i] = from + i
    BY <2>2, <2>3 DEF Fetched
  <2>5. BatchInv'
    <3>1. Ascends(batch')
      BY <2>2, <2>4 DEF Ascends
    <3>2. ASSUME batch' # <<>> PROVE buf' \in {End(batch'), -1} /\ Head(batch') = from + 1
      <4>1. to - from >= 1
        BY <2>3, <2>4, <3>2
      <4>2. End(batch') = to /\ Head(batch') = from + 1
        BY <2>2, <2>4, <4>1 DEF End
      <4>3. QED
        BY <2>2, <4>2 DEF Fetched
    <3>3. QED
      BY <2>1, <2>4, <3>1, <3>2 DEF BatchInv, Ascends, End
  <2>6. ASSUME published' # <<>> PROVE published' = published /\ from = End(published)
    <3>1. published' = published /\ buf # -1
      BY <2>1, <2>6
    <3>2. QED
      BY <2>1, <2>2, <2>6, <3>1
  <2>7. ASSUME published' # <<>>, batch' = <<>> PROVE buf' \in {End(published), -1}
    <3>1. Len(batch') = 0
      BY <2>7
    <3>2. to = from
      BY <2>2, <2>4, <3>1
    <3>3. QED
      BY <2>2, <2>6, <2>7, <3>2 DEF Fetched
  <2>8. batch' # <<>> => Head(batch') = from + 1
    BY <2>2, <2>3, <2>4
  <2>9. OrderInv'
    <3>1. CASE published' = <<>>
      <4>1. <<>> \in Seq(Nat) /\ Len(<<>>) = 0 /\ poll' # "typing"
        BY <2>1
      <4>2. NothingSkipped'
        BY <3>1, <4>1 DEF NothingSkipped
      <4>3. QED
        BY <3>1, <4>1, <4>2 DEF OrderInv
    <3>2. CASE published' # <<>>
      BY <1>0, <2>1, <2>6, <2>7, <2>8, <3>2 DEF OrderInv, NothingSkipped, End
    <3>3. QED
      BY <3>1, <3>2
  <2>10. QED
    BY <2>5, <2>9
<1>10. CASE Publish
  <2>1. /\ poll = "handling" /\ batch # <<>> /\ poll' = "typing"
        /\ published' = Append(published, Head(batch)) /\ UNCHANGED <<buf, batch>>
    BY <1>10 DEF Publish
  <2>2. Ascends(published) /\ Head(batch) \in Nat
    BY <1>0, <2>1 DEF OrderInv, NothingSkipped, Ascends, BatchInv
  <2>3. /\ published' \in Seq(Nat) /\ Ascends(published')
        /\ published' # <<>> /\ End(published') = Head(batch)
    BY <1>0, <2>1, <2>2, AppendNext DEF OrderInv
  <2>4. BatchInv'
    BY <1>0, <2>1 DEF BatchInv, Ascends, End
  <2>5. NothingSkipped'
    BY <2>3 DEF NothingSkipped, Ascends
  <2>6. QED
    BY <2>1, <2>3, <2>4, <2>5 DEF OrderInv, End
<1>11. CASE StartTyping
  <2>1. /\ poll = "typing" /\ batch # <<>> /\ poll' = "handling"
        /\ batch' = Tail(batch) /\ UNCHANGED <<buf, published>>
        /\ published # <<>> /\ Head(batch) = End(published) /\ buf \in {End(batch), -1}
    BY <1>0, <1>11 DEF StartTyping, BatchInv, OrderInv
  <2>2. /\ batch' \in Seq(Nat) /\ Ascends(batch')
        /\ batch' # <<>> => End(batch') = End(batch) /\ Head(batch') = Head(batch) + 1
        /\ batch' = <<>> => End(batch) = Head(batch)
    BY <1>0, <2>1, TailNext DEF BatchInv
  <2>3. BatchInv'
    BY <2>1, <2>2 DEF BatchInv, Ascends, End
  <2>4. OrderInv'
    BY <1>0, <2>1, <2>2 DEF OrderInv, NothingSkipped, End
  <2>5. QED
    BY <2>3, <2>4
<1>12. QED
  BY <1>1, <1>2, <1>3, <1>4, <1>5, <1>6, <1>7, <1>8, <1>9, <1>10, <1>11
     DEF Next, LoginThread, PollThread, TaskStep

\* The login thread stays ended, and no poll thread begins then.
StaysQuiet ==
    /\ UNCHANGED <<plugin, running>>
    /\ phase = "ended" => phase' = "ended"
    /\ phase = "ended" /\ poll = "none" => poll' = "none"

LEMMA StopKept == StopInv /\ StoppedMeansQuiet /\ StaysQuiet => StopInv' /\ StoppedMeansQuiet'
<1> SUFFICES ASSUME StopInv, StoppedMeansQuiet, StaysQuiet PROVE StopInv' /\ StoppedMeansQuiet'
  OBVIOUS
<1>1. StopInv'
  BY Zenon DEF StopInv, StaysQuiet
<1>2. StoppedMeansQuiet'
  BY DEF StopInv, StoppedMeansQuiet, StaysQuiet
<1>3. QED
  BY <1>1, <1>2

LEMMA StopPreserved == SessionInv /\ [Next]_vars => StopInv' /\ StoppedMeansQuiet'
<1> SUFFICES ASSUME SessionInv, [Next]_vars PROVE StopInv' /\ StoppedMeansQuiet'
  OBVIOUS
<1>0. StopInv /\ StoppedMeansQuiet
  BY DEF SessionInv
<1> USE DEF polling, login
<1>1. CASE LoadSaved \/ NoneSaved \/ SessionEnds \/ PollJoined
  <2>1. StaysQuiet
    BY <1>1 DEF LoadSaved, NoneSaved, SessionEnds, PollJoined, Asks, StaysQuiet
  <2>2. QED
    BY <1>0, <2>1, StopKept
<1>2. CASE LoginThreadEnds \/ LoginFails \/ AsksAgain \/ Pauses
  <2>1. StaysQuiet
    BY <1>2 DEF LoginThreadEnds, LoginFails, AsksAgain, Pauses, Asks, StaysQuiet
  <2>2. QED
    BY <1>0, <2>1, StopKept
<1>3. CASE QrFetched \/ QrScanned \/ QrConfirmed \/ QrExpires \/ ShowStatus
  <2>1. StaysQuiet
    BY <1>3 DEF QrFetched, QrScanned, QrConfirmed, QrExpires, ShowStatus, Login, StaysQuiet
  <2>2. QED
    BY <1>0, <2>1, StopKept
<1>4. ASSUME NEW u \in Users, UserWrites(u) \/ Answer(u) PROVE StopInv' /\ StoppedMeansQuiet'
  <2>1. StaysQuiet
    BY <1>4 DEF UserWrites, Answer, StaysQuiet
  <2>2. QED
    BY <1>0, <2>1, StopKept
<1>5. ASSUME NEW k \in Slots, TaskStep(k) PROVE StopInv' /\ StoppedMeansQuiet'
  <2>1. StaysQuiet
    BY <1>5 DEF TaskStep, Types, TypingEnds, StaysQuiet
  <2>2. QED
    BY <1>0, <2>1, StopKept
<1>6. CASE PollThread
  <2>1. StaysQuiet
    BY <1>6 DEF PollThread, Polls, PollReturns, PollMisread, PollTimesOut, PollRefused, PollFails, Publish,
          StartTyping, BatchDone, StaysQuiet
  <2>2. QED
    BY <1>0, <2>1, StopKept
<1>7. CASE TokenExpires \/ UNCHANGED vars
  <2>1. StaysQuiet
    BY <1>7 DEF TokenExpires, vars, StaysQuiet
  <2>2. QED
    BY <1>0, <2>1, StopKept
<1>8. CASE Stop
  <2>1. plugin' = "joining login" /\ running' = FALSE
    BY <1>8 DEF Stop
  <2>2. QED
    BY <2>1, Zenon DEF StopInv, StoppedMeansQuiet
<1>9. CASE StopJoinsLogin
  <2>1. plugin # "started" /\ plugin' = "joining poll" /\ phase' = "ended" /\ UNCHANGED running
    BY <1>9 DEF StopJoinsLogin
  <2>2. QED
    BY <1>0, <2>1, Zenon DEF StopInv, StoppedMeansQuiet
<1>10. CASE StopJoinsPoll
  <2>1. /\ plugin = "joining poll" /\ plugin' = "stopped" /\ poll' = "none"
        /\ UNCHANGED <<running, phase>>
    BY <1>10 DEF StopJoinsPoll
  <2>2. QED
    BY <1>0, <2>1, Zenon DEF StopInv, StoppedMeansQuiet
<1>11. CASE Restart
  <2>1. plugin' = "started"
    BY <1>11 DEF Restart
  <2>2. QED
    BY <2>1, Zenon DEF StopInv, StoppedMeansQuiet
<1>12. QED
  BY <1>1, <1>2, <1>3, <1>4, <1>5, <1>6, <1>7, <1>8, <1>9, <1>10, <1>11
     DEF Next, LoginThread, TaskStep

----------------------------------------------------------------------------
\* The theorems

\* The inductive invariant holds always.
THEOREM SessionInvariant == Spec => []SessionInv
<1>1. SessionInv /\ [Next]_vars => SessionInv'
  <2> SUFFICES ASSUME SessionInv, [Next]_vars PROVE SessionInv'
    OBVIOUS
  <2>1. FlagsOK' /\ CountersOK' /\ MessagesOK' /\ TypingOK' /\ CountInv'
    BY FlagsPreserved, CountersPreserved, MessagesPreserved, TypingPreserved
  <2>2. TypeOK'
    BY <2>1, TypeParts, PTL
  <2>3. BatchInv' /\ OrderInv' /\ StopInv' /\ StoppedMeansQuiet'
    BY OrderPreserved, StopPreserved
  <2>4. QED
    BY <2>1, <2>2, <2>3 DEF SessionInv
<1>2. QED
  BY SessionInit, <1>1, PTL DEF Spec

\* The types, and that no typing task is left without a poll thread.
THEOREM SessionTypes == Spec => []TypeOK
<1>1. SessionInv => TypeOK
  BY DEF SessionInv
<1>2. QED
  BY SessionInvariant, <1>1, PTL

\* After stop() neither thread of the plugin is left in its library.
THEOREM StoppedIsQuiet == Spec => []StoppedMeansQuiet
<1>1. SessionInv => StoppedMeansQuiet
  BY DEF SessionInv
<1>2. QED
  BY SessionInvariant, <1>1, PTL

\* As long as the server names a position, the messages are published in order, each
\* once and none left out.
THEOREM NothingIsSkipped == Spec => []NothingSkipped
<1>1. SessionInv => NothingSkipped
  BY DEF SessionInv, OrderInv
<1>2. QED
  BY SessionInvariant, <1>1, PTL

=============================================================================
