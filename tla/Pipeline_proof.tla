--------------------------- MODULE Pipeline_proof ---------------------------
(***************************************************************************)
(* Proofs about Pipeline, for any number of turns and peers, any window    *)
(* and any limit of tool rounds.                                           *)
(*                                                                         *)
(* First the store: the pipeline uses it only as the module ChatStore      *)
(* allows, so what is proved there holds here.  Then the history: the rows *)
(* and the appends still in the mailbox are read as one log, on which the  *)
(* store's own steps leave no mark.                                        *)
(***************************************************************************)
EXTENDS Pipeline, TLAPS, FiniteSetTheorems, SequenceTheorems

\* The same store with the facts that are proved about it.
Proved == INSTANCE ChatStore_proof WITH Messages <- Message, Jobs <- Turns

----------------------------------------------------------------------------
\* The invariant of the turns

Letter == [peer: Peers, msg: Message]

LocalType ==
    /\ rounds \in 0..MaxRounds
    /\ turn \in [Turns -> Turn]
    /\ snapshots \in PeerIds
    /\ \A t \in Turns : turn[t].stage # "none" => turn[t].peer \in Peers
    /\ mail \in Seq(Letter)
    /\ torn \in BOOLEAN

\* A request after a tool round carries one call more than the loop has
\* counted rounds; the answer brings the two together again.
RoundsOf(r) ==
    /\ r.stage \in {"none", "arrived", "refreshed"} => r.calls = 0 /\ r.round = 0
    /\ r.stage \in {"asking", "waiting"} =>
          (r.calls = 0 /\ r.round = 0) \/ r.calls = r.round + 1
    /\ r.stage = "answered" => r.calls = r.round
    /\ r.kind # "user" => r.calls = 0 /\ r.calling = FALSE

RoundsMatchCalls == \A t \in Turns : RoundsOf(turn[t])

\* Whoever may fold the history has had the owner bound by its own request.
OwnerReady ==
    \A t \in Turns :
       /\ turn[t].stage \in {"waiting", "answered"} => owner # Unbound
       /\ turn[t].compact = TRUE => owner # Unbound /\ turn[t].stage # "none"

TurnInv == LocalType /\ RoundsMatchCalls /\ OwnerReady

----------------------------------------------------------------------------
\* Turns

LEMMA FreshTurn == \A p \in PeerIds, k \in Kinds : NewTurn(p, k) \in Turn
<1> TAKE p \in PeerIds, k \in Kinds
<1>1. <<>> \in Seq(0..MaxRounds)
  BY EmptySeq
<1>2. 0 \in 0..MaxRounds
  BY PipelineAssumption
<1>3. "arrived" \in Stages /\ "empty" \in Contents /\ "none" \in Outcomes /\ Unbound \in PeerIds
  BY DEF Stages, Contents, Outcomes, PeerIds
<1> HIDE DEF Stages, Contents, Outcomes, PeerIds, Kinds
<1>4. QED BY <1>1, <1>2, <1>3 DEF NewTurn, Turn

LEMMA InitTurnInv == Init => TurnInv
<1> SUFFICES ASSUME Init PROVE TurnInv
  OBVIOUS
<1> DEFINE none == [NewTurn(Unbound, "user") EXCEPT !.stage = "none"]
<1>1. none \in Turn
  <2>1. NewTurn(Unbound, "user") \in Turn
    BY FreshTurn DEF PeerIds, Kinds
  <2>2. \A r \in Turn : [r EXCEPT !.stage = "none"] \in Turn
    BY DEF Turn, Stages
  <2>3. QED BY <2>1, <2>2
<1>2. turn = [t \in Turns |-> none]
  BY DEF Init
<1>3. none.stage = "none" /\ none.calls = 0 /\ none.round = 0 /\ none.kind = "user"
      /\ none.compact = FALSE
  BY DEF NewTurn
<1> HIDE DEF none
<1>4. LocalType
  <2>1. mail \in Seq(Letter)
    BY EmptySeq DEF Init
  <2>2. rounds \in 0..MaxRounds
    BY PipelineAssumption DEF Init
  <2>3. QED BY <1>1, <1>2, <1>3, <2>1, <2>2 DEF Init, LocalType, PeerIds
<1>5. RoundsMatchCalls /\ OwnerReady
  BY <1>2, <1>3 DEF RoundsMatchCalls, RoundsOf, OwnerReady
<1>6. QED BY <1>4, <1>5 DEF TurnInv

\* One turn moves on to the record r.
LEMMA TurnMoves ==
    ASSUME TurnInv, NEW t \in Turns, NEW r \in Turn, turn' = [turn EXCEPT ![t] = r],
           r.stage # "none", r.peer \in Peers, RoundsOf(r),
           r.stage \in {"waiting", "answered"} \/ r.compact = TRUE => owner' # Unbound,
           owner # Unbound => owner' # Unbound
    PROVE  /\ turn' \in [Turns -> Turn]
           /\ \A u \in Turns : turn'[u].stage # "none" => turn'[u].peer \in Peers
           /\ RoundsMatchCalls' /\ OwnerReady'
<1>1. turn \in [Turns -> Turn]
  BY DEF TurnInv, LocalType
<1>2. turn'[t] = r /\ \A u \in Turns : u # t => turn'[u] = turn[u]
  BY <1>1
<1>3. turn' \in [Turns -> Turn]
  BY <1>1
<1>4. \A u \in Turns : turn'[u].stage # "none" => turn'[u].peer \in Peers
  BY <1>2 DEF TurnInv, LocalType
<1>5. RoundsMatchCalls'
  BY <1>2 DEF TurnInv, RoundsMatchCalls
<1>6. OwnerReady'
  BY <1>2 DEF TurnInv, OwnerReady
<1>7. QED BY <1>3, <1>4, <1>5, <1>6

----------------------------------------------------------------------------
\* What a turn appends

LEMMA FunctionIsSeq ==
    ASSUME NEW S, NEW n \in Nat, NEW f \in [1..n -> S] PROVE f \in Seq(S) /\ Len(f) = n
<1>1. f \in Seq(S)
  BY SeqDef
<1>2. Len(f) \in Nat /\ DOMAIN f = 1..Len(f)
  BY <1>1, LenProperties
<1>3. 1..n = 1..Len(f)
  BY <1>2
<1>4. Len(f) = n
  BY <1>2, <1>3
<1>5. QED BY <1>1, <1>4

LEMMA OneOrTwo ==
    ASSUME NEW S, NEW a \in S, NEW b \in S
    PROVE  /\ <<a>> \in Seq(S) /\ Len(<<a>>) = 1 /\ <<a>>[1] = a
           /\ <<a>> \o <<b>> \in Seq(S) /\ Len(<<a>> \o <<b>>) = 2
           /\ (<<a>> \o <<b>>)[1] = a /\ (<<a>> \o <<b>>)[2] = b
           /\ <<a>> \o <<>> = <<a>>
<1>1. <<a>> \in Seq(S) /\ Len(<<a>>) = 1 /\ <<a>>[1] = a
  OBVIOUS
<1>2. <<b>> \in Seq(S) /\ Len(<<b>>) = 1 /\ <<b>>[1] = b
  OBVIOUS
<1> DEFINE x == <<a>>
<1> DEFINE y == <<b>>
<1>3. x \in Seq(S) /\ Len(x) = 1 /\ x[1] = a /\ y \in Seq(S) /\ Len(y) = 1 /\ y[1] = b
  BY <1>1, <1>2
<1> HIDE DEF x, y
<1>4. x \o y \in Seq(S) /\ Len(x \o y) = 2
  BY <1>3, ConcatProperties
<1>5. \A i \in 1..2 : (x \o y)[i] = IF i <= 1 THEN x[i] ELSE y[i - 1]
  BY <1>3, ConcatProperties
<1>6. (x \o y)[1] = a /\ (x \o y)[2] = b
  BY <1>3, <1>5
<1>7. x \o <<>> = x
  BY <1>3, ConcatEmptySeq
<1>8. QED BY <1>1, <1>4, <1>6, <1>7 DEF x, y

LEMMA MessagesOf ==
    ASSUME NEW t \in Turns
    PROVE  /\ \A k \in {"user", "text", "empty"} : Msg(t, k, 0) \in Message
           /\ \A n \in 1..MaxRounds : /\ Msg(t, "calls", n) \in Message
                                      /\ Msg(t, "tool", n) \in Message
BY DEF Msg, Message

\* The words of a first answer.
LEMMA StoredByLlmSeq ==
    ASSUME NEW t \in Turns, NEW calling \in BOOLEAN, NEW content \in Contents
    PROVE  LET ms == StoredByLlm(t, calling, content) IN
           /\ ms \in Seq(Message) /\ Len(ms) \in 0..2
           /\ (FollowUp(t) \/ Proactive(t)) => ms = <<>>
           /\ ~(FollowUp(t) \/ Proactive(t)) =>
                 /\ Len(ms) >= 1 /\ ms[1] = Msg(t, "user", 0)
                 /\ Len(ms) = 2 => ms[2] = Msg(t, "text", 0)
                 /\ ~calling /\ content # "empty" => Len(ms) = 2
                 /\ calling => Len(ms) = 1
<1> DEFINE u == Msg(t, "user", 0)
<1> DEFINE x == Msg(t, "text", 0)
<1> DEFINE ms == StoredByLlm(t, calling, content)
<1>1. u \in Message /\ x \in Message
  BY MessagesOf
<1> HIDE DEF u, x
<1>2. CASE FollowUp(t) \/ Proactive(t)
  <2>1. ms = <<>>
    BY <1>2 DEF StoredByLlm
  <2>2. ms \in Seq(Message) /\ Len(ms) = 0
    BY <2>1, EmptySeq
  <2> HIDE DEF ms
  <2>3. QED BY <1>2, <2>1, <2>2 DEF ms
<1>3. CASE ~(FollowUp(t) \/ Proactive(t)) /\ ~calling /\ content # "empty"
  <2>1. ms = <<u>> \o <<x>>
    BY <1>3 DEF StoredByLlm, u, x
  <2> HIDE DEF ms
  <2>2. ms \in Seq(Message) /\ Len(ms) = 2 /\ ms[1] = u /\ ms[2] = x
    BY <2>1, <1>1, OneOrTwo
  <2>3. QED BY <1>3, <2>2 DEF u, x, ms
<1>4. CASE ~(FollowUp(t) \/ Proactive(t)) /\ ~(~calling /\ content # "empty")
  <2>1. ms = <<u>> \o <<>>
    BY <1>4 DEF StoredByLlm, u
  <2> HIDE DEF ms
  <2>2. ms \in Seq(Message) /\ Len(ms) = 1 /\ ms[1] = u
    BY <2>1, <1>1, OneOrTwo
  <2>3. QED BY <1>4, <2>2 DEF u, ms
<1>5. QED BY <1>2, <1>3, <1>4

\* A chain of n calls: the calls, the n results in their order, the end.
LEMMA ChainSeq ==
    ASSUME NEW t \in Turns, turn[t] \in Turn, turn[t].calls \in 1..MaxRounds
    PROVE  LET n == turn[t].calls IN
           /\ Chain(t) \in Seq(Message) /\ Len(Chain(t)) = n + 2
           /\ Chain(t)[1] = Msg(t, "calls", n)
           /\ \A i \in 1..n : Chain(t)[i + 1] = Msg(t, "tool", i)
           /\ Chain(t)[n + 2] = Msg(t, IF turn[t].content = "empty" THEN "empty" ELSE "text", 0)
<1> DEFINE n == turn[t].calls
<1> DEFINE a == <<Msg(t, "calls", n)>>
<1> DEFINE b == [i \in 1..n |-> Msg(t, "tool", i)]
<1> DEFINE z == Msg(t, IF turn[t].content = "empty" THEN "empty" ELSE "text", 0)
<1> DEFINE c == <<z>>
<1>0. n \in Nat /\ n \in 1..MaxRounds
  BY PipelineAssumption
<1>1. a \in Seq(Message) /\ Len(a) = 1 /\ a[1] = Msg(t, "calls", n)
  BY <1>0, MessagesOf, OneOrTwo
<1>2. b \in Seq(Message) /\ Len(b) = n /\ \A i \in 1..n : b[i] = Msg(t, "tool", i)
  <2>1. \A i \in 1..n : i \in 1..MaxRounds
    BY <1>0, PipelineAssumption
  <2>2. \A i \in 1..n : Msg(t, "tool", i) \in Message
    BY <2>1, MessagesOf
  <2>3. b \in [1..n -> Message]
    BY <2>2
  <2>4. QED BY <2>3, <1>0, FunctionIsSeq
<1>3. z \in Message
  BY MessagesOf
<1>4. c \in Seq(Message) /\ Len(c) = 1 /\ c[1] = z
  BY <1>3, OneOrTwo
<1>5. Chain(t) = (a \o b) \o c
  BY DEF Chain
<1> HIDE DEF a, b, c, z, n
<1>6. a \o b \in Seq(Message) /\ Len(a \o b) = 1 + n
      /\ \A i \in 1..(1 + n) : (a \o b)[i] = IF i <= 1 THEN a[i] ELSE b[i - 1]
  <2>1. /\ a \o b \in Seq(Message) /\ Len(a \o b) = Len(a) + Len(b)
        /\ \A i \in 1..(Len(a) + Len(b)) :
              (a \o b)[i] = IF i <= Len(a) THEN a[i] ELSE b[i - Len(a)]
    BY <1>1, <1>2, ConcatProperties
  <2>2. QED BY <1>0, <1>1, <1>2, <2>1
<1> DEFINE ab == a \o b
<1> HIDE DEF ab
<1>7. ab \o c \in Seq(Message) /\ Len(ab \o c) = n + 2
      /\ \A i \in 1..(n + 2) : (ab \o c)[i] = IF i <= 1 + n THEN ab[i] ELSE c[i - (1 + n)]
  <2>1. /\ ab \o c \in Seq(Message) /\ Len(ab \o c) = Len(ab) + Len(c)
        /\ \A i \in 1..(Len(ab) + Len(c)) :
              (ab \o c)[i] = IF i <= Len(ab) THEN ab[i] ELSE c[i - Len(ab)]
    BY <1>4, <1>6, ConcatProperties DEF ab
  <2>2. QED BY <1>0, <2>1, <1>4, <1>6 DEF ab
<1>8. ab[1] = a[1] /\ \A i \in 1..n : ab[i + 1] = b[i]
  BY <1>0, <1>6 DEF ab
<1>9. (ab \o c)[1] = a[1] /\ (\A i \in 1..n : (ab \o c)[i + 1] = b[i]) /\ (ab \o c)[n + 2] = c[1]
  <2>1. 1 \in 1..(n + 2) /\ 1 <= 1 + n
    BY <1>0
  <2>2. \A i \in 1..n : i + 1 \in 1..(n + 2) /\ i + 1 <= 1 + n
    BY <1>0
  <2>3. n + 2 \in 1..(n + 2) /\ ~(n + 2 <= 1 + n) /\ n + 2 - (1 + n) = 1
    BY <1>0
  <2> DEFINE abc == ab \o c
  <2>4. \A i \in 1..(n + 2) : abc[i] = IF i <= 1 + n THEN ab[i] ELSE c[i - (1 + n)]
    BY <1>7
  <2> HIDE DEF abc
  <2>5. abc[1] = a[1]
    BY <2>1, <2>4, <1>8
  <2>6. ASSUME NEW i \in 1..n PROVE abc[i + 1] = b[i]
    BY <2>2, <2>4, <1>8
  <2>7. abc[n + 2] = c[1]
    BY <1>0, <2>3, <2>4
  <2>8. QED BY <2>5, <2>6, <2>7 DEF abc
<1>10. QED BY <1>1, <1>2, <1>4, <1>5, <1>7, <1>9 DEF n, z, ab

\* What the loop stores when it ends, for a turn that has counted its rounds.
LEMMA StoredByPipelineSeq ==
    ASSUME NEW t \in Turns, turn[t] \in Turn, RoundsOf(turn[t]), turn[t].stage = "answered"
    PROVE  LET ms == StoredByPipeline(t)
               n == turn[t].calls IN
           /\ ms \in Seq(Message)
           /\ n # 0 => ms = Chain(t) /\ n \in 1..MaxRounds
           /\ n = 0 /\ Proactive(t) /\ turn[t].content # "empty" /\ ~Dropped(t) =>
                 Len(ms) = 1 /\ ms[1] = Msg(t, "text", 0)
           /\ n = 0 /\ ~(Proactive(t) /\ turn[t].content # "empty" /\ ~Dropped(t)) => ms = <<>>
<1> DEFINE n == turn[t].calls
<1> DEFINE x == Msg(t, "text", 0)
<1>1. n \in 0..MaxRounds /\ turn[t].round = n
  BY DEF Turn, RoundsOf
<1>2. x \in Message
  BY MessagesOf
<1>3. CASE n # 0
  <2>1. n \in 1..MaxRounds
    BY <1>1, <1>3, PipelineAssumption
  <2>2. turn[t].round > 0
    BY <1>1, <1>3, PipelineAssumption
  <2>3. StoredByPipeline(t) = Chain(t)
    BY <2>2 DEF StoredByPipeline
  <2>4. Chain(t) \in Seq(Message)
    BY <2>1, ChainSeq
  <2>5. QED BY <2>1, <2>3, <2>4, <1>3
<1>4. CASE n = 0 /\ Proactive(t) /\ turn[t].content # "empty" /\ ~Dropped(t)
  <2>1. StoredByPipeline(t) = <<x>>
    BY <1>1, <1>4 DEF StoredByPipeline
  <2>2. <<x>> \in Seq(Message) /\ Len(<<x>>) = 1 /\ <<x>>[1] = x
    BY <1>2, OneOrTwo
  <2>3. QED BY <2>1, <2>2, <1>4
<1>5. CASE n = 0 /\ ~(Proactive(t) /\ turn[t].content # "empty" /\ ~Dropped(t))
  <2>1. StoredByPipeline(t) = <<>>
    BY <1>1, <1>5 DEF StoredByPipeline
  <2>2. QED BY <2>1, <1>5, EmptySeq
<1>6. QED BY <1>3, <1>4, <1>5

LEMMA MailGrows ==
    ASSUME NEW t \in Turns, turn[t].peer \in Peers, mail \in Seq(Letter),
           NEW ms \in Seq(Message), Mailed(t, ms)
    PROVE  /\ mail' \in Seq(Letter) /\ Len(mail') = Len(mail) + Len(ms)
           /\ \A i \in 1..Len(mail) : mail'[i] = mail[i]
           /\ \A i \in 1..Len(ms) : mail'[Len(mail) + i] = [peer |-> turn[t].peer, msg |-> ms[i]]
<1> DEFINE new == [i \in DOMAIN ms |-> [peer |-> turn[t].peer, msg |-> ms[i]]]
<1>1. Len(ms) \in Nat /\ DOMAIN ms = 1..Len(ms) /\ \A i \in 1..Len(ms) : ms[i] \in Message
  BY LenProperties, ElementOfSeq
<1>2. new \in [1..Len(ms) -> Letter]
  BY <1>1 DEF Letter
<1>3. new \in Seq(Letter) /\ Len(new) = Len(ms)
  BY <1>1, <1>2, FunctionIsSeq
<1>4. \A i \in 1..Len(ms) : new[i] = [peer |-> turn[t].peer, msg |-> ms[i]]
  BY <1>1
<1>5. mail' = mail \o new
  BY DEF Mailed
<1> HIDE DEF new
<1>6. Len(mail) \in Nat
  BY LenProperties
<1>7. /\ mail' \in Seq(Letter) /\ Len(mail') = Len(mail) + Len(new)
      /\ \A i \in 1..(Len(mail) + Len(new)) :
            mail'[i] = IF i <= Len(mail) THEN mail[i] ELSE new[i - Len(mail)]
  BY <1>3, <1>5, ConcatProperties
<1>8. ASSUME NEW i \in 1..Len(mail) PROVE mail'[i] = mail[i]
  <2>1. i \in 1..(Len(mail) + Len(new)) /\ i <= Len(mail)
    BY <1>1, <1>3, <1>6
  <2>2. QED BY <1>7, <2>1
<1>9. ASSUME NEW i \in 1..Len(ms)
      PROVE mail'[Len(mail) + i] = [peer |-> turn[t].peer, msg |-> ms[i]]
  <2>1. /\ Len(mail) + i \in 1..(Len(mail) + Len(new)) /\ ~(Len(mail) + i <= Len(mail))
        /\ Len(mail) + i - Len(mail) = i
    BY <1>1, <1>3, <1>6
  <2>2. mail'[Len(mail) + i] = new[i]
    BY <1>7, <2>1
  <2>3. QED BY <2>2, <1>4
<1>10. QED BY <1>3, <1>7, <1>8, <1>9

\* A turn that is over.
LEMMA EndedTurn ==
    ASSUME TurnInv, NEW t \in Turns, NEW o \in Outcomes
    PROVE  /\ Ended(t, o) \in Turn /\ Ended(t, o).stage = "done"
           /\ Ended(t, o).peer = turn[t].peer /\ Ended(t, o).kind = turn[t].kind
           /\ Ended(t, o).calls = turn[t].calls /\ Ended(t, o).compact = turn[t].compact
           /\ Ended(t, o).outcome = o /\ RoundsOf(Ended(t, o))
<1>1. turn[t] \in Turn /\ RoundsOf(turn[t])
  BY DEF TurnInv, LocalType, RoundsMatchCalls
<1>2. turn[t].peer \in PeerIds /\ turn[t].kind \in Kinds /\ turn[t].calls \in 0..MaxRounds
      /\ turn[t].compact \in BOOLEAN
  BY <1>1 DEF Turn
<1> DEFINE f == NewTurn(turn[t].peer, turn[t].kind)
<1>3. f \in Turn /\ f.peer = turn[t].peer /\ f.kind = turn[t].kind /\ f.calling = FALSE
  <2>1. f \in Turn
    BY <1>2, FreshTurn
  <2>2. QED BY <2>1 DEF NewTurn
<1>4. Ended(t, o) = [f EXCEPT !.stage = "done", !.calls = turn[t].calls,
                              !.compact = turn[t].compact, !.outcome = o]
  BY DEF Ended
<1>5. "done" \in Stages
  BY DEF Stages
<1> HIDE DEF f
<1>6. Ended(t, o) \in Turn
  BY <1>2, <1>3, <1>4, <1>5 DEF Turn
<1>7. /\ Ended(t, o).stage = "done"
      /\ Ended(t, o).peer = turn[t].peer /\ Ended(t, o).kind = turn[t].kind
      /\ Ended(t, o).calls = turn[t].calls /\ Ended(t, o).compact = turn[t].compact
      /\ Ended(t, o).outcome = o /\ Ended(t, o).calling = FALSE
  BY <1>3, <1>4 DEF Turn
<1>8. RoundsOf(Ended(t, o))
  BY <1>1, <1>7 DEF RoundsOf
<1>9. QED BY <1>6, <1>7, <1>8

LEMMA TurnInvStep ==
    ASSUME TurnInv, [Next]_vars PROVE TurnInv'
<1> DEFINE Rest == /\ snapshots' \in PeerIds /\ mail' \in Seq(Letter) /\ torn' \in BOOLEAN
                   /\ rounds' \in 0..MaxRounds
<1> DEFINE Turns2 == /\ turn' \in [Turns -> Turn]
                     /\ \A u \in Turns : turn'[u].stage # "none" => turn'[u].peer \in Peers
                     /\ RoundsMatchCalls' /\ OwnerReady'
<1>0. /\ turn \in [Turns -> Turn] /\ snapshots \in PeerIds /\ mail \in Seq(Letter)
      /\ torn \in BOOLEAN /\ Unbound \in PeerIds /\ rounds \in 0..MaxRounds
      /\ \A u \in Turns : turn[u] \in Turn /\ RoundsOf(turn[u])
      /\ \A u \in Turns : turn[u].stage # "none" => turn[u].peer \in Peers
  BY DEF TurnInv, LocalType, RoundsMatchCalls, PeerIds
<1>q. Rest /\ Turns2 => TurnInv'
  BY DEF TurnInv, LocalType
<1>1. CASE UNCHANGED vars
  BY <1>1 DEF vars, storeVars, TurnInv, LocalType, RoundsMatchCalls, OwnerReady
<1>2. ASSUME NEW t \in Turns, NEW p \in Peers, NEW k \in Kinds, Receive(t, p, k)
      PROVE TurnInv'
  <2> DEFINE r == NewTurn(p, k)
  <2>1. r \in Turn
    BY FreshTurn DEF PeerIds
  <2>2. r.stage = "arrived" /\ r.peer \in Peers /\ r.compact = FALSE /\ RoundsOf(r)
    BY DEF NewTurn, RoundsOf
  <2>3. turn' = [turn EXCEPT ![t] = r] /\ owner' = owner
    BY <1>2 DEF Receive, storeVars
  <2> HIDE DEF r
  <2>4. Turns2
    BY <2>1, <2>2, <2>3, TurnMoves
  <2>5. Rest
    BY <1>0, <1>2 DEF Receive
  <2>6. QED BY <2>4, <2>5, <1>q
<1>3. ASSUME NEW t \in Turns, NEW o \in Outcomes, turn' = [turn EXCEPT ![t] = Ended(t, o)],
             turn[t].stage \in {"arrived", "waiting", "answered"}, owner' = owner
      PROVE Turns2
  <2> DEFINE r == Ended(t, o)
  <2>1. r \in Turn /\ r.stage = "done" /\ r.peer = turn[t].peer /\ RoundsOf(r)
        /\ r.compact = turn[t].compact
    BY EndedTurn
  <2>2. r.peer \in Peers
    BY <1>0, <1>3, <2>1
  <2>3. r.compact = TRUE => owner' # Unbound
    BY <1>3, <2>1 DEF TurnInv, OwnerReady
  <2>4. turn' = [turn EXCEPT ![t] = r]
    BY <1>3
  <2> HIDE DEF r
  <2>5. QED BY <1>3, <2>1, <2>2, <2>3, <2>4, TurnMoves
<1>4. ASSUME NEW t \in Turns, Refuse(t) PROVE TurnInv'
  <2>1. Turns2
    BY <1>4, <1>3 DEF Refuse, Outcomes, storeVars
  <2>2. Rest
    BY <1>0, <1>4 DEF Refuse
  <2>3. QED BY <2>1, <2>2, <1>q
<1>5. ASSUME NEW t \in Turns, RefreshSnapshots(t) PROVE TurnInv'
  <2> DEFINE r == [turn[t] EXCEPT !.stage = "refreshed"]
  <2>1. turn' = [turn EXCEPT ![t] = r] /\ owner' = owner
    BY <1>0, <1>5 DEF RefreshSnapshots, storeVars
  <2>2. r \in Turn /\ r.stage = "refreshed" /\ r.compact = turn[t].compact
        /\ r.peer = turn[t].peer
    BY <1>0 DEF Turn, Stages
  <2>3. RoundsOf(r)
    BY <1>0, <1>5 DEF Turn, RoundsOf, RefreshSnapshots
  <2>4. r.peer \in Peers
    BY <1>0, <1>5, <2>2 DEF RefreshSnapshots
  <2>5. r.compact = TRUE => owner' # Unbound
    BY <2>1, <2>2 DEF TurnInv, OwnerReady
  <2> HIDE DEF r
  <2>6. Turns2
    BY <2>1, <2>2, <2>3, <2>4, <2>5, TurnMoves
  <2>7. Rest
    BY <1>0, <1>5, <2>4 DEF RefreshSnapshots, PeerIds
  <2>8. QED BY <2>6, <2>7, <1>q
<1>6. ASSUME NEW t \in Turns, ReadContexts(t) PROVE TurnInv'
  <2> DEFINE r == [turn[t] EXCEPT !.stage = "asking", !.context = snapshots]
  <2>1. turn' = [turn EXCEPT ![t] = r] /\ owner' = owner
    BY <1>0, <1>6 DEF ReadContexts, storeVars
  <2>2. r \in Turn /\ r.stage = "asking" /\ r.compact = turn[t].compact
        /\ r.peer = turn[t].peer
    BY <1>0 DEF Turn, Stages
  <2>3. RoundsOf(r)
    BY <1>0, <1>6 DEF Turn, RoundsOf, ReadContexts
  <2>4. r.peer \in Peers
    BY <1>0, <1>6, <2>2 DEF ReadContexts
  <2>5. r.compact = TRUE => owner' # Unbound
    BY <2>1, <2>2 DEF TurnInv, OwnerReady
  <2> HIDE DEF r
  <2>6. Turns2
    BY <2>1, <2>2, <2>3, <2>4, <2>5, TurnMoves
  <2>7. Rest
    BY <1>0, <1>6 DEF ReadContexts
  <2>8. QED BY <2>6, <2>7, <1>q
<1>7. ASSUME NEW t \in Turns, LlmReads(t) PROVE TurnInv'
  <2> DEFINE r == [turn[t] EXCEPT !.stage = "waiting"]
  <2>1. turn' = [turn EXCEPT ![t] = r]
    BY <1>0, <1>7 DEF LlmReads
  <2>2. r \in Turn /\ r.stage = "waiting" /\ r.peer = turn[t].peer
    BY <1>0 DEF Turn, Stages
  <2>3. RoundsOf(r)
    BY <1>0, <1>7 DEF Turn, RoundsOf, LlmReads
  <2>4. r.peer \in Peers
    BY <1>0, <1>7, <2>2 DEF LlmReads
  <2>5. owner' # Unbound
    <3>1. CASE owner # Unbound
      BY <1>7, <3>1 DEF LlmReads, Store!EnsureOwnerPeer, Store!storeVars
    <3>2. CASE owner = Unbound
      BY <1>7, <2>2, <2>4, <3>2, PipelineAssumption DEF LlmReads, Store!EnsureOwnerPeer
    <3>3. QED BY <3>1, <3>2
  <2> HIDE DEF r
  <2>6. Turns2
    BY <2>1, <2>2, <2>3, <2>4, <2>5, TurnMoves
  <2>7. Rest
    BY <1>0, <1>7 DEF LlmReads
  <2>8. QED BY <2>6, <2>7, <1>q
<1>8. ASSUME NEW t \in Turns, NEW calling \in BOOLEAN, NEW content \in Contents,
             LlmAnswers(t, calling, content) PROVE TurnInv'
  <2> DEFINE a == turn[t]
  <2> DEFINE rd == IF FollowUp(t) THEN a.round + 1 ELSE a.round
  <2> DEFINE cp == a.compact \/ ~(calling \/ FollowUp(t) \/ Proactive(t))
  <2> DEFINE r == [a EXCEPT !.stage = "answered", !.calling = calling, !.content = content,
                            !.round = rd, !.compact = cp]
  <2>0. a.stage = "waiting" /\ a \in Turn /\ a.peer \in Peers /\ owner # Unbound /\ owner' = owner
    BY <1>0, <1>8 DEF LlmAnswers, TurnInv, OwnerReady, storeVars
  <2>1. turn' = [turn EXCEPT ![t] = r]
    BY <1>0, <1>8 DEF LlmAnswers
  <2>2. rd \in 0..MaxRounds /\ rd = a.calls
    BY <1>0, <2>0, PipelineAssumption DEF FollowUp, RoundsOf, Turn
  <2>3. cp \in BOOLEAN
    OBVIOUS
  <2> HIDE DEF rd, cp
  <2>4. r \in Turn /\ r.stage = "answered" /\ r.peer = a.peer /\ r.calls = a.calls /\ r.round = rd
        /\ r.kind = a.kind /\ r.calling = calling
    BY <2>0, <2>2, <2>3 DEF Turn, Stages
  <2>5. RoundsOf(r)
    <3>1. a.kind # "user" => a.calls = 0 /\ calling = FALSE
      BY <1>0, <1>8 DEF LlmAnswers, MayAnswer, Proactive, RoundsOf
    <3> HIDE DEF r
    <3>2. QED BY <2>2, <2>4, <3>1 DEF RoundsOf
  <2> HIDE DEF r
  <2>6. Turns2
    BY <2>0, <2>1, <2>4, <2>5, TurnMoves
  <2>7. mail' \in Seq(Letter)
    <3>1. StoredByLlm(t, calling, content) \in Seq(Message)
      BY StoredByLlmSeq
    <3>2. Mailed(t, StoredByLlm(t, calling, content))
      BY <1>8 DEF LlmAnswers
    <3>3. QED BY <1>0, <2>0, <3>1, <3>2, MailGrows
  <2>8. Rest
    BY <1>0, <1>8, <2>7 DEF LlmAnswers
  <2>9. QED BY <2>6, <2>8, <1>q
<1>9. ASSUME NEW t \in Turns, LlmFails(t) PROVE TurnInv'
  <2>1. PICK o \in {"lost", "failed"} : turn' = [turn EXCEPT ![t] = Ended(t, o)]
    BY <1>9 DEF LlmFails
  <2>2. Turns2
    BY <1>9, <2>1, <1>3 DEF LlmFails, Outcomes, storeVars
  <2>3. Rest
    BY <1>0, <1>9 DEF LlmFails
  <2>4. QED BY <2>2, <2>3, <1>q
<1>10. ASSUME NEW t \in Turns, NEW what \in {"plain", "sent", "described"}, ToolReturns(t, what)
       PROVE TurnInv'
  <2> DEFINE a == turn[t]
  <2> DEFINE call == a.calls + 1
  <2> DEFINE res == a.results \o IF what = "described" THEN <<call, 0>> ELSE <<call>>
  <2> DEFINE via == a.sentViaIm \/ what = "sent"
  <2> DEFINE r == [a EXCEPT !.stage = "asking", !.calls = call, !.results = res,
                            !.sentViaIm = via]
  <2>0. a.stage = "answered" /\ a \in Turn /\ a.peer \in Peers /\ owner' = owner
        /\ RoundsOf(a) /\ a.calling /\ a.round < MaxRounds
    BY <1>0, <1>10, PipelineAssumption DEF ToolReturns, MoreTools, storeVars, Turn
  <2>1. turn' = [turn EXCEPT ![t] = r]
    BY <1>0, <1>10 DEF ToolReturns
  <2>2. call \in 1..MaxRounds /\ call = a.round + 1 /\ call \in 0..MaxRounds /\ 0 \in 0..MaxRounds
    BY <2>0, PipelineAssumption DEF RoundsOf, Turn
  <2>3. res \in Seq(0..MaxRounds)
    <3> DEFINE more == IF what = "described" THEN <<call, 0>> ELSE <<call>>
    <3>1. <<call, 0>> \in Seq(0..MaxRounds) /\ <<call>> \in Seq(0..MaxRounds)
      <4> HIDE DEF call
      <4>1. QED BY <2>2
    <3>2. more \in Seq(0..MaxRounds)
      BY <3>1
    <3>3. a.results \in Seq(0..MaxRounds)
      BY <2>0 DEF Turn
    <3> HIDE DEF more
    <3>4. a.results \o more \in Seq(0..MaxRounds)
      BY <3>2, <3>3, ConcatProperties
    <3>5. QED BY <3>4 DEF more
  <2>4. via \in BOOLEAN
    OBVIOUS
  <2> HIDE DEF call, res, via
  <2>5. r \in Turn /\ r.stage = "asking" /\ r.peer = a.peer /\ r.calls = call /\ r.round = a.round
        /\ r.kind = a.kind /\ r.compact = a.compact
    BY <2>0, <2>2, <2>3, <2>4 DEF Turn, Stages
  <2>6. RoundsOf(r)
    <3>1. a.kind = "user"
      BY <2>0 DEF RoundsOf
    <3> HIDE DEF r
    <3>2. QED BY <2>2, <2>5, <3>1 DEF RoundsOf
  <2>7. r.compact = TRUE => owner' # Unbound
    BY <2>0, <2>5 DEF TurnInv, OwnerReady
  <2> HIDE DEF r
  <2>8. Turns2
    BY <2>0, <2>1, <2>5, <2>6, <2>7, TurnMoves
  <2>9. Rest
    BY <1>0, <1>10 DEF ToolReturns
  <2>10. QED BY <2>8, <2>9, <1>q
<1>11. ASSUME NEW t \in Turns, Finish(t) PROVE TurnInv'
  <2>1. PICK o \in {"dropped", "silent", "cut", "replied"} : turn' = [turn EXCEPT ![t] = Ended(t, o)]
    BY <1>11 DEF Finish
  <2>2. turn[t].stage = "answered"
    BY <1>11 DEF Finish
  <2>3. Turns2
    BY <1>11, <2>1, <2>2, <1>3 DEF Finish, Outcomes, storeVars
  <2>4. mail' \in Seq(Letter)
    <3>1. StoredByPipeline(t) \in Seq(Message)
      BY <1>0, <2>2, StoredByPipelineSeq
    <3>2. Mailed(t, StoredByPipeline(t))
      BY <1>11 DEF Finish
    <3>3. QED BY <1>0, <2>2, <3>1, <3>2, MailGrows
  <2>5. Rest
    BY <1>0, <1>11, <2>4 DEF Finish
  <2>6. QED BY <2>3, <2>5, <1>q
<1>12. ASSUME turn' = turn, owner' = owner PROVE Turns2
  BY <1>12 DEF TurnInv, LocalType, RoundsMatchCalls, OwnerReady
<1>13. CASE StoreHandles
  <2>1. Turns2
    BY <1>13, <1>12 DEF StoreHandles, Store!AppendMessage, Store!Inserted
  <2>2. Rest
    BY <1>0, <1>13, HeadTailProperties DEF StoreHandles
  <2>3. QED BY <2>1, <2>2, <1>q
<1>14. ASSUME NEW t \in Turns, BeginCompaction(t) PROVE TurnInv'
  <2> DEFINE r == [turn[t] EXCEPT !.compact = FALSE]
  <2>1. turn' = [turn EXCEPT ![t] = r] /\ owner' = owner
    BY <1>0, <1>14 DEF BeginCompaction, storeVars, Store!FetchLongSummaryBatch
  <2>2. r \in Turn /\ r.stage = turn[t].stage /\ r.compact = FALSE /\ r.peer = turn[t].peer
        /\ RoundsOf(r)
    BY <1>0 DEF Turn, RoundsOf
  <2>3. turn[t].compact = TRUE
    BY <1>0, <1>14 DEF BeginCompaction, Turn
  <2>4. owner # Unbound /\ turn[t].stage # "none"
    BY <2>3 DEF TurnInv, OwnerReady
  <2>5. r.peer \in Peers
    BY <1>0, <2>2, <2>4
  <2> HIDE DEF r
  <2>6. Turns2
    BY <2>1, <2>2, <2>4, <2>5, TurnMoves
  <2>7. Rest
    BY <1>0, <1>14 DEF BeginCompaction
  <2>8. QED BY <2>6, <2>7, <1>q
<1>15. ASSUME NEW t \in Turns, EndCompaction(t) PROVE TurnInv'
  <2>1. Turns2
    BY <1>15, <1>12 DEF EndCompaction, Store!UpdateLongSummary, Store!CompactionFails
  <2>2. Rest
    BY <1>0, <1>15 DEF EndCompaction
  <2>3. QED BY <2>1, <2>2, <1>q
<1>16. ASSUME NEW clear \in BOOLEAN, Restart(clear) PROVE TurnInv'
  <2> DEFINE over(u) == IF turn[u].stage \in {"none", "done"}
                        THEN [turn[u] EXCEPT !.compact = FALSE]
                        ELSE [Ended(u, "crashed") EXCEPT !.compact = FALSE]
  <2>1. turn' = [u \in Turns |-> over(u)] /\ owner' = owner
    BY <1>16 DEF Restart, Store!Reopen
  <2>2. ASSUME NEW u \in Turns
        PROVE  /\ over(u) \in Turn /\ RoundsOf(over(u)) /\ over(u).compact = FALSE
               /\ over(u).peer = turn[u].peer /\ over(u).stage \in {"none", "done"}
               /\ over(u).stage = "none" <=> turn[u].stage = "none"
    <3>1. CASE turn[u].stage \in {"none", "done"}
      <4> DEFINE r == [turn[u] EXCEPT !.compact = FALSE]
      <4>1. r \in Turn /\ RoundsOf(r) /\ r.compact = FALSE /\ r.peer = turn[u].peer
            /\ r.stage = turn[u].stage
        BY <1>0 DEF Turn, RoundsOf
      <4>2. over(u) = r
        BY <3>1
      <4> HIDE DEF r, over
      <4>3. QED BY <3>1, <4>1, <4>2
    <3>2. CASE turn[u].stage \notin {"none", "done"}
      <4> DEFINE e == Ended(u, "crashed")
      <4>1. e \in Turn /\ RoundsOf(e) /\ e.peer = turn[u].peer /\ e.stage = "done"
        BY EndedTurn DEF Outcomes
      <4> HIDE DEF e
      <4> DEFINE r == [e EXCEPT !.compact = FALSE]
      <4>2. r \in Turn /\ RoundsOf(r) /\ r.compact = FALSE /\ r.peer = turn[u].peer
            /\ r.stage = "done"
        BY <4>1 DEF Turn, RoundsOf
      <4>3. over(u) = r
        BY <3>2 DEF e
      <4> HIDE DEF r, over
      <4>4. QED BY <3>2, <4>2, <4>3
    <3>3. QED BY <3>1, <3>2
  <2> HIDE DEF over
  <2>3. \A u \in Turns : turn'[u] = over(u)
    BY <2>1
  <2>4. turn' \in [Turns -> Turn]
    BY <2>1, <2>2
  <2>5. \A u \in Turns : turn'[u].stage # "none" => turn'[u].peer \in Peers
    BY <1>0, <2>2, <2>3
  <2>6. RoundsMatchCalls' /\ OwnerReady'
    BY <2>2, <2>3 DEF RoundsMatchCalls, OwnerReady
  <2>7. Rest
    BY <1>0, <1>16, EmptySeq DEF Restart
  <2>8. QED BY <2>4, <2>5, <2>6, <2>7, <1>q
<1>17. QED
  BY <1>1, <1>2, <1>4, <1>5, <1>6, <1>7, <1>8, <1>9, <1>10, <1>11, <1>13, <1>14, <1>15, <1>16
  DEF Next, TurnStep

----------------------------------------------------------------------------
\* The store is used as it allows

\* Every step of the pipeline is one of the store or leaves it alone.
LEMMA StepOfStore ==
    ASSUME TurnInv, [Next]_vars PROVE [Store!Next]_(Store!storeVars)
<1> DEFINE Goal == [Store!Next]_(Store!storeVars)
<1> SUFFICES Goal
  OBVIOUS
<1>0. UNCHANGED storeVars => Goal
  BY DEF storeVars, Store!storeVars
<1>1. CASE UNCHANGED vars
  BY <1>1, <1>0 DEF vars
<1>p. \A t \in Turns : turn[t].stage # "none" => turn[t].peer \in Peers
  BY DEF TurnInv, LocalType
<1>2. ASSUME NEW t \in Turns, LlmReads(t) PROVE Goal
  <2>1. turn[t].peer \in Peers /\ Store!EnsureOwnerPeer(turn[t].peer)
    BY <1>2, <1>p DEF LlmReads
  <2>2. QED BY <2>1 DEF Store!Next
<1>3. CASE StoreHandles
  <2>1. Head(mail) \in Letter
    BY <1>3, HeadTailProperties DEF StoreHandles, TurnInv, LocalType
  <2>2. Head(mail).peer \in Store!PeerIds /\ Head(mail).msg \in Message
    BY <2>1 DEF Letter, Store!PeerIds
  <2>3. Store!AppendMessage(Head(mail).peer, Head(mail).msg)
    BY <1>3 DEF StoreHandles
  <2>4. QED BY <2>2, <2>3 DEF Store!Next
<1>4. ASSUME NEW t \in Turns, BeginCompaction(t) PROVE Goal
  <2>1. CASE Store!FetchLongSummaryBatch(t, turn[t].peer)
    <3>1. turn[t].compact = TRUE
      BY <1>4 DEF BeginCompaction, TurnInv, LocalType, Turn
    <3>2. turn[t].peer \in Peers /\ owner # Unbound
      BY <1>p, <3>1 DEF TurnInv, OwnerReady
    <3>3. QED BY <2>1, <3>2 DEF Store!Next, Store!OwnerBound
  <2>2. CASE UNCHANGED storeVars
    BY <2>2, <1>0
  <2>3. QED BY <1>4, <2>1, <2>2 DEF BeginCompaction
<1>5. ASSUME NEW t \in Turns, EndCompaction(t) PROVE Goal
  BY <1>5 DEF EndCompaction, Store!Next
<1>6. ASSUME NEW clear \in BOOLEAN, Restart(clear) PROVE Goal
  BY <1>6 DEF Restart, Store!Next
<1>7. ASSUME NEW t \in Turns,
             \/ \E p \in Peers, k \in Kinds : Receive(t, p, k)
             \/ Refuse(t) \/ RefreshSnapshots(t) \/ ReadContexts(t)
             \/ \E calling \in BOOLEAN, content \in Contents : LlmAnswers(t, calling, content)
             \/ LlmFails(t)
             \/ \E what \in {"plain", "sent", "described"} : ToolReturns(t, what)
             \/ Finish(t)
      PROVE Goal
  <2>1. UNCHANGED storeVars
    BY <1>7 DEF Receive, Refuse, RefreshSnapshots, ReadContexts, LlmAnswers, LlmFails,
                ToolReturns, Finish
  <2>2. QED BY <2>1, <1>0
<1> HIDE DEF Goal
<1>8. QED BY <1>1, <1>2, <1>3, <1>4, <1>5, <1>6, <1>7 DEF Next, TurnStep

LEMMA TurnInvariant == Spec => []TurnInv
<1>1. Init => TurnInv
  BY InitTurnInv
<1>2. TurnInv /\ [Next]_vars => TurnInv'
  BY TurnInvStep
<1>3. QED BY <1>1, <1>2, PTL DEF Spec

\* The pipeline never asks of the store what its specification does not allow:
\* no turn starts a compaction before its own request has bound the owner, for
\* otherwise old rows could be inherited behind the cursor of a summary.
THEOREM PipelineImplementsStore == Spec => ImplementsStore
<1>1. Init => Store!Init
  BY DEF Init
<1>2. TurnInv /\ [Next]_vars => [Store!Next]_(Store!storeVars)
  BY StepOfStore
<1>3. QED BY <1>1, <1>2, TurnInvariant, PTL DEF Spec, ImplementsStore, Store!Spec

\* The two instances of the store are one: what the facts of the other are
\* stated with means the same here.
LEMMA SameInit == Store!Init <=> Proved!Init
BY DEF Store!Init, Proved!Init, Store!NoSession, Proved!NoSession, Store!NoJob, Proved!NoJob

LEMMA SameStep == [Store!Next]_(Store!storeVars) => [Proved!Next]_(Proved!storeVars)
<1>1. Store!Next <=> Proved!Next
  BY DEF Store!Next, Proved!Next, Store!storeVars, Proved!storeVars,
         Store!PeerIds, Proved!PeerIds, Store!AppendMessage, Proved!AppendMessage,
         Store!AppendPair, Proved!AppendPair, Store!Inserted, Proved!Inserted,
         Store!Kept, Proved!Kept, Store!PeerRows, Proved!PeerRows,
         Store!Newest, Proved!Newest, Store!Oldest, Proved!Oldest,
         Store!Cardinality, Proved!Cardinality, Store!IsFiniteSet, Proved!IsFiniteSet,
         Store!EnsureOwnerPeer, Proved!EnsureOwnerPeer, Store!OwnerBound, Proved!OwnerBound,
         Store!FetchLongSummaryBatch, Proved!FetchLongSummaryBatch,
         Store!Batch, Proved!Batch, Store!Candidates, Proved!Candidates,
         Store!UpdateLongSummary, Proved!UpdateLongSummary,
         Store!CompactionFails, Proved!CompactionFails, Store!Reopen, Proved!Reopen,
         Store!NoSession, Proved!NoSession, Store!NoJob, Proved!NoJob
<1>2. Store!storeVars = Proved!storeVars
  BY DEF Store!storeVars, Proved!storeVars
<1>3. QED BY <1>1, <1>2 DEF Store!storeVars, Proved!storeVars

LEMMA SameType == Store!TypeOK <=> Proved!TypeOK
BY DEF Store!TypeOK, Proved!TypeOK, Store!PeerIds, Proved!PeerIds, Store!Row, Proved!Row,
       Store!Session, Proved!Session, Store!Job, Proved!Job, Store!PeerRows, Proved!PeerRows,
       Store!Cardinality, Proved!Cardinality, Store!IsFiniteSet, Proved!IsFiniteSet

LEMMA StoreAssumed == Proved!StoreAssumption
BY PipelineAssumption DEF Proved!StoreAssumption, Foldable

LEMMA StoreOfPipeline == Spec => []Proved!StoreInv
<1>1. Init => Proved!StoreInv
  BY SameInit, StoreAssumed, Proved!StoreInit DEF Init
<1>2. TurnInv /\ Proved!StoreInv /\ [Next]_vars => Proved!StoreInv'
  <2> SUFFICES ASSUME TurnInv, Proved!StoreInv, [Next]_vars PROVE Proved!StoreInv'
    OBVIOUS
  <2>1. [Proved!Next]_(Proved!storeVars)
    BY StepOfStore, SameStep
  <2>2. Proved!StoreAssumption /\ Proved!StoreInv /\ [Proved!Next]_(Proved!storeVars)
           => Proved!StoreInv'
    BY Proved!StoreStep
  <2>3. QED BY <2>1, <2>2, StoreAssumed
<1>3. QED BY <1>1, <1>2, TurnInvariant, PTL DEF Spec

\* The variables keep their types: the rounds counted, the appends on their way
\* and the table with its sessions and compactions.
THEOREM PipelineTypeCorrect == Spec => []TypeOK
<1>1. TurnInv /\ Proved!StoreInv => TypeOK
  BY SameType DEF TurnInv, LocalType, Letter, TypeOK, Proved!StoreInv
<1>2. QED BY <1>1, TurnInvariant, StoreOfPipeline, PTL

\* However turns and restarts interleave, the summaries the pipeline's own
\* compactions write leave no message on disk behind the cursor unsummarised.
THEOREM PipelineSummaryComplete == Spec => []Store!SummaryCoversCursor
<1>1. Proved!StoreInv => Store!SummaryCoversCursor
  BY DEF Proved!StoreInv, Proved!CoverInv, Proved!SummaryCoversCursor, Store!SummaryCoversCursor,
         Proved!PeerRows, Store!PeerRows
<1>2. QED BY <1>1, StoreOfPipeline, PTL

\* What a request sends verbatim is not in the summary it sends too, as long as
\* IMMEDIATE_CONTEXT_MSGS is no more than LLM_LONG_SUMMARY_KEEP_RECENT (by default
\* they are equal); the code does not relate the two settings.
THEOREM NothingSentTwice ==
    ASSUME Window <= KeepRecent PROVE Spec => []NotSentTwice
<1>1. ASSUME Proved!StoreInv PROVE NotSentTwice
  <2> SUFFICES ASSUME NEW p \in Peers, NEW r \in History(p) PROVE r.id \notin session[p].folded
    BY DEF NotSentTwice
  <2> DEFINE above == {s \in Proved!PeerRows(p) : s.id > r.id}
  <2>1. r \in Proved!PeerRows(p) /\ Cardinality(above) < Window
    BY DEF History, Store!Newest, Store!PeerRows, Proved!PeerRows,
           Store!Cardinality, Cardinality
  <2>2. IsFiniteSet(rows)
    BY <1>1 DEF Proved!StoreInv, Proved!TypeOK, Proved!IsFiniteSet, IsFiniteSet
  <2>3. Cardinality(above) \in Nat
    <3>1. above \subseteq rows
      BY DEF Proved!PeerRows
    <3>2. QED BY <2>2, <3>1, FS_Subset, FS_CardinalityType
  <2>4. Cardinality(above) < KeepRecent
    BY <2>1, <2>3, PipelineAssumption
  <2>5. r \in Proved!Newest(Proved!PeerRows(p), KeepRecent)
    BY <2>1, <2>4 DEF Proved!Newest, Proved!Cardinality, Cardinality
  <2>6. QED
    BY <1>1, <2>5 DEF Proved!StoreInv, Proved!RecentInv, Proved!SummaryStaysBehindRecent
<1>2. Proved!StoreInv => NotSentTwice
  BY <1>1
<1>3. QED BY <1>2, StoreOfPipeline, PTL

----------------------------------------------------------------------------
\* The log: the table, followed by the appends on their way to it

\* An append in the mailbox already has the id it will be given.
Pending == {[id |-> lastId + i, peer |-> mail[i].peer, msg |-> mail[i].msg] : i \in DOMAIN mail}

Log == rows \cup Pending

Top == lastId + Len(mail)

\* What a turn appends is the end of the log.
Block(t, ms) == {[id |-> Top + i, peer |-> turn[t].peer, msg |-> ms[i]] : i \in 1..Len(ms)}

\* Rows without a peer are those of an older version, until the owner is bound,
\* before which nothing is appended; then every row has a peer.
RowsInherited ==
    /\ \A r \in rows : r.peer = Unbound <=> owner = Unbound
    /\ owner = Unbound => mail = <<>>

LogTyped == TurnInv /\ Store!TypeOK /\ RowsInherited

\* Pruning takes the oldest messages of a peer; only a restart takes others.
Shrinks ==
    /\ Log' \subseteq Log
    /\ ~torn' => /\ ~torn
                 /\ \A r \in Log', s \in Log : s.peer = r.peer /\ s.id > r.id => s \in Log'
    /\ Keep = 0 /\ ~torn' => Log' = Log

\* Binding the owner changes the peer of all there is.
Inherits ==
    /\ torn' = torn
    /\ \A r \in Log : r.peer = Unbound
    /\ \E p \in Peers : Log' = {[r EXCEPT !.peer = p] : r \in Log}

LEMMA SameCounting ==
    /\ \A S : Store!Cardinality(S) = Cardinality(S)
    /\ \A S : Store!IsFiniteSet(S) <=> IsFiniteSet(S)
BY DEF Store!Cardinality, Cardinality, Store!IsFiniteSet, IsFiniteSet

LEMMA LogRecords ==
    ASSUME LogTyped, NEW r \in Log, NEW p
    PROVE  LET m == [r EXCEPT !.peer = p] IN m.id = r.id /\ m.msg = r.msg /\ m.peer = p
<1>1. CASE r \in rows
  BY <1>1 DEF LogTyped, Store!TypeOK, Store!Row
<1>2. CASE r \in Pending
  BY <1>2 DEF Pending
<1>3. QED BY <1>1, <1>2 DEF Log

LEMMA NewestUpward ==
    ASSUME NEW S, IsFiniteSet(S), \A x \in S : x.id \in Nat, NEW n \in Nat,
           NEW r \in Store!Newest(S, n), NEW s \in S, s.id > r.id
    PROVE  s \in Store!Newest(S, n)
<1> DEFINE above(x) == {y \in S : y.id > x.id}
<1>1. r \in S /\ Store!Cardinality(above(r)) < n
  BY DEF Store!Newest
<1>2. above(s) \subseteq above(r) /\ above(r) \subseteq S
  BY <1>1
<1>3. IsFiniteSet(above(r)) /\ IsFiniteSet(above(s))
  BY <1>2, FS_Subset
<1>4. Cardinality(above(s)) <= Cardinality(above(r))
  BY <1>2, <1>3, FS_Subset
<1>5. Cardinality(above(s)) \in Nat /\ Cardinality(above(r)) \in Nat
  BY <1>3, FS_CardinalityType
<1>6. Store!Cardinality(above(s)) < n
  <2> HIDE DEF above
  <2>1. QED BY <1>1, <1>4, <1>5, SameCounting
<1>7. QED BY <1>6 DEF Store!Newest

LEMMA KeptUpward ==
    ASSUME NEW S, IsFiniteSet(S), \A x \in S : x.id \in Nat,
           NEW r \in Store!Kept(S), NEW s \in S, s.id > r.id
    PROVE  s \in Store!Kept(S)
<1>1. CASE Keep = 0
  BY <1>1 DEF Store!Kept
<1>2. CASE Keep # 0
  BY <1>2, NewestUpward, PipelineAssumption DEF Store!Kept
<1>3. QED BY <1>1, <1>2

LEMMA LogShape ==
    ASSUME LogTyped
    PROVE  /\ lastId \in Nat /\ Len(mail) \in Nat /\ Top \in Nat /\ IsFiniteSet(rows)
           /\ DOMAIN mail = 1..Len(mail) /\ \A i \in 1..Len(mail) : mail[i] \in Letter
           /\ \A r \in rows : r.id \in Nat /\ r.id # 0 /\ r.id <= lastId
           /\ \A r \in Pending : r.id \in Nat /\ lastId < r.id /\ r.id <= Top
           /\ \A r \in Log : /\ r.id \in Nat /\ r.id # 0 /\ r.id <= Top
                             /\ r.msg \in Message /\ r.peer \in PeerIds
           /\ owner # Unbound => \A r \in Log : r.peer # Unbound
           /\ \A r, s \in Log : r.id = s.id => r = s
<1>1. lastId \in Nat /\ mail \in Seq(Letter) /\ IsFiniteSet(rows)
  BY SameCounting DEF LogTyped, Store!TypeOK, TurnInv, LocalType
<1>2. Len(mail) \in Nat /\ DOMAIN mail = 1..Len(mail) /\ \A i \in 1..Len(mail) : mail[i] \in Letter
  BY <1>1, LenProperties, ElementOfSeq
<1>3. Top \in Nat
  BY <1>1, <1>2 DEF Top
<1>4. ASSUME NEW r \in rows
      PROVE r.id \in Nat /\ r.id # 0 /\ r.id <= lastId /\ r.msg \in Message /\ r.peer \in PeerIds
  BY DEF LogTyped, Store!TypeOK, Store!Row, Store!PeerIds, PeerIds
<1>5. ASSUME NEW r \in Pending
      PROVE r.id \in Nat /\ lastId < r.id /\ r.id <= Top /\ r.msg \in Message /\ r.peer \in Peers
  <2>1. PICK i \in 1..Len(mail) : r = [id |-> lastId + i, peer |-> mail[i].peer, msg |-> mail[i].msg]
    BY <1>2 DEF Pending
  <2>2. mail[i] \in Letter
    BY <1>2
  <2>3. r.id = lastId + i /\ r.msg \in Message /\ r.peer \in Peers
    BY <2>1, <2>2 DEF Letter
  <2>4. QED BY <1>1, <1>2, <2>3 DEF Top
<1>6. ASSUME NEW r \in Log, NEW s \in Log, r.id = s.id PROVE r = s
  <2>1. CASE r \in rows /\ s \in rows
    BY <1>6, <2>1 DEF LogTyped, Store!TypeOK
  <2>2. CASE r \in Pending /\ s \in Pending
    <3>1. PICK i \in 1..Len(mail) : r = [id |-> lastId + i, peer |-> mail[i].peer, msg |-> mail[i].msg]
      BY <2>2, <1>2 DEF Pending
    <3>2. PICK j \in 1..Len(mail) : s = [id |-> lastId + j, peer |-> mail[j].peer, msg |-> mail[j].msg]
      BY <2>2, <1>2 DEF Pending
    <3>3. lastId + i = lastId + j
      BY <1>6, <3>1, <3>2
    <3>4. i = j
      BY <1>1, <1>2, <3>3
    <3>5. QED BY <3>1, <3>2, <3>4
  <2>3. CASE r \in rows /\ s \in Pending
    BY <1>1, <1>4, <1>5, <1>6, <2>3
  <2>4. CASE r \in Pending /\ s \in rows
    BY <1>1, <1>4, <1>5, <1>6, <2>4
  <2>5. QED BY <2>1, <2>2, <2>3, <2>4 DEF Log
<1>7. ASSUME NEW r \in Log PROVE /\ r.id \in Nat /\ r.id # 0 /\ r.id <= Top
                                 /\ r.msg \in Message /\ r.peer \in PeerIds
  <2>0. Peers \subseteq PeerIds
    BY DEF PeerIds
  <2>1. lastId <= Top
    BY <1>1, <1>2 DEF Top
  <2>2. CASE r \in rows
    BY <1>1, <1>3, <1>4, <2>1, <2>2
  <2>3. CASE r \in Pending
    BY <1>1, <1>3, <1>5, <2>0, <2>1, <2>3
  <2>4. QED BY <2>2, <2>3 DEF Log
<1>8. owner # Unbound => \A r \in Log : r.peer # Unbound
  BY <1>5, PipelineAssumption DEF Log, LogTyped, RowsInherited
<1>9. QED BY <1>1, <1>2, <1>3, <1>4, <1>5, <1>6, <1>7, <1>8

LEMMA LogGrows ==
    ASSUME LogTyped, NEW t \in Turns, turn[t].peer \in Peers, NEW ms \in Seq(Message),
           Mailed(t, ms), rows' = rows, lastId' = lastId
    PROVE  Log' = Log \cup Block(t, ms)
<1> DEFINE letter(i) == [id |-> lastId + i, peer |-> mail[i].peer, msg |-> mail[i].msg]
<1> DEFINE new(i) == [id |-> Top + i, peer |-> turn[t].peer, msg |-> ms[i]]
<1> DEFINE letter2(i) == [id |-> lastId + i, peer |-> mail'[i].peer, msg |-> mail'[i].msg]
<1>1. /\ mail' \in Seq(Letter) /\ Len(mail') = Len(mail) + Len(ms)
      /\ \A i \in 1..Len(mail) : mail'[i] = mail[i]
      /\ \A i \in 1..Len(ms) : mail'[Len(mail) + i] = [peer |-> turn[t].peer, msg |-> ms[i]]
  BY MailGrows DEF LogTyped, TurnInv, LocalType
<1>2. lastId \in Nat /\ Len(mail) \in Nat /\ Len(ms) \in Nat /\ DOMAIN mail = 1..Len(mail)
      /\ DOMAIN mail' = 1..Len(mail')
  BY <1>1, LogShape, LenProperties
<1>3. Pending = {letter(i) : i \in 1..Len(mail)}
  BY <1>2 DEF Pending
<1>4. Pending' = {letter2(i) : i \in 1..Len(mail')}
  BY <1>2 DEF Pending
<1>5. \A i \in 1..Len(mail) : letter2(i) = letter(i)
  BY <1>1
<1>6. ASSUME NEW i \in 1..Len(ms) PROVE letter2(Len(mail) + i) = new(i)
  <2>1. lastId + (Len(mail) + i) = Top + i
    BY <1>2 DEF Top
  <2>2. mail'[Len(mail) + i] = [peer |-> turn[t].peer, msg |-> ms[i]]
    BY <1>1
  <2>3. QED BY <2>1, <2>2
<1>7. Block(t, ms) = {new(i) : i \in 1..Len(ms)}
  BY DEF Block
<1> HIDE DEF letter, new, letter2
<1>8. Pending' = Pending \cup Block(t, ms)
  <2>1. ASSUME NEW i \in 1..Len(mail') PROVE letter2(i) \in Pending \cup Block(t, ms)
    <3>1. CASE i \in 1..Len(mail)
      BY <3>1, <1>3, <1>5
    <3>2. CASE i \notin 1..Len(mail)
      <4>1. i - Len(mail) \in 1..Len(ms) /\ Len(mail) + (i - Len(mail)) = i
        BY <3>2, <1>1, <1>2
      <4>2. letter2(i) = new(i - Len(mail))
        BY <4>1, <1>6
      <4>3. QED BY <4>1, <4>2, <1>7
    <3>3. QED BY <3>1, <3>2
  <2>2. ASSUME NEW i \in 1..Len(mail) PROVE letter(i) \in Pending'
    <3>1. i \in 1..Len(mail')
      BY <1>1, <1>2
    <3>2. QED BY <3>1, <1>4, <1>5
  <2>3. ASSUME NEW i \in 1..Len(ms) PROVE new(i) \in Pending'
    <3>1. Len(mail) + i \in 1..Len(mail')
      BY <1>1, <1>2
    <3>2. QED BY <3>1, <1>4, <1>6
  <2>4. Pending' \subseteq Pending \cup Block(t, ms)
    BY <2>1, <1>4
  <2>5. Pending \cup Block(t, ms) \subseteq Pending'
    BY <2>2, <2>3, <1>3, <1>7
  <2>6. QED BY <2>4, <2>5
<1>9. QED BY <1>8 DEF Log

\* The store moves the first append into the table: the log stays as it is,
\* except for what is pruned.
LEMMA StoreHandlesShrinks ==
    ASSUME LogTyped, StoreHandles
    PROVE  Shrinks /\ RowsInherited'
<1> DEFINE h == Head(mail)
<1> DEFINE P == Store!PeerRows(h.peer)
<1> DEFINE new == [id |-> lastId + 1, peer |-> h.peer, msg |-> h.msg]
<1> DEFINE X == P \cup {new}
<1> DEFINE letter(i) == [id |-> lastId + i, peer |-> mail[i].peer, msg |-> mail[i].msg]
<1> DEFINE letter2(i) == [id |-> lastId' + i, peer |-> mail'[i].peer, msg |-> mail'[i].msg]
<1>1. /\ lastId \in Nat /\ Len(mail) \in Nat /\ IsFiniteSet(rows)
      /\ DOMAIN mail = 1..Len(mail) /\ \A i \in 1..Len(mail) : mail[i] \in Letter
      /\ \A r \in rows : r.id \in Nat /\ r.id <= lastId
      /\ \A r \in Pending : r.id \in Nat /\ lastId < r.id
      /\ \A r \in Log : r.id \in Nat
      /\ owner # Unbound => \A r \in Log : r.peer # Unbound
      /\ \A r, s \in Log : r.id = s.id => r = s
  BY LogShape
<1>2. /\ mail' \in Seq(Letter) /\ Len(mail') = Len(mail) - 1 /\ h \in Letter
      /\ \A i \in 1..Len(mail') : mail'[i] = mail[i + 1]
  BY HeadTailProperties DEF StoreHandles, LogTyped, TurnInv, LocalType
<1>3. DOMAIN mail' = 1..Len(mail') /\ Len(mail') \in Nat
  BY <1>2, LenProperties
<1>4. Len(mail) >= 1 /\ h = mail[1]
  <2>1. Len(mail) # 0
    BY <1>1, <1>2, <1>3
  <2>2. QED BY <1>1, <2>1
<1>5. lastId' = lastId + 1 /\ rows' = (rows \ P) \cup Store!Kept(X) /\ torn' = torn
  <2> DEFINE ms == <<h.msg>>
  <2>1. Len(ms) = 1 /\ DOMAIN ms = {1} /\ ms[1] = h.msg
    OBVIOUS
  <2>2. Store!Inserted(h.peer, ms)
    BY DEF StoreHandles, Store!AppendMessage
  <2> HIDE DEF ms
  <2>3. lastId' = lastId + Len(ms)
        /\ rows' = (rows \ P) \cup Store!Kept(P \cup {[id |-> lastId + i, peer |-> h.peer,
                                                      msg |-> ms[i]] : i \in DOMAIN ms})
    BY <2>2 DEF Store!Inserted
  <2>4. {[id |-> lastId + i, peer |-> h.peer, msg |-> ms[i]] : i \in DOMAIN ms} = {new}
    BY <2>1
  <2>5. torn' = torn
    BY DEF StoreHandles
  <2>6. QED BY <2>1, <2>3, <2>4, <2>5
<1>6. Pending = {letter(i) : i \in 1..Len(mail)} /\ Pending' = {letter2(i) : i \in 1..Len(mail')}
  BY <1>1, <1>3 DEF Pending
<1>7. letter(1) = new
  BY <1>4
<1>8. ASSUME NEW i \in 1..Len(mail') PROVE letter2(i) = letter(i + 1)
  <2>1. lastId' + i = lastId + (i + 1)
    BY <1>1, <1>5
  <2>2. QED BY <2>1, <1>2
<1>p. \A r \in rows \ P : r.peer # h.peer
  BY DEF Store!PeerRows
<1>k. P \subseteq rows /\ \A r \in P : r.peer = h.peer
  BY DEF Store!PeerRows
<1>n. new.id = lastId + 1 /\ new.peer = h.peer /\ h.peer \in Peers
  BY <1>2 DEF Letter
<1> HIDE DEF letter, letter2, new, P, h
<1>9. Pending' \subseteq Pending /\ Pending \subseteq Pending' \cup {new}
  <2>1. ASSUME NEW i \in 1..Len(mail') PROVE letter2(i) \in Pending
    <3>1. i + 1 \in 1..Len(mail)
      BY <1>1, <1>2
    <3>2. QED BY <3>1, <1>6, <1>8
  <2>2. ASSUME NEW i \in 1..Len(mail) PROVE letter(i) \in Pending' \cup {new}
    <3>1. CASE i = 1
      BY <3>1, <1>7
    <3>2. CASE i # 1
      <4>1. i - 1 \in 1..Len(mail') /\ (i - 1) + 1 = i
        BY <3>2, <1>1, <1>2
      <4>2. letter2(i - 1) = letter(i)
        BY <4>1, <1>8
      <4>3. QED BY <4>1, <4>2, <1>6
    <3>3. QED BY <3>1, <3>2
  <2>3. QED BY <2>1, <2>2, <1>6
<1>10. new \in Pending
  BY <1>1, <1>4, <1>6, <1>7
<1>11. Store!Kept(X) \subseteq X
  BY DEF Store!Kept, Store!Newest
<1>12. IsFiniteSet(X) /\ \A x \in X : x.id \in Nat
  <2>1. IsFiniteSet(P)
    BY <1>1, <1>k, FS_Subset
  <2>2. IsFiniteSet(X)
    BY <2>1, FS_AddElement
  <2>3. QED BY <1>1, <1>k, <1>n, <2>2
<1>13. Log' \subseteq Log
  BY <1>5, <1>9, <1>10, <1>11, <1>k DEF Log
<1>14. ASSUME NEW r \in Log', NEW s \in Log, s.peer = r.peer, s.id > r.id PROVE s \in Log'
  <2>0. r.id \in Nat /\ s.id \in Nat
    BY <1>1, <1>13
  <2>1. CASE s \in Pending'
    BY <2>1 DEF Log
  <2>2. CASE s \in rows \ P
    BY <2>2, <1>5 DEF Log
  <2>3. CASE s \in X
    <3>1. s.peer = h.peer /\ s.id <= lastId + 1
      BY <1>1, <1>k, <1>n, <2>3
    <3>2. r.id <= lastId
      BY <2>0, <3>1, <1>1, <1>14
    <3>3. r \notin Pending'
      BY <1>1, <1>9, <2>0, <3>2
    <3>4. r \in Store!Kept(X)
      BY <3>3, <3>1, <1>14, <1>5, <1>p DEF Log
    <3>5. s \in Store!Kept(X)
      BY <3>4, <2>3, <1>12, <1>14, KeptUpward
    <3>6. QED BY <3>5, <1>5 DEF Log
  <2>4. QED BY <2>1, <2>2, <2>3, <1>9 DEF Log
<1>15. Keep = 0 => Log' = Log
  <2>1. Keep = 0 => rows' = rows \cup {new}
    BY <1>5, <1>k DEF Store!Kept
  <2>2. QED BY <2>1, <1>9, <1>10 DEF Log
<1>16. Shrinks
  BY <1>5, <1>13, <1>14, <1>15 DEF Shrinks
<1>17. RowsInherited'
  <2>1. rows' \subseteq Log
    BY <1>13 DEF Log
  <2>2. owner' = owner /\ owner # Unbound
    BY DEF StoreHandles, Store!AppendMessage, Store!Inserted, LogTyped, RowsInherited
  <2>3. QED BY <2>1, <2>2, <1>1 DEF RowsInherited
<1>18. QED BY <1>16, <1>17

LEMMA RestartShrinks ==
    ASSUME LogTyped, NEW clear \in BOOLEAN, Restart(clear)
    PROVE  Shrinks /\ RowsInherited'
<1>1. mail' = <<>> /\ DOMAIN <<>> = {}
  BY DEF Restart
<1>2. Pending' = {}
  BY <1>1 DEF Pending
<1>3. torn \in BOOLEAN /\ torn' = (torn \/ clear \/ mail # <<>>)
      /\ (clear = FALSE => rows' = rows) /\ (clear = TRUE => rows' = {})
  BY DEF Restart, Store!Reopen, LogTyped, TurnInv, LocalType
<1>4. rows' \subseteq rows
  BY <1>3
<1>5. ~torn' => ~torn /\ Log' = Log
  <2>1. mail = <<>> => Pending = {}
    BY <1>1 DEF Pending
  <2>2. ~torn' => ~torn /\ clear = FALSE /\ mail = <<>>
    BY <1>3
  <2>3. QED BY <1>2, <1>3, <2>1, <2>2 DEF Log
<1>6. Log' \subseteq Log
  BY <1>2, <1>4 DEF Log
<1>7. Shrinks
  BY <1>5, <1>6 DEF Shrinks
<1>8. RowsInherited'
  <2>1. owner' = owner
    BY DEF Restart, Store!Reopen
  <2>2. QED BY <1>1, <1>4, <2>1 DEF RowsInherited, LogTyped
<1>9. QED BY <1>7, <1>8

LEMMA LogStays ==
    ASSUME LogTyped, rows' = rows, lastId' = lastId, mail' = mail, torn' = torn, owner' = owner
    PROVE  Shrinks /\ RowsInherited'
BY DEF Shrinks, Log, Pending, RowsInherited, LogTyped

\* The first request of all gives every row a peer.
LEMMA OwnerInherits ==
    ASSUME LogTyped, NEW t \in Turns, LlmReads(t), owner = Unbound
    PROVE  Inherits /\ RowsInherited'
<1> DEFINE p == turn[t].peer
<1>1. p \in Peers /\ p # Unbound
  BY PipelineAssumption DEF LlmReads, LogTyped, TurnInv, LocalType
<1>2. mail = <<>> /\ mail' = mail /\ torn' = torn /\ \A r \in rows : r.peer = Unbound
  BY DEF LlmReads, LogTyped, RowsInherited
<1>3. owner' = p
      /\ rows' = {IF r.peer = Unbound THEN [r EXCEPT !.peer = p] ELSE r : r \in rows}
  BY DEF LlmReads, Store!EnsureOwnerPeer
<1> HIDE DEF p
<1>4. rows' = {[r EXCEPT !.peer = p] : r \in rows}
  BY <1>2, <1>3
<1>5. Log = rows /\ Log' = rows'
  <2>1. DOMAIN mail = {} /\ DOMAIN mail' = {}
    BY <1>2
  <2>2. QED BY <2>1 DEF Log, Pending
<1>6. Inherits
  BY <1>1, <1>2, <1>4, <1>5 DEF Inherits
<1>7. \A r \in rows : [r EXCEPT !.peer = p].peer = p
  BY DEF LogTyped, Store!TypeOK, Store!Row
<1>8. RowsInherited'
  BY <1>1, <1>3, <1>4, <1>7 DEF RowsInherited
<1>9. QED BY <1>6, <1>8

\* The steps of a turn that append nothing.
LEMMA WritesNothing ==
    ASSUME LogTyped, NEW t \in Turns,
           \/ \E p \in Peers, k \in Kinds : Receive(t, p, k)
           \/ Refuse(t) \/ RefreshSnapshots(t) \/ ReadContexts(t) \/ LlmReads(t) \/ LlmFails(t)
           \/ \E what \in {"plain", "sent", "described"} : ToolReturns(t, what)
           \/ BeginCompaction(t) \/ EndCompaction(t)
    PROVE  (Shrinks \/ Inherits) /\ RowsInherited'
<1>1. mail' = mail /\ torn' = torn
  BY DEF Receive, Refuse, RefreshSnapshots, ReadContexts, LlmReads, LlmFails, ToolReturns,
         BeginCompaction, EndCompaction
<1>2. CASE LlmReads(t) /\ owner = Unbound
  BY <1>2, OwnerInherits
<1>3. CASE LlmReads(t) /\ owner # Unbound
  <2>1. rows' = rows /\ lastId' = lastId /\ owner' = owner
    BY <1>3 DEF LlmReads, Store!EnsureOwnerPeer, Store!storeVars
  <2>2. QED BY <1>1, <2>1, LogStays
<1>4. CASE ~LlmReads(t)
  <2>1. rows' = rows /\ lastId' = lastId /\ owner' = owner
    BY <1>4 DEF Receive, Refuse, RefreshSnapshots, ReadContexts, LlmFails, ToolReturns,
                BeginCompaction, EndCompaction, storeVars, Store!FetchLongSummaryBatch,
                Store!UpdateLongSummary, Store!CompactionFails
  <2>2. QED BY <1>1, <2>1, LogStays
<1>5. QED BY <1>2, <1>3, <1>4

\* A turn writes to the log in two places, when the LLM has answered and when
\* its loop ends; everything else prunes it or gives it to the owner.
LEMMA LogStep ==
    ASSUME LogTyped, [Next]_vars
    PROVE  \/ (Shrinks \/ Inherits) /\ RowsInherited'
           \/ \E t \in Turns, calling \in BOOLEAN, content \in Contents : LlmAnswers(t, calling, content)
           \/ \E t \in Turns : Finish(t)
<1>1. CASE UNCHANGED vars
  BY <1>1, LogStays DEF vars, storeVars
<1>2. CASE StoreHandles
  BY <1>2, StoreHandlesShrinks
<1>3. ASSUME NEW clear \in BOOLEAN, Restart(clear) PROVE (Shrinks \/ Inherits) /\ RowsInherited'
  BY <1>3, RestartShrinks
<1>4. ASSUME NEW t \in Turns,
             \/ \E p \in Peers, k \in Kinds : Receive(t, p, k)
             \/ Refuse(t) \/ RefreshSnapshots(t) \/ ReadContexts(t) \/ LlmReads(t) \/ LlmFails(t)
             \/ \E what \in {"plain", "sent", "described"} : ToolReturns(t, what)
             \/ BeginCompaction(t) \/ EndCompaction(t)
      PROVE  (Shrinks \/ Inherits) /\ RowsInherited'
  BY <1>4, WritesNothing
<1>5. QED BY <1>1, <1>2, <1>3, <1>4 DEF Next, TurnStep

\* The two places in detail.
LEMMA AnswerWrites ==
    ASSUME LogTyped, NEW t \in Turns, NEW calling \in BOOLEAN, NEW content \in Contents,
           LlmAnswers(t, calling, content)
    PROVE  /\ Log \subseteq Log' /\ RowsInherited' /\ torn' = torn
           /\ \A r \in Log' : r \in Log \/ /\ r.id > Top /\ r.msg.turn = t
                                           /\ ~FollowUp(t) /\ ~Proactive(t)
                                           /\ \/ r.id = Top + 1 /\ r.msg.kind = "user"
                                              \/ r.id = Top + 2 /\ r.msg.kind = "text"
           /\ ~FollowUp(t) /\ ~Proactive(t) =>
                 /\ \E r \in Log' : r.msg = Msg(t, "user", 0)
                 /\ ~calling /\ content # "empty" => \E r \in Log' : r.msg = Msg(t, "text", 0)
           /\ calling => \A r \in Log' : r.msg.turn = t /\ r.msg.kind = "text" => r \in Log
<1> DEFINE ms == StoredByLlm(t, calling, content)
<1> DEFINE new(i) == [id |-> Top + i, peer |-> turn[t].peer, msg |-> ms[i]]
<1>1. turn[t].peer \in Peers /\ Top \in Nat
  BY LogShape DEF LlmAnswers, LogTyped, TurnInv, LocalType
<1>2. rows' = rows /\ lastId' = lastId /\ torn' = torn /\ Mailed(t, ms)
  BY DEF LlmAnswers, storeVars
<1>3. /\ ms \in Seq(Message) /\ Len(ms) \in 0..2
      /\ (FollowUp(t) \/ Proactive(t)) => ms = <<>>
      /\ ~(FollowUp(t) \/ Proactive(t)) =>
            /\ Len(ms) >= 1 /\ ms[1] = Msg(t, "user", 0)
            /\ Len(ms) = 2 => ms[2] = Msg(t, "text", 0)
            /\ ~calling /\ content # "empty" => Len(ms) = 2
            /\ calling => Len(ms) = 1
  BY StoredByLlmSeq
<1>o. owner # Unbound /\ owner' = owner
  BY DEF LlmAnswers, storeVars, LogTyped, TurnInv, OwnerReady
<1> HIDE DEF ms
<1>4. Log' = Log \cup Block(t, ms)
  BY <1>1, <1>2, <1>3, LogGrows
<1>5. Block(t, ms) = {new(i) : i \in 1..Len(ms)}
  BY DEF Block
<1>6. RowsInherited'
  BY <1>2, <1>o DEF LogTyped, RowsInherited
<1>7. ASSUME NEW i \in 1..Len(ms)
      PROVE  /\ ~FollowUp(t) /\ ~Proactive(t)
             /\ new(i).id = Top + i /\ new(i).msg = ms[i] /\ new(i) \in Log'
             /\ \/ i = 1 /\ ms[i] = Msg(t, "user", 0)
                \/ i = 2 /\ Len(ms) = 2 /\ ms[i] = Msg(t, "text", 0)
  <2>1. ms # <<>>
    BY <1>3, EmptySeq
  <2>2. i = 1 \/ (i = 2 /\ Len(ms) = 2)
    <3>1. \A m \in 0..2 : \A j \in 1..m : j = 1 \/ (j = 2 /\ m = 2)
      OBVIOUS
    <3>2. QED BY <3>1, <1>3
  <2>3. new(i) \in Log'
    BY <1>4, <1>5
  <2>4. QED BY <1>3, <2>1, <2>2, <2>3
<1> HIDE DEF new
<1>8. ASSUME NEW r \in Log', r \notin Log
      PROVE  /\ r.id > Top /\ r.msg.turn = t /\ ~FollowUp(t) /\ ~Proactive(t)
             /\ \/ r.id = Top + 1 /\ r.msg.kind = "user"
                \/ r.id = Top + 2 /\ r.msg.kind = "text" /\ Len(ms) = 2
  <2>1. PICK i \in 1..Len(ms) : r = new(i)
    BY <1>4, <1>5, <1>8
  <2>2. r.id = Top + i /\ r.msg = ms[i]
    BY <2>1, <1>7
  <2>3. ~FollowUp(t) /\ ~Proactive(t)
    BY <1>7
  <2>4. CASE i = 1 /\ ms[i] = Msg(t, "user", 0)
    BY <2>2, <2>3, <2>4, <1>1 DEF Msg
  <2>5. CASE i = 2 /\ Len(ms) = 2 /\ ms[i] = Msg(t, "text", 0)
    BY <2>2, <2>3, <2>5, <1>1 DEF Msg
  <2>6. QED BY <2>4, <2>5, <1>7
<1>9. ASSUME ~FollowUp(t), ~Proactive(t)
      PROVE  /\ \E r \in Log' : r.msg = Msg(t, "user", 0)
             /\ ~calling /\ content # "empty" => \E r \in Log' : r.msg = Msg(t, "text", 0)
  <2>1. 1 \in 1..Len(ms)
    BY <1>3, <1>9
  <2>2. new(1) \in Log' /\ new(1).msg = Msg(t, "user", 0)
    BY <2>1, <1>3, <1>7, <1>9
  <2>3. ASSUME ~calling, content # "empty" PROVE new(2) \in Log' /\ new(2).msg = Msg(t, "text", 0)
    <3>1. 2 \in 1..Len(ms) /\ ms[2] = Msg(t, "text", 0)
      BY <1>3, <1>9, <2>3
    <3>2. QED BY <3>1, <1>7
  <2>4. QED BY <2>2, <2>3
<1>10. ASSUME calling, NEW r \in Log', r.msg.turn = t, r.msg.kind = "text" PROVE r \in Log
  <2>1. SUFFICES ASSUME r \notin Log PROVE FALSE
    OBVIOUS
  <2>2. Len(ms) = 2 /\ ~FollowUp(t) /\ ~Proactive(t)
    BY <1>8, <1>10, <2>1
  <2>3. Len(ms) = 1
    BY <1>3, <1>10, <2>2
  <2>4. QED BY <2>2, <2>3
<1>11. QED BY <1>2, <1>4, <1>6, <1>8, <1>9, <1>10

LEMMA FinishWrites ==
    ASSUME LogTyped, NEW t \in Turns, Finish(t)
    PROVE  LET n == turn[t].calls
               p == turn[t].peer
               call == [id |-> Top + 1, peer |-> p, msg |-> Msg(t, "calls", n)]
               tool(i) == [id |-> Top + (i + 1), peer |-> p, msg |-> Msg(t, "tool", i)]
               end(i) == [id |-> Top + i, peer |-> p,
                          msg |-> Msg(t, IF turn[t].content = "empty" THEN "empty" ELSE "text", 0)]
           IN
           /\ Log \subseteq Log' /\ RowsInherited' /\ torn' = torn /\ n \in Nat
           /\ turn[t].round = n
           /\ n # 0 => Log' = Log \cup {call} \cup {tool(i) : i \in 1..n} \cup {end(n + 2)}
           /\ n = 0 /\ Proactive(t) /\ turn[t].content # "empty" /\ ~Dropped(t) =>
                 Log' = Log \cup {end(1)}
           /\ n = 0 /\ ~(Proactive(t) /\ turn[t].content # "empty" /\ ~Dropped(t)) => Log' = Log
<1> DEFINE n == turn[t].calls
<1> DEFINE p == turn[t].peer
<1> DEFINE ms == StoredByPipeline(t)
<1> DEFINE k == IF turn[t].content = "empty" THEN "empty" ELSE "text"
<1> DEFINE new(i) == [id |-> Top + i, peer |-> p, msg |-> ms[i]]
<1> DEFINE call == [id |-> Top + 1, peer |-> p, msg |-> Msg(t, "calls", n)]
<1> DEFINE tool(i) == [id |-> Top + (i + 1), peer |-> p, msg |-> Msg(t, "tool", i)]
<1> DEFINE end(i) == [id |-> Top + i, peer |-> p, msg |-> Msg(t, k, 0)]
<1>1. turn[t] \in Turn /\ RoundsOf(turn[t]) /\ turn[t].stage = "answered" /\ p \in Peers
      /\ Top \in Nat
  BY LogShape DEF Finish, LogTyped, TurnInv, LocalType, RoundsMatchCalls
<1>2. rows' = rows /\ lastId' = lastId /\ torn' = torn /\ Mailed(t, ms)
  BY DEF Finish, storeVars
<1>3. /\ ms \in Seq(Message)
      /\ n # 0 => ms = Chain(t) /\ n \in 1..MaxRounds
      /\ n = 0 /\ Proactive(t) /\ turn[t].content # "empty" /\ ~Dropped(t) =>
            Len(ms) = 1 /\ ms[1] = Msg(t, "text", 0)
      /\ n = 0 /\ ~(Proactive(t) /\ turn[t].content # "empty" /\ ~Dropped(t)) => ms = <<>>
  BY <1>1, StoredByPipelineSeq
<1>4. n \in Nat /\ turn[t].round = n
  BY <1>1, PipelineAssumption DEF Turn, RoundsOf
<1>o. owner # Unbound /\ owner' = owner
  BY DEF Finish, storeVars, LogTyped, TurnInv, OwnerReady
<1> HIDE DEF ms
<1>5. Log' = Log \cup {new(i) : i \in 1..Len(ms)}
  <2>1. Log' = Log \cup Block(t, ms)
    BY <1>1, <1>2, <1>3, LogGrows
  <2>2. QED BY <2>1 DEF Block
<1>6. RowsInherited'
  BY <1>2, <1>o DEF LogTyped, RowsInherited
<1>7. ASSUME n # 0
      PROVE  Log' = Log \cup {call} \cup {tool(i) : i \in 1..n} \cup {end(n + 2)}
  <2>1. /\ Len(ms) = n + 2
        /\ ms[1] = Msg(t, "calls", n)
        /\ \A i \in 1..n : ms[i + 1] = Msg(t, "tool", i)
        /\ ms[n + 2] = Msg(t, k, 0)
    BY <1>1, <1>3, <1>7, ChainSeq
  <2>2. new(1) = call /\ new(n + 2) = end(n + 2) /\ \A i \in 1..n : new(i + 1) = tool(i)
    BY <2>1
  <2> HIDE DEF new, call, tool, end
  <2>3. ASSUME NEW i \in 1..Len(ms)
        PROVE  new(i) \in {call} \cup {tool(j) : j \in 1..n} \cup {end(n + 2)}
    <3>1. CASE i = 1 \/ i = n + 2
      BY <3>1, <2>2
    <3>2. CASE ~(i = 1 \/ i = n + 2)
      <4>1. i - 1 \in 1..n /\ (i - 1) + 1 = i
        BY <3>2, <1>4, <2>1
      <4>2. QED BY <4>1, <2>2
    <3>3. QED BY <3>1, <3>2
  <2>4. 1 \in 1..Len(ms) /\ n + 2 \in 1..Len(ms) /\ \A j \in 1..n : j + 1 \in 1..Len(ms)
    BY <1>4, <2>1
  <2>5. {new(i) : i \in 1..Len(ms)} = {call} \cup {tool(i) : i \in 1..n} \cup {end(n + 2)}
    BY <2>2, <2>3, <2>4
  <2>6. QED BY <2>5, <1>5
<1>8. ASSUME n = 0, Proactive(t), turn[t].content # "empty", ~Dropped(t)
      PROVE  Log' = Log \cup {end(1)}
  <2>1. Len(ms) = 1 /\ ms[1] = Msg(t, k, 0)
    BY <1>3, <1>8
  <2>2. new(1) = end(1)
    BY <2>1
  <2> HIDE DEF new, end
  <2>3. {new(i) : i \in 1..Len(ms)} = {new(1)}
    BY <2>1
  <2>4. QED BY <2>2, <2>3, <1>5
<1>9. ASSUME n = 0, ~(Proactive(t) /\ turn[t].content # "empty" /\ ~Dropped(t))
      PROVE  Log' = Log
  <2>1. Len(ms) = 0
    BY <1>3, <1>9, EmptySeq
  <2>2. {new(i) : i \in 1..Len(ms)} = {}
    BY <2>1
  <2>3. QED BY <2>2, <1>5
<1>10. Log \subseteq Log'
  BY <1>5
<1>11. QED
  BY <1>2, <1>4, <1>6, <1>7, <1>8, <1>9, <1>10

----------------------------------------------------------------------------
\* Tool chains

\* A result stands as far behind its calls as its number says, and everything
\* between is of the same chain.
Adjacent ==
    \A r, s \in Log :
       r.msg.kind = "tool" /\ r.id - r.msg.n <= s.id /\ s.id < r.id =>
          /\ s.peer = r.peer /\ SameTurn(s, r)
          /\ s.id = r.id - r.msg.n => s.msg.kind = "calls"
          /\ s.id # r.id - r.msg.n => s.msg.kind = "tool"

\* Calls have all their results.
Complete ==
    \A c \in Log : c.msg.kind = "calls" =>
       \A i \in 1..c.msg.n :
          \E s \in Log : s.id = c.id + i /\ s.peer = c.peer /\ s.msg = Msg(c.msg.turn, "tool", i)

\* A result has lost its calls only together with all that is older.
Anchored ==
    \A r, s \in Log :
       r.msg.kind = "tool" /\ s.peer = r.peer /\ s.id < r.id - r.msg.n =>
          \E c \in Log : c.id = r.id - r.msg.n

ChainsWhole == ~torn => Adjacent /\ Complete /\ Anchored

LEMMA MessageNumber == \A m \in Message : /\ m.n \in Nat
                                          /\ m.kind \in {"calls", "tool"} => m.n >= 1
BY PipelineAssumption DEF Message

LEMMA ChainsShrink ==
    ASSUME LogTyped, ChainsWhole, Shrinks PROVE ChainsWhole'
<1> SUFFICES ASSUME ~torn' PROVE (Adjacent /\ Complete /\ Anchored)'
  BY DEF ChainsWhole
<1>1. /\ Log' \subseteq Log /\ Adjacent /\ Complete /\ Anchored
      /\ \A r \in Log', s \in Log : s.peer = r.peer /\ s.id > r.id => s \in Log'
  BY DEF Shrinks, ChainsWhole
<1>2. \A r \in Log : r.id \in Nat /\ r.msg \in Message
  BY LogShape
<1>3. \A r \in Log : r.msg.n \in Nat /\ (r.msg.kind \in {"calls", "tool"} => r.msg.n >= 1)
  BY <1>2, MessageNumber
<1>4. Adjacent'
  BY <1>1 DEF Adjacent, SameTurn
<1>5. Complete'
  <2> SUFFICES ASSUME NEW c \in Log', c.msg.kind = "calls", NEW i \in 1..c.msg.n
               PROVE  \E s \in Log' : s.id = c.id + i /\ s.peer = c.peer
                                      /\ s.msg = Msg(c.msg.turn, "tool", i)
    BY DEF Complete
  <2>1. PICK s \in Log : s.id = c.id + i /\ s.peer = c.peer /\ s.msg = Msg(c.msg.turn, "tool", i)
    BY <1>1 DEF Complete
  <2>2. s.id > c.id
    BY <1>1, <1>2, <1>3, <2>1
  <2>3. s \in Log'
    BY <1>1, <2>1, <2>2
  <2>4. QED BY <2>1, <2>3
<1>6. Anchored'
  <2> SUFFICES ASSUME NEW r \in Log', NEW s \in Log', r.msg.kind = "tool", s.peer = r.peer,
                      s.id < r.id - r.msg.n
               PROVE  \E c \in Log' : c.id = r.id - r.msg.n
    BY DEF Anchored
  <2>1. PICK c \in Log : c.id = r.id - r.msg.n
    BY <1>1 DEF Anchored
  <2>2. r.id - r.msg.n <= c.id /\ c.id < r.id /\ c.id > s.id
    BY <1>1, <1>2, <1>3, <2>1
  <2>3. c.peer = r.peer
    BY <1>1, <2>2 DEF Adjacent
  <2>4. c \in Log'
    BY <1>1, <2>2, <2>3
  <2>5. QED BY <2>1, <2>4
<1>7. QED BY <1>4, <1>5, <1>6

\* Nor does a new peer for all of it.
LEMMA ChainsInherit ==
    ASSUME LogTyped, ChainsWhole, Inherits PROVE ChainsWhole'
<1> SUFFICES ASSUME ~torn PROVE (Adjacent /\ Complete /\ Anchored)'
  BY DEF ChainsWhole, Inherits
<1>1. Adjacent /\ Complete /\ Anchored /\ \A r \in Log : r.peer = Unbound
  BY DEF ChainsWhole, Inherits
<1>2. PICK p \in Peers : Log' = {[r EXCEPT !.peer = p] : r \in Log}
  BY DEF Inherits
<1> DEFINE moved(r) == [r EXCEPT !.peer = p]
<1>3. \A r \in Log : moved(r).id = r.id /\ moved(r).msg = r.msg /\ moved(r).peer = p
  BY LogRecords
<1>4. Log' = {moved(r) : r \in Log}
  BY <1>2
<1> HIDE DEF moved
<1>5. \A r \in Log' : r.peer = p /\ \E s \in Log : s.id = r.id /\ s.msg = r.msg /\ s.peer = Unbound
  BY <1>1, <1>3, <1>4
<1>6. \A s \in Log : \E r \in Log' : r.id = s.id /\ r.msg = s.msg
  BY <1>3, <1>4
<1>7. Adjacent'
  BY <1>1, <1>5 DEF Adjacent, SameTurn
<1>8. Complete'
  <2> SUFFICES ASSUME NEW c \in Log', c.msg.kind = "calls", NEW i \in 1..c.msg.n
               PROVE  \E s \in Log' : s.id = c.id + i /\ s.peer = c.peer
                                      /\ s.msg = Msg(c.msg.turn, "tool", i)
    BY DEF Complete
  <2>1. PICK d \in Log : d.id = c.id /\ d.msg = c.msg
    BY <1>5
  <2>2. PICK s \in Log : s.id = d.id + i /\ s.msg = Msg(d.msg.turn, "tool", i)
    BY <1>1, <2>1 DEF Complete
  <2>3. PICK u \in Log' : u.id = s.id /\ u.msg = s.msg
    BY <1>6
  <2>4. QED BY <1>5, <2>1, <2>2, <2>3
<1>9. Anchored'
  BY <1>1, <1>5, <1>6 DEF Anchored
<1>10. QED BY <1>7, <1>8, <1>9

\* Words at the end of the log disturb no chain.
LEMMA ChainsWithWords ==
    ASSUME LogTyped, ChainsWhole, Log \subseteq Log', torn' = torn,
           \A r \in Log' : \/ r \in Log
                           \/ r.id \in Nat /\ r.id > Top /\ r.msg.kind \notin {"calls", "tool"}
    PROVE  ChainsWhole'
<1> SUFFICES ASSUME ~torn PROVE (Adjacent /\ Complete /\ Anchored)'
  BY DEF ChainsWhole
<1>1. Adjacent /\ Complete /\ Anchored
  BY DEF ChainsWhole
<1>2. Top \in Nat /\ \A r \in Log : r.id \in Nat /\ r.id <= Top /\ r.msg \in Message
  BY LogShape
<1>3. \A r \in Log : r.msg.n \in Nat /\ (r.msg.kind \in {"calls", "tool"} => r.msg.n >= 1)
  BY <1>2, MessageNumber
<1>4. \A r \in Log' : r.msg.kind \in {"calls", "tool"} => r \in Log
  OBVIOUS
<1>5. ASSUME NEW r \in Log, NEW s \in Log', s.id < r.id PROVE s \in Log
  BY <1>2, <1>5
<1>6. Adjacent'
  <2> SUFFICES ASSUME NEW r \in Log', NEW s \in Log', r.msg.kind = "tool",
                      r.id - r.msg.n <= s.id, s.id < r.id
               PROVE  /\ s.peer = r.peer /\ SameTurn(s, r)
                      /\ s.id = r.id - r.msg.n => s.msg.kind = "calls"
                      /\ s.id # r.id - r.msg.n => s.msg.kind = "tool"
    BY DEF Adjacent
  <2>1. r \in Log /\ s \in Log
    BY <1>4, <1>5
  <2>2. QED BY <1>1, <2>1 DEF Adjacent
<1>7. Complete'
  BY <1>1, <1>4 DEF Complete
<1>8. Anchored'
  <2> SUFFICES ASSUME NEW r \in Log', NEW s \in Log', r.msg.kind = "tool", s.peer = r.peer,
                      s.id < r.id - r.msg.n
               PROVE  \E c \in Log' : c.id = r.id - r.msg.n
    BY DEF Anchored
  <2>1. r \in Log
    BY <1>4
  <2>2. s \in Log
    <3>1. CASE s \notin Log
      <4>1. s.id \in Nat /\ s.id > Top
        BY <3>1
      <4>2. QED BY <4>1, <1>2, <1>3, <2>1
    <3>2. QED BY <3>1
  <2>3. QED BY <1>1, <2>1, <2>2 DEF Anchored
<1>9. QED BY <1>6, <1>7, <1>8

\* A chain is written as a whole, at the end of the log.
LEMMA ChainsWithChain ==
    ASSUME LogTyped, ChainsWhole, torn' = torn, NEW t, NEW p, NEW n \in Nat, NEW k, k \notin {"calls", "tool"},
           Log' = Log \cup {[id |-> Top + 1, peer |-> p, msg |-> Msg(t, "calls", n)]}
                      \cup {[id |-> Top + (i + 1), peer |-> p, msg |-> Msg(t, "tool", i)] : i \in 1..n}
                      \cup {[id |-> Top + (n + 2), peer |-> p, msg |-> Msg(t, k, 0)]}
    PROVE  ChainsWhole'
<1> DEFINE call == [id |-> Top + 1, peer |-> p, msg |-> Msg(t, "calls", n)]
<1> DEFINE tool(i) == [id |-> Top + (i + 1), peer |-> p, msg |-> Msg(t, "tool", i)]
<1> DEFINE end == [id |-> Top + (n + 2), peer |-> p, msg |-> Msg(t, k, 0)]
<1> SUFFICES ASSUME ~torn PROVE (Adjacent /\ Complete /\ Anchored)'
  BY DEF ChainsWhole
<1>1. Adjacent /\ Complete /\ Anchored
  BY DEF ChainsWhole
<1>2. Top \in Nat /\ \A r \in Log : r.id \in Nat /\ r.id <= Top /\ r.msg \in Message
  BY LogShape
<1>3. \A r \in Log : r.msg.n \in Nat /\ (r.msg.kind \in {"calls", "tool"} => r.msg.n >= 1)
  BY <1>2, MessageNumber
<1>4. /\ call.id = Top + 1 /\ call.peer = p /\ call.msg.kind = "calls" /\ call.msg.turn = t
      /\ call.msg.n = n
      /\ end.id = Top + (n + 2) /\ end.peer = p /\ end.msg.kind \notin {"calls", "tool"}
      /\ \A i \in 1..n : /\ tool(i).id = Top + (i + 1) /\ tool(i).peer = p
                         /\ tool(i).msg.kind = "tool" /\ tool(i).msg.turn = t /\ tool(i).msg.n = i
                         /\ tool(i).msg = Msg(t, "tool", i)
  BY DEF Msg
<1>5. Log' = Log \cup {call} \cup {tool(i) : i \in 1..n} \cup {end}
  OBVIOUS
<1> HIDE DEF call, tool, end
<1>6. ASSUME NEW r \in Log' PROVE r \in Log \/ r = call \/ r = end \/ \E i \in 1..n : r = tool(i)
  BY <1>5
<1>7. call \in Log' /\ (\A i \in 1..n : tool(i) \in Log') /\ Log \subseteq Log'
  BY <1>5
<1>8. ASSUME NEW r \in Log' PROVE r.id \in Nat /\ (r \notin Log => r.id > Top)
  BY <1>2, <1>4, <1>6
<1>9. ASSUME NEW r \in Log, NEW s \in Log', s.id < r.id PROVE s \in Log
  BY <1>2, <1>8, <1>9
<1>10. ASSUME NEW r \in Log', r.msg.kind = "tool", r \notin Log
       PROVE  /\ r.id - r.msg.n = Top + 1 /\ r.peer = p /\ r.msg.turn = t
              /\ \A s \in Log' : Top + 1 <= s.id /\ s.id < r.id =>
                    s = call \/ \E i \in 1..n : s = tool(i)
  <2>1. PICK i \in 1..n : r = tool(i)
    BY <1>4, <1>6, <1>10
  <2>2. r.id = Top + (i + 1) /\ r.msg.n = i /\ r.peer = p /\ r.msg.turn = t
    BY <1>4, <2>1
  <2>3. r.id - r.msg.n = Top + 1
    BY <1>2, <2>2
  <2>4. ASSUME NEW s \in Log', Top + 1 <= s.id, s.id < r.id
        PROVE  s = call \/ \E j \in 1..n : s = tool(j)
    <3>1. s \notin Log
      BY <1>2, <2>4
    <3>2. s # end
      BY <1>2, <1>4, <2>2, <2>4
    <3>3. QED BY <3>1, <3>2, <1>6
  <2>5. QED BY <2>2, <2>3, <2>4
<1>11. Adjacent'
  <2> DEFINE Near(r, s) == /\ s.peer = r.peer /\ SameTurn(s, r)
                           /\ s.id = r.id - r.msg.n => s.msg.kind = "calls"
                           /\ s.id # r.id - r.msg.n => s.msg.kind = "tool"
  <2> SUFFICES ASSUME NEW r \in Log', NEW s \in Log', r.msg.kind = "tool",
                      r.id - r.msg.n <= s.id, s.id < r.id
               PROVE  Near(r, s)
    BY DEF Adjacent
  <2>1. CASE r \in Log
    <3>1. s \in Log
      BY <1>9, <2>1
    <3>2. QED BY <1>1, <2>1, <3>1 DEF Adjacent
  <2>2. CASE r \notin Log
    <3>1. r.id - r.msg.n = Top + 1 /\ r.peer = p /\ r.msg.turn = t
          /\ (s = call \/ \E i \in 1..n : s = tool(i))
      BY <1>10, <2>2
    <3>2. CASE s = call
      BY <1>4, <3>1, <3>2 DEF SameTurn
    <3>3. CASE \E i \in 1..n : s = tool(i)
      <4>1. PICK i \in 1..n : s = tool(i)
        BY <3>3
      <4>2. s.id = Top + (i + 1) /\ s.peer = p /\ s.msg.kind = "tool" /\ s.msg.turn = t
        BY <1>4, <4>1
      <4>3. s.id # Top + 1
        BY <1>2, <4>2
      <4>4. QED BY <3>1, <4>2, <4>3 DEF SameTurn
    <3>4. QED BY <3>1, <3>2, <3>3
  <2>3. QED BY <2>1, <2>2
<1>12. Complete'
  <2> SUFFICES ASSUME NEW c \in Log', c.msg.kind = "calls", NEW i \in 1..c.msg.n
               PROVE  \E s \in Log' : s.id = c.id + i /\ s.peer = c.peer
                                      /\ s.msg = Msg(c.msg.turn, "tool", i)
    BY DEF Complete
  <2>1. CASE c \in Log
    BY <1>1, <1>7, <2>1 DEF Complete
  <2>2. CASE c \notin Log
    <3>1. c = call
      BY <1>4, <1>6, <2>2
    <3>2. i \in 1..n
      BY <1>4, <3>1
    <3>3. tool(i) \in Log' /\ tool(i).id = Top + (i + 1) /\ tool(i).peer = p
          /\ tool(i).msg = Msg(t, "tool", i)
      BY <1>4, <1>7, <3>2
    <3>4. Top + (i + 1) = c.id + i
      BY <1>2, <1>4, <3>1, <3>2
    <3>5. QED BY <1>4, <3>1, <3>3, <3>4
  <2>3. QED BY <2>1, <2>2
<1>13. Anchored'
  <2> SUFFICES ASSUME NEW r \in Log', NEW s \in Log', r.msg.kind = "tool", s.peer = r.peer,
                      s.id < r.id - r.msg.n
               PROVE  \E c \in Log' : c.id = r.id - r.msg.n
    BY DEF Anchored
  <2>1. CASE r \in Log
    <3>1. s.id < r.id
      BY <1>2, <1>3, <1>8, <2>1
    <3>2. s \in Log
      BY <1>9, <2>1, <3>1
    <3>3. QED BY <1>1, <1>7, <2>1, <3>2 DEF Anchored
  <2>2. CASE r \notin Log
    BY <1>4, <1>7, <1>10, <2>2
  <2>3. QED BY <2>1, <2>2
<1>14. QED BY <1>11, <1>12, <1>13

LEMMA ChainsStep ==
    ASSUME LogTyped, ChainsWhole, [Next]_vars PROVE ChainsWhole'
<1>1. CASE Shrinks \/ Inherits
  BY <1>1, ChainsShrink, ChainsInherit
<1>2. ASSUME NEW t \in Turns, NEW calling \in BOOLEAN, NEW content \in Contents,
             LlmAnswers(t, calling, content)
      PROVE  ChainsWhole'
  <2>1. /\ Log \subseteq Log' /\ torn' = torn
        /\ \A r \in Log' : r \in Log \/ /\ r.id > Top
                                        /\ \/ r.id = Top + 1 /\ r.msg.kind = "user"
                                           \/ r.id = Top + 2 /\ r.msg.kind = "text"
    BY <1>2, AnswerWrites
  <2>2. Top \in Nat
    BY LogShape
  <2>3. \A r \in Log' : \/ r \in Log
                        \/ r.id \in Nat /\ r.id > Top /\ r.msg.kind \notin {"calls", "tool"}
    BY <2>1, <2>2
  <2>4. QED BY <2>1, <2>3, ChainsWithWords
<1>3. ASSUME NEW t \in Turns, Finish(t) PROVE ChainsWhole'
  <2> DEFINE n == turn[t].calls
  <2> DEFINE p == turn[t].peer
  <2> DEFINE k == IF turn[t].content = "empty" THEN "empty" ELSE "text"
  <2>1. Top \in Nat /\ k \notin {"calls", "tool"} /\ k \in {"empty", "text"}
    BY LogShape
  <2>2. /\ Log \subseteq Log' /\ torn' = torn /\ n \in Nat
        /\ n # 0 => Log' = Log \cup {[id |-> Top + 1, peer |-> p, msg |-> Msg(t, "calls", n)]}
              \cup {[id |-> Top + (i + 1), peer |-> p, msg |-> Msg(t, "tool", i)] : i \in 1..n}
              \cup {[id |-> Top + (n + 2), peer |-> p, msg |-> Msg(t, k, 0)]}
        /\ n = 0 => \/ Log' = Log
                    \/ Log' = Log \cup {[id |-> Top + 1, peer |-> p, msg |-> Msg(t, k, 0)]}
    BY <1>3, FinishWrites
  <2> HIDE DEF n, p, k
  <2>3. CASE n # 0
    BY <2>1, <2>2, <2>3, ChainsWithChain
  <2>4. CASE n = 0
    <3>1. \A r \in Log' : \/ r \in Log
                          \/ r.id \in Nat /\ r.id > Top /\ r.msg.kind \notin {"calls", "tool"}
      BY <2>1, <2>2, <2>4 DEF Msg
    <3>2. QED BY <2>2, <3>1, ChainsWithWords
  <2>5. QED BY <2>3, <2>4
<1>4. QED BY <1>1, <1>2, <1>3, LogStep

\* What a window of whole chains lets through is what the chat API accepts.
LEMMA WholeChainsSuffice ==
    LogTyped /\ ChainsWhole => RequestsWellFormed
<1> SUFFICES ASSUME LogTyped, ChainsWhole, mail = <<>>, ~torn, NEW p \in Peers, NEW r \in History(p)
             PROVE  /\ r.msg.kind = "tool" =>
                         \E c \in History(p) :
                            /\ c.msg.kind = "calls" /\ SameTurn(r, c) /\ c.id < r.id
                            /\ \A s \in History(p) :
                                  c.id < s.id /\ s.id < r.id =>
                                     s.msg.kind = "tool" /\ SameTurn(s, r)
                    /\ r.msg.kind = "calls" =>
                         \A i \in 1..r.msg.n :
                            \E s \in History(p) : s.msg = Msg(r.msg.turn, "tool", i)
  BY DEF RequestsWellFormed
<1> DEFINE recent == Store!Newest(Store!PeerRows(p), Window)
<1>1. Adjacent /\ Complete /\ Anchored
  BY DEF ChainsWhole
<1>2. Log = rows
  <2>1. DOMAIN mail = {}
    OBVIOUS
  <2>2. QED BY <2>1 DEF Log, Pending
<1>3. /\ IsFiniteSet(rows) /\ \A s \in rows : s.id \in Nat /\ s.msg \in Message
      /\ \A s, u \in rows : s.id = u.id => s = u
  BY <1>2, LogShape
<1>4. \A s \in rows : s.msg.n \in Nat /\ (s.msg.kind \in {"calls", "tool"} => s.msg.n >= 1)
  BY <1>3, MessageNumber
<1>5. \A s : s \in recent => s \in rows /\ s.peer = p
  BY DEF Store!Newest, Store!PeerRows
<1>6. ASSUME NEW s \in recent, NEW u \in rows, u.peer = p, u.id > s.id PROVE u \in recent
  <2>1. u \in Store!PeerRows(p)
    BY <1>6 DEF Store!PeerRows
  <2>2. IsFiniteSet(Store!PeerRows(p)) /\ \A x \in Store!PeerRows(p) : x.id \in Nat
    BY <1>3, FS_Subset DEF Store!PeerRows
  <2>3. Window \in Nat
    BY PipelineAssumption
  <2>4. QED BY <1>6, <2>1, <2>2, <2>3, NewestUpward
<1>7. \A s : s \in History(p) <=>
             /\ s \in recent
             /\ s.msg.kind = "tool" => \E c \in recent : c.msg.kind = "calls" /\ c.id < s.id
  BY DEF History
<1> HIDE DEF recent
<1>8. ASSUME r.msg.kind = "tool"
      PROVE  \E c \in History(p) :
                /\ c.msg.kind = "calls" /\ SameTurn(r, c) /\ c.id < r.id
                /\ \A s \in History(p) :
                      c.id < s.id /\ s.id < r.id => s.msg.kind = "tool" /\ SameTurn(s, r)
  <2>1. r \in recent /\ r \in rows /\ r.peer = p
    BY <1>5, <1>7
  <2>2. PICK d \in recent : d.msg.kind = "calls" /\ d.id < r.id
    BY <1>7, <1>8
  <2>3. d \in rows /\ d.peer = p /\ d.id \in Nat /\ r.id \in Nat /\ r.msg.n \in Nat /\ r.msg.n >= 1
    BY <1>3, <1>4, <1>5, <1>8, <2>1, <2>2
  <2>4. \E c \in recent : c.id = r.id - r.msg.n /\ c.msg.kind = "calls"
    <3>1. CASE d.id >= r.id - r.msg.n
      <4>1. d.id = r.id - r.msg.n
        BY <1>1, <1>2, <1>8, <2>1, <2>2, <2>3, <3>1 DEF Adjacent
      <4>2. QED BY <2>2, <4>1
    <3>2. CASE d.id < r.id - r.msg.n
      <4>1. PICK c \in rows : c.id = r.id - r.msg.n
        BY <1>1, <1>2, <1>8, <2>1, <2>3, <3>2 DEF Anchored
      <4>2. r.id - r.msg.n <= c.id /\ c.id < r.id /\ c.id > d.id
        BY <2>3, <3>2, <4>1
      <4>3. c.peer = p /\ c.msg.kind = "calls"
        BY <1>1, <1>2, <1>8, <2>1, <4>1, <4>2 DEF Adjacent
      <4>4. c \in recent
        BY <1>6, <4>2, <4>3
      <4>5. QED BY <4>1, <4>3, <4>4
    <3>3. QED BY <2>3, <3>1, <3>2
  <2>5. PICK c \in recent : c.id = r.id - r.msg.n /\ c.msg.kind = "calls"
    BY <2>4
  <2>6. c \in History(p) /\ c \in rows
    BY <1>5, <1>7, <2>5
  <2>7. c.id < r.id /\ r.id - r.msg.n <= c.id
    BY <2>3, <2>5
  <2>8. SameTurn(r, c)
    BY <1>1, <1>2, <1>8, <2>1, <2>6, <2>7 DEF Adjacent, SameTurn
  <2>9. ASSUME NEW s \in History(p), c.id < s.id, s.id < r.id
        PROVE  s.msg.kind = "tool" /\ SameTurn(s, r)
    <3>1. s \in rows /\ s.id \in Nat
      BY <1>3, <1>5, <1>7
    <3>2. r.id - r.msg.n <= s.id /\ s.id # r.id - r.msg.n
      BY <2>3, <2>5, <2>9, <3>1
    <3>3. QED BY <1>1, <1>2, <1>8, <2>1, <2>9, <3>1, <3>2 DEF Adjacent
  <2>10. QED BY <2>5, <2>6, <2>7, <2>8, <2>9
<1>9. ASSUME r.msg.kind = "calls", NEW i \in 1..r.msg.n
      PROVE  \E s \in History(p) : s.msg = Msg(r.msg.turn, "tool", i)
  <2>1. r \in recent /\ r \in rows /\ r.peer = p /\ r.id \in Nat /\ r.msg.n \in Nat
    BY <1>3, <1>4, <1>5, <1>7
  <2>2. PICK s \in rows : s.id = r.id + i /\ s.peer = r.peer /\ s.msg = Msg(r.msg.turn, "tool", i)
    BY <1>1, <1>2, <1>9, <2>1 DEF Complete
  <2>3. s.id > r.id
    BY <2>1, <2>2
  <2>4. s \in recent
    BY <1>6, <2>1, <2>2, <2>3
  <2>5. s \in History(p)
    BY <1>7, <1>9, <2>1, <2>3, <2>4
  <2>6. QED BY <2>2, <2>5
<1>10. QED BY <1>8, <1>9

LEMMA LogTypedStep ==
    ASSUME LogTyped, Store!TypeOK', [Next]_vars PROVE LogTyped'
<1>1. TurnInv'
  BY TurnInvStep DEF LogTyped
<1>2. RowsInherited'
  BY LogStep, AnswerWrites, FinishWrites
<1>3. QED BY <1>1, <1>2 DEF LogTyped

\* What an older version has left has no peer.
LEMMA LeftRows ==
    Init => /\ owner = Unbound /\ mail = <<>> /\ torn = ~WholeChains
            /\ \A r \in rows : r.peer = Unbound /\ r.msg.turn \in Earlier
<1> SUFFICES ASSUME Init
             PROVE  /\ owner = Unbound /\ mail = <<>> /\ torn = ~WholeChains
                    /\ \A r \in rows : r.peer = Unbound /\ r.msg.turn \in Earlier
  OBVIOUS
<1>1. owner = Unbound /\ mail = <<>> /\ torn = ~WholeChains
  BY DEF Init, Store!Init
<1>2. PICK h \in Left : rows = {[id |-> i, peer |-> Unbound, msg |-> h[i]] : i \in DOMAIN h}
  BY DEF Init
<1>3. \A i \in DOMAIN h : h[i].turn \in Earlier
  BY LeftAssumption
<1>4. \A r \in rows : r.peer = Unbound /\ r.msg.turn \in Earlier
  BY <1>2, <1>3
<1>5. QED BY <1>1, <1>4

LEMMA LogTypedInit == Init => LogTyped
<1>1. Init => Store!TypeOK
  BY SameInit, StoreAssumed, SameType, Proved!StoreInit DEF Init, Proved!StoreInv
<1>2. Init => RowsInherited
  BY LeftRows DEF RowsInherited
<1>3. QED BY <1>1, <1>2, InitTurnInv DEF LogTyped

LEMMA LogTypedInvariant == Spec => []LogTyped
<1>1. Proved!StoreInv => Store!TypeOK
  BY SameType DEF Proved!StoreInv
<1>2. LogTyped /\ Store!TypeOK' /\ [Next]_vars => LogTyped'
  BY LogTypedStep
<1>3. Spec => []Store!TypeOK
  BY <1>1, StoreOfPipeline, PTL
<1>4. QED BY <1>2, <1>3, LogTypedInit, PTL DEF Spec

\* Chains of an older version, too, if it has not lost a part of one.
LEMMA ChainsInit == Init => ChainsWhole
<1> SUFFICES ASSUME Init, ~torn PROVE Adjacent /\ Complete /\ Anchored
  BY DEF ChainsWhole
<1>1. WholeChains /\ mail = <<>> /\ \A r \in rows : r.peer = Unbound
  BY LeftRows
<1>2. Log = rows
  <2>1. DOMAIN mail = {}
    BY <1>1
  <2>2. QED BY <2>1 DEF Log, Pending
<1>3. /\ \A r \in rows : r.id \in Nat /\ r.msg \in Message
      /\ \A r, s \in rows : r.id = s.id => r = s
  BY <1>2, LogTypedInit, LogShape
<1>4. \A r \in rows : r.msg.n \in Nat /\ (r.msg.kind \in {"calls", "tool"} => r.msg.n >= 1)
  BY <1>3, MessageNumber
<1>5. Complete
  BY <1>1, <1>2 DEF Complete, WholeChains
<1>6. Anchored
  BY <1>1, <1>2 DEF Anchored, WholeChains
<1>7. Adjacent
  <2> SUFFICES ASSUME NEW r \in rows, NEW s \in rows, r.msg.kind = "tool",
                      r.id - r.msg.n <= s.id, s.id < r.id
               PROVE  /\ s.peer = r.peer /\ SameTurn(s, r)
                      /\ s.id = r.id - r.msg.n => s.msg.kind = "calls"
                      /\ s.id # r.id - r.msg.n => s.msg.kind = "tool"
    BY <1>2 DEF Adjacent
  <2>1. PICK c \in rows : /\ c.id = r.id - r.msg.n /\ c.msg.turn = r.msg.turn
                          /\ c.msg.kind = "calls" /\ c.msg.n >= r.msg.n
    BY <1>1 DEF WholeChains
  <2>2. CASE s.id = c.id
    BY <1>1, <1>3, <2>1, <2>2 DEF SameTurn
  <2>3. CASE s.id # c.id
    <3> DEFINE i == s.id - c.id
    <3>1. i \in 1..c.msg.n /\ c.id + i = s.id
      BY <1>3, <1>4, <2>1, <2>3
    <3>2. PICK u \in rows : u.id = c.id + i /\ u.msg = Msg(c.msg.turn, "tool", i)
      BY <1>1, <2>1, <3>1 DEF WholeChains
    <3>3. u = s
      BY <1>3, <3>1, <3>2
    <3>4. QED BY <1>1, <2>1, <2>3, <3>2, <3>3 DEF SameTurn, Msg
  <2>4. QED BY <2>2, <2>3
<1>8. QED BY <1>5, <1>6, <1>7

\* Until a restart tears a chain: every request carries a history the chat API
\* accepts, however many turns of one peer overlap, wherever the window or the
\* retention limit cuts, and whatever an older version has left in whole.
THEOREM RequestsAreWellFormed == Spec => []RequestsWellFormed
<1>1. LogTyped /\ ChainsWhole /\ [Next]_vars => ChainsWhole'
  BY ChainsStep
<1>2. LogTyped /\ ChainsWhole => RequestsWellFormed
  BY WholeChainsSuffice
<1>3. QED BY <1>1, <1>2, ChainsInit, LogTypedInvariant, PTL DEF Spec

----------------------------------------------------------------------------
\* Words

\* A turn in this state has left nothing in the log.
QuietIn(r) ==
    \/ r.stage \in {"none", "arrived", "refreshed"}
    \/ r.stage \in {"asking", "waiting"} /\ r.calls = 0
    \/ r.stage = "answered" /\ r.kind # "user"
    \/ r.outcome = "dropped"

\* Its question is in the log: stored with the first answer.
AskedIn(r) ==
    /\ r.kind = "user"
    /\ \/ r.stage = "answered"
       \/ r.stage \in {"asking", "waiting"} /\ r.calls # 0
       \/ r.outcome \in {"replied", "cut"}

\* Its answer is in the log: stored by LlmActor when no tool is called, else
\* when the turn ends.
ToldIn(r) ==
    \/ /\ r.kind = "user" /\ r.stage = "answered" /\ r.calls = 0
       /\ r.calling = FALSE /\ r.content # "empty"
    \/ r.outcome = "replied"

Logged(m) == \E r \in Log : r.msg = m

OutcomeAtEnd == \A t \in Turns : turn[t].stage # "done" => turn[t].outcome = "none"

NoTrace == \A t \in Turns : QuietIn(turn[t]) => \A r \in Log : r.msg.turn # t

QuestionFirst ==
    \A r, s \in Log :
       /\ r.msg.turn \in Turns /\ SameTurn(r, s)
       /\ r.msg.kind = "text" /\ s.msg.kind = "user"
       => s.id < r.id

WordsKept ==
    Keep = 0 /\ ~torn =>
       \A t \in Turns : /\ AskedIn(turn[t]) => Logged(Msg(t, "user", 0))
                        /\ ToldIn(turn[t]) => Logged(Msg(t, "text", 0))

WordsInv == OutcomeAtEnd /\ NoTrace /\ QuestionFirst /\ WordsKept

\* No word is new; and all are still there, if none is pruned or torn.
KeepsWords ==
    /\ \A r \in Log' : \E s \in Log : s.id = r.id /\ s.msg = r.msg
    /\ Keep = 0 /\ ~torn' => ~torn /\ \A s \in Log : \E r \in Log' : r.msg = s.msg

LEMMA WordsStay == LogTyped /\ (Shrinks \/ Inherits) => KeepsWords
<1>1. Shrinks => KeepsWords
  BY DEF Shrinks, KeepsWords
<1>2. ASSUME LogTyped, Inherits PROVE KeepsWords
  <2>1. PICK p \in Peers : Log' = {[r EXCEPT !.peer = p] : r \in Log}
    BY <1>2 DEF Inherits
  <2> DEFINE moved(r) == [r EXCEPT !.peer = p]
  <2>2. \A r \in Log : moved(r).id = r.id /\ moved(r).msg = r.msg
    BY <1>2, LogRecords
  <2>3. Log' = {moved(r) : r \in Log} /\ torn' = torn
    BY <1>2, <2>1 DEF Inherits
  <2> HIDE DEF moved
  <2>4. QED BY <2>2, <2>3 DEF KeepsWords
<1>3. QED BY <1>1, <1>2

\* One turn moves on to r, and only of it something new is in the log.
LEMMA WordsOfOne ==
    ASSUME LogTyped, WordsInv, NEW t \in Turns, NEW r, turn' = [turn EXCEPT ![t] = r],
           r.stage # "done" => r.outcome = "none",
           \A x \in Log' : x.msg.turn = t \/ \E y \in Log : y.msg = x.msg,
           Keep = 0 /\ ~torn' => ~torn /\ \A y \in Log : \E x \in Log' : x.msg = y.msg,
           QuietIn(r) => \A x \in Log' : x.msg.turn # t,
           Keep = 0 /\ ~torn' => /\ AskedIn(r) => Logged(Msg(t, "user", 0))'
                                 /\ ToldIn(r) => Logged(Msg(t, "text", 0))',
           QuestionFirst'
    PROVE  WordsInv'
<1>1. turn \in [Turns -> Turn]
  BY DEF LogTyped, TurnInv, LocalType
<1>2. turn'[t] = r /\ \A u \in Turns : u # t => turn'[u] = turn[u]
  BY <1>1
<1>3. OutcomeAtEnd'
  BY <1>2 DEF WordsInv, OutcomeAtEnd
<1>4. NoTrace'
  BY <1>2 DEF WordsInv, NoTrace
<1>5. WordsKept'
  <2> SUFFICES ASSUME Keep = 0, ~torn', NEW u \in Turns
               PROVE  /\ AskedIn(turn'[u]) => Logged(Msg(u, "user", 0))'
                      /\ ToldIn(turn'[u]) => Logged(Msg(u, "text", 0))'
    BY DEF WordsKept
  <2>1. CASE u = t
    BY <1>2, <2>1
  <2>2. CASE u # t
    <3>1. /\ AskedIn(turn[u]) => Logged(Msg(u, "user", 0))
          /\ ToldIn(turn[u]) => Logged(Msg(u, "text", 0))
      BY DEF WordsInv, WordsKept
    <3>2. \A y \in Log : \E x \in Log' : x.msg = y.msg
      OBVIOUS
    <3>3. QED BY <1>2, <2>2, <3>1, <3>2 DEF Logged
  <2>3. QED BY <2>1, <2>2
<1>6. QED BY <1>3, <1>4, <1>5 DEF WordsInv

\* A turn that writes nothing and promises no more than before.
LEMMA WordsShrink ==
    ASSUME LogTyped, WordsInv, KeepsWords, NEW t \in Turns, NEW r, turn' = [turn EXCEPT ![t] = r],
           r.stage # "done" => r.outcome = "none",
           QuietIn(r) => QuietIn(turn[t]), AskedIn(r) => AskedIn(turn[t]),
           ToldIn(r) => ToldIn(turn[t])
    PROVE  WordsInv'
<1>1. /\ \A x \in Log' : \E y \in Log : y.id = x.id /\ y.msg = x.msg
      /\ Keep = 0 /\ ~torn' => ~torn /\ \A y \in Log : \E x \in Log' : x.msg = y.msg
  BY DEF KeepsWords
<1>2. QuestionFirst'
  BY <1>1 DEF WordsInv, QuestionFirst, SameTurn
<1>3. QuietIn(r) => \A x \in Log' : x.msg.turn # t
  BY <1>1 DEF WordsInv, NoTrace
<1>4. Keep = 0 /\ ~torn' => /\ AskedIn(r) => Logged(Msg(t, "user", 0))'
                            /\ ToldIn(r) => Logged(Msg(t, "text", 0))'
  BY <1>1 DEF WordsInv, WordsKept, Logged
<1>5. QED BY <1>1, <1>2, <1>3, <1>4, WordsOfOne

LEMMA WordsAnswered ==
    ASSUME LogTyped, WordsInv, NEW t \in Turns, NEW calling \in BOOLEAN, NEW content \in Contents,
           LlmAnswers(t, calling, content)
    PROVE  WordsInv'
<1> DEFINE a == turn[t]
<1> DEFINE rd == IF FollowUp(t) THEN a.round + 1 ELSE a.round
<1> DEFINE cp == a.compact \/ ~(calling \/ FollowUp(t) \/ Proactive(t))
<1> DEFINE r == [a EXCEPT !.stage = "answered", !.calling = calling, !.content = content,
                          !.round = rd, !.compact = cp]
<1>1. a \in Turn /\ a.stage = "waiting" /\ a.outcome = "none" /\ RoundsOf(a)
  BY DEF LogTyped, TurnInv, LocalType, RoundsMatchCalls, LlmAnswers, WordsInv, OutcomeAtEnd
<1>2. turn' = [turn EXCEPT ![t] = r]
  BY DEF LlmAnswers, LogTyped, TurnInv, LocalType
<1> HIDE DEF rd, cp
<1>3. r.stage = "answered" /\ r.outcome = "none" /\ r.kind = a.kind /\ r.calls = a.calls
      /\ r.calling = calling /\ r.content = content
  BY <1>1 DEF Turn
<1> HIDE DEF r
<1>4. /\ Log \subseteq Log' /\ torn' = torn
      /\ \A x \in Log' : x \in Log \/ /\ x.id > Top /\ x.msg.turn = t
                                      /\ ~FollowUp(t) /\ ~Proactive(t)
                                      /\ \/ x.id = Top + 1 /\ x.msg.kind = "user"
                                         \/ x.id = Top + 2 /\ x.msg.kind = "text"
      /\ ~FollowUp(t) /\ ~Proactive(t) =>
            /\ Logged(Msg(t, "user", 0))'
            /\ ~calling /\ content # "empty" => Logged(Msg(t, "text", 0))'
  BY AnswerWrites DEF Logged
<1>5. (FollowUp(t) <=> a.calls # 0) /\ (Proactive(t) <=> a.kind # "user")
      /\ (a.kind # "user" => a.calls = 0)
  <2>1. a.calls \in Nat
    BY <1>1, PipelineAssumption DEF Turn
  <2>2. QED BY <1>1, <2>1 DEF FollowUp, Proactive, RoundsOf
<1>6. ~FollowUp(t) => \A x \in Log : x.msg.turn # t
  BY <1>1, <1>5 DEF WordsInv, NoTrace, QuietIn
<1>7. QuietIn(r) => \A x \in Log' : x.msg.turn # t
  <2>1. QuietIn(r) => Proactive(t) /\ ~FollowUp(t)
    BY <1>3, <1>5 DEF QuietIn
  <2>2. QED BY <1>4, <1>6, <2>1
<1>8. Keep = 0 /\ ~torn' => /\ AskedIn(r) => Logged(Msg(t, "user", 0))'
                            /\ ToldIn(r) => Logged(Msg(t, "text", 0))'
  <2>1. ToldIn(r) => ~FollowUp(t) /\ ~Proactive(t) /\ ~calling /\ content # "empty"
    BY <1>3, <1>5 DEF ToldIn
  <2>2. AskedIn(r) => (~FollowUp(t) /\ ~Proactive(t)) \/ AskedIn(a)
    BY <1>1, <1>3, <1>5 DEF AskedIn
  <2>3. Keep = 0 /\ ~torn' /\ AskedIn(a) => Logged(Msg(t, "user", 0))'
    BY <1>4 DEF WordsInv, WordsKept, Logged
  <2>4. QED BY <1>4, <2>1, <2>2, <2>3
<1>9. QuestionFirst'
  <2> SUFFICES ASSUME NEW x \in Log', NEW y \in Log', x.msg.kind = "text", y.msg.kind = "user",
                      SameTurn(x, y), x.msg.turn \in Turns
               PROVE  y.id < x.id
    BY DEF QuestionFirst
  <2>1. CASE x \in Log /\ y \in Log
    BY <2>1 DEF WordsInv, QuestionFirst
  <2>2. CASE x \notin Log \/ y \notin Log
    <3>1. ~FollowUp(t) /\ x.msg.turn = t /\ y.msg.turn = t
      BY <1>4, <2>2 DEF SameTurn
    <3>2. x.id = Top + 2 /\ y.id = Top + 1
      BY <1>4, <1>6, <3>1
    <3>3. Top \in Nat
      BY LogShape
    <3>4. QED BY <3>2, <3>3
  <2>3. QED BY <2>1, <2>2
<1>10. QED
  BY <1>2, <1>3, <1>4, <1>7, <1>8, <1>9, WordsOfOne

LEMMA WordsFinished ==
    ASSUME LogTyped, WordsInv, NEW t \in Turns, Finish(t) PROVE WordsInv'
<1> DEFINE a == turn[t]
<1> DEFINE n == a.calls
<1> DEFINE k == IF a.content = "empty" THEN "empty" ELSE "text"
<1> DEFINE end(i) == [id |-> Top + i, peer |-> a.peer, msg |-> Msg(t, k, 0)]
<1> DEFINE o == IF Dropped(t) THEN "dropped"
                ELSE IF a.content = "empty" \/ a.sentViaIm THEN "silent"
                ELSE IF CutShort(t) THEN "cut" ELSE "replied"
<1> DEFINE r == Ended(t, o)
<1>1. a \in Turn /\ a.stage = "answered" /\ a.outcome = "none" /\ RoundsOf(a) /\ ~MoreTools(t)
  BY DEF LogTyped, TurnInv, LocalType, RoundsMatchCalls, Finish, WordsInv, OutcomeAtEnd
<1>2. turn' = [turn EXCEPT ![t] = r]
  BY DEF Finish
<1>3. r.stage = "done" /\ r.kind = a.kind /\ r.calls = a.calls /\ r.outcome = o
  BY EndedTurn DEF LogTyped, Outcomes
<1> HIDE DEF r
<1>4. /\ Log \subseteq Log' /\ torn' = torn /\ n \in Nat /\ a.round = n
      /\ n # 0 => Log' = Log
            \cup {[id |-> Top + 1, peer |-> a.peer, msg |-> Msg(t, "calls", n)]}
            \cup {[id |-> Top + (i + 1), peer |-> a.peer, msg |-> Msg(t, "tool", i)] : i \in 1..n}
            \cup {end(n + 2)}
      /\ n = 0 /\ Proactive(t) /\ a.content # "empty" /\ ~Dropped(t) => Log' = Log \cup {end(1)}
      /\ n = 0 /\ ~(Proactive(t) /\ a.content # "empty" /\ ~Dropped(t)) => Log' = Log
  BY FinishWrites
<1>5. (Proactive(t) <=> a.kind # "user") /\ (a.kind # "user" => n = 0)
      /\ (Dropped(t) => Proactive(t))
  BY <1>1 DEF Proactive, RoundsOf, Dropped
<1>t. Top \in Nat /\ \A x \in Log : x.id \in Nat /\ x.id <= Top
  BY LogShape
<1>6. ASSUME NEW x \in Log', x \notin Log
      PROVE  x.msg.turn = t /\ x.msg.kind # "user" /\ x.id \in Nat /\ x.id > Top
  BY <1>4, <1>6, <1>t DEF Msg
<1>7. QuietIn(r) => \A x \in Log' : x.msg.turn # t
  <2>1. QuietIn(r) => Dropped(t)
    BY <1>3 DEF QuietIn
  <2>2. Dropped(t) => Log' = Log /\ QuietIn(a)
    BY <1>1, <1>4, <1>5 DEF QuietIn
  <2>3. QED BY <2>1, <2>2 DEF WordsInv, NoTrace
<1>q. ASSUME Keep = 0, ~torn', a.kind = "user"
      PROVE  Logged(Msg(t, "user", 0))'
  BY <1>1, <1>4, <1>q DEF WordsInv, WordsKept, AskedIn, Logged
<1>8. ASSUME Keep = 0, ~torn', r.outcome = "replied"
      PROVE  Logged(Msg(t, "text", 0))'
  <2>1. ~Dropped(t) /\ a.content # "empty" /\ k = "text" /\ ~CutShort(t)
    BY <1>3, <1>8
  <2>3. CASE n # 0
    <3>1. end(n + 2) \in Log' /\ end(n + 2).msg = Msg(t, "text", 0)
      BY <1>4, <2>1, <2>3
    <3>2. QED BY <3>1 DEF Logged
  <2>4. CASE n = 0 /\ Proactive(t)
    <3>1. end(1) \in Log' /\ end(1).msg = Msg(t, "text", 0)
      BY <1>4, <2>1, <2>4
    <3>2. QED BY <3>1 DEF Logged
  <2>5. CASE n = 0 /\ ~Proactive(t)
    <3>0. rounds \in Nat /\ a.calling \in BOOLEAN
      BY <1>1, PipelineAssumption DEF LogTyped, TurnInv, LocalType, Turn
    <3>1. a.calling = FALSE
      BY <1>1, <1>4, <2>1, <2>5, <3>0 DEF MoreTools, CutShort
    <3>2. ToldIn(a)
      BY <1>1, <1>5, <2>1, <2>5, <3>1 DEF ToldIn
    <3>3. QED
      BY <1>4, <1>8, <3>2 DEF WordsInv, WordsKept, Logged
  <2>6. QED BY <2>3, <2>4, <2>5
<1>9. /\ AskedIn(r) => a.kind = "user"
      /\ ToldIn(r) => r.outcome = "replied"
  BY <1>3 DEF AskedIn, ToldIn
<1>10. QuestionFirst'
  <2> SUFFICES ASSUME NEW x \in Log', NEW y \in Log', x.msg.kind = "text", y.msg.kind = "user",
                      SameTurn(x, y), x.msg.turn \in Turns
               PROVE  y.id < x.id
    BY DEF QuestionFirst
  <2>1. y \in Log
    BY <1>6
  <2>2. CASE x \in Log
    BY <2>1, <2>2 DEF WordsInv, QuestionFirst
  <2>3. CASE x \notin Log
    BY <1>6, <1>t, <2>1, <2>3
  <2>4. QED BY <2>2, <2>3
<1> HIDE DEF a, n, k, end, o
<1>11. QED
  BY <1>2, <1>3, <1>4, <1>6, <1>q, <1>7, <1>8, <1>9, <1>10, WordsOfOne

LEMMA WordsRestart ==
    ASSUME LogTyped, WordsInv, NEW clear \in BOOLEAN, Restart(clear) PROVE WordsInv'
<1> DEFINE over(u) == IF turn[u].stage \in {"none", "done"}
                      THEN [turn[u] EXCEPT !.compact = FALSE]
                      ELSE [Ended(u, "crashed") EXCEPT !.compact = FALSE]
<1>1. \A u \in Turns : turn'[u] = over(u)
  BY DEF Restart
<1>2. ASSUME NEW u \in Turns
      PROVE  /\ over(u).stage # "done" => over(u).outcome = "none"
             /\ QuietIn(over(u)) => QuietIn(turn[u])
             /\ AskedIn(over(u)) => AskedIn(turn[u])
             /\ ToldIn(over(u)) => ToldIn(turn[u])
  <2>0. turn[u] \in Turn
    BY DEF LogTyped, TurnInv, LocalType
  <2>1. CASE turn[u].stage \in {"none", "done"}
    <3> DEFINE r == [turn[u] EXCEPT !.compact = FALSE]
    <3>1. over(u) = r
      BY <2>1
    <3>2. r.stage = turn[u].stage /\ r.kind = turn[u].kind /\ r.calls = turn[u].calls
          /\ r.outcome = turn[u].outcome /\ r.calling = turn[u].calling
          /\ r.content = turn[u].content
      BY <2>0 DEF Turn
    <3> HIDE DEF r, over
    <3>3. QED BY <3>1, <3>2 DEF QuietIn, AskedIn, ToldIn, WordsInv, OutcomeAtEnd
  <2>2. CASE turn[u].stage \notin {"none", "done"}
    <3> DEFINE e == Ended(u, "crashed")
    <3>1. e \in Turn /\ e.stage = "done" /\ e.outcome = "crashed"
      BY EndedTurn DEF LogTyped, Outcomes
    <3> HIDE DEF e
    <3> DEFINE r == [e EXCEPT !.compact = FALSE]
    <3>2. r.stage = "done" /\ r.outcome = "crashed"
      BY <3>1 DEF Turn
    <3>3. over(u) = r
      BY <2>2 DEF e
    <3> HIDE DEF r, over
    <3>4. QED BY <3>2, <3>3 DEF QuietIn, AskedIn, ToldIn
  <2>3. QED BY <2>1, <2>2
<1> HIDE DEF over
<1>3. Log' \subseteq Log /\ (Keep = 0 /\ ~torn' => ~torn /\ Log' = Log)
  BY RestartShrinks DEF Shrinks
<1>4. OutcomeAtEnd'
  BY <1>1, <1>2 DEF OutcomeAtEnd
<1>5. NoTrace'
  BY <1>1, <1>2, <1>3 DEF WordsInv, NoTrace
<1>6. QuestionFirst'
  BY <1>3 DEF WordsInv, QuestionFirst, SameTurn
<1>7. WordsKept'
  BY <1>1, <1>2, <1>3 DEF WordsInv, WordsKept, Logged
<1>8. QED BY <1>4, <1>5, <1>6, <1>7 DEF WordsInv

LEMMA WordsStep ==
    ASSUME LogTyped, WordsInv, [Next]_vars PROVE WordsInv'
<1>0. /\ turn \in [Turns -> Turn] /\ \A t \in Turns : turn[t] \in Turn /\ RoundsOf(turn[t])
      /\ \A t \in Turns : turn[t].stage # "done" => turn[t].outcome = "none"
  BY DEF LogTyped, TurnInv, LocalType, RoundsMatchCalls, WordsInv, OutcomeAtEnd
<1>1. ASSUME turn' = turn, KeepsWords PROVE WordsInv'
  BY <1>1 DEF KeepsWords, WordsInv, OutcomeAtEnd, NoTrace, QuestionFirst, SameTurn, WordsKept, Logged
<1>2. CASE UNCHANGED vars
  BY <1>2, <1>1, LogStays, WordsStay DEF vars, storeVars
<1>3. CASE StoreHandles
  BY <1>3, <1>1, StoreHandlesShrinks, WordsStay DEF StoreHandles
<1>4. ASSUME NEW clear \in BOOLEAN, Restart(clear) PROVE WordsInv'
  BY <1>4, WordsRestart
<1>5. ASSUME NEW t \in Turns, NEW calling \in BOOLEAN, NEW content \in Contents,
             LlmAnswers(t, calling, content)
      PROVE  WordsInv'
  BY <1>5, WordsAnswered
<1>6. ASSUME NEW t \in Turns, Finish(t) PROVE WordsInv'
  BY <1>6, WordsFinished
<1>7. ASSUME NEW t \in Turns, NEW p \in Peers, NEW k \in Kinds, Receive(t, p, k) PROVE WordsInv'
  <2> DEFINE r == NewTurn(p, k)
  <2>1. turn' = [turn EXCEPT ![t] = r] /\ turn[t].stage = "none"
    BY <1>7 DEF Receive
  <2>2. r.stage = "arrived" /\ r.outcome = "none"
    BY DEF NewTurn
  <2> HIDE DEF r
  <2>3. QuietIn(turn[t]) /\ ~AskedIn(r) /\ ~ToldIn(r)
    BY <2>1, <2>2 DEF QuietIn, AskedIn, ToldIn
  <2>4. KeepsWords
    BY WritesNothing, WordsStay, <1>7
  <2>5. QED BY <2>1, <2>2, <2>3, <2>4, WordsShrink
<1>8. ASSUME NEW t \in Turns, NEW o \in {"refused", "lost", "failed"}, KeepsWords,
             turn' = [turn EXCEPT ![t] = Ended(t, o)]
      PROVE  WordsInv'
  <2> DEFINE r == Ended(t, o)
  <2>1. r.stage = "done" /\ r.outcome = o
    BY EndedTurn DEF LogTyped, Outcomes
  <2>2. turn' = [turn EXCEPT ![t] = r]
    BY <1>8
  <2> HIDE DEF r
  <2>3. ~QuietIn(r) /\ ~AskedIn(r) /\ ~ToldIn(r)
    BY <2>1 DEF QuietIn, AskedIn, ToldIn
  <2>4. QED BY <1>8, <2>1, <2>2, <2>3, WordsShrink
<1>9. ASSUME NEW t \in Turns, Refuse(t) PROVE WordsInv'
  <2>1. KeepsWords
    BY WritesNothing, WordsStay, <1>9
  <2>2. QED BY <1>8, <1>9, <2>1 DEF Refuse
<1>10. ASSUME NEW t \in Turns, LlmFails(t) PROVE WordsInv'
  <2>1. KeepsWords
    BY WritesNothing, WordsStay, <1>10
  <2>2. QED BY <1>8, <1>10, <2>1 DEF LlmFails
<1>11. ASSUME NEW t \in Turns, NEW r, KeepsWords, turn' = [turn EXCEPT ![t] = r],
              r.stage # "done" => r.outcome = "none",
              r.kind = turn[t].kind, r.calls = turn[t].calls, r.outcome = turn[t].outcome,
              \/ turn[t].stage = "arrived" /\ r.stage = "refreshed"
              \/ turn[t].stage = "refreshed" /\ r.stage = "asking"
              \/ turn[t].stage = "asking" /\ r.stage = "waiting"
       PROVE  WordsInv'
  <2>1. turn[t].stage = "refreshed" => turn[t].calls = 0
    BY <1>0 DEF RoundsOf
  <2>2. /\ QuietIn(r) => QuietIn(turn[t])
        /\ AskedIn(r) => AskedIn(turn[t])
        /\ ToldIn(r) => ToldIn(turn[t])
    BY <1>11, <2>1 DEF QuietIn, AskedIn, ToldIn
  <2>3. QED BY <1>11, <2>2, WordsShrink
<1>12. ASSUME NEW t \in Turns, RefreshSnapshots(t) PROVE WordsInv'
  <2> DEFINE r == [turn[t] EXCEPT !.stage = "refreshed"]
  <2>1. turn' = [turn EXCEPT ![t] = r] /\ turn[t].stage = "arrived"
    BY <1>0, <1>12 DEF RefreshSnapshots
  <2>2. r.stage = "refreshed" /\ r.kind = turn[t].kind /\ r.calls = turn[t].calls
        /\ r.outcome = turn[t].outcome
    BY <1>0 DEF Turn
  <2> HIDE DEF r
  <2>3. KeepsWords
    BY WritesNothing, WordsStay, <1>12
  <2>4. QED BY <1>0, <1>11, <2>1, <2>2, <2>3
<1>13. ASSUME NEW t \in Turns, ReadContexts(t) PROVE WordsInv'
  <2> DEFINE r == [turn[t] EXCEPT !.stage = "asking", !.context = snapshots]
  <2>1. turn' = [turn EXCEPT ![t] = r] /\ turn[t].stage = "refreshed"
    BY <1>0, <1>13 DEF ReadContexts
  <2>2. r.stage = "asking" /\ r.kind = turn[t].kind /\ r.calls = turn[t].calls
        /\ r.outcome = turn[t].outcome
    BY <1>0 DEF Turn
  <2> HIDE DEF r
  <2>3. KeepsWords
    BY WritesNothing, WordsStay, <1>13
  <2>4. QED BY <1>0, <1>11, <2>1, <2>2, <2>3
<1>14. ASSUME NEW t \in Turns, LlmReads(t) PROVE WordsInv'
  <2> DEFINE r == [turn[t] EXCEPT !.stage = "waiting"]
  <2>1. turn' = [turn EXCEPT ![t] = r] /\ turn[t].stage = "asking"
    BY <1>0, <1>14 DEF LlmReads
  <2>2. r.stage = "waiting" /\ r.kind = turn[t].kind /\ r.calls = turn[t].calls
        /\ r.outcome = turn[t].outcome
    BY <1>0 DEF Turn
  <2> HIDE DEF r
  <2>3. KeepsWords
    BY WritesNothing, WordsStay, <1>14
  <2>4. QED BY <1>0, <1>11, <2>1, <2>2, <2>3
<1>15. ASSUME NEW t \in Turns, NEW what \in {"plain", "sent", "described"}, ToolReturns(t, what)
       PROVE  WordsInv'
  <2> DEFINE a == turn[t]
  <2> DEFINE call == a.calls + 1
  <2> DEFINE res == a.results \o IF what = "described" THEN <<call, 0>> ELSE <<call>>
  <2> DEFINE via == a.sentViaIm \/ what = "sent"
  <2> DEFINE r == [a EXCEPT !.stage = "asking", !.calls = call, !.results = res,
                            !.sentViaIm = via]
  <2>1. turn' = [turn EXCEPT ![t] = r] /\ a.stage = "answered" /\ a.calling = TRUE
    BY <1>0, <1>15 DEF ToolReturns, MoreTools, Turn
  <2>2. call # 0
    BY <1>0, PipelineAssumption DEF Turn
  <2> HIDE DEF res, via, call
  <2>3. r.stage = "asking" /\ r.kind = a.kind /\ r.calls = call /\ r.outcome = a.outcome
    BY <1>0 DEF Turn
  <2> HIDE DEF r
  <2>4. a.outcome = "none"
    BY <1>0, <2>1
  <2>5. ~QuietIn(r) /\ (AskedIn(r) => AskedIn(a)) /\ ~ToldIn(r)
    BY <2>1, <2>2, <2>3, <2>4 DEF QuietIn, AskedIn, ToldIn
  <2>6. KeepsWords
    BY WritesNothing, WordsStay, <1>15
  <2>7. QED BY <2>1, <2>3, <2>4, <2>5, <2>6, WordsShrink
<1>16. ASSUME NEW t \in Turns, BeginCompaction(t) PROVE WordsInv'
  <2> DEFINE r == [turn[t] EXCEPT !.compact = FALSE]
  <2>1. turn' = [turn EXCEPT ![t] = r]
    BY <1>0, <1>16 DEF BeginCompaction
  <2>2. r.stage = turn[t].stage /\ r.kind = turn[t].kind /\ r.calls = turn[t].calls
        /\ r.outcome = turn[t].outcome /\ r.calling = turn[t].calling
        /\ r.content = turn[t].content
    BY <1>0 DEF Turn
  <2> HIDE DEF r
  <2>3. KeepsWords
    BY WritesNothing, WordsStay, <1>16
  <2>4. /\ QuietIn(r) => QuietIn(turn[t])
        /\ AskedIn(r) => AskedIn(turn[t])
        /\ ToldIn(r) => ToldIn(turn[t])
    BY <2>2 DEF QuietIn, AskedIn, ToldIn
  <2>5. QED BY <1>0, <2>1, <2>2, <2>3, <2>4, WordsShrink
<1>17. ASSUME NEW t \in Turns, EndCompaction(t) PROVE WordsInv'
  <2>1. KeepsWords
    BY WritesNothing, WordsStay, <1>17
  <2>2. QED BY <1>1, <1>17, <2>1 DEF EndCompaction
<1>18. QED
  BY <1>2, <1>3, <1>4, <1>5, <1>6, <1>7, <1>9, <1>10, <1>12, <1>13, <1>14, <1>15, <1>16, <1>17
  DEF Next, TurnStep

LEMMA RememberedIsLogged == \A m : Remembered(m) <=> Logged(m)
<1> TAKE m
<1> DEFINE letter(i) == [id |-> lastId + i, peer |-> mail[i].peer, msg |-> mail[i].msg]
<1>1. Pending = {letter(i) : i \in DOMAIN mail} /\ \A i : letter(i).msg = mail[i].msg
  BY DEF Pending
<1> HIDE DEF letter
<1>2. (\E i \in DOMAIN mail : mail[i].msg = m) <=> (\E r \in Pending : r.msg = m)
  BY <1>1
<1>3. QED BY <1>2 DEF Remembered, Logged, Log

LEMMA WordsInit == Init => WordsInv
<1> SUFFICES ASSUME Init PROVE WordsInv
  OBVIOUS
<1>1. mail = <<>>
  BY DEF Init
<1>2. Log = rows
  <2>1. DOMAIN mail = {}
    BY <1>1
  <2>2. QED BY <2>1 DEF Log, Pending
<1>3. \A r \in Log : r.msg.turn \in Earlier /\ r.msg.turn \notin Turns
  BY <1>2, LeftRows, PipelineAssumption
<1>4. \A t \in Turns : turn[t].stage = "none" /\ turn[t].outcome = "none"
  BY DEF Init, NewTurn
<1>5. \A t \in Turns : ~AskedIn(turn[t]) /\ ~ToldIn(turn[t])
  BY <1>4 DEF AskedIn, ToldIn
<1>6. QED BY <1>3, <1>4, <1>5 DEF WordsInv, OutcomeAtEnd, NoTrace, QuestionFirst, WordsKept

LEMMA WordsInvariant == Spec => []WordsInv
<1>1. LogTyped /\ WordsInv /\ [Next]_vars => WordsInv'
  BY WordsStep
<1>2. QED BY <1>1, WordsInit, LogTypedInvariant, PTL DEF Spec

\* A user who was answered has the answer and the question before it in the
\* history, whichever of LlmActor and PipelineActor stored it and whatever other
\* turns of the peer were under way; where LLM_MAX_TOOL_ROUNDS is zero and the
\* answer called a tool, the question alone; and a trigger whose answer was silence
\* has left nothing.
THEOREM HistoryTellsTheTruth == Spec => []HistoryIsTrue
<1>1. WordsInv => RepliesRemembered
  <2> SUFFICES ASSUME WordsInv, Keep = 0, ~torn, NEW t \in Turns
               PROVE  /\ turn[t].outcome = "replied" => Remembered(Msg(t, "text", 0))
                      /\ turn[t].outcome \in {"replied", "cut"} /\ ~Proactive(t) =>
                            Remembered(Msg(t, "user", 0))
                      /\ \A r, s \in rows :
                            r.msg = Msg(t, "text", 0) /\ s.msg = Msg(t, "user", 0) => s.id < r.id
    BY DEF RepliesRemembered
  <2>1. /\ turn[t].outcome = "replied" => Logged(Msg(t, "text", 0))
        /\ turn[t].outcome \in {"replied", "cut"} /\ ~Proactive(t) => Logged(Msg(t, "user", 0))
    BY DEF WordsInv, WordsKept, ToldIn, AskedIn, Proactive
  <2>2. ASSUME NEW r \in rows, NEW s \in rows,
               r.msg = Msg(t, "text", 0), s.msg = Msg(t, "user", 0)
        PROVE  s.id < r.id
    <3>1. r \in Log /\ s \in Log
      BY DEF Log
    <3>2. r.msg.kind = "text" /\ s.msg.kind = "user" /\ SameTurn(r, s) /\ r.msg.turn \in Turns
      BY <2>2 DEF Msg, SameTurn
    <3>3. QED BY <3>1, <3>2 DEF WordsInv, QuestionFirst
  <2>3. QED BY <2>1, <2>2, RememberedIsLogged
<1>2. WordsInv => SilenceLeavesNoTrace
  <2> SUFFICES ASSUME WordsInv, NEW t \in Turns, turn[t].outcome = "dropped",
                      NEW k \in {"user", "text", "empty"}
               PROVE  ~Remembered(Msg(t, k, 0))
    BY DEF SilenceLeavesNoTrace
  <2>1. \A r \in Log : r.msg.turn # t
    BY DEF WordsInv, NoTrace, QuietIn
  <2>2. Msg(t, k, 0).turn = t
    BY DEF Msg
  <2>3. ~Logged(Msg(t, k, 0))
    BY <2>1, <2>2 DEF Logged
  <2>4. QED BY <2>3, RememberedIsLogged
<1>3. QED BY <1>1, <1>2, WordsInvariant, PTL DEF HistoryIsTrue
=============================================================================
