-------------------------- MODULE ChatStore_proof --------------------------
(***************************************************************************)
(* Proofs about ChatStore, for any peers, any retention limit, window and  *)
(* batch, any number of compactions and tables of any length.              *)
(*                                                                         *)
(* What the summary promises of a peer is an invariant only together with  *)
(* the same promise of every compaction that is waiting for the LLM: the   *)
(* batch it read, on top of the summary it builds on, leaves no gap up to  *)
(* its last id and stays behind the window, whatever is inserted, pruned   *)
(* or summarised before it writes.                                         *)
(***************************************************************************)
EXTENDS ChatStore, FiniteSetTheorems, TLAPS

Live(j) == job[j] # NoJob

\* Only ids that were given out are ever folded.
IdsGivenOut ==
    /\ \A p \in Peers : /\ session[p].until <= lastId
                        /\ \A id \in session[p].folded : id <= lastId
    /\ \A j \in Jobs : \A id \in job[j].base \cup job[j].batch : id <= lastId

\* Until the owner has inherited the old rows nothing is summarised.
NothingFoldedBeforeOwner ==
    owner = Unbound => /\ \A p \in Peers : session[p] = NoSession
                       /\ \A j \in Jobs : job[j] = NoJob

LivePeer == \A j \in Jobs : Live(j) => job[j].peer \in Peers

\* A compaction that writes to the cursor any id of its batch skips nothing.
JobCovers ==
    \A j \in Jobs : Live(j) =>
        \A to \in job[j].batch : \A r \in PeerRows(job[j].peer) :
            r.msg \in Foldable /\ r.id <= to => r.id \in job[j].base \cup job[j].batch

JobStaysBehindRecent ==
    \A j \in Jobs : Live(j) =>
        \A r \in Newest(PeerRows(job[j].peer), KeepRecent) :
            r.id \notin job[j].base \cup job[j].batch

SessionInv == IdsGivenOut /\ NothingFoldedBeforeOwner /\ LivePeer

CoverInv == SummaryCoversCursor /\ JobCovers

RecentInv == SummaryStaysBehindRecent /\ JobStaysBehindRecent

StoreInv == TypeOK /\ SessionInv /\ CoverInv /\ RecentInv

----------------------------------------------------------------------------
\* Sets of rows

\* What TypeOK says of the table, of any set of rows.
Table(S, n) ==
    /\ S \subseteq Row
    /\ \A r \in S : r.id <= n
    /\ \A r, s \in S : r.id = s.id => r = s

\* A table is finite, for its ids are.
LEMMA TableFinite ==
    ASSUME NEW S, NEW n \in Nat, Table(S, n)
    PROVE  IsFiniteSet(S)
<1> DEFINE f == [r \in S |-> r.id]
<1>1. f \in Injection(S, 1..n)
  <2>1. \A r \in S : r.id \in 1..n
    BY DEF Table, Row
  <2>2. f \in [S -> 1..n]
    BY <2>1
  <2>3. \A r, s \in S : f[r] = f[s] => r = s
    BY DEF Table
  <2>4. QED
    BY <2>2, <2>3 DEF Injection, IsInjective
<1>2. IsFiniteSet(1..n)
  BY FS_Interval
<1>3. QED
  BY <1>1, <1>2, FS_Injection

LEMMA CountNewer ==
    ASSUME NEW S, IsFiniteSet(S), NEW r
    PROVE  /\ IsFiniteSet({s \in S : s.id > r.id})
           /\ Cardinality({s \in S : s.id > r.id}) \in Nat
           /\ IsFiniteSet({s \in S : s.id < r.id})
           /\ Cardinality({s \in S : s.id < r.id}) \in Nat
  BY FS_Subset, FS_CardinalityType

\* ORDER BY id DESC LIMIT n returns at most n rows: no two of them have the
\* same number of newer rows.
LEMMA NewestBound ==
    ASSUME NEW S, NEW m \in Nat, Table(S, m), NEW n \in Nat
    PROVE  Cardinality(Newest(S, n)) <= n
<1> DEFINE newer(r) == {s \in S : s.id > r.id}
           N == Newest(S, n)
           f == [r \in N |-> Cardinality(newer(r))]
<1>1. IsFiniteSet(S)
  BY TableFinite
<1>2. \A r \in S : IsFiniteSet(newer(r)) /\ Cardinality(newer(r)) \in Nat
  BY <1>1, CountNewer
<1>3. N \subseteq S /\ \A r \in N : Cardinality(newer(r)) < n
  BY DEF Newest
<1>4. f \in [N -> 0..n-1]
  <2>1. \A r \in N : Cardinality(newer(r)) \in 0..n-1
    <3> SUFFICES ASSUME NEW r \in N PROVE Cardinality(newer(r)) \in 0..n-1
      OBVIOUS
    <3> HIDE DEF newer, N
    <3>1. Cardinality(newer(r)) \in Nat /\ Cardinality(newer(r)) < n
      BY <1>2, <1>3
    <3>2. QED
      BY <3>1
  <2> HIDE DEF newer, N
  <2>2. QED
    BY <2>1
<1>5. ASSUME NEW r \in N, NEW s \in N, r.id < s.id
      PROVE  Cardinality(newer(s)) < Cardinality(newer(r))
  <2>0. r \in S /\ s \in S
    BY <1>3
  <2>1. newer(s) \in SUBSET newer(r)
    BY <2>0, <1>5 DEF Table, Row
  <2>2. s \in newer(r) /\ s \notin newer(s)
    BY <2>0, <1>5 DEF Table, Row
  <2>3. Cardinality(newer(s)) <= Cardinality(newer(r))
    BY <2>0, <2>1, <1>2, FS_Subset
  <2>4. Cardinality(newer(s)) # Cardinality(newer(r))
    BY <2>0, <2>1, <2>2, <1>2, FS_Subset
  <2>5. QED
    BY <2>0, <2>3, <2>4, <1>2
<1>6. \A r, s \in N : f[r] = f[s] => r = s
  <2> SUFFICES ASSUME NEW r \in N, NEW s \in N, f[r] = f[s] PROVE r = s
    OBVIOUS
  <2>1. f[r] = Cardinality(newer(r)) /\ f[s] = Cardinality(newer(s))
    OBVIOUS
  <2>2. r \in S /\ s \in S
    BY <1>3
  <2>3. ~(r.id < s.id) /\ ~(s.id < r.id)
    BY <2>1, <2>2, <1>5, <1>2
  <2>4. r.id \in Nat /\ s.id \in Nat
    BY <2>2 DEF Table, Row
  <2>5. r.id = s.id
    BY <2>3, <2>4
  <2>6. QED
    BY <2>2, <2>5 DEF Table
<1>7. f \in Injection(N, 0..n-1)
  BY <1>4, <1>6 DEF Injection, IsInjective
<1>8. IsFiniteSet(0..n-1) /\ Cardinality(0..n-1) = n
  BY FS_Interval
<1>9. QED
  BY <1>7, <1>8, FS_Injection

\* Rows that were among the newest before others came still are, or went.
LEMMA NewestOfMore ==
    ASSUME NEW S, NEW T, IsFiniteSet(T), S \subseteq T, NEW n \in Nat,
           NEW r \in S, r \in Newest(T, n)
    PROVE  r \in Newest(S, n)
<1> DEFINE inS == {s \in S : s.id > r.id}
           inT == {s \in T : s.id > r.id}
<1>1. inS \in SUBSET inT
  OBVIOUS
<1>2. IsFiniteSet(S)
  BY FS_Subset
<1>3. IsFiniteSet(inT) /\ Cardinality(inT) \in Nat /\ Cardinality(inS) \in Nat
  BY <1>2, CountNewer
<1>4. Cardinality(inS) <= Cardinality(inT)
  BY <1>1, <1>3, FS_Subset
<1>5. Cardinality(inT) < n
  BY DEF Newest
<1>6. Cardinality(inS) < n
  BY <1>3, <1>4, <1>5
<1>7. QED
  BY <1>6 DEF Newest

\* What is newer than one of the newest rows is one of them.
LEMMA NewestUpward ==
    ASSUME NEW S, NEW m \in Nat, Table(S, m), NEW n \in Nat,
           NEW r \in Newest(S, n), NEW s \in S, s.id >= r.id
    PROVE  s \in Newest(S, n)
<1> DEFINE newer(x) == {t \in S : t.id > x.id}
<1>1. r \in S /\ Cardinality(newer(r)) < n
  BY DEF Newest
<1>2. newer(s) \in SUBSET newer(r)
  BY <1>1 DEF Table, Row
<1>3. IsFiniteSet(S)
  BY TableFinite
<1>4. /\ IsFiniteSet(newer(r)) /\ Cardinality(newer(r)) \in Nat
      /\ Cardinality(newer(s)) \in Nat
  BY <1>3, CountNewer
<1>5. Cardinality(newer(s)) <= Cardinality(newer(r))
  BY <1>2, <1>4, FS_Subset
<1>6. Cardinality(newer(s)) < n
  BY <1>1, <1>4, <1>5
<1>7. QED
  BY <1>6 DEF Newest

\* The window of what was kept lies in the window of what there was.
LEMMA NewestOfKept ==
    ASSUME NEW S, NEW m \in Nat, Table(S, m), NEW k \in Nat, NEW n \in Nat,
           NEW r \in Newest(Newest(S, k), n)
    PROVE  r \in Newest(S, n)
<1> DEFINE newer == {t \in S : t.id > r.id}
           kept  == {t \in Newest(S, k) : t.id > r.id}
<1>1. r \in Newest(S, k) /\ Cardinality(kept) < n
  BY DEF Newest
<1>2. r \in S /\ Newest(S, k) \subseteq S
  BY <1>1 DEF Newest
<1>3. \A t \in S : t.id > r.id => t \in Newest(S, k)
  <2> SUFFICES ASSUME NEW t \in S, t.id > r.id PROVE t \in Newest(S, k)
    OBVIOUS
  <2>1. t.id >= r.id
    BY <1>2 DEF Table, Row
  <2>2. QED
    BY <1>1, <2>1, NewestUpward
<1>4. newer = kept
  BY <1>2, <1>3
<1>5. QED
  BY <1>1, <1>2, <1>4 DEF Newest

----------------------------------------------------------------------------
\* What is summarised only depends on the rows of one peer

LEMMA TypeTable ==
    ASSUME TypeOK
    PROVE  /\ Table(rows, lastId)
           /\ \A p : PeerRows(p) \subseteq rows /\ Table(PeerRows(p), lastId)
  BY DEF TypeOK, Table, PeerRows

\* What is on disk of p after an insertion.
NewRows(p, ms) == {[id |-> lastId + i, peer |-> p, msg |-> ms[i]] : i \in DOMAIN ms}

LEMMA InsertedRows ==
    ASSUME TypeOK, NEW p \in PeerIds, NEW ms \in Seq(Messages), Inserted(p, ms)
    PROVE  /\ lastId' \in Nat /\ lastId <= lastId'
           /\ \A r \in NewRows(p, ms) : r \in Row /\ r.peer = p /\ r.id > lastId
           /\ Table(rows \cup NewRows(p, ms), lastId')
           /\ Table(PeerRows(p) \cup NewRows(p, ms), lastId')
           /\ Kept(PeerRows(p) \cup NewRows(p, ms)) \subseteq PeerRows(p) \cup NewRows(p, ms)
           /\ rows' \subseteq rows \cup NewRows(p, ms)
           /\ PeerRows(p)' = Kept(PeerRows(p) \cup NewRows(p, ms))
           /\ \A q : q # p => PeerRows(q)' = PeerRows(q)
<1> DEFINE new == NewRows(p, ms)
           S == PeerRows(p) \cup new
<1>1. Len(ms) \in Nat /\ DOMAIN ms = 1..Len(ms) /\ \A i \in DOMAIN ms : ms[i] \in Messages
  OBVIOUS
<1>2. lastId \in Nat /\ lastId' = lastId + Len(ms)
  BY DEF TypeOK, Inserted
<1>3. lastId' \in Nat /\ lastId <= lastId'
  BY <1>1, <1>2
<1>4. \A r \in new : /\ r \in Row /\ r.peer = p /\ r.id > lastId /\ r.id <= lastId'
                     /\ \A s \in new : r.id = s.id => r = s
  BY <1>1, <1>2 DEF NewRows, Row
<1>5. Table(rows \cup new, lastId')
  <2> HIDE DEF new
  <2>1. Table(rows, lastId)
    BY TypeTable
  <2>2. \A r \in rows : r.id \in Nat /\ r.id <= lastId
    BY <2>1 DEF Table, Row
  <2>3. \A r \in new : r.id \in Nat
    BY <1>4 DEF Row
  <2>4. rows \cup new \subseteq Row
    BY <2>1, <1>4 DEF Table
  <2>5. \A r \in rows \cup new : r.id <= lastId'
    BY <2>2, <1>2, <1>3, <1>4
  <2>6. \A r, s \in rows \cup new : r.id = s.id => r = s
    BY <2>1, <2>2, <2>3, <1>2, <1>4 DEF Table
  <2>7. QED
    BY <2>4, <2>5, <2>6 DEF Table
<1>6. S \subseteq rows \cup new
  BY DEF PeerRows
<1>7. Table(S, lastId')
  BY <1>5, <1>6 DEF Table
<1>8. Kept(S) \subseteq S
  BY DEF Kept, Newest
<1>9. rows' = (rows \ PeerRows(p)) \cup Kept(S)
  BY DEF Inserted, NewRows
<1>10. \A r \in Kept(S) : r.peer = p
  BY <1>4, <1>8 DEF PeerRows
<1>11. PeerRows(p)' = Kept(S)
  <2> HIDE DEF S
  <2>1. PeerRows(p)' = {r \in rows' : r.peer = p}
    BY DEF PeerRows
  <2>2. QED
    BY <2>1, <1>9, <1>10 DEF PeerRows
<1>12. \A q : q # p => PeerRows(q)' = PeerRows(q)
  <2> HIDE DEF S
  <2> SUFFICES ASSUME NEW q, q # p PROVE PeerRows(q)' = PeerRows(q)
    OBVIOUS
  <2>1. PeerRows(q)' = {r \in rows' : r.peer = q}
    BY DEF PeerRows
  <2>2. QED
    BY <2>1, <1>9, <1>10 DEF PeerRows
<1>13. rows' \subseteq rows \cup new
  BY <1>6, <1>8, <1>9
<1>14. QED
  BY <1>3, <1>4, <1>5, <1>7, <1>8, <1>11, <1>12, <1>13

\* An insertion only takes old rows out of the window of a peer.
LEMMA InsertedWindow ==
    ASSUME TypeOK, StoreAssumption, NEW p \in PeerIds, NEW ms \in Seq(Messages),
           Inserted(p, ms), NEW q, NEW r \in Newest(PeerRows(q)', KeepRecent)
    PROVE  r.id > lastId \/ r \in Newest(PeerRows(q), KeepRecent)
<1> DEFINE S == PeerRows(p) \cup NewRows(p, ms)
<1>1. CASE q # p
  BY <1>1, InsertedRows
<1>2. CASE q = p
  <2>1. r \in Newest(Kept(S), KeepRecent)
    BY <1>2, InsertedRows
  <2>2. Table(S, lastId') /\ lastId' \in Nat
    BY InsertedRows
  <2>3. r \in Newest(S, KeepRecent)
    <3>1. CASE Keep = 0
      BY <2>1, <3>1 DEF Kept
    <3>2. CASE Keep # 0
      <4>1. r \in Newest(Newest(S, Keep), KeepRecent)
        BY <2>1, <3>2 DEF Kept
      <4>2. QED
        BY <4>1, <2>2, NewestOfKept DEF StoreAssumption
    <3>3. QED
      BY <3>1, <3>2
  <2>4. r \in S
    BY <2>3 DEF Newest
  <2>5. CASE r \in NewRows(p, ms)
    BY <2>5, InsertedRows
  <2>6. CASE r \in PeerRows(p)
    <3>1. IsFiniteSet(S)
      BY <2>2, TableFinite
    <3>2. QED
      BY <1>2, <2>3, <2>6, <3>1, NewestOfMore DEF StoreAssumption
  <2>7. QED
    BY <2>4, <2>5, <2>6
<1>3. QED
  BY <1>1, <1>2

----------------------------------------------------------------------------
\* Each handler keeps the invariant

LEMMA StoreInit == StoreAssumption /\ Init => StoreInv
<1> SUFFICES ASSUME StoreAssumption, Init PROVE StoreInv
  OBVIOUS
<1>1. lastId \in Nat
  BY DEF Init, StoreAssumption
<1>2. Table(rows, lastId) /\ \A r \in rows : r.peer = Unbound
  <2>1. PICK text \in [1..lastId -> Messages] :
              rows = {[id |-> i, peer |-> Unbound, msg |-> text[i]] : i \in 1..lastId}
    BY DEF Init
  <2>2. \A r \in rows : \E i \in 1..lastId :
              r = [id |-> i, peer |-> Unbound, msg |-> text[i]]
    BY <2>1
  <2>3. \A r \in rows : r \in Row /\ r.peer = Unbound /\ r.id <= lastId
                         /\ r.msg = text[r.id]
    BY <1>1, <2>2 DEF Row, PeerIds
  <2>4. \A r, s \in rows : r.id = s.id => r = s
    BY <2>2
  <2>5. QED
    BY <2>3, <2>4 DEF Table
<1>3. \A p \in Peers : PeerRows(p) = {}
  BY <1>2 DEF PeerRows, StoreAssumption
<1>4. TypeOK
  <2>1. IsFiniteSet(rows)
    BY <1>1, <1>2, TableFinite
  <2>2. \A p \in Peers : Keep # 0 => Cardinality(PeerRows(p)) <= Keep
    BY <1>3, FS_EmptySet DEF StoreAssumption
  <2>3. session \in [Peers -> Session] /\ job \in [Jobs -> Job] /\ owner \in PeerIds
    BY DEF Init, Session, NoSession, Job, NoJob, PeerIds
  <2>4. QED
    BY <1>1, <1>2, <2>1, <2>2, <2>3 DEF TypeOK, Table
<1>5. \A p \in Peers : session[p] = NoSession
  BY DEF Init
<1>6. \A j \in Jobs : job[j] = NoJob
  BY DEF Init
<1>7. SessionInv
  BY <1>1, <1>5, <1>6 DEF SessionInv, IdsGivenOut, NothingFoldedBeforeOwner,
                          LivePeer, Live, NoSession, NoJob
<1>8. CoverInv
  BY <1>3, <1>6 DEF CoverInv, SummaryCoversCursor, JobCovers, Live
<1>9. RecentInv
  BY <1>5, <1>6 DEF RecentInv, SummaryStaysBehindRecent, JobStaysBehindRecent, Live, NoSession
<1>10. QED
  BY <1>4, <1>7, <1>8, <1>9 DEF StoreInv

LEMMA InsertedKeepsInv ==
    ASSUME StoreAssumption, StoreInv, NEW p \in PeerIds, NEW ms \in Seq(Messages),
           Inserted(p, ms)
    PROVE  StoreInv'
<1> DEFINE S == PeerRows(p) \cup NewRows(p, ms)
<1>1. /\ TypeOK /\ lastId \in Nat /\ lastId' \in Nat /\ lastId <= lastId'
      /\ UNCHANGED <<owner, session, job>>
  BY InsertedRows DEF StoreInv, TypeOK, Inserted
<1>2. Table(rows', lastId')
  BY <1>1, InsertedRows DEF Table
<1>3. ASSUME NEW q, NEW r \in PeerRows(q)'
      PROVE  r \in PeerRows(q) \/ r.id > lastId
  <2>1. CASE q # p
    BY <1>1, <1>3, <2>1, InsertedRows
  <2>2. CASE q = p
    <3>1. r \in S /\ \A s \in NewRows(p, ms) : s.id > lastId
      BY <1>1, <1>3, <2>2, InsertedRows
    <3>2. QED
      BY <2>2, <3>1
  <2>3. QED
    BY <2>1, <2>2
<1>4. TypeOK'
  <2>1. IsFiniteSet(rows')
    BY <1>1, <1>2, TableFinite
  <2>2. ASSUME NEW q \in Peers \ {owner}, Keep # 0
        PROVE  Cardinality(PeerRows(q)') <= Keep
    <3>1. CASE q # p
      BY <1>1, <2>2, <3>1, InsertedRows DEF TypeOK
    <3>2. CASE q = p
      <4>1. PeerRows(q)' = Newest(S, Keep)
        BY <1>1, <2>2, <3>2, InsertedRows DEF Kept
      <4>2. Table(S, lastId')
        BY <1>1, InsertedRows
      <4>3. QED
        BY <1>1, <4>1, <4>2, NewestBound DEF StoreAssumption
    <3>3. QED
      BY <3>1, <3>2
  <2>3. rows' \subseteq Row /\ \A r \in rows' : r.id <= lastId'
    BY <1>2 DEF Table
  <2>4. \A r, s \in rows' : r.id = s.id => r = s
    BY <1>2 DEF Table
  <2>5. owner' \in PeerIds /\ session' \in [Peers -> Session] /\ job' \in [Jobs -> Job]
    BY <1>1 DEF TypeOK
  <2>6. \A q \in Peers \ {owner'} : Keep # 0 => Cardinality(PeerRows(q)') <= Keep
    BY <1>1, <2>2
  <2>7. QED
    BY <1>1, <2>1, <2>3, <2>4, <2>5, <2>6 DEF TypeOK
<1>5. SessionInv'
  <2>1. /\ \A q \in Peers : /\ session[q].until \in Nat
                            /\ session[q].folded \subseteq Nat
        /\ \A j \in Jobs : job[j].base \cup job[j].batch \subseteq Nat
    BY <1>1 DEF TypeOK, Session, Job
  <2>2. IdsGivenOut'
    BY <1>1, <2>1 DEF StoreInv, SessionInv, IdsGivenOut
  <2>3. NothingFoldedBeforeOwner' /\ LivePeer'
    BY <1>1 DEF StoreInv, SessionInv, NothingFoldedBeforeOwner, LivePeer, Live
  <2>4. QED
    BY <2>2, <2>3 DEF SessionInv
<1>6. CoverInv'
  <2>1. \A r \in rows' : r.id \in Nat
    BY <1>2 DEF Table, Row
  <2>2. \A q, r : r \in PeerRows(q)' => r.id \in Nat
    BY <2>1 DEF PeerRows
  <2>3. ASSUME NEW q \in Peers, NEW r \in PeerRows(q)',
               r.msg \in Foldable, r.id <= session'[q].until
        PROVE  r.id \in session'[q].folded
    <3>1. ~(r.id > lastId)
      BY <1>1, <2>2, <2>3 DEF StoreInv, SessionInv, IdsGivenOut, TypeOK, Session
    <3>2. r \in PeerRows(q)
      BY <1>3, <3>1
    <3>3. QED
      BY <1>1, <2>3, <3>2 DEF StoreInv, CoverInv, SummaryCoversCursor
  <2>4. ASSUME NEW j \in Jobs, Live(j), NEW q, q = job[j].peer, NEW to \in job[j].batch,
               NEW r \in PeerRows(q)', r.msg \in Foldable, r.id <= to
        PROVE  r.id \in job[j].base \cup job[j].batch
    <3>1. to \in Nat /\ to <= lastId
      BY <1>1, <2>4 DEF StoreInv, SessionInv, IdsGivenOut, TypeOK, Job
    <3>2. r \in PeerRows(q)
      BY <1>1, <1>3, <2>2, <2>4, <3>1
    <3>3. QED
      BY <2>4, <3>2 DEF StoreInv, CoverInv, JobCovers
  <2>5. SummaryCoversCursor'
    BY <2>3 DEF SummaryCoversCursor
  <2>6. JobCovers'
    BY <1>1, <2>4 DEF JobCovers, Live, PeerRows
  <2>7. QED
    BY <2>5, <2>6 DEF CoverInv
<1>7. RecentInv'
  <2>1. ASSUME NEW q, NEW r \in Newest(PeerRows(q)', KeepRecent)
        PROVE  r.id \in Nat /\ (r.id > lastId \/ r \in Newest(PeerRows(q), KeepRecent))
    <3>1. r \in rows'
      BY DEF Newest, PeerRows
    <3>2. QED
      BY <1>1, <1>2, <3>1, InsertedWindow DEF Table, Row
  <2>2. ASSUME NEW q \in Peers, NEW r \in Newest(PeerRows(q)', KeepRecent)
        PROVE  r.id \notin session[q].folded
    <3>1. CASE r.id > lastId
      BY <1>1, <2>1, <3>1 DEF StoreInv, SessionInv, IdsGivenOut, TypeOK, Session
    <3>2. CASE r \in Newest(PeerRows(q), KeepRecent)
      BY <3>2 DEF StoreInv, RecentInv, SummaryStaysBehindRecent
    <3>3. QED
      BY <2>1, <3>1, <3>2
  <2>3. ASSUME NEW j \in Jobs, Live(j), NEW q, q = job[j].peer,
               NEW r \in Newest(PeerRows(q)', KeepRecent)
        PROVE  r.id \notin job[j].base \cup job[j].batch
    <3>1. CASE r.id > lastId
      <4>1. \A id \in job[j].base \cup job[j].batch : id \in Nat /\ id <= lastId
        BY <1>1 DEF StoreInv, SessionInv, IdsGivenOut, TypeOK, Job
      <4>2. QED
        BY <1>1, <2>1, <3>1, <4>1
    <3>2. CASE r \in Newest(PeerRows(q), KeepRecent)
      BY <2>3, <3>2 DEF StoreInv, RecentInv, JobStaysBehindRecent
    <3>3. QED
      BY <2>1, <3>1, <3>2
  <2>4. SummaryStaysBehindRecent'
    BY <1>1, <2>2 DEF SummaryStaysBehindRecent
  <2>5. JobStaysBehindRecent'
    BY <1>1, <2>3 DEF JobStaysBehindRecent, Live, PeerRows
  <2>6. QED
    BY <2>4, <2>5 DEF RecentInv
<1>8. QED
  BY <1>4, <1>5, <1>6, <1>7 DEF StoreInv

\* Before the first peer is bound nothing is summarised, so it may inherit
\* rows of any age.
LEMMA EnsureOwnerKeepsInv ==
    ASSUME StoreAssumption, StoreInv, NEW p \in Peers, EnsureOwnerPeer(p)
    PROVE  StoreInv'
<1>1. TypeOK
  BY DEF StoreInv
<1>2. CASE owner # Unbound
  <2>1. UNCHANGED storeVars
    BY <1>2 DEF EnsureOwnerPeer
  <2>2. QED
    BY <2>1 DEF StoreInv, TypeOK, SessionInv, IdsGivenOut, NothingFoldedBeforeOwner,
                LivePeer, CoverInv, RecentInv, SummaryCoversCursor, JobCovers,
                SummaryStaysBehindRecent, JobStaysBehindRecent, Live, PeerRows, storeVars
<1>3. CASE owner = Unbound
  <2> DEFINE given(r) == IF r.peer = Unbound THEN [r EXCEPT !.peer = p] ELSE r
  <2>1. /\ owner' = p /\ rows' = {given(r) : r \in rows}
        /\ UNCHANGED <<lastId, session, job>>
    BY <1>3 DEF EnsureOwnerPeer
  <2>2. lastId \in Nat /\ Table(rows, lastId)
    BY <1>1, TypeTable DEF TypeOK
  <2>3. /\ \A q \in Peers : session[q] = NoSession
        /\ \A j \in Jobs : job[j] = NoJob
    BY <1>3 DEF StoreInv, SessionInv, NothingFoldedBeforeOwner
  <2>4. \A r \in rows : given(r) \in Row /\ given(r).id = r.id
    BY <2>2 DEF Table, Row, PeerIds
  <2>5. Table(rows', lastId')
    <3>1. rows' \subseteq Row /\ \A r \in rows' : r.id <= lastId'
      BY <2>1, <2>2, <2>4 DEF Table
    <3>2. ASSUME NEW r \in rows', NEW s \in rows', r.id = s.id PROVE r = s
      <4> HIDE DEF given
      <4>1. PICK r0 \in rows : r = given(r0)
        BY <2>1
      <4>2. PICK s0 \in rows : s = given(s0)
        BY <2>1
      <4>3. r0.id = s0.id
        BY <3>2, <4>1, <4>2, <2>4
      <4>4. r0 = s0
        BY <2>2, <4>3 DEF Table
      <4>5. QED
        BY <4>1, <4>2, <4>4
    <3>3. QED
      BY <3>1, <3>2 DEF Table
  <2>6. ASSUME NEW q \in Peers, q # p PROVE PeerRows(q)' = PeerRows(q)
    <3>1. \A r \in rows : given(r).peer = q <=> r.peer = q
      BY <2>2, <2>6 DEF Table, Row, StoreAssumption
    <3>2. \A r \in rows : r.peer = q => given(r) = r
      BY <2>6 DEF StoreAssumption
    <3> HIDE DEF given
    <3>3. PeerRows(q)' = {r \in rows' : r.peer = q}
      BY DEF PeerRows
    <3>4. ASSUME NEW r \in rows', r.peer = q PROVE r \in PeerRows(q)
      <4>1. PICK r0 \in rows : r = given(r0)
        BY <2>1
      <4>2. QED
        BY <3>1, <3>2, <3>4, <4>1 DEF PeerRows
    <3>5. ASSUME NEW r \in PeerRows(q) PROVE r \in rows' /\ r.peer = q
      BY <2>1, <3>2 DEF PeerRows
    <3>6. QED
      BY <3>3, <3>4, <3>5
  <2>7. TypeOK'
    <3>1. IsFiniteSet(rows')
      BY <2>1, <2>2, <2>5, TableFinite
    <3>2. \A q \in Peers \ {owner'} : Keep # 0 => Cardinality(PeerRows(q)') <= Keep
      BY <1>1, <1>3, <2>1, <2>6 DEF TypeOK, StoreAssumption
    <3>3. owner' \in PeerIds /\ session' \in [Peers -> Session] /\ job' \in [Jobs -> Job]
      BY <1>1, <2>1 DEF TypeOK, PeerIds
    <3>4. QED
      BY <2>1, <2>2, <2>5, <3>1, <3>2, <3>3 DEF TypeOK, Table
  <2>8. SessionInv'
    BY <1>3, <2>1, <2>2, <2>3 DEF StoreInv, SessionInv, IdsGivenOut,
       NothingFoldedBeforeOwner, LivePeer, Live
  <2>9. \A r \in rows' : ~(r.id <= 0)
    BY <2>5 DEF Table, Row
  <2>10. CoverInv'
    BY <2>1, <2>3, <2>9 DEF CoverInv, SummaryCoversCursor, JobCovers, Live, NoSession, PeerRows
  <2>11. RecentInv'
    BY <2>1, <2>3 DEF RecentInv, SummaryStaysBehindRecent, JobStaysBehindRecent, Live, NoSession
  <2>12. QED
    BY <2>7, <2>8, <2>10, <2>11 DEF StoreInv
<1>4. QED
  BY <1>2, <1>3

\* The batch starts right behind the cursor and leaves nothing out.
LEMMA BatchHasNoGap ==
    ASSUME StoreAssumption, TypeOK, NEW p \in Peers, NEW to \in Batch(p),
           NEW r \in PeerRows(p), r.msg \in Foldable, r.id <= to,
           r.id > session[p].until
    PROVE  r.id \in Batch(p)
<1> DEFINE C == Candidates(p)
           older(x) == {s \in C : s.id < x.id}
<1>1. PICK last \in C : last.id = to /\ last \in Oldest(C, BatchSize)
  BY DEF Batch, Oldest
<1>2. Table(PeerRows(p), lastId) /\ lastId \in Nat
  BY TypeTable DEF TypeOK
<1>3. C \subseteq PeerRows(p) /\ last \notin Newest(PeerRows(p), KeepRecent)
  BY <1>1 DEF Candidates
<1>4. last \in PeerRows(p) /\ last.id \in Nat /\ r.id \in Nat /\ r.id <= last.id
  BY <1>1, <1>2, <1>3 DEF Table, Row
<1>5. r \notin Newest(PeerRows(p), KeepRecent)
  BY <1>2, <1>3, <1>4, NewestUpward DEF StoreAssumption
<1>6. r \in C
  BY <1>5 DEF Candidates
<1> HIDE DEF C
<1>7. IsFiniteSet(C)
  BY <1>2, <1>3, TableFinite, FS_Subset
<1>8. older(r) \in SUBSET older(last)
  BY <1>2, <1>3, <1>4 DEF Table, Row
<1>9. /\ IsFiniteSet(older(last)) /\ Cardinality(older(last)) \in Nat
      /\ Cardinality(older(r)) \in Nat
  BY <1>7, CountNewer
<1>10. Cardinality(older(r)) <= Cardinality(older(last))
  BY <1>8, <1>9, FS_Subset
<1>11. Cardinality(older(last)) < BatchSize
  BY <1>1 DEF Oldest
<1>12. Cardinality(older(r)) < BatchSize
  BY <1>9, <1>10, <1>11 DEF StoreAssumption
<1>13. r \in Oldest(C, BatchSize)
  BY <1>6, <1>12 DEF Oldest
<1>14. QED
  BY <1>13 DEF Batch, C

LEMMA FetchKeepsInv ==
    ASSUME StoreAssumption, StoreInv, OwnerBound, NEW j \in Jobs, NEW p \in Peers,
           FetchLongSummaryBatch(j, p)
    PROVE  StoreInv'
<1> DEFINE new == [peer |-> p, base |-> session[p].folded, batch |-> Batch(p)]
<1>1. /\ UNCHANGED <<rows, lastId, owner, session>>
      /\ job' = [job EXCEPT ![j] = new]
      /\ TypeOK
  BY DEF FetchLongSummaryBatch, StoreInv
<1>2. /\ Table(PeerRows(p), lastId) /\ lastId \in Nat
      /\ \A i \in Jobs : job'[i] = IF i = j THEN new ELSE job[i]
      /\ \A q : PeerRows(q)' = PeerRows(q)
  BY <1>1, TypeTable DEF TypeOK, PeerRows
<1>3. ASSUME NEW id \in Batch(p)
      PROVE  /\ id \in Nat /\ id <= lastId
             /\ \A r \in PeerRows(p) : r.id = id => r \notin Newest(PeerRows(p), KeepRecent)
  <2>1. PICK s \in PeerRows(p) \ Newest(PeerRows(p), KeepRecent) : s.id = id
    BY DEF Batch, Oldest, Candidates
  <2>2. QED
    BY <1>2, <2>1 DEF Table, Row
<1>4. new \in Job
  BY <1>1, <1>3 DEF TypeOK, Session, Job, PeerIds
<1>5. TypeOK'
  <2>1. job' \in [Jobs -> Job]
    BY <1>1, <1>4 DEF TypeOK
  <2>2. QED
    BY <1>1, <2>1 DEF TypeOK, PeerRows
<1>6. SessionInv'
  <2>1. IdsGivenOut'
    BY <1>1, <1>2, <1>3 DEF StoreInv, SessionInv, IdsGivenOut
  <2>2. NothingFoldedBeforeOwner'
    BY <1>1 DEF NothingFoldedBeforeOwner, OwnerBound
  <2>3. LivePeer'
    BY <1>1, <1>2 DEF StoreInv, SessionInv, LivePeer, Live
  <2>4. QED
    BY <2>1, <2>2, <2>3 DEF SessionInv
<1>7. CoverInv'
  <2>1. SummaryCoversCursor'
    BY <1>1 DEF StoreInv, CoverInv, SummaryCoversCursor, PeerRows
  <2>2. ASSUME NEW to \in Batch(p), NEW r \in PeerRows(p), r.msg \in Foldable, r.id <= to
        PROVE  r.id \in session[p].folded \cup Batch(p)
    <3>1. CASE r.id <= session[p].until
      BY <2>2, <3>1 DEF StoreInv, CoverInv, SummaryCoversCursor
    <3>2. CASE ~(r.id <= session[p].until)
      <4>1. r.id > session[p].until
        BY <1>1, <1>2, <3>2 DEF TypeOK, Session, Table, Row
      <4>2. QED
        BY <1>1, <2>2, <4>1, BatchHasNoGap
    <3>3. QED
      BY <3>1, <3>2
  <2>3. ASSUME NEW i \in Jobs, job'[i] # NoJob, NEW to \in job'[i].batch,
               NEW q, q = job'[i].peer, NEW r \in PeerRows(q), r.msg \in Foldable, r.id <= to
        PROVE  r.id \in job'[i].base \cup job'[i].batch
    <3>1. CASE i = j
      BY <1>2, <2>2, <2>3, <3>1
    <3>2. CASE i # j
      <4>1. job'[i] = job[i] /\ Live(i)
        BY <1>2, <2>3, <3>2 DEF Live
      <4>2. QED
        BY <2>3, <4>1 DEF StoreInv, CoverInv, JobCovers
    <3>3. QED
      BY <3>1, <3>2
  <2>4. JobCovers'
    BY <1>1, <2>3 DEF JobCovers, Live, PeerRows
  <2>5. QED
    BY <2>1, <2>4 DEF CoverInv
<1>8. RecentInv'
  <2>1. SummaryStaysBehindRecent'
    BY <1>1 DEF StoreInv, RecentInv, SummaryStaysBehindRecent, PeerRows
  <2>2. ASSUME NEW r \in Newest(PeerRows(p), KeepRecent)
        PROVE  r.id \notin session[p].folded \cup Batch(p)
    <3>1. r.id \notin session[p].folded
      BY DEF StoreInv, RecentInv, SummaryStaysBehindRecent
    <3>2. r \in PeerRows(p)
      BY DEF Newest
    <3>3. QED
      BY <1>3, <3>1, <3>2
  <2>3. ASSUME NEW i \in Jobs, job'[i] # NoJob, NEW q, q = job'[i].peer,
               NEW r \in Newest(PeerRows(q), KeepRecent)
        PROVE  r.id \notin job'[i].base \cup job'[i].batch
    <3>1. CASE i = j
      BY <1>2, <2>2, <2>3, <3>1
    <3>2. CASE i # j
      <4>1. job'[i] = job[i] /\ Live(i)
        BY <1>2, <2>3, <3>2 DEF Live
      <4>2. QED
        BY <2>3, <4>1 DEF StoreInv, RecentInv, JobStaysBehindRecent
    <3>3. QED
      BY <3>1, <3>2
  <2>4. JobStaysBehindRecent'
    BY <1>1, <2>3 DEF JobStaysBehindRecent, Live, PeerRows
  <2>5. QED
    BY <2>1, <2>4 DEF RecentInv
<1>9. QED
  BY <1>5, <1>6, <1>7, <1>8 DEF StoreInv

\* A task that ends without writing.
LEMMA EndedJobKeepsInv ==
    ASSUME StoreAssumption, StoreInv, NEW j \in Jobs, job' = [job EXCEPT ![j] = NoJob],
           UNCHANGED <<rows, lastId, owner, session>>
    PROVE  StoreInv'
<1>1. /\ TypeOK
      /\ \A i \in Jobs : job'[i] = IF i = j THEN NoJob ELSE job[i]
  BY DEF StoreInv, TypeOK
<1>2. \A i \in Jobs : job'[i] # NoJob => job'[i] = job[i] /\ Live(i)
  BY <1>1 DEF Live
<1>3. NoJob \in Job
  BY DEF NoJob, Job, PeerIds
<1>4. TypeOK'
  <2>1. job' \in [Jobs -> Job]
    BY <1>1, <1>3 DEF TypeOK
  <2>2. QED
    BY <1>1, <2>1 DEF TypeOK, PeerRows
<1>5. SessionInv'
  <2>1. IdsGivenOut'
    BY <1>1 DEF StoreInv, SessionInv, IdsGivenOut, NoJob
  <2>2. NothingFoldedBeforeOwner'
    BY <1>1 DEF StoreInv, SessionInv, NothingFoldedBeforeOwner
  <2>3. LivePeer'
    BY <1>2 DEF StoreInv, SessionInv, LivePeer, Live
  <2>4. QED
    BY <2>1, <2>2, <2>3 DEF SessionInv
<1>6. CoverInv'
  <2>1. SummaryCoversCursor'
    BY DEF StoreInv, CoverInv, SummaryCoversCursor, PeerRows
  <2>2. JobCovers'
    BY <1>2 DEF StoreInv, CoverInv, JobCovers, Live, PeerRows
  <2>3. QED
    BY <2>1, <2>2 DEF CoverInv
<1>7. RecentInv'
  <2>1. SummaryStaysBehindRecent'
    BY DEF StoreInv, RecentInv, SummaryStaysBehindRecent, PeerRows
  <2>2. JobStaysBehindRecent'
    BY <1>2 DEF StoreInv, RecentInv, JobStaysBehindRecent, Live, PeerRows
  <2>3. QED
    BY <2>1, <2>2 DEF RecentInv
<1>8. QED
  BY <1>4, <1>5, <1>6, <1>7 DEF StoreInv

LEMMA UpdateKeepsInv ==
    ASSUME StoreAssumption, StoreInv, NEW j \in Jobs, UpdateLongSummary(j)
    PROVE  StoreInv'
<1> DEFINE p == job[j].peer
<1>1. PICK to \in job[j].batch :
          session' = IF session[p].until <= to
                     THEN [session EXCEPT ![p] =
                              [until |-> to, folded |-> job[j].base \cup job[j].batch]]
                     ELSE session
  BY DEF UpdateLongSummary
<1>2. /\ Live(j) /\ job' = [job EXCEPT ![j] = NoJob]
      /\ UNCHANGED <<rows, lastId, owner>>
      /\ TypeOK
  BY DEF UpdateLongSummary, StoreInv, Live
<1>3. CASE ~(session[p].until <= to)
  <2>1. UNCHANGED session
    BY <1>1, <1>3
  <2>2. QED
    BY <1>2, <2>1, EndedJobKeepsInv
<1>4. CASE session[p].until <= to
  <2> DEFINE new == [until |-> to, folded |-> job[j].base \cup job[j].batch]
  <2>1. /\ p \in Peers /\ owner # Unbound /\ new \in Session /\ to <= lastId
        /\ \A id \in new.folded : id <= lastId
    BY <1>2 DEF StoreInv, SessionInv, LivePeer, NothingFoldedBeforeOwner, Live,
                TypeOK, Job, Session, IdsGivenOut
  <2>2. \A q \in Peers : session'[q] = IF q = p THEN new ELSE session[q]
    BY <1>1, <1>2, <1>4, <2>1 DEF TypeOK
  <2>3. \A i \in Jobs : job'[i] = IF i = j THEN NoJob ELSE job[i]
    BY <1>2 DEF TypeOK
  <2>4. \A i \in Jobs : job'[i] # NoJob => job'[i] = job[i] /\ Live(i)
    BY <2>3 DEF Live
  <2>5. TypeOK'
    <3>1. NoJob \in Job
      BY DEF NoJob, Job, PeerIds
    <3>2. job' \in [Jobs -> Job]
      BY <1>2, <3>1 DEF TypeOK
    <3>3. session' = [session EXCEPT ![p] = new]
      BY <1>1, <1>4
    <3>4. session' \in [Peers -> Session]
      BY <1>2, <2>1, <3>3 DEF TypeOK
    <3>5. QED
      BY <1>2, <3>2, <3>4 DEF TypeOK, PeerRows
  <2>6. SessionInv'
    <3>1. IdsGivenOut'
      BY <1>2, <2>1, <2>2, <2>3 DEF StoreInv, SessionInv, IdsGivenOut, NoJob
    <3>2. NothingFoldedBeforeOwner'
      BY <1>2, <2>1 DEF NothingFoldedBeforeOwner
    <3>3. LivePeer'
      BY <2>4 DEF StoreInv, SessionInv, LivePeer, Live
    <3>4. QED
      BY <3>1, <3>2, <3>3 DEF SessionInv
  <2>7. CoverInv'
    <3>1. \A r \in PeerRows(p) : r.msg \in Foldable /\ r.id <= to => r.id \in new.folded
      BY <1>1, <1>2 DEF StoreInv, CoverInv, JobCovers
    <3>2. SummaryCoversCursor'
      BY <1>2, <2>2, <3>1 DEF StoreInv, CoverInv, SummaryCoversCursor, PeerRows
    <3>3. JobCovers'
      BY <1>2, <2>4 DEF StoreInv, CoverInv, JobCovers, Live, PeerRows
    <3>4. QED
      BY <3>2, <3>3 DEF CoverInv
  <2>8. RecentInv'
    <3>1. \A r \in Newest(PeerRows(p), KeepRecent) : r.id \notin new.folded
      BY <1>2 DEF StoreInv, RecentInv, JobStaysBehindRecent
    <3>2. SummaryStaysBehindRecent'
      BY <1>2, <2>2, <3>1 DEF StoreInv, RecentInv, SummaryStaysBehindRecent, PeerRows
    <3>3. JobStaysBehindRecent'
      BY <1>2, <2>4 DEF StoreInv, RecentInv, JobStaysBehindRecent, Live, PeerRows
    <3>4. QED
      BY <3>2, <3>3 DEF RecentInv
  <2>9. QED
    BY <2>5, <2>6, <2>7, <2>8 DEF StoreInv
<1>5. QED
  BY <1>3, <1>4

LEMMA ReopenKeepsInv ==
    ASSUME StoreAssumption, StoreInv, NEW clear \in BOOLEAN, Reopen(clear)
    PROVE  StoreInv'
<1>1. /\ \A j \in Jobs : job'[j] = NoJob
      /\ UNCHANGED <<lastId, owner>>
      /\ TypeOK
  BY DEF Reopen, StoreInv
<1>2. job' \in [Jobs -> Job]
  BY DEF Reopen, NoJob, Job, PeerIds
<1>3. lastId \in Nat /\ \A id \in NoJob.base \cup NoJob.batch : id <= lastId
  BY <1>1 DEF TypeOK, NoJob
<1>4. CASE ~clear
  <2>1. UNCHANGED <<rows, session>>
    BY <1>4 DEF Reopen
  <2>2. TypeOK'
    BY <1>1, <1>2, <2>1 DEF TypeOK, PeerRows
  <2>3. SessionInv'
    BY <1>1, <1>3, <2>1 DEF StoreInv, SessionInv, IdsGivenOut, NothingFoldedBeforeOwner,
                            LivePeer, Live
  <2>4. CoverInv'
    BY <1>1, <2>1 DEF StoreInv, CoverInv, SummaryCoversCursor, JobCovers, Live, PeerRows
  <2>5. RecentInv'
    BY <1>1, <2>1 DEF StoreInv, RecentInv, SummaryStaysBehindRecent,
                      JobStaysBehindRecent, Live, PeerRows
  <2>6. QED
    BY <2>2, <2>3, <2>4, <2>5 DEF StoreInv
<1>5. CASE clear
  <2>1. /\ rows' = {} /\ session' = [p \in Peers |-> NoSession]
        /\ \A p \in Peers : session'[p] = NoSession
    BY <1>5 DEF Reopen
  <2>2. \A p : PeerRows(p)' = {}
    BY <2>1 DEF PeerRows
  <2>3. TypeOK'
    <3>1. Cardinality({}) = 0 /\ IsFiniteSet({})
      BY FS_EmptySet
    <3>2. session' \in [Peers -> Session]
      BY <2>1 DEF NoSession, Session
    <3>3. \A p \in Peers \ {owner'} : Keep # 0 => Cardinality(PeerRows(p)') <= Keep
      BY <2>2, <3>1 DEF StoreAssumption
    <3>4. lastId' \in Nat /\ owner' \in PeerIds
      BY <1>1 DEF TypeOK
    <3>5. QED
      BY <1>2, <2>1, <3>1, <3>2, <3>3, <3>4 DEF TypeOK
  <2>4. SessionInv'
    BY <1>1, <1>3, <2>1 DEF SessionInv, IdsGivenOut, NothingFoldedBeforeOwner,
                            LivePeer, Live, NoSession
  <2>5. CoverInv'
    BY <1>1, <2>2 DEF CoverInv, SummaryCoversCursor, JobCovers, Live
  <2>6. RecentInv'
    BY <1>1, <2>1 DEF RecentInv, SummaryStaysBehindRecent, JobStaysBehindRecent,
                      Live, NoSession
  <2>7. QED
    BY <2>3, <2>4, <2>5, <2>6 DEF StoreInv
<1>6. QED
  BY <1>4, <1>5

LEMMA StoreStep == StoreAssumption /\ StoreInv /\ [Next]_storeVars => StoreInv'
<1> SUFFICES ASSUME StoreAssumption, StoreInv, [Next]_storeVars PROVE StoreInv'
  OBVIOUS
<1>1. ASSUME NEW p \in PeerIds, NEW m \in Messages, AppendMessage(p, m) PROVE StoreInv'
  <2>1. <<m>> \in Seq(Messages) /\ Inserted(p, <<m>>)
    BY <1>1 DEF AppendMessage
  <2>2. QED
    BY <2>1, InsertedKeepsInv
<1>2. ASSUME NEW p \in PeerIds, NEW m \in Foldable, NEW n \in Foldable, AppendPair(p, m, n)
      PROVE  StoreInv'
  <2>1. <<m, n>> \in Seq(Messages) /\ Inserted(p, <<m, n>>)
    BY <1>2 DEF AppendPair, StoreAssumption
  <2>2. QED
    BY <2>1, InsertedKeepsInv
<1>3. ASSUME NEW p \in Peers, EnsureOwnerPeer(p) PROVE StoreInv'
  BY <1>3, EnsureOwnerKeepsInv
<1>4. ASSUME NEW p \in Peers, NEW j \in Jobs, OwnerBound, FetchLongSummaryBatch(j, p)
      PROVE  StoreInv'
  BY <1>4, FetchKeepsInv
<1>5. ASSUME NEW j \in Jobs, UpdateLongSummary(j) PROVE StoreInv'
  BY <1>5, UpdateKeepsInv
<1>6. ASSUME NEW j \in Jobs, CompactionFails(j) PROVE StoreInv'
  BY <1>6, EndedJobKeepsInv DEF CompactionFails
<1>7. ASSUME NEW clear \in BOOLEAN, Reopen(clear) PROVE StoreInv'
  BY <1>7, ReopenKeepsInv
<1>8. ASSUME UNCHANGED storeVars PROVE StoreInv'
  BY <1>8 DEF StoreInv, TypeOK, SessionInv, IdsGivenOut, NothingFoldedBeforeOwner,
              LivePeer, CoverInv, RecentInv, SummaryCoversCursor, JobCovers,
              SummaryStaysBehindRecent, JobStaysBehindRecent, Live, PeerRows, storeVars
<1>9. QED
  BY <1>1, <1>2, <1>3, <1>4, <1>5, <1>6, <1>7, <1>8 DEF Next

----------------------------------------------------------------------------
\* Theorems

LEMMA StoreInvariant == Spec => []StoreInv
<1>1. Init => StoreInv
  BY StoreAssumption, StoreInit
<1>2. StoreInv /\ [Next]_storeVars => StoreInv'
  BY StoreAssumption, StoreStep
<1>3. QED
  BY <1>1, <1>2, PTL DEF Spec

\* The table and what is kept about it are well formed: ids are given out once,
\* and prune_peer_history keeps every peer but the owner within
\* CHAT_HISTORY_MAX_PER_PEER rows.
THEOREM StoreTypeCorrect == Spec => []TypeOK
<1>1. StoreInv => TypeOK
  BY DEF StoreInv
<1>2. QED
  BY <1>1, StoreInvariant, PTL

\* FetchLongSummaryBatch and UpdateLongSummary skip no message, however many
\* compactions of one peer overlap, fail or are cut off by a restart.
THEOREM SummaryComplete == Spec => []SummaryCoversCursor
<1>1. StoreInv => SummaryCoversCursor
  BY DEF StoreInv, CoverInv
<1>2. QED
  BY <1>1, StoreInvariant, PTL

\* LLM_LONG_SUMMARY_KEEP_RECENT: a compaction never puts one of the KeepRecent
\* newest messages into the summary, although rows are added and pruned between
\* what it reads and what it writes.
THEOREM SummaryBehindRecent == Spec => []SummaryStaysBehindRecent
<1>1. StoreInv => SummaryStaysBehindRecent
  BY DEF StoreInv, RecentInv
<1>2. QED
  BY <1>1, StoreInvariant, PTL

\* The guard of UpdateLongSummary: a late answer never replaces a summary that
\* reaches further.
THEOREM CursorMonotone == Spec => CursorNeverMovesBack
<1> DEFINE Forward == \A p \in Peers : session'[p].until < session[p].until => rows' = {}
<1>1. StoreInv /\ [Next]_storeVars => Forward
  <2> SUFFICES ASSUME StoreInv, [Next]_storeVars PROVE Forward
    OBVIOUS
  <2>1. /\ \A p \in Peers : session[p].until \in Nat
        /\ session \in [Peers -> Session]
        /\ \A j \in Jobs : job[j] # NoJob => job[j].peer \in Peers /\ job[j].batch \subseteq Nat
    BY DEF StoreInv, TypeOK, Session, Job, SessionInv, LivePeer, Live
  <2>2. CASE UNCHANGED session
    BY <2>1, <2>2
  <2>3. ASSUME NEW j \in Jobs, UpdateLongSummary(j) PROVE Forward
    <3>1. PICK to \in job[j].batch :
              session' = IF session[job[j].peer].until <= to
                         THEN [session EXCEPT ![job[j].peer] =
                                  [until |-> to, folded |-> job[j].base \cup job[j].batch]]
                         ELSE session
      BY <2>3 DEF UpdateLongSummary
    <3>2. CASE session[job[j].peer].until <= to
      <4>1. to \in Nat /\ job[j].peer \in Peers
        BY <2>1, <2>3 DEF UpdateLongSummary
      <4>2. \A p \in Peers : session'[p].until = IF p = job[j].peer THEN to
                                                 ELSE session[p].until
        BY <2>1, <3>1, <3>2
      <4>3. QED
        BY <2>1, <3>2, <4>1, <4>2
    <3>3. CASE ~(session[job[j].peer].until <= to)
      BY <2>1, <3>1, <3>3
    <3>4. QED
      BY <3>2, <3>3
  <2>4. ASSUME NEW clear \in BOOLEAN, Reopen(clear) PROVE Forward
    BY <2>1, <2>4 DEF Reopen
  <2>5. QED
    BY <2>2, <2>3, <2>4 DEF Next, AppendMessage, AppendPair, Inserted, EnsureOwnerPeer,
                            FetchLongSummaryBatch, CompactionFails, storeVars
<1>2. StoreInv /\ [Next]_storeVars => [Forward]_storeVars
  BY <1>1
<1>3. QED
  BY <1>2, StoreInvariant, PTL DEF Spec, CursorNeverMovesBack
=============================================================================
