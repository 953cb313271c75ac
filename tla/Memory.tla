------------------------------- MODULE Memory -------------------------------
(***************************************************************************)
(* plugins/memory-plugin/src/lib.rs: what the assistant remembers of a     *)
(* person.  Messages of a peer are buffered; with extract_every of them a  *)
(* thread of its own asks the LLM for facts and for the old facts they     *)
(* contradict, and stores what comes back in data/memories.db.  The        *)
(* pipeline puts snapshot_for_peer into the context of each turn.          *)
(*                                                                         *)
(* A row is known by its id, which is its place in rows: ids are given out *)
(* by AUTOINCREMENT and nothing deletes a row.  created_at is an age in    *)
(* days, which stops counting past the visible window; a step holds the    *)
(* lock of SharedState except where a thread waits for the LLM.            *)
(*                                                                         *)
(* A message whose event names no peer, or without text, is not heard.     *)
(* Left out: categories, importance and the layout of a snapshot, which    *)
(* order what is shown and change nothing that is stored.                  *)
(***************************************************************************)
EXTENDS Integers, Sequences, FiniteSets

CONSTANTS
    Peers,
    Owners,            \* bound on who may become the owner
    Facts,             \* texts of facts
    FactsOf,           \* bound on the facts the LLM finds about each peer
    Legacy,            \* those an old version may have stored
    ExtractEvery,      \* MEMORY_EXTRACT_EVERY
    VisibleDays,       \* SUPERSEDED_VISIBLE_DAYS
    MaxCount,          \* bound on the buffered messages of each peer
    MaxFacts,          \* bound on the facts of one answer
    Nobody             \* no owner; the empty peer_id of rows of old versions

ASSUME MemoryAssumption ==
    /\ ExtractEvery \in Nat /\ VisibleDays \in Nat
    /\ MaxCount \in [Peers -> Nat]
    /\ MaxFacts \in Nat
    /\ Legacy \subseteq Facts /\ IsFiniteSet(Legacy)
    /\ FactsOf \in [Peers -> SUBSET Facts]
    /\ Owners \subseteq Peers /\ Nobody \notin Peers

VARIABLES
    rows,      \* memories
    count,     \* buffer and msg_count of each peer
    offered,   \* the messages a call asks the LLM about, -1 without a call
    owner,     \* owner_binding of the chat store
    down       \* the process has died and is not started again

memoryVars == <<rows, count, offered, owner, down>>

----------------------------------------------------------------------------
\* Data

Ids == DOMAIN rows
Least(a, b) == IF a < b THEN a ELSE b

\* is_active: 1 current, 0 superseded and still shown, -1 archived.
Row(p, f, age) ==
    [peer |-> p, fact |-> f, active |-> 1, by |-> 0, age |-> age]

RowType ==
    [peer : Peers \cup {Nobody}, fact : Facts, active : {-1, 0, 1}, by : Nat,
     age : 0..(VisibleDays + 1)]

\* One fact of an answer; supersedes is any id the LLM may name, 0 for none.
Extracted(p, n) == [fact : FactsOf[p], supersedes : 0..n]

NotAsking == -1
Extracting(p) == offered[p] # NotAsking
NoOffers == [p \in Peers |-> NotAsking]
NoMessages == [p \in Peers |-> 0]

\* Rows written by a version that knew no peers.
MemoryInit ==
    /\ \E n \in 0..Cardinality(Legacy) : \E s \in [1..n -> Legacy] :
           /\ \A i, j \in 1..n : s[i] = s[j] => i = j
           /\ rows = [i \in 1..n |-> Row(Nobody, s[i], 0)]
    /\ count = NoMessages
    /\ offered = NoOffers
    /\ owner = Nobody
    /\ down = FALSE

----------------------------------------------------------------------------
\* The database

Says(row, p, f) == row.peer = p /\ row.fact = f
Find(r, p, f) == {i \in DOMAIN r : Says(r[i], p, f)}

UpsertTwice(r, p, f) == Append(r, Row(p, f, 0))

UpsertKeepsFlag(r, p, f) ==
    IF Find(r, p, f) = {} THEN Append(r, Row(p, f, 0))
    ELSE [i \in DOMAIN r |->
             IF Says(r[i], p, f) THEN [r[i] EXCEPT !.age = 0] ELSE r[i]]

\* The upsert: a known fact is current again and new; the
\* pointer to what superseded it stays behind.
Upsert(r, p, f) ==
    IF Find(r, p, f) = {} THEN Append(r, Row(p, f, 0))
    ELSE [i \in DOMAIN r |->
             IF Says(r[i], p, f)
             THEN [r[i] EXCEPT !.active = 1, !.age = 0]
             ELSE r[i]]

SupersedeAnyPeer(r, p, old, new) ==
    [i \in DOMAIN r |->
        IF i = old /\ r[i].active = 1
        THEN [r[i] EXCEPT !.active = 0, !.by = new]
        ELSE r[i]]

Supersede(r, p, old, new) ==
    [i \in DOMAIN r |->
        IF i = old /\ r[i].peer = p /\ r[i].active = 1
        THEN [r[i] EXCEPT !.active = 0, !.by = new]
        ELSE r[i]]

StoreOne(r, p, x) ==
    LET u == Upsert(r, p, x.fact)
    IN  Supersede(u, p, x.supersedes, CHOOSE i \in Find(u, p, x.fact) : TRUE)

\* Superseded facts that were stored before the window are not shown any more.
Archive(r) ==
    [i \in DOMAIN r |->
        IF r[i].active = 0 /\ r[i].age > VisibleDays
        THEN [r[i] EXCEPT !.active = -1]
        ELSE r[i]]

\* An upsert that fails is logged and skipped, as if it had not been in xs.
StoreEach(r, p, xs) ==
    LET after[k \in 0..Len(xs)] == IF k = 0 THEN r ELSE StoreOne(after[k - 1], p, xs[k])
    IN  after[Len(xs)]

StoreFacts(r, p, xs) == Archive(StoreEach(r, p, xs))

\* Rows without a peer become the owner's, in one statement that fails as a
\* whole when the owner has one of the facts already: UNIQUE(peer_id, fact).
Backfill ==
    IF owner = Nobody
       \/ \E i \in Ids : rows[i].peer = Nobody /\ Find(rows, owner, rows[i].fact) # {}
    THEN rows
    ELSE [i \in Ids |-> IF rows[i].peer = Nobody THEN [rows[i] EXCEPT !.peer = owner]
                                                 ELSE rows[i]]

----------------------------------------------------------------------------
\* Events, the extraction and its thread

\* A message while an extraction is in flight is not heard.
Ignores(p) == Extracting(p)

Buffers(p) ==
    /\ count[p] + 1 < ExtractEvery
    /\ count' = [count EXCEPT ![p] = @ + 1]
    /\ UNCHANGED <<rows, offered>>

\* Enough messages, earlier ones of a failed extraction among them.
BeginsExtraction(p) ==
    /\ count[p] + 1 >= ExtractEvery
    /\ count' = [count EXCEPT ![p] = @ + 1]
    /\ offered' = [offered EXCEPT ![p] = count[p] + 1]
    /\ rows' = Backfill

\* Mutation: a message while an extraction is in flight is buffered, and only the
\* next extraction is not begun.
BuffersAlways(p) ==
    /\ count[p] < MaxCount[p]
    /\ \/ ~Ignores(p) /\ BeginsExtraction(p)
       \/ (Ignores(p) \/ count[p] + 1 < ExtractEvery)
          /\ count' = [count EXCEPT ![p] = @ + 1] /\ UNCHANGED <<rows, offered>>
    /\ UNCHANGED <<owner, down>>

\* on_event, for user.message and assistant.message
Message(p) ==
    /\ ~Ignores(p)
    /\ count[p] < MaxCount[p]
    /\ Buffers(p) \/ BeginsExtraction(p)
    /\ UNCHANGED <<owner, down>>

\* Bounded to answers that repeat no fact.
Answers(p, n) ==
    UNION {{xs \in [1..k -> Extracted(p, n)] :
               \A i, j \in 1..k : i # j => xs[i].fact # xs[j].fact} : k \in 0..MaxFacts}

ExtractionSucceeds(p, xs) ==
    /\ Extracting(p)
    /\ rows' = StoreFacts(rows, p, xs)
    /\ count' = [count EXCEPT ![p] = 0]
    /\ offered' = [offered EXCEPT ![p] = NotAsking]
    /\ UNCHANGED <<owner, down>>

\* No LLM, an error of it, or an answer that is no JSON: the buffer stays.
ExtractionFails(p) ==
    /\ Extracting(p)
    /\ offered' = [offered EXCEPT ![p] = NotAsking]
    /\ UNCHANGED <<rows, count, owner, down>>

\* snapshot_for_peer, for any peer
Snapshot ==
    /\ rows' = Backfill
    /\ UNCHANGED <<count, offered, owner, down>>

\* The chat store binds the owner to the first peer that asks, once.
OwnerBound(p) ==
    /\ owner = Nobody
    /\ owner' = p
    /\ UNCHANGED <<rows, count, offered, down>>

DayPasses ==
    /\ \E i \in Ids : rows[i].age <= VisibleDays
    /\ rows' = [i \in Ids |-> [rows[i] EXCEPT !.age = Least(@ + 1, VisibleDays + 1)]]
    /\ UNCHANGED <<count, offered, owner, down>>

\* stop() closes the database, or the process is started again: a thread that still
\* waits for the LLM stores nothing, and the next instance of the plugin starts with
\* empty buffers.
Stop ==
    /\ count' = NoMessages
    /\ offered' = NoOffers
    /\ down' = FALSE
    /\ UNCHANGED <<rows, owner>>

\* The process dies while it stores an answer: each statement is committed by
\* itself, so what is before the point of the crash stays.  That is xs, or xs and
\* the upsert of a fact whose old one is not superseded yet; nothing is archived.
\* Bounded to deaths before the last fact of the longest answers is done.
DiesStoring(p, xs) ==
    /\ Extracting(p) /\ Len(xs) < MaxFacts
    /\ LET before == StoreEach(rows, p, xs)
       IN rows' = before \/ \E f \in FactsOf[p] : rows' = Upsert(before, p, f)
    /\ offered' = [offered EXCEPT ![p] = NotAsking]
    /\ down' = TRUE
    /\ UNCHANGED <<count, owner>>

MemoryNext ==
    \/ /\ ~down
       /\ \/ \E p \in Peers :
                \/ Message(p)
                \/ ExtractionFails(p)
                \/ p \in Owners /\ OwnerBound(p)
                \/ \E xs \in Answers(p, Len(rows)) :
                      ExtractionSucceeds(p, xs) \/ DiesStoring(p, xs)
          \/ Snapshot
          \/ DayPasses
    \/ Stop

MemorySpec == MemoryInit /\ [][MemoryNext]_memoryVars

----------------------------------------------------------------------------
\* Properties

(***************************************************************************)
(* Every fact is stored once for each peer, and its pointer is a row.      *)
(***************************************************************************)
MemoryTypeOK ==
    /\ rows \in Seq(RowType)
    /\ \A i, j \in Ids :
          rows[i].peer = rows[j].peer /\ rows[i].fact = rows[j].fact => i = j
    /\ \A i \in Ids : rows[i].by \in {0} \cup Ids
    /\ \A p \in Peers : count[p] \in 0..MaxCount[p]
    /\ \A p \in Peers : offered[p] \in {NotAsking} \cup ExtractEvery..MaxCount[p]
    /\ owner \in Peers \cup {Nobody} /\ down \in BOOLEAN

Outdated(i) == rows[i].active # 1

\* The rows that the pointers of outdated rows lead to from i.
LedTo(i) ==
    LET f[n \in 0..Len(rows)] ==
            IF n = 0 THEN {i}
            ELSE f[n - 1] \cup {rows[j].by : j \in {k \in f[n - 1] : Outdated(k)}}
    IN  f[Len(rows)]

(***************************************************************************)
(* What is outdated points to its successor, a fact of the same peer that  *)
(* is no older ("a superseded_by pointer to the newer fact"), and one gets *)
(* from it to a fact that is current: no order of contradictions, facts    *)
(* that are true again, deaths in the middle of an answer and wrong ids    *)
(* makes two outdated facts stand for each other.  Except one case: a fact *)
(* that the LLM reports again with its own id as the superseded one.       *)
(***************************************************************************)
SuccessorsAreCurrent ==
    \A i \in Ids : Outdated(i) =>
        /\ rows[i].by \in Ids
        /\ rows[rows[i].by].peer = rows[i].peer
        /\ rows[rows[i].by].age <= rows[i].age
        /\ \E j \in LedTo(i) : ~Outdated(j) \/ rows[j].by = j

\* Its thread stores the answer, or gives up.
ExtractionEnds(p) == Extracting(p) /\ ~Extracting(p)'

(***************************************************************************)
(* Whatever ids the LLM names, a fact of a peer is added or changes only   *)
(* when an extraction of that peer's own messages ends, however many other *)
(* extractions are under way; otherwise it grows older, is archived or     *)
(* is adopted from before there were peers.  Nothing is deleted.           *)
(***************************************************************************)
PeersApart ==
    [][/\ Ids \subseteq DOMAIN rows'
       /\ \A i \in DOMAIN rows' \ Ids : \E p \in Peers : rows'[i].peer = p /\ ExtractionEnds(p)
       /\ \A i \in Ids : rows'[i] # rows[i] =>
             \/ \E p \in Peers : rows[i].peer = p /\ ExtractionEnds(p)
             \/ rows'[i] = [rows[i] EXCEPT !.age = Least(@ + 1, VisibleDays + 1)]
             \/ rows[i].active = 0 /\ rows'[i] = [rows[i] EXCEPT !.active = -1]
             \/ rows[i].peer = Nobody /\ rows'[i] = [rows[i] EXCEPT !.peer = owner]
      ]_memoryVars

(***************************************************************************)
(* The end of an extraction clears the buffer as it is then, not as it was *)
(* offered to the LLM: no message is cleared that the LLM was not asked    *)
(* about, and after a failure all of them are offered again.               *)
(***************************************************************************)
NothingClearedUnseen ==
    [][\A p \in Peers :
          /\ offered[p] # NotAsking /\ count'[p] < count[p] => offered[p] = count[p]
          /\ offered'[p] # NotAsking => offered'[p] = count'[p]
      ]_memoryVars

(***************************************************************************)
(* "Days a superseded fact remains visible in snapshot": what has just     *)
(* been superseded is shown as outdated.                                   *)
(***************************************************************************)
SupersededStaysVisible ==
    [][\A i \in Ids : rows[i].active = 1 => rows'[i].active >= 0]_memoryVars

=============================================================================
