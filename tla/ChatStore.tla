----------------------------- MODULE ChatStore -----------------------------
(***************************************************************************)
(* ChatStoreActor (main-app/src/chat_store.rs), the SQLite table of all    *)
(* conversations, together with the background tasks of                    *)
(* main-app/src/llm_actor.rs (compact_long_summary) that fold old messages *)
(* into one rolling summary per peer.                                      *)
(*                                                                         *)
(* The actor handles one message at a time: one action per message that    *)
(* changes the database.  A compaction reads a batch, waits for the LLM    *)
(* and writes the summary back; meanwhile messages arrive, the table is    *)
(* pruned and other compactions of the same peer come and go.              *)
(*                                                                         *)
(* Left out: titles, previews, counts and timestamps of a session, which   *)
(* are recomputed from the rows after every change; the text of a summary, *)
(* of which only the messages it was made from are kept; its length limit. *)
(***************************************************************************)
EXTENDS Integers, Sequences, FiniteSets

CONSTANTS
    Peers,       \* peer ids that talk to the agent
    Unbound,     \* the empty peer_id
    Messages,    \* what a row may hold
    Foldable,    \* messages of role user or assistant with a text
    Jobs,        \* compaction tasks that may run at the same time
    Keep,        \* CHAT_HISTORY_MAX_PER_PEER, 0 = no limit
    KeepRecent,  \* LLM_LONG_SUMMARY_KEEP_RECENT
    BatchSize,   \* LLM_LONG_SUMMARY_BATCH_SIZE
    Legacy,      \* bound on the rows older than the peer column
    MaxRows      \* bound on the rows ever inserted

ASSUME StoreAssumption ==
    /\ Unbound \notin Peers
    /\ Foldable \subseteq Messages
    /\ Keep \in Nat /\ KeepRecent \in Nat /\ BatchSize \in Nat
    /\ Legacy \in Nat /\ MaxRows \in Nat

VARIABLES
    rows,     \* the chat_history table
    lastId,   \* AUTOINCREMENT: the last id given out, never reused
    owner,    \* the owner_binding row
    session,  \* the summary columns of chat_sessions
    job       \* what each compaction task has read

storeVars == <<rows, lastId, owner, session, job>>

----------------------------------------------------------------------------
\* Data

PeerIds == Peers \cup {Unbound}

Row == [id: Nat \ {0}, peer: PeerIds, msg: Messages]

\* folded is the set of ids the summary was made from.
Session == [until: Nat, folded: SUBSET Nat]

NoSession == [until |-> 0, folded |-> {}]

\* base: what the summary it builds on was made from; batch: the ids it adds.
Job == [peer: PeerIds, base: SUBSET Nat, batch: SUBSET Nat]

NoJob == [peer |-> Unbound, base |-> {}, batch |-> {}]

PeerRows(p) == {r \in rows : r.peer = p}

\* ORDER BY id DESC LIMIT n, and ORDER BY id ASC LIMIT n
Newest(S, n) == {r \in S : Cardinality({s \in S : s.id > r.id}) < n}
Oldest(S, n) == {r \in S : Cardinality({s \in S : s.id < r.id}) < n}

\* Mutation: old rows are not removed.
KeptAll(S) == S

\* prune_peer_history
Kept(S) == IF Keep = 0 THEN S ELSE Newest(S, Keep)

\* Mutation: the cutoff row itself is taken too.
CandidatesOneMore(p) ==
    {r \in PeerRows(p) \ Newest(PeerRows(p), KeepRecent - 1) :
        r.msg \in Foldable /\ r.id > session[p].until}

\* Messages old enough to be folded and not folded yet.
Candidates(p) ==
    {r \in PeerRows(p) \ Newest(PeerRows(p), KeepRecent) :
        r.msg \in Foldable /\ r.id > session[p].until}

\* Mutation: the newest candidates are taken first.
NewestBatch(p) == {r.id : r \in Newest(Candidates(p), BatchSize)}

Batch(p) == {r.id : r \in Oldest(Candidates(p), BatchSize)}

\* Ids are given out once, and nobody but the owner, who inherits the rows
\* without a peer unpruned, has more rows than the retention limit.
TypeOK ==
    /\ rows \subseteq Row /\ IsFiniteSet(rows)
    /\ lastId \in Nat
    /\ \A r \in rows : r.id <= lastId
    /\ \A r, s \in rows : r.id = s.id => r = s
    /\ \A p \in Peers \ {owner} : Keep # 0 => Cardinality(PeerRows(p)) <= Keep
    /\ owner \in PeerIds
    /\ session \in [Peers -> Session]
    /\ job \in [Jobs -> Job]

\* A fresh database, or one with rows of the time before peers.
Init ==
    /\ lastId \in 0..Legacy
    /\ \E text \in [1..lastId -> Messages] :
          rows = {[id |-> i, peer |-> Unbound, msg |-> text[i]] : i \in 1..lastId}
    /\ owner = Unbound
    /\ session = [p \in Peers |-> NoSession]
    /\ job = [j \in Jobs |-> NoJob]

----------------------------------------------------------------------------
\* Handlers

\* The messages ms are inserted for p, then prune_and_refresh_peer.
Inserted(p, ms) ==
    /\ lastId + Len(ms) <= MaxRows
    /\ lastId' = lastId + Len(ms)
    /\ LET new == {[id |-> lastId + i, peer |-> p, msg |-> ms[i]] : i \in DOMAIN ms} IN
       rows' = (rows \ PeerRows(p)) \cup Kept(PeerRows(p) \cup new)
    /\ UNCHANGED <<owner, session, job>>

\* AppendJsonMessage, AppendRecord and the append messages of the plugins.
AppendMessage(p, m) == Inserted(p, <<m>>)

\* AppendPair: what the user said and the answer, pruned once.
AppendPair(p, m, n) == Inserted(p, <<m, n>>)

\* The first peer becomes the owner for good and inherits the rows without a
\* peer; later calls only read.
EnsureOwnerPeer(p) ==
    IF owner # Unbound THEN UNCHANGED storeVars
    ELSE /\ owner' = p
         /\ rows' = {IF r.peer = Unbound THEN [r EXCEPT !.peer = p] ELSE r : r \in rows}
         /\ UNCHANGED <<lastId, session, job>>

\* FetchLongSummaryBatch for a compaction task; without candidates the task
\* ends.
FetchLongSummaryBatch(j, p) ==
    /\ job[j] = NoJob
    /\ UNCHANGED <<rows, lastId, owner, session>>
    /\ Batch(p) # {}
    /\ job' = [job EXCEPT ![j] = [peer |-> p, base |-> session[p].folded,
                                  batch |-> Batch(p)]]

\* UpdateLongSummary: the summary and the last id of the batch are written
\* unless the cursor is already beyond that id.
UpdateLongSummary(j) ==
    /\ job[j] # NoJob
    /\ \E to \in job[j].batch :
          /\ \A id \in job[j].batch : id <= to
          /\ session' = IF session[job[j].peer].until <= to
                        THEN [session EXCEPT ![job[j].peer] =
                                 [until |-> to, folded |-> job[j].base \cup job[j].batch]]
                        ELSE session
    /\ job' = [job EXCEPT ![j] = NoJob]
    /\ UNCHANGED <<rows, lastId, owner>>

\* The LLM call of a compaction failed or answered nothing.
CompactionFails(j) ==
    /\ job[j] # NoJob
    /\ job' = [job EXCEPT ![j] = NoJob]
    /\ UNCHANGED <<rows, lastId, owner, session>>

\* The process restarts; with CHAT_HISTORY_CLEAR_ON_START it first handles
\* ClearAll.
Reopen(clear) ==
    /\ job' = [j \in Jobs |-> NoJob]
    /\ IF clear THEN /\ rows' = {}
                     /\ session' = [p \in Peers |-> NoSession]
                ELSE UNCHANGED <<rows, session>>
    /\ UNCHANGED <<lastId, owner>>

\* What the store relies on: a compaction is started by a chat request, which
\* has bound the owner first.  The module Pipeline discharges this.
OwnerBound == owner # Unbound

Next ==
    \/ \E p \in PeerIds :
          \/ \E m \in Messages : AppendMessage(p, m)
          \/ \E m, n \in Foldable : AppendPair(p, m, n)
    \/ \E p \in Peers :
          \/ EnsureOwnerPeer(p)
          \/ \E j \in Jobs : OwnerBound /\ FetchLongSummaryBatch(j, p)
    \/ \E j \in Jobs : UpdateLongSummary(j) \/ CompactionFails(j)
    \/ \E clear \in BOOLEAN : Reopen(clear)

Spec == Init /\ [][Next]_storeVars

----------------------------------------------------------------------------
\* Properties

\* Nothing is skipped: every message on disk that the cursor has passed went
\* into the summary, however compactions of one peer overlap.
SummaryCoversCursor ==
    \A p \in Peers : \A r \in PeerRows(p) :
        r.msg \in Foldable /\ r.id <= session[p].until => r.id \in session[p].folded

\* LLM_LONG_SUMMARY_KEEP_RECENT (README.md:114: 长期压缩时保留的最近消息窗口, what
\* compression leaves alone): however long ago a compaction read its rows, its
\* summary never contains one of the KeepRecent newest messages of its peer.  What
\* a request sends verbatim is another setting, Window of the module Pipeline.
SummaryStaysBehindRecent ==
    \A p \in Peers : \A r \in Newest(PeerRows(p), KeepRecent) :
        r.id \notin session[p].folded

\* A slow compaction never takes the summary back to an earlier message; only
\* clearing the table does.
CursorNeverMovesBack ==
    [][\A p \in Peers :
          session'[p].until < session[p].until => rows' = {}]_storeVars
=============================================================================
