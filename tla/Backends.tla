------------------------------ MODULE Backends ------------------------------
(***************************************************************************)
(* The coordinators that keep the mutation log in a database: SQLite and   *)
(* Postgres (one connection behind a mutex, one transaction per push),     *)
(* Redis (single commands on a stream and on a set of pushed ids) and the  *)
(* Cloudflare durable object on D1 (single statements).  Which of them     *)
(* runs is chosen once, in Init; the log is that of one namespace.         *)
(* A command or a transaction of the database may fail.                    *)
(***************************************************************************)
EXTENDS Integers, Sequences, FiniteSets, SequencesExt

CONSTANTS
    Kinds,            \* the backends to consider
    MutationId,       \* mutation ids, chosen by the clients
    Doc,              \* documents (doc_id, record_id)
    DocOf,            \* the document a mutation changes
    Caller,           \* tasks that call push
    Subscriber,       \* subscription tasks, or sockets of the durable object
    Batch,            \* the batches the clients push
    MaxSeq,           \* bound: sequences handed out
    ChannelCapacity,  \* capacity of the broadcast channel (1024 in the code)
    PullLimit,        \* rows one query of a Postgres subscription returns (1000)
    MaxSnapshots,     \* bound: store_snapshot calls
    MaxFaults,        \* bound: failures of the database
    NoCaller          \* nobody holds the connection

ASSUME BackendsAssumption ==
    /\ Kinds \subseteq {"sqlite", "postgres", "redis", "cf"}
    /\ DocOf \in [MutationId -> Doc]
    /\ Batch \subseteq Seq(MutationId) /\ MaxSeq \in Nat /\ MaxSnapshots \in Nat /\ MaxFaults \in Nat
    /\ ChannelCapacity \in Nat \ {0} /\ PullLimit \in Nat \ {0}
    /\ NoCaller \notin Caller

VARIABLES
    kind,       \* the backend that runs
    table,      \* the committed rows: the mutations table, or the stream
    nextSeq,    \* the next row id, serial number or stream id
    pushed,     \* Redis: the set of pushed ids
    held,       \* SQLite, Postgres: the push that holds the connection
    call,       \* per caller: the push in progress
    channel,    \* SQLite: per subscriber, broadcast rows it has not received
    notices,    \* Postgres: per subscriber, notifications it has not received
    lagged,     \* per subscriber: the receiver was overrun since its last read
    sub,        \* per subscriber: the subscription
    snapshots,  \* per document: the stored snapshot
    compactor,  \* Redis, D1: snapshots compact has read but not yet applied
    stores,     \* number of store_snapshot calls so far (bound)
    faults,     \* number of failures so far (bound)
    committed,  \* history: every row that was ever committed
    answers,    \* history: every [seq, id] a push has returned
    missed,     \* history: per subscriber, rows the backend did not tell it of,
                \* or that a later one has overtaken
    delivered   \* history: what each subscription has sent to its client

pushVars == <<table, nextSeq, pushed, held, call, committed, answers>>
subVars == <<channel, notices, lagged, sub, missed, delivered>>
snapVars == <<snapshots, compactor, stores>>
vars == <<kind, pushVars, subVars, snapVars, faults>>

Row == [seq : 1..MaxSeq, id : MutationId]
Reply == [seq : 0..MaxSeq, id : MutationId]
Snap == [seq : Nat, covers : SUBSET MutationId]
NoSnap == [seq |-> 0, covers |-> {}]

Call == [pc : {"idle", "batch", "seq", "notify", "sending"}, todo : Seq(MutationId),
         fresh : SUBSET Row, replies : SUBSET Reply, outbox : Seq(Reply)]
Idle == [pc |-> "idle", todo |-> <<>>, fresh |-> {}, replies |-> {}, outbox |-> <<>>]

Sub == [pc : {"idle", "query", "replay", "stream"}, from : Nat, lastSent : Nat,
        rows : SUBSET Row, more : BOOLEAN]

TypeOK ==
    /\ kind \in Kinds
    /\ table \subseteq committed /\ committed \subseteq Row
    /\ nextSeq \in 1..(MaxSeq + 1)
    /\ pushed \subseteq MutationId
    /\ held \in Caller \cup {NoCaller}
    /\ call \in [Caller -> Call]
    /\ channel \in [Subscriber -> Seq(Row)]
    /\ notices \in [Subscriber -> 0..ChannelCapacity]
    /\ lagged \in [Subscriber -> BOOLEAN]
    /\ sub \in [Subscriber -> Sub]
    /\ snapshots \in [Doc -> Snap]
    /\ compactor \subseteq [doc : Doc, seq : Nat]
    /\ stores \in 0..MaxSnapshots /\ faults \in 0..MaxFaults
    /\ answers \subseteq Reply
    /\ missed \in [Subscriber -> SUBSET Row]
    /\ delivered \in [Subscriber -> Seq(Reply)]

\* Faulty variant: sequences start at 0, which no cursor lies below.
ZeroSeq == 0

\* The first sequence (AUTOINCREMENT, BIGSERIAL).
FirstSeq == 1

Init ==
    /\ kind \in Kinds
    /\ table = {} /\ committed = {} /\ answers = {}
    /\ nextSeq = FirstSeq
    /\ pushed = {}
    /\ held = NoCaller
    /\ call = [c \in Caller |-> Idle]
    /\ channel = [s \in Subscriber |-> <<>>]
    /\ notices = [s \in Subscriber |-> 0]
    /\ lagged = [s \in Subscriber |-> FALSE]
    /\ sub = [s \in Subscriber |-> [pc |-> "idle", from |-> 0, lastSent |-> 0,
                                    rows |-> {}, more |-> FALSE]]
    /\ snapshots = [d \in Doc |-> NoSnap]
    /\ compactor = {}
    /\ stores = 0 /\ faults = 0
    /\ missed = [s \in Subscriber |-> {}]
    /\ delivered = [s \in Subscriber |-> <<>>]

-----------------------------------------------------------------------------
(* push: what the backends share *)

\* SQLite and Postgres take the mutex of the connection for the whole
\* transaction; Redis and D1 run one command after the other.
Locks == kind \in {"sqlite", "postgres"}

PushBegin(c, batch) ==
    /\ call[c].pc = "idle"
    /\ nextSeq + Len(batch) <= MaxSeq + 1
    /\ Locks => held = NoCaller
    /\ held' = IF Locks THEN c ELSE held
    /\ call' = [call EXCEPT ![c] = [Idle EXCEPT !.pc = "batch", !.todo = batch]]
    /\ UNCHANGED <<kind, table, nextSeq, pushed, committed, answers, subVars, snapVars, faults>>

\* The mutation of the batch whose turn it is.
Current(c) == Head(call[c].todo)
AtMutation(c) == call[c].pc = "batch" /\ call[c].todo # <<>>
AtEnd(c) == call[c].pc = "batch" /\ call[c].todo = <<>>

\* The row or reply r answers the current mutation, and is to be broadcast
\* where that is left to the push.
Answered(c, r) ==
    [call[c] EXCEPT !.pc = "batch", !.todo = Tail(@), !.replies = @ \cup {r},
                    !.outbox = IF kind \in {"sqlite", "cf"} THEN Append(@, r) ELSE @]

\* The push returns: with its replies, or with an error.
Return(c) == /\ call' = [call EXCEPT ![c] = Idle]
             /\ answers' = answers \cup call[c].replies
Error(c) == /\ call' = [call EXCEPT ![c] = Idle]
            /\ UNCHANGED answers

Fault == faults < MaxFaults /\ faults' = faults + 1

-----------------------------------------------------------------------------
(* push: SQLite and Postgres *)

\* Faulty variant: the id is not UNIQUE.
RowsOfNone(rows, id) == {}

\* The rows with this id.
RowsOf(rows, id) == {r \in rows : r.id = id}

\* INSERT OR IGNORE; an ignored row is looked up.  A refused insert takes no
\* row id in SQLite.
SqliteInsert(c) ==
    /\ kind = "sqlite" /\ AtMutation(c)
    /\ LET old == RowsOf(table \cup call[c].fresh, Current(c))
           new == [seq |-> nextSeq, id |-> Current(c)]
       IN  \/ /\ old = {}
              /\ nextSeq' = nextSeq + 1
              /\ call' = [call EXCEPT ![c] = [Answered(c, new) EXCEPT !.fresh = @ \cup {new}]]
           \/ \E r \in old : /\ call' = [call EXCEPT ![c] = Answered(c, r)]
                             /\ UNCHANGED nextSeq
    /\ UNCHANGED <<kind, table, pushed, held, committed, answers, subVars, snapVars, faults>>

\* INSERT ... ON CONFLICT DO NOTHING RETURNING; a serial number is taken even
\* when the row is refused.
PostgresInsert(c) ==
    /\ kind = "postgres" /\ AtMutation(c)
    /\ nextSeq' = nextSeq + 1
    /\ LET old == RowsOf(table \cup call[c].fresh, Current(c))
           new == [seq |-> nextSeq, id |-> Current(c)]
       IN  \/ /\ old = {}
              /\ call' = [call EXCEPT ![c] = [Answered(c, new) EXCEPT !.fresh = @ \cup {new}]]
           \/ \E r \in old : call' = [call EXCEPT ![c] = Answered(c, r)]
    /\ UNCHANGED <<kind, table, pushed, held, committed, answers, subVars, snapVars, faults>>

\* The rows of the transaction become visible.
CommitRows(c) ==
    /\ table' = table \cup call[c].fresh
    /\ committed' = committed \cup call[c].fresh

\* After the commit the connection is free, and nothing has been broadcast.
SqliteCommit(c) ==
    /\ kind = "sqlite" /\ AtEnd(c)
    /\ CommitRows(c)
    /\ held' = NoCaller
    /\ call' = [call EXCEPT ![c].pc = "sending", ![c].fresh = {}]
    /\ UNCHANGED <<kind, nextSeq, pushed, answers, subVars, snapVars, faults>>

\* After the commit the connection is kept for the notification.
PostgresCommit(c) ==
    /\ kind = "postgres" /\ AtEnd(c)
    /\ CommitRows(c)
    /\ call' = [call EXCEPT ![c].pc = "notify", ![c].fresh = {}]
    /\ UNCHANGED <<kind, nextSeq, pushed, held, answers, subVars, snapVars, faults>>

\* A statement or the commit fails: the transaction is rolled back, with it
\* the row ids of SQLite, but not the serial numbers of Postgres.
Rollback(c) ==
    /\ Locks /\ call[c].pc = "batch"
    /\ Fault
    /\ Error(c)
    /\ held' = NoCaller
    /\ nextSeq' = IF kind = "sqlite" THEN nextSeq - Cardinality(call[c].fresh) ELSE nextSeq
    /\ UNCHANGED <<kind, table, pushed, committed, subVars, snapVars>>

\* tx.send: every receiver gets the row; one that is full loses its oldest.
Offer(queue, r) ==
    IF Len(queue) < ChannelCapacity THEN Append(queue, r) ELSE Append(Tail(queue), r)

Full(s) == Len(channel[s]) = ChannelCapacity

\* Rows that are committed, and still to be sent when a later one, r, is sent.
Overtaken(r) ==
    {p \in committed : /\ p.seq < r.seq
                       /\ \E d \in Caller : \E i \in 1..Len(call[d].outbox) :
                             call[d].pc = "sending" /\ call[d].outbox[i] = p}

\* Every row of the batch is broadcast, duplicates as well.
SqliteBroadcast(c) ==
    /\ kind = "sqlite" /\ call[c].pc = "sending" /\ call[c].outbox # <<>>
    /\ LET r == Head(call[c].outbox)
           live == {s \in Subscriber : sub[s].pc # "idle"}
       IN  /\ channel' = [s \in Subscriber |->
                            IF s \in live THEN Offer(channel[s], r) ELSE channel[s]]
           /\ lagged' = [s \in Subscriber |-> lagged[s] \/ (s \in live /\ Full(s))]
           /\ missed' = [s \in Subscriber |-> missed[s] \cup Overtaken(r)]
    /\ call' = [call EXCEPT ![c].outbox = Tail(@)]
    /\ UNCHANGED <<kind, table, nextSeq, pushed, held, committed, answers,
                   notices, sub, delivered, snapVars, faults>>

SqliteReturn(c) ==
    /\ kind = "sqlite" /\ call[c].pc = "sending" /\ call[c].outbox = <<>>
    /\ Return(c)
    /\ UNCHANGED <<kind, table, nextSeq, pushed, held, committed, subVars, snapVars, faults>>

\* pg_notify, which the listening task hands to every subscription.
PostgresNotify(c) ==
    /\ kind = "postgres" /\ call[c].pc = "notify"
    /\ notices' = [s \in Subscriber |->
                     IF sub[s].pc = "idle" \/ notices[s] = ChannelCapacity
                     THEN notices[s] ELSE notices[s] + 1]
    /\ lagged' = [s \in Subscriber |->
                    \/ lagged[s]
                    \/ sub[s].pc # "idle" /\ notices[s] = ChannelCapacity]
    /\ Return(c)
    /\ held' = NoCaller
    /\ UNCHANGED <<kind, table, nextSeq, pushed, committed, channel, sub, missed,
                   delivered, snapVars, faults>>

\* pg_notify fails: the push returns an error for rows that are committed.
PostgresNotifyFails(c) ==
    /\ kind = "postgres" /\ call[c].pc = "notify"
    /\ Fault
    /\ Error(c)
    /\ held' = NoCaller
    /\ missed' = [s \in Subscriber |-> missed[s] \cup (committed \cap call[c].replies)]
    /\ UNCHANGED <<kind, table, nextSeq, pushed, committed, channel, notices, lagged,
                   sub, delivered, snapVars>>

-----------------------------------------------------------------------------
(* push: Redis *)

\* SADD: an id that is in the set of pushed ids is answered with 0.
RedisSadd(c) ==
    /\ kind = "redis" /\ AtMutation(c)
    /\ pushed' = pushed \cup {Current(c)}
    /\ call' = [call EXCEPT ![c] =
                  IF Current(c) \in pushed THEN Answered(c, [seq |-> 0, id |-> Current(c)])
                                           ELSE [@ EXCEPT !.pc = "seq"]]
    /\ UNCHANGED <<kind, table, nextSeq, held, committed, answers, subVars, snapVars, faults>>

\* The database appends a row with the next sequence.
AppendRow(c) ==
    LET new == [seq |-> nextSeq, id |-> Current(c)]
    IN  /\ nextSeq <= MaxSeq
        /\ table' = table \cup {new}
        /\ committed' = committed \cup {new}
        /\ nextSeq' = nextSeq + 1

\* XADD: the stream id it returns is the sequence.
RedisXadd(c) ==
    /\ kind = "redis" /\ call[c].pc = "seq"
    /\ AppendRow(c)
    /\ call' = [call EXCEPT ![c] = Answered(c, [seq |-> nextSeq, id |-> Current(c)])]
    /\ UNCHANGED <<kind, pushed, held, answers, subVars, snapVars, faults>>

\* A command fails, before or after Redis has executed it.
RedisFails(c) ==
    /\ kind = "redis"
    /\ Fault
    /\ Error(c)
    /\ \/ /\ AtMutation(c)
          /\ pushed' \in {pushed, pushed \cup {Current(c)}}
          /\ UNCHANGED <<table, committed, nextSeq>>
       \/ /\ call[c].pc = "seq"
          /\ AppendRow(c) \/ UNCHANGED <<table, committed, nextSeq>>
          /\ UNCHANGED pushed
    /\ UNCHANGED <<kind, held, subVars, snapVars>>

RedisReturn(c) ==
    /\ kind = "redis" /\ AtEnd(c)
    /\ Return(c)
    /\ UNCHANGED <<kind, table, nextSeq, pushed, held, committed, subVars, snapVars, faults>>

-----------------------------------------------------------------------------
(* push: the durable object *)

\* A plain INSERT, committed on its own.
CfInsert(c) ==
    /\ kind = "cf" /\ AtMutation(c)
    /\ RowsOf(table, Current(c)) = {}
    /\ AppendRow(c)
    /\ call' = [call EXCEPT ![c].pc = "seq",
                            ![c].fresh = @ \cup {[seq |-> nextSeq, id |-> Current(c)]}]
    /\ UNCHANGED <<kind, pushed, held, answers, subVars, snapVars, faults>>

\* An error ends the handler: the rows inserted so far stay, unannounced.
CfEnds(c) ==
    /\ Error(c)
    /\ missed' = [s \in Subscriber |-> missed[s] \cup call[c].fresh]
    /\ UNCHANGED <<kind, table, nextSeq, pushed, held, committed, channel, notices,
                   lagged, sub, delivered, snapVars>>

\* The id is UNIQUE: a second INSERT of it is an error.
CfDuplicate(c) ==
    /\ kind = "cf" /\ AtMutation(c)
    /\ RowsOf(table, Current(c)) # {}
    /\ CfEnds(c)
    /\ UNCHANGED faults

\* SELECT last_insert_rowid(): that of whoever inserted last.
CfRowId(c) ==
    /\ kind = "cf" /\ call[c].pc = "seq"
    /\ call' = [call EXCEPT ![c] = Answered(c, [seq |-> nextSeq - 1, id |-> Current(c)])]
    /\ UNCHANGED <<kind, table, nextSeq, pushed, held, committed, answers,
                   subVars, snapVars, faults>>

\* A statement fails.
CfFails(c) ==
    /\ kind = "cf"
    /\ AtMutation(c) \/ call[c].pc = "seq"
    /\ Fault
    /\ CfEnds(c)

\* The batch is acknowledged, and sent to every other socket of the namespace,
\* without looking at what a socket has been sent.
CfAck(c) ==
    /\ kind = "cf" /\ AtEnd(c)
    /\ Return(c)
    /\ delivered' = [s \in Subscriber |-> IF sub[s].pc = "idle" THEN delivered[s]
                                          ELSE delivered[s] \o call[c].outbox]
    /\ UNCHANGED <<kind, table, nextSeq, pushed, held, committed, channel, notices,
                   lagged, sub, missed, snapVars, faults>>

-----------------------------------------------------------------------------
(* subscriptions *)

\* Faulty variant: off by one.
RowsBehindNext(after) == {r \in table : r.seq > after + 1}

\* The rows behind a sequence.
RowsBehind(after) == {r \in table : r.seq > after}

\* The first n of them.
FirstRows(after, n) ==
    {r \in RowsBehind(after) : Cardinality({q \in RowsBehind(after) : q.seq < r.seq}) < n}

Subscribe(s, from) ==
    /\ sub[s].pc = "idle"
    /\ sub' = [sub EXCEPT ![s].pc = "query", ![s].from = from, ![s].lastSent = from]
    /\ UNCHANGED <<kind, pushVars, channel, notices, lagged, missed, delivered, snapVars, faults>>

\* The subscription has read these rows, and maybe there are more.
Query(s, rows, more) ==
    /\ sub[s].pc = "query"
    /\ sub' = [sub EXCEPT ![s].pc = "replay", ![s].rows = rows, ![s].more = more]
    /\ UNCHANGED <<kind, pushVars, channel, notices, lagged, missed, delivered, snapVars, faults>>

\* All rows behind last_sent, under the mutex of the connection.
SqliteQuery(s) ==
    /\ kind = "sqlite" /\ held = NoCaller
    /\ Query(s, RowsBehind(sub[s].lastSent), FALSE)

\* At most pull_limit rows; when they are as many, it queries again.
PostgresQuery(s) ==
    /\ kind = "postgres" /\ held = NoCaller
    /\ LET rows == FirstRows(sub[s].lastSent, PullLimit)
       IN  Query(s, rows, Cardinality(rows) = PullLimit)

\* XREAD blocks until there is an entry; the loop never ends, and an error of
\* it only means another turn.
RedisRead(s) ==
    /\ kind = "redis" /\ RowsBehind(sub[s].lastSent) # {}
    /\ Query(s, RowsBehind(sub[s].lastSent), TRUE)

\* The query fails: the subscription goes on without its rows.
QueryFails(s) ==
    /\ Locks /\ held = NoCaller /\ sub[s].pc = "query"
    /\ Fault
    /\ sub' = [sub EXCEPT ![s].pc = "stream"]
    /\ missed' = [missed EXCEPT ![s] = @ \cup RowsBehind(sub[s].lastSent)]
    /\ UNCHANGED <<kind, pushVars, channel, notices, lagged, delivered, snapVars>>

\* The rows are sent in the order of their sequences.
Replay(s) ==
    /\ kind # "cf" /\ sub[s].pc = "replay"
    /\ \E r \in sub[s].rows :
          /\ \A q \in sub[s].rows : r.seq <= q.seq
          /\ delivered' = [delivered EXCEPT ![s] = Append(@, r)]
          /\ sub' = [sub EXCEPT ![s].rows = @ \ {r}, ![s].lastSent = r.seq]
    /\ UNCHANGED <<kind, pushVars, channel, notices, lagged, missed, snapVars, faults>>

ReplayEnds(s) ==
    /\ kind # "cf" /\ sub[s].pc = "replay" /\ sub[s].rows = {}
    /\ sub' = [sub EXCEPT ![s].pc = IF sub[s].more THEN "query" ELSE "stream"]
    /\ UNCHANGED <<kind, pushVars, channel, notices, lagged, missed, delivered, snapVars, faults>>

\* Faulty variant: what was replayed is not filtered out.
ForwardsAll(s, r) == TRUE

\* What the loop forwards to the client.
Forwards(s, r) == r.seq > sub[s].lastSent

SqliteRecv(s) ==
    /\ kind = "sqlite" /\ sub[s].pc = "stream" /\ ~lagged[s] /\ channel[s] # <<>>
    /\ channel' = [channel EXCEPT ![s] = Tail(@)]
    /\ LET r == Head(channel[s])
       IN  IF Forwards(s, r)
           THEN /\ delivered' = [delivered EXCEPT ![s] = Append(@, r)]
                /\ sub' = [sub EXCEPT ![s].lastSent = r.seq]
           ELSE UNCHANGED <<delivered, sub>>
    /\ UNCHANGED <<kind, pushVars, notices, lagged, missed, snapVars, faults>>

\* Faulty variant: after an overrun the loop goes on with what is left.
KeepsStreaming(s) ==
    /\ kind = "sqlite" /\ sub[s].pc = "stream" /\ lagged[s]
    /\ lagged' = [lagged EXCEPT ![s] = FALSE]
    /\ UNCHANGED <<kind, pushVars, channel, notices, sub, missed, delivered, snapVars, faults>>

\* RecvError::Lagged: the table is queried for what was lost.
SqliteLagged(s) ==
    /\ kind = "sqlite" /\ sub[s].pc = "stream" /\ lagged[s]
    /\ lagged' = [lagged EXCEPT ![s] = FALSE]
    /\ sub' = [sub EXCEPT ![s].pc = "query"]
    /\ UNCHANGED <<kind, pushVars, channel, notices, missed, delivered, snapVars, faults>>

\* A notification only says that there may be something to query.
PostgresRecv(s) ==
    /\ kind = "postgres" /\ sub[s].pc = "stream" /\ ~lagged[s] /\ notices[s] > 0
    /\ notices' = [notices EXCEPT ![s] = @ - 1]
    /\ sub' = [sub EXCEPT ![s].pc = "query"]
    /\ UNCHANGED <<kind, pushVars, channel, lagged, missed, delivered, snapVars, faults>>

\* RecvError::Lagged: the loop continues with the notifications that are left.
PostgresLagged(s) ==
    /\ kind = "postgres" /\ sub[s].pc = "stream" /\ lagged[s]
    /\ lagged' = [lagged EXCEPT ![s] = FALSE]
    /\ UNCHANGED <<kind, pushVars, channel, notices, sub, missed, delivered, snapVars, faults>>

\* MSG_SUBSCRIBE: the rows behind the sequence the client names.
CfQuery(s) ==
    /\ kind = "cf"
    /\ Query(s, RowsBehind(sub[s].from), FALSE)

\* When D1 has answered they are sent in one go.
CfReplay(s) ==
    /\ kind = "cf" /\ sub[s].pc = "replay"
    /\ delivered' = [delivered EXCEPT ![s] =
                        @ \o SetToSortSeq(sub[s].rows, LAMBDA q, r : q.seq < r.seq)]
    /\ sub' = [sub EXCEPT ![s].pc = "stream", ![s].rows = {}]
    /\ UNCHANGED <<kind, pushVars, channel, notices, lagged, missed, snapVars, faults>>

-----------------------------------------------------------------------------
(* snapshots and compaction *)

\* The stored snapshot of the document is replaced.  (Redis first SETs it and
\* then enters its key into the set of keys.)
StoreSnapshot(doc, snap) ==
    /\ stores < MaxSnapshots
    /\ Locks => held = NoCaller
    /\ snapshots' = [snapshots EXCEPT ![doc] = snap]
    /\ stores' = stores + 1
    /\ UNCHANGED <<kind, pushVars, subVars, compactor, faults>>

\* The documents that have a snapshot, with its sequence.
Keys == {[doc |-> d, seq |-> snapshots[d].seq] : d \in {e \in Doc : snapshots[e] # NoSnap}}

\* Faulty variant: whatever document the row belongs to.
CoversAny(k, r) == r.seq <= k.seq

\* DELETE ... WHERE doc_id = k.doc AND sequence <= k.seq
Covers(k, r) == DocOf[r.id] = k.doc /\ r.seq <= k.seq

\* Rows are taken out of the table.
Delete(rows) ==
    /\ table' = table \ rows
    /\ UNCHANGED <<kind, nextSeq, pushed, held, call, committed, answers,
                   subVars, snapshots, stores, faults>>

\* One transaction reads the snapshots and deletes what they cover.
SqlCompact ==
    /\ Locks /\ held = NoCaller
    /\ Delete({r \in table : \E k \in Keys : Covers(k, r)})
    /\ UNCHANGED compactor

\* D1 and Redis read the snapshots first.
CompactRead ==
    /\ ~Locks /\ compactor = {}
    /\ compactor' = Keys
    /\ UNCHANGED <<kind, pushVars, subVars, snapshots, stores, faults>>

\* A DELETE for every snapshot.
CfCompact(k) ==
    /\ kind = "cf" /\ k \in compactor
    /\ Delete({r \in table : Covers(k, r)})
    /\ compactor' = compactor \ {k}

\* For every snapshot, XDEL of all that XRANGE finds up to its sequence: the
\* stream holds the mutations of every document.
RedisCompact(k) ==
    /\ kind = "redis" /\ k \in compactor
    /\ Delete({r \in table : r.seq <= k.seq})
    /\ compactor' = compactor \ {k}

\* What a client stores that has seen everything up to a sequence of the
\* document.
HonestSnap(doc) ==
    LET own == {r \in committed : DocOf[r.id] = doc}
    IN  {[seq |-> n, covers |-> {r.id : r \in {p \in own : p.seq <= n}}] :
            n \in {r.seq : r \in own}}

-----------------------------------------------------------------------------
\* The steps of a push that has begun.
Pushing(c) ==
    \/ SqliteInsert(c) \/ SqliteCommit(c) \/ SqliteBroadcast(c) \/ SqliteReturn(c)
    \/ PostgresInsert(c) \/ PostgresCommit(c) \/ PostgresNotify(c)
    \/ RedisSadd(c) \/ RedisXadd(c) \/ RedisReturn(c)
    \/ CfInsert(c) \/ CfDuplicate(c) \/ CfRowId(c) \/ CfAck(c)

Failing(c) == Rollback(c) \/ PostgresNotifyFails(c) \/ RedisFails(c) \/ CfFails(c)

TaskStep(s) ==
    \/ SqliteQuery(s) \/ SqliteRecv(s) \/ SqliteLagged(s)
    \/ PostgresQuery(s) \/ PostgresRecv(s) \/ PostgresLagged(s)
    \/ RedisRead(s) \/ CfQuery(s) \/ CfReplay(s)
    \/ Replay(s) \/ ReplayEnds(s)

Next ==
    \/ \E c \in Caller : Pushing(c) \/ Failing(c) \/ \E batch \in Batch : PushBegin(c, batch)
    \/ \E s \in Subscriber : TaskStep(s) \/ QueryFails(s)
    \/ \E s \in Subscriber, from \in 0..(nextSeq - 1) : Subscribe(s, from)
    \/ \E doc \in Doc : \E snap \in HonestSnap(doc) :
          snap.seq > snapshots[doc].seq /\ StoreSnapshot(doc, snap)
    \/ SqlCompact \/ CompactRead
    \/ \E k \in compactor : CfCompact(k) \/ RedisCompact(k)

Spec == Init /\ [][Next]_vars

\* A push that has begun runs on, and a subscription task is polled whenever
\* it can proceed.
Fairness ==
    /\ \A c \in Caller : WF_vars(Pushing(c))
    /\ \A s \in Subscriber : WF_vars(TaskStep(s))

FairSpec == Spec /\ Fairness

-----------------------------------------------------------------------------
(* Properties *)

\* The answers that name the sequence of their mutation: not the 0 of Redis,
\* nor what D1 says of the last insert.
Named == IF kind = "cf" THEN {} ELSE {a \in answers : a.seq # 0}

InLog(rows) == {[ns |-> kind, seq |-> r.seq, id |-> r.id] : r \in rows}
Log == INSTANCE MutationLog WITH log <- InLog(table), ever <- InLog(committed),
                                 answers <- InLog(Named)

\* Every backend is a mutation log: rows are added behind all that were ever
\* committed, an id has one row, and answers that name a sequence name one
\* that was committed, whatever transactions are rolled back, commands fail
\* and pushes are repeated.
ImplementsLog == Log!Spec

\* An answered mutation is in the table, or in the stored snapshot of its
\* document: a rollback, a lost answer or compaction never costs a mutation
\* whose push has returned.  Redis is excepted.
AcknowledgedSurvives ==
    kind # "redis" =>
      \A a \in answers : \/ \E r \in table : r.id = a.id
                         \/ a.id \in snapshots[DocOf[a.id]].covers

\* What the documentation promises: no exception.
AcknowledgedAlwaysSurvives ==
    \A a \in answers : \/ \E r \in table : r.id = a.id
                       \/ a.id \in snapshots[DocOf[a.id]].covers

\* A subscription never sends a row twice nor goes back, where queries meet
\* broadcasts or notifications.  (The durable object does not filter.)
DeliveredInOrder ==
    kind # "cf" =>
      \A s \in Subscriber : \A i, j \in 1..Len(delivered[s]) :
          i < j => delivered[s][i].seq < delivered[s][j].seq

Sent(s, r) == \E i \in 1..Len(delivered[s]) : delivered[s][i].id = r.id

\* What a subscription has got past, it has sent, across lags and failed
\* queries.  SQLite's broadcasts may overtake one another; Postgres and Redis
\* read the table and have no exception.
StreamComplete ==
    kind # "cf" =>
      \A s \in Subscriber : \A r \in table :
          (/\ sub[s].from < r.seq /\ r.seq <= sub[s].lastSent
           /\ kind = "sqlite" => r \notin missed[s])
          => Sent(s, r)

\* Once pushes cease, every subscription has sent every row that it was told
\* of: a lag, or a notification that arrives while it replays, loses nothing.
QuiescentDelivery ==
    <>[](\A c \in Caller : call[c].pc = "idle")
    => \A s \in Subscriber : (sub[s].pc # "idle") ~>
         \A r \in table : (r.seq > sub[s].from /\ r \notin missed[s]) => Sent(s, r)
=============================================================================
