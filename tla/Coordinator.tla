---------------------------- MODULE Coordinator ----------------------------
(***************************************************************************)
(* The in-memory coordinator: the ordered mutation log every replica       *)
(* pushes to and pulls from, the broadcast channel that feeds the          *)
(* subscriptions, and the snapshots that let the log be compacted.         *)
(*                                                                         *)
(* push runs under the write lock of `ops' and broadcasts only after the   *)
(* lock is dropped, so the sends of two concurrent pushes interleave.  A   *)
(* subscription is a task: it registers with the channel, copies what is   *)
(* already in `ops', and then forwards what the channel delivers.          *)
(***************************************************************************)
EXTENDS Integers, Sequences

CONSTANTS
    Namespace,        \* namespaces the coordinator serves
    MutationId,       \* mutation ids, chosen by the clients
    Doc,              \* documents (doc_id, record_id)
    DocOf,            \* the document a mutation changes
    Caller,           \* threads that call push
    Subscriber,       \* subscription tasks
    MaxBatch,         \* bound: mutations in one push
    MaxSeq,           \* bound: sequences the coordinator hands out
    ChannelCapacity,  \* capacity of the broadcast channel (4096 in the code)
    MaxSnapshots,     \* bound: store_snapshot calls
    Compacts,         \* does anybody call compact_oplog?
    StoresAscend,     \* do the clients store ever newer snapshots of a document?
    NoCaller          \* nobody holds the write lock

ASSUME CoordinatorAssumption ==
    /\ Namespace # {}
    /\ DocOf \in [MutationId -> Doc]
    /\ MaxBatch \in Nat /\ MaxSeq \in Nat /\ MaxSnapshots \in Nat
    /\ ChannelCapacity \in Nat \ {0}
    /\ Compacts \in BOOLEAN /\ StoresAscend \in BOOLEAN
    /\ NoCaller \notin Caller

VARIABLES
    ops,        \* the log: records [ns, seq, id]
    nextSeq,    \* next_seq
    writer,     \* the caller that holds the write lock of ops
    call,       \* per caller: the push in progress
    channel,    \* per subscriber: what its broadcast receiver has not read
    lagged,     \* per subscriber: the receiver was overrun since its last read
    sub,        \* per subscriber: the subscription task
    snapshots,  \* per namespace and document: the stored snapshot
    compactor,  \* the snapshots compact_oplog has read but not yet applied
    stores,     \* number of store_snapshot calls so far (bound)
    acks,       \* history: every [ns, seq, id] a push has returned
    missed,     \* history: per subscriber, entries a later one has overtaken, or
                \* pushed out of its receiver
    delivered   \* history: what each subscription has sent to its client

vars == <<ops, nextSeq, writer, call, channel, lagged, sub, snapshots,
          compactor, stores, acks, missed, delivered>>
subVars == <<channel, lagged, sub, missed, delivered>>
snapVars == <<snapshots, compactor, stores>>

Entry == [ns : Namespace, seq : Nat \ {0}, id : MutationId]

\* A stored snapshot: the sequence it claims and the mutations it contains.
Snap == [seq : Nat, covers : SUBSET MutationId]
NoSnap == [seq |-> 0, covers |-> {}]

Call == [pc : {"idle", "locked", "sending"}, ns : Namespace,
         todo : Seq(MutationId), outbox : Seq(Entry)]
Sub == [pc : {"idle", "spawned", "replaying", "streaming"}, ns : Namespace,
        from : Nat, lastSent : Nat, existing : SUBSET Entry]
Key == [doc : Doc, seq : Nat]

TypeOK ==
    /\ ops \subseteq Entry
    /\ nextSeq \in Nat \ {0}
    /\ writer \in Caller \cup {NoCaller}
    /\ call \in [Caller -> Call]
    /\ channel \in [Subscriber -> Seq(Entry)]
    /\ lagged \in [Subscriber -> BOOLEAN]
    /\ sub \in [Subscriber -> Sub]
    /\ snapshots \in [Namespace \X Doc -> Snap]
    /\ compactor \in [Namespace -> SUBSET Key]
    /\ stores \in Nat
    /\ acks \subseteq Entry
    /\ missed \in [Subscriber -> SUBSET Entry]
    /\ delivered \in [Subscriber -> Seq(Entry)]

\* Faulty variant: sequences start at 0, which no cursor lies below.
ZeroSeq == 0

\* The first sequence the coordinator hands out.
FirstSeq == 1

\* Idle threads and tasks have no namespace; this one stands in.
SomeNs == CHOOSE n \in Namespace : TRUE

Init ==
    /\ ops = {}
    /\ nextSeq = FirstSeq
    /\ writer = NoCaller
    /\ call = [c \in Caller |->
                 [pc |-> "idle", ns |-> SomeNs, todo |-> <<>>, outbox |-> <<>>]]
    /\ channel = [s \in Subscriber |-> <<>>]
    /\ lagged = [s \in Subscriber |-> FALSE]
    /\ sub = [s \in Subscriber |->
                [pc |-> "idle", ns |-> SomeNs,
                 from |-> 0, lastSent |-> 0, existing |-> {}]]
    /\ snapshots = [nd \in Namespace \X Doc |-> NoSnap]
    /\ compactor = [n \in Namespace |-> {}]
    /\ stores = 0
    /\ acks = {}
    /\ missed = [s \in Subscriber |-> {}]
    /\ delivered = [s \in Subscriber |-> <<>>]

-----------------------------------------------------------------------------
(* push *)

\* The batches a client may push.
Batch == UNION {[1..n -> MutationId] : n \in 1..MaxBatch}

\* push takes the write lock of ops.
PushBegin(c, ns, batch) ==
    /\ call[c].pc = "idle"
    /\ writer = NoCaller
    /\ nextSeq + Len(batch) <= MaxSeq + 1
    /\ writer' = c
    /\ call' = [call EXCEPT ![c] = [pc |-> "locked", ns |-> ns,
                                    todo |-> batch, outbox |-> <<>>]]
    /\ UNCHANGED <<ops, nextSeq, acks, subVars, snapVars>>

\* Faulty variant: no deduplication.
NothingExists(ns, id) == {}

\* The entries of the log that already hold this mutation id.
Existing(ns, id) == {o \in ops : o.ns = ns /\ o.id = id}

\* A mutation id the log already holds is answered with its sequence.
PushDuplicate(c) ==
    /\ call[c].pc = "locked" /\ call[c].todo # <<>>
    /\ \E o \in Existing(call[c].ns, Head(call[c].todo)) : acks' = acks \cup {o}
    /\ call' = [call EXCEPT ![c].todo = Tail(@)]
    /\ UNCHANGED <<ops, nextSeq, writer, subVars, snapVars>>

\* A new mutation takes the next sequence, and is queued for broadcast.
PushNew(c) ==
    /\ call[c].pc = "locked" /\ call[c].todo # <<>>
    /\ Existing(call[c].ns, Head(call[c].todo)) = {}
    /\ LET o == [ns |-> call[c].ns, seq |-> nextSeq, id |-> Head(call[c].todo)]
       IN  /\ ops' = ops \cup {o}
           /\ acks' = acks \cup {o}
           /\ call' = [call EXCEPT ![c].todo = Tail(@),
                                   ![c].outbox = Append(@, o)]
    /\ nextSeq' = nextSeq + 1
    /\ UNCHANGED <<writer, subVars, snapVars>>

\* drop(ops): the lock is released before anything is broadcast.
PushUnlock(c) ==
    /\ call[c].pc = "locked" /\ call[c].todo = <<>>
    /\ writer' = NoCaller
    /\ call' = [call EXCEPT ![c].pc = "sending"]
    /\ UNCHANGED <<ops, nextSeq, acks, subVars, snapVars>>

\* tx.send: every receiver gets the entry; one that is full loses its oldest.
Offer(queue, o) ==
    IF Len(queue) < ChannelCapacity THEN Append(queue, o)
                                    ELSE Append(Tail(queue), o)

\* The entries that are stored but not yet sent when a later one, o, is sent.
Overtaken(o) ==
    {p \in acks : /\ p.seq < o.seq
                  /\ \E d \in Caller : \E i \in 1..Len(call[d].outbox) : call[d].outbox[i] = p}

PushBroadcast(c) ==
    /\ call[c].pc = "sending" /\ call[c].outbox # <<>>
    /\ channel' = [s \in Subscriber |->
                     IF sub[s].pc = "idle" THEN channel[s]
                     ELSE Offer(channel[s], Head(call[c].outbox))]
    /\ lagged' = [s \in Subscriber |->
                    \/ lagged[s]
                    \/ sub[s].pc # "idle" /\ Len(channel[s]) = ChannelCapacity]
    /\ missed' = [s \in Subscriber |->
                    missed[s] \cup Overtaken(Head(call[c].outbox))
                      \cup (IF sub[s].pc # "idle" /\ Len(channel[s]) = ChannelCapacity
                            THEN {Head(channel[s])} ELSE {})]
    /\ call' = [call EXCEPT ![c].outbox = Tail(@)]
    /\ UNCHANGED <<ops, nextSeq, writer, acks, sub, delivered, snapVars>>

PushReturn(c) ==
    /\ call[c].pc = "sending" /\ call[c].outbox = <<>>
    /\ call' = [call EXCEPT ![c].pc = "idle"]
    /\ UNCHANGED <<ops, nextSeq, writer, acks, subVars, snapVars>>

-----------------------------------------------------------------------------
(* pull and subscribe *)

\* Faulty variant: off by one.
AfterNext(ns, after) == {o \in ops : o.ns = ns /\ o.seq > after + 1}

\* What a pull (or a subscription's first read) after a sequence returns.
After(ns, after) == {o \in ops : o.ns = ns /\ o.seq > after}

\* subscribe registers with the broadcast channel and spawns the task.
Subscribe(s, ns, from) ==
    /\ sub[s].pc = "idle"
    /\ sub' = [sub EXCEPT ![s] = [pc |-> "spawned", ns |-> ns, from |-> from,
                                  lastSent |-> from, existing |-> {}]]
    /\ UNCHANGED <<ops, nextSeq, writer, call, acks, channel, lagged,
                   missed, delivered, snapVars>>

\* The task copies the existing entries under the read lock.
SubCollect(s) ==
    /\ sub[s].pc = "spawned"
    /\ writer = NoCaller
    /\ sub' = [sub EXCEPT ![s].pc = "replaying",
                          ![s].existing = After(sub[s].ns, sub[s].from)]
    /\ UNCHANGED <<ops, nextSeq, writer, call, acks, channel, lagged,
                   missed, delivered, snapVars>>

MaxOf(a, b) == IF a >= b THEN a ELSE b

\* They are sent in the order of the BTreeMap: ascending sequence.
SubReplay(s) ==
    /\ sub[s].pc = "replaying"
    /\ \E o \in sub[s].existing :
          /\ \A p \in sub[s].existing : o.seq <= p.seq
          /\ delivered' = [delivered EXCEPT ![s] = Append(@, o)]
          /\ sub' = [sub EXCEPT ![s].existing = @ \ {o},
                                ![s].lastSent = MaxOf(@, o.seq)]
    /\ UNCHANGED <<ops, nextSeq, writer, call, acks, channel, lagged, missed, snapVars>>

SubStream(s) ==
    /\ sub[s].pc = "replaying" /\ sub[s].existing = {}
    /\ sub' = [sub EXCEPT ![s].pc = "streaming"]
    /\ UNCHANGED <<ops, nextSeq, writer, call, acks, channel, lagged,
                   missed, delivered, snapVars>>

\* RecvError::Lagged: the loop continues with what is left in the channel.
SubLagged(s) ==
    /\ sub[s].pc = "streaming" /\ lagged[s]
    /\ lagged' = [lagged EXCEPT ![s] = FALSE]
    /\ UNCHANGED <<ops, nextSeq, writer, call, acks, channel, sub, missed,
                   delivered, snapVars>>

\* Faulty variant: what was replayed is not filtered out.
ForwardsAll(s, o) == o.ns = sub[s].ns

\* What the loop forwards to the client.
Forwards(s, o) == o.ns = sub[s].ns /\ o.seq > sub[s].lastSent

SubRecv(s) ==
    /\ sub[s].pc = "streaming" /\ ~lagged[s] /\ channel[s] # <<>>
    /\ channel' = [channel EXCEPT ![s] = Tail(@)]
    /\ LET o == Head(channel[s])
       IN  IF Forwards(s, o)
           THEN /\ delivered' = [delivered EXCEPT ![s] = Append(@, o)]
                /\ sub' = [sub EXCEPT ![s].lastSent = o.seq]
           ELSE UNCHANGED <<delivered, sub>>
    /\ UNCHANGED <<ops, nextSeq, writer, call, acks, lagged, missed, snapVars>>

-----------------------------------------------------------------------------
(* snapshots and compaction *)

\* A client stores a snapshot of a document; it replaces the stored one.
StoreSnapshot(ns, doc, snap) ==
    /\ stores < MaxSnapshots
    /\ snapshots' = [snapshots EXCEPT ![<<ns, doc>>] = snap]
    /\ stores' = stores + 1
    /\ UNCHANGED <<ops, nextSeq, writer, call, acks, subVars, compactor>>

\* The documents that have a snapshot, with its sequence.
Keys(ns) ==
    {[doc |-> d, seq |-> snapshots[<<ns, d>>].seq] :
        d \in {e \in Doc : snapshots[<<ns, e>>] # NoSnap}}

\* compact_oplog first reads the snapshots, and releases their lock.
CompactRead(ns) ==
    /\ Compacts /\ compactor[ns] = {}
    /\ compactor' = [compactor EXCEPT ![ns] = Keys(ns)]
    /\ UNCHANGED <<ops, nextSeq, writer, call, acks, subVars, snapshots, stores>>

\* Faulty variant: any document's snapshot covers the entry.
CompactableByAny(ns, o) == o.ns = ns /\ \E k \in compactor[ns] : o.seq <= k.seq

\* Is this entry covered by a snapshot that compact_oplog has read?
Compactable(ns, o) ==
    o.ns = ns /\ \E k \in compactor[ns] : k.doc = DocOf[o.id] /\ o.seq <= k.seq

\* Then, under the write lock of ops, it removes what they cover.
CompactRemove(ns) ==
    /\ compactor[ns] # {}
    /\ writer = NoCaller
    /\ ops' = {o \in ops : ~Compactable(ns, o)}
    /\ compactor' = [compactor EXCEPT ![ns] = {}]
    /\ UNCHANGED <<nextSeq, writer, call, acks, subVars, snapshots, stores>>

-----------------------------------------------------------------------------
\* The snapshots a client that has seen everything up to a sequence stores.
HonestSnap(ns, doc) ==
    {[seq |-> n, covers |-> {o.id : o \in {p \in acks :
         p.ns = ns /\ DocOf[p.id] = doc /\ p.seq <= n}}] : n \in 1..(nextSeq - 1)}

CallerStep(c) ==
    \/ \E ns \in Namespace, batch \in Batch : PushBegin(c, ns, batch)
    \/ PushDuplicate(c) \/ PushNew(c) \/ PushUnlock(c)
    \/ PushBroadcast(c) \/ PushReturn(c)

TaskStep(s) ==
    \/ SubCollect(s) \/ SubReplay(s) \/ SubStream(s)
    \/ SubLagged(s) \/ SubRecv(s)

Next ==
    \/ \E c \in Caller : CallerStep(c)
    \/ \E s \in Subscriber : TaskStep(s)
    \/ \E s \in Subscriber, ns \in Namespace, from \in 0..(nextSeq - 1) :
          Subscribe(s, ns, from)
    \/ \E ns \in Namespace, doc \in Doc : \E snap \in HonestSnap(ns, doc) :
          /\ StoresAscend => snap.seq > snapshots[<<ns, doc>>].seq
          /\ StoreSnapshot(ns, doc, snap)
    \/ \E ns \in Namespace : CompactRead(ns) \/ CompactRemove(ns)

Spec == Init /\ [][Next]_vars
\* A thread that entered push runs to its end, and a subscription task is
\* polled whenever it can proceed: the runtime schedules both.
Fairness ==
    /\ \A c \in Caller : WF_vars(PushDuplicate(c) \/ PushNew(c) \/ PushUnlock(c)
                                 \/ PushBroadcast(c) \/ PushReturn(c))
    /\ \A s \in Subscriber : WF_vars(TaskStep(s))

FairSpec == Spec /\ Fairness

-----------------------------------------------------------------------------
(* Properties *)

\* The log gives every sequence to one mutation, and holds every mutation id
\* of a namespace once: concurrent pushes of the same id, or of different
\* ids, neither share a sequence nor store a mutation twice.
LogIsFunctional ==
    \A o, p \in ops :
        (o.seq = p.seq \/ (o.ns = p.ns /\ o.id = p.id)) => o = p

\* Pushing is idempotent: however often, and from however many threads, a
\* mutation is pushed, it gets a second sequence only after compaction has
\* taken the first out of the log.
IdempotentPush ==
    \A o, p \in acks :
        (o.ns = p.ns /\ o.id = p.id) => (o = p \/ (o.seq < p.seq /\ o \notin ops)
                                               \/ (p.seq < o.seq /\ p \notin ops))

\* A subscription never sends a mutation twice nor goes back in the log, even
\* where what it copied from the log meets what the channel delivers.
DeliveredInOrder ==
    \A s \in Subscriber : \A i, j \in 1..Len(delivered[s]) :
        i < j => delivered[s][i].seq < delivered[s][j].seq

\* Has the subscription sent this entry to its client?
Sent(s, o) == \E i \in 1..Len(delivered[s]) : delivered[s][i] = o

\* What a subscription has got past, it has sent: where the copy of the log
\* ends and the channel takes over, no entry up to last_sent is missing.
\* Excepted are what the channel brought out of order (its push was overtaken
\* between unlock and send), and what it dropped because it was full.
StreamComplete ==
    \A s \in Subscriber : \A o \in ops :
        (/\ sub[s].pc = "streaming" /\ o.ns = sub[s].ns
         /\ sub[s].from < o.seq /\ o.seq <= sub[s].lastSent
         /\ o \notin missed[s])
        => Sent(s, o)

\* What the documentation promises: no exception.
StreamHasNoHoles ==
    \A s \in Subscriber : \A o \in ops :
        (/\ sub[s].pc = "streaming" /\ o.ns = sub[s].ns
         /\ sub[s].from < o.seq /\ o.seq <= sub[s].lastSent)
        => Sent(s, o)

\* Compaction loses nothing: a mutation that was committed is in the log or
\* is contained in the stored snapshot of its document.
CommittedSurvives ==
    \A o \in acks : o \in ops \/ o.id \in snapshots[<<o.ns, DocOf[o.id]>>].covers

\* Once pushes cease, every live subscription has sent its client every
\* mutation of its namespace that is in the log and was not missed.  (While
\* pushes never cease, a subscription may wait for the read lock for ever.)
QuiescentDelivery ==
    <>[](\A c \in Caller : call[c].pc = "idle")
    => \A s \in Subscriber : (sub[s].pc # "idle") ~>
         \A o \in ops : (o.ns = sub[s].ns /\ o.seq > sub[s].from /\ o \notin missed[s])
                         => Sent(s, o)
\* What a coordinator promises; acks has every entry from the moment it is
\* committed.
Log == INSTANCE MutationLog WITH log <- ops, ever <- acks, answers <- acks

\* The coordinator is a mutation log: whatever pushes and compaction do, an
\* entry is added behind all that was ever committed, no sequence is reused,
\* and an id is not stored twice.
ImplementsLog == Log!Spec
=============================================================================
