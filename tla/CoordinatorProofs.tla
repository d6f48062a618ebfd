------------------------- MODULE CoordinatorProofs -------------------------
(***************************************************************************)
(* What holds of the in-memory coordinator for any number of namespaces,   *)
(* mutations, pushing threads and subscriptions, and any channel capacity. *)
(***************************************************************************)
EXTENDS Coordinator, TLAPS

-----------------------------------------------------------------------------
(* Type correctness *)

\* A batch is a sequence of mutation ids.
LEMMA BatchType == Batch \subseteq Seq(MutationId)
  BY CoordinatorAssumption DEF Batch

\* What is sent to a receiver leaves a sequence of entries in it.
LEMMA OfferType ==
    ASSUME NEW queue \in Seq(Entry), NEW o \in Entry
    PROVE  Offer(queue, o) \in Seq(Entry)
  <1>1. CASE Len(queue) < ChannelCapacity
    BY <1>1 DEF Offer
  <1>2. CASE ~(Len(queue) < ChannelCapacity)
    <2>1. queue # <<>>
      BY <1>2, CoordinatorAssumption
    <2>2. Tail(queue) \in Seq(Entry)
      BY <2>1
    <2>. QED  BY <1>2, <2>2 DEF Offer
  <1>. QED  BY <1>1, <1>2

LEMMA TypeInit == Init => TypeOK
  <1>1. SomeNs \in Namespace
    BY CoordinatorAssumption DEF SomeNs
  <1>2. NoSnap \in Snap
    BY DEF NoSnap, Snap
  <1>3. [pc |-> "idle", ns |-> SomeNs, todo |-> <<>>, outbox |-> <<>>] \in Call
    BY <1>1 DEF Call
  <1>4. [pc |-> "idle", ns |-> SomeNs, from |-> 0, lastSent |-> 0, existing |-> {}] \in Sub
    BY <1>1 DEF Sub
  <1>. QED  BY <1>1, <1>2, <1>3, <1>4 DEF Init, TypeOK, FirstSeq

LEMMA TypePush ==
    ASSUME TypeOK, NEW c \in Caller, CallerStep(c)
    PROVE  TypeOK'
  <1>. USE DEF TypeOK, subVars, snapVars, Call
  <1>1. ASSUME NEW ns \in Namespace, NEW batch \in Batch, PushBegin(c, ns, batch)
        PROVE  TypeOK'
    BY <1>1, BatchType DEF PushBegin
  <1>2. CASE PushDuplicate(c)
    <2>1. Tail(call[c].todo) \in Seq(MutationId)
      BY <1>2 DEF PushDuplicate
    <2>. QED  BY <1>2, <2>1 DEF PushDuplicate, Existing
  <1>3. CASE PushNew(c)
    <2>. DEFINE o == [ns |-> call[c].ns, seq |-> nextSeq, id |-> Head(call[c].todo)]
    <2>1. Tail(call[c].todo) \in Seq(MutationId) /\ Head(call[c].todo) \in MutationId
      BY <1>3 DEF PushNew
    <2>2. o \in Entry
      BY <2>1 DEF Entry
    <2>3. Append(call[c].outbox, o) \in Seq(Entry)
      BY <2>2
    <2>4. /\ ops' = ops \cup {o} /\ acks' = acks \cup {o}
          /\ call' = [call EXCEPT ![c].todo = Tail(@), ![c].outbox = Append(@, o)]
      BY <1>3 DEF PushNew
    <2>5. call' \in [Caller -> Call]
      BY <2>1, <2>3, <2>4
    <2>6. nextSeq' \in Nat \ {0}
      BY <1>3 DEF PushNew
    <2>. HIDE DEF o
    <2>. QED  BY <1>3, <2>2, <2>4, <2>5, <2>6 DEF PushNew
  <1>4. CASE PushUnlock(c)
    BY <1>4 DEF PushUnlock
  <1>5. CASE PushBroadcast(c)
    <2>1. Head(call[c].outbox) \in Entry /\ Tail(call[c].outbox) \in Seq(Entry)
      BY <1>5 DEF PushBroadcast
    <2>2. channel' \in [Subscriber -> Seq(Entry)]
      BY <1>5, <2>1, OfferType DEF PushBroadcast
    <2>3. lagged' \in [Subscriber -> BOOLEAN]
      BY <1>5 DEF PushBroadcast
    <2>4. missed' \in [Subscriber -> SUBSET Entry]
      <3>1. ASSUME NEW s \in Subscriber, Len(channel[s]) = ChannelCapacity
            PROVE  Head(channel[s]) \in Entry
        BY <3>1, CoordinatorAssumption
      <3>2. Overtaken(Head(call[c].outbox)) \subseteq Entry
        BY DEF Overtaken
      <3>. QED  BY <1>5, <3>1, <3>2 DEF PushBroadcast
    <2>. QED  BY <1>5, <2>1, <2>2, <2>3, <2>4 DEF PushBroadcast
  <1>6. CASE PushReturn(c)
    BY <1>6 DEF PushReturn
  <1>. QED  BY <1>1, <1>2, <1>3, <1>4, <1>5, <1>6 DEF CallerStep

LEMMA TypeTask ==
    ASSUME TypeOK, NEW s \in Subscriber, TaskStep(s)
    PROVE  TypeOK'
  <1>. USE DEF TypeOK, subVars, snapVars
  <1>1. CASE SubCollect(s)
    <2>1. After(sub[s].ns, sub[s].from) \subseteq Entry
      BY DEF After
    <2>2. [sub[s] EXCEPT !.pc = "replaying", !.existing = After(sub[s].ns, sub[s].from)] \in Sub
      BY <2>1 DEF Sub
    <2>. QED  BY <1>1, <2>2 DEF SubCollect
  <1>2. CASE SubReplay(s)
    <2>1. PICK o \in sub[s].existing :
            /\ delivered' = [delivered EXCEPT ![s] = Append(@, o)]
            /\ sub' = [sub EXCEPT ![s].existing = @ \ {o},
                                  ![s].lastSent = MaxOf(@, o.seq)]
      BY <1>2 DEF SubReplay
    <2>2. o \in Entry
      BY DEF Sub
    <2>3. MaxOf(sub[s].lastSent, o.seq) \in Nat
      BY <2>2 DEF Entry, MaxOf, Sub
    <2>4. [sub[s] EXCEPT !.existing = @ \ {o}, !.lastSent = MaxOf(@, o.seq)] \in Sub
      BY <2>3 DEF Sub
    <2>5. sub' \in [Subscriber -> Sub]
      BY <2>1, <2>4
    <2>6. delivered' \in [Subscriber -> Seq(Entry)]
      BY <2>1, <2>2
    <2>. QED  BY <1>2, <2>5, <2>6 DEF SubReplay
  <1>3. CASE SubStream(s)
    <2>1. [sub[s] EXCEPT !.pc = "streaming"] \in Sub
      BY DEF Sub
    <2>. QED  BY <1>3, <2>1 DEF SubStream
  <1>4. CASE SubLagged(s)
    BY <1>4 DEF SubLagged
  <1>5. CASE SubRecv(s)
    <2>1. Head(channel[s]) \in Entry /\ Tail(channel[s]) \in Seq(Entry)
      BY <1>5 DEF SubRecv
    <2>2. Head(channel[s]).seq \in Nat
      BY <2>1 DEF Entry
    <2>3. [sub[s] EXCEPT !.lastSent = Head(channel[s]).seq] \in Sub
      BY <2>2 DEF Sub
    <2>4. sub' \in [Subscriber -> Sub]
      BY <1>5, <2>3 DEF SubRecv
    <2>5. delivered' \in [Subscriber -> Seq(Entry)]
      <3>1. Append(delivered[s], Head(channel[s])) \in Seq(Entry)
        BY <2>1
      <3>. QED  BY <1>5, <3>1 DEF SubRecv
    <2>6. channel' \in [Subscriber -> Seq(Entry)]
      BY <1>5, <2>1 DEF SubRecv
    <2>. QED  BY <1>5, <2>4, <2>5, <2>6 DEF SubRecv
  <1>. QED  BY <1>1, <1>2, <1>3, <1>4, <1>5 DEF TaskStep

LEMMA TypeSnapshots ==
    ASSUME TypeOK, NEW ns \in Namespace,
           \/ \E doc \in Doc : \E snap \in HonestSnap(ns, doc) : StoreSnapshot(ns, doc, snap)
           \/ CompactRead(ns) \/ CompactRemove(ns)
    PROVE  TypeOK'
  <1>. USE DEF TypeOK, subVars, snapVars
  <1>1. ASSUME NEW doc \in Doc, NEW snap \in HonestSnap(ns, doc),
               StoreSnapshot(ns, doc, snap)
        PROVE  TypeOK'
    <2>1. snap \in Snap
      BY DEF HonestSnap, Entry, Snap
    <2>. QED  BY <1>1, <2>1 DEF StoreSnapshot
  <1>2. CASE CompactRead(ns)
    <2>1. Keys(ns) \subseteq Key
      <3>1. ASSUME NEW d \in Doc
            PROVE  [doc |-> d, seq |-> snapshots[<<ns, d>>].seq] \in Key
        <4>1. snapshots[<<ns, d>>] \in Snap
          OBVIOUS
        <4>. QED  BY <4>1 DEF Key, Snap
      <3>. QED  BY <3>1 DEF Keys
    <2>. QED  BY <1>2, <2>1 DEF CompactRead
  <1>3. CASE CompactRemove(ns)
    BY <1>3 DEF CompactRemove
  <1>. QED  BY <1>1, <1>2, <1>3

LEMMA TypeNext == TypeOK /\ [Next]_vars => TypeOK'
  <1>. SUFFICES ASSUME TypeOK, [Next]_vars PROVE TypeOK'
    OBVIOUS
  <1>1. ASSUME NEW s \in Subscriber, NEW ns \in Namespace, NEW from \in 0..(nextSeq - 1),
               Subscribe(s, ns, from)
        PROVE  TypeOK'
    BY <1>1 DEF TypeOK, Subscribe, Sub, snapVars
  <1>2. CASE UNCHANGED vars
    BY <1>2 DEF TypeOK, vars
  <1>. QED  BY <1>1, <1>2, TypePush, TypeTask, TypeSnapshots DEF Next

\* Every reachable state is well typed, whatever the threads and tasks do.
THEOREM TypeCorrect == Spec => []TypeOK
  BY TypeInit, TypeNext, PTL DEF Spec

-----------------------------------------------------------------------------
(* The log *)

\* The strengthening of LogIsFunctional and IdempotentPush.  What the log
\* holds was answered; every sequence answered lies below next_seq, and is
\* one mutation's; and of all answers for an id, the one the log still holds
\* is the latest, because a new sequence is given only to an id that is not
\* in the log.
LogInv ==
    /\ ops \subseteq acks
    /\ \A o \in acks : o.seq < nextSeq
    /\ \A o, p \in acks : o.seq = p.seq => o = p
    /\ \A o \in acks, p \in ops : (o.ns = p.ns /\ o.id = p.id) => o.seq <= p.seq

LEMMA LogInit == Init => LogInv
  BY DEF Init, LogInv

\* Only push and compaction touch the log and the answers.
LEMMA LogTouched ==
    ASSUME [Next]_vars
    PROVE  \/ \E c \in Caller : PushDuplicate(c) \/ PushNew(c)
           \/ \E ns \in Namespace : CompactRemove(ns)
           \/ UNCHANGED <<ops, acks, nextSeq>>
  BY DEF Next, CallerStep, TaskStep, PushBegin, PushUnlock, PushBroadcast, PushReturn,
         SubCollect, SubReplay, SubStream, SubLagged, SubRecv, Subscribe,
         StoreSnapshot, CompactRead, vars

LEMMA LogStep ==
    ASSUME TypeOK, LogInv, [Next]_vars
    PROVE  LogInv'
  <1>1. ASSUME NEW c \in Caller, PushDuplicate(c)
        PROVE  LogInv'
    <2>1. acks' = acks /\ ops' = ops /\ nextSeq' = nextSeq
      BY <1>1 DEF PushDuplicate, Existing, LogInv
    <2>. QED  BY <2>1 DEF LogInv
  <1>2. ASSUME NEW c \in Caller, PushNew(c)
        PROVE  LogInv'
    <2>. DEFINE o == [ns |-> call[c].ns, seq |-> nextSeq, id |-> Head(call[c].todo)]
    <2>1. ops' = ops \cup {o} /\ acks' = acks \cup {o} /\ nextSeq' = nextSeq + 1
      BY <1>2 DEF PushNew
    <2>2. \A p \in ops : ~(o.ns = p.ns /\ o.id = p.id)
      BY <1>2 DEF PushNew, Existing
    <2>3. o.seq = nextSeq /\ nextSeq \in Nat
      BY DEF TypeOK
    <2>4. \A p \in acks : p.seq \in Nat
      BY DEF TypeOK, Entry
    <2>. HIDE DEF o
    <2>. QED  BY <2>1, <2>2, <2>3, <2>4 DEF LogInv
  <1>3. ASSUME NEW ns \in Namespace, CompactRemove(ns)
        PROVE  LogInv'
    BY <1>3 DEF CompactRemove, LogInv
  <1>4. CASE UNCHANGED <<ops, acks, nextSeq>>
    BY <1>4 DEF LogInv
  <1>. QED  BY <1>1, <1>2, <1>3, <1>4, LogTouched

LEMMA LogInvariant == Spec => []LogInv
  BY LogInit, LogStep, TypeCorrect, PTL DEF Spec

\* Concurrent pushes never share a sequence nor store a mutation twice.
THEOREM LogFunctional == Spec => []LogIsFunctional
  <1>1. TypeOK /\ LogInv => LogIsFunctional
    <2>. SUFFICES ASSUME TypeOK, LogInv, NEW o \in ops, NEW p \in ops,
                         o.seq = p.seq \/ (o.ns = p.ns /\ o.id = p.id)
                  PROVE  o = p
      BY DEF LogIsFunctional
    <2>1. o.seq \in Nat /\ p.seq \in Nat
      BY DEF TypeOK, Entry
    <2>. QED  BY <2>1 DEF LogInv
  <1>. QED  BY <1>1, LogInvariant, TypeCorrect, PTL

\* A mutation gets a second sequence only after compaction removed the first.
THEOREM PushIdempotent == Spec => []IdempotentPush
  <1>1. TypeOK /\ LogInv => IdempotentPush
    <2>. SUFFICES ASSUME TypeOK, LogInv, NEW o \in acks, NEW p \in acks,
                         o.ns = p.ns, o.id = p.id, o # p
                  PROVE  \/ o.seq < p.seq /\ o \notin ops
                         \/ p.seq < o.seq /\ p \notin ops
      BY DEF IdempotentPush
    <2>1. o.seq \in Nat /\ p.seq \in Nat /\ o.seq # p.seq
      BY DEF TypeOK, Entry, LogInv
    <2>2. (o \in ops => p.seq <= o.seq) /\ (p \in ops => o.seq <= p.seq)
      BY DEF LogInv
    <2>. QED  BY <2>1, <2>2
  <1>. QED  BY <1>1, LogInvariant, TypeCorrect, PTL

-----------------------------------------------------------------------------
(* The subscriptions *)

\* The strengthening of DeliveredInOrder: what was sent lies at or below
\* last_sent, what is still to be replayed lies above it, and a task that has
\* not begun has sent nothing.
OrderInv ==
    \A s \in Subscriber :
        /\ \A i \in 1..Len(delivered[s]) : delivered[s][i].seq <= sub[s].lastSent
        /\ \A o \in sub[s].existing : o \in acks /\ sub[s].lastSent < o.seq
        /\ sub[s].pc # "replaying" => sub[s].existing = {}
        /\ sub[s].pc = "idle" => delivered[s] = <<>>
        /\ sub[s].pc = "spawned" => sub[s].lastSent = sub[s].from

LEMMA OrderInit == Init => OrderInv /\ DeliveredInOrder
  BY DEF Init, OrderInv, DeliveredInOrder

\* Sending an entry above last_sent, and moving last_sent to it, keeps the
\* order.
LEMMA SendKeepsOrder ==
    ASSUME TypeOK, OrderInv, DeliveredInOrder, NEW s \in Subscriber, NEW o \in Entry,
           sub[s].lastSent < o.seq,
           delivered' = [delivered EXCEPT ![s] = Append(@, o)],
           sub'[s].lastSent = o.seq
    PROVE  /\ \A i \in 1..Len(delivered'[s]) : delivered'[s][i].seq <= sub'[s].lastSent
           /\ DeliveredInOrder'
  <1>. DEFINE d == delivered[s]
  <1>1. d \in Seq(Entry) /\ Len(d) \in Nat /\ delivered'[s] = Append(d, o)
    BY DEF TypeOK
  <1>2. /\ Len(Append(d, o)) = Len(d) + 1
        /\ \A i \in 1..Len(d) : Append(d, o)[i] = d[i] /\ d[i] \in Entry
        /\ Append(d, o)[Len(d) + 1] = o
    BY <1>1
  <1>3. sub[s].lastSent \in Nat
    BY DEF TypeOK, Sub
  <1>4. \A i \in 1..Len(d) : d[i].seq <= sub[s].lastSent /\ d[i].seq \in Nat
    BY <1>2 DEF OrderInv, Entry
  <1>5. o.seq \in Nat
    BY DEF Entry
  <1>6. \A i, j \in 1..Len(d) : i < j => d[i].seq < d[j].seq
    BY DEF DeliveredInOrder
  <1>7. \A i, j \in 1..Len(Append(d, o)) : i < j => Append(d, o)[i].seq < Append(d, o)[j].seq
    <2>. HIDE DEF d
    <2>. SUFFICES ASSUME NEW i \in 1..(Len(d) + 1), NEW j \in 1..(Len(d) + 1), i < j
                  PROVE  Append(d, o)[i].seq < Append(d, o)[j].seq
      BY <1>2
    <2>1. i \in 1..Len(d) /\ Append(d, o)[i] = d[i]
      BY <1>1, <1>2
    <2>2. CASE j \in 1..Len(d)
      BY <2>1, <2>2, <1>2, <1>6
    <2>3. CASE j = Len(d) + 1
      BY <2>1, <2>3, <1>2, <1>3, <1>4, <1>5
    <2>. QED  BY <2>2, <2>3, <1>1
  <1>8. \A i \in 1..Len(Append(d, o)) : Append(d, o)[i].seq <= o.seq
    <2>. HIDE DEF d
    <2>. QED  BY <1>1, <1>2, <1>3, <1>4, <1>5
  <1>9. ASSUME NEW r \in Subscriber, r # s PROVE delivered'[r] = delivered[r]
    BY <1>9 DEF TypeOK
  <1>. QED  BY <1>1, <1>7, <1>8, <1>9 DEF DeliveredInOrder

\* Another task's subscription is not touched, and the answers only grow.
LEMMA OthersKeepOrder ==
    ASSUME TypeOK, OrderInv, NEW s \in Subscriber, acks \subseteq acks',
           \A r \in Subscriber \ {s} : sub'[r] = sub[r] /\ delivered'[r] = delivered[r],
           \A i \in 1..Len(delivered'[s]) : delivered'[s][i].seq <= sub'[s].lastSent,
           \A o \in sub'[s].existing : o \in acks /\ sub'[s].lastSent < o.seq,
           sub'[s].pc # "replaying" => sub'[s].existing = {},
           sub'[s].pc = "idle" => delivered'[s] = <<>>,
           sub'[s].pc = "spawned" => sub'[s].lastSent = sub'[s].from
    PROVE  OrderInv'
  <1>1. ASSUME NEW r \in Subscriber PROVE
          /\ \A i \in 1..Len(delivered'[r]) : delivered'[r][i].seq <= sub'[r].lastSent
          /\ \A o \in sub'[r].existing : o \in acks' /\ sub'[r].lastSent < o.seq
          /\ sub'[r].pc # "replaying" => sub'[r].existing = {}
          /\ sub'[r].pc = "idle" => delivered'[r] = <<>>
          /\ sub'[r].pc = "spawned" => sub'[r].lastSent = sub'[r].from
    BY DEF OrderInv
  <1>. QED  BY <1>1 DEF OrderInv

LEMMA OrderStep ==
    ASSUME TypeOK, LogInv, OrderInv, DeliveredInOrder, [Next]_vars
    PROVE  OrderInv' /\ DeliveredInOrder'
  <1>1. ASSUME NEW s \in Subscriber, SubCollect(s)
        PROVE  OrderInv' /\ DeliveredInOrder'
    <2>1. sub[s] \in Sub /\ sub'[s] = [sub[s] EXCEPT !.pc = "replaying",
                                          !.existing = After(sub[s].ns, sub[s].from)]
      BY <1>1 DEF SubCollect, TypeOK
    <2>2. sub[s].lastSent = sub[s].from
      BY <1>1 DEF SubCollect, OrderInv
    <2>3. /\ sub'[s].lastSent = sub[s].lastSent /\ sub'[s].pc = "replaying"
          /\ sub'[s].existing = After(sub[s].ns, sub[s].from)
      BY <2>1 DEF Sub
    <2>4. \A o \in sub'[s].existing : o \in acks /\ sub'[s].lastSent < o.seq
      BY <2>2, <2>3 DEF After, LogInv
    <2>5. /\ delivered' = delivered /\ acks' = acks
          /\ \A r \in Subscriber \ {s} : sub'[r] = sub[r]
      BY <1>1 DEF SubCollect, TypeOK
    <2>6. \A i \in 1..Len(delivered'[s]) : delivered'[s][i].seq <= sub'[s].lastSent
      BY <2>3, <2>5 DEF OrderInv
    <2>7. OrderInv'
      BY <2>3, <2>4, <2>5, <2>6, OthersKeepOrder
    <2>. QED  BY <2>5, <2>7 DEF DeliveredInOrder
  <1>2. ASSUME NEW s \in Subscriber, SubReplay(s)
        PROVE  OrderInv' /\ DeliveredInOrder'
    <2>1. PICK o \in sub[s].existing :
            /\ \A p \in sub[s].existing : o.seq <= p.seq
            /\ delivered' = [delivered EXCEPT ![s] = Append(@, o)]
            /\ sub' = [sub EXCEPT ![s].existing = @ \ {o},
                                  ![s].lastSent = MaxOf(@, o.seq)]
      BY <1>2 DEF SubReplay
    <2>2. /\ sub[s] \in Sub /\ o \in Entry /\ o \in acks
          /\ o.seq \in Nat /\ sub[s].lastSent \in Nat /\ sub[s].lastSent < o.seq
      BY DEF TypeOK, Sub, Entry, OrderInv
    <2>3. sub'[s] = [sub[s] EXCEPT !.existing = @ \ {o}, !.lastSent = o.seq]
      <3>1. MaxOf(sub[s].lastSent, o.seq) = o.seq
        BY <2>2 DEF MaxOf
      <3>2. sub'[s] = [sub[s] EXCEPT !.existing = @ \ {o}, !.lastSent = MaxOf(@, o.seq)]
        BY <2>1 DEF TypeOK
      <3>. QED  BY <2>2, <3>1, <3>2 DEF Sub
    <2>4. /\ sub'[s].existing = sub[s].existing \ {o} /\ sub'[s].pc = "replaying"
          /\ sub'[s].lastSent = o.seq
      BY <1>2, <2>2, <2>3 DEF SubReplay, Sub
    <2>5. /\ \A i \in 1..Len(delivered'[s]) : delivered'[s][i].seq <= sub'[s].lastSent
          /\ DeliveredInOrder'
      BY <2>1, <2>2, <2>4, SendKeepsOrder
    <2>6. \A p \in sub'[s].existing : p \in acks /\ sub'[s].lastSent < p.seq
      <3>1. ASSUME NEW p \in sub[s].existing, p # o
            PROVE  p \in acks /\ o.seq < p.seq
        <4>1. p \in acks /\ p.seq \in Nat /\ o.seq # p.seq
          BY <2>2, <3>1 DEF OrderInv, LogInv, TypeOK, Entry
        <4>. QED  BY <2>1, <2>2, <4>1
      <3>. QED  BY <2>4, <3>1
    <2>7. /\ acks' = acks
          /\ \A r \in Subscriber \ {s} : sub'[r] = sub[r] /\ delivered'[r] = delivered[r]
      BY <1>2, <2>1 DEF SubReplay, TypeOK
    <2>8. OrderInv'
      BY <2>4, <2>5, <2>6, <2>7, OthersKeepOrder
    <2>. QED  BY <2>5, <2>8
  <1>3. ASSUME NEW s \in Subscriber, SubStream(s)
        PROVE  OrderInv' /\ DeliveredInOrder'
    <2>1. /\ sub'[s] = [sub[s] EXCEPT !.pc = "streaming"] /\ sub[s] \in Sub
          /\ sub[s].existing = {}
          /\ \A r \in Subscriber \ {s} : sub'[r] = sub[r]
          /\ delivered' = delivered /\ acks' = acks
      BY <1>3 DEF SubStream, TypeOK
    <2>2. sub'[s].pc = "streaming" /\ sub'[s].existing = {} /\ sub'[s].lastSent = sub[s].lastSent
      BY <2>1 DEF Sub
    <2>3. \A i \in 1..Len(delivered'[s]) : delivered'[s][i].seq <= sub'[s].lastSent
      BY <2>1, <2>2 DEF OrderInv
    <2>4. OrderInv'
      BY <2>1, <2>2, <2>3, OthersKeepOrder
    <2>. QED  BY <2>1, <2>4 DEF DeliveredInOrder
  <1>4. ASSUME NEW s \in Subscriber, SubRecv(s)
        PROVE  OrderInv' /\ DeliveredInOrder'
    <2>. DEFINE o == Head(channel[s])
    <2>1. o \in Entry /\ sub[s] \in Sub /\ acks' = acks /\ sub[s].pc = "streaming"
      BY <1>4 DEF SubRecv, TypeOK
    <2>2. CASE ~Forwards(s, o)
      BY <1>4, <2>2 DEF SubRecv, OrderInv, DeliveredInOrder
    <2>3. CASE Forwards(s, o)
      <3>1. /\ sub[s].lastSent < o.seq
            /\ delivered' = [delivered EXCEPT ![s] = Append(@, o)]
            /\ sub' = [sub EXCEPT ![s].lastSent = o.seq]
        <4>1. sub[s].lastSent \in Nat /\ o.seq \in Nat
          BY <2>1 DEF Sub, Entry
        <4>. QED  BY <1>4, <2>3, <4>1 DEF SubRecv, Forwards
      <3>. HIDE DEF o
      <3>2. sub'[s] = [sub[s] EXCEPT !.lastSent = o.seq]
        BY <3>1 DEF TypeOK
      <3>3. sub'[s].pc = "streaming" /\ sub'[s].existing = {} /\ sub'[s].lastSent = o.seq
        BY <2>1, <3>2 DEF Sub, OrderInv
      <3>4. /\ \A i \in 1..Len(delivered'[s]) : delivered'[s][i].seq <= sub'[s].lastSent
            /\ DeliveredInOrder'
        BY <2>1, <3>1, <3>3, SendKeepsOrder
      <3>5. \A r \in Subscriber \ {s} : sub'[r] = sub[r] /\ delivered'[r] = delivered[r]
        BY <3>1 DEF TypeOK
      <3>6. OrderInv'
        BY <2>1, <3>3, <3>4, <3>5, OthersKeepOrder
      <3>. QED  BY <3>4, <3>6
    <2>. QED  BY <2>2, <2>3
  <1>5. ASSUME NEW s \in Subscriber, NEW ns \in Namespace, NEW from \in 0..(nextSeq - 1),
               Subscribe(s, ns, from)
        PROVE  OrderInv' /\ DeliveredInOrder'
    <2>1. /\ sub'[s] = [pc |-> "spawned", ns |-> ns, from |-> from,
                        lastSent |-> from, existing |-> {}]
          /\ delivered[s] = <<>> /\ delivered' = delivered /\ acks' = acks
          /\ \A r \in Subscriber \ {s} : sub'[r] = sub[r]
      BY <1>5 DEF Subscribe, TypeOK, OrderInv
    <2>2. OrderInv'
      BY <2>1, OthersKeepOrder
    <2>. QED  BY <2>1, <2>2 DEF DeliveredInOrder
  <1>6. CASE UNCHANGED <<sub, delivered>> /\ acks \subseteq acks'
    BY <1>6 DEF OrderInv, DeliveredInOrder
  <1>7. \/ \E s \in Subscriber : SubCollect(s) \/ SubReplay(s) \/ SubStream(s) \/ SubRecv(s)
        \/ \E s \in Subscriber, ns \in Namespace, from \in 0..(nextSeq - 1) :
              Subscribe(s, ns, from)
        \/ UNCHANGED <<sub, delivered>> /\ acks \subseteq acks'
    BY DEF Next, CallerStep, TaskStep, PushBegin, PushDuplicate, PushNew, PushUnlock,
           PushBroadcast, PushReturn, SubLagged, StoreSnapshot, CompactRead,
           CompactRemove, vars, subVars
  <1>. QED  BY <1>1, <1>2, <1>3, <1>4, <1>5, <1>6, <1>7

\* No subscription sends a mutation twice or out of order, even where the
\* copy of the log and the channel overlap.
THEOREM StreamOrdered == Spec => []DeliveredInOrder
  BY OrderInit, OrderStep, TypeCorrect, LogInvariant, PTL DEF Spec

-----------------------------------------------------------------------------
(* Compaction *)

\* The stored snapshot of the document an entry changes.
SnapFor(o) == snapshots[<<o.ns, DocOf[o.id]>>]

\* The strengthening of CommittedSurvives.  A snapshot contains every answered
\* entry of its document up to its sequence; what is not in the log lies at
\* or below its snapshot; what compact_oplog has read is not newer than what
\* is stored now; and no snapshot claims a sequence not yet given.
SnapInv ==
    /\ \A o \in acks : o.seq <= SnapFor(o).seq => o.id \in SnapFor(o).covers
    /\ \A o \in acks : o \in ops \/ o.seq <= SnapFor(o).seq
    /\ \A ns \in Namespace : \A k \in compactor[ns] : k.seq <= snapshots[<<ns, k.doc>>].seq
    /\ \A ns \in Namespace, d \in Doc : snapshots[<<ns, d>>].seq < nextSeq

LEMMA SnapInit == Init => SnapInv
  <1>1. Init => \A ns \in Namespace, d \in Doc : snapshots[<<ns, d>>] = NoSnap
    BY DEF Init
  <1>2. Init => acks = {} /\ nextSeq = 1 /\ \A ns \in Namespace : compactor[ns] = {}
    BY DEF Init, FirstSeq
  <1>. QED  BY <1>1, <1>2 DEF SnapInv, NoSnap

\* The document of an entry is one the coordinator has a place for.
LEMMA SnapForType ==
    ASSUME TypeOK, NEW o \in acks
    PROVE  /\ o.ns \in Namespace /\ DocOf[o.id] \in Doc /\ o.seq \in Nat
           /\ SnapFor(o) \in Snap /\ SnapFor(o).seq \in Nat
  <1>1. o.ns \in Namespace /\ DocOf[o.id] \in Doc /\ o.seq \in Nat
    BY CoordinatorAssumption DEF TypeOK, Entry
  <1>2. SnapFor(o) \in Snap
    BY <1>1 DEF SnapFor, TypeOK
  <1>. QED  BY <1>1, <1>2 DEF Snap

LEMMA SnapStep ==
    ASSUME StoresAscend, TypeOK, LogInv, SnapInv, [Next]_vars
    PROVE  SnapInv'
  <1>1. ASSUME NEW c \in Caller, PushNew(c)
        PROVE  SnapInv'
    <2>. DEFINE o == [ns |-> call[c].ns, seq |-> nextSeq, id |-> Head(call[c].todo)]
    <2>1. /\ ops' = ops \cup {o} /\ acks' = acks \cup {o} /\ nextSeq' = nextSeq + 1
          /\ UNCHANGED <<snapshots, compactor>>
      BY <1>1 DEF PushNew, snapVars
    <2>2. o.ns \in Namespace /\ DocOf[o.id] \in Doc /\ o.seq = nextSeq /\ nextSeq \in Nat
      <3>1. Head(call[c].todo) \in MutationId /\ call[c].ns \in Namespace
        BY <1>1 DEF PushNew, TypeOK, Call
      <3>. QED  BY <3>1, CoordinatorAssumption DEF TypeOK
    <2>. HIDE DEF o
    <2>3. SnapFor(o).seq < nextSeq /\ SnapFor(o).seq \in Nat
      <3>1. snapshots[<<o.ns, DocOf[o.id]>>] \in Snap
        BY <2>2 DEF TypeOK
      <3>. QED  BY <2>2, <3>1 DEF SnapFor, SnapInv, Snap
    <2>4. \A p \in acks \cup {o} : SnapFor(p)' = SnapFor(p)
      BY <2>1 DEF SnapFor
    <2>5. \A ns \in Namespace, d \in Doc : snapshots[<<ns, d>>].seq \in Nat
      <3>1. \A ns \in Namespace, d \in Doc : snapshots[<<ns, d>>] \in Snap
        BY DEF TypeOK
      <3>. QED  BY <3>1 DEF Snap
    <2>. QED  BY <2>1, <2>2, <2>3, <2>4, <2>5 DEF SnapInv
  <1>2. ASSUME NEW ns \in Namespace, NEW doc \in Doc, NEW snap \in HonestSnap(ns, doc),
               snap.seq > snapshots[<<ns, doc>>].seq, StoreSnapshot(ns, doc, snap)
        PROVE  SnapInv'
    <2>1. /\ snapshots' = [snapshots EXCEPT ![<<ns, doc>>] = snap]
          /\ UNCHANGED <<ops, acks, nextSeq, compactor>>
      BY <1>2 DEF StoreSnapshot
    <2>2. /\ snap \in Snap /\ snap.seq \in Nat /\ snap.seq < nextSeq
          /\ snap.covers = {o.id : o \in {p \in acks :
                p.ns = ns /\ DocOf[p.id] = doc /\ p.seq <= snap.seq}}
      BY DEF HonestSnap, Snap, TypeOK, Entry
    <2>3. /\ snapshots'[<<ns, doc>>] = snap
          /\ \A n \in Namespace, d \in Doc :
                (n # ns \/ d # doc) => snapshots'[<<n, d>>] = snapshots[<<n, d>>]
          /\ \A n \in Namespace, d \in Doc : snapshots[<<n, d>>].seq <= snapshots'[<<n, d>>].seq
      <3>1. \A n \in Namespace, d \in Doc : snapshots[<<n, d>>].seq \in Nat
        <4>1. \A n \in Namespace, d \in Doc : snapshots[<<n, d>>] \in Snap
          BY DEF TypeOK
        <4>. QED  BY <4>1 DEF Snap
      <3>2. /\ snapshots'[<<ns, doc>>] = snap
            /\ \A n \in Namespace, d \in Doc :
                  (n # ns \/ d # doc) => snapshots'[<<n, d>>] = snapshots[<<n, d>>]
        BY <2>1 DEF TypeOK
      <3>. QED  BY <1>2, <2>2, <3>1, <3>2
    <2>4. ASSUME NEW o \in acks
          PROVE  /\ o.seq <= SnapFor(o)'.seq => o.id \in SnapFor(o)'.covers
                 /\ o \in ops \/ o.seq <= SnapFor(o)'.seq
      <3>1. CASE o.ns = ns /\ DocOf[o.id] = doc
        <4>1. SnapFor(o)' = snap
          BY <2>3, <3>1 DEF SnapFor
        <4>2. SnapFor(o).seq <= snap.seq
          BY <2>3, <3>1 DEF SnapFor
        <4>. QED  BY <2>2, <3>1, <4>1, <4>2, SnapForType DEF SnapInv
      <3>2. CASE ~(o.ns = ns /\ DocOf[o.id] = doc)
        <4>1. SnapFor(o)' = SnapFor(o)
          BY <2>3, <3>2, SnapForType DEF SnapFor
        <4>. QED  BY <4>1 DEF SnapInv
      <3>. QED  BY <3>1, <3>2
    <2>5. \A n \in Namespace : \A k \in compactor[n] : k.seq <= snapshots'[<<n, k.doc>>].seq
      <3>1. ASSUME NEW n \in Namespace, NEW k \in compactor[n]
            PROVE  k.seq <= snapshots'[<<n, k.doc>>].seq
        <4>1. k.doc \in Doc /\ k.seq \in Nat
          BY DEF TypeOK, Key
        <4>2. snapshots[<<n, k.doc>>] \in Snap
          BY <4>1 DEF TypeOK
        <4>3. snapshots[<<n, k.doc>>].seq \in Nat /\ k.seq <= snapshots[<<n, k.doc>>].seq
          BY <4>2 DEF Snap, SnapInv
        <4>4. snapshots'[<<n, k.doc>>].seq \in Nat
          BY <2>2, <2>3, <4>1, <4>3
        <4>. QED  BY <2>3, <4>1, <4>3, <4>4
      <3>. QED  BY <3>1
    <2>6. \A n \in Namespace, d \in Doc : snapshots'[<<n, d>>].seq < nextSeq
      BY <2>2, <2>3 DEF SnapInv
    <2>. QED  BY <2>1, <2>4, <2>5, <2>6 DEF SnapInv
  <1>3. ASSUME NEW ns \in Namespace, CompactRead(ns)
        PROVE  SnapInv'
    <2>1. /\ UNCHANGED <<ops, acks, nextSeq, snapshots>>
          /\ \A n \in Namespace \ {ns} : compactor'[n] = compactor[n]
          /\ compactor'[ns] = Keys(ns)
      BY <1>3 DEF CompactRead, TypeOK
    <2>2. \A d \in Doc : snapshots[<<ns, d>>].seq \in Nat
      <3>1. \A d \in Doc : snapshots[<<ns, d>>] \in Snap
        BY DEF TypeOK
      <3>. QED  BY <3>1 DEF Snap
    <2>3. \A k \in Keys(ns) : k.seq <= snapshots[<<ns, k.doc>>].seq
      <3>1. ASSUME NEW k \in Keys(ns) PROVE k.seq <= snapshots[<<ns, k.doc>>].seq
        <4>1. PICK d \in Doc : k = [doc |-> d, seq |-> snapshots[<<ns, d>>].seq]
          BY DEF Keys
        <4>2. k.doc = d /\ k.seq = snapshots[<<ns, d>>].seq
          BY <4>1
        <4>. QED  BY <2>2, <4>2
      <3>. QED  BY <3>1
    <2>4. \A n \in Namespace : \A k \in compactor'[n] : k.seq <= snapshots[<<n, k.doc>>].seq
      BY <2>1, <2>3 DEF SnapInv
    <2>. QED  BY <2>1, <2>4 DEF SnapInv, SnapFor
  <1>4. ASSUME NEW ns \in Namespace, CompactRemove(ns)
        PROVE  SnapInv'
    <2>1. /\ UNCHANGED <<acks, nextSeq, snapshots>>
          /\ ops' = {o \in ops : ~Compactable(ns, o)}
          /\ compactor'[ns] = {} /\ \A n \in Namespace \ {ns} : compactor'[n] = compactor[n]
      BY <1>4 DEF CompactRemove, TypeOK
    <2>2. ASSUME NEW o \in acks, o \in ops, Compactable(ns, o)
          PROVE  o.seq <= SnapFor(o).seq
      <3>1. PICK k \in compactor[ns] : k.doc = DocOf[o.id] /\ o.seq <= k.seq
        BY <2>2 DEF Compactable
      <3>2. o.ns = ns /\ k.seq <= SnapFor(o).seq
        BY <2>2, <3>1 DEF Compactable, SnapFor, SnapInv
      <3>3. k.seq \in Nat
        BY DEF TypeOK, Key
      <3>. QED  BY <3>1, <3>2, <3>3, SnapForType
    <2>3. \A o \in acks : o \in ops' \/ o.seq <= SnapFor(o).seq
      BY <2>1, <2>2 DEF SnapInv
    <2>4. \A n \in Namespace : \A k \in compactor'[n] : k.seq <= snapshots[<<n, k.doc>>].seq
      BY <2>1 DEF SnapInv
    <2>. QED  BY <2>1, <2>3, <2>4 DEF SnapInv, SnapFor
  <1>5. ASSUME NEW c \in Caller, PushDuplicate(c)
        PROVE  SnapInv'
    <2>1. acks' = acks /\ UNCHANGED <<ops, nextSeq, snapshots, compactor>>
      BY <1>5 DEF PushDuplicate, Existing, LogInv, snapVars
    <2>. QED  BY <2>1 DEF SnapInv, SnapFor
  <1>6. CASE UNCHANGED <<ops, acks, nextSeq, snapshots, compactor>>
    BY <1>6 DEF SnapInv, SnapFor
  <1>7. \/ \E c \in Caller : PushNew(c) \/ PushDuplicate(c)
        \/ \E ns \in Namespace, doc \in Doc : \E snap \in HonestSnap(ns, doc) :
              snap.seq > snapshots[<<ns, doc>>].seq /\ StoreSnapshot(ns, doc, snap)
        \/ \E ns \in Namespace : CompactRead(ns) \/ CompactRemove(ns)
        \/ UNCHANGED <<ops, acks, nextSeq, snapshots, compactor>>
    BY DEF Next, CallerStep, TaskStep, PushBegin, PushUnlock, PushBroadcast, PushReturn,
           SubCollect, SubReplay, SubStream, SubLagged, SubRecv, Subscribe, vars, snapVars
  <1>. QED  BY <1>1, <1>2, <1>3, <1>4, <1>5, <1>6, <1>7

\* As long as clients store ever newer snapshots of a document, compaction
\* loses nothing, also when a push, a store or a second compaction comes
\* between its two locks.
THEOREM CompactionSafe == StoresAscend => (Spec => []CommittedSurvives)
  <1>. SUFFICES ASSUME StoresAscend PROVE Spec => []CommittedSurvives
    OBVIOUS
  <1>1. SnapInv => CommittedSurvives
    BY DEF SnapInv, CommittedSurvives, SnapFor
  <1>2. TypeOK /\ LogInv /\ SnapInv /\ [Next]_vars => SnapInv'
    BY SnapStep
  <1>. QED  BY <1>1, <1>2, SnapInit, TypeCorrect, LogInvariant, PTL DEF Spec
-----------------------------------------------------------------------------
(* The coordinator implements the mutation log *)

\* A step that leaves the log and the answers alone is a stutter of the log.
LEMMA LogStutter ==
    UNCHANGED <<ops, acks>> => UNCHANGED Log!logVars
  BY DEF Log!logVars

\* Every step is a commit or a compaction of the mutation log, or a stutter.
LEMMA LogRefinement ==
    ASSUME TypeOK, LogInv, LogIsFunctional', [Next]_vars
    PROVE  [Log!Commit \/ Log!Compact]_(Log!logVars)
  <1>1. ASSUME NEW c \in Caller, PushDuplicate(c)
        PROVE  UNCHANGED <<ops, acks>>
    BY <1>1 DEF PushDuplicate, Existing, LogInv
  <1>2. ASSUME NEW c \in Caller, PushNew(c)
        PROVE  Log!Commit
    <2>. DEFINE o == [ns |-> call[c].ns, seq |-> nextSeq, id |-> Head(call[c].todo)]
    <2>1. ops' = ops \cup {o} /\ acks' = acks \cup {o} /\ o.seq = nextSeq
      BY <1>2 DEF PushNew
    <2>. HIDE DEF o
    <2>2. acks' = acks \cup ops' /\ ops \subseteq ops'
      BY <2>1 DEF LogInv
    <2>3. \A r \in ops' \ ops : \A p \in acks : p.seq < r.seq
      BY <2>1 DEF LogInv
    <2>4. \A r, p \in ops' : (r.seq = p.seq \/ (r.ns = p.ns /\ r.id = p.id)) => r = p
      BY DEF LogIsFunctional
    <2>. QED  BY <2>2, <2>3, <2>4 DEF Log!Commit
  <1>3. ASSUME NEW ns \in Namespace, CompactRemove(ns)
        PROVE  Log!Compact
    BY <1>3 DEF CompactRemove, Log!Compact
  <1>4. CASE UNCHANGED <<ops, acks, nextSeq>>
    BY <1>4, LogStutter
  <1>5. CASE \E c \in Caller : PushDuplicate(c)
    BY <1>5, <1>1, LogStutter
  <1>. QED  BY <1>2, <1>3, <1>4, <1>5, LogTouched

\* The in-memory coordinator implements the mutation log, for any number of
\* namespaces, threads and subscriptions: push and compact_oplog together
\* never reuse a sequence, store an id twice, or answer with what is not
\* committed.
THEOREM CoordinatorIsLog == Spec => ImplementsLog
  <1>1. Init => Log!Init
    BY DEF Init, Log!Init
  <1>2. TypeOK /\ LogInv /\ LogIsFunctional' /\ [Next]_vars
        => [Log!Commit \/ Log!Compact]_(Log!logVars)
    BY LogRefinement
  <1>. QED
    BY <1>1, <1>2, TypeCorrect, LogInvariant, LogFunctional, PTL
       DEF Spec, ImplementsLog, Log!Spec
=============================================================================
