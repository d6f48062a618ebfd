------------------------- MODULE UploadQueueProofs -------------------------
(***************************************************************************)
(* What holds of the upload queue for any oplog, any number of tasks in    *)
(* process_batch, any batch size and retry limit, and any number of faults *)
(* and restarts.                                                           *)
(***************************************************************************)
EXTENDS UploadQueue, TLAPS

-----------------------------------------------------------------------------
(* Type correctness *)

LEMMA FunctionIsSeq ==
    ASSUME NEW S, NEW n \in Nat, NEW f \in [1..n -> S]
    PROVE  f \in Seq(S) /\ Len(f) = n
  OBVIOUS

LEMMA BatchesType ==
    ASSUME NEW b \in Batches
    PROVE  b \in Seq(Id) /\ Ids(b) \subseteq Id
  BY UploadAssumption DEF Batches, Ids

LEMMA IdsType ==
    ASSUME NEW b \in Seq(Id)
    PROVE  /\ Ids(b) \subseteq Id
           /\ \A i \in Ids(b) : Position(b, i) \in 1..Len(b) /\ b[Position(b, i)] = i
  BY DEF Ids, Position

LEMMA ResultType == \A t \in Task, r \in Pc : Result(t, r) \in Pc
  BY DEF Result, Pc

LEMMA NoBatchType == NoBatch \in Call
  BY DEF NoBatch, Call, Pc

LEMMA TypeInit == Init => TypeOK
  <1>. SUFFICES ASSUME Init PROVE TypeOK
    OBVIOUS
  <1>1. offline \in BOOLEAN /\ waiting \subseteq Id /\ wasSynced \subseteq Id /\ demoted \subseteq Id
    BY DEF Init
  <1>2. call \in [Task -> Call]
    BY NoBatchType DEF Init
  <1>3. status \in [Id -> Status]
    BY DEF Init, Status
  <1>4. /\ order \in Seq(Id) /\ sequence \in [Id -> Nat] /\ attempts \in [Id -> Nat]
        /\ notified \in Nat /\ stored \in [Id -> Nat] /\ nextSeq \in Nat \ {0}
        /\ faults \in Nat /\ crashes \in Nat
    BY DEF Init, FirstSeq
  <1>. QED  BY <1>1, <1>2, <1>3, <1>4 DEF TypeOK

\* The coordinator keeps the sequences it gave, and gives positive ones.
LEMMA CommitFacts ==
    ASSUME TypeOK, NEW b \in Seq(Id), Commit(b)
    PROVE  /\ stored' \in [Id -> Nat] /\ nextSeq' \in Nat \ {0}
           /\ \A i \in Id : stored[i] # 0 => stored'[i] = stored[i]
           /\ \A i \in Ids(b) : stored'[i] \in Nat \ {0}
  <1>1. nextSeq \in Nat \ {0} /\ stored \in [Id -> Nat] /\ Len(b) \in Nat
    BY DEF TypeOK
  <1>2. \A i \in Ids(b) : i \in Id /\ Position(b, i) \in Nat \ {0}
    BY IdsType
  <1>3. ASSUME NEW i \in Id
        PROVE  /\ stored'[i] \in Nat
               /\ stored[i] # 0 => stored'[i] = stored[i]
               /\ i \in Ids(b) => stored'[i] \in Nat \ {0}
    BY <1>1, <1>2 DEF Commit
  <1>4. stored' \in [Id -> Nat]
    BY <1>3 DEF Commit
  <1>5. nextSeq' \in Nat \ {0}
    BY <1>1 DEF Commit
  <1>. QED  BY <1>2, <1>3, <1>4, <1>5

LEMMA TypeEnter ==
    ASSUME TypeOK, NEW t \in Task, ReadBatch(t) \/ SkipOffline(t)
    PROVE  TypeOK'
  <1>. USE DEF TypeOK, oplogVars, retryVars, coordVars, bounds
  <1>1. Enters(t) => notified' \in Nat /\ offline' \in BOOLEAN
    <2>1. Enters(t) => notified' \in Nat
      BY DEF Enters
    <2>2. Enters(t) => offline' \in BOOLEAN
      BY Zenon DEF Enters
    <2>. QED  BY <2>1, <2>2
  <1>2. CASE ReadBatch(t)
    <2>1. PICK b \in Batches : call' = [call EXCEPT ![t] =
            [NoBatch EXCEPT !.pc = IF b = <<>> THEN Result(t, "zero") ELSE "read", !.batch = b]]
      BY <1>2 DEF ReadBatch
    <2>2. [NoBatch EXCEPT !.pc = IF b = <<>> THEN Result(t, "zero") ELSE "read", !.batch = b]
            \in Call
      BY BatchesType, ResultType, NoBatchType DEF Call, Pc
    <2>3. call' \in [Task -> Call]
      BY <2>1, <2>2
    <2>. QED  BY <1>1, <1>2, <2>3 DEF ReadBatch
  <1>3. CASE SkipOffline(t)
    <2>1. [NoBatch EXCEPT !.pc = Result(t, "zero")] \in Call
      BY ResultType, NoBatchType DEF Call, Pc
    <2>. QED  BY <1>1, <1>3, <2>1 DEF SkipOffline
  <1>. QED  BY <1>2, <1>3

LEMMA TypePush ==
    ASSUME TypeOK, NEW t \in Task, FilterBatch(t) \/ PushOk(t) \/ PushFails(t)
    PROVE  TypeOK'
  <1>. USE DEF TypeOK, oplogVars, retryVars, coordVars, bounds
  <1>0. call[t] \in Call /\ call[t].batch \in Seq(Id)
    BY DEF Call
  <1>1. CASE FilterBatch(t)
    <2>1. PICK b \in Batches : call' = [call EXCEPT
            ![t].pc = IF b = <<>> THEN Result(t, "zero") ELSE "push", ![t].batch = b]
      BY <1>1 DEF FilterBatch
    <2>2. [call[t] EXCEPT !.pc = IF b = <<>> THEN Result(t, "zero") ELSE "push", !.batch = b]
            \in Call
      BY <1>0, BatchesType, ResultType DEF Call, Pc
    <2>3. call' \in [Task -> Call]
      BY <2>1, <2>2
    <2>. QED  BY <1>1, <2>3 DEF FilterBatch
  <1>2. CASE PushOk(t)
    <2>1. stored' \in [Id -> Nat] /\ nextSeq' \in Nat \ {0}
      BY <1>0, <1>2, CommitFacts DEF PushOk
    <2>. DEFINE reply == [k \in 1..Len(call[t].batch) |-> stored'[call[t].batch[k]]]
    <2>2. reply \in Seq(Nat \ {0})
      <3>1. \A k \in 1..Len(call[t].batch) : call[t].batch[k] \in Ids(call[t].batch)
        BY DEF Ids
      <3>2. \A k \in 1..Len(call[t].batch) : reply[k] \in Nat \ {0}
        BY <1>0, <1>2, <3>1, CommitFacts DEF PushOk
      <3>3. Len(call[t].batch) \in Nat
        BY <1>0
      <3>4. reply \in [1..Len(call[t].batch) -> Nat \ {0}]
        BY <3>2
      <3>. HIDE DEF reply
      <3>. QED  BY <3>3, <3>4, FunctionIsSeq
    <2>3. [call[t] EXCEPT !.pc = "ack", !.reply = reply] \in Call
      BY <1>0, <2>2 DEF Call, Pc
    <2>4. call' = [call EXCEPT ![t].pc = "ack", ![t].reply = reply]
      BY <1>2 DEF PushOk
    <2>. HIDE DEF reply
    <2>5. call' \in [Task -> Call]
      BY <2>3, <2>4
    <2>. QED  BY <1>2, <2>1, <2>5 DEF PushOk
  <1>3. CASE PushFails(t)
    <2>1. stored' \in [Id -> Nat] /\ nextSeq' \in Nat \ {0}
      BY <1>0, <1>3, CommitFacts DEF PushFails
    <2>2. call' \in [Task -> Call]
      <3>1. PICK r \in {"fail", "error"} : call' = [call EXCEPT ![t].pc = r]
        BY <1>3 DEF PushFails
      <3>2. [call[t] EXCEPT !.pc = r] \in Call
        BY <1>0 DEF Call, Pc
      <3>. QED  BY <3>1, <3>2
    <2>. QED  BY <1>3, <2>1, <2>2 DEF PushFails
  <1>. QED  BY <1>1, <1>2, <1>3

\* Type correctness needs this much about the calls in progress: while a task
\* marks its batch, the rest of the answer pairs with the rest of the batch,
\* and holds the sequences under which the coordinator stored it.
ReplyInv ==
    \A t \in Task : call[t].pc \in {"ack", "mark"} =>
        /\ Len(call[t].reply) = Len(call[t].batch)
        /\ \A k \in 1..Len(call[t].batch) :
              /\ stored[call[t].batch[k]] # 0
              /\ call[t].reply[k] = stored[call[t].batch[k]]

\* Facts about a batch and an answer of the same length.
LEMMA Paired ==
    ASSUME NEW b \in Seq(Id), NEW r \in Seq(Nat \ {0}), Len(r) = Len(b)
    PROVE  /\ \A i \in Ids(b) : r[Position(b, i)] \in Nat
           /\ b # <<>> => /\ Head(b) \in Id /\ Tail(b) \in Seq(Id)
                          /\ Head(r) \in Nat /\ Tail(r) \in Seq(Nat \ {0})
                          /\ Len(Tail(r)) = Len(Tail(b))
                          /\ Head(b) = b[1] /\ Head(r) = r[1] /\ 1 \in 1..Len(b)
                          /\ \A k \in 1..Len(Tail(b)) :
                                /\ k + 1 \in 1..Len(b)
                                /\ Tail(b)[k] = b[k + 1] /\ Tail(r)[k] = r[k + 1]
  <1>1. \A i \in Ids(b) : r[Position(b, i)] \in Nat
    <2>1. \A k \in 1..Len(b) : r[k] \in Nat
      OBVIOUS
    <2>. QED  BY <2>1, IdsType
  <1>2. ASSUME b # <<>> PROVE Len(b) >= 1 /\ r # <<>>
    BY <1>2
  <1>3. ASSUME b # <<>> PROVE
          /\ Head(b) \in Id /\ Tail(b) \in Seq(Id)
          /\ Head(r) \in Nat /\ Tail(r) \in Seq(Nat \ {0})
          /\ Len(Tail(r)) = Len(Tail(b)) /\ Len(Tail(b)) = Len(b) - 1
          /\ Head(b) = b[1] /\ Head(r) = r[1] /\ 1 \in 1..Len(b)
    BY <1>2, <1>3
  <1>4. ASSUME b # <<>>, NEW k \in 1..Len(Tail(b))
        PROVE  k + 1 \in 1..Len(b) /\ Tail(b)[k] = b[k + 1] /\ Tail(r)[k] = r[k + 1]
    BY <1>2, <1>3, <1>4
  <1>. QED  BY <1>1, <1>3, <1>4

LEMMA UpdateType ==
    ASSUME NEW c \in Call, NEW p \in Pc, NEW b \in Seq(Id), NEW r \in Seq(Nat \ {0}),
           NEW ids \in SUBSET Id
    PROVE  [c EXCEPT !.pc = p, !.batch = b, !.reply = r, !.ids = ids] \in Call
  BY DEF Call

LEMMA TypeMark ==
    ASSUME TypeOK, ReplyInv, NEW t \in Task, MarkAll(t) \/ MarkOne(t) \/ MarkDone(t)
    PROVE  TypeOK'
  <1>. USE DEF TypeOK, oplogVars, retryVars, coordVars, bounds
  <1>. DEFINE batch == call[t].batch
              reply == call[t].reply
  <1>0. /\ call[t] \in Call /\ batch \in Seq(Id) /\ reply \in Seq(Nat \ {0})
        /\ call[t].ids \subseteq Id
    BY DEF Call
  <1>. HIDE DEF batch, reply
  <1>1. CASE MarkAll(t)
    <2>1. Len(reply) = Len(batch)
      BY <1>1 DEF MarkAll, ReplyInv, batch, reply
    <2>2. \A i \in Ids(batch) : reply[Position(batch, i)] \in Nat
      BY <1>0, <2>1, Paired
    <2>3. Ids(batch) \subseteq Id
      BY <1>0, IdsType
    <2>4. status' \in [Id -> Status]
      BY <1>1 DEF MarkAll, Status
    <2>5. sequence' \in [Id -> Nat]
      <3>1. sequence' = [i \in Id |-> IF i \in Ids(batch) THEN reply[Position(batch, i)]
                                                          ELSE sequence[i]]
        BY <1>1 DEF MarkAll, batch, reply
      <3>. QED  BY <2>2, <3>1
    <2>6. [call[t] EXCEPT !.pc = "mark", !.batch = <<>>, !.reply = <<>>, !.ids = Ids(batch)] \in Call
      <3>1. "mark" \in Pc /\ <<>> \in Seq(Id) /\ <<>> \in Seq(Nat \ {0}) /\ Ids(batch) \in SUBSET Id
        BY <2>3 DEF Pc
      <3>. QED  BY <1>0, <3>1, UpdateType
    <2>7. call' \in [Task -> Call]
      <3>1. call' = [call EXCEPT ![t].pc = "mark", ![t].batch = <<>>, ![t].reply = <<>>,
                                 ![t].ids = Ids(batch)]
        BY <1>1 DEF MarkAll, batch
      <3>. QED  BY <2>6, <3>1
    <2>8. wasSynced' \subseteq Id
      BY <1>1, <2>3 DEF MarkAll, batch
    <2>. QED  BY <1>1, <2>4, <2>5, <2>7, <2>8 DEF MarkAll
  <1>2. CASE MarkOne(t)
    <2>1. Len(reply) = Len(batch) /\ batch # <<>>
      BY <1>0, <1>2 DEF MarkOne, ReplyInv, batch, reply
    <2>2. /\ Head(batch) \in Id /\ Tail(batch) \in Seq(Id)
          /\ Head(reply) \in Nat /\ Tail(reply) \in Seq(Nat \ {0})
      BY <1>0, <2>1, Paired
    <2>3. [call[t] EXCEPT !.pc = "mark", !.batch = Tail(batch), !.reply = Tail(reply),
                          !.ids = call[t].ids \cup {Head(batch)}] \in Call
      <3>1. "mark" \in Pc /\ (call[t].ids \cup {Head(batch)}) \in SUBSET Id
        BY <1>0, <2>2 DEF Pc
      <3>. QED  BY <1>0, <2>2, <3>1, UpdateType
    <2>4. call' \in [Task -> Call]
      <3>1. call' = [call EXCEPT ![t].pc = "mark", ![t].batch = Tail(batch), ![t].reply = Tail(reply),
                                 ![t].ids = call[t].ids \cup {Head(batch)}]
        BY <1>2 DEF MarkOne, batch, reply
      <3>. QED  BY <2>3, <3>1
    <2>5. /\ status' = [status EXCEPT ![Head(batch)] = "Synced"]
          /\ sequence' = [sequence EXCEPT ![Head(batch)] = Head(reply)]
          /\ wasSynced' = wasSynced \cup {Head(batch)}
      BY <1>2 DEF MarkOne, batch, reply
    <2>6. status' \in [Id -> Status] /\ sequence' \in [Id -> Nat] /\ wasSynced' \subseteq Id
      BY <2>2, <2>5 DEF Status
    <2>. QED  BY <1>2, <2>4, <2>6 DEF MarkOne
  <1>3. CASE MarkDone(t)
    <2>1. [NoBatch EXCEPT !.pc = Result(t, "some")] \in Call
      BY ResultType, NoBatchType DEF Call, Pc
    <2>2. call' \in [Task -> Call]
      BY <1>3, <2>1 DEF MarkDone
    <2>. QED  BY <1>3, <2>2 DEF MarkDone
  <1>. QED  BY <1>1, <1>2, <1>3

LEMMA TypeFailure ==
    ASSUME TypeOK, NEW t \in Task,
           \/ RecordFailure(t) \/ MarkFailed(t) \/ FailureDone(t) \/ StorageFails(t)
           \/ t = "worker" /\ (WorkerZero \/ WorkerError)
    PROVE  TypeOK'
  <1>. USE DEF TypeOK, oplogVars, retryVars, coordVars, bounds
  <1>0. call[t] \in Call /\ call[t].batch \in Seq(Id) /\ call[t].ids \subseteq Id
    BY DEF Call
  <1>1. CASE RecordFailure(t)
    <2>. DEFINE ids == Ids(call[t].batch)
                exhausted == {i \in ids : attempts[i] + 1 >= MaxAttempts}
                next == [NoBatch EXCEPT
                           !.pc = IF call[t].pc = "fail" THEN "giveup" ELSE "giveup_err",
                           !.ids = exhausted]
    <2>1. ids \subseteq Id
      BY <1>0, IdsType
    <2>2. next \in Call
      BY <2>1, NoBatchType DEF Call, Pc
    <2>3. /\ attempts' = [i \in Id |-> attempts[i] + (IF i \in ids THEN 1 ELSE 0)]
          /\ waiting' = (waiting \cup ids) \ exhausted
          /\ call' = [call EXCEPT ![t] = next]
      BY <1>1 DEF RecordFailure
    <2>4. attempts' \in [Id -> Nat] /\ waiting' \subseteq Id
      BY <2>1, <2>3
    <2>5. call' \in [Task -> Call]
      <3>. HIDE DEF next
      <3>. QED  BY <2>2, <2>3
    <2>. QED  BY <1>1, <2>4, <2>5 DEF RecordFailure
  <1>2. CASE MarkFailed(t)
    <2>1. PICK i \in call[t].ids :
            /\ status' = [status EXCEPT ![i] = "Failed"]
            /\ demoted' = demoted \cup {j \in {i} : status[j] = "Synced"}
            /\ call' = [call EXCEPT ![t].ids = @ \ {i}]
      BY <1>2 DEF MarkFailed
    <2>2. [call[t] EXCEPT !.ids = @ \ {i}] \in Call
      BY <1>0 DEF Call
    <2>3. call' \in [Task -> Call]
      BY <2>1, <2>2
    <2>4. status' \in [Id -> Status] /\ demoted' \subseteq Id
      BY <1>0, <2>1 DEF Status
    <2>. QED  BY <1>2, <2>3, <2>4 DEF MarkFailed
  <1>3. CASE FailureDone(t)
    <2>1. Result(t, IF call[t].pc = "giveup" THEN "zero" ELSE "err") \in Pc
      BY ResultType DEF Pc
    <2>2. [call[t] EXCEPT !.pc = Result(t, IF @ = "giveup" THEN "zero" ELSE "err")] \in Call
      BY <1>0, <2>1 DEF Call
    <2>3. call' \in [Task -> Call]
      BY <1>3, <2>2 DEF FailureDone
    <2>. QED  BY <1>3, <2>3 DEF FailureDone
  <1>4. CASE StorageFails(t)
    <2>1. [NoBatch EXCEPT !.pc = Result(t, "err")] \in Call
      BY ResultType, NoBatchType DEF Call, Pc
    <2>. QED  BY <1>4, <2>1 DEF StorageFails
  <1>5. CASE t = "worker" /\ WorkerZero
    <2>1. offline' \in BOOLEAN
      BY <1>5, Zenon DEF WorkerZero
    <2>. QED  BY <1>5, <2>1, NoBatchType DEF WorkerZero
  <1>6. CASE t = "worker" /\ WorkerError
    BY <1>6, NoBatchType DEF WorkerError
  <1>. QED  BY <1>1, <1>2, <1>3, <1>4, <1>5, <1>6

LEMMA TypeNext == TypeOK /\ ReplyInv /\ [Next]_vars => TypeOK'
  <1>. SUFFICES ASSUME TypeOK, ReplyInv, [Next]_vars PROVE TypeOK'
    OBVIOUS
  <1>. USE DEF TypeOK, oplogVars, retryVars, coordVars, bounds
  <1>1. ASSUME NEW i \in Id, Write(i) PROVE TypeOK'
    BY <1>1 DEF Write, Status
  <1>2. ASSUME NEW i \in Id, RetryDue(i) PROVE TypeOK'
    BY <1>2 DEF RetryDue
  <1>3. CASE Restart
    <2>1. status' \in [Id -> Status]
      BY <1>3 DEF Restart, Status
    <2>2. /\ call' \in [Task -> Call] /\ attempts' \in [Id -> Nat] /\ waiting' \subseteq Id
          /\ notified' \in Nat /\ crashes' \in Nat
      BY <1>3, NoBatchType DEF Restart
    <2>3. offline' \in BOOLEAN
      BY <1>3 DEF Restart
    <2>. QED  BY <1>3, <2>1, <2>2, <2>3 DEF Restart
  <1>4. CASE UNCHANGED vars
    BY <1>4 DEF vars
  <1>. QED
    BY <1>1, <1>2, <1>3, <1>4, TypeEnter, TypePush, TypeMark, TypeFailure DEF Next, Proceed

-----------------------------------------------------------------------------
(* Acknowledgements and the coordinator's log *)

\* A sequence the coordinator gave an id stays: only a push changes its log.
LEMMA StoredKept ==
    ASSUME TypeOK, [Next]_vars, NEW i \in Id, stored[i] # 0
    PROVE  stored'[i] = stored[i]
  <1>1. ASSUME NEW t \in Task, PushOk(t) \/ PushFails(t) PROVE stored'[i] = stored[i]
    <2>1. call[t].batch \in Seq(Id)
      BY DEF TypeOK, Call
    <2>2. Commit(call[t].batch) \/ stored' = stored
      BY <1>1 DEF PushOk, PushFails, coordVars
    <2>. QED  BY <2>1, <2>2, CommitFacts
  <1>2. \/ stored' = stored
        \/ \E t \in Task : PushOk(t) \/ PushFails(t)
    BY DEF Next, Proceed, Write, RetryDue, ReadBatch, SkipOffline, Restart, FilterBatch,
           MarkAll, MarkOne, MarkDone, RecordFailure, MarkFailed, FailureDone,
           StorageFails, WorkerZero, WorkerError, coordVars, vars
  <1>. QED  BY <1>1, <1>2

\* What may happen to a task's call as far as its answer is concerned.
LEMMA CallChange ==
    ASSUME TypeOK, [Next]_vars, NEW r \in Task
    PROVE  \/ call'[r] = call[r]
           \/ call'[r].pc \notin {"ack", "mark"}
           \/ PushOk(r) \/ MarkAll(r) \/ MarkOne(r)
  <1>0. call[r] \in Call /\ DOMAIN call = Task
    BY DEF TypeOK
  <1>1. /\ Result(r, "zero") \notin {"ack", "mark"}
        /\ Result(r, "some") \notin {"ack", "mark"}
        /\ Result(r, "err") \notin {"ack", "mark"}
    BY DEF Result
  <1>2. ASSUME NEW t \in Task, t # r, ReadBatch(t) \/ SkipOffline(t) \/ Proceed(t)
        PROVE  call'[r] = call[r]
    BY <1>0, <1>2 DEF Proceed, ReadBatch, SkipOffline, FilterBatch, PushOk, PushFails,
       MarkAll, MarkOne, MarkDone, RecordFailure, MarkFailed, FailureDone,
       StorageFails, WorkerZero, WorkerError
  <1>3. CASE ReadBatch(r)
    <2>1. PICK b \in Batches : call'[r] =
            [NoBatch EXCEPT !.pc = IF b = <<>> THEN Result(r, "zero") ELSE "read", !.batch = b]
      BY <1>0, <1>3 DEF ReadBatch
    <2>. QED  BY <1>1, <2>1 DEF NoBatch
  <1>4. CASE SkipOffline(r) \/ StorageFails(r) \/ MarkDone(r)
    <2>1. \/ call'[r] = [NoBatch EXCEPT !.pc = Result(r, "zero")]
          \/ call'[r] = [NoBatch EXCEPT !.pc = Result(r, "err")]
          \/ call'[r] = [NoBatch EXCEPT !.pc = Result(r, "some")]
      BY <1>0, <1>4 DEF SkipOffline, StorageFails, MarkDone
    <2>. QED  BY <1>1, <2>1 DEF NoBatch
  <1>5. CASE FilterBatch(r)
    <2>1. PICK b \in Batches : call'[r] =
            [call[r] EXCEPT !.pc = IF b = <<>> THEN Result(r, "zero") ELSE "push", !.batch = b]
      BY <1>0, <1>5 DEF FilterBatch
    <2>. QED  BY <1>0, <1>1, <2>1 DEF Call
  <1>6. CASE PushFails(r)
    <2>1. PICK p \in {"fail", "error"} : call'[r] = [call[r] EXCEPT !.pc = p]
      BY <1>0, <1>6 DEF PushFails
    <2>. QED  BY <1>0, <2>1 DEF Call
  <1>7. CASE RecordFailure(r)
    <2>1. PICK ids : call'[r] = [NoBatch EXCEPT
            !.pc = IF call[r].pc = "fail" THEN "giveup" ELSE "giveup_err", !.ids = ids]
      BY <1>0, <1>7 DEF RecordFailure
    <2>. QED  BY <2>1 DEF NoBatch
  <1>8. CASE MarkFailed(r)
    <2>1. PICK i : call'[r] = [call[r] EXCEPT !.ids = @ \ {i}]
      BY <1>0, <1>8 DEF MarkFailed
    <2>2. call[r].pc \notin {"ack", "mark"}
      BY <1>8 DEF MarkFailed
    <2>. QED  BY <1>0, <2>1, <2>2 DEF Call
  <1>9. CASE FailureDone(r)
    <2>1. \/ call'[r] = [call[r] EXCEPT !.pc = Result(r, "zero")]
          \/ call'[r] = [call[r] EXCEPT !.pc = Result(r, "err")]
      BY <1>0, <1>9 DEF FailureDone
    <2>. QED  BY <1>0, <1>1, <2>1 DEF Call
  <1>10. CASE r = "worker" /\ (WorkerZero \/ WorkerError)
    <2>1. call'[r] = NoBatch
      BY <1>0, <1>10 DEF WorkerZero, WorkerError
    <2>. QED  BY <2>1 DEF NoBatch
  <1>11. CASE Restart
    BY <1>11 DEF Restart, NoBatch
  <1>12. ASSUME NEW i \in Id, Write(i) \/ RetryDue(i) PROVE call' = call
    BY <1>12 DEF Write, RetryDue
  <1>13. CASE UNCHANGED vars
    BY <1>13 DEF vars
  <1>. QED
    BY <1>2, <1>3, <1>4, <1>5, <1>6, <1>7, <1>8, <1>9, <1>10, <1>11, <1>12, <1>13
    DEF Next, Proceed

LEMMA ReplyStep == TypeOK /\ ReplyInv /\ [Next]_vars => ReplyInv'
  <1>. SUFFICES ASSUME TypeOK, ReplyInv, [Next]_vars,
                       NEW t \in Task, call'[t].pc \in {"ack", "mark"}
                PROVE  (/\ Len(call[t].reply) = Len(call[t].batch)
                        /\ \A k \in 1..Len(call[t].batch) :
                              /\ stored[call[t].batch[k]] # 0
                              /\ call[t].reply[k] = stored[call[t].batch[k]])'
    BY DEF ReplyInv
  <1>. DEFINE batch == call[t].batch
              reply == call[t].reply
  <1>0. /\ call[t] \in Call /\ DOMAIN call = Task
        /\ batch \in Seq(Id) /\ reply \in Seq(Nat \ {0})
    BY DEF TypeOK, Call
  <1>1. call[t].pc \in {"ack", "mark"} =>
          /\ Len(reply) = Len(batch)
          /\ \A k \in 1..Len(batch) : stored[batch[k]] # 0 /\ reply[k] = stored[batch[k]]
    BY DEF ReplyInv
  <1>2. \A k \in 1..Len(batch) : batch[k] \in Id
    BY <1>0
  <1>. HIDE DEF batch, reply
  <1>3. call[t].pc \in {"ack", "mark"} =>
          \A k \in 1..Len(batch) : stored'[batch[k]] # 0 /\ reply[k] = stored'[batch[k]]
    BY <1>1, <1>2, StoredKept
  <1>4. CASE call'[t] = call[t]
    BY <1>1, <1>3, <1>4 DEF batch, reply
  <1>5. CASE PushOk(t)
    <2>. DEFINE answer == [k \in 1..Len(batch) |-> stored'[batch[k]]]
    <2>1. call'[t] = [call[t] EXCEPT !.pc = "ack", !.reply = answer]
      BY <1>0, <1>5 DEF PushOk, batch
    <2>2. call'[t].batch = batch /\ call'[t].reply = answer
      BY <1>0, <2>1 DEF Call, batch
    <2>3. \A k \in 1..Len(batch) : stored'[batch[k]] \in Nat \ {0}
      <3>1. \A k \in 1..Len(batch) : batch[k] \in Ids(batch)
        BY DEF Ids
      <3>. QED  BY <1>0, <1>5, <3>1, CommitFacts DEF PushOk, batch
    <2>4. Len(answer) = Len(batch)
      <3>1. answer \in [1..Len(batch) -> Nat \ {0}] /\ Len(batch) \in Nat
        BY <1>0, <2>3
      <3>. HIDE DEF answer
      <3>. QED  BY <3>1, FunctionIsSeq
    <2>5. \A k \in 1..Len(batch) : answer[k] = stored'[batch[k]]
      OBVIOUS
    <2>. HIDE DEF answer
    <2>. QED  BY <2>2, <2>3, <2>4, <2>5
  <1>6. CASE MarkAll(t)
    <2>1. call'[t].batch = <<>> /\ call'[t].reply = <<>>
      BY <1>0, <1>6 DEF MarkAll, Call
    <2>. QED  BY <2>1
  <1>7. CASE MarkOne(t)
    <2>1. call'[t].batch = Tail(batch) /\ call'[t].reply = Tail(reply)
      BY <1>0, <1>7 DEF MarkOne, Call, batch, reply
    <2>2. batch # <<>> /\ call[t].pc \in {"ack", "mark"}
      BY <1>7 DEF MarkOne, batch
    <2>3. /\ Len(Tail(reply)) = Len(Tail(batch))
          /\ \A k \in 1..Len(Tail(batch)) : /\ k + 1 \in 1..Len(batch)
                                            /\ Tail(batch)[k] = batch[k + 1]
                                            /\ Tail(reply)[k] = reply[k + 1]
      BY <1>0, <1>1, <2>2, Paired
    <2>. QED  BY <1>3, <2>1, <2>2, <2>3
  <1>. QED  BY <1>4, <1>5, <1>6, <1>7, CallChange

LEMMA ReplyInit == Init => ReplyInv
  BY DEF Init, ReplyInv, NoBatch

\* Answers and types support each other.
LEMMA TypeAndReply == Spec => [](TypeOK /\ ReplyInv)
  BY TypeInit, TypeNext, ReplyInit, ReplyStep, PTL DEF Spec

\* Type correctness: in particular every sequence mark_synced records is a
\* number the coordinator gave, whatever the interleaving of the tasks.
THEOREM TypeCorrect == Spec => []TypeOK
  BY TypeAndReply, PTL

-----------------------------------------------------------------------------
(* Synced means stored *)

\* The oplog's statuses change in five ways.
LEMMA OplogChange ==
    ASSUME [Next]_vars
    PROVE  \/ UNCHANGED <<status, sequence, wasSynced, demoted>>
           \/ \E i \in Id : Write(i)
           \/ \E t \in Task : MarkAll(t) \/ MarkOne(t) \/ MarkFailed(t)
           \/ Restart
  BY DEF Next, Proceed, RetryDue, ReadBatch, SkipOffline, FilterBatch, PushOk, PushFails,
         MarkDone, RecordFailure, FailureDone, StorageFails, WorkerZero, WorkerError,
         oplogVars, vars

LEMMA SyncedStep == TypeOK /\ ReplyInv /\ SyncedIsStored /\ [Next]_vars => SyncedIsStored'
  <1>. SUFFICES ASSUME TypeOK, ReplyInv, SyncedIsStored, [Next]_vars,
                       NEW i \in Id, status'[i] = "Synced"
                PROVE  stored'[i] # 0 /\ sequence'[i] = stored'[i]
    BY DEF SyncedIsStored
  <1>1. status \in [Id -> Status] /\ sequence \in [Id -> Nat]
    BY DEF TypeOK
  <1>2. CASE status[i] = "Synced" /\ sequence'[i] = sequence[i]
    BY <1>2, StoredKept DEF SyncedIsStored
  <1>3. ASSUME NEW j \in Id, Write(j)
        PROVE  status[i] = "Synced" /\ sequence'[i] = sequence[i]
    BY <1>1, <1>3 DEF Write
  <1>4. ASSUME NEW t \in Task, MarkFailed(t)
        PROVE  status[i] = "Synced" /\ sequence'[i] = sequence[i]
    <2>1. PICK j : status' = [status EXCEPT ![j] = "Failed"]
      BY <1>4 DEF MarkFailed
    <2>. QED  BY <1>1, <1>4, <2>1 DEF MarkFailed
  <1>5. CASE Restart
    <2>1. status[i] = "Synced" /\ sequence'[i] = sequence[i]
      BY <1>5 DEF Restart
    <2>. QED  BY <1>2, <2>1
  <1>6. ASSUME NEW t \in Task, MarkAll(t) \/ MarkOne(t)
        PROVE  stored'[i] # 0 /\ sequence'[i] = stored'[i]
    <2>. DEFINE batch == call[t].batch
                reply == call[t].reply
    <2>1. batch \in Seq(Id) /\ reply \in Seq(Nat \ {0})
      BY DEF TypeOK, Call
    <2>2. /\ Len(reply) = Len(batch)
          /\ \A k \in 1..Len(batch) : stored[batch[k]] # 0 /\ reply[k] = stored[batch[k]]
      BY <1>6 DEF ReplyInv, MarkAll, MarkOne
    <2>3. stored' = stored
      BY <1>6 DEF MarkAll, MarkOne, coordVars
    <2>4. CASE MarkAll(t)
      <3>1. i \in Ids(batch) => sequence'[i] = reply[Position(batch, i)]
        BY <2>4 DEF MarkAll
      <3>2. i \notin Ids(batch) => status[i] = "Synced" /\ sequence'[i] = sequence[i]
        BY <2>4 DEF MarkAll
      <3>3. i \in Ids(batch) => Position(batch, i) \in 1..Len(batch) /\ batch[Position(batch, i)] = i
        BY <2>1, IdsType
      <3>. HIDE DEF batch, reply
      <3>. QED  BY <1>2, <2>2, <2>3, <3>1, <3>2, <3>3
    <2>5. CASE MarkOne(t)
      <3>1. /\ status' = [status EXCEPT ![Head(batch)] = "Synced"]
            /\ sequence' = [sequence EXCEPT ![Head(batch)] = Head(reply)]
            /\ batch # <<>>
        BY <2>5 DEF MarkOne
      <3>. HIDE DEF batch, reply
      <3>2. Head(batch) = batch[1] /\ Head(reply) = reply[1] /\ 1 \in 1..Len(batch)
        BY <2>1, <2>2, <3>1, Paired
      <3>3. CASE i = Head(batch)
        BY <1>1, <2>2, <2>3, <3>1, <3>2, <3>3
      <3>4. CASE i # Head(batch)
        BY <1>1, <1>2, <3>1, <3>4
      <3>. QED  BY <3>3, <3>4
    <2>. QED  BY <1>6, <2>4, <2>5
  <1>. QED  BY <1>2, <1>3, <1>4, <1>5, <1>6, OplogChange

\* An entry the client holds for Synced is in the coordinator's log, under
\* the sequence the client recorded: for any number of overlapping calls of
\* process_batch, of lost acknowledgements, storage errors and restarts.
THEOREM SyncedStored == Spec => []SyncedIsStored
  <1>1. Init => SyncedIsStored
    BY DEF Init, SyncedIsStored
  <1>. QED  BY <1>1, SyncedStep, TypeAndReply, PTL DEF Spec

-----------------------------------------------------------------------------
(* An entry is uploaded again only after a race *)

\* The inductive form: an entry that was Synced still is, unless mark_failed
\* overwrote it.
RaceInv == \A i \in wasSynced : status[i] = "Synced" \/ i \in demoted

LEMMA RaceStep == TypeOK /\ RaceInv /\ [Next]_vars => RaceInv'
  <1>. SUFFICES ASSUME TypeOK, RaceInv, [Next]_vars,
                       NEW i \in wasSynced'
                PROVE  status'[i] = "Synced" \/ i \in demoted'
    BY DEF RaceInv
  <1>1. status \in [Id -> Status] /\ wasSynced \subseteq Id
    BY DEF TypeOK
  <1>2. CASE UNCHANGED <<status, wasSynced, demoted>>
    BY <1>2 DEF RaceInv
  <1>3. ASSUME NEW j \in Id, Write(j) PROVE status'[i] = "Synced" \/ i \in demoted'
    BY <1>1, <1>3 DEF RaceInv, Write
  <1>4. ASSUME NEW t \in Task, MarkFailed(t) PROVE status'[i] = "Synced" \/ i \in demoted'
    <2>1. PICK j : /\ status' = [status EXCEPT ![j] = "Failed"]
                   /\ demoted' = demoted \cup {k \in {j} : status[k] = "Synced"}
      BY <1>4 DEF MarkFailed
    <2>2. wasSynced' = wasSynced
      BY <1>4 DEF MarkFailed
    <2>. QED  BY <1>1, <2>1, <2>2 DEF RaceInv
  <1>5. ASSUME NEW t \in Task, MarkAll(t) PROVE status'[i] = "Synced" \/ i \in demoted'
    <2>1. call[t].batch \in Seq(Id)
      BY DEF TypeOK, Call
    <2>2. Ids(call[t].batch) \subseteq Id
      BY <2>1, IdsType
    <2>. QED  BY <1>1, <1>5, <2>2 DEF RaceInv, MarkAll
  <1>6. ASSUME NEW t \in Task, MarkOne(t) PROVE status'[i] = "Synced" \/ i \in demoted'
    <2>1. call[t].batch \in Seq(Id) /\ call[t].batch # <<>>
      BY <1>6 DEF TypeOK, Call, MarkOne
    <2>2. Head(call[t].batch) \in Id
      BY <2>1
    <2>. QED  BY <1>1, <1>6, <2>2 DEF RaceInv, MarkOne
  <1>7. CASE Restart
    <2>1. status[i] = "Synced" => status'[i] = "Synced"
      BY <1>1, <1>7 DEF Restart, Stale
    <2>. QED  BY <1>7, <2>1 DEF RaceInv, Restart
  <1>. QED  BY <1>2, <1>3, <1>4, <1>5, <1>6, <1>7, OplogChange

\* Once Synced, an entry is uploaded a second time only after an overlapping
\* call that failed late marked it Failed: no restart, lost acknowledgement
\* or storage error alone brings it back into a batch.
THEOREM ReuploadNeedsRace == Spec => []ReuploadOnlyAfterRace
  <1>1. Init => RaceInv
    BY DEF Init, RaceInv
  <1>2. RaceInv => ReuploadOnlyAfterRace
    BY DEF RaceInv, ReuploadOnlyAfterRace, Uploadable
  <1>. QED  BY <1>1, <1>2, RaceStep, TypeAndReply, PTL DEF Spec
=============================================================================
