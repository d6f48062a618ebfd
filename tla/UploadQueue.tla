---------------------------- MODULE UploadQueue ----------------------------
(***************************************************************************)
(* The upload side of one client: the local oplog, the retry engine, the   *)
(* upload queue and the tasks that drive it (the upload worker, woken by   *)
(* writes and backing off while offline; the background timer; force_sync).*)
(*                                                                         *)
(* process_batch is not guarded against itself: several tasks may be in it *)
(* at once, and every await in it is a point where another one runs.  A    *)
(* push may fail before or after the coordinator committed it.             *)
(***************************************************************************)
EXTENDS Integers, Sequences

CONSTANTS
    Id,              \* ids of the mutations this client may write
    Task,            \* tasks that call process_batch; "worker" is the upload worker
    BatchSize,       \* UploadConfig.batch_size
    MaxAttempts,     \* RetryConfig.max_attempts
    StorageFaultAt,  \* the stages of process_batch at which the storage may fail
    MaxFaults,       \* bound: failed pushes and storage calls
    MaxCrashes       \* bound: restarts of the client

ASSUME UploadAssumption ==
    /\ BatchSize \in Nat \ {0} /\ MaxAttempts \in Nat \ {0}
    /\ MaxFaults \in Nat /\ MaxCrashes \in Nat
    /\ "worker" \in Task

VARIABLES
    order,     \* the ids in the oplog, oldest first
    status,    \* sync_status of every oplog entry ("none": not written)
    sequence,  \* the sequence mark_synced recorded (0: none)
    attempts,  \* RetryEngine.attempts
    waiting,   \* ids whose next_retry lies in the future
    call,      \* per task: its process_batch
    notified,  \* wake-ups in the upload worker's channel
    offline,   \* the upload worker's offline flag
    stored,    \* the coordinator's log: the sequence it gave an id (0: none)
    nextSeq,   \* the coordinator's next sequence
    faults, crashes,  \* bounds
    wasSynced, \* history: ids that were Synced at some time
    demoted    \* history: ids that mark_failed found Synced

oplogVars == <<order, status, sequence, wasSynced, demoted>>
retryVars == <<attempts, waiting>>
coordVars == <<stored, nextSeq>>
bounds == <<faults, crashes>>
vars == <<oplogVars, retryVars, call, notified, offline, coordVars, bounds>>

Status == {"none", "Optimistic", "Pending", "Synced", "Failed"}

\* idle; read: entries read, not filtered; push: in coordinator.push;
\* ack: the answer holds the sequences; mark: marking one by one;
\* fail, error: the push failed; giveup: marking exhausted entries Failed;
\* and the three results of process_batch the worker tells apart.
Pc == {"idle", "read", "push", "ack", "mark", "fail", "error", "giveup",
       "giveup_err", "zero", "some", "err"}

Call == [pc : Pc, batch : Seq(Id), reply : Seq(Nat \ {0}), ids : SUBSET Id]

NoBatch == [pc |-> "idle", batch |-> <<>>, reply |-> <<>>, ids |-> {}]

TypeOK ==
    /\ order \in Seq(Id)
    /\ status \in [Id -> Status]
    /\ sequence \in [Id -> Nat]
    /\ attempts \in [Id -> Nat]
    /\ waiting \subseteq Id
    /\ call \in [Task -> Call]
    /\ notified \in Nat
    /\ offline \in BOOLEAN
    /\ stored \in [Id -> Nat]
    /\ nextSeq \in Nat \ {0}
    /\ faults \in Nat /\ crashes \in Nat
    /\ wasSynced \subseteq Id /\ demoted \subseteq Id

\* Faulty variant: the first sequence is 0, the value that means none.
ZeroSeq == 0

\* The first sequence the coordinator hands out.
FirstSeq == 1

Init ==
    /\ order = <<>>
    /\ status = [i \in Id |-> "none"]
    /\ sequence = [i \in Id |-> 0]
    /\ attempts = [i \in Id |-> 0]
    /\ waiting = {}
    /\ call = [t \in Task |-> NoBatch]
    /\ notified = 0
    /\ offline = FALSE
    /\ stored = [i \in Id |-> 0]
    /\ nextSeq = FirstSeq
    /\ faults = 0 /\ crashes = 0
    /\ wasSynced = {} /\ demoted = {}

-----------------------------------------------------------------------------
\* insert, update or delete: the oplog entry is committed with the document,
\* then the upload worker is notified.
Write(i) ==
    /\ status[i] = "none"
    /\ order' = Append(order, i)
    /\ status' = [status EXCEPT ![i] = "Optimistic"]
    /\ notified' = notified + 1
    /\ UNCHANGED <<sequence, wasSynced, demoted, retryVars, call, offline, coordVars, bounds>>

Uploadable(i) == status[i] \in {"Pending", "Optimistic"}

Ids(batch) == {batch[k] : k \in 1..Len(batch)}

\* Does the oplog hold i before j?
Older(i, j) ==
    \E m, n \in 1..Len(order) : m < n /\ order[m] = i /\ order[n] = j

\* The batches of entries in the order of the oplog.
Batches ==
    {b \in UNION {[1..n -> Id] : n \in 0..BatchSize} :
        \A m, n \in 1..Len(b) : m < n => Older(b[m], b[n])}

\* read_pending(batch_size) returns the oldest uploadable entries.
ReadPending(b) ==
    /\ \A i \in Ids(b) : Uploadable(i)
    /\ \A i \in Id \ Ids(b) : Uploadable(i) =>
          Len(b) = BatchSize /\ \A j \in Ids(b) : Older(j, i)

\* A task enters process_batch: the worker when it is notified, when its
\* backoff ends, or again after a batch that uploaded something (which also
\* ends its offline mode); the other tasks at any time.
Enters(t) ==
    IF t = "worker"
    THEN /\ \/ call[t].pc = "some" /\ UNCHANGED notified
            \/ call[t].pc = "idle" /\ offline /\ notified' = 0
            \/ call[t].pc = "idle" /\ ~offline /\ notified > 0 /\ notified' = notified - 1
         /\ offline' = (offline /\ call[t].pc # "some")
    ELSE call[t].pc = "idle" /\ UNCHANGED <<notified, offline>>

\* The result of a call: only the worker looks at it.
Result(t, r) == IF t = "worker" THEN r ELSE "idle"

\* The read of the oldest uploadable entries; an empty one returns Ok(0).
ReadBatch(t) ==
    /\ Enters(t)
    /\ \E b \in Batches :
          /\ ReadPending(b)
          /\ call' = [call EXCEPT ![t] =
                [NoBatch EXCEPT !.pc = IF b = <<>> THEN Result(t, "zero") ELSE "read",
                                !.batch = b]]
    /\ UNCHANGED <<oplogVars, retryVars, coordVars, bounds>>

\* The connection manager reports that the client is offline: Ok(0).
SkipOffline(t) ==
    /\ faults < MaxFaults
    /\ faults' = faults + 1
    /\ Enters(t)
    /\ call' = [call EXCEPT ![t] = [NoBatch EXCEPT !.pc = Result(t, "zero")]]
    /\ UNCHANGED <<oplogVars, retryVars, coordVars, crashes>>

CanRetry(i) == attempts[i] < MaxAttempts /\ i \notin waiting

\* The retry engine filters the batch; an empty one returns Ok(0).
FilterBatch(t) ==
    /\ call[t].pc = "read"
    /\ \E b \in Batches :
          /\ Ids(b) = {i \in Ids(call[t].batch) : CanRetry(i)}
          /\ call' = [call EXCEPT ![t].pc = IF b = <<>> THEN Result(t, "zero") ELSE "push",
                                  ![t].batch = b]
    /\ UNCHANGED <<oplogVars, retryVars, notified, offline, coordVars, bounds>>

-----------------------------------------------------------------------------
(* coordinator.push, as the client sees it *)

Position(batch, i) == CHOOSE k \in 1..Len(batch) : batch[k] = i

\* The coordinator's log after a push: ids it knows keep their sequence, new
\* ids take later ones in the order of the batch (gaps are normal).
Commit(batch) ==
    /\ stored' = [i \in Id |->
          IF stored[i] = 0 /\ i \in Ids(batch)
          THEN nextSeq + Position(batch, i) - 1
          ELSE stored[i]]
    /\ nextSeq' = nextSeq + Len(batch)

\* The push is committed and acknowledged with the sequences.
PushOk(t) ==
    /\ call[t].pc = "push"
    /\ Commit(call[t].batch)
    /\ call' = [call EXCEPT ![t].pc = "ack",
                            ![t].reply = [k \in 1..Len(call[t].batch) |->
                                            stored'[call[t].batch[k]]]]
    /\ UNCHANGED <<oplogVars, retryVars, notified, offline, bounds>>

\* The push fails, with NotAvailable or another error, before or after the
\* coordinator committed it.
PushFails(t) ==
    /\ call[t].pc = "push"
    /\ faults < MaxFaults
    /\ faults' = faults + 1
    /\ Commit(call[t].batch) \/ UNCHANGED coordVars
    /\ \E result \in {"fail", "error"} : call' = [call EXCEPT ![t].pc = result]
    /\ UNCHANGED <<oplogVars, retryVars, notified, offline, crashes>>

-----------------------------------------------------------------------------
(* what follows the push *)

\* The transaction marks the whole batch Synced in one step.
MarkAll(t) ==
    /\ call[t].pc = "ack"
    /\ LET batch == call[t].batch
       IN  /\ status' = [i \in Id |-> IF i \in Ids(batch) THEN "Synced" ELSE status[i]]
           /\ sequence' = [i \in Id |->
                 IF i \in Ids(batch) THEN call[t].reply[Position(batch, i)]
                                     ELSE sequence[i]]
           /\ wasSynced' = wasSynced \cup Ids(batch)
           /\ call' = [call EXCEPT ![t].pc = "mark", ![t].batch = <<>>,
                                   ![t].reply = <<>>, ![t].ids = Ids(batch)]
    /\ UNCHANGED <<order, demoted, retryVars, notified, offline, coordVars, bounds>>

\* Faulty variant: the acknowledgements are paired from the other end.
MarkOneMispaired(t) ==
    /\ call[t].pc \in {"ack", "mark"} /\ call[t].batch # <<>>
    /\ LET i == Head(call[t].batch)
       IN  /\ status' = [status EXCEPT ![i] = "Synced"]
           /\ sequence' = [sequence EXCEPT ![i] = call[t].reply[Len(call[t].reply)]]
           /\ wasSynced' = wasSynced \cup {i}
           /\ call' = [call EXCEPT ![t].pc = "mark",
                                   ![t].batch = Tail(@), ![t].reply = Tail(@),
                                   ![t].ids = @ \cup {i}]
    /\ UNCHANGED <<order, demoted, retryVars, notified, offline, coordVars, bounds>>

\* Without transactions the entries are marked one by one.
MarkOne(t) ==
    /\ call[t].pc \in {"ack", "mark"} /\ call[t].batch # <<>>
    /\ LET i == Head(call[t].batch)
       IN  /\ status' = [status EXCEPT ![i] = "Synced"]
           /\ sequence' = [sequence EXCEPT ![i] = Head(call[t].reply)]
           /\ wasSynced' = wasSynced \cup {i}
           /\ call' = [call EXCEPT ![t].pc = "mark",
                                   ![t].batch = Tail(@), ![t].reply = Tail(@),
                                   ![t].ids = @ \cup {i}]
    /\ UNCHANGED <<order, demoted, retryVars, notified, offline, coordVars, bounds>>

\* record_success for the whole batch, and Ok(n).
MarkDone(t) ==
    /\ call[t].pc = "mark" /\ call[t].batch = <<>>
    /\ attempts' = [i \in Id |-> IF i \in call[t].ids THEN 0 ELSE attempts[i]]
    /\ waiting' = waiting \ call[t].ids
    /\ call' = [call EXCEPT ![t] = [NoBatch EXCEPT !.pc = Result(t, "some")]]
    /\ UNCHANGED <<oplogVars, notified, offline, coordVars, bounds>>

\* Faulty variant: exhaustion is noticed one failure late.
RecordFailureLate(t) ==
    /\ call[t].pc \in {"fail", "error"}
    /\ LET ids == Ids(call[t].batch)
           exhausted == {i \in ids : attempts[i] + 1 > MaxAttempts}
       IN  /\ attempts' = [i \in Id |-> attempts[i] + (IF i \in ids THEN 1 ELSE 0)]
           /\ waiting' = (waiting \cup ids) \ exhausted
           /\ call' = [call EXCEPT ![t] =
                 [NoBatch EXCEPT !.pc = IF call[t].pc = "fail" THEN "giveup" ELSE "giveup_err",
                                 !.ids = exhausted]]
    /\ UNCHANGED <<oplogVars, notified, offline, coordVars, bounds>>

\* record_failure for every entry of the batch; those that are exhausted are
\* to be marked Failed.
RecordFailure(t) ==
    /\ call[t].pc \in {"fail", "error"}
    /\ LET ids == Ids(call[t].batch)
           exhausted == {i \in ids : attempts[i] + 1 >= MaxAttempts}
       IN  /\ attempts' = [i \in Id |-> attempts[i] + (IF i \in ids THEN 1 ELSE 0)]
           /\ waiting' = (waiting \cup ids) \ exhausted
           /\ call' = [call EXCEPT ![t] =
                 [NoBatch EXCEPT !.pc = IF call[t].pc = "fail" THEN "giveup" ELSE "giveup_err",
                                 !.ids = exhausted]]
    /\ UNCHANGED <<oplogVars, notified, offline, coordVars, bounds>>

\* mark_failed sets the status, whatever it was.
MarkFailed(t) ==
    /\ call[t].pc \in {"giveup", "giveup_err"}
    /\ \E i \in call[t].ids :
          /\ status' = [status EXCEPT ![i] = "Failed"]
          /\ demoted' = demoted \cup {j \in {i} : status[j] = "Synced"}
          /\ call' = [call EXCEPT ![t].ids = @ \ {i}]
    /\ UNCHANGED <<order, sequence, wasSynced, retryVars, notified, offline,
                   coordVars, bounds>>

\* NotAvailable returns Ok(0), another error returns Err.
FailureDone(t) ==
    /\ call[t].pc \in {"giveup", "giveup_err"} /\ call[t].ids = {}
    /\ call' = [call EXCEPT ![t].pc = Result(t, IF @ = "giveup" THEN "zero" ELSE "err")]
    /\ UNCHANGED <<oplogVars, retryVars, notified, offline, coordVars, bounds>>

\* A storage call fails and `?' returns its error: what was marked stays
\* marked, and the retry engine is not told.
StorageFails(t) ==
    /\ call[t].pc \in StorageFaultAt
    /\ faults < MaxFaults
    /\ faults' = faults + 1
    /\ call' = [call EXCEPT ![t] = [NoBatch EXCEPT !.pc = Result(t, "err")]]
    /\ UNCHANGED <<oplogVars, retryVars, notified, offline, coordVars, crashes>>

\* Ok(0) ends the worker's loop.  It is offline while anything is pending.
WorkerZero ==
    /\ call["worker"].pc = "zero"
    /\ offline' = (\E i \in Id : Uploadable(i))
    /\ call' = [call EXCEPT !["worker"] = NoBatch]
    /\ UNCHANGED <<oplogVars, retryVars, notified, coordVars, bounds>>

\* An error ends the worker's loop and leaves its mode as it is.
WorkerError ==
    /\ call["worker"].pc = "err"
    /\ call' = [call EXCEPT !["worker"] = NoBatch]
    /\ UNCHANGED <<oplogVars, retryVars, notified, offline, coordVars, bounds>>

-----------------------------------------------------------------------------
\* The delay before an entry's next attempt ends.
RetryDue(i) ==
    /\ i \in waiting
    /\ waiting' = waiting \ {i}
    /\ UNCHANGED <<oplogVars, attempts, call, notified, offline, coordVars, bounds>>

\* Faulty variant: the status is not looked at.
StaleAll == SUBSET {i \in Id : status[i] # "none"}

\* The entries reset_stale_pending resets: those not Synced that are older
\* than a minute.  A Failed entry is: its attempts took longer than that.
Stale == {old \in SUBSET {i \in Id : status[i] \notin {"none", "Synced"}} :
            {i \in Id : status[i] = "Failed"} \subseteq old}

\* The client dies and starts again: the oplog survives, the retry engine,
\* the wake-ups and the calls in progress do not.
Restart ==
    /\ crashes < MaxCrashes
    /\ crashes' = crashes + 1
    /\ \E old \in Stale :
          status' = [i \in Id |-> IF i \in old THEN "Pending" ELSE status[i]]
    /\ attempts' = [i \in Id |-> 0]
    /\ waiting' = {}
    /\ call' = [t \in Task |-> NoBatch]
    /\ notified' = 0
    /\ offline' = FALSE
    /\ UNCHANGED <<order, sequence, wasSynced, demoted, coordVars, faults>>

\* What follows once a task has entered process_batch.
Proceed(t) ==
    \/ FilterBatch(t)
    \/ PushOk(t) \/ PushFails(t)
    \/ MarkAll(t) \/ MarkOne(t) \/ MarkDone(t)
    \/ RecordFailure(t) \/ MarkFailed(t) \/ FailureDone(t)
    \/ StorageFails(t)
    \/ t = "worker" /\ (WorkerZero \/ WorkerError)

Next ==
    \/ \E i \in Id : Write(i) \/ RetryDue(i)
    \/ \E t \in Task : ReadBatch(t) \/ SkipOffline(t) \/ Proceed(t)
    \/ Restart

Spec == Init /\ [][Next]_vars

\* Every task keeps running; the timer of the leader and the worker's backoff
\* come round again and again, and so does the end of a retry delay.  Nothing
\* obliges a user to call force_sync.
Fairness ==
    /\ \A t \in Task : WF_vars(Proceed(t))
    /\ \A t \in Task \cap {"worker", "timer"} : WF_vars(ReadBatch(t))
    /\ \A i \in Id : WF_vars(RetryDue(i))

FairSpec == Spec /\ Fairness

-----------------------------------------------------------------------------
(* Properties *)

\* An entry is Synced only when the coordinator holds it, and under the
\* sequence the coordinator gave it: whatever tasks are in process_batch,
\* however acknowledgements are lost, and wherever the client dies.
SyncedIsStored ==
    \A i \in Id : status[i] = "Synced" => stored[i] # 0 /\ sequence[i] = stored[i]

\* Once Synced, an entry becomes uploadable again only where a second call
\* of process_batch overlapped and failed late: crash recovery and failures
\* of the entry's own upload do not bring it back.
ReuploadOnlyAfterRace ==
    \A i \in wasSynced : Uploadable(i) => i \in demoted

\* What the documentation promises: it never does.
SyncedNeverUploadable ==
    \A i \in wasSynced : ~Uploadable(i)

\* An entry the retry engine gave up on is Failed, or being marked so: no
\* entry waits for an attempt that can_retry will never allow.
ExhaustedIsFailed ==
    \A i \in Id : (attempts[i] >= MaxAttempts /\ Uploadable(i)) =>
        \E t \in Task : i \in call[t].ids

\* Every written entry is eventually uploaded, or given up and Failed: lost
\* acknowledgements, retry delays, a worker that stopped after an error and
\* restarts only delay it.
EventuallyResolved ==
    \A i \in Id : (status[i] # "none") ~> (status[i] \in {"Synced", "Failed"})
=============================================================================
