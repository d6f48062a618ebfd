--------------------------- MODULE DownloadQueue ---------------------------
(***************************************************************************)
(* The download side of one client: the download queue with its cursor,    *)
(* the reconciler that merges remote mutations into the local documents,   *)
(* the download worker (woken by pushed mutations) and the background      *)
(* timer, both of which pull; and the local writes and uploads that touch  *)
(* the same documents and the same cursor store.                           *)
(*                                                                         *)
(* A document is the set of the mutations merged into it.  Merging reads   *)
(* the stored document, and writes it back after an await: two merges, or  *)
(* a merge and a local write, may overlap.                                 *)
(***************************************************************************)
EXTENDS Integers, Sequences

CONSTANTS
    Foreign,      \* mutations of other replicas
    Own,          \* mutations this replica writes
    Doc, DocOf,   \* documents, and the document a mutation changes
    Task,         \* tasks that pull: "worker", "timer"
    BatchSize,    \* DownloadConfig.batch_size
    Threshold,    \* DownloadConfig.snapshot_threshold
    Pushes,       \* does the transport push mutations to the worker (wasm)?
    EarlyPushes,  \* may pushes arrive between subscribe and the worker's start?
    Wasm,         \* one persistent SyncStateStore shared with the upload queue?
    FireModulus,  \* the wrap-around of the AtomicU8 that counts Ok(0)s
    MaxLost,      \* bound: pushes the transport loses
    MaxWakes,     \* bound: wake-ups without a mutation ...
    MaxQueue,     \* ... and messages waiting when one is sent
    MaxFaults,    \* bound: failing pulls and storage calls
    MaxRestarts   \* bound: restarts of the client

ASSUME DownloadAssumption ==
    /\ Foreign \cap Own = {}
    /\ DocOf \in [Foreign \cup Own -> Doc]
    /\ BatchSize \in Nat \ {0} /\ Threshold \in Nat /\ FireModulus \in Nat \ {0}
    /\ Pushes \in BOOLEAN /\ EarlyPushes \in BOOLEAN /\ Wasm \in BOOLEAN
    /\ MaxLost \in Nat /\ MaxWakes \in Nat /\ MaxQueue \in Nat
    /\ MaxFaults \in Nat /\ MaxRestarts \in Nat

VARIABLES
    log,       \* the coordinator's log; the sequence of an entry is its index
    snaps,     \* the coordinator's snapshot of each document: its sequence
    feed,      \* the next sequence the coordinator pushes to this client
    docs,      \* the stored documents
    seen,      \* the reconciler's seen_ids
    cursor,    \* DownloadQueue.last_sequence
    store,     \* the cursor in the SyncStateStore
    call,      \* per task: its process_batch
    worker,    \* the worker: the push it handles, and the cursor before it
    inbox,     \* the worker's channel: sequences of pushed mutations, 0: wake-up
    zeros,     \* the worker's count of Ok(0)s (initial_sync_fired_count)
    writing,   \* local writes that have read their document: a copy of it
    applied,   \* history: mutations that were merged or written at some time
    lost, wakes, faults, restarts   \* bounds

netVars == <<log, snaps>>
docVars == <<docs, seen, writing, applied>>
workerVars == <<worker, feed, inbox, zeros>>
bounds == <<lost, wakes, faults, restarts>>
vars == <<netVars, docVars, cursor, store, call, workerVars, bounds>>

Id == Foreign \cup Own

Pc == {"idle", "list", "snap", "snapcopy", "pull", "apply", "copied",
       "advance", "zero", "some", "err"}

\* A snapshot: its document and its sequence.
Snap == [doc : Doc, seq : Nat]

NoCall == [pc |-> "idle", after |-> 0, upto |-> 0, todo |-> {},
           fresh |-> {}, copy |-> [d \in Doc |-> {}], top |-> 0]

TypeOK ==
    /\ log \in Seq(Id)
    /\ snaps \in [Doc -> Nat]
    /\ docs \in [Doc -> SUBSET Id]
    /\ seen \subseteq Id \cup Snap
    /\ cursor \in Nat /\ store \in Nat
    /\ call \in [Task -> [pc : Pc, after : Nat, upto : Nat, todo : SUBSET Snap,
                          fresh : SUBSET Id, copy : [Doc -> SUBSET Id], top : Nat]]
    /\ worker \in [pc : {"starting", "idle", "read", "copied", "batch"}, seq : Nat,
                   before : Nat, copy : SUBSET Id]
    /\ feed \in Nat \ {0}
    /\ inbox \in Seq(Nat)
    /\ zeros \in 0..(FireModulus - 1)
    /\ writing \subseteq [id : Own, copy : SUBSET Id]
    /\ applied \subseteq Id
    /\ lost \in Nat /\ wakes \in Nat /\ faults \in Nat /\ restarts \in Nat

IdleWorker == [pc |-> "idle", seq |-> 0, before |-> 0, copy |-> {}]

\* initialize has subscribed, and has not yet started the worker.
Starting == [IdleWorker EXCEPT !.pc = "starting"]

\* Faulty variant: the subscription asks for the cursor's own sequence again.
FeedAt(c) == c

\* The first sequence that subscribe(after the cursor) pushes.
FeedAfter(c) == c + 1

Init ==
    /\ log = <<>>
    /\ snaps = [d \in Doc |-> 0]
    /\ docs = [d \in Doc |-> {}]
    /\ seen = {}
    /\ cursor = 0 /\ store = 0
    /\ call = [t \in Task |-> NoCall]
    /\ worker = Starting
    /\ feed = FeedAfter(0)
    /\ inbox = <<>>
    /\ zeros = 0
    /\ writing = {}
    /\ applied = {}
    /\ lost = 0 /\ wakes = 0 /\ faults = 0 /\ restarts = 0

InLog(i) == \E n \in 1..Len(log) : log[n] = i

-----------------------------------------------------------------------------
(* the other replicas and the transport *)

\* Another replica's mutation is committed.
ForeignCommit(i) ==
    /\ ~InLog(i)
    /\ log' = Append(log, i)
    /\ UNCHANGED <<snaps, docVars, cursor, store, call, workerVars, bounds>>

\* The subscription pushes the log in order.  The transport drops the own
\* mutations, and may lose others.
Deliver ==
    /\ Pushes /\ feed <= Len(log)
    /\ EarlyPushes \/ worker.pc # "starting"
    /\ feed' = feed + 1
    /\ \/ log[feed] \in Own /\ UNCHANGED <<inbox, lost>>
       \/ log[feed] \notin Own /\ inbox' = Append(inbox, feed) /\ UNCHANGED lost
       \/ log[feed] \notin Own /\ lost < MaxLost /\ lost' = lost + 1 /\ UNCHANGED inbox
    /\ UNCHANGED <<netVars, docVars, cursor, store, call, worker, zeros,
                   wakes, faults, restarts>>

\* Another replica, which has merged the log up to n, stores a snapshot of d.
ForeignSnapshot(d, n) ==
    /\ Threshold > 0
    /\ n > snaps[d] /\ DocOf[log[n]] = d
    /\ \A e \in Doc : snaps[e] # n
    /\ snaps' = [snaps EXCEPT ![d] = n]
    /\ UNCHANGED <<log, docVars, cursor, store, call, workerVars, bounds>>

\* A wake-up without a mutation.
Wake ==
    /\ "worker" \in Task /\ wakes < MaxWakes /\ Len(inbox) < MaxQueue
    /\ wakes' = wakes + 1
    /\ inbox' = Append(inbox, 0)
    /\ UNCHANGED <<netVars, docVars, cursor, store, call, worker, feed, zeros, lost, faults, restarts>>

-----------------------------------------------------------------------------
(* process_batch *)

\* A task loads the cursor: the timer at any time, the worker when a message
\* asks for a pull, and again after a batch that was not empty.
Load(t) ==
    /\ IF t = "worker" THEN worker.pc = "batch" /\ call[t].pc \in {"idle", "some"}
                       ELSE call[t].pc = "idle"
    /\ call' = [call EXCEPT ![t] =
                  [NoCall EXCEPT !.pc = IF Threshold > 0 THEN "list" ELSE "pull",
                                 !.after = cursor]]
    /\ UNCHANGED <<netVars, docVars, cursor, store, workerVars, bounds>>

\* try_fetch_snapshot: the snapshots beyond the cursor, one per document.
ListSnapshots(t) ==
    /\ call[t].pc = "list"
    /\ LET ahead == {d \in Doc : snaps[d] > cursor}
       IN  call' = [call EXCEPT ![t].pc = IF ahead = {} THEN "pull" ELSE "snap",
                                ![t].todo = {[doc |-> d, seq |-> snaps[d]] : d \in ahead}]
    /\ UNCHANGED <<netVars, docVars, cursor, store, workerVars, bounds>>

\* What a snapshot holds: the mutations of its document up to its sequence.
Covers(s) == {log[n] : n \in {m \in 1..s.seq : DocOf[log[m]] = s.doc}}

\* They are applied in ascending order; each merge reads the document first.
SnapRead(t) ==
    /\ call[t].pc = "snap"
    /\ \E s \in call[t].todo :
          /\ \A r \in call[t].todo : s.seq <= r.seq
          /\ call' = IF s \in seen
                     THEN [call EXCEPT ![t].todo = @ \ {s}, ![t].top = s.seq]
                     ELSE [call EXCEPT ![t].pc = "snapcopy", ![t].top = s.seq,
                                       ![t].copy[s.doc] = docs[s.doc]]
    /\ UNCHANGED <<netVars, docVars, cursor, store, workerVars, bounds>>

\* Faulty variant: the snapshot replaces the document.
SnapReplace(t) ==
    /\ call[t].pc = "snapcopy"
    /\ \E s \in call[t].todo :
          /\ s.seq = call[t].top
          /\ docs' = [docs EXCEPT ![s.doc] = Covers(s)]
          /\ seen' = seen \cup {s}
          /\ applied' = applied \cup Covers(s)
          /\ call' = [call EXCEPT ![t].pc = "snap", ![t].todo = @ \ {s}]
    /\ UNCHANGED <<netVars, writing, cursor, store, workerVars, bounds>>

SnapWrite(t) ==
    /\ call[t].pc = "snapcopy"
    /\ \E s \in call[t].todo :
          /\ s.seq = call[t].top
          /\ docs' = [docs EXCEPT ![s.doc] = call[t].copy[s.doc] \cup Covers(s)]
          /\ seen' = seen \cup {s}
          /\ applied' = applied \cup Covers(s)
          /\ call' = [call EXCEPT ![t].pc = "snap", ![t].todo = @ \ {s}]
    /\ UNCHANGED <<netVars, writing, cursor, store, workerVars, bounds>>

\* Then the cursor jumps to the last one.
SnapDone(t) ==
    /\ call[t].pc = "snap" /\ call[t].todo = {}
    /\ store' = call[t].top
    /\ cursor' = call[t].top
    /\ call' = [call EXCEPT ![t].pc = "pull"]
    /\ UNCHANGED <<netVars, docVars, workerVars, bounds>>

MinOf(a, b) == IF a <= b THEN a ELSE b

\* Faulty variant: the pull starts after the snapshots.
PullAfterSnapshots(t) ==
    /\ call[t].pc = "pull"
    /\ LET upto == MinOf(cursor + BatchSize, Len(log))
       IN  call' = [call EXCEPT ![t].pc = IF upto > cursor THEN "apply" ELSE "zero",
                                ![t].upto = upto, ![t].after = cursor]
    /\ UNCHANGED <<netVars, docVars, cursor, store, workerVars, bounds>>

\* The pull starts after the cursor that was loaded, not after the snapshots.
Pull(t) ==
    /\ call[t].pc = "pull"
    /\ LET upto == MinOf(call[t].after + BatchSize, Len(log))
       IN  call' = [call EXCEPT ![t].pc = IF upto > call[t].after THEN "apply" ELSE "zero",
                                ![t].upto = upto]
    /\ UNCHANGED <<netVars, docVars, cursor, store, workerVars, bounds>>

\* NotAvailable is answered with Ok(0), any other error with Err.
PullFails(t) ==
    /\ call[t].pc = "pull"
    /\ faults < MaxFaults
    /\ faults' = faults + 1
    /\ \E result \in {"zero", "err"} : call' = [call EXCEPT ![t].pc = result]
    /\ UNCHANGED <<netVars, docVars, cursor, store, workerVars, lost, wakes, restarts>>

\* Faulty variant: the first mutation of a batch is taken for the last one known.
FreshButFirst(t) == {log[n] : n \in (call[t].after + 2)..call[t].upto} \ (Own \cup seen)

\* Own mutations are skipped, and so is what the reconciler has seen.
Fresh(t) == {log[n] : n \in (call[t].after + 1)..call[t].upto} \ (Own \cup seen)

\* apply_batch reads the documents of the batch.
ApplyRead(t) ==
    /\ call[t].pc = "apply"
    /\ call' = [call EXCEPT ![t].pc = IF Fresh(t) = {} THEN "advance" ELSE "copied",
                            ![t].fresh = Fresh(t),
                            ![t].copy = docs]
    /\ UNCHANGED <<netVars, docVars, cursor, store, workerVars, bounds>>

\* It writes the merged documents back, and marks the mutations as seen.
ApplyWrite(t) ==
    /\ call[t].pc = "copied"
    /\ docs' = [d \in Doc |->
                  LET merged == {i \in call[t].fresh : DocOf[i] = d}
                  IN  IF merged = {} THEN docs[d] ELSE call[t].copy[d] \cup merged]
    /\ seen' = seen \cup call[t].fresh
    /\ applied' = applied \cup call[t].fresh
    /\ call' = [call EXCEPT ![t].pc = "advance"]
    /\ UNCHANGED <<netVars, writing, cursor, store, workerVars, bounds>>

\* A storage call fails: the error is returned and the cursor stays.
ApplyFails(t) ==
    /\ call[t].pc \in {"apply", "copied"}
    /\ faults < MaxFaults
    /\ faults' = faults + 1
    /\ call' = [call EXCEPT ![t].pc = "err"]
    /\ UNCHANGED <<netVars, docVars, cursor, store, workerVars, lost, wakes,
                   restarts>>

\* The cursor becomes the last sequence of the batch, whatever it is by now.
Advance(t) ==
    /\ call[t].pc = "advance"
    /\ store' = call[t].upto
    /\ cursor' = call[t].upto
    /\ call' = [call EXCEPT ![t].pc = "some"]
    /\ UNCHANGED <<netVars, docVars, workerVars, bounds>>

\* The timer ignores the result.
TimerReturn(t) ==
    /\ t # "worker" /\ call[t].pc \in {"zero", "some", "err"}
    /\ call' = [call EXCEPT ![t] = NoCall]
    /\ UNCHANGED <<netVars, docVars, cursor, store, workerVars, bounds>>

-----------------------------------------------------------------------------
(* the download worker and process_push_mutation *)

\* After a push the worker pulls if there was a gap, and until the first Ok(0).
AfterPush(gap) ==
    worker' = IF gap \/ zeros = 0 THEN [IdleWorker EXCEPT !.pc = "batch"] ELSE IdleWorker

\* The worker starts, and drains what is in its channel.
StartWorker ==
    /\ worker.pc = "starting"
    /\ worker' = IdleWorker
    /\ inbox' = <<>>
    /\ UNCHANGED <<netVars, docVars, cursor, store, call, feed, zeros, bounds>>

\* A wake-up, a stale push, or a new one.
Receive ==
    /\ worker.pc = "idle" /\ inbox # <<>>
    /\ inbox' = Tail(inbox)
    /\ LET n == Head(inbox)
       IN  \/ n = 0 /\ worker' = [IdleWorker EXCEPT !.pc = "batch"]
           \/ n > 0 /\ n <= cursor /\ AfterPush(FALSE)
           \/ n > cursor /\ worker' = [IdleWorker EXCEPT !.pc = "read", !.seq = n,
                                                         !.before = cursor]
    /\ UNCHANGED <<netVars, docVars, cursor, store, call, feed, zeros,
                   bounds>>

\* apply_remote_update reads the document, unless the mutation was seen.
PushRead ==
    /\ worker.pc = "read" /\ log[worker.seq] \notin seen
    /\ worker' = [worker EXCEPT !.pc = "copied", !.copy = docs[DocOf[log[worker.seq]]]]
    /\ UNCHANGED <<netVars, docVars, cursor, store, call, feed, inbox, zeros,
                   bounds>>

\* The pushed mutation is merged; the cursor jumps to it; then the gap is looked at.
PushApply ==
    /\ LET i == log[worker.seq]
       IN  \/ /\ worker.pc = "copied"
              /\ docs' = [docs EXCEPT ![DocOf[i]] = worker.copy \cup {i}]
              /\ seen' = seen \cup {i}
              /\ applied' = applied \cup {i}
           \/ /\ worker.pc = "read" /\ i \in seen
              /\ UNCHANGED <<docs, seen, applied>>
    /\ store' = worker.seq
    /\ cursor' = worker.seq
    /\ AfterPush(worker.seq # worker.before + 1)
    /\ UNCHANGED <<netVars, writing, call, feed, inbox, zeros, bounds>>

\* The pull loop ends with Ok(0), which is counted, or with an error.
WorkerDone ==
    /\ call["worker"].pc \in {"zero", "err"}
    /\ call' = [call EXCEPT !["worker"] = NoCall]
    /\ worker' = IdleWorker
    /\ zeros' = IF call["worker"].pc = "zero" THEN (zeros + 1) % FireModulus ELSE zeros
    /\ UNCHANGED <<netVars, docVars, cursor, store, feed, inbox, bounds>>

\* The push could not be applied: the worker pulls.
PushFails ==
    /\ worker.pc \in {"read", "copied"}
    /\ faults < MaxFaults
    /\ faults' = faults + 1
    /\ worker' = [IdleWorker EXCEPT !.pc = "batch"]
    /\ UNCHANGED <<netVars, docVars, cursor, store, call, feed, inbox, zeros,
                   lost, wakes, restarts>>

-----------------------------------------------------------------------------
(* local writes, their upload, and restarts *)

\* insert, update and delete read the document ...
WriteRead(i) ==
    /\ i \notin applied /\ \A w \in writing : w.id # i
    /\ writing' = writing \cup {[id |-> i, copy |-> docs[DocOf[i]]]}
    /\ UNCHANGED <<netVars, docs, seen, applied, cursor, store, call, workerVars,
                   bounds>>

\* ... and write it back with the oplog entry.
WriteCommit(w) ==
    /\ docs' = [docs EXCEPT ![DocOf[w.id]] = w.copy \cup {w.id}]
    /\ applied' = applied \cup {w.id}
    /\ writing' = writing \ {w}
    /\ UNCHANGED <<netVars, seen, cursor, store, call, workerVars, bounds>>

\* The upload queue's push is acknowledged; with a shared store it then moves
\* the stored cursor up to the acknowledged sequence.
Upload(i) ==
    /\ i \in applied /\ ~InLog(i)
    /\ log' = Append(log, i)
    /\ store' = IF Wasm THEN Len(log) + 1 ELSE store
    /\ UNCHANGED <<snaps, docVars, cursor, call, workerVars, bounds>>

\* A restart keeps the documents.  In the browser the cursor is the stored
\* one; natively nothing stores it, and it starts again from 0.
Restart ==
    /\ restarts < MaxRestarts
    /\ restarts' = restarts + 1
    /\ cursor' = IF Wasm THEN store ELSE 0
    /\ store' = cursor'
    /\ seen' = {}
    /\ writing' = {}
    /\ call' = [t \in Task |-> NoCall]
    /\ worker' = Starting
    /\ feed' = FeedAfter(cursor')
    /\ inbox' = <<>>
    /\ zeros' = 0
    /\ UNCHANGED <<netVars, docs, applied, lost, wakes, faults>>

-----------------------------------------------------------------------------
BatchStep(t) ==
    \/ ListSnapshots(t) \/ SnapRead(t) \/ SnapWrite(t) \/ SnapDone(t)
    \/ Pull(t) \/ PullFails(t)
    \/ ApplyRead(t) \/ ApplyWrite(t) \/ ApplyFails(t)
    \/ Advance(t) \/ TimerReturn(t)

WorkerStep == StartWorker \/ Receive \/ PushRead \/ PushApply \/ PushFails

Next ==
    \/ \E i \in Foreign : ForeignCommit(i)
    \/ \E d \in Doc, n \in 1..Len(log) : ForeignSnapshot(d, n)
    \/ Wake \/ Deliver
    \/ \E t \in Task : Load(t) \/ BatchStep(t)
    \/ "worker" \in Task /\ (WorkerStep \/ WorkerDone)
    \/ \E i \in Own : WriteRead(i) \/ Upload(i)
    \/ \E w \in writing : WriteCommit(w)
    \/ Restart

Spec == Init /\ [][Next]_vars

\* The runtime polls every task that can run, and the timer comes round again.
Fairness ==
    /\ \A t \in Task : WF_vars(BatchStep(t)) /\ WF_vars(Load(t))
    /\ WF_vars("worker" \in Task /\ (WorkerStep \/ WorkerDone))

FairSpec == Spec /\ Fairness

-----------------------------------------------------------------------------
(* Properties *)

\* Is everything other replicas committed up to this sequence merged?
Closed(n) ==
    \A m \in 1..Len(log) : (m <= n /\ log[m] \in Foreign) => log[m] \in applied

\* While no task is downloading, the cursor has not passed a mutation that
\* was never merged: the next pull starts after the cursor and would not
\* bring it.
NothingSkipped ==
    ((\A t \in Task : call[t].pc = "idle") /\ worker.pc \in {"starting", "idle"}) => Closed(cursor)

\* A document never loses a mutation it contained: a merge or a local write
\* that read the document earlier does not overwrite what came in between.
DocumentsOnlyGrow ==
    [][\A d \in Doc : docs[d] \subseteq docs'[d]]_vars

\* Every mutation other replicas commit is eventually in its document here.
EventuallyApplied ==
    \A i \in Foreign : InLog(i) ~> (i \in docs[DocOf[i]])
=============================================================================
