---------------------------- MODULE BatchExecutor ----------------------------
(***************************************************************************)
(* The micro-batching executor of seif/ner_batching.py: callers submit     *)
(* texts and hold futures, one worker thread collects batches and calls    *)
(* the model, a caller may cancel a future and the service shuts the       *)
(* executor down.                                                          *)
(*                                                                         *)
(* A step is what runs under self.condition, or between two acquisitions   *)
(* of it.  The worker waits on the condition without a deadline while it   *)
(* has nothing ("sleeping": only a notification wakes it) and with one     *)
(* while it collects a batch ("collecting": it may wake at any time).      *)
(***************************************************************************)
EXTENDS Integers, Sequences, SequencesExt

CONSTANTS
  Jobs,         \* calls of submit
  batch_size,   \* the largest batch
  capacity      \* the longest queue

ASSUME BatchExecutorAssumption ==
  /\ batch_size \in Nat \ {0, 1}
  /\ capacity \in Nat /\ capacity >= batch_size

VARIABLES
  pending,         \* self.pending, the queue of futures with their texts
  stopping,        \* self.stopping
  cancel_queued,   \* self.cancel_queued
  batch,           \* what the worker collects
  active,          \* the jobs whose texts the model works on
  worker,          \* where the worker thread is
  future,          \* the state of each future
  joined           \* a shutdown that waits has returned

vars == <<pending, stopping, cancel_queued, batch, active, worker, future, joined>>

Init ==
  /\ pending = <<>> /\ batch = <<>> /\ active = {}
  /\ stopping = FALSE /\ cancel_queued = FALSE /\ joined = FALSE
  /\ worker = "ready"
  /\ future = [j \in Jobs |-> "none"]

\* self.condition.notify() reaches the worker only if it sleeps.
Notified == IF worker = "sleeping" THEN "ready" ELSE worker

\* submit; a refused caller gets an exception and no future.
submit(j) ==
  /\ future[j] = "none"
  /\ IF stopping \/ Len(pending) >= capacity
     THEN /\ future' = [future EXCEPT ![j] = "refused"]
          /\ UNCHANGED <<pending, worker>>
     ELSE /\ future' = [future EXCEPT ![j] = "pending"]
          /\ pending' = Append(pending, j)
          /\ worker' = Notified
  /\ UNCHANGED <<stopping, cancel_queued, batch, active, joined>>

\* Future.cancel by the caller (_run_model): it succeeds until the job runs.  The
\* entry stays where it is.
Cancel(j) ==
  /\ future[j] = "pending"
  /\ future' = [future EXCEPT ![j] = "cancelled"]
  /\ UNCHANGED <<pending, stopping, cancel_queued, batch, active, worker, joined>>

\* _take_batch finds nothing to do and waits for a notification.
Sleep ==
  /\ worker = "ready" /\ pending = <<>> /\ ~stopping
  /\ worker' = "sleeping"
  /\ UNCHANGED <<pending, stopping, cancel_queued, batch, active, future, joined>>

\* How many entries _take_batch can pop before it has to wait or return.
Room == LET free == batch_size - Len(batch)
        IN IF Len(pending) < free THEN Len(pending) ELSE free

\* Mutant: a batch is waited for until it is full.
TakeBatch_waits_for_full ==
  /\ (worker = "ready" /\ pending # <<>>) \/ worker = "collecting"
  /\ batch' = batch \o SubSeq(pending, 1, Room)
  /\ pending' = SubSeq(pending, Room + 1, Len(pending))
  /\ worker' = IF Len(batch') = batch_size \/ stopping THEN "taken" ELSE "collecting"
  /\ UNCHANGED <<stopping, cancel_queued, active, future, joined>>

\* _take_batch from a wakeup with something to take, to its return or its next
\* wait.  It returns when the batch is full, or when the queue is empty and the
\* executor is stopping or the deadline has passed.
TakeBatch ==
  /\ (worker = "ready" /\ pending # <<>>) \/ worker = "collecting"
  /\ batch' = batch \o SubSeq(pending, 1, Room)
  /\ pending' = SubSeq(pending, Room + 1, Len(pending))
  /\ \E deadline_passed \in BOOLEAN :
       worker' = IF Len(batch') = batch_size \/ stopping \/ deadline_passed
                 THEN "taken" ELSE "collecting"
  /\ UNCHANGED <<stopping, cancel_queued, active, future, joined>>

\* _take_batch returns nothing and the thread ends.
Leave ==
  /\ worker = "ready" /\ pending = <<>> /\ stopping
  /\ worker' = "ended"
  /\ UNCHANGED <<pending, stopping, cancel_queued, batch, active, future, joined>>

\* The jobs of a sequence whose futures are still pending.
StillPending(jobs) == {j \in Range(jobs) : future[j] = "pending"}

CancelAll(jobs) == [j \in Jobs |-> IF j \in StillPending(jobs) THEN "cancelled" ELSE future[j]]

\* Mutant: the futures of a batch are not marked as running.
Claim_unmarked ==
  /\ worker = "taken"
  /\ active' = StillPending(batch) /\ batch' = <<>>
  /\ worker' = IF active' = {} THEN "ready" ELSE "calling"
  /\ UNCHANGED <<pending, stopping, cancel_queued, future, joined>>

\* The first part of _process_batch, under the lock: set_running_or_notify_cancel
\* makes a pending future running and skips a cancelled one.
Claim ==
  /\ worker = "taken" /\ batch' = <<>>
  /\ IF cancel_queued
     THEN future' = CancelAll(batch) /\ active' = {}
     ELSE /\ active' = StillPending(batch)
          /\ future' = [j \in Jobs |-> IF j \in active' THEN "running" ELSE future[j]]
  /\ worker' = IF active' = {} THEN "ready" ELSE "calling"
  /\ UNCHANGED <<pending, stopping, cancel_queued, joined>>

\* Every future of the batch ends in the same way, and the batch is cleared.
EndBatch(end) ==
  /\ worker = "calling"
  /\ future' = [j \in Jobs |-> IF j \in active THEN end ELSE future[j]]
  /\ active' = {}
  /\ worker' = IF end = "fatal" THEN "died" ELSE "ready"
  /\ UNCHANGED <<pending, stopping, cancel_queued, batch, joined>>

\* The model answers with as many results as it was given texts.
ModelReturns == EndBatch("result")

\* The model raises an Exception or answers with a wrong number of results.
ModelFails == EndBatch("failed")

\* The model raises a BaseException that is no Exception: it is passed to the
\* callers, and raised again, which ends the thread.
ModelDies == EndBatch("fatal")

\* shutdown up to the join.
shutdown(cancel_futures) ==
  /\ stopping' = TRUE
  /\ cancel_queued' = (cancel_queued \/ cancel_futures)
  /\ IF cancel_futures
     THEN pending' = <<>> /\ future' = CancelAll(pending)
     ELSE UNCHANGED <<pending, future>>
  /\ worker' = Notified
  /\ UNCHANGED <<batch, active, joined>>

\* self.worker.join() of a shutdown returns.
Join ==
  /\ stopping /\ worker \in {"ended", "died"} /\ ~joined
  /\ joined' = TRUE
  /\ UNCHANGED <<pending, stopping, cancel_queued, batch, active, worker, future>>

Next ==
  \/ \E j \in Jobs : submit(j) \/ Cancel(j)
  \/ Sleep \/ TakeBatch \/ Leave \/ Claim \/ ModelReturns \/ ModelFails \/ ModelDies
  \/ \E cancel_futures \in BOOLEAN : shutdown(cancel_futures)
  \/ Join

\* The thread runs, its deadline passes and the model returns in some way.
Fairness ==
  /\ WF_vars(TakeBatch /\ worker' = "taken") /\ WF_vars(Leave) /\ WF_vars(Claim)
  /\ WF_vars(ModelReturns \/ ModelFails \/ ModelDies) /\ WF_vars(Join)

Spec == Init /\ [][Next]_vars /\ Fairness

-----------------------------------------------------------------------------
(* Properties.                                                             *)

TypeOK ==
  /\ pending \in Seq(Jobs) /\ Len(pending) <= capacity
  /\ batch \in Seq(Jobs) /\ Len(batch) <= batch_size /\ active \subseteq Jobs
  /\ {stopping, cancel_queued, joined} \subseteq BOOLEAN
  /\ worker \in {"ready", "sleeping", "collecting", "taken", "calling", "ended", "died"}
  /\ future \in [Jobs -> {"none", "refused", "pending", "cancelled", "running", "result", "failed", "fatal"}]

Ended == {"refused", "cancelled", "result", "failed", "fatal"}

\* submit, _take_batch, _process_batch: a future that has not ended is in the
\* hands of somebody who will end it: in the queue, in the batch being collected,
\* or in the batch the model works on.  None is in two places.
NoFutureLost ==
  /\ \A j \in Jobs : future[j] = "pending" => j \in Range(pending) \cup Range(batch)
  /\ \A j \in Jobs : future[j] = "running" <=> j \in active
  /\ active # {} <=> worker = "calling"
  /\ IsInjective(pending \o batch)

\* _process_batch: a future that was cancelled or answered is never set again; the
\* attempt would raise in the worker thread and end it.
EndsOnce == [][\A j \in Jobs : future[j] \in Ended => future'[j] = future[j]]_vars

\* shutdown: when it has returned no caller is left waiting, unless the thread died
\* and queued work was not to be cancelled.
NobodyLeftWaiting ==
  joined /\ (cancel_queued \/ worker = "ended") => \A j \in Jobs : future[j] \in Ended \cup {"none"}

\* Every accepted job ends, however few arrive, as long as the thread lives.
EveryJobEnds == \A j \in Jobs : future[j] = "pending" ~> future[j] \in Ended \/ worker = "died"

\* Once the executor is stopping, a shutdown that waits returns.
ShutdownReturns == stopping ~> joined
=============================================================================
