------------------------------- MODULE CpuPool -------------------------------
(***************************************************************************)
(* Recognition of large texts on the thread pool: _AppContext._detect_large *)
(* of seif/app.py, and how lifespan shuts the pool down.                   *)
(*                                                                         *)
(* A request on the event loop submits a job, waits on a future of its own *)
(* (pending) and may be cancelled; a worker thread runs the job and posts  *)
(* a callback to the loop, which frees the slot and answers the request.   *)
(* Submitting is one step: a job that ends before add_done_callback posts  *)
(* its callback all the same.                                              *)
(***************************************************************************)
EXTENDS Integers, FiniteSets

CONSTANTS
  Requests,     \* requests with a large text
  cpu_workers   \* Settings.cpu_workers, the number of threads and of slots

ASSUME CpuPoolAssumption ==
  /\ IsFiniteSet(Requests)
  /\ cpu_workers \in Nat \ {0}

VARIABLES
  large_inflight,   \* _AppContext.large_inflight
  pending,          \* the future each request waits on
  job,              \* the job each request submitted
  posted,           \* requests whose complete_cpu_work is scheduled on the loop
  pool              \* "open", "draining" while shutdown waits, "closed" after it

vars == <<large_inflight, pending, job, posted, pool>>

Init ==
  /\ large_inflight = 0
  /\ pending = [r \in Requests |-> "none"]
  /\ job = [r \in Requests |-> "none"]
  /\ posted = {}
  /\ pool = "open"

Refuse(r) ==
  /\ pending' = [pending EXCEPT ![r] = "refused"]
  /\ UNCHANGED <<large_inflight, job, posted, pool>>

Accept(r) ==
  /\ large_inflight' = large_inflight + 1
  /\ pending' = [pending EXCEPT ![r] = "waiting"]
  /\ job' = [job EXCEPT ![r] = "queued"]
  /\ UNCHANGED <<posted, pool>>

\* Mutant: one job more than there are threads is accepted.
Detect_off_by_one(r) ==
  /\ pending[r] = "none"
  /\ IF large_inflight > cpu_workers \/ pool # "open" THEN Refuse(r) ELSE Accept(r)

\* _detect_large up to its await.  Without a free slot it refuses; when the pool
\* no longer takes jobs, submit raises and the slot is given back at once.
Detect(r) ==
  /\ pending[r] = "none"
  /\ IF large_inflight >= cpu_workers \/ pool # "open" THEN Refuse(r) ELSE Accept(r)

\* A thread of the pool takes a job.
Start(r) ==
  /\ job[r] = "queued"
  /\ Cardinality({q \in Requests : job[q] = "running"}) < cpu_workers
  /\ job' = [job EXCEPT ![r] = "running"]
  /\ UNCHANGED <<large_inflight, pending, posted, pool>>

\* detect returns or raises; the thread posts the callback.
Finish(r) ==
  /\ job[r] = "running"
  /\ \E end \in {"done", "error"} : job' = [job EXCEPT ![r] = end]
  /\ posted' = posted \cup {r}
  /\ UNCHANGED <<large_inflight, pending, pool>>

\* The request's task is cancelled at its await: only pending is affected.
Cancel(r) ==
  /\ pending[r] = "waiting"
  /\ pending' = [pending EXCEPT ![r] = "cancelled"]
  /\ UNCHANGED <<large_inflight, job, posted, pool>>

\* What complete_cpu_work does with the future of a request.
Outcome(r) == IF job[r] = "done" THEN "result" ELSE "failed"

\* Mutant: a future that is already done is set again.
Complete_unchecked(r) ==
  /\ r \in posted
  /\ posted' = posted \ {r}
  /\ large_inflight' = large_inflight - 1
  /\ pending' = [pending EXCEPT ![r] = Outcome(r)]
  /\ UNCHANGED <<job, pool>>

\* Mutant: the slot of a request that gave up is never freed.
Complete_checks_first(r) ==
  /\ r \in posted
  /\ posted' = posted \ {r}
  /\ IF pending[r] = "waiting"
     THEN /\ large_inflight' = large_inflight - 1
          /\ pending' = [pending EXCEPT ![r] = Outcome(r)]
     ELSE UNCHANGED <<large_inflight, pending>>
  /\ UNCHANGED <<job, pool>>

\* complete_cpu_work on the event loop.
Complete(r) ==
  /\ r \in posted
  /\ posted' = posted \ {r}
  /\ large_inflight' = large_inflight - 1
  /\ pending' = IF pending[r] = "waiting" THEN [pending EXCEPT ![r] = Outcome(r)] ELSE pending
  /\ UNCHANGED <<job, pool>>

\* lifespan: cpu_pool.shutdown(wait=True, cancel_futures=True) in a thread of its
\* own.  Jobs that no thread has taken are cancelled, which posts their callbacks.
Shutdown ==
  /\ pool = "open"
  /\ pool' = "draining"
  /\ job' = [r \in Requests |-> IF job[r] = "queued" THEN "cancelled" ELSE job[r]]
  /\ posted' = posted \cup {r \in Requests : job[r] = "queued"}
  /\ UNCHANGED <<large_inflight, pending>>

\* shutdown returns when the threads have ended; the clients are closed next.
Drained ==
  /\ pool = "draining"
  /\ \A r \in Requests : job[r] # "running"
  /\ pool' = "closed"
  /\ UNCHANGED <<large_inflight, pending, job, posted>>

Next ==
  \/ \E r \in Requests : Detect(r) \/ Start(r) \/ Finish(r) \/ Cancel(r) \/ Complete(r)
  \/ Shutdown \/ Drained

\* The threads run what they are given, detect ends, the event loop runs what is
\* posted to it.
Fairness ==
  /\ \A r \in Requests : WF_vars(Start(r)) /\ WF_vars(Finish(r)) /\ WF_vars(Complete(r))
  /\ WF_vars(Drained)

Spec == Init /\ [][Next]_vars /\ Fairness

-----------------------------------------------------------------------------
(* Properties.                                                             *)

TypeOK ==
  /\ large_inflight \in Nat
  /\ pending \in [Requests -> {"none", "refused", "waiting", "cancelled", "result", "failed"}]
  /\ job \in [Requests -> {"none", "queued", "running", "done", "error", "cancelled"}]
  /\ posted \subseteq Requests
  /\ pool \in {"open", "draining", "closed"}

\* Jobs that threads still have to work for.
Unfinished == {r \in Requests : job[r] \in {"queued", "running"}}

\* large_inflight counts exactly the jobs that occupy the pool or whose end the
\* loop has not heard of, whether or not their requests still wait.
SlotsExact == large_inflight = Cardinality(Unfinished \cup posted)

\* The check of _detect_large leaves no accepted job without a thread: jobs of
\* requests that gave up included, there are never more jobs than threads.
ThreadForEveryJob == Cardinality(Unfinished) <= cpu_workers

\* complete_cpu_work: what a request was answered, or that it gave up, is final.
\* Setting a done future again would raise on the event loop.
AnswerIsFinal ==
  [][\A r \in Requests : pending[r] \in {"cancelled", "result", "failed"} => pending'[r] = pending[r]]_vars

\* Every request that waits is answered or cancelled, also when its job fails, is
\* cancelled by a shutdown or runs while the pool is draining.
EveryWaiterAnswered == \A r \in Requests : pending[r] = "waiting" ~> pending[r] # "waiting"

\* After a shutdown all slots come back, those of cancelled requests included.
SlotsComeBack == pool = "closed" ~> large_inflight = 0
=============================================================================
