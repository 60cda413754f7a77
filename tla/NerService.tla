------------------------------ MODULE NerService ------------------------------
(***************************************************************************)
(* The private NER service, scripts/ner_service.py: its own HTTP boundary, *)
(* the model slots of /analyze, and the batching executor it submits to.   *)
(* A job of BatchExecutor is the job of the request with the same name,    *)
(* and the executor's capacity is Settings.max_model_jobs.                 *)
(*                                                                         *)
(* The event loop runs what lies between two awaits as one step; the steps *)
(* of the executor's thread come in between.  A future that ends posts     *)
(* _complete_model_job to the loop.  With batch_size 1 the service submits *)
(* to a ThreadPoolExecutor; how its completion works is in CpuPool.        *)
(***************************************************************************)
EXTENDS BatchExecutor, FiniteSets

CONSTANT max_http_inflight   \* NerSettings.max_http_inflight

\* What lifespan requires of the settings.
ASSUME NerServiceAssumption == max_http_inflight \in Nat /\ capacity <= max_http_inflight

VARIABLES
  inflight,         \* Boundary.inflight
  model_inflight,   \* app.state.model_inflight
  at,               \* where the task of each request is
  posted,           \* jobs whose _complete_model_job is scheduled on the loop
  life              \* "ready"; "leaving" once ready is False; "down" without a model

service == <<inflight, model_inflight, at, posted, life>>
allvars == <<vars, service>>

ServiceInit ==
  /\ Init
  /\ inflight = 0 /\ model_inflight = 0
  /\ at = [r \in Jobs |-> "idle"]
  /\ posted = {}
  /\ life = "ready"

Done == {"cancelled", "result", "failed", "fatal"}

\* The done callback of every future that ends in this step, whichever thread ends
\* it, schedules _complete_model_job on the loop.
Post(base) ==
  posted' = base \cup {j \in Jobs : future'[j] \in Done /\ future[j] \notin Done}

\* A response, an error or not, is ready to be sent.
Reply(r) == at' = [at EXCEPT ![r] = "responding"]

\* Boundary.__call__ and _check_body_size, up to the first await.  Requests turned
\* away at the door (401, 429) are not counted while their answer is sent.  A bad
\* length (400, 413) and GET /health are answered, a POST is read.
Enter(r) ==
  /\ at[r] = "idle"
  /\ \/ at' = [at EXCEPT ![r] = "gone"] /\ UNCHANGED inflight
     \/ /\ inflight < max_http_inflight
        /\ inflight' = inflight + 1
        /\ Reply(r) \/ at' = [at EXCEPT ![r] = "reading"]
  /\ UNCHANGED <<vars, model_inflight, posted, life>>

\* _read_post_body gives up: the body is too slow (408) or too large (413).
BodyRefused(r) ==
  /\ at[r] = "reading"
  /\ Reply(r)
  /\ UNCHANGED <<vars, inflight, model_inflight, posted, life>>

\* Mutant: a slot taken for a job that submit refuses is not given back.
run_model_keeps_slot(r) ==
  /\ submit(r)
  /\ model_inflight' = model_inflight + 1
  /\ IF future'[r] = "refused" THEN Reply(r) ELSE at' = [at EXCEPT ![r] = "waiting"]

\* _run_model up to its await: a slot, and a job unless submit refuses (503).
run_model(r) ==
  /\ submit(r)
  /\ IF future'[r] = "refused" THEN Reply(r) /\ UNCHANGED model_inflight
     ELSE model_inflight' = model_inflight + 1 /\ at' = [at EXCEPT ![r] = "waiting"]

\* The last chunk arrives.  analyze answers at once when the text is invalid (422)
\* or empty, and when the service is not ready (503) or has no free slot (429).
analyze(r) ==
  /\ at[r] = "reading"
  /\ \/ Reply(r) /\ UNCHANGED <<vars, model_inflight>>
     \/ life = "ready" /\ model_inflight < capacity /\ run_model(r)
  /\ UNCHANGED <<inflight, posted, life>>

\* _complete_model_job on the loop: the slot is free, the waiter is set unless the
\* request has gone.
complete_model_job(r) ==
  /\ r \in posted
  /\ posted' = posted \ {r}
  /\ model_inflight' = model_inflight - 1
  /\ at' = [at EXCEPT ![r] = IF @ = "waiting" THEN "woken" ELSE @]
  /\ UNCHANGED <<vars, inflight, life>>

\* The finally block of Boundary.__call__.
Leaves(r) == at' = [at EXCEPT ![r] = "gone"] /\ inflight' = inflight - 1

\* _run_model after its await.  A BaseException of the model passes every handler
\* and ends the request without an answer.
Resume(r) ==
  /\ at[r] = "woken"
  /\ IF future[r] = "fatal" THEN Leaves(r) ELSE Reply(r) /\ UNCHANGED inflight
  /\ UNCHANGED <<vars, model_inflight, posted, life>>

\* The response has been sent, or failed to be.
Finish(r) ==
  /\ at[r] = "responding"
  /\ Leaves(r)
  /\ UNCHANGED <<vars, model_inflight, posted, life>>

\* The client disconnects during its upload, or the server cancels the task at an
\* await; _run_model then cancels the job, which succeeds unless it runs or ran.
Abort(r) ==
  /\ at[r] \in {"reading", "waiting", "woken", "responding"}
  /\ Leaves(r)
  /\ IF at[r] \in {"waiting", "woken"} /\ future[r] = "pending" THEN Cancel(r) ELSE UNCHANGED vars
  /\ Post(posted)
  /\ UNCHANGED <<model_inflight, life>>

\* A step of the executor's thread.
Worker ==
  /\ \/ Sleep \/ TakeBatch \/ Leave \/ Claim \/ ModelReturns \/ ModelFails \/ ModelDies
  /\ Post(posted)
  /\ UNCHANGED <<inflight, model_inflight, at, life>>

\* lifespan after its yield: no request is admitted to the model any more.
StopServing ==
  /\ life = "ready"
  /\ life' = "leaving"
  /\ UNCHANGED <<vars, inflight, model_inflight, at, posted>>

\* pool.shutdown(wait=True, cancel_futures=True) in a thread of its own.
ShutdownPool ==
  /\ life = "leaving" /\ ~stopping
  /\ shutdown(TRUE)
  /\ Post(posted)
  /\ UNCHANGED <<inflight, model_inflight, at, life>>

\* The thread has been joined and the analyzer is dropped.
ReleaseModel ==
  /\ Join
  /\ life' = "down"
  /\ UNCHANGED <<inflight, model_inflight, at, posted>>

ServiceNext ==
  \/ \E r \in Jobs :
       \/ Enter(r) \/ BodyRefused(r) \/ analyze(r) \/ complete_model_job(r)
       \/ Resume(r) \/ Finish(r) \/ Abort(r)
  \/ Worker \/ StopServing \/ ShutdownPool \/ ReleaseModel

\* The loop runs what is scheduled on it, uploads have a deadline, responses are
\* sent, the thread runs, its batch deadline passes and the model returns somehow.
ServiceFairness ==
  /\ \A r \in Jobs : /\ WF_allvars(complete_model_job(r)) /\ WF_allvars(Resume(r))
                     /\ WF_allvars(Finish(r)) /\ WF_allvars(BodyRefused(r))
  /\ WF_allvars(Worker /\ worker' # "collecting")
  /\ WF_allvars(ShutdownPool) /\ WF_allvars(ReleaseModel)

ServiceSpec == ServiceInit /\ [][ServiceNext]_allvars /\ ServiceFairness

-----------------------------------------------------------------------------
(* Properties.                                                             *)

Served == {r \in Jobs : at[r] \notin {"idle", "gone"}}

\* Jobs whose end the event loop has not heard of.
Owned == {j \in Jobs : future[j] \in {"pending", "running"}} \cup posted

ServiceTypeOK ==
  /\ inflight \in 0..max_http_inflight /\ model_inflight \in 0..capacity
  /\ at \in [Jobs -> {"idle", "reading", "waiting", "woken", "responding", "gone"}]
  /\ posted \subseteq Jobs
  /\ life \in {"ready", "leaving", "down"}

\* _run_model, _complete_model_job, Boundary.__call__: both counters are exact on
\* every way out.  A job that runs owns its slot until the model returns, whatever
\* became of its request, and a refused submit gives it back.
CapacityExact ==
  /\ inflight = Cardinality(Served)
  /\ model_inflight = Cardinality(Owned)

\* Cancellation frees a slot at once, while the entry stays in the executor's
\* queue.  Only for this reason can an admitted text be refused by a submit that is
\* not shutting down: the queue holds jobs nobody waits for.
RefusedBehindTheDead ==
  [][\A r \in Jobs : future[r] = "none" /\ future'[r] = "refused" /\ ~stopping
       => \E i \in 1..Len(pending) : future[pending[i]] = "cancelled"]_allvars

\* lifespan: the model is only dropped when no thread uses it and nobody waits for
\* a job of it that the loop is not about to answer.
ModelOutlivesItsJobs ==
  life = "down" => \A r \in Jobs : /\ future[r] \notin {"pending", "running"}
                                   /\ at[r] = "waiting" => r \in posted

\* Every request leaves, unless the model thread died under it and nobody shuts the
\* service down.
EveryRequestLeaves ==
  \A r \in Jobs : r \in Served ~> r \notin Served \/ (worker = "died" /\ life = "ready")

\* The NER service as a whole: both counters are exact, no future is lost between the
\* queue, the batch and the model, and nobody is left waiting when the model is dropped.
ServiceSafe ==
  /\ ServiceTypeOK /\ TypeOK
  /\ NoFutureLost /\ NobodyLeftWaiting
  /\ CapacityExact /\ ModelOutlivesItsJobs

\* What no step of the service does: end a future twice, or refuse an admitted text for
\* any other reason than cancelled jobs in front of it.
ServiceSteps == EndsOnce /\ RefusedBehindTheDead

\* Jobs, shutdowns and requests of the service end, with a model thread that lives.
ServiceEnds == EveryJobEnds /\ ShutdownReturns /\ EveryRequestLeaves
=============================================================================
