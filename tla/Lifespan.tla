------------------------------ MODULE Lifespan ------------------------------
(***************************************************************************)
(* The life of one API process, _AppContext.lifespan of seif/app.py: the   *)
(* start-up checks, serving, and the nested finally blocks that drain the  *)
(* thread pool (CpuPool), close the NER transport (ShardedNerTransport and *)
(* AiohttpNerSession, which close in the same way), the vault's clients    *)
(* and the request capture, each also when the one before fails.           *)
(*                                                                         *)
(* The transport has one close task that all callers of aclose share       *)
(* through asyncio.shield.  The task of lifespan may itself be cancelled   *)
(* at an await; it then goes on with the next finally block.               *)
(***************************************************************************)
EXTENDS CpuPool

CONSTANTS
  shard_count,   \* pools of the NER transport
  Clients,       \* clients of the vault: the master's and the Sentinels'
  Callers        \* other callers of aclose

ASSUME LifespanAssumption == shard_count \in Nat \ {0} /\ IsFiniteSet(Clients) /\ IsFiniteSet(Callers)

VARIABLES
  stage,        \* what lifespan is doing
  cancelled,    \* its task has been cancelled
  shard,        \* the pools of the transport
  next,         \* ShardedNerTransport._next
  closed,       \* _closed
  close_task,   \* _close_task
  caller,       \* what became of each other call of aclose
  client,       \* the clients of the vault
  recorder      \* the request capture

transport == <<shard, next, closed, close_task, caller>>
lifevars == <<stage, cancelled, transport, client, recorder>>
all == <<vars, lifevars>>

Shards == 0..shard_count - 1

\* A NER service is configured.
HasNer == shard[0] # "absent"

LifeInit ==
  /\ Init
  /\ stage = "starting" /\ cancelled = FALSE
  /\ \E how \in {"open", "absent"} : shard = [s \in Shards |-> how]   \* settings.ner_url
  /\ next = 0 /\ closed = FALSE /\ close_task = "none"
  /\ caller = [c \in Callers |-> "idle"]
  /\ client = [c \in Clients |-> "open"]
  /\ recorder = "open"

\* The check for free threading, vault.ping and ner.health, one of which may fail.
Startup ==
  /\ stage = "starting"
  /\ stage' \in {"serving", "draining"}
  /\ UNCHANGED <<vars, cancelled, transport, client, recorder>>

\* The server asks for the shutdown.
Stop ==
  /\ stage = "serving"
  /\ stage' = "draining"
  /\ UNCHANGED <<vars, cancelled, transport, client, recorder>>

\* cpu_pool.shutdown in a thread begins.
ShutdownPool ==
  /\ stage = "draining" /\ Shutdown
  /\ UNCHANGED lifevars

\* It ends.  Without lifespan waiting (cancelled) the thread ends all the same.
PoolDrained ==
  /\ Drained
  /\ IF stage = "draining" THEN stage' = "closing_ner" ELSE UNCHANGED stage
  /\ UNCHANGED <<cancelled, transport, client, recorder>>

\* handle_async_request: the next pool in turn, unless the transport is closed.
handle_async_request ==
  /\ HasNer /\ stage # "starting" /\ ~closed
  /\ next' = (next + 1) % shard_count
  /\ UNCHANGED <<vars, stage, cancelled, shard, closed, close_task, caller, client, recorder>>

\* The first part of aclose: the first caller starts the close task.
BeginClose ==
  IF close_task = "none" THEN closed' = TRUE /\ close_task' = "running"
  ELSE UNCHANGED <<closed, close_task>>

\* Another caller of aclose.
CallClose(c) ==
  /\ HasNer /\ stage # "starting" /\ caller[c] = "idle"
  /\ BeginClose
  /\ caller' = [caller EXCEPT ![c] = "waiting"]
  /\ UNCHANGED <<vars, stage, cancelled, shard, next, client, recorder>>

\* ner.close() by lifespan; without a NER service there is nothing to close.
CloseNer ==
  /\ stage = "closing_ner"
  /\ IF HasNer THEN BeginClose /\ stage' = "waiting_ner"
     ELSE stage' = "closing_vault" /\ UNCHANGED <<closed, close_task>>
  /\ UNCHANGED <<vars, cancelled, shard, next, caller, client, recorder>>

\* gather in _close_pools: one pool is closed, or fails to close.
CloseShard(s) ==
  /\ close_task = "running" /\ shard[s] = "open"
  /\ \E end \in {"closed", "failed"} : shard' = [shard EXCEPT ![s] = end]
  /\ UNCHANGED <<vars, stage, cancelled, next, closed, close_task, caller, client, recorder>>

\* All pools have been tried: the task ends, with the failure of one that failed.
CloseDone ==
  /\ close_task = "running" /\ \A s \in Shards : shard[s] # "open"
  /\ close_task' = IF \E s \in Shards : shard[s] = "failed" THEN "failed" ELSE "done"
  /\ UNCHANGED <<vars, stage, cancelled, shard, next, closed, caller, client, recorder>>

\* A caller learns how the task ended.
CloseReturns(c) ==
  /\ caller[c] = "waiting" /\ close_task \in {"done", "failed"}
  /\ caller' = [caller EXCEPT ![c] = close_task]
  /\ UNCHANGED <<vars, stage, cancelled, shard, next, closed, close_task, client, recorder>>

\* Mutant: without the shield a cancelled caller takes the close task with it.
CancelClose_unshielded(c) ==
  /\ caller[c] = "waiting"
  /\ caller' = [caller EXCEPT ![c] = "cancelled"]
  /\ close_task' = IF close_task = "running" THEN "failed" ELSE close_task
  /\ UNCHANGED <<vars, stage, cancelled, shard, next, closed, client, recorder>>

\* A caller is cancelled while it waits: asyncio.shield keeps the task running.
CancelClose(c) ==
  /\ caller[c] = "waiting"
  /\ caller' = [caller EXCEPT ![c] = "cancelled"]
  /\ UNCHANGED <<vars, stage, cancelled, shard, next, closed, close_task, client, recorder>>

\* Mutant: a failed close of the transport skips what is left.
NerClosed_skips ==
  /\ stage = "waiting_ner" /\ close_task \in {"done", "failed"}
  /\ stage' = (IF close_task = "failed" THEN "ended" ELSE "closing_vault")
  /\ UNCHANGED <<vars, cancelled, transport, client, recorder>>

NerClosed ==
  /\ stage = "waiting_ner" /\ close_task \in {"done", "failed"}
  /\ stage' = "closing_vault"
  /\ UNCHANGED <<vars, cancelled, transport, client, recorder>>

\* vault.close: gather tries every client, and the first failure is raised.
CloseVault ==
  /\ stage = "closing_vault"
  /\ client' \in [Clients -> {"closed", "failed"}]
  /\ stage' = "closing_capture"
  /\ UNCHANGED <<vars, cancelled, transport, recorder>>

\* capture.close in a thread (RequestCapture shows that it returns).
CaptureClosed ==
  /\ stage = "closing_capture"
  /\ recorder' = "closed"
  /\ stage' = "ended"
  /\ UNCHANGED <<vars, cancelled, transport, client>>

\* The task of lifespan is cancelled at the await of a finally block and goes on
\* with the next one.  A thread that was started, and the close task, run on; the
\* closing of the remaining clients of the vault is cancelled with gather.
CancelLifespan ==
  /\ ~cancelled /\ cancelled' = TRUE
  /\ \/ stage = "draining" /\ stage' = "closing_ner" /\ UNCHANGED <<client, recorder>>
     \/ stage = "waiting_ner" /\ stage' = "closing_vault" /\ UNCHANGED <<client, recorder>>
     \/ /\ stage = "closing_vault" /\ stage' = "closing_capture" /\ UNCHANGED recorder
        /\ client' \in [Clients -> {"open", "closed", "failed"}]
     \/ stage = "closing_capture" /\ stage' = "ended" /\ recorder' = "closed" /\ UNCHANGED client
  /\ UNCHANGED <<vars, transport>>

\* What requests and their jobs do meanwhile.
PoolWork ==
  /\ stage # "starting"
  /\ \E r \in Requests : Detect(r) \/ Start(r) \/ Finish(r) \/ Cancel(r) \/ Complete(r)
  /\ UNCHANGED lifevars

LifeNext ==
  \/ Startup \/ Stop \/ ShutdownPool \/ PoolDrained \/ handle_async_request
  \/ CloseNer \/ CloseDone \/ NerClosed \/ CloseVault \/ CaptureClosed \/ CancelLifespan
  \/ \E c \in Callers : CallClose(c) \/ CloseReturns(c) \/ CancelClose(c)
  \/ \E s \in Shards : CloseShard(s)
  \/ PoolWork

\* The threads run, detect ends, the loop runs what is ready, closes end.
LifeFairness ==
  /\ \A r \in Requests : WF_all(Start(r) /\ UNCHANGED lifevars)
                         /\ WF_all(Finish(r) /\ UNCHANGED lifevars)
                         /\ WF_all(Complete(r) /\ UNCHANGED lifevars)
  /\ WF_all(ShutdownPool) /\ WF_all(PoolDrained) /\ WF_all(CloseNer)
  /\ WF_all(\E s \in Shards : CloseShard(s)) /\ WF_all(CloseDone) /\ WF_all(NerClosed)
  /\ WF_all(CloseVault) /\ WF_all(CaptureClosed)
  /\ \A c \in Callers : WF_all(CloseReturns(c))

LifeSpec == LifeInit /\ [][LifeNext]_all /\ LifeFairness

-----------------------------------------------------------------------------
(* Properties.                                                             *)

LifeTypeOK ==
  /\ stage \in {"starting", "serving", "draining", "closing_ner", "waiting_ner",
                "closing_vault", "closing_capture", "ended"}
  /\ {cancelled, closed} \subseteq BOOLEAN
  /\ shard \in [Shards -> {"open", "closed", "failed", "absent"}] /\ next \in Shards
  /\ close_task \in {"none", "running", "done", "failed"}
  /\ caller \in [Callers -> {"idle", "waiting", "done", "failed", "cancelled"}]
  /\ client \in [Clients -> {"open", "closed", "failed"}]
  /\ recorder \in {"open", "closed"}

\* The nested finally blocks: a process that ended has closed, or tried to close,
\* everything it opened, also when a start-up check or the closing of a part
\* before failed.  Only a cancellation of lifespan may leave a part behind.
NothingLeftOpen ==
  stage = "ended" /\ ~cancelled =>
    /\ pool = "closed" /\ recorder = "closed"
    /\ \A s \in Shards : shard[s] # "open"
    /\ \A c \in Clients : client[c] # "open"

\* lifespan: the vault and the capture stay open until running jobs have ended, as
\* their requests still need them.
DrainedBeforeClosed ==
  ~cancelled /\ (recorder = "closed" \/ \E c \in Clients : client[c] # "open")
    => \A r \in Requests : job[r] # "running"

\* aclose: whoever waited to the end knows that every pool was tried, and all who
\* did were told the same.
SharedClose ==
  \A c \in Callers : caller[c] \in {"done", "failed"} =>
    /\ caller[c] = close_task
    /\ \A s \in Shards : shard[s] # "open"

\* handle_async_request: no request is given to a pool that is being closed.
NoRequestAfterClose == [][next' # next => shard[next] = "open" /\ close_task = "none"]_all

\* A close that was begun ends, even if every caller is cancelled.
CloseEnds == close_task = "running" ~> close_task \in {"done", "failed"} /\ \A s \in Shards : shard[s] # "open"

\* A process that is asked to stop, or fails to start, ends.
ProcessEnds == stage = "draining" ~> stage = "ended"

\* lifespan and its pool of threads: the parts are closed in an order that loses nothing
\* and leaves nothing open.
ShutdownSafe == TypeOK /\ LifeTypeOK /\ NothingLeftOpen /\ DrainedBeforeClosed /\ SharedClose

\* Waiting requests, slots, the close of the pools and the process come to an end, and no
\* request starts on what is being closed.
ShutdownEnds == EveryWaiterAnswered /\ SlotsComeBack /\ CloseEnds /\ ProcessEnds /\ NoRequestAfterClose
=============================================================================
