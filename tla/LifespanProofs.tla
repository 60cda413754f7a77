---------------------------- MODULE LifespanProofs ----------------------------
(***************************************************************************)
(* Proofs about CpuPool and about Lifespan, which shuts it down, for any   *)
(* number of requests, threads, pools of the transport and clients.  What  *)
(* CpuPool promises on its own comes first; lifespan takes only steps of   *)
(* CpuPool, so it holds there as well.                                     *)
(***************************************************************************)
EXTENDS Lifespan, FiniteSetTheorems, TLAPS

-----------------------------------------------------------------------------
(* The pool of threads.                                                    *)

Occupying == Unfinished \cup posted

\* A request that was not accepted has no job, and a callback is posted only
\* for a job that has ended.
JobInv ==
  /\ \A r \in Requests : pending[r] \in {"none", "refused"} => job[r] = "none"
  /\ \A r \in posted : job[r] \in {"done", "error", "cancelled"}

\* The inductive invariant.
IInv == TypeOK /\ JobInv /\ SlotsExact /\ large_inflight <= cpu_workers

LEMMA OccupyingFinite == TypeOK => IsFiniteSet(Occupying) /\ Cardinality(Occupying) \in Nat
<1> SUFFICES ASSUME TypeOK PROVE IsFiniteSet(Occupying) /\ Cardinality(Occupying) \in Nat
  OBVIOUS
<1>1. Occupying \subseteq Requests
  BY DEF Occupying, Unfinished, TypeOK
<1> QED
  BY <1>1, FS_Subset, FS_CardinalityType, CpuPoolAssumption

LEMMA InitOK == Init => IInv
<1> SUFFICES ASSUME Init PROVE IInv
  OBVIOUS
<1>1. TypeOK /\ JobInv
  BY DEF Init, TypeOK, JobInv
<1>2. Unfinished \cup posted = {}
  BY DEF Init, Unfinished
<1> QED
  BY <1>1, <1>2, FS_EmptySet, CpuPoolAssumption DEF Init, IInv, SlotsExact

\* A step that moves a job on without the loop hearing of it keeps every slot.
LEMMA SameSlots ==
  ASSUME IInv, TypeOK', JobInv', Occupying' = Occupying, UNCHANGED large_inflight
  PROVE  IInv'
BY DEF IInv, SlotsExact, Occupying

LEMMA DetectOK ==
  ASSUME IInv, NEW r \in Requests, Detect(r)
  PROVE  IInv'
<1>1. CASE Refuse(r)
  <2>1. Occupying' = Occupying
    BY <1>1 DEF Refuse, Occupying, Unfinished
  <2>2. TypeOK' /\ JobInv'
    BY <1>1 DEF Detect, Refuse, IInv, TypeOK, JobInv
  <2> QED
    BY <1>1, <2>1, <2>2, SameSlots DEF Refuse
<1>2. CASE Accept(r) /\ large_inflight < cpu_workers
  <2>1. TypeOK' /\ JobInv'
    BY <1>2 DEF Detect, Accept, IInv, TypeOK, JobInv
  <2>2. Occupying' = Occupying \cup {r} /\ r \notin Occupying
    BY <1>2 DEF Detect, Accept, IInv, TypeOK, JobInv, Occupying, Unfinished
  <2>3. Cardinality(Occupying') = Cardinality(Occupying) + 1
    BY <2>2, OccupyingFinite, FS_AddElement DEF IInv
  <2>4. SlotsExact'
    BY <1>2, <2>3 DEF IInv, SlotsExact, Accept, Occupying
  <2>5. large_inflight' <= cpu_workers
    BY <1>2, CpuPoolAssumption DEF IInv, TypeOK, Accept
  <2> QED
    BY <2>1, <2>4, <2>5 DEF IInv
<1> QED
  BY <1>1, <1>2, CpuPoolAssumption DEF Detect, IInv, TypeOK

LEMMA JobStepOK ==
  ASSUME IInv, NEW r \in Requests, Start(r) \/ Finish(r) \/ Cancel(r)
  PROVE  IInv'
<1>1. TypeOK' /\ JobInv'
  BY DEF Start, Finish, Cancel, IInv, TypeOK, JobInv
<1>2. Occupying' = Occupying
  BY DEF Start, Finish, Cancel, IInv, TypeOK, Occupying, Unfinished
<1> QED
  BY <1>1, <1>2, SameSlots DEF Start, Finish, Cancel

LEMMA CompleteOK ==
  ASSUME IInv, NEW r \in Requests, Complete(r)
  PROVE  IInv'
<1>1. Occupying' = Occupying \ {r} /\ r \in Occupying
  BY DEF Complete, IInv, TypeOK, JobInv, Occupying, Unfinished
<1>2. Cardinality(Occupying') = Cardinality(Occupying) - 1
  BY <1>1, OccupyingFinite, FS_RemoveElement DEF IInv
<1>3. large_inflight - 1 = Cardinality(Occupying')
  BY <1>2 DEF IInv, SlotsExact, Occupying
<1>4. IsFiniteSet(Occupying')
  BY <1>1, OccupyingFinite, FS_RemoveElement DEF IInv
<1>5. large_inflight - 1 \in Nat
  BY <1>3, <1>4, FS_CardinalityType
<1>6. TypeOK'
  BY <1>5 DEF Complete, Outcome, IInv, TypeOK
<1>7. JobInv'
  BY DEF Complete, Outcome, IInv, TypeOK, JobInv
<1> QED
  BY <1>3, <1>6, <1>7, CpuPoolAssumption DEF Complete, IInv, TypeOK, SlotsExact, Occupying

LEMMA ShutdownOK ==
  ASSUME IInv, Shutdown \/ Drained
  PROVE  IInv'
<1>1. TypeOK' /\ JobInv'
  BY DEF Shutdown, Drained, IInv, TypeOK, JobInv
<1>2. Occupying' = Occupying
  BY DEF Shutdown, Drained, IInv, TypeOK, Occupying, Unfinished
<1> QED
  BY <1>1, <1>2, SameSlots DEF Shutdown, Drained

LEMMA NextOK == IInv /\ [Next]_vars => IInv'
<1> SUFFICES ASSUME IInv, [Next]_vars PROVE IInv'
  OBVIOUS
<1>1. ASSUME NEW r \in Requests, Detect(r) PROVE IInv'
  BY <1>1, DetectOK
<1>2. ASSUME NEW r \in Requests, Start(r) \/ Finish(r) \/ Cancel(r) PROVE IInv'
  BY <1>2, JobStepOK
<1>3. ASSUME NEW r \in Requests, Complete(r) PROVE IInv'
  BY <1>3, CompleteOK
<1>4. CASE Shutdown \/ Drained
  BY <1>4, ShutdownOK
<1>5. CASE UNCHANGED vars
  BY <1>5 DEF vars, IInv, TypeOK, JobInv, SlotsExact, Unfinished
<1> QED
  BY <1>1, <1>2, <1>3, <1>4, <1>5 DEF Next

\* The inductive invariant holds in every reachable state.
THEOREM Invariance == Spec => []IInv
BY NextOK, InitOK, PTL DEF Spec

\* CpuPool is type correct; large_inflight never falls below zero.
THEOREM TypeCorrect == Spec => []TypeOK
<1>1. IInv => TypeOK
  BY DEF IInv
<1> QED
  BY <1>1, Invariance, PTL

\* large_inflight counts exactly the jobs whose end the loop has not heard of.
THEOREM Slots == Spec => []SlotsExact
<1>1. IInv => SlotsExact
  BY DEF IInv
<1> QED
  BY <1>1, Invariance, PTL

LEMMA FewerThanThreads == IInv => ThreadForEveryJob
<1> SUFFICES ASSUME IInv PROVE ThreadForEveryJob
  OBVIOUS
<1>1. Cardinality(Unfinished) <= Cardinality(Occupying) /\ Cardinality(Unfinished) \in Nat
  <2>1. Unfinished \subseteq Occupying
    BY DEF Occupying
  <2> QED
    BY <2>1, OccupyingFinite, FS_Subset, FS_CardinalityType DEF IInv
<1> QED
  BY <1>1, OccupyingFinite, CpuPoolAssumption
  DEF IInv, TypeOK, SlotsExact, Occupying, ThreadForEveryJob

\* There are never more unfinished jobs than threads.
THEOREM Threads == Spec => []ThreadForEveryJob
BY FewerThanThreads, Invariance, PTL

LEMMA AnswersStay ==
  IInv /\ [Next]_vars =>
    [\A r \in Requests : pending[r] \in {"cancelled", "result", "failed"} => pending'[r] = pending[r]]_vars
<1> SUFFICES ASSUME IInv, Next
             PROVE  \A r \in Requests :
                      pending[r] \in {"cancelled", "result", "failed"} => pending'[r] = pending[r]
  BY DEF vars
<1>1. TypeOK
  BY DEF IInv
<1>2. CASE \E r \in Requests : Detect(r) \/ Start(r) \/ Finish(r) \/ Cancel(r) \/ Complete(r)
  BY <1>1, <1>2 DEF TypeOK, Detect, Refuse, Accept, Start, Finish, Cancel, Complete
<1>3. CASE Shutdown \/ Drained
  BY <1>3 DEF Shutdown, Drained
<1> QED
  BY <1>2, <1>3 DEF Next

\* The answer to a request, or its cancellation, is final.
THEOREM Final == Spec => AnswerIsFinal
BY AnswersStay, Invariance, PTL DEF Spec, AnswerIsFinal

-----------------------------------------------------------------------------
(* Lifespan.                                                               *)

Settled == {"done", "failed"}

\* No thread takes a job once the pool shuts down, and none runs one after it.
PoolInv ==
  /\ pool # "open" => \A r \in Requests : job[r] # "queued"
  /\ pool = "closed" => \A r \in Requests : job[r] # "running"

\* The transport: who closes it has tried every pool, and nobody takes from it what is
\* being closed.
CloseInv ==
  /\ closed <=> close_task # "none"
  /\ HasNer => /\ \A s \in Shards : shard[s] # "absent"
               /\ close_task = "none" => \A s \in Shards : shard[s] = "open"
  /\ ~HasNer => close_task = "none" /\ \A s \in Shards : shard[s] = "absent"
  /\ close_task \in Settled => \A s \in Shards : shard[s] # "open"
  /\ \A c \in Callers : caller[c] \in Settled => caller[c] = close_task

\* What comes after the pool of threads, after the transport and after the vault.
AfterPool == {"closing_ner", "waiting_ner", "closing_vault", "closing_capture", "ended"}
AfterNer == {"closing_vault", "closing_capture", "ended"}
AfterVault == {"closing_capture", "ended"}

\* What lifespan has behind it at each of its finally blocks.
StageInv ==
  /\ ~cancelled /\ stage \in AfterPool => pool = "closed"
  /\ ~cancelled /\ stage \in AfterNer /\ HasNer => close_task \in Settled
  /\ ~cancelled /\ stage \in AfterVault => \A c \in Clients : client[c] # "open"
  /\ (\E c \in Clients : client[c] # "open") => stage \in AfterVault
  /\ recorder = "closed" <=> stage = "ended"

\* The inductive invariant of the life of a process.
LInv == IInv /\ LifeTypeOK /\ PoolInv /\ CloseInv /\ StageInv

\* A process with a NER service has one for all pools of the transport.
LEMMA FirstShard == 0 \in Shards /\ Shards \subseteq Nat /\ \A s \in Shards : s < shard_count
BY LifespanAssumption DEF Shards

LEMMA LInitOK == LifeInit => LInv
<1> SUFFICES ASSUME LifeInit PROVE LInv
  OBVIOUS
<1>1. IInv
  BY InitOK DEF LifeInit
<1>2. PICK how \in {"open", "absent"} : shard = [s \in Shards |-> how]
  BY DEF LifeInit
<1>3. shard[0] = how
  BY <1>2, FirstShard
<1>4. LifeTypeOK
  BY <1>2, FirstShard DEF LifeInit, LifeTypeOK
<1>5. PoolInv /\ StageInv
  BY DEF LifeInit, Init, PoolInv, StageInv, AfterPool, AfterNer, AfterVault
<1>6. CloseInv
  BY <1>2, <1>3 DEF LifeInit, CloseInv, HasNer, Settled
<1> QED
  BY <1>1, <1>4, <1>5, <1>6 DEF LInv

\* Whatever lifespan does to the pool is a step of CpuPool.
LEMMA IsPoolStep == [LifeNext]_all => [Next]_vars
BY DEF LifeNext, all, vars, Next, Startup, Stop, ShutdownPool, PoolDrained, handle_async_request, CloseNer,
       CloseDone, NerClosed, CloseVault, CaptureClosed, CancelLifespan, CallClose, CloseReturns,
       CancelClose, CloseShard, PoolWork

LEMMA PoolStays ==
  ASSUME LInv, UNCHANGED vars
  PROVE  IInv' /\ PoolInv' /\ UNCHANGED <<pool, job>>
<1>1. UNCHANGED <<pool, job>>
  BY DEF vars
<1>2. IInv'
  BY NextOK DEF LInv
<1> QED
  BY <1>1, <1>2 DEF LInv, PoolInv

\* Steps of the pool, of its threads and of the loop.
LEMMA PoolStepOK ==
  ASSUME LInv, PoolWork \/ ShutdownPool \/ PoolDrained
  PROVE  LInv'
<1>1. IInv'
  <2>1. [Next]_vars
    BY DEF PoolWork, ShutdownPool, PoolDrained, Next
  <2> QED
    BY <2>1, NextOK DEF LInv
<1>2. job \in [Requests -> {"none", "queued", "running", "done", "error", "cancelled"}]
  BY DEF LInv, IInv, TypeOK
<1>3. PoolInv' /\ (pool = "closed" => pool' = "closed")
  <2>1. CASE PoolWork
    BY <1>2, <2>1 DEF LInv, PoolInv, PoolWork, Detect, Refuse, Accept, Start, Finish, Cancel, Complete
  <2>2. CASE ShutdownPool
    BY <1>2, <2>2 DEF LInv, PoolInv, ShutdownPool, Shutdown
  <2>3. CASE PoolDrained
    BY <2>3 DEF LInv, PoolInv, PoolDrained, Drained
  <2> QED
    BY <2>1, <2>2, <2>3
<1>4. UNCHANGED <<cancelled, shard, next, closed, close_task, caller, client, recorder>>
  BY DEF PoolWork, ShutdownPool, PoolDrained, lifevars, transport
<1>5. \/ UNCHANGED stage
      \/ stage = "draining" /\ stage' = "closing_ner" /\ pool' = "closed"
  BY DEF PoolWork, ShutdownPool, PoolDrained, Drained, lifevars
<1>6. LifeTypeOK'
  BY <1>4, <1>5 DEF LInv, LifeTypeOK
<1>7. CloseInv'
  BY <1>4 DEF LInv, CloseInv, HasNer
<1>8. StageInv'
  BY <1>3, <1>4, <1>5 DEF LInv, StageInv, HasNer, AfterPool, AfterNer, AfterVault
<1> QED
  BY <1>1, <1>3, <1>6, <1>7, <1>8 DEF LInv

\* Steps that leave the transport alone.
LEMMA StageStepOK ==
  ASSUME LInv, Startup \/ Stop \/ NerClosed \/ CloseVault \/ CaptureClosed \/ CancelLifespan
  PROVE  LInv'
<1>1. UNCHANGED vars /\ UNCHANGED <<shard, next, closed, close_task, caller>>
  BY DEF Startup, Stop, NerClosed, CloseVault, CaptureClosed, CancelLifespan, transport
<1>2. IInv' /\ PoolInv' /\ UNCHANGED <<pool, job>>
  BY <1>1, PoolStays
<1>3. CloseInv'
  BY <1>1 DEF LInv, CloseInv, HasNer
<1>4. LifeTypeOK'
  <2>1. CASE Startup \/ Stop \/ NerClosed
    BY <1>1, <2>1 DEF LInv, LifeTypeOK, Startup, Stop, NerClosed
  <2>2. CASE CloseVault \/ CaptureClosed
    <3>1. client' \in [Clients -> {"open", "closed", "failed"}]
      BY <2>2 DEF LInv, LifeTypeOK, CloseVault, CaptureClosed
    <3> QED
      BY <1>1, <2>2, <3>1 DEF LInv, LifeTypeOK, CloseVault, CaptureClosed
  <2>3. CASE CancelLifespan
    <3>1. client' \in [Clients -> {"open", "closed", "failed"}]
      BY <2>3 DEF LInv, LifeTypeOK, CancelLifespan
    <3> QED
      BY <1>1, <2>3, <3>1 DEF LInv, LifeTypeOK, CancelLifespan
  <2> QED
    BY <2>1, <2>2, <2>3
<1>5. StageInv'
  <2>1. CASE Startup \/ Stop \/ NerClosed
    BY <1>1, <1>2, <2>1 DEF LInv, StageInv, HasNer, AfterPool, AfterNer, AfterVault, Startup, Stop, NerClosed,
                            Settled
  <2>2. CASE CloseVault \/ CaptureClosed
    BY <1>1, <1>2, <2>2 DEF LInv, LifeTypeOK, StageInv, HasNer, AfterPool, AfterNer, AfterVault, CloseVault,
                            CaptureClosed
  <2>3. CASE CancelLifespan
    BY <1>1, <1>2, <2>3 DEF LInv, LifeTypeOK, StageInv, AfterPool, AfterNer, AfterVault, CancelLifespan
  <2> QED
    BY <2>1, <2>2, <2>3
<1> QED
  BY <1>2, <1>3, <1>4, <1>5 DEF LInv

\* Steps of the transport.
LEMMA TransportOK ==
  ASSUME LInv,
         \/ handle_async_request \/ CloseNer \/ CloseDone
         \/ \E c \in Callers : CallClose(c) \/ CloseReturns(c) \/ CancelClose(c)
         \/ \E s \in Shards : CloseShard(s)
  PROVE  LInv'
<1>1. UNCHANGED <<vars, cancelled, client, recorder>>
  BY DEF handle_async_request, CloseNer, CloseDone, CallClose, CloseReturns, CancelClose, CloseShard
<1>2. IInv' /\ PoolInv' /\ UNCHANGED <<pool, job>>
  BY <1>1, PoolStays
<1>3. CASE handle_async_request
  <2>1. next' \in Shards
    BY <1>3, LifespanAssumption DEF handle_async_request, LInv, LifeTypeOK, Shards
  <2>2. UNCHANGED <<stage, shard, closed, close_task, caller>>
    BY <1>3 DEF handle_async_request
  <2> QED
    BY <1>1, <1>2, <2>1, <2>2 DEF LInv, LifeTypeOK, CloseInv, StageInv, HasNer
<1>4. CASE CloseNer
  <2>1. UNCHANGED <<shard, next, caller>> /\ stage = "closing_ner"
    BY <1>4 DEF CloseNer
  <2>2. \/ HasNer /\ BeginClose /\ stage' = "waiting_ner"
        \/ ~HasNer /\ stage' = "closing_vault" /\ UNCHANGED <<closed, close_task>>
    BY <1>4 DEF CloseNer
  <2>3. LifeTypeOK' /\ CloseInv'
    <3>1. CASE HasNer /\ BeginClose /\ stage' = "waiting_ner"
      <4>1. LifeTypeOK'
        BY <1>1, <2>1, <3>1 DEF LInv, LifeTypeOK, BeginClose
      <4>2. CloseInv'
        BY <2>1, <3>1 DEF LInv, CloseInv, HasNer, BeginClose, Settled
      <4> QED
        BY <4>1, <4>2
    <3>2. CASE ~HasNer /\ stage' = "closing_vault" /\ UNCHANGED <<closed, close_task>>
      <4>1. LifeTypeOK'
        BY <1>1, <2>1, <3>2 DEF LInv, LifeTypeOK
      <4>2. CloseInv'
        BY <2>1, <3>2 DEF LInv, CloseInv, HasNer
      <4> QED
        BY <4>1, <4>2
    <3> QED
      BY <2>2, <3>1, <3>2
  <2>4. StageInv'
    BY <1>1, <1>2, <2>1, <2>2 DEF LInv, StageInv, HasNer, AfterPool, AfterNer, AfterVault
  <2> QED
    BY <1>2, <2>3, <2>4 DEF LInv
<1>5. CASE CloseDone
  <2>1. /\ close_task = "running" /\ close_task' \in Settled /\ \A s \in Shards : shard[s] # "open"
        /\ UNCHANGED <<stage, shard, next, closed, caller>>
    BY <1>5 DEF CloseDone, Settled
  <2>2. LifeTypeOK' /\ CloseInv'
    BY <1>1, <2>1 DEF LInv, LifeTypeOK, CloseInv, HasNer, Settled
  <2>3. StageInv'
    BY <1>1, <1>2, <2>1 DEF LInv, StageInv, HasNer, AfterPool, AfterNer, AfterVault
  <2> QED
    BY <1>2, <2>2, <2>3 DEF LInv
<1>6. ASSUME NEW c \in Callers, CallClose(c) \/ CloseReturns(c) \/ CancelClose(c) PROVE LInv'
  <2>1. UNCHANGED <<stage, shard, next>>
    BY <1>6 DEF CallClose, CloseReturns, CancelClose
  <2>2. LifeTypeOK'
    BY <1>1, <1>6, <2>1 DEF LInv, LifeTypeOK, CallClose, CloseReturns, CancelClose, BeginClose
  <2>3. CloseInv'
    BY <1>6, <2>1 DEF LInv, LifeTypeOK, CloseInv, HasNer, CallClose, CloseReturns, CancelClose, BeginClose, Settled
  <2>4. close_task \in Settled => close_task' = close_task
    BY <1>6 DEF CallClose, CloseReturns, CancelClose, BeginClose, Settled
  <2>5. StageInv'
    BY <1>1, <1>2, <2>1, <2>4 DEF LInv, StageInv, HasNer
  <2> QED
    BY <1>2, <2>2, <2>3, <2>5 DEF LInv
<1>7. ASSUME NEW s \in Shards, CloseShard(s) PROVE LInv'
  <2>1. /\ close_task = "running" /\ shard[s] = "open"
        /\ UNCHANGED <<stage, next, closed, close_task, caller>>
    BY <1>7 DEF CloseShard
  <2>2. PICK end \in {"closed", "failed"} : shard' = [shard EXCEPT ![s] = end]
    BY <1>7 DEF CloseShard
  <2>3. shard \in [Shards -> {"open", "closed", "failed", "absent"}]
    BY DEF LInv, LifeTypeOK
  <2>4. HasNer' /\ HasNer
    BY <2>1, <2>2, <2>3, FirstShard DEF LInv, CloseInv, HasNer
  <2>5. LifeTypeOK'
    BY <1>1, <2>1, <2>2, <2>3 DEF LInv, LifeTypeOK
  <2>6. CloseInv'
    BY <2>1, <2>2, <2>3, <2>4 DEF LInv, CloseInv, Settled
  <2>7. StageInv'
    BY <1>1, <1>2, <2>1, <2>4 DEF LInv, StageInv
  <2> QED
    BY <1>2, <2>5, <2>6, <2>7 DEF LInv
<1> QED
  BY <1>3, <1>4, <1>5, <1>6, <1>7

LEMMA LNextOK == LInv /\ [LifeNext]_all => LInv'
<1> SUFFICES ASSUME LInv, [LifeNext]_all PROVE LInv'
  OBVIOUS
<1>1. CASE UNCHANGED all
  <2>1. UNCHANGED vars /\ UNCHANGED <<stage, cancelled, shard, next, closed, close_task, caller, client, recorder>>
    BY <1>1 DEF all, lifevars, transport
  <2>2. IInv' /\ PoolInv' /\ UNCHANGED <<pool, job>>
    BY <2>1, PoolStays
  <2> QED
    BY <2>1, <2>2 DEF LInv, LifeTypeOK, CloseInv, StageInv, HasNer
<1>2. CASE LifeNext
  BY <1>2, PoolStepOK, StageStepOK, TransportOK DEF LifeNext
<1> QED
  BY <1>1, <1>2

\* The process and its pool: nothing is closed before running jobs have ended, nothing is
\* left open unless lifespan itself is cancelled, and all who close the transport are told
\* the same (lifespan, ShardedNerTransport.aclose), for any number of parts.
THEOREM ShutdownKeepsSafe == LifeSpec => []ShutdownSafe
<1>1. LInv => ShutdownSafe
  <2> SUFFICES ASSUME LInv PROVE ShutdownSafe
    OBVIOUS
  <2>1. TypeOK /\ LifeTypeOK
    BY DEF LInv, IInv
  <2>2. NothingLeftOpen
    BY DEF LInv, CloseInv, StageInv, NothingLeftOpen, AfterPool, AfterNer, AfterVault
  <2>3. DrainedBeforeClosed
    BY DEF LInv, PoolInv, StageInv, DrainedBeforeClosed, AfterPool, AfterVault
  <2>4. SharedClose
    BY DEF LInv, CloseInv, SharedClose, Settled
  <2> QED
    BY <2>1, <2>2, <2>3, <2>4 DEF ShutdownSafe
<1> QED
  BY <1>1, LInitOK, LNextOK, PTL DEF LifeSpec

\* What holds of the pool of threads on its own holds while lifespan starts, serves and
\* shuts it down (_detect_large, complete_cpu_work): slots are exact, every accepted job
\* has a thread, and answers are final.
THEOREM PoolKeepsSafe == LifeSpec => [](SlotsExact /\ ThreadForEveryJob) /\ AnswerIsFinal
<1>1. LifeInit => Init
  BY DEF LifeInit
<1>2. IInv => SlotsExact /\ ThreadForEveryJob
  BY FewerThanThreads DEF IInv
<1>3. [LifeNext]_all => [Next]_vars
  BY IsPoolStep
<1> QED
  BY <1>1, <1>2, <1>3, InitOK, NextOK, AnswersStay, PTL DEF LifeSpec, AnswerIsFinal

\* handle_async_request never gives a request to a pool that is being closed.
THEOREM NoneAfterClose == LifeSpec => NoRequestAfterClose
<1>1. LInv /\ [LifeNext]_all => [next' # next => shard[next] = "open" /\ close_task = "none"]_all
  <2> SUFFICES ASSUME LInv, LifeNext, next' # next
               PROVE  shard[next] = "open" /\ close_task = "none"
    OBVIOUS
  <2>1. handle_async_request
    BY DEF LifeNext, Startup, Stop, ShutdownPool, PoolDrained, CloseNer, CloseDone, NerClosed, CloseVault,
           CaptureClosed, CancelLifespan, CallClose, CloseReturns, CancelClose, CloseShard, PoolWork,
           lifevars, transport
  <2> QED
    BY <2>1 DEF handle_async_request, LInv, CloseInv, LifeTypeOK
<1> QED
  BY <1>1, LInitOK, LNextOK, PTL DEF LifeSpec, NoRequestAfterClose
=============================================================================
