--------------------------- MODULE NerServiceProofs ---------------------------
(***************************************************************************)
(* Proofs about NerService and the BatchExecutor in it, for any number of  *)
(* requests, slots and any batch size.  The executor's own invariant comes *)
(* first; a step of the service is a step of the executor or leaves it     *)
(* alone, so what holds of the executor holds in the service.              *)
(***************************************************************************)
EXTENDS NerService, FiniteSetTheorems, TLAPS

-----------------------------------------------------------------------------
(* Sequences.                                                              *)

\* The parts of a sequence that is taken apart.
LEMMA Parts ==
  ASSUME NEW S, NEW s \in Seq(S), NEW k \in 0..Len(s)
  PROVE  /\ SubSeq(s, 1, k) \in Seq(S) /\ SubSeq(s, k + 1, Len(s)) \in Seq(S)
         /\ Len(SubSeq(s, 1, k)) = k /\ Len(SubSeq(s, k + 1, Len(s))) = Len(s) - k
         /\ Range(SubSeq(s, 1, k)) \cup Range(SubSeq(s, k + 1, Len(s))) = Range(s)
         /\ IsInjective(s) =>
              /\ IsInjective(SubSeq(s, 1, k)) /\ IsInjective(SubSeq(s, k + 1, Len(s)))
              /\ Range(SubSeq(s, 1, k)) \cap Range(SubSeq(s, k + 1, Len(s))) = {}
<1> DEFINE head == SubSeq(s, 1, k)
           tail == SubSeq(s, k + 1, Len(s))
<1>1. head \in Seq(S) /\ tail \in Seq(S) /\ Len(head) = k /\ Len(tail) = Len(s) - k
  OBVIOUS
<1>2. \A i \in 1..k : head[i] = s[i]
  OBVIOUS
<1>3. \A i \in 1..(Len(s) - k) : tail[i] = s[i + k]
  OBVIOUS
<1> HIDE DEF head, tail
<1>4. DOMAIN head = 1..k /\ DOMAIN tail = 1..(Len(s) - k) /\ DOMAIN s = 1..Len(s)
  BY <1>1
<1>5. Range(s) \subseteq Range(head) \cup Range(tail)
  <2> SUFFICES ASSUME NEW i \in 1..Len(s) PROVE s[i] \in Range(head) \cup Range(tail)
    BY <1>4 DEF Range
  <2>1. CASE i <= k
    BY <2>1, <1>2, <1>4 DEF Range
  <2>2. CASE i > k
    <3>1. i - k \in 1..(Len(s) - k) /\ (i - k) + k = i
      BY <2>2
    <3>2. tail[i - k] = s[i]
      BY <3>1, <1>3
    <3>3. tail[i - k] \in Range(tail)
      BY <3>1, <1>4 DEF Range
    <3> QED
      BY <3>2, <3>3
  <2> QED
    BY <2>1, <2>2
<1>6. Range(head) \cup Range(tail) \subseteq Range(s)
  <2>1. Range(head) \subseteq Range(s)
    BY <1>2, <1>4 DEF Range
  <2>2. \A i \in 1..(Len(s) - k) : i + k \in 1..Len(s)
    OBVIOUS
  <2>3. Range(tail) \subseteq Range(s)
    BY <2>2, <1>3, <1>4 DEF Range
  <2> QED
    BY <2>1, <2>3
<1>7. ASSUME IsInjective(s)
      PROVE  IsInjective(head) /\ IsInjective(tail) /\ Range(head) \cap Range(tail) = {}
  <2>1. \A i, j \in 1..Len(s) : s[i] = s[j] => i = j
    BY <1>4, <1>7 DEF IsInjective
  <2>2. IsInjective(head)
    BY <2>1, <1>2, <1>4 DEF IsInjective
  <2>3. IsInjective(tail)
    BY <2>1, <1>3, <1>4 DEF IsInjective
  <2>4. \A i \in 1..k, j \in 1..(Len(s) - k) : head[i] # tail[j]
    BY <2>1, <1>2, <1>3
  <2> QED
    BY <2>2, <2>3, <2>4, <1>4 DEF Range
<1> QED
  BY <1>1, <1>5, <1>6, <1>7 DEF head, tail

\* Two sequences one after the other.
LEMMA Joined ==
  ASSUME NEW S, NEW s \in Seq(S), NEW t \in Seq(S)
  PROVE  /\ s \o t \in Seq(S) /\ Len(s \o t) = Len(s) + Len(t)
         /\ Range(s \o t) = Range(s) \cup Range(t)
         /\ IsInjective(s \o t) <=> IsInjective(s) /\ IsInjective(t) /\ Range(s) \cap Range(t) = {}
<1> DEFINE st == s \o t
<1>1. st \in Seq(S) /\ Len(st) = Len(s) + Len(t)
  OBVIOUS
<1>2. \A i \in 1..Len(s) : st[i] = s[i]
  OBVIOUS
<1>3. \A i \in 1..Len(t) : st[i + Len(s)] = t[i]
  OBVIOUS
<1> HIDE DEF st
<1>4. SubSeq(st, 1, Len(s)) = s
  BY <1>1, <1>2
<1>5. SubSeq(st, Len(s) + 1, Len(st)) = t
  BY <1>1, <1>3
<1>6. Len(s) \in 0..Len(st)
  BY <1>1
<1>7. /\ Range(st) = Range(s) \cup Range(t)
      /\ IsInjective(st) => IsInjective(s) /\ IsInjective(t) /\ Range(s) \cap Range(t) = {}
  <2>1. /\ Range(SubSeq(st, 1, Len(s))) \cup Range(SubSeq(st, Len(s) + 1, Len(st))) = Range(st)
        /\ IsInjective(st) =>
             /\ IsInjective(SubSeq(st, 1, Len(s))) /\ IsInjective(SubSeq(st, Len(s) + 1, Len(st)))
             /\ Range(SubSeq(st, 1, Len(s))) \cap Range(SubSeq(st, Len(s) + 1, Len(st))) = {}
    BY <1>1, <1>6, Parts
  <2> QED
    BY <2>1, <1>4, <1>5
<1>8. ASSUME IsInjective(s), IsInjective(t), Range(s) \cap Range(t) = {}
      PROVE  IsInjective(st)
  <2> SUFFICES ASSUME NEW i \in 1..Len(st), NEW j \in 1..Len(st), st[i] = st[j], i < j
               PROVE  FALSE
    <3>1. DOMAIN st = 1..Len(st)
      BY <1>1
    <3>2. \A i, j \in 1..Len(st) : st[i] = st[j] => i = j
      BY <1>1
    <3> QED
      BY <3>1, <3>2 DEF IsInjective
  <2>1. CASE j <= Len(s)
    BY <2>1, <1>1, <1>2, <1>8, SMTT(30) DEF IsInjective
  <2>2. CASE i > Len(s)
    <3>1. /\ i - Len(s) \in 1..Len(t) /\ j - Len(s) \in 1..Len(t)
          /\ (i - Len(s)) + Len(s) = i /\ (j - Len(s)) + Len(s) = j
      BY <2>2, <1>1
    <3>2. st[i] = t[i - Len(s)] /\ st[j] = t[j - Len(s)]
      BY <3>1, <1>3
    <3>3. DOMAIN t = 1..Len(t)
      OBVIOUS
    <3>4. i - Len(s) = j - Len(s)
      BY <3>1, <3>2, <3>3, <1>8 DEF IsInjective
    <3> QED
      BY <3>4, <1>1
  <2>3. CASE i <= Len(s) /\ j > Len(s)
    <3>1. i \in DOMAIN s /\ j - Len(s) \in DOMAIN t
      BY <2>3, <1>1
    <3>2. st[i] = s[i] /\ st[j] = t[j - Len(s)]
      BY <3>1, <1>2, <1>3
    <3>3. s[i] \in Range(s) /\ t[j - Len(s)] \in Range(t)
      BY <3>1 DEF Range
    <3> QED
      BY <3>2, <3>3, <1>8
  <2> QED
    BY <2>1, <2>2, <2>3, <1>1
<1> QED
  BY <1>1, <1>7, <1>8 DEF st

LEMMA Appended ==
  ASSUME NEW S, NEW s \in Seq(S), NEW e \in S
  PROVE  /\ Append(s, e) \in Seq(S) /\ Len(Append(s, e)) = Len(s) + 1
         /\ Range(Append(s, e)) = Range(s) \cup {e}
         /\ IsInjective(s) /\ e \notin Range(s) => IsInjective(Append(s, e))
<1>1. Append(s, e) = s \o <<e>> /\ <<e>> \in Seq(S)
  OBVIOUS
<1>2. Range(<<e>>) = {e} /\ IsInjective(<<e>>) /\ Len(<<e>>) = 1
  BY DEF Range, IsInjective
<1>3. /\ Range(s \o <<e>>) = Range(s) \cup {e}
      /\ IsInjective(s) /\ e \notin Range(s) => IsInjective(s \o <<e>>)
  <2>1. /\ Range(s \o <<e>>) = Range(s) \cup Range(<<e>>)
        /\ IsInjective(s \o <<e>>) <=>
             IsInjective(s) /\ IsInjective(<<e>>) /\ Range(s) \cap Range(<<e>>) = {}
    BY <1>1, Joined, ZenonT(60)
  <2> QED
    BY <2>1, <1>2
<1> QED
  BY <1>1, <1>3

\* The members of a sequence are of its type; the empty one has none.
LEMMA Members ==
  /\ \A S : \A s \in Seq(S) : Range(s) \subseteq S /\ \A i \in 1..Len(s) : s[i] \in Range(s)
  /\ Range(<<>>) = {} /\ IsInjective(<<>>)
BY DEF Range, IsInjective

-----------------------------------------------------------------------------
(* The executor.                                                           *)

\* A future that is in the queue or being collected does not run and has not been
\* answered.
Queued == \A j \in Range(pending) \cup Range(batch) : future[j] \in {"pending", "cancelled"}

\* What the thread has in its hands where it is, and what its end and a shutdown leave.
WorkerInv ==
  /\ batch # <<>> => worker \in {"collecting", "taken"}
  /\ joined => stopping /\ worker \in {"ended", "died"}
  /\ worker = "ended" => stopping /\ pending = <<>>
  /\ cancel_queued => stopping /\ pending = <<>>

\* The inductive invariant of the executor.
EInv == TypeOK /\ NoFutureLost /\ Queued /\ WorkerInv

\* The same invariant in terms of sets.
Apart ==
  /\ IsInjective(pending) /\ IsInjective(batch)
  /\ Range(pending) \cap Range(batch) = {}

LEMMA SeqTypes ==
  ASSUME EInv
  PROVE  /\ pending \in Seq(Jobs) /\ batch \in Seq(Jobs) /\ Len(pending) \in Nat /\ Len(batch) \in Nat
         /\ Range(pending) \subseteq Jobs /\ Range(batch) \subseteq Jobs /\ Apart
<1>1. pending \in Seq(Jobs) /\ batch \in Seq(Jobs)
  BY DEF EInv, TypeOK
<1>2. Range(pending) \subseteq Jobs /\ Range(batch) \subseteq Jobs
  BY <1>1, Members
<1>3. IsInjective(pending \o batch)
  BY DEF EInv, NoFutureLost
<1>4. Apart
  BY <1>1, <1>3, Joined DEF Apart
<1> QED
  BY <1>1, <1>2, <1>4

\* Putting the parts of the invariant together after a step.
LEMMA Together ==
  ASSUME TypeOK', Apart', Queued', WorkerInv',
         \A j \in Jobs : future'[j] = "pending" => j \in Range(pending') \cup Range(batch'),
         \A j \in Jobs : future'[j] = "running" <=> j \in active',
         active' # {} <=> worker' = "calling"
  PROVE  EInv'
<1>1. pending' \in Seq(Jobs) /\ batch' \in Seq(Jobs)
  BY DEF TypeOK
<1>2. IsInjective(pending' \o batch')
  BY <1>1, Joined DEF Apart
<1> QED
  BY <1>2 DEF EInv, NoFutureLost

LEMMA EInitOK == Init => EInv
<1> SUFFICES ASSUME Init PROVE EInv
  OBVIOUS
<1>1. <<>> \in Seq(Jobs) /\ Len(<<>>) = 0 /\ <<>> \o <<>> = <<>>
  OBVIOUS
<1>2. TypeOK
  <2>1. 0 <= capacity /\ 0 <= batch_size
    BY BatchExecutorAssumption
  <2>2. future \in [Jobs -> {"none", "refused", "pending", "cancelled", "running", "result", "failed", "fatal"}]
    BY DEF Init
  <2> QED
    BY <1>1, <2>1, <2>2 DEF Init, TypeOK
<1>3. NoFutureLost
  BY <1>1, Members DEF Init, NoFutureLost
<1>4. Queued /\ WorkerInv
  BY Members DEF Init, Queued, WorkerInv
<1> QED
  BY <1>2, <1>3, <1>4 DEF EInv

LEMMA SubmitOK ==
  ASSUME EInv, NEW r \in Jobs, submit(r)
  PROVE  EInv'
<1> USE SeqTypes
<1>1. CASE stopping \/ Len(pending) >= capacity
  <2>1. TypeOK' /\ UNCHANGED <<pending, batch, worker, active, stopping, cancel_queued, joined>>
    BY <1>1 DEF submit, EInv, TypeOK
  <2>2. future' = [future EXCEPT ![r] = "refused"] /\ future[r] = "none"
    BY <1>1 DEF submit
  <2>3. Apart' /\ WorkerInv'
    BY <2>1 DEF EInv, Apart, WorkerInv
  <2>4. Queued'
    BY <2>1, <2>2 DEF EInv, TypeOK, Queued
  <2> QED
    BY <2>1, <2>2, <2>3, <2>4, Together DEF EInv, TypeOK, NoFutureLost
<1>2. CASE ~(stopping \/ Len(pending) >= capacity)
  <2>1. /\ future' = [future EXCEPT ![r] = "pending"] /\ future[r] = "none"
        /\ pending' = Append(pending, r) /\ worker' = Notified
        /\ UNCHANGED <<stopping, cancel_queued, batch, active, joined>>
    BY <1>2 DEF submit
  <2>2. r \notin Range(pending) /\ r \notin Range(batch)
    BY <2>1 DEF EInv, Queued
  <2>3. /\ pending' \in Seq(Jobs) /\ Len(pending') = Len(pending) + 1
        /\ Range(pending') = Range(pending) \cup {r} /\ IsInjective(pending')
    BY <2>1, <2>2, Appended DEF Apart
  <2>4. Len(pending') <= capacity
    BY <1>2, <2>3, BatchExecutorAssumption
  <2>5. TypeOK'
    BY <2>1, <2>3, <2>4 DEF EInv, TypeOK, Notified
  <2>6. Apart'
    BY <2>1, <2>2, <2>3 DEF Apart
  <2>7. Queued'
    BY <2>1, <2>3 DEF EInv, TypeOK, Queued
  <2>8. WorkerInv'
    BY <1>2, <2>1 DEF EInv, WorkerInv, Notified, TypeOK
  <2> QED
    BY <2>1, <2>3, <2>5, <2>6, <2>7, <2>8, Together DEF EInv, TypeOK, NoFutureLost, Notified
<1> QED
  BY <1>1, <1>2

LEMMA CancelOK ==
  ASSUME EInv, NEW r \in Jobs, Cancel(r)
  PROVE  EInv'
<1>1. /\ future' = [future EXCEPT ![r] = "cancelled"] /\ future[r] = "pending"
      /\ UNCHANGED <<pending, stopping, cancel_queued, batch, active, worker, joined>>
  BY DEF Cancel
<1>2. TypeOK' /\ WorkerInv' /\ Apart'
  BY <1>1, SeqTypes DEF EInv, TypeOK, WorkerInv, Apart
<1>3. Queued'
  BY <1>1, SeqTypes DEF EInv, TypeOK, Queued
<1> QED
  BY <1>1, <1>2, <1>3, Together DEF EInv, TypeOK, NoFutureLost

\* A step that only moves the thread, which has nothing in its hands.
LEMMA MovesOK ==
  ASSUME EInv, Sleep \/ Leave \/ Join
  PROVE  EInv'
<1>1. UNCHANGED <<pending, stopping, cancel_queued, batch, active, future>>
  BY DEF Sleep, Leave, Join
<1>2. TypeOK'
  BY DEF Sleep, Leave, Join, EInv, TypeOK
<1>3. WorkerInv'
  BY DEF Sleep, Leave, Join, EInv, WorkerInv
<1>4. Apart' /\ Queued'
  BY <1>1, SeqTypes DEF EInv, Apart, Queued
<1>5. worker' = "calling" <=> worker = "calling"
  BY DEF Sleep, Leave, Join
<1> QED
  BY <1>1, <1>2, <1>3, <1>4, <1>5, Together DEF EInv, NoFutureLost

LEMMA RoomType ==
  ASSUME EInv
  PROVE  /\ Room \in 0..Len(pending) /\ Len(batch) + Room <= batch_size
         /\ Room = Len(pending) \/ Len(batch) + Room = batch_size
<1>1. Len(batch) <= batch_size /\ batch_size \in Nat
  BY BatchExecutorAssumption DEF EInv, TypeOK
<1> QED
  BY <1>1, SeqTypes DEF Room

LEMMA TakeBatchOK ==
  ASSUME EInv, TakeBatch
  PROVE  EInv'
<1> DEFINE head == SubSeq(pending, 1, Room)
           tail == SubSeq(pending, Room + 1, Len(pending))
<1>1. /\ batch' = batch \o head /\ pending' = tail
      /\ UNCHANGED <<stopping, cancel_queued, active, future, joined>>
      /\ worker \in {"ready", "collecting"} /\ worker' \in {"collecting", "taken"}
  BY DEF TakeBatch
<1>2. /\ head \in Seq(Jobs) /\ tail \in Seq(Jobs)
      /\ Len(head) = Room /\ Len(tail) = Len(pending) - Room
      /\ Range(head) \cup Range(tail) = Range(pending)
      /\ IsInjective(head) /\ IsInjective(tail) /\ Range(head) \cap Range(tail) = {}
  BY SeqTypes, RoomType, Parts DEF Apart
<1> HIDE DEF head, tail
<1>3. /\ batch' \in Seq(Jobs) /\ Len(batch') = Len(batch) + Room
      /\ Range(batch') = Range(batch) \cup Range(head) /\ IsInjective(batch')
  <2>1. /\ batch \o head \in Seq(Jobs) /\ Len(batch \o head) = Len(batch) + Len(head)
        /\ Range(batch \o head) = Range(batch) \cup Range(head)
        /\ IsInjective(batch \o head) <=>
             IsInjective(batch) /\ IsInjective(head) /\ Range(batch) \cap Range(head) = {}
    BY <1>2, SeqTypes, Joined
  <2>2. Range(batch) \cap Range(head) = {}
    BY <1>2, SeqTypes DEF Apart
  <2> QED
    BY <1>1, <1>2, <2>1, <2>2, SeqTypes DEF Apart
<1>4. Apart' /\ Range(pending') \cup Range(batch') = Range(pending) \cup Range(batch)
  BY <1>1, <1>2, <1>3, SeqTypes DEF Apart
<1>5. Len(pending') <= capacity /\ Len(batch') <= batch_size
  BY <1>1, <1>2, <1>3, SeqTypes, RoomType, BatchExecutorAssumption DEF EInv, TypeOK
<1>6. TypeOK'
  BY <1>1, <1>2, <1>3, <1>5 DEF EInv, TypeOK
<1>7. Queued'
  BY <1>1, <1>4 DEF EInv, Queued
<1>8. pending = <<>> => pending' = <<>>
  BY <1>1, <1>2, SeqTypes, RoomType
<1>9. WorkerInv'
  BY <1>1, <1>8 DEF EInv, WorkerInv
<1> QED
  BY <1>1, <1>4, <1>6, <1>7, <1>9, Together DEF EInv, NoFutureLost

LEMMA ClaimOK ==
  ASSUME EInv, Claim
  PROVE  EInv'
<1>1. /\ worker = "taken" /\ batch' = <<>> /\ active = {}
      /\ UNCHANGED <<pending, stopping, cancel_queued, joined>>
      /\ worker' = IF active' = {} THEN "ready" ELSE "calling"
  BY DEF Claim, EInv, NoFutureLost
<1>2. /\ Range(batch') = {} /\ batch' \in Seq(Jobs) /\ Len(batch') = 0 /\ IsInjective(batch')
  BY <1>1, Members
<1>3. batch_size >= 0
  BY BatchExecutorAssumption
<1>4. Apart'
  BY <1>1, <1>2, SeqTypes DEF Apart
<1>5. WorkerInv'
  BY <1>1 DEF EInv, WorkerInv
<1>6. CASE cancel_queued
  <2>1. future' = CancelAll(batch) /\ active' = {} /\ pending = <<>>
    BY <1>6 DEF Claim, EInv, WorkerInv
  <2>2. \A j \in Jobs : future'[j] = IF j \in Range(batch) /\ future[j] = "pending" THEN "cancelled" ELSE future[j]
    BY <2>1 DEF CancelAll, StillPending
  <2>3. TypeOK'
    BY <1>1, <1>2, <1>3, <2>1 DEF EInv, TypeOK, CancelAll
  <2>4. Range(pending) = {}
    BY <2>1, Members
  <2>5. Queued'
    BY <1>1, <1>2, <2>4 DEF Queued
  <2> QED
    BY <1>1, <1>2, <1>4, <1>5, <2>1, <2>2, <2>3, <2>4, <2>5, Together DEF EInv, NoFutureLost
<1>7. CASE ~cancel_queued
  <2>1. /\ active' = {j \in Range(batch) : future[j] = "pending"}
        /\ future' = [j \in Jobs |-> IF j \in active' THEN "running" ELSE future[j]]
    BY <1>7 DEF Claim, StillPending
  <2>2. active' \subseteq Jobs /\ active' \cap Range(pending) = {}
    BY <2>1, SeqTypes DEF Apart
  <2>3. TypeOK'
    BY <1>1, <1>2, <1>3, <2>1, <2>2 DEF EInv, TypeOK
  <2>4. Queued'
    BY <1>1, <1>2, <2>1, <2>2, SeqTypes DEF EInv, Queued
  <2>5. \A j \in Jobs : future'[j] = "running" <=> j \in active'
    BY <1>1, <2>1 DEF EInv, NoFutureLost
  <2>6. \A j \in Jobs : future'[j] = "pending" => j \in Range(pending') \cup Range(batch')
    BY <1>1, <2>1 DEF EInv, NoFutureLost
  <2> QED
    BY <1>1, <1>4, <1>5, <2>3, <2>4, <2>5, <2>6, Together
<1> QED
  BY <1>6, <1>7

LEMMA EndBatchOK ==
  ASSUME EInv, ModelReturns \/ ModelFails \/ ModelDies
  PROVE  EInv'
<1>1. PICK end \in {"result", "failed", "fatal"} : EndBatch(end)
  BY DEF ModelReturns, ModelFails, ModelDies
<1>2. /\ worker = "calling" /\ active' = {} /\ worker' \in {"died", "ready"}
      /\ future' = [j \in Jobs |-> IF j \in active THEN end ELSE future[j]]
      /\ UNCHANGED <<pending, stopping, cancel_queued, batch, joined>>
  BY <1>1 DEF EndBatch
<1>3. batch = <<>>
  BY <1>2 DEF EInv, WorkerInv
<1>4. TypeOK' /\ WorkerInv' /\ Apart'
  BY <1>2, <1>3, SeqTypes DEF EInv, TypeOK, WorkerInv, Apart
<1>5. \A j \in Jobs : j \in active <=> future[j] = "running"
  BY DEF EInv, NoFutureLost
<1>6. Queued'
  BY <1>2, <1>5, SeqTypes DEF EInv, Queued
<1> QED
  BY <1>2, <1>4, <1>5, <1>6, Together DEF EInv, NoFutureLost

LEMMA ShutdownOK ==
  ASSUME EInv, NEW cancel_futures \in BOOLEAN, shutdown(cancel_futures)
  PROVE  EInv'
<1>1. /\ stopping' = TRUE /\ cancel_queued' = (cancel_queued \/ cancel_futures)
      /\ worker' = Notified /\ UNCHANGED <<batch, active, joined>>
  BY DEF shutdown
<1>2. worker' = "calling" <=> worker = "calling"
  BY <1>1 DEF Notified
<1>3. CASE cancel_futures
  <2>1. pending' = <<>> /\ future' = CancelAll(pending)
    BY <1>3 DEF shutdown
  <2>2. Range(pending') = {} /\ pending' \in Seq(Jobs) /\ Len(pending') = 0 /\ IsInjective(pending')
    BY <2>1, Members
  <2>3. \A j \in Jobs : future'[j] = IF j \in Range(pending) /\ future[j] = "pending" THEN "cancelled" ELSE future[j]
    BY <2>1 DEF CancelAll, StillPending
  <2>4. TypeOK'
    BY <1>1, <2>1, <2>2, BatchExecutorAssumption DEF EInv, TypeOK, CancelAll, Notified
  <2>5. Apart'
    BY <1>1, <2>2, SeqTypes DEF Apart
  <2>6. Queued'
    BY <1>1, <2>2, <2>3, SeqTypes DEF EInv, Queued
  <2>7. WorkerInv'
    BY <1>1, <2>1 DEF EInv, WorkerInv, Notified
  <2> QED
    BY <1>1, <1>2, <2>2, <2>3, <2>4, <2>5, <2>6, <2>7, Together DEF EInv, NoFutureLost
<1>4. CASE ~cancel_futures
  <2>1. UNCHANGED <<pending, future>>
    BY <1>4 DEF shutdown
  <2>2. TypeOK' /\ Apart' /\ Queued' /\ WorkerInv'
    BY <1>1, <1>4, <2>1, SeqTypes DEF EInv, TypeOK, Apart, Queued, WorkerInv, Notified
  <2> QED
    BY <1>1, <1>2, <2>1, <2>2, Together DEF EInv, NoFutureLost
<1> QED
  BY <1>3, <1>4

LEMMA ENextOK == EInv /\ [Next]_vars => EInv'
<1> SUFFICES ASSUME EInv, [Next]_vars PROVE EInv'
  OBVIOUS
<1>1. CASE UNCHANGED vars
  BY <1>1 DEF vars, EInv, TypeOK, NoFutureLost, Queued, WorkerInv
<1>2. CASE Next
  BY <1>2, SubmitOK, CancelOK, MovesOK, TakeBatchOK, ClaimOK, EndBatchOK, ShutdownOK DEF Next
<1> QED
  BY <1>1, <1>2

-----------------------------------------------------------------------------
(* The service.                                                            *)

\* Where the job of a request is while its task is at each place.
TaskInv ==
  \A r \in Jobs : /\ at[r] \in {"idle", "reading"} => future[r] = "none"
                  /\ at[r] = "waiting" => r \in Owned
                  /\ at[r] = "woken" => future[r] \in Done
                  /\ r \in posted => future[r] \in Done

\* lifespan: a model that is dropped has been shut down before, and queued work of a
\* service that shuts down has been cancelled.
LifeInv ==
  /\ stopping => cancel_queued /\ life # "ready"
  /\ life = "down" => joined

TaskTypes ==
  /\ at \in [Jobs -> {"idle", "reading", "waiting", "woken", "responding", "gone"}]
  /\ posted \subseteq Jobs
  /\ life \in {"ready", "leaving", "down"}

DoorExact == IsFiniteSet(Served) /\ inflight = Cardinality(Served) /\ inflight \in 0..max_http_inflight

SlotsExact == IsFiniteSet(Owned) /\ model_inflight = Cardinality(Owned) /\ model_inflight \in 0..capacity

\* The inductive invariant of the service.
SInv == EInv /\ TaskTypes /\ DoorExact /\ SlotsExact /\ TaskInv /\ LifeInv

LEMMA SInitOK == ServiceInit => SInv
<1> SUFFICES ASSUME ServiceInit PROVE SInv
  OBVIOUS
<1>1. EInv
  BY EInitOK DEF ServiceInit
<1>2. Served = {} /\ Owned = {}
  BY DEF ServiceInit, Init, Served, Owned
<1>3. DoorExact /\ SlotsExact
  BY <1>2, FS_EmptySet, BatchExecutorAssumption, NerServiceAssumption DEF ServiceInit, DoorExact, SlotsExact
<1>4. TaskTypes /\ TaskInv /\ LifeInv
  BY DEF ServiceInit, Init, TaskTypes, TaskInv, LifeInv
<1> QED
  BY <1>1, <1>3, <1>4 DEF SInv

\* Whatever a step of the service does to the executor is a step of the executor.
LEMMA IsExecutorStep == [ServiceNext]_allvars => [Next]_vars
<1> SUFFICES ASSUME [ServiceNext]_allvars PROVE [Next]_vars
  OBVIOUS
<1>1. CASE UNCHANGED allvars
  BY <1>1 DEF allvars
<1>2. ASSUME NEW r \in Jobs, Enter(r) \/ BodyRefused(r) \/ complete_model_job(r) \/ Resume(r) \/ Finish(r)
      PROVE  UNCHANGED vars
  BY <1>2 DEF Enter, BodyRefused, complete_model_job, Resume, Finish
<1>3. ASSUME NEW r \in Jobs, analyze(r) PROVE submit(r) \/ UNCHANGED vars
  BY <1>3 DEF analyze, run_model
<1>4. ASSUME NEW r \in Jobs, Abort(r) PROVE Cancel(r) \/ UNCHANGED vars
  BY <1>4 DEF Abort
<1>5. Worker => Next
  BY DEF Worker, Next
<1>6. StopServing => UNCHANGED vars
  BY DEF StopServing
<1>7. ShutdownPool => shutdown(TRUE)
  BY DEF ShutdownPool
<1>8. ReleaseModel => Next
  BY DEF ReleaseModel, Next
<1> QED
  BY <1>1, <1>2, <1>3, <1>4, <1>5, <1>6, <1>7, <1>8 DEF ServiceNext, Next

\* A step that submits nothing: futures of accepted jobs go on or end, others stay.
NoNewJob ==
  \A j \in Jobs : IF future[j] \in {"pending", "running"}
                  THEN future'[j] \in {"pending", "running"} \cup Done
                  ELSE future'[j] = future[j]

LEMMA NoNewJobOK ==
  ASSUME EInv,
         \/ UNCHANGED vars \/ Sleep \/ TakeBatch \/ Leave \/ Claim \/ Join
         \/ ModelReturns \/ ModelFails \/ ModelDies
         \/ \E c \in BOOLEAN : shutdown(c)
         \/ \E r \in Jobs : Cancel(r)
  PROVE  NoNewJob
<1> USE DEF NoNewJob, Done
<1>0. future \in [Jobs -> {"none", "refused", "pending", "cancelled", "running", "result", "failed", "fatal"}]
  BY DEF EInv, TypeOK
<1>1. CASE UNCHANGED vars \/ Sleep \/ TakeBatch \/ Leave \/ Join
  <2>1. future' = future
    BY <1>1 DEF vars, Sleep, TakeBatch, Leave, Join
  <2> QED
    BY <2>1, <1>0
<1>2. CASE Claim
  <2>1. CASE cancel_queued
    BY <1>0, <1>2, <2>1 DEF Claim, CancelAll, StillPending
  <2>2. CASE ~cancel_queued
    <3>1. active' = {j \in Range(batch) : future[j] = "pending"}
      BY <1>2, <2>2 DEF Claim, StillPending
    <3>2. future' = [j \in Jobs |-> IF j \in active' THEN "running" ELSE future[j]]
      BY <1>2, <2>2 DEF Claim
    <3> QED
      BY <3>1, <3>2, <1>0
  <2> QED
    BY <2>1, <2>2
<1>3. CASE ModelReturns \/ ModelFails \/ ModelDies
  <2>1. PICK end \in {"result", "failed", "fatal"} : EndBatch(end)
    BY <1>3 DEF ModelReturns, ModelFails, ModelDies
  <2>2. future' = [j \in Jobs |-> IF j \in active THEN end ELSE future[j]]
    BY <2>1 DEF EndBatch
  <2>3. \A j \in Jobs : future[j] = "running" <=> j \in active
    BY DEF EInv, NoFutureLost
  <2> QED
    BY <2>2, <2>3, <1>0
<1>4. CASE \E c \in BOOLEAN : shutdown(c)
  BY <1>0, <1>4 DEF shutdown, CancelAll, StillPending
<1>5. CASE \E r \in Jobs : Cancel(r)
  BY <1>0, <1>5 DEF Cancel
<1> QED
  BY <1>1, <1>2, <1>3, <1>4, <1>5

\* Such a step keeps every slot with its owner, since the ends of jobs are posted.
LEMMA SlotsStay ==
  ASSUME SInv, NoNewJob, Post(posted), UNCHANGED model_inflight
  PROVE  /\ SlotsExact' /\ Owned' = Owned /\ posted' \subseteq Jobs
         /\ \A j \in Jobs : j \in posted' => future'[j] \in Done
<1>1. posted' = posted \cup {j \in Jobs : future'[j] \in Done /\ future[j] \notin Done}
  BY DEF Post
<1>2. posted \subseteq Jobs /\ \A j \in posted : future[j] \in Done
  BY DEF SInv, TaskTypes, TaskInv
<1>3. \A j \in Jobs : future[j] \in Done => future'[j] = future[j]
  BY DEF NoNewJob, Done
<1>4. Owned' = Owned
  BY <1>1, <1>2, <1>3 DEF Owned, NoNewJob, Done
<1>5. \A j \in Jobs : j \in posted' => future'[j] \in Done
  BY <1>1, <1>2, <1>3
<1> QED
  BY <1>1, <1>2, <1>4, <1>5 DEF SInv, SlotsExact

\* What a step that does not touch the executor keeps.
LEMMA ExecutorStays ==
  ASSUME SInv, UNCHANGED vars
  PROVE  EInv' /\ future' = future
BY ENextOK DEF SInv, vars

\* A request leaves through the finally block of the boundary.
LEMMA LeavesOK ==
  ASSUME SInv, NEW r \in Jobs, r \in Served, Leaves(r)
  PROVE  /\ DoorExact'
         /\ at' \in [Jobs -> {"idle", "reading", "waiting", "woken", "responding", "gone"}]
         /\ at'[r] = "gone" /\ \A q \in Jobs \ {r} : at'[q] = at[q]
<1>1. /\ at' = [at EXCEPT ![r] = "gone"] /\ inflight' = inflight - 1
      /\ at \in [Jobs -> {"idle", "reading", "waiting", "woken", "responding", "gone"}]
  BY DEF Leaves, SInv, TaskTypes
<1>2. Served' = Served \ {r}
  BY <1>1 DEF Served
<1>3. /\ IsFiniteSet(Served') /\ Cardinality(Served') = Cardinality(Served) - 1
      /\ Cardinality(Served') \in Nat
  BY <1>2, FS_RemoveElement, FS_CardinalityType DEF SInv, DoorExact
<1> QED
  BY <1>1, <1>3, NerServiceAssumption DEF SInv, DoorExact

\* A request moves on within the service.
LEMMA DoorStays ==
  ASSUME SInv, UNCHANGED inflight, NEW r \in Jobs, r \in Served,
         NEW place \in {"reading", "waiting", "woken", "responding"},
         at' = [at EXCEPT ![r] = place]
  PROVE  /\ DoorExact'
         /\ at' \in [Jobs -> {"idle", "reading", "waiting", "woken", "responding", "gone"}]
         /\ at'[r] = place /\ \A q \in Jobs \ {r} : at'[q] = at[q]
<1>1. at \in [Jobs -> {"idle", "reading", "waiting", "woken", "responding", "gone"}]
  BY DEF SInv, TaskTypes
<1>2. Served' = Served
  BY <1>1 DEF Served
<1> QED
  BY <1>1, <1>2 DEF SInv, DoorExact

LEMMA EnterOK ==
  ASSUME SInv, NEW r \in Jobs, Enter(r)
  PROVE  SInv'
<1>1. at[r] = "idle" /\ UNCHANGED <<vars, model_inflight, posted, life>>
  BY DEF Enter
<1>2. at \in [Jobs -> {"idle", "reading", "waiting", "woken", "responding", "gone"}]
  BY DEF SInv, TaskTypes
<1>3. EInv' /\ future' = future
  BY <1>1, ExecutorStays
<1>4. Owned' = Owned
  BY <1>1, <1>3 DEF Owned
<1>5. SlotsExact' /\ LifeInv'
  BY <1>1, <1>4 DEF SInv, SlotsExact, LifeInv, vars
<1>6. PICK place \in {"gone", "responding", "reading"} : at' = [at EXCEPT ![r] = place]
  BY DEF Enter, Reply
<1>7. TaskTypes' /\ TaskInv'
  BY <1>1, <1>2, <1>3, <1>4, <1>6 DEF SInv, TaskTypes, TaskInv
<1>8. DoorExact'
  <2>1. CASE place = "gone"
    <3>1. inflight' = inflight
      BY <1>2, <1>6, <2>1 DEF Enter, Reply
    <3>2. Served' = Served
      BY <1>1, <1>2, <1>6, <2>1 DEF Served
    <3> QED
      BY <3>1, <3>2 DEF SInv, DoorExact
  <2>2. CASE place # "gone"
    <3>1. inflight < max_http_inflight /\ inflight' = inflight + 1
      BY <1>2, <1>6, <2>2 DEF Enter, Reply
    <3>2. Served' = Served \cup {r} /\ r \notin Served
      BY <1>1, <1>2, <1>6, <2>2 DEF Served
    <3>3. IsFiniteSet(Served') /\ Cardinality(Served') = Cardinality(Served) + 1
      BY <3>2, FS_AddElement DEF SInv, DoorExact
    <3> QED
      BY <3>1, <3>3, NerServiceAssumption DEF SInv, DoorExact
  <2> QED
    BY <2>1, <2>2
<1> QED
  BY <1>3, <1>5, <1>7, <1>8 DEF SInv

LEMMA BodyRefusedOK ==
  ASSUME SInv, NEW r \in Jobs, BodyRefused(r)
  PROVE  SInv'
<1>1. /\ at[r] = "reading" /\ at' = [at EXCEPT ![r] = "responding"]
      /\ UNCHANGED <<vars, inflight, model_inflight, posted, life>>
  BY DEF BodyRefused, Reply
<1>2. EInv' /\ future' = future
  BY <1>1, ExecutorStays
<1>3. Owned' = Owned
  BY <1>1, <1>2 DEF Owned
<1>4. /\ DoorExact' /\ at' \in [Jobs -> {"idle", "reading", "waiting", "woken", "responding", "gone"}]
      /\ at'[r] = "responding" /\ \A q \in Jobs \ {r} : at'[q] = at[q]
  BY <1>1, DoorStays DEF Served
<1> QED
  BY <1>1, <1>2, <1>3, <1>4 DEF SInv, TaskTypes, SlotsExact, TaskInv, LifeInv, vars

LEMMA AnalyzeOK ==
  ASSUME SInv, NEW r \in Jobs, analyze(r)
  PROVE  SInv'
<1>1. at[r] = "reading" /\ UNCHANGED <<inflight, posted, life>>
  BY DEF analyze
<1>2. CASE Reply(r) /\ UNCHANGED <<vars, model_inflight>>
  <2>1. BodyRefused(r)
    BY <1>1, <1>2 DEF BodyRefused
  <2> QED
    BY <2>1, BodyRefusedOK
<1>3. CASE life = "ready" /\ model_inflight < capacity /\ run_model(r)
  <2>1. submit(r) /\ future[r] = "none" /\ UNCHANGED <<stopping, cancel_queued, joined>>
    BY <1>3 DEF run_model, submit
  <2>2. EInv'
    BY <2>1, SubmitOK DEF SInv
  <2>3. LifeInv'
    BY <1>1, <2>1 DEF SInv, LifeInv
  <2>4. r \notin Owned /\ r \in Served /\ r \notin posted
    BY <1>1, <2>1 DEF SInv, TaskInv, Owned, Done, Served
  <2>5. future \in [Jobs -> {"none", "refused", "pending", "cancelled", "running", "result", "failed", "fatal"}]
    BY DEF SInv, EInv, TypeOK
  <2>6. CASE future'[r] = "refused"
    <3>1. future' = [future EXCEPT ![r] = "refused"]
      BY <2>1, <2>5, <2>6 DEF submit
    <3>2. at' = [at EXCEPT ![r] = "responding"] /\ UNCHANGED model_inflight
      BY <1>3, <2>6 DEF run_model, Reply
    <3>3. /\ DoorExact' /\ at' \in [Jobs -> {"idle", "reading", "waiting", "woken", "responding", "gone"}]
          /\ at'[r] = "responding" /\ \A q \in Jobs \ {r} : at'[q] = at[q]
      BY <1>1, <2>4, <3>2, DoorStays
    <3>4. Owned' = Owned
      BY <1>1, <2>1, <2>5, <3>1 DEF Owned
    <3>5. SlotsExact'
      BY <3>2, <3>4 DEF SInv, SlotsExact
    <3>6. TaskTypes' /\ TaskInv'
      BY <1>1, <2>4, <2>5, <3>1, <3>3, <3>4 DEF SInv, TaskTypes, TaskInv
    <3> QED
      BY <2>2, <2>3, <3>3, <3>5, <3>6 DEF SInv
  <2>7. CASE future'[r] # "refused"
    <3>1. future' = [future EXCEPT ![r] = "pending"]
      BY <2>1, <2>5, <2>7 DEF submit
    <3>2. at' = [at EXCEPT ![r] = "waiting"] /\ model_inflight' = model_inflight + 1
      BY <1>3, <2>7 DEF run_model
    <3>3. /\ DoorExact' /\ at' \in [Jobs -> {"idle", "reading", "waiting", "woken", "responding", "gone"}]
          /\ at'[r] = "waiting" /\ \A q \in Jobs \ {r} : at'[q] = at[q]
      BY <1>1, <2>4, <3>2, DoorStays
    <3>4. Owned' = Owned \cup {r}
      BY <1>1, <2>1, <2>5, <3>1 DEF Owned
    <3>5. IsFiniteSet(Owned') /\ Cardinality(Owned') = Cardinality(Owned) + 1
      BY <2>4, <3>4, FS_AddElement DEF SInv, SlotsExact
    <3>6. SlotsExact'
      BY <1>3, <3>2, <3>5, BatchExecutorAssumption DEF SInv, SlotsExact
    <3>7. TaskTypes' /\ TaskInv'
      BY <1>1, <2>4, <2>5, <3>1, <3>3, <3>4 DEF SInv, TaskTypes, TaskInv
    <3> QED
      BY <2>2, <2>3, <3>3, <3>6, <3>7 DEF SInv
  <2> QED
    BY <2>6, <2>7
<1> QED
  BY <1>2, <1>3 DEF analyze

LEMMA CompleteOK ==
  ASSUME SInv, NEW r \in Jobs, complete_model_job(r)
  PROVE  SInv'
<1>1. /\ r \in posted /\ posted' = posted \ {r} /\ model_inflight' = model_inflight - 1
      /\ at' = [at EXCEPT ![r] = IF @ = "waiting" THEN "woken" ELSE @]
      /\ UNCHANGED <<vars, inflight, life>>
  BY DEF complete_model_job
<1>2. EInv' /\ future' = future
  BY <1>1, ExecutorStays
<1>3. future[r] \in Done /\ at \in [Jobs -> {"idle", "reading", "waiting", "woken", "responding", "gone"}]
  BY <1>1 DEF SInv, TaskInv, TaskTypes
<1>4. Owned' = Owned \ {r} /\ r \in Owned
  BY <1>1, <1>2, <1>3 DEF Owned, Done
<1>5. /\ IsFiniteSet(Owned') /\ Cardinality(Owned') = Cardinality(Owned) - 1
      /\ Cardinality(Owned') \in Nat
  BY <1>4, FS_RemoveElement, FS_CardinalityType DEF SInv, SlotsExact
<1>6. SlotsExact'
  BY <1>1, <1>5, BatchExecutorAssumption DEF SInv, SlotsExact
<1>7. Served' = Served
  BY <1>1, <1>3 DEF Served
<1>8. DoorExact' /\ LifeInv'
  BY <1>1, <1>7 DEF SInv, DoorExact, LifeInv, vars
<1>9. TaskTypes' /\ TaskInv'
  BY <1>1, <1>2, <1>3, <1>4 DEF SInv, TaskTypes, TaskInv
<1> QED
  BY <1>2, <1>6, <1>8, <1>9 DEF SInv

LEMMA ResumeFinishOK ==
  ASSUME SInv, NEW r \in Jobs, Resume(r) \/ Finish(r)
  PROVE  SInv'
<1>1. at[r] \in {"woken", "responding"} /\ UNCHANGED <<vars, model_inflight, posted, life>>
  BY DEF Resume, Finish
<1>2. EInv' /\ future' = future
  BY <1>1, ExecutorStays
<1>3. Owned' = Owned
  BY <1>1, <1>2 DEF Owned
<1>4. SlotsExact' /\ LifeInv'
  BY <1>1, <1>3 DEF SInv, SlotsExact, LifeInv, vars
<1>5. PICK place \in {"gone", "responding"} :
        /\ DoorExact' /\ at' \in [Jobs -> {"idle", "reading", "waiting", "woken", "responding", "gone"}]
        /\ at'[r] = place /\ \A q \in Jobs \ {r} : at'[q] = at[q]
  <2>1. r \in Served
    BY <1>1 DEF Served
  <2>2. CASE Leaves(r)
    BY <2>1, <2>2, LeavesOK
  <2>3. CASE Reply(r) /\ UNCHANGED inflight
    <3>1. at' = [at EXCEPT ![r] = "responding"]
      BY <2>3 DEF Reply
    <3> QED
      BY <2>1, <2>3, <3>1, DoorStays
  <2> QED
    BY <2>2, <2>3 DEF Resume, Finish
<1>6. TaskTypes' /\ TaskInv'
  BY <1>1, <1>2, <1>3, <1>5 DEF SInv, TaskTypes, TaskInv
<1> QED
  BY <1>2, <1>4, <1>5, <1>6 DEF SInv

LEMMA AbortOK ==
  ASSUME SInv, NEW r \in Jobs, Abort(r)
  PROVE  SInv'
<1>1. /\ at[r] \in {"reading", "waiting", "woken", "responding"} /\ Leaves(r) /\ Post(posted)
      /\ (Cancel(r) \/ UNCHANGED vars) /\ UNCHANGED <<model_inflight, life>>
  BY DEF Abort
<1>2. NoNewJob
  BY <1>1, NoNewJobOK DEF SInv
<1>3. EInv'
  BY <1>1, CancelOK, ExecutorStays DEF SInv
<1>4. /\ SlotsExact' /\ Owned' = Owned /\ posted' \subseteq Jobs
      /\ \A j \in Jobs : j \in posted' => future'[j] \in Done
  BY <1>1, <1>2, SlotsStay
<1>5. /\ DoorExact' /\ at' \in [Jobs -> {"idle", "reading", "waiting", "woken", "responding", "gone"}]
      /\ at'[r] = "gone" /\ \A q \in Jobs \ {r} : at'[q] = at[q]
  BY <1>1, LeavesOK DEF Served
<1>6. TaskTypes' /\ TaskInv'
  BY <1>1, <1>2, <1>4, <1>5 DEF SInv, TaskTypes, TaskInv, NoNewJob, Done
<1>7. LifeInv'
  BY <1>1 DEF SInv, LifeInv, Cancel, vars
<1> QED
  BY <1>3, <1>4, <1>5, <1>6, <1>7 DEF SInv

\* The thread, and a shutdown that cancels what is queued.
LEMMA ThreadOK ==
  ASSUME SInv, Worker \/ ShutdownPool
  PROVE  SInv'
<1>1. Post(posted) /\ UNCHANGED <<inflight, model_inflight, at, life>>
  BY DEF Worker, ShutdownPool
<1>2. NoNewJob
  BY NoNewJobOK DEF SInv, Worker, ShutdownPool
<1>3. EInv'
  BY MovesOK, TakeBatchOK, ClaimOK, EndBatchOK, ShutdownOK DEF SInv, Worker, ShutdownPool
<1>4. /\ SlotsExact' /\ Owned' = Owned /\ posted' \subseteq Jobs
      /\ \A j \in Jobs : j \in posted' => future'[j] \in Done
  BY <1>1, <1>2, SlotsStay
<1>5. Served' = Served
  BY <1>1 DEF Served
<1>6. DoorExact' /\ TaskTypes'
  BY <1>1, <1>4, <1>5 DEF SInv, DoorExact, TaskTypes
<1>7. TaskInv'
  BY <1>1, <1>2, <1>4 DEF SInv, TaskInv, NoNewJob, Done
<1>8. LifeInv'
  <2>1. CASE Worker
    BY <2>1, <1>1 DEF SInv, LifeInv, Worker, Sleep, TakeBatch, Leave, Claim, ModelReturns, ModelFails,
                      ModelDies, EndBatch
  <2>2. CASE ShutdownPool
    BY <2>2, <1>1 DEF SInv, LifeInv, ShutdownPool, shutdown
  <2> QED
    BY <2>1, <2>2
<1> QED
  BY <1>3, <1>4, <1>6, <1>7, <1>8 DEF SInv

LEMMA LifeOK ==
  ASSUME SInv, StopServing \/ ReleaseModel
  PROVE  SInv'
<1>1. UNCHANGED <<inflight, model_inflight, at, posted>> /\ (Join \/ UNCHANGED vars)
  BY DEF StopServing, ReleaseModel
<1>2. EInv'
  BY <1>1, MovesOK, ExecutorStays DEF SInv
<1>3. future' = future
  BY <1>1 DEF Join, vars
<1>4. Served' = Served /\ Owned' = Owned
  BY <1>1, <1>3 DEF Served, Owned
<1>5. DoorExact' /\ SlotsExact'
  BY <1>1, <1>4 DEF SInv, DoorExact, SlotsExact
<1>6. TaskTypes' /\ TaskInv' /\ LifeInv'
  BY <1>1, <1>3, <1>4 DEF SInv, TaskTypes, TaskInv, LifeInv, StopServing, ReleaseModel, Join, vars
<1> QED
  BY <1>2, <1>5, <1>6 DEF SInv

LEMMA SNextOK == SInv /\ [ServiceNext]_allvars => SInv'
<1> SUFFICES ASSUME SInv, [ServiceNext]_allvars PROVE SInv'
  OBVIOUS
<1>1. CASE UNCHANGED allvars
  <2>1. UNCHANGED <<vars, inflight, model_inflight, at, posted, life>>
    BY <1>1 DEF allvars, service
  <2>2. EInv' /\ future' = future
    BY <2>1, ExecutorStays
  <2>3. Served' = Served /\ Owned' = Owned
    BY <2>1, <2>2 DEF Served, Owned
  <2> QED
    BY <2>1, <2>2, <2>3 DEF SInv, DoorExact, SlotsExact, TaskTypes, TaskInv, LifeInv, vars
<1>2. CASE ServiceNext
  BY <1>2, EnterOK, BodyRefusedOK, AnalyzeOK, CompleteOK, ResumeFinishOK, AbortOK, ThreadOK, LifeOK
     DEF ServiceNext
<1> QED
  BY <1>1, <1>2

-----------------------------------------------------------------------------
(* What the service promises.                                              *)

\* The inductive invariant gives every part of ServiceSafe.
LEMMA SafeFromInv == SInv => ServiceSafe
<1> SUFFICES ASSUME SInv PROVE ServiceSafe
  OBVIOUS
<1>1. TypeOK /\ NoFutureLost
  BY DEF SInv, EInv
<1>2. ServiceTypeOK /\ CapacityExact
  BY DEF SInv, TaskTypes, DoorExact, SlotsExact, ServiceTypeOK, CapacityExact
<1>3. joined => batch = <<>> /\ active = {}
  BY DEF SInv, EInv, NoFutureLost, WorkerInv
<1>4. joined /\ (cancel_queued \/ worker = "ended") => pending = <<>>
  BY DEF SInv, EInv, WorkerInv
<1>5. joined /\ (cancel_queued \/ worker = "ended") =>
        \A j \in Jobs : future[j] \notin {"pending", "running"}
  <2>1. \A j \in Jobs : future[j] = "pending" => j \in Range(pending) \cup Range(batch)
    BY <1>1 DEF NoFutureLost
  <2>2. \A j \in Jobs : future[j] = "running" => j \in active
    BY <1>1 DEF NoFutureLost
  <2> QED
    BY <1>3, <1>4, <2>1, <2>2, Members
<1>6. NobodyLeftWaiting
  BY <1>1, <1>5 DEF NobodyLeftWaiting, TypeOK, Ended
<1>7. ModelOutlivesItsJobs
  <2> SUFFICES ASSUME life = "down", NEW r \in Jobs
               PROVE  /\ future[r] \notin {"pending", "running"}
                      /\ at[r] = "waiting" => r \in posted
    BY DEF ModelOutlivesItsJobs
  <2>1. joined /\ stopping /\ cancel_queued
    BY DEF SInv, LifeInv, EInv, WorkerInv
  <2>2. future[r] \notin {"pending", "running"}
    BY <2>1, <1>5
  <2>3. at[r] = "waiting" => r \in Owned
    BY DEF SInv, TaskInv
  <2> QED
    BY <2>2, <2>3 DEF Owned
<1> QED
  BY <1>1, <1>2, <1>6, <1>7 DEF ServiceSafe

\* Both counters are exact on every way out, no future is lost between the queue, the
\* batch and the model, and nobody is left waiting when the model is dropped: _run_model,
\* _complete_model_job, BatchExecutor and lifespan, for any number of requests.
THEOREM ServiceKeepsSafe == ServiceSpec => []ServiceSafe
<1>1. ServiceInit => SInv
  BY SInitOK
<1>2. SInv /\ [ServiceNext]_allvars => SInv'
  BY SNextOK
<1>3. SInv => ServiceSafe
  BY SafeFromInv
<1> QED
  BY <1>1, <1>2, <1>3, PTL DEF ServiceSpec

\* A step of the executor leaves a future that has ended as it is.
LEMMA EndedStays ==
  ASSUME EInv, [Next]_vars
  PROVE  \A j \in Jobs : future[j] \in Ended => future'[j] = future[j]
<1>1. CASE \E r \in Jobs : submit(r)
  <2>1. PICK r \in Jobs : submit(r)
    BY <1>1
  <2>2. future[r] = "none" /\ \A j \in Jobs \ {r} : future'[j] = future[j]
    BY <2>1 DEF submit, EInv, TypeOK
  <2> QED
    BY <2>2 DEF Ended
<1>2. CASE ~(\E r \in Jobs : submit(r))
  <2>1. NoNewJob
    BY <1>2, NoNewJobOK DEF Next
  <2> QED
    BY <2>1 DEF NoNewJob, Ended
<1> QED
  BY <1>1, <1>2

\* A queue that is full of jobs that still wait leaves no slot of the service free.
LEMMA FullOfTheLiving ==
  ASSUME SInv, \A i \in 1..Len(pending) : future[pending[i]] # "cancelled"
  PROVE  Len(pending) <= model_inflight
<1>1. /\ pending \in Seq(Jobs) /\ Len(pending) \in Nat /\ Range(pending) \subseteq Jobs
      /\ IsInjective(pending)
  BY SeqTypes DEF SInv, Apart
<1>2. DOMAIN pending = 1..Len(pending)
  BY <1>1
<1>3. Range(pending) \subseteq Owned
  <2> SUFFICES ASSUME NEW i \in 1..Len(pending) PROVE pending[i] \in Owned
    BY <1>2 DEF Range
  <2>1. pending[i] \in Range(pending) /\ pending[i] \in Jobs
    BY <1>1, Members
  <2>2. future[pending[i]] \in {"pending", "cancelled"}
    BY <2>1 DEF SInv, EInv, Queued
  <2> QED
    BY <2>1, <2>2 DEF Owned
<1>4. /\ IsFiniteSet(Range(pending)) /\ Cardinality(Range(pending)) <= Cardinality(Owned)
  BY <1>3, FS_Subset DEF SInv, SlotsExact
<1>5. Cardinality(Range(pending)) = Len(pending)
  <2>1. IsFiniteSet(1..Len(pending)) /\ Cardinality(1..Len(pending)) = Len(pending)
    <3>1. \A n \in Nat : IsFiniteSet(1..n) /\ Cardinality(1..n) = IF 1 > n THEN 0 ELSE n - 1 + 1
      BY FS_Interval
    <3> QED
      BY <1>1, <3>1
  <2>2. ExistsBijection(1..Len(pending), Range(pending))
    <3>1. pending \in [1..Len(pending) -> Range(pending)]
      BY <1>1, <1>2 DEF Range
    <3>2. pending \in Injection(1..Len(pending), Range(pending))
      BY <1>1, <1>2, <3>1 DEF IsInjective, Injection
    <3>3. pending \in Surjection(1..Len(pending), Range(pending))
      BY <1>2, <3>1 DEF Surjection, Range
    <3> QED
      BY <3>2, <3>3 DEF ExistsBijection, Bijection
  <2> QED
    BY <2>1, <2>2, <1>4, FS_Bijection
<1> QED
  BY <1>1, <1>4, <1>5, FS_CardinalityType DEF SInv, SlotsExact

\* The only step that refuses a text is a submit to which a slot was free.
LEMMA RefusedStep ==
  ASSUME SInv, [ServiceNext]_allvars, NEW r \in Jobs,
         future[r] = "none", future'[r] = "refused", ~stopping
  PROVE  \E i \in 1..Len(pending) : future[pending[i]] = "cancelled"
<1>1. EInv /\ [Next]_vars
  BY IsExecutorStep DEF SInv
<1>2. ~NoNewJob
  BY DEF NoNewJob
<1>3. PICK q \in Jobs : analyze(q) /\ submit(q) /\ model_inflight < capacity
  <2>1. ServiceNext
    BY <1>1, <1>2, NoNewJobOK DEF allvars
  <2>2. ASSUME NEW q \in Jobs, Enter(q) \/ BodyRefused(q) \/ complete_model_job(q) \/ Resume(q) \/ Finish(q)
        PROVE  UNCHANGED vars
    BY <2>2 DEF Enter, BodyRefused, complete_model_job, Resume, Finish
  <2>3. ASSUME NEW q \in Jobs, analyze(q)
        PROVE  UNCHANGED vars \/ (submit(q) /\ model_inflight < capacity)
    BY <2>3 DEF analyze, run_model
  <2>4. ASSUME NEW q \in Jobs, Abort(q) PROVE Cancel(q) \/ UNCHANGED vars
    BY <2>4 DEF Abort
  <2>5. Worker => Sleep \/ TakeBatch \/ Leave \/ Claim \/ ModelReturns \/ ModelFails \/ ModelDies
    BY DEF Worker
  <2>6. /\ StopServing => UNCHANGED vars
        /\ ShutdownPool => shutdown(TRUE)
        /\ ReleaseModel => Join
    BY DEF StopServing, ShutdownPool, ReleaseModel
  <2> QED
    BY <1>1, <1>2, <2>1, <2>2, <2>3, <2>4, <2>5, <2>6, NoNewJobOK DEF ServiceNext
<1>4. q = r
  BY <1>3 DEF submit, SInv, EInv, TypeOK
<1>5. Len(pending) >= capacity
  BY <1>1, <1>3, <1>4 DEF submit, EInv, TypeOK
<1> SUFFICES ASSUME \A i \in 1..Len(pending) : future[pending[i]] # "cancelled" PROVE FALSE
  OBVIOUS
<1>6. Len(pending) <= model_inflight
  BY FullOfTheLiving
<1>7. Len(pending) \in Nat /\ model_inflight \in Nat /\ capacity \in Nat
  BY <1>1, SeqTypes, BatchExecutorAssumption DEF SInv, SlotsExact
<1> QED
  BY <1>3, <1>5, <1>6, <1>7

\* No step of the service ends a future twice, which would raise in the thread, and an
\* admitted text is refused only behind cancelled jobs that still fill the queue
\* (BatchExecutor.submit called by _run_model) or by a shutdown.
THEOREM ServiceStepsSafe == ServiceSpec => ServiceSteps
<1>1. ServiceInit => SInv
  BY SInitOK
<1>2. SInv /\ [ServiceNext]_allvars => SInv'
  BY SNextOK
<1>3. SInv /\ [ServiceNext]_allvars => [\A j \in Jobs : future[j] \in Ended => future'[j] = future[j]]_vars
  BY IsExecutorStep, EndedStays DEF SInv
<1>4. SInv /\ [ServiceNext]_allvars =>
        [\A r \in Jobs : future[r] = "none" /\ future'[r] = "refused" /\ ~stopping
           => \E i \in 1..Len(pending) : future[pending[i]] = "cancelled"]_allvars
  BY RefusedStep
<1> QED
  BY <1>1, <1>2, <1>3, <1>4, PTL DEF ServiceSpec, ServiceSteps, EndsOnce, RefusedBehindTheDead

\* The executor within the service does what it does on its own: every behaviour of the
\* service is one of BatchExecutor's steps.
THEOREM ServiceRunsTheExecutor == ServiceSpec => Init /\ [][Next]_vars
<1>1. ServiceInit => Init
  BY DEF ServiceInit
<1>2. [ServiceNext]_allvars => [Next]_vars
  BY IsExecutorStep
<1> QED
  BY <1>1, <1>2, PTL DEF ServiceSpec

\* BatchExecutor on its own, whoever calls it and however it is shut down: no future is
\* lost, and a shutdown that waited and cancelled leaves no caller waiting.
THEOREM ExecutorLosesNothing == Spec => [](NoFutureLost /\ NobodyLeftWaiting)
<1>1. Init => EInv
  BY EInitOK
<1>2. EInv /\ [Next]_vars => EInv'
  BY ENextOK
<1>3. EInv => NoFutureLost
  BY DEF EInv
<1>4. EInv => NobodyLeftWaiting
  <2> SUFFICES ASSUME EInv, joined, cancel_queued \/ worker = "ended", NEW j \in Jobs
               PROVE  future[j] \in Ended \cup {"none"}
    BY DEF NobodyLeftWaiting
  <2>1. batch = <<>> /\ active = {} /\ pending = <<>>
    BY DEF EInv, NoFutureLost, WorkerInv
  <2>2. future[j] \notin {"pending", "running"}
    BY <2>1, Members DEF EInv, NoFutureLost
  <2> QED
    BY <2>2 DEF EInv, TypeOK, Ended
<1> QED
  BY <1>1, <1>2, <1>3, <1>4, PTL DEF Spec
=============================================================================
