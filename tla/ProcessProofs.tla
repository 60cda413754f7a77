----------------------------- MODULE ProcessProofs -----------------------------
(***************************************************************************)
(* Proofs about what runs beside the request path in the gateway's         *)
(* process: the client of the NER service, the configuration with          *)
(* authorize and its limiters, and the recorder of requests; and about the *)
(* capture session, which adds up its records in the same way.  Each part  *)
(* has its inductive invariant and lemmas for its actions; the part's      *)
(* safety property follows for all values of its constants.                *)
(***************************************************************************)
EXTENDS NerClient, RequestCapture, Access, CaptureSession, FiniteSetTheorems,
        NaturalsInduction, WellFoundedInduction, SequenceTheorems, TLAPS

-----------------------------------------------------------------------------
(* NER client.                                                             *)

\* Before its group a call has sent whole groups, and their spans are in the result; the
\* group is what comes next in the text.
CallHeld(c) ==
  /\ result[c] = [i \in 1..base[c] |-> i]
  /\ phase[c] = "idle" => base[c] = 0 /\ \A i \in Slots : task[c][i] = "none"
  /\ phase[c] \in {"running", "failing", "cancelling"} =>
       \A i \in Slots : task[c][i] = "none" <=> base[c] + i > size[c]
  /\ phase[c] \in {"ok", "failed", "cancelled"} => \A i \in Slots : task[c][i] \notin Active
  /\ phase[c] = "ok" => base[c] = size[c]
  /\ \A i \in Slots : task[c][i] = "sleeping" => attempt[c][i] < Attempts

ClientInv ==
  /\ ClientTypeOK /\ base \in [Calls -> Nat] /\ result \in [Calls -> Seq(Nat)]
  /\ PlacesExact /\ \A c \in Calls : CallHeld(c)

Statuses == Active \cup {"none", "done", "failed", "cancelled"}

LEMMA SlotsFinite == Slots \subseteq Nat \ {0} /\ IsFiniteSet(Slots) /\ IsFiniteSet(Calls \X Slots)
<1>1. IsFiniteSet(Slots)
  BY NerClientAssumption, FS_Interval DEF Slots
<1>2. QED  BY <1>1, NerClientAssumption, FS_Product DEF Slots

LEMMA HoldersFinite == IsFiniteSet(Holders) /\ Cardinality(Holders) \in Nat
<1>1. Holders \subseteq Calls \X Slots
  BY DEF Holders
<1>2. IsFiniteSet(Holders)
  BY <1>1, SlotsFinite, FS_Subset
<1>3. QED  BY <1>2, FS_CardinalityType

\* One task changes: what that means for the semaphore.
LEMMA TaskSet ==
  ASSUME ClientTypeOK, NEW c \in Calls, NEW i \in Slots, NEW to \in Statuses, SetTask(c, i, to)
  PROVE  /\ task' \in [Calls -> [Slots -> Statuses]] /\ task'[c][i] = to
         /\ \A d \in Calls, j \in Slots : d # c \/ j # i => task'[d][j] = task[d][j]
         /\ task[c][i] \notin Holding /\ to \in Holding => Cardinality(Holders') = Cardinality(Holders) + 1
         /\ task[c][i] \in Holding /\ to \notin Holding => Cardinality(Holders') = Cardinality(Holders) - 1
         /\ (task[c][i] \in Holding <=> to \in Holding) => Holders' = Holders
<1>1. task \in [Calls -> [Slots -> Statuses]] /\ task' = [task EXCEPT ![c][i] = to]
  BY DEF ClientTypeOK, Statuses, SetTask
<1>2. /\ task' \in [Calls -> [Slots -> Statuses]] /\ task'[c][i] = to
      /\ \A d \in Calls, j \in Slots : d # c \/ j # i => task'[d][j] = task[d][j]
  BY <1>1
<1>3. <<c, i>> \in Calls \X Slots /\ <<c, i>>[1] = c /\ <<c, i>>[2] = i
  OBVIOUS
<1>4. \A h \in Calls \X Slots : h # <<c, i>> => task'[h[1]][h[2]] = task[h[1]][h[2]]
  BY <1>2
<1>5. ASSUME task[c][i] \notin Holding, to \in Holding
      PROVE Cardinality(Holders') = Cardinality(Holders) + 1
  <2>1. Holders' = Holders \cup {<<c, i>>} /\ <<c, i>> \notin Holders
    BY <1>2, <1>3, <1>4, <1>5 DEF Holders
  <2>2. QED  BY <2>1, HoldersFinite, FS_AddElement
<1>6. ASSUME task[c][i] \in Holding, to \notin Holding
      PROVE Cardinality(Holders') = Cardinality(Holders) - 1
  <2>1. Holders' = Holders \ {<<c, i>>} /\ <<c, i>> \in Holders
    BY <1>2, <1>3, <1>4, <1>6 DEF Holders
  <2>2. QED  BY <2>1, HoldersFinite, FS_RemoveElement
<1>7. ASSUME task[c][i] \in Holding <=> to \in Holding PROVE Holders' = Holders
  BY <1>2, <1>3, <1>4, <1>7 DEF Holders
<1>8. QED  BY <1>2, <1>5, <1>6, <1>7

\* The steps of one chunk's task, but for what they do to the semaphore.
LEMMA ChunkHeld ==
  ASSUME ClientInv, NEW c \in Calls, NEW i \in Slots, NEW to \in Statuses \ {"none"}, SetTask(c, i, to),
         phase[c] \in {"running", "failing", "cancelling"}, task[c][i] # "none",
         attempt' \in [Calls -> [Slots -> 0..Attempts]],
         \A d \in Calls, j \in Slots : d # c \/ j # i => attempt'[d][j] = attempt[d][j],
         to = "sleeping" => attempt'[c][i] < Attempts,
         UNCHANGED <<phase, size, base, result>>, free' \in 0..max_concurrency
  PROVE  ClientTypeOK' /\ \A d \in Calls : CallHeld(d)'
<1>1. ClientTypeOK
  BY DEF ClientInv
<1>2. /\ task' \in [Calls -> [Slots -> Statuses]] /\ task'[c][i] = to
      /\ \A d \in Calls, j \in Slots : d # c \/ j # i => task'[d][j] = task[d][j]
  BY <1>1, TaskSet
<1>3. ClientTypeOK'
  BY <1>1, <1>2 DEF ClientTypeOK, Statuses
<1>4. ASSUME NEW d \in Calls PROVE CallHeld(d)'
  <2>1. CallHeld(d)
    BY DEF ClientInv
  <2>2. CASE d # c
    BY <1>2, <2>1, <2>2 DEF CallHeld
  <2>3. CASE d = c
    <3>1. \A j \in Slots : task'[c][j] = "none" <=> task[c][j] = "none"
      BY <1>2
    <3>2. \A j \in Slots : task'[c][j] = "sleeping" => attempt'[c][j] < Attempts
      BY <1>2, <2>1, <2>3 DEF CallHeld
    <3>3. QED  BY <2>1, <2>3, <3>1, <3>2 DEF CallHeld
  <2>4. QED  BY <2>2, <2>3
<1>5. QED  BY <1>3, <1>4

LEMMA AcquireClient ==
  ASSUME ClientInv, NEW c \in Calls, NEW i \in Slots, Acquire(c, i)
  PROVE  ClientInv'
<1>1. ClientTypeOK /\ "sending" \in Statuses \ {"none"} /\ SetTask(c, i, "sending")
  BY DEF ClientInv, Statuses, Active, Acquire
<1>2. Cardinality(Holders') = Cardinality(Holders) + 1
  BY <1>1, TaskSet DEF Acquire, Holding
<1>3. free' = free - 1 /\ free' \in 0..max_concurrency /\ max_concurrency \in Nat
        /\ free = max_concurrency - Cardinality(Holders)
  BY <1>1, NerClientAssumption DEF Acquire, ClientTypeOK, ClientInv, PlacesExact
<1>4. PlacesExact'
  BY <1>2, <1>3, HoldersFinite DEF PlacesExact
<1>5. /\ attempt' \in [Calls -> [Slots -> 0..Attempts]]
      /\ \A d \in Calls, j \in Slots : d # c \/ j # i => attempt'[d][j] = attempt[d][j]
  BY <1>1, NerClientAssumption DEF Acquire, ClientTypeOK
<1>6. ClientTypeOK' /\ \A d \in Calls : CallHeld(d)'
  BY <1>1, <1>3, <1>5, ChunkHeld DEF Acquire
<1>7. QED  BY <1>4, <1>6 DEF ClientInv, Acquire

\* A chunk leaves its place, if it has one.
LEMMA LeavesClient ==
  ASSUME ClientInv, NEW c \in Calls, NEW i \in Slots, Answered(c, i) \/ CancelChunk(c, i)
  PROVE  ClientInv'
<1>1. PICK to \in {"done", "failed", "cancelled"} :
        /\ SetTask(c, i, to) /\ task[c][i] \in Active /\ phase[c] \in {"running", "failing", "cancelling"}
        /\ free' = IF task[c][i] \in Holding THEN free + 1 ELSE free
        /\ UNCHANGED <<phase, size, base, attempt, result>>
  BY DEF Answered, CancelChunk, Active, Holding
<1>2. /\ ClientTypeOK /\ to \in Statuses \ {"none"} /\ to \notin Holding /\ task[c][i] # "none"
      /\ to # "sleeping"
  BY <1>1 DEF ClientInv, Statuses, Active, Holding
<1>3. /\ task[c][i] \in Holding => Cardinality(Holders') = Cardinality(Holders) - 1
      /\ task[c][i] \notin Holding => Holders' = Holders
  BY <1>1, <1>2, TaskSet
<1>4. max_concurrency \in Nat /\ free \in 0..max_concurrency /\ free = max_concurrency - Cardinality(Holders)
  BY <1>2, NerClientAssumption DEF ClientTypeOK, ClientInv, PlacesExact
<1>5. PlacesExact'
  BY <1>1, <1>3, <1>4, HoldersFinite DEF PlacesExact
<1>6. free' \in 0..max_concurrency
  <2>1. Cardinality(Holders') \in Nat
    <3>1. Holders' \subseteq Calls \X Slots
      BY DEF Holders
    <3>2. IsFiniteSet(Holders')
      BY <3>1, SlotsFinite, FS_Subset
    <3>3. QED  BY <3>2, FS_CardinalityType
  <2>2. CASE task[c][i] \in Holding
    BY <1>1, <1>3, <1>4, <2>1, <2>2, HoldersFinite
  <2>3. CASE task[c][i] \notin Holding
    BY <1>1, <1>4, <2>3
  <2>4. QED  BY <2>2, <2>3
<1>7. /\ attempt' \in [Calls -> [Slots -> 0..Attempts]]
      /\ \A d \in Calls, j \in Slots : attempt'[d][j] = attempt[d][j]
  BY <1>1, <1>2 DEF ClientTypeOK
<1>8. ClientTypeOK' /\ \A d \in Calls : CallHeld(d)'
  BY <1>1, <1>2, <1>6, <1>7, ChunkHeld
<1>9. QED  BY <1>1, <1>5, <1>8 DEF ClientInv

\* A chunk that is turned away keeps its place for the next attempt.
LEMMA RetriesClient ==
  ASSUME ClientInv, NEW c \in Calls, NEW i \in Slots, TurnedAway(c, i) \/ Retry(c, i)
  PROVE  ClientInv'
<1>1. PICK to \in {"sleeping", "sending"} :
        /\ SetTask(c, i, to) /\ task[c][i] \in Holding /\ phase[c] = "running"
        /\ UNCHANGED <<phase, size, base, result, free>>
        /\ IF to = "sleeping" THEN attempt' = attempt /\ attempt[c][i] < Attempts
           ELSE task[c][i] = "sleeping" /\ attempt' = [attempt EXCEPT ![c][i] = @ + 1]
  BY DEF TurnedAway, Retry, Holding
<1>2. ClientTypeOK /\ to \in Statuses \ {"none"} /\ to \in Holding /\ task[c][i] # "none"
  BY <1>1 DEF ClientInv, Statuses, Active, Holding
<1>3. Holders' = Holders
  BY <1>1, <1>2, TaskSet
<1>4. PlacesExact' /\ free' \in 0..max_concurrency
  BY <1>1, <1>2, <1>3 DEF ClientInv, PlacesExact, ClientTypeOK
<1>5. attempt \in [Calls -> [Slots -> 0..Attempts]] /\ Attempts \in Nat
  BY <1>2, NerClientAssumption DEF ClientTypeOK
<1>6. CallHeld(c)
  BY DEF ClientInv
<1>7. /\ attempt' \in [Calls -> [Slots -> 0..Attempts]]
      /\ \A d \in Calls, j \in Slots : d # c \/ j # i => attempt'[d][j] = attempt[d][j]
      /\ to = "sleeping" => attempt'[c][i] < Attempts
  <2>1. CASE to = "sleeping"
    BY <1>1, <1>5, <2>1
  <2>2. CASE to # "sleeping"
    <3>1. attempt[c][i] + 1 \in 0..Attempts
      BY <1>1, <1>5, <1>6, <2>2 DEF CallHeld
    <3>2. QED  BY <1>1, <1>5, <2>2, <3>1
  <2>3. QED  BY <2>1, <2>2
<1>8. ClientTypeOK' /\ \A d \in Calls : CallHeld(d)'
  BY <1>1, <1>2, <1>4, <1>7, ChunkHeld
<1>9. QED  BY <1>1, <1>4, <1>8 DEF ClientInv

\* The group after the first n chunks.
LEMMA GroupIs ==
  ASSUME NEW n \in Nat, NEW s \in Nat
  PROVE  /\ Group(n, s) \in [Slots -> {"queued", "none"}]
         /\ \A i \in Slots : Group(n, s)[i] = "none" <=> n + i > s
BY SlotsFinite DEF Group

\* No chunk of the call is in a place before or after: the places are as they were.
LEMMA HoldersElsewhere ==
  ASSUME ClientTypeOK, NEW c \in Calls, NEW f \in [Slots -> Statuses], task' = [task EXCEPT ![c] = f],
         \A i \in Slots : task[c][i] \notin Holding /\ f[i] \notin Holding
  PROVE  Holders' = Holders
<1>1. task \in [Calls -> [Slots -> Statuses]]
  BY DEF ClientTypeOK, Statuses
<1>2. task'[c] = f /\ \A d \in Calls : d # c => task'[d] = task[d]
  BY <1>1
<1>3. ASSUME NEW h \in Calls \X Slots PROVE task'[h[1]][h[2]] \in Holding <=> task[h[1]][h[2]] \in Holding
  <2>1. h[1] \in Calls /\ h[2] \in Slots
    OBVIOUS
  <2>2. QED  BY <1>2, <2>1
<1>4. QED  BY <1>3 DEF Holders

LEMMA DetectClient ==
  ASSUME ClientInv, NEW c \in Calls, detect(c)
  PROVE  ClientInv'
<1>1. ClientTypeOK /\ CallHeld(c) /\ size[c] \in Nat
  BY NerClientAssumption DEF ClientInv, ClientTypeOK
<1>2. /\ Group(0, size[c]) \in [Slots -> {"queued", "none"}]
      /\ \A i \in Slots : Group(0, size[c])[i] = "none" <=> 0 + i > size[c]
  BY <1>1, GroupIs
<1> DEFINE f == Group(0, size[c])
<1> HIDE DEF f
<1>3. /\ task' = [task EXCEPT ![c] = f] /\ phase' = [phase EXCEPT ![c] = "running"]
      /\ UNCHANGED <<size, base, attempt, result, free>>
      /\ base[c] = 0 /\ \A i \in Slots : task[c][i] = "none"
  BY <1>1 DEF detect, CallHeld, f
<1>4. f \in [Slots -> Statuses] /\ \A i \in Slots : f[i] # "sleeping" /\ f[i] \notin Holding
  BY <1>2 DEF f, Statuses, Active, Holding
<1>5. Holders' = Holders
  BY <1>1, <1>3, <1>4, HoldersElsewhere DEF Holding
<1>6. PlacesExact'
  BY <1>3, <1>5 DEF ClientInv, PlacesExact
<1>7. task \in [Calls -> [Slots -> Statuses]]
  BY <1>1 DEF ClientTypeOK, Statuses
<1>8. task' \in [Calls -> [Slots -> Statuses]] /\ task'[c] = f /\ \A d \in Calls : d # c => task'[d] = task[d]
  BY <1>3, <1>4, <1>7
<1>9. /\ phase' \in [Calls -> {"idle", "running", "failing", "cancelling", "ok", "failed", "cancelled"}]
      /\ phase'[c] = "running" /\ \A d \in Calls : d # c => phase'[d] = phase[d]
  BY <1>1, <1>3 DEF ClientTypeOK
<1>10. ClientTypeOK'
  BY <1>1, <1>3, <1>8, <1>9 DEF ClientTypeOK, Statuses
<1>11. ASSUME NEW d \in Calls PROVE CallHeld(d)'
  <2>1. CallHeld(d)
    BY DEF ClientInv
  <2>2. CASE d # c
    BY <1>3, <1>8, <1>9, <2>1, <2>2 DEF CallHeld
  <2>3. CASE d = c
    <3>1. \A i \in Slots : task'[d][i] = "none" <=> base'[d] + i > size'[d]
      BY <1>2, <1>3, <1>8, <2>3 DEF f
    <3>2. QED  BY <1>3, <1>4, <1>8, <1>9, <2>1, <2>3, <3>1 DEF CallHeld
  <2>4. QED  BY <2>2, <2>3
<1>12. QED  BY <1>3, <1>6, <1>10, <1>11 DEF ClientInv

\* What a group that is done adds to the result.
LEMMA GroupAdds ==
  ASSUME NEW b \in Nat, NEW s \in Nat, b <= s, NEW batch, batch = {i \in Slots : b + i <= s}
  PROVE  /\ Cardinality(batch) \in Nat /\ b + Cardinality(batch) <= s
         /\ [i \in 1..b |-> i] \o [i \in 1..Cardinality(batch) |-> b + i]
              = [i \in 1..b + Cardinality(batch) |-> i]
<1> DEFINE m == IF s - b <= GroupSize THEN s - b ELSE GroupSize
<1>1. GroupSize \in Nat /\ Slots = 1..GroupSize
  BY NerClientAssumption DEF Slots
<1>2. m \in Nat /\ m <= s - b /\ batch = 1..m
  BY <1>1
<1> HIDE DEF m
<1>3. Cardinality(batch) = m
  <2>1. Cardinality(1..m) = m
    BY <1>2, FS_Interval
  <2>2. QED  BY <1>2, <2>1, Zenon
<1>4. b + m <= s
  BY <1>2
<1>5. [i \in 1..b |-> i] \o [i \in 1..m |-> b + i] = [i \in 1..b + m |-> i]
  <2> DEFINE p == [i \in 1..b |-> i]
             q == [i \in 1..m |-> b + i]
             r == [i \in 1..b + m |-> i]
  <2>1. p \in Seq(Nat) /\ q \in Seq(Nat) /\ r \in Seq(Nat) /\ Len(p) = b /\ Len(q) = m /\ Len(r) = b + m
    BY <1>2
  <2>2. p \o q \in Seq(Nat) /\ Len(p \o q) = b + m
    BY <1>2, <2>1
  <2>3. ASSUME NEW i \in 1..b + m PROVE (p \o q)[i] = r[i]
    <3>1. CASE i <= b
      BY <1>2, <2>1, <3>1
    <3>2. CASE i > b
      <4>1. i - b \in 1..m
        BY <1>2, <3>2
      <4>2. (p \o q)[i] = q[i - b]
        BY <1>2, <2>1, <3>2
      <4>3. QED  BY <1>2, <4>1, <4>2
    <3>3. QED  BY <1>2, <3>1, <3>2
  <2>4. QED  BY <1>2, <2>1, <2>2, <2>3
<1>6. QED  BY <1>2, <1>3, <1>4, <1>5

LEMMA GroupDoneClient ==
  ASSUME ClientInv, NEW c \in Calls, GroupDone(c)
  PROVE  ClientInv'
<1> DEFINE n == Cardinality(Batch(c))
           b == base[c] + n
           f == Group(b, size[c])
           to == IF b = size[c] THEN "ok" ELSE phase[c]
<1>1. ClientTypeOK /\ CallHeld(c) /\ size[c] \in Nat /\ base[c] \in Nat /\ base[c] <= size[c]
  <2>1. ClientTypeOK /\ CallHeld(c) /\ base[c] \in 0..size[c] /\ size[c] \in Sizes
    BY DEF ClientInv, ClientTypeOK
  <2>2. size[c] \in Nat
    BY <2>1, NerClientAssumption
  <2>3. base[c] \in Nat /\ base[c] <= size[c]
    BY <2>1, <2>2
  <2>4. QED  BY <2>1, <2>2, <2>3
<1>2. \A i \in Slots : task[c][i] = "none" <=> base[c] + i > size[c]
  BY <1>1 DEF GroupDone, CallHeld
<1>3. /\ n \in Nat /\ b <= size[c]
      /\ [i \in 1..base[c] |-> i] \o [i \in 1..n |-> base[c] + i] = [i \in 1..b |-> i]
  <2>1. Batch(c) = {i \in Slots : base[c] + i <= size[c]}
    <3>1. ASSUME NEW i \in Slots PROVE task[c][i] # "none" <=> base[c] + i <= size[c]
      <4>1. i \in Nat
        BY SlotsFinite
      <4>2. QED  BY <1>1, <1>2, <4>1
    <3>2. QED  BY <3>1 DEF Batch
  <2>2. QED  BY <1>1, <2>1, GroupAdds, SMTT(30)
<1>4. b \in Nat /\ b \in 0..size[c]
  BY <1>1, <1>3
<1>5. /\ f \in [Slots -> {"queued", "none"}] /\ \A i \in Slots : f[i] = "none" <=> b + i > size[c]
  BY <1>1, <1>4, GroupIs
<1>6. result[c] \o Indices(c) = [i \in 1..b |-> i]
  BY <1>1, <1>3 DEF CallHeld, Indices
<1>7. /\ base \in [Calls -> Nat] /\ result \in [Calls -> Seq(Nat)] /\ task \in [Calls -> [Slots -> Statuses]]
      /\ attempt \in [Calls -> [Slots -> 0..Attempts]] /\ phase[c] = "running"
  BY <1>1 DEF ClientInv, ClientTypeOK, Statuses, GroupDone
<1>8. base' = [base EXCEPT ![c] = b]
  BY DEF GroupDone
<1>9. base'[c] = b /\ base' \in [Calls -> Nat] /\ \A d \in Calls : d # c => base'[d] = base[d]
  BY <1>4, <1>7, <1>8
<1>10. /\ task' = [task EXCEPT ![c] = f] /\ phase' = [phase EXCEPT ![c] = to]
       /\ result' = [result EXCEPT ![c] = [i \in 1..b |-> i]]
       /\ attempt' = [attempt EXCEPT ![c] = [i \in Slots |-> 0]] /\ UNCHANGED <<size, free>>
  <2>1. base'[c] = b
    BY <1>9
  <2> HIDE DEF b
  <2>2. result' = [result EXCEPT ![c] = result[c] \o Indices(c)]
    BY <1>7 DEF GroupDone
  <2>3. phase' = [phase EXCEPT ![c] = IF base'[c] = size[c] THEN "ok" ELSE phase[c]]
    BY <1>1 DEF GroupDone, ClientTypeOK
  <2>4. QED  BY <1>6, <2>1, <2>2, <2>3 DEF GroupDone
<1> HIDE DEF b, f, to
<1>11. f \in [Slots -> Statuses] /\ \A i \in Slots : f[i] # "sleeping" /\ f[i] \notin Holding
  BY <1>5 DEF Statuses, Active, Holding
<1>12. \A i \in Slots : task[c][i] \notin Holding
  BY DEF GroupDone, Batch, Holding
<1>13. PlacesExact'
  <2>1. Holders' = Holders
    BY <1>1, <1>10, <1>11, <1>12, HoldersElsewhere
  <2>2. QED  BY <1>10, <2>1 DEF ClientInv, PlacesExact
<1>14. [i \in 1..b |-> i] \in Seq(1..size[c]) /\ [i \in 1..b |-> i] \in Seq(Nat)
  BY <1>1, <1>4
<1>15. /\ task' \in [Calls -> [Slots -> Statuses]] /\ task'[c] = f
       /\ phase' \in [Calls -> {"idle", "running", "failing", "cancelling", "ok", "failed", "cancelled"}]
       /\ phase'[c] = to /\ to \in {"ok", "running"} /\ (to = "ok" <=> b = size[c])
       /\ result' \in [Calls -> Seq(Nat)] /\ result'[c] = [i \in 1..b |-> i]
       /\ attempt' \in [Calls -> [Slots -> 0..Attempts]] /\ attempt'[c] = [i \in Slots |-> 0]
       /\ \A d \in Calls : d # c => /\ task'[d] = task[d] /\ phase'[d] = phase[d] /\ result'[d] = result[d]
                                    /\ attempt'[d] = attempt[d]
  <2>1. task' \in [Calls -> [Slots -> Statuses]] /\ task'[c] = f /\ \A d \in Calls : d # c => task'[d] = task[d]
    BY <1>7, <1>10, <1>11
  <2>2. /\ phase' \in [Calls -> {"idle", "running", "failing", "cancelling", "ok", "failed", "cancelled"}]
        /\ phase'[c] = to /\ to \in {"ok", "running"} /\ (to = "ok" <=> b = size[c])
        /\ \A d \in Calls : d # c => phase'[d] = phase[d]
    BY <1>1, <1>7, <1>10 DEF ClientTypeOK, to
  <2>3. /\ result' \in [Calls -> Seq(Nat)] /\ result'[c] = [i \in 1..b |-> i]
        /\ \A d \in Calls : d # c => result'[d] = result[d]
    BY <1>7, <1>10, <1>14
  <2>4. /\ attempt' \in [Calls -> [Slots -> 0..Attempts]] /\ attempt'[c] = [i \in Slots |-> 0]
        /\ \A d \in Calls : d # c => attempt'[d] = attempt[d]
    BY <1>7, <1>10, NerClientAssumption
  <2>5. QED  BY <2>1, <2>2, <2>3, <2>4
<1>16. ClientTypeOK'
  <2>1. ASSUME NEW d \in Calls PROVE base'[d] \in 0..size'[d] /\ result'[d] \in Seq(1..size'[d])
    BY <1>1, <1>4, <1>9, <1>10, <1>14, <1>15, ZenonT(60) DEF ClientTypeOK
  <2>2. QED  BY <1>1, <1>10, <1>15, <2>1 DEF ClientTypeOK, Statuses
<1>17. ASSUME NEW d \in Calls PROVE CallHeld(d)'
  <2>1. CallHeld(d)
    BY DEF ClientInv
  <2>2. CASE d # c
    BY <1>9, <1>10, <1>15, <2>1, <2>2 DEF CallHeld
  <2>3. CASE d = c
    <3>1. \A i \in Slots : task'[d][i] = "none" <=> base'[d] + i > size'[d]
      BY <1>5, <1>9, <1>10, <1>15, <2>3
    <3>2. to = "ok" => \A i \in Slots : f[i] \notin Active
      <4>1. ASSUME to = "ok", NEW i \in Slots PROVE f[i] = "none"
        BY <1>4, <1>5, <1>15, <4>1, SlotsFinite
      <4>2. QED  BY <4>1 DEF Active
    <3>3. QED  BY <1>9, <1>10, <1>11, <1>15, <2>3, <3>1, <3>2 DEF CallHeld
  <2>4. QED  BY <2>2, <2>3
<1>18. QED  BY <1>9, <1>13, <1>15, <1>16, <1>17 DEF ClientInv

\* The call moves on while its tasks stay as they are.
LEMMA PhaseClient ==
  ASSUME ClientInv, NEW c \in Calls,
         Abort(c) \/ Timeout(c) \/ CancelCall(c) \/ Raise(c)
  PROVE  ClientInv'
<1>1. PICK to \in {"failing", "cancelling", "failed", "cancelled"} :
        /\ phase' = [phase EXCEPT ![c] = to] /\ UNCHANGED <<size, base, task, attempt, result, free>>
        /\ phase[c] \in {"running", "failing", "cancelling"}
        /\ to \in {"failed", "cancelled"} => \A i \in Slots : task[c][i] \notin Active
  BY DEF Abort, Timeout, CancelCall, Raise, Unwind
<1>2. ClientTypeOK
  BY DEF ClientInv
<1>3. /\ phase' \in [Calls -> {"idle", "running", "failing", "cancelling", "ok", "failed", "cancelled"}]
      /\ phase'[c] = to /\ \A d \in Calls : d # c => phase'[d] = phase[d]
  BY <1>1, <1>2 DEF ClientTypeOK
<1>4. ClientTypeOK'
  BY <1>1, <1>2, <1>3 DEF ClientTypeOK
<1>5. PlacesExact' /\ base' = base /\ result' = result
  BY <1>1 DEF ClientInv, PlacesExact, Holders
<1>6. ASSUME NEW d \in Calls PROVE CallHeld(d)'
  <2>1. CallHeld(d)
    BY DEF ClientInv
  <2>2. CASE d # c
    BY <1>1, <1>3, <2>1, <2>2 DEF CallHeld
  <2>3. CASE d = c
    BY <1>1, <1>3, <2>1, <2>3 DEF CallHeld
  <2>4. QED  BY <2>2, <2>3
<1>7. QED  BY <1>4, <1>5, <1>6 DEF ClientInv

LEMMA ClientStarts == ClientInit => ClientInv
<1> SUFFICES ASSUME ClientInit PROVE ClientInv
  OBVIOUS
<1>1. /\ phase = [c \in Calls |-> "idle"] /\ size \in [Calls -> Sizes] /\ base = [c \in Calls |-> 0]
      /\ task = [c \in Calls |-> [i \in Slots |-> "none"]] /\ attempt = [c \in Calls |-> [i \in Slots |-> 0]]
      /\ result = [c \in Calls |-> <<>>] /\ free = max_concurrency
  BY DEF ClientInit
<1>2. Attempts \in Nat /\ max_concurrency \in Nat /\ \A c \in Calls : size[c] \in Nat
  BY <1>1, NerClientAssumption
<1>3. ClientTypeOK
  <2>1. /\ phase \in [Calls -> {"idle", "running", "failing", "cancelling", "ok", "failed", "cancelled"}]
        /\ task \in [Calls -> [Slots -> Active \cup {"none", "done", "failed", "cancelled"}]]
        /\ attempt \in [Calls -> [Slots -> 0..Attempts]] /\ free \in 0..max_concurrency
    BY <1>1, <1>2
  <2>2. \A c \in Calls : base[c] \in 0..size[c] /\ result[c] \in Seq(1..size[c])
    BY <1>1, <1>2
  <2>3. QED  BY <1>1, <2>1, <2>2 DEF ClientTypeOK
<1>4. base \in [Calls -> Nat] /\ result \in [Calls -> Seq(Nat)]
  BY <1>1
<1>5. PlacesExact
  <2>1. Holders = {}
    BY <1>1 DEF Holders, Holding
  <2>2. Cardinality(Holders) = 0
    BY <2>1, FS_EmptySet, Zenon
  <2>3. QED  BY <1>1, <1>2, <2>2 DEF PlacesExact
<1>6. ASSUME NEW c \in Calls PROVE CallHeld(c)
  <2>1. <<>> = [i \in 1..0 |-> i]
    OBVIOUS
  <2>2. /\ phase[c] = "idle" /\ base[c] = 0 /\ result[c] = <<>> /\ \A i \in Slots : task[c][i] = "none"
    BY <1>1
  <2>3. QED  BY <2>1, <2>2 DEF CallHeld
<1>7. QED  BY <1>3, <1>4, <1>5, <1>6 DEF ClientInv

LEMMA ClientSteps == ClientInv /\ [ClientNext]_clientvars => ClientInv'
<1> SUFFICES ASSUME ClientInv, [ClientNext]_clientvars PROVE ClientInv'
  OBVIOUS
<1>1. CASE UNCHANGED clientvars
  BY <1>1 DEF clientvars, ClientInv, ClientTypeOK, PlacesExact, Holders, CallHeld
<1>2. ASSUME NEW c \in Calls,
             detect(c) \/ GroupDone(c) \/ Abort(c) \/ Timeout(c) \/ CancelCall(c) \/ Raise(c)
      PROVE ClientInv'
  BY <1>2, DetectClient, GroupDoneClient, PhaseClient
<1>3. ASSUME NEW c \in Calls, NEW i \in Slots,
             Acquire(c, i) \/ Answered(c, i) \/ TurnedAway(c, i) \/ Retry(c, i) \/ CancelChunk(c, i)
      PROVE ClientInv'
  BY <1>3, AcquireClient, LeavesClient, RetriesClient
<1>4. QED  BY <1>1, <1>2, <1>3 DEF ClientNext

\* ClientSafe: whatever the service answers, whenever a chunk fails, the deadline passes or
\* the caller gives up, the places in the semaphore are exact, no request outlives its
\* call, and a result is whole and in order.
THEOREM ClientKeepsSafe == ClientSpec => []ClientSafe
<1>1. ClientInit => ClientInv
  BY ClientStarts
<1>2. ClientInv /\ [ClientNext]_clientvars => ClientInv'
  BY ClientSteps
<1>3. ClientInv => ClientSafe
  <2> SUFFICES ASSUME ClientInv PROVE ClientSafe
    OBVIOUS
  <2>1. NothingOutlivesItsCall
    BY DEF ClientInv, CallHeld, NothingOutlivesItsCall, EndedCalls
  <2>2. CompleteOrFailed
    BY DEF ClientInv, CallHeld, CompleteOrFailed
  <2>3. QED  BY <2>1, <2>2 DEF ClientInv, ClientSafe
<1>4. QED  BY <1>1, <1>2, <1>3, PTL DEF ClientSpec

-----------------------------------------------------------------------------
(* Configuration and authorize.                                            *)

AccessSpec == AccessInit /\ [][AccessNext]_accessvars

\* What create_app makes of an environment, in the given life of the process.
App(e, life) == [up |-> TRUE, demo |-> e.demo, shared |-> IsShared(e), policies |-> Policies(e),
                 key |-> IF e.master = "" THEN life ELSE e.master]

\* The settings are those of an accepted environment, records are sealed under its stable
\* key, and an answer was given by the process that is up, to a call that is not refused.
AccessInv ==
  /\ settings = Down \/ (Accepts(env) /\ settings = App(env, lives))
  /\ sealed \subseteq {env.master}
  /\ answer # Nobody => settings.up
  /\ answer.status \in {200, 429} => Refusal(answer.system, answer.secret) = {}

LEMMA PoliciesAre ==
  ASSUME NEW e
  PROVE  /\ DOMAIN e.systems \subseteq DOMAIN Policies(e)
         /\ \A s \in DOMAIN Policies(e) :
              \/ s \in DOMAIN e.systems /\ Policies(e)[s] = e.systems[s]
              \/ e.demo /\ s = "demo" /\ Policies(e)[s] = DefaultPolicy
<1>1. CASE e.demo
  BY <1>1 DEF Policies
<1>2. CASE ~e.demo
  BY <1>2 DEF Policies
<1>3. QED  BY <1>1, <1>2

\* The process that is up has the settings of its environment, and a key that outlives it
\* where the store is shared.
LEMMA SettingsAre ==
  ASSUME AccessInv, settings.up
  PROVE  /\ Accepts(env) /\ settings = App(env, lives)
         /\ settings.demo = env.demo /\ settings.policies = Policies(env)
         /\ settings.shared => settings.key = env.master
<1>1. Down.up = FALSE
  BY DEF Down
<1>2. Accepts(env) /\ settings = App(env, lives)
  BY <1>1 DEF AccessInv
<1>3. settings.demo = env.demo /\ settings.policies = Policies(env) /\ settings.shared = IsShared(env)
  BY <1>2 DEF App
<1>4. settings.shared => settings.key = env.master
  BY <1>2, <1>3 DEF App, Accepts, ValidStore
<1>5. QED  BY <1>2, <1>3, <1>4

LEMMA CallAnswered ==
  ASSUME AccessInv, NEW header, NEW secret, Ask(header, secret)
  PROVE  AccessInv'
<1>1. PICK s : s = System(header)
  OBVIOUS
<1>2. settings.up /\ UNCHANGED <<env, settings, lives>>
  BY DEF Ask
<1>3. Refusal(s, secret) \subseteq {401, 403}
  BY ZenonT(60) DEF Refusal
<1>4. PICK code : /\ answer' = [system |-> s, secret |-> secret, status |-> code]
                  /\ code \in {200, 429} => Refusal(s, secret) = {}
  <2>1. CASE Refusal(s, secret) # {}
    <3>1. Refused(s, secret)
      BY <1>1, <2>1 DEF Ask, authorize
    <3>2. PICK code \in Refusal(s, secret) : answer' = [system |-> s, secret |-> secret, status |-> code]
      BY <3>1 DEF Refused
    <3>3. code \notin {200, 429}
      BY <1>3
    <3>4. QED  BY <3>2, <3>3
  <2>2. CASE Refusal(s, secret) = {}
    <3>1. ByRedis(s, secret) \/ ByBalance(s, secret)
      BY <1>1, <2>2 DEF Ask, authorize, Limited
    <3>2. \E code : answer' = [system |-> s, secret |-> secret, status |-> code]
      BY <3>1 DEF ByRedis, ByBalance
    <3>3. QED  BY <2>2, <3>2
  <2>3. QED  BY <2>1, <2>2
<1>5. sealed' \subseteq {env.master}
  <2>1. sealed' = sealed \/ (settings.shared /\ sealed' = sealed \cup {settings.key})
    BY DEF Ask, authorize, Refused, Limited, ByRedis, ByBalance
  <2>2. QED  BY <1>2, <2>1, SettingsAre DEF AccessInv
<1>6. Refusal(answer'.system, answer'.secret) = Refusal(answer.system, answer.secret)'
  BY <1>2 DEF Refusal, Anonymous
<1>7. answer'.status \in {200, 429} => Refusal(answer'.system, answer'.secret) = {}
  BY <1>4
<1>8. QED  BY <1>2, <1>5, <1>6, <1>7 DEF AccessInv, Accepts, App

LEMMA AccessSteps == AccessInv /\ [AccessNext]_accessvars => AccessInv'
<1> SUFFICES ASSUME AccessInv, [AccessNext]_accessvars PROVE AccessInv'
  OBVIOUS
<1>1. Nobody.status = 0 /\ Down.up = FALSE
  BY DEF Nobody, Down
<1>2. CASE UNCHANGED accessvars
  BY <1>2, ZenonT(60) DEF accessvars, AccessInv, Refusal, Anonymous
<1>3. CASE CreateApp
  <2>1. answer' = Nobody /\ UNCHANGED <<env, sealed>> /\ settings' = App(env, lives') /\ Accepts(env)
    BY <1>3 DEF CreateApp, AccessInv, App
  <2>2. QED  BY <1>1, <2>1 DEF AccessInv
<1>4. CASE Stop \/ Tick \/ LoseWindows
  <2>1. answer' = Nobody /\ UNCHANGED <<env, lives, sealed>> /\ settings' \in {settings, Down}
    BY <1>4 DEF Stop, Tick, LoseWindows
  <2>2. QED  BY <1>1, <2>1 DEF AccessInv
<1>5. ASSUME NEW header, NEW secret, Ask(header, secret) PROVE AccessInv'
  BY <1>5, CallAnswered
<1>6. QED  BY <1>2, <1>3, <1>4, <1>5 DEF AccessNext

\* ConfigurationSafe: in every environment that is accepted the systems can be used and only
\* with their secrets, there is one store, and no restart makes its records unreadable.
THEOREM AccessKeepsSafe == AccessSpec => []ConfigurationSafe
<1>1. AccessInit => AccessInv
  <2>1. Nobody.status = 0
    BY DEF Nobody
  <2>2. QED  BY <2>1 DEF AccessInit, AccessInv
<1>2. AccessInv => ConfigurationSafe
  <2> SUFFICES ASSUME AccessInv PROVE ConfigurationSafe
    OBVIOUS
  <2>1. ServedWithSecret
    <3> SUFFICES ASSUME answer.status \in {200, 429}
                 PROVE  LET own == settings.policies[answer.system].secret
                        IN  IF own = "" THEN env.demo /\ answer.system = "demo" ELSE answer.secret = own
      BY DEF ServedWithSecret
    <3>1. settings.up /\ Refusal(answer.system, answer.secret) = {}
      <4>1. Nobody.status = 0
        BY DEF Nobody
      <4>2. answer # Nobody
        BY <4>1
      <4>3. QED  BY <4>2 DEF AccessInv
    <3>2. settings.demo = env.demo
      BY <3>1, SettingsAre
    <3>3. PICK s, secret : s = answer.system /\ secret = answer.secret
      OBVIOUS
    <3>4. Anonymous(s) \/ (settings.policies[s].secret # "" /\ secret = settings.policies[s].secret)
      <4>1. {401} # {} /\ {403} # {}
        OBVIOUS
      <4>2. QED  BY <3>1, <3>3, <4>1 DEF Refusal
    <3>5. QED  BY <3>2, <3>3, <3>4 DEF Anonymous
  <2>2. EnabledMeansUsable
    <3> SUFFICES ASSUME settings.up, NEW s \in DOMAIN settings.policies, settings.policies[s].enabled
                 PROVE  Refusal(s, settings.policies[s].secret) = {}
      BY DEF EnabledMeansUsable
    <3>1. Accepts(env) /\ settings.demo = env.demo /\ settings.policies = Policies(env)
      BY SettingsAre
    <3>2. CASE s \in DOMAIN env.systems /\ Policies(env)[s] = env.systems[s]
      <4>1. settings.policies[s].secret = "" => settings.demo /\ s = "demo"
        BY <3>1, <3>2 DEF Accepts, ValidPolicy
      <4>2. QED  BY <3>1, <4>1 DEF Refusal, Anonymous
    <3>3. CASE env.demo /\ s = "demo" /\ Policies(env)[s] = DefaultPolicy
      BY <3>1, <3>3 DEF Refusal, Anonymous, DefaultPolicy
    <3>4. QED  BY <3>1, <3>2, <3>3, PoliciesAre
  <2>3. SharedRecordsReadable
    BY SettingsAre DEF AccessInv, SharedRecordsReadable
  <2>4. OneSharedStore
    <3> SUFFICES ASSUME settings.up PROVE OneSharedStore
      BY DEF OneSharedStore
    <3>1. ValidSentinels(env.sentinels) /\ ~(env.url /\ env.sentinels # << >>)
      BY SettingsAre DEF Accepts, ValidStore
    <3>2. QED  BY <3>1 DEF OneSharedStore, ValidSentinels, Address
  <2>5. QED  BY <2>1, <2>2, <2>3, <2>4 DEF ConfigurationSafe
<1>3. QED  BY <1>1, <1>2, AccessSteps, PTL DEF AccessSpec

-----------------------------------------------------------------------------
(* The limiters of authorize.                                              *)

\* Of the calls R those of a system with one of the outcomes, from time t on or before it.
Made(R, s, outcomes, t) == {r \in R : r.system = s /\ r.outcome \in outcomes /\ r.time >= t}
ServedBefore(R, s, t) == {r \in R : r.system = s /\ r.outcome = 200 /\ r.time < t}

AllCalls == [system : Systems, time : Int, number : Int, life : Int, outcome : {0, 200, 429}]
Counter == [n : Nat, expires : Nat]

CallsHeld(R) ==
  /\ IsFiniteSet(R) /\ R \subseteq AllCalls
  /\ \A r \in R :
       /\ r.time <= now /\ r.time > now - Second
       /\ r.time = now => r.number <= Cardinality(R)

RecentHeld == now \in Nat /\ CallsHeld(recent) /\ IsFiniteSet(renewed)

\* The counter c of a system in Redis against its recent calls R.  The call that opened the
\* window was the first one counted in it, so that of the others one fewer can have been
\* served; the window before it is already without its first call.
WindowHeld(s, c, R) ==
  LET start == c.expires - Second IN
  /\ c \in Counter
  /\ c.n = 0 => c.expires = 0 /\ \A r \in R : r.system # s
  /\ c.n > 0 =>
       /\ start <= now /\ \A r \in R : r.system = s => r.time < c.expires
       /\ Cardinality(Made(R, s, {200}, start)) <= c.n
       /\ Cardinality(Made(R, s, {200}, start)) <= Rps[s]
       /\ Cardinality(Made(R, s, {200}, start + 1)) <= c.n - 1
       /\ Cardinality(Made(R, s, {200}, start + 1)) <= Rps[s] - 1
       /\ Cardinality(ServedBefore(R, s, start)) <= Rps[s] - 1
       /\ c.expires > now =>
            \/ Cardinality(Made(R, s, {0, 200}, start)) >= c.n
            \/ Cardinality(Made(R, s, {0, 200}, start)) >= Rps[s]

\* The balance of a system against its recent calls: from any time t on, what was spent
\* and what is left come to no more than a full balance and what has flowed in, and to no
\* less than what has flowed in.
BalanceHeld(s) ==
  /\ Balance(s) \in 0..Full(s)
  /\ \A t \in (now - Second)..now :
       /\ Second * Cardinality(Made(recent, s, {200}, t)) + Balance(s) <= Full(s) + (now - t) * Rps[s]
       /\ Second * Cardinality(Made(recent, s, {200}, t + 1)) + Balance(s) >= (now - t) * Rps[s]

LimitsHeld ==
  /\ DOMAIN limits \subseteq Systems
  /\ \A s \in DOMAIN limits : limits[s].balance \in Nat /\ limits[s].last \in 0..now

\* The losses of the last second, each counted once.
RenewedHeld ==
  /\ IsFiniteSet(renewed)
  /\ \A l \in renewed :
       /\ l.time \in Nat /\ l.number \in Int /\ l.time <= now /\ l.time > now - Second
       /\ l.time = now => l.number <= Cardinality(renewed)

\* After a loss within the second there is one window at most: no call of the system was
\* served before it, and it is still open.
OneWindow(s, c, R) ==
  \A l \in renewed : c.n > 0 =>
    /\ c.expires >= l.time + Second
    /\ \A r \in R : r.system = s /\ r.outcome = 200 => r.time >= c.expires - Second

Since(t) == {l \in renewed : l.time >= t}

\* The served calls from time t on that a loss has made forgotten, against the losses since.
\* In Redis every life but the first has one window in the second.  A balance was full after
\* each loss, and up to the last of them no more than a second's flow was spent besides.
ForgottenHeld(s, t) ==
  LET forgotten == Cardinality(Made(past, s, {200}, t))
      losses == Cardinality(Since(t))
  IN  IF Since(t) = {} THEN Made(past, s, {200}, t) = {}
      ELSE IF IsShared(env) THEN forgotten + 1 <= (1 + losses) * Rps[s]
      ELSE \E u \in t..now :
             /\ \A r \in recent : r.time >= u
             /\ Second * forgotten <= losses * Full(s) + (u - t) * Rps[s]

PastHeld ==
  /\ RenewedHeld /\ IsFiniteSet(past) /\ \A r \in past : r.time \in Int /\ r.time <= now /\ r.time > now - Second
  /\ \A s \in Systems : \A t \in (now - Second + 1)..now : ForgottenHeld(s, t)

LimitsInv ==
  /\ AccessInv /\ env \in Environments
  /\ RecentHeld /\ LimitsHeld /\ PastHeld /\ windows \in [Systems -> Counter]
  /\ IsShared(env) => \A s \in Systems : WindowHeld(s, windows[s], recent) /\ OneWindow(s, windows[s], recent)
  /\ ~IsShared(env) => \A s \in Systems : BalanceHeld(s)
  /\ TurnedAwayAtLimit

LEMMA MinOfTwo ==
  ASSUME NEW a \in Int, NEW b \in Int
  PROVE  Min({a, b}) = IF a <= b THEN a ELSE b
<1>1. \E x \in {a, b} : \A y \in {a, b} : x <= y
  OBVIOUS
<1>2. Min({a, b}) \in {a, b} /\ \A y \in {a, b} : Min({a, b}) <= y
  BY <1>1 DEF Min
<1>3. QED  BY <1>2

LEMMA Numbers ==
  ASSUME NEW R, IsFiniteSet(R), NEW s, NEW outcomes, NEW t
  PROVE  /\ IsFiniteSet(Made(R, s, outcomes, t)) /\ Cardinality(Made(R, s, outcomes, t)) \in Nat
         /\ IsFiniteSet(ServedBefore(R, s, t)) /\ Cardinality(ServedBefore(R, s, t)) \in Nat
<1>1. Made(R, s, outcomes, t) \subseteq R /\ ServedBefore(R, s, t) \subseteq R
  BY DEF Made, ServedBefore
<1>2. QED  BY <1>1, FS_Subset, FS_CardinalityType

\* A call counts among those it belongs to, and for nothing among the others.
LEMMA OneMore ==
  ASSUME NEW R, IsFiniteSet(R), NEW r, r \notin R, NEW s, NEW outcomes, NEW t
  PROVE  /\ r.system = s /\ r.outcome \in outcomes /\ r.time >= t =>
              Cardinality(Made(R \cup {r}, s, outcomes, t)) = Cardinality(Made(R, s, outcomes, t)) + 1
         /\ ~(r.system = s /\ r.outcome \in outcomes /\ r.time >= t) =>
              Made(R \cup {r}, s, outcomes, t) = Made(R, s, outcomes, t)
<1>1. ASSUME r.system = s, r.outcome \in outcomes, r.time >= t
      PROVE  Cardinality(Made(R \cup {r}, s, outcomes, t)) = Cardinality(Made(R, s, outcomes, t)) + 1
  <2>1. Made(R \cup {r}, s, outcomes, t) = Made(R, s, outcomes, t) \cup {r} /\ r \notin Made(R, s, outcomes, t)
    BY <1>1 DEF Made
  <2>2. QED  BY <2>1, Numbers, FS_AddElement
<1>2. ~(r.system = s /\ r.outcome \in outcomes /\ r.time >= t) =>
        Made(R \cup {r}, s, outcomes, t) = Made(R, s, outcomes, t)
  BY DEF Made
<1>3. QED  BY <1>1, <1>2

\* The script run once more for its system, and the others' counters.
LEMMA ScriptHeld ==
  ASSUME now \in Nat, NEW s \in Systems, NEW c \in Counter, NEW R \in SUBSET AllCalls, IsFiniteSet(R),
         NEW r \in AllCalls, r \notin R, r.system = s, r.time = now,
         \A q \in R : q.time <= now /\ q.time > now - Second,
         WindowHeld(s, c, R),
         r.outcome = 200 => Script(c).n <= Rps[s],
         Script(c).n <= Rps[s] => r.outcome \in {0, 200}
  PROVE  WindowHeld(s, Script(c), R \cup {r}) /\ Script(c) \in Counter /\ Script(c).n > 0 /\ Script(c).expires > now
<1>1. /\ Rps[s] \in Nat /\ Rps[s] >= 1 /\ Second \in Nat /\ Second >= 1 /\ c.n \in Nat /\ c.expires \in Nat
      /\ c = [n |-> c.n, expires |-> c.expires]
  BY AccessAssumption DEF Systems, Counter
<1>2. \A q \in R : q.time \in Int /\ q.outcome \in {0, 200, 429}
  BY DEF AllCalls
<1> DEFINE Q == R \cup {r}
           start == c.expires - Second
<1>3. CASE c.expires > now
  <2>1. c.n > 0
    BY <1>1, <1>3 DEF WindowHeld
  <2>2. Script(c) = [n |-> c.n + 1, expires |-> c.expires]
    BY <1>1, <1>3, <2>1 DEF Script, Live
  <2>3. PICK a \in Nat, b \in Nat, d \in Nat, e \in Nat :
          /\ a = Cardinality(Made(R, s, {200}, start)) /\ b = Cardinality(Made(R, s, {200}, start + 1))
          /\ d = Cardinality(ServedBefore(R, s, start)) /\ e = Cardinality(Made(R, s, {0, 200}, start))
    BY Numbers
  <2>4. /\ start <= now /\ \A q \in R : q.system = s => q.time < c.expires
        /\ a <= c.n /\ a <= Rps[s] /\ b <= c.n - 1 /\ b <= Rps[s] - 1 /\ d <= Rps[s] - 1
             /\ (e >= c.n \/ e >= Rps[s])
    BY <1>3, <2>1, <2>3 DEF WindowHeld
  <2>5. PICK f \in Nat, g \in Nat, h \in Nat :
          /\ f = Cardinality(Made(Q, s, {200}, start)) /\ g = Cardinality(Made(Q, s, {200}, start + 1))
          /\ h = Cardinality(Made(Q, s, {0, 200}, start))
    <3>1. IsFiniteSet(Q)
      BY FS_AddElement
    <3> HIDE DEF Q
    <3>2. QED  BY <3>1, Numbers
  <2>6. f \in {a, a + 1} /\ (f = a + 1 => r.outcome = 200)
    BY <2>3, <2>5, OneMore
  <2>7. g \in {b, b + 1} /\ (g = b + 1 => r.outcome = 200)
    BY <2>3, <2>5, OneMore
  <2>8. h \in {e, e + 1} /\ (r.outcome \in {0, 200} => h = e + 1)
    BY <1>1, <2>3, <2>4, <2>5, OneMore
  <2>9. Cardinality(ServedBefore(Q, s, start)) = d
    <3>1. start \in Int /\ ~(r.time < start)
      BY <1>1, <2>4
    <3>2. ServedBefore(Q, s, start) = ServedBefore(R, s, start)
      BY <3>1 DEF ServedBefore
    <3>3. QED  BY <2>3, <3>2
  <2>10. /\ f <= c.n + 1 /\ f <= Rps[s] /\ g <= (c.n + 1) - 1 /\ g <= Rps[s] - 1
         /\ h >= c.n + 1 \/ h >= Rps[s]
    BY <1>1, <2>2, <2>4, <2>6, <2>7, <2>8
  <2>11. \A q \in Q : q.system = s => q.time < c.expires
    BY <1>3, <2>4
  <2> DEFINE w == Script(c)
  <2>12. w \in Counter /\ w.n = c.n + 1 /\ w.n > 0 /\ w.expires = c.expires /\ w.n # 0
    BY <1>1, <2>2 DEF Counter
  <2> HIDE DEF Q, w
  <2>13. WindowHeld(s, w, Q)
    BY <1>1, <2>4, <2>5, <2>9, <2>10, <2>11, <2>12 DEF WindowHeld
  <2>14. QED  BY <1>3, <2>12, <2>13 DEF w, Q
<1>4. CASE ~(c.expires > now)
  <2>1. Script(c) = [n |-> 1, expires |-> now + Second]
    BY <1>1, <1>4 DEF Script, Live, NoCounter
  <2>2. r.outcome \in {0, 200}
    BY <1>1, <2>1
  <2>3. \A q \in R : q.system = s => c.n > 0 /\ q.time < now /\ q.time >= start + 1
    BY <1>1, <1>2, <1>4 DEF WindowHeld
  <2>4. /\ Made(R, s, {200}, now) = {} /\ Made(R, s, {0, 200}, now) = {}
        /\ Made(Q, s, {200}, now + 1) = {} /\ ServedBefore(Q, s, now) = ServedBefore(R, s, now)
    BY <1>2, <2>3 DEF Made, ServedBefore
  <2>5. Cardinality(ServedBefore(R, s, now)) <= Rps[s] - 1
    <3>1. CASE c.n = 0
      <4>1. ServedBefore(R, s, now) = {}
        BY <2>3, <3>1 DEF ServedBefore
      <4>2. Cardinality(ServedBefore(R, s, now)) = 0
        BY <4>1, FS_EmptySet, Zenon
      <4>3. QED  BY <1>1, <4>2
    <3>2. CASE c.n > 0
      <4>1. ServedBefore(R, s, now) \subseteq Made(R, s, {200}, start + 1)
        BY <2>3 DEF ServedBefore, Made
      <4>2. PICK i \in Nat, j \in Nat :
              i = Cardinality(ServedBefore(R, s, now)) /\ j = Cardinality(Made(R, s, {200}, start + 1))
        BY Numbers
      <4>3. i <= j
        BY <4>1, <4>2, Numbers, FS_Subset
      <4>4. j <= Rps[s] - 1
        BY <3>2, <4>2 DEF WindowHeld
      <4>5. QED  BY <1>1, <4>2, <4>3, <4>4
    <3>3. QED  BY <1>1, <3>1, <3>2
  <2>6. Cardinality({}) = 0
    BY FS_EmptySet
  <2>7. Cardinality(Made(Q, s, {200}, now)) \in {0, 1} /\ Cardinality(Made(Q, s, {0, 200}, now)) = 1
    <3>1. Made(Q, s, {0, 200}, now) = {r}
      BY <2>2, <2>4 DEF Made
    <3>2. Made(Q, s, {200}, now) \in {{}, {r}}
      BY <2>4 DEF Made
    <3>3. Cardinality({r}) = 1
      BY FS_Singleton
    <3>4. Cardinality(Made(Q, s, {0, 200}, now)) = 1
      BY <3>1, <3>3, Zenon
    <3>5. Cardinality(Made(Q, s, {200}, now)) = 0 \/ Cardinality(Made(Q, s, {200}, now)) = 1
      BY <2>6, <3>2, <3>3, Zenon
    <3>6. QED  BY <3>4, <3>5
  <2>8. Cardinality(Made(Q, s, {200}, now + 1)) = 0 /\ Cardinality(ServedBefore(Q, s, now)) <= Rps[s] - 1
    BY <2>4, <2>5, <2>6, Zenon
  <2>9. \A q \in Q : q.system = s => q.time < now + Second
    BY <1>1, <1>2
  <2> DEFINE w == Script(c)
  <2>11. w \in Counter /\ w.n = 1 /\ w.expires = now + Second /\ w.expires > now
    BY <1>1, <2>1 DEF Counter
  <2>12. w.expires - Second = now /\ now <= now
    BY <1>1, <2>11
  <2> HIDE DEF Q, w
  <2>13. WindowHeld(s, w, Q)
    BY <1>1, <2>7, <2>8, <2>9, <2>11, <2>12 DEF WindowHeld
  <2>14. QED  BY <2>11, <2>13 DEF w, Q
<1>5. QED  BY <1>3, <1>4

LEMMA OthersHeld ==
  ASSUME NEW s \in Systems, NEW c \in Counter, NEW R \in SUBSET AllCalls, IsFiniteSet(R),
         NEW r \in AllCalls, r.system # s, WindowHeld(s, c, R)
  PROVE  WindowHeld(s, c, R \cup {r})
<1>1. \A outcomes, t : Made(R \cup {r}, s, outcomes, t) = Made(R, s, outcomes, t)
  BY DEF Made
<1>2. \A t : ServedBefore(R \cup {r}, s, t) = ServedBefore(R, s, t)
  BY DEF ServedBefore
<1> DEFINE start == c.expires - Second
<1>3. /\ Made(R \cup {r}, s, {200}, start) = Made(R, s, {200}, start)
      /\ Made(R \cup {r}, s, {200}, start + 1) = Made(R, s, {200}, start + 1)
      /\ Made(R \cup {r}, s, {0, 200}, start) = Made(R, s, {0, 200}, start)
      /\ ServedBefore(R \cup {r}, s, start) = ServedBefore(R, s, start)
  BY <1>1, <1>2
<1>4. /\ (\A q \in R : q.system # s) => \A q \in R \cup {r} : q.system # s
      /\ (\A q \in R : q.system = s => q.time < c.expires) =>
           \A q \in R \cup {r} : q.system = s => q.time < c.expires
  OBVIOUS
<1>5. QED  BY <1>3, <1>4, ZenonT(60) DEF WindowHeld

\* A second that goes by takes old calls from a window and closes it in time.
LEMMA WindowAges ==
  ASSUME RecentHeld, Tick, NEW s \in Systems, WindowHeld(s, windows[s], recent)
  PROVE  WindowHeld(s, windows[s], recent)'
<1> DEFINE Q == {r \in recent : r.time > (now + 1) - Second}
<1>1. /\ now' = now + 1 /\ recent' = Q /\ windows' = windows
      /\ now \in Nat /\ Second \in Nat /\ IsFiniteSet(recent) /\ \A r \in recent : r.time \in Int
  BY AccessAssumption DEF Tick, Lately, RecentHeld, CallsHeld, AllCalls
<1>2. PICK c \in Counter : c = windows[s]
  BY DEF WindowHeld
<1>3. c.n \in Nat /\ c.expires \in Nat /\ Rps[s] \in Nat
  BY AccessAssumption DEF Counter, Systems
<1> DEFINE start == c.expires - Second
<1>4. WindowHeld(s, c, recent)
  BY <1>2
<1>5. ASSUME NEW outcomes, NEW t
      PROVE  /\ Cardinality(Made(Q, s, outcomes, t)) <= Cardinality(Made(recent, s, outcomes, t))
             /\ Cardinality(ServedBefore(Q, s, t)) <= Cardinality(ServedBefore(recent, s, t))
             /\ Cardinality(Made(Q, s, outcomes, t)) \in Nat
                  /\ Cardinality(Made(recent, s, outcomes, t)) \in Nat
             /\ Cardinality(ServedBefore(Q, s, t)) \in Nat /\ Cardinality(ServedBefore(recent, s, t)) \in Nat
  <2>1. Made(Q, s, outcomes, t) \subseteq Made(recent, s, outcomes, t)
        /\ ServedBefore(Q, s, t) \subseteq ServedBefore(recent, s, t) /\ IsFiniteSet(Q)
    BY <1>1, FS_Subset DEF Made, ServedBefore
  <2> HIDE DEF Q
  <2>2. QED  BY <1>1, <2>1, Numbers, FS_Subset
<1>6. c.expires > now + 1 => Made(Q, s, {0, 200}, start) = Made(recent, s, {0, 200}, start)
  BY <1>1, <1>3 DEF Made
<1>7. \A r \in Q : r \in recent
  OBVIOUS
<1> HIDE DEF Q
<1>8. CASE c.n = 0
  BY <1>1, <1>2, <1>4, <1>7, <1>8 DEF WindowHeld
<1>9. CASE c.n > 0
  <2>1. /\ start <= now /\ \A r \in Q : r.system = s => r.time < c.expires
        /\ Cardinality(Made(recent, s, {200}, start)) <= c.n
        /\ Cardinality(Made(recent, s, {200}, start)) <= Rps[s]
        /\ Cardinality(Made(recent, s, {200}, start + 1)) <= c.n - 1
        /\ Cardinality(Made(recent, s, {200}, start + 1)) <= Rps[s] - 1
        /\ Cardinality(ServedBefore(recent, s, start)) <= Rps[s] - 1
        /\ c.expires > now + 1 =>
             \/ Cardinality(Made(Q, s, {0, 200}, start)) >= c.n
             \/ Cardinality(Made(Q, s, {0, 200}, start)) >= Rps[s]
    BY <1>1, <1>3, <1>4, <1>6, <1>7, <1>9 DEF WindowHeld
  <2>2. Cardinality(Made(Q, s, {200}, start)) <= c.n /\ Cardinality(Made(Q, s, {200}, start)) <= Rps[s]
    <3>1. PICK i \in Nat, j \in Nat :
            i = Cardinality(Made(Q, s, {200}, start))
              /\ j = Cardinality(Made(recent, s, {200}, start)) /\ i <= j
      BY <1>5
    <3>2. j <= c.n /\ j <= Rps[s]
      BY <2>1, <3>1
    <3>3. i <= c.n /\ i <= Rps[s]
      BY <1>3, <3>1, <3>2
    <3>4. QED  BY <3>1, <3>3
  <2>3. Cardinality(Made(Q, s, {200}, start + 1)) <= c.n - 1
          /\ Cardinality(Made(Q, s, {200}, start + 1)) <= Rps[s] - 1
    <3>1. PICK i \in Nat, j \in Nat :
            i = Cardinality(Made(Q, s, {200}, start + 1))
              /\ j = Cardinality(Made(recent, s, {200}, start + 1)) /\ i <= j
      BY <1>5
    <3>2. j <= c.n - 1 /\ j <= Rps[s] - 1
      BY <2>1, <3>1
    <3>3. i <= c.n - 1 /\ i <= Rps[s] - 1
      BY <1>3, <3>1, <3>2
    <3>4. QED  BY <3>1, <3>3
  <2>4. Cardinality(ServedBefore(Q, s, start)) <= Rps[s] - 1
    <3>1. PICK i \in Nat, j \in Nat :
            i = Cardinality(ServedBefore(Q, s, start))
              /\ j = Cardinality(ServedBefore(recent, s, start)) /\ i <= j
      BY <1>5
    <3>2. j <= Rps[s] - 1
      BY <2>1, <3>1
    <3>3. i <= Rps[s] - 1
      BY <1>3, <3>1, <3>2
    <3>4. QED  BY <3>1, <3>3
  <2>5. start <= now + 1 /\ c.n # 0
    BY <1>1, <1>3, <1>9, <2>1
  <2>6. QED  BY <1>1, <1>2, <2>1, <2>2, <2>3, <2>4, <2>5 DEF WindowHeld
<1>10. QED  BY <1>3, <1>8, <1>9

LEMMA Times ==
  ASSUME NEW a \in Nat, NEW b \in Nat, NEW c \in Nat
  PROVE  /\ a * c \in Nat /\ c * a = a * c /\ (a + 1) * c = a * c + c /\ 0 * c = 0
         /\ a <= b => a * c <= b * c
         /\ a < b => a * c + c <= b * c
<1>1. a * c \in Nat /\ c * a = a * c /\ (a + 1) * c = a * c + c /\ 0 * c = 0
  OBVIOUS
<1>2. ASSUME a <= b PROVE a * c <= b * c
  <2>1. PICK d \in Nat : b = a + d
    <3>1. b - a \in Nat /\ b = a + (b - a)
      BY <1>2
    <3>2. QED  BY <3>1
  <2>2. b * c = a * c + d * c /\ d * c \in Nat
    BY <2>1
  <2>3. QED  BY <1>1, <2>2
<1>3. ASSUME a < b PROVE a * c + c <= b * c
  <2>1. PICK d \in Nat : b = (a + 1) + d
    <3>1. b - (a + 1) \in Nat /\ b = (a + 1) + (b - (a + 1))
      BY <1>3
    <3>2. QED  BY <3>1
  <2>2. b * c = (a + 1) * c + d * c /\ d * c \in Nat
    BY <2>1
  <2>3. QED  BY <1>1, <2>2
<1>4. QED  BY <1>1, <1>2, <1>3

LEMMA BalanceIs ==
  ASSUME LimitsHeld, now \in Nat, NEW s \in Systems
  PROVE  /\ Rps[s] \in Nat /\ Second \in Nat /\ Full(s) = Second * Rps[s] /\ Full(s) \in Nat
         /\ Rps[s] >= 1 /\ Second >= 1
         /\ s \notin DOMAIN limits => Balance(s) = Full(s)
         /\ s \in DOMAIN limits =>
              LET flown == limits[s].balance + (now - limits[s].last) * Rps[s]
              IN  flown \in Nat /\ Balance(s) = IF Full(s) <= flown THEN Full(s) ELSE flown
         /\ Balance(s) \in 0..Full(s)
<1>1. Rps[s] \in Nat /\ Second \in Nat /\ Rps[s] >= 1 /\ Second >= 1
  BY AccessAssumption DEF Systems
<1>2. Full(s) = Second * Rps[s] /\ Full(s) \in Nat
  BY <1>1, Times DEF Full
<1>3. s \notin DOMAIN limits => Balance(s) = Full(s)
  BY DEF Balance
<1> DEFINE flown == limits[s].balance + (now - limits[s].last) * Rps[s]
<1>4. ASSUME s \in DOMAIN limits
      PROVE  flown \in Nat /\ Balance(s) = IF Full(s) <= flown THEN Full(s) ELSE flown
  <2>1. limits[s].balance \in Nat /\ now - limits[s].last \in Nat
    BY <1>4 DEF LimitsHeld
  <2>2. (now - limits[s].last) * Rps[s] \in Nat
    BY <1>1, <2>1, Times
  <2>3. flown \in Nat
    BY <2>1, <2>2
  <2>4. Balance(s) = Min({Full(s), flown})
    BY <1>4 DEF Balance
  <2> HIDE DEF flown
  <2>5. QED  BY <1>2, <2>3, <2>4, MinOfTwo
<1>5. Balance(s) \in 0..Full(s)
  <2> HIDE DEF flown
  <2>1. QED  BY <1>2, <1>3, <1>4
<1>6. QED  BY <1>1, <1>2, <1>3, <1>4, <1>5

\* What a tick adds to a balance.
LEMMA BalanceFlows ==
  ASSUME LimitsHeld, now \in Nat, Tick, NEW s \in Systems
  PROVE  /\ LimitsHeld' /\ Balance(s)' \in 0..Full(s)
         /\ Balance(s)' = Full(s) \/ Balance(s)' = Balance(s) + Rps[s]
         /\ Balance(s)' <= Balance(s) + Rps[s]
<1>1. now' = now + 1 /\ limits' = limits /\ now' \in Nat
  BY DEF Tick
<1>2. LimitsHeld'
  BY <1>1 DEF LimitsHeld
<1>3. /\ Rps[s] \in Nat /\ Full(s) \in Nat /\ Balance(s) \in 0..Full(s)
      /\ s \notin DOMAIN limits => Balance(s) = Full(s)
  BY BalanceIs
<1>4. CASE s \notin DOMAIN limits
  <2>1. Balance(s)' = Full(s)
    BY <1>1, <1>4 DEF Balance, Full
  <2>2. QED  BY <1>2, <1>3, <1>4, <2>1
<1>5. CASE s \in DOMAIN limits
  <2> DEFINE flown == limits[s].balance + (now - limits[s].last) * Rps[s]
             later == limits[s].balance + ((now + 1) - limits[s].last) * Rps[s]
  <2>1. flown \in Nat /\ Balance(s) = IF Full(s) <= flown THEN Full(s) ELSE flown
    BY <1>5, BalanceIs
  <2>2. later = flown + Rps[s]
    <3>1. limits[s].balance \in Nat /\ now - limits[s].last \in Nat
          /\ (now + 1) - limits[s].last = (now - limits[s].last) + 1
      BY <1>5 DEF LimitsHeld
    <3>2. ((now - limits[s].last) + 1) * Rps[s] = (now - limits[s].last) * Rps[s] + Rps[s]
          /\ (now - limits[s].last) * Rps[s] \in Nat
      BY <1>3, <3>1, Times
    <3>3. QED  BY <1>3, <3>1, <3>2
  <2>3. Balance(s)' = Min({Full(s), later})
    BY <1>1, <1>5 DEF Balance, Full
  <2> HIDE DEF flown, later
  <2>4. later \in Nat
    BY <1>3, <2>1, <2>2
  <2>5. Balance(s)' = IF Full(s) <= later THEN Full(s) ELSE later
    BY <1>3, <2>3, <2>4, MinOfTwo
  <2>6. QED  BY <1>2, <1>3, <2>1, <2>2, <2>4, <2>5
<1>6. QED  BY <1>4, <1>5

LEMMA BalanceAges ==
  ASSUME RecentHeld, LimitsHeld, Tick, NEW s \in Systems, BalanceHeld(s)
  PROVE  BalanceHeld(s)'
<1> DEFINE Q == {r \in recent : r.time > (now + 1) - Second}
<1>1. /\ now' = now + 1 /\ recent' = Q /\ now \in Nat /\ IsFiniteSet(recent)
      /\ \A r \in recent : r.time \in Int /\ r.time <= now
  <2>1. now' = now + 1 /\ recent' = Q
    BY DEF Tick, Lately
  <2>2. now \in Nat /\ IsFiniteSet(recent) /\ \A r \in recent : r.time \in Int /\ r.time <= now
    BY DEF RecentHeld, CallsHeld, AllCalls
  <2>3. QED  BY <2>1, <2>2
<1>2. PICK rate \in Nat, second \in Nat, full \in Nat, balance \in Nat, after \in Nat :
        /\ rate = Rps[s] /\ second = Second /\ full = Full(s) /\ balance = Balance(s) /\ after = Balance(s)'
        /\ full = second * rate /\ second >= 1
        /\ after <= full /\ after <= balance + rate /\ (after = full \/ after = balance + rate)
  <2>1. Rps[s] \in Nat /\ Second \in Nat /\ Full(s) \in Nat /\ Full(s) = Second * Rps[s] /\ Second >= 1
        /\ Balance(s) \in 0..Full(s)
    BY <1>1, BalanceIs
  <2>2. Balance(s)' \in 0..Full(s) /\ Balance(s)' <= Balance(s) + Rps[s]
        /\ (Balance(s)' = Full(s) \/ Balance(s)' = Balance(s) + Rps[s])
    BY <1>1, BalanceFlows
  <2>3. Balance(s) \in Nat /\ Balance(s)' \in Nat /\ Balance(s)' <= Full(s)
    BY <2>1, <2>2
  <2>4. QED  BY <2>1, <2>2, <2>3
<1>3. ASSUME NEW t \in ((now + 1) - Second)..(now + 1)
      PROVE  /\ second * Cardinality(Made(Q, s, {200}, t)) + after <= full + ((now + 1) - t) * rate
             /\ second * Cardinality(Made(Q, s, {200}, t + 1)) + after >= ((now + 1) - t) * rate
  <2>1. PICK i \in Nat, j \in Nat, k \in Nat, l \in Nat :
          /\ i = Cardinality(Made(Q, s, {200}, t)) /\ j = Cardinality(Made(Q, s, {200}, t + 1))
          /\ k = Cardinality(Made(recent, s, {200}, t)) /\ l = Cardinality(Made(recent, s, {200}, t + 1))
          /\ i <= k /\ j = l
    <3>1. Made(Q, s, {200}, t) \subseteq Made(recent, s, {200}, t) /\ IsFiniteSet(Q)
      BY <1>1, FS_Subset DEF Made
    <3>2. Made(Q, s, {200}, t + 1) = Made(recent, s, {200}, t + 1)
      BY <1>1, <1>2 DEF Made
    <3> HIDE DEF Q
    <3>3. QED  BY <1>1, <3>1, <3>2, Numbers, FS_Subset
  <2>2. PICK spent \in Nat, spent_before \in Nat, spent_after \in Nat :
          /\ spent = second * i /\ spent_before = second * k /\ spent_after = second * l
          /\ spent <= spent_before
    <3>1. i * second <= k * second /\ i * second \in Nat /\ k * second \in Nat /\ l * second \in Nat
      BY <2>1, Times
    <3>2. QED  BY <3>1
  <2>3. CASE t = now + 1
    <3>1. Made(Q, s, {200}, t) = {} /\ Made(Q, s, {200}, t + 1) = {}
      BY <1>1, <2>3 DEF Made
    <3>2. i = 0 /\ j = 0
      <4>1. Cardinality({}) = 0
        BY FS_EmptySet
      <4>2. QED  BY <2>1, <3>1, <4>1, ZenonT(60)
    <3>3. second * i = 0 /\ second * j = 0 /\ ((now + 1) - t) * rate = 0
      BY <1>1, <2>3, <3>2
    <3>4. QED  BY <1>2, <2>1, <3>3
  <2>4. CASE t # now + 1
    <3>1. t \in (now - Second)..now /\ now - t \in Nat /\ (now + 1) - t \in Nat /\ (now + 1) - t = (now - t) + 1
          /\ (now + 1) - t <= second
      BY <1>1, <1>2, <2>4
    <3>2. /\ second * k + balance <= full + (now - t) * rate
          /\ second * l + balance >= (now - t) * rate
      BY <1>2, <2>1, <3>1 DEF BalanceHeld
    <3>3. PICK flow \in Nat, flow_after \in Nat :
            flow = (now - t) * rate /\ flow_after = ((now + 1) - t) * rate
              /\ flow_after = flow + rate /\ flow_after <= full
      <4>1. ((now - t) + 1) * rate = (now - t) * rate + rate /\ (now - t) * rate \in Nat
        BY <3>1, Times
      <4>2. ((now + 1) - t) * rate <= second * rate
        BY <3>1, Times
      <4>3. QED  BY <1>2, <3>1, <4>1, <4>2
    <3>4. spent_before + balance <= full + flow /\ spent_after + balance >= flow
      BY <2>2, <3>2, <3>3
    <3>5. spent + after <= full + flow_after /\ spent_after + after >= flow_after
      BY <1>2, <2>2, <3>3, <3>4
    <3>6. QED  BY <2>1, <2>2, <3>3, <3>5
  <2>5. QED  BY <2>3, <2>4
<1>4. Balance(s)' \in 0..Full(s)'
  BY <1>1, BalanceFlows DEF Full
<1> HIDE DEF Q
<1>5. QED  BY <1>1, <1>2, <1>3, <1>4 DEF BalanceHeld, Full

\* A call is one of the recent ones from then on, and a new one.
LEMMA CallIsNew ==
  ASSUME RecentHeld, NEW s \in Systems, NEW outcome \in {0, 200, 429}, NEW n \in {1, 2}
  PROVE  /\ Called(s, outcome, n) \in AllCalls /\ Called(s, outcome, n) \notin recent
         /\ Called(s, outcome, n).system = s /\ Called(s, outcome, n).time = now
         /\ Called(s, outcome, n).number = Cardinality(recent) + n /\ Called(s, outcome, n).outcome = outcome
<1>1. Cardinality(recent) \in Nat /\ Cardinality(renewed) \in Nat /\ now \in Nat
  BY FS_CardinalityType DEF RecentHeld, CallsHeld
<1>2. QED  BY <1>1 DEF Called, AllCalls, RecentHeld, CallsHeld

LEMMA BalanceCharged ==
  ASSUME RecentHeld, LimitsHeld, NEW s \in Systems, NEW secret, ByBalance(s, secret), UNCHANGED now,
         \A t \in Systems : BalanceHeld(t)
  PROVE  LimitsHeld' /\ \A t \in Systems : BalanceHeld(t)'
<1> DEFINE code == IF Balance(s) < Second THEN 429 ELSE 200
           left == IF code = 200 THEN Balance(s) - Second ELSE Balance(s)
           r == Called(s, code, 1)
           Q == recent \cup {r}
<1>1. /\ limits' = [t \in DOMAIN limits \cup {s} |-> IF t = s THEN [balance |-> left, last |-> now] ELSE limits[t]]
      /\ recent' = Q /\ now' = now
  BY DEF ByBalance
<1>2. code \in {200, 429} /\ now \in Nat /\ IsFiniteSet(recent)
  BY DEF RecentHeld, CallsHeld
<1>3. /\ Balance(s) \in 0..Full(s) /\ Full(s) \in Nat /\ Second \in Nat /\ Second >= 1
      /\ Rps[s] \in Nat
  BY <1>2, BalanceIs
<1>4. /\ left \in Nat /\ left <= Full(s)
      /\ code = 200 => Balance(s) = left + Second
      /\ code = 429 => Balance(s) = left
  BY <1>3
<1> HIDE DEF code, left
<1>5. r \notin recent /\ r.system = s /\ r.time = now /\ r.outcome = code
  BY <1>2, CallIsNew
<1> HIDE DEF r
<1>6. LimitsHeld'
  BY <1>1, <1>2, <1>4 DEF LimitsHeld
<1>7. ASSUME NEW t \in Systems, t # s PROVE BalanceHeld(t)'
  <2>1. Balance(t)' = Balance(t) /\ Full(t)' = Full(t)
    BY <1>1, <1>7 DEF Balance, Full
  <2>2. \A u : Made(Q, t, {200}, u) = Made(recent, t, {200}, u)
    BY <1>5, <1>7 DEF Made
  <2> HIDE DEF Q
  <2>3. BalanceHeld(t)
    OBVIOUS
  <2>4. QED  BY <1>1, <2>1, <2>2, <2>3 DEF BalanceHeld
<1>8. Balance(s)' = left /\ Full(s)' = Full(s)
  <2>1. Balance(s)' = Min({Full(s), left + (now - now) * Rps[s]}) /\ Full(s)' = Full(s)
    BY <1>1 DEF Balance, Full
  <2>2. left + (now - now) * Rps[s] = left
    BY <1>2, <1>3, <1>4
  <2>3. QED  BY <1>3, <1>4, <2>1, <2>2, MinOfTwo
<1>9. ASSUME NEW t \in (now - Second)..now
      PROVE  /\ Second * Cardinality(Made(Q, s, {200}, t)) + left <= Full(s) + (now - t) * Rps[s]
             /\ Second * Cardinality(Made(Q, s, {200}, t + 1)) + left >= (now - t) * Rps[s]
  <2>1. t \in Int /\ t <= now /\ now - t \in Nat
    BY <1>2, <1>3
  <2>2. PICK i \in Nat, j \in Nat, second \in Nat, full \in Nat, balance \in Nat, flow \in Nat :
          /\ i = Cardinality(Made(recent, s, {200}, t)) /\ j = Cardinality(Made(recent, s, {200}, t + 1))
          /\ second = Second /\ full = Full(s) /\ balance = Balance(s) /\ flow = (now - t) * Rps[s]
    <3>1. (now - t) * Rps[s] \in Nat
      BY <1>3, <2>1, Times
    <3>2. Balance(s) \in Nat
      BY <1>3
    <3>3. Cardinality(Made(recent, s, {200}, t)) \in Nat /\ Cardinality(Made(recent, s, {200}, t + 1)) \in Nat
      BY <1>2, Numbers
    <3>4. QED  BY <1>3, <3>1, <3>2, <3>3
  <2>3. second * i + balance <= full + flow /\ second * j + balance >= flow
    BY <2>2 DEF BalanceHeld
  <2>4. PICK spent \in Nat, saved \in Nat :
          /\ spent = second * i /\ saved = second * j
          /\ second * (i + 1) = spent + second /\ second * (j + 1) = saved + second
    <3>1. (i + 1) * second = i * second + second /\ i * second \in Nat
      BY <2>2, Times
    <3>2. (j + 1) * second = j * second + second /\ j * second \in Nat
      BY <2>2, Times
    <3>3. QED  BY <3>1, <3>2
  <2>5. CASE code = 429
    <3>1. Made(Q, s, {200}, t) = Made(recent, s, {200}, t)
            /\ Made(Q, s, {200}, t + 1) = Made(recent, s, {200}, t + 1)
      BY <1>5, <2>5 DEF Made
    <3>2. balance = left
      BY <1>4, <2>2, <2>5
    <3> HIDE DEF Q
    <3>3. QED  BY <2>2, <2>3, <3>1, <3>2
  <2>6. CASE code = 200
    <3>1. balance = left + second
      BY <1>4, <2>2, <2>6
    <3>2. Cardinality(Made(Q, s, {200}, t)) = i + 1
      <4>1. Cardinality(Made(Q, s, {200}, t)) = Cardinality(Made(recent, s, {200}, t)) + 1
        BY <1>2, <1>5, <2>1, <2>6, OneMore
      <4>2. QED  BY <2>2, <4>1
    <3>3. (spent + second) + left <= full + flow
      BY <1>4, <2>3, <2>4, <3>1
    <3>4. CASE t = now
      <4>1. flow = 0
        BY <1>2, <1>3, <2>2, <3>4
      <4>2. Cardinality(Made(Q, s, {200}, t + 1)) \in Nat
        <5>1. IsFiniteSet(Q)
          BY <1>2, FS_AddElement
        <5> HIDE DEF Q
        <5>2. QED  BY <5>1, Numbers
      <4>3. Second * Cardinality(Made(Q, s, {200}, t + 1)) \in Nat
        BY <1>3, <4>2, Times
      <4> HIDE DEF Q
      <4>4. QED  BY <1>4, <2>2, <2>4, <3>2, <3>3, <4>1, <4>3
    <3>5. CASE t # now
      <4>1. t + 1 <= now
        BY <1>2, <2>1, <3>5
      <4>2. Cardinality(Made(Q, s, {200}, t + 1)) = j + 1
        <5>1. Cardinality(Made(Q, s, {200}, t + 1)) = Cardinality(Made(recent, s, {200}, t + 1)) + 1
          BY <1>2, <1>5, <2>6, <4>1, OneMore
        <5>2. QED  BY <2>2, <5>1
      <4>3. (saved + second) + left >= flow
        BY <1>4, <2>3, <2>4, <3>1
      <4> HIDE DEF Q
      <4>4. QED  BY <2>2, <2>4, <3>2, <3>3, <4>2, <4>3
    <3>6. QED  BY <3>4, <3>5
  <2>7. QED  BY <1>2, <2>5, <2>6
<1>10. BalanceHeld(s)'
  <2>1. Balance(s)' \in 0..Full(s)'
    BY <1>3, <1>4, <1>8
  <2> HIDE DEF Q
  <2>2. QED  BY <1>1, <1>8, <1>9, <2>1 DEF BalanceHeld
<1>11. QED  BY <1>6, <1>7, <1>10

LEMMA CallsGrow ==
  ASSUME now \in Nat, NEW R \in SUBSET AllCalls, CallsHeld(R), NEW r \in AllCalls,
         r.time = now, r.number = Cardinality(R) + 1
  PROVE  CallsHeld(R \cup {r}) /\ r \notin R /\ Cardinality(R \cup {r}) = Cardinality(R) + 1
<1>1. IsFiniteSet(R) /\ Cardinality(R) \in Nat /\ Second \in Nat /\ Second >= 1
  BY FS_CardinalityType, AccessAssumption DEF CallsHeld
<1>2. r \notin R
  BY <1>1 DEF CallsHeld
<1>3. IsFiniteSet(R \cup {r}) /\ Cardinality(R \cup {r}) = Cardinality(R) + 1
  BY <1>1, <1>2, FS_AddElement
<1>4. ASSUME NEW q \in R \cup {r}
      PROVE  q.time <= now /\ q.time > now - Second /\ (q.time = now => q.number <= Cardinality(R) + 1)
  <2>1. CASE q = r
    BY <1>1, <2>1
  <2>2. CASE q \in R
    <3>1. q.number \in Int
      BY <2>2 DEF AllCalls
    <3>2. QED  BY <1>1, <2>2, <3>1 DEF CallsHeld
  <2>3. QED  BY <2>1, <2>2
<1>5. QED  BY <1>2, <1>3, <1>4 DEF CallsHeld

RedisHeld(w, R) ==
  /\ w \in [Systems -> Counter] /\ CallsHeld(R) /\ RenewedHeld
  /\ \A t \in Systems : WindowHeld(t, w[t], R) /\ OneWindow(t, w[t], R)

\* A run of the script after a loss: it goes on with the one window, or opens it.
LEMMA OneWindowStays ==
  ASSUME now \in Nat, RenewedHeld, NEW s \in Systems, NEW c \in Counter, NEW R \in SUBSET AllCalls,
         NEW r \in AllCalls, r.time = now, WindowHeld(s, c, R), OneWindow(s, c, R)
  PROVE  OneWindow(s, Script(c), R \cup {r})
<1> SUFFICES ASSUME NEW l \in renewed, Script(c).n > 0
             PROVE  /\ Script(c).expires >= l.time + Second
                    /\ \A q \in R \cup {r} : q.system = s /\ q.outcome = 200 => q.time >= Script(c).expires - Second
  BY DEF OneWindow
<1>1. /\ l.time \in Nat /\ l.time <= now /\ l.time > now - Second /\ Second \in Nat
      /\ c.n \in Nat /\ c.expires \in Nat
  BY AccessAssumption DEF RenewedHeld, Counter
<1>2. CASE c.n = 0
  <2>1. Script(c).expires = now + Second
    BY <1>1, <1>2 DEF Script, Live, NoCounter
  <2>2. \A q \in R : q.system # s
    BY <1>2 DEF WindowHeld
  <2>3. QED  BY <1>1, <2>1, <2>2
<1>3. CASE c.n > 0
  <2>1. /\ c.expires >= l.time + Second /\ c.expires - Second <= now
        /\ \A q \in R : q.system = s /\ q.outcome = 200 => q.time >= c.expires - Second
    BY <1>3 DEF OneWindow, WindowHeld
  <2>2. c.expires > now
    BY <1>1, <2>1
  <2>3. Script(c).expires = c.expires
    BY <1>3, <2>2 DEF Script, Live
  <2>4. QED  BY <1>1, <2>1, <2>3
<1>4. QED  BY <1>1, <1>2, <1>3

After(w, s) == [w EXCEPT ![s] = Script(w[s])]

\* The call r of the system s is what a run of the script makes of the counters w.
IsRun(w, R, s, r) ==
  /\ s \in Systems /\ r \in AllCalls
  /\ r.system = s /\ r.time = now /\ r.number = Cardinality(R) + 1
  /\ r.outcome = 200 => Script(w[s]).n <= Rps[s]
  /\ Script(w[s]).n <= Rps[s] => r.outcome \in {0, 200}

\* One run of the script, for all counters.
LEMMA RunOfScript ==
  ASSUME now \in Nat, NEW w, NEW R, NEW s, NEW r, RedisHeld(w, R), IsRun(w, R, s, r)
  PROVE  /\ RedisHeld(After(w, s), R \cup {r})
         /\ Cardinality(R \cup {r}) = Cardinality(R) + 1
         /\ Script(w[s]).n > 0 /\ Script(w[s]).expires > now
<1> USE DEF RedisHeld, IsRun, After
<1>1. CallsHeld(R \cup {r}) /\ r \notin R /\ Cardinality(R \cup {r}) = Cardinality(R) + 1
  BY CallsGrow DEF CallsHeld
<1>2. IsFiniteSet(R) /\ R \in SUBSET AllCalls /\ \A q \in R : q.time <= now /\ q.time > now - Second
  BY DEF CallsHeld
<1>3. PICK c \in Counter : c = w[s]
  OBVIOUS
<1>4. WindowHeld(s, c, R)
  BY <1>3
<1>5. WindowHeld(s, Script(c), R \cup {r}) /\ Script(c) \in Counter /\ Script(c).n > 0
        /\ Script(c).expires > now
  BY <1>1, <1>2, <1>3, <1>4, ScriptHeld
<1>6. ASSUME NEW t \in Systems, t # s PROVE WindowHeld(t, w[t], R \cup {r}) /\ OneWindow(t, w[t], R \cup {r})
  <2>1. PICK d \in Counter : d = w[t]
    OBVIOUS
  <2>2. WindowHeld(t, d, R) /\ OneWindow(t, d, R)
    BY <2>1
  <2>3. WindowHeld(t, d, R \cup {r})
    BY <1>2, <1>6, <2>2, OthersHeld
  <2>4. OneWindow(t, d, R \cup {r})
    BY <1>6, <2>2 DEF OneWindow
  <2>5. QED  BY <2>1, <2>3, <2>4
<1>7. OneWindow(s, Script(c), R \cup {r})
  <2>1. OneWindow(s, c, R)
    BY <1>3
  <2>2. QED  BY <1>2, <1>4, <2>1, OneWindowStays
<1>8. ASSUME NEW t \in Systems
      PROVE  WindowHeld(t, After(w, s)[t], R \cup {r}) /\ OneWindow(t, After(w, s)[t], R \cup {r})
  <2>1. CASE t = s
    <3>1. After(w, s)[t] = Script(c)
      BY <1>3, <2>1
    <3>2. QED  BY <1>5, <1>7, <2>1, <3>1
  <2>2. CASE t # s
    <3>1. After(w, s)[t] = w[t]
      BY <2>2
    <3>2. QED  BY <1>6, <2>2, <3>1
  <2>3. QED  BY <2>1, <2>2
<1>9. After(w, s) \in [Systems -> Counter] /\ Script(w[s]).n > 0 /\ Script(w[s]).expires > now
  BY <1>3, <1>5
<1>10. QED  BY <1>1, <1>8, <1>9

Code(c, s) == IF c.n > Rps[s] THEN 429 ELSE 200

\* The run whose reply arrived started from the counters w and the calls R, and was the
\* n-th of its call.
LastRun(w, R, n, s, secret) ==
  /\ RedisHeld(w, R) /\ Cardinality(R) + 1 = Cardinality(recent) + n
  /\ windows' = After(w, s)
  /\ recent' = R \cup {Called(s, Code(Script(w[s]), s), n)}
  /\ answer' = [system |-> s, secret |-> secret, status |-> Code(Script(w[s]), s)]

LEMMA CountedInRedis ==
  ASSUME now \in Nat, RedisHeld(windows, recent), NEW s \in Systems, NEW secret, ByRedis(s, secret),
         UNCHANGED <<now, renewed>>
  PROVE  RedisHeld(windows, recent)' /\ TurnedAwayAtLimit'
<1>1. PICK repeated \in BOOLEAN :
        LET c == Script(IF repeated THEN Script(windows[s]) ELSE windows[s])
            code == IF c.n > Rps[s] THEN 429 ELSE 200
        IN  /\ windows' = [windows EXCEPT ![s] = c]
            /\ recent' = recent \cup (IF repeated THEN {Called(s, 0, 1), Called(s, code, 2)}
                                      ELSE {Called(s, code, 1)})
            /\ answer' = [system |-> s, secret |-> secret, status |-> code]
            /\ sealed' = IF code = 200 THEN sealed \cup {settings.key} ELSE sealed
            /\ UNCHANGED limits
  BY ZenonT(30) DEF ByRedis
<1>2. Cardinality(recent) \in Nat
  BY FS_CardinalityType DEF RedisHeld, CallsHeld
<1> DEFINE first == Called(s, 0, 1)
           twice == After(windows, s)
<1>3. \E w, R : LastRun(w, R, 1, s, secret) \/ LastRun(w, R, 2, s, secret)
  <2>1. CASE repeated
    <3>1. /\ first \in AllCalls /\ first.system = s /\ first.time = now
          /\ first.number = Cardinality(recent) + 1 /\ first.outcome = 0
      BY CallIsNew DEF RedisHeld, RecentHeld, RenewedHeld
    <3>2. /\ recent' = (recent \cup {first}) \cup {Called(s, Code(Script(Script(windows[s])), s), 2)}
          /\ windows' = [windows EXCEPT ![s] = Script(Script(windows[s]))]
          /\ answer' = [system |-> s, secret |-> secret, status |-> Code(Script(Script(windows[s])), s)]
      BY <1>1, <2>1 DEF Code
    <3> HIDE DEF first
    <3>3. IsRun(windows, recent, s, first)
      BY <3>1 DEF IsRun
    <3>4. RedisHeld(twice, recent \cup {first}) /\ Cardinality(recent \cup {first}) = Cardinality(recent) + 1
      BY <3>3, RunOfScript
    <3>5. twice[s] = Script(windows[s]) /\ After(twice, s) = [windows EXCEPT ![s] = Script(Script(windows[s]))]
      <4>1. PICK f \in [Systems -> Counter] : f = windows
        BY DEF RedisHeld
      <4>2. PICK d, e : d = Script(windows[s]) /\ e = Script(d)
        OBVIOUS
      <4>3. [f EXCEPT ![s] = d][s] = d /\ [[f EXCEPT ![s] = d] EXCEPT ![s] = e] = [f EXCEPT ![s] = e]
        OBVIOUS
      <4>4. QED  BY <4>1, <4>2, <4>3 DEF After
    <3> HIDE DEF twice
    <3>6. LastRun(twice, recent \cup {first}, 2, s, secret)
      BY <1>2, <3>2, <3>4, <3>5 DEF LastRun
    <3>7. QED  BY <3>6
  <2>2. CASE ~repeated
    <3>1. /\ recent' = recent \cup {Called(s, Code(Script(windows[s]), s), 1)}
          /\ windows' = After(windows, s)
          /\ answer' = [system |-> s, secret |-> secret, status |-> Code(Script(windows[s]), s)]
      BY <1>1, <2>2 DEF Code, After
    <3>2. LastRun(windows, recent, 1, s, secret)
      BY <1>2, <3>1 DEF LastRun
    <3>3. QED  BY <3>2
  <2>3. QED  BY <2>1, <2>2
<1>4. PICK w, R, n : n \in {1, 2} /\ LastRun(w, R, n, s, secret)
  <2>1. 1 \in {1, 2} /\ 2 \in {1, 2}
    OBVIOUS
  <2>2. QED  BY <1>3, <2>1
<1>5. PICK c \in Counter, code \in {200, 429} : c = Script(w[s]) /\ code = Code(c, s)
  <2>1. PICK d \in Counter : d = w[s]
    BY <1>4 DEF LastRun, RedisHeld
  <2>2. Script(d) \in Counter
    BY AccessAssumption DEF Script, Live, Counter, NoCounter
  <2>3. Code(Script(d), s) \in {200, 429}
    BY DEF Code
  <2>4. QED  BY <2>1, <2>2, <2>3
<1>6. PICK r \in AllCalls : r = Called(s, code, n) /\ IsRun(w, R, s, r) /\ r.outcome = code
  <2>1. /\ Called(s, code, n) \in AllCalls /\ Called(s, code, n).system = s /\ Called(s, code, n).time = now
        /\ Called(s, code, n).number = Cardinality(recent) + n /\ Called(s, code, n).outcome = code
    BY <1>4, CallIsNew DEF RedisHeld, RecentHeld, RenewedHeld
  <2>2. PICK r \in AllCalls : r = Called(s, code, n)
    BY <2>1
  <2>3. c.n \in Nat /\ Rps[s] \in Nat
    BY AccessAssumption DEF Counter, Systems
  <2>4. (code = 200 => c.n <= Rps[s]) /\ (c.n <= Rps[s] => code = 200)
    BY <1>5, <2>3 DEF Code
  <2>5. QED  BY <1>4, <1>5, <2>1, <2>2, <2>4 DEF IsRun, LastRun
<1> DEFINE Q == R \cup {r}
           v == After(w, s)
<1>7. RedisHeld(v, Q) /\ c.n > 0 /\ c.expires > now
  <2>1. RedisHeld(w, R) /\ IsRun(w, R, s, r)
    BY <1>4, <1>6 DEF LastRun
  <2>2. RedisHeld(After(w, s), R \cup {r}) /\ Script(w[s]).n > 0 /\ Script(w[s]).expires > now
    BY <2>1, RunOfScript
  <2>3. QED  BY <1>5, <2>2
<1>8. windows' = v /\ recent' = Q /\ now' = now /\ answer'.status = code /\ answer'.system = s
  BY <1>4, <1>5, <1>6 DEF LastRun
<1>9. v[s] = c /\ (code = 429 => c.n > Rps[s])
  BY <1>4, <1>5, AccessAssumption DEF LastRun, RedisHeld, After, Code, Counter, Systems
<1> HIDE DEF Q, v
<1>10. RedisHeld(windows, recent)'
  BY <1>7, <1>8 DEF RedisHeld, CallsHeld, WindowHeld, OneWindow, RenewedHeld
<1>11. ASSUME code = 429 PROVE TurnedAwayAtLimit'
  <2> DEFINE start == c.expires - Second
             Counted == {q \in Q : q.system = s /\ q.outcome \in {0, 200}}
  <2>1. WindowHeld(s, c, Q) /\ IsFiniteSet(Q)
    BY <1>7, <1>9 DEF RedisHeld, CallsHeld
  <2>2. PICK i \in Nat, j \in Nat :
          /\ i = Cardinality(Made(Q, s, {0, 200}, start)) /\ i <= j
          /\ j = Cardinality(Counted)
    <3>1. Made(Q, s, {0, 200}, start) \subseteq Counted /\ Counted \subseteq Q
      BY DEF Made
    <3>2. QED  BY <2>1, <3>1, FS_Subset, FS_CardinalityType
  <2>3. i >= c.n \/ i >= Rps[s]
    BY <1>7, <2>1, <2>2 DEF WindowHeld
  <2>4. c.n > Rps[s] /\ Rps[s] \in Nat /\ c.n \in Nat
    BY <1>9, <1>11, AccessAssumption DEF Systems, Counter
  <2>5. j >= Rps[s]
    BY <2>2, <2>3, <2>4
  <2>6. QED  BY <1>8, <2>2, <2>5 DEF TurnedAwayAtLimit, LimiterCalls
<1>12. TurnedAwayAtLimit'
  BY <1>8, <1>11 DEF TurnedAwayAtLimit
<1>13. QED  BY <1>10, <1>12

LEMMA RefusedOrLimited ==
  ASSUME LimitsInv, NEW header, NEW secret, Ask(header, secret)
  PROVE  \/ /\ UNCHANGED <<limits, windows, recent>> /\ answer'.status \in {401, 403}
         \/ \E s \in Systems : IF IsShared(env) THEN ByRedis(s, secret) ELSE ByBalance(s, secret)
<1>1. PICK s : s = System(header)
  OBVIOUS
<1>2. settings.up /\ AccessInv /\ env \in Environments
  BY DEF Ask, LimitsInv
<1>3. settings.shared = IsShared(env) /\ settings.policies = Policies(env)
  <2>1. settings = App(env, lives)
    BY <1>2, SettingsAre
  <2>2. QED  BY <2>1 DEF App
<1>4. CASE Refusal(s, secret) # {}
  <2>1. Refusal(s, secret) \subseteq {401, 403}
    BY ZenonT(60) DEF Refusal
  <2>2. Refused(s, secret)
    BY <1>1, <1>4 DEF Ask, authorize
  <2>3. PICK code \in Refusal(s, secret) : answer' = [system |-> s, secret |-> secret, status |-> code]
    BY <2>2 DEF Refused
  <2>4. answer'.status = code
    BY <2>3
  <2>5. UNCHANGED <<limits, windows, recent>>
    BY <2>2 DEF Refused
  <2>6. QED  BY <2>1, <2>4, <2>5
<1>5. CASE Refusal(s, secret) = {}
  <2>1. Limited(s, secret)
    BY <1>1, <1>5 DEF Ask, authorize
  <2>2. s \in DOMAIN settings.policies
    <3>1. {403} # {}
      OBVIOUS
    <3>2. QED  BY <1>5, <3>1 DEF Refusal
  <2>3. s \in Systems
    BY <1>2, <1>3, <2>2, AccessAssumption DEF Policies, Systems
  <2>4. QED  BY <1>3, <2>1, <2>3 DEF Limited
<1>6. QED  BY <1>4, <1>5

\* With a full balance, and nothing spent.
LEMMA NothingSpent ==
  ASSUME now \in Nat, NEW s \in Systems
  PROVE  /\ limits = <<>> /\ recent = {} => BalanceHeld(s)
         /\ now' = now /\ limits' = <<>> /\ recent' = {} => BalanceHeld(s)'
<1>1. Rps[s] \in Nat /\ Second \in Nat /\ Second >= 1 /\ Full(s) = Second * Rps[s]
  <2>1. Rps[s] \in Nat /\ Second \in Nat /\ Second >= 1
    BY AccessAssumption DEF Systems
  <2>2. Full(s) = Second * Rps[s]
    BY <2>1, Times DEF Full
  <2>3. QED  BY <2>1, <2>2
<1>2. Full(s) \in Nat
  BY <1>1, Times
<1>3. \A t, u : Made({}, s, {200}, t) = {} /\ Cardinality(Made({}, s, {200}, t)) = 0
  BY FS_EmptySet DEF Made
<1>4. Second * 0 = 0
  BY <1>1
<1>5. \A t \in (now - Second)..now :
        /\ Second * Cardinality(Made({}, s, {200}, t)) + Full(s) <= Full(s) + (now - t) * Rps[s]
        /\ Second * Cardinality(Made({}, s, {200}, t + 1)) + Full(s) >= (now - t) * Rps[s]
  <2> SUFFICES ASSUME NEW t \in (now - Second)..now
               PROVE  (now - t) * Rps[s] \in Nat /\ (now - t) * Rps[s] <= Full(s)
    BY <1>2, <1>3, <1>4
  <2>1. PICK a \in Nat : a = now - t /\ a <= Second
    BY <1>1
  <2>2. QED  BY <1>1, <2>1, Times
<1>6. Full(s) \in 0..Full(s)
  BY <1>2
<1>7. ASSUME limits = <<>>, recent = {} PROVE BalanceHeld(s)
  <2>1. Balance(s) = Full(s)
    BY <1>7 DEF Balance
  <2>2. QED  BY <1>5, <1>6, <1>7, <2>1 DEF BalanceHeld
<1>8. ASSUME now' = now, limits' = <<>>, recent' = {} PROVE BalanceHeld(s)'
  <2>1. Balance(s)' = Full(s) /\ Full(s)' = Full(s)
    BY <1>8 DEF Balance, Full
  <2>2. QED  BY <1>5, <1>6, <1>8, <2>1 DEF BalanceHeld
<1>9. QED  BY <1>7, <1>8

LEMMA RefusedByBalance ==
  ASSUME LimitsInv, NEW s \in Systems, NEW secret, ByBalance(s, secret), BalanceHeld(s)
  PROVE  TurnedAwayAtLimit'
<1>1. now \in Nat /\ IsFiniteSet(recent) /\ LimitsHeld
  BY DEF LimitsInv, RecentHeld, CallsHeld
<1>2. PICK code \in {200, 429} :
        /\ code = 429 => Balance(s) < Second
        /\ recent' = recent \cup {Called(s, code, 1)}
        /\ answer' = [system |-> s, secret |-> secret, status |-> code]
  <2>1. (IF Balance(s) < Second THEN 429 ELSE 200) \in {200, 429}
    OBVIOUS
  <2>2. QED  BY <2>1 DEF ByBalance
<1>3. answer'.status = code /\ answer'.system = s
  BY <1>2
<1>4. ASSUME code = 429 PROVE Cardinality({r \in recent' : r.system = s /\ r.outcome \in {0, 200}}) >= Rps[s]
  <2> DEFINE t == now - Second
             Counted == {r \in recent' : r.system = s /\ r.outcome \in {0, 200}}
  <2>1. /\ Rps[s] \in Nat /\ Second \in Nat /\ Second >= 1 /\ Balance(s) \in Nat
        /\ t \in (now - Second)..now /\ now - t = Second
    BY <1>1, BalanceIs
  <2>2. PICK i \in Nat, j \in Nat : /\ i = Cardinality(Made(recent, s, {200}, t + 1)) /\ i <= j
                                     /\ j = Cardinality(Counted)
    <3>1. Made(recent, s, {200}, t + 1) \subseteq Counted /\ Counted \subseteq recent'
      BY <1>2 DEF Made
    <3>2. IsFiniteSet(recent')
      BY <1>1, <1>2, FS_AddElement
    <3>3. QED  BY <3>1, <3>2, FS_Subset, FS_CardinalityType
  <2>3. Second * i + Balance(s) >= Second * Rps[s]
    BY <2>1, <2>2 DEF BalanceHeld
  <2>4. ~(i < Rps[s])
    <3>1. i < Rps[s] => i * Second + Second <= Rps[s] * Second
      BY <2>1, Times
    <3>2. i * Second = Second * i /\ Rps[s] * Second = Second * Rps[s] /\ i * Second \in Nat
            /\ Rps[s] * Second \in Nat
      BY <2>1, Times
    <3>3. QED  BY <1>2, <1>4, <2>1, <2>3, <3>1, <3>2
  <2>5. QED  BY <2>1, <2>2, <2>4
<1>5. QED  BY <1>3, <1>4 DEF TurnedAwayAtLimit, LimiterCalls

LEMMA LimitsStay ==
  ASSUME LimitsInv, UNCHANGED <<env, now, limits, windows, recent, past, renewed>>
  PROVE  /\ RecentHeld' /\ LimitsHeld' /\ PastHeld' /\ (windows \in [Systems -> Counter])'
         /\ (IsShared(env) => \A s \in Systems : WindowHeld(s, windows[s], recent) /\ OneWindow(s, windows[s], recent))'
         /\ (~IsShared(env) => \A s \in Systems : BalanceHeld(s))'
<1>1. RecentHeld' /\ LimitsHeld' /\ PastHeld' /\ (windows \in [Systems -> Counter])'
  <2>1. PastHeld' = PastHeld
    BY DEF PastHeld, RenewedHeld, ForgottenHeld, Since, IsShared, Full
  <2>2. QED  BY <2>1 DEF LimitsInv, RecentHeld, CallsHeld, LimitsHeld
<1>2. ASSUME IsShared(env), NEW s \in Systems
      PROVE  WindowHeld(s, windows[s], recent)' /\ OneWindow(s, windows[s], recent)'
  BY <1>2 DEF LimitsInv, WindowHeld, OneWindow
<1>3. ASSUME ~IsShared(env), NEW s \in Systems PROVE BalanceHeld(s)'
  <2>1. Balance(s)' = Balance(s) /\ Full(s)' = Full(s)
    BY DEF Balance, Full
  <2>2. QED  BY <1>3, <2>1 DEF LimitsInv, BalanceHeld
<1>4. IsShared(env)' = IsShared(env)
  BY DEF IsShared
<1>5. QED  BY <1>1, <1>2, <1>3, <1>4

\* A call at this moment, whatever its outcome, leaves what was forgotten as it is.
LEMMA PastStays ==
  ASSUME PastHeld, UNCHANGED <<env, now, past, renewed>>, now \in Nat,
         \A r \in recent' : r \in recent \/ r.time = now
  PROVE  PastHeld'
<1>1. RenewedHeld' /\ (IsFiniteSet(past) /\ \A r \in past : r.time \in Int /\ r.time <= now /\ r.time > now - Second)'
  BY DEF PastHeld, RenewedHeld
<1>2. ASSUME NEW s \in Systems, NEW t \in (now - Second + 1)..now PROVE ForgottenHeld(s, t)'
  <2>1. /\ Since(t)' = Since(t) /\ IsShared(env)' = IsShared(env) /\ Full(s)' = Full(s)
        /\ Made(past, s, {200}, t)' = Made(past, s, {200}, t) /\ ForgottenHeld(s, t)
    BY DEF Since, IsShared, Full, PastHeld
  <2>2. CASE Since(t) = {} \/ IsShared(env)
    BY <2>1, <2>2 DEF ForgottenHeld
  <2>3. CASE Since(t) # {} /\ ~IsShared(env)
    <3>1. PICK u \in t..now :
            /\ \A r \in recent : r.time >= u
            /\ Second * Cardinality(Made(past, s, {200}, t)) <= Cardinality(Since(t)) * Full(s) + (u - t) * Rps[s]
      BY <2>1, <2>3 DEF ForgottenHeld
    <3>2. \A r \in recent' : r.time >= u
      BY <3>1
    <3>3. QED  BY <2>1, <2>3, <3>1, <3>2 DEF ForgottenHeld
  <2>4. QED  BY <2>2, <2>3
<1>3. QED  BY <1>1, <1>2 DEF PastHeld

LEMMA AskLimited ==
  ASSUME LimitsInv, NEW header, NEW secret, Ask(header, secret)
  PROVE  LimitsInv'
<1>1. /\ AccessInv' /\ (env \in Environments)' /\ UNCHANGED <<env, now>> /\ IsShared(env)' = IsShared(env)
      /\ now \in Nat
  BY CallAnswered DEF Ask, LimitsInv, IsShared, RecentHeld
<1> UNCHANGED <<past, renewed>>
  BY DEF Ask
<1>2. ASSUME UNCHANGED <<limits, windows, recent>>, answer'.status \in {401, 403} PROVE LimitsInv'
  <2>1. TurnedAwayAtLimit'
    BY <1>2 DEF TurnedAwayAtLimit
  <2> HIDE DEF LimitsInv
  <2>2. /\ RecentHeld' /\ LimitsHeld' /\ PastHeld' /\ (windows \in [Systems -> Counter])'
        /\ (IsShared(env) => \A s \in Systems : WindowHeld(s, windows[s], recent) /\ OneWindow(s, windows[s], recent))'
        /\ (~IsShared(env) => \A s \in Systems : BalanceHeld(s))'
    BY <1>1, <1>2, LimitsStay
  <2>3. QED  BY <1>1, <2>1, <2>2 DEF LimitsInv
<1>3. ASSUME NEW s \in Systems, IsShared(env), ByRedis(s, secret) PROVE LimitsInv'
  <2>1. RedisHeld(windows, recent)
    BY <1>3 DEF LimitsInv, RecentHeld, RedisHeld, PastHeld
  <2>2. RedisHeld(windows, recent)' /\ TurnedAwayAtLimit'
    BY <1>1, <1>3, <2>1, CountedInRedis
  <2>3. LimitsHeld'
    <3>1. limits' = limits
      BY <1>3 DEF ByRedis
    <3>2. QED  BY <1>1, <3>1 DEF LimitsInv, LimitsHeld
  <2>4. RecentHeld'
    BY <1>1, <2>2 DEF RedisHeld, RecentHeld, RenewedHeld
  <2>5. (windows \in [Systems -> Counter])'
          /\ \A t \in Systems : WindowHeld(t, windows[t], recent)' /\ OneWindow(t, windows[t], recent)'
    BY <2>2 DEF RedisHeld
  <2>6. PastHeld'
    <3>1. \A r \in recent' : r \in recent \/ r.time = now
      BY <1>3 DEF ByRedis, Called
    <3>2. QED  BY <1>1, <3>1, PastStays DEF LimitsInv
  <2>7. QED  BY <1>1, <1>3, <2>2, <2>3, <2>4, <2>5, <2>6 DEF LimitsInv
<1>4. ASSUME NEW s \in Systems, ~IsShared(env), ByBalance(s, secret) PROVE LimitsInv'
  <2>1. RecentHeld /\ LimitsHeld /\ \A t \in Systems : BalanceHeld(t)
    BY <1>4 DEF LimitsInv
  <2>2. LimitsHeld' /\ \A t \in Systems : BalanceHeld(t)'
    BY <1>1, <1>4, <2>1, BalanceCharged
  <2>3. TurnedAwayAtLimit'
    BY <1>4, <2>1, RefusedByBalance
  <2>4. windows' = windows
    BY <1>4 DEF ByBalance
  <2>5. RecentHeld'
    <3>1. PICK code \in {200, 429} : recent' = recent \cup {Called(s, code, 1)}
      <4>1. (IF Balance(s) < Second THEN 429 ELSE 200) \in {200, 429}
        OBVIOUS
      <4>2. QED  BY <1>4, <4>1 DEF ByBalance
    <3>2. /\ Called(s, code, 1) \in AllCalls /\ Called(s, code, 1).time = now
          /\ Called(s, code, 1).number = Cardinality(recent) + 1
      BY <2>1, CallIsNew
    <3>3. CallsHeld(recent \cup {Called(s, code, 1)})
      <4>1. PICK R \in SUBSET AllCalls, r \in AllCalls : R = recent /\ r = Called(s, code, 1)
        BY <2>1, <3>2 DEF RecentHeld, CallsHeld
      <4>2. CallsHeld(R) /\ r.time = now /\ r.number = Cardinality(R) + 1
        BY <2>1, <3>2, <4>1 DEF RecentHeld
      <4>3. CallsHeld(R \cup {r})
        BY <1>1, <4>2, CallsGrow
      <4>4. QED  BY <4>1, <4>3
    <3>4. QED  BY <1>1, <2>1, <3>1, <3>3 DEF RecentHeld, CallsHeld
  <2>6. PastHeld'
    <3>1. \A r \in recent' : r \in recent \/ r.time = now
      BY <1>4 DEF ByBalance, Called
    <3>2. QED  BY <1>1, <3>1, PastStays DEF LimitsInv
  <2>7. QED  BY <1>1, <1>4, <2>2, <2>3, <2>4, <2>5, <2>6 DEF LimitsInv
<1>5. QED  BY <1>2, <1>3, <1>4, RefusedOrLimited

\* Of what was forgotten, a tick takes the losses with the calls before them.
LEMMA PastAges ==
  ASSUME PastHeld, Tick, now \in Nat
  PROVE  PastHeld'
<1>1. /\ now' = now + 1 /\ UNCHANGED env /\ past' = Lately(past) /\ renewed' = Lately(renewed)
      /\ recent' \subseteq recent /\ Second \in Nat /\ Second >= 1
  BY AccessAssumption DEF Tick, Lately
<1>2. RenewedHeld'
  <2>1. IsFiniteSet(renewed') /\ renewed' \subseteq renewed
    BY <1>1, FS_Subset DEF PastHeld, RenewedHeld, Lately
  <2>2. \A l \in renewed' : l.time \in Nat /\ l.number \in Int /\ l.time <= now /\ l.time > (now + 1) - Second
    BY <1>1, <2>1 DEF PastHeld, RenewedHeld, Lately
  <2>3. \A l \in renewed' : l.time <= now + 1 /\ l.time # now + 1
    BY <2>2
  <2>4. QED  BY <1>1, <2>1, <2>2, <2>3 DEF RenewedHeld
<1>3. (IsFiniteSet(past) /\ \A r \in past : r.time \in Int /\ r.time <= now /\ r.time > now - Second)'
  <2>1. IsFiniteSet(past') /\ past' \subseteq past
    BY <1>1, FS_Subset DEF PastHeld, Lately
  <2>2. \A r \in past' : r.time \in Int /\ r.time <= now /\ r.time > (now + 1) - Second
    BY <1>1, <2>1 DEF PastHeld, Lately
  <2>3. QED  BY <1>1, <2>1, <2>2
<1>4. ASSUME NEW s \in Systems, NEW t \in ((now + 1) - Second + 1)..(now + 1) PROVE ForgottenHeld(s, t)'
  <2>1. /\ Made(past', s, {200}, t) = Made(past, s, {200}, t)
        /\ {l \in renewed' : l.time >= t} = Since(t)
    BY <1>1 DEF Made, Since, Lately, PastHeld, RenewedHeld
  <2>2. Since(t)' = Since(t) /\ Made(past, s, {200}, t)' = Made(past, s, {200}, t)
        /\ IsShared(env)' = IsShared(env) /\ Full(s)' = Full(s)
    BY <1>1, <2>1 DEF Since, Made, IsShared, Full
  <2>3. CASE t = now + 1
    <3>1. Since(t) = {} /\ Made(past, s, {200}, t) = {}
      BY <2>3 DEF Since, Made, PastHeld, RenewedHeld
    <3>2. QED  BY <2>2, <3>1 DEF ForgottenHeld
  <2>4. CASE t # now + 1
    <3>1. t \in (now - Second + 1)..now
      BY <1>1, <2>4
    <3>2. ForgottenHeld(s, t)
      BY <3>1 DEF PastHeld
    <3>3. CASE Since(t) = {} \/ IsShared(env)
      BY <2>2, <3>2, <3>3 DEF ForgottenHeld
    <3>4. CASE Since(t) # {} /\ ~IsShared(env)
      <4>1. PICK u \in t..now :
              /\ \A r \in recent : r.time >= u
              /\ Second * Cardinality(Made(past, s, {200}, t)) <= Cardinality(Since(t)) * Full(s) + (u - t) * Rps[s]
        BY <3>2, <3>4 DEF ForgottenHeld
      <4>2. u \in t..(now + 1) /\ \A r \in recent' : r.time >= u
        BY <1>1, <3>1, <4>1
      <4>3. QED  BY <1>1, <2>2, <3>4, <4>1, <4>2 DEF ForgottenHeld
    <3>5. QED  BY <3>3, <3>4
  <2>5. QED  BY <2>3, <2>4
<1>5. QED  BY <1>1, <1>2, <1>3, <1>4 DEF PastHeld

LEMMA TickLimited ==
  ASSUME LimitsInv, Tick
  PROVE  LimitsInv'
<1>1. /\ (env \in Environments)' /\ UNCHANGED <<env, windows>> /\ IsShared(env)' = IsShared(env)
      /\ RecentHeld /\ LimitsHeld /\ now \in Nat /\ now' = now + 1 /\ answer' = Nobody
      /\ windows \in [Systems -> Counter] /\ AccessInv
      /\ limits' = limits /\ recent' = {r \in recent : r.time > (now + 1) - Second}
      /\ renewed' \subseteq renewed /\ IsFiniteSet(renewed')
  <2>1. /\ now' = now + 1 /\ answer' = Nobody /\ UNCHANGED <<env, windows, limits>>
        /\ recent' = {r \in recent : r.time > (now + 1) - Second} /\ renewed' \subseteq renewed
    BY DEF Tick, Lately
  <2>2. /\ env \in Environments /\ RecentHeld /\ LimitsHeld /\ now \in Nat /\ windows \in [Systems -> Counter]
        /\ AccessInv /\ IsFiniteSet(renewed)
    BY DEF LimitsInv, RecentHeld
  <2>3. IsFiniteSet(renewed')
    BY <2>1, <2>2, FS_Subset
  <2>4. IsShared(env)' = IsShared(env)
    BY <2>1 DEF IsShared
  <2>5. QED  BY <2>1, <2>2, <2>3, <2>4
<1>2. AccessInv'
  BY <1>1, AccessSteps DEF AccessNext
<1>3. TurnedAwayAtLimit'
  <2>1. answer'.status = 0
    BY <1>1 DEF Nobody
  <2>2. QED  BY <2>1 DEF TurnedAwayAtLimit
<1>4. LimitsHeld'
  BY <1>1 DEF LimitsHeld
<1>5. RecentHeld'
  <2>1. IsFiniteSet(recent') /\ recent' \subseteq recent
    BY <1>1, FS_Subset DEF RecentHeld, CallsHeld
  <2>2. ASSUME NEW r \in recent' PROVE r.time <= now + 1 /\ r.time > (now + 1) - Second /\ r.time # now + 1
    <3>1. r.time \in Int /\ r.time <= now
      BY <1>1, <2>1 DEF RecentHeld, CallsHeld, AllCalls
    <3>2. QED  BY <1>1, <3>1
  <2>3. QED  BY <1>1, <2>1, <2>2 DEF RecentHeld, CallsHeld
<1>6. ASSUME IsShared(env), NEW s \in Systems
      PROVE  WindowHeld(s, windows[s], recent)' /\ OneWindow(s, windows[s], recent)'
  <2>1. WindowHeld(s, windows[s], recent) /\ OneWindow(s, windows[s], recent)
    BY <1>6 DEF LimitsInv
  <2>2. WindowHeld(s, windows[s], recent)'
    BY <1>1, <2>1, WindowAges
  <2>3. OneWindow(s, windows[s], recent)'
    BY <1>1, <2>1 DEF OneWindow
  <2>4. QED  BY <2>2, <2>3
<1>7. ASSUME ~IsShared(env), NEW s \in Systems PROVE BalanceHeld(s)'
  BY <1>7, <1>1, BalanceAges DEF LimitsInv
<1>8. PastHeld'
  BY <1>1, PastAges DEF LimitsInv
<1>9. QED  BY <1>1, <1>2, <1>3, <1>4, <1>5, <1>6, <1>7, <1>8 DEF LimitsInv

\* What the balance or the counter of a system says of the calls that it knows.
LEMMA OwnBound ==
  ASSUME LimitsInv, NEW s \in Systems
  PROVE  LimiterCalls(s, {200}) < 2 * Rps[s]
<1> DEFINE served == {r \in recent : r.system = s /\ r.outcome \in {200}}
<1>1. /\ Rps[s] \in Nat /\ Rps[s] >= 1 /\ Second \in Nat /\ Second >= 1
      /\ now \in Nat /\ IsFiniteSet(recent) /\ LimitsHeld
      /\ \A r \in recent : r.time \in Int /\ r.time > now - Second
  BY AccessAssumption DEF Systems, LimitsInv, RecentHeld, CallsHeld, AllCalls
<1>2. IsFiniteSet(served) /\ Cardinality(served) \in Nat
  <2>1. served \subseteq recent
    OBVIOUS
  <2>2. QED  BY <1>1, <2>1, FS_Subset, FS_CardinalityType
<1>3. CASE IsShared(env)
  <2>1. PICK c \in Counter : c = windows[s] /\ WindowHeld(s, c, recent)
    BY <1>3 DEF LimitsInv
  <2>2. CASE c.n = 0
    <3>1. served = {}
      BY <2>1, <2>2 DEF WindowHeld
    <3>2. Cardinality(served) = 0
      BY <3>1, FS_EmptySet, Zenon
    <3>3. QED  BY <1>1, <3>2 DEF LimiterCalls
  <2>3. CASE c.n # 0
    <3> DEFINE start == c.expires - Second
               before == ServedBefore(recent, s, start)
               since == Made(recent, s, {200}, start)
    <3>1. c.n > 0 /\ start \in Int
      BY <1>1, <2>3 DEF Counter
    <3>2. served = before \cup since /\ before \cap since = {}
      BY <1>1, <3>1 DEF Made, ServedBefore
    <3>3. IsFiniteSet(before) /\ IsFiniteSet(since) /\ Cardinality(before) \in Nat /\ Cardinality(since) \in Nat
      BY <1>1, Numbers
    <3>4. Cardinality(before) <= Rps[s] - 1 /\ Cardinality(since) <= Rps[s]
      BY <2>1, <3>1 DEF WindowHeld
    <3> HIDE DEF before, since, served
    <3>5. Cardinality(before \cup since) = Cardinality(before) + Cardinality(since) - Cardinality(before \cap since)
      BY <3>3, FS_Union
    <3>6. Cardinality(before \cap since) = 0
      BY <3>2, FS_EmptySet, Zenon
    <3>7. Cardinality(served) < 2 * Rps[s]
      <4>1. Cardinality(served) = Cardinality(before) + Cardinality(since) - 0
        BY <3>2, <3>5, <3>6
      <4>2. QED  BY <1>1, <3>3, <3>4, <4>1
    <3>8. QED  BY <3>7 DEF LimiterCalls, served
  <2>4. QED  BY <2>2, <2>3
<1>4. CASE ~IsShared(env)
  <2> DEFINE t == (now - Second) + 1
  <2>1. BalanceHeld(s)
    BY <1>4 DEF LimitsInv
  <2>2. served = Made(recent, s, {200}, t)
    BY <1>1 DEF Made
  <2> HIDE DEF served
  <2>3. t \in (now - Second)..now /\ now - t = Second - 1
    BY <1>1
  <2>4. PICK i \in Nat, balance \in Nat, full \in Nat, rps \in Nat, second \in Nat, flow \in Nat :
          /\ i = Cardinality(served) /\ balance = Balance(s) /\ full = Full(s) /\ rps = Rps[s]
               /\ second = Second
          /\ flow = (now - t) * Rps[s] /\ full = second * rps /\ flow + rps = full /\ rps >= 1
    <3>1. Balance(s) \in Nat /\ Full(s) \in Nat /\ Full(s) = Second * Rps[s]
      BY <1>1, BalanceIs
    <3>2. PICK a \in Nat : a = Second - 1 /\ Second = a + 1
      BY <1>1
    <3>3. a * Rps[s] \in Nat /\ (a + 1) * Rps[s] = a * Rps[s] + Rps[s]
      BY <1>1, <3>2, Times
    <3>4. (now - t) * Rps[s] \in Nat /\ (now - t) * Rps[s] + Rps[s] = Full(s)
      BY <2>3, <3>1, <3>2, <3>3
    <3>5. QED  BY <1>1, <1>2, <3>1, <3>4
  <2>5. second * i + balance <= full + flow
    BY <2>1, <2>2, <2>3, <2>4 DEF BalanceHeld
  <2>6. ~(2 * rps <= i)
    <3>1. 2 * rps <= i => (2 * rps) * second <= i * second
      BY <2>4, Times
    <3>2. i * second = second * i /\ (2 * rps) * second = full + full
      <4>1. i * second = second * i /\ rps * second = second * rps
        BY <2>4, Times
      <4>2. (2 * rps) * second = rps * second + rps * second
        BY <2>4
      <4>3. QED  BY <2>4, <4>1, <4>2
    <3>3. QED  BY <2>4, <2>5, <3>1, <3>2
  <2>7. QED  BY <2>4, <2>6 DEF LimiterCalls, served
<1>5. QED  BY <1>3, <1>4

\* After a loss within the second all served calls are those of one window.
LEMMA OneWindowBound ==
  ASSUME LimitsInv, IsShared(env), NEW s \in Systems, renewed # {}
  PROVE  LimiterCalls(s, {200}) <= Rps[s]
<1> DEFINE served == {r \in recent : r.system = s /\ r.outcome \in {200}}
<1>1. PICK c \in Counter : c = windows[s] /\ WindowHeld(s, c, recent) /\ OneWindow(s, c, recent)
  BY DEF LimitsInv
<1>2. Rps[s] \in Nat /\ c.n \in Nat
  BY AccessAssumption DEF Systems, Counter
<1>3. CASE c.n = 0
  <2>1. served = {}
    BY <1>1, <1>3 DEF WindowHeld
  <2>2. Cardinality(served) = 0
    BY <2>1, FS_EmptySet, Zenon
  <2>3. QED  BY <1>2, <2>2 DEF LimiterCalls
<1>4. CASE c.n > 0
  <2>1. \A r \in recent : r.system = s /\ r.outcome = 200 => r.time >= c.expires - Second
    BY <1>1, <1>4 DEF OneWindow
  <2>2. served = Made(recent, s, {200}, c.expires - Second)
    BY <2>1 DEF Made
  <2>3. Cardinality(Made(recent, s, {200}, c.expires - Second)) <= Rps[s]
    BY <1>1, <1>4 DEF WindowHeld
  <2>4. QED  BY <2>2, <2>3 DEF LimiterCalls
<1>5. QED  BY <1>2, <1>3, <1>4

LEMMA Together ==
  ASSUME NEW A, NEW B, IsFiniteSet(A), IsFiniteSet(B)
  PROVE  /\ IsFiniteSet(A \cup B) /\ Cardinality(A \cup B) \in Nat
         /\ Cardinality(A) \in Nat /\ Cardinality(B) \in Nat /\ Cardinality(A \cup B) <= Cardinality(A) + Cardinality(B)
<1>1. A \cap B \subseteq A
  OBVIOUS
<1>2. IsFiniteSet(A \cap B) /\ IsFiniteSet(A \cup B)
  BY <1>1, FS_Subset, FS_Union
<1>3. /\ Cardinality(A) \in Nat /\ Cardinality(B) \in Nat /\ Cardinality(A \cap B) \in Nat
      /\ Cardinality(A \cup B) \in Nat
  BY <1>2, FS_CardinalityType
<1>4. Cardinality(A \cup B) = Cardinality(A) + Cardinality(B) - Cardinality(A \cap B)
  BY FS_Union
<1>5. QED  BY <1>2, <1>3, <1>4

\* The numbers of what a system was served from time t on: forgotten, known, and the losses.
LEMMA Totals ==
  ASSUME LimitsInv, NEW s, NEW t
  PROVE  /\ Cardinality(Made(past, s, {200}, t)) \in Nat /\ Cardinality(Made(recent, s, {200}, t)) \in Nat
         /\ Cardinality(Since(t)) \in Nat /\ (Since(t) = {} => Cardinality(Since(t)) = 0)
         /\ (Made(past, s, {200}, t) = {} => Cardinality(Made(past, s, {200}, t)) = 0)
<1>1. IsFiniteSet(recent) /\ IsFiniteSet(past) /\ IsFiniteSet(renewed) /\ Since(t) \subseteq renewed
  BY DEF LimitsInv, RecentHeld, CallsHeld, PastHeld, RenewedHeld, Since
<1>2. Cardinality(Since(t)) \in Nat
  BY <1>1, FS_Subset, FS_CardinalityType
<1>3. Cardinality({}) = 0
  BY FS_EmptySet
<1>4. Cardinality(Made(past, s, {200}, t)) \in Nat /\ Cardinality(Made(recent, s, {200}, t)) \in Nat
  BY <1>1, Numbers
<1>5. (Since(t) = {} => Cardinality(Since(t)) = 0)
        /\ (Made(past, s, {200}, t) = {} => Cardinality(Made(past, s, {200}, t)) = 0)
  BY <1>3, Zenon
<1>6. QED  BY <1>2, <1>4, <1>5

\* The counters: the life before the losses served less than twice its rps, each after it
\* at most its rps.
LEMMA CountersTotal ==
  ASSUME LimitsInv, IsShared(env), NEW s \in Systems, NEW t \in (now - Second + 1)..now
  PROVE  Cardinality(Made(past, s, {200}, t)) + Cardinality(Made(recent, s, {200}, t)) + 1
           <= (2 + Cardinality(Since(t))) * Rps[s]
<1>1. PICK a \in Nat, b \in Nat, k \in Nat, rps \in Nat :
        /\ a = Cardinality(Made(past, s, {200}, t)) /\ b = Cardinality(Made(recent, s, {200}, t))
        /\ k = Cardinality(Since(t)) /\ rps = Rps[s]
  BY Totals, AccessAssumption DEF Systems
<1>2. PICK n \in Nat : n = LimiterCalls(s, {200}) /\ b <= n
  <2>1. IsFiniteSet(recent)
    BY DEF LimitsInv, RecentHeld, CallsHeld
  <2>2. Made(recent, s, {200}, t) \subseteq {r \in recent : r.system = s /\ r.outcome \in {200}}
        /\ {r \in recent : r.system = s /\ r.outcome \in {200}} \subseteq recent
    BY DEF Made
  <2>3. QED  BY <1>1, <2>1, <2>2, FS_Subset, FS_CardinalityType DEF LimiterCalls
<1>3. ForgottenHeld(s, t)
  BY DEF LimitsInv, PastHeld
<1>4. (2 + k) * rps = (1 + k) * rps + rps /\ (1 + k) * rps \in Nat /\ (2 + 0) * rps = 2 * rps
  <2>1. ((1 + k) + 1) * rps = (1 + k) * rps + rps /\ (1 + k) * rps \in Nat
    BY Times
  <2>2. (1 + k) + 1 = 2 + k /\ 2 + 0 = 2
    OBVIOUS
  <2>3. QED  BY <2>1, <2>2
<1>5. CASE Since(t) = {}
  <2>1. a = 0 /\ k = 0
    BY <1>1, <1>3, <1>5, Totals DEF ForgottenHeld
  <2>2. n < 2 * rps
    BY <1>1, <1>2, OwnBound
  <2>3. a + b + 1 <= 2 * rps
    BY <1>2, <2>1, <2>2
  <2>4. QED  BY <1>1, <1>4, <2>1, <2>3
<1>6. CASE Since(t) # {}
  <2>1. a + 1 <= (1 + k) * rps
    BY <1>1, <1>3, <1>6 DEF ForgottenHeld
  <2>2. n <= rps
    BY <1>1, <1>2, <1>6, OneWindowBound DEF Since
  <2>3. a + b + 1 <= (2 + k) * rps
    BY <1>2, <1>4, <2>1, <2>2
  <2>4. QED  BY <1>1, <2>3
<1>7. QED  BY <1>5, <1>6

\* The balances: full at first, full again after each loss, and what has flowed in.
LEMMA BalancesTotal ==
  ASSUME LimitsInv, ~IsShared(env), NEW s \in Systems, NEW t \in (now - Second + 1)..now
  PROVE  Second * (Cardinality(Made(past, s, {200}, t)) + Cardinality(Made(recent, s, {200}, t)))
           <= (1 + Cardinality(Since(t))) * Full(s) + (now - t) * Rps[s]
<1>1. PICK a \in Nat, b \in Nat, k \in Nat, rps \in Nat, full \in Nat, second \in Nat, balance \in Nat :
        /\ a = Cardinality(Made(past, s, {200}, t)) /\ b = Cardinality(Made(recent, s, {200}, t))
        /\ k = Cardinality(Since(t)) /\ rps = Rps[s] /\ full = Full(s) /\ second = Second
        /\ balance = Balance(s) /\ second >= 1
  <2>1. /\ Rps[s] \in Nat /\ Full(s) \in Nat /\ Second \in Nat /\ Second >= 1 /\ Balance(s) \in 0..Full(s)
    BY BalanceIs DEF LimitsInv, RecentHeld
  <2>2. Balance(s) \in Nat
    BY <2>1
  <2>3. /\ Cardinality(Made(past, s, {200}, t)) \in Nat /\ Cardinality(Made(recent, s, {200}, t)) \in Nat
        /\ Cardinality(Since(t)) \in Nat
    BY Totals
  <2>4. QED  BY <2>1, <2>2, <2>3
<1>2. /\ now \in Nat /\ t \in (now - Second)..now /\ BalanceHeld(s) /\ ForgottenHeld(s, t)
  BY <1>1 DEF LimitsInv, RecentHeld, PastHeld
<1>3. PICK spent \in Nat, gone \in Nat :
        /\ spent = second * b /\ gone = second * a /\ second * (a + b) = gone + spent
  <2>1. second * a \in Nat /\ second * b \in Nat
    BY Times
  <2>2. second * (a + b) = second * a + second * b
    OBVIOUS
  <2>3. QED  BY <2>1, <2>2
<1>4. PICK flow \in Nat : flow = (now - t) * rps
  <2>1. now - t \in Nat
    BY <1>2
  <2>2. QED  BY <2>1, Times
<1>5. CASE Since(t) = {}
  <2>1. a = 0 /\ k = 0
    BY <1>1, <1>2, <1>5, Totals DEF ForgottenHeld
  <2>2. spent + balance <= full + flow
    BY <1>1, <1>2, <1>3, <1>4 DEF BalanceHeld
  <2>3. gone = 0 /\ (1 + k) * full = full
    BY <1>3, <2>1
  <2>4. second * (a + b) <= (1 + k) * full + flow
    BY <1>3, <2>2, <2>3
  <2>5. QED  BY <1>1, <1>4, <2>4
<1>6. CASE Since(t) # {}
  <2>1. PICK u \in t..now :
          (\A r \in recent : r.time >= u)
            /\ Second * Cardinality(Made(past, s, {200}, t)) <= Cardinality(Since(t)) * Full(s) + (u - t) * Rps[s]
    BY <1>2, <1>6 DEF ForgottenHeld
  <2>2. Made(recent, s, {200}, t) = Made(recent, s, {200}, u)
    <3>1. \A r \in recent : r.time \in Int /\ r.time >= u /\ r.time >= t
      BY <1>2, <2>1 DEF LimitsInv, RecentHeld, CallsHeld, AllCalls
    <3>2. QED  BY <3>1 DEF Made
  <2>3. u \in (now - Second)..now /\ u - t \in Nat /\ now - u \in Nat /\ now - t = (u - t) + (now - u)
    BY <1>1, <1>2, <2>1
  <2>4. PICK early \in Nat, late \in Nat, refilled \in Nat :
          /\ early = (u - t) * rps /\ late = (now - u) * rps /\ refilled = k * full
          /\ flow = early + late /\ (1 + k) * full = refilled + full
    <3>1. PICK x \in Nat, y \in Nat : x = u - t /\ y = now - u /\ now - t = x + y
      BY <2>3
    <3>2. (x + y) * rps = x * rps + y * rps /\ (1 + k) * full = k * full + full
      OBVIOUS
    <3>3. x * rps \in Nat /\ y * rps \in Nat /\ k * full \in Nat
      BY Times
    <3>4. QED  BY <1>4, <3>1, <3>2, <3>3
  <2>5. spent + balance <= full + late
    BY <1>1, <1>2, <1>3, <2>2, <2>3, <2>4 DEF BalanceHeld
  <2>6. gone <= refilled + early
    BY <1>1, <1>3, <2>1, <2>4
  <2>7. second * (a + b) <= (1 + k) * full + flow
    BY <1>3, <2>4, <2>5, <2>6
  <2>8. QED  BY <1>1, <1>4, <2>7
<1>7. QED  BY <1>5, <1>6

\* RateBound for one system: what is known and what is forgotten, within a second.
LEMMA SystemBound ==
  ASSUME LimitsInv, NEW s \in Systems
  PROVE  Cardinality({r \in recent \cup past : r.system = s /\ r.outcome = 200}) < (2 + Cardinality(renewed)) * Rps[s]
<1> DEFINE t == now - Second + 1
           served == {r \in recent \cup past : r.system = s /\ r.outcome = 200}
<1>1. /\ now \in Nat /\ Second \in Nat /\ Second >= 1 /\ Rps[s] \in Nat /\ Rps[s] >= 1
      /\ IsFiniteSet(recent) /\ IsFiniteSet(past)
      /\ \A r \in recent \cup past : r.time \in Int /\ r.time > now - Second
      /\ \A l \in renewed : l.time \in Nat /\ l.time > now - Second
  BY AccessAssumption DEF Systems, LimitsInv, RecentHeld, CallsHeld, AllCalls, PastHeld, RenewedHeld
<1>2. t \in (now - Second + 1)..now /\ now - t = Second - 1
  BY <1>1
<1>3. served = Made(past, s, {200}, t) \cup Made(recent, s, {200}, t) /\ Since(t) = renewed
  BY <1>1 DEF Made, Since
<1>4. PICK a \in Nat, b \in Nat, k \in Nat, rps \in Nat, second \in Nat, i \in Nat :
        /\ a = Cardinality(Made(past, s, {200}, t)) /\ b = Cardinality(Made(recent, s, {200}, t))
        /\ k = Cardinality(renewed) /\ rps = Rps[s] /\ rps >= 1 /\ second = Second /\ second >= 1
        /\ i = Cardinality(served) /\ i <= a + b
  <2>1. IsFiniteSet(Made(past, s, {200}, t)) /\ IsFiniteSet(Made(recent, s, {200}, t))
    BY <1>1, Numbers
  <2>2. Cardinality(renewed) \in Nat
    <3>1. Cardinality(Since(t)) \in Nat
      BY Totals
    <3>2. QED  BY <1>3, <3>1
  <2> HIDE DEF served, t
  <2>3. /\ Cardinality(Made(past, s, {200}, t)) \in Nat /\ Cardinality(Made(recent, s, {200}, t)) \in Nat
        /\ Cardinality(served) \in Nat
        /\ Cardinality(served) <= Cardinality(Made(past, s, {200}, t)) + Cardinality(Made(recent, s, {200}, t))
    BY <1>3, <2>1, Together
  <2>4. QED  BY <1>1, <2>2, <2>3, ZenonT(60)
<1> HIDE DEF served, t
<1>5. CASE IsShared(env)
  <2>1. a + b + 1 <= (2 + k) * rps
    BY <1>2, <1>3, <1>4, <1>5, CountersTotal
  <2>2. (2 + k) * rps \in Nat
    BY Times
  <2>3. i < (2 + k) * rps
    BY <1>4, <2>1, <2>2
  <2>4. QED  BY <1>4, <2>3 DEF served
<1>6. CASE ~IsShared(env)
  <2>1. Full(s) = second * rps /\ (now - t) = second - 1
    <3>1. Full(s) = Second * Rps[s]
      BY <1>1, BalanceIs DEF LimitsInv
    <3>2. QED  BY <1>2, <1>4, <3>1
  <2>2. second * (a + b) <= (1 + k) * (second * rps) + (second - 1) * rps
    BY <1>2, <1>3, <1>4, <1>6, <2>1, BalancesTotal
  <2>3. PICK m \in Nat : m = (1 + k) * (second * rps)
    BY Times
  <2>4. PICK p \in Nat : p = second * rps /\ (second - 1) * rps = p - rps
    <3>1. PICK x \in Nat : x = second - 1 /\ second = x + 1
      BY <1>4
    <3>2. (x + 1) * rps = x * rps + rps /\ (x + 1) * rps \in Nat
      BY Times
    <3>3. QED  BY <3>1, <3>2
  <2>5. ((2 + k) * rps) * second = m + p
    <3>1. ((2 + k) * rps) * second = (2 + k) * (second * rps)
      OBVIOUS
    <3>2. ((1 + k) + 1) * p = (1 + k) * p + p /\ (1 + k) + 1 = 2 + k
      BY Times
    <3>3. QED  BY <2>3, <2>4, <3>1, <3>2
  <2>6. ~((2 + k) * rps <= a + b)
    <3>1. (2 + k) * rps \in Nat
      BY Times
    <3>2. (2 + k) * rps <= a + b => ((2 + k) * rps) * second <= (a + b) * second
      BY <3>1, Times
    <3>3. (a + b) * second = second * (a + b) /\ (a + b) * second \in Nat
      BY Times
    <3>4. QED  BY <1>4, <2>2, <2>3, <2>4, <2>5, <3>2, <3>3
  <2>7. i < (2 + k) * rps
    <3>1. (2 + k) * rps \in Nat
      BY Times
    <3>2. QED  BY <1>4, <2>6, <3>1
  <2>8. QED  BY <1>4, <2>7 DEF served
<1>7. QED  BY <1>5, <1>6

\* A loss: what was known is forgotten from then on.
LEMMA Forgets ==
  ASSUME LimitsInv, BeginAnew, UNCHANGED <<env, now>>
  PROVE  PastHeld'
<1> DEFINE l == [time |-> now, number |-> Cardinality(renewed) + 1]
           old == {r \in recent : r.outcome = 200}
<1>1. /\ recent' = {} /\ past' = past \cup old /\ renewed' = renewed \cup {l} /\ now \in Nat
      /\ RenewedHeld /\ IsFiniteSet(recent) /\ IsFiniteSet(past) /\ Second \in Nat /\ Second >= 1
  BY AccessAssumption DEF BeginAnew, LimitsInv, RecentHeld, CallsHeld, PastHeld
<1>2. /\ IsFiniteSet(renewed') /\ Cardinality(renewed) \in Nat /\ l \notin renewed
      /\ Cardinality(renewed') = Cardinality(renewed) + 1
  <2>1. Cardinality(renewed) \in Nat
    BY <1>1, FS_CardinalityType DEF RenewedHeld
  <2>2. l \notin renewed
    <3>1. l.time = now /\ l.number = Cardinality(renewed) + 1
      OBVIOUS
    <3> HIDE DEF l
    <3>2. l \in renewed => l.number <= Cardinality(renewed)
      BY <1>1, <3>1 DEF RenewedHeld
    <3>3. QED  BY <2>1, <3>1, <3>2
  <2>3. IsFiniteSet(renewed)
    BY DEF LimitsInv, PastHeld, RenewedHeld
  <2> HIDE DEF l
  <2>4. QED  BY <1>1, <2>1, <2>2, <2>3, FS_AddElement
<1>3. RenewedHeld'
  <2>1. ASSUME NEW m \in renewed'
        PROVE  /\ m.time \in Nat /\ m.number \in Int /\ m.time <= now /\ m.time > now - Second
               /\ m.time = now => m.number <= Cardinality(renewed) + 1
    <3>1. CASE m = l
      BY <1>1, <1>2, <3>1
    <3>2. CASE m \in renewed
      BY <1>1, <1>2, <3>2 DEF RenewedHeld
    <3>3. QED  BY <1>1, <3>1, <3>2
  <2> HIDE DEF l
  <2>2. QED  BY <1>1, <1>2, <2>1 DEF RenewedHeld
<1>4. (IsFiniteSet(past) /\ \A r \in past : r.time \in Int /\ r.time <= now /\ r.time > now - Second)'
  <2>1. IsFiniteSet(old)
    BY <1>1, FS_Subset
  <2>2. \A r \in old : r.time \in Int /\ r.time <= now /\ r.time > now - Second
    BY DEF LimitsInv, RecentHeld, CallsHeld, AllCalls
  <2> HIDE DEF old
  <2>3. IsFiniteSet(past')
    BY <1>1, <2>1, Together
  <2>4. QED  BY <1>1, <2>2, <2>3 DEF LimitsInv, PastHeld
<1>5. ASSUME NEW s \in Systems, NEW t \in (now - Second + 1)..now PROVE ForgottenHeld(s, t)'
  <2> DEFINE known == Made(recent, s, {200}, t)
             gone == Made(past, s, {200}, t)
  <2>1. Made(past', s, {200}, t) = gone \cup known
    BY <1>1 DEF Made
  <2>2. {m \in renewed' : m.time >= t} = Since(t) \cup {l}
    BY <1>1 DEF Since
  <2>3. l \notin Since(t) /\ IsFiniteSet(Since(t))
    <3>1. Since(t) \subseteq renewed
      BY DEF Since
    <3>2. IsFiniteSet(renewed)
      BY DEF LimitsInv, PastHeld, RenewedHeld
    <3> HIDE DEF l
    <3>3. QED  BY <1>2, <3>1, <3>2, FS_Subset
  <2>4. IsFiniteSet(gone) /\ IsFiniteSet(known)
    BY <1>1, Numbers
  <2> HIDE DEF l, old, known, gone
  <2>5. Since(t)' = Since(t) \cup {l} /\ Made(past, s, {200}, t)' = gone \cup known
        /\ IsShared(env)' = IsShared(env) /\ Full(s)' = Full(s)
    BY <2>1, <2>2 DEF Since, Made, IsShared, Full
  <2>6. PICK a \in Nat, b \in Nat, c \in Nat, k \in Nat, rps \in Nat, second \in Nat, full \in Nat :
          /\ a = Cardinality(gone) /\ b = Cardinality(known) /\ c = Cardinality(gone \cup known) /\ c <= a + b
          /\ k = Cardinality(Since(t)) /\ k + 1 = Cardinality(Since(t) \cup {l})
          /\ rps = Rps[s] /\ second = Second /\ full = Full(s)
    <3>1. Rps[s] \in Nat /\ Full(s) \in Nat
      BY <1>1, BalanceIs DEF LimitsInv
    <3>2. Cardinality(Since(t)) \in Nat /\ Cardinality(Since(t) \cup {l}) = Cardinality(Since(t)) + 1
      BY <2>3, FS_AddElement, FS_CardinalityType
    <3>3. QED  BY <1>1, <2>4, <3>1, <3>2, Together
  <2>7. Since(t) \cup {l} # {}
    OBVIOUS
  <2>8. CASE IsShared(env)
    <3>1. a + b + 1 <= (2 + k) * rps
      BY <2>6, <2>8, CountersTotal DEF gone, known
    <3>2. (2 + k) * rps \in Nat /\ 2 + k = 1 + (k + 1)
      BY Times
    <3>3. c + 1 <= (1 + (k + 1)) * rps
      BY <2>6, <3>1, <3>2
    <3>4. QED  BY <2>5, <2>6, <2>7, <2>8, <3>3 DEF ForgottenHeld
  <2>9. CASE ~IsShared(env)
    <3>1. second * (a + b) <= (1 + k) * full + (now - t) * rps
      BY <2>6, <2>9, BalancesTotal DEF gone, known
    <3>2. second * c <= second * (a + b)
      <4>1. c * second <= (a + b) * second
        BY <2>6, Times
      <4>2. c * second = second * c /\ (a + b) * second = second * (a + b)
        BY Times
      <4>3. QED  BY <4>1, <4>2
    <3>3. second * c <= (k + 1) * full + (now - t) * rps
      <4>1. PICK flow \in Nat : flow = (now - t) * rps
        <5>1. now - t \in Nat
          BY <1>1
        <5>2. QED  BY <5>1, Times
      <4>2. PICK spent \in Nat, more \in Nat : spent = second * c /\ more = second * (a + b)
        BY Times
      <4>3. PICK j \in Nat, refilled \in Nat : j = k + 1 /\ 1 + k = j /\ refilled = j * full
        <5>1. (k + 1) * full \in Nat
          BY Times
        <5>2. QED  BY <5>1
      <4>4. more <= refilled + flow /\ spent <= more
        BY <3>1, <3>2, <4>1, <4>2, <4>3
      <4>5. spent <= refilled + flow
        BY <4>4
      <4>6. QED  BY <4>1, <4>2, <4>3, <4>5
    <3>4. now \in t..now
      BY <1>1
    <3>5. QED  BY <1>1, <2>5, <2>6, <2>7, <2>9, <3>3, <3>4 DEF ForgottenHeld
  <2>10. QED  BY <2>8, <2>9
<1> HIDE DEF l, old
<1>6. QED  BY <1>3, <1>4, <1>5 DEF PastHeld

LEMMA LimitsSteps == LimitsInv /\ [AccessNext]_accessvars => LimitsInv'
<1> SUFFICES ASSUME LimitsInv, [AccessNext]_accessvars PROVE LimitsInv'
  OBVIOUS
<1>1. /\ AccessInv' /\ (env \in Environments)' /\ UNCHANGED env /\ IsShared(env)' = IsShared(env)
      /\ now \in Nat /\ AccessInv
  BY AccessSteps
  DEF AccessNext, accessvars, CreateApp, Stop, Tick, LoseWindows, Ask, LimitsInv, IsShared, RecentHeld
<1>2. answer' = Nobody => TurnedAwayAtLimit'
  <2>1. Nobody.status # 429
    BY DEF Nobody
  <2>2. QED  BY <2>1 DEF TurnedAwayAtLimit
<1>3. CASE UNCHANGED accessvars \/ CreateApp
  <2>1. UNCHANGED <<env, now, limits, windows, recent, past, renewed, answer>>
    BY <1>3 DEF accessvars, historyvars, CreateApp
  <2>2. TurnedAwayAtLimit'
    BY <2>1 DEF LimitsInv, TurnedAwayAtLimit, LimiterCalls
  <2>3. QED  BY <1>1, <2>1, <2>2, LimitsStay DEF LimitsInv
<1>4. CASE Stop
  <2>1. settings.shared = IsShared(env)
    <3>1. settings = App(env, lives)
      BY <1>1, <1>4, SettingsAre DEF Stop
    <3>2. QED  BY <3>1 DEF App
  <2>2. /\ limits' = <<>> /\ answer' = Nobody /\ UNCHANGED <<now, windows>>
        /\ IF IsShared(env) THEN UNCHANGED <<recent, past, renewed>> ELSE BeginAnew
    BY <1>4, <2>1 DEF Stop, historyvars
  <2>3. LimitsHeld' /\ TurnedAwayAtLimit'
    BY <1>2, <2>2 DEF LimitsHeld
  <2>4. CASE IsShared(env)
    <3>1. RecentHeld' /\ \A s \in Systems : WindowHeld(s, windows[s], recent)' /\ OneWindow(s, windows[s], recent)'
      BY <1>1, <2>2, <2>4 DEF LimitsInv, RecentHeld, CallsHeld, WindowHeld, OneWindow
    <3>2. PastHeld'
      BY <1>1, <2>2, <2>4, PastStays DEF LimitsInv
    <3>3. QED  BY <1>1, <2>2, <2>3, <2>4, <3>1, <3>2 DEF LimitsInv
  <2>5. CASE ~IsShared(env)
    <3>1. recent' = {} /\ CallsHeld({})' /\ PastHeld'
      BY <1>1, <2>2, <2>5, FS_EmptySet, Forgets DEF BeginAnew, CallsHeld
    <3>2. RecentHeld'
      BY <1>1, <2>2, <3>1 DEF RecentHeld, CallsHeld, PastHeld, RenewedHeld
    <3>3. \A s \in Systems : BalanceHeld(s)'
      BY <1>1, <2>2, <3>1, NothingSpent
    <3>4. (windows \in [Systems -> Counter])' /\ ~IsShared(env)'
      BY <1>1, <2>2, <2>5 DEF LimitsInv
    <3> HIDE DEF LimitsInv
    <3>5. QED  BY <1>1, <2>3, <3>1, <3>2, <3>3, <3>4 DEF LimitsInv
  <2>6. QED  BY <2>4, <2>5
<1>5. CASE LoseWindows
  <2>1. /\ IsShared(env) /\ windows' = [s \in Systems |-> NoCounter] /\ recent' = {} /\ answer' = Nobody
        /\ UNCHANGED <<now, limits>> /\ PastHeld'
    BY <1>1, <1>5, Forgets DEF LoseWindows, BeginAnew
  <2>2. LimitsHeld' /\ TurnedAwayAtLimit'
    BY <1>2, <2>1 DEF LimitsInv, LimitsHeld
  <2>3. RecentHeld'
    BY <1>1, <2>1, FS_EmptySet DEF RecentHeld, CallsHeld, PastHeld, RenewedHeld
  <2>4. (windows \in [Systems -> Counter])'
          /\ \A s \in Systems : WindowHeld(s, windows[s], recent)' /\ OneWindow(s, windows[s], recent)'
    BY <2>1 DEF WindowHeld, OneWindow, NoCounter, Counter
  <2>5. QED  BY <1>1, <2>1, <2>2, <2>3, <2>4 DEF LimitsInv
<1>6. CASE Tick
  BY <1>6, TickLimited
<1>7. ASSUME NEW header, NEW secret, Ask(header, secret) PROVE LimitsInv'
  BY <1>7, AskLimited
<1>8. QED  BY <1>3, <1>4, <1>5, <1>6, <1>7 DEF AccessNext

LEMMA LimitsStart == AccessInit => LimitsInv
<1> SUFFICES ASSUME AccessInit PROVE LimitsInv
  OBVIOUS
<1>1. /\ env \in Environments /\ now = 0 /\ limits = <<>> /\ recent = {} /\ answer = Nobody
      /\ past = {} /\ renewed = {} /\ IsFiniteSet({})
      /\ windows = [s \in Systems |-> NoCounter] /\ sealed = {} /\ settings = Down
  BY FS_EmptySet DEF AccessInit
<1>2. AccessInv /\ TurnedAwayAtLimit
  <2>1. Nobody.status = 0
    BY DEF Nobody
  <2>2. QED  BY <1>1, <2>1 DEF AccessInv, TurnedAwayAtLimit
<1>3. RecentHeld /\ LimitsHeld
  BY <1>1, FS_EmptySet DEF RecentHeld, CallsHeld, LimitsHeld
<1>4. windows \in [Systems -> Counter]
        /\ \A s \in Systems : WindowHeld(s, windows[s], recent) /\ OneWindow(s, windows[s], recent)
  BY <1>1 DEF WindowHeld, OneWindow, NoCounter, Counter
<1>5. \A s \in Systems : BalanceHeld(s)
  BY <1>1, NothingSpent
<1>6. PastHeld
  BY <1>1 DEF PastHeld, RenewedHeld, ForgottenHeld, Since, Made
<1>7. QED  BY <1>1, <1>2, <1>3, <1>4, <1>5, <1>6 DEF LimitsInv

LEMMA PausedIsServed ==
  ASSUME LimitsInv, NEW s \in Systems, LimiterCalls(s, {0, 200, 429}) = 0
  PROVE  IF IsShared(env) THEN Script(windows[s]).n <= Rps[s] ELSE Balance(s) >= Second
<1> DEFINE called == {r \in recent : r.system = s /\ r.outcome \in {0, 200, 429}}
<1>1. /\ Rps[s] \in Nat /\ Rps[s] >= 1 /\ Second \in Nat /\ Second >= 1
      /\ now \in Nat /\ IsFiniteSet(recent) /\ LimitsHeld
      /\ \A r \in recent : r.outcome \in {0, 200, 429}
  BY AccessAssumption DEF Systems, LimitsInv, RecentHeld, CallsHeld, AllCalls
<1>2. called = {}
  <2>1. IsFiniteSet(called)
    BY <1>1, FS_Subset
  <2>2. Cardinality(called) = 0
    BY DEF LimiterCalls
  <2> HIDE DEF called
  <2>3. QED  BY <2>1, <2>2, FS_EmptySet
<1>3. \A outcomes, t : Made(recent, s, outcomes, t) = {}
  BY <1>1, <1>2 DEF Made
<1>4. Cardinality({}) = 0
  BY FS_EmptySet
<1>5. CASE IsShared(env)
  <2>1. PICK c \in Counter : c = windows[s] /\ WindowHeld(s, c, recent)
    BY <1>5 DEF LimitsInv
  <2>2. c.n \in Nat /\ c.expires \in Nat
    BY DEF Counter
  <2>3. ~(c.n > 0 /\ c.expires > now)
    <3>1. Cardinality(Made(recent, s, {0, 200}, c.expires - Second)) = 0
      BY <1>3, <1>4
    <3>2. QED  BY <1>1, <2>1, <2>2, <3>1 DEF WindowHeld
  <2>4. Live(c).n = 0
    <3>1. c.n = 0 \/ Live(c) = NoCounter
      BY <1>1, <2>2, <2>3 DEF Live
    <3>2. QED  BY <3>1 DEF Live, NoCounter
  <2>5. Script(c).n = 1
    BY <2>4 DEF Script
  <2>6. QED  BY <1>1, <1>5, <2>1, <2>5
<1>6. CASE ~IsShared(env)
  <2> DEFINE t == now - Second
  <2>1. BalanceHeld(s) /\ Balance(s) \in Nat
    BY <1>1, <1>6, BalanceIs DEF LimitsInv
  <2>2. t \in (now - Second)..now /\ now - t = Second
    BY <1>1
  <2>3. Cardinality(Made(recent, s, {200}, t + 1)) = 0
    BY <1>3, <1>4
  <2>4. Second * 0 + Balance(s) >= Second * Rps[s]
    BY <2>1, <2>2, <2>3 DEF BalanceHeld
  <2>5. 1 * Second <= Rps[s] * Second /\ Rps[s] * Second = Second * Rps[s] /\ Rps[s] * Second \in Nat
    BY <1>1, Times
  <2>6. QED  BY <1>1, <1>6, <2>1, <2>4, <2>5
<1>7. QED  BY <1>5, <1>6

\* LimitsFair: whatever is called, lost, repeated or restarted, within a second no system
\* gets twice its rps and, for each restart or failover in it that forgets what was
\* counted, its rps once more; none is turned away before its rps are counted, and one
\* that paused for a second is served.
THEOREM LimitsKeepFair == AccessSpec => []LimitsFair
<1>1. LimitsInv => LimitsFair
  <2> SUFFICES ASSUME LimitsInv PROVE LimitsFair
    OBVIOUS
  <2>1. RateBound
    BY SystemBound DEF RateBound
  <2>2. TurnedAwayAtLimit
    BY DEF LimitsInv
  <2>3. ServedAfterPause
    <3> SUFFICES ASSUME settings.up, NEW s \in DOMAIN settings.policies, LimiterCalls(s, {0, 200, 429}) = 0
                 PROVE  IF settings.shared THEN Script(windows[s]).n <= Rps[s] ELSE Balance(s) >= Second
      BY DEF ServedAfterPause
    <3>1. env \in Environments /\ AccessInv
      BY DEF LimitsInv
    <3>2. settings = App(env, lives)
      BY <3>1, SettingsAre
    <3>3. settings.shared = IsShared(env) /\ settings.policies = Policies(env)
      BY <3>2 DEF App
    <3>4. s \in Systems
      BY <3>1, <3>3, AccessAssumption DEF Policies, Systems
    <3>5. QED  BY <3>3, <3>4, PausedIsServed
  <2>4. QED  BY <2>1, <2>2, <2>3 DEF LimitsFair
<1>2. QED  BY <1>1, LimitsStart, LimitsSteps, PTL DEF AccessSpec

-----------------------------------------------------------------------------
(* Recorder of requests.                                                   *)

InWriting == IF writer = "writing" THEN <<current>> ELSE <<>>

\* What the writer has in hand, and what the end of its loop presupposes.
WriterHeld ==
  /\ current # None <=> writer \in {"writing", "releasing"}
  /\ writer \in {"flushing", "closing", "reporting", "ended"} => closed /\ queue = <<>>
  /\ writer \in {"reporting", "ended"} => stream = <<>>

\* Where the accepted records are, as long as nothing fails.
RecordsHeld ==
  /\ counts.submitted = Len(accepted)
  /\ counts.write_errors = 0 => counts.written = Len(file \o stream)
  /\ counts.write_errors = 0 /\ ~disk_limit_reached => accepted = file \o stream \o InWriting \o queue
  /\ writer = "ended" /\ counts.write_errors = 0 =>
       status.written = counts.written /\ status.submitted = counts.submitted

CaptureInv == TypeOK /\ QueuedBytesExact /\ EveryRecordCounted /\ DiskLimit /\ WriterHeld /\ RecordsHeld

\* Every set of numbers has a least one: what replaces an induction below.
LEMMA LeastOf ==
  ASSUME NEW S, S \subseteq Nat, S # {}
  PROVE  \E x \in S : \A y \in S : x <= y
<1>1. PICK x \in S : \A y \in S : ~(<<y, x>> \in OpToRel(<, Nat))
  <2> DEFINE R == OpToRel(<, Nat)
  <2>1. IsWellFoundedOn(R, Nat)
    BY NatLessThanWellFounded
  <2> HIDE DEF R
  <2>2. \E x \in S : \A y \in S : ~(<<y, x>> \in R)
    BY <2>1, WFMin, Zenon
  <2>3. QED  BY <2>2 DEF R
<1>2. ASSUME NEW y \in S PROVE x <= y
  <2>1. x \in Nat /\ y \in Nat
    OBVIOUS
  <2>2. y < x => <<y, x>> \in OpToRel(<, Nat)
    BY <2>1 DEF OpToRel
  <2>3. ~(<<y, x>> \in OpToRel(<, Nat))
    BY <1>1, Zenon
  <2>4. ~(y < x)
    BY <2>2, <2>3, Zenon
  <2>5. QED  BY <2>1, <2>4
<1>3. QED  BY <1>2

\* g adds up d, step by step.
Adds(g, d, n) == g[0] = 0 /\ \A i \in 1..n : g[i] = g[i - 1] + d[i]

LEMMA AddsExists ==
  ASSUME NEW n \in Nat, NEW d \in [1..n -> Nat]
  PROVE  \E g \in [0..n -> Nat] : Adds(g, d, n)
<1> DEFINE Bad == {m \in 0..n : \A g \in [0..m -> Nat] : ~Adds(g, d, m)}
<1>1. SUFFICES ASSUME Bad # {} PROVE FALSE
  <2>1. n \in 0..n /\ n \notin Bad => \E g \in [0..n -> Nat] : Adds(g, d, n)
    OBVIOUS
  <2> HIDE DEF Bad
  <2>2. QED  BY <2>1
<1>2. PICK m \in Bad : \A k \in Bad : m <= k
  <2>1. Bad \subseteq Nat
    OBVIOUS
  <2> HIDE DEF Bad
  <2>2. QED  BY <1>1, <2>1, LeastOf
<1>3. m \in 0..n /\ \A g \in [0..m -> Nat] : ~Adds(g, d, m)
  OBVIOUS
<1>4. m # 0
  <2>1. SUFFICES ASSUME m = 0 PROVE FALSE
    OBVIOUS
  <2> DEFINE g == [i \in 0..m |-> 0]
  <2>2. g \in [0..m -> Nat] /\ Adds(g, d, m)
    BY <2>1 DEF Adds
  <2>3. QED  BY <1>3, <2>2
<1>5. m \in Nat /\ m - 1 \in 0..n /\ ~(m <= m - 1) /\ m \in 1..n
  BY <1>3, <1>4
<1>6. PICK g \in [0..m - 1 -> Nat] : Adds(g, d, m - 1)
  BY <1>2, <1>5
<1> DEFINE h == [i \in 0..m |-> IF i = m THEN g[m - 1] + d[m] ELSE g[i]]
<1>7. h \in [0..m -> Nat]
  BY <1>5
<1>8. Adds(h, d, m)
  <2>1. h[0] = 0 /\ h[m] = g[m - 1] + d[m]
    BY <1>5, <1>6 DEF Adds
  <2>2. \A i \in 0..m - 1 : h[i] = g[i]
    BY <1>5
  <2> HIDE DEF h
  <2>3. ASSUME NEW i \in 1..m PROVE h[i] = h[i - 1] + d[i]
    <3>1. CASE i = m
      BY <1>5, <2>1, <2>2, <3>1
    <3>2. CASE i # m
      <4>1. i \in 1..m - 1 /\ i \in 0..m - 1 /\ i - 1 \in 0..m - 1
        BY <1>5, <3>2
      <4>2. QED  BY <1>6, <2>2, <4>1 DEF Adds
    <3>3. QED  BY <3>1, <3>2
  <2>4. QED  BY <2>1, <2>3 DEF Adds
<1>9. QED  BY <1>3, <1>7, <1>8

LEMMA AddsUnique ==
  ASSUME NEW n \in Nat, NEW d, NEW g, NEW h, Adds(g, d, n), Adds(h, d, n)
  PROVE  \A i \in 0..n : g[i] = h[i]
<1> DEFINE Bad == {i \in 0..n : g[i] # h[i]}
<1>1. SUFFICES ASSUME Bad # {} PROVE FALSE
  OBVIOUS
<1>2. PICK m \in Bad : \A k \in Bad : m <= k
  <2>1. Bad \subseteq Nat
    OBVIOUS
  <2> HIDE DEF Bad
  <2>2. QED  BY <1>1, <2>1, LeastOf
<1>3. m \in 0..n /\ g[m] # h[m]
  OBVIOUS
<1>4. m # 0
  BY <1>3 DEF Adds
<1>5. m \in 1..n /\ m - 1 \in 0..n /\ ~(m <= m - 1)
  BY <1>3, <1>4
<1>6. g[m - 1] = h[m - 1]
  BY <1>2, <1>5
<1>7. QED  BY <1>3, <1>5, <1>6 DEF Adds

\* BytesOf is the last of the partial sums.
LEMMA BytesAre ==
  ASSUME NEW S, NEW f \in [S -> Nat], NEW s \in Seq(S), NEW g, Adds(g, [i \in 1..Len(s) |-> f[s[i]]], Len(s))
  PROVE  BytesOf(f, s) = g[Len(s)]
<1> DEFINE N == Len(s)
           d == [i \in 1..N |-> f[s[i]]]
           step(t) == [n \in 0..N |-> IF n = 0 THEN 0 ELSE t[n - 1] + f[s[n]]]
           total == CHOOSE t : t = step(t)
           t0 == [n \in 0..N |-> g[n]]
<1>1. N \in Nat
  OBVIOUS
<1>2. t0 = step(t0)
  <2>1. ASSUME NEW n \in 0..N PROVE t0[n] = IF n = 0 THEN 0 ELSE t0[n - 1] + f[s[n]]
    <3>1. CASE n = 0
      BY <3>1 DEF Adds
    <3>2. CASE n # 0
      <4>1. n \in 1..N /\ n - 1 \in 0..N
        BY <1>1, <3>2
      <4>2. QED  BY <3>2, <4>1 DEF Adds
    <3>3. QED  BY <3>1, <3>2
  <2>2. QED  BY <2>1
<1>3. total = step(total)
  <2>1. \E t : t = step(t)
    BY <1>2
  <2> HIDE DEF step
  <2>2. QED  BY <2>1
<1>4. BytesOf(f, s) = total[N]
  BY DEF BytesOf
<1> HIDE DEF total
<1>5. Adds(total, d, N)
  <2>1. total[0] = 0
    BY <1>1, <1>3
  <2>2. ASSUME NEW i \in 1..N PROVE total[i] = total[i - 1] + d[i]
    <3>1. i \in 0..N /\ i # 0
      BY <1>1
    <3>2. QED  BY <1>3, <3>1
  <2>3. QED  BY <2>1, <2>2 DEF Adds
<1>6. total[N] = g[N]
  <2>1. Adds(g, d, N) /\ N \in 0..N
    BY <1>1
  <2> HIDE DEF d, N
  <2>2. QED  BY <1>1, <1>5, <2>1, AddsUnique
<1>7. QED  BY <1>4, <1>6

LEMMA BytesTyped ==
  ASSUME NEW S, NEW f \in [S -> Nat], NEW s \in Seq(S)
  PROVE  \E g \in [0..Len(s) -> Nat] : Adds(g, [i \in 1..Len(s) |-> f[s[i]]], Len(s)) /\ BytesOf(f, s) = g[Len(s)]
<1> DEFINE d == [i \in 1..Len(s) |-> f[s[i]]]
<1>1. Len(s) \in Nat /\ d \in [1..Len(s) -> Nat]
  OBVIOUS
<1>2. PICK g \in [0..Len(s) -> Nat] : Adds(g, d, Len(s))
  <2> HIDE DEF d
  <2>1. QED  BY <1>1, AddsExists
<1>3. BytesOf(f, s) = g[Len(s)]
  BY <1>2, BytesAre
<1>4. QED  BY <1>2, <1>3

\* The bytes of two sequences of records add up.
LEMMA BytesJoined ==
  ASSUME NEW S, NEW f \in [S -> Nat], NEW s \in Seq(S), NEW t \in Seq(S)
  PROVE  /\ BytesOf(f, s) \in Nat /\ BytesOf(f, t) \in Nat
         /\ BytesOf(f, s \o t) = BytesOf(f, s) + BytesOf(f, t)
<1> DEFINE n == Len(s)
           m == Len(t)
           d(q) == [i \in 1..Len(q) |-> f[q[i]]]
<1>1. n \in Nat /\ m \in Nat /\ s \o t \in Seq(S) /\ Len(s \o t) = n + m
  OBVIOUS
<1>2. PICK g \in [0..n + m -> Nat] : Adds(g, d(s \o t), n + m) /\ BytesOf(f, s \o t) = g[n + m]
  BY <1>1, BytesTyped
<1> DEFINE h == [i \in 0..m |-> g[n + i] - g[n]]
<1>3. BytesOf(f, s) = g[n]
  <2>1. ASSUME NEW i \in 1..n PROVE i \in 1..n + m /\ d(s \o t)[i] = d(s)[i]
    BY <1>1
  <2>2. Adds(g, d(s), n)
    BY <1>2, <2>1 DEF Adds
  <2> HIDE DEF n
  <2>3. QED  BY <2>2, BytesAre DEF n
<1>4. BytesOf(f, t) = h[m]
  <2>1. ASSUME NEW i \in 1..m PROVE n + i \in 1..n + m /\ d(s \o t)[n + i] = d(t)[i] /\ d(t)[i] \in Nat
    BY <1>1
  <2>2. ASSUME NEW i \in 1..m PROVE h[i] = h[i - 1] + d(t)[i]
    <3>1. /\ i - 1 \in 0..m /\ i \in 0..m /\ (n + i) - 1 = n + (i - 1)
          /\ n + i \in 0..n + m /\ n + (i - 1) \in 0..n + m /\ n \in 0..n + m
      BY <1>1
    <3>2. g[n + i] = g[n + (i - 1)] + d(t)[i]
      BY <1>2, <2>1, <3>1, ZenonT(60) DEF Adds
    <3>3. h[i] = g[n + i] - g[n] /\ h[i - 1] = g[n + (i - 1)] - g[n]
      BY <3>1
    <3>4. g[n + i] \in Nat /\ g[n + (i - 1)] \in Nat /\ g[n] \in Nat /\ d(t)[i] \in Nat
      BY <2>1, <3>1
    <3> HIDE DEF h, d
    <3>5. PICK a \in Nat, b \in Nat, c \in Nat, e \in Nat :
            a = g[n + i] /\ b = g[n + (i - 1)] /\ c = g[n] /\ e = d(t)[i]
      BY <3>4
    <3>6. a = b + e
      BY <3>2, <3>5, Zenon
    <3>7. a - c = (b - c) + e
      BY <3>6
    <3>8. QED  BY <3>3, <3>5, <3>7, Zenon
  <2>3. h[0] = 0
    BY <1>1
  <2>4. Adds(h, d(t), m)
    BY <2>2, <2>3 DEF Adds
  <2> HIDE DEF h, m
  <2>5. QED  BY <2>4, BytesAre DEF m
<1>5. n \in 0..n + m /\ n + m \in 0..n + m /\ m \in 0..m
  BY <1>1
<1>6. g[n] \in Nat /\ h[m] = g[n + m] - g[n] /\ g[n + m] \in Nat
  BY <1>5
<1>7. BytesOf(f, t) \in Nat
  <2>1. PICK k \in [0..Len(t) -> Nat] : BytesOf(f, t) = k[Len(t)]
    BY BytesTyped
  <2>2. QED  BY <1>1, <2>1
<1> HIDE DEF n, m, h
<1>8. QED  BY <1>2, <1>3, <1>4, <1>6, <1>7

LEMMA BytesTotal ==
  ASSUME NEW S, NEW f \in [S -> Nat], NEW s \in Seq(S), NEW t \in Seq(S)
  PROVE  BytesOf(f, s \o t) \in Nat
<1>1. PICK a \in Nat, b \in Nat : BytesOf(f, s \o t) = a + b
  BY BytesJoined
<1>2. QED  BY <1>1

LEMMA BytesOfFew ==
  ASSUME NEW S, NEW f \in [S -> Nat]
  PROVE  BytesOf(f, <<>>) = 0 /\ \A r \in S : BytesOf(f, <<r>>) = f[r]
<1>1. BytesOf(f, <<>>) = 0
  <2>1. << >> \in Seq(S) /\ Len(<< >>) = 0
    OBVIOUS
  <2>2. PICK g : Adds(g, [i \in 1..Len(<< >>) |-> f[<< >>[i]]], 0) /\ BytesOf(f, << >>) = g[0]
    BY <2>1, BytesTyped
  <2>3. QED  BY <2>2 DEF Adds
<1>2. ASSUME NEW r \in S PROVE BytesOf(f, <<r>>) = f[r]
  <2> DEFINE d == [i \in 1..Len(<<r>>) |-> f[<<r>>[i]]]
  <2>1. <<r>> \in Seq(S) /\ Len(<<r>>) = 1 /\ d[1] = f[r] /\ f[r] \in Nat
    OBVIOUS
  <2>2. PICK g : Adds(g, d, 1) /\ BytesOf(f, <<r>>) = g[1]
    <3> HIDE DEF BytesOf
    <3>1. \E g \in [0..Len(<<r>>) -> Nat] : Adds(g, d, Len(<<r>>)) /\ BytesOf(f, <<r>>) = g[Len(<<r>>)]
      BY <2>1, BytesTyped
    <3>2. QED  BY <2>1, <3>1
  <2> HIDE DEF d
  <2>3. g[0] = 0 /\ g[1] = g[1 - 1] + d[1]
    BY <2>2 DEF Adds
  <2>4. QED  BY <2>1, <2>2, <2>3
<1>3. QED  BY <1>1, <1>2

\* No number exceeds the sum.
LEMMA AddsBounds ==
  ASSUME NEW n \in Nat, NEW d \in [1..n -> Nat], NEW g \in [0..n -> Nat], Adds(g, d, n), NEW i \in 1..n
  PROVE  d[i] <= g[n]
<1> DEFINE Bad == {k \in i..n : ~(d[i] <= g[k])}
<1>1. SUFFICES ASSUME Bad # {} PROVE FALSE
  <2>1. n \in i..n /\ n \notin Bad => d[i] <= g[n]
    OBVIOUS
  <2> HIDE DEF Bad
  <2>2. QED  BY <2>1
<1>2. PICK m \in Bad : \A k \in Bad : m <= k
  <2>1. Bad \subseteq Nat
    OBVIOUS
  <2> HIDE DEF Bad
  <2>2. QED  BY <1>1, <2>1, LeastOf
<1>3. m \in i..n /\ ~(d[i] <= g[m])
  OBVIOUS
<1>4. m \in 1..n /\ m - 1 \in 0..n /\ m \in 0..n
  BY <1>3
<1>5. g[m] = g[m - 1] + d[m] /\ g[m - 1] \in Nat /\ d[m] \in Nat /\ d[i] \in Nat /\ g[m] \in Nat
  BY <1>4 DEF Adds
<1>6. CASE m = i
  BY <1>3, <1>5, <1>6
<1>7. CASE m # i
  <2>1. m - 1 \in i..n /\ ~(m <= m - 1)
    BY <1>3, <1>4, <1>7
  <2>2. d[i] <= g[m - 1]
    BY <1>2, <2>1
  <2>3. QED  BY <1>3, <1>5, <2>2
<1>8. QED  BY <1>6, <1>7

LEMMA LongestBounds ==
  Longest \in Nat /\ \A r \in Records : Encoded[r] <= Longest
<1> DEFINE S == {0} \cup {Encoded[r] : r \in Records}
           Bounds == {b \in Nat : \A y \in S : y <= b}
<1>1. S \subseteq Nat /\ 0 \in S /\ \A r \in Records : Encoded[r] \in S
  BY RequestCaptureAssumption
<1>2. Bounds # {}
  <2> DEFINE n == Cardinality(Records)
  <2>1. n \in Nat /\ ExistsBijection(1..n, Records)
    BY RequestCaptureAssumption, FS_CardinalityType
  <2> HIDE DEF n
  <2>2. PICK e \in [1..n -> Records] : \A r \in Records : \E i \in 1..n : e[i] = r
    BY <2>1 DEF ExistsBijection, Bijection, Surjection
  <2> DEFINE d == [i \in 1..n |-> Encoded[e[i]]]
  <2>3. d \in [1..n -> Nat]
    BY <2>2, RequestCaptureAssumption
  <2>4. \A r \in Records : \E i \in 1..n : d[i] = Encoded[r]
    BY <2>2
  <2> HIDE DEF d
  <2>5. PICK g \in [0..n -> Nat] : Adds(g, d, n)
    BY <2>1, <2>3, AddsExists
  <2>6. \A i \in 1..n : d[i] <= g[n]
    BY <2>1, <2>3, <2>5, AddsBounds
  <2>7. g[n] \in Nat
    BY <2>1
  <2>8. g[n] \in Bounds
    BY <2>4, <2>6, <2>7
  <2>9. QED  BY <2>8
<1>3. PICK b \in Bounds : \A c \in Bounds : b <= c
  <2>1. Bounds \subseteq Nat
    OBVIOUS
  <2> HIDE DEF Bounds
  <2>2. QED  BY <1>2, <2>1, LeastOf
<1>4. b \in Nat /\ \A y \in S : y <= b
  OBVIOUS
<1>5. b \in S
  <2>1. SUFFICES ASSUME b \notin S PROVE FALSE
    OBVIOUS
  <2> HIDE DEF S
  <2>2. b - 1 \in Nat /\ ~(b <= b - 1)
    BY <1>1, <1>4, <2>1
  <2>3. \A y \in S : y <= b - 1
    BY <1>1, <1>4, <2>1
  <2>4. QED  BY <1>3, <2>2, <2>3
<1> HIDE DEF S
<1>6. b \in S /\ \A y \in S : b >= y
  BY <1>1, <1>4, <1>5
<1>7. Max(S) \in S /\ \A y \in S : Max(S) >= y
  BY <1>6 DEF Max
<1>8. Longest = Max(S)
  BY DEF Longest, S
<1>9. QED  BY <1>1, <1>7, <1>8

LEMMA CountNames == DOMAIN Zero = {"submitted", "written", "dropped", "write_errors", "bytes"}
BY DEF Zero

\* Where a line goes when it joins or leaves a sequence.
LEMMA Lines ==
  ASSUME NEW s \in Seq(Records), NEW t \in Seq(Records), NEW r \in Records
  PROVE  /\ s \o Append(t, r) = (s \o t) \o <<r>> /\ Append(s, r) = s \o <<r>>
         /\ s \o (t \o <<r>>) = (s \o t) \o <<r>>
         /\ t # <<>> => Head(t) \in Records /\ Tail(t) \in Seq(Records) /\ <<Head(t)>> \o Tail(t) = t
         /\ s \o <<>> = s /\ <<>> \o s = s /\ s \o t \in Seq(Records) /\ <<r>> \in Seq(Records)
<1>1. <<r>> \in Seq(Records) /\ Append(t, r) = t \o <<r>> /\ Append(s, r) = s \o <<r>>
  OBVIOUS
<1>2. s \o (t \o <<r>>) = (s \o t) \o <<r>>
  BY <1>1, ConcatAssociative
<1>3. ASSUME t # <<>>
      PROVE  Head(t) \in Records /\ Tail(t) \in Seq(Records) /\ <<Head(t)>> \o Tail(t) = t
  <2>1. /\ Head(t) \in Records /\ Tail(t) \in Seq(Records) /\ Len(Tail(t)) = Len(t) - 1 /\ Len(t) \in Nat
        /\ \A i \in 1..Len(Tail(t)) : Tail(t)[i] = t[i + 1]
    BY <1>3, HeadTailProperties
  <2> DEFINE h == <<Head(t)>>
             u == Tail(t)
  <2>2. h \in Seq(Records) /\ Len(h) = 1 /\ h[1] = t[1] /\ u \in Seq(Records)
    BY <2>1
  <2> HIDE DEF h, u
  <2>3. /\ h \o u \in Seq(Records) /\ Len(h \o u) = Len(h) + Len(u)
        /\ \A i \in 1..Len(h) + Len(u) : (h \o u)[i] = IF i <= Len(h) THEN h[i] ELSE u[i - Len(h)]
    BY <2>2, ConcatProperties
  <2>4. ASSUME NEW i \in 1..Len(h \o u) PROVE (h \o u)[i] = t[i]
    <3>1. i \in 1..Len(t) /\ i \in 1..Len(h) + Len(u) /\ Len(u) = Len(t) - 1
      BY <2>1, <2>2, <2>3 DEF u
    <3>2. CASE i = 1
      BY <2>2, <2>3, <3>1, <3>2
    <3>3. CASE i # 1
      <4>1. i - 1 \in 1..Len(u) /\ ~(i <= Len(h)) /\ (i - 1) + 1 = i
        BY <2>1, <2>2, <3>1, <3>3
      <4>2. u[i - 1] = t[i]
        BY <2>1, <4>1 DEF u
      <4>3. QED  BY <2>2, <2>3, <3>1, <4>1, <4>2
    <3>4. QED  BY <3>2, <3>3
  <2>5. h \o u = t
    BY <2>1, <2>2, <2>3, <2>4, SeqEqual DEF u
  <2>6. QED  BY <2>1, <2>5 DEF h, u
<1>4. QED  BY <1>1, <1>2, <1>3, ConcatEmptySeq

LEMMA CountsTyped ==
  ASSUME TypeOK
  PROVE  \E a \in Nat, b \in Nat, c \in Nat, d \in {0, 1} :
           /\ a = counts.written /\ b = counts.dropped /\ c = Len(queue)
           /\ d = IF writer = "writing" THEN 1 ELSE 0
<1>1. counts.written \in Nat /\ counts.dropped \in Nat /\ Len(queue) \in Nat
  BY CountNames DEF TypeOK
<1>2. (IF writer = "writing" THEN 1 ELSE 0) \in {0, 1}
  OBVIOUS
<1>3. QED  BY <1>1, <1>2

LEMMA SubmitStep ==
  ASSUME CaptureInv, NEW r \in Records, submit(r)
  PROVE  CaptureInv'
<1> USE DEF CaptureInv
<1>1. Cardinality(offered') = Cardinality(offered) + 1 /\ Cardinality(offered) \in Nat
  <2>1. IsFiniteSet(offered) /\ r \notin offered /\ offered' = offered \cup {r}
    BY RequestCaptureAssumption, FS_Subset DEF TypeOK, submit
  <2>2. QED  BY <2>1, FS_AddElement, FS_CardinalityType
<1>2. /\ counts \in [DOMAIN Zero -> Nat] /\ counts.submitted \in Nat /\ counts.written \in Nat
      /\ counts.dropped \in Nat
  BY CountNames DEF TypeOK
<1>3. CASE /\ counts' = [counts EXCEPT !.dropped = @ + 1]
           /\ UNCHANGED <<queue, queued_bytes, accepted>>
  <2>1. /\ counts' \in [DOMAIN Zero -> Nat] /\ counts'.dropped = counts.dropped + 1
        /\ counts'.submitted = counts.submitted /\ counts'.written = counts.written
        /\ counts'.write_errors = counts.write_errors /\ counts'.bytes = counts.bytes
    BY <1>2, <1>3, CountNames
  <2> USE <1>3 DEF submit, disk
  <2>2. TypeOK'
    BY <2>1 DEF TypeOK
  <2>3. QueuedBytesExact' /\ DiskLimit'
    BY <2>1 DEF QueuedBytesExact, DiskLimit, InHand
  <2>4. EveryRecordCounted'
    <3>1. PICK a \in Nat, b \in Nat, c \in Nat, d \in {0, 1} :
            /\ a = counts.written /\ b = counts.dropped /\ c = Len(queue)
            /\ d = IF writer = "writing" THEN 1 ELSE 0
      BY CountsTyped
    <3>2. Cardinality(offered) = a + b + c + d
      BY <3>1 DEF EveryRecordCounted
    <3>3. Cardinality(offered') = a + (b + 1) + c + d
      BY <1>1, <3>2
    <3>4. QED  BY <2>1, <3>1, <3>3 DEF EveryRecordCounted
  <2>5. WriterHeld' /\ RecordsHeld'
    BY <2>1 DEF WriterHeld, RecordsHeld, InWriting
  <2>6. QED  BY <2>2, <2>3, <2>4, <2>5
<1>4. CASE /\ ~closed /\ queued_bytes + Size[r] <= max_queued_bytes /\ Len(queue) < max_records
           /\ queue' = Append(queue, r)
           /\ queued_bytes' = queued_bytes + Size[r]
           /\ counts' = [counts EXCEPT !.submitted = @ + 1]
           /\ accepted' = Append(accepted, r)
  <2>1. /\ counts' \in [DOMAIN Zero -> Nat] /\ counts'.submitted = counts.submitted + 1
        /\ counts'.dropped = counts.dropped /\ counts'.written = counts.written
        /\ counts'.write_errors = counts.write_errors /\ counts'.bytes = counts.bytes
    <3>1. counts' = [counts EXCEPT !.submitted = @ + 1]
      BY <1>4
    <3>2. QED  BY <1>2, <3>1, CountNames
  <2> USE <1>4 DEF submit, disk
  <2>2. TypeOK'
    <3>1. queue' \in Seq(Records) /\ Len(queue') <= max_records /\ accepted' \in Seq(Records)
      <4>1. /\ queue \in Seq(Records) /\ accepted \in Seq(Records) /\ Len(queue) \in Nat
            /\ Len(queue) < max_records /\ max_records \in Nat
            /\ queue' = Append(queue, r) /\ accepted' = Append(accepted, r)
        BY RequestCaptureAssumption DEF TypeOK
      <4>2. queue' \in Seq(Records) /\ accepted' \in Seq(Records) /\ Len(queue') = Len(queue) + 1
        BY <4>1
      <4>3. QED  BY <4>1, <4>2
    <3>2. queued_bytes' \in Nat
      <4>1. queued_bytes \in Nat /\ Size[r] \in Nat /\ queued_bytes' = queued_bytes + Size[r]
        BY RequestCaptureAssumption DEF TypeOK
      <4>2. QED  BY <4>1
    <3>3. QED  BY <2>1, <3>1, <3>2 DEF TypeOK
  <2>3. QueuedBytesExact'
    <3>1. InHand \in Seq(Records) /\ queue \in Seq(Records) /\ InHand' = InHand
      BY DEF TypeOK, InHand
    <3>2. (InHand \o queue)' = (InHand \o queue) \o <<r>> /\ InHand \o queue \in Seq(Records)
            /\ <<r>> \in Seq(Records)
      BY <3>1, Lines
    <3>3. BytesOf(Size, (InHand \o queue) \o <<r>>) = BytesOf(Size, InHand \o queue) + Size[r]
      <4>1. Size \in [Records -> Nat]
        BY RequestCaptureAssumption
      <4> DEFINE reserved == InHand \o queue
                 last == <<r>>
      <4>2. reserved \in Seq(Records) /\ last \in Seq(Records)
        BY <3>2
      <4>3. BytesOf(Size, last) = Size[r]
        BY <4>1, BytesOfFew
      <4> HIDE DEF reserved, last
      <4>4. BytesOf(Size, reserved \o last) = BytesOf(Size, reserved) + BytesOf(Size, last)
        BY <4>1, <4>2, BytesJoined
      <4>5. QED  BY <4>3, <4>4 DEF reserved, last
    <3>4. QED  BY <3>2, <3>3 DEF QueuedBytesExact
  <2>4. EveryRecordCounted'
    <3>1. PICK a \in Nat, b \in Nat, c \in Nat, d \in {0, 1} :
            /\ a = counts.written /\ b = counts.dropped /\ c = Len(queue)
            /\ d = IF writer = "writing" THEN 1 ELSE 0
      BY CountsTyped
    <3>2. Cardinality(offered) = a + b + c + d
      BY <3>1 DEF EveryRecordCounted
    <3>3. Cardinality(offered') = a + b + (c + 1) + d
      BY <1>1, <3>2
    <3>4. Len(queue') = c + 1
      BY <3>1 DEF TypeOK
    <3>5. QED  BY <2>1, <3>1, <3>3, <3>4 DEF EveryRecordCounted
  <2>5. DiskLimit'
    BY <2>1 DEF DiskLimit
  <2>6. WriterHeld'
    BY DEF WriterHeld
  <2>7. RecordsHeld'
    <3>1. Len(accepted') = Len(accepted) + 1
      BY DEF TypeOK
    <3>2. InWriting \in Seq(Records) /\ file \o stream \in Seq(Records)
      BY DEF TypeOK, InWriting, WriterHeld
    <3>3. /\ accepted' = accepted \o <<r>>
          /\ ((file \o stream \o InWriting) \o queue) \o <<r>> = (file \o stream \o InWriting) \o queue'
      <4> DEFINE before == file \o stream \o InWriting
      <4>1. before \in Seq(Records) /\ queue \in Seq(Records) /\ accepted \in Seq(Records)
        BY <3>2, ConcatProperties DEF TypeOK
      <4> HIDE DEF before
      <4>2. before \o Append(queue, r) = (before \o queue) \o <<r>> /\ Append(accepted, r) = accepted \o <<r>>
        BY <4>1, Lines
      <4>3. QED  BY <4>2 DEF before
    <3>4. writer # "ended"
      BY DEF WriterHeld
    <3>5. QED  BY <2>1, <3>1, <3>3, <3>4 DEF RecordsHeld, InWriting
  <2>8. QED  BY <2>2, <2>3, <2>4, <2>5, <2>6, <2>7
<1>5. QED
  <2>1. queued_bytes \in Nat /\ Size[r] \in Nat /\ Len(queue) \in Nat
    BY RequestCaptureAssumption DEF TypeOK
  <2>2. QED  BY <1>3, <1>4, <2>1, RequestCaptureAssumption DEF submit

LEMMA QueueSteps ==
  ASSUME CaptureInv, Test \/ Get \/ Release \/ close
  PROVE  CaptureInv'
<1> USE DEF CaptureInv
<1>1. CASE Test
  <2> USE <1>1 DEF Test, disk
  <2>1. TypeOK'
    BY DEF TypeOK
  <2>2. QueuedBytesExact' /\ DiskLimit'
    BY DEF QueuedBytesExact, InHand, DiskLimit
  <2>3. EveryRecordCounted' /\ WriterHeld' /\ RecordsHeld'
    BY DEF EveryRecordCounted, WriterHeld, RecordsHeld, InWriting
  <2>4. QED  BY <2>1, <2>2, <2>3
<1>2. CASE Get
  <2>1. CASE queue = <<>>
    <3> USE <1>2, <2>1 DEF Get, disk
    <3>1. TypeOK'
      BY DEF TypeOK
    <3>2. QueuedBytesExact' /\ DiskLimit'
      BY DEF QueuedBytesExact, InHand, DiskLimit
    <3>3. EveryRecordCounted' /\ WriterHeld' /\ RecordsHeld'
      BY DEF EveryRecordCounted, WriterHeld, RecordsHeld, InWriting
    <3>4. QED  BY <3>1, <3>2, <3>3
  <2>2. CASE queue # <<>>
    <3>1. /\ writer = "getting" /\ writer' = "writing" /\ current' = Head(queue) /\ queue' = Tail(queue)
          /\ UNCHANGED <<queued_bytes, counts, closed, stream, file, status, disk_limit_reached, accepted, offered>>
      BY <1>2, <2>2 DEF Get, disk
    <3>2. current = None
      BY <3>1 DEF WriterHeld
    <3>3. /\ Head(queue) \in Records /\ Tail(queue) \in Seq(Records) /\ <<Head(queue)>> \o Tail(queue) = queue
          /\ <<>> \o queue = queue
      <4>1. queue \in Seq(Records)
        BY DEF TypeOK
      <4>2. Head(queue) \in Records
        BY <2>2, <4>1, HeadTailProperties
      <4>3. QED  BY <2>2, <4>1, <4>2, Lines
    <3>4. /\ Len(Tail(queue)) = Len(queue) - 1 /\ Len(queue) \in Nat /\ Len(Tail(queue)) \in Nat
          /\ Head(queue) # None
      BY <2>2, <3>3, RequestCaptureAssumption DEF TypeOK
    <3>5. TypeOK'
      BY <3>1, <3>3, <3>4, RequestCaptureAssumption, SMTT(30) DEF TypeOK
    <3>6. QueuedBytesExact' /\ DiskLimit'
      BY <3>1, <3>2, <3>3, <3>4 DEF QueuedBytesExact, InHand, DiskLimit
    <3>7. EveryRecordCounted'
      <4>1. PICK a \in Nat, b \in Nat, c \in Nat, d \in {0, 1} :
              /\ a = counts.written /\ b = counts.dropped /\ c = Len(queue)
              /\ d = IF writer = "writing" THEN 1 ELSE 0
        BY CountsTyped
      <4>2. Cardinality(offered) = a + b + c + d /\ d = 0
        BY <3>1, <4>1 DEF EveryRecordCounted
      <4>3. Cardinality(offered) = a + b + (c - 1) + 1
        BY <4>2
      <4>4. QED  BY <3>1, <3>4, <4>1, <4>3 DEF EveryRecordCounted
    <3>8. WriterHeld'
      BY <3>1, <3>4 DEF WriterHeld
    <3>9. RecordsHeld'
      <4> DEFINE before == file \o stream
      <4>1. before \in Seq(Records) /\ before' = before
        BY <3>1 DEF TypeOK
      <4>2. InWriting = <<>> /\ InWriting' = <<Head(queue)>>
        BY <3>1 DEF InWriting
      <4>3. (before \o InWriting \o queue)' = before \o InWriting \o queue
        <5> HIDE DEF before
        <5>1. before \o <<>> = before
          BY <4>1, ConcatEmptySeq
        <5>2. <<Head(queue)>> \in Seq(Records)
          BY <3>3
        <5>3. (before \o <<Head(queue)>>) \o Tail(queue) = before \o (<<Head(queue)>> \o Tail(queue))
          BY <3>3, <4>1, <5>2, ConcatAssociative
        <5>4. QED  BY <3>1, <3>3, <4>1, <4>2, <5>1, <5>3
      <4>4. QED  BY <3>1, <4>3 DEF RecordsHeld
    <3>10. QED  BY <3>5, <3>6, <3>7, <3>8, <3>9
  <2>3. QED  BY <2>1, <2>2
<1>3. CASE Release
  <2>1. /\ writer = "releasing" /\ writer' = "publishing" /\ queued_bytes' = queued_bytes - Size[current]
        /\ current' = None
        /\ UNCHANGED <<queue, counts, closed, stream, file, status, disk_limit_reached, accepted, offered>>
    BY <1>3 DEF Release, disk
  <2>2. current \in Records /\ queue \in Seq(Records) /\ <<current>> \in Seq(Records)
    BY <2>1 DEF WriterHeld, TypeOK
  <2>3. queued_bytes' = BytesOf(Size, queue) /\ queued_bytes' \in Nat /\ queued_bytes' <= max_queued_bytes
    <3>1. Size \in [Records -> Nat] /\ max_queued_bytes \in Nat
      BY RequestCaptureAssumption
    <3>2. InHand = <<current>>
      BY <2>1 DEF InHand, WriterHeld
    <3> DEFINE held == <<current>>
    <3>3. held \in Seq(Records) /\ BytesOf(Size, held) = Size[current]
      BY <2>2, <3>1, BytesOfFew
    <3> HIDE DEF held
    <3>4. /\ BytesOf(Size, held) \in Nat /\ BytesOf(Size, queue) \in Nat
          /\ BytesOf(Size, held \o queue) = BytesOf(Size, held) + BytesOf(Size, queue)
      BY <2>2, <3>1, <3>3, BytesJoined
    <3>5. queued_bytes = BytesOf(Size, held \o queue) /\ queued_bytes <= max_queued_bytes
      BY <3>2 DEF QueuedBytesExact, held
    <3>6. QED  BY <2>1, <3>1, <3>3, <3>4, <3>5
  <2>4. TypeOK'
    BY <2>1, <2>3 DEF TypeOK
  <2>5. QueuedBytesExact' /\ DiskLimit'
    <3>1. <<>> \o queue = queue
      BY <2>2, ConcatEmptySeq
    <3>2. QED  BY <2>1, <2>3, <3>1 DEF QueuedBytesExact, InHand, DiskLimit
  <2>6. EveryRecordCounted' /\ WriterHeld' /\ RecordsHeld'
    BY <2>1 DEF EveryRecordCounted, WriterHeld, RecordsHeld, InWriting
  <2>7. QED  BY <2>4, <2>5, <2>6
<1>4. CASE close
  <2> USE <1>4 DEF close, disk
  <2>1. TypeOK'
    BY DEF TypeOK
  <2>2. QueuedBytesExact' /\ DiskLimit'
    BY DEF QueuedBytesExact, InHand, DiskLimit
  <2>3. EveryRecordCounted' /\ WriterHeld' /\ RecordsHeld'
    BY DEF EveryRecordCounted, WriterHeld, RecordsHeld, InWriting
  <2>4. QED  BY <2>1, <2>2, <2>3
<1>5. QED  BY <1>1, <1>2, <1>3, <1>4

\* An error is counted and nothing else.
OneError == Error /\ counts' = [counts EXCEPT !.write_errors = @ + 1]

LEMMA ErrorCounted ==
  ASSUME TypeOK, OneError
  PROVE  /\ counts' \in [DOMAIN Zero -> Nat] /\ counts'.submitted = counts.submitted
         /\ counts'.written = counts.written /\ counts'.dropped = counts.dropped
         /\ counts'.bytes = counts.bytes /\ counts'.write_errors = counts.write_errors + 1
         /\ counts'.write_errors # 0
<1>1. counts \in [DOMAIN Zero -> Nat] /\ counts.write_errors \in Nat /\ counts.write_errors + 1 # 0
  BY CountNames, SMTT(30) DEF TypeOK
<1>2. counts' = [counts EXCEPT !.write_errors = @ + 1]
  BY DEF OneError
<1>3. QED  BY <1>1, <1>2, CountNames

\* Every error makes room for one line.
LEMMA RoomForError ==
  ASSUME TypeOK
  PROVE  /\ counts.write_errors * Longest \in Nat /\ counts.bytes \in Nat
         /\ (counts.write_errors + 1) * Longest = counts.write_errors * Longest + Longest
<1>1. PICK e \in Nat, l \in Nat : e = counts.write_errors /\ l = Longest
  BY LongestBounds, CountNames DEF TypeOK
<1>2. e * l \in Nat /\ (e + 1) * l = e * l + l
  OBVIOUS
<1>3. QED  BY <1>1, <1>2, CountNames DEF TypeOK

LEMMA LinesKept ==
  ASSUME TypeOK, Flushed \/ UNCHANGED <<stream, file>>
  PROVE  /\ file' \in Seq(Records) /\ stream' \in Seq(Records)
         /\ file' \o stream' = file \o stream /\ (stream = <<>> => stream' = <<>>)
<1>1. file \in Seq(Records) /\ stream \in Seq(Records)
  BY DEF TypeOK
<1>2. CASE UNCHANGED <<stream, file>>
  BY <1>1, <1>2
<1>3. CASE Flushed
  <2>1. file \o stream \in Seq(Records)
    BY <1>1, ConcatProperties
  <2>2. (file \o stream) \o <<>> = file \o stream
    BY <2>1, ConcatEmptySeq
  <2>3. QED  BY <1>3, <2>1, <2>2 DEF Flushed
<1>4. QED  BY <1>2, <1>3

\* The writer past its queue: lines reach the file or are lost with an error.
LEMMA AwayFromQueue ==
  ASSUME CaptureInv, writer \notin {"writing", "releasing"}, writer' \notin {"writing", "releasing"},
         UNCHANGED <<queue, queued_bytes, closed, disk_limit_reached, current, accepted, offered>>,
         \/ (Flushed \/ UNCHANGED <<stream, file>>) /\ (UNCHANGED counts \/ OneError)
         \/ stream' = <<>> /\ UNCHANGED file /\ OneError
  PROVE  /\ QueuedBytesExact' /\ EveryRecordCounted' /\ DiskLimit'
         /\ counts' \in [DOMAIN Zero -> Nat] /\ {stream', file'} \subseteq Seq(Records)
         /\ counts'.submitted = Len(accepted)
         /\ counts'.write_errors = 0 =>
              counts' = counts /\ counts.written = Len(file' \o stream')
         /\ counts'.write_errors = 0 /\ ~disk_limit_reached => accepted = file' \o stream' \o InWriting' \o queue
<1> USE DEF CaptureInv
<1>1. CASE (Flushed \/ UNCHANGED <<stream, file>>) /\ (UNCHANGED counts \/ OneError)
  <2>1. file' \in Seq(Records) /\ stream' \in Seq(Records) /\ file' \o stream' = file \o stream
    BY <1>1, LinesKept
  <2>2. CASE UNCHANGED counts
    <3>1. QueuedBytesExact' /\ EveryRecordCounted' /\ DiskLimit'
      BY <2>1, <2>2 DEF QueuedBytesExact, InHand, EveryRecordCounted, DiskLimit
    <3>2. QED  BY <2>1, <2>2, <3>1 DEF TypeOK, RecordsHeld, InWriting
  <2>3. CASE OneError
    <3>1. QueuedBytesExact' /\ EveryRecordCounted'
      BY <2>3, ErrorCounted DEF QueuedBytesExact, InHand, EveryRecordCounted
    <3>2. DiskLimit'
      <4>1. PICK sum \in Nat, room \in Nat, bytes \in Nat :
              sum = BytesOf(Encoded, file \o stream) /\ room = counts.write_errors * Longest
                /\ bytes = counts.bytes
        <5>1. Encoded \in [Records -> Nat] /\ file \in Seq(Records) /\ stream \in Seq(Records)
          BY RequestCaptureAssumption DEF TypeOK
        <5>2. BytesOf(Encoded, file \o stream) \in Nat
          BY <5>1, BytesTotal
        <5>3. QED  BY <5>2, RoomForError
      <4>2. sum <= bytes + room
        BY <4>1 DEF DiskLimit
      <4>3. sum <= bytes + (room + Longest)
        BY <4>2, LongestBounds
      <4>4. counts'.bytes = bytes /\ counts'.write_errors # 0 /\ counts'.write_errors * Longest = room + Longest
        BY <2>3, <4>1, ErrorCounted, RoomForError
      <4>5. bytes <= max_disk_bytes
        BY <4>1 DEF DiskLimit
      <4>6. QED  BY <2>1, <4>1, <4>3, <4>4, <4>5 DEF DiskLimit
    <3>3. QED  BY <2>1, <2>3, <3>1, <3>2, ErrorCounted DEF RecordsHeld
  <2>4. QED  BY <1>1, <2>2, <2>3
<1>2. CASE stream' = <<>> /\ UNCHANGED file /\ OneError
  <2>1. QueuedBytesExact' /\ EveryRecordCounted'
    BY <1>2, ErrorCounted DEF QueuedBytesExact, InHand, EveryRecordCounted
  <2>2. file \in Seq(Records) /\ stream \in Seq(Records) /\ file' \o stream' = file
    BY <1>2, ConcatEmptySeq DEF TypeOK
  <2>3. DiskLimit'
    <3>1. /\ BytesOf(Encoded, file) \in Nat /\ BytesOf(Encoded, stream) \in Nat
          /\ BytesOf(Encoded, file \o stream) = BytesOf(Encoded, file) + BytesOf(Encoded, stream)
      <4>1. Encoded \in [Records -> Nat]
        BY RequestCaptureAssumption
      <4>2. QED  BY <2>2, <4>1, BytesJoined
    <3>2. PICK kept \in Nat, lost \in Nat, room \in Nat, bytes \in Nat :
            /\ kept = BytesOf(Encoded, file) /\ lost = BytesOf(Encoded, stream)
            /\ room = counts.write_errors * Longest /\ bytes = counts.bytes
      BY <3>1, RoomForError
    <3>3. kept + lost <= bytes + room
      BY <3>1, <3>2 DEF DiskLimit
    <3>4. kept <= bytes + (room + Longest)
      BY <3>3, LongestBounds
    <3>5. counts'.bytes = bytes /\ counts'.write_errors # 0 /\ counts'.write_errors * Longest = room + Longest
      BY <1>2, <3>2, ErrorCounted, RoomForError
    <3>6. bytes <= max_disk_bytes
      BY <3>2 DEF DiskLimit
    <3>7. QED  BY <2>2, <3>2, <3>4, <3>5, <3>6 DEF DiskLimit
  <2>4. QED  BY <1>2, <2>1, <2>2, <2>3, ErrorCounted DEF RecordsHeld
<1>3. QED  BY <1>1, <1>2

LEMMA StreamSteps ==
  ASSUME CaptureInv, PublishPeriodic \/ Flush \/ CloseStream \/ Report
  PROVE  CaptureInv'
<1> USE DEF CaptureInv
<1>1. /\ writer \notin {"writing", "releasing"} /\ writer' \notin {"writing", "releasing"}
      /\ UNCHANGED <<queue, queued_bytes, closed, disk_limit_reached, current, accepted, offered>>
      /\ \/ (Flushed \/ UNCHANGED <<stream, file>>) /\ (UNCHANGED counts \/ OneError)
         \/ stream' = <<>> /\ UNCHANGED file /\ OneError
  BY DEF PublishPeriodic, Flush, CloseStream, Report, OneError
<1>2. /\ QueuedBytesExact' /\ EveryRecordCounted' /\ DiskLimit'
      /\ counts' \in [DOMAIN Zero -> Nat] /\ {stream', file'} \subseteq Seq(Records)
      /\ counts'.submitted = Len(accepted)
      /\ counts'.write_errors = 0 =>
           counts' = counts /\ counts.written = Len(file' \o stream')
      /\ counts'.write_errors = 0 /\ ~disk_limit_reached => accepted = file' \o stream' \o InWriting' \o queue
  BY <1>1, AwayFromQueue
<1>3. status' \in {status, counts}
  BY DEF PublishPeriodic, Flush, CloseStream, Report
<1>4. writer' \in {"testing", "closing", "reporting", "ended"}
  BY DEF PublishPeriodic, Flush, CloseStream, Report
<1>5. TypeOK'
  BY <1>1, <1>2, <1>3, <1>4 DEF TypeOK
<1>6. WriterHeld'
  <2>1. /\ current = None
        /\ writer' \in {"closing", "reporting", "ended"} => closed /\ queue = <<>>
    BY DEF WriterHeld, PublishPeriodic, Flush, CloseStream, Report
  <2>2. writer' \in {"reporting", "ended"} => stream' = <<>>
    BY DEF WriterHeld, PublishPeriodic, Flush, CloseStream, Report, Flushed
  <2>3. QED  BY <1>1, <1>4, <2>1, <2>2 DEF WriterHeld
<1>7. RecordsHeld'
  <2>1. writer' = "ended" /\ counts'.write_errors = 0 => status' = counts'
    <3>1. ASSUME writer' = "ended", counts'.write_errors = 0 PROVE status' = counts'
      <4>1. Report
        BY <3>1 DEF PublishPeriodic, Flush, CloseStream, Report
      <4>2. ~OneError
        BY <3>1, ErrorCounted
      <4>3. QED  BY <4>1, <4>2 DEF Report, OneError
    <3>2. QED  BY <3>1
  <2>2. QED  BY <1>1, <1>2, <2>1 DEF RecordsHeld
<1>8. QED  BY <1>2, <1>5, <1>6, <1>7

LEMMA WriteStep ==
  ASSUME CaptureInv, Write
  PROVE  CaptureInv'
<1> USE DEF CaptureInv
<1>1. /\ writer = "writing" /\ writer' = "releasing"
      /\ UNCHANGED <<queue, queued_bytes, closed, current, file, status, accepted, offered>>
  BY DEF Write
<1>2. current \in Records /\ current # None
  BY <1>1 DEF WriterHeld, TypeOK
<1>3. /\ file \in Seq(Records) /\ stream \in Seq(Records) /\ <<current>> \in Seq(Records)
      /\ Encoded \in [Records -> Nat] /\ Encoded[current] \in Nat /\ max_disk_bytes \in Nat
  BY <1>2, RequestCaptureAssumption DEF TypeOK
<1>4. /\ counts \in [DOMAIN Zero -> Nat] /\ counts.written \in Nat /\ counts.dropped \in Nat
      /\ counts.bytes \in Nat /\ counts.write_errors \in Nat
  BY CountNames DEF TypeOK
<1> DEFINE lines == file \o stream
           longer == file \o Append(stream, current)
<1>5. lines \in Seq(Records) /\ longer = lines \o <<current>> /\ Len(longer) = Len(lines) + 1
        /\ Len(lines) \in Nat
  <2>1. lines \in Seq(Records) /\ longer = lines \o <<current>>
    BY <1>2, <1>3, Lines
  <2> HIDE DEF lines, longer
  <2>2. QED  BY <1>3, <2>1
<1>6. BytesOf(Encoded, longer) = BytesOf(Encoded, lines) + Encoded[current] /\ BytesOf(Encoded, lines) \in Nat
  <2> DEFINE last == <<current>>
  <2>1. last \in Seq(Records) /\ BytesOf(Encoded, last) = Encoded[current]
    BY <1>2, <1>3, BytesOfFew
  <2>2. longer = lines \o last
    BY <1>5
  <2> HIDE DEF last, lines, longer
  <2>3. /\ BytesOf(Encoded, lines) \in Nat
        /\ BytesOf(Encoded, lines \o last) = BytesOf(Encoded, lines) + BytesOf(Encoded, last)
    BY <1>3, <1>5, <2>1, BytesJoined
  <2>4. QED  BY <2>1, <2>2, <2>3
<1>7. PICK sum \in Nat, room \in Nat, bytes \in Nat, line \in Nat :
        /\ sum = BytesOf(Encoded, lines) /\ room = counts.write_errors * Longest
        /\ bytes = counts.bytes /\ line = Encoded[current]
  BY <1>3, <1>6, RoomForError
<1>8. sum <= bytes + room /\ bytes <= max_disk_bytes /\ (counts.write_errors = 0 => bytes = sum)
  BY <1>7 DEF DiskLimit
<1>9. QueuedBytesExact' /\ WriterHeld'
  BY <1>1, <1>2 DEF QueuedBytesExact, InHand, WriterHeld
<1>10. ASSUME counts' \in [DOMAIN Zero -> Nat],
              \/ counts'.written = counts.written + 1 /\ counts'.dropped = counts.dropped
              \/ counts'.written = counts.written /\ counts'.dropped = counts.dropped + 1
       PROVE  EveryRecordCounted'
  <2>1. PICK a \in Nat, b \in Nat, c \in Nat, d \in {0, 1} :
          /\ a = counts.written /\ b = counts.dropped /\ c = Len(queue)
          /\ d = IF writer = "writing" THEN 1 ELSE 0
    BY CountsTyped
  <2>2. Cardinality(offered) = a + b + c + d /\ d = 1
    BY <1>1, <2>1 DEF EveryRecordCounted
  <2>3. PICK p \in Nat, q \in Nat : p = counts'.written /\ q = counts'.dropped
    BY <1>10, CountNames
  <2>4. (p = a + 1 /\ q = b) \/ (p = a /\ q = b + 1)
    BY <1>10, <2>1, <2>3
  <2>5. a + b + c + 1 = p + q + c + 0
    BY <2>4
  <2>6. QED  BY <1>1, <2>1, <2>2, <2>3, <2>5 DEF EveryRecordCounted
<1>11. CASE /\ disk_limit_reached' = TRUE
            /\ counts' = [counts EXCEPT !.dropped = @ + 1]
            /\ UNCHANGED stream
  <2>1. /\ counts' \in [DOMAIN Zero -> Nat] /\ counts'.submitted = counts.submitted
        /\ counts'.written = counts.written /\ counts'.dropped = counts.dropped + 1
        /\ counts'.bytes = counts.bytes /\ counts'.write_errors = counts.write_errors
    BY <1>4, <1>11, CountNames
  <2>2. TypeOK'
    BY <1>1, <1>11, <2>1 DEF TypeOK
  <2>3. DiskLimit'
    BY <1>1, <1>11, <2>1 DEF DiskLimit
  <2>4. RecordsHeld'
    BY <1>1, <1>11, <2>1 DEF RecordsHeld
  <2>5. QED  BY <1>9, <1>10, <2>1, <2>2, <2>3, <2>4
<1>12. CASE /\ counts.bytes + Encoded[current] <= max_disk_bytes
            /\ stream' = Append(stream, current)
            /\ counts' = [counts EXCEPT !.written = @ + 1, !.bytes = @ + Encoded[current]]
            /\ UNCHANGED disk_limit_reached
  <2>1. /\ counts' \in [DOMAIN Zero -> Nat] /\ counts'.submitted = counts.submitted
        /\ counts'.written = counts.written + 1 /\ counts'.dropped = counts.dropped
        /\ counts'.bytes = counts.bytes + Encoded[current] /\ counts'.write_errors = counts.write_errors
    <3>1. counts' = [counts EXCEPT !.written = @ + 1, !.bytes = @ + Encoded[current]]
      BY <1>12
    <3>2. counts.bytes + Encoded[current] \in Nat /\ counts.written + 1 \in Nat
      BY <1>3, <1>4
    <3>3. QED  BY <1>4, <3>1, <3>2, CountNames
  <2>2. file' \o stream' = longer
    BY <1>1, <1>12
  <2>3. TypeOK'
    BY <1>1, <1>2, <1>12, <2>1 DEF TypeOK
  <2>4. DiskLimit'
    <3>1. counts'.bytes = bytes + line /\ bytes + line <= max_disk_bytes
      BY <1>7, <1>12, <2>1
    <3>2. BytesOf(Encoded, longer) = sum + line
      BY <1>6, <1>7
    <3>3. sum + line <= (bytes + line) + room
      BY <1>8
    <3> HIDE DEF longer
    <3>4. QED  BY <1>7, <1>8, <2>1, <2>2, <3>1, <3>2, <3>3 DEF DiskLimit
  <2>5. RecordsHeld'
    <3>1. counts'.write_errors = 0 => counts'.written = Len(longer)
      BY <1>5, <2>1 DEF RecordsHeld
    <3>2. longer \o <<>> = longer
      <4>1. longer \in Seq(Records)
        BY <1>3, <1>5, ConcatProperties
      <4> HIDE DEF longer
      <4>2. QED  BY <4>1, ConcatEmptySeq
    <3>3. counts'.write_errors = 0 /\ ~disk_limit_reached => accepted = longer \o queue
      BY <1>1, <1>5, <2>1 DEF RecordsHeld, InWriting
    <3> HIDE DEF longer
    <3>4. QED  BY <1>1, <1>12, <2>1, <2>2, <3>1, <3>2, <3>3 DEF RecordsHeld, InWriting
  <2>6. QED  BY <1>9, <1>10, <2>1, <2>3, <2>4, <2>5
<1>13. CASE /\ Error
            /\ counts' = [counts EXCEPT !.dropped = @ + 1, !.write_errors = @ + 1]
            /\ UNCHANGED stream \/ stream' = Append(stream, current)
            /\ UNCHANGED disk_limit_reached
  <2>1. /\ counts' \in [DOMAIN Zero -> Nat] /\ counts'.submitted = counts.submitted
        /\ counts'.written = counts.written /\ counts'.dropped = counts.dropped + 1
        /\ counts'.bytes = counts.bytes /\ counts'.write_errors = counts.write_errors + 1
    <3>1. counts' = [counts EXCEPT !.dropped = @ + 1, !.write_errors = @ + 1]
      BY <1>13
    <3>2. counts.dropped + 1 \in Nat /\ counts.write_errors + 1 \in Nat
      BY <1>4
    <3>3. QED  BY <1>4, <3>1, <3>2, CountNames
  <2>2. counts'.write_errors # 0
    BY <1>4, <2>1
  <2>3. file' \o stream' \in {lines, longer}
    BY <1>1, <1>13
  <2>4. TypeOK'
    <3>1. stream' \in Seq(Records) /\ disk_limit_reached' = disk_limit_reached
      <4>1. Append(stream, current) \in Seq(Records)
        BY <1>2, <1>3
      <4>2. QED  BY <1>3, <1>13, <4>1
    <3>2. QED  BY <1>1, <2>1, <3>1 DEF TypeOK
  <2>5. DiskLimit'
    <3>1. line <= Longest /\ Longest \in Nat
      BY <1>2, <1>7, LongestBounds
    <3>2. BytesOf(Encoded, lines) = sum /\ BytesOf(Encoded, longer) = sum + line
      BY <1>6, <1>7
    <3>3. BytesOf(Encoded, file' \o stream') \in {sum, sum + line}
      BY <2>3, <3>2
    <3>4. sum <= bytes + (room + Longest) /\ sum + line <= bytes + (room + Longest)
      BY <1>8, <3>1
    <3>5. counts'.bytes = bytes /\ counts'.write_errors * Longest = room + Longest
      BY <1>7, <2>1, RoomForError
    <3>6. QED  BY <1>8, <2>2, <3>3, <3>4, <3>5 DEF DiskLimit
  <2>6. RecordsHeld'
    BY <1>1, <2>1, <2>2 DEF RecordsHeld
  <2>7. QED  BY <1>9, <1>10, <2>1, <2>4, <2>5, <2>6
<1>14. QED  BY <1>11, <1>12, <1>13 DEF Write

LEMMA RecorderStarts == Init => CaptureInv
<1> SUFFICES ASSUME Init PROVE CaptureInv
  OBVIOUS
<1> USE DEF Init
<1>1. TypeOK
  <2>1. Zero \in [DOMAIN Zero -> Nat]
    BY DEF Zero
  <2>2. <<>> \in Seq(Records) /\ Len(<<>>) = 0 /\ max_records \in Nat
    BY RequestCaptureAssumption
  <2>3. queue \in Seq(Records) /\ Len(queue) <= max_records /\ {stream, file, accepted} \subseteq Seq(Records)
    BY <2>2
  <2>4. QED  BY <2>1, <2>3 DEF TypeOK
<1>2. /\ Zero.submitted = 0 /\ Zero.written = 0 /\ Zero.dropped = 0
      /\ Zero.write_errors = 0 /\ Zero.bytes = 0
  BY DEF Zero
<1>3. <<>> \o <<>> = <<>>
  OBVIOUS
<1>4. BytesOf(Size, <<>>) = 0 /\ BytesOf(Encoded, <<>>) = 0
  BY BytesOfFew, RequestCaptureAssumption
<1>5. QueuedBytesExact
  BY <1>3, <1>4, RequestCaptureAssumption DEF QueuedBytesExact, InHand
<1>6. DiskLimit
  <2>1. 0 * Longest = 0
    BY LongestBounds
  <2>2. QED  BY <1>2, <1>3, <1>4, <2>1, RequestCaptureAssumption DEF DiskLimit
<1>7. EveryRecordCounted
  <2>1. Cardinality(offered) = 0
    BY FS_EmptySet
  <2>2. QED  BY <1>2, <2>1 DEF EveryRecordCounted
<1>8. WriterHeld /\ RecordsHeld
  BY <1>2, <1>3 DEF WriterHeld, RecordsHeld, InWriting
<1>9. QED  BY <1>1, <1>5, <1>6, <1>7, <1>8 DEF CaptureInv

\* Records cross from the event loop through the queue and the stream into the file:
\* at every moment the reserved bytes are exact, every record is counted once and the
\* disk limit holds, and when the writer has ended nothing accepted is left behind.
THEOREM CaptureKeepsSafe == Spec => []CaptureSafe
<1>1. CaptureInv /\ [Next]_vars => CaptureInv'
  <2> SUFFICES ASSUME CaptureInv, [Next]_vars PROVE CaptureInv'
    OBVIOUS
  <2>1. CASE \E r \in Records : submit(r)
    BY <2>1, SubmitStep
  <2>2. CASE Test \/ Get \/ Release \/ close
    BY <2>2, QueueSteps
  <2>3. CASE Write
    BY <2>3, WriteStep
  <2>4. CASE PublishPeriodic \/ Flush \/ CloseStream \/ Report
    BY <2>4, StreamSteps
  <2>5. CASE UNCHANGED vars
    <3> USE <2>5 DEF vars, CaptureInv
    <3>1. TypeOK' /\ QueuedBytesExact' /\ EveryRecordCounted'
      BY DEF TypeOK, QueuedBytesExact, InHand, EveryRecordCounted
    <3>2. DiskLimit' /\ WriterHeld' /\ RecordsHeld'
      BY DEF DiskLimit, WriterHeld, RecordsHeld, InWriting
    <3>3. QED  BY <3>1, <3>2
  <2>6. QED  BY <2>1, <2>2, <2>3, <2>4, <2>5 DEF Next, Writer
<1>2. CaptureInv => CaptureSafe
  <2> SUFFICES ASSUME CaptureInv PROVE CaptureSafe
    OBVIOUS
  <2> USE DEF CaptureInv
  <2>1. ASSUME writer = "ended" PROVE ClosedMeansWritten
    <3>1. queue = <<>> /\ stream = <<>> /\ current = None /\ file \in Seq(Records) /\ InWriting = <<>>
      BY <2>1 DEF WriterHeld, TypeOK, InWriting
    <3>2. file \o <<>> = file
      BY <3>1, ConcatEmptySeq
    <3>3. counts.write_errors = 0 /\ ~disk_limit_reached => file = accepted
      BY <3>1, <3>2 DEF RecordsHeld
    <3>4. counts.write_errors = 0 => status.written = Len(file) /\ status.submitted = Len(accepted)
      BY <2>1, <3>1, <3>2 DEF RecordsHeld
    <3>5. QED  BY <3>1, <3>3, <3>4 DEF ClosedMeansWritten
  <2>2. QED  BY <2>1 DEF CaptureSafe, ClosedMeansWritten
<1>3. QED  BY <1>1, <1>2, RecorderStarts, PTL DEF Spec

-----------------------------------------------------------------------------
(* Capture session.                                                        *)

CaptureSessionSpec == CaptureInit /\ [][CaptureNext]_capturevars

Reasons == {"duration", "byte_limit", "record_limit", "interrupted", "capture_read_error"}
Sessions == [seen_keys : SUBSET VaultKeys, lines : Seq(Originals), frequencies : [Originals -> Nat],
             stats : [Counters -> Nat], stop_reason : Reasons]

\* Every key of the session s is counted once.
KeysCounted(s) ==
  /\ s.stats.source_records_seen = Cardinality(s.seen_keys)
  /\ \E rest \in {0, 1} :
       /\ s.stats.source_records_seen =
            s.stats.expired_before_read + s.stats.unrecoverable_records
              + s.stats.duplicate_originals + s.stats.unique_originals + rest
       /\ s.stop_reason \in {"duration", "record_limit"} => rest = 0
       /\ s.stop_reason = "byte_limit" => rest = 1

\* Every text of the session s is in the file once, within the limit on bytes.
TextsWritten(s) ==
  /\ IsInjective(s.lines)
  /\ \A o \in Originals : s.frequencies[o] > 0 <=> o \in Range(s.lines)
  /\ Total(s.frequencies, s.lines) = s.stats.unique_originals + s.stats.duplicate_originals
  /\ s.stats.jsonl_bytes = Total(LineSize, s.lines)
  /\ s.stats.jsonl_bytes <= max_bytes

\* A session with its books in order.
InOrder(s) == s \in Sessions /\ KeysCounted(s) /\ TextsWritten(s)

SessionInv ==
  /\ InOrder(session)
  /\ Cardinality(session.seen_keys) <= max_session_records
  /\ db \in [VaultKeys -> Originals \cup {Broken, Absent}]
  /\ keys \in Seq(VaultKeys) /\ IsInjective(keys)
  /\ ManifestIsFinal

LEMMA TotalIs == \A f, s : Total(f, s) = BytesOf(f, s)
BY DEF Total, BytesOf

\* What is added up counts only where it is looked up.
LEMMA TotalStays ==
  ASSUME NEW f \in [Originals -> Nat], NEW g \in [Originals -> Nat], NEW s \in Seq(Originals),
         \A i \in 1..Len(s) : g[s[i]] = f[s[i]]
  PROVE  Total(g, s) = Total(f, s) /\ Total(f, s) \in Nat
<1> DEFINE d == [i \in 1..Len(s) |-> f[s[i]]]
<1>1. PICK h \in [0..Len(s) -> Nat] : Adds(h, d, Len(s)) /\ BytesOf(f, s) = h[Len(s)]
  BY BytesTyped
<1>2. [i \in 1..Len(s) |-> g[s[i]]] = d
  OBVIOUS
<1>3. BytesOf(g, s) = h[Len(s)]
  <2>1. Adds(h, [i \in 1..Len(s) |-> g[s[i]]], Len(s))
    BY <1>1, <1>2
  <2> HIDE DEF d
  <2>2. QED  BY <2>1, BytesAre
<1>4. Len(s) \in 0..Len(s)
  OBVIOUS
<1>5. QED  BY <1>1, <1>3, <1>4, TotalIs

\* One more for the text in the place j.
LEMMA TotalRaised ==
  ASSUME NEW f \in [Originals -> Nat], NEW g \in [Originals -> Nat], NEW s \in Seq(Originals), NEW j \in 1..Len(s),
         g[s[j]] = f[s[j]] + 1, \A i \in 1..Len(s) : i # j => g[s[i]] = f[s[i]]
  PROVE  Total(g, s) = Total(f, s) + 1 /\ Total(f, s) \in Nat
<1> DEFINE d == [i \in 1..Len(s) |-> f[s[i]]]
           e == [i \in 1..Len(s) |-> g[s[i]]]
<1>1. PICK h \in [0..Len(s) -> Nat] : Adds(h, d, Len(s)) /\ BytesOf(f, s) = h[Len(s)]
  BY BytesTyped
<1> DEFINE k == [i \in 0..Len(s) |-> IF i < j THEN h[i] ELSE h[i] + 1]
<1>2. Len(s) \in Nat /\ \A i \in 0..Len(s) : k[i] = IF i < j THEN h[i] ELSE h[i] + 1
  OBVIOUS
<1>3. \A i \in 1..Len(s) : d[i] \in Nat /\ e[i] = IF i = j THEN d[i] + 1 ELSE d[i]
  OBVIOUS
<1> HIDE DEF k
<1>4. Adds(k, e, Len(s))
  <2>1. h[0] = 0 /\ k[0] = 0
    BY <1>1, <1>2 DEF Adds
  <2>2. ASSUME NEW i \in 1..Len(s) PROVE k[i] = k[i - 1] + e[i]
    <3>1. i \in 0..Len(s) /\ i - 1 \in 0..Len(s)
      BY <1>2
    <3>2. h[i] = h[i - 1] + d[i]
      BY <1>1 DEF Adds
    <3> HIDE DEF d, e
    <3>3. PICK a \in Nat, b \in Nat, c \in Nat : a = h[i] /\ b = h[i - 1] /\ c = d[i] /\ a = b + c
      <4>1. h[i] \in Nat /\ h[i - 1] \in Nat
        BY <3>1
      <4>2. d[i] \in Nat
        BY <1>3
      <4>3. QED  BY <3>2, <4>1, <4>2, Zenon
    <3>4. /\ k[i] = IF i < j THEN a ELSE a + 1
          /\ k[i - 1] = IF i - 1 < j THEN b ELSE b + 1
          /\ e[i] = IF i = j THEN c + 1 ELSE c
      BY <1>2, <1>3, <3>1, <3>3
    <3>5. CASE i < j
      <4>1. i - 1 < j /\ i # j
        BY <1>2, <3>5
      <4>2. QED  BY <3>3, <3>4, <3>5, <4>1
    <3>6. CASE i = j
      <4>1. i - 1 < j /\ ~(i < j)
        BY <1>2, <3>6
      <4>2. k[i] = (b + c) + 1 /\ k[i - 1] = b /\ e[i] = c + 1
        BY <3>3, <3>4, <3>6, <4>1
      <4>3. (b + c) + 1 = b + (c + 1)
        OBVIOUS
      <4>4. QED  BY <4>2, <4>3, Zenon
    <3>7. CASE i > j
      <4>1. ~(i - 1 < j) /\ ~(i < j) /\ i # j
        BY <1>2, <3>7
      <4>2. k[i] = (b + c) + 1 /\ k[i - 1] = b + 1 /\ e[i] = c
        BY <3>3, <3>4, <4>1
      <4>3. (b + c) + 1 = (b + 1) + c
        OBVIOUS
      <4>4. QED  BY <4>2, <4>3, Zenon
    <3>8. QED  BY <1>2, <3>5, <3>6, <3>7
  <2>3. QED  BY <2>1, <2>2 DEF Adds
<1>5. BytesOf(g, s) = k[Len(s)]
  BY <1>4, BytesAre, ZenonT(60)
<1>6. k[Len(s)] = h[Len(s)] + 1 /\ h[Len(s)] \in Nat
  <2>1. Len(s) \in 0..Len(s) /\ ~(Len(s) < j)
    BY <1>2
  <2>2. QED  BY <1>2, <2>1
<1> HIDE DEF d, e
<1>7. QED  BY <1>1, <1>5, <1>6, TotalIs

\* One more line.
LEMMA TotalAppended ==
  ASSUME NEW f \in [Originals -> Nat], NEW s \in Seq(Originals), NEW o \in Originals
  PROVE  Total(f, Append(s, o)) = Total(f, s) + f[o] /\ Total(f, s) \in Nat
<1>1. Append(s, o) = s \o <<o>> /\ <<o>> \in Seq(Originals)
  OBVIOUS
<1>2. BytesOf(f, s \o <<o>>) = BytesOf(f, s) + BytesOf(f, <<o>>) /\ BytesOf(f, s) \in Nat
  BY <1>1, BytesJoined
<1>3. BytesOf(f, <<o>>) = f[o]
  BY BytesOfFew
<1>4. QED  BY <1>1, <1>2, <1>3, TotalIs

\* A session with another value of one attribute.
LEMMA Rewritten ==
  ASSUME NEW s \in Sessions
  PROVE  /\ \A x : [s EXCEPT !.stats = x] =
                     [seen_keys |-> s.seen_keys, lines |-> s.lines, frequencies |-> s.frequencies,
                      stats |-> x, stop_reason |-> s.stop_reason]
         /\ \A x : [s EXCEPT !.seen_keys = x] =
                     [seen_keys |-> x, lines |-> s.lines, frequencies |-> s.frequencies,
                      stats |-> s.stats, stop_reason |-> s.stop_reason]
         /\ \A x : [s EXCEPT !.frequencies = x] =
                     [seen_keys |-> s.seen_keys, lines |-> s.lines, frequencies |-> x,
                      stats |-> s.stats, stop_reason |-> s.stop_reason]
         /\ \A x : [s EXCEPT !.lines = x] =
                     [seen_keys |-> s.seen_keys, lines |-> x, frequencies |-> s.frequencies,
                      stats |-> s.stats, stop_reason |-> s.stop_reason]
         /\ \A x : [s EXCEPT !.stop_reason = x] =
                     [seen_keys |-> s.seen_keys, lines |-> s.lines, frequencies |-> s.frequencies,
                      stats |-> s.stats, stop_reason |-> x]
         /\ s.seen_keys \in SUBSET VaultKeys /\ s.lines \in Seq(Originals)
              /\ s.frequencies \in [Originals -> Nat]
         /\ s.stats \in [Counters -> Nat] /\ s.stop_reason \in Reasons
<1>1. \A x : [s EXCEPT !.stats = x] =
            [seen_keys |-> s.seen_keys, lines |-> s.lines, frequencies |-> s.frequencies, stats |-> x,
             stop_reason |-> s.stop_reason]
  BY DEF Sessions
<1>2. \A x : [s EXCEPT !.seen_keys = x] =
            [seen_keys |-> x, lines |-> s.lines, frequencies |-> s.frequencies, stats |-> s.stats,
             stop_reason |-> s.stop_reason]
  <2> TAKE x
  <2>1. PICK y : y = [s EXCEPT !.seen_keys = x]
    OBVIOUS
  <2>2. DOMAIN y = {"seen_keys", "lines", "frequencies", "stats", "stop_reason"} /\ y.seen_keys = x
    BY <2>1 DEF Sessions
  <2>3. y = [f \in DOMAIN y |-> y[f]]
    BY <2>1 DEF Sessions
  <2>4. y.lines = s.lines /\ y.frequencies = s.frequencies /\ y.stats = s.stats /\ y.stop_reason = s.stop_reason
    BY <2>1 DEF Sessions
  <2>5. QED  BY <2>1, <2>2, <2>3, <2>4
<1>3. \A x : [s EXCEPT !.frequencies = x] =
            [seen_keys |-> s.seen_keys, lines |-> s.lines, frequencies |-> x, stats |-> s.stats,
             stop_reason |-> s.stop_reason]
  BY DEF Sessions
<1>4. \A x : [s EXCEPT !.lines = x] =
            [seen_keys |-> s.seen_keys, lines |-> x, frequencies |-> s.frequencies, stats |-> s.stats,
             stop_reason |-> s.stop_reason]
  BY DEF Sessions
<1>5. \A x : [s EXCEPT !.stop_reason = x] =
            [seen_keys |-> s.seen_keys, lines |-> s.lines, frequencies |-> s.frequencies,
             stats |-> s.stats, stop_reason |-> x]
  <2> TAKE x
  <2>1. PICK y : y = [s EXCEPT !.stop_reason = x]
    OBVIOUS
  <2>2. DOMAIN y = {"seen_keys", "lines", "frequencies", "stats", "stop_reason"} /\ y.stop_reason = x
    BY <2>1 DEF Sessions
  <2>3. y = [f \in DOMAIN y |-> y[f]]
    BY <2>1 DEF Sessions
  <2>4. y.seen_keys = s.seen_keys /\ y.lines = s.lines /\ y.frequencies = s.frequencies /\ y.stats = s.stats
    BY <2>1 DEF Sessions
  <2>5. QED  BY <2>1, <2>2, <2>3, <2>4
<1>6. /\ s.seen_keys \in SUBSET VaultKeys /\ s.lines \in Seq(Originals) /\ s.frequencies \in [Originals -> Nat]
      /\ s.stats \in [Counters -> Nat] /\ s.stop_reason \in Reasons
  BY DEF Sessions
<1>7. QED  BY <1>1, <1>2, <1>3, <1>4, <1>5, <1>6

WithFrequencies(s, f) == [s EXCEPT !.frequencies = f]
WithLines(s, l) == [s EXCEPT !.lines = l]
WithReason(s, r) == [s EXCEPT !.stop_reason = r]

LEMMA FrequenciesReplaced ==
  ASSUME NEW s \in Sessions, NEW f \in [Originals -> Nat]
  PROVE  /\ WithFrequencies(s, f) \in Sessions
         /\ WithFrequencies(s, f).seen_keys = s.seen_keys /\ WithFrequencies(s, f).lines = s.lines
         /\ WithFrequencies(s, f).frequencies = f /\ WithFrequencies(s, f).stats = s.stats
         /\ WithFrequencies(s, f).stop_reason = s.stop_reason
<1>1. WithFrequencies(s, f) = [seen_keys |-> s.seen_keys, lines |-> s.lines, frequencies |-> f,
                               stats |-> s.stats, stop_reason |-> s.stop_reason]
  BY Rewritten DEF WithFrequencies
<1>2. WithFrequencies(s, f) \in Sessions
  BY <1>1, Rewritten DEF Sessions
<1>3. QED  BY <1>1, <1>2

LEMMA LinesReplaced ==
  ASSUME NEW s \in Sessions, NEW l \in Seq(Originals)
  PROVE  /\ WithLines(s, l) \in Sessions
         /\ WithLines(s, l).seen_keys = s.seen_keys /\ WithLines(s, l).lines = l
         /\ WithLines(s, l).frequencies = s.frequencies /\ WithLines(s, l).stats = s.stats
         /\ WithLines(s, l).stop_reason = s.stop_reason
<1>1. WithLines(s, l) = [seen_keys |-> s.seen_keys, lines |-> l, frequencies |-> s.frequencies,
                         stats |-> s.stats, stop_reason |-> s.stop_reason]
  BY Rewritten DEF WithLines
<1>2. WithLines(s, l) \in Sessions
  BY <1>1, Rewritten DEF Sessions
<1>3. QED  BY <1>1, <1>2

LEMMA ReasonReplaced ==
  ASSUME NEW s \in Sessions, NEW r \in Reasons
  PROVE  /\ WithReason(s, r) \in Sessions
         /\ WithReason(s, r).seen_keys = s.seen_keys /\ WithReason(s, r).lines = s.lines
         /\ WithReason(s, r).frequencies = s.frequencies /\ WithReason(s, r).stats = s.stats
         /\ WithReason(s, r).stop_reason = r
<1>1. WithReason(s, r) = [seen_keys |-> s.seen_keys, lines |-> s.lines, frequencies |-> s.frequencies,
                          stats |-> s.stats, stop_reason |-> r]
  BY Rewritten DEF WithReason
<1>2. WithReason(s, r) \in Sessions
  BY <1>1, Rewritten DEF Sessions
<1>3. QED  BY <1>1, <1>2

LEMMA AddIs ==
  ASSUME NEW s \in Sessions, NEW c \in Counters, NEW n \in Nat
  PROVE  /\ Add(s, c, n) \in Sessions
         /\ Add(s, c, n).seen_keys = s.seen_keys /\ Add(s, c, n).lines = s.lines
         /\ Add(s, c, n).frequencies = s.frequencies /\ Add(s, c, n).stop_reason = s.stop_reason
         /\ \A d \in Counters : Add(s, c, n).stats[d] = IF d = c THEN s.stats[d] + n ELSE s.stats[d]
<1>1. PICK m \in [Counters -> Nat] : m = s.stats
  BY Rewritten
<1>2. PICK x \in [Counters -> Nat] : x = [m EXCEPT ![c] = @ + n]
  <2>1. [m EXCEPT ![c] = @ + n] \in [Counters -> Nat]
    OBVIOUS
  <2>2. QED  BY <2>1
<1>3. Add(s, c, n) = [s EXCEPT !.stats = x]
  BY <1>1, <1>2 DEF Add
<1>4. Add(s, c, n) = [seen_keys |-> s.seen_keys, lines |-> s.lines, frequencies |-> s.frequencies,
                      stats |-> x, stop_reason |-> s.stop_reason]
  BY <1>3, Rewritten
<1>5. Add(s, c, n) \in Sessions
  BY <1>4, Rewritten DEF Sessions
<1>6. \A d \in Counters : x[d] = IF d = c THEN m[d] + n ELSE m[d]
  BY <1>2
<1>7. QED  BY <1>1, <1>4, <1>5, <1>6

LEMMA SeenIs ==
  ASSUME NEW s \in Sessions, NEW k \in VaultKeys, k \notin s.seen_keys
  PROVE  /\ Seen(s, k) \in Sessions
         /\ Seen(s, k).seen_keys = s.seen_keys \cup {k} /\ Seen(s, k).lines = s.lines
         /\ Cardinality(Seen(s, k).seen_keys) = Cardinality(s.seen_keys) + 1 /\ Cardinality(s.seen_keys) \in Nat
         /\ Seen(s, k).frequencies = s.frequencies /\ Seen(s, k).stop_reason = s.stop_reason
         /\ \A d \in Counters : Seen(s, k).stats[d] = IF d = "source_records_seen" THEN s.stats[d] + 1 ELSE s.stats[d]
<1>1. "source_records_seen" \in Counters
  BY DEF Counters
<1>2. PICK m \in [Counters -> Nat] : m = s.stats
  BY Rewritten
<1>3. PICK x \in [Counters -> Nat] : x = [m EXCEPT !["source_records_seen"] = @ + 1]
  <2>1. [m EXCEPT !["source_records_seen"] = @ + 1] \in [Counters -> Nat]
    BY <1>1
  <2>2. QED  BY <2>1
<1>4. Seen(s, k) = [[s EXCEPT !.seen_keys = @ \cup {k}] EXCEPT !.stats = x]
  BY <1>2, <1>3 DEF Seen
<1>5. Seen(s, k) = [seen_keys |-> s.seen_keys \cup {k}, lines |-> s.lines, frequencies |-> s.frequencies,
                    stats |-> x, stop_reason |-> s.stop_reason]
  <2>1. PICK u : u = [s EXCEPT !.seen_keys = @ \cup {k}]
    OBVIOUS
  <2>2. u = [seen_keys |-> s.seen_keys \cup {k}, lines |-> s.lines, frequencies |-> s.frequencies,
             stats |-> s.stats, stop_reason |-> s.stop_reason]
    BY <2>1, Rewritten
  <2>3. u \in Sessions
    BY <2>2, Rewritten DEF Sessions
  <2>4. Seen(s, k) = [u EXCEPT !.stats = x]
    BY <1>4, <2>1
  <2>5. QED  BY <2>2, <2>3, <2>4, Rewritten
<1>6. Seen(s, k) \in Sessions
  BY <1>5, Rewritten DEF Sessions
<1>7. \A d \in Counters : x[d] = IF d = "source_records_seen" THEN m[d] + 1 ELSE m[d]
  BY <1>1, <1>3
<1>8. IsFiniteSet(s.seen_keys)
  BY CaptureSessionAssumption, FS_Subset, Rewritten
<1>9. Cardinality(s.seen_keys \cup {k}) = Cardinality(s.seen_keys) + 1 /\ Cardinality(s.seen_keys) \in Nat
  BY <1>8, FS_AddElement, FS_CardinalityType
<1>10. QED  BY <1>2, <1>5, <1>6, <1>7, <1>9

LEMMA StatsAre ==
  ASSUME NEW s \in Sessions
  PROVE  /\ s.stats.source_records_seen \in Nat /\ s.stats.expired_before_read \in Nat
         /\ s.stats.unrecoverable_records \in Nat /\ s.stats.duplicate_originals \in Nat
         /\ s.stats.unique_originals \in Nat /\ s.stats.jsonl_bytes \in Nat
<1>1. PICK m \in [Counters -> Nat] : m = s.stats
  BY Rewritten
<1>2. \A c \in Counters : m[c] \in Nat
  OBVIOUS
<1>3. /\ m.source_records_seen \in Nat /\ m.expired_before_read \in Nat /\ m.unrecoverable_records \in Nat
      /\ m.duplicate_originals \in Nat /\ m.unique_originals \in Nat /\ m.jsonl_bytes \in Nat
  BY <1>2 DEF Counters
<1>4. QED  BY <1>1, <1>3

\* A record that was read is counted under one of four names.
LEMMA KeyCounted ==
  ASSUME NEW s \in Sessions, KeysCounted(s), s.stop_reason = "duration", NEW k \in VaultKeys, k \notin s.seen_keys,
         NEW c \in {"expired_before_read", "unrecoverable_records", "duplicate_originals", "unique_originals"},
         NEW u \in Sessions, u.seen_keys = s.seen_keys \cup {k}, u.stop_reason = "duration",
         \A d \in Counters \ {"jsonl_bytes"} :
           u.stats[d] = IF d \in {c, "source_records_seen"} THEN s.stats[d] + 1 ELSE s.stats[d]
  PROVE  KeysCounted(u)
<1>1. Cardinality(u.seen_keys) = Cardinality(s.seen_keys) + 1 /\ Cardinality(s.seen_keys) \in Nat
  <2>1. Seen(s, k).seen_keys = u.seen_keys
    BY SeenIs
  <2>2. QED  BY <2>1, SeenIs, ZenonT(60)
<1>2. /\ s.stats.source_records_seen = Cardinality(s.seen_keys)
      /\ s.stats.source_records_seen =
            s.stats.expired_before_read + s.stats.unrecoverable_records
              + s.stats.duplicate_originals + s.stats.unique_originals + 0
  BY DEF KeysCounted
<1>3. PICK n \in Nat, a \in Nat, b \in Nat, d \in Nat, e \in Nat :
        /\ n = s.stats.source_records_seen /\ a = s.stats.expired_before_read
             /\ b = s.stats.unrecoverable_records
        /\ d = s.stats.duplicate_originals /\ e = s.stats.unique_originals
  BY StatsAre
<1>4. /\ u.stats.source_records_seen = n + 1
      /\ u.stats.expired_before_read = IF c = "expired_before_read" THEN a + 1 ELSE a
      /\ u.stats.unrecoverable_records = IF c = "unrecoverable_records" THEN b + 1 ELSE b
      /\ u.stats.duplicate_originals = IF c = "duplicate_originals" THEN d + 1 ELSE d
      /\ u.stats.unique_originals = IF c = "unique_originals" THEN e + 1 ELSE e
  BY <1>3 DEF Counters
<1>5. n = a + b + d + e + 0
  BY <1>2, <1>3
<1>6. u.stats.source_records_seen =
         u.stats.expired_before_read + u.stats.unrecoverable_records
           + u.stats.duplicate_originals + u.stats.unique_originals + 0
  BY <1>4, <1>5
<1>7. u.stats.source_records_seen = Cardinality(u.seen_keys)
  BY <1>1, <1>2, <1>3, <1>4
<1>8. 0 \in {0, 1} /\ u.stop_reason # "byte_limit"
  OBVIOUS
<1>9. QED  BY <1>6, <1>7, <1>8 DEF KeysCounted

LEMMA TextsKept ==
  ASSUME NEW s, NEW u, TextsWritten(s), u.lines = s.lines, u.frequencies = s.frequencies,
         \A d \in {"unique_originals", "duplicate_originals", "jsonl_bytes"} : u.stats[d] = s.stats[d]
  PROVE  TextsWritten(u)
<1>1. /\ u.stats.unique_originals = s.stats.unique_originals
      /\ u.stats.duplicate_originals = s.stats.duplicate_originals
      /\ u.stats.jsonl_bytes = s.stats.jsonl_bytes
  OBVIOUS
<1>2. QED  BY <1>1 DEF TextsWritten

DuplicateOf(s, k, o) == [Add(Seen(s, k), "duplicate_originals", 1) EXCEPT !.frequencies[o] = @ + 1]
NewText(s, k, o) == [Add(Add(Seen(s, k), "unique_originals", 1), "jsonl_bytes", LineSize[o])
                     EXCEPT !.lines = Append(@, o), !.frequencies[o] = 1]

\* A text that is in the file already.
LEMMA DuplicateSaved ==
  ASSUME NEW s \in Sessions, KeysCounted(s), TextsWritten(s), s.stop_reason = "duration",
         NEW k \in VaultKeys, k \notin s.seen_keys, NEW o \in Originals, Known(s, o),
         NEW u, u = DuplicateOf(s, k, o)
  PROVE  u \in Sessions /\ KeysCounted(u) /\ TextsWritten(u) /\ u.seen_keys = s.seen_keys \cup {k}
<1>1. "duplicate_originals" \in Counters
  BY DEF Counters
<1>2. PICK t \in Sessions : t = Add(Seen(s, k), "duplicate_originals", 1)
  BY <1>1, SeenIs, AddIs
<1>3. /\ t.seen_keys = s.seen_keys \cup {k} /\ t.lines = s.lines /\ t.frequencies = s.frequencies
      /\ t.stop_reason = s.stop_reason
      /\ \A d \in Counters : t.stats[d] = IF d \in {"duplicate_originals", "source_records_seen"}
                                          THEN s.stats[d] + 1 ELSE s.stats[d]
  <2>1. PICK v \in Sessions : v = Seen(s, k)
    BY SeenIs
  <2>2. /\ v.seen_keys = s.seen_keys \cup {k} /\ v.lines = s.lines /\ v.frequencies = s.frequencies
        /\ v.stop_reason = s.stop_reason
        /\ \A d \in Counters : v.stats[d] = IF d = "source_records_seen" THEN s.stats[d] + 1 ELSE s.stats[d]
    BY <2>1, SeenIs
  <2>3. /\ t.seen_keys = v.seen_keys /\ t.lines = v.lines /\ t.frequencies = v.frequencies
        /\ t.stop_reason = v.stop_reason
        /\ \A d \in Counters : t.stats[d] = IF d = "duplicate_originals" THEN v.stats[d] + 1 ELSE v.stats[d]
    BY <1>1, <1>2, <2>1, AddIs
  <2>4. QED  BY <2>2, <2>3
<1>4. PICK f \in [Originals -> Nat] : f = s.frequencies
  BY Rewritten
<1>5. PICK g \in [Originals -> Nat] : g = [f EXCEPT ![o] = @ + 1]
  <2>1. [f EXCEPT ![o] = @ + 1] \in [Originals -> Nat]
    OBVIOUS
  <2>2. QED  BY <2>1
<1>6. u = WithFrequencies(t, g)
  BY <1>2, <1>3, <1>4, <1>5 DEF WithFrequencies, DuplicateOf
<1>7. /\ u.seen_keys = s.seen_keys \cup {k} /\ u.lines = s.lines /\ u.frequencies = g
      /\ u.stats = t.stats /\ u.stop_reason = s.stop_reason /\ u \in Sessions
  BY <1>3, <1>6, FrequenciesReplaced
<1>8. KeysCounted(u)
  <2>1. "duplicate_originals" \in {"expired_before_read", "unrecoverable_records",
                                   "duplicate_originals", "unique_originals"}
    OBVIOUS
  <2>2. \A d \in Counters \ {"jsonl_bytes"} :
           u.stats[d] = IF d \in {"duplicate_originals", "source_records_seen"} THEN s.stats[d] + 1 ELSE s.stats[d]
    BY <1>3, <1>7
  <2>3. u \in Sessions /\ u.seen_keys = s.seen_keys \cup {k} /\ u.stop_reason = "duration"
    BY <1>7
  <2>4. QED  BY <2>1, <2>2, <2>3, KeyCounted
<1>9. PICK l \in Seq(Originals) : l = s.lines
  BY Rewritten
<1>10. PICK j \in 1..Len(l) : l[j] = o
  <2>1. o \in Range(l)
    BY <1>9 DEF Known
  <2>2. DOMAIN l = 1..Len(l)
    OBVIOUS
  <2>3. QED  BY <2>1, <2>2 DEF Range
<1>11. /\ \A i, h \in 1..Len(l) : l[i] = l[h] => i = h
       /\ \A p \in Originals : g[p] = IF p = o THEN f[p] + 1 ELSE f[p]
  BY <1>5, <1>9 DEF TextsWritten, IsInjective
<1>12. Total(g, l) = Total(f, l) + 1 /\ Total(f, l) \in Nat
  <2>1. g[l[j]] = f[l[j]] + 1 /\ \A i \in 1..Len(l) : i # j => g[l[i]] = f[l[i]]
    BY <1>10, <1>11, SMTT(30)
  <2>2. QED  BY <2>1, TotalRaised
<1>13. PICK a \in Nat, b \in Nat :
         /\ a = s.stats.unique_originals /\ b = s.stats.duplicate_originals
         /\ u.stats.unique_originals = a /\ u.stats.duplicate_originals = b + 1
         /\ u.stats.jsonl_bytes = s.stats.jsonl_bytes
  <2>1. {"unique_originals", "duplicate_originals", "jsonl_bytes"} \subseteq Counters
    BY DEF Counters
  <2>2. /\ u.stats["unique_originals"] = s.stats["unique_originals"]
        /\ u.stats["duplicate_originals"] = s.stats["duplicate_originals"] + 1
        /\ u.stats["jsonl_bytes"] = s.stats["jsonl_bytes"]
    BY <1>3, <1>7, <2>1
  <2>3. QED  BY <2>2, StatsAre
<1>14. Total(u.frequencies, u.lines) = u.stats.unique_originals + u.stats.duplicate_originals
  <2>1. Total(f, l) = a + b
    BY <1>4, <1>9, <1>13 DEF TextsWritten
  <2>2. Total(g, l) = a + (b + 1)
    BY <1>12, <2>1
  <2>3. QED  BY <1>7, <1>9, <1>13, <2>2
<1>15. \A p \in Originals : u.frequencies[p] > 0 <=> p \in Range(u.lines)
  <2>1. \A p \in Originals : f[p] > 0 <=> p \in Range(l)
    BY <1>4, <1>9 DEF TextsWritten
  <2>2. o \in Range(l)
    BY <1>9 DEF Known
  <2>3. ASSUME NEW q \in Originals PROVE g[q] > 0 <=> q \in Range(l)
    <3>1. CASE q = o
      <4>1. f[o] \in Nat /\ g[o] = f[o] + 1
        BY <1>11
      <4>2. QED  BY <2>2, <3>1, <4>1
    <3>2. CASE q # o
      BY <1>11, <2>1, <3>2
    <3>3. QED  BY <3>1, <3>2
  <2>4. QED  BY <1>7, <1>9, <2>3
<1>16. TextsWritten(u)
  BY <1>7, <1>13, <1>14, <1>15 DEF TextsWritten
<1>17. QED  BY <1>7, <1>8, <1>16

\* A text that is new and fits.
LEMMA TextSaved ==
  ASSUME NEW s \in Sessions, KeysCounted(s), TextsWritten(s), s.stop_reason = "duration",
         NEW k \in VaultKeys, k \notin s.seen_keys, NEW o \in Originals, ~Known(s, o), Fits(s, o),
         NEW u, u = NewText(s, k, o)
  PROVE  u \in Sessions /\ KeysCounted(u) /\ TextsWritten(u) /\ u.seen_keys = s.seen_keys \cup {k}
<1>1. "unique_originals" \in Counters /\ "jsonl_bytes" \in Counters /\ LineSize \in [Originals -> Nat]
  BY CaptureSessionAssumption DEF Counters
<1>2. PICK v \in Sessions : v = Seen(s, k)
  BY SeenIs
<1>3. PICK w \in Sessions : w = Add(v, "unique_originals", 1)
  BY <1>1, AddIs
<1>4. PICK t \in Sessions : t = Add(w, "jsonl_bytes", LineSize[o])
  BY <1>1, AddIs
<1>5. /\ t.seen_keys = s.seen_keys \cup {k} /\ t.lines = s.lines /\ t.frequencies = s.frequencies
      /\ t.stop_reason = s.stop_reason
      /\ \A d \in Counters \ {"jsonl_bytes"} :
           t.stats[d] = IF d \in {"unique_originals", "source_records_seen"} THEN s.stats[d] + 1 ELSE s.stats[d]
      /\ t.stats.jsonl_bytes = s.stats.jsonl_bytes + LineSize[o]
  <2>1. /\ v.seen_keys = s.seen_keys \cup {k} /\ v.lines = s.lines /\ v.frequencies = s.frequencies
        /\ v.stop_reason = s.stop_reason
        /\ \A d \in Counters : v.stats[d] = IF d = "source_records_seen" THEN s.stats[d] + 1 ELSE s.stats[d]
    BY <1>2, SeenIs
  <2>2. /\ w.seen_keys = v.seen_keys /\ w.lines = v.lines /\ w.frequencies = v.frequencies
        /\ w.stop_reason = v.stop_reason
        /\ \A d \in Counters : w.stats[d] = IF d = "unique_originals" THEN v.stats[d] + 1 ELSE v.stats[d]
    <3>1. PICK n \in Nat, c \in Counters : n = 1 /\ c = "unique_originals"
      BY <1>1
    <3>2. w = Add(v, c, n)
      BY <1>3, <3>1
    <3>3. /\ w.seen_keys = v.seen_keys /\ w.lines = v.lines /\ w.frequencies = v.frequencies
          /\ w.stop_reason = v.stop_reason
          /\ \A d \in Counters : w.stats[d] = IF d = c THEN v.stats[d] + n ELSE v.stats[d]
      BY <3>2, AddIs
    <3>4. QED  BY <3>1, <3>3
  <2>3. /\ t.seen_keys = w.seen_keys /\ t.lines = w.lines /\ t.frequencies = w.frequencies
        /\ t.stop_reason = w.stop_reason
        /\ \A d \in Counters : t.stats[d] = IF d = "jsonl_bytes" THEN w.stats[d] + LineSize[o] ELSE w.stats[d]
    <3>1. PICK n \in Nat, c \in Counters : n = LineSize[o] /\ c = "jsonl_bytes"
      BY <1>1
    <3>2. t = Add(w, c, n)
      BY <1>4, <3>1
    <3>3. /\ t.seen_keys = w.seen_keys /\ t.lines = w.lines /\ t.frequencies = w.frequencies
          /\ t.stop_reason = w.stop_reason
          /\ \A d \in Counters : t.stats[d] = IF d = c THEN w.stats[d] + n ELSE w.stats[d]
      BY <3>2, AddIs
    <3>4. QED  BY <3>1, <3>3
  <2>4. \A d \in Counters \ {"jsonl_bytes"} :
           t.stats[d] = IF d \in {"unique_originals", "source_records_seen"} THEN s.stats[d] + 1 ELSE s.stats[d]
    BY <2>1, <2>2, <2>3
  <2>5. t.stats["jsonl_bytes"] = s.stats["jsonl_bytes"] + LineSize[o]
    BY <1>1, <2>1, <2>2, <2>3
  <2>6. QED  BY <2>1, <2>2, <2>3, <2>4, <2>5
<1>6. PICK f \in [Originals -> Nat], l \in Seq(Originals) : f = s.frequencies /\ l = s.lines
  BY Rewritten
<1>7. PICK g \in [Originals -> Nat], m \in Seq(Originals) : g = [f EXCEPT ![o] = 1] /\ m = Append(l, o)
  <2>1. [f EXCEPT ![o] = 1] \in [Originals -> Nat] /\ Append(l, o) \in Seq(Originals)
    OBVIOUS
  <2>2. QED  BY <2>1
<1>8. u = WithFrequencies(WithLines(t, m), g)
  BY <1>2, <1>3, <1>4, <1>5, <1>6, <1>7 DEF WithFrequencies, WithLines, NewText
<1>9. /\ u.seen_keys = s.seen_keys \cup {k} /\ u.lines = m /\ u.frequencies = g
      /\ u.stats = t.stats /\ u.stop_reason = s.stop_reason /\ u \in Sessions
  <2>1. PICK x \in Sessions : x = WithLines(t, m)
    BY LinesReplaced
  <2>2. /\ x.seen_keys = t.seen_keys /\ x.lines = m /\ x.stats = t.stats /\ x.stop_reason = t.stop_reason
    BY <2>1, LinesReplaced
  <2>3. u = WithFrequencies(x, g)
    BY <1>8, <2>1
  <2>4. QED  BY <1>5, <2>2, <2>3, FrequenciesReplaced
<1>10. KeysCounted(u)
  <2>1. "unique_originals" \in {"expired_before_read", "unrecoverable_records", "duplicate_originals",
                                "unique_originals"}
    OBVIOUS
  <2>2. \A d \in Counters \ {"jsonl_bytes"} :
           u.stats[d] = IF d \in {"unique_originals", "source_records_seen"} THEN s.stats[d] + 1 ELSE s.stats[d]
    BY <1>5, <1>9
  <2>3. u \in Sessions /\ u.seen_keys = s.seen_keys \cup {k} /\ u.stop_reason = "duration"
    BY <1>9
  <2>4. QED  BY <2>1, <2>2, <2>3, KeyCounted, ZenonT(60)
<1>11. /\ Len(l) \in Nat /\ Len(m) = Len(l) + 1 /\ m[Len(m)] = o /\ \A i \in 1..Len(l) : m[i] = l[i] /\ l[i] # o
       /\ \A i, j \in 1..Len(l) : l[i] = l[j] => i = j
       /\ DOMAIN m = 1..Len(m) /\ DOMAIN l = 1..Len(l)
  BY <1>6, <1>7 DEF Known, Range, TextsWritten, IsInjective
<1>12. IsInjective(m) /\ Range(m) = Range(l) \cup {o}
  <2>1. IsInjective(m)
    <3>1. ASSUME NEW i \in 1..Len(m), NEW j \in 1..Len(m), m[i] = m[j] PROVE i = j
      <4>1. (i \in 1..Len(l) \/ i = Len(m)) /\ (j \in 1..Len(l) \/ j = Len(m))
        BY <1>11
      <4>2. QED  BY <1>11, <3>1, <4>1
    <3>2. QED  BY <1>11, <3>1 DEF IsInjective
  <2>2. Range(m) = Range(l) \cup {o}
    <3>1. 1..Len(m) = 1..Len(l) \cup {Len(m)}
      BY <1>11
    <3>2. {m[i] : i \in 1..Len(m)} = {m[i] : i \in 1..Len(l)} \cup {o}
      BY <1>11, <3>1
    <3>3. {m[i] : i \in 1..Len(l)} = {l[i] : i \in 1..Len(l)}
      <4>1. \A i \in 1..Len(l) : m[i] = l[i]
        BY <1>11
      <4>2. QED  BY <4>1, Zenon
    <3>4. QED  BY <1>11, <3>2, <3>3 DEF Range
  <2>3. QED  BY <2>1, <2>2
<1>13. Total(g, m) = Total(f, l) + 1 /\ Total(f, l) \in Nat
  <2>1. Total(g, m) = Total(g, l) + g[o]
    <3>1. Total(g, Append(l, o)) = Total(g, l) + g[o]
      BY TotalAppended
    <3>2. QED  BY <1>7, <3>1
  <2>2. g[o] = 1 /\ \A i \in 1..Len(l) : g[l[i]] = f[l[i]]
    BY <1>7, <1>11
  <2>3. Total(g, l) = Total(f, l) /\ Total(f, l) \in Nat
    BY <2>2, TotalStays
  <2>4. QED  BY <2>1, <2>2, <2>3
<1>14. Total(LineSize, m) = Total(LineSize, l) + LineSize[o]
  <2>1. PICK f0 \in [Originals -> Nat] : f0 = LineSize
    BY <1>1
  <2>2. Total(f0, Append(l, o)) = Total(f0, l) + f0[o]
    BY TotalAppended
  <2>3. QED  BY <1>7, <2>1, <2>2
<1>15. PICK a \in Nat, b \in Nat :
         /\ a = s.stats.unique_originals /\ b = s.stats.duplicate_originals
         /\ u.stats.unique_originals = a + 1 /\ u.stats.duplicate_originals = b
         /\ u.stats.jsonl_bytes = s.stats.jsonl_bytes + LineSize[o]
  <2>1. {"unique_originals", "duplicate_originals", "jsonl_bytes"} \subseteq Counters
    BY DEF Counters
  <2>2. /\ u.stats["unique_originals"] = s.stats["unique_originals"] + 1
        /\ u.stats["duplicate_originals"] = s.stats["duplicate_originals"]
        /\ u.stats["jsonl_bytes"] = s.stats["jsonl_bytes"] + LineSize[o]
    BY <1>5, <1>9, <2>1
  <2>3. QED  BY <2>2, StatsAre
<1>16. Total(u.frequencies, u.lines) = u.stats.unique_originals + u.stats.duplicate_originals
  <2>1. Total(f, l) = a + b
    BY <1>6, <1>15 DEF TextsWritten
  <2>2. Total(g, m) = (a + 1) + b
    BY <1>13, <2>1
  <2>3. QED  BY <1>9, <1>15, <2>2
<1>17. u.stats.jsonl_bytes = Total(LineSize, u.lines) /\ u.stats.jsonl_bytes <= max_bytes
  <2>1. s.stats.jsonl_bytes = Total(LineSize, l) /\ s.stats.jsonl_bytes + LineSize[o] <= max_bytes
    BY <1>6 DEF TextsWritten, Fits
  <2>2. QED  BY <1>9, <1>14, <1>15, <2>1
<1>18. \A p \in Originals : u.frequencies[p] > 0 <=> p \in Range(u.lines)
  <2>1. \A p \in Originals : f[p] > 0 <=> p \in Range(l)
    BY <1>6 DEF TextsWritten
  <2>2. \A p \in Originals : g[p] = IF p = o THEN 1 ELSE f[p]
    BY <1>7
  <2>3. ASSUME NEW q \in Originals PROVE g[q] > 0 <=> q \in Range(m)
    <3>1. CASE q = o
      BY <1>12, <2>2, <3>1
    <3>2. CASE q # o
      BY <1>12, <2>1, <2>2, <3>2
    <3>3. QED  BY <3>1, <3>2
  <2>4. QED  BY <1>9, <2>3
<1>19. TextsWritten(u)
  BY <1>9, <1>12, <1>16, <1>17, <1>18 DEF TextsWritten
<1>20. QED  BY <1>9, <1>10, <1>19

\* A record that expired, or that cannot be restored.
LEMMA NothingSaved ==
  ASSUME NEW s \in Sessions, KeysCounted(s), TextsWritten(s), s.stop_reason = "duration",
         NEW k \in VaultKeys, k \notin s.seen_keys,
         NEW c \in {"expired_before_read", "unrecoverable_records"}, NEW u, u = Add(Seen(s, k), c, 1)
  PROVE  u \in Sessions /\ KeysCounted(u) /\ TextsWritten(u) /\ u.seen_keys = s.seen_keys \cup {k}
<1>1. c \in Counters
  BY DEF Counters
<1>2. PICK v \in Sessions : v = Seen(s, k)
  BY SeenIs
<1>3. /\ v.seen_keys = s.seen_keys \cup {k} /\ v.lines = s.lines /\ v.frequencies = s.frequencies
      /\ v.stop_reason = s.stop_reason
      /\ \A d \in Counters : v.stats[d] = IF d = "source_records_seen" THEN s.stats[d] + 1 ELSE s.stats[d]
  BY <1>2, SeenIs
<1>4. PICK n \in Nat : n = 1
  OBVIOUS
<1>5. u = Add(v, c, n)
  BY <1>2, <1>4
<1>6. /\ u \in Sessions /\ u.seen_keys = v.seen_keys /\ u.lines = v.lines /\ u.frequencies = v.frequencies
      /\ u.stop_reason = v.stop_reason
      /\ \A d \in Counters : u.stats[d] = IF d = c THEN v.stats[d] + n ELSE v.stats[d]
  BY <1>1, <1>5, AddIs, SMTT(30)
<1>7. /\ u.seen_keys = s.seen_keys \cup {k} /\ u.lines = s.lines /\ u.frequencies = s.frequencies
      /\ u.stop_reason = "duration"
      /\ \A d \in Counters : u.stats[d] = IF d \in {c, "source_records_seen"} THEN s.stats[d] + 1 ELSE s.stats[d]
  BY <1>3, <1>4, <1>6
<1>8. KeysCounted(u)
  <2>1. c \in {"expired_before_read", "unrecoverable_records", "duplicate_originals", "unique_originals"}
    OBVIOUS
  <2>2. \A d \in Counters \ {"jsonl_bytes"} :
           u.stats[d] = IF d \in {c, "source_records_seen"} THEN s.stats[d] + 1 ELSE s.stats[d]
    BY <1>7
  <2>3. QED  BY <1>6, <1>7, <2>1, <2>2, KeyCounted
<1>9. TextsWritten(u)
  <2>1. \A d \in {"unique_originals", "duplicate_originals", "jsonl_bytes"} : u.stats[d] = s.stats[d]
    BY <1>7 DEF Counters
  <2>2. QED  BY <1>7, <2>1, TextsKept
<1>10. QED  BY <1>6, <1>7, <1>8, <1>9

\* A text that is new and for which no bytes are left.
LEMMA TextRefused ==
  ASSUME NEW s \in Sessions, KeysCounted(s), TextsWritten(s), s.stop_reason = "duration",
         NEW k \in VaultKeys, k \notin s.seen_keys, NEW u, u = WithReason(Seen(s, k), "byte_limit")
  PROVE  u \in Sessions /\ KeysCounted(u) /\ TextsWritten(u) /\ u.seen_keys = s.seen_keys \cup {k}
<1>1. PICK v \in Sessions : v = Seen(s, k)
  BY SeenIs
<1>2. /\ v.seen_keys = s.seen_keys \cup {k} /\ v.lines = s.lines /\ v.frequencies = s.frequencies
      /\ Cardinality(v.seen_keys) = Cardinality(s.seen_keys) + 1 /\ Cardinality(s.seen_keys) \in Nat
      /\ \A d \in Counters : v.stats[d] = IF d = "source_records_seen" THEN s.stats[d] + 1 ELSE s.stats[d]
  BY <1>1, SeenIs
<1>3. PICK r \in Reasons : r = "byte_limit"
  BY DEF Reasons
<1>4. u = WithReason(v, r)
  BY <1>1, <1>3
<1>5. /\ u \in Sessions /\ u.seen_keys = v.seen_keys /\ u.lines = v.lines /\ u.frequencies = v.frequencies
      /\ u.stats = v.stats /\ u.stop_reason = r
  BY <1>4, ReasonReplaced
<1>6. KeysCounted(u)
  <2>1. /\ s.stats.source_records_seen = Cardinality(s.seen_keys)
        /\ s.stats.source_records_seen =
              s.stats.expired_before_read + s.stats.unrecoverable_records
                + s.stats.duplicate_originals + s.stats.unique_originals + 0
    BY DEF KeysCounted
  <2>2. PICK n \in Nat, a \in Nat, b \in Nat, d \in Nat, e \in Nat :
          /\ n = s.stats.source_records_seen /\ a = s.stats.expired_before_read
               /\ b = s.stats.unrecoverable_records
          /\ d = s.stats.duplicate_originals /\ e = s.stats.unique_originals
    BY StatsAre
  <2>3. /\ u.stats.source_records_seen = n + 1 /\ u.stats.expired_before_read = a
        /\ u.stats.unrecoverable_records = b /\ u.stats.duplicate_originals = d /\ u.stats.unique_originals = e
    BY <1>2, <1>5, <2>2 DEF Counters
  <2>4. n = a + b + d + e + 0
    BY <2>1, <2>2
  <2>5. u.stats.source_records_seen =
          u.stats.expired_before_read + u.stats.unrecoverable_records
            + u.stats.duplicate_originals + u.stats.unique_originals + 1
    BY <2>3, <2>4
  <2>6. u.stats.source_records_seen = Cardinality(u.seen_keys)
    BY <1>2, <1>5, <2>1, <2>2, <2>3
  <2>7. 1 \in {0, 1} /\ u.stop_reason \notin {"duration", "record_limit"}
    BY <1>3, <1>5
  <2>8. QED  BY <2>5, <2>6, <2>7 DEF KeysCounted
<1>7. TextsWritten(u)
  <2>1. \A d \in {"unique_originals", "duplicate_originals", "jsonl_bytes"} : u.stats[d] = s.stats[d]
    BY <1>2, <1>5 DEF Counters
  <2>2. QED  BY <1>2, <1>5, <2>1, TextsKept
<1>8. QED  BY <1>2, <1>5, <1>6, <1>7

LEMMA RecordSaved ==
  ASSUME NEW s, InOrder(s), NEW k \in VaultKeys, k \notin s.seen_keys,
         db \in [VaultKeys -> Originals \cup {Broken, Absent}]
  PROVE  InOrder(save_record(s, k)) /\ save_record(s, k).seen_keys \subseteq s.seen_keys \cup {k}
<1> PICK u : u = save_record(s, k)
  OBVIOUS
<1>0. s \in Sessions /\ KeysCounted(s) /\ TextsWritten(s)
  BY DEF InOrder
<1>1. CASE s.stop_reason # "duration"
  <2>1. u = s
    BY <1>1 DEF save_record
  <2>2. QED  BY <2>1
<1>2. CASE s.stop_reason = "duration"
  <2>1. Broken \notin Originals /\ Absent \notin Originals \cup {Broken}
          /\ db[k] \in Originals \cup {Broken, Absent}
    BY CaptureSessionAssumption
  <2>2. SUFFICES u \in Sessions /\ KeysCounted(u) /\ TextsWritten(u) /\ u.seen_keys = s.seen_keys \cup {k}
    BY DEF InOrder
  <2>3. CASE db[k] = Absent
    <3>1. u = Add(Seen(s, k), "expired_before_read", 1)
      BY <1>2, <2>1, <2>3 DEF save_record
    <3>2. QED  BY <1>0, <1>2, <3>1, NothingSaved
  <2>4. CASE db[k] = Broken
    <3>1. u = Add(Seen(s, k), "unrecoverable_records", 1)
      BY <1>2, <2>1, <2>4 DEF save_record
    <3>2. QED  BY <1>0, <1>2, <3>1, NothingSaved
  <2>5. CASE db[k] \in Originals /\ Known(s, db[k])
    <3>1. u = DuplicateOf(s, k, db[k])
      BY <1>2, <2>1, <2>5 DEF save_record, DuplicateOf
    <3>2. QED  BY <1>0, <1>2, <2>5, <3>1, DuplicateSaved
  <2>6. CASE db[k] \in Originals /\ ~Known(s, db[k]) /\ ~Fits(s, db[k])
    <3>1. u = WithReason(Seen(s, k), "byte_limit")
      BY <1>2, <2>1, <2>6 DEF save_record, WithReason
    <3>2. QED  BY <1>0, <1>2, <3>1, TextRefused
  <2>7. CASE db[k] \in Originals /\ ~Known(s, db[k]) /\ Fits(s, db[k])
    <3>1. u = NewText(s, k, db[k])
      BY <1>2, <2>1, <2>7 DEF save_record, NewText
    <3>2. QED  BY <1>0, <1>2, <2>7, <3>1, TextSaved
  <2>8. QED  BY <2>1, <2>3, <2>4, <2>5, <2>6, <2>7
<1>3. QED  BY <1>1, <1>2


\* What the session is after each key of a batch.
Reads(h, b, n) ==
  h[0] = session /\ \A i \in 1..n : h[i] = IF i \in b THEN save_record(h[i - 1], keys[i]) ELSE h[i - 1]

LEMMA ReadsExist ==
  ASSUME NEW n \in Nat, NEW b
  PROVE  \E h : Reads(h, b, n)
<1> DEFINE Bad == {m \in 0..n : \A h : ~Reads(h, b, m)}
<1>1. SUFFICES ASSUME Bad # {} PROVE FALSE
  <2>1. n \in 0..n /\ n \notin Bad => \E h : Reads(h, b, n)
    OBVIOUS
  <2> HIDE DEF Bad
  <2>2. QED  BY <2>1
<1>2. PICK m \in Bad : \A k \in Bad : m <= k
  <2>1. Bad \subseteq Nat
    OBVIOUS
  <2> HIDE DEF Bad
  <2>2. QED  BY <1>1, <2>1, LeastOf
<1>3. m \in 0..n /\ \A h : ~Reads(h, b, m)
  OBVIOUS
<1>4. m # 0
  <2>1. SUFFICES ASSUME m = 0 PROVE FALSE
    OBVIOUS
  <2> DEFINE h == [i \in {0} |-> session]
  <2>2. h[0] = session /\ \A i \in 1..m : FALSE
    BY <2>1
  <2> HIDE DEF h
  <2>3. Reads(h, b, m)
    BY <2>2 DEF Reads
  <2>4. QED  BY <1>3, <2>3
<1>5. m \in Nat /\ m - 1 \in 0..n /\ ~(m <= m - 1) /\ m \in 1..n
  BY <1>3, <1>4
<1>6. PICK g : Reads(g, b, m - 1)
  BY <1>2, <1>5
<1> DEFINE h == [i \in 0..m |-> IF i = m THEN IF m \in b THEN save_record(g[m - 1], keys[m]) ELSE g[m - 1]
                                ELSE g[i]]
<1>7. Reads(h, b, m)
  <2>1. h[m] = IF m \in b THEN save_record(g[m - 1], keys[m]) ELSE g[m - 1]
    BY <1>5
  <2>2. \A i \in 0..m - 1 : h[i] = g[i]
    BY <1>5
  <2> HIDE DEF h
  <2>3. h[0] = session
    BY <1>5, <1>6, <2>2 DEF Reads
  <2>4. ASSUME NEW i \in 1..m PROVE h[i] = IF i \in b THEN save_record(h[i - 1], keys[i]) ELSE h[i - 1]
    <3>1. CASE i = m
      <4>1. h[i - 1] = g[m - 1]
        BY <1>5, <2>2, <3>1
      <4>2. QED  BY <2>1, <3>1, <4>1
    <3>2. CASE i # m
      <4>1. i \in 1..m - 1 /\ i \in 0..m - 1 /\ i - 1 \in 0..m - 1
        BY <1>5, <3>2
      <4>2. h[i] = g[i] /\ h[i - 1] = g[i - 1]
        BY <2>2, <4>1
      <4>3. g[i] = IF i \in b THEN save_record(g[i - 1], keys[i]) ELSE g[i - 1]
        BY <1>6, <4>1 DEF Reads
      <4>4. QED  BY <4>2, <4>3
    <3>3. QED  BY <3>1, <3>2
  <2>5. QED  BY <2>3, <2>4 DEF Reads
<1>8. QED  BY <1>3, <1>7

\* The keys of the batch up to the place n.
KeysRead(b, n) == {keys[j] : j \in b \cap 1..n}

\* After each key of a batch of unseen keys the books are in order.
LEMMA BatchInOrder ==
  ASSUME InOrder(session), db \in [VaultKeys -> Originals \cup {Broken, Absent}],
         keys \in Seq(VaultKeys), IsInjective(keys),
         NEW n \in 0..Len(keys), NEW b \in SUBSET (1..n), \A i \in b : keys[i] \notin session.seen_keys,
         NEW h, Reads(h, b, n)
  PROVE  InOrder(h[n]) /\ h[n].seen_keys \subseteq session.seen_keys \cup KeysRead(b, n)
<1> DEFINE Good(i) == InOrder(h[i]) /\ h[i].seen_keys \subseteq session.seen_keys \cup KeysRead(b, i)
           Bad == {i \in 0..n : ~Good(i)}
<1>1. SUFFICES ASSUME Bad # {} PROVE FALSE
  <2>1. n \in 0..n /\ (n \notin Bad => Good(n))
    OBVIOUS
  <2>2. QED  BY <2>1
<1>2. PICK m \in Bad : \A i \in Bad : m <= i
  <2>1. Bad \subseteq Nat
    OBVIOUS
  <2> HIDE DEF Bad
  <2>2. QED  BY <1>1, <2>1, LeastOf
<1>3. m \in 0..n /\ ~Good(m)
  OBVIOUS
<1>4. m # 0
  <2>1. h[0] = session
    BY DEF Reads
  <2>2. Good(0)
    BY <2>1
  <2>3. QED  BY <1>3, <2>2
<1>5. m \in 1..n /\ m - 1 \in 0..n /\ ~(m <= m - 1) /\ m \in 1..Len(keys)
  BY <1>3, <1>4
<1>6. Good(m - 1)
  BY <1>2, <1>5
<1> PICK g : g = h[m - 1]
  OBVIOUS
<1>7. InOrder(g) /\ g.seen_keys \subseteq session.seen_keys \cup KeysRead(b, m - 1)
  BY <1>6
<1>8. KeysRead(b, m - 1) \subseteq KeysRead(b, m)
  BY <1>5 DEF KeysRead
<1> HIDE DEF Bad
<1>9. CASE m \notin b
  <2>1. h[m] = g
    BY <1>5, <1>9 DEF Reads
  <2>2. QED  BY <1>3, <1>7, <1>8, <2>1
<1>10. CASE m \in b
  <2>1. h[m] = save_record(g, keys[m])
    BY <1>5, <1>10 DEF Reads
  <2>2. keys[m] \in VaultKeys
    BY <1>5
  <2>3. keys[m] \notin g.seen_keys
    <3>1. \A j \in 1..m - 1 : j \in 1..Len(keys) /\ j # m
      BY <1>5
    <3>2. \A j \in 1..m - 1 : keys[j] # keys[m]
      BY <1>5, <3>1 DEF IsInjective
    <3>3. keys[m] \notin KeysRead(b, m - 1)
      BY <3>2 DEF KeysRead
    <3>4. QED  BY <1>7, <1>10, <3>3
  <2>4. InOrder(h[m]) /\ h[m].seen_keys \subseteq g.seen_keys \cup {keys[m]}
    BY <1>7, <2>1, <2>2, <2>3, RecordSaved
  <2>5. keys[m] \in KeysRead(b, m)
    BY <1>5, <1>10 DEF KeysRead
  <2>6. QED  BY <1>3, <1>7, <1>8, <2>4, <2>5
<1>11. QED  BY <1>9, <1>10

\* A batch has no more keys than places.
LEMMA KeysReadBounded ==
  ASSUME NEW n \in Nat, NEW b \in SUBSET (1..n)
  PROVE  /\ IsFiniteSet(b) /\ Cardinality(b) \in Nat
         /\ IsFiniteSet(KeysRead(b, n)) /\ Cardinality(KeysRead(b, n)) <= Cardinality(b)
<1>1. IsFiniteSet(b)
  <2>1. IsFiniteSet(1..n)
    BY FS_Interval
  <2>2. QED  BY <2>1, FS_Subset
<1> DEFINE f == [j \in b |-> keys[j]]
<1>2. f \in Surjection(b, KeysRead(b, n))
  <2>1. \A j \in b : j \in b \cap 1..n
    OBVIOUS
  <2>2. f \in [b -> KeysRead(b, n)]
    BY <2>1 DEF KeysRead
  <2>3. \A k \in KeysRead(b, n) : \E j \in b : f[j] = k
    BY DEF KeysRead
  <2>4. QED  BY <2>2, <2>3 DEF Surjection
<1> HIDE DEF f
<1>3. QED  BY <1>1, <1>2, FS_Surjection, FS_CardinalityType

LEMMA SeenBounded ==
  ASSUME NEW s \in Sessions, NEW n \in Nat, NEW b \in SUBSET (1..n), NEW u \in Sessions,
         u.seen_keys \subseteq s.seen_keys \cup KeysRead(b, n),
         Cardinality(s.seen_keys) + Cardinality(b) <= max_session_records
  PROVE  Cardinality(u.seen_keys) <= max_session_records
<1>1. IsFiniteSet(s.seen_keys)
  BY CaptureSessionAssumption, FS_Subset, Rewritten
<1>2. PICK A \in SUBSET VaultKeys, B \in {KeysRead(b, n)} : A = s.seen_keys /\ B = KeysRead(b, n)
  BY Rewritten
<1>3. /\ IsFiniteSet(A) /\ IsFiniteSet(B) /\ IsFiniteSet(A \cup B) /\ IsFiniteSet(A \cap B)
      /\ Cardinality(B) <= Cardinality(b) /\ Cardinality(b) \in Nat
  <2>1. /\ IsFiniteSet(A) /\ IsFiniteSet(B) /\ Cardinality(B) <= Cardinality(b) /\ Cardinality(b) \in Nat
    BY <1>1, <1>2, KeysReadBounded
  <2>2. QED  BY <2>1, FS_Union, FS_Subset
<1>4. Cardinality(A \cup B) = Cardinality(A) + Cardinality(B) - Cardinality(A \cap B)
  BY <1>3, FS_Union
<1>5. Cardinality(u.seen_keys) <= Cardinality(A \cup B)
  BY <1>2, <1>3, FS_Subset
<1>6. PICK c \in Nat, d \in Nat, e \in Nat, g \in Nat, w \in Nat :
        /\ c = Cardinality(A) /\ d = Cardinality(B) /\ e = Cardinality(A \cap B) /\ g = Cardinality(b)
        /\ w = Cardinality(A \cup B)
  BY <1>3, FS_CardinalityType
<1>7. w = c + d - e /\ d <= g /\ c + g <= max_session_records /\ Cardinality(u.seen_keys) <= w
  BY <1>2, <1>3, <1>4, <1>5, <1>6
<1>8. Cardinality(u.seen_keys) \in Nat /\ max_session_records \in Nat
  <2>1. IsFiniteSet(u.seen_keys)
    BY CaptureSessionAssumption, FS_Subset, Rewritten
  <2>2. QED  BY <2>1, CaptureSessionAssumption, FS_CardinalityType
<1>9. QED  BY <1>7, <1>8

\* A session that stops for another reason than the byte limit.
LEMMA ReasonGiven ==
  ASSUME NEW s, InOrder(s), NEW r \in {"record_limit", "interrupted", "capture_read_error"},
         r = "record_limit" => s.stop_reason = "duration"
  PROVE  InOrder(WithReason(s, r)) /\ WithReason(s, r).seen_keys = s.seen_keys
<1>1. s \in Sessions /\ r \in Reasons /\ KeysCounted(s) /\ TextsWritten(s)
  BY DEF InOrder, Reasons
<1>2. PICK u : u = WithReason(s, r)
  OBVIOUS
<1>3. /\ u \in Sessions /\ u.seen_keys = s.seen_keys /\ u.lines = s.lines /\ u.frequencies = s.frequencies
      /\ u.stats = s.stats /\ u.stop_reason = r
  BY <1>1, <1>2, ReasonReplaced
<1>4. KeysCounted(u)
  BY <1>1, <1>3 DEF KeysCounted
<1>5. TextsWritten(u)
  BY <1>1, <1>3, TextsKept
<1>6. QED  BY <1>2, <1>3, <1>4, <1>5 DEF InOrder

LEMMA ScanStep == SessionInv /\ Scan => SessionInv'
<1> SUFFICES ASSUME SessionInv, Scan PROVE SessionInv'
  OBVIOUS
<1>1. PICK n \in 0..Cardinality(VaultKeys) : keys' \in Injection(1..n, {k \in VaultKeys : db[k] # Absent})
  BY DEF Scan
<1>2. n \in Nat
  BY CaptureSessionAssumption, FS_CardinalityType
<1>3. keys' \in [1..n -> VaultKeys] /\ IsInjective(keys')
  BY <1>1 DEF Injection
<1>4. keys' \in Seq(VaultKeys)
  BY <1>2, <1>3
<1>5. session' = session /\ db' = db /\ capture' # "ended"
  BY DEF Scan
<1>6. QED  BY <1>3, <1>4, <1>5 DEF SessionInv, ManifestIsFinal

\* The keys of a page that a batch leaves.
LEMMA PageLeft ==
  ASSUME NEW p \in Seq(VaultKeys), IsInjective(p), NEW n \in 0..Len(p)
  PROVE  SubSeq(p, n + 1, Len(p)) \in Seq(VaultKeys) /\ IsInjective(SubSeq(p, n + 1, Len(p)))
<1>1. PICK q : q = SubSeq(p, n + 1, Len(p))
  OBVIOUS
<1>2. q \in Seq(VaultKeys) /\ Len(q) = Len(p) - n /\ \A i \in 1..Len(q) : q[i] = p[n + i]
  BY <1>1
<1>3. Len(p) \in Nat /\ n \in Nat /\ DOMAIN q = 1..Len(q) /\ DOMAIN p = 1..Len(p)
  BY <1>2
<1>4. ASSUME NEW i \in 1..Len(q), NEW j \in 1..Len(q), q[i] = q[j] PROVE i = j
  <2>1. n + i \in 1..Len(p) /\ n + j \in 1..Len(p)
    BY <1>2, <1>3
  <2>2. p[n + i] = p[n + j]
    BY <1>2, <1>4
  <2>3. n + i = n + j
    BY <1>3, <2>1, <2>2 DEF IsInjective
  <2>4. QED  BY <1>3, <2>3
<1>5. IsInjective(q)
  BY <1>3, <1>4 DEF IsInjective
<1>6. QED  BY <1>1, <1>2, <1>5

LEMMA BatchFits ==
  ASSUME SessionInv
  PROVE  /\ BatchLength \in 0..Len(keys) /\ BatchLength \in Nat
         /\ Unseen \in SUBSET (1..BatchLength) /\ \A i \in Unseen : keys[i] \notin session.seen_keys
<1>1. BatchSize \in Nat /\ Len(keys) \in Nat
  BY CaptureSessionAssumption DEF SessionInv
<1>2. \E x \in {BatchSize, Len(keys)} : \A y \in {BatchSize, Len(keys)} : x =< y
  BY <1>1
<1>3. BatchLength \in {BatchSize, Len(keys)} /\ \A y \in {BatchSize, Len(keys)} : BatchLength =< y
  BY <1>2 DEF Min, BatchLength
<1>4. Unseen \in SUBSET (1..BatchLength) /\ \A i \in Unseen : keys[i] \notin session.seen_keys
  BY DEF Unseen
<1>5. QED  BY <1>1, <1>3, <1>4

LEMMA SessionAfterReads ==
  ASSUME SessionInv
  PROVE  Reads(SessionAfter, Unseen, BatchLength)
<1> DEFINE n == BatchLength
           b == Unseen
           step(t) == [i \in 0..n |-> IF i = 0 THEN session
                                      ELSE IF i \in b THEN save_record(t[i - 1], keys[i]) ELSE t[i - 1]]
           after == CHOOSE t : t = step(t)
<1>1. SessionAfter = after
  BY DEF SessionAfter
<1>2. n \in Nat
  BY BatchFits
<1> HIDE DEF n, b
<1>3. after = step(after)
  <2>1. PICK h : Reads(h, b, n)
    BY <1>2, ReadsExist
  <2> DEFINE t0 == [i \in 0..n |-> h[i]]
  <2>2. t0 = step(t0)
    <3>1. ASSUME NEW i \in 0..n
          PROVE  t0[i] = IF i = 0 THEN session
                         ELSE IF i \in b THEN save_record(t0[i - 1], keys[i]) ELSE t0[i - 1]
      <4>1. CASE i = 0
        BY <2>1, <4>1 DEF Reads
      <4>2. CASE i # 0
        <5>1. i \in 1..n /\ i - 1 \in 0..n
          BY <1>2, <4>2
        <5>2. QED  BY <2>1, <4>2, <5>1 DEF Reads
      <4>3. QED  BY <4>1, <4>2
    <3>2. QED  BY <3>1
  <2> HIDE DEF step, t0
  <2>3. QED  BY <2>2
<1>4. after[0] = session
  <2>1. 0 \in 0..n
    BY <1>2
  <2> HIDE DEF after
  <2>2. QED  BY <1>3, <2>1
<1>5. \A i \in 1..n : after[i] = IF i \in b THEN save_record(after[i - 1], keys[i]) ELSE after[i - 1]
  <2>1. \A i \in 1..n : i \in 0..n /\ i # 0
    BY <1>2
  <2> HIDE DEF after
  <2>2. QED  BY <1>3, <2>1
<1> HIDE DEF after
<1>6. Reads(after, b, n)
  BY <1>4, <1>5 DEF Reads
<1>7. QED  BY <1>1, <1>6 DEF n, b

\* Amid a batch that does not exceed the limit the books are in order.
LEMMA ReadSoFar ==
  ASSUME SessionInv, ~TooMany, NEW n \in 0..BatchLength
  PROVE  InOrder(SessionAfter[n]) /\ Cardinality(SessionAfter[n].seen_keys) <= max_session_records
<1>1. /\ InOrder(session) /\ db \in [VaultKeys -> Originals \cup {Broken, Absent}]
      /\ keys \in Seq(VaultKeys) /\ IsInjective(keys)
  BY DEF SessionInv
<1>2. /\ BatchLength \in 0..Len(keys) /\ BatchLength \in Nat /\ Unseen \in SUBSET (1..BatchLength)
      /\ \A i \in Unseen : keys[i] \notin session.seen_keys
  BY BatchFits
<1>3. n \in 0..Len(keys) /\ n \in Nat /\ 1..n \subseteq 1..BatchLength
  BY <1>1, <1>2
<1>4. PICK b \in SUBSET (1..n) : b = Unseen \cap 1..n
  OBVIOUS
<1>5. Reads(SessionAfter, b, n)
  BY <1>3, <1>4, SessionAfterReads DEF Reads
<1>6. PICK u : u = SessionAfter[n]
  OBVIOUS
<1>7. InOrder(u) /\ u.seen_keys \subseteq session.seen_keys \cup KeysRead(b, n)
  BY <1>1, <1>2, <1>3, <1>4, <1>5, <1>6, BatchInOrder
<1>8. Cardinality(session.seen_keys) + Cardinality(b) <= max_session_records
  <2>1. IsFiniteSet(Unseen) /\ Cardinality(Unseen) \in Nat /\ Cardinality(b) \in Nat
    BY <1>2, <1>3, KeysReadBounded
  <2>2. Cardinality(b) <= Cardinality(Unseen)
    BY <1>4, <2>1, FS_Subset
  <2>3. Cardinality(session.seen_keys) \in Nat
    <3>1. session.seen_keys \in SUBSET VaultKeys
      BY <1>1, Rewritten DEF InOrder
    <3>2. QED  BY <3>1, CaptureSessionAssumption, FS_Subset, FS_CardinalityType
  <2>4. max_session_records \in Nat
    BY CaptureSessionAssumption
  <2>5. QED  BY <2>1, <2>2, <2>3, <2>4 DEF TooMany
<1>9. session \in Sessions /\ u \in Sessions
  BY <1>1, <1>7 DEF InOrder
<1>10. Cardinality(u.seen_keys) <= max_session_records
  BY <1>3, <1>7, <1>8, <1>9, SeenBounded
<1>11. QED  BY <1>6, <1>7, <1>10

LEMMA ReadBatchStep == SessionInv /\ ReadBatch => SessionInv'
<1> SUFFICES ASSUME SessionInv, ReadBatch PROVE SessionInv'
  OBVIOUS
<1>1. /\ InOrder(session) /\ Cardinality(session.seen_keys) <= max_session_records
      /\ db \in [VaultKeys -> Originals \cup {Broken, Absent}]
      /\ keys \in Seq(VaultKeys) /\ IsInjective(keys)
  BY DEF SessionInv
<1>2. /\ keys' = SubSeq(keys, BatchLength + 1, Len(keys)) /\ db' = db /\ capture' # "ended"
      /\ session.stop_reason = "duration"
      /\ session' = IF TooMany THEN [session EXCEPT !.stop_reason = "record_limit"]
                    ELSE SessionAfter[BatchLength]
  BY DEF ReadBatch, HasPage
<1>3. InOrder(session') /\ Cardinality(session'.seen_keys) <= max_session_records
  <2>1. CASE TooMany
    <3>1. session' = WithReason(session, "record_limit")
      BY <1>2, <2>1 DEF WithReason
    <3>2. QED  BY <1>1, <1>2, <3>1, ReasonGiven
  <2>2. CASE ~TooMany
    <3>1. session' = SessionAfter[BatchLength] /\ BatchLength \in 0..BatchLength
      BY <1>2, <2>2, BatchFits
    <3>2. QED  BY <2>2, <3>1, ReadSoFar
  <2>3. QED  BY <2>1, <2>2
<1>4. keys' \in Seq(VaultKeys) /\ IsInjective(keys')
  BY <1>1, <1>2, BatchFits, PageLeft
<1>5. QED  BY <1>1, <1>2, <1>3, <1>4 DEF SessionInv, ManifestIsFinal

\* A read that fails is counted by itself.
LEMMA FailureCounted ==
  ASSUME NEW s, InOrder(s)
  PROVE  InOrder(Add(s, "read_failures", 1)) /\ Add(s, "read_failures", 1).seen_keys = s.seen_keys
<1>1. s \in Sessions /\ KeysCounted(s) /\ TextsWritten(s) /\ "read_failures" \in Counters
  BY DEF InOrder, Counters
<1>2. PICK u : u = Add(s, "read_failures", 1)
  OBVIOUS
<1>3. /\ u \in Sessions /\ u.seen_keys = s.seen_keys /\ u.lines = s.lines /\ u.frequencies = s.frequencies
      /\ u.stop_reason = s.stop_reason
      /\ \A d \in Counters \ {"read_failures"} : u.stats[d] = s.stats[d]
  BY <1>1, <1>2, AddIs
<1>4. \A d \in {"unique_originals", "duplicate_originals", "jsonl_bytes"} : u.stats[d] = s.stats[d]
  BY <1>3 DEF Counters
<1>5. /\ u.stats.source_records_seen = s.stats.source_records_seen
      /\ u.stats.expired_before_read = s.stats.expired_before_read
      /\ u.stats.unrecoverable_records = s.stats.unrecoverable_records
      /\ u.stats.duplicate_originals = s.stats.duplicate_originals
      /\ u.stats.unique_originals = s.stats.unique_originals
  BY <1>3 DEF Counters
<1>6. KeysCounted(u)
  BY <1>1, <1>3, <1>5 DEF KeysCounted
<1>7. TextsWritten(u)
  BY <1>1, <1>3, <1>4, TextsKept
<1>8. QED  BY <1>2, <1>3, <1>6, <1>7 DEF InOrder

\* However a session ends whose books are in order, its manifest has its counts.
LEMMA SessionEnds ==
  ASSUME SessionInv, NEW s, InOrder(s), Cardinality(s.seen_keys) <= max_session_records,
         NEW r \in {"interrupted", "capture_read_error"}, FinishWith(s, r)
  PROVE  SessionInv'
<1>1. PICK u : u = IF r = "interrupted" THEN s ELSE Add(s, "read_failures", 1)
  OBVIOUS
<1>2. InOrder(u) /\ u.seen_keys = s.seen_keys
  BY <1>1, FailureCounted
<1>3. session' = WithReason(u, r)
  BY <1>1 DEF FinishWith, WithReason
<1>4. InOrder(session') /\ session'.seen_keys = s.seen_keys
  BY <1>2, <1>3, ReasonGiven
<1>5. db' = db /\ keys' = keys /\ ManifestIsFinal'
  BY DEF FinishWith, ManifestIsFinal, save_manifest
<1>6. QED  BY <1>4, <1>5 DEF SessionInv

LEMMA InterruptedStep == SessionInv /\ (Interrupted \/ BatchInterrupted) => SessionInv'
<1> SUFFICES ASSUME SessionInv, Interrupted \/ BatchInterrupted PROVE SessionInv'
  OBVIOUS
<1>1. CASE Interrupted
  <2>1. PICK r \in {"interrupted", "capture_read_error"} : FinishWith(session, r)
    BY <1>1 DEF Interrupted
  <2>2. InOrder(session) /\ Cardinality(session.seen_keys) <= max_session_records
    BY DEF SessionInv
  <2>3. QED  BY <2>1, <2>2, SessionEnds
<1>2. CASE BatchInterrupted
  <2>1. /\ ~TooMany /\ BatchLength \in 0..BatchLength /\ \A i \in 1..BatchLength : i \in 0..BatchLength
    BY <1>2, BatchFits DEF BatchInterrupted
  <2>2. PICK n \in 0..BatchLength, r \in {"interrupted", "capture_read_error"} : FinishWith(SessionAfter[n], r)
    BY <1>2, <2>1 DEF BatchInterrupted
  <2>3. QED  BY <2>1, <2>2, ReadSoFar, SessionEnds
<1>3. QED  BY <1>1, <1>2

LEMMA OtherSessionSteps ==
  SessionInv /\ (EndPass \/ End \/ (capture # "ended" /\ \E k \in VaultKeys : Change(k)) \/ UNCHANGED capturevars)
    => SessionInv'
<1> SUFFICES ASSUME SessionInv,
                    EndPass \/ End \/ (capture # "ended" /\ \E k \in VaultKeys : Change(k))
                      \/ UNCHANGED capturevars
             PROVE  SessionInv'
  OBVIOUS
<1>1. CASE EndPass
  <2>1. session' = session /\ db' = db /\ keys' = <<>> /\ capture' # "ended"
    BY <1>1 DEF EndPass
  <2>2. keys' \in Seq(VaultKeys) /\ IsInjective(keys')
    BY <2>1 DEF IsInjective
  <2>3. QED  BY <2>1, <2>2 DEF SessionInv, ManifestIsFinal
<1>2. CASE End
  BY <1>2 DEF End, SessionInv, ManifestIsFinal, save_manifest
<1>3. CASE capture # "ended" /\ \E k \in VaultKeys : Change(k)
  <2>1. PICK k \in VaultKeys : Change(k)
    BY <1>3
  <2>2. db' \in [VaultKeys -> Originals \cup {Broken, Absent}]
    BY <2>1 DEF Change, SessionInv
  <2>3. session' = session /\ keys' = keys /\ capture' # "ended"
    BY <1>3, <2>1 DEF Change
  <2>4. QED  BY <2>2, <2>3 DEF SessionInv, ManifestIsFinal
<1>4. CASE UNCHANGED capturevars
  BY <1>4 DEF capturevars, SessionInv, ManifestIsFinal
<1>5. QED  BY <1>1, <1>2, <1>3, <1>4

LEMMA SessionStarts == CaptureInit => SessionInv
<1> SUFFICES ASSUME CaptureInit PROVE SessionInv
  OBVIOUS
<1>1. /\ session.seen_keys = {} /\ session.lines = <<>> /\ session.frequencies = [o \in Originals |-> 0]
      /\ session.stats = [c \in Counters |-> 0] /\ session.stop_reason = "duration"
  BY DEF CaptureInit
<1>2. session \in Sessions
  BY DEF CaptureInit, Sessions, Reasons
<1>3. Cardinality({}) = 0
  BY FS_EmptySet
<1>4. KeysCounted(session)
  BY <1>1, <1>3 DEF KeysCounted, Counters
<1>5. TextsWritten(session)
  <2>1. PICK f \in [Originals -> Nat], g \in [Originals -> Nat] : f = session.frequencies /\ g = LineSize
    BY <1>1, CaptureSessionAssumption
  <2>2. Total(f, <<>>) = 0 /\ Total(g, <<>>) = 0
    BY BytesOfFew, TotalIs
  <2>3. IsInjective(session.lines) /\ Range(session.lines) = {}
    BY <1>1 DEF IsInjective, Range
  <2>4. /\ session.stats.unique_originals = 0 /\ session.stats.duplicate_originals = 0
        /\ session.stats.jsonl_bytes = 0 /\ \A o \in Originals : session.frequencies[o] = 0
    BY <1>1 DEF Counters
  <2>5. max_bytes \in Nat
    BY CaptureSessionAssumption
  <2>6. QED  BY <1>1, <2>1, <2>2, <2>3, <2>4, <2>5 DEF TextsWritten
<1>6. max_session_records \in Nat
  BY CaptureSessionAssumption
<1>7. keys \in Seq(VaultKeys) /\ IsInjective(keys)
  BY DEF CaptureInit, IsInjective
<1>8. QED  BY <1>1, <1>2, <1>3, <1>4, <1>5, <1>6, <1>7
             DEF CaptureInit, SessionInv, InOrder, ManifestIsFinal

\* SessionSafe: a capture session's counts, its file and its manifest agree however it
\* ends, between two batches or amid one, whatever is stored and expires meanwhile and in
\* whatever order SCAN returns the keys.
THEOREM SessionKeepsSafe == CaptureSessionSpec => []SessionSafe
<1>1. SessionInv => SessionSafe
  <2> SUFFICES ASSUME SessionInv PROVE SessionSafe
    OBVIOUS
  <2>1. session \in Sessions /\ KeysCounted(session) /\ TextsWritten(session)
    BY DEF SessionInv, InOrder
  <2>2. EveryKeyCounted
    <3>1. PICK n \in Nat, a \in Nat, b \in Nat, d \in Nat, e \in Nat :
            /\ n = session.stats.source_records_seen /\ a = session.stats.expired_before_read
            /\ b = session.stats.unrecoverable_records
            /\ d = session.stats.duplicate_originals /\ e = session.stats.unique_originals
      BY <2>1, StatsAre
    <3>2. PICK rest \in {0, 1} :
            /\ session.stats.source_records_seen =
                  session.stats.expired_before_read + session.stats.unrecoverable_records
                    + session.stats.duplicate_originals + session.stats.unique_originals + rest
            /\ session.stop_reason \in {"duration", "record_limit"} => rest = 0
            /\ session.stop_reason = "byte_limit" => rest = 1
      BY <2>1 DEF KeysCounted
    <3>3. n = a + b + d + e + rest
      BY <3>1, <3>2
    <3>4. n - a - b - d - e = rest
      BY <3>3
    <3>5. session.stats.source_records_seen = Cardinality(session.seen_keys)
      BY <2>1 DEF KeysCounted
    <3>6. QED  BY <3>1, <3>2, <3>4, <3>5 DEF EveryKeyCounted
  <2>3. WrittenOnce /\ WithinBounds /\ ManifestIsFinal
    BY <2>1 DEF SessionInv, TextsWritten, WrittenOnce, WithinBounds
  <2>4. QED  BY <2>2, <2>3 DEF SessionSafe
<1>2. SessionInv /\ [CaptureNext]_capturevars => SessionInv'
  BY ScanStep, ReadBatchStep, InterruptedStep, OtherSessionSteps DEF CaptureNext, CaptureStep
<1>3. QED  BY <1>1, <1>2, SessionStarts, PTL DEF CaptureSessionSpec
=============================================================================
