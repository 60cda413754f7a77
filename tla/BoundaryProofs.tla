---------------------------- MODULE BoundaryProofs ----------------------------
(***************************************************************************)
(* Proofs about Boundary: its counters are exact and its limits hold for   *)
(* any number of requests and any limits.                                  *)
(***************************************************************************)
EXTENDS Boundary, FiniteSetTheorems, TLAPS

\* What each stage of a request knows about the body.
BodyInv ==
  \A r \in Requests :
    /\ pc[r] \in {"idle", "reading", "refusing"} => content[r] = None /\ given[r] = None
    /\ pc[r] = "app" /\ method[r] = "POST" => content[r] = held[r] /\ given[r] = held[r]
    /\ pc[r] = "app" /\ method[r] = "GET" => content[r] = None /\ given[r] = None
    /\ pc[r] = "reading" => method[r] = "POST"
    /\ pc[r] = "gone" => captured[r] = given[r]

\* The inductive invariant.
IInv == TypeOK /\ Conservation /\ AdmissionBound /\ ByteBound /\ BodyInv

LEMMA BytesFinite == IsFiniteSet(Requests \X (1..MaxBody))
<1>1. 1 \in Int /\ MaxBody \in Int
  BY BoundaryAssumption
<1>2. IsFiniteSet(1..MaxBody)
  BY <1>1, FS_Interval, Zenon
<1> QED
  BY <1>2, FS_Product, BoundaryAssumption

\* The sets that are counted are finite.
LEMMA Finite ==
  /\ IsFiniteSet(Active) /\ Cardinality(Active) \in Nat
  /\ IsFiniteSet(Admitted) /\ Cardinality(Admitted) \in Nat
  /\ IsFiniteSet(HeldBytes) /\ Cardinality(HeldBytes) \in Nat
<1>1. IsFiniteSet(Active)
  BY FS_Subset, BoundaryAssumption DEF Active
<1>2. IsFiniteSet(Admitted)
  BY <1>1, FS_Subset DEF Admitted
<1>3. IsFiniteSet(HeldBytes)
  BY BytesFinite, FS_Subset DEF HeldBytes
<1> QED
  BY <1>1, <1>2, <1>3, FS_CardinalityType

\* The bytes of one request from position a to position b.
Piece(r, a, b) == {r} \X (a..b)

LEMMA PieceSize ==
  ASSUME NEW r, NEW a \in Nat, NEW b \in Nat, a <= b
  PROVE  IsFiniteSet(Piece(r, a + 1, b)) /\ Cardinality(Piece(r, a + 1, b)) = b - a
<1>1. IsFiniteSet({r}) /\ Cardinality({r}) = 1
  BY FS_Singleton
<1>2. IsFiniteSet((a+1)..b) /\ Cardinality((a+1)..b) = b - a
  <2> DEFINE lo == a + 1
  <2>1. lo \in Int /\ b \in Int
    OBVIOUS
  <2> HIDE DEF lo
  <2>2. /\ IsFiniteSet(lo..b)
        /\ Cardinality(lo..b) = IF lo > b THEN 0 ELSE b - lo + 1
    BY <2>1, FS_Interval, Zenon
  <2> QED
    BY <2>2 DEF lo
<1>3. /\ IsFiniteSet(Piece(r, a + 1, b))
      /\ Cardinality(Piece(r, a + 1, b)) = Cardinality({r}) * Cardinality((a+1)..b)
  BY <1>1, <1>2, FS_Product, Zenon DEF Piece
<1> QED
  BY <1>1, <1>2, <1>3

\* Bytes added to one upload are added to the bytes held by all.
LEMMA Grow ==
  ASSUME TypeOK, NEW r \in Requests, NEW c \in Nat, held[r] + c <= MaxBody,
         held' = [held EXCEPT ![r] = @ + c]
  PROVE  Cardinality(HeldBytes') = Cardinality(HeldBytes) + c
<1> DEFINE new == Piece(r, held[r] + 1, held[r] + c)
<1>0. held[r] \in Nat /\ held[r] + c \in Nat /\ MaxBody \in Nat /\ \A q \in Requests : held[q] \in Nat
  BY BoundaryAssumption DEF TypeOK
<1>1. IsFiniteSet(new) /\ Cardinality(new) = c
  BY <1>0, PieceSize
<1>2. HeldBytes' = HeldBytes \cup new
  BY <1>0 DEF HeldBytes, Piece, TypeOK
<1>3. HeldBytes \cap new = {}
  BY <1>0 DEF HeldBytes, Piece
<1> HIDE DEF new
<1>4. Cardinality(HeldBytes \cup new) = Cardinality(HeldBytes) + Cardinality(new) - Cardinality({})
  BY <1>1, <1>3, Finite, FS_Union, Zenon
<1> QED
  BY <1>1, <1>2, <1>4, Finite, FS_EmptySet

\* Bytes of a request that leaves are taken from the bytes held by all.
LEMMA Shrink ==
  ASSUME TypeOK, ByteBound, NEW r \in Requests, held' = [held EXCEPT ![r] = 0]
  PROVE  Cardinality(HeldBytes') = Cardinality(HeldBytes) - held[r]
<1> DEFINE old == Piece(r, 0 + 1, held[r])
<1>0. held[r] \in Nat /\ held[r] <= MaxBody /\ MaxBody \in Nat /\ \A q \in Requests : held[q] \in Nat
  BY BoundaryAssumption DEF TypeOK, ByteBound
<1>1. IsFiniteSet(old) /\ Cardinality(old) = held[r]
  BY <1>0, PieceSize
<1>2. HeldBytes' = HeldBytes \ old
  BY <1>0 DEF HeldBytes, Piece, TypeOK
<1>3. HeldBytes \cap old = old
  BY <1>0 DEF HeldBytes, Piece
<1> HIDE DEF old
<1>4. Cardinality(HeldBytes \ old) = Cardinality(HeldBytes) - Cardinality(old)
  <2>1. Cardinality(HeldBytes \ old) = Cardinality(HeldBytes) - Cardinality(HeldBytes \cap old)
    BY Finite, FS_Difference
  <2> QED
    BY <1>3, <2>1
<1> QED
  BY <1>1, <1>2, <1>4

LEMMA InitOK == Init => IInv
<1> SUFFICES ASSUME Init PROVE IInv
  OBVIOUS
<1>1. TypeOK /\ BodyInv
  BY DEF Init, TypeOK, BodyInv
<1>2. Active = {} /\ Admitted = {} /\ HeldBytes = {}
  BY DEF Init, Active, Admitted, HeldBytes
<1>3. Conservation /\ AdmissionBound /\ ByteBound
  BY <1>2, FS_EmptySet, BoundaryAssumption DEF Init, Conservation, AdmissionBound, ByteBound
<1> QED
  BY <1>1, <1>3 DEF IInv

\* A request that arrives is counted, and is admitted only below the limit.
LEMMA EnterOK ==
  ASSUME IInv, NEW r \in Requests, Enter(r)
  PROVE  IInv'
<1> USE DEF IInv
<1>1. PICK m \in {"GET", "POST"}, to \in {"refusing", "reading", "app"} :
        /\ inflight' = inflight + 1
        /\ method' = [method EXCEPT ![r] = m]
        /\ overloaded' = [overloaded EXCEPT ![r] = inflight >= MaxInflight]
        /\ pc' = [pc EXCEPT ![r] = to]
        /\ to = "reading" => m = "POST"
        /\ to = "app" => m = "GET"
  BY DEF Enter, Goto
<1>2. pc[r] = "idle" /\ UNCHANGED <<buffered_bytes, held, content, given, captured>>
  BY DEF Enter
<1>3. HeldBytes' = HeldBytes
  BY <1>2 DEF HeldBytes
<1>4. Active' = Active \cup {r} /\ r \notin Active
  BY <1>1, <1>2 DEF Active, TypeOK
<1>5. Cardinality(Active') = inflight + 1
  BY <1>4, Finite, FS_AddElement DEF Conservation
<1>6. TypeOK'
  BY <1>1, <1>2 DEF TypeOK
<1>7. Conservation'
  BY <1>1, <1>2, <1>3, <1>5 DEF Conservation
<1>8. AdmissionBound'
  <2>1. CASE inflight >= MaxInflight
    <3>1. Admitted' = Admitted
      BY <1>1, <1>2, <1>4, <2>1 DEF Admitted, Active, TypeOK
    <3> QED
      BY <3>1 DEF AdmissionBound
  <2>2. CASE ~(inflight >= MaxInflight)
    <3>1. Admitted' \subseteq Active'
      BY DEF Admitted
    <3>2. IsFiniteSet(Active')
      BY <1>4, Finite, FS_AddElement
    <3>3. Cardinality(Admitted') <= Cardinality(Active')
      BY <3>1, <3>2, FS_Subset
    <3>4. Cardinality(Admitted') \in Nat
      BY <3>1, <3>2, FS_Subset, FS_CardinalityType
    <3> QED
      BY <3>3, <3>4, <1>5, <2>2, BoundaryAssumption DEF AdmissionBound, TypeOK
  <2> QED
    BY <2>1, <2>2
<1>9. ByteBound'
  BY <1>2 DEF ByteBound
<1>10. BodyInv'
  BY <1>1, <1>2 DEF BodyInv, TypeOK
<1> QED
  BY <1>6, <1>7, <1>8, <1>9, <1>10

\* A request that moves on without leaving stays counted and admitted.
LEMMA StaysCounted ==
  ASSUME TypeOK, NEW r \in Requests, NEW to \in {"refusing", "reading", "app"},
         pc[r] \notin {"idle", "gone"}, pc' = [pc EXCEPT ![r] = to], UNCHANGED overloaded
  PROVE  Active' = Active /\ Admitted' = Admitted
<1>1. Active' = Active
  BY DEF Active, TypeOK
<1> QED
  BY <1>1 DEF Admitted

LEMMA ReceiveOK ==
  ASSUME IInv, NEW r \in Requests, Receive(r)
  PROVE  IInv'
<1> USE DEF IInv
<1>0. pc[r] = "reading" /\ UNCHANGED <<inflight, method, overloaded, captured>>
  BY DEF Receive
<1>1. PICK c \in Chunks, more_body \in BOOLEAN :
        \/ /\ Goto(r, "refusing")
           /\ UNCHANGED <<buffered_bytes, held, content, given>>
        \/ /\ held[r] + c <= MaxBody /\ buffered_bytes + c <= Budget
           /\ buffered_bytes' = buffered_bytes + c
           /\ held' = [held EXCEPT ![r] = @ + c]
           /\ IF more_body THEN UNCHANGED <<pc, content, given>>
              ELSE /\ Goto(r, "app")
                   /\ content' = [content EXCEPT ![r] = held[r] + c]
                   /\ given' = [given EXCEPT ![r] = held[r] + c]
  BY DEF Receive
<1>2. c \in Nat /\ held[r] \in Nat /\ Budget \in Nat /\ MaxBody \in Nat
  BY BoundaryAssumption DEF TypeOK
<1>3. CASE Goto(r, "refusing") /\ UNCHANGED <<buffered_bytes, held, content, given>>
  <2>1. Active' = Active /\ Admitted' = Admitted /\ HeldBytes' = HeldBytes
    BY <1>0, <1>3, StaysCounted DEF Goto, HeldBytes
  <2>2. TypeOK'
    BY <1>0, <1>3 DEF TypeOK, Goto
  <2>3. Conservation' /\ AdmissionBound' /\ ByteBound'
    BY <1>0, <1>3, <2>1 DEF Conservation, AdmissionBound, ByteBound
  <2>4. BodyInv'
    BY <1>0, <1>3 DEF BodyInv, TypeOK, Goto
  <2> QED
    BY <2>2, <2>3, <2>4
<1>4. CASE /\ held[r] + c <= MaxBody /\ buffered_bytes + c <= Budget
           /\ buffered_bytes' = buffered_bytes + c
           /\ held' = [held EXCEPT ![r] = @ + c]
           /\ IF more_body THEN UNCHANGED <<pc, content, given>>
              ELSE /\ Goto(r, "app")
                   /\ content' = [content EXCEPT ![r] = held[r] + c]
                   /\ given' = [given EXCEPT ![r] = held[r] + c]
  <2>1. Active' = Active /\ Admitted' = Admitted
    <3>1. CASE more_body
      BY <1>0, <1>4, <3>1 DEF Active, Admitted
    <3>2. CASE ~more_body
      BY <1>0, <1>4, <3>2, StaysCounted DEF Goto
    <3> QED
      BY <3>1, <3>2
  <2>2. TypeOK'
    BY <1>0, <1>2, <1>4 DEF TypeOK, Goto
  <2>3. Conservation'
    BY <1>0, <1>2, <1>4, <2>1, Grow DEF Conservation
  <2>4. AdmissionBound'
    BY <2>1 DEF AdmissionBound
  <2>5. ByteBound'
    BY <1>2, <1>4 DEF ByteBound, TypeOK
  <2>6. BodyInv'
    BY <1>0, <1>2, <1>4 DEF BodyInv, TypeOK, Goto
  <2> QED
    BY <2>2, <2>3, <2>4, <2>5, <2>6
<1> QED
  BY <1>1, <1>3, <1>4

LEMMA TimeoutOK ==
  ASSUME IInv, NEW r \in Requests, Timeout(r)
  PROVE  IInv'
<1> USE DEF IInv, Timeout, Goto
<1>1. Active' = Active /\ Admitted' = Admitted /\ HeldBytes' = HeldBytes
  BY StaysCounted DEF HeldBytes
<1>2. TypeOK'
  BY DEF TypeOK
<1>3. Conservation' /\ AdmissionBound' /\ ByteBound'
  BY <1>1 DEF Conservation, AdmissionBound, ByteBound
<1>4. BodyInv'
  BY DEF BodyInv, TypeOK
<1> QED
  BY <1>2, <1>3, <1>4

\* Whoever leaves gives back exactly what it held.
LEMMA ReleaseOK ==
  ASSUME IInv, NEW r \in Requests, pc[r] \in {"reading", "refusing", "app"}, Release(r)
  PROVE  IInv'
<1> USE DEF IInv, Release, Goto
<1>1. Active' = Active \ {r} /\ r \in Active
  BY DEF Active, TypeOK
<1>2. Cardinality(Active') = inflight - 1
  BY <1>1, Finite, FS_RemoveElement DEF Conservation
<1>3. Cardinality(HeldBytes') = buffered_bytes - held[r]
  BY Shrink DEF Conservation
<1>4. IsFiniteSet(Active') /\ IsFiniteSet(HeldBytes')
  <2>1. IsFiniteSet(Requests \X (1..MaxBody))
    BY BytesFinite
  <2>2. HeldBytes' \subseteq Requests \X (1..MaxBody)
    BY DEF HeldBytes
  <2> QED
    BY <1>1, <2>1, <2>2, Finite, FS_Subset
<1>5. inflight - 1 \in Nat /\ buffered_bytes - held[r] \in Nat
  BY <1>2, <1>3, <1>4, FS_CardinalityType
<1>6. TypeOK'
  BY <1>5 DEF TypeOK
<1>7. Conservation'
  BY <1>2, <1>3 DEF Conservation
<1>8. AdmissionBound'
  <2>1. Admitted' \subseteq Admitted
    BY <1>1 DEF Admitted
  <2>2. Cardinality(Admitted') <= Cardinality(Admitted) /\ Cardinality(Admitted') \in Nat
    BY <2>1, Finite, FS_Subset, FS_CardinalityType
  <2> QED
    BY <2>2, Finite, BoundaryAssumption DEF AdmissionBound
<1>9. ByteBound'
  BY BoundaryAssumption DEF ByteBound, TypeOK
<1>10. BodyInv'
  BY DEF BodyInv, TypeOK
<1> QED
  BY <1>6, <1>7, <1>8, <1>9, <1>10

LEMMA Stutter ==
  ASSUME IInv, UNCHANGED vars
  PROVE  IInv'
<1>1. Active' = Active
  BY DEF vars, Active
<1>2. Admitted' = Admitted /\ HeldBytes' = HeldBytes
  BY <1>1 DEF vars, Admitted, HeldBytes
<1> QED
  BY <1>1, <1>2 DEF vars, IInv, TypeOK, Conservation, AdmissionBound, ByteBound, BodyInv

\* The inductive invariant holds in every reachable state.
THEOREM Invariance == Spec => []IInv
<1>1. Init => IInv
  BY InitOK
<1>2. IInv /\ [Next]_vars => IInv'
  <2> SUFFICES ASSUME IInv, [Next]_vars PROVE IInv'
    OBVIOUS
  <2>1. ASSUME NEW r \in Requests, Enter(r) PROVE IInv'
    BY <2>1, EnterOK
  <2>2. ASSUME NEW r \in Requests, Receive(r) PROVE IInv'
    BY <2>2, ReceiveOK
  <2>3. ASSUME NEW r \in Requests, Timeout(r) PROVE IInv'
    BY <2>3, TimeoutOK
  <2>4. ASSUME NEW r \in Requests, Disconnect(r) \/ Finish(r) \/ Cancel(r) PROVE IInv'
    <3>1. pc[r] \in {"reading", "refusing", "app"} /\ Release(r)
      BY <2>4 DEF Disconnect, Finish, Cancel
    <3> QED
      BY <3>1, ReleaseOK
  <2>5. CASE UNCHANGED vars
    BY <2>5, Stutter
  <2> QED
    BY <2>1, <2>2, <2>3, <2>4, <2>5 DEF Next
<1> QED
  BY <1>1, <1>2, PTL DEF Spec

\* Boundary is type correct; in particular no counter ever goes below zero,
\* on whatever paths requests leave.
THEOREM TypeCorrect == Spec => []TypeOK
<1>1. IInv => TypeOK
  BY DEF IInv
<1> QED
  BY <1>1, Invariance, PTL

\* inflight and buffered_bytes equal what the requests being served stand for.
THEOREM CountersExact == Spec => []Conservation
<1>1. IInv => Conservation
  BY DEF IInv
<1> QED
  BY <1>1, Invariance, PTL

\* Never more than max_inflight requests are past the overload check.
THEOREM Admission == Spec => []AdmissionBound
<1>1. IInv => AdmissionBound
  BY DEF IInv
<1> QED
  BY <1>1, Invariance, PTL

\* The shared byte budget and the limit of one body are never exceeded.
THEOREM Bytes == Spec => []ByteBound
<1>1. IInv => ByteBound
  BY DEF IInv
<1> QED
  BY <1>1, Invariance, PTL

\* The application and the capture only ever see complete bodies.
THEOREM WholeBodies == Spec => []WholeBodiesOnly
<1>1. IInv => WholeBodiesOnly
  BY DEF IInv, BodyInv, WholeBodiesOnly
<1> QED
  BY <1>1, Invariance, PTL
=============================================================================
