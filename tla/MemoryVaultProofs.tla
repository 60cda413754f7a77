--------------------------- MODULE MemoryVaultProofs ---------------------------
(***************************************************************************)
(* Proofs about MemoryVault, for any keys, sizes, limits and lifetime: the *)
(* items are in the order of their expiry, so what _expire pops from the   *)
(* front is exactly what is past its time; the byte counter is exact; and  *)
(* the ordered dictionary implements the unordered TtlStore.               *)
(***************************************************************************)
EXTENDS MemoryVault, FiniteSetTheorems, WellFoundedInduction, TLAPS

ItemType == [key : Keys, value : Values, size : Sizes, expiry : Nat]

-----------------------------------------------------------------------------
(* Items, their bytes and what lives.                                      *)

\* ExpiryOrder, of any items.
Ordered(items) ==
  \A i, j \in 1..Len(items) : i < j => items[i].expiry <= items[j].expiry /\ items[i].key # items[j].key

LEMMA Interval == \A n \in Nat : IsFiniteSet(1..n) /\ Cardinality(1..n) = n
<1>1. \A n \in Nat : IsFiniteSet(1..n) /\ Cardinality(1..n) = IF 1 > n THEN 0 ELSE n - 1 + 1
  BY FS_Interval
<1> QED
  BY <1>1

LEMMA SizesPositive == \A size \in Sizes : size \in Nat /\ size > 0
BY MemoryVaultAssumption

LEMMA ItemAt ==
  ASSUME NEW items \in Seq(ItemType), NEW i \in 1..Len(items)
  PROVE  /\ items[i] \in ItemType
         /\ items[i].key \in Keys /\ items[i].value \in Values /\ items[i].size \in Sizes
         /\ items[i].size \in Nat /\ items[i].size > 0 /\ items[i].expiry \in Nat
<1>1. items[i] \in ItemType
  OBVIOUS
<1> QED
  BY <1>1, SizesPositive DEF ItemType

LEMMA OneForAKey ==
  ASSUME NEW items, Ordered(items), Len(items) \in Nat,
         NEW i \in 1..Len(items), NEW j \in 1..Len(items), items[i].key = items[j].key
  PROVE  i = j
BY DEF Ordered

LEMMA InBlobs ==
  ASSUME NEW items \in Seq(ItemType), NEW x
  PROVE  x \in Blobs(items) <=>
           \E i \in 1..Len(items) : x \in {items[i].key} \X (1..items[i].size)
BY DEF Blobs

LEMMA BlobsFinite ==
  ASSUME NEW items \in Seq(ItemType)
  PROVE  IsFiniteSet(Blobs(items)) /\ Bytes(items) \in Nat
<1> DEFINE blob == [i \in 1..Len(items) |-> {items[i].key} \X (1..items[i].size)]
           S == {blob[i] : i \in 1..Len(items)}
<1>1. IsFiniteSet(1..Len(items))
  BY FS_Interval
<1>2. blob \in Surjection(1..Len(items), S)
  BY DEF Surjection
<1>3. IsFiniteSet(S)
  BY <1>1, <1>2, FS_Surjection
<1>4. \A T \in S : IsFiniteSet(T)
  <2> SUFFICES ASSUME NEW i \in 1..Len(items) PROVE IsFiniteSet({items[i].key} \X (1..items[i].size))
    OBVIOUS
  <2>1. IsFiniteSet({items[i].key})
    BY FS_Singleton
  <2>2. items[i].size \in Nat
    BY ItemAt
  <2>3. IsFiniteSet(1..items[i].size)
    BY <2>2, Interval
  <2> QED
    BY <2>1, <2>3, FS_Product
<1>5. Blobs(items) = UNION S
  BY DEF Blobs
<1> HIDE DEF S
<1>6. IsFiniteSet(Blobs(items))
  BY <1>3, <1>4, <1>5, FS_UNION
<1> QED
  BY <1>6, FS_CardinalityType DEF Bytes

\* One more item for a new key.
LEMMA BytesAppended ==
  ASSUME NEW items \in Seq(ItemType), NEW item \in ItemType,
         \A i \in 1..Len(items) : items[i].key # item.key
  PROVE  Bytes(Append(items, item)) = Bytes(items) + item.size
<1> DEFINE more == Append(items, item)
           blob == {item.key} \X (1..item.size)
<1>1. /\ more \in Seq(ItemType) /\ Len(more) = Len(items) + 1
      /\ \A i \in 1..Len(items) : more[i] = items[i]
      /\ more[Len(items) + 1] = item
  OBVIOUS
<1> HIDE DEF more
<1>2. Blobs(more) = Blobs(items) \cup blob
  <2>1. ASSUME NEW x \in Blobs(more) PROVE x \in Blobs(items) \cup blob
    <3>1. PICK i \in 1..Len(more) : x \in {more[i].key} \X (1..more[i].size)
      BY <1>1, <2>1, InBlobs
    <3>2. CASE i \in 1..Len(items)
      BY <1>1, <3>1, <3>2, InBlobs
    <3>3. CASE i = Len(items) + 1
      BY <1>1, <3>1, <3>3
    <3> QED
      BY <1>1, <3>2, <3>3
  <2>2. ASSUME NEW x \in Blobs(items) PROVE x \in Blobs(more)
    <3>1. PICK i \in 1..Len(items) : x \in {items[i].key} \X (1..items[i].size)
      BY InBlobs
    <3>2. i \in 1..Len(more) /\ x \in {more[i].key} \X (1..more[i].size)
      BY <1>1, <3>1
    <3> QED
      BY <1>1, <3>2, InBlobs
  <2>3. ASSUME NEW x \in blob PROVE x \in Blobs(more)
    <3>1. Len(items) + 1 \in 1..Len(more) /\ x \in {more[Len(items) + 1].key} \X (1..more[Len(items) + 1].size)
      BY <1>1
    <3> QED
      BY <1>1, <3>1, InBlobs
  <2> QED
    BY <2>1, <2>2, <2>3
<1>3. Blobs(items) \cap blob = {}
  <2> SUFFICES ASSUME NEW x \in Blobs(items), x \in blob PROVE FALSE
    OBVIOUS
  <2>1. PICK i \in 1..Len(items) : x \in {items[i].key} \X (1..items[i].size)
    BY InBlobs
  <2>2. x[1] = items[i].key /\ x[1] = item.key
    BY <2>1
  <2> QED
    BY <2>2
<1>4. IsFiniteSet(blob) /\ Cardinality(blob) = item.size
  <2>1. item.size \in Nat
    BY SizesPositive DEF ItemType
  <2>2. IsFiniteSet({item.key}) /\ Cardinality({item.key}) = 1
    BY FS_Singleton
  <2>3. IsFiniteSet(1..item.size) /\ Cardinality(1..item.size) = item.size
    BY <2>1, Interval
  <2>4. IsFiniteSet(blob) /\ Cardinality(blob) = Cardinality({item.key}) * Cardinality(1..item.size)
    BY <2>2, <2>3, FS_Product
  <2> QED
    BY <2>1, <2>2, <2>3, <2>4
<1> HIDE DEF blob
<1>5. Cardinality(Blobs(items) \cup blob) =
        Cardinality(Blobs(items)) + Cardinality(blob) - Cardinality(Blobs(items) \cap blob)
  BY <1>4, BlobsFinite, FS_Union
<1>6. Cardinality(Blobs(items) \cap blob) = 0
  BY <1>3, FS_EmptySet
<1>7. Cardinality(Blobs(items)) \in Nat /\ item.size \in Nat
  BY BlobsFinite, SizesPositive DEF Bytes, ItemType
<1>8. Cardinality(Blobs(more)) = Cardinality(Blobs(items)) + item.size
  BY <1>2, <1>4, <1>5, <1>6, <1>7
<1> QED
  BY <1>8 DEF Bytes, more

\* What is left when the first items are taken away.
LEMMA BytesSplit ==
  ASSUME NEW items \in Seq(ItemType), Ordered(items), NEW n \in 0..Len(items)
  PROVE  LET head == SubSeq(items, 1, n)  tail == SubSeq(items, n + 1, Len(items))
         IN /\ tail \in Seq(ItemType) /\ Len(tail) = Len(items) - n
            /\ \A i \in 1..Len(tail) : i + n \in 1..Len(items) /\ tail[i] = items[i + n]
            /\ Bytes(items) - Bytes(head) = Bytes(tail)
            /\ Bytes(head) \in Nat
<1> DEFINE head == SubSeq(items, 1, n)
           tail == SubSeq(items, n + 1, Len(items))
<1>1. /\ head \in Seq(ItemType) /\ tail \in Seq(ItemType)
      /\ Len(head) = n /\ Len(tail) = Len(items) - n
  OBVIOUS
<1>2. \A i \in 1..n : head[i] = items[i]
  OBVIOUS
<1>3. \A i \in 1..(Len(items) - n) : i + n \in 1..Len(items) /\ tail[i] = items[i + n]
  OBVIOUS
<1> HIDE DEF head, tail
<1>4. Blobs(items) = Blobs(head) \cup Blobs(tail)
  <2>1. ASSUME NEW x \in Blobs(items) PROVE x \in Blobs(head) \cup Blobs(tail)
    <3>1. PICK i \in 1..Len(items) : x \in {items[i].key} \X (1..items[i].size)
      BY <2>1, InBlobs
    <3>2. CASE i <= n
      <4>1. i \in 1..Len(head) /\ x \in {head[i].key} \X (1..head[i].size)
        BY <1>1, <1>2, <3>1, <3>2
      <4> QED
        BY <1>1, <4>1, InBlobs
    <3>3. CASE i > n
      <4>1. i - n \in 1..Len(tail) /\ (i - n) + n = i
        BY <1>1, <3>3
      <4>2. tail[i - n] = items[i]
        BY <1>1, <1>3, <4>1
      <4>3. x \in {tail[i - n].key} \X (1..tail[i - n].size)
        BY <3>1, <4>2
      <4> QED
        BY <1>1, <4>1, <4>3, InBlobs
    <3> QED
      BY <3>2, <3>3
  <2>2. ASSUME NEW x \in Blobs(head) PROVE x \in Blobs(items)
    <3>1. PICK i \in 1..Len(head) : x \in {head[i].key} \X (1..head[i].size)
      BY <1>1, <2>2, InBlobs
    <3>2. i \in 1..Len(items) /\ x \in {items[i].key} \X (1..items[i].size)
      BY <1>1, <1>2, <3>1
    <3> QED
      BY <3>2, InBlobs
  <2>3. ASSUME NEW x \in Blobs(tail) PROVE x \in Blobs(items)
    <3>1. PICK i \in 1..Len(tail) : x \in {tail[i].key} \X (1..tail[i].size)
      BY <1>1, <2>3, InBlobs
    <3>2. i + n \in 1..Len(items) /\ x \in {items[i + n].key} \X (1..items[i + n].size)
      BY <1>1, <1>3, <3>1
    <3> QED
      BY <3>2, InBlobs
  <2> QED
    BY <2>1, <2>2, <2>3
<1>5. Blobs(head) \cap Blobs(tail) = {}
  <2> SUFFICES ASSUME NEW x \in Blobs(head), x \in Blobs(tail) PROVE FALSE
    OBVIOUS
  <2>1. PICK i \in 1..n : x \in {items[i].key} \X (1..items[i].size)
    BY <1>1, <1>2, InBlobs, SMTT(30)
  <2>2. PICK j \in 1..(Len(items) - n) : x \in {items[j + n].key} \X (1..items[j + n].size)
    BY <1>1, <1>3, InBlobs, ZenonT(60)
  <2>3. x[1] = items[i].key /\ x[1] = items[j + n].key
    BY <2>1, <2>2
  <2>4. i \in 1..Len(items) /\ j + n \in 1..Len(items) /\ i < j + n
    OBVIOUS
  <2> QED
    BY <2>3, <2>4 DEF Ordered
<1>6. Cardinality(Blobs(head) \cup Blobs(tail)) =
        Cardinality(Blobs(head)) + Cardinality(Blobs(tail)) - Cardinality(Blobs(head) \cap Blobs(tail))
  BY <1>1, BlobsFinite, FS_Union
<1>7. Cardinality(Blobs(head) \cap Blobs(tail)) = 0
  BY <1>5, FS_EmptySet
<1>8. Bytes(head) \in Nat /\ Bytes(tail) \in Nat
  BY <1>1, BlobsFinite
<1>9. Bytes(items) - Bytes(head) = Bytes(tail)
  BY <1>4, <1>6, <1>7, <1>8 DEF Bytes
<1>10. /\ tail \in Seq(ItemType) /\ Len(tail) = Len(items) - n
       /\ \A i \in 1..Len(tail) : i + n \in 1..Len(items) /\ tail[i] = items[i + n]
  BY <1>1, <1>3
<1> QED
  BY <1>8, <1>9, <1>10 DEF head, tail

LEMMA SmallestOf ==
  ASSUME NEW S, S \subseteq Nat, S # {}
  PROVE  Min(S) \in S /\ \A n \in S : Min(S) <= n
<1>1. PICK x \in S : \A y \in S : ~(<<y, x>> \in OpToRel(<, Nat))
  BY NatLessThanWellFounded, WFMin
<1>2. ASSUME NEW y \in S PROVE x <= y
  <2>1. x \in Nat /\ y \in Nat
    OBVIOUS
  <2>2. y < x => <<y, x>> \in OpToRel(<, Nat)
    BY <2>1 DEF OpToRel
  <2>3. ~(<<y, x>> \in OpToRel(<, Nat))
    BY <1>1, Zenon
  <2>4. ~(y < x)
    BY <2>2, <2>3, Zenon
  <2> QED
    BY <2>1, <2>4
<1> QED
  BY <1>2 DEF Min

-----------------------------------------------------------------------------
(* What _expire pops.                                                      *)

\* No record lives longer than ttl_seconds from now.  Without this a new item could
\* expire before one in front of it.
LifetimeBound == \A i \in 1..Len(records) : records[i].expiry <= now + ttl_seconds

\* The inductive invariant.
VInv == TypeOK /\ ExpiryOrder /\ BytesExact /\ LifetimeBound

LEMMA StoreTypes ==
  ASSUME VInv
  PROVE  /\ records \in Seq(ItemType) /\ Len(records) \in Nat /\ DOMAIN records = 1..Len(records)
         /\ Ordered(records) /\ now \in Nat
<1>1. records \in Seq(ItemType) /\ now \in Nat
  BY MemoryVaultAssumption DEF VInv, TypeOK, ItemType
<1>2. Len(records) \in Nat /\ DOMAIN records = 1..Len(records)
  BY <1>1
<1> QED
  BY <1>1, <1>2 DEF VInv, ExpiryOrder, Ordered

\* Exactly the items that are past their time are popped, because the items are in the
\* order of their expiry.
LEMMA ExpiredExact ==
  ASSUME VInv
  PROVE  /\ Expired \in 0..Len(records)
         /\ \A i \in 1..Len(records) : records[i].expiry > now <=> i > Expired
<1> USE StoreTypes
<1>0. \A i \in 1..Len(records) : records[i].expiry \in Nat
  BY ItemAt
<1>1. CASE Fresh(records) = {}
  BY <1>1 DEF Expired, Fresh
<1>2. CASE Fresh(records) # {}
  <2>1. Fresh(records) \subseteq 1..Len(records)
    BY DEF Fresh
  <2>2. Min(Fresh(records)) \in Fresh(records) /\ \A n \in Fresh(records) : Min(Fresh(records)) <= n
    BY <1>2, <2>1, SmallestOf
  <2> DEFINE first == Min(Fresh(records))
  <2>3. first \in 1..Len(records) /\ records[first].expiry > now /\ Expired = first - 1
    BY <1>2, <2>1, <2>2 DEF Expired, Fresh
  <2>4. \A i \in 1..Len(records) : records[i].expiry > now => first <= i
    BY <2>2 DEF Fresh
  <2> HIDE DEF first
  <2>5. \A i \in 1..Len(records) : i >= first => records[i].expiry > now
    <3> SUFFICES ASSUME NEW i \in 1..Len(records), i >= first PROVE records[i].expiry > now
      OBVIOUS
    <3>1. i = first \/ records[first].expiry <= records[i].expiry
      BY <2>3 DEF Ordered
    <3> QED
      BY <1>0, <2>3, <3>1
  <2> QED
    BY <2>3, <2>4, <2>5
<1> QED
  BY <1>1, <1>2

\* The items that stay.
LEMMA KeptExact ==
  ASSUME VInv
  PROVE  /\ Kept \in Seq(ItemType) /\ Len(Kept) \in Nat /\ Len(Kept) <= max_records
         /\ DOMAIN Kept = 1..Len(Kept)
         /\ Ordered(Kept) /\ \A i \in 1..Len(Kept) : Kept[i].expiry > now
         /\ Swept = Bytes(Kept) /\ Swept \in Nat /\ Swept <= max_store_bytes
         /\ \A i \in 1..Len(Kept) : \E j \in 1..Len(records) : Kept[i] = records[j]
         /\ \A j \in 1..Len(records) : records[j].expiry > now => \E i \in 1..Len(Kept) : Kept[i] = records[j]
<1> USE StoreTypes
<1>1. /\ Expired \in 0..Len(records)
      /\ \A i \in 1..Len(records) : records[i].expiry > now <=> i > Expired
  BY ExpiredExact
<1>2. /\ Kept \in Seq(ItemType) /\ Len(Kept) = Len(records) - Expired
      /\ \A i \in 1..Len(Kept) : i + Expired \in 1..Len(records) /\ Kept[i] = records[i + Expired]
      /\ Bytes(records) - Bytes(SubSeq(records, 1, Expired)) = Bytes(Kept)
      /\ Bytes(SubSeq(records, 1, Expired)) \in Nat
  BY <1>1, BytesSplit DEF Kept
<1>3. /\ total_bytes = Bytes(records) /\ total_bytes <= max_store_bytes /\ Len(records) <= max_records
      /\ total_bytes \in Nat /\ max_records \in Nat /\ max_store_bytes \in Nat
  BY MemoryVaultAssumption DEF VInv, BytesExact, TypeOK
<1>4. Len(Kept) \in Nat /\ Len(Kept) <= max_records /\ DOMAIN Kept = 1..Len(Kept)
  BY <1>1, <1>2, <1>3
<1>5. Swept = Bytes(Kept) /\ Bytes(Kept) \in Nat /\ Bytes(Kept) <= max_store_bytes
  BY <1>2, <1>3, BlobsFinite DEF Swept
<1>6. \A i \in 1..Len(Kept) : Kept[i].expiry > now
  <2> SUFFICES ASSUME NEW i \in 1..Len(Kept) PROVE Kept[i].expiry > now
    OBVIOUS
  <2>1. i + Expired \in 1..Len(records) /\ i + Expired > Expired /\ Kept[i] = records[i + Expired]
    BY <1>1, <1>2
  <2> QED
    BY <1>1, <2>1
<1>7. Ordered(Kept)
  <2> SUFFICES ASSUME NEW i \in 1..Len(Kept), NEW j \in 1..Len(Kept), i < j
               PROVE  Kept[i].expiry <= Kept[j].expiry /\ Kept[i].key # Kept[j].key
    BY DEF Ordered
  <2>1. /\ i + Expired \in 1..Len(records) /\ j + Expired \in 1..Len(records)
        /\ i + Expired < j + Expired
        /\ Kept[i] = records[i + Expired] /\ Kept[j] = records[j + Expired]
    BY <1>1, <1>2
  <2> QED
    BY <2>1 DEF Ordered
<1>8. ASSUME NEW j \in 1..Len(records), records[j].expiry > now
      PROVE  \E i \in 1..Len(Kept) : Kept[i] = records[j]
  <2>1. j > Expired
    BY <1>1, <1>8
  <2>2. j - Expired \in 1..Len(Kept) /\ (j - Expired) + Expired = j
    BY <1>1, <1>2, <2>1
  <2>3. Kept[j - Expired] = records[j]
    BY <1>2, <2>2
  <2> QED
    BY <2>2, <2>3
<1> QED
  BY <1>2, <1>4, <1>5, <1>6, <1>7, <1>8

-----------------------------------------------------------------------------
(* The record that lives under a key.                                      *)

Seen(item) == [value |-> item.value, size |-> item.size, expiry |-> item.expiry]

\* LiveRecord, of any items at any time.
LiveIn(items, t, k) ==
  IF \E i \in {j \in DOMAIN items : items[j].expiry > t} : items[i].key = k
  THEN Seen(items[CHOOSE i \in {j \in DOMAIN items : items[j].expiry > t} : items[i].key = k])
  ELSE None

LEMMA LiveRecordIs ==
  /\ \A k : LiveRecord(k) = LiveIn(records, now, k)
  /\ \A k : LiveRecord(k)' = LiveIn(records', now', k)
BY DEF LiveRecord, LiveIn, Fresh, Seen

LEMMA SeenIsSomething == \A item \in ItemType : Seen(item) # None
<1>1. \A item \in ItemType : Seen(item) \in [value : Values, size : Sizes, expiry : Nat]
  BY DEF Seen, ItemType
<1> QED
  BY <1>1, MemoryVaultAssumption

LEMMA LiveOne ==
  ASSUME NEW items \in Seq(ItemType), Ordered(items), NEW t, NEW i \in 1..Len(items), items[i].expiry > t
  PROVE  LiveIn(items, t, items[i].key) = Seen(items[i])
<1> DEFINE live == {j \in DOMAIN items : items[j].expiry > t}
<1>1. DOMAIN items = 1..Len(items) /\ Len(items) \in Nat
  OBVIOUS
<1>2. i \in live
  BY <1>1
<1>3. \A j \in live : items[j].key = items[i].key => j = i
  BY <1>1, OneForAKey
<1> HIDE DEF live
<1>4. (CHOOSE j \in live : items[j].key = items[i].key) = i
  BY <1>2, <1>3
<1> QED
  BY <1>2, <1>4 DEF LiveIn, live

LEMMA LiveNone ==
  ASSUME NEW items \in Seq(ItemType), NEW t, NEW k,
         \A i \in 1..Len(items) : items[i].key = k => ~(items[i].expiry > t)
  PROVE  LiveIn(items, t, k) = None
BY DEF LiveIn

\* Whatever lives is one of the items.
LEMMA LiveSome ==
  ASSUME NEW items \in Seq(ItemType), Ordered(items), NEW t, NEW k
  PROVE  \/ LiveIn(items, t, k) = None /\ \A i \in 1..Len(items) : items[i].key = k => ~(items[i].expiry > t)
         \/ \E i \in 1..Len(items) : /\ items[i].key = k /\ items[i].expiry > t
                                     /\ LiveIn(items, t, k) = Seen(items[i])
<1>1. CASE \E i \in 1..Len(items) : items[i].key = k /\ items[i].expiry > t
  BY <1>1, LiveOne
<1>2. CASE ~\E i \in 1..Len(items) : items[i].key = k /\ items[i].expiry > t
  BY <1>2, LiveNone
<1> QED
  BY <1>1, <1>2

\* As time passes, what lives goes at its expiry and nothing comes.
LEMMA Aging ==
  ASSUME NEW items \in Seq(ItemType), Ordered(items), NEW t \in Nat, NEW later \in Nat, t <= later, NEW k
  PROVE  LiveIn(items, later, k) =
           IF LiveIn(items, t, k) # None /\ LiveIn(items, t, k).expiry > later
           THEN LiveIn(items, t, k) ELSE None
<1>1. CASE LiveIn(items, t, k) = None /\ \A i \in 1..Len(items) : items[i].key = k => ~(items[i].expiry > t)
  <2>1. \A i \in 1..Len(items) : items[i].key = k => ~(items[i].expiry > later)
    BY <1>1, ItemAt
  <2> QED
    BY <1>1, <2>1, LiveNone
<1>2. CASE \E i \in 1..Len(items) : /\ items[i].key = k /\ items[i].expiry > t
                                    /\ LiveIn(items, t, k) = Seen(items[i])
  <2>1. PICK i \in 1..Len(items) : /\ items[i].key = k /\ items[i].expiry > t
                                   /\ LiveIn(items, t, k) = Seen(items[i])
    BY <1>2
  <2>2. Seen(items[i]) # None /\ Seen(items[i]).expiry = items[i].expiry
    BY ItemAt, SeenIsSomething DEF Seen
  <2>3. CASE items[i].expiry > later
    BY <2>1, <2>2, <2>3, LiveOne
  <2>4. CASE ~(items[i].expiry > later)
    <3>1. \A j \in 1..Len(items) : items[j].key = k => j = i
      BY <2>1, OneForAKey
    <3>2. LiveIn(items, later, k) = None
      BY <2>4, <3>1, LiveNone
    <3> QED
      BY <2>1, <2>2, <2>4, <3>2
  <2> QED
    BY <2>3, <2>4
<1> QED
  BY <1>1, <1>2, LiveSome

\* _expire changes nothing that can be seen.
LEMMA SweepUnseen ==
  ASSUME VInv, NEW k
  PROVE  LiveIn(Kept, now, k) = LiveIn(records, now, k)
<1>1. records \in Seq(ItemType) /\ Ordered(records)
  BY StoreTypes
<1>2. \/ LiveIn(records, now, k) = None
         /\ \A i \in 1..Len(records) : records[i].key = k => ~(records[i].expiry > now)
      \/ \E i \in 1..Len(records) : /\ records[i].key = k /\ records[i].expiry > now
                                    /\ LiveIn(records, now, k) = Seen(records[i])
  BY <1>1, LiveSome
<1> USE StoreTypes, KeptExact
<1>3. CASE LiveIn(records, now, k) = None
           /\ \A i \in 1..Len(records) : records[i].key = k => ~(records[i].expiry > now)
  <2>1. \A i \in 1..Len(Kept) : Kept[i].key = k => ~(Kept[i].expiry > now)
    <3> SUFFICES ASSUME NEW i \in 1..Len(Kept), Kept[i].key = k PROVE ~(Kept[i].expiry > now)
      OBVIOUS
    <3>1. PICK j \in 1..Len(records) : Kept[i] = records[j]
      BY KeptExact
    <3> QED
      BY <1>3, <3>1
  <2> QED
    BY <1>3, <2>1, LiveNone
<1>4. CASE \E i \in 1..Len(records) : /\ records[i].key = k /\ records[i].expiry > now
                                      /\ LiveIn(records, now, k) = Seen(records[i])
  <2>1. PICK j \in 1..Len(records) : /\ records[j].key = k /\ records[j].expiry > now
                                     /\ LiveIn(records, now, k) = Seen(records[j])
    BY <1>4
  <2>2. PICK i \in 1..Len(Kept) : Kept[i] = records[j]
    BY <2>1, KeptExact
  <2>3. LiveIn(Kept, now, Kept[i].key) = Seen(Kept[i])
    BY <2>1, <2>2, LiveOne
  <2> QED
    BY <2>1, <2>2, <2>3
<1> QED
  BY <1>2, <1>3, <1>4

\* A key is held after _expire exactly if a record lives under it.
LEMMA HoldsTheLiving ==
  ASSUME VInv, NEW k
  PROVE  /\ Holds(k) <=> LiveRecord(k) # None
         /\ Holds(k) => /\ Item(k) \in ItemType /\ LiveRecord(k) = Seen(Item(k))
                        /\ Item(k).key = k
<1> USE StoreTypes, KeptExact
<1>1. LiveRecord(k) = LiveIn(Kept, now, k)
  BY LiveRecordIs, SweepUnseen
<1>2. CASE Holds(k)
  <2>1. PICK i \in 1..Len(Kept) : Kept[i].key = k
    BY <1>2 DEF Holds
  <2>2. (CHOOSE j \in DOMAIN Kept : Kept[j].key = k) = i
    <3>1. \A j \in DOMAIN Kept : Kept[j].key = k => j = i
      BY <2>1, OneForAKey
    <3> QED
      BY <2>1, <3>1
  <2>3. Item(k) = Kept[i] /\ Kept[i] \in ItemType
    BY <2>2, ItemAt DEF Item
  <2>4. LiveIn(Kept, now, Kept[i].key) = Seen(Kept[i])
    BY LiveOne
  <2> QED
    BY <1>1, <1>2, <2>1, <2>3, <2>4, SeenIsSomething
<1>3. CASE ~Holds(k)
  <2>1. \A i \in 1..Len(Kept) : Kept[i].key = k => ~(Kept[i].expiry > now)
    BY <1>3 DEF Holds
  <2>2. LiveIn(Kept, now, k) = None
    BY <2>1, LiveNone, SMTT(30)
  <2> QED
    BY <1>1, <1>3, <2>2
<1> QED
  BY <1>2, <1>3

-----------------------------------------------------------------------------
(* The limits, seen from outside.                                          *)

\* The abstract store counts with the same operator.
LEMMA SameCount == \A S : Abstract!Cardinality(S) = Cardinality(S)
BY DEF Abstract!Cardinality, Cardinality

\* What the abstract store counts: the keys and the bytes of what lives are those of
\* the items that stay.
LEMMA CountsAgree ==
  ASSUME VInv
  PROVE  /\ Cardinality(Abstract!Living) = Len(Kept)
         /\ Cardinality(Abstract!Content) = Swept
<1> DEFINE key == [i \in 1..Len(Kept) |-> Kept[i].key]
<1>1. /\ Kept \in Seq(ItemType) /\ Ordered(Kept) /\ Len(Kept) \in Nat /\ DOMAIN Kept = 1..Len(Kept)
      /\ Swept = Bytes(Kept)
  BY KeptExact
<1>2. \A k \in Keys : k \in Abstract!Living <=> Holds(k)
  BY HoldsTheLiving DEF Abstract!Living
<1>3. Abstract!Living \subseteq Keys
  BY DEF Abstract!Living
<1>4. \A i \in 1..Len(Kept) : Kept[i].key \in Abstract!Living
  <2> SUFFICES ASSUME NEW i \in 1..Len(Kept) PROVE Kept[i].key \in Abstract!Living
    OBVIOUS
  <2>1. Kept[i].key \in Keys /\ Holds(Kept[i].key)
    BY <1>1, ItemAt DEF Holds
  <2> QED
    BY <1>2, <2>1
<1>5. \A k \in Abstract!Living : \E i \in 1..Len(Kept) : Kept[i].key = k
  BY <1>1, <1>2, <1>3 DEF Holds
<1>6. Cardinality(Abstract!Living) = Len(Kept)
  <2>1. key \in Surjection(1..Len(Kept), Abstract!Living)
    BY <1>4, <1>5 DEF Surjection
  <2>2. key \in Injection(1..Len(Kept), Abstract!Living)
    <3>1. \A i, j \in 1..Len(Kept) : Kept[i].key = Kept[j].key => i = j
      BY <1>1, OneForAKey
    <3>2. key \in [1..Len(Kept) -> Abstract!Living]
      BY <1>4
    <3>3. \A i, j \in 1..Len(Kept) : key[i] = key[j] => i = j
      BY <3>1
    <3> HIDE DEF key
    <3> QED
      BY <3>2, <3>3 DEF Injection, IsInjective
  <2>3. ExistsBijection(1..Len(Kept), Abstract!Living)
    BY <2>1, <2>2 DEF ExistsBijection, Bijection
  <2> QED
    BY <1>1, <2>3, Interval, FS_Bijection
<1>7. \A i \in 1..Len(Kept) : LiveRecord(Kept[i].key).size = Kept[i].size
  <2> SUFFICES ASSUME NEW i \in 1..Len(Kept) PROVE LiveRecord(Kept[i].key).size = Kept[i].size
    OBVIOUS
  <2>1. Kept[i].expiry > now
    BY KeptExact
  <2>2. LiveIn(Kept, now, Kept[i].key) = Seen(Kept[i])
    BY <1>1, <2>1, LiveOne
  <2>3. LiveRecord(Kept[i].key) = Seen(Kept[i])
    BY <2>2, LiveRecordIs, SweepUnseen
  <2> QED
    BY <2>3 DEF Seen
<1>8. Abstract!Content = Blobs(Kept)
  <2>1. \A k \in Keys : [q \in Keys |-> LiveRecord(q)][k] = LiveRecord(k)
    OBVIOUS
  <2>2. ASSUME NEW x \in Abstract!Content PROVE x \in Blobs(Kept)
    <3>1. PICK k \in Abstract!Living : x \in {k} \X (1..LiveRecord(k).size)
      BY <1>3, <2>1, <2>2 DEF Abstract!Content
    <3>2. PICK i \in 1..Len(Kept) : Kept[i].key = k
      BY <1>5
    <3>3. x \in {Kept[i].key} \X (1..Kept[i].size)
      BY <1>7, <3>1, <3>2
    <3> QED
      BY <1>1, <3>3, InBlobs
  <2>3. ASSUME NEW x \in Blobs(Kept) PROVE x \in Abstract!Content
    <3>1. PICK i \in 1..Len(Kept) : x \in {Kept[i].key} \X (1..Kept[i].size)
      BY <1>1, <2>3, InBlobs
    <3>2. x \in {Kept[i].key} \X (1..LiveRecord(Kept[i].key).size) /\ Kept[i].key \in Abstract!Living
      BY <1>4, <1>7, <3>1
    <3> QED
      BY <1>3, <2>1, <3>2 DEF Abstract!Content
  <2> QED
    BY <2>2, <2>3
<1> QED
  BY <1>1, <1>6, <1>8 DEF Bytes

-----------------------------------------------------------------------------
(* The steps.                                                              *)

LEMMA VInitOK == Init => VInv /\ Abstract!Init
<1> SUFFICES ASSUME Init PROVE VInv /\ Abstract!Init
  OBVIOUS
<1>1. records = <<>> /\ Len(records) = 0 /\ now = 0 /\ total_bytes = 0 /\ reply = None
  BY DEF Init
<1>2. Blobs(<<>>) = {}
  BY DEF Blobs
<1>3. Bytes(records) = 0
  BY <1>1, <1>2, FS_EmptySet DEF Bytes
<1>4. TypeOK
  BY <1>1, MemoryVaultAssumption DEF TypeOK
<1>5. ExpiryOrder
  BY <1>1 DEF ExpiryOrder
<1>6. BytesExact
  BY <1>1, <1>3, MemoryVaultAssumption DEF BytesExact
<1>7. \A k : LiveRecord(k) = None
  BY <1>1 DEF LiveRecord, Fresh
<1>8. Abstract!Init
  BY <1>1, <1>7 DEF Abstract!Init
<1> QED
  BY <1>1, <1>4, <1>5, <1>6, <1>8 DEF VInv, LifetimeBound

LEMMA TickOK ==
  ASSUME VInv, Tick
  PROVE  VInv' /\ Abstract!Tick
<1> USE StoreTypes
<1>1. now < MaxTime /\ now' = now + 1 /\ UNCHANGED <<records, total_bytes, reply>>
  BY DEF Tick
<1>2. VInv'
  <2>1. TypeOK' /\ ExpiryOrder' /\ BytesExact'
    BY <1>1, MemoryVaultAssumption DEF VInv, TypeOK, ExpiryOrder, BytesExact, Bytes, Blobs
  <2>2. ttl_seconds \in Nat /\ \A i \in 1..Len(records) : records[i].expiry \in Nat
    BY ItemAt, MemoryVaultAssumption
  <2>3. LifetimeBound'
    BY <1>1, <2>2 DEF VInv, LifetimeBound
  <2> QED
    BY <2>1, <2>3 DEF VInv
<1>3. \A k \in Keys : LiveRecord(k)' = IF LiveRecord(k) # None /\ LiveRecord(k).expiry > now + 1
                                       THEN LiveRecord(k) ELSE None
  <2> SUFFICES ASSUME NEW k \in Keys
               PROVE  LiveRecord(k)' = IF LiveRecord(k) # None /\ LiveRecord(k).expiry > now + 1
                                       THEN LiveRecord(k) ELSE None
    OBVIOUS
  <2>1. LiveIn(records, now + 1, k) =
          IF LiveIn(records, now, k) # None /\ LiveIn(records, now, k).expiry > now + 1
          THEN LiveIn(records, now, k) ELSE None
    BY Aging
  <2> QED
    BY <1>1, <2>1, LiveRecordIs
<1> QED
  BY <1>1, <1>2, <1>3 DEF Abstract!Tick, Abstract!At, Abstract!Living

\* A call that only drops what is past its time.
LEMMA SweepOK ==
  ASSUME VInv, records' = Kept, total_bytes' = Swept, UNCHANGED now,
         reply' \in {None} \cup [op : {"get", "put", "full"}, key : Keys, value : Values \cup {None}]
  PROVE  /\ VInv'
         /\ [k \in Keys |-> LiveRecord(k)]' = [k \in Keys |-> LiveRecord(k)]
<1>1. /\ Kept \in Seq(ItemType) /\ Len(Kept) <= max_records /\ Ordered(Kept)
      /\ DOMAIN Kept = 1..Len(Kept)
      /\ Swept = Bytes(Kept) /\ Swept \in Nat /\ Swept <= max_store_bytes
  BY KeptExact
<1>2. TypeOK'
  BY <1>1, MemoryVaultAssumption DEF VInv, TypeOK, ItemType
<1>3. ExpiryOrder'
  BY <1>1 DEF ExpiryOrder, Ordered
<1>4. BytesExact'
  BY <1>1 DEF BytesExact, Bytes, Blobs
<1>5. \A k : LiveRecord(k)' = LiveRecord(k)
  BY LiveRecordIs, SweepUnseen
<1>6. LifetimeBound'
  <2>1. \A i \in 1..Len(Kept) : \E j \in 1..Len(records) : Kept[i] = records[j]
    BY KeptExact
  <2> QED
    BY <2>1 DEF VInv, LifetimeBound
<1> QED
  BY <1>2, <1>3, <1>4, <1>5, <1>6 DEF VInv

LEMMA GetOK ==
  ASSUME VInv, NEW k \in Keys, get(k)
  PROVE  VInv' /\ Abstract!Get(k)
<1>1. /\ records' = Kept /\ total_bytes' = Swept /\ UNCHANGED now
      /\ reply' = [op |-> "get", key |-> k, value |-> IF Holds(k) THEN Item(k).value ELSE None]
  BY DEF get, Answer
<1>2. /\ Holds(k) <=> LiveRecord(k) # None
      /\ Holds(k) => Item(k).value \in Values /\ LiveRecord(k).value = Item(k).value
  BY HoldsTheLiving DEF Seen, ItemType
<1>3. reply' \in {None} \cup [op : {"get", "put", "full"}, key : Keys, value : Values \cup {None}]
  BY <1>1, <1>2
<1>4. VInv' /\ [q \in Keys |-> LiveRecord(q)]' = [q \in Keys |-> LiveRecord(q)]
  BY <1>1, <1>3, SweepOK
<1> QED
  BY <1>1, <1>2, <1>4 DEF Abstract!Get, Abstract!Answer, Abstract!Living

LEMMA PutOK ==
  ASSUME VInv, NEW k \in Keys, NEW value \in Values, NEW size \in Sizes, NEW later \in {now, now + 1},
         later <= MaxTime, put_if_absent(k, value, size, later)
  PROVE  VInv' /\ Abstract!Put(k, value, size, later)
<1>1. k \in Abstract!Living <=> Holds(k)
  BY HoldsTheLiving DEF Abstract!Living
<1>2. Abstract!Fits(size) <=> Len(Kept) < max_records /\ Swept + size <= max_store_bytes
  BY CountsAgree, SameCount DEF Abstract!Fits
<1>3. /\ now \in Nat /\ later \in Nat /\ now <= later /\ MaxTime \in Nat /\ ttl_seconds \in Nat
      /\ ttl_seconds > 0 /\ size \in Nat /\ max_records \in Nat /\ max_store_bytes \in Nat
  BY StoreTypes, SizesPositive, MemoryVaultAssumption
<1>4. /\ Kept \in Seq(ItemType) /\ Len(Kept) \in Nat /\ Ordered(Kept) /\ DOMAIN Kept = 1..Len(Kept)
      /\ Swept = Bytes(Kept) /\ Swept \in Nat
  BY KeptExact
<1>5. CASE /\ Holds(k)
           /\ records' = Kept /\ total_bytes' = Swept
           /\ Answer("put", k, Item(k).value)
           /\ UNCHANGED now
  <2>1. Item(k).value \in Values /\ LiveRecord(k).value = Item(k).value
    BY <1>5, HoldsTheLiving DEF Seen, ItemType
  <2>2. reply' = [op |-> "put", key |-> k, value |-> Item(k).value]
    BY <1>5 DEF Answer
  <2>3. VInv' /\ [q \in Keys |-> LiveRecord(q)]' = [q \in Keys |-> LiveRecord(q)]
    BY <1>5, <2>1, <2>2, SweepOK
  <2> QED
    BY <1>1, <1>5, <2>1, <2>2, <2>3 DEF Abstract!Put, Abstract!Answer
<1>6. CASE /\ ~Holds(k)
           /\ Len(Kept) >= max_records \/ Swept + size > max_store_bytes
           /\ records' = Kept /\ total_bytes' = Swept
           /\ Answer("full", k, None)
           /\ UNCHANGED now
  <2>1. reply' = [op |-> "full", key |-> k, value |-> None]
    BY <1>6 DEF Answer
  <2>2. VInv' /\ [q \in Keys |-> LiveRecord(q)]' = [q \in Keys |-> LiveRecord(q)]
    BY <1>6, <2>1, SweepOK
  <2>3. ~Abstract!Fits(size)
    BY <1>2, <1>3, <1>4, <1>6
  <2> QED
    BY <1>1, <1>6, <2>1, <2>2, <2>3 DEF Abstract!Put, Abstract!Answer
<1>7. CASE /\ ~Holds(k)
           /\ Len(Kept) < max_records /\ Swept + size <= max_store_bytes
           /\ now' = later
           /\ records' = Append(Kept, [key |-> k, value |-> value, size |-> size, expiry |-> later + ttl_seconds])
           /\ total_bytes' = Swept + size
           /\ Answer("put", k, value)
  <2> DEFINE item == [key |-> k, value |-> value, size |-> size, expiry |-> later + ttl_seconds]
             more == Append(Kept, item)
  <2>1. item \in ItemType /\ item.key = k /\ item.expiry = later + ttl_seconds /\ item.size = size
    BY <1>3 DEF ItemType
  <2>2. Seen(item) = [value |-> value, size |-> size, expiry |-> later + ttl_seconds]
    BY DEF Seen
  <2>3. records' = more
    BY <1>7
  <2> HIDE DEF item
  <2>4. /\ more \in Seq(ItemType) /\ Len(more) = Len(Kept) + 1 /\ DOMAIN more = 1..Len(more)
        /\ \A i \in 1..Len(Kept) : more[i] = Kept[i]
        /\ more[Len(Kept) + 1] = item
    BY <1>4, <2>1
  <2>5. \A i \in 1..Len(Kept) : Kept[i].key # k
    BY <1>4, <1>7 DEF Holds
  <2>6. Bytes(more) = Swept + size
    BY <1>4, <2>1, <2>5, BytesAppended
  <2> HIDE DEF more
  <2>7. \A i \in 1..Len(Kept) : Kept[i].expiry \in Nat /\ Kept[i].expiry <= later + ttl_seconds
    <3> SUFFICES ASSUME NEW i \in 1..Len(Kept)
                 PROVE  Kept[i].expiry \in Nat /\ Kept[i].expiry <= later + ttl_seconds
      OBVIOUS
    <3>1. PICK j \in 1..Len(records) : Kept[i] = records[j]
      BY KeptExact
    <3>2. records[j].expiry <= now + ttl_seconds /\ records[j].expiry \in Nat
      BY StoreTypes, ItemAt DEF VInv, LifetimeBound
    <3> QED
      BY <1>3, <3>1, <3>2
  <2>8. Ordered(more)
    <3> SUFFICES ASSUME NEW i \in 1..Len(more), NEW j \in 1..Len(more), i < j
                 PROVE  more[i].expiry <= more[j].expiry /\ more[i].key # more[j].key
      BY DEF Ordered
    <3>1. i \in 1..Len(Kept) /\ more[i] = Kept[i]
      BY <1>4, <2>4
    <3>2. CASE j \in 1..Len(Kept)
      BY <1>4, <2>4, <3>1, <3>2 DEF Ordered
    <3>3. CASE j = Len(Kept) + 1
      BY <2>1, <2>4, <2>5, <2>7, <3>1, <3>3
    <3> QED
      BY <1>4, <2>4, <3>2, <3>3
  <2>9. VInv'
    <3>1. TypeOK'
      BY <1>3, <1>4, <1>7, <2>3, <2>4, SMTT(30) DEF VInv, TypeOK, ItemType, Answer
    <3>2. ExpiryOrder'
      BY <2>3, <2>4, <2>8 DEF ExpiryOrder, Ordered
    <3>3. BytesExact'
      <4>1. total_bytes' = Bytes(more) /\ Bytes(more) <= max_store_bytes /\ Len(more) <= max_records
        BY <1>3, <1>4, <1>7, <2>4, <2>6
      <4> QED
        BY <2>3, <4>1 DEF BytesExact, Bytes, Blobs
    <3>4. LifetimeBound'
      <4> SUFFICES ASSUME NEW i \in 1..Len(more) PROVE more[i].expiry <= later + ttl_seconds
        BY <1>7, <2>3 DEF LifetimeBound
      <4>1. CASE i \in 1..Len(Kept)
        BY <2>4, <2>7, <4>1
      <4>2. CASE i = Len(Kept) + 1
        BY <1>3, <2>1, <2>4, <4>2
      <4> QED
        BY <1>4, <2>4, <4>1, <4>2
    <3> QED
      BY <3>1, <3>2, <3>3, <3>4 DEF VInv
  <2>10. LiveIn(more, later, k) = Seen(item)
    <3>1. Len(more) \in 1..Len(more) /\ more[Len(more)] = item /\ item.expiry > later
      BY <1>3, <1>4, <2>1, <2>4
    <3>2. LiveIn(more, later, more[Len(more)].key) = Seen(more[Len(more)])
      BY <2>4, <2>8, <3>1, LiveOne
    <3> QED
      BY <2>1, <3>1, <3>2
  <2>11. ASSUME NEW q \in Keys \ {k} PROVE LiveIn(more, later, q) = LiveIn(Kept, later, q)
    <3>1. \/ LiveIn(Kept, later, q) = None /\ \A i \in 1..Len(Kept) : Kept[i].key = q => ~(Kept[i].expiry > later)
          \/ \E i \in 1..Len(Kept) : /\ Kept[i].key = q /\ Kept[i].expiry > later
                                     /\ LiveIn(Kept, later, q) = Seen(Kept[i])
      BY <1>4, LiveSome
    <3>2. CASE LiveIn(Kept, later, q) = None /\ \A i \in 1..Len(Kept) : Kept[i].key = q => ~(Kept[i].expiry > later)
      <4>1. \A i \in 1..Len(more) : more[i].key = q => ~(more[i].expiry > later)
        BY <1>4, <2>1, <2>4, <2>11, <3>2
      <4> QED
        BY <2>4, <3>2, <4>1, LiveNone
    <3>3. CASE \E i \in 1..Len(Kept) : /\ Kept[i].key = q /\ Kept[i].expiry > later
                                       /\ LiveIn(Kept, later, q) = Seen(Kept[i])
      <4>1. PICK i \in 1..Len(Kept) : /\ Kept[i].key = q /\ Kept[i].expiry > later
                                      /\ LiveIn(Kept, later, q) = Seen(Kept[i])
        BY <3>3
      <4>2. i \in 1..Len(more) /\ more[i] = Kept[i]
        BY <1>4, <2>4
      <4>3. LiveIn(more, later, more[i].key) = Seen(more[i])
        BY <2>4, <2>8, <4>1, <4>2, LiveOne
      <4> QED
        BY <4>1, <4>2, <4>3
    <3> QED
      BY <3>1, <3>2, <3>3
  <2>12. ASSUME NEW q \in Keys \ {k}
         PROVE  LiveIn(more, later, q) = IF LiveRecord(q) # None /\ LiveRecord(q).expiry > later
                                         THEN LiveRecord(q) ELSE None
    <3>1. LiveIn(Kept, later, q) =
            IF LiveIn(Kept, now, q) # None /\ LiveIn(Kept, now, q).expiry > later
            THEN LiveIn(Kept, now, q) ELSE None
      BY <1>3, <1>4, Aging
    <3>2. LiveIn(Kept, now, q) = LiveRecord(q)
      BY SweepUnseen, LiveRecordIs
    <3> QED
      BY <2>11, <3>1, <3>2
  <2>13. [q \in Keys |-> LiveRecord(q)]' = [Abstract!At(later) EXCEPT ![k] = Seen(item)]
    <3>1. \A q \in Keys : LiveRecord(q)' = LiveIn(more, later, q)
      BY <1>7, <2>3, LiveRecordIs
    <3>2. \A q \in Keys : Abstract!At(later)[q] = IF LiveRecord(q) # None /\ LiveRecord(q).expiry > later
                                                  THEN LiveRecord(q) ELSE None
      BY DEF Abstract!At, Abstract!Living
    <3>3. DOMAIN Abstract!At(later) = Keys
      BY DEF Abstract!At
    <3>4. Abstract!At(later) = [q \in Keys |-> Abstract!At(later)[q]]
      BY DEF Abstract!At
    <3> QED
      BY <2>10, <2>12, <3>1, <3>2, <3>3, <3>4
  <2>14. Abstract!Fits(size) /\ k \notin Abstract!Living
    BY <1>1, <1>2, <1>7
  <2> QED
    BY <1>7, <2>2, <2>9, <2>13, <2>14 DEF Abstract!Put, Abstract!Answer, Answer
<1> QED
  BY <1>5, <1>6, <1>7 DEF put_if_absent

LEMMA VNextOK == VInv /\ [Next]_vars => VInv' /\ [Abstract!Next]_(Abstract!vars)
<1> SUFFICES ASSUME VInv, [Next]_vars PROVE VInv' /\ [Abstract!Next]_(Abstract!vars)
  OBVIOUS
<1>1. CASE UNCHANGED vars
  <2>1. UNCHANGED <<now, records, total_bytes, reply>>
    BY <1>1 DEF vars
  <2>2. VInv'
    BY <2>1 DEF VInv, TypeOK, ExpiryOrder, BytesExact, Bytes, Blobs, LifetimeBound
  <2>3. \A k : LiveRecord(k)' = LiveRecord(k)
    BY <2>1, LiveRecordIs
  <2> QED
    BY <2>1, <2>2, <2>3 DEF Abstract!vars
<1>2. CASE Tick
  BY <1>2, TickOK DEF Abstract!Next
<1>3. CASE \E k \in Keys : get(k)
  BY <1>3, GetOK DEF Abstract!Next
<1>4. CASE \E k \in Keys, value \in Values, size \in Sizes, later \in {now, now + 1} :
             later <= MaxTime /\ put_if_absent(k, value, size, later)
  BY <1>4, PutOK DEF Abstract!Next
<1> QED
  BY <1>1, <1>2, <1>3, <1>4 DEF Next

-----------------------------------------------------------------------------
(* What the memory backend promises.                                       *)

\* _expire, put_if_absent: the items stay in the order of their expiry with one for a
\* key, total_bytes is exact and both limits hold, over any sequence of calls.
THEOREM StoreKeepsSafe == Spec => []StoreSafe
<1>1. Init => VInv
  BY VInitOK
<1>2. VInv /\ [Next]_vars => VInv'
  BY VNextOK
<1>3. VInv => StoreSafe
  BY DEF VInv, StoreSafe
<1> QED
  BY <1>1, <1>2, <1>3, PTL DEF Spec

\* get, put_if_absent: the ordered dictionary with its lazy expiry implements the
\* unordered TtlStore: no record is served after its time or lost before it, the first
\* writer wins, and a record is refused only when the ones that live fill the store.
THEOREM Implementation == Spec => ImplementsTtlStore
<1>1. Init => VInv /\ Abstract!Init
  BY VInitOK
<1>2. VInv /\ [Next]_vars => VInv' /\ [Abstract!Next]_(Abstract!vars)
  BY VNextOK
<1> QED
  BY <1>1, <1>2, PTL DEF Spec, ImplementsTtlStore, Abstract!Spec
=============================================================================
