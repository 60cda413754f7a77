----------------------------- MODULE MemoryVault -----------------------------
(***************************************************************************)
(* The memory backend of seif/vault.py: an OrderedDict of sealed records   *)
(* in order of insertion, a byte counter, and expiry from the front.       *)
(*                                                                         *)
(* get and put_if_absent hold self.guard and await nothing in between, so  *)
(* each is one step; the clock may tick between the two times that         *)
(* put_if_absent reads.                                                    *)
(***************************************************************************)
EXTENDS Integers, Sequences, FiniteSets, FiniteSetsExt

CONSTANTS
  Keys, Values,
  Sizes,             \* sizes of sealed records
  ttl_seconds, max_records, max_store_bytes,
  MaxTime,           \* bound on the clock, for TLC
  None

ASSUME MemoryVaultAssumption ==
  /\ Sizes \subseteq Nat \ {0}
  /\ {ttl_seconds, max_records, max_store_bytes} \subseteq Nat \ {0}
  /\ MaxTime \in Nat
  /\ None \notin Values /\ None \notin [value : Values, size : Sizes, expiry : Nat]

VARIABLES
  now,           \* time.monotonic()
  records,       \* self.records: the items in order
  total_bytes,   \* self.total_bytes
  reply          \* the answer to the last call

vars == <<now, records, total_bytes, reply>>

Init == now = 0 /\ records = <<>> /\ total_bytes = 0 /\ reply = None

Tick == now < MaxTime /\ now' = now + 1 /\ UNCHANGED <<records, total_bytes, reply>>

\* Every byte of the blobs of some items, and how many bytes that is.
Blobs(items) == UNION {{items[i].key} \X (1..items[i].size) : i \in DOMAIN items}
Bytes(items) == Cardinality(Blobs(items))

\* The items that _expire would stop at.
Fresh(items) == {i \in DOMAIN items : items[i].expiry > now}

\* _expire: how many items it pops from the front.
Expired == IF Fresh(records) = {} THEN Len(records) ELSE Min(Fresh(records)) - 1

\* self.records and self.total_bytes after _expire.
Kept == SubSeq(records, Expired + 1, Len(records))
Swept == total_bytes - Bytes(SubSeq(records, 1, Expired))

Holds(k) == \E i \in DOMAIN Kept : Kept[i].key = k
Item(k) == Kept[CHOOSE i \in DOMAIN Kept : Kept[i].key = k]

Answer(op, k, value) == reply' = [op |-> op, key |-> k, value |-> value]

\* get.
get(k) ==
  /\ records' = Kept /\ total_bytes' = Swept
  /\ Answer("get", k, IF Holds(k) THEN Item(k).value ELSE None)
  /\ UNCHANGED now

\* Mutant: expired records count against the limits.
put_if_absent_unswept(k, value, size, later) ==
  \/ /\ Holds(k)
     /\ records' = Kept /\ total_bytes' = Swept
     /\ Answer("put", k, Item(k).value)
     /\ UNCHANGED now
  \/ /\ ~Holds(k)
     /\ Len(records) >= max_records \/ total_bytes + size > max_store_bytes
     /\ Answer("full", k, None)
     /\ UNCHANGED <<now, records, total_bytes>>
  \/ /\ ~Holds(k)
     /\ Len(records) < max_records /\ total_bytes + size <= max_store_bytes
     /\ now' = later
     /\ records' = Append(Kept, [key |-> k, value |-> value, size |-> size, expiry |-> later + ttl_seconds])
     /\ total_bytes' = Swept + size
     /\ Answer("put", k, value)

\* Mutant: a record that is asked for again is stored again in its place.
put_if_absent_refreshes(k, value, size, later) ==
  /\ now' = later
  /\ total_bytes' = IF Holds(k) THEN Swept ELSE Swept + size
  /\ LET item == [key |-> k, value |-> value, size |-> size, expiry |-> later + ttl_seconds]
     IN records' = IF Holds(k)
                   THEN [i \in DOMAIN Kept |->
                           IF Kept[i].key = k THEN [Kept[i] EXCEPT !.expiry = item.expiry] ELSE Kept[i]]
                   ELSE Append(Kept, item)
  /\ Answer("put", k, value)

\* put_if_absent.
put_if_absent(k, value, size, later) ==
  \/ /\ Holds(k)
     /\ records' = Kept /\ total_bytes' = Swept
     /\ Answer("put", k, Item(k).value)
     /\ UNCHANGED now
  \/ /\ ~Holds(k)
     /\ Len(Kept) >= max_records \/ Swept + size > max_store_bytes
     /\ records' = Kept /\ total_bytes' = Swept
     /\ Answer("full", k, None)
     /\ UNCHANGED now
  \/ /\ ~Holds(k)
     /\ Len(Kept) < max_records /\ Swept + size <= max_store_bytes
     /\ now' = later
     /\ records' = Append(Kept, [key |-> k, value |-> value, size |-> size, expiry |-> later + ttl_seconds])
     /\ total_bytes' = Swept + size
     /\ Answer("put", k, value)

Next ==
  \/ Tick
  \/ \E k \in Keys : get(k)
  \/ \E k \in Keys, value \in Values, size \in Sizes, later \in {now, now + 1} :
       later <= MaxTime /\ put_if_absent(k, value, size, later)

Spec == Init /\ [][Next]_vars

-----------------------------------------------------------------------------
(* Properties.                                                             *)

TypeOK ==
  /\ now \in 0..MaxTime
  /\ records \in Seq([key : Keys, value : Values, size : Sizes, expiry : Nat])
  /\ total_bytes \in Nat
  /\ reply \in {None} \cup [op : {"get", "put", "full"}, key : Keys, value : Values \cup {None}]

\* _expire pops from the front only, so it needs the items to be in the order of
\* their expiry, with at most one for a key.
ExpiryOrder ==
  \A i, j \in DOMAIN records :
    i < j => records[i].expiry <= records[j].expiry /\ records[i].key # records[j].key

\* total_bytes is the size of what is stored, and neither limit is exceeded, over
\* any sequence of expirations, hits and refusals.
BytesExact ==
  /\ total_bytes = Bytes(records)
  /\ total_bytes <= max_store_bytes /\ Len(records) <= max_records

\* The record that lives under a key, seen from outside.
LiveRecord(k) ==
  IF \E i \in Fresh(records) : records[i].key = k
  THEN LET item == records[CHOOSE i \in Fresh(records) : records[i].key = k]
       IN [value |-> item.value, size |-> item.size, expiry |-> item.expiry]
  ELSE None

Abstract == INSTANCE TtlStore WITH store <- [k \in Keys |-> LiveRecord(k)]

\* get, put_if_absent: no record is served after its time, none is lost before it,
\* the first writer wins, and expired records never cause a refusal.
ImplementsTtlStore == Abstract!Spec

\* _expire, put_if_absent: the order, the byte count and the limits hold together.
StoreSafe == TypeOK /\ ExpiryOrder /\ BytesExact
=============================================================================
