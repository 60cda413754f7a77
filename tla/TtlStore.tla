------------------------------- MODULE TtlStore -------------------------------
(***************************************************************************)
(* What the memory backend of seif/vault.py promises: a write-once map in  *)
(* which every record lives exactly ttl_seconds from the moment it was     *)
(* stored, and which refuses a record only when the records that live fill *)
(* it.  There is no order, no queue and no byte counter.                   *)
(***************************************************************************)
EXTENDS Integers, FiniteSets

CONSTANTS
  Keys, Values,
  Sizes,             \* sizes of sealed records
  ttl_seconds, max_records, max_store_bytes,
  MaxTime,           \* bound on the clock, for TLC
  None

VARIABLES
  now,     \* the clock
  store,   \* the record that lives under each key
  reply    \* the answer to the last call

vars == <<now, store, reply>>

Init == now = 0 /\ store = [k \in Keys |-> None] /\ reply = None

Living == {k \in Keys : store[k] # None}

\* Every byte of the records that live.
Content == UNION {{k} \X (1..store[k].size) : k \in Living}

\* A record of this size fits.
Fits(size) ==
  /\ Cardinality(Living) < max_records
  /\ Cardinality(Content) + size <= max_store_bytes

\* What is left at time t.
At(t) == [k \in Keys |-> IF k \in Living /\ store[k].expiry > t THEN store[k] ELSE None]

Tick == now < MaxTime /\ now' = now + 1 /\ store' = At(now + 1) /\ UNCHANGED reply

Answer(op, k, value) == reply' = [op |-> op, key |-> k, value |-> value]

\* A reader gets the value that lives under the key.
Get(k) ==
  /\ IF k \in Living THEN Answer("get", k, store[k].value) ELSE Answer("get", k, None)
  /\ UNCHANGED <<now, store>>

\* A writer gets the value that lives under the key, is refused because the store is
\* full, or stores its own at a time later that is at most a tick from now.
Put(k, value, size, later) ==
  \/ /\ k \in Living
     /\ Answer("put", k, store[k].value)
     /\ UNCHANGED <<now, store>>
  \/ /\ k \notin Living
     /\ ~Fits(size)
     /\ Answer("full", k, None)
     /\ UNCHANGED <<now, store>>
  \/ /\ k \notin Living
     /\ Fits(size)
     /\ now' = later
     /\ store' = [At(later) EXCEPT ![k] = [value |-> value, size |-> size, expiry |-> later + ttl_seconds]]
     /\ Answer("put", k, value)

Next ==
  \/ Tick
  \/ \E k \in Keys : Get(k)
  \/ \E k \in Keys, value \in Values, size \in Sizes, later \in {now, now + 1} :
       later <= MaxTime /\ Put(k, value, size, later)

Spec == Init /\ [][Next]_vars
=============================================================================
