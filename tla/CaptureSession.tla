--------------------------- MODULE CaptureSession ---------------------------
(***************************************************************************)
(* scripts/capture_requests.py: a bounded session that scans a replica of  *)
(* the vault again and again, reads the records it has not seen, and       *)
(* writes each original text once, with a manifest that counts everything. *)
(*                                                                         *)
(* Records appear and expire while the session runs; what it gets for a    *)
(* key is decided when the key's batch is read.  A SCAN returns any of the *)
(* keys, in any order, none of them twice.  The operator's interrupt is    *)
(* taken between any two records; what one inside save_record leaves, a    *)
(* key counted by half, is not modelled.                                   *)
(***************************************************************************)
EXTENDS Integers, Sequences, FiniteSets, FiniteSetsExt, Functions

CONSTANTS
  VaultKeys, Originals,  \* keys of the vault, and the texts stored there
  Broken, Absent,        \* a record that cannot be restored; no record
  LineSize,              \* length of the line a text is written in
  BatchSize,             \* keys read together, 8 in scan_keys
  max_bytes,             \* args.max_bytes
  max_session_records    \* args.max_records

ASSUME CaptureSessionAssumption ==
  /\ IsFiniteSet(VaultKeys)
  /\ LineSize \in [Originals -> Nat \ {0}]
  /\ Broken \notin Originals /\ Absent \notin Originals \cup {Broken}
  /\ {BatchSize, max_bytes, max_session_records} \subseteq Nat \ {0}

VARIABLES
  db,        \* what the replica holds under each key
  capture,   \* "idle" between passes, "scanning", "ended"
  keys,      \* the keys of the page that are still to be read
  session,   \* the attributes of _CaptureSession that records change
  manifest   \* counts, stop_reason and complete in manifest.json

capturevars == <<db, capture, keys, session, manifest>>

Counters == {"source_records_seen", "expired_before_read", "unrecoverable_records",
             "duplicate_originals", "unique_originals", "jsonl_bytes", "read_failures"}

CaptureInit ==
  /\ db \in [VaultKeys -> Originals \cup {Broken, Absent}]
  /\ capture = "idle" /\ keys = <<>>
  /\ session = [seen_keys |-> {}, lines |-> <<>>, frequencies |-> [o \in Originals |-> 0],
                stats |-> [c \in Counters |-> 0], stop_reason |-> "duration"]
  /\ manifest = [counts |-> session.stats, reason |-> "none", complete |-> FALSE]

save_manifest(complete) ==
  manifest' = [counts |-> session'.stats, reason |-> session'.stop_reason, complete |-> complete]

\* Mutant: the size of the line itself is not compared.
Fits_before(s, o) == s.stats.jsonl_bytes <= max_bytes

Fits(s, o) == s.stats.jsonl_bytes + LineSize[o] <= max_bytes
Known(s, o) == o \in Range(s.lines)
Seen(s, k) == [s EXCEPT !.seen_keys = @ \cup {k}, !.stats.source_records_seen = @ + 1]
Add(s, c, n) == [s EXCEPT !.stats[c] = @ + n]

\* save_record; after a reason to stop the loop over the batch is left.
save_record(s, k) ==
  LET t == Seen(s, k)
      o == db[k]
  IN  IF s.stop_reason # "duration" THEN s
      ELSE CASE o = Absent -> Add(t, "expired_before_read", 1)
             [] o = Broken -> Add(t, "unrecoverable_records", 1)
             [] o \in Originals /\ Known(s, o) ->
                  [Add(t, "duplicate_originals", 1) EXCEPT !.frequencies[o] = @ + 1]
             [] o \in Originals /\ ~Known(s, o) /\ ~Fits(s, o) -> [t EXCEPT !.stop_reason = "byte_limit"]
             [] o \in Originals /\ ~Known(s, o) /\ Fits(s, o) ->
                  [Add(Add(t, "unique_originals", 1), "jsonl_bytes", LineSize[o])
                   EXCEPT !.lines = Append(@, o), !.frequencies[o] = 1]

\* scan_pass with its first SCAN, or with the next one; now and then the manifest is saved.
Scan ==
  /\ capture \in {"idle", "scanning"} /\ keys = <<>> /\ session.stop_reason = "duration"
  /\ capture' = "scanning"
  /\ \E n \in 0..Cardinality(VaultKeys) : keys' \in Injection(1..n, {k \in VaultKeys : db[k] # Absent})
  /\ UNCHANGED <<db, session>>
  /\ save_manifest(FALSE) \/ UNCHANGED manifest

\* One batch of scan_keys: without the keys seen before, and as a whole or not at all
\* within the limit on records; what the session is after each of its keys.
BatchLength == Min({BatchSize, Len(keys)})
Unseen == {i \in 1..BatchLength : keys[i] \notin session.seen_keys}
TooMany == Cardinality(session.seen_keys) + Cardinality(Unseen) > max_session_records
SessionAfter[i \in 0..BatchLength] ==
  IF i = 0 THEN session
  ELSE IF i \in Unseen THEN save_record(SessionAfter[i - 1], keys[i]) ELSE SessionAfter[i - 1]

HasPage == capture = "scanning" /\ keys # <<>> /\ session.stop_reason = "duration"

ReadBatch ==
  /\ HasPage
  /\ keys' = SubSeq(keys, BatchLength + 1, Len(keys))
  /\ session' = IF TooMany THEN [session EXCEPT !.stop_reason = "record_limit"] ELSE SessionAfter[BatchLength]
  /\ UNCHANGED <<db, capture, manifest>>

\* The end of scan_pass: the cursor is back at its start, the time is over, or there is
\* a reason to stop.
EndPass ==
  /\ capture = "scanning" /\ (keys = <<>> \/ session.stop_reason # "duration")
  /\ capture' = "idle" /\ keys' = <<>>
  /\ UNCHANGED <<db, session>> /\ save_manifest(FALSE)

\* run: the time is over or there is a reason to stop, and the finally block.
End ==
  /\ capture = "idle" /\ capture' = "ended"
  /\ UNCHANGED <<db, keys, session>> /\ save_manifest(TRUE)

\* The except clauses and the finally block of run, with the session as it was then.
FinishWith(s, reason) ==
  /\ capture' = "ended"
  /\ session' = [IF reason = "interrupted" THEN s ELSE Add(s, "read_failures", 1)
                 EXCEPT !.stop_reason = reason]
  /\ UNCHANGED <<db, keys>> /\ save_manifest(TRUE)

\* The operator interrupts the session, or the replica has become a primary or a read fails.
Interrupted ==
  capture # "ended" /\ \E reason \in {"interrupted", "capture_read_error"} : FinishWith(session, reason)

\* The operator interrupts it amid a batch, or the flush of the file after it fails.
BatchInterrupted ==
  /\ HasPage /\ ~TooMany
  /\ \/ \E i \in 1..BatchLength : FinishWith(SessionAfter[i], "interrupted")
     \/ FinishWith(SessionAfter[BatchLength], "capture_read_error")

\* A record expires, or one is stored under a free key.
Change(k) ==
  /\ db' \in {[db EXCEPT ![k] = v] : v \in IF db[k] = Absent THEN Originals ELSE {Absent}}
  /\ UNCHANGED <<capture, keys, session, manifest>>

CaptureStep == Scan \/ ReadBatch \/ EndPass \/ End \/ Interrupted \/ BatchInterrupted
CaptureNext == CaptureStep \/ (capture # "ended" /\ \E k \in VaultKeys : Change(k))

-----------------------------------------------------------------------------
(* Properties.                                                             *)

\* save_record: every key that was read is counted once under what became of it; only
\* the one that met the byte limit is counted nowhere else.
EveryKeyCounted ==
  LET n == session.stats
      rest == n.source_records_seen - n.expired_before_read - n.unrecoverable_records
                - n.duplicate_originals - n.unique_originals
  IN /\ n.source_records_seen = Cardinality(session.seen_keys)
     /\ rest \in {0, 1}
     /\ session.stop_reason \in {"duration", "record_limit"} => rest = 0
     /\ session.stop_reason = "byte_limit" => rest = 1

\* f of each member of a sequence, added up
Total(f, s) ==
  LET total[i \in 0..Len(s)] == IF i = 0 THEN 0 ELSE total[i - 1] + f[s[i]]
  IN  total[Len(s)]

\* sources, frequencies: a text is written once, however many keys hold it and however
\* often they are scanned, and the frequencies add up to the records that were read.
WrittenOnce ==
  /\ IsInjective(session.lines)
  /\ \A o \in Originals : session.frequencies[o] > 0 <=> o \in Range(session.lines)
  /\ Total(session.frequencies, session.lines)
       = session.stats.unique_originals + session.stats.duplicate_originals

\* scan_keys, save_record: the file and the records read stay within their bounds.
WithinBounds ==
  /\ session.stats.jsonl_bytes = Total(LineSize, session.lines)
  /\ session.stats.jsonl_bytes <= max_bytes
  /\ Cardinality(session.seen_keys) <= max_session_records

\* run: however a session ends, its manifest says so and has the final counts.
ManifestIsFinal ==
  capture = "ended" =>
    manifest = [counts |-> session.stats, reason |-> session.stop_reason, complete |-> TRUE]

\* A session's counts, file and manifest agree however it ends.
SessionSafe == EveryKeyCounted /\ WrittenOnce /\ WithinBounds /\ ManifestIsFinal
=============================================================================
