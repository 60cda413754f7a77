---------------------------- MODULE RequestCapture ----------------------------
(***************************************************************************)
(* The optional local recorder of requests, seif/request_capture.py.  The  *)
(* event loop submits records without blocking, a writer thread takes them *)
(* from a bounded queue and appends them to a buffered file, and close     *)
(* stops it.                                                               *)
(*                                                                         *)
(* A step is what happens under self._lock or between two uses of what     *)
(* other threads can see.  Only the writer touches the stream.             *)
(***************************************************************************)
EXTENDS Integers, Sequences, FiniteSets, FiniteSetsExt

CONSTANTS
  Records,             \* records offered, each once
  Size,                \* bytes a record takes in the queue
  Encoded,             \* bytes of its line in the file
  max_records,         \* length of the queue
  max_queued_bytes,
  max_disk_bytes,
  MaxErrors,           \* bound on failures of the file system, for TLC
  None

ASSUME RequestCaptureAssumption ==
  /\ IsFiniteSet(Records) /\ None \notin Records
  /\ Size \in [Records -> Nat] /\ Encoded \in [Records -> Nat]
  /\ {max_records, max_queued_bytes, max_disk_bytes, MaxErrors} \subseteq Nat

VARIABLES
  queue,                \* self._queue
  queued_bytes,         \* self._queued_bytes
  counts,               \* self._counts
  closed,               \* self._closed, and self._stop, which is set with it
  disk_limit_reached,
  writer,               \* where the writer thread is
  current,              \* the record the writer has taken
  stream,               \* lines in the buffer of the stream
  file,                 \* lines in the file
  status,               \* the counts last published in the status file
  accepted,             \* history: records submit accepted, in order
  offered               \* history: records given to submit

vars == <<queue, queued_bytes, counts, closed, disk_limit_reached, writer, current,
          stream, file, status, accepted, offered>>
disk == <<stream, file, status, disk_limit_reached>>

Zero == [submitted |-> 0, written |-> 0, dropped |-> 0, write_errors |-> 0, bytes |-> 0]

Init ==
  /\ queue = <<>> /\ queued_bytes = 0 /\ counts = Zero
  /\ closed = FALSE /\ disk_limit_reached = FALSE
  /\ writer = "testing" /\ current = None
  /\ stream = <<>> /\ file = <<>> /\ status = Zero
  /\ accepted = <<>> /\ offered = {}

\* Mutant: a record that arrives after close still enters the queue.
submit_after_close(r) ==
  /\ r \notin offered /\ offered' = offered \cup {r}
  /\ IF queued_bytes + Size[r] > max_queued_bytes \/ Len(queue) >= max_records
     THEN /\ counts' = [counts EXCEPT !.dropped = @ + 1]
          /\ UNCHANGED <<queue, queued_bytes, accepted>>
     ELSE /\ queue' = Append(queue, r)
          /\ queued_bytes' = queued_bytes + Size[r]
          /\ counts' = [counts EXCEPT !.submitted = @ + 1]
          /\ accepted' = Append(accepted, r)
  /\ UNCHANGED <<closed, writer, current, disk>>

\* submit.  Metadata that cannot be copied, a closed recorder and a full queue
\* all drop the record.
submit(r) ==
  /\ r \notin offered /\ offered' = offered \cup {r}
  /\ \E copied \in BOOLEAN :
       IF ~copied \/ closed \/ queued_bytes + Size[r] > max_queued_bytes \/ Len(queue) >= max_records
       THEN /\ counts' = [counts EXCEPT !.dropped = @ + 1]
            /\ UNCHANGED <<queue, queued_bytes, accepted>>
       ELSE /\ queue' = Append(queue, r)
            /\ queued_bytes' = queued_bytes + Size[r]
            /\ counts' = [counts EXCEPT !.submitted = @ + 1]
            /\ accepted' = Append(accepted, r)
  /\ UNCHANGED <<closed, writer, current, disk>>

\* The condition of the loop of _run.
Test ==
  /\ writer = "testing"
  /\ writer' = IF closed /\ queue = <<>> THEN "flushing" ELSE "getting"
  /\ UNCHANGED <<queue, queued_bytes, counts, closed, current, disk, accepted, offered>>

\* Mutant: the writer waits for a record without a timeout.
Get_blocks ==
  /\ writer = "getting" /\ queue # <<>>
  /\ writer' = "writing" /\ current' = Head(queue) /\ queue' = Tail(queue)
  /\ UNCHANGED <<queued_bytes, counts, closed, disk, accepted, offered>>

\* _drain_one: a record is taken, or none comes in time.
Get ==
  /\ writer = "getting"
  /\ IF queue = <<>>
     THEN writer' = "publishing" /\ UNCHANGED <<queue, current>>
     ELSE /\ writer' = "writing"
          /\ current' = Head(queue) /\ queue' = Tail(queue)
  /\ UNCHANGED <<queued_bytes, counts, closed, disk, accepted, offered>>

Error == counts.write_errors < MaxErrors

\* _write with the error branch of _drain_one: the line does not fit on disk, or
\* goes to the buffer of the stream, or encoding or writing it fails.  A write that
\* fails may have passed on the line, or a part of it, which is not counted.
Write ==
  /\ writer = "writing" /\ writer' = "releasing"
  /\ \/ /\ counts.bytes + Encoded[current] > max_disk_bytes
        /\ disk_limit_reached' = TRUE
        /\ counts' = [counts EXCEPT !.dropped = @ + 1]
        /\ UNCHANGED stream
     \/ /\ counts.bytes + Encoded[current] <= max_disk_bytes
        /\ stream' = Append(stream, current)
        /\ counts' = [counts EXCEPT !.written = @ + 1, !.bytes = @ + Encoded[current]]
        /\ UNCHANGED disk_limit_reached
     \/ /\ Error
        /\ counts' = [counts EXCEPT !.dropped = @ + 1, !.write_errors = @ + 1]
        /\ \/ UNCHANGED stream
           \/ /\ counts.bytes + Encoded[current] <= max_disk_bytes
              /\ stream' = Append(stream, current)
        /\ UNCHANGED disk_limit_reached
  /\ UNCHANGED <<queue, queued_bytes, closed, current, file, status, accepted, offered>>

\* The finally block of _drain_one.
Release ==
  /\ writer = "releasing" /\ writer' = "publishing"
  /\ queued_bytes' = queued_bytes - Size[current]
  /\ current' = None
  /\ UNCHANGED <<queue, counts, closed, disk, accepted, offered>>

\* The buffer reaches the file.
Flushed == file' = file \o stream /\ stream' = <<>>

\* _publish_periodic: it is not time yet, or the stream is flushed and the status
\* published, or one of the two fails.
PublishPeriodic ==
  /\ writer = "publishing" /\ writer' = "testing"
  /\ \/ UNCHANGED <<stream, file, status, counts>>
     \/ Flushed /\ status' = counts /\ UNCHANGED counts
     \/ /\ Error /\ counts' = [counts EXCEPT !.write_errors = @ + 1]
        /\ Flushed \/ UNCHANGED <<stream, file>>
        /\ UNCHANGED status
  /\ UNCHANGED <<queue, queued_bytes, closed, disk_limit_reached, current, accepted, offered>>

\* _shutdown, the flush and fsync.
Flush ==
  /\ writer = "flushing" /\ writer' = "closing"
  /\ \/ Flushed /\ UNCHANGED counts
     \/ /\ Error /\ counts' = [counts EXCEPT !.write_errors = @ + 1]
        /\ Flushed \/ UNCHANGED <<stream, file>>
  /\ UNCHANGED <<queue, queued_bytes, closed, disk_limit_reached, current, status, accepted, offered>>

\* _shutdown, close of the stream: it flushes what is left in the buffer or loses it.
CloseStream ==
  /\ writer = "closing" /\ writer' = "reporting"
  /\ \/ Flushed /\ UNCHANGED counts
     \/ /\ Error /\ counts' = [counts EXCEPT !.write_errors = @ + 1]
        /\ stream' = <<>> /\ UNCHANGED file
  /\ UNCHANGED <<queue, queued_bytes, closed, disk_limit_reached, current, status, accepted, offered>>

\* _shutdown, the last status.
Report ==
  /\ writer = "reporting" /\ writer' = "ended"
  /\ \/ status' = counts /\ UNCHANGED counts
     \/ Error /\ counts' = [counts EXCEPT !.write_errors = @ + 1] /\ UNCHANGED status
  /\ UNCHANGED <<queue, queued_bytes, closed, disk_limit_reached, current, stream, file, accepted, offered>>

\* close; it returns when the writer has ended.
close ==
  /\ ~closed /\ closed' = TRUE
  /\ UNCHANGED <<queue, queued_bytes, counts, writer, current, disk, accepted, offered>>

Writer == Test \/ Get \/ Write \/ Release \/ PublishPeriodic \/ Flush \/ CloseStream \/ Report

Next == (\E r \in Records : submit(r)) \/ Writer \/ close

\* The writer thread runs.
Fairness == WF_vars(Writer)

Spec == Init /\ [][Next]_vars /\ Fairness

-----------------------------------------------------------------------------
(* Properties.                                                             *)

TypeOK ==
  /\ queue \in Seq(Records) /\ Len(queue) <= max_records
  /\ queued_bytes \in Nat
  /\ counts \in [DOMAIN Zero -> Nat] /\ status \in [DOMAIN Zero -> Nat]
  /\ {closed, disk_limit_reached} \subseteq BOOLEAN
  /\ writer \in {"testing", "getting", "writing", "releasing", "publishing",
                 "flushing", "closing", "reporting", "ended"}
  /\ current \in Records \cup {None}
  /\ {stream, file, accepted} \subseteq Seq(Records)
  /\ offered \subseteq Records

BytesOf(size, records) ==
  LET total[n \in 0..Len(records)] == IF n = 0 THEN 0 ELSE total[n - 1] + size[records[n]]
  IN  total[Len(records)]

InHand == IF current = None THEN <<>> ELSE <<current>>

\* submit, _drain_one: the bytes that are reserved are those of the records in the
\* queue and of the one being written, and they never exceed their limit.
QueuedBytesExact ==
  /\ queued_bytes = BytesOf(Size, InHand \o queue)
  /\ queued_bytes <= max_queued_bytes

\* snapshot: every record offered is counted as written or as dropped exactly once,
\* unless it is still on its way.
EveryRecordCounted ==
  Cardinality(offered) =
    counts.written + counts.dropped + Len(queue) + (IF writer = "writing" THEN 1 ELSE 0)

Longest == Max({0} \cup {Encoded[r] : r \in Records})

\* _write: bytes never exceeds its limit, and as long as nothing fails it is what the
\* lines written so far take; so the file grows past the limit by no more than one
\* line for each failure.
DiskLimit ==
  /\ counts.bytes <= max_disk_bytes
  /\ counts.write_errors = 0 => counts.bytes = BytesOf(Encoded, file \o stream)
  /\ BytesOf(Encoded, file \o stream) <= counts.bytes + counts.write_errors * Longest

\* close: "drain accepted records".  When the writer has ended nothing accepted is
\* left behind; without failures and within the limit all of it is in the file, in
\* the order of acceptance, and the status file says so.
ClosedMeansWritten ==
  writer = "ended" =>
    /\ queue = <<>> /\ current = None
    /\ counts.write_errors = 0 /\ ~disk_limit_reached => file = accepted
    /\ counts.write_errors = 0 => status.written = Len(file) /\ status.submitted = Len(accepted)

\* close returns.
CloseReturns == closed ~> writer = "ended"

\* The recorder as a whole: bytes, records, disk and the end of the writer add up.
CaptureSafe == TypeOK /\ QueuedBytesExact /\ EveryRecordCounted /\ DiskLimit /\ ClosedMeansWritten
=============================================================================
