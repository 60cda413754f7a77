------------------------------ MODULE NerClient ------------------------------
(***************************************************************************)
(* The gateway's client of the NER service, class NerClient of seif/ner.py: *)
(* a call of detect cuts its text into chunks, sends them in groups, one   *)
(* task per chunk of a group, within one deadline for the whole call and   *)
(* one semaphore for the whole process, and repeats a chunk the service    *)
(* turns away.                                                             *)
(*                                                                         *)
(* Tasks interleave at their awaits.  A TaskGroup learns of a failed child *)
(* in a later turn of the loop, cancels the others and waits for all; a    *)
(* group of one is awaited directly and unwinds in the same way.  What is  *)
(* in the chunks is the business of Windows.                             *)
(***************************************************************************)
EXTENDS Integers, Sequences, FiniteSets

CONSTANTS
  Calls,             \* calls of detect
  Sizes,             \* possible numbers of chunks of a text
  GroupSize,         \* chunks sent together (4 in detect)
  Attempts,          \* requests per chunk (4 in _analyze_chunk)
  max_concurrency    \* places in the semaphore

ASSUME NerClientAssumption ==
  /\ IsFiniteSet(Calls)
  /\ {GroupSize, Attempts, max_concurrency} \subseteq Nat \ {0}
  /\ Sizes \subseteq Nat \ {0}

VARIABLES
  phase,      \* where each call is
  size,       \* the number of its chunks
  base,       \* the number of its chunks in earlier groups
  task,       \* what the task of each chunk of the current group does
  attempt,    \* the attempt it is at
  result,     \* the chunks whose spans are in the result, in order
  free        \* the value of the semaphore

clientvars == <<phase, size, base, task, attempt, result, free>>

\* Positions in a group.
Slots == 1..GroupSize

ClientInit ==
  /\ phase = [c \in Calls |-> "idle"]
  /\ size \in [Calls -> Sizes]
  /\ base = [c \in Calls |-> 0]
  /\ task = [c \in Calls |-> [i \in Slots |-> "none"]]
  /\ attempt = [c \in Calls |-> [i \in Slots |-> 0]]
  /\ result = [c \in Calls |-> <<>>]
  /\ free = max_concurrency

\* The tasks of the group that follows the first n chunks of a text of size s.
Group(n, s) == [i \in Slots |-> IF n + i <= s THEN "queued" ELSE "none"]

\* detect up to its first await: _detect_batch creates a task per chunk.
detect(c) ==
  /\ phase[c] = "idle"
  /\ phase' = [phase EXCEPT ![c] = "running"]
  /\ task' = [task EXCEPT ![c] = Group(0, size[c])]
  /\ UNCHANGED <<size, base, attempt, result, free>>

SetTask(c, i, to) == task' = [task EXCEPT ![c][i] = to]

\* _chunk enters the semaphore and _analyze_chunk sends its first request.
Acquire(c, i) ==
  /\ phase[c] = "running" /\ task[c][i] = "queued" /\ free > 0
  /\ free' = free - 1
  /\ SetTask(c, i, "sending")
  /\ attempt' = [attempt EXCEPT ![c][i] = 1]
  /\ UNCHANGED <<phase, size, base, result>>

\* The chunk is answered and parsed, or fails: a status other than 200 and 429, a
\* 429 to the last attempt, an HTTP error, a bad body.  Either way it leaves the
\* semaphore.
Answered(c, i) ==
  /\ phase[c] = "running" /\ task[c][i] = "sending"
  /\ \E outcome \in {"done", "failed"} : SetTask(c, i, outcome)
  /\ free' = free + 1
  /\ UNCHANGED <<phase, size, base, attempt, result>>

\* 429 to an attempt that is not the last: the chunk sleeps, in its place.
TurnedAway(c, i) ==
  /\ phase[c] = "running" /\ task[c][i] = "sending" /\ attempt[c][i] < Attempts
  /\ SetTask(c, i, "sleeping")
  /\ UNCHANGED <<phase, size, base, attempt, result, free>>

Retry(c, i) ==
  /\ phase[c] = "running" /\ task[c][i] = "sleeping"
  /\ SetTask(c, i, "sending")
  /\ attempt' = [attempt EXCEPT ![c][i] = @ + 1]
  /\ UNCHANGED <<phase, size, base, result, free>>

\* The chunks of the current group.
Batch(c) == {i \in Slots : task[c][i] # "none"}

Indices(c) == [i \in 1..Cardinality(Batch(c)) |-> base[c] + i]

\* All tasks of the group are done: their spans are added in input order and the
\* next group starts, or detect returns.
GroupDone(c) ==
  /\ phase[c] = "running"
  /\ \A i \in Batch(c) : task[c][i] = "done"
  /\ result' = [result EXCEPT ![c] = @ \o Indices(c)]
  /\ base' = [base EXCEPT ![c] = @ + Cardinality(Batch(c))]
  /\ task' = [task EXCEPT ![c] = Group(base'[c], size[c])]
  /\ attempt' = [attempt EXCEPT ![c] = [i \in Slots |-> 0]]
  /\ phase' = [phase EXCEPT ![c] = IF base'[c] = size[c] THEN "ok" ELSE @]
  /\ UNCHANGED <<size, free>>

Unwind(c, why) ==
  /\ phase' = [phase EXCEPT ![c] = why]
  /\ UNCHANGED <<size, base, task, attempt, result, free>>

\* Mutant: a failed chunk ends the call at once, its siblings run on.
Abort_at_once(c) ==
  /\ phase[c] = "running" /\ \E i \in Slots : task[c][i] = "failed"
  /\ Unwind(c, "failed")

\* The TaskGroup learns of a failed chunk and cancels the others.
Abort(c) ==
  /\ phase[c] = "running" /\ \E i \in Slots : task[c][i] = "failed"
  /\ Unwind(c, "failing")

\* asyncio.timeout: the deadline of the call passes, whatever its chunks do.
Timeout(c) == phase[c] = "running" /\ Unwind(c, "failing")

\* The caller's task is cancelled; while it unwinds from a failure either may win.
CancelCall(c) == phase[c] \in {"running", "failing"} /\ Unwind(c, "cancelling")

Active == {"queued", "sending", "sleeping"}
Holding == {"sending", "sleeping"}

\* A chunk's task is cancelled at its await: the request is closed and the place
\* in the semaphore, if it has one, is given back.
CancelChunk(c, i) ==
  /\ phase[c] \in {"failing", "cancelling"} /\ task[c][i] \in Active
  /\ SetTask(c, i, "cancelled")
  /\ free' = IF task[c][i] \in Holding THEN free + 1 ELSE free
  /\ UNCHANGED <<phase, size, base, attempt, result>>

\* All tasks of the group have ended.  Every Exception becomes NerUnavailable.
Raise(c) ==
  /\ phase[c] \in {"failing", "cancelling"}
  /\ \A i \in Slots : task[c][i] \notin Active
  /\ \E end \in {"failed"} \cup (IF phase[c] = "cancelling" THEN {"cancelled"} ELSE {}) :
       phase' = [phase EXCEPT ![c] = end]
  /\ UNCHANGED <<size, base, task, attempt, result, free>>

ClientNext ==
  \E c \in Calls :
    \/ detect(c) \/ GroupDone(c) \/ Abort(c) \/ Timeout(c) \/ CancelCall(c) \/ Raise(c)
    \/ \E i \in Slots : \/ Acquire(c, i) \/ Answered(c, i) \/ TurnedAway(c, i)
                        \/ Retry(c, i) \/ CancelChunk(c, i)

\* The deadline passes and the loop runs what is ready; the service need not answer.
ClientFairness ==
  \A c \in Calls :
    /\ WF_clientvars(GroupDone(c)) /\ WF_clientvars(Abort(c)) /\ WF_clientvars(Timeout(c)) /\ WF_clientvars(Raise(c))
    /\ \A i \in Slots : WF_clientvars(CancelChunk(c, i))

ClientSpec == ClientInit /\ [][ClientNext]_clientvars /\ ClientFairness

-----------------------------------------------------------------------------
(* Properties.                                                             *)

EndedCalls == {c \in Calls : phase[c] \in {"ok", "failed", "cancelled"}}

Holders == {h \in Calls \X Slots : task[h[1]][h[2]] \in Holding}

ClientTypeOK ==
  /\ phase \in [Calls -> {"idle", "running", "failing", "cancelling", "ok", "failed", "cancelled"}]
  /\ size \in [Calls -> Sizes]
  /\ \A c \in Calls : base[c] \in 0..size[c] /\ result[c] \in Seq(1..size[c])
  /\ task \in [Calls -> [Slots -> Active \cup {"none", "done", "failed", "cancelled"}]]
  /\ attempt \in [Calls -> [Slots -> 0..Attempts]]
  /\ free \in 0..max_concurrency

\* _chunk, TaskGroup: a place in the semaphore is taken exactly while a chunk is
\* sent or waits to be sent again, on whatever path the call ends.  A lost place
\* would slow the whole process down for good.
PlacesExact == free = max_concurrency - Cardinality(Holders)

\* _detect_batch: "no model requests may outlive a failed protection operation";
\* nor one that was cancelled.
NothingOutlivesItsCall ==
  \A c \in EndedCalls : \A i \in Slots : task[c][i] \notin Active

\* detect: a result contains the spans of every chunk, once, in input order,
\* whatever the order of the answers; there is no partial protection.
CompleteOrFailed ==
  \A c \in Calls : phase[c] = "ok" => result[c] = [i \in 1..size[c] |-> i]

\* asyncio.timeout: every call ends although the service may never answer, turn
\* chunks away, or others may hold all places.
EveryCallEnds == \A c \in Calls : phase[c] = "running" ~> c \in EndedCalls

\* The client as a whole: exact places, no request outlives its call, whole results.
ClientSafe == ClientTypeOK /\ PlacesExact /\ NothingOutlivesItsCall /\ CompleteOrFailed
=============================================================================
