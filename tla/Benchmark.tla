------------------------------- MODULE Benchmark -------------------------------
(***************************************************************************)
(* scripts/benchmark_corpus.py: pairs of requests are offered at a fixed   *)
(* rate, whatever the service answers.  An offer draws its case from a     *)
(* weighted cycle and becomes a task, unless the client is at its limit    *)
(* or past its time; a pair masks its case and unmasks the answer.  The    *)
(* report counts every offer once, or there is no report.                  *)
(*                                                                         *)
(* The tool never writes over an earlier report: the path has to be free   *)
(* before the run and when the report is written.                          *)
(*                                                                         *)
(* The scheduler and the pairs share one event loop: a step is the code    *)
(* from one await to the next.  A pair may break with an exception that    *)
(* request does not handle, and the run may be interrupted at its awaits.  *)
(***************************************************************************)
EXTENDS Integers, Sequences, FiniteSets

CONSTANTS
  Weights,        \* the corpus: the weight of each case
  Jitters,        \* a visit's place in its interval is one of Jitters equal steps
  OfferedPairs,   \* config.offered_pairs
  Concurrency     \* config.concurrency

ASSUME BenchmarkAssumption ==
  /\ Weights \in Seq(Nat \ {0}) /\ Weights # <<>>
  /\ {Jitters, OfferedPairs, Concurrency} \subseteq Nat \ {0}

VARIABLES
  phase,        \* where main or schedule is, or how it ended
  saved,       \* the reports written to the path of this run's report
  heap,         \* the next visit of each case, in steps of its weight's virtual time
  offered,      \* the cases drawn so far
  expired,      \* the configured duration is over
  pairs,        \* what the pair of each offer is doing, and its case
  active,       \* tasks whose done callback has not run
  task_failed,
  counters

benchvars == <<phase, saved, heap, offered, expired, pairs, active, task_failed, counters>>

Ends == {"mask_failed", "unmask_failed", "mismatch", "verified"}

BenchInit ==
  /\ phase = "preparing" /\ saved \in {{}, {"earlier"}}
  /\ heap \in [DOMAIN Weights -> 0..Jitters - 1] /\ offered = <<>> /\ expired = FALSE
  /\ active = {} /\ task_failed = FALSE
  /\ pairs = [k \in 1..OfferedPairs |-> [at |-> "none", case |-> 0]]
  /\ counters = [c \in Ends \cup {"offered", "dispatched", "capacity", "deadline", "masked",
                                  "attempted", "successful", "latencies"} |-> 0]

Counted(names) == [c \in DOMAIN counters |-> counters[c] + IF c \in names THEN 1 ELSE 0]

\* heapq: by the visit's time, then by the case's place in the corpus.
Earliest ==
  CHOOSE i \in DOMAIN Weights : \A j \in DOMAIN Weights \ {i} :
    LET a == heap[i] * Weights[j]  b == heap[j] * Weights[i] IN a < b \/ (a = b /\ i < j)

NextVisit(i, jitter) == (heap[i] \div Jitters + 1) * Jitters + jitter

\* pair's second argument, bound when the task is made.
Assignment(k) == pairs[k].case

\* schedule, from one offer's sleep to the next: on_offer, then _dispatch_pair.
Offer ==
  /\ phase = "offering" /\ Len(offered) < OfferedPairs
  /\ LET i == Earliest  k == Len(offered) + 1 IN
     /\ offered' = Append(offered, i)
     /\ \E jitter \in 0..Jitters - 1 : heap' = [heap EXCEPT ![i] = NextVisit(i, jitter)]
     /\ expired' \in {expired, TRUE}
     /\ \/ expired' /\ counters' = Counted({"offered", "deadline"}) /\ UNCHANGED <<pairs, active>>
        \/ /\ ~expired' /\ Cardinality(active) >= Concurrency
           /\ counters' = Counted({"offered", "capacity"}) /\ UNCHANGED <<pairs, active>>
        \/ /\ ~expired' /\ Cardinality(active) < Concurrency
           /\ counters' = Counted({"offered", "dispatched"}) /\ active' = active \cup {k}
           /\ pairs' = [pairs EXCEPT ![k] = [at |-> "new", case |-> i]]
  /\ UNCHANGED <<phase, saved, task_failed>>

PairStep(k, at, names) ==
  /\ pairs' = [pairs EXCEPT ![k].at = at] /\ counters' = Counted(names)
  /\ UNCHANGED <<phase, saved, heap, offered, expired, active, task_failed>>

Cancelling == phase = "cancelling"

\* pair up to its first answer.
Start(k) ==
  /\ pairs[k].at = "new" /\ ~Cancelling
  /\ pairs' = [pairs EXCEPT ![k] = [at |-> "mask", case |-> Assignment(k)]]
  /\ counters' = Counted({"attempted"})
  /\ UNCHANGED <<phase, saved, heap, offered, expired, active, task_failed>>

\* request: an answer that is no result, a timeout or an outage.
RequestFails(k) ==
  \/ pairs[k].at = "mask" /\ PairStep(k, "mask_failed", {"latencies", "mask_failed"})
  \/ pairs[k].at = "unmask" /\ PairStep(k, "unmask_failed", {"latencies", "unmask_failed"})

Masked(k) ==
  /\ pairs[k].at = "mask" /\ ~Cancelling
  /\ pairs' = [pairs EXCEPT ![k].at = "unmask"]
  /\ counters' = [Counted({"latencies", "successful", "masked"}) EXCEPT !["attempted"] = @ + 1]
  /\ UNCHANGED <<phase, saved, heap, offered, expired, active, task_failed>>

PairRestored(k) ==
  /\ pairs[k].at = "unmask" /\ ~Cancelling
  /\ \E end \in {"mismatch", "verified"} : PairStep(k, end, {"latencies", "successful", end})

\* An exception that request lets through; its finally still counts the time.
Breaks(k) ==
  /\ pairs[k].at \in {"mask", "unmask"} /\ PairStep(k, "raised", {"latencies"})

Cancelled(k) ==
  /\ Cancelling
  /\ \/ pairs[k].at = "new" /\ PairStep(k, "raised", {})
     \/ Breaks(k)

\* Mutant: the done callback only forgets the task.
Finished_quiet(k) ==
  /\ k \in active /\ pairs[k].at \in Ends \cup {"raised"} /\ active' = active \ {k}
  /\ UNCHANGED <<phase, saved, heap, offered, expired, pairs, task_failed, counters>>

\* schedule.finished, the task's done callback.
Finished(k) ==
  /\ k \in active /\ pairs[k].at \in Ends \cup {"raised"} /\ active' = active \ {k}
  /\ task_failed' = (task_failed \/ pairs[k].at = "raised")
  /\ UNCHANGED <<phase, saved, heap, offered, expired, pairs, counters>>

Moves(from, to) ==
  /\ phase = from /\ phase' = to
  /\ UNCHANGED <<saved, heap, offered, expired, pairs, active, task_failed, counters>>

\* Config.validate or load_corpus: what the run was asked for is refused.
SettingsRefused == Moves("preparing", "refused")

\* main up to the run.  A path in use refuses it too; with prepare-only the report says
\* that nothing was measured.
PrepareRun ==
  \/ saved # {} /\ Moves("preparing", "refused")
  \/ saved = {} /\ \E to \in {"offering", "planned"} : Moves("preparing", to)

\* schedule after its last offer: the rest of the duration, then the drain.
Drain == Len(offered) = OfferedPairs /\ Moves("offering", "draining")

\* The drain is over: a report, or the error that stands for every failed task.
Report == active = {} /\ Moves("draining", IF task_failed THEN "failed" ELSE "reported")

\* schedule's except: whoever waits for the run gives up while it sleeps or drains.
Interrupt == \E from \in {"offering", "draining"} : Moves(from, "cancelling")

RunInterrupted == active = {} /\ Moves("cancelling", "interrupted")

\* Another run writes to the same path; it matters from here on.
PathTaken ==
  /\ phase \in {"planned", "reported"} /\ saved = {} /\ saved' = {"earlier"}
  /\ UNCHANGED <<phase, heap, offered, expired, pairs, active, task_failed, counters>>

\* main after the run: the file is created, never opened, and then written.
WriteReport ==
  /\ phase \in {"planned", "reported"}
  /\ \/ saved = {} /\ saved' = {phase} /\ phase' = "written"
     \/ phase' = "failed" /\ saved' \in {saved, IF saved = {} THEN {"empty"} ELSE saved}
  /\ UNCHANGED <<heap, offered, expired, pairs, active, task_failed, counters>>

\* _CorpusRun.report: what it derives from the counters.
NotAttempted == 2 * counters["offered"] - counters["attempted"]
AllVerified == counters["verified"] = OfferedPairs

BenchNext ==
  \/ SettingsRefused \/ PrepareRun \/ PathTaken \/ WriteReport \/ Offer \/ Drain \/ Report \/ Interrupt \/ RunInterrupted
  \/ \E k \in 1..OfferedPairs :
       Start(k) \/ RequestFails(k) \/ Masked(k) \/ PairRestored(k) \/ Breaks(k) \/ Cancelled(k) \/ Finished(k)

-----------------------------------------------------------------------------
(* Properties.                                                             *)

\* "overload cannot shift later sampling, and coroutine start order cannot change
\* assignments": every offer has drawn one case, dropped or not, and a pair runs the case
\* of its own offer however late it starts.
SamplingIgnoresLoad ==
  /\ counters["offered"] = Len(offered)
  /\ \A k \in 1..OfferedPairs : pairs[k].at # "none" => pairs[k].case = offered[k]

\* WeightedCycle: "Case i has one visit in each interval": after any number of offers no
\* case is a whole cycle of its own ahead of another, whatever the jitter.
CyclesTogether ==
  LET Visits(i) == Cardinality({k \in DOMAIN offered : offered[k] = i}) IN
  \A i, j \in DOMAIN Weights : (Visits(i) - 1) * Weights[j] < (Visits(j) + 1) * Weights[i]

\* _CorpusRun.report, schedule: in a report every offer is dropped for one reason or ends
\* in one way, every request of a pair is counted, and no task that failed is missing,
\* not even one that failed long before the drain.
ReportAddsUp ==
  phase = "reported" \/ "reported" \in saved =>
    LET c == counters IN
    /\ OfferedPairs = c["dispatched"] + c["capacity"] + c["deadline"]
    /\ c["dispatched"] = c["mask_failed"] + c["unmask_failed"] + c["mismatch"] + c["verified"]
    /\ c["attempted"] = c["dispatched"] + c["masked"] /\ c["latencies"] = c["attempted"]
    /\ c["successful"] = c["masked"] + c["mismatch"] + c["verified"]
    /\ NotAttempted = 2 * (c["capacity"] + c["deadline"]) + c["mask_failed"]
    /\ AllVerified <=> c["latencies"] = 2 * OfferedPairs /\ c["mismatch"] + c["unmask_failed"] = 0

\* schedule: when it has ended, in whatever way, none of its pairs is still running.
NoPairOutlivesRun ==
  phase \in {"reported", "written", "failed", "interrupted"} =>
    \A k \in 1..OfferedPairs : pairs[k].at \in Ends \cup {"none", "raised"}

\* "preserve earlier evidence with a new output path": a report never takes the place of
\* another, and what stands at the path as a result was measured by the run.
EvidenceKept ==
  /\ Cardinality(saved) <= 1
  /\ "reported" \in saved => phase = "written" /\ Len(offered) = OfferedPairs

\* The report of a run is about the sampling that was planned, and all of it.
BenchmarkSafe == SamplingIgnoresLoad /\ CyclesTogether /\ ReportAddsUp /\ NoPairOutlivesRun /\ EvidenceKept
=============================================================================
