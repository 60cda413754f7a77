------------------------------ MODULE Evaluation ------------------------------
(***************************************************************************)
(* The protocol of a blind evaluation, main of                             *)
(* scripts/evaluate_external.py (evaluate_redmadrobot.py and               *)
(* evaluate_scanpatch.py follow it): the policy is prepared in a file, the *)
(* first inference leaves a marker that no later one can take, and a       *)
(* report is published only if detector.py did not change under way.       *)
(*                                                                         *)
(* Invocations may overlap and may be interrupted anywhere; detector.py is *)
(* edited at any time, the evaluator only between invocations, and no edit *)
(* restores an earlier version.  The report and the data directory are     *)
(* apart: the repository carries the report and ignores the directory, so  *)
(* a fresh clone has a report and no marker.                               *)
(***************************************************************************)
EXTENDS Integers, Sequences

CONSTANTS
  Evaluations,       \* invocations, numbered as they start
  DetectorVersions,  \* versions of detector.py, in the order of the edits
  Policies           \* versions of the evaluator's policy, in the order of the edits

ASSUME EvaluationAssumption ==
  Evaluations \cup DetectorVersions \cup Policies \subseteq Nat \ {0}

VARIABLES
  evaluation,      \* what each invocation is doing
  detector,        \* the version of detector.py
  evaluator,       \* the policy in the evaluator
  prepared,        \* the policy in prepared-protocol.json, 0 without the file
  marker,          \* first-inference.json, NoMarker without the file
  raw_first,       \* the invocation that wrote predictions-first.jsonl, 0 without the file
  reported,        \* the output exists
  published,       \* history: the reports published
  inferences       \* history: the invocations that went on to infer, in order, and whether
                   \* they gave --repeat if an inference had begun before them

evalvars == <<evaluation, detector, evaluator, prepared, marker, raw_first, reported, published, inferences>>
files == <<prepared, marker, raw_first, reported, published>>

NoMarker == [detector |-> 0, protocol |-> 0]

\* late: the invocation began after an inference had.
NotStarted == [at |-> "start", prepare_only |-> FALSE, repeat |-> FALSE, policy |-> 0, late |-> FALSE,
              detector_hash |-> 0, first_run |-> FALSE, loaded |-> 0]

EvalInit ==
  /\ evaluation = [i \in Evaluations |-> NotStarted]
  /\ detector = 1 /\ evaluator = 1 /\ prepared = 0 /\ marker = NoMarker /\ raw_first = 0
  /\ reported \in BOOLEAN /\ published = {} /\ inferences = <<>>

Goes(i, to) ==
  evaluation' = [evaluation EXCEPT ![i] = IF to = "over" THEN [NotStarted EXCEPT !.at = "over"]
                                          ELSE [@ EXCEPT !.at = to]]
Stays == UNCHANGED <<detector, evaluator>>

\* main: the arguments, --repeat means nothing to a preparation; the policy is the one
\* of the import.
StartEvaluation(i, prepare_only, repeat) ==
  /\ ~(prepare_only /\ repeat)
  /\ evaluation[i].at = "start" /\ \A j \in Evaluations : j < i => evaluation[j].at # "start"
  /\ evaluation' = [evaluation EXCEPT ![i] =
       [@ EXCEPT !.at = "protocol", !.prepare_only = prepare_only, !.repeat = repeat,
                 !.policy = evaluator, !.late = marker # NoMarker]]
  /\ Stays /\ UNCHANGED <<files, inferences>>

\* Mutant: whoever prepares writes the file, marker or not.
Rewrites_always(i) == prepared = 0 \/ evaluation[i].prepare_only

Rewrites(i) == prepared = 0 \/ (evaluation[i].prepare_only /\ marker = NoMarker)

\* The prepared file is written unless it holds, and compared.
PrepareProtocol(i) ==
  /\ evaluation[i].at = "protocol"
  /\ prepared' = IF Rewrites(i) THEN evaluation[i].policy ELSE prepared
  /\ Goes(i, IF prepared' # evaluation[i].policy THEN "over"
              ELSE IF evaluation[i].prepare_only THEN "over" ELSE "gate")
  /\ Stays /\ UNCHANGED <<marker, raw_first, reported, published, inferences>>

Prior == marker # NoMarker \/ reported

\* A prior evaluation needs --repeat.
Gate(i) ==
  /\ evaluation[i].at = "gate"
  /\ Goes(i, IF Prior /\ ~evaluation[i].repeat THEN "over" ELSE "hashing")
  /\ Stays /\ UNCHANGED <<files, inferences>>

FirstRun == marker = NoMarker

\* detector_hash and first_run.
Hash(i) ==
  /\ evaluation[i].at = "hashing"
  /\ evaluation' = [evaluation EXCEPT ![i] =
       [@ EXCEPT !.at = "marking", !.detector_hash = detector, !.first_run = FirstRun]]
  /\ Stays /\ UNCHANGED <<files, inferences>>

Inference(i) == [run |-> i, declared |-> evaluation[i].repeat \/ ~evaluation[i].late]

\* The marker of a first run is created, unless another run has done so meanwhile.
Mark(i) ==
  /\ evaluation[i].at = "marking"
  /\ IF evaluation[i].first_run /\ marker # NoMarker
     THEN Goes(i, "over") /\ UNCHANGED <<marker, inferences>>
     ELSE /\ Goes(i, "loading") /\ inferences' = Append(inferences, Inference(i))
          /\ marker' = IF evaluation[i].first_run
                       THEN [detector |-> evaluation[i].detector_hash, protocol |-> prepared] ELSE marker
  /\ Stays /\ UNCHANGED <<prepared, raw_first, reported, published>>

\* The file of predictions is opened and _infer_corpus imports the detector.
Infer(i) ==
  /\ evaluation[i].at = "loading"
  /\ evaluation' = [evaluation EXCEPT ![i] = [@ EXCEPT !.at = "inferred", !.loaded = detector]]
  /\ raw_first' = IF evaluation[i].first_run THEN i ELSE raw_first
  /\ Stays /\ UNCHANGED <<prepared, marker, reported, published, inferences>>

Unchanged(i) == evaluation[i].detector_hash = detector

\* All is inferred, the detector is hashed again.
Compare(i) ==
  /\ evaluation[i].at = "inferred"
  /\ Goes(i, IF Unchanged(i) THEN "publishing" ELSE "over")
  /\ Stays /\ UNCHANGED <<files, inferences>>

Publish(i) ==
  /\ evaluation[i].at = "publishing"
  /\ Goes(i, "over") /\ reported' = TRUE
  /\ published' = published \cup
       {[run |-> i, first |-> evaluation[i].first_run, detector |-> evaluation[i].detector_hash,
         loaded |-> evaluation[i].loaded, policy |-> evaluation[i].policy, protocol |-> prepared, over |-> reported]}
  /\ Stays /\ UNCHANGED <<prepared, marker, raw_first, inferences>>

Over == {"start", "over"}

\* An invocation is interrupted, or a step of it raises.
EvaluationStops(i) ==
  /\ evaluation[i].at \notin Over
  /\ Goes(i, "over") /\ Stays /\ UNCHANGED <<files, inferences>>

EditDetector ==
  /\ detector + 1 \in DetectorVersions /\ detector' = detector + 1
  /\ UNCHANGED <<evaluation, evaluator, files, inferences>>

EditEvaluator ==
  /\ \A i \in Evaluations : evaluation[i].at \in Over
  /\ evaluator + 1 \in Policies /\ evaluator' = evaluator + 1
  /\ UNCHANGED <<evaluation, detector, files, inferences>>

EvalNext ==
  \/ \E i \in Evaluations :
       \/ \E prepare_only \in BOOLEAN, repeat \in BOOLEAN :
            StartEvaluation(i, prepare_only, repeat)
       \/ PrepareProtocol(i) \/ Gate(i) \/ Hash(i) \/ Mark(i)
       \/ Infer(i) \/ Compare(i) \/ Publish(i) \/ EvaluationStops(i)
  \/ EditDetector \/ EditEvaluator

-----------------------------------------------------------------------------
(* Properties.                                                             *)

\* main: a report that calls itself the first is of the first invocation that inferred
\* in its data directory, interrupted ones included, however the invocations overlap.
OneBlindResult == \A r \in published : r.first => r.run = inferences[1].run

\* main: the predictions behind a first report, whose digest it carries, are never
\* written again.
FirstPredictionsKept == \A r \in published : r.first => raw_first = r.run

\* main: a report names the detector that made it, although detector.py may be edited
\* between the hash and its import, and while it infers.
ReportMatchesItsCode == \A r \in published : r.detector = r.loaded

\* main: "do not silently change evaluation policy": every report of a data directory
\* follows the policy that its first inference was marked with.
PolicyFixed == \A r \in published : {r.policy, r.protocol} = {marker.protocol}

\* main: an invocation that begins after an inference, even one that never reported,
\* infers only with --repeat.
RepeatsAreDeclared == \A k \in DOMAIN inferences : inferences[k].declared

\* main: "A prior evaluation exists; use --repeat and report it as reproduction /
\* development, never a new blind result": no first report replaces a report.
NeverBlindAgain == \A r \in published : r.first => ~r.over

\* The protocol as a whole, without NeverBlindAgain, which the code does not keep.
EvaluationSafe ==
  OneBlindResult /\ FirstPredictionsKept /\ ReportMatchesItsCode /\ PolicyFixed /\ RepeatsAreDeclared
=============================================================================
