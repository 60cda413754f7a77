----------------------------- MODULE ToolsProofs -----------------------------
(***************************************************************************)
(* What the operator's tools and the demo page keep, for any number of     *)
(* invocations, attempts, edits and operations.  Each tool runs on its     *)
(* own, so that each theorem is about the steps of one of them.            *)
(***************************************************************************)
EXTENDS LocalRedis, FailoverCheck, WebDemo, Benchmark, Evaluation, FiniteSetTheorems,
        WellFoundedInduction, NaturalsInduction, TLAPS

-----------------------------------------------------------------------------
(* Blind evaluation.                                                       *)

EvalSpec == EvalInit /\ [][EvalNext]_evalvars

Stages == {"start", "protocol", "gate", "hashing", "marking", "loading", "inferred", "publishing", "over"}

Evaluating ==
  [at : Stages, prepare_only : BOOLEAN, repeat : BOOLEAN, policy : Nat, late : BOOLEAN,
   detector_hash : Nat, first_run : BOOLEAN, loaded : Nat]

EvalTypeOK ==
  /\ evaluation \in [Evaluations -> Evaluating]
  /\ detector \in Nat \ {0} /\ evaluator \in Nat \ {0}
  /\ prepared \in Nat /\ raw_first \in Nat
  /\ marker \in [detector : Nat, protocol : Nat]
  /\ reported \in BOOLEAN
  /\ inferences \in Seq([run : Evaluations, declared : BOOLEAN])

\* The stages from the gate on, from the mark on, and from the predictions on.
Compared == {"gate", "hashing", "marking", "loading", "inferred", "publishing"}
Marked == {"loading", "inferred", "publishing"}
Predicted == {"inferred", "publishing"}

\* An invocation under way has the policy of the evaluator, and from its gate on the
\* prepared file has it too; what began late passed its gate with --repeat.
PolicyHeld(i) ==
  /\ evaluation[i].at \notin Over => evaluation[i].policy = evaluator
  /\ evaluation[i].at \in Compared => prepared = evaluation[i].policy
  /\ evaluation[i].late => marker # NoMarker
  /\ evaluation[i].at \in Compared \ {"gate"} => (evaluation[i].late => evaluation[i].repeat)

\* Who is not the first saw a marker; who is the first and went on made the marker, leads
\* the inferences, and from its predictions on owns the file of the first predictions.
FirstHeld(i) ==
  /\ evaluation[i].at = "marking" => (evaluation[i].first_run \/ marker # NoMarker)
  /\ evaluation[i].at \in Marked =>
       /\ marker # NoMarker
       /\ evaluation[i].first_run => inferences[1].run = i
  /\ evaluation[i].at \in Predicted /\ evaluation[i].first_run => raw_first = i

\* Versions only go up: the one that was loaded lies between the one that was hashed
\* first and the one of now.
VersionHeld(i) ==
  /\ evaluation[i].at \in Marked \cup {"marking"} => evaluation[i].detector_hash \in 1..detector
  /\ evaluation[i].at \in Predicted => evaluation[i].loaded \in evaluation[i].detector_hash..detector
  /\ evaluation[i].at = "publishing" => evaluation[i].detector_hash = evaluation[i].loaded

\* The marker is there from the first inference on, with the policy of the prepared file.
MarkerHeld ==
  /\ marker = NoMarker <=> inferences = <<>>
  /\ marker # NoMarker => prepared # 0 /\ marker.protocol = prepared

ReportHeld(r) ==
  /\ marker # NoMarker
  /\ r.first => r.run = inferences[1].run /\ raw_first = r.run
  /\ r.detector = r.loaded
  /\ r.policy = marker.protocol /\ r.protocol = marker.protocol

EvalInv ==
  /\ EvalTypeOK
  /\ \A i \in Evaluations : PolicyHeld(i) /\ FirstHeld(i) /\ VersionHeld(i)
  /\ MarkerHeld
  /\ \A r \in published : ReportHeld(r)
  /\ RepeatsAreDeclared

LEMMA GoesTyped ==
  ASSUME evaluation \in [Evaluations -> Evaluating], NEW i \in Evaluations, NEW to \in Stages, Goes(i, to)
  PROVE  evaluation' \in [Evaluations -> Evaluating]
<1>1. [NotStarted EXCEPT !.at = "over"] \in Evaluating
  BY DEF NotStarted, Evaluating, Stages
<1>2. [evaluation[i] EXCEPT !.at = to] \in Evaluating
  BY DEF Evaluating
<1>3. QED  BY <1>1, <1>2 DEF Goes

LEMMA StartEvaluationHeld ==
  ASSUME EvalInv, NEW i \in Evaluations, NEW prepare_only \in BOOLEAN, NEW repeat \in BOOLEAN,
         StartEvaluation(i, prepare_only, repeat)
  PROVE  EvalInv'
<1>1. EvalTypeOK'
  <2>1. evaluation[i] \in Evaluating /\ evaluator \in Nat /\ (marker # NoMarker) \in BOOLEAN
    BY DEF EvalInv, EvalTypeOK
  <2>2. [evaluation[i] EXCEPT !.at = "protocol", !.prepare_only = prepare_only, !.repeat = repeat,
                             !.policy = evaluator, !.late = marker # NoMarker] \in Evaluating
    BY <2>1 DEF Evaluating, Stages
  <2>3. evaluation' \in [Evaluations -> Evaluating]
    BY <2>2 DEF EvalInv, EvalTypeOK, StartEvaluation
  <2>4. QED  BY <2>3 DEF StartEvaluation, Stays, files, EvalInv, EvalTypeOK, Evaluating, NoMarker
<1>2. ASSUME NEW j \in Evaluations PROVE PolicyHeld(j)'
  BY DEF StartEvaluation, Goes, Stays, files, EvalInv, EvalTypeOK, Stages, NotStarted, Over,
       PolicyHeld, Compared, MarkerHeld, NoMarker
<1>3. ASSUME NEW j \in Evaluations PROVE FirstHeld(j)'
  BY DEF StartEvaluation, Goes, Stays, files, EvalInv, EvalTypeOK, Stages, NotStarted, Over,
       FirstHeld, Marked, Predicted, MarkerHeld, NoMarker
<1>4. ASSUME NEW j \in Evaluations PROVE VersionHeld(j)'
  BY DEF StartEvaluation, Goes, Stays, files, EvalInv, EvalTypeOK, Stages, NotStarted, Over,
       VersionHeld, Marked, Predicted
<1>5. MarkerHeld'
  BY DEF StartEvaluation, Goes, Stays, files, EvalInv, EvalTypeOK, MarkerHeld, NoMarker, PolicyHeld,
       Over, Compared
<1>6. ASSUME NEW r \in published' PROVE ReportHeld(r)'
  BY DEF StartEvaluation, Goes, Stays, files, EvalInv, EvalTypeOK, ReportHeld, MarkerHeld, FirstHeld,
       VersionHeld, PolicyHeld, Compared, Marked, Predicted, NoMarker
<1>7. RepeatsAreDeclared'
  BY DEF StartEvaluation, Goes, Stays, files, EvalInv, EvalTypeOK, RepeatsAreDeclared, PolicyHeld,
       Compared
<1>8. QED  BY <1>1, <1>2, <1>3, <1>4, <1>5, <1>6, <1>7 DEF EvalInv

LEMMA PrepareProtocolHeld ==
  ASSUME EvalInv, NEW i \in Evaluations, PrepareProtocol(i)
  PROVE  EvalInv'
<1>1. EvalTypeOK'
  <2>3. evaluation' \in [Evaluations -> Evaluating]
    BY GoesTyped DEF EvalInv, EvalTypeOK, PrepareProtocol, Stages
  <2>4. QED  BY <2>3 DEF PrepareProtocol, Rewrites, Stays, files, EvalInv, EvalTypeOK, Evaluating,
                  NoMarker
<1>2. ASSUME NEW j \in Evaluations PROVE PolicyHeld(j)'
  BY DEF PrepareProtocol, Rewrites, Goes, Stays, files, EvalInv, EvalTypeOK, Stages, NotStarted, Over,
       PolicyHeld, Compared, MarkerHeld, NoMarker
<1>3. ASSUME NEW j \in Evaluations PROVE FirstHeld(j)'
  BY DEF PrepareProtocol, Rewrites, Goes, Stays, files, EvalInv, EvalTypeOK, Stages, NotStarted, Over,
       FirstHeld, Marked, Predicted, MarkerHeld, NoMarker
<1>4. ASSUME NEW j \in Evaluations PROVE VersionHeld(j)'
  BY DEF PrepareProtocol, Rewrites, Goes, Stays, files, EvalInv, EvalTypeOK, Stages, NotStarted, Over,
       VersionHeld, Marked, Predicted
<1>5. MarkerHeld'
  BY DEF PrepareProtocol, Rewrites, Goes, Stays, files, EvalInv, EvalTypeOK, MarkerHeld, NoMarker,
       PolicyHeld, Over, Compared
<1>6. ASSUME NEW r \in published' PROVE ReportHeld(r)'
  BY DEF PrepareProtocol, Rewrites, Goes, Stays, files, EvalInv, EvalTypeOK, ReportHeld, MarkerHeld,
       FirstHeld, VersionHeld, PolicyHeld, Compared, Marked, Predicted, NoMarker
<1>7. RepeatsAreDeclared'
  BY DEF PrepareProtocol, Rewrites, Goes, Stays, files, EvalInv, EvalTypeOK, RepeatsAreDeclared,
       PolicyHeld, Compared
<1>8. QED  BY <1>1, <1>2, <1>3, <1>4, <1>5, <1>6, <1>7 DEF EvalInv

LEMMA GateHeld ==
  ASSUME EvalInv, NEW i \in Evaluations, Gate(i)
  PROVE  EvalInv'
<1>1. EvalTypeOK'
  <2>3. evaluation' \in [Evaluations -> Evaluating]
    BY GoesTyped DEF EvalInv, EvalTypeOK, Gate, Stages
  <2>4. QED  BY <2>3 DEF Gate, Prior, Stays, files, EvalInv, EvalTypeOK, Evaluating, NoMarker
<1>2. ASSUME NEW j \in Evaluations PROVE PolicyHeld(j)'
  BY DEF Gate, Prior, Goes, Stays, files, EvalInv, EvalTypeOK, Stages, NotStarted, Over, PolicyHeld,
       Compared, MarkerHeld, NoMarker
<1>3. ASSUME NEW j \in Evaluations PROVE FirstHeld(j)'
  BY DEF Gate, Prior, Goes, Stays, files, EvalInv, EvalTypeOK, Stages, NotStarted, Over, FirstHeld,
       Marked, Predicted, MarkerHeld, NoMarker
<1>4. ASSUME NEW j \in Evaluations PROVE VersionHeld(j)'
  BY DEF Gate, Prior, Goes, Stays, files, EvalInv, EvalTypeOK, Stages, NotStarted, Over, VersionHeld,
       Marked, Predicted
<1>5. MarkerHeld'
  BY DEF Gate, Prior, Goes, Stays, files, EvalInv, EvalTypeOK, MarkerHeld, NoMarker, PolicyHeld, Over,
       Compared
<1>6. ASSUME NEW r \in published' PROVE ReportHeld(r)'
  BY DEF Gate, Prior, Goes, Stays, files, EvalInv, EvalTypeOK, ReportHeld, MarkerHeld, FirstHeld,
       VersionHeld, PolicyHeld, Compared, Marked, Predicted, NoMarker
<1>7. RepeatsAreDeclared'
  BY DEF Gate, Prior, Goes, Stays, files, EvalInv, EvalTypeOK, RepeatsAreDeclared, PolicyHeld, Compared
<1>8. QED  BY <1>1, <1>2, <1>3, <1>4, <1>5, <1>6, <1>7 DEF EvalInv

LEMMA HashHeld ==
  ASSUME EvalInv, NEW i \in Evaluations, Hash(i)
  PROVE  EvalInv'
<1>1. EvalTypeOK'
  <2>1. evaluation[i] \in Evaluating /\ detector \in Nat /\ FirstRun \in BOOLEAN
    BY DEF EvalInv, EvalTypeOK, FirstRun
  <2>2. [evaluation[i] EXCEPT !.at = "marking", !.detector_hash = detector, !.first_run = FirstRun] \in Evaluating
    BY <2>1 DEF Evaluating, Stages
  <2>3. evaluation' \in [Evaluations -> Evaluating]
    BY <2>2 DEF EvalInv, EvalTypeOK, Hash
  <2>4. QED  BY <2>3 DEF Hash, FirstRun, Stays, files, EvalInv, EvalTypeOK, Evaluating, NoMarker
<1>2. ASSUME NEW j \in Evaluations PROVE PolicyHeld(j)'
  BY DEF Hash, FirstRun, Goes, Stays, files, EvalInv, EvalTypeOK, Stages, NotStarted, Over,
       PolicyHeld, Compared, MarkerHeld, NoMarker
<1>3. ASSUME NEW j \in Evaluations PROVE FirstHeld(j)'
  BY DEF Hash, FirstRun, Goes, Stays, files, EvalInv, EvalTypeOK, Evaluating, Stages, NotStarted,
       Over, FirstHeld, Marked, Predicted, MarkerHeld, NoMarker
<1>4. ASSUME NEW j \in Evaluations PROVE VersionHeld(j)'
  BY DEF Hash, FirstRun, Goes, Stays, files, EvalInv, EvalTypeOK, Stages, NotStarted, Over,
       VersionHeld, Marked, Predicted
<1>5. MarkerHeld'
  BY DEF Hash, FirstRun, Goes, Stays, files, EvalInv, EvalTypeOK, MarkerHeld, NoMarker, PolicyHeld,
       Over, Compared
<1>6. ASSUME NEW r \in published' PROVE ReportHeld(r)'
  BY DEF Hash, FirstRun, Goes, Stays, files, EvalInv, EvalTypeOK, ReportHeld, MarkerHeld, FirstHeld,
       VersionHeld, PolicyHeld, Compared, Marked, Predicted, NoMarker
<1>7. RepeatsAreDeclared'
  BY DEF Hash, FirstRun, Goes, Stays, files, EvalInv, EvalTypeOK, RepeatsAreDeclared, PolicyHeld,
       Compared
<1>8. QED  BY <1>1, <1>2, <1>3, <1>4, <1>5, <1>6, <1>7 DEF EvalInv

LEMMA MarkHeld ==
  ASSUME EvalInv, NEW i \in Evaluations, Mark(i)
  PROVE  EvalInv'
<1>a. CASE evaluation[i].first_run /\ marker # NoMarker
  <2>1. Goes(i, "over") /\ Stays /\ UNCHANGED <<files, inferences>>
    BY <1>a DEF Mark, files
  <2>2. evaluation' \in [Evaluations -> Evaluating]
    BY <2>1, GoesTyped DEF EvalInv, EvalTypeOK, Stages
  <2>3. EvalTypeOK'
    BY <2>1, <2>2 DEF Stays, files, EvalInv, EvalTypeOK
  <2>4. ASSUME NEW j \in Evaluations PROVE PolicyHeld(j)'
    BY <2>1 DEF Goes, Stays, files, EvalInv, EvalTypeOK, NotStarted, Over, PolicyHeld, Compared,
         MarkerHeld, NoMarker
  <2>5. ASSUME NEW j \in Evaluations PROVE FirstHeld(j)'
    BY <2>1 DEF Goes, Stays, files, EvalInv, EvalTypeOK, NotStarted, Over, FirstHeld, Marked, Predicted
  <2>6. ASSUME NEW j \in Evaluations PROVE VersionHeld(j)'
    BY <2>1 DEF Goes, Stays, files, EvalInv, EvalTypeOK, NotStarted, Over, VersionHeld, Marked, Predicted
  <2>7. MarkerHeld'
    BY <2>1 DEF files, EvalInv, MarkerHeld
  <2>8. ASSUME NEW r \in published' PROVE ReportHeld(r)'
    BY <2>1 DEF files, EvalInv, ReportHeld
  <2>9. RepeatsAreDeclared'
    BY <2>1 DEF EvalInv, RepeatsAreDeclared
  <2>10. QED  BY <2>3, <2>4, <2>5, <2>6, <2>7, <2>8, <2>9 DEF EvalInv
<1>b. CASE ~(evaluation[i].first_run /\ marker # NoMarker)
  <2> DEFINE mine == Inference(i)
  <2>1. /\ evaluation[i].at = "marking" /\ Goes(i, "loading") /\ Stays
        /\ inferences' = Append(inferences, mine)
        /\ marker' = IF evaluation[i].first_run
                     THEN [detector |-> evaluation[i].detector_hash, protocol |-> prepared] ELSE marker
        /\ UNCHANGED <<prepared, raw_first, reported, published>>
    BY <1>b DEF Mark
  <2>2. evaluation' \in [Evaluations -> Evaluating]
    BY <2>1, GoesTyped DEF EvalInv, EvalTypeOK, Stages
  <2>3. evaluation[i] \in Evaluating /\ marker \in [detector : Nat, protocol : Nat] /\ prepared \in Nat
    BY DEF EvalInv, EvalTypeOK
  <2>4. mine \in [run : Evaluations, declared : BOOLEAN] /\ mine.run = i
        /\ mine.declared = (evaluation[i].repeat \/ ~evaluation[i].late)
    BY <2>3 DEF Inference, Evaluating
  <2> HIDE DEF mine
  <2>5. inferences \in Seq([run : Evaluations, declared : BOOLEAN])
    BY DEF EvalInv, EvalTypeOK
  <2>6. /\ inferences' \in Seq([run : Evaluations, declared : BOOLEAN])
        /\ inferences' # <<>>
        /\ inferences = <<>> => inferences'[1] = mine
        /\ inferences # <<>> => inferences'[1] = inferences[1]
        /\ \A k \in DOMAIN inferences' :
             inferences'[k] = mine \/ (k \in DOMAIN inferences /\ inferences'[k] = inferences[k])
    BY <2>1, <2>4, <2>5
  <2>7. prepared = evaluation[i].policy /\ prepared # 0
    <3>1. PolicyHeld(i) /\ evaluator \in Nat \ {0}
      BY DEF EvalInv, EvalTypeOK
    <3>2. QED  BY <2>1, <3>1 DEF PolicyHeld, Compared, Over
  <2>8. /\ marker' \in [detector : Nat, protocol : Nat] /\ marker' # NoMarker
        /\ marker'.protocol = prepared
        /\ marker # NoMarker => marker' = marker
        /\ marker = NoMarker <=> inferences = <<>>
        /\ marker = NoMarker => evaluation[i].first_run
        /\ evaluation[i].first_run => marker = NoMarker
    <3>1. FirstHeld(i) /\ MarkerHeld
      BY DEF EvalInv
    <3>2. evaluation[i].first_run => marker = NoMarker
      BY <1>b
    <3>3. QED  BY <2>1, <2>3, <2>7, <3>1, <3>2 DEF FirstHeld, MarkerHeld, NoMarker, Evaluating
  <2>9. EvalTypeOK'
    BY <2>1, <2>2, <2>6, <2>8 DEF Stays, EvalInv, EvalTypeOK
  <2>10. ASSUME NEW j \in Evaluations PROVE PolicyHeld(j)'
    BY <2>1, <2>8 DEF Goes, Stays, EvalInv, EvalTypeOK, NotStarted, Over, PolicyHeld, Compared
  <2>11. ASSUME NEW j \in Evaluations PROVE FirstHeld(j)'
    <3>1. FirstHeld(j)
      BY DEF EvalInv
    <3>2. CASE j = i
      <4>1. evaluation'[j].at = "loading" /\ evaluation'[j].first_run = evaluation[i].first_run
        BY <3>2, <2>1, <2>3 DEF Goes, EvalInv, EvalTypeOK, Evaluating
      <4>2. evaluation[i].first_run => inferences'[1].run = i
        BY <2>8, <2>6, <2>4
      <4>3. QED  BY <4>1, <4>2, <3>2, <2>8 DEF FirstHeld, Marked, Predicted
    <3>3. CASE j # i
      <4>1. evaluation'[j] = evaluation[j] /\ raw_first' = raw_first
        BY <3>3, <2>1 DEF Goes, EvalInv, EvalTypeOK
      <4>2. QED  BY <4>1, <3>1, <2>6, <2>8 DEF FirstHeld
    <3>4. QED  BY <3>2, <3>3
  <2>12. ASSUME NEW j \in Evaluations PROVE VersionHeld(j)'
    BY <2>1 DEF Goes, Stays, EvalInv, EvalTypeOK, Evaluating, NotStarted, Over, VersionHeld, Marked,
         Predicted
  <2>13. MarkerHeld'
    BY <2>1, <2>6, <2>7, <2>8 DEF MarkerHeld
  <2>14. ASSUME NEW r \in published' PROVE ReportHeld(r)'
    BY <2>1, <2>6, <2>8 DEF EvalInv, ReportHeld
  <2>15. RepeatsAreDeclared'
    <3>1. mine.declared
      BY <2>1, <2>3, <2>4 DEF EvalInv, PolicyHeld, Compared, Evaluating
    <3>2. QED  BY <3>1, <2>6 DEF EvalInv, RepeatsAreDeclared
  <2>16. QED  BY <2>9, <2>10, <2>11, <2>12, <2>13, <2>14, <2>15 DEF EvalInv
<1>c. QED  BY <1>a, <1>b

LEMMA InferHeld ==
  ASSUME EvalInv, NEW i \in Evaluations, Infer(i)
  PROVE  EvalInv'
<1>1. EvalTypeOK'
  <2>1. evaluation[i] \in Evaluating /\ detector \in Nat
    BY DEF EvalInv, EvalTypeOK
  <2>2. [evaluation[i] EXCEPT !.at = "inferred", !.loaded = detector] \in Evaluating
    BY <2>1 DEF Evaluating, Stages
  <2>3. evaluation' \in [Evaluations -> Evaluating]
    BY <2>2 DEF EvalInv, EvalTypeOK, Infer
  <2>4. QED  BY <2>3, EvaluationAssumption DEF Infer, Stays, files, EvalInv, EvalTypeOK, Evaluating,
                  NoMarker
<1>2. ASSUME NEW j \in Evaluations PROVE PolicyHeld(j)'
  BY DEF Infer, Goes, Stays, files, EvalInv, EvalTypeOK, Stages, NotStarted, Over, PolicyHeld,
       Compared, MarkerHeld, NoMarker
<1>3. ASSUME NEW j \in Evaluations PROVE FirstHeld(j)'
  BY DEF Infer, Goes, Stays, files, EvalInv, EvalTypeOK, Stages, NotStarted, Over, FirstHeld, Marked,
       Predicted, MarkerHeld, NoMarker
<1>4. ASSUME NEW j \in Evaluations PROVE VersionHeld(j)'
  BY DEF Infer, Goes, Stays, files, EvalInv, EvalTypeOK, Stages, NotStarted, Over, VersionHeld,
       Marked, Predicted
<1>5. MarkerHeld'
  BY DEF Infer, Goes, Stays, files, EvalInv, EvalTypeOK, MarkerHeld, NoMarker, PolicyHeld, Over, Compared
<1>6. ASSUME NEW r \in published' PROVE ReportHeld(r)'
  BY DEF Infer, Goes, Stays, files, EvalInv, EvalTypeOK, ReportHeld, MarkerHeld, FirstHeld,
       VersionHeld, PolicyHeld, Compared, Marked, Predicted, NoMarker
<1>7. RepeatsAreDeclared'
  BY DEF Infer, Goes, Stays, files, EvalInv, EvalTypeOK, RepeatsAreDeclared, PolicyHeld, Compared
<1>8. QED  BY <1>1, <1>2, <1>3, <1>4, <1>5, <1>6, <1>7 DEF EvalInv

LEMMA CompareHeld ==
  ASSUME EvalInv, NEW i \in Evaluations, Compare(i)
  PROVE  EvalInv'
<1>1. EvalTypeOK'
  <2>3. evaluation' \in [Evaluations -> Evaluating]
    BY GoesTyped DEF EvalInv, EvalTypeOK, Compare, Stages
  <2>4. QED  BY <2>3 DEF Compare, Unchanged, Stays, files, EvalInv, EvalTypeOK, Evaluating, NoMarker
<1>2. ASSUME NEW j \in Evaluations PROVE PolicyHeld(j)'
  BY DEF Compare, Unchanged, Goes, Stays, files, EvalInv, EvalTypeOK, Stages, NotStarted, Over,
       PolicyHeld, Compared, MarkerHeld, NoMarker
<1>3. ASSUME NEW j \in Evaluations PROVE FirstHeld(j)'
  BY DEF Compare, Unchanged, Goes, Stays, files, EvalInv, EvalTypeOK, Stages, NotStarted, Over,
       FirstHeld, Marked, Predicted, MarkerHeld, NoMarker
<1>4. ASSUME NEW j \in Evaluations PROVE VersionHeld(j)'
  BY DEF Compare, Unchanged, Goes, Stays, files, EvalInv, EvalTypeOK, Stages, NotStarted, Over,
       VersionHeld, Marked, Predicted
<1>5. MarkerHeld'
  BY DEF Compare, Unchanged, Goes, Stays, files, EvalInv, EvalTypeOK, MarkerHeld, NoMarker,
       PolicyHeld, Over, Compared
<1>6. ASSUME NEW r \in published' PROVE ReportHeld(r)'
  BY DEF Compare, Unchanged, Goes, Stays, files, EvalInv, EvalTypeOK, ReportHeld, MarkerHeld,
       FirstHeld, VersionHeld, PolicyHeld, Compared, Marked, Predicted, NoMarker
<1>7. RepeatsAreDeclared'
  BY DEF Compare, Unchanged, Goes, Stays, files, EvalInv, EvalTypeOK, RepeatsAreDeclared, PolicyHeld,
       Compared
<1>8. QED  BY <1>1, <1>2, <1>3, <1>4, <1>5, <1>6, <1>7 DEF EvalInv

LEMMA PublishHeld ==
  ASSUME EvalInv, NEW i \in Evaluations, Publish(i)
  PROVE  EvalInv'
<1>1. EvalTypeOK'
  <2>3. evaluation' \in [Evaluations -> Evaluating]
    BY GoesTyped DEF EvalInv, EvalTypeOK, Publish, Stages
  <2>4. QED  BY <2>3 DEF Publish, Stays, files, EvalInv, EvalTypeOK, Evaluating, NoMarker
<1>2. ASSUME NEW j \in Evaluations PROVE PolicyHeld(j)'
  BY DEF Publish, Goes, Stays, files, EvalInv, EvalTypeOK, Stages, NotStarted, Over, PolicyHeld,
       Compared, MarkerHeld, NoMarker
<1>3. ASSUME NEW j \in Evaluations PROVE FirstHeld(j)'
  BY DEF Publish, Goes, Stays, files, EvalInv, EvalTypeOK, Stages, NotStarted, Over, FirstHeld,
       Marked, Predicted, MarkerHeld, NoMarker
<1>4. ASSUME NEW j \in Evaluations PROVE VersionHeld(j)'
  BY DEF Publish, Goes, Stays, files, EvalInv, EvalTypeOK, Stages, NotStarted, Over, VersionHeld,
       Marked, Predicted
<1>5. MarkerHeld'
  BY DEF Publish, Goes, Stays, files, EvalInv, EvalTypeOK, MarkerHeld, NoMarker, PolicyHeld, Over,
       Compared
<1>6. ASSUME NEW r \in published' PROVE ReportHeld(r)'
  BY DEF Publish, Goes, Stays, files, EvalInv, EvalTypeOK, ReportHeld, MarkerHeld, FirstHeld,
       VersionHeld, PolicyHeld, Compared, Marked, Predicted, NoMarker
<1>7. RepeatsAreDeclared'
  BY DEF Publish, Goes, Stays, files, EvalInv, EvalTypeOK, RepeatsAreDeclared, PolicyHeld, Compared
<1>8. QED  BY <1>1, <1>2, <1>3, <1>4, <1>5, <1>6, <1>7 DEF EvalInv

LEMMA EvaluationStopsHeld ==
  ASSUME EvalInv, NEW i \in Evaluations, EvaluationStops(i)
  PROVE  EvalInv'
<1>1. EvalTypeOK'
  <2>3. evaluation' \in [Evaluations -> Evaluating]
    BY GoesTyped DEF EvalInv, EvalTypeOK, EvaluationStops, Stages
  <2>4. QED  BY <2>3 DEF EvaluationStops, Stays, files, EvalInv, EvalTypeOK, Evaluating, NoMarker
<1>2. ASSUME NEW j \in Evaluations PROVE PolicyHeld(j)'
  BY DEF EvaluationStops, Goes, Stays, files, EvalInv, EvalTypeOK, Stages, NotStarted, Over,
       PolicyHeld, Compared, MarkerHeld, NoMarker
<1>3. ASSUME NEW j \in Evaluations PROVE FirstHeld(j)'
  BY DEF EvaluationStops, Goes, Stays, files, EvalInv, EvalTypeOK, Stages, NotStarted, Over,
       FirstHeld, Marked, Predicted, MarkerHeld, NoMarker
<1>4. ASSUME NEW j \in Evaluations PROVE VersionHeld(j)'
  BY DEF EvaluationStops, Goes, Stays, files, EvalInv, EvalTypeOK, Stages, NotStarted, Over,
       VersionHeld, Marked, Predicted
<1>5. MarkerHeld'
  BY DEF EvaluationStops, Goes, Stays, files, EvalInv, EvalTypeOK, MarkerHeld, NoMarker, PolicyHeld,
       Over, Compared
<1>6. ASSUME NEW r \in published' PROVE ReportHeld(r)'
  BY DEF EvaluationStops, Goes, Stays, files, EvalInv, EvalTypeOK, ReportHeld, MarkerHeld, FirstHeld,
       VersionHeld, PolicyHeld, Compared, Marked, Predicted, NoMarker
<1>7. RepeatsAreDeclared'
  BY DEF EvaluationStops, Goes, Stays, files, EvalInv, EvalTypeOK, RepeatsAreDeclared, PolicyHeld,
       Compared
<1>8. QED  BY <1>1, <1>2, <1>3, <1>4, <1>5, <1>6, <1>7 DEF EvalInv
LEMMA EvalStarts ==
  EvalInit => EvalInv
<1>1. SUFFICES ASSUME EvalInit PROVE EvalInv
  OBVIOUS
<1>2. EvalTypeOK
  <2>1. NotStarted \in Evaluating
    BY DEF NotStarted, Evaluating, Stages
  <2>2. QED  BY <1>1, <2>1 DEF EvalInit, EvalTypeOK, NoMarker
<1>3. \A i \in Evaluations : PolicyHeld(i) /\ FirstHeld(i) /\ VersionHeld(i)
  BY <1>1 DEF EvalInit, NotStarted, PolicyHeld, FirstHeld, VersionHeld, Over, Compared, Marked, Predicted
<1>4. MarkerHeld /\ RepeatsAreDeclared /\ \A r \in published : ReportHeld(r)
  BY <1>1 DEF EvalInit, MarkerHeld, RepeatsAreDeclared
<1>5. QED  BY <1>2, <1>3, <1>4 DEF EvalInv

LEMMA EditsHeld ==
  ASSUME EvalInv, EditDetector \/ EditEvaluator
  PROVE  EvalInv'
<1>1. EvalTypeOK'
  BY DEF EditDetector, EditEvaluator, files, EvalInv, EvalTypeOK
<1>2. ASSUME NEW i \in Evaluations PROVE (PolicyHeld(i) /\ FirstHeld(i) /\ VersionHeld(i))'
  <2>1. PolicyHeld(i) /\ FirstHeld(i) /\ VersionHeld(i) /\ detector \in Nat /\ evaluation[i] \in Evaluating
    BY DEF EvalInv, EvalTypeOK
  <2>2. UNCHANGED <<evaluation, files, inferences>> /\ detector' \in {detector, detector + 1}
    BY DEF EditDetector, EditEvaluator
  <2>3. evaluation[i].at \notin Over => evaluator' = evaluator
    BY DEF EditDetector, EditEvaluator
  <2>4. PolicyHeld(i)' /\ FirstHeld(i)'
    BY <2>1, <2>2, <2>3 DEF files, PolicyHeld, FirstHeld
  <2>5. VersionHeld(i)'
    BY <2>1, <2>2 DEF VersionHeld, Evaluating
  <2>6. QED  BY <2>4, <2>5
<1>3. MarkerHeld' /\ RepeatsAreDeclared' /\ \A r \in published' : ReportHeld(r)'
  BY DEF EditDetector, EditEvaluator, files, EvalInv, MarkerHeld, RepeatsAreDeclared, ReportHeld
<1>4. QED  BY <1>1, <1>2, <1>3 DEF EvalInv

LEMMA EvalSteps ==
  EvalInv /\ [EvalNext]_evalvars => EvalInv'
<1> SUFFICES ASSUME EvalInv, [EvalNext]_evalvars PROVE EvalInv'
  OBVIOUS
<1>1. ASSUME NEW i \in Evaluations, NEW prepare_only \in BOOLEAN, NEW repeat \in BOOLEAN,
             StartEvaluation(i, prepare_only, repeat)
      PROVE EvalInv'
  BY <1>1, StartEvaluationHeld
<1>2. ASSUME NEW i \in Evaluations, PrepareProtocol(i) PROVE EvalInv'
  BY <1>2, PrepareProtocolHeld
<1>3. ASSUME NEW i \in Evaluations, Gate(i) PROVE EvalInv'
  BY <1>3, GateHeld
<1>4. ASSUME NEW i \in Evaluations, Hash(i) PROVE EvalInv'
  BY <1>4, HashHeld
<1>5. ASSUME NEW i \in Evaluations, Mark(i) PROVE EvalInv'
  BY <1>5, MarkHeld
<1>6. ASSUME NEW i \in Evaluations, Infer(i) PROVE EvalInv'
  BY <1>6, InferHeld
<1>7. ASSUME NEW i \in Evaluations, Compare(i) PROVE EvalInv'
  BY <1>7, CompareHeld
<1>8. ASSUME NEW i \in Evaluations, Publish(i) PROVE EvalInv'
  BY <1>8, PublishHeld
<1>9. ASSUME NEW i \in Evaluations, EvaluationStops(i) PROVE EvalInv'
  BY <1>9, EvaluationStopsHeld
<1>10. CASE EditDetector \/ EditEvaluator
  BY <1>10, EditsHeld
<1>11. CASE UNCHANGED evalvars
  BY <1>11 DEF evalvars, EvalInv, EvalTypeOK, PolicyHeld, FirstHeld, VersionHeld, MarkerHeld,
               ReportHeld, RepeatsAreDeclared
<1>12. QED
  BY <1>1, <1>2, <1>3, <1>4, <1>5, <1>6, <1>7, <1>8, <1>9, <1>10, <1>11 DEF EvalNext

\* main of scripts/evaluate_external.py: with any number of overlapping, interrupted
\* invocations and any edits, a first report is of the first inference and of its own
\* predictions, every report names its detector and the one policy, and what began late
\* was declared.
THEOREM EvaluationKeepsSafe == EvalSpec => []EvaluationSafe
<1>1. EvalInv => EvaluationSafe
  <2>1. EvalInv => OneBlindResult /\ FirstPredictionsKept /\ ReportMatchesItsCode /\ RepeatsAreDeclared
    BY DEF EvalInv, ReportHeld, OneBlindResult, FirstPredictionsKept, ReportMatchesItsCode
  <2>2. EvalInv => PolicyFixed
    BY DEF EvalInv, ReportHeld, PolicyFixed
  <2>3. QED  BY <2>1, <2>2 DEF EvaluationSafe
<1>2. QED  BY EvalStarts, EvalSteps, <1>1, PTL DEF EvalSpec
-----------------------------------------------------------------------------
(* Failover check.                                                         *)

FailoverSpec == FailoverInit /\ [][FailoverNext]_failovervars

Masks == Nat \ {0}

Places == {"start", "preparing", "verifying", "create", "write", "prepared", "verified", "fail"}

Reasons == {"none", "state_already_exists", "invalid_state_file", "service_not_ready_before_deadline",
            "synthetic_source_was_not_protected", "mapping_not_preserved", "http_409", "cannot_create"}

Invoked ==
  [at : Places, id : Invocations, payload : Nat, attempts : Nat, masked : Masks \cup {None}, reason : Reasons]

Requests == [from : Invocations, attempt : Nat, id : Invocations, payload : Nat]

Replies == [text : Nat \cup {Conflict}, number : Nat] \cup {NoReply}

Records == [original : Nat, masked : Nat, number : Nat] \cup {NoRecord}

Files == [id : Invocations, masked : Masks] \cup {NoFile, Empty}

FailoverTypeOK ==
  /\ inv \in [Invocations -> Invoked]
  /\ network \subseteq Requests /\ masking \subseteq Requests
  /\ reply \in [Invocations -> Replies]
  /\ records \in [Invocations -> Records]
  /\ made \in [Invocations -> Nat] /\ met \in [Invocations -> Nat]
  /\ lost \subseteq Invocations /\ late \subseteq Invocations \X Nat
  /\ mode \in {"nothing", "equal", "fresh"}
  /\ state_file \in Files

\* What the source becomes in the record with this number.
OwnMask(number) == IF mode = "nothing" THEN Source ELSE IF mode = "fresh" THEN number ELSE 1

\* id has been answered from the record with this number: it is there unless it was lost,
\* and any other that holds the source was made for nobody.
StoredFor(id, number) ==
  /\ id \notin lost => records[id].original = Source /\ records[id].number = number
  /\ records[id].original = Source /\ records[id].number # number => <<id, records[id].number>> \in late

\* What CheckSafe says of a verification that met this record.
Met(i, number) ==
  \/ number = met[inv[i].id]
  \/ mode = "equal" /\ inv[i].id \in lost /\ <<inv[i].id, number>> \in late

\* A record of the source has its mask; one of a mask came after a record that was lost.
RecordKept(id) ==
  records[id] # NoRecord =>
    /\ records[id].original = Source => records[id].masked = OwnMask(records[id].number)
    /\ records[id].original # Source => id \in lost /\ records[id].masked # Source

\* A request carries what its run asks with.
RequestHeld(m) ==
  /\ inv[m.from].at # "start"
  /\ m.id = inv[m.from].id /\ m.payload = inv[m.from].payload

\* A mask that found no record had one that was lost.
MaskingHeld(m) == m.payload # Source => m.id \in lost

\* A run that prepares asks with the source for an id of its own, and keeps the mask of
\* the record that answered; any other asks with the mask that a finished one has kept.
RunAsks(i) ==
  /\ inv[i].at \in {"start", "preparing", "create", "write", "prepared"} => inv[i].payload = Source
  /\ inv[i].at \in {"verifying", "verified"} => inv[i].payload # Source
  /\ inv[i].payload = Source => inv[i].id = i
  /\ inv[i].payload # Source => inv[inv[i].id].at = "prepared" /\ inv[i].payload = inv[inv[i].id].masked
  /\ inv[i].at \in {"create", "write", "prepared"} =>
       inv[i].masked \in Masks /\ inv[i].masked = OwnMask(met[i]) /\ StoredFor(i, met[i])

\* An answer is the mask of its record to the source, the source to a mask that met its
\* record or one made late, and anything else only once the record was lost.
RunAnswered(i) ==
  /\ inv[i].at = "start" => reply[i] = NoReply
  /\ inv[i].at = "preparing" /\ reply[i].text \in Nat =>
       reply[i].text = OwnMask(reply[i].number) /\ StoredFor(i, reply[i].number)
  /\ inv[i].at = "verifying" /\ reply[i].text = Source => Met(i, reply[i].number)
  /\ inv[i].at = "verifying" /\ reply[i].text \in Masks => inv[i].id \in lost
  /\ reply[i].text = Conflict => inv[i].id \in lost
  /\ inv[i].at = "verified" => Met(i, met[i])
  /\ inv[i].reason \in {"mapping_not_preserved", "http_409"} => inv[i].id \in lost
  /\ inv[i].at # "fail" => inv[i].reason = "none"

RunHeld(i) == RunAsks(i) /\ RunAnswered(i)

\* The file belongs to the one run that created it.
FileHeld ==
  /\ state_file \notin {NoFile, Empty} =>
       inv[state_file.id].at = "prepared" /\ state_file.masked = inv[state_file.id].masked
  /\ \A i \in Invocations :
       /\ inv[i].at = "write" => state_file = Empty
       /\ inv[i].at = "prepared" => state_file = [id |-> inv[i].id, masked |-> inv[i].masked]
       /\ inv[i].at \in {"write", "prepared"} =>
            \A j \in Invocations \ {i} : inv[j].at \notin {"write", "prepared"}

\* Everything but the file.
RunsInv ==
  /\ FailoverTypeOK
  /\ \A id \in Invocations : RecordKept(id)
  /\ \A m \in network \cup masking : RequestHeld(m)
  /\ \A m \in masking : MaskingHeld(m)
  /\ \A i \in Invocations : RunHeld(i)

FailoverInv == RunsInv /\ FileHeld

\* The file that a run writes is neither missing nor empty.
LEMMA FilesDiffer ==
  /\ NoFile # Empty
  /\ \A f \in [id : Invocations, masked : Masks] : f \notin {NoFile, Empty}
BY FailoverCheckAssumption DEF NoFile, Empty

\* A run that moves on leaves what the others rely on as it was.
LEMMA RunMoves ==
  ASSUME FailoverInv, NEW i \in Invocations, NEW n \in Invoked,
         inv' = [inv EXCEPT ![i] = n], inv[i].at # "prepared", n.at # "start",
         inv[i].at # "start" => n.id = inv[i].id /\ n.payload = inv[i].payload,
         UNCHANGED Service,
         reply' \in [Invocations -> Replies], met' \in [Invocations -> Nat], state_file' \in Files,
         \A j \in Invocations \ {i} : reply'[j] = reply[j] /\ met'[j] = met[j],
         RunHeld(i)'
  PROVE  RunsInv'
<1>1. inv \in [Invocations -> Invoked] /\ RunsInv
  BY DEF FailoverInv, RunsInv, FailoverTypeOK
<1>2. inv' \in [Invocations -> Invoked]
  BY <1>1
<1>3. inv'[i] = n /\ \A j \in Invocations \ {i} : inv'[j] = inv[j]
  BY <1>1
<1>4. FailoverTypeOK'
  BY <1>1, <1>2 DEF Service, RunsInv, FailoverTypeOK
<1>5. ASSUME NEW id \in Invocations PROVE RecordKept(id)'
  BY <1>1 DEF Service, RunsInv, RecordKept, OwnMask
<1>6. ASSUME NEW m \in network' \cup masking' PROVE RequestHeld(m)'
  <2>1. m \in network \cup masking /\ m.from \in Invocations /\ RequestHeld(m)
    BY <1>1 DEF Service, RunsInv, FailoverTypeOK, Requests
  <2>2. QED  BY <1>3, <2>1 DEF RequestHeld
<1>7. ASSUME NEW m \in masking' PROVE MaskingHeld(m)'
  BY <1>1 DEF Service, RunsInv, MaskingHeld
<1>8. ASSUME NEW j \in Invocations PROVE RunHeld(j)'
  <2>1. CASE j = i
    BY <2>1
  <2>2. CASE j # i
    <3>1. RunHeld(j) /\ inv'[j] = inv[j] /\ reply'[j] = reply[j] /\ met'[j] = met[j]
            /\ UNCHANGED <<records, lost, late, mode>> /\ inv[j].id \in Invocations
      BY <1>1, <2>2, <1>3 DEF RunsInv, Service, Invoked
    <3>2. inv[j].payload # Source => inv[j].id # i
      BY <3>1 DEF RunHeld, RunAsks
    <3>3. inv[j].payload # Source => inv'[inv[j].id] = inv[inv[j].id] /\ met'[inv[j].id] = met[inv[j].id]
      BY <1>3, <3>1, <3>2
    <3>4. RunAsks(j)'
      BY <3>1, <3>3 DEF RunHeld, RunAsks, OwnMask, StoredFor
    <3>5. \A number \in Nat : inv[j].payload # Source /\ Met(j, number) => Met(j, number)'
      BY <3>1, <3>3 DEF Met
    <3>6. inv[j].at \in {"verifying", "verified"} => inv[j].payload # Source
      BY <3>1 DEF RunHeld, RunAsks
    <3>7. reply[j].number \in Nat /\ met[j] \in Nat
      BY <1>1 DEF RunsInv, FailoverTypeOK, Replies, NoReply
    <3>8. RunAnswered(j)'
      BY <3>1, <3>5, <3>6, <3>7 DEF RunHeld, RunAnswered, OwnMask, StoredFor
    <3>9. QED  BY <3>4, <3>8 DEF RunHeld
  <2>3. QED  BY <2>1, <2>2
<1>9. QED  BY <1>4, <1>5, <1>6, <1>7, <1>8 DEF RunsInv

\* The file stays as it is while a run that does not write it moves on.
LEMMA FileStays ==
  ASSUME FailoverInv, NEW i \in Invocations, NEW n \in Invoked,
         inv' = [inv EXCEPT ![i] = n], inv[i].at # "prepared", n.at \notin {"write", "prepared"},
         UNCHANGED state_file
  PROVE  FileHeld'
<1>1. inv \in [Invocations -> Invoked] /\ FileHeld /\ state_file \in Files
  BY DEF FailoverInv, RunsInv, FailoverTypeOK
<1>2. inv'[i] = n /\ \A j \in Invocations \ {i} : inv'[j] = inv[j]
  BY <1>1
<1>3. state_file \notin {NoFile, Empty} => state_file.id \in Invocations /\ state_file.id # i
  BY <1>1 DEF FileHeld, Files
<1>4. QED  BY <1>1, <1>2, <1>3 DEF FileHeld

\* A run that fails, its answer put away or not.
LEMMA FailsHeld ==
  ASSUME FailoverInv, NEW i \in Invocations, NEW reason \in Reasons,
         inv[i].at # "prepared",
         reason \in {"mapping_not_preserved", "http_409"} => inv[i].id \in lost,
         Fails(i, reason), UNCHANGED <<Service, state_file>>,
         reply' = [reply EXCEPT ![i] = NoReply] \/ (UNCHANGED reply /\ inv[i].at \in {"start", "create"}),
         reply' \in [Invocations -> Replies], met' \in [Invocations -> Nat],
         \A j \in Invocations \ {i} : met'[j] = met[j]
  PROVE  FailoverInv'
<1> DEFINE n == [inv[i] EXCEPT !.at = "fail", !.reason = reason]
<1>1. inv' = [inv EXCEPT ![i] = n]
  BY DEF FailoverInv, RunsInv, FailoverTypeOK, Fails
<1>2. n.at = "fail" /\ n.id = inv[i].id /\ n.payload = inv[i].payload /\ n.masked = inv[i].masked
        /\ n.reason = reason
  BY DEF FailoverInv, RunsInv, FailoverTypeOK, Invoked
<1>3. /\ inv \in [Invocations -> Invoked] /\ inv'[i] = n /\ RunHeld(i) /\ inv[i].id \in Invocations
      /\ \A j \in Invocations \ {i} : inv'[j] = inv[j]
      /\ reply \in [Invocations -> Replies] /\ UNCHANGED <<records, lost, late, mode>>
  BY <1>1 DEF FailoverInv, RunsInv, FailoverTypeOK, Invoked, Service
<1> HIDE DEF n
<1>4. inv[i].payload # Source => inv'[inv[i].id] = inv[inv[i].id]
  BY <1>3 DEF RunHeld, RunAsks
<1>5. RunAsks(i)'
  BY <1>2, <1>3, <1>4 DEF RunHeld, RunAsks
<1>6. reply'[i].text = Conflict => inv[i].id \in lost
  BY <1>3 DEF RunHeld, RunAnswered, NoReply, None, Conflict
<1>7. RunAnswered(i)'
  BY <1>2, <1>3, <1>6 DEF RunAnswered
<1>8. n \in Invoked /\ state_file' \in Files
  <2>1. inv[i] \in Invoked /\ "fail" \in Places
    BY <1>3 DEF Places
  <2>2. n \in Invoked
    BY <2>1 DEF n, Invoked
  <2>3. QED  BY <2>2 DEF FailoverInv, RunsInv, FailoverTypeOK
<1>9. \A j \in Invocations \ {i} : reply'[j] = reply[j]
  BY <1>3
<1>10. RunsInv'
  BY <1>1, <1>2, <1>5, <1>7, <1>8, <1>9, RunMoves DEF RunHeld
<1>11. FileHeld'
  BY <1>1, <1>2, <1>8, FileStays
<1>12. QED  BY <1>10, <1>11 DEF FailoverInv

LEMMA PrepareHeld ==
  ASSUME FailoverInv, NEW i \in Invocations, Prepare(i)
  PROVE  FailoverInv'
<1>a. UNCHANGED <<Service, reply, met, state_file>> /\ inv[i].at = "start"
      /\ reply \in [Invocations -> Replies] /\ met \in [Invocations -> Nat]
  BY DEF Prepare, Starts, Local, FailoverInv, RunsInv, FailoverTypeOK
<1>1. CASE state_file # NoFile
  <2>1. Fails(i, "state_already_exists") /\ "state_already_exists" \in Reasons
    BY <1>1 DEF Prepare, Reasons
  <2>2. QED  BY <1>a, <2>1, FailsHeld
<1>2. CASE state_file = NoFile
  <2> DEFINE n == [inv[i] EXCEPT !.at = "preparing"]
  <2>1. inv' = [inv EXCEPT ![i] = n]
    BY <1>2 DEF Prepare, FailoverInv, RunsInv, FailoverTypeOK
  <2>2. n \in Invoked /\ n.at = "preparing" /\ n.id = inv[i].id /\ n.payload = inv[i].payload
          /\ n.masked = inv[i].masked /\ n.reason = inv[i].reason
    <3>1. inv[i] \in Invoked /\ "preparing" \in Places
      BY DEF FailoverInv, RunsInv, FailoverTypeOK, Places
    <3>2. QED  BY <3>1 DEF Invoked
  <2>3. inv'[i] = n /\ RunHeld(i) /\ state_file' \in Files
    BY <1>a, <2>1 DEF FailoverInv, RunsInv, FailoverTypeOK
  <2> HIDE DEF n
  <2>4. RunHeld(i)'
    BY <1>a, <2>2, <2>3 DEF RunHeld, RunAsks, RunAnswered, NoReply, None, Conflict, Source
  <2>5. RunsInv'
    BY <1>a, <2>1, <2>2, <2>3, <2>4, RunMoves
  <2>6. FileHeld'
    BY <1>a, <2>1, <2>2, FileStays
  <2>7. QED  BY <2>5, <2>6 DEF FailoverInv
<1>3. QED  BY <1>1, <1>2

LEMMA VerifyHeld ==
  ASSUME FailoverInv, NEW i \in Invocations, Verify(i)
  PROVE  FailoverInv'
<1>a. UNCHANGED <<Service, reply, met, state_file>> /\ inv[i].at = "start"
      /\ reply \in [Invocations -> Replies] /\ met \in [Invocations -> Nat]
  BY DEF Verify, Starts, Local, FailoverInv, RunsInv, FailoverTypeOK
<1>1. CASE state_file \in {NoFile, Empty}
  <2>1. Fails(i, "invalid_state_file") /\ "invalid_state_file" \in Reasons
    BY <1>1 DEF Verify, Reasons
  <2>2. QED  BY <1>a, <2>1, FailsHeld
<1>2. CASE state_file \notin {NoFile, Empty}
  <2> DEFINE n == [inv[i] EXCEPT !.at = "verifying", !.id = state_file.id,
                            !.payload = state_file.masked]
  <2>1. inv' = [inv EXCEPT ![i] = n] /\ state_file \in [id : Invocations, masked : Masks]
    BY <1>2 DEF Verify, FailoverInv, RunsInv, FailoverTypeOK, Files
  <2>a. inv[i] \in Invoked /\ state_file.id \in Invocations /\ state_file.masked \in Masks
          /\ "verifying" \in Places
    BY <2>1 DEF FailoverInv, RunsInv, FailoverTypeOK, Places
  <2>b. state_file.masked \in Nat /\ state_file.masked # Source
    BY <2>a DEF Masks, Source
  <2>2. n \in Invoked /\ n.at = "verifying" /\ n.id = state_file.id /\ n.payload = state_file.masked
          /\ n.payload # Source
        /\ n.masked = inv[i].masked /\ n.reason = inv[i].reason
    BY <2>a, <2>b DEF Invoked
  <2>3. /\ inv'[i] = n /\ RunHeld(i) /\ FileHeld /\ state_file' \in Files
        /\ \A j \in Invocations \ {i} : inv'[j] = inv[j]
    BY <1>a, <2>1 DEF FailoverInv, RunsInv, FailoverTypeOK
  <2> HIDE DEF n
  <2>c. /\ inv[state_file.id].at = "prepared" /\ state_file.masked = inv[state_file.id].masked
        /\ inv'[state_file.id] = inv[state_file.id]
    BY <1>2, <1>a, <2>a, <2>3 DEF FileHeld
  <2>4. RunHeld(i)'
    BY <1>a, <2>2, <2>3, <2>c DEF RunHeld, RunAsks, RunAnswered, NoReply, None, Conflict, Source, Masks
  <2>5. RunsInv'
    BY <1>a, <2>1, <2>2, <2>3, <2>4, RunMoves
  <2>6. FileHeld'
    BY <1>a, <2>1, <2>2, FileStays
  <2>7. QED  BY <2>5, <2>6 DEF FailoverInv
<1>3. QED  BY <1>1, <1>2

LEMMA DeadlineHeld ==
  ASSUME FailoverInv, NEW i \in Invocations, Deadline(i)
  PROVE  FailoverInv'
<1>1. /\ Fails(i, "service_not_ready_before_deadline") /\ UNCHANGED <<Service, met, state_file>>
      /\ reply' = [reply EXCEPT ![i] = NoReply] /\ inv[i].at # "prepared"
  BY DEF Deadline, Asking
<1>2. "service_not_ready_before_deadline" \in Reasons
  BY DEF Reasons
<1>3. reply' \in [Invocations -> Replies] /\ met' \in [Invocations -> Nat]
  BY <1>1 DEF FailoverInv, RunsInv, FailoverTypeOK, Replies, NoReply
<1>4. QED  BY <1>1, <1>2, <1>3, FailsHeld

LEMMA ReceiveHeld ==
  ASSUME FailoverInv, NEW i \in Invocations, Receive(i)
  PROVE  FailoverInv'
<1> DEFINE r == reply[i].text
           k == reply[i].number
<1>a. /\ RunHeld(i) /\ r \in Nat \cup {Conflict} /\ k \in Nat /\ Asking(i)
      /\ UNCHANGED <<Service, state_file>>
      /\ met' = [met EXCEPT ![i] = k] /\ reply' = [reply EXCEPT ![i] = NoReply]
  BY DEF FailoverInv, RunsInv, FailoverTypeOK, Receive, Replies
<1>b. /\ reply' \in [Invocations -> Replies] /\ met' \in [Invocations -> Nat]
      /\ reply'[i] = NoReply /\ met'[i] = k
      /\ \A j \in Invocations \ {i} : reply'[j] = reply[j] /\ met'[j] = met[j]
      /\ inv[i].at # "prepared" /\ inv[i].at # "start"
  BY <1>a DEF FailoverInv, RunsInv, FailoverTypeOK, Replies, NoReply, Asking
<1>c. UNCHANGED <<records, lost, late, mode>>
  BY <1>a DEF Service
<1>1. CASE r = Conflict
  <2>1. Fails(i, "http_409") /\ "http_409" \in Reasons
    BY <1>1 DEF Receive, Reasons
  <2>2. inv[i].id \in lost
    BY <1>1, <1>a DEF RunHeld, RunAnswered
  <2>3. QED  BY <1>a, <1>b, <2>1, <2>2, FailsHeld
<1>2. CASE r # Conflict /\ inv[i].at = "preparing" /\ r = Source
  <2>1. Fails(i, "synthetic_source_was_not_protected") /\ "synthetic_source_was_not_protected" \in Reasons
    BY <1>2 DEF Receive, Prepared, Reasons
  <2>2. QED  BY <1>a, <1>b, <2>1, FailsHeld
<1>3. CASE r # Conflict /\ inv[i].at = "preparing" /\ r # Source
  <2> DEFINE n == [inv[i] EXCEPT !.at = "create", !.masked = r]
  <2>1. inv' = [inv EXCEPT ![i] = n] /\ inv[i] \in Invoked
    BY <1>3 DEF Receive, Prepared, FailoverInv, RunsInv, FailoverTypeOK
  <2>2. r \in Masks /\ "create" \in Places
    BY <1>3, <1>a DEF Masks, Source, Places
  <2>3. n \in Invoked /\ n.at = "create" /\ n.id = inv[i].id /\ n.payload = inv[i].payload
          /\ n.masked = r /\ n.reason = inv[i].reason
    BY <2>1, <2>2 DEF Invoked
  <2>4. inv'[i] = n /\ state_file' \in Files
    BY <1>a, <2>1 DEF FailoverInv, RunsInv, FailoverTypeOK
  <2> HIDE DEF n
  <2>6. RunHeld(i)'
    BY <1>3, <1>a, <1>b, <1>c, <2>2, <2>3, <2>4
       DEF RunHeld, RunAsks, RunAnswered, StoredFor, OwnMask, Masks, Source, NoReply, None, Conflict
  <2>7. RunsInv'
    BY <1>a, <1>b, <2>1, <2>3, <2>4, <2>6, RunMoves
  <2>8. FileHeld'
    BY <1>a, <1>b, <2>1, <2>3, FileStays
  <2>9. QED  BY <2>7, <2>8 DEF FailoverInv
<1>4. CASE r # Conflict /\ inv[i].at = "verifying" /\ r # Source
  <2>1. Fails(i, "mapping_not_preserved") /\ "mapping_not_preserved" \in Reasons
    BY <1>4 DEF Receive, Verified, Reasons
  <2>2. inv[i].id \in lost
    BY <1>4, <1>a DEF RunHeld, RunAnswered, Masks, Source, Receive
  <2>3. QED  BY <1>a, <1>b, <2>1, <2>2, FailsHeld
<1>5. CASE r # Conflict /\ inv[i].at = "verifying" /\ r = Source
  <2> DEFINE n == [inv[i] EXCEPT !.at = "verified"]
  <2>1. inv' = [inv EXCEPT ![i] = n] /\ inv \in [Invocations -> Invoked]
    BY <1>5 DEF Receive, Verified, FailoverInv, RunsInv, FailoverTypeOK
  <2>2. n \in Invoked /\ n.at = "verified" /\ n.id = inv[i].id /\ n.payload = inv[i].payload
          /\ n.masked = inv[i].masked /\ n.reason = inv[i].reason
    BY <2>1 DEF Invoked, Places
  <2>3. inv'[i] = n /\ state_file' \in Files /\ \A j \in Invocations \ {i} : inv'[j] = inv[j]
    BY <1>a, <2>1 DEF FailoverInv, RunsInv, FailoverTypeOK
  <2> HIDE DEF n
  <2>4. /\ inv[i].payload # Source /\ inv[inv[i].id].at = "prepared" /\ inv[i].id \in Invocations
        /\ inv[i].payload = inv[inv[i].id].masked
    BY <1>5, <1>a, <2>1 DEF RunHeld, RunAsks, Invoked
  <2>5. inv'[inv[i].id] = inv[inv[i].id] /\ met'[inv[i].id] = met[inv[i].id]
    BY <1>b, <2>3, <2>4
  <2>6. Met(i, k)
    BY <1>5, <1>a DEF RunHeld, RunAnswered
  <2>7. Met(i, met[i])'
    BY <1>b, <1>c, <2>2, <2>3, <2>5, <2>6 DEF Met
  <2>8. RunAsks(i)'
    BY <1>a, <2>2, <2>3, <2>4, <2>5 DEF RunHeld, RunAsks
  <2>9. RunAnswered(i)'
    BY <1>5, <1>a, <1>b, <1>c, <2>2, <2>3, <2>7 DEF RunHeld, RunAnswered, NoReply, None, Conflict
  <2>10. RunsInv'
    BY <1>a, <1>b, <2>1, <2>2, <2>3, <2>8, <2>9, RunMoves DEF RunHeld
  <2>11. FileHeld'
    BY <1>a, <1>b, <2>1, <2>2, FileStays
  <2>12. QED  BY <2>10, <2>11 DEF FailoverInv
<1>6. QED
  BY <1>a, <1>1, <1>2, <1>3, <1>4, <1>5 DEF Asking

LEMMA CreateHeld ==
  ASSUME FailoverInv, NEW i \in Invocations, Create(i)
  PROVE  FailoverInv'
<1>a. /\ UNCHANGED <<Service, reply, met>> /\ inv[i].at = "create"
      /\ reply \in [Invocations -> Replies] /\ met \in [Invocations -> Nat]
  BY DEF Create, Local, FailoverInv, RunsInv, FailoverTypeOK
<1>1. CASE state_file # NoFile
  <2>1. Fails(i, "cannot_create") /\ "cannot_create" \in Reasons /\ UNCHANGED state_file
    BY <1>1 DEF Create, Reasons
  <2>2. QED  BY <1>a, <2>1, FailsHeld
<1>2. CASE state_file = NoFile
  <2> DEFINE n == [inv[i] EXCEPT !.at = "write"]
  <2>1. inv' = [inv EXCEPT ![i] = n] /\ state_file' = Empty
    BY <1>2 DEF Create, FailoverInv, RunsInv, FailoverTypeOK
  <2>2. n \in Invoked /\ n.at = "write" /\ n.id = inv[i].id /\ n.payload = inv[i].payload
        /\ n.masked = inv[i].masked /\ n.reason = inv[i].reason
    <3>1. inv[i] \in Invoked /\ "write" \in Places
      BY DEF FailoverInv, RunsInv, FailoverTypeOK, Places
    <3>2. QED  BY <3>1 DEF Invoked
  <2>3. /\ inv \in [Invocations -> Invoked] /\ inv'[i] = n /\ RunHeld(i) /\ FileHeld
        /\ \A j \in Invocations \ {i} : inv'[j] = inv[j]
        /\ UNCHANGED <<records, lost, late, mode>>
    BY <1>a, <2>1 DEF FailoverInv, RunsInv, FailoverTypeOK, Service
  <2> HIDE DEF n
  <2>4. RunHeld(i)'
    BY <1>a, <2>2, <2>3 DEF RunHeld, RunAsks, RunAnswered, StoredFor, OwnMask
  <2>5. RunsInv'
    BY <1>a, <2>1, <2>2, <2>4, RunMoves DEF Files
  <2>6. \A j \in Invocations : inv[j].at \notin {"write", "prepared"}
    <3>1. ASSUME NEW j \in Invocations, inv[j].at = "prepared" PROVE FALSE
      <4>1. inv[j].id \in Invocations /\ inv[j].masked \in Masks
            /\ state_file = [id |-> inv[j].id, masked |-> inv[j].masked]
        BY <3>1, <2>3 DEF FileHeld, RunHeld, RunAsks, FailoverInv, RunsInv, Invoked
      <4>2. state_file \in [id : Invocations, masked : Masks]
        BY <4>1
      <4>3. QED  BY <4>2, <1>2, FilesDiffer
    <3>2. ASSUME NEW j \in Invocations, inv[j].at = "write" PROVE FALSE
      BY <3>2, <1>2, <2>3, FilesDiffer DEF FileHeld
    <3>3. QED  BY <3>1, <3>2
  <2>7. FileHeld'
    BY <2>1, <2>2, <2>3, <2>6 DEF FileHeld
  <2>8. QED  BY <2>5, <2>7 DEF FailoverInv
<1>3. QED  BY <1>1, <1>2

LEMMA WriteHeld ==
  ASSUME FailoverInv, NEW i \in Invocations, Write(i)
  PROVE  FailoverInv'
<1> DEFINE n == [inv[i] EXCEPT !.at = "prepared"]
<1>1. /\ inv' = [inv EXCEPT ![i] = n] /\ UNCHANGED <<Service, reply, met>> /\ inv[i].at = "write"
      /\ state_file' = [id |-> inv[i].id, masked |-> inv[i].masked]
      /\ reply \in [Invocations -> Replies] /\ met \in [Invocations -> Nat]
  BY DEF Write, Local, FailoverInv, RunsInv, FailoverTypeOK
<1>2. n \in Invoked /\ n.at = "prepared" /\ n.id = inv[i].id /\ n.payload = inv[i].payload
      /\ n.masked = inv[i].masked /\ n.reason = inv[i].reason
  BY SMTT(30) DEF FailoverInv, RunsInv, FailoverTypeOK, Invoked, Places
<1>3. /\ inv[i] \in Invoked /\ inv'[i] = n /\ RunHeld(i) /\ FileHeld
      /\ \A j \in Invocations \ {i} : inv'[j] = inv[j]
      /\ UNCHANGED <<records, lost, late, mode>>
  BY <1>1 DEF FailoverInv, RunsInv, FailoverTypeOK, Service
<1> HIDE DEF n
<1>4. RunHeld(i)'
  BY <1>1, <1>2, <1>3 DEF RunHeld, RunAsks, RunAnswered, StoredFor, OwnMask
<1>5. inv[i].id = i /\ inv[i].masked \in Masks /\ state_file' \in Files
  BY <1>1, <1>3 DEF RunHeld, RunAsks, Invoked, Files
<1>6. RunsInv'
  BY <1>1, <1>2, <1>4, <1>5, RunMoves
<1>7. FileHeld'
  BY <1>1, <1>2, <1>3, <1>5 DEF FileHeld
<1>8. QED  BY <1>6, <1>7 DEF FailoverInv

LEMMA AttemptHeld ==
  ASSUME FailoverInv, NEW i \in Invocations, Attempt(i)
  PROVE  FailoverInv'
<1> DEFINE n == [inv[i] EXCEPT !.attempts = inv[i].attempts + 1]
           m == [from |-> i, attempt |-> n.attempts, id |-> inv[i].id, payload |-> inv[i].payload]
<1>1. /\ inv' = [inv EXCEPT ![i] = n] /\ network' = network \cup {m}
      /\ reply' = [reply EXCEPT ![i] = NoReply] /\ Asking(i)
      /\ UNCHANGED <<masking, records, made, lost, late, met, mode, state_file>>
  <2>1. inv'[i] = n
    BY DEF Attempt, FailoverInv, RunsInv, FailoverTypeOK
  <2>2. QED  BY <2>1 DEF Attempt, MessageId, FailoverInv, RunsInv, FailoverTypeOK
<1>2. /\ n \in Invoked /\ n.attempts \in Nat /\ n.at = inv[i].at /\ n.id = inv[i].id
           /\ n.payload = inv[i].payload
      /\ n.masked = inv[i].masked /\ n.reason = inv[i].reason
  <2>1. inv[i] \in Invoked /\ inv[i].attempts + 1 \in Nat
    BY DEF FailoverInv, RunsInv, FailoverTypeOK, Invoked
  <2>2. QED  BY <2>1 DEF Invoked
<1>3. /\ inv[i] \in Invoked /\ inv'[i] = n /\ reply'[i] = NoReply /\ inv[i].at \in {"preparing", "verifying"}
      /\ \A j \in Invocations \ {i} : inv'[j] = inv[j] /\ reply'[j] = reply[j]
  BY <1>1 DEF FailoverInv, RunsInv, FailoverTypeOK, Asking
<1> HIDE DEF n
<1>4. FailoverTypeOK'
  <2>1. m \in Requests
    BY <1>2, <1>3 DEF Invoked, Requests
  <2>2. QED  BY <1>1, <1>2, <2>1 DEF FailoverInv, RunsInv, FailoverTypeOK, Replies
<1>5. ASSUME NEW k \in network' \cup masking' PROVE RequestHeld(k)'
  <2>1. CASE k = m
    BY <2>1, <1>2, <1>3 DEF RequestHeld
  <2>2. CASE k \in network \cup masking
    <3>1. RequestHeld(k) /\ k.from \in Invocations
      BY <2>2 DEF FailoverInv, RunsInv, FailoverTypeOK, Requests
    <3>2. QED  BY <3>1, <1>2, <1>3 DEF RequestHeld
  <2>3. QED  BY <2>1, <2>2, <1>1
<1>6. ASSUME NEW j \in Invocations PROVE RunHeld(j)'
  <2>1. RunHeld(j) /\ inv[j].id \in Invocations
    BY DEF FailoverInv, RunsInv, FailoverTypeOK, Invoked
  <2>2. inv'[j].at = inv[j].at /\ inv'[j].id = inv[j].id /\ inv'[j].payload = inv[j].payload
        /\ inv'[j].masked = inv[j].masked /\ inv'[j].reason = inv[j].reason
    BY <1>2, <1>3
  <2>3. inv[j].payload # Source => inv'[inv[j].id] = inv[inv[j].id]
    BY <1>3, <2>1 DEF RunHeld, RunAsks
  <2>4. RunAsks(j)'
    BY <1>1, <2>1, <2>2, <2>3 DEF RunHeld, RunAsks, StoredFor, OwnMask
  <2>5. RunAnswered(j)'
    <3>1. CASE j = i
      BY <3>1, <1>3, <2>1, <2>2 DEF RunHeld, RunAnswered, NoReply, None, Conflict, Source, Masks
    <3>2. CASE j # i
      BY <3>2, <1>1, <1>3, <2>1, <2>2 DEF RunHeld, RunAnswered, StoredFor, OwnMask, Met
    <3>3. QED  BY <3>1, <3>2
  <2>6. QED  BY <2>4, <2>5 DEF RunHeld
<1>7. FileHeld'
  <2>1. FileHeld /\ (state_file \notin {NoFile, Empty} => state_file.id \in Invocations)
    BY DEF FailoverInv, RunsInv, FailoverTypeOK, Files
  <2>2. \A j \in Invocations : inv'[j].at = inv[j].at /\ inv'[j].id = inv[j].id /\ inv'[j].masked = inv[j].masked
    BY <1>2, <1>3
  <2>3. QED  BY <1>1, <2>1, <2>2 DEF FileHeld
<1>8. ASSUME NEW id \in Invocations PROVE RecordKept(id)'
  BY <1>1 DEF FailoverInv, RunsInv, RecordKept, OwnMask
<1>9. ASSUME NEW k \in masking' PROVE MaskingHeld(k)'
  BY <1>1 DEF FailoverInv, RunsInv, MaskingHeld
<1>10. QED  BY <1>4, <1>5, <1>6, <1>7, <1>8, <1>9 DEF FailoverInv, RunsInv

\* What the service does: the runs stay as they are, and of the answers only those change
\* of runs that are asking.
LEMMA ServiceHeld ==
  ASSUME FailoverInv, FailoverTypeOK', NEW answered \in SUBSET Invocations,
         UNCHANGED <<inv, met, mode, state_file>>, lost \subseteq lost', late \subseteq late',
         network' \cup masking' \subseteq network \cup masking,
         \A m \in masking' : MaskingHeld(m)',
         \A id \in Invocations : RecordKept(id)',
         \A i \in answered : Asking(i) /\ RunAnswered(i)',
         \A i \in Invocations \ answered : reply'[i] = reply[i],
         \A id \in Invocations \ answered, number \in Nat :
           StoredFor(id, number) => StoredFor(id, number)'
  PROVE  FailoverInv'
<1>1. \A m \in network' \cup masking' : RequestHeld(m)'
  BY DEF FailoverInv, RunsInv, RequestHeld
<1>2. ASSUME NEW j \in Invocations PROVE RunHeld(j)'
  <2>1. RunHeld(j) /\ met[j] \in Nat /\ reply[j].number \in Nat
    BY DEF FailoverInv, RunsInv, FailoverTypeOK, Replies, NoReply
  <2>2. RunAsks(j)'
    <3>1. inv[j].at \in {"create", "write", "prepared"} => StoredFor(j, met[j])'
      BY <2>1 DEF RunHeld, RunAsks, Asking
    <3>2. QED  BY <2>1, <3>1 DEF RunHeld, RunAsks, OwnMask
  <2>3. CASE j \in answered
    BY <2>2, <2>3 DEF RunHeld
  <2>4. CASE j \notin answered
    <3>1. reply'[j] = reply[j]
      BY <2>4
    <3>2. StoredFor(j, reply[j].number) => StoredFor(j, reply[j].number)'
      BY <2>1, <2>4
    <3>3. \A number \in Nat : Met(j, number) => Met(j, number)'
      BY DEF Met
    <3>4. RunAnswered(j)'
      BY <2>1, <3>1, <3>2, <3>3 DEF RunHeld, RunAnswered, OwnMask
    <3>5. QED  BY <2>2, <3>4 DEF RunHeld
  <2>5. QED  BY <2>3, <2>4
<1>3. FileHeld'
  BY DEF FailoverInv, FileHeld
<1>4. QED  BY <1>1, <1>2, <1>3 DEF FailoverInv, RunsInv

LEMMA LoseRecordHeld ==
  ASSUME FailoverInv, NEW id \in Invocations, LoseRecord(id)
  PROVE  FailoverInv'
<1>1. /\ UNCHANGED <<inv, network, masking, reply, made, late, met, mode, state_file>>
      /\ lost' = lost \cup {id} /\ records' = [records EXCEPT ![id] = NoRecord]
      /\ records \in [Invocations -> Records]
  BY DEF LoseRecord, FailoverInv, RunsInv, FailoverTypeOK
<1>2. records'[id] = NoRecord /\ \A k \in Invocations \ {id} : records'[k] = records[k]
  BY <1>1
<1>3. FailoverTypeOK'
  BY <1>1 DEF FailoverInv, RunsInv, FailoverTypeOK, Records
<1>4. ASSUME NEW k \in Invocations PROVE RecordKept(k)'
  BY <1>1, <1>2 DEF FailoverInv, RunsInv, RecordKept, OwnMask
<1>5. ASSUME NEW k \in Invocations, NEW number \in Nat, StoredFor(k, number)
      PROVE  StoredFor(k, number)'
  BY <1>1, <1>2, <1>5 DEF StoredFor, NoRecord, None, Source
<1>6. \A m \in masking' : MaskingHeld(m)'
  BY <1>1 DEF FailoverInv, RunsInv, MaskingHeld
<1>7. PICK answered \in SUBSET Invocations : answered = {}
  OBVIOUS
<1>8. \A i \in Invocations \ answered : reply'[i] = reply[i]
  BY <1>1
<1>9. \A i \in answered : Asking(i) /\ RunAnswered(i)'
  BY <1>7
<1>10. network' \cup masking' \subseteq network \cup masking /\ lost \subseteq lost'
  BY <1>1
<1>11. QED  BY <1>1, <1>3, <1>4, <1>5, <1>6, <1>8, <1>9, <1>10, ServiceHeld

\* What a request stands for.
LEMMA Asked ==
  ASSUME FailoverInv, NEW m \in network \cup masking
  PROVE  /\ m \in Requests /\ m.from \in Invocations /\ m.id \in Invocations /\ m.payload \in Nat
         /\ m.id = inv[m.from].id /\ m.payload = inv[m.from].payload
         /\ m.payload = Source => m.id = m.from /\ (Awaited(m) => inv[m.from].at = "preparing")
         /\ m.payload # Source =>
              /\ inv[m.id].at = "prepared" /\ m.payload = OwnMask(met[m.id]) /\ StoredFor(m.id, met[m.id])
              /\ Awaited(m) => inv[m.from].at = "verifying"
<1>1. m \in Requests /\ m.from \in Invocations /\ m.id \in Invocations /\ m.payload \in Nat /\ RequestHeld(m)
  BY DEF FailoverInv, RunsInv, FailoverTypeOK, Requests
<1>2. RunHeld(m.from) /\ RunHeld(m.id)
  BY <1>1 DEF FailoverInv, RunsInv
<1>3. m.payload # Source =>
        /\ inv[m.id].at = "prepared" /\ m.payload = inv[m.id].masked
        /\ inv[m.id].masked = OwnMask(met[m.id]) /\ StoredFor(m.id, met[m.id])
  BY <1>1, <1>2 DEF RequestHeld, RunHeld, RunAsks
<1>4. m.payload = Source => m.id = m.from
  BY <1>1, <1>2 DEF RequestHeld, RunHeld, RunAsks
<1>5. Awaited(m) => inv[m.from].at = IF m.payload = Source THEN "preparing" ELSE "verifying"
  BY <1>1, <1>2 DEF RequestHeld, RunHeld, RunAsks, Awaited, Asking
<1>6. QED  BY <1>1, <1>3, <1>4, <1>5 DEF RequestHeld

\* An answer to an awaited request that fits the record it comes from.
Fits(m, text, number) ==
  /\ text \in Nat \cup {Conflict} /\ number \in Nat
  /\ text = Conflict => m.id \in lost
  /\ m.payload = Source /\ text # Conflict => text = OwnMask(number) /\ StoredFor(m.id, number)'
  /\ m.payload # Source /\ text = Source => Met(m.from, number)
  /\ m.payload # Source /\ text \in Masks => m.id \in lost

LEMMA AnswerHeld ==
  ASSUME FailoverInv, NEW m \in network \cup masking, NEW text, NEW number,
         UNCHANGED <<inv, met, mode, lost>>, late \subseteq late',
         Answer(m, text, number), Fits(m, text, number)
  PROVE  /\ reply' \in [Invocations -> Replies]
         /\ \A i \in Invocations : i # m.from \/ ~Awaited(m) => reply'[i] = reply[i]
         /\ Awaited(m) => Asking(m.from) /\ RunAnswered(m.from)'
<1>1. m.from \in Invocations /\ reply \in [Invocations -> Replies]
  BY Asked DEF FailoverInv, RunsInv, FailoverTypeOK
<1>2. [text |-> text, number |-> number] \in Replies
  BY DEF Fits, Replies
<1>3. /\ reply' \in [Invocations -> Replies]
      /\ \A i \in Invocations : i # m.from \/ ~Awaited(m) => reply'[i] = reply[i]
      /\ Awaited(m) => reply'[m.from] = [text |-> text, number |-> number]
  BY <1>1, <1>2 DEF Answer
<1>4. ASSUME Awaited(m) PROVE RunAnswered(m.from)'
  <2>1. RunAnswered(m.from) /\ reply'[m.from].text = text /\ reply'[m.from].number = number
    BY <1>1, <1>3, <1>4 DEF FailoverInv, RunsInv, RunHeld
  <2>2. CASE m.payload = Source
    <3>1. inv[m.from].at = "preparing" /\ inv[m.from].id = m.id /\ m.id = m.from
      BY <1>4, <2>2, Asked
    <3>2. text \in Nat => text # Conflict
      BY DEF Conflict
    <3>3. QED  BY <2>1, <2>2, <3>1, <3>2 DEF RunAnswered, Fits, OwnMask
  <2>3. CASE m.payload # Source
    <3>1. inv[m.from].at = "verifying" /\ inv[m.from].id = m.id
      BY <1>4, <2>3, Asked
    <3>2. Met(m.from, number) => Met(m.from, number)'
      BY DEF Met
    <3>3. QED  BY <2>1, <2>3, <3>1, <3>2 DEF RunAnswered, Fits
  <2>4. QED  BY <2>2, <2>3
<1>5. QED  BY <1>3, <1>4 DEF Awaited

\* A record's answer to a request that finds it.
LEMMA ResolvedFits ==
  ASSUME FailoverInv, NEW m \in network \cup masking, records[m.id] # NoRecord,
         UNCHANGED <<records, lost, late>>,
         NEW record, record = records[m.id]
  PROVE  Fits(m, Resolved(m.payload, record), record.number)
<1>1. /\ m.id \in Invocations /\ m.payload \in Nat /\ RecordKept(m.id)
      /\ record.original \in Nat /\ record.masked \in Nat /\ record.number \in Nat
  BY Asked DEF FailoverInv, RunsInv, FailoverTypeOK, Records
<1>2. mode \in {"nothing", "equal", "fresh"} /\ m.id = inv[m.from].id
  BY Asked DEF FailoverInv, RunsInv, FailoverTypeOK
<1>3. CASE m.payload = Source /\ record.original = Source
  <2>1. record.masked = OwnMask(record.number)
    BY <1>1, <1>3 DEF RecordKept
  <2>2. Resolved(m.payload, record) = OwnMask(record.number)
    BY <1>3, <2>1 DEF Resolved
  <2>3. OwnMask(record.number) \in Nat
    BY <1>1 DEF OwnMask, Source
  <2>4. StoredFor(m.id, record.number)'
    BY <1>3 DEF StoredFor
  <2>5. QED  BY <1>1, <1>3, <2>2, <2>3, <2>4 DEF Fits, Conflict
<1>4. CASE m.payload = Source /\ record.original # Source
  <2>1. record.masked # Source /\ m.id \in lost
    BY <1>1, <1>4 DEF RecordKept
  <2>2. Resolved(m.payload, record) = Conflict
    BY <1>4, <2>1 DEF Resolved
  <2>3. QED  BY <1>1, <1>4, <2>1, <2>2 DEF Fits
<1>5. CASE m.payload # Source /\ record.original # Source
  <2>1. record.masked # Source /\ m.id \in lost
    BY <1>1, <1>5 DEF RecordKept
  <2>2. Resolved(m.payload, record) \in Masks \cup {Conflict}
    BY <1>1, <1>5, <2>1 DEF Resolved, Masks, Source
  <2>3. Resolved(m.payload, record) # Source
    BY <2>2 DEF Masks, Source, Conflict
  <2>4. Resolved(m.payload, record) \in Nat \cup {Conflict}
    BY <2>2 DEF Masks
  <2>5. QED  BY <1>1, <1>5, <2>1, <2>3, <2>4 DEF Fits
<1>6. CASE m.payload # Source /\ record.original = Source
  <2>1. record.masked = OwnMask(record.number) /\ m.payload = OwnMask(met[m.id]) /\ StoredFor(m.id, met[m.id])
    BY <1>1, <1>6, Asked DEF RecordKept
  <2>2. CASE m.payload = record.masked
    <3>1. Resolved(m.payload, record) = Source
      BY <1>6, <2>2 DEF Resolved
    <3>2. record.number # met[m.id] => mode = "equal"
      BY <1>2, <1>6, <2>1, <2>2 DEF OwnMask
    <3>3. record.number # met[m.id] => <<m.id, record.number>> \in late /\ m.id \in lost
      BY <1>6, <2>1 DEF StoredFor
    <3>4. Met(m.from, record.number)
      BY <1>2, <3>2, <3>3 DEF Met
    <3>5. QED  BY <1>1, <1>6, <3>1, <3>4 DEF Fits, Source, Masks, Conflict
  <2>3. CASE m.payload # record.masked
    <3>1. Resolved(m.payload, record) = Conflict
      BY <1>6, <2>3 DEF Resolved
    <3>2. record.number # met[m.id]
      BY <2>1, <2>3
    <3>3. m.id \in lost
      BY <2>1, <3>2 DEF StoredFor
    <3>4. QED  BY <1>1, <1>6, <3>1, <3>3 DEF Fits, Source, Masks, Conflict
  <2>4. QED  BY <2>2, <2>3
<1>7. QED  BY <1>3, <1>4, <1>5, <1>6

LEMMA ServeHeld ==
  ASSUME FailoverInv, NEW m \in network, Serve(m)
  PROVE  FailoverInv'
<1>1. /\ UNCHANGED <<inv, records, made, lost, late, met, mode, state_file>> /\ network' = network \ {m}
      /\ m.from \in Invocations /\ m.id \in Invocations /\ m \in Requests
  BY Asked DEF Serve
<1>2. \A id \in Invocations : RecordKept(id)'
  BY <1>1 DEF FailoverInv, RunsInv, RecordKept, OwnMask
<1>3. \A id \in Invocations, number \in Nat : StoredFor(id, number) => StoredFor(id, number)'
  BY <1>1 DEF StoredFor
<1>4. CASE records[m.id] = NoRecord
  <2>1. masking' = masking \cup {m} /\ UNCHANGED reply
    BY <1>4 DEF Serve
  <2>2. FailoverTypeOK'
    BY <1>1, <2>1 DEF FailoverInv, RunsInv, FailoverTypeOK
  <2>3. m.payload # Source => m.id \in lost
    <3>1. m.payload # Source => StoredFor(m.id, met[m.id])
      BY Asked
    <3>2. QED  BY <1>4, <3>1 DEF StoredFor, NoRecord, None, Source
  <2>4. \A k \in masking' : MaskingHeld(k)'
    BY <1>1, <2>1, <2>3 DEF FailoverInv, RunsInv, MaskingHeld
  <2>5. PICK answered \in SUBSET Invocations : answered = {}
    OBVIOUS
  <2>6. \A i \in answered : Asking(i) /\ RunAnswered(i)'
    BY <2>5
  <2>7. \A i \in Invocations \ answered : reply'[i] = reply[i]
    BY <2>1
  <2>8. network' \cup masking' \subseteq network \cup masking
    BY <1>1, <2>1
  <2>9. QED  BY <1>1, <1>2, <1>3, <2>2, <2>4, <2>6, <2>7, <2>8, ServiceHeld
<1>5. CASE records[m.id] # NoRecord
  <2>a. PICK answered \in SUBSET Invocations : answered = IF Awaited(m) THEN {m.from} ELSE {}
    BY <1>1
  <2>b. PICK record : record = records[m.id]
    OBVIOUS
  <2>1. UNCHANGED masking /\ Answer(m, Resolved(m.payload, record), record.number)
    BY <1>5, <2>b DEF Serve
  <2>2. /\ reply' \in [Invocations -> Replies]
        /\ \A i \in Invocations : i # m.from \/ ~Awaited(m) => reply'[i] = reply[i]
        /\ Awaited(m) => Asking(m.from) /\ RunAnswered(m.from)'
    <3>1. Fits(m, Resolved(m.payload, record), record.number)
      BY <1>1, <1>5, <2>b, ResolvedFits
    <3>2. QED  BY <1>1, <2>1, <3>1, AnswerHeld
  <2>3. FailoverTypeOK'
    BY <1>1, <2>1, <2>2 DEF FailoverInv, RunsInv, FailoverTypeOK
  <2>4. \A k \in masking' : MaskingHeld(k)'
    BY <1>1, <2>1 DEF FailoverInv, RunsInv, MaskingHeld
  <2>5. /\ \A i \in answered : Asking(i) /\ RunAnswered(i)'
        /\ \A i \in Invocations \ answered : reply'[i] = reply[i]
    BY <2>a, <2>2
  <2>6. network' \cup masking' \subseteq network \cup masking
    BY <1>1, <2>1
  <2>7. QED  BY <1>1, <1>2, <1>3, <2>3, <2>4, <2>5, <2>6, ServiceHeld
<1>6. QED  BY <1>4, <1>5

\* The record that a request has stored.
LEMMA StoreNewHeld ==
  ASSUME FailoverInv, NEW m \in masking, Store(m), records[m.id] = NoRecord
  PROVE  FailoverInv'
<1>a. /\ m.from \in Invocations /\ m.id \in Invocations /\ m.payload \in Nat
      /\ records \in [Invocations -> Records] /\ made \in [Invocations -> Nat]
      /\ mode \in {"nothing", "equal", "fresh"}
  BY Asked DEF FailoverInv, RunsInv, FailoverTypeOK
<1>b. PICK number \in Nat : number = made[m.id] + 1
  BY <1>a
<1>c. PICK answered \in SUBSET Invocations : answered = IF Awaited(m) THEN {m.from} ELSE {}
  BY <1>a
<1>1. number # 0
  BY <1>a, <1>b
<1>2. made' = [made EXCEPT ![m.id] = number] /\ made'[m.id] = number
  BY <1>a, <1>b DEF Store
<1>3. PICK text \in MasksOf(m.payload, number) :
        /\ records' = [records EXCEPT ![m.id] = [original |-> m.payload, masked |-> text, number |-> number]]
        /\ Answer(m, text, number)
  <2>1. \E text \in MasksOf(m.payload, made'[m.id]) :
          /\ records' = [records EXCEPT ![m.id] = [original |-> m.payload, masked |-> text,
                                                  number |-> made'[m.id]]]
          /\ Answer(m, text, made'[m.id])
    BY DEF Store
  <2>2. QED  BY <1>2, <2>1
<1>4. /\ UNCHANGED <<inv, network, lost, met, mode, state_file>> /\ masking' = masking \ {m}
      /\ late' = IF Awaited(m) \/ m.payload # Source THEN late ELSE late \cup {<<m.id, number>>}
  BY <1>2 DEF Store
<1>5. m.payload = Source => text = OwnMask(number)
  BY <1>3 DEF MasksOf, OwnMask, Source
<1>6. text \in Nat /\ (m.payload # Source => text # Source)
  BY <1>a, <1>1, <1>3 DEF MasksOf, Source
<1>7. m.payload # Source => m.id \in lost
  BY DEF FailoverInv, RunsInv, MaskingHeld
<1>8. [original |-> m.payload, masked |-> text, number |-> number] \in Records
  BY <1>a, <1>6 DEF Records
<1>9. /\ records' \in [Invocations -> Records]
      /\ records'[m.id] = [original |-> m.payload, masked |-> text, number |-> number]
      /\ \A k \in Invocations \ {m.id} : records'[k] = records[k]
  BY <1>a, <1>3, <1>8
<1>10. ASSUME NEW k \in Invocations PROVE RecordKept(k)'
  BY <1>4, <1>5, <1>6, <1>7, <1>9 DEF FailoverInv, RunsInv, RecordKept, OwnMask
<1>11. m.payload = Source => StoredFor(m.id, number)'
  BY <1>4, <1>9 DEF StoredFor
<1>12. Fits(m, text, number)
  BY  <1>5, <1>6, <1>7, <1>11 DEF Fits, Conflict
<1>13. late \subseteq late' /\ late' \subseteq Invocations \X Nat
  BY <1>a, <1>4 DEF FailoverInv, RunsInv, FailoverTypeOK
<1>14. /\ reply' \in [Invocations -> Replies]
       /\ \A i \in Invocations : i # m.from \/ ~Awaited(m) => reply'[i] = reply[i]
       /\ Awaited(m) => Asking(m.from) /\ RunAnswered(m.from)'
  BY <1>3, <1>4, <1>12, <1>13, AnswerHeld
<1>15. FailoverTypeOK'
  BY <1>a, <1>2, <1>4, <1>9, <1>13, <1>14 DEF FailoverInv, RunsInv, FailoverTypeOK
<1>16. \A k \in masking' : MaskingHeld(k)'
  BY <1>4 DEF FailoverInv, RunsInv, MaskingHeld
<1>17. /\ \A i \in answered : Asking(i) /\ RunAnswered(i)'
       /\ \A i \in Invocations \ answered : reply'[i] = reply[i]
  BY <1>c, <1>14
<1>18. ASSUME NEW id \in Invocations \ answered, NEW n \in Nat, StoredFor(id, n)
       PROVE  StoredFor(id, n)'
  <2>1. CASE id # m.id
    BY <1>4, <1>9, <1>13, <1>18, <2>1 DEF StoredFor
  <2>2. CASE id = m.id
    <3>1. id \in lost
      BY <1>18, <2>2 DEF StoredFor, NoRecord, None, Source
    <3>2. m.payload = Source => ~Awaited(m)
      BY <1>c, <1>18, <2>2, Asked
    <3>3. m.payload = Source => <<id, number>> \in late'
      BY <1>4, <2>2, <3>2
    <3>4. QED  BY <1>4, <1>9, <2>2, <3>1, <3>3 DEF StoredFor
  <2>3. QED  BY <2>1, <2>2
<1>19. network' \cup masking' \subseteq network \cup masking
  BY <1>4
<1>20. QED  BY <1>4, <1>10, <1>13, <1>15, <1>16, <1>17, <1>18, <1>19, ServiceHeld

\* The record that another request has stored meanwhile.
LEMMA StoreOldHeld ==
  ASSUME FailoverInv, NEW m \in masking, Store(m), records[m.id] # NoRecord
  PROVE  FailoverInv'
<1>a. PICK record : record = records[m.id]
  OBVIOUS
<1>b. PICK text : text = IF record.original = m.payload THEN record.masked ELSE Conflict
  OBVIOUS
<1>c. PICK answered \in SUBSET Invocations : answered = IF Awaited(m) THEN {m.from} ELSE {}
  BY Asked
<1>1. /\ m.from \in Invocations /\ m.id \in Invocations /\ m.payload \in Nat /\ RecordKept(m.id)
      /\ record.original \in Nat /\ record.masked \in Nat /\ record.number \in Nat
  BY <1>a, Asked DEF FailoverInv, RunsInv, FailoverTypeOK, Records
<1>2. /\ UNCHANGED <<inv, network, records, made, lost, late, met, mode, state_file>>
      /\ masking' = masking \ {m} /\ Answer(m, text, record.number)
  BY <1>a, <1>b DEF Store
<1>3. m.payload # Source => m.id \in lost
  BY DEF FailoverInv, RunsInv, MaskingHeld
<1>4. Fits(m, text, record.number)
  <2>1. record.original # Source => record.masked # Source /\ m.id \in lost
    BY <1>a, <1>1 DEF RecordKept
  <2>2. record.original = Source => record.masked = OwnMask(record.number) /\ StoredFor(m.id, record.number)'
    BY <1>a, <1>1, <1>2 DEF RecordKept, StoredFor
  <2>3. text \in Nat \cup {Conflict} /\ (text = Conflict => m.id \in lost)
    BY <1>b, <1>1, <1>3, <2>1 DEF Conflict
  <2>4. m.payload = Source /\ text # Conflict => text = OwnMask(record.number) /\ StoredFor(m.id, record.number)'
    BY <1>b, <2>2
  <2>5. m.payload # Source => text # Source
    BY <1>b, <2>1 DEF Conflict, Source
  <2>6. QED  BY <1>1, <1>3, <2>3, <2>4, <2>5 DEF Fits
<1>5. /\ reply' \in [Invocations -> Replies]
      /\ \A i \in Invocations : i # m.from \/ ~Awaited(m) => reply'[i] = reply[i]
      /\ Awaited(m) => Asking(m.from) /\ RunAnswered(m.from)'
  BY <1>2, <1>4, AnswerHeld
<1>6. FailoverTypeOK'
  BY <1>2, <1>5 DEF FailoverInv, RunsInv, FailoverTypeOK
<1>7. \A k \in masking' : MaskingHeld(k)'
  BY <1>2 DEF FailoverInv, RunsInv, MaskingHeld
<1>8. /\ \A i \in answered : Asking(i) /\ RunAnswered(i)'
      /\ \A i \in Invocations \ answered : reply'[i] = reply[i]
  BY <1>c, <1>5
<1>9. \A id \in Invocations : RecordKept(id)'
  BY <1>2 DEF FailoverInv, RunsInv, RecordKept, OwnMask
<1>10. \A id \in Invocations, n \in Nat : StoredFor(id, n) => StoredFor(id, n)'
  BY <1>2 DEF StoredFor
<1>11. network' \cup masking' \subseteq network \cup masking
  BY <1>2
<1>12. QED  BY <1>2, <1>6, <1>7, <1>8, <1>9, <1>10, <1>11, ServiceHeld

LEMMA FailoverStarts ==
  FailoverInit => FailoverInv
<1> SUFFICES ASSUME FailoverInit PROVE FailoverInv
  OBVIOUS
<1>1. ASSUME NEW i \in Invocations
      PROVE  [at |-> "start", id |-> i, payload |-> Source, attempts |-> 0, masked |-> None, reason |-> "none"] \in Invoked
  BY DEF Invoked, Places, Reasons, Source
<1>2. FailoverTypeOK
  <2>1. inv \in [Invocations -> Invoked]
    BY <1>1 DEF FailoverInit
  <2>2. reply \in [Invocations -> Replies] /\ records \in [Invocations -> Records]
    BY DEF FailoverInit, Replies, Records
  <2>3. QED  BY <2>1, <2>2 DEF FailoverInit, FailoverTypeOK, Files
<1>3. ASSUME NEW i \in Invocations PROVE RunHeld(i) /\ RecordKept(i)
  BY DEF FailoverInit, RunHeld, RunAsks, RunAnswered, RecordKept, NoReply, None, Masks, Source, Conflict
<1>4. FileHeld /\ network = {} /\ masking = {}
  BY DEF FailoverInit, FileHeld
<1>5. QED  BY <1>2, <1>3, <1>4 DEF FailoverInv, RunsInv

LEMMA FailoverSteps ==
  FailoverInv /\ [FailoverNext]_failovervars => FailoverInv'
<1> SUFFICES ASSUME FailoverInv, [FailoverNext]_failovervars PROVE FailoverInv'
  OBVIOUS
<1>1. ASSUME NEW i \in Invocations, Prepare(i) PROVE FailoverInv'
  BY <1>1, PrepareHeld
<1>2. ASSUME NEW i \in Invocations, Verify(i) PROVE FailoverInv'
  BY <1>2, VerifyHeld
<1>3. ASSUME NEW i \in Invocations, Attempt(i) PROVE FailoverInv'
  BY <1>3, AttemptHeld
<1>4. ASSUME NEW i \in Invocations, Deadline(i) PROVE FailoverInv'
  BY <1>4, DeadlineHeld
<1>5. ASSUME NEW i \in Invocations, Receive(i) PROVE FailoverInv'
  BY <1>5, ReceiveHeld
<1>6. ASSUME NEW i \in Invocations, Create(i) PROVE FailoverInv'
  BY <1>6, CreateHeld
<1>7. ASSUME NEW i \in Invocations, Write(i) PROVE FailoverInv'
  BY <1>7, WriteHeld
<1>8. ASSUME NEW i \in Invocations, LoseRecord(i) PROVE FailoverInv'
  BY <1>8, LoseRecordHeld
<1>9. ASSUME NEW m \in network, Serve(m) PROVE FailoverInv'
  BY <1>9, ServeHeld
<1>10. ASSUME NEW m \in masking, Store(m) PROVE FailoverInv'
  BY <1>10, StoreNewHeld, StoreOldHeld
<1>11. CASE UNCHANGED failovervars
  BY <1>11 DEF failovervars, FailoverInv, RunsInv, FailoverTypeOK, RecordKept, RequestHeld, MaskingHeld,
               RunHeld, RunAsks, RunAnswered, FileHeld, StoredFor, Met, OwnMask
<1>12. QED
  BY <1>1, <1>2, <1>3, <1>4, <1>5, <1>6, <1>7, <1>8, <1>9, <1>10, <1>11 DEF FailoverNext

\* scripts/failover_check.py: for any number of runs on one state file, attempts, records,
\* lost answers and requests served late, the check fails for the mapping only if a record
\* was lost, the file is of one run, and the check passes only if its mask met the record
\* that prepare was answered from, or else, after a loss and under equal masks, one that
\* prepare's own late attempt has made again.
THEOREM CheckKeepsSafe == FailoverSpec => []CheckSafe
<1>1. FailoverInv => CheckSafe
  <2>1. FailoverInv => NoFalseAlarm /\ PassMeansPreserved
    BY DEF FailoverInv, RunsInv, RunHeld, RunAnswered, Met, NoFalseAlarm, PassMeansPreserved
  <2>2. FailoverInv => OneStateFile
    BY DEF FailoverInv, FileHeld, OneStateFile
  <2>3. QED  BY <2>1, <2>2 DEF CheckSafe
<1>2. QED  BY FailoverStarts, FailoverSteps, <1>1, PTL DEF FailoverSpec
-----------------------------------------------------------------------------
(* Demo page.                                                              *)

PageSpec == PageInit /\ [][PageNext]_pagevars

Disabled == [protect : BOOLEAN, restore : BOOLEAN, copy : BOOLEAN, source : BOOLEAN]

Operations ==
  [kind : {"protect", "restore"}, sequence : 0..MaxOperations, original : Texts,
   previous : Results \cup {Nothing}]

\* What is under way: one operation exactly while the page is busy, the current one, with
\* the result that the page had, and for a protection with the text of the field.
OperationHeld ==
  /\ ops \subseteq Operations
  /\ busy => \E op \in Operations : ops = {op}
  /\ ~busy => ops = {}
  /\ \A op \in ops :
       /\ op.previous = lastResult /\ op.sequence = operationNumber
       /\ op.kind = "protect" => op.original = source /\ op.sequence \in 1..MaxOperations
       /\ op.kind = "restore" => lastResult # Nothing

\* The entities belong to lastResult also while the page is busy.
DetailHeld == detail = (IF lastResult = Nothing THEN Nothing ELSE lastResult.original)

PageInv ==
  /\ PageTypeOK /\ OperationHeld
  /\ DetailHeld /\ (~busy => output = lastResult)
  /\ ButtonsAgree /\ ErrorStays

LEMMA ResultTyped ==
  ASSUME NEW text \in Texts, NEW id \in 1..MaxOperations, NEW restored \in BOOLEAN
  PROVE  /\ Result(text, id, restored) \in Results
         /\ Result(text, id, restored) # Nothing
         /\ Result(text, id, restored).original = text
BY WebDemoAssumption DEF Result, Results

LEMMA ButtonsTyped ==
  ASSUME NEW value \in BOOLEAN, NEW text, NEW result \in Results \cup {Nothing}
  PROVE  /\ Buttons(value, text, result) \in Disabled
         /\ Buttons(value, text, result).source = value
<1> DEFINE fixed == result = Nothing \/ (result # Nothing /\ result.restored)
<1>1. fixed \in BOOLEAN
  BY DEF Results
<1>2. /\ (value \/ fixed) \in BOOLEAN /\ (value \/ text = Blank) \in BOOLEAN
      /\ (value \/ result = Nothing) \in BOOLEAN
  OBVIOUS
<1>3. QED  BY <1>2 DEF Buttons, Disabled

\* The one operation of a busy page.
LEMMA OnlyOperation ==
  ASSUME PageInv, NEW op \in ops
  PROVE  /\ busy /\ ops = {op} /\ op \in Operations /\ op.previous = lastResult
         /\ op.sequence = operationNumber
         /\ op.kind = "protect" => op.original = source /\ op.sequence \in 1..MaxOperations
         /\ op.kind = "restore" => lastResult \in Results /\ lastResult # Nothing
BY DEF PageInv, PageTypeOK, OperationHeld

\* An idle page starts an operation.
LEMMA OperationStarts ==
  ASSUME PageInv, ~busy, NEW op \in Operations, ops' = ops \cup {op}, op.previous = lastResult,
         op.kind = "protect" => op.original = source /\ op.sequence \in 1..MaxOperations,
         op.kind = "restore" => lastResult # Nothing,
         operationNumber' \in 0..MaxOperations, op.sequence = operationNumber',
         output' = Loading, Notice(""), UNCHANGED <<source, lastResult, detail, copying>>, SetBusy(TRUE)
  PROVE  PageInv'
<1>1. ops' = {op} /\ busy' = TRUE /\ notice' = "" /\ timer' = FALSE
      /\ disabled' = Buttons(TRUE, source', lastResult')
  BY DEF PageInv, OperationHeld, Notice, SetBusy
<1>2. PageTypeOK'
  <2>1. lastResult' \in Results \cup {Nothing}
    BY DEF PageInv, PageTypeOK
  <2>2. disabled' \in Disabled
    BY <1>1, <2>1, ButtonsTyped
  <2>3. op.kind \in {"protect", "restore"}
    BY DEF Operations
  <2>4. {busy', timer', copying'} \subseteq BOOLEAN
    BY <1>1 DEF PageInv, PageTypeOK
  <2>5. QED  BY <1>1, <2>2, <2>3, <2>4 DEF PageInv, PageTypeOK, Results, Disabled
<1>3. OperationHeld'
  BY <1>1 DEF OperationHeld, Operations, Results
<1>4. DetailHeld' /\ (~busy => output = lastResult)'
  BY <1>1 DEF PageInv, DetailHeld
<1>5. ButtonsAgree' /\ ErrorStays'
  BY <1>1 DEF ButtonsAgree, ErrorStays, Buttons
<1>6. QED  BY <1>2, <1>3, <1>4, <1>5 DEF PageInv

\* The operation of a busy page ends, and the page shows the result it then has.
LEMMA OperationEnds ==
  ASSUME PageInv, NEW op \in ops, ops' = ops \ {op},
         lastResult' \in Results \cup {Nothing}, output' = lastResult', DetailHeld',
         notice' \in {notice, "error", "restored"}, timer' = (timer /\ notice' = notice),
         UNCHANGED <<source, operationNumber, copying>>, SetBusy(FALSE)
  PROVE  PageInv'
<1>1. ops' = {} /\ busy' = FALSE /\ disabled' = Buttons(FALSE, source', lastResult')
  BY OnlyOperation DEF SetBusy
<1>2. PageTypeOK'
  <2>1. disabled' \in Disabled
    BY <1>1, ButtonsTyped
  <2>2. detail' \in Texts \cup {Nothing}
    BY DEF DetailHeld, Results
  <2>3. {busy', timer', copying'} \subseteq BOOLEAN
    BY <1>1 DEF PageInv, PageTypeOK
  <2>4. QED  BY <1>1, <2>1, <2>2, <2>3 DEF PageInv, PageTypeOK, Results, Disabled
<1>3. OperationHeld'
  BY <1>1 DEF OperationHeld, Operations, Results
<1>4. ButtonsAgree' /\ ErrorStays'
  BY <1>1 DEF PageInv, ButtonsAgree, ErrorStays, Buttons
<1>5. QED  BY <1>1, <1>2, <1>3, <1>4 DEF PageInv
LEMMA ProtectKept ==
  ASSUME PageInv, protect
  PROVE  PageInv'
<1> DEFINE op == [kind |-> "protect", sequence |-> operationNumber + 1, original |-> source,
                  previous |-> lastResult]
<1>1. ~busy /\ ops' = ops \cup {op} /\ operationNumber' = operationNumber + 1
      /\ output' = Loading /\ Notice("") /\ UNCHANGED <<source, lastResult, detail, copying>> /\ SetBusy(TRUE)
  BY DEF protect
<1>2. operationNumber + 1 \in 1..MaxOperations /\ operationNumber + 1 \in 0..MaxOperations
      /\ source \in Texts /\ lastResult \in Results \cup {Nothing}
  <2>1. operationNumber < MaxOperations /\ source # Blank
    BY DEF protect
  <2>2. operationNumber \in 0..MaxOperations /\ source \in Texts \cup {Blank}
          /\ lastResult \in Results \cup {Nothing}
    BY DEF PageInv, PageTypeOK
  <2>3. QED  BY <2>1, <2>2, WebDemoAssumption
<1>3. op \in Operations /\ op.previous = lastResult /\ op.kind = "protect" /\ op.original = source
      /\ op.sequence = operationNumber + 1
  BY <1>2 DEF Operations
<1> HIDE DEF op
<1>4. QED  BY <1>1, <1>2, <1>3, OperationStarts

LEMMA RestoreKept ==
  ASSUME PageInv, restore
  PROVE  PageInv'
<1> DEFINE op == [kind |-> "restore", sequence |-> operationNumber, previous |-> lastResult,
                  original |-> lastResult.original]
<1>1. ~busy /\ ops' = ops \cup {op} /\ operationNumber' = operationNumber /\ lastResult # Nothing
      /\ output' = Loading /\ Notice("") /\ UNCHANGED <<source, lastResult, detail, copying>> /\ SetBusy(TRUE)
  BY DEF restore
<1>2. operationNumber \in 0..MaxOperations /\ lastResult \in Results /\ lastResult.original \in Texts
  BY <1>1 DEF PageInv, PageTypeOK, Results
<1>3. op \in Operations /\ op.previous = lastResult /\ op.kind = "restore" /\ op.sequence = operationNumber
  BY <1>2 DEF Operations
<1> HIDE DEF op
<1>4. QED  BY <1>1, <1>2, <1>3, OperationStarts

LEMMA ProtectedKept ==
  ASSUME PageInv, NEW op \in ops, Protected(op)
  PROVE  PageInv'
<1> DEFINE new == Result(op.original, op.sequence, FALSE)
<1>1. op \in Operations /\ op.sequence = operationNumber /\ op.sequence \in 1..MaxOperations
  BY OnlyOperation DEF Protected
<1>2. /\ ops' = ops \ {op} /\ lastResult' = new /\ output' = lastResult' /\ detail' = op.original
      /\ UNCHANGED <<source, operationNumber, notice, timer, copying>> /\ SetBusy(FALSE)
  BY <1>1 DEF Protected
<1>3. new \in Results /\ new # Nothing /\ new.original = op.original
  BY <1>1, ResultTyped DEF Operations
<1> HIDE DEF new
<1>4. DetailHeld'
  BY <1>2, <1>3 DEF DetailHeld
<1>5. timer' = (timer /\ notice' = notice)
  BY <1>2 DEF PageInv, PageTypeOK
<1>6. QED  BY <1>2, <1>3, <1>4, <1>5, OperationEnds

LEMMA ProtectFailsKept ==
  ASSUME PageInv, NEW op \in ops, ProtectFails(op)
  PROVE  PageInv'
<1>1. op.sequence = operationNumber /\ op.previous = lastResult
  BY OnlyOperation DEF ProtectFails
<1>2. /\ ops' = ops \ {op} /\ UNCHANGED <<lastResult, detail, source, operationNumber, copying>>
      /\ output' = lastResult' /\ notice' = "error" /\ timer' = FALSE /\ SetBusy(FALSE)
  BY <1>1 DEF ProtectFails, Notice
<1>3. lastResult' \in Results \cup {Nothing} /\ DetailHeld'
  BY <1>2 DEF PageInv, PageTypeOK, DetailHeld
<1>4. timer' = (timer /\ notice' = notice)
  BY <1>2 DEF PageInv, ErrorStays
<1>5. QED  BY <1>2, <1>3, <1>4, OperationEnds

LEMMA RestoredKept ==
  ASSUME PageInv, NEW op \in ops, Restored(op)
  PROVE  PageInv'
<1> DEFINE new == Result(op.previous.original, op.previous.payload_id, TRUE)
<1>1. op.previous = lastResult /\ lastResult \in Results /\ lastResult # Nothing
  BY OnlyOperation DEF Restored
<1>2. /\ ops' = ops \ {op} /\ lastResult' = new /\ output' = lastResult'
      /\ notice' = "restored" /\ timer' = FALSE
      /\ UNCHANGED <<detail, source, operationNumber, copying>> /\ SetBusy(FALSE)
  BY DEF Restored, Notice
<1>3. new \in Results /\ new # Nothing /\ new.original = lastResult.original
  BY <1>1, ResultTyped DEF Results
<1> HIDE DEF new
<1>4. DetailHeld'
  BY <1>1, <1>2, <1>3 DEF PageInv, DetailHeld
<1>5. timer' = (timer /\ notice' = notice)
  BY <1>2 DEF PageInv, ErrorStays
<1>6. QED  BY <1>2, <1>3, <1>4, <1>5, OperationEnds

LEMMA RestoreFailsKept ==
  ASSUME PageInv, NEW op \in ops, RestoreFails(op)
  PROVE  PageInv'
<1>1. op.previous = lastResult
  BY OnlyOperation DEF RestoreFails
<1>2. /\ ops' = ops \ {op} /\ UNCHANGED <<lastResult, detail, source, operationNumber, copying>>
      /\ output' = lastResult' /\ notice' = "error" /\ timer' = FALSE /\ SetBusy(FALSE)
  BY <1>1 DEF RestoreFails, Notice
<1>3. lastResult' \in Results \cup {Nothing} /\ DetailHeld'
  BY <1>2 DEF PageInv, PageTypeOK, DetailHeld
<1>4. timer' = (timer /\ notice' = notice)
  BY <1>2 DEF PageInv, ErrorStays
<1>5. QED  BY <1>2, <1>3, <1>4, OperationEnds

LEMMA ResetKept ==
  ASSUME PageInv, loadExample \/ Clear
  PROVE  PageInv'
<1>1. /\ ~busy /\ ops = {} /\ source' \in Texts \cup {Blank}
      /\ lastResult' = Nothing /\ output' = Nothing /\ detail' = Nothing /\ notice' = "" /\ timer' = FALSE
      /\ disabled' = [disabled EXCEPT !.copy = TRUE, !.restore = TRUE, !.protect = busy \/ source' = Blank]
      /\ UNCHANGED <<busy, operationNumber, ops, copying>>
  BY DEF loadExample, Clear, Reset, Notice, PageInv, OperationHeld
<1>2. busy = FALSE /\ disabled = Buttons(FALSE, source, lastResult) /\ copying \in BOOLEAN
  BY <1>1 DEF PageInv, PageTypeOK, ButtonsAgree
<1>3. disabled' = Buttons(FALSE, source', Nothing)
  BY <1>1, <1>2 DEF Buttons
<1>4. PageTypeOK'
  <2>1. disabled' \in Disabled
    BY <1>3, ButtonsTyped
  <2>2. {busy', timer', copying'} \subseteq BOOLEAN
    BY <1>1, <1>2
  <2>3. QED  BY <1>1, <2>1, <2>2 DEF PageInv, PageTypeOK, Results, Disabled
<1>5. OperationHeld'
  BY <1>1 DEF OperationHeld
<1>6. DetailHeld' /\ (~busy => output = lastResult)'
  BY <1>1 DEF DetailHeld
<1>7. ButtonsAgree' /\ ErrorStays'
  BY <1>1, <1>2, <1>3 DEF ButtonsAgree, ErrorStays
<1>8. QED  BY <1>4, <1>5, <1>6, <1>7 DEF PageInv

LEMMA InputKept ==
  ASSUME PageInv, Input
  PROVE  PageInv'
<1>1. /\ source' \in Texts \cup {Blank} /\ ~disabled.source
      /\ disabled' = [disabled EXCEPT !.protect = busy \/ source' = Blank]
      /\ UNCHANGED <<lastResult, busy, operationNumber, ops, output, detail, notice, timer, copying>>
  BY DEF Input
<1>2. disabled = Buttons(busy, source, lastResult) /\ busy \in BOOLEAN /\ lastResult \in Results \cup {Nothing}
  BY DEF PageInv, PageTypeOK, ButtonsAgree
<1>3. ~busy /\ disabled' = Buttons(busy, source', lastResult)
  BY <1>1, <1>2 DEF Buttons
<1>4. PageTypeOK'
  <2>1. disabled' \in Disabled
    BY <1>2, <1>3, ButtonsTyped
  <2>2. QED  BY <1>1, <2>1 DEF PageInv, PageTypeOK, Results, Disabled
<1>5. OperationHeld'
  BY <1>1, <1>3 DEF PageInv, OperationHeld
<1>6. DetailHeld' /\ (~busy => output = lastResult)'
  BY <1>1 DEF PageInv, DetailHeld
<1>7. ButtonsAgree' /\ ErrorStays'
  BY <1>1, <1>3 DEF PageInv, ButtonsAgree, ErrorStays
<1>8. QED  BY <1>4, <1>5, <1>6, <1>7 DEF PageInv

LEMMA NoticesKept ==
  ASSUME PageInv, Copy \/ Copied \/ TimerFires
  PROVE  PageInv'
<1>1. /\ UNCHANGED <<source, lastResult, busy, operationNumber, ops, output, detail, disabled>>
      /\ copying' \in {copying, TRUE, FALSE}
      /\ <<notice', timer'>> \in {<<notice, timer>>, <<"copied", TRUE>>, <<"error", FALSE>>, <<"", FALSE>>}
  BY DEF Copy, Copied, TimerFires, Notice
<1>2. PageTypeOK'
  <2>1. notice' \in {"", "error", "restored", "copied"} /\ {busy', timer', copying'} \subseteq BOOLEAN
    BY <1>1 DEF PageInv, PageTypeOK
  <2>2. QED  BY <1>1, <2>1 DEF PageInv, PageTypeOK, Results
<1>3. OperationHeld' /\ DetailHeld' /\ (~busy => output = lastResult)' /\ ButtonsAgree'
  BY <1>1 DEF PageInv, OperationHeld, DetailHeld, ButtonsAgree
<1>4. ErrorStays'
  BY <1>1 DEF PageInv, ErrorStays
<1>5. QED  BY <1>2, <1>3, <1>4 DEF PageInv

LEMMA PageStarts ==
  PageInit => PageInv
<1> SUFFICES ASSUME PageInit PROVE PageInv
  OBVIOUS
<1>1. PageTypeOK /\ OperationHeld
  <2>1. disabled \in [protect : BOOLEAN, restore : BOOLEAN, copy : BOOLEAN, source : BOOLEAN]
    BY DEF PageInit
  <2>2. {busy, timer, copying} \subseteq BOOLEAN /\ ops = {} /\ busy = FALSE
    BY DEF PageInit
  <2>3. PageTypeOK
    <3>1. /\ source \in Texts \cup {Blank} /\ lastResult \in Results \cup {Nothing}
          /\ output \in Results \cup {Nothing, Loading} /\ detail \in Texts \cup {Nothing}
          /\ notice \in {"", "error", "restored", "copied"}
      BY DEF PageInit
    <3>2. operationNumber \in 0..MaxOperations
      <4>1. MaxOperations \in Nat
        BY WebDemoAssumption
      <4>2. operationNumber = 0
        BY DEF PageInit
      <4>3. QED  BY <4>1, <4>2
    <3>3. QED  BY <2>1, <2>2, <3>1, <3>2 DEF PageTypeOK
  <2>4. QED  BY <2>2, <2>3 DEF OperationHeld
<1>2. DetailHeld /\ (~busy => output = lastResult) /\ ErrorStays
  BY DEF PageInit, DetailHeld, ErrorStays
<1>3. ButtonsAgree
  BY WebDemoAssumption DEF PageInit, ButtonsAgree, Buttons
<1>4. QED  BY <1>1, <1>2, <1>3 DEF PageInv

LEMMA PageSteps ==
  PageInv /\ [PageNext]_pagevars => PageInv'
<1> SUFFICES ASSUME PageInv, [PageNext]_pagevars PROVE PageInv'
  OBVIOUS
<1>1. CASE protect
  BY <1>1, ProtectKept
<1>2. CASE restore
  BY <1>2, RestoreKept
<1>3. CASE loadExample \/ Clear
  BY <1>3, ResetKept
<1>4. CASE Input
  BY <1>4, InputKept
<1>5. CASE Copy \/ Copied \/ TimerFires
  BY <1>5, NoticesKept
<1>6. ASSUME NEW op \in ops, Protected(op) PROVE PageInv'
  BY <1>6, ProtectedKept
<1>7. ASSUME NEW op \in ops, ProtectFails(op) PROVE PageInv'
  BY <1>7, ProtectFailsKept
<1>8. ASSUME NEW op \in ops, Restored(op) PROVE PageInv'
  BY <1>8, RestoredKept
<1>9. ASSUME NEW op \in ops, RestoreFails(op) PROVE PageInv'
  BY <1>9, RestoreFailsKept
<1>10. CASE UNCHANGED pagevars
  <2>1. /\ source' = source /\ lastResult' = lastResult /\ busy' = busy /\ operationNumber' = operationNumber
        /\ ops' = ops /\ output' = output /\ detail' = detail /\ disabled' = disabled /\ notice' = notice
        /\ timer' = timer /\ copying' = copying
    BY <1>10 DEF pagevars
  <2>2. PageTypeOK'
    BY <2>1, ZenonT(60) DEF PageInv, PageTypeOK, Results
  <2>3. OperationHeld' /\ DetailHeld' /\ (~busy => output = lastResult)' /\ ButtonsAgree' /\ ErrorStays'
    BY <2>1 DEF PageInv, OperationHeld, DetailHeld, ButtonsAgree, ErrorStays
  <2>4. QED  BY <2>2, <2>3 DEF PageInv
<1>11. QED
  BY <1>1, <1>2, <1>3, <1>4, <1>5, <1>6, <1>7, <1>8, <1>9, <1>10 DEF PageNext

\* web/app.js: for any texts and any number of operations, one operation at a time, of
\* the text in the field; an idle page shows the last result and its entities; the three
\* places that set the buttons agree; and no timer hides an error.
THEOREM PageKeepsSafe == PageSpec => []PageSafe
<1>1. PageInv => PageSafe
  <2> SUFFICES ASSUME PageInv PROVE PageSafe
    OBVIOUS
  <2>1. OneOperation
    <3>1. CASE busy
      BY <3>1, FS_Singleton DEF PageInv, OperationHeld, OneOperation
    <3>2. CASE ~busy
      BY <3>2, FS_EmptySet DEF PageInv, OperationHeld, OneOperation
    <3>3. QED  BY <3>1, <3>2
  <2>2. ShowsLastResult
    BY DEF PageInv, DetailHeld, ShowsLastResult
  <2>3. QED  BY <2>1, <2>2 DEF PageInv, PageSafe
<1>2. QED  BY PageStarts, PageSteps, <1>1, PTL DEF PageSpec
-----------------------------------------------------------------------------
(* Local Redis topology.                                                   *)

RedisSpec == RedisInit /\ [][RedisNext]_redisvars

RedisTypeOK ==
  /\ directory \in BOOLEAN /\ stopped \in BOOLEAN
  /\ process \in [Nodes -> {"none", "running", "dying", "gone"}]
  /\ reused \subseteq Nodes /\ recorded \subseteq Nodes /\ slipped \subseteq Nodes
  /\ step \in {"none", "spawning", "recording", "awaiting", "signalling", "killing"}
  /\ left \in Seq(Nodes)

\* A directory is started in once; before that nothing of it runs.
StartHeld ==
  /\ ~directory => step = "none" /\ recorded = {} /\ \A n \in Nodes : process[n] = "none"
  /\ step \in {"spawning", "recording", "awaiting"} => ~stopped

\* Whatever was started is recorded, but for the one that is being recorded, or was when
\* the script was cut off; what is left to start has no process.
RecordHeld ==
  /\ \A m, n \in Nodes \ recorded : Runs(m) /\ Runs(n) => m = n
  /\ step \in {"spawning", "recording"} =>
       /\ \A k, l \in DOMAIN left : left[k] = left[l] => k = l
       /\ \A k \in DOMAIN left : (k = 1 /\ step = "recording") \/ process[left[k]] = "none"
  /\ step = "recording" => left # <<>> /\ \A n \in Nodes \ recorded : Runs(n) => n = left[1]
  /\ step = "spawning" => \A n \in Nodes \ recorded : ~Runs(n)

\* A number is given away only when its server has gone for good.  What was checked is
\* still that server when it is signalled, or a stranger that slipped in since.
NumberHeld ==
  /\ \A n \in reused : process[n] = "gone"
  /\ strangers_hit \subseteq slipped
  /\ step = "killing" =>
       /\ left # <<>> /\ Head(left) \in recorded
       /\ Head(left) \in reused => Head(left) \in slipped

\* While stop goes through its nodes, the recorded Sentinels that run are still to come,
\* and no Sentinel comes after another server.
DiscoveryHeld ==
  step \in {"signalling", "killing"} =>
    /\ \A s \in Sentinels \cap recorded : process[s] = "running" => \E k \in DOMAIN left : left[k] = s
    /\ \A k, l \in DOMAIN left : k < l /\ left[l] \in Sentinels => left[k] \in Sentinels

TopologyInv ==
  RedisTypeOK /\ StartHeld /\ RecordHeld /\ NumberHeld /\ DiscoveryHeld /\ StoppedIsTrue

\* What Head and Tail leave.
LEMMA HeadAndTail ==
  ASSUME NEW S, NEW s \in Seq(S), s # <<>>
  PROVE  /\ 1 \in DOMAIN s /\ Head(s) = s[1] /\ Head(s) \in S
         /\ Tail(s) \in Seq(S)
         /\ \A k \in DOMAIN Tail(s) : k \in Nat /\ k + 1 \in DOMAIN s /\ k + 1 # 1 /\ Tail(s)[k] = s[k + 1]
         /\ \A k \in DOMAIN s : k # 1 => k - 1 \in DOMAIN Tail(s) /\ Tail(s)[k - 1] = s[k]
OBVIOUS

LEMMA IsSequence ==
  ASSUME NEW S, NEW n \in Nat, NEW s \in [1..n -> S]
  PROVE  s \in Seq(S)
OBVIOUS

LEMMA OrdersTyped ==
  /\ Order \in Seq(Nodes) /\ Order # <<>> /\ StopOrder \in Seq(Nodes)
  /\ \A k, l \in DOMAIN Order : Order[k] = Order[l] => k = l
  /\ \A n \in Nodes : \E k \in DOMAIN StopOrder : StopOrder[k] = n
  /\ \A k, l \in DOMAIN StopOrder : k < l /\ StopOrder[l] \in Sentinels => StopOrder[k] \in Sentinels
<1> DEFINE R == RedisNodes
           S == SentinelNodes
<1>1. R \in Seq(Range(R)) /\ S \in Seq(Range(S)) /\ R # <<>> /\ IsInjective(R \o S)
  BY LocalRedisAssumption
<1>2. /\ Len(R) \in Nat /\ Len(S) \in Nat /\ DOMAIN R = 1..Len(R) /\ DOMAIN S = 1..Len(S)
      /\ DOMAIN Order = 1..(Len(R) + Len(S)) /\ DOMAIN StopOrder = 1..(Len(S) + Len(R))
      /\ \A k \in 1..(Len(R) + Len(S)) : Order[k] = IF k <= Len(R) THEN R[k] ELSE S[k - Len(R)]
      /\ \A k \in 1..(Len(S) + Len(R)) : StopOrder[k] = IF k <= Len(S) THEN S[k] ELSE R[k - Len(S)]
  BY <1>1 DEF Order, StopOrder
<1>3. \A k, l \in DOMAIN Order : Order[k] = Order[l] => k = l
  BY <1>1 DEF IsInjective, Order
<1>4. \A k \in DOMAIN Order : Order[k] \in Nodes
  BY DEF Nodes, Range
<1>5. /\ \A k \in 1..Len(R) : R[k] = Order[k] /\ k \in DOMAIN Order
      /\ \A k \in 1..Len(S) : S[k] = Order[k + Len(R)] /\ k + Len(R) \in DOMAIN Order
  BY <1>2
<1>6. R \in Seq(Nodes) /\ S \in Seq(Nodes)
  <2>1. (\A k \in 1..Len(R) : R[k] \in Nodes) /\ (\A k \in 1..Len(S) : S[k] \in Nodes)
    BY <1>4, <1>5
  <2>2. R \in [1..Len(R) -> Nodes] /\ S \in [1..Len(S) -> Nodes]
    BY <1>1, <2>1
  <2>3. QED  BY <1>2, <2>2, IsSequence
<1>7. Order \in Seq(Nodes) /\ Order # <<>> /\ StopOrder \in Seq(Nodes)
  BY <1>1, <1>6 DEF Order, StopOrder
<1>8. ASSUME NEW n \in Nodes PROVE \E k \in DOMAIN StopOrder : StopOrder[k] = n
  <2>1. PICK k \in DOMAIN Order : Order[k] = n
    BY DEF Nodes, Range
  <2>2. CASE k <= Len(R)
    <3>1. k + Len(S) \in DOMAIN StopOrder /\ StopOrder[k + Len(S)] = n
      BY <1>2, <2>1, <2>2
    <3>2. QED  BY <3>1
  <2>3. CASE ~(k <= Len(R))
    <3>1. k - Len(R) \in DOMAIN StopOrder /\ StopOrder[k - Len(R)] = n
      BY <1>2, <2>1, <2>3
    <3>2. QED  BY <3>1
  <2>4. QED  BY <2>2, <2>3
<1>9. ASSUME NEW k \in DOMAIN StopOrder, NEW l \in DOMAIN StopOrder, k < l, StopOrder[l] \in Sentinels
      PROVE  StopOrder[k] \in Sentinels
  <2>1. l <= Len(S)
    <3>1. SUFFICES ASSUME ~(l <= Len(S)) PROVE FALSE
      OBVIOUS
    <3>2. l - Len(S) \in 1..Len(R) /\ StopOrder[l] = Order[l - Len(S)] /\ l - Len(S) \in DOMAIN Order
      BY <1>2, <1>5, <3>1
    <3>3. PICK j \in 1..Len(S) : StopOrder[l] = S[j]
      BY <1>2, <1>9 DEF Sentinels, Range
    <3>4. j + Len(R) \in DOMAIN Order /\ Order[j + Len(R)] = Order[l - Len(S)]
      BY <1>5, <3>2, <3>3
    <3>5. j + Len(R) = l - Len(S)
      BY <1>3, <3>2, <3>4
    <3>6. QED  BY <1>2, <3>2, <3>3, <3>5
  <2>2. k \in 1..Len(S) /\ StopOrder[k] = S[k]
    BY <1>2, <1>9, <2>1
  <2>3. QED  BY <1>2, <2>2 DEF Sentinels, Range
<1>10. QED  BY <1>3, <1>7, <1>8, <1>9

LEMMA StartTopology ==
  ASSUME TopologyInv, start
  PROVE  TopologyInv'
<1>1. RedisTypeOK'
  BY OrdersTyped DEF start, TopologyInv, RedisTypeOK
<1>2. StartHeld'
  BY DEF start, StartHeld
<1>3. RecordHeld'
  BY OrdersTyped DEF start, Runs, TopologyInv, StartHeld, RecordHeld
<1>4. NumberHeld'
  BY DEF start, TopologyInv, NumberHeld
<1>5. DiscoveryHeld'
  BY DEF start, DiscoveryHeld
<1>6. StoppedIsTrue'
  BY DEF start, StoppedIsTrue
<1>7. QED  BY <1>1, <1>2, <1>3, <1>4, <1>5, <1>6 DEF TopologyInv

LEMMA SpawnTopology ==
  ASSUME TopologyInv, Spawn
  PROVE  TopologyInv'
<1>1. RedisTypeOK'
  BY DEF Spawn, TopologyInv, RedisTypeOK
<1>2. StartHeld'
  BY DEF Spawn, TopologyInv, StartHeld
<1>3. RecordHeld'
  BY DEF Spawn, Runs, TopologyInv, RedisTypeOK, RecordHeld
<1>4. NumberHeld'
  BY DEF Spawn, TopologyInv, RecordHeld, NumberHeld
<1>5. DiscoveryHeld'
  BY DEF Spawn, DiscoveryHeld
<1>6. StoppedIsTrue'
  BY DEF Spawn, TopologyInv, StartHeld, StoppedIsTrue
<1>7. QED  BY <1>1, <1>2, <1>3, <1>4, <1>5, <1>6 DEF TopologyInv

LEMMA RecordTopology ==
  ASSUME TopologyInv, Record
  PROVE  TopologyInv'
<1>1. RedisTypeOK'
  <2>1. left \in Seq(Nodes) /\ left # <<>>
    BY DEF Record, TopologyInv, RedisTypeOK, RecordHeld
  <2>2. Head(left) \in Nodes /\ Tail(left) \in Seq(Nodes)
    BY <2>1, HeadAndTail
  <2>3. QED  BY <2>2 DEF Record, TopologyInv, RedisTypeOK
<1>2. StartHeld'
  BY DEF Record, TopologyInv, StartHeld
<1>3. RecordHeld'
  <2> DEFINE rest == Tail(left)
  <2>1. /\ step = "recording" /\ left \in Seq(Nodes) /\ left # <<>> /\ RecordHeld
        /\ recorded' = recorded \cup {left[1]} /\ left' = rest /\ process' = process
        /\ step' \in {"awaiting", "spawning"}
    BY DEF Record, TopologyInv, RedisTypeOK, RecordHeld
  <2>2. \A k \in DOMAIN rest : k \in Nat /\ k + 1 \in DOMAIN left /\ k + 1 # 1 /\ rest[k] = left[k + 1]
    BY <2>1, HeadAndTail
  <2> HIDE DEF rest
  <2>3. \A n \in Nodes \ recorded' : ~Runs(n)'
    BY <2>1 DEF RecordHeld, Runs
  <2>4. ASSUME NEW k \in DOMAIN rest, NEW l \in DOMAIN rest, rest[k] = rest[l] PROVE k = l
    <3>1. k + 1 = l + 1
      BY <2>1, <2>2, <2>4 DEF RecordHeld
    <3>2. QED  BY <2>2, <3>1
  <2>5. \A k \in DOMAIN rest : process[rest[k]] = "none"
    BY <2>1, <2>2 DEF RecordHeld
  <2>6. QED  BY <2>1, <2>3, <2>4, <2>5 DEF RecordHeld
<1>4. NumberHeld'
  BY DEF Record, TopologyInv, NumberHeld
<1>5. DiscoveryHeld'
  BY DEF Record, DiscoveryHeld
<1>6. StoppedIsTrue'
  BY DEF Record, TopologyInv, StartHeld, StoppedIsTrue
<1>7. QED  BY <1>1, <1>2, <1>3, <1>4, <1>5, <1>6 DEF TopologyInv

LEMMA ReadyTopology ==
  ASSUME TopologyInv, Ready
  PROVE  TopologyInv'
<1>1. RedisTypeOK'
  BY DEF Ready, TopologyInv, RedisTypeOK
<1>2. StartHeld'
  BY DEF Ready, TopologyInv, StartHeld
<1>3. RecordHeld'
  BY DEF Ready, TopologyInv, RecordHeld, Runs
<1>4. NumberHeld'
  BY DEF Ready, TopologyInv, NumberHeld
<1>5. DiscoveryHeld'
  BY DEF Ready, DiscoveryHeld
<1>6. StoppedIsTrue'
  BY DEF Ready, TopologyInv, StoppedIsTrue, Runs
<1>7. QED  BY <1>1, <1>2, <1>3, <1>4, <1>5, <1>6 DEF TopologyInv

\* What is left after the first node still begins with the Sentinels, and holds those that
\* run but for that one.
LEMMA DiscoveryGoesOn ==
  ASSUME NEW n \in Nodes, left \in Seq(Nodes), left # <<>>, n = Head(left), left' = Tail(left),
         step \in {"signalling", "killing"}, DiscoveryHeld, recorded' = recorded,
         \A s \in Sentinels \cap recorded : process'[s] = "running" => process[s] = "running" /\ s # n
  PROVE  DiscoveryHeld'
<1>1. n = left[1]
  BY HeadAndTail
<1>2. ASSUME NEW s \in Sentinels \cap recorded, process'[s] = "running"
      PROVE  \E k \in DOMAIN left' : left'[k] = s
  <2>1. process[s] = "running" /\ s # n
    BY <1>2
  <2>2. PICK k \in DOMAIN left : left[k] = s
    BY <2>1 DEF DiscoveryHeld
  <2>3. k # 1
    BY <1>1, <2>1, <2>2
  <2>4. k - 1 \in DOMAIN Tail(left) /\ Tail(left)[k - 1] = s
    BY <2>2, <2>3, HeadAndTail
  <2>5. QED  BY <2>4
<1>3. ASSUME NEW k \in DOMAIN left', NEW l \in DOMAIN left', k < l, left'[l] \in Sentinels
      PROVE  left'[k] \in Sentinels
  <2>1. /\ k \in Nat /\ l \in Nat /\ k + 1 \in DOMAIN left /\ l + 1 \in DOMAIN left
        /\ left'[k] = left[k + 1] /\ left'[l] = left[l + 1]
    BY HeadAndTail
  <2>2. k + 1 < l + 1
    BY <1>3, <2>1
  <2>3. QED  BY <1>3, <2>1, <2>2 DEF DiscoveryHeld
<1>4. QED  BY <1>2, <1>3 DEF DiscoveryHeld

LEMMA CheckTopology ==
  ASSUME TopologyInv, Check
  PROVE  TopologyInv'
<1> DEFINE n == Head(left)
<1>1. /\ left \in Seq(Nodes) /\ left # <<>> /\ step = "signalling"
      /\ UNCHANGED <<directory, process, reused, recorded, stopped, strangers_hit, slipped>>
  BY DEF Check, TopologyInv, RedisTypeOK
<1>2. n \in Nodes /\ Tail(left) \in Seq(Nodes)
  BY <1>1, HeadAndTail
<1>3. CASE n \in recorded /\ process_owned(n)
  <2>1. step' = "killing" /\ left' = left
    BY <1>3 DEF Check
  <2>2. RedisTypeOK' /\ StartHeld' /\ StoppedIsTrue' /\ DiscoveryHeld'
    BY <1>1, <2>1 DEF TopologyInv, RedisTypeOK, StartHeld, StoppedIsTrue, Runs, DiscoveryHeld
  <2>3. RecordHeld'
    BY <1>1, <2>1 DEF TopologyInv, RecordHeld, Runs
  <2>4. NumberHeld'
    BY <1>1, <1>3, <2>1 DEF TopologyInv, NumberHeld, process_owned
  <2>5. QED  BY <2>2, <2>3, <2>4 DEF TopologyInv
<1>4. CASE ~(n \in recorded /\ process_owned(n))
  <2>1. step' = "signalling" /\ left' = Tail(left)
    BY <1>1, <1>4 DEF Check
  <2>2. RedisTypeOK' /\ StartHeld' /\ StoppedIsTrue' /\ NumberHeld'
    BY <1>1, <1>2, <2>1 DEF TopologyInv, RedisTypeOK, StartHeld, StoppedIsTrue, Runs, NumberHeld
  <2>3. RecordHeld'
    BY <1>1, <2>1 DEF TopologyInv, RecordHeld, Runs
  <2>4. ASSUME NEW s \in Sentinels \cap recorded, process[s] = "running" PROVE s # n
    BY <1>4, <2>4 DEF TopologyInv, NumberHeld, process_owned, Runs, RedisTypeOK
  <2> HIDE DEF n
  <2>5. DiscoveryHeld'
    BY <1>1, <1>2, <2>1, <2>4, DiscoveryGoesOn DEF TopologyInv, n
  <2>6. QED  BY <2>2, <2>3, <2>5 DEF TopologyInv
<1>5. QED  BY <1>3, <1>4

LEMMA KillTopology ==
  ASSUME TopologyInv, Kill
  PROVE  TopologyInv'
<1> DEFINE n == Head(left)
<1>1. /\ step = "killing" /\ left \in Seq(Nodes) /\ left # <<>> /\ n \in recorded
      /\ n \in reused => n \in slipped
      /\ process \in [Nodes -> {"none", "running", "dying", "gone"}]
      /\ process' = [process EXCEPT ![n] = IF @ = "running" THEN "dying" ELSE @]
      /\ strangers_hit' = strangers_hit \cup ({n} \cap reused)
      /\ step' = "signalling" /\ left' = Tail(left)
      /\ UNCHANGED <<directory, reused, recorded, stopped, slipped>>
  BY DEF Kill, TopologyInv, RedisTypeOK, NumberHeld
<1>2. n \in Nodes /\ left' \in Seq(Nodes)
  BY <1>1, HeadAndTail
<1> HIDE DEF n
<1>3. /\ process' \in [Nodes -> {"none", "running", "dying", "gone"}]
      /\ \A k \in Nodes : k # n => process'[k] = process[k]
      /\ process'[n] = IF process[n] = "running" THEN "dying" ELSE process[n]
  BY <1>1, <1>2
<1>4. RedisTypeOK'
  BY <1>1, <1>2, <1>3 DEF TopologyInv, RedisTypeOK
<1>5. \A k \in Nodes : Runs(k)' => Runs(k)
  BY <1>3 DEF Runs
<1>6. StartHeld'
  BY <1>1 DEF TopologyInv, StartHeld
<1>7. RecordHeld'
  BY <1>1, <1>5 DEF TopologyInv, RecordHeld
<1>8. NumberHeld'
  BY <1>1, <1>3 DEF TopologyInv, RedisTypeOK, NumberHeld
<1>9. DiscoveryHeld'
  <2>1. ASSUME NEW s \in Sentinels \cap recorded, process'[s] = "running"
        PROVE  process[s] = "running" /\ s # n
    <3>1. s \in Nodes
      BY <1>1 DEF TopologyInv, RedisTypeOK
    <3>2. QED  BY <1>3, <2>1, <3>1
  <2>2. QED  BY <1>1, <1>2, <2>1, DiscoveryGoesOn DEF TopologyInv, n
<1>10. StoppedIsTrue'
  BY <1>1, <1>5 DEF TopologyInv, RedisTypeOK, StoppedIsTrue
<1>11. QED  BY <1>4, <1>6, <1>7, <1>8, <1>9, <1>10 DEF TopologyInv

LEMMA KillFailsTopology ==
  ASSUME TopologyInv, KillFails
  PROVE  TopologyInv'
<1>1. RedisTypeOK'
  BY DEF KillFails, TopologyInv, RedisTypeOK
<1>2. StartHeld'
  BY DEF KillFails, TopologyInv, StartHeld
<1>3. RecordHeld'
  BY DEF KillFails, TopologyInv, RecordHeld, Runs
<1>4. NumberHeld'
  BY DEF KillFails, TopologyInv, NumberHeld
<1>5. DiscoveryHeld'
  BY DEF KillFails, DiscoveryHeld
<1>6. StoppedIsTrue'
  BY DEF KillFails, TopologyInv, StoppedIsTrue, Runs
<1>7. QED  BY <1>1, <1>2, <1>3, <1>4, <1>5, <1>6 DEF TopologyInv

LEMMA StoppedTopology ==
  ASSUME TopologyInv, Stopped
  PROVE  TopologyInv'
<1>1. RedisTypeOK'
  BY DEF Stopped, TopologyInv, RedisTypeOK
<1>2. StartHeld'
  BY DEF Stopped, TopologyInv, StartHeld
<1>3. RecordHeld'
  BY DEF Stopped, Runs, TopologyInv, RecordHeld
<1>4. NumberHeld'
  BY DEF Stopped, TopologyInv, NumberHeld
<1>5. DiscoveryHeld'
  BY DEF Stopped, DiscoveryHeld
<1>6. StoppedIsTrue'
  BY DEF Stopped, Runs, process_owned, TopologyInv, NumberHeld, StoppedIsTrue
<1>7. QED  BY <1>1, <1>2, <1>3, <1>4, <1>5, <1>6 DEF TopologyInv

LEMMA KilledTopology ==
  ASSUME TopologyInv, Killed
  PROVE  TopologyInv'
<1>1. RedisTypeOK'
  BY DEF Killed, TopologyInv, RedisTypeOK
<1>2. StartHeld'
  BY DEF Killed, TopologyInv, StartHeld
<1>3. RecordHeld'
  BY DEF Killed, TopologyInv, RecordHeld, Runs
<1>4. NumberHeld'
  BY DEF Killed, TopologyInv, NumberHeld
<1>5. DiscoveryHeld'
  BY DEF Killed, DiscoveryHeld
<1>6. StoppedIsTrue'
  BY DEF Killed, TopologyInv, StoppedIsTrue, Runs
<1>7. QED  BY <1>1, <1>2, <1>3, <1>4, <1>5, <1>6 DEF TopologyInv

LEMMA ExitTopology ==
  ASSUME TopologyInv, NEW n \in Nodes, Exit(n)
  PROVE  TopologyInv'
<1>1. RedisTypeOK'
  BY DEF Exit, TopologyInv, RedisTypeOK
<1>2. StartHeld'
  BY DEF Exit, Runs, TopologyInv, StartHeld
<1>3. RecordHeld'
  BY DEF Exit, Runs, TopologyInv, RecordHeld
<1>4. NumberHeld'
  BY DEF Exit, TopologyInv, NumberHeld
<1>5. DiscoveryHeld'
  BY DEF Exit, TopologyInv, DiscoveryHeld
<1>6. StoppedIsTrue'
  BY DEF Exit, Runs, TopologyInv, StoppedIsTrue
<1>7. QED  BY <1>1, <1>2, <1>3, <1>4, <1>5, <1>6 DEF TopologyInv

LEMMA ReuseTopology ==
  ASSUME TopologyInv, NEW n \in Nodes, Reuse(n)
  PROVE  TopologyInv'
<1>1. RedisTypeOK'
  BY DEF Reuse, TopologyInv, RedisTypeOK
<1>2. StartHeld'
  BY DEF Reuse, TopologyInv, StartHeld
<1>3. RecordHeld'
  BY DEF Reuse, TopologyInv, RecordHeld, Runs
<1>4. NumberHeld'
  BY DEF Reuse, TopologyInv, NumberHeld
<1>5. DiscoveryHeld'
  BY DEF Reuse, TopologyInv, DiscoveryHeld
<1>6. StoppedIsTrue'
  BY DEF Reuse, TopologyInv, StoppedIsTrue, Runs
<1>7. QED  BY <1>1, <1>2, <1>3, <1>4, <1>5, <1>6 DEF TopologyInv
LEMMA StopTopology ==
  ASSUME TopologyInv, StartFails \/ stop
  PROVE  TopologyInv'
<1>1. /\ step' = "signalling" /\ left' = StopOrder /\ directory
      /\ UNCHANGED <<directory, process, reused, recorded, stopped, strangers_hit, slipped>>
  BY DEF StartFails, stop, BeginStop, TopologyInv, StartHeld
<1>2. RedisTypeOK' /\ StartHeld' /\ NumberHeld' /\ StoppedIsTrue'
  BY <1>1, OrdersTyped DEF TopologyInv, RedisTypeOK, StartHeld, NumberHeld, StoppedIsTrue, Runs
<1>3. RecordHeld'
  BY <1>1 DEF TopologyInv, RecordHeld, Runs
<1>4. DiscoveryHeld'
  BY <1>1, OrdersTyped DEF TopologyInv, RedisTypeOK, DiscoveryHeld
<1>5. QED  BY <1>2, <1>3, <1>4 DEF TopologyInv

LEMMA TopologyStarts ==
  RedisInit => TopologyInv
<1> SUFFICES ASSUME RedisInit PROVE TopologyInv
  OBVIOUS
<1>1. RedisTypeOK
  <2>1. process \in [Nodes -> {"none", "running", "dying", "gone"}]
    BY DEF RedisInit
  <2>2. left \in Seq(Nodes)
    BY DEF RedisInit
  <2>3. QED  BY <2>2 DEF RedisInit, RedisTypeOK
<1>2. StartHeld /\ RecordHeld /\ NumberHeld /\ DiscoveryHeld /\ StoppedIsTrue
  BY DEF RedisInit, StartHeld, RecordHeld, NumberHeld, DiscoveryHeld, StoppedIsTrue, Runs
<1>3. QED  BY <1>1, <1>2 DEF TopologyInv

LEMMA TopologySteps ==
  TopologyInv /\ [RedisNext]_redisvars => TopologyInv'
<1> SUFFICES ASSUME TopologyInv, [RedisNext]_redisvars PROVE TopologyInv'
  OBVIOUS
<1>1. CASE start
  BY <1>1, StartTopology
<1>2. CASE Spawn
  BY <1>2, SpawnTopology
<1>3. CASE Record
  BY <1>3, RecordTopology
<1>4. CASE Ready
  BY <1>4, ReadyTopology
<1>5. CASE StartFails \/ stop
  BY <1>5, StopTopology
<1>6. CASE Check \/ Kill \/ KillFails
  BY <1>6, CheckTopology, KillTopology, KillFailsTopology
<1>7. CASE Stopped
  BY <1>7, StoppedTopology
<1>8. CASE Killed
  BY <1>8, KilledTopology
<1>9. ASSUME NEW n \in Nodes, Exit(n) PROVE TopologyInv'
  BY <1>9, ExitTopology
<1>10. ASSUME NEW n \in Nodes, Reuse(n) PROVE TopologyInv'
  BY <1>10, ReuseTopology
<1>11. CASE UNCHANGED redisvars
  BY <1>11 DEF redisvars, TopologyInv, RedisTypeOK, StartHeld, RecordHeld, NumberHeld, DiscoveryHeld,
       StoppedIsTrue, Runs

<1>12. QED
  BY <1>1, <1>2, <1>3, <1>4, <1>5, <1>6, <1>7, <1>8, <1>9, <1>10, <1>11 DEF RedisNext

\* scripts/local_redis.py: for any topology, kills, exits, signals that fail and reused
\* process numbers, a stranger is signalled only where its number passed to it between the
\* check and the signal, "stopped" is true, and at most one server can run without being
\* known to a later stop.
THEOREM TopologyKeepsSafe == RedisSpec => []TopologySafe
<1>1. TopologyInv => TopologySafe
  <2> SUFFICES ASSUME TopologyInv PROVE TopologySafe
    OBVIOUS
  <2>1. NoStrangerHit /\ StoppedIsTrue
    BY DEF TopologyInv, NumberHeld, NoStrangerHit
  <2>2. AtMostOneUnrecorded
    <3> DEFINE unknown == {n \in Nodes \ recorded : Runs(n)}
    <3>1. CASE unknown = {}
      BY <3>1, FS_EmptySet DEF AtMostOneUnrecorded
    <3>2. CASE unknown # {}
      <4>1. PICK n : n \in unknown
        BY <3>2
      <4>2. unknown = {n}
        BY <4>1 DEF TopologyInv, RecordHeld
      <4>3. Cardinality(unknown) = 1
        BY <4>2, FS_Singleton
      <4>4. QED  BY <4>3 DEF AtMostOneUnrecorded
    <3>3. QED  BY <3>1, <3>2
  <2>3. QED  BY <2>1, <2>2 DEF TopologySafe
<1>2. QED  BY TopologyStarts, TopologySteps, <1>1, PTL DEF RedisSpec

\* stop: "close discovery first so an intentional stop cannot trigger a promotion": a
\* server is signalled only when no recorded Sentinel runs any more.
THEOREM DiscoveryClosesFirst == RedisSpec => SentinelsFirst
<1> DEFINE Step == \A n \in Nodes \ Sentinels : process[n] = "running" /\ process'[n] = "dying"
                    => \A s \in Sentinels \cap recorded : process[s] # "running"
<1>1. ASSUME TopologyInv, [RedisNext]_redisvars PROVE Step
  <2>1. SUFFICES ASSUME NEW n \in Nodes \ Sentinels, process[n] = "running", process'[n] = "dying",
                        NEW s \in Sentinels \cap recorded, process[s] = "running"
                 PROVE  FALSE
    OBVIOUS
  <2>2. process \in [Nodes -> {"none", "running", "dying", "gone"}] /\ left \in Seq(Nodes)
    BY <1>1 DEF TopologyInv, RedisTypeOK
  <2>3. Kill
    BY <1>1, <2>1, <2>2 DEF RedisNext, redisvars, start, Spawn, Record, Ready, StartFails, stop,
         BeginStop, Check, KillFails, Stopped, Killed, Exit, Reuse
  <2>4. step = "killing" /\ left # <<>> /\ n = Head(left)
    BY <1>1, <2>1, <2>2, <2>3 DEF Kill, TopologyInv, NumberHeld
  <2>5. PICK k \in DOMAIN left : left[k] = s
    BY <1>1, <2>1, <2>4 DEF TopologyInv, DiscoveryHeld
  <2>6. 1 \in DOMAIN left /\ left[1] = n /\ k # 1 /\ 1 < k
    BY <2>1, <2>2, <2>4, <2>5, HeadAndTail
  <2>7. n \in Sentinels
    BY <1>1, <2>1, <2>4, <2>5, <2>6 DEF TopologyInv, DiscoveryHeld
  <2>8. QED  BY <2>1, <2>7
<1>2. QED  BY TopologyStarts, TopologySteps, <1>1, PTL DEF RedisSpec, SentinelsFirst
-----------------------------------------------------------------------------
(* Corpus benchmark.                                                       *)

BenchSpec == BenchInit /\ [][BenchNext]_benchvars

Phases == {"preparing", "refused", "offering", "planned", "draining", "reported", "failed", "cancelling",
           "interrupted", "written"}

BenchTypeOK ==
  /\ phase \in Phases
  /\ saved \in SUBSET {"earlier", "planned", "reported", "empty"}
  /\ heap \in [DOMAIN Weights -> Nat]
  /\ offered \in Seq(DOMAIN Weights) /\ Len(offered) <= OfferedPairs
  /\ expired \in BOOLEAN /\ task_failed \in BOOLEAN
  /\ pairs \in [1..OfferedPairs ->
       [at : Ends \cup {"none", "new", "mask", "unmask", "raised"}, case : DOMAIN Weights \cup {0}]]
  /\ active \subseteq 1..OfferedPairs
  /\ counters \in [Ends \cup {"offered", "dispatched", "capacity", "deadline", "masked",
                              "attempted", "successful", "latencies"} -> Nat]

PairsAt(at) == {k \in 1..OfferedPairs : pairs[k].at = at}
InFlight == {"new", "mask", "unmask"}

\* A pair belongs to an offer that was made, runs while its task is active, and leaves a
\* mark if it failed.
PairHeld(k) ==
  /\ pairs[k].at # "none" => k \in DOMAIN offered /\ pairs[k].case = offered[k]
  /\ k \in active => pairs[k].at # "none"
  /\ pairs[k].at \in InFlight => k \in active
  /\ pairs[k].at = "raised" => k \in active \/ task_failed

\* The counters, as long as no pair has failed, and what of them belongs to pairs that are
\* under way.
CountersHeld ==
  LET c == counters IN
  /\ c["offered"] = Len(offered)
  /\ c["offered"] = c["dispatched"] + c["capacity"] + c["deadline"]
  /\ PairsAt("raised") = {} =>
       LET new == Cardinality(PairsAt("new"))
           mask == Cardinality(PairsAt("mask"))
           unmask == Cardinality(PairsAt("unmask")) IN
       /\ c["dispatched"] = new + mask + unmask
                             + c["mask_failed"] + c["unmask_failed"] + c["mismatch"] + c["verified"]
       /\ c["masked"] = unmask + c["unmask_failed"] + c["mismatch"] + c["verified"]
       /\ c["attempted"] + new = c["dispatched"] + c["masked"]
       /\ c["latencies"] + mask + unmask = c["attempted"]
       /\ c["successful"] = c["masked"] + c["mismatch"] + c["verified"]

\* Which phases pairs run in, and what a report presupposes.
PhaseHeld ==
  /\ phase \in {"preparing", "planned", "refused"} => offered = <<>> /\ active = {}
  /\ phase \notin {"offering", "draining", "cancelling"} => active = {}
  /\ phase = "draining" => Len(offered) = OfferedPairs
  /\ Cardinality(saved) <= 1 /\ IsFiniteSet(saved)
  /\ phase \in {"offering", "draining", "reported", "cancelling"} => saved \in {{}, {"earlier"}}
  /\ "reported" \in saved => phase = "written"
  /\ phase = "reported" \/ "reported" \in saved =>
       Len(offered) = OfferedPairs /\ PairsAt("raised") = {}

\* WeightedCycle: the next visit of a case lies in the interval of its number, and its last
\* visit was not after the next visit of any other case.
VisitsOf(i) == Cardinality({k \in DOMAIN offered : offered[k] = i})
CyclesHeld ==
  /\ \A i \in DOMAIN Weights : heap[i] \in VisitsOf(i) * Jitters..(VisitsOf(i) + 1) * Jitters - 1
  /\ \A i, j \in DOMAIN Weights : (VisitsOf(i) - 1) * Jitters * Weights[j] <= heap[j] * Weights[i]

BenchInv ==
  /\ BenchTypeOK /\ (\A k \in 1..OfferedPairs : PairHeld(k))
  /\ CountersHeld /\ PhaseHeld /\ CyclesHeld

\* Arithmetic on products.
LEMMA RatiosTransitive ==
  ASSUME NEW a \in Nat, NEW b \in Nat, NEW c \in Nat,
         NEW p \in Nat \ {0}, NEW q \in Nat \ {0}, NEW r \in Nat \ {0},
         a * q < b * p, b * r <= c * q
  PROVE  a * r < c * p
OBVIOUS

LEMMA QuotientIs ==
  ASSUME NEW d \in Nat \ {0}, NEW v \in Nat, NEW x \in Nat, v * d <= x, x < (v + 1) * d
  PROVE  x \div d = v
OBVIOUS

LEMMA LeastOf ==
  ASSUME NEW S, S \subseteq Nat, S # {}
  PROVE  \E x \in S : \A y \in S : x <= y
<1>1. PICK x \in S : \A y \in S : ~(<<y, x>> \in OpToRel(<, Nat))
  BY NatLessThanWellFounded, WFMin
<1>2. ASSUME NEW y \in S PROVE x <= y
  <2>1. x \in Nat /\ y \in Nat
    OBVIOUS
  <2>2. y < x => <<y, x>> \in OpToRel(<, Nat)
    BY <2>1 DEF OpToRel
  <2>3. ~(<<y, x>> \in OpToRel(<, Nat))
    BY <1>1, Zenon
  <2>4. ~(y < x)
    BY <2>2, <2>3, Zenon
  <2>5. QED  BY <2>1, <2>4
<1>3. QED  BY <1>2

\* The heap has an earliest visit, and Earliest is its case.
LEMMA EarliestFound ==
  ASSUME heap \in [DOMAIN Weights -> Nat]
  PROVE  /\ Earliest \in DOMAIN Weights
         /\ \A j \in DOMAIN Weights : heap[Earliest] * Weights[j] <= heap[j] * Weights[Earliest]
<1> DEFINE N == Len(Weights)
           Before(i, j) == heap[i] * Weights[j] < heap[j] * Weights[i]
                           \/ (heap[i] * Weights[j] = heap[j] * Weights[i] /\ i < j)
           First(n, i) == \A j \in 1..n : j # i => Before(i, j)
           Bad == {n \in Nat : 1 <= n /\ n <= N /\ \A i \in 1..n : ~First(n, i)}
<1>1. /\ N \in Nat /\ N >= 1 /\ DOMAIN Weights = 1..N
      /\ \A i \in 1..N : Weights[i] \in Nat \ {0} /\ heap[i] \in Nat
      /\ \A i, j \in 1..N : heap[i] * Weights[j] \in Nat
  BY BenchmarkAssumption, SMTT(30)
<1>2. Bad = {}
  <2>1. SUFFICES ASSUME Bad # {} PROVE FALSE
    OBVIOUS
  <2>2. PICK n \in Bad : \A m \in Bad : n <= m
    <3>1. Bad \subseteq Nat
      OBVIOUS
    <3> HIDE DEF Bad
    <3>2. QED  BY <2>1, <3>1, LeastOf
  <2>3. n \in Nat /\ 1 <= n /\ n <= N /\ \A i \in 1..n : ~First(n, i)
    OBVIOUS
  <2>4. n # 1
    <3>1. SUFFICES ASSUME n = 1 PROVE FALSE
      OBVIOUS
    <3>2. First(n, 1)
      BY <3>1
    <3>3. QED  BY <2>3, <3>1, <3>2
  <2>5. n - 1 \in Nat /\ 1 <= n - 1 /\ n - 1 <= N /\ ~(n <= n - 1)
    BY <1>1, <2>3, <2>4
  <2>6. PICK i \in 1..n - 1 : First(n - 1, i)
    BY <2>2, <2>5
  <2>7. i \in 1..n /\ i < n /\ i \in 1..N /\ n \in 1..N /\ n \in 1..n
    BY <1>1, <2>3, <2>5
  <2> HIDE DEF Bad
  <2>8. CASE Before(i, n)
    <3>1. ASSUME NEW j \in 1..n, j # i PROVE Before(i, j)
      <4>1. j = n \/ j \in 1..n - 1
        BY <2>3
      <4>2. QED  BY <2>6, <2>8, <3>1, <4>1
    <3>2. First(n, i)
      BY <3>1
    <3> HIDE DEF First
    <3>3. QED  BY <2>3, <2>7, <3>2
  <2>9. CASE ~Before(i, n)
    <3>1. heap[n] * Weights[i] < heap[i] * Weights[n]
      <4>1. heap[n] * Weights[i] \in Nat /\ heap[i] * Weights[n] \in Nat
        BY <1>1, <2>7
      <4>2. QED  BY <2>7, <2>9, <4>1
    <3>2. ASSUME NEW j \in 1..n, j # n PROVE Before(n, j)
      <4>1. j \in 1..n - 1 /\ j \in 1..N
        BY <1>1, <2>3, <3>2
      <4>2. CASE j = i
        BY <3>1, <4>2
      <4>3. CASE j # i
        <5>1. Before(i, j)
          BY <2>6, <4>1, <4>3
        <5>2. /\ heap[i] \in Nat /\ heap[j] \in Nat /\ heap[n] \in Nat
              /\ Weights[i] \in Nat \ {0} /\ Weights[j] \in Nat \ {0} /\ Weights[n] \in Nat \ {0}
          BY <1>1, <2>7, <4>1
        <5>3. heap[i] * Weights[j] <= heap[j] * Weights[i]
          BY <5>1, <5>2
        <5>4. heap[n] * Weights[j] < heap[j] * Weights[n]
          BY <3>1, <5>2, <5>3, RatiosTransitive
        <5>5. QED  BY <5>4
      <4>4. QED  BY <4>2, <4>3
    <3>3. First(n, n)
      BY <3>2
    <3> HIDE DEF First
    <3>4. QED  BY <2>3, <2>7, <3>3
  <2>10. QED  BY <2>8, <2>9
<1>3. \E i \in 1..N : First(N, i)
  <2>1. SUFFICES ASSUME \A i \in 1..N : ~First(N, i) PROVE FALSE
    OBVIOUS
  <2> HIDE DEF First
  <2>2. N \in Bad
    BY <1>1, <2>1
  <2>3. QED  BY <1>2, <2>2
<1>4. \E i \in DOMAIN Weights : \A j \in DOMAIN Weights \ {i} : Before(i, j)
  BY <1>1, <1>3
<1>5. Earliest \in DOMAIN Weights /\ \A j \in DOMAIN Weights \ {Earliest} : Before(Earliest, j)
  BY <1>4 DEF Earliest
<1>6. ASSUME NEW j \in DOMAIN Weights
      PROVE heap[Earliest] * Weights[j] <= heap[j] * Weights[Earliest]
  <2>1. heap[Earliest] * Weights[j] \in Nat /\ heap[j] * Weights[Earliest] \in Nat
    BY <1>1, <1>5
  <2>2. CASE j = Earliest
    BY <2>1, <2>2
  <2>3. CASE j # Earliest
    BY <1>5, <2>1, <2>3
  <2>4. QED  BY <2>2, <2>3
<1>7. QED  BY <1>5, <1>6

PairStages == Ends \cup {"none", "new", "mask", "unmask", "raised"}

\* A pair moves: one less where it was, one more where it is.
LEMMA PairCounted ==
  ASSUME NEW k \in 1..OfferedPairs, NEW from, NEW to, from # to, pairs[k].at = from, pairs'[k].at = to,
         \A j \in 1..OfferedPairs : j # k => pairs'[j] = pairs[j]
  PROVE  /\ \A at : IsFiniteSet(PairsAt(at)) /\ Cardinality(PairsAt(at)) \in Nat
         /\ Cardinality(PairsAt(to)') = Cardinality(PairsAt(to)) + 1
         /\ Cardinality(PairsAt(from)') = Cardinality(PairsAt(from)) - 1
         /\ \A at : at # from /\ at # to => PairsAt(at)' = PairsAt(at)
<1>1. OfferedPairs \in Nat
  BY BenchmarkAssumption
<1>2. IsFiniteSet(1..OfferedPairs)
  BY <1>1, FS_Interval
<1>3. ASSUME NEW at PROVE IsFiniteSet(PairsAt(at)) /\ Cardinality(PairsAt(at)) \in Nat
  <2>1. PairsAt(at) \subseteq 1..OfferedPairs
    BY DEF PairsAt
  <2>2. IsFiniteSet(PairsAt(at))
    BY <1>2, <2>1, FS_Subset
  <2>3. QED  BY <2>2, FS_CardinalityType
<1>4. PairsAt(to)' = PairsAt(to) \cup {k} /\ k \notin PairsAt(to)
  BY DEF PairsAt
<1>5. PairsAt(from)' = PairsAt(from) \ {k} /\ k \in PairsAt(from)
  BY DEF PairsAt
<1>6. Cardinality(PairsAt(to)') = Cardinality(PairsAt(to)) + 1
  BY <1>3, <1>4, FS_AddElement
<1>7. Cardinality(PairsAt(from)') = Cardinality(PairsAt(from)) - 1
  BY <1>3, <1>5, FS_RemoveElement
<1>8. ASSUME NEW at, at # from, at # to PROVE PairsAt(at)' = PairsAt(at)
  BY <1>8 DEF PairsAt
<1>9. QED  BY <1>3, <1>6, <1>7, <1>8

CounterNames == Ends \cup {"offered", "dispatched", "capacity", "deadline", "masked",
                          "attempted", "successful", "latencies"}
PairRecord == [at : PairStages, case : DOMAIN Weights \cup {0}]

\* What a step of a running pair leaves as it was.
LEMMA PairMoves ==
  ASSUME BenchInv, NEW k \in 1..OfferedPairs, NEW to \in PairStages \ {"none", "new"},
         pairs[k].at \in InFlight, pairs' = [pairs EXCEPT ![k].at = to],
         counters' \in [CounterNames -> Nat],
         UNCHANGED <<phase, saved, heap, offered, expired, active, task_failed>>
  PROVE  BenchTypeOK' /\ (\A j \in 1..OfferedPairs : PairHeld(j)') /\ PhaseHeld' /\ CyclesHeld'
<1>1. pairs \in [1..OfferedPairs -> PairRecord]
  BY DEF BenchInv, BenchTypeOK, PairRecord, PairStages
<1>2. pairs' \in [1..OfferedPairs -> PairRecord]
  <2>1. pairs[k] \in PairRecord
    BY <1>1
  <2>2. [pairs[k] EXCEPT !.at = to] \in PairRecord
    BY <2>1 DEF PairRecord
  <2>3. pairs' = [pairs EXCEPT ![k] = [pairs[k] EXCEPT !.at = to]]
    BY <1>1
  <2>4. QED  BY <1>1, <2>2, <2>3
<1>3. /\ pairs'[k].at = to /\ pairs'[k].case = pairs[k].case
      /\ \A j \in 1..OfferedPairs : j # k => pairs'[j] = pairs[j]
  <2>1. pairs[k] \in PairRecord
    BY <1>1
  <2>2. QED  BY <1>1, <2>1 DEF PairRecord
<1>4. BenchTypeOK'
  BY <1>2 DEF BenchInv, BenchTypeOK, PairRecord, PairStages, CounterNames
<1>5. k \in active /\ PairHeld(k) /\ pairs[k].at # "none"
  BY DEF BenchInv, PairHeld, InFlight
<1>6. ASSUME NEW j \in 1..OfferedPairs PROVE PairHeld(j)'
  <2>1. PairHeld(j)
    BY DEF BenchInv
  <2>2. CASE j = k
    BY <1>3, <1>5, <2>2 DEF PairHeld
  <2>3. CASE j # k
    BY <1>3, <2>1, <2>3 DEF PairHeld
  <2>4. QED  BY <2>2, <2>3
<1>7. phase \in {"offering", "draining", "cancelling"} /\ "reported" \notin saved
  BY <1>5 DEF BenchInv, PhaseHeld
<1>8. PhaseHeld'
  BY <1>7 DEF BenchInv, PhaseHeld
<1>9. CyclesHeld'
  BY DEF BenchInv, CyclesHeld, VisitsOf
<1>10. QED  BY <1>4, <1>6, <1>8, <1>9

\* The moves of a pair that does not fail, with the counters that each adds one to.
PairMove ==
  { <<"new", "mask", {"attempted"}>>,
    <<"mask", "mask_failed", {"latencies", "mask_failed"}>>,
    <<"mask", "unmask", {"latencies", "successful", "masked", "attempted"}>>,
    <<"unmask", "unmask_failed", {"latencies", "unmask_failed"}>>,
    <<"unmask", "mismatch", {"latencies", "successful", "mismatch"}>>,
    <<"unmask", "verified", {"latencies", "successful", "verified"}>> }

LEMMA CountersMove ==
  ASSUME BenchInv, NEW k \in 1..OfferedPairs, NEW from, NEW to, NEW names, <<from, to, names>> \in PairMove,
         pairs[k].at = from, pairs'[k].at = to, \A j \in 1..OfferedPairs : j # k => pairs'[j] = pairs[j],
         counters' = Counted(names), UNCHANGED offered
  PROVE  CountersHeld'
<1> DEFINE card(at) == Cardinality(PairsAt(at))
           card_after(at) == Cardinality(PairsAt(at)')
           up(c) == IF c \in names THEN 1 ELSE 0
           move(at) == IF at = to THEN 1 ELSE IF at = from THEN -1 ELSE 0
<1>1. from # to /\ from # "raised" /\ to # "raised"
  BY DEF PairMove
<1>2. /\ \A at : card(at) \in Nat /\ card_after(at) = card(at) + move(at)
      /\ PairsAt("raised")' = PairsAt("raised")
  <2>1. /\ \A at : IsFiniteSet(PairsAt(at)) /\ card(at) \in Nat
        /\ card_after(to) = card(to) + 1 /\ card_after(from) = card(from) - 1
        /\ \A at : at # from /\ at # to => PairsAt(at)' = PairsAt(at)
    BY <1>1, PairCounted
  <2>2. \A at : at # from /\ at # to => card_after(at) = card(at)
    BY <2>1
  <2> HIDE DEF card, card_after
  <2>3. QED  BY <1>1, <2>1, <2>2
<1>3. \A c \in CounterNames : counters[c] \in Nat /\ counters'[c] = counters[c] + up(c)
  <2>1. BenchTypeOK
    BY DEF BenchInv
  <2>2. \A c \in CounterNames : /\ counters[c] \in Nat
                                /\ c \in names => Counted(names)[c] = counters[c] + 1
                                /\ c \notin names => Counted(names)[c] = counters[c]
    BY <2>1 DEF Counted, BenchTypeOK, CounterNames
  <2>3. QED  BY <2>2
<1>4. /\ up("offered") = 0 /\ up("dispatched") = 0 /\ up("capacity") = 0 /\ up("deadline") = 0
      /\ move("new") + move("mask") + move("unmask")
           + up("mask_failed") + up("unmask_failed") + up("mismatch") + up("verified") = 0
      /\ up("masked") = move("unmask") + up("unmask_failed") + up("mismatch") + up("verified")
      /\ up("attempted") + move("new") = up("masked")
      /\ up("latencies") + move("mask") + move("unmask") = up("attempted")
      /\ up("successful") = up("masked") + up("mismatch") + up("verified")
  BY DEF PairMove
<1>5. \A c : up(c) \in Int /\ move(c) \in Int
  OBVIOUS
<1> HIDE DEF up, move
<1>6. /\ counters'["offered"] = counters["offered"] /\ counters'["dispatched"] = counters["dispatched"]
      /\ counters'["capacity"] = counters["capacity"] /\ counters'["deadline"] = counters["deadline"]
  BY <1>3, <1>4 DEF CounterNames
<1>7. CountersHeld
  BY DEF BenchInv
<1>8. CASE PairsAt("raised") # {}
  BY <1>2, <1>6, <1>7, <1>8 DEF CountersHeld
<1>9. CASE PairsAt("raised") = {}
  <2>1. /\ counters["dispatched"] \in Int /\ counters["mask_failed"] \in Int
             /\ counters["unmask_failed"] \in Int
        /\ counters["mismatch"] \in Int /\ counters["verified"] \in Int /\ counters["masked"] \in Int
        /\ counters["attempted"] \in Int /\ counters["latencies"] \in Int /\ counters["successful"] \in Int
        /\ card("new") \in Int /\ card("mask") \in Int /\ card("unmask") \in Int
    BY <1>2, <1>3 DEF CounterNames, Ends
  <2>2. PICK d \in Int, mf \in Int, uf \in Int, mm \in Int, v \in Int, md \in Int, at \in Int, lt \in Int, sc \in Int,
             nw \in Int, mk \in Int, um \in Int :
        /\ d = counters["dispatched"] /\ mf = counters["mask_failed"] /\ uf = counters["unmask_failed"]
        /\ mm = counters["mismatch"] /\ v = counters["verified"] /\ md = counters["masked"]
        /\ at = counters["attempted"] /\ lt = counters["latencies"] /\ sc = counters["successful"]
        /\ nw = card("new") /\ mk = card("mask") /\ um = card("unmask")
    BY <2>1
  <2>3. PICK ud \in Int, umf \in Int, uuf \in Int, umm \in Int, uv \in Int, umd \in Int, uat \in Int, ult \in Int, usc \in Int,
             unw \in Int, umk \in Int, uum \in Int :
        /\ ud = up("dispatched") /\ umf = up("mask_failed") /\ uuf = up("unmask_failed")
        /\ umm = up("mismatch") /\ uv = up("verified") /\ umd = up("masked")
        /\ uat = up("attempted") /\ ult = up("latencies") /\ usc = up("successful")
        /\ unw = move("new") /\ umk = move("mask") /\ uum = move("unmask")
    BY <1>5
  <2>4. /\ d = nw + mk + um + mf + uf + mm + v
        /\ md = um + uf + mm + v
        /\ at + nw = d + md
        /\ lt + mk + um = at
        /\ sc = md + mm + v
    BY <1>7, <1>9, <2>2 DEF CountersHeld
  <2>5. /\ ud = unw + umk + uum + umf + uuf + umm + uv
        /\ umd = uum + uuf + umm + uv
        /\ uat + unw = ud + umd
        /\ ult + umk + uum = uat
        /\ usc = umd + umm + uv
    BY <1>4, <2>3
  <2>6. /\ (d + ud) = (nw + unw) + (mk + umk) + (um + uum) + (mf + umf) + (uf + uuf) + (mm + umm) + (v + uv)
        /\ (md + umd) = (um + uum) + (uf + uuf) + (mm + umm) + (v + uv)
        /\ (at + uat) + (nw + unw) = (d + ud) + (md + umd)
        /\ (lt + ult) + (mk + umk) + (um + uum) = (at + uat)
        /\ (sc + usc) = (md + umd) + (mm + umm) + (v + uv)
    BY <2>4, <2>5
  <2>7. /\ counters'["dispatched"] = d + ud /\ counters'["mask_failed"] = mf + umf
             /\ counters'["unmask_failed"] = uf + uuf
        /\ counters'["mismatch"] = mm + umm /\ counters'["verified"] = v + uv /\ counters'["masked"] = md + umd
        /\ counters'["attempted"] = at + uat /\ counters'["latencies"] = lt + ult
             /\ counters'["successful"] = sc + usc
        /\ card_after("new") = nw + unw /\ card_after("mask") = mk + umk /\ card_after("unmask") = um + uum
    BY <1>2, <1>3, <2>2, <2>3 DEF CounterNames, Ends
  <2>8. QED  BY <1>6, <1>7, <2>6, <2>7 DEF CountersHeld
<1>10. QED  BY <1>8, <1>9

\* A pair that raises is counted by nothing else.
LEMMA CountersRaise ==
  ASSUME BenchInv, NEW k \in 1..OfferedPairs, pairs'[k].at = "raised", NEW names \in SUBSET {"latencies"},
         counters' = Counted(names), UNCHANGED offered
  PROVE  CountersHeld'
<1>1. k \in PairsAt("raised")'
  BY DEF PairsAt
<1>2. BenchTypeOK
  BY DEF BenchInv
<1>3. \A c \in CounterNames : c \notin names => Counted(names)[c] = counters[c]
  BY <1>2 DEF Counted, BenchTypeOK, CounterNames
<1>4. \A c \in {"offered", "dispatched", "capacity", "deadline"} : counters'[c] = counters[c]
  <2>1. \A c \in {"offered", "dispatched", "capacity", "deadline"} : c \in CounterNames /\ c \notin names
    BY DEF CounterNames
  <2>2. QED  BY <1>3, <2>1
<1>5. QED  BY <1>1, <1>4 DEF BenchInv, CountersHeld

LEMMA MoveKeepsInv ==
  ASSUME BenchInv, NEW k \in 1..OfferedPairs, NEW from, NEW to, NEW names, <<from, to, names>> \in PairMove,
         pairs[k].at = from, pairs' = [pairs EXCEPT ![k].at = to], counters' = Counted(names),
         UNCHANGED <<phase, saved, heap, offered, expired, active, task_failed>>
  PROVE  BenchInv'
<1>1. from \in InFlight /\ to \in PairStages \ {"none", "new"}
  BY DEF PairMove, InFlight, PairStages, Ends
<1>2. BenchTypeOK
  BY DEF BenchInv
<1>3. counters' \in [CounterNames -> Nat]
  BY <1>2 DEF Counted, BenchTypeOK, CounterNames
<1>4. BenchTypeOK' /\ (\A j \in 1..OfferedPairs : PairHeld(j)') /\ PhaseHeld' /\ CyclesHeld'
  BY <1>1, <1>3, PairMoves
<1>5. pairs'[k].at = to /\ \A j \in 1..OfferedPairs : j # k => pairs'[j] = pairs[j]
  BY <1>2 DEF BenchTypeOK
<1>6. CountersHeld'
  BY <1>5, CountersMove
<1>7. QED  BY <1>4, <1>6 DEF BenchInv

LEMMA RaiseKeepsInv ==
  ASSUME BenchInv, NEW k \in 1..OfferedPairs, pairs[k].at \in InFlight,
         pairs' = [pairs EXCEPT ![k].at = "raised"], NEW names \in SUBSET {"latencies"},
         counters' = Counted(names), UNCHANGED <<phase, saved, heap, offered, expired, active, task_failed>>
  PROVE  BenchInv'
<1>1. "raised" \in PairStages \ {"none", "new"}
  BY DEF PairStages
<1>2. BenchTypeOK
  BY DEF BenchInv
<1>3. counters' \in [CounterNames -> Nat]
  BY <1>2 DEF Counted, BenchTypeOK, CounterNames
<1>4. BenchTypeOK' /\ (\A j \in 1..OfferedPairs : PairHeld(j)') /\ PhaseHeld' /\ CyclesHeld'
  BY <1>1, <1>3, PairMoves
<1>5. pairs'[k].at = "raised"
  BY <1>2 DEF BenchTypeOK
<1>6. CountersHeld'
  BY <1>5, CountersRaise
<1>7. QED  BY <1>4, <1>6 DEF BenchInv

LEMMA StartBench ==
  ASSUME BenchInv, NEW k \in 1..OfferedPairs, Start(k)
  PROVE  BenchInv'
<1>1. <<"new", "mask", {"attempted"}>> \in PairMove
  BY DEF PairMove
<1>2. pairs' = [pairs EXCEPT ![k].at = "mask"]
  <2>1. pairs \in [1..OfferedPairs -> PairRecord]
    BY DEF BenchInv, BenchTypeOK, PairRecord, PairStages
  <2>2. [at |-> "mask", case |-> pairs[k].case] = [pairs[k] EXCEPT !.at = "mask"]
    BY <2>1 DEF PairRecord
  <2>3. QED  BY <2>1, <2>2 DEF Start, Assignment
<1>3. QED  BY <1>1, <1>2, MoveKeepsInv DEF Start

LEMMA RequestFailsBench ==
  ASSUME BenchInv, NEW k \in 1..OfferedPairs, RequestFails(k)
  PROVE  BenchInv'
<1>1. CASE pairs[k].at = "mask" /\ PairStep(k, "mask_failed", {"latencies", "mask_failed"})
  <2>1. <<"mask", "mask_failed", {"latencies", "mask_failed"}>> \in PairMove
    BY DEF PairMove
  <2>2. QED  BY <1>1, <2>1, MoveKeepsInv DEF PairStep
<1>2. CASE pairs[k].at = "unmask" /\ PairStep(k, "unmask_failed", {"latencies", "unmask_failed"})
  <2>1. <<"unmask", "unmask_failed", {"latencies", "unmask_failed"}>> \in PairMove
    BY DEF PairMove
  <2>2. QED  BY <1>2, <2>1, MoveKeepsInv DEF PairStep
<1>3. QED  BY <1>1, <1>2 DEF RequestFails

LEMMA MaskedBench ==
  ASSUME BenchInv, NEW k \in 1..OfferedPairs, Masked(k)
  PROVE  BenchInv'
<1> DEFINE some == {"latencies", "successful", "masked"}
           all == {"latencies", "successful", "masked", "attempted"}
<1>1. <<"mask", "unmask", all>> \in PairMove
  BY DEF PairMove
<1>2. counters' = Counted(all)
  <2>1. counters \in [CounterNames -> Nat] /\ "attempted" \in CounterNames
    BY DEF BenchInv, BenchTypeOK, CounterNames
  <2>2. /\ Counted(some) \in [CounterNames -> Nat] /\ Counted(all) \in [CounterNames -> Nat]
        /\ \A c \in CounterNames : c # "attempted" => Counted(all)[c] = Counted(some)[c]
        /\ Counted(all)["attempted"] = Counted(some)["attempted"] + 1
    BY <2>1 DEF Counted
  <2>3. counters' = [Counted(some) EXCEPT !["attempted"] = @ + 1]
    BY DEF Masked
  <2> HIDE DEF some, all
  <2>4. QED  BY <2>1, <2>2, <2>3
<1>3. QED  BY <1>1, <1>2, MoveKeepsInv DEF Masked

LEMMA PairRestoredBench ==
  ASSUME BenchInv, NEW k \in 1..OfferedPairs, PairRestored(k)
  PROVE  BenchInv'
<1>1. PICK end \in {"mismatch", "verified"} : PairStep(k, end, {"latencies", "successful", end})
  BY DEF PairRestored
<1>2. <<"unmask", end, {"latencies", "successful", end}>> \in PairMove
  BY DEF PairMove
<1>3. QED  BY <1>1, <1>2, MoveKeepsInv DEF PairStep, PairRestored

LEMMA BreaksBench ==
  ASSUME BenchInv, NEW k \in 1..OfferedPairs, Breaks(k) \/ Cancelled(k)
  PROVE  BenchInv'
<1>1. CASE pairs[k].at \in {"mask", "unmask"} /\ PairStep(k, "raised", {"latencies"})
  BY <1>1, RaiseKeepsInv DEF PairStep, InFlight
<1>2. CASE pairs[k].at = "new" /\ PairStep(k, "raised", {})
  BY <1>2, RaiseKeepsInv DEF PairStep, InFlight
<1>3. QED  BY <1>1, <1>2 DEF Breaks, Cancelled

LEMMA FinishedBench ==
  ASSUME BenchInv, NEW k \in 1..OfferedPairs, Finished(k)
  PROVE  BenchInv'
<1>1. k \in active /\ pairs[k].at \notin InFlight
  BY DEF Finished, InFlight, Ends
<1>2. BenchTypeOK'
  BY DEF Finished, BenchInv, BenchTypeOK
<1>3. ASSUME NEW j \in 1..OfferedPairs PROVE PairHeld(j)'
  <2>1. PairHeld(j)
    BY DEF BenchInv
  <2>2. QED  BY <1>1, <2>1 DEF Finished, PairHeld
<1>4. CountersHeld' /\ CyclesHeld'
  BY DEF Finished, BenchInv, CountersHeld, PairsAt, CyclesHeld, VisitsOf
<1>5. PhaseHeld'
  BY <1>1 DEF Finished, BenchInv, PhaseHeld, PairsAt
<1>6. QED  BY <1>2, <1>3, <1>4, <1>5 DEF BenchInv

LEMMA TimesMonotone ==
  ASSUME NEW a \in Int, NEW b \in Int, NEW c \in Nat, a <= b
  PROVE  a * c <= b * c
OBVIOUS

\* What an offer draws, and when its case is due again.
LEMMA OfferDraws ==
  ASSUME BenchInv, Offer
  PROVE  /\ Earliest \in DOMAIN Weights /\ offered' = Append(offered, Earliest)
         /\ heap' \in [DOMAIN Weights -> Nat]
         /\ heap'[Earliest] \in (VisitsOf(Earliest) + 1) * Jitters..(VisitsOf(Earliest) + 2) * Jitters - 1
         /\ \A j \in DOMAIN Weights : j # Earliest => heap'[j] = heap[j]
<1> DEFINE i == Earliest
<1>1. heap \in [DOMAIN Weights -> Nat] /\ Jitters \in Nat \ {0}
  BY BenchmarkAssumption DEF BenchInv, BenchTypeOK
<1>2. i \in DOMAIN Weights
  BY <1>1, EarliestFound
<1>3. offered' = Append(offered, i)
  BY DEF Offer
<1>4. PICK jitter \in 0..Jitters - 1 : heap' = [heap EXCEPT ![i] = NextVisit(i, jitter)]
  BY DEF Offer
<1>5. IsFiniteSet({k \in DOMAIN offered : offered[k] = i})
  <2>1. offered \in Seq(DOMAIN Weights)
    BY DEF BenchInv, BenchTypeOK
  <2>2. DOMAIN offered = 1..Len(offered) /\ Len(offered) \in Nat
    BY <2>1
  <2>3. IsFiniteSet(DOMAIN offered)
    BY <2>2, FS_Interval
  <2>4. QED  BY <2>3, FS_Subset
<1>6. VisitsOf(i) \in Nat
  BY <1>5, FS_CardinalityType DEF VisitsOf
<1> HIDE DEF i
<1>7. heap[i] \in Nat /\ heap[i] \in VisitsOf(i) * Jitters..(VisitsOf(i) + 1) * Jitters - 1
  BY <1>1, <1>2 DEF BenchInv, CyclesHeld
<1>8. PICK v \in Nat, x \in Nat, d \in Nat \ {0} : v = VisitsOf(i) /\ x = heap[i] /\ d = Jitters
  BY <1>1, <1>6, <1>7
<1>9. v * d <= x /\ x < (v + 1) * d
  <2>1. v * d \in Nat /\ (v + 1) * d \in Nat
    BY <1>8
  <2>2. QED  BY <1>7, <1>8, <2>1
<1>10. x \div d = v
  BY <1>9, QuotientIs
<1>11. NextVisit(i, jitter) = (v + 1) * d + jitter /\ jitter \in 0..d - 1
  BY <1>8, <1>10 DEF NextVisit
<1>12. /\ NextVisit(i, jitter) \in Nat
       /\ NextVisit(i, jitter) \in (v + 1) * d..(v + 2) * d - 1
  <2>1. (v + 1) * d \in Nat /\ (v + 2) * d = (v + 1) * d + d
    BY <1>8
  <2>2. QED  BY <1>8, <1>11, <2>1
<1>13. /\ heap' \in [DOMAIN Weights -> Nat] /\ heap'[i] = NextVisit(i, jitter)
       /\ \A j \in DOMAIN Weights : j # i => heap'[j] = heap[j]
  BY <1>1, <1>2, <1>4, <1>12
<1>14. QED  BY <1>2, <1>3, <1>8, <1>12, <1>13 DEF i

LEMMA VisitsCounted ==
  ASSUME BenchTypeOK, NEW i \in DOMAIN Weights, offered' = Append(offered, i)
  PROVE  \A j : /\ VisitsOf(j) \in Nat
               /\ VisitsOf(j)' = IF j = i THEN VisitsOf(j) + 1 ELSE VisitsOf(j)
<1> DEFINE at(j) == {k \in DOMAIN offered : offered[k] = j}
           last == Len(offered) + 1
<1>1. /\ offered \in Seq(DOMAIN Weights) /\ Len(offered) \in Nat /\ DOMAIN offered = 1..Len(offered)
      /\ DOMAIN offered' = DOMAIN offered \cup {last} /\ last \notin DOMAIN offered
      /\ offered'[last] = i /\ \A k \in DOMAIN offered : offered'[k] = offered[k]
  BY DEF BenchTypeOK
<1>2. SUFFICES ASSUME NEW j
               PROVE  /\ VisitsOf(j) \in Nat
                      /\ VisitsOf(j)' = IF j = i THEN VisitsOf(j) + 1 ELSE VisitsOf(j)
  OBVIOUS
<1>3. IsFiniteSet(at(j))
  <2>1. IsFiniteSet(DOMAIN offered)
    BY <1>1, FS_Interval
  <2>2. QED  BY <2>1, FS_Subset
<1>4. VisitsOf(j) \in Nat
  BY <1>3, FS_CardinalityType DEF VisitsOf
<1>5. CASE j = i
  <2>1. {k \in DOMAIN offered' : offered'[k] = j} = at(j) \cup {last} /\ last \notin at(j)
    BY <1>1, <1>5
  <2> HIDE DEF last
  <2>2. Cardinality(at(j) \cup {last}) = Cardinality(at(j)) + 1
    BY <1>3, <2>1, FS_AddElement
  <2>3. VisitsOf(j)' = Cardinality(at(j)) + 1
    BY <2>1, <2>2 DEF VisitsOf
  <2>4. QED  BY <1>4, <1>5, <2>3 DEF VisitsOf
<1>6. CASE j # i
  <2>1. {k \in DOMAIN offered' : offered'[k] = j} = at(j)
    BY <1>1, <1>6
  <2> HIDE DEF at
  <2>2. VisitsOf(j)' = Cardinality(at(j))
    BY <2>1 DEF VisitsOf
  <2>3. QED  BY <1>4, <1>6, <2>2 DEF VisitsOf, at
<1>7. QED  BY <1>4, <1>5, <1>6

LEMMA OfferCycles ==
  ASSUME BenchInv, Offer
  PROVE  CyclesHeld'
<1>1. PICK i \in DOMAIN Weights :
        /\ i = Earliest /\ offered' = Append(offered, i) /\ heap' \in [DOMAIN Weights -> Nat]
        /\ heap'[i] \in (VisitsOf(i) + 1) * Jitters..(VisitsOf(i) + 2) * Jitters - 1
        /\ \A j \in DOMAIN Weights : j # i => heap'[j] = heap[j]
  BY OfferDraws
<1>2. /\ heap \in [DOMAIN Weights -> Nat] /\ Jitters \in Nat \ {0}
      /\ \A j \in DOMAIN Weights : Weights[j] \in Nat \ {0} /\ heap[j] \in Nat /\ heap'[j] \in Nat
  BY <1>1, BenchmarkAssumption, SMTT(30) DEF BenchInv, BenchTypeOK
<1>3. \A j \in DOMAIN Weights : heap[i] * Weights[j] <= heap[j] * Weights[i]
  BY <1>1, <1>2, EarliestFound
<1>4. \A j : /\ VisitsOf(j) \in Nat
            /\ VisitsOf(j)' = IF j = i THEN VisitsOf(j) + 1 ELSE VisitsOf(j)
  BY <1>1, VisitsCounted DEF BenchInv
<1>5. CyclesHeld
  BY DEF BenchInv
<1>6. ASSUME NEW j \in DOMAIN Weights
      PROVE  heap'[j] \in VisitsOf(j)' * Jitters..(VisitsOf(j)' + 1) * Jitters - 1
  <2>1. CASE j = i
    <3>1. VisitsOf(j)' = VisitsOf(i) + 1 /\ VisitsOf(j)' + 1 = VisitsOf(i) + 2
      BY <1>4, <2>1
    <3>2. QED  BY <1>1, <2>1, <3>1
  <2>2. CASE j # i
    BY <1>1, <1>4, <1>5, <2>2 DEF CyclesHeld
  <2>3. QED  BY <2>1, <2>2
<1>7. ASSUME NEW a \in DOMAIN Weights, NEW b \in DOMAIN Weights
      PROVE  (VisitsOf(a)' - 1) * Jitters * Weights[b] <= heap'[b] * Weights[a]
  <2>1. PICK v \in Nat, d \in Nat \ {0}, wa \in Nat \ {0}, wb \in Nat \ {0}, ha \in Nat, hb \in Nat, nb \in Nat :
          /\ v = VisitsOf(a) /\ d = Jitters /\ wa = Weights[a] /\ wb = Weights[b]
          /\ ha = heap[a] /\ hb = heap[b] /\ nb = heap'[b]
    BY <1>2, <1>4
  <2>2. (v - 1) * d * wb <= hb * wa /\ v * d <= ha
    <3>1. v * d \in Nat
      BY <2>1
    <3>2. (VisitsOf(a) - 1) * Jitters * Weights[b] <= heap[b] * Weights[a]
      BY <1>5 DEF CyclesHeld
    <3>3. heap[a] \in VisitsOf(a) * Jitters..(VisitsOf(a) + 1) * Jitters - 1
      BY <1>5 DEF CyclesHeld
    <3>4. (v + 1) * d \in Nat
      BY <2>1
    <3>5. QED  BY <2>1, <3>1, <3>2, <3>3, <3>4
  <2>3. v * d * wb <= ha * wb
    BY <2>2, TimesMonotone
  <2>4. CASE a = i /\ b = i
    <3>1. v * d <= nb
      <4>1. v * d \in Nat /\ (v + 1) * d = v * d + d /\ (v + 2) * d \in Nat
        BY <2>1
      <4>2. nb \in (v + 1) * d..(v + 2) * d - 1
        BY <1>1, <2>1, <2>4
      <4>3. QED  BY <2>1, <4>1, <4>2
    <3>2. v * d * wb <= nb * wb
      BY <3>1, TimesMonotone
    <3>3. VisitsOf(a)' - 1 = v /\ wa = wb
      BY <1>4, <2>1, <2>4
    <3>4. QED  BY <2>1, <3>2, <3>3
  <2>5. CASE a = i /\ b # i
    <3>1. ha * wb <= hb * wa /\ nb = hb /\ VisitsOf(a)' - 1 = v
      <4>1. heap[a] * Weights[b] <= heap[b] * Weights[a]
        BY <1>3, <2>5
      <4>2. heap'[b] = heap[b] /\ VisitsOf(a)' = VisitsOf(a) + 1
        BY <1>1, <1>4, <2>5
      <4>3. QED  BY <2>1, <4>1, <4>2
    <3>2. v * d * wb <= nb * wa
      <4>1. v * d * wb \in Nat /\ ha * wb \in Nat /\ hb * wa \in Nat
        BY <2>1
      <4>2. QED  BY <2>3, <3>1, <4>1
    <3>3. QED  BY <2>1, <3>1, <3>2
  <2>6. CASE a # i /\ b = i
    <3>1. hb <= nb
      <4>1. PICK w \in Nat : w = VisitsOf(i)
        BY <1>4
      <4>2. (w + 1) * d \in Nat /\ (w + 2) * d \in Nat
        BY <2>1
      <4>3. hb \in w * d..(w + 1) * d - 1
        BY <1>5, <2>1, <2>6, <4>1 DEF CyclesHeld
      <4>4. nb \in (w + 1) * d..(w + 2) * d - 1
        BY <1>1, <2>1, <2>6, <4>1
      <4>5. QED  BY <2>1, <4>2, <4>3, <4>4
    <3>2. hb * wa <= nb * wa
      BY <3>1, TimesMonotone
    <3>3. (v - 1) * d * wb <= nb * wa
      <4>1. (v - 1) * d * wb \in Int /\ hb * wa \in Nat /\ nb * wa \in Nat
        BY <2>1
      <4>2. QED  BY <2>2, <3>2, <4>1
    <3>4. VisitsOf(a)' = v
      BY <1>4, <2>1, <2>6
    <3>5. QED  BY <2>1, <3>3, <3>4
  <2>7. CASE a # i /\ b # i
    BY <1>1, <1>4, <2>1, <2>2, <2>7
  <2>8. QED  BY <2>4, <2>5, <2>6, <2>7
<1>8. QED  BY <1>6, <1>7 DEF CyclesHeld

\* An offer is dropped for one reason, or it becomes a pair.
LEMMA OfferBench ==
  ASSUME BenchInv, Offer
  PROVE  BenchInv'
<1> DEFINE k == Len(offered) + 1
<1>1. PICK i \in DOMAIN Weights : /\ i = Earliest /\ offered' = Append(offered, i)
                                 /\ heap' \in [DOMAIN Weights -> Nat]
  BY OfferDraws
<1>2. BenchTypeOK
  BY DEF BenchInv
<1>3. /\ phase = "offering" /\ Len(offered) \in Nat /\ k \in 1..OfferedPairs /\ OfferedPairs \in Nat
      /\ DOMAIN offered = 1..Len(offered) /\ k \notin DOMAIN offered
      /\ offered' \in Seq(DOMAIN Weights) /\ Len(offered') = Len(offered) + 1
      /\ DOMAIN offered' = DOMAIN offered \cup {k}
      /\ offered'[k] = i /\ \A j \in DOMAIN offered : offered'[j] = offered[j]
  <2>1. phase = "offering" /\ Len(offered) < OfferedPairs
    BY DEF Offer
  <2>2. offered \in Seq(DOMAIN Weights) /\ OfferedPairs \in Nat
    BY <1>2, BenchmarkAssumption DEF BenchTypeOK
  <2>3. Len(offered) \in Nat /\ DOMAIN offered = 1..Len(offered)
    BY <2>2
  <2>4. /\ offered' \in Seq(DOMAIN Weights) /\ Len(offered') = Len(offered) + 1
        /\ offered'[k] = i /\ \A j \in DOMAIN offered : offered'[j] = offered[j]
    BY <1>1, <2>2
  <2>5. DOMAIN offered' = 1..Len(offered) + 1
    BY <2>4
  <2>6. QED  BY <2>1, <2>2, <2>3, <2>4, <2>5
<1> HIDE DEF k
<1>4. pairs[k].at = "none" /\ k \notin active
  <2>1. PairHeld(k)
    BY <1>3 DEF BenchInv
  <2>2. QED  BY <1>3, <2>1 DEF PairHeld
<1>5. PICK why \in {"deadline", "capacity", "dispatched"} :
        /\ counters' = Counted({"offered", why})
        /\ why # "dispatched" => pairs' = pairs /\ active' = active
        /\ why = "dispatched" => /\ active' = active \cup {k}
                                /\ pairs' = [pairs EXCEPT ![k] = [at |-> "new", case |-> i]]
  BY <1>1 DEF Offer, k
<1>6. pairs \in [1..OfferedPairs -> PairRecord]
  BY <1>2 DEF BenchTypeOK, PairRecord, PairStages
<1>7. /\ pairs' \in [1..OfferedPairs -> PairRecord] /\ active' \subseteq 1..OfferedPairs
      /\ \A j \in 1..OfferedPairs : j # k => pairs'[j] = pairs[j]
      /\ why = "dispatched" => pairs'[k].at = "new" /\ pairs'[k].case = i
  <2>1. [at |-> "new", case |-> i] \in PairRecord
    BY DEF PairRecord, PairStages
  <2>2. active \subseteq 1..OfferedPairs
    BY <1>2 DEF BenchTypeOK
  <2>3. CASE why = "dispatched"
    <3>1. /\ pairs' = [pairs EXCEPT ![k] = [at |-> "new", case |-> i]] /\ active' = active \cup {k}
          /\ k \in 1..OfferedPairs
      BY <1>3, <1>5, <2>3
    <3>2. pairs' \in [1..OfferedPairs -> PairRecord]
      BY <1>6, <2>1, <3>1
    <3>3. pairs'[k] = [at |-> "new", case |-> i] /\ \A j \in 1..OfferedPairs : j # k => pairs'[j] = pairs[j]
      BY <1>6, <3>1
    <3>4. QED  BY <2>2, <3>1, <3>2, <3>3
  <2>4. CASE why # "dispatched"
    BY <1>5, <1>6, <2>2, <2>4
  <2>5. QED  BY <2>3, <2>4
<1>8. counters' \in [CounterNames -> Nat]
  BY <1>2, <1>5 DEF Counted, BenchTypeOK, CounterNames
<1>9. BenchTypeOK'
  <2>1. expired' \in BOOLEAN /\ UNCHANGED <<phase, saved, task_failed>>
    BY <1>2 DEF Offer, BenchTypeOK
  <2>2. Len(offered') <= OfferedPairs
    BY <1>3
  <2>3. pairs' \in [1..OfferedPairs ->
           [at : Ends \cup {"none", "new", "mask", "unmask", "raised"}, case : DOMAIN Weights \cup {0}]]
    BY <1>7 DEF PairRecord, PairStages
  <2>4. counters' \in [Ends \cup {"offered", "dispatched", "capacity", "deadline", "masked",
                                 "attempted", "successful", "latencies"} -> Nat]
    BY <1>8 DEF CounterNames
  <2>5. QED  BY <1>1, <1>2, <1>3, <1>7, <2>1, <2>2, <2>3, <2>4 DEF BenchTypeOK
<1>10. ASSUME NEW j \in 1..OfferedPairs PROVE PairHeld(j)'
  <2>1. PairHeld(j) /\ task_failed' = task_failed
    BY DEF BenchInv, Offer
  <2>2. CASE j # k
    <3>1. pairs'[j] = pairs[j] /\ (j \in active' <=> j \in active)
      BY <1>5, <1>7, <2>2
    <3>2. QED  BY <1>3, <2>1, <3>1 DEF PairHeld
  <2>3. CASE j = k /\ why = "dispatched"
    BY <1>3, <1>5, <1>7, <2>3 DEF PairHeld, InFlight
  <2>4. CASE j = k /\ why # "dispatched"
    BY <1>4, <1>5, <2>4 DEF PairHeld, InFlight
  <2>5. QED  BY <2>2, <2>3, <2>4
<1>11. \A c \in CounterNames : /\ counters[c] \in Nat
                               /\ c \in {"offered", why} => counters'[c] = counters[c] + 1
                               /\ c \notin {"offered", why} => counters'[c] = counters[c]
  BY <1>2, <1>5 DEF Counted, BenchTypeOK, CounterNames
<1>12. CountersHeld'
  <2>1. /\ counters'["offered"] = Len(offered')
        /\ counters'["offered"] = counters'["dispatched"] + counters'["capacity"] + counters'["deadline"]
    <3>1. /\ counters["offered"] = Len(offered)
          /\ counters["offered"] = counters["dispatched"] + counters["capacity"] + counters["deadline"]
      BY DEF BenchInv, CountersHeld
    <3>2. /\ counters["offered"] \in Nat /\ counters["dispatched"] \in Nat
          /\ counters["capacity"] \in Nat /\ counters["deadline"] \in Nat
          /\ counters'["offered"] = counters["offered"] + 1
      BY <1>11 DEF CounterNames
    <3>3. counters'["dispatched"] = IF why = "dispatched" THEN counters["dispatched"] + 1 ELSE counters["dispatched"]
      BY <1>11 DEF CounterNames
    <3>4. counters'["capacity"] = IF why = "capacity" THEN counters["capacity"] + 1 ELSE counters["capacity"]
      BY <1>11 DEF CounterNames
    <3>5. counters'["deadline"] = IF why = "deadline" THEN counters["deadline"] + 1 ELSE counters["deadline"]
      BY <1>11 DEF CounterNames
    <3>6. CASE why = "dispatched"
      BY <1>3, <3>1, <3>2, <3>3, <3>4, <3>5, <3>6
    <3>7. CASE why = "capacity"
      BY <1>3, <3>1, <3>2, <3>3, <3>4, <3>5, <3>7
    <3>8. CASE why = "deadline"
      BY <1>3, <3>1, <3>2, <3>3, <3>4, <3>5, <3>8
    <3>9. QED  BY <3>6, <3>7, <3>8
  <2>2. \A c \in {"mask_failed", "unmask_failed", "mismatch", "verified", "masked", "attempted", "latencies",
                  "successful"} : counters'[c] = counters[c]
    BY <1>11 DEF CounterNames, Ends
  <2>3. CASE why # "dispatched"
    <3>1. counters'["dispatched"] = counters["dispatched"] /\ pairs' = pairs
      BY <1>5, <1>11, <2>3 DEF CounterNames
    <3>2. \A at : PairsAt(at)' = PairsAt(at)
      BY <3>1 DEF PairsAt
    <3>3. CountersHeld
      BY DEF BenchInv
    <3>4. QED  BY <2>1, <2>2, <3>1, <3>2, <3>3 DEF CountersHeld
  <2>4. CASE why = "dispatched"
    <3>1. counters'["dispatched"] = counters["dispatched"] + 1
      BY <1>11, <2>4 DEF CounterNames
    <3>2. /\ \A at : IsFiniteSet(PairsAt(at)) /\ Cardinality(PairsAt(at)) \in Nat
          /\ Cardinality(PairsAt("new")') = Cardinality(PairsAt("new")) + 1
          /\ \A at : at # "none" /\ at # "new" => PairsAt(at)' = PairsAt(at)
      BY <1>3, <1>4, <1>7, <2>4, PairCounted, SMTT(30)
    <3>3. /\ PairsAt("raised")' = PairsAt("raised") /\ PairsAt("mask")' = PairsAt("mask")
          /\ PairsAt("unmask")' = PairsAt("unmask")
      BY <3>2
    <3>4. CountersHeld
      BY DEF BenchInv
    <3>5. CASE PairsAt("raised") # {}
      BY <2>1, <3>3, <3>5 DEF CountersHeld
    <3>6. CASE PairsAt("raised") = {}
      <4>1. /\ counters["dispatched"] \in Int /\ counters["mask_failed"] \in Int
            /\ counters["unmask_failed"] \in Int /\ counters["mismatch"] \in Int
            /\ counters["verified"] \in Int /\ counters["masked"] \in Int /\ counters["attempted"] \in Int
            /\ Cardinality(PairsAt("new")) \in Int /\ Cardinality(PairsAt("mask")) \in Int
            /\ Cardinality(PairsAt("unmask")) \in Int
        BY <1>11, <3>2 DEF CounterNames, Ends
      <4>2. PICK d \in Int, f \in Int, u \in Int, x \in Int, v \in Int, m \in Int, a \in Int,
                 n \in Int, p \in Int, q \in Int :
              /\ d = counters["dispatched"] /\ f = counters["mask_failed"] /\ u = counters["unmask_failed"]
              /\ x = counters["mismatch"] /\ v = counters["verified"] /\ m = counters["masked"]
              /\ a = counters["attempted"] /\ n = Cardinality(PairsAt("new"))
              /\ p = Cardinality(PairsAt("mask")) /\ q = Cardinality(PairsAt("unmask"))
        BY <4>1
      <4>3. d = n + p + q + f + u + x + v /\ a + n = d + m
        BY <3>4, <3>6, <4>2 DEF CountersHeld
      <4>4. d + 1 = (n + 1) + p + q + f + u + x + v /\ a + (n + 1) = (d + 1) + m
        BY <4>3
      <4>5. /\ counters'["dispatched"] = d + 1 /\ counters'["mask_failed"] = f
            /\ counters'["unmask_failed"] = u /\ counters'["mismatch"] = x /\ counters'["verified"] = v
            /\ counters'["masked"] = m /\ counters'["attempted"] = a
            /\ Cardinality(PairsAt("new")') = n + 1
        BY <2>2, <3>1, <3>2, <4>2
      <4>6. QED  BY <2>1, <2>2, <3>3, <3>4, <3>6, <4>2, <4>4, <4>5 DEF CountersHeld
    <3>7. QED  BY <3>5, <3>6
  <2>5. QED  BY <2>3, <2>4
<1>13. PhaseHeld'
  <2>1. phase' = "offering" /\ saved' = saved
    BY <1>3 DEF Offer
  <2>2. Cardinality(saved) <= 1 /\ IsFiniteSet(saved) /\ saved \in {{}, {"earlier"}}
    <3>1. PhaseHeld
      BY DEF BenchInv
    <3>2. phase \in {"offering", "draining", "reported", "cancelling"}
      BY <1>3
    <3>3. saved \in {{}, {"earlier"}}
      BY <3>1, <3>2, Zenon DEF PhaseHeld
    <3>4. QED  BY <3>1, <3>3, Zenon DEF PhaseHeld
  <2>3. QED  BY <2>1, <2>2 DEF PhaseHeld
<1>14. QED  BY <1>9, <1>10, <1>12, <1>13, OfferCycles DEF BenchInv

\* The steps of main and schedule that only move on.
LEMMA MovesBench ==
  ASSUME BenchInv, NEW from, NEW to, Moves(from, to), PhaseHeld', to \in Phases
  PROVE  BenchInv'
<1>1. UNCHANGED <<saved, heap, offered, expired, pairs, active, task_failed, counters>> /\ phase' = to
  BY DEF Moves
<1>2. BenchTypeOK'
  BY <1>1 DEF BenchInv, BenchTypeOK
<1>3. ASSUME NEW k \in 1..OfferedPairs PROVE PairHeld(k)'
  BY <1>1 DEF BenchInv, PairHeld
<1>4. CountersHeld' /\ CyclesHeld'
  BY <1>1 DEF BenchInv, CountersHeld, PairsAt, CyclesHeld, VisitsOf
<1>5. QED  BY <1>2, <1>3, <1>4 DEF BenchInv

LEMMA SchedulerBench ==
  ASSUME BenchInv, SettingsRefused \/ PrepareRun \/ Drain \/ Report \/ Interrupt \/ RunInterrupted
  PROVE  BenchInv'
<1>1. PhaseHeld
  BY DEF BenchInv
<1>2. CASE SettingsRefused
  <2>1. PhaseHeld'
    BY <1>1, <1>2 DEF SettingsRefused, Moves, PhaseHeld, PairsAt
  <2>2. QED  BY <1>2, <2>1, MovesBench DEF SettingsRefused, Phases
<1>3. CASE PrepareRun
  <2>1. PICK to \in {"refused", "offering", "planned"} : Moves("preparing", to) /\ (to # "refused" => saved = {})
    BY <1>3 DEF PrepareRun
  <2>2. PhaseHeld'
    BY <1>1, <2>1 DEF Moves, PhaseHeld, PairsAt
  <2>3. QED  BY <2>1, <2>2, MovesBench DEF Phases
<1>4. CASE Drain
  <2>1. PhaseHeld'
    BY <1>1, <1>4 DEF Drain, Moves, PhaseHeld, PairsAt
  <2>2. QED  BY <1>4, <2>1, MovesBench DEF Drain, Phases
<1>5. CASE Report
  <2>1. PICK to \in {"failed", "reported"} : Moves("draining", to) /\ active = {} /\ (to = "reported" <=> ~task_failed)
    BY <1>5 DEF Report, BenchInv, BenchTypeOK
  <2>2. to = "reported" => PairsAt("raised") = {}
    <3>1. \A k \in 1..OfferedPairs : PairHeld(k)
      BY DEF BenchInv
    <3>2. QED  BY <2>1, <3>1 DEF PairHeld, PairsAt
  <2>3. PhaseHeld'
    <3>1. UNCHANGED <<saved, offered, active>> /\ PairsAt("raised")' = PairsAt("raised") /\ phase = "draining"
          /\ phase' = to
      BY <2>1 DEF Moves, PairsAt
    <3>2. QED  BY <1>1, <2>1, <2>2, <3>1 DEF PhaseHeld
  <2>4. QED  BY <2>1, <2>3, MovesBench DEF Phases
<1>6. CASE Interrupt
  <2>1. PICK from \in {"offering", "draining"} : Moves(from, "cancelling")
    BY <1>6 DEF Interrupt
  <2>2. PhaseHeld'
    BY <1>1, <2>1 DEF Moves, PhaseHeld, PairsAt
  <2>3. QED  BY <2>1, <2>2, MovesBench DEF Phases
<1>7. CASE RunInterrupted
  <2>1. PhaseHeld'
    BY <1>1, <1>7 DEF RunInterrupted, Moves, PhaseHeld, PairsAt
  <2>2. QED  BY <1>7, <2>1, MovesBench DEF RunInterrupted, Phases
<1>8. QED  BY <1>2, <1>3, <1>4, <1>5, <1>6, <1>7

\* A file appears at the path of the report.
LEMMA PathBench ==
  ASSUME BenchInv, PathTaken \/ WriteReport
  PROVE  BenchInv'
<1>1. /\ phase \in {"planned", "reported"} /\ phase' \in {phase, "written", "failed"}
      /\ saved' \in {saved, {"earlier"}, {phase}, {"empty"}}
      /\ UNCHANGED <<heap, offered, expired, pairs, active, task_failed, counters>>
  BY DEF PathTaken, WriteReport
<1>2. PhaseHeld /\ BenchTypeOK
  BY DEF BenchInv
<1>3. "reported" \notin saved
  BY <1>1, <1>2 DEF PhaseHeld
<1>4. BenchTypeOK'
  BY <1>1, <1>2 DEF BenchTypeOK, Phases
<1>5. ASSUME NEW k \in 1..OfferedPairs PROVE PairHeld(k)'
  BY <1>1 DEF BenchInv, PairHeld
<1>6. CountersHeld' /\ CyclesHeld' /\ PairsAt("raised")' = PairsAt("raised")
  BY <1>1 DEF BenchInv, CountersHeld, PairsAt, CyclesHeld, VisitsOf
<1>7. PhaseHeld'
  <2>1. /\ IsFiniteSet({"earlier"}) /\ Cardinality({"earlier"}) = 1
        /\ IsFiniteSet({phase}) /\ Cardinality({phase}) = 1
        /\ IsFiniteSet({"empty"}) /\ Cardinality({"empty"}) = 1
    BY FS_Singleton
  <2>2. Cardinality(saved') <= 1 /\ IsFiniteSet(saved')
    <3>1. CASE saved' = saved
      BY <1>2, <3>1 DEF PhaseHeld
    <3>2. CASE saved' # saved
      <4>1. IsFiniteSet(saved') /\ Cardinality(saved') = 1
        BY <1>1, <2>1, <3>2, Zenon
      <4>2. QED  BY <4>1
    <3>3. QED  BY <3>1, <3>2
  <2>3. active = {} /\ (phase = "reported" => Len(offered) = OfferedPairs /\ PairsAt("raised") = {})
    BY <1>1, <1>2 DEF PhaseHeld
  <2>4. "reported" \in saved' => phase = "reported" /\ phase' = "written"
    BY <1>1, <1>3 DEF PathTaken, WriteReport
  <2>5. phase' = "planned" => offered = <<>>
    BY <1>1, <1>2 DEF PhaseHeld
  <2>6. phase' = "reported" => phase = "reported" /\ saved' \in {{}, {"earlier"}}
    BY <1>1, <1>2 DEF PathTaken, WriteReport, PhaseHeld
  <2>7. QED  BY <1>1, <1>6, <2>2, <2>3, <2>4, <2>5, <2>6 DEF PhaseHeld
<1>8. QED  BY <1>4, <1>5, <1>6, <1>7 DEF BenchInv

LEMMA BenchStarts == BenchInit => BenchInv
<1> SUFFICES ASSUME BenchInit PROVE BenchInv
  OBVIOUS
<1>1. OfferedPairs \in Nat \ {0} /\ Jitters \in Nat \ {0} /\ \A i \in DOMAIN Weights : Weights[i] \in Nat \ {0}
  BY BenchmarkAssumption
<1>2. /\ pairs = [k \in 1..OfferedPairs |-> [at |-> "none", case |-> 0]]
      /\ offered = <<>> /\ active = {} /\ phase = "preparing" /\ saved \in {{}, {"earlier"}}
      /\ counters = [c \in CounterNames |-> 0]
  BY DEF BenchInit, CounterNames
<1>3. BenchTypeOK
  <2>1. heap \in [DOMAIN Weights -> Nat]
    BY <1>1 DEF BenchInit
  <2>2. pairs \in [1..OfferedPairs ->
           [at : Ends \cup {"none", "new", "mask", "unmask", "raised"}, case : DOMAIN Weights \cup {0}]]
    BY <1>2
  <2>3. offered \in Seq(DOMAIN Weights) /\ Len(offered) <= OfferedPairs
    BY <1>1, <1>2
  <2>4. counters \in [Ends \cup {"offered", "dispatched", "capacity", "deadline", "masked",
                                "attempted", "successful", "latencies"} -> Nat]
    BY <1>2 DEF CounterNames
  <2>5. expired \in BOOLEAN /\ task_failed \in BOOLEAN
    BY DEF BenchInit
  <2>6. QED  BY <1>2, <2>1, <2>2, <2>3, <2>4, <2>5 DEF BenchTypeOK, Phases
<1>4. \A at : at # "none" => PairsAt(at) = {}
  BY <1>2 DEF PairsAt
<1>5. Cardinality({}) = 0 /\ IsFiniteSet({})
  BY FS_EmptySet
<1>6. \A k \in 1..OfferedPairs : PairHeld(k)
  BY <1>2 DEF PairHeld, InFlight
<1>7. CountersHeld
  <2>1. /\ PairsAt("new") = {} /\ PairsAt("mask") = {} /\ PairsAt("unmask") = {}
    BY <1>4
  <2>2. /\ counters["offered"] = 0 /\ counters["dispatched"] = 0 /\ counters["capacity"] = 0
        /\ counters["deadline"] = 0 /\ counters["mask_failed"] = 0 /\ counters["unmask_failed"] = 0
        /\ counters["mismatch"] = 0 /\ counters["verified"] = 0 /\ counters["masked"] = 0
        /\ counters["attempted"] = 0 /\ counters["latencies"] = 0 /\ counters["successful"] = 0
    BY <1>2 DEF CounterNames, Ends
  <2>3. Len(offered) = 0
    BY <1>2
  <2>4. /\ Cardinality(PairsAt("new")) = 0 /\ Cardinality(PairsAt("mask")) = 0
        /\ Cardinality(PairsAt("unmask")) = 0
    BY <1>5, <2>1, Zenon
  <2>5. QED  BY <2>2, <2>3, <2>4 DEF CountersHeld
<1>8. PhaseHeld
  <2>1. Cardinality(saved) <= 1 /\ IsFiniteSet(saved)
    <3>1. IsFiniteSet({"earlier"}) /\ Cardinality({"earlier"}) = 1
      BY FS_Singleton
    <3>2. IsFiniteSet(saved) /\ Cardinality(saved) \in {0, 1}
      BY <1>2, <1>5, <3>1, Zenon
    <3>3. QED  BY <3>2
  <2>2. QED  BY <1>2, <2>1 DEF PhaseHeld
<1>9. CyclesHeld
  <2>1. \A i : VisitsOf(i) = 0
    <3>1. \A i : {k \in DOMAIN offered : offered[k] = i} = {}
      BY <1>2
    <3>2. QED  BY <1>5, <3>1 DEF VisitsOf
  <2>2. \A i \in DOMAIN Weights : heap[i] \in 0..Jitters - 1
    BY DEF BenchInit
  <2>3. ASSUME NEW i \in DOMAIN Weights, NEW j \in DOMAIN Weights
        PROVE (VisitsOf(i) - 1) * Jitters * Weights[j] <= heap[j] * Weights[i]
    <3>1. PICK d \in Nat \ {0}, wi \in Nat \ {0}, wj \in Nat \ {0}, h \in Nat :
            d = Jitters /\ wi = Weights[i] /\ wj = Weights[j] /\ h = heap[j]
      BY <1>1, <2>2
    <3>2. (0 - 1) * d * wj <= h * wi
      <4>1. d * wj \in Nat /\ h * wi \in Nat /\ (0 - 1) * d * wj = -(d * wj)
        BY <3>1
      <4>2. QED  BY <4>1
    <3>3. QED  BY <2>1, <3>1, <3>2
  <2>4. ASSUME NEW i \in DOMAIN Weights
        PROVE heap[i] \in VisitsOf(i) * Jitters..(VisitsOf(i) + 1) * Jitters - 1
    <3>1. 0 * Jitters = 0 /\ (0 + 1) * Jitters = Jitters
      BY <1>1
    <3>2. QED  BY <2>1, <2>2, <3>1
  <2>5. QED  BY <2>3, <2>4 DEF CyclesHeld
<1>10. QED  BY <1>3, <1>6, <1>7, <1>8, <1>9 DEF BenchInv

LEMMA BenchSteps == BenchInv /\ [BenchNext]_benchvars => BenchInv'
<1> SUFFICES ASSUME BenchInv, [BenchNext]_benchvars PROVE BenchInv'
  OBVIOUS
<1>1. CASE UNCHANGED benchvars
  <2>1. BenchTypeOK'
    BY <1>1 DEF benchvars, BenchInv, BenchTypeOK
  <2>2. ASSUME NEW k \in 1..OfferedPairs PROVE PairHeld(k)'
    BY <1>1 DEF benchvars, BenchInv, PairHeld
  <2>3. CountersHeld' /\ CyclesHeld'
    BY <1>1 DEF benchvars, BenchInv, CountersHeld, PairsAt, CyclesHeld, VisitsOf
  <2>4. PhaseHeld'
    BY <1>1 DEF benchvars, BenchInv, PhaseHeld, PairsAt
  <2>5. QED  BY <2>1, <2>2, <2>3, <2>4 DEF BenchInv
<1>2. CASE SettingsRefused \/ PrepareRun \/ Drain \/ Report \/ Interrupt \/ RunInterrupted
  BY <1>2, SchedulerBench
<1>3. CASE PathTaken \/ WriteReport
  BY <1>3, PathBench
<1>4. CASE Offer
  BY <1>4, OfferBench
<1>5. ASSUME NEW k \in 1..OfferedPairs,
             Start(k) \/ RequestFails(k) \/ Masked(k) \/ PairRestored(k) \/ Breaks(k) \/ Cancelled(k) \/ Finished(k)
      PROVE BenchInv'
  BY <1>5, StartBench, RequestFailsBench, MaskedBench, PairRestoredBench, BreaksBench, FinishedBench
<1>6. QED  BY <1>1, <1>2, <1>3, <1>4, <1>5 DEF BenchNext

\* No case is a whole cycle ahead: its last visit is due when the other's next one is.
LEMMA CyclesFollow == BenchInv => CyclesTogether
<1> SUFFICES ASSUME BenchInv, NEW i \in DOMAIN Weights, NEW j \in DOMAIN Weights
             PROVE  (VisitsOf(i) - 1) * Weights[j] < (VisitsOf(j) + 1) * Weights[i]
  BY DEF CyclesTogether, VisitsOf
<1>1. ASSUME NEW c PROVE VisitsOf(c) \in Nat
  <2>1. offered \in Seq(DOMAIN Weights)
    BY DEF BenchInv, BenchTypeOK
  <2>2. DOMAIN offered = 1..Len(offered) /\ Len(offered) \in Nat
    BY <2>1
  <2>3. IsFiniteSet(DOMAIN offered)
    BY <2>2, FS_Interval
  <2>4. IsFiniteSet({k \in DOMAIN offered : offered[k] = c})
    BY <2>3, FS_Subset
  <2>5. QED  BY <2>4, FS_CardinalityType DEF VisitsOf
<1>2. heap[j] \in Nat /\ Weights[i] \in Nat \ {0} /\ Weights[j] \in Nat \ {0} /\ Jitters \in Nat \ {0}
  BY BenchmarkAssumption DEF BenchInv, BenchTypeOK
<1>3. PICK vi \in Nat, vj \in Nat, wi \in Nat \ {0}, wj \in Nat \ {0}, d \in Nat \ {0}, h \in Nat :
        vi = VisitsOf(i) /\ vj = VisitsOf(j) /\ wi = Weights[i] /\ wj = Weights[j] /\ d = Jitters /\ h = heap[j]
  BY <1>1, <1>2
<1>4. (vi - 1) * d * wj <= h * wi
  BY <1>3 DEF BenchInv, CyclesHeld
<1>5. h + 1 <= (vj + 1) * d
  <2>1. (vj + 1) * d \in Nat
    BY <1>3
  <2>2. h \in vj * d..(vj + 1) * d - 1
    BY <1>3 DEF BenchInv, CyclesHeld
  <2>3. QED  BY <1>3, <2>1, <2>2
<1>6. (h + 1) * wi <= (vj + 1) * d * wi
  BY <1>5, TimesMonotone
<1>7. h * wi < (h + 1) * wi
  OBVIOUS
<1>8. (vi - 1) * d * wj < (vj + 1) * d * wi
  <2>1. (vi - 1) * d * wj \in Int /\ h * wi \in Int /\ (h + 1) * wi \in Int /\ (vj + 1) * d * wi \in Int
    OBVIOUS
  <2>2. QED  BY <1>4, <1>6, <1>7, <2>1
<1>9. (vi - 1) * wj < (vj + 1) * wi
  <2>1. PICK a \in Int, b \in Int : a = (vi - 1) * wj /\ b = (vj + 1) * wi
    OBVIOUS
  <2>2. (vi - 1) * d * wj = a * d /\ (vj + 1) * d * wi = b * d
    BY <2>1
  <2>3. a * d < b * d
    BY <1>8, <2>2
  <2>4. b <= a => b * d <= a * d
    BY TimesMonotone
  <2>5. a * d \in Int /\ b * d \in Int
    OBVIOUS
  <2>6. a < b
    BY <2>3, <2>4, <2>5
  <2>7. QED  BY <2>1, <2>6
<1>10. QED  BY <1>3, <1>9

\* The report, from the counters with no pair left under way.
LEMMA ReportFollows == BenchInv => ReportAddsUp
<1> SUFFICES ASSUME BenchInv, phase = "reported" \/ "reported" \in saved PROVE ReportAddsUp
  BY DEF ReportAddsUp
<1>1. active = {} /\ Len(offered) = OfferedPairs /\ PairsAt("raised") = {}
  BY DEF BenchInv, PhaseHeld
<1>2. PairsAt("new") = {} /\ PairsAt("mask") = {} /\ PairsAt("unmask") = {}
  BY <1>1 DEF BenchInv, PairHeld, PairsAt, InFlight
<1>3. /\ Cardinality(PairsAt("new")) = 0 /\ Cardinality(PairsAt("mask")) = 0
      /\ Cardinality(PairsAt("unmask")) = 0
  BY <1>2, FS_EmptySet, Zenon
<1>4. /\ counters["offered"] \in Nat /\ counters["dispatched"] \in Nat /\ counters["capacity"] \in Nat
      /\ counters["deadline"] \in Nat /\ counters["mask_failed"] \in Nat /\ counters["unmask_failed"] \in Nat
      /\ counters["mismatch"] \in Nat /\ counters["verified"] \in Nat /\ counters["masked"] \in Nat
      /\ counters["attempted"] \in Nat /\ counters["latencies"] \in Nat /\ counters["successful"] \in Nat
      /\ OfferedPairs \in Nat
  BY BenchmarkAssumption DEF BenchInv, BenchTypeOK, Ends
<1>5. PICK n \in Nat, o \in Nat, d \in Nat, c \in Nat, e \in Nat, f \in Nat, u \in Nat, x \in Nat, v \in Nat,
           m \in Nat, a \in Nat, l \in Nat, s \in Nat :
        /\ n = OfferedPairs /\ o = counters["offered"] /\ d = counters["dispatched"] /\ c = counters["capacity"]
        /\ e = counters["deadline"] /\ f = counters["mask_failed"] /\ u = counters["unmask_failed"]
        /\ x = counters["mismatch"] /\ v = counters["verified"] /\ m = counters["masked"]
        /\ a = counters["attempted"] /\ l = counters["latencies"] /\ s = counters["successful"]
  BY <1>4
<1>6. /\ o = n /\ o = d + c + e
      /\ d = 0 + 0 + 0 + f + u + x + v /\ m = 0 + u + x + v
      /\ a + 0 = d + m /\ l + 0 + 0 = a /\ s = m + x + v
  <2>1. CountersHeld
    BY DEF BenchInv
  <2>2. QED  BY <1>1, <1>3, <1>5, <2>1 DEF CountersHeld
<1>7. /\ n = d + c + e /\ d = f + u + x + v /\ a = d + m /\ l = a /\ s = m + x + v
      /\ 2 * o - a = 2 * (c + e) + f
      /\ v = n <=> l = 2 * n /\ x + u = 0
  BY <1>6
<1>8. QED  BY <1>5, <1>7 DEF ReportAddsUp, NotAttempted, AllVerified

LEMMA BenchHolds == BenchInv => BenchmarkSafe
<1> SUFFICES ASSUME BenchInv PROVE BenchmarkSafe
  OBVIOUS
<1>1. SamplingIgnoresLoad
  BY DEF BenchInv, CountersHeld, PairHeld, SamplingIgnoresLoad
<1>2. NoPairOutlivesRun
  <2>1. ASSUME phase \in {"reported", "written", "failed", "interrupted"}, NEW k \in 1..OfferedPairs
        PROVE  pairs[k].at \in Ends \cup {"none", "raised"}
    <3>1. active = {} /\ PairHeld(k)
      BY <2>1 DEF BenchInv, PhaseHeld
    <3>2. pairs[k].at \in Ends \cup {"none", "new", "mask", "unmask", "raised"}
      BY DEF BenchInv, BenchTypeOK
    <3>3. QED  BY <3>1, <3>2 DEF PairHeld, InFlight
  <2>2. QED  BY <2>1 DEF NoPairOutlivesRun
<1>3. EvidenceKept
  BY DEF BenchInv, PhaseHeld, EvidenceKept
<1>4. QED  BY <1>1, <1>2, <1>3, CyclesFollow, ReportFollows DEF BenchmarkSafe

\* BenchmarkSafe: whatever the service answers, however late the pairs run and wherever the
\* run is interrupted, the cases are those that the weighted cycle planned, no pair
\* outlives the run, a report accounts for every offer and no earlier report is lost.
THEOREM BenchmarkKeepsSafe == BenchSpec => []BenchmarkSafe
<1>1. BenchInit => BenchInv
  BY BenchStarts
<1>2. BenchInv /\ [BenchNext]_benchvars => BenchInv'
  BY BenchSteps
<1>3. BenchInv => BenchmarkSafe
  BY BenchHolds
<1>4. QED  BY <1>1, <1>2, <1>3, PTL DEF BenchSpec
=============================================================================
