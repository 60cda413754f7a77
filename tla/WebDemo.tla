------------------------------- MODULE WebDemo -------------------------------
(***************************************************************************)
(* The demo page, web/app.js: what its handlers do to the page and to      *)
(* lastResult, busy and operationNumber, and what the answers of the API   *)
(* do when they arrive.                                                    *)
(*                                                                         *)
(* Scripts run to their next await without interruption.  An answer, a     *)
(* failure, the abort after 30 seconds, the clipboard and the timer of a   *)
(* notice arrive between handlers.  The API masks a text under the new     *)
(* payload_id of the request, and gives the text back for this id.         *)
(***************************************************************************)
EXTENDS Integers, FiniteSets

CONSTANTS
  Texts,           \* non-blank contents of the source field
  Blank,           \* a blank content
  Nothing,         \* no value
  Loading,         \* the loading indicator
  MaxOperations    \* a bound on operationNumber, for the instance

ASSUME WebDemoAssumption ==
  /\ Blank \notin Texts /\ Nothing \notin Texts /\ Loading # Nothing /\ MaxOperations \in Nat
  /\ Nothing \notin [original : Texts, payload_id : 1..MaxOperations, restored : BOOLEAN]

VARIABLES
  source,             \* source.value, and Nothing never
  lastResult,         \* lastResult: original text, payload_id, restored; or Nothing
  busy,               \* busy
  operationNumber,    \* operationNumber
  ops,                \* operations that await the API, with the locals they need
  output,             \* the output area: Nothing, Loading, or a result
  detail,             \* the text whose entities are shown, Nothing while hidden
  disabled,           \* the disabled property of the buttons and of the source field
  notice,             \* the kind of notice shown, "" while hidden
  timer,              \* noticeTimer is set
  copying             \* the clipboard is being written

pagevars == <<source, lastResult, busy, operationNumber, ops, output, detail, disabled, notice, timer, copying>>

Result(text, id, restored) == [original |-> text, payload_id |-> id, restored |-> restored]

PageInit ==
  /\ source \in Texts                          \* initialize: examples.client
  /\ lastResult = Nothing /\ busy = FALSE /\ operationNumber = 0 /\ ops = {}
  /\ output = Nothing /\ detail = Nothing
  /\ disabled = [protect |-> FALSE, restore |-> TRUE, copy |-> TRUE, source |-> FALSE]
  /\ notice = "" /\ timer = FALSE /\ copying = FALSE

\* notice: replaces the notice and clears the timer.
Notice(kind) == notice' = kind /\ timer' = FALSE

\* What setBusy(value) makes of the buttons, given the source and the result then.
Buttons(value, text, result) ==
  [protect |-> value \/ text = Blank,
   restore |-> value \/ result = Nothing \/ (result # Nothing /\ result.restored),
   copy    |-> value \/ result = Nothing,
   source  |-> value]

SetBusy(value) ==
  /\ busy' = value
  /\ disabled' = Buttons(value, source', lastResult')

\* Mutant: a second operation may be started.
protect_anytime ==
  /\ source # Blank /\ operationNumber < MaxOperations
  /\ operationNumber' = operationNumber + 1
  /\ ops' = ops \cup {[kind |-> "protect", sequence |-> operationNumber', original |-> source,
                       previous |-> lastResult]}
  /\ output' = Loading /\ Notice("")
  /\ UNCHANGED <<source, lastResult, detail, copying>>
  /\ SetBusy(TRUE)

\* protect up to its await: by the button, or by the keyboard whatever the button says.
protect ==
  /\ ~busy /\ source # Blank /\ operationNumber < MaxOperations
  /\ operationNumber' = operationNumber + 1
  /\ ops' = ops \cup {[kind |-> "protect", sequence |-> operationNumber', original |-> source,
                       previous |-> lastResult]}
  /\ output' = Loading /\ Notice("")
  /\ UNCHANGED <<source, lastResult, detail, copying>>
  /\ SetBusy(TRUE)

\* restore up to its await.
restore ==
  /\ ~busy /\ ~disabled.restore
  /\ lastResult # Nothing /\ (lastResult # Nothing => ~lastResult.restored)
  /\ ops' = ops \cup {[kind |-> "restore", sequence |-> operationNumber, previous |-> lastResult,
                       original |-> lastResult.original]}
  /\ output' = Loading /\ Notice("")
  /\ UNCHANGED <<source, lastResult, operationNumber, detail, copying>>
  /\ SetBusy(TRUE)

\* protect after its await.  A late answer of another operation is ignored.
Protected(op) ==
  /\ op \in ops /\ op.kind = "protect" /\ ops' = ops \ {op}
  /\ IF op.sequence = operationNumber
     THEN /\ lastResult' = Result(op.original, op.sequence, FALSE)
          /\ output' = lastResult' /\ detail' = op.original
          /\ UNCHANGED source /\ SetBusy(FALSE)
     ELSE UNCHANGED <<source, lastResult, output, detail, busy, disabled>>
  /\ UNCHANGED <<operationNumber, notice, timer, copying>>

\* The request of protect fails: an error status, no connection, an answer that is
\* no result, or the abort after 30 seconds.  The previous result is shown again.
ProtectFails(op) ==
  /\ op \in ops /\ op.kind = "protect" /\ ops' = ops \ {op}
  /\ IF op.sequence = operationNumber
     THEN /\ lastResult' = op.previous
          /\ output' = op.previous
          /\ Notice("error")
          /\ UNCHANGED source /\ SetBusy(FALSE)
     ELSE UNCHANGED <<source, lastResult, output, notice, timer, busy, disabled>>
  /\ UNCHANGED <<operationNumber, detail, copying>>

\* restore after its await; the answer is the text under its payload_id.
Restored(op) ==
  /\ op \in ops /\ op.kind = "restore" /\ ops' = ops \ {op}
  /\ lastResult' = Result(op.previous.original, op.previous.payload_id, TRUE)
  /\ output' = lastResult' /\ Notice("restored")
  /\ UNCHANGED <<source, operationNumber, detail, copying>>
  /\ SetBusy(FALSE)

RestoreFails(op) ==
  /\ op \in ops /\ op.kind = "restore" /\ ops' = ops \ {op}
  /\ output' = op.previous /\ Notice("error")
  /\ UNCHANGED <<source, lastResult, operationNumber, detail, copying>>
  /\ SetBusy(FALSE)

\* resetResult followed by updateCount.
Reset ==
  /\ lastResult' = Nothing /\ output' = Nothing /\ detail' = Nothing
  /\ Notice("")
  /\ disabled' = [disabled EXCEPT !.copy = TRUE, !.restore = TRUE,
                                  !.protect = busy \/ source' = Blank]
  /\ UNCHANGED <<busy, operationNumber, ops, copying>>

\* loadExample by a click or by the keyboard, and the clear button.
loadExample == ~busy /\ source' \in Texts /\ Reset
Clear == ~busy /\ source' = Blank /\ Reset

\* The input listener of the source field.
Input ==
  /\ ~disabled.source
  /\ source' \in (Texts \cup {Blank}) \ {source}
  /\ disabled' = [disabled EXCEPT !.protect = busy \/ source' = Blank]
  /\ UNCHANGED <<lastResult, busy, operationNumber, ops, output, detail, notice, timer, copying>>

\* The copy button up to its await.
Copy ==
  /\ ~disabled.copy /\ lastResult # Nothing /\ ~copying
  /\ copying' = TRUE
  /\ UNCHANGED <<source, lastResult, busy, operationNumber, ops, output, detail, disabled, notice, timer>>

\* The clipboard is written, and the notice about it gets a timer; or it refuses.
Copied ==
  /\ copying /\ copying' = FALSE
  /\ \/ notice' = "copied" /\ timer' = TRUE
     \/ Notice("error")
  /\ UNCHANGED <<source, lastResult, busy, operationNumber, ops, output, detail, disabled>>

\* The timer hides the notice.
TimerFires ==
  /\ timer /\ Notice("")
  /\ UNCHANGED <<source, lastResult, busy, operationNumber, ops, output, detail, disabled, copying>>

PageNext ==
  \/ protect \/ restore \/ loadExample \/ Clear \/ Input \/ Copy \/ Copied \/ TimerFires
  \/ \E op \in ops : Protected(op) \/ ProtectFails(op) \/ Restored(op) \/ RestoreFails(op)

\* The abort after 30 seconds ends every request that is not answered.
PageFairness == WF_pagevars(\E op \in ops : ProtectFails(op) \/ RestoreFails(op))


-----------------------------------------------------------------------------
(* Properties.                                                             *)

Results == [original : Texts, payload_id : 1..MaxOperations, restored : BOOLEAN]

PageTypeOK ==
  /\ source \in Texts \cup {Blank}
  /\ lastResult \in Results \cup {Nothing}
  /\ operationNumber \in 0..MaxOperations
  /\ \A op \in ops : op.kind \in {"protect", "restore"}
  /\ output \in Results \cup {Nothing, Loading}
  /\ detail \in Texts \cup {Nothing}
  /\ disabled \in [protect : BOOLEAN, restore : BOOLEAN, copy : BOOLEAN, source : BOOLEAN]
  /\ notice \in {"", "error", "restored", "copied"}
  /\ {busy, timer, copying} \subseteq BOOLEAN

\* protect, restore, busy: the page is busy exactly while one operation is under
\* way, and the text that is being protected is the one in the field.
OneOperation ==
  /\ Cardinality(ops) = (IF busy THEN 1 ELSE 0)
  /\ \A op \in ops : op.kind = "protect" => op.original = source

\* The page of an idle demo shows lastResult: its text, or the entities of the
\* text it was made from, never those of another operation, however it ended.
ShowsLastResult ==
  ~busy => /\ output = lastResult
           /\ detail = (IF lastResult = Nothing THEN Nothing ELSE lastResult.original)

\* setBusy, resetResult, updateCount: three places set the buttons, and they agree.
ButtonsAgree == disabled = Buttons(busy, source, lastResult)

\* notice: a timer that runs belongs to the notice shown, so that it can never hide
\* an error that came after the notice it was set for.
ErrorStays == timer => notice = "copied"

\* Whatever the API does, the page becomes usable again.
BusyEnds == busy ~> ~busy

\* The page as a whole: one operation, its own result, its own buttons, its own notice.
PageSafe == PageTypeOK /\ OneOperation /\ ShowsLastResult /\ ButtonsAgree /\ ErrorStays
=============================================================================
