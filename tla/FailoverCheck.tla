---------------------------- MODULE FailoverCheck ----------------------------
(***************************************************************************)
(* scripts/failover_check.py: prepare masks a synthetic text under a fresh *)
(* payload_id and saves mask and id in a state file; after the operator's  *)
(* failover, verify sends the mask and expects the text back.  Requests    *)
(* are retried until a deadline; an answer may be lost, and the service    *)
(* may serve a request that its client has given up on.                    *)
(*                                                                         *)
(* Several invocations may be given the same state file.  Of the service,  *)
(* src/seif/app.py, this is the way of one payload_id through /process:    *)
(* the record is looked up, a text that has none is masked meanwhile, and  *)
(* the record is stored unless another request has stored one.  A request  *)
(* that is refused, or whose detection or store fails, is one never served *)
(* here.  The policy grants unmasking and stays as it is; it masks         *)
(* nothing, or with masks that are the same for the same text (modes mask  *)
(* and synthetic), or with new tokens each time.                           *)
(***************************************************************************)
EXTENDS Integers, FiniteSets

CONSTANTS
  Invocations,     \* runs of the script, numbered as they start; a payload_id is the run that made it
  MaxAttempts,     \* attempts that fit into the deadline of each
  MaxMasks         \* records made for one payload_id, one after the other

ASSUME FailoverCheckAssumption ==
  /\ Invocations \cup {MaxMasks} \subseteq Nat \ {0}
  /\ MaxAttempts \in [Invocations -> Nat \ {0}]

VARIABLES
  inv,         \* what each invocation is doing
  network,     \* requests not looked at yet: a lost or refused one never is
  masking,     \* requests that have found no record and whose text is being masked
  reply,       \* the answer under way to each invocation's last attempt
  records,     \* the record that the service holds for each payload_id
  made,        \* how many it has made for each payload_id so far, which numbers them
  lost,        \* payload_ids whose record was ever lost
  late,        \* records made for an attempt of prepare nobody waited for any more
  met,         \* the number of the record that each invocation was answered from
  mode,        \* what the policy masks with: nothing, equal masks, fresh ones
  state_file   \* args.state

failovervars ==
  <<inv, network, masking, reply, records, made, lost, late, met, mode, state_file>>

\* A text is the source, 0, or a mask of it or of a mask, with a number.
Source == 0
None == -1
Conflict == -2                            \* in place of a text: the status 409
NoFile == [id |-> 0, masked |-> None]
Empty == [id |-> -1, masked |-> None]    \* created, its contents not written yet
NoReply == [text |-> None, number |-> 0]
NoRecord == [original |-> None, masked |-> None, number |-> 0]

FailoverInit ==
  /\ inv = [i \in Invocations |-> [at |-> "start", id |-> i, payload |-> Source, attempts |-> 0,
                                   masked |-> None, reason |-> "none"]]
  /\ network = {} /\ masking = {} /\ reply = [i \in Invocations |-> NoReply]
  /\ records = [i \in Invocations |-> NoRecord] /\ made = [i \in Invocations |-> 0]
  /\ lost = {} /\ late = {} /\ met = [i \in Invocations |-> 0]
  /\ mode \in {"nothing", "equal", "fresh"} /\ state_file = NoFile

Service == <<network, masking, records, made, lost, late, mode>>

Fails(i, reason) == inv' = [inv EXCEPT ![i].at = "fail", ![i].reason = reason]
Local == UNCHANGED <<Service, reply, met>>

Starts(i) == inv[i].at = "start" /\ \A j \in Invocations : j < i => inv[j].at # "start"

\* run up to its request: prepare.
Prepare(i) ==
  /\ Starts(i)
  /\ IF state_file # NoFile THEN Fails(i, "state_already_exists")
     ELSE inv' = [inv EXCEPT ![i].at = "preparing"]
  /\ UNCHANGED state_file /\ Local

\* run up to its request: verify, with load_state.
Verify(i) ==
  /\ Starts(i)
  /\ IF state_file \in {NoFile, Empty} THEN Fails(i, "invalid_state_file")
     ELSE inv' = [inv EXCEPT ![i] = [@ EXCEPT !.at = "verifying", !.id = state_file.id,
                                              !.payload = state_file.masked]]
  /\ UNCHANGED state_file /\ Local

Asking(i) == inv[i].at \in {"preparing", "verifying"}

MessageId(i) == inv[i].id

\* request: an attempt, the first one or after an outage, a timeout or a broken connection.
Attempt(i) ==
  /\ Asking(i) /\ inv[i].attempts < MaxAttempts[i]
  /\ inv' = [inv EXCEPT ![i].attempts = @ + 1]
  /\ network' = network \cup {[from |-> i, attempt |-> inv'[i].attempts, id |-> MessageId(i),
                               payload |-> inv[i].payload]}
  /\ reply' = [reply EXCEPT ![i] = NoReply]
  /\ UNCHANGED <<masking, records, made, lost, late, met, mode, state_file>>

\* request: the deadline is over.
Deadline(i) ==
  /\ Asking(i) /\ inv[i].attempts = MaxAttempts[i]
  /\ Fails(i, "service_not_ready_before_deadline")
  /\ reply' = [reply EXCEPT ![i] = NoReply]
  /\ UNCHANGED <<Service, met, state_file>>

\* Only an attempt whose connection is still open is answered.
Awaited(m) == Asking(m.from) /\ m.attempt = inv[m.from].attempts

Answer(m, text, number) ==
  reply' = IF Awaited(m) THEN [reply EXCEPT ![m.from] = [text |-> text, number |-> number]] ELSE reply

\* _resolve_record: the mask is answered with the original, and that with the mask.
Resolved(text, record) ==
  IF text = record.masked /\ text # record.original THEN record.original
  ELSE IF text = record.original THEN record.masked ELSE Conflict

\* The service looks a request's record up.
Serve(m) ==
  /\ network' = network \ {m}
  /\ IF records[m.id] = NoRecord THEN masking' = masking \cup {m} /\ UNCHANGED reply
     ELSE Answer(m, Resolved(m.payload, records[m.id]), records[m.id].number) /\ UNCHANGED masking
  /\ UNCHANGED <<inv, records, made, lost, late, met, mode, state_file>>

\* mask: what a text becomes in the record with this number.  Nothing may be found in
\* what is a mask already.
MasksOf(text, number) ==
  IF mode = "nothing" THEN {text}
  ELSE LET new == IF mode = "fresh" THEN number ELSE IF text = Source THEN 1 ELSE 2
       IN IF text = Source THEN {new} ELSE {text, new}

\* _detect_and_transform from its store on: the record of this request, or the one that
\* another request has stored meanwhile.
Store(m) ==
  /\ masking' = masking \ {m}
  /\ \/ /\ records[m.id] = NoRecord /\ made[m.id] < MaxMasks
        /\ made' = [made EXCEPT ![m.id] = @ + 1]
        /\ late' = IF Awaited(m) \/ m.payload # Source THEN late ELSE late \cup {<<m.id, made'[m.id]>>}
        /\ \E text \in MasksOf(m.payload, made'[m.id]) :
             /\ records' = [records EXCEPT ![m.id] = [original |-> m.payload, masked |-> text,
                                                     number |-> made'[m.id]]]
             /\ Answer(m, text, made'[m.id])
     \/ /\ records[m.id] # NoRecord
        /\ Answer(m, IF records[m.id].original = m.payload THEN records[m.id].masked ELSE Conflict,
                  records[m.id].number)
        /\ UNCHANGED <<records, made, late>>
  /\ UNCHANGED <<inv, network, lost, met, mode, state_file>>

\* The failover, or the end of the record's life.
LoseRecord(id) ==
  /\ records[id] # NoRecord /\ records' = [records EXCEPT ![id] = NoRecord] /\ lost' = lost \cup {id}
  /\ UNCHANGED <<inv, network, masking, reply, made, late, met, mode, state_file>>

\* Mutant: whatever comes back is saved.
Prepared_any(i, r) == inv' = [inv EXCEPT ![i].at = "create", ![i].masked = r]

\* prepare after its request: a mask that shows its text is refused.
Prepared(i, r) ==
  IF r = Source THEN Fails(i, "synthetic_source_was_not_protected")
  ELSE inv' = [inv EXCEPT ![i].at = "create", ![i].masked = r]

\* verify after its request.
Verified(i, r) ==
  IF r # Source THEN Fails(i, "mapping_not_preserved")
  ELSE inv' = [inv EXCEPT ![i].at = "verified"]

\* request: an answer, and what run makes of it; statuses that may pass are tried again,
\* any other one is final.
Receive(i) ==
  /\ Asking(i) /\ reply[i] # NoReply
  /\ LET r == reply[i].text IN
     IF r = Conflict THEN Fails(i, "http_409")
     ELSE IF inv[i].at = "preparing" THEN Prepared(i, r) ELSE Verified(i, r)
  /\ met' = [met EXCEPT ![i] = reply[i].number]
  /\ reply' = [reply EXCEPT ![i] = NoReply]
  /\ UNCHANGED <<Service, state_file>>

\* save_state: the file is created, unless somebody has done so meanwhile.
Create(i) ==
  /\ inv[i].at = "create"
  /\ IF state_file # NoFile THEN Fails(i, "cannot_create") /\ UNCHANGED state_file
     ELSE inv' = [inv EXCEPT ![i].at = "write"] /\ state_file' = Empty
  /\ Local

Write(i) ==
  /\ inv[i].at = "write"
  /\ state_file' = [id |-> inv[i].id, masked |-> inv[i].masked]
  /\ inv' = [inv EXCEPT ![i].at = "prepared"] /\ Local

FailoverNext ==
  \/ \E i \in Invocations :
       \/ Prepare(i) \/ Verify(i) \/ Attempt(i) \/ Deadline(i)
       \/ Receive(i) \/ Create(i) \/ Write(i) \/ LoseRecord(i)
  \/ \E m \in network : Serve(m)
  \/ \E m \in masking : Store(m)

-----------------------------------------------------------------------------
(* Properties.                                                             *)

\* request, run: a record that was never lost does not fail the check, whatever was
\* retried, answered to nobody or served late.
NoFalseAlarm ==
  \A i \in Invocations : inv[i].reason \in {"mapping_not_preserved", "http_409"} => inv[i].id \in lost

\* run: verify passes only if its mask met the very record that prepare had its answer
\* from, or, where equal texts get equal masks, one that an attempt of prepare nobody
\* waited for any more has made again since that record was lost.  A service that masks
\* nothing, that makes new tokens, or that verify is the first to come to cannot pass.
PassMeansPreserved ==
  \A i \in Invocations : inv[i].at = "verified" =>
    LET id == inv[i].id IN
    \/ met[i] = met[id]
    \/ mode = "equal" /\ id \in lost /\ <<id, met[i]>> \in late

\* save_state: "refuse to overwrite": when two runs prepare the same file, one of them
\* fails, and the file keeps the mask of the one that reported success.
OneStateFile ==
  \A i \in Invocations : inv[i].at = "prepared" =>
    /\ state_file = [id |-> inv[i].id, masked |-> inv[i].masked]
    /\ \A j \in Invocations \ {i} : inv[j].at \notin {"write", "prepared"}

\* The verdict of the check is right both ways, also with several runs on one file.
CheckSafe == NoFalseAlarm /\ PassMeansPreserved /\ OneStateFile
=============================================================================
