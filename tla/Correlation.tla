----------------------------- MODULE Correlation -----------------------------
(***************************************************************************)
(* What the gateway promises about a correlation key (a tenant and a       *)
(* payload_id), with every answer as one atomic step.                      *)
(*                                                                         *)
(* A key is bound to at most one pair (original, masked) at a time.  The   *)
(* pair never changes: it is forgotten (its TTL passes, a failover loses   *)
(* it) and only then can the key be bound again.  A successful answer is   *)
(* computed from the pair that is bound at that very moment: masking hands *)
(* out the bound mask of the bound original, restoring hands out what the  *)
(* bound mask stands for.                                                  *)
(***************************************************************************)
EXTENDS Texts

VARIABLES
  input,            \* what each request asked, None before it is sent
  pair,             \* the pair each key is bound to, or None
  answer            \* each request's answer, or None

cvars == <<input, pair, answer>>

CInit ==
  /\ input = [r \in Requests |-> None]
  /\ pair = [k \in Keys |-> None]
  /\ answer = [r \in Requests |-> None]

\* The successful answers to the input i that a bound pair p justifies.
Justified(i, p) ==
  (IF i.op # "unmask" /\ i.payload = p.original
     THEN {Ok("mask", p.masked)} ELSE {})
  \cup
  (IF i.op # "mask" /\ i.payload = p.masked
     THEN {Ok("unmask", p.original)} ELSE {})
  \cup
  (IF i.op = "unmask" /\ p.masked.form = "token" /\ i.payload = Edited(p.masked)
     THEN {Ok("unmask", Filled(p.original))} ELSE {})

Open(r) == input[r] # None /\ answer[r] = None

\* A client sends a request, which may be refused at once.
CSubmit(r) ==
  /\ input[r] = None
  /\ input'[r] \in Input
  /\ input' = [input EXCEPT ![r] = input'[r]]
  /\ answer' \in {answer, [answer EXCEPT ![r] = Refused("rejected")]}
  /\ UNCHANGED pair

\* A free key is bound to the text of the request and some mask of it.
Bind(r) ==
  /\ pair[KeyOf(input[r])] = None
  /\ input[r].op # "unmask"
  /\ \E m \in Text :
       pair' = [pair EXCEPT ![KeyOf(input[r])] = [original |-> input[r].payload, masked |-> m]]

\* A successful answer, from the pair that is bound, or that is bound with it.
CAnswer(r) ==
  /\ Open(r)
  /\ UNCHANGED input
  /\ UNCHANGED pair \/ Bind(r)
  /\ pair'[KeyOf(input[r])] # None
  /\ \E a \in Justified(input[r], pair'[KeyOf(input[r])]) :
       answer' = [answer EXCEPT ![r] = a]

\* A refusal or a failure, after which the key may nevertheless be bound.
CRefuse(r) ==
  /\ Open(r)
  /\ UNCHANGED input
  /\ UNCHANGED pair \/ Bind(r)
  /\ \E c \in Refusals : answer' = [answer EXCEPT ![r] = Refused(c)]

\* A binding whose confirmation was lost: the request is answered later.
CBind(r) ==
  /\ Open(r)
  /\ Bind(r)
  /\ UNCHANGED <<input, answer>>

\* Correlations are forgotten; a restart of a gateway that keeps them in
\* memory forgets all of them and leaves its open requests without an answer.
CForget ==
  /\ UNCHANGED input
  /\ \E gone \in SUBSET Keys :
       pair' = [k \in Keys |-> IF k \in gone THEN None ELSE pair[k]]
  /\ \E dropped \in SUBSET {r \in Requests : Open(r)} :
       answer' = [r \in Requests |-> IF r \in dropped THEN Refused("lost") ELSE answer[r]]

CNext ==
  \/ \E r \in Requests : CSubmit(r) \/ CAnswer(r) \/ CRefuse(r) \/ CBind(r)
  \/ CForget

CSpec == CInit /\ [][CNext]_cvars
=============================================================================
