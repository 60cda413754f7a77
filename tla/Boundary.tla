------------------------------- MODULE Boundary -------------------------------
(***************************************************************************)
(* The ASGI middleware of seif/app.py (class Boundary): it admits requests *)
(* up to a limit, reads request bodies into one shared byte budget within  *)
(* one deadline per upload, and gives everything back on every way out.    *)
(*                                                                         *)
(* Requests interleave at the awaits: receiving a chunk, sending an error  *)
(* response, running the application.  What happens between two awaits is  *)
(* one action.                                                             *)
(***************************************************************************)
EXTENDS Integers, FiniteSets

CONSTANTS
  Requests,      \* requests, each served once
  MaxInflight,   \* Settings.max_inflight
  MaxBody,       \* Settings.max_body_bytes
  Budget,        \* Settings.max_inflight_body_bytes
  Lengths,       \* valid values of the content-length header
  Chunks,        \* sizes of the pieces an upload arrives in
  None           \* absence of a value

ASSUME BoundaryAssumption ==
  /\ IsFiniteSet(Requests)
  /\ {MaxInflight, MaxBody, Budget} \subseteq Nat \ {0}
  /\ Lengths \subseteq Nat
  /\ Chunks \subseteq Nat

VARIABLES
  inflight,         \* Boundary.inflight
  buffered_bytes,   \* Boundary.buffered_bytes
  pc,               \* where each request is
  method,           \* its method
  overloaded,       \* the local of __call__: refused on arrival
  held,             \* BufferedRequestBody.held_bytes
  content,          \* BufferedRequestBody.content (its size), None while incomplete
  given,            \* size of the body the application was given, None before
  captured          \* what capture.submit was given about the request

vars == <<inflight, buffered_bytes, pc, method, overloaded, held, content, given, captured>>

Init ==
  /\ inflight = 0 /\ buffered_bytes = 0
  /\ pc = [r \in Requests |-> "idle"]
  /\ method = [r \in Requests |-> "POST"]
  /\ overloaded = [r \in Requests |-> FALSE]
  /\ held = [r \in Requests |-> 0]
  /\ content = [r \in Requests |-> None]
  /\ given = [r \in Requests |-> None]
  /\ captured = [r \in Requests |-> None]

Goto(r, to) == pc' = [pc EXCEPT ![r] = to]

\* A header that is no usable length.
Invalid == -1

\* _check_body_size refuses a declared length.
check_body_size_refuses(m, n) ==
  \/ n < 0
  \/ n > MaxBody
  \/ m = "POST" /\ n > Budget - buffered_bytes

\* Mutant: the limit is compared as if refused requests did not count.
Enter_uncounted(r) ==
  /\ pc[r] = "idle"
  /\ \E m \in {"GET", "POST"}, n \in Lengths \cup {Invalid} :
       /\ inflight' = inflight + 1
       /\ method' = [method EXCEPT ![r] = m]
       /\ overloaded' = [overloaded EXCEPT ![r] = inflight > MaxInflight]
       /\ Goto(r, IF inflight > MaxInflight \/ check_body_size_refuses(m, n) THEN "refusing"
                  ELSE IF m = "POST" THEN "reading" ELSE "app")
  /\ UNCHANGED <<buffered_bytes, held, content, given, captured>>

\* __call__ up to its first await.
Enter(r) ==
  /\ pc[r] = "idle"
  /\ \E m \in {"GET", "POST"}, n \in Lengths \cup {Invalid} :
       /\ inflight' = inflight + 1
       /\ method' = [method EXCEPT ![r] = m]
       /\ overloaded' = [overloaded EXCEPT ![r] = inflight >= MaxInflight]
       /\ Goto(r, IF inflight >= MaxInflight \/ check_body_size_refuses(m, n) THEN "refusing"
                  ELSE IF m = "POST" THEN "reading" ELSE "app")
  /\ UNCHANGED <<buffered_bytes, held, content, given, captured>>

\* Mutant: the body is recorded piece by piece, complete or not.
Receive_partial(r) ==
  /\ pc[r] = "reading"
  /\ \E c \in Chunks, more_body \in BOOLEAN :
       /\ held[r] + c <= MaxBody /\ buffered_bytes + c <= Budget
       /\ buffered_bytes' = buffered_bytes + c
       /\ held' = [held EXCEPT ![r] = @ + c]
       /\ content' = [content EXCEPT ![r] = held[r] + c]
       /\ IF more_body THEN UNCHANGED <<pc, given>>
          ELSE Goto(r, "app") /\ given' = [given EXCEPT ![r] = held[r] + c]
  /\ UNCHANGED <<inflight, method, overloaded, captured>>

\* Mutant: the budget is checked against what other requests already hold, but
\* not against the chunk itself.
Receive_unbounded(r) ==
  /\ pc[r] = "reading"
  /\ \E c \in Chunks :
       /\ held[r] + c <= MaxBody /\ buffered_bytes <= Budget
       /\ buffered_bytes' = buffered_bytes + c
       /\ held' = [held EXCEPT ![r] = @ + c]
  /\ UNCHANGED <<inflight, pc, method, overloaded, content, given, captured>>

\* Mutant: an upload that is refused gives its bytes back at once, and again in
\* the finally block.
Receive_returns_twice(r) ==
  /\ pc[r] = "reading"
  /\ \E c \in Chunks :
       \/ /\ held[r] + c > MaxBody
          /\ Goto(r, "refusing")
          /\ buffered_bytes' = buffered_bytes - held[r]
          /\ UNCHANGED held
       \/ /\ held[r] + c <= MaxBody /\ buffered_bytes + c <= Budget
          /\ buffered_bytes' = buffered_bytes + c
          /\ held' = [held EXCEPT ![r] = @ + c]
          /\ UNCHANGED pc
  /\ UNCHANGED <<inflight, method, overloaded, content, given, captured>>

\* One turn of the loop of _read_post_body; after the last chunk the body is
\* complete and the application is called with it.
Receive(r) ==
  /\ pc[r] = "reading"
  /\ \E c \in Chunks, more_body \in BOOLEAN :
       \/ /\ held[r] + c > MaxBody \/ buffered_bytes + c > Budget
          /\ Goto(r, "refusing")
          /\ UNCHANGED <<buffered_bytes, held, content, given>>
       \/ /\ held[r] + c <= MaxBody /\ buffered_bytes + c <= Budget
          /\ buffered_bytes' = buffered_bytes + c
          /\ held' = [held EXCEPT ![r] = @ + c]
          /\ IF more_body THEN UNCHANGED <<pc, content, given>>
             ELSE /\ Goto(r, "app")
                  /\ content' = [content EXCEPT ![r] = held[r] + c]
                  /\ given' = [given EXCEPT ![r] = held[r] + c]
  /\ UNCHANGED <<inflight, method, overloaded, captured>>

\* Mutant: an upload that keeps sending has no deadline.
Timeout_idle(r) ==
  /\ pc[r] = "reading" /\ held[r] = 0
  /\ Goto(r, "refusing")
  /\ UNCHANGED <<inflight, buffered_bytes, method, overloaded, held, content, given, captured>>

\* The deadline of the whole upload passes while a chunk is awaited.
Timeout(r) ==
  /\ pc[r] = "reading"
  /\ Goto(r, "refusing")
  /\ UNCHANGED <<inflight, buffered_bytes, method, overloaded, held, content, given, captured>>

\* Mutant: bytes of a body that never became complete are not given back.
Release_complete_only(r) ==
  /\ Goto(r, "gone")
  /\ buffered_bytes' = buffered_bytes - (IF content[r] # None THEN held[r] ELSE 0)
  /\ held' = [held EXCEPT ![r] = 0]
  /\ inflight' = inflight - 1
  /\ captured' = [captured EXCEPT ![r] = IF method[r] = "POST" THEN content[r] ELSE None]
  /\ UNCHANGED <<method, overloaded, content, given>>

\* The finally block of __call__.  The body goes out of scope with the request;
\* capture.submit is told its content, which is empty unless it is complete.
Release(r) ==
  /\ Goto(r, "gone")
  /\ buffered_bytes' = buffered_bytes - held[r]
  /\ held' = [held EXCEPT ![r] = 0]
  /\ inflight' = inflight - 1
  /\ captured' = [captured EXCEPT ![r] = IF method[r] = "POST" THEN content[r] ELSE None]
  /\ UNCHANGED <<method, overloaded, content, given>>

\* The client disconnects before its body is complete: no response is sent.
Disconnect(r) == pc[r] = "reading" /\ Release(r)

\* The error response is sent, or the application returns or raises.
Finish(r) == pc[r] \in {"refusing", "app"} /\ Release(r)

\* The server cancels the request's task at an await.
Cancel(r) == pc[r] \in {"refusing", "reading", "app"} /\ Release(r)

Next ==
  \E r \in Requests :
    Enter(r) \/ Receive(r) \/ Timeout(r) \/ Disconnect(r) \/ Finish(r) \/ Cancel(r)

\* asyncio.timeout fires, responses are sent and the application returns.
Fairness == \A r \in Requests : WF_vars(Timeout(r)) /\ WF_vars(Finish(r))

Spec == Init /\ [][Next]_vars /\ Fairness

-----------------------------------------------------------------------------
(* Properties.                                                             *)

Active == {r \in Requests : pc[r] \notin {"idle", "gone"}}

Admitted == {r \in Active : ~overloaded[r]}

TypeOK ==
  /\ inflight \in Nat /\ buffered_bytes \in Nat
  /\ pc \in [Requests -> {"idle", "refusing", "reading", "app", "gone"}]
  /\ method \in [Requests -> {"GET", "POST"}]
  /\ overloaded \in [Requests -> BOOLEAN]
  /\ held \in [Requests -> Nat]
  /\ content \in [Requests -> Nat \cup {None}]
  /\ given \in [Requests -> Nat \cup {None}]
  /\ captured \in [Requests -> Nat \cup {None}]

\* The bytes that uploads hold, each as the pair of its request and its position.
HeldBytes == {b \in Requests \X (1..MaxBody) : b[2] <= held[b[1]]}

\* __call__, _read_post_body: the shared counters are exactly what the requests
\* that are being served stand for, on whatever path others left; so they are
\* zero again when all have left.
Conservation ==
  /\ inflight = Cardinality(Active)
  /\ buffered_bytes = Cardinality(HeldBytes)

\* __call__: never more than max_inflight requests get past the overload check,
\* although requests that are being refused count as well.
AdmissionBound == Cardinality(Admitted) <= MaxInflight

\* _read_post_body: uploads together never hold more than the byte budget, and
\* no upload holds more than one body may.
ByteBound ==
  /\ buffered_bytes <= Budget
  /\ \A r \in Requests : held[r] <= MaxBody

\* _dispatch_http, capture.submit: the application and the capture see a body
\* only as a whole; what is recorded of a request whose upload was cut off,
\* refused or timed out is no part of its body.
WholeBodiesOnly ==
  \A r \in Requests :
    /\ pc[r] = "app" /\ method[r] = "POST" => given[r] = held[r] /\ content[r] = held[r]
    /\ pc[r] = "gone" => captured[r] = given[r]

\* request_body_timeout_seconds: every request leaves, also when its client
\* keeps sending small pieces for ever.
EveryRequestLeaves == \A r \in Requests : pc[r] \in {"reading", "refusing", "app"} ~> pc[r] = "gone"
=============================================================================
