---------------------------- MODULE GatewayProofs ----------------------------
(***************************************************************************)
(* Proofs, for every set of requests, tenants, payload_ids, texts and      *)
(* policies, that the request path keeps the properties of module Gateway. *)
(***************************************************************************)
EXTENDS Gateway, TLAPS

-----------------------------------------------------------------------------
(* What the operators return.                                              *)

\* mode_of: a request runs in one of the modes.
LEMMA ModeType ==
  ASSUME NEW i \in Input, NEW p \in Policy
  PROVE  mode_of(i, p) \in Modes
  BY DEF Input, Policy, mode_of

\* KeyOf: the key of a request is a key of the vault.
LEMMA KeyType ==
  ASSUME NEW i \in Input
  PROVE  KeyOf(i) \in Keys
  BY DEF Input, KeyOf, Keys

\* Configs: what authorize() looks up is a policy.
LEMMA PolicyType ==
  ASSUME NEW c \in Configs, NEW i \in Input
  PROVE  c[i.tenant] \in Policy
  BY GatewayAssumption DEF Input

\* mask: the transformation of a text is a text.
LEMMA MaskType ==
  ASSUME NEW t \in Text, NEW b \in BOOLEAN, NEW m \in Modes, NEW r \in Requests
  PROVE  mask_text(t, b, m, r) \in Text
  BY TextsAssumption DEF mask_text, Tokenized, Covered, Text

\* _detect_and_transform: it builds a record.
LEMMA RecordType ==
  ASSUME NEW r \in Requests, NEW i \in Input, NEW p \in Policy
  PROVE  new_record(r, i, p) \in Record
<1>1. i.payload \in Text
  BY DEF Input
<1>2. select_spans(i.payload, p) \in BOOLEAN
  BY DEF select_spans
<1>3. mask_text(i.payload, select_spans(i.payload, p), mode_of(i, p), r) \in Text
  BY <1>1, <1>2, ModeType, MaskType
<1> QED
  BY <1>1, <1>3, ModeType DEF new_record, Record

\* restore_exact: restoring a record gives a text.
LEMMA RestoreType ==
  ASSUME NEW rec \in Record
  PROVE  restore_exact(rec) \in Text
  BY DEF restore_exact, Record

\* Filled: putting values back into a text gives a text.
LEMMA FilledType ==
  ASSUME NEW t \in Text
  PROVE  Filled(t) \in Text
  BY DEF Filled, Text

\* Refused: a refusal is an answer and no success.
LEMMA RefusedType ==
  ASSUME NEW c \in Refusals
  PROVE  Refused(c) \in Answer /\ Refused(c).code # "ok"
  BY DEF Refused, Answer, Refusals

\* Ok: a successful answer is an answer.
LEMMA OkType ==
  ASSUME NEW d \in {"mask", "unmask"}, NEW t \in Text
  PROVE  Ok(d, t) \in Answer
  BY DEF Ok, Answer

\* _resolve_record: its outcomes are answers.
LEMMA ResolveType ==
  ASSUME NEW i \in Input, NEW p \in Policy, NEW rec \in Record,
         NEW a \in resolve_record(i, p, rec)
  PROVE  a \in Answer
<1>1. {"payload_conflict", "mode_conflict", "unmask_disabled", "too_large", "unknown_token"}
         \subseteq Refusals
  BY DEF Refusals
<1>2. rec.masked \in Text /\ rec.replacements \in Text \cup {None}
  BY DEF Record
<1>3. Ok("mask", rec.masked) \in Answer /\ Ok("unmask", restore_exact(rec)) \in Answer
  BY <1>2, RestoreType, OkType
<1>4. rec.replacements # None => Ok("unmask", Filled(rec.replacements)) \in Answer
  BY <1>2, FilledType, OkType
<1> QED
  BY <1>1, <1>3, <1>4, RefusedType DEF resolve_record, restore_record, restore_tokens

\* put_if_absent: the checks on its result give an answer, and a successful
\* one is what _resolve_record would have answered had the record been there.
LEMMA ConfirmResolves ==
  ASSUME NEW i \in Input, NEW p \in Policy, NEW rec \in Record, i.op # "unmask"
  PROVE  /\ confirm(i, p, rec) \in Answer
         /\ confirm(i, p, rec).code = "ok" => confirm(i, p, rec) \in resolve_record(i, p, rec)
<1>1. rec.masked \in Text
  BY DEF Record
<1>2. Ok("mask", rec.masked) \in Answer
  BY <1>1, OkType
<1>3. Refused("payload_conflict") \in Answer /\ Refused("payload_conflict").code # "ok"
  BY RefusedType DEF Refusals
<1>4. Refused("mode_conflict") \in Answer /\ Refused("mode_conflict").code # "ok"
  BY RefusedType DEF Refusals
<1> QED
  BY <1>2, <1>3, <1>4 DEF confirm, resolve_record, restores

\* _resolve_record: masking answers the stored mask of the stored original.
LEMMA ResolveMask ==
  ASSUME NEW i, NEW p, NEW rec, NEW a \in resolve_record(i, p, rec),
         a.code = "ok", a.dir = "mask"
  PROVE  i.payload = rec.original_hash /\ a.text = rec.masked /\ i.op # "unmask"
  BY DEF resolve_record, restore_record, restore_tokens, restores, Ok, Refused

-----------------------------------------------------------------------------
(* The two shapes of a step that serves a request.                         *)

\* The request writes its record under its free key.
Stores(r) ==
  /\ pc[r] = "put" /\ store[Key(r)] = None
  /\ store' = [store EXCEPT ![Key(r)] = draft[r]]

\* The request is answered; a successful answer follows from the record that
\* is then stored under its key.
ReplyStep(r, a) ==
  /\ InFlight(r)
  /\ Respond(r, a)
  /\ UNCHANGED <<config, input, ctx, draft, life>>
  /\ UNCHANGED store \/ Stores(r)
  /\ a \in Answer
  /\ a.code = "ok" => /\ store'[Key(r)] # None
                      /\ a \in resolve_record(input[r], ctx[r], store'[Key(r)])

\* The request proceeds to its next await.
MoveStep(r, to) ==
  /\ InFlight(r)
  /\ Goto(r, to)
  /\ to \in {"detect", "put", "winner"}
  /\ input[r].op # "unmask"
  /\ UNCHANGED <<config, input, ctx, answer, life, seen>>
  /\ UNCHANGED store \/ Stores(r)
  /\ draft' = [draft EXCEPT ![r] = draft'[r]]
  /\ to = "detect" => draft' = draft
  /\ to \in {"put", "winner"} => draft'[r] = new_record(r, input[r], ctx[r])

\* LocalInv, read for one request that is being served.
LEMMA Served ==
  ASSUME TypeOK, LocalInv, NEW r \in Requests, InFlight(r)
  PROVE  /\ input[r] \in Input /\ input[r] # None
         /\ ctx[r] \in Policy
         /\ Key(r) \in Keys
         /\ answer[r] = None
         /\ \E c \in Configs : ctx[r] = c[input[r].tenant]
         /\ new_record(r, input[r], ctx[r]) \in Record
<1>1. input[r] \in Input /\ input[r] # None
  BY DEF TypeOK, LocalInv, InFlight
<1>2. \E c \in Configs : ctx[r] = c[input[r].tenant]
  BY DEF LocalInv
<1>3. ctx[r] \in Policy
  BY <1>1, <1>2, PolicyType
<1>4. answer[r] = None
  BY DEF LocalInv, InFlight
<1> QED
  BY <1>1, <1>2, <1>3, <1>4, KeyType, RecordType DEF Key

\* put_if_absent: a step that writes stores the record built for the request.
LEMMA StoresRecord ==
  ASSUME TypeOK, LocalInv, RecordInv, NEW r \in Requests, InFlight(r), UNCHANGED input,
         UNCHANGED store \/ Stores(r)
  PROVE  /\ store' \in [Keys -> Record \cup {None}]
         /\ \A k \in Keys : store[k] # None => store'[k] = store[k]
         /\ \A k \in Keys : store'[k] # None =>
              \E w \in Requests, c \in Configs :
                /\ Writer(w, k) /\ Writer(w, k)'
                /\ store'[k] = RecordOf(w, c) /\ store'[k] = RecordOf(w, c)'
<1>1. CASE UNCHANGED store
  <2>1. store' \in [Keys -> Record \cup {None}]
    BY <1>1 DEF TypeOK
  <2>2. ASSUME NEW k \in Keys, store[k] # None
        PROVE  \E w \in Requests, c \in Configs : Writer(w, k) /\ store[k] = RecordOf(w, c)
    BY <2>2 DEF RecordInv
  <2> QED
    BY <1>1, <2>1, <2>2 DEF Writer, RecordOf, Key
<1>2. CASE Stores(r)
  <2>1. draft[r] = new_record(r, input[r], ctx[r]) /\ draft[r] \in Record
    BY <1>2, Served DEF Stores, LocalInv
  <2>2. store' \in [Keys -> Record \cup {None}]
    BY <1>2, <2>1 DEF TypeOK, Stores
  <2>3. \A k \in Keys : store[k] # None => store'[k] = store[k]
    BY <1>2 DEF Stores, TypeOK
  <2>4. ASSUME NEW k \in Keys, store'[k] # None
        PROVE  \E w \in Requests, c \in Configs :
                 /\ Writer(w, k) /\ Writer(w, k)'
                 /\ store'[k] = RecordOf(w, c) /\ store'[k] = RecordOf(w, c)'
    <3>1. CASE k = Key(r)
      <4>1. store'[k] = draft[r]
        BY <1>2, <3>1, Served DEF Stores, TypeOK
      <4>2. Writer(r, k)
        BY <3>1, <1>2, Served DEF Writer, Stores, LocalInv
      <4>3. PICK c \in Configs : ctx[r] = c[input[r].tenant]
        BY Served
      <4> QED
        BY <2>1, <4>1, <4>2, <4>3 DEF Writer, RecordOf, Key
    <3>2. CASE k # Key(r)
      <4>1. store'[k] = store[k]
        BY <1>2, <3>2 DEF Stores, TypeOK
      <4> QED
        BY <2>4, <4>1 DEF RecordInv, Writer, RecordOf, Key
    <3> QED
      BY <3>1, <3>2
  <2> QED
    BY <2>2, <2>3, <2>4
<1> QED
  BY <1>1, <1>2

\* execute: answering a request keeps the inductive invariant.
LEMMA ReplyKeeps ==
  ASSUME IInv, NEW r \in Requests, NEW a, ReplyStep(r, a)
  PROVE  IInv'
<1> USE DEF IInv
<1>1. InFlight(r) /\ UNCHANGED <<config, input, ctx, draft, life>>
  BY DEF ReplyStep
<1>2. /\ input[r] \in Input /\ input[r] # None /\ Key(r) \in Keys /\ answer[r] = None
      /\ \E c \in Configs : ctx[r] = c[input[r].tenant]
  BY <1>1, Served
<1>3. /\ store' \in [Keys -> Record \cup {None}]
      /\ \A k \in Keys : store[k] # None => store'[k] = store[k]
      /\ \A k \in Keys : store'[k] # None =>
           \E w \in Requests, c \in Configs :
             /\ Writer(w, k) /\ Writer(w, k)'
             /\ store'[k] = RecordOf(w, c) /\ store'[k] = RecordOf(w, c)'
  BY <1>1, StoresRecord DEF ReplyStep
<1>4. /\ answer' = [answer EXCEPT ![r] = a]
      /\ seen' = [seen EXCEPT ![r] = life[Key(r)]]
      /\ pc' = [pc EXCEPT ![r] = "done"]
  BY DEF ReplyStep, Respond, Goto
<1>5. \A s \in Requests : Key(s)' = Key(s)
  BY <1>1 DEF Key
<1>6. \A s \in Requests \ {r} : /\ answer'[s] = answer[s] /\ seen'[s] = seen[s] /\ pc'[s] = pc[s]
                                /\ Succeeded(s)' = Succeeded(s) /\ Masked(s)' = Masked(s)
  BY <1>4 DEF TypeOK, Succeeded, Masked
<1>7. answer'[r] = a /\ seen'[r] = life[Key(r)] /\ pc'[r] = "done"
  BY <1>4 DEF TypeOK
<1>8. TypeOK'
  <2>1. answer' \in [Requests -> Answer \cup {None}]
    BY <1>4 DEF TypeOK, ReplyStep
  <2>2. seen' \in [Requests -> Nat]
    BY <1>2, <1>4 DEF TypeOK
  <2>3. pc' \in [Requests -> {"idle", "get", "detect", "put", "winner", "done"}]
    BY <1>4 DEF TypeOK
  <2> QED
    BY <1>1, <1>3, <2>1, <2>2, <2>3 DEF TypeOK
<1>9. LocalInv'
  <2> SUFFICES ASSUME NEW s \in Requests
               PROVE  /\ pc'[s] = "idle" => input'[s] = None
                      /\ pc'[s] # "idle" => input'[s] # None
                      /\ pc'[s] # "done" => answer'[s] = None
                      /\ (InFlight(s)' \/ Succeeded(s)') => \E c \in Configs : ctx'[s] = c[input'[s].tenant]
                      /\ pc'[s] \in {"detect", "put", "winner"} => input'[s].op # "unmask"
                      /\ pc'[s] \in {"put", "winner"} => draft'[s] = new_record(s, input'[s], ctx'[s])
    BY DEF LocalInv
  <2>1. CASE s = r
    BY <1>1, <1>2, <1>7, <2>1 DEF InFlight
  <2>2. CASE s # r
    BY <1>1, <1>6, <2>2 DEF LocalInv, InFlight
  <2> QED
    BY <2>1, <2>2
<1>10. RecordInv'
  <2>1. \A k \in Keys : store'[k] # None =>
          \E w \in Requests, c \in Configs : Writer(w, k)' /\ store'[k] = RecordOf(w, c)'
    BY <1>3
  <2>2. ASSUME NEW s \in Requests, Succeeded(s)'
        PROVE  \E w \in Requests, c \in Configs :
                 Writer(w, Key(s))' /\ answer'[s] \in resolve_record(input'[s], ctx'[s], RecordOf(w, c)')
    <3>1. CASE s = r
      <4>1. store'[Key(r)] # None /\ a \in resolve_record(input[r], ctx[r], store'[Key(r)])
        BY <1>7, <2>2, <3>1 DEF Succeeded, ReplyStep
      <4>2. PICK w \in Requests, c \in Configs : Writer(w, Key(r)) /\ store'[Key(r)] = RecordOf(w, c)'
        BY <1>2, <1>3, <4>1
      <4> QED
        BY <1>1, <1>5, <1>7, <3>1, <4>1, <4>2 DEF Writer, Key
    <3>2. CASE s # r
      <4>1. PICK w \in Requests, c \in Configs :
              Writer(w, Key(s)) /\ answer[s] \in resolve_record(input[s], ctx[s], RecordOf(w, c))
        BY <1>6, <2>2, <3>2 DEF RecordInv
      <4> QED
        BY <1>1, <1>5, <1>6, <3>2, <4>1 DEF Writer, RecordOf, Key
    <3> QED
      BY <3>1, <3>2
  <2> QED
    BY <2>1, <2>2 DEF RecordInv
<1>11. LifeInv'
  <2> SUFFICES ASSUME NEW s \in Requests
               PROVE  IF input'[s] = None THEN seen'[s] = 0 ELSE seen'[s] <= life'[Key(s)']
    BY DEF LifeInv
  <2>1. CASE s = r
    BY <1>1, <1>2, <1>5, <1>7, <2>1 DEF TypeOK
  <2>2. CASE s # r
    BY <1>1, <1>5, <1>6, <2>2 DEF LifeInv
  <2> QED
    BY <2>1, <2>2
<1>12. RetryIdempotent'
  <2> SUFFICES ASSUME NEW s \in Requests, Succeeded(s)', seen'[s] = life'[Key(s)']
               PROVE  /\ store'[Key(s)'] # None
                      /\ answer'[s] \in resolve_record(input'[s], ctx'[s], store'[Key(s)'])
    BY DEF RetryIdempotent, Alive
  <2>1. CASE s = r
    BY <1>1, <1>5, <1>7, <2>1 DEF Succeeded, ReplyStep
  <2>2. CASE s # r
    <3>1. Succeeded(s) /\ Alive(s)
      BY <1>1, <1>5, <1>6, <2>2 DEF Alive
    <3>2. store[Key(s)] # None /\ answer[s] \in resolve_record(input[s], ctx[s], store[Key(s)])
      BY <3>1 DEF RetryIdempotent
    <3>3. Key(s) \in Keys
      BY <3>1, KeyType DEF LocalInv, TypeOK, Key, Succeeded
    <3> QED
      BY <1>1, <1>3, <1>5, <1>6, <2>2, <3>2, <3>3
  <2> QED
    BY <2>1, <2>2
<1>13. OneMaskPerLife'
  <2> SUFFICES ASSUME NEW s \in Requests, NEW q \in Requests,
                      Masked(s)', Masked(q)', Key(s)' = Key(q)', seen'[s] = seen'[q]
               PROVE  /\ input'[s].payload = input'[q].payload
                      /\ answer'[s].text = answer'[q].text
    BY DEF OneMaskPerLife
  <2>1. ASSUME NEW x \in Requests, Masked(x)', seen'[x] = life[Key(x)]
        PROVE  /\ input[x].payload = store'[Key(x)].original_hash
               /\ answer'[x].text = store'[Key(x)].masked
    <3>1. /\ store'[Key(x)] # None
          /\ answer'[x] \in resolve_record(input[x], ctx[x], store'[Key(x)])
      BY <1>1, <1>5, <1>12, <2>1 DEF RetryIdempotent, Alive, Masked
    <3> QED
      BY <2>1, <3>1, ResolveMask DEF Masked, Succeeded
  <2>2. CASE s = r \/ q = r
    <3>1. seen'[s] = life[Key(s)] /\ seen'[q] = life[Key(q)]
      BY <1>5, <1>7, <2>2
    <3> QED
      BY <1>1, <1>5, <2>1, <3>1
  <2>3. CASE s # r /\ q # r
    BY <1>1, <1>5, <1>6, <2>3 DEF OneMaskPerLife
  <2> QED
    BY <2>2, <2>3
<1> QED
  BY <1>8, <1>9, <1>10, <1>11, <1>12, <1>13

\* execute: proceeding to the next await keeps the inductive invariant.
LEMMA MoveKeeps ==
  ASSUME IInv, NEW r \in Requests, NEW to, MoveStep(r, to)
  PROVE  IInv'
<1> USE DEF IInv
<1>1. InFlight(r) /\ UNCHANGED <<config, input, ctx, answer, life, seen>>
  BY DEF MoveStep
<1>2. /\ input[r] \in Input /\ input[r] # None /\ answer[r] = None
      /\ \E c \in Configs : ctx[r] = c[input[r].tenant]
      /\ new_record(r, input[r], ctx[r]) \in Record
  BY <1>1, Served
<1>3. /\ store' \in [Keys -> Record \cup {None}]
      /\ \A k \in Keys : store[k] # None => store'[k] = store[k]
      /\ \A k \in Keys : store'[k] # None =>
           \E w \in Requests, c \in Configs :
             /\ Writer(w, k) /\ Writer(w, k)'
             /\ store'[k] = RecordOf(w, c) /\ store'[k] = RecordOf(w, c)'
  BY <1>1, StoresRecord DEF MoveStep
<1>4. /\ pc' = [pc EXCEPT ![r] = to] /\ to \in {"detect", "put", "winner"}
      /\ draft' \in [Requests -> Record \cup {None}]
      /\ \A s \in Requests \ {r} : draft'[s] = draft[s]
  BY <1>2 DEF MoveStep, Goto, TypeOK
<1>5. TypeOK'
  BY <1>1, <1>3, <1>4 DEF TypeOK
<1>6. LocalInv'
  <2> SUFFICES ASSUME NEW s \in Requests
               PROVE  /\ pc'[s] = "idle" => input'[s] = None
                      /\ pc'[s] # "idle" => input'[s] # None
                      /\ pc'[s] # "done" => answer'[s] = None
                      /\ (InFlight(s)' \/ Succeeded(s)') => \E c \in Configs : ctx'[s] = c[input'[s].tenant]
                      /\ pc'[s] \in {"detect", "put", "winner"} => input'[s].op # "unmask"
                      /\ pc'[s] \in {"put", "winner"} => draft'[s] = new_record(s, input'[s], ctx'[s])
    BY DEF LocalInv
  <2>1. CASE s = r
    <3>1. pc'[s] = to
      BY <1>4, <2>1 DEF TypeOK
    <3> QED
      BY <1>1, <1>2, <1>4, <2>1, <3>1 DEF MoveStep
  <2>2. CASE s # r
    <3>1. pc'[s] = pc[s]
      BY <1>4, <2>2 DEF TypeOK
    <3> QED
      BY <1>1, <1>4, <2>2, <3>1 DEF LocalInv, InFlight, Succeeded
  <2> QED
    BY <2>1, <2>2
<1>7. RecordInv'
  <2>1. \A k \in Keys : store'[k] # None =>
          \E w \in Requests, c \in Configs : Writer(w, k)' /\ store'[k] = RecordOf(w, c)'
    BY <1>3
  <2>2. ASSUME NEW s \in Requests, Succeeded(s)'
        PROVE  \E w \in Requests, c \in Configs :
                 Writer(w, Key(s))' /\ answer'[s] \in resolve_record(input'[s], ctx'[s], RecordOf(w, c)')
    <3>1. PICK w \in Requests, c \in Configs :
            Writer(w, Key(s)) /\ answer[s] \in resolve_record(input[s], ctx[s], RecordOf(w, c))
      BY <1>1, <2>2 DEF RecordInv, Succeeded
    <3> QED
      BY <1>1, <3>1 DEF Writer, RecordOf, Key
  <2> QED
    BY <2>1, <2>2 DEF RecordInv
<1>8. LifeInv' /\ OneMaskPerLife'
  BY <1>1 DEF LifeInv, OneMaskPerLife, Masked, Succeeded, Key
<1>9. RetryIdempotent'
  <2> SUFFICES ASSUME NEW s \in Requests, Succeeded(s), Alive(s)
               PROVE  /\ store'[Key(s)] # None
                      /\ answer[s] \in resolve_record(input[s], ctx[s], store'[Key(s)])
    BY <1>1 DEF RetryIdempotent, Alive, Succeeded, Key
  <2>1. store[Key(s)] # None /\ answer[s] \in resolve_record(input[s], ctx[s], store[Key(s)])
    BY DEF RetryIdempotent
  <2>2. Key(s) \in Keys
    BY KeyType DEF LocalInv, TypeOK, Key, Succeeded
  <2> QED
    BY <1>3, <2>1, <2>2
<1> QED
  BY <1>5, <1>6, <1>7, <1>8, <1>9

\* process, mask, unmask: a request that arrives keeps the invariant.
LEMMA ArriveKeeps ==
  ASSUME IInv, NEW r \in Requests, Arrive(r)
  PROVE  IInv'
<1> USE DEF IInv
<1>1. PICK i \in Input :
        /\ input' = [input EXCEPT ![r] = i]
        /\ \/ /\ pc' = [pc EXCEPT ![r] = "get"]
              /\ ctx' = [ctx EXCEPT ![r] = config[i.tenant]]
              /\ UNCHANGED answer
           \/ /\ pc' = [pc EXCEPT ![r] = "done"]
              /\ answer' = [answer EXCEPT ![r] = Refused("rejected")]
              /\ UNCHANGED ctx
  BY DEF Arrive, Goto
<1>2. pc[r] = "idle" /\ UNCHANGED <<store, config, draft, life, seen>>
  BY DEF Arrive
<1>3. input[r] = None /\ answer[r] = None
  BY <1>2 DEF LocalInv
<1>4. i # None /\ config \in Configs /\ config[i.tenant] \in Policy /\ KeyOf(i) \in Keys
  BY NoneAssumption, PolicyType, KeyType DEF TypeOK
<1>5. Refused("rejected") \in Answer /\ Refused("rejected").code # "ok"
  BY RefusedType DEF Refusals
<1>6. TypeOK'
  BY <1>1, <1>2, <1>4, <1>5 DEF TypeOK
<1>7. input'[r] = i /\ ~Succeeded(r)'
  BY <1>1, <1>3, <1>5 DEF TypeOK, Succeeded
<1>8. \A s \in Requests \ {r} :
        /\ input'[s] = input[s] /\ ctx'[s] = ctx[s] /\ answer'[s] = answer[s] /\ pc'[s] = pc[s]
        /\ Key(s)' = Key(s) /\ Succeeded(s)' = Succeeded(s) /\ Masked(s)' = Masked(s)
  BY <1>1 DEF TypeOK, Succeeded, Masked, Key
<1>9. LocalInv'
  <2> SUFFICES ASSUME NEW s \in Requests
               PROVE  /\ pc'[s] = "idle" => input'[s] = None
                      /\ pc'[s] # "idle" => input'[s] # None
                      /\ pc'[s] # "done" => answer'[s] = None
                      /\ (InFlight(s)' \/ Succeeded(s)') => \E c \in Configs : ctx'[s] = c[input'[s].tenant]
                      /\ pc'[s] \in {"detect", "put", "winner"} => input'[s].op # "unmask"
                      /\ pc'[s] \in {"put", "winner"} => draft'[s] = new_record(s, input'[s], ctx'[s])
    BY DEF LocalInv
  <2>1. CASE s = r
    <3>1. \/ pc'[r] = "get" /\ ctx'[r] = config[i.tenant] /\ answer'[r] = None
          \/ pc'[r] = "done"
      BY <1>1, <1>3 DEF TypeOK
    <3> QED
      BY <1>4, <1>7, <2>1, <3>1 DEF InFlight
  <2>2. CASE s # r
    BY <1>2, <1>8, <2>2 DEF LocalInv, InFlight
  <2> QED
    BY <2>1, <2>2
<1>10. \A w \in Requests, c \in Configs, k \in Keys :
         Writer(w, k) => Writer(w, k)' /\ RecordOf(w, c)' = RecordOf(w, c)
  <2> SUFFICES ASSUME NEW w \in Requests, NEW c \in Configs, NEW k \in Keys, Writer(w, k)
               PROVE  Writer(w, k)' /\ RecordOf(w, c)' = RecordOf(w, c)
    OBVIOUS
  <2>1. w # r
    BY <1>3 DEF Writer
  <2> QED
    BY <1>8, <2>1 DEF Writer, RecordOf, Key
<1>11. RecordInv'
  <2>1. ASSUME NEW k \in Keys, store'[k] # None
        PROVE  \E w \in Requests, c \in Configs : Writer(w, k)' /\ store'[k] = RecordOf(w, c)'
    <3>1. PICK w \in Requests, c \in Configs : Writer(w, k) /\ store[k] = RecordOf(w, c)
      BY <1>2, <2>1 DEF RecordInv
    <3> QED
      BY <1>2, <1>10, <3>1
  <2>2. ASSUME NEW s \in Requests, Succeeded(s)'
        PROVE  \E w \in Requests, c \in Configs :
                 Writer(w, Key(s))' /\ answer'[s] \in resolve_record(input'[s], ctx'[s], RecordOf(w, c)')
    <3>1. s # r /\ Succeeded(s)
      BY <1>7, <1>8, <2>2
    <3>2. PICK w \in Requests, c \in Configs :
            Writer(w, Key(s)) /\ answer[s] \in resolve_record(input[s], ctx[s], RecordOf(w, c))
      BY <3>1 DEF RecordInv
    <3>3. Key(s) \in Keys
      BY <3>1, KeyType DEF LocalInv, TypeOK, Key, Succeeded
    <3>4. Writer(w, Key(s))' /\ RecordOf(w, c)' = RecordOf(w, c)
      BY <1>8, <1>10, <3>1, <3>2, <3>3 DEF Writer
    <3> QED
      BY <1>8, <3>1, <3>2, <3>4
  <2> QED
    BY <2>1, <2>2 DEF RecordInv
<1>12. LifeInv'
  <2> SUFFICES ASSUME NEW s \in Requests
               PROVE  IF input'[s] = None THEN seen'[s] = 0 ELSE seen'[s] <= life'[Key(s)']
    BY DEF LifeInv
  <2>1. CASE s = r
    <3>1. seen[r] = 0
      BY <1>3 DEF LifeInv
    <3> QED
      BY <1>2, <1>4, <1>7, <2>1, <3>1 DEF Key, TypeOK
  <2>2. CASE s # r
    BY <1>2, <1>8, <2>2 DEF LifeInv
  <2> QED
    BY <2>1, <2>2
<1>13. RetryIdempotent'
  BY <1>2, <1>7, <1>8 DEF RetryIdempotent, Alive
<1>14. OneMaskPerLife'
  BY <1>2, <1>7, <1>8 DEF OneMaskPerLife, Masked
<1> QED
  BY <1>6, <1>9, <1>11, <1>12, <1>13, <1>14

\* Vault TTL, failover, restart: records that go away keep the invariant, and
\* so does a process restart that leaves its open requests without an answer.
LEMMA ForgetKeeps ==
  ASSUME IInv, (\E k \in Keys : Lose(k)) \/ Restart
  PROVE  IInv'
<1> USE DEF IInv
<1>1. /\ UNCHANGED <<input, ctx, draft, seen>>
      /\ config' \in Configs
      /\ store' \in [Keys -> Record \cup {None}] /\ life' \in [Keys -> Nat]
      /\ pc' \in [Requests -> {"idle", "get", "detect", "put", "winner", "done"}]
      /\ answer' \in [Requests -> Answer \cup {None}]
  <2>1. CASE \E k \in Keys : Lose(k)
    BY <2>1 DEF Lose, TypeOK
  <2>2. CASE Restart
    <3>1. Refused("lost") \in Answer
      BY RefusedType DEF Refusals
    <3> QED
      BY <2>2, <3>1 DEF Restart, TypeOK
  <2> QED
    BY <2>1, <2>2
<1>2. \A k \in Keys : \/ store'[k] = store[k] /\ life'[k] = life[k]
                      \/ store'[k] = None /\ life'[k] = life[k] + 1
  <2>1. CASE \E k \in Keys : Lose(k)
    BY <2>1 DEF Lose, TypeOK
  <2>2. CASE Restart
    BY <2>2 DEF Restart, TypeOK
  <2> QED
    BY <2>1, <2>2
<1>3. \A s \in Requests : \/ pc'[s] = pc[s] /\ answer'[s] = answer[s]
                          \/ InFlight(s) /\ pc'[s] = "done" /\ answer'[s] = Refused("lost")
  <2>1. CASE \E k \in Keys : Lose(k)
    BY <2>1 DEF Lose
  <2>2. CASE Restart
    BY <2>2 DEF Restart, TypeOK
  <2> QED
    BY <2>1, <2>2
<1>4. \A s \in Requests : Key(s)' = Key(s)
  BY <1>1 DEF Key
<1>5. \A s \in Requests : Succeeded(s)' => Succeeded(s) /\ answer'[s] = answer[s]
  <2>1. Refused("lost").code # "ok"
    BY RefusedType DEF Refusals
  <2> QED
    BY <1>3, <2>1 DEF Succeeded
<1>6. \A s \in Requests : input[s] # None => Key(s) \in Keys
  BY KeyType DEF TypeOK, Key
<1>7. TypeOK'
  BY <1>1 DEF TypeOK
<1>8. LocalInv'
  <2> SUFFICES ASSUME NEW s \in Requests
               PROVE  /\ pc'[s] = "idle" => input'[s] = None
                      /\ pc'[s] # "idle" => input'[s] # None
                      /\ pc'[s] # "done" => answer'[s] = None
                      /\ (InFlight(s)' \/ Succeeded(s)') => \E c \in Configs : ctx'[s] = c[input'[s].tenant]
                      /\ pc'[s] \in {"detect", "put", "winner"} => input'[s].op # "unmask"
                      /\ pc'[s] \in {"put", "winner"} => draft'[s] = new_record(s, input'[s], ctx'[s])
    BY DEF LocalInv
  <2> QED
    BY <1>1, <1>3, <1>5 DEF LocalInv, InFlight
<1>9. RecordInv'
  <2>1. ASSUME NEW k \in Keys, store'[k] # None
        PROVE  \E w \in Requests, c \in Configs : Writer(w, k)' /\ store'[k] = RecordOf(w, c)'
    <3>1. PICK w \in Requests, c \in Configs : Writer(w, k) /\ store'[k] = RecordOf(w, c)
      BY <1>2, <2>1 DEF RecordInv
    <3> QED
      BY <1>1, <3>1 DEF Writer, RecordOf, Key
  <2>2. ASSUME NEW s \in Requests, Succeeded(s)'
        PROVE  \E w \in Requests, c \in Configs :
                 Writer(w, Key(s))' /\ answer'[s] \in resolve_record(input'[s], ctx'[s], RecordOf(w, c)')
    <3>1. PICK w \in Requests, c \in Configs :
            Writer(w, Key(s)) /\ answer'[s] \in resolve_record(input[s], ctx[s], RecordOf(w, c))
      BY <1>5, <2>2 DEF RecordInv
    <3> QED
      BY <1>1, <3>1 DEF Writer, RecordOf, Key
  <2> QED
    BY <2>1, <2>2 DEF RecordInv
<1>10. LifeInv'
  <2> SUFFICES ASSUME NEW s \in Requests
               PROVE  IF input[s] = None THEN seen[s] = 0 ELSE seen[s] <= life'[Key(s)]
    BY <1>1, <1>4 DEF LifeInv
  <2>1. CASE input[s] = None
    BY <2>1 DEF LifeInv
  <2>2. CASE input[s] # None
    <3>1. seen[s] <= life[Key(s)] /\ seen[s] \in Nat /\ life[Key(s)] \in Nat
      BY <1>6, <2>2 DEF LifeInv, TypeOK
    <3> QED
      BY <1>2, <1>6, <2>2, <3>1
  <2> QED
    BY <2>1, <2>2
<1>11. RetryIdempotent'
  <2> SUFFICES ASSUME NEW s \in Requests, Succeeded(s)', seen[s] = life'[Key(s)]
               PROVE  /\ store'[Key(s)] # None
                      /\ answer'[s] \in resolve_record(input[s], ctx[s], store'[Key(s)])
    BY <1>1, <1>4 DEF RetryIdempotent, Alive
  <2>1. Succeeded(s) /\ answer'[s] = answer[s]
    BY <1>5
  <2>2. input[s] # None /\ Key(s) \in Keys
    BY <1>6, <2>1 DEF LocalInv, Succeeded
  <2>3. seen[s] <= life[Key(s)] /\ seen[s] \in Nat /\ life[Key(s)] \in Nat
    BY <2>2 DEF LifeInv, TypeOK
  <2>4. store'[Key(s)] = store[Key(s)] /\ life'[Key(s)] = life[Key(s)]
    BY <1>2, <2>2, <2>3
  <2> QED
    BY <2>1, <2>4 DEF RetryIdempotent, Alive
<1>12. OneMaskPerLife'
  <2>1. \A s \in Requests : Masked(s)' => Masked(s) /\ answer'[s] = answer[s]
    BY <1>5 DEF Masked
  <2> QED
    BY <1>1, <1>4, <2>1 DEF OneMaskPerLife
<1> QED
  BY <1>7, <1>8, <1>9, <1>10, <1>11, <1>12

-----------------------------------------------------------------------------
(* The invariant holds.                                                    *)

\* Every step of a request that is being served has one of the two shapes.
LEMMA ServeShapes ==
  ASSUME IInv, NEW r \in Requests, Serve(r) \/ Abandon(r)
  PROVE  (\E a : ReplyStep(r, a)) \/ (\E to : MoveStep(r, to))
<1> USE DEF IInv
<1>1. InFlight(r)
  BY DEF Serve, Abandon, Read, Detect, PutMemory, SetNX, SetReplyLost, ReadWinner, VaultFails, InFlight
<1>2. /\ input[r] \in Input /\ ctx[r] \in Policy /\ Key(r) \in Keys
      /\ new_record(r, input[r], ctx[r]) \in Record
  BY <1>1, Served
<1>3. \A c \in Refusals : Refused(c) \in Answer /\ Refused(c).code # "ok"
  BY RefusedType
<1>4. {"mapping_expired", "cpu_busy", "temporarily_unavailable", "vault_full", "lost"} \subseteq Refusals
  BY DEF Refusals
<1>5. ASSUME store[Key(r)] # None
      PROVE  store[Key(r)] \in Record
  BY <1>2, <1>5 DEF TypeOK
<1>6. CASE Read(r)
  <2>1. \A a \in resolve_record(input[r], ctx[r], store[Key(r)]) :
          store[Key(r)] # None => a \in Answer
    BY <1>2, <1>5, ResolveType
  <2>2. draft' = draft => draft' = [draft EXCEPT ![r] = draft'[r]]
    BY DEF TypeOK
  <2> QED
    BY <1>1, <1>3, <1>4, <1>6, <2>1, <2>2 DEF Read, ReplyStep, MoveStep
<1>7. CASE Detect(r)
  <2>1. pc[r] = "detect" /\ input[r].op # "unmask"
    BY <1>7 DEF Detect, LocalInv
  <2>2. CASE draft' = [draft EXCEPT ![r] = new_record(r, input[r], ctx[r])] /\ Goto(r, "put") /\ UNCHANGED <<answer, seen>>
    <3>1. draft'[r] = new_record(r, input[r], ctx[r])
      BY <2>2 DEF TypeOK
    <3>2. MoveStep(r, "put")
      BY <1>1, <1>7, <2>1, <2>2, <3>1 DEF Detect, MoveStep
    <3> QED
      BY <3>2
  <2>3. CASE (\E c \in {"cpu_busy", "temporarily_unavailable"} : Respond(r, Refused(c))) /\ UNCHANGED draft
    BY <1>1, <1>3, <1>4, <1>7, <2>3 DEF Detect, ReplyStep
  <2> QED
    BY <1>7, <2>2, <2>3 DEF Detect
<1>8. ASSUME pc[r] \in {"put", "winner"}
      PROVE  /\ input[r].op # "unmask" /\ draft[r] = new_record(r, input[r], ctx[r])
             /\ confirm(input[r], ctx[r], draft[r]) \in Answer
             /\ confirm(input[r], ctx[r], draft[r]).code = "ok" =>
                  confirm(input[r], ctx[r], draft[r]) \in resolve_record(input[r], ctx[r], draft[r])
             /\ store[Key(r)] # None =>
                  /\ confirm(input[r], ctx[r], store[Key(r)]) \in Answer
                  /\ confirm(input[r], ctx[r], store[Key(r)]).code = "ok" =>
                       confirm(input[r], ctx[r], store[Key(r)])
                         \in resolve_record(input[r], ctx[r], store[Key(r)])
  <2>1. input[r].op # "unmask" /\ draft[r] = new_record(r, input[r], ctx[r])
    BY <1>8 DEF LocalInv
  <2> QED
    BY <1>2, <1>5, <2>1, ConfirmResolves
<1>9. ASSUME pc[r] = "put", store' = [store EXCEPT ![Key(r)] = draft[r]]
      PROVE  store'[Key(r)] = draft[r] /\ draft[r] # None
  BY <1>2, <1>8, <1>9, NoneIsNoRecord DEF TypeOK
<1>10. CASE PutMemory(r)
  BY <1>1, <1>3, <1>4, <1>8, <1>9, <1>10 DEF PutMemory, ReplyStep, Stores
<1>11. CASE SetNX(r)
  <2>1. draft' = draft => draft' = [draft EXCEPT ![r] = draft'[r]]
    BY DEF TypeOK
  <2> QED
    BY <1>1, <1>8, <1>9, <1>11, <2>1 DEF SetNX, ReplyStep, MoveStep, Stores
<1>12. CASE SetReplyLost(r)
  <2>1. draft' = draft => draft' = [draft EXCEPT ![r] = draft'[r]]
    BY DEF TypeOK
  <2> QED
    BY <1>1, <1>3, <1>4, <1>8, <1>12, <2>1 DEF SetReplyLost, ReplyStep, MoveStep, Stores
<1>13. CASE ReadWinner(r)
  BY <1>1, <1>3, <1>4, <1>8, <1>13 DEF ReadWinner, ReplyStep
<1>14. CASE VaultFails(r) \/ Abandon(r)
  BY <1>1, <1>3, <1>4, <1>14 DEF VaultFails, Abandon, ReplyStep
<1> QED
  BY <1>6, <1>7, <1>10, <1>11, <1>12, <1>13, <1>14 DEF Serve

\* Init: the initial states satisfy the inductive invariant.
LEMMA InitHolds ==
  ASSUME Init
  PROVE  IInv
<1>1. TypeOK
  BY DEF Init, TypeOK
<1>2. LocalInv /\ RecordInv /\ LifeInv /\ RetryIdempotent /\ OneMaskPerLife
  BY DEF Init, LocalInv, RecordInv, LifeInv, RetryIdempotent, OneMaskPerLife,
         InFlight, Succeeded, Masked
<1> QED
  BY <1>1, <1>2 DEF IInv

\* Next: every step keeps the inductive invariant.
LEMMA StepKeeps ==
  ASSUME IInv, [Next]_vars
  PROVE  IInv'
<1>1. ASSUME NEW r \in Requests, Arrive(r)
      PROVE  IInv'
  BY <1>1, ArriveKeeps
<1>2. ASSUME NEW r \in Requests, Serve(r) \/ Abandon(r)
      PROVE  IInv'
  <2>1. (\E a : ReplyStep(r, a)) \/ (\E to : MoveStep(r, to))
    BY <1>2, ServeShapes
  <2> QED
    BY <2>1, ReplyKeeps, MoveKeeps
<1>3. CASE (\E k \in Keys : Lose(k)) \/ Restart
  BY <1>3, ForgetKeeps
<1>4. CASE Redeploy
  <2>1. /\ config' \in Configs
        /\ UNCHANGED <<store, pc, input, ctx, draft, answer, life, seen>>
    BY <1>4 DEF Redeploy
  <2> QED
    BY <2>1 DEF IInv, TypeOK, LocalInv, RecordInv, LifeInv, RetryIdempotent, OneMaskPerLife,
                InFlight, Succeeded, Masked, Alive, Writer, RecordOf, Key
<1>5. CASE UNCHANGED vars
  BY <1>5 DEF vars, IInv, TypeOK, LocalInv, RecordInv, LifeInv, RetryIdempotent, OneMaskPerLife,
              InFlight, Succeeded, Masked, Alive, Writer, RecordOf, Key
<1> QED
  BY <1>1, <1>2, <1>3, <1>4, <1>5 DEF Next

\* The inductive invariant holds in every reachable state.
LEMMA InvariantHolds == Spec => []IInv
  BY InitHolds, StepKeeps, PTL DEF Spec

\* Type correctness of the request path.
THEOREM TypeCorrect == Spec => []TypeOK
<1>1. IInv => TypeOK
  BY DEF IInv
<1> QED
  BY <1>1, InvariantHolds, PTL

\* put_if_absent, _resolve_record: for any number of concurrent requests, all
\* that had a text masked under one key within one record's life sent the same
\* text and were given the same mask.
THEOREM OneMask == Spec => []OneMaskPerLife
<1>1. IInv => OneMaskPerLife
  BY DEF IInv
<1> QED
  BY <1>1, InvariantHolds, PTL

\* execute: a successful request that is repeated while its record lives is
\* answered as before.
THEOREM RetriesAgree == Spec => []RetryIdempotent
<1>1. IInv => RetryIdempotent
  BY DEF IInv
<1> QED
  BY <1>1, InvariantHolds, PTL

\* mask: a sensitive text that is transformed never stays as it was.
LEMMA MaskHides ==
  ASSUME NEW w \in Requests, NEW i \in Input, NEW p \in Policy,
         p.masking_enabled, i.payload.form = "plain", i.payload.of \in Sensitive
  PROVE  new_record(w, i, p).masked.form # "plain"
<1>1. mode_of(i, p) \in Modes /\ mode_of(i, p) # "plain"
  BY ModeType, TextsAssumption
<1>2. select_spans(i.payload, p)
  BY DEF select_spans
<1>3. new_record(w, i, p).masked = mask_text(i.payload, select_spans(i.payload, p), mode_of(i, p), w)
  BY DEF new_record
<1> QED
  BY <1>1, <1>2, <1>3 DEF mask_text, Tokenized, Covered

\* execute: tenants whose policies always mask never get a raw sensitive text
\* back from a request that did not restore.
THEOREM NeverRaw == Spec => []FailClosed
<1>1. ASSUME IInv
      PROVE  FailClosed
  <2> USE <1>1 DEF IInv
  <2> SUFFICES ASSUME NEW r \in Requests, Masked(r),
                      \A c \in Configs : c[input[r].tenant].masking_enabled,
                      answer[r].text.form = "plain", answer[r].text.of \in Sensitive
               PROVE  FALSE
    BY DEF FailClosed
  <2>1. PICK w \in Requests, c \in Configs :
          /\ Writer(w, Key(r))
          /\ answer[r] \in resolve_record(input[r], ctx[r], RecordOf(w, c))
    BY DEF RecordInv, Masked
  <2>2. /\ input[r].payload = RecordOf(w, c).original_hash
        /\ answer[r].text = RecordOf(w, c).masked
    BY <2>1, ResolveMask DEF Masked, Succeeded
  <2>3. input[w] \in Input /\ input[w].tenant = input[r].tenant
    BY <2>1 DEF Writer, TypeOK, Key, KeyOf
  <2>4. c[input[w].tenant] \in Policy /\ c[input[w].tenant].masking_enabled
    BY <2>3, PolicyType
  <2>5. CASE select_spans(input[w].payload, c[input[w].tenant])
    BY <2>2, <2>3, <2>4, <2>5, MaskHides DEF RecordOf, select_spans
  <2>6. CASE ~select_spans(input[w].payload, c[input[w].tenant])
    <3>1. RecordOf(w, c).masked = input[w].payload
      BY <2>6 DEF RecordOf, new_record, mask_text
    <3> QED
      BY <2>2, <2>4, <2>6, <3>1 DEF select_spans
  <2> QED
    BY <2>5, <2>6
<1> QED
  BY <1>1, InvariantHolds, PTL

\* put_if_absent: the record of a key is never overwritten.
THEOREM NeverOverwritten == Spec => WriteOnce
<1>1. ASSUME IInv, [Next]_vars
      PROVE  [\A k \in Keys : store[k] # None => store'[k] \in {store[k], None}]_vars
  <2> USE <1>1 DEF IInv
  <2> SUFFICES ASSUME NEW k \in Keys, store[k] # None, Next
               PROVE  store'[k] \in {store[k], None}
    BY <1>1
  <2>1. ASSUME NEW r \in Requests, Serve(r) \/ Abandon(r)
        PROVE  store'[k] = store[k]
    <3>1. (\E a : ReplyStep(r, a)) \/ (\E to : MoveStep(r, to))
      BY <2>1, ServeShapes
    <3>2. InFlight(r) /\ UNCHANGED input /\ (UNCHANGED store \/ Stores(r))
      BY <3>1 DEF ReplyStep, MoveStep
    <3> QED
      BY <3>2, StoresRecord
  <2>2. ASSUME NEW r \in Requests, Arrive(r)
        PROVE  store'[k] = store[k]
    BY <2>2 DEF Arrive
  <2>3. CASE (\E j \in Keys : Lose(j)) \/ Redeploy \/ Restart
    BY <2>3 DEF Lose, Redeploy, Restart, TypeOK
  <2> QED
    BY <2>1, <2>2, <2>3 DEF Next
<1> QED
  BY <1>1, InvariantHolds, PTL DEF Spec, WriteOnce

-----------------------------------------------------------------------------
(* Restoration, for deployments that do not change who may restore.        *)

\* mask, restore_exact: a record built under a policy that permits restoring
\* restores to the text it was built for.
LEMMA BuiltRestores ==
  ASSUME NEW w \in Requests, NEW i \in Input, NEW p \in Policy, p.allow_unmask
  PROVE  /\ restore_exact(new_record(w, i, p)) = i.payload
         /\ new_record(w, i, p).original_hash = i.payload
         /\ new_record(w, i, p).masked_hash = new_record(w, i, p).masked
         /\ new_record(w, i, p).replacements \in {i.payload, None}
         /\ new_record(w, i, p).replacements # None => select_spans(i.payload, p)
<1>1. i.payload # None
  BY NoneAssumption DEF Input
<1>2. CASE select_spans(i.payload, p)
  BY <1>1, <1>2 DEF new_record, restore_exact
<1>3. CASE ~select_spans(i.payload, p)
  BY <1>3 DEF new_record, restore_exact, mask_text
<1> QED
  BY <1>2, <1>3

\* /process: as long as deployments leave the right to restore alone, a mask
\* that is sent back while its record lives is answered with its text.
THEOREM MasksComeBack ==
  ASSUME StableUnmask
  PROVE  Spec => []RoundTrip
<1>1. ASSUME IInv
      PROVE  RoundTrip
  <2> USE <1>1 DEF IInv
  <2> SUFFICES ASSUME NEW r \in Requests, NEW c \in Configs,
                      Masked(r), Alive(r), c[input[r].tenant].allow_unmask
               PROVE  LET back == [input[r] EXCEPT !.op = "process", !.mode = None, !.payload = answer[r].text]
                      IN /\ store[Key(r)] # None
                         /\ {a.text : a \in resolve_record(back, c[input[r].tenant], store[Key(r)])}
                              = {input[r].payload}
    BY DEF RoundTrip
  <2> DEFINE rec  == store[Key(r)]
             back == [input[r] EXCEPT !.op = "process", !.mode = None, !.payload = answer[r].text]
             p    == c[input[r].tenant]
  <2>1. rec # None /\ answer[r] \in resolve_record(input[r], ctx[r], rec)
    BY DEF RetryIdempotent, Masked
  <2>2. input[r].payload = rec.original_hash /\ answer[r].text = rec.masked
    BY <2>1, ResolveMask DEF Masked, Succeeded
  <2>3. input[r] \in Input /\ Key(r) \in Keys
    BY KeyType DEF LocalInv, TypeOK, Key, Masked, Succeeded
  <2>4. PICK w \in Requests, d \in Configs : Writer(w, Key(r)) /\ rec = RecordOf(w, d)
    BY <2>1, <2>3 DEF RecordInv
  <2>5. input[w] \in Input /\ input[w].tenant = input[r].tenant
    BY <2>4 DEF Writer, TypeOK, Key, KeyOf
  <2>6. d[input[w].tenant] \in Policy /\ d[input[w].tenant].allow_unmask
    BY <2>3, <2>5, PolicyType DEF StableUnmask, Input
  <2>7. restore_exact(rec) = rec.original_hash /\ rec.masked_hash = rec.masked
    BY <2>4, <2>5, <2>6, BuiltRestores DEF RecordOf
  <2>8. back.op = "process" /\ back.payload = rec.masked
    BY <2>2, <2>3 DEF Input
  <2>9. CASE rec.masked # rec.original_hash
    <3>1. resolve_record(back, p, rec) = {Ok("unmask", rec.original_hash)}
      BY <2>7, <2>8, <2>9 DEF resolve_record, restores, restore_record
    <3>2. {a.text : a \in {Ok("unmask", rec.original_hash)}} = {rec.original_hash}
      BY DEF Ok
    <3> QED
      BY <2>1, <2>2, <3>1, <3>2
  <2>10. CASE rec.masked = rec.original_hash
    <3>1. resolve_record(back, p, rec) = {Ok("mask", rec.original_hash)}
      BY <2>7, <2>8, <2>10 DEF resolve_record, restores
    <3>2. {a.text : a \in {Ok("mask", rec.original_hash)}} = {rec.original_hash}
      BY DEF Ok
    <3> QED
      BY <2>1, <2>2, <3>1, <3>2
  <2> QED
    BY <2>9, <2>10
<1> QED
  BY <1>1, InvariantHolds, PTL

\* _restore_record: the shapes of a successful restoration.
LEMMA ResolveUnmask ==
  ASSUME NEW i, NEW p, NEW rec, NEW a \in resolve_record(i, p, rec),
         a.code = "ok", a.dir # "mask"
  PROVE  /\ a.dir = "unmask" /\ p.allow_unmask
         /\ i.op # "unmask" => /\ i.op = "process" /\ i.payload = rec.masked_hash
                               /\ i.payload # rec.original_hash
         /\ \/ i.payload = rec.masked_hash /\ a.text = restore_exact(rec)
            \/ /\ i.op = "unmask" /\ rec.mode = "token" /\ rec.replacements # None
               /\ i.payload = Edited(rec.masked) /\ a.text = Filled(rec.replacements)
  BY DEF resolve_record, restore_record, restore_tokens, restores, Ok, Refused

\* _restore_record: a restored text was sent for masking under the same key.
THEOREM RestoresOwn ==
  ASSUME StableUnmask
  PROVE  Spec => []RestoresOwnTextOnly
<1>1. ASSUME IInv
      PROVE  RestoresOwnTextOnly
  <2> USE <1>1 DEF IInv
  <2> SUFFICES ASSUME NEW r \in Requests, Succeeded(r), answer[r].dir = "unmask"
               PROVE  \E s \in Requests \ {r} :
                        /\ input[s] # None /\ input[s].op # "unmask"
                        /\ input[s].tenant = input[r].tenant /\ input[s].id = input[r].id
                        /\ answer[r].text \in {input[s].payload, Filled(input[s].payload)}
    BY DEF RestoresOwnTextOnly
  <2>1. PICK w \in Requests, d \in Configs :
          /\ Writer(w, Key(r))
          /\ answer[r] \in resolve_record(input[r], ctx[r], RecordOf(w, d))
    BY DEF RecordInv
  <2>2. input[r] \in Input /\ input[w] \in Input /\ input[w].tenant = input[r].tenant
    BY <2>1 DEF Writer, TypeOK, Key, KeyOf, LocalInv, Succeeded
  <2>3. PICK e \in Configs : ctx[r] = e[input[r].tenant]
    BY DEF LocalInv
  <2>4. d[input[w].tenant] \in Policy
    BY <2>2, PolicyType
  <2>5. ctx[r].allow_unmask
    BY <2>1, ResolveUnmask DEF Succeeded
  <2>6. d[input[w].tenant].allow_unmask
    BY <2>2, <2>3, <2>5 DEF StableUnmask, Input
  <2>7. /\ restore_exact(RecordOf(w, d)) = input[w].payload
        /\ RecordOf(w, d).original_hash = input[w].payload
        /\ RecordOf(w, d).replacements \in {input[w].payload, None}
    BY <2>2, <2>4, <2>6, BuiltRestores DEF RecordOf
  <2>8. answer[r].text \in {input[w].payload, Filled(input[w].payload)}
    BY <2>1, <2>7, ResolveUnmask DEF Succeeded
  <2>9. w # r
    BY <2>1, <2>7, ResolveUnmask DEF Succeeded, Writer
  <2> QED
    BY <2>1, <2>8, <2>9 DEF Writer, Key, KeyOf
<1> QED
  BY <1>1, InvariantHolds, PTL

-----------------------------------------------------------------------------
(* The request path implements the atomic specification Correlation.       *)

\* _resolve_record: a success computed from a stored record is one that the
\* record's pair justifies.
LEMMA ResolveJustified ==
  ASSUME IInv, StableUnmask, NEW r \in Requests, InFlight(r),
         NEW w \in Requests, NEW d \in Configs, Writer(w, Key(r)),
         NEW a \in resolve_record(input[r], ctx[r], RecordOf(w, d)), a.code = "ok",
         a \in Answer
  PROVE  a \in Promise!Justified(input[r], PairOf(RecordOf(w, d)))
<1> USE DEF IInv
<1> DEFINE rec == RecordOf(w, d)
<1>1. /\ input[r] \in Input /\ ctx[r] \in Policy
      /\ \E e \in Configs : ctx[r] = e[input[r].tenant]
  BY Served
<1>2. input[w] \in Input /\ input[w].tenant = input[r].tenant
  BY <1>1 DEF Writer, TypeOK, Key, KeyOf
<1>3. d[input[w].tenant] \in Policy
  BY <1>2, PolicyType
<1>4. rec \in Record
  BY <1>2, <1>3, RecordType DEF RecordOf
<1>5. PairOf(rec) = [original |-> rec.original_hash, masked |-> rec.masked]
  BY <1>4, NoneIsNoRecord DEF PairOf
<1>6. PairOf(rec).original = rec.original_hash /\ PairOf(rec).masked = rec.masked
  BY <1>5
<1>7. a = Ok(a.dir, a.text)
  BY RefusedType DEF Answer, Ok, Refusals
<1>8. CASE a.dir = "mask"
  <2>1. input[r].payload = rec.original_hash /\ a.text = rec.masked /\ input[r].op # "unmask"
    BY <1>8, ResolveMask
  <2> QED
    BY <1>6, <1>7, <1>8, <2>1 DEF Promise!Justified, Promise!Ok, Ok
<1>9. CASE a.dir # "mask"
  <2>1. /\ a.dir = "unmask" /\ ctx[r].allow_unmask
        /\ input[r].op # "unmask" => input[r].op = "process" /\ input[r].payload = rec.masked_hash
        /\ \/ input[r].payload = rec.masked_hash /\ a.text = restore_exact(rec)
           \/ /\ input[r].op = "unmask" /\ rec.replacements # None
              /\ input[r].payload = Edited(rec.masked) /\ a.text = Filled(rec.replacements)
              /\ rec.mode = "token"
    BY <1>9, ResolveUnmask
  <2>2. d[input[w].tenant].allow_unmask
    BY <1>1, <1>2, <2>1 DEF StableUnmask, Input
  <2>3. /\ restore_exact(rec) = rec.original_hash /\ rec.masked_hash = rec.masked
        /\ rec.replacements \in {rec.original_hash, None}
        /\ rec.replacements # None => select_spans(input[w].payload, d[input[w].tenant])
    BY <1>2, <1>3, <2>2, BuiltRestores DEF RecordOf
  <2>4. CASE input[r].payload = rec.masked_hash /\ a.text = restore_exact(rec)
    <3>1. input[r].op # "mask"
      BY <2>1
    <3> QED
      BY <1>6, <1>7, <2>1, <2>3, <2>4, <3>1 DEF Promise!Justified, Promise!Ok, Ok
  <2>5. CASE /\ input[r].op = "unmask" /\ rec.replacements # None
             /\ input[r].payload = Edited(rec.masked) /\ a.text = Filled(rec.replacements)
             /\ rec.mode = "token"
    <3>1. rec.masked.form = "token"
      BY <2>3, <2>5 DEF RecordOf, new_record, mask_text, Tokenized
    <3> QED
      BY <1>6, <1>7, <2>1, <2>3, <2>5, <3>1
      DEF Promise!Justified, Promise!Ok, Ok, Promise!Edited, Edited, Promise!Filled, Filled
  <2> QED
    BY <2>1, <2>4, <2>5
<1> QED
  BY <1>8, <1>9

\* put_if_absent: writing a record binds the pair of the request's key.
LEMMA StoreBinds ==
  ASSUME IInv, NEW r \in Requests, InFlight(r), UNCHANGED input, Stores(r)
  PROVE  Promise!Bind(r)
<1> USE DEF IInv
<1>1. Key(r) \in Keys /\ input[r] \in Input /\ new_record(r, input[r], ctx[r]) \in Record
  BY Served
<1>2. draft[r] = new_record(r, input[r], ctx[r]) /\ input[r].op # "unmask"
  BY DEF Stores, LocalInv
<1>3. draft[r] # None /\ draft[r].masked \in Text /\ draft[r].original_hash = input[r].payload
  BY <1>1, <1>2, NoneIsNoRecord DEF Record, new_record
<1>4. PairOf(draft[r]) = [original |-> input[r].payload, masked |-> draft[r].masked]
  BY <1>3 DEF PairOf
<1>5. store[Key(r)] = None /\ store' = [store EXCEPT ![Key(r)] = draft[r]]
  BY DEF Stores
<1>6. [k \in Keys |-> PairOf(store'[k])]
        = [[k \in Keys |-> PairOf(store[k])] EXCEPT ![Key(r)] = PairOf(draft[r])]
  BY <1>1, <1>5 DEF TypeOK
<1>7. PairOf(store[Key(r)]) = None
  BY <1>5 DEF PairOf
<1> QED
  BY <1>1, <1>2, <1>3, <1>4, <1>6, <1>7
  DEF Promise!Bind, Promise!KeyOf, Promise!Keys, Promise!Text, Key, KeyOf, Keys, Text

\* execute: answering a request is one atomic step of Correlation.
LEMMA ReplyRefines ==
  ASSUME IInv, StableUnmask, NEW r \in Requests, NEW a, ReplyStep(r, a)
  PROVE  Promise!CAnswer(r) \/ Promise!CRefuse(r)
<1> USE DEF IInv
<1>1. InFlight(r) /\ UNCHANGED input /\ a \in Answer /\ (UNCHANGED store \/ Stores(r))
  BY DEF ReplyStep
<1>2. Key(r) \in Keys /\ input[r] # None /\ answer[r] = None
  BY <1>1, Served
<1>3. answer' = [answer EXCEPT ![r] = a]
  BY DEF ReplyStep, Respond
<1>4. UNCHANGED [k \in Keys |-> PairOf(store[k])] \/ Promise!Bind(r)
  BY <1>1, StoreBinds
<1>5. Promise!Open(r)
  BY <1>2 DEF Promise!Open
<1>6. CASE a.code = "ok"
  <2>1. store'[Key(r)] # None /\ a \in resolve_record(input[r], ctx[r], store'[Key(r)])
    BY <1>6 DEF ReplyStep
  <2>2. PICK w \in Requests, d \in Configs : Writer(w, Key(r)) /\ store'[Key(r)] = RecordOf(w, d)
    BY <1>1, <1>2, <2>1, StoresRecord
  <2>3. a \in Promise!Justified(input[r], PairOf(store'[Key(r)]))
    BY <1>1, <1>6, <2>1, <2>2, ResolveJustified
  <2>4. PairOf(store'[Key(r)]) # None
    <3>1. PairOf(store'[Key(r)]).original = store'[Key(r)].original_hash
      BY <2>1 DEF PairOf
    <3>2. PairOf(store'[Key(r)]) \in [original: Text, masked: Text]
      BY <1>1, <1>2, <2>1, StoresRecord DEF PairOf, Record
    <3> QED
      BY <3>2, NoneIsNoPair
  <2> QED
    BY <1>1, <1>2, <1>3, <1>4, <1>5, <2>3, <2>4
    DEF Promise!CAnswer, Promise!KeyOf, Key, KeyOf
<1>7. CASE a.code # "ok"
  <2>1. \E c \in Refusals : a = Refused(c)
    BY <1>1, <1>7 DEF Answer, Refused
  <2> QED
    BY <1>1, <1>3, <1>4, <1>5, <2>1
    DEF Promise!CRefuse, Promise!Refusals, Refusals, Promise!Refused, Refused
<1> QED
  BY <1>6, <1>7

\* execute: the answers of concurrent requests are those of requests served
\* atomically, for every deployment that leaves the right to restore alone.
THEOREM Implementation ==
  ASSUME StableUnmask
  PROVE  Spec => ImplementsCorrelation
<1>1. Init => Promise!CInit
  BY DEF Init, Promise!CInit, PairOf, Promise!Keys, Keys
<1>2. ASSUME IInv, [Next]_vars
      PROVE  [Promise!CNext]_(Promise!cvars)
  <2> USE <1>2 DEF IInv
  <2>1. ASSUME NEW r \in Requests, Serve(r) \/ Abandon(r)
        PROVE  [Promise!CNext]_(Promise!cvars)
    <3>1. ASSUME NEW a, ReplyStep(r, a)
          PROVE  Promise!CNext
      BY <3>1, ReplyRefines DEF Promise!CNext
    <3>2. ASSUME NEW to, MoveStep(r, to)
          PROVE  [Promise!CNext]_(Promise!cvars)
      <4>1. InFlight(r) /\ UNCHANGED <<input, answer>> /\ (UNCHANGED store \/ Stores(r))
        BY <3>2 DEF MoveStep
      <4>2. CASE UNCHANGED store
        BY <4>1, <4>2 DEF Promise!cvars
      <4>3. CASE Stores(r)
        <5>1. Promise!Bind(r)
          BY <4>1, <4>3, StoreBinds
        <5>2. Promise!Open(r)
          BY <4>1, Served DEF Promise!Open
        <5> QED
          BY <4>1, <5>1, <5>2 DEF Promise!CNext, Promise!CBind
      <4> QED
        BY <4>1, <4>2, <4>3
    <3> QED
      BY <2>1, <3>1, <3>2, ServeShapes
  <2>2. ASSUME NEW r \in Requests, Arrive(r)
        PROVE  Promise!CSubmit(r)
    <3>1. PICK i \in Input :
            /\ input' = [input EXCEPT ![r] = i]
            /\ UNCHANGED answer \/ answer' = [answer EXCEPT ![r] = Refused("rejected")]
      BY <2>2 DEF Arrive
    <3>2. input[r] = None /\ UNCHANGED store
      BY <2>2 DEF Arrive, LocalInv
    <3>3. input'[r] = i
      BY <3>1 DEF TypeOK
    <3> QED
      BY <3>1, <3>2, <3>3
      DEF Promise!CSubmit, Promise!Refused, Refused, Promise!Input, Input, Promise!Text, Text,
          Promise!Ops, Ops
  <2>3. CASE (\E j \in Keys : Lose(j)) \/ Restart
    <3> DEFINE gone    == {k \in Keys : store'[k] # store[k]}
               dropped == {r \in Requests : answer'[r] # answer[r]}
    <3>1. UNCHANGED input
      BY <2>3 DEF Lose, Restart
    <3>2. \A k \in gone : store'[k] = None
      BY <2>3 DEF Lose, Restart, TypeOK
    <3>3. [k \in Keys |-> PairOf(store'[k])] = [k \in Keys |-> IF k \in gone THEN None ELSE PairOf(store[k])]
      BY <3>2 DEF PairOf
    <3>4. \A r \in dropped : input[r] # None /\ answer[r] = None /\ answer'[r] = Refused("lost")
      BY <2>3 DEF Lose, Restart, LocalInv, InFlight
    <3>5. answer' = [r \in Requests |-> IF r \in dropped THEN Refused("lost") ELSE answer[r]]
      BY <2>3, <3>4 DEF Lose, Restart, TypeOK
    <3>6. gone \in SUBSET Keys /\ dropped \in SUBSET {r \in Requests : Promise!Open(r)}
      BY <3>4 DEF Promise!Open
    <3>7. Promise!CForget
      BY <3>1, <3>3, <3>5, <3>6 DEF Promise!CForget, Promise!Keys, Keys, Promise!Refused, Refused
    <3> QED
      BY <3>7 DEF Promise!CNext
  <2>4. CASE Redeploy \/ UNCHANGED vars
    BY <2>4 DEF Redeploy, vars, Promise!cvars
  <2> QED
    BY <1>2, <2>1, <2>2, <2>3, <2>4 DEF Next, Promise!CNext
<1> QED
  BY <1>1, <1>2, InvariantHolds, PTL DEF Spec, ImplementsCorrelation, Promise!CSpec
=============================================================================
