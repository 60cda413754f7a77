------------------------------- MODULE Gateway -------------------------------
(***************************************************************************)
(* The request path of seif/app.py (_AppContext.execute) over the vault of *)
(* seif/vault.py: concurrent requests of several tenants, each of which    *)
(* reads the vault, may detect and transform, and writes with              *)
(* put_if_absent.  Every await of the code is a point where other requests *)
(* take steps: authorize, vault.get, detection, and for Redis the SET NX   *)
(* and the GET of the winner.                                              *)
(***************************************************************************)
EXTENDS Texts, Naturals, FiniteSets

CONSTANTS
  Configs,     \* the policies a deployment may run with: functions on Tenants
  Routes,      \* the routes that are called: process, mask, unmask
  Backend,     \* "memory" (one process) or "redis" (shared by all processes)
  MaxRecords,  \* Settings.max_records, the bound of the memory backend
  MaxLosses    \* bound on how often one key's record expires or is lost

Policy == [enabled: BOOLEAN, allow_unmask: BOOLEAN, masking_enabled: BOOLEAN,
           mode: Modes, allowed_modes: SUBSET Modes]

ASSUME GatewayAssumption ==
  /\ Configs \subseteq [Tenants -> Policy]
  /\ \A c \in Configs, t \in Tenants : c[t].mode \in c[t].allowed_modes
  /\ Routes \subseteq Ops
  /\ Backend \in {"memory", "redis"}
  /\ MaxRecords \in Nat \ {0}
  /\ MaxLosses \in Nat

VARIABLES
  store,    \* Vault.records, or the keys of Redis: the record of each key, or None
  config,   \* Settings.policies
  pc,       \* where each request is
  input,    \* what each request asked, None before it is sent
  ctx,      \* the policy authorize() returned to the request
  draft,    \* the record the request is about to write
  answer,   \* the response, None before it is sent
  life,     \* history: how many records of the key are gone
  seen      \* history: life of the request's key when it was answered

vars == <<store, config, pc, input, ctx, draft, answer, life, seen>>

-----------------------------------------------------------------------------
(* Records, answers and the decisions of the handlers.                     *)

\* A record of the vault.  replacements is the text that the replacement list
\* rebuilds, None when the list is empty.
Record == [original_hash: Text, masked_hash: Text, masked: Text,
           replacements: Text \cup {None}, mode: Modes]

\* The mode a request runs in: its own, or the policy's.
mode_of(i, p) == IF i.mode = None THEN p.mode ELSE i.mode

\* _select_spans: the policy may switch the transformation off.
select_spans(t, p) ==
  /\ t.form = "plain" /\ t.of \in Sensitive
  /\ p.masking_enabled

\* The record _detect_and_transform builds for its own masking of the payload.
new_record(r, i, p) ==
  LET m        == mode_of(i, p)
      selected == select_spans(i.payload, p)
      result   == mask_text(i.payload, selected, m, r)
  IN [original_hash |-> i.payload, masked_hash |-> result, masked |-> result,
      replacements |-> IF p.allow_unmask /\ selected THEN i.payload ELSE None,
      mode |-> m]

\* Mutant: a record without replacements restores to nothing.
restore_exact_empty(rec) == rec.replacements

\* Mutant: the replacements are not undone.
restore_exact_ignored(rec) == rec.masked

\* restore_exact: the masked text with the stored replacements undone.
restore_exact(rec) == IF rec.replacements = None THEN rec.masked ELSE rec.replacements

\* restore_tokens: all tokens of the text must belong to the record, and there
\* must be one; the restored text may exceed the output limit.
restore_tokens(t, rec) ==
  IF rec.replacements # None /\ t = Edited(rec.masked)
    THEN {Ok("unmask", Filled(rec.replacements)), Refused("too_large")}
    ELSE {Refused("unknown_token")}

\* _restore_record: the possible answers of a restoration.
restore_record(i, p, rec) ==
  IF ~p.allow_unmask THEN {Refused("unmask_disabled")}
  ELSE IF i.payload = rec.masked_hash THEN {Ok("unmask", restore_exact(rec))}
  ELSE IF i.op = "unmask" /\ rec.mode = "token" THEN restore_tokens(i.payload, rec)
  ELSE {Refused("payload_conflict")}

\* _resolve_record: the direction follows from the fingerprints of the payload,
\* the original and the mask, never from how many requests there have been.
restores(i, rec) ==
  \/ i.op = "unmask"
  \/ /\ i.op = "process"
     /\ i.payload = rec.masked_hash /\ i.payload # rec.original_hash

\* Mutant: a payload that is not the stored original is given the stored mask.
resolve_record_unchecked(i, p, rec) ==
  IF restores(i, rec) THEN restore_record(i, p, rec) ELSE {Ok("mask", rec.masked)}

\* _resolve_record for a key that has a record.
resolve_record(i, p, rec) ==
  IF restores(i, rec) THEN restore_record(i, p, rec)
  ELSE IF i.payload # rec.original_hash THEN {Refused("payload_conflict")}
  ELSE IF i.op = "mask" /\ mode_of(i, p) # rec.mode THEN {Refused("mode_conflict")}
  ELSE {Ok("mask", rec.masked)}

\* Mutant: whatever record won the race is taken for the request's own.
confirm_unchecked(i, p, rec) == Ok("mask", rec.masked)

\* The checks on the record put_if_absent returned, own or winner's.
confirm(i, p, rec) ==
  IF rec.original_hash # i.payload THEN Refused("payload_conflict")
  ELSE IF i.op = "mask" /\ rec.mode # mode_of(i, p) THEN Refused("mode_conflict")
  ELSE Ok("mask", rec.masked)

ASSUME NoneIsNoRecord == None \notin Record

-----------------------------------------------------------------------------
(* The texts clients send.                                                 *)

\* What a client can type, what it was answered, and what an LLM writes
\* around tokens it was given.
Answered == {answer[r].text : r \in {s \in Requests : answer[s] # None /\ answer[s].code = "ok"}}

Sendable ==
  {Plain(o) : o \in Originals}
  \cup {Covered(o, m) : o \in Sensitive, m \in Modes \ {"token"}}
  \cup {t \in Answered : t.form # "filled"}
  \cup {Edited(t) : t \in {u \in Answered : u.form = "token"}}

-----------------------------------------------------------------------------
(* The actions.                                                            *)

Key(r) == KeyOf(input[r])

Init ==
  /\ store = [k \in Keys |-> None]
  /\ config \in Configs
  /\ pc = [r \in Requests |-> "idle"]
  /\ input = [r \in Requests |-> None]
  /\ ctx = [r \in Requests |-> None]
  /\ draft = [r \in Requests |-> None]
  /\ answer = [r \in Requests |-> None]
  /\ life = [k \in Keys |-> 0]
  /\ seen = [r \in Requests |-> 0]

Goto(r, to) == pc' = [pc EXCEPT ![r] = to]

\* The response leaves: execute() returns or raises.
Respond(r, a) ==
  /\ Goto(r, "done")
  /\ answer' = [answer EXCEPT ![r] = a]
  /\ seen' = [seen EXCEPT ![r] = life[Key(r)]]

\* process(), mask() or unmask() is called.  authorize() looks the policy up at
\* once; the key, the rate limit, the size and the encoding may still refuse
\* the request, which changes nothing the other requests see.
Arrive(r) ==
  /\ pc[r] = "idle"
  /\ \E i \in Input :
       LET p == config[i.tenant]
       IN /\ i.op \in Routes /\ i.payload \in Sendable
          /\ input' = [input EXCEPT ![r] = i]
          /\ \/ /\ p.enabled /\ mode_of(i, p) \in p.allowed_modes
                /\ Goto(r, "get")
                /\ ctx' = [ctx EXCEPT ![r] = p]
                /\ UNCHANGED answer
             \/ /\ Goto(r, "done")
                /\ answer' = [answer EXCEPT ![r] = Refused("rejected")]
                /\ UNCHANGED ctx
  /\ UNCHANGED <<store, config, draft, life, seen>>

\* vault.get and, in the same step of the event loop, _resolve_record up to
\* its answer or to the start of the detection.
Read(r) ==
  /\ pc[r] = "get"
  /\ LET i == input[r]
         rec == store[Key(r)]
     IN \/ /\ rec # None
           /\ \E a \in resolve_record(i, ctx[r], rec) : Respond(r, a)
        \/ /\ rec = None /\ i.op = "unmask"
           /\ Respond(r, Refused("mapping_expired"))
        \/ /\ rec = None /\ i.op # "unmask"
           /\ Goto(r, "detect") /\ UNCHANGED <<answer, seen>>
  /\ UNCHANGED <<store, config, input, ctx, draft, life>>

\* Mutant: when recognition fails, the text passes unprotected.
Detect_open(r) ==
  /\ pc[r] = "detect"
  /\ Goto(r, "put")
  /\ draft' = [draft EXCEPT ![r] = new_record(r, input[r], [ctx[r] EXCEPT !.masking_enabled = FALSE])]
  /\ UNCHANGED <<store, config, input, ctx, answer, life, seen>>

\* Detection: large texts wait for a CPU worker and may find all of them busy,
\* NER is awaited and may be unavailable.  Then mask() and the new record.
Detect(r) ==
  /\ pc[r] = "detect"
  /\ \/ /\ Goto(r, "put")
        /\ draft' = [draft EXCEPT ![r] = new_record(r, input[r], ctx[r])]
        /\ UNCHANGED <<answer, seen>>
     \/ /\ \E c \in {"cpu_busy", "temporarily_unavailable"} : Respond(r, Refused(c))
        /\ UNCHANGED draft
  /\ UNCHANGED <<store, config, input, ctx, life>>

\* put_if_absent in memory: one critical section under Vault.guard.  Whether
\* the byte budget refuses the record depends on sizes kept in module Vault.
PutMemory(r) ==
  /\ Backend = "memory" /\ pc[r] = "put"
  /\ LET k == Key(r)
     IN \/ /\ store[k] # None
           /\ Respond(r, confirm(input[r], ctx[r], store[k]))
           /\ UNCHANGED store
        \/ /\ store[k] = None
           /\ Respond(r, Refused("vault_full"))
           /\ UNCHANGED store
        \/ /\ store[k] = None
           /\ Cardinality({j \in Keys : store[j] # None}) < MaxRecords
           /\ store' = [store EXCEPT ![k] = draft[r]]
           /\ Respond(r, confirm(input[r], ctx[r], draft[r]))
  /\ UNCHANGED <<config, input, ctx, draft, life>>

\* Mutant: SET without NX.
SetNX_overwrites(r) ==
  /\ Backend = "redis" /\ pc[r] = "put"
  /\ store' = [store EXCEPT ![Key(r)] = draft[r]]
  /\ Respond(r, confirm(input[r], ctx[r], draft[r]))
  /\ UNCHANGED <<config, input, ctx, draft, life>>

\* put_if_absent in Redis, first command: SET key blob EX ttl NX.
SetNX(r) ==
  /\ Backend = "redis" /\ pc[r] = "put"
  /\ LET k == Key(r)
     IN \/ /\ store[k] = None                    \* stored and confirmed
           /\ store' = [store EXCEPT ![k] = draft[r]]
           /\ Respond(r, confirm(input[r], ctx[r], draft[r]))
        \/ /\ store[k] # None                    \* somebody else was first
           /\ Goto(r, "winner")
           /\ UNCHANGED <<store, answer, seen>>
  /\ UNCHANGED <<config, input, ctx, draft, life>>

\* The reply of an executed SET NX is lost.  The client library resends the
\* command, which then fails on the request's own record, or gives up.
SetReplyLost(r) ==
  /\ Backend = "redis" /\ pc[r] = "put"
  /\ store[Key(r)] = None
  /\ store' = [store EXCEPT ![Key(r)] = draft[r]]
  /\ \/ Goto(r, "winner") /\ UNCHANGED <<answer, seen>>
     \/ Respond(r, Refused("temporarily_unavailable"))
  /\ UNCHANGED <<config, input, ctx, draft, life>>

\* Mutant: the loser of the race answers with its own mask.
ReadWinner_own(r) ==
  /\ Backend = "redis" /\ pc[r] = "winner"
  /\ Respond(r, confirm(input[r], ctx[r], draft[r]))
  /\ UNCHANGED <<store, config, input, ctx, draft, life>>

\* put_if_absent in Redis, second command: GET of the winner's record, which
\* may have expired since.
ReadWinner(r) ==
  /\ Backend = "redis" /\ pc[r] = "winner"
  /\ LET rec == store[Key(r)]
     IN Respond(r, IF rec = None THEN Refused("vault_full")
                   ELSE confirm(input[r], ctx[r], rec))
  /\ UNCHANGED <<store, config, input, ctx, draft, life>>

\* A vault command fails: Redis is unreachable or out of memory.  A request
\* that waits for its read may still be waiting for the rate limiter in Redis.
VaultFails(r) ==
  /\ Backend = "redis" /\ pc[r] \in {"get", "put", "winner"}
  /\ Respond(r, Refused("temporarily_unavailable"))
  /\ UNCHANGED <<store, config, input, ctx, draft, life>>

InFlight(r) == pc[r] \notin {"idle", "done"}

\* The process that serves the request dies; the other processes go on.
Abandon(r) ==
  /\ Backend = "redis"
  /\ InFlight(r)
  /\ Respond(r, Refused("lost"))
  /\ UNCHANGED <<store, config, input, ctx, draft, life>>

\* A record is gone: its TTL passed, or a failover promoted a replica that
\* had not received it.
Lose(k) ==
  /\ store[k] # None /\ life[k] < MaxLosses
  /\ store' = [store EXCEPT ![k] = None]
  /\ life' = [life EXCEPT ![k] = @ + 1]
  /\ UNCHANGED <<config, pc, input, ctx, draft, answer, seen>>

\* A deployment with other policies.  With Redis the processes are replaced
\* one by one and the records stay; requests keep the policy they started with.
Redeploy ==
  /\ Backend = "redis"
  /\ config' \in Configs \ {config}
  /\ UNCHANGED <<store, pc, input, ctx, draft, answer, life, seen>>

\* A restart of the memory backend: all records and open requests are gone.
Restart ==
  /\ Backend = "memory"
  /\ \A k \in Keys : store[k] # None => life[k] < MaxLosses
  /\ store' = [k \in Keys |-> None]
  /\ life' = [k \in Keys |-> IF store[k] = None THEN life[k] ELSE life[k] + 1]
  /\ config' \in Configs
  /\ pc' = [r \in Requests |-> IF InFlight(r) THEN "done" ELSE pc[r]]
  /\ answer' = [r \in Requests |-> IF InFlight(r) THEN Refused("lost") ELSE answer[r]]
  /\ UNCHANGED <<input, ctx, draft, seen>>

Serve(r) == Read(r) \/ Detect(r) \/ PutMemory(r) \/ SetNX(r)
              \/ SetReplyLost(r) \/ ReadWinner(r) \/ VaultFails(r)

Next ==
  \/ \E r \in Requests : Arrive(r) \/ Serve(r) \/ Abandon(r)
  \/ \E k \in Keys : Lose(k)
  \/ Redeploy
  \/ Restart

Spec == Init /\ [][Next]_vars

-----------------------------------------------------------------------------
(* Properties.                                                             *)

TypeOK ==
  /\ store \in [Keys -> Record \cup {None}]
  /\ config \in Configs
  /\ pc \in [Requests -> {"idle", "get", "detect", "put", "winner", "done"}]
  /\ input \in [Requests -> Input \cup {None}]
  /\ ctx \in [Requests -> Policy \cup {None}]
  /\ draft \in [Requests -> Record \cup {None}]
  /\ answer \in [Requests -> Answer \cup {None}]
  /\ life \in [Keys -> Nat]
  /\ seen \in [Requests -> Nat]

Succeeded(r) == answer[r] # None /\ answer[r].code = "ok"

Masked(r) == Succeeded(r) /\ answer[r].dir = "mask"

\* The record a successful answer was computed from is still in the vault.
Alive(r) == seen[r] = life[Key(r)]

\* No deployment changes whether a tenant may restore texts.
StableUnmask ==
  \A c, d \in Configs, t \in Tenants : c[t].allow_unmask = d[t].allow_unmask

\* _resolve_record, put_if_absent: within the life of one record, all requests
\* that had a text masked under a tenant's payload_id sent the same text and
\* were given the same mask, whoever won the race to write it.
OneMaskPerLife ==
  \A r, s \in Requests :
    (/\ Masked(r) /\ Masked(s)
     /\ Key(r) = Key(s) /\ seen[r] = seen[s])
    => /\ input[r].payload = input[s].payload
       /\ answer[r].text = answer[s].text

\* execute: repeating a successful request, restoring or masking, is answered
\* the same way for as long as its record lives.
RetryIdempotent ==
  \A r \in Requests :
    (Succeeded(r) /\ Alive(r))
    => /\ store[Key(r)] # None
       /\ answer[r] \in resolve_record(input[r], ctx[r], store[Key(r)])

\* /process: while the record lives, sending a mask back under the same key is
\* answered with the text the mask was made from, whatever policy that permits
\* restoring is deployed meanwhile.
RoundTrip ==
  \A r \in Requests, c \in Configs :
    (Masked(r) /\ Alive(r) /\ c[input[r].tenant].allow_unmask)
    => LET back == [input[r] EXCEPT !.op = "process", !.mode = None, !.payload = answer[r].text]
       IN /\ store[Key(r)] # None
          /\ {a.text : a \in resolve_record(back, c[input[r].tenant], store[Key(r)])}
               = {input[r].payload}

\* _restore_record: a restored text was sent for masking by another request of
\* the same tenant under the same payload_id; nothing that another key protects
\* is ever revealed.
RestoresOwnTextOnly ==
  \A r \in Requests :
    (Succeeded(r) /\ answer[r].dir = "unmask")
    => \E s \in Requests \ {r} :
         /\ input[s] # None /\ input[s].op # "unmask"
         /\ input[s].tenant = input[r].tenant /\ input[s].id = input[r].id
         /\ answer[r].text \in {input[s].payload, Filled(input[s].payload)}

\* execute: a tenant whose policy always masks is never answered with a raw
\* sensitive text by a request that did not restore; every failure on the way
\* is an error without a text.
FailClosed ==
  \A r \in Requests :
    (Masked(r) /\ \A c \in Configs : c[input[r].tenant].masking_enabled)
    => ~(answer[r].text.form = "plain" /\ answer[r].text.of \in Sensitive)

\* put_if_absent: a record is never replaced or altered, only removed.
WriteOnce ==
  [][\A k \in Keys : store[k] # None => store'[k] \in {store[k], None}]_vars

-----------------------------------------------------------------------------
(* The inductive invariant behind them (proved in GatewayProofs).          *)

\* The record _detect_and_transform builds for the request w under a policy
\* some deployment gave its tenant.
RecordOf(w, c) == new_record(w, input[w], c[input[w].tenant])

Writer(w, k) == input[w] # None /\ Key(w) = k /\ input[w].op # "unmask"

\* What the local variables of a request hold at each of its awaits.
LocalInv ==
  \A r \in Requests :
    /\ pc[r] = "idle" => input[r] = None
    /\ pc[r] # "idle" => input[r] # None
    /\ pc[r] # "done" => answer[r] = None
    /\ (InFlight(r) \/ Succeeded(r)) => \E c \in Configs : ctx[r] = c[input[r].tenant]
    /\ pc[r] \in {"detect", "put", "winner"} => input[r].op # "unmask"
    /\ pc[r] \in {"put", "winner"} => draft[r] = new_record(r, input[r], ctx[r])

\* Every record was built for its key, and every successful answer follows
\* from a record that was, even when that record is gone.
RecordInv ==
  /\ \A k \in Keys : store[k] # None =>
       \E w \in Requests, c \in Configs : Writer(w, k) /\ store[k] = RecordOf(w, c)
  /\ \A r \in Requests : Succeeded(r) =>
       \E w \in Requests, c \in Configs :
         Writer(w, Key(r)) /\ answer[r] \in resolve_record(input[r], ctx[r], RecordOf(w, c))

LifeInv ==
  \A r \in Requests : IF input[r] = None THEN seen[r] = 0 ELSE seen[r] <= life[Key(r)]

IInv == TypeOK /\ LocalInv /\ RecordInv /\ LifeInv /\ RetryIdempotent /\ OneMaskPerLife

-----------------------------------------------------------------------------
(* The promise to clients, with the vault's records as the bound pairs.    *)

PairOf(rec) ==
  IF rec = None THEN None ELSE [original |-> rec.original_hash, masked |-> rec.masked]

ASSUME NoneIsNoPair == None \notin [original: Text, masked: Text]

Promise == INSTANCE Correlation WITH pair <- [k \in Keys |-> PairOf(store[k])]

\* execute: the interleaved steps of concurrent requests answer clients as if
\* each request had been served atomically against the record of its key.
ImplementsCorrelation == Promise!CSpec
=============================================================================
