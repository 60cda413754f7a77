-------------------------------- MODULE Texts --------------------------------
(***************************************************************************)
(* Texts, requests and the reversible transformation of seif/transform.py, *)
(* abstracted to what the correlation protocol tells apart.                *)
(*                                                                         *)
(* A text is a record: what kind of text it is (form), which original it   *)
(* stems from (of) and, for the random tokens of mode "token", which       *)
(* request drew them (by).  Two texts are equal exactly when their         *)
(* records are, so a record also stands for the text's HMAC fingerprint.   *)
(***************************************************************************)

CONSTANTS
  Requests,    \* identities of the requests clients send
  Tenants,     \* systems named by X-System-ID
  Ids,         \* payload_ids
  Originals,   \* unprotected texts
  Sensitive,   \* the originals in which the detector finds values to protect
  Modes,       \* transformation modes; "token" is the one that draws tokens
  Shape,       \* Shape[o]: what is left of o without its protected values
  None         \* absence of a value

ASSUME TextsAssumption ==
  /\ Sensitive \subseteq Originals
  /\ Shape \in [Originals -> Originals]
  /\ Modes \cap {"plain", "edited", "filled"} = {}

Keys == Tenants \X Ids

Ops == {"process", "mask", "unmask"}

Text == [form: {"plain", "edited", "filled"} \cup Modes,
         of: Originals,
         by: Requests \cup {None}]

Plain(o) == [form |-> "plain", of |-> o, by |-> None]

\* Shape masks and synthetic values depend only on the text around the
\* protected values and on their shape: different originals may collide.
Covered(o, m) == [form |-> m, of |-> Shape[o], by |-> None]

\* Mode "token": the tokens are drawn at random for the request r.
Tokenized(o, r) == [form |-> "token", of |-> o, by |-> r]

\* A text written by somebody else (an LLM) around the tokens of t, and the
\* same text with the tokens' values put back.
Edited(t) == [t EXCEPT !.form = "edited"]
Filled(t) == [form |-> "filled", of |-> t.of, by |-> None]

\* mask(): one replacement per selected span; without spans the text itself.
mask_text(t, selected, m, r) ==
  IF ~selected THEN t
  ELSE IF m = "token" THEN Tokenized(t.of, r)
  ELSE Covered(t.of, m)

\* A request as the routes receive it; only /v1/mask may name a mode.
Input == {i \in [tenant: Tenants, id: Ids, op: Ops, mode: Modes \cup {None}, payload: Text] :
            i.op # "mask" => i.mode = None}

ASSUME NoneAssumption == None \notin Text \cup Input

\* Error codes of the answers that carry no text.  "rejected" stands for every
\* refusal before the vault is read, "lost" for a request nobody answers.
Refusals == {"rejected", "unmask_disabled", "unknown_token", "too_large",
             "payload_conflict", "mode_conflict", "mapping_expired", "cpu_busy",
             "vault_full", "temporarily_unavailable", "lost"}

Ok(d, t) == [code |-> "ok", dir |-> d, text |-> t]

Refused(c) == [code |-> c, dir |-> None, text |-> None]

Answer == [code: {"ok"}, dir: {"mask", "unmask"}, text: Text]
            \cup [code: Refusals, dir: {None}, text: {None}]

\* Mutant: the key is derived from the payload_id alone.
KeyOf_shared(i) == <<CHOOSE t \in Tenants : TRUE, i.id>>

\* Vault.key: the HMAC of the tenant and the payload_id together.
KeyOf(i) == <<i.tenant, i.id>>
=============================================================================
