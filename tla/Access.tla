-------------------------------- MODULE Access --------------------------------
(***************************************************************************)
(* Who may use a deployment, and how often: the environments from_env of   *)
(* seif/config.py and create_app accept, authorize of seif/app.py with its *)
(* two rate limiters, restarts in between.                                 *)
(*                                                                         *)
(* An environment is a record: demo, master ("", "stable" or "short"), url, *)
(* sentinels (a sequence of endpoints as written), and systems, the YAML   *)
(* file with the secrets its items name ("" for one that is not set).      *)
(* Numbers out of their range refuse it as a bad key does; left out.       *)
(* Time is counted in ticks, balances in Second-ths of a token.            *)
(***************************************************************************)
EXTENDS Integers, Sequences, FiniteSets, FiniteSetsExt

CONSTANTS
  Environments,    \* the environments to start in
  Rps,             \* rps of each system that may be configured
  Second,          \* ticks in a second
  MaxNow,          \* a bound on the clock, for the instance
  MaxLives,        \* a bound on starts of the process, and on failovers within a second
  MaxRecent        \* a bound on calls of the limiter within a second

ASSUME AccessAssumption ==
  /\ Rps \in [DOMAIN Rps -> Nat \ {0}] /\ Second \in Nat \ {0} /\ MaxNow \in Nat
  /\ \A e \in Environments : DOMAIN e.systems \cup (IF e.demo THEN {"demo"} ELSE {}) \subseteq DOMAIN Rps

VARIABLES
  env,         \* the environment of this deployment
  settings,    \* Settings, or Down
  lives,       \* starts of the process
  now,         \* time.monotonic, and the clock of Redis
  limits,      \* _AppContext.limits: balance and time of the last call
  windows,    \* the counter of each system in Redis, and when it expires
  recent,      \* calls of the last second that balances or counters know: system, time, number, life, outcome
  past,        \* served calls of the last second whose balances or counters are lost
  renewed,     \* losses of balances or counters in the last second: time, number
  sealed,      \* the keys under which records in the shared store are encrypted
  answer       \* the call that was just answered: system, secret, status

historyvars == <<recent, past, renewed>>
accessvars == <<env, settings, lives, now, limits, windows, recent, past, renewed, sealed, answer>>

Systems == DOMAIN Rps
Modes == {"mask", "token", "synthetic"}
Down == [up |-> FALSE]
Nobody == [system |-> "", secret |-> "", status |-> 0]
Never == MaxNow + Second + 1
NoCounter == [n |-> 0, expires |-> 0]

AccessInit ==
  /\ env \in Environments
  /\ settings = Down /\ lives = 0 /\ now = 0
  /\ limits = << >> /\ windows = [s \in Systems |-> NoCounter]
  /\ recent = {} /\ past = {} /\ renewed = {} /\ sealed = {} /\ answer = Nobody

-----------------------------------------------------------------------------
(* Configuration.                                                          *)

\* host:port or [IPv6]:port
ValidEndpoint(e) ==
  /\ e.digits <= 5 /\ e.port \in 1..65535
  /\ IF e.bracket THEN e.host = "ipv6" ELSE e.host \in {"name", "other.name", "ipv4"}

Address(e) == <<e.host, e.port>>

ValidSentinels(list) ==
  /\ Len(list) <= 16 /\ \A i \in DOMAIN list : ValidEndpoint(list[i])
  /\ \A i, j \in DOMAIN list : Address(list[i]) = Address(list[j]) => i = j

IsShared(e) == e.url \/ e.sentinels # << >>

\* Mutant: a shared store is accepted with the random key of demo mode.
ValidStore_random(e) == ValidSentinels(e.sentinels) /\ ~(e.url /\ e.sentinels # << >>)
ValidStore(e) ==
  /\ ValidSentinels(e.sentinels) /\ ~(e.url /\ e.sentinels # << >>)
  /\ IsShared(e) => e.master # ""

\* a system without a key may be enabled only as the demo system of demo mode
ValidPolicy(e, name) ==
  LET item == e.systems[name] IN item.enabled /\ item.secret = "" => e.demo /\ name = "demo"

DefaultPolicy == [enabled |-> TRUE, secret |-> "", mode |-> "mask", allowed |-> Modes]
Policies(e) ==
  [name \in DOMAIN e.systems \cup (IF e.demo THEN {"demo"} ELSE {}) |->
     IF name \in DOMAIN e.systems THEN e.systems[name] ELSE DefaultPolicy]

Accepts(e) ==
  /\ e.master = "stable" \/ (e.master = "" /\ e.demo)
  /\ ValidStore(e)
  /\ \A name \in DOMAIN e.systems : ValidPolicy(e, name)
  /\ DOMAIN Policies(e) # {}
  /\ \A name \in DOMAIN Policies(e) : Policies(e)[name].mode \in Policies(e)[name].allowed

\* create_app; without a master key each life of the process has a key of its own
CreateApp ==
  /\ ~settings.up /\ lives < MaxLives /\ Accepts(env)
  /\ lives' = lives + 1
  /\ settings' = [up |-> TRUE, demo |-> env.demo, shared |-> IsShared(env), policies |-> Policies(env),
                  key |-> IF env.master = "" THEN lives' ELSE env.master]
  /\ UNCHANGED <<env, now, limits, windows, historyvars, sealed, answer>>

\* history: what the calls so far have used up is forgotten, the calls are not
BeginAnew ==
  /\ recent' = {} /\ past' = past \cup {r \in recent : r.outcome = 200}
  /\ renewed' = renewed \cup {[time |-> now, number |-> Cardinality(renewed) + 1]}

\* the balances go with the process, the counters stay in Redis
Stop ==
  /\ settings.up
  /\ settings' = Down /\ limits' = << >> /\ answer' = Nobody
  /\ IF settings.shared THEN UNCHANGED historyvars ELSE BeginAnew
  /\ UNCHANGED <<env, lives, now, windows, sealed>>

-----------------------------------------------------------------------------
(* authorize.                                                              *)

System(header) == IF header = "" /\ settings.demo THEN "demo" ELSE header

Anonymous(s) == settings.demo /\ s = "demo" /\ settings.policies[s].secret = ""

\* the refusal of a call that is not its system's, or nothing
Refusal(s, secret) ==
  IF s \notin DOMAIN settings.policies \/ ~settings.policies[s].enabled THEN {403}
  ELSE LET own == settings.policies[s].secret
       IN  IF ~Anonymous(s) /\ (own = "" \/ secret # own) THEN {401} ELSE {}

\* the script: INCR, and EXPIRE for the first of a window
Live(c) == IF c.expires > now THEN c ELSE NoCounter
\* Mutant: INCR and EXPIRE are not one step, and the second one gets lost.
Script_unset(c) == [n |-> Live(c).n + 1, expires |-> Never]
Script(c) == [n |-> Live(c).n + 1, expires |-> IF Live(c).n = 0 THEN now + Second ELSE c.expires]

Full(s) == Rps[s] * Second
Balance(s) ==
  IF s \in DOMAIN limits THEN Min({Full(s), limits[s].balance + (now - limits[s].last) * Rps[s]}) ELSE Full(s)

\* the n-th call from now on
Called(s, outcome, n) == 
  [system |-> s, time |-> now, number |-> Cardinality(recent) + n, life |-> Cardinality(renewed), outcome |-> outcome]

\* redis-py repeats a script whose reply was lost: the call is counted twice
ByRedis(s, secret) ==
  \E repeated \in BOOLEAN :
    LET c == Script(IF repeated THEN Script(windows[s]) ELSE windows[s])
        status == IF c.n > Rps[s] THEN 429 ELSE 200
    IN  /\ windows' = [windows EXCEPT ![s] = c]
        /\ recent' = recent \cup (IF repeated THEN {Called(s, 0, 1), Called(s, status, 2)}
                                 ELSE {Called(s, status, 1)})
        /\ answer' = [system |-> s, secret |-> secret, status |-> status]
        /\ sealed' = IF status = 200 THEN sealed \cup {settings.key} ELSE sealed
        /\ UNCHANGED limits

ByBalance(s, secret) ==
  LET status == IF Balance(s) < Second THEN 429 ELSE 200
      left == IF status = 200 THEN Balance(s) - Second ELSE Balance(s)
  IN  /\ limits' = [t \in DOMAIN limits \cup {s} |->
                      IF t = s THEN [balance |-> left, last |-> now] ELSE limits[t]]
      /\ recent' = recent \cup {Called(s, status, 1)}
      /\ answer' = [system |-> s, secret |-> secret, status |-> status]
      /\ UNCHANGED <<windows, sealed>>

Limited(s, secret) == IF settings.shared THEN ByRedis(s, secret) ELSE ByBalance(s, secret)

Refused(s, secret) ==
  /\ \E status \in Refusal(s, secret) : answer' = [system |-> s, secret |-> secret, status |-> status]
  /\ UNCHANGED <<limits, windows, recent, sealed>>

authorize(header, secret) ==
  LET s == System(header) IN
  IF Refusal(s, secret) # {} THEN Refused(s, secret) ELSE Limited(s, secret)

Ask(header, secret) ==
  /\ settings.up /\ Cardinality(recent \cup past) < MaxRecent
  /\ authorize(header, secret)
  /\ UNCHANGED <<env, settings, lives, now, past, renewed>>

\* what is left of R when the clock ticks
Lately(R) == {r \in R : r.time > (now + 1) - Second}

Tick ==
  /\ now < MaxNow
  /\ now' = now + 1 /\ answer' = Nobody
  /\ recent' = Lately(recent) /\ past' = Lately(past) /\ renewed' = Lately(renewed)
  /\ UNCHANGED <<env, settings, lives, limits, windows, sealed>>

\* a failover to a replica that has not seen the counters
LoseWindows ==
  /\ IsShared(env) /\ windows # [s \in Systems |-> NoCounter] /\ Cardinality(renewed) < MaxLives
  /\ windows' = [s \in Systems |-> NoCounter] /\ BeginAnew /\ answer' = Nobody
  /\ UNCHANGED <<env, settings, lives, now, limits, sealed>>

Secrets == {""} \cup {env.systems[s].secret : s \in DOMAIN env.systems}
AccessNext ==
  \/ CreateApp \/ Stop \/ Tick \/ LoseWindows
  \/ \E header \in Systems \cup {"", "stranger"}, secret \in Secrets : Ask(header, secret)

-----------------------------------------------------------------------------
(* Properties.                                                             *)

\* authorize, _policy: whoever is served has shown the secret of the system, except for
\* the demo system of demo mode that was given none.
ServedWithSecret ==
  answer.status \in {200, 429} =>
    LET own == settings.policies[answer.system].secret
    IN  IF own = "" THEN env.demo /\ answer.system = "demo" ELSE answer.secret = own

\* _policy and create_app against authorize: the configuration is never accepted with an
\* enabled system that nobody can call.
EnabledMeansUsable ==
  settings.up => \A s \in DOMAIN settings.policies :
    settings.policies[s].enabled => Refusal(s, settings.policies[s].secret) = {}

\* "Shared Redis requires a stable SEIF_MASTER_KEY" (config.py 161): no restart leaves
\* records in the shared store that the process can no longer decrypt.
SharedRecordsReadable == settings.up /\ settings.shared => sealed \subseteq {settings.key}

\* _load_redis, parse_sentinels: an accepted deployment names one store, and a Sentinel
\* that is written twice does not count as two.
OneSharedStore ==
  settings.up => /\ env.url => env.sentinels = << >>
                 /\ \A i, j \in DOMAIN env.sentinels :
                      i # j => \/ env.sentinels[i].host # env.sentinels[j].host
                               \/ env.sentinels[i].port # env.sentinels[j].port

LimiterCalls(s, outcomes) == Cardinality({r \in recent : r.system = s /\ r.outcome \in outcomes})

\* Both limiters: a system never gets twice its rps within a second, neither at the edge of
\* two windows nor after a pause; a restart or failover in that second, after which the
\* balance is full and nothing is counted, gives it its rps once more, and not twice.
RateBound ==
  \A s \in Systems :
    Cardinality({r \in recent \cup past : r.system = s /\ r.outcome = 200}) < (2 + Cardinality(renewed)) * Rps[s]

\* Both limiters: a call is turned away only when rps calls of its system were counted in
\* the second before; those of other systems and those with a wrong key do not count.
TurnedAwayAtLimit == answer.status = 429 => LimiterCalls(answer.system, {0, 200}) >= Rps[answer.system]

\* Both limiters: a system that paused for a second is served, whatever it did before; no
\* counter stays behind that would lock it out.
ServedAfterPause ==
  settings.up => \A s \in DOMAIN settings.policies :
    LimiterCalls(s, {0, 200, 429}) = 0 =>
      IF settings.shared THEN Script(windows[s]).n <= Rps[s] ELSE Balance(s) >= Second

\* from_env and create_app against authorize and the vault: what is accepted is safe and
\* can be used, now and after every restart.
ConfigurationSafe == ServedWithSecret /\ EnabledMeansUsable /\ SharedRecordsReadable /\ OneSharedStore

\* Both limiters bound a system without locking it out.
LimitsFair == RateBound /\ TurnedAwayAtLimit /\ ServedAfterPause
=============================================================================
