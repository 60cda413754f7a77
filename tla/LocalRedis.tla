----------------------------- MODULE LocalRedis -----------------------------
(***************************************************************************)
(* scripts/local_redis.py: start and stop of a local topology of Redis     *)
(* servers and Sentinels that a state file records.  The operator runs one *)
(* invocation of the script at a time; it may be killed at any moment.     *)
(* Servers may exit, and the system may give the number of one that has    *)
(* gone to a process of somebody else, between any two steps of the        *)
(* script: also after it has checked whose number it is and before it      *)
(* sends the signal.                                                       *)
(*                                                                         *)
(* The writing of the state file is one step, for it is replaced as a      *)
(* whole, and so is the check of a process's identity: its three reads of  *)
(* /proc agree only on a server that runs.                                 *)
(***************************************************************************)
EXTENDS Integers, Sequences, FiniteSets, SequencesExt

CONSTANTS
  RedisNodes,      \* the Redis servers in the order they are started
  SentinelNodes    \* the Sentinels, likewise

ASSUME LocalRedisAssumption ==
  /\ RedisNodes \in Seq(Range(RedisNodes)) /\ SentinelNodes \in Seq(Range(SentinelNodes))
  /\ RedisNodes # <<>> /\ SentinelNodes # <<>>
  /\ IsInjective(RedisNodes \o SentinelNodes)

VARIABLES
  directory,    \* the directory exists
  process,      \* the server process of each node
  reused,       \* nodes whose process number belongs to a stranger by now
  recorded,     \* "nodes" of state.json
  stopped,      \* "stopped" of state.json
  step,         \* where the running invocation of the script is
  left,         \* the nodes it still has to go through
  strangers_hit, \* nodes whose number a stranger had when it was signalled
  slipped        \* nodes whose number a stranger got between the check of it and the signal

redisvars == <<directory, process, reused, recorded, stopped, step, left, strangers_hit, slipped>>

Order == RedisNodes \o SentinelNodes
Nodes == Range(Order)
Sentinels == Range(SentinelNodes)

RedisInit ==
  /\ directory = FALSE
  /\ process = [n \in Nodes |-> "none"]
  /\ reused = {} /\ recorded = {} /\ stopped = FALSE
  /\ step = "none" /\ left = <<>> /\ strangers_hit = {} /\ slipped = {}

Runs(n) == process[n] \in {"running", "dying"}

\* Mutant: the start time of the process is not compared.
process_owned_by_number(n) == Runs(n) \/ n \in reused

\* process_owned: the number, the start time, the program and its directory agree, so
\* that neither a process that is gone nor a stranger with its number is taken for it.
process_owned(n) == Runs(n) /\ n \notin reused

\* start up to its loop; it refuses an existing directory, a program it cannot run
\* and occupied ports before it creates anything.
start ==
  /\ step = "none" /\ ~directory
  /\ directory' = TRUE /\ recorded' = {} /\ stopped' = FALSE
  /\ step' = "spawning" /\ left' = Order
  /\ UNCHANGED <<process, reused, strangers_hit, slipped>>

\* _start_node up to Popen.
Spawn ==
  /\ step = "spawning" /\ left # <<>>
  /\ process' = [process EXCEPT ![Head(left)] = "running"]
  /\ step' = "recording"
  /\ UNCHANGED <<directory, reused, recorded, stopped, left, strangers_hit, slipped>>

\* The end of _start_node, and write_state.
Record ==
  /\ step = "recording"
  /\ recorded' = recorded \cup {Head(left)}
  /\ left' = Tail(left)
  /\ step' = IF left' = <<>> THEN "awaiting" ELSE "spawning"
  /\ UNCHANGED <<directory, process, reused, stopped, strangers_hit, slipped>>

\* The snapshot is ready: every server is reached as an owned process, three votes
\* agree on the primary and its replicas are linked.
snapshot_ready == \A n \in Nodes : n \in recorded /\ process_owned(n)

Ready ==
  /\ step = "awaiting" /\ snapshot_ready
  /\ step' = "none"
  /\ UNCHANGED <<directory, process, reused, recorded, stopped, left, strangers_hit, slipped>>

\* Mutant: servers are stopped in the order they were started in.
StopOrder_as_started == Order

\* stop sorts the nodes: Sentinels first.
StopOrder == SentinelNodes \o RedisNodes

BeginStop ==
  /\ step' = "signalling" /\ left' = StopOrder
  /\ UNCHANGED <<directory, process, reused, recorded, stopped, strangers_hit, slipped>>

\* The except clause of start: a server cannot be started or recorded, or the
\* topology is not ready in 30 seconds, or the operator interrupts.
StartFails == step \in {"spawning", "recording", "awaiting"} /\ BeginStop

\* stop, by the operator.
stop == step = "none" /\ directory /\ BeginStop

\* A turn of the loop of stop up to the check of whose process it is.  A node that the
\* state file does not record is passed over, for the loop does not reach it.
Check ==
  /\ step = "signalling" /\ left # <<>>
  /\ IF Head(left) \in recorded /\ process_owned(Head(left))
     THEN step' = "killing" /\ UNCHANGED left
     ELSE left' = Tail(left) /\ UNCHANGED step
  /\ UNCHANGED <<directory, process, reused, recorded, stopped, strangers_hit, slipped>>

\* os.kill: whoever has the number by now gets the signal; a server that has exited but
\* is still known to the system gets it too, to no effect.
Kill ==
  /\ step = "killing"
  /\ LET n == Head(left) IN
     /\ process' = [process EXCEPT ![n] = IF @ = "running" THEN "dying" ELSE @]
     /\ strangers_hit' = strangers_hit \cup ({n} \cap reused)
  /\ step' = "signalling" /\ left' = Tail(left)
  /\ UNCHANGED <<directory, reused, recorded, stopped, slipped>>

\* os.kill raises: since the check the server has exited and its number is unknown or a
\* stranger's that may not be signalled.  The error leaves stop, which neither goes on
\* to the next node nor writes "stopped".
KillFails ==
  /\ step = "killing" /\ ~Runs(Head(left))
  /\ step' = "none"
  /\ UNCHANGED <<directory, process, reused, recorded, stopped, left, strangers_hit, slipped>>

\* stop after its wait: no server is left, or eight seconds have passed.
Stopped ==
  /\ step = "signalling" /\ left = <<>>
  /\ stopped' = (\A n \in recorded : ~process_owned(n))
  /\ step' = "none"
  /\ UNCHANGED <<directory, process, reused, recorded, left, strangers_hit, slipped>>

\* The script is killed.
Killed ==
  /\ step # "none" /\ step' = "none"
  /\ UNCHANGED <<directory, process, reused, recorded, stopped, left, strangers_hit, slipped>>

\* A server exits, signalled or not.
Exit(n) ==
  /\ Runs(n) /\ process' = [process EXCEPT ![n] = "gone"]
  /\ UNCHANGED <<directory, reused, recorded, stopped, step, left, strangers_hit, slipped>>

\* The number of a server that has gone is given to another process.
Reuse(n) ==
  /\ process[n] = "gone" /\ n \notin reused /\ reused' = reused \cup {n}
  /\ slipped' = IF step = "killing" /\ n = Head(left) THEN slipped \cup {n} ELSE slipped
  /\ UNCHANGED <<directory, process, recorded, stopped, step, left, strangers_hit>>

RedisNext ==
  \/ start \/ Spawn \/ Record \/ Ready \/ StartFails \/ stop \/ Check \/ Kill \/ KillFails
  \/ Stopped \/ Killed
  \/ \E n \in Nodes : Exit(n) \/ Reuse(n)

\* The script goes on while it is not killed, and its waits have deadlines.
RedisFairness ==
  /\ WF_redisvars(Spawn) /\ WF_redisvars(Record) /\ WF_redisvars(Check)
  /\ WF_redisvars(Kill \/ KillFails) /\ WF_redisvars(Stopped)
  /\ WF_redisvars(Ready \/ (step = "awaiting" /\ StartFails))

-----------------------------------------------------------------------------
(* Properties.                                                             *)

\* process_owned, stop: "no unrelated process was changed", although process numbers are
\* reused after a crash: the only stranger that can be signalled is one that got the
\* number of a server in the moment between the check of it and its signal.
NoStrangerHit == strangers_hit \subseteq slipped

\* stop, start: "stopped" in the state file means that no recorded server runs, now
\* and as long as it stays there.
StoppedIsTrue == stopped => \A n \in recorded : ~Runs(n)

\* start: at most the one server whose recording failed or was cut off can run
\* without being known to a later stop.
AtMostOneUnrecorded == Cardinality({n \in Nodes \ recorded : Runs(n)}) <= 1

\* stop: "close discovery first so an intentional stop cannot trigger a promotion".
SentinelsFirst ==
  [][\A n \in Nodes \ Sentinels : process[n] = "running" /\ process'[n] = "dying"
       => \A s \in Sentinels \cap recorded : process[s] # "running"]_redisvars

\* Every invocation ends.
ScriptEnds == step # "none" ~> step = "none"

\* start and stop as a whole: no stranger that was there to be seen is hit and no server
\* of theirs is forgotten.
TopologySafe == NoStrangerHit /\ StoppedIsTrue /\ AtMostOneUnrecorded
=============================================================================
