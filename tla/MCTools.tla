------------------------------- MODULE MCTools -------------------------------
\* What runs around the service, one of them in each behaviour: the operator's tools and
\* the demo page.  Their states add up, they do not multiply.
EXTENDS LocalRedis, CaptureSession, FailoverCheck, WebDemo, Benchmark, Evaluation

CONSTANTS redis1, redis2, sentinel1, sentinel2, key1, key2, key3, textA, textB

VARIABLE tool

MCRedisNodes == <<redis1, redis2>>
MCSentinelNodes == <<sentinel1, sentinel2>>
MCMaxAttempts == <<2, 1, 1>>
MCWeights == <<1, 2>>
MCLineSize == [o \in {textA, textB} |-> IF o = textA THEN 2 ELSE 1]

vars == <<tool, redisvars, capturevars, failovervars, pagevars, benchvars, evalvars>>

Init ==
  /\ tool \in {"local_redis", "capture_requests", "failover_check", "web_demo", "benchmark", "evaluate"}
  /\ RedisInit /\ CaptureInit /\ FailoverInit /\ PageInit /\ BenchInit /\ EvalInit
  /\ tool = "capture_requests" \/ db = [k \in VaultKeys |-> Absent]
  /\ tool = "failover_check" \/ mode = "equal"
  /\ tool = "web_demo" \/ source = CHOOSE t \in Texts : TRUE
  /\ tool = "evaluate" \/ reported
  /\ tool = "benchmark" \/ (heap = [i \in DOMAIN Weights |-> 0] /\ saved = {})

Next ==
  /\ UNCHANGED tool
  /\ \/ /\ tool = "local_redis" /\ RedisNext
        /\ UNCHANGED <<capturevars, failovervars, pagevars, benchvars, evalvars>>
     \/ /\ tool = "capture_requests" /\ CaptureNext
        /\ UNCHANGED <<redisvars, failovervars, pagevars, benchvars, evalvars>>
     \/ /\ tool = "failover_check" /\ FailoverNext
        /\ UNCHANGED <<redisvars, capturevars, pagevars, benchvars, evalvars>>
     \/ /\ tool = "web_demo" /\ PageNext
        /\ UNCHANGED <<redisvars, capturevars, failovervars, benchvars, evalvars>>
     \/ /\ tool = "benchmark" /\ BenchNext
        /\ UNCHANGED <<redisvars, capturevars, failovervars, pagevars, evalvars>>
     \/ /\ tool = "evaluate" /\ EvalNext
        /\ UNCHANGED <<redisvars, capturevars, failovervars, pagevars, benchvars>>

Spec == Init /\ [][Next]_vars /\ RedisFairness /\ PageFairness

\* Discovery is stopped first, every invocation of local_redis ends, and so does every
\* operation of the page.
ToolsEnd == SentinelsFirst /\ ScriptEnds /\ BusyEnds
=============================================================================
