------------------------------ MODULE MCProcess ------------------------------
\* What works beside the request path in the gateway's process, one part in each
\* behaviour: the client of the NER service, the recorder of requests, the configuration
\* with authorize and its limiters.  Their states add up, they do not multiply.
EXTENDS NerClient, RequestCapture, Access, TLC

VARIABLE part

allvars == <<part, clientvars, vars, accessvars>>

MCRecords == 1..4

\* Sizes and line lengths differ, so that either limit can be hit first.
MCSize == [r \in Records |-> IF r % 2 = 0 THEN 2 ELSE 1]
MCEncoded == [r \in Records |-> IF r % 2 = 0 THEN 1 ELSE 2]

MCRps == [s \in {"demo", "bank"} |-> IF s = "demo" THEN 1 ELSE 2]

Item(enabled, secret, mode) == [enabled |-> enabled, secret |-> secret, mode |-> mode, allowed |-> {"mask", "token"}]
Endpoint(host, bracket, port, digits) == [host |-> host, bracket |-> bracket, port |-> port, digits |-> digits]
Lists == {<< >>, <<Endpoint("name", FALSE, 80, 2), Endpoint("ipv6", TRUE, 80, 2)>>,
          <<Endpoint("name", FALSE, 80, 2), Endpoint("name", FALSE, 80, 3)>>,
          <<Endpoint("ipv6", FALSE, 80, 2)>>, <<Endpoint("ipv4", FALSE, 65536, 5)>>}
Files == {<< >>, "bank" :> Item(TRUE, "b", "mask"), "bank" :> Item(TRUE, "", "mask"), "bank" :> Item(FALSE, "", "mask"),
          "bank" :> Item(TRUE, "b", "synthetic"), "demo" :> Item(TRUE, "d", "mask"),
          ("bank" :> Item(TRUE, "b", "token")) @@ ("demo" :> Item(TRUE, "", "mask"))}
\* a good environment, and those that differ from it in two fields at most
Base == [demo |-> FALSE, master |-> "stable", url |-> TRUE, sentinels |-> << >>, systems |-> "bank" :> Item(TRUE, "b", "mask")]
MCEnvironments ==
  {e \in [demo : BOOLEAN, master : {"", "stable", "short"}, url : BOOLEAN, sentinels : Lists, systems : Files] :
     Cardinality({f \in DOMAIN e : e[f] # Base[f]}) <= 2}

AllInit ==
  /\ part \in {"ner_client", "capture", "access"}
  /\ ClientInit /\ Init /\ AccessInit
  /\ part = "ner_client" \/ size = [c \in Calls |-> CHOOSE s \in Sizes : TRUE]
  /\ part = "access" \/ env = Base

AllNext ==
  /\ UNCHANGED part
  /\ \/ part = "ner_client" /\ ClientNext /\ UNCHANGED <<vars, accessvars>>
     \/ part = "capture" /\ Next /\ UNCHANGED <<clientvars, accessvars>>
     \/ part = "access" /\ AccessNext /\ UNCHANGED <<clientvars, vars>>

\* The writer waits for records from the start; it is fair where the recorder runs.
AllFairness == ClientFairness /\ WF_vars(part = "capture" /\ Writer)

AllSpec == AllInit /\ [][AllNext]_allvars /\ AllFairness

\* Every call of the NER client ends, and so does the close of the recorder.
PartsEnd == EveryCallEnds /\ CloseReturns
=============================================================================
