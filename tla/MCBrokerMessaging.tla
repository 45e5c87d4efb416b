------------------------ MODULE MCBrokerMessaging ------------------------
(***************************************************************************)
(* Instances of BrokerMessaging: one channel, one band, a producer and a   *)
(* consumer (and a processor).  A scenario fixes what the roles send, so   *)
(* that each subject is explored with every interleaving of its own        *)
(* messages: bands whose members come and go, an address that is resolved  *)
(* late or moved, rows the sweep demotes and reaps, and the queries,       *)
(* broadcasts and orders.                                                  *)
(***************************************************************************)
EXTENDS BrokerMessaging

CONSTANTS Scenarios, Processor

VARIABLE scenario
mcvars == <<vars, scenario>>

MCTagOf == [u \in {"prod1", "cons1", "proc1"} |->
              CASE u = "prod1" -> "prod" [] u = "cons1" -> "cons" [] OTHER -> "proc"]
MCUids == IF Processor THEN {"proc1"} ELSE {"prod1", "cons1"}
MCChannels == {"c1"}
MCBands == {"b1"}

Body(type, uid, role_type, chan, band, ep) ==
    [type |-> type, uid |-> uid, role_type |-> role_type, chan |-> chan, band |-> band,
     endpoint |-> ep]
Plain(type, u) == Body(type, u, "", "c1", "", "")

BandBodies(u) ==
    {Body(t, u, "", "", "b1", "") :
        t \in {"BAND_JOIN_REQ", "BAND_LEAVE_REQ", "BAND_MEMBERS_REQ",
               "BAND_BROADCAST_SEND_NOTIFY"}}

QueryBodies(u) ==
    {Body("ROLE_PRESENCE_REQ", "prod1", "", "", "", ""),
     Body("ROLE_INFO_REQ", "cons1", "", "", "", ""), Plain("METRICS_REQ", u),
     Body("CHANNEL_LIST_REQ", "", "", "", "", ""), Plain("SCHEMA_REQ", u),
     Body("CONSUMER_ATTACH_REQ_SHM", u, "", "c1", "", "cons1"),
     Body("RETIRED_REQ", "", "", "", "", ""),
     Plain("GET_CHANNEL_AUTH_REQ", u), Plain("CHECKSUM_ERROR_REPORT", u),
     Plain("CHANNEL_BROADCAST_SEND_NOTIFY", u)}

ProducerBodies(u) ==
    {Body("REG_REQ", u, "", "c1", "", e) : e \in {Unresolved, "e1"}}
    \cup {Body("ENDPOINT_UPDATE_REQ", "", "", "c1", "", e) : e \in {"e1", "e2"}}
    \cup {Body("HEARTBEAT_NOTIFY", u, "producer", "c1", "", ""), Plain("DEREG_REQ", u)}

ConsumerBodies(u) ==
    {Body("HEARTBEAT_NOTIFY", u, "consumer", "c1", "", ""), Plain("CONSUMER_REG_REQ", u),
     Plain("CONSUMER_DEREG_REQ", u), Body("DISC_REQ", "", "", "c1", "", "")}

MCRequests ==
    [u \in MCUids |-> BandBodies(u) \cup QueryBodies(u)
                      \cup (IF MCTagOf[u] \in {"prod", "proc"} THEN ProducerBodies(u) ELSE {})
                      \cup (IF MCTagOf[u] \in {"cons", "proc"} THEN ConsumerBodies(u) ELSE {})]

\* What the roles send in each scenario, and how much.
Sends(s) ==
    CASE s = "bands" -> {"DEREG_REQ", "CONSUMER_REG_REQ", "BAND_JOIN_REQ", "BAND_LEAVE_REQ"}
      [] s = "addresses" -> {"REG_REQ", "HEARTBEAT_NOTIFY", "CONSUMER_REG_REQ", "DEREG_REQ",
                             "ENDPOINT_UPDATE_REQ", "CONSUMER_DEREG_REQ", "DISC_REQ"}
      [] s = "sweeps" -> {"HEARTBEAT_NOTIFY", "BAND_JOIN_REQ", "CONSUMER_REG_REQ"}
      [] s = "queries" -> {"HEARTBEAT_NOTIFY", "BAND_JOIN_REQ", "BAND_MEMBERS_REQ",
                           "ROLE_PRESENCE_REQ", "ROLE_INFO_REQ", "CHANNEL_LIST_REQ", "RETIRED_REQ",
                           "METRICS_REQ", "SCHEMA_REQ", "CONSUMER_ATTACH_REQ_SHM",
                           "GET_CHANNEL_AUTH_REQ", "CHECKSUM_ERROR_REPORT",
                           "CHANNEL_BROADCAST_SEND_NOTIFY", "BAND_BROADCAST_SEND_NOTIFY"}
Budget(s, u) ==
    CASE s = "bands" -> IF u = "prod1" THEN 2 ELSE 3
      [] s = "addresses" -> IF u = "prod1" THEN 3 ELSE 2
      [] s = "sweeps" -> IF u = "prod1" THEN 1 ELSE 2
      [] OTHER -> IF u = "prod1" THEN 2 ELSE 1

\* A channel whose two sides are live: where the scenarios begin.
Registered ==
    /\ producers = [c \in Channels |-> {"prod1"}]
    /\ consumers = [c \in Channels |-> {"cons1"}]
    /\ presence = [x \in Rows |->
                      IF x \in {<<"prod1", "c1", "producer">>, <<"cons1", "c1", "consumer">>}
                      THEN "live" ELSE "absent"]
    /\ seen = {<<"prod1", "c1", "producer">>, <<"cons1", "c1", "consumer">>}
    /\ endpoint = [c \in Channels |-> "e1"]
    /\ bands = [b \in Bands |-> <<>>]
    /\ toBroker = [u \in Uids |-> <<>>] /\ toRole = [u \in Uids |-> <<>>]
    /\ sent = [u \in Uids |-> 0]
    /\ call = [u \in Uids |-> NoCall]
    /\ local = [u \in Uids |->
                  IF u = "prod1" THEN [Blank EXCEPT !.member = {<<"c1", "producer">>}]
                  ELSE [Blank EXCEPT !.member = {<<"c1", "consumer">>}, !.told["c1"] = "e1"]]
    /\ closes = <<>> /\ broadcasts = <<>> /\ ordered = 0
    /\ stale = {} /\ beats = {}

MCInit == /\ scenario \in Scenarios
          /\ IF Processor THEN Init ELSE Registered

\* Bounds: messages on a link, the sweep and the orders where they matter.
Bounded ==
    /\ \A u \in Uids : /\ sent[u] <= Budget(scenario, u)
                       /\ Len(toBroker[u]) <= 2
                       /\ \A i \in DOMAIN toBroker[u] : toBroker[u][i].type \in Sends(scenario)
    /\ scenario # "sweeps" => \A x \in Rows : presence[x] # "stalled"
    /\ scenario # "queries" => ordered = 0
    /\ scenario = "queries" => \A u \in Uids : <<u, "">> \notin stale   \* no call times out

MCNext == UNCHANGED scenario /\ Next /\ Bounded'
MCSpec == MCInit /\ [][MCNext]_mcvars
=============================================================================
