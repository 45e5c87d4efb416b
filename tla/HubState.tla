------------------------------ MODULE HubState ------------------------------
(***************************************************************************)
(* The hub's registry: HubState (src/utils/ipc/hub_state.cpp) driven by    *)
(* the handlers of the broker (src/utils/ipc/broker_service.cpp).  One     *)
(* thread owns the ROUTER socket and calls every mutator, so a handler is  *)
(* one action; requests reach it in any order.  A request that is refused  *)
(* without a state change is a stuttering step and has no action.          *)
(*                                                                         *)
(* Several maps describe the same registration (the channel's rosters, the *)
(* role's presence rows and its channel cache, the access ledger, the      *)
(* pending-attach queue, bands, schema records); every handler has to keep *)
(* them in step, and that is what the properties are about.                *)
(*                                                                         *)
(* Not here: data-plane endpoints (so the port-0 gate of CONSUMER_REG_REQ  *)
(* never refuses), federation peers, metrics and counters.                 *)
(***************************************************************************)
EXTENDS AdmissionLedger, Sequences

CONSTANTS
    Channels,
    ProducerOf, ConsumerOf,  \* the uids configured to produce / consume a channel
    Bands, BandUsers,        \* bands, and the uids whose scripts join them
    Schemas, NoSchema,       \* fingerprints (schema_hash), and the empty one
    HubSchemas,              \* hub-global records, loaded at startup
    Anonymous, Hub,          \* schema_owner "" (no schema_id) and "hub"
    Cites, Expects,          \* the schemas in a producer's configuration, and
                             \* those in a consumer's
    Versions,                \* the versions roles report as applied
    MaxPending               \* bound on the length of a pending-attach queue

\* What a request says of its schema: the fingerprint and whose record it is.
Citation == [hash : Schemas \cup {NoSchema}, owner : Uids \cup {Anonymous, Hub}]
NoCitation == [hash |-> NoSchema, owner |-> Anonymous]

ASSUME HubAssumption ==
    /\ MaxPending \in Nat /\ Versions \subseteq Nat /\ BandUsers \subseteq Uids
    /\ NoSchema \notin Schemas /\ HubSchemas \subseteq Schemas
    /\ Anonymous # Hub /\ {Anonymous, Hub} \cap Uids = {}
    /\ Cites \in [Uids -> SUBSET Citation] /\ Expects \in [Uids -> SUBSET Citation]
    \* a named citation has a fingerprint; nobody claims another role's record
    /\ \A u \in Uids : \A c \in Cites[u] \cup Expects[u] :
          /\ c.owner \in {Anonymous, Hub, u}
          /\ c.owner # Anonymous => c.hash \in Schemas
    /\ \A u \in Uids : \A c \in Expects[u] : c.owner # u
    /\ ProducerOf \in [Channels -> SUBSET Uids]
    /\ ConsumerOf \in [Channels -> SUBSET Uids]
    \* a role is not both ends of one channel
    /\ \A k \in Channels : ProducerOf[k] \cap ConsumerOf[k] = {}

Topologies == {"fan-in", "fan-out", "one-to-one"}
Undeclared == "undeclared"          \* no channel_topology on the wire
Transports == {"zmq", "shm"}
RoleTypes  == {"producer", "consumer"}

\* A presence row <<u, k, t>>: "registering" is Connected without a heartbeat
\* yet, "live" Connected with one, "stalled" Pending.
Rows == Uids \X Channels \X RoleTypes
PresenceStates == {"absent", "registering", "live", "stalled"}

VARIABLES
    channels,              \* names that have a ChannelEntry
    topology, transport, channel_schema,        \* of the open channels
    producers, consumers,  \* the channel's rosters (role_uids)
    presence,              \* presences[] of the role entries
    roles,                 \* uids that have a RoleEntry
    role_channels,         \* RoleEntry.channels, a cache
    bands,                 \* band members; a band without members is erased
    schemas,               \* the schema record a role owns, or NoSchema
    shm_blocks,            \* channels that have a ShmBlockRef
    accessed, access,      \* channel_access_index: its keys and ledgers (a
                           \* channel without an entry has the empty ledger)
    producer_instance,     \* registrations of each producer uid so far
    pending_attach_queue   \* per channel and producer: CONSUMER_ATTACH_REQs

registryVars == <<channels, topology, transport, channel_schema, producers,
                  consumers>>
roleVars     == <<presence, roles, role_channels, bands, schemas>>
hubVars      == <<registryVars, roleVars, shm_blocks, accessed, access,
                  producer_instance, pending_attach_queue>>

AttachEntry == [consumer : Uids, target : Nat]

HubInit ==
    /\ channels = {} /\ accessed = {} /\ shm_blocks = {} /\ roles = {}
    /\ topology = [k \in Channels |-> "one-to-one"]
    /\ transport = [k \in Channels |-> "zmq"]
    /\ channel_schema = [k \in Channels |-> NoCitation]
    /\ producers = [k \in Channels |-> {}]
    /\ consumers = [k \in Channels |-> {}]
    /\ presence = [x \in Rows |-> "absent"]
    /\ role_channels = [u \in Uids |-> {}]
    /\ bands = [b \in Bands |-> {}]
    /\ schemas = [u \in Uids |-> NoSchema]
    /\ access = [k \in Channels |-> EmptyLedger]
    /\ producer_instance = [u \in Uids |-> 0]
    /\ pending_attach_queue = [k \in Channels |-> [u \in Uids |-> <<>>]]

(***************************************************************************)
(* Admission rules                                                         *)
(***************************************************************************)
TransportCompatible(topo, tr) == ~(topo = "fan-in" /\ tr = "shm")

\* check_cardinality, with the number of peers already on the joining side.
CheckCardinality(topo, side, existing) ==
    \/ topo = "fan-in" /\ side = "producer"
    \/ topo = "fan-out" /\ side = "consumer"
    \/ existing = {}

\* validate_topology: what the request declares agrees with the channel.
TopologyAgrees(k, declared) == declared \in {Undeclared, topology[k]}

\* A fresh channel without a declared topology is one-to-one.
OpenTopology(declared) == IF declared = Undeclared THEN "one-to-one" ELSE declared

\* The checks of _on_producer_added, on an open channel and on a fresh one.
CanAddProducer(k, u, declared, tr) ==
    IF k \in channels
    THEN /\ transport[k] = tr
         /\ TopologyAgrees(k, declared)
         /\ u \notin producers[k]
         /\ CheckCardinality(topology[k], "producer", producers[k])
    ELSE TransportCompatible(OpenTopology(declared), tr)

\* The checks of _add_consumer; the same uid replaces its own row.
CanAddConsumer(k, u, declared, tr) ==
    IF k \in channels
    THEN /\ TopologyAgrees(k, declared)
         /\ u \in consumers[k]
            \/ CheckCardinality(topology[k], "consumer", consumers[k])
    ELSE declared = "fan-in" /\ TransportCompatible("fan-in", tr)

(***************************************************************************)
(* Role entries                                                            *)
(***************************************************************************)
\* upsert_role_locked and upsert_presence_row_locked: an existing presence
\* row is left as it is.
UpsertPresence(u, k, t) ==
    /\ roles' = roles \cup {u}
    /\ role_channels' = [role_channels EXCEPT ![u] = @ \cup {k}]
    /\ presence' = [presence EXCEPT ![<<u, k, t>>] =
                       IF @ = "absent" THEN "registering" ELSE @]

\* drop_channel_if_orphaned after the rows of gone are erased: the cache of u
\* keeps k while another row of u names it.
StillNamed(u, k, gone) ==
    \E t \in RoleTypes : <<u, k, t>> \notin gone /\ presence[<<u, k, t>>] # "absent"

\* any_presence_alive once the rows of gone are erased.
StillAlive(u, gone) == \E k \in Channels : StillNamed(u, k, gone)

\* Variant: a role is dead when the channel it leaves has no row of it left.
TerminalPerChannel(gone) ==
    {u \in roles : \E x \in gone : x[1] = u /\ ~StillNamed(u, x[2], gone)}

\* _dispatch_role_disconnected_if_dead: the roles whose last row is in gone.
Terminal(gone) ==
    {u \in roles : (\E x \in gone : x[1] = u) /\ ~StillAlive(u, gone)}

\* Demote the rows of late (on_heartbeat_timeout) and erase those of gone
\* (on_dereg / on_pending_timeout), then the role entries that have no row left,
\* with cascade_role_terminal_cleanup_locked: their schema records and their
\* band memberships go too.
ErasePresences(gone, late) ==
    LET terminal == Terminal(gone) IN
    /\ presence' = [x \in Rows |-> IF x \in gone THEN "absent"
                                  ELSE IF x \in late THEN "stalled"
                                  ELSE presence[x]]
    /\ role_channels' = [u \in Uids |->
           IF u \in terminal THEN {}
           ELSE {k \in role_channels[u] :
                    (\E t \in RoleTypes : <<u, k, t>> \in gone)
                        => StillNamed(u, k, gone)}]
    /\ roles' = roles \ terminal
    /\ bands' = [b \in Bands |-> bands[b] \ terminal]
    /\ schemas' = [u \in Uids |-> IF u \in terminal THEN NoSchema
                                                   ELSE schemas[u]]

\* Variant: a closing channel erases the rows of its producers only.
PartyRowsProducers(K) ==
    {x \in Rows : x[2] \in K /\ x[3] = "producer" /\ x[1] \in producers[x[2]]}

\* The rows of every party of the channels in K (what _on_channel_closed erases).
PartyRows(K) ==
    {x \in Rows : x[2] \in K /\ \/ x[3] = "producer" /\ x[1] \in producers[x[2]]
                                \/ x[3] = "consumer" /\ x[1] \in consumers[x[2]]}

\* Parties leave: the channels of K close, and the rows of gone (on channels
\* that stay open) are erased from the rosters and the role entries.
Depart(K, gone, late) ==
    LET erased == PartyRows(K) \cup gone IN
    /\ channels' = channels \ K
    /\ topology' = [k \in Channels |-> IF k \in K THEN "one-to-one" ELSE topology[k]]
    /\ transport' = [k \in Channels |-> IF k \in K THEN "zmq" ELSE transport[k]]
    /\ channel_schema' = [k \in Channels |-> IF k \in K THEN NoCitation
                                                        ELSE channel_schema[k]]
    /\ producers' = [k \in Channels |-> IF k \in K THEN {} ELSE
                        {u \in producers[k] : <<u, k, "producer">> \notin gone}]
    /\ consumers' = [k \in Channels |-> IF k \in K THEN {} ELSE
                        {u \in consumers[k] : <<u, k, "consumer">> \notin gone}]
    /\ shm_blocks' = shm_blocks \ K
    /\ ErasePresences(erased, late)

(***************************************************************************)
(* REG_REQ                                                                 *)
(***************************************************************************)
\* The schema gates before admission: an open channel is joined with its own
\* citation; a hub-global is adopted only if it exists; a role's own record is
\* created or equal.
SchemaGate(k, u, cite) ==
    /\ k \in channels => cite = channel_schema[k]
    /\ cite.owner = Hub => cite.hash \in HubSchemas
    /\ cite.owner = u => schemas[u] \in {NoSchema, cite.hash}

\* _on_schema_registered, called before the admission is decided.
RegisterSchema(u, cite) ==
    schemas' = IF cite.owner = u THEN [schemas EXCEPT ![u] = cite.hash]
                                 ELSE schemas

\* The channel's ledger after producer u registers: its old confirmation is
\* reset, and under fan-in the producer dials, so its key is admitted.
ProducerLedger(k, u, topo) ==
    LET l == ResetConfirmation(access[k], {u})
    IN  IF topo = "fan-in" THEN Admit(l, u) ELSE l

\* handle_reg_req, accepted.
RegReq(k, u, declared, tr, cite) ==
    LET fresh == k \notin channels
        topo  == IF fresh THEN OpenTopology(declared) ELSE topology[k]
    IN  /\ u \in ProducerOf[k] /\ cite \in Cites[u]
        /\ SchemaGate(k, u, cite)
        /\ CanAddProducer(k, u, declared, tr)
        /\ RegisterSchema(u, cite)
        /\ channels' = channels \cup {k}
        /\ topology' = [topology EXCEPT ![k] = topo]
        /\ transport' = [transport EXCEPT ![k] = tr]
        /\ channel_schema' = [channel_schema EXCEPT ![k] = cite]
        /\ producers' = [producers EXCEPT ![k] = @ \cup {u}]
        /\ shm_blocks' = IF fresh /\ tr = "shm" THEN shm_blocks \cup {k}
                                                ELSE shm_blocks
        /\ producer_instance' = [producer_instance EXCEPT ![u] = @ + 1]
        /\ accessed' = IF fresh THEN accessed \cup {k} ELSE accessed
        /\ access' = [access EXCEPT ![k] = ProducerLedger(k, u, topo)]
        /\ UpsertPresence(u, k, "producer")
        /\ UNCHANGED <<consumers, bands, pending_attach_queue>>

\* handle_reg_req, refused by the admission: the schema record stays.
RegReqRefused(k, u, declared, tr, cite) ==
    /\ u \in ProducerOf[k] /\ cite \in Cites[u] /\ cite.owner = u
    /\ SchemaGate(k, u, cite)
    /\ ~CanAddProducer(k, u, declared, tr)
    /\ RegisterSchema(u, cite)
    /\ UNCHANGED <<registryVars, presence, roles, role_channels, bands,
                   shm_blocks, accessed, access, producer_instance,
                   pending_attach_queue>>

(***************************************************************************)
(* CONSUMER_REG_REQ                                                        *)
(***************************************************************************)
\* Unless the consumer declares fan-in, some producer must be live (gate R6).
ConsumerReady(k, declared) ==
    declared = "fan-in"
    \/ \E p \in producers[k] : presence[<<p, k, "producer">>] = "live"

\* A joining consumer may cite nothing; else fingerprint and name must match.
CitationMatches(k, cite) ==
    \/ cite = NoCitation
    \/ /\ cite.hash = channel_schema[k].hash
       /\ (cite.owner = Anonymous) = (channel_schema[k].owner = Anonymous)

\* The ledger after consumer u registers: the dialing side is admitted.
ConsumerLedger(k, u, topo) ==
    IF topo = "fan-in" THEN access[k] ELSE Admit(access[k], u)

\* handle_consumer_reg_req, accepted; only fan-in lets a consumer open.
ConsumerRegReq(k, u, declared, tr, cite) ==
    LET fresh == k \notin channels
        topo  == IF fresh THEN "fan-in" ELSE topology[k]
    IN  /\ u \in ConsumerOf[k] /\ cite \in Expects[u]
        /\ CanAddConsumer(k, u, declared, IF tr = Undeclared THEN "zmq" ELSE tr)
        /\ ~fresh => /\ ConsumerReady(k, declared)
                     /\ tr \in {Undeclared, transport[k]}
                     /\ CitationMatches(k, cite)
        /\ channels' = channels \cup {k}
        /\ topology' = [topology EXCEPT ![k] = topo]
        /\ transport' = [transport EXCEPT ![k] = IF fresh THEN "zmq" ELSE @]
        /\ channel_schema' = [channel_schema EXCEPT ![k] = IF fresh THEN cite ELSE @]
        /\ consumers' = [consumers EXCEPT ![k] = @ \cup {u}]
        /\ accessed' = IF fresh THEN accessed \cup {k} ELSE accessed
        /\ access' = [access EXCEPT ![k] = ConsumerLedger(k, u, topo)]
        /\ UpsertPresence(u, k, "consumer")
        /\ UNCHANGED <<producers, bands, schemas, shm_blocks,
                       producer_instance, pending_attach_queue>>

(***************************************************************************)
(* Parties leave or die                                                    *)
(***************************************************************************)
\* _on_channel_access_closed for the channels of K; the pending attaches of
\* those channels, and of the producer rows P of other channels, are denied.
CloseAccess(K, P) ==
    /\ accessed' = accessed \ K
    /\ pending_attach_queue' =
          [k \in Channels |-> [u \in Uids |->
              IF k \in K \/ <<u, k, "producer">> \in P THEN <<>>
              ELSE pending_attach_queue[k][u]]]

\* Variant: the confirmation of a producer that leaves others behind is kept.
DeregReqKeepsConfirmation(k, u) ==
    LET last == producers[k] = {u}
        K    == IF last THEN {k} ELSE {}
    IN  /\ u \in producers[k]
        /\ Depart(K, {<<u, k, "producer">>}, {})
        /\ CloseAccess(K, {<<u, k, "producer">>})
        /\ access' = [access EXCEPT ![k] = IF last THEN EmptyLedger ELSE @]
        /\ UNCHANGED producer_instance

\* handle_dereg_req: the last producer takes the channel with it; another
\* one's confirmation is reset and its key stays admitted.
DeregReq(k, u) ==
    LET last == producers[k] = {u}
        K    == IF last THEN {k} ELSE {}
    IN  /\ u \in producers[k]
        /\ Depart(K, {<<u, k, "producer">>}, {})
        /\ CloseAccess(K, {<<u, k, "producer">>})
        /\ access' = [access EXCEPT ![k] = IF last THEN EmptyLedger
                                           ELSE ResetConfirmation(@, {u})]
        /\ UNCHANGED producer_instance

\* Variant: the key of the departing consumer stays in the ledger.
ConsumerDeregReqNoRevoke(k, u) ==
    /\ u \in consumers[k]
    /\ Depart({}, {<<u, k, "consumer">>}, {})
    /\ access' = [access EXCEPT ![k] = ResetConfirmation(@, {u})]
    /\ UNCHANGED <<accessed, pending_attach_queue, producer_instance>>

\* handle_consumer_dereg_req: row, presence, confirmation and key go; the
\* channel stays, and so do the attaches the consumer has pending.
ConsumerDeregReq(k, u) ==
    /\ u \in consumers[k]
    /\ Depart({}, {<<u, k, "consumer">>}, {})
    /\ access' = [access EXCEPT ![k] = Revoke(ResetConfirmation(@, {u}), {u})]
    /\ UNCHANGED <<accessed, pending_attach_queue, producer_instance>>

\* The close requests of operators and scripts, drained by the broker's loop.
CloseRequest(k) ==
    /\ k \in channels
    /\ Depart({k}, {}, {})
    /\ CloseAccess({k}, {})
    /\ access' = [access EXCEPT ![k] = EmptyLedger]
    /\ UNCHANGED producer_instance

\* _on_heartbeat: the row is Connected and has been heard.
HeartbeatReq(k, u, t) ==
    /\ k \in channels /\ presence[<<u, k, t>>] # "absent"
    /\ presence' = [presence EXCEPT ![<<u, k, t>>] = "live"]
    /\ UNCHANGED <<registryVars, roles, role_channels, bands, schemas,
                   shm_blocks, accessed, access, producer_instance,
                   pending_attach_queue>>

\* The rows the two passes visit: rows of rostered parties, Connected in pass
\* 1, Pending in pass 2.
Demotable == {x \in PartyRows(channels) : presence[x] \in {"registering", "live"}}
Reapable  == {x \in PartyRows(channels) : presence[x] = "stalled"}

\* Pass 2 takes a channel down when its last producer is reaped.
Doomed(dead) ==
    {k \in channels : /\ producers[k] # {}
                      /\ \A u \in producers[k] : <<u, k, "producer">> \in dead}

\* The ledger of a channel that survives pass 2: reaped producers lose their
\* confirmation, reaped consumers their key.
SweptLedger(k, dead) ==
    Revoke(ResetConfirmation(access[k], {u \in Uids : <<u, k, "producer">> \in dead}),
           {u \in Uids : <<u, k, "consumer">> \in dead})

Waiting == {w \in Channels \X Uids : pending_attach_queue[w[1]][w[2]] # <<>>}

\* sweep_pending_attach_timeouts_: the n[<<k, u>>] oldest entries expire.
ExpireAttaches(k, u, n) ==
    LET q == pending_attach_queue[k][u]
    IN  IF <<k, u>> \in Waiting THEN SubSeq(q, n[<<k, u>>] + 1, Len(q)) ELSE q

\* check_heartbeat_timeouts: attaches that waited too long are answered, rows
\* silent for ready_timeout become Pending (late), rows Pending for
\* pending_timeout are reaped (dead).  A row demoted in this sweep has a fresh
\* state_since, so it is not reaped in the same one.
CheckHeartbeatTimeouts(late, dead, n) ==
    LET K    == Doomed(dead)
        gone == {x \in dead : x[2] \notin K}
    IN  /\ Depart(K, gone, late)
        /\ accessed' = accessed \ K
        /\ access' = [k \in Channels |-> IF k \in K THEN EmptyLedger
                                                    ELSE SweptLedger(k, dead)]
        /\ pending_attach_queue' =
              [k \in Channels |-> [u \in Uids |->
                  IF k \in K \/ <<u, k, "producer">> \in gone THEN <<>>
                  ELSE ExpireAttaches(k, u, n)]]
        /\ UNCHANGED producer_instance

(***************************************************************************)
(* Attach and confirm                                                      *)
(***************************************************************************)
\* handle_consumer_attach_req_zmq: the two conditions under which the broker
\* considers the request at all, and the fast path that answers it at once.
AttachAllowed(k, c, p) ==
    /\ k \in accessed /\ k \in channels
    /\ topology[k] = "fan-in" \/ c \in Admitted(access[k])
    /\ p \in producers[k]
FastPath(k, p) == access[k].confirmed[p] >= access[k].current_version

\* The wait path: the request is queued until p confirms the current version.
AttachReqZmq(k, c, p) ==
    /\ c \in ConsumerOf[k] /\ Len(pending_attach_queue[k][p]) < MaxPending
    /\ AttachAllowed(k, c, p) /\ ~FastPath(k, p)
    /\ pending_attach_queue' = [pending_attach_queue EXCEPT ![k][p] =
          Append(@, [consumer |-> c, target |-> access[k].current_version])]
    /\ UNCHANGED <<registryVars, roleVars, shm_blocks, accessed, access,
                   producer_instance>>

\* drain_pending_attach_queue_for_producer_confirmed_: entries are answered
\* from the front while their target is confirmed.
DrainConfirmed(q, version) ==
    LET waiting == {i \in 1 .. Len(q) : q[i].target > version}
    IN  IF waiting = {} THEN <<>>
        ELSE SubSeq(q, CHOOSE i \in waiting : \A j \in waiting : i <= j, Len(q))

\* handle_channel_auth_applied_req from a producer: the instance must be the
\* current one; then the confirmation advances and waiting attaches are answered.
ChannelAuthAppliedProducer(k, u, instance, version) ==
    LET l == Confirm(access[k], u, version)
    IN  /\ k \in channels /\ u \in producers[k]
        /\ instance = producer_instance[u]
        /\ access' = [access EXCEPT ![k] = l]
        /\ pending_attach_queue' = [pending_attach_queue EXCEPT ![k][u] =
              DrainConfirmed(@, l.confirmed[u])]
        /\ UNCHANGED <<registryVars, roleVars, shm_blocks, accessed,
                       producer_instance>>

\* The same request from a consumer: no instance to check, nothing to drain.
ChannelAuthAppliedConsumer(k, u, version) ==
    /\ k \in channels /\ u \in consumers[k]
    /\ access' = [access EXCEPT ![k] = Confirm(@, u, version)]
    /\ UNCHANGED <<registryVars, roleVars, shm_blocks, accessed,
                   producer_instance, pending_attach_queue>>

(***************************************************************************)
(* Bands                                                                   *)
(***************************************************************************)
\* handle_band_join_req: a member needs no presence, only a role entry.
BandJoinReq(b, u) ==
    /\ bands' = [bands EXCEPT ![b] = @ \cup {u}]
    /\ roles' = roles \cup {u}
    /\ UNCHANGED <<registryVars, presence, role_channels, schemas, shm_blocks,
                   accessed, access, producer_instance, pending_attach_queue>>

\* handle_band_leave_req: the role entry stays.
BandLeaveReq(b, u) ==
    /\ u \in bands[b]
    /\ bands' = [bands EXCEPT ![b] = @ \ {u}]
    /\ UNCHANGED <<registryVars, presence, roles, role_channels, schemas,
                   shm_blocks, accessed, access, producer_instance,
                   pending_attach_queue>>

(***************************************************************************)
(* The broker's loop                                                       *)
(***************************************************************************)
Registration ==
    \E k \in Channels, u \in Uids, declared \in Topologies \cup {Undeclared} :
        \/ \E tr \in Transports, cite \in Cites[u] :
              \/ RegReq(k, u, declared, tr, cite)
              \/ RegReqRefused(k, u, declared, tr, cite)
        \/ \E tr \in Transports \cup {Undeclared}, cite \in Expects[u] :
              ConsumerRegReq(k, u, declared, tr, cite)

Departure ==
    \/ \E k \in Channels, u \in Uids : DeregReq(k, u) \/ ConsumerDeregReq(k, u)
    \/ \E k \in Channels : CloseRequest(k)

Sweep ==
    \E n \in [Waiting -> 0 .. MaxPending] :
      /\ \A w \in Waiting : n[w] <= Len(pending_attach_queue[w[1]][w[2]])
      /\ \E late \in SUBSET Demotable, dead \in SUBSET Reapable :
            CheckHeartbeatTimeouts(late, dead, n)

\* An applied version is one some ledger of the channel has had: at most the
\* current one, or any greater one from before the channel was reopened.
Confirmation ==
    \E k \in Channels, u \in Uids, version \in Versions :
        \/ \E i \in 1 .. producer_instance[u] :
              ChannelAuthAppliedProducer(k, u, i, version)
        \/ ChannelAuthAppliedConsumer(k, u, version)

HubNext ==
    \/ Registration \/ Departure \/ Sweep \/ Confirmation
    \/ \E k \in Channels, u \in Uids, t \in RoleTypes : HeartbeatReq(k, u, t)
    \/ \E k \in Channels, c, p \in Uids : AttachReqZmq(k, c, p)
    \/ \E b \in Bands, u \in BandUsers : BandJoinReq(b, u) \/ BandLeaveReq(b, u)

HubSpec == HubInit /\ [][HubNext]_hubVars

(***************************************************************************)
(* Properties                                                              *)
(***************************************************************************)
\* Every map of the hub has its type.
HubTypeOK ==
    /\ channels \subseteq Channels /\ accessed \subseteq Channels
    /\ shm_blocks \subseteq Channels /\ roles \subseteq Uids
    /\ topology \in [Channels -> Topologies]
    /\ transport \in [Channels -> Transports]
    /\ channel_schema \in [Channels -> Citation]
    /\ producers \in [Channels -> SUBSET Uids]
    /\ consumers \in [Channels -> SUBSET Uids]
    /\ presence \in [Rows -> PresenceStates]
    /\ role_channels \in [Uids -> SUBSET Channels]
    /\ bands \in [Bands -> SUBSET Uids]
    /\ schemas \in [Uids -> Schemas \cup {NoSchema}]
    /\ access \in [Channels -> Ledger]
    /\ producer_instance \in [Uids -> Nat]
    /\ pending_attach_queue \in [Channels -> [Uids -> Seq(AttachEntry)]]

\* The rosters and the role entries tell the same story: a role is on a
\* channel's roster exactly when it has the presence row (the sweep reaches a
\* row only through the roster, so a row without one would live for ever), a
\* row belongs to a role entry, and the entry's channel cache lists exactly the
\* channels its rows name.
RosterMatchesPresence ==
    /\ \A u \in Uids, k \in Channels :
          /\ u \in producers[k] <=> presence[<<u, k, "producer">>] # "absent"
          /\ u \in consumers[k] <=> presence[<<u, k, "consumer">>] # "absent"
          /\ k \in role_channels[u] <=> \E t \in RoleTypes : presence[<<u, k, t>>] # "absent"
    /\ \A u \in Uids : role_channels[u] # {} => u \in roles

\* The access record and the SHM block live exactly as long as the channel
\* ("found a ChannelEntry but no ChannelAccessEntry - HubState invariant
\* broken"), a closed channel leaves nothing behind that its next incarnation
\* would inherit, and no queue outlives the registration it waits for.
AccessFollowsChannel ==
    /\ accessed = channels
    /\ shm_blocks = {k \in channels : transport[k] = "shm"}
    /\ \A k \in Channels \ channels :
          /\ access[k] = EmptyLedger
          /\ producers[k] = {} /\ consumers[k] = {}
    /\ \A k \in Channels, u \in Uids :
          pending_attach_queue[k][u] # <<>> => u \in producers[k]

\* The topology a channel was opened with bounds its rosters for its whole
\* life, through re-registrations and reaps in any order.
TopologyRespected ==
    \A k \in channels :
        /\ topology[k] # "fan-in" => Cardinality(producers[k]) = 1
        /\ topology[k] # "fan-out" => Cardinality(consumers[k]) <= 1
        /\ TransportCompatible(topology[k], transport[k])

\* On a channel whose producer binds, the allowlist is the consumer roster:
\* nobody registered is missing from it and nobody who left is still on it.
AllowlistIsRoster ==
    \A k \in channels : topology[k] # "fan-in" => Admitted(access[k]) = consumers[k]

\* No attach request waits in vain or too little: what is queued at a producer
\* waits for a version the ledger has issued and the producer has not
\* confirmed, in the order of the versions (the drain stops at the first entry
\* that has to wait).
PendingNeedsConfirmation ==
    \A k \in Channels, p \in Uids : LET q == pending_attach_queue[k][p] IN
        \A i \in 1 .. Len(q) :
            /\ access[k].confirmed[p] < q[i].target
            /\ q[i].target <= access[k].current_version
            /\ \A j \in 1 .. i : q[j].target <= q[i].target

\* A role never counts as having applied a version that was not issued, and an
\* admission is stamped with an issued version: "confirmed >= admission" then
\* means that the role pulled an allowlist containing the key.
ConfirmedWasIssued ==
    \A k \in Channels, u \in Uids :
        /\ access[k].confirmed[u] <= access[k].current_version
        /\ access[k].admission[u] <= access[k].current_version

\* A producer of a channel that left or was reaped has no confirmation, so its
\* next instance starts from zero and its pending attaches are not answered on
\* the word of the dead one.
NoStaleProducerConfirmation ==
    \A k \in channels : \A u \in ProducerOf[k] :
        access[k].confirmed[u] # 0 => u \in producers[k]

\* The admitted keys are those of the dialing side ("The channel's admission
\* ledger holds the admitted DIALING-side peers (consumers under fan-out;
\* producers under fan-in)").
LedgerHoldsDialingPeers ==
    \A k \in channels :
        Admitted(access[k]) = IF topology[k] = "fan-in" THEN producers[k]
                                                        ELSE consumers[k]

\* A channel that carries a role's own schema has the record behind it.
SchemaRecordBacksChannel ==
    \A k \in channels : LET o == channel_schema[k].owner IN
        o \in Uids => /\ o \in roles
                      /\ schemas[o] = channel_schema[k].hash

\* The hub's maps tell one story: a role is on a roster exactly when it has the
\* presence, a ledger exists exactly for an open channel, and the cardinality of
\* each topology is kept.
HubIsConsistent ==
    HubTypeOK /\ RosterMatchesPresence /\ AccessFollowsChannel /\ TopologyRespected

\* A confirmation says what the confirming role has: it was issued, it is of the
\* producer's present registration, and only what it lacks is waited for.
ConfirmationsAreCurrent ==
    PendingNeedsConfirmation /\ ConfirmedWasIssued /\ NoStaleProducerConfirmation

\* While a channel is open its version never falls, every admission and every
\* revocation issues a new one, and a key that stays admitted keeps its stamp: a
\* confirmation, once given, keeps meaning what it meant.
VersionsGrow ==
    [][\A k \in channels \cap channels' :
          LET l == access[k]  m == access'[k] IN
          /\ m.current_version >= l.current_version
          /\ \A u \in Uids :
                /\ u \in Admitted(l) \cap Admitted(m) => m.admission[u] = l.admission[u]
                /\ u \in Admitted(m) \ Admitted(l) => m.admission[u] > l.current_version
          /\ Admitted(l) # Admitted(m) => m.current_version > l.current_version]_hubVars

\* When a role entry goes, its schema record and its band memberships go with
\* it, and it had no presence left.
ErasureStep ==
    \A u \in roles \ roles' :
        /\ schemas'[u] = NoSchema
        /\ \A b \in Bands : u \notin bands'[b]
        /\ \A x \in Rows : x[1] = u => presence'[x] = "absent"

\* A party is on the side it is configured for, so that nobody is on both
\* rosters of a channel.
SidesApart ==
    \A k \in Channels : producers[k] \subseteq ProducerOf[k]
                        /\ consumers[k] \subseteq ConsumerOf[k]

\* Only its owner may join a channel that carries the owner's own schema, which
\* is never the empty one, and the channel goes when the owner leaves.
OwnerProduces ==
    \A k \in channels : channel_schema[k].owner \in Uids
        => /\ producers[k] = {channel_schema[k].owner}
           /\ channel_schema[k].hash # NoSchema

\* The inductive invariant behind the theorems about the registry: the safety
\* properties above with the two facts they need of each other.
HubInv ==
    /\ HubTypeOK /\ RosterMatchesPresence /\ AccessFollowsChannel
    /\ TopologyRespected /\ AllowlistIsRoster /\ PendingNeedsConfirmation
    /\ ConfirmedWasIssued /\ NoStaleProducerConfirmation /\ SidesApart
    /\ OwnerProduces /\ SchemaRecordBacksChannel
=============================================================================
