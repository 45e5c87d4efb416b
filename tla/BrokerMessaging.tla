-------------------------- MODULE BrokerMessaging --------------------------
(***************************************************************************)
(* The broker's message plane (broker_service.cpp): roles send requests    *)
(* and notifications over their own DEALER, one broker thread takes them   *)
(* one at a time through WireDispatch to a handler, which changes the      *)
(* registry, replies to the sender and notifies others; scripts and the    *)
(* operator console push close and broadcast orders into queues that the   *)
(* same thread drains.  A role's blocking calls (role_api_base.cpp) keep   *)
(* a band index that has to follow what the broker says.                   *)
(*                                                                         *)
(* Every link is FIFO.  The registry is seen through its rosters and       *)
(* presence rows; HubState has the rest of it (ledger, schemas, attach     *)
(* queue, fan-in).  Channels here are bound by their producer.  One loop   *)
(* iteration runs its phases in a fixed order; each phase is one action    *)
(* and the phase that has nothing to do is not a step.                     *)
(***************************************************************************)
EXTENDS WireDispatch, SequencesExt

CONSTANTS Uids, Channels, Bands,
          Requests,             \* [Uids -> set of message bodies the role may send]
          Skews,                \* what the replay gate may find: {FALSE} or BOOLEAN
          Patient,              \* roles whose calls never time out
          MaxSent, MaxOrders    \* bounds: messages per role, orders

Unresolved == "tcp:0"
RoleTypes == {"producer", "consumer"}
Rows == Uids \X Channels \X RoleTypes

VARIABLES
    producers, consumers,   \* rosters of the open channels
    presence,               \* "absent", "registering", "live", "stalled"
    seen,                   \* rows with first_heartbeat_seen
    endpoint,               \* zmq_node_endpoint of the channel's producer
    bands,                  \* members, in the order they joined
    toBroker, toRole,       \* the two directions of each role's link
    sent,                   \* messages each role has sent
    call,                   \* the blocking call of each role's script, or NoCall
    local,                  \* what each role knows: see Blank
    closes, broadcasts,     \* close_request_queue_, broadcast_request_queue_
    ordered,                \* orders pushed so far
    \* history, for the properties
    stale,                  \* pairs of a role and a band or channel it may be wrong about
    beats                   \* rows whose heartbeat has reached the broker

registry == <<producers, consumers, presence, seen, endpoint, bands>>
vars == <<registry, toBroker, toRole, sent, call, local, closes, broadcasts, ordered,
          stale, beats>>

NoCall == [type |-> "none", id |-> 0, band |-> "", chan |-> ""]

\* A role's own state: RoleHandler::band_index_, the band members and channel
\* registrations its messages tell it of, and the address it was given to dial.
Blank == [index |-> {}, view |-> [b \in Bands |-> {}], member |-> {},
          told |-> [c \in Channels |-> ""]]

Init ==
    /\ producers = [c \in Channels |-> {}]
    /\ consumers = [c \in Channels |-> {}]
    /\ presence = [x \in Rows |-> "absent"]
    /\ seen = {}
    /\ endpoint = [c \in Channels |-> ""]
    /\ bands = [b \in Bands |-> <<>>]
    /\ toBroker = [u \in Uids |-> <<>>]
    /\ toRole = [u \in Uids |-> <<>>]
    /\ sent = [u \in Uids |-> 0]
    /\ call = [u \in Uids |-> NoCall]
    /\ local = [u \in Uids |-> Blank]
    /\ closes = <<>> /\ broadcasts = <<>> /\ ordered = 0
    /\ stale = {} /\ beats = {}

Parties(c) == consumers[c] \cup producers[c]
Open(c) == Parties(c) # {}

----------------------------------------------------------------------------
(* What the broker sends.  out is a function from roles to messages.       *)

Nothing == [u \in Uids |-> <<>>]
Only(u, m) == [Nothing EXCEPT ![u] = <<m>>]
ToAll(S, m) == [u \in Uids |-> IF u \in S THEN <<m>> ELSE <<>>]
Then(o1, o2) == [u \in Uids |-> o1[u] \o o2[u]]

\* send_reply and send_to_identity: a frame the envelope refuses to build is
\* dropped with a warning.
Deliver(out) ==
    toRole' = [u \in Uids |->
                 toRole[u] \o SelectSeq(out[u], LAMBDA m : Sendable(m.type, m.id))]

\* Variant: only the consumers are told.
SendClosingNotifyConsumers(c) == ToAll(consumers[c], Notice("CHANNEL_CLOSING_NOTIFY", c))

\* send_closing_notify: consumers, then producers.
SendClosingNotify(c) == ToAll(Parties(c), Notice("CHANNEL_CLOSING_NOTIFY", c))

\* send_band_leave_notify, called for each role of gone in turn once that
\* role is out of the band: who is still a member hears of it.
BandLeaveNotices(u, gone) ==
    FlattenSeq(SetToSeq({
        LET hears == {i \in 1..Len(gone) : /\ Contains(bands[b], gone[i])
                                           /\ Contains(bands[b], u)
                                           /\ \A j \in 1..i : gone[j] # u}
        IN  [k \in 1..Cardinality(hears) |->
               Notice("BAND_LEAVE_NOTIFY",
                      <<b, gone[CHOOSE i \in hears :
                                  Cardinality({j \in hears : j <= i}) = k]>>)]
        : b \in Bands}))

----------------------------------------------------------------------------
(* Registry effects shared by the handlers (HubState's mutators).          *)

\* The presence rows of the parties of c.
PartyRows(c) == {<<u, c, "producer">> : u \in producers[c]}
                \cup {<<u, c, "consumer">> : u \in consumers[c]}

\* The roles left without a row once those of gone are erased, producers
\* before consumers (the order of _on_channel_closed).
DeadRoles(gone) ==
    LET dead(t) == {u \in Uids : /\ \E c \in Channels : <<u, c, t>> \in gone
                                 /\ \A x \in Rows \ gone : x[1] = u => presence[x] = "absent"}
    IN  SetToSeq(dead("producer")) \o SetToSeq(dead("consumer") \ dead("producer"))

\* The rows of gone are erased, and a role without a row leaves its bands
\* (cascade_role_terminal_cleanup_locked).
EraseRows(gone) ==
    LET dead == Range(DeadRoles(gone)) IN
    /\ presence' = [x \in Rows |-> IF x \in gone THEN "absent" ELSE presence[x]]
    /\ seen' = seen \ gone
    /\ bands' = [b \in Bands |-> SelectSeq(bands[b], LAMBDA u : u \notin dead)]

LeaveNotices(gone) == [u \in Uids |-> BandLeaveNotices(u, DeadRoles(gone))]

\* A channel closes: everyone on it is told, then its rows go.  The rows that
\* leave a role without presence also take it out of its bands; it is told of
\* the channel, not of the bands.
CloseChannel(c) ==
    LET gone == PartyRows(c) IN
    /\ producers' = [producers EXCEPT ![c] = {}]
    /\ consumers' = [consumers EXCEPT ![c] = {}]
    /\ endpoint' = [endpoint EXCEPT ![c] = ""]
    /\ EraseRows(gone)

----------------------------------------------------------------------------
(* The handlers.  Each is one action on the message m of role u; reply and *)
(* notices go out with it.                                                 *)

Refuse(u, m, code) == Deliver(Only(u, ErrorReply(m, code))) /\ UNCHANGED registry


Answer(u, m, body) == Deliver(Only(u, Ack(m, body))) /\ UNCHANGED registry

\* handle_reg_req: a producer binds the channel, with the address it has so far.
HandleRegReq(u, m) ==
    IF producers[m.chan] # {} THEN Refuse(u, m, "CHANNEL_HAS_PRODUCER") ELSE
    /\ producers' = [producers EXCEPT ![m.chan] = {u}]
    /\ endpoint' = [endpoint EXCEPT ![m.chan] = m.endpoint]
    /\ presence' = [presence EXCEPT ![<<u, m.chan, "producer">>] = "registering"]
    /\ Deliver(Only(u, Ack(m, m.chan)))
    /\ UNCHANGED <<consumers, seen, bands>>

\* handle_consumer_reg_req: refused until the producer is there, has an
\* address and is live; the reply carries the address to dial.
HandleConsumerRegReq(u, m) ==
    LET c == m.chan
        states == {presence[<<p, c, "producer">>] : p \in producers[c]}
    IN  CASE producers[c] = {} -> Refuse(u, m, "CHANNEL_NOT_FOUND")
          [] endpoint[c] = Unresolved -> Refuse(u, m, "CHANNEL_NOT_READY")
          [] states # {"live"} -> Refuse(u, m, "CHANNEL_NOT_READY")
          [] OTHER ->
               /\ consumers' = [consumers EXCEPT ![c] = @ \cup {u}]
               /\ presence' = [presence EXCEPT ![<<u, c, "consumer">>] =
                                 IF @ = "absent" THEN "registering" ELSE @]
               /\ Deliver(Then(ToAll(producers[c], Notice("CHANNEL_AUTH_CHANGED_NOTIFY", c)),
                               Only(u, Ack(m, endpoint[c]))))
               /\ UNCHANGED <<producers, seen, endpoint, bands>>

\* handle_dereg_req: the channel goes with its producer, who is among those told.
HandleDeregReq(u, m) ==
    LET c == m.chan IN
    IF u \notin producers[c] THEN Refuse(u, m, "NOT_REGISTERED") ELSE
    /\ CloseChannel(c)
    /\ Deliver(Then(LeaveNotices(PartyRows(c)),
                    Then(SendClosingNotify(c), Only(u, Ack(m, c)))))

\* handle_consumer_dereg_req: the producer hears that its allowlist changed.
HandleConsumerDeregReq(u, m) ==
    LET c == m.chan
        gone == {<<u, c, "consumer">>}
    IN  IF u \notin consumers[c] THEN Refuse(u, m, "NOT_REGISTERED") ELSE
        /\ consumers' = [consumers EXCEPT ![c] = @ \ {u}]
        /\ EraseRows(gone)
        /\ Deliver(Then(LeaveNotices(gone),
                        Then(ToAll(producers[c], Notice("CHANNEL_AUTH_CHANGED_NOTIFY", c)),
                             Only(u, Ack(m, c)))))
        /\ UNCHANGED <<producers, endpoint>>

\* handle_disc_req: pending until the producer's first heartbeat, not ready
\* until its address is resolved.
HandleDiscReq(u, m) ==
    LET c == m.chan
        states == {presence[<<p, c, "producer">>] : p \in producers[c]}
    IN  CASE states = {} -> Refuse(u, m, "CHANNEL_NOT_FOUND")
          [] states # {"live"} -> Answer(u, m, "pending")
          [] endpoint[c] = Unresolved -> Refuse(u, m, "CHANNEL_NOT_READY")
          [] OTHER -> Answer(u, m, endpoint[c])

\* Variant: an address may change under consumers that were given it.
EndpointFrozenNever(c) == FALSE

\* A resolved address does not change once a dialing peer is admitted.
EndpointFrozen(c) == endpoint[c] # Unresolved /\ consumers[c] # {}

\* handle_endpoint_update_req.
HandleEndpointUpdateReq(u, m) ==
    LET c == m.chan IN
    CASE ~Open(c) -> Refuse(u, m, "CHANNEL_NOT_FOUND")
      [] u \notin producers[c] -> Refuse(u, m, "NOT_CHANNEL_OWNER")
      [] endpoint[c] = m.endpoint -> Answer(u, m, c)
      [] endpoint[c] # m.endpoint /\ EndpointFrozen(c) ->
            Refuse(u, m, "ENDPOINT_CHANGE_FORBIDDEN")
      [] OTHER -> /\ endpoint' = [endpoint EXCEPT ![c] = m.endpoint]
                  /\ Deliver(Only(u, Ack(m, c)))
                  /\ UNCHANGED <<producers, consumers, presence, seen, bands>>

\* handle_heartbeat_req: an unknown channel or row is dropped; the first
\* heartbeat of the dialing side tells the producer.
HandleHeartbeat(u, m) ==
    LET x == <<u, m.chan, m.role_type>>
        known == Open(m.chan) /\ presence[x] # "absent"
    IN  /\ presence' = IF known THEN [presence EXCEPT ![x] = "live"] ELSE presence
        /\ seen' = IF known THEN seen \cup {x} ELSE seen
        /\ Deliver(IF known /\ x \notin seen /\ m.role_type = "consumer"
                   THEN ToAll(producers[m.chan], Notice("CHANNEL_AUTH_CHANGED_NOTIFY", m.chan))
                   ELSE Nothing)
        /\ UNCHANGED <<producers, consumers, endpoint, bands>>

\* handle_band_join_req: who is a member already is told (a role that joins
\* again hears of itself), then the list is extended and sent back.
HandleBandJoin(u, m) ==
    LET b == m.band
        after == Append(SelectSeq(bands[b], LAMBDA v : v # u), u)
    IN  /\ bands' = [bands EXCEPT ![b] = after]
        /\ Deliver(Then(ToAll(Range(bands[b]), Notice("BAND_JOIN_NOTIFY", <<b, u>>)),
                        Only(u, Ack(m, <<b, Range(after)>>))))
        /\ UNCHANGED <<producers, consumers, presence, seen, endpoint>>

\* handle_band_leave_req.
HandleBandLeave(u, m) ==
    LET b == m.band
        after == SelectSeq(bands[b], LAMBDA v : v # u)
    IN  IF ~Contains(bands[b], u) THEN Refuse(u, m, "NOT_A_MEMBER") ELSE
        /\ bands' = [bands EXCEPT ![b] = after]
        /\ Deliver(Then(ToAll(Range(after), Notice("BAND_LEAVE_NOTIFY", <<b, u>>)),
                        Only(u, Ack(m, <<b, {}>>))))
        /\ UNCHANGED <<producers, consumers, presence, seen, endpoint>>

\* handle_band_broadcast_req: a non-member's broadcast is dropped, the sender
\* does not hear its own.
HandleBandBroadcast(u, m) ==
    LET b == m.band IN
    /\ Deliver(IF Contains(bands[b], u)
               THEN ToAll(Range(bands[b]) \ {u},
                          Notice("BAND_BROADCAST_DELIVER_NOTIFY", <<b, u>>))
               ELSE Nothing)
    /\ UNCHANGED registry

\* handle_channel_broadcast_req and handle_checksum_error_report: everyone on
\* the channel, the sender included.
ToParties(c, type) == ToAll(Parties(c), Notice(type, c))

\* handle_get_channel_auth_req: the allowlist, for the binding side only.
HandleGetChannelAuth(u, m) ==
    CASE ~Open(m.chan) -> Refuse(u, m, "CHANNEL_NOT_FOUND")
      [] u \notin producers[m.chan] -> Refuse(u, m, "PRODUCER_NOT_AUTHORIZED")
      [] OTHER -> Answer(u, m, consumers[m.chan])

\* handle_consumer_attach_req_shm: the producer asks whether a consumer is
\* admitted before it hands over the segment; m.endpoint names the consumer.
HandleAttachReqShm(u, m) ==
    CASE ~Open(m.chan) -> Refuse(u, m, "CHANNEL_NOT_FOUND")
      [] u \notin producers[m.chan] -> Refuse(u, m, "PRODUCER_NOT_AUTHORIZED")
      [] OTHER -> Answer(u, m, IF m.endpoint \in consumers[m.chan] THEN "success" ELSE "denied")

\* handle_schema_req, by channel.
HandleSchemaReq(u, m) ==
    IF Open(m.chan) THEN Answer(u, m, m.chan) ELSE Refuse(u, m, "CHANNEL_NOT_FOUND")

\* handle_role_presence_req: the first channel that lists the role.
HandleRolePresence(u, m) ==
    Answer(u, m, [present |-> \E c \in Channels : m.uid \in Parties(c)])

\* handle_role_info_req: a producer entry is preferred to a consumer entry.
HandleRoleInfo(u, m) ==
    Answer(u, m, [found |-> IF \E c \in Channels : m.uid \in producers[c] THEN "producer"
                            ELSE IF \E c \in Channels : m.uid \in consumers[c] THEN "consumer"
                            ELSE "none"])

\* handle_channel_list_req.
HandleChannelList(u, m) == Answer(u, m, [c \in {d \in Channels : Open(d)} |-> consumers[c]])

\* collect_shm_info: producer and consumers of each block.
ShmInfo == [c \in {d \in Channels : Open(d)} |-> Parties(c)]

\* handle_metrics_req.
HandleMetricsReq(u, m) == Answer(u, m, ShmInfo)

\* handle_shm_block_query: the same, without a correlation id.
HandleShmBlockQuery(u, m) ==
    /\ Deliver(Only(u, [Ack(m, ShmInfo) EXCEPT !.id = 0]))
    /\ UNCHANGED registry

\* process_message, by group: registration ...
ProcessRegistration(u, m) ==
    CASE m.type = "REG_REQ" -> HandleRegReq(u, m)
      [] m.type = "CONSUMER_REG_REQ" -> HandleConsumerRegReq(u, m)
      [] m.type = "DEREG_REQ" -> HandleDeregReq(u, m)
      [] m.type = "CONSUMER_DEREG_REQ" -> HandleConsumerDeregReq(u, m)
      [] m.type = "DISC_REQ" -> HandleDiscReq(u, m)
      [] m.type = "GET_CHANNEL_AUTH_REQ" -> HandleGetChannelAuth(u, m)
      [] m.type = "CONSUMER_ATTACH_REQ_SHM" -> HandleAttachReqShm(u, m)

\* ... notifications and queries ...
ProcessQuery(u, m) ==
    CASE m.type = "HEARTBEAT_NOTIFY" -> HandleHeartbeat(u, m)
      [] m.type = "CHECKSUM_ERROR_REPORT" ->
            Deliver(ToParties(m.chan, "CHANNEL_EVENT_NOTIFY")) /\ UNCHANGED registry
      [] m.type = "CHANNEL_BROADCAST_SEND_NOTIFY" ->
            Deliver(ToParties(m.chan, "CHANNEL_BROADCAST_DELIVER_NOTIFY"))
            /\ UNCHANGED registry
      [] m.type = "SCHEMA_REQ" -> HandleSchemaReq(u, m)
      [] m.type = "CHANNEL_LIST_REQ" -> HandleChannelList(u, m)
      [] m.type = "METRICS_REQ" -> HandleMetricsReq(u, m)
      [] m.type = "SHM_BLOCK_QUERY_REQ" -> HandleShmBlockQuery(u, m)
      [] m.type = "ROLE_PRESENCE_REQ" -> HandleRolePresence(u, m)
      [] m.type = "ROLE_INFO_REQ" -> HandleRoleInfo(u, m)

\* ... addresses and bands.
ProcessGroup(u, m) ==
    CASE m.type = "ENDPOINT_UPDATE_REQ" -> HandleEndpointUpdateReq(u, m)
      [] m.type = "BAND_JOIN_REQ" -> HandleBandJoin(u, m)
      [] m.type = "BAND_LEAVE_REQ" -> HandleBandLeave(u, m)
      [] m.type = "BAND_BROADCAST_SEND_NOTIFY" -> HandleBandBroadcast(u, m)
      [] m.type = "BAND_MEMBERS_REQ" -> Answer(u, m, <<m.band, Range(bands[m.band])>>)

Process(u, m) ==
    CASE ~Known(m) -> Refuse(u, m, "UNKNOWN_MSG_TYPE")
      [] m.type \in {"REG_REQ", "CONSUMER_REG_REQ", "DEREG_REQ", "CONSUMER_DEREG_REQ",
                     "DISC_REQ", "GET_CHANNEL_AUTH_REQ", "CONSUMER_ATTACH_REQ_SHM"} ->
            ProcessRegistration(u, m)
      [] m.type \in {"ENDPOINT_UPDATE_REQ", "BAND_JOIN_REQ", "BAND_LEAVE_REQ",
                     "BAND_BROADCAST_SEND_NOTIFY", "BAND_MEMBERS_REQ"} -> ProcessGroup(u, m)
      [] OTHER -> ProcessQuery(u, m)

----------------------------------------------------------------------------
(* The phases of the broker's loop (BrokerServiceImpl::run).               *)

\* The histories: a role that leaves a band without asking is not told, and
\* refreshed are the pairs a reply on its way will settle.
History(refreshed, beat) ==
    /\ stale' = (stale \cup {e \in Uids \X Bands : /\ Contains(bands[e[2]], e[1])
                                                   /\ ~Contains(bands'[e[2]], e[1])}
                       \cup {e \in Uids \X Channels : /\ e[1] \in consumers[e[2]]
                                                      /\ e[1] \notin consumers'[e[2]]
                                                      /\ producers'[e[2]] # {}})
                \ refreshed
    /\ beats' = {x \in beats \cup beat : presence'[x] # "absent"}

\* The reply to a join, a leave, a registration or its end settles the matter
\* when the call still waits for it; a refused registration leaves it open.
Refreshed(u, m) ==
    LET replies == {i \in DOMAIN toRole'[u] : m.id # 0 /\ toRole'[u][i].id = m.id}
        settles == \/ m.type \in {"BAND_JOIN_REQ", "BAND_LEAVE_REQ"}
                   \/ /\ m.type \in {"REG_REQ", "CONSUMER_REG_REQ", "DEREG_REQ",
                                    "CONSUMER_DEREG_REQ"}
                      /\ \A i \in replies : toRole'[u][i].type # "ERROR"
    IN  IF m.id = call[u].id /\ replies # {} /\ settles
        THEN {<<u, m.band>>, <<u, m.chan>>} ELSE {}

\* receive_and_validate and dispatch_received: a refused message is answered
\* unless its frames did not parse; skewed is what the replay gate finds.
Receive(u, skewed) ==
    /\ toBroker[u] # <<>>
    /\ LET m == Head(toBroker[u])
           x == <<u, m.chan, m.role_type>>
           verdict == Verdict(m, skewed)
       IN  /\ skewed => verdict = "REPLAY_OR_SKEW"
           /\ CASE verdict = "ok" -> Process(u, m)
                [] verdict = "UNPARSED" -> UNCHANGED <<registry, toRole>>
                [] OTHER -> Refuse(u, m, verdict)
           /\ History(Refreshed(u, m),
                      IF m.type = "HEARTBEAT_NOTIFY" THEN {x} \cap Rows ELSE {})
    /\ toBroker' = [toBroker EXCEPT ![u] = Tail(@)]
    /\ UNCHANGED <<sent, call, local, closes, broadcasts, ordered>>

\* The close requests queued so far, one after the other; what closes first
\* may not be there for the next.  The order of the notices is that of the
\* queue drain: the parties are told before the rows go.
DrainCloses ==
    /\ closes # <<>>
    /\ LET c == Head(closes) IN
       IF Open(c)
       THEN /\ CloseChannel(c)
            /\ Deliver(Then(SendClosingNotify(c), LeaveNotices(PartyRows(c))))
       ELSE UNCHANGED <<registry, toRole>>
    /\ closes' = Tail(closes)
    /\ History({}, {})
    /\ UNCHANGED <<toBroker, sent, call, local, broadcasts, ordered>>

\* Closes are drained before broadcasts, whatever order they were pushed in.
DrainBroadcasts ==
    /\ closes = <<>> /\ broadcasts # <<>>
    /\ Deliver(ToParties(Head(broadcasts), "CHANNEL_BROADCAST_DELIVER_NOTIFY"))
    /\ broadcasts' = Tail(broadcasts)
    /\ UNCHANGED <<registry, toBroker, sent, call, local, closes, ordered, stale, beats>>

\* check_heartbeat_timeouts, first pass, for one row.
Demote(x) ==
    /\ presence[x] \in {"registering", "live"}
    /\ presence' = [presence EXCEPT ![x] = "stalled"]
    /\ UNCHANGED <<producers, consumers, seen, endpoint, bands, toBroker, toRole, sent, call,
                   local, closes, broadcasts, ordered, stale, beats>>

\* Second pass: a producer takes its channel with it and is told, a consumer
\* goes alone and is not; its producer is.
Reap(x) ==
    LET u == x[1]
        c == x[2]
        gone == {x}
    IN  /\ presence[x] = "stalled"
        /\ IF x[3] = "producer"
           THEN /\ CloseChannel(c)
                /\ Deliver(Then(LeaveNotices(PartyRows(c)), SendClosingNotify(c)))
           ELSE /\ consumers' = [consumers EXCEPT ![c] = @ \ {u}]
                /\ EraseRows(gone)
                /\ Deliver(Then(LeaveNotices(gone),
                      Then(ToAll(producers[c], Notice("CONSUMER_DIED_NOTIFY", <<c, u>>)),
                           ToAll(producers[c], Notice("CHANNEL_AUTH_CHANGED_NOTIFY", c)))))
                /\ UNCHANGED <<producers, endpoint>>
        /\ History({}, {})
        /\ UNCHANGED <<toBroker, sent, call, local, closes, broadcasts, ordered>>

\* request_close_channel and request_broadcast_channel, from a script or console.
Order(c) ==
    /\ ordered < MaxOrders
    /\ ordered' = ordered + 1
    /\ \/ closes' = Append(closes, c) /\ UNCHANGED broadcasts
       \/ broadcasts' = Append(broadcasts, c) /\ UNCHANGED closes
    /\ UNCHANGED <<registry, toBroker, toRole, sent, call, local, stale, beats>>

----------------------------------------------------------------------------
(* The role's side.                                                        *)

\* Routing by band_index_: a band the role does not know is left, queried or
\* broadcast to without anything being sent.
RoutesBand(u, r) ==
    r.type \in {"BAND_LEAVE_REQ", "BAND_MEMBERS_REQ", "BAND_BROADCAST_SEND_NOTIFY"}
        => r.band \in local[u].index

\* A request or notification goes out, with a correlation id of its own; a
\* request blocks the script.
Send(u, r) ==
    LET request == r.type \notin FireAndForgetTypes
        m == [type |-> r.type, from |-> u, frames |-> 5, uid |-> r.uid, id |-> sent[u] + 1,
              role_type |-> r.role_type, chan |-> r.chan, band |-> r.band,
              endpoint |-> r.endpoint]
    IN  /\ sent[u] < MaxSent
        /\ request => call[u] = NoCall
        /\ RoutesBand(u, r)
        /\ toBroker' = [toBroker EXCEPT ![u] = Append(@, m)]
        /\ sent' = [sent EXCEPT ![u] = @ + 1]
        /\ call' = IF request
                   THEN [call EXCEPT ![u] = [type |-> r.type, id |-> m.id, band |-> r.band,
                                             chan |-> r.chan]]
                   ELSE call
        /\ UNCHANGED <<registry, toRole, local, closes, broadcasts, ordered, stale, beats>>

\* The call times out: the role's bookkeeping stays as it is.
GiveUp(u) ==
    /\ call[u] # NoCall /\ u \notin Patient
    /\ call' = [call EXCEPT ![u] = NoCall]
    /\ stale' = stale \cup {<<u, call[u].band>>, <<u, call[u].chan>>}
    /\ UNCHANGED <<registry, toBroker, toRole, sent, local, closes, broadcasts, ordered, beats>>

\* Variant: a refused leave keeps the band in the index.
AfterBandReplyKept(s, b, m) ==
    IF m.type = "BAND_JOIN_ACK"
    THEN [s EXCEPT !.index = @ \cup {b}, !.view[b] = m.body[2]]
    ELSE IF m.type = "ERROR" THEN s
    ELSE [s EXCEPT !.index = @ \ {b}, !.view[b] = {}]

\* band_join and band_leave after the reply: an error of either clears the band.
AfterBandReply(s, b, m) ==
    IF m.type = "BAND_JOIN_ACK"
    THEN [s EXCEPT !.index = @ \cup {b}, !.view[b] = m.body[2]]
    ELSE [s EXCEPT !.index = @ \ {b}, !.view[b] = {}]

\* What a role knows after the reply m to its call c.
AfterReply(s, c, m) ==
    CASE c.type \in {"BAND_JOIN_REQ", "BAND_LEAVE_REQ"} -> AfterBandReply(s, c.band, m)
      [] m.type = "REG_ACK" -> [s EXCEPT !.member = @ \cup {<<c.chan, "producer">>}]
      [] m.type = "CONSUMER_REG_ACK" ->
            [s EXCEPT !.member = @ \cup {<<c.chan, "consumer">>}, !.told[c.chan] = m.body]
      [] m.type = "DEREG_ACK" -> [s EXCEPT !.member = @ \ {<<c.chan, "producer">>}]
      [] m.type = "CONSUMER_DEREG_ACK" -> [s EXCEPT !.member = @ \ {<<c.chan, "consumer">>}]
      [] OTHER -> s

\* ... and after a notification.
AfterNotice(s, m) ==
    CASE m.type = "BAND_JOIN_NOTIFY" -> [s EXCEPT !.view[m.body[1]] = @ \cup {m.body[2]}]
      [] m.type = "BAND_LEAVE_NOTIFY" -> [s EXCEPT !.view[m.body[1]] = @ \ {m.body[2]}]
      [] m.type = "CHANNEL_CLOSING_NOTIFY" ->
            [s EXCEPT !.member = {x \in @ : x[1] # m.body}, !.told[m.body] = ""]
      [] OTHER -> s

\* A reply is taken by the call whose correlation id it carries; one that comes
\* after the call gave up is dropped.
After(s, c, m) ==
    IF m.id = 0 THEN AfterNotice(s, m)
    ELSE IF m.id = c.id THEN AfterReply(s, c, m) ELSE s

Take(u) ==
    /\ toRole[u] # <<>>
    /\ LET m == Head(toRole[u])
           answers == m.id # 0 /\ m.id = call[u].id
       IN  /\ local' = [local EXCEPT ![u] = After(@, call[u], m)]
           /\ call' = IF answers THEN [call EXCEPT ![u] = NoCall] ELSE call
    /\ toRole' = [toRole EXCEPT ![u] = Tail(@)]
    /\ UNCHANGED <<registry, toBroker, sent, closes, broadcasts, ordered, stale, beats>>

RoleStep(u) == (\E r \in Requests[u] : Send(u, r)) \/ GiveUp(u) \/ Take(u)

Next ==
    \/ \E u \in Uids : RoleStep(u) \/ \E skewed \in Skews : Receive(u, skewed)
    \/ DrainCloses \/ DrainBroadcasts
    \/ \E x \in Rows : Demote(x) \/ Reap(x)
    \/ \E c \in Channels : Order(c)

Spec == Init /\ [][Next]_vars

----------------------------------------------------------------------------
\* What role u will know once it has read everything on its way to it.
Settled(u) == FoldLeft(LAMBDA s, m : After(s, call[u], m), local[u], toRole[u])


\* Once a member has read its messages, the member list it can build from the
\* join reply and the join and leave notices is the broker's, and its band
\* index agrees with the broker; except after a call that timed out, or an
\* eviction that the broker does not tell it of (handle_band_join_req,
\* send_band_leave_notify, band_join and band_leave of role_api_base.cpp).
BandsAgree ==
    \A u \in Uids, b \in Bands : <<u, b>> \notin stale =>
        LET s == Settled(u)
            joined == Contains(bands[b], u)
        IN  (b \in s.index <=> joined) /\ (joined => s.view[b] = Range(bands[b]))

\* Once a role has read its messages it knows which channels it is on; except
\* after a call that timed out, and for a consumer the sweep reaped: it is told
\* nothing (handle_dereg_req, send_closing_notify, check_heartbeat_timeouts).
RegistrationsAgree ==
    \A u \in Uids, c \in Channels : <<u, c>> \notin stale =>
        LET s == Settled(u) IN
        /\ <<c, "producer">> \in s.member <=> u \in producers[c]
        /\ <<c, "consumer">> \in s.member <=> u \in consumers[c]

\* The address a registered consumer was given is the producer's address: it
\* cannot move under an admitted peer, and a reopened channel hands out its own
\* (handle_endpoint_update_req, handle_consumer_reg_req).
EndpointsAgree ==
    \A c \in Channels : \A u \in consumers[c] :
        <<u, c>> \notin stale => Settled(u).told[c] = endpoint[c]

\* A heartbeat the broker has received counts: its row is no longer waiting for
\* the first one (gate_role_tag_policy, handle_heartbeat_req).
HeartbeatsCount == \A x \in beats : presence[x] # "registering"
=============================================================================
