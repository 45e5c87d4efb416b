----------------------------- MODULE ChannelAuth -----------------------------
(***************************************************************************)
(* How a peer of a ZMQ channel comes to be let in.  The broker admits the  *)
(* keys of the dialing side into the channel's ledger and rings a doorbell *)
(* (CHANNEL_AUTH_CHANGED_NOTIFY) at the binding side; the binding role     *)
(* pulls the allowlist (GET_CHANNEL_AUTH_REQ), installs it in its socket,  *)
(* and reports the version it applied (CHANNEL_AUTH_APPLIED_REQ).  Only    *)
(* then is a dialing role told to connect: a consumer of fan-out or        *)
(* one-to-one by the answer to its attach request, a producer of fan-in by *)
(* polling CHECK_PEER_READY.  Doorbells and requests get lost, roles crash *)
(* and come back, and the broker reaps roles whose heartbeats stop.        *)
(*                                                                         *)
(* One channel, one binding role and any number of dialing roles.          *)
(***************************************************************************)
EXTENDS AdmissionLedger

CONSTANT Binder     \* the uid of the binding role; the others dial

ASSUME BinderAssumption == Binder \in Uids

Dialers == Uids \ {Binder}

VARIABLES
    fan_in,         \* the consumer binds (fan-in), or else the producer
    \* The broker
    rows,           \* roles on the channel's rosters
    heard,          \* the binding role's first heartbeat has arrived
    published,      \* fan-in: the binding role's endpoint is on the channel
    access,         \* the channel's ledger
    instance,       \* registrations of the binding role so far
    pending,        \* attach requests that wait: dialer and target version
    \* In flight
    bells,          \* doorbells on their way to, or queued at, the binder
    applied,        \* applied requests: registration they come from, version
    \* The binding role
    bstate, allowlist, held,
    synced,         \* it has had the whole allowlist since it registered
    missed,         \* it lost a doorbell, a pull or an applied request since
    \* The dialing roles
    dialer,         \* where each one is in its start-up
    ack             \* snapshot_version of its REG_ACK, -1 if no dial target

brokerVars == <<rows, heard, published, access, instance, pending>>
binderVars == <<bstate, allowlist, held, synced, missed>>
dialerVars == <<dialer, ack>>
vars == <<fan_in, brokerVars, bells, applied, binderVars, dialerVars>>

BinderStates == {"down", "registering", "idle", "pulled"}
DialerStates == {"out", "registered", "waiting", "cleared", "connected", "denied"}
NoReply == [keys |-> {}, version |-> 0]

Init ==
    /\ fan_in \in BOOLEAN
    /\ rows = {} /\ heard = FALSE /\ published = FALSE
    /\ access = EmptyLedger /\ instance = 0 /\ pending = {}
    /\ bells = 0 /\ applied = {}
    /\ bstate = "down" /\ allowlist = {} /\ held = NoReply
    /\ synced = FALSE /\ missed = FALSE
    /\ dialer = [d \in Dialers |-> "out"]
    /\ ack = [d \in Dialers |-> -1]

(***************************************************************************)
(* Broker helpers                                                          *)
(***************************************************************************)
\* fire_channel_auth_changed_notify: sent to the binding role on the roster,
\* and only a running process keeps it.
Ring == bells' = IF Binder \in rows /\ bstate # "down" THEN bells + 1 ELSE bells

\* The attach requests of S are answered with a refusal; a start-up that fails
\* ends the process.
Refuse(S) == [d \in Dialers |-> IF \E e \in S : e.dialer = d THEN "out"
                                                             ELSE dialer[d]]

\* The last producer is gone: rosters, ledger and waiting attaches go with it.
CloseChannel ==
    /\ rows' = {} /\ heard' = FALSE /\ published' = FALSE
    /\ access' = EmptyLedger
    /\ pending' = {} /\ dialer' = Refuse(pending)

(***************************************************************************)
(* The binding role registers                                              *)
(***************************************************************************)
\* REG_REQ of a binding producer, which opens the channel (its uid must not be
\* on the roster), or CONSUMER_REG_REQ of a binding consumer, which may find
\* producers there and replaces its own row.  A producer's confirmation is
\* reset, a consumer's is not.
BinderRegister ==
    /\ bstate = "down" /\ (fan_in \/ Binder \notin rows)
    /\ rows' = rows \cup {Binder} /\ heard' = FALSE
    /\ access' = IF fan_in THEN access ELSE ResetConfirmation(access, {Binder})
    /\ instance' = instance + 1
    /\ bstate' = "registering" /\ bells' = 0
    /\ allowlist' = {} /\ held' = NoReply /\ synced' = FALSE /\ missed' = FALSE
    /\ UNCHANGED <<fan_in, published, pending, applied, dialerVars>>

\* Producers a binding consumer's pre-attach loop may keep: their confirmation
\* is up to date.
AttachSucceeds == {d \in Dialers \cap rows :
                      access.confirmed[d] >= access.current_version}

\* apply_producer_reg_ack: the allowlist of the ACK is installed and its
\* version confirmed.  No consumer can have joined since the REG_REQ opened the
\* channel, so both are empty; confirming version 0 changes nothing.
ApplyProducerRegAck ==
    /\ bstate = "registering" /\ ~fan_in
    /\ bstate' = "idle" /\ heard' = (Binder \in rows)
    /\ allowlist' = Admitted(access) /\ synced' = TRUE
    /\ UNCHANGED <<fan_in, rows, published, access, instance, pending, bells,
                   applied, held, missed, dialerVars>>

\* apply_consumer_reg_ack on the binding side: the listed producers that
\* answered the attach with success become the allowlist, none is no failure,
\* nothing is confirmed, and the endpoint is published.
ApplyConsumerRegAck(S) ==
    /\ bstate = "registering" /\ fan_in
    /\ S \subseteq AttachSucceeds
    /\ bstate' = "idle" /\ heard' = (Binder \in rows)
    /\ allowlist' = S
    /\ published' = (Binder \in rows)
    /\ UNCHANGED <<fan_in, rows, access, instance, pending,
                   bells, applied, held, synced, missed, dialerVars>>

(***************************************************************************)
(* The binding role follows the ledger                                     *)
(***************************************************************************)
\* handle_channel_auth_notifies up to the reply of GET_CHANNEL_AUTH_REQ, which
\* handle_get_channel_auth_req answers for a binding role of the channel only.
PullAllowlist ==
    /\ bstate = "idle" /\ bells > 0
    /\ bells' = bells - 1
    /\ IF Binder \in rows
       THEN /\ bstate' = "pulled" /\ missed' = FALSE
            /\ held' = [keys |-> Admitted(access), version |-> access.current_version]
       ELSE UNCHANGED <<bstate, missed, held>>
    /\ UNCHANGED <<fan_in, brokerVars, applied, allowlist, synced, dialerVars>>

\* The rest of the handler: the allowlist is installed, then its version is
\* reported.  The role gives up on the answer after a while, so the request
\* may reach the broker at any later time.
InstallAllowlist ==
    /\ bstate = "pulled"
    /\ bstate' = "idle" /\ allowlist' = held.keys /\ synced' = TRUE
    /\ held' = NoReply
    /\ applied' = applied \cup {[instance |-> instance, version |-> held.version]}
    /\ UNCHANGED <<fan_in, brokerVars, bells, missed, dialerVars>>

\* A doorbell does not arrive, or the pull it leads to gets no answer.
LoseBell ==
    /\ bells > 0 /\ bells' = bells - 1 /\ missed' = TRUE
    /\ UNCHANGED <<fan_in, brokerVars, applied, bstate, allowlist, held, synced,
                   dialerVars>>

LoseApplied(m) ==
    /\ m \in applied /\ applied' = applied \ {m} /\ missed' = TRUE
    /\ UNCHANGED <<fan_in, brokerVars, bells, bstate, allowlist, held, synced,
                   dialerVars>>

\* Variant: the registration an applied request comes from is not looked at.
AcceptsAny(m) == Binder \in rows

\* handle_channel_auth_applied_req: the sender is on the roster, and a
\* producer's request names its current registration.
Accepts(m) == Binder \in rows /\ (fan_in \/ m.instance = instance)

\* The confirmation advances; attaches it satisfies are answered in order.
ChannelAuthApplied(m) ==
    LET l    == Confirm(access, Binder, m.version)
        done == {e \in pending : e.target <= l.confirmed[Binder]}
    IN  /\ m \in applied /\ applied' = applied \ {m}
        /\ IF Accepts(m)
           THEN /\ access' = l
                /\ pending' = IF fan_in THEN pending ELSE pending \ done
                /\ dialer' = [d \in Dialers |->
                      IF ~fan_in /\ \E e \in done : e.dialer = d THEN "cleared"
                                                                 ELSE dialer[d]]
           ELSE UNCHANGED <<access, pending, dialer>>
        /\ UNCHANGED <<fan_in, rows, heard, published, instance,
                       bells, binderVars, ack>>

(***************************************************************************)
(* The binding role goes                                                   *)
(***************************************************************************)
BinderStops ==
    /\ bstate' = "down" /\ bells' = 0
    /\ allowlist' = {} /\ held' = NoReply /\ synced' = FALSE /\ missed' = FALSE
    /\ UNCHANGED <<fan_in, instance, applied, ack>>

\* The process dies; the broker does not know yet.
BinderCrash ==
    /\ bstate # "down" /\ BinderStops
    /\ UNCHANGED <<rows, heard, published, access, pending, dialer>>

\* DEREG_REQ or CONSUMER_DEREG_REQ on the way down.
BinderLeave ==
    /\ bstate # "down" /\ Binder \in rows
    /\ BinderStops
    /\ IF fan_in
       THEN /\ rows' = rows \ {Binder} /\ heard' = FALSE
            /\ access' = ResetConfirmation(access, {Binder})
            /\ UNCHANGED <<published, pending, dialer>>
       ELSE CloseChannel

\* check_heartbeat_timeouts reaps the binding role's row.
ReapBinder ==
    /\ Binder \in rows
    /\ IF fan_in
       THEN /\ rows' = rows \ {Binder} /\ heard' = FALSE
            /\ UNCHANGED <<published, access, pending, dialer>>
       ELSE CloseChannel
    /\ UNCHANGED <<fan_in, instance, bells, applied, binderVars, ack>>

(***************************************************************************)
(* A dialing role starts                                                   *)
(***************************************************************************)
\* CONSUMER_REG_REQ of a dialing consumer: a live producer is required; the
\* key is admitted (once) and the doorbell rung.
ConsumerRegister(d) ==
    /\ ~fan_in /\ dialer[d] = "out" /\ Binder \in rows /\ heard
    /\ rows' = rows \cup {d}
    /\ access' = Admit(access, d)
    /\ dialer' = [dialer EXCEPT ![d] = "registered"]
    /\ Ring
    /\ UNCHANGED <<fan_in, heard, published, instance, pending,
                   applied, binderVars, ack>>

\* REG_REQ of a dialing producer: it may open the channel.  The ACK is written
\* before the key is admitted, and has a dial target only if the binding
\* consumer has published its endpoint.
ProducerRegister(d) ==
    /\ fan_in /\ dialer[d] = "out" /\ d \notin rows
    /\ rows' = rows \cup {d}
    /\ ack' = [ack EXCEPT ![d] = IF Binder \in rows /\ published
                                 THEN access.current_version ELSE -1]
    /\ access' = Admit(ResetConfirmation(access, {d}), d)
    /\ dialer' = [dialer EXCEPT ![d] = "registered"]
    /\ Ring
    /\ UNCHANGED <<fan_in, heard, published, instance, pending, applied,
                   binderVars>>

\* apply_producer_reg_ack of a dialing producer: it confirms the version of
\* its ACK (the request may be lost), puts the dial off and starts to poll.
DeferDial(d, lost) ==
    /\ fan_in /\ dialer[d] = "registered"
    /\ dialer' = [dialer EXCEPT ![d] = "waiting"]
    /\ access' = IF d \in rows /\ ~lost /\ ack[d] > 0
                 THEN Confirm(access, d, ack[d]) ELSE access
    /\ UNCHANGED <<fan_in, rows, heard, published, instance,
                   pending, bells, applied, binderVars, ack>>

\* is_visible_to: the key's admission is within the binding role's
\* confirmation.
VisibleTo(d) ==
    /\ Binder \in rows /\ access.admission[d] # 0
    /\ access.confirmed[Binder] >= access.admission[d]

\* One poll of finalize_connect: handle_check_peer_ready_req answers "ready", or
\* an error (not on the roster) that ends the start-up; without a dial target
\* start() refuses.  "not_ready" changes nothing.
CheckPeerReady(d) ==
    /\ fan_in /\ dialer[d] = "waiting"
    /\ \/ d \notin rows /\ dialer' = [dialer EXCEPT ![d] = "out"]
       \/ /\ d \in rows /\ VisibleTo(d)
          /\ dialer' = [dialer EXCEPT ![d] = IF ack[d] = -1 THEN "out"
                                                            ELSE "cleared"]
    /\ UNCHANGED <<fan_in, brokerVars, bells, applied, binderVars, ack>>

\* handle_consumer_attach_req_zmq, from the pre-attach loop of a dialing
\* consumer: refused, granted at once, or queued with another ring.
Attach(d) ==
    LET ok   == Binder \in rows /\ d \in Admitted(access)
        fast == access.confirmed[Binder] >= access.current_version
    IN  /\ ~fan_in /\ dialer[d] = "registered"
        /\ dialer' = [dialer EXCEPT ![d] = IF ~ok THEN "out"
                                           ELSE IF fast THEN "cleared"
                                           ELSE "waiting"]
        /\ IF ok /\ ~fast
           THEN /\ pending' = pending \cup
                      {[dialer |-> d, target |-> access.current_version]}
                /\ Ring
           ELSE UNCHANGED <<pending, bells>>
        /\ UNCHANGED <<fan_in, rows, heard, published, access,
                       instance, applied, binderVars, ack>>

\* sweep_pending_attach_timeouts_, the request's own timeout, and the deadline
\* of finalize_connect.
StartupTimeout(d) ==
    /\ dialer[d] = "waiting"
    /\ dialer' = [dialer EXCEPT ![d] = "out"]
    /\ pending' = {e \in pending : e.dialer # d}
    /\ UNCHANGED <<fan_in, rows, heard, published, access,
                   instance, bells, applied, binderVars, ack>>

\* The dial: the binding socket's ZAP handler looks the key up in the
\* allowlist (is_peer_allowed), and a refusal is final.
Dial(d) ==
    /\ dialer[d] = "cleared" /\ bstate \in {"idle", "pulled"}
    /\ dialer' = [dialer EXCEPT ![d] = IF d \in allowlist THEN "connected"
                                                          ELSE "denied"]
    /\ UNCHANGED <<fan_in, brokerVars, bells, applied, binderVars, ack>>

(***************************************************************************)
(* A dialing role goes                                                     *)
(***************************************************************************)
\* Its row goes.  A consumer's key is revoked, with a ring; a producer's stays
\* admitted, and the last producer takes the channel with it.
DropDialer(d) ==
    IF ~fan_in
    THEN /\ rows' = rows \ {d}
         /\ access' = Revoke(access, {d})
         /\ UNCHANGED <<heard, published>> /\ Ring
    ELSE /\ IF rows \subseteq {d, Binder}
            THEN /\ rows' = {} /\ heard' = FALSE /\ published' = FALSE
                 /\ access' = EmptyLedger
            ELSE /\ rows' = rows \ {d}
                 /\ access' = ResetConfirmation(access, {d})
                 /\ UNCHANGED <<heard, published>>
         /\ UNCHANGED bells

DialerStops(d) ==
    /\ dialer[d] # "out"
    /\ dialer' = [dialer EXCEPT ![d] = "out"]
    /\ pending' = {e \in pending : e.dialer # d}
    /\ ack' = [ack EXCEPT ![d] = -1]
    /\ UNCHANGED <<fan_in, instance, applied, binderVars>>

\* The process dies; an attach it had pending is answered to nobody.
DialerCrash(d) ==
    /\ DialerStops(d)
    /\ UNCHANGED <<rows, heard, published, access, bells>>

\* CONSUMER_DEREG_REQ or DEREG_REQ on the way down.
DialerLeave(d) == d \in rows /\ DialerStops(d) /\ DropDialer(d)

\* check_heartbeat_timeouts reaps the role's row, dead or merely slow; an
\* attach it has pending stays.
ReapDialer(d) ==
    /\ d \in rows /\ DropDialer(d)
    /\ UNCHANGED <<fan_in, instance, pending, applied, binderVars, dialerVars>>

(***************************************************************************)
(* The specification                                                       *)
(***************************************************************************)
BinderStep ==
    \/ BinderRegister \/ ApplyProducerRegAck
    \/ \E S \in SUBSET Dialers : ApplyConsumerRegAck(S)
    \/ PullAllowlist \/ InstallAllowlist
    \/ BinderCrash \/ BinderLeave \/ ReapBinder

Delivery ==
    \/ LoseBell
    \/ \E m \in applied : ChannelAuthApplied(m) \/ LoseApplied(m)

DialerStep(d) ==
    \/ ConsumerRegister(d) \/ ProducerRegister(d)
    \/ \E lost \in BOOLEAN : DeferDial(d, lost)
    \/ Attach(d) \/ CheckPeerReady(d) \/ StartupTimeout(d) \/ Dial(d)
    \/ DialerCrash(d) \/ DialerLeave(d) \/ ReapDialer(d)

Next == BinderStep \/ Delivery \/ \E d \in Dialers : DialerStep(d)

\* The role's loop serves its doorbells, the broker its requests, and a
\* dialing role polls; nothing else has to happen.
Fairness ==
    /\ WF_vars(PullAllowlist) /\ WF_vars(InstallAllowlist)
    /\ WF_vars(\E m \in applied : ChannelAuthApplied(m))
    /\ \A d \in Dialers : WF_vars(CheckPeerReady(d))

Spec == Init /\ [][Next]_vars /\ Fairness

(***************************************************************************)
(* Properties                                                              *)
(***************************************************************************)
\* The variables have their types: the broker's record of the channel, the
\* requests in flight and the roles' start-up states are well formed.
TypeOK ==
    /\ fan_in \in BOOLEAN /\ heard \in BOOLEAN
    /\ published \in BOOLEAN /\ synced \in BOOLEAN /\ missed \in BOOLEAN
    /\ rows \subseteq Uids /\ access \in Ledger /\ instance \in Nat
    /\ pending \subseteq [dialer : Dialers, target : Nat]
    /\ bells \in Nat /\ applied \subseteq [instance : Nat, version : Nat]
    /\ bstate \in BinderStates /\ allowlist \subseteq Dialers
    /\ held \in [keys : SUBSET Dialers, version : Nat]
    /\ dialer \in [Dialers -> DialerStates]
    /\ ack \in [Dialers -> Nat \cup {-1}]

\* The binding role is registered, its socket bound and its loop running.
Serving == Binder \in rows /\ bstate \in {"idle", "pulled"}

\* What the attach and readiness answers promise (handle_consumer_attach_req_zmq,
\* handle_check_peer_ready_req): a role that was told to connect, and is still
\* on the roster, finds its key in the allowlist of the serving binding role.
\* Under fan-in, for the first registration of the binding consumer.
ClearedIsAllowed ==
    Serving /\ (fan_in => instance = 1)
        => \A d \in Dialers \cap rows : dialer[d] = "cleared" => d \in allowlist

\* The answer "ready" (handle_check_peer_ready_req) means that the binding
\* role's ZAP has the key.  Not so once a binding consumer has come back: it
\* starts with an empty allowlist, but its old confirmation is in the ledger.
ReadyMeansAllowed ==
    Serving => \A d \in Dialers \cap rows : VisibleTo(d) => d \in allowlist

\* A binding role with nothing left to serve, and that lost nothing, has
\* exactly the ledger's keys installed: every change of the ledger rings
\* (fire_channel_auth_changed_notify).  A fan-in consumer must have pulled once.
DriftNeedsLoss ==
    Serving /\ bstate = "idle" /\ bells = 0 /\ ~missed /\ synced
        => allowlist = Admitted(access)

\* An attach that waits is one the binding role has yet to confirm
\* (drain_pending_attach_queue_for_producer_confirmed_ leaves none behind), and
\* its dialing role is waiting for it.
WaitersAreBehind ==
    \A e \in pending : /\ e.target > access.confirmed[Binder]
                       /\ dialer[e.dialer] = "waiting" /\ Binder \in rows

\* The broker's record, the allowlist of the binding role and the roles that
\* dial stay in step: who was told to connect is allowed, an idle binding role
\* that lost nothing has the ledger's keys, and who waits is behind.
AuthInStep == TypeOK /\ ClearedIsAllowed /\ DriftNeedsLoss /\ WaitersAreBehind

Waits(d) == dialer[d] = "waiting" /\ (fan_in => instance = 1 /\ ack[d] # -1)
Excused(d) ==
    dialer[d] # "waiting" \/ missed \/ bstate = "down" \/ Binder \notin rows
=============================================================================
