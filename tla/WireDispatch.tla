---------------------------- MODULE WireDispatch ----------------------------
(***************************************************************************)
(* The gate every control message passes before a broker handler sees it:  *)
(* the envelope parser (wire_envelope.cpp), the typed bodies               *)
(* (wire_bodies.cpp), the dispatch table and its tiers (wire_dispatch.cpp) *)
(* and the admission gates each tier runs (admission_gates.cpp); and the   *)
(* rule for what may be sent back.                                         *)
(*                                                                         *)
(* A message is a record of the parts these rules read: its type, the      *)
(* ROUTER identity it arrives under (from), the number of frames, the      *)
(* correlation id (0 for none) and the body fields uid, role_type, chan,   *)
(* band and endpoint ("" for an absent field).  Names are legal            *)
(* identifiers: the senders of this repository build them from validated   *)
(* configuration, so the grammar checks never refuse one.  A nonce is      *)
(* drawn anew for every request, so the replay gate refuses only on clock  *)
(* skew, which the caller of these operators decides.                      *)
(***************************************************************************)
EXTENDS Naturals, Sequences, FiniteSets

CONSTANTS TagOf,        \* extract_short_tag of a role uid: "prod", "cons", "proc"
          KnownRoles    \* the uids listed, with their keys, in known_roles

\* The types of kRequestReplyTypes and kFireAndForgetTypes that a role sends,
\* without the attach and readiness requests of HubState and ChannelAuth; the
\* types between hubs are not modelled.
RequestReplyTypes ==
    {"REG_REQ", "DISC_REQ", "DEREG_REQ", "CONSUMER_REG_REQ", "CONSUMER_DEREG_REQ",
     "ENDPOINT_UPDATE_REQ", "SCHEMA_REQ", "CHANNEL_LIST_REQ", "METRICS_REQ",
     "SHM_BLOCK_QUERY_REQ", "ROLE_PRESENCE_REQ", "ROLE_INFO_REQ", "BAND_JOIN_REQ",
     "BAND_LEAVE_REQ", "BAND_MEMBERS_REQ", "GET_CHANNEL_AUTH_REQ",
     "CONSUMER_ATTACH_REQ_SHM"}

FireAndForgetTypes ==
    {"HEARTBEAT_NOTIFY", "CHECKSUM_ERROR_REPORT", "CHANNEL_BROADCAST_SEND_NOTIFY",
     "BAND_BROADCAST_SEND_NOTIFY"}

NotifyTypes ==
    {"HEARTBEAT_NOTIFY", "CHANNEL_BROADCAST_SEND_NOTIFY", "BAND_BROADCAST_SEND_NOTIFY",
     "BAND_JOIN_NOTIFY", "BAND_LEAVE_NOTIFY", "BAND_BROADCAST_DELIVER_NOTIFY",
     "CHANNEL_CLOSING_NOTIFY", "CHANNEL_BROADCAST_DELIVER_NOTIFY", "CHANNEL_EVENT_NOTIFY",
     "CHANNEL_AUTH_CHANGED_NOTIFY", "CONSUMER_DIED_NOTIFY"}

Known(m) == m.type \in RequestReplyTypes \cup FireAndForgetTypes

\* build_dealer_send and build_router_send throw on a type that is not a
\* notification and carries no correlation id.
Sendable(type, id) == type \in NotifyTypes \/ id # 0

\* parse_router_recv: five frames, and a correlation id where one is due.
\* (Hash, JSON and length checks never refuse what build_dealer_send builds.)
Parses(m) == m.frames = 5 /\ Sendable(m.type, m.id)

\* The fields the typed body of a message requires.
RequiredFields(type) ==
    CASE type \in {"REG_REQ", "CONSUMER_REG_REQ", "DEREG_REQ", "CONSUMER_DEREG_REQ",
                   "GET_CHANNEL_AUTH_REQ"} -> {"uid", "chan"}
      [] type = "HEARTBEAT_NOTIFY" -> {"uid", "chan", "role_type"}
      [] type = "ENDPOINT_UPDATE_REQ" -> {"chan", "endpoint"}
      [] type = "DISC_REQ" -> {"chan"}
      [] OTHER -> {}
BodyOk(m) == \A f \in RequiredFields(m.type) : m[f] # ""

\* kDispatchTable: which gates a type passes.  A type without a row gets the
\* envelope checks only.
Tier(type) ==
    CASE type \in {"REG_REQ", "CONSUMER_REG_REQ"} -> "reg"
      [] type \in {"DEREG_REQ", "CONSUMER_DEREG_REQ"} -> "auth_reg"
      [] type = "ENDPOINT_UPDATE_REQ" -> "auth_reg_envelope"
      [] type \in {"HEARTBEAT_NOTIFY", "GET_CHANNEL_AUTH_REQ", "BAND_JOIN_REQ",
                   "BAND_LEAVE_REQ", "BAND_BROADCAST_SEND_NOTIFY"} -> "control"
      [] type \in {"ROLE_PRESENCE_REQ", "ROLE_INFO_REQ"} -> "query"
      [] OTHER -> "envelope"

\* gate_role_tag_policy.  A heartbeat's declared role_type names one tag.
RoleTagOk(type, uid, role_type) ==
    CASE type = "HEARTBEAT_NOTIFY" ->
            TagOf[uid] = CASE role_type = "producer" -> "prod"
                           [] role_type = "consumer" -> "cons"
                           [] role_type = "processor" -> "proc"
                           [] OTHER -> "none"
      [] type \in {"REG_REQ", "DEREG_REQ"} -> TagOf[uid] \in {"prod", "proc"}
      [] type \in {"CONSUMER_REG_REQ", "CONSUMER_DEREG_REQ"} -> TagOf[uid] \in {"cons", "proc"}
      [] OTHER -> TagOf[uid] \in {"prod", "cons", "proc"}

\* gate_identity_match: the ROUTER identity is the uid the body claims.
IdentityMatches(m) == m.from = m.uid

\* check_replay_bound, for a clock difference beyond the tolerance or within.
ReplayBoundOk(skewed) == ~skewed

\* run_reg_family_gates, in their order.
RegFamilyCode(m, skewed) ==
    CASE ~IdentityMatches(m) -> "IDENTITY_MISMATCH"
      [] ~RoleTagOk(m.type, m.uid, "") -> "INVALID_ROLE_TAG"
      [] m.uid \notin KnownRoles -> "UNKNOWN_ROLE"
      [] ~ReplayBoundOk(skewed) -> "REPLAY_OR_SKEW"
      [] OTHER -> "ok"

\* run_authenticated_reg_family_gates; uid is the identity itself for a body
\* that names none (ENDPOINT_UPDATE_REQ).
AuthenticatedCode(m, uid, skewed) ==
    CASE m.from # uid -> "IDENTITY_MISMATCH"
      [] ~RoleTagOk(m.type, uid, "") -> "INVALID_ROLE_TAG"
      [] ~ReplayBoundOk(skewed) -> "REPLAY_OR_SKEW"
      [] OTHER -> "ok"

\* run_control_gates: only a body that names a role is checked.
ControlCode(m) ==
    CASE m.uid = "" -> "ok"
      [] ~IdentityMatches(m) -> "IDENTITY_MISMATCH"
      [] ~RoleTagOk(m.type, m.uid, m.role_type) -> "INVALID_ROLE_TAG"
      [] OTHER -> "ok"

\* envelope_with_query_role_uid: the uid is whom the query is about.
QueryCode(m) == IF m.uid = "" \/ RoleTagOk(m.type, m.uid, "") THEN "ok" ELSE "INVALID_ROLE_TAG"

\* receive_and_validate: the verdict on a received message.
Verdict(m, skewed) ==
    CASE ~Parses(m) -> "UNPARSED"
      [] ~BodyOk(m) -> "BODY_SCHEMA_VIOLATION"
      [] Tier(m.type) = "reg" -> RegFamilyCode(m, skewed)
      [] Tier(m.type) = "auth_reg" -> AuthenticatedCode(m, m.uid, skewed)
      [] Tier(m.type) = "auth_reg_envelope" -> AuthenticatedCode(m, m.from, skewed)
      [] Tier(m.type) = "control" -> ControlCode(m)
      [] Tier(m.type) = "query" -> QueryCode(m)
      [] OTHER -> "ok"

\* The reply types process_message chooses from a handler's status.
AckType(type) ==
    CASE type = "REG_REQ" -> "REG_ACK"
      [] type = "CONSUMER_REG_REQ" -> "CONSUMER_REG_ACK"
      [] type = "DISC_REQ" -> "DISC_ACK"
      [] type = "DEREG_REQ" -> "DEREG_ACK"
      [] type = "CONSUMER_DEREG_REQ" -> "CONSUMER_DEREG_ACK"
      [] type = "ENDPOINT_UPDATE_REQ" -> "ENDPOINT_UPDATE_ACK"
      [] type = "BAND_JOIN_REQ" -> "BAND_JOIN_ACK"
      [] type = "BAND_LEAVE_REQ" -> "BAND_LEAVE_ACK"
      [] type = "BAND_MEMBERS_REQ" -> "BAND_MEMBERS_ACK"
      [] type = "GET_CHANNEL_AUTH_REQ" -> "GET_CHANNEL_AUTH_ACK"
      [] type = "CONSUMER_ATTACH_REQ_SHM" -> "CONSUMER_ATTACH_ACK_SHM"
      [] OTHER -> "QUERY_ACK"

\* make_error, and build_error_reply for a message the gates refused: both
\* echo the correlation id.
ErrorReply(m, code) == [type |-> "ERROR", id |-> m.id, code |-> code, body |-> <<>>]
\* A handler's success reply; body is what the model keeps of it.
Ack(m, body) == [type |-> AckType(m.type), id |-> m.id, code |-> "ok", body |-> body]
Notice(type, body) == [type |-> type, id |-> 0, code |-> "ok", body |-> body]
=============================================================================
