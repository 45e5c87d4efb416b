------------------------------ MODULE ZapRouter ------------------------------
(***************************************************************************)
(* The process-wide handler of CURVE admission requests.                   *)
(*                                                                         *)
(* A bound socket's owner (data queue, inbox, broker) registers its        *)
(* admission domain with the router, which loads the router's lifecycle    *)
(* module, and only then binds.  libzmq sends one request per connecting   *)
(* peer; the pump (ZapPumpThread, or the broker's poll loop) takes it and  *)
(* asks the owner's allowlist under the shared mode of the table's lock.   *)
(* Dropping the domain takes the unique mode.  The lifecycle module is     *)
(* persistent: unloading a reference never closes its socket.              *)
(***************************************************************************)
EXTENDS Naturals, FiniteSets

CONSTANTS Owners,       \* objects that admit peers
          DomainOf,     \* the ZAP domain each one uses
          ZapPeers,     \* connecting peers
          NoOwner

VARIABLES router,       \* the REP socket: "down" or "up"
          refs,         \* references LoadModule holds for the domains
          table,        \* domain -> registered owner
          owner,        \* per owner: step
          allow,        \* per owner: its current allowlist
          requests,     \* admission requests libzmq is waiting on
          pump,         \* the pumping thread
          verdicts      \* answers sent

zapVars == <<router, refs, table, owner, allow, requests, pump, verdicts>>

Domains == {DomainOf[o] : o \in Owners}
Alive(o) == owner[o] \notin {"new", "gone"}

ZapInit ==
    /\ router = "down"
    /\ refs = 0
    /\ table = [d \in Domains |-> NoOwner]
    /\ owner = [o \in Owners |-> "new"]
    /\ allow = [o \in Owners |-> {}]
    /\ requests = {}
    /\ pump = [pc |-> "off"]
    /\ verdicts = {}

-----------------------------------------------------------------------------
(* Owners                                                                  *)

Build(o) ==
    /\ owner[o] = "new"
    /\ owner' = [owner EXCEPT ![o] = "built"]
    /\ UNCHANGED <<router, refs, table, allow, requests, pump, verdicts>>

(* LoadModule binds the router's socket the first time.  A bind that fails *)
(* is only logged: the module counts as started without a socket.          *)
Load(o) ==
    /\ owner[o] = "built"
    /\ owner' = [owner EXCEPT ![o] = "loaded"]
    /\ refs' = refs + 1
    /\ router' \in IF refs = 0 /\ router = "down" THEN {"up", "deaf"} ELSE {router}
    /\ UNCHANGED <<table, allow, requests, pump, verdicts>>

(* Nobody decides under the table's lock: the unique mode is free.         *)
LockFree == pump.pc # "deciding"

RegisterDomain(o) ==
    /\ owner[o] = "loaded"
    /\ LockFree
    /\ LET d == DomainOf[o]
       IN  \/ /\ table[d] = NoOwner
              /\ table' = [table EXCEPT ![d] = o]
              /\ owner' = [owner EXCEPT ![o] = "registered"]
              /\ UNCHANGED refs
           \/ /\ table[d] # NoOwner              \* refused: the reference goes back
              /\ refs' = refs - 1
              /\ owner' = [owner EXCEPT ![o] = "destroying"]
              /\ UNCHANGED table
    /\ UNCHANGED <<router, allow, requests, pump, verdicts>>

Bind(o) ==
    /\ owner[o] = "registered"
    /\ owner' = [owner EXCEPT ![o] = "bound"]
    /\ UNCHANGED <<router, refs, table, allow, requests, pump, verdicts>>

(* A start that fails after registering keeps the handle until the owner   *)
(* is destroyed.                                                           *)
BindFails(o) ==
    /\ owner[o] = "registered"
    /\ owner' = [owner EXCEPT ![o] = "releasing"]
    /\ UNCHANGED <<router, refs, table, allow, requests, pump, verdicts>>

(* set_peer_allowlist swaps one shared pointer.                            *)
SetPeerAllowlist(o, peers) ==
    /\ owner[o] \in {"built", "bound"}
    /\ allow[o] # peers
    /\ allow' = [allow EXCEPT ![o] = peers]
    /\ UNCHANGED <<router, refs, table, owner, requests, pump, verdicts>>

(* stop() drops the registration before it closes the socket.              *)
Release(o) ==
    /\ owner[o] = "bound"
    /\ owner' = [owner EXCEPT ![o] = "releasing"]
    /\ UNCHANGED <<router, refs, table, allow, requests, pump, verdicts>>

(* Variant: the domain is erased without waiting for a decision.           *)
UnregisterDomainUnlocked(o) ==
    /\ owner[o] = "releasing"
    /\ table' = [table EXCEPT ![DomainOf[o]] = NoOwner]
    /\ refs' = refs - 1
    /\ owner' = [owner EXCEPT ![o] = "destroying"]
    /\ UNCHANGED <<router, allow, requests, pump, verdicts>>

UnregisterDomain(o) ==
    /\ owner[o] = "releasing"
    /\ LockFree
    /\ table' = [table EXCEPT ![DomainOf[o]] = NoOwner]
    /\ refs' = refs - 1
    /\ owner' = [owner EXCEPT ![o] = "destroying"]
    /\ UNCHANGED <<router, allow, requests, pump, verdicts>>

(* The socket closes, and with it every handshake still in progress.       *)
Destroy(o) ==
    /\ owner[o] = "destroying"
    /\ owner' = [owner EXCEPT ![o] = "gone"]
    /\ requests' = {r \in requests : r.to # o}
    /\ UNCHANGED <<router, refs, table, allow, pump, verdicts>>

(* A peer connects to a bound socket.                                      *)
Connect(o, p) ==
    /\ owner[o] = "bound"
    /\ [to |-> o, peer |-> p] \notin requests
    /\ \A v \in verdicts : v.to # o \/ v.peer # p
    /\ requests' = requests \cup {[to |-> o, peer |-> p]}
    /\ UNCHANGED <<router, refs, table, owner, allow, pump, verdicts>>

-----------------------------------------------------------------------------
(* The pump                                                                *)

StartPump ==
    /\ pump.pc = "off"
    /\ pump' = [pc |-> "idle"]
    /\ UNCHANGED <<router, refs, table, owner, allow, requests, verdicts>>

(* pump_one receives a request; without a socket it returns at once.       *)
PumpReceive ==
    /\ pump.pc = "idle"
    /\ router = "up"
    /\ \E r \in requests :
          /\ pump' = [pc |-> "received", req |-> r]
          /\ requests' = requests \ {r}
    /\ UNCHANGED <<router, refs, table, owner, allow, verdicts>>

Reply(r, verdict) ==
    verdicts' = verdicts \cup {[to |-> r.to, peer |-> r.peer, is |-> verdict]}

(* with_admission: look the domain up under the lock.                      *)
PumpLookup ==
    /\ pump.pc = "received"
    /\ LET o == table[DomainOf[pump.req.to]]
       IN  \/ /\ o = NoOwner
              /\ Reply(pump.req, "unknown")
              /\ pump' = [pc |-> "idle"]
           \/ /\ o # NoOwner
              /\ pump' = [pc |-> "deciding", req |-> pump.req, at |-> o]
              /\ UNCHANGED verdicts
    /\ UNCHANGED <<router, refs, table, owner, allow, requests>>

(* is_peer_allowed; a throw denies.                                        *)
PumpDecide ==
    /\ pump.pc = "deciding"
    /\ \/ pump.req.peer \in allow[pump.at] /\ Reply(pump.req, "allow")
       \/ Reply(pump.req, "deny")
    /\ pump' = [pc |-> "idle"]
    /\ UNCHANGED <<router, refs, table, owner, allow, requests>>

(* The pump module depends on the router's: its thread is joined first.    *)
StopPump ==
    /\ pump.pc = "idle"
    /\ pump' = [pc |-> "joined"]
    /\ UNCHANGED <<router, refs, table, owner, allow, requests, verdicts>>

CloseRouter ==
    /\ pump.pc = "joined"
    /\ router # "down"
    /\ router' = "down"
    /\ UNCHANGED <<refs, table, owner, allow, requests, pump, verdicts>>

-----------------------------------------------------------------------------
OwnerSteps(o) ==
    \/ Build(o) \/ Load(o) \/ RegisterDomain(o) \/ Bind(o) \/ BindFails(o)
    \/ Release(o) \/ UnregisterDomain(o) \/ Destroy(o)

PumpSteps == PumpReceive \/ PumpLookup \/ PumpDecide

ZapNext ==
    \/ \E o \in Owners : OwnerSteps(o)
    \/ \E o \in Owners, s \in SUBSET ZapPeers : SetPeerAllowlist(o, s)
    \/ \E o \in Owners, p \in ZapPeers : Connect(o, p)
    \/ StartPump \/ PumpSteps \/ StopPump \/ CloseRouter

ZapSpec == ZapInit /\ [][ZapNext]_zapVars

-----------------------------------------------------------------------------
(* The router never decides with an object that is being destroyed, a      *)
(* bound socket's requests always find the object that bound it, and the   *)
(* module's references are the domains' (zap_router.hpp:49-56: "the        *)
(* destructor blocks until any in-flight admission decision completes";    *)
(* "Register with the router BEFORE bind", hub_zmq_queue.cpp:1820).        *)
AdmissionOutlivesDecision ==
    /\ pump.pc = "deciding" => owner[pump.at] \in {"registered", "bound", "releasing"}
    /\ \A o \in Owners : owner[o] = "bound" => table[DomainOf[o]] = o
    /\ refs = Cardinality({o \in Owners :
                 owner[o] \in {"loaded", "registered", "bound", "releasing"}})
=============================================================================
