------------------------- MODULE ChannelAuthProofs --------------------------
(***************************************************************************)
(* Proofs about the admission of dialing roles (ChannelAuth): the broker's *)
(* ledger, the binding role's allowlist and the dialing roles stay in      *)
(* step.  For any set of roles, any number of doorbells and applied        *)
(* requests under way, and crashes of every role.                          *)
(***************************************************************************)
EXTENDS ChannelAuth, AdmissionLedgerProofs

\* The leaves are Zenon's unless they cite SMT: few of them need arithmetic.
USE Zenon

-----------------------------------------------------------------------------
(* The inductive invariant                                                 *)

\* The binding role is on the roster, and under fan-in has been all along: a
\* binding consumer that registers again finds its old confirmation.
Current == Binder \in rows /\ (fan_in => instance = 1)

\* The applied requests that may still move the confirmation.
Mine == {m \in applied : fan_in \/ m.instance = instance}

\* What the binding role is known to have applied: a version it confirmed, or
\* will have confirmed once a request on its way arrives.
Vouched(v) == v <= access.confirmed[Binder] \/ \E m \in Mine : v <= m.version

\* The ledger holds issued versions, and no key of the binding role.
LedgerIssued == Issued(access) /\ access.admission[Binder] = 0

\* Requests come from registrations that happened; before the first one nothing
\* is confirmed, and the binding role is down and on no roster.
RequestsAreOfRegistrations ==
    /\ \A m \in applied : m.instance \in 1 .. instance
    /\ instance = 0 => /\ access.confirmed[Binder] = 0
                       /\ Binder \notin rows /\ bstate = "down"

\* Until its ACK is applied a registration has confirmed nothing and has no
\* allowlist to go by.
FreshRegistration ==
    bstate = "registering" =>
        ~synced /\ (Current => access.confirmed[Binder] = 0 /\ Mine = {})

\* A key the binding role vouched for is in its allowlist, and stays in it when
\* the list it has pulled is installed, which is newer than all it vouched for.
VouchedIsInstalled ==
    Current =>
        /\ \A m \in Mine : m.version <= access.current_version
        /\ bstate # "down" => \A d \in Admitted(access) :
              Vouched(access.admission[d]) => d \in allowlist
        /\ bstate = "pulled" =>
              /\ access.confirmed[Binder] <= held.version
              /\ held.version <= access.current_version
              /\ \A m \in Mine : m.version <= held.version
              /\ \A d \in Admitted(access) :
                    access.admission[d] <= held.version => d \in held.keys

\* Who was told to connect has a key the binding role confirmed, and nobody was
\* before it first registered.
ClearedIsConfirmed ==
    /\ Current => \A d \in Dialers \cap rows : dialer[d] = "cleared" =>
          d \in Admitted(access) /\ access.admission[d] <= access.confirmed[Binder]
    /\ instance = 0 => \A d \in Dialers : dialer[d] # "cleared"

\* An attach waits for its own key at least, and a dialing role waits for one.
WaitersCoverTheirKey ==
    /\ \A e \in pending : /\ ~fan_in /\ e.target <= access.current_version
                          /\ e.dialer \in rows =>
                                /\ e.dialer \in Admitted(access)
                                /\ access.admission[e.dialer] <= e.target
    /\ \A e, f \in pending : e.dialer = f.dialer => e = f

\* A channel whose producer binds is gone when its producer is.
ClosedIsEmpty == ~fan_in /\ Binder \notin rows => rows = {} /\ pending = {}

\* With no doorbell left and none lost, what was pulled, or else what is
\* installed, is the ledger.
BellsCarryChanges ==
    Binder \in rows /\ bells = 0 /\ ~missed =>
        /\ bstate = "pulled" => held.keys = Admitted(access)
        /\ bstate = "idle" /\ synced => allowlist = Admitted(access)

AuthInv ==
    /\ TypeOK /\ LedgerIssued /\ RequestsAreOfRegistrations /\ FreshRegistration
    /\ VouchedIsInstalled /\ ClearedIsConfirmed /\ WaitersAreBehind
    /\ WaitersCoverTheirKey /\ ClosedIsEmpty /\ BellsCarryChanges

-----------------------------------------------------------------------------
(* What the ledger's operations keep                                       *)

\* A ledger that grows, and keeps the binding role's confirmation, leaves what
\* the binding role vouched for where it was: a key that is new to the ledger
\* is newer than all of it.
LEMMA LedgerMoves ==
  ASSUME TypeOK, LedgerIssued, RequestsAreOfRegistrations, FreshRegistration,
         VouchedIsInstalled,
         access' \in Ledger, Issued(access'), Grows(access, access'),
         access'.admission[Binder] = 0,
         access'.confirmed[Binder] = access.confirmed[Binder],
         Binder \in rows' => Binder \in rows,
         UNCHANGED <<fan_in, instance, applied, binderVars>>
  PROVE  /\ LedgerIssued' /\ RequestsAreOfRegistrations' /\ FreshRegistration'
         /\ VouchedIsInstalled'
<1>1. LedgerIssued'
  BY DEF LedgerIssued, Issued
<1>2. RequestsAreOfRegistrations'
  BY DEF RequestsAreOfRegistrations, binderVars
<1>3. Mine' = Mine /\ (Current' => Current)
  BY DEF Mine, Current
<1>4. FreshRegistration'
  BY <1>3 DEF FreshRegistration, binderVars
<1>5. VouchedIsInstalled'
  <2> SUFFICES ASSUME Current' PROVE VouchedIsInstalled'
    BY DEF VouchedIsInstalled
  <2>1. Current
    BY <1>3
  <2>2. /\ access.current_version \in Nat /\ access'.current_version \in Nat
        /\ access'.current_version >= access.current_version
        /\ \A d \in Uids : access.admission[d] \in Nat /\ access'.admission[d] \in Nat
        /\ access.confirmed[Binder] \in Nat
        /\ access.confirmed[Binder] <= access.current_version
    BY BinderAssumption DEF TypeOK, Ledger, Grows, LedgerIssued, Issued
  <2>3. /\ \A m \in applied : m.version \in Nat
        /\ held.version \in Nat
    BY DEF TypeOK
  <2>4. \A m \in Mine : m.version <= access.current_version
    BY <2>1 DEF VouchedIsInstalled
  <2>5. \A m \in Mine' : m.version <= access'.current_version
    BY SMT, <2>2, <2>3, <2>4, <1>3 DEF Mine
  <2>6. \A d \in Admitted(access') :
           \/ d \in Admitted(access) /\ access'.admission[d] = access.admission[d]
           \/ access'.admission[d] > access.current_version
    BY DEF Grows, Admitted
  <2>7. ASSUME bstate' # "down", NEW d \in Admitted(access'),
               Vouched(access.admission[d])' 
        PROVE  d \in allowlist'
    <3>1. d \in Uids
      BY DEF Admitted
    <3>2. ~(access'.admission[d] > access.current_version)
      BY SMT, <3>1, <2>7, <2>2, <2>3, <2>4, <1>3 DEF Vouched, Mine
    <3>3. d \in Admitted(access) /\ Vouched(access.admission[d])
      BY <3>2, <2>6, <2>7, <1>3 DEF Vouched
    <3>4. QED BY <3>3, <2>1, <2>7 DEF VouchedIsInstalled, binderVars
  <2>8. ASSUME bstate' = "pulled"
        PROVE  /\ access'.confirmed[Binder] <= held'.version
               /\ held'.version <= access'.current_version
               /\ \A m \in Mine' : m.version <= held'.version
               /\ \A d \in Admitted(access') :
                     access'.admission[d] <= held'.version => d \in held'.keys
    <3>1. /\ access.confirmed[Binder] <= held.version
          /\ held.version <= access.current_version
          /\ \A m \in Mine : m.version <= held.version
          /\ \A d \in Admitted(access) :
                access.admission[d] <= held.version => d \in held.keys
      BY <2>1, <2>8 DEF VouchedIsInstalled, binderVars
    <3>2. held' = held
      BY DEF binderVars
    <3>3. held'.version <= access'.current_version
      BY SMT, <3>1, <3>2, <2>2, <2>3
    <3>4. ASSUME NEW d \in Admitted(access'), access'.admission[d] <= held'.version
          PROVE  d \in held'.keys
      <4>1. d \in Uids
        BY DEF Admitted
      <4>2. ~(access'.admission[d] > access.current_version)
        BY SMT, <4>1, <3>1, <3>2, <3>4, <2>2, <2>3
      <4>3. QED BY <4>2, <3>1, <3>2, <3>4, <2>6
    <3>5. QED BY <3>1, <3>2, <3>3, <3>4, <1>3
  <2>9. QED BY <2>5, <2>7, <2>8 DEF VouchedIsInstalled
<1>6. QED BY <1>1, <1>2, <1>4, <1>5

\* When the channel goes nothing is left to be out of step.
LEMMA ClosedInv ==
  ASSUME AuthInv, TypeOK',
         rows' = {}, access' = EmptyLedger, pending' = {},
         UNCHANGED <<fan_in, instance, applied>>,
         bstate' = "registering" => ~synced',
         bstate = "down" => bstate' = "down",
         \A d \in Dialers : dialer'[d] = "cleared" => dialer[d] = "cleared"
  PROVE  AuthInv'
<1>1. LedgerIssued'
  BY EmptyFacts, BinderAssumption DEF LedgerIssued, EmptyLedger
<1>2. RequestsAreOfRegistrations'
  BY BinderAssumption DEF AuthInv, RequestsAreOfRegistrations, EmptyLedger
<1>3. FreshRegistration' /\ VouchedIsInstalled' /\ ClearedIsConfirmed'
  BY DEF AuthInv, FreshRegistration, VouchedIsInstalled, ClearedIsConfirmed, Current
<1>4. WaitersAreBehind' /\ WaitersCoverTheirKey' /\ ClosedIsEmpty' /\ BellsCarryChanges'
  BY DEF WaitersAreBehind, WaitersCoverTheirKey, ClosedIsEmpty, BellsCarryChanges
<1>5. QED BY <1>1, <1>2, <1>3, <1>4 DEF AuthInv

-----------------------------------------------------------------------------
(* The binding role                                                        *)

LEMMA BinderRegisterInv ==
  ASSUME AuthInv, BinderRegister
  PROVE  AuthInv'
<1> USE DEF BinderRegister, dialerVars
<1>1. /\ access' \in Ledger /\ Issued(access')
      /\ access'.admission = access.admission
      /\ access'.current_version = access.current_version
      /\ access'.confirmed[Binder] = IF fan_in THEN access.confirmed[Binder] ELSE 0
  <2>1. access \in Ledger /\ Issued(access)
    BY DEF AuthInv, TypeOK, LedgerIssued
  <2>2. QED BY SMT, <2>1, ResetFacts, BinderAssumption
<1>2. TypeOK'
  <2>1. held' \in [keys : SUBSET Dialers, version : Nat]
    BY DEF NoReply
  <2>2. rows' \subseteq Uids /\ instance' \in Nat /\ allowlist' \subseteq Dialers
    BY SMT, BinderAssumption DEF AuthInv, TypeOK
  <2>3. QED BY <1>1, <2>1, <2>2 DEF AuthInv, TypeOK, BinderStates
<1>3. LedgerIssued'
  BY <1>1 DEF AuthInv, LedgerIssued
<1>4. instance \in Nat /\ instance' = instance + 1
  BY DEF AuthInv, TypeOK
<1>5. RequestsAreOfRegistrations'
  BY SMT, <1>4 DEF AuthInv, RequestsAreOfRegistrations
<1>6. Current' => access'.confirmed[Binder] = 0 /\ Mine' = {}
  <2>1. CASE fan_in
    BY SMT, <2>1, <1>1, <1>4 DEF Current, Mine, AuthInv, RequestsAreOfRegistrations
  <2>2. CASE ~fan_in
    BY SMT, <2>2, <1>1, <1>4 DEF Current, Mine, AuthInv, RequestsAreOfRegistrations
  <2>3. QED BY <2>1, <2>2
<1>7. FreshRegistration'
  BY <1>6 DEF FreshRegistration
<1>8. VouchedIsInstalled'
  <2>1. \A d \in Admitted(access') : access'.admission[d] \in Nat \ {0}
    BY <1>1 DEF Admitted, Ledger
  <2>2. Current' => \A d \in Admitted(access') : ~Vouched(access.admission[d])'
    BY SMT, <2>1, <1>6 DEF Vouched
  <2>3. QED BY <2>2, <1>6 DEF VouchedIsInstalled
<1>9. ClearedIsConfirmed'
  <2>1. CASE fan_in
    BY SMT, <2>1, <1>4 DEF ClearedIsConfirmed, Current, AuthInv
  <2>2. CASE ~fan_in
    BY SMT, <2>2, <1>4 DEF ClearedIsConfirmed, AuthInv, ClosedIsEmpty, Dialers
  <2>3. QED BY <2>1, <2>2
<1>10. pending = {} /\ pending' = {}
  BY DEF AuthInv, WaitersCoverTheirKey, ClosedIsEmpty
<1>11. WaitersAreBehind' /\ WaitersCoverTheirKey'
  BY <1>10 DEF WaitersAreBehind, WaitersCoverTheirKey
<1>12. ClosedIsEmpty' /\ BellsCarryChanges'
  BY DEF ClosedIsEmpty, BellsCarryChanges
<1>13. QED BY <1>2, <1>3, <1>5, <1>7, <1>8, <1>9, <1>11, <1>12 DEF AuthInv

LEMMA ApplyRegAckInv ==
  ASSUME AuthInv,
         ApplyProducerRegAck \/ \E S \in SUBSET Dialers : ApplyConsumerRegAck(S)
  PROVE  AuthInv'
<1> DEFINE S == allowlist'
<1>1. /\ bstate = "registering" /\ bstate' = "idle"
      /\ S \subseteq Dialers
      /\ heard' \in BOOLEAN /\ published' \in BOOLEAN
      /\ synced' = synced \/ (S = Admitted(access) /\ synced' = TRUE)
      /\ UNCHANGED <<fan_in, rows, access, instance, pending, bells, applied, held,
                     missed, dialer, ack>>
  <2>1. CASE ApplyProducerRegAck
    BY SMT, <2>1 DEF ApplyProducerRegAck, AuthInv, TypeOK, LedgerIssued, Admitted,
                Dialers, dialerVars
  <2>2. CASE \E T \in SUBSET Dialers : ApplyConsumerRegAck(T)
    BY SMT, <2>2 DEF ApplyConsumerRegAck, dialerVars
  <2>3. QED BY <2>1, <2>2
<1> HIDE DEF S
<1>2. TypeOK'
  BY <1>1 DEF AuthInv, TypeOK, BinderStates, S
<1>3. LedgerIssued' /\ RequestsAreOfRegistrations'
  BY <1>1 DEF AuthInv, LedgerIssued, RequestsAreOfRegistrations, Issued
<1>4. FreshRegistration'
  BY <1>1 DEF FreshRegistration
<1>5. Mine' = Mine /\ Current' = Current
  BY <1>1 DEF Mine, Current
<1>6. Current => access.confirmed[Binder] = 0 /\ Mine = {}
  BY <1>1 DEF AuthInv, FreshRegistration
<1>7. VouchedIsInstalled'
  <2>1. \A d \in Admitted(access') : access'.admission[d] \in Nat \ {0}
    BY <1>2 DEF Admitted, TypeOK, Ledger
  <2>2. QED BY SMT, <2>1, <1>1, <1>5, <1>6 DEF VouchedIsInstalled, Vouched
<1>8. ClearedIsConfirmed'
  BY <1>1, <1>5 DEF ClearedIsConfirmed, AuthInv
<1>9. WaitersAreBehind' /\ WaitersCoverTheirKey' /\ ClosedIsEmpty'
  BY <1>1 DEF AuthInv, WaitersAreBehind, WaitersCoverTheirKey, ClosedIsEmpty
<1>10. BellsCarryChanges'
  BY <1>1 DEF AuthInv, FreshRegistration, BellsCarryChanges, S
<1>11. QED BY <1>2, <1>3, <1>4, <1>7, <1>8, <1>9, <1>10 DEF AuthInv

\* The broker's half of the state, and the requests in flight, stay.
LEMMA BrokerRests ==
  ASSUME AuthInv,
         UNCHANGED <<fan_in, rows, access, instance, pending, dialer>>
  PROVE  /\ LedgerIssued' /\ ClearedIsConfirmed' /\ WaitersAreBehind'
         /\ WaitersCoverTheirKey' /\ ClosedIsEmpty'
<1>1. LedgerIssued'
  BY DEF AuthInv, LedgerIssued, Issued
<1>2. ClearedIsConfirmed'
  BY DEF AuthInv, ClearedIsConfirmed, Current
<1>3. WaitersAreBehind' /\ WaitersCoverTheirKey' /\ ClosedIsEmpty'
  BY DEF AuthInv, WaitersAreBehind, WaitersCoverTheirKey, ClosedIsEmpty
<1>4. QED BY <1>1, <1>2, <1>3

LEMMA PullAllowlistInv ==
  ASSUME AuthInv, PullAllowlist
  PROVE  AuthInv'
<1> USE DEF PullAllowlist, brokerVars, dialerVars
<1>1. Admitted(access) \subseteq Dialers /\ access.current_version \in Nat
  BY DEF AuthInv, TypeOK, LedgerIssued, Admitted, Dialers, Ledger
<1>2. TypeOK'
  <2>1. held' \in [keys : SUBSET Dialers, version : Nat]
    BY SMT, <1>1 DEF AuthInv, TypeOK
  <2>2. bells' \in Nat
    BY SMT DEF AuthInv, TypeOK
  <2>3. bstate' \in BinderStates
    BY DEF AuthInv, TypeOK, BinderStates
  <2>4. missed' \in BOOLEAN
    BY DEF AuthInv, TypeOK
  <2>5. QED BY <2>1, <2>2, <2>3, <2>4 DEF AuthInv, TypeOK
<1>3. /\ LedgerIssued' /\ ClearedIsConfirmed' /\ WaitersAreBehind'
      /\ WaitersCoverTheirKey' /\ ClosedIsEmpty'
  BY BrokerRests
<1>4. RequestsAreOfRegistrations' /\ FreshRegistration'
  BY DEF AuthInv, RequestsAreOfRegistrations, FreshRegistration
<1>5. Mine' = Mine /\ Current' = Current /\ (Current => Binder \in rows)
  BY DEF Mine, Current
<1>6. VouchedIsInstalled'
  <2> SUFFICES ASSUME Current' PROVE VouchedIsInstalled'
    BY DEF VouchedIsInstalled
  <2>1. /\ \A m \in Mine' : m.version <= access'.current_version
        /\ \A d \in Admitted(access') : Vouched(access.admission[d])' => d \in allowlist'
    BY <1>5 DEF AuthInv, VouchedIsInstalled, Vouched
  <2>2. access.confirmed[Binder] <= access.current_version
        /\ \A d \in Admitted(access) : access.admission[d] <= access.current_version
    BY BinderAssumption DEF AuthInv, LedgerIssued, Issued, Admitted
  <2>3. held' = [keys |-> Admitted(access), version |-> access.current_version]
    BY <1>5
  <2>4. held'.version = access.current_version /\ held'.keys = Admitted(access)
    BY <2>3
  <2>5. access.current_version <= access.current_version
    BY SMT, <1>1
  <2>6. QED BY <2>1, <2>2, <2>4, <2>5, <1>5 DEF VouchedIsInstalled
<1>7. BellsCarryChanges'
  BY SMT DEF BellsCarryChanges, AuthInv, TypeOK
<1>8. QED BY <1>2, <1>3, <1>4, <1>6, <1>7 DEF AuthInv

LEMMA InstallAllowlistInv ==
  ASSUME AuthInv, InstallAllowlist
  PROVE  AuthInv'
<1> USE DEF InstallAllowlist, brokerVars, dialerVars
<1> DEFINE r == [instance |-> instance, version |-> held.version]
<1>1. /\ held \in [keys : SUBSET Dialers, version : Nat] /\ instance \in Nat
      /\ r.instance = instance /\ r.version = held.version
      /\ r \in [instance : Nat, version : Nat]
      /\ applied' = applied \cup {r}
  BY DEF AuthInv, TypeOK
<1> HIDE DEF r
<1>2. TypeOK'
  <2>1. held' \in [keys : SUBSET Dialers, version : Nat]
    BY DEF NoReply
  <2>2. allowlist' \subseteq Dialers /\ applied' \subseteq [instance : Nat, version : Nat]
    BY <1>1 DEF AuthInv, TypeOK
  <2>3. QED BY <2>1, <2>2 DEF AuthInv, TypeOK, BinderStates
<1>3. /\ LedgerIssued' /\ ClearedIsConfirmed' /\ WaitersAreBehind'
      /\ WaitersCoverTheirKey' /\ ClosedIsEmpty'
  BY BrokerRests
<1>4. RequestsAreOfRegistrations' /\ FreshRegistration'
  BY SMT, <1>1 DEF AuthInv, RequestsAreOfRegistrations, FreshRegistration
<1>5. Mine' = Mine \cup {r} /\ Current' = Current
  BY <1>1 DEF Mine, Current
<1>6. VouchedIsInstalled'
  <2> SUFFICES ASSUME Current' PROVE VouchedIsInstalled'
    BY DEF VouchedIsInstalled
  <2>1. /\ \A m \in Mine : m.version <= access.current_version
        /\ access.confirmed[Binder] <= held.version
        /\ held.version <= access.current_version
        /\ \A m \in Mine : m.version <= held.version
        /\ \A d \in Admitted(access) :
              access.admission[d] <= held.version => d \in held.keys
    BY <1>5 DEF AuthInv, VouchedIsInstalled
  <2>2. \A m \in Mine' : m.version <= access'.current_version
    BY <2>1, <1>1, <1>5
  <2>3. /\ held.version \in Nat /\ access.confirmed[Binder] \in Nat
        /\ \A m \in Mine : m.version \in Nat
        /\ \A d \in Uids : access.admission[d] \in Nat
    BY BinderAssumption DEF AuthInv, TypeOK, Ledger, Mine
  <2>4. ASSUME NEW d \in Admitted(access'), Vouched(access.admission[d])'
        PROVE  d \in allowlist'
    <3>1. access.admission[d] \in Nat
      BY <2>3 DEF Admitted
    <3>2. access.admission[d] <= held.version
      BY SMT, <3>1, <2>1, <2>3, <2>4, <1>1, <1>5 DEF Vouched
    <3>3. QED BY <3>2, <2>1
  <2>5. QED BY <2>2, <2>4 DEF VouchedIsInstalled
<1>7. BellsCarryChanges'
  BY DEF BellsCarryChanges, AuthInv
<1>8. QED BY <1>2, <1>3, <1>4, <1>6, <1>7 DEF AuthInv

LEMMA BinderGoesInv ==
  ASSUME AuthInv, BinderCrash \/ BinderLeave \/ ReapBinder
  PROVE  AuthInv'
<1>1. CASE BinderCrash
  <2> USE <1>1 DEF BinderCrash, BinderStops
  <2>1. TypeOK'
    <3>1. held' \in [keys : SUBSET Dialers, version : Nat]
      BY DEF NoReply
    <3>2. QED BY <3>1 DEF AuthInv, TypeOK, BinderStates
  <2>2. /\ LedgerIssued' /\ ClearedIsConfirmed' /\ WaitersAreBehind'
        /\ WaitersCoverTheirKey' /\ ClosedIsEmpty'
    BY BrokerRests
  <2>3. RequestsAreOfRegistrations' /\ FreshRegistration' /\ BellsCarryChanges'
    BY DEF AuthInv, RequestsAreOfRegistrations, FreshRegistration, BellsCarryChanges
  <2>4. Mine' = Mine /\ Current' = Current
    BY DEF Mine, Current
  <2>5. VouchedIsInstalled'
    BY <2>4 DEF AuthInv, VouchedIsInstalled
  <2>6. QED BY <2>1, <2>2, <2>3, <2>5 DEF AuthInv
<1>2. CASE (BinderLeave \/ ReapBinder) /\ ~fan_in
  <2>1. /\ rows' = {} /\ heard' = FALSE /\ published' = FALSE
        /\ access' = EmptyLedger /\ pending' = {} /\ dialer' = Refuse(pending)
        /\ UNCHANGED <<fan_in, instance, applied, ack>>
    BY <1>2 DEF BinderLeave, ReapBinder, CloseChannel, BinderStops
  <2>2. \A d \in Dialers : dialer'[d] = "out" \/ dialer'[d] = dialer[d]
    BY <2>1 DEF Refuse
  <2>3. dialer' \in [Dialers -> DialerStates]
    BY <2>1 DEF Refuse, DialerStates, AuthInv, TypeOK
  <2>4. /\ bells' \in Nat /\ bstate' \in BinderStates /\ allowlist' \subseteq Dialers
        /\ held' \in [keys : SUBSET Dialers, version : Nat]
        /\ synced' \in BOOLEAN /\ missed' \in BOOLEAN
        /\ bstate' = "registering" => ~synced'
        /\ bstate = "down" => bstate' = "down"
    <3>1. CASE BinderLeave
      <4>1. NoReply \in [keys : SUBSET Dialers, version : Nat]
        BY DEF NoReply
      <4>2. QED BY <4>1, <3>1 DEF BinderLeave, BinderStops, BinderStates
    <3>2. CASE ReapBinder
      BY <3>2 DEF ReapBinder, binderVars, AuthInv, TypeOK, FreshRegistration
    <3>3. QED BY <1>2, <3>1, <3>2
  <2>5. TypeOK'
    BY <2>1, <2>3, <2>4, EmptyFacts DEF AuthInv, TypeOK
  <2>6. \A d \in Dialers : dialer'[d] = "cleared" => dialer[d] = "cleared"
    BY <2>2
  <2>7. QED BY <2>1, <2>4, <2>5, <2>6, ClosedInv
<1>3. CASE (BinderLeave \/ ReapBinder) /\ fan_in
  <2>1. /\ rows' = rows \ {Binder} /\ heard' = FALSE
        /\ access' \in {access, ResetConfirmation(access, {Binder})}
        /\ UNCHANGED <<fan_in, instance, applied, ack, published, pending, dialer>>
    BY <1>3 DEF BinderLeave, ReapBinder, BinderStops
  <2>2. /\ bells' \in Nat /\ bstate' \in BinderStates /\ allowlist' \subseteq Dialers
        /\ held' \in [keys : SUBSET Dialers, version : Nat]
        /\ synced' \in BOOLEAN /\ missed' \in BOOLEAN
        /\ bstate' = "registering" => ~synced'
        /\ bstate = "down" => bstate' = "down"
    <3>1. CASE BinderLeave
      <4>1. NoReply \in [keys : SUBSET Dialers, version : Nat]
        BY DEF NoReply
      <4>2. QED BY <4>1, <3>1 DEF BinderLeave, BinderStops, BinderStates
    <3>2. CASE ReapBinder
      BY <3>2 DEF ReapBinder, binderVars, AuthInv, TypeOK, FreshRegistration
    <3>3. QED BY <1>3, <3>1, <3>2
  <2>3. /\ access' \in Ledger /\ Issued(access') /\ access'.admission = access.admission
        /\ access'.confirmed[Binder] \in {access.confirmed[Binder], 0}
    <3>1. access \in Ledger /\ Issued(access)
      BY DEF AuthInv, TypeOK, LedgerIssued
    <3>2. QED BY SMT, <3>1, <2>1, ResetFacts, BinderAssumption
  <2>4. TypeOK'
    BY <2>1, <2>2, <2>3 DEF AuthInv, TypeOK
  <2>5. LedgerIssued' /\ RequestsAreOfRegistrations'
    BY <2>1, <2>2, <2>3 DEF AuthInv, LedgerIssued, RequestsAreOfRegistrations
  <2>6. ~Current'
    BY <2>1 DEF Current
  <2>7. FreshRegistration' /\ VouchedIsInstalled' /\ ClearedIsConfirmed'
    BY <2>1, <2>2, <2>6 DEF AuthInv, FreshRegistration, VouchedIsInstalled,
                            ClearedIsConfirmed
  <2>8. pending' = {}
    BY <2>1, <1>3 DEF AuthInv, WaitersCoverTheirKey
  <2>9. /\ WaitersAreBehind' /\ WaitersCoverTheirKey' /\ ClosedIsEmpty'
        /\ BellsCarryChanges'
    BY <2>1, <2>8, <1>3 DEF WaitersAreBehind, WaitersCoverTheirKey, ClosedIsEmpty,
                            BellsCarryChanges
  <2>10. QED BY <2>4, <2>5, <2>7, <2>9 DEF AuthInv
<1>4. QED BY <1>1, <1>2, <1>3

-----------------------------------------------------------------------------
(* Doorbells and applied requests                                          *)

LEMMA LossInv ==
  ASSUME AuthInv, LoseBell \/ \E m \in applied : LoseApplied(m)
  PROVE  AuthInv'
<1>1. /\ missed' = TRUE /\ bells' \in Nat /\ applied' \subseteq applied
      /\ UNCHANGED <<fan_in, brokerVars, bstate, allowlist, held, synced, dialerVars>>
  BY SMT DEF LoseBell, LoseApplied, AuthInv, TypeOK
<1> USE <1>1 DEF brokerVars, dialerVars
<1>2. TypeOK'
  BY DEF AuthInv, TypeOK
<1>3. /\ LedgerIssued' /\ ClearedIsConfirmed' /\ WaitersAreBehind'
      /\ WaitersCoverTheirKey' /\ ClosedIsEmpty'
  BY BrokerRests
<1>4. Mine' \subseteq Mine /\ Current' = Current
  BY DEF Mine, Current
<1>5. RequestsAreOfRegistrations' /\ FreshRegistration' /\ BellsCarryChanges'
  BY <1>4 DEF AuthInv, RequestsAreOfRegistrations, FreshRegistration, BellsCarryChanges
<1>6. VouchedIsInstalled'
  BY <1>4 DEF AuthInv, VouchedIsInstalled, Vouched
<1>7. QED BY <1>2, <1>3, <1>5, <1>6 DEF AuthInv

LEMMA ChannelAuthAppliedInv ==
  ASSUME AuthInv, NEW m \in applied, ChannelAuthApplied(m)
  PROVE  AuthInv'
<1> DEFINE l == Confirm(access, Binder, m.version)
           done == {e \in pending : e.target <= l.confirmed[Binder]}
<1>1. /\ applied' = applied \ {m} /\ m.version \in Nat
      /\ UNCHANGED <<fan_in, rows, heard, published, instance, bells, binderVars, ack>>
  BY DEF ChannelAuthApplied, AuthInv, TypeOK
<1> USE <1>1 DEF binderVars
<1>2. Mine' = Mine \ {m} /\ Current' = Current
  BY DEF Mine, Current
<1>3. CASE ~Accepts(m)
  <2>1. UNCHANGED <<access, pending, dialer>>
    BY <1>3 DEF ChannelAuthApplied
  <2>2. TypeOK'
    BY <2>1 DEF AuthInv, TypeOK
  <2>3. /\ LedgerIssued' /\ ClearedIsConfirmed' /\ WaitersAreBehind'
        /\ WaitersCoverTheirKey' /\ ClosedIsEmpty'
    BY <2>1, BrokerRests
  <2>4. RequestsAreOfRegistrations' /\ FreshRegistration' /\ BellsCarryChanges'
    BY <2>1, <1>2 DEF AuthInv, RequestsAreOfRegistrations, FreshRegistration,
                      BellsCarryChanges
  <2>5. VouchedIsInstalled'
    BY <2>1, <1>2 DEF AuthInv, VouchedIsInstalled, Vouched
  <2>6. QED BY <2>2, <2>3, <2>4, <2>5 DEF AuthInv
<1>4. CASE Accepts(m)
  <2>1. /\ access' = l
        /\ pending' = IF fan_in THEN pending ELSE pending \ done
        /\ dialer' = [d \in Dialers |->
              IF ~fan_in /\ \E e \in done : e.dialer = d THEN "cleared" ELSE dialer[d]]
    BY <1>4 DEF ChannelAuthApplied
  <2>2. Binder \in rows /\ m \in Mine /\ instance # 0
    BY <1>4 DEF Accepts, Mine, AuthInv, RequestsAreOfRegistrations
  <2>3. /\ access' \in Ledger /\ Issued(access')
        /\ access'.current_version = access.current_version
        /\ access'.admission = access.admission
        /\ access'.confirmed[Binder] >= access.confirmed[Binder]
        /\ access'.confirmed[Binder] = access.confirmed[Binder]
           \/ access'.confirmed[Binder] <= m.version
    <3>1. access \in Ledger /\ Issued(access)
      BY DEF AuthInv, TypeOK, LedgerIssued
    <3>2. QED BY <3>1, <2>1, ConfirmFacts, BinderAssumption
  <2>4. done = {e \in pending : e.target <= access'.confirmed[Binder]}
    BY <2>1
  <2> HIDE DEF l, done
  <2>5. Admitted(access') = Admitted(access)
    BY <2>3 DEF Admitted
  <2>6. /\ access.confirmed[Binder] \in Nat /\ access'.confirmed[Binder] \in Nat
        /\ \A d \in Uids : access.admission[d] \in Nat
        /\ \A e \in pending : e.target \in Nat /\ e.dialer \in Dialers
        /\ held.version \in Nat
    BY <2>3, BinderAssumption DEF AuthInv, TypeOK, Ledger
  <2>7. TypeOK'
    <3>1. dialer' \in [Dialers -> DialerStates]
      BY <2>1 DEF AuthInv, TypeOK, DialerStates
    <3>2. pending' \subseteq [dialer : Dialers, target : Nat]
      BY <2>1 DEF AuthInv, TypeOK
    <3>3. QED BY <2>3, <3>1, <3>2 DEF AuthInv, TypeOK
  <2>8. LedgerIssued' /\ RequestsAreOfRegistrations'
    BY <2>2, <2>3 DEF AuthInv, LedgerIssued, RequestsAreOfRegistrations
  <2>9. FreshRegistration'
    BY <2>2, <1>2 DEF AuthInv, FreshRegistration
  <2>10. VouchedIsInstalled'
    <3> SUFFICES ASSUME Current' PROVE VouchedIsInstalled'
      BY DEF VouchedIsInstalled
    <3>1. ASSUME NEW d \in Admitted(access), Vouched(access.admission[d])'
          PROVE  Vouched(access.admission[d])
      <4>1. access.admission[d] \in Nat
        BY <2>6 DEF Admitted
      <4>2. CASE access.admission[d] <= access'.confirmed[Binder]
        BY SMT, <4>1, <4>2, <2>2, <2>3, <2>6 DEF Vouched
      <4>3. CASE \E n \in Mine' : access.admission[d] <= n.version
        BY <4>3, <1>2 DEF Vouched
      <4>4. QED BY <4>2, <4>3, <3>1, <2>3 DEF Vouched
    <3>2. /\ \A n \in Mine' : n.version <= access'.current_version
          /\ bstate' # "down" => \A d \in Admitted(access') :
                Vouched(access.admission[d])' => d \in allowlist'
      BY <3>1, <2>3, <2>5, <1>2 DEF AuthInv, VouchedIsInstalled
    <3>3. ASSUME bstate' = "pulled"
          PROVE  /\ access'.confirmed[Binder] <= held'.version
                 /\ held'.version <= access'.current_version
                 /\ \A n \in Mine' : n.version <= held'.version
                 /\ \A d \in Admitted(access') :
                       access'.admission[d] <= held'.version => d \in held'.keys
      <4>1. /\ access.confirmed[Binder] <= held.version
            /\ held.version <= access.current_version
            /\ \A n \in Mine : n.version <= held.version
            /\ \A d \in Admitted(access) :
                  access.admission[d] <= held.version => d \in held.keys
        BY <3>3, <1>2 DEF AuthInv, VouchedIsInstalled
      <4>2. access'.confirmed[Binder] <= held'.version
        BY SMT, <4>1, <2>2, <2>3, <2>6
      <4>3. QED BY <4>1, <4>2, <2>3, <2>5, <1>2
    <3>4. QED BY <3>2, <3>3 DEF VouchedIsInstalled
  <2>11. ClearedIsConfirmed'
    <3> SUFFICES ASSUME Current', NEW d \in Dialers \cap rows', dialer'[d] = "cleared"
                 PROVE  /\ d \in Admitted(access')
                        /\ access'.admission[d] <= access'.confirmed[Binder]
      BY <2>2 DEF ClearedIsConfirmed
    <3>1. access.admission[d] \in Nat
      BY <2>6 DEF Dialers
    <3>2. CASE dialer[d] = "cleared"
      <4>1. d \in Admitted(access) /\ access.admission[d] <= access.confirmed[Binder]
        BY <3>2, <1>2 DEF AuthInv, ClearedIsConfirmed
      <4>2. QED BY SMT, <4>1, <3>1, <2>3, <2>5, <2>6
    <3>3. CASE dialer[d] # "cleared"
      <4>1. PICK e \in done : e.dialer = d
        BY <3>3, <2>1
      <4>2. e \in pending /\ e.target <= access'.confirmed[Binder]
        BY <4>1, <2>4
      <4>3. d \in Admitted(access) /\ access.admission[d] <= e.target
        BY <4>1, <4>2 DEF AuthInv, WaitersCoverTheirKey
      <4>4. QED BY SMT, <4>2, <4>3, <3>1, <2>3, <2>5, <2>6
    <3>4. QED BY <3>2, <3>3
  <2>12. pending' \subseteq pending /\ \A e \in pending' : ~fan_in /\ e \notin done
    BY <2>1 DEF AuthInv, WaitersCoverTheirKey
  <2>13. WaitersAreBehind'
    <3> SUFFICES ASSUME NEW e \in pending'
                 PROVE  /\ e.target > access'.confirmed[Binder]
                        /\ dialer'[e.dialer] = "waiting" /\ Binder \in rows'
      BY DEF WaitersAreBehind
    <3>1. e.target > access'.confirmed[Binder]
      BY SMT, <2>12, <2>4, <2>6
    <3>2. ~\E f \in done : f.dialer = e.dialer
      BY <2>12, <2>4 DEF AuthInv, WaitersCoverTheirKey
    <3>3. dialer'[e.dialer] = dialer[e.dialer]
      BY <3>2, <2>1, <2>6, <2>12
    <3>4. QED BY <3>1, <3>3, <2>12 DEF AuthInv, WaitersAreBehind
  <2>14. WaitersCoverTheirKey' /\ ClosedIsEmpty'
    BY <2>2, <2>3, <2>5, <2>12 DEF AuthInv, WaitersCoverTheirKey, ClosedIsEmpty
  <2>15. BellsCarryChanges'
    BY <2>5 DEF AuthInv, BellsCarryChanges
  <2>16. QED BY <2>7, <2>8, <2>9, <2>10, <2>11, <2>13, <2>14, <2>15 DEF AuthInv
<1>5. QED BY <1>3, <1>4

-----------------------------------------------------------------------------
(* The dialing roles                                                       *)

\* A step of dialing role d that leaves the channel open: it moves no row, no
\* attach and no start-up but its own, and touches no key but its own, which it
\* rings for.  What it owes is said of d alone.
DialerMoves(d) ==
    /\ \A x \in Dialers \ {d} : dialer'[x] = dialer[x] /\ (x \in rows' <=> x \in rows)
    /\ Binder \in rows' <=> Binder \in rows
    /\ access' \in Ledger /\ Issued(access') /\ Grows(access, access')
    /\ access'.confirmed[Binder] = access.confirmed[Binder]
    /\ Admitted(access') \ {d} = Admitted(access) \ {d}
    /\ Ring \/ (bells' = bells /\ Admitted(access') = Admitted(access))
    /\ \A e \in pending' : e.dialer # d => e \in pending
    /\ UNCHANGED <<fan_in, instance, applied, binderVars>>

\* Its start-up: told to connect only with a confirmed key.
DialerOwesKey(d) ==
    dialer'[d] = "cleared" =>
        /\ instance # 0
        /\ Current /\ d \in rows' => /\ d \in Admitted(access')
                                     /\ access'.admission[d] <= access'.confirmed[Binder]

\* Its attach: one, behind the confirmation, that covers its key.
DialerOwesWait(d) ==
    /\ \A e \in pending' : e.dialer = d =>
          /\ e.target > access'.confirmed[Binder]
          /\ dialer'[d] = "waiting" /\ Binder \in rows'
          /\ ~fan_in /\ e.target <= access'.current_version
          /\ d \in rows' => d \in Admitted(access') /\ access'.admission[d] <= e.target
    /\ \A e, f \in pending' : e.dialer = d /\ f.dialer = d => e = f

LEMMA DialerMovesInv ==
  ASSUME AuthInv, TypeOK', NEW d \in Dialers, DialerMoves(d), DialerOwesKey(d),
         DialerOwesWait(d), ClosedIsEmpty'
  PROVE  AuthInv'
<1> USE DEF DialerMoves
<1>1. d \in Uids /\ d # Binder
  BY DEF Dialers
<1>2. access'.admission[Binder] = 0
  <2>1. Binder \notin Admitted(access)
    BY DEF AuthInv, LedgerIssued, Admitted
  <2>2. Binder \notin Admitted(access')
    BY <2>1, <1>1
  <2>3. QED BY <2>2, BinderAssumption DEF Admitted
<1>3. /\ LedgerIssued' /\ RequestsAreOfRegistrations' /\ FreshRegistration'
      /\ VouchedIsInstalled'
  BY <1>2, LedgerMoves DEF AuthInv
<1>4. Current' = Current
  BY DEF Current
<1>5. \A x \in Admitted(access) \ {d} :
         x \in Admitted(access') /\ access'.admission[x] = access.admission[x]
  <2>1. \A x \in Admitted(access) \ {d} : x \in Admitted(access')
    OBVIOUS
  <2>2. QED BY <2>1 DEF Grows, Admitted
<1>6. ClearedIsConfirmed'
  <2>1. ASSUME Current', NEW x \in Dialers \cap rows', dialer'[x] = "cleared"
        PROVE  /\ x \in Admitted(access')
               /\ access'.admission[x] <= access'.confirmed[Binder]
    <3>1. CASE x = d
      BY <3>1, <2>1, <1>4 DEF DialerOwesKey
    <3>2. CASE x # d
      <4>1. x \in Admitted(access) /\ access.admission[x] <= access.confirmed[Binder]
        BY <3>2, <2>1, <1>4 DEF AuthInv, ClearedIsConfirmed
      <4>2. QED BY <4>1, <3>2, <1>5
    <3>3. QED BY <3>1, <3>2
  <2>2. ASSUME instance' = 0, NEW x \in Dialers PROVE dialer'[x] # "cleared"
    BY <2>2 DEF DialerOwesKey, AuthInv, ClearedIsConfirmed
  <2>3. QED BY <2>1, <2>2 DEF ClearedIsConfirmed
<1>7. \A e \in pending' : e.dialer \in Dialers
  BY DEF TypeOK
<1>8. \A e \in pending' : e.dialer # d =>
         /\ e.target > access.confirmed[Binder]
         /\ dialer[e.dialer] = "waiting" /\ Binder \in rows
         /\ ~fan_in /\ e.target <= access.current_version
         /\ e.dialer \in rows => /\ e.dialer \in Admitted(access)
                                 /\ access.admission[e.dialer] <= e.target
  BY DEF AuthInv, WaitersAreBehind, WaitersCoverTheirKey
<1>9. WaitersAreBehind'
  BY <1>7, <1>8 DEF DialerOwesWait, WaitersAreBehind
<1>10. WaitersCoverTheirKey'
  <2>1. /\ access.current_version \in Nat /\ access'.current_version \in Nat
        /\ access'.current_version >= access.current_version
        /\ \A e \in pending' : e.target \in Nat
    BY DEF AuthInv, TypeOK, Ledger, Grows
  <2>2. ASSUME NEW e \in pending'
        PROVE  /\ ~fan_in' /\ e.target <= access'.current_version
               /\ e.dialer \in rows' => /\ e.dialer \in Admitted(access')
                                        /\ access'.admission[e.dialer] <= e.target
    <3>1. CASE e.dialer = d
      BY <3>1 DEF DialerOwesWait
    <3>2. CASE e.dialer # d
      <4>1. e.target <= access'.current_version
        BY SMT, <3>2, <1>8, <2>1
      <4>2. e.dialer \in rows' => /\ e.dialer \in Admitted(access')
                                  /\ access'.admission[e.dialer] <= e.target
        BY <3>2, <1>5, <1>7, <1>8
      <4>3. QED BY <4>1, <4>2, <3>2, <1>8
    <3>3. QED BY <3>1, <3>2
  <2>3. \A e, f \in pending' : e.dialer = f.dialer => e = f
    BY DEF DialerOwesWait, AuthInv, WaitersCoverTheirKey
  <2>4. QED BY <2>2, <2>3 DEF WaitersCoverTheirKey
<1>11. BellsCarryChanges'
  <2>1. CASE Ring
    BY <2>1, SMTT(20) DEF Ring, BellsCarryChanges, AuthInv, TypeOK, binderVars
  <2>2. CASE bells' = bells /\ Admitted(access') = Admitted(access)
    BY <2>2 DEF BellsCarryChanges, AuthInv, binderVars
  <2>3. QED BY <2>1, <2>2
<1>12. QED BY <1>3, <1>6, <1>9, <1>10, <1>11 DEF AuthInv

LEMMA RegisterInv ==
  ASSUME AuthInv, NEW d \in Dialers, ConsumerRegister(d) \/ ProducerRegister(d)
  PROVE  AuthInv'
<1>1. /\ dialer[d] = "out" /\ rows' = rows \cup {d} /\ Ring
      /\ dialer' = [dialer EXCEPT ![d] = "registered"]
      /\ access' \in {Admit(access, d), Admit(ResetConfirmation(access, {d}), d)}
      /\ ~fan_in => Binder \in rows
      /\ UNCHANGED <<fan_in, heard, published, instance, pending, applied, binderVars>>
  BY DEF ConsumerRegister, ProducerRegister
<1>2. d \in Uids /\ d # Binder
  BY DEF Dialers
<1>3. access \in Ledger /\ Issued(access)
  BY DEF AuthInv, TypeOK, LedgerIssued
<1>4. /\ access' \in Ledger /\ Issued(access') /\ Grows(access, access')
      /\ Admitted(access') = Admitted(access) \cup {d}
      /\ access'.confirmed[Binder] = access.confirmed[Binder]
  <2>1. CASE access' = Admit(access, d)
    BY <2>1, <1>2, <1>3, AdmitFacts
  <2>2. CASE access' = Admit(ResetConfirmation(access, {d}), d)
    <3> DEFINE r == ResetConfirmation(access, {d})
    <3>1. /\ r \in Ledger /\ Issued(r) /\ Admitted(r) = Admitted(access)
          /\ r.admission = access.admission
          /\ r.current_version = access.current_version
          /\ r.confirmed[Binder] = access.confirmed[Binder]
      BY SMT, <1>2, <1>3, ResetFacts, BinderAssumption
    <3> HIDE DEF r
    <3>2. /\ access' \in Ledger /\ Issued(access') /\ Grows(r, access')
          /\ Admitted(access') = Admitted(access) \cup {d}
          /\ access'.confirmed = r.confirmed
      BY <3>1, <2>2, <1>2, AdmitFacts DEF r
    <3>3. QED BY <3>1, <3>2, <1>3, GrowsTwice
  <2>3. QED BY <1>1, <2>1, <2>2
<1>5. bells' \in Nat
  BY SMT, <1>1 DEF Ring, AuthInv, TypeOK
<1>6. ack' \in [Dialers -> Nat \cup {-1}]
  <2>1. access.current_version \in Nat
    BY <1>3 DEF Ledger
  <2>2. QED BY <2>1 DEF ConsumerRegister, ProducerRegister, AuthInv, TypeOK
<1>7. TypeOK'
  <2>1. dialer' \in [Dialers -> DialerStates]
    BY <1>1 DEF AuthInv, TypeOK, DialerStates
  <2>2. rows' \subseteq Uids
    BY <1>1, <1>2 DEF AuthInv, TypeOK
  <2>3. QED BY <1>1, <1>4, <1>5, <1>6, <2>1, <2>2 DEF AuthInv, TypeOK, binderVars
<1>8. dialer'[d] = "registered" /\ \A x \in Dialers \ {d} : dialer'[x] = dialer[x]
  BY <1>1 DEF AuthInv, TypeOK
<1>9. DialerMoves(d)
  BY <1>1, <1>2, <1>4, <1>8 DEF DialerMoves
<1>10. DialerOwesKey(d)
  BY <1>8 DEF DialerOwesKey
<1>11. DialerOwesWait(d)
  <2>1. \A e \in pending' : e.dialer # d
    BY <1>1 DEF AuthInv, WaitersAreBehind
  <2>2. QED BY <2>1 DEF DialerOwesWait
<1>12. ClosedIsEmpty'
  BY <1>1 DEF ClosedIsEmpty
<1>13. QED BY <1>7, <1>9, <1>10, <1>11, <1>12, DialerMovesInv

\* A step that leaves the ledger alone, or only confirms a dialing role.
LEMMA LedgerRests ==
  ASSUME AuthInv, access' = access
  PROVE  access' \in Ledger /\ Issued(access') /\ Grows(access, access')
BY SMT DEF AuthInv, TypeOK, LedgerIssued, Grows, Ledger

LEMMA DeferDialInv ==
  ASSUME AuthInv, NEW d \in Dialers, NEW lost \in BOOLEAN, DeferDial(d, lost)
  PROVE  AuthInv'
<1>1. /\ dialer[d] = "registered" /\ dialer' = [dialer EXCEPT ![d] = "waiting"]
      /\ access' = access \/ (ack[d] > 0 /\ access' = Confirm(access, d, ack[d]))
      /\ UNCHANGED <<fan_in, rows, heard, published, instance, pending, bells, applied,
                     binderVars, ack>>
  BY DEF DeferDial
<1>2. d \in Uids /\ d # Binder
  BY DEF Dialers
<1>3. access \in Ledger /\ Issued(access)
  BY DEF AuthInv, TypeOK, LedgerIssued
<1>4. /\ access' \in Ledger /\ Issued(access') /\ Grows(access, access')
      /\ Admitted(access') = Admitted(access)
      /\ access'.confirmed[Binder] = access.confirmed[Binder]
  <2>1. CASE access' = access
    BY <2>1, LedgerRests
  <2>2. CASE ack[d] > 0 /\ access' = Confirm(access, d, ack[d])
    <3>1. ack[d] \in Nat
      BY SMT, <2>2 DEF AuthInv, TypeOK
    <3>2. QED BY SMT, <3>1, <2>2, <1>2, <1>3, ConfirmFacts, BinderAssumption
  <2>3. QED BY <1>1, <2>1, <2>2
<1>5. dialer'[d] = "waiting" /\ \A x \in Dialers \ {d} : dialer'[x] = dialer[x]
  BY <1>1 DEF AuthInv, TypeOK
<1>6. TypeOK'
  <2>1. dialer' \in [Dialers -> DialerStates]
    BY <1>1 DEF AuthInv, TypeOK, DialerStates
  <2>2. QED BY <1>1, <1>4, <2>1 DEF AuthInv, TypeOK, binderVars
<1>7. DialerMoves(d)
  BY <1>1, <1>4, <1>5 DEF DialerMoves
<1>8. DialerOwesKey(d)
  BY <1>5 DEF DialerOwesKey
<1>9. DialerOwesWait(d)
  <2>1. \A e \in pending' : e.dialer # d
    BY <1>1 DEF AuthInv, WaitersAreBehind
  <2>2. QED BY <2>1 DEF DialerOwesWait
<1>10. ClosedIsEmpty'
  BY <1>1 DEF AuthInv, ClosedIsEmpty
<1>11. QED BY <1>6, <1>7, <1>8, <1>9, <1>10, DialerMovesInv

LEMMA AttachInv ==
  ASSUME AuthInv, NEW d \in Dialers, Attach(d)
  PROVE  AuthInv'
<1> DEFINE ok == Binder \in rows /\ d \in Admitted(access)
           fast == access.confirmed[Binder] >= access.current_version
           e0 == [dialer |-> d, target |-> access.current_version]
<1>1. /\ ~fan_in /\ dialer[d] = "registered"
      /\ dialer' = [dialer EXCEPT ![d] = IF ~ok THEN "out"
                                         ELSE IF fast THEN "cleared" ELSE "waiting"]
      /\ IF ok /\ ~fast THEN pending' = pending \cup {e0} /\ Ring
                        ELSE UNCHANGED <<pending, bells>>
      /\ UNCHANGED <<fan_in, rows, heard, published, access, instance, applied,
                     binderVars, ack>>
  BY DEF Attach
<1>2. /\ access.confirmed[Binder] \in Nat /\ access.current_version \in Nat
      /\ \A x \in Uids : access.admission[x] \in Nat
                         /\ access.admission[x] <= access.current_version
  BY BinderAssumption DEF AuthInv, TypeOK, Ledger, LedgerIssued, Issued
<1>3. /\ e0 \in [dialer : Dialers, target : Nat]
      /\ e0.dialer = d /\ e0.target = access.current_version
  BY <1>2
<1> HIDE DEF e0
<1>4. /\ dialer'[d] = (IF ~ok THEN "out" ELSE IF fast THEN "cleared" ELSE "waiting")
      /\ \A x \in Dialers \ {d} : dialer'[x] = dialer[x]
  BY <1>1 DEF AuthInv, TypeOK
<1>5. TypeOK'
  <2>1. dialer' \in [Dialers -> DialerStates]
    BY <1>1 DEF AuthInv, TypeOK, DialerStates
  <2>2. pending' \subseteq [dialer : Dialers, target : Nat]
    BY <1>1, <1>3 DEF AuthInv, TypeOK
  <2>3. bells' \in Nat
    BY SMT, <1>1 DEF Ring, AuthInv, TypeOK
  <2>4. QED BY <1>1, <2>1, <2>2, <2>3 DEF AuthInv, TypeOK, binderVars
<1>6. \A e \in pending' : e.dialer # d => e \in pending
  BY <1>1, <1>3
<1>7. \A e \in pending' : e.dialer = d => e = e0 /\ ok /\ ~fast
  <2>1. \A e \in pending : e.dialer # d
    BY <1>1 DEF AuthInv, WaitersAreBehind
  <2>2. QED BY <2>1, <1>1
<1>8. DialerMoves(d)
  <2>1. access' \in Ledger /\ Issued(access') /\ Grows(access, access')
    BY <1>1, LedgerRests
  <2>2. Ring \/ bells' = bells
    BY <1>1
  <2>3. QED BY <1>1, <1>4, <1>6, <2>1, <2>2 DEF DialerMoves
<1>9. DialerOwesKey(d)
  <2>1. SUFFICES ASSUME dialer'[d] = "cleared"
                 PROVE  /\ instance # 0 /\ d \in Admitted(access')
                        /\ access'.admission[d] <= access'.confirmed[Binder]
    BY DEF DialerOwesKey
  <2>2. ok /\ fast
    BY <2>1, <1>4
  <2>3. instance # 0
    BY <2>2 DEF AuthInv, RequestsAreOfRegistrations
  <2>4. access.admission[d] <= access.confirmed[Binder]
    BY SMT, <2>2, <1>2 DEF Admitted
  <2>5. QED BY <2>2, <2>3, <2>4, <1>1
<1>10. DialerOwesWait(d)
  <2>1. ASSUME NEW e \in pending', e.dialer = d
        PROVE  /\ e.target > access'.confirmed[Binder]
               /\ dialer'[d] = "waiting" /\ Binder \in rows'
               /\ ~fan_in /\ e.target <= access'.current_version
               /\ d \in Admitted(access') /\ access'.admission[d] <= e.target
    <3>1. e.target = access.current_version /\ ok /\ ~fast
      BY <2>1, <1>3, <1>7
    <3>2. e.target > access.confirmed[Binder] /\ e.target <= access.current_version
      BY SMT, <3>1, <1>2
    <3>3. access.admission[d] <= e.target
      BY <3>1, <1>2 DEF Admitted
    <3>4. QED BY <3>1, <3>2, <3>3, <1>1, <1>4
  <2>2. QED BY <2>1, <1>7 DEF DialerOwesWait
<1>11. ClosedIsEmpty'
  BY <1>1 DEF AuthInv, ClosedIsEmpty
<1>12. QED BY <1>5, <1>8, <1>9, <1>10, <1>11, DialerMovesInv

\* The steps of a dialing role that the broker's ledger does not see.
LEMMA QuietDialerInv ==
  ASSUME AuthInv, NEW d \in Dialers,
         \/ CheckPeerReady(d) \/ StartupTimeout(d) \/ Dial(d) \/ DialerCrash(d)
  PROVE  AuthInv'
<1>1. /\ UNCHANGED <<fan_in, rows, heard, published, access, instance, bells, applied,
                     binderVars>>
      /\ ack' = ack \/ ack' = [ack EXCEPT ![d] = -1]
      /\ \E v \in DialerStates : dialer' = [dialer EXCEPT ![d] = v]
      /\ pending' = pending \/ pending' = {e \in pending : e.dialer # d}
  <2>1. CASE CheckPeerReady(d)
    BY <2>1 DEF CheckPeerReady, brokerVars, DialerStates
  <2>2. CASE StartupTimeout(d)
    BY <2>2 DEF StartupTimeout, DialerStates
  <2>3. CASE Dial(d)
    BY <2>3 DEF Dial, brokerVars, DialerStates
  <2>4. CASE DialerCrash(d)
    BY <2>4 DEF DialerCrash, DialerStops, DialerStates
  <2>5. QED BY <2>1, <2>2, <2>3, <2>4
<1>2. \A x \in Dialers \ {d} : dialer'[x] = dialer[x]
  BY <1>1 DEF AuthInv, TypeOK
<1>3. TypeOK'
  <2>1. dialer' \in [Dialers -> DialerStates]
    BY <1>1 DEF AuthInv, TypeOK
  <2>2. ack' \in [Dialers -> Nat \cup {-1}]
    BY <1>1 DEF AuthInv, TypeOK
  <2>3. pending' \subseteq [dialer : Dialers, target : Nat]
    BY <1>1 DEF AuthInv, TypeOK
  <2>4. QED BY <1>1, <2>1, <2>2, <2>3 DEF AuthInv, TypeOK, binderVars
<1>4. DialerMoves(d)
  <2>1. access' \in Ledger /\ Issued(access') /\ Grows(access, access')
    BY <1>1, LedgerRests
  <2>2. QED BY <1>1, <1>2, <2>1 DEF DialerMoves
<1>5. DialerOwesKey(d)
  <2>1. CASE CheckPeerReady(d)
    <3>1. SUFFICES ASSUME dialer'[d] = "cleared" PROVE instance # 0 /\ VisibleTo(d)
      BY <1>1 DEF DialerOwesKey, VisibleTo, Admitted, Dialers
    <3>2. VisibleTo(d)
      BY <3>1, <2>1 DEF CheckPeerReady, AuthInv, TypeOK
    <3>3. QED BY <3>2 DEF VisibleTo, AuthInv, RequestsAreOfRegistrations
  <2>2. CASE StartupTimeout(d) \/ Dial(d) \/ DialerCrash(d)
    BY <2>2 DEF StartupTimeout, Dial, DialerCrash, DialerStops, DialerOwesKey, AuthInv,
                TypeOK
  <2>3. QED BY <2>1, <2>2
<1>6. \A e \in pending' : e.dialer # d
  <2>1. CASE CheckPeerReady(d) \/ Dial(d)
    BY <2>1 DEF CheckPeerReady, Dial, brokerVars, AuthInv, WaitersAreBehind,
                WaitersCoverTheirKey
  <2>2. CASE StartupTimeout(d) \/ DialerCrash(d)
    BY <2>2 DEF StartupTimeout, DialerCrash, DialerStops
  <2>3. QED BY <2>1, <2>2
<1>7. DialerOwesWait(d)
  BY <1>6 DEF DialerOwesWait
<1>8. ClosedIsEmpty'
  BY <1>1 DEF AuthInv, ClosedIsEmpty
<1>9. QED BY <1>3, <1>4, <1>5, <1>7, <1>8, DialerMovesInv

LEMMA DialerGoesInv ==
  ASSUME AuthInv, NEW d \in Dialers, DialerLeave(d) \/ ReapDialer(d)
  PROVE  AuthInv'
<1>1. /\ d \in rows /\ DropDialer(d)
      /\ UNCHANGED <<fan_in, instance, applied, binderVars>>
  BY DEF DialerLeave, ReapDialer, DialerStops
<1>2. \/ /\ dialer' = [dialer EXCEPT ![d] = "out"] /\ ack' = [ack EXCEPT ![d] = -1]
         /\ pending' = {e \in pending : e.dialer # d}
      \/ dialer' = dialer /\ ack' = ack /\ pending' = pending
  BY DEF DialerLeave, ReapDialer, DialerStops, dialerVars
<1>3. d \in Uids /\ d # Binder
  BY DEF Dialers
<1>4. access \in Ledger /\ Issued(access)
  BY DEF AuthInv, TypeOK, LedgerIssued
<1>5. /\ dialer' \in [Dialers -> DialerStates] /\ ack' \in [Dialers -> Nat \cup {-1}]
      /\ pending' \subseteq [dialer : Dialers, target : Nat] /\ pending' \subseteq pending
  <2>1. dialer' \in [Dialers -> DialerStates]
    BY <1>2 DEF AuthInv, TypeOK, DialerStates
  <2>2. ack' \in [Dialers -> Nat \cup {-1}]
    BY <1>2 DEF AuthInv, TypeOK
  <2>3. QED BY <1>2, <2>1, <2>2 DEF AuthInv, TypeOK
<1>6. /\ \A x \in Dialers \ {d} : dialer'[x] = dialer[x]
      /\ dialer'[d] = "out" \/ dialer'[d] = dialer[d]
  BY <1>2 DEF AuthInv, TypeOK
<1>7. CASE fan_in /\ rows \subseteq {d, Binder}
  <2>1. /\ rows' = {} /\ heard' = FALSE /\ published' = FALSE
        /\ access' = EmptyLedger /\ bells' = bells
    BY <1>1, <1>7 DEF DropDialer
  <2>2. TypeOK'
    BY <2>1, <1>1, <1>5, EmptyFacts DEF AuthInv, TypeOK, binderVars
  <2>3. pending' = {}
    BY <1>5, <1>7 DEF AuthInv, WaitersCoverTheirKey
  <2>4. bstate' = "registering" => ~synced'
    BY <1>1 DEF AuthInv, FreshRegistration, binderVars
  <2>5. \A x \in Dialers : dialer'[x] = "cleared" => dialer[x] = "cleared"
    BY <1>6
  <2>6. bstate = "down" => bstate' = "down"
    BY <1>1 DEF binderVars
  <2>7. QED BY <2>1, <2>2, <2>3, <2>4, <2>5, <2>6, <1>1, ClosedInv
<1>8. CASE ~(fan_in /\ rows \subseteq {d, Binder})
  <2>1. /\ rows' = rows \ {d}
        /\ UNCHANGED <<heard, published>>
        /\ \/ ~fan_in /\ Ring /\ access' = Revoke(access, {d})
           \/ fan_in /\ bells' = bells /\ access' = ResetConfirmation(access, {d})
    BY <1>1, <1>8 DEF DropDialer
  <2>2. /\ access' \in Ledger /\ Issued(access') /\ Grows(access, access')
        /\ access'.confirmed[Binder] = access.confirmed[Binder]
        /\ Admitted(access') \ {d} = Admitted(access) \ {d}
        /\ Ring \/ (bells' = bells /\ Admitted(access') = Admitted(access))
    <3>1. CASE access' = Revoke(access, {d}) /\ Ring
      BY <3>1, <1>3, <1>4, RevokeFacts
    <3>2. CASE access' = ResetConfirmation(access, {d}) /\ bells' = bells
      BY SMT, <3>2, <1>3, <1>4, ResetFacts, BinderAssumption
    <3>3. QED BY <2>1, <3>1, <3>2
  <2>3. bells' \in Nat
    BY SMT, <2>2 DEF Ring, AuthInv, TypeOK
  <2>4. TypeOK'
    BY <2>1, <2>2, <2>3, <1>1, <1>5 DEF AuthInv, TypeOK, binderVars
  <2>5. DialerMoves(d)
    BY <2>1, <2>2, <1>1, <1>3, <1>5, <1>6 DEF DialerMoves
  <2>6. DialerOwesKey(d)
    <3>1. dialer'[d] = "cleared" => instance # 0
      BY <1>6 DEF AuthInv, ClearedIsConfirmed
    <3>2. QED BY <3>1, <2>1 DEF DialerOwesKey
  <2>7. DialerOwesWait(d)
    <3>1. ASSUME NEW e \in pending', e.dialer = d
          PROVE  /\ e.target > access'.confirmed[Binder]
                 /\ dialer'[d] = "waiting" /\ Binder \in rows'
                 /\ ~fan_in /\ e.target <= access'.current_version
      <4>1. e \in pending /\ dialer' = dialer
        BY <3>1, <1>2
      <4>2. /\ e.target > access.confirmed[Binder] /\ dialer[d] = "waiting"
            /\ Binder \in rows /\ ~fan_in /\ e.target <= access.current_version
        BY <4>1, <3>1 DEF AuthInv, WaitersAreBehind, WaitersCoverTheirKey
      <4>3. /\ access.current_version \in Nat /\ access'.current_version \in Nat
            /\ access'.current_version >= access.current_version /\ e.target \in Nat
        BY <2>2, <4>1 DEF AuthInv, TypeOK, Ledger, Grows
      <4>4. e.target <= access'.current_version
        BY SMT, <4>2, <4>3
      <4>5. QED BY <4>1, <4>2, <4>4, <2>1, <2>2, <1>3
    <3>2. \A e, f \in pending' : e.dialer = d /\ f.dialer = d => e = f
      BY <1>5 DEF AuthInv, WaitersCoverTheirKey
    <3>3. d \notin rows'
      BY <2>1
    <3>4. QED BY <3>1, <3>2, <3>3 DEF DialerOwesWait
  <2>8. ClosedIsEmpty'
    BY <2>1, <1>1, <1>3, <1>5 DEF AuthInv, ClosedIsEmpty
  <2>9. QED BY <2>4, <2>5, <2>6, <2>7, <2>8, DialerMovesInv
<1>9. QED BY <1>7, <1>8

-----------------------------------------------------------------------------
(* The theorems                                                            *)

LEMMA AuthInitInv ==
  ASSUME Init
  PROVE  AuthInv
<1> USE DEF Init
<1>1. TypeOK
  <2>1. held \in [keys : SUBSET Dialers, version : Nat]
    BY DEF NoReply
  <2>2. dialer \in [Dialers -> DialerStates] /\ ack \in [Dialers -> Nat \cup {-1}]
    BY DEF DialerStates
  <2>3. QED BY <2>1, <2>2, EmptyFacts DEF TypeOK, BinderStates
<1>2. LedgerIssued /\ RequestsAreOfRegistrations
  BY EmptyFacts, BinderAssumption DEF LedgerIssued, RequestsAreOfRegistrations,
                                      EmptyLedger
<1>3. ~Current
  BY DEF Current
<1>4. FreshRegistration /\ VouchedIsInstalled /\ ClearedIsConfirmed
  BY <1>3 DEF FreshRegistration, VouchedIsInstalled, ClearedIsConfirmed
<1>5. WaitersAreBehind /\ WaitersCoverTheirKey /\ ClosedIsEmpty /\ BellsCarryChanges
  BY DEF WaitersAreBehind, WaitersCoverTheirKey, ClosedIsEmpty, BellsCarryChanges
<1>6. QED BY <1>1, <1>2, <1>4, <1>5 DEF AuthInv

LEMMA AuthStepInv ==
  ASSUME AuthInv, [Next]_vars
  PROVE  AuthInv'
<1>1. CASE BinderStep
  BY <1>1, BinderRegisterInv, ApplyRegAckInv, PullAllowlistInv, InstallAllowlistInv,
     BinderGoesInv DEF BinderStep
<1>2. CASE Delivery
  BY <1>2, LossInv, ChannelAuthAppliedInv DEF Delivery
<1>3. CASE \E d \in Dialers : DialerStep(d)
  <2>1. PICK d \in Dialers : DialerStep(d)
    BY <1>3
  <2>2. CASE ConsumerRegister(d) \/ ProducerRegister(d)
    BY <2>2, RegisterInv
  <2>3. CASE \E lost \in BOOLEAN : DeferDial(d, lost)
    BY <2>3, DeferDialInv
  <2>4. CASE Attach(d)
    BY <2>4, AttachInv
  <2>5. CASE CheckPeerReady(d) \/ StartupTimeout(d) \/ Dial(d) \/ DialerCrash(d)
    BY <2>5, QuietDialerInv
  <2>6. CASE DialerLeave(d) \/ ReapDialer(d)
    BY <2>6, DialerGoesInv
  <2>7. QED BY <2>1, <2>2, <2>3, <2>4, <2>5, <2>6 DEF DialerStep
<1>4. CASE UNCHANGED vars
  <2> USE <1>4 DEF vars, brokerVars, binderVars, dialerVars
  <2>1. TypeOK'
    BY DEF AuthInv, TypeOK
  <2>2. /\ LedgerIssued' /\ ClearedIsConfirmed' /\ WaitersAreBehind'
        /\ WaitersCoverTheirKey' /\ ClosedIsEmpty'
    BY BrokerRests
  <2>3. Mine' = Mine /\ Current' = Current
    BY DEF Mine, Current
  <2>4. RequestsAreOfRegistrations' /\ FreshRegistration' /\ BellsCarryChanges'
    BY <2>3 DEF AuthInv, RequestsAreOfRegistrations, FreshRegistration,
                BellsCarryChanges
  <2>5. VouchedIsInstalled'
    BY <2>3 DEF AuthInv, VouchedIsInstalled, Vouched
  <2>6. QED BY <2>1, <2>2, <2>4, <2>5 DEF AuthInv
<1>5. QED BY <1>1, <1>2, <1>3, <1>4 DEF Next

\* The inductive invariant holds in every behaviour of the broker
\* (broker_service.cpp), the binding role and the dialing roles
\* (role_api_base.cpp).
THEOREM AuthInvariant == Spec => []AuthInv
<1>1. Init => AuthInv
  BY AuthInitInv
<1>2. AuthInv /\ [Next]_vars => AuthInv'
  BY AuthStepInv
<1>3. QED BY <1>1, <1>2, PTL DEF Spec

\* A role that was told to connect is in the allowlist it will meet, a binding
\* role that lost nothing has the ledger's keys, and an attach that waits is
\* behind the confirmation (handle_consumer_attach_req_zmq,
\* handle_check_peer_ready_req, handle_channel_auth_applied_req): with doorbells
\* and requests lost, delayed or overtaken, and any role crashing at any point.
THEOREM AuthStaysInStep == Spec => []AuthInStep
<1>1. AuthInv => AuthInStep
  <2> SUFFICES ASSUME AuthInv PROVE AuthInStep
    OBVIOUS
  <2>1. TypeOK /\ WaitersAreBehind
    BY DEF AuthInv
  <2>2. ClearedIsAllowed
    <3> SUFFICES ASSUME Serving, fan_in => instance = 1,
                        NEW d \in Dialers \cap rows, dialer[d] = "cleared"
                 PROVE  d \in allowlist
      BY DEF ClearedIsAllowed
    <3>1. Current /\ bstate # "down"
      BY DEF Serving, Current
    <3>2. d \in Admitted(access) /\ Vouched(access.admission[d])
      BY <3>1 DEF AuthInv, ClearedIsConfirmed, Vouched
    <3>3. QED BY <3>1, <3>2 DEF AuthInv, VouchedIsInstalled
  <2>3. DriftNeedsLoss
    BY DEF AuthInv, BellsCarryChanges, DriftNeedsLoss, Serving
  <2>4. QED BY <2>1, <2>2, <2>3 DEF AuthInStep
<1>2. QED BY <1>1, AuthInvariant, PTL

\* The answer "ready" of handle_check_peer_ready_req is true as long as the
\* binding consumer has registered only once: coming back is the one way to
\* make it false.
THEOREM FirstReadyIsTrue == Spec => []((fan_in => instance = 1) => ReadyMeansAllowed)
<1>1. AuthInv => ((fan_in => instance = 1) => ReadyMeansAllowed)
  <2> SUFFICES ASSUME AuthInv, fan_in => instance = 1, Serving,
                      NEW d \in Dialers \cap rows, VisibleTo(d)
               PROVE  d \in allowlist
    BY DEF ReadyMeansAllowed
  <2>1. Current /\ bstate # "down"
    BY DEF Serving, Current
  <2>2. d \in Admitted(access) /\ Vouched(access.admission[d])
    <3>1. access.admission[d] <= access.confirmed[Binder]
      BY BinderAssumption DEF VisibleTo, AuthInv, TypeOK, Ledger, Dialers
    <3>2. QED BY <3>1 DEF VisibleTo, Vouched, Admitted, Dialers
  <2>3. QED BY <2>1, <2>2 DEF AuthInv, VouchedIsInstalled
<1>2. QED BY <1>1, AuthInvariant, PTL
=============================================================================
