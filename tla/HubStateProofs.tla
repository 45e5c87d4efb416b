--------------------------- MODULE HubStateProofs ---------------------------
(***************************************************************************)
(* Proofs about the hub's registry (HubState): its maps agree, allowlists  *)
(* are rosters, confirmations are current, versions grow, and a role's     *)
(* schema record outlives the channels that cite it.  For any sets of      *)
(* roles, channels, bands and schemas and for queues of any bound.         *)
(*                                                                         *)
(* First, the inductive invariant survives whatever brings a role to a     *)
(* channel (the registration of producers and consumers) and whatever      *)
(* removes one (deregistration, the close of a channel, the sweep of       *)
(* silent roles); then the other requests and the theorems.                *)
(***************************************************************************)
EXTENDS HubState, AdmissionLedgerProofs, SequenceTheorems

\* The leaves are Zenon's unless they cite SMT: few of them need arithmetic.
USE Zenon

-----------------------------------------------------------------------------
(* Admission                                                               *)

\* Every channel that stays open keeps what its ledger means.
GrowStep == \A k \in channels \cap channels' : Grows(access[k], access'[k])

\* The ledger of a channel a producer joins.
LEMMA ProducerLedgerFacts ==
  ASSUME HubInv, NEW k \in Channels, NEW u \in Uids, NEW topo
  PROVE  LET m == ProducerLedger(k, u, topo) IN
         /\ m \in Ledger
         /\ m.current_version >= access[k].current_version
         /\ \A v \in Uids : m.confirmed[v] = IF v = u THEN 0 ELSE access[k].confirmed[v]
         /\ topo # "fan-in" => Admitted(m) = Admitted(access[k])
         /\ Issued(m)
         /\ Grows(access[k], m)
<1> DEFINE l == access[k]
           r == ResetConfirmation(l, {u})
           m == ProducerLedger(k, u, topo)
<1>1. l \in Ledger /\ Issued(l)
  BY DEF HubInv, HubTypeOK, ConfirmedWasIssued, Issued
<1>2. l.current_version \in Nat /\ l.confirmed \in [Uids -> Nat]
  BY <1>1 DEF Ledger
<1>3. /\ r \in Ledger
      /\ r.current_version = l.current_version
      /\ r.admission = l.admission
      /\ \A v \in Uids : r.confirmed[v] = IF v \in {u} THEN 0 ELSE l.confirmed[v]
      /\ Admitted(r) = Admitted(l)
      /\ Issued(r)
      /\ Grows(l, r)
  BY <1>1, ResetFacts, SMTT(20)
<1>4. CASE topo # "fan-in"
  <2>1. m = r
    BY <1>4 DEF ProducerLedger
  <2> HIDE DEF r, m, l
  <2>2. QED BY SMT, <2>1, <1>2, <1>3 DEF m, l
<1>5. CASE topo = "fan-in"
  <2>1. m = Admit(r, u)
    BY <1>5 DEF ProducerLedger
  <2> HIDE DEF r, m, l
  <2>2. /\ m \in Ledger
        /\ m.confirmed = r.confirmed
        /\ m.current_version >= r.current_version
        /\ Issued(m)
        /\ Grows(r, m)
    BY <2>1, <1>3, AdmitFacts
  <2>3. Grows(l, m)
    BY <1>1, <1>3, <2>2, GrowsTwice
  <2>4. QED BY <1>3, <1>5, <2>2, <2>3 DEF m, l
<1>6. QED BY <1>4, <1>5

\* A producer that finds its channel open joins a fan-in, under the channel's own
\* citation, which is not its own record.
LEMMA JoinIsFanIn ==
  ASSUME HubInv, NEW k \in Channels, NEW u \in Uids, NEW declared, NEW tr, NEW cite,
         RegReq(k, u, declared, tr, cite), k \in channels
  PROVE  /\ topology[k] = "fan-in" /\ transport[k] = tr
         /\ channel_schema[k] = cite /\ cite.owner \notin Uids
<1>1. /\ cite \in Cites[u] /\ SchemaGate(k, u, cite)
      /\ transport[k] = tr /\ u \notin producers[k]
      /\ CheckCardinality(topology[k], "producer", producers[k])
  BY DEF RegReq, CanAddProducer
<1>2. channel_schema[k] = cite
  BY <1>1 DEF SchemaGate
<1>3. cite.owner \notin Uids
  <2>1. cite.owner \in {Anonymous, Hub, u}
    BY <1>1, HubAssumption
  <2>2. cite.owner \in Uids => producers[k] = {cite.owner}
    BY <1>2 DEF HubInv, OwnerProduces
  <2>3. QED BY <2>1, <2>2, <1>1, HubAssumption
<1>4. topology[k] = "fan-in"
  <2> SUFFICES ASSUME topology[k] # "fan-in" PROVE FALSE
    OBVIOUS
  <2>1. producers[k] = {}
    BY <1>1 DEF CheckCardinality
  <2>2. Cardinality(producers[k]) = 1
    BY DEF HubInv, TopologyRespected
  <2>3. QED BY SMT, <2>1, <2>2, FS_EmptySet
<1>5. QED BY <1>1, <1>2, <1>3, <1>4

\* REG_REQ preserves the types.
LEMMA RegType ==
  ASSUME HubInv, NEW k \in Channels, NEW u \in Uids,
         NEW declared \in Topologies \cup {Undeclared}, NEW tr \in Transports,
         NEW cite \in Cites[u], RegReq(k, u, declared, tr, cite)
  PROVE  HubTypeOK'
<1> USE DEF HubInv, HubTypeOK
<1>1. cite \in Citation /\ cite.hash \in Schemas \cup {NoSchema}
  BY SMT, HubAssumption DEF Citation
<1>2. /\ channels' \subseteq Channels /\ accessed' \subseteq Channels
      /\ shm_blocks' \subseteq Channels /\ roles' \subseteq Uids
  BY DEF RegReq, UpsertPresence
<1>3. topology' \in [Channels -> Topologies] /\ transport' \in [Channels -> Transports]
  BY DEF RegReq, OpenTopology, Topologies
<1>4. channel_schema' \in [Channels -> Citation]
  BY <1>1 DEF RegReq
<1>5. producers' \in [Channels -> SUBSET Uids] /\ consumers' \in [Channels -> SUBSET Uids]
  BY DEF RegReq
<1>6. <<u, k, "producer">> \in Rows
  BY DEF Rows, RoleTypes
<1>7. presence' \in [Rows -> PresenceStates] /\ role_channels' \in [Uids -> SUBSET Channels]
  BY <1>6 DEF RegReq, UpsertPresence, PresenceStates
<1>8. schemas' \in [Uids -> Schemas \cup {NoSchema}] /\ bands' \in [Bands -> SUBSET Uids]
  BY <1>1 DEF RegReq, RegisterSchema
<1>9. access' \in [Channels -> Ledger]
  <2>1. \A topo : ProducerLedger(k, u, topo) \in Ledger
    BY ProducerLedgerFacts
  <2>2. QED BY <2>1 DEF RegReq
<1>10. /\ producer_instance' \in [Uids -> Nat]
       /\ pending_attach_queue' \in [Channels -> [Uids -> Seq(AttachEntry)]]
  BY SMTT(20) DEF RegReq
<1>11. QED BY <1>2, <1>3, <1>4, <1>5, <1>7, <1>8, <1>9, <1>10

\* A new presence row of u at k goes with a new place on the roster.
LEMMA UpsertRoster ==
  ASSUME HubInv, NEW k \in Channels, NEW u \in Uids, NEW t \in RoleTypes,
         UpsertPresence(u, k, t),
         producers' = IF t = "producer" THEN [producers EXCEPT ![k] = @ \cup {u}]
                                        ELSE producers,
         consumers' = IF t = "consumer" THEN [consumers EXCEPT ![k] = @ \cup {u}]
                                        ELSE consumers
  PROVE  RosterMatchesPresence'
<1>1. /\ roles' = roles \cup {u}
      /\ role_channels' = [role_channels EXCEPT ![u] = role_channels[u] \cup {k}]
      /\ presence \in [Rows -> PresenceStates]
      /\ role_channels \in [Uids -> SUBSET Channels]
      /\ producers \in [Channels -> SUBSET Uids] /\ consumers \in [Channels -> SUBSET Uids]
      /\ RosterMatchesPresence
  BY DEF UpsertPresence, HubInv, HubTypeOK
<1>2. \A v \in Uids, j \in Channels, s \in RoleTypes :
        presence'[<<v, j, s>>] # "absent"
          <=> presence[<<v, j, s>>] # "absent" \/ <<v, j, s>> = <<u, k, t>>
  <2>1. <<u, k, t>> \in Rows /\ \A v \in Uids, j \in Channels, s \in RoleTypes : <<v, j, s>> \in Rows
    BY DEF Rows
  <2>2. QED BY <1>1, <2>1 DEF UpsertPresence
<1>3. "producer" \in RoleTypes /\ "consumer" \in RoleTypes /\ t \in {"producer", "consumer"}
  BY DEF RoleTypes
<1>4. ASSUME NEW v \in Uids, NEW j \in Channels
      PROVE  /\ v \in producers'[j] <=> presence'[<<v, j, "producer">>] # "absent"
             /\ v \in consumers'[j] <=> presence'[<<v, j, "consumer">>] # "absent"
  <2>1. /\ v \in producers[j] <=> presence[<<v, j, "producer">>] # "absent"
        /\ v \in consumers[j] <=> presence[<<v, j, "consumer">>] # "absent"
    BY <1>1 DEF RosterMatchesPresence
  <2>2. /\ v \in producers'[j] <=> v \in producers[j] \/ (t = "producer" /\ v = u /\ j = k)
        /\ v \in consumers'[j] <=> v \in consumers[j] \/ (t = "consumer" /\ v = u /\ j = k)
    BY <1>1, <1>3
  <2>3. QED BY <1>2, <1>3, <2>1, <2>2
<1>5. ASSUME NEW v \in Uids, NEW j \in Channels
      PROVE  j \in role_channels'[v] <=> \E s \in RoleTypes : presence'[<<v, j, s>>] # "absent"
  <2>1. j \in role_channels[v] <=> \E s \in RoleTypes : presence[<<v, j, s>>] # "absent"
    BY <1>1 DEF RosterMatchesPresence
  <2>2. j \in role_channels'[v] <=> j \in role_channels[v] \/ (v = u /\ j = k)
    BY <1>1
  <2>3. QED BY <1>2, <2>1, <2>2
<1>6. \A v \in Uids : role_channels'[v] # {} => v \in roles'
  BY <1>1 DEF RosterMatchesPresence
<1>7. QED BY <1>4, <1>5, <1>6 DEF RosterMatchesPresence

\* REG_REQ keeps rosters, presences, access records and topologies in step.
LEMMA RegMaps ==
  ASSUME HubInv, NEW k \in Channels, NEW u \in Uids,
         NEW declared \in Topologies \cup {Undeclared}, NEW tr \in Transports,
         NEW cite \in Cites[u], RegReq(k, u, declared, tr, cite)
  PROVE  /\ RosterMatchesPresence' /\ AccessFollowsChannel'
         /\ TopologyRespected' /\ AllowlistIsRoster' /\ SidesApart'
<1> DEFINE topo == IF k \notin channels THEN OpenTopology(declared) ELSE topology[k]
<1>1. /\ channels' = channels \cup {k}
      /\ topology' = [topology EXCEPT ![k] = topo]
      /\ transport' = [transport EXCEPT ![k] = tr]
      /\ producers' = [producers EXCEPT ![k] = producers[k] \cup {u}]
      /\ consumers' = consumers
      /\ shm_blocks' = IF k \notin channels /\ tr = "shm" THEN shm_blocks \cup {k}
                                                          ELSE shm_blocks
      /\ accessed' = IF k \notin channels THEN accessed \cup {k} ELSE accessed
      /\ access' = [access EXCEPT ![k] = ProducerLedger(k, u, topo)]
      /\ pending_attach_queue' = pending_attach_queue
      /\ UpsertPresence(u, k, "producer")
      /\ u \in ProducerOf[k]
  BY DEF RegReq, HubInv, HubTypeOK
<1>2. HubTypeOK /\ AccessFollowsChannel /\ TopologyRespected /\ AllowlistIsRoster /\ SidesApart
  BY DEF HubInv
<1>3. k \notin channels => /\ producers[k] = {} /\ consumers[k] = {}
                           /\ access[k] = EmptyLedger
                           /\ TransportCompatible(topo, tr)
  BY <1>2 DEF AccessFollowsChannel, RegReq, CanAddProducer
<1>4. k \in channels => topo = "fan-in" /\ topology[k] = "fan-in" /\ transport[k] = tr
  BY JoinIsFanIn
<1> HIDE DEF topo
<1>5. RosterMatchesPresence'
  <2>1. producers' = IF "producer" = "producer" THEN [producers EXCEPT ![k] = @ \cup {u}]
                                                ELSE producers
    BY <1>1, <1>2 DEF HubTypeOK
  <2>2. consumers' = IF "producer" = "consumer" THEN [consumers EXCEPT ![k] = @ \cup {u}]
                                                ELSE consumers
    BY <1>1
  <2>3. "producer" \in RoleTypes
    BY DEF RoleTypes
  <2>4. QED BY <2>1, <2>2, <2>3, <1>1, UpsertRoster
<1>6. AccessFollowsChannel'
  <2>1. accessed' = channels'
    BY <1>1, <1>2 DEF AccessFollowsChannel
  <2>2. shm_blocks' = {j \in channels' : transport'[j] = "shm"}
    <3>1. shm_blocks = {j \in channels : transport[j] = "shm"} /\ transport \in [Channels -> Transports]
          /\ channels \subseteq Channels
      BY <1>2 DEF AccessFollowsChannel, HubTypeOK
    <3>2. \A j \in Channels : transport'[j] = IF j = k THEN tr ELSE transport[j]
      BY <1>1, <3>1
    <3>3. QED BY <1>1, <1>4, <3>1, <3>2
  <2>3. ASSUME NEW j \in Channels \ channels'
        PROVE  access'[j] = EmptyLedger /\ producers'[j] = {} /\ consumers'[j] = {}
    BY <1>1, <1>2 DEF AccessFollowsChannel, HubTypeOK
  <2>4. \A j \in Channels, v \in Uids :
          pending_attach_queue'[j][v] # <<>> => v \in producers'[j]
    BY <1>1, <1>2 DEF AccessFollowsChannel, HubTypeOK
  <2>5. QED BY <2>1, <2>2, <2>3, <2>4 DEF AccessFollowsChannel
<1>7. TopologyRespected' /\ AllowlistIsRoster'
  <2> SUFFICES ASSUME NEW j \in channels'
               PROVE  /\ topology'[j] # "fan-in" => Cardinality(producers'[j]) = 1
                      /\ topology'[j] # "fan-out" => Cardinality(consumers'[j]) <= 1
                      /\ TransportCompatible(topology'[j], transport'[j])
                      /\ topology'[j] # "fan-in" => Admitted(access'[j]) = consumers'[j]
    BY DEF TopologyRespected, AllowlistIsRoster
  <2>1. CASE j # k
    <3>1. /\ topology'[j] = topology[j] /\ transport'[j] = transport[j]
          /\ producers'[j] = producers[j] /\ consumers'[j] = consumers[j]
          /\ access'[j] = access[j] /\ j \in channels
      BY <2>1, <1>1, <1>2 DEF HubTypeOK
    <3>2. QED BY <3>1, <1>2 DEF TopologyRespected, AllowlistIsRoster
  <2>2. CASE j = k
    <3>1. /\ topology'[k] = topo /\ transport'[k] = tr
          /\ producers'[k] = producers[k] \cup {u} /\ consumers'[k] = consumers[k]
          /\ access'[k] = ProducerLedger(k, u, topo)
      BY <1>1, <1>2 DEF HubTypeOK
    <3>2. topo # "fan-in" => Admitted(access'[k]) = Admitted(access[k])
      <4> HIDE DEF topo
      <4> QED BY SMT, <3>1, ProducerLedgerFacts
    <3>3. CASE k \notin channels
      <4>1. producers'[k] = {u} /\ consumers'[k] = {}
        BY <3>1, <3>3, <1>3
      <4>2. Cardinality(producers'[k]) = 1 /\ Cardinality(consumers'[k]) = 0
        BY <4>1, FS_Singleton, FS_EmptySet
      <4>3. topo # "fan-in" => Admitted(access'[k]) = consumers'[k]
        BY <3>2, <3>3, <4>1, <1>3, EmptyFacts
      <4>4. QED BY <2>2, <3>1, <3>3, <4>2, <4>3, <1>3, SMTT(20)
    <3>4. CASE k \in channels
      <4>1. Cardinality(consumers[k]) <= 1 /\ TransportCompatible(topology[k], transport[k])
        BY <3>4, <1>2, <1>4 DEF TopologyRespected
      <4>2. QED BY <2>2, <3>1, <3>4, <4>1, <1>4
    <3>5. QED BY <3>3, <3>4
  <2>3. QED BY <2>1, <2>2
<1>8. SidesApart'
  BY <1>1, <1>2 DEF SidesApart, HubTypeOK
<1>9. QED BY <1>5, <1>6, <1>7, <1>8

\* What waits keeps waiting for a good reason while versions grow and the
\* producers waited for confirm nothing.
LEMMA KeepsPending ==
  ASSUME HubInv, access' \in [Channels -> Ledger],
         pending_attach_queue' = pending_attach_queue,
         \A k \in Channels :
            /\ access'[k].current_version >= access[k].current_version
            /\ \A p \in Uids : pending_attach_queue[k][p] # <<>>
                  => access'[k].confirmed[p] <= access[k].confirmed[p]
            /\ Issued(access'[k])
  PROVE  PendingNeedsConfirmation' /\ ConfirmedWasIssued'
<1>1. ConfirmedWasIssued'
  BY DEF ConfirmedWasIssued, Issued
<1>2. ASSUME NEW k \in Channels, NEW p \in Uids
      PROVE  LET q == pending_attach_queue[k][p] IN
             \A i \in 1 .. Len(q) :
                /\ access'[k].confirmed[p] < q[i].target
                /\ q[i].target <= access'[k].current_version
                /\ \A j \in 1 .. i : q[j].target <= q[i].target
  <2> DEFINE q == pending_attach_queue[k][p]
  <2>1. access[k] \in Ledger /\ access'[k] \in Ledger
    BY DEF HubInv, HubTypeOK
  <2>2. /\ access[k].confirmed[p] \in Nat /\ access'[k].confirmed[p] \in Nat
        /\ access[k].current_version \in Nat /\ access'[k].current_version \in Nat
    BY <2>1 DEF Ledger
  <2>3. q \in Seq(AttachEntry)
    BY DEF HubInv, HubTypeOK
  <2>4. \A i \in 1 .. Len(q) : q[i] \in AttachEntry /\ q # <<>>
    BY SMT, <2>3
  <2>5. \A i \in 1 .. Len(q) : q[i].target \in Nat
    BY <2>4 DEF AttachEntry
  <2>6. \A i \in 1 .. Len(q) : /\ access[k].confirmed[p] < q[i].target
                               /\ q[i].target <= access[k].current_version
                               /\ \A j \in 1 .. i : q[j].target <= q[i].target
    BY DEF HubInv, PendingNeedsConfirmation
  <2>7. \A i \in 1 .. Len(q) : access'[k].confirmed[p] <= access[k].confirmed[p]
    BY <2>4
  <2>8. access'[k].current_version >= access[k].current_version
    OBVIOUS
  <2> HIDE DEF q
  <2>9. \A i \in 1 .. Len(q) : /\ access'[k].confirmed[p] < q[i].target
                               /\ q[i].target <= access'[k].current_version
    BY SMT, <2>2, <2>5, <2>6, <2>7, <2>8
  <2>10. QED BY <2>6, <2>9 DEF q
<1>3. PendingNeedsConfirmation'
  BY <1>2 DEF PendingNeedsConfirmation
<1>4. QED BY <1>1, <1>3

\* REG_REQ takes the producer's old confirmation away and gives none.
LEMMA RegConfirm ==
  ASSUME HubInv, NEW k \in Channels, NEW u \in Uids,
         NEW declared \in Topologies \cup {Undeclared}, NEW tr \in Transports,
         NEW cite \in Cites[u], RegReq(k, u, declared, tr, cite)
  PROVE  /\ PendingNeedsConfirmation' /\ ConfirmedWasIssued'
         /\ NoStaleProducerConfirmation' /\ GrowStep
<1> DEFINE topo == IF k \notin channels THEN OpenTopology(declared) ELSE topology[k]
           m == ProducerLedger(k, u, topo)
<1>1. /\ channels' = channels \cup {k}
      /\ producers' = [producers EXCEPT ![k] = producers[k] \cup {u}]
      /\ access' = [access EXCEPT ![k] = m]
      /\ pending_attach_queue' = pending_attach_queue
  BY DEF RegReq, HubInv, HubTypeOK
<1>2. /\ access \in [Channels -> Ledger] /\ producers \in [Channels -> SUBSET Uids]
      /\ channels \subseteq Channels
  BY DEF HubInv, HubTypeOK
<1>3. /\ m \in Ledger
      /\ m.current_version >= access[k].current_version
      /\ \A v \in Uids : m.confirmed[v] = IF v = u THEN 0 ELSE access[k].confirmed[v]
      /\ Issued(m)
      /\ Grows(access[k], m)
  <2> HIDE DEF topo
  <2> QED BY SMT, ProducerLedgerFacts
<1> HIDE DEF m, topo
<1>4. \A j \in Channels : access'[j] = IF j = k THEN m ELSE access[j]
  BY <1>1, <1>2
<1>5. \A j \in Channels : /\ access[j].current_version \in Nat
                          /\ access[j].confirmed \in [Uids -> Nat]
                          /\ Issued(access[j])
  BY <1>2 DEF HubInv, ConfirmedWasIssued, Issued, Ledger
<1>6. \A j \in Channels :
            /\ access'[j].current_version >= access[j].current_version
            /\ \A p \in Uids : access'[j].confirmed[p] <= access[j].confirmed[p]
            /\ Issued(access'[j])
  BY <1>3, <1>4, <1>5, SMTT(20)
<1>7. access' \in [Channels -> Ledger]
  BY <1>1, <1>2, <1>3
<1>8. PendingNeedsConfirmation' /\ ConfirmedWasIssued'
  BY <1>1, <1>6, <1>7, KeepsPending
<1>9. NoStaleProducerConfirmation'
  <2> SUFFICES ASSUME NEW j \in channels', NEW v \in ProducerOf[j],
                      access'[j].confirmed[v] # 0
               PROVE  v \in producers'[j]
    BY DEF NoStaleProducerConfirmation
  <2>1. j \in Channels /\ v \in Uids
    BY SMT, <1>1, <1>2, HubAssumption
  <2>2. access[j].confirmed[v] # 0
    BY <2>1, <1>3, <1>4
  <2>3. j \in channels
    <3>1. j \notin channels => access[j] = EmptyLedger
      BY <2>1 DEF HubInv, AccessFollowsChannel
    <3>2. EmptyLedger.confirmed[v] = 0
      BY <2>1 DEF EmptyLedger
    <3>3. QED BY <2>2, <3>1, <3>2
  <2>4. v \in producers[j]
    BY <2>2, <2>3 DEF HubInv, NoStaleProducerConfirmation
  <2>5. QED BY <2>1, <2>4, <1>1, <1>2
<1>10. GrowStep
  <2> SUFFICES ASSUME NEW j \in channels PROVE Grows(access[j], access'[j])
    BY DEF GrowStep
  <2>1. CASE j = k
    BY <2>1, <1>2, <1>3, <1>4
  <2>2. CASE j # k
    <3>1. access'[j] = access[j]
      BY <2>2, <1>2, <1>4
    <3>2. QED BY <3>1, <1>2, <1>5, SMTT(20) DEF Grows
  <2>3. QED BY <2>1, <2>2
<1>11. QED BY <1>8, <1>9, <1>10

\* A role's own record is created or equal, so no channel loses its backing.
LEMMA RegSchema ==
  ASSUME HubInv, NEW k \in Channels, NEW u \in Uids,
         NEW declared \in Topologies \cup {Undeclared}, NEW tr \in Transports,
         NEW cite \in Cites[u], RegReq(k, u, declared, tr, cite)
  PROVE  OwnerProduces' /\ SchemaRecordBacksChannel' /\ ErasureStep
<1>1. /\ channels' = channels \cup {k}
      /\ channel_schema' = [channel_schema EXCEPT ![k] = cite]
      /\ producers' = [producers EXCEPT ![k] = producers[k] \cup {u}]
      /\ roles' = roles \cup {u}
      /\ schemas' = IF cite.owner = u THEN [schemas EXCEPT ![u] = cite.hash] ELSE schemas
      /\ cite.owner = u => schemas[u] \in {NoSchema, cite.hash}
  BY DEF RegReq, UpsertPresence, RegisterSchema, SchemaGate, HubInv, HubTypeOK
<1>2. /\ producers \in [Channels -> SUBSET Uids] /\ channels \subseteq Channels
      /\ channel_schema \in [Channels -> Citation]
      /\ schemas \in [Uids -> Schemas \cup {NoSchema}]
  BY DEF HubInv, HubTypeOK
<1>3. /\ cite.owner \in {Anonymous, Hub, u}
      /\ cite.owner \in Uids => cite.owner = u /\ cite.hash # NoSchema
  BY SMT, HubAssumption
<1>4. k \in channels => channel_schema[k] = cite /\ cite.owner \notin Uids
  BY JoinIsFanIn
<1>5. k \notin channels => producers[k] = {}
  BY DEF HubInv, AccessFollowsChannel
<1>6. \A j \in channels : channel_schema[j].owner \in Uids =>
        /\ producers[j] = {channel_schema[j].owner} /\ channel_schema[j].hash # NoSchema
        /\ channel_schema[j].owner \in roles
        /\ schemas[channel_schema[j].owner] = channel_schema[j].hash
  BY DEF HubInv, OwnerProduces, SchemaRecordBacksChannel
<1>7. OwnerProduces'
  <2> SUFFICES ASSUME NEW j \in channels', channel_schema'[j].owner \in Uids
               PROVE  /\ producers'[j] = {channel_schema'[j].owner}
                      /\ channel_schema'[j].hash # NoSchema
    BY DEF OwnerProduces
  <2>1. CASE j = k
    <3>1. channel_schema'[j] = cite /\ producers'[j] = producers[k] \cup {u}
      BY <2>1, <1>1, <1>2
    <3>2. QED BY <3>1, <1>3, <1>4, <1>5
  <2>2. CASE j # k
    <3>1. j \in channels /\ channel_schema'[j] = channel_schema[j] /\ producers'[j] = producers[j]
      BY <2>2, <1>1, <1>2
    <3>2. QED BY <3>1, <1>6
  <2>3. QED BY <2>1, <2>2
<1>8. SchemaRecordBacksChannel'
  <2> SUFFICES ASSUME NEW j \in channels', channel_schema'[j].owner \in Uids
               PROVE  /\ channel_schema'[j].owner \in roles'
                      /\ schemas'[channel_schema'[j].owner] = channel_schema'[j].hash
    BY DEF SchemaRecordBacksChannel
  <2>1. CASE j = k
    <3>1. channel_schema'[j] = cite
      BY <2>1, <1>1, <1>2
    <3>2. QED BY <3>1, <1>1, <1>2, <1>3
  <2>2. CASE j # k
    <3>1. j \in channels /\ channel_schema'[j] = channel_schema[j]
      BY <2>2, <1>1, <1>2
    <3>2. schemas[channel_schema[j].owner] = channel_schema[j].hash
          /\ channel_schema[j].owner \in roles /\ channel_schema[j].hash # NoSchema
      BY <3>1, <1>6
    <3>3. schemas'[channel_schema[j].owner] = schemas[channel_schema[j].owner]
      BY <3>1, <3>2, <1>1, <1>2
    <3>4. QED BY <3>1, <3>2, <3>3, <1>1, SMTT(20)
  <2>3. QED BY <2>1, <2>2
<1>9. ErasureStep
  BY <1>1 DEF ErasureStep
<1>10. QED BY <1>7, <1>8, <1>9

\* The ledger of a channel a consumer joins.
LEMMA ConsumerLedgerFacts ==
  ASSUME HubInv, NEW k \in Channels, NEW u \in Uids, NEW topo
  PROVE  LET m == ConsumerLedger(k, u, topo) IN
         /\ m \in Ledger
         /\ m.current_version >= access[k].current_version
         /\ m.confirmed = access[k].confirmed
         /\ topo # "fan-in" => Admitted(m) = Admitted(access[k]) \cup {u}
         /\ Issued(m)
         /\ Grows(access[k], m)
<1>1. access[k] \in Ledger /\ Issued(access[k])
  BY DEF HubInv, HubTypeOK, ConfirmedWasIssued, Issued
<1>2. access[k].current_version \in Nat
  BY <1>1 DEF Ledger
<1>3. CASE topo = "fan-in"
  BY <1>1, <1>2, <1>3, SMTT(20) DEF ConsumerLedger, Grows
<1>4. CASE topo # "fan-in"
  BY <1>1, <1>4, AdmitFacts DEF ConsumerLedger
<1>5. QED BY <1>3, <1>4

\* CONSUMER_REG_REQ preserves the types.
LEMMA ConsumerRegType ==
  ASSUME HubInv, NEW k \in Channels, NEW u \in Uids,
         NEW declared \in Topologies \cup {Undeclared},
         NEW tr \in Transports \cup {Undeclared}, NEW cite \in Expects[u],
         ConsumerRegReq(k, u, declared, tr, cite)
  PROVE  HubTypeOK'
<1> USE DEF HubInv, HubTypeOK
<1>1. cite \in Citation
  BY HubAssumption
<1>2. /\ channels' \subseteq Channels /\ accessed' \subseteq Channels
      /\ shm_blocks' \subseteq Channels /\ roles' \subseteq Uids
  BY DEF ConsumerRegReq, UpsertPresence
<1>3. topology' \in [Channels -> Topologies] /\ transport' \in [Channels -> Transports]
  BY DEF ConsumerRegReq, Topologies, Transports
<1>4. channel_schema' \in [Channels -> Citation]
  BY <1>1 DEF ConsumerRegReq
<1>5. producers' \in [Channels -> SUBSET Uids] /\ consumers' \in [Channels -> SUBSET Uids]
  BY DEF ConsumerRegReq
<1>6. <<u, k, "consumer">> \in Rows
  BY DEF Rows, RoleTypes
<1>7. presence' \in [Rows -> PresenceStates] /\ role_channels' \in [Uids -> SUBSET Channels]
  BY <1>6 DEF ConsumerRegReq, UpsertPresence, PresenceStates
<1>8. schemas' \in [Uids -> Schemas \cup {NoSchema}] /\ bands' \in [Bands -> SUBSET Uids]
  BY DEF ConsumerRegReq
<1>9. access' \in [Channels -> Ledger]
  <2>1. \A topo : ConsumerLedger(k, u, topo) \in Ledger
    BY ConsumerLedgerFacts
  <2>2. QED BY <2>1 DEF ConsumerRegReq
<1>10. /\ producer_instance' \in [Uids -> Nat]
       /\ pending_attach_queue' \in [Channels -> [Uids -> Seq(AttachEntry)]]
  BY DEF ConsumerRegReq
<1>11. QED BY <1>2, <1>3, <1>4, <1>5, <1>7, <1>8, <1>9, <1>10

\* CONSUMER_REG_REQ keeps rosters, presences, access records and topologies in
\* step.
LEMMA ConsumerRegMaps ==
  ASSUME HubInv, NEW k \in Channels, NEW u \in Uids,
         NEW declared \in Topologies \cup {Undeclared},
         NEW tr \in Transports \cup {Undeclared}, NEW cite \in Expects[u],
         ConsumerRegReq(k, u, declared, tr, cite)
  PROVE  /\ RosterMatchesPresence' /\ AccessFollowsChannel'
         /\ TopologyRespected' /\ AllowlistIsRoster' /\ SidesApart'
<1> DEFINE topo == IF k \notin channels THEN "fan-in" ELSE topology[k]
<1>1. /\ channels' = channels \cup {k}
      /\ topology' = [topology EXCEPT ![k] = topo]
      /\ transport' = [transport EXCEPT ![k] = IF k \notin channels THEN "zmq" ELSE transport[k]]
      /\ consumers' = [consumers EXCEPT ![k] = consumers[k] \cup {u}]
      /\ producers' = producers /\ shm_blocks' = shm_blocks
      /\ accessed' = IF k \notin channels THEN accessed \cup {k} ELSE accessed
      /\ access' = [access EXCEPT ![k] = ConsumerLedger(k, u, topo)]
      /\ pending_attach_queue' = pending_attach_queue
      /\ UpsertPresence(u, k, "consumer")
      /\ u \in ConsumerOf[k]
  BY DEF ConsumerRegReq, HubInv, HubTypeOK
<1>2. HubTypeOK /\ AccessFollowsChannel /\ TopologyRespected /\ AllowlistIsRoster /\ SidesApart
  BY DEF HubInv
<1>3. k \notin channels => /\ producers[k] = {} /\ consumers[k] = {}
                           /\ access[k] = EmptyLedger /\ topo = "fan-in"
  BY <1>2 DEF AccessFollowsChannel
<1>4. k \in channels => /\ topo = topology[k]
                        /\ \/ u \in consumers[k] \/ consumers[k] = {} \/ topology[k] = "fan-out"
  BY DEF ConsumerRegReq, CanAddConsumer, CheckCardinality
<1> HIDE DEF topo
<1>5. RosterMatchesPresence'
  <2>1. consumers' = IF "consumer" = "consumer" THEN [consumers EXCEPT ![k] = @ \cup {u}]
                                                ELSE consumers
    BY <1>1, <1>2 DEF HubTypeOK
  <2>2. producers' = IF "consumer" = "producer" THEN [producers EXCEPT ![k] = @ \cup {u}]
                                                ELSE producers
    BY <1>1
  <2>3. "consumer" \in RoleTypes
    BY DEF RoleTypes
  <2>4. QED BY <2>1, <2>2, <2>3, <1>1, UpsertRoster
<1>6. AccessFollowsChannel'
  <2>1. accessed' = channels'
    BY <1>1, <1>2 DEF AccessFollowsChannel
  <2>2. shm_blocks' = {j \in channels' : transport'[j] = "shm"}
    <3>1. shm_blocks = {j \in channels : transport[j] = "shm"} /\ transport \in [Channels -> Transports]
          /\ channels \subseteq Channels
      BY <1>2 DEF AccessFollowsChannel, HubTypeOK
    <3>2. \A j \in Channels : transport'[j] = IF j = k /\ k \notin channels THEN "zmq"
                                                                          ELSE transport[j]
      BY <1>1, <3>1
    <3>3. QED BY <1>1, <3>1, <3>2
  <2>3. ASSUME NEW j \in Channels \ channels'
        PROVE  access'[j] = EmptyLedger /\ producers'[j] = {} /\ consumers'[j] = {}
    BY <1>1, <1>2 DEF AccessFollowsChannel, HubTypeOK
  <2>4. \A j \in Channels, v \in Uids :
          pending_attach_queue'[j][v] # <<>> => v \in producers'[j]
    BY <1>1, <1>2 DEF AccessFollowsChannel
  <2>5. QED BY <2>1, <2>2, <2>3, <2>4 DEF AccessFollowsChannel
<1>7. TopologyRespected' /\ AllowlistIsRoster'
  <2> SUFFICES ASSUME NEW j \in channels'
               PROVE  /\ topology'[j] # "fan-in" => Cardinality(producers'[j]) = 1
                      /\ topology'[j] # "fan-out" => Cardinality(consumers'[j]) <= 1
                      /\ TransportCompatible(topology'[j], transport'[j])
                      /\ topology'[j] # "fan-in" => Admitted(access'[j]) = consumers'[j]
    BY DEF TopologyRespected, AllowlistIsRoster
  <2>1. CASE j # k
    <3>1. /\ topology'[j] = topology[j] /\ transport'[j] = transport[j]
          /\ producers'[j] = producers[j] /\ consumers'[j] = consumers[j]
          /\ access'[j] = access[j] /\ j \in channels
      BY <2>1, <1>1, <1>2 DEF HubTypeOK
    <3>2. QED BY <3>1, <1>2 DEF TopologyRespected, AllowlistIsRoster
  <2>2. CASE j = k
    <3>1. /\ topology'[k] = topo
          /\ transport'[k] = IF k \notin channels THEN "zmq" ELSE transport[k]
          /\ producers'[k] = producers[k] /\ consumers'[k] = consumers[k] \cup {u}
          /\ access'[k] = ConsumerLedger(k, u, topo)
      BY <1>1, <1>2 DEF HubTypeOK
    <3>2. topo # "fan-in" => Admitted(access'[k]) = Admitted(access[k]) \cup {u}
      <4> HIDE DEF topo
      <4> QED BY SMT, <3>1, ConsumerLedgerFacts
    <3>3. Cardinality({u}) = 1
      BY FS_Singleton
    <3>4. CASE k \notin channels
      <4>1. consumers'[k] = {u} /\ topo = "fan-in" /\ transport'[k] = "zmq"
        BY <3>1, <3>4, <1>3
      <4>2. QED BY <2>2, <3>1, <3>3, <4>1, SMTT(20) DEF TransportCompatible
    <3>5. CASE k \in channels
      <4>1. /\ topo # "fan-in" => Cardinality(producers[k]) = 1
            /\ topo # "fan-out" => Cardinality(consumers[k]) <= 1
            /\ TransportCompatible(topo, transport[k])
            /\ topo # "fan-in" => Admitted(access[k]) = consumers[k]
        BY <3>5, <1>2, <1>4 DEF TopologyRespected, AllowlistIsRoster
      <4>2. topo # "fan-out" => consumers'[k] = consumers[k] \/ consumers'[k] = {u}
        BY <3>1, <3>5, <1>4
      <4>3. topo # "fan-out" => Cardinality(consumers'[k]) <= 1
        BY <3>3, <4>1, <4>2, SMTT(20)
      <4>4. QED BY <2>2, <3>1, <3>2, <3>5, <4>1, <4>3
    <3>6. QED BY <3>4, <3>5
  <2>3. QED BY <2>1, <2>2
<1>8. SidesApart'
  BY <1>1, <1>2 DEF SidesApart, HubTypeOK
<1>9. QED BY <1>5, <1>6, <1>7, <1>8

\* CONSUMER_REG_REQ confirms nothing, and opens a channel under a citation that
\* is no role's own.
LEMMA ConsumerRegRest ==
  ASSUME HubInv, NEW k \in Channels, NEW u \in Uids,
         NEW declared \in Topologies \cup {Undeclared},
         NEW tr \in Transports \cup {Undeclared}, NEW cite \in Expects[u],
         ConsumerRegReq(k, u, declared, tr, cite)
  PROVE  /\ PendingNeedsConfirmation' /\ ConfirmedWasIssued'
         /\ NoStaleProducerConfirmation' /\ GrowStep
         /\ OwnerProduces' /\ SchemaRecordBacksChannel' /\ ErasureStep
<1> DEFINE topo == IF k \notin channels THEN "fan-in" ELSE topology[k]
           m == ConsumerLedger(k, u, topo)
<1>1. /\ channels' = channels \cup {k}
      /\ producers' = producers
      /\ access' = [access EXCEPT ![k] = m]
      /\ pending_attach_queue' = pending_attach_queue
      /\ schemas' = schemas /\ roles' = roles \cup {u}
      /\ channel_schema' = [channel_schema EXCEPT ![k] =
                               IF k \notin channels THEN cite ELSE channel_schema[k]]
  BY DEF ConsumerRegReq, UpsertPresence, HubInv, HubTypeOK
<1>2. /\ access \in [Channels -> Ledger] /\ channels \subseteq Channels
      /\ channel_schema \in [Channels -> Citation]
  BY DEF HubInv, HubTypeOK
<1>3. /\ m \in Ledger
      /\ m.current_version >= access[k].current_version
      /\ m.confirmed = access[k].confirmed
      /\ Issued(m)
      /\ Grows(access[k], m)
  <2> HIDE DEF topo
  <2> QED BY ConsumerLedgerFacts
<1> HIDE DEF m, topo
<1>4. \A j \in Channels : access'[j] = IF j = k THEN m ELSE access[j]
  BY <1>1, <1>2
<1>5. \A j \in Channels : /\ access[j].current_version \in Nat
                          /\ access[j].confirmed \in [Uids -> Nat]
                          /\ Issued(access[j])
  BY <1>2 DEF HubInv, ConfirmedWasIssued, Issued, Ledger
<1>6. \A j \in Channels :
            /\ access'[j].current_version >= access[j].current_version
            /\ \A p \in Uids : access'[j].confirmed[p] <= access[j].confirmed[p]
            /\ Issued(access'[j])
  BY <1>3, <1>4, <1>5, SMTT(20)
<1>7. access' \in [Channels -> Ledger]
  BY <1>1, <1>2, <1>3
<1>8. PendingNeedsConfirmation' /\ ConfirmedWasIssued'
  BY <1>1, <1>6, <1>7, KeepsPending
<1>9. NoStaleProducerConfirmation'
  <2> SUFFICES ASSUME NEW j \in channels', NEW v \in ProducerOf[j],
                      access'[j].confirmed[v] # 0
               PROVE  v \in producers[j]
    BY <1>1 DEF NoStaleProducerConfirmation
  <2>1. j \in Channels /\ v \in Uids
    BY SMT, <1>1, <1>2, HubAssumption
  <2>2. access[j].confirmed[v] # 0
    BY <2>1, <1>3, <1>4
  <2>3. j \in channels
    <3>1. j \notin channels => access[j] = EmptyLedger
      BY <2>1 DEF HubInv, AccessFollowsChannel
    <3>2. EmptyLedger.confirmed[v] = 0
      BY <2>1 DEF EmptyLedger
    <3>3. QED BY <2>2, <3>1, <3>2
  <2>4. QED BY <2>2, <2>3 DEF HubInv, NoStaleProducerConfirmation
<1>10. GrowStep
  <2> SUFFICES ASSUME NEW j \in channels PROVE Grows(access[j], access'[j])
    BY DEF GrowStep
  <2>1. CASE j = k
    BY <2>1, <1>2, <1>3, <1>4
  <2>2. CASE j # k
    <3>1. access'[j] = access[j]
      BY <2>2, <1>2, <1>4
    <3>2. QED BY <3>1, <1>2, <1>5, SMTT(20) DEF Grows
  <2>3. QED BY <2>1, <2>2
<1>11. \A j \in channels' : channel_schema'[j].owner \in Uids
         => j \in channels /\ channel_schema'[j] = channel_schema[j]
  <2>1. cite.owner \notin Uids
    BY HubAssumption
  <2>2. QED BY <2>1, <1>1, <1>2
<1>12. OwnerProduces' /\ SchemaRecordBacksChannel'
  BY <1>1, <1>11, SMTT(20) DEF HubInv, OwnerProduces, SchemaRecordBacksChannel
<1>13. ErasureStep
  BY <1>1 DEF ErasureStep
<1>14. QED BY <1>8, <1>9, <1>10, <1>12, <1>13

-----------------------------------------------------------------------------
(* The one effect of every departure                                       *)

\* DEREG_REQ, CONSUMER_DEREG_REQ, a close request and the sweep have one effect:
\* the channels of K close, the rows of gone are erased, those of late demoted;
\* a channel that stays loses the confirmations of its departed producers and
\* the keys of its departed consumers, and some of the oldest attaches expire.
ProducersIn(gone, k) == {u \in Uids : <<u, k, "producer">> \in gone}
ConsumersIn(gone, k) == {u \in Uids : <<u, k, "consumer">> \in gone}
Departs(K, gone, late) ==
    /\ K \subseteq channels
    /\ gone \subseteq PartyRows(channels) /\ late \subseteq PartyRows(channels)
    /\ \A k \in channels \ K : ProducersIn(gone, k) # {} => topology[k] = "fan-in"
    /\ \A k \in channels \ K : producers[k] # {} => producers[k] # ProducersIn(gone, k)
    /\ Depart(K, gone, late)
    /\ accessed' = accessed \ K
    /\ access' \in [Channels -> Ledger]
    /\ \A k \in K : access'[k] = EmptyLedger
    /\ \A k \in Channels \ K : \E R \in SUBSET Uids :
          /\ ProducersIn(gone, k) \subseteq R
          /\ access'[k] = Revoke(ResetConfirmation(access[k], R), ConsumersIn(gone, k))
    /\ pending_attach_queue' \in [Channels -> [Uids -> Seq(AttachEntry)]]
    /\ \A k \in Channels, u \in Uids :
          LET q == pending_attach_queue[k][u] IN
          IF k \in K \/ <<u, k, "producer">> \in gone
          THEN pending_attach_queue'[k][u] = <<>>
          ELSE \E n \in 0 .. Len(q) :
                  pending_attach_queue'[k][u] = SubSeq(q, n + 1, Len(q))
    /\ UNCHANGED producer_instance

\* The rows of the parties.
LEMMA RowOf ==
  ASSUME NEW k \in Channels, NEW u \in Uids, NEW K
  PROVE  /\ <<u, k, "producer">> \in PartyRows(K) <=> k \in K /\ u \in producers[k]
         /\ <<u, k, "consumer">> \in PartyRows(K) <=> k \in K /\ u \in consumers[k]
BY DEF PartyRows, Rows, RoleTypes

\* A producer of a channel that is not fan-in is its only one.
LEMMA OnlyProducer ==
  ASSUME HubInv, NEW k \in channels, topology[k] # "fan-in", NEW u \in producers[k]
  PROVE  producers[k] = {u}
<1>1. producers[k] \subseteq Uids /\ k \in Channels
  BY DEF HubInv, HubTypeOK
<1>2. IsFiniteSet(producers[k])
  BY <1>1, UidsAssumption, FS_Subset
<1>3. Cardinality(producers[k]) = 1
  BY DEF HubInv, TopologyRespected
<1>4. \E x : producers[k] = {x}
  BY <1>2, <1>3, FS_Singleton
<1>5. QED BY <1>4

\* A ledger nobody departs from, and a queue from which nothing expires.
LEMMA Untouched ==
  /\ \A l \in Ledger : Revoke(ResetConfirmation(l, {}), {}) = l
  /\ \A q \in Seq(AttachEntry) : SubSeq(q, 0 + 1, Len(q)) = q /\ 0 \in 0 .. Len(q)
<1>1. \A l \in Ledger : Revoke(ResetConfirmation(l, {}), {}) = l
  BY RevokeNothing, ResetNothing
<1>2. ASSUME NEW q \in Seq(AttachEntry)
      PROVE  SubSeq(q, 0 + 1, Len(q)) = q /\ 0 \in 0 .. Len(q)
  BY SMT, SubSeqProperties
<1>3. QED BY <1>1, <1>2

\* A deregistering producer departs.
LEMMA DeregDeparts ==
  ASSUME HubInv, NEW k \in Channels, NEW u \in Uids, DeregReq(k, u)
  PROVE  \E K, gone, late : Departs(K, gone, late)
<1> DEFINE last == producers[k] = {u}
           K    == IF last THEN {k} ELSE {}
           gone == {<<u, k, "producer">>}
<1>1. /\ u \in producers[k]
      /\ Depart(K, gone, {})
      /\ CloseAccess(K, gone)
      /\ access' = [access EXCEPT ![k] = IF last THEN EmptyLedger
                                         ELSE ResetConfirmation(access[k], {u})]
      /\ UNCHANGED producer_instance
  BY DEF DeregReq, HubInv, HubTypeOK
<1>2. /\ access \in [Channels -> Ledger]
      /\ pending_attach_queue \in [Channels -> [Uids -> Seq(AttachEntry)]]
      /\ producers \in [Channels -> SUBSET Uids]
      /\ channels \subseteq Channels
  BY DEF HubInv, HubTypeOK
<1>3. k \in channels
  BY <1>1 DEF HubInv, AccessFollowsChannel
<1>4. \A j \in Channels : /\ ConsumersIn(gone, j) = {}
                          /\ ProducersIn(gone, j) = IF j = k THEN {u} ELSE {}
  BY DEF ConsumersIn, ProducersIn
<1>5. K \subseteq channels /\ (last => K = {k}) /\ (~last => K = {})
  BY <1>3
<1>6. gone \subseteq PartyRows(channels) /\ {} \subseteq PartyRows(channels)
  <2>1. <<u, k, "producer">> \in PartyRows(channels)
    BY <1>1, <1>3, RowOf
  <2>2. QED BY <2>1
<1> HIDE DEF K, gone
<1>7. \A j \in channels \ K : ProducersIn(gone, j) # {} => topology[j] = "fan-in"
  <2> SUFFICES ASSUME ~last, topology[k] # "fan-in" PROVE FALSE
    BY <1>2, <1>4, <1>5
  <2> QED BY <1>1, <1>3, OnlyProducer
<1>8. \A j \in channels \ K : producers[j] # {} => producers[j] # ProducersIn(gone, j)
  BY <1>2, <1>4, <1>5
<1>9. /\ access' \in [Channels -> Ledger]
      /\ \A j \in K : access'[j] = EmptyLedger
  BY SMT, <1>1, <1>2, <1>5, EmptyFacts, ResetFacts
<1>10. ASSUME NEW j \in Channels \ K
       PROVE  \E R \in SUBSET Uids :
                /\ ProducersIn(gone, j) \subseteq R
                /\ access'[j] = Revoke(ResetConfirmation(access[j], R), ConsumersIn(gone, j))
  <2>1. CASE j = k
    <3>1. access'[k] = ResetConfirmation(access[k], {u})
      BY <2>1, <1>1, <1>2, <1>5
    <3>2. ResetConfirmation(access[k], {u}) \in Ledger
      BY SMT, <1>2, ResetFacts
    <3>3. access'[k] = Revoke(ResetConfirmation(access[k], {u}), {})
      BY <3>1, <3>2, RevokeNothing
    <3>4. {u} \in SUBSET Uids /\ ProducersIn(gone, k) \subseteq {u} /\ ConsumersIn(gone, k) = {}
      BY <1>4
    <3>5. QED BY <2>1, <3>3, <3>4
  <2>2. CASE j # k
    <3>1. access'[j] = access[j] /\ access[j] \in Ledger
      BY <2>2, <1>1, <1>2
    <3>2. access'[j] = Revoke(ResetConfirmation(access[j], {}), {})
      BY <3>1, Untouched
    <3>3. {} \in SUBSET Uids /\ ProducersIn(gone, j) \subseteq {} /\ ConsumersIn(gone, j) = {}
      BY <2>2, <1>4
    <3>4. QED BY <3>2, <3>3
  <2>3. QED BY <2>1, <2>2
<1>11. /\ accessed' = accessed \ K
       /\ pending_attach_queue' \in [Channels -> [Uids -> Seq(AttachEntry)]]
       /\ \A j \in Channels, v \in Uids :
             LET q == pending_attach_queue[j][v] IN
             IF j \in K \/ <<v, j, "producer">> \in gone
             THEN pending_attach_queue'[j][v] = <<>>
             ELSE \E n \in 0 .. Len(q) :
                     pending_attach_queue'[j][v] = SubSeq(q, n + 1, Len(q))
  <2>1. accessed' = accessed \ K
        /\ pending_attach_queue' =
              [j \in Channels |-> [v \in Uids |->
                  IF j \in K \/ <<v, j, "producer">> \in gone THEN <<>>
                  ELSE pending_attach_queue[j][v]]]
    BY <1>1 DEF CloseAccess
  <2>2. pending_attach_queue' \in [Channels -> [Uids -> Seq(AttachEntry)]]
    BY SMT, <2>1, <1>2
  <2>3. ASSUME NEW j \in Channels, NEW v \in Uids,
               ~(j \in K \/ <<v, j, "producer">> \in gone)
        PROVE  \E n \in 0 .. Len(pending_attach_queue[j][v]) :
                  pending_attach_queue'[j][v]
                    = SubSeq(pending_attach_queue[j][v], n + 1, Len(pending_attach_queue[j][v]))
    <3>1. pending_attach_queue'[j][v] = pending_attach_queue[j][v]
          /\ pending_attach_queue[j][v] \in Seq(AttachEntry)
      BY <2>1, <2>3, <1>2
    <3>2. QED BY <3>1, Untouched
  <2>4. QED BY <2>1, <2>2, <2>3
<1>12. Departs(K, gone, {})
  BY <1>1, <1>5, <1>6, <1>7, <1>8, <1>9, <1>10, <1>11 DEF Departs
<1>13. QED BY <1>12

\* A deregistering consumer departs.
LEMMA ConsumerDeregDeparts ==
  ASSUME HubInv, NEW k \in Channels, NEW u \in Uids, ConsumerDeregReq(k, u)
  PROVE  \E K, gone, late : Departs(K, gone, late)
<1> DEFINE gone == {<<u, k, "consumer">>}
<1>1. /\ u \in consumers[k]
      /\ Depart({}, gone, {})
      /\ access' = [access EXCEPT ![k] = Revoke(ResetConfirmation(access[k], {u}), {u})]
      /\ UNCHANGED <<accessed, pending_attach_queue, producer_instance>>
  BY DEF ConsumerDeregReq, HubInv, HubTypeOK
<1>2. /\ access \in [Channels -> Ledger]
      /\ pending_attach_queue \in [Channels -> [Uids -> Seq(AttachEntry)]]
      /\ consumers \in [Channels -> SUBSET Uids]
      /\ channels \subseteq Channels
  BY DEF HubInv, HubTypeOK
<1>3. k \in channels
  BY <1>1 DEF HubInv, AccessFollowsChannel
<1>4. \A j \in Channels : /\ ProducersIn(gone, j) = {}
                          /\ ConsumersIn(gone, j) = IF j = k THEN {u} ELSE {}
  BY DEF ConsumersIn, ProducersIn
<1>5. gone \subseteq PartyRows(channels) /\ {} \subseteq PartyRows(channels)
  <2>1. <<u, k, "consumer">> \in PartyRows(channels)
    BY <1>1, <1>3, RowOf
  <2>2. QED BY <2>1
<1>6. \A j \in Channels, v \in Uids : <<v, j, "producer">> \notin gone
  OBVIOUS
<1> HIDE DEF gone
<1>7. access' \in [Channels -> Ledger]
  BY <1>1, <1>2, RevokeFacts, ResetFacts, SMTT(20)
<1>8. ASSUME NEW j \in Channels \ {}
      PROVE  \E R \in SUBSET Uids :
               /\ ProducersIn(gone, j) \subseteq R
               /\ access'[j] = Revoke(ResetConfirmation(access[j], R), ConsumersIn(gone, j))
  <2>1. CASE j = k
    <3>1. /\ access'[j] = Revoke(ResetConfirmation(access[j], {u}), ConsumersIn(gone, j))
          /\ {u} \in SUBSET Uids /\ ProducersIn(gone, j) \subseteq {u}
      BY <2>1, <1>1, <1>2, <1>4
    <3>2. QED BY <3>1
  <2>2. CASE j # k
    <3>1. access'[j] = access[j] /\ access[j] \in Ledger
      BY <2>2, <1>1, <1>2
    <3>2. access'[j] = Revoke(ResetConfirmation(access[j], {}), {})
      BY <3>1, Untouched
    <3>3. {} \in SUBSET Uids /\ ProducersIn(gone, j) \subseteq {} /\ ConsumersIn(gone, j) = {}
      BY <2>2, <1>4
    <3>4. QED BY <3>2, <3>3
  <2>3. QED BY <2>1, <2>2
<1>9. ASSUME NEW j \in Channels, NEW v \in Uids
      PROVE  \E n \in 0 .. Len(pending_attach_queue[j][v]) :
                pending_attach_queue'[j][v]
                  = SubSeq(pending_attach_queue[j][v], n + 1, Len(pending_attach_queue[j][v]))
  <2>1. pending_attach_queue[j][v] \in Seq(AttachEntry)
    BY <1>2
  <2>2. QED BY <2>1, <1>1, Untouched
<1>10. /\ {} \subseteq channels
       /\ accessed' = accessed \ {}
       /\ pending_attach_queue' \in [Channels -> [Uids -> Seq(AttachEntry)]]
       /\ \A j \in channels : ProducersIn(gone, j) = {}
  BY <1>1, <1>2, <1>4
<1>11. Departs({}, gone, {})
  BY <1>1, <1>5, <1>6, <1>7, <1>8, <1>9, <1>10 DEF Departs
<1>12. QED BY <1>11

\* The parties of a channel that is closed depart.
LEMMA CloseDeparts ==
  ASSUME HubInv, NEW k \in Channels, CloseRequest(k)
  PROVE  \E K, gone, late : Departs(K, gone, late)
<1>1. /\ k \in channels
      /\ Depart({k}, {}, {})
      /\ CloseAccess({k}, {})
      /\ access' = [access EXCEPT ![k] = EmptyLedger]
      /\ UNCHANGED producer_instance
  BY DEF CloseRequest
<1>2. /\ access \in [Channels -> Ledger]
      /\ pending_attach_queue \in [Channels -> [Uids -> Seq(AttachEntry)]]
      /\ {k} \subseteq channels /\ {} \subseteq PartyRows(channels)
  BY <1>1 DEF HubInv, HubTypeOK
<1>3. \A j : ProducersIn({}, j) = {} /\ ConsumersIn({}, j) = {}
  BY DEF ConsumersIn, ProducersIn
<1>4. /\ access' \in [Channels -> Ledger]
      /\ \A j \in {k} : access'[j] = EmptyLedger
  BY <1>1, <1>2, EmptyFacts
<1>5. ASSUME NEW j \in Channels \ {k}
      PROVE  \E R \in SUBSET Uids :
               /\ ProducersIn({}, j) \subseteq R
               /\ access'[j] = Revoke(ResetConfirmation(access[j], R), ConsumersIn({}, j))
  <2>1. access'[j] = access[j] /\ access[j] \in Ledger
    BY <1>1, <1>2
  <2>2. access'[j] = Revoke(ResetConfirmation(access[j], {}), {})
    BY <2>1, Untouched
  <2>3. {} \in SUBSET Uids /\ ProducersIn({}, j) \subseteq {} /\ ConsumersIn({}, j) = {}
    BY <1>3
  <2>4. QED BY <2>2, <2>3
<1>6. accessed' = accessed \ {k}
      /\ pending_attach_queue' = [j \in Channels |-> [v \in Uids |->
                IF j \in {k} \/ <<v, j, "producer">> \in {} THEN <<>>
                ELSE pending_attach_queue[j][v]]]
  BY <1>1 DEF CloseAccess
<1>7. pending_attach_queue' \in [Channels -> [Uids -> Seq(AttachEntry)]]
  BY SMT, <1>2, <1>6
<1>8. ASSUME NEW j \in Channels, NEW v \in Uids
      PROVE  LET q == pending_attach_queue[j][v] IN
             IF j \in {k} \/ <<v, j, "producer">> \in {}
             THEN pending_attach_queue'[j][v] = <<>>
             ELSE \E n \in 0 .. Len(q) :
                     pending_attach_queue'[j][v] = SubSeq(q, n + 1, Len(q))
  <2>1. pending_attach_queue[j][v] \in Seq(AttachEntry)
    BY <1>2
  <2>2. QED BY <2>1, <1>6, Untouched
<1>9. Departs({k}, {}, {})
  BY <1>1, <1>2, <1>3, <1>4, <1>5, <1>6, <1>7, <1>8 DEF Departs
<1>10. QED BY <1>9

\* The parties a sweep reaps depart.
LEMMA SweepDeparts ==
  ASSUME HubInv, Sweep
  PROVE  \E K, gone, late : Departs(K, gone, late)
<1>1. PICK n \in [Waiting -> 0 .. MaxPending], late \in SUBSET Demotable,
           dead \in SUBSET Reapable :
        /\ \A w \in Waiting : n[w] <= Len(pending_attach_queue[w[1]][w[2]])
        /\ CheckHeartbeatTimeouts(late, dead, n)
  BY DEF Sweep
<1> DEFINE K    == Doomed(dead)
           gone == {x \in dead : x[2] \notin K}
<1>2. /\ Depart(K, gone, late)
      /\ accessed' = accessed \ K
      /\ access' = [k \in Channels |-> IF k \in K THEN EmptyLedger
                                                  ELSE SweptLedger(k, dead)]
      /\ pending_attach_queue' =
              [k \in Channels |-> [u \in Uids |->
                  IF k \in K \/ <<u, k, "producer">> \in gone THEN <<>>
                  ELSE ExpireAttaches(k, u, n)]]
      /\ UNCHANGED producer_instance
  BY <1>1 DEF CheckHeartbeatTimeouts
<1>3. /\ access \in [Channels -> Ledger]
      /\ pending_attach_queue \in [Channels -> [Uids -> Seq(AttachEntry)]]
      /\ producers \in [Channels -> SUBSET Uids]
      /\ channels \subseteq Channels
  BY DEF HubInv, HubTypeOK
<1>4. late \subseteq PartyRows(channels) /\ dead \subseteq PartyRows(channels)
  BY <1>1 DEF Demotable, Reapable
<1>5. K \subseteq channels /\ gone \subseteq PartyRows(channels)
  BY <1>4 DEF Doomed
<1>6. \A k \in Channels \ K : /\ ProducersIn(gone, k) = ProducersIn(dead, k)
                              /\ ConsumersIn(gone, k) = ConsumersIn(dead, k)
  BY DEF ProducersIn, ConsumersIn
<1>7. ASSUME NEW k \in channels \ K
      PROVE  producers[k] # {} => producers[k] # ProducersIn(gone, k)
  BY <1>3, <1>6 DEF Doomed, ProducersIn
<1>8. ASSUME NEW k \in channels \ K, ProducersIn(gone, k) # {}, topology[k] # "fan-in"
      PROVE  FALSE
  <2>1. PICK u \in Uids : <<u, k, "producer">> \in dead
    BY <1>8, <1>3, <1>6 DEF ProducersIn
  <2>2. u \in producers[k]
    BY <2>1, <1>3, <1>4, RowOf
  <2>3. producers[k] = {u}
    BY <2>2, <1>8, OnlyProducer
  <2>4. k \in Doomed(dead)
    BY <2>1, <2>3 DEF Doomed
  <2>5. QED BY <2>4
<1> HIDE DEF K, gone
<1>9. \A k \in Channels \ K :
        /\ access'[k] = Revoke(ResetConfirmation(access[k], ProducersIn(gone, k)),
                               ConsumersIn(gone, k))
        /\ ProducersIn(gone, k) \in SUBSET Uids
        /\ ConsumersIn(gone, k) \in SUBSET Uids
  BY <1>2, <1>6 DEF SweptLedger, ProducersIn, ConsumersIn
<1>10. /\ access' \in [Channels -> Ledger]
       /\ \A k \in K : access'[k] = EmptyLedger
  <2>1. \A k \in Channels : access'[k] \in Ledger
    <3>1. ASSUME NEW k \in Channels \ K
          PROVE  access'[k] \in Ledger
      <4>1. ResetConfirmation(access[k], ProducersIn(gone, k)) \in Ledger
        BY SMT, <1>3, <1>9, ResetFacts
      <4>2. QED BY <4>1, <1>9, RevokeFacts
    <3>2. \A k \in Channels : k \in K => access'[k] = EmptyLedger
      BY <1>2
    <3>3. QED BY <3>1, <3>2, EmptyFacts
  <2>2. access' = [k \in Channels |-> access'[k]]
    BY <1>2
  <2>3. QED BY <2>1, <2>2, <1>2, <1>3, <1>5
<1>11. ASSUME NEW k \in Channels, NEW u \in Uids
       PROVE  \E m \in 0 .. Len(pending_attach_queue[k][u]) :
                 ExpireAttaches(k, u, n)
                   = SubSeq(pending_attach_queue[k][u], m + 1, Len(pending_attach_queue[k][u]))
  <2> DEFINE q == pending_attach_queue[k][u]
  <2>1. q \in Seq(AttachEntry)
    BY <1>3
  <2>2. CASE <<k, u>> \in Waiting
    <3>1. n[<<k, u>>] \in 0 .. MaxPending /\ n[<<k, u>>] <= Len(q)
      BY <2>2, <1>1
    <3>2. n[<<k, u>>] \in 0 .. Len(q)
      BY SMT, <3>1, <2>1, HubAssumption
    <3>3. ExpireAttaches(k, u, n) = SubSeq(q, n[<<k, u>>] + 1, Len(q))
      BY <2>2 DEF ExpireAttaches
    <3>4. QED BY <3>2, <3>3
  <2>3. CASE <<k, u>> \notin Waiting
    <3>1. ExpireAttaches(k, u, n) = q
      BY <2>3 DEF ExpireAttaches
    <3>2. QED BY <3>1, <2>1, Untouched
  <2>4. QED BY <2>2, <2>3
<1>12. \A k \in Channels, u \in Uids : ExpireAttaches(k, u, n) \in Seq(AttachEntry)
  <2> SUFFICES ASSUME NEW k \in Channels, NEW u \in Uids
               PROVE  ExpireAttaches(k, u, n) \in Seq(AttachEntry)
    OBVIOUS
  <2> DEFINE q == pending_attach_queue[k][u]
  <2>1. PICK m \in 0 .. Len(q) : ExpireAttaches(k, u, n) = SubSeq(q, m + 1, Len(q))
    BY <1>11
  <2>2. q \in Seq(AttachEntry)
    BY <1>3
  <2>3. SubSeq(q, m + 1, Len(q)) \in Seq(AttachEntry)
    BY SMT, <2>2, SubSeqProperties
  <2>4. QED BY <2>1, <2>3
<1>13. pending_attach_queue' \in [Channels -> [Uids -> Seq(AttachEntry)]]
  BY SMT, <1>2, <1>12
<1>14. ASSUME NEW k \in Channels, NEW u \in Uids
       PROVE  LET q == pending_attach_queue[k][u] IN
              IF k \in K \/ <<u, k, "producer">> \in gone
              THEN pending_attach_queue'[k][u] = <<>>
              ELSE \E m \in 0 .. Len(q) :
                      pending_attach_queue'[k][u] = SubSeq(q, m + 1, Len(q))
  BY <1>2, <1>11
<1>15. Departs(K, gone, late)
  BY <1>2, <1>4, <1>5, <1>7, <1>8, <1>9, <1>10, <1>13, <1>14 DEF Departs
<1>16. QED BY <1>15

-----------------------------------------------------------------------------
(* What each kind of step preserves                                        *)

\* A departure preserves the types.
LEMMA DepartsType ==
  ASSUME HubInv, NEW K, NEW gone, NEW late, Departs(K, gone, late)
  PROVE  HubTypeOK'
<1> USE DEF HubInv, HubTypeOK, Departs
<1>1. /\ channels' \subseteq Channels /\ accessed' \subseteq Channels
      /\ shm_blocks' \subseteq Channels /\ roles' \subseteq Uids
  BY DEF Depart, ErasePresences
<1>2. /\ topology' \in [Channels -> Topologies]
      /\ transport' \in [Channels -> Transports]
  BY DEF Depart, Topologies, Transports
<1>3. channel_schema' \in [Channels -> Citation]
  BY DEF Depart, NoCitation, Citation
<1>4. producers' \in [Channels -> SUBSET Uids] /\ consumers' \in [Channels -> SUBSET Uids]
  BY DEF Depart
<1>5. presence' \in [Rows -> PresenceStates]
  BY DEF Depart, ErasePresences, PresenceStates
<1>6. role_channels' \in [Uids -> SUBSET Channels]
  BY DEF Depart, ErasePresences
<1>7. bands' \in [Bands -> SUBSET Uids] /\ schemas' \in [Uids -> Schemas \cup {NoSchema}]
  BY DEF Depart, ErasePresences
<1>8. QED BY <1>1, <1>2, <1>3, <1>4, <1>5, <1>6, <1>7

\* After a departure, rosters and presences agree: a row is erased exactly when
\* its party leaves the roster.
LEMMA DepartsRoster ==
  ASSUME HubInv, NEW K, NEW gone, NEW late, Departs(K, gone, late)
  PROVE  RosterMatchesPresence'
<1> DEFINE erased == PartyRows(K) \cup gone
           terminal == Terminal(erased)
<1>1. /\ RosterMatchesPresence /\ HubTypeOK
      /\ K \subseteq channels
      /\ gone \subseteq PartyRows(channels) /\ late \subseteq PartyRows(channels)
  BY DEF HubInv, Departs
<1>2. /\ producers' = [k \in Channels |-> IF k \in K THEN {} ELSE
                        {u \in producers[k] : <<u, k, "producer">> \notin gone}]
      /\ consumers' = [k \in Channels |-> IF k \in K THEN {} ELSE
                        {u \in consumers[k] : <<u, k, "consumer">> \notin gone}]
      /\ presence' = [x \in Rows |-> IF x \in erased THEN "absent"
                                  ELSE IF x \in late THEN "stalled"
                                  ELSE presence[x]]
      /\ role_channels' = [u \in Uids |->
           IF u \in terminal THEN {}
           ELSE {k \in role_channels[u] :
                    (\E t \in RoleTypes : <<u, k, t>> \in erased)
                        => StillNamed(u, k, erased)}]
      /\ roles' = roles \ terminal
  BY DEF Departs, Depart, ErasePresences
<1>3. \A u \in Uids, k \in Channels, t \in RoleTypes : <<u, k, t>> \in Rows
  BY DEF Rows
<1>4. /\ \A u \in Uids, k \in Channels, t \in RoleTypes :
            <<u, k, t>> \in late => presence[<<u, k, t>>] # "absent"
      /\ \A u \in Uids, k \in Channels : k \in K =>
            /\ u \in producers[k] => <<u, k, "producer">> \in PartyRows(K)
            /\ u \in consumers[k] => <<u, k, "consumer">> \in PartyRows(K)
      /\ \A u \in Uids, k \in Channels, t \in RoleTypes :
            <<u, k, t>> \in PartyRows(K) => k \in K
  BY <1>1 DEF RosterMatchesPresence, PartyRows, Rows, RoleTypes, HubTypeOK
<1>5. \A u \in Uids, k \in Channels, t \in RoleTypes :
        presence'[<<u, k, t>>] # "absent"
          <=> presence[<<u, k, t>>] # "absent" /\ <<u, k, t>> \notin erased
  BY <1>2, <1>3, <1>4
<1>6. ASSUME NEW u \in Uids, NEW k \in Channels
      PROVE  /\ u \in producers'[k] <=> presence'[<<u, k, "producer">>] # "absent"
             /\ u \in consumers'[k] <=> presence'[<<u, k, "consumer">>] # "absent"
  <2>1. "producer" \in RoleTypes /\ "consumer" \in RoleTypes
    BY DEF RoleTypes
  <2>2. QED BY SMT, <1>1, <1>2, <1>4, <1>5, <2>1 DEF RosterMatchesPresence
<1>7. \A u \in Uids, k \in Channels :
        StillNamed(u, k, erased) <=> \E t \in RoleTypes : presence'[<<u, k, t>>] # "absent"
  BY <1>5 DEF StillNamed
<1>8. ASSUME NEW u \in Uids, NEW k \in Channels
      PROVE  k \in role_channels'[u] <=> StillNamed(u, k, erased)
  <2>1. k \in role_channels[u] <=> \E t \in RoleTypes : presence[<<u, k, t>>] # "absent"
    BY <1>1 DEF RosterMatchesPresence
  <2>2. StillNamed(u, k, erased) => k \in role_channels[u]
    BY <2>1 DEF StillNamed
  <2>3. k \in role_channels[u] /\ ~StillNamed(u, k, erased)
          => \E t \in RoleTypes : <<u, k, t>> \in erased
    BY <2>1 DEF StillNamed
  <2>4. u \in terminal => ~StillNamed(u, k, erased)
    BY DEF Terminal, StillAlive
  <2>5. QED BY <1>2, <2>2, <2>3, <2>4
<1>9. ASSUME NEW u \in Uids, role_channels'[u] # {}
      PROVE  u \in roles'
  BY <1>1, <1>2, <1>9 DEF RosterMatchesPresence, HubTypeOK
<1>10. QED BY <1>6, <1>7, <1>8, <1>9 DEF RosterMatchesPresence

\* The ledger of a channel that outlives a departure.
LEMMA DepartsLedger ==
  ASSUME HubInv, NEW K, NEW gone, NEW late, Departs(K, gone, late),
         NEW k \in Channels, k \notin K
  PROVE  /\ access'[k].current_version >= access[k].current_version
         /\ \A u \in Uids : /\ access'[k].confirmed[u] <= access[k].confirmed[u]
                            /\ access'[k].confirmed[u] # 0
                                 => /\ access[k].confirmed[u] # 0
                                    /\ <<u, k, "producer">> \notin gone
         /\ Admitted(access'[k]) = Admitted(access[k]) \ ConsumersIn(gone, k)
         /\ Issued(access[k]) => Issued(access'[k])
         /\ Grows(access[k], access'[k])
<1>1. PICK R \in SUBSET Uids :
        /\ ProducersIn(gone, k) \subseteq R
        /\ access'[k] = Revoke(ResetConfirmation(access[k], R), ConsumersIn(gone, k))
  BY DEF Departs
<1> DEFINE l == access[k]
           m == ResetConfirmation(l, R)
           n == Revoke(m, ConsumersIn(gone, k))
<1>2. l \in Ledger
  BY DEF HubInv, HubTypeOK
<1>3. l.confirmed \in [Uids -> Nat]
  BY <1>2 DEF Ledger
<1>4. ConsumersIn(gone, k) \in SUBSET Uids
  BY DEF ConsumersIn
<1>5. /\ m \in Ledger
      /\ m.current_version = l.current_version
      /\ m.admission = l.admission
      /\ \A v \in Uids : m.confirmed[v] = IF v \in R THEN 0 ELSE l.confirmed[v]
      /\ Admitted(m) = Admitted(l)
      /\ Issued(l) => Issued(m)
  BY SMT, <1>2, ResetFacts
<1> HIDE DEF m, l
<1>6. /\ n \in Ledger
      /\ n.confirmed = m.confirmed
      /\ n.current_version >= m.current_version
      /\ Admitted(n) = Admitted(m) \ ConsumersIn(gone, k)
      /\ Issued(m) => Issued(n)
      /\ Grows(m, n)
  BY <1>4, <1>5, RevokeFacts
<1> HIDE DEF n
<1>7. \A u \in Uids : /\ n.confirmed[u] <= l.confirmed[u]
                      /\ n.confirmed[u] # 0 => l.confirmed[u] # 0 /\ u \notin R
  BY SMT, <1>3, <1>5, <1>6
<1>8. \A u \in Uids : u \notin R => <<u, k, "producer">> \notin gone
  BY <1>1 DEF ProducersIn
<1>9. Grows(l, n)
  BY <1>2, <1>5, <1>6, GrowsTwice
<1>10. QED BY <1>1, <1>5, <1>6, <1>7, <1>8, <1>9 DEF l, m, n

\* A departure closes the access record and the SHM block with the channel.
LEMMA DepartsAccess ==
  ASSUME HubInv, NEW K, NEW gone, NEW late, Departs(K, gone, late)
  PROVE  AccessFollowsChannel'
<1>1. /\ AccessFollowsChannel /\ HubTypeOK /\ K \subseteq channels
      /\ channels' = channels \ K /\ accessed' = accessed \ K
      /\ shm_blocks' = shm_blocks \ K
      /\ transport' = [k \in Channels |-> IF k \in K THEN "zmq" ELSE transport[k]]
      /\ producers' = [k \in Channels |-> IF k \in K THEN {} ELSE
                        {u \in producers[k] : <<u, k, "producer">> \notin gone}]
      /\ consumers' = [k \in Channels |-> IF k \in K THEN {} ELSE
                        {u \in consumers[k] : <<u, k, "consumer">> \notin gone}]
  BY DEF HubInv, Departs, Depart
<1>2. accessed' = channels' /\ shm_blocks' = {k \in channels' : transport'[k] = "shm"}
  BY <1>1 DEF AccessFollowsChannel, HubTypeOK
<1>3. ASSUME NEW k \in Channels \ channels'
      PROVE  access'[k] = EmptyLedger /\ producers'[k] = {} /\ consumers'[k] = {}
  <2>1. CASE k \in K
    BY <2>1, <1>1 DEF Departs
  <2>2. CASE k \notin K
    <3>1. k \notin channels /\ access[k] = EmptyLedger
          /\ producers[k] = {} /\ consumers[k] = {}
      BY <2>2, <1>1, <1>3 DEF AccessFollowsChannel
    <3>2. ConsumersIn(gone, k) = {}
      <4>1. \A u \in Uids : <<u, k, "consumer">> \notin PartyRows(channels)
        BY <3>1, RowOf
      <4>2. gone \subseteq PartyRows(channels)
        BY DEF Departs
      <4> QED BY <4>1, <4>2 DEF ConsumersIn
    <3>3. PICK R \in SUBSET Uids :
            access'[k] = Revoke(ResetConfirmation(access[k], R), ConsumersIn(gone, k))
      BY <2>2 DEF Departs
    <3>4. access'[k] = EmptyLedger
      BY <3>1, <3>2, <3>3, EmptyFacts, RevokeNothing
    <3>5. QED BY <2>2, <3>1, <3>4, <1>1
  <2>3. QED BY <2>1, <2>2
<1>4. ASSUME NEW k \in Channels, NEW u \in Uids, pending_attach_queue'[k][u] # <<>>
      PROVE  u \in producers'[k]
  <2> DEFINE q == pending_attach_queue[k][u]
  <2>1. k \notin K /\ <<u, k, "producer">> \notin gone
    BY <1>4 DEF Departs
  <2>2. PICK n \in 0 .. Len(q) : pending_attach_queue'[k][u] = SubSeq(q, n + 1, Len(q))
    BY <2>1 DEF Departs
  <2>3. q # <<>>
    BY SMT, <2>2, <1>4, SubSeqEmpty
  <2>4. u \in producers[k]
    BY <2>3, <1>1 DEF AccessFollowsChannel
  <2>5. QED BY <2>1, <2>4, <1>1
<1>5. QED BY <1>2, <1>3, <1>4 DEF AccessFollowsChannel

\* A departure leaves a channel that stays its only producer, and no more
\* consumers than it had.
LEMMA DepartsTopology ==
  ASSUME HubInv, NEW K, NEW gone, NEW late, Departs(K, gone, late)
  PROVE  TopologyRespected' /\ AllowlistIsRoster'
<1> SUFFICES ASSUME NEW k \in channels'
             PROVE  /\ topology'[k] # "fan-in" => Cardinality(producers'[k]) = 1
                    /\ topology'[k] # "fan-out" => Cardinality(consumers'[k]) <= 1
                    /\ TransportCompatible(topology'[k], transport'[k])
                    /\ topology'[k] # "fan-in" => Admitted(access'[k]) = consumers'[k]
  BY DEF TopologyRespected, AllowlistIsRoster
<1>1. k \in channels /\ k \notin K /\ k \in Channels
  BY DEF Departs, Depart, HubInv, HubTypeOK
<1>2. /\ topology'[k] = topology[k] /\ transport'[k] = transport[k]
      /\ producers'[k] = {u \in producers[k] : <<u, k, "producer">> \notin gone}
      /\ consumers'[k] = {u \in consumers[k] : <<u, k, "consumer">> \notin gone}
  BY <1>1 DEF Departs, Depart
<1>3. topology[k] # "fan-in" => producers'[k] = producers[k]
  <2>1. topology[k] # "fan-in" => ProducersIn(gone, k) = {}
    BY <1>1 DEF Departs
  <2>2. QED BY <2>1, <1>1, <1>2 DEF ProducersIn, HubInv, HubTypeOK
<1>4. consumers'[k] \subseteq consumers[k] /\ consumers[k] \subseteq Uids
  BY <1>1, <1>2 DEF HubInv, HubTypeOK
<1>5. IsFiniteSet(consumers[k])
  BY <1>4, UidsAssumption, FS_Subset
<1>6. /\ Cardinality(consumers'[k]) <= Cardinality(consumers[k])
      /\ Cardinality(consumers'[k]) \in Nat /\ Cardinality(consumers[k]) \in Nat
  BY <1>4, <1>5, FS_Subset, FS_CardinalityType
<1>7. /\ topology[k] # "fan-in" => Cardinality(producers[k]) = 1
      /\ topology[k] # "fan-out" => Cardinality(consumers[k]) <= 1
      /\ TransportCompatible(topology[k], transport[k])
      /\ topology[k] # "fan-in" => Admitted(access[k]) = consumers[k]
  BY <1>1 DEF HubInv, TopologyRespected, AllowlistIsRoster
<1>8. topology[k] # "fan-in" => Admitted(access'[k]) = consumers'[k]
  <2>1. Admitted(access'[k]) = Admitted(access[k]) \ ConsumersIn(gone, k)
    BY <1>1, DepartsLedger
  <2>2. QED BY <2>1, <1>2, <1>4, <1>7 DEF ConsumersIn
<1>9. topology[k] # "fan-out" => Cardinality(consumers'[k]) <= 1
  BY SMT, <1>6, <1>7
<1>10. QED BY <1>2, <1>3, <1>7, <1>8, <1>9

\* A departure takes confirmations away and lets the oldest attaches expire, so
\* what still waits still has to.
LEMMA DepartsConfirm ==
  ASSUME HubInv, NEW K, NEW gone, NEW late, Departs(K, gone, late)
  PROVE  PendingNeedsConfirmation' /\ ConfirmedWasIssued' /\ NoStaleProducerConfirmation'
<1>1. \A k \in Channels : access[k] \in Ledger /\ access'[k] \in Ledger
  BY DEF HubInv, HubTypeOK, Departs
<1>2. \A k \in Channels, u \in Uids :
        /\ access[k].confirmed[u] \in Nat /\ access'[k].confirmed[u] \in Nat
        /\ access[k].current_version \in Nat /\ access'[k].current_version \in Nat
  BY <1>1 DEF Ledger
<1>3. \A k \in Channels : Issued(access[k])
  BY DEF HubInv, ConfirmedWasIssued, Issued
<1>4. ConfirmedWasIssued'
  <2> SUFFICES ASSUME NEW k \in Channels PROVE Issued(access'[k])
    BY DEF ConfirmedWasIssued, Issued
  <2>1. CASE k \in K
    <3>1. access'[k] = EmptyLedger
      BY <2>1 DEF Departs
    <3>2. QED BY <3>1, EmptyFacts
  <2>2. CASE k \notin K
    BY <2>2, <1>3, DepartsLedger
  <2>3. QED BY <2>1, <2>2
<1>5. ASSUME NEW k \in Channels, NEW p \in Uids
      PROVE  LET q == pending_attach_queue'[k][p] IN
             \A i \in 1 .. Len(q) :
                /\ access'[k].confirmed[p] < q[i].target
                /\ q[i].target <= access'[k].current_version
                /\ \A j \in 1 .. i : q[j].target <= q[i].target
  <2> DEFINE q == pending_attach_queue[k][p]
             r == pending_attach_queue'[k][p]
  <2>1. CASE r = <<>>
    BY SMT, <2>1
  <2>2. CASE r # <<>>
    <3>1. k \notin K /\ \E n \in 0 .. Len(q) : r = SubSeq(q, n + 1, Len(q))
      BY <2>2 DEF Departs
    <3>2. PICK n \in 0 .. Len(q) : r = SubSeq(q, n + 1, Len(q))
      BY <3>1
    <3>3. q \in Seq(AttachEntry)
      BY SMT DEF HubInv, HubTypeOK
    <3>4. Len(q) \in Nat /\ n \in Nat /\ n <= Len(q)
      BY SMT, <3>3
    <3>5. \A i \in n + 1 .. Len(q) : q[i] \in AttachEntry
      BY SMT, <3>3, <3>4
    <3>6. /\ Len(r) = IF n + 1 <= Len(q) THEN Len(q) - (n + 1) + 1 ELSE 0
          /\ \A i \in 1 .. Len(q) - (n + 1) + 1 : r[i] = q[n + 1 + i - 1]
      BY SMT, <3>2, <3>4, <3>5, SubSeqProperties
    <3>7. Len(r) = Len(q) - n /\ \A i \in 1 .. Len(r) : r[i] = q[n + i] /\ n + i \in 1 .. Len(q)
      <4>1. \A l, m \in Nat : m <= l =>
               /\ l - m = IF m + 1 <= l THEN l - (m + 1) + 1 ELSE 0
               /\ \A i \in 1 .. l - m : /\ i \in 1 .. l - (m + 1) + 1
                                        /\ m + 1 + i - 1 = m + i /\ m + i \in 1 .. l
        BY SMT
      <4>2. Len(r) = Len(q) - n
        BY <3>4, <3>6, <4>1
      <4>3. ASSUME NEW i \in 1 .. Len(q) - n
            PROVE  r[i] = q[n + i] /\ n + i \in 1 .. Len(q)
        <5>1. /\ i \in 1 .. Len(q) - (n + 1) + 1
              /\ n + 1 + i - 1 = n + i /\ n + i \in 1 .. Len(q)
          BY <3>4, <4>1
        <5>2. r[i] = q[n + 1 + i - 1]
          BY <3>6, <5>1
        <5> QED BY <5>1, <5>2
      <4> QED BY <4>2, <4>3
    <3>8. \A i \in 1 .. Len(q) : /\ access[k].confirmed[p] < q[i].target
                                 /\ q[i].target <= access[k].current_version
                                 /\ \A j \in 1 .. i : q[j].target <= q[i].target
                                 /\ q[i].target \in Nat
      <4>1. \A i \in 1 .. Len(q) : /\ access[k].confirmed[p] < q[i].target
                                   /\ q[i].target <= access[k].current_version
                                   /\ \A j \in 1 .. i : q[j].target <= q[i].target
        BY DEF HubInv, PendingNeedsConfirmation
      <4>2. \A i \in 1 .. Len(q) : q[i] \in AttachEntry
        BY SMT, <3>3
      <4>3. \A i \in 1 .. Len(q) : q[i].target \in Nat
        BY <4>2 DEF AttachEntry
      <4>4. QED BY <4>1, <4>3
    <3>9. /\ access'[k].current_version >= access[k].current_version
          /\ access'[k].confirmed[p] <= access[k].confirmed[p]
      BY <3>1, DepartsLedger
    <3> HIDE DEF q, r
    <3>10. ASSUME NEW i \in 1 .. Len(r)
           PROVE  /\ access'[k].confirmed[p] < r[i].target
                  /\ r[i].target <= access'[k].current_version
      <4>1. r[i] = q[n + i] /\ n + i \in 1 .. Len(q)
        BY <3>7
      <4>2. QED BY SMT, <4>1, <3>8, <3>9, <1>2
    <3>11. ASSUME NEW i \in 1 .. Len(r), NEW j \in 1 .. i
           PROVE  r[j].target <= r[i].target
      <4>1. r[i] = q[n + i] /\ n + i \in 1 .. Len(q)
        BY <3>7
      <4>2. j \in 1 .. Len(r) /\ n + j \in 1 .. n + i
        BY SMT, <3>4, <3>7
      <4>3. r[j] = q[n + j]
        BY <4>2, <3>7
      <4>4. QED BY <4>1, <4>2, <4>3, <3>8
    <3>12. QED BY <3>10, <3>11 DEF r
  <2>3. QED BY <2>1, <2>2
<1>6. PendingNeedsConfirmation'
  BY <1>5 DEF PendingNeedsConfirmation
<1>7. NoStaleProducerConfirmation'
  <2> SUFFICES ASSUME NEW k \in channels', NEW u \in ProducerOf[k],
                      access'[k].confirmed[u] # 0
               PROVE  u \in producers'[k]
    BY DEF NoStaleProducerConfirmation
  <2>1. k \in channels /\ k \notin K /\ k \in Channels
    BY DEF Departs, Depart, HubInv, HubTypeOK
  <2>2. u \in Uids
    BY <2>1, HubAssumption
  <2>3. access[k].confirmed[u] # 0 /\ <<u, k, "producer">> \notin gone
    BY <2>1, <2>2, DepartsLedger
  <2>4. u \in producers[k]
    BY <2>1, <2>3 DEF HubInv, NoStaleProducerConfirmation
  <2>5. QED BY <2>1, <2>3, <2>4 DEF Departs, Depart
<1>8. QED BY <1>4, <1>6, <1>7

\* A departure takes a role's schema record only with the role's last presence,
\* and the owner of a channel's schema is present on the channel.
LEMMA DepartsSchema ==
  ASSUME HubInv, NEW K, NEW gone, NEW late, Departs(K, gone, late)
  PROVE  SidesApart' /\ OwnerProduces' /\ SchemaRecordBacksChannel'
<1> DEFINE erased == PartyRows(K) \cup gone
<1>1. SidesApart'
  BY DEF HubInv, HubTypeOK, SidesApart, Departs, Depart
<1>2. ASSUME NEW k \in channels', channel_schema'[k].owner \in Uids
      PROVE  /\ k \in channels /\ k \notin K /\ k \in Channels
             /\ channel_schema'[k] = channel_schema[k]
             /\ producers[k] = {channel_schema[k].owner}
             /\ channel_schema[k].hash # NoSchema
             /\ channel_schema[k].owner \in roles
             /\ schemas[channel_schema[k].owner] = channel_schema[k].hash
             /\ <<channel_schema[k].owner, k, "producer">> \notin erased
  <2>1. k \in channels /\ k \notin K /\ k \in Channels
    BY <1>2 DEF Departs, Depart, HubInv, HubTypeOK
  <2>2. channel_schema'[k] = channel_schema[k]
    BY <2>1 DEF Departs, Depart
  <2>3. /\ producers[k] = {channel_schema[k].owner}
        /\ channel_schema[k].hash # NoSchema
        /\ channel_schema[k].owner \in roles
        /\ schemas[channel_schema[k].owner] = channel_schema[k].hash
    BY <1>2, <2>1, <2>2 DEF HubInv, OwnerProduces, SchemaRecordBacksChannel
  <2>4. ProducersIn(gone, k) # {channel_schema[k].owner}
    BY <2>1, <2>3 DEF Departs
  <2>5. \A u \in Uids : <<u, k, "producer">> \in gone => u \in producers[k]
    BY <2>1, RowOf DEF Departs
  <2>6. <<channel_schema[k].owner, k, "producer">> \notin gone
    BY <2>3, <2>4, <2>5, <1>2, <2>2 DEF ProducersIn
  <2>7. <<channel_schema[k].owner, k, "producer">> \notin PartyRows(K)
    BY <2>1 DEF PartyRows
  <2>8. QED BY <2>1, <2>2, <2>3, <2>6, <2>7
<1>3. OwnerProduces'
  <2> SUFFICES ASSUME NEW k \in channels', channel_schema'[k].owner \in Uids
               PROVE  /\ producers'[k] = {channel_schema'[k].owner}
                      /\ channel_schema'[k].hash # NoSchema
    BY DEF OwnerProduces
  <2>1. producers'[k] = {u \in producers[k] : <<u, k, "producer">> \notin gone}
    BY <1>2 DEF Departs, Depart
  <2>2. QED BY <1>2, <2>1
<1>4. SchemaRecordBacksChannel'
  <2> SUFFICES ASSUME NEW k \in channels', channel_schema'[k].owner \in Uids
               PROVE  /\ channel_schema'[k].owner \in roles'
                      /\ schemas'[channel_schema'[k].owner] = channel_schema'[k].hash
    BY DEF SchemaRecordBacksChannel
  <2> DEFINE o == channel_schema[k].owner
  <2>1. o \in producers[k] /\ <<o, k, "producer">> \notin erased /\ k \in Channels /\ o \in Uids
    BY <1>2
  <2>2. presence[<<o, k, "producer">>] # "absent"
    BY <2>1 DEF HubInv, RosterMatchesPresence
  <2>3. StillNamed(o, k, erased)
    BY <2>1, <2>2 DEF StillNamed, RoleTypes
  <2>4. o \notin Terminal(erased)
    BY <2>1, <2>3 DEF Terminal, StillAlive
  <2>5. /\ roles' = roles \ Terminal(erased)
        /\ schemas' = [u \in Uids |-> IF u \in Terminal(erased) THEN NoSchema
                                                               ELSE schemas[u]]
    BY DEF Departs, Depart, ErasePresences
  <2>6. QED BY <1>2, <2>1, <2>4, <2>5
<1>5. QED BY <1>1, <1>3, <1>4

\* A role entry goes only with its last presence, and takes the schema record
\* and the band memberships along.
LEMMA DepartsErasure ==
  ASSUME HubInv, NEW K, NEW gone, NEW late, Departs(K, gone, late)
  PROVE  ErasureStep
<1> DEFINE erased == PartyRows(K) \cup gone
<1>1. /\ presence' = [x \in Rows |-> IF x \in erased THEN "absent"
                                  ELSE IF x \in late THEN "stalled"
                                  ELSE presence[x]]
      /\ roles' = roles \ Terminal(erased)
      /\ bands' = [b \in Bands |-> bands[b] \ Terminal(erased)]
      /\ schemas' = [u \in Uids |-> IF u \in Terminal(erased) THEN NoSchema
                                                             ELSE schemas[u]]
  BY DEF Departs, Depart, ErasePresences
<1> SUFFICES ASSUME NEW u \in roles \ roles'
             PROVE  /\ schemas'[u] = NoSchema
                    /\ \A b \in Bands : u \notin bands'[b]
                    /\ \A x \in Rows : x[1] = u => presence'[x] = "absent"
  BY DEF ErasureStep
<1>2. u \in Terminal(erased) /\ u \in Uids
  BY <1>1 DEF HubInv, HubTypeOK
<1>3. ASSUME NEW x \in Rows, x[1] = u, x \notin erased
      PROVE  presence[x] = "absent"
  <2>1. PICK k \in Channels, t \in RoleTypes : x = <<u, k, t>>
    BY SMT, <1>3 DEF Rows
  <2>2. ~StillNamed(u, k, erased)
    BY <1>2 DEF Terminal, StillAlive
  <2>3. QED BY <1>3, <2>1, <2>2 DEF StillNamed
<1>4. ASSUME NEW x \in late, x[1] = u, x \notin erased
      PROVE  FALSE
  <2>1. x \in Rows /\ x \in PartyRows(channels)
    BY DEF Departs, PartyRows
  <2>2. presence[x] # "absent"
    <3>1. PICK v \in Uids, k \in Channels, t \in RoleTypes : x = <<v, k, t>>
      BY SMT, <2>1 DEF Rows
    <3>2. CASE t = "producer"
      BY <2>1, <3>1, <3>2, RowOf DEF HubInv, RosterMatchesPresence
    <3>3. CASE t = "consumer"
      BY <2>1, <3>1, <3>3, RowOf DEF HubInv, RosterMatchesPresence
    <3>4. QED BY <3>2, <3>3 DEF RoleTypes
  <2>3. QED BY <1>3, <1>4, <2>1, <2>2
<1>5. QED BY <1>1, <1>2, <1>3, <1>4

-----------------------------------------------------------------------------
(* The other requests                                                      *)

\* A ledger that does not change has grown.
LEMMA GrowsSelf == \A l \in Ledger : Grows(l, l)
<1> SUFFICES ASSUME NEW l \in Ledger PROVE Grows(l, l)
  OBVIOUS
<1>1. l.current_version \in Nat
  BY DEF Ledger
<1>2. QED BY SMT, <1>1 DEF Grows

\* A refused REG_REQ leaves at most a schema record behind.
LEMMA RefusedInv ==
  ASSUME HubInv, NEW k \in Channels, NEW u \in Uids, NEW declared, NEW tr,
         NEW cite \in Cites[u], RegReqRefused(k, u, declared, tr, cite)
  PROVE  HubInv' /\ GrowStep /\ ErasureStep
<1>1. /\ UNCHANGED <<registryVars, presence, roles, role_channels, bands, shm_blocks,
                     accessed, access, producer_instance, pending_attach_queue>>
      /\ schemas' = [schemas EXCEPT ![u] = cite.hash]
      /\ schemas[u] \in {NoSchema, cite.hash}
      /\ cite.hash \in Schemas \cup {NoSchema}
  BY HubAssumption DEF RegReqRefused, RegisterSchema, SchemaGate, Citation
<1>2. HubTypeOK'
  BY <1>1 DEF HubInv, HubTypeOK, registryVars
<1>3. /\ RosterMatchesPresence' /\ AccessFollowsChannel' /\ TopologyRespected'
      /\ AllowlistIsRoster' /\ SidesApart' /\ OwnerProduces'
  <2>1. RosterMatchesPresence'
    BY <1>1 DEF HubInv, RosterMatchesPresence, registryVars
  <2>2. AccessFollowsChannel' /\ TopologyRespected' /\ AllowlistIsRoster'
    BY <1>1 DEF HubInv, AccessFollowsChannel, TopologyRespected, AllowlistIsRoster, registryVars
  <2>3. SidesApart' /\ OwnerProduces'
    BY <1>1 DEF HubInv, SidesApart, OwnerProduces, registryVars
  <2>4. QED BY <2>1, <2>2, <2>3
<1>4. PendingNeedsConfirmation' /\ ConfirmedWasIssued' /\ NoStaleProducerConfirmation'
  BY <1>1 DEF HubInv, PendingNeedsConfirmation, ConfirmedWasIssued,
              NoStaleProducerConfirmation, registryVars
<1>5. SchemaRecordBacksChannel'
  <2> SUFFICES ASSUME NEW j \in channels, channel_schema[j].owner \in Uids
               PROVE  /\ channel_schema[j].owner \in roles
                      /\ schemas'[channel_schema[j].owner] = channel_schema[j].hash
    BY <1>1 DEF SchemaRecordBacksChannel, registryVars
  <2>1. /\ channel_schema[j].owner \in roles
        /\ schemas[channel_schema[j].owner] = channel_schema[j].hash
        /\ channel_schema[j].hash # NoSchema
    BY DEF HubInv, OwnerProduces, SchemaRecordBacksChannel
  <2>2. QED BY <2>1, <1>1 DEF HubInv, HubTypeOK
<1>6. GrowStep /\ ErasureStep
  BY <1>1, GrowsSelf DEF GrowStep, ErasureStep, HubInv, HubTypeOK, registryVars
<1>7. QED BY <1>2, <1>3, <1>4, <1>5, <1>6 DEF HubInv

\* A heartbeat revives a row that exists.
LEMMA HeartbeatInv ==
  ASSUME HubInv, NEW k \in Channels, NEW u \in Uids, NEW t \in RoleTypes,
         HeartbeatReq(k, u, t)
  PROVE  HubInv' /\ GrowStep /\ ErasureStep
<1>1. /\ UNCHANGED <<registryVars, roles, role_channels, bands, schemas, shm_blocks,
                     accessed, access, producer_instance, pending_attach_queue>>
      /\ presence[<<u, k, t>>] # "absent"
      /\ presence' = [presence EXCEPT ![<<u, k, t>>] = "live"]
  BY DEF HeartbeatReq
<1>2. HubTypeOK'
  BY <1>1 DEF HubInv, HubTypeOK, registryVars, PresenceStates
<1>3. \A v \in Uids, j \in Channels, s \in RoleTypes :
         presence'[<<v, j, s>>] # "absent" <=> presence[<<v, j, s>>] # "absent"
  <2>1. \A v \in Uids, j \in Channels, s \in RoleTypes : <<v, j, s>> \in Rows
    BY DEF Rows
  <2>2. presence \in [Rows -> PresenceStates]
    BY DEF HubInv, HubTypeOK
  <2>3. QED BY <1>1, <2>1, <2>2
<1>4. RosterMatchesPresence'
  <2>1. RosterMatchesPresence /\ UNCHANGED <<producers, consumers, role_channels, roles>>
    BY <1>1 DEF HubInv, registryVars
  <2>2. "producer" \in RoleTypes /\ "consumer" \in RoleTypes
    BY DEF RoleTypes
  <2>3. ASSUME NEW v \in Uids, NEW j \in Channels
        PROVE  /\ v \in producers'[j] <=> presence'[<<v, j, "producer">>] # "absent"
               /\ v \in consumers'[j] <=> presence'[<<v, j, "consumer">>] # "absent"
    BY <1>3, <2>1, <2>2 DEF RosterMatchesPresence
  <2>4. ASSUME NEW v \in Uids, NEW j \in Channels
        PROVE  j \in role_channels'[v] <=> \E s \in RoleTypes : presence'[<<v, j, s>>] # "absent"
    BY <1>3, <2>1 DEF RosterMatchesPresence
  <2>5. \A v \in Uids : role_channels'[v] # {} => v \in roles'
    BY <2>1 DEF RosterMatchesPresence
  <2>6. QED BY <2>3, <2>4, <2>5 DEF RosterMatchesPresence
<1>5. /\ AccessFollowsChannel' /\ TopologyRespected' /\ AllowlistIsRoster'
      /\ SidesApart' /\ OwnerProduces' /\ SchemaRecordBacksChannel'
  BY <1>1 DEF HubInv, AccessFollowsChannel, TopologyRespected,
              AllowlistIsRoster, SidesApart, OwnerProduces, SchemaRecordBacksChannel,
              registryVars
<1>6. PendingNeedsConfirmation' /\ ConfirmedWasIssued' /\ NoStaleProducerConfirmation'
  BY <1>1 DEF HubInv, PendingNeedsConfirmation, ConfirmedWasIssued,
              NoStaleProducerConfirmation, registryVars
<1>7. GrowStep /\ ErasureStep
  BY <1>1, GrowsSelf DEF GrowStep, ErasureStep, HubInv, HubTypeOK, registryVars
<1>8. QED BY <1>2, <1>4, <1>5, <1>6, <1>7 DEF HubInv

\* A band member needs only a role entry, and leaves it behind.
LEMMA BandInv ==
  ASSUME HubInv, NEW b \in Bands, NEW u \in Uids, BandJoinReq(b, u) \/ BandLeaveReq(b, u)
  PROVE  HubInv' /\ GrowStep /\ ErasureStep
<1>1. /\ UNCHANGED <<registryVars, presence, role_channels, schemas, shm_blocks,
                     accessed, access, producer_instance, pending_attach_queue>>
      /\ roles \subseteq roles' /\ roles' \subseteq roles \cup {u}
      /\ bands' \in [Bands -> SUBSET Uids]
  <2>1. bands \in [Bands -> SUBSET Uids]
    BY DEF HubInv, HubTypeOK
  <2>2. CASE BandJoinReq(b, u)
    BY <2>1, <2>2 DEF BandJoinReq
  <2>3. CASE BandLeaveReq(b, u)
    BY <2>1, <2>3 DEF BandLeaveReq
  <2>4. QED BY <2>2, <2>3
<1>2. HubTypeOK'
  BY <1>1 DEF HubInv, HubTypeOK, registryVars
<1>3. RosterMatchesPresence' /\ SchemaRecordBacksChannel'
  BY <1>1 DEF HubInv, RosterMatchesPresence, SchemaRecordBacksChannel, registryVars
<1>4. /\ AccessFollowsChannel' /\ TopologyRespected' /\ AllowlistIsRoster'
      /\ SidesApart' /\ OwnerProduces'
  BY <1>1 DEF HubInv, AccessFollowsChannel, TopologyRespected,
              AllowlistIsRoster, SidesApart, OwnerProduces, registryVars
<1>5. PendingNeedsConfirmation' /\ ConfirmedWasIssued' /\ NoStaleProducerConfirmation'
  BY <1>1 DEF HubInv, PendingNeedsConfirmation, ConfirmedWasIssued,
              NoStaleProducerConfirmation, registryVars
<1>6. GrowStep /\ ErasureStep
  BY <1>1, GrowsSelf DEF GrowStep, ErasureStep, HubInv, HubTypeOK, registryVars
<1>7. QED BY <1>2, <1>3, <1>4, <1>5, <1>6 DEF HubInv

\* A nonempty set of natural numbers has a least element.
LEMMA LeastOf ==
  ASSUME NEW T \in SUBSET Nat, T # {}
  PROVE  \E x \in T : \A y \in T : x <= y
<1>1. \E x \in T : \A y \in T : ~ (<<y, x>> \in OpToRel(<, Nat))
  BY NatLessThanWellFounded, WFMin
<1>2. PICK x \in T : \A y \in T : ~ (<<y, x>> \in OpToRel(<, Nat))
  BY <1>1
<1>3. ASSUME NEW y \in T PROVE x <= y
  <2>1. x \in Nat /\ y \in Nat
    OBVIOUS
  <2>2. ~ (y < x)
    BY <1>2, <2>1 DEF OpToRel
  <2>3. QED BY SMT, <2>1, <2>2
<1>4. QED BY <1>3

\* The drain answers a prefix of the queue and stops at an entry whose target is
\* not confirmed.
LEMMA DrainFacts ==
  ASSUME NEW q \in Seq(AttachEntry), NEW v \in Nat
  PROVE  \/ DrainConfirmed(q, v) = <<>>
         \/ \E i \in 1 .. Len(q) : /\ DrainConfirmed(q, v) = SubSeq(q, i, Len(q))
                                   /\ q[i].target > v
<1> DEFINE waiting == {i \in 1 .. Len(q) : q[i].target > v}
           first == CHOOSE i \in waiting : \A j \in waiting : i <= j
<1>1. CASE waiting = {}
  BY <1>1 DEF DrainConfirmed
<1>2. CASE waiting # {}
  <2>1. DrainConfirmed(q, v) = SubSeq(q, first, Len(q))
    BY <1>2 DEF DrainConfirmed
  <2>2. waiting \in SUBSET Nat
    BY SMT
  <2> HIDE DEF waiting
  <2>3. \E i \in waiting : \A j \in waiting : i <= j
    BY <1>2, <2>2, LeastOf
  <2>4. first \in waiting
    BY <2>3
  <2>5. QED BY <2>1, <2>4 DEF waiting
<1>3. QED BY <1>1, <1>2

\* The rest of a queue in order, from an entry that has to wait, has to wait.
LEMMA RestWaits ==
  ASSUME NEW q \in Seq(AttachEntry), NEW n \in 1 .. Len(q), NEW c \in Nat, NEW v \in Nat,
         c < q[n].target,
         \A i \in 1 .. Len(q) : /\ q[i].target <= v
                                /\ \A j \in 1 .. i : q[j].target <= q[i].target
  PROVE  LET r == SubSeq(q, n, Len(q)) IN
         /\ r \in Seq(AttachEntry)
         /\ \A i \in 1 .. Len(r) : /\ c < r[i].target
                                   /\ r[i].target <= v
                                   /\ \A j \in 1 .. i : r[j].target <= r[i].target
<1> DEFINE r == SubSeq(q, n, Len(q))
<1>1. Len(q) \in Nat /\ \A i \in 1 .. Len(q) : q[i] \in AttachEntry
  BY SMT
<1>2. \A i \in 1 .. Len(q) : q[i].target \in Nat
  BY <1>1 DEF AttachEntry
<1>3. \A i \in n .. Len(q) : q[i] \in AttachEntry
  BY SMT, <1>1
<1>4. /\ r \in Seq(AttachEntry)
      /\ Len(r) = IF n <= Len(q) THEN Len(q) - n + 1 ELSE 0
      /\ \A i \in 1 .. Len(q) - n + 1 : r[i] = q[n + i - 1]
  BY SMT, <1>1, <1>3, SubSeqProperties
<1> HIDE DEF r
<1>5. \A i \in 1 .. Len(r) : r[i] = q[n + i - 1] /\ n + i - 1 \in 1 .. Len(q)
  BY SMT, <1>1, <1>4
<1>6. ASSUME NEW i \in 1 .. Len(r)
      PROVE  c < r[i].target /\ r[i].target <= v
  <2>1. r[i] = q[n + i - 1] /\ n + i - 1 \in 1 .. Len(q) /\ n \in 1 .. n + i - 1
    BY SMT, <1>5, <1>1
  <2>2. /\ q[n].target <= q[n + i - 1].target /\ q[n + i - 1].target <= v
        /\ q[n].target \in Nat /\ q[n + i - 1].target \in Nat
    BY <2>1, <1>2
  <2>3. \A a, b \in Nat : c < a /\ a <= b => c < b
    BY SMT
  <2>4. QED BY <2>1, <2>2, <2>3
<1>7. ASSUME NEW i \in 1 .. Len(r), NEW j \in 1 .. i
      PROVE  r[j].target <= r[i].target
  <2>1. r[i] = q[n + i - 1] /\ n + i - 1 \in 1 .. Len(q)
    BY <1>5
  <2>2. j \in 1 .. Len(r) /\ n + j - 1 \in 1 .. n + i - 1
    BY SMT, <1>1, <1>4
  <2>3. r[j] = q[n + j - 1]
    BY <2>2, <1>5
  <2>4. QED BY <2>1, <2>2, <2>3
<1>8. QED BY <1>4, <1>6, <1>7 DEF r

\* A queued attach waits for the version its producer has not confirmed.
LEMMA AttachInv ==
  ASSUME HubInv, NEW k \in Channels, NEW c \in Uids, NEW p \in Uids,
         AttachReqZmq(k, c, p)
  PROVE  HubInv' /\ GrowStep /\ ErasureStep
<1> DEFINE q == pending_attach_queue[k][p]
           e == [consumer |-> c, target |-> access[k].current_version]
           r == Append(q, e)
<1>1. /\ UNCHANGED <<registryVars, roleVars, shm_blocks, accessed, access, producer_instance>>
      /\ AttachAllowed(k, c, p) /\ ~FastPath(k, p)
      /\ pending_attach_queue' = [pending_attach_queue EXCEPT ![k][p] = r]
  BY DEF AttachReqZmq
<1>2. /\ pending_attach_queue \in [Channels -> [Uids -> Seq(AttachEntry)]]
      /\ access[k] \in Ledger /\ access \in [Channels -> Ledger]
  BY DEF HubInv, HubTypeOK
<1>3. access[k].current_version \in Nat /\ access[k].confirmed[p] \in Nat
  BY <1>2 DEF Ledger
<1>4. q \in Seq(AttachEntry) /\ e \in AttachEntry /\ e.target = access[k].current_version
  BY <1>2, <1>3 DEF AttachEntry
<1> HIDE DEF e
<1>5. /\ r \in Seq(AttachEntry)
      /\ Len(r) = Len(q) + 1 /\ r[Len(r)] = e
      /\ \A i \in 1 .. Len(q) : r[i] = q[i]
  BY SMT, <1>4
<1> HIDE DEF r, q
<1>6. \A j \in Channels, v \in Uids :
        pending_attach_queue'[j][v] = IF j = k /\ v = p THEN r ELSE pending_attach_queue[j][v]
  BY <1>1, <1>2
<1>7. pending_attach_queue' \in [Channels -> [Uids -> Seq(AttachEntry)]]
  BY <1>1, <1>2, <1>5
<1>8. HubTypeOK'
  BY <1>1, <1>7 DEF HubInv, HubTypeOK, registryVars, roleVars
<1>9. /\ RosterMatchesPresence' /\ TopologyRespected' /\ AllowlistIsRoster'
      /\ SidesApart' /\ OwnerProduces' /\ SchemaRecordBacksChannel'
  <2>1. RosterMatchesPresence' /\ SchemaRecordBacksChannel'
    BY <1>1 DEF HubInv, RosterMatchesPresence, SchemaRecordBacksChannel, registryVars, roleVars
  <2>2. TopologyRespected' /\ AllowlistIsRoster' /\ SidesApart' /\ OwnerProduces'
    BY <1>1 DEF HubInv, TopologyRespected, AllowlistIsRoster, SidesApart, OwnerProduces,
                registryVars
  <2>3. QED BY <2>1, <2>2
<1>10. AccessFollowsChannel'
  BY SMT, <1>1, <1>6 DEF HubInv, AccessFollowsChannel, AttachAllowed, registryVars
<1>11. ConfirmedWasIssued' /\ NoStaleProducerConfirmation'
  BY <1>1 DEF HubInv, ConfirmedWasIssued, NoStaleProducerConfirmation, registryVars
<1>12. PendingNeedsConfirmation'
  <2>1. \A i \in 1 .. Len(q) : /\ access[k].confirmed[p] < q[i].target
                               /\ q[i].target <= access[k].current_version
                               /\ \A j \in 1 .. i : q[j].target <= q[i].target
    BY DEF q, HubInv, PendingNeedsConfirmation
  <2>2. access[k].confirmed[p] < access[k].current_version
    BY SMT, <1>1, <1>3 DEF FastPath
  <2>3. ASSUME NEW i \in 1 .. Len(r)
        PROVE  /\ access[k].confirmed[p] < r[i].target
               /\ r[i].target <= access[k].current_version
               /\ \A j \in 1 .. i : r[j].target <= r[i].target
    <3>1. CASE i \in 1 .. Len(q)
      <4>1. Len(q) \in Nat
        BY <1>4, SMTT(20)
      <4>2. r[i] = q[i] /\ \A j \in 1 .. i : r[j] = q[j]
        BY SMT, <3>1, <4>1, <1>5
      <4>3. QED BY <3>1, <4>2, <2>1
    <3>2. CASE i = Len(r)
      <4>1. r[i] = e /\ r[i].target = access[k].current_version
        BY <3>2, <1>4, <1>5
      <4>2. \A j \in 1 .. i : j \in 1 .. Len(q) \/ r[j] = e
        BY SMT, <3>2, <1>4, <1>5
      <4>3. \A j \in 1 .. i : r[j].target <= access[k].current_version
        BY <4>1, <4>2, <2>1, <1>3, <1>4, <1>5, SMTT(20)
      <4>4. QED BY SMT, <4>1, <4>3, <2>2, <1>3
    <3>3. QED BY <3>1, <3>2, <1>4, <1>5, SMTT(20)
  <2>4. QED BY <2>3, <1>1, <1>6, SMTT(20) DEF HubInv, PendingNeedsConfirmation
<1>13. GrowStep /\ ErasureStep
  BY <1>1, <1>2, GrowsSelf DEF GrowStep, ErasureStep, HubInv, HubTypeOK, registryVars, roleVars
<1>14. QED BY <1>8, <1>9, <1>10, <1>11, <1>12, <1>13 DEF HubInv

\* A confirmation by a producer of the channel answers what waited for it.
LEMMA AppliedProducerInv ==
  ASSUME HubInv, NEW k \in Channels, NEW u \in Uids, NEW i \in Nat, NEW version \in Nat,
         ChannelAuthAppliedProducer(k, u, i, version)
  PROVE  HubInv' /\ GrowStep /\ ErasureStep
<1> DEFINE l == access[k]
           m == Confirm(l, u, version)
           q == pending_attach_queue[k][u]
           r == DrainConfirmed(q, m.confirmed[u])
<1>1. /\ k \in channels /\ u \in producers[k]
      /\ access' = [access EXCEPT ![k] = m]
      /\ pending_attach_queue' = [pending_attach_queue EXCEPT ![k][u] = r]
      /\ UNCHANGED <<registryVars, roleVars, shm_blocks, accessed, producer_instance>>
  BY DEF ChannelAuthAppliedProducer
<1>2. /\ pending_attach_queue \in [Channels -> [Uids -> Seq(AttachEntry)]]
      /\ access[k] \in Ledger /\ access \in [Channels -> Ledger] /\ Issued(access[k])
  BY DEF HubInv, HubTypeOK, ConfirmedWasIssued, Issued
<1>3. /\ m \in Ledger
      /\ m.current_version = l.current_version
      /\ \A w \in Uids \ {u} : m.confirmed[w] = l.confirmed[w]
      /\ Admitted(m) = Admitted(l)
      /\ Issued(m)
      /\ Grows(l, m)
  BY SMT, <1>2, ConfirmFacts
<1>4. m.confirmed[u] \in Nat /\ m.current_version \in Nat
  BY <1>3 DEF Ledger
<1> HIDE DEF m
<1>5. q \in Seq(AttachEntry) /\ \A n \in 1 .. Len(q) :
                                   /\ q[n].target <= m.current_version
                                   /\ \A j \in 1 .. n : q[j].target <= q[n].target
  BY <1>2, <1>3 DEF HubInv, PendingNeedsConfirmation
<1>6. \/ r = <<>>
      \/ \E n \in 1 .. Len(q) : r = SubSeq(q, n, Len(q)) /\ m.confirmed[u] < q[n].target
  <2>1. \/ r = <<>>
        \/ \E n \in 1 .. Len(q) : r = SubSeq(q, n, Len(q)) /\ q[n].target > m.confirmed[u]
    BY <1>4, <1>5, DrainFacts
  <2>2. \A n \in 1 .. Len(q) : q[n].target > m.confirmed[u] <=> m.confirmed[u] < q[n].target
    OBVIOUS
  <2>3. QED BY <2>1, <2>2
<1> HIDE DEF q, r
<1>7. /\ r \in Seq(AttachEntry) /\ (r # <<>> => u \in producers[k])
      /\ \A n \in 1 .. Len(r) : /\ m.confirmed[u] < r[n].target
                                /\ r[n].target <= m.current_version
                                /\ \A j \in 1 .. n : r[j].target <= r[n].target
  <2>1. CASE r = <<>>
    BY SMT, <2>1
  <2>2. CASE r # <<>>
    <3>1. PICK n \in 1 .. Len(q) : r = SubSeq(q, n, Len(q)) /\ m.confirmed[u] < q[n].target
      BY <2>2, <1>6
    <3>2. QED BY <3>1, <1>1, <1>4, <1>5, RestWaits
  <2>3. QED BY <2>1, <2>2
<1>8. /\ \A j \in Channels : access'[j] = IF j = k THEN m ELSE access[j]
      /\ \A j \in Channels, v \in Uids :
            pending_attach_queue'[j][v] = IF j = k /\ v = u THEN r ELSE pending_attach_queue[j][v]
      /\ access' \in [Channels -> Ledger]
      /\ pending_attach_queue' \in [Channels -> [Uids -> Seq(AttachEntry)]]
  BY <1>1, <1>2, <1>3, <1>7
<1>9. HubTypeOK'
  BY <1>1, <1>8 DEF HubInv, HubTypeOK, registryVars, roleVars
<1>10. /\ RosterMatchesPresence' /\ TopologyRespected'
       /\ SidesApart' /\ OwnerProduces' /\ SchemaRecordBacksChannel'
  <2>1. RosterMatchesPresence' /\ SchemaRecordBacksChannel'
    BY <1>1 DEF HubInv, RosterMatchesPresence, SchemaRecordBacksChannel, registryVars, roleVars
  <2>2. TopologyRespected' /\ SidesApart' /\ OwnerProduces'
    BY <1>1 DEF HubInv, TopologyRespected, SidesApart, OwnerProduces, registryVars
  <2>3. QED BY <2>1, <2>2
<1>11. AccessFollowsChannel'
  <2>1. \A j \in Channels \ channels : access'[j] = access[j]
    BY <1>1, <1>8
  <2>2. \A j \in Channels, v \in Uids : pending_attach_queue'[j][v] # <<>> => v \in producers[j]
    BY <1>7, <1>8 DEF HubInv, AccessFollowsChannel
  <2>3. QED BY <2>1, <2>2, <1>1 DEF HubInv, AccessFollowsChannel, registryVars
<1>12. AllowlistIsRoster'
  BY SMT, <1>1, <1>3, <1>8 DEF HubInv, HubTypeOK, AllowlistIsRoster, registryVars
<1>13. ConfirmedWasIssued'
  BY <1>3, <1>8 DEF HubInv, ConfirmedWasIssued, Issued
<1>14. NoStaleProducerConfirmation'
  <2> SUFFICES ASSUME NEW j \in channels, NEW v \in ProducerOf[j],
                      access'[j].confirmed[v] # 0
               PROVE  v \in producers[j]
    BY <1>1 DEF NoStaleProducerConfirmation, registryVars
  <2>1. j \in Channels /\ v \in Uids
    BY HubAssumption DEF HubInv, HubTypeOK
  <2>2. CASE j = k /\ v = u
    BY <2>2, <1>1
  <2>3. CASE ~(j = k /\ v = u)
    <3>1. access[j].confirmed[v] # 0
      BY <2>1, <2>3, <1>3, <1>8
    <3>2. QED BY <3>1 DEF HubInv, NoStaleProducerConfirmation
  <2>4. QED BY <2>2, <2>3
<1>15. PendingNeedsConfirmation'
  <2> SUFFICES ASSUME NEW j \in Channels, NEW p \in Uids
               PROVE  LET s == pending_attach_queue'[j][p] IN
                      \A n \in 1 .. Len(s) :
                        /\ access'[j].confirmed[p] < s[n].target
                        /\ s[n].target <= access'[j].current_version
                        /\ \A o \in 1 .. n : s[o].target <= s[n].target
    BY DEF PendingNeedsConfirmation
  <2>1. CASE j = k /\ p = u
    BY <2>1, <1>7, <1>8
  <2>2. CASE ~(j = k /\ p = u)
    <3>1. /\ pending_attach_queue'[j][p] = pending_attach_queue[j][p]
          /\ access'[j].confirmed[p] = access[j].confirmed[p]
          /\ access'[j].current_version = access[j].current_version
      BY <2>2, <1>3, <1>8
    <3>2. QED BY <3>1 DEF HubInv, PendingNeedsConfirmation
  <2>3. QED BY <2>1, <2>2
<1>16. GrowStep
  BY <1>1, <1>2, <1>3, <1>8, GrowsSelf DEF GrowStep, HubInv, HubTypeOK
<1>17. ErasureStep
  BY <1>1 DEF ErasureStep, roleVars
<1>18. QED BY <1>9, <1>10, <1>11, <1>12, <1>13, <1>14, <1>15, <1>16, <1>17 DEF HubInv

\* A confirmation by a consumer is of no producer anybody waits for.
LEMMA AppliedConsumerInv ==
  ASSUME HubInv, NEW k \in Channels, NEW u \in Uids, NEW version \in Nat,
         ChannelAuthAppliedConsumer(k, u, version)
  PROVE  HubInv' /\ GrowStep /\ ErasureStep
<1> DEFINE l == access[k]
           m == Confirm(l, u, version)
<1>1. /\ k \in channels /\ u \in consumers[k]
      /\ access' = [access EXCEPT ![k] = m]
      /\ UNCHANGED <<registryVars, roleVars, shm_blocks, accessed, producer_instance,
                     pending_attach_queue>>
  BY DEF ChannelAuthAppliedConsumer
<1>2. access[k] \in Ledger /\ access \in [Channels -> Ledger] /\ \A j \in Channels : Issued(access[j])
  BY DEF HubInv, HubTypeOK, ConfirmedWasIssued, Issued
<1>3. /\ m \in Ledger
      /\ m.current_version = l.current_version
      /\ \A w \in Uids \ {u} : m.confirmed[w] = l.confirmed[w]
      /\ Admitted(m) = Admitted(l)
      /\ Issued(m)
      /\ Grows(l, m)
  BY SMT, <1>2, ConfirmFacts
<1>4. u \notin ProducerOf[k] /\ u \notin producers[k]
  BY <1>1, HubAssumption DEF HubInv, SidesApart
<1> HIDE DEF m
<1>5. /\ \A j \in Channels : access'[j] = IF j = k THEN m ELSE access[j]
      /\ access' \in [Channels -> Ledger]
  BY <1>1, <1>2, <1>3
<1>6. \A j \in Channels : /\ access[j].current_version \in Nat
                          /\ access[j].confirmed \in [Uids -> Nat]
  BY <1>2 DEF Ledger
<1>7. HubTypeOK'
  BY <1>1, <1>5 DEF HubInv, HubTypeOK, registryVars, roleVars
<1>8. RosterMatchesPresence' /\ SchemaRecordBacksChannel'
  BY <1>1 DEF HubInv, RosterMatchesPresence, SchemaRecordBacksChannel, registryVars, roleVars
<1>9. TopologyRespected' /\ SidesApart' /\ OwnerProduces'
  BY <1>1 DEF HubInv, TopologyRespected, SidesApart, OwnerProduces, registryVars
<1>10. AccessFollowsChannel'
  <2>1. \A j \in Channels \ channels : access'[j] = access[j]
    BY <1>1, <1>5
  <2>2. QED BY <2>1, <1>1 DEF HubInv, AccessFollowsChannel, registryVars
<1>11. AllowlistIsRoster'
  BY <1>1, <1>3, <1>5 DEF HubInv, HubTypeOK, AllowlistIsRoster, registryVars
<1>12. PendingNeedsConfirmation' /\ ConfirmedWasIssued'
  <2>1. \A j \in Channels, p \in Uids : pending_attach_queue[j][p] # <<>>
            => access'[j].confirmed[p] = access[j].confirmed[p]
    BY <1>3, <1>4, <1>5 DEF HubInv, AccessFollowsChannel
  <2>2. \A j \in Channels :
            /\ access'[j].current_version >= access[j].current_version
            /\ \A p \in Uids : pending_attach_queue[j][p] # <<>>
                  => access'[j].confirmed[p] <= access[j].confirmed[p]
            /\ Issued(access'[j])
    BY <2>1, <1>2, <1>3, <1>5, <1>6, SMTT(20)
  <2>3. QED BY <2>2, <1>1, <1>5, KeepsPending
<1>13. NoStaleProducerConfirmation'
  <2> SUFFICES ASSUME NEW j \in channels, NEW v \in ProducerOf[j],
                      access'[j].confirmed[v] # 0
               PROVE  v \in producers[j]
    BY <1>1 DEF NoStaleProducerConfirmation, registryVars
  <2>1. j \in Channels /\ v \in Uids
    BY HubAssumption DEF HubInv, HubTypeOK
  <2>2. access[j].confirmed[v] # 0
    BY <2>1, <1>3, <1>4, <1>5
  <2>3. QED BY <2>2 DEF HubInv, NoStaleProducerConfirmation
<1>14. GrowStep
  BY <1>1, <1>2, <1>3, <1>5, GrowsSelf DEF GrowStep, HubInv, HubTypeOK
<1>15. ErasureStep
  BY <1>1 DEF ErasureStep, roleVars
<1>16. QED BY <1>7, <1>8, <1>9, <1>10, <1>11, <1>12, <1>13, <1>14, <1>15 DEF HubInv

-----------------------------------------------------------------------------
(* The theorems                                                            *)

\* Every step of the broker's loop.
LEMMA StepInv ==
  ASSUME HubInv, HubNext
  PROVE  HubInv' /\ GrowStep /\ ErasureStep
<1>1. CASE Departure \/ Sweep
  <2>1. PICK K, gone, late : Departs(K, gone, late)
    BY <1>1, DeregDeparts, ConsumerDeregDeparts, CloseDeparts, SweepDeparts DEF Departure
  <2>2. GrowStep
    <3> SUFFICES ASSUME NEW k \in channels \cap channels' PROVE Grows(access[k], access'[k])
      BY DEF GrowStep
    <3>1. k \in Channels /\ k \notin K
      BY <2>1 DEF Departs, Depart, HubInv, HubTypeOK
    <3>2. QED BY <2>1, <3>1, DepartsLedger
  <2>3. QED
    BY <2>1, <2>2, DepartsType, DepartsRoster, DepartsAccess, DepartsTopology,
       DepartsConfirm, DepartsSchema, DepartsErasure DEF HubInv
<1>2. CASE Registration
  <2>1. PICK k \in Channels, u \in Uids, declared \in Topologies \cup {Undeclared} :
          \/ \E tr \in Transports, cite \in Cites[u] :
                \/ RegReq(k, u, declared, tr, cite)
                \/ RegReqRefused(k, u, declared, tr, cite)
          \/ \E tr \in Transports \cup {Undeclared}, cite \in Expects[u] :
                ConsumerRegReq(k, u, declared, tr, cite)
    BY <1>2 DEF Registration
  <2>2. CASE \E tr \in Transports, cite \in Cites[u] : RegReq(k, u, declared, tr, cite)
    BY <2>2, RegType, RegMaps, RegConfirm, RegSchema DEF HubInv
  <2>3. CASE \E tr \in Transports, cite \in Cites[u] : RegReqRefused(k, u, declared, tr, cite)
    BY <2>3, RefusedInv
  <2>4. CASE \E tr \in Transports \cup {Undeclared}, cite \in Expects[u] :
                ConsumerRegReq(k, u, declared, tr, cite)
    BY <2>4, ConsumerRegType, ConsumerRegMaps, ConsumerRegRest DEF HubInv
  <2>5. QED BY <2>1, <2>2, <2>3, <2>4
<1>3. CASE Confirmation
  <2>1. PICK k \in Channels, u \in Uids, version \in Versions :
          \/ \E i \in 1 .. producer_instance[u] :
                ChannelAuthAppliedProducer(k, u, i, version)
          \/ ChannelAuthAppliedConsumer(k, u, version)
    BY <1>3 DEF Confirmation
  <2>2. version \in Nat /\ \A i \in 1 .. producer_instance[u] : i \in Nat
    <3>1. producer_instance[u] \in Nat
      BY DEF HubInv, HubTypeOK
    <3>2. version \in Nat
      BY HubAssumption
    <3>3. QED BY SMT, <3>1, <3>2
  <2>3. QED BY <2>1, <2>2, AppliedProducerInv, AppliedConsumerInv
<1>4. CASE \E k \in Channels, u \in Uids, t \in RoleTypes : HeartbeatReq(k, u, t)
  BY <1>4, HeartbeatInv
<1>5. CASE \E k \in Channels, c, p \in Uids : AttachReqZmq(k, c, p)
  BY <1>5, AttachInv
<1>6. CASE \E b \in Bands, u \in BandUsers : BandJoinReq(b, u) \/ BandLeaveReq(b, u)
  <2>1. BandUsers \subseteq Uids
    BY HubAssumption
  <2>2. QED BY <1>6, <2>1, BandInv
<1>7. QED BY <1>1, <1>2, <1>3, <1>4, <1>5, <1>6 DEF HubNext

\* The fresh hub.
LEMMA InitInv == HubInit => HubInv
<1> SUFFICES ASSUME HubInit PROVE HubInv
  OBVIOUS
<1>1. EmptyLedger \in Ledger /\ Issued(EmptyLedger) /\ <<>> \in Seq(AttachEntry)
  BY SMT, EmptyFacts
<1>2. HubTypeOK
  BY <1>1 DEF HubInit, HubTypeOK, Topologies, Transports, NoCitation, Citation, PresenceStates
<1>3. RosterMatchesPresence
  BY DEF HubInit, RosterMatchesPresence, Rows, RoleTypes
<1>4. /\ AccessFollowsChannel /\ TopologyRespected /\ AllowlistIsRoster
      /\ NoStaleProducerConfirmation /\ SidesApart /\ OwnerProduces
      /\ SchemaRecordBacksChannel
  BY DEF HubInit, AccessFollowsChannel, TopologyRespected, AllowlistIsRoster,
         NoStaleProducerConfirmation, SidesApart, OwnerProduces, SchemaRecordBacksChannel
<1>5. PendingNeedsConfirmation
  <2>1. \A k \in Channels, u \in Uids : Len(pending_attach_queue[k][u]) = 0
    BY DEF HubInit
  <2>2. QED BY SMT, <2>1 DEF PendingNeedsConfirmation
<1>6. ConfirmedWasIssued
  BY <1>1 DEF HubInit, ConfirmedWasIssued, Issued
<1>7. QED BY <1>2, <1>3, <1>4, <1>5, <1>6 DEF HubInv

\* A step that changes nothing.
LEMMA StutterInv ==
  ASSUME HubInv, UNCHANGED hubVars
  PROVE  HubInv'
<1>1. HubTypeOK' /\ RosterMatchesPresence'
  BY DEF HubInv, HubTypeOK, RosterMatchesPresence, hubVars, registryVars, roleVars
<1>2. AccessFollowsChannel' /\ TopologyRespected' /\ AllowlistIsRoster'
  BY DEF HubInv, AccessFollowsChannel, TopologyRespected, AllowlistIsRoster,
         hubVars, registryVars, roleVars
<1>3. PendingNeedsConfirmation' /\ ConfirmedWasIssued' /\ NoStaleProducerConfirmation'
  BY DEF HubInv, PendingNeedsConfirmation, ConfirmedWasIssued, NoStaleProducerConfirmation,
         hubVars, registryVars, roleVars
<1>4. SidesApart' /\ OwnerProduces' /\ SchemaRecordBacksChannel'
  BY DEF HubInv, SidesApart, OwnerProduces, SchemaRecordBacksChannel,
         hubVars, registryVars, roleVars
<1>5. QED BY <1>1, <1>2, <1>3, <1>4 DEF HubInv

\* HubInv is an invariant of the hub, whatever the requests and their order.
THEOREM HubInvariant == HubSpec => []HubInv
<1>1. HubInv /\ [HubNext]_hubVars => HubInv'
  BY StepInv, StutterInv
<1>2. QED BY <1>1, InitInv, PTL DEF HubSpec

\* The maps of hub_state.cpp agree after every handler: a role is on a roster
\* exactly when it has the presence row, access records and SHM blocks live as
\* long as their channel, and every channel keeps to its topology.
THEOREM HubStaysConsistent == HubSpec => []HubIsConsistent
<1>1. HubInv => HubIsConsistent
  BY DEF HubInv, HubIsConsistent
<1>2. QED BY <1>1, HubInvariant, PTL

\* The allowlist of a channel whose producer binds is its consumer roster, through
\* registrations, departures, reaps and closings in any order.
THEOREM AllowlistStaysRoster == HubSpec => []AllowlistIsRoster
<1>1. HubInv => AllowlistIsRoster
  BY DEF HubInv
<1>2. QED BY <1>1, HubInvariant, PTL

\* A confirmation was issued, is of the producer's present registration, and what
\* is queued at a producer waits for a version it lacks.
THEOREM ConfirmationsStayCurrent == HubSpec => []ConfirmationsAreCurrent
<1>1. HubInv => ConfirmationsAreCurrent
  BY DEF HubInv, ConfirmationsAreCurrent
<1>2. QED BY <1>1, HubInvariant, PTL

\* The ledger of an open channel only issues new versions, one at least for every
\* admission and revocation, and never restamps a key.
THEOREM LedgersGrow == HubSpec => VersionsGrow
<1> DEFINE A == \A k \in channels \cap channels' :
                  LET l == access[k]  m == access'[k] IN
                  /\ m.current_version >= l.current_version
                  /\ \A u \in Uids :
                        /\ u \in Admitted(l) \cap Admitted(m) => m.admission[u] = l.admission[u]
                        /\ u \in Admitted(m) \ Admitted(l) => m.admission[u] > l.current_version
                  /\ Admitted(l) # Admitted(m) => m.current_version > l.current_version
<1>1. GrowStep <=> A
  BY DEF GrowStep, Grows
<1>2. HubInv /\ [HubNext]_hubVars => [A]_hubVars
  BY <1>1, StepInv
<1>3. QED BY <1>2, HubInvariant, PTL DEF HubSpec, VersionsGrow

\* A channel that carries a role's own schema always has the role's entry and its
\* record behind it: the record is not dropped while a channel cites it.
THEOREM SchemaRecordsStay == HubSpec => []SchemaRecordBacksChannel
<1>1. HubInv => SchemaRecordBacksChannel
  BY DEF HubInv
<1>2. QED BY <1>1, HubInvariant, PTL

\* A role entry is erased only without presences, together with its schema record
\* and its band memberships.
THEOREM ErasureIsComplete == HubSpec => [][ErasureStep]_hubVars
<1>1. HubInv /\ [HubNext]_hubVars => [ErasureStep]_hubVars
  BY StepInv
<1>2. QED BY <1>1, HubInvariant, PTL DEF HubSpec
=============================================================================
