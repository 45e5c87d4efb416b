------------------------------ MODULE ShmAttach ------------------------------
(***************************************************************************)
(* How a consumer gets the descriptor of a producer's shared memory.       *)
(*                                                                         *)
(* A producer creates an anonymous segment and binds a UNIX socket at the  *)
(* channel's path (MemfdProducer).  Its accept thread serves one           *)
(* connection at a time: challenge, hello, optional proof                  *)
(* (run_producer_handshake), a question to the broker, and the descriptor  *)
(* over the socket (ShmAttachOrchestrator).  A consumer dials the path,    *)
(* retries a refused or silent dial, and maps what it receives             *)
(* (apply_consumer_reg_ack_shm_).                                          *)
(*                                                                         *)
(* Several processes may want the same path: a restarted producer, a       *)
(* second producer of the same channel, and the socket file a crashed one  *)
(* left behind (Leftover).  The steps of bind_endpoint are separate system *)
(* calls and interleave.                                                   *)
(*                                                                         *)
(* A box made with one key pair opens only with the matching one; it is    *)
(* the record of its two keys and its content.  A hello of src/ always     *)
(* says "consumer": no code there dials as an observer.                    *)
(***************************************************************************)
EXTENDS Naturals, Sequences

CONSTANTS Producers,    \* producer processes of one channel
          Consumers,    \* consumer roles of it
          KeyOf,        \* the public key of each producer
          Expects,      \* the producer key each consumer was told at REG_ACK
          Mutual,       \* the consumers with shm_require_mutual_auth
          MaxDials,     \* kMaxDialAttempts
          Leftover,     \* a socket file nobody listens on
          NoFile

VARIABLES path,         \* whose socket the file at the endpoint is
          prod,         \* producer: step, target_needs_unlink, peer
          backlog,      \* connections not yet accepted, per producer
          cons,         \* consumer: step, dial number, who answered, segment
          up, down,     \* frames of each consumer's current connection
          hungUp,       \* consumers whose current connection the producer closed
          allowed,      \* consumers the broker admits to the channel
          granted       \* history: the broker's "success" answers

attachVars == <<path, prod, backlog, cons, up, down, hungUp, allowed, granted>>

(* A connection is named by its consumer and the number of the dial.       *)
NoPeer == [who |-> NoFile, dial |-> 0]

Init ==
    /\ path \in {NoFile, Leftover}
    /\ prod = [p \in Producers |-> [pc |-> "new", stale |-> FALSE, peer |-> NoPeer]]
    /\ backlog = [p \in Producers |-> <<>>]
    /\ cons = [c \in Consumers |-> [pc |-> "idle", dial |-> 0, seg |-> NoFile]]
    /\ up = [c \in Consumers |-> <<>>]
    /\ down = [c \in Consumers |-> <<>>]
    /\ hungUp = {}
    /\ allowed = Consumers
    /\ granted = {}

Serving(p) == prod[p].pc \in {"listening", "accepted", "challenged", "verified", "asked"}

(* Connecting succeeds when the file names the socket of a listener.       *)
Listens(f) == f \in Producers /\ Serving(f)

-----------------------------------------------------------------------------
(* Producer: binding the endpoint                                          *)

(* The probing connect: a live listener refuses us, a dead socket file is  *)
(* to be unlinked, no file is fine.                                        *)
Probe(p) ==
    /\ prod[p].pc = "new"
    /\ prod' = [prod EXCEPT ![p].pc = IF Listens(path) THEN "failed" ELSE "probed",
                            ![p].stale = path # NoFile]
    /\ UNCHANGED <<path, backlog, cons, up, down, hungUp, allowed, granted>>

(* Bind at a private temporary name, then remove the stale file.           *)
UnlinkStale(p) ==
    /\ prod[p].pc = "probed"
    /\ prod' = [prod EXCEPT ![p].pc = "bound"]
    /\ path' = IF prod[p].stale THEN NoFile ELSE path
    /\ UNCHANGED <<backlog, cons, up, down, hungUp, allowed, granted>>

(* renameat2 with RENAME_NOREPLACE.                                        *)
Rename(p) ==
    /\ prod[p].pc = "bound"
    /\ prod' = [prod EXCEPT ![p].pc = IF path = NoFile THEN "renamed" ELSE "failed"]
    /\ path' = IF path = NoFile THEN p ELSE path
    /\ UNCHANGED <<backlog, cons, up, down, hungUp, allowed, granted>>

Listen(p) ==
    /\ prod[p].pc = "renamed"
    /\ prod' = [prod EXCEPT ![p].pc = "listening"]
    /\ UNCHANGED <<path, backlog, cons, up, down, hungUp, allowed, granted>>

(* A listen that fails removes whatever the path names.                    *)
ListenFails(p) ==
    /\ prod[p].pc = "renamed"
    /\ prod' = [prod EXCEPT ![p].pc = "failed"]
    /\ path' = NoFile
    /\ UNCHANGED <<backlog, cons, up, down, hungUp, allowed, granted>>

(* Closing the listener resets the connections it had not accepted.        *)
Dropped(p) ==
    {c \in Consumers : \E i \in DOMAIN backlog[p] :
                          backlog[p][i] = [who |-> c, dial |-> cons[c].dial]}
    \cup {c \in Consumers : prod[p].peer = [who |-> c, dial |-> cons[c].dial]}

(* The accept loop saw the shutdown flag: the orchestrator, the acceptor   *)
(* and the transport are released, and the transport unlinks its path.     *)
StopProducer(p) ==
    /\ prod[p].pc = "listening"
    /\ prod' = [prod EXCEPT ![p] = [pc |-> "stopped", stale |-> FALSE, peer |-> NoPeer]]
    /\ path' = NoFile
    /\ hungUp' = hungUp \cup Dropped(p)
    /\ backlog' = [backlog EXCEPT ![p] = <<>>]
    /\ UNCHANGED <<cons, up, down, allowed, granted>>

(* A crash leaves the socket file behind.                                  *)
CrashProducer(p) ==
    /\ prod[p].pc \notin {"new", "failed", "stopped"}
    /\ prod' = [prod EXCEPT ![p] = [pc |-> "stopped", stale |-> FALSE, peer |-> NoPeer]]
    /\ hungUp' = hungUp \cup Dropped(p)
    /\ backlog' = [backlog EXCEPT ![p] = <<>>]
    /\ UNCHANGED <<path, cons, up, down, allowed, granted>>

-----------------------------------------------------------------------------
(* Producer: one turn of the accept loop                                   *)

Current(peer) == peer.who \in Consumers /\ cons[peer.who].dial = peer.dial
PeerOpen(peer) == Current(peer) /\ cons[peer.who].pc \in {"dialled", "proving", "waiting"}

Challenge(p) == [kind |-> "challenge", by |-> p, of |-> prod[p].peer]

(* A box holds the content for exactly one pair of keys.                   *)
Box(from, to, content) == [from |-> from, to |-> to, content |-> content]

AcceptOne(p) ==
    /\ prod[p].pc = "listening"
    /\ backlog[p] # <<>>
    /\ prod' = [prod EXCEPT ![p].pc = "accepted", ![p].peer = Head(backlog[p])]
    /\ backlog' = [backlog EXCEPT ![p] = Tail(@)]
    /\ UNCHANGED <<path, cons, up, down, hungUp, allowed, granted>>

(* Every way out of a turn closes the connection.                          *)
EndTurn(p) ==
    /\ prod' = [prod EXCEPT ![p].pc = "listening", ![p].peer = NoPeer]
    /\ hungUp' = IF Current(prod[p].peer) THEN hungUp \cup {prod[p].peer.who} ELSE hungUp

(* Frame 1.  Sending to a closed peer fails and ends the turn.             *)
SendChallenge(p) ==
    /\ prod[p].pc = "accepted"
    /\ LET peer == prod[p].peer
       IN  \/ /\ PeerOpen(peer)
              /\ down' = [down EXCEPT ![peer.who] = Append(@, Challenge(p))]
              /\ prod' = [prod EXCEPT ![p].pc = "challenged"]
              /\ UNCHANGED hungUp
           \/ ~PeerOpen(peer) /\ EndTurn(p) /\ UNCHANGED down
    /\ UNCHANGED <<path, backlog, cons, up, allowed, granted>>

(* Variant: the challenge is not compared with the decrypted plaintext,    *)
(* and an undecryptable response is let through.                           *)
VerifiedUnread(p, hello) == hello.key \in Consumers

(* The hello's box opens with our key and the claimed one, and holds our   *)
(* challenge.                                                              *)
Verified(p, hello) == hello.box = Box(hello.key, KeyOf[p], Challenge(p))

(* Frame 2, and frame 3 when the consumer asked for a proof.               *)
RecvHello(p) ==
    /\ prod[p].pc = "challenged"
    /\ LET peer == prod[p].peer
       IN  /\ Current(peer)
           /\ up[peer.who] # <<>>
           /\ LET hello == Head(up[peer.who])
              IN  /\ up' = [up EXCEPT ![peer.who] = Tail(@)]
                  /\ \/ /\ Verified(p, hello)
                        /\ prod' = [prod EXCEPT ![p].pc = "verified"]
                        /\ down' = IF hello.mutual
                                   THEN [down EXCEPT ![peer.who] = Append(@,
                                          [kind |-> "proof", key |-> KeyOf[p],
                                           box |-> Box(KeyOf[p], hello.key, hello.challenge)])]
                                   ELSE down
                        /\ UNCHANGED hungUp
                     \/ ~Verified(p, hello) /\ EndTurn(p) /\ UNCHANGED down
    /\ UNCHANGED <<path, backlog, cons, allowed, granted>>

(* The handshake deadline, or end of file from a consumer that gave up.    *)
HandshakeFails(p) ==
    /\ prod[p].pc = "challenged"
    /\ EndTurn(p)
    /\ UNCHANGED <<path, backlog, cons, up, down, allowed, granted>>

(* CONSUMER_ATTACH_REQ_SHM.  No answer, a throw or another status denies.  *)
BrokerQuery(p) ==
    /\ prod[p].pc = "verified"
    /\ \/ /\ prod[p].peer.who \in allowed
          /\ granted' = granted \cup {[to |-> prod[p].peer, by |-> p]}
          /\ prod' = [prod EXCEPT ![p].pc = "asked"]
          /\ UNCHANGED hungUp
       \/ EndTurn(p) /\ UNCHANGED granted
    /\ UNCHANGED <<path, backlog, cons, up, down, allowed>>

(* The descriptor travels in one message; the turn then closes the socket. *)
SendCapability(p) ==
    /\ prod[p].pc = "asked"
    /\ down' = IF PeerOpen(prod[p].peer)
               THEN [down EXCEPT ![prod[p].peer.who] = Append(@, [kind |-> "fd", seg |-> p])]
               ELSE down
    /\ EndTurn(p)
    /\ UNCHANGED <<path, backlog, cons, up, allowed, granted>>

-----------------------------------------------------------------------------
(* Consumer                                                                *)

(* A dial that found nobody, or timed out, is retried up to the limit.     *)
AfterRefusal(n) == IF n < MaxDials THEN "idle" ELSE "failed"

Dial(c) ==
    /\ cons[c].pc = "idle"
    /\ cons[c].dial < MaxDials
    /\ LET n == cons[c].dial + 1
       IN  \/ /\ Listens(path)
              /\ cons' = [cons EXCEPT ![c].pc = "dialled", ![c].dial = n]
              /\ backlog' = [backlog EXCEPT ![path] = Append(@, [who |-> c, dial |-> n])]
           \/ /\ ~Listens(path)
              /\ cons' = [cons EXCEPT ![c].pc = AfterRefusal(n), ![c].dial = n]
              /\ UNCHANGED backlog
    /\ up' = [up EXCEPT ![c] = <<>>]
    /\ down' = [down EXCEPT ![c] = <<>>]
    /\ hungUp' = hungUp \ {c}
    /\ UNCHANGED <<path, prod, allowed, granted>>

(* The consumer's own challenge names the connection it belongs to.        *)
OwnChallenge(c) == [kind |-> "challenge", by |-> c, of |-> cons[c].dial]

(* Frame 1 in, frame 2 out.                                                *)
SendHello(c) ==
    /\ cons[c].pc = "dialled"
    /\ down[c] # <<>>
    /\ down' = [down EXCEPT ![c] = Tail(@)]
    /\ up' = [up EXCEPT ![c] = Append(@,
                [key |-> c, mutual |-> c \in Mutual, challenge |-> OwnChallenge(c),
                 box |-> Box(c, Expects[c], Head(down[c]))])]
    /\ cons' = [cons EXCEPT ![c].pc = IF c \in Mutual THEN "proving" ELSE "waiting"]
    /\ UNCHANGED <<path, prod, backlog, hungUp, allowed, granted>>

(* Frame 3: the expected key, and our challenge boxed by its owner.        *)
Proven(c, proof) ==
    /\ proof.kind = "proof"
    /\ proof.key = Expects[c]
    /\ proof.box = Box(Expects[c], c, OwnChallenge(c))

RecvProof(c) ==
    /\ cons[c].pc = "proving"
    /\ down[c] # <<>>
    /\ down' = [down EXCEPT ![c] = Tail(@)]
    /\ cons' = [cons EXCEPT ![c].pc = IF Proven(c, Head(down[c])) THEN "waiting" ELSE "failed"]
    /\ UNCHANGED <<path, prod, backlog, up, hungUp, allowed, granted>>

(* SCM_RIGHTS: the descriptor is mapped and given to the queue.            *)
RecvAndMap(c) ==
    /\ cons[c].pc = "waiting"
    /\ down[c] # <<>>
    /\ down' = [down EXCEPT ![c] = Tail(@)]
    /\ cons' = [cons EXCEPT ![c].pc = "attached", ![c].seg = Head(down[c]).seg]
    /\ UNCHANGED <<path, prod, backlog, up, hungUp, allowed, granted>>

(* A handshake that times out is retried.  One whose proof or descriptor   *)
(* does not come, or that meets a closed socket, ends the attach.          *)
GiveUp(c) ==
    /\ cons[c].pc \in {"dialled", "proving", "waiting"}
    /\ cons' = [cons EXCEPT ![c].pc = IF cons[c].pc = "dialled" /\ c \notin hungUp
                                      THEN AfterRefusal(cons[c].dial) ELSE "failed"]
    /\ down[c] = <<>> \/ c \notin hungUp
    /\ UNCHANGED <<path, prod, backlog, up, down, hungUp, allowed, granted>>

(* The broker's view of the channel changes.                               *)
Revoke(c) ==
    /\ c \in allowed
    /\ allowed' = allowed \ {c}
    /\ UNCHANGED <<path, prod, backlog, cons, up, down, hungUp, granted>>

-----------------------------------------------------------------------------
BindSteps(p) == Probe(p) \/ UnlinkStale(p) \/ Rename(p) \/ Listen(p)

ServeSteps(p) ==
    \/ AcceptOne(p) \/ SendChallenge(p) \/ RecvHello(p) \/ HandshakeFails(p)
    \/ BrokerQuery(p) \/ SendCapability(p)

ConsumerSteps(c) == Dial(c) \/ SendHello(c) \/ RecvProof(c) \/ RecvAndMap(c) \/ GiveUp(c)

Next ==
    \/ \E p \in Producers : BindSteps(p) \/ ServeSteps(p)
    \/ \E p \in Producers : ListenFails(p) \/ StopProducer(p) \/ CrashProducer(p)
    \/ \E c \in Consumers : ConsumerSteps(c) \/ Revoke(c)

Spec == Init /\ [][Next]_attachVars

-----------------------------------------------------------------------------
(* An attached consumer maps the segment of a producer that holds the key  *)
(* the broker announced to it, and the broker admitted that very           *)
(* connection: not an earlier dial of it, nor a dial to another producer   *)
(* that took the path over.  (run_producer_handshake, accept_and_serve_one *)
(* "failing closed", initiate_consumer_handshake.)                         *)
AttachIsGranted ==
    \A c \in Consumers : cons[c].pc = "attached" =>
        /\ KeyOf[cons[c].seg] = Expects[c]
        /\ [to |-> [who |-> c, dial |-> cons[c].dial], by |-> cons[c].seg] \in granted

(* A producer that listens is reached by its path: two producers of one    *)
(* channel end with the second one's bind failing "instead of silently     *)
(* clobbering the first producer's socket and leaving it bound to an       *)
(* orphaned inode" (shm_capability_channel.cpp:338-345).                   *)
ListenerIsReachable == \A p \in Producers : Serving(p) => path = p
=============================================================================
