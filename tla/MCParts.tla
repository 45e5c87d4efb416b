------------------------------ MODULE MCParts ------------------------------
(***************************************************************************)
(* The parts whose guarantees are safety properties of their own, checked  *)
(* side by side: a behaviour is one of the part "which" names, and all the *)
(* other variables rest.  The slots with the recovery tool keep their      *)
(* variables; the other parts, never at work together, share the pool      *)
(* x1 .. x16.                                                              *)
(***************************************************************************)
EXTENDS SlotRecovery, Sequences, TLC

CONSTANTS MaxGeneration, MaxDead   \* commits per slot, processes that die

VARIABLES which, x1, x2, x3, x4, x5, x6, x7, x8, x9, x10, x11, x12, x13, x14, x15, x16

from13 == <<x13, x14, x15, x16>>
from12 == <<x12, from13>>
from11 == <<x11, from12>>
from10 == <<x10, from11>>
from9 == <<x9, from10>>
from8 == <<x8, from9>>
from7 == <<x7, from8>>
from6 == <<x6, from7>>
pool == <<x1, x2, x3, x4, x5, from6>>
all == <<which, recoveryVars, pool>>

\* The pool's variables from the n-th on are not in use.
Rest13 == x13 = "rest" /\ x14 = "rest" /\ x15 = "rest" /\ x16 = "rest"
Rest12 == x12 = "rest" /\ Rest13
Rest11 == x11 = "rest" /\ Rest12
Rest10 == x10 = "rest" /\ Rest11
Rest9 == x9 = "rest" /\ Rest10
Rest8 == x8 = "rest" /\ Rest9
Rest7 == x7 = "rest" /\ Rest8
Rest6 == x6 = "rest" /\ Rest7
Rest1 == x1 = "rest" /\ x2 = "rest" /\ x3 = "rest" /\ x4 = "rest" /\ x5 = "rest" /\ Rest6

-----------------------------------------------------------------------------
(* Slots and the recovery tool: two writers of one slot, one of them using *)
(* the C API, each publishing an id of its own, and two readers.           *)

IdOf(w) == IF w \in CWriters THEN 2 ELSE 1

Dead == {w \in Writers : wpc[w] = "dead"}
        \cup {r \in Readers : rpc[r] \in {"dead", "dead_registered"}}

SlotsInit ==
    /\ RecoveryInit
    /\ \A w \in Writers : wslot[w] = CHOOSE s \in Slots : TRUE
    /\ \A w \in Writers : wid[w] = IdOf(w)
    /\ \A r \in Readers : rslot[r] = CHOOSE s \in Slots : TRUE

SlotsNext ==
    /\ RecoveryNext
    /\ \A w \in Writers : wid'[w] = IdOf(w)
    /\ \A s \in Slots : write_generation'[s] <= MaxGeneration
    /\ Cardinality(Dead') <= MaxDead
    /\ Readers \cap Dead' \subseteq {CHOOSE r \in Readers : TRUE}   \* they are alike

-----------------------------------------------------------------------------
(* The hub's registry for a pipeline: "proc" consumes "raw" and produces   *)
(* "cooked", and its script joins a band.                                  *)

None == [hash |-> "none", owner |-> "anonymous"]

P == INSTANCE HubState WITH
        Uids <- {"source", "proc"}, Channels <- {"raw", "cooked"},
        ProducerOf <- [raw |-> {"source"}, cooked |-> {"proc"}],
        ConsumerOf <- [raw |-> {"proc"}, cooked |-> {}],
        Bands <- {"band"}, BandUsers <- {"proc"},
        Schemas <- {"schema"}, NoSchema <- "none", HubSchemas <- {},
        Anonymous <- "anonymous", Hub <- "hub",
        Cites <- [source |-> {None}, proc |-> {None, [hash |-> "schema", owner |-> "proc"]}],
        Expects <- [source |-> {None}, proc |-> {None}],
        Versions <- {1}, MaxPending <- 0,
        channels <- x1, topology <- x2, transport <- x3, channel_schema <- x4,
        producers <- x5, consumers <- x6, presence <- x7, roles <- x8,
        role_channels <- x9, bands <- x10, schemas <- x11, shm_blocks <- x12,
        accessed <- x13, access <- x14, producer_instance <- x15,
        pending_attach_queue <- x16

PipeNext ==
    /\ P!HubNext
    /\ \A k \in {"raw", "cooked"} : x14'[k].current_version <= 1 /\ x3'[k] = "zmq"
    /\ \A u \in {"source", "proc"} : x15'[u] <= 1

-----------------------------------------------------------------------------
(* A block's life: it is created, created again, attached to and repaired. *)

B == INSTANCE BlockLife WITH
        Creators <- {"c1", "c2"}, Attachers <- {"a1"}, Segs <- {"s1", "s2", "s3"},
        Configs <- {[cap |-> 2, flex |-> 0, unit |-> 100],
                    [cap |-> 2, flex |-> 100, unit |-> 100],
                    [cap |-> 0, flex |-> 0, unit |-> 64]},
        Schemas <- {"schema"}, Overlap <- FALSE,
        NoSeg <- "noseg", NoConfig <- [cap |-> 0, flex |-> 0, unit |-> 0], NoSchema <- "noschema",
        name <- x1, seg <- x2, creator <- x3, attacher <- x4, tool <- x5

\* The second creator comes second, with a flexible zone, and the tool runs
\* beside one of them.
BlockNext ==
    /\ B!Next
    /\ x3'["c1"].pc = "idle" => x3'["c2"].pc = "idle"
    /\ x3'["c2"].pc = "open" => x3'["c2"].config.flex = 100
    /\ x5'.pc = "idle" \/ \E c \in {"c1", "c2"} : x3'[c].pc = "idle"

-----------------------------------------------------------------------------
(* An inbox with one sender; x10 holds the faults (a bad payload, a lost   *)
(* link, a restart) and duplicates to come.                                *)

I == INSTANCE Inbox WITH
        Senders <- {"s"}, Items <- {0, 1}, Payloads <- {"good", "tag", "sum"},
        Skew <- 1, Window <- 2, Ahead <- 1, MaxClock <- 3, NoSender <- "nobody",
        clock <- x1, client <- x2, link <- x3, out <- x4, inq <- x5, acks <- x6,
        taken <- x7, roster <- x8, inbox <- x9

Spend(what) == x10[what] > 0 /\ x10' = [x10 EXCEPT ![what] = @ - 1]

InboxNext ==
    \/ I!Duplicate("s") /\ Spend("duplicates")
    \/ /\ \/ I!StopInbox \/ I!LinkBreaks("s") \/ I!CloseInboxClient("s")
          \/ \E payload \in {"tag", "sum"}, wait \in BOOLEAN : I!Send("s", payload, wait)
       /\ Spend("faults")
    \/ /\ \/ I!Tick \/ I!StartInbox \/ I!SendAck \/ I!SeedRoster("s") \/ I!Connect("s")
          \/ I!Transfer("s") \/ I!OpenInboxClient("s") \/ I!ReceiveAck("s")
          \/ I!AckTimeout("s") \/ I!RecvOne("s")
          \/ \E wait \in BOOLEAN : I!Send("s", "good", wait)
       /\ UNCHANGED x10

-----------------------------------------------------------------------------
(* A shared-memory queue with one reader.                                  *)

Q == INSTANCE ShmQueue WITH
        ShmReaders <- {"r"}, Policies <- {"None", "Manual", "Enforced"},
        MaxItems <- 2, MaxZone <- 1,
        policy <- x1, writer <- x2, reader <- x3, slots <- x4, held <- x5, zone <- x6

-----------------------------------------------------------------------------
(* A configuration file used by two threads of one process and a third of  *)
(* another.  x10 is what the threads still have to call, x11 counts the    *)
(* crashes.                                                                *)

J == INSTANCE JsonConfig WITH
        Threads <- {"t1", "t2", "t3"}, ProcOf <- [t1 |-> "p", t2 |-> "p", t3 |-> "q"],
        NoThread <- "nobody",
        reg <- x1, flock <- x2, lock <- x3, disk <- x4, temp <- x5, mem <- x6,
        thr <- x7, acked <- x8, onlySync <- x9

Full == J!Writes(TRUE, TRUE, TRUE)
Scripts ==
    {[t1 |-> <<Full>>, t2 |-> <<J!Reads(TRUE), J!Other("reload", TRUE)>>, t3 |-> <<Full>>],
     [t1 |-> <<Full>>, t3 |-> <<Full>>,
      t2 |-> <<J!Writes(FALSE, FALSE, TRUE), Full>>],
     [t1 |-> <<Full>>, t3 |-> <<Full>>,
      t2 |-> <<J!Writes(TRUE, FALSE, TRUE), J!Other("overwrite", TRUE)>>],
     [t1 |-> <<J!Writes(FALSE, TRUE, FALSE)>>, t3 |-> <<Full>>,
      t2 |-> <<J!Other("commit", FALSE), J!Other("hold", TRUE)>>]}

ConfigNext ==
    \/ \E t \in {"t1", "t2", "t3"} :
          \/ /\ x10[t] # <<>>
             /\ J!Start(t, Head(x10[t]), <<t, Len(x10[t])>>)
             /\ x10' = [x10 EXCEPT ![t] = Tail(@)]
             /\ UNCHANGED x11
          \/ J!ThreadSteps(t) /\ UNCHANGED <<x10, x11>>
    \/ /\ x11 = 0 /\ x11' = 1
       /\ J!Crash("p")
       /\ UNCHANGED x10

-----------------------------------------------------------------------------
(* Two producers that take a channel's endpoint over from one another, the *)
(* second with another key, and two consumers, one of which dials again.   *)
(* x10 counts the faults.                                                  *)

A == INSTANCE ShmAttach WITH
        Producers <- {"p1", "p2"}, Consumers <- {"c1", "c2"},
        KeyOf <- [p1 |-> "k1", p2 |-> "k2"], Expects <- [c1 |-> "k1", c2 |-> "k1"],
        Mutual <- {"c1"}, MaxDials <- 2, Leftover <- "leftover", NoFile <- "nofile",
        path <- x1, prod <- x2, backlog <- x3, cons <- x4, up <- x5, down <- x6,
        hungUp <- x7, allowed <- x8, granted <- x9

AttachSteps ==
    \/ /\ x10 = 0 /\ x10' = 1
       /\ \/ A!ListenFails("p1") \/ A!StopProducer("p1") \/ A!CrashProducer("p1")
          \/ \E c \in {"c1", "c2"} : A!Revoke(c)
    \/ /\ \/ \E p \in {"p1", "p2"} : A!BindSteps(p) \/ A!ServeSteps(p)
          \/ \E c \in {"c1", "c2"} : A!ConsumerSteps(c)
       /\ UNCHANGED x10

AttachNext == AttachSteps /\ x4'["c2"].dial <= 1

-----------------------------------------------------------------------------
(* Two queues that use one ZAP domain in turn.                             *)

Z == INSTANCE ZapRouter WITH
        Owners <- {"q1", "q2"}, DomainOf <- [q1 |-> "d", q2 |-> "d"],
        ZapPeers <- {"a"}, NoOwner <- "none",
        router <- x1, refs <- x2, table <- x3, owner <- x4, allow <- x5,
        requests <- x6, pump <- x7, verdicts <- x8

-----------------------------------------------------------------------------
(* One console with one command, two hellos and a buffer of one line.      *)

C == INSTANCE AdminConsole WITH
        Consoles <- {"a"}, Nonces <- {1}, Skew <- 1, Window <- 2, MaxClock <- 3,
        MaxLines <- 1, MaxPrints <- 1, MaxHellos <- 2,
        clock <- x1, console <- x2, wire <- x3, admin <- x4, seen <- x5, orders <- x6,
        buffer <- x7, dropped <- x8, lines <- x9, fate <- x10, runs <- x11, hellos <- x12

ConsoleNext == C!ConsoleNext /\ Len(x3') <= 2

-----------------------------------------------------------------------------
(* Four commands on the vaults, one after another.                         *)

V == INSTANCE Vault WITH
        Commands <- {"a"}, Uids <- {"u1", "u2"}, Keys <- {"k1", "k2"},
        LegacyRoles <- {<<"u1", "k1">>}, Capacity <- 2, Overlap <- FALSE, MaxRuns <- 4,
        vault <- x1, temp <- x2, pubkey <- x3, legacy <- x4, cmd <- x5, started <- x6,
        promised <- x7, withdrawn <- x8, spared <- x9

-----------------------------------------------------------------------------
(* A log file of one line, three backups, five lines and two faults.        *)

F == INSTANCE LogFiles WITH
        LogWriters <- {"a"}, Backups <- 3, MaxSize <- 1, MaxLogLines <- 5, MaxTime <- 5,
        ClockSteps <- "forward", MaxFaults <- 2,
        mode <- x1, names <- x2, inodes <- x3, sink <- x4, logged <- x5, now <- x6,
        faults <- x7

-----------------------------------------------------------------------------
(* The setup and teardown of the three kinds of role.                      *)

R == INSTANCE RoleSetup WITH
        Kinds <- {"producer", "consumer", "processor"},
        Options <- [shm : BOOLEAN, inbox : BOOLEAN, waits : BOOLEAN, validate : BOOLEAN],
        kind <- x1, opt <- x2, owned <- x3, todo <- x4, spc <- x5, answer <- x6,
        listener <- x7, asked <- x8, expired <- x9

-----------------------------------------------------------------------------
Init ==
    /\ SlotsInit
    /\ \/ which = "slots" /\ Rest1
       \/ which = "pipe" /\ P!HubInit
       \/ which = "block" /\ B!Init /\ Rest6
       \/ which = "inbox" /\ I!Init /\ x10 = [duplicates |-> 1, faults |-> 1] /\ Rest11
       \/ which = "queue" /\ Q!ShmInit /\ Rest7
       \/ which = "config" /\ J!ConfigInit /\ x10 \in Scripts /\ x11 = 0 /\ Rest12
       \/ which = "attach" /\ A!Init /\ x10 = 0 /\ Rest11
       \/ which = "zap" /\ Z!ZapInit /\ Rest9
       \/ which = "console" /\ C!ConsoleInit /\ Rest13
       \/ which = "vault" /\ V!VaultInit /\ Rest10
       \/ which = "logfile" /\ F!LogFilesInit /\ Rest8
       \/ which = "setup" /\ R!Init /\ Rest10

PoolNext ==
    \/ which = "pipe" /\ PipeNext
    \/ which = "block" /\ BlockNext /\ UNCHANGED from6
    \/ which = "inbox" /\ InboxNext /\ UNCHANGED from11
    \/ which = "queue" /\ Q!ShmNext /\ UNCHANGED from7
    \/ which = "config" /\ ConfigNext /\ UNCHANGED from12
    \/ which = "attach" /\ AttachNext /\ UNCHANGED from11
    \/ which = "zap" /\ Z!ZapNext /\ UNCHANGED from9
    \/ which = "console" /\ ConsoleNext /\ UNCHANGED from13
    \/ which = "vault" /\ V!VaultNext /\ UNCHANGED from10
    \/ which = "logfile" /\ F!LogFilesNext /\ UNCHANGED from8
    \/ which = "setup" /\ R!Next /\ UNCHANGED from10

Next ==
    /\ UNCHANGED which
    /\ \/ which = "slots" /\ SlotsNext /\ UNCHANGED pool
       \/ PoolNext /\ UNCHANGED recoveryVars

Spec == Init /\ [][Next]_all

-----------------------------------------------------------------------------
(* Properties: those of the parts, each for the behaviours of its part.    *)

\* The handlers of REG_REQ, DEREG_REQ, the sweep and the band requests keep a
\* processor's two presences, its record and its memberships in step: rosters
\* and presences agree, a channel's schema has its record behind it, and with
\* the role entry everything that belongs to it goes.
PipeStaysInStep ==
    /\ [](which = "pipe" => P!RosterMatchesPresence /\ P!SchemaRecordBacksChannel)
    /\ [][which = "pipe" => P!ErasureStep]_all

\* An attached process works with the layout that the segment's creator computed
\* and with what it demanded of it, however attaching interleaves with the
\* initialisation of the header (DataBlock constructors, validate_integrity).
AttachedAgree == which = "block" => B!AttachedAgree

\* on_inbox sees a sender's items in their order and each at most once, and the
\* numbers that are missing are counted as gaps (InboxQueue::recv_one).
InboxKeepsOrder == which = "inbox" => I!InboxKeepsOrder



\* An attached consumer maps the segment of a producer with the announced key,
\* by the very connection the broker admitted (ShmCapabilityChannel).
AttachIsGranted == which = "attach" => A!AttachIsGranted

\* The ZAP router never decides with an object that is being destroyed, and a
\* bound socket's requests find the object that bound it.
AdmissionOutlivesDecision == which = "zap" => Z!AdmissionOutlivesDecision


\* What a vault command reported stays true across later commands and crashes
\* between any two system calls (HubVault, known roles and their migration).
VaultKeepsEdits == which = "vault" => V!VaultKeepsEdits


\* Whatever step of a role's setup fails, the worker gives back what it acquired
\* and answers startup_() once, and nothing goes before what borrows it.
SetupIsUndone == which = "setup" => R!WorkerLeavesNothing /\ R!BorrowersGoFirst
=============================================================================
