------------------------------ MODULE BlockLife ------------------------------
(***************************************************************************)
(* The life of a DataBlock shared-memory segment: creation under a name or *)
(* in a descriptor the caller made, initialisation of the header one field *)
(* group after the other, attachment by other processes with its checks,   *)
(* removal of the name, and the integrity tool with its repair             *)
(* (src/src/utils/shm/data_block.cpp, data_block_schema.cpp,               *)
(* data_block_recovery.cpp, and the shm functions of platform.cpp).        *)
(*                                                                         *)
(* A segment lives on while somebody maps it, whatever its name refers to  *)
(* by then.  Addresses, hashes and identity strings are left out; the      *)
(* layout arithmetic is kept in bytes, because creator and attacher        *)
(* compute it from different inputs and must agree.                        *)
(***************************************************************************)
EXTENDS Naturals, FiniteSets, TLC

CONSTANTS Creators,   \* processes that create the block
          Attachers,  \* processes that attach to it
          Segs,       \* segments the kernel may hand out
          Configs,    \* [cap, flex, unit]: capacity, flexible zone, slot size
          Schemas,    \* schemas a creator may store and an attacher may demand
          Overlap,    \* may two constructors by name run at once?
          NoSeg, NoConfig, NoSchema

VARIABLES name,     \* the segment the name refers to, or NoSeg
          seg,      \* the segments' contents
          creator,  \* per creator: program counter, segment, config, schema
          attacher, \* per attacher: the same, with what it demands
          tool      \* the integrity tool

blockLifeVars == <<name, seg, creator, attacher, tool>>

-----------------------------------------------------------------------------
(* Layout arithmetic *)

PageAlignment == 4096
CacheLine == 64
HeaderBytes == 4096
SlotStateBytes == 64
ChecksumEntryBytes == 33

RoundUp(n, unit) == ((n + unit - 1) \div unit) * unit

\* The slot stride: whole cache lines, or a page when no size was asked for.
EffectiveUnit(config) ==
    IF config.unit = 0 THEN PageAlignment ELSE RoundUp(config.unit, CacheLine)

\* What a layout is, given the slot count, flexible zone size and stride.
LayoutOf(slots, flex, stride) ==
    LET sums == HeaderBytes + slots * SlotStateBytes
        zone == RoundUp(sums + slots * ChecksumEntryBytes, PageAlignment)
    IN  [states |-> HeaderBytes, sums |-> sums, zone |-> zone, zoneSize |-> flex,
         ring |-> zone + flex, stride |-> stride, slots |-> slots,
         total |-> RoundUp(zone + flex + slots * stride, PageAlignment)]

FromConfig(config) ==
    LayoutOf(IF config.cap > 0 THEN config.cap ELSE 1,
             RoundUp(config.flex, PageAlignment), EffectiveUnit(config))

\* The layout-defining values the constructor writes into the header.
HeaderFields(config) ==
    [cap |-> config.cap, flex |-> FromConfig(config).zoneSize,
     stride |-> FromConfig(config).stride, total |-> FromConfig(config).total]

FromHeader(fields) ==
    LayoutOf(IF fields.cap > 0 THEN fields.cap ELSE 1, fields.flex, fields.stride)

\* DataBlockLayout::validate: the areas follow one another without overlap.
LayoutValid(l) ==
    /\ l.states = HeaderBytes
    /\ l.sums = l.states + l.slots * SlotStateBytes
    /\ l.zone >= l.sums + l.slots * ChecksumEntryBytes
    /\ l.zone % PageAlignment = 0 /\ l.zoneSize % PageAlignment = 0
    /\ l.ring = l.zone + l.zoneSize
    /\ l.total >= l.ring + l.slots * l.stride /\ l.total % PageAlignment = 0

\* Variant: the flexible zone is not compared.
ConfigMatchesButZone(fields, config) ==
    fields.cap = config.cap /\ fields.stride = EffectiveUnit(config)

\* Does the header agree with the configuration an attacher expects?
ConfigMatches(fields, config) ==
    /\ fields.flex = RoundUp(config.flex, PageAlignment)
    /\ fields.cap = config.cap
    /\ fields.stride = EffectiveUnit(config)

-----------------------------------------------------------------------------
Blank == [size |-> 0, fields |-> NoConfig, magic |-> FALSE, hash |-> FALSE,
          sum |-> NoConfig, schema |-> NoSchema, data |-> "good"]

Idle == [pc |-> "idle", seg |-> NoSeg, config |-> NoConfig, schema |-> NoSchema]

Gone == [Idle EXCEPT !.pc = "gone"]

Init ==
    /\ name = NoSeg
    /\ seg = [s \in Segs |-> Blank]
    /\ creator = [c \in Creators |-> Idle @@ [via |-> "name"]]
    /\ attacher = [a \in Attachers |-> Idle @@ [layout |-> NoConfig]]
    /\ tool = [pc |-> "idle", seg |-> NoSeg, block |-> NoSeg, fresh |-> NoSeg,
               repair |-> FALSE, result |-> "none"]

Mapped == {creator[c].seg : c \in Creators} \cup {attacher[a].seg : a \in Attachers}
              \cup {tool.seg, tool.block, tool.fresh}

\* Segments that neither a name nor a mapping keeps: the kernel frees them.
Unused == Segs \ (Mapped \cup {name})

\* One of them; which one makes no difference.
Fresh == IF Unused = {} THEN {} ELSE {CHOOSE s \in Unused : TRUE}

Constructing(c) == creator[c].pc \notin {"idle", "ready", "gone"}

\* One producer owns a block; that nobody else constructs it meanwhile is the
\* callers' business.
Alone == Overlap \/ (tool.pc # "close" /\ \A c \in Creators : ~Constructing(c))

SetCreator(c, pc) == creator' = [creator EXCEPT ![c].pc = pc]

-----------------------------------------------------------------------------
(* The creator *)

\* The constructor checks the configuration before it touches memory.  Under a
\* name it then unlinks whatever the name referred to.
CreateNamed(c, config, schema) ==
    /\ creator[c].pc = "idle"
    /\ Alone
    /\ IF config.cap = 0
       THEN creator' = [creator EXCEPT ![c] = Gone @@ [via |-> "name"]] /\ UNCHANGED name
       ELSE /\ name' = NoSeg
            /\ creator' = [creator EXCEPT ![c] =
                  [pc |-> "open", seg |-> NoSeg, config |-> config,
                   schema |-> schema, via |-> "name"]]
    /\ UNCHANGED <<seg, attacher, tool>>

\* shm_open without O_EXCL: it creates the segment, or opens the one another
\* creator has put under the name since the unlink.
ShmOpen(c) ==
    /\ creator[c].pc = "open"
    /\ \E s \in IF name = NoSeg THEN Fresh ELSE {name} :
          /\ name' = s
          /\ seg' = [seg EXCEPT ![s] = IF name = NoSeg THEN Blank ELSE @]
          /\ creator' = [creator EXCEPT ![c].pc = "size", ![c].seg = s]
    /\ UNCHANGED <<attacher, tool>>

\* ftruncate to the layout's total size and map.
ShmSize(c) ==
    /\ creator[c].pc = "size"
    /\ seg' = [seg EXCEPT ![creator[c].seg].size = FromConfig(creator[c].config).total]
    /\ SetCreator(c, "fields")
    /\ UNCHANGED <<name, attacher, tool>>

\* ftruncate or mmap fails: the name is removed and the constructor throws.
ShmFails(c) ==
    /\ creator[c].pc = "size"
    /\ name' = NoSeg
    /\ creator' = [creator EXCEPT ![c] = Gone @@ [via |-> "name"]]
    /\ UNCHANGED <<seg, attacher, tool>>

\* setup_shm_from_fd_: a descriptor of another size than the layout's is refused.
FdFits(config, size) == size = FromConfig(config).total

\* The descriptor form: the caller made and sized the memory, and it has no
\* name.
CreateFromFd(c, config, schema, size) ==
    /\ creator[c].pc = "idle"
    /\ IF config.cap = 0 \/ ~FdFits(config, size)
       THEN creator' = [creator EXCEPT ![c] = Gone @@ [via |-> "name"]] /\ UNCHANGED seg
       ELSE \E s \in Fresh :
              /\ seg' = [seg EXCEPT ![s] = [Blank EXCEPT !.size = size]]
              /\ creator' = [creator EXCEPT ![c] =
                    [pc |-> "fields", seg |-> s, config |-> config,
                     schema |-> schema, via |-> "fd"]]
    /\ UNCHANGED <<name, attacher, tool>>

\* init_producer_state_ up to the slots and read positions.
InitFields(c) ==
    /\ creator[c].pc = "fields"
    /\ seg' = [seg EXCEPT ![creator[c].seg].fields = HeaderFields(creator[c].config),
                          ![creator[c].seg].schema = NoSchema]
    /\ SetCreator(c, "magic")
    /\ UNCHANGED <<name, attacher, tool>>

\* The magic number is stored, and only then the header hash, the layout
\* checksum and, in the factory function, the schemas.
SetMagic(c) ==
    /\ creator[c].pc = "magic"
    /\ seg' = [seg EXCEPT ![creator[c].seg].magic = TRUE]
    /\ SetCreator(c, "hash")
    /\ UNCHANGED <<name, attacher, tool>>

StoreHash(c) ==
    /\ creator[c].pc = "hash"
    /\ seg' = [seg EXCEPT ![creator[c].seg].hash = TRUE]
    /\ SetCreator(c, "sum")
    /\ UNCHANGED <<name, attacher, tool>>

StoreSum(c) ==
    /\ creator[c].pc = "sum"
    /\ seg' = [seg EXCEPT ![creator[c].seg].sum = seg[creator[c].seg].fields]
    /\ SetCreator(c, "schema")
    /\ UNCHANGED <<name, attacher, tool>>

StoreSchema(c) ==
    /\ creator[c].pc = "schema"
    /\ seg' = [seg EXCEPT ![creator[c].seg].schema = creator[c].schema]
    /\ SetCreator(c, "ready")
    /\ UNCHANGED <<name, attacher, tool>>

\* ~DataBlock: the mapping goes; a creator by name unlinks the name, whichever
\* segment it refers to by now.
Destroy(c) ==
    /\ creator[c].pc = "ready"
    /\ name' = IF creator[c].via = "name" THEN NoSeg ELSE name
    /\ creator' = [creator EXCEPT ![c] = Gone @@ [via |-> "name"]]
    /\ UNCHANGED <<seg, attacher, tool>>

\* The creating process dies; nothing is unlinked.
CreatorDies(c) ==
    /\ Constructing(c) \/ creator[c].pc = "ready"
    /\ creator' = [creator EXCEPT ![c] = Gone @@ [via |-> "name"]]
    /\ UNCHANGED <<name, seg, attacher, tool>>

\* A slot's bytes stop matching its checksum (a writer died inside a slot).
Damage(s) ==
    /\ seg[s].sum # NoConfig /\ seg[s].data = "good" /\ s = name /\ tool.pc = "idle"
    /\ seg' = [seg EXCEPT ![s].data = "bad"]
    /\ UNCHANGED <<name, creator, attacher, tool>>

-----------------------------------------------------------------------------
(* The attacher *)

Leave(a) ==
    attacher' = [attacher EXCEPT ![a] = Gone @@ [layout |-> NoConfig]]

Open(a, s, expected, schema) ==
    attacher' = [attacher EXCEPT ![a] =
        [pc |-> "waiting", seg |-> s, config |-> expected,
         schema |-> schema, layout |-> NoConfig]]

\* shm_attach: the name may be missing, and memory without a size cannot be
\* mapped.
ShmAttachable == name # NoSeg /\ (name # NoSeg => seg[name].size > 0)

AttachByName(a, expected, schema) ==
    /\ attacher[a].pc = "idle"
    /\ IF ShmAttachable THEN Open(a, name, expected, schema) ELSE Leave(a)
    /\ UNCHANGED <<name, seg, creator, tool>>

\* The descriptor a ready creator passed on.
AttachByFd(a, expected, schema) ==
    /\ attacher[a].pc = "idle"
    /\ \E c \in Creators : /\ creator[c].pc = "ready" /\ creator[c].via = "fd"
                           /\ Open(a, creator[c].seg, expected, schema)
    /\ UNCHANGED <<name, seg, creator, tool>>

\* attach_consumer_state_: with the magic number there, the mapped size is
\* compared and the layout computed from the header.
AttachHeader(a) ==
    /\ attacher[a].pc = "waiting"
    /\ seg[attacher[a].seg].magic
    /\ LET f == seg[attacher[a].seg].fields
       IN  IF seg[attacher[a].seg].size # f.total
           THEN Leave(a)
           ELSE attacher' = [attacher EXCEPT ![a].pc = "hash", ![a].layout = FromHeader(f)]
    /\ UNCHANGED <<name, seg, creator, tool>>

\* The magic number did not appear within the attach timeout.
AttachTimeout(a) ==
    /\ attacher[a].pc = "waiting"
    /\ ~seg[attacher[a].seg].magic
    /\ Leave(a)
    /\ UNCHANGED <<name, seg, creator, tool>>

\* validate_header_layout_hash.
CheckHash(a) ==
    /\ attacher[a].pc = "hash"
    /\ IF seg[attacher[a].seg].hash
       THEN attacher' = [attacher EXCEPT ![a].pc = "sum"]
       ELSE Leave(a)
    /\ UNCHANGED <<name, seg, creator, tool>>

\* validate_attach_layout_and_config.
CheckLayout(a) ==
    /\ attacher[a].pc = "sum"
    /\ LET s == seg[attacher[a].seg]
       IN  IF /\ s.sum = s.fields
              /\ attacher[a].config # NoConfig => ConfigMatches(s.fields, attacher[a].config)
           THEN attacher' = [attacher EXCEPT ![a].pc = "schema"]
           ELSE Leave(a)
    /\ UNCHANGED <<name, seg, creator, tool>>

\* The schemas are compared when the attacher brings one; then it registers
\* its heartbeat and is attached.
CheckSchema(a) ==
    /\ attacher[a].pc = "schema"
    /\ IF attacher[a].schema \in {NoSchema, seg[attacher[a].seg].schema}
       THEN attacher' = [attacher EXCEPT ![a].pc = "attached"]
       ELSE Leave(a)
    /\ UNCHANGED <<name, seg, creator, tool>>

Detach(a) ==
    /\ attacher[a].pc = "attached"
    /\ Leave(a)
    /\ UNCHANGED <<name, seg, creator, tool>>

-----------------------------------------------------------------------------
(* The integrity tool, datablock_validate_integrity(name, repair) *)

\* verify_checksum_slot: the slot's bytes hash to the stored checksum.
VerifyChecksumSlot(s) == seg[s].data = "good"

\* update_checksum_slot: the checksum is recomputed from the bytes.
UpdateChecksumSlot(s) == [s EXCEPT !.data = "good"]

ToolEnds(result) ==
    tool' = [tool EXCEPT !.pc = "done", !.block = NoSeg, !.fresh = NoSeg, !.result = result]

\* open_datablock_for_diagnostic wants the magic number and does not wait for it.
ToolOpen(repair) ==
    /\ tool.pc = "idle"
    /\ IF ShmAttachable /\ (ShmAttachable => seg[name].magic)
       THEN tool' = [tool EXCEPT !.pc = "check", !.seg = name, !.repair = repair,
                                 !.result = IF seg[name].sum = seg[name].fields
                                            THEN "success" ELSE "failed"]
       ELSE ToolEnds("failed")
    /\ UNCHANGED <<name, seg, creator, attacher>>

\* It attaches as a consumer, by name again, expecting the configuration it
\* reads from the header, without a flexible zone.
ToolAttach ==
    /\ tool.pc = "check"
    /\ LET f == seg[tool.seg].fields
           expected == [cap |-> f.cap, flex |-> 0, unit |-> f.stride]
           fits == /\ seg[name].magic /\ seg[name].hash
                   /\ seg[name].sum = seg[name].fields
                   /\ seg[name].size = seg[name].fields.total
                   /\ ConfigMatches(seg[name].fields, expected)
       IN  IF name # NoSeg /\ (name # NoSeg => fits)
           THEN tool' = [tool EXCEPT !.pc = "verify", !.block = name]
           ELSE ToolEnds("failed")
    /\ UNCHANGED <<name, seg, creator, attacher>>

\* The slot checksums are verified on the consumer's mapping.
ToolVerify ==
    /\ tool.pc = "verify"
    /\ \/ VerifyChecksumSlot(tool.block) /\ ToolEnds(tool.result)
       \/ ~VerifyChecksumSlot(tool.block) /\ ~tool.repair /\ ToolEnds("failed")
       \/ /\ ~VerifyChecksumSlot(tool.block) /\ tool.repair
          /\ tool' = [tool EXCEPT !.pc = "repair"]
    /\ UNCHANGED <<name, seg, creator, attacher>>

\* The repair makes a producer to update the checksum with.  The producer is
\* created under the name: the name is unlinked and a fresh segment takes it;
\* the checksum is updated there.
ToolRepair ==
    /\ tool.pc = "repair"
    /\ Alone
    /\ \E s \in Fresh :
          /\ seg' = [seg EXCEPT ![s] =
                UpdateChecksumSlot([seg[tool.block] EXCEPT !.schema = NoSchema])]
          /\ name' = s
          /\ tool' = [tool EXCEPT !.pc = "close", !.fresh = s]
    /\ UNCHANGED <<creator, attacher>>

\* The producer's destructor unlinks the name.
ToolClose ==
    /\ tool.pc = "close"
    /\ name' = NoSeg
    /\ ToolEnds(tool.result)
    /\ UNCHANGED <<seg, creator, attacher>>

-----------------------------------------------------------------------------
CreatorStep(c) ==
    \/ ShmOpen(c) \/ ShmSize(c) \/ ShmFails(c) \/ InitFields(c) \/ SetMagic(c)
    \/ StoreHash(c) \/ StoreSum(c) \/ StoreSchema(c) \/ Destroy(c) \/ CreatorDies(c)
    \/ /\ creator[c].pc = "idle"
       /\ \E config \in Configs, schema \in Schemas \cup {NoSchema} :
             \/ CreateNamed(c, config, schema)
             \/ \E size \in {FromConfig(x).total : x \in Configs} :
                   CreateFromFd(c, config, schema, size)

AttacherStep(a) ==
    \/ AttachHeader(a) \/ AttachTimeout(a) \/ CheckHash(a) \/ CheckLayout(a)
    \/ CheckSchema(a) \/ Detach(a)
    \/ /\ attacher[a].pc = "idle"
       /\ \E expected \in Configs \cup {NoConfig}, schema \in Schemas \cup {NoSchema} :
             AttachByName(a, expected, schema) \/ AttachByFd(a, expected, schema)

ToolStep ==
    \/ \E repair \in BOOLEAN : ToolOpen(repair)
    \/ ToolAttach \/ ToolVerify \/ ToolRepair \/ ToolClose

Next ==
    \/ \E c \in Creators : CreatorStep(c)
    \/ \E a \in Attachers : AttacherStep(a)
    \/ ToolStep
    \/ \E s \in Segs : Damage(s)

Spec == Init /\ [][Next]_blockLifeVars

-----------------------------------------------------------------------------
(* Properties *)

\* An attached process works with the layout its segment's creator computed
\* from the configuration, the areas of that layout are disjoint and inside the
\* mapping, and what the attacher demanded (a configuration, a schema) is what
\* the creator meant: however attaching interleaves with the initialisation of
\* the header, which goes on after the magic number is visible.
AttachedAgree ==
    \A a \in Attachers : attacher[a].pc = "attached" =>
        LET s == seg[attacher[a].seg]
        IN  /\ LayoutValid(attacher[a].layout)
            /\ attacher[a].layout.total = s.size
            /\ attacher[a].config # NoConfig =>
                  attacher[a].layout = FromConfig(attacher[a].config)
            /\ \A c \in Creators : creator[c].seg = attacher[a].seg =>
                  /\ attacher[a].layout = FromConfig(creator[c].config)
                  /\ attacher[a].schema \in {NoSchema, creator[c].schema}

\* A repair that reports success has repaired the block it was asked about: the
\* checksums of the block it opened match its slots.
RepairKeepsBlock ==
    (tool.pc = "done" /\ tool.result = "success" /\ tool.seg # NoSeg) =>
        seg[tool.seg].data = "good"
====
