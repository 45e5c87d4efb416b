------------------------------- MODULE Vault -------------------------------
(***************************************************************************)
(* The encrypted vaults and the commands that write them (HubVault,        *)
(* RoleVault, vault_crypto.cpp, KnownRolesStore, the --keygen and          *)
(* known-role modes of plh_hub and plh_role).                              *)
(*                                                                         *)
(* A vault file holds a keypair and, in the hub, the allowlist of known    *)
(* roles.  --keygen creates it with O_EXCL and publishes the public key in *)
(* a second file; the known-role commands read it, edit the list in memory *)
(* and replace the file by rename.  --migrate-known-roles imports a legacy *)
(* plaintext list and then deletes it.  Starting the hub or a role only    *)
(* reads.  Every command is a process of its own, may crash between any    *)
(* two system calls, and takes no lock.  Encryption is abstracted to its   *)
(* outcome: a file opens when it is whole and its payload fits the 4096    *)
(* bytes open() reads it into.                                             *)
(***************************************************************************)
EXTENDS Naturals, FiniteSets

CONSTANTS Commands,      \* processes an operator starts
          Uids, Keys,    \* role uids and public keys
          LegacyRoles,   \* contents of the plaintext file
          Capacity,      \* roles whose payload fits the buffer of open()
          Overlap,       \* two commands may run at the same time
          MaxRuns        \* commands started in one behaviour

VARIABLES vault,     \* "hub" and "role": the two vault files
          temp,      \* the pid-named temporary file of each command
          pubkey,    \* hub.pubkey
          legacy,    \* the plaintext file exists
          cmd,       \* per process: the command, its step, what it read
          started,   \* number of commands started
          promised,  \* history: roles successful commands left in the list
          withdrawn, \* history: uids a successful revoke took out
          spared     \* history: legacy roles no command has named since

vaultVars == <<vault, temp, pubkey, legacy, cmd, started, promised, withdrawn,
               spared>>

Files == {"hub", "role"}
Absent == [state |-> "absent", key |-> 0, roles |-> {}]
Torn == [state |-> "torn", key |-> 0, roles |-> {}]
Holding(key, roles) == [state |-> "whole", key |-> key, roles |-> roles]
Idle == [op |-> "none", uid |-> "", key |-> "", pc |-> "idle", mem |-> Absent]
Named(roles) == {r[1] : r \in roles}

VaultInit ==
    /\ vault = [f \in Files |-> Absent]
    /\ temp = [p \in Commands |-> Absent]
    /\ pubkey = Absent
    /\ legacy \in BOOLEAN
    /\ cmd = [p \in Commands |-> Idle]
    /\ started = 0
    /\ promised = {}
    /\ withdrawn = {}
    /\ spared = (IF legacy THEN LegacyRoles ELSE {})

At(p, pc) == cmd[p].pc = pc
Goto(p, pc) == cmd' = [cmd EXCEPT ![p].pc = pc]
FileOf(p) == IF cmd[p].op \in {"keygenrole", "runrole"} THEN "role" ELSE "hub"
Without(roles, uid) == {r \in roles : r[1] # uid}

\* The command returns 1.
Fail(p) ==
    /\ cmd' = [cmd EXCEPT ![p] = Idle]
    /\ UNCHANGED <<vault, pubkey, legacy, started, promised, withdrawn, spared>>

-----------------------------------------------------------------------------
(* Starting a command                                                      *)

Start(p, op, uid, key) ==
    /\ At(p, "idle")
    /\ started < MaxRuns
    /\ started' = started + 1
    /\ Overlap \/ \A q \in Commands : At(q, "idle")
    /\ cmd' = [cmd EXCEPT ![p] =
           [op |-> op, uid |-> uid, key |-> key, mem |-> Absent,
            pc |-> IF op \in {"keygenhub", "keygenrole"} THEN "check" ELSE "open"]]
    /\ promised' = Without(promised, uid)
    /\ withdrawn' = (IF op = "migrate" THEN {} ELSE withdrawn \ {uid})
    /\ spared' = Without(spared, uid)
    /\ UNCHANGED <<vault, temp, pubkey, legacy>>

StartSome(p) ==
    \/ \E op \in {"keygenhub", "keygenrole", "runhub", "runrole", "list", "migrate"} :
           Start(p, op, "", "")
    \/ \E u \in Uids : Start(p, "revoke", u, "")
    \/ \E u \in Uids, k \in Keys : Start(p, "add", u, k)

\* The process dies; what it wrote stays.
Crash(p) ==
    /\ ~At(p, "idle")
    /\ cmd' = [cmd EXCEPT ![p] = Idle]
    /\ UNCHANGED <<vault, temp, pubkey, legacy, started, promised, withdrawn,
                   spared>>

\* The documented way to a new keypair: the operator removes the file.
RemoveVault(f) ==
    /\ \A p \in Commands : At(p, "idle")
    /\ vault[f] # Absent
    /\ vault' = [vault EXCEPT ![f] = Absent]
    /\ promised' = (IF f = "hub" THEN {} ELSE promised)
    /\ withdrawn' = (IF f = "hub" THEN {} ELSE withdrawn)
    /\ spared' = (IF f = "hub" /\ ~legacy THEN {} ELSE spared)
    /\ UNCHANGED <<temp, pubkey, legacy, cmd, started>>

-----------------------------------------------------------------------------
(* --keygen                                                                *)

\* create_keypair of both configurations: an existing file is never replaced.
CreateKeypair(p) ==
    /\ At(p, "check")
    /\ IF vault[FileOf(p)] = Absent
         THEN /\ Goto(p, "create")
              /\ UNCHANGED <<vault, pubkey, legacy, started, promised,
                             withdrawn, spared>>
         ELSE Fail(p)
    /\ UNCHANGED temp

\* write_secure_file: O_CREAT | O_EXCL, then the bytes.
CreateExclusive(p) ==
    /\ At(p, "create")
    /\ IF vault[FileOf(p)] = Absent
         THEN /\ vault' = [vault EXCEPT ![FileOf(p)] = Torn]
              /\ Goto(p, "write")
              /\ UNCHANGED <<pubkey, legacy, started, promised, withdrawn, spared>>
         ELSE Fail(p)
    /\ UNCHANGED temp

\* The payload of create(): fresh keys, and for the hub an empty list.
FreshPayload == Holding(started, {})

\* A failed write unlinks the file.
WriteFresh(p) ==
    /\ At(p, "write")
    /\ \/ /\ vault' = [vault EXCEPT ![FileOf(p)] = FreshPayload]
          /\ cmd' = [cmd EXCEPT ![p].mem = FreshPayload,
                                ![p].pc = IF FileOf(p) = "hub" THEN "clear" ELSE "done"]
       \/ /\ vault' = [vault EXCEPT ![FileOf(p)] = Absent]
          /\ cmd' = [cmd EXCEPT ![p] = Idle]
    /\ UNCHANGED <<temp, pubkey, legacy, started, promised, withdrawn, spared>>

\* publish_public_key: remove, create with O_EXCL, write.
ClearPublished(p) ==
    /\ At(p, "clear")
    /\ pubkey' = Absent
    /\ Goto(p, "publish")
    /\ UNCHANGED <<vault, temp, legacy, started, promised, withdrawn, spared>>

PublishPublicKey(p) ==
    /\ At(p, "publish")
    /\ \/ /\ pubkey = Absent
          /\ pubkey' = Torn
          /\ Goto(p, "fill")
          /\ UNCHANGED <<vault, legacy, started, promised, withdrawn, spared>>
       \/ /\ pubkey # Absent
          /\ Fail(p)
    /\ UNCHANGED temp

FillPublished(p) ==
    /\ At(p, "fill")
    /\ \/ /\ pubkey' = Holding(cmd[p].mem.key, {})
          /\ Goto(p, "done")
       \/ /\ pubkey' = Absent
          /\ cmd' = [cmd EXCEPT ![p] = Idle]
    /\ UNCHANGED <<vault, temp, legacy, started, promised, withdrawn, spared>>

-----------------------------------------------------------------------------
(* Opening                                                                 *)

\* vault_read_secure and the parse that follows it.
Opens(file) == file.state = "whole" /\ Cardinality(file.roles) <= Capacity

\* HubVault::open for a command that edits or lists; RoleVault::open and
\* HubVault::open under load_keypair for a starting role or hub.  A hub refuses
\* to start while the plaintext file is there.
OpenToEdit(p) ==
    /\ cmd[p].op \in {"add", "revoke", "migrate", "list"}
    /\ cmd' = [cmd EXCEPT ![p].mem = vault["hub"],
                          ![p].pc = IF cmd[p].op = "list" THEN "done" ELSE "edit"]

LoadKeypairHub(p) ==
    /\ cmd[p].op = "runhub"
    /\ cmd' = [cmd EXCEPT ![p] = IF legacy THEN Idle ELSE [@ EXCEPT !.pc = "done"]]

LoadKeypairRole(p) ==
    /\ cmd[p].op = "runrole"
    /\ Goto(p, "done")

OpenVault(p) ==
    /\ At(p, "open")
    /\ IF Opens(vault[FileOf(p)])
         THEN /\ OpenToEdit(p) \/ LoadKeypairHub(p) \/ LoadKeypairRole(p)
              /\ UNCHANGED <<vault, pubkey, legacy, started, promised, withdrawn,
                             spared>>
         ELSE Fail(p)
    /\ UNCHANGED temp

-----------------------------------------------------------------------------
(* Editing the allowlist                                                   *)

\* enforce_unique_pubkey_invariant: one key for one uid.
KeyTaken(roles, uid, key) == \E r \in roles : r[1] # uid /\ r[2] = key

\* KnownRolesStore::add replaces the entry of the uid; remove erases it.
Added(roles, uid, key) == Without(roles, uid) \cup {<<uid, key>>}

SetRoles(p, roles) ==
    /\ cmd' = [cmd EXCEPT ![p].mem.roles = roles, ![p].pc = "temp"]
    /\ UNCHANGED <<vault, pubkey, legacy, started, promised, withdrawn, spared>>

AddKnownRole(p) ==
    /\ At(p, "edit")
    /\ cmd[p].op = "add"
    /\ IF KeyTaken(cmd[p].mem.roles, cmd[p].uid, cmd[p].key)
         THEN Fail(p)
         ELSE SetRoles(p, Added(cmd[p].mem.roles, cmd[p].uid, cmd[p].key))
    /\ UNCHANGED temp

\* Revoking a uid that is not there leaves the vault untouched and succeeds.
RevokeKnownRole(p) ==
    /\ At(p, "edit")
    /\ cmd[p].op = "revoke"
    /\ IF cmd[p].uid \in Named(cmd[p].mem.roles)
         THEN SetRoles(p, Without(cmd[p].mem.roles, cmd[p].uid))
         ELSE /\ Goto(p, "done")
              /\ UNCHANGED <<vault, pubkey, legacy, started, promised, withdrawn,
                             spared>>
    /\ UNCHANGED temp

\* Variant: the plaintext file is removed as soon as it is read.
MigrateRemovesFirst(p) ==
    /\ At(p, "edit")
    /\ cmd[p].op = "migrate"
    /\ legacy /\ cmd[p].mem.roles = {}
    /\ legacy' = FALSE
    /\ cmd' = [cmd EXCEPT ![p].mem.roles = LegacyRoles, ![p].pc = "temp"]
    /\ UNCHANGED <<vault, temp, pubkey, started, promised, withdrawn, spared>>

\* The import needs the file and an empty list.
MigrateKnownRoles(p) ==
    /\ At(p, "edit")
    /\ cmd[p].op = "migrate"
    /\ IF legacy /\ cmd[p].mem.roles = {}
         THEN SetRoles(p, LegacyRoles)
         ELSE Fail(p)
    /\ UNCHANGED temp

\* HubVault::save: clear a stale temporary file, create it, write it ...
SaveCreates(p) ==
    /\ At(p, "temp")
    /\ temp' = [temp EXCEPT ![p] = Torn]
    /\ Goto(p, "save")
    /\ UNCHANGED <<vault, pubkey, legacy, started, promised, withdrawn, spared>>

SaveWrites(p) ==
    /\ At(p, "save")
    /\ \/ /\ temp' = [temp EXCEPT ![p] = cmd[p].mem]
          /\ Goto(p, "rename")
       \/ /\ temp' = [temp EXCEPT ![p] = Absent]
          /\ cmd' = [cmd EXCEPT ![p] = Idle]
    /\ UNCHANGED <<vault, pubkey, legacy, started, promised, withdrawn, spared>>

\* ... and rename it over the vault.
SaveRenames(p) ==
    /\ At(p, "rename")
    /\ vault' = [vault EXCEPT !["hub"] = temp[p]]
    /\ temp' = [temp EXCEPT ![p] = Absent]
    /\ Goto(p, IF cmd[p].op = "migrate" THEN "unlink" ELSE "done")
    /\ UNCHANGED <<pubkey, legacy, started, promised, withdrawn, spared>>

\* fs::remove of the plaintext file; a failure is reported with exit code 1.
RemoveLegacy(p) ==
    /\ At(p, "unlink")
    /\ \/ /\ legacy' = FALSE
          /\ Goto(p, "done")
          /\ UNCHANGED <<vault, pubkey, started, promised, withdrawn, spared>>
       \/ Fail(p)
    /\ UNCHANGED temp

\* The command reports success.
Succeed(p) ==
    /\ At(p, "done")
    /\ cmd' = [cmd EXCEPT ![p] = Idle]
    /\ promised' = CASE cmd[p].op = "add" -> Added(promised, cmd[p].uid, cmd[p].key)
                     [] cmd[p].op = "migrate" -> promised \cup LegacyRoles
                     [] OTHER -> promised
    /\ withdrawn' = (IF cmd[p].op = "revoke" THEN withdrawn \cup {cmd[p].uid} ELSE withdrawn)
    /\ UNCHANGED <<vault, temp, pubkey, legacy, started, spared>>

-----------------------------------------------------------------------------
CommandSteps(p) ==
    \/ CreateKeypair(p)
    \/ CreateExclusive(p)
    \/ WriteFresh(p)
    \/ ClearPublished(p)
    \/ PublishPublicKey(p)
    \/ FillPublished(p)
    \/ OpenVault(p)
    \/ AddKnownRole(p)
    \/ RevokeKnownRole(p)
    \/ MigrateKnownRoles(p)
    \/ SaveCreates(p)
    \/ SaveWrites(p)
    \/ SaveRenames(p)
    \/ RemoveLegacy(p)
    \/ Succeed(p)

VaultNext ==
    \/ \E p \in Commands : StartSome(p) \/ CommandSteps(p) \/ Crash(p)
    \/ \E f \in Files : RemoveVault(f)

VaultSpec == VaultInit /\ [][VaultNext]_vaultVars

-----------------------------------------------------------------------------
(* Properties                                                              *)

\* What a successful command reported stays true across later commands and
\* crashes between any two system calls: an added role is in the vault until a
\* command names its uid, a revoked one is not, no two uids share a key, and a
\* role of the plaintext file is in that file or in the vault.
VaultKeepsEdits ==
    /\ promised # {} => promised \subseteq vault["hub"].roles
    /\ withdrawn \cap Named(vault["hub"].roles) = {}
    /\ \A r, q \in vault["hub"].roles : r[2] = q[2] => r[1] = q[1]
    /\ legacy \/ spared \subseteq vault["hub"].roles

\* A vault that was saved can be opened again ("fits comfortably under 4 KiB").
SavedVaultOpens ==
    vault["hub"].state = "whole" => Opens(vault["hub"])

\* The published key is the vault's.
PublishedMatchesVault ==
    (/\ \A p \in Commands : At(p, "idle")
     /\ pubkey.state = "whole" /\ vault["hub"].state = "whole")
        => pubkey.key = vault["hub"].key
=============================================================================
