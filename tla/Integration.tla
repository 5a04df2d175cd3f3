----------------------------- MODULE Integration -----------------------------
(***************************************************************************)
(* vesma integration: the pack deployed into one agent harness.  Stamped    *)
(* files, byte-identical schemas with a stamped sidecar manifest, a block   *)
(* in the user's AGENTS.md, and the server entry in the harness's MCP       *)
(* configuration.  A command is killed anywhere; plain files are truncated  *)
(* and then written, the others are replaced whole.  Between commands the   *)
(* user edits everything and the package is upgraded.  Files of one kind    *)
(* are taken in any order.                                                  *)
(***************************************************************************)
EXTENDS Naturals, FiniteSets

CONSTANTS
  Files,          \* destinations in the deploy directories
  Schemas,        \* schema files of the pack
  PackOf,         \* version -> the files its pack ships
  MaxVersion,     \* versions are 1..MaxVersion, each with its own bytes
  MaxEdits, MaxCrashes  \* bounds

Versions == 1..MaxVersion

\* What the theorem assumes of the packs.
LimitsOK == MaxVersion \in Nat \ {0} /\ PackOf \in [Versions -> SUBSET Files]

\* What a file holds: a version's bytes, or one of these.
Absent == 0
User   == MaxVersion + 1   \* the user's own text
Opaque == MaxVersion + 2   \* the user's, not valid UTF-8
Torn   == MaxVersion + 3   \* truncated by a write that has not finished
Bodies == 0..Torn
Unstamped == 0

VARIABLES
  version,   \* the installed package
  disk,      \* file -> [body, stamp, legacy]
  schema,    \* schema -> body
  manifest,  \* [stamp, legacy]: the sidecar and its pre-rename namesake, stamp 0 if absent
  block,     \* [ver, form]: the block in AGENTS.md, ver 0 if there is none
  mcp,       \* [vesma, mnemos]: the server entries "none", "ours", "foreign"
  format,    \* "json" or "toml"
  cmd,       \* the running command: [kind, phase, todo, torn]
  settled,   \* ghost: last command if it finished undisturbed, else "none"
  edits, crashes

ivars == <<version, disk, schema, manifest, block, mcp, format, cmd, settled, edits, crashes>>

NoFile == [body |-> Absent, stamp |-> Unstamped, legacy |-> FALSE]
NoBlock == [ver |-> 0, form |-> "new"]
Idle == [kind |-> "idle", phase |-> "none", todo |-> {}, torn |-> {}]

TypeOK ==
  /\ version \in Versions /\ schema \in [Schemas -> Bodies]
  /\ disk \in [Files -> [body : Bodies, stamp : 0..MaxVersion, legacy : BOOLEAN]]
  /\ \A f \in Files : disk[f].body \in {Absent, Torn, Opaque} => disk[f].stamp = Unstamped
  /\ manifest \in [stamp : 0..MaxVersion, legacy : 0..MaxVersion]
  /\ block \in [ver : 0..MaxVersion, form : {"new", "legacy", "drifted"}]
  /\ mcp \in [{"vesma", "mnemos"} -> {"none", "ours", "foreign"}]
  /\ cmd.kind \in {"idle", "setup", "update", "uninstall"} /\ Cardinality(cmd.torn) <= 1
  /\ cmd.phase \in {"none", "files", "schemas", "manifest", "block", "mcp", "orphans"}

\* A clean harness, or one deployed by a pack of the previous brand.
Init ==
  /\ version = 1 /\ format \in {"json", "toml"}
  /\ \/ /\ disk = [f \in Files |-> NoFile] /\ schema = [s \in Schemas |-> Absent]
        /\ manifest = [stamp |-> 0, legacy |-> 0]
        /\ block = NoBlock /\ mcp = [k \in {"vesma", "mnemos"} |-> "none"]
     \/ /\ disk = [f \in Files |-> [body |-> 1, stamp |-> 1, legacy |-> TRUE]]
        /\ schema = [s \in Schemas |-> 1] /\ manifest = [stamp |-> 0, legacy |-> 1]
        /\ block = [ver |-> 1, form |-> "legacy"]
        /\ mcp = [k \in {"vesma", "mnemos"} |-> IF k = "vesma" THEN "none" ELSE "ours"]
  /\ cmd = Idle /\ settled = "none" /\ edits = 0 /\ crashes = 0

Pack == PackOf[version]

-----------------------------------------------------------------------------
(* verify *)

verify_file(f) ==
  CASE disk[f].body = Absent -> "MISSING"
    [] disk[f].stamp = Unstamped -> "SKIPPED"
    [] disk[f].stamp # version -> "STALE"
    [] disk[f].legacy -> "OLD_STAMP"
    [] OTHER -> "CURRENT"

\* The current manifest is read, else the one under the old name.
ManifestStamp == IF manifest.stamp # 0 THEN manifest.stamp ELSE manifest.legacy

verify_manifest ==
  CASE ManifestStamp = 0 -> "MISSING"
    [] ManifestStamp # version -> "STALE"
    [] manifest.legacy # 0 -> "OLD_STAMP"
    [] OTHER -> "CURRENT"

verify_schema(s) ==
  CASE schema[s] = Absent -> "MISSING"
    [] schema[s] # version -> "STALE"
    [] ManifestStamp = 0 -> "SKIPPED"
    [] ManifestStamp # version -> "STALE"
    [] OTHER -> "CURRENT"

verify_block ==
  CASE block.ver = 0 -> "MISSING"
    [] block.ver # version -> "STALE"
    [] block.form = "legacy" -> "OLD_STAMP"
    [] block.form = "drifted" -> "STALE"
    [] OTHER -> "CURRENT"

\* Stamped files the pack does not ship (any more).
OrphanFiles == {f \in Files \ Pack : disk[f].stamp # Unstamped}

-----------------------------------------------------------------------------
(* The commands. *)

Deploying(phase) == cmd.kind \in {"setup", "update"} /\ cmd.phase = phase
Removing(phase) == cmd.kind = "uninstall" /\ cmd.phase = phase
Goto(phase, todo) == cmd' = [cmd EXCEPT !.phase = phase, !.todo = todo]
Finish == cmd' = Idle /\ settled' = cmd.kind

Start(kind) ==
  /\ cmd = Idle
  /\ cmd' = [kind |-> kind, phase |-> "files", torn |-> {},
             todo |-> IF kind = "uninstall" THEN Files ELSE Pack]
  /\ settled' = "none"
  /\ UNCHANGED <<version, disk, schema, manifest, block, mcp, format, edits, crashes>>

\* A phase whose files are done: the next one, in the order of the code.
NextPhase ==
  /\ cmd.kind # "idle" /\ cmd.todo = {} /\ cmd.torn = {} /\ cmd.phase \in {"files", "schemas", "orphans"}
  /\ CASE Deploying("files") -> Goto("schemas", Schemas) /\ UNCHANGED settled
       [] Removing("files") -> Goto("manifest", {}) /\ UNCHANGED settled
       [] Deploying("schemas") -> Goto("manifest", {}) /\ UNCHANGED settled
       [] Removing("schemas") -> Goto("block", {}) /\ UNCHANGED settled
       [] Deploying("orphans") -> Finish
  /\ UNCHANGED <<version, disk, schema, manifest, block, mcp, format, edits, crashes>>

\* Mutant: a file with the current stamp is taken for current.
FileIsCurrent_stamp(f) == disk[f].stamp = version
\* _deploy_file: the bytes are those of the stamped pack file
FileIsCurrent(f) == disk[f] = [body |-> version, stamp |-> version, legacy |-> FALSE]

\* A current or an undecodable file is left; any other is truncated ...
DeployFile(f) ==
  /\ Deploying("files") /\ f \in cmd.todo /\ cmd.torn = {}
  /\ IF FileIsCurrent(f) \/ disk[f].body = Opaque
       THEN disk' = disk /\ cmd' = [cmd EXCEPT !.todo = @ \ {f}]
       ELSE /\ disk' = [disk EXCEPT ![f] = [NoFile EXCEPT !.body = Torn]]
            /\ cmd' = [cmd EXCEPT !.todo = @ \ {f}, !.torn = {f}]
  /\ UNCHANGED <<version, schema, manifest, block, mcp, format, settled, edits, crashes>>

\* ... and written.
WriteFile(f) ==
  /\ Deploying("files") /\ f \in cmd.torn
  /\ disk' = [disk EXCEPT ![f] = [body |-> version, stamp |-> version, legacy |-> FALSE]]
  /\ cmd' = [cmd EXCEPT !.torn = {}]
  /\ UNCHANGED <<version, schema, manifest, block, mcp, format, settled, edits, crashes>>

\* _deploy_schemas: byte-identical, under a manifest of this version
SchemaIsCurrent(s) == schema[s] = version /\ ManifestStamp = version

DeploySchema(s) ==
  /\ Deploying("schemas") /\ s \in cmd.todo /\ cmd.torn = {}
  /\ IF SchemaIsCurrent(s)
       THEN schema' = schema /\ cmd' = [cmd EXCEPT !.todo = @ \ {s}]
       ELSE /\ schema' = [schema EXCEPT ![s] = Torn]
            /\ cmd' = [cmd EXCEPT !.todo = @ \ {s}, !.torn = {s}]
  /\ UNCHANGED <<version, disk, manifest, block, mcp, format, settled, edits, crashes>>

WriteSchema(s) ==
  /\ Deploying("schemas") /\ s \in cmd.torn
  /\ schema' = [schema EXCEPT ![s] = version]
  /\ cmd' = [cmd EXCEPT !.torn = {}]
  /\ UNCHANGED <<version, disk, manifest, block, mcp, format, settled, edits, crashes>>

\* The manifest is written after the schemas it vouches for; the one under the old
\* name is unlinked once the new one is in place.
WriteManifest ==
  /\ Deploying("manifest")
  /\ IF ManifestStamp = version /\ manifest.legacy = 0
       THEN Goto("block", {}) /\ UNCHANGED manifest
     ELSE IF manifest.stamp # version
       THEN manifest' = [manifest EXCEPT !.stamp = version] /\ UNCHANGED cmd
       ELSE manifest' = [manifest EXCEPT !.legacy = 0] /\ Goto("block", {})
  /\ UNCHANGED <<version, disk, schema, block, mcp, format, settled, edits, crashes>>

\* _assemble_agents_md_file: rendered anew, in place of the one found or at the end
NewBlock == [ver |-> version, form |-> "new"]

DeployBlock ==
  /\ Deploying("block")
  /\ block' = NewBlock
  /\ IF cmd.kind = "setup" THEN Goto("mcp", {}) ELSE Goto("orphans", Files \ Pack)
  /\ UNCHANGED <<version, disk, schema, manifest, mcp, format, settled, edits, crashes>>

\* The JSON merge moves an entry under the old key without asking whose it is; the
\* TOML merge moves it only if it is ours.  An entry under the new key is taken over.
register_mcp ==
  LET moves == /\ mcp["vesma"] = "none"
               /\ IF format = "json" THEN mcp["mnemos"] # "none" ELSE mcp["mnemos"] = "ours"
  IN  [k \in {"vesma", "mnemos"} |->
         IF k = "vesma" THEN "ours" ELSE IF moves THEN "none" ELSE mcp[k]]

RegisterMcp ==
  /\ Deploying("mcp")
  /\ mcp' = register_mcp
  /\ Finish
  /\ UNCHANGED <<version, disk, schema, manifest, block, format, edits, crashes>>

\* Mutant: every file the pack does not ship is removed.
IsOrphan_unstamped(f) == disk[f].body # Absent
IsOrphan(f) == disk[f].stamp # Unstamped

RemoveOrphan(f) ==
  /\ Deploying("orphans") /\ f \in cmd.todo
  /\ disk' = IF IsOrphan(f) THEN [disk EXCEPT ![f] = NoFile] ELSE disk
  /\ cmd' = [cmd EXCEPT !.todo = @ \ {f}]
  /\ UNCHANGED <<version, schema, manifest, block, mcp, format, settled, edits, crashes>>

UninstallFile(f) ==
  /\ Removing("files") /\ f \in cmd.todo
  /\ disk' = IF disk[f].stamp # Unstamped THEN [disk EXCEPT ![f] = NoFile] ELSE disk
  /\ cmd' = [cmd EXCEPT !.todo = @ \ {f}]
  /\ UNCHANGED <<version, schema, manifest, block, mcp, format, settled, edits, crashes>>

\* Both manifests go first, one unlink each.
UninstallManifest ==
  /\ Removing("manifest")
  /\ IF manifest.stamp # 0
       THEN manifest' = [manifest EXCEPT !.stamp = 0] /\ UNCHANGED cmd
       ELSE manifest' = [manifest EXCEPT !.legacy = 0] /\ Goto("schemas", Schemas)
  /\ UNCHANGED <<version, disk, schema, block, mcp, format, settled, edits, crashes>>

\* byte-identity with the current pack
SchemaIsOurs(s) == schema[s] = version

UninstallSchema(s) ==
  /\ Removing("schemas") /\ s \in cmd.todo
  /\ schema' = IF SchemaIsOurs(s) THEN [schema EXCEPT ![s] = Absent] ELSE schema
  /\ cmd' = [cmd EXCEPT !.todo = @ \ {s}]
  /\ UNCHANGED <<version, disk, manifest, block, mcp, format, settled, edits, crashes>>

\* strip_agents_md_block
UninstallBlock ==
  /\ Removing("block")
  /\ block' = NoBlock
  /\ Goto("mcp", {})
  /\ UNCHANGED <<version, disk, schema, manifest, mcp, format, settled, edits, crashes>>

\* An entry under either key goes if it is ours.
unregister_mcp == [k \in {"vesma", "mnemos"} |-> IF mcp[k] = "ours" THEN "none" ELSE mcp[k]]

UnregisterMcp ==
  /\ Removing("mcp")
  /\ mcp' = unregister_mcp
  /\ Finish
  /\ UNCHANGED <<version, disk, schema, manifest, block, format, edits, crashes>>

\* The command is killed: a file being written stays truncated, _atomic_write_text
\* leaves the old content.
Crash ==
  /\ cmd # Idle /\ crashes < MaxCrashes /\ crashes' = crashes + 1
  /\ cmd' = Idle
  /\ UNCHANGED <<version, disk, schema, manifest, block, mcp, format, settled, edits>>

-----------------------------------------------------------------------------
(* Between commands. *)

Between == cmd = Idle /\ edits < MaxEdits /\ edits' = edits + 1 /\ settled' = "none"

\* The user writes a file of their own over or beside ours, edits below our stamp,
\* or removes it.
EditFile(f) ==
  /\ Between
  /\ \E new \in {[NoFile EXCEPT !.body = User], [NoFile EXCEPT !.body = Opaque], NoFile}
                \cup {d \in {[disk[f] EXCEPT !.body = User]} : d.stamp # Unstamped} :
       new # disk[f] /\ disk' = [disk EXCEPT ![f] = new]
  /\ UNCHANGED <<version, schema, manifest, block, mcp, format, cmd, crashes>>

EditSchema(s) ==
  /\ Between /\ \E b \in {User, Absent} : schema' = [schema EXCEPT ![s] = b]
  /\ UNCHANGED <<version, disk, manifest, block, mcp, format, cmd, crashes>>

EditBlock ==
  /\ Between /\ block.ver # 0
  /\ block' \in {NoBlock, [block EXCEPT !.form = "drifted"]}
  /\ UNCHANGED <<version, disk, schema, manifest, mcp, format, cmd, crashes>>

EditMcp(k) ==
  /\ Between /\ \E e \in {"none", "foreign"} : mcp' = [mcp EXCEPT ![k] = e]
  /\ UNCHANGED <<version, disk, schema, manifest, block, format, cmd, crashes>>

Upgrade ==
  /\ Between /\ version < MaxVersion /\ version' = version + 1
  /\ UNCHANGED <<disk, schema, manifest, block, mcp, format, cmd, crashes>>

Next ==
  \/ \E kind \in {"setup", "update", "uninstall"} : Start(kind)
  \/ \E f \in Files : \/ DeployFile(f) \/ WriteFile(f) \/ RemoveOrphan(f) \/ UninstallFile(f)
                      \/ EditFile(f)
  \/ \E s \in Schemas : DeploySchema(s) \/ WriteSchema(s) \/ UninstallSchema(s) \/ EditSchema(s)
  \/ NextPhase \/ WriteManifest \/ DeployBlock \/ RegisterMcp
  \/ UninstallManifest \/ UninstallBlock \/ UnregisterMcp
  \/ \E k \in {"vesma", "mnemos"} : EditMcp(k)
  \/ Crash \/ EditBlock \/ Upgrade

Spec == Init /\ [][Next]_ivars

-----------------------------------------------------------------------------
\* Whatever an earlier run left behind (a torn file, a manifest of another version,
\* schemas without one, edits), one undisturbed setup or update makes verify call
\* everything current, undecodable files aside, and update leaves no orphan.
SettledIsCurrent ==
  settled \in {"setup", "update"} =>
    /\ \A f \in Pack : disk[f].body # Opaque => verify_file(f) = "CURRENT" /\ disk[f].body = version
    /\ \A s \in Schemas : verify_schema(s) = "CURRENT"
    /\ verify_manifest = "CURRENT" /\ verify_block = "CURRENT"
    /\ settled = "update" => OrphanFiles = {}

\* An undisturbed uninstall leaves nothing that verify or the harness would still
\* take for ours, after any history of crashes and upgrades.
SettledIsGone ==
  settled = "uninstall" =>
    /\ \A f \in Files : disk[f].stamp = Unstamped
    /\ \A s \in Schemas : verify_schema(s) # "CURRENT" /\ schema[s] # version
    /\ ManifestStamp = 0 /\ block.ver = 0 /\ \A k \in {"vesma", "mnemos"} : mcp[k] # "ours"

\* No command touches what is the user's alone: a file without a stamp that the pack
\* does not ship, a schema that is not the pack's when uninstalling.
SparesStep ==
  cmd # Idle =>
    /\ \A f \in Files \ Pack : disk[f].body \in {User, Opaque} /\ disk[f].stamp = Unstamped
                                 => disk'[f] = disk[f]
    /\ cmd.kind = "uninstall" => \A s \in Schemas : schema[s] = User => schema'[s] = User

\* What an undisturbed command promises: a current pack, or none.
IntegrationSafe ==
  /\ TypeOK /\ SettledIsCurrent /\ SettledIsGone
=============================================================================
