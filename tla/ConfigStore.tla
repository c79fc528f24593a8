---------------------------- MODULE ConfigStore ----------------------------
(***************************************************************************)
(* The connection store of the bridge (store.rs, commands/connections.rs): *)
(* a configuration file and its backup, whose secrets are sealed with a    *)
(* master key that the credential store of the operating system keeps.     *)
(*                                                                         *)
(* Every function of store.rs runs under STORE_LOCK, so at most one call   *)
(* is under way; `run` is that call, a step at a time.  A mutating command *)
(* holds CONFIG_LOCK from its load to its save.  A filesystem or credential*)
(* store call may fail (at most MaxFaults times in one call), the program  *)
(* may be killed between any two steps, and the primary file may be lost.  *)
(*                                                                         *)
(* A staged file is whole before it is renamed and is overwritten by the   *)
(* next write, so it is not part of the state.  Of the files a migration   *)
(* has to get rid of the model keeps whether they hold secrets as text.    *)
(***************************************************************************)
EXTENDS Naturals, FiniteSets, Functions

CONSTANTS
    Ids,        \* connection ids
    Secrets,    \* connection strings with their custom environment
    Keys,       \* master keys
    Callers,    \* threads that run commands
    None,
    MaxFaults   \* failing calls in one store call

\* With a third failure the undoing of a failed undoing may lose a file.
ASSUME MaxFaultsAssumption == MaxFaults \in 0..2
ASSUME NoneAssumption == None \notin Ids \cup Secrets \cup Keys \cup Callers
\* The identifiers are not the name under which the active connection is reported.
ASSUME IdsAssumption == "active" \notin Ids

VARIABLES
    windows,    \* the platform: a rename over an existing file is two steps
    primary,    \* connections.json
    backup,     \* connections.json.bak
    side,       \* the file set aside on Windows, and those left by old versions
    vault,      \* the operating system's credential store
    cache,      \* MASTER_KEY_CACHE
    lock,       \* CONFIG_LOCK
    caller,     \* the command each thread is in
    run,        \* the call that holds STORE_LOCK
    fate,       \* what the user was last told of each connection
    told,       \* an error said that a rollback has failed
    sanitised   \* a full load of a configuration file has succeeded

files == <<primary, backup, side>>
vars == <<windows, files, vault, cache, lock, caller, run, fate, told, sanitised>>

-----------------------------------------------------------------------------
(* What a configuration file holds.                                        *)

Empty == [format |-> "encrypted", entries |-> << >>, active |-> None, key |-> None]

Partial(S, T) == UNION {[D -> T] : D \in SUBSET S}

Entries == [at : {"text", "bundle"}, secret : Secrets] \cup [at : {"ref"}, secret : {None}]

Configs == [format : {"plaintext", "perconnection", "encrypted"},
            entries : Partial(Ids, Entries),
            active : Ids \cup {None},
            key : Keys \cup {None}]

Missing == [Empty EXCEPT !.format = "missing"]
Invalid == [Empty EXCEPT !.format = "invalid"]

IsConfig(f) == f \notin {Missing, Invalid}

At(d, kind) == {i \in DOMAIN d.entries : d.entries[i].at = kind}

\* Whether the secrets of a file can be read.
Text(f) == IF IsConfig(f) /\ At(f, "text") # {} THEN "text" ELSE "sealed"

\* A secret, where its entry says it is.
SecretOf(d, i) ==
    CASE d.entries[i].at = "ref" -> IF i \in DOMAIN vault.refs THEN vault.refs[i] ELSE None
      [] OTHER -> d.entries[i].secret

\* persisted_config: every secret in one bundle sealed with the key.
Sealed(secrets, active, k) ==
    [format |-> "encrypted",
     entries |-> [i \in DOMAIN secrets |-> [at |-> "bundle", secret |-> secrets[i]]],
     active |-> active,
     key |-> IF DOMAIN secrets = {} THEN None ELSE k]

\* migrate_one_per_connection_entry and load_one_encrypted_connection: one
\* reference and every secret in text go to the bundle, the rest stay.
PartlySealed(d, target, k) ==
    [d EXCEPT !.format = "encrypted",
              !.key = k,
              !.entries = [i \in DOMAIN d.entries |->
                  IF i = target \/ d.entries[i].at = "text"
                  THEN [at |-> "bundle", secret |-> SecretOf(d, i)]
                  ELSE d.entries[i]]]

Hydrated(d) == [i \in DOMAIN d.entries |-> SecretOf(d, i)]

-----------------------------------------------------------------------------
(* The call that holds STORE_LOCK.                                         *)

Idle == [pc |-> "idle"]

Start(c, call, arg, config, touched) ==
    [pc |-> "disk", by |-> c, call |-> call, arg |-> arg, config |-> config,
     touched |-> touched, was |-> fate, disk |-> Empty, new |-> Empty,
     mode |-> "current", before |-> <<Missing, Missing>>, created |-> FALSE,
     refs |-> {}, todo |-> {}, failed |-> FALSE, faults |-> 0]

AtStep(pc) == run.pc = pc

\* The call goes on at pc; it does so after one of its own calls failed.
Goto(pc) == run' = [run EXCEPT !.pc = pc]
CanFail == run.faults < MaxFaults
FailTo(pc) == CanFail /\ run' = [run EXCEPT !.pc = pc, !.faults = @ + 1]

LeaveCommand(c) ==
    /\ caller' = [caller EXCEPT ![c] = Idle]
    /\ lock' = IF lock = c THEN None ELSE lock

ReturnErr == run' = Idle /\ LeaveCommand(run.by)

\* load returns to the command that called it, everything else to the user.
ReturnOk ==
    /\ run' = Idle
    /\ IF caller[run.by].pc = "loading"
       THEN /\ caller' = [caller EXCEPT ![run.by] = [pc |-> "loaded", config |-> run.config]]
            /\ UNCHANGED lock
       ELSE LeaveCommand(run.by)

Removed(f) == [side EXCEPT ![f] = "none"]

-----------------------------------------------------------------------------
(* load_disk_config: a primary that cannot be read, for whatever reason,   *)
(* is replaced by its backup.                                              *)

ReadDisk ==
    /\ AtStep("disk")
    /\ \/ /\ IsConfig(primary)
          /\ run' = [run EXCEPT !.pc = "dispatch", !.disk = primary]
          /\ UNCHANGED <<caller, lock>>
       \/ /\ primary = Missing /\ backup = Missing
          /\ run' = [run EXCEPT !.pc = "dispatch", !.disk = Empty]
          /\ UNCHANGED <<caller, lock>>
       \/ /\ IsConfig(backup)
          /\ (~IsConfig(primary) /\ Goto("recover")) \/ (IsConfig(primary) /\ FailTo("recover"))
          /\ UNCHANGED <<caller, lock>>
       \/ /\ CanFail \/ (~IsConfig(primary) /\ ~IsConfig(backup) /\ <<primary, backup>> # <<Missing, Missing>>)
          /\ ReturnErr
    /\ UNCHANGED <<windows, files, vault, cache, fate, told, sanitised>>

\* restore_primary_from_backup
Recover ==
    /\ AtStep("recover")
    /\ \/ /\ windows /\ primary # Missing
          /\ primary' = Missing
          /\ UNCHANGED <<run, caller, lock>>
       \/ /\ ~windows \/ primary = Missing
          /\ primary' = backup
          /\ run' = [run EXCEPT !.pc = "dispatch", !.disk = backup]
          /\ UNCHANGED <<caller, lock>>
       \/ /\ CanFail
          /\ ReturnErr
          /\ UNCHANGED primary
    /\ UNCHANGED <<windows, backup, side, vault, cache, fate, told, sanitised>>

-----------------------------------------------------------------------------
(* What each function does with the configuration it has read.             *)

\* master_key without leave to create one.
KeyNow == IF cache # None THEN cache ELSE vault.master
Unseals(d) == d.key = None \/ KeyNow = d.key
CacheOpened(d) == cache' = IF d.key # None THEN KeyNow ELSE cache

\* A key is needed only for a configuration with connections.
Write(r) ==
    IF DOMAIN r.config.secrets = {}
    THEN [r EXCEPT !.pc = "stage", !.new = Sealed(r.config.secrets, r.config.active, None)]
    ELSE [r EXCEPT !.pc = "key"]

\* Mutant: what a migration left behind is swept by the migration only.
LoadUnswept ==
    LET d == run.disk
        full == [run EXCEPT !.config = [secrets |-> Hydrated(d), active |-> d.active],
                            !.call = "load", !.mode = "legacy", !.refs = At(d, "ref")]
    IN  /\ run.call = "load" \/ (run.call = "fetch" /\ d.format = "plaintext")
        /\ Unseals(d) /\ At(d, "ref") \subseteq DOMAIN vault.refs
        /\ CacheOpened(d)
        /\ run' = IF d.format # "encrypted" \/ At(d, "ref") # {} THEN Write(full)
                  ELSE [full EXCEPT !.pc = "drop"]
        /\ UNCHANGED <<caller, lock>>

\* load: open every secret, and migrate what is not sealed yet.
Load ==
    LET d == run.disk
        full == [run EXCEPT !.config = [secrets |-> Hydrated(d), active |-> d.active],
                            !.call = "load", !.mode = "legacy", !.refs = At(d, "ref")]
    IN  /\ run.call = "load" \/ (run.call = "fetch" /\ d.format = "plaintext")
        /\ Unseals(d) /\ At(d, "ref") \subseteq DOMAIN vault.refs
        /\ CacheOpened(d)
        /\ run' = IF d.format # "encrypted" \/ At(d, "ref") # {} THEN Write(full)
                  ELSE [full EXCEPT !.pc = IF primary = Missing THEN "drop" ELSE "sweep"]
        /\ UNCHANGED <<caller, lock>>

\* load_connection, when the secret is in the bundle already.
FetchSealed ==
    LET d == run.disk
    IN  /\ run.call = "fetch" /\ run.arg \in At(d, "bundle") /\ Unseals(d)
        /\ CacheOpened(d)
        /\ ReturnOk

\* load_connection, when it is not: this connection is migrated.
FetchLegacy ==
    LET d == run.disk
        i == run.arg
    IN  /\ run.call = "fetch" /\ d.format # "plaintext"
        /\ i \in At(d, "text") \cup (At(d, "ref") \cap DOMAIN vault.refs)
        /\ Unseals(d)
        /\ CacheOpened(d)
        /\ run' = [run EXCEPT !.pc = "key", !.refs = {i} \cap At(d, "ref"),
                              !.mode = IF d.format = "encrypted" THEN "current" ELSE "legacy"]
        /\ UNCHANGED <<caller, lock>>

\* set_active rewrites the one field and leaves the format as it is.
Activate ==
    LET d == run.disk
    IN  /\ run.call = "active" /\ run.arg \in DOMAIN d.entries \cup {None}
        /\ run' = [run EXCEPT !.pc = "stage", !.new = [d EXCEPT !.active = run.arg]]
        /\ UNCHANGED <<cache, caller, lock>>

Save ==
    /\ run.call = "save" /\ run.disk.format = "encrypted"
    /\ run' = Write(run)
    /\ UNCHANGED <<cache, caller, lock>>

ReadOnly ==
    /\ run.call = "public"
    /\ ReturnOk
    /\ UNCHANGED cache

\* The connection is unknown, a secret cannot be opened, the format is old, or
\* the credential store fails.
Refuse ==
    LET d == run.disk
    IN  /\ \/ run.call = "fetch" /\ d.format # "plaintext" /\ run.arg \notin DOMAIN d.entries
           \/ run.call = "active" /\ run.arg \notin DOMAIN d.entries \cup {None}
           \/ run.call = "save" /\ d.format # "encrypted"
           \/ run.call \in {"load", "fetch"} /\ ~Unseals(d)
           \/ run.call = "load" /\ ~(At(d, "ref") \subseteq DOMAIN vault.refs)
           \/ run.call = "fetch" /\ run.arg \in At(d, "ref") \ DOMAIN vault.refs
           \/ run.call \in {"load", "fetch"} /\ CanFail
        /\ ReturnErr
        /\ UNCHANGED cache

Dispatch ==
    /\ AtStep("dispatch")
    /\ Load \/ FetchSealed \/ FetchLegacy \/ Activate \/ Save \/ ReadOnly \/ Refuse
    /\ UNCHANGED <<windows, files, vault, fate, told, sanitised>>

-----------------------------------------------------------------------------
(* master_key                                                              *)

\* save creates a key only where there is nothing that needs an older one.
AllowCreate == run.call = "save" => run.disk.entries = << >> /\ run.disk.key = None

NewFile(k) ==
    IF run.call = "fetch" THEN PartlySealed(run.disk, run.arg, k)
    ELSE Sealed(run.config.secrets, run.config.active, k)

UseKey(k, created) ==
    /\ cache' = k
    /\ run' = [run EXCEPT !.pc = "stage", !.created = created, !.new = NewFile(k)]
    /\ UNCHANGED <<caller, lock>>

GetKey ==
    /\ AtStep("key")
    /\ \/ /\ KeyNow # None
          /\ UseKey(KeyNow, FALSE)
          /\ UNCHANGED vault
       \/ /\ KeyNow = None /\ AllowCreate
          /\ \E k \in Keys \ {f.key : f \in {primary, backup} \ {Missing, Invalid}} :
                 UseKey(k, TRUE) /\ vault' = [vault EXCEPT !.master = k]
       \/ /\ KeyNow = None /\ (~AllowCreate \/ CanFail)
          /\ ReturnErr
          /\ UNCHANGED <<cache, vault>>
    /\ UNCHANGED <<windows, files, fate, told, sanitised>>

-----------------------------------------------------------------------------
(* write_config_with_fs: stage both files, commit the backup, then the     *)
(* primary, and undo both when the primary cannot be committed.            *)

StagePrimary ==
    /\ AtStep("stage")
    /\ \/ /\ run' = [run EXCEPT !.pc = "stagebackup", !.before = <<primary, backup>>]
          /\ fate' = [k \in DOMAIN fate |-> IF k \in run.touched THEN "open" ELSE fate[k]]
       \/ /\ FailTo("abort")
          /\ UNCHANGED fate
    /\ UNCHANGED <<windows, files, vault, cache, lock, caller, told, sanitised>>

StageBackup ==
    /\ AtStep("stagebackup")
    /\ Goto("backup") \/ FailTo("abort")
    /\ UNCHANGED <<windows, files, vault, cache, lock, caller, fate, told, sanitised>>

\* On Windows the old backup is removed before the rename; elsewhere the rename
\* may be done and the permissions not.
ReplaceBackup ==
    /\ AtStep("backup")
    /\ \/ /\ windows /\ backup # Missing
          /\ backup' = Missing
          /\ UNCHANGED run
       \/ /\ ~windows \/ backup = Missing
          /\ backup' = run.new
          /\ Goto("primary")
       \/ /\ FailTo("undobackup")
          /\ backup' \in {backup} \cup (IF windows THEN {} ELSE {run.new})
    /\ UNCHANGED <<windows, primary, side, vault, cache, lock, caller, fate, told, sanitised>>

AfterWrite == Goto(IF run.call \in {"save", "active"} THEN "ok" ELSE "sweep")

ReplacePrimary ==
    /\ AtStep("primary")
    /\ \/ /\ windows /\ primary # Missing
          /\ primary' = Missing
          /\ side' = [side EXCEPT !.old = Text(primary)]
          /\ Goto("aside")
       \/ /\ ~windows \/ primary = Missing
          /\ primary' = run.new
          /\ AfterWrite
          /\ UNCHANGED side
       \/ /\ FailTo("undoprimary")
          /\ UNCHANGED <<primary, side>>
    /\ UNCHANGED <<windows, backup, vault, cache, lock, caller, fate, told, sanitised>>

\* Windows: the old primary is set aside, the new one takes its place.  After a
\* migration the one set aside is left to the cleanup.  When that fails the old
\* one is put back, unless that fails too.
ReplaceAside ==
    /\ AtStep("aside")
    /\ \/ /\ primary' = run.new
          /\ side' \in {side} \cup (IF run.mode = "current" THEN {Removed("old")} ELSE {})
          /\ AfterWrite
       \/ /\ FailTo("undoprimary")
          /\ primary' = run.before[1]
          /\ side' = Removed("old")
       \/ /\ run.faults + 2 <= MaxFaults
          /\ run' = [run EXCEPT !.pc = "undoprimary", !.faults = @ + 2]
          /\ UNCHANGED <<primary, side>>
    /\ UNCHANGED <<windows, backup, vault, cache, lock, caller, fate, told, sanitised>>

\* restore_primary_snapshot, by the same replacement: when it fails the primary
\* is what it was.
UndoPrimary ==
    /\ AtStep("undoprimary")
    /\ \/ /\ windows /\ run.before[1] # Missing /\ primary # Missing
          /\ primary' = Missing
          /\ side' = [side EXCEPT !.old = Text(primary)]
          /\ UNCHANGED run
       \/ /\ ~windows \/ run.before[1] = Missing \/ primary = Missing
          /\ primary' = run.before[1]
          /\ side' \in {side, Removed("old")}
          /\ Goto("undobackup")
       \/ /\ CanFail /\ run.before[1] # Missing
          /\ run' = [run EXCEPT !.pc = "undobackup", !.faults = @ + 1, !.failed = TRUE]
          /\ primary' = run.before[1]
          /\ UNCHANGED side
    /\ UNCHANGED <<windows, backup, vault, cache, lock, caller, fate, told, sanitised>>

\* restore_backup_snapshot
UndoBackup ==
    /\ AtStep("undobackup")
    /\ \/ /\ windows /\ run.before[2] # Missing /\ backup # Missing
          /\ backup' = Missing
          /\ UNCHANGED run
       \/ /\ ~windows \/ run.before[2] = Missing \/ backup = Missing
          /\ backup' = run.before[2]
          /\ Goto("abort")
       \/ /\ CanFail /\ <<run.before[2], backup>> # <<Missing, Missing>>
          /\ run' = [run EXCEPT !.pc = "abort", !.faults = @ + 1, !.failed = TRUE]
          /\ UNCHANGED backup
    /\ UNCHANGED <<windows, primary, side, vault, cache, lock, caller, fate, told, sanitised>>

\* Mutant: the key is deleted but stays in the cache.
AbortKeepsCache ==
    /\ AtStep("abort")
    /\ vault' = IF run.created THEN [vault EXCEPT !.master = None] ELSE vault
    /\ fate' = IF run.failed THEN fate ELSE run.was
    /\ told' = (told \/ run.failed)
    /\ ReturnErr
    /\ UNCHANGED <<windows, files, cache, sanitised>>

\* rollback_new_master_key, and the error.
Abort ==
    /\ AtStep("abort")
    /\ IF run.created
       THEN /\ cache' = None
            /\ \E k \in {None, vault.master} : vault' = [vault EXCEPT !.master = k]
       ELSE UNCHANGED <<cache, vault>>
    /\ fate' = IF run.failed THEN fate ELSE run.was
    /\ told' = (told \/ run.failed)
    /\ ReturnErr
    /\ UNCHANGED <<windows, files, sanitised>>

-----------------------------------------------------------------------------
(* After the write.                                                        *)

\* What a file says of a connection, or of the active one.
Says(f, k) ==
    CASE k = "active" -> f.active
      [] k \in DOMAIN f.entries -> SecretOf(f, k)
      [] OTHER -> "gone"

ReportOk ==
    /\ AtStep("ok")
    /\ fate' = [k \in DOMAIN fate |-> IF k \in run.touched \/ fate[k] = "open" THEN Says(run.new, k) ELSE fate[k]]
    /\ ReturnOk
    /\ UNCHANGED <<windows, files, vault, cache, told, sanitised>>

\* cleanup_legacy_artifacts lists the files that are left, and removes each or
\* else overwrites it with the sealed file.
Sweep ==
    /\ AtStep("sweep")
    /\ \/ /\ run' = [run EXCEPT !.pc = "cleanup", !.todo = {f \in DOMAIN side : side[f] # "none"}]
          /\ UNCHANGED <<caller, lock>>
       \/ /\ CanFail
          /\ ReturnErr
    /\ UNCHANGED <<windows, files, vault, cache, fate, told, sanitised>>

CleanUp ==
    /\ AtStep("cleanup")
    /\ \/ \E f \in run.todo :
             \/ /\ side' = Removed(f)
                /\ run' = [run EXCEPT !.todo = @ \ {f}]
             \/ /\ CanFail
                /\ side' = [side EXCEPT ![f] = "sealed"]
                /\ run' = [run EXCEPT !.todo = @ \ {f}, !.faults = @ + 1]
             \/ /\ CanFail
                /\ run' = [run EXCEPT !.todo = @ \ {f}, !.faults = @ + 1, !.failed = TRUE]
                /\ UNCHANGED side
          /\ UNCHANGED <<caller, lock>>
       \/ /\ run.todo = {} /\ ~run.failed
          /\ Goto("drop")
          /\ UNCHANGED <<side, caller, lock>>
       \/ /\ run.todo = {} /\ run.failed
          /\ ReturnErr
          /\ UNCHANGED side
    /\ UNCHANGED <<windows, primary, backup, vault, cache, fate, told, sanitised>>

\* The migrated credentials are deleted from the credential store one by one;
\* one that cannot be deleted is left there.
DropCredentials ==
    /\ AtStep("drop")
    /\ \/ \E i \in run.refs :
             /\ run' = [run EXCEPT !.refs = @ \ {i}]
             /\ \E S \in {{}, {i}} : vault' = [vault EXCEPT !.refs = Restrict(@, DOMAIN @ \ S)]
             /\ UNCHANGED <<caller, lock, sanitised>>
       \/ /\ run.refs = {}
          /\ ReturnOk
          /\ sanitised' = (sanitised \/ (run.call = "load" /\ primary # Missing))
          /\ UNCHANGED vault
    /\ UNCHANGED <<windows, files, cache, fate, told>>

-----------------------------------------------------------------------------
(* The commands.                                                           *)

\* What follows a failed rollback is not explored: a bound of the model.
MayBegin(c) == caller[c] = Idle /\ run = Idle /\ ~told

NoConfig == [secrets |-> << >>, active |-> None]

\* load_connections, export_connections, and every use of one connection.
Read(c) ==
    /\ MayBegin(c)
    /\ \/ \E call \in {"public", "load"} : run' = Start(c, call, None, NoConfig, {})
       \/ \E i \in Ids : run' = Start(c, "fetch", i, NoConfig, {})
    /\ caller' = [caller EXCEPT ![c] = [pc |-> "reading"]]
    /\ UNCHANGED <<windows, files, vault, cache, lock, fate, told, sanitised>>

\* set_active_connection
SetActive(c) ==
    /\ MayBegin(c) /\ lock = None
    /\ \E i \in Ids \cup {None} : run' = Start(c, "active", i, NoConfig, {"active"})
    /\ caller' = [caller EXCEPT ![c] = [pc |-> "activating"]]
    /\ lock' = c
    /\ UNCHANGED <<windows, files, vault, cache, fate, told, sanitised>>

\* Mutant: only the file accesses are locked, not the command.
MutateUnlocked(c) ==
    /\ MayBegin(c)
    /\ run' = Start(c, "load", None, NoConfig, {})
    /\ caller' = [caller EXCEPT ![c] = [pc |-> "loading"]]
    /\ UNCHANGED <<windows, files, vault, cache, lock, fate, told, sanitised>>

\* save_connection, delete_connection and import_connections begin with a load.
Mutate(c) ==
    /\ MayBegin(c) /\ lock = None
    /\ run' = Start(c, "load", None, NoConfig, {})
    /\ caller' = [caller EXCEPT ![c] = [pc |-> "loading"]]
    /\ lock' = c
    /\ UNCHANGED <<windows, files, vault, cache, fate, told, sanitised>>

\* save_connection without an id and import with merge: new ids.
Additions(config) ==
    {[config |-> [config EXCEPT !.secrets = [i \in DOMAIN @ \cup DOMAIN new |->
                                                IF i \in DOMAIN new THEN new[i] ELSE @[i]]],
      touched |-> DOMAIN new] : new \in Partial(Ids \ DOMAIN config.secrets, Secrets)}

\* save_connection with an id.
Edits(config) ==
    {[config |-> [config EXCEPT !.secrets[i] = s], touched |-> {i}] :
        i \in DOMAIN config.secrets, s \in Secrets}

\* delete_connection
Deletions(config) ==
    {[config |-> [secrets |-> Restrict(config.secrets, DOMAIN config.secrets \ {i}),
                  active |-> IF config.active = i THEN None ELSE config.active],
      touched |-> {i} \cup (IF config.active = i THEN {"active"} ELSE {})] : i \in Ids}

\* import_connections without merge.
Imports(config) ==
    {[config |-> [secrets |-> new, active |-> None], touched |-> Ids \cup {"active"}] :
        new \in Partial(Ids \ DOMAIN config.secrets, Secrets)}

Changes(config) == Additions(config) \cup Edits(config) \cup Deletions(config) \cup Imports(config)

SaveChange(c) ==
    /\ caller[c].pc = "loaded" /\ run = Idle
    /\ \E change \in Changes(caller[c].config) :
          run' = Start(c, "save", None, change.config, change.touched)
    /\ caller' = [caller EXCEPT ![c] = [pc |-> "saving"]]
    /\ UNCHANGED <<windows, files, vault, cache, lock, fate, told, sanitised>>

\* save_connection of an id that is gone.
GiveUp(c) ==
    /\ caller[c].pc = "loaded"
    /\ LeaveCommand(c)
    /\ UNCHANGED <<windows, files, vault, cache, run, fate, told, sanitised>>

-----------------------------------------------------------------------------
(* The environment.                                                        *)

\* The program is killed: its memory is lost, the files are not.
Crash ==
    /\ run # Idle
    /\ run' = Idle
    /\ caller' = [c \in Callers |-> Idle]
    /\ lock' = None
    /\ cache' = None
    /\ UNCHANGED <<windows, files, vault, fate, told, sanitised>>

\* The primary is lost or damaged while its backup is readable.
LosePrimary ==
    /\ run = Idle /\ IsConfig(primary) /\ IsConfig(backup)
    /\ primary' \in {Missing, Invalid}
    /\ UNCHANGED <<windows, backup, side, vault, cache, lock, caller, run, fate, told, sanitised>>

\* An installation: new, or left by an older version in either old format.
Legacy ==
    {d \in [format : {"plaintext", "perconnection"}, entries : Partial(Ids, Entries),
            active : Ids \cup {None}, key : {None}] :
        /\ d.active \in DOMAIN d.entries \cup {None}
        /\ At(d, "bundle") = {}
        /\ d.format = "plaintext" => At(d, "ref") = {}}

Init ==
    /\ windows \in BOOLEAN
    /\ primary \in {Missing} \cup Legacy
    /\ backup \in {Missing, primary}
    /\ vault \in [master : {None},
                  refs : [IF IsConfig(primary) THEN At(primary, "ref") ELSE {} -> Secrets]]
    /\ side \in [old : {"none"}, corrupt : {"none", "text"}]
    /\ cache = None
    /\ lock = None
    /\ caller = [c \in Callers |-> Idle]
    /\ run = Idle
    /\ fate = [k \in Ids \cup {"active"} |->
                 IF IsConfig(primary) THEN Says(primary, k) ELSE Says(Empty, k)]
    /\ told = FALSE
    /\ sanitised = FALSE

Step == \/ ReadDisk \/ Recover \/ Dispatch \/ GetKey
        \/ StagePrimary \/ StageBackup \/ ReplaceBackup \/ ReplacePrimary \/ ReplaceAside
        \/ UndoPrimary \/ UndoBackup \/ Abort
        \/ ReportOk \/ Sweep \/ CleanUp \/ DropCredentials

Next ==
    \/ Step
    \/ \E c \in Callers : Read(c) \/ SetActive(c) \/ Mutate(c) \/ SaveChange(c) \/ GiveUp(c)
    \/ Crash
    \/ LosePrimary

Spec == Init /\ [][Next]_vars

-----------------------------------------------------------------------------
(* Properties.                                                             *)

Files == {f \in {primary, backup} : IsConfig(f)}

Opens(d) ==
    \A i \in DOMAIN d.entries :
        CASE d.entries[i].at = "bundle" -> d.key = vault.master
          [] d.entries[i].at = "ref" -> i \in DOMAIN vault.refs
          [] OTHER -> TRUE

\* Whatever file the next load takes, after a crash, a failed write or the loss
\* of the primary, the credential store holds what opens it: no key or
\* credential is deleted while a file needs it, and no file is written with a
\* key that is not kept.  Only an error that reports a failed rollback may have
\* left a file without its key (write_config_with_fs, rollback_new_master_key).
Openable == told \/ \A f \in Files : Opens(f)

\* A connection or an active connection the user was told of is what both files
\* say: no acknowledged change is lost to another command, to a crash or to the
\* recovery, a deleted connection does not come back, and a change that was
\* refused does not show up later.  Only what a crash or a failed rollback left
\* open may be either.
AsReported ==
    \A k \in DOMAIN fate : fate[k] # "open" => \A f \in Files : Says(f, k) = fate[k]

\* Once a full load of a file has succeeded neither it nor its backup, and no file
\* set aside or left over, holds secrets as text, and none ever does again.
NoTextLeft ==
    sanitised => /\ \A f \in Files : Text(f) = "sealed"
                 /\ \A f \in DOMAIN side : side[f] # "text"

=============================================================================
