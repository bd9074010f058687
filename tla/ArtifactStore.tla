--------------------------- MODULE ArtifactStore ---------------------------
(***************************************************************************)
(* The artifact store (agents/common/artifact_store.py): files on disk,    *)
(* the manifest in memory and the manifest on disk, and the process that   *)
(* owns the memory.  store() writes the file, registers it and saves the   *)
(* whole manifest; each write truncates its file first, and a crash comes  *)
(* between any two of these.  A content stands for itself and for its      *)
(* sha256.  The implementation agent also writes files past the store.     *)
(***************************************************************************)
EXTENDS Integers, FiniteSets

CONSTANTS
    Paths, Contents,
    Absent, Torn,     \* no file, and a file truncated but not written
    Kinds,            \* ArtifactKind
    MaxVersion, MaxCrashes    \* bounds

ASSUME StoreAssumption ==
    /\ IsFiniteSet(Paths)
    /\ Absent \notin Contents /\ Torn \notin Contents /\ Absent # Torn
    /\ MaxVersion \in Nat /\ MaxCrashes \in Nat

VARIABLES
    disk,         \* path -> what the file holds
    memory,       \* _manifest: path -> its ArtifactMetadata, or NoEntry
    manifest,     \* artifacts/manifest.json, when it was last whole
    torn,         \* that file is truncated: it cannot be loaded
    up,           \* a process runs
    bypassed,     \* history: the paths last written past the store
    crashes       \* history: how often the process was killed in a write

storeVars == <<disk, memory, manifest, torn, up, bypassed, crashes>>

NoEntry == [version |-> 0, sha256 |-> Absent, kind |-> "none"]
Entry == [version: Nat \ {0}, sha256: Contents, kind: Kinds]

StoreTypeOK ==
    /\ disk \in [Paths -> Contents \cup {Absent, Torn}]
    /\ memory \in [Paths -> Entry \cup {NoEntry}]
    /\ manifest \in [Paths -> Entry \cup {NoEntry}]
    /\ torn \in BOOLEAN
    /\ up \in BOOLEAN
    /\ bypassed \in SUBSET Paths
    /\ crashes \in 0 .. MaxCrashes

StoreInit ==
    /\ disk = [p \in Paths |-> Absent]
    /\ memory = [p \in Paths |-> NoEntry]
    /\ manifest = [p \in Paths |-> NoEntry]
    /\ torn = FALSE
    /\ up = FALSE
    /\ bypassed = {}
    /\ crashes = 0

Registered(p, content, kind) ==
    [memory EXCEPT ![p] = [version |-> @.version + 1, sha256 |-> content, kind |-> kind]]

\* Mutant of Store: the manifest is left for a later save.
StoreUnsaved(p, content, kind) ==
    /\ up
    /\ memory[p].version < MaxVersion
    /\ disk' = [disk EXCEPT ![p] = content]
    /\ memory' = Registered(p, content, kind)
    /\ bypassed' = bypassed \ {p}
    /\ UNCHANGED <<manifest, torn, up, crashes>>

\* store(), undisturbed.
Store(p, content, kind) ==
    /\ up
    /\ memory[p].version < MaxVersion
    /\ disk' = [disk EXCEPT ![p] = content]
    /\ memory' = Registered(p, content, kind)
    /\ manifest' = memory'
    /\ bypassed' = bypassed \ {p}
    /\ UNCHANGED <<torn, up, crashes>>

\* store() of an artifact that is not modelled (a log): the manifest is saved.
StoreLog ==
    /\ up
    /\ manifest' = memory
    /\ UNCHANGED <<disk, memory, torn, up, bypassed, crashes>>

\* write_text without the store.
Write(p, content) ==
    /\ up
    /\ disk' = [disk EXCEPT ![p] = content]
    /\ bypassed' = bypassed \cup {p}
    /\ UNCHANGED <<memory, manifest, torn, up, crashes>>

\* The process is gone, and its memory with it.
Gone == up' = FALSE /\ memory' = [p \in Paths |-> NoEntry]

Killed == /\ up
          /\ crashes < MaxCrashes
          /\ crashes' = crashes + 1
          /\ Gone

\* Between two writes.
CrashIdle ==
    /\ up
    /\ Gone
    /\ UNCHANGED <<disk, manifest, torn, bypassed, crashes>>

\* In store(): before the file is written, before the manifest is, or in it.
CrashInStore(p, content) ==
    /\ Killed
    /\ memory[p].version < MaxVersion
    /\ \/ disk' = [disk EXCEPT ![p] = Torn] /\ UNCHANGED torn
       \/ disk' = [disk EXCEPT ![p] = content] /\ torn' \in {FALSE, TRUE}
    /\ bypassed' = bypassed \ {p}
    /\ UNCHANGED manifest

CrashInStoreLog ==
    /\ Killed
    /\ torn' = TRUE
    /\ UNCHANGED <<disk, manifest, bypassed>>

CrashInWrite(p) ==
    /\ Killed
    /\ disk' = [disk EXCEPT ![p] = Torn]
    /\ bypassed' = bypassed \cup {p}
    /\ UNCHANGED <<manifest, torn>>

\* Mutant of Restart: the manifest is not loaded.
RestartEmpty ==
    /\ ~up
    /\ ~torn
    /\ up' = TRUE
    /\ memory' = [p \in Paths |-> NoEntry]
    /\ UNCHANGED <<disk, manifest, torn, bypassed, crashes>>

\* __init__ loads the manifest; a torn one raises, and no process comes up.
Restart ==
    /\ ~up
    /\ ~torn
    /\ up' = TRUE
    /\ memory' = manifest
    /\ UNCHANGED <<disk, manifest, torn, bypassed, crashes>>

-----------------------------------------------------------------------------

\* The manifest describes the file as it is not.
Misdescribed(p) == manifest[p] # NoEntry /\ manifest[p].sha256 # disk[p]

Stale == {p \in Paths \ bypassed : Misdescribed(p)}

\* Files written past the store aside, each kill leaves at most one file that
\* the saved manifest misdescribes, and no restart makes it more.
OneStalePerCrash == ~torn => Cardinality(Stale) <= crashes

\* Through crashes and restarts, a saved version number never comes back with
\* another content, kind or after a higher one.
VersionsNameContents ==
    [][\A p \in Paths :
          /\ manifest'[p].version >= manifest[p].version
          /\ manifest'[p].version = manifest[p].version => manifest'[p] = manifest[p]]_storeVars
=============================================================================
