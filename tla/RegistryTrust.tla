--------------------------- MODULE RegistryTrust ---------------------------
(***************************************************************************)
(* The files behind the `registry` commands: the configured sources and    *)
(* the download cache, which all projects share, and a project's trust     *)
(* store, signing key and provenance lockfile.  A command is a process of  *)
(* its own that reads whole files and writes whole files.  The two that    *)
(* wait for the network, `registry sync` and `registry trust sync`, take   *)
(* one step per file they write or answer they await: other commands run   *)
(* in between, and a crash may leave the file being written empty.  The    *)
(* others are over within one tick and are one step.                       *)
(*                                                                         *)
(* The content of a downloaded file is the release it belongs to (a hash   *)
(* identifies it), so two downloads are equal exactly when they are of one *)
(* release.  A command without --approved, with remote registries disabled *)
(* by policy, or with an argument that does not validate changes nothing   *)
(* and is left out.                                                        *)
(***************************************************************************)
EXTENDS Naturals, FiniteSets

CONSTANTS
    Registries,   \* names of https registries
    Releases,     \* what the publisher may serve, catalog, manifest and file
    Listing,      \* the releases whose manifest lists a plugin file
    Promising,    \* the releases whose manifest gives the hash of its catalog
    Blocks,       \* [Releases -> SUBSET Signature]: a manifest's signature blocks
    Throwing,     \* the releases whose manifest has a null among its signatures
    KeyIds,       \* key ids of publishers
    Versions,     \* generations of key material, of publishers and of the project
    Policies,     \* the registry policies of this instance
    Procs,        \* processes that may run a command
    MaxCommands   \* bound on the commands started

Algorithms == {"ed25519", "gpg", "hmac-sha256"}

\* "malformed" stands for a block that lacks one of its four fields
Signature == [alg : Algorithms \cup {"malformed"}, key : KeyIds, version : Versions]

Policy == [requireSignature : BOOLEAN, allowUnsignedRemote : BOOLEAN,
           requireChecksum : BOOLEAN, requireLockfile : BOOLEAN,
           algorithms : SUBSET Algorithms]

ASSUME RegistryAssumption ==
    /\ {"absent", "blank"} \cap Releases = {} /\ "none" \notin Registries
    /\ Listing \subseteq Releases /\ Promising \subseteq Releases /\ Throwing \subseteq Releases
    /\ Blocks \in [Releases -> SUBSET Signature]
    /\ Policies \subseteq Policy /\ Policies # {}
    /\ MaxCommands \in Nat

Contents == Releases \cup {"absent", "blank"}
Statuses == {"active", "revoked"}

Checksums == [file : {"absent", "blank", "written"}, covers : SUBSET {"catalog", "manifest", "plugin"},
              manifest : Contents, catalog : Contents, plugin : Contents]
Cache == [catalog : Contents, manifest : Contents, plugin : Contents, checksums : Checksums]
Entry == [present : BOOLEAN, catalog : Contents, manifest : Contents,
          trust : {"verified", "unsigned_allowed", "failed"},
          lockfile : {"verified", "missing", "tampered", "failed"}]
KeyRecord == [present : BOOLEAN, version : Versions \cup {"absent"}, status : Statuses,
              scoped : BOOLEAN, remote : BOOLEAN]

VARIABLES
    policy,     \* registry-policy.yaml, edited by hand only
    sources,    \* sources.yaml: per registry, configured or not, and its pinned catalog
    cache,      \* .ai/registry-cache/<name>/
    lock,       \* .ai/registry-lock.json, per registry
    keys,       \* trusted-keys.yaml, per key id
    signing,    \* the project's signing key: its version or "absent"
    remote,     \* the release each registry serves now
    published,  \* the key material each publisher serves now
    proc,       \* the command each process is in the middle of
    started,    \* commands started so far
    fresh       \* history: a sync described the cache since it was last cleared

vars == <<policy, sources, cache, lock, keys, signing, remote, published,
          proc, started, fresh>>
files == <<sources, cache, lock, keys, signing>>
world == <<policy, remote, published>>

NoChecksums == [file |-> "absent", covers |-> {}, manifest |-> "absent", catalog |-> "absent",
                plugin |-> "absent"]
EmptyCache == [catalog |-> "absent", manifest |-> "absent", plugin |-> "absent",
               checksums |-> NoChecksums]
Unlisted == [configured |-> FALSE, pinned |-> "absent"]
NoEntry == [present |-> FALSE, catalog |-> "absent", manifest |-> "absent",
            trust |-> "failed", lockfile |-> "missing"]
NoKey == [present |-> FALSE, version |-> "absent", status |-> "active", scoped |-> FALSE,
          remote |-> FALSE]
Idle == [at |-> "idle", registry |-> "none", sources |-> [r \in Registries |-> Unlisted],
         catalog |-> "absent", manifest |-> "absent", plugin |-> "absent",
         keys |-> [k \in KeyIds |-> NoKey], left |-> {}, updated |-> FALSE]

-----------------------------------------------------------------------------
(* What the commands compute from the files they read.                     *)

\* a signature was made with this key material: what checking it with HMAC, Ed25519 or
\* gpg over the canonical payload amounts to
MadeWith(b, material) == b.version = material

\* verifySignatureBlock for one block: well formed, an allowed algorithm, and key
\* material that matches: the project's own for HMAC, else an active trusted key of
\* the right scope
BlockVerifies(b) ==
    /\ b.alg \in policy.algorithms
    /\ IF b.alg = "hmac-sha256"
       THEN MadeWith(b, signing)
       ELSE /\ keys[b.key].present
            /\ keys[b.key].status = "active"
            /\ keys[b.key].scoped
            /\ MadeWith(b, keys[b.key].version)

\* verifySignatureBlock for a manifest of a registry that is neither bundled nor local; a
\* null among the blocks has no algorithm to read
SignatureStatus(release) ==
    IF release \in Throwing THEN "thrown"
    ELSE IF Blocks[release] = {}
    THEN IF policy.requireSignature \/ ~policy.allowUnsignedRemote THEN "failed" ELSE "unsigned"
    ELSE IF \E b \in Blocks[release] : BlockVerifies(b) THEN "verified" ELSE "failed"

\* sync's status of what it downloaded: it starts with "unsigned", and a throw is swallowed
SyncStatus(manifest) ==
    IF manifest \in Throwing THEN "unsigned"
    ELSE IF manifest \in Releases
    THEN SignatureStatus(manifest)
    ELSE IF policy.requireSignature \/ ~policy.allowUnsignedRemote THEN "failed" ELSE "unsigned"

\* MUTANT: verify asks only about unsigned manifests, not about missing ones
VerifyStatusIfManifest(manifest) ==
    IF manifest \in Releases THEN SignatureStatus(manifest) ELSE "unsigned"

\* verify's status of what is cached: `registry add` records the type "https" or "git",
\* so isRemote is false and allow_unsigned_remote is not asked about a missing manifest
VerifyStatus(manifest) ==
    IF manifest \in Releases
    THEN SignatureStatus(manifest)
    ELSE IF policy.requireSignature THEN "failed" ELSE "unsigned"

VerdictOf(status) == CASE status = "verified" -> "verified"
                       [] status = "unsigned" -> "unsigned_allowed"
                       [] status = "failed" -> "failed"

\* checksums.json parses and each file it lists is in the cache with that content
IntegrityVerified(r) ==
    LET c == cache[r] sums == c.checksums
    IN /\ sums.file = "written"
       /\ "catalog" \in sums.covers => c.catalog = sums.catalog
       /\ "manifest" \in sums.covers => c.manifest = sums.manifest
       /\ "plugin" \in sums.covers => c.plugin = sums.plugin

\* MUTANT: verify compares the catalog only
LockVerdictOfCatalog(r) ==
    IF ~lock[r].present
    THEN IF policy.requireLockfile THEN "failed" ELSE "missing"
    ELSE IF cache[r].catalog = lock[r].catalog THEN "verified" ELSE "tampered"

\* the comparison of the cache with the lockfile's entry
LockVerdict(r) ==
    IF ~lock[r].present
    THEN IF policy.requireLockfile THEN "failed" ELSE "missing"
    ELSE IF /\ cache[r].catalog = lock[r].catalog
            /\ cache[r].manifest # "absent" /\ lock[r].manifest # "absent"
                  => cache[r].manifest = lock[r].manifest
         THEN "verified"
         ELSE "tampered"

\* what `registry verify` answers now
Passes(r) ==
    /\ IntegrityVerified(r)
    /\ LockVerdict(r) \notin {"failed", "tampered"}
    /\ VerifyStatus(cache[r].manifest) \notin {"failed", "thrown"}

-----------------------------------------------------------------------------
Start(p) == /\ proc[p].at = "idle" /\ started < MaxCommands /\ started' = started + 1

(* registry add, remove, cache clear, keygen, verify                       *)

RegistryAdd(p, r) ==
    /\ Start(p)
    /\ ~sources[r].configured
    /\ sources' = [sources EXCEPT ![r] = [configured |-> TRUE, pinned |-> "absent"]]
    /\ UNCHANGED <<cache, lock, keys, signing, world, proc, fresh>>

\* every file at the top of the registry's directory becomes empty; a plugin file is
\* one directory down and stays
Blanked(c) ==
    [c EXCEPT !.catalog = IF @ = "absent" THEN @ ELSE "blank",
              !.manifest = IF @ = "absent" THEN @ ELSE "blank",
              !.checksums = IF @.file = "absent" THEN @ ELSE [NoChecksums EXCEPT !.file = "blank"]]

RegistryRemove(p, r) ==
    /\ Start(p)
    /\ sources[r].configured
    /\ sources' = [sources EXCEPT ![r] = Unlisted]
    /\ cache' = [cache EXCEPT ![r] = Blanked(@)]
    /\ fresh' = [fresh EXCEPT ![r] = FALSE]
    /\ UNCHANGED <<lock, keys, signing, world, proc>>

CacheClear(p) ==
    /\ Start(p)
    /\ cache' = [r \in Registries |-> Blanked(cache[r])]
    /\ fresh' = [r \in Registries |-> FALSE]
    /\ UNCHANGED <<sources, lock, keys, signing, world, proc>>

Keygen(p, v) ==
    /\ Start(p)
    /\ signing' = v   \* with --force when there is a key
    /\ UNCHANGED <<sources, cache, lock, keys, world, proc, fresh>>

\* a verify whose catalog does not parse, or that throws, ends before it records a verdict;
\* a blank catalog parses, as empty
RegistryVerify(p, r) ==
    /\ Start(p)
    /\ sources[r].configured /\ cache[r] # EmptyCache
    /\ lock' = IF lock[r].present /\ VerifyStatus(cache[r].manifest) # "thrown"
               THEN [lock EXCEPT ![r].trust = IF Passes(r)
                                              THEN VerdictOf(VerifyStatus(cache[r].manifest))
                                              ELSE "failed",
                                 ![r].lockfile = LockVerdict(r)]
               ELSE lock
    /\ UNCHANGED <<sources, cache, keys, signing, world, proc, fresh>>

(* registry trust add, remove                                              *)

\* the key is fetched, if it has a URL, before the store is read and written
TrustAdd(p, k, v, scoped, fetched) ==
    /\ Start(p)
    /\ ~keys[k].present
    /\ fetched => v = published[k]
    /\ keys' = [keys EXCEPT ![k] = [present |-> TRUE, version |-> v, status |-> "active",
                                    scoped |-> scoped, remote |-> fetched]]
    /\ UNCHANGED <<sources, cache, lock, signing, world, proc, fresh>>

TrustRemove(p, k) ==
    /\ Start(p)
    /\ keys[k].present
    /\ keys' = [keys EXCEPT ![k] = NoKey]
    /\ UNCHANGED <<sources, cache, lock, signing, world, proc, fresh>>

\* the status of a key is changed in the file by hand
KeyEdited(k, status) ==
    /\ keys[k].present /\ keys[k].status # status
    /\ keys' = [keys EXCEPT ![k].status = status]
    /\ UNCHANGED <<sources, cache, lock, signing, world, proc, started, fresh>>

-----------------------------------------------------------------------------
(* registry trust sync: the store is read once; each key with a URL is     *)
(* fetched; then the whole store is written.                               *)

TrustSync(p) ==
    /\ Start(p)
    /\ proc' = [proc EXCEPT ![p] = [Idle EXCEPT !.at = "fetchKeys", !.keys = keys,
                                    !.left = {k \in KeyIds : keys[k].present /\ keys[k].remote}]]
    /\ UNCHANGED <<files, world, fresh>>

\* an unchanged key, a failed or a timed-out fetch changes nothing and the loop goes on
FetchKey(p, k) ==
    /\ proc[p].at = "fetchKeys" /\ k \in proc[p].left
    /\ \/ proc' = [proc EXCEPT ![p].left = @ \ {k}]
       \/ /\ proc[p].keys[k].version # published[k]
          /\ proc' = [proc EXCEPT ![p].left = @ \ {k}, ![p].keys[k].version = published[k],
                                  ![p].updated = TRUE]
    /\ UNCHANGED <<files, world, started, fresh>>

TrustSyncEnds(p) ==
    /\ proc[p].at = "fetchKeys" /\ proc[p].left = {}
    /\ keys' = IF proc[p].updated THEN proc[p].keys ELSE keys
    /\ proc' = [proc EXCEPT ![p] = Idle]
    /\ UNCHANGED <<sources, cache, lock, signing, world, started, fresh>>

-----------------------------------------------------------------------------
(* registry sync: catalog, manifest, the files the manifest lists,         *)
(* checksums.json, sources.yaml and the lockfile, in this order.           *)

RegistrySync(p, r) ==
    /\ Start(p)
    /\ sources[r].configured
    /\ proc' = [proc EXCEPT ![p] = [Idle EXCEPT !.at = "catalog", !.registry = r,
                                    !.sources = sources]]
    /\ UNCHANGED <<files, world, fresh>>

\* the command exits with an error, or is done
Exit(p) == proc' = [proc EXCEPT ![p] = Idle]

FetchCatalog(p) ==
    LET r == proc[p].registry
    IN /\ proc[p].at = "catalog"
       /\ \/ Exit(p) /\ UNCHANGED cache
          \/ /\ cache' = [cache EXCEPT ![r].catalog = remote[r]]
             /\ proc' = [proc EXCEPT ![p].at = "manifest", ![p].catalog = remote[r]]
       /\ UNCHANGED <<sources, lock, keys, signing, world, started, fresh>>

\* a manifest that cannot be fetched is optional: the one in the cache stays
FetchManifest(p) ==
    LET r == proc[p].registry
    IN /\ proc[p].at = "manifest"
       /\ \/ /\ proc' = [proc EXCEPT ![p].at = "checksums"]
             /\ UNCHANGED cache
          \/ /\ cache' = [cache EXCEPT ![r].manifest = remote[r]]
             /\ proc' = [proc EXCEPT ![p].manifest = remote[r],
                                     ![p].at = IF remote[r] \in Listing THEN "plugin"
                                               ELSE "checksums"]
       /\ UNCHANGED <<sources, lock, keys, signing, world, started, fresh>>

\* the file is in the cache before its checksum is compared; a file beyond the size
\* limit is not written
FetchPlugin(p) ==
    LET r == proc[p].registry
    IN /\ proc[p].at = "plugin"
       /\ \/ Exit(p) /\ UNCHANGED cache
          \/ /\ cache' = [cache EXCEPT ![r].plugin = remote[r]]
             /\ IF policy.requireChecksum /\ remote[r] # proc[p].manifest
                THEN Exit(p)
                ELSE proc' = [proc EXCEPT ![p].at = "checksums", ![p].plugin = remote[r]]
       /\ UNCHANGED <<sources, lock, keys, signing, world, started, fresh>>

\* MUTANT: the verdict is written to the lockfile before the checksums are compared
WriteChecksumsUncompared(p) ==
    LET r == proc[p].registry d == proc[p]
    IN /\ d.at = "checksums"
       /\ cache' = [cache EXCEPT ![r].checksums =
                        [NoChecksums EXCEPT !.file = "written", !.covers = {"catalog"},
                                            !.catalog = d.catalog]]
       /\ proc' = [proc EXCEPT ![p].at = "sources"]
       /\ fresh' = [fresh EXCEPT ![r] = TRUE]
       /\ UNCHANGED <<sources, lock, keys, signing, world, started>>

\* checksums.json describes what was downloaded; only then is the catalog compared with
\* the hash the manifest gives for it, if it gives one (a throw of the comparison is
\* swallowed, so that a hash that is no text is none)
WriteChecksums(p) ==
    LET r == proc[p].registry d == proc[p]
    IN /\ d.at = "checksums"
       /\ cache' = [cache EXCEPT ![r].checksums =
                        [file |-> "written",
                         covers |-> {"catalog"} \cup (IF d.manifest = "absent" THEN {} ELSE {"manifest"})
                                                \cup (IF d.plugin = "absent" THEN {} ELSE {"plugin"}),
                         catalog |-> d.catalog, manifest |-> d.manifest, plugin |-> d.plugin]]
       /\ IF policy.requireChecksum /\ d.manifest \in Promising /\ d.manifest # d.catalog
          THEN Exit(p)
          ELSE proc' = [proc EXCEPT ![p].at = "sources"]
       /\ fresh' = [fresh EXCEPT ![r] = TRUE]
       /\ UNCHANGED <<sources, lock, keys, signing, world, started>>

\* the list of sources read at the start is written back with the new hash pinned
SaveSources(p) ==
    LET r == proc[p].registry
    IN /\ proc[p].at = "sources"
       /\ sources' = [proc[p].sources EXCEPT ![r].pinned = proc[p].catalog]
       /\ proc' = [proc EXCEPT ![p].at = "lock"]
       /\ UNCHANGED <<cache, lock, keys, signing, world, started, fresh>>

RecordLock(p) ==
    LET r == proc[p].registry
    IN /\ proc[p].at = "lock"
       /\ IF signing = "absent" /\ policy.requireSignature
          THEN UNCHANGED lock
          ELSE lock' = [lock EXCEPT ![r] =
                            [present |-> TRUE, catalog |-> proc[p].catalog,
                             manifest |-> proc[p].manifest,
                             trust |-> VerdictOf(SyncStatus(proc[p].manifest)),
                             lockfile |-> "verified"]]
       /\ Exit(p)
       /\ UNCHANGED <<sources, cache, keys, signing, world, started, fresh>>

-----------------------------------------------------------------------------
(* A process dies.  The file it was writing is truncated and not yet       *)
(* filled; the loaders read that as an empty store, list or lockfile.      *)

Crash(p) ==
    LET r == proc[p].registry at == proc[p].at
    IN /\ at # "idle"
       /\ Exit(p)
       /\ \/ UNCHANGED <<sources, cache, lock, keys>>
          \/ /\ \/ at = "catalog" /\ cache' = [cache EXCEPT ![r].catalog = "blank"]
                \/ at = "manifest" /\ cache' = [cache EXCEPT ![r].manifest = "blank"]
                \/ at = "plugin" /\ cache' = [cache EXCEPT ![r].plugin = "blank"]
             /\ UNCHANGED <<sources, lock, keys>>
          \/ /\ at = "checksums"
             /\ cache' = [cache EXCEPT ![r].checksums = [NoChecksums EXCEPT !.file = "blank"]]
             /\ UNCHANGED <<sources, lock, keys>>
          \/ /\ at = "sources"
             /\ sources' = [s \in Registries |-> Unlisted]
             /\ UNCHANGED <<cache, lock, keys>>
          \/ /\ at = "lock"
             /\ lock' = [s \in Registries |-> NoEntry]
             /\ UNCHANGED <<sources, cache, keys>>
          \/ /\ at = "fetchKeys" /\ proc[p].left = {} /\ proc[p].updated
             /\ keys' = [k \in KeyIds |-> NoKey]
             /\ UNCHANGED <<sources, cache, lock>>
       /\ UNCHANGED <<signing, world, started, fresh>>

\* the publisher serves another release, or rotates its key
Publish(r, release) ==
    /\ remote[r] # release
    /\ remote' = [remote EXCEPT ![r] = release]
    /\ UNCHANGED <<files, policy, published, proc, started, fresh>>

Rotate(k, v) ==
    /\ published[k] # v
    /\ published' = [published EXCEPT ![k] = v]
    /\ UNCHANGED <<files, policy, remote, proc, started, fresh>>

-----------------------------------------------------------------------------
\* sources and trust store may come with the checkout, the cache and the key never do
Init ==
    /\ policy \in Policies
    /\ sources \in [Registries -> {Unlisted, [Unlisted EXCEPT !.configured = TRUE]}]
    /\ cache = [r \in Registries |-> EmptyCache]
    /\ lock = [r \in Registries |-> NoEntry]
    /\ signing = "absent"
    /\ remote \in [Registries -> Releases]
    /\ published \in [KeyIds -> Versions]
    /\ \E known \in SUBSET KeyIds :
          keys = [k \in KeyIds |-> IF k \in known
                                  THEN [present |-> TRUE, version |-> published[k], status |-> "active",
                                        scoped |-> TRUE, remote |-> TRUE]
                                  ELSE NoKey]
    /\ proc = [p \in Procs |-> Idle]
    /\ started = 0
    /\ fresh = [r \in Registries |-> FALSE]

Command(p) ==
    \/ \E r \in Registries : \/ RegistryAdd(p, r) \/ RegistryRemove(p, r)
                             \/ RegistryVerify(p, r) \/ RegistrySync(p, r)
    \/ CacheClear(p)
    \/ \E v \in Versions : Keygen(p, v)
    \/ \E k \in KeyIds, v \in Versions, scoped, fetched \in BOOLEAN :
            TrustAdd(p, k, v, scoped, fetched)
    \/ \E k \in KeyIds : TrustRemove(p, k)
    \/ TrustSync(p)

Continue(p) ==
    \/ \E k \in KeyIds : FetchKey(p, k)
    \/ TrustSyncEnds(p)
    \/ FetchCatalog(p) \/ FetchManifest(p) \/ FetchPlugin(p)
    \/ WriteChecksums(p) \/ SaveSources(p) \/ RecordLock(p)
    \/ Crash(p)

Next ==
    \/ \E p \in Procs : Command(p) \/ Continue(p)
    \/ \E k \in KeyIds, status \in Statuses : KeyEdited(k, status)
    \/ \E r \in Registries, release \in Releases : Publish(r, release)
    \/ \E k \in KeyIds, v \in Versions : Rotate(k, v)

Spec == Init /\ [][Next]_vars

-----------------------------------------------------------------------------
(* Correctness.                                                            *)

Download == [at : {"idle", "fetchKeys", "catalog", "manifest", "plugin", "checksums",
                   "sources", "lock"},
             registry : Registries \cup {"none"},
             sources : [Registries -> [configured : BOOLEAN, pinned : Contents]],
             catalog : Contents, manifest : Contents, plugin : Contents,
             keys : [KeyIds -> KeyRecord], left : SUBSET KeyIds, updated : BOOLEAN]

\* Every file holds what some command wrote, or is empty, and a process in the middle of
\* a sync has a registry to sync.
TypeOK ==
    /\ policy \in Policies
    /\ sources \in [Registries -> [configured : BOOLEAN, pinned : Contents]]
    /\ cache \in [Registries -> Cache]
    /\ lock \in [Registries -> Entry]
    /\ keys \in [KeyIds -> KeyRecord]
    /\ signing \in Versions \cup {"absent"}
    /\ remote \in [Registries -> Releases]
    /\ published \in [KeyIds -> Versions]
    /\ proc \in [Procs -> Download]
    /\ \A p \in Procs : proc[p].at \notin {"idle", "fetchKeys"} => proc[p].registry \in Registries
    /\ started \in 0 .. MaxCommands
    /\ fresh \in [Registries -> BOOLEAN]

\* A lockfile entry whose manifest gives the hash of its catalog describes one release: the
\* catalog it pins is the one that manifest promises, whatever the publisher did between the
\* downloads, whoever else synced, and wherever a sync was cut off (sync.js writes the cache
\* before it compares and the lockfile after).  A manifest that gives none promises nothing,
\* and require_checksum lets the entry mix two releases (README, divergences).
LockedIsOneRelease ==
    policy.requireChecksum =>
        \A r \in Registries : lock[r].manifest \in Promising => lock[r].manifest = lock[r].catalog

\* Under require_signature no command records the verdict of an allowed unsigned registry,
\* for a missing, a blank or an unsigned manifest (sync.js and signing.js decide this in
\* three places), but for a sync that downloaded a manifest with a null among its signatures:
\* the throw is swallowed, and what stays is the verdict it started with (README, divergences).
RequiredSignatureIsNeverWaived ==
    policy.requireSignature =>
        \A r \in Registries : lock[r].trust = "unsigned_allowed" => lock[r].manifest \in Throwing

\* A verdict "verified" beside a locked manifest is about that manifest: it has a signature
\* of an allowed algorithm.  verify takes the manifest from the cache, and a cache that
\* another sync has half replaced must not lend its signature to the lockfile.
VerdictIsAboutLockedManifest ==
    \A r \in Registries :
        lock[r].trust = "verified" /\ lock[r].manifest \in Releases
            => \E b \in Blocks[lock[r].manifest] : b.alg \in policy.algorithms

\* A registry that was removed, or whose cache was cleared, does not verify again before a
\* sync has described the cache anew, although its directory, its plugin files and its
\* lockfile entry survive and a registry of the same name may have been added since.
ClearedNeverPasses == \A r \in Registries : ~fresh[r] => ~Passes(r)

\* docs/registry-sync.md:13: files are verified using the checksums defined in the
\* publisher's manifest.  A registry that passes `registry verify` under require_checksum
\* and has a manifest in its cache has the catalog of that manifest.
PassedCacheMatchesManifest ==
    policy.requireChecksum =>
        \A r \in Registries : Passes(r) /\ cache[r].manifest \in Releases
                                   => cache[r].manifest = cache[r].catalog

=============================================================================
