------------------------- MODULE RegistryTrustProofs -------------------------
(***************************************************************************)
(* Proofs about RegistryTrust for every set of registries, releases, keys, *)
(* policies and processes, and any number of commands.                     *)
(*                                                                         *)
(* IInv adds to the properties the one fact a process in the middle of a   *)
(* sync carries with it: past the comparison of the checksums, what it has *)
(* downloaded is one release.                                              *)
(***************************************************************************)
EXTENDS RegistryTrust, TLAPS

Compared(d) == d.at \in {"sources", "lock"} /\ d.manifest \in Promising => d.manifest = d.catalog

(* A sync that has passed the comparison holds the catalog its manifest promises. *)
ComparedIsOneRelease == policy.requireChecksum => \A p \in Procs : Compared(proc[p])

(* A cache nothing described since it was cleared has no list of checksums. *)
UndescribedHasNoChecksums == \A r \in Registries : ~fresh[r] => cache[r].checksums.file # "written"

IInv == /\ TypeOK
        /\ ComparedIsOneRelease
        /\ UndescribedHasNoChecksums
        /\ LockedIsOneRelease
        /\ RequiredSignatureIsNeverWaived
        /\ VerdictIsAboutLockedManifest

-----------------------------------------------------------------------------
(* The records the actions build have their types. *)
LEMMA RecordTypes ==
    /\ NoChecksums \in Checksums
    /\ EmptyCache \in Cache
    /\ NoEntry \in Entry
    /\ NoKey \in KeyRecord
    /\ Unlisted \in [configured : BOOLEAN, pinned : Contents]
    /\ Idle \in Download
BY DEF NoChecksums, Checksums, EmptyCache, Cache, NoEntry, Entry, NoKey, KeyRecord, Unlisted,
       Idle, Download, Contents, Statuses

LEMMA PolicyType ==
    ASSUME policy \in Policies
    PROVE  policy \in Policy
BY RegistryAssumption

(* Emptying the files at the top of a cache leaves a cache. *)
LEMMA BlankedType ==
    ASSUME NEW c \in Cache
    PROVE  /\ Blanked(c) \in Cache
           /\ Blanked(c).checksums.file # "written"
<1> DEFINE x == IF c.catalog = "absent" THEN c.catalog ELSE "blank"
           y == IF c.manifest = "absent" THEN c.manifest ELSE "blank"
           z == IF c.checksums.file = "absent" THEN c.checksums ELSE [NoChecksums EXCEPT !.file = "blank"]
<1>1. /\ x \in Contents
      /\ y \in Contents
  BY DEF Cache, Contents
<1>2. z \in Checksums /\ z.file # "written"
  BY DEF Cache, Checksums, NoChecksums, Contents
<1>3. Blanked(c) = [c EXCEPT !.catalog = x, !.manifest = y, !.checksums = z]
  BY Zenon DEF Blanked
<1> HIDE DEF x, y, z
<1>4. QED
  BY <1>1, <1>2, <1>3 DEF Cache

(* The verdict of a signature is one of three, where verify does not throw. *)
LEMMA StatusTypes ==
    ASSUME NEW m \in Contents
    PROVE  /\ VerdictOf(SyncStatus(m)) \in {"verified", "unsigned_allowed", "failed"}
           /\ VerifyStatus(m) # "thrown" =>
                 VerdictOf(VerifyStatus(m)) \in {"verified", "unsigned_allowed", "failed"}
           /\ policy.requireSignature =>
                 /\ m \notin Throwing => VerdictOf(SyncStatus(m)) # "unsigned_allowed"
                 /\ VerifyStatus(m) # "thrown" => VerdictOf(VerifyStatus(m)) # "unsigned_allowed"
           /\ \/ VerdictOf(SyncStatus(m)) = "verified"
              \/ VerifyStatus(m) # "thrown" /\ VerdictOf(VerifyStatus(m)) = "verified"
              => m \in Releases /\ \E b \in Blocks[m] : b.alg \in policy.algorithms
<1> DEFINE Waived == policy.requireSignature
           Signed == m \in Releases /\ \E b \in Blocks[m] : b.alg \in policy.algorithms
<1>0. /\ m \in Throwing => SyncStatus(m) = "unsigned"
      /\ SyncStatus(m) # "thrown"
  BY RegistryAssumption DEF SyncStatus, SignatureStatus
<1>1. ASSUME NEW st, st # "thrown", st = VerifyStatus(m) \/ (st = SyncStatus(m) /\ m \notin Throwing)
      PROVE  /\ st \in {"verified", "unsigned", "failed"}
             /\ Waived => st # "unsigned"
             /\ st = "verified" => Signed
  <2>1. CASE m \in Releases
    <3>1. st = SignatureStatus(m)
      BY <1>1, <2>1 DEF SyncStatus, VerifyStatus
    <3>2. SignatureStatus(m) = "verified" => Signed
      BY <2>1 DEF SignatureStatus, BlockVerifies
    <3>3. /\ SignatureStatus(m) \in {"verified", "unsigned", "failed", "thrown"}
          /\ Waived => SignatureStatus(m) # "unsigned"
      BY DEF SignatureStatus
    <3>4. QED
      BY <1>1, <3>1, <3>2, <3>3
  <2>2. CASE m \notin Releases
    BY <1>1, <2>2 DEF SyncStatus, VerifyStatus
  <2>3. QED
    BY <2>1, <2>2
<1>2. ASSUME NEW st \in {"verified", "unsigned", "failed"}
      PROVE  /\ VerdictOf(st) \in {"verified", "unsigned_allowed", "failed"}
             /\ VerdictOf(st) = "unsigned_allowed" => st = "unsigned"
             /\ VerdictOf(st) = "verified" => st = "verified"
  BY DEF VerdictOf
<1>3. m \in Throwing => VerdictOf(SyncStatus(m)) = "unsigned_allowed"
  BY <1>0 DEF VerdictOf
<1>4. ASSUME NEW st, st # "thrown", st = VerifyStatus(m) \/ (st = SyncStatus(m) /\ m \notin Throwing)
      PROVE  /\ VerdictOf(st) \in {"verified", "unsigned_allowed", "failed"}
             /\ Waived => VerdictOf(st) # "unsigned_allowed"
             /\ VerdictOf(st) = "verified" => Signed
  <2>1. /\ st \in {"verified", "unsigned", "failed"}
        /\ Waived => st # "unsigned"
        /\ st = "verified" => Signed
    BY <1>1, <1>4
  <2> HIDE DEF Signed, Waived
  <2>2. QED
    BY <1>2, <2>1
<1> HIDE DEF Signed, Waived
<1>5. ASSUME m \notin Throwing
      PROVE  /\ VerdictOf(SyncStatus(m)) \in {"verified", "unsigned_allowed", "failed"}
             /\ Waived => VerdictOf(SyncStatus(m)) # "unsigned_allowed"
             /\ VerdictOf(SyncStatus(m)) = "verified" => Signed
  BY <1>0, <1>4, <1>5, Zenon
<1>6. ASSUME VerifyStatus(m) # "thrown"
      PROVE  /\ VerdictOf(VerifyStatus(m)) \in {"verified", "unsigned_allowed", "failed"}
             /\ Waived => VerdictOf(VerifyStatus(m)) # "unsigned_allowed"
             /\ VerdictOf(VerifyStatus(m)) = "verified" => Signed
  <2>1. PICK st : st = VerifyStatus(m)
    OBVIOUS
  <2>2. /\ VerdictOf(st) \in {"verified", "unsigned_allowed", "failed"}
        /\ Waived => VerdictOf(st) # "unsigned_allowed"
        /\ VerdictOf(st) = "verified" => Signed
    BY <1>4, <1>6, <2>1
  <2>3. QED
    BY <2>1, <2>2
<1>7. m \in Throwing => /\ VerdictOf(SyncStatus(m)) \in {"verified", "unsigned_allowed", "failed"}
                        /\ VerdictOf(SyncStatus(m)) # "verified"
  BY <1>3
<1>8. /\ VerdictOf(SyncStatus(m)) \in {"verified", "unsigned_allowed", "failed"}
      /\ Waived /\ m \notin Throwing => VerdictOf(SyncStatus(m)) # "unsigned_allowed"
      /\ Waived /\ VerifyStatus(m) # "thrown" => VerdictOf(VerifyStatus(m)) # "unsigned_allowed"
      /\ VerdictOf(SyncStatus(m)) = "verified" => Signed
      /\ VerifyStatus(m) # "thrown" /\ VerdictOf(VerifyStatus(m)) = "verified" => Signed
  BY <1>5, <1>6, <1>7, Zenon
<1>9. QED
  BY <1>6, <1>8, Zenon DEF Signed, Waived

-----------------------------------------------------------------------------
THEOREM InitIInv == Init => IInv
<1> SUFFICES ASSUME Init PROVE IInv
  OBVIOUS
<1>1. TypeOK
  <2>1. keys \in [KeyIds -> KeyRecord]
    BY DEF Init, KeyRecord, NoKey, Statuses
  <2>2. sources \in [Registries -> [configured : BOOLEAN, pinned : Contents]]
    <3>1. /\ Unlisted \in [configured : BOOLEAN, pinned : Contents]
          /\ [Unlisted EXCEPT !.configured = TRUE] \in [configured : BOOLEAN, pinned : Contents]
      BY DEF Unlisted, Contents
    <3>2. QED
      BY <3>1 DEF Init
  <2>3. QED
    BY <2>1, <2>2, RecordTypes, RegistryAssumption DEF Init, TypeOK, Idle
<1>2. ComparedIsOneRelease
  BY DEF Init, ComparedIsOneRelease, Compared, Idle
<1>3. UndescribedHasNoChecksums
  BY DEF Init, UndescribedHasNoChecksums, EmptyCache, NoChecksums
<1>4. LockedIsOneRelease /\ RequiredSignatureIsNeverWaived /\ VerdictIsAboutLockedManifest
  BY DEF Init, LockedIsOneRelease, RequiredSignatureIsNeverWaived, VerdictIsAboutLockedManifest, NoEntry
<1>5. QED
  BY <1>1, <1>2, <1>3, <1>4 DEF IInv

-----------------------------------------------------------------------------
(* TypeOK is inductive.  Each file has the step or two that write it.      *)

LEMMA TypeOfFiles ==
    ASSUME TypeOK, NEW p \in Procs,
           Command(p) \/ Continue(p)
    PROVE  /\ sources' \in [Registries -> [configured : BOOLEAN, pinned : Contents]]
           /\ cache' \in [Registries -> Cache]
           /\ fresh' \in [Registries -> BOOLEAN]
<1> DEFINE Sources == [Registries -> [configured : BOOLEAN, pinned : Contents]]
           Good == sources' \in Sources /\ cache' \in [Registries -> Cache] /\ fresh' \in [Registries -> BOOLEAN]
<1>0. /\ sources \in Sources /\ cache \in [Registries -> Cache] /\ fresh \in [Registries -> BOOLEAN]
      /\ proc[p] \in Download /\ "absent" \in Contents /\ "blank" \in Contents
      /\ proc[p].at \notin {"idle", "fetchKeys"} => proc[p].registry \in Registries
      /\ remote \in [Registries -> Contents]
  BY DEF TypeOK, Contents
<1>1. ASSUME UNCHANGED <<sources, cache, fresh>>
      PROVE  Good
  BY <1>0, <1>1
<1>2. ASSUME NEW r \in Registries, RegistryAdd(p, r) PROVE Good
  BY <1>0, <1>2 DEF RegistryAdd
<1>3. ASSUME NEW r \in Registries, RegistryRemove(p, r) PROVE Good
  BY <1>0, <1>3, RecordTypes, BlankedType DEF RegistryRemove
<1>4. CASE CacheClear(p)
  BY <1>0, <1>4, BlankedType DEF CacheClear
<1>5. ASSUME NEW r \in Registries, NEW c \in Contents
      PROVE  /\ [cache EXCEPT ![r].catalog = c] \in [Registries -> Cache]
             /\ [cache EXCEPT ![r].manifest = c] \in [Registries -> Cache]
             /\ [cache EXCEPT ![r].plugin = c] \in [Registries -> Cache]
  BY <1>0 DEF Cache
<1>6. ASSUME NEW r \in Registries, NEW c \in Checksums
      PROVE  [cache EXCEPT ![r].checksums = c] \in [Registries -> Cache]
  BY <1>0 DEF Cache
<1>7. CASE FetchCatalog(p)
  <2> DEFINE q == proc[p].registry
  <2>1. q \in Registries /\ remote[q] \in Contents
    BY <1>0, <1>7 DEF FetchCatalog
  <2>2. cache' = cache \/ cache' = [cache EXCEPT ![q].catalog = remote[q]]
    BY <1>7 DEF FetchCatalog
  <2>3. UNCHANGED <<sources, fresh>>
    BY <1>7 DEF FetchCatalog
  <2> HIDE DEF q
  <2>4. [cache EXCEPT ![q].catalog = remote[q]] \in [Registries -> Cache]
    BY <1>5, <2>1
  <2>5. QED
    BY <1>0, <2>2, <2>3, <2>4
<1>8. CASE FetchManifest(p)
  <2> DEFINE q == proc[p].registry
  <2>1. q \in Registries /\ remote[q] \in Contents
    BY <1>0, <1>8 DEF FetchManifest
  <2>2. cache' = cache \/ cache' = [cache EXCEPT ![q].manifest = remote[q]]
    BY <1>8 DEF FetchManifest
  <2>3. UNCHANGED <<sources, fresh>>
    BY <1>8 DEF FetchManifest
  <2> HIDE DEF q
  <2>4. [cache EXCEPT ![q].manifest = remote[q]] \in [Registries -> Cache]
    BY <1>5, <2>1
  <2>5. QED
    BY <1>0, <2>2, <2>3, <2>4
<1>9. CASE FetchPlugin(p)
  <2> DEFINE q == proc[p].registry
  <2>1. q \in Registries /\ remote[q] \in Contents
    BY <1>0, <1>9 DEF FetchPlugin
  <2>2. cache' = cache \/ cache' = [cache EXCEPT ![q].plugin = remote[q]]
    BY <1>9 DEF FetchPlugin
  <2>3. UNCHANGED <<sources, fresh>>
    BY <1>9 DEF FetchPlugin
  <2> HIDE DEF q
  <2>4. [cache EXCEPT ![q].plugin = remote[q]] \in [Registries -> Cache]
    BY <1>5, <2>1
  <2>5. QED
    BY <1>0, <2>2, <2>3, <2>4
<1>10. CASE WriteChecksums(p)
  <2>1. proc[p].catalog \in Contents /\ proc[p].manifest \in Contents /\ proc[p].plugin \in Contents
    BY <1>0 DEF Download
  <2>2. ASSUME NEW covers \in SUBSET {"catalog", "manifest", "plugin"}
        PROVE  [file |-> "written", covers |-> covers, catalog |-> proc[p].catalog,
                manifest |-> proc[p].manifest, plugin |-> proc[p].plugin] \in Checksums
    BY <2>1 DEF Checksums
  <2>3. QED
    BY <1>0, <1>6, <1>10, <2>2 DEF WriteChecksums
<1>11. CASE SaveSources(p)
  <2>1. proc[p].sources \in Sources /\ proc[p].catalog \in Contents
    BY <1>0 DEF Download
  <2>2. QED
    BY <1>0, <1>11, <2>1 DEF SaveSources
<1>12. CASE Crash(p)
  <2>1. [NoChecksums EXCEPT !.file = "blank"] \in Checksums
    BY DEF NoChecksums, Checksums, Contents
  <2>2. [s \in Registries |-> Unlisted] \in Sources
    BY RecordTypes
  <2> DEFINE q == proc[p].registry
  <2>3. q \in Registries \/ proc[p].at \in {"idle", "fetchKeys"}
    BY <1>0
  <2>4. fresh' = fresh
    BY <1>12 DEF Crash
  <2>5. sources' = sources \/ sources' = [s \in Registries |-> Unlisted]
    BY <1>12 DEF Crash
  <2>6. \/ cache' = cache
        \/ /\ proc[p].at \notin {"idle", "fetchKeys"}
           /\ \/ cache' = [cache EXCEPT ![q].catalog = "blank"]
              \/ cache' = [cache EXCEPT ![q].manifest = "blank"]
              \/ cache' = [cache EXCEPT ![q].plugin = "blank"]
              \/ cache' = [cache EXCEPT ![q].checksums = [NoChecksums EXCEPT !.file = "blank"]]
    BY <1>12 DEF Crash
  <2> HIDE DEF q
  <2>7. cache' \in [Registries -> Cache]
    <3>1. CASE q \in Registries
      <4>1. /\ [cache EXCEPT ![q].catalog = "blank"] \in [Registries -> Cache]
            /\ [cache EXCEPT ![q].manifest = "blank"] \in [Registries -> Cache]
            /\ [cache EXCEPT ![q].plugin = "blank"] \in [Registries -> Cache]
        BY <1>0, <1>5, <3>1
      <4>2. [cache EXCEPT ![q].checksums = [NoChecksums EXCEPT !.file = "blank"]] \in [Registries -> Cache]
        BY <1>6, <2>1, <3>1
      <4>3. QED
        BY <1>0, <2>6, <4>1, <4>2
    <3>2. QED
      BY <1>0, <2>3, <2>6, <3>1
  <2>8. QED
    BY <1>0, <2>2, <2>4, <2>5, <2>7
<1>13. QED
  <2>1. CASE Command(p)
    BY <2>1, <1>1, <1>2, <1>3, <1>4
       DEF Command, RegistryVerify, RegistrySync, Keygen, TrustAdd, TrustRemove, TrustSync, files
  <2>2. CASE Continue(p)
    BY <2>2, <1>1, <1>7, <1>8, <1>9, <1>10, <1>11, <1>12
       DEF Continue, FetchKey, TrustSyncEnds, RecordLock, files
  <2>3. QED
    BY <2>1, <2>2

LEMMA TypeOfRecords ==
    ASSUME TypeOK, NEW p \in Procs,
           Command(p) \/ Continue(p)
    PROVE  /\ lock' \in [Registries -> Entry]
           /\ keys' \in [KeyIds -> KeyRecord]
           /\ signing' \in Versions \cup {"absent"}
           /\ started' \in 0 .. MaxCommands
           /\ UNCHANGED world
<1> DEFINE Good == /\ lock' \in [Registries -> Entry]
                   /\ keys' \in [KeyIds -> KeyRecord]
<1>0. /\ lock \in [Registries -> Entry] /\ keys \in [KeyIds -> KeyRecord]
      /\ published \in [KeyIds -> Versions]
      /\ cache \in [Registries -> Cache]
      /\ proc[p] \in Download
      /\ proc[p].at \notin {"idle", "fetchKeys"} => proc[p].registry \in Registries
  BY DEF TypeOK
<1>1. UNCHANGED world
  BY DEF Command, Continue, RegistryAdd, RegistryRemove, RegistryVerify, RegistrySync, CacheClear,
         Keygen, TrustAdd, TrustRemove, TrustSync, FetchKey, TrustSyncEnds, FetchCatalog,
         FetchManifest, FetchPlugin, WriteChecksums, SaveSources, RecordLock, Crash, world
<1>2. signing' \in Versions \cup {"absent"}
  BY DEF TypeOK, Command, Continue, RegistryAdd, RegistryRemove, RegistryVerify, RegistrySync,
         CacheClear, Keygen, TrustAdd, TrustRemove, TrustSync, FetchKey, TrustSyncEnds,
         FetchCatalog, FetchManifest, FetchPlugin, WriteChecksums, SaveSources, RecordLock, Crash, files
<1>3. started' \in 0 .. MaxCommands
  <2>1. started' = started \/ (started < MaxCommands /\ started' = started + 1)
    BY DEF Command, Continue, Start, RegistryAdd, RegistryRemove, RegistryVerify, RegistrySync,
           CacheClear, Keygen, TrustAdd, TrustRemove, TrustSync, FetchKey, TrustSyncEnds,
           FetchCatalog, FetchManifest, FetchPlugin, WriteChecksums, SaveSources, RecordLock, Crash
  <2>2. QED
    BY <2>1, RegistryAssumption DEF TypeOK
<1>4. ASSUME UNCHANGED <<lock, keys>> PROVE Good
  BY <1>0, <1>4
<1>5. ASSUME NEW r \in Registries, RegistryVerify(p, r) PROVE Good
  <2>1. cache[r].manifest \in Contents
    BY <1>0 DEF Cache
  <2> DEFINE v == VerdictOf(VerifyStatus(cache[r].manifest))
  <2>2. VerifyStatus(cache[r].manifest) # "thrown" => v \in {"verified", "unsigned_allowed", "failed"}
    BY <2>1, StatusTypes
  <2>3. LockVerdict(r) \in {"verified", "missing", "tampered", "failed"}
    BY DEF LockVerdict
  <2>4. /\ keys' = keys
        /\ \/ lock' = lock
           \/ /\ VerifyStatus(cache[r].manifest) # "thrown"
              /\ lock' = [lock EXCEPT ![r].trust = IF Passes(r) THEN v ELSE "failed",
                                      ![r].lockfile = LockVerdict(r)]
    BY <1>5 DEF RegistryVerify
  <2> HIDE DEF v
  <2>5. QED
    BY <1>0, <2>2, <2>3, <2>4 DEF Entry
<1>6. ASSUME NEW k \in KeyIds, NEW v \in Versions, NEW scoped \in BOOLEAN, NEW fetched \in BOOLEAN,
             TrustAdd(p, k, v, scoped, fetched)
      PROVE  Good
  BY <1>0, <1>6 DEF TrustAdd, KeyRecord, Statuses
<1>7. ASSUME NEW k \in KeyIds, TrustRemove(p, k) PROVE Good
  BY <1>0, <1>7, RecordTypes DEF TrustRemove
<1>8. ASSUME TrustSyncEnds(p) PROVE Good
  BY <1>0, <1>8 DEF TrustSyncEnds, Download
<1>9. ASSUME RecordLock(p) PROVE Good
  <2> DEFINE d == proc[p]
             e == [present |-> TRUE, catalog |-> d.catalog, manifest |-> d.manifest,
                   trust |-> VerdictOf(SyncStatus(d.manifest)), lockfile |-> "verified"]
  <2>1. d.catalog \in Contents /\ d.manifest \in Contents
    BY <1>0 DEF Download
  <2>2. e \in Entry
    BY <2>1, StatusTypes DEF Entry
  <2>3. /\ keys' = keys
        /\ lock' = lock \/ lock' = [lock EXCEPT ![d.registry] = e]
    BY <1>9 DEF RecordLock
  <2> HIDE DEF d, e
  <2>4. QED
    BY <1>0, <2>2, <2>3
<1>10. ASSUME Crash(p) PROVE Good
  BY <1>0, <1>10, RecordTypes DEF Crash
<1>11. Good
  <2>1. CASE Command(p)
    BY <2>1, <1>4, <1>5, <1>6, <1>7
       DEF Command, RegistryAdd, RegistryRemove, RegistrySync, CacheClear, Keygen, TrustSync, files
  <2>2. CASE Continue(p)
    BY <2>2, <1>4, <1>8, <1>9, <1>10
       DEF Continue, FetchKey, FetchCatalog, FetchManifest, FetchPlugin, WriteChecksums, SaveSources, files
  <2>3. QED
    BY <2>1, <2>2
<1>12. QED
  BY <1>1, <1>2, <1>3, <1>11

(* A process steps to a state of the same type, and has a registry as long as it needs one. *)
LEMMA TypeOfProcesses ==
    ASSUME TypeOK, NEW p \in Procs,
           Command(p) \/ Continue(p)
    PROVE  /\ proc' \in [Procs -> Download]
           /\ \A q \in Procs : proc'[q].at \notin {"idle", "fetchKeys"} => proc'[q].registry \in Registries
<1> DEFINE Sound(d) == d \in Download /\ (d.at \notin {"idle", "fetchKeys"} => d.registry \in Registries)
<1>0. /\ proc \in [Procs -> Download] /\ \A q \in Procs : Sound(proc[q])
      /\ sources \in [Registries -> [configured : BOOLEAN, pinned : Contents]]
      /\ keys \in [KeyIds -> KeyRecord]
      /\ remote \in [Registries -> Contents] /\ published \in [KeyIds -> Versions]
  BY DEF TypeOK, Contents
<1> SUFFICES \E d : Sound(d) /\ proc' = [proc EXCEPT ![p] = d]
  BY <1>0
<1>1. ASSUME UNCHANGED proc
      PROVE  Sound(proc[p]) /\ proc' = [proc EXCEPT ![p] = proc[p]]
  BY <1>0, <1>1
<1>2. ASSUME proc' = [proc EXCEPT ![p] = Idle]
      PROVE  Sound(Idle)
  BY RecordTypes DEF Idle
<1>3. ASSUME NEW r \in Registries, RegistrySync(p, r)
      PROVE  Sound([Idle EXCEPT !.at = "catalog", !.registry = r, !.sources = sources])
  BY <1>0, RecordTypes DEF Download
<1>4. ASSUME TrustSync(p)
      PROVE  Sound([Idle EXCEPT !.at = "fetchKeys", !.keys = keys,
                                !.left = {k \in KeyIds : keys[k].present /\ keys[k].remote}])
  BY <1>0, RecordTypes DEF Download
<1>5. ASSUME NEW k \in KeyIds, FetchKey(p, k)
      PROVE  \E d : Sound(d) /\ proc' = [proc EXCEPT ![p] = d]
  <2> DEFINE d1 == [proc[p] EXCEPT !.left = @ \ {k}]
             d2 == [proc[p] EXCEPT !.left = @ \ {k}, !.keys[k].version = published[k], !.updated = TRUE]
  <2>0. proc[p] \in Download /\ proc[p].at = "fetchKeys"
    BY <1>0, <1>5 DEF FetchKey
  <2>1. Sound(d1)
    <3>1. proc[p].left \ {k} \in SUBSET KeyIds
      BY <2>0 DEF Download
    <3>2. QED
      BY <2>0, <3>1 DEF Download
  <2>2. Sound(d2)
    <3>1. /\ proc[p].left \ {k} \in SUBSET KeyIds
          /\ proc[p].keys \in [KeyIds -> KeyRecord]
          /\ published[k] \in Versions
      BY <1>0, <2>0 DEF Download
    <3>2. [proc[p].keys EXCEPT ![k].version = published[k]] \in [KeyIds -> KeyRecord]
      BY <3>1 DEF KeyRecord
    <3>3. QED
      BY <2>0, <3>1, <3>2 DEF Download
  <2>3. proc' = [proc EXCEPT ![p] = d1] \/ proc' = [proc EXCEPT ![p] = d2]
    BY <1>0, <1>5 DEF FetchKey
  <2> HIDE DEF d1, d2
  <2>4. QED
    BY <2>1, <2>2, <2>3
<1>6. ASSUME NEW at \in {"manifest", "plugin", "checksums", "sources", "lock"},
             proc[p].at \notin {"idle", "fetchKeys"}
      PROVE  /\ Sound([proc[p] EXCEPT !.at = at])
             /\ \A c \in Contents : /\ Sound([proc[p] EXCEPT !.at = at, !.catalog = c])
                                     /\ Sound([proc[p] EXCEPT !.manifest = c, !.at = at])
                                     /\ Sound([proc[p] EXCEPT !.at = at, !.plugin = c])
  <2>1. proc[p] \in Download /\ proc[p].registry \in Registries
    BY <1>0, <1>6
  <2>2. Sound([proc[p] EXCEPT !.at = at])
    BY <1>6, <2>1 DEF Download
  <2>3. ASSUME NEW c \in Contents
        PROVE  Sound([proc[p] EXCEPT !.at = at, !.catalog = c])
    BY <1>6, <2>1 DEF Download
  <2>4. ASSUME NEW c \in Contents
        PROVE  Sound([proc[p] EXCEPT !.manifest = c, !.at = at])
    BY <1>6, <2>1 DEF Download
  <2>5. ASSUME NEW c \in Contents
        PROVE  Sound([proc[p] EXCEPT !.at = at, !.plugin = c])
    BY <1>6, <2>1 DEF Download
  <2>6. QED
    BY <2>2, <2>3, <2>4, <2>5
<1> DEFINE Steps == \E d : Sound(d) /\ proc' = [proc EXCEPT ![p] = d]
<1>7. ASSUME NEW at \in {"manifest", "plugin", "checksums", "sources", "lock"},
             proc[p].at \notin {"idle", "fetchKeys"},
             \/ proc' = [proc EXCEPT ![p] = Idle]
             \/ proc' = [proc EXCEPT ![p].at = at]
             \/ \E c \in Contents : \/ proc' = [proc EXCEPT ![p].at = at, ![p].catalog = c]
                                    \/ proc' = [proc EXCEPT ![p].manifest = c, ![p].at = at]
                                    \/ proc' = [proc EXCEPT ![p].at = at, ![p].plugin = c]
      PROVE  Steps
  <2>1. CASE proc' = [proc EXCEPT ![p] = Idle]
    BY <1>2, <2>1
  <2>2. CASE proc' = [proc EXCEPT ![p].at = at]
    <3>1. proc' = [proc EXCEPT ![p] = [proc[p] EXCEPT !.at = at]]
      BY <1>0, <2>2
    <3>2. QED
      BY <1>6, <1>7, <3>1
  <2>3. ASSUME NEW c \in Contents,
               \/ proc' = [proc EXCEPT ![p].at = at, ![p].catalog = c]
               \/ proc' = [proc EXCEPT ![p].manifest = c, ![p].at = at]
               \/ proc' = [proc EXCEPT ![p].at = at, ![p].plugin = c]
        PROVE  Steps
    <3>1. \/ proc' = [proc EXCEPT ![p] = [proc[p] EXCEPT !.at = at, !.catalog = c]]
          \/ proc' = [proc EXCEPT ![p] = [proc[p] EXCEPT !.manifest = c, !.at = at]]
          \/ proc' = [proc EXCEPT ![p] = [proc[p] EXCEPT !.at = at, !.plugin = c]]
      BY <1>0, <2>3
    <3>2. /\ Sound([proc[p] EXCEPT !.at = at, !.catalog = c])
          /\ Sound([proc[p] EXCEPT !.manifest = c, !.at = at])
          /\ Sound([proc[p] EXCEPT !.at = at, !.plugin = c])
      BY <1>6, <1>7
    <3> HIDE DEF Sound
    <3>3. QED
      BY <3>1, <3>2
  <2>4. QED
    BY <1>7, <2>1, <2>2, <2>3
<1>8. proc[p].at \notin {"idle", "fetchKeys"} => remote[proc[p].registry] \in Contents
  BY <1>0
<1>9. CASE FetchCatalog(p)
  BY <1>7, <1>8, <1>9 DEF FetchCatalog, Exit
<1>10. CASE FetchManifest(p)
  <2>1. /\ proc[p].at = "manifest"
        /\ \/ proc' = [proc EXCEPT ![p].at = "checksums"]
           \/ \E at \in {"plugin", "checksums"} :
                 proc' = [proc EXCEPT ![p].manifest = remote[proc[p].registry], ![p].at = at]
    BY <1>10 DEF FetchManifest
  <2>2. ASSUME NEW at \in {"plugin", "checksums"},
               proc' = [proc EXCEPT ![p].manifest = remote[proc[p].registry], ![p].at = at]
        PROVE  Steps
    BY <1>7, <1>8, <2>1, <2>2
  <2>3. QED
    BY <1>7, <2>1, <2>2
<1>11. CASE FetchPlugin(p)
  BY <1>7, <1>8, <1>11 DEF FetchPlugin, Exit
<1>12. CASE WriteChecksums(p)
  BY <1>7, <1>12 DEF WriteChecksums, Exit
<1>13. CASE SaveSources(p)
  BY <1>7, <1>13 DEF SaveSources
<1>14. CASE TrustSyncEnds(p) \/ RecordLock(p) \/ Crash(p)
  BY <1>2, <1>14 DEF TrustSyncEnds, RecordLock, Crash, Exit
<1>15. QED
  <2>1. CASE Command(p)
    <3>1. CASE UNCHANGED proc
      BY <1>1, <3>1
    <3>2. CASE TrustSync(p)
      BY <1>4, <3>2 DEF TrustSync
    <3>3. CASE \E r \in Registries : RegistrySync(p, r)
      BY <1>3, <3>3 DEF RegistrySync
    <3>4. QED
      BY <2>1, <3>1, <3>2, <3>3
         DEF Command, RegistryAdd, RegistryRemove, RegistryVerify, CacheClear, Keygen, TrustAdd, TrustRemove
  <2>2. CASE Continue(p)
    BY <2>2, <1>5, <1>9, <1>10, <1>11, <1>12, <1>13, <1>14 DEF Continue
  <2>3. QED
    BY <2>1, <2>2

LEMMA TypeStep == TypeOK /\ [Next]_vars => TypeOK'
<1> SUFFICES ASSUME TypeOK, [Next]_vars PROVE TypeOK'
  OBVIOUS
<1>1. ASSUME NEW p \in Procs, Command(p) \/ Continue(p) PROVE TypeOK'
  <2>1. UNCHANGED world /\ policy' \in Policies /\ remote' \in [Registries -> Releases]
        /\ published' \in [KeyIds -> Versions]
    BY <1>1, TypeOfRecords DEF TypeOK, world
  <2>2. QED
    BY <1>1, <2>1, TypeOfFiles, TypeOfRecords, TypeOfProcesses DEF TypeOK
<1>2. ASSUME NEW k \in KeyIds, NEW status \in Statuses, KeyEdited(k, status) PROVE TypeOK'
  <2>1. keys' \in [KeyIds -> KeyRecord]
    BY <1>2, ZenonT(60) DEF TypeOK, KeyEdited, KeyRecord
  <2>2. QED
    BY <1>2, <2>1 DEF TypeOK, KeyEdited, world
<1>3. ASSUME NEW r \in Registries, NEW release \in Releases, Publish(r, release) PROVE TypeOK'
  BY <1>3 DEF TypeOK, Publish, files
<1>4. ASSUME NEW k \in KeyIds, NEW v \in Versions, Rotate(k, v) PROVE TypeOK'
  BY <1>4 DEF TypeOK, Rotate, files
<1>5. CASE UNCHANGED vars
  BY <1>5 DEF TypeOK, vars
<1>6. QED
  BY <1>1, <1>2, <1>3, <1>4, <1>5 DEF Next

(* The only steps that touch the lockfile, and what they leave of its entries. *)
LEMMA LockSteps ==
    ASSUME TypeOK, [Next]_vars, lock' # lock
    PROVE  /\ UNCHANGED policy
           /\ \E p \in Procs :
                 \/ RecordLock(p)
                 \/ Crash(p) /\ lock' = [s \in Registries |-> NoEntry]
                 \/ \E r \in Registries : RegistryVerify(p, r)
<1>1. ASSUME NEW p \in Procs, Command(p) \/ Continue(p)
      PROVE  RecordLock(p) \/ (Crash(p) /\ lock' = [s \in Registries |-> NoEntry])
             \/ \E r \in Registries : RegistryVerify(p, r)
  BY <1>1 DEF Command, Continue, RegistryAdd, RegistryRemove, RegistrySync, CacheClear, Keygen,
              TrustAdd, TrustRemove, TrustSync, FetchKey, TrustSyncEnds, FetchCatalog,
              FetchManifest, FetchPlugin, WriteChecksums, SaveSources, Crash, files
<1>2. \E p \in Procs : Command(p) \/ Continue(p)
  BY DEF Next, vars, KeyEdited, Publish, Rotate, files
<1>3. UNCHANGED policy
  BY <1>2, TypeOfRecords DEF world
<1>4. QED
  BY <1>1, <1>2, <1>3

LEMMA PolicyNeverChanges == TypeOK /\ [Next]_vars => UNCHANGED policy
<1>1. ASSUME TypeOK, NEW p \in Procs, Command(p) \/ Continue(p) PROVE UNCHANGED policy
  BY <1>1, TypeOfRecords DEF world
<1>2. QED
  BY <1>1 DEF Next, vars, KeyEdited, Publish, Rotate, world

(* What RecordLock writes for the registry it is about. *)
LEMMA RecordedEntry ==
    ASSUME TypeOK, NEW p \in Procs, RecordLock(p), lock' # lock
    PROVE  \E q \in Registries :
              /\ proc[p].at = "lock"
              /\ proc[p].manifest \in Contents
              /\ lock'[q].catalog = proc[p].catalog
              /\ lock'[q].manifest = proc[p].manifest
              /\ lock'[q].trust = VerdictOf(SyncStatus(proc[p].manifest))
              /\ \A r \in Registries \ {q} : lock'[r] = lock[r]
<1>1. /\ proc[p] \in Download /\ proc[p].registry \in Registries /\ proc[p].at = "lock"
      /\ lock \in [Registries -> Entry]
  BY DEF TypeOK, RecordLock
<1>2. QED
  BY <1>1 DEF RecordLock, Download

(* What RegistryVerify writes: the entry keeps what it pins. *)
LEMMA VerifiedEntry ==
    ASSUME TypeOK, NEW p \in Procs, NEW q \in Registries, RegistryVerify(p, q)
    PROVE  /\ \A r \in Registries : /\ lock'[r].catalog = lock[r].catalog
                                    /\ lock'[r].manifest = lock[r].manifest
           /\ \A r \in Registries \ {q} : lock'[r] = lock[r]
           /\ \/ lock'[q].trust \in {lock[q].trust, "failed"}
              \/ /\ Passes(q) /\ VerifyStatus(cache[q].manifest) # "thrown"
                 /\ lock'[q].trust = VerdictOf(VerifyStatus(cache[q].manifest))
<1>1. lock \in [Registries -> Entry]
  BY DEF TypeOK
<1> DEFINE t == IF Passes(q) THEN VerdictOf(VerifyStatus(cache[q].manifest)) ELSE "failed"
<1>2. lock' = lock \/ lock' = [lock EXCEPT ![q].trust = t, ![q].lockfile = LockVerdict(q)]
  BY DEF RegistryVerify
<1>3. t = "failed" \/ (/\ Passes(q) /\ VerifyStatus(cache[q].manifest) # "thrown"
                      /\ t = VerdictOf(VerifyStatus(cache[q].manifest)))
  BY DEF Passes
<1> HIDE DEF t
<1>4. QED
  BY <1>1, <1>2, <1>3 DEF Entry

-----------------------------------------------------------------------------
(* A process gets past the checksums only with one release in its hands. *)
LEMMA ComparedStep == TypeOK /\ ComparedIsOneRelease /\ [Next]_vars => ComparedIsOneRelease'
<1> SUFFICES ASSUME TypeOK, ComparedIsOneRelease, [Next]_vars, policy.requireChecksum,
                    NEW q \in Procs
             PROVE  Compared(proc'[q])
  BY PolicyNeverChanges DEF ComparedIsOneRelease
<1>0. proc \in [Procs -> Download] /\ Compared(proc[q])
  BY DEF TypeOK, ComparedIsOneRelease
<1>1. ASSUME NEW p \in Procs, NEW d, Compared(d), proc' = [proc EXCEPT ![p] = d]
      PROVE  Compared(proc'[q])
  BY <1>0, <1>1
<1>2. Compared(Idle)
  BY DEF Compared, Idle
<1>3. ASSUME NEW p \in Procs, Command(p) PROVE Compared(proc'[q])
  <2>1. CASE UNCHANGED proc
    BY <1>0, <2>1
  <2>2. ASSUME NEW r \in Registries, RegistrySync(p, r) PROVE Compared(proc'[q])
    <3>1. Compared([Idle EXCEPT !.at = "catalog", !.registry = r, !.sources = sources])
      BY DEF Compared, Idle
    <3>2. QED
      BY <1>1, <2>2, <3>1 DEF RegistrySync
  <2>3. CASE TrustSync(p)
    <3>1. Compared([Idle EXCEPT !.at = "fetchKeys", !.keys = keys,
                                !.left = {k \in KeyIds : keys[k].present /\ keys[k].remote}])
      BY DEF Compared, Idle
    <3>2. QED
      BY <1>1, <2>3, <3>1 DEF TrustSync
  <2>4. QED
    BY <1>3, <2>1, <2>2, <2>3
       DEF Command, RegistryAdd, RegistryRemove, RegistryVerify, CacheClear, Keygen, TrustAdd, TrustRemove
<1>4. ASSUME NEW p \in Procs,
             \A o \in Procs \ {p} : proc'[o] = proc[o],
             proc'[p].at \notin {"sources", "lock"}
      PROVE  Compared(proc'[q])
  BY <1>0, <1>4 DEF Compared
<1>5. ASSUME NEW p \in Procs, NEW k \in KeyIds, FetchKey(p, k) PROVE Compared(proc'[q])
  <2>1. \A o \in Procs \ {p} : proc'[o] = proc[o]
    BY <1>0, <1>5 DEF FetchKey
  <2>2. proc'[p].at = "fetchKeys"
    BY <1>0, <1>5 DEF FetchKey, Download
  <2>3. QED
    BY <1>4, <2>1, <2>2
<1>6. ASSUME NEW p \in Procs, FetchCatalog(p) \/ FetchManifest(p) \/ FetchPlugin(p)
      PROVE  Compared(proc'[q])
  <2>1. \A o \in Procs \ {p} : proc'[o] = proc[o]
    BY <1>0, <1>6 DEF FetchCatalog, FetchManifest, FetchPlugin, Exit
  <2>2. proc'[p].at \in {"idle", "manifest", "plugin", "checksums"}
    <3>1. proc[p] \in Download
      BY <1>0
    <3>2. CASE FetchCatalog(p)
      BY <1>0, <3>1, <3>2 DEF FetchCatalog, Exit, Idle, Download
    <3>3. CASE FetchManifest(p)
      BY <1>0, <3>1, <3>3 DEF FetchManifest, Exit, Idle, Download
    <3>4. CASE FetchPlugin(p)
      BY <1>0, <3>1, <3>4 DEF FetchPlugin, Exit, Idle, Download
    <3>5. QED
      BY <1>6, <3>2, <3>3, <3>4
  <2>3. QED
    BY <1>4, <2>1, <2>2
<1>7. ASSUME NEW p \in Procs, WriteChecksums(p) PROVE Compared(proc'[q])
  <2>1. CASE proc' = [proc EXCEPT ![p] = Idle]
    BY <1>1, <1>2, <2>1
  <2>2. CASE /\ proc' = [proc EXCEPT ![p].at = "sources"]
             /\ proc[p].manifest \in Promising => proc[p].manifest = proc[p].catalog
    <3>1. Compared([proc[p] EXCEPT !.at = "sources"])
      BY <1>0, <2>2 DEF Compared, Download
    <3>2. QED
      BY <1>0, <1>1, <2>2, <3>1
  <2>3. QED
    BY <1>7, <2>1, <2>2 DEF WriteChecksums, Exit
<1>8. ASSUME NEW p \in Procs, SaveSources(p) PROVE Compared(proc'[q])
  <2>1. Compared(proc[p]) /\ proc[p] \in Download /\ proc[p].at = "sources"
    BY <1>0, <1>8 DEF SaveSources, ComparedIsOneRelease
  <2>2. Compared([proc[p] EXCEPT !.at = "lock"])
    BY <2>1 DEF Compared, Download
  <2>3. proc' = [proc EXCEPT ![p] = [proc[p] EXCEPT !.at = "lock"]]
    BY <1>0, <1>8 DEF SaveSources
  <2>4. QED
    BY <1>1, <2>2, <2>3
<1>9. ASSUME NEW p \in Procs, TrustSyncEnds(p) \/ RecordLock(p) \/ Crash(p)
      PROVE  Compared(proc'[q])
  BY <1>1, <1>2, <1>9 DEF TrustSyncEnds, RecordLock, Crash, Exit
<1>10. CASE UNCHANGED proc
  BY <1>0, <1>10
<1>11. QED
  BY <1>3, <1>5, <1>6, <1>7, <1>8, <1>9, <1>10
     DEF Next, Continue, vars, KeyEdited, Publish, Rotate

(* A cache gets a list of checksums only from the step that also describes it. *)
LEMMA UndescribedStep ==
    TypeOK /\ UndescribedHasNoChecksums /\ [Next]_vars => UndescribedHasNoChecksums'
<1> SUFFICES ASSUME TypeOK, UndescribedHasNoChecksums, [Next]_vars,
                    NEW q \in Registries, ~fresh'[q]
             PROVE  cache'[q].checksums.file # "written"
  BY DEF UndescribedHasNoChecksums
<1>0. /\ cache \in [Registries -> Cache] /\ fresh \in [Registries -> BOOLEAN]
      /\ ~fresh[q] => cache[q].checksums.file # "written"
  BY DEF TypeOK, UndescribedHasNoChecksums
<1>1. ASSUME NEW p \in Procs, NEW r \in Registries, RegistryRemove(p, r)
      PROVE  cache'[q].checksums.file # "written"
  BY <1>0, <1>1, BlankedType DEF RegistryRemove
<1>2. ASSUME NEW p \in Procs, CacheClear(p)
      PROVE  cache'[q].checksums.file # "written"
  BY <1>0, <1>2, BlankedType DEF CacheClear
<1>3. ASSUME NEW p \in Procs, WriteChecksums(p)
      PROVE  cache'[q].checksums.file # "written"
  <2>1. proc[p].registry # q
    BY <1>0, <1>3 DEF WriteChecksums
  <2>2. cache'[q] = cache[q] /\ fresh'[q] = fresh[q]
    BY <1>0, <1>3, <2>1 DEF WriteChecksums
  <2>3. QED
    BY <1>0, <2>2
<1>4. ASSUME NEW p \in Procs, FetchCatalog(p) \/ FetchManifest(p) \/ FetchPlugin(p)
      PROVE  cache'[q].checksums.file # "written"
  <2>1. fresh' = fresh
    BY <1>4 DEF FetchCatalog, FetchManifest, FetchPlugin
  <2>2. cache'[q].checksums = cache[q].checksums
    BY <1>0, <1>4 DEF FetchCatalog, FetchManifest, FetchPlugin, Cache
  <2>3. QED
    BY <1>0, <2>1, <2>2
<1>5. ASSUME NEW p \in Procs, Crash(p)
      PROVE  cache'[q].checksums.file # "written"
  <2>1. fresh' = fresh
    BY <1>5 DEF Crash
  <2>2. cache'[q].checksums \in {cache[q].checksums, [NoChecksums EXCEPT !.file = "blank"]}
    BY <1>0, <1>5 DEF Crash, Cache
  <2>3. QED
    BY <1>0, <2>1, <2>2 DEF NoChecksums
<1>6. CASE UNCHANGED <<cache, fresh>>
  BY <1>0, <1>6
<1>7. ASSUME NEW p \in Procs, Command(p)
      PROVE  cache'[q].checksums.file # "written"
  <2>1. \/ \E r \in Registries : RegistryRemove(p, r)
        \/ CacheClear(p)
        \/ UNCHANGED <<cache, fresh>>
    BY <1>7 DEF Command, files, RegistryAdd, RegistryVerify, RegistrySync, Keygen, TrustAdd,
                TrustRemove, TrustSync
  <2>2. QED
    BY <1>1, <1>2, <1>6, <2>1
<1>8. ASSUME NEW p \in Procs, Continue(p)
      PROVE  cache'[q].checksums.file # "written"
  <2>1. \/ WriteChecksums(p) \/ FetchCatalog(p) \/ FetchManifest(p) \/ FetchPlugin(p) \/ Crash(p)
        \/ UNCHANGED <<cache, fresh>>
    BY <1>8 DEF Continue, files, FetchKey, TrustSyncEnds, SaveSources, RecordLock
  <2>2. QED
    BY <1>3, <1>4, <1>5, <1>6, <2>1
<1>9. CASE \/ \E k \in KeyIds, status \in Statuses : KeyEdited(k, status)
           \/ \E r \in Registries, release \in Releases : Publish(r, release)
           \/ \E k \in KeyIds, v \in Versions : Rotate(k, v)
  BY <1>6, <1>9 DEF files, KeyEdited, Publish, Rotate
<1>10. QED
  BY <1>6, <1>7, <1>8, <1>9 DEF Next, vars

LEMMA LockedStep ==
    TypeOK /\ ComparedIsOneRelease /\ LockedIsOneRelease /\ [Next]_vars => LockedIsOneRelease'
<1> SUFFICES ASSUME TypeOK, ComparedIsOneRelease, LockedIsOneRelease, [Next]_vars,
                    policy.requireChecksum, NEW r \in Registries, lock'[r].manifest \in Promising
             PROVE  lock'[r].manifest = lock'[r].catalog
  BY PolicyNeverChanges DEF LockedIsOneRelease
<1>0. "absent" \notin Promising
  BY RegistryAssumption
<1>1. lock[r].manifest \in Promising => lock[r].manifest = lock[r].catalog
  BY DEF LockedIsOneRelease
<1>2. CASE lock' = lock
  BY <1>1, <1>2
<1>3. ASSUME NEW p \in Procs, RecordLock(p), lock' # lock PROVE lock'[r].manifest = lock'[r].catalog
  BY <1>1, <1>3, RecordedEntry DEF ComparedIsOneRelease, Compared
<1>4. CASE lock' = [s \in Registries |-> NoEntry]
  BY <1>0, <1>4 DEF NoEntry
<1>5. ASSUME NEW p \in Procs, NEW q \in Registries, RegistryVerify(p, q)
      PROVE  lock'[r].manifest = lock'[r].catalog
  BY <1>1, <1>5, VerifiedEntry
<1>6. QED
  BY <1>2, <1>3, <1>4, <1>5, LockSteps

LEMMA WaivedStep ==
    TypeOK /\ RequiredSignatureIsNeverWaived /\ [Next]_vars => RequiredSignatureIsNeverWaived'
<1> SUFFICES ASSUME TypeOK, RequiredSignatureIsNeverWaived, [Next]_vars,
                    policy.requireSignature, NEW r \in Registries, lock'[r].trust = "unsigned_allowed"
             PROVE  lock'[r].manifest \in Throwing
  BY PolicyNeverChanges DEF RequiredSignatureIsNeverWaived
<1>1. /\ lock[r].trust = "unsigned_allowed" => lock[r].manifest \in Throwing
      /\ cache \in [Registries -> Cache]
      /\ lock \in [Registries -> Entry]
  BY DEF RequiredSignatureIsNeverWaived, TypeOK
<1>2. CASE lock' = lock
  BY <1>1, <1>2
<1>3. ASSUME NEW p \in Procs, RecordLock(p), lock' # lock PROVE lock'[r].manifest \in Throwing
  BY <1>1, <1>3, RecordedEntry, StatusTypes
<1>4. CASE lock' = [s \in Registries |-> NoEntry]
  BY <1>4 DEF NoEntry
<1>5. ASSUME NEW p \in Procs, NEW q \in Registries, RegistryVerify(p, q)
      PROVE  lock'[r].manifest \in Throwing
  <2>1. cache[q].manifest \in Contents
    BY <1>1 DEF Cache
  <2>2. QED
    BY <1>1, <1>5, <2>1, VerifiedEntry, StatusTypes
<1>6. QED
  BY <1>2, <1>3, <1>4, <1>5, LockSteps

(* verify judges the manifest in the cache, and its verdict reaches the lockfile only when
   that is the locked manifest. *)
LEMMA VerdictStep ==
    TypeOK /\ VerdictIsAboutLockedManifest /\ [Next]_vars => VerdictIsAboutLockedManifest'
<1> SUFFICES ASSUME TypeOK, VerdictIsAboutLockedManifest, [Next]_vars, NEW r \in Registries,
                    lock'[r].trust = "verified", lock'[r].manifest \in Releases
             PROVE  \E b \in Blocks[lock'[r].manifest] : b.alg \in policy.algorithms
  BY PolicyNeverChanges DEF VerdictIsAboutLockedManifest
<1> DEFINE Signed(m) == \E b \in Blocks[m] : b.alg \in policy.algorithms
<1>1. /\ lock[r].trust = "verified" /\ lock[r].manifest \in Releases => Signed(lock[r].manifest)
      /\ cache \in [Registries -> Cache] /\ lock \in [Registries -> Entry]
  BY DEF VerdictIsAboutLockedManifest, TypeOK
<1>2. CASE lock' = lock
  BY <1>1, <1>2
<1>3. ASSUME NEW p \in Procs, RecordLock(p), lock' # lock PROVE Signed(lock'[r].manifest)
  <2>1. PICK m : m = lock'[r].manifest
    OBVIOUS
  <2>2. m \in Contents
    BY <2>1 DEF Contents
  <2>3. lock'[r] = lock[r] \/ VerdictOf(SyncStatus(m)) = "verified"
    BY <1>3, <2>1, RecordedEntry
  <2>4. VerdictOf(SyncStatus(m)) = "verified" => Signed(m)
    BY <2>2, StatusTypes
  <2>5. QED
    BY <1>1, <2>1, <2>3, <2>4
<1>4. CASE lock' = [s \in Registries |-> NoEntry]
  BY <1>4 DEF NoEntry
<1>5. ASSUME NEW p \in Procs, NEW q \in Registries, RegistryVerify(p, q)
      PROVE  Signed(lock'[r].manifest)
  <2>1. CASE lock'[r].trust = lock[r].trust
    BY <1>1, <1>5, <2>1, VerifiedEntry
  <2>2. CASE /\ r = q /\ Passes(q) /\ lock'[r].trust # lock[r].trust
             /\ VerifyStatus(cache[q].manifest) # "thrown"
             /\ VerdictOf(VerifyStatus(cache[q].manifest)) = "verified"
    <3>1. cache[q].manifest \in Releases /\ Signed(cache[q].manifest)
      BY <1>1, <2>2, StatusTypes DEF Cache
    <3>2. lock[q].manifest \in Releases /\ lock[q].manifest = lock'[q].manifest
      BY <1>5, <2>2, VerifiedEntry
    <3>3. cache[q].manifest = lock[q].manifest
      <4>1. LockVerdict(q) \notin {"failed", "tampered"}
        BY <2>2 DEF Passes
      <4>2. lock[q].present
        BY <1>5, <2>2 DEF RegistryVerify
      <4>3. QED
        BY <3>1, <3>2, <4>1, <4>2, RegistryAssumption DEF LockVerdict
    <3>4. QED
      BY <2>2, <3>1, <3>2, <3>3
  <2>3. QED
    <3>1. r # q => lock'[r] = lock[r]
      BY <1>5, VerifiedEntry
    <3>2. \/ lock'[q].trust \in {lock[q].trust, "failed"}
          \/ /\ Passes(q) /\ VerifyStatus(cache[q].manifest) # "thrown"
             /\ lock'[q].trust = VerdictOf(VerifyStatus(cache[q].manifest))
      BY <1>5, VerifiedEntry
    <3>3. CASE r # q
      BY <2>1, <3>1, <3>3
    <3>4. CASE r = q
      <4>1. lock'[q].trust # "failed"
        BY <3>4
      <4>2. CASE lock'[q].trust = lock[q].trust
        BY <2>1, <3>4, <4>2
      <4>3. CASE lock'[q].trust # lock[q].trust
        BY <2>2, <3>2, <3>4, <4>1, <4>3
      <4>4. QED
        BY <4>2, <4>3
    <3>5. QED
      BY <3>3, <3>4
<1>6. QED
  BY <1>2, <1>3, <1>4, <1>5, LockSteps

-----------------------------------------------------------------------------
LEMMA StepIInv == IInv /\ [Next]_vars => IInv'
BY TypeStep, ComparedStep, UndescribedStep, LockedStep, WaivedStep, VerdictStep DEF IInv

THEOREM Inductive == Spec => []IInv
BY InitIInv, StepIInv, PTL DEF Spec

(* Every file holds what some command wrote or is empty, for any number of processes, crashes
   and commands. *)
THEOREM TypeCorrect == Spec => []TypeOK
BY Inductive, PTL DEF IInv

(* However publishers, syncs and crashes interleave, a lockfile entry whose manifest gives the
   hash of its catalog pins one release. *)
THEOREM LockedIsAlwaysOneRelease == Spec => []LockedIsOneRelease
BY Inductive, PTL DEF IInv

(* No command records an allowed unsigned registry where signatures are required, but the sync
   of a manifest over which the verification throws. *)
THEOREM SignatureIsNeverWaived == Spec => []RequiredSignatureIsNeverWaived
BY Inductive, PTL DEF IInv

(* A recorded verdict is about the manifest it stands beside. *)
THEOREM VerdictIsAboutItsManifest == Spec => []VerdictIsAboutLockedManifest
BY Inductive, PTL DEF IInv

(* What was cleared or removed verifies again only after a sync has described it. *)
THEOREM ClearedNeverPassesAgain == Spec => []ClearedNeverPasses
<1>1. UndescribedHasNoChecksums => ClearedNeverPasses
  BY DEF UndescribedHasNoChecksums, ClearedNeverPasses, Passes, IntegrityVerified
<1>2. QED
  BY Inductive, <1>1, PTL DEF IInv
=============================================================================
