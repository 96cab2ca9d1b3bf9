----------------------------- MODULE CertStore -----------------------------
(***************************************************************************)
(* The certificate store on disk: the manager's adoption and removal of    *)
(* certificates and its state file (san_cert_manager.go,                   *)
(* san_cert_dynamic.go), the import of a legacy cache at boot              *)
(* (san_cert_import.go), the offline import from Traefik                   *)
(* (traefik_import.go), and the archive (cert_store_export.go,             *)
(* cert_store_archive.go, cert_store_restore.go).                          *)
(*                                                                         *)
(* A certificate is a number, its expiry: a later one is longer lived and  *)
(* no two orders give the same.  Its key has the same number, so a pair of *)
(* files parses when the two are equal.  0 is no certificate, or no file.  *)
(* An identifier names a fixed set of domains.                             *)
(*                                                                         *)
(* Every write of the store is made by one operation at a time: the        *)
(* manager's hold stateMu throughout, the offline ones run while no proxy  *)
(* does.  What the crash between two of its steps leaves on disk is what   *)
(* the next boot finds.                                                    *)
(***************************************************************************)
EXTENDS Naturals, Sequences, Functions

CONSTANTS
    Id, Domain, names,      \* names[id]: the domains of a certificate
    None,
    Ordered,                \* the certificates the CA will issue, in order
    Legacy,                 \* the legacy caches there may be: sets of [id, cert],
                            \* cert 0 being one that cannot be read
    Traefik,                \* the entries of the Traefik file, in order: [id, cert]
    MaxStarts, MaxOffline   \* boots, and offline commands, in a run

(* Every certificate has an expiry and every entry of a cache an identifier, *)
(* only a legacy cache has entries that cannot be read, and None is no       *)
(* operation and no state file.                                              *)
StoreConstants ==
    /\ Ordered \in Seq(Nat \ {0})
    /\ Legacy \subseteq SUBSET [id : Id, cert : Nat]
    /\ Traefik \in Seq([id : Id, cert : Nat \ {0}])
    /\ None \notin {"adopt", "remove", "boot", "restore", "import"}
    /\ None \notin [certs : [Id -> Nat], map : [Domain -> Id \cup {None}]]

VARIABLES
    up,             \* a proxy runs, and is past its boot
    certificates,   \* identifier -> the expiry its record has, 0 when it has none
    loaded,         \* identifier -> the certificate in memory
    domainToCert,   \* domain -> identifier or None
    certFile, keyFile,
    stateFile,      \* None or [certs, map]
    legacy,         \* what is left of the legacy cache
    archive,        \* None or [state, pairs]: the last export
    op,             \* the operation at work on the disk
    issued,         \* orders so far
    starts, offline,
    clean           \* no write failed and no operation was cut short

vars == <<up, certificates, loaded, domainToCert, certFile, keyFile, stateFile,
          legacy, archive, op, issued, starts, offline, clean>>

memory == <<certificates, loaded, domainToCert>>
files == <<certFile, keyFile>>
counters == <<issued, starts, offline>>

NoCert == [i \in Id |-> 0]
NoMap == [d \in Domain |-> None]
Managed(certs) == {i \in Id : certs[i] # 0}

Idle == [kind |-> None]

Init ==
    /\ up = FALSE
    /\ certificates = NoCert /\ loaded = NoCert /\ domainToCert = NoMap
    /\ certFile = NoCert /\ keyFile = NoCert
    /\ stateFile = None
    /\ legacy \in Legacy
    /\ archive = None
    /\ op = Idle
    /\ issued = 0 /\ starts = 0 /\ offline = 0
    /\ clean = TRUE

Snapshot == [certs |-> certificates, map |-> domainToCert]

-----------------------------------------------------------------------------
(***************************************************************************)
(* writeCertificateFiles: both files are staged, then renamed one after    *)
(* the other.  The caller goes on to next when they are written and to     *)
(* failed when they are not.                                               *)
(***************************************************************************)
RenameCert ==
    /\ op.kind # None /\ op.pc = "cert"
    /\ certFile' = [certFile EXCEPT ![op.id] = op.cert]
    /\ op' = [op EXCEPT !.pc = "key"]
    /\ UNCHANGED <<up, memory, keyFile, stateFile, legacy, archive, counters, clean>>

RenameKey ==
    /\ op.kind # None /\ op.pc = "key"
    /\ keyFile' = [keyFile EXCEPT ![op.id] = op.cert]
    /\ op' = [op EXCEPT !.pc = "written"]
    /\ UNCHANGED <<up, memory, certFile, stateFile, legacy, archive, counters, clean>>

\* The disk is full, or a rename fails: the manager warns and goes on, an
\* offline command gives up.
WriteFails ==
    /\ op.kind # None /\ op.pc \in {"cert", "key"}
    /\ op' = IF op.kind = "adopt" THEN [op EXCEPT !.pc = "written"] ELSE Idle
    /\ clean' = FALSE
    /\ UNCHANGED <<up, memory, files, stateFile, legacy, archive, counters>>

-----------------------------------------------------------------------------
(***************************************************************************)
(* The manager.  stateMu is held while op is not Idle.                     *)
(***************************************************************************)
\* adoptCertificateAt up to saveCertificate; boot tells the import's from an
\* order's.
Adopt(id, cert, boot) ==
    /\ certificates' = [certificates EXCEPT ![id] = cert]
    /\ loaded' = [loaded EXCEPT ![id] = cert]
    /\ domainToCert' = [d \in Domain |-> IF d \in names[id] THEN id ELSE domainToCert[d]]
    /\ op' = [kind |-> "adopt", pc |-> "cert", id |-> id, cert |-> cert, boot |-> boot]

adoptCertificate(id) ==
    /\ up /\ op.kind = None
    /\ issued < Len(Ordered)
    /\ issued' = issued + 1
    /\ Adopt(id, Ordered[issued'], None)
    /\ UNCHANGED <<up, files, stateFile, legacy, archive, starts, offline, clean>>

persistState_AdoptOnly ==
    /\ \/ op.kind = "adopt" /\ op.pc = "written"
       \/ op.kind = "remove" /\ op.pc = "removed"
    /\ stateFile' = IF op.kind = "adopt" THEN Snapshot ELSE stateFile
    /\ op' = IF op.kind = "adopt" /\ op.boot # None
             THEN [kind |-> "boot", pc |-> "import", todo |-> op.boot.todo, failed |-> op.boot.failed,
                   imported |-> TRUE]
             ELSE Idle
    /\ UNCHANGED <<up, memory, files, legacy, archive, counters, clean>>

\* Waits for the state file while stateMu is held; the write may fail.
persistState ==
    /\ \/ op.kind = "adopt" /\ op.pc = "written"
       \/ op.kind = "remove" /\ op.pc = "removed"
    /\ \/ stateFile' = Snapshot /\ UNCHANGED clean
       \/ UNCHANGED stateFile /\ clean' = FALSE
    /\ op' = IF op.kind = "adopt" /\ op.boot # None
             THEN [kind |-> "boot", pc |-> "import", todo |-> op.boot.todo, failed |-> op.boot.failed,
                   imported |-> TRUE]
             ELSE Idle
    /\ UNCHANGED <<up, memory, files, legacy, archive, counters>>

removeCertificate_KeepsMap(id) ==
    /\ up /\ op.kind = None
    /\ certificates[id] # 0
    /\ certificates' = [certificates EXCEPT ![id] = 0]
    /\ loaded' = [loaded EXCEPT ![id] = 0]
    /\ op' = [kind |-> "remove", pc |-> "unlink", id |-> id]
    /\ UNCHANGED <<up, domainToCert, files, stateFile, legacy, archive, counters, clean>>

\* removeCertificate: the maps, then RemoveAll of the directory, file by file.
removeCertificate(id) ==
    /\ up /\ op.kind = None
    /\ certificates[id] # 0
    /\ certificates' = [certificates EXCEPT ![id] = 0]
    /\ loaded' = [loaded EXCEPT ![id] = 0]
    /\ domainToCert' = [d \in Domain |-> IF domainToCert[d] = id THEN None ELSE domainToCert[d]]
    /\ op' = [kind |-> "remove", pc |-> "unlink", id |-> id]
    /\ UNCHANGED <<up, files, stateFile, legacy, archive, counters, clean>>

Unlink(id) ==
    \/ /\ certFile[id] # 0
       /\ certFile' = [certFile EXCEPT ![id] = 0] /\ UNCHANGED keyFile
    \/ /\ certFile[id] = 0 /\ keyFile[id] # 0
       /\ keyFile' = [keyFile EXCEPT ![id] = 0] /\ UNCHANGED certFile

RemoveFiles ==
    /\ op.kind = "remove" /\ op.pc = "unlink"
    /\ \/ Unlink(op.id) /\ UNCHANGED <<op, clean>>
       \/ /\ certFile[op.id] = 0 /\ keyFile[op.id] = 0
          /\ op' = [op EXCEPT !.pc = "removed"]
          /\ UNCHANGED <<files, clean>>
       \/ /\ <<certFile[op.id], keyFile[op.id]>> # <<0, 0>>     \* RemoveAll fails
          /\ op' = [op EXCEPT !.pc = "removed"]
          /\ clean' = FALSE
          /\ UNCHANGED files
    /\ UNCHANGED <<up, memory, stateFile, legacy, archive, counters>>

\* RegisterDomain finds a managed certificate that names the domain while the
\* domain's own is missing or about to expire; m.mu alone is held.
RegisterDomain(d, id) ==
    /\ up
    /\ certificates[id] # 0 /\ d \in names[id]
    /\ domainToCert[d] # None => certificates[domainToCert[d]] < certificates[id]
    /\ domainToCert' = [domainToCert EXCEPT ![d] = id]
    /\ UNCHANGED <<up, certificates, loaded, files, stateFile, legacy, archive, op,
                   counters, clean>>

-----------------------------------------------------------------------------
(***************************************************************************)
(* Boot: the state is loaded, then the legacy cache is adopted entry by    *)
(* entry; the cache goes when no entry failed.                             *)
(***************************************************************************)
Parses(id) == certFile[id] # 0 /\ certFile[id] = keyFile[id]

loadState ==
    /\ ~up /\ op.kind = None
    /\ starts < MaxStarts
    /\ starts' = starts + 1
    /\ certificates' = IF stateFile = None THEN NoCert ELSE stateFile.certs
    /\ domainToCert' = IF stateFile = None THEN NoMap ELSE stateFile.map
    /\ loaded' = [i \in Id |-> IF certificates'[i] # 0 /\ Parses(i) THEN certFile[i] ELSE 0]
    /\ op' = [kind |-> "boot", pc |-> "import", todo |-> legacy, failed |-> FALSE,
              imported |-> FALSE]
    /\ UNCHANGED <<up, files, stateFile, legacy, archive, issued, offline, clean>>

importLegacyHTTP01Cache ==
    /\ op.kind = "boot" /\ op.pc = "import"
    /\ \/ \E e \in op.todo :
            LET rest == [todo |-> op.todo \ {e}, failed |-> op.failed \/ e.cert = 0]
            IN  IF e.cert = 0
                THEN /\ op' = [op EXCEPT !.todo = rest.todo, !.failed = TRUE]
                     /\ UNCHANGED <<up, memory, legacy>>
                ELSE /\ Adopt(e.id, e.cert, rest)
                     /\ UNCHANGED <<up, legacy>>
       \/ /\ op.todo = {}
          /\ legacy' = IF op.failed \/ ~op.imported THEN legacy ELSE {}
          /\ up' = TRUE
          /\ op' = Idle
          /\ UNCHANGED memory
    /\ UNCHANGED <<files, stateFile, archive, counters, clean>>

\* The proxy dies, or is stopped: between two operations nothing is lost.
Crash ==
    /\ up \/ op.kind \in {"boot", "adopt", "remove"}
    /\ up' = FALSE
    /\ certificates' = NoCert /\ loaded' = NoCert /\ domainToCert' = NoMap
    /\ clean' = (clean /\ op.kind \notin {"adopt", "remove"})
    /\ op' = Idle
    /\ UNCHANGED <<files, stateFile, legacy, archive, counters>>

-----------------------------------------------------------------------------
(***************************************************************************)
(* The archive.                                                            *)
(***************************************************************************)
validateManagerState(state) ==
    \A d \in Domain : state.map[d] # None =>
        state.certs[state.map[d]] # 0 /\ d \in names[state.map[d]]

\* Pairs without a state file, and a pair that is not what its record says,
\* are refused; a record without a pair is a warning.
validate(a) ==
    /\ a.state = None => Managed(a.pairs) = {}
    /\ a.state # None =>
         /\ validateManagerState(a.state)
         /\ \A i \in Managed(a.state.certs) : a.pairs[i] \in {0, a.state.certs[i]}

\* Every directory whose pair parses, the state file's or not.
Collected == [state |-> stateFile, pairs |-> [i \in Id |-> IF Parses(i) THEN certFile[i] ELSE 0]]

\* A running proxy holds stateMu; offline no lock is needed.
ExportCertificateStore ==
    /\ op.kind = None
    /\ offline < MaxOffline
    /\ offline' = offline + 1
    /\ Collected # [state |-> None, pairs |-> NoCert]
    /\ validate(Collected)
    /\ archive' = Collected
    /\ UNCHANGED <<up, memory, files, stateFile, legacy, op, issued, starts, clean>>

certStoreOccupied == stateFile # None \/ \E i \in Id : certFile[i] # 0 \/ keyFile[i] # 0

RestoreCertificateStore(force) ==
    /\ ~up /\ op.kind = None
    /\ offline < MaxOffline
    /\ offline' = offline + 1
    /\ archive # None
    /\ force \/ ~certStoreOccupied
    /\ op' = [kind |-> "restore", pc |-> "next", id |-> None, cert |-> 0,
              todo |-> Managed(archive.pairs), fresh |-> ~certStoreOccupied]
    /\ UNCHANGED <<up, memory, files, stateFile, legacy, archive, issued, starts, clean>>

\* The pairs in turn, and the state file after the last one.
RestoreNext ==
    /\ op.kind = "restore" /\ op.pc \in {"next", "written"}
    /\ IF op.todo # {}
       THEN /\ \E i \in op.todo :
                  op' = [op EXCEPT !.pc = "cert", !.id = i, !.cert = archive.pairs[i],
                                   !.todo = @ \ {i}]
            /\ UNCHANGED <<stateFile, clean>>
       ELSE \/ /\ op' = Idle /\ clean' = FALSE          \* the write fails
               /\ UNCHANGED stateFile
            \/ /\ stateFile' = IF archive.state = None THEN stateFile ELSE archive.state
               /\ op' = [op EXCEPT !.pc = "stale"]
               /\ UNCHANGED clean
    /\ UNCHANGED <<up, memory, files, legacy, archive, counters>>

Stale ==
    IF archive.state = None THEN {}
    ELSE {i \in Managed(archive.state.certs) : archive.pairs[i] = 0}

removeStaleCertDirs_Skipped ==
    /\ op.kind = "restore" /\ op.pc = "stale"
    /\ op' = [op EXCEPT !.pc = "done"]
    /\ UNCHANGED <<up, memory, files, stateFile, legacy, archive, counters, clean>>

removeStaleCertDirs ==
    /\ op.kind = "restore" /\ op.pc = "stale"
    /\ \/ \E i \in Stale : Unlink(i) /\ UNCHANGED op
       \/ /\ \A i \in Stale : certFile[i] = 0 /\ keyFile[i] = 0
          /\ op' = [op EXCEPT !.pc = "done"]
          /\ UNCHANGED files
    /\ UNCHANGED <<up, memory, stateFile, legacy, archive, counters, clean>>

\* A complete restore also mends what an earlier fault left behind.
RestoreReturns ==
    /\ op.kind = "restore" /\ op.pc = "done"
    /\ op' = Idle
    /\ clean' = (archive.state # None \/ clean)
    /\ UNCHANGED <<up, memory, files, stateFile, legacy, archive, counters>>

-----------------------------------------------------------------------------
(***************************************************************************)
(* The import of a Traefik file, merged into the state at hand.            *)
(***************************************************************************)
ImportTraefikCertificates ==
    /\ ~up /\ op.kind = None
    /\ offline < MaxOffline
    /\ offline' = offline + 1
    /\ stateFile # None => validateManagerState(stateFile)
    /\ op' = [kind |-> "import", pc |-> "entry", id |-> None, cert |-> 0, k |-> 1, by |-> {},
              state |-> IF stateFile = None THEN [certs |-> NoCert, map |-> NoMap] ELSE stateFile]
    /\ UNCHANGED <<up, memory, files, stateFile, legacy, archive, issued, starts, clean>>

\* The domains an entry gets: those an earlier entry of this run wrote, and
\* those whose certificate it outlives.
claimDomains(id, cert) ==
    {d \in names[id] : \/ d \in op.by
                       \/ op.state.map[d] = None
                       \/ op.state.certs[op.state.map[d]] < cert}

importEntry ==
    /\ op.kind = "import" /\ op.pc = "entry"
    /\ IF op.k <= Len(Traefik)
       THEN /\ op' = IF claimDomains(Traefik[op.k].id, Traefik[op.k].cert) = {}
                     THEN [op EXCEPT !.k = @ + 1]
                     ELSE [op EXCEPT !.pc = "cert", !.id = Traefik[op.k].id,
                                     !.cert = Traefik[op.k].cert]
            /\ UNCHANGED <<stateFile, clean>>
       ELSE /\ op' = Idle
            /\ \/ stateFile' = op.state /\ UNCHANGED clean
               \/ UNCHANGED stateFile /\ clean' = FALSE
    /\ UNCHANGED <<up, memory, files, legacy, archive, counters>>

\* The pair is written: its record and the domains it won.
ImportWritten ==
    /\ op.kind = "import" /\ op.pc = "written"
    /\ LET won == claimDomains(op.id, op.cert)
       IN  op' = [op EXCEPT !.pc = "entry", !.k = @ + 1, !.by = @ \cup won,
                    !.state = [certs |-> [op.state.certs EXCEPT ![op.id] = op.cert],
                               map |-> [d \in Domain |-> IF d \in won THEN op.id
                                                         ELSE op.state.map[d]]]]
    /\ UNCHANGED <<up, memory, files, stateFile, legacy, archive, counters, clean>>

\* An offline command is cut short.
Interrupted ==
    /\ op.kind \in {"restore", "import"}
    /\ op' = Idle
    /\ clean' = FALSE
    /\ UNCHANGED <<up, memory, files, stateFile, legacy, archive, counters>>

\* The archive is taken to another host, whose data directory is empty.
NewHost ==
    /\ ~up /\ op.kind = None
    /\ archive # None /\ certStoreOccupied
    /\ certFile' = NoCert /\ keyFile' = NoCert /\ stateFile' = None /\ legacy' = {}
    /\ clean' = TRUE
    /\ UNCHANGED <<up, memory, archive, op, counters>>

Next ==
    \/ RenameCert \/ RenameKey \/ WriteFails \/ persistState \/ RemoveFiles
    \/ \E i \in Id : adoptCertificate(i) \/ removeCertificate(i)
    \/ \E d \in Domain, i \in Id : RegisterDomain(d, i)
    \/ loadState \/ importLegacyHTTP01Cache \/ Crash
    \/ ExportCertificateStore \/ (\E force \in BOOLEAN : RestoreCertificateStore(force))
    \/ RestoreNext \/ removeStaleCertDirs \/ RestoreReturns
    \/ ImportTraefikCertificates \/ importEntry \/ ImportWritten
    \/ Interrupted \/ NewHost

Spec == Init /\ [][Next]_vars

-----------------------------------------------------------------------------
Cert == {0} \cup Range(Ordered) \cup {e.cert : e \in UNION Legacy} \cup {e.cert : e \in Range(Traefik)}

TypeOK ==
    /\ up \in BOOLEAN /\ clean \in BOOLEAN
    /\ certificates \in [Id -> Cert] /\ loaded \in [Id -> Cert]
    /\ domainToCert \in [Domain -> Id \cup {None}]
    /\ certFile \in [Id -> Cert] /\ keyFile \in [Id -> Cert]
    /\ stateFile # None => /\ stateFile.certs \in [Id -> Cert]
                           /\ stateFile.map \in [Domain -> Id \cup {None}]
    /\ legacy \subseteq UNION Legacy
    /\ issued \in 0 .. Len(Ordered)
    /\ up => op.kind \in {None, "adopt", "remove"}

\* Whatever crashes, failed writes, imports and restores came before, the state
\* file and the maps in memory name only certificates they have a record of, and
\* map a domain only to one that covers it (validateManagerState: "the invariants
\* a healthy manager always maintains").
StateIsTrustworthy ==
    /\ stateFile # None => validateManagerState(stateFile)
    /\ validateManagerState(Snapshot)
    /\ archive # None => validate(archive)

\* A proxy that crashes between two operations finds at its next boot every
\* certificate it had, the renewed ones renewed and the removed ones gone
\* (adoptCertificateAt, removeCertificate, persistStateLocked, loadState).
RestartServesSame ==
    clean /\ up /\ op.kind = None /\ certificates # NoCert =>
        /\ stateFile # None /\ stateFile.certs = certificates
        /\ \A i \in Managed(certificates) : loaded[i] = IF Parses(i) THEN certFile[i] ELSE 0

\* As long as no write failed and no operation was cut short, an export between
\* two operations is never refused (ExportStore, verifyStagedArchive).
HealthyExports ==
    clean /\ op.kind = None /\ stateFile # None => validate(Collected)

\* A completed restore left exactly what the archive holds: its state, its pairs,
\* and nothing under the name of a certificate it lacks, whatever was there before
\* (RestoreCertificateStore, removeStaleCertDirs).
RestoredAsArchived ==
    op.kind = "restore" /\ op.pc = "done" /\ archive.state # None =>
        /\ stateFile = archive.state
        /\ \A i \in Managed(archive.pairs) \cup Managed(archive.state.certs) :
              certFile[i] = archive.pairs[i] /\ keyFile[i] = archive.pairs[i]

\* A restore into an empty store that is cut short never leaves a state file that
\* names an archived certificate whose pair is not in place yet
\* (RestoreCertificateStore: "The state file is written last").
RestoreCommitsLast ==
    op.kind = "restore" /\ op.fresh /\ stateFile # None =>
        \A i \in Managed(archive.pairs) : Parses(i)

\* A restore leaves what was archived when it completes and nothing that would be
\* taken for it when it does not (RestoreCertificateStore).
RestoresWhole == RestoredAsArchived /\ RestoreCommitsLast

\* A crash never leaves a torn pair of files.
NeverTornPair == op.kind = None => \A i \in Id : certFile[i] = keyFile[i]

\* A boot never replaces a certificate on disk by one that expires earlier.
BootKeepsNewer ==
    [][op.kind = "adopt" /\ op.boot # None => \A i \in Id : certFile'[i] >= certFile[i]]_vars

\* A domain keeps its certificate in an import if that outlives the imported one.
ImportKeepsLongerLived ==
    [][op.kind = "import" => \A d \in Domain : stateFile # None /\ stateFile.map[d] # None =>
          certFile'[stateFile.map[d]] >= certFile[stateFile.map[d]]]_vars

\* The expiry a record has is not later than that of the certificate served.
RecordNeverOutlives ==
    up => \A i \in Id : loaded[i] # 0 => certificates[i] <= loaded[i]
=============================================================================
