------------------------------ MODULE CertEstate ------------------------------
(***************************************************************************)
(* The two halves of the certificate code side by side: who orders, renews *)
(* and serves certificates (CertSystem) and how they are kept on disk      *)
(* (CertStore).  They meet in adoptCertificateAt and removeCertificate,    *)
(* which both model: CertSystem as one step, since stateMu excludes every  *)
(* other writer, and CertStore file by file.  A behaviour runs one half.   *)
(***************************************************************************)
EXTENDS CertSystem

CONSTANTS Id, Domain, names, Ordered, Legacy, Traefik, MaxStarts, MaxOffline

VARIABLES
    half,
    up, stored, loaded, mapped, certFile, keyFile, stateFile, legacy, archive, op,
    issued, starts, offline, clean

Store == INSTANCE CertStore WITH certificates <- stored, domainToCert <- mapped

\* What the store's constants are.
ASSUME StoreAssumption == Store!StoreConstants

storing == <<up, stored, loaded, mapped, certFile, keyFile, stateFile, legacy, archive, op,
             issued, starts, offline, clean>>

(* The half that stands still does so in one of its initial states. *)
EstateInit ==
    /\ half \in {"orders", "store"}
    /\ Init /\ (half = "store" => actors = {} /\ registered = {} /\ dynamic = {})
    /\ Store!Init /\ (half = "orders" => legacy = {})

EstateNext ==
    \/ half = "orders" /\ UNCHANGED <<half, storing>> /\ Next
    \/ half = "store" /\ UNCHANGED <<half, vars>> /\ Store!Next

EstateSpec == EstateInit /\ [][EstateNext]_<<half, vars, storing>>

-----------------------------------------------------------------------------
(* Every variable of the half that runs holds a value of its type. *)
EstateTypeOK == IF half = "orders" THEN TypeOK ELSE Store!TypeOK

(* What validateManagerState demands holds: of the maps in memory, however  *)
(* those who order, renew and deploy interleave, and of the store on disk,  *)
(* whatever crashes and fails; a store nothing failed on can be exported.   *)
StateIsTrustworthy ==
    IF half = "orders" THEN MapsAgree
    ELSE Store!StateIsTrustworthy /\ Store!HealthyExports

(* A restart serves what was served (adoptCertificateAt, loadState). *)
RestartServesSame == half = "store" => Store!RestartServesSame

(* A restore is whole, or visibly not done (RestoreCertificateStore). *)
RestoresWhole == half = "store" => Store!RestoresWhole
=============================================================================
