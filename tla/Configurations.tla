----------------------------- MODULE Configurations -----------------------------
(***************************************************************************)
(* Mail (with SmtpConfig), Migration, CollectorConfig and CtiEnrichment    *)
(* (with CtiConfig) side by side.  The services share nothing and are      *)
(* stopped while a migration runs, so that a behaviour is one of the four; *)
(* the variables are those of the one at work, and the others' stay as     *)
(* they are: those of Mail and of Migration in an initial state, the       *)
(* others' None.                                                           *)
(***************************************************************************)
EXTENDS Mail, Migration

CONSTANTS
  Config, Key, Address, Collector,             \* of the collectors
  Provider, Keyless, Document, Depth, Reader   \* of the CTI providers

ASSUME KeylessAssumption == Keyless \subseteq Provider /\ Depth \in Nat
ASSUME NullAssumption ==
  /\ None # "asked" /\ None \notin Relay \cup Password \cup Key \cup Address \cup Provider \cup Config
  /\ Collector \in {"ogo", "serenicity"}
  /\ OffersTls \subseteq Relay /\ Certified \subseteq Relay /\ OddSender \subseteq Relay

VARIABLES
  service,                                   \* the one at work
  stored, secrets, listed, cache, calling,   \* of the collectors
  keys, request, late,                       \* of the CTI providers
  enabled, outcome, worker, approved         \* of either: active, status, thread, accepted

Collectors == INSTANCE CollectorConfig WITH
  Mail <- Address, active <- enabled, status <- outcome, thread <- worker, accepted <- approved
Cti == INSTANCE CtiEnrichment WITH
  settings <- keys, active <- enabled, status <- outcome, thread <- worker, accepted <- approved,
  overtook <- late

ASSUME DocumentAssumption == \A p \in Provider : \A d \in Document[p] : Cti!Readable(d)

ofCollectors == <<stored, secrets, listed, cache, calling>>
ofCti == <<keys, request, late>>
ofEither == <<enabled, outcome, worker, approved>>

NoCollectors ==
  stored = None /\ secrets = None /\ listed = None /\ cache = None /\ calling = None
NoCti == keys = None /\ request = None /\ late = None
Neither == enabled = None /\ outcome = None /\ worker = None /\ approved = None

\* Mail has one initial state; of those of Migration, the empty database.
NoMigration == MigrationInit /\ schema = {} /\ environment = {}

ServicesInit ==
  /\ MailInit
  /\ \/ service = "smtp" /\ NoMigration /\ NoCollectors /\ NoCti /\ Neither
     \/ service = "migration" /\ MigrationInit /\ NoCollectors /\ NoCti /\ Neither
     \/ service = "collector" /\ NoMigration /\ Collectors!Init /\ NoCti
     \/ service = "cti" /\ NoMigration /\ Cti!EnrichmentInit /\ NoCollectors

ServicesNext ==
  /\ \/ service = "smtp" /\ MailNext /\ UNCHANGED <<migrationVars, ofCollectors, ofCti, ofEither>>
     \/ service = "migration" /\ MigrationNext /\ UNCHANGED <<mailVars, ofCollectors, ofCti, ofEither>>
     \/ service = "collector" /\ Collectors!Next /\ UNCHANGED <<mailVars, migrationVars, ofCti>>
     \/ service = "cti" /\ Cti!EnrichmentNext /\ UNCHANGED <<mailVars, migrationVars, ofCollectors>>
  /\ UNCHANGED service

services == <<service, mailVars, migrationVars, ofCollectors, ofCti, ofEither>>

ServicesSpec == ServicesInit /\ [][ServicesNext]_services

-------------------------------------------------------------------------------
(* Properties                                                              *)

\* The types of Mail, of Migration, and of the service at work.
ServicesTypeOK ==
  /\ MailTypeOK
  /\ MigrationTypeOK
  /\ service = "collector" => Collectors!TypeOK
  /\ service = "cti" => Cti!EnrichmentTypeOK

\* StatusAgrees of CollectorConfig.
CollectorStatusAgrees == service = "collector" => Collectors!StatusAgrees

\* The service of the collectors keeps the promise of ValidatedConfig as long as no
\* edit overtakes an activation (Promises of CollectorConfig).
CollectorPromises ==
  /\ service = "collector" =>
       \A c \in Config : stored[c] = "unborn" => Collectors!Promise(c)!Init
  /\ [][service = "collector" => \A c \in Config : Collectors!KeepsPromise(c)]_services

\* The same of the CTI service, provider by provider (Promises of CtiConfig); and no
\* provider is called with a key it has not accepted (CalledAccepted of CtiEnrichment).
CtiPromises ==
  /\ service = "cti" => \A p \in Provider : Cti!Promise(p)!Init
  /\ [][service = "cti" => \A p \in Provider : Cti!KeepsPromise(p)]_services
  /\ [](service = "cti" => \A x \in Reader : Cti!CalledAccepted(x))

\* That of CtiEnrichment.
EnrichmentAnswers == service = "cti" => Cti!EnrichmentAnswers
===============================================================================
