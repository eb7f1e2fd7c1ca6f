---------------------------- MODULE CollectorConfig ----------------------------
(***************************************************************************)
(* The configurations of the attack collectors: the service of the API     *)
(* that edits, validates and activates them, and the scheduler that takes  *)
(* their secrets to collect.                                               *)
(*                                                                         *)
(* The API serves each request in a thread of its own.  An activation      *)
(* reads the row, calls the provider with the secrets it read, and then    *)
(* writes the outcome whatever became of the row; the other requests are   *)
(* one transaction.                                                        *)
(***************************************************************************)
CONSTANTS
  Config,      \* identifiers that table attacks_collector_config gives out
  Key, Mail,   \* API keys and e-mail addresses
  None,        \* NULL
  Thread,      \* threads of the API
  Collector    \* what the collector at work needs: "ogo" or "serenicity"

Type == {"ogo", "serenicity"}
Secrets == [type : Type, key : Key \cup {None}, mail : Mail \cup {None}]
Status == {"not_tested", "success", "failed"}

VARIABLES
  stored,      \* whether the row exists
  secrets,     \* its type, API key and e-mail
  active,      \* is_active
  status,      \* last_validation_status
  thread,      \* the activation a thread is busy with
  accepted,    \* history: secrets the provider accepted
  listed,      \* the active configurations the collector listed, with the
               \* credentials they had then
  cache,       \* credentials the collector keeps for the life of the process
  calling      \* credentials of the collection in progress

vars == <<stored, secrets, active, status, thread, accepted, listed, cache, calling>>
table == <<stored, secrets, active, status>>
scheduler == <<listed, cache, calling>>

Idle == [config |-> None]
Activation == [config : Config, secrets : Secrets]

\* The credentials the collector takes from a row: Serenicity's needs the key only.
Credentials == [key : Key \cup {None}, mail : Mail \cup {None}]
NoCredentials == [key |-> None, mail |-> None]
CredentialsOf(s) == [key |-> s.key, mail |-> IF Collector = "ogo" THEN s.mail ELSE None]
NotListed == [key |-> None]

\* The credentials a call is made with, and (history) those of the row when the
\* collector listed it and when it makes the call.
Call == [with : Credentials, listed : Credentials, row : Credentials]
NoCall == [with |-> NoCredentials]

TypeOK ==
  /\ stored \in [Config -> {"unborn", "stored", "deleted"}]
  /\ secrets \in [Config -> Secrets]
  /\ active \in [Config -> BOOLEAN]
  /\ status \in [Config -> Status]
  /\ thread \in [Thread -> Activation \cup {Idle}]
  /\ accepted \in [Config -> SUBSET Secrets]
  /\ listed \in [Config -> Credentials \cup {NotListed}]
  /\ cache \in [Config -> Credentials]
  /\ calling \in [Config -> Call \cup {NoCall}]

\* What an activation, and a collection, cannot do without.
Complete(kind, s) == s.key # None /\ (kind = "ogo" => s.mail # None)

NoSecrets == [type |-> "ogo", key |-> None, mail |-> None]

\* The configurations that the V2 migration made of the environment of a V1
\* deployment: active, and untested.
Inherited == {s \in Secrets : Complete(s.type, s) /\ (s.type = "serenicity" => s.mail = None)}

Init ==
  /\ secrets \in [Config -> Inherited \cup {NoSecrets}]
  /\ stored = [c \in Config |-> IF secrets[c] = NoSecrets THEN "unborn" ELSE "stored"]
  /\ active = [c \in Config |-> stored[c] = "stored"]
  /\ status = [c \in Config |-> "not_tested"]
  /\ thread = [t \in Thread |-> Idle]
  /\ accepted = [c \in Config |-> {}]
  /\ listed = [c \in Config |-> NotListed]
  /\ cache = [c \in Config |-> NoCredentials]
  /\ calling = [c \in Config |-> NoCall]

-------------------------------------------------------------------------------
(* AttacksCollectorConfigService                                           *)

Free == \E t \in Thread : thread[t] = Idle

\* The row is inactive and its validation forgotten.
Reset(c) ==
  /\ active' = [active EXCEPT ![c] = FALSE]
  /\ status' = [status EXCEPT ![c] = "not_tested"]

Create(c) ==
  /\ Free
  /\ stored[c] = "unborn"
  /\ stored' = [stored EXCEPT ![c] = "stored"]
  /\ \E s \in Secrets : secrets' = [secrets EXCEPT ![c] = s]
  /\ Reset(c)
  /\ UNCHANGED <<thread, accepted, scheduler>>

\* update_config with at least one of type, key and e-mail; a secret is replaced,
\* never removed.
Update(c) ==
  /\ Free
  /\ stored[c] = "stored"
  /\ \E t \in Type, k \in Key \cup {secrets[c].key}, m \in Mail \cup {secrets[c].mail} :
       secrets' = [secrets EXCEPT ![c] = [type |-> t, key |-> k, mail |-> m]]
  /\ Reset(c)
  /\ UNCHANGED <<stored, thread, accepted, scheduler>>

DeleteApiKey(c) ==
  /\ Free
  /\ stored[c] = "stored"
  /\ secrets' = [secrets EXCEPT ![c].key = None]
  /\ Reset(c)
  /\ UNCHANGED <<stored, thread, accepted, scheduler>>

DeleteEmail(c) ==
  /\ Free
  /\ stored[c] = "stored"
  /\ secrets' = [secrets EXCEPT ![c].mail = None]
  /\ Reset(c)
  /\ UNCHANGED <<stored, thread, accepted, scheduler>>

\* Mutant: a deactivation does not touch the outcome of the validation.
DeactivateKeepsStatus(c) ==
  /\ Free
  /\ stored[c] = "stored"
  /\ active' = [active EXCEPT ![c] = FALSE]
  /\ UNCHANGED <<stored, secrets, status, thread, accepted, scheduler>>

Deactivate(c) ==
  /\ Free
  /\ stored[c] = "stored"
  /\ Reset(c)
  /\ UNCHANGED <<stored, secrets, thread, accepted, scheduler>>

DeleteConfig(c) ==
  /\ Free
  /\ stored[c] = "stored"
  /\ stored' = [stored EXCEPT ![c] = "deleted"]
  /\ secrets' = [secrets EXCEPT ![c] = NoSecrets]
  /\ Reset(c)
  /\ UNCHANGED <<thread, accepted, scheduler>>

\* activate_config loads the row ...
BeginActivation(t, c) ==
  /\ thread[t] = Idle
  /\ stored[c] = "stored"
  /\ thread' = [thread EXCEPT ![t] = [config |-> c, secrets |-> secrets[c]]]
  /\ UNCHANGED <<table, accepted, scheduler>>

Busy(t) == thread[t] # Idle
Release(t) == thread' = [thread EXCEPT ![t] = Idle]

\* Mutant: nothing is asked of the provider about an incomplete configuration.
AcceptUnasked(t) ==
  LET c == thread[t].config  s == thread[t].secrets IN
  /\ Busy(t)
  /\ accepted' = [accepted EXCEPT ![c] = IF Complete(s.type, s) THEN @ \cup {s} ELSE @]
  /\ active' = [active EXCEPT ![c] = stored[c] = "stored"]
  /\ status' = [status EXCEPT ![c] = IF stored[c] = "stored" THEN "success" ELSE @]
  /\ Release(t)
  /\ UNCHANGED <<stored, secrets, scheduler>>

\* ... the provider accepts the secrets that were loaded, and the row that bears the
\* identifier becomes active ...
AcceptActivation(t) ==
  LET c == thread[t].config  s == thread[t].secrets IN
  /\ Busy(t)
  /\ Complete(s.type, s)
  /\ accepted' = [accepted EXCEPT ![c] = @ \cup {s}]
  /\ IF stored[c] = "stored"
       THEN /\ active' = [active EXCEPT ![c] = TRUE]
            /\ status' = [status EXCEPT ![c] = "success"]
       ELSE UNCHANGED <<active, status>>
  /\ Release(t)
  /\ UNCHANGED <<stored, secrets, scheduler>>

\* ... or they are incomplete, or refused, or the provider does not answer.
RefuseActivation(t) ==
  LET c == thread[t].config IN
  /\ Busy(t)
  /\ IF stored[c] = "stored"
       THEN /\ active' = [active EXCEPT ![c] = FALSE]
            /\ status' = [status EXCEPT ![c] = "failed"]
       ELSE UNCHANGED <<active, status>>
  /\ Release(t)
  /\ UNCHANGED <<stored, secrets, accepted, scheduler>>

\* A secret cannot be decrypted, the answer of the provider is cut (the client does not
\* expect it), the outcome cannot be written, or the API stops.
AbandonActivation(t) ==
  /\ Busy(t)
  /\ Release(t)
  /\ UNCHANGED <<table, accepted, scheduler>>

-------------------------------------------------------------------------------
(* The collector, in the scheduler                                         *)

\* It lists the sources whose configuration is active and of its type ...
ListSources ==
  /\ \A c \in Config : listed[c] = NotListed /\ calling[c] = NoCall
  /\ listed' = [c \in Config |-> IF active[c] /\ secrets[c].type = Collector
                                   THEN CredentialsOf(secrets[c])
                                   ELSE NotListed]
  /\ UNCHANGED <<table, thread, accepted, cache, calling>>

\* Mutant: the cache keeps the whole row.
CredentialsWholeRow(c) == IF stored[c] = "stored" THEN secrets[c] ELSE NoCredentials

\* _get_credentials, _get_client
CredentialsFor(c) ==
  IF cache[c] # NoCredentials THEN cache[c]
  ELSE IF stored[c] = "stored" /\ Complete(Collector, secrets[c])
         THEN CredentialsOf(secrets[c])
         ELSE NoCredentials

\* ... and for each of them in turn it calls the provider with the credentials it
\* got.  Without credentials the collection of the source fails.
CallProvider(c) ==
  /\ \A d \in Config : calling[d] = NoCall
  /\ listed[c] # NotListed
  /\ listed' = [listed EXCEPT ![c] = NotListed]
  /\ cache' = [cache EXCEPT ![c] = CredentialsFor(c)]
  /\ calling' = IF CredentialsFor(c) = NoCredentials THEN calling
                ELSE [calling EXCEPT ![c] = [with |-> CredentialsFor(c), listed |-> listed[c],
                                             row |-> CredentialsOf(secrets[c])]]
  /\ UNCHANGED <<table, thread, accepted>>

EndCall(c) ==
  /\ calling[c] # NoCall
  /\ calling' = [calling EXCEPT ![c] = NoCall]
  /\ UNCHANGED <<table, thread, accepted, listed, cache>>

RestartScheduler ==
  /\ listed' = [c \in Config |-> NotListed]
  /\ cache' = [c \in Config |-> NoCredentials]
  /\ calling' = [c \in Config |-> NoCall]
  /\ UNCHANGED <<table, thread, accepted>>

-------------------------------------------------------------------------------
Api ==
  \/ \E c \in Config :
       \/ Create(c) \/ Update(c) \/ DeleteApiKey(c) \/ DeleteEmail(c)
       \/ Deactivate(c) \/ DeleteConfig(c)
       \/ \E t \in Thread : BeginActivation(t, c)
  \/ \E t \in Thread : AcceptActivation(t) \/ RefuseActivation(t) \/ AbandonActivation(t)

Scheduler ==
  \/ ListSources
  \/ \E c \in Config : CallProvider(c) \/ EndCall(c)
  \/ RestartScheduler

Next == Api \/ Scheduler

Spec == Init /\ [][Next]_vars

-------------------------------------------------------------------------------
(* Properties                                                              *)

\* What is active and shown as validated is what the provider accepted, and complete
\* (activate_config, "Active une configuration de collecteur apres validation
\* reelle").  A configuration inherited from V1 is active and shown as untested.
ActiveWasAccepted ==
  \A c \in Config : active[c] /\ status[c] = "success" =>
    secrets[c] \in accepted[c] /\ Complete(secrets[c].type, secrets[c])

\* The last outcome of a row and its activity tell the same story, whatever the
\* number of threads: the public row never shows an active collector as failed, nor
\* an inactive one as validated.
StatusAgrees ==
  \A c \in Config :
    /\ status[c] = "success" => active[c]
    /\ status[c] = "failed" => ~ active[c]

\* A thread is about to record what the provider said of secrets that the row no
\* longer holds.
Overtaken(c) == \E t \in Thread : thread[t].config = c /\ thread[t].secrets # secrets[c]

\* Each configuration behaves as the promise of ValidatedConfig, as long as no edit
\* overtakes an activation: always, for an API that serves one request at a time.
Promise(c) == INSTANCE ValidatedConfig WITH
  Settings <- Secrets, settings <- secrets[c], active <- active[c],
  status <- status[c], accepted <- accepted[c]
KeepsPromise(c) == Overtaken(c) \/ [Promise(c)!Next]_(Promise(c)!vars)
Promises ==
  /\ \A c \in Config : stored[c] = "unborn" => Promise(c)!Init
  /\ [][\A c \in Config : KeepsPromise(c)]_vars

\* A collection calls the provider with credentials that the row holds, at the call
\* or when the collector listed its sources ("A chaque cycle, le scheduler [...]
\* dechiffre leurs secrets").
CallsWithStoredSecrets ==
  \A c \in Config : calling[c] # NoCall =>
    calling[c].with \in {calling[c].listed, calling[c].row}
===============================================================================
