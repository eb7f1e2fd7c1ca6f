------------------------------- MODULE CtiConfig -------------------------------
(***************************************************************************)
(* The configurations of the CTI providers: one row for each provider that *)
(* the migrations know, whose API key the service of the API replaces,     *)
(* deletes and validates, each request in a thread of its own.  A provider *)
(* that needs no key is activated without being called.                    *)
(***************************************************************************)
CONSTANTS
  Provider,   \* rows of cti_config
  Keyless,    \* those whose is_key_required is FALSE
  Key,        \* API keys
  None,       \* NULL
  Thread      \* threads of the API

Settings == Key \cup {None}
Status == {"not_tested", "success", "failed"}

VARIABLES
  settings,   \* the API key of a provider
  active,     \* is_active
  status,     \* last_validation_status
  thread,     \* the activation a thread is busy with, and the key it read
  accepted    \* history: keys a provider accepted; None if it needs none

vars == <<settings, active, status, thread, accepted>>

Idle == [provider |-> None]
Activation == [provider : Provider, key : Settings]

TypeOK ==
  /\ settings \in [Provider -> Settings]
  /\ \A p \in Keyless : settings[p] = None
  /\ active \in [Provider -> BOOLEAN]
  /\ status \in [Provider -> Status]
  /\ thread \in [Thread -> Activation \cup {Idle}]
  /\ accepted \in [Provider -> SUBSET Settings]

Init ==
  /\ settings = [p \in Provider |-> None]
  /\ active = [p \in Provider |-> FALSE]
  /\ status = [p \in Provider |-> "not_tested"]
  /\ thread = [t \in Thread |-> Idle]
  /\ accepted = [p \in Provider |-> {}]

Free == \E t \in Thread : thread[t] = Idle
Release(t) == thread' = [thread EXCEPT ![t] = Idle]
Record(p, on, outcome) ==
  /\ active' = [active EXCEPT ![p] = on]
  /\ status' = [status EXCEPT ![p] = outcome]

\* update_config with a key, which a provider that needs none refuses.
Update(p) ==
  /\ Free
  /\ p \notin Keyless
  /\ \E k \in Key : settings' = [settings EXCEPT ![p] = k]
  /\ Record(p, FALSE, "not_tested")
  /\ UNCHANGED <<thread, accepted>>

\* Mutant: the key is deleted, the rest of the row stays.
DeleteApiKeyAlone(p) ==
  /\ Free
  /\ settings' = [settings EXCEPT ![p] = None]
  /\ UNCHANGED <<active, status, thread, accepted>>

DeleteApiKey(p) ==
  /\ Free
  /\ settings' = [settings EXCEPT ![p] = None]
  /\ Record(p, FALSE, "not_tested")
  /\ UNCHANGED <<thread, accepted>>

\* deactivate_config forgets the outcome of the validation.
Deactivate(p) ==
  /\ Free
  /\ Record(p, FALSE, "not_tested")
  /\ UNCHANGED <<settings, thread, accepted>>

\* activate_config loads the row ...
BeginActivation(t, p) ==
  /\ thread[t] = Idle
  /\ thread' = [thread EXCEPT ![t] = [provider |-> p, key |-> settings[p]]]
  /\ UNCHANGED <<settings, active, status, accepted>>

Busy(t) == thread[t] # Idle

\* ... the provider accepts the key that was loaded, or needs none ...
AcceptActivation(t) ==
  LET p == thread[t].provider  k == thread[t].key IN
  /\ Busy(t)
  /\ p \in Keyless \/ k # None
  /\ accepted' = [accepted EXCEPT ![p] = @ \cup {k}]
  /\ Record(p, TRUE, "success")
  /\ Release(t)
  /\ UNCHANGED settings

\* ... or it refuses it or does not answer, or there is none.
RefuseActivation(t) ==
  LET p == thread[t].provider IN
  /\ Busy(t)
  /\ p \notin Keyless
  /\ Record(p, FALSE, "failed")
  /\ Release(t)
  /\ UNCHANGED <<settings, accepted>>

\* The key cannot be decrypted, the answer of the provider is cut (the client does not
\* expect it), the outcome cannot be written, or the API stops.
AbandonActivation(t) ==
  /\ Busy(t)
  /\ Release(t)
  /\ UNCHANGED <<settings, active, status, accepted>>

Next ==
  \/ \E p \in Provider :
       \/ Update(p) \/ DeleteApiKey(p) \/ Deactivate(p)
       \/ \E t \in Thread : BeginActivation(t, p)
  \/ \E t \in Thread : AcceptActivation(t) \/ RefuseActivation(t) \/ AbandonActivation(t)

Spec == Init /\ [][Next]_vars

-------------------------------------------------------------------------------
(* Properties                                                              *)

\* A thread is about to record what a provider said of a key since replaced.
Overtaken(p) == \E t \in Thread : thread[t].provider = p /\ thread[t].key # settings[p]

\* Each configuration behaves as the promise of ValidatedConfig, as long as no edit
\* overtakes an activation: always, for an API that serves one request at a time.
Promise(p) == INSTANCE ValidatedConfig WITH
  settings <- settings[p], active <- active[p],
  status <- status[p], accepted <- accepted[p]
KeepsPromise(p) == Overtaken(p) \/ [Promise(p)!Next]_(Promise(p)!vars)
Promises ==
  /\ \A p \in Provider : Promise(p)!Init
  /\ [][\A p \in Provider : KeepsPromise(p)]_vars
===============================================================================
