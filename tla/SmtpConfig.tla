------------------------------- MODULE SmtpConfig -------------------------------
(***************************************************************************)
(* The one SMTP configuration: the service of the API that edits,          *)
(* validates and activates it, each request in a thread of its own.        *)
(*                                                                         *)
(* An edit compares what it is given with the row it read in an earlier    *)
(* transaction, and an activation or a test records what the relay said of *)
(* the row it read; the other requests are one transaction.                *)
(***************************************************************************)
CONSTANTS
  Relay,      \* values of host, port, user and sender together, all given
  Password,
  None,       \* NULL: no password, or one of the four fields is missing
  Thread      \* threads of the API

Settings == [relay : Relay \cup {None}, password : Password \cup {None}]
Status == {"not_tested", "success", "failed"}

VARIABLES
  settings,   \* smtp_host, smtp_port, smtp_user, smtp_from; smtp_password
  active,     \* is_active
  status,     \* last_validation_status
  thread,     \* the request a thread is busy with, and the row it read
  accepted    \* history: settings with which the relay let the API log in

vars == <<settings, active, status, thread, accepted>>

Idle == [does |-> "nothing"]
Request == [does : {"update", "activate", "test"}, row : Settings]

TypeOK ==
  /\ settings \in Settings
  /\ active \in BOOLEAN
  /\ status \in Status
  /\ thread \in [Thread -> Request \cup {Idle}]
  /\ accepted \subseteq {s \in Settings : s.relay # None /\ s.password # None}

\* The row that the migration, or get_or_create_config, inserts.
Init ==
  /\ settings = [relay |-> None, password |-> None]
  /\ active = FALSE
  /\ status = "not_tested"
  /\ thread = [t \in Thread |-> Idle]
  /\ accepted = {}

Free == \E t \in Thread : thread[t] = Idle
Release(t) == thread' = [thread EXCEPT ![t] = Idle]
Reset == active' = FALSE /\ status' = "not_tested"

\* get_or_create_config
ReadRow(t) ==
  /\ thread[t] = Idle
  /\ \E request \in Request :
       /\ request.row = settings
       /\ thread' = [thread EXCEPT ![t] = request]
  /\ UNCHANGED <<settings, active, status, accepted>>

\* Mutant: only a new password resets the validation.
UpdatePasswordOnly(t) ==
  /\ thread[t].does = "update"
  /\ \E given \in BOOLEAN, r \in Relay \cup {None}, p \in Password \cup {None} :
       /\ settings' = [settings EXCEPT !.relay = IF given THEN r ELSE @,
                                       !.password = IF p = None THEN @ ELSE p]
       /\ IF p # None THEN Reset ELSE UNCHANGED <<active, status>>
  /\ Release(t)
  /\ UNCHANGED accepted

\* update_config: fields may be given and set to NULL, the password only replaced;
\* critical_fields_changed compares with the row that was read.
Update(t) ==
  /\ thread[t].does = "update"
  /\ \E given \in BOOLEAN, r \in Relay \cup {None}, p \in Password \cup {None} :
       /\ settings' = [settings EXCEPT !.relay = IF given THEN r ELSE @,
                                       !.password = IF p = None THEN @ ELSE p]
       /\ IF p # None \/ (given /\ r # thread[t].row.relay)
            THEN Reset
            ELSE UNCHANGED <<active, status>>
  /\ Release(t)
  /\ UNCHANGED accepted

Complete(s) == s.relay # None /\ s.password # None
Validates(t) == thread[t].does \in {"activate", "test"}

\* The relay lets the API log in.
Accept(t) ==
  /\ Validates(t)
  /\ Complete(thread[t].row)
  /\ accepted' = accepted \cup {thread[t].row}
  /\ status' = "success"
  /\ active' = (active \/ thread[t].does = "activate")
  /\ Release(t)
  /\ UNCHANGED settings

\* It does not, or does not answer, or the row that was read is incomplete.
Refuse(t) ==
  /\ Validates(t)
  /\ status' = "failed"
  /\ active' = (active /\ thread[t].does = "test")
  /\ Release(t)
  /\ UNCHANGED <<settings, accepted>>

\* A field is not valid, the password cannot be encrypted or decrypted, the outcome
\* cannot be written, or the API stops.
Abandon(t) ==
  /\ thread[t] # Idle
  /\ Release(t)
  /\ UNCHANGED <<settings, active, status, accepted>>

\* deactivate_config keeps the outcome of the validation.
Deactivate ==
  /\ Free
  /\ active' = FALSE
  /\ UNCHANGED <<settings, status, thread, accepted>>

DeletePassword ==
  /\ Free
  /\ settings' = [settings EXCEPT !.password = None]
  /\ Reset
  /\ UNCHANGED <<thread, accepted>>

Next ==
  \/ \E t \in Thread : ReadRow(t) \/ Update(t) \/ Accept(t) \/ Refuse(t) \/ Abandon(t)
  \/ Deactivate
  \/ DeletePassword

Spec == Init /\ [][Next]_vars

-------------------------------------------------------------------------------
(* Properties                                                              *)

\* A thread holds a row that another request has edited since.
Overtaken == \E t \in Thread : thread[t] # Idle /\ thread[t].row # settings

\* The configuration behaves as the promise of ValidatedConfig, as long as no edit
\* overtakes another request: always, for an API that serves one at a time.  In
\* particular an edit that leaves the row active changed nothing, and a test never
\* activates.
Promise == INSTANCE ValidatedConfig
KeepsPromise == Overtaken \/ [Promise!Next]_(Promise!vars)
SmtpPromises == Promise!Init /\ [][KeepsPromise]_vars

\* What is active is what the relay accepted, as it is now (activate_config, "Active
\* la configuration SMTP apres validation reelle").
ActiveWasAccepted == active => settings \in accepted
===============================================================================
