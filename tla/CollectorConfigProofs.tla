------------------------- MODULE CollectorConfigProofs -------------------------
(***************************************************************************)
(* What holds of CollectorConfig for any configurations, secrets and       *)
(* threads, whichever collector is at work.                                *)
(***************************************************************************)
EXTENDS CollectorConfig, TLAPS

\* A row that does not exist yet, or no longer, has no secrets to be accepted.
AbsentIsEmpty == \A c \in Config : stored[c] # "stored" => secrets[c] = NoSecrets

IInv == TypeOK /\ StatusAgrees /\ AbsentIsEmpty

\* The types of the service, and those of the scheduler.
TableTypeOK ==
  /\ stored \in [Config -> {"unborn", "stored", "deleted"}]
  /\ secrets \in [Config -> Secrets]
  /\ active \in [Config -> BOOLEAN]
  /\ status \in [Config -> Status]
  /\ thread \in [Thread -> Activation \cup {Idle}]
  /\ accepted \in [Config -> SUBSET Secrets]

SchedulerTypeOK ==
  /\ listed \in [Config -> Credentials \cup {NotListed}]
  /\ cache \in [Config -> Credentials]
  /\ calling \in [Config -> Call \cup {NoCall}]

LEMMA Types == TypeOK <=> TableTypeOK /\ SchedulerTypeOK
BY DEF TypeOK, TableTypeOK, SchedulerTypeOK

LEMMA NoSecretsType == NoSecrets \in Secrets /\ ~ Complete(NoSecrets.type, NoSecrets)
BY DEF NoSecrets, Secrets, Type, Complete

LEMMA InitialInvariant == Init => IInv
<1>. SUFFICES ASSUME Init  PROVE IInv
  OBVIOUS
<1>1. secrets \in [Config -> Secrets]
  BY NoSecretsType DEF Init, Inherited
<1>2. TableTypeOK
  BY <1>1 DEF Init, TableTypeOK, Status
<1>3. NoCredentials \in Credentials
  BY DEF NoCredentials, Credentials
<1>4. SchedulerTypeOK
  BY <1>3 DEF Init, SchedulerTypeOK
<1>5. StatusAgrees /\ AbsentIsEmpty
  BY DEF Init, StatusAgrees, AbsentIsEmpty
<1>. QED
  BY <1>2, <1>4, <1>5, Types DEF IInv

-------------------------------------------------------------------------------
(* The service                                                             *)

\* The requests that are one transaction: they write one row, and the row is inactive
\* and its validation forgotten.
Transaction(c) ==
  \/ Create(c) \/ Update(c) \/ DeleteApiKey(c) \/ DeleteEmail(c)
  \/ Deactivate(c) \/ DeleteConfig(c)

LEMMA TransactionStep ==
  ASSUME IInv, NEW c \in Config, Transaction(c)
  PROVE  /\ \A d \in Config \ {c} : secrets'[d] = secrets[d] /\ stored'[d] = stored[d]
         /\ secrets' \in [Config -> Secrets]
         /\ stored' \in [Config -> {"unborn", "stored", "deleted"}]
         /\ stored'[c] # "stored" => secrets'[c] = NoSecrets
         /\ Reset(c)
         /\ UNCHANGED <<thread, accepted, listed, cache, calling>>
<1>. USE DEF IInv, TypeOK
<1>1. CASE Create(c)
  BY <1>1 DEF Create, scheduler
<1>2. CASE Update(c)
  <2>1. PICK t \in Type, k \in Key \cup {secrets[c].key}, m \in Mail \cup {secrets[c].mail} :
          secrets' = [secrets EXCEPT ![c] = [type |-> t, key |-> k, mail |-> m]]
    BY <1>2 DEF Update
  <2>. DEFINE new == [type |-> t, key |-> k, mail |-> m]
  <2>2. new \in Secrets
    BY DEF Secrets
  <2>3. secrets' = [secrets EXCEPT ![c] = new]
    BY <2>1
  <2>. HIDE DEF new
  <2>. QED
    BY <1>2, <2>2, <2>3 DEF Update, scheduler
<1>3. CASE DeleteApiKey(c)
  <2>. DEFINE new == [secrets[c] EXCEPT !.key = None]
  <2>1. new \in Secrets
    BY DEF Secrets
  <2>2. secrets' = [secrets EXCEPT ![c] = new]
    BY <1>3 DEF DeleteApiKey
  <2>. HIDE DEF new
  <2>. QED
    BY <1>3, <2>1, <2>2 DEF DeleteApiKey, scheduler
<1>4. CASE DeleteEmail(c)
  <2>. DEFINE new == [secrets[c] EXCEPT !.mail = None]
  <2>1. new \in Secrets
    BY DEF Secrets
  <2>2. secrets' = [secrets EXCEPT ![c] = new]
    BY <1>4 DEF DeleteEmail
  <2>. HIDE DEF new
  <2>. QED
    BY <1>4, <2>1, <2>2 DEF DeleteEmail, scheduler
<1>5. CASE Deactivate(c)
  BY <1>5 DEF Deactivate, scheduler
<1>6. CASE DeleteConfig(c)
  BY <1>6, NoSecretsType DEF DeleteConfig, scheduler
<1>. QED
  BY <1>1, <1>2, <1>3, <1>4, <1>5, <1>6 DEF Transaction

\* The requests that activate: the row keeps its secrets.
Activates(t) ==
  \/ \E c \in Config : BeginActivation(t, c)
  \/ AcceptActivation(t) \/ RefuseActivation(t) \/ AbandonActivation(t)

LEMMA BusyThread ==
  ASSUME TypeOK, NEW t \in Thread, Busy(t)
  PROVE  thread[t] \in Activation /\ thread[t].config \in Config /\ thread[t].secrets \in Secrets
BY DEF TypeOK, Busy, Activation, Idle

LEMMA ActivatesStep ==
  ASSUME IInv, NEW t \in Thread, Activates(t)
  PROVE  UNCHANGED <<stored, secrets, listed, cache, calling>> /\ TableTypeOK' /\ StatusAgrees'
<1>. USE DEF TableTypeOK, StatusAgrees, scheduler, table
<1>0. TableTypeOK /\ StatusAgrees
  BY Types DEF IInv
<1>1. ASSUME NEW c \in Config, BeginActivation(t, c)
      PROVE  UNCHANGED <<stored, secrets, listed, cache, calling>> /\ TableTypeOK' /\ StatusAgrees'
  <2>1. [config |-> c, secrets |-> secrets[c]] \in Activation
    BY <1>0 DEF Activation
  <2>. QED
    BY <1>0, <1>1, <2>1 DEF BeginActivation
<1>2. ASSUME Release(t)  PROVE thread' \in [Thread -> Activation \cup {Idle}]
  BY <1>0, <1>2 DEF Release
<1>3. CASE AcceptActivation(t)
  <2>. DEFINE c == thread[t].config
  <2>1. c \in Config /\ thread[t].secrets \in Secrets
    BY <1>3, BusyThread DEF IInv, AcceptActivation
  <2>2. /\ Release(t) /\ UNCHANGED <<stored, secrets, listed, cache, calling>>
        /\ accepted' = [accepted EXCEPT ![c] = @ \cup {thread[t].secrets}]
        /\ \/ /\ active' = [active EXCEPT ![c] = TRUE]
              /\ status' = [status EXCEPT ![c] = "success"]
           \/ UNCHANGED <<active, status>>
    BY <1>3 DEF AcceptActivation
  <2>. HIDE DEF c
  <2>3. accepted' \in [Config -> SUBSET Secrets]
    BY <1>0, <2>1, <2>2
  <2>4. active' \in [Config -> BOOLEAN] /\ status' \in [Config -> Status] /\ StatusAgrees'
    BY <1>0, <2>1, <2>2 DEF Status
  <2>. QED
    BY <1>0, <1>2, <2>2, <2>3, <2>4
<1>4. CASE RefuseActivation(t)
  <2>. DEFINE c == thread[t].config
  <2>1. c \in Config
    BY <1>4, BusyThread DEF IInv, RefuseActivation
  <2>2. /\ Release(t) /\ UNCHANGED <<stored, secrets, accepted, listed, cache, calling>>
        /\ \/ /\ active' = [active EXCEPT ![c] = FALSE]
              /\ status' = [status EXCEPT ![c] = "failed"]
           \/ UNCHANGED <<active, status>>
    BY <1>4 DEF RefuseActivation
  <2>. HIDE DEF c
  <2>3. active' \in [Config -> BOOLEAN] /\ status' \in [Config -> Status] /\ StatusAgrees'
    BY <1>0, <2>1, <2>2 DEF Status
  <2>. QED
    BY <1>0, <1>2, <2>2, <2>3
<1>5. CASE AbandonActivation(t)
  BY <1>0, <1>2, <1>5 DEF AbandonActivation
<1>. QED
  BY <1>1, <1>3, <1>4, <1>5 DEF Activates

-------------------------------------------------------------------------------
(* The scheduler                                                           *)

LEMMA CredentialsType ==
  /\ \A s \in Secrets : CredentialsOf(s) \in Credentials
  /\ NoCredentials \in Credentials
BY DEF Secrets, Credentials, CredentialsOf, NoCredentials

LEMMA SchedulerStep ==
  ASSUME IInv, Scheduler
  PROVE  UNCHANGED <<stored, secrets, active, status, thread, accepted>> /\ SchedulerTypeOK'
<1>. USE DEF SchedulerTypeOK, table
<1>0. SchedulerTypeOK /\ TableTypeOK
  BY Types DEF IInv
<1>1. CASE ListSources
  BY <1>0, <1>1, CredentialsType DEF ListSources, TableTypeOK
<1>2. ASSUME NEW c \in Config, CallProvider(c)
      PROVE  UNCHANGED <<stored, secrets, active, status, thread, accepted>> /\ SchedulerTypeOK'
  <2>1. CredentialsFor(c) \in Credentials
    BY <1>0, CredentialsType DEF CredentialsFor, TableTypeOK
  <2>. DEFINE call == [with |-> CredentialsFor(c), listed |-> listed[c],
                       row |-> CredentialsOf(secrets[c])]
  <2>2. call \in Call
    BY <1>0, <1>2, <2>1, CredentialsType DEF Call, CallProvider, TableTypeOK
  <2>3. calling' = calling \/ calling' = [calling EXCEPT ![c] = call]
    BY <1>2 DEF CallProvider
  <2>. HIDE DEF call
  <2>4. calling' \in [Config -> Call \cup {NoCall}]
    BY <1>0, <2>2, <2>3
  <2>5. /\ listed' = [listed EXCEPT ![c] = NotListed]
        /\ cache' = [cache EXCEPT ![c] = CredentialsFor(c)]
    BY <1>2 DEF CallProvider
  <2>6. listed' \in [Config -> Credentials \cup {NotListed}] /\ cache' \in [Config -> Credentials]
    BY <1>0, <2>1, <2>5
  <2>. QED
    BY <1>2, <2>4, <2>6 DEF CallProvider
<1>3. ASSUME NEW c \in Config, EndCall(c)
      PROVE  UNCHANGED <<stored, secrets, active, status, thread, accepted>> /\ SchedulerTypeOK'
  BY <1>0, <1>3 DEF EndCall
<1>4. CASE RestartScheduler
  BY <1>0, <1>4, CredentialsType DEF RestartScheduler
<1>. QED
  BY <1>1, <1>2, <1>3, <1>4 DEF Scheduler

-------------------------------------------------------------------------------
(* The invariant is inductive                                              *)

LEMMA Steps ==
  ASSUME [Next]_vars
  PROVE  \/ \E c \in Config : Transaction(c)
         \/ \E t \in Thread : Activates(t)
         \/ Scheduler
         \/ UNCHANGED vars
BY DEF Next, Api, Transaction, Activates

LEMMA NextInvariant ==
  ASSUME IInv, [Next]_vars
  PROVE  IInv'
<1>0. TableTypeOK /\ SchedulerTypeOK /\ StatusAgrees /\ AbsentIsEmpty
  BY Types DEF IInv
<1>. SUFFICES TableTypeOK' /\ SchedulerTypeOK' /\ StatusAgrees' /\ AbsentIsEmpty'
  <2>1. (TypeOK <=> TableTypeOK /\ SchedulerTypeOK)'
    BY Types, PTL
  <2>. QED
    BY <2>1 DEF IInv
<1>1. ASSUME NEW c \in Config, Transaction(c)
      PROVE  TableTypeOK' /\ SchedulerTypeOK' /\ StatusAgrees' /\ AbsentIsEmpty'
  <2>1. /\ active' = [active EXCEPT ![c] = FALSE]
        /\ status' = [status EXCEPT ![c] = "not_tested"]
    BY <1>1, TransactionStep DEF Reset
  <2>2. TableTypeOK'
    BY <1>0, <1>1, <2>1, TransactionStep DEF TableTypeOK, Status
  <2>3. SchedulerTypeOK'
    BY <1>0, <1>1, TransactionStep DEF SchedulerTypeOK
  <2>4. StatusAgrees'
    BY <1>0, <2>1 DEF StatusAgrees, TableTypeOK
  <2>5. AbsentIsEmpty'
    BY <1>0, <1>1, TransactionStep DEF AbsentIsEmpty
  <2>. QED
    BY <2>2, <2>3, <2>4, <2>5
<1>2. ASSUME NEW t \in Thread, Activates(t)
      PROVE  TableTypeOK' /\ SchedulerTypeOK' /\ StatusAgrees' /\ AbsentIsEmpty'
  BY <1>0, <1>2, ActivatesStep DEF SchedulerTypeOK, AbsentIsEmpty
<1>3. CASE Scheduler
  BY <1>0, <1>3, SchedulerStep DEF TableTypeOK, StatusAgrees, AbsentIsEmpty
<1>4. CASE UNCHANGED vars
  BY <1>0, <1>4 DEF vars, TableTypeOK, SchedulerTypeOK, StatusAgrees, AbsentIsEmpty
<1>. QED
  BY <1>1, <1>2, <1>3, <1>4, Steps

\* The inductive invariant: the type, the agreement of status and activity, and that a
\* row which is not there holds no secrets.
THEOREM Invariance == Spec => []IInv
<1>1. IInv /\ [Next]_vars => IInv'
  BY NextInvariant
<1>. QED
  BY InitialInvariant, <1>1, PTL DEF Spec

-------------------------------------------------------------------------------
(* The properties                                                          *)

\* The table, the threads of the API, and what the collector keeps, have their types.
THEOREM TypeCorrect == Spec => []TypeOK
<1>1. IInv => TypeOK
  BY DEF IInv
<1>. QED
  BY Invariance, <1>1, PTL

\* An active collector is never shown as failed, nor an inactive one as validated,
\* whatever the number of threads.
THEOREM StatusAlwaysAgrees == Spec => []StatusAgrees
<1>1. IInv => StatusAgrees
  BY DEF IInv
<1>. QED
  BY Invariance, <1>1, PTL

\* A step of the service that no edit has overtaken is, for each configuration, one of
\* the promise of ValidatedConfig.
LEMMA StepKeepsPromise ==
  ASSUME IInv, [Next]_vars, NEW c \in Config
  PROVE  KeepsPromise(c)
<1>. SUFFICES ASSUME \A t \in Thread : thread[t].config = c => thread[t].secrets = secrets[c]
              PROVE  [Promise(c)!Next]_(Promise(c)!vars)
  BY DEF KeepsPromise, Overtaken
<1>. USE DEF Promise!vars
<1>0. TableTypeOK /\ TableTypeOK'
  <2>1. (TypeOK <=> TableTypeOK /\ SchedulerTypeOK)'
    BY Types, PTL
  <2>. QED
    BY <2>1, NextInvariant, Types DEF IInv
<1>1. ASSUME NEW d \in Config, Transaction(d)
      PROVE  Promise(c)!Edit \/ UNCHANGED Promise(c)!vars
  <2>1. /\ active' = [active EXCEPT ![d] = FALSE]
        /\ status' = [status EXCEPT ![d] = "not_tested"]
        /\ accepted' = accepted
    BY <1>1, TransactionStep DEF Reset
  <2>2. CASE c = d
    BY <1>0, <2>1, <2>2 DEF Promise!Edit, TableTypeOK
  <2>3. CASE c # d
    BY <1>0, <1>1, <2>1, <2>3, TransactionStep DEF TableTypeOK
  <2>. QED
    BY <2>2, <2>3
<1>2. ASSUME NEW t \in Thread, AcceptActivation(t)
      PROVE  Promise(c)!Accept \/ UNCHANGED Promise(c)!vars
  <2>1. /\ thread[t].config \in Config /\ UNCHANGED <<stored, secrets>>
        /\ Complete(thread[t].secrets.type, thread[t].secrets)
        /\ accepted' = [accepted EXCEPT ![thread[t].config] = @ \cup {thread[t].secrets}]
    BY <1>2, BusyThread DEF AcceptActivation, IInv
  <2>2. CASE thread[t].config = c
    <3>1. thread[t].secrets = secrets[c]
      BY <2>2
    <3>2. stored[c] = "stored"
      BY <2>1, <3>1, NoSecretsType DEF IInv, AbsentIsEmpty
    <3>3. /\ active' = [active EXCEPT ![c] = TRUE]
          /\ status' = [status EXCEPT ![c] = "success"]
      BY <1>2, <2>2, <3>2 DEF AcceptActivation
    <3>4. active'[c] = TRUE /\ status'[c] = "success" /\ secrets'[c] = secrets[c]
          /\ accepted'[c] = accepted[c] \cup {secrets[c]}
      BY <1>0, <2>1, <2>2, <3>1, <3>3 DEF TableTypeOK
    <3>. QED
      BY <3>4 DEF Promise!Accept
  <2>3. CASE thread[t].config # c
    <3>1. active'[c] = active[c] /\ status'[c] = status[c]
      BY <1>0, <1>2, <2>3 DEF AcceptActivation, TableTypeOK
    <3>. QED
      BY <1>0, <2>1, <2>3, <3>1 DEF TableTypeOK
  <2>. QED
    BY <2>2, <2>3
<1>3. ASSUME NEW t \in Thread, RefuseActivation(t)
      PROVE  Promise(c)!Refuse \/ UNCHANGED Promise(c)!vars
  <2>1. /\ UNCHANGED <<secrets, accepted>>
        /\ \/ /\ active' = [active EXCEPT ![thread[t].config] = FALSE]
              /\ status' = [status EXCEPT ![thread[t].config] = "failed"]
           \/ UNCHANGED <<active, status>>
    BY <1>3 DEF RefuseActivation
  <2>2. \/ active'[c] = FALSE /\ status'[c] = "failed"
        \/ active'[c] = active[c] /\ status'[c] = status[c]
    BY <1>0, <2>1 DEF TableTypeOK
  <2>3. secrets'[c] = secrets[c] /\ accepted'[c] = accepted[c]
    BY <2>1
  <2>. QED
    BY <2>2, <2>3 DEF Promise!Refuse
<1>4. ASSUME NEW t \in Thread, NEW d \in Config, BeginActivation(t, d)
      PROVE  UNCHANGED Promise(c)!vars
  BY <1>4 DEF BeginActivation, table
<1>5. ASSUME NEW t \in Thread, AbandonActivation(t)
      PROVE  UNCHANGED Promise(c)!vars
  BY <1>5 DEF AbandonActivation, table
<1>6. CASE Scheduler
  BY <1>6, SchedulerStep
<1>7. CASE UNCHANGED vars
  BY <1>7 DEF vars
<1>. QED
  BY <1>1, <1>2, <1>3, <1>4, <1>5, <1>6, <1>7, Steps DEF Activates, Promise!Next

\* The service of the collectors keeps the promise of ValidatedConfig for each
\* configuration, as long as no edit overtakes an activation.
THEOREM KeepsPromises == Spec => Promises
<1>1. Init => \A c \in Config : stored[c] = "unborn" => Promise(c)!Init
  BY NoSecretsType DEF Init, Promise!Init
<1>2. IInv /\ [Next]_vars => [\A c \in Config : KeepsPromise(c)]_vars
  BY StepKeepsPromise
<1>. QED
  BY Invariance, <1>1, <1>2, PTL DEF Spec, Promises

-------------------------------------------------------------------------------
(* One request at a time                                                   *)

OneThread == \A t, u \in Thread : t = u

\* The secrets that an activation holds are those of the row.
Fresh == \A t \in Thread : Busy(t) => thread[t].secrets = secrets[thread[t].config]

LEMMA OneThreadStep ==
  ASSUME OneThread, IInv, Fresh, ActiveWasAccepted, [Next]_vars
  PROVE  Fresh' /\ ActiveWasAccepted'
<1>. USE DEF Fresh, ActiveWasAccepted, Busy
<1>0. TableTypeOK /\ TableTypeOK'
  <2>1. (TypeOK <=> TableTypeOK /\ SchedulerTypeOK)'
    BY Types, PTL
  <2>. QED
    BY <2>1, NextInvariant, Types DEF IInv
<1>1. ASSUME NEW c \in Config, Transaction(c)
      PROVE  Fresh' /\ ActiveWasAccepted'
  <2>1. /\ active' = [active EXCEPT ![c] = FALSE]
        /\ status' = [status EXCEPT ![c] = "not_tested"]
        /\ UNCHANGED <<thread, accepted>>
        /\ \A d \in Config \ {c} : secrets'[d] = secrets[d]
    BY <1>1, TransactionStep DEF Reset
  <2>2. \A t \in Thread : thread[t] = Idle
    BY <1>1 DEF OneThread, Transaction, Create, Update, DeleteApiKey, DeleteEmail, Deactivate,
                DeleteConfig, Free
  <2>3. Fresh'
    BY <2>1, <2>2
  <2>4. ActiveWasAccepted'
    BY <1>0, <2>1 DEF TableTypeOK
  <2>. QED
    BY <2>3, <2>4
<1>2. ASSUME NEW t \in Thread, NEW c \in Config, BeginActivation(t, c)
      PROVE  Fresh' /\ ActiveWasAccepted'
  <2>1. /\ thread' = [thread EXCEPT ![t] = [config |-> c, secrets |-> secrets[c]]]
        /\ UNCHANGED <<secrets, active, status, accepted>>
    BY <1>2 DEF BeginActivation, table
  <2>. QED
    BY <1>0, <2>1 DEF TableTypeOK
<1>3. ASSUME NEW t \in Thread, Release(t)
      PROVE  \A u \in Thread : thread'[u] = Idle
  BY <1>0, <1>3 DEF OneThread, Release, TableTypeOK
<1>4. ASSUME NEW t \in Thread, AcceptActivation(t)
      PROVE  Fresh' /\ ActiveWasAccepted'
  <2>. DEFINE c == thread[t].config
  <2>1. c \in Config /\ thread[t].secrets = secrets[c] /\ Complete(secrets[c].type, secrets[c])
    BY <1>4, BusyThread DEF AcceptActivation, IInv
  <2>2. /\ accepted' = [accepted EXCEPT ![c] = @ \cup {secrets[c]}]
        /\ secrets' = secrets
        /\ \/ /\ active' = [active EXCEPT ![c] = TRUE]
              /\ status' = [status EXCEPT ![c] = "success"]
           \/ UNCHANGED <<active, status>>
    BY <1>4, <2>1 DEF AcceptActivation
  <2>3. Fresh'
    BY <1>3, <1>4 DEF AcceptActivation
  <2>. HIDE DEF c
  <2>4. ActiveWasAccepted'
    BY <1>0, <2>1, <2>2 DEF TableTypeOK
  <2>. QED
    BY <2>3, <2>4
<1>5. ASSUME NEW t \in Thread, RefuseActivation(t)
      PROVE  Fresh' /\ ActiveWasAccepted'
  <2>. DEFINE c == thread[t].config
  <2>1. c \in Config
    BY <1>5, BusyThread DEF RefuseActivation, IInv
  <2>2. /\ UNCHANGED <<secrets, accepted>>
        /\ \/ /\ active' = [active EXCEPT ![c] = FALSE]
              /\ status' = [status EXCEPT ![c] = "failed"]
           \/ UNCHANGED <<active, status>>
    BY <1>5 DEF RefuseActivation
  <2>3. Fresh'
    BY <1>3, <1>5 DEF RefuseActivation
  <2>. HIDE DEF c
  <2>4. ActiveWasAccepted'
    BY <1>0, <2>1, <2>2 DEF TableTypeOK
  <2>. QED
    BY <2>3, <2>4
<1>6. ASSUME NEW t \in Thread, AbandonActivation(t)
      PROVE  Fresh' /\ ActiveWasAccepted'
  BY <1>3, <1>6 DEF AbandonActivation, table
<1>7. CASE Scheduler
  BY <1>7, SchedulerStep
<1>8. CASE UNCHANGED vars
  BY <1>8 DEF vars
<1>. QED
  BY <1>1, <1>2, <1>4, <1>5, <1>6, <1>7, <1>8, Steps DEF Activates

\* With one request at a time, what is active and shown as validated was accepted as it is,
\* and is complete: what two threads can break (a violated run) is broken by their race alone.
THEOREM OneThreadAccepts ==
  ASSUME OneThread
  PROVE  Spec => []ActiveWasAccepted
<1>1. Init => Fresh /\ ActiveWasAccepted
  BY DEF Init, Fresh, ActiveWasAccepted, Busy
<1>2. IInv /\ Fresh /\ ActiveWasAccepted /\ [Next]_vars => Fresh' /\ ActiveWasAccepted'
  BY OneThreadStep
<1>. QED
  BY Invariance, <1>1, <1>2, PTL DEF Spec
===============================================================================
