-------------------------- MODULE ConfigurationsProofs --------------------------
(***************************************************************************)
(* What holds of Configurations, and of each of the services in it, for    *)
(* any relays, passwords, collectors, providers, threads and requests.     *)
(***************************************************************************)
EXTENDS Configurations, MigrationProofs, Sequences, FiniteSetTheorems, TLAPS

CP == INSTANCE CollectorConfigProofs WITH
  Mail <- Address, active <- enabled, status <- outcome, thread <- worker, accepted <- approved

\* The row is active because the relay accepted it as it is, unless an edit had
\* overtaken the request that activated it.
ActiveIsAccepted == active /\ ~ overtook => settings \in accepted

\* The relay takes the message of a session once.
TakenOnce == \A x \in Sender : mail[x].at = "sending" => mail[x].taken \in {0, 1}

\* What was accepted, was accepted in a session the validator could open.
AcceptedLogsIn == \A s \in accepted : ValidatorLogsIn(s.relay)

MailIInv ==
  /\ MailTypeOK
  /\ ActiveIsAccepted
  /\ MailUsesAccepted
  /\ TakenOnce
  /\ AcceptedLogsIn

-------------------------------------------------------------------------------
(* The configuration                                                       *)

\* A busy thread holds the row it read.
LEMMA ThreadHolds ==
  ASSUME TypeOK, NEW t \in Thread, thread[t] # Idle
  PROVE  thread[t] \in Request /\ thread[t].row \in Settings
BY DEF TypeOK, Request, Idle

LEMMA ConfigType ==
  ASSUME TypeOK, [Next]_vars
  PROVE  TypeOK'
<1>1. CASE UNCHANGED vars
  BY <1>1 DEF TypeOK, vars
<1>2. ASSUME NEW t \in Thread, ReadRow(t)  PROVE TypeOK'
  BY <1>2 DEF TypeOK, ReadRow
<1>3. ASSUME NEW t \in Thread, Release(t)
      PROVE  thread' \in [Thread -> Request \cup {Idle}]
  BY <1>3 DEF TypeOK, Release
<1>4. ASSUME NEW t \in Thread, Update(t)  PROVE TypeOK'
  <2>1. PICK given \in BOOLEAN, r \in Relay \cup {None}, p \in Password \cup {None} :
          /\ settings' = [settings EXCEPT !.relay = IF given THEN r ELSE @,
                                          !.password = IF p = None THEN @ ELSE p]
          /\ IF p # None \/ (given /\ r # thread[t].row.relay)
               THEN Reset
               ELSE UNCHANGED <<active, status>>
    BY <1>4 DEF Update
  <2>2. settings' \in Settings
    BY <2>1 DEF TypeOK, Settings
  <2>3. active' \in BOOLEAN /\ status' \in Status
    BY <2>1 DEF TypeOK, Reset, Status
  <2>. QED
    BY <1>3, <1>4, <2>2, <2>3 DEF TypeOK, Update
<1>5. ASSUME NEW t \in Thread, Accept(t)  PROVE TypeOK'
  <2>1. thread[t] # Idle
    BY <1>5 DEF Accept, Validates, Idle
  <2>2. accepted' \subseteq {s \in Settings : s.relay # None /\ s.password # None}
    BY <1>5, <2>1, ThreadHolds DEF Accept, Complete, TypeOK
  <2>3. active' \in BOOLEAN
    BY <1>5 DEF Accept
  <2>. QED
    BY <1>3, <1>5, <2>2, <2>3 DEF TypeOK, Accept, Status
<1>6. ASSUME NEW t \in Thread, Refuse(t)  PROVE TypeOK'
  <2>1. active' \in BOOLEAN
    BY <1>6 DEF Refuse
  <2>. QED
    BY <1>3, <1>6, <2>1 DEF TypeOK, Refuse, Status
<1>7. ASSUME NEW t \in Thread, Abandon(t)  PROVE TypeOK'
  BY <1>3, <1>7 DEF TypeOK, Abandon
<1>8. CASE Deactivate
  BY <1>8 DEF TypeOK, Deactivate
<1>9. CASE DeletePassword
  <2>1. settings' \in Settings
    BY <1>9 DEF DeletePassword, TypeOK, Settings
  <2>. QED
    BY <1>9, <2>1 DEF TypeOK, DeletePassword, Reset, Status
<1>. QED
  BY <1>1, <1>2, <1>4, <1>5, <1>6, <1>7, <1>8, <1>9 DEF Next

\* A request that compares with the row as it is and resets nothing changed nothing.
LEMMA UpdateResets ==
  ASSUME TypeOK, NEW t \in Thread, Update(t), thread[t].row = settings
  PROVE  \/ settings' = settings /\ UNCHANGED <<active, status>>
         \/ active' = FALSE /\ status' = "not_tested"
<1>1. PICK given \in BOOLEAN, r \in Relay \cup {None}, p \in Password \cup {None} :
        /\ settings' = [settings EXCEPT !.relay = IF given THEN r ELSE @,
                                        !.password = IF p = None THEN @ ELSE p]
        /\ IF p # None \/ (given /\ r # thread[t].row.relay)
             THEN Reset
             ELSE UNCHANGED <<active, status>>
  BY DEF Update
<1>2. CASE p # None \/ (given /\ r # settings.relay)
  BY <1>1, <1>2 DEF Reset
<1>3. CASE p = None /\ (given => r = settings.relay)
  <2>1. settings' = settings
    BY <1>1, <1>3 DEF TypeOK, Settings
  <2>. QED
    BY <1>1, <1>3, <2>1
<1>. QED
  BY <1>2, <1>3

\* A step of the service that no edit has overtaken is one of the promise of
\* ValidatedConfig.
LEMMA StepKeepsPromise ==
  ASSUME TypeOK, [Next]_vars
  PROVE  KeepsPromise
<1>. SUFFICES ASSUME Next, \A t \in Thread : thread[t] # Idle => thread[t].row = settings
              PROVE  [Promise!Next]_(Promise!vars)
  BY DEF KeepsPromise, Overtaken, vars, Promise!vars
<1>. USE DEF Promise!vars
<1>0. TypeOK'
  BY ConfigType
<1>1. ASSUME NEW t \in Thread, ReadRow(t) \/ Abandon(t)  PROVE UNCHANGED Promise!vars
  BY <1>1 DEF ReadRow, Abandon
<1>2. ASSUME NEW t \in Thread, Update(t)  PROVE Promise!Edit \/ UNCHANGED Promise!vars
  <2>1. thread[t].row = settings
    BY <1>2 DEF Update, Idle
  <2>2. accepted' = accepted
    BY <1>2 DEF Update
  <2>. QED
    BY <1>0, <1>2, <2>1, <2>2, UpdateResets DEF Promise!Edit, TypeOK
<1>3. ASSUME NEW t \in Thread, Accept(t)  PROVE Promise!Accept
  <2>1. thread[t].row = settings
    BY <1>3 DEF Accept, Validates, Idle
  <2>2. active' \in {active, TRUE}
    BY <1>3 DEF Accept, TypeOK
  <2>. QED
    BY <1>3, <2>1, <2>2 DEF Accept, Promise!Accept
<1>4. ASSUME NEW t \in Thread, Refuse(t)  PROVE Promise!Refuse
  <2>1. active' \in {active, FALSE}
    BY <1>4 DEF Refuse, TypeOK
  <2>. QED
    BY <1>4, <2>1 DEF Refuse, Promise!Refuse
<1>5. CASE Deactivate
  BY <1>5 DEF Deactivate, Promise!Next, Promise!Withdraw
<1>6. CASE DeletePassword
  BY <1>0, <1>6 DEF DeletePassword, Reset, Promise!Next, Promise!Edit, TypeOK
<1>. QED
  BY <1>1, <1>2, <1>3, <1>4, <1>5, <1>6 DEF Next, Promise!Next

\* What becomes active, or stays so, without an edit between is what was accepted.
LEMMA ActivityIsAccepted ==
  ASSUME TypeOK, overtook \in BOOLEAN, ActiveIsAccepted, Configure
  PROVE  ActiveIsAccepted'
<1>. SUFFICES ASSUME active', ~ overtook'  PROVE settings' \in accepted'
  BY DEF ActiveIsAccepted
<1>1. ~ overtook
  BY DEF Configure
<1>2. \A t \in Thread : thread[t] # Idle /\ thread'[t] = Idle => thread[t].row = settings
  BY DEF Configure
<1>3. Next
  BY DEF Configure
<1>4. ASSUME NEW t \in Thread, ReadRow(t) \/ Abandon(t)  PROVE settings' \in accepted'
  <2>1. settings' = settings /\ active' = active /\ accepted' = accepted
    BY <1>4 DEF ReadRow, Abandon
  <2>2. active
    BY <2>1
  <2>. QED
    BY <1>1, <2>1, <2>2 DEF ActiveIsAccepted
<1>5. ASSUME NEW t \in Thread, Update(t)  PROVE settings' \in accepted'
  <2>1. thread[t] # Idle /\ thread'[t] = Idle
    BY <1>5 DEF Update, Release, Idle, TypeOK
  <2>2. settings' = settings /\ active
    BY <1>2, <1>5, <2>1, UpdateResets
  <2>. QED
    BY <1>1, <1>5, <2>2 DEF Update, ActiveIsAccepted
<1>6. ASSUME NEW t \in Thread, Accept(t)  PROVE settings' \in accepted'
  <2>1. thread[t] # Idle /\ thread'[t] = Idle
    BY <1>6 DEF Accept, Validates, Release, Idle, TypeOK
  <2>. QED
    BY <1>2, <1>6, <2>1 DEF Accept
<1>7. ASSUME NEW t \in Thread, Refuse(t)  PROVE settings' \in accepted'
  <2>1. active
    BY <1>7 DEF Refuse
  <2>. QED
    BY <1>1, <1>7, <2>1 DEF Refuse, ActiveIsAccepted
<1>8. ~ Deactivate /\ ~ DeletePassword
  BY DEF Deactivate, DeletePassword, Reset
<1>. QED
  BY <1>3, <1>4, <1>5, <1>6, <1>7, <1>8 DEF Next

\* What was accepted stays so.
LEMMA AcceptedGrows ==
  ASSUME Next
  PROVE  accepted \subseteq accepted'
BY DEF Next, ReadRow, Update, Accept, Refuse, Abandon, Deactivate, DeletePassword

-------------------------------------------------------------------------------
(* The mail                                                                *)

LEMMA MailInitial == MailInit => MailIInv
<1>. SUFFICES ASSUME MailInit  PROVE MailIInv
  OBVIOUS
<1>1. TypeOK
  BY DEF MailInit, Init, TypeOK, Settings, Status
<1>2. Unanswered \in Waiting
  BY DEF Unanswered, Waiting
<1>3. MailTypeOK
  BY <1>1, <1>2 DEF MailInit, MailTypeOK
<1>4. \A x \in Sender : mail[x].at = "idle"
  BY DEF MailInit, Unanswered
<1>5. ~ active /\ accepted = {}
  BY DEF MailInit, Init
<1>. QED
  BY <1>3, <1>4, <1>5
  DEF MailIInv, ActiveIsAccepted, MailUsesAccepted, TakenOnce, AcceptedLogsIn

\* What a request that sends a mail does; the configuration stays as it is.
Send(x) ==
  \/ ReadActiveRow(x) \/ Refused(x) \/ RecipientRaises(x)
  \/ SecretUnavailable(x) \/ MessageRaises(x) \/ NoSession(x) \/ RelayFails(x)
  \/ RelayTakes(x) \/ AcknowledgementLost(x)
  \/ SendFailed(x) \/ Sent(x)

\* A session begins with the row as it is, or is one that another step leaves as it
\* was but for the message the relay takes.
LEMMA SessionStep ==
  ASSUME MailIInv, NEW x \in Sender, Send(x)
  PROVE  /\ mail' \in [Sender -> Waiting \cup Session \cup Trouble]
         /\ \A y \in Sender \ {x} : mail'[y] = mail[y]
         /\ mail'[x].at = "sending" =>
              \/ mail'[x] = [at |-> "sending", row |-> settings, overtook |-> overtook, taken |-> 0]
                 /\ active
              \/ /\ mail[x].at = "sending" /\ mail[x].taken = 0
                 /\ mail'[x] = [mail[x] EXCEPT !.taken = 1]
<1>. USE DEF MailIInv, MailTypeOK
<1>1. CASE ReadActiveRow(x)
  <2>. DEFINE session == [at |-> "sending", row |-> settings, overtook |-> overtook, taken |-> 0]
  <2>1. session \in Session
    BY DEF Session, TypeOK
  <2>2. active /\ mail' = [mail EXCEPT ![x] = session]
    BY <1>1 DEF ReadActiveRow
  <2>. HIDE DEF session
  <2>3. mail'[x] = session /\ mail' \in [Sender -> Waiting \cup Session \cup Trouble]
    BY <2>1, <2>2
  <2>4. \A y \in Sender \ {x} : mail'[y] = mail[y]
    BY <2>2
  <2>. QED
    BY <2>2, <2>3, <2>4 DEF session
<1>2. ASSUME NEW code \in {0, 200, 400, 500, 503}, Answer(x, code)
      PROVE  /\ mail' \in [Sender -> Waiting \cup Session \cup Trouble]
             /\ \A y \in Sender \ {x} : mail'[y] = mail[y]
             /\ mail'[x].at = "idle"
  <2>. DEFINE answer == [at |-> "idle", code |-> code]
  <2>1. answer \in Waiting /\ answer.at = "idle"
    BY DEF Waiting
  <2>2. mail' = [mail EXCEPT ![x] = answer]
    BY <1>2 DEF Answer
  <2>. HIDE DEF answer
  <2>. QED
    BY <2>1, <2>2
<1>3. ASSUME Fail(x), mail[x].at = "sending"
      PROVE  /\ mail' \in [Sender -> Waiting \cup Session \cup Trouble]
             /\ \A y \in Sender \ {x} : mail'[y] = mail[y]
             /\ mail'[x].at = "trouble"
  <2>. DEFINE trouble == [at |-> "trouble", taken |-> mail[x].taken]
  <2>1. mail[x] \in Session
    BY <1>3 DEF Waiting, Trouble
  <2>2. trouble \in Trouble /\ trouble.at = "trouble"
    BY <2>1 DEF Trouble, Session
  <2>3. mail' = [mail EXCEPT ![x] = trouble]
    BY <1>3 DEF Fail
  <2>. HIDE DEF trouble
  <2>. QED
    BY <2>2, <2>3
<1>4. CASE RelayTakes(x)
  <2>1. mail[x] \in Session /\ mail[x].taken = 0
    BY <1>4 DEF RelayTakes, Unsent, Waiting, Trouble
  <2>. DEFINE taken == [mail[x] EXCEPT !.taken = 1]
  <2>2. taken \in Session
    BY <2>1 DEF Session
  <2>3. mail' = [mail EXCEPT ![x] = taken]
    BY <1>4, <2>1 DEF RelayTakes
  <2>4. mail[x].at = "sending"
    BY <2>1 DEF Session
  <2>. HIDE DEF taken
  <2>5. mail'[x] = taken /\ mail' \in [Sender -> Waiting \cup Session \cup Trouble]
    BY <2>2, <2>3
  <2>6. \A y \in Sender \ {x} : mail'[y] = mail[y]
    BY <2>3
  <2>. QED
    BY <2>1, <2>4, <2>5, <2>6 DEF taken
<1>5. CASE \/ Refused(x) \/ RecipientRaises(x) \/ MessageRaises(x) \/ NoSession(x)
          \/ SendFailed(x) \/ Sent(x)
  <2>1. Answer(x, 200) \/ Answer(x, 400) \/ Answer(x, 500) \/ Answer(x, 503)
    BY <1>5 DEF Refused, RecipientRaises, MessageRaises, NoSession, SendFailed, Sent
  <2>. QED
    BY <1>2, <2>1
<1>6. CASE SecretUnavailable(x) \/ RelayFails(x) \/ AcknowledgementLost(x)
  BY <1>3, <1>6 DEF SecretUnavailable, RelayFails, AcknowledgementLost, Unsent, Taken
<1>. QED
  BY <1>1, <1>4, <1>5, <1>6 DEF Send

LEMMA SendOnlyMail ==
  ASSUME NEW x \in Sender, Send(x)
  PROVE  OnlyMail
BY DEF Send, ReadActiveRow, Refused, RecipientRaises, SecretUnavailable, MessageRaises,
       NoSession, RelayFails, RelayTakes, AcknowledgementLost, SendFailed, Sent

LEMMA SendInvariant ==
  ASSUME MailIInv, NEW x \in Sender, Send(x)
  PROVE  MailIInv'
<1>1. UNCHANGED <<settings, active, status, thread, accepted, overtook>>
  BY SendOnlyMail DEF OnlyMail, vars
<1>2. MailTypeOK'
  BY <1>1, SessionStep DEF MailIInv, MailTypeOK, TypeOK
<1>3. ActiveIsAccepted' /\ AcceptedLogsIn'
  BY <1>1 DEF MailIInv, ActiveIsAccepted, AcceptedLogsIn, ValidatorLogsIn
<1>4. ASSUME NEW y \in Sender, mail'[y].at = "sending"
      PROVE  /\ ~ mail'[y].overtook => mail'[y].row \in accepted
             /\ mail'[y].taken \in {0, 1}
  <2>1. CASE y # x
    BY <1>4, <2>1, SessionStep DEF MailIInv, MailUsesAccepted, TakenOnce
  <2>2. CASE y = x /\ active
             /\ mail'[x] = [at |-> "sending", row |-> settings, overtook |-> overtook, taken |-> 0]
    BY <2>2 DEF MailIInv, ActiveIsAccepted
  <2>3. CASE y = x /\ mail[x].at = "sending" /\ mail'[x] = [mail[x] EXCEPT !.taken = 1]
    <3>1. mail[x] \in Session
      BY <2>3 DEF MailIInv, MailTypeOK, Waiting, Trouble
    <3>2. mail'[x].overtook = mail[x].overtook /\ mail'[x].row = mail[x].row
          /\ mail'[x].taken = 1
      BY <2>3, <3>1 DEF Session
    <3>. QED
      BY <2>3, <3>2 DEF MailIInv, MailUsesAccepted
  <2>. QED
    BY <1>4, <2>1, <2>2, <2>3, SessionStep
<1>5. MailUsesAccepted' /\ TakenOnce'
  BY <1>1, <1>4 DEF MailUsesAccepted, TakenOnce
<1>. QED
  BY <1>2, <1>3, <1>5 DEF MailIInv

\* A request of the configuration touches no session.
LEMMA ConfigureInvariant ==
  ASSUME MailIInv, Configure
  PROVE  MailIInv'
<1>1. TypeOK'
  BY ConfigType DEF MailIInv, MailTypeOK, Configure
<1>2. Unanswered \in Waiting /\ Unanswered.at = "idle"
  BY DEF Unanswered, Waiting
<1>3. mail' = [x \in Sender |-> IF mail[x].at = "idle" THEN Unanswered ELSE mail[x]]
  BY DEF Configure
<1>4. mail' \in [Sender -> Waiting \cup Session \cup Trouble]
  BY <1>2, <1>3 DEF MailIInv, MailTypeOK
<1>5. \A x \in Sender : mail'[x].at = "sending" => mail'[x] = mail[x]
  BY <1>2, <1>3
<1>6. overtook' \in BOOLEAN
  BY DEF Configure
<1>7. ActiveIsAccepted'
  BY ActivityIsAccepted DEF MailIInv, MailTypeOK
<1>8. accepted \subseteq accepted' /\ AcceptedLogsIn'
  BY AcceptedGrows DEF MailIInv, AcceptedLogsIn, Configure, ValidatorLogsIn
<1>9. MailUsesAccepted' /\ TakenOnce'
  BY <1>5, <1>8 DEF MailIInv, MailUsesAccepted, TakenOnce
<1>. QED
  BY <1>1, <1>4, <1>6, <1>7, <1>8, <1>9 DEF MailIInv, MailTypeOK

LEMMA MailSteps ==
  ASSUME MailNext
  PROVE  Configure \/ \E x \in Sender : Send(x)
BY DEF MailNext, Send

LEMMA StutterInvariant ==
  ASSUME MailIInv, UNCHANGED mailVars
  PROVE  MailIInv'
<1>1. UNCHANGED <<settings, active, status, thread, accepted, mail, overtook>>
  BY DEF mailVars, vars
<1>2. MailTypeOK' /\ AcceptedLogsIn'
  BY <1>1 DEF MailIInv, MailTypeOK, TypeOK, AcceptedLogsIn, ValidatorLogsIn
<1>. QED
  BY <1>1, <1>2 DEF MailIInv, ActiveIsAccepted, MailUsesAccepted, TakenOnce

\* The inductive invariant: beside the type, that an active row which no edit has
\* overtaken was accepted, and what a session knows of the row it read.
THEOREM MailInvariance == MailSpec => []MailIInv
<1>1. MailIInv /\ [MailNext]_mailVars => MailIInv'
  BY MailSteps, SendInvariant, ConfigureInvariant, StutterInvariant
<1>. QED
  BY MailInitial, <1>1, PTL DEF MailSpec

-------------------------------------------------------------------------------
(* The properties                                                          *)

\* The requests that send a mail and those of the configuration keep to their types.
THEOREM MailTypeCorrect == MailSpec => []MailTypeOK
<1>1. MailIInv => MailTypeOK
  BY DEF MailIInv
<1>. QED
  BY MailInvariance, <1>1, PTL

\* No message goes through settings the relay never accepted, unless an edit had
\* overtaken the request that activated them.
THEOREM UsesAccepted == MailSpec => []MailUsesAccepted
<1>1. MailIInv => MailUsesAccepted
  BY DEF MailIInv
<1>. QED
  BY MailInvariance, <1>1, PTL

\* The relay takes a mail at most once, and "sent" is answered only if it did.
THEOREM SendsOnce == MailSpec => [][SentOnce]_mailVars
<1>1. ASSUME MailIInv, [MailNext]_mailVars  PROVE SentOnce
  <2>. SUFFICES ASSUME NEW x \in Sender, mail'[x] # mail[x]
                PROVE  IF Answered(x)'
                         THEN /\ mail'[x].code = 200 => ~ Answered(x) /\ mail[x].taken = 1
                              /\ mail'[x].code = 500 => Answered(x) \/ mail[x].taken = 0
                              /\ mail'[x].code = 503 => mail[x].at = "trouble" \/ mail[x].taken = 0
                         ELSE mail'[x].taken =< 1
    BY DEF SentOnce
  <2>0. mail \in [Sender -> Waiting \cup Session \cup Trouble]
    BY <1>1 DEF MailIInv, MailTypeOK
  <2>1. CASE Configure
    <3>1. mail'[x] = Unanswered
      BY <2>1 DEF Configure
    <3>. QED
      BY <3>1 DEF Unanswered, Answered
  <2>2. ASSUME NEW y \in Sender, Send(y)
        PROVE  Send(x)
    <3>1. y = x
      BY <1>1, <2>2, SessionStep
    <3>. QED
      BY <2>2, <3>1
  <2>3. CASE ReadActiveRow(x)
    <3>1. mail'[x] = [at |-> "sending", row |-> settings, overtook |-> overtook, taken |-> 0]
      BY <2>0, <2>3 DEF ReadActiveRow
    <3>. QED
      BY <3>1 DEF Answered
  <2>4. CASE Refused(x)
    <3>1. mail'[x] = [at |-> "idle", code |-> 400]
      BY <2>0, <2>4 DEF Refused, Answer
    <3>. QED
      BY <3>1 DEF Answered
  <2>10. CASE RecipientRaises(x) \/ MessageRaises(x)
    <3>1. mail'[x] = [at |-> "idle", code |-> 500]
      BY <2>0, <2>10 DEF RecipientRaises, MessageRaises, Answer
    <3>2. Answered(x) \/ mail[x].taken = 0
      BY <2>10 DEF RecipientRaises, MessageRaises, Unsent
    <3>. QED
      BY <3>1, <3>2 DEF Answered
  <2>5. CASE SecretUnavailable(x) \/ RelayFails(x) \/ AcknowledgementLost(x)
    <3>1. mail[x].taken \in {0, 1}
      BY <1>1, <2>5 DEF SecretUnavailable, RelayFails, AcknowledgementLost, Unsent, Taken,
                        MailIInv, TakenOnce
    <3>2. mail'[x] = [at |-> "trouble", taken |-> mail[x].taken]
      BY <2>0, <2>5 DEF SecretUnavailable, RelayFails, AcknowledgementLost, Fail
    <3>. QED
      BY <3>1, <3>2 DEF Answered
  <2>6. CASE NoSession(x) \/ SendFailed(x)
    <3>1. mail'[x] = [at |-> "idle", code |-> 503]
      BY <2>0, <2>6 DEF NoSession, SendFailed, Answer
    <3>2. mail[x].at = "trouble" \/ mail[x].taken = 0
      BY <2>6 DEF NoSession, SendFailed, Unsent
    <3>. QED
      BY <3>1, <3>2 DEF Answered
  <2>7. CASE RelayTakes(x)
    <3>1. mail[x] \in Session /\ mail[x].taken = 0 /\ mail[x].at = "sending"
      BY <2>0, <2>7 DEF RelayTakes, Unsent, Waiting, Trouble
    <3>2. mail'[x] = [mail[x] EXCEPT !.taken = 1]
      BY <2>0, <2>7, <3>1 DEF RelayTakes
    <3>3. mail'[x].taken = 1 /\ mail'[x].at = "sending"
      BY <3>1, <3>2 DEF Session
    <3>. QED
      BY <3>3 DEF Answered
  <2>8. CASE Sent(x)
    <3>1. mail'[x] = [at |-> "idle", code |-> 200]
      BY <2>0, <2>8 DEF Sent, Answer
    <3>2. mail[x].at = "sending" /\ mail[x].taken = 1
      BY <2>8 DEF Sent, Taken
    <3>. QED
      BY <3>1, <3>2 DEF Answered
  <2>9. MailNext
    BY <1>1 DEF mailVars
  <2>. QED
    BY <2>1, <2>2, <2>3, <2>4, <2>5, <2>6, <2>7, <2>8, <2>9, <2>10, MailSteps DEF Send
<1>. QED
  BY MailInvariance, <1>1, PTL DEF MailSpec

\* A relay whose session the validator could open is one the sender can log into, but
\* for a certificate that only the sender verifies.
LEMMA ValidatorAndSender ==
  ASSUME NEW r \in Relay, ValidatorLogsIn(r), ~ SenderLogsIn(r)
  PROVE  r \in OffersTls \ Certified
BY RelayAssumption DEF ValidatorLogsIn, SenderLogsIn

\* A mail through settings that were accepted fails only when something outside went
\* wrong, or at one of the two things the validation leaves out.
THEOREM AcceptedCanSend == MailSpec => [][CanSend]_mailVars
<1>1. ASSUME MailIInv, [MailNext]_mailVars  PROVE CanSend
  <2>. SUFFICES ASSUME NEW x \in Sender, mail[x].at = "sending", ~ mail[x].overtook, Answered(x)'
                PROVE  \/ mail'[x].code = 200
                       \/ mail[x].row.relay \in (OffersTls \ Certified) \cup OddSender
    BY DEF CanSend
  <2>0. mail \in [Sender -> Waiting \cup Session \cup Trouble]
    BY <1>1 DEF MailIInv, MailTypeOK
  <2>1. mail'[x] # mail[x]
    BY DEF Answered
  <2>2. ~ Configure
    BY <2>1 DEF Configure
  <2>3. PICK y \in Sender : Send(y)
    BY <1>1, <2>1, <2>2, MailSteps DEF mailVars
  <2>4. Send(x)
    <3>1. y = x
      BY <1>1, <2>1, <2>3, SessionStep
    <3>. QED
      BY <2>3, <3>1
  <2>5. CASE Sent(x)
    BY <2>0, <2>5 DEF Sent, Answer
  <2>6. CASE MessageRaises(x) \/ NoSession(x)
    <3>1. mail[x].row \in accepted
      BY <1>1 DEF MailIInv, MailUsesAccepted
    <3>2. mail[x].row.relay \in Relay
      BY <1>1, <3>1 DEF MailIInv, MailTypeOK, TypeOK, Settings
    <3>3. \/ mail[x].row.relay \in OddSender
          \/ ValidatorLogsIn(mail[x].row.relay) /\ ~ SenderLogsIn(mail[x].row.relay)
      BY <1>1, <2>6, <3>1 DEF MessageRaises, NoSession, MailIInv, AcceptedLogsIn
    <3>. QED
      BY <3>2, <3>3, ValidatorAndSender
  <2>7. mail'[x].at = "idle"
    BY DEF Answered
  <2>8. ~ ReadActiveRow(x) /\ ~ Refused(x) /\ ~ RecipientRaises(x) /\ ~ SendFailed(x)
    BY DEF ReadActiveRow, Refused, RecipientRaises, SendFailed, Answered
  <2>9. ~ SecretUnavailable(x) /\ ~ RelayFails(x) /\ ~ AcknowledgementLost(x)
    <3>1. ~ Fail(x)
      BY <2>0, <2>7 DEF Fail
    <3>. QED
      BY <3>1 DEF SecretUnavailable, RelayFails, AcknowledgementLost
  <2>10. ~ RelayTakes(x)
    <3>1. SUFFICES ASSUME RelayTakes(x)  PROVE FALSE
      OBVIOUS
    <3>2. mail'[x] = [mail[x] EXCEPT !.taken = @ + 1] /\ mail[x] \in Session
      BY <2>0, <3>1 DEF RelayTakes, Waiting, Trouble
    <3>. QED
      BY <2>7, <3>2 DEF Session
  <2>. QED
    BY <2>4, <2>5, <2>6, <2>8, <2>9, <2>10 DEF Send
<1>. QED
  BY MailInvariance, <1>1, PTL DEF MailSpec

\* What a mail is answered is true: "sent" once it was taken, once, and an internal error
\* only if it was not; a mail through settings that were accepted fails only for something
\* outside, at the certificate, or for a sender that is no address in plain ASCII.
THEOREM AnswersTruly == MailSpec => MailAnswersTruly
BY SendsOnce, AcceptedCanSend, PTL DEF MailAnswersTruly

\* The requests of the configuration are those of SmtpConfig: to send a mail changes
\* nothing of it.
THEOREM MailConfigures == MailSpec => Spec
<1>1. MailInit => Init
  BY DEF MailInit
<1>2. [MailNext]_mailVars => [Next]_vars
  BY MailSteps, SendOnlyMail DEF Configure, OnlyMail, mailVars
<1>. QED
  BY <1>1, <1>2, PTL DEF MailSpec, Spec

\* The SMTP configuration keeps the promise of ValidatedConfig, as long as no edit
\* overtakes another request.
THEOREM KeepsPromises == MailSpec => SmtpPromises
<1>1. MailInit => Promise!Init
  BY DEF MailInit, Init, Promise!Init, Settings
<1>2. MailIInv /\ [MailNext]_mailVars => [KeepsPromise]_vars
  <2>1. MailIInv => TypeOK
    BY DEF MailIInv, MailTypeOK
  <2>2. [MailNext]_mailVars => [Next]_vars
    BY MailSteps, SendOnlyMail DEF Configure, OnlyMail, mailVars
  <2>. QED
    BY <2>1, <2>2, StepKeepsPromise
<1>. QED
  BY MailInvariance, <1>1, <1>2, PTL DEF MailSpec, SmtpPromises
-------------------------------------------------------------------------------
(* The collectors                                                          *)

\* The copy of CollectorConfig in Configurations is the one that its proofs are about:
\* definition by definition they are the same.
LEMMA SameCollectors ==
  /\ Collectors!Init <=> CP!Init
  /\ [Collectors!Next]_(Collectors!vars) <=> [CP!Next]_(CP!vars)
  /\ Collectors!TypeOK <=> CP!TypeOK
  /\ Collectors!StatusAgrees <=> CP!StatusAgrees
  /\ \A c \in Config : Collectors!KeepsPromise(c) <=> CP!KeepsPromise(c)
<1>. USE DEF
       Collectors!Inherited, CP!Inherited, Collectors!Type, CP!Type, Collectors!Secrets,
       CP!Secrets, Collectors!Status, CP!Status, Collectors!Idle, CP!Idle,
       Collectors!Activation, CP!Activation, Collectors!Credentials, CP!Credentials,
       Collectors!NoCredentials, CP!NoCredentials, Collectors!NotListed, CP!NotListed,
       Collectors!Call, CP!Call, Collectors!NoCall, CP!NoCall, Collectors!Complete,
       CP!Complete, Collectors!NoSecrets, CP!NoSecrets, Collectors!Free, CP!Free,
       Collectors!Reset, CP!Reset, Collectors!Busy, CP!Busy, Collectors!Release, CP!Release,
       Collectors!CredentialsOf, CP!CredentialsOf, Collectors!CredentialsFor,
       CP!CredentialsFor, Collectors!Create, CP!Create, Collectors!Update, CP!Update,
       Collectors!DeleteApiKey, CP!DeleteApiKey, Collectors!DeleteEmail, CP!DeleteEmail,
       Collectors!Deactivate, CP!Deactivate, Collectors!DeleteConfig, CP!DeleteConfig,
       Collectors!BeginActivation, CP!BeginActivation, Collectors!AcceptActivation,
       CP!AcceptActivation, Collectors!RefuseActivation, CP!RefuseActivation,
       Collectors!AbandonActivation, CP!AbandonActivation, Collectors!ListSources,
       CP!ListSources, Collectors!CallProvider, CP!CallProvider, Collectors!EndCall,
       CP!EndCall, Collectors!RestartScheduler, CP!RestartScheduler, Collectors!Api, CP!Api,
       Collectors!Scheduler, CP!Scheduler, Collectors!Overtaken, CP!Overtaken,
       Collectors!Promise!vars, CP!Promise!vars, Collectors!Promise!Edit, CP!Promise!Edit,
       Collectors!Promise!Accept, CP!Promise!Accept, Collectors!Promise!Refuse,
       CP!Promise!Refuse, Collectors!Promise!Withdraw, CP!Promise!Withdraw,
       Collectors!Promise!Next, CP!Promise!Next, Collectors!table, CP!table,
       Collectors!scheduler, CP!scheduler, Collectors!vars, CP!vars, Collectors!TypeOK,
       CP!TypeOK, Collectors!StatusAgrees, CP!StatusAgrees, Collectors!Init, CP!Init,
       Collectors!Next, CP!Next, Collectors!KeepsPromise, CP!KeepsPromise
<1>1. Collectors!Init <=> CP!Init
  OBVIOUS
<1>2. [Collectors!Next]_(Collectors!vars) <=> [CP!Next]_(CP!vars)
  OBVIOUS
<1>3. Collectors!TypeOK <=> CP!TypeOK
  OBVIOUS
<1>4. Collectors!StatusAgrees <=> CP!StatusAgrees
  OBVIOUS
<1>5. ASSUME NEW c \in Config  PROVE Collectors!KeepsPromise(c) <=> CP!KeepsPromise(c)
  OBVIOUS
<1>. QED
  BY <1>1, <1>2, <1>3, <1>4, <1>5

-------------------------------------------------------------------------------
(* The CTI providers                                                       *)

\* A row is active because the provider accepted its key, or needs none, unless an edit
\* had overtaken the activation.
ActiveKeyAccepted == \A p \in Provider : enabled[p] /\ ~ late[p] => keys[p] \in approved[p]

CtiIInv ==
  /\ Cti!EnrichmentTypeOK
  /\ ActiveKeyAccepted
  /\ \A x \in Reader : Cti!CalledAccepted(x)

\* A busy thread holds a provider and the key it read.
LEMMA CtiThreadHolds ==
  ASSUME Cti!TypeOK, NEW t \in Thread, Cti!Busy(t)
  PROVE  worker[t].provider \in Provider /\ worker[t].key \in Cti!Settings
BY DEF Cti!TypeOK, Cti!Busy, Cti!Activation, Cti!Idle

\* The requests that are one transaction: the row is inactive and its validation
\* forgotten.
CtiTransaction(p) == Cti!Update(p) \/ Cti!DeleteApiKey(p) \/ Cti!Deactivate(p)

LEMMA CtiTransactionStep ==
  ASSUME Cti!TypeOK, NEW p \in Provider, CtiTransaction(p)
  PROVE  /\ keys' \in [Provider -> Cti!Settings]
         /\ \A q \in Keyless : keys'[q] = None
         /\ \A q \in Provider \ {p} : keys'[q] = keys[q]
         /\ enabled' = [enabled EXCEPT ![p] = FALSE]
         /\ outcome' = [outcome EXCEPT ![p] = "not_tested"]
         /\ UNCHANGED <<worker, approved>>
<1>. USE KeylessAssumption DEF Cti!TypeOK, Cti!Settings, Cti!Record
<1>1. CASE Cti!Update(p)
  BY <1>1 DEF Cti!Update
<1>2. CASE Cti!DeleteApiKey(p)
  BY <1>2 DEF Cti!DeleteApiKey
<1>3. CASE Cti!Deactivate(p)
  BY <1>3 DEF Cti!Deactivate
<1>. QED
  BY <1>1, <1>2, <1>3 DEF CtiTransaction

\* An activation that ends records its outcome with the provider it is about, and
\* leaves the keys as they are.
CtiEnds(t) == Cti!AcceptActivation(t) \/ Cti!RefuseActivation(t) \/ Cti!AbandonActivation(t)

LEMMA CtiEndsStep ==
  ASSUME Cti!TypeOK, NEW t \in Thread, CtiEnds(t)
  PROVE  LET p == worker[t].provider IN
         /\ Cti!Busy(t) /\ p \in Provider
         /\ worker' = [worker EXCEPT ![t] = Cti!Idle]
         /\ keys' = keys
         /\ \/ /\ approved' = [approved EXCEPT ![p] = @ \cup {worker[t].key}]
               /\ enabled' = [enabled EXCEPT ![p] = TRUE]
               /\ outcome' = [outcome EXCEPT ![p] = "success"]
            \/ /\ approved' = approved
               /\ enabled' = [enabled EXCEPT ![p] = FALSE]
               /\ outcome' = [outcome EXCEPT ![p] = "failed"]
            \/ UNCHANGED <<approved, enabled, outcome>>
<1>1. Cti!Busy(t)
  BY DEF CtiEnds, Cti!AcceptActivation, Cti!RefuseActivation, Cti!AbandonActivation
<1>. QED
  BY <1>1, CtiThreadHolds
  DEF CtiEnds, Cti!AcceptActivation, Cti!RefuseActivation, Cti!AbandonActivation, Cti!Release,
      Cti!Record

LEMMA CtiSteps ==
  ASSUME Cti!Next
  PROVE  \/ \E p \in Provider : CtiTransaction(p)
         \/ \E p \in Provider, t \in Thread : Cti!BeginActivation(t, p)
         \/ \E t \in Thread : CtiEnds(t)
BY DEF Cti!Next, CtiTransaction, CtiEnds

LEMMA CtiConfigType ==
  ASSUME Cti!TypeOK, Cti!Next
  PROVE  Cti!TypeOK'
<1>1. ASSUME NEW p \in Provider, CtiTransaction(p)  PROVE Cti!TypeOK'
  BY <1>1, CtiTransactionStep DEF Cti!TypeOK, Cti!Status
<1>2. ASSUME NEW p \in Provider, NEW t \in Thread, Cti!BeginActivation(t, p)
      PROVE  Cti!TypeOK'
  <2>1. [provider |-> p, key |-> keys[p]] \in Cti!Activation
    BY DEF Cti!TypeOK, Cti!Activation
  <2>. QED
    BY <1>2, <2>1 DEF Cti!TypeOK, Cti!BeginActivation
<1>3. ASSUME NEW t \in Thread, CtiEnds(t)  PROVE Cti!TypeOK'
  <2>. DEFINE p == worker[t].provider
  <2>1. p \in Provider /\ worker[t].key \in Cti!Settings
    BY <1>3, CtiEndsStep, CtiThreadHolds
  <2>2. /\ worker' = [worker EXCEPT ![t] = Cti!Idle] /\ keys' = keys
        /\ approved' \in {approved, [approved EXCEPT ![p] = @ \cup {worker[t].key}]}
        /\ \E on \in BOOLEAN : enabled' \in {enabled, [enabled EXCEPT ![p] = on]}
        /\ \E o \in {"success", "failed"} : outcome' \in {outcome, [outcome EXCEPT ![p] = o]}
    BY <1>3, CtiEndsStep
  <2>. HIDE DEF p
  <2>3. approved' \in [Provider -> SUBSET Cti!Settings]
    BY <2>1, <2>2 DEF Cti!TypeOK
  <2>4. enabled' \in [Provider -> BOOLEAN] /\ outcome' \in [Provider -> Cti!Status]
    BY <2>1, <2>2 DEF Cti!TypeOK, Cti!Status
  <2>5. worker' \in [Thread -> Cti!Activation \cup {Cti!Idle}]
    BY <2>2 DEF Cti!TypeOK
  <2>. QED
    BY <2>2, <2>3, <2>4, <2>5 DEF Cti!TypeOK
<1>. QED
  BY <1>1, <1>2, <1>3, CtiSteps

\* A step of the service that no edit has overtaken is, for each provider, one of the
\* promise of ValidatedConfig.
LEMMA CtiStepKeepsPromise ==
  ASSUME Cti!TypeOK, [Cti!Next]_(Cti!vars), NEW p \in Provider
  PROVE  Cti!KeepsPromise(p)
<1>. SUFFICES ASSUME \A t \in Thread : worker[t].provider = p => worker[t].key = keys[p]
              PROVE  [Cti!Promise(p)!Next]_(Cti!Promise(p)!vars)
  BY DEF Cti!KeepsPromise, Cti!Overtaken
<1>. USE DEF Cti!Promise!vars
<1>1. ASSUME NEW q \in Provider, CtiTransaction(q)
      PROVE  Cti!Promise(p)!Edit \/ UNCHANGED Cti!Promise(p)!vars
  <2>1. CASE p = q
    BY <1>1, <2>1, CtiTransactionStep DEF Cti!Promise!Edit, Cti!TypeOK
  <2>2. CASE p # q
    BY <1>1, <2>2, CtiTransactionStep DEF Cti!TypeOK
  <2>. QED
    BY <2>1, <2>2
<1>2. ASSUME NEW t \in Thread, NEW q \in Provider, Cti!BeginActivation(t, q)
      PROVE  UNCHANGED Cti!Promise(p)!vars
  BY <1>2 DEF Cti!BeginActivation
<1>3. ASSUME NEW t \in Thread, CtiEnds(t)
      PROVE  Cti!Promise(p)!Accept \/ Cti!Promise(p)!Refuse \/ UNCHANGED Cti!Promise(p)!vars
  <2>1. CASE worker[t].provider = p
    <3>1. worker[t].key = keys[p] /\ keys'[p] = keys[p]
      BY <1>3, <2>1, CtiEndsStep
    <3>2. \/ approved'[p] = approved[p] \cup {keys[p]} /\ enabled'[p] = TRUE /\ outcome'[p] = "success"
          \/ approved'[p] = approved[p] /\ enabled'[p] = FALSE /\ outcome'[p] = "failed"
          \/ UNCHANGED <<approved, enabled, outcome>>
      BY <1>3, <2>1, <3>1, CtiEndsStep DEF Cti!TypeOK
    <3>. QED
      BY <3>1, <3>2 DEF Cti!Promise!Accept, Cti!Promise!Refuse
  <2>2. CASE worker[t].provider # p
    BY <1>3, <2>2, CtiEndsStep DEF Cti!TypeOK
  <2>. QED
    BY <2>1, <2>2
<1>4. CASE UNCHANGED Cti!vars
  BY <1>4 DEF Cti!vars
<1>. QED
  BY <1>1, <1>2, <1>3, <1>4, CtiSteps DEF Cti!Promise!Next

\* What becomes active, or stays so, without an edit between, is active with a key that
\* was accepted.
LEMMA CtiActivityIsAccepted ==
  ASSUME Cti!TypeOK, ActiveKeyAccepted, Cti!Configure
  PROVE  ActiveKeyAccepted'
<1>. SUFFICES ASSUME NEW p \in Provider, enabled'[p], ~ late'[p]
              PROVE  keys'[p] \in approved'[p]
  BY DEF ActiveKeyAccepted
<1>1. /\ ~ late[p]
      /\ \A t \in Thread : worker[t].provider = p /\ worker'[t] = Cti!Idle => worker[t].key = keys[p]
  BY DEF Cti!Configure
<1>2. enabled[p] => keys[p] \in approved[p]
  BY <1>1 DEF ActiveKeyAccepted
<1>3. ASSUME NEW q \in Provider, CtiTransaction(q)  PROVE keys'[p] \in approved'[p]
  <2>1. p # q
    BY <1>3, CtiTransactionStep DEF Cti!TypeOK
  <2>. QED
    BY <1>2, <1>3, <2>1, CtiTransactionStep DEF Cti!TypeOK
<1>4. ASSUME NEW q \in Provider, NEW t \in Thread, Cti!BeginActivation(t, q)
      PROVE  keys'[p] \in approved'[p]
  BY <1>2, <1>4 DEF Cti!BeginActivation
<1>5. ASSUME NEW t \in Thread, CtiEnds(t)  PROVE keys'[p] \in approved'[p]
  <2>1. worker'[t] = Cti!Idle
    BY <1>5, CtiEndsStep DEF Cti!TypeOK
  <2>2. CASE worker[t].provider = p
    <3>1. worker[t].key = keys[p] /\ keys'[p] = keys[p]
      BY <1>1, <1>5, <2>1, <2>2, CtiEndsStep
    <3>2. \/ approved'[p] = approved[p] \cup {keys[p]}
          \/ approved'[p] = approved[p] /\ enabled'[p] = FALSE
          \/ UNCHANGED <<approved, enabled>>
      BY <1>5, <2>2, <3>1, CtiEndsStep DEF Cti!TypeOK
    <3>. QED
      BY <1>2, <3>1, <3>2
  <2>3. CASE worker[t].provider # p
    <3>1. keys'[p] = keys[p] /\ approved'[p] = approved[p] /\ enabled'[p] = enabled[p]
      BY <1>5, <2>3, CtiEndsStep DEF Cti!TypeOK
    <3>. QED
      BY <1>2, <3>1
  <2>. QED
    BY <2>2, <2>3
<1>. QED
  BY <1>3, <1>4, <1>5, CtiSteps DEF Cti!Configure

\* What a provider accepted stays so.
LEMMA ApprovedGrows ==
  ASSUME Cti!TypeOK, Cti!Next, NEW p \in Provider
  PROVE  approved[p] \subseteq approved'[p]
<1>1. ASSUME NEW t \in Thread, CtiEnds(t)  PROVE approved[p] \subseteq approved'[p]
  BY <1>1, CtiEndsStep DEF Cti!TypeOK
<1>. QED
  BY <1>1, CtiSteps, CtiTransactionStep DEF Cti!BeginActivation

-------------------------------------------------------------------------------
(* A request that enriches an IP                                           *)

Enrich(x) ==
  \/ Cti!NotFound(x)
  \/ \E p \in Provider :
       Cti!Inactive(x, p) \/ Cti!NoKey(x, p) \/ Cti!SecretUnavailable(x, p) \/ Cti!Call(x, p)
  \/ Cti!Report(x) \/ Cti!MappingRaises(x) \/ Cti!NoObject(x) \/ Cti!CallFails(x)
  \/ Cti!ConnectionCut(x)

\* It is answered, or calls a provider that is active with the key of its row.
LEMMA EnrichStep ==
  ASSUME NEW x \in Reader, DOMAIN request = Reader, Enrich(x)
  PROVE  /\ UNCHANGED <<keys, enabled, outcome, worker, approved, late>>
         /\ DOMAIN request' = Reader
         /\ \A y \in Reader \ {x} : request'[y] = request[y]
         /\ \/ /\ request'[x].at = "answered" /\ request'[x].code \in Cti!Code
               /\ request'[x].fault \in BOOLEAN
            \/ \E p \in Provider :
                 /\ enabled[p]
                 /\ request'[x] = [at |-> "calling", provider |-> p, key |-> keys[p],
                                   overtook |-> late[p]]
<1>. USE DEF Cti!OnlyRequest, Cti!vars
<1>1. ASSUME NEW code \in Cti!Code, NEW fault \in BOOLEAN, NEW document, NEW report,
             Cti!Answer(x, code, fault, document, report)
      PROVE  /\ UNCHANGED <<keys, enabled, outcome, worker, approved, late>>
             /\ DOMAIN request' = Reader
             /\ \A y \in Reader \ {x} : request'[y] = request[y]
             /\ request'[x].at = "answered" /\ request'[x].code \in Cti!Code
             /\ request'[x].fault \in BOOLEAN
  BY <1>1 DEF Cti!Answer, Cti!Answered
<1>2. ASSUME NEW p \in Provider, Cti!Call(x, p)
      PROVE  /\ UNCHANGED <<keys, enabled, outcome, worker, approved, late>>
             /\ DOMAIN request' = Reader
             /\ \A y \in Reader \ {x} : request'[y] = request[y]
             /\ enabled[p]
             /\ request'[x] = [at |-> "calling", provider |-> p, key |-> keys[p],
                               overtook |-> late[p]]
  BY <1>2 DEF Cti!Call
<1>3. CASE \E p \in Provider : Cti!Call(x, p)
  BY <1>2, <1>3
<1>4. CASE ~ \E p \in Provider : Cti!Call(x, p)
  <2>1. \E code \in Cti!Code, fault \in BOOLEAN : \E document, report :
          Cti!Answer(x, code, fault, document, report)
    BY <1>4 DEF Enrich, Cti!Code, Cti!NotFound, Cti!Inactive, Cti!NoKey, Cti!SecretUnavailable,
                Cti!Report, Cti!MappingRaises, Cti!NoObject, Cti!CallFails, Cti!ConnectionCut,
                Cti!Refuse
  <2>. QED
    BY <1>1, <2>1
<1>. QED
  BY <1>3, <1>4

LEMMA EnrichInvariant ==
  ASSUME CtiIInv, NEW x \in Reader, Enrich(x)
  PROVE  CtiIInv'
<1>1. DOMAIN request = Reader
  BY DEF CtiIInv, Cti!EnrichmentTypeOK
<1>2. UNCHANGED <<keys, enabled, outcome, worker, approved, late>>
  BY <1>1, EnrichStep
<1>3. Cti!TypeOK' /\ ActiveKeyAccepted'
  BY <1>2 DEF CtiIInv, Cti!EnrichmentTypeOK, Cti!TypeOK, ActiveKeyAccepted
<1>4. ASSUME NEW y \in Reader
      PROVE  /\ \/ request'[y].at = "answered" /\ request'[y].code \in Cti!Code
                   /\ request'[y].fault \in BOOLEAN
                \/ request'[y].at = "calling" /\ request'[y].provider \in Provider
                   /\ request'[y].key \in Cti!Settings /\ request'[y].overtook \in BOOLEAN
             /\ request'[y].at = "calling" /\ ~ request'[y].overtook =>
                  request'[y].key \in approved[request'[y].provider]
  <2>1. CASE y # x
    BY <1>1, <2>1, EnrichStep
    DEF CtiIInv, Cti!EnrichmentTypeOK, Cti!CalledAccepted, Cti!Calling
  <2>2. CASE y = x /\ request'[x].at = "answered" /\ request'[x].code \in Cti!Code
             /\ request'[x].fault \in BOOLEAN
    BY <2>2
  <2>3. ASSUME y = x, NEW p \in Provider, enabled[p],
               request'[x] = [at |-> "calling", provider |-> p, key |-> keys[p],
                              overtook |-> late[p]]
        PROVE  /\ request'[y].at = "calling" /\ request'[y].provider = p
               /\ request'[y].key \in Cti!Settings /\ request'[y].overtook \in BOOLEAN
               /\ ~ request'[y].overtook => request'[y].key \in approved[p]
    BY <2>3 DEF CtiIInv, Cti!EnrichmentTypeOK, Cti!TypeOK, ActiveKeyAccepted
  <2>. QED
    BY <1>1, <2>1, <2>2, <2>3, EnrichStep
<1>5. Cti!EnrichmentTypeOK'
  BY <1>1, <1>2, <1>3, <1>4, EnrichStep DEF CtiIInv, Cti!EnrichmentTypeOK
<1>6. \A y \in Reader : Cti!CalledAccepted(y)'
  BY <1>2, <1>4 DEF Cti!CalledAccepted, Cti!Calling
<1>. QED
  BY <1>3, <1>5, <1>6 DEF CtiIInv

\* A request of the configuration leaves a call as it is.
LEMMA CtiConfigureInvariant ==
  ASSUME CtiIInv, Cti!Configure
  PROVE  CtiIInv'
<1>1. Cti!TypeOK /\ Cti!Next
  BY DEF CtiIInv, Cti!EnrichmentTypeOK, Cti!Configure
<1>2. Cti!TypeOK' /\ ActiveKeyAccepted'
  BY <1>1, CtiConfigType, CtiActivityIsAccepted DEF CtiIInv
<1>3. late' \in [Provider -> BOOLEAN]
  <2>1. enabled' \in [Provider -> BOOLEAN]
    BY <1>2 DEF Cti!TypeOK
  <2>2. late' = [p \in Provider |->
          enabled'[p] /\ (late[p] \/ \E t \in Thread : /\ worker[t].provider = p
                                                      /\ worker'[t] = Cti!Idle
                                                      /\ worker[t].key # keys[p])]
    BY DEF Cti!Configure
  <2>. QED
    BY <2>2
<1>4. request' = [x \in Reader |-> IF request[x].at = "answered" THEN Cti!Unanswered ELSE request[x]]
  BY DEF Cti!Configure
<1>5. /\ Cti!Unanswered.at = "answered" /\ Cti!Unanswered.code \in Cti!Code
      /\ Cti!Unanswered.fault \in BOOLEAN
  BY DEF Cti!Unanswered, Cti!Answered, Cti!Code
<1>6. Cti!EnrichmentTypeOK'
  BY <1>2, <1>3, <1>4, <1>5 DEF CtiIInv, Cti!EnrichmentTypeOK
<1>7. ASSUME NEW x \in Reader  PROVE Cti!CalledAccepted(x)'
  <2>. SUFFICES ASSUME request'[x].at = "calling", ~ request'[x].overtook
                PROVE  request'[x].key \in approved'[request'[x].provider]
    BY DEF Cti!CalledAccepted, Cti!Calling
  <2>1. request'[x] = request[x] /\ request[x].at = "calling"
    BY <1>4, <1>5
  <2>2. request[x].key \in approved[request[x].provider] /\ request[x].provider \in Provider
    BY <2>1 DEF CtiIInv, Cti!EnrichmentTypeOK, Cti!CalledAccepted, Cti!Calling
  <2>. QED
    BY <1>1, <2>1, <2>2, ApprovedGrows
<1>. QED
  BY <1>2, <1>6, <1>7 DEF CtiIInv

LEMMA CtiInitial == Cti!EnrichmentInit => CtiIInv
<1>. SUFFICES ASSUME Cti!EnrichmentInit  PROVE CtiIInv
  OBVIOUS
<1>1. Cti!TypeOK /\ ActiveKeyAccepted
  BY KeylessAssumption
  DEF Cti!EnrichmentInit, Cti!Init, Cti!TypeOK, Cti!Settings, Cti!Status, ActiveKeyAccepted
<1>2. /\ Cti!Unanswered.at = "answered" /\ Cti!Unanswered.code \in Cti!Code
      /\ Cti!Unanswered.fault \in BOOLEAN
  BY DEF Cti!Unanswered, Cti!Answered, Cti!Code
<1>3. Cti!EnrichmentTypeOK
  BY <1>1, <1>2 DEF Cti!EnrichmentInit, Cti!EnrichmentTypeOK
<1>4. \A x \in Reader : Cti!CalledAccepted(x)
  BY <1>2 DEF Cti!EnrichmentInit, Cti!CalledAccepted, Cti!Calling
<1>. QED
  BY <1>1, <1>3, <1>4 DEF CtiIInv

\* The inductive invariant of the CTI providers: beside the type, that the key of an active
\* row was accepted unless an edit had overtaken the activation, and what a call knows of
\* the key it is made with.
LEMMA CtiInvariant ==
  ASSUME CtiIInv, [Cti!EnrichmentNext]_(Cti!enrichmentVars)
  PROVE  CtiIInv'
<1>1. ASSUME UNCHANGED Cti!enrichmentVars  PROVE CtiIInv'
  BY <1>1
  DEF Cti!enrichmentVars, Cti!vars, CtiIInv, Cti!EnrichmentTypeOK, Cti!TypeOK, ActiveKeyAccepted,
      Cti!CalledAccepted, Cti!Calling
<1>2. Cti!EnrichmentNext => Cti!Configure \/ \E x \in Reader : Enrich(x)
  BY DEF Cti!EnrichmentNext, Enrich
<1>. QED
  BY <1>1, <1>2, EnrichInvariant, CtiConfigureInvariant

-------------------------------------------------------------------------------
(* What a report says of its document                                      *)

\* Induction up to a number, on the set of those for which a fact is established.
LEMMA UpTo ==
  ASSUME NEW N \in Nat, NEW S, 0 \in S, \A n \in 1 .. N : n - 1 \in S => n \in S
  PROVE  0 .. N \subseteq S
<1>. DEFINE missing == (0 .. N) \ S
<1>. SUFFICES ASSUME missing # {}  PROVE FALSE
  OBVIOUS
<1>1. missing \subseteq Nat
  OBVIOUS
<1>2. PICK n \in missing : \A m \in missing : ~ <<m, n>> \in OpToRel(<, Nat)
  BY <1>1, NatLessThanWellFounded, WFMin, Zenon
<1>3. n \in 1 .. N /\ n - 1 \in (0 .. N) /\ <<n - 1, n>> \in OpToRel(<, Nat)
  BY <1>1 DEF OpToRel
<1>. QED
  BY <1>2, <1>3

LEMMA SameCardinality == \A S : Cti!Cardinality(S) = Cardinality(S)
BY DEF Cti!Cardinality, Cardinality

\* A report of AbuseIPDB.
LEMMA SharesAreFaithful ==
  ASSUME NEW d, d.kind = "abuseipdb", Cti!Readable(d)
  PROVE  Cti!Faithful(d, Cti!Map(d))
<1>. DEFINE total == d.total
            reports == d.reports
            Named(i) == Cti!ToSet(reports[i]) \ {0}
            By(c) == {i \in DOMAIN reports : c \in Named(i)}
            shares == Cti!Percentages(total, reports)
<1>1. total \in Int /\ reports \in Seq(Seq(Nat))
  BY DEF Cti!Readable
<1>2. Cti!Map(d) = shares
  BY DEF Cti!Map
<1>3. ASSUME NEW c \in DOMAIN shares
      PROVE  /\ total > 0 /\ shares[c] = (Cardinality(By(c)) * 100) \div total
             /\ \E i \in DOMAIN reports : c \in Named(i)
  <2>1. total > 0
    BY <1>1, <1>3 DEF Cti!Percentages
  <2>2. shares = [x \in UNION {Named(i) : i \in DOMAIN reports} |->
                    (Cti!Cardinality(By(x)) * 100) \div total]
    BY <1>1, <2>1 DEF Cti!Percentages
  <2>. HIDE DEF shares
  <2>. QED
    BY <1>3, <2>1, <2>2, SameCardinality
<1>4. ASSUME NEW c \in DOMAIN shares
      PROVE  Cardinality(By(c)) \in 1 .. Len(reports)
  <2>1. DOMAIN reports = 1 .. Len(reports) /\ Len(reports) \in Nat
    BY <1>1
  <2>2. IsFiniteSet(1 .. Len(reports)) /\ Cardinality(1 .. Len(reports)) = Len(reports)
    BY <2>1, FS_Interval
  <2>3. IsFiniteSet(By(c)) /\ Cardinality(By(c)) =< Len(reports)
    BY <2>1, <2>2, FS_Subset
  <2>4. By(c) # {}
    BY <1>3
  <2>5. Cardinality(By(c)) \in Nat /\ Cardinality(By(c)) # 0
    BY <2>3, <2>4, FS_CardinalityType, FS_EmptySet
  <2>. QED
    BY <2>1, <2>3, <2>5
<1>. HIDE DEF shares, By
<1>5. ASSUME NEW n \in Nat, NEW t \in Nat \ {0}, NEW k \in 1 .. n
      PROVE  (t =< 100 => (k * 100) \div t > 0) /\ (t >= n => (k * 100) \div t =< 100)
  <2>. DEFINE q == (k * 100) \div t
  <2>1. q \in Nat /\ k * 100 >= t * q /\ k * 100 < t * q + t
    OBVIOUS
  <2>. QED
    BY <2>1
<1>6. ASSUME NEW c \in DOMAIN shares
      PROVE  (total =< 100 => shares[c] > 0) /\ (total >= Len(reports) => shares[c] =< 100)
  <2>1. total \in Nat \ {0} /\ Len(reports) \in Nat
    BY <1>1, <1>3
  <2>2. shares[c] = (Cardinality(By(c)) * 100) \div total
    BY <1>3
  <2>3. Cardinality(By(c)) \in 1 .. Len(reports)
    BY <1>4
  <2>. HIDE DEF total, reports
  <2>. QED
    BY <2>1, <2>2, <2>3, <1>5
<1>. QED
  BY <1>2, <1>6 DEF Cti!Faithful

\* Fields that are copied.
LEMMA CopiesAreFaithful ==
  ASSUME NEW d, d.kind = "fields", Cti!Readable(d), ~ Cti!Unmappable(d)
  PROVE  Cti!Faithful(d, Cti!Map(d))
<1>1. Cti!Map(d) = Cti!Copy(d)
  BY DEF Cti!Map
<1>2. d.number \in {"none", "text", "1"}
  BY DEF Cti!Readable, Cti!Unmappable
<1>3. Cti!Copy(d).ip # None /\ Cti!Copy(d).number \in {"0", "1"}
  BY <1>2, NullAssumption DEF Cti!Copy
<1>. QED
  BY <1>1, <1>3 DEF Cti!Faithful

\* A finite set of numbers that is not empty has a greatest element.
LEMMA HasGreatest ==
  ASSUME NEW S \in SUBSET Nat, IsFiniteSet(S), S # {}
  PROVE  \E hi \in S : \A t \in S : t =< hi
<1>. DEFINE Bounded(T) == \E hi \in T : \A t \in T : t =< hi
            unbounded == {T \in FiniteSubsetsOf(S) : T # {} /\ ~ Bounded(T)}
<1>. SUFFICES ASSUME S \in unbounded  PROVE FALSE
  BY DEF FiniteSubsetsOf
<1>1. PICK T \in unbounded : \A U \in unbounded : ~ <<U, T>> \in StrictSubsetOrdering(S)
  BY FS_StrictSubsetOrderingWellFounded, WFMin, Zenon
<1>2. T \in SUBSET S /\ IsFiniteSet(T) /\ T # {} /\ ~ Bounded(T)
  BY <1>1 DEF FiniteSubsetsOf
<1>3. PICK x \in T : TRUE
  BY <1>2
<1>. DEFINE rest == T \ {x}
<1>4. rest \in FiniteSubsetsOf(S) /\ <<rest, T>> \in StrictSubsetOrdering(S)
  BY <1>2, <1>3, FS_Subset DEF FiniteSubsetsOf, StrictSubsetOrdering
<1>5. CASE rest = {}
  BY <1>2, <1>3, <1>5
<1>6. CASE rest # {}
  <2>1. PICK hi \in rest : \A t \in rest : t =< hi
    BY <1>1, <1>4, <1>6
  <2>2. x \in Nat /\ hi \in Nat /\ \A t \in T : t \in Nat /\ (t = x \/ t \in rest)
    BY <1>2, <1>3, <2>1
  <2>3. CASE x =< hi
    BY <1>2, <2>1, <2>2, <2>3
  <2>4. CASE hi =< x
    BY <1>2, <1>3, <2>1, <2>2, <2>4
  <2>. QED
    BY <2>2, <2>3, <2>4
<1>. QED
  BY <1>5, <1>6

\* What the first n sequences of a sequence make, one after the other: each element of each
\* of them has one place, in their order.
Laid(seqs, n, flat, block, index) ==
  /\ block \in [DOMAIN flat -> Nat] /\ index \in [DOMAIN flat -> Nat]
  /\ \A k \in DOMAIN flat : /\ block[k] \in 1 .. n /\ index[k] \in DOMAIN seqs[block[k]]
                            /\ flat[k] = seqs[block[k]][index[k]]
  /\ \A k, l \in DOMAIN flat :
       k < l => block[k] < block[l] \/ (block[k] = block[l] /\ index[k] < index[l])
  /\ \A i \in 1 .. n : \A j \in DOMAIN seqs[i] : \E k \in DOMAIN flat : block[k] = i /\ index[k] = j

LEMMA OneMoreLaid ==
  ASSUME NEW S, NEW seqs \in Seq(Seq(S)), NEW n \in Nat, n + 1 \in DOMAIN seqs,
         NEW flat \in Seq(S), NEW block, NEW index, Laid(seqs, n, flat, block, index)
  PROVE  \E b, j : Laid(seqs, n + 1, flat \o seqs[n + 1], b, j)
<1>. DEFINE more == seqs[n + 1]
            all == flat \o more
            b == [k \in DOMAIN all |-> IF k =< Len(flat) THEN block[k] ELSE n + 1]
            j == [k \in DOMAIN all |-> IF k =< Len(flat) THEN index[k] ELSE k - Len(flat)]
<1>1. /\ more \in Seq(S) /\ Len(flat) \in Nat /\ Len(more) \in Nat
      /\ DOMAIN flat = 1 .. Len(flat) /\ DOMAIN more = 1 .. Len(more)
      /\ DOMAIN all = 1 .. (Len(flat) + Len(more))
      /\ \A k \in DOMAIN all : all[k] = IF k =< Len(flat) THEN flat[k] ELSE more[k - Len(flat)]
  OBVIOUS
<1>. HIDE DEF all, more
<1>2. \A k \in DOMAIN all :
        /\ k =< Len(flat) => k \in DOMAIN flat /\ b[k] = block[k] /\ j[k] = index[k]
        /\ ~ (k =< Len(flat)) => k - Len(flat) \in DOMAIN more /\ b[k] = n + 1 /\ j[k] = k - Len(flat)
  BY <1>1
<1>3. /\ DOMAIN b = DOMAIN all /\ DOMAIN j = DOMAIN all
      /\ b = [k \in DOMAIN all |-> b[k]] /\ j = [k \in DOMAIN all |-> j[k]]
  OBVIOUS
<1>. HIDE DEF b, j
<1>4. /\ block \in [DOMAIN flat -> Nat] /\ index \in [DOMAIN flat -> Nat]
      /\ \A k \in DOMAIN flat : /\ block[k] \in 1 .. n /\ index[k] \in DOMAIN seqs[block[k]]
                                /\ flat[k] = seqs[block[k]][index[k]]
      /\ \A k, l \in DOMAIN flat :
           k < l => block[k] < block[l] \/ (block[k] = block[l] /\ index[k] < index[l])
      /\ \A i \in 1 .. n : \A m \in DOMAIN seqs[i] :
           \E k \in DOMAIN flat : block[k] = i /\ index[k] = m
  BY DEF Laid
<1>5. ASSUME NEW k \in DOMAIN all
      PROVE  /\ b[k] \in Nat /\ j[k] \in Nat
             /\ b[k] \in 1 .. (n + 1) /\ j[k] \in DOMAIN seqs[b[k]] /\ all[k] = seqs[b[k]][j[k]]
  <2>1. CASE k =< Len(flat)
    BY <1>1, <1>2, <1>4, <2>1
  <2>2. CASE ~ (k =< Len(flat))
    BY <1>1, <1>2, <2>2 DEF more
  <2>. QED
    BY <2>1, <2>2
<1>6. b \in [DOMAIN all -> Nat] /\ j \in [DOMAIN all -> Nat]
  BY <1>3, <1>5
<1>7. ASSUME NEW k \in DOMAIN all, NEW l \in DOMAIN all, k < l
      PROVE  b[k] < b[l] \/ (b[k] = b[l] /\ j[k] < j[l])
  <2>1. CASE l =< Len(flat)
    BY <1>1, <1>2, <1>4, <1>7, <2>1
  <2>2. CASE k =< Len(flat) /\ ~ (l =< Len(flat))
    BY <1>1, <1>2, <1>4, <1>7, <2>2
  <2>3. CASE ~ (k =< Len(flat)) /\ ~ (l =< Len(flat))
    BY <1>1, <1>2, <1>7, <2>3
  <2>. QED
    BY <1>1, <1>7, <2>1, <2>2, <2>3
<1>8. ASSUME NEW i \in 1 .. (n + 1), NEW m \in DOMAIN seqs[i]
      PROVE  \E k \in DOMAIN all : b[k] = i /\ j[k] = m
  <2>1. CASE i = n + 1
    <3>1. m + Len(flat) \in DOMAIN all /\ ~ (m + Len(flat) =< Len(flat))
          /\ (m + Len(flat)) - Len(flat) = m
      BY <1>1, <2>1 DEF more
    <3>. QED
      BY <1>2, <2>1, <3>1
  <2>2. CASE i # n + 1
    <3>1. PICK k \in DOMAIN flat : block[k] = i /\ index[k] = m
      BY <1>4, <2>2
    <3>2. k \in DOMAIN all /\ k =< Len(flat)
      BY <1>1
    <3>. QED
      BY <1>2, <3>1, <3>2
  <2>. QED
    BY <2>1, <2>2
<1>9. Laid(seqs, n + 1, all, b, j)
  BY <1>5, <1>6, <1>7, <1>8 DEF Laid
<1>. QED
  BY <1>9 DEF all, more

LEMMA FlattenIs ==
  ASSUME NEW S, NEW seqs \in Seq(Seq(S))
  PROVE  /\ Cti!FlattenSeq(seqs) \in Seq(S)
         /\ \E block, index : Laid(seqs, Len(seqs), Cti!FlattenSeq(seqs), block, index)
<1>. DEFINE N == Len(seqs)
            Recurs(m, g) == g = [i \in 1 .. m |-> IF i = 1 THEN seqs[i] ELSE g[i-1] \o seqs[i]]
            flatten == CHOOSE g : Recurs(N, g)
            Flat(n, flat) == flat \in Seq(S) /\ \E block, index : Laid(seqs, n, flat, block, index)
<1>0. N \in Nat /\ DOMAIN seqs = 1 .. N /\ \A i \in 1 .. N : seqs[i] \in Seq(S)
  OBVIOUS
<1>1. Flat(0, <<>>)
  <2>1. <<>> \in Seq(S) /\ DOMAIN <<>> = {} /\ [k \in {} |-> 0] \in [{} -> Nat]
    OBVIOUS
  <2>2. Laid(seqs, 0, <<>>, [k \in {} |-> 0], [k \in {} |-> 0])
    BY <2>1 DEF Laid
  <2>. QED
    BY <2>1, <2>2
<1>2. ASSUME NEW n \in Nat, n + 1 \in 1 .. N, NEW flat, Flat(n, flat)
      PROVE  Flat(n + 1, flat \o seqs[n + 1])
  <2>1. flat \o seqs[n + 1] \in Seq(S)
    BY <1>0, <1>2
  <2>. QED
    BY <1>0, <1>2, <2>1, OneMoreLaid
<1>3. CASE N = 0
  BY <1>1, <1>3 DEF Cti!FlattenSeq
<1>4. CASE N # 0
  <2>1. Cti!FlattenSeq(seqs) = flatten[N]
    BY <1>4 DEF Cti!FlattenSeq
  <2>. DEFINE known == {m \in Nat : \E g : Recurs(m, g)}
  <2>2. N \in known
    <3>1. 0 \in known
      <4>1. Recurs(0, [i \in {} |-> 0])
        OBVIOUS
      <4>. QED
        BY <4>1
    <3>2. ASSUME NEW m \in 1 .. N, m - 1 \in known
          PROVE  m \in known
      <4>1. PICK g : Recurs(m - 1, g)
        BY <3>2
      <4>2. \A i \in 1 .. (m - 1) : g[i] = IF i = 1 THEN seqs[i] ELSE g[i-1] \o seqs[i]
        BY <4>1
      <4>. DEFINE h == [i \in 1 .. m |->
                          IF i = 1 THEN seqs[i]
                          ELSE IF i = m THEN g[m - 1] \o seqs[m] ELSE g[i]]
      <4>3. \A i \in 1 .. m : h[i] = IF i = 1 THEN seqs[i] ELSE h[i-1] \o seqs[i]
        <5>1. \A i \in 1 .. (m - 1) : h[i] = g[i]
          BY <4>2
        <5>2. h[m] = IF m = 1 THEN seqs[m] ELSE g[m - 1] \o seqs[m]
          OBVIOUS
        <5>. HIDE DEF h
        <5>. QED
          BY <4>2, <5>1, <5>2
      <4>4. h = [i \in 1 .. m |-> h[i]]
        OBVIOUS
      <4>. HIDE DEF h
      <4>5. Recurs(m, h)
        BY <4>3, <4>4
      <4>6. m \in Nat
        OBVIOUS
      <4>. HIDE DEF Recurs
      <4>. QED
        BY <4>5, <4>6
    <3>. HIDE DEF known, N
    <3>3. 0 .. N \subseteq known
      BY <1>0, <3>1, <3>2, UpTo
    <3>. QED
      BY <1>0, <3>3
  <2>3. Recurs(N, flatten)
    <3>1. \E g : Recurs(N, g)
      BY <2>2
    <3>. HIDE DEF Recurs
    <3>. QED
      BY <3>1
  <2>4. \A i \in 1 .. N : flatten[i] = IF i = 1 THEN seqs[i] ELSE flatten[i-1] \o seqs[i]
    BY <2>3
  <2>. HIDE DEF flatten, Flat
  <2>. DEFINE good == {n \in Nat : n = 0 \/ Flat(n, flatten[n])}
  <2>5. ASSUME NEW n \in 1 .. N, n - 1 \in good
        PROVE  n \in good
    <3>1. CASE n = 1
      <4>1. <<>> \o seqs[1] = seqs[1]
        BY <1>0, <3>1
      <4>0. 0 + 1 = 1 /\ 0 + 1 \in 1 .. N
        BY <1>0, <3>1
      <4>2. Flat(0 + 1, <<>> \o seqs[0 + 1])
        BY <1>1, <1>2, <4>0
      <4>3. flatten[1] = seqs[1]
        BY <2>4, <3>1
      <4>. QED
        BY <3>1, <4>0, <4>1, <4>2, <4>3
    <3>2. CASE n # 1
      <4>1. n - 1 \in Nat /\ (n - 1) + 1 = n /\ Flat(n - 1, flatten[n - 1])
        BY <2>5, <3>2
      <4>2. Flat(n, flatten[n - 1] \o seqs[n])
        BY <1>2, <4>1
      <4>. QED
        BY <2>4, <3>2, <4>1, <4>2
    <3>. QED
      BY <3>1, <3>2
  <2>6. 0 \in good
    OBVIOUS
  <2>7. N \in good
    <3>. HIDE DEF good, N
    <3>1. 0 .. N \subseteq good
      BY <1>0, <2>5, <2>6, UpTo
    <3>. QED
      BY <1>0, <3>1
  <2>8. Flat(N, flatten[N])
    BY <1>4, <2>7
  <2>. QED
    BY <2>1, <2>8 DEF Flat
<1>. QED
  BY <1>3, <1>4

\* The values among the first n mentions, each once, in the order they are first mentioned in.
Ordered(mentions, n, seen) ==
  /\ seen \in Seq(Nat)
  /\ \A v : (\E i \in DOMAIN seen : seen[i] = v) <=> (\E k \in 1 .. n : mentions[k] = v)
  /\ \A i, j \in DOMAIN seen : i < j =>
       \E l \in 1 .. n : mentions[l] = seen[i] /\ \A k \in 1 .. l : mentions[k] # seen[j]

LEMMA OneMoreValue ==
  ASSUME NEW mentions \in Seq(Nat), NEW n \in Nat, n + 1 \in DOMAIN mentions,
         NEW seen, Ordered(mentions, n, seen), \A i \in DOMAIN seen : seen[i] # mentions[n + 1]
  PROVE  Ordered(mentions, n + 1, Append(seen, mentions[n + 1]))
<1>. DEFINE v == mentions[n + 1]
            more == Append(seen, v)
<1>1. /\ seen \in Seq(Nat)
      /\ \A w : (\E i \in DOMAIN seen : seen[i] = w) <=> (\E k \in 1 .. n : mentions[k] = w)
      /\ \A i, j \in DOMAIN seen : i < j =>
           \E l \in 1 .. n : mentions[l] = seen[i] /\ \A k \in 1 .. l : mentions[k] # seen[j]
  BY DEF Ordered
<1>2. /\ v \in Nat /\ Len(seen) \in Nat /\ DOMAIN seen = 1 .. Len(seen)
      /\ more \in Seq(Nat) /\ DOMAIN more = 1 .. (Len(seen) + 1)
      /\ more[Len(seen) + 1] = v /\ \A i \in DOMAIN seen : more[i] = seen[i]
  BY <1>1
<1>. HIDE DEF more
<1>3. \A i \in DOMAIN more : i \in DOMAIN seen \/ i = Len(seen) + 1
  BY <1>2
<1>4. DOMAIN seen \subseteq DOMAIN more /\ Len(seen) + 1 \in DOMAIN more
  BY <1>2
<1>5. /\ 1 .. n \subseteq 1 .. (n + 1) /\ n + 1 \in 1 .. (n + 1)
      /\ \A k \in 1 .. (n + 1) : k \in 1 .. n \/ k = n + 1
      /\ \A l \in 1 .. n : \A k \in 1 .. l : k \in 1 .. n
  OBVIOUS
<1>6. ASSUME NEW w
      PROVE  (\E i \in DOMAIN more : more[i] = w) <=> (\E k \in 1 .. (n + 1) : mentions[k] = w)
  <2>1. (\E i \in DOMAIN more : more[i] = w) <=> (\E i \in DOMAIN seen : seen[i] = w) \/ w = v
    BY <1>2, <1>3, <1>4
  <2>2. (\E k \in 1 .. (n + 1) : mentions[k] = w) <=> (\E k \in 1 .. n : mentions[k] = w) \/ w = v
    BY <1>5
  <2>. QED
    BY <1>1, <2>1, <2>2
<1>7. ASSUME NEW i \in DOMAIN more, NEW j \in DOMAIN more, i < j
      PROVE  \E l \in 1 .. (n + 1) : mentions[l] = more[i] /\ \A k \in 1 .. l : mentions[k] # more[j]
  <2>1. i \in DOMAIN seen
    BY <1>2, <1>7
  <2>2. CASE j \in DOMAIN seen
    <3>1. PICK l \in 1 .. n : mentions[l] = seen[i] /\ \A k \in 1 .. l : mentions[k] # seen[j]
      BY <1>1, <1>7, <2>1, <2>2
    <3>. QED
      BY <1>2, <1>5, <2>1, <2>2, <3>1
  <2>3. CASE j = Len(seen) + 1
    <3>1. PICK l \in 1 .. n : mentions[l] = seen[i]
      BY <1>1, <2>1
    <3>2. ASSUME NEW k \in 1 .. l  PROVE mentions[k] # v
      <4>1. PICK q \in DOMAIN seen : seen[q] = mentions[k]
        BY <1>1, <1>5
      <4>. QED
        BY <4>1
    <3>. QED
      BY <1>2, <1>5, <2>1, <2>3, <3>1, <3>2
  <2>. QED
    BY <1>3, <2>2, <2>3
<1>8. Ordered(mentions, n + 1, more)
  BY <1>2, <1>6, <1>7 DEF Ordered
<1>. QED
  BY <1>8 DEF more

LEMMA SameValue ==
  ASSUME NEW mentions \in Seq(Nat), NEW n \in Nat, n + 1 \in DOMAIN mentions,
         NEW seen, Ordered(mentions, n, seen), \E i \in DOMAIN seen : seen[i] = mentions[n + 1]
  PROVE  Ordered(mentions, n + 1, seen)
<1>1. /\ seen \in Seq(Nat)
      /\ \A w : (\E i \in DOMAIN seen : seen[i] = w) <=> (\E k \in 1 .. n : mentions[k] = w)
      /\ \A i, j \in DOMAIN seen : i < j =>
           \E l \in 1 .. n : mentions[l] = seen[i] /\ \A k \in 1 .. l : mentions[k] # seen[j]
  BY DEF Ordered
<1>2. /\ 1 .. n \subseteq 1 .. (n + 1) /\ n + 1 \in 1 .. (n + 1)
      /\ \A k \in 1 .. (n + 1) : k \in 1 .. n \/ k = n + 1
  OBVIOUS
<1>3. \A w : (\E k \in 1 .. (n + 1) : mentions[k] = w) <=> (\E k \in 1 .. n : mentions[k] = w)
  BY <1>1, <1>2
<1>4. \A i, j \in DOMAIN seen : i < j =>
        \E l \in 1 .. (n + 1) : mentions[l] = seen[i] /\ \A k \in 1 .. l : mentions[k] # seen[j]
  BY <1>1, <1>2
<1>. QED
  BY <1>1, <1>3, <1>4 DEF Ordered

LEMMA AllInOrder ==
  ASSUME NEW mentions \in Seq(Nat), NEW seen, Ordered(mentions, Len(mentions), seen)
  PROVE  Cti!InOrder(seen, mentions)
<1>1. DOMAIN mentions = 1 .. Len(mentions)
  OBVIOUS
<1>2. \A s, v : v \in Cti!ToSet(s) <=> \E i \in DOMAIN s : s[i] = v
  BY DEF Cti!ToSet
<1>3. \A v : v \in Cti!ToSet(seen) <=> v \in Cti!ToSet(mentions)
  <2>1. \A v : (\E i \in DOMAIN seen : seen[i] = v) <=> (\E k \in 1 .. Len(mentions) : mentions[k] = v)
    BY Zenon DEF Ordered
  <2>2. \A v : (\E i \in DOMAIN seen : seen[i] = v) <=> (\E k \in DOMAIN mentions : mentions[k] = v)
    BY <1>1, <2>1, Zenon
  <2>. QED
    BY <1>2, <2>2, Zenon
<1>4. Cti!ToSet(seen) = Cti!ToSet(mentions)
  BY <1>3
<1>5. \A i, j \in DOMAIN seen : i < j =>
        \E n \in DOMAIN mentions :
          mentions[n] = seen[i] /\ \A k \in 1 .. n : mentions[k] # seen[j]
  <2>1. \A i, j \in DOMAIN seen : i < j =>
          \E n \in 1 .. Len(mentions) :
            mentions[n] = seen[i] /\ \A k \in 1 .. n : mentions[k] # seen[j]
    BY Zenon DEF Ordered
  <2>. QED
    BY <1>1, <2>1, Zenon
<1>. QED
  BY <1>4, <1>5, Zenon DEF Cti!InOrder

LEMMA DeduplicateIs ==
  ASSUME NEW mentions \in Seq(Nat)
  PROVE  Cti!InOrder(Cti!Deduplicate(mentions), mentions)
<1>. DEFINE N == Len(mentions)
            With(seen, v) == IF v \in Cti!ToSet(seen) THEN seen ELSE Append(seen, v)
            Recurs(m, g) == g = [n \in 0 .. m |-> IF n = 0 THEN <<>> ELSE With(g[n - 1], mentions[n])]
            first == CHOOSE g : Recurs(N, g)
<1>1. N \in Nat /\ DOMAIN mentions = 1 .. N
  OBVIOUS
<1>2. Cti!Deduplicate(mentions) = first[N]
  BY Zenon DEF Cti!Deduplicate
<1>3. Ordered(mentions, 0, <<>>)
  BY DEF Ordered
<1>4. ASSUME NEW n \in Nat, n + 1 \in 1 .. N, NEW seen, Ordered(mentions, n, seen)
      PROVE  Ordered(mentions, n + 1, With(seen, mentions[n + 1]))
  <2>1. mentions[n + 1] \in Cti!ToSet(seen) <=> \E i \in DOMAIN seen : seen[i] = mentions[n + 1]
    BY DEF Cti!ToSet
  <2>. QED
    BY <1>1, <1>4, <2>1, OneMoreValue, SameValue
<1>. HIDE DEF With
<1>5. Recurs(N, first)
  <2>. DEFINE known == {m \in Nat : \E g : Recurs(m, g)}
  <2>1. 0 \in known
    <3>1. Recurs(0, [n \in {0} |-> <<>>])
      OBVIOUS
    <3>. HIDE DEF Recurs
    <3>. QED
      BY <3>1
  <2>2. ASSUME NEW m \in 1 .. N, m - 1 \in known
        PROVE  m \in known
    <3>1. PICK g : Recurs(m - 1, g)
      BY <2>2
    <3>. DEFINE h == [n \in 0 .. m |-> IF n = m THEN With(g[m - 1], mentions[m]) ELSE g[n]]
    <3>2. \A n \in 0 .. (m - 1) : g[n] = IF n = 0 THEN <<>> ELSE With(g[n - 1], mentions[n])
      BY <3>1
    <3>3. (\A n \in 0 .. (m - 1) : h[n] = g[n]) /\ h[m] = With(g[m - 1], mentions[m])
      OBVIOUS
    <3>4. h = [n \in 0 .. m |-> h[n]]
      OBVIOUS
    <3>. HIDE DEF h
    <3>5. \A n \in 0 .. m : h[n] = IF n = 0 THEN <<>> ELSE With(h[n - 1], mentions[n])
      BY <3>2, <3>3
    <3>6. h = [n \in 0 .. m |-> IF n = 0 THEN <<>> ELSE With(h[n - 1], mentions[n])]
      BY <3>4, <3>5, Zenon
    <3>7. Recurs(m, h) /\ m \in Nat
      BY <3>6
    <3>. HIDE DEF Recurs
    <3>. QED
      BY <3>7
  <2>. HIDE DEF Recurs, known, N
  <2>3. 0 .. N \subseteq known
    BY <1>1, <2>1, <2>2, UpTo
  <2>4. \E g : Recurs(N, g)
    BY <1>1, <2>3 DEF known
  <2>. QED
    BY <2>4
<1>6. first[0] = <<>> /\ \A n \in 1 .. N : first[n] = With(first[n - 1], mentions[n])
  <2>. HIDE DEF first, N
  <2>. QED
    BY <1>1, <1>5
<1>. HIDE DEF first, N
<1>7. Ordered(mentions, N, first[N])
  <2>. DEFINE good == {n \in Nat : Ordered(mentions, n, first[n])}
  <2>1. 0 \in good
    BY <1>3, <1>6
  <2>2. ASSUME NEW n \in 1 .. N, n - 1 \in good
        PROVE  n \in good
    <3>1. n - 1 \in Nat /\ (n - 1) + 1 = n /\ Ordered(mentions, n - 1, first[n - 1])
      BY <2>2
    <3>. QED
      BY <1>4, <1>6, <3>1
  <2>. HIDE DEF good
  <2>3. 0 .. N \subseteq good
    BY <1>1, <2>1, <2>2, UpTo
  <2>. QED
    BY <1>1, <2>3 DEF good
<1>. QED
  BY <1>2, <1>7, AllInOrder DEF N

\* A host of Shodan.
LEMMA HostsAreFaithful ==
  ASSUME NEW d, d.kind = "shodan", Cti!Readable(d)
  PROVE  Cti!Faithful(d, Cti!Map(d))
<1>. DEFINE items == d.items
            vulns == Cti!FlattenSeq([i \in DOMAIN items |-> items[i].vulns])
            dates == ({d.update} \cup {items[i].at : i \in DOMAIN items}) \ {None}
            report == Cti!Host(d)
<1>1. /\ d.update \in {None} \cup Nat /\ d.vulns \in Seq(Nat)
      /\ items \in Seq([port : Nat, vulns : Seq(Nat), at : {None} \cup Nat])
  BY DEF Cti!Readable
<1>2. /\ DOMAIN items = 1 .. Len(items) /\ Len(items) \in Nat
      /\ \A i \in DOMAIN items : items[i].vulns \in Seq(Nat) /\ items[i].at \in {None} \cup Nat
  <2>. DEFINE Item == [port : Nat, vulns : Seq(Nat), at : {None} \cup Nat]
  <2>1. \A x \in Item : x.vulns \in Seq(Nat) /\ x.at \in {None} \cup Nat
    OBVIOUS
  <2>. HIDE DEF Item
  <2>2. items \in Seq(Item)
    BY <1>1 DEF Item
  <2>. HIDE DEF items
  <2>3. DOMAIN items = 1 .. Len(items) /\ Len(items) \in Nat /\ \A i \in DOMAIN items : items[i] \in Item
    BY <2>2
  <2>. QED
    BY <2>1, <2>3
<1>3. Cti!Map(d) = report
  BY DEF Cti!Map
<1>4. /\ report.vulns = Cti!Deduplicate(d.vulns \o vulns)
      /\ dates # {} => report.last = CHOOSE t \in dates : \A u \in dates : u <= t
  BY DEF Cti!Host
<1>. HIDE DEF report, vulns
<1>5. Cti!InOrder(report.vulns, d.vulns \o vulns)
  <2>1. [i \in DOMAIN items |-> items[i].vulns] \in Seq(Seq(Nat))
    BY <1>2
  <2>2. vulns \in Seq(Nat)
    BY <2>1, FlattenIs DEF vulns
  <2>3. d.vulns \o vulns \in Seq(Nat)
    BY <1>1, <2>2
  <2>. QED
    BY <1>4, <2>3, DeduplicateIs
<1>6. \A t \in dates : t =< report.last
  <2>. SUFFICES ASSUME dates # {}  PROVE \A t \in dates : t =< report.last
    OBVIOUS
  <2>1. dates \in SUBSET Nat
    BY <1>1, <1>2
  <2>2. IsFiniteSet(dates)
    <3>. DEFINE ats == {items[i].at : i \in DOMAIN items}
    <3>1. IsFiniteSet(DOMAIN items)
      BY <1>2, FS_Interval
    <3>2. IsFiniteSet(ats)
      <4>. DEFINE f == [i \in DOMAIN items |-> items[i].at]
      <4>1. f \in Surjection(DOMAIN items, ats)
        BY DEF Surjection
      <4>. QED
        BY <3>1, <4>1, FS_Surjection
    <3>3. IsFiniteSet(ats \cup {d.update})
      BY <3>2, FS_AddElement
    <3>. QED
      BY <3>3, FS_Subset
  <2>. HIDE DEF dates
  <2>3. PICK hi \in dates : \A t \in dates : t =< hi
    BY <2>1, <2>2, HasGreatest
  <2>4. \A u \in dates : u <= report.last
    BY <1>4, <2>3
  <2>. QED
    BY <2>4
<1>. QED
  BY <1>3, <1>5, <1>6 DEF Cti!Faithful, vulns, dates

-------------------------------------------------------------------------------
(* The order of the entities of RDAP                                       *)

LEMMA EarlierThanChildren ==
  ASSUME NEW a \in Seq(Nat), NEW c \in Nat, NEW e \in Nat
  PROVE  /\ Cti!Earlier(a, Append(a, c))
         /\ c < e => Cti!Earlier(Append(a, c), Append(a, e))
<1>1. /\ Len(a) \in Nat /\ DOMAIN a = 1 .. Len(a)
      /\ \A x \in Nat : /\ Len(Append(a, x)) = Len(a) + 1 /\ DOMAIN Append(a, x) = 1 .. (Len(a) + 1)
                        /\ Append(a, x)[Len(a) + 1] = x /\ \A j \in DOMAIN a : Append(a, x)[j] = a[j]
  OBVIOUS
<1>2. Cti!Earlier(a, Append(a, c))
  <2>1. Len(a) < Len(Append(a, c)) /\ \A j \in DOMAIN a : a[j] = Append(a, c)[j]
    BY <1>1
  <2>. QED
    BY <2>1 DEF Cti!Earlier
<1>3. ASSUME c < e  PROVE Cti!Earlier(Append(a, c), Append(a, e))
  <2>. DEFINE k == Len(a) + 1
  <2>1. k \in DOMAIN Append(a, c) \cap DOMAIN Append(a, e) /\ Append(a, c)[k] < Append(a, e)[k]
    BY <1>1, <1>3
  <2>2. \A j \in 1 .. (k - 1) : Append(a, c)[j] = Append(a, e)[j]
    BY <1>1
  <2>. HIDE DEF k
  <2>. QED
    BY <2>1, <2>2 DEF Cti!Earlier
<1>. QED
  BY <1>2, <1>3

\* What is earlier than an entity is earlier than what is in it; and if it nests as deep, so is
\* what is in it.
LEMMA EarlierExtends ==
  ASSUME NEW a \in Seq(Nat), NEW b \in Seq(Nat), Cti!Earlier(a, b), NEW c \in Nat, NEW e \in Nat
  PROVE  /\ Cti!Earlier(a, Append(b, e))
         /\ Len(b) =< Len(a) => Cti!Earlier(Append(a, c), b) /\ Cti!Earlier(Append(a, c), Append(b, e))
<1>1. \A s \in Seq(Nat), x \in Nat :
        /\ Len(s) \in Nat /\ DOMAIN s = 1 .. Len(s)
        /\ Len(Append(s, x)) = Len(s) + 1 /\ DOMAIN s \subseteq DOMAIN Append(s, x)
        /\ \A j \in DOMAIN s : Append(s, x)[j] = s[j]
  OBVIOUS
<1>2. CASE Len(a) < Len(b) /\ \A j \in DOMAIN a : a[j] = b[j]
  <2>1. DOMAIN a \subseteq DOMAIN b /\ ~ (Len(b) =< Len(a)) /\ Len(a) < Len(Append(b, e))
    BY <1>1, <1>2
  <2>2. \A j \in DOMAIN a : a[j] = Append(b, e)[j]
    BY <1>1, <1>2, <2>1
  <2>. QED
    BY <2>1, <2>2 DEF Cti!Earlier
<1>3. ASSUME NEW k \in DOMAIN a \cap DOMAIN b, a[k] < b[k], \A j \in 1 .. (k - 1) : a[j] = b[j]
      PROVE  /\ Cti!Earlier(a, Append(b, e))
             /\ Cti!Earlier(Append(a, c), b) /\ Cti!Earlier(Append(a, c), Append(b, e))
  <2>1. \A j \in 1 .. (k - 1) : j \in DOMAIN a /\ j \in DOMAIN b
    BY <1>1
  <2>2. /\ k \in DOMAIN Append(a, c) /\ k \in DOMAIN Append(b, e)
        /\ Append(a, c)[k] = a[k] /\ Append(b, e)[k] = b[k]
        /\ \A j \in 1 .. (k - 1) : Append(a, c)[j] = a[j] /\ Append(b, e)[j] = b[j]
    BY <1>1, <2>1
  <2>. QED
    BY <1>3, <2>2 DEF Cti!Earlier
<1>. QED
  BY <1>2, <1>3 DEF Cti!Earlier

\* A sequence of places that lists a set of them, in the order of the document.
Listing(seq, places) ==
  /\ seq \in Seq(places)
  /\ \A p \in places : \E i \in DOMAIN seq : seq[i] = p
  /\ \A i, j \in DOMAIN seq : i < j => Cti!Earlier(seq[i].at, seq[j].at)

LEMMA HasLeast ==
  ASSUME NEW S \in SUBSET Nat, S # {}
  PROVE  Cti!Min(S) \in S /\ \A x \in S : Cti!Min(S) =< x
<1>1. PICK n \in S : \A m \in S : ~ <<m, n>> \in OpToRel(<, Nat)
  BY NatLessThanWellFounded, WFMin, Zenon
<1>2. ASSUME NEW m \in S, ~ (n =< m)  PROVE FALSE
  <2>1. m \in Nat /\ n \in Nat /\ m < n
    BY <1>2
  <2>2. <<m, n>> \in OpToRel(<, Nat)
    BY <2>1 DEF OpToRel
  <2>. QED
    BY <1>1, <2>2
<1>3. \E x \in S : \A y \in S : x =< y
  BY <1>2
<1>4. Cti!Min(S) = CHOOSE x \in S : \A y \in S : x =< y
  BY DEF Cti!Min
<1>. QED
  BY <1>3, <1>4

LEMMA FirstIsFirst ==
  ASSUME NEW seq, NEW places, Listing(seq, places), NEW role
  PROVE  Cti!FirstIn(places, role, Cti!FirstOf(seq, role))
<1>. DEFINE having == {p \in places : role \in p.entity.roles}
            indices == {i \in DOMAIN seq : role \in seq[i].entity.roles}
            at == Cti!FirstOf(seq, role)
<1>1. /\ DOMAIN seq \subseteq Nat /\ \A i \in DOMAIN seq : seq[i] \in places
      /\ \A p \in places : \E i \in DOMAIN seq : seq[i] = p
      /\ \A i, j \in DOMAIN seq : i < j => Cti!Earlier(seq[i].at, seq[j].at)
  <2>1. seq \in Seq(places)
    BY DEF Listing
  <2>2. DOMAIN seq \subseteq Nat /\ \A i \in DOMAIN seq : seq[i] \in places
    BY <2>1
  <2>. QED
    BY <2>2 DEF Listing
<1>2. CASE indices = {}
  <2>1. having = {}
    BY <1>1, <1>2
  <2>2. at = None
    BY <1>2 DEF Cti!FirstOf
  <2>. QED
    BY <2>1, <2>2 DEF Cti!FirstIn
<1>3. CASE indices # {}
  <2>. DEFINE i == Cti!Min(indices)
  <2>1. i \in indices /\ \A j \in indices : i =< j
    BY <1>1, <1>3, HasLeast
  <2>2. at = seq[i].at
    BY <1>3 DEF Cti!FirstOf
  <2>. HIDE DEF i, at
  <2>3. seq[i] \in having
    BY <1>1, <2>1
  <2>4. ASSUME NEW q \in having \ {seq[i]}  PROVE Cti!Earlier(at, q.at)
    <3>1. PICK j \in DOMAIN seq : seq[j] = q
      BY <1>1
    <3>2. j \in indices /\ j # i
      BY <3>1
    <3>3. i < j
      BY <1>1, <2>1, <3>2
    <3>. QED
      BY <1>1, <2>1, <2>2, <3>1, <3>3
  <2>. QED
    BY <2>2, <2>3, <2>4 DEF Cti!FirstIn, at
<1>. QED
  BY <1>2, <1>3

\* What is in a set of entities, beside them.
Beside(places) == places \cup UNION {Cti!Inside(p.entity.entities, p.at) : p \in places}

\* The entities that nest n deep in the lists they are in, or less, in the order of the document.
Leveled(n, placed, places) ==
  /\ Listing(placed, places)
  /\ \A p \in places : /\ p.at \in Seq(Nat) /\ Len(p.at) \in 1 .. (n + 1)
                       /\ Cti!AList(p.entity.entities)
                       /\ Len(p.at) =< n => Cti!Inside(p.entity.entities, p.at) \subseteq places

LEMMA ListIsPlaced ==
  ASSUME NEW entities, Cti!AList(entities), NEW at \in Seq(Nat)
  PROVE  LET list == Cti!Placed(entities, at) IN
         /\ list \in Seq(Cti!Inside(entities, at))
         /\ DOMAIN list = DOMAIN entities /\ DOMAIN entities = 1 .. Len(entities) /\ Len(entities) \in Nat
         /\ \A c \in DOMAIN list :
              /\ list[c] \in Cti!Inside(entities, at)
              /\ list[c].at = Append(at, c) /\ Append(at, c) \in Seq(Nat)
              /\ Len(Append(at, c)) = Len(at) + 1
         /\ \A p \in Cti!Inside(entities, at) : \E c \in DOMAIN list : list[c] = p
<1>. DEFINE list == Cti!Placed(entities, at)
            Place(c) == [at |-> Append(at, c), entity |-> entities[c]]
<1>1. DOMAIN entities = 1 .. Len(entities) /\ Len(entities) \in Nat
  <2>. DEFINE members == {entities[i] : i \in DOMAIN entities}
  <2>1. entities \in Seq(members)
    BY DEF Cti!AList
  <2>. HIDE DEF members
  <2>. QED
    BY <2>1
<1>2. list = [c \in DOMAIN entities |-> Place(c)]
  BY DEF Cti!Placed
<1>3. \A p : p \in Cti!Inside(entities, at) <=> \E c \in DOMAIN entities : p = Place(c)
  BY DEF Cti!Inside
<1>4. \A c \in DOMAIN entities : Place(c).at = Append(at, c) /\ Append(at, c) \in Seq(Nat)
                                 /\ Len(Append(at, c)) = Len(at) + 1
  BY <1>1
<1>. HIDE DEF list, Place
<1>5. list \in Seq(Cti!Inside(entities, at))
  BY <1>1, <1>2, <1>3
<1>. QED
  BY <1>1, <1>2, <1>3, <1>4, <1>5 DEF list

LEMMA OneMoreLevel ==
  ASSUME NEW n \in Nat, NEW placed, NEW places, Leveled(n, placed, places),
         \A p \in Beside(places) : Cti!AList(p.entity.entities)
  PROVE  Leveled(n + 1, Cti!Opened(n + 1, placed), Beside(places))
<1>. DEFINE more == Beside(places)
            Of(p) == Cti!Placed(p.entity.entities, p.at)
            Open(p) == <<p>> \o (IF Len(p.at) = n + 1 THEN Of(p) ELSE <<>>)
            seqs == [i \in DOMAIN placed |-> Open(placed[i])]
            flat == Cti!Opened(n + 1, placed)
<1>1. /\ DOMAIN placed = 1 .. Len(placed) /\ Len(placed) \in Nat
      /\ \A i \in DOMAIN placed : placed[i] \in places
      /\ \A p \in places : \E i \in DOMAIN placed : placed[i] = p
      /\ \A i, j \in DOMAIN placed : i < j => Cti!Earlier(placed[i].at, placed[j].at)
  <2>1. placed \in Seq(places)
    BY DEF Leveled, Listing
  <2>2. /\ DOMAIN placed = 1 .. Len(placed) /\ Len(placed) \in Nat
        /\ \A i \in DOMAIN placed : placed[i] \in places
    BY <2>1
  <2>. QED
    BY <2>2 DEF Leveled, Listing
<1>2. \A p \in places : /\ p.at \in Seq(Nat) /\ Len(p.at) \in 1 .. (n + 1)
                        /\ Cti!AList(p.entity.entities)
                        /\ Len(p.at) =< n => Cti!Inside(p.entity.entities, p.at) \subseteq places
  BY DEF Leveled
<1>3. ASSUME NEW p \in places
      PROVE  /\ Open(p) \in Seq(more) /\ 1 \in DOMAIN Open(p) /\ Open(p)[1] = p
             /\ \A j \in DOMAIN Open(p) :
                  \/ j = 1
                  \/ /\ Len(p.at) = n + 1 /\ j - 1 \in Nat /\ j > 1
                     /\ Open(p)[j].at = Append(p.at, j - 1)
             /\ Len(p.at) = n + 1 =>
                  \A q \in Cti!Inside(p.entity.entities, p.at) : \E j \in DOMAIN Open(p) : Open(p)[j] = q
  <2>1. /\ p \in more /\ Cti!Inside(p.entity.entities, p.at) \subseteq more
    BY DEF Beside
  <2>2. CASE Len(p.at) = n + 1
    <3>. DEFINE list == Of(p)
    <3>1. Open(p) = <<p>> \o list
      BY <2>2
    <3>2. /\ list \in Seq(Cti!Inside(p.entity.entities, p.at))
          /\ DOMAIN list = 1 .. Len(list) /\ Len(list) \in Nat
          /\ \A c \in DOMAIN list : list[c].at = Append(p.at, c)
          /\ \A q \in Cti!Inside(p.entity.entities, p.at) : \E c \in DOMAIN list : list[c] = q
      BY <1>2, ListIsPlaced
    <3>. HIDE DEF list, Of, more
    <3>3. list \in Seq(more)
      BY <2>1, <3>2
    <3>4. /\ <<p>> \o list \in Seq(more)
          /\ DOMAIN (<<p>> \o list) = 1 .. (Len(list) + 1)
          /\ (<<p>> \o list)[1] = p
          /\ \A j \in 2 .. (Len(list) + 1) : (<<p>> \o list)[j] = list[j - 1]
      BY <2>1, <3>2, <3>3
    <3>. DEFINE open == Open(p)
    <3>. HIDE DEF open, Open
    <3>5. /\ open \in Seq(more) /\ DOMAIN open = 1 .. (Len(list) + 1) /\ open[1] = p
          /\ \A j \in 2 .. (Len(list) + 1) : open[j] = list[j - 1]
      BY <3>1, <3>4 DEF open
    <3>6. \A j \in DOMAIN open : \/ j = 1
                                 \/ j - 1 \in Nat /\ j > 1 /\ open[j].at = Append(p.at, j - 1)
      BY <3>2, <3>5
    <3>7. ASSUME NEW q \in Cti!Inside(p.entity.entities, p.at)
          PROVE  \E j \in DOMAIN open : open[j] = q
      <4>1. PICK c \in DOMAIN list : list[c] = q
        BY <3>2
      <4>2. c + 1 \in DOMAIN open /\ c + 1 \in 2 .. (Len(list) + 1) /\ (c + 1) - 1 = c
        BY <3>2, <3>5
      <4>. QED
        BY <3>5, <4>1, <4>2
    <3>8. 1 \in DOMAIN open
      BY <3>2, <3>5
    <3>. QED
      BY <2>2, <3>5, <3>6, <3>7, <3>8 DEF open
  <2>3. CASE Len(p.at) # n + 1
    <3>1. Open(p) = <<p>> \o <<>>
      BY <2>3
    <3>2. <<p>> \o <<>> = <<p>> /\ <<p>> \in Seq(more) /\ DOMAIN <<p>> = {1} /\ <<p>>[1] = p
      BY <2>1
    <3>. HIDE DEF Open, more
    <3>. QED
      BY <2>3, <3>1, <3>2
  <2>. QED
    BY <2>2, <2>3
<1>. HIDE DEF Open, more
<1>4. DOMAIN seqs = DOMAIN placed /\ \A i \in DOMAIN placed : seqs[i] = Open(placed[i])
  OBVIOUS
<1>5. seqs \in Seq(Seq(more)) /\ Len(seqs) = Len(placed)
  BY <1>1, <1>3, <1>4
<1>6. flat = Cti!FlattenSeq(seqs)
  BY DEF Cti!Opened, Open
<1>. HIDE DEF seqs, flat
<1>7. flat \in Seq(more)
  BY <1>5, <1>6, FlattenIs
<1>8. PICK block, index : Laid(seqs, Len(seqs), flat, block, index)
  BY <1>5, <1>6, FlattenIs
<1>9. /\ DOMAIN flat \subseteq Nat
      /\ \A k \in DOMAIN flat : /\ block[k] \in DOMAIN placed /\ index[k] \in DOMAIN Open(placed[block[k]])
                                /\ index[k] \in Nat
                                /\ flat[k] = Open(placed[block[k]])[index[k]]
      /\ \A k, l \in DOMAIN flat :
           k < l => block[k] < block[l] \/ (block[k] = block[l] /\ index[k] < index[l])
      /\ \A i \in DOMAIN placed : \A j \in DOMAIN Open(placed[i]) :
           \E k \in DOMAIN flat : block[k] = i /\ index[k] = j
  <2>1. DOMAIN flat \subseteq Nat
    BY <1>7
  <2>2. /\ index \in [DOMAIN flat -> Nat]
        /\ \A k \in DOMAIN flat : /\ block[k] \in 1 .. Len(seqs) /\ index[k] \in DOMAIN seqs[block[k]]
                                  /\ flat[k] = seqs[block[k]][index[k]]
        /\ \A k, l \in DOMAIN flat :
             k < l => block[k] < block[l] \/ (block[k] = block[l] /\ index[k] < index[l])
        /\ \A i \in 1 .. Len(seqs) : \A j \in DOMAIN seqs[i] :
             \E k \in DOMAIN flat : block[k] = i /\ index[k] = j
    BY <1>8 DEF Laid
  <2>3. DOMAIN placed = 1 .. Len(seqs)
    BY <1>1, <1>5
  <2>. QED
    BY <1>4, <2>1, <2>2, <2>3
<1>10. ASSUME NEW p \in more  PROVE \E k \in DOMAIN flat : flat[k] = p
  <2>1. CASE p \in places
    <3>1. PICK i \in DOMAIN placed : placed[i] = p
      BY <1>1, <2>1
    <3>2. PICK k \in DOMAIN flat : block[k] = i /\ index[k] = 1
      BY <1>3, <1>9, <2>1, <3>1
    <3>. QED
      BY <1>3, <1>9, <2>1, <3>1, <3>2
  <2>2. CASE p \notin places
    <3>1. PICK q \in places : p \in Cti!Inside(q.entity.entities, q.at)
      BY <2>2 DEF more, Beside
    <3>2. Len(q.at) = n + 1
      BY <1>2, <2>2, <3>1
    <3>3. PICK i \in DOMAIN placed : placed[i] = q
      BY <1>1, <3>1
    <3>4. PICK j \in DOMAIN Open(q) : Open(q)[j] = p
      BY <1>3, <3>1, <3>2
    <3>5. PICK k \in DOMAIN flat : block[k] = i /\ index[k] = j
      BY <1>9, <3>3, <3>4
    <3>. QED
      BY <1>9, <3>3, <3>4, <3>5
  <2>. QED
    BY <2>1, <2>2
<1>11. ASSUME NEW k \in DOMAIN flat, NEW l \in DOMAIN flat, k < l
       PROVE  Cti!Earlier(flat[k].at, flat[l].at)
  <2>. DEFINE p == placed[block[k]]
              q == placed[block[l]]
              a == p.at
              b == q.at
              j == index[k]
              m == index[l]
  <2>1. /\ block[k] \in DOMAIN placed /\ block[l] \in DOMAIN placed
        /\ j \in DOMAIN Open(p) /\ m \in DOMAIN Open(q) /\ j \in Nat /\ m \in Nat
        /\ flat[k] = Open(p)[j] /\ flat[l] = Open(q)[m]
        /\ block[k] < block[l] \/ (block[k] = block[l] /\ j < m)
    BY <1>9, <1>11
  <2>2. /\ p \in places /\ q \in places /\ a \in Seq(Nat) /\ b \in Seq(Nat)
        /\ Len(a) \in 1 .. (n + 1) /\ Len(b) \in 1 .. (n + 1)
    BY <1>1, <1>2, <2>1
  <2>0. \A r \in places : \A o \in DOMAIN Open(r) :
          \/ o = 1 /\ Open(r)[o].at = r.at
          \/ Len(r.at) = n + 1 /\ o - 1 \in Nat /\ o > 1 /\ Open(r)[o].at = Append(r.at, o - 1)
    <3>. TAKE r \in places
    <3>1. Open(r)[1] = r
      BY <1>3
    <3>2. \A o \in DOMAIN Open(r) :
            \/ o = 1
            \/ Len(r.at) = n + 1 /\ o - 1 \in Nat /\ o > 1 /\ Open(r)[o].at = Append(r.at, o - 1)
      BY <1>3
    <3>. QED
      BY <3>1, <3>2
  <2>3. \/ j = 1 /\ flat[k].at = a
        \/ Len(a) = n + 1 /\ j - 1 \in Nat /\ j > 1 /\ flat[k].at = Append(a, j - 1)
    BY <2>0, <2>1, <2>2
  <2>4. \/ m = 1 /\ flat[l].at = b
        \/ Len(b) = n + 1 /\ m - 1 \in Nat /\ m > 1 /\ flat[l].at = Append(b, m - 1)
    BY <2>0, <2>1, <2>2
  <2>5. block[k] = block[l] => a = b
    OBVIOUS
  <2>6. block[k] < block[l] => Cti!Earlier(a, b)
    BY <1>1, <2>1
  <2>. HIDE DEF p, q, a, b, j, m
  <2>7. CASE block[k] < block[l]
    <3>1. Cti!Earlier(a, b) /\ (Len(a) = n + 1 => Len(b) =< Len(a))
      BY <2>2, <2>6, <2>7
    <3>2. \A e \in Nat : Cti!Earlier(a, Append(b, e))
      BY <2>2, <3>1, EarlierExtends
    <3>3. \A c \in Nat, e \in Nat : Len(a) = n + 1 =>
            Cti!Earlier(Append(a, c), b) /\ Cti!Earlier(Append(a, c), Append(b, e))
      BY <2>2, <3>1, EarlierExtends
    <3>. QED
      BY <2>3, <2>4, <3>1, <3>2, <3>3
  <2>8. CASE block[k] = block[l] /\ j < m
    <3>1. a = b /\ m > 1 /\ flat[l].at = Append(a, m - 1) /\ m - 1 \in Nat
      BY <2>1, <2>3, <2>4, <2>5, <2>8
    <3>2. CASE j = 1 /\ flat[k].at = a
      BY <2>2, <3>1, <3>2, EarlierThanChildren
    <3>3. CASE j - 1 \in Nat /\ j > 1 /\ flat[k].at = Append(a, j - 1)
      <4>1. j - 1 < m - 1
        BY <2>1, <2>8
      <4>. QED
        BY <2>2, <3>1, <3>3, <4>1, EarlierThanChildren
    <3>. QED
      BY <2>3, <3>2, <3>3
  <2>. QED
    BY <2>1, <2>7, <2>8
<1>12. Listing(flat, more)
  BY <1>7, <1>10, <1>11 DEF Listing
<1>13. ASSUME NEW p \in more
       PROVE  /\ p.at \in Seq(Nat) /\ Len(p.at) \in 1 .. (n + 2)
              /\ Len(p.at) =< n + 1 => Cti!Inside(p.entity.entities, p.at) \subseteq more
  <2>1. CASE p \in places
    BY <1>2, <2>1 DEF more, Beside
  <2>2. CASE p \notin places
    <3>1. PICK q \in places : p \in Cti!Inside(q.entity.entities, q.at)
      BY <2>2 DEF more, Beside
    <3>2. Len(q.at) = n + 1 /\ q.at \in Seq(Nat) /\ Cti!AList(q.entity.entities)
      BY <1>2, <2>2, <3>1
    <3>3. p.at \in Seq(Nat) /\ Len(p.at) = Len(q.at) + 1
      <4>. DEFINE list == Cti!Placed(q.entity.entities, q.at)
      <4>1. /\ \A c \in DOMAIN list : /\ list[c].at = Append(q.at, c) /\ Append(q.at, c) \in Seq(Nat)
                                       /\ Len(Append(q.at, c)) = Len(q.at) + 1
            /\ \A r \in Cti!Inside(q.entity.entities, q.at) : \E c \in DOMAIN list : list[c] = r
        BY <3>2, ListIsPlaced
      <4>. HIDE DEF list
      <4>2. PICK c \in DOMAIN list : list[c] = p
        BY <3>1, <4>1
      <4>. QED
        BY <4>1, <4>2
    <3>. QED
      BY <3>2, <3>3
  <2>. QED
    BY <2>1, <2>2
<1>14. \A p \in more : Len(p.at) \in 1 .. ((n + 1) + 1) /\ Cti!AList(p.entity.entities)
  BY <1>13 DEF more
<1>. QED
  BY <1>12, <1>13, <1>14 DEF Leveled, more, flat

\* Every entity is in the list of the roots or in an entity, at most Depth further down.
LEMMA PlacesAre ==
  ASSUME NEW entities
  PROVE  \E upto : /\ upto[0] = Cti!Inside(entities, <<>>)
                   /\ \A n \in 1 .. Depth : upto[n] = Beside(upto[n - 1])
                   /\ Cti!Places(entities) = upto[Depth]
<1>. DEFINE Recurs(m, g) == g = [n \in 0 .. m |->
                IF n = 0 THEN Cti!Inside(entities, <<>>) ELSE Beside(g[n - 1])]
            upto == CHOOSE g : Recurs(Depth, g)
<1>1. Depth \in Nat
  BY KeylessAssumption
<1>2. Cti!Places(entities) = upto[Depth]
  BY Zenon DEF Cti!Places, Beside
<1>3. Recurs(Depth, upto)
  <2>. DEFINE known == {m \in Nat : \E g : Recurs(m, g)}
  <2>1. 0 \in known
    <3>1. Recurs(0, [n \in {0} |-> Cti!Inside(entities, <<>>)])
      OBVIOUS
    <3>. HIDE DEF Recurs
    <3>. QED
      BY <3>1
  <2>2. ASSUME NEW m \in 1 .. Depth, m - 1 \in known
        PROVE  m \in known
    <3>1. PICK g : Recurs(m - 1, g)
      BY <2>2
    <3>. DEFINE h == [n \in 0 .. m |-> IF n = m THEN Beside(g[m - 1]) ELSE g[n]]
    <3>2. \A n \in 0 .. (m - 1) :
            g[n] = IF n = 0 THEN Cti!Inside(entities, <<>>) ELSE Beside(g[n - 1])
      BY <3>1
    <3>3. m \in Nat /\ m # 0 /\ (\A n \in 0 .. (m - 1) : h[n] = g[n]) /\ h[m] = Beside(g[m - 1])
      BY <1>1
    <3>4. h = [n \in 0 .. m |-> h[n]]
      OBVIOUS
    <3>. HIDE DEF h
    <3>5. \A n \in 0 .. m : h[n] = IF n = 0 THEN Cti!Inside(entities, <<>>) ELSE Beside(h[n - 1])
      BY <3>2, <3>3
    <3>6. h = [n \in 0 .. m |-> IF n = 0 THEN Cti!Inside(entities, <<>>) ELSE Beside(h[n - 1])]
      BY <3>4, <3>5, Zenon
    <3>7. Recurs(m, h)
      BY <3>6
    <3>. HIDE DEF Recurs
    <3>. QED
      BY <3>3, <3>7
  <2>. HIDE DEF Recurs, known
  <2>3. 0 .. Depth \subseteq known
    BY <1>1, <2>1, <2>2, UpTo
  <2>4. \E g : Recurs(Depth, g)
    BY <1>1, <2>3 DEF known
  <2>. QED
    BY <2>4
<1>. HIDE DEF upto
<1>4. upto[0] = Cti!Inside(entities, <<>>) /\ \A n \in 1 .. Depth : upto[n] = Beside(upto[n - 1])
  BY <1>1, <1>3
<1>. QED
  BY <1>2, <1>4

LEMMA EntitiesAre ==
  ASSUME NEW entities
  PROVE  \E placed : /\ placed[0] = Cti!Placed(entities, <<>>)
                     /\ \A n \in 1 .. Depth : placed[n] = Cti!Opened(n, placed[n - 1])
                     /\ Cti!Entities(entities) = placed[Depth]
<1>. DEFINE Recurs(m, g) == g = [level \in 0 .. m |->
                IF level = 0 THEN Cti!Placed(entities, <<>>) ELSE Cti!Opened(level, g[level - 1])]
            placed == CHOOSE g : Recurs(Depth, g)
<1>1. Depth \in Nat
  BY KeylessAssumption
<1>2. Cti!Entities(entities) = placed[Depth]
  BY Zenon DEF Cti!Entities
<1>3. Recurs(Depth, placed)
  <2>. DEFINE known == {m \in Nat : \E g : Recurs(m, g)}
  <2>1. 0 \in known
    <3>1. Recurs(0, [n \in {0} |-> Cti!Placed(entities, <<>>)])
      OBVIOUS
    <3>. HIDE DEF Recurs
    <3>. QED
      BY <3>1
  <2>2. ASSUME NEW m \in 1 .. Depth, m - 1 \in known
        PROVE  m \in known
    <3>1. PICK g : Recurs(m - 1, g)
      BY <2>2
    <3>. DEFINE h == [n \in 0 .. m |-> IF n = m THEN Cti!Opened(m, g[m - 1]) ELSE g[n]]
    <3>2. \A n \in 0 .. (m - 1) :
            g[n] = IF n = 0 THEN Cti!Placed(entities, <<>>) ELSE Cti!Opened(n, g[n - 1])
      BY <3>1
    <3>3. m \in Nat /\ m # 0 /\ (\A n \in 0 .. (m - 1) : h[n] = g[n]) /\ h[m] = Cti!Opened(m, g[m - 1])
      BY <1>1
    <3>4. h = [n \in 0 .. m |-> h[n]]
      OBVIOUS
    <3>. HIDE DEF h
    <3>5. \A n \in 0 .. m : h[n] = IF n = 0 THEN Cti!Placed(entities, <<>>) ELSE Cti!Opened(n, h[n - 1])
      BY <3>2, <3>3
    <3>6. h = [n \in 0 .. m |-> IF n = 0 THEN Cti!Placed(entities, <<>>) ELSE Cti!Opened(n, h[n - 1])]
      BY <3>4, <3>5, Zenon
    <3>7. Recurs(m, h)
      BY <3>6
    <3>. HIDE DEF Recurs
    <3>. QED
      BY <3>3, <3>7
  <2>. HIDE DEF Recurs, known
  <2>3. 0 .. Depth \subseteq known
    BY <1>1, <2>1, <2>2, UpTo
  <2>4. \E g : Recurs(Depth, g)
    BY <1>1, <2>3 DEF known
  <2>. QED
    BY <2>4
<1>. HIDE DEF placed
<1>4. /\ placed[0] = Cti!Placed(entities, <<>>)
      /\ \A n \in 1 .. Depth : placed[n] = Cti!Opened(n, placed[n - 1])
  BY <1>1, <1>3
<1>. QED
  BY <1>2, <1>4

LEMMA RootsAreLeveled ==
  ASSUME NEW entities, Cti!AList(entities),
         \A p \in Cti!Inside(entities, <<>>) : Cti!AList(p.entity.entities)
  PROVE  Leveled(0, Cti!Placed(entities, <<>>), Cti!Inside(entities, <<>>))
<1>. DEFINE roots == Cti!Placed(entities, <<>>)
            places == Cti!Inside(entities, <<>>)
<1>. DEFINE at == <<>>
<1>1. at \in Seq(Nat) /\ Len(at) = 0
  OBVIOUS
<1>2. /\ roots \in Seq(places) /\ DOMAIN roots = 1 .. Len(entities) /\ Len(entities) \in Nat
      /\ \A c \in DOMAIN roots : roots[c].at = Append(at, c) /\ roots[c].at \in Seq(Nat)
                                 /\ Len(roots[c].at) = 1
      /\ \A p \in places : \E c \in DOMAIN roots : roots[c] = p
  <2>. DEFINE list == Cti!Placed(entities, at)
  <2>. HIDE DEF at
  <2>1. /\ list \in Seq(Cti!Inside(entities, at))
        /\ DOMAIN list = 1 .. Len(entities) /\ Len(entities) \in Nat
        /\ \A c \in DOMAIN list : list[c].at = Append(at, c) /\ list[c].at \in Seq(Nat)
                                  /\ Len(list[c].at) = Len(at) + 1
        /\ \A p \in Cti!Inside(entities, at) : \E c \in DOMAIN list : list[c] = p
    <3>1. /\ list \in Seq(Cti!Inside(entities, at))
          /\ DOMAIN list = DOMAIN entities /\ DOMAIN entities = 1 .. Len(entities) /\ Len(entities) \in Nat
          /\ \A c \in DOMAIN list :
               /\ list[c] \in Cti!Inside(entities, at)
               /\ list[c].at = Append(at, c) /\ Append(at, c) \in Seq(Nat)
               /\ Len(Append(at, c)) = Len(at) + 1
          /\ \A p \in Cti!Inside(entities, at) : \E c \in DOMAIN list : list[c] = p
      BY <1>1, ListIsPlaced, Zenon
    <3>. HIDE DEF list
    <3>. QED
      BY <3>1
  <2>2. list = roots /\ Cti!Inside(entities, at) = places
    BY DEF at
  <2>. HIDE DEF list, roots, places
  <2>. QED
    BY <1>1, <2>1, <2>2
<1>. HIDE DEF at, roots, places
<1>3. \A c, e \in DOMAIN roots : c < e => Cti!Earlier(roots[c].at, roots[e].at)
  <2>. SUFFICES ASSUME NEW c \in DOMAIN roots, NEW e \in DOMAIN roots, c < e
                PROVE  Cti!Earlier(roots[c].at, roots[e].at)
    OBVIOUS
  <2>1. c \in Nat /\ e \in Nat /\ roots[c].at = Append(at, c) /\ roots[e].at = Append(at, e)
    BY <1>2
  <2>. QED
    BY <1>1, <2>1, EarlierThanChildren
<1>4. Listing(roots, places)
  BY <1>2, <1>3 DEF Listing
<1>5. \A p \in places : p.at \in Seq(Nat) /\ Len(p.at) = 1
  BY <1>2
<1>6. \A p \in places : Cti!AList(p.entity.entities)
  BY DEF places
<1>7. Leveled(0, roots, places)
  BY <1>4, <1>5, <1>6 DEF Leveled
<1>. QED
  BY <1>7 DEF roots, places

\* Contacts of RDAP.
LEMMA ContactsAreFaithful ==
  ASSUME NEW d, d.kind = "rdap", Cti!Readable(d)
  PROVE  Cti!Faithful(d, Cti!Map(d))
<1>. DEFINE entities == d.entities
            all == Cti!Places(entities)
            roots == Cti!Inside(entities, <<>>)
<1>1. Cti!AList(entities) /\ \A p \in all : Cti!AList(p.entity.entities)
  BY DEF Cti!Readable
<1>2. Depth \in Nat
  BY KeylessAssumption
<1>3. PICK upto : /\ upto[0] = roots
                  /\ \A n \in 1 .. Depth : upto[n] = Beside(upto[n - 1])
                  /\ all = upto[Depth]
  BY PlacesAre
<1>4. PICK placed : /\ placed[0] = Cti!Placed(entities, <<>>)
                    /\ \A n \in 1 .. Depth : placed[n] = Cti!Opened(n, placed[n - 1])
                    /\ Cti!Entities(entities) = placed[Depth]
  BY EntitiesAre
<1>. HIDE DEF entities, all, roots
<1>5. \A n \in 0 .. Depth : upto[n] \subseteq all
  <2>. DEFINE good == {m \in Nat : m =< Depth => upto[Depth - m] \subseteq all}
  <2>1. 0 \in good
    BY <1>2, <1>3
  <2>2. ASSUME NEW m \in 1 .. Depth, m - 1 \in good
        PROVE  m \in good
    <3>1. /\ upto[Depth - (m - 1)] \subseteq all
          /\ Depth - (m - 1) \in 1 .. Depth /\ (Depth - (m - 1)) - 1 = Depth - m
      BY <1>2, <2>2
    <3>2. upto[Depth - (m - 1)] = Beside(upto[Depth - m])
      BY <1>3, <3>1
    <3>. QED
      BY <3>1, <3>2 DEF Beside
  <2>. HIDE DEF good
  <2>3. 0 .. Depth \subseteq good
    BY <1>2, <2>1, <2>2, UpTo
  <2>4. ASSUME NEW n \in 0 .. Depth  PROVE upto[n] \subseteq all
    <3>1. Depth - n \in 0 .. Depth /\ Depth - n =< Depth /\ Depth - (Depth - n) = n
      BY <1>2
    <3>2. Depth - n \in good
      BY <2>3, <3>1
    <3>. QED
      BY <3>1, <3>2 DEF good
  <2>. QED
    BY <2>4
<1>6. Leveled(0, placed[0], upto[0])
  BY <1>1, <1>2, <1>3, <1>4, <1>5, RootsAreLeveled DEF roots
<1>7. Leveled(Depth, placed[Depth], upto[Depth])
  <2>. DEFINE good == {n \in Nat : Leveled(n, placed[n], upto[n])}
  <2>1. ASSUME NEW n \in 1 .. Depth, n - 1 \in good
        PROVE  n \in good
    <3>1. n - 1 \in Nat /\ (n - 1) + 1 = n /\ n \in 0 .. Depth
      BY <1>2
    <3>2. \A p \in Beside(upto[n - 1]) : Cti!AList(p.entity.entities)
      BY <1>1, <1>3, <1>5, <3>1
    <3>3. Leveled((n - 1) + 1, Cti!Opened((n - 1) + 1, placed[n - 1]), Beside(upto[n - 1]))
      BY <2>1, <3>1, <3>2, OneMoreLevel
    <3>. QED
      BY <1>3, <1>4, <3>1, <3>3
  <2>2. 0 \in good
    BY <1>6
  <2>. HIDE DEF good
  <2>3. 0 .. Depth \subseteq good
    BY <1>2, <2>1, <2>2, UpTo
  <2>. QED
    BY <1>2, <2>3 DEF good
<1>8. Listing(Cti!Entities(entities), all) /\ Listing(Cti!Placed(entities, <<>>), roots)
  BY <1>3, <1>4, <1>6, <1>7 DEF Leveled
<1>9. /\ Cti!FirstIn(all, "abuse", Cti!FirstOf(Cti!Entities(entities), "abuse"))
      /\ Cti!FirstIn(roots, "registrant", Cti!FirstOf(Cti!Placed(entities, <<>>), "registrant"))
  BY <1>8, FirstIsFirst
<1>10. Cti!Map(d) = Cti!Contacts(entities)
  BY DEF Cti!Map, entities
<1>. QED
  BY <1>9, <1>10 DEF Cti!Faithful, Cti!Contacts, entities, all, roots

-------------------------------------------------------------------------------
(* What is answered                                                        *)

\* Whatever document a provider answers, its report is what it says.
LEMMA MappingIsFaithful ==
  ASSUME NEW p \in Provider, NEW d \in Document[p], ~ Cti!Unmappable(d)
  PROVE  Cti!Faithful(d, Cti!Map(d))
<1>1. Cti!Readable(d)
  BY DocumentAssumption
<1>2. d.kind \in {"abuseipdb", "rdap", "shodan", "fields"}
  BY <1>1 DEF Cti!Readable
<1>. QED
  BY <1>1, <1>2, SharesAreFaithful, ContactsAreFaithful, HostsAreFaithful, CopiesAreFaithful

\* A request only answers a document it maps there and then.
LEMMA AnswersInvariant ==
  ASSUME Cti!EnrichmentTypeOK, Cti!EnrichmentAnswers, [Cti!EnrichmentNext]_(Cti!enrichmentVars)
  PROVE  Cti!EnrichmentAnswers'
<1>. DEFINE Good(r) ==
       r.at = "answered" /\ r.document # None =>
         IF r.code = "ok" THEN Cti!Faithful(r.document, r.report) ELSE Cti!Unmappable(r.document)
<1>1. DOMAIN request = Reader /\ \A x \in Reader : Good(request[x])
  BY DEF Cti!EnrichmentTypeOK, Cti!EnrichmentAnswers
<1>2. SUFFICES \A x \in Reader : Good(request'[x])
  BY DEF Cti!EnrichmentAnswers
<1>3. CASE UNCHANGED Cti!enrichmentVars
  BY <1>1, <1>3 DEF Cti!enrichmentVars
<1>4. CASE Cti!Configure
  <2>1. \A x \in Reader : request'[x] = Cti!Unanswered \/ request'[x] = request[x]
    BY <1>4 DEF Cti!Configure
  <2>2. Cti!Unanswered.document = None
    BY DEF Cti!Unanswered, Cti!Answered
  <2>. QED
    BY <1>1, <2>1, <2>2
<1>5. ASSUME NEW x \in Reader, Enrich(x)
      PROVE  \A y \in Reader : Good(request'[y])
  <2>1. ASSUME NEW code, NEW fault, NEW document, NEW report,
               Cti!Answer(x, code, fault, document, report)
        PROVE  /\ \A y \in Reader \ {x} : request'[y] = request[y]
               /\ request'[x].document = document /\ request'[x].code = code
               /\ request'[x].report = report
    BY <1>1, <2>1 DEF Cti!Answer, Cti!Answered
  <2>2. CASE \E p \in Provider : Cti!Call(x, p)
    <3>1. request'[x].at = "calling" /\ \A y \in Reader \ {x} : request'[y] = request[y]
      BY <1>1, <2>2 DEF Cti!Call
    <3>. QED
      BY <1>1, <3>1
  <2>3. CASE Cti!Report(x)
    <3>1. PICK d \in Document[request[x].provider] :
            ~ Cti!Unmappable(d) /\ Cti!Answer(x, "ok", FALSE, d, Cti!Map(d))
      BY <2>3 DEF Cti!Report
    <3>2. request[x].provider \in Provider
      BY <2>3 DEF Cti!Report, Cti!Calling, Cti!EnrichmentTypeOK
    <3>3. Cti!Faithful(d, Cti!Map(d))
      BY <3>1, <3>2, MappingIsFaithful
    <3>4. /\ \A y \in Reader \ {x} : request'[y] = request[y]
          /\ request'[x].document = d /\ request'[x].code = "ok" /\ request'[x].report = Cti!Map(d)
      BY <2>1, <3>1
    <3>5. Good(request'[x])
      BY <3>3, <3>4
    <3>. QED
      BY <1>1, <3>4, <3>5
  <2>4. CASE Cti!MappingRaises(x)
    <3>1. PICK d : Cti!Unmappable(d) /\ Cti!Answer(x, "internal_server_error", FALSE, d, Cti!NoReport)
      BY <2>4 DEF Cti!MappingRaises
    <3>2. /\ \A y \in Reader \ {x} : request'[y] = request[y]
          /\ request'[x].document = d /\ request'[x].code = "internal_server_error"
      BY <2>1, <3>1
    <3>3. Good(request'[x])
      BY <3>1, <3>2
    <3>. QED
      BY <1>1, <3>2, <3>3
  <2>5. CASE \E code, fault : Cti!Answer(x, code, fault, None, Cti!NoReport)
    BY <1>1, <2>1, <2>5
  <2>. QED
    BY <1>5, <2>2, <2>3, <2>4, <2>5
    DEF Enrich, Cti!NotFound, Cti!Inactive, Cti!NoKey, Cti!SecretUnavailable, Cti!NoObject,
        Cti!CallFails, Cti!ConnectionCut, Cti!Refuse
<1>6. Cti!EnrichmentNext => Cti!Configure \/ \E x \in Reader : Enrich(x)
  BY DEF Cti!EnrichmentNext, Enrich
<1>. QED
  BY <1>3, <1>4, <1>5, <1>6

-------------------------------------------------------------------------------
(* The services side by side                                               *)

\* Whichever service is at work, the mail goes on as in Mail, and the database as in
\* Migration.
THEOREM ServicesImplement == ServicesSpec => MailSpec /\ MigrationSpec
<1>1. ServicesInit => MailInit /\ MigrationInit
  BY DEF ServicesInit, NoMigration
<1>2. [ServicesNext]_services => [MailNext]_mailVars
  BY DEF ServicesNext, services
<1>3. [ServicesNext]_services => [MigrationNext]_migrationVars
  BY DEF ServicesNext, services
<1>. QED
  BY <1>1, <1>2, <1>3, PTL DEF ServicesSpec, MailSpec, MigrationSpec

\* The invariants of the two that are only there while they are at work.
ServicesIInv ==
  /\ service = "collector" => CP!IInv
  /\ service = "cti" => CtiIInv

\* A step of either is one of its own module, or leaves its variables as they are.
LEMMA ServiceSteps ==
  ASSUME [ServicesNext]_services
  PROVE  /\ service' = service
         /\ service = "collector" => [CP!Next]_(CP!vars)
         /\ service = "cti" => [Cti!EnrichmentNext]_(Cti!enrichmentVars)
<1>1. service' = service
  BY DEF ServicesNext, services
<1>2. service = "collector" => [Collectors!Next]_(Collectors!vars)
  BY DEF ServicesNext, services, ofCollectors, ofEither, Collectors!vars
<1>3. service = "cti" => [Cti!EnrichmentNext]_(Cti!enrichmentVars)
  BY DEF ServicesNext, services, ofCti, ofEither, Cti!enrichmentVars, Cti!vars
<1>. QED
  BY <1>1, <1>2, <1>3, SameCollectors

THEOREM ServicesInvariance == ServicesSpec => []ServicesIInv
<1>1. ServicesInit => ServicesIInv
  <2>1. CP!Init => CP!IInv
    BY CP!InitialInvariant
  <2>. QED
    BY <2>1, CtiInitial, SameCollectors DEF ServicesInit, ServicesIInv
<1>2. ASSUME ServicesIInv, [ServicesNext]_services  PROVE ServicesIInv'
  <2>1. service' = "collector" => CP!IInv'
    BY <1>2, ServiceSteps, CP!NextInvariant DEF ServicesIInv
  <2>2. service' = "cti" => CtiIInv'
    BY <1>2, ServiceSteps, CtiInvariant DEF ServicesIInv
  <2>. QED
    BY <2>1, <2>2 DEF ServicesIInv
<1>. QED
  BY <1>1, <1>2, PTL DEF ServicesSpec

\* Every service that is at work keeps to its types.
THEOREM ServicesTypeCorrect == ServicesSpec => []ServicesTypeOK
<1>1. MailTypeOK /\ MigrationTypeOK /\ ServicesIInv => ServicesTypeOK
  <2>1. CP!IInv => CP!TypeOK
    BY DEF CP!IInv
  <2>. QED
    BY <2>1, SameCollectors DEF ServicesIInv, ServicesTypeOK, CtiIInv
<1>. QED
  BY <1>1, ServicesImplement, ServicesInvariance, MailTypeCorrect, TypeCorrect, PTL

\* An active collector is never shown as failed, nor an inactive one as validated.
THEOREM CollectorStatusAlwaysAgrees == ServicesSpec => []CollectorStatusAgrees
<1>1. ServicesIInv => CollectorStatusAgrees
  <2>1. CP!IInv => CP!StatusAgrees
    BY DEF CP!IInv
  <2>. QED
    BY <2>1, SameCollectors DEF ServicesIInv, CollectorStatusAgrees
<1>. QED
  BY <1>1, ServicesInvariance, PTL

\* The service of the collectors keeps the promise of ValidatedConfig, configuration by
\* configuration, as long as no edit overtakes an activation.
THEOREM CollectorsKeepPromises == ServicesSpec => CollectorPromises
<1>1. ASSUME ServicesInit, service = "collector", NEW c \in Config, stored[c] = "unborn"
      PROVE  Collectors!Promise(c)!Init
  <2>1. Collectors!Init
    BY <1>1 DEF ServicesInit
  <2>2. secrets[c] = Collectors!NoSecrets
    BY <1>1, <2>1 DEF Collectors!Init
  <2>3. secrets[c] \in Collectors!Secrets
    BY <2>2 DEF Collectors!NoSecrets, Collectors!Secrets, Collectors!Type
  <2>. QED
    BY <1>1, <2>1, <2>3 DEF Collectors!Init, Collectors!Promise!Init
<1>2. ASSUME ServicesIInv, [ServicesNext]_services, service = "collector", NEW c \in Config
      PROVE  Collectors!KeepsPromise(c)
  BY <1>2, ServiceSteps, SameCollectors, CP!StepKeepsPromise DEF ServicesIInv
<1>3. ServicesInit =>
        (service = "collector" =>
           \A c \in Config : stored[c] = "unborn" => Collectors!Promise(c)!Init)
  BY <1>1
<1>4. ServicesIInv /\ [ServicesNext]_services =>
        [service = "collector" => \A c \in Config : Collectors!KeepsPromise(c)]_services
  BY <1>2
<1>. QED
  BY <1>3, <1>4, ServicesInvariance, PTL DEF ServicesSpec, CollectorPromises

\* The CTI service keeps it too, provider by provider; and it calls a provider with a key
\* that the provider accepted, whatever becomes of the row during the call.
THEOREM CtiKeepsPromises == ServicesSpec => CtiPromises
<1>1. ServicesInit => (service = "cti" => \A p \in Provider : Cti!Promise(p)!Init)
  BY DEF ServicesInit, Cti!EnrichmentInit, Cti!Init, Cti!Promise!Init, Cti!Settings
<1>2. ASSUME ServicesIInv, [ServicesNext]_services, service = "cti", NEW p \in Provider
      PROVE  Cti!KeepsPromise(p)
  <2>1. Cti!TypeOK /\ DOMAIN request = Reader
    BY <1>2 DEF ServicesIInv, CtiIInv, Cti!EnrichmentTypeOK
  <2>2. ASSUME NEW x \in Reader, Enrich(x)  PROVE UNCHANGED Cti!vars
    BY <2>1, <2>2, EnrichStep DEF Cti!vars
  <2>3. [Cti!Next]_(Cti!vars)
    BY <1>2, <2>2, ServiceSteps DEF Cti!EnrichmentNext, Enrich, Cti!Configure, Cti!enrichmentVars
  <2>. QED
    BY <2>1, <2>3, CtiStepKeepsPromise
<1>3. ServicesIInv /\ [ServicesNext]_services =>
        [service = "cti" => \A p \in Provider : Cti!KeepsPromise(p)]_services
  BY <1>2
<1>4. ServicesIInv => (service = "cti" => \A x \in Reader : Cti!CalledAccepted(x))
  BY DEF ServicesIInv, CtiIInv
<1>. QED
  BY <1>1, <1>3, <1>4, ServicesInvariance, PTL DEF ServicesSpec, CtiPromises

\* An enrichment that is answered a document reports what the document says, or the
\* document is one the code does not expect.
THEOREM AnswersAreFaithful == ServicesSpec => []EnrichmentAnswers
<1>1. ServicesInit => EnrichmentAnswers
  BY DEF ServicesInit, EnrichmentAnswers, Cti!EnrichmentInit, Cti!EnrichmentAnswers, Cti!Unanswered,
         Cti!Answered
<1>2. ASSUME ServicesIInv, EnrichmentAnswers, [ServicesNext]_services
      PROVE  EnrichmentAnswers'
  BY <1>2, ServiceSteps, AnswersInvariant DEF ServicesIInv, CtiIInv, EnrichmentAnswers
<1>. QED
  BY <1>1, <1>2, ServicesInvariance, PTL DEF ServicesSpec
===============================================================================
