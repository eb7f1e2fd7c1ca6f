---------------------------------- MODULE Mail ----------------------------------
(***************************************************************************)
(* Sending a mail through the SMTP configuration, by hand from the mail    *)
(* screen or for an alert, while other requests edit, validate and         *)
(* activate that configuration.  The request reads the row once, opens a   *)
(* session of its own with the relay, logs in, sends and quits; it writes  *)
(* nothing and is never retried.                                           *)
(*                                                                         *)
(* The validator opens a session too, by the same rules but for one: its   *)
(* starttls() takes any certificate, and that of the sender verifies it.   *)
(* It sends nothing, and so never looks at smtp_from, of which the API     *)
(* only checks that it contains an @.                                      *)
(***************************************************************************)
EXTENDS SmtpConfig, Naturals

CONSTANTS
  PortOf,      \* smtp_port of a relay: 25, 465 or 587
  OffersTls,   \* relays whose EHLO announces STARTTLS
  Certified,   \* relays whose certificate verifies
  OddSender,   \* relays whose smtp_from is not an address in plain ASCII
  Sender       \* requests that send a mail, each in a thread of its own

ASSUME RelayAssumption == PortOf \in [Relay -> {25, 465, 587}]

VARIABLES
  mail,      \* where a request that sends a mail stands
  overtook   \* history: the row is active by a request that an edit had overtaken

mailVars == <<vars, mail, overtook>>

\* A request is answered with a status code, or holds the row it read, `overtook` as it
\* was then, and how often the relay took the message; once something outside went wrong
\* the row no longer matters.
Waiting == [at : {"idle"}, code : {0, 200, 400, 500, 503}]
Session == [at : {"sending"}, row : Settings, overtook : BOOLEAN, taken : Nat]
Trouble == [at : {"trouble"}, taken : Nat]

MailTypeOK ==
  /\ TypeOK
  /\ mail \in [Sender -> Waiting \cup Session \cup Trouble]
  /\ overtook \in BOOLEAN

Unanswered == [at |-> "idle", code |-> 0]

MailInit ==
  /\ Init
  /\ mail = [x \in Sender |-> Unanswered]
  /\ overtook = FALSE

-------------------------------------------------------------------------------
(* The configuration meanwhile                                             *)

\* Mutant: the validator does without STARTTLS on port 587.
ValidatorLogsInAnyway(r) == TRUE

\* SmtpValidator.validate: a session it can log into.
ValidatorLogsIn(r) == PortOf[r] = 587 => r \in OffersTls

\* A request of SmtpConfig; the relay accepts settings only in such a session.  What was
\* answered is forgotten.
Configure ==
  /\ Next
  /\ \A s \in accepted' \ accepted : ValidatorLogsIn(s.relay)
  /\ overtook' = (active' /\ (overtook \/ \E t \in Thread : /\ thread[t] # Idle
                                                           /\ thread'[t] = Idle
                                                           /\ thread[t].row # settings))
  /\ mail' = [x \in Sender |-> IF mail[x].at = "idle" THEN Unanswered ELSE mail[x]]

-------------------------------------------------------------------------------
(* SmtpEmailService.send_email                                             *)

Answer(x, code) == mail' = [mail EXCEPT ![x] = [at |-> "idle", code |-> code]]
Fail(x) == mail' = [mail EXCEPT ![x] = [at |-> "trouble", taken |-> mail[x].taken]]
Answered(x) == mail[x].at = "idle"
Unsent(x) == mail[x].at = "sending" /\ mail[x].taken = 0
Taken(x) == mail[x].at = "sending" /\ mail[x].taken = 1
OnlyMail == UNCHANGED <<vars, overtook>>

\* Mutant: whether the row is active is not looked at.
ReadAnyRow(x) ==
  /\ Answered(x)
  /\ Complete(settings)
  /\ mail' = [mail EXCEPT ![x] = [at |-> "sending", row |-> settings, overtook |-> overtook,
                                  taken |-> 0]]
  /\ OnlyMail

\* The recipient, the subject and the text are valid, the alert has its sources;
\* get_or_create_config finds an active and complete row.
ReadActiveRow(x) ==
  /\ Answered(x)
  /\ active /\ Complete(settings)
  /\ mail' = [mail EXCEPT ![x] = [at |-> "sending", row |-> settings, overtook |-> overtook,
                                  taken |-> 0]]
  /\ OnlyMail

\* common_ip_alert_not_found (404), before anything else is looked at; invalid_payload;
\* then smtp_config_inactive and smtp_config_incomplete.
Refused(x) ==
  /\ Answered(x)
  /\ Answer(x, 400)
  /\ OnlyMail

\* The recipient is not an address the header can be built from: internal_server_error.
RecipientRaises(x) ==
  /\ Answered(x)
  /\ active /\ Complete(settings)
  /\ Answer(x, 500)
  /\ OnlyMail

\* secret_key_unavailable
SecretUnavailable(x) ==
  /\ Unsent(x)
  /\ Fail(x)
  /\ OnlyMail

\* What nothing catches: formataddr, for a sender beyond ASCII that has a display name (which
\* is edited without a validation, and left out here), or the header of a malformed one; and
\* login, for a user or a password beyond ASCII, where the validator raises too.
MessageRaises(x) ==
  /\ Unsent(x)
  /\ mail[x].row.relay \in OddSender \/ mail[x].row \notin accepted
  /\ Answer(x, 500)
  /\ OnlyMail

\* Mutant: the relay has the message before its sender is found not to be encodable.
MessageRaisesLate(x) ==
  /\ mail[x].at = "sending"
  /\ mail[x].row.relay \in OddSender \/ mail[x].row \notin accepted
  /\ Answer(x, 500)
  /\ OnlyMail

\* The session of _send_message: SMTP_SSL on port 465, which verifies nothing; else
\* STARTTLS, required on port 587 and verified wherever it is used.
SenderLogsIn(r) ==
  \/ PortOf[r] = 465
  \/ r \in OffersTls \cap Certified
  \/ PortOf[r] = 25 /\ r \notin OffersTls

\* The relay has no STARTTLS, or a certificate that does not verify, or no SMTPUTF8 for
\* a sender beyond ASCII: smtp_send_failed.
NoSession(x) ==
  /\ Unsent(x)
  /\ mail[x].row.relay \in OddSender \/ ~ SenderLogsIn(mail[x].row.relay)
  /\ Answer(x, 503)
  /\ OnlyMail

\* The relay cannot be reached or does not answer in time, no longer takes the
\* password, or refuses the sender, the recipient or the message.
RelayFails(x) ==
  /\ Unsent(x)
  /\ Fail(x)
  /\ OnlyMail

\* login and send_message: the relay takes the message ...
RelayTakes(x) ==
  /\ Unsent(x)
  /\ SenderLogsIn(mail[x].row.relay)
  /\ mail' = [mail EXCEPT ![x].taken = @ + 1]
  /\ OnlyMail

\* Mutant: a message whose acknowledgement is lost is sent again.
AcknowledgementLostRetries(x) ==
  /\ Taken(x)
  /\ mail' = [mail EXCEPT ![x].taken = @ + 1]
  /\ OnlyMail

\* ... but its answer is lost, or that to the QUIT of __exit__ is not the one expected.
AcknowledgementLost(x) ==
  /\ Taken(x)
  /\ Fail(x)
  /\ OnlyMail

\* smtp_send_failed, whatever was raised; secret_key_unavailable.
SendFailed(x) ==
  /\ mail[x].at = "trouble"
  /\ Answer(x, 503)
  /\ OnlyMail

Sent(x) ==
  /\ Taken(x)
  /\ Answer(x, 200)
  /\ OnlyMail

MailNext ==
  \/ Configure
  \/ \E x \in Sender :
       \/ ReadActiveRow(x) \/ Refused(x) \/ RecipientRaises(x)
       \/ SecretUnavailable(x) \/ MessageRaises(x) \/ NoSession(x) \/ RelayFails(x)
       \/ RelayTakes(x) \/ AcknowledgementLost(x)
       \/ SendFailed(x) \/ Sent(x)

MailSpec == MailInit /\ [][MailNext]_mailVars

-------------------------------------------------------------------------------
(* Properties                                                              *)

\* No message goes through settings the relay never accepted, even when the row is
\* edited or deactivated during the session; unless an edit had overtaken the request
\* that activated it.
MailUsesAccepted ==
  \A x \in Sender : mail[x].at = "sending" /\ ~ mail[x].overtook => mail[x].row \in accepted

\* A mail is answered "sent" only if the relay took it, and the relay never takes it
\* twice.  Of a mail that failed the caller cannot tell, unless nothing went wrong
\* outside: then it was not taken.
SentOnce ==
  \A x \in Sender : mail'[x] # mail[x] =>
    IF Answered(x)'
      THEN /\ mail'[x].code = 200 => ~ Answered(x) /\ mail[x].taken = 1
           /\ mail'[x].code = 500 => Answered(x) \/ mail[x].taken = 0
           /\ mail'[x].code = 503 => mail[x].at = "trouble" \/ mail[x].taken = 0
      ELSE mail'[x].taken =< 1

\* What the validator accepted the sender can use: a mail that fails although nothing
\* went wrong outside meets one of the two things the validation does not look at, a
\* certificate that only the sender verifies, and a sender that is not an address in plain
\* ASCII (activate_config, "Active la configuration SMTP apres validation reelle").
CanSend ==
  \A x \in Sender :
    mail[x].at = "sending" /\ ~ mail[x].overtook /\ Answered(x)' =>
      mail'[x].code = 200 \/ mail[x].row.relay \in (OffersTls \ Certified) \cup OddSender

\* What a mail is answered is true: "sent" if the relay took it, once; an internal error
\* only if it did not; and through settings that were validated nothing but "sent" unless
\* something outside went wrong, or the two things above.
MailAnswersTruly == [][SentOnce /\ CanSend]_mailVars
===============================================================================
