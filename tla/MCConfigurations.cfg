SPECIFICATION ServicesSpec
CONSTANTS
  Config = {c1}
  Key = {k1, k2}
  Address = {m1}
  Relay = {"r1", "r2", "r3", "r4"}
  PortOf <- MCPortOf
  OffersTls = {"r1", "r2", "r4"}
  Certified = {"r2", "r4"}
  OddSender = {"r4"}
  Sender = {x1}
  Password = {"w"}
  Provider = {p1, p2}
  Keyless = {p2}
  Document <- MCDocument
  Depth = 1
  Reader = {x1}
  None = None
  Thread = {t1, t2}
  Collector = "serenicity"
  Source = {s1, s2}
  Name <- MCName
  Trim <- MCTrim
  Blank <- MCBlank
  Digits <- MCDigits
  Null = None
INVARIANTS
  ServicesTypeOK
  CollectorStatusAgrees
  MailUsesAccepted
  EnrichmentAnswers
  VersionTells
  SourcesKept
  OwnerOfItsKind
PROPERTIES
  CollectorPromises
  SmtpPromises
  MailAnswersTruly
  CtiPromises
  UnknownUntouched
SYMMETRY MCSymmetry
