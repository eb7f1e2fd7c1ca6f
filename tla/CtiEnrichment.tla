----------------------------- MODULE CtiEnrichment -----------------------------
(***************************************************************************)
(* Enriching an IP: a request reads the row of a provider, calls the       *)
(* provider with the key of that row, and maps the document it answers,    *)
(* while other requests edit, validate and activate the row.  It writes    *)
(* nothing and is never retried.                                           *)
(*                                                                         *)
(* A document is reduced to what its mapping computes with.  The rows of   *)
(* the providers that need a key differ in nothing the request looks at:   *)
(* such a provider may answer any of the documents of AbuseIPDB, of Shodan *)
(* and of the four whose fields are copied; a keyless one is RDAP.         *)
(***************************************************************************)
EXTENDS CtiConfig, Integers, SequencesExt

CONSTANTS
  Document,   \* documents a provider may answer
  Depth,      \* how deep the entities of a document nest
  Reader      \* requests that enrich an IP, each in a thread of its own

VARIABLES
  request,   \* where a request that enriches an IP stands
  overtook   \* history: the row is active by an activation that an edit had overtaken

enrichmentVars == <<vars, request, overtook>>

NoReport == [report |-> "none"]
Answered(code, fault, document, report) ==
  [at |-> "answered", code |-> code, fault |-> fault, document |-> document, report |-> report]

Unanswered == Answered(None, FALSE, None, NoReport)

EnrichmentInit ==
  /\ Init
  /\ request = [x \in Reader |-> Unanswered]
  /\ overtook = [p \in Provider |-> FALSE]

Code == {None, "ok", "cti_config_not_found", "cti_provider_inactive", "cti_provider_not_configured",
         "secret_key_unavailable", "cti_enrichment_unavailable", "cti_enrichment_invalid_response",
         "internal_server_error"}

EnrichmentTypeOK ==
  /\ TypeOK
  /\ DOMAIN request = Reader
  /\ \A x \in Reader : LET r == request[x] IN
       \/ r.at = "answered" /\ r.code \in Code /\ r.fault \in BOOLEAN
       \/ r.at = "calling" /\ r.provider \in Provider /\ r.key \in Settings /\ r.overtook \in BOOLEAN
  /\ overtook \in [Provider -> BOOLEAN]

-------------------------------------------------------------------------------
(* Mapping of the documents                                                *)

\* Mutant: a report counts once for each time it names a category.
PercentagesOfMentions(total, reports) ==
  LET mentions == SelectSeq(FlattenSeq(reports), LAMBDA c : c # 0) IN
  IF total <= 0 THEN <<>>
  ELSE [c \in ToSet(mentions) |->
          (Cardinality({i \in DOMAIN mentions : mentions[i] = c}) * 100) \div total]

\* _compute_abuseipdb_category_percentages, in whole percents: among the reports, those
\* that name a category, however often; 0 stands for what is no category.
Percentages(total, reports) ==
  LET Named(i) == ToSet(reports[i]) \ {0} IN
  IF total <= 0 THEN <<>>
  ELSE [c \in UNION {Named(i) : i \in DOMAIN reports} |->
          (Cardinality({i \in DOMAIN reports : c \in Named(i)}) * 100) \div total]

\* _iter_entities: each entity, then those it contains; by its position in the document.
Placed(entities, at) == [i \in DOMAIN entities |-> [at |-> Append(at, i), entity |-> entities[i]]]
Opened(level, placed) ==
  FlattenSeq([i \in DOMAIN placed |->
    <<placed[i]>> \o (IF Len(placed[i].at) = level
                        THEN Placed(placed[i].entity.entities, placed[i].at)
                        ELSE <<>>)])
Entities(entities) ==
  LET placed[level \in 0 .. Depth] ==
        IF level = 0 THEN Placed(entities, <<>>) ELSE Opened(level, placed[level - 1])
  IN placed[Depth]

FirstOf(placed, role) ==
  LET having == {i \in DOMAIN placed : role \in placed[i].entity.roles} IN
  IF having = {} THEN None ELSE placed[Min(having)].at

\* Mutant: the abuse contact is looked for among the roots first.
ContactsRootsFirst(entities) ==
  LET roots == Placed(entities, <<>>)
      inner == SelectSeq(Entities(entities), LAMBDA e : Len(e.at) > 1) IN
  [country |-> FirstOf(roots, "registrant"), email |-> FirstOf(roots \o inner, "abuse")]

\* _map_rdap_payload: the country of a registrant among the roots, the e-mail of an
\* abuse contact wherever it is.
Contacts(entities) ==
  [country |-> FirstOf(Placed(entities, <<>>), "registrant"),
   email |-> FirstOf(Entities(entities), "abuse")]

\* _deduplicate_preserving_order
Deduplicate(values) ==
  LET first[n \in 0 .. Len(values)] ==
        IF n = 0 THEN <<>>
        ELSE LET seen == first[n - 1] IN
             IF values[n] \in ToSet(seen) THEN seen ELSE Append(seen, values[n])
  IN first[Len(values)]

\* _map_shodan_payload; a missing port is 0, a date that cannot be read None.
Host(d) ==
  LET ports == [i \in DOMAIN d.items |-> d.items[i].port]
      vulns == FlattenSeq([i \in DOMAIN d.items |-> d.items[i].vulns])
      dates == ({d.update} \cup {d.items[i].at : i \in DOMAIN d.items}) \ {None} IN
  [ports |-> Deduplicate(SelectSeq(ports, LAMBDA p : p > 0)),
   vulns |-> Deduplicate(d.vulns \o vulns),
   last |-> IF dates = {} THEN None ELSE CHOOSE t \in dates : \A u \in dates : u <= t]

\* The other mappings copy: an address falls back to the one that was asked, a number
\* that cannot be read to 0, a field that is missing to NULL.
Copy(d) ==
  [ip |-> IF d.ip = None THEN "asked" ELSE d.ip,
   number |-> IF d.number \in {"none", "text"} THEN "0" ELSE d.number,
   text |-> d.text]

Map(d) ==
  CASE d.kind = "abuseipdb" -> Percentages(d.total, d.reports)
    [] d.kind = "rdap" -> Contacts(d.entities)
    [] d.kind = "shodan" -> Host(d)
    [] d.kind = "fields" -> Copy(d)

\* int() of an infinite number raises OverflowError, which _coerce_int does not expect;
\* the schema of the answer refuses a text that is something else.
Unmappable(d) == d.kind = "fields" /\ (d.number = "infinite" \/ d.text = "list")

-------------------------------------------------------------------------------
(* The configuration meanwhile                                             *)

\* A request of CtiConfig; what was answered is forgotten.
Configure ==
  /\ Next
  /\ overtook' = [p \in Provider |->
       active'[p] /\ (overtook[p] \/ \E t \in Thread : /\ thread[t].provider = p
                                                      /\ thread'[t] = Idle
                                                      /\ thread[t].key # settings[p])]
  /\ request' = [x \in Reader |-> IF request[x].at = "answered" THEN Unanswered ELSE request[x]]

-------------------------------------------------------------------------------
(* CtiEnrichmentService                                                    *)

OnlyRequest == UNCHANGED <<vars, overtook>>
Calling(x) == request[x].at = "calling"
Answer(x, code, fault, document, report) ==
  /\ request' = [request EXCEPT ![x] = Answered(code, fault, document, report)]
  /\ OnlyRequest
Refuse(x, code) == Answer(x, code, FALSE, None, NoReport)

\* _load_active_provider_config, then _load_active_api_key where a key is needed.
NotFound(x) == ~ Calling(x) /\ Refuse(x, "cti_config_not_found")
Inactive(x, p) == ~ Calling(x) /\ ~ active[p] /\ Refuse(x, "cti_provider_inactive")
NoKey(x, p) ==
  /\ ~ Calling(x) /\ active[p]
  /\ p \notin Keyless /\ settings[p] = None
  /\ Refuse(x, "cti_provider_not_configured")
SecretUnavailable(x, p) ==
  /\ ~ Calling(x) /\ active[p]
  /\ p \notin Keyless /\ settings[p] # None
  /\ Refuse(x, "secret_key_unavailable")

\* Mutant: the key is enough, active or not.
CallAnyway(x, p) ==
  /\ ~ Calling(x)
  /\ p \in Keyless \/ settings[p] # None
  /\ request' = [request EXCEPT ![x] =
       [at |-> "calling", provider |-> p, key |-> settings[p], overtook |-> overtook[p]]]
  /\ OnlyRequest

Call(x, p) ==
  /\ ~ Calling(x)
  /\ active[p] /\ (p \in Keyless \/ settings[p] # None)
  /\ request' = [request EXCEPT ![x] =
       [at |-> "calling", provider |-> p, key |-> settings[p], overtook |-> overtook[p]]]
  /\ OnlyRequest

\* The provider answers a document ...
Report(x) ==
  /\ Calling(x)
  /\ \E d \in Document[request[x].provider] :
       ~ Unmappable(d) /\ Answer(x, "ok", FALSE, d, Map(d))

\* ... that raises when it is mapped or checked against the schema ...
MappingRaises(x) ==
  /\ Calling(x)
  /\ \E d \in Document[request[x].provider] :
       Unmappable(d) /\ Answer(x, "internal_server_error", FALSE, d, NoReport)

\* ... or JSON that is no object.
NoObject(x) == Calling(x) /\ Refuse(x, "cti_enrichment_invalid_response")

\* IntegrationRequestError of get_json, whatever its kind: a status of 400 or more, a
\* request that could not be sent, no answer in time, or an answer that is not JSON.
CallFails(x) ==
  /\ Calling(x)
  /\ Answer(x, "cti_enrichment_unavailable", TRUE, None, NoReport)

\* The connection breaks once the request is sent: urlopen wraps in a URLError only
\* what happens before, and get_json catches nothing else.
ConnectionCut(x) ==
  /\ Calling(x)
  /\ Answer(x, "internal_server_error", TRUE, None, NoReport)

EnrichmentNext ==
  \/ Configure
  \/ \E x \in Reader :
       \/ NotFound(x)
       \/ \E p \in Provider : Inactive(x, p) \/ NoKey(x, p) \/ SecretUnavailable(x, p) \/ Call(x, p)
       \/ Report(x) \/ MappingRaises(x) \/ NoObject(x) \/ CallFails(x) \/ ConnectionCut(x)

EnrichmentSpec == EnrichmentInit /\ [][EnrichmentNext]_enrichmentVars

-------------------------------------------------------------------------------
(* Properties                                                              *)

\* A provider is only called with a key it accepted, even when the row is edited or
\* deactivated during the call; unless an edit had overtaken the activation.
CalledAccepted(x) ==
  Calling(x) /\ ~ request[x].overtook => request[x].key \in accepted[request[x].provider]

\* The entities of a document, with their positions: those of a list, and whatever is in one.
Inside(entities, at) == {[at |-> Append(at, i), entity |-> entities[i]] : i \in DOMAIN entities}
Places(entities) ==
  LET upto[n \in 0 .. Depth] ==
        IF n = 0 THEN Inside(entities, <<>>)
        ELSE LET known == upto[n - 1] IN
             known \cup UNION {Inside(p.entity.entities, p.at) : p \in known}
  IN upto[Depth]

\* The order of a document: an entity, what is in it, the next one.
Earlier(a, b) ==
  \/ Len(a) < Len(b) /\ \A j \in DOMAIN a : a[j] = b[j]
  \/ \E k \in DOMAIN a \cap DOMAIN b : a[k] < b[k] /\ \A j \in 1 .. (k - 1) : a[j] = b[j]
FirstIn(places, role, at) ==
  LET having == {p \in places : role \in p.entity.roles} IN
  IF having = {} THEN at = None
  ELSE \E p \in having : p.at = at /\ \A q \in having \ {p} : Earlier(at, q.at)

\* The values of a list, each once, where it is first named.
InOrder(values, mentions) ==
  /\ ToSet(values) = ToSet(mentions)
  /\ \A i, j \in DOMAIN values : i < j =>
       \E n \in DOMAIN mentions :
         mentions[n] = values[i] /\ \A k \in 1 .. n : mentions[k] # values[j]

\* What a provider answers, and the model maps; Depth bounds the nesting of its entities.
AList(s) == s \in Seq({s[i] : i \in DOMAIN s})
Readable(d) ==
  \/ d.kind = "abuseipdb" /\ d.total \in Int /\ d.reports \in Seq(Seq(Nat))
  \/ /\ d.kind = "rdap" /\ AList(d.entities)
     /\ \A p \in Places(d.entities) :
          AList(p.entity.entities) /\ (Len(p.at) > Depth => p.entity.entities = <<>>)
  \/ /\ d.kind = "shodan" /\ d.update \in {None} \cup Nat /\ d.vulns \in Seq(Nat)
     /\ d.items \in Seq([port : Nat, vulns : Seq(Nat), at : {None} \cup Nat])
  \/ d.kind = "fields" /\ d.number \in {"none", "text", "1", "infinite"}

\* What a report says is what its document says: no category is in more than all of the
\* reports, the abuse contact is the first of the document and the country that of a
\* root, a vulnerability counts once, no date is later than the last one, and what is
\* missing has its default.
Faithful(d, report) ==
  CASE d.kind = "abuseipdb" ->
         \A c \in DOMAIN report : /\ d.total =< 100 => report[c] > 0
                                  /\ d.total >= Len(d.reports) => report[c] =< 100
    [] d.kind = "rdap" ->
         /\ FirstIn(Places(d.entities), "abuse", report.email)
         /\ FirstIn(Inside(d.entities, <<>>), "registrant", report.country)
    [] d.kind = "shodan" ->
         /\ InOrder(report.vulns, d.vulns \o FlattenSeq([i \in DOMAIN d.items |-> d.items[i].vulns]))
         /\ \A t \in ({d.update} \cup {d.items[i].at : i \in DOMAIN d.items}) \ {None} : t =< report.last
    [] d.kind = "fields" -> report.ip # None /\ report.number \in {"0", "1"}

\* What an enrichment answers: see Faithful; a document that only
\* lacks fields is answered (docs/CTI.md, "des valeurs par defaut au lieu d'echouer").
EnrichmentAnswers ==
  \A x \in Reader :
    request[x].at = "answered" /\ request[x].document # None =>
      IF request[x].code = "ok"
        THEN Faithful(request[x].document, request[x].report)
        ELSE Unmappable(request[x].document)

\* Every error of the network is answered cti_enrichment_unavailable (docs/CTI.md, "les
\* erreurs reseau, timeout, DNS, authentification ou indisponibilite externe sont
\* normalisees en cti_enrichment_unavailable").
ErrorsAreNormalised ==
  \A x \in Reader :
    request[x].at = "answered" /\ request[x].fault => request[x].code = "cti_enrichment_unavailable"
===============================================================================
