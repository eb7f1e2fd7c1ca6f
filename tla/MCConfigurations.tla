---------------------------- MODULE MCConfigurations ----------------------------
(***************************************************************************)
(* A small instance of Configurations.                                     *)
(***************************************************************************)
EXTENDS Configurations, TLC

\* External identifiers of the sources: none, two that only differ by a blank, and
\* one more.
MCBlank == ""
MCDigits == {"7", "8"}
MCName == {MCBlank, "7", "7 ", "8"}
MCTrim == [k \in MCName |-> IF k = "7 " THEN "7" ELSE k]

\* A relay on port 25 whose certificate does not verify, and three on port 587: with a
\* certificate that verifies, without STARTTLS, and as the second but for its sender.  With
\* one on port 465, or on port 25 without STARTTLS, both sessions open, as with the second.
MCPortOf == [r1 |-> 25, r2 |-> 587, r3 |-> 587, r4 |-> 587]

\* Documents of a provider that needs a key: up to two reports of AbuseIPDB, up to two
\* services of Shodan, and the fields the others copy; those of RDAP: up to two
\* entities, of which the first may contain another.
Upto(n, S) == UNION {[1 .. k -> S] : k \in 0 .. n}
Reports == [kind : {"abuseipdb"}, total : 0 .. 2, reports : Upto(2, {<<>>, <<1>>, <<1, 1>>, <<0, 1>>})]
Hosts == [kind : {"shodan"}, update : {None, 2}, vulns : {<<>>, <<2>>},
          items : Upto(2, [port : {0, 80}, vulns : {<<>>, <<3, 2>>}, at : {None, 1}])]
Fields == [kind : {"fields"}, ip : {None, "given"}, number : {"none", "text", "1", "infinite"},
           text : {None, "given", "list"}]
Leaf == [roles : {{}, {"abuse"}, {"registrant"}}, entities : {<<>>}]
Root == [roles : {{}, {"abuse"}, {"registrant"}, {"abuse", "registrant"}}, entities : Upto(1, Leaf)]
Entities == [kind : {"rdap"}, entities : {<<>>} \cup {<<e>> : e \in Root} \cup {<<e, f>> : e \in Root, f \in Leaf}]
MCDocument == [p \in Provider |-> IF p \in Keyless THEN Entities ELSE Reports \cup Hosts \cup Fields]

\* Keys, and threads, play the same role among themselves.
MCSymmetry == {k @@ t : k \in Permutations(Key), t \in Permutations(Thread)}
===============================================================================
