----------------------------- MODULE MCCollection -----------------------------
(***************************************************************************)
(* Small instances of Collection: an OGO source and a Lurio source.        *)
(***************************************************************************)
EXTENDS Collection

\* Safety: one Lurio source, pages of one event, three pages per cycle.
MCEvent == 1 .. 4
MCSourceOf == [e \in MCEvent |-> "lure"]
MCOccurredAt == <<0, 1, 2, 3>>
MCKeyOf == <<"k1", "k2", "k3", "k4">>
MCRunnerOf == [s \in {"lure"} |-> Lurio]

\* Liveness: a Lurio source that needs several cycles of two pages, next to an OGO
\* source with an event the table refuses.
MCSourceOfTwo == <<"lure", "lure", "lure", "web">>
MCOccurredAtTwo == <<0, 2, 4, 0>>
MCRunnerOfTwo == [s \in {"lure", "web"} |-> IF s = "web" THEN 1 ELSE Lurio]
===============================================================================
