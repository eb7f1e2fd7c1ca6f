---------------------------- MODULE MCCtiEnrichment ----------------------------
(***************************************************************************)
(* A small instance of CtiEnrichment: one provider that needs a key.       *)
(***************************************************************************)
EXTENDS CtiEnrichment

MCDocument ==
  [p \in Provider |-> [kind : {"fields"}, ip : {None}, number : {"1", "infinite"}, text : {None}]]
===============================================================================
