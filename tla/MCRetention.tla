------------------------------ MODULE MCRetention ------------------------------
(***************************************************************************)
(* A small instance of Retention.                                          *)
(***************************************************************************)
EXTENDS Retention

MCEvent == {1}
MCOccurredAt == <<0>>
===============================================================================
