--------------------------- MODULE MCCollectorConfig ---------------------------
(***************************************************************************)
(* Small instances of CollectorConfig: one configuration, two keys, one or *)
(* two threads of the API.                                                 *)
(***************************************************************************)
EXTENDS CollectorConfig, TLC

\* Keys, and threads, play the same role.
MCSymmetry == Permutations(Key) \cup Permutations(Thread)
===============================================================================
