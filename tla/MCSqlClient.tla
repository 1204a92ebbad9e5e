----------------------------- MODULE MCSqlClient -----------------------------
(* SqlClient.tla for TLC.  Threads and addresses are interchangeable, and    *)
(* every property checked is a safety property.                              *)
EXTENDS SqlClient, TLC

Symmetry == Permutations(Thread) \cup Permutations(Address)
=============================================================================
