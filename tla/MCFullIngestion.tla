-------------------------- MODULE MCFullIngestion --------------------------
(* Five documents in batches of two or three, the last batch partial both  *)
(* times, two batches in flight together, at most three faults.            *)
EXTENDS FullIngestion

MCSizes == {2, 3}
=============================================================================
