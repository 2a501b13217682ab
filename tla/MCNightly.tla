----------------------------- MODULE MCNightly -----------------------------
(* The nightly workflow on a small instance. *)
EXTENDS Nightly

NoCorruption == {}
JobInfoOnly == {"job_info"}
FromTheStart == [t \in Table |-> 0]
=============================================================================
