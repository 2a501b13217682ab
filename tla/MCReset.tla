------------------------------ MODULE MCReset ------------------------------
(* Resets beside one run-nightly at a time, as Forbid enforces. *)
EXTENDS Reset

NoCorruption == {}
JobInfoAndJdls == {"job_info", "mon_jdls"}
JobInfoOnly == {"job_info"}
FromTheStart == [t \in Table |-> 0]
=============================================================================
