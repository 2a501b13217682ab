---------------------------- MODULE MCRetention ----------------------------
(* Retention on small instances.  job_ids are ordered, so only the passes  *)
(* are symmetric.                                                          *)
EXTENDS Retention, TLC

NoCorruption == {}
MCCorruptStamps == {0, MaxTime + 1}
JobInfoAndJdls == {"job_info", "mon_jdls"}
JobInfoAndTrace == {"job_info", "trace"}
JobInfoOnly == {"job_info"}
SomePasses == Permutations(Passes)
=============================================================================
