----------------------------- MODULE MCExtract -----------------------------
(* One table, named twice; loads insert two rows and update the first. *)
EXTENDS Extract

MCTables == <<"job_info">>
MCTwice == <<"job_info", "job_info">>
MCKeyOf == <<1, 2, 1>>
=============================================================================
