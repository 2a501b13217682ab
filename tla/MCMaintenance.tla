---------------------------- MODULE MCMaintenance ----------------------------
(* One table, or two, of the namespace, in sorted order. *)
EXTENDS Maintenance

MCOneTable == <<"job_info">>
MCTwoTables == <<"job_info", "trace">>
=============================================================================
