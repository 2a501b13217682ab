---------------------------- MODULE MCSiteSonar ----------------------------
(* SiteSonar on three dumps; rows of different dumps share a last_updated. *)
EXTENDS SiteSonar, TLC

MCDump ==
  (1 :> {<<"h1", 1>>, <<"h2", 2>>}) @@ (2 :> {<<"h1", 2>>, <<"h2", 3>>})
    @@ (3 :> {<<"h1", 3>>})
(* A probe fetches one dump; the nightly run has no limit. *)
ProbesToo == {1, NoLimit}
=============================================================================
