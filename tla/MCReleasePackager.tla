------------------------- MODULE MCReleasePackager -------------------------
(***************************************************************************)
(* ReleasePackager for two platforms and two new builds beside the old     *)
(* one, in up to two runs with up to three failures and crashes.           *)
(***************************************************************************)
EXTENDS ReleasePackager

MCPlatforms == <<"linux_amd64", "darwin_arm64">>
=============================================================================
