-------------------------- MODULE MCReleaseRegistry --------------------------
(* Small instances of ReleaseRegistry for TLC.                             *)
EXTENDS ReleaseRegistry, TLC

\* Only identity matters for releases and clients.
InterchangeableReleases == Permutations(Release)
Interchangeable == InterchangeableReleases \cup Permutations(Client)
=============================================================================
