-------------------------- MODULE MCDockerProvider --------------------------
(***************************************************************************)
(* DockerProvider for TLC: a marker of two equal letters, so that a letter *)
(* on each stream must not be taken for the marker, nor one of them twice. *)
(***************************************************************************)
EXTENDS DockerProvider

MCMarker == <<"a", "a">>

MCChunks == {<<"a">>}

=============================================================================
