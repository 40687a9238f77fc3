----------------------------- MODULE MCIBKRRuns ----------------------------
(***************************************************************************)
(* Values for the constants of IBKRRuns that a cfg cannot write.           *)
(***************************************************************************)
EXTENDS IBKRRuns

OneEach == <<1, 1>>

\* Some of one name, of the other, or of both.
Rotations == {<<0, 0>>, <<2, 0>>, <<0, 2>>, <<1, 1>>}
=============================================================================
