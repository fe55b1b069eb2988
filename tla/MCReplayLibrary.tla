-------------------------- MODULE MCReplayLibrary --------------------------
(* The files of three recordings, two of them there from the start.          *)
EXTENDS ReplayLibrary

MCRecs == 1..3
MCOpened == {1, 2}
=============================================================================
