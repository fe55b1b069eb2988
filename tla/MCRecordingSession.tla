------------------------ MODULE MCRecordingSession ------------------------
(* Model checking of RecordingSession: the bounds.                           *)
EXTENDS RecordingSession

MCTwoGames == 2

=============================================================================
