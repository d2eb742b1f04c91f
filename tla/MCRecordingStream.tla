------------------------- MODULE MCRecordingStream -------------------------
(* RecordingStream with two clients, the queue of the code and enough      *)
(* frames to overflow it twice.                                            *)
EXTENDS RecordingStream

CONSTANTS v1, v2

MCViewers == {v1, v2}

=============================================================================
