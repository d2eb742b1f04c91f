-------------------------- MODULE MCCameraRecording --------------------------
(* CameraRecording with one API thread beside the loop: two handlers, each *)
(* of which can be overtaken by the other between two calls.               *)
EXTENDS CameraRecording

CONSTANTS api, main

MCThreads == {api}

=============================================================================
