---------------------------- MODULE MCCameraUse ----------------------------
EXTENDS CameraUse, TLC
CONSTANTS c1, c2
MCClients == {c1, c2}
MCSymmetry == Permutations(MCClients)
============================================================================
