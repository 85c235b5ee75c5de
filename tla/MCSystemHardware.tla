-------------------------- MODULE MCSystemHardware --------------------------
(* The two threads of the controller manager, and one bus with two joints. *)
EXTENDS SystemHardware

CONSTANTS cm, update, j1, j2

MCReaders == {cm, update}
MCJoints  == {j1, j2}
=============================================================================
