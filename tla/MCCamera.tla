------------------------------ MODULE MCCamera ------------------------------
(* CameraManager for TLC.                                                   *)
EXTENDS CameraProperties, TLC

BufferSymmetry == Permutations(Buffers)
=============================================================================
