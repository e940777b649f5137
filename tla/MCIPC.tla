------------------------------- MODULE MCIPC --------------------------------
(* Small instances of IPC for TLC. *)
EXTENDS IPC

TwoCpus == 0..1
AffNone == {-1}
AffAny  == {-1, 0, 1}
AffOne  == {1}
=============================================================================
