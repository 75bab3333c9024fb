---------------------------- MODULE MCSampleRing ----------------------------
(* Instances of SampleRing for TLC.                                        *)
EXTENDS SampleRing
=============================================================================
