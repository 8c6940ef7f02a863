---------------------------- MODULE MCQemuDevice ----------------------------
(***************************************************************************)
(* QemuDevice for TLC.                                                     *)
(***************************************************************************)
EXTENDS QemuDevice

\* Everything at once; and without the ways in which a request may be dropped.
AllSessions == {{"gap", "pause"}, {"pause", "reset", "crash"}, {"gap", "reset"}}

\* The circuit moves the reset pin and nothing else happens.
ResetSession == {{"reset"}}

=============================================================================
