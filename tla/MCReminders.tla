---------------------------- MODULE MCReminders ----------------------------
(***************************************************************************)
(* Reminders on small instances.                                            *)
(***************************************************************************)
EXTENDS Reminders
=============================================================================
