----------------------------- MODULE MCMailTasks -----------------------------
(* MailTasks on a small instance. *)
EXTENDS MailTasks
==============================================================================
