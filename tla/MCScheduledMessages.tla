------------------------ MODULE MCScheduledMessages ------------------------
(* Small instances of the scheduler. *)
EXTENDS ScheduledMessages

MCDues == 0..(MaxTime + 1)
=============================================================================
