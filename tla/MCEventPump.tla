---------------------------- MODULE MCEventPump ----------------------------
(* EventPump on small instances.                                           *)
EXTENDS EventPump

=============================================================================
