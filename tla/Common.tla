------------------------------- MODULE Common -------------------------------
(* What the services share: nobody and nothing, and the people at the dashboard. *)

CONSTANTS
  None,
  Senders   \* the threads that serve an admin's clicks

=============================================================================
