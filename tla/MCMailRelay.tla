---------------------------- MODULE MCMailRelay ----------------------------
(* Two relays, a refused address and the deletion of recipients. *)
EXTENDS MailRelay

=============================================================================
