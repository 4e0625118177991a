---------------------------- MODULE MCWebClient -----------------------------
(* One browser, two users, few tasks and few disturbances. *)
EXTENDS WebClient

=============================================================================
