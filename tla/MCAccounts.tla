----------------------------- MODULE MCAccounts -----------------------------
(* Overlapping sign-ins, registrations and deletions from one address. *)
EXTENDS Accounts, TLC

Symmetry == Permutations(Emails) \cup Permutations(Requests)
              \cup Permutations(UserIds) \cup Permutations(Tokens)

=============================================================================
