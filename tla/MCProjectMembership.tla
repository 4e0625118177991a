------------------------ MODULE MCProjectMembership ------------------------
(* Concurrent requests and account deletions on a few projects. *)
EXTENDS ProjectMembership, TLC

Symmetry == Permutations(Users) \cup Permutations(Projects) \cup Permutations(Tasks)
              \cup Permutations(Requests)

=============================================================================
