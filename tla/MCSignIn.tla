------------------------------ MODULE MCSignIn ------------------------------
(* SignIn for TLC: people, logins and requests are interchangeable.         *)
EXTENDS SignIn, TLC

Symmetry == Permutations(User) \cup Permutations(Device) \cup Permutations(Request)
=============================================================================
