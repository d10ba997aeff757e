-------------------------- MODULE MCListingClaims --------------------------
(* ListingClaims for TLC: users, links and requests are interchangeable.    *)
EXTENDS ListingClaims, TLC

Symmetry == Permutations(User) \cup Permutations(Invite) \cup Permutations(Request)
=============================================================================
