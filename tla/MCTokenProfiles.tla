-------------------------- MODULE MCTokenProfiles --------------------------
(* TokenProfiles on three FN-DSA profiles and one classical one. *)
EXTENDS TokenProfiles

MCProfiles == {"FN-DSA-512", "FN-DSA-Precomputed-512", "Falcon-Precomputed-512", "HS256"}
MCFnDsa == MCProfiles \ {"HS256"}
MCPrecomputed == {"FN-DSA-Precomputed-512", "Falcon-Precomputed-512"}
=============================================================================
