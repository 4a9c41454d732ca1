---------------------------- MODULE MCDescriptors ----------------------------
(* Sessions are interchangeable for TLC. *)
EXTENDS Descriptors, TLC

Symmetry == Permutations(Session)
=============================================================================
