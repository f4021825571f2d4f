----------------------------- MODULE MCBodyArchive -----------------------------
(* Small instances of BodyArchive for TLC. *)
EXTENDS BodyArchive, TLC

MCOneDay == [e \in Events |-> 1]

\* Inodes are interchangeable.
Interchangeable == Permutations(Inodes)
=============================================================================
