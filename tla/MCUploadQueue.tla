--------------------------- MODULE MCUploadQueue ---------------------------
(* UploadQueue for TLC: every artifact goes to the same content-addressed object. *)
EXTENDS UploadQueue, TLC

SameDest == [a \in Artifacts |-> "sha256"]
Alike == Permutations(Artifacts)

=============================================================================
