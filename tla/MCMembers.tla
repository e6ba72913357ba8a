------------------------------ MODULE MCMembers ------------------------------
EXTENDS Members, TLC

(* Peer connections and transceivers are interchangeable here.          *)
Symmetry == Permutations(Pcs) \cup Permutations(Transceivers)
============================================================================
