---------------------------- MODULE MCConversion ----------------------------
EXTENDS Conversion

(* TLC's integers have 32 bits: the two widest types are narrower here. *)
Widths == [w \in {8, 16, 32, 64} |->
             CASE w = 8 -> 8 [] w = 16 -> 16 [] w = 32 -> 18 [] w = 64 -> 20]

(* A double that is too wide becomes the least or the largest number of its type, by
   processor (in an int 0 or -1); no property tells the numbers between them apart. *)
SomeCasts == {0, 2 ^ Widths[64] - 1}
=============================================================================
