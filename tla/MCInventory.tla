---------------------------- MODULE MCInventory ----------------------------
(* Small instances of Inventory. *)
EXTENDS Inventory, TLC

\* Two bags whose ways begin at the same entry of a table of three.
MCProbe == [b \in BagIds |-> IF b = CHOOSE c \in BagIds : TRUE THEN <<1, 0, 1, 2>>
                                                               ELSE <<1, 1, 2, 0>>]

MCSymmetry == Permutations(Objects)
=============================================================================
