--------------------------- MODULE MCLowappConfig ---------------------------
(* Keys of two bytes: one that is whole and one that ends with 0. *)
EXTENDS LowappConfig

MCEncKeys == {<<7, 9>>}
=============================================================================
