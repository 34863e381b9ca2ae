----------------------------- MODULE MCContentFile -----------------------------
(* Small data for ContentFile: one, two and three bytes, so that a write
   covers part of a block, a whole one and the seam of two; and every
   beginning of one of them, which is what WriteWithin may write. *)
EXTENDS ContentFile

MCData == {<<1>>, <<1, 0>>, <<1, 0, 1>>}
===============================================================================
