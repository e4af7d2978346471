-------------------------- MODULE MC_GoodsReceive --------------------------
(* Model-checking instance of GoodsReceive. *)
EXTENDS GoodsReceive, TLC

CONSTANTS g1, g2, g3, b1, b2, b3

R(i, b) == [line |-> i, code |-> b]

(* Two lines; a line without rolls between two others; a barcode listed    *)
(* twice; no roll at all.                                                  *)
SomeBodies ==
  { [rolls |-> <<R(1, b1), R(1, b2), R(2, b3)>>, lines |-> 2],
    [rolls |-> <<R(1, b2), R(3, b1)>>, lines |-> 3],
    [rolls |-> <<R(1, b3), R(1, b3)>>, lines |-> 1],
    [rolls |-> <<>>, lines |-> 1] }
ThreeReceipts == {g1, g2, g3}
ThreeBarcodes == {b1, b2, b3}

(* Receipts and barcodes keep their names: bodies tell them apart.         *)
=============================================================================
