--------------------------- MODULE MCHdmiConfig ---------------------------
(* Instances of HdmiConfig for TLC: two-bit bytes, a table of three        *)
(* entries.                                                                *)
EXTENDS HdmiConfigInv, TLC

Entry(r, v) == [register |-> r, value |-> v]

MCDeviceAddress == <<0, 1>>

(* Three registers, three different values. *)
MCDistinct == 0 :> Entry(<<0, 0>>, <<1, 1>>) @@ 1 :> Entry(<<0, 1>>, <<1, 0>>) @@
              2 :> Entry(<<1, 1>>, <<0, 1>>)

(* A later entry may write a register again. *)
MCRepeated == 0 :> Entry(<<0, 0>>, <<1, 1>>) @@ 1 :> Entry(<<0, 1>>, <<1, 0>>) @@
              2 :> Entry(<<0, 1>>, <<0, 1>>)
=============================================================================
