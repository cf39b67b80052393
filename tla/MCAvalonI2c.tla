---------------------------- MODULE MCAvalonI2c ----------------------------
(***************************************************************************)
(* The calls of main.c for TLC: read DEVID, set POWER_CTL, read the axes.  *)
(* Register 1 stands for POWER_CTL and 2 for DATAX0; two axis bytes and    *)
(* FIFOs of three entries stand for six and eight: in both the commands of *)
(* a read outnumber the FIFO, and the bytes do not.                        *)
(***************************************************************************)
EXTENDS AvalonI2cProofs

ReadDevid == [tx |-> <<0>>, rx |-> 1]
SetPower  == [tx |-> <<1, 8>>, rx |-> 0]
ReadAxes  == [tx |-> <<2>>, rx |-> 2]

ApplicationCalls == {ReadDevid, SetPower, ReadAxes}
InterruptCalls == {SetPower, ReadAxes}
=============================================================================
