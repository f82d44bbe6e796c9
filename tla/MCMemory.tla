------------------------------ MODULE MCMemory ------------------------------
(* Instances of EEMemory: ends of windows, the main stack, an image of one    *)
(* cell, and registers named with and without their top bit.                  *)
EXTENDS EEMemory, TLC

MCAddress == {0, 1, \h1FFFD5, 32 * MB - 1, \h1100BFF, \h1100C01, \h1C1FFFF}
MCRegister == {<<0, 2>>, <<8, 2>>, <<8, 4>>, <<1, 4>>}
MCImage == 1 :> 1
MCValue == {0, 1}
\* No step reads the operation before it.
MCView == cells
=============================================================================
