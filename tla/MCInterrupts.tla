---------------------------- MODULE MCInterrupts ----------------------------
(***************************************************************************)
(* Model values for Interrupts: UART0, whose line is below that of the DMA *)
(* channels, TCU0, two channels, and two pins of one GPIO group; both      *)
(* drivers want the higher pin.                                            *)
(***************************************************************************)
EXTENDS Interrupts, TLC

CONSTANTS d1, d2

MCUses == (d1 :> {9, 32, 49}) @@ (d2 :> {23, 33, 48, 49})
MCCalls == (d1 :> 3) @@ (d2 :> 1)
=============================================================================
