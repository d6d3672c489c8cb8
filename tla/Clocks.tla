------------------------------- MODULE Clocks -------------------------------
(***************************************************************************)
(* The arithmetic of the clock, memory and timer set-up: what the boot     *)
(* loader writes to the registers of the clock, the memory controller and  *)
(* the UART (nandboot/jz4740.c, jz_serial.c), what the kernel's port makes *)
(* of them (clock.c, timer.c), and the divisor of the tick.  Frequencies   *)
(* are in kHz where the code has Hz: every constant is a multiple of 1000. *)
(* A register is a record of its fields, each cut to its width.            *)
(***************************************************************************)
EXTENDS Integers, Sequences

Least(a, b) == IF a < b THEN a ELSE b
Greatest(a, b) == IF a > b THEN a ELSE b

(* The divisors the field values stand for, and the table that inverts it. *)
FR2n == <<1, 2, 3, 4, 6, 8, 12, 16, 24, 32>>
DivOf(field) == FR2n[field + 1]
n2FR(div) == CASE div = 1 -> 0 [] div = 2 -> 1 [] div = 3 -> 2 [] div = 4 -> 3 [] div = 6 -> 4
               [] div = 8 -> 5 [] div = 12 -> 6 [] div = 16 -> 7 [] div = 24 -> 8 [] div = 32 -> 9
               [] OTHER -> 0

MutPllInit(speed, extal, div) ==      \* mutant: NF itself in the field of FD
    [cdiv |-> n2FR(div[1]), hdiv |-> n2FR(div[2]), pdiv |-> n2FR(div[3]), mdiv |-> n2FR(div[4]),
     uhc |-> (speed \div 2) \div 48000 - 1,
     pllm |-> ((speed * 2) \div extal) % 2^9, plln |-> 0, pllod |-> 0, pllen |-> TRUE]

(* pll_init, for the divisors div of I:S:P:M. *)
pll_init(speed, extal, div) ==
    [cdiv |-> n2FR(div[1]), hdiv |-> n2FR(div[2]), pdiv |-> n2FR(div[3]), mdiv |-> n2FR(div[4]),
     uhc |-> (speed \div 2) \div 48000 - 1,
     pllm |-> ((speed * 2) \div extal - 2) % 2^9, plln |-> 0, pllod |-> 0, pllen |-> TRUE]

(* jz4740.h: the clocks that the registers make. *)
__cpm_get_pllout(cpm, extal) ==
    IF cpm.pllen THEN (extal \div ((cpm.plln + 2) * <<1, 2, 2, 4>>[cpm.pllod + 1])) * (cpm.pllm + 2)
    ELSE extal
__cpm_get_cclk(cpm, extal) == __cpm_get_pllout(cpm, extal) \div DivOf(cpm.cdiv)
__cpm_get_mclk(cpm, extal) == __cpm_get_pllout(cpm, extal) \div DivOf(cpm.mdiv)

(* detect_clock leaves this in iclk; the loop of udelay runs so often. *)
detect_clock(cpm, extal) == (((cpm.pllm + 2) * extal) \div (cpm.plln + 2)) \div DivOf(cpm.cdiv)
udelay(usec, iclk) == usec * (iclk \div 2000)

(* sdram_init: ram holds the SDRAM_ timings in ns.  DMCR's fields, RTCOR, and the
   iterations of each of the two waits. *)
sdram_init(speed, cpm, ram) ==
    LET mem_clk == (speed * DivOf(cpm.cdiv)) \div DivOf(cpm.mdiv)
        ns == 1000000 \div mem_clk
    IN  [tras |-> Least(Greatest(ram.tras \div ns, 4), 11) - 4,
         rcd |-> Least(ram.rcd \div ns, 3),
         tpc |-> Least(ram.tpc \div ns, 7),
         trwl |-> Least(ram.trwl \div ns, 3),
         trc |-> (Least((ram.tras + ram.tpc) \div ns, 14) + 1) \div 2,
         rtcor |-> Least((ram.tref \div ns) \div 64 + 1, 255),
         wait |-> (speed \div 1000) * 1000]

(* serial_setbrg: the bytes of DLHR and DLLR, and the divisor they make.   *)
serial_setbrg(extal, baud) ==
    LET baud_div == ((extal * 1000) \div 16) \div baud
    IN  [dlhr |-> (baud_div \div 256) % 256, dllr |-> baud_div % 256]

(* JZ_StartTicker: the counter's clock is a quarter of EXTAL, and TDFR is 16 bits
   wide (REG16). *)
latch(extal, tps) == ((extal * 1000) \div 4 + tps \div 2) \div tps
JZ_StartTicker(extal, tps) == latch(extal, tps) % 2^16
=============================================================================
