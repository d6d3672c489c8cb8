------------------------------ MODULE Startup ------------------------------
(***************************************************************************)
(* Sequential code of the port, src/arch/mips/jz4740: the loops of start.S,*)
(* which run their delay slot before the branch is taken, the cache range  *)
(* of cache.c, JZ_DiffTimer and what serial_putc sends.  Addresses count   *)
(* words of Line to a cache line and wrap at AddrSpace.                    *)
(***************************************************************************)
EXTENDS Integers, Sequences, SequencesExt

CONSTANTS Line, CacheSize, AddrSpace, MicroPerSecond
ASSUME CacheAssumption ==
    /\ Line \in Nat \ {0}
    /\ CacheSize % Line = 0 /\ AddrSpace % CacheSize = 0
    /\ CacheSize \in Nat \ {0} /\ AddrSpace \in Nat \ {0} /\ MicroPerSecond \in Nat \ {0}

(* A loop that acts at t0, compares it with t1, and adds in the slot: the  *)
(* addresses it acts at, t1 among them.                                    *)
Loop(t0, t1, step) == {a \in t0..t1 : (a - t0) % step = 0}

(* The cache lines whose tags _init_cache_loop stores: the index is the    *)
(* address modulo the cache.                                               *)
_init_cache_loop == {(a % CacheSize) \div Line : a \in Loop(0, CacheSize, Line)}
_bss_loop(fbss, end) == Loop(fbss, end, 1)

(* dma_cache_wback_inv: the lines flushed, by their address. *)
LineOf(a) == a - (a % Line)
MutDmaCacheWbackInv(addr, size) ==            \* mutant: the end rounded without the - 1
    IF size >= CacheSize THEN {a \in 0 .. AddrSpace - 1 : a % Line = 0}
    ELSE LET a == LineOf(addr)
             end == LineOf((addr + size) % AddrSpace)
             n == ((end - a) % AddrSpace) \div Line
         IN  {(a + k * Line) % AddrSpace : k \in 0..n}

dma_cache_wback_inv(addr, size) ==
    IF size >= CacheSize THEN {a \in 0 .. AddrSpace - 1 : a % Line = 0}   \* every line there is
    ELSE LET a == LineOf(addr)
             end == LineOf((addr + size - 1) % AddrSpace)
             n == ((end - a) % AddrSpace) \div Line
         IN  {(a + k * Line) % AddrSpace : k \in 0..n}

(* JZ_DiffTimer: a time is <<microseconds, seconds>>. *)
JZ_DiffTimer(tm1, tm2) ==
    IF tm1[1] > tm2[1]
    THEN <<tm1[1] - tm2[1], tm1[2] - tm2[2]>>
    ELSE <<MicroPerSecond + tm1[1] - tm2[1], tm1[2] - tm2[2] - 1>>

(* serial_putc puts a CR before a LF of its own. *)
serial_putc(c) == IF c = "LF" THEN <<"CR", "LF">> ELSE <<c>>
=============================================================================
