------------------------------ MODULE NandBoot ------------------------------
(***************************************************************************)
(* The boot loader, src/nandboot/nand_boot_jz4740.c: which pages of the    *)
(* flash reach memory, and what the error correction does to a page.       *)
(* Buffers are functions from 0.  The decoder reports the faulty symbols   *)
(* of a sub-block, numbered from 1, each with the mask of its wrong bits.  *)
(***************************************************************************)
EXTENDS Integers, Sequences, SequencesExt, FiniteSets, Bitwise

-----------------------------------------------------------------------------
(* nand_boot: the geometry, from the boot select pins. *)
ECC_BLOCK == 512
ECC_POS == 6
PAR_SIZE == 9

Geometry(boot_sel) ==
    LET page_size == IF boot_sel = 2 THEN 512 ELSE 2048
        page_per_block == IF page_size = 2048 THEN 64 ELSE 32
    IN  [page_size |-> page_size,
         page_per_block |-> page_per_block,
         bad_block_pos |-> IF page_size = 2048 THEN 0 ELSE 5,
         oob_size |-> page_size \div 32,
         block_size |-> page_size * page_per_block,
         ecc_count |-> page_size \div ECC_BLOCK]

(* The cycles that start a read: nand_read_oob, and nand_read_page. *)
Cycles(page_size, row_cycle, cmd, col_addr, page_addr) ==
    LET byte(a, n) == (a \div 2^(8 * n)) % 256
    IN  <<cmd, byte(col_addr, 0)>>
        \o (IF page_size = 2048 THEN <<byte(col_addr, 1)>> ELSE <<>>)
        \o <<byte(page_addr, 0), byte(page_addr, 1)>>
        \o (IF row_cycle = 3 THEN <<byte(page_addr, 2)>> ELSE <<>>)
        \o (IF page_size = 2048 THEN <<"READSTART">> ELSE <<>>)
nand_read_oob(page_size, row_cycle, page_addr) ==
    IF page_size = 2048 THEN Cycles(page_size, row_cycle, "READ0", 2048, page_addr)
                        ELSE Cycles(page_size, row_cycle, "READOOB", 0, page_addr)
ReadPageData(page_size, row_cycle, page_addr) == Cycles(page_size, row_cycle, "READ0", 0, page_addr)

(* Where nand_read_page takes the parity of sub-block i from. *)
ParityAt(i) == ECC_POS + i * PAR_SIZE .. ECC_POS + i * PAR_SIZE + PAR_SIZE - 1

-----------------------------------------------------------------------------
(* rs_correct: the symbol's nine bits lie in two bytes. *)
rs_correct(buf, idx, mask) ==
    LET whole == (idx * 9) % 8 = 0
        i == (idx * 9) \div 8 - (IF whole THEN 1 ELSE 0)
        j == IF whole THEN 7 ELSE ((idx * 9) % 8) - 1
        d == buf[i] * 256 + buf[i - 1]
        d0 == (d \div 2^j) % 512
        corrected == d + ((d0 ^^ mask) - d0) * 2^j
    IN  [buf EXCEPT ![i - 1] = corrected % 256, ![i] = corrected \div 256]

(* nand_read_page: the sub-blocks come one after the other from the media, *)
(* with what the decoder reports of each: [uncor, faults], the faults a    *)
(* sequence of [idx, mask].  The corrections are made in databuf from the  *)
(* start of the page, whichever sub-block they are for.                    *)
nand_read_page(media, ecc_block, reports) ==
    LET SubBlockRead(databuf, i) ==
            LET read == [k \in DOMAIN databuf |->
                             IF k \div ecc_block = i - 1 THEN media[k] ELSE databuf[k]]
            IN  IF reports[i].uncor THEN read
                ELSE FoldRight(LAMBDA f, buf : rs_correct(buf, f.idx, f.mask), reports[i].faults, read)
    IN  FoldLeft(SubBlockRead, media, [i \in DOMAIN reports |-> i])

-----------------------------------------------------------------------------
(* nand_load: `image' is the pages in memory, each <<block, page>>.  A bad *)
(* block is met at its page 0 only, and then the page loop goes on.        *)
MutPageRead(st, page, bad) == [st EXCEPT !.image = Append(@, <<st.block, page>>)]  \* mutant: no check

PageRead(st, page, bad) ==
    IF page = 0 /\ st.block \in bad
    THEN [st EXCEPT !.block = @ + 1]
    ELSE [st EXCEPT !.image = Append(@, <<st.block, page>>)]

nand_load(offs, size, page_per_block, bad) ==
    LET block_size == page_per_block       \* offs and size count pages
        BlockRead(st, n) ==
            LET read == FoldLeft(LAMBDA s, page : PageRead(s, page, bad), st,
                                 [k \in 1..page_per_block |-> k - 1])
            IN  [read EXCEPT !.block = @ + 1]
    IN  FoldLeft(BlockRead, [block |-> offs \div block_size, image |-> <<>>],
                 [k \in 1 .. size \div block_size |-> k])
=============================================================================
