------------------------------ MODULE Library ------------------------------
(***************************************************************************)
(* The sequential code of the system, called on every input of small sets: *)
(* the C library, the shell's line editor and command loop, the boot       *)
(* loader, and the sequential code of the port.  One action per call; fn   *)
(* is the function called last, arg its arguments and res its result.      *)
(* strtok, and the editor, go on from the result of the call before.       *)
(***************************************************************************)
EXTENDS Shell, NandBoot, Startup, Clocks

CONSTANTS Flags, Widths, Precs, Values,  \* of the directives printf is given
          Texts, Delimiters,             \* strings, and the set strtok cuts at
          Numerals,                      \* strings for strtoul
          Words, Keys, MaxKeys, BufSize,        \* lines and keys typed at the shell, length of buf
          Blocks, PagesPerBlock,         \* of the flash
          Bytes, Masks,                  \* contents of two sub-blocks, masks of wrong symbols
          Speeds, Extal, Divisors, Rams, Bauds, TickRates   \* of the board: kHz, ns, per second

VARIABLES fn, arg, res
vars == <<fn, arg, res>>

Call(f, a, r) == fn' = f /\ arg' = a /\ res' = r

Init == fn = "idle" /\ arg = <<>> /\ res = <<>>

(* printf, one directive at a time, and literal text.  A width and a       *)
(* precision are [text, value], the value what a `*' finds as argument.    *)
Format(flags, width, prec) == SetToSeq(flags) \o width.text \o prec.text
Stars(width, prec) == (IF Contains(width.text, "*") THEN <<width.value>> ELSE <<>>)
                   \o (IF Contains(prec.text, "*") THEN <<prec.value>> ELSE <<>>)
PrintfNumber ==
    \E flags \in SUBSET Flags, width \in Widths, prec \in Precs,
       conv \in {"d", "u", "o", "x", "p"}, u \in Values :
        LET d == Directive(Format(flags, width, prec), conv, Stars(width, prec))
        IN  Call("printf number", [flags |-> flags, width |-> width.value, prec |-> prec.value,
                                   conv |-> conv, u |-> u], PrintNumber(d, u))
PrintfString ==
    \E flags \in SUBSET {"-", "0", "+"}, width \in Widths, prec \in Precs,
       conv \in {"c", "s"}, s \in Texts :
        LET d == Directive(Format(flags, width, prec), conv, Stars(width, prec))
        IN  /\ conv = "c" => Len(s) = 1
            /\ Call("printf string", [flags |-> flags, width |-> width.value, prec |-> prec.value,
                                      conv |-> conv, s |-> s], PrintString(d, s))
PrintfLiteral == \E s \in BoundedSeq({"a", "LF"}, 3) :
    Call("printf literal", s, [PrintLiteral(s) EXCEPT
         !.out = FlattenSeq([i \in DOMAIN @ |-> serial_putc(@[i])])])

(* Memory is two strings and a buffer, or the letters of the alphabet. *)
Compare == \E s, t \in Texts :
    Call("strcmp", <<s, t>>, strcmp(s \o <<Nul>> \o t \o <<Nul>>, 1, Len(s) + 2))
Copy == \E dest, src \in 1..6, cnt \in 0..5 :
    LET mem == SubSeq(Alphabet, 1, 12)
    IN  Call("memcpy", [mem |-> mem, dest |-> dest, src |-> src, cnt |-> cnt],
             memcpy(mem, dest, src, cnt))
Fill == \E s \in 1..4, len \in 0..4 :
    LET mem == SubSeq(Alphabet, 1, 8)
    IN  Call("memset", [mem |-> mem, dest |-> s, cnt |-> len], memset(mem, s, "z", len))
Find == \E s \in Texts, c \in {"a", Nul} :
    Call("memchr", [s |-> s, c |-> c], memchr(s \o <<Nul>>, 1, c, Len(s) + 1))

(* strtok on a string, then with NULL until it returns NULL. *)
FirstToken == \E s \in BoundedSeq({"a"} \cup Delimiters, 6) :
    LET r == strtok(s \o <<Nul>>, 0, 1, Delimiters)
    IN  Call("strtok", s, [last |-> r, tokens |->
             IF r.token = 0 THEN <<>> ELSE <<StringAt(r.mem, r.token)>>])
NextToken ==
    /\ fn = "strtok" /\ res.last.token # 0
    /\ LET r == strtok(res.last.mem, res.last.kept, 0, Delimiters)
       IN  res' = [last |-> r, tokens |->
                   IF r.token = 0 THEN res.tokens ELSE Append(res.tokens, StringAt(r.mem, r.token))]
    /\ UNCHANGED <<fn, arg>>

ParseNumber == \E s \in Numerals : Call("strtoul", s, strtoul(s))
PutsHex == \E u \in Values : Call("serial_puts_hex", u, serial_puts_hex(u))

(* The shell: a line is typed key by key, then run; the next one is typed  *)
(* over what the first left in buf.                                        *)
Prompt(mem) == [mem |-> mem, s |-> 1, cnt |-> 0, sent |-> <<>>]
OpenShell ==         \* buf is cleared; behind it lies the stack of shell_thread_func
    LET stack == Repeat(Nul, BufSize) \o Repeat("z", MaxKeys + 1 - BufSize)
    IN  Call("gets", <<>>, [con |-> Prompt(stack), lines |-> 0, ran |-> <<>>])
TypeKey == \E c \in Keys :
    /\ fn = "gets" /\ Len(arg) < MaxKeys
    /\ arg' = Append(arg, c)
    /\ res' = [res EXCEPT !.con = KeyTyped(@, c)]
    /\ UNCHANGED fn
Return ==
    /\ fn = "gets"
    /\ fn' = "shell"
    /\ LET con == LineEnded(res.con)
       IN  res' = [res EXCEPT !.con = con, !.ran = shell_thread_func(con.mem, 1)]
    /\ UNCHANGED arg
NextLine ==
    /\ fn = "shell" /\ res.lines = 0
    /\ fn' = "gets" /\ arg' = <<>>
    /\ res' = [con |-> Prompt(res.con.mem), lines |-> 1, ran |-> <<>>]

RunWord == \E word \in Words, old \in Texts :      \* a whole line, over an older one
    Call("shell word", word, shell_thread_func(word \o <<Nul>> \o old \o <<Nul>>, 1))

(* The boot loader. *)
LoadImage == \E first, n \in 0..Blocks, bad \in SUBSET (0 .. Blocks + 2), rest \in {0, 1} :
    LET offs == first * PagesPerBlock  size == n * PagesPerBlock + rest
    IN  Call("nand_load", [first |-> first, size |-> size, bad |-> bad],
             nand_load(offs, size, PagesPerBlock, bad))
Fault == [idx : 1..3, mask : Masks]
Reports == {[uncor |-> TRUE, faults |-> <<>>], [uncor |-> FALSE, faults |-> <<>>]}
    \cup {[uncor |-> FALSE, faults |-> <<f>>] : f \in Fault}
    \cup {[uncor |-> FALSE, faults |-> <<f, g>>] : f \in {x \in Fault : x.idx < 3}, g \in {x \in Fault : x.idx = 3}}

(* External: what the flash returns, with the wrong bits of a sub-block.   *)
Bit(n, k) == (n \div 2^k) % 2
Flipped(buf, at, f) ==
    [k \in DOMAIN buf |-> buf[k] + FoldLeft(LAMBDA sum, b :
        LET m == 8 * (k - at) + b - 9 * (f.idx - 1)
        IN  IF m \in 0..8 /\ Bit(f.mask, m) = 1
            THEN sum + (IF Bit(buf[k], b) = 1 THEN - 2^b ELSE 2^b) ELSE sum,
        0, <<0, 1, 2, 3, 4, 5, 6, 7>>)]
Wrong(buf, at, report) == FoldLeft(LAMBDA b, f : Flipped(b, at, f), buf, report.faults)

Correct == \E buf \in [0..3 -> Bytes], idx \in 1..3, mask \in Masks :
    Call("rs_correct", [buf |-> buf, idx |-> idx, mask |-> mask], rs_correct(buf, idx, mask))
ReadPage == \E b \in Bytes, first \in Reports, second \in Reports :
    LET stored == [k \in 0..8 |-> (b + k) % 256]      \* two sub-blocks of 4, and what follows
        media == Wrong(Wrong(stored, 0, first), 4, second)
    IN  Call("nand_read_page", [stored |-> stored, first |-> first, second |-> second],
             nand_read_page(media, 4, <<first, second>>))
Configure == \E pins \in 0..3 : Call("geometry", pins, Geometry(pins))
ReadCycles == \E page_size \in {512, 2048}, row_cycle \in {2, 3}, page \in {0, 127, 128, 4607, 65535, 65536} :
    Call("nand_read", [page_size |-> page_size, row_cycle |-> row_cycle, page |-> page],
         [oob |-> nand_read_oob(page_size, row_cycle, page),
          data |-> ReadPageData(page_size, row_cycle, page)])

(* The port. *)
Start == \E fbss \in 0..3, size \in 0..8 :
    Call("start", <<fbss, size>>, [tags |-> _init_cache_loop, bss |-> _bss_loop(fbss, fbss + size)])
FlushRange == \E addr \in 0 .. AddrSpace - 1, size \in 0..CacheSize :
    Call("dma_cache_wback_inv", [addr |-> addr, size |-> size], dma_cache_wback_inv(addr, size))
DiffTimer == \E us1, us2 \in 0 .. MicroPerSecond - 1, s1, s2 \in 0..2 :
    Call("JZ_DiffTimer", <<<<us1, s1>>, <<us2, s2>>>>, JZ_DiffTimer(<<us1, s1>>, <<us2, s2>>))

(* The clocks: what the boot loader sets up, and what the kernel then finds. *)
SetClocks == \E speed \in Speeds, div \in Divisors, ram \in Rams, usec \in {1, 2, 1000} :
    LET cpm == pll_init(speed, Extal, div)
        iclk == detect_clock(cpm, Extal)
    IN  Call("clocks", [speed |-> speed, div |-> div, ram |-> ram, usec |-> usec],
             [cpm |-> cpm, ram |-> sdram_init(speed, cpm, ram), iclk |-> iclk, loops |-> udelay(usec, iclk)])
SetBaud == \E baud \in Bauds : Call("serial_setbrg", baud, serial_setbrg(Extal, baud))
StartTicker == \E tps \in TickRates : Call("JZ_StartTicker", tps, JZ_StartTicker(Extal, tps))

FirstCall ==
    /\ fn = "idle"
    /\ \/ PrintfNumber \/ PrintfString \/ PrintfLiteral
       \/ Compare \/ Copy \/ Fill \/ Find \/ FirstToken
       \/ ParseNumber \/ PutsHex \/ OpenShell \/ RunWord
       \/ LoadImage \/ Correct \/ ReadPage \/ Configure \/ ReadCycles
       \/ Start \/ FlushRange \/ DiffTimer
       \/ SetClocks \/ SetBaud \/ StartTicker
Next == FirstCall \/ NextToken \/ TypeKey \/ Return \/ NextLine

Spec == Init /\ [][Next]_vars

-----------------------------------------------------------------------------
(* What printf puts on the line is a number that reads back as the value,  *)
(* in a field of the width that was asked for: blanks on one side only,    *)
(* zeros only between the sign and the digits, and the count printf        *)
(* returns is what it printed (_doprntx).  The precision counts the sign   *)
(* and the prefix too, and `h' extends the sign of an unsigned argument    *)
(* as well: that is what the code does.                                    *)
Value(b, s) == FoldLeft(LAMBDA n, c : b * n + Digit(c), 0, s)
Meant(d, u) ==
    LET bits == IF "h" \in d.flags /\ d.conv # "p" THEN ShortBits ELSE WordBits
        v == CHOOSE n \in - 2^(bits - 1) .. 2^(bits - 1) - 1 : (u - n) % 2^bits = 0
    IN  IF d.conv = "d" \/ v >= 0 THEN v ELSE v + 2^WordBits
NumberField(d, u, out) ==
    LET v == Meant(d, u)
        left == "-" \in d.flags \/ d.width < 0
        width == IF d.width < 0 THEN - d.width ELSE d.width
        sign == IF v < 0 THEN <<"-">>
                ELSE IF d.conv = "d" /\ "+" \in d.flags THEN <<"+">>
                ELSE IF d.conv = "d" /\ " " \in d.flags THEN <<" ">> ELSE <<>>
        prefix == IF "#" \in d.flags /\ d.conv = "x" /\ v # 0 THEN <<"0", "x">> ELSE <<>>
        front == sign \o prefix
    IN  \E blanks \in 0 .. Len(out), size \in 0 .. Len(out) :
            LET digits == SubSeq(out, blanks + Len(front) + 1, blanks + size)
                trail == Len(out) - blanks - size
                spare == digits # <<>> /\ Head(digits) = "0" /\ Len(digits) > 1
            IN  /\ blanks + size <= Len(out) /\ Len(front) <= size
                /\ SubSeq(out, 1, blanks) = Repeat(" ", blanks)
                /\ SubSeq(out, blanks + 1, blanks + Len(front)) = front
                /\ SubSeq(out, blanks + size + 1, Len(out)) = Repeat(" ", trail)
                /\ \A i \in DOMAIN digits : Digit(digits[i]) < base(d)
                /\ Value(base(d), digits) = IF v < 0 THEN - v ELSE v
                /\ digits = <<>> => v = 0 /\ d.prec = 0
                /\ blanks > 0 => ~ left /\ Len(out) = width
                /\ trail > 0 => left /\ Len(out) = width
                /\ Len(out) >= width
                /\ size >= d.prec
                /\ spare => \/ size = d.prec
                            \/ size = width /\ "0" \in d.flags /\ ~ left /\ d.prec < 0
                            \/ d.conv = "o" /\ "#" \in d.flags /\ digits[2] # "0"
PrintfRight ==
    /\ fn \in {"printf number", "printf string"} => res.cnt = Len(res.out)
    /\ fn = "printf number" => NumberField(arg, arg.u, res.out)
    /\ fn = "printf string" =>
           \E k \in 0 .. Len(res.out), n \in 0 .. Len(arg.s) :
               LET pad == Len(res.out) - n  c == IF "0" \in arg.flags THEN "0" ELSE " "
                   left == "-" \in arg.flags \/ arg.width < 0
               IN  /\ res.out = (IF left THEN SubSeq(arg.s, 1, n) \o Repeat(" ", pad)
                                         ELSE Repeat(c, pad) \o SubSeq(arg.s, 1, n))
                   /\ n = Len(arg.s) \/ (arg.conv = "s" /\ n = arg.prec)
                   /\ pad > 0 => Len(res.out) \in {arg.width, - arg.width}
    /\ fn = "printf literal" =>      \* the driver sends one more CR for a LF
           res.cnt = Len(res.out) - Len(SelectSeq(arg, LAMBDA c : c = "LF"))

Runs(s) ==
    LET first == {i \in DOMAIN s : s[i] \notin Delimiters /\ (i = 1 \/ s[i - 1] \in Delimiters)}
        run(i) == SubSeq(s, i, CHOOSE j \in i .. Len(s) :
                      /\ \A k \in i..j : s[k] \notin Delimiters
                      /\ j = Len(s) \/ s[j + 1] \in Delimiters)
    IN  [n \in 1 .. Cardinality(first) |-> run(SetToSortSeq(first, <)[n])]
(* strcmp orders strings as their first difference does and is 0 for equal *)
(* ones only; memcpy is exact unless the target overlaps the source from   *)
(* above, where it repeats the source's start; memset and memcpy touch no  *)
(* more than they are told to; memchr finds the first.  The calls of strtok *)
(* return the tokens of the string, the longest runs without a delimiter,  *)
(* each once and in order, and the last call finds none; what is still to  *)
(* be cut is unchanged (___strtok).                                        *)
StringsRight ==
    /\ fn = "strcmp" =>
           LET s == arg[1]  t == arg[2]
               below(x, y) == \/ IsStrictPrefix(x, y)
                              \/ \E i \in DOMAIN x \cap DOMAIN y :
                                     /\ SubSeq(x, 1, i - 1) = SubSeq(y, 1, i - 1)
                                     /\ Code(x[i]) < Code(y[i])
           IN  (res = 0 <=> s = t) /\ (res < 0 <=> below(s, t)) /\ (res > 0 <=> below(t, s))
    /\ fn = "memcpy" =>
           \A i \in DOMAIN arg.mem :
               LET k == i - arg.dest
                   up == arg.src < arg.dest
               IN  res[i] = IF k \notin 0 .. arg.cnt - 1 THEN arg.mem[i]
                            ELSE arg.mem[arg.src + (IF up THEN k % (arg.dest - arg.src) ELSE k)]
    /\ fn = "memset" =>
           \A i \in DOMAIN arg.mem :
               IF i >= arg.dest /\ i < arg.dest + arg.cnt THEN res[i] = "z" ELSE res[i] = arg.mem[i]
    /\ fn = "memchr" =>
           LET mem == arg.s \o <<Nul>>
           IN  IF res = 0 THEN ~ Contains(mem, arg.c)
               ELSE mem[res] = arg.c /\ ~ Contains(SubSeq(mem, 1, res - 1), arg.c)
    /\ fn = "strtok" =>
           /\ IsPrefix(res.tokens, Runs(arg))
           /\ res.last.token = 0 => res.tokens = Runs(arg) /\ res.last.kept = 0
           /\ res.last.kept # 0 => SubSeq(res.last.mem, res.last.kept, Len(arg))
                                       = SubSeq(arg, res.last.kept, Len(arg))

(* strtoul reads back what printf prints with %u and %#x, modulo the word; *)
(* one character that is no digit of the base makes all of it 0; and what  *)
(* serial_puts_hex prints reads back too.                                  *)
NumbersRight ==
    /\ fn = "printf number" =>
           (arg.conv \in {"u", "x"} /\ arg.width = 0 /\ arg.prec < 0 /\ "h" \notin arg.flags
                /\ (arg.conv = "x" <=> "#" \in arg.flags)
              => strtoul(res.out) = arg.u)
    /\ fn = "strtoul" =>
           LET hex == Len(arg) > 1 /\ SubSeq(arg, 1, 2) = <<"0", "x">>
               oct == Len(arg) > 1 /\ SubSeq(arg, 1, 2) = <<"0", "o">>
               b == IF hex THEN 16 ELSE IF oct THEN 8 ELSE 10
               n == IF hex \/ oct THEN 2 ELSE 0
               place(i) == b^(Len(arg) - i)
               digit == [i \in DOMAIN arg |-> IF i <= n THEN 0 ELSE Digit(arg[i])]
           IN  res = IF \E i \in DOMAIN arg : digit[i] >= b THEN 0
                     ELSE FoldLeft(LAMBDA sum, i : sum + digit[i] * place(i), 0,
                                   [i \in DOMAIN arg |-> i]) % 2^WordBits
    /\ fn = "serial_puts_hex" => strtoul(<<"0", "x">> \o res) = arg

(* The line in buf, the length gets returns and what the terminal shows    *)
(* are the same line: the keys typed without those that were erased.  The  *)
(* command that runs is the line's, whatever an earlier line left in buf.  *)
(* gets stays within buf exactly when the line was never as long as buf.   *)
Edited(keys) ==
    FoldLeft(LAMBDA line, c : IF c # BS THEN Append(line, c)
                              ELSE IF line = <<>> THEN line ELSE Front(line), <<>>, keys)
Shown(sent) ==     \* the cells of the terminal, and where its cursor is
    FoldLeft(LAMBDA t, c :
                 IF c = BS THEN [t EXCEPT !.col = @ - 1]
                 ELSE [cells |-> [t.cells EXCEPT ![t.col] = c], col |-> t.col + 1],
             [cells |-> Repeat(" ", MaxKeys), col |-> 1], sent)
Commands == << <<>>, <<"s", "t", "a", "t">>, <<"p", "s">>, <<"h", "e", "l", "p">>,
               <<"c", "l", "e", "a", "r">>, <<"h", "e", "l", "l", "o">> >>
Ran(line) ==
    LET called == {c \in DOMAIN Commands : Commands[c] = line}
    IN  CASE called = {1} -> <<>>
          [] called = {2} -> <<"resume stat_tid", "delay">>
          [] called = {3} -> <<"resume info_tid", "delay">>
          [] called = {4} -> <<"print_help_msg">>
          [] called = {5} -> <<"clear">>
          [] called = {6} -> <<"resume hello_tid", "resume hello2_tid", "delay">>
          [] OTHER -> <<"command not found">>
LineRight ==
  /\ fn = "shell word" => res = Ran(arg)
  /\ fn \in {"gets", "shell"} =>
        LET line == Edited(arg)  con == res.con  shown == Shown(con.sent)
        IN  /\ con.cnt = Len(line) /\ SubSeq(con.mem, 1, Len(line)) = line
            /\ shown.cells = line \o Repeat(" ", MaxKeys - Len(line)) /\ shown.col = Len(line) + 1
            /\ fn = "shell" =>
                   /\ StringAt(con.mem, 1) = line
                   /\ res.ran = Ran(line)
                   /\ res.lines = 0 =>
                          ((\A k \in 0 .. Len(arg) : Len(Edited(SubSeq(arg, 1, k))) < BufSize)
                             <=> \A i \in BufSize + 1 .. MaxKeys + 1 : con.mem[i] = "z")

(* External: what a flash makes of the cycles of a read. *)
Addressed(page_size, sent) ==
    LET cols == IF page_size = 2048 THEN 2 ELSE 1
        addr == SubSeq(sent, 2, Len(sent) - (cols - 1))     \* READSTART follows two columns
        number(bytes) == FoldRight(LAMBDA byte, n : 256 * n + byte, bytes, 0)
    IN  [page |-> number(SubSeq(addr, cols + 1, Len(addr))),
         column |-> number(SubSeq(addr, 1, cols)) + (IF Head(sent) = "READOOB" THEN page_size ELSE 0)]

(* nand_load puts the pages of the image in memory in order, none twice    *)
(* and all of them up to the first bad block; a page of a bad block gets   *)
(* in only behind another bad block.  rs_correct inverts the wrong bits of *)
(* one symbol and no other bit of the buffer, and a page whose faults are  *)
(* all in its first sub-block is read as it was stored.  The parity of the *)
(* sub-blocks lies in the spare bytes, clear of the bad block mark, and    *)
(* what is loaded, 2 MB from 256 KB on, is whole blocks.  The address a    *)
(* read sends is the page's, with two row cycles up to page 65535, and the *)
(* column of its data or of its spare bytes.                               *)
LoadRight ==
    /\ fn = "nand_load" =>
           LET n == arg.size \div PagesPerBlock
               page(k) == <<arg.first + ((k - 1) \div PagesPerBlock), (k - 1) % PagesPerBlock>>
               good(b) == \A c \in arg.first .. b : c \notin arg.bad
               before(p, q) == p[1] < q[1] \/ (p[1] = q[1] /\ p[2] < q[2])
           IN  /\ \A k \in 1 .. n * PagesPerBlock : good(page(k)[1]) =>
                      k \in DOMAIN res.image /\ res.image[k] = page(k)
               /\ Len(res.image) <= n * PagesPerBlock
               /\ \A i, j \in DOMAIN res.image : i < j => before(res.image[i], res.image[j])
               /\ \A i \in DOMAIN res.image :
                      LET b == res.image[i][1] IN b \in arg.bad => b - 1 \in arg.bad
    /\ fn = "rs_correct" =>
           \A k \in DOMAIN arg.buf, b \in 0..7 :
               LET m == 8 * k + b - 9 * (arg.idx - 1)
                   wrong == IF m \in 0..8 THEN Bit(arg.mask, m) ELSE 0
               IN  Bit(res[k], b) = (Bit(arg.buf[k], b) + wrong) % 2
    /\ fn = "nand_read_page" =>
           (arg.second.faults = <<>> => res = arg.stored)
    /\ fn = "nand_read" =>
           LET page == IF arg.row_cycle = 2 THEN arg.page % 65536 ELSE arg.page
           IN  /\ Addressed(arg.page_size, res.data) = [page |-> page, column |-> 0]
               /\ Addressed(arg.page_size, res.oob) = [page |-> page, column |-> arg.page_size]
    /\ fn = "geometry" =>
           LET i0 == 0 .. res.ecc_count - 1
           IN  /\ res.ecc_count * ECC_BLOCK = res.page_size
               /\ \A i \in i0 : /\ ParityAt(i) \subseteq 0 .. res.oob_size - 1
                               /\ res.bad_block_pos \notin ParityAt(i)
                               /\ \A j \in i0 \ {i} : ParityAt(i) \cap ParityAt(j) = {}
               /\ (256 * 1024) % res.block_size = 0 /\ (2 * 1024 * 1024) % res.block_size = 0

(* Every cache line is initialised; bss is cleared and no more than one    *)
(* word behind it; dma_cache_wback_inv flushes the lines of its range and  *)
(* no other, but the whole address space for an aligned range of size 0;   *)
(* JZ_DiffTimer is exact in all, with 1 to MicroPerSecond microseconds.    *)
PortRight ==
    /\ fn = "start" =>
           LET end == arg[1] + arg[2]
           IN  /\ res.tags = 0 .. (CacheSize \div Line) - 1
               /\ arg[1] .. end - 1 \subseteq res.bss /\ res.bss \subseteq arg[1] .. end
    /\ fn = "dma_cache_wback_inv" =>
           LET lines == {a \in 0 .. AddrSpace - 1 : a % Line = 0}
               touched == {a \in lines : \E k \in 0 .. arg.size - 1 :
                               ((arg.addr + k) % AddrSpace) \div Line = a \div Line}
           IN  /\ arg.size \in 1 .. CacheSize - 1 => res = touched
               /\ arg.size = CacheSize \/ (arg.size = 0 /\ arg.addr % Line = 0) => res = lines
               /\ arg.size = 0 /\ arg.addr % Line # 0 => Cardinality(res) = 1
    /\ fn = "JZ_DiffTimer" =>
           LET total(tm) == tm[1] + tm[2] * MicroPerSecond
           IN  total(res) = total(arg[1]) - total(arg[2]) /\ res[1] \in 1..MicroPerSecond

(* The kernel finds the clock the boot loader set: detect_clock, which     *)
(* does not look at OD, and __cpm_get_cclk, which divides first, agree     *)
(* with CFG_CPU_SPEED, and the memory runs at its share of it.  udelay     *)
(* and the two waits of sdram_init last at least as long as they must.     *)
(* The memory's fields fit.  RAS is active less than a cycle too short and *)
(* a refresh less than one count too late, as the divisions round down.    *)
(* The baud rate is the next above the one asked for.  The ticks come at   *)
(* the rate asked for if it is at least 46 a second, and too often if not: *)
(* the latch is then cut to the 16 bits of TDFR.                           *)
ClocksRight ==
    /\ fn = "clocks" =>
           LET cpm == res.cpm  ram == res.ram
               mem_clk == arg.speed \div arg.div[4]
               ns == 1000000 \div mem_clk
           IN  /\ __cpm_get_cclk(cpm, Extal) = arg.speed \div arg.div[1]
               /\ __cpm_get_mclk(cpm, Extal) = mem_clk
               /\ res.iclk = arg.speed \div arg.div[1]
               /\ 2 * (res.loops + 1) * 1000 >= arg.usec * res.iclk
               /\ (arg.speed \div 2) \div (cpm.uhc + 1) >= 48000
               /\ arg.speed % 96000 = 0 => (arg.speed \div 2) \div (cpm.uhc + 1) = 48000
               /\ ram.tras \in 0..7 /\ ram.rcd \in 0..3 /\ ram.tpc \in 0..7
               /\ ram.trwl \in 0..3 /\ ram.trc \in 0..7 /\ ram.rtcor \in 1..255
               /\ (ram.tras + 5) * ns > arg.ram.tras
               /\ (ram.rcd + 1) * ns > arg.ram.rcd /\ (ram.tpc + 1) * ns > arg.ram.tpc
               /\ (2 * ram.trc + 1) * ns > arg.ram.tras + arg.ram.tpc
               /\ (ram.rtcor - 1) * 64 * ns <= arg.ram.tref /\ ram.rtcor * 64 * ns > arg.ram.tref - ns
               /\ ram.wait * 1000 >= 200 * arg.speed
    /\ fn = "serial_setbrg" =>
           LET div == res.dlhr * 256 + res.dllr
           IN  /\ div * 16 * arg <= Extal * 1000
               /\ (div + 1) * 16 * arg > Extal * 1000
    /\ fn = "JZ_StartTicker" =>
           LET off == res * arg - (Extal * 1000) \div 4
           IN  IF arg >= 46 THEN 2 * off \in - arg .. arg ELSE 2 * off < - arg
=============================================================================
