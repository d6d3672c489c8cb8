------------------------------- MODULE Stdio -------------------------------
(***************************************************************************)
(* The C library of the kernel, src/lib/stdio.c, as operators: what each   *)
(* function returns, prints or leaves in memory.  A character is a         *)
(* one-letter string, a C string the sequence of its characters before the *)
(* NUL, memory a sequence of characters and a pointer an index of it, with *)
(* 0 for NULL.  A word has WordBits bits and a short ShortBits.            *)
(***************************************************************************)
EXTENDS Integers, Sequences, SequencesExt

CONSTANTS WordBits, ShortBits
ASSUME BitsAssumption == 0 < ShortBits /\ ShortBits <= WordBits

Word == 0 .. 2^WordBits - 1
Signed(u) == IF u < 2^(WordBits - 1) THEN u ELSE u - 2^WordBits
Larger(m, n) == IF m >= n THEN m ELSE n
Repeat(c, n) == [i \in 1..n |-> c]

Nul == "NUL"
Alphabet == <<" ", "0", "1", "2", "3", "4", "5", "6", "7", "8", "9", "A", "B", "C", "D", "E", "F",
              "a", "b", "c", "d", "e", "f", "g", "h", "i", "j", "k", "l", "m", "n", "o", "p",
              "q", "r", "s", "t", "u", "v", "w", "x", "y", "z">>
codes == [c \in ToSet(Alphabet) \cup {Nul} |->
              IF c = Nul THEN 0 ELSE CHOOSE i \in DOMAIN Alphabet : Alphabet[i] = c]
Code(c) == codes[c]

(* The value of a digit, small or capital; 36 for no digit of any base. *)
digits36 == [c \in DOMAIN codes |->
    CASE Code(c) \in Code("0") .. Code("9") -> Code(c) - Code("0")
      [] Code(c) \in Code("A") .. Code("F") -> Code(c) - Code("A") + 10
      [] Code(c) >= Code("a")               -> Code(c) - Code("a") + 10
      [] OTHER                              -> 36]     \* no digit of any base
Digit(c) == digits36[c]

-----------------------------------------------------------------------------
(***************************************************************************)
(* _doprntx, for one directive: [flags, width, prec, conv], the width 0    *)
(* and the precision -1 when there is none.                                *)
(***************************************************************************)
isdigit(c) == c \in {"0", "1", "2", "3", "4", "5", "6", "7", "8", "9"}

(* The loop at `rflag': one character of the directive.  A digit goes on   *)
(* with a width or a precision; elsewhere 0 is a flag.  A negative width   *)
(* from the arguments is a `-' and a width.                                *)
Scanned(st, c) ==
    CASE st.mode \in {"dot", "prec"} /\ isdigit(c) ->
             [st EXCEPT !.prec = 10 * @ + Digit(c), !.mode = "prec"]
      [] st.mode = "dot" /\ c = "*" ->
             [st EXCEPT !.prec = IF Head(st.args) < 0 THEN - 1 ELSE Head(st.args),
                        !.args = Tail(@), !.mode = "flags"]
      [] st.mode = "width" /\ isdigit(c) -> [st EXCEPT !.width = 10 * @ + Digit(c)]
      [] c = "." -> [st EXCEPT !.prec = 0, !.mode = "dot"]
      [] c = "*" /\ st.mode # "dot" ->
             [st EXCEPT !.width = IF Head(st.args) < 0 THEN - Head(st.args) ELSE Head(st.args),
                        !.flags = IF Head(st.args) < 0 THEN @ \cup {"-"} ELSE @,
                        !.args = Tail(@), !.mode = "flags"]
      [] isdigit(c) /\ c # "0" /\ st.mode = "flags" -> [st EXCEPT !.width = Digit(c), !.mode = "width"]
      [] OTHER -> [st EXCEPT !.flags = @ \cup {c}, !.mode = "flags"]

Directive(fmt, conv, args) ==
    LET st == FoldLeft(Scanned, [flags |-> {}, width |-> 0, prec |-> - 1, args |-> args, mode |-> "flags"], fmt)
    IN  [flags |-> st.flags, width |-> st.width, prec |-> st.prec, conv |-> conv]

digs == <<"0", "1", "2", "3", "4", "5", "6", "7", "8", "9", "a", "b", "c", "d", "e", "f">>

(* ARG(): a short is sign-extended, whatever the conversion. *)
ARG(d, u) ==
    LET s == u % 2^ShortBits
    IN  IF "h" \notin d.flags \/ d.conv = "p" THEN u
        ELSE IF s < 2^(ShortBits - 1) THEN s ELSE s - 2^ShortBits + 2^WordBits

base(d) == CASE d.conv \in {"d", "u"} -> 10 [] d.conv = "o" -> 8 [] OTHER -> 16
Negative(d, u) == d.conv = "d" /\ Signed(ARG(d, u)) < 0
Magnitude(d, u) == IF Negative(d, u) THEN 2^WordBits - ARG(d, u) ELSE ARG(d, u)

(* `+' wins over ` ', and only a signed conversion keeps either. *)
Sign(d, u) ==
    CASE Negative(d, u)        -> <<"-">>
      [] d.conv # "d"          -> <<>>
      [] "+" \in d.flags       -> <<"+">>
      [] " " \in d.flags       -> <<" ">>
      [] OTHER                 -> <<>>
HexPrefix(d, u) == IF d.conv = "x" /\ "#" \in d.flags /\ ARG(d, u) # 0 THEN <<"0", "x">> ELSE <<>>

(* The conversion loop, which fills buf from its end. *)
Numeral(b, m) ==
    LET from[n \in 0..m] ==
            IF n < b THEN <<digs[n + 1]>> ELSE from[n \div b] \o <<digs[(n % b) + 1]>>
    IN  from[m]

Converted(d, u) ==
    LET m == Magnitude(d, u)
        t == IF m = 0 /\ d.prec = 0 THEN <<>> ELSE Numeral(base(d), m)
    IN  IF d.conv = "o" /\ "#" \in d.flags /\ t # <<>> /\ Head(t) # "0" THEN <<"0">> \o t ELSE t

(* From `pforw' on, what every conversion shares; dprec is 0 for %c and %s. *)
fieldsz(sign, prefix, t) == Len(sign) + Len(prefix) + Len(t)
LADJUST(d) == "-" \in d.flags
ZEROPAD(d) == "0" \in d.flags /\ (d.conv \in {"c", "s"} \/ d.prec < 0)

MutJustified(d, sign, prefix, t, dprec) ==    \* mutant: pads with zeros before the sign
    LET pad == d.width - Larger(dprec, fieldsz(sign, prefix, t))
    IN  Repeat(IF ZEROPAD(d) THEN "0" ELSE " ", IF LADJUST(d) THEN 0 ELSE pad)
            \o sign \o prefix \o Repeat("0", dprec - fieldsz(sign, prefix, t)) \o t
            \o Repeat(" ", IF LADJUST(d) THEN pad ELSE 0)

Justified(d, sign, prefix, t, dprec) ==
    LET pad == d.width - Larger(dprec, fieldsz(sign, prefix, t))
    IN  Repeat(" ", IF LADJUST(d) \/ ZEROPAD(d) THEN 0 ELSE pad)
            \o sign \o prefix
            \o Repeat("0", IF ZEROPAD(d) /\ ~ LADJUST(d) THEN pad ELSE 0)
            \o Repeat("0", dprec - fieldsz(sign, prefix, t))
            \o t
            \o Repeat(" ", IF LADJUST(d) THEN pad ELSE 0)

(* What is added to cnt for the directive. *)
Counted(d, sign, prefix, t, dprec) ==
    Larger(d.width, Larger(dprec, fieldsz(sign, prefix, t)))

PrintNumber(d, u) ==
    [out |-> Justified(d, Sign(d, u), HexPrefix(d, u), Converted(d, u), d.prec),
     cnt |-> Counted(d, Sign(d, u), HexPrefix(d, u), Converted(d, u), d.prec)]

(* %c and %s: a precision cuts a string, and no sign is printed. *)
PrintString(d, s) ==
    LET n == IF d.conv = "s" /\ 0 <= d.prec /\ d.prec < Len(s) THEN d.prec ELSE Len(s)
        t == SubSeq(s, 1, n)
    IN  [out |-> Justified(d, <<>>, <<>>, t, 0), cnt |-> Counted(d, <<>>, <<>>, t, 0)]

(* Literal text: a newline is sent, and counted, as CR and LF. *)
PrintLiteral(s) ==
    LET sent == FlattenSeq([i \in DOMAIN s |-> IF s[i] = "LF" THEN <<"CR", "LF">> ELSE <<s[i]>>])
    IN  [out |-> sent, cnt |-> Len(s) + Len(SelectSeq(s, LAMBDA c : c = "LF"))]

-----------------------------------------------------------------------------
(***************************************************************************)
(* Memory and strings.                                                     *)
(***************************************************************************)
(* The copy goes up, one character at a time, whether or not the areas     *)
(* overlap; memset likewise.                                               *)
memcpy(mem, dest, src, cnt) ==
    LET copied[k \in 0..cnt] ==
            IF k = 0 THEN mem
            ELSE [copied[k - 1] EXCEPT ![dest + k - 1] = copied[k - 1][src + k - 1]]
    IN  copied[cnt]
memset(mem, s, c, len) == [i \in DOMAIN mem |-> IF i \in s .. s + len - 1 THEN c ELSE mem[i]]

memchr(mem, p, c, n) == SelectInSubSeq(mem, p, p + n - 1, LAMBDA x : x = c)
strlen(mem, p) == SelectInSubSeq(mem, p, Len(mem), LAMBDA x : x = Nul) - p
StringAt(mem, p) == SubSeq(mem, p, p + strlen(mem, p) - 1)

(* The loops from one character to the next, which stop at the NUL. *)
MutStrcmp(mem, p1, p2) ==                     \* mutant: the end of s2 ends the comparison too
    LET from[k \in 0 .. Len(mem)] ==
            IF mem[p1 + k] # Nul /\ mem[p2 + k] # Nul /\ mem[p1 + k] = mem[p2 + k] THEN from[k + 1]
            ELSE IF mem[p2 + k] = Nul THEN 0 ELSE Code(mem[p1 + k]) - Code(mem[p2 + k])
    IN  from[0]

strcmp(mem, p1, p2) ==
    LET from[k \in 0 .. Len(mem)] ==
            IF mem[p1 + k] # Nul /\ mem[p1 + k] = mem[p2 + k] THEN from[k + 1]
            ELSE Code(mem[p1 + k]) - Code(mem[p2 + k])
    IN  from[0]

strspn(mem, p, accept) ==
    LET from[k \in 0 .. Len(mem)] ==
            IF mem[p + k] # Nul /\ mem[p + k] \in accept THEN from[k + 1] ELSE k
    IN  from[0]

(* The first character from p that is in ct, or NULL. *)
strpbrk(mem, p, ct) ==
    SelectInSubSeq(mem, p, p + strlen(mem, p) - 1, LAMBDA x : x \in ct)

(* strtok: cuts the next token of s, or of what ___strtok kept when s is   *)
(* NULL, by writing a NUL behind it.                                       *)
MutStrtok(mem, kept, s, ct) ==                \* mutant: the rest starts at the delimiter's NUL
    LET start == IF s # 0 THEN s ELSE kept
        sbegin == start + strspn(mem, start, ct)
        send == strpbrk(mem, sbegin, ct)
    IN  IF start = 0 \/ mem[sbegin] = Nul THEN [mem |-> mem, kept |-> 0, token |-> 0]
        ELSE IF send = 0 THEN [mem |-> mem, kept |-> 0, token |-> sbegin]
        ELSE [mem |-> [mem EXCEPT ![send] = Nul], kept |-> send, token |-> sbegin]

strtok(mem, kept, s, ct) ==
    LET start == IF s # 0 THEN s ELSE kept
        sbegin == start + strspn(mem, start, ct)
        send == strpbrk(mem, sbegin, ct)
    IN  IF start = 0 \/ mem[sbegin] = Nul THEN [mem |-> mem, kept |-> 0, token |-> 0]
        ELSE IF send = 0 THEN [mem |-> mem, kept |-> 0, token |-> sbegin]
        ELSE [mem |-> [mem EXCEPT ![send] = Nul], kept |-> send + 1, token |-> sbegin]

-----------------------------------------------------------------------------
(***************************************************************************)
(* strtoul.  `0x' and `0o' choose the base, whatever base was requested;   *)
(* the first 0 of a string is only looked at for that, and one character   *)
(* that is no digit of the base makes the whole result 0.                  *)
(***************************************************************************)
MutStrtoul(str) ==                            \* mutant: `digit > base' for `digit >= base'
    LET prefixed == Len(str) >= 2 /\ str[1] = "0" /\ str[2] \in {"x", "o"}
        b == IF ~ prefixed THEN 10 ELSE IF str[2] = "x" THEN 16 ELSE 8
        body == SubSeq(str, IF prefixed THEN 3 ELSE 1, Len(str))
    IN  IF \E i \in DOMAIN body : Digit(body[i]) > b THEN 0
        ELSE FoldLeft(LAMBDA num, c : (num * b + Digit(c)) % 2^WordBits, 0, body)

strtoul(str) ==
    LET prefixed == Len(str) >= 2 /\ str[1] = "0" /\ str[2] \in {"x", "o"}
        b == IF ~ prefixed THEN 10 ELSE IF str[2] = "x" THEN 16 ELSE 8
        body == SubSeq(str, IF prefixed THEN 3 ELSE 1, Len(str))
    IN  IF \E i \in DOMAIN body : Digit(body[i]) >= b THEN 0
        ELSE FoldLeft(LAMBDA num, c : (num * b + Digit(c)) % 2^WordBits, 0, body)

(* serial_puts_hex of the boot loader: a digit for every four bits. *)
serial_puts_hex(u) ==
    LET digit(i) == (u \div 2^(WordBits - 4 * i)) % 16
    IN  [i \in 1 .. WordBits \div 4 |->
            IF digit(i) < 10 THEN digs[digit(i) + 1] ELSE Alphabet[digit(i) - 10 + Code("A")]]
=============================================================================
