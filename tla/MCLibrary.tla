----------------------------- MODULE MCLibrary -----------------------------
(* Small inputs for Library: a word of 8 bits and a short of 4; widths and *)
(* precisions below, at and above the length of the numerals.              *)
EXTENDS Library

MCFlags == {"-", "0", "+", " ", "#", "h"}
MCWidths == {[text |-> <<>>, value |-> 0], [text |-> <<"3">>, value |-> 3],
             [text |-> <<"1", "0">>, value |-> 10],
             [text |-> <<"*">>, value |-> 6], [text |-> <<"*">>, value |-> - 4]}
MCPrecs == {[text |-> <<>>, value |-> - 1], [text |-> <<".">>, value |-> 0],
            [text |-> <<".", "5">>, value |-> 5],
            [text |-> <<".", "*">>, value |-> 2], [text |-> <<".", "*">>, value |-> - 1]}
MCValues == {0, 5, 100, 128, 255}
MCTexts == BoundedSeq({"a", "b", " "}, 3)
MCNumerals == BoundedSeq({"0", "7", "9", "a", "o", "x", "F", " "}, 3)
MCWords == ToSet(Commands) \cup {<<"s", "t", "a">>, <<"h", "e", "l", "l">>, <<"p", "s", "s">>, <<"c">>}
MCKeys == {"p", "s", BS}
MCMasks == {1, 256, 170, 511}
MCBytes == {0, 90, 255}
MCDivisors == {<<1, 4, 4, 4>>, <<1, 3, 3, 3>>}         \* the two of pll_init
MCRams == {[tras |-> 45, rcd |-> 20, tpc |-> 20, trwl |-> 7, tref |-> 15625],    \* pavo.h
           [tras |-> 60, rcd |-> 15, tpc |-> 18, trwl |-> 12, tref |-> 7812]}
=============================================================================
