------------------------------- MODULE Shell -------------------------------
(***************************************************************************)
(* The line editor, gets in src/lib/stdio.c, and the command loop of the   *)
(* shell thread, src/app/shell_mips/main.c.  gets keeps no length of its   *)
(* buffer: memory is longer here than the array.                           *)
(***************************************************************************)
EXTENDS Stdio

BS == "BS"

(* One key other than CR.  A console is [mem, s, cnt, sent]: s is where    *)
(* the next character goes and `sent' what was echoed to the terminal.     *)
MutKeyTyped(con, c) ==                        \* mutant: the erased character stays in place
    IF c # BS
    THEN [mem |-> [con.mem EXCEPT ![con.s] = c], s |-> con.s + 1, cnt |-> con.cnt + 1,
          sent |-> Append(con.sent, c)]
    ELSE IF con.cnt > 0
         THEN [con EXCEPT !.cnt = @ - 1, !.sent = @ \o <<BS, " ", BS>>]
         ELSE con

KeyTyped(con, c) ==
    IF c # BS
    THEN [mem |-> [con.mem EXCEPT ![con.s] = c], s |-> con.s + 1, cnt |-> con.cnt + 1,
          sent |-> Append(con.sent, c)]
    ELSE IF con.cnt > 0
         THEN [mem |-> [con.mem EXCEPT ![con.s] = " "], s |-> con.s - 1, cnt |-> con.cnt - 1,
               sent |-> con.sent \o <<BS, " ", BS>>]
         ELSE con

(* CR ends the line. *)
LineEnded(con) == [con EXCEPT !.mem[con.s] = Nul]

(* What the shell thread does with the line at p: the tests are strcmp     *)
(* against each word in turn; a command resumes the thread that does the   *)
(* work and gives way to it for a tick.                                    *)
StringsAre(mem, p, word) == strcmp(mem \o word \o <<Nul>>, p, Len(mem) + 1) = 0

shell_thread_func(mem, p) ==
    CASE StringsAre(mem, p, <<>>)                        -> <<>>
      [] StringsAre(mem, p, <<"s", "t", "a", "t">>)      -> <<"resume stat_tid", "delay">>
      [] StringsAre(mem, p, <<"p", "s">>)                -> <<"resume info_tid", "delay">>
      [] StringsAre(mem, p, <<"h", "e", "l", "p">>)      -> <<"print_help_msg">>
      [] StringsAre(mem, p, <<"c", "l", "e", "a", "r">>) -> <<"clear">>
      [] StringsAre(mem, p, <<"h", "e", "l", "l", "o">>) ->
             <<"resume hello_tid", "resume hello2_tid", "delay">>
      [] OTHER                                           -> <<"command not found">>
=============================================================================
