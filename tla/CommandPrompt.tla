--------------------------- MODULE CommandPrompt ---------------------------
(***************************************************************************)
(* The kernel's command prompt: command_prompt_readline of                 *)
(* kern/cmd/command_readline.c and run_command_prompt, execute_command and *)
(* process_command of kern/cmd/command_prompt.c, on the console of module  *)
(* Console.  The prompt runs while no process does, with interrupts off:   *)
(* getchar polls the keyboard, and the keys come one at a time.  One step  *)
(* takes a key from the controller through the ring and the line editor to *)
(* the screen, and for Enter also adds to the history, executes the        *)
(* command, and prompts again.                                             *)
(*                                                                         *)
(* line is a record of the local variables of the two functions:           *)
(*   buf, i, lastIndex   command_line, the cursor and what is taken for    *)
(*                       the end of the line,                              *)
(*   commandidx          the history entry shown,                          *)
(*   last_c, prefix_list_idx, prefix_list_size   for completion; last_c    *)
(*                       and prefix_list_size are not initialised.         *)
(* hist is the global state: command_history, last_command_idx,            *)
(* PrefixList.  ref is what an editor in overwrite mode would hold, and    *)
(* plain says whether every key of the line so far was of a kind for which *)
(* the two agree (history variables).  The first write of buf[lastIndex]   *)
(* past the array, which takes more than BUFLEN characters of which some    *)
(* were erased or overwritten, has no effect in the model.                 *)
(***************************************************************************)
EXTENDS Console

CONSTANTS BUFLEN,        \* 1024 in the code
          HISTORY_MAX,   \* 19 in the code
          PromptKeys,    \* the keys that are typed
          MaxKeys,       \* bound on the keys of a behaviour
          commands,      \* the names of the commands, sequences of characters
          programs       \* the names of the user programs, arguments of run

ASSUME PromptAssumption ==
    /\ BUFLEN \in Nat \ {0, 1} /\ HISTORY_MAX \in Nat
    /\ PromptLen + BUFLEN < CRT_COLS

VARIABLES line, hist, ref, plain, keys,
          executed    \* the last line executed, and the command it was taken for

pvars == <<con, line, hist, ref, plain, keys, executed>>

Run == <<"b">>      \* the command whose arguments are completed

\* The string in an array: up to the first 0.
Str(b) ==
    LET zeros == {j \in DOMAIN b : b[j] = ""}
        n == CHOOSE j \in zeros : \A k \in zeros : j <= k
    IN  [j \in 1 .. n |-> b[j - 1]]

Array(s) == [j \in 0 .. BUFLEN - 1 |-> IF j < Len(s) THEN s[j + 1] ELSE ""]

Repeat(c, n) == [j \in 1 .. n |-> c]

Prefix(s, t) == Len(s) <= Len(t) /\ \A j \in 1 .. Len(s) : s[j] = t[j]

prompt == Repeat(">", PromptLen)

\* The arguments of a line: its parts between spaces.
strsplit(s) ==
    LET from[j \in 0 .. Len(s)] ==
          IF j = 0 THEN <<>>
          ELSE LET p == from[j - 1]
               IN  IF s[j] = " " THEN p
                   ELSE IF j = 1 \/ s[j - 1] = " " THEN Append(p, <<s[j]>>)
                   ELSE [p EXCEPT ![Len(p)] = Append(@, s[j])]
    IN  from[Len(s)]
-----------------------------------------------------------------------------
(* The keys of the editor.  A state of it is a record of con as x, line as *)
(* l and hist as h.                                                        *)

\* Replaces what is left of the cursor by the string s, on the screen and in
\* the line: clearandwritecommand with n = i, and the next completion with the
\* length of the one shown.
Rewrite(s, n, text) ==
    [s EXCEPT !.x = cons_puts(@, Repeat("bksp", n) \o text),
              !.l = [@ EXCEPT !.buf = Array(text), !.i = Len(text), !.lastIndex = Len(text)]]

\* command_history[idx]; the entry after the last one is outside the array.
Entry(h, idx) == IF idx <= HISTORY_MAX THEN {h.command_history[idx]} ELSE {<<>>, <<"#">>}

Up(s) ==
    LET idx == IF s.l.commandidx = 0 THEN 0 ELSE s.l.commandidx - 1
    IN  {Rewrite([s EXCEPT !.l.commandidx = idx], s.l.i, e) : e \in Entry(s.h, idx)}

Down(s) ==
    LET idx == s.l.commandidx + IF s.l.commandidx < s.h.last_command_idx THEN 1 ELSE 0
    IN  IF s.h.last_command_idx < 0 THEN {s}
        ELSE {Rewrite([s EXCEPT !.l.commandidx = idx], s.l.i, e) : e \in Entry(s.h, idx)}

Left(s) ==
    IF s.l.i = 0 THEN s
    ELSE [s EXCEPT !.l.i = @ - 1, !.x = cga_putc(@, "left")]

Right(s) ==
    IF s.l.i >= s.l.lastIndex THEN s
    ELSE [s EXCEPT !.l.i = @ + 1, !.x = cga_putc(@, "right")]

\* What lies past the array reads as 0.
At(b, j) == IF j \in DOMAIN b THEN b[j] ELSE ""

Del(s) ==
    [s EXCEPT !.l.buf = [j \in DOMAIN @ |-> IF j \in s.l.i .. s.l.lastIndex THEN At(@, j + 1)
                                            ELSE @[j]],
              !.l.lastIndex = @ - 1]

Insert(s, c) ==
    [s EXCEPT !.x = cga_putc(@, c), !.l.buf[s.l.i] = c, !.l.i = @ + 1, !.l.lastIndex = @ + 1]

Backspace(s) ==
    [s EXCEPT !.x = cga_putc(@, "bksp"), !.l.i = @ - 1,
              !.l.buf = [j \in DOMAIN @ |-> IF j = s.l.i - 1 THEN At(@, j + 1) ELSE @[j]]]

-----------------------------------------------------------------------------
(* Completion.                                                             *)

\* The names that start with the line's last argument, each after the rest of
\* the line.  A leading space hides the only argument: every name matches.
Found(text) ==
    LET args == strsplit(text)
        last == args[Len(args)]
        rest == SubSeq(text, 1, Len(text) - Len(last))
        Starting(p, names) == SelectSeq(names, LAMBDA m : Prefix(p, m))
    IN  IF Len(args) = 1
        THEN Starting(IF text[1] = " " THEN <<>> ELSE last, commands)
        ELSE [j \in 1 .. Len(Starting(last, programs)) |-> rest \o Starting(last, programs)[j]]

\* Whether the first Tab has something to complete.
Completes(text) ==
    /\ text # <<>> /\ text[Len(text)] # " "
    /\ Len(strsplit(text)) > 1 => strsplit(text)[1] = Run

\* The rest of the line is copied over it before a program is looked for, and
\* the first name found is written over the line without a 0 after it.
FirstTab(s) ==
    LET text == Str(s.l.buf)
        args == strsplit(text)
        cut == Len(text) - Len(args[Len(args)])
        buf == IF Len(args) = 1 THEN s.l.buf ELSE [s.l.buf EXCEPT ![cut] = ""]
        found == Found(text)
        full == [j \in DOMAIN buf |-> IF j < Len(found[1]) THEN found[1][j + 1] ELSE buf[j]]
        cleared == [s EXCEPT !.h.PrefixList = <<>>]
    IN  IF text = <<>> THEN cleared
        ELSE IF ~Completes(text) THEN [cleared EXCEPT !.l.prefix_list_size = 0]
        ELSE IF found = <<>>
        THEN [cleared EXCEPT !.l = [@ EXCEPT !.buf = buf, !.prefix_list_size = 0, !.last_c = "tab"]]
        ELSE [s EXCEPT !.h.PrefixList = found,
                       !.x = cons_puts(@, Repeat("bksp", Len(text)) \o Str(full)),
                       !.l = [@ EXCEPT !.buf = full, !.i = Len(Str(full)),
                                       !.lastIndex = Len(Str(full)), !.prefix_list_idx = 0,
                                       !.prefix_list_size = Len(found), !.last_c = "tab"]]

Listed(h, idx) == IF idx < Len(h.PrefixList) THEN h.PrefixList[idx + 1] ELSE <<>>

NextTab(s) ==
    LET idx == (s.l.prefix_list_idx + 1) % s.l.prefix_list_size
    IN  IF s.l.prefix_list_size = 0 THEN s
        ELSE Rewrite([s EXCEPT !.l.prefix_list_idx = idx],
                     Len(Listed(s.h, s.l.prefix_list_idx)), Listed(s.h, idx))

\* The first key of a line meets what an earlier call left on the stack.
Tab(s) ==
    LET last == IF s.l.last_c = "none" THEN {"", "tab"} ELSE {s.l.last_c}
        size == IF s.l.last_c = "none" THEN {0, s.l.prefix_list_size} ELSE {s.l.prefix_list_size}
        From(c, n) == [s EXCEPT !.l.last_c = c, !.l.prefix_list_size = n]
    IN  {IF c = "tab" THEN NextTab(From(c, n)) ELSE FirstTab(From(c, n)) : c \in last, n \in size}

-----------------------------------------------------------------------------
(* Enter.                                                                  *)

\* Entry -1, before the first command, is outside the array.
history(h, text) ==
    LET n == h.last_command_idx
        Add == [h EXCEPT !.last_command_idx = @ + 1, !.command_history[n + 1] = text]
    IN  IF n = HISTORY_MAX
        THEN {[h EXCEPT !.command_history =
                 [j \in DOMAIN @ |-> IF j = n THEN text ELSE @[j + 1]]]}
        ELSE IF n = -1 THEN {h, Add}
        ELSE {IF h.command_history[n] = text THEN h ELSE Add}

\* The first command with the line's first argument as its name; 0: unknown.
process_command(text) ==
    LET args == strsplit(text)
        same == {j \in DOMAIN commands : commands[j] = args[1]}
    IN  IF same = {} THEN 0 ELSE CHOOSE j \in same : \A k \in same : j <= k

\* The commands' own output and effects are left out.
execute_command(x, text) ==
    IF strsplit(text) = <<>> \/ process_command(text) # 0 THEN x
    ELSE cons_puts(x, <<"?", "enter">>)

\* A line begins: the array is cleared and the prompt written.
run_command_prompt(x, h, size) ==
    [x |-> cons_puts(x, prompt), h |-> h,
     l |-> [buf |-> Array(<<>>), i |-> 0, lastIndex |-> 0, commandidx |-> h.last_command_idx + 1,
            last_c |-> "none", prefix_list_idx |-> 0, prefix_list_size |-> size]]

\* The top of the loop: the cursor is never past the end.
Extend(l) == [l EXCEPT !.lastIndex = IF l.i > @ THEN l.i ELSE @]

\* Mutation: the line ends at the cursor.
Entered_cursor(l) == Str([j \in DOMAIN l.buf |-> IF j = l.i THEN "" ELSE l.buf[j]])

\* The line that Enter ends.
Entered(l) == Str([j \in DOMAIN l.buf |-> IF j = l.lastIndex THEN "" ELSE l.buf[j]])

Enter(s) ==
    LET text == Entered(s.l)
        x == execute_command(cga_putc(s.x, "enter"), text)
    IN  {run_command_prompt(x, h, s.l.prefix_list_size) : h \in history(s.h, text)}

-----------------------------------------------------------------------------
\* One key: what getchar returns for its bytes, "" for nothing.
Decode(x, k) ==
    LET down == [x EXCEPT !.kbd = Bytes(k, FALSE) \o Bytes(k, TRUE)]
        from[j \in 0 .. Len(down.kbd)] ==
          IF j = 0 THEN [x |-> down, c |-> ""]
          ELSE LET r == kbd_proc_data(from[j - 1].x)
               IN  IF r.c = "" THEN [r EXCEPT !.c = from[j - 1].c] ELSE r
    IN  from[Len(down.kbd)]

\* The states after the character c.
Readline(s0, c) ==
    LET s == [s0 EXCEPT !.l = Extend(@)]
        Last(t) == [t EXCEPT !.l.last_c = c]
    IN  CASE c = "tab" -> Tab(s)
          [] c = "enter" -> Enter(s)
          [] c = "up" -> {Last(t) : t \in Up(s)}
          [] c = "down" -> {Last(t) : t \in Down(s)}
          [] c = "left" -> {Last(Left(s))}
          [] c = "right" -> {Last(Right(s))}
          [] c = "del" /\ s.l.i > 0 -> {Last(Del(s))}
          [] c = "bksp" -> {Last(IF s.l.i > 0 THEN Backspace(s) ELSE s)}
          [] OTHER -> {Last(IF s.l.i < BUFLEN - 1 THEN Insert(s, c) ELSE s)}

-----------------------------------------------------------------------------
(* The reference: a line of text with a cursor, which typing overwrites.   *)

\* The line after the character c, of the line r and the code's state s; ok says
\* that the editor promises it.  It does not for a backspace or a completion in
\* the middle of the line, for a history entry shown over the tail of a line,
\* for Right at the end, for Delete at the start, for Tab as the first key,
\* after a leading space, or where no program matches.
Reference(r, s, c) ==
    LET n == Len(r.text)
        end == r.cur = n
        Text(t) == [text |-> t, cur |-> Len(t)]
        Cut(j) == SubSeq(r.text, 1, j - 1) \o SubSeq(r.text, j + 1, n)
        Yes(q) == [ok |-> TRUE, ref |-> q]
        No == [ok |-> FALSE, ref |-> Text(<<>>)]
    IN  CASE c = "" -> Yes(r)
          [] c = "enter" -> Yes(Text(<<>>))
          [] c \in {"up", "down"} -> IF end THEN Yes(r) ELSE No
          [] c = "left" -> Yes([r EXCEPT !.cur = IF @ = 0 THEN 0 ELSE @ - 1])
          [] c = "right" -> IF end THEN No ELSE Yes([r EXCEPT !.cur = @ + 1])
          [] c = "del" -> IF r.cur = 0 THEN No
                          ELSE Yes(IF end THEN r ELSE [r EXCEPT !.text = Cut(r.cur + 1)])
          [] c = "bksp" -> IF ~end THEN No
                           ELSE Yes(IF n = 0 THEN r ELSE Text(Cut(n)))
          [] c = "tab" ->
               IF ~end \/ s.l.last_c = "none" THEN No
               ELSE IF s.l.last_c = "tab"
               THEN IF s.l.prefix_list_size = 0 THEN Yes(r)
                    ELSE Yes(Text(Listed(s.h, (s.l.prefix_list_idx + 1) % s.l.prefix_list_size)))
               ELSE IF ~Completes(r.text) THEN Yes(r)
               ELSE IF r.text[1] = " " \/ (Found(r.text) = <<>> /\ Len(strsplit(r.text)) > 1) THEN No
               ELSE Yes(IF Found(r.text) = <<>> THEN r ELSE Text(Found(r.text)[1]))
          [] OTHER -> Yes(IF r.cur = BUFLEN - 1 THEN r
                          ELSE [text |-> [j \in 1 .. (IF end THEN n + 1 ELSE n) |->
                                            IF j = r.cur + 1 THEN c ELSE r.text[j]],
                                cur |-> r.cur + 1])

\* A history entry is the line it was recorded as.
Shown(r, s, t, c) ==
    IF c \in {"up", "down"} /\ (c = "up" \/ s.h.last_command_idx >= 0)
    THEN LET e == IF t.l.commandidx <= HISTORY_MAX THEN s.h.command_history[t.l.commandidx]
                  ELSE Str(t.l.buf)
         IN  [text |-> e, cur |-> Len(e)]
    ELSE r

\* The first prompt, and one with a full history.
PromptInit ==
    \E h \in {[command_history |-> [j \in 0 .. HISTORY_MAX |-> <<>>], last_command_idx |-> -1,
               PrefixList |-> <<>>],
              [command_history |-> [j \in 0 .. HISTORY_MAX |-> IF j % 2 = 0 THEN <<"a">> ELSE <<"b", "a">>],
               last_command_idx |-> HISTORY_MAX, PrefixList |-> <<>>]} :
      LET s == run_command_prompt(cons_init, h, 0)
      IN  /\ con = s.x /\ line = s.l /\ hist = s.h
          /\ ref = [text |-> <<>>, cur |-> 0] /\ plain = TRUE /\ keys = 0
          /\ executed = [line |-> h.command_history[HISTORY_MAX],
                         wanted |-> h.command_history[HISTORY_MAX], plain |-> TRUE]

\* Completions that do not fit the array are left out.
Fits(text) == Completes(text) => \A j \in DOMAIN Found(text) : Len(Found(text)[j]) < BUFLEN

Type(k) ==
    LET d == Decode(con, k)
        s == [x |-> d.x, l |-> line, h |-> hist]
        r == Reference(ref, s, d.c)
    IN  /\ keys < MaxKeys /\ keys' = keys + 1
        /\ k = "tab" => Fits(Str(line.buf))
        /\ \E t \in IF d.c = "" THEN {s} ELSE Readline(s, d.c) :
             /\ con' = t.x /\ line' = t.l /\ hist' = t.h
             /\ ref' = IF plain /\ r.ok THEN Shown(r.ref, s, t, d.c) ELSE [text |-> <<>>, cur |-> 0]
        /\ plain' = (d.c = "enter" \/ (plain /\ r.ok))
        /\ executed' = IF d.c # "enter" THEN executed
                       ELSE [line |-> Entered(Extend(line)), wanted |-> ref.text, plain |-> plain]

PromptNext == \E k \in PromptKeys : Type(k)

-----------------------------------------------------------------------------
\* As long as the keys are ones the editor supports, the array, the cursor, the
\* screen's last row and the line the user has in mind agree, whatever was typed,
\* erased, overwritten, recalled or completed before; and what Enter executes
\* and records is that line (command_readline.c:71-265).
PromptLine ==
    /\ plain =>
         /\ Str(line.buf) = ref.text /\ line.i = ref.cur
         /\ con.pos = LastRow + PromptLen + ref.cur
         /\ \A j \in 0 .. CRT_COLS - 1 :
              con.crt[LastRow + j] = IF j < PromptLen THEN ">"
                                     ELSE IF j - PromptLen < Len(ref.text)
                                     THEN ref.text[j - PromptLen + 1] ELSE " "
    /\ executed.plain => executed.line = executed.wanted
    /\ hist.last_command_idx >= 0 =>
         hist.command_history[hist.last_command_idx] = executed.line
=============================================================================
