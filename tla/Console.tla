------------------------------ MODULE Console ------------------------------
(***************************************************************************)
(* The console: kern/cons/console.c and the system calls sys_cgetc,        *)
(* sys_lock_cons and sys_unlock_cons of kern/trap/syscall.c.  The keyboard *)
(* and the serial line fill one ring buffer, from their interrupts or when *)
(* a reader polls them; the screen shows what is put.  Both methods in     *)
(* console.h are LCK_INT: a reader spins, and the console is locked by     *)
(* keeping interrupts off, in the kernel and in the user's saved flags.    *)
(* A state x of the console is a record                                    *)
(*   kbd, com    bytes waiting in the keyboard controller and in COM1,     *)
(*   shift       the static flags of kbd_proc_data,                        *)
(*   buf, rpos, wpos   the ring,                                           *)
(*   crt, pos, text_length   the screen, its cursor, and what console.c    *)
(*               takes for the length of the text in the last row,         *)
(*   accepted, taken   how many characters went into the ring and out of   *)
(*               it (history variables, modulo twice the ring's size).     *)
(* A character is a name, "" for 0.  A tab, which cga_putc writes as five  *)
(* spaces, is never put by the modelled parts.                             *)
(***************************************************************************)
EXTENDS Integers, Sequences, FiniteSets, TLC

CONSTANTS CONSBUFSIZE,          \* 512 in the code
          CRT_COLS, CRT_SIZE,   \* 80 and 2000 in the code
          PromptLen             \* 5, the length of "FOS> "

ASSUME ConsoleAssumption ==
    /\ CONSBUFSIZE \in Nat \ {0, 1}
    /\ CRT_COLS \in Nat /\ PromptLen \in 1 .. CRT_COLS /\ CRT_SIZE \in Nat
    /\ CRT_SIZE % CRT_COLS = 0 /\ CRT_SIZE > CRT_COLS

VARIABLE con

Twice == 2 * CONSBUFSIZE

-----------------------------------------------------------------------------
(* The screen.                                                             *)

LastRow == CRT_SIZE - CRT_COLS    \* 1920

\* A cursor past the end scrolls by one row.
Scroll(x) ==
    IF x.pos < CRT_SIZE THEN x
    ELSE [x EXCEPT !.crt = [i \in DOMAIN @ |-> IF i < LastRow THEN @[i + CRT_COLS] ELSE " "],
                   !.pos = @ - CRT_COLS]

put_char(x, c) ==
    Scroll([x EXCEPT !.crt[x.pos] = c, !.pos = @ + 1,
                     !.text_length = IF x.pos + 1 > LastRow + @ THEN @ + 1 ELSE @])

cga_putc(x, c) ==
    CASE c = "bksp" -> IF x.pos = 0 THEN x
                       ELSE [x EXCEPT !.pos = @ - 1, !.crt[x.pos - 1] = " "]
      [] c = "enter" -> Scroll([x EXCEPT !.pos = @ + CRT_COLS - (@ % CRT_COLS),
                                         !.text_length = 0])
      [] c = "left" -> IF x.pos = 0 THEN x ELSE [x EXCEPT !.pos = @ - 1]
      [] c = "right" -> Scroll([x EXCEPT !.pos = @ + 1])
      [] OTHER -> put_char(x, c)

\* cons_putc of every character of s; the parallel port is output only.
cons_puts(x, s) ==
    LET from[i \in 0 .. Len(s)] == IF i = 0 THEN x ELSE cga_putc(from[i - 1], s[i])
    IN  from[Len(s)]

-----------------------------------------------------------------------------
(* The keyboard.  A byte is "E0", or [key, up]: a key of the main block or *)
(* of the keypad that goes down or up.                                     *)

shiftcode == [k \in {"lshift", "rshift", "ctl", "rctl", "alt"} |->
                CASE k \in {"lshift", "rshift"} -> "SHIFT"
                  [] k \in {"ctl", "rctl"} -> "CTL" [] k = "alt" -> "ALT"]

togglecode == [k \in {"caps", "num"} |-> IF k = "caps" THEN "CAPSLOCK" ELSE "NUMLOCK"]

\* The key a byte means after E0.
Extended == [k \in {"8", "2", "4", "6", ".", "ctl"} |->
               CASE k = "8" -> "up"    [] k = "2" -> "down"  [] k = "4" -> "left"
                 [] k = "6" -> "right" [] k = "." -> "del"   [] k = "ctl" -> "rctl"]

Letter == [c \in {"a", "b"} |-> IF c = "a" THEN "A" ELSE "B"]

Digits == {"8", "2", "4", "6"}    \* of the keypad

\* normalmap, shiftmap and ctlmap: "" for NO and for 255, which is dropped.
charcode(shift, key) ==
    CASE key \in DOMAIN shiftcode \cup DOMAIN togglecode -> ""
      [] "CTL" \in shift /\ key \in DOMAIN Letter -> "control"
      [] "CTL" \in shift /\ key \in {" ", "bksp", "tab", "."} \cup Digits -> ""
      [] "CTL" \notin shift /\ "SHIFT" \in shift /\ key \in DOMAIN Letter -> Letter[key]
      [] OTHER -> key

Cased(shift, c) ==
    IF "CAPSLOCK" \notin shift THEN c
    ELSE IF c \in DOMAIN Letter THEN Letter[c]
    ELSE IF \E l \in DOMAIN Letter : Letter[l] = c THEN CHOOSE l \in DOMAIN Letter : Letter[l] = c
    ELSE c

\* The delete key works on the screen itself, on the row it takes for the
\* prompt's: nothing at the end of the text, else the rest moves left.
Delete(x) ==
    LET n == x.text_length - 1
        last == LastRow + PromptLen + n
    IN  IF x.text_length = 0 \/ x.pos = LastRow + x.text_length THEN [x |-> x, c |-> ""]
        ELSE [x |-> [x EXCEPT !.text_length = n,
                              !.crt = [i \in DOMAIN @ |->
                                         IF i \in x.pos .. last
                                         THEN IF i + 1 \in DOMAIN @ THEN @[i + 1] ELSE " "
                                         ELSE @[i]]],
              c |-> "del"]

\* The bytes of a key that goes down or up: an extended one's follow E0.
Bytes(k, up) ==
    LET base == {b \in DOMAIN Extended : Extended[b] = k}
    IN  IF base = {} THEN <<[key |-> k, up |-> up]>>
        ELSE <<[key |-> "E0", up |-> FALSE], [key |-> CHOOSE b \in base : TRUE, up |-> up]>>

\* The first waiting byte: the state after it and the character, "" for none.
\* Ctrl-Alt-Del is tested after the delete key has returned.
kbd_proc_data(x0) ==
    LET data == Head(x0.kbd)
        x == [x0 EXCEPT !.kbd = Tail(@)]
        e0 == "E0" \in x.shift
        Ext(k) == IF e0 /\ k \in DOMAIN Extended THEN Extended[k] ELSE k
        Code(k) == IF k \in DOMAIN shiftcode THEN {shiftcode[k]} ELSE {}
        held == (x.shift \ {"E0"}) \cup Code(Ext(data.key))
        key == Ext(data.key)
        now == IF key \in DOMAIN togglecode
               THEN (held \ {togglecode[key]}) \cup ({togglecode[key]} \ held) ELSE held
        c == Cased(now, charcode(now, key))
        y == [x EXCEPT !.shift = now]
    IN  CASE data = [key |-> "E0", up |-> FALSE] ->
               [x |-> [x EXCEPT !.shift = @ \cup {"E0"}], c |-> ""]
          [] data.key # "E0" /\ data.up ->
               [x |-> [x EXCEPT !.shift = (@ \ {"E0"}) \ Code(Ext(data.key))], c |-> ""]
          [] data.key # "E0" /\ ~data.up /\ c = "del" -> Delete(y)
          [] OTHER -> [x |-> y, c |-> IF now = {"NUMLOCK"} /\ c \in Digits THEN "" ELSE c]

serial_proc_data(x) == [x |-> [x EXCEPT !.com = Tail(@)], c |-> Head(x.com)]

-----------------------------------------------------------------------------
(* The ring.                                                               *)

\* Mutation: the write position advances before the write.
store_after(x, c) ==
    IF c = "" THEN x
    ELSE [x EXCEPT !.buf[(x.wpos + 1) % CONSBUFSIZE] = [c |-> c, n |-> x.accepted],
                   !.wpos = (@ + 1) % CONSBUFSIZE, !.accepted = (@ + 1) % Twice]

\* Nothing compares the positions: a full ring becomes an empty one.
store(x, c) ==
    IF c = "" THEN x
    ELSE [x EXCEPT !.buf[x.wpos] = [c |-> c, n |-> x.accepted],
                   !.wpos = (@ + 1) % CONSBUFSIZE, !.accepted = (@ + 1) % Twice]

\* cons_intr(kbd_proc_data) and cons_intr(serial_proc_data): all that waits.
kbd_intr(x) ==
    LET from[i \in 0 .. Len(x.kbd)] ==
          IF i = 0 THEN x
          ELSE LET r == kbd_proc_data(from[i - 1]) IN store(r.x, r.c)
    IN  from[Len(x.kbd)]

serial_intr(x) ==
    LET from[i \in 0 .. Len(x.com)] ==
          IF i = 0 THEN x
          ELSE LET r == serial_proc_data(from[i - 1]) IN store(r.x, r.c)
    IN  from[Len(x.com)]

Waiting(x) == x.rpos # x.wpos

\* The character at rpos, and the ring without it.
take(x) == [x EXCEPT !.rpos = @ + 1, !.taken = (@ + 1) % Twice]
wrap(x) == [x EXCEPT !.rpos = IF @ = CONSBUFSIZE THEN 0 ELSE @]

\* Both devices are polled first, the serial line before the keyboard.
cons_getc(x) ==
    LET p == kbd_intr(serial_intr(x))
    IN  IF Waiting(p) THEN [x |-> wrap(take(p)), c |-> p.buf[p.rpos].c]
        ELSE [x |-> p, c |-> ""]

cons_init ==
    [kbd |-> <<>>, com |-> <<>>, shift |-> {},
     buf |-> [i \in 0 .. CONSBUFSIZE - 1 |-> [c |-> "", n |-> 0]], rpos |-> 0, wpos |-> 0,
     crt |-> [i \in 0 .. CRT_SIZE - 1 |-> " "], pos |-> LastRow, text_length |-> 0,
     accepted |-> 0, taken |-> 0]

-----------------------------------------------------------------------------
\* How many characters a reader will still find.
Pending(x) == (x.wpos - x.rpos) % CONSBUFSIZE

\* The characters that wait are the last ones that came in, in their order, so
\* what is read is what was typed, in that order; if characters were lost, they
\* were lost by whole rings (console.c:421-428).
RingInOrder(x) ==
    /\ (x.accepted - x.taken - Pending(x)) % CONSBUFSIZE = 0
    /\ \A j \in 0 .. Pending(x) - 1 :
         x.buf[(x.rpos + j) % CONSBUFSIZE].n = (x.accepted - Pending(x) + j) % Twice
=============================================================================
