--------------------------- MODULE ConsoleReaders ---------------------------
(***************************************************************************)
(* Processes that read from the console through sys_cgetc, alone or under  *)
(* the console's lock, while keys are pressed and released and the clock   *)
(* switches processes wherever interrupts are on: in user mode and in      *)
(* system calls alike (trap.c:271-275), so a process can be switched out   *)
(* between any two steps of cons_getc2.                                    *)
(***************************************************************************)
EXTENDS Console

CONSTANTS Env,          \* the processes
          ReaderKeys,   \* the keys that are pressed
          KbdBytes      \* bound on the bytes that wait in the controller

VARIABLES locking,   \* whether the programs read under the lock
          proc,      \* the running process
          pc,        \* "user", or where in sys_cgetc a process is
          tf_IF,     \* FL_IF in each process's saved flags, and in its kernel mode
          down       \* the keys that are held

rvars == <<con, locking, proc, pc, tf_IF, down>>

\* Without the lock one process reads at a time; with it all may.
ReadersInit ==
    /\ con = cons_init
    /\ locking \in BOOLEAN
    /\ proc \in Env
    /\ pc = [e \in Env |-> "user"]
    /\ tf_IF = [e \in Env |-> TRUE]
    /\ down = {}

-----------------------------------------------------------------------------
(* The devices.                                                            *)

Key(k, up) ==
    /\ Len(con.kbd) + Len(Bytes(k, up)) <= KbdBytes
    /\ con' = [con EXCEPT !.kbd = @ \o Bytes(k, up)]
    /\ down' = IF up THEN down \ {k} ELSE down \cup {k}
    /\ UNCHANGED <<locking, proc, pc, tf_IF>>

Press(k) == k \notin down /\ Key(k, FALSE)

Release(k) == k \in down /\ Key(k, TRUE)

SerialIn ==
    /\ con.com = <<>>
    /\ con' = [con EXCEPT !.com = <<"s">>]
    /\ UNCHANGED <<locking, proc, pc, tf_IF, down>>

\* Interrupts reach the process that runs.
keyboard_interrupt_handler ==
    /\ tf_IF[proc] /\ con.kbd # <<>>
    /\ con' = kbd_intr(con)
    /\ UNCHANGED <<locking, proc, pc, tf_IF, down>>

\* Its message on the screen is left out.
serial_interrupt_handler ==
    /\ tf_IF[proc] /\ con.com # <<>>
    /\ con' = serial_intr(con)
    /\ UNCHANGED <<locking, proc, pc, tf_IF, down>>

clock_interrupt_handler ==
    /\ tf_IF[proc]
    /\ proc' \in Env \ {proc}
    /\ UNCHANGED <<con, locking, pc, tf_IF, down>>

-----------------------------------------------------------------------------
(* The system calls.                                                       *)

Runs(e, l) == proc = e /\ pc[e] = l

\* The flags are those the process returns to user mode with.
cons_lock(e) ==
    /\ locking /\ Runs(e, "user") /\ tf_IF[e]
    /\ tf_IF' = [tf_IF EXCEPT ![e] = FALSE]
    /\ UNCHANGED <<con, locking, proc, pc, down>>

cons_unlock(e) ==
    /\ locking /\ Runs(e, "user") /\ ~tf_IF[e]
    /\ tf_IF' = [tf_IF EXCEPT ![e] = TRUE]
    /\ UNCHANGED <<con, locking, proc, pc, down>>

Step(e, from, to) == Runs(e, from) /\ pc' = [pc EXCEPT ![e] = to]

\* Interrupt-enabled or programmed input, by the flag it was called with.
sys_cgetc(e) ==
    /\ Step(e, "user", IF tf_IF[e] THEN "test" ELSE "poll")
    /\ IF locking THEN ~tf_IF[e] ELSE \A f \in Env : pc[f] = "user"
    /\ UNCHANGED <<con, locking, proc, tf_IF, down>>

\* cons_getc2 finds nothing and is called again until it does.
getc2_test(e) ==
    /\ Waiting(con) /\ Step(e, "test", "take")
    /\ UNCHANGED <<con, locking, proc, tf_IF, down>>

getc2_take(e) ==
    /\ Step(e, "take", "wrap")
    /\ con' = take(con)
    /\ UNCHANGED <<locking, proc, tf_IF, down>>

getc2_wrap(e) ==
    /\ Step(e, "wrap", "user")
    /\ con' = wrap(con)
    /\ UNCHANGED <<locking, proc, tf_IF, down>>

getc_poll(e) ==
    /\ con.kbd # <<>> \/ con.com # <<>> \/ Waiting(con)
    /\ Step(e, "poll", IF cons_getc(con).c = "" THEN "poll" ELSE "user")
    /\ con' = cons_getc(con).x
    /\ UNCHANGED <<locking, proc, tf_IF, down>>

ReadersNext ==
    \/ \E k \in ReaderKeys : Press(k) \/ Release(k)
    \/ SerialIn \/ keyboard_interrupt_handler \/ serial_interrupt_handler
    \/ clock_interrupt_handler
    \/ \E e \in Env : \/ cons_lock(e) \/ cons_unlock(e) \/ sys_cgetc(e)
                      \/ getc2_test(e) \/ getc2_take(e) \/ getc2_wrap(e)
                      \/ getc_poll(e)

ReadersSpec == ReadersInit /\ [][ReadersNext]_rvars

-----------------------------------------------------------------------------
\* What is read is what was typed and sent, in that order, or lost by whole
\* rings, whatever interrupts come between the steps of a reader (the ring is
\* looked at when none is between reading and wrapping rpos).  A process that
\* has the console is the one that runs, so what it reads until it unlocks is
\* an uninterrupted part of the input (console.h:31: "lock the console so that
\* no other processes can deal with it").  And once the keyboard's bytes are
\* processed no modifier is in force whose keys are all up.
InputInOrder ==
    /\ (\A e \in Env : pc[e] # "wrap") => RingInOrder(con)
    /\ \A e \in Env : ~tf_IF[e] => /\ proc = e
                                   /\ \A f \in Env \ {e} : pc[f] = "user"
    /\ con.kbd = <<>> =>
         /\ "SHIFT" \in con.shift => {"lshift", "rshift"} \cap down # {}
         /\ "CTL" \in con.shift => {"ctl", "rctl"} \cap down # {}
=============================================================================
