----------------------------- MODULE MCConsole -----------------------------
(***************************************************************************)
(* The console's two users, checked in one run: processes that read from   *)
(* it, and the kernel's prompt, which runs while no process does.          *)
(***************************************************************************)
EXTENDS ConsoleReaders, CommandPrompt

VARIABLE mode

MCcommands == <<<<"a", "a">>, <<"a", "b">>, <<"b">>>>
MCprograms == <<<<"a", "b">>, <<"a">>>>

pstate == <<line, hist, ref, plain, keys, executed>>
rstate == <<locking, proc, pc, tf_IF, down>>

ConsoleInit ==
    \/ /\ mode = "readers" /\ ReadersInit
       /\ line = "none" /\ hist = [last_command_idx |-> -1] /\ ref = "none" /\ plain = FALSE
       /\ keys = 0 /\ executed = [plain |-> FALSE]
    \/ /\ mode = "prompt" /\ PromptInit
       /\ locking = FALSE /\ proc = "none" /\ down = {}
       /\ pc = [e \in Env |-> "user"] /\ tf_IF = [e \in Env |-> TRUE]

ConsoleNext ==
    \/ mode = "readers" /\ ReadersNext /\ UNCHANGED <<mode, pstate>>
    \/ mode = "prompt" /\ PromptNext /\ UNCHANGED <<mode, rstate>>

ConsoleSpec == ConsoleInit /\ [][ConsoleNext]_<<mode, con, pstate, rstate>>
=============================================================================
