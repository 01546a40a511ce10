---------------------------- MODULE MCTeeClient -----------------------------
(***************************************************************************)
(* TeeClient with two tasks.  The window has room for the argument and two *)
(* aligned units of two cells: requests exist that fit with room to spare, *)
(* that fill the window exactly, that need one cell too many, and that     *)
(* need more temporary buffers than malloc has.                            *)
(***************************************************************************)
EXTENDS TeeClient, TLC

CONSTANTS t1, t2

P(kind, size) == [kind |-> kind, size |-> size]

\* Like apps/aes and apps/hello_world: goes on when a command fails, as the
\* second one does for want of temporary buffers.
AppA == [open |-> <<>>, stop |-> FALSE,
         cmds |-> << <<P("in", 1), P("out", 2)>>,
                     <<P("in", 0), P("in", 1), P("out", 1)>>,
                     <<P("inout", 1), P("in", 1)>> >>]
\* Like apps/hotp: closes the session when a command fails, as the last one does
\* for want of one cell.
AppB == [open |-> <<>>, stop |-> TRUE,
         cmds |-> << <<P("value", 0), P("out", 1)>>,
                     <<P("out", 2), P("in", 3)>> >>]
\* Opens its session with a parameter larger than the window.
AppD == [open |-> <<P("in", 7)>>, stop |-> FALSE, cmds |-> <<>>]

MCProgram == (t1 :> AppA) @@ (t2 :> AppB)
MCProgramD == (t1 :> AppD) @@ (t2 :> AppA)
MCArgLen == [c \in Calls |-> IF c = "close" THEN 1 ELSE 3]
=============================================================================
