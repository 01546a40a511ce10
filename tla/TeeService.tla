----------------------------- MODULE TeeService -----------------------------
(***************************************************************************)
(* What the secure world promises to its clients: an abstract view of the  *)
(* three ioctls of tee/kernel/entry_std.c.  Each request is answered in    *)
(* one step.  TaManager implements this specification; TeeClient is built  *)
(* on it.                                                                  *)
(***************************************************************************)
CONSTANTS
    Id,      \* the session ids there are
    NULL     \* id 0

ASSUME IdAssumption == NULL \notin Id

VARIABLES
    open,    \* the sessions the secure world keeps
    reply,   \* the answer to the last request
    up       \* FALSE once the secure world has stopped answering

serviceVars == <<open, reply, up>>

Errors == {"ITEM_NOT_FOUND", "OUT_OF_MEMORY", "GENERIC", "BAD_PARAMETERS"}
Results == Errors \union {"SUCCESS"}
OpenOrigins == {"TEE", "TRUSTED_APP"}

Answer(op, id, ret, org) ==
    reply' = [op |-> op, session |-> id, ret |-> ret, origin |-> org]

ServiceInit ==
    /\ open = {}
    /\ reply = [op |-> "none", session |-> NULL, ret |-> "SUCCESS",
                origin |-> "NONE"]
    /\ up = TRUE

\* A successful open hands out an id that no session has.
Open(id) ==
    /\ up
    /\ id \in Id \ open
    /\ open' = open \union {id}
    /\ \E org \in OpenOrigins : Answer("open", id, "SUCCESS", org)
    /\ UNCHANGED up

\* An open that fails hands out id 0.  When it was the TA that rejected it, a
\* session nobody has the id of may stay behind.
OpenRefused(ret) ==
    /\ up
    /\ ret \in Errors
    /\ \/ UNCHANGED open
       \/ \E id \in Id \ open : open' = open \union {id}
    /\ \E org \in OpenOrigins : Answer("open", NULL, ret, org)
    /\ UNCHANGED up

\* A command is executed for the session it names, which must be open.
Invoke(id, ret) ==
    /\ up
    /\ id \in open
    /\ ret \in {"SUCCESS", "GENERIC"}
    /\ Answer("invoke", id, ret, "NONE")
    /\ UNCHANGED <<open, up>>

\* Parameters may be refused before the session is looked at.
InvokeRefused(id) ==
    /\ up
    /\ Answer("invoke", id, "BAD_PARAMETERS", "NONE")
    /\ UNCHANGED <<open, up>>

\* Close ends the session it names and no other.
Close(id) ==
    /\ up
    /\ id \in open
    /\ open' = open \ {id}
    /\ Answer("close", id, "SUCCESS", "NONE")
    /\ UNCHANGED up

CloseUnknown(id) ==
    /\ up
    /\ id \notin open
    /\ Answer("close", id, "ITEM_NOT_FOUND", "NONE")
    /\ UNCHANGED <<open, up>>

UnknownCommand ==
    /\ up
    /\ Answer("other", NULL, "ITEM_NOT_FOUND", "NONE")
    /\ UNCHANGED <<open, up>>

\* A TA panics or the secure world faults: this request, and every later one,
\* is never answered.
Stop ==
    /\ up
    /\ up' = FALSE
    /\ UNCHANGED <<open, reply>>

ServiceNext ==
    \/ \E id \in Id : Open(id)
    \/ \E ret \in Errors : OpenRefused(ret)
    \/ \E id \in Id : \E ret \in Results : Invoke(id, ret)
    \/ \E id \in Id \union {NULL} : InvokeRefused(id)
    \/ \E id \in Id : Close(id)
    \/ \E id \in Id \union {NULL} : CloseUnknown(id)
    \/ UnknownCommand
    \/ Stop

ServiceSpec == ServiceInit /\ [][ServiceNext]_serviceVars
=============================================================================
