------------------------------ MODULE TaManager ------------------------------
(***************************************************************************)
(* The session manager of the mTower secure world: tee/kernel/entry_std.c, *)
(* tee_ta_manager.c, pseudo_ta.c and user_ta.c, with the open and close    *)
(* entry points of the Trusted Applications under apps/.                   *)
(*                                                                         *)
(* The secure world serves one ioctl at a time (the request loop of        *)
(* secure/main.c).  An ioctl that enters a TA is split where control       *)
(* passes to the TA's entry point and back, because that is when secure    *)
(* services look at current_session.                                       *)
(*                                                                         *)
(* A session id is the address of its tee_ta_session, so memory is         *)
(* modelled: Block is the set of heap blocks, and a freed block may be     *)
(* handed out again.  What is in a block that is not allocated is not      *)
(* kept: sess and ctx have their default value there.                      *)
(***************************************************************************)
EXTENDS Naturals, FiniteSets

CONSTANTS
    Block,       \* the blocks TEE_Malloc can hand out
    NULL,        \* the null pointer, TEE_HANDLE_NULL, session id 0
    Uuid,        \* the UUIDs a client may ask for
    PseudoTA,    \* UUIDs in the pseudo TA section
    UserTA,      \* UUIDs in the user TA section
    StatefulTA,  \* TAs whose open entry point allocates its session data
    NoOpenTA,    \* TAs registered without an open entry point
    WildIds      \* whether clients may also send a session id they never got

ASSUME TAAssumption ==
    /\ NULL \notin Block
    /\ NULL \notin Uuid
    /\ PseudoTA \subseteq Uuid
    /\ UserTA \subseteq Uuid
    /\ StatefulTA \subseteq Uuid
    /\ NoOpenTA \subseteq Uuid \ StatefulTA
    /\ WildIds \in BOOLEAN

VARIABLES
    heap,            \* what each block is allocated for
    sess,            \* the tee_ta_session in a block: its ctx and user_ctx
    ctx,             \* the tee_ta_ctx in a block: its uuid, which fixes its ops
    open_sessions,   \* the list tee_open_sessions
    tee_ctxes,       \* the list tee_ctxes
    current_session, \* the session secure services believe is executing
    phase,           \* where the secure world is in the ioctl it serves
    run,             \* the session whose TA is executing
    reply,           \* the answer written for the last ioctl
    held             \* ids given to clients and not closed since

vars == <<heap, sess, ctx, open_sessions, tee_ctxes, current_session,
          phase, run, reply, held>>

lists == <<open_sessions, tee_ctxes>>
memory == <<heap, sess, ctx>>

TA == PseudoTA \union UserTA
Results == {"SUCCESS", "ITEM_NOT_FOUND", "OUT_OF_MEMORY", "GENERIC",
            "BAD_PARAMETERS"}
Origins == {"NONE", "TEE", "TRUSTED_APP"}
Ops == {"none", "open", "invoke", "close", "other"}
Session == [ctx : Block \union {NULL}, user_ctx : Block \union {NULL}]
Reply == [op : Ops, session : Block \union {NULL},
          ret : Results, origin : Origins]

\* A zero-filled tee_ta_session (TEE_MALLOC_FILL_ZERO and the memset after it).
ZeroSession == [ctx |-> NULL, user_ctx |-> NULL]

FreeBlocks == {b \in Block : heap[b] = "free"}

\* find_session: the list is searched for an entry with that very address.
find_session(id) == IF id \in open_sessions THEN id ELSE NULL

\* The uuid of the TA a session belongs to (sess->ctx->uuid).
UuidOf(s) == ctx[sess[s].ctx]

\* Mutant: the result and its origin are stored in each other's field.
Answer_Swapped(op, s, ret, org) ==
    reply' = [op |-> op, session |-> s, ret |-> org, origin |-> ret]

Answer(op, s, ret, org) ==
    reply' = [op |-> op, session |-> s, ret |-> ret, origin |-> org]

Init ==
    /\ heap = [b \in Block |-> "free"]
    /\ sess = [b \in Block |-> ZeroSession]
    /\ ctx = [b \in Block |-> NULL]
    /\ open_sessions = {}
    /\ tee_ctxes = {}
    /\ current_session = NULL
    /\ phase = "idle"
    /\ run = NULL
    /\ reply = [op |-> "none", session |-> NULL, ret |-> "SUCCESS",
                origin |-> "NONE"]
    /\ held = {}

(***************************************************************************)
(* TEE_IOC_OPEN_SESSION.                                                   *)
(***************************************************************************)

\* tee_ta_init_session fails: no block for the session, no TA with that UUID
\* (pseudo TAs are looked up first, then user TAs), or no block for the TA
\* context.  The session, once allocated, is unlinked and freed again.
OpenFails(u) ==
    /\ phase = "idle"
    /\ \/ /\ FreeBlocks = {}
          /\ Answer("open", NULL, "OUT_OF_MEMORY", "TEE")
       \/ /\ FreeBlocks # {}
          /\ u \notin TA
          /\ Answer("open", NULL, "ITEM_NOT_FOUND", "TEE")
       \/ /\ u \in TA
          /\ \E s \in FreeBlocks : FreeBlocks = {s}
          /\ Answer("open", NULL, "OUT_OF_MEMORY", "TEE")
    /\ UNCHANGED <<memory, lists, current_session, phase, run, held>>

\* Mutant: the session is allocated without being cleared, so its user_ctx is
\* whatever the block held.
OpenEnters_NoZeroFill(u, s, c) ==
    /\ phase = "idle"
    /\ u \in TA
    /\ s \in FreeBlocks /\ c \in FreeBlocks /\ s # c
    /\ heap' = [heap EXCEPT ![s] = "session", ![c] = "ctx"]
    /\ \E d \in Block \union {NULL} :
          sess' = [sess EXCEPT ![s] = [ctx |-> c, user_ctx |-> d]]
    /\ ctx' = [ctx EXCEPT ![c] = u]
    /\ open_sessions' = open_sessions \union {s}
    /\ tee_ctxes' = tee_ctxes \union {c}
    /\ current_session' = s
    /\ phase' = "open"
    /\ run' = s
    /\ UNCHANGED <<reply, held>>

\* tee_ta_init_session succeeds; the TA's open entry point is entered.
OpenEnters(u, s, c) ==
    /\ phase = "idle"
    /\ u \in TA
    /\ s \in FreeBlocks /\ c \in FreeBlocks /\ s # c
    /\ heap' = [heap EXCEPT ![s] = "session", ![c] = "ctx"]
    /\ sess' = [sess EXCEPT ![s] = [ZeroSession EXCEPT !.ctx = c]]
    /\ ctx' = [ctx EXCEPT ![c] = u]
    /\ open_sessions' = open_sessions \union {s}
    /\ tee_ctxes' = tee_ctxes \union {c}
    /\ current_session' = s
    /\ phase' = "open"
    /\ run' = s
    /\ UNCHANGED <<reply, held>>

\* *err as the open path leaves it: tee_ta_init_session sets TEE_ORIGIN_TEE,
\* pseudo_ta_enter_open_session overwrites it, user_ta_enter_open_session
\* does not.
OpenOrigin(u) == IF u \in PseudoTA THEN "TRUSTED_APP" ELSE "TEE"

\* Mutant: a stateful TA does not test the result of its allocation.
OpenAccepted_UncheckedMalloc ==
    LET u == UuidOf(run) IN
    /\ phase = "open"
    /\ \/ /\ u \notin StatefulTA
          /\ u \in NoOpenTA => u \in PseudoTA
          /\ UNCHANGED memory
       \/ /\ u \in StatefulTA
          /\ FreeBlocks = {}
          /\ UNCHANGED memory
       \/ /\ u \in StatefulTA
          /\ \E d \in FreeBlocks :
               /\ heap' = [heap EXCEPT ![d] = "data"]
               /\ sess' = [sess EXCEPT ![run].user_ctx = d]
          /\ UNCHANGED ctx
    /\ Answer("open", run, "SUCCESS", OpenOrigin(u))
    /\ held' = held \union {run}
    /\ phase' = "idle"
    /\ run' = NULL
    /\ UNCHANGED <<lists, current_session>>

\* The TA accepts the session.  A TA without an open entry point accepts when
\* it is a pseudo TA; a stateful TA allocates its session data first.
OpenAccepted ==
    LET u == UuidOf(run) IN
    /\ phase = "open"
    /\ \/ /\ u \in NoOpenTA
          /\ u \in PseudoTA
          /\ UNCHANGED memory
       \/ /\ u \notin NoOpenTA
          /\ u \notin StatefulTA
          /\ UNCHANGED memory
       \/ /\ u \notin NoOpenTA
          /\ u \in StatefulTA
          /\ \E d \in FreeBlocks :
               /\ heap' = [heap EXCEPT ![d] = "data"]
               /\ sess' = [sess EXCEPT ![run].user_ctx = d]
          /\ UNCHANGED ctx
    /\ Answer("open", run, "SUCCESS", OpenOrigin(u))
    /\ held' = held \union {run}
    /\ phase' = "idle"
    /\ run' = NULL
    /\ UNCHANGED <<lists, current_session>>

\* Mutant: the address of the rejected session is sent to the client.
OpenRejected_IdReturned ==
    LET u == UuidOf(run) IN
    /\ phase = "open"
    /\ u \notin NoOpenTA \/ u \notin PseudoTA
    /\ u \in StatefulTA => FreeBlocks = {}
    /\ Answer("open", run, "GENERIC", OpenOrigin(u))
    /\ phase' = "idle"
    /\ run' = NULL
    /\ UNCHANGED <<memory, lists, current_session, held>>

\* The TA rejects the session: it has no open entry point (user TA), the
\* parameter types are not the expected ones (stateless TAs), or there is no
\* block for its session data.  tee_ta_open_session returns the error without
\* closing what tee_ta_init_session built; the client is given id 0.
OpenRejected ==
    LET u == UuidOf(run) IN
    /\ phase = "open"
    /\ \/ /\ u \in NoOpenTA
          /\ u \notin PseudoTA
          /\ Answer("open", NULL, "GENERIC", OpenOrigin(u))
       \/ /\ u \notin NoOpenTA
          /\ u \notin StatefulTA
          /\ Answer("open", NULL, "BAD_PARAMETERS", OpenOrigin(u))
       \/ /\ u \notin NoOpenTA
          /\ u \in StatefulTA
          /\ FreeBlocks = {}
          /\ Answer("open", NULL, "OUT_OF_MEMORY", OpenOrigin(u))
    /\ phase' = "idle"
    /\ run' = NULL
    /\ UNCHANGED <<memory, lists, current_session, held>>

(***************************************************************************)
(* TEE_IOC_INVOKE.                                                         *)
(***************************************************************************)

\* Ids a client may put into a request.
InvokeIds == held \union (IF WildIds THEN Block \union {NULL} ELSE {})
CloseIds == InvokeIds \union {NULL}

\* A stateful TA dereferences the session data the framework hands it.
TaDereferencesNull(s) == UuidOf(s) \in StatefulTA /\ sess[s].user_ctx = NULL

\* copy_in_params refuses the parameters before the session is looked at.
InvokeBadParams(id) ==
    /\ phase = "idle"
    /\ id \in InvokeIds
    /\ Answer("invoke", id, "BAD_PARAMETERS", "NONE")
    /\ UNCHANGED <<memory, lists, current_session, phase, run, held>>

\* tee_ta_invoke_command uses sess->ctx with no test for NULL.
InvokeFaults(id) ==
    /\ phase = "idle"
    /\ id \in InvokeIds
    /\ \/ find_session(id) = NULL
       \/ find_session(id) # NULL /\ TaDereferencesNull(id)
    /\ phase' = "fault"
    /\ UNCHANGED <<memory, lists, current_session, run, reply, held>>

\* Mutant: the current session is not switched on invoke.
InvokeEnters_NoPush(id) ==
    /\ phase = "idle"
    /\ id \in InvokeIds
    /\ find_session(id) # NULL
    /\ ~TaDereferencesNull(id)
    /\ phase' = "invoke"
    /\ run' = id
    /\ UNCHANGED <<memory, lists, current_session, reply, held>>

InvokeEnters(id) ==
    /\ phase = "idle"
    /\ id \in InvokeIds
    /\ find_session(id) # NULL
    /\ ~TaDereferencesNull(id)
    /\ current_session' = id
    /\ phase' = "invoke"
    /\ run' = id
    /\ UNCHANGED <<memory, lists, reply, held>>

\* The TA's command handler returns, GENERIC standing for any error; arg->ret
\* is written, arg->ret_origin is not.
InvokeReturns(ret) ==
    /\ phase = "invoke"
    /\ Answer("invoke", run, ret, "NONE")
    /\ phase' = "idle"
    /\ run' = NULL
    /\ UNCHANGED <<memory, lists, current_session, held>>

(***************************************************************************)
(* TEE_IOC_CLOSE_SESSION.                                                  *)
(***************************************************************************)

\* Id 0, or an id that is not in the list.
CloseUnknown(id) ==
    /\ phase = "idle"
    /\ id \in CloseIds
    /\ find_session(id) = NULL
    /\ Answer("close", id, "ITEM_NOT_FOUND", "NONE")
    /\ UNCHANGED <<memory, lists, current_session, phase, run, held>>

\* The close entry point of a stateful TA reads its session data.
CloseFaults(id) ==
    /\ phase = "idle"
    /\ id \in CloseIds
    /\ find_session(id) # NULL
    /\ TaDereferencesNull(id)
    /\ phase' = "fault"
    /\ UNCHANGED <<memory, lists, current_session, run, reply, held>>

CloseEnters(id) ==
    /\ phase = "idle"
    /\ id \in CloseIds
    /\ find_session(id) # NULL
    /\ ~TaDereferencesNull(id)
    /\ current_session' = id
    /\ phase' = "close"
    /\ run' = id
    /\ UNCHANGED <<memory, lists, reply, held>>

\* Mutant: the TA context is left in tee_ctxes when it is destroyed.
CloseReturns_CtxLinked ==
    LET c == sess[run].ctx
        d == sess[run].user_ctx IN
    /\ phase = "close"
    /\ heap' = [b \in Block |-> IF b \in {run, c, d} THEN "free" ELSE heap[b]]
    /\ sess' = [sess EXCEPT ![run] = ZeroSession]
    /\ ctx' = [ctx EXCEPT ![c] = NULL]
    /\ open_sessions' = open_sessions \ {run}
    /\ held' = held \ {run}
    /\ Answer("close", run, "SUCCESS", "NONE")
    /\ phase' = "idle"
    /\ run' = NULL
    /\ UNCHANGED <<tee_ctxes, current_session>>

\* Mutant: every session with the same TA is unlinked, not only this one.
CloseReturns_AllOfTa ==
    LET c == sess[run].ctx
        d == sess[run].user_ctx IN
    /\ phase = "close"
    /\ heap' = [b \in Block |-> IF b \in {run, c, d} THEN "free" ELSE heap[b]]
    /\ sess' = [sess EXCEPT ![run] = ZeroSession]
    /\ ctx' = [ctx EXCEPT ![c] = NULL]
    /\ open_sessions' = {s \in open_sessions : UuidOf(s) # UuidOf(run)}
    /\ tee_ctxes' = tee_ctxes \ {c}
    /\ held' = held \ {run}
    /\ Answer("close", run, "SUCCESS", "NONE")
    /\ phase' = "idle"
    /\ run' = NULL
    /\ UNCHANGED current_session

\* The TA frees its session data and returns; the session is unlinked and
\* freed, its context is unlinked and destroyed.  current_session keeps
\* pointing at the freed block.
CloseReturns ==
    LET c == sess[run].ctx
        d == sess[run].user_ctx IN
    /\ phase = "close"
    /\ heap' = [b \in Block |-> IF b \in {run, c, d} THEN "free" ELSE heap[b]]
    /\ sess' = [sess EXCEPT ![run] = ZeroSession]
    /\ ctx' = [ctx EXCEPT ![c] = NULL]
    /\ open_sessions' = open_sessions \ {run}
    /\ tee_ctxes' = tee_ctxes \ {c}
    /\ held' = held \ {run}
    /\ Answer("close", run, "SUCCESS", "NONE")
    /\ phase' = "idle"
    /\ run' = NULL
    /\ UNCHANGED current_session

(***************************************************************************)
(* The rest of the interface.                                              *)
(***************************************************************************)

\* ioctl with a command it does not know.
UnknownCommand ==
    /\ phase = "idle"
    /\ Answer("other", NULL, "ITEM_NOT_FOUND", "NONE")
    /\ UNCHANGED <<memory, lists, current_session, phase, run, held>>

\* TEE_Panic, called by the TA or by the internal API on its behalf, never
\* returns: the secure world stops there.
TEE_Panic ==
    /\ phase \in {"invoke", "close"}
    /\ phase' = "panic"
    /\ UNCHANGED <<memory, lists, current_session, run, reply, held>>

\* The endless loop at the end of TEE_Panic, and whatever follows a fault.
Halted ==
    /\ phase \in {"panic", "fault"}
    /\ UNCHANGED vars

Next ==
    \/ \E u \in Uuid : OpenFails(u)
    \/ \E u \in Uuid : \E s, c \in Block : OpenEnters(u, s, c)
    \/ OpenAccepted
    \/ OpenRejected
    \/ \E id \in Block \union {NULL} : InvokeBadParams(id)
    \/ \E id \in Block \union {NULL} : InvokeFaults(id)
    \/ \E id \in Block \union {NULL} : InvokeEnters(id)
    \/ \E ret \in {"SUCCESS", "GENERIC"} : InvokeReturns(ret)
    \/ \E id \in Block \union {NULL} : CloseUnknown(id)
    \/ \E id \in Block \union {NULL} : CloseFaults(id)
    \/ \E id \in Block \union {NULL} : CloseEnters(id)
    \/ CloseReturns
    \/ UnknownCommand
    \/ TEE_Panic
    \/ Halted

Spec == Init /\ [][Next]_vars

-----------------------------------------------------------------------------

TypeOK ==
    /\ heap \in [Block -> {"free", "session", "ctx", "data"}]
    /\ sess \in [Block -> Session]
    /\ ctx \in [Block -> Uuid \union {NULL}]
    /\ open_sessions \subseteq Block
    /\ tee_ctxes \subseteq Block
    /\ current_session \in Block \union {NULL}
    /\ phase \in {"idle", "open", "invoke", "close", "panic", "fault"}
    /\ run \in Block \union {NULL}
    /\ reply \in Reply
    /\ held \subseteq Block

\* Memory and lists agree: what is allocated as a session, a TA context or TA
\* session data is exactly what the session list reaches, so tee_ta_close_session
\* and the failure paths of tee_ta_init_session neither leak a block nor free
\* one that is still linked.
HeapAccounts ==
    /\ \A b \in Block : heap[b] = "session" <=> b \in open_sessions
    /\ \A b \in Block : heap[b] = "ctx" <=> b \in tee_ctxes
    /\ \A b \in Block : heap[b] = "data" <=>
           \E s \in open_sessions : sess[s].user_ctx = b

\* Every open session has a TA context of its own: the context is live and
\* registered, two sessions never share one, and no context is left without its
\* session.  tee_ta_close_session relies on it when it destroys the context
\* without counting references.
OneCtxPerSession ==
    /\ \A s \in open_sessions : sess[s].ctx \in tee_ctxes
    /\ \A s, t \in open_sessions : sess[s].ctx = sess[t].ctx => s = t
    /\ \A c \in tee_ctxes : \E s \in open_sessions : sess[s].ctx = c

\* No two sessions hold the same TA session data, and every session a client was
\* given with a stateful TA has some: a TA never sees the user_ctx a previous
\* session left in a reused block.
OwnSessionData ==
    /\ \A s, t \in open_sessions :
          sess[s].user_ctx = sess[t].user_ctx /\ s # t => sess[s].user_ctx = NULL
    /\ \A s \in held : UuidOf(s) \in StatefulTA <=> sess[s].user_ctx # NULL

\* While a TA executes, the session that secure services find through
\* tee_ta_get_current_session is the one that is executing, and it is open:
\* objects and operations are put on the lists of the right context although
\* tee_ta_pop_current_session restores nothing.
RunningIsCurrent ==
    phase \in {"open", "invoke", "close"} =>
        /\ run \in open_sessions
        /\ current_session = run

\* Every session id a client was given and nobody closed is an open session:
\* find_session cannot fail for it.
HeldIsOpen == held \subseteq open_sessions

\* With clients that only send ids they were given, no request makes the secure
\* world follow a null pointer (tee_ta_invoke_command tests nothing).
NoFault == phase # "fault"

\* A session a client was given leaves tee_open_sessions in one way only: the
\* close of that very session.  No open that fails, no invoke and no close by
\* another client of the same TA takes it away.
EndsOnlyByClose ==
    [][\A s \in held :
        s \notin open_sessions' => phase = "close" /\ run = s]_vars

\* An open is answered with SUCCESS exactly when it hands out an id, and that id
\* is an open session no client held before, although ids are addresses and
\* addresses are reused.
OpenAnswerIsFresh ==
    [][(reply' # reply /\ reply'.op = "open") =>
        /\ reply'.ret = "SUCCESS" <=> reply'.session # NULL
        /\ reply'.ret = "SUCCESS" =>
              reply'.session \in open_sessions' \ held]_vars

\* While the open entry point runs, the new session has no session data yet and
\* is not known to any client (the memset in tee_ta_init_session).
OpeningIsPrivate ==
    phase = "open" => sess[run].user_ctx = NULL /\ run \notin held

\* The inductive invariant of the session manager.
Inv ==
    /\ TypeOK
    /\ HeapAccounts
    /\ OneCtxPerSession
    /\ OwnSessionData
    /\ RunningIsCurrent
    /\ HeldIsOpen
    /\ OpeningIsPrivate

\* The session manager implements TeeService: the session being opened is not
\* there yet for the clients, and a panic or a fault is the end of service.
Service == INSTANCE TeeService WITH
    Id <- Block,
    open <- IF phase = "open" THEN open_sessions \ {run} ELSE open_sessions,
    up <- phase \notin {"panic", "fault"}

\* Every ioctl the session manager serves is one step of TeeService, taken when
\* the answer is written, whatever the TA entry points do in between.
ImplementsService == Service!ServiceSpec
=============================================================================
