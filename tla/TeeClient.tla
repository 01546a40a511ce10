----------------------------- MODULE TeeClient ------------------------------
(***************************************************************************)
(* The normal world: the client applications under apps/ (the tasks of     *)
(* nonsecure/main_ns.c), the client library tee_client_api.c and its       *)
(* RZT2M transport, tee_transport_ioctl, on top of TeeService.             *)
(*                                                                         *)
(* The transport copies a request and the buffers it refers to into one    *)
(* memory window shared with the secure world, makes the hypercall, and    *)
(* copies the answer back.  The window has no lock: tasks are kept apart   *)
(* by the interrupt mask a client task sets around its application.        *)
(*                                                                         *)
(* Buffer contents are abstracted to tags that say who wrote them; values  *)
(* travel inside the request and stand for nothing of their own.           *)
(***************************************************************************)
EXTENDS TeeService, Integers, Sequences, FiniteSets

CONSTANTS
    Task,        \* the client tasks
    NoTask,      \* nobody
    Program,     \* what each task's application does: see Programs
    HeaderLen,   \* sizeof(struct tee_ioctl_buf_data)
    ArgLen,      \* size of the argument of each ioctl, parameters included
    Align,       \* the alignment of what is put into the window
    WindowSize,  \* CROSSCON_TEE_SHMEM_SIZE
    ShmLimit     \* the temporary buffers malloc can provide

Calls == {"open", "invoke", "close"}
Kinds == {"value", "in", "out", "inout"}
Param == [kind : Kinds, size : Nat]
Memref == Kinds \ {"value"}

\* An application opens a session, invokes a list of commands and closes the
\* session.  Some applications skip to the close when a command fails.
Programs == [open : Seq(Param), cmds : Seq(Seq(Param)), stop : BOOLEAN]

\* What an uninitialised TEEC_Session holds as its session_id.
Garbage == "garbage"

ASSUME ClientAssumption ==
    /\ NoTask \notin Task
    /\ Program \in [Task -> Programs]
    /\ HeaderLen \in Nat
    /\ ArgLen \in [Calls -> Nat]
    /\ ArgLen["close"] <= ArgLen["open"]
    /\ Align \in Nat \ {0}
    /\ WindowSize \in Nat
    /\ WindowSize % Align = 0
    /\ HeaderLen <= WindowSize
    /\ ShmLimit \in Nat
    /\ Garbage \notin Id \union {NULL}

\* A reference to the client's own memory; others are positions in the window.
Client == -1

VARIABLES
    mask,     \* the task that has disabled interrupts
    pc,       \* where each task is
    step,     \* the call of its program a task has reached
    session,  \* session_id in each task's TEEC_Session
    opbuf,    \* the buffers the application passes: their size and content
    shm,      \* the temporary buffers of the call
    arg,      \* the ioctl argument the library builds for the call
    copies,   \* where tee_transport_ioctl put the buffers
    cursor,   \* the next free position of the window
    rc,       \* what tee_transport_ioctl returns
    result,   \* what the last call returned to the application
    window,   \* the argument and the buffers in the shared window
    inUse,    \* temporary buffers allocated and not freed
    served,   \* what the secure world did for the task's request
    handed    \* ids returned by a successful open and not closed

taskVars == <<mask, pc, step>>
callVars == <<session, opbuf, shm, arg, copies, cursor, rc, result, inUse>>
ghosts == <<served, handed>>
vars == <<serviceVars, taskVars, callVars, window, ghosts>>

NCmds(t) == Len(Program[t].cmds)
OpOf(t) == IF step[t] = 0 THEN "open"
           ELSE IF step[t] <= NCmds(t) THEN "invoke" ELSE "close"
ParamsOf(t) == CASE OpOf(t) = "open"   -> Program[t].open
                 [] OpOf(t) = "invoke" -> Program[t].cmds[step[t]]
                 [] OpOf(t) = "close"  -> <<>>

ClientTag(t) == <<"client", t>>
TaTag(t) == <<"ta", t>>
Tags == {<<"none">>} \union {ClientTag(t) : t \in Task}
                     \union {TaTag(t) : t \in Task}

NoArg == [session |-> NULL, ret |-> "SUCCESS", origin |-> "NONE",
          params |-> <<>>]
NoServed == [reply |-> NoArg, written |-> <<>>]
NoResult == [op |-> "none", res |-> "SUCCESS", origin |-> "NONE"]

Max2(a, b) == IF a > b THEN a ELSE b
Min2(a, b) == IF a < b THEN a ELSE b

\* memcpy of the first len cells of src over dst; a copy that is longer than dst
\* makes it longer, which is how an overrun shows.
CopyOver(dst, src, len) ==
    [i \in 1..Max2(Len(dst), len) |-> IF i <= len THEN src[i] ELSE dst[i]]

Init ==
    /\ ServiceInit
    /\ mask = NoTask
    /\ pc = [t \in Task |-> "idle"]
    /\ step = [t \in Task |-> 0]
    /\ session = [t \in Task |-> Garbage]
    /\ opbuf = [t \in Task |-> <<>>]
    /\ shm = [t \in Task |-> <<>>]
    /\ arg = [t \in Task |-> NoArg]
    /\ copies = [t \in Task |-> <<>>]
    /\ cursor = [t \in Task |-> 0]
    /\ rc = [t \in Task |-> 0]
    /\ result = [t \in Task |-> NoResult]
    /\ window = [arg |-> NoArg, cell |-> [i \in 0..WindowSize-1 |-> <<"none">>]]
    /\ inUse = 0
    /\ served = [t \in Task |-> NoServed]
    /\ handed = {}

(***************************************************************************)
(* Tasks.                                                                  *)
(***************************************************************************)

\* With interrupts disabled the scheduler cannot switch to another task.
Scheduled(t) == mask \in {NoTask, t}

\* The menu task creates the client task.
xTaskCreate(t) ==
    /\ mask = NoTask
    /\ pc[t] = "idle"
    /\ pc' = [pc EXCEPT ![t] = "ready"]
    /\ UNCHANGED <<serviceVars, mask, step, callVars, window, ghosts>>

\* Mutant: the application runs with interrupts enabled.
BeginCA_NoMask(t) ==
    /\ Scheduled(t)
    /\ pc[t] = "ready"
    /\ pc' = [pc EXCEPT ![t] = "app"]
    /\ step' = [step EXCEPT ![t] = 0]
    /\ session' = [session EXCEPT ![t] = Garbage]
    /\ UNCHANGED <<serviceVars, mask, opbuf, shm, arg, copies, cursor, rc,
                   result, window, inUse, ghosts>>

\* The task is scheduled, disables interrupts and enters its application.
BeginCA(t) ==
    /\ mask = NoTask
    /\ pc[t] = "ready"
    /\ mask' = t
    /\ pc' = [pc EXCEPT ![t] = "app"]
    /\ step' = [step EXCEPT ![t] = 0]
    /\ session' = [session EXCEPT ![t] = Garbage]
    /\ UNCHANGED <<serviceVars, opbuf, shm, arg, copies, cursor, rc, result,
                   window, inUse, ghosts>>

\* Mutant: a task that is done does not enable interrupts again.
EndCA_MaskKept(t) ==
    /\ Scheduled(t)
    /\ pc[t] = "app"
    /\ step[t] = NCmds(t) + 2
    /\ pc' = [pc EXCEPT ![t] = "idle"]
    /\ UNCHANGED <<serviceVars, mask, step, callVars, window, ghosts>>

\* The application returns; the task enables interrupts and deletes itself.
EndCA(t) ==
    /\ Scheduled(t)
    /\ pc[t] = "app"
    /\ step[t] = NCmds(t) + 2
    /\ mask' = NoTask
    /\ pc' = [pc EXCEPT ![t] = "idle"]
    /\ UNCHANGED <<serviceVars, step, callVars, window, ghosts>>

(***************************************************************************)
(* The client library, up to the transport.                                *)
(***************************************************************************)

Refs(ps) == {n \in 1..Len(ps) : ps[n].kind \in Memref}
Outs(ps) == {n \in 1..Len(ps) : ps[n].kind \in {"out", "inout"}}

Filled(t, size) == [i \in 1..size |-> ClientTag(t)]

\* An application that cuts its list of commands short goes on with the close.
NextStep(t, res) ==
    IF OpOf(t) = "invoke" /\ Program[t].stop /\ res # "SUCCESS"
    THEN NCmds(t) + 1 ELSE step[t] + 1

\* TEEC_OpenSession, TEEC_InvokeCommand, TEEC_CloseSession up to the transport:
\* a temporary buffer is allocated for every memory reference, output or not,
\* and filled from the application's buffer.
PreProcess(t) ==
    LET ps == ParamsOf(t)
        ids == IF session[t] = Garbage THEN Id \union {NULL} ELSE {session[t]}
    IN
    /\ Scheduled(t)
    /\ pc[t] = "app"
    /\ step[t] <= NCmds(t) + 1
    /\ inUse + Cardinality(Refs(ps)) <= ShmLimit
    /\ inUse' = inUse + Cardinality(Refs(ps))
    /\ opbuf' = [opbuf EXCEPT ![t] = [n \in 1..Len(ps) |->
                    [cap |-> ps[n].size, size |-> ps[n].size,
                     data |-> Filled(t, ps[n].size)]]]
    /\ shm' = [shm EXCEPT ![t] = [n \in 1..Len(ps) |-> Filled(t, ps[n].size)]]
    /\ \E id \in IF OpOf(t) = "open" THEN {NULL} ELSE ids :
          arg' = [arg EXCEPT ![t] = [NoArg EXCEPT
                    !.session = id,
                    !.params = [n \in 1..Len(ps) |->
                       [kind |-> ps[n].kind, size |-> ps[n].size,
                        ptr |-> Client]]]]
    /\ pc' = [pc EXCEPT ![t] = "transport"]
    /\ UNCHANGED <<serviceVars, mask, step, session, copies, cursor, rc, result,
                   window, ghosts>>

\* malloc fails for one of the temporary buffers.  TEEC_InvokeCommand releases
\* the ones it got, TEEC_OpenSession does not.
PreProcessFails(t) ==
    LET ps == ParamsOf(t) IN
    /\ Scheduled(t)
    /\ pc[t] = "app"
    /\ step[t] <= NCmds(t) + 1
    /\ inUse + Cardinality(Refs(ps)) > ShmLimit
    /\ inUse' = IF OpOf(t) = "open" THEN ShmLimit ELSE inUse
    /\ result' = [result EXCEPT ![t] = [op |-> OpOf(t), res |-> "OUT_OF_MEMORY",
                                        origin |-> "API"]]
    /\ step' = [step EXCEPT ![t] = NextStep(t, "OUT_OF_MEMORY")]
    /\ UNCHANGED <<serviceVars, mask, pc, session, opbuf, shm, arg, copies,
                   cursor, rc, window, ghosts>>

\* An application that goes on after a failed open passes a TEEC_Session that was
\* never set.  Its ctx is null (the library refuses the first memory reference),
\* or refers to a reg_mem that is set (PreProcess), or to one that is not: then
\* nothing is allocated and the buffer is copied to address 0.
UnsetContext(t) ==
    /\ Scheduled(t)
    /\ pc[t] = "app"
    /\ OpOf(t) = "invoke"
    /\ session[t] = Garbage
    /\ Refs(ParamsOf(t)) # {}
    /\ \/ /\ result' = [result EXCEPT ![t] =
                   [op |-> "invoke", res |-> "BAD_PARAMETERS", origin |-> "API"]]
          /\ step' = [step EXCEPT ![t] = NextStep(t, "BAD_PARAMETERS")]
          /\ UNCHANGED pc
       \/ /\ pc' = [pc EXCEPT ![t] = "hung"]
          /\ UNCHANGED <<result, step>>
    /\ UNCHANGED <<serviceVars, mask, session, opbuf, shm, arg, copies, cursor,
                   rc, inUse, window, ghosts>>

(***************************************************************************)
(* tee_transport_ioctl.                                                    *)
(***************************************************************************)

align_up(v) == ((v + Align - 1) \div Align) * Align

TransportFails(t) ==
    /\ rc' = [rc EXCEPT ![t] = -1]
    /\ pc' = [pc EXCEPT ![t] = "return"]

\* The argument is copied into the window, behind the descriptor.
CopyArg(t) ==
    LET first == align_up(HeaderLen)
        len == ArgLen[OpOf(t)] IN
    /\ Scheduled(t)
    /\ pc[t] = "transport"
    /\ \/ /\ len > WindowSize - first
          /\ TransportFails(t)
          /\ UNCHANGED <<window, cursor>>
       \/ /\ len <= WindowSize - first
          /\ window' = [window EXCEPT !.arg = arg[t]]
          /\ cursor' = [cursor EXCEPT ![t] = align_up(first + len)]
          /\ pc' = [pc EXCEPT ![t] = "place"]
          /\ UNCHANGED rc
    /\ UNCHANGED <<serviceVars, mask, step, session, opbuf, shm, arg, copies,
                   result, inUse, ghosts>>

\* Mutant: the size is checked against the whole window, not what is left of it.
CopyParam_NoRest(t) ==
    LET n == Len(copies[t]) + 1
        p == arg[t].params[n] IN
    /\ Scheduled(t)
    /\ pc[t] = "place"
    /\ n <= Len(arg[t].params)
    /\ \/ /\ p.kind \in Memref
          /\ p.size > WindowSize
          /\ TransportFails(t)
          /\ UNCHANGED <<window, cursor, copies>>
       \/ /\ p.kind \in Memref
          /\ p.size <= WindowSize
          /\ window' = [window EXCEPT !.arg.params[n].ptr = cursor[t]]
          /\ copies' = [copies EXCEPT ![t] =
                          Append(@, [off |-> cursor[t], cap |-> p.size])]
          /\ cursor' = [cursor EXCEPT ![t] = align_up(cursor[t] + p.size)]
          /\ UNCHANGED <<rc, pc>>
       \/ /\ p.kind \notin Memref
          /\ copies' = [copies EXCEPT ![t] = Append(@, [off |-> 0, cap |-> 0])]
          /\ UNCHANGED <<window, cursor, rc, pc>>
    /\ UNCHANGED <<serviceVars, mask, step, session, opbuf, shm, arg, result,
                   inUse, ghosts>>

\* The next parameter: a memory reference gets a place in the window, and its
\* content unless it is output only.  When it does not fit the transport gives
\* up, with the window already overwritten.
CopyParam(t) ==
    LET n == Len(copies[t]) + 1
        p == arg[t].params[n] IN
    /\ Scheduled(t)
    /\ pc[t] = "place"
    /\ n <= Len(arg[t].params)
    /\ \/ /\ p.kind \in Memref
          /\ p.size > WindowSize - cursor[t]
          /\ TransportFails(t)
          /\ UNCHANGED <<window, cursor, copies>>
       \/ /\ p.kind \in Memref
          /\ p.size <= WindowSize - cursor[t]
          /\ window' = [window EXCEPT
                !.arg.params[n].ptr = cursor[t],
                !.cell = [i \in DOMAIN @ |->
                   IF /\ p.kind # "out"
                      /\ i \in cursor[t] .. cursor[t] + p.size - 1
                   THEN shm[t][n][i - cursor[t] + 1] ELSE @[i]]]
          /\ copies' = [copies EXCEPT ![t] =
                          Append(@, [off |-> cursor[t], cap |-> p.size])]
          /\ cursor' = [cursor EXCEPT ![t] = align_up(cursor[t] + p.size)]
          /\ UNCHANGED <<rc, pc>>
       \/ /\ p.kind \notin Memref
          /\ copies' = [copies EXCEPT ![t] = Append(@, [off |-> 0, cap |-> 0])]
          /\ UNCHANGED <<window, cursor, rc, pc>>
    /\ UNCHANGED <<serviceVars, mask, step, session, opbuf, shm, arg, result,
                   inUse, ghosts>>

AllPlaced(t) == pc[t] = "place" /\ Len(copies[t]) = Len(arg[t].params)

(***************************************************************************)
(* The hypercall: the secure world serves the request in the window.       *)
(***************************************************************************)

\* What a TA may do to an output buffer of a command: leave it alone, fill it,
\* return less, or ask for more room than there is (TEE_ERROR_SHORT_BUFFER).
Effects == {"keep", "fill", "part", "grow"}
Written(e, p) == CASE e = "fill" -> p.size
                   [] e = "part" -> Min2(1, p.size)
                   [] OTHER      -> 0
NewSize(e, p) == CASE e = "part" -> Min2(1, p.size)
                   [] e = "grow" -> p.size + 1
                   [] OTHER      -> p.size

\* Cell i of the window belongs to what the TA writes.
TaWrites(e, i) ==
    \E n \in Outs(window.arg.params) :
        LET p == window.arg.params[n] IN
        p.ptr # Client /\ i \in p.ptr .. p.ptr + Written(e, p) - 1

\* The answer is written over the argument: an open also returns the id and the
\* origin, an invoke the result and the sizes, a close nothing at all.
AnswerArg(t, e) ==
    LET a == window.arg IN
    CASE OpOf(t) = "open" ->
           [a EXCEPT !.session = reply'.session, !.ret = reply'.ret,
                     !.origin = reply'.origin]
      [] OpOf(t) = "invoke" ->
           [a EXCEPT !.ret = reply'.ret,
                     !.params = [n \in DOMAIN @ |->
                        IF n \in Outs(a.params)
                        THEN [a.params[n] EXCEPT !.size = NewSize(e, a.params[n])]
                        ELSE a.params[n]]]
      [] OpOf(t) = "close" -> a

Serve(t) ==
    LET id == window.arg.session IN
    /\ Scheduled(t)
    /\ AllPlaced(t)
    /\ \E e \in Effects :
       /\ \/ /\ OpOf(t) = "open"
             /\ e = "keep"
             /\ (\E i \in Id : Open(i)) \/ (\E ret \in Errors : OpenRefused(ret))
          \/ /\ OpOf(t) = "invoke"
             /\ \E ret \in Results : Invoke(id, ret)
          \/ /\ OpOf(t) = "invoke"
             /\ e = "keep"
             /\ InvokeRefused(id)
          \/ /\ OpOf(t) = "close"
             /\ e = "keep"
             /\ Close(id) \/ CloseUnknown(id)
       /\ window' = [arg |-> AnswerArg(t, e),
                     cell |-> [i \in DOMAIN window.cell |->
                        IF TaWrites(e, i) THEN TaTag(t) ELSE window.cell[i]]]
       /\ served' = [served EXCEPT ![t] = [reply |-> AnswerArg(t, e),
                        written |-> [n \in DOMAIN window.arg.params |->
                                       Written(e, window.arg.params[n])]]]
    /\ handed' = IF OpOf(t) = "open" THEN handed \union ({reply'.session} \ {NULL})
                 ELSE IF OpOf(t) = "close" THEN handed \ {id} ELSE handed
    /\ pc' = [pc EXCEPT ![t] = "answered"]
    /\ UNCHANGED <<mask, step, callVars>>

\* The secure world stops while it serves the request: the hypercall never
\* returns, and the task holds the interrupt mask for ever.
ServeStops(t) ==
    /\ Scheduled(t)
    /\ AllPlaced(t)
    /\ OpOf(t) # "open"
    /\ Stop
    /\ pc' = [pc EXCEPT ![t] = "hung"]
    /\ UNCHANGED <<mask, step, callVars, window, ghosts>>

(***************************************************************************)
(* Back in tee_transport_ioctl and the client library.                     *)
(***************************************************************************)

\* Mutant: the size the secure world returned is clamped to the window.
BackLen_Window(t, n) ==
    Min2(window.arg.params[n].size, WindowSize - copies[t][n].off)

\* How much of a buffer is copied back: never more than went in.
BackLen(t, n) == Min2(window.arg.params[n].size, copies[t][n].cap)

\* The argument with its references turned back into the client's buffers.
Repaired(t) ==
    [window.arg EXCEPT !.params = [n \in DOMAIN @ |->
        IF n \in Refs(arg[t].params) THEN [@[n] EXCEPT !.ptr = Client] ELSE @[n]]]

CopyBack(t) ==
    /\ Scheduled(t)
    /\ pc[t] = "answered"
    /\ shm' = [shm EXCEPT ![t] = [n \in DOMAIN @ |->
          IF n \in Outs(arg[t].params)
          THEN CopyOver(@[n], [i \in 1..BackLen(t, n) |->
                                 window.cell[copies[t][n].off + i - 1]],
                        BackLen(t, n))
          ELSE @[n]]]
    /\ arg' = [arg EXCEPT ![t] = Repaired(t)]
    /\ pc' = [pc EXCEPT ![t] = "return"]
    /\ UNCHANGED <<serviceVars, mask, step, session, opbuf, copies, cursor, rc,
                   result, window, inUse, ghosts>>

\* teec_post_process_operation: what the application finds in its buffers.
post_process(t) ==
    [n \in DOMAIN opbuf[t] |->
        IF n \in Outs(arg[t].params)
        THEN [opbuf[t][n] EXCEPT
                !.size = arg[t].params[n].size,
                !.data = IF arg[t].params[n].size <= opbuf[t][n].size
                         THEN CopyOver(@, shm[t][n], arg[t].params[n].size)
                         ELSE @]
        ELSE opbuf[t][n]]

\* What the call returns.  A transport that failed is an error of
\* TEEC_InvokeCommand; TEEC_OpenSession still holds the result of the
\* pre-processing, which was a success.
ResultOf(t) ==
    [op |-> OpOf(t),
     res |-> CASE rc[t] = 0          -> arg[t].ret
               [] OpOf(t) = "invoke" -> "COMMUNICATION"
               [] OTHER              -> "SUCCESS",
     origin |-> IF rc[t] = 0 THEN arg[t].origin ELSE "COMMS"]

\* Mutant: the temporary buffers of an invoke are kept when the transport fails.
Released_OnSuccess(t) ==
    IF OpOf(t) = "invoke" /\ rc[t] = 0 THEN Cardinality(Refs(ParamsOf(t))) ELSE 0

\* teec_free_temp_refs is called by TEEC_InvokeCommand only.
Released(t) ==
    IF OpOf(t) = "invoke" THEN Cardinality(Refs(ParamsOf(t))) ELSE 0

\* session_id after the call: set by an open that succeeded, cleared by a close.
NewSession(t) ==
    CASE OpOf(t) = "open" /\ rc[t] = 0 /\ arg[t].ret = "SUCCESS" -> arg[t].session
      [] OpOf(t) = "close" /\ rc[t] = 0 -> NULL
      [] OTHER -> session[t]

\* The call returns; what was local to it is gone.
Return(t) ==
    /\ Scheduled(t)
    /\ pc[t] = "return"
    /\ result' = [result EXCEPT ![t] = ResultOf(t)]
    /\ session' = [session EXCEPT ![t] = NewSession(t)]
    /\ opbuf' = [opbuf EXCEPT ![t] = IF rc[t] = 0 THEN post_process(t) ELSE @]
    /\ inUse' = inUse - Released(t)
    /\ step' = [step EXCEPT ![t] = NextStep(t, ResultOf(t).res)]
    /\ pc' = [pc EXCEPT ![t] = "app"]
    /\ shm' = [shm EXCEPT ![t] = <<>>]
    /\ arg' = [arg EXCEPT ![t] = NoArg]
    /\ copies' = [copies EXCEPT ![t] = <<>>]
    /\ cursor' = [cursor EXCEPT ![t] = 0]
    /\ rc' = [rc EXCEPT ![t] = 0]
    /\ served' = [served EXCEPT ![t] = NoServed]
    /\ UNCHANGED <<serviceVars, mask, window, handed>>

\* Nothing runs any more: the task that is stuck keeps the processor.
Hung ==
    /\ \E t \in Task : pc[t] = "hung"
    /\ UNCHANGED vars

TaskNext(t) ==
    \/ PreProcess(t) \/ PreProcessFails(t) \/ UnsetContext(t)
    \/ CopyArg(t) \/ CopyParam(t)
    \/ Serve(t) \/ ServeStops(t)
    \/ CopyBack(t) \/ Return(t)
    \/ EndCA(t)

Next ==
    \/ \E t \in Task : xTaskCreate(t)
    \/ \E t \in Task : BeginCA(t)
    \/ \E t \in Task : TaskNext(t)
    \/ Hung

\* A task whose application runs is not preempted for ever, and the tasks that
\* are ready, all of one priority, are taken in turn.
Fairness ==
    /\ \A t \in Task : WF_vars(TaskNext(t))
    /\ \A t \in Task : SF_vars(BeginCA(t))

Spec == Init /\ [][Next]_vars /\ Fairness

-----------------------------------------------------------------------------

TypeOK ==
    /\ open \subseteq Id
    /\ up \in BOOLEAN
    /\ mask \in Task \union {NoTask}
    /\ pc \in [Task -> {"idle", "ready", "app", "transport", "place", "hung",
                       "answered", "return"}]
    /\ step \in [Task -> Nat]
    /\ session \in [Task -> Id \union {NULL, Garbage}]
    /\ cursor \in [Task -> 0..WindowSize]
    /\ rc \in [Task -> {0, -1}]
    /\ inUse \in 0..ShmLimit
    /\ handed \subseteq Id

\* The answer a call hands on is the answer the secure world wrote for that very
\* request: result, session id and sizes, and every byte the TA wrote into an
\* output buffer that was large enough.  All tasks share one window.
OwnAnswer ==
    \A t \in Task : pc[t] = "return" /\ rc[t] = 0 =>
        LET r == served[t].reply IN
        /\ arg[t].session = r.session /\ arg[t].ret = r.ret
        /\ arg[t].origin = r.origin
        /\ \A n \in Outs(ParamsOf(t)) :
              /\ arg[t].params[n].size = r.params[n].size
              /\ \A i \in 1..served[t].written[n] : shm[t][n][i] = TaTag(t)

\* No copy back from the window runs past the buffer it goes to, whatever size
\* the secure world returned: neither into the temporary buffer nor into the
\* application's.
NoOverrun ==
    \A t \in Task : \A n \in DOMAIN opbuf[t] :
        /\ Len(opbuf[t][n].data) = opbuf[t][n].cap
        /\ n \in DOMAIN shm[t] => Len(shm[t][n]) = opbuf[t][n].cap

\* Where the argument of the request ends.
ArgEnd(t) == align_up(HeaderLen) + ArgLen[OpOf(t)]

\* The areas of s lie between lo and hi, each behind the ones before it.
Laid(s, lo, hi) ==
    \A n \in DOMAIN s :
        /\ s[n].off + s[n].cap <= hi
        /\ s[n].off # 0 =>
              /\ s[n].off >= lo
              /\ \A m \in 1..n-1 : s[m].off + s[m].cap <= s[n].off

\* The buffers of a request lie inside the window, behind the argument, and do
\* not overlap, for every combination of sizes the transport accepts.
AreasInWindow == \A t \in Task : Laid(copies[t], ArgEnd(t), WindowSize)

\* No temporary buffer is left when no application runs, whichever call failed
\* and where (for applications that open their session without parameters).
ShmReturned == mask = NoTask => inUse = 0

\* An application that ends has closed the session it opened, whatever its
\* commands returned.
SessionsReturned == mask = NoTask => handed = {}

\* Whatever a task acquired, in this world or in the other, it has given back
\* when it lets the next one run, however its calls failed.
Returned == ShmReturned /\ SessionsReturned

\* A task the menu created gets its turn and finishes, unless the secure world
\* stops or an application crashes: a task that is done lets the others in, and
\* no refused or failed call leaves one waiting.
TaskFinishes ==
    \A t \in Task : pc[t] = "ready" ~>
        (pc[t] = "idle" \/ \E u \in Task : pc[u] = "hung")

\* The parameters of a request as the transport finds them.
ArgParam == [kind : Kinds, size : Nat, ptr : Int]
ArgParams == Seq(ArgParam)

\* Why the buffers stay inside the window: what has been placed lies below the
\* cursor, and the cursor, aligned or not, never leaves a window whose size is a
\* multiple of the alignment.
LayoutInv ==
    /\ pc \in [Task -> {"idle", "ready", "app", "transport", "place", "hung",
                       "answered", "return"}]
    /\ step \in [Task -> Nat]
    /\ copies \in [Task -> Seq([off : Nat, cap : Nat])]
    /\ cursor \in [Task -> 0..WindowSize]
    /\ arg = [t \in Task |-> arg[t]]
    /\ \A t \in Task :
          /\ pc[t] \in {"transport", "place"} => arg[t].params \in ArgParams
          /\ pc[t] \in {"idle", "ready", "app", "transport"} => copies[t] = <<>>
          /\ pc[t] = "place" => cursor[t] >= ArgEnd(t)
          /\ Laid(copies[t], ArgEnd(t), cursor[t])

\* A task is inside its application only while it masks interrupts, so no two
\* tasks are between building a request and reading its answer.
OneApplication ==
    /\ mask \in Task \union {NoTask}
    /\ \A t \in Task : mask = t <=> pc[t] \notin {"idle", "ready"}

\* tee_client_api.h on TEEC_OpenSession: "@return TEEC_SUCCESS OpenSession
\* successfully opened a new session."
OpenSuccessIsSession ==
    \A t \in Task :
        pc[t] = "app" /\ result[t].op = "open" /\ result[t].res = "SUCCESS"
        /\ step[t] = 1 => session[t] \in handed
=============================================================================
