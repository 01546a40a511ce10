-------------------------- MODULE TaManagerProofs --------------------------
(***************************************************************************)
(* Proofs that the session manager keeps its invariant for every heap,     *)
(* every set of Trusted Applications and every number of clients.          *)
(***************************************************************************)
EXTENDS TaManager, TLAPS

\* The initial state, everything free and no session open, has the invariant.
LEMMA InitInv == Init => Inv
  BY TAAssumption DEF Init, Inv, TypeOK, HeapAccounts, OneCtxPerSession,
     OwnSessionData, RunningIsCurrent, HeldIsOpen, OpeningIsPrivate,
     Session, ZeroSession, Reply, Results, Origins, Ops

\* A step that changes neither memory, lists nor the ids clients hold keeps the
\* structural part of the invariant.
LEMMA FrameInv ==
  ASSUME Inv, UNCHANGED <<memory, lists, held>>,
         TypeOK', RunningIsCurrent', OpeningIsPrivate'
  PROVE  Inv'
  BY DEF Inv, memory, lists, HeapAccounts, OneCtxPerSession, OwnSessionData,
     HeldIsOpen, UuidOf

\* Every handler of entry_std.c, at every point where control passes to a TA and
\* back, keeps the invariant.
LEMMA NextInv == Inv /\ [Next]_vars => Inv'
  <1> SUFFICES ASSUME Inv, [Next]_vars PROVE Inv'
    OBVIOUS
  <1> USE TAAssumption DEF Inv
  <1>1. ASSUME NEW u \in Uuid, OpenFails(u)
        PROVE  Inv'
    <2>1. TypeOK'
      BY <1>1 DEF OpenFails, Answer, memory, lists, TypeOK, Reply,
         Results, Origins, Ops, RunningIsCurrent
    <2>2. RunningIsCurrent' /\ OpeningIsPrivate'
      BY <1>1 DEF OpenFails, Answer, memory, lists, TypeOK,
         RunningIsCurrent, OpeningIsPrivate
    <2> QED
      BY <1>1, <2>1, <2>2, FrameInv DEF OpenFails
  <1>2. ASSUME NEW u \in Uuid, NEW s \in Block, NEW c \in Block,
               OpenEnters(u, s, c)
        PROVE  Inv'
    <2>1. TypeOK'
      BY <1>2 DEF OpenEnters, FreeBlocks, ZeroSession, TypeOK, Session,
         Reply
    <2>2. HeapAccounts'
      BY <1>2 DEF OpenEnters, FreeBlocks, ZeroSession, TypeOK, Session,
         HeapAccounts
    <2>3. OneCtxPerSession'
      BY <1>2 DEF OpenEnters, FreeBlocks, ZeroSession, TypeOK, Session,
         HeapAccounts, OneCtxPerSession
    <2>4. OwnSessionData'
      BY <1>2 DEF OpenEnters, FreeBlocks, ZeroSession, TypeOK, Session,
         HeapAccounts, OneCtxPerSession, OwnSessionData, HeldIsOpen,
         UuidOf
    <2>5. RunningIsCurrent'
      BY <1>2 DEF OpenEnters, FreeBlocks, ZeroSession, RunningIsCurrent
    <2>6. HeldIsOpen'
      BY <1>2 DEF OpenEnters, FreeBlocks, ZeroSession, HeldIsOpen
    <2>7. OpeningIsPrivate'
      BY <1>2 DEF OpenEnters, FreeBlocks, ZeroSession, TypeOK,
         HeapAccounts, OpeningIsPrivate, HeldIsOpen
    <2> QED
      BY <2>1, <2>2, <2>3, <2>4, <2>5, <2>6, <2>7
  <1>3. ASSUME OpenAccepted PROVE Inv'
    <2> DEFINE u == UuidOf(run)
    <2>0. run \in open_sessions /\ run \in Block /\ sess[run] \in Session
      BY <1>3 DEF OpenAccepted, RunningIsCurrent, TypeOK
    <2>1. TypeOK'
      BY <1>3 DEF OpenAccepted, Answer, OpenOrigin, FreeBlocks, memory, lists,
         TypeOK, Session, Reply, Results, Origins, Ops, RunningIsCurrent
    <2>2. CASE UNCHANGED memory /\ u \notin StatefulTA
      BY <1>3, <2>0, <2>1, <2>2 DEF OpenAccepted, memory, lists, HeapAccounts,
         OneCtxPerSession, OwnSessionData, RunningIsCurrent, HeldIsOpen,
         OpeningIsPrivate, UuidOf
    <2>3. CASE UNCHANGED memory /\ u \in StatefulTA
      BY <1>3, <2>3 DEF OpenAccepted, memory, FreeBlocks, TypeOK
    <2>4. ASSUME NEW d \in FreeBlocks, u \in StatefulTA,
                 heap' = [heap EXCEPT ![d] = "data"],
                 sess' = [sess EXCEPT ![run].user_ctx = d],
                 UNCHANGED ctx
          PROVE Inv'
      <3>1. d \in Block /\ d \notin open_sessions /\ d \notin tee_ctxes
            /\ \A s \in open_sessions : sess[s].user_ctx # d
        BY <2>4 DEF FreeBlocks, HeapAccounts
      <3>2. /\ sess'[run].user_ctx = d /\ sess'[run].ctx = sess[run].ctx
            /\ \A s \in Block : s # run => sess'[s] = sess[s]
            /\ \A s \in Block : sess'[s].ctx = sess[s].ctx
        BY <2>0, <2>4, <3>1 DEF TypeOK, Session
      <3>3. sess[run].user_ctx = NULL /\ run \notin held
        BY <1>3 DEF OpenAccepted, OpeningIsPrivate
      <3>4. UNCHANGED <<open_sessions, tee_ctxes, current_session>>
            /\ held' = held \union {run} /\ phase' = "idle" /\ run' = NULL
        BY <1>3 DEF OpenAccepted, lists
      <3>5. HeapAccounts'
        BY <2>0, <2>4, <3>1, <3>2, <3>3, <3>4 DEF HeapAccounts, TypeOK
      <3>6. OneCtxPerSession'
        BY <2>0, <3>2, <3>4 DEF OneCtxPerSession, TypeOK
      <3>7. OwnSessionData'
        <4>1. \A s \in open_sessions : UuidOf(s)' = UuidOf(s)
          BY <2>4, <3>2 DEF UuidOf, TypeOK
        <4>2. \A s, t \in open_sessions' :
                 (sess[s].user_ctx)' = (sess[t].user_ctx)' /\ s # t
                   => (sess[s].user_ctx)' = NULL
          BY <2>0, <3>1, <3>2, <3>4 DEF OwnSessionData, TypeOK
        <4>3. \A s \in held' : UuidOf(s)' \in StatefulTA <=> (sess[s].user_ctx)' # NULL
          BY <2>0, <2>4, <3>1, <3>2, <3>4, <4>1 DEF OwnSessionData, HeldIsOpen, TypeOK
        <4> QED BY <4>2, <4>3 DEF OwnSessionData
      <3> QED BY <2>1, <3>4, <3>5, <3>6, <3>7, <2>0
             DEF RunningIsCurrent, HeldIsOpen, OpeningIsPrivate
    <2> QED BY <1>3, <2>2, <2>3, <2>4 DEF OpenAccepted
  <1>4. ASSUME OpenRejected
        PROVE  Inv'
    <2>1. TypeOK'
      BY <1>4 DEF OpenRejected, Answer, OpenOrigin, memory, lists,
         TypeOK, Reply, Results, Origins, Ops, RunningIsCurrent
    <2>2. RunningIsCurrent' /\ OpeningIsPrivate'
      BY <1>4 DEF OpenRejected, Answer, OpenOrigin, memory, lists,
         TypeOK, RunningIsCurrent, OpeningIsPrivate
    <2> QED
      BY <1>4, <2>1, <2>2, FrameInv DEF OpenRejected
  <1>5. ASSUME NEW id \in Block \union {NULL}, InvokeBadParams(id)
        PROVE  Inv'
    <2>1. TypeOK'
      BY <1>5 DEF InvokeBadParams, Answer, memory, lists, TypeOK,
         Reply, Results, Origins, Ops, RunningIsCurrent
    <2>2. RunningIsCurrent' /\ OpeningIsPrivate'
      BY <1>5 DEF InvokeBadParams, Answer, memory, lists, TypeOK,
         RunningIsCurrent, OpeningIsPrivate
    <2> QED
      BY <1>5, <2>1, <2>2, FrameInv DEF InvokeBadParams
  <1>6. ASSUME NEW id \in Block \union {NULL}, InvokeFaults(id)
        PROVE  Inv'
    <2>1. TypeOK'
      BY <1>6 DEF InvokeFaults, memory, lists, TypeOK, Reply, Results,
         Origins, Ops, RunningIsCurrent
    <2>2. RunningIsCurrent' /\ OpeningIsPrivate'
      BY <1>6 DEF InvokeFaults, memory, lists, TypeOK,
         RunningIsCurrent, OpeningIsPrivate
    <2> QED
      BY <1>6, <2>1, <2>2, FrameInv DEF InvokeFaults
  <1>7. ASSUME NEW id \in Block \union {NULL}, InvokeEnters(id)
        PROVE  Inv'
    <2>1. TypeOK'
      BY <1>7 DEF InvokeEnters, find_session, memory, lists, TypeOK,
         Reply, Results, Origins, Ops, RunningIsCurrent
    <2>2. RunningIsCurrent' /\ OpeningIsPrivate'
      BY <1>7 DEF InvokeEnters, find_session, memory, lists, TypeOK,
         RunningIsCurrent, OpeningIsPrivate
    <2> QED
      BY <1>7, <2>1, <2>2, FrameInv DEF InvokeEnters
  <1>8. ASSUME NEW ret \in {"SUCCESS", "GENERIC"}, InvokeReturns(ret)
        PROVE  Inv'
    <2>1. TypeOK'
      BY <1>8 DEF InvokeReturns, Answer, memory, lists, TypeOK, Reply,
         Results, Origins, Ops, RunningIsCurrent
    <2>2. RunningIsCurrent' /\ OpeningIsPrivate'
      BY <1>8 DEF InvokeReturns, Answer, memory, lists, TypeOK,
         RunningIsCurrent, OpeningIsPrivate
    <2> QED
      BY <1>8, <2>1, <2>2, FrameInv DEF InvokeReturns
  <1>9. ASSUME NEW id \in Block \union {NULL}, CloseUnknown(id)
        PROVE  Inv'
    <2>1. TypeOK'
      BY <1>9 DEF CloseUnknown, Answer, memory, lists, TypeOK, Reply,
         Results, Origins, Ops, RunningIsCurrent
    <2>2. RunningIsCurrent' /\ OpeningIsPrivate'
      BY <1>9 DEF CloseUnknown, Answer, memory, lists, TypeOK,
         RunningIsCurrent, OpeningIsPrivate
    <2> QED
      BY <1>9, <2>1, <2>2, FrameInv DEF CloseUnknown
  <1>10. ASSUME NEW id \in Block \union {NULL}, CloseFaults(id)
        PROVE  Inv'
    <2>1. TypeOK'
      BY <1>10 DEF CloseFaults, memory, lists, TypeOK, Reply, Results,
         Origins, Ops, RunningIsCurrent
    <2>2. RunningIsCurrent' /\ OpeningIsPrivate'
      BY <1>10 DEF CloseFaults, memory, lists, TypeOK,
         RunningIsCurrent, OpeningIsPrivate
    <2> QED
      BY <1>10, <2>1, <2>2, FrameInv DEF CloseFaults
  <1>11. ASSUME NEW id \in Block \union {NULL}, CloseEnters(id)
        PROVE  Inv'
    <2>1. TypeOK'
      BY <1>11 DEF CloseEnters, find_session, memory, lists, TypeOK,
         Reply, Results, Origins, Ops, RunningIsCurrent
    <2>2. RunningIsCurrent' /\ OpeningIsPrivate'
      BY <1>11 DEF CloseEnters, find_session, memory, lists, TypeOK,
         RunningIsCurrent, OpeningIsPrivate
    <2> QED
      BY <1>11, <2>1, <2>2, FrameInv DEF CloseEnters
  <1>12. ASSUME CloseReturns PROVE Inv'
    <2>1. TypeOK'
      BY <1>12 DEF CloseReturns, Answer, ZeroSession, TypeOK, Session,
         Reply, Results, Origins, Ops, RunningIsCurrent
    <2>2. HeapAccounts'
      BY <1>12 DEF CloseReturns, ZeroSession, TypeOK, Session,
         HeapAccounts, RunningIsCurrent, OwnSessionData,
         OneCtxPerSession
    <2>3. OneCtxPerSession'
      BY <1>12 DEF CloseReturns, ZeroSession, TypeOK, Session,
         HeapAccounts, OneCtxPerSession, RunningIsCurrent
    <2>4. OwnSessionData'
      BY <1>12 DEF CloseReturns, ZeroSession, TypeOK, Session,
         HeapAccounts, OneCtxPerSession, OwnSessionData, HeldIsOpen,
         UuidOf, RunningIsCurrent
    <2>5. RunningIsCurrent'
      BY <1>12 DEF CloseReturns, RunningIsCurrent
    <2>6. HeldIsOpen'
      BY <1>12 DEF CloseReturns, HeldIsOpen
    <2>7. OpeningIsPrivate'
      BY <1>12 DEF CloseReturns, OpeningIsPrivate
    <2> QED
      BY <2>1, <2>2, <2>3, <2>4, <2>5, <2>6, <2>7
  <1>13. ASSUME UnknownCommand
        PROVE  Inv'
    <2>1. TypeOK'
      BY <1>13 DEF UnknownCommand, Answer, memory, lists, TypeOK,
         Reply, Results, Origins, Ops, RunningIsCurrent
    <2>2. RunningIsCurrent' /\ OpeningIsPrivate'
      BY <1>13 DEF UnknownCommand, Answer, memory, lists, TypeOK,
         RunningIsCurrent, OpeningIsPrivate
    <2> QED
      BY <1>13, <2>1, <2>2, FrameInv DEF UnknownCommand
  <1>14. ASSUME TEE_Panic
        PROVE  Inv'
    <2>1. TypeOK'
      BY <1>14 DEF TEE_Panic, memory, lists, TypeOK, Reply, Results,
         Origins, Ops, RunningIsCurrent
    <2>2. RunningIsCurrent' /\ OpeningIsPrivate'
      BY <1>14 DEF TEE_Panic, memory, lists, TypeOK, RunningIsCurrent,
         OpeningIsPrivate
    <2> QED
      BY <1>14, <2>1, <2>2, FrameInv DEF TEE_Panic
  <1>15. CASE UNCHANGED vars
    BY <1>15, FrameInv DEF vars, memory, lists, TypeOK, RunningIsCurrent,
       OpeningIsPrivate
  <1> QED
    BY <1>1, <1>2, <1>3, <1>4, <1>5, <1>6, <1>7, <1>8, <1>9, <1>10, <1>11,
       <1>12, <1>13, <1>14, <1>15 DEF Next, Halted

\* The invariant holds throughout every execution.
THEOREM InvAlways == Spec => []Inv
  BY InitInv, NextInv, PTL DEF Spec

\* Type correctness of the session manager.
THEOREM TypeAlways == Spec => []TypeOK
  BY InvAlways, PTL DEF Inv

\* Allocated blocks are exactly what the session list reaches: no handler leaks a
\* block or frees a linked one, whatever ids the clients send.
THEOREM HeapAlways == Spec => []HeapAccounts
  BY InvAlways, PTL DEF Inv

\* Sessions and TA contexts correspond one to one, which tee_ta_close_session
\* needs to destroy the context of the session it closes.
THEOREM OneCtxAlways == Spec => []OneCtxPerSession
  BY InvAlways, PTL DEF Inv

\* No two open sessions share session data, and a session a client was given has
\* session data exactly if its TA keeps some, although blocks are reused.
THEOREM OwnDataAlways == Spec => []OwnSessionData
  BY InvAlways, PTL DEF Inv

\* Secure services always act for the session that executes.
THEOREM RunningAlways == Spec => []RunningIsCurrent
  BY InvAlways, PTL DEF Inv

\* Clients that only use ids they were given cannot make the secure world follow
\* a null pointer.
THEOREM NoFaultAlways == ~WildIds => (Spec => []NoFault)
  <1> SUFFICES ASSUME ~WildIds PROVE Spec => []NoFault
    OBVIOUS
  <1>1. Init => NoFault
    BY DEF Init, NoFault
  <1>2. Inv /\ NoFault /\ [Next]_vars => NoFault'
    <2> SUFFICES ASSUME Inv, NoFault, [Next]_vars PROVE NoFault'
      OBVIOUS
    <2>1. \A id \in InvokeIds \union {NULL} :
             id # NULL => find_session(id) # NULL /\ ~TaDereferencesNull(id)
      BY TAAssumption DEF Inv, InvokeIds, HeldIsOpen, OwnSessionData,
         find_session, TaDereferencesNull, TypeOK
    <2>2. NULL \notin InvokeIds /\ find_session(NULL) = NULL
      BY TAAssumption DEF Inv, InvokeIds, find_session, TypeOK
    <2>3. \A id \in Block \union {NULL} : ~InvokeFaults(id) /\ ~CloseFaults(id)
      BY <2>1, <2>2 DEF InvokeFaults, CloseFaults, CloseIds
    <2> QED
      BY <2>3 DEF NoFault, Next, vars, OpenFails, OpenEnters, OpenAccepted,
         OpenRejected, InvokeBadParams, InvokeEnters, InvokeReturns,
         CloseUnknown, CloseEnters, CloseReturns, UnknownCommand, TEE_Panic,
         Halted
  <1> QED
    BY <1>1, <1>2, InvAlways, PTL DEF Spec

\* A session handed to a client ends only by its own close.
THEOREM EndsOnlyByCloseAlways == Spec => EndsOnlyByClose
  <1>1. Inv /\ [Next]_vars =>
          [\A s \in held :
              s \notin open_sessions' => phase = "close" /\ run = s]_vars
    BY DEF Next, vars, OpenFails, OpenEnters, OpenAccepted, OpenRejected,
       InvokeBadParams, InvokeFaults, InvokeEnters, InvokeReturns,
       CloseUnknown, CloseFaults, CloseEnters, CloseReturns, UnknownCommand,
       TEE_Panic, Halted, lists, Inv, HeldIsOpen
  <1> QED
    BY <1>1, InvAlways, PTL DEF Spec, EndsOnlyByClose

\* A successful open hands out the id of an open session that no client held.
THEOREM OpenAnswerAlways == Spec => OpenAnswerIsFresh
  <1> DEFINE A == (reply' # reply /\ reply'.op = "open") =>
                    /\ reply'.ret = "SUCCESS" <=> reply'.session # NULL
                    /\ reply'.ret = "SUCCESS" =>
                          reply'.session \in open_sessions' \ held
  <1>1. Inv /\ [Next]_vars => [A]_vars
    <2> SUFFICES ASSUME Inv, Next, reply' # reply, reply'.op = "open"
                 PROVE  A
      BY DEF vars
    <2>1. ASSUME NEW u \in Uuid, OpenFails(u) PROVE A
      BY <2>1 DEF OpenFails, Answer
    <2>2. CASE OpenAccepted
      BY <2>2, TAAssumption DEF OpenAccepted, Answer, lists, Inv, TypeOK,
         RunningIsCurrent, OpeningIsPrivate
    <2>3. CASE OpenRejected
      BY <2>3 DEF OpenRejected, Answer
    <2> QED
      BY <2>1, <2>2, <2>3 DEF Next, OpenEnters, InvokeBadParams, InvokeFaults,
         InvokeEnters, InvokeReturns, CloseUnknown, CloseFaults, CloseEnters,
         CloseReturns, UnknownCommand, TEE_Panic, Halted, Answer, vars
  <1> QED
    BY <1>1, InvAlways, PTL DEF Spec, OpenAnswerIsFresh
\* The initial state is an initial state of TeeService.
LEMMA InitService == Init => Service!ServiceInit
  BY DEF Init, Service!ServiceInit

\* Every step that writes an answer is the TeeService step of that request, and
\* every other step changes nothing a client can see.
LEMMA StepService ==
  ASSUME Inv, [Next]_vars
  PROVE  [Service!ServiceNext]_(Service!serviceVars)
  <1> USE TAAssumption
  <1> USE DEF Inv, TypeOK, lists, Service!serviceVars
  <1> DEFINE Same == UNCHANGED Service!serviceVars
  <1>1. ASSUME NEW u \in Uuid, OpenFails(u) PROVE Service!ServiceNext
    <2>1. PICK ret \in Service!Errors : /\ Answer("open", NULL, ret, "TEE")
                                        /\ phase = "idle"
                                        /\ UNCHANGED <<open_sessions, phase>>
      BY <1>1 DEF OpenFails, Service!Errors
    <2>2. Service!OpenRefused(ret)
      BY <2>1 DEF Answer, Service!OpenRefused, Service!Answer,
         Service!OpenOrigins
    <2> QED
      BY <2>2 DEF Service!ServiceNext
  <1>2. ASSUME NEW u \in Uuid, NEW s \in Block, NEW c \in Block,
               OpenEnters(u, s, c)
        PROVE  Same
    BY <1>2 DEF OpenEnters, FreeBlocks, HeapAccounts
  <1>3. CASE OpenAccepted
    <2>1. Service!Open(run)
      BY <1>3 DEF OpenAccepted, Answer, OpenOrigin, RunningIsCurrent,
         Service!Open, Service!Answer, Service!OpenOrigins
    <2> QED
      BY <1>3, <2>1 DEF OpenAccepted, RunningIsCurrent, Service!ServiceNext
  <1>4. CASE OpenRejected
    <2>1. PICK ret \in Service!Errors :
            Answer("open", NULL, ret, OpenOrigin(UuidOf(run)))
      BY <1>4 DEF OpenRejected, Service!Errors
    <2>2. Service!OpenRefused(ret)
      BY <1>4, <2>1 DEF OpenRejected, Answer, OpenOrigin, RunningIsCurrent,
         Service!OpenRefused, Service!Answer, Service!OpenOrigins
    <2> QED
      BY <2>2 DEF Service!ServiceNext
  <1>5. ASSUME NEW id \in Block \union {NULL}, InvokeBadParams(id)
        PROVE  Service!ServiceNext
    BY <1>5 DEF InvokeBadParams, Answer, Service!InvokeRefused,
       Service!Answer, Service!ServiceNext
  <1>6. ASSUME NEW id \in Block \union {NULL},
               InvokeFaults(id) \/ CloseFaults(id)
        PROVE  Service!ServiceNext
    BY <1>6 DEF InvokeFaults, CloseFaults, Service!Stop, Service!ServiceNext
  <1>7. ASSUME NEW id \in Block \union {NULL},
               InvokeEnters(id) \/ CloseEnters(id)
        PROVE  Same
    BY <1>7 DEF InvokeEnters, CloseEnters
  <1>8. ASSUME NEW ret \in {"SUCCESS", "GENERIC"}, InvokeReturns(ret)
        PROVE  Service!ServiceNext
    <2>1. Service!Invoke(run, ret)
      BY <1>8 DEF InvokeReturns, Answer, RunningIsCurrent, Service!Invoke,
         Service!Answer
    <2> QED
      BY <1>8, <2>1 DEF InvokeReturns, RunningIsCurrent, Service!ServiceNext,
         Service!Results, Service!Errors
  <1>9. ASSUME NEW id \in Block \union {NULL}, CloseUnknown(id)
        PROVE  Service!ServiceNext
    BY <1>9 DEF CloseUnknown, find_session, Answer, Service!CloseUnknown,
       Service!Answer, Service!ServiceNext
  <1>10. CASE CloseReturns
    <2>1. Service!Close(run)
      BY <1>10 DEF CloseReturns, Answer, RunningIsCurrent, Service!Close,
         Service!Answer
    <2> QED
      BY <1>10, <2>1 DEF CloseReturns, RunningIsCurrent, Service!ServiceNext
  <1>11. CASE UnknownCommand
    BY <1>11 DEF UnknownCommand, Answer, Service!UnknownCommand,
       Service!Answer, Service!ServiceNext
  <1>12. CASE TEE_Panic
    BY <1>12 DEF TEE_Panic, Service!Stop, Service!ServiceNext
  <1>13. CASE Halted \/ UNCHANGED vars
    BY <1>13 DEF Halted, vars
  <1> QED
    BY <1>1, <1>2, <1>3, <1>4, <1>5, <1>6, <1>7, <1>8, <1>9, <1>10, <1>11,
       <1>12, <1>13 DEF Next

\* The session manager implements the abstract service.
THEOREM ServiceRefined == Spec => ImplementsService
  BY InitService, StepService, InvAlways, PTL
     DEF Spec, ImplementsService, Service!ServiceSpec
=============================================================================
