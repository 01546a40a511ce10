-------------------------- MODULE TeeClientProofs --------------------------
(***************************************************************************)
(* Proofs about TeeClient, for every set of tasks, every program, window   *)
(* size, alignment and supply of temporary buffers: the layout of the      *)
(* shared window, the exclusion of applications, that an answer is the     *)
(* caller's own and fits its buffers, and that an application gives back   *)
(* what it acquired.                                                       *)
(***************************************************************************)
EXTENDS TeeClient, FiniteSetTheorems, TLAPS

(***************************************************************************)
(* align_up_uintptr.                                                       *)
(***************************************************************************)

\* Aligning moves a position up by less than the alignment.
LEMMA AlignUp ==
  ASSUME NEW v \in Nat
  PROVE  /\ align_up(v) \in Nat
         /\ align_up(v) >= v
         /\ align_up(v) < v + Align
  <1> DEFINE q == (v + Align - 1) \div Align
             r == (v + Align - 1) % Align
  <1>0. Align \in Nat \ {0}
    BY ClientAssumption
  <1>1. q \in Nat /\ r \in 0..(Align - 1) /\ v + Align - 1 = Align * q + r
    BY <1>0
  <1> HIDE DEF q, r
  <1>2. q * Align = Align * q /\ q * Align \in Nat
    BY <1>0, <1>1
  <1>3. q * Align >= v /\ q * Align < v + Align
    BY <1>0, <1>1, <1>2
  <1> QED
    BY <1>2, <1>3 DEF q, align_up

\* Aligning a position of the window does not leave the window, because the size
\* of the window is a multiple of the alignment.
LEMMA AlignUpStays ==
  ASSUME NEW v \in Nat, v <= WindowSize
  PROVE  align_up(v) <= WindowSize
  <1> DEFINE q == (v + Align - 1) \div Align
             k == WindowSize \div Align
             z == WindowSize % Align
  <1>0. Align \in Nat \ {0} /\ WindowSize \in Nat /\ WindowSize % Align = 0
    BY ClientAssumption
  <1>1. k \in Nat /\ z \in 0..(Align - 1) /\ WindowSize = Align * k + z
    BY <1>0
  <1>2. q * Align < v + Align
    BY AlignUp DEF align_up
  <1>3. q \in Nat
    BY <1>0
  <1>4. z = 0
    BY <1>0
  <1> HIDE DEF q, k, z
  <1>5. WindowSize = k * Align /\ (k + 1) * Align = k * Align + Align
    BY <1>0, <1>1, <1>4
  <1>6. q <= k
    <2> SUFFICES ASSUME q >= k + 1 PROVE FALSE
      BY <1>1, <1>3
    <2>1. q * Align >= (k + 1) * Align
      BY <1>0, <1>1, <1>3
    <2>2. q * Align \in Nat /\ k * Align \in Nat
      BY <1>0, <1>1, <1>3
    <2> QED
      BY <1>0, <1>2, <1>5, <2>1, <2>2
  <1>7. q * Align <= k * Align
    BY <1>0, <1>1, <1>3, <1>6
  <1> QED
    BY <1>5, <1>7 DEF q, align_up
(***************************************************************************)
(* The layout of the window.                                               *)
(***************************************************************************)

\* ArgLen and the descriptor's length are naturals, whichever call it is.
LEMMA Lengths ==
  ASSUME NEW t \in Task
  PROVE  OpOf(t) \in Calls /\ ArgLen[OpOf(t)] \in Nat
  BY ClientAssumption DEF OpOf, Calls

\* What the library copies from the application's list of parameters.
LEMMA ParamsType ==
  ASSUME NEW t \in Task, step[t] \in Nat, step[t] <= NCmds(t) + 1
  PROVE  ParamsOf(t) \in Seq(Param)
  <1>1. Program[t] \in Programs
    BY ClientAssumption
  <1>2. CASE OpOf(t) = "invoke"
    BY <1>1, <1>2 DEF ParamsOf, OpOf, NCmds, Programs
  <1>3. CASE OpOf(t) # "invoke"
    BY <1>1, <1>3 DEF ParamsOf, OpOf, NCmds, Programs
  <1> QED
    BY <1>2, <1>3

\* A sequence's elements.
LEMMA Element ==
  ASSUME NEW S, NEW s \in Seq(S), NEW n \in DOMAIN s
  PROVE  s[n] \in S
  OBVIOUS

\* The fields of the areas that copies records are naturals.
LEMMA AreaFields ==
  ASSUME NEW s \in Seq([off : Nat, cap : Nat]), NEW n \in DOMAIN s
  PROVE  s[n].off \in Nat /\ s[n].cap \in Nat
  <1>1. s[n] \in [off : Nat, cap : Nat]
    BY Element
  <1> DEFINE c == s[n]
  <1> HIDE DEF c
  <1>2. c \in [off : Nat, cap : Nat]
    BY <1>1 DEF c
  <1>3. c.off \in Nat /\ c.cap \in Nat
    BY <1>2
  <1> QED
    BY <1>3 DEF c

\* Nothing placed is well placed.
LEMMA LaidEmpty == \A lo, hi : Laid(<<>>, lo, hi)
  BY DEF Laid

\* An area put at the cursor, below the new cursor, is well placed.
LEMMA LaidAppend ==
  ASSUME NEW s \in Seq([off : Nat, cap : Nat]), NEW c \in [off : Nat, cap : Nat],
         NEW lo \in Nat, NEW hi \in Nat, NEW hi2 \in Nat,
         Laid(s, lo, hi), lo <= hi, hi <= hi2, c.off + c.cap <= hi2,
         c.off # 0 => c.off = hi
  PROVE  Laid(Append(s, c), lo, hi2)
  <1> DEFINE len == Len(s)
             z == Append(s, c)
  <1>1. /\ len \in Nat
        /\ DOMAIN s = 1..len
        /\ DOMAIN z = 1..(len + 1)
        /\ \A n \in 1..len : z[n] = s[n]
        /\ z[len + 1] = c
    OBVIOUS
  <1>2. \A n \in 1..len : s[n].off \in Nat /\ s[n].cap \in Nat
    BY <1>1, AreaFields
  <1>3. c.off \in Nat /\ c.cap \in Nat
    OBVIOUS
  <1> HIDE DEF len, z
  <1> SUFFICES ASSUME NEW n \in 1..(len + 1)
               PROVE  /\ z[n].off + z[n].cap <= hi2
                      /\ z[n].off # 0 =>
                            /\ z[n].off >= lo
                            /\ \A m \in 1..n-1 :
                                  z[m].off + z[m].cap <= z[n].off
    BY <1>1 DEF Laid, z
  <1>4. CASE n \in 1..len
    <2>1. z[n] = s[n] /\ \A m \in 1..n-1 : z[m] = s[m]
      BY <1>1, <1>4
    <2>2. /\ s[n].off + s[n].cap <= hi
          /\ s[n].off # 0 =>
                /\ s[n].off >= lo
                /\ \A m \in 1..n-1 : s[m].off + s[m].cap <= s[n].off
      BY <1>1, <1>4 DEF Laid
    <2>3. s[n].off + s[n].cap <= hi2
      <3> DEFINE a == s[n].off
                 b == s[n].cap
      <3>1. a \in Nat /\ b \in Nat
        BY <1>2, <1>4, Zenon
      <3>2. a + b <= hi
        BY <2>2
      <3> HIDE DEF a, b
      <3>3. a + b <= hi2
        BY <3>1, <3>2
      <3> QED
        BY <3>3 DEF a, b
    <2> QED
      BY <2>1, <2>2, <2>3
  <1>5. CASE n = len + 1
    <2>1. z[n] = c
      BY <1>1, <1>5
    <2>2. ASSUME c.off # 0, NEW m \in 1..n-1
          PROVE  z[m].off + z[m].cap <= c.off
      <3>1. m \in 1..len /\ z[m] = s[m]
        BY <1>1, <1>5
      <3>2. s[m].off + s[m].cap <= hi
        BY <1>1, <3>1 DEF Laid
      <3> QED
        BY <2>2, <3>1, <3>2
    <2> QED
      BY <1>3, <2>1, <2>2
  <1> QED
    BY <1>1, <1>4, <1>5

\* Areas that lie below a position lie below a higher one.
LEMMA LaidStays ==
  ASSUME NEW s \in Seq([off : Nat, cap : Nat]), NEW lo, NEW hi \in Nat,
         NEW hi2 \in Nat, Laid(s, lo, hi), hi <= hi2
  PROVE  Laid(s, lo, hi2)
  <1>1. ASSUME NEW n \in DOMAIN s PROVE s[n].off + s[n].cap <= hi2
    <2>1. s[n].off \in Nat /\ s[n].cap \in Nat
      BY AreaFields
    <2>2. s[n].off + s[n].cap <= hi
      BY DEF Laid
    <2>3. PICK a, b : a = s[n].off /\ b = s[n].cap
      OBVIOUS
    <2> QED
      BY <2>1, <2>2, <2>3
  <1> QED
    BY <1>1 DEF Laid

\* Nothing is placed at the start.
LEMMA LayoutInit == Init => LayoutInv
  <1> SUFFICES ASSUME Init PROVE LayoutInv
    OBVIOUS
  <1>1. WindowSize \in Nat
    BY ClientAssumption
  <1>2. \A t \in Task : Laid(copies[t], ArgEnd(t), cursor[t])
    BY LaidEmpty DEF Init
  <1> QED
    BY <1>1, <1>2 DEF Init, LayoutInv

\* What a task is given is put into its own copies and cursor; a step that does
\* only this, and is right about its own task, keeps the layout.
LEMMA LayoutOne ==
  ASSUME LayoutInv, NEW t \in Task,
         pc' = [pc EXCEPT ![t] = pc'[t]],
         step' = [step EXCEPT ![t] = step'[t]],
         copies' = [copies EXCEPT ![t] = copies'[t]],
         cursor' = [cursor EXCEPT ![t] = cursor'[t]],
         arg' = [arg EXCEPT ![t] = arg'[t]],
         pc'[t] \in {"idle", "ready", "app", "transport", "place", "hung",
                     "answered", "return"},
         step'[t] \in Nat,
         copies'[t] \in Seq([off : Nat, cap : Nat]),
         cursor'[t] \in 0..WindowSize,
         pc'[t] \in {"transport", "place"} => arg'[t].params \in ArgParams,
         pc'[t] \in {"idle", "ready", "app", "transport"} => copies'[t] = <<>>,
         pc'[t] = "place" => cursor'[t] >= ArgEnd(t)',
         Laid(copies'[t], ArgEnd(t)', cursor'[t])
  PROVE  LayoutInv'
  <1>1. ASSUME NEW u \in Task, u # t
        PROVE  /\ pc'[u] = pc[u] /\ copies'[u] = copies[u] /\ arg'[u] = arg[u]
               /\ cursor'[u] = cursor[u] /\ ArgEnd(u)' = ArgEnd(u)
    BY <1>1 DEF LayoutInv, ArgEnd, align_up, OpOf, NCmds
  <1>2. ASSUME NEW u \in Task
        PROVE  /\ pc'[u] \in {"transport", "place"} => arg'[u].params \in ArgParams
               /\ pc'[u] \in {"idle", "ready", "app", "transport"} =>
                     copies'[u] = <<>>
               /\ pc'[u] = "place" => cursor'[u] >= ArgEnd(u)'
               /\ Laid(copies'[u], ArgEnd(u)', cursor'[u])
    <2>1. CASE u = t
      BY <2>1
    <2>2. CASE u # t
      BY <1>1, <2>2 DEF LayoutInv
    <2> QED
      BY <2>1, <2>2
  <1>3. /\ pc' \in [Task -> {"idle", "ready", "app", "transport", "place",
                             "hung", "answered", "return"}]
        /\ step' \in [Task -> Nat]
        /\ copies' \in [Task -> Seq([off : Nat, cap : Nat])]
        /\ cursor' \in [Task -> 0..WindowSize]
        /\ arg' = [u \in Task |-> arg'[u]]
    BY DEF LayoutInv
  <1> QED
    BY <1>2, <1>3 DEF LayoutInv, Laid, ArgParams

\* The same when the task's copies, cursor and argument do not change either.
LEMMA LayoutFrame ==
  ASSUME LayoutInv, NEW t \in Task,
         UNCHANGED <<copies, cursor, arg>>,
         pc' = [pc EXCEPT ![t] = pc'[t]],
         step' = [step EXCEPT ![t] = step'[t]],
         pc'[t] \in {"idle", "ready", "app", "hung", "answered", "return"},
         step'[t] \in Nat,
         \/ pc[t] \in {"idle", "ready", "app"}
         \/ pc'[t] \in {"hung", "answered", "return"} /\ step'[t] = step[t]
  PROVE  LayoutInv'
  <1>1. /\ copies' = [copies EXCEPT ![t] = copies'[t]]
        /\ cursor' = [cursor EXCEPT ![t] = cursor'[t]]
        /\ arg' = [arg EXCEPT ![t] = arg'[t]]
        /\ copies'[t] \in Seq([off : Nat, cap : Nat])
        /\ cursor'[t] \in 0..WindowSize
    BY DEF LayoutInv
  <1>2. CASE pc[t] \in {"idle", "ready", "app"}
    <2>1. copies'[t] = <<>>
      BY <1>2 DEF LayoutInv
    <2>2. Laid(copies'[t], ArgEnd(t)', cursor'[t])
      BY <2>1, LaidEmpty
    <2> QED
      BY <1>1, <2>1, <2>2, LayoutOne
  <1>3. CASE pc'[t] \in {"hung", "answered", "return"} /\ step'[t] = step[t]
    <2>1. ArgEnd(t)' = ArgEnd(t)
      BY <1>3 DEF ArgEnd, align_up, OpOf, NCmds
    <2>2. Laid(copies'[t], ArgEnd(t)', cursor'[t])
      BY <2>1 DEF LayoutInv
    <2> QED
      BY <1>1, <1>3, <2>2, LayoutOne
  <1> QED
    BY <1>2, <1>3

\* Every step keeps the layout.
LEMMA LayoutStep ==
  ASSUME LayoutInv, [Next]_vars
  PROVE  LayoutInv'
  <1>0. ASSUME NEW t \in Task
        PROVE  /\ step[t] \in Nat
               /\ step = [step EXCEPT ![t] = step[t]]
               /\ pc = [pc EXCEPT ![t] = pc[t]]
               /\ cursor = [cursor EXCEPT ![t] = cursor[t]]
               /\ copies = [copies EXCEPT ![t] = copies[t]]
               /\ arg = [arg EXCEPT ![t] = arg[t]]
               /\ DOMAIN pc = Task /\ DOMAIN step = Task
               /\ DOMAIN cursor = Task /\ DOMAIN copies = Task
               /\ DOMAIN arg = Task
    BY DEF LayoutInv
  <1>n. ASSUME NEW t \in Task, NEW res PROVE NextStep(t, res) \in Nat
    <2>1. NCmds(t) \in Nat
      BY ClientAssumption DEF NCmds, Programs
    <2> QED
      BY <1>0, <2>1 DEF NextStep
  <1>1. ASSUME NEW t \in Task, xTaskCreate(t) PROVE LayoutInv'
    BY <1>0, <1>1, LayoutFrame DEF xTaskCreate, callVars
  <1>2. ASSUME NEW t \in Task, BeginCA(t) PROVE LayoutInv'
    BY <1>0, <1>2, LayoutFrame DEF BeginCA
  <1>3. ASSUME NEW t \in Task, EndCA(t) PROVE LayoutInv'
    BY <1>0, <1>3, LayoutFrame DEF EndCA, callVars
  <1>4. ASSUME NEW t \in Task, PreProcess(t) PROVE LayoutInv'
    <2>1. ParamsOf(t) \in Seq(Param)
      BY <1>0, <1>4, ParamsType DEF PreProcess
    <2>2. arg'[t].params \in ArgParams
      <3> DEFINE ps == ParamsOf(t)
      <3>1. arg'[t].params = [n \in 1..Len(ps) |->
               [kind |-> ps[n].kind, size |-> ps[n].size, ptr |-> Client]]
        BY <1>0, <1>4 DEF PreProcess, NoArg
      <3>2. Len(ps) \in Nat /\ \A n \in 1..Len(ps) : ps[n] \in Param
        BY <2>1
      <3> HIDE DEF ps
      <3>3. \A n \in 1..Len(ps) :
               [kind |-> ps[n].kind, size |-> ps[n].size, ptr |-> Client]
                 \in ArgParam
        BY <3>2 DEF Param, ArgParam, Client
      <3> QED
        BY <3>1, <3>2, <3>3 DEF ArgParams
    <2>3. /\ pc' = [pc EXCEPT ![t] = "transport"]
          /\ arg' = [arg EXCEPT ![t] = arg'[t]]
          /\ UNCHANGED <<copies, cursor, step>>
      BY <1>0, <1>4 DEF PreProcess
    <2>4. copies'[t] = <<>> /\ cursor'[t] \in 0..WindowSize
      BY <1>4, <2>3 DEF PreProcess, LayoutInv
    <2>5. Laid(copies'[t], ArgEnd(t)', cursor'[t])
      BY <2>4, LaidEmpty
    <2>6. /\ pc' = [pc EXCEPT ![t] = pc'[t]] /\ pc'[t] = "transport"
          /\ step' = [step EXCEPT ![t] = step'[t]] /\ step'[t] \in Nat
          /\ copies' = [copies EXCEPT ![t] = copies'[t]]
          /\ cursor' = [cursor EXCEPT ![t] = cursor'[t]]
      BY <1>0, <2>3
    <2>7. copies'[t] \in Seq([off : Nat, cap : Nat])
      BY <2>4
    <2> QED
      BY <2>2, <2>3, <2>4, <2>5, <2>6, <2>7, LayoutOne
  <1>5. ASSUME NEW t \in Task, PreProcessFails(t) PROVE LayoutInv'
    BY <1>0, <1>n, <1>5, LayoutFrame DEF PreProcessFails
  <1>u. ASSUME NEW t \in Task, UnsetContext(t) PROVE LayoutInv'
    <2>1. CASE /\ step' = [step EXCEPT ![t] = NextStep(t, "BAD_PARAMETERS")]
               /\ UNCHANGED pc
      BY <1>0, <1>n, <1>u, <2>1, LayoutFrame DEF UnsetContext
    <2>2. CASE pc' = [pc EXCEPT ![t] = "hung"] /\ UNCHANGED step
      BY <1>0, <1>u, <2>2, LayoutFrame DEF UnsetContext
    <2> QED
      BY <1>u, <2>1, <2>2 DEF UnsetContext
  <1>6. ASSUME NEW t \in Task, CopyArg(t) PROVE LayoutInv'
    <2> DEFINE first == align_up(HeaderLen)
               len == ArgLen[OpOf(t)]
    <2>1. pc[t] = "transport" /\ UNCHANGED <<copies, arg, step>>
      BY <1>6 DEF CopyArg
    <2>2. CASE TransportFails(t) /\ UNCHANGED cursor
      BY <1>0, <2>1, <2>2, LayoutFrame DEF TransportFails
    <2>3. CASE /\ len <= WindowSize - first
               /\ cursor' = [cursor EXCEPT ![t] = align_up(first + len)]
               /\ pc' = [pc EXCEPT ![t] = "place"]
      <3>1. first \in Nat /\ len \in Nat /\ WindowSize \in Nat
        BY AlignUp, Lengths, ClientAssumption
      <3>2. first + len \in Nat /\ first + len <= WindowSize
        BY <2>3, <3>1
      <3>3. ArgEnd(t)' = first + len
        BY <2>1 DEF ArgEnd, align_up, OpOf, NCmds
      <3> HIDE DEF first, len
      <3>4. /\ align_up(first + len) \in 0..WindowSize
            /\ align_up(first + len) >= first + len
        BY <3>1, <3>2, AlignUp, AlignUpStays
      <3>5. /\ copies'[t] = <<>> /\ arg'[t].params \in ArgParams
            /\ cursor'[t] = align_up(first + len) /\ pc'[t] = "place"
        BY <1>0, <2>1, <2>3 DEF LayoutInv
      <3>6. Laid(copies'[t], ArgEnd(t)', cursor'[t])
        BY <3>5, LaidEmpty
      <3>7. /\ pc' = [pc EXCEPT ![t] = pc'[t]]
            /\ step' = [step EXCEPT ![t] = step'[t]] /\ step'[t] \in Nat
            /\ arg' = [arg EXCEPT ![t] = arg'[t]]
            /\ copies' = [copies EXCEPT ![t] = copies'[t]]
            /\ cursor' = [cursor EXCEPT ![t] = cursor'[t]]
        BY <1>0, <2>1, <2>3, <3>5
      <3>8. cursor'[t] \in 0..WindowSize /\ cursor'[t] >= ArgEnd(t)'
        BY <3>3, <3>4, <3>5
      <3>9. copies'[t] \in Seq([off : Nat, cap : Nat])
        BY <3>5
      <3> QED
        BY <3>5, <3>6, <3>7, <3>8, <3>9, LayoutOne
    <2> QED
      BY <1>6, <2>2, <2>3 DEF CopyArg
  <1>7. ASSUME NEW t \in Task, CopyParam(t) PROVE LayoutInv'
    <2> DEFINE n == Len(copies[t]) + 1
               p == arg[t].params[n]
    <2>1. /\ pc[t] = "place" /\ n <= Len(arg[t].params)
          /\ UNCHANGED <<arg, step>>
      BY <1>7 DEF CopyParam
    <2>2. /\ arg[t].params \in ArgParams
          /\ copies[t] \in Seq([off : Nat, cap : Nat])
          /\ cursor[t] \in Nat /\ cursor[t] \in 0..WindowSize
          /\ cursor[t] >= ArgEnd(t)
          /\ Laid(copies[t], ArgEnd(t), cursor[t])
      BY <2>1 DEF LayoutInv
    <2>3. n \in 1..Len(arg[t].params)
      BY <2>1, <2>2 DEF ArgParams
    <2>4. p.size \in Nat
      <3>1. p \in ArgParam
        <4>1. n \in DOMAIN arg[t].params
          BY <2>2, <2>3 DEF ArgParams
        <4> QED
          BY <2>2, <4>1, Element DEF ArgParams
      <3> HIDE DEF p
      <3> QED
        BY <3>1 DEF ArgParam
    <2>5. ArgEnd(t)' = ArgEnd(t) /\ ArgEnd(t) \in Nat
      <3>1. ArgEnd(t)' = ArgEnd(t)
        BY <2>1 DEF ArgEnd, OpOf, NCmds, align_up
      <3>2. ArgEnd(t) \in Nat
        BY AlignUp, Lengths, ClientAssumption DEF ArgEnd
      <3> QED
        BY <3>1, <3>2
    <2> HIDE DEF p
    <2>6. CASE TransportFails(t) /\ UNCHANGED <<copies, cursor>>
      BY <1>0, <2>1, <2>6, LayoutFrame DEF TransportFails
    <2>7. CASE /\ p.size <= WindowSize - cursor[t]
               /\ copies' = [copies EXCEPT ![t] =
                               Append(@, [off |-> cursor[t], cap |-> p.size])]
               /\ cursor' = [cursor EXCEPT ![t] = align_up(cursor[t] + p.size)]
               /\ UNCHANGED pc
      <3> DEFINE c == [off |-> cursor[t], cap |-> p.size]
                 top == align_up(cursor[t] + p.size)
      <3>1. cursor[t] + p.size \in Nat /\ cursor[t] + p.size <= WindowSize
        BY <2>2, <2>4, <2>7, ClientAssumption
      <3>2. top \in 0..WindowSize /\ top \in Nat /\ top >= cursor[t] + p.size
        BY <3>1, AlignUp, AlignUpStays, ClientAssumption
      <3>3. /\ c \in [off : Nat, cap : Nat]
            /\ c.off = cursor[t] /\ c.off + c.cap <= top /\ cursor[t] <= top
        BY <2>2, <2>4, <3>2
      <3>4. copies'[t] = Append(copies[t], c) /\ cursor'[t] = top
        BY <1>0, <2>7
      <3> HIDE DEF c, top
      <3>5. Laid(copies'[t], ArgEnd(t)', cursor'[t])
        BY <2>2, <2>5, <3>2, <3>3, <3>4, LaidAppend
      <3>6. copies'[t] \in Seq([off : Nat, cap : Nat])
        BY <2>2, <3>3, <3>4
      <3>7. cursor'[t] >= ArgEnd(t)'
        BY <2>2, <2>5, <3>2, <3>3, <3>4
      <3>8. /\ copies' = [copies EXCEPT ![t] = copies'[t]]
            /\ cursor' = [cursor EXCEPT ![t] = cursor'[t]]
        BY <1>0, <2>7
      <3> QED
        BY <1>0, <2>1, <2>2, <2>7, <3>2, <3>4, <3>5, <3>6, <3>7, <3>8, LayoutOne
    <2>8. CASE /\ copies' = [copies EXCEPT ![t] =
                               Append(@, [off |-> 0, cap |-> 0])]
               /\ UNCHANGED <<cursor, pc>>
      <3> DEFINE c == [off |-> 0, cap |-> 0]
      <3>1. /\ c \in [off : Nat, cap : Nat] /\ c.off = 0
            /\ c.off + c.cap <= cursor[t]
        BY <2>2
      <3>2. copies'[t] = Append(copies[t], c) /\ cursor'[t] = cursor[t]
        BY <1>0, <2>8
      <3> HIDE DEF c
      <3>3. Laid(copies'[t], ArgEnd(t)', cursor'[t])
        BY <2>2, <2>5, <3>1, <3>2, LaidAppend
      <3>4. copies'[t] \in Seq([off : Nat, cap : Nat])
        BY <2>2, <3>1, <3>2
      <3>5. copies' = [copies EXCEPT ![t] = copies'[t]]
        BY <1>0, <2>8
      <3> QED
        BY <1>0, <2>1, <2>2, <2>5, <2>8, <3>2, <3>3, <3>4, <3>5, LayoutOne
    <2> QED
      BY <1>7, <2>6, <2>7, <2>8 DEF CopyParam, p
  <1>8. ASSUME NEW t \in Task, Serve(t) \/ ServeStops(t) PROVE LayoutInv'
    BY <1>0, <1>8, LayoutFrame DEF Serve, ServeStops, AllPlaced, callVars
  <1>9. ASSUME NEW t \in Task, CopyBack(t) PROVE LayoutInv'
    <2>1. /\ pc' = [pc EXCEPT ![t] = "return"]
          /\ arg' = [arg EXCEPT ![t] = arg'[t]]
          /\ UNCHANGED <<copies, cursor, step>>
      BY <1>0, <1>9 DEF CopyBack
    <2>2. ArgEnd(t)' = ArgEnd(t)
      BY <2>1 DEF ArgEnd, align_up, OpOf, NCmds
    <2>3. /\ Laid(copies'[t], ArgEnd(t)', cursor'[t])
          /\ copies'[t] \in Seq([off : Nat, cap : Nat])
          /\ cursor'[t] \in 0..WindowSize
      BY <2>1, <2>2 DEF LayoutInv
    <2> QED
      BY <1>0, <2>1, <2>3, LayoutOne
  <1>10. ASSUME NEW t \in Task, Return(t) PROVE LayoutInv'
    <2>1. /\ pc' = [pc EXCEPT ![t] = "app"]
          /\ step' = [step EXCEPT ![t] = NextStep(t, ResultOf(t).res)]
          /\ arg' = [arg EXCEPT ![t] = NoArg]
          /\ copies' = [copies EXCEPT ![t] = <<>>]
          /\ cursor' = [cursor EXCEPT ![t] = 0]
      BY <1>10 DEF Return
    <2>2. /\ pc'[t] = "app" /\ copies'[t] = <<>> /\ step'[t] \in Nat
          /\ cursor'[t] \in 0..WindowSize
      BY <1>0, <1>n, <2>1, ClientAssumption
    <2>3. Laid(copies'[t], ArgEnd(t)', cursor'[t])
      BY <2>2, LaidEmpty
    <2>4. /\ pc' = [pc EXCEPT ![t] = pc'[t]]
          /\ step' = [step EXCEPT ![t] = step'[t]]
          /\ arg' = [arg EXCEPT ![t] = arg'[t]]
          /\ copies' = [copies EXCEPT ![t] = copies'[t]]
          /\ cursor' = [cursor EXCEPT ![t] = cursor'[t]]
      BY <1>0, <2>1
    <2>5. /\ copies'[t] \in Seq([off : Nat, cap : Nat])
          /\ pc'[t] \notin {"transport", "place"}
      BY <2>2
    <2> QED
      BY <2>2, <2>3, <2>4, <2>5, LayoutOne
  <1>11. CASE Hung \/ UNCHANGED vars
    BY <1>11 DEF Hung, vars, callVars, taskVars, LayoutInv, ArgEnd, align_up,
       OpOf, NCmds, Laid, ArgParams
  <1> QED
    BY <1>1, <1>2, <1>3, <1>4, <1>5, <1>u, <1>6, <1>7, <1>8, <1>9, <1>10, <1>11
       DEF Next, TaskNext

\* Whatever sizes the applications pass, the buffers of a request lie in the
\* window, behind the argument, without overlap.
THEOREM WindowSafe == Spec => []AreasInWindow
  <1>1. LayoutInv => AreasInWindow
    <2> SUFFICES ASSUME LayoutInv, NEW t \in Task
                 PROVE  Laid(copies[t], ArgEnd(t), WindowSize)
      BY DEF AreasInWindow
    <2>1. /\ copies[t] \in Seq([off : Nat, cap : Nat])
          /\ cursor[t] \in Nat /\ cursor[t] <= WindowSize
          /\ Laid(copies[t], ArgEnd(t), cursor[t])
      BY DEF LayoutInv
    <2>2. WindowSize \in Nat
      BY ClientAssumption
    <2> QED
      BY <2>1, <2>2, LaidStays
  <1> QED
    BY <1>1, LayoutInit, LayoutStep, PTL DEF Spec

(***************************************************************************)
(* Exclusion of applications.                                              *)
(***************************************************************************)

\* Every step keeps the applications apart.
LEMMA OneStep ==
  ASSUME OneApplication, [Next]_vars, pc = [u \in Task |-> pc[u]]
  PROVE  OneApplication' /\ pc' = [u \in Task |-> pc'[u]]
  <1> USE ClientAssumption DEF OneApplication
  <1>1. ASSUME NEW t \in Task, xTaskCreate(t) \/ BeginCA(t) \/ EndCA(t)
        PROVE  OneApplication' /\ pc' = [u \in Task |-> pc'[u]]
    BY <1>1 DEF xTaskCreate, BeginCA, EndCA, Scheduled
  <1>2. ASSUME NEW t \in Task, PreProcess(t) \/ PreProcessFails(t) \/ UnsetContext(t)
        PROVE  OneApplication' /\ pc' = [u \in Task |-> pc'[u]]
    BY <1>2 DEF PreProcess, PreProcessFails, UnsetContext
  <1>3. ASSUME NEW t \in Task, CopyArg(t) \/ CopyParam(t)
        PROVE  OneApplication' /\ pc' = [u \in Task |-> pc'[u]]
    BY <1>3 DEF CopyArg, CopyParam, TransportFails
  <1>4. ASSUME NEW t \in Task, Serve(t) \/ ServeStops(t)
        PROVE  OneApplication' /\ pc' = [u \in Task |-> pc'[u]]
    BY <1>4 DEF Serve, ServeStops, AllPlaced
  <1>5. ASSUME NEW t \in Task, CopyBack(t) \/ Return(t)
        PROVE  OneApplication' /\ pc' = [u \in Task |-> pc'[u]]
    BY <1>5 DEF CopyBack, Return
  <1>6. CASE Hung \/ UNCHANGED vars
    BY <1>6 DEF Hung, vars, taskVars
  <1> QED
    BY <1>1, <1>2, <1>3, <1>4, <1>5, <1>6 DEF Next, TaskNext

\* At most one task is inside its application, the one that masks interrupts.
THEOREM OneApplicationAlways == Spec => []OneApplication
  <1> DEFINE I == OneApplication /\ pc = [u \in Task |-> pc[u]]
  <1>1. Init => I
    BY ClientAssumption DEF Init, OneApplication
  <1>2. I /\ [Next]_vars => I'
    BY OneStep
  <1> QED
    BY <1>1, <1>2, PTL DEF Spec

(***************************************************************************)
(* What a task's request is while it is on its way.                        *)
(***************************************************************************)

\* Where a task is while a request of its is on its way.
InCall == {"transport", "place", "answered", "return"}

\* The argument of an ioctl.
Arguments ==
    [session : Id \union {NULL}, ret : Results,
     origin : OpenOrigins \union {"NONE"}, params : ArgParams]

\* d is a buffer of k cells.
Cells(d, k) == k \in Nat /\ d = [i \in 1..k |-> d[i]]

\* The buffers of a task: those of its application and the temporary ones, which
\* hold exactly what was asked for.
Buffers(t) ==
    /\ pc[t] \in {"idle", "ready", "app"} => rc[t] = 0 /\ shm[t] = <<>>
    /\ \A n \in DOMAIN opbuf[t] :
          /\ Cells(opbuf[t][n].data, opbuf[t][n].cap)
          /\ n \in DOMAIN shm[t] => Cells(shm[t][n], opbuf[t][n].cap)

\* During a call the buffers are those the parameters of the call name.
Passed(t) ==
    LET ps == ParamsOf(t) IN
    /\ DOMAIN opbuf[t] = 1..Len(ps) /\ DOMAIN shm[t] = 1..Len(ps)
    /\ \A n \in 1..Len(ps) :
          /\ opbuf[t][n].cap = ps[n].size /\ opbuf[t][n].size = ps[n].size
          /\ opbuf[t][n] = [cap |-> opbuf[t][n].cap, size |-> opbuf[t][n].size,
                            data |-> opbuf[t][n].data]

\* a has the parameters of the call of t.
HasParams(a, t) ==
    LET ps == ParamsOf(t) IN
    /\ DOMAIN a.params = 1..Len(ps)
    /\ \A n \in 1..Len(ps) : a.params[n].kind = ps[n].kind

\* The argument as the library has built it.
Built(a, t) ==
    /\ HasParams(a, t)
    /\ \A n \in 1..Len(ParamsOf(t)) : a.params[n].size = ParamsOf(t)[n].size

\* The argument in the window refers to the places the transport chose.
Placed(t) ==
    LET ps == ParamsOf(t) IN
    /\ HasParams(window.arg, t)
    /\ Len(copies[t]) <= Len(ps)
    /\ \A n \in DOMAIN copies[t] : n \in Refs(ps) =>
          /\ copies[t][n].cap = ps[n].size
          /\ window.arg.params[n].ptr = copies[t][n].off

\* The window holds the answer to the request of t.
Answered(t) ==
    LET ps == ParamsOf(t) IN
    /\ Len(copies[t]) = Len(ps)
    /\ served[t].reply = window.arg
    /\ \A n \in Outs(ps) :
          LET w == served[t].written[n] IN
          /\ w \in Nat /\ w <= ps[n].size /\ w <= window.arg.params[n].size
          /\ \A i \in 1..w : window.cell[copies[t][n].off + i - 1] = TaTag(t)

\* The answer the library holds is the one the secure world gave.
Own(t) ==
    LET r == served[t].reply IN
    /\ arg[t].session = r.session /\ arg[t].ret = r.ret
    /\ arg[t].origin = r.origin
    /\ \A n \in Outs(ParamsOf(t)) :
          /\ arg[t].params[n].size = r.params[n].size
          /\ \A i \in 1..served[t].written[n] : shm[t][n][i] = TaTag(t)

\* The argument of an open fits into the window.
Fits == ArgLen["open"] <= WindowSize - align_up(HeaderLen)

\* The session handed to t that it has not closed is the one it holds, or the one
\* it is about to be told; and it could not have been handed out through a window
\* too small for an open.
Holds(t) ==
    /\ handed # {} => Fits
    /\ step[t] = 0 /\ pc[t] \in {"app", "transport", "place"} => handed = {}
    /\ step[t] = 0 /\ pc[t] = "answered" =>
          \/ handed = {}
          \/ handed = {window.arg.session} /\ window.arg.ret = "SUCCESS"
    /\ step[t] = 0 /\ pc[t] = "return" =>
          \/ handed = {}
          \/ handed = {arg[t].session} /\ rc[t] = 0 /\ arg[t].ret = "SUCCESS"
    /\ step[t] \in 1..NCmds(t) + 1 /\ pc[t] \in {"app", "transport", "place"} =>
          handed \subseteq {session[t]}
    /\ step[t] \in 1..NCmds(t) /\ pc[t] \in {"answered", "return"} =>
          handed \subseteq {session[t]}
    /\ step[t] = NCmds(t) + 1 /\ pc[t] = "transport" =>
          handed \subseteq {arg[t].session}
    /\ step[t] = NCmds(t) + 1 /\ pc[t] = "place" =>
          handed \subseteq {window.arg.session}
    /\ step[t] = NCmds(t) + 1 /\ pc[t] \in {"answered", "return"} => handed = {}
    /\ step[t] = NCmds(t) + 2 => handed = {}

\* The request of the task that runs, stage by stage: built by the library, placed
\* in the window, answered there by the secure world, copied back.
Running(t) ==
    /\ step[t] <= NCmds(t) + 2
    /\ pc[t] # "return" => rc[t] = 0
    /\ pc[t] \in InCall =>
          /\ step[t] <= NCmds(t) + 1
          /\ Passed(t)
          /\ inUse >= Cardinality(Refs(ParamsOf(t)))
    /\ pc[t] \in {"transport", "place", "answered"} => Built(arg[t], t)
    /\ pc[t] = "place" => Placed(t) /\ Built(window.arg, t)
    /\ pc[t] = "answered" => Placed(t) /\ Answered(t)
    /\ pc[t] = "return" => HasParams(arg[t], t) /\ (rc[t] = 0 => Own(t))

\* The types of what travels through the window.
Typed ==
    /\ TypeOK
    /\ arg \in [Task -> Arguments]
    /\ window = [arg |-> window.arg, cell |-> window.cell]
    /\ window.arg \in Arguments
    /\ window.cell = [i \in 0..WindowSize-1 |-> window.cell[i]]
    /\ opbuf = [t \in Task |-> opbuf[t]]
    /\ shm = [t \in Task |-> shm[t]]
    /\ served = [t \in Task |-> served[t]]
    /\ result = [t \in Task |-> result[t]]

\* The inductive invariant: the task that masks interrupts owns the window, so
\* what it put there at one stage is what it finds at the next.
ClientInv ==
    /\ Typed /\ LayoutInv /\ OneApplication
    /\ \A t \in Task : Buffers(t)
    /\ \A t \in Task : mask = t => Running(t)

\* No session is handed out but to the task that runs.
HoldsInv ==
    /\ mask = NoTask => handed = {}
    /\ \A t \in Task : mask = t => Holds(t)

\* The temporary buffers in use are those of the call the running task is in.
ShmInv ==
    /\ mask = NoTask => inUse = 0
    /\ \A t \in Task :
          /\ mask = t /\ pc[t] \in InCall => inUse = Cardinality(Refs(ParamsOf(t)))
          /\ mask = t /\ pc[t] = "app" => inUse = 0

\* A task's call and its parameters depend on the step it has reached alone.
LEMMA SameCall ==
  ASSUME NEW t \in Task, step'[t] = step[t]
  PROVE  OpOf(t)' = OpOf(t) /\ ParamsOf(t)' = ParamsOf(t)
  BY DEF OpOf, ParamsOf, NCmds

\* The number of commands of an application.
LEMMA Commands ==
  ASSUME NEW t \in Task
  PROVE  NCmds(t) \in Nat /\ NCmds(t)' = NCmds(t)
  BY ClientAssumption DEF NCmds, Programs

\* The memory references of a call can be counted.
LEMMA RefsCount ==
  ASSUME NEW ps \in Seq(Param)
  PROVE  Cardinality(Refs(ps)) \in Nat
  <1>1. IsFiniteSet(1..Len(ps))
    BY FS_Interval
  <1>2. Refs(ps) \in SUBSET (1..Len(ps))
    BY DEF Refs
  <1> QED
    BY <1>1, <1>2, FS_Subset, FS_CardinalityType, Zenon

\* The parameters of a call, one by one.
LEMMA ParamsOfCall ==
  ASSUME NEW t \in Task, step[t] \in Nat, step[t] <= NCmds(t) + 1
  PROVE  /\ ParamsOf(t) \in Seq(Param)
         /\ Len(ParamsOf(t)) \in Nat
         /\ DOMAIN ParamsOf(t) = 1..Len(ParamsOf(t))
         /\ \A n \in 1..Len(ParamsOf(t)) : ParamsOf(t)[n].size \in Nat
         /\ Cardinality(Refs(ParamsOf(t))) \in Nat
  <1>1. ParamsOf(t) \in Seq(Param)
    BY ParamsType
  <1>2. PICK ps \in Seq(Param) : ps = ParamsOf(t)
    BY <1>1
  <1>3. \A n \in 1..Len(ps) : ps[n] \in Param
    OBVIOUS
  <1>4. \A p \in Param : p.size \in Nat
    BY DEF Param
  <1>5. Len(ps) \in Nat /\ DOMAIN ps = 1..Len(ps)
    OBVIOUS
  <1> QED
    BY <1>1, <1>2, <1>3, <1>4, <1>5, RefsCount

\* A buffer of k cells has the length k.
LEMMA CellsLen ==
  ASSUME NEW d, NEW k, Cells(d, k)
  PROVE  Len(d) = k
  BY DEF Cells

\* A copy that is no longer than the buffer leaves its length alone.
LEMMA CopyStays ==
  ASSUME NEW d, NEW k, Cells(d, k), NEW s, NEW n \in 0..k
  PROVE  /\ Cells(CopyOver(d, s, n), k)
         /\ \A i \in 1..n : CopyOver(d, s, n)[i] = s[i]
  <1>1. Len(d) = k /\ k \in Nat
    BY CellsLen DEF Cells
  <1>2. Max2(Len(d), n) = k
    BY <1>1 DEF Max2
  <1>3. CopyOver(d, s, n) = [i \in 1..k |-> IF i <= n THEN s[i] ELSE d[i]]
    BY <1>2 DEF CopyOver
  <1> QED
    BY <1>1, <1>3 DEF Cells

\* The parameters of an argument as a sequence that a step has changed.
LEMMA ParamsChanged ==
  ASSUME NEW a \in Arguments, NEW f, DOMAIN f = DOMAIN a.params,
         f = [n \in DOMAIN a.params |-> f[n]],
         \A n \in DOMAIN a.params : f[n] \in ArgParam
  PROVE  f \in ArgParams
  <1>1. a.params \in ArgParams
    BY DEF Arguments
  <1>2. PICK k \in Nat : DOMAIN a.params = 1..k
    BY <1>1 DEF ArgParams
  <1> QED
    BY <1>2 DEF ArgParams

\* The fields of an argument.
LEMMA ArgFields ==
  ASSUME NEW a \in Arguments
  PROVE  /\ a = [session |-> a.session, ret |-> a.ret, origin |-> a.origin,
                 params |-> a.params]
         /\ a.session \in Id \union {NULL} /\ a.ret \in Results
         /\ a.origin \in OpenOrigins \union {"NONE"}
         /\ a.params \in ArgParams
         /\ Len(a.params) \in Nat /\ DOMAIN a.params = 1..Len(a.params)
         /\ \A n \in DOMAIN a.params :
               /\ a.params[n] \in ArgParam
               /\ a.params[n].kind \in Kinds /\ a.params[n].size \in Nat
               /\ a.params[n].ptr \in Int
  <1>1. /\ a.params \in ArgParams
        /\ a = [session |-> a.session, ret |-> a.ret, origin |-> a.origin,
                 params |-> a.params]
        /\ a.session \in Id \union {NULL} /\ a.ret \in Results
        /\ a.origin \in OpenOrigins \union {"NONE"}
    BY DEF Arguments
  <1>2. PICK s \in Seq(ArgParam) : s = a.params
    BY <1>1 DEF ArgParams
  <1>3. /\ Len(s) \in Nat /\ DOMAIN s = 1..Len(s)
        /\ \A n \in DOMAIN s : s[n] \in ArgParam
    BY <1>2
  <1>4. \A p \in ArgParam :
           p.kind \in Kinds /\ p.size \in Nat /\ p.ptr \in Int
    BY DEF ArgParam
  <1> QED
    BY <1>1, <1>2, <1>3, <1>4

\* An argument of which some fields change.
LEMMA ArgMade ==
  ASSUME NEW id \in Id \union {NULL}, NEW ret \in Results,
         NEW org \in OpenOrigins \union {"NONE"}, NEW ps \in ArgParams
  PROVE  [session |-> id, ret |-> ret, origin |-> org, params |-> ps] \in Arguments
  BY DEF Arguments

\* The argument before the library builds one.
LEMMA NoArgTyped == NoArg \in Arguments
  <1>1. <<>> \in ArgParams
    BY DEF ArgParams
  <1> QED
    BY <1>1 DEF NoArg, Arguments, Results, Errors

\* What the service answers.
LEMMA AnswerTyped ==
  ASSUME NEW a \in Arguments, NEW e \in Effects, NEW t \in Task, window.arg = a,
         reply'.session \in Id \union {NULL}, reply'.ret \in Results,
         reply'.origin \in OpenOrigins \union {"NONE"}
  PROVE  /\ AnswerArg(t, e) \in Arguments
         /\ DOMAIN AnswerArg(t, e).params = DOMAIN a.params
         /\ OpOf(t) = "open" =>
               /\ AnswerArg(t, e).session = reply'.session
               /\ AnswerArg(t, e).ret = reply'.ret
         /\ \A n \in DOMAIN a.params :
               /\ AnswerArg(t, e).params[n].kind = a.params[n].kind
               /\ AnswerArg(t, e).params[n].ptr = a.params[n].ptr
               /\ n \in Outs(a.params) /\ OpOf(t) = "invoke" =>
                     AnswerArg(t, e).params[n].size = NewSize(e, a.params[n])
               /\ OpOf(t) # "invoke" => AnswerArg(t, e).params = a.params
  <1> DEFINE f == [n \in DOMAIN a.params |->
                     IF n \in Outs(a.params)
                     THEN [a.params[n] EXCEPT !.size = NewSize(e, a.params[n])]
                     ELSE a.params[n]]
             g == [a EXCEPT !.ret = reply'.ret, !.params = f]
             o == [a EXCEPT !.session = reply'.session, !.ret = reply'.ret,
                            !.origin = reply'.origin]
  <1>1. \A n \in DOMAIN a.params :
           /\ f[n] \in ArgParam
           /\ f[n].kind = a.params[n].kind /\ f[n].ptr = a.params[n].ptr
           /\ n \in Outs(a.params) => f[n].size = NewSize(e, a.params[n])
    <2> SUFFICES ASSUME NEW n \in DOMAIN a.params
                 PROVE /\ f[n] \in ArgParam
                       /\ f[n].kind = a.params[n].kind
                       /\ f[n].ptr = a.params[n].ptr
                       /\ n \in Outs(a.params) => f[n].size = NewSize(e, a.params[n])
      OBVIOUS
    <2>1. PICK p \in ArgParam : p = a.params[n]
      BY ArgFields
    <2>2. NewSize(e, p) \in Nat
      BY DEF NewSize, Min2, ArgParam
    <2>3. f[n] = IF n \in Outs(a.params) THEN [p EXCEPT !.size = NewSize(e, p)] ELSE p
      BY <2>1
    <2> HIDE DEF f
    <2> QED
      BY <2>1, <2>2, <2>3 DEF ArgParam
  <1>2. f \in ArgParams
    <2> HIDE DEF f
    <2>1. f = [n \in DOMAIN a.params |-> f[n]] /\ DOMAIN f = DOMAIN a.params
      BY DEF f
    <2> QED
      BY <1>1, <2>1, ParamsChanged
  <1>3. DOMAIN f = DOMAIN a.params
    OBVIOUS
  <1> HIDE DEF f
  <1>4. g \in Arguments /\ g.params = f
    BY <1>2 DEF Arguments
  <1>5. /\ o \in Arguments /\ o.params = a.params
        /\ o.session = reply'.session /\ o.ret = reply'.ret
    BY DEF Arguments
  <1>6. OpOf(t) \in {"open", "invoke", "close"}
    BY DEF OpOf
  <1>7. AnswerArg(t, e) = IF OpOf(t) = "open" THEN o
                          ELSE IF OpOf(t) = "invoke" THEN g ELSE a
    BY <1>6 DEF AnswerArg, f
  <1> HIDE DEF o, g
  <1> QED
    BY <1>1, <1>3, <1>4, <1>5, <1>6, <1>7

(***************************************************************************)
(* Types.                                                                  *)
(***************************************************************************)

\* What the secure world keeps, and the ids it has handed out.
WorldTyped == open \subseteq Id /\ up \in BOOLEAN /\ handed \subseteq Id

\* What a task keeps.
TaskTyped ==
    /\ session \in [Task -> Id \union {NULL, Garbage}]
    /\ rc \in [Task -> {0, -1}]
    /\ inUse \in 0..ShmLimit
    /\ arg \in [Task -> Arguments]
    /\ opbuf = [t \in Task |-> opbuf[t]]
    /\ shm = [t \in Task |-> shm[t]]
    /\ served = [t \in Task |-> served[t]]
    /\ result = [t \in Task |-> result[t]]

\* What the window holds.
WindowTyped ==
    /\ window = [arg |-> window.arg, cell |-> window.cell]
    /\ window.arg \in Arguments
    /\ window.cell = [i \in 0..WindowSize-1 |-> window.cell[i]]

\* The types are those of the three parts.
LEMMA TypedParts ==
  /\ Typed => WorldTyped /\ TaskTyped /\ WindowTyped
  /\ LayoutInv /\ OneApplication /\ WorldTyped /\ TaskTyped /\ WindowTyped => Typed
  BY DEF Typed, TypeOK, WorldTyped, TaskTyped, WindowTyped, LayoutInv, OneApplication

\* The task that takes a step is the one that masks interrupts.
LEMMA Runs ==
  ASSUME ClientInv, NEW t \in Task, pc[t] \notin {"idle", "ready"}
  PROVE  /\ mask = t /\ Running(t)
         /\ step[t] \in Nat /\ arg[t] \in Arguments
         /\ \A u \in Task : u # t => pc[u] \in {"idle", "ready"}
  BY DEF ClientInv, OneApplication, LayoutInv, Typed

\* What is known of every task.
LEMMA TaskFacts ==
  ASSUME ClientInv, NEW t \in Task
  PROVE  /\ DOMAIN pc = Task /\ DOMAIN opbuf = Task /\ DOMAIN shm = Task
         /\ DOMAIN arg = Task /\ DOMAIN served = Task /\ DOMAIN rc = Task
         /\ DOMAIN step = Task /\ DOMAIN copies = Task /\ DOMAIN session = Task
         /\ inUse \in Nat /\ step[t] \in Nat /\ Buffers(t)
         /\ arg[t] \in Arguments /\ rc[t] \in {0, -1} /\ WindowTyped
  <1>1. /\ pc \in [Task -> {"idle", "ready", "app", "transport", "place", "hung",
                            "answered", "return"}]
        /\ step \in [Task -> Nat] /\ copies \in [Task -> Seq([off : Nat, cap : Nat])]
        /\ Buffers(t) /\ TaskTyped /\ WindowTyped /\ ShmLimit \in Nat
    BY TypedParts, ClientAssumption DEF ClientInv, LayoutInv
  <1> QED
    BY <1>1 DEF TaskTyped

\* The two parts of the window.
LEMMA WindowRecord ==
  \A w, b, d : w = [arg |-> b, cell |-> d] =>
     w.arg = b /\ w.cell = d /\ w = [arg |-> w.arg, cell |-> w.cell]
  OBVIOUS

\* Parameter n is given the place c of the window, whose cells are d then.
GivenPlace(n, c, d) ==
    window' = [window EXCEPT !.arg.params[n].ptr = c, !.cell = d]

\* The window when a parameter is given its place.
LEMMA PlacedTyped ==
  ASSUME WindowTyped, NEW n \in DOMAIN window.arg.params, NEW c \in Int, NEW d,
         d = [i \in 0..WindowSize-1 |-> d[i]],
         GivenPlace(n, c, d)
  PROVE  /\ WindowTyped'
         /\ window'.cell = d
         /\ window'.arg.session = window.arg.session
         /\ DOMAIN window'.arg.params = DOMAIN window.arg.params
         /\ \A m \in DOMAIN window.arg.params :
               /\ window'.arg.params[m].kind = window.arg.params[m].kind
               /\ window'.arg.params[m].size = window.arg.params[m].size
               /\ window'.arg.params[m].ptr = IF m = n THEN c ELSE window.arg.params[m].ptr
  <1>1. PICK a \in Arguments : a = window.arg
    BY DEF WindowTyped
  <1>2. PICK f : f = [a.params EXCEPT ![n].ptr = c]
    OBVIOUS
  <1>3. /\ f = [m \in DOMAIN a.params |-> f[m]] /\ DOMAIN f = DOMAIN a.params
        /\ \A m \in DOMAIN a.params :
              f[m] = IF m = n THEN [a.params[m] EXCEPT !.ptr = c] ELSE a.params[m]
    BY <1>1, <1>2, ArgFields DEF ArgParams
  <1>4. \A p \in ArgParam : /\ [p EXCEPT !.ptr = c] \in ArgParam
                            /\ [p EXCEPT !.ptr = c].kind = p.kind
                            /\ [p EXCEPT !.ptr = c].size = p.size
                            /\ [p EXCEPT !.ptr = c].ptr = c
    BY DEF ArgParam
  <1>5. \A m \in DOMAIN a.params :
           /\ f[m] \in ArgParam
           /\ f[m].kind = a.params[m].kind /\ f[m].size = a.params[m].size
           /\ f[m].ptr = IF m = n THEN c ELSE a.params[m].ptr
    <2> SUFFICES ASSUME NEW m \in DOMAIN a.params
                 PROVE  /\ f[m] \in ArgParam
                        /\ f[m].kind = a.params[m].kind
                        /\ f[m].size = a.params[m].size
                        /\ f[m].ptr = IF m = n THEN c ELSE a.params[m].ptr
      OBVIOUS
    <2>1. PICK p \in ArgParam : p = a.params[m]
      BY ArgFields
    <2>2. f[m] = IF m = n THEN [p EXCEPT !.ptr = c] ELSE p
      BY <1>3, <2>1
    <2>3. CASE m = n
      BY <1>4, <2>1, <2>2, <2>3, Zenon
    <2>4. CASE m # n
      BY <2>1, <2>2, <2>4, Zenon
    <2> QED
      BY <2>3, <2>4
  <1>6. f \in ArgParams
    BY <1>3, <1>5, ParamsChanged
  <1>7. PICK b : b = [a EXCEPT !.params = f]
    OBVIOUS
  <1>8. b \in Arguments /\ b.params = f /\ b.session = a.session
    BY <1>6, <1>7 DEF Arguments
  <1>9. window' = [arg |-> b, cell |-> d]
    BY <1>1, <1>2, <1>7 DEF WindowTyped, GivenPlace
  <1>10. /\ window'.arg = b /\ window'.cell = d
         /\ window' = [arg |-> window'.arg, cell |-> window'.cell]
    BY <1>9, WindowRecord, Zenon
  <1> QED
    BY <1>1, <1>3, <1>5, <1>8, <1>10 DEF WindowTyped

\* What the window holds after the secure world has served it.
LEMMA ServedTyped ==
  ASSUME ClientInv, NEW t \in Task, NEW e \in Effects,
         \/ \E i \in Id : Open(i)
         \/ \E ret \in Errors : OpenRefused(ret)
         \/ \E ret \in Results : Invoke(window.arg.session, ret)
         \/ InvokeRefused(window.arg.session)
         \/ Close(window.arg.session) \/ CloseUnknown(window.arg.session)
  PROVE  /\ reply'.session \in Id \union {NULL} /\ reply'.ret \in Results
         /\ reply'.origin \in OpenOrigins \union {"NONE"}
         /\ open' \subseteq Id /\ up' \in BOOLEAN
  <1>1. window.arg.session \in Id \union {NULL} /\ open \subseteq Id /\ up \in BOOLEAN
    BY ArgFields DEF ClientInv, Typed, TypeOK
  <1>2. ASSUME NEW op, NEW id \in Id \union {NULL}, NEW ret \in Results,
               NEW org \in OpenOrigins \union {"NONE"}, Answer(op, id, ret, org)
        PROVE  /\ reply'.session \in Id \union {NULL} /\ reply'.ret \in Results
               /\ reply'.origin \in OpenOrigins \union {"NONE"}
    BY <1>2 DEF Answer
  <1>3. Errors \subseteq Results /\ "SUCCESS" \in Results /\ "GENERIC" \in Results
        /\ "BAD_PARAMETERS" \in Results /\ "ITEM_NOT_FOUND" \in Results
    BY DEF Results, Errors
  <1>4. ASSUME NEW i \in Id, Open(i)
        PROVE  /\ reply'.session \in Id \union {NULL} /\ reply'.ret \in Results
               /\ reply'.origin \in OpenOrigins \union {"NONE"}
               /\ open' \subseteq Id /\ up' \in BOOLEAN
    BY <1>1, <1>2, <1>3, <1>4 DEF Open
  <1>5. ASSUME NEW ret \in Errors, OpenRefused(ret)
        PROVE  /\ reply'.session \in Id \union {NULL} /\ reply'.ret \in Results
               /\ reply'.origin \in OpenOrigins \union {"NONE"}
               /\ open' \subseteq Id /\ up' \in BOOLEAN
    BY <1>1, <1>2, <1>3, <1>5 DEF OpenRefused
  <1>6. ASSUME NEW ret \in Results, Invoke(window.arg.session, ret)
        PROVE  /\ reply'.session \in Id \union {NULL} /\ reply'.ret \in Results
               /\ reply'.origin \in OpenOrigins \union {"NONE"}
               /\ open' \subseteq Id /\ up' \in BOOLEAN
    BY <1>1, <1>2, <1>3, <1>6 DEF Invoke
  <1>7. ASSUME \/ InvokeRefused(window.arg.session)
               \/ Close(window.arg.session) \/ CloseUnknown(window.arg.session)
        PROVE  /\ reply'.session \in Id \union {NULL} /\ reply'.ret \in Results
               /\ reply'.origin \in OpenOrigins \union {"NONE"}
               /\ open' \subseteq Id /\ up' \in BOOLEAN
    BY <1>1, <1>2, <1>3, <1>7 DEF InvokeRefused, Close, CloseUnknown
  <1> QED
    BY <1>4, <1>5, <1>6, <1>7

\* The effect a served request had, and the answer to it.
LEMMA ServeParts ==
  ASSUME ClientInv, NEW t \in Task, Serve(t)
  PROVE  \E e \in Effects :
            /\ OpOf(t) # "invoke" => e = "keep"
            /\ reply'.session \in Id \union {NULL} /\ reply'.ret \in Results
            /\ reply'.origin \in OpenOrigins \union {"NONE"}
            /\ open' \subseteq Id /\ up' \in BOOLEAN
            /\ AnswerArg(t, e) \in Arguments
            /\ window' = [arg |-> AnswerArg(t, e),
                          cell |-> [i \in DOMAIN window.cell |->
                             IF TaWrites(e, i) THEN TaTag(t) ELSE window.cell[i]]]
            /\ served' = [served EXCEPT ![t] = [reply |-> AnswerArg(t, e),
                             written |-> [n \in DOMAIN window.arg.params |->
                                            Written(e, window.arg.params[n])]]]
  <1>1. PICK e \in Effects :
          /\ OpOf(t) # "invoke" => e = "keep"
          /\ \/ \E i \in Id : Open(i)
             \/ \E ret \in Errors : OpenRefused(ret)
             \/ \E ret \in Results : Invoke(window.arg.session, ret)
             \/ InvokeRefused(window.arg.session)
             \/ Close(window.arg.session) \/ CloseUnknown(window.arg.session)
          /\ window' = [arg |-> AnswerArg(t, e),
                        cell |-> [i \in DOMAIN window.cell |->
                           IF TaWrites(e, i) THEN TaTag(t) ELSE window.cell[i]]]
          /\ served' = [served EXCEPT ![t] = [reply |-> AnswerArg(t, e),
                           written |-> [n \in DOMAIN window.arg.params |->
                                          Written(e, window.arg.params[n])]]]
    BY DEF Serve
  <1>2. /\ reply'.session \in Id \union {NULL} /\ reply'.ret \in Results
        /\ reply'.origin \in OpenOrigins \union {"NONE"}
        /\ open' \subseteq Id /\ up' \in BOOLEAN
    BY <1>1, ServedTyped
  <1>3. AnswerArg(t, e) \in Arguments
    BY <1>2, AnswerTyped DEF ClientInv, Typed
  <1> QED
    BY <1>1, <1>2, <1>3

\* A parameter is placed, or the transport gives up: what the window holds.
LEMMA PlaceStep ==
  ASSUME ClientInv, NEW t \in Task, CopyParam(t)
  PROVE  LET n == Len(copies[t]) + 1 IN
         /\ n \in DOMAIN window.arg.params
         /\ WindowTyped'
         /\ window'.arg.session = window.arg.session
         /\ DOMAIN window'.arg.params = DOMAIN window.arg.params
         /\ \A m \in DOMAIN window.arg.params :
               /\ window'.arg.params[m].kind = window.arg.params[m].kind
               /\ window'.arg.params[m].size = window.arg.params[m].size
               /\ m # n => window'.arg.params[m].ptr = window.arg.params[m].ptr
         /\ arg[t].params[n].kind \in Memref /\ pc'[t] # "return" =>
               window'.arg.params[n].ptr = cursor[t]
  <1> DEFINE n == Len(copies[t]) + 1
  <1>0. /\ pc[t] = "place" /\ n <= Len(arg[t].params)
    BY DEF CopyParam
  <1>1. /\ Running(t) /\ step[t] \in Nat /\ arg[t] \in Arguments
        /\ copies[t] \in Seq([off : Nat, cap : Nat])
        /\ cursor[t] \in Int /\ WindowTyped
        /\ DOMAIN pc = Task
    BY <1>0, Runs, TypedParts DEF ClientInv, LayoutInv
  <1>2. /\ Placed(t) /\ Built(arg[t], t) /\ step[t] <= NCmds(t) + 1
    BY <1>0, <1>1 DEF Running, InCall
  <1>3. n \in DOMAIN window.arg.params
    <2>1. Len(copies[t]) \in Nat
      BY <1>1
    <2>2. /\ DOMAIN arg[t].params = 1..Len(arg[t].params) /\ Len(arg[t].params) \in Nat
      BY <1>1, ArgFields
    <2>3. DOMAIN arg[t].params = DOMAIN window.arg.params
      BY <1>2 DEF Placed, Built, HasParams
    <2> QED
      BY <1>0, <2>1, <2>2, <2>3
  <1> HIDE DEF n
  <1>4. CASE UNCHANGED window /\ (pc'[t] = "return" \/ arg[t].params[n].kind \notin Memref)
    BY <1>1, <1>3, <1>4 DEF WindowTyped, n
  <1>5. ASSUME NEW d, d = [i \in DOMAIN window.cell |-> d[i]],
               GivenPlace(n, cursor[t], d)
        PROVE  /\ WindowTyped'
               /\ window'.arg.session = window.arg.session
               /\ DOMAIN window'.arg.params = DOMAIN window.arg.params
               /\ \A m \in DOMAIN window.arg.params :
                     /\ window'.arg.params[m].kind = window.arg.params[m].kind
                     /\ window'.arg.params[m].size = window.arg.params[m].size
                     /\ m # n => window'.arg.params[m].ptr = window.arg.params[m].ptr
               /\ window'.arg.params[n].ptr = cursor[t]
    <2>1. d = [i \in 0..WindowSize-1 |-> d[i]]
      BY <1>1, <1>5 DEF WindowTyped
    <2> QED
      BY <1>1, <1>3, <1>5, <2>1, PlacedTyped
  <1>6. \/ UNCHANGED window /\ (pc'[t] = "return" \/ arg[t].params[n].kind \notin Memref)
        \/ \E d : /\ d = [i \in DOMAIN window.cell |-> d[i]]
                  /\ GivenPlace(n, cursor[t], d)
    <2>1. CASE /\ TransportFails(t) /\ UNCHANGED window
      BY <1>1, <2>1 DEF TransportFails
    <2>2. CASE arg[t].params[n].kind \notin Memref /\ UNCHANGED window
      BY <2>2
    <2>3. CASE window' = [window EXCEPT
                  !.arg.params[n].ptr = cursor[t],
                  !.cell = [i \in DOMAIN @ |->
                     IF /\ arg[t].params[n].kind # "out"
                        /\ i \in cursor[t] .. cursor[t] + arg[t].params[n].size - 1
                     THEN shm[t][n][i - cursor[t] + 1] ELSE @[i]]]
      <3>1. PICK d : d = [i \in DOMAIN window.cell |->
                     IF /\ arg[t].params[n].kind # "out"
                        /\ i \in cursor[t] .. cursor[t] + arg[t].params[n].size - 1
                     THEN shm[t][n][i - cursor[t] + 1] ELSE window.cell[i]]
        OBVIOUS
      <3>2. d = [i \in DOMAIN window.cell |-> d[i]]
        BY <3>1
      <3>3. GivenPlace(n, cursor[t], d)
        BY <1>1, <2>3, <3>1 DEF WindowTyped, GivenPlace
      <3> QED
        BY <3>2, <3>3
    <2> QED
      BY <2>1, <2>2, <2>3 DEF CopyParam, n
  <1> QED
    BY <1>3, <1>4, <1>5, <1>6 DEF n

\* The argument with its references repaired.
LEMMA RepairedTyped ==
  ASSUME ClientInv, NEW t \in Task
  PROVE  /\ Repaired(t) \in Arguments
         /\ Repaired(t).session = window.arg.session
         /\ Repaired(t).ret = window.arg.ret /\ Repaired(t).origin = window.arg.origin
         /\ DOMAIN Repaired(t).params = DOMAIN window.arg.params
         /\ \A n \in DOMAIN window.arg.params :
               /\ Repaired(t).params[n].kind = window.arg.params[n].kind
               /\ Repaired(t).params[n].size = window.arg.params[n].size
  <1>1. PICK a \in Arguments : a = window.arg
    BY DEF ClientInv, Typed
  <1>2. PICK f : f = [n \in DOMAIN a.params |->
                       IF n \in Refs(arg[t].params)
                       THEN [a.params[n] EXCEPT !.ptr = Client] ELSE a.params[n]]
    OBVIOUS
  <1>3. \A n \in DOMAIN a.params :
           /\ f[n] \in ArgParam
           /\ f[n].kind = a.params[n].kind /\ f[n].size = a.params[n].size
    <2> SUFFICES ASSUME NEW n \in DOMAIN a.params
                 PROVE  /\ f[n] \in ArgParam
                        /\ f[n].kind = a.params[n].kind
                        /\ f[n].size = a.params[n].size
      OBVIOUS
    <2>1. PICK p \in ArgParam : p = a.params[n]
      BY ArgFields
    <2>2. f[n] = IF n \in Refs(arg[t].params) THEN [p EXCEPT !.ptr = Client] ELSE p
      BY <1>2, <2>1
    <2>3. /\ [p EXCEPT !.ptr = Client] \in ArgParam
          /\ [p EXCEPT !.ptr = Client].kind = p.kind
          /\ [p EXCEPT !.ptr = Client].size = p.size
      BY DEF ArgParam, Client
    <2> QED
      BY <2>1, <2>2, <2>3, Zenon
  <1>4. f \in ArgParams /\ DOMAIN f = DOMAIN a.params
    <2>1. f = [n \in DOMAIN a.params |-> f[n]] /\ DOMAIN f = DOMAIN a.params
      BY <1>2
    <2> QED
      BY <1>3, <2>1, ParamsChanged
  <1>5. PICK b : b = [a EXCEPT !.params = f]
    OBVIOUS
  <1>6. /\ b \in Arguments /\ b.params = f /\ b.session = a.session
        /\ b.ret = a.ret /\ b.origin = a.origin
    BY <1>4, <1>5 DEF Arguments
  <1>7. Repaired(t) = b
    BY <1>1, <1>2, <1>5 DEF Repaired
  <1> QED
    BY <1>1, <1>3, <1>4, <1>6, <1>7

\* Every step keeps the types.
LEMMA TypedStep ==
  ASSUME ClientInv, [Next]_vars
  PROVE  WorldTyped' /\ TaskTyped' /\ WindowTyped'
  <1>0. WorldTyped /\ TaskTyped /\ WindowTyped /\ ShmLimit \in Nat
    BY TypedParts, ClientAssumption DEF ClientInv
  <1>1. ASSUME NEW t \in Task, xTaskCreate(t) \/ BeginCA(t) \/ EndCA(t)
        PROVE  WorldTyped' /\ TaskTyped' /\ WindowTyped'
    <2>1. UNCHANGED <<open, up, handed, window, rc, inUse, arg, opbuf, shm, served, result>>
      BY <1>1 DEF xTaskCreate, BeginCA, EndCA, serviceVars, callVars, ghosts
    <2>2. session' \in [Task -> Id \union {NULL, Garbage}]
      BY <1>0, <1>1 DEF xTaskCreate, BeginCA, EndCA, callVars, TaskTyped
    <2> QED
      BY <1>0, <2>1, <2>2 DEF WorldTyped, TaskTyped, WindowTyped
  <1>2. ASSUME NEW t \in Task, PreProcess(t) PROVE WorldTyped' /\ TaskTyped' /\ WindowTyped'
    <2>1. UNCHANGED <<open, up, handed, window, rc, session, served, result>>
      BY <1>2 DEF PreProcess, serviceVars, ghosts
    <2>2. pc[t] = "app" /\ step[t] <= NCmds(t) + 1
      BY <1>2 DEF PreProcess
    <2>3. step[t] \in Nat /\ session[t] \in Id \union {NULL, Garbage}
      BY <1>0, <2>2, Runs DEF TaskTyped
    <2>4. PICK ps : ps = ParamsOf(t)
      OBVIOUS
    <2>5. /\ ps \in Seq(Param) /\ Len(ps) \in Nat /\ Cardinality(Refs(ps)) \in Nat
          /\ \A n \in 1..Len(ps) : ps[n] \in Param
      BY <2>2, <2>3, <2>4, ParamsOfCall
    <2>6. inUse' \in 0..ShmLimit
      BY <1>0, <1>2, <2>4, <2>5 DEF PreProcess, TaskTyped
    <2>7. PICK id \in Id \union {NULL} :
             arg' = [arg EXCEPT ![t] = [NoArg EXCEPT
                       !.session = id,
                       !.params = [n \in 1..Len(ps) |->
                          [kind |-> ps[n].kind, size |-> ps[n].size,
                           ptr |-> Client]]]]
      BY <1>2, <2>3, <2>4, Zenon DEF PreProcess
    <2>8. PICK f : f = [n \in 1..Len(ps) |->
                          [kind |-> ps[n].kind, size |-> ps[n].size, ptr |-> Client]]
      OBVIOUS
    <2>9. f \in ArgParams
      <3>1. \A p \in Param : [kind |-> p.kind, size |-> p.size, ptr |-> Client] \in ArgParam
        BY DEF Param, ArgParam, Client
      <3>2. \A n \in 1..Len(ps) : f[n] \in ArgParam
        BY <2>5, <2>8, <3>1
      <3> QED
        BY <2>5, <2>8, <3>2 DEF ArgParams
    <2>10. arg' \in [Task -> Arguments]
      <3>1. PICK a \in Arguments : a = NoArg
        BY NoArgTyped
      <3>2. [a EXCEPT !.session = id, !.params = f] \in Arguments
        BY <2>9 DEF Arguments
      <3> QED
        BY <1>0, <2>7, <2>8, <3>1, <3>2 DEF TaskTyped
    <2>11. /\ opbuf' = [u \in Task |-> opbuf'[u]]
           /\ shm' = [u \in Task |-> shm'[u]]
      BY <1>0, <1>2 DEF PreProcess, TaskTyped
    <2> QED
      BY <1>0, <2>1, <2>6, <2>10, <2>11 DEF WorldTyped, TaskTyped, WindowTyped
  <1>3. ASSUME NEW t \in Task, PreProcessFails(t) \/ UnsetContext(t)
        PROVE  WorldTyped' /\ TaskTyped' /\ WindowTyped'
    <2>1. UNCHANGED <<open, up, handed, window, rc, session, arg, opbuf, shm, served>>
      BY <1>3 DEF PreProcessFails, UnsetContext, serviceVars, ghosts
    <2>2. inUse' \in 0..ShmLimit /\ result' = [u \in Task |-> result'[u]]
      BY <1>0, <1>3 DEF PreProcessFails, UnsetContext, TaskTyped
    <2> QED
      BY <1>0, <2>1, <2>2 DEF WorldTyped, TaskTyped, WindowTyped
  <1>4. ASSUME NEW t \in Task, CopyArg(t) PROVE WorldTyped' /\ TaskTyped' /\ WindowTyped'
    <2>1. UNCHANGED <<open, up, handed, inUse, session, arg, opbuf, shm, served, result>>
      BY <1>4 DEF CopyArg, serviceVars, ghosts
    <2>2. rc' \in [Task -> {0, -1}]
      BY <1>0, <1>4 DEF CopyArg, TransportFails, TaskTyped
    <2>3. WindowTyped'
      <3>1. CASE UNCHANGED window
        BY <1>0, <3>1 DEF WindowTyped
      <3>2. CASE window' = [window EXCEPT !.arg = arg[t]]
        <4>1. PICK d : window = [arg |-> window.arg, cell |-> d] /\ d = window.cell
          BY <1>0 DEF WindowTyped
        <4>2. window' = [arg |-> arg[t], cell |-> d]
          BY <3>2, <4>1
        <4>3. /\ window'.arg = arg[t] /\ window'.cell = d
              /\ window' = [arg |-> window'.arg, cell |-> window'.cell]
          BY <4>2, WindowRecord, Zenon
        <4> QED
          BY <1>0, <4>1, <4>3 DEF WindowTyped, TaskTyped
      <3> QED
        BY <1>4, <3>1, <3>2 DEF CopyArg
    <2> QED
      BY <1>0, <2>1, <2>2, <2>3 DEF WorldTyped, TaskTyped
  <1>5. ASSUME NEW t \in Task, CopyParam(t) PROVE WorldTyped' /\ TaskTyped' /\ WindowTyped'
    <2>1. UNCHANGED <<open, up, handed, inUse, session, arg, opbuf, shm, served, result>>
      BY <1>5 DEF CopyParam, serviceVars, ghosts
    <2>2. rc' \in [Task -> {0, -1}]
      BY <1>0, <1>5 DEF CopyParam, TransportFails, TaskTyped
    <2>3. WindowTyped'
      BY <1>0, <1>5, PlaceStep DEF WindowTyped
    <2> QED
      BY <1>0, <2>1, <2>2, <2>3 DEF WorldTyped, TaskTyped
  <1>6. ASSUME NEW t \in Task, Serve(t) PROVE WorldTyped' /\ TaskTyped' /\ WindowTyped'
    <2>1. UNCHANGED <<inUse, session, arg, opbuf, shm, rc, result>>
      BY <1>6 DEF Serve, callVars
    <2>2. PICK e \in Effects :
            /\ reply'.session \in Id \union {NULL}
            /\ open' \subseteq Id /\ up' \in BOOLEAN
            /\ AnswerArg(t, e) \in Arguments
            /\ window' = [arg |-> AnswerArg(t, e),
                          cell |-> [i \in DOMAIN window.cell |->
                             IF TaWrites(e, i) THEN TaTag(t) ELSE window.cell[i]]]
            /\ served' = [served EXCEPT ![t] = [reply |-> AnswerArg(t, e),
                             written |-> [n \in DOMAIN window.arg.params |->
                                            Written(e, window.arg.params[n])]]]
      BY <1>6, ServeParts
    <2>3. handed' \subseteq Id
      BY <1>0, <1>6, <2>2 DEF Serve, WorldTyped
    <2>4. WindowTyped'
      <3>1. PICK d : d = [i \in DOMAIN window.cell |->
                             IF TaWrites(e, i) THEN TaTag(t) ELSE window.cell[i]]
        OBVIOUS
      <3>2. d = [i \in 0..WindowSize-1 |-> d[i]]
        BY <1>0, <3>1 DEF WindowTyped
      <3>3. /\ window'.arg = AnswerArg(t, e) /\ window'.cell = d
            /\ window' = [arg |-> window'.arg, cell |-> window'.cell]
        BY <2>2, <3>1, WindowRecord, Zenon
      <3> QED
        BY <2>2, <3>2, <3>3 DEF WindowTyped
    <2>5. served' = [u \in Task |-> served'[u]]
      BY <1>0, <2>2 DEF TaskTyped
    <2> QED
      BY <1>0, <2>1, <2>2, <2>3, <2>4, <2>5 DEF WorldTyped, TaskTyped
  <1>7. ASSUME NEW t \in Task, ServeStops(t) PROVE WorldTyped' /\ TaskTyped' /\ WindowTyped'
    BY <1>0, <1>7 DEF ServeStops, Stop, WorldTyped, TaskTyped, WindowTyped, callVars, ghosts
  <1>8. ASSUME NEW t \in Task, CopyBack(t) PROVE WorldTyped' /\ TaskTyped' /\ WindowTyped'
    <2>1. UNCHANGED <<open, up, handed, window, inUse, session, opbuf, served, rc, result>>
      BY <1>8 DEF CopyBack, serviceVars, ghosts
    <2>2. arg' \in [Task -> Arguments]
      BY <1>0, <1>8, RepairedTyped DEF CopyBack, TaskTyped
    <2>3. shm' = [u \in Task |-> shm'[u]]
      BY <1>0, <1>8 DEF CopyBack, TaskTyped
    <2> QED
      BY <1>0, <2>1, <2>2, <2>3 DEF WorldTyped, TaskTyped, WindowTyped
  <1>9. ASSUME NEW t \in Task, Return(t) PROVE WorldTyped' /\ TaskTyped' /\ WindowTyped'
    <2>1. UNCHANGED <<open, up, handed, window>>
      BY <1>9 DEF Return, serviceVars
    <2>2. /\ pc[t] = "return" /\ Running(t) /\ step[t] \in Nat /\ arg[t] \in Arguments
      BY <1>9, Runs DEF Return
    <2>3. /\ step[t] <= NCmds(t) + 1 /\ inUse >= Cardinality(Refs(ParamsOf(t)))
      BY <2>2 DEF Running, InCall
    <2>4. Cardinality(Refs(ParamsOf(t))) \in Nat
      BY <2>2, <2>3, ParamsOfCall
    <2>5. inUse' \in 0..ShmLimit
      <3>1. Released(t) \in Nat /\ Released(t) <= inUse
        BY <1>0, <2>3, <2>4 DEF Released, TaskTyped
      <3> QED
        BY <1>0, <1>9, <3>1 DEF Return, TaskTyped
    <2>6. NewSession(t) \in Id \union {NULL, Garbage}
      BY <1>0, <2>2, ArgFields DEF NewSession, TaskTyped
    <2>7. /\ session' \in [Task -> Id \union {NULL, Garbage}]
          /\ rc' \in [Task -> {0, -1}]
          /\ arg' \in [Task -> Arguments]
      BY <1>0, <1>9, <2>6, NoArgTyped DEF Return, TaskTyped
    <2>8. /\ opbuf' = [u \in Task |-> opbuf'[u]]
          /\ shm' = [u \in Task |-> shm'[u]]
          /\ served' = [u \in Task |-> served'[u]]
          /\ result' = [u \in Task |-> result'[u]]
      BY <1>0, <1>9 DEF Return, TaskTyped
    <2> QED
      BY <1>0, <2>1, <2>5, <2>7, <2>8 DEF WorldTyped, TaskTyped, WindowTyped
  <1>10. CASE Hung \/ UNCHANGED vars
    BY <1>0, <1>10 DEF Hung, vars, serviceVars, callVars, ghosts, WorldTyped, TaskTyped,
       WindowTyped
  <1> QED
    BY <1>1, <1>2, <1>3, <1>4, <1>5, <1>6, <1>7, <1>8, <1>9, <1>10 DEF Next, TaskNext

(***************************************************************************)
(* A request on its way.                                                   *)
(***************************************************************************)

\* What has to be shown of a step: the request of the task that runs, and the
\* buffers of all.
RequestsInv ==
    /\ \A t \in Task : Buffers(t)
    /\ \A t \in Task : mask = t => Running(t)

\* A step of a task leaves the buffers of the others alone.
LEMMA OneTask ==
  ASSUME ClientInv, NEW t \in Task, mask' \in {t, NoTask},
         \A u \in Task : u # t => /\ opbuf'[u] = opbuf[u] /\ shm'[u] = shm[u]
                                  /\ rc'[u] = rc[u] /\ pc'[u] = pc[u],
         Buffers(t)', mask' = t => Running(t)'
  PROVE  RequestsInv'
  <1>1. ASSUME NEW u \in Task PROVE Buffers(u)'
    <2>1. CASE u = t
      BY <2>1
    <2>2. CASE u # t
      BY <2>2 DEF ClientInv, Buffers
    <2> QED
      BY <2>1, <2>2
  <1>2. ASSUME NEW u \in Task, mask' = u PROVE Running(u)'
    <2>1. u = t
      BY <1>2, ClientAssumption
    <2> QED
      BY <1>2, <2>1
  <1> QED
    BY <1>1, <1>2 DEF RequestsInv

\* The library builds the argument and the temporary buffers.
LEMMA PreProcessKeeps ==
  ASSUME ClientInv, NEW t \in Task, PreProcess(t)
  PROVE  RequestsInv'
  <1>1. /\ pc[t] = "app" /\ step[t] <= NCmds(t) + 1
        /\ UNCHANGED <<mask, step, rc, window, copies, served>>
        /\ pc' = [pc EXCEPT ![t] = "transport"]
    BY DEF PreProcess, ghosts
  <1>2. /\ mask = t /\ step[t] \in Nat /\ DOMAIN pc = Task /\ Buffers(t)
        /\ DOMAIN opbuf = Task /\ DOMAIN shm = Task /\ DOMAIN arg = Task
        /\ inUse \in Nat
    BY <1>1, Runs, TaskFacts
  <1>3. PICK ps : ps = ParamsOf(t)
    OBVIOUS
  <1>4. /\ Len(ps) \in Nat /\ Cardinality(Refs(ps)) \in Nat
        /\ \A n \in 1..Len(ps) : ps[n].size \in Nat
    BY <1>1, <1>2, <1>3, ParamsOfCall
  <1>5. ParamsOf(t)' = ps
    BY <1>1, <1>3, SameCall
  <1>6. /\ opbuf' = [opbuf EXCEPT ![t] = [n \in 1..Len(ps) |->
                        [cap |-> ps[n].size, size |-> ps[n].size,
                         data |-> Filled(t, ps[n].size)]]]
        /\ shm' = [shm EXCEPT ![t] = [n \in 1..Len(ps) |-> Filled(t, ps[n].size)]]
        /\ inUse' = inUse + Cardinality(Refs(ps))
    BY <1>3 DEF PreProcess
  <1>7. /\ DOMAIN opbuf'[t] = 1..Len(ps) /\ DOMAIN shm'[t] = 1..Len(ps)
        /\ \A n \in 1..Len(ps) :
              /\ opbuf'[t][n] = [cap |-> ps[n].size, size |-> ps[n].size,
                                 data |-> Filled(t, ps[n].size)]
              /\ shm'[t][n] = Filled(t, ps[n].size)
    BY <1>2, <1>6
  <1>8. ASSUME NEW n \in 1..Len(ps)
        PROVE  /\ opbuf'[t][n].cap = ps[n].size /\ opbuf'[t][n].size = ps[n].size
               /\ opbuf'[t][n].data = Filled(t, ps[n].size)
               /\ opbuf'[t][n] = [cap |-> opbuf'[t][n].cap, size |-> opbuf'[t][n].size,
                                  data |-> opbuf'[t][n].data]
               /\ Cells(Filled(t, ps[n].size), ps[n].size)
    <2>1. PICK k \in Nat : k = ps[n].size
      BY <1>4
    <2>2. Cells(Filled(t, k), k)
      BY DEF Cells, Filled
    <2>3. PICK r, d : r = opbuf'[t][n] /\ d = Filled(t, k)
      OBVIOUS
    <2>4. r = [cap |-> k, size |-> k, data |-> d]
      BY <1>7, <2>1, <2>3
    <2>5. /\ r.cap = k /\ r.size = k /\ r.data = d
          /\ r = [cap |-> r.cap, size |-> r.size, data |-> r.data]
      BY <2>4
    <2> QED
      BY <2>1, <2>2, <2>3, <2>5
  <1>9. Buffers(t)'
    BY <1>1, <1>2, <1>7, <1>8 DEF Buffers
  <1>10. Passed(t)'
    BY <1>5, <1>7, <1>8 DEF Passed
  <1>11. Built(arg[t], t)'
    <2>1. arg'[t].params = [n \in 1..Len(ps) |->
             [kind |-> ps[n].kind, size |-> ps[n].size, ptr |-> Client]]
      BY <1>2, <1>3 DEF PreProcess, NoArg
    <2>2. \A n \in 1..Len(ps) : /\ arg'[t].params[n].kind = ps[n].kind
                               /\ arg'[t].params[n].size = ps[n].size
      BY <2>1
    <2>3. DOMAIN arg'[t].params = 1..Len(ps)
      BY <2>1
    <2> QED
      BY <1>5, <2>2, <2>3 DEF Built, HasParams
  <1>12. Running(t)'
    <2>1. /\ pc'[t] = "transport" /\ rc'[t] = 0 /\ step'[t] = step[t]
          /\ step'[t] <= NCmds(t) + 1
      BY <1>1, <1>2 DEF Buffers
    <2>2. inUse' >= Cardinality(Refs(ps))
      BY <1>2, <1>4, <1>6
    <2>3. step'[t] <= NCmds(t) + 2
      BY <1>2, <2>1, Commands
    <2> QED
      BY <1>5, <1>10, <1>11, <2>1, <2>2, <2>3, Commands DEF Running, InCall
  <1>13. \A u \in Task : u # t => /\ opbuf'[u] = opbuf[u] /\ shm'[u] = shm[u]
                                  /\ rc'[u] = rc[u] /\ pc'[u] = pc[u]
    BY <1>1, <1>2, <1>6
  <1> QED
    BY <1>1, <1>2, <1>9, <1>12, <1>13, OneTask

\* Tasks come and go, a call is refused before it is made, or the task hangs.
LEMMA AsideKeeps ==
  ASSUME ClientInv, NEW t \in Task,
         \/ xTaskCreate(t) \/ BeginCA(t) \/ EndCA(t)
         \/ PreProcessFails(t) \/ UnsetContext(t) \/ ServeStops(t)
  PROVE  RequestsInv'
  <1>1. UNCHANGED <<opbuf, shm, rc>>
    BY DEF xTaskCreate, BeginCA, EndCA, PreProcessFails, UnsetContext, ServeStops, callVars
  <1>2. /\ DOMAIN pc = Task /\ DOMAIN step = Task /\ step[t] \in Nat /\ Buffers(t)
    BY TaskFacts
  <1>3. NCmds(t) \in Nat /\ NCmds(t)' = NCmds(t)
    BY Commands
  <1>4. \A u \in Task : u # t => pc'[u] = pc[u]
    BY <1>2 DEF xTaskCreate, BeginCA, EndCA, PreProcessFails, UnsetContext, ServeStops
  <1>5. ASSUME xTaskCreate(t) \/ EndCA(t)
        PROVE  mask' = NoTask /\ Buffers(t)' /\ (mask' = t => Running(t)')
    BY <1>1, <1>2, <1>5, ClientAssumption DEF xTaskCreate, EndCA, Buffers
  <1>6. ASSUME BeginCA(t)
        PROVE  mask' = t /\ Buffers(t)' /\ (mask' = t => Running(t)')
    BY <1>1, <1>2, <1>3, <1>6 DEF BeginCA, Buffers, Running, InCall
  <1>7. ASSUME PreProcessFails(t) \/ UnsetContext(t)
        PROVE  mask' = t /\ Buffers(t)' /\ (mask' = t => Running(t)')
    <2>1. pc[t] = "app" /\ step[t] <= NCmds(t) + 1 /\ UNCHANGED mask
      BY <1>2, <1>3, <1>7 DEF PreProcessFails, UnsetContext, OpOf
    <2>2. \/ pc' = pc /\ \E res : step' = [step EXCEPT ![t] = NextStep(t, res)]
          \/ pc' = [pc EXCEPT ![t] = "hung"] /\ step' = step
      BY <1>7 DEF PreProcessFails, UnsetContext
    <2>3. \A res : NextStep(t, res) <= NCmds(t) + 2
      BY <1>2, <1>3, <2>1 DEF NextStep
    <2>4. pc'[t] \in {"app", "hung"} /\ step'[t] <= NCmds(t) + 2
      BY <1>2, <1>3, <2>1, <2>2, <2>3
    <2>5. mask = t /\ rc'[t] = 0 /\ shm'[t] = <<>>
      BY <1>1, <1>2, <2>1, Runs DEF Buffers
    <2>6. Running(t)'
      BY <1>3, <2>4, <2>5 DEF Running, InCall
    <2>7. Buffers(t)'
      BY <1>1, <1>2, <2>5 DEF Buffers
    <2> QED
      BY <2>1, <2>5, <2>6, <2>7
  <1>8. ASSUME ServeStops(t)
        PROVE  mask' = t /\ Buffers(t)' /\ (mask' = t => Running(t)')
    <2>1. /\ pc[t] = "place" /\ pc' = [pc EXCEPT ![t] = "hung"] /\ UNCHANGED <<mask, step>>
      BY <1>8 DEF ServeStops, AllPlaced
    <2>2. mask = t /\ Running(t)
      BY <2>1, Runs
    <2>3. Running(t)'
      BY <1>1, <1>2, <1>3, <2>1, <2>2 DEF Running, InCall
    <2>4. Buffers(t)'
      BY <1>1, <1>2, <2>1 DEF Buffers
    <2> QED
      BY <2>1, <2>2, <2>3, <2>4
  <1>9. mask' \in {t, NoTask} /\ Buffers(t)' /\ (mask' = t => Running(t)')
    BY <1>5, <1>6, <1>7, <1>8
  <1> QED
    BY <1>1, <1>4, <1>9, OneTask

\* The transport gives up: the request is not answered.
LEMMA GivesUp ==
  ASSUME ClientInv, NEW t \in Task, pc[t] \in {"transport", "place"}, TransportFails(t),
         UNCHANGED <<mask, step, opbuf, shm, arg, inUse>>
  PROVE  RequestsInv'
  <1>1. /\ mask = t /\ Running(t) /\ Buffers(t) /\ DOMAIN pc = Task /\ DOMAIN rc = Task
    BY Runs, TaskFacts
  <1>2. /\ Passed(t) /\ Built(arg[t], t) /\ inUse >= Cardinality(Refs(ParamsOf(t)))
        /\ step[t] <= NCmds(t) + 1 /\ step[t] <= NCmds(t) + 2
    BY <1>1 DEF Running, InCall
  <1>3. ParamsOf(t)' = ParamsOf(t) /\ NCmds(t)' = NCmds(t)
    BY SameCall, Commands
  <1>4. pc'[t] = "return" /\ rc'[t] # 0
    BY <1>1 DEF TransportFails
  <1>5. Passed(t)' /\ HasParams(arg[t], t)'
    BY <1>2, <1>3 DEF Passed, Built, HasParams
  <1>6. Running(t)'
    BY <1>2, <1>3, <1>4, <1>5 DEF Running, InCall
  <1>7. Buffers(t)'
    BY <1>1, <1>4 DEF Buffers
  <1>8. \A u \in Task : u # t => rc'[u] = rc[u] /\ pc'[u] = pc[u]
    BY <1>1 DEF TransportFails
  <1> QED
    BY <1>1, <1>6, <1>7, <1>8, OneTask

\* The argument is put into the window.
LEMMA CopyArgKeeps ==
  ASSUME ClientInv, NEW t \in Task, CopyArg(t)
  PROVE  RequestsInv'
  <1>1. /\ pc[t] = "transport"
        /\ UNCHANGED <<mask, step, opbuf, shm, arg, inUse, copies>>
    BY DEF CopyArg
  <1>2. CASE TransportFails(t)
    BY <1>1, <1>2, GivesUp
  <1>3. CASE /\ window' = [window EXCEPT !.arg = arg[t]]
             /\ pc' = [pc EXCEPT ![t] = "place"]
             /\ UNCHANGED rc
    <2>1. /\ mask = t /\ Running(t) /\ Buffers(t) /\ DOMAIN pc = Task /\ WindowTyped
          /\ step[t] \in Nat
      BY <1>1, Runs, TaskFacts
    <2>2. /\ Passed(t) /\ Built(arg[t], t) /\ inUse >= Cardinality(Refs(ParamsOf(t)))
          /\ step[t] <= NCmds(t) + 1 /\ step[t] <= NCmds(t) + 2 /\ rc[t] = 0
      BY <1>1, <2>1 DEF Running, InCall
    <2>3. ParamsOf(t)' = ParamsOf(t) /\ NCmds(t)' = NCmds(t) /\ Len(ParamsOf(t)) \in Nat
      BY <1>1, <2>1, <2>2, SameCall, Commands, ParamsOfCall
    <2>4. copies'[t] = <<>>
      BY <1>1 DEF ClientInv, LayoutInv
    <2>5. window'.arg = arg[t]
      BY <1>3, <2>1 DEF WindowTyped
    <2>6. Placed(t)' /\ Built(window.arg, t)' /\ Built(arg[t], t)' /\ Passed(t)'
      <3>1. Built(arg[t], t)' /\ Passed(t)' /\ Built(window.arg, t)' /\ HasParams(window.arg, t)'
        BY <1>1, <2>2, <2>3, <2>5 DEF Built, HasParams, Passed
      <3>2. Len(copies'[t]) = 0 /\ DOMAIN copies'[t] = {}
        BY <2>4
      <3> QED
        BY <2>3, <3>1, <3>2 DEF Placed
    <2>7. pc'[t] = "place"
      BY <1>3, <2>1
    <2>8. Running(t)'
      BY <1>1, <1>3, <2>2, <2>3, <2>6, <2>7 DEF Running, InCall
    <2>9. Buffers(t)'
      BY <1>1, <1>3, <2>1, <2>7 DEF Buffers
    <2>10. \A u \in Task : u # t => pc'[u] = pc[u]
      BY <1>3, <2>1
    <2> QED
      BY <1>1, <1>3, <2>1, <2>8, <2>9, <2>10, OneTask
  <1> QED
    BY <1>2, <1>3 DEF CopyArg

\* A parameter is placed.
LEMMA CopyParamKeeps ==
  ASSUME ClientInv, NEW t \in Task, CopyParam(t)
  PROVE  RequestsInv'
  <1>1. /\ pc[t] = "place"
        /\ UNCHANGED <<mask, step, opbuf, shm, arg, inUse>>
    BY DEF CopyParam
  <1>2. CASE TransportFails(t)
    BY <1>1, <1>2, GivesUp
  <1>3. CASE ~TransportFails(t)
    <2>1. /\ mask = t /\ Running(t) /\ Buffers(t) /\ DOMAIN copies = Task
          /\ step[t] \in Nat /\ copies[t] \in Seq([off : Nat, cap : Nat])
      BY <1>1, Runs, TaskFacts DEF ClientInv, LayoutInv
    <2>2. /\ Passed(t) /\ Built(arg[t], t) /\ inUse >= Cardinality(Refs(ParamsOf(t)))
          /\ step[t] <= NCmds(t) + 1 /\ step[t] <= NCmds(t) + 2 /\ rc[t] = 0
          /\ Placed(t) /\ Built(window.arg, t)
      BY <1>1, <2>1 DEF Running, InCall
    <2>3. PICK ps : ps = ParamsOf(t)
      OBVIOUS
    <2>4. ParamsOf(t)' = ps /\ NCmds(t)' = NCmds(t) /\ Len(ps) \in Nat
      BY <1>1, <2>1, <2>2, <2>3, SameCall, Commands, ParamsOfCall
    <2>5. UNCHANGED <<pc, rc>>
      BY <1>3 DEF CopyParam
    <2>6. PICK n : n = Len(copies[t]) + 1
      OBVIOUS
    <2>7. /\ n \in DOMAIN window.arg.params
          /\ DOMAIN window'.arg.params = DOMAIN window.arg.params
          /\ \A m \in DOMAIN window.arg.params :
                /\ window'.arg.params[m].kind = window.arg.params[m].kind
                /\ window'.arg.params[m].size = window.arg.params[m].size
                /\ m # n => window'.arg.params[m].ptr = window.arg.params[m].ptr
          /\ arg[t].params[n].kind \in Memref => window'.arg.params[n].ptr = cursor[t]
      BY <1>1, <2>5, <2>6, PlaceStep
    <2>8. /\ DOMAIN window.arg.params = 1..Len(ps)
          /\ \A m \in 1..Len(ps) : /\ window.arg.params[m].kind = ps[m].kind
                                   /\ window.arg.params[m].size = ps[m].size
      BY <2>2, <2>3 DEF Built, HasParams
    <2>9. /\ arg[t].params[n].kind = ps[n].kind /\ arg[t].params[n].size = ps[n].size
      BY <2>2, <2>3, <2>7, <2>8 DEF Built, HasParams
    <2>10. Built(window.arg, t)' /\ HasParams(window.arg, t)'
      BY <2>4, <2>7, <2>8 DEF Built, HasParams
    <2>11. PICK c : /\ copies'[t] = Append(copies[t], c)
                    /\ ps[n].kind \in Memref => c = [off |-> cursor[t], cap |-> ps[n].size]
      BY <1>3, <2>1, <2>6, <2>9 DEF CopyParam
    <2>12. /\ Len(copies[t]) \in Nat /\ n \in 1..Len(ps)
           /\ DOMAIN copies[t] = 1..(n - 1)
           /\ Len(copies'[t]) = n /\ DOMAIN copies'[t] = 1..n
           /\ copies'[t][n] = c
           /\ \A m \in 1..(n - 1) : copies'[t][m] = copies[t][m]
      BY <2>1, <2>6, <2>7, <2>8, <2>11
    <2>13. ASSUME NEW m \in 1..n, m \in Refs(ps)
           PROVE  /\ copies'[t][m].cap = ps[m].size
                  /\ window'.arg.params[m].ptr = copies'[t][m].off
      <3>1. CASE m = n
        <4>1. ps[n].kind \in Memref
          BY <2>13, <3>1 DEF Refs
        <4>2. c.off = cursor[t] /\ c.cap = ps[n].size
          BY <2>11, <4>1
        <4> QED
          BY <2>7, <2>9, <2>12, <3>1, <4>1, <4>2
      <3>2. CASE m # n
        <4>1. m \in 1..(n - 1) /\ m \in DOMAIN copies[t] /\ m \in DOMAIN window.arg.params
          BY <2>8, <2>12, <3>2
        <4>2. /\ copies[t][m].cap = ps[m].size
              /\ window.arg.params[m].ptr = copies[t][m].off
          BY <2>2, <2>3, <2>13, <4>1 DEF Placed
        <4> QED
          BY <2>7, <2>12, <3>2, <4>1, <4>2
      <3> QED
        BY <3>1, <3>2
    <2>14. Placed(t)'
      BY <2>4, <2>10, <2>12, <2>13 DEF Placed
    <2>15. Passed(t)' /\ Built(arg[t], t)'
      BY <1>1, <2>2, <2>3, <2>4 DEF Passed, Built, HasParams
    <2>16. Running(t)'
      BY <1>1, <2>2, <2>3, <2>4, <2>5, <2>10, <2>14, <2>15 DEF Running, InCall
    <2>17. Buffers(t)'
      BY <1>1, <2>1, <2>5 DEF Buffers
    <2> QED
      BY <1>1, <2>1, <2>5, <2>16, <2>17, OneTask
  <1> QED
    BY <1>2, <1>3

\* What a TA writes into a buffer fits into it, and into what it says it wrote.
LEMMA WrittenFits ==
  ASSUME NEW e \in Effects, NEW p \in ArgParam
  PROVE  /\ Written(e, p) \in Nat /\ Written(e, p) <= p.size
         /\ Written(e, p) <= NewSize(e, p)
         /\ Written("keep", p) = 0
  BY DEF Written, NewSize, Min2, ArgParam, Effects

\* The secure world answers in the window.
LEMMA ServeKeeps ==
  ASSUME ClientInv, NEW t \in Task, Serve(t)
  PROVE  RequestsInv'
  <1>1. /\ pc[t] = "place" /\ Len(copies[t]) = Len(arg[t].params)
        /\ UNCHANGED <<mask, step, opbuf, shm, arg, inUse, copies, rc>>
        /\ pc' = [pc EXCEPT ![t] = "answered"]
    BY DEF Serve, AllPlaced, callVars
  <1>2. PICK e \in Effects :
          /\ OpOf(t) # "invoke" => e = "keep"
          /\ reply'.session \in Id \union {NULL} /\ reply'.ret \in Results
          /\ reply'.origin \in OpenOrigins \union {"NONE"}
          /\ AnswerArg(t, e) \in Arguments
          /\ window' = [arg |-> AnswerArg(t, e),
                        cell |-> [i \in DOMAIN window.cell |->
                           IF TaWrites(e, i) THEN TaTag(t) ELSE window.cell[i]]]
          /\ served' = [served EXCEPT ![t] = [reply |-> AnswerArg(t, e),
                           written |-> [n \in DOMAIN window.arg.params |->
                                          Written(e, window.arg.params[n])]]]
    BY ServeParts
  <1>3. /\ mask = t /\ Running(t) /\ Buffers(t) /\ DOMAIN pc = Task /\ DOMAIN served = Task
        /\ step[t] \in Nat /\ copies[t] \in Seq([off : Nat, cap : Nat])
        /\ WindowTyped /\ arg[t] \in Arguments
    BY <1>1, Runs, TaskFacts DEF ClientInv, LayoutInv
  <1>4. /\ Passed(t) /\ Built(arg[t], t) /\ inUse >= Cardinality(Refs(ParamsOf(t)))
        /\ step[t] <= NCmds(t) + 1 /\ step[t] <= NCmds(t) + 2 /\ rc[t] = 0
        /\ Placed(t) /\ Built(window.arg, t)
    BY <1>1, <1>3 DEF Running, InCall
  <1>5. PICK ps, a : ps = ParamsOf(t) /\ a = window.arg
    OBVIOUS
  <1>6. /\ ParamsOf(t)' = ps /\ NCmds(t)' = NCmds(t) /\ Len(ps) \in Nat
        /\ \A n \in 1..Len(ps) : ps[n].size \in Nat
    BY <1>1, <1>3, <1>4, <1>5, SameCall, Commands, ParamsOfCall
  <1>7. /\ a \in Arguments /\ DOMAIN a.params = 1..Len(ps)
        /\ \A n \in 1..Len(ps) : /\ a.params[n].kind = ps[n].kind
                                 /\ a.params[n].size = ps[n].size
    BY <1>3, <1>4, <1>5 DEF Built, HasParams, WindowTyped
  <1>8. Len(copies[t]) = Len(ps) /\ DOMAIN copies[t] = 1..Len(ps)
    <2>1. DOMAIN arg[t].params = 1..Len(ps) /\ DOMAIN arg[t].params = 1..Len(arg[t].params)
          /\ Len(arg[t].params) \in Nat
      BY <1>3, <1>4, <1>5, ArgFields DEF Built, HasParams
    <2>2. Len(arg[t].params) = Len(ps)
      BY <1>6, <2>1
    <2>3. DOMAIN copies[t] = 1..Len(copies[t])
      BY <1>3
    <2> QED
      BY <1>1, <2>2, <2>3
  <1>9. PICK b : b = AnswerArg(t, e)
    OBVIOUS
  <1>10. /\ DOMAIN b.params = DOMAIN a.params
         /\ \A n \in DOMAIN a.params :
               /\ b.params[n].kind = a.params[n].kind
               /\ b.params[n].ptr = a.params[n].ptr
               /\ n \in Outs(a.params) /\ OpOf(t) = "invoke" =>
                     b.params[n].size = NewSize(e, a.params[n])
               /\ OpOf(t) # "invoke" => b.params = a.params
    BY <1>2, <1>5, <1>7, <1>9, AnswerTyped
  <1>11. PICK d : d = [i \in DOMAIN window.cell |->
                         IF TaWrites(e, i) THEN TaTag(t) ELSE window.cell[i]]
    OBVIOUS
  <1>12. window'.arg = b /\ window'.cell = d
    BY <1>2, <1>9, <1>11, WindowRecord, Zenon
  <1>13. PICK w : w = [n \in DOMAIN a.params |-> Written(e, a.params[n])]
    OBVIOUS
  <1>14. served'[t].reply = b /\ served'[t].written = w
    <2>1. served' = [served EXCEPT ![t] = [reply |-> b, written |-> w]]
      BY <1>2, <1>5, <1>9, <1>13, Zenon
    <2>2. served'[t] = [reply |-> b, written |-> w]
      BY <1>3, <2>1
    <2> QED
      BY <2>2
  <1>15. HasParams(window.arg, t)'
    BY <1>6, <1>7, <1>10, <1>12 DEF HasParams
  <1>16. Placed(t)'
    <2>1. ASSUME NEW n \in DOMAIN copies[t], n \in Refs(ps)
          PROVE  copies[t][n].cap = ps[n].size /\ b.params[n].ptr = copies[t][n].off
      <3>1. copies[t][n].cap = ps[n].size /\ a.params[n].ptr = copies[t][n].off
        BY <1>4, <1>5, <2>1 DEF Placed
      <3> QED
        BY <1>7, <1>8, <1>10, <3>1
    <2> QED
      BY <1>1, <1>6, <1>8, <1>12, <1>15, <2>1 DEF Placed
  <1>17. ASSUME NEW n \in Outs(ps)
         PROVE  /\ w[n] \in Nat /\ w[n] <= ps[n].size /\ w[n] <= b.params[n].size
                /\ \A i \in 1..w[n] : d[copies[t][n].off + i - 1] = TaTag(t)
    <2>1. /\ n \in 1..Len(ps) /\ n \in DOMAIN a.params /\ n \in Outs(a.params)
          /\ n \in Refs(ps)
      <3>1. n \in 1..Len(ps) /\ ps[n].kind \in {"out", "inout"}
        BY DEF Outs
      <3>2. Len(a.params) \in Nat /\ DOMAIN a.params = 1..Len(a.params)
        BY <1>7, ArgFields
      <3> QED
        BY <1>7, <3>1, <3>2 DEF Outs, Refs, Memref, Kinds
    <2>2. PICK p \in ArgParam : p = a.params[n]
      BY <1>7, <2>1, ArgFields
    <2>3. w[n] = Written(e, p)
      BY <1>13, <2>1, <2>2
    <2>4. p.size = ps[n].size /\ p.ptr = copies[t][n].off
      BY <1>4, <1>5, <1>7, <1>8, <2>1, <2>2 DEF Placed
    <2>5. w[n] \in Nat /\ w[n] <= ps[n].size
      BY <2>3, <2>4, WrittenFits
    <2>6. w[n] <= b.params[n].size
      <3>1. CASE OpOf(t) = "invoke"
        BY <1>10, <2>1, <2>2, <2>3, <3>1, WrittenFits
      <3>2. CASE OpOf(t) # "invoke"
        <4>1. w[n] = 0 /\ b.params[n].size \in Nat
          <5>1. b.params[n] = p
            BY <1>10, <2>1, <2>2, <3>2
          <5> QED
            BY <1>2, <2>3, <3>2, <5>1, WrittenFits DEF ArgParam
        <4> QED
          BY <4>1
      <3> QED
        BY <3>1, <3>2
    <2>7. ASSUME NEW i \in 1..w[n] PROVE d[copies[t][n].off + i - 1] = TaTag(t)
      <3>1. PICK o, k, x : /\ o = copies[t][n].off /\ k = copies[t][n].cap /\ x = o + i - 1
        OBVIOUS
      <3>2. o \in Nat /\ k \in Nat /\ k = ps[n].size
        BY <1>3, <1>4, <1>5, <1>8, <2>1, <3>1, AreaFields DEF Placed
      <3>3. Laid(copies[t], ArgEnd(t), cursor[t]) /\ cursor[t] \in 0..WindowSize
        BY DEF ClientInv, LayoutInv
      <3>4. o + k <= cursor[t]
        BY <1>8, <2>1, <3>1, <3>3 DEF Laid
      <3>5. WindowSize \in Nat
        BY ClientAssumption
      <3>6. x \in 0..WindowSize-1 /\ x \in o .. o + w[n] - 1
        BY <2>5, <3>1, <3>2, <3>3, <3>4, <3>5
      <3>7. x \in DOMAIN window.cell
        BY <1>3, <3>6 DEF WindowTyped
      <3>8. TaWrites(e, x)
        <4>1. p.ptr = o /\ p.ptr # Client
          BY <2>4, <3>1, <3>2 DEF Client
        <4> QED
          BY <1>5, <2>1, <2>2, <2>3, <3>6, <4>1 DEF TaWrites
      <3> QED
        BY <1>11, <3>1, <3>7, <3>8
    <2> QED
      BY <2>5, <2>6, <2>7
  <1>18. Answered(t)'
    BY <1>1, <1>6, <1>8, <1>12, <1>14, <1>17 DEF Answered, TaTag
  <1>19. Passed(t)' /\ Built(arg[t], t)'
    BY <1>1, <1>4, <1>5, <1>6 DEF Passed, Built, HasParams
  <1>20. pc'[t] = "answered"
    BY <1>1, <1>3
  <1>21. Running(t)'
    BY <1>1, <1>4, <1>5, <1>6, <1>16, <1>18, <1>19, <1>20 DEF Running, InCall
  <1>22. Buffers(t)'
    BY <1>1, <1>3, <1>20 DEF Buffers
  <1>23. \A u \in Task : u # t => pc'[u] = pc[u]
    BY <1>1, <1>3
  <1> QED
    BY <1>1, <1>3, <1>21, <1>22, <1>23, OneTask

\* The answer is copied back.
LEMMA CopyBackKeeps ==
  ASSUME ClientInv, NEW t \in Task, CopyBack(t)
  PROVE  RequestsInv'
  <1>1. /\ pc[t] = "answered"
        /\ UNCHANGED <<mask, step, opbuf, inUse, copies, rc, window, served>>
        /\ pc' = [pc EXCEPT ![t] = "return"]
        /\ arg' = [arg EXCEPT ![t] = Repaired(t)]
    BY DEF CopyBack, ghosts
  <1>2. /\ mask = t /\ Running(t) /\ Buffers(t) /\ DOMAIN pc = Task /\ DOMAIN arg = Task
        /\ DOMAIN shm = Task /\ step[t] \in Nat
        /\ copies[t] \in Seq([off : Nat, cap : Nat])
        /\ WindowTyped /\ arg[t] \in Arguments
    BY <1>1, Runs, TaskFacts DEF ClientInv, LayoutInv
  <1>3. /\ Passed(t) /\ Built(arg[t], t) /\ inUse >= Cardinality(Refs(ParamsOf(t)))
        /\ step[t] <= NCmds(t) + 1 /\ step[t] <= NCmds(t) + 2 /\ rc[t] = 0
        /\ Placed(t) /\ Answered(t)
    BY <1>1, <1>2 DEF Running, InCall
  <1>4. PICK ps, a : ps = ParamsOf(t) /\ a = window.arg
    OBVIOUS
  <1>5. /\ ParamsOf(t)' = ps /\ NCmds(t)' = NCmds(t) /\ Len(ps) \in Nat
        /\ \A n \in 1..Len(ps) : ps[n].size \in Nat
    BY <1>1, <1>2, <1>3, <1>4, SameCall, Commands, ParamsOfCall
  <1>6. /\ a \in Arguments /\ DOMAIN a.params = 1..Len(ps)
        /\ \A n \in 1..Len(ps) : a.params[n].kind = ps[n].kind
    BY <1>2, <1>3, <1>4 DEF Placed, HasParams, WindowTyped
  <1>7. Outs(arg[t].params) = Outs(ps)
    <2>1. /\ DOMAIN arg[t].params = 1..Len(ps) /\ DOMAIN arg[t].params = 1..Len(arg[t].params)
          /\ Len(arg[t].params) \in Nat
          /\ \A n \in 1..Len(ps) : arg[t].params[n].kind = ps[n].kind
      BY <1>2, <1>3, <1>4, ArgFields DEF Built, HasParams
    <2>2. Len(arg[t].params) = Len(ps)
      BY <1>5, <2>1
    <2> QED
      BY <2>1, <2>2 DEF Outs
  <1>8. PICK r : r = Repaired(t)
    OBVIOUS
  <1>9. /\ r.session = a.session /\ r.ret = a.ret /\ r.origin = a.origin
        /\ DOMAIN r.params = DOMAIN a.params
        /\ \A n \in DOMAIN a.params : /\ r.params[n].kind = a.params[n].kind
                                      /\ r.params[n].size = a.params[n].size
    BY <1>4, <1>8, RepairedTyped
  <1>10. arg'[t] = r
    BY <1>1, <1>2, <1>8
  <1>11. /\ DOMAIN opbuf[t] = 1..Len(ps) /\ DOMAIN shm[t] = 1..Len(ps)
         /\ \A n \in 1..Len(ps) : opbuf[t][n].cap = ps[n].size
    BY <1>3, <1>4 DEF Passed
  <1>12. DOMAIN shm'[t] = 1..Len(ps)
    BY <1>2, <1>11 DEF CopyBack
  <1>13. ASSUME NEW n \in 1..Len(ps)
         PROVE  /\ Cells(shm'[t][n], ps[n].size)
                /\ n \in Outs(ps) => \A i \in 1..served[t].written[n] :
                                         shm'[t][n][i] = TaTag(t)
    <2>1. Cells(shm[t][n], ps[n].size)
      BY <1>2, <1>11 DEF Buffers
    <2>2. CASE n \notin Outs(ps)
      <3>1. shm'[t][n] = shm[t][n]
        BY <1>2, <1>7, <1>11, <2>2 DEF CopyBack
      <3> QED
        BY <2>1, <2>2, <3>1
    <2>3. CASE n \in Outs(ps)
      <3>1. PICK k, o, w, x : /\ k = ps[n].size /\ o = copies[t][n].off
                              /\ w = served[t].written[n] /\ x = a.params[n].size
        OBVIOUS
      <3>2. /\ w \in Nat /\ w <= k /\ w <= x
            /\ \A i \in 1..w : window.cell[o + i - 1] = TaTag(t)
        BY <1>3, <1>4, <2>3, <3>1 DEF Answered
      <3>3. n \in Refs(ps) /\ n \in DOMAIN copies[t]
        <4>1. DOMAIN copies[t] = 1..Len(ps)
          BY <1>2, <1>3, <1>4 DEF Answered
        <4> QED
          BY <2>3, <4>1 DEF Outs, Refs, Memref, Kinds
      <3>4. copies[t][n].cap = k
        BY <1>3, <1>4, <3>1, <3>3 DEF Placed
      <3>5. k \in Nat /\ x \in Nat
        BY <1>5, <1>6, <3>1, ArgFields
      <3>6. PICK m : m = BackLen(t, n)
        OBVIOUS
      <3>7. m \in 0..k /\ w <= m
        BY <1>4, <3>1, <3>2, <3>4, <3>5, <3>6 DEF BackLen, Min2
      <3>8. PICK c : c = [i \in 1..m |-> window.cell[o + i - 1]]
        OBVIOUS
      <3>9. shm'[t][n] = CopyOver(shm[t][n], c, m)
        BY <1>2, <1>7, <1>11, <2>3, <3>1, <3>6, <3>8 DEF CopyBack
      <3>10. /\ Cells(CopyOver(shm[t][n], c, m), k)
             /\ \A i \in 1..m : CopyOver(shm[t][n], c, m)[i] = c[i]
        BY <2>1, <3>1, <3>7, CopyStays
      <3>11. ASSUME NEW i \in 1..w PROVE shm'[t][n][i] = TaTag(t)
        <4>1. i \in 1..m
          BY <3>2, <3>7
        <4>2. c[i] = window.cell[o + i - 1]
          BY <3>8, <4>1
        <4> QED
          BY <3>2, <3>9, <3>10, <4>1, <4>2
      <3> QED
        BY <3>1, <3>9, <3>10, <3>11
    <2> QED
      BY <2>2, <2>3
  <1>14. pc'[t] = "return"
    BY <1>1, <1>2
  <1>15. Buffers(t)'
    BY <1>1, <1>2, <1>11, <1>12, <1>13, <1>14 DEF Buffers
  <1>16. Passed(t)'
    BY <1>1, <1>3, <1>4, <1>5, <1>12 DEF Passed
  <1>17. HasParams(arg[t], t)'
    BY <1>5, <1>6, <1>9, <1>10 DEF HasParams
  <1>18. Own(t)'
    <2>1. served'[t].reply = a /\ served' = served
      BY <1>1, <1>3, <1>4 DEF Answered
    <2>2. ASSUME NEW n \in Outs(ps)
          PROVE  /\ r.params[n].size = a.params[n].size
                 /\ \A i \in 1..served[t].written[n] : shm'[t][n][i] = TaTag(t)
      <3>1. n \in 1..Len(ps)
        BY DEF Outs
      <3> QED
        BY <1>6, <1>9, <1>13, <3>1
    <2> QED
      BY <1>5, <1>9, <1>10, <2>1, <2>2 DEF Own, TaTag
  <1>19. Running(t)'
    BY <1>1, <1>3, <1>4, <1>5, <1>14, <1>16, <1>17, <1>18 DEF Running, InCall
  <1>20. \A u \in Task : u # t => pc'[u] = pc[u] /\ shm'[u] = shm[u]
    BY <1>1, <1>2 DEF CopyBack
  <1> QED
    BY <1>1, <1>2, <1>15, <1>19, <1>20, OneTask

\* The call returns.
LEMMA ReturnKeeps ==
  ASSUME ClientInv, NEW t \in Task, Return(t)
  PROVE  RequestsInv'
  <1>1. /\ pc[t] = "return" /\ UNCHANGED mask
        /\ pc' = [pc EXCEPT ![t] = "app"]
        /\ rc' = [rc EXCEPT ![t] = 0]
        /\ shm' = [shm EXCEPT ![t] = <<>>]
        /\ step' = [step EXCEPT ![t] = NextStep(t, ResultOf(t).res)]
        /\ opbuf' = [opbuf EXCEPT ![t] = IF rc[t] = 0 THEN post_process(t) ELSE @]
    BY DEF Return
  <1>2. /\ mask = t /\ Running(t) /\ Buffers(t) /\ DOMAIN pc = Task /\ DOMAIN rc = Task
        /\ DOMAIN shm = Task /\ DOMAIN opbuf = Task /\ DOMAIN step = Task
        /\ step[t] \in Nat /\ arg[t] \in Arguments
    BY <1>1, Runs, TaskFacts
  <1>3. Passed(t) /\ HasParams(arg[t], t) /\ step[t] <= NCmds(t) + 1
    BY <1>1, <1>2 DEF Running, InCall
  <1>4. /\ pc'[t] = "app" /\ rc'[t] = 0 /\ shm'[t] = <<>>
    BY <1>1, <1>2
  <1>5. step'[t] <= NCmds(t)' + 2
    <2>1. NCmds(t) \in Nat /\ NCmds(t)' = NCmds(t)
      BY Commands
    <2>2. \A res : NextStep(t, res) <= NCmds(t) + 2
      BY <1>2, <1>3, <2>1 DEF NextStep
    <2> QED
      BY <1>1, <1>2, <2>1, <2>2
  <1>6. Running(t)'
    BY <1>4, <1>5 DEF Running, InCall
  <1>7. ASSUME NEW n \in DOMAIN opbuf'[t]
        PROVE  Cells(opbuf'[t][n].data, opbuf'[t][n].cap)
    <2>1. CASE rc[t] # 0
      <3>1. opbuf'[t] = opbuf[t]
        BY <1>1, <1>2, <2>1
      <3> QED
        BY <1>2, <1>7, <3>1 DEF Buffers
    <2>2. CASE rc[t] = 0
      <3>1. opbuf'[t] = post_process(t)
        BY <1>1, <1>2, <2>2
      <3>2. n \in DOMAIN opbuf[t]
        BY <1>7, <3>1 DEF post_process
      <3>3. CASE n \notin Outs(arg[t].params)
        <4>1. opbuf'[t][n] = opbuf[t][n]
          BY <3>1, <3>2, <3>3 DEF post_process
        <4> QED
          BY <1>2, <3>2, <4>1 DEF Buffers
      <3>4. CASE n \in Outs(arg[t].params)
        <4>1. PICK k, d, x, y : /\ k = opbuf[t][n].cap /\ d = opbuf[t][n].data
                                /\ x = arg[t].params[n].size /\ y = shm[t][n]
          OBVIOUS
        <4>2. Cells(d, k) /\ k \in Nat
          BY <1>2, <3>2, <4>1 DEF Buffers, Cells
        <4>3. /\ opbuf[t][n].size = k
              /\ opbuf[t][n] = [cap |-> k, size |-> k, data |-> d]
          BY <1>3, <3>2, <4>1 DEF Passed
        <4>4. x \in Nat
          <5>1. n \in 1..Len(arg[t].params)
            BY <3>4 DEF Outs
          <5> QED
            BY <1>2, <4>1, <5>1, ArgFields
        <4>5. PICK z : z = IF x <= k THEN CopyOver(d, y, x) ELSE d
          OBVIOUS
        <4>6. Cells(z, k)
          <5>1. CASE x <= k
            <6>1. x \in 0..k
              BY <4>2, <4>4, <5>1
            <6> QED
              BY <4>2, <4>5, <5>1, <6>1, CopyStays
          <5>2. CASE ~(x <= k)
            BY <4>2, <4>5, <5>2
          <5> QED
            BY <5>1, <5>2
        <4>7. opbuf'[t][n] = [opbuf[t][n] EXCEPT !.size = x, !.data = z]
          <5>1. opbuf'[t][n] = [opbuf[t][n] EXCEPT !.size = x,
                   !.data = IF x <= opbuf[t][n].size
                            THEN CopyOver(@, y, x) ELSE @]
            BY <3>1, <3>2, <3>4, <4>1 DEF post_process
          <5> QED
            BY <4>1, <4>3, <4>5, <5>1
        <4>8. opbuf'[t][n].cap = k /\ opbuf'[t][n].data = z
          BY <4>3, <4>7
        <4> QED
          BY <4>6, <4>8
      <3> QED
        BY <3>3, <3>4
    <2> QED
      BY <2>1, <2>2
  <1>8. Buffers(t)'
    BY <1>4, <1>7 DEF Buffers
  <1>9. \A u \in Task : u # t => /\ opbuf'[u] = opbuf[u] /\ shm'[u] = shm[u]
                                 /\ rc'[u] = rc[u] /\ pc'[u] = pc[u]
    BY <1>1, <1>2
  <1> QED
    BY <1>1, <1>2, <1>6, <1>8, <1>9, OneTask

\* Every step keeps the inductive invariant.
LEMMA ClientStep ==
  ASSUME ClientInv, [Next]_vars
  PROVE  ClientInv'
  <1>1. LayoutInv' /\ OneApplication'
    <2>1. LayoutInv /\ OneApplication /\ pc = [u \in Task |-> pc[u]]
      BY DEF ClientInv, LayoutInv
    <2> QED
      BY <2>1, LayoutStep, OneStep
  <1>2. Typed'
    <2>1. WorldTyped' /\ TaskTyped' /\ WindowTyped'
      BY TypedStep
    <2> QED
      BY <1>1, <2>1 DEF Typed, TypeOK, WorldTyped, TaskTyped, WindowTyped, LayoutInv,
         OneApplication
  <1>3. RequestsInv'
    <2>1. CASE Hung \/ UNCHANGED vars
      <3>1. UNCHANGED <<mask, pc, step, opbuf, shm, arg, copies, rc, window, inUse, served>>
        BY <2>1 DEF Hung, vars, taskVars, callVars, ghosts
      <3>2. ASSUME NEW t \in Task PROVE Buffers(t)' /\ (mask' = t => Running(t)')
        <4>1. Buffers(t) /\ (mask = t => Running(t))
          BY DEF ClientInv
        <4>2. ParamsOf(t)' = ParamsOf(t) /\ NCmds(t)' = NCmds(t)
          BY <3>1, SameCall, Commands
        <4>3. /\ Passed(t)' = Passed(t) /\ Placed(t)' = Placed(t)
              /\ Built(arg[t], t)' = Built(arg[t], t)
              /\ Built(window.arg, t)' = Built(window.arg, t)
              /\ HasParams(arg[t], t)' = HasParams(arg[t], t)
          BY <3>1, <4>2 DEF Passed, Placed, Built, HasParams
        <4>4. Answered(t)' = Answered(t) /\ Own(t)' = Own(t)
          BY <3>1, <4>2 DEF Answered, Own, TaTag
        <4> QED
          BY <3>1, <4>1, <4>2, <4>3, <4>4 DEF Buffers, Running
      <3> QED
        BY <3>2 DEF RequestsInv
    <2> QED
      BY <2>1, AsideKeeps, PreProcessKeeps, CopyArgKeeps, CopyParamKeeps, ServeKeeps,
         CopyBackKeeps, ReturnKeeps DEF Next, TaskNext
  <1> QED
    BY <1>1, <1>2, <1>3 DEF ClientInv, RequestsInv

\* The invariant holds at the start.
LEMMA ClientInit == Init => ClientInv
  <1> SUFFICES ASSUME Init PROVE ClientInv
    OBVIOUS
  <1>1. LayoutInv
    BY LayoutInit
  <1>2. OneApplication
    BY ClientAssumption DEF Init, OneApplication
  <1>3. WorldTyped
    BY DEF Init, ServiceInit, WorldTyped
  <1>4. TaskTyped
    BY NoArgTyped, ClientAssumption DEF Init, TaskTyped
  <1>5. WindowTyped
    <2>1. PICK d : d = [i \in 0..WindowSize-1 |-> <<"none">>]
      OBVIOUS
    <2>2. /\ window.arg = NoArg /\ window.cell = d
          /\ window = [arg |-> window.arg, cell |-> window.cell]
      BY <2>1, WindowRecord DEF Init
    <2>3. d = [i \in 0..WindowSize-1 |-> d[i]]
      BY <2>1
    <2> QED
      BY <2>2, <2>3, NoArgTyped DEF WindowTyped
  <1>6. \A t \in Task : Buffers(t)
    BY DEF Init, Buffers
  <1>7. \A t \in Task : mask # t
    BY ClientAssumption DEF Init
  <1> QED
    BY <1>1, <1>2, <1>3, <1>4, <1>5, <1>6, <1>7, TypedParts DEF ClientInv

\* The invariant holds of every reachable state, for every set of tasks,
\* programs, window, alignment and supply of temporary buffers.
THEOREM ClientAlways == Spec => []ClientInv
  <1>1. ClientInv /\ [Next]_vars => ClientInv'
    BY ClientStep
  <1> QED
    BY <1>1, ClientInit, PTL DEF Spec

\* Type correctness of the client side; that cursor never leaves the window and
\* that inUse never exceeds the supply are part of it.
THEOREM ClientTypes == Spec => []TypeOK
  <1>1. ClientInv => TypeOK
    BY DEF ClientInv, Typed
  <1> QED
    BY <1>1, ClientAlways, PTL

\* The answer a call of the client library returns is the one the secure world
\* wrote for that request, although all tasks share one window without a lock.
THEOREM OwnAnswers == Spec => []OwnAnswer
  <1>1. ASSUME ClientInv, NEW t \in Task, pc[t] = "return", rc[t] = 0 PROVE Own(t)
    BY <1>1, Runs DEF Running
  <1>2. ClientInv => OwnAnswer
    BY <1>1 DEF Own, OwnAnswer
  <1> QED
    BY <1>2, ClientAlways, PTL

\* No copy back from the window runs past the temporary buffer or the
\* application's, whatever sizes the secure world returns.
THEOREM NoOverruns == Spec => []NoOverrun
  <1>1. ASSUME ClientInv, NEW t \in Task PROVE Buffers(t)
    BY <1>1 DEF ClientInv
  <1>2. ClientInv => NoOverrun
    BY <1>1, CellsLen DEF Buffers, NoOverrun
  <1> QED
    BY <1>2, ClientAlways, PTL

(***************************************************************************)
(* What a task has acquired is given back.                                 *)
(***************************************************************************)

\* Which call a task makes, by the step it has reached.
LEMMA CallOfStep ==
  ASSUME NEW t \in Task, step[t] \in Nat
  PROVE  /\ OpOf(t) = "open" <=> step[t] = 0
         /\ OpOf(t) = "invoke" <=> step[t] \in 1..NCmds(t)
         /\ OpOf(t) = "close" <=> step[t] > NCmds(t)
         /\ OpOf(t) = "close" => ParamsOf(t) = <<>>
  BY Commands DEF OpOf, ParamsOf

\* The step that follows a call.
LEMMA StepAfter ==
  ASSUME NEW t \in Task, NEW res, step[t] \in Nat, step[t] <= NCmds(t) + 1
  PROVE  /\ NextStep(t, res) \in Nat
         /\ step[t] = 0 => NextStep(t, res) = 1
         /\ step[t] \in 1..NCmds(t) => NextStep(t, res) \in 1..NCmds(t) + 1
         /\ step[t] = NCmds(t) + 1 => NextStep(t, res) = NCmds(t) + 2
  BY Commands, CallOfStep DEF NextStep

\* A close has no memory references to allocate for.
LEMMA NoRefs == Cardinality(Refs(<<>>)) = 0
  <1>1. Refs(<<>>) = {}
    BY DEF Refs
  <1> QED
    BY <1>1, FS_EmptySet

\* When nothing is handed out there is nothing to hold.
LEMMA HoldsNothing ==
  ASSUME NEW t \in Task, handed = {}
  PROVE  Holds(t)
  BY DEF Holds

\* A step of the task that runs, after which it holds what is handed out.
LEMMA HoldsOne ==
  ASSUME NEW t \in Task, mask' = t, Holds(t)'
  PROVE  HoldsInv'
  BY ClientAssumption DEF HoldsInv

\* What is known of the sessions when the task that runs takes a step.
LEMMA HoldsFacts ==
  ASSUME ClientInv, HoldsInv, NEW t \in Task, pc[t] \notin {"idle", "ready"}
  PROVE  /\ mask = t /\ Holds(t) /\ Running(t) /\ step[t] \in Nat
         /\ step[t] <= NCmds(t) + 2
         /\ NCmds(t) \in Nat /\ NCmds(t)' = NCmds(t)
         /\ DOMAIN pc = Task /\ DOMAIN session = Task /\ DOMAIN step = Task
         /\ DOMAIN arg = Task /\ DOMAIN rc = Task
         /\ handed \subseteq Id /\ Garbage \notin Id
         /\ session[t] = Garbage => session[t] \notin handed
         /\ pc[t] \in InCall => step[t] <= NCmds(t) + 1
  <1>1. WorldTyped /\ Garbage \notin Id
    BY TypedParts, ClientAssumption DEF ClientInv
  <1>2. /\ DOMAIN pc = Task /\ DOMAIN session = Task /\ DOMAIN step = Task
        /\ DOMAIN arg = Task /\ DOMAIN rc = Task
    BY TaskFacts
  <1>3. mask = t /\ Holds(t) /\ Running(t) /\ step[t] \in Nat
    BY Runs DEF HoldsInv
  <1>4. step[t] <= NCmds(t) + 2 /\ (pc[t] \in InCall => step[t] <= NCmds(t) + 1)
    BY <1>3 DEF Running
  <1>5. NCmds(t) \in Nat /\ NCmds(t)' = NCmds(t)
    BY Commands
  <1> QED
    BY <1>1, <1>2, <1>3, <1>4, <1>5 DEF WorldTyped

\* The library builds a request: a close asks for the session the task holds.
LEMMA HoldsPreProcess ==
  ASSUME ClientInv, HoldsInv, NEW t \in Task, PreProcess(t)
  PROVE  HoldsInv'
  <1>1. /\ pc[t] = "app" /\ step[t] <= NCmds(t) + 1
        /\ pc' = [pc EXCEPT ![t] = "transport"]
        /\ UNCHANGED <<mask, step, session, handed>>
    BY DEF PreProcess, ghosts
  <1>2. /\ mask = t /\ Holds(t) /\ step[t] \in Nat /\ NCmds(t) \in Nat
        /\ NCmds(t)' = NCmds(t) /\ DOMAIN pc = Task /\ DOMAIN arg = Task
        /\ session[t] = Garbage => session[t] \notin handed
    BY <1>1, HoldsFacts
  <1>3. pc'[t] = "transport"
    BY <1>1, <1>2
  <1>4. step[t] = NCmds(t) + 1 /\ session[t] # Garbage => arg'[t].session = session[t]
    <2> SUFFICES ASSUME step[t] = NCmds(t) + 1, session[t] # Garbage
                 PROVE  arg'[t].session = session[t]
      OBVIOUS
    <2>1. OpOf(t) # "open"
      BY <1>2, CallOfStep
    <2>2. PICK f : arg' = [arg EXCEPT ![t] = [NoArg EXCEPT !.session = session[t], !.params = f]]
      BY <2>1 DEF PreProcess
    <2>3. arg'[t] = [NoArg EXCEPT !.session = session[t], !.params = f]
      BY <1>2, <2>2
    <2> QED
      BY <2>3 DEF NoArg
  <1>5. Holds(t)'
    BY <1>1, <1>2, <1>3, <1>4 DEF Holds, Fits, align_up
  <1> QED
    BY <1>1, <1>2, <1>5, HoldsOne

\* A call the library refuses leaves the sessions alone; a close is never
\* refused, for it needs no temporary buffer.
LEMMA HoldsRefused ==
  ASSUME ClientInv, HoldsInv, NEW t \in Task, PreProcessFails(t) \/ UnsetContext(t)
  PROVE  HoldsInv'
  <1>1. /\ pc[t] = "app" /\ UNCHANGED <<mask, session, handed>>
    BY DEF PreProcessFails, UnsetContext, ghosts
  <1>2. /\ mask = t /\ Holds(t) /\ step[t] \in Nat /\ NCmds(t) \in Nat
        /\ NCmds(t)' = NCmds(t) /\ DOMAIN pc = Task /\ DOMAIN step = Task
        /\ session[t] = Garbage => session[t] \notin handed
    BY <1>1, HoldsFacts
  <1>3. CASE PreProcessFails(t)
    <2>1. /\ step[t] <= NCmds(t) + 1 /\ UNCHANGED pc
          /\ step' = [step EXCEPT ![t] = NextStep(t, "OUT_OF_MEMORY")]
          /\ inUse + Cardinality(Refs(ParamsOf(t))) > ShmLimit
      BY <1>3 DEF PreProcessFails
    <2>2. step[t] # NCmds(t) + 1
      <3> SUFFICES ASSUME step[t] = NCmds(t) + 1 PROVE FALSE
        OBVIOUS
      <3>1. Cardinality(Refs(ParamsOf(t))) = 0
        BY <1>2, CallOfStep, NoRefs
      <3>2. inUse \in 0..ShmLimit /\ ShmLimit \in Nat
        BY ClientAssumption DEF ClientInv, Typed, TypeOK
      <3> QED
        BY <2>1, <3>1, <3>2
    <2>3. CASE step[t] = 0
      BY <1>1, <1>2, <2>3, HoldsNothing, HoldsOne DEF Holds
    <2>4. CASE step[t] \in 1..NCmds(t)
      <3>1. step'[t] \in 1..NCmds(t) + 1 /\ pc'[t] = "app"
        BY <1>1, <1>2, <2>1, <2>4, StepAfter
      <3>2. (handed # {} => Fits) /\ handed \subseteq {session[t]}
        BY <1>1, <1>2, <2>4 DEF Holds
      <3>3. Holds(t)'
        BY <1>1, <1>2, <3>1, <3>2 DEF Holds, Fits, align_up
      <3> QED
        BY <1>1, <1>2, <3>3, HoldsOne
    <2> QED
      BY <1>2, <2>1, <2>2, <2>3, <2>4
  <1>4. CASE UnsetContext(t)
    <2>1. step[t] \in 1..NCmds(t) /\ session[t] = Garbage
      BY <1>2, <1>4, CallOfStep DEF UnsetContext
    <2>2. handed = {}
      BY <1>1, <1>2, <2>1 DEF Holds
    <2>3. Holds(t)'
      BY <1>1, <2>2 DEF Holds
    <2> QED
      BY <1>1, <1>2, <2>3, HoldsOne
  <1> QED
    BY <1>3, <1>4

\* The transport copies the argument, or gives up.  It cannot give up on a
\* close: where the argument of the open fitted, that of the close does.
LEMMA HoldsCopyArg ==
  ASSUME ClientInv, HoldsInv, NEW t \in Task, CopyArg(t)
  PROVE  HoldsInv'
  <1>1. pc[t] = "transport" /\ UNCHANGED <<mask, step, session, handed>>
    BY DEF CopyArg, ghosts
  <1>2. /\ mask = t /\ Holds(t) /\ step[t] \in Nat /\ NCmds(t) \in Nat
        /\ NCmds(t)' = NCmds(t) /\ DOMAIN pc = Task /\ step[t] <= NCmds(t) + 1
    BY <1>1, HoldsFacts DEF InCall
  <1>3. CASE /\ ArgLen[OpOf(t)] > WindowSize - align_up(HeaderLen)
             /\ TransportFails(t)
    <2>1. pc'[t] = "return"
      BY <1>2, <1>3 DEF TransportFails
    <2>2. step[t] = NCmds(t) + 1 => handed = {}
      <3> SUFFICES ASSUME step[t] = NCmds(t) + 1, Fits PROVE FALSE
        BY <1>2 DEF Holds
      <3>1. OpOf(t) = "close"
        BY <1>2, CallOfStep
      <3>2. /\ ArgLen["close"] \in Nat /\ ArgLen["open"] \in Nat /\ WindowSize \in Nat
            /\ ArgLen["close"] <= ArgLen["open"] /\ align_up(HeaderLen) \in Nat
        BY ClientAssumption, AlignUp DEF Calls
      <3> QED
        BY <1>3, <3>1, <3>2 DEF Fits
    <2>3. Holds(t)'
      BY <1>1, <1>2, <2>1, <2>2 DEF Holds, Fits, align_up
    <2> QED
      BY <1>1, <1>2, <2>3, HoldsOne
  <1>4. CASE /\ window' = [window EXCEPT !.arg = arg[t]]
             /\ pc' = [pc EXCEPT ![t] = "place"]
    <2>1. pc'[t] = "place"
      BY <1>2, <1>4
    <2>2. window'.arg = arg[t]
      BY <1>4, TypedParts DEF ClientInv, WindowTyped
    <2>3. Holds(t)'
      BY <1>1, <1>2, <2>1, <2>2 DEF Holds, Fits, align_up
    <2> QED
      BY <1>1, <1>2, <2>3, HoldsOne
  <1> QED
    BY <1>3, <1>4 DEF CopyArg

\* A parameter is placed, or does not fit.  A close has none.
LEMMA HoldsCopyParam ==
  ASSUME ClientInv, HoldsInv, NEW t \in Task, CopyParam(t)
  PROVE  HoldsInv'
  <1>1. /\ pc[t] = "place" /\ Len(copies[t]) + 1 <= Len(arg[t].params)
        /\ UNCHANGED <<mask, step, session, handed>>
        /\ \/ pc' = [pc EXCEPT ![t] = "return"]
           \/ pc' = pc
    BY DEF CopyParam, TransportFails, ghosts
  <1>2. /\ mask = t /\ Holds(t) /\ step[t] \in Nat /\ NCmds(t) \in Nat /\ Running(t)
        /\ NCmds(t)' = NCmds(t) /\ DOMAIN pc = Task /\ step[t] <= NCmds(t) + 1
    BY <1>1, HoldsFacts DEF InCall
  <1>3. pc'[t] \in {"place", "return"}
    BY <1>1, <1>2
  <1>4. step[t] # NCmds(t) + 1
    <2> SUFFICES ASSUME step[t] = NCmds(t) + 1 PROVE FALSE
      OBVIOUS
    <2>1. ParamsOf(t) = <<>>
      BY <1>2, CallOfStep
    <2>2. Built(arg[t], t) /\ arg[t] \in Arguments
      BY <1>1, <1>2, TaskFacts DEF Running
    <2>3. DOMAIN arg[t].params = 1..0
      BY <2>1, <2>2 DEF Built, HasParams
    <2>4. Len(arg[t].params) \in Nat /\ DOMAIN arg[t].params = 1..Len(arg[t].params)
      BY <2>2, ArgFields
    <2>5. Len(arg[t].params) = 0
      <3>1. PICK l \in Nat : l = Len(arg[t].params) /\ 1..0 = 1..l
        BY <2>3, <2>4
      <3>2. 1 \notin 1..l
        BY <3>1
      <3> QED
        BY <3>1, <3>2
    <2>6. copies[t] \in Seq([off : Nat, cap : Nat])
      BY DEF ClientInv, LayoutInv
    <2> QED
      BY <1>1, <2>5, <2>6
  <1>5. Holds(t)'
    BY <1>1, <1>2, <1>3, <1>4 DEF Holds, Fits, align_up
  <1> QED
    BY <1>1, <1>2, <1>5, HoldsOne

\* The secure world answers: an open that succeeds hands a session out, and a
\* close takes back the one the argument names.
LEMMA HoldsServe ==
  ASSUME ClientInv, HoldsInv, NEW t \in Task, Serve(t)
  PROVE  HoldsInv'
  <1>1. /\ pc[t] = "place" /\ UNCHANGED <<mask, step, session>>
        /\ pc' = [pc EXCEPT ![t] = "answered"]
        /\ handed' = IF OpOf(t) = "open" THEN handed \union ({reply'.session} \ {NULL})
                     ELSE IF OpOf(t) = "close" THEN handed \ {window.arg.session}
                     ELSE handed
    BY DEF Serve, AllPlaced, callVars
  <1>2. /\ mask = t /\ Holds(t) /\ step[t] \in Nat /\ NCmds(t) \in Nat
        /\ NCmds(t)' = NCmds(t) /\ DOMAIN pc = Task /\ step[t] <= NCmds(t) + 1
    BY <1>1, HoldsFacts DEF InCall
  <1>3. pc'[t] = "answered"
    BY <1>1, <1>2
  <1>4. CASE step[t] = 0
    <2>1. OpOf(t) = "open" /\ handed = {}
      BY <1>1, <1>2, <1>4, CallOfStep DEF Holds
    <2>2. Fits
      <3>1. /\ cursor[t] \in 0..WindowSize /\ cursor[t] >= ArgEnd(t) /\ WindowSize \in Nat
        BY <1>1, ClientAssumption DEF ClientInv, LayoutInv
      <3>2. ArgEnd(t) = align_up(HeaderLen) + ArgLen["open"]
        BY <2>1 DEF ArgEnd
      <3>3. align_up(HeaderLen) \in Nat /\ ArgLen["open"] \in Nat
        BY AlignUp, ClientAssumption DEF Calls
      <3> QED
        BY <3>1, <3>2, <3>3 DEF Fits
    <2>3. handed' = {} \/ (reply'.ret = "SUCCESS" /\ handed' = {reply'.session})
      <3>1. \/ \E i \in Id : Open(i)
            \/ \E ret \in Errors : OpenRefused(ret)
        BY <2>1 DEF Serve
      <3>2. CASE \E i \in Id : Open(i)
        <4>1. reply'.ret = "SUCCESS"
          BY <3>2 DEF Open, Answer
        <4> QED
          BY <1>1, <2>1, <4>1
      <3>3. CASE \E ret \in Errors : OpenRefused(ret)
        <4>1. reply'.session = NULL
          BY <3>3 DEF OpenRefused, Answer
        <4> QED
          BY <1>1, <2>1, <4>1
      <3> QED
        BY <3>1, <3>2, <3>3
    <2>4. window'.arg.session = reply'.session /\ window'.arg.ret = reply'.ret
      <3>1. PICK e \in Effects :
              /\ reply'.session \in Id \union {NULL} /\ reply'.ret \in Results
              /\ reply'.origin \in OpenOrigins \union {"NONE"}
              /\ window' = [arg |-> AnswerArg(t, e),
                            cell |-> [i \in DOMAIN window.cell |->
                               IF TaWrites(e, i) THEN TaTag(t) ELSE window.cell[i]]]
        BY ServeParts
      <3>2. window'.arg = AnswerArg(t, e)
        BY <3>1, WindowRecord, Zenon
      <3>3. PICK a \in Arguments : a = window.arg
        BY TaskFacts DEF WindowTyped
      <3>4. AnswerArg(t, e).session = reply'.session /\ AnswerArg(t, e).ret = reply'.ret
        BY <2>1, <3>1, <3>3, AnswerTyped
      <3> QED
        BY <3>2, <3>4
    <2>5. Holds(t)'
      BY <1>1, <1>2, <1>3, <1>4, <2>2, <2>3, <2>4 DEF Holds, Fits, align_up
    <2> QED
      BY <1>1, <1>2, <2>5, HoldsOne
  <1>5. CASE step[t] \in 1..NCmds(t)
    <2>1. handed' = handed
      BY <1>1, <1>2, <1>5, CallOfStep
    <2>2. Holds(t)'
      BY <1>1, <1>2, <1>3, <1>5, <2>1 DEF Holds, Fits, align_up
    <2> QED
      BY <1>1, <1>2, <2>2, HoldsOne
  <1>6. CASE step[t] = NCmds(t) + 1
    <2>1. OpOf(t) = "close" /\ handed \subseteq {window.arg.session}
      BY <1>1, <1>2, <1>6, CallOfStep DEF Holds
    <2>2. handed' = {}
      BY <1>1, <2>1
    <2>3. Holds(t)'
      BY <2>2 DEF Holds
    <2> QED
      BY <1>1, <1>2, <2>3, HoldsOne
  <1> QED
    BY <1>2, <1>4, <1>5, <1>6

\* The answer is copied back, or never comes.
LEMMA HoldsBack ==
  ASSUME ClientInv, HoldsInv, NEW t \in Task, CopyBack(t) \/ ServeStops(t)
  PROVE  HoldsInv'
  <1>1. /\ UNCHANGED <<mask, step, session, handed, rc>>
        /\ pc[t] \in {"place", "answered"}
    BY DEF CopyBack, ServeStops, AllPlaced, callVars, ghosts
  <1>2. /\ mask = t /\ Holds(t) /\ step[t] \in Nat /\ NCmds(t) \in Nat /\ Running(t)
        /\ NCmds(t)' = NCmds(t) /\ DOMAIN pc = Task /\ DOMAIN arg = Task
        /\ step[t] <= NCmds(t) + 1
    BY <1>1, HoldsFacts DEF InCall
  <1>3. CASE ServeStops(t)
    <2>1. pc'[t] = "hung"
      BY <1>2, <1>3 DEF ServeStops
    <2>2. Holds(t)'
      BY <1>1, <1>2, <2>1 DEF Holds, Fits, align_up
    <2> QED
      BY <1>1, <1>2, <2>2, HoldsOne
  <1>4. CASE CopyBack(t)
    <2>1. pc'[t] = "return" /\ pc[t] = "answered" /\ arg'[t] = Repaired(t)
      BY <1>2, <1>4 DEF CopyBack
    <2>2. PICK r : r = Repaired(t)
      OBVIOUS
    <2>3. r.session = window.arg.session /\ r.ret = window.arg.ret
      <3>1. window.arg \in Arguments
        BY TaskFacts DEF WindowTyped
      <3> QED
        BY <2>2, <3>1, RepairedTyped
    <2>4. rc'[t] = 0
      BY <1>1, <1>2, <2>1 DEF Running
    <2>5. Holds(t)'
      BY <1>1, <1>2, <2>1, <2>2, <2>3, <2>4 DEF Holds, Fits, align_up
    <2> QED
      BY <1>1, <1>2, <2>5, HoldsOne
  <1> QED
    BY <1>3, <1>4

\* The call returns: the session of an open that succeeded is the task's.
LEMMA HoldsReturn ==
  ASSUME ClientInv, HoldsInv, NEW t \in Task, Return(t)
  PROVE  HoldsInv'
  <1>1. /\ pc[t] = "return" /\ UNCHANGED <<mask, handed>>
        /\ pc' = [pc EXCEPT ![t] = "app"]
        /\ session' = [session EXCEPT ![t] = NewSession(t)]
        /\ step' = [step EXCEPT ![t] = NextStep(t, ResultOf(t).res)]
    BY DEF Return
  <1>2. /\ mask = t /\ Holds(t) /\ step[t] \in Nat /\ NCmds(t) \in Nat
        /\ NCmds(t)' = NCmds(t) /\ DOMAIN pc = Task /\ DOMAIN step = Task
        /\ DOMAIN session = Task /\ step[t] <= NCmds(t) + 1
    BY <1>1, HoldsFacts DEF InCall
  <1>3. PICK res : res = ResultOf(t).res
    OBVIOUS
  <1>4. /\ pc'[t] = "app" /\ session'[t] = NewSession(t) /\ step'[t] = NextStep(t, res)
    BY <1>1, <1>2, <1>3
  <1>5. CASE handed = {}
    BY <1>1, <1>2, <1>5, HoldsOne DEF Holds
  <1>6. CASE handed # {}
    <2>1. step[t] # NCmds(t) + 1 /\ Fits
      BY <1>1, <1>2, <1>6 DEF Holds
    <2>2. CASE step[t] = 0
      <3>1. handed = {arg[t].session} /\ rc[t] = 0 /\ arg[t].ret = "SUCCESS"
        BY <1>1, <1>2, <1>6, <2>2 DEF Holds
      <3>2. OpOf(t) = "open" /\ step'[t] = 1
        BY <1>2, <1>4, <2>2, CallOfStep, StepAfter
      <3>3. session'[t] = arg[t].session
        BY <1>4, <3>1, <3>2 DEF NewSession
      <3>4. Holds(t)'
        BY <1>1, <1>2, <1>4, <2>1, <3>1, <3>2, <3>3 DEF Holds, Fits, align_up
      <3> QED
        BY <1>1, <1>2, <3>4, HoldsOne
    <2>3. CASE step[t] \in 1..NCmds(t)
      <3>1. handed \subseteq {session[t]}
        BY <1>1, <1>2, <2>3 DEF Holds
      <3>2. OpOf(t) = "invoke" /\ step'[t] \in 1..NCmds(t) + 1
        BY <1>2, <1>4, <2>3, CallOfStep, StepAfter
      <3>3. session'[t] = session[t]
        BY <1>4, <3>2 DEF NewSession
      <3>4. Holds(t)'
        BY <1>1, <1>2, <1>4, <2>1, <3>1, <3>2, <3>3 DEF Holds, Fits, align_up
      <3> QED
        BY <1>1, <1>2, <3>4, HoldsOne
    <2> QED
      BY <1>2, <2>1, <2>2, <2>3
  <1> QED
    BY <1>5, <1>6

\* Every step keeps track of the sessions handed out.
LEMMA HoldsStep ==
  ASSUME ClientInv, HoldsInv, [Next]_vars
  PROVE  HoldsInv'
  <1>1. ASSUME NEW t \in Task, xTaskCreate(t) PROVE HoldsInv'
    BY <1>1, ClientAssumption DEF xTaskCreate, HoldsInv, ghosts
  <1>2. ASSUME NEW t \in Task, BeginCA(t) PROVE HoldsInv'
    <2>1. mask' = t /\ handed' = {}
      BY <1>2 DEF BeginCA, HoldsInv, ghosts
    <2>2. Holds(t)'
      BY <2>1 DEF Holds
    <2> QED
      BY <2>1, <2>2, HoldsOne
  <1>3. ASSUME NEW t \in Task, EndCA(t) PROVE HoldsInv'
    <2>1. pc[t] = "app" /\ step[t] = NCmds(t) + 2 /\ mask' = NoTask /\ handed' = handed
      BY <1>3 DEF EndCA, ghosts
    <2>2. handed = {}
      BY <2>1, HoldsFacts DEF Holds
    <2> QED
      BY <2>1, <2>2, ClientAssumption DEF HoldsInv
  <1>4. CASE Hung \/ UNCHANGED vars
    <2>1. UNCHANGED <<mask, pc, step, session, arg, rc, window, handed>>
      BY <1>4 DEF Hung, vars, taskVars, callVars, ghosts
    <2>2. ASSUME NEW t \in Task PROVE NCmds(t)' = NCmds(t)
      BY Commands
    <2>3. ASSUME NEW t \in Task, Holds(t) PROVE Holds(t)'
      BY <2>1, <2>2, <2>3 DEF Holds, Fits, align_up
    <2> QED
      BY <2>1, <2>3 DEF HoldsInv
  <1> QED
    BY <1>1, <1>2, <1>3, <1>4, HoldsPreProcess, HoldsRefused, HoldsCopyArg, HoldsCopyParam,
       HoldsServe, HoldsBack, HoldsReturn DEF Next, TaskNext

\* No application passes memory to TEEC_OpenSession, which does not free the
\* temporary buffers it allocates.
PlainOpens == \A t \in Task : Refs(Program[t].open) = {}

\* A call that allocates at most the buffers it releases.
LEMMA NothingKept ==
  ASSUME PlainOpens, NEW t \in Task, step[t] \in Nat, step[t] <= NCmds(t) + 1
  PROVE  Released(t) = Cardinality(Refs(ParamsOf(t)))
  <1>1. OpOf(t) = "open" => ParamsOf(t) = Program[t].open
    BY DEF ParamsOf
  <1>2. Cardinality({}) = 0
    BY FS_EmptySet
  <1>3. CASE OpOf(t) = "open"
    BY <1>1, <1>2, <1>3 DEF PlainOpens, Released
  <1>4. CASE OpOf(t) = "close"
    BY <1>4, CallOfStep, NoRefs DEF Released
  <1>5. CASE OpOf(t) = "invoke"
    BY <1>5 DEF Released
  <1> QED
    BY <1>3, <1>4, <1>5 DEF OpOf

\* The temporary buffers when the task that runs takes a step.
LEMMA ShmOne ==
  ASSUME NEW t \in Task, mask' = t,
         pc'[t] \in InCall => inUse' = Cardinality(Refs(ParamsOf(t)')),
         pc'[t] = "app" => inUse' = 0
  PROVE  ShmInv'
  BY ClientAssumption DEF ShmInv

\* Every step keeps count of the temporary buffers.
LEMMA ShmStep ==
  ASSUME PlainOpens, ClientInv, ShmInv, [Next]_vars
  PROVE  ShmInv'
  <1>0. ASSUME NEW t \in Task, pc[t] \notin {"idle", "ready"}
        PROVE  /\ mask = t /\ step[t] \in Nat /\ DOMAIN pc = Task
               /\ pc[t] = "app" => inUse = 0
               /\ pc[t] \in InCall => /\ inUse = Cardinality(Refs(ParamsOf(t)))
                                      /\ step[t] <= NCmds(t) + 1
               /\ inUse \in Nat
    BY <1>0, Runs, TaskFacts DEF ShmInv, Running
  <1>1. ASSUME NEW t \in Task, xTaskCreate(t) PROVE ShmInv'
    BY <1>1, ClientAssumption DEF xTaskCreate, ShmInv, callVars
  <1>2. ASSUME NEW t \in Task, BeginCA(t) PROVE ShmInv'
    <2>1. mask' = t /\ inUse' = 0 /\ pc'[t] = "app"
      BY <1>2, TaskFacts DEF BeginCA, ShmInv
    <2> QED
      BY <2>1, ShmOne DEF InCall
  <1>3. ASSUME NEW t \in Task, EndCA(t) PROVE ShmInv'
    <2>1. pc[t] = "app" /\ mask' = NoTask /\ inUse' = inUse
      BY <1>3 DEF EndCA, callVars
    <2> QED
      BY <1>0, <2>1, ClientAssumption DEF ShmInv
  <1>4. ASSUME NEW t \in Task, PreProcess(t) PROVE ShmInv'
    <2>1. /\ pc[t] = "app" /\ UNCHANGED <<mask, step>> /\ step[t] <= NCmds(t) + 1
          /\ pc' = [pc EXCEPT ![t] = "transport"]
          /\ inUse' = inUse + Cardinality(Refs(ParamsOf(t)))
      BY <1>4 DEF PreProcess
    <2>2. mask = t /\ inUse = 0 /\ pc'[t] = "transport" /\ step[t] \in Nat
      BY <1>0, <2>1
    <2>3. ParamsOf(t)' = ParamsOf(t) /\ Cardinality(Refs(ParamsOf(t))) \in Nat
      BY <2>1, <2>2, SameCall, ParamsOfCall
    <2> QED
      BY <2>1, <2>2, <2>3, ShmOne
  <1>5. ASSUME NEW t \in Task, PreProcessFails(t) PROVE ShmInv'
    <2>1. /\ pc[t] = "app" /\ UNCHANGED <<mask, pc>> /\ step[t] <= NCmds(t) + 1
          /\ inUse + Cardinality(Refs(ParamsOf(t))) > ShmLimit
          /\ inUse' = IF OpOf(t) = "open" THEN ShmLimit ELSE inUse
      BY <1>5 DEF PreProcessFails
    <2>2. mask = t /\ inUse = 0 /\ step[t] \in Nat
      BY <1>0, <2>1
    <2>3. OpOf(t) # "open"
      <3> SUFFICES ASSUME OpOf(t) = "open" PROVE FALSE
        OBVIOUS
      <3>1. Cardinality(Refs(ParamsOf(t))) = 0
        BY FS_EmptySet DEF ParamsOf, PlainOpens
      <3> QED
        BY <2>1, <2>2, <3>1, ClientAssumption
    <2> QED
      BY <2>1, <2>2, <2>3, ShmOne DEF InCall
  <1>6. ASSUME NEW t \in Task, UnsetContext(t) PROVE ShmInv'
    <2>1. /\ pc[t] = "app" /\ UNCHANGED <<mask, inUse>>
          /\ pc' = pc \/ pc' = [pc EXCEPT ![t] = "hung"]
      BY <1>6 DEF UnsetContext
    <2>2. mask = t /\ inUse = 0 /\ pc'[t] \in {"app", "hung"}
      BY <1>0, <2>1
    <2> QED
      BY <2>1, <2>2, ShmOne DEF InCall
  <1>7. ASSUME NEW t \in Task, CopyArg(t) \/ CopyParam(t) \/ Serve(t) \/ ServeStops(t)
                               \/ CopyBack(t)
        PROVE  ShmInv'
    <2>1. /\ pc[t] \in InCall /\ UNCHANGED <<mask, inUse, step>>
          /\ pc' = pc \/ \E c \in InCall \union {"hung"} : pc' = [pc EXCEPT ![t] = c]
      BY <1>7 DEF CopyArg, CopyParam, Serve, ServeStops, CopyBack, AllPlaced, TransportFails,
         callVars, InCall
    <2>2. mask = t /\ inUse = Cardinality(Refs(ParamsOf(t))) /\ pc'[t] # "app"
      BY <1>0, <2>1 DEF InCall
    <2>3. ParamsOf(t)' = ParamsOf(t)
      BY <2>1, SameCall
    <2> QED
      BY <2>1, <2>2, <2>3, ShmOne
  <1>8. ASSUME NEW t \in Task, Return(t) PROVE ShmInv'
    <2>1. /\ pc[t] = "return" /\ UNCHANGED mask /\ inUse' = inUse - Released(t)
          /\ pc' = [pc EXCEPT ![t] = "app"]
      BY <1>8 DEF Return
    <2>2. /\ mask = t /\ inUse = Cardinality(Refs(ParamsOf(t))) /\ pc'[t] = "app"
          /\ step[t] \in Nat /\ step[t] <= NCmds(t) + 1 /\ inUse \in Nat
      BY <1>0, <2>1 DEF InCall
    <2>3. inUse' = 0
      BY <2>1, <2>2, NothingKept
    <2> QED
      BY <2>1, <2>2, <2>3, ShmOne DEF InCall
  <1>9. CASE Hung \/ UNCHANGED vars
    <2>1. UNCHANGED <<mask, pc, step, inUse>>
      BY <1>9 DEF Hung, vars, taskVars, callVars
    <2>2. ASSUME NEW t \in Task PROVE ParamsOf(t)' = ParamsOf(t)
      BY <2>1, SameCall
    <2> QED
      BY <2>1, <2>2 DEF ShmInv
  <1> QED
    BY <1>1, <1>2, <1>3, <1>4, <1>5, <1>6, <1>7, <1>8, <1>9 DEF Next, TaskNext

\* An application that opens its session without parameters has given back every
\* temporary buffer and closed the session it was handed when it lets the next
\* one run, whichever of its calls failed and where.
THEOREM GivenBack ==
  ASSUME PlainOpens
  PROVE  Spec => []Returned
  <1> DEFINE I == ClientInv /\ HoldsInv /\ ShmInv
  <1>1. Init => I
    BY ClientInit, ClientAssumption DEF Init, HoldsInv, ShmInv
  <1>2. I /\ [Next]_vars => I'
    BY ClientStep, HoldsStep, ShmStep
  <1>3. I => Returned
    BY DEF HoldsInv, ShmInv, Returned, ShmReturned, SessionsReturned
  <1> QED
    BY <1>1, <1>2, <1>3, PTL DEF Spec

\* The sessions are closed whatever parameters the opens have.
THEOREM SessionsGivenBack == Spec => []SessionsReturned
  <1> DEFINE I == ClientInv /\ HoldsInv
  <1>1. Init => I
    BY ClientInit, ClientAssumption DEF Init, HoldsInv
  <1>2. I /\ [Next]_vars => I'
    BY ClientStep, HoldsStep
  <1>3. I => SessionsReturned
    BY DEF HoldsInv, SessionsReturned
  <1> QED
    BY <1>1, <1>2, <1>3, PTL DEF Spec
=============================================================================
