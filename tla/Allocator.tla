------------------------------ MODULE Allocator ------------------------------
(***************************************************************************)
(* What TEE_Malloc and TEE_Free promise a trusted application: regions     *)
(* that lie in the heap and never overlap, and memory for a request        *)
(* whenever some gap between the regions is Slack larger than it.          *)
(***************************************************************************)
EXTENDS Integers

CONSTANTS
  Low,      \* the first byte of the heap
  High,     \* the first byte behind it
  Slack,    \* what headers, rounding and unsplit remainders may waste
  Calls     \* the calls of TEE_Malloc: [len, hint]

VARIABLES
  regions,  \* the regions handed out, each [from, len]
  call,     \* the call of TEE_Malloc just made, if it was one
  answer    \* the pointer it returned, 0 for NULL

avars == <<regions, call, answer>>

NoCall == [len |-> 0, hint |-> "none"]

EndOf(r) == r.from + r.len

Disjoint(r, q) == EndOf(r) <= q.from \/ EndOf(q) <= r.from

\* A part of the heap, from lo up to hi, that no region reaches into.
Gap(lo, hi) ==
  /\ Low <= lo /\ hi <= High
  /\ \A r \in regions : EndOf(r) <= lo \/ hi <= r.from

AllocatorInit ==
  /\ regions = {}
  /\ call = NoCall
  /\ answer = 0

Take(c) ==
  \E p \in Low..High :
    LET r == [from |-> p, len |-> c.len] IN
    /\ c.len > 0 /\ c.hint # "invalid"
    /\ EndOf(r) <= High
    /\ \A q \in regions : Disjoint(r, q)
    /\ regions' = regions \cup {r}
    /\ call' = c
    /\ answer' = p

Refuse(c) ==
  /\ \/ c.hint = "invalid"
     \/ c.len = 0
     \/ \A lo \in Low..High : ~Gap(lo, lo + c.len + Slack)
  /\ call' = c
  /\ answer' = 0
  /\ UNCHANGED regions

Give(r) ==
  /\ regions' = regions \ {r}
  /\ call' = NoCall
  /\ answer' = 0

AllocatorNext ==
  \/ \E c \in Calls : Take(c) \/ Refuse(c)
  \/ \E r \in regions : Give(r)

AllocatorSpec == AllocatorInit /\ [][AllocatorNext]_avars
=============================================================================
