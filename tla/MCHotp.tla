------------------------------- MODULE MCHotp ---------------------------------
(***************************************************************************)
(* Hotp for TLC: three tasks, one of which registers a key that is too     *)
(* short.  The counter has two bits and wraps round before an application  *)
(* is done.                                                                *)
(***************************************************************************)
EXTENDS Hotp, TLC

CONSTANTS t1, t2, t3

MCTasks == {t1, t2, t3}
MCKeyOf == (t1 :> "k1") @@ (t2 :> "k2") @@ (t3 :> "short")
=============================================================================
