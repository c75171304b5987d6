----------------------------- MODULE KillSwitch -----------------------------
(***************************************************************************)
(* What the daily kill-switch promises, as the docstrings of               *)
(* KillSwitchState, effective_killswitch and apply_daily_reset put it:     *)
(* within one FTMO day it only escalates; a new day clears it, once, back  *)
(* to ARMED; FLATTEN is never cleared.  LiveEngine's persisted day state   *)
(* implements this specification, crashes and restarts included.           *)
(***************************************************************************)
EXTENDS Integers

VARIABLES
  ks,     \* the latched state
  since   \* the FTMO day it was last reset for

States == {"armed", "reduce", "halted", "flatten"}

Rank(k) == IF k = "armed" THEN 0 ELSE IF k = "reduce" THEN 1
           ELSE IF k = "halted" THEN 2 ELSE 3

Init == ks \in States /\ since \in Nat

Escalate(k) == Rank(k) > Rank(ks) /\ ks' = k /\ since' = since

NewDay ==
  /\ since' \in Nat /\ since' > since
  /\ ks' = IF ks = "flatten" THEN "flatten" ELSE "armed"

Next == NewDay \/ \E k \in States : Escalate(k)

Spec == Init /\ [][Next]_<<ks, since>>
=============================================================================
