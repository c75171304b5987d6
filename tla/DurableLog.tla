----------------------------- MODULE DurableLog -----------------------------
(***************************************************************************)
(* What the journal promises (journal.py:3-10, spec 04): a record whose    *)
(* append has returned is stored for good, whatever happens to the process *)
(* or to the machine; a record that was still being appended may be there  *)
(* afterwards or not.  Journal implements it.                              *)
(***************************************************************************)
EXTENDS FiniteSets

VARIABLES
  stored,  \* the records a reader of the log finds
  acked    \* the records whose append has returned

Init == stored = acked /\ IsFiniteSet(stored)

Store == \E r \in stored' : stored' = stored \union {r} /\ acked' = acked

Acknowledge == \E r \in stored : acked' = acked \union {r} /\ stored' = stored

\* A crash may take what nobody was told is there.
Crash == acked \subseteq stored' /\ stored' \subseteq stored /\ acked' = acked

Next == Store \/ Acknowledge \/ Crash

Spec == Init /\ [][Next]_<<stored, acked>>
=============================================================================
