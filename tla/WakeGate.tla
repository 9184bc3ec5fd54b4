------------------------------- MODULE WakeGate -------------------------------
(***************************************************************************)
(* What second-stage wake verification promises the voice satellite,       *)
(* whatever messages, timers and threads do it (abstract specification of  *)
(* WakeVerifier): a detected wake is let through at once, held for a       *)
(* verdict, or dropped; at most one wake is held; a held wake is settled   *)
(* once, and a settled wake is never settled again.                        *)
(***************************************************************************)
EXTENDS Naturals

CONSTANT Wakes      \* the detections of the local wake-word models

VARIABLE outcome    \* what has become of each of them

Outcomes == {"unheard", "held", "woken", "rejected", "dropped"}

Settled == {"woken", "rejected", "dropped"}

TypeOK == outcome \in [Wakes -> Outcomes]

Init == outcome = [w \in Wakes |-> "unheard"]

NoneHeld == \A w \in Wakes : outcome[w] # "held"

\* Verification is off, only observes, or is skipped; or a wake is held already.
Pass(w) ==
  /\ outcome[w] = "unheard"
  /\ \E o \in {"woken", "dropped"} : outcome' = [outcome EXCEPT ![w] = o]

Hold(w) ==
  /\ outcome[w] = "unheard"
  /\ NoneHeld
  /\ outcome' = [outcome EXCEPT ![w] = "held"]

Settle(w) ==
  /\ outcome[w] = "held"
  /\ \E o \in Settled : outcome' = [outcome EXCEPT ![w] = o]

Next == \E w \in Wakes : Pass(w) \/ Hold(w) \/ Settle(w)

Spec == Init /\ [][Next]_outcome

=============================================================================
