------------------------------ MODULE SlotPool ------------------------------
(***************************************************************************)
(* What LocalSlot promises the run: pieces of work share a number of       *)
(* slots; each holds one at most, none while it waits on the network and   *)
(* none once it has finished.                                              *)
(***************************************************************************)
EXTENDS Naturals, FiniteSets

CONSTANTS Works, MaxSlots

VARIABLES
  holders,   \* works with a slot
  waiting,   \* works away on the network
  finished,
  slots

Init == holders = {} /\ waiting = {} /\ finished = {} /\ slots \in 1..MaxSlots

Acquire(w) ==
  /\ w \notin holders \cup waiting \cup finished /\ Cardinality(holders) < slots
  /\ holders' = holders \cup {w} /\ UNCHANGED <<waiting, finished, slots>>

GoAway(w) ==
  /\ w \notin waiting /\ waiting' = waiting \cup {w}
  /\ holders' = holders \ {w} /\ UNCHANGED <<finished, slots>>

ComeBack(w) ==
  /\ w \in waiting /\ waiting' = waiting \ {w} /\ UNCHANGED <<holders, finished, slots>>

Finish(w) ==
  /\ w \notin finished /\ finished' = finished \cup {w}
  /\ holders' = holders \ {w} /\ UNCHANGED <<waiting, slots>>

Next == \E w \in Works : Acquire(w) \/ GoAway(w) \/ ComeBack(w) \/ Finish(w)

Spec == Init /\ [][Next]_<<holders, waiting, finished, slots>>
=============================================================================
