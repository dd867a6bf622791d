------------------------------ MODULE MCParses ------------------------------
(* What the parses of a site share: the slots of its local work, taken by      *)
(* three parses of two waits, one and none; and, by itself, what it remembers, *)
(* asked by a request and two parses of one key, and one of another.  Which of *)
(* the two a behaviour is of is chosen at the start.                           *)
EXTENDS LocalSlot, TLC

CONSTANTS
  p1, p2, p3, w1, w2, parse, other, request, key1, key2,
  Callers, Keys, Asks, Stored, Earlier, Nothing, Failed, None \* of what is remembered

VARIABLES
  which,
  store, refresh, group, kept, dirty, fresh, passing, asking, call, outcome, answer, turn,
  snapshot, due, unread

MCWorks == {p1, p2, p3}
MCWaits == p1 :> {w1, w2} @@ p2 :> {w1} @@ p3 :> {}

MCCallers == {parse, other, request}
MCKeys == {key1, key2}
Ask(key, elsewhere, miss, lasts) == [key |-> key, away |-> elsewhere, miss |-> miss, lasts |-> lasts]
MCAsks ==
  parse :> {Ask(key1, TRUE, TRUE, TRUE), Ask(key1, TRUE, TRUE, FALSE)}
  @@ other :> {Ask(key1, TRUE, FALSE, TRUE), Ask(key2, TRUE, FALSE, TRUE)}
  @@ request :> {Ask(key1, FALSE, TRUE, TRUE)}
MCStored == [by : {Earlier}, missed : {FALSE}, lasts : BOOLEAN]
Memory == INSTANCE SiteMemory

ASSUME MemoryAssumption == Memory!MemoryAssumption

ofMemory == <<store, refresh, group, kept, dirty, fresh, passing, asking, call, outcome, answer,
              turn, snapshot, due, unread>>
all == <<which, vars, ofMemory>>

MCInit ==
  /\ which \in {"slots", "memory"}
  /\ Init /\ Memory!Init
  /\ which = "slots" => ~refresh /\ \A k \in Keys : store[k] = Memory!NoEntry
  /\ which = "memory" => slots = 1

OfSlots(A) == which = "slots" /\ A /\ UNCHANGED <<which, ofMemory>>
OfMemory(A) == which = "memory" /\ A /\ UNCHANGED <<which, vars>>
MCNext == OfSlots(Next) \/ OfMemory(Memory!Next)

MCSpec ==
  /\ MCInit /\ [][MCNext]_all
  /\ WF_all(OfSlots(Progress)) /\ WF_all(OfMemory(Memory!Progress))

-----------------------------------------------------------------------------
\* A call is handed only an answer of its own, as SiteMemory has it.
AnswerIsItsOwn == Memory!AnswerIsItsOwn
\* What a saved turn stored is current, as SiteMemory has it.
StoredIsCurrent == Memory!StoredIsCurrent
\* No value kept for a later run is lost before its time, as SiteMemory has it.
NothingLost == Memory!NothingLost
\* Every work ends, and every slot is given back for good; and every call of
\* what a site remembers is answered, or fails.
EverythingEnds == <>[](which = "slots" => AllBack) /\ Memory!CallsEnd
=============================================================================
