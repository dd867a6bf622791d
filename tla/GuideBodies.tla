---------------------------- MODULE GuideBodies ----------------------------
(***************************************************************************)
(* The bodies of guides already answered 200: guideBody(), each generated  *)
(* as its reader pulls it, a few at a time through the queue `guides`,     *)
(* beside readers that go at any moment and stop().                        *)
(*                                                                         *)
(* A guide is Chunks pieces.  A body is "answered" until its first piece   *)
(* is asked for, "queued" for a slot, "merging" while a piece is asked of  *)
(* generateGuide, "offered" at its yield, and "over".                      *)
(***************************************************************************)
EXTENDS Integers, Sequences, FiniteSets, SequencesExt

CONSTANTS
  Bodies, Slots, Chunks,
  MaxThrows    \* caches that throw in the middle of a guide

BodiesAssumption == IsFiniteSet(Bodies) /\ Slots \in Nat \ {0} /\ Chunks \in Nat

VARIABLES
  owned,    \* whether stopping cuts the connections: a server of its own
  body,     \* each body, its reader's signal, and what was reported of it
  queue,    \* the bodies that wait for a slot
  stop,     \* whether stop() has begun, and has closed the cache
  throws

vars == <<owned, body, queue, stop, throws>>

Init ==
  /\ owned \in BOOLEAN
  /\ body = [b \in Bodies |-> [st |-> "answered", sent |-> 0, gone |-> FALSE, told |-> "nothing"]]
  /\ queue = <<>> /\ stop = "no" /\ throws = 0

Is(b, st) == body[b].st = st
Moves(b, st) == body' = [body EXCEPT ![b].st = st]
Ends(b, told) == body' = [body EXCEPT ![b].st = "over", ![b].told = told]

Generated == {b \in Bodies : Is(b, "merging") \/ Is(b, "offered")}
\* The task is the response: it ends as the body does, however that ends.
Held == Generated

(* The first piece asked for: a slot, or a place in the queue for one.     *)
Pull(b) ==
  /\ Is(b, "answered") /\ ~body[b].gone
  /\ IF queue = <<>> /\ Cardinality(Held) < Slots
       THEN Moves(b, "merging") /\ UNCHANGED queue
       ELSE Moves(b, "queued") /\ queue' = Append(queue, b)
  /\ UNCHANGED <<owned, stop, throws>>

Taken ==
  /\ queue # <<>> /\ Cardinality(Held) < Slots
  /\ Moves(Head(queue), "merging") /\ queue' = Tail(queue)
  /\ UNCHANGED <<owned, stop, throws>>

Yields(b) ==
  /\ Is(b, "merging") /\ body[b].sent < Chunks
  /\ body' = [body EXCEPT ![b].st = "offered", ![b].sent = @ + 1]
  /\ UNCHANGED <<owned, queue, stop, throws>>

ReadsOn(b) ==
  /\ Is(b, "offered") /\ ~body[b].gone
  /\ Moves(b, "merging")
  /\ UNCHANGED <<owned, queue, stop, throws>>

Finishes(b) ==
  /\ Is(b, "merging") /\ body[b].sent = Chunks
  /\ Ends(b, "response")
  /\ UNCHANGED <<owned, queue, stop, throws>>

\* What went wrong is the reader's going, whatever else did.
Reported(b) == IF body[b].gone THEN "disconnected" ELSE "failed"

(* The merge throws: called off, or by a cache that does, as one closed may. *)
Throws(b) ==
  /\ Is(b, "merging")
  /\ \/ (body[b].gone \/ stop = "closed") /\ UNCHANGED throws
     \/ throws < MaxThrows /\ throws' = throws + 1
  /\ Ends(b, Reported(b))
  /\ UNCHANGED <<owned, queue, stop>>

(* The reader's connection closes: its signal, and no more until whoever   *)
(* sends the body comes to it.                                             *)
Goes(b) ==
  /\ ~Is(b, "over") /\ ~body[b].gone
  /\ body' = [body EXCEPT ![b].gone = TRUE]
  /\ UNCHANGED <<owned, queue, stop, throws>>

(* Whoever sends the body lets go of it where it stands at a yield, or     *)
(* before it began: node's stream throws its error in, which is caught, and *)
(* a fetch response returns, which reports nothing.                        *)
LetGo(b) ==
  /\ \/ Is(b, "offered") /\ body[b].gone /\ Ends(b, "disconnected")
     \/ (Is(b, "offered") \/ Is(b, "answered")) /\ Ends(b, "nothing")
  /\ UNCHANGED <<owned, queue, stop, throws>>

(* stop(): shutdown lets go of every connection a server of its own holds; *)
(* of a mounted handler they are its app's.                                *)
CutOff == [b \in Bodies |-> [body[b] EXCEPT !.gone = @ \/ (owned /\ ~Is(b, "over"))]]
Shutdown ==
  /\ stop = "no" /\ stop' = "stopping"
  /\ body' = CutOff
  /\ UNCHANGED <<owned, queue, throws>>

\* p-queue rejects what clear() drops, which throws a body out of its wait.
Rejected == [b \in Bodies |-> [body[b] EXCEPT !.st = IF b \in ToSet(queue) THEN "over" ELSE @]]
Stopped ==
  /\ stop = "stopping" /\ stop' = "closed"
  /\ body' = Rejected /\ queue' = <<>>
  /\ UNCHANGED <<owned, throws>>

Works == Taken \/ Stopped \/ (\E b \in Bodies : Yields(b) \/ ReadsOn(b) \/ Finishes(b) \/ Throws(b)
                                               \/ (body[b].gone /\ LetGo(b)))
Next == Works \/ Shutdown \/ (\E b \in Bodies : Pull(b) \/ Goes(b) \/ LetGo(b))

\* A reader that is there reads on, and one that is gone is let go of.
Spec == Init /\ [][Next]_vars /\ WF_vars(Works)

-----------------------------------------------------------------------------
\* No more guides are generated at once than there are slots, none for a reader
\* that is still there once the cache of a server of its own is closed; and what
\* is reported of each is so: a response is a whole guide, a reader that went is
\* no failure, and what ended otherwise was not read to its end.
BodiesAreTold ==
  /\ Cardinality(Generated) <= Slots
  /\ (stop = "closed" /\ owned) => \A b \in Generated : body[b].gone
  /\ \A b \in Bodies :
       /\ body[b].told = "response" => body[b].sent = Chunks
       /\ body[b].told = "failed" => ~body[b].gone
       /\ body[b].told = "disconnected" => body[b].gone

\* Nothing is left waiting for a slot or holding one.
NoneHeld == \A b \in Bodies : ~Is(b, "queued") /\ b \notin Generated
=============================================================================
