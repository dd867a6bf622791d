----------------------------- MODULE SiteThread -----------------------------
(***************************************************************************)
(* A site run in a thread: workSite on its side, hostSite on the run's,    *)
(* the port between them, and the memory both see, in which CountWriter    *)
(* counts and CountReader reads.                                           *)
(*                                                                         *)
(* The two sides run at once: a step is one access of the memory or one    *)
(* message.  The thread may die between any two of its steps, for a fault  *)
(* of this site's or of another's it runs.                                 *)
(***************************************************************************)
EXTENDS Integers, Sequences, FiniteSets

CONSTANTS
  Labels,     \* what requests are counted under
  Slots,      \* labels there is room for in the memory
  MaxCount,   \* requests of a site
  None

ThreadAssumption == IsFiniteSet(Labels) /\ Slots \in Nat /\ MaxCount \in Nat

VARIABLES
  memory,  \* shared: whether the site began, what it fetched, failed and requested
  site,    \* the thread's side: how far it is, and what it still has to do of a count
  slotted, \* where the writer put each label: in a slot, or nowhere for want of room
  call,    \* a call of the run's cache the site made
  port,    \* what the thread sent and the run has not heard
  alive,   \* the thread
  turn,    \* the run's side: what it heard of the site's turn
  going,   \* ... and of its thread's going
  heard,   \* the labels it was named
  run,     \* what the run counted and said
  counted  \* history: the requests the site made, and those it had made as it was done

thread == <<memory, site, slotted, alive, counted>>
host == <<turn, going, heard, run>>
vars == <<thread, call, port, host>>

Init ==
  /\ memory = [began |-> FALSE, fetched |-> 0, failed |-> 0, requests |-> [l \in Labels |-> 0]]
  /\ site = [st |-> "loading", steps |-> <<>>, label |-> None]
  /\ slotted = [l \in Labels |-> "new"]
  /\ call = "none" /\ port = <<>> /\ alive = TRUE
  /\ turn = [said |-> FALSE, ended |-> FALSE, hungUp |-> FALSE, answer |-> "none"]
  /\ going = [why |-> FALSE, closed |-> FALSE, waiting |-> FALSE]
  /\ heard = {}
  /\ run = [over |-> FALSE, fetched |-> 0, failed |-> 0, requests |-> [l \in Labels |-> 0],
            saidFailed |-> 0, saidDone |-> 0]
  /\ counted = [made |-> [l \in Labels |-> 0], atDone |-> [l \in Labels |-> 0]]

Message(kind) == [kind |-> kind, label |-> None]
Send(m) == port' = Append(port, m)
Goto(st) == site' = [site EXCEPT !.st = st]
\* A step of the thread, between two counts and not in the middle of one.
At(st) == alive /\ site.st = st /\ site.steps = <<>>

-----------------------------------------------------------------------------
(* workSite: the config read, the site begun, its turn run, and its word.  *)
SetBegan == memory' = [memory EXCEPT !.began = TRUE]

Begin ==
  /\ At("loading") /\ Goto("running") /\ SetBegan
  /\ UNCHANGED <<slotted, alive, counted, call, port, host>>

LoadFails ==
  /\ At("loading") /\ Goto("closing") /\ Send(Message("failed"))
  /\ UNCHANGED <<memory, slotted, alive, counted, call, host>>

Fetch ==
  /\ At("running") /\ memory.fetched = 0
  /\ memory' = [memory EXCEPT !.fetched = 1]
  /\ UNCHANGED <<site, slotted, alive, counted, call, port, host>>

(* A site that fails counts it, says why, and is done.                     *)
Fail ==
  /\ At("running") /\ Goto("failing")
  /\ memory' = [memory EXCEPT !.failed = 1]
  /\ UNCHANGED <<slotted, alive, counted, call, port, host>>

SayFailed ==
  /\ At("failing") /\ Goto("ending") /\ Send(Message("site:failed"))
  /\ UNCHANGED <<memory, slotted, alive, counted, call, host>>

End ==
  /\ At("running") /\ Goto("ending")
  /\ UNCHANGED <<memory, slotted, alive, counted, call, port, host>>

SayDone ==
  /\ At("ending") /\ Goto("finished") /\ Send(Message("site:done"))
  /\ UNCHANGED <<memory, slotted, alive, counted, call, host>>

Done ==
  /\ At("finished") /\ Goto("closing") /\ Send(Message("done"))
  /\ counted' = [counted EXCEPT !.atDone = counted.made]
  /\ UNCHANGED <<memory, slotted, alive, call, host>>

Throws ==
  /\ At("running") \/ At("ending") \/ At("finished")
  /\ Goto("closing") /\ Send(Message("failed"))
  /\ UNCHANGED <<memory, slotted, alive, counted, call, host>>

-----------------------------------------------------------------------------
(* CountWriter.add: into the label's slot, which is named once the count   *)
(* is in it, or said as it is where there is no room.                      *)
NameFirst == <<"name", "add">>                                      \* mutant
NewSlot == <<"add", "name">>

Room == Cardinality({l \in Labels : slotted[l] = "slot"}) < Slots

Request(l) ==
  /\ alive /\ site.st \notin {"loading"} /\ memory.began /\ site.steps = <<>>
  /\ counted.made[l] < MaxCount
  /\ counted' = [counted EXCEPT !.made[l] = @ + 1]
  /\ slotted' = [slotted EXCEPT ![l] = IF @ = "new" THEN IF Room THEN "slot" ELSE "none" ELSE @]
  /\ site' = [site EXCEPT !.label = l,
                          !.steps = CASE slotted[l] = "new" /\ Room -> NewSlot
                                      [] slotted[l] = "slot" -> <<"add">>
                                      [] OTHER -> <<"say">>]
  /\ UNCHANGED <<memory, alive, call, port, host>>

Count ==
  /\ alive /\ site.steps # <<>>
  /\ site' = [site EXCEPT !.steps = Tail(@)]
  /\ \/ /\ Head(site.steps) = "add"
        /\ memory' = [memory EXCEPT !.requests[site.label] = @ + 1] /\ UNCHANGED port
     \/ /\ Head(site.steps) = "name"
        /\ Send([kind |-> "slot", label |-> site.label]) /\ UNCHANGED memory
     \/ /\ Head(site.steps) = "say"
        /\ Send([kind |-> "requested", label |-> site.label]) /\ UNCHANGED memory
  /\ UNCHANGED <<slotted, alive, counted, call, host>>

-----------------------------------------------------------------------------
(* RemoteCache: a call asked through the port, and close() once none is    *)
(* left.  A site may be over with a call out, which a cancel let go of.    *)
Ask ==
  /\ At("running") /\ call = "none"
  /\ call' = "asked" /\ Send(Message("cache"))
  /\ UNCHANGED <<thread, host>>

(* The run's thread, by its local work and whether it hung up or not.      *)
Answer ==
  /\ call = "queued" /\ call' = IF turn.hungUp THEN "lost" ELSE "answered"
  /\ UNCHANGED <<thread, port, host>>

\* The port closed on the thread's side: nothing waiting will be answered.
HearsClose == turn.hungUp

Back ==
  /\ alive /\ (call = "answered" \/ (call \in {"asked", "queued", "lost"} /\ HearsClose))
  /\ call' = "back"
  /\ UNCHANGED <<thread, port, host>>

CacheCloses ==
  /\ At("closing") /\ call \in {"none", "back"}
  /\ Goto("over")
  /\ UNCHANGED <<memory, slotted, alive, counted, call, port, host>>

(* The thread goes: what it sent is heard, and then that its port closed,  *)
(* save of one that closes in a way nobody measured.                       *)
Die ==
  /\ alive /\ alive' = FALSE
  /\ Send(Message("close")) \/ UNCHANGED port
  /\ UNCHANGED <<memory, site, slotted, counted, call, host>>

-----------------------------------------------------------------------------
(* hostSite: the run's side.                                               *)
\* hangUp(): what the slots it was named hold, told the run once.
HungUp(r) == [r EXCEPT !.requests =
                [l \in Labels |-> @[l] + IF l \in heard THEN memory.requests[l] ELSE 0]]

\* ended(): the turn over, for the first of a done, a failure and a lost thread.
\* What it counted is the run's now; one that never began is said as one that
\* never ran; and one not over by its own word is said over here, and failed
\* unless it had counted that.
Tallied(r) == [r EXCEPT !.fetched = @ + memory.fetched, !.failed = @ + memory.failed]

CountsTwice(m) == 1                                                 \* mutant
NotCounted(m) == IF m.failed = 0 THEN 1 ELSE 0

Ended(how) ==
  LET r == Tallied(run)
      missing == IF turn.said THEN 0 ELSE NotCounted(memory)
  IN  CASE turn.ended -> UNCHANGED <<turn, run>>
        [] ~turn.ended /\ how # "done" /\ ~memory.began ->
             /\ turn' = [turn EXCEPT !.ended = TRUE, !.hungUp = TRUE, !.answer = "rejected"]
             /\ run' = HungUp(r)
        [] OTHER ->
             /\ turn' = [turn EXCEPT !.ended = TRUE, !.answer = "resolved"]
             /\ run' = IF how = "done" \/ turn.said THEN r
                         ELSE [r EXCEPT !.failed = @ + missing, !.saidFailed = @ + missing,
                                        !.saidDone = @ + 1]

\* A thread that went sends nothing more, and a run that hung up hears nothing.
Deaf == turn.hungUp \/ (turn.ended /\ going.why /\ going.closed)

Hear ==
  /\ port # <<>> /\ ~Deaf
  /\ port' = Tail(port)
  /\ LET m == Head(port) IN
       CASE m.kind = "site:failed" ->
              /\ run' = [run EXCEPT !.saidFailed = @ + 1]
              /\ UNCHANGED <<turn, going, heard, call>>
         [] m.kind = "site:done" ->
              /\ run' = [run EXCEPT !.saidDone = @ + 1]
              /\ turn' = [turn EXCEPT !.said = TRUE]
              /\ UNCHANGED <<going, heard, call>>
         [] m.kind = "slot" ->
              /\ heard' = heard \cup {m.label} /\ UNCHANGED <<turn, going, run, call>>
         [] m.kind = "requested" ->
              /\ run' = [run EXCEPT !.requests[m.label] = @ + 1]
              /\ UNCHANGED <<turn, going, heard, call>>
         [] m.kind = "cache" ->
              /\ call' = "queued" /\ UNCHANGED <<turn, going, heard, run>>
         [] m.kind = "done" ->
              /\ Ended("done") /\ UNCHANGED <<going, heard, call>>
         [] m.kind = "failed" ->
              /\ Ended("threw") /\ UNCHANGED <<going, heard, call>>
         [] m.kind = "close" ->
              /\ going' = [going EXCEPT !.closed = TRUE, !.waiting = ~turn.ended /\ ~going.why]
              /\ IF going.why THEN Ended("went") ELSE UNCHANGED <<turn, run>>
              /\ UNCHANGED <<heard, call>>
  /\ UNCHANGED thread

\* The other half is waited for: why it went, or that all it sent is heard.
Half == ~going.closed

(* Word that it went, which may come before what it sent.                  *)
HearWhy ==
  /\ ~alive /\ ~going.why /\ ~turn.ended
  /\ going' = [going EXCEPT !.why = TRUE, !.waiting = Half]
  /\ IF Half THEN UNCHANGED <<turn, run>> ELSE Ended("went")
  /\ UNCHANGED <<thread, call, port, heard>>

\* LOST_PORT_GRACE_MS: half of it heard, and nothing of the other.
GraceOver == going.waiting

GiveUp ==
  /\ GraceOver /\ ~turn.ended
  /\ going' = [why |-> TRUE, closed |-> TRUE, waiting |-> FALSE]
  /\ Ended("went")
  /\ UNCHANGED <<thread, call, port, heard>>

(* The run, once done with every site: a site that never ran is said so,   *)
(* and any other is hung up on.                                            *)
RunEnds ==
  /\ turn.answer # "none" /\ ~run.over
  /\ IF turn.answer = "rejected"
       THEN /\ run' = [run EXCEPT !.over = TRUE, !.failed = @ + 1, !.saidFailed = @ + 1,
                                  !.saidDone = @ + 1]
            /\ UNCHANGED turn
       ELSE /\ turn' = [turn EXCEPT !.hungUp = TRUE]
            /\ run' = [HungUp(run) EXCEPT !.over = TRUE]
  /\ UNCHANGED <<thread, call, port, going, heard>>

Turn == Begin \/ LoadFails \/ Fetch \/ Fail \/ SayFailed \/ End \/ SayDone \/ Done \/ Throws
Next ==
  \/ Turn \/ (\E l \in Labels : Request(l)) \/ Count
  \/ Ask \/ Answer \/ Back \/ CacheCloses \/ Die
  \/ Hear \/ HearWhy \/ GiveUp \/ RunEnds

Spec == Init /\ [][Next]_vars

\* Both threads go on, a message sent arrives, a call is answered, and a thread
\* that went is heard of.  Nothing is gone back to.
GoesOn ==
  \/ Begin \/ SayFailed \/ End \/ SayDone \/ Done \/ Count \/ Answer \/ Back
  \/ CacheCloses \/ Hear \/ HearWhy \/ GiveUp \/ RunEnds
FairSpec == Spec /\ WF_vars(GoesOn)

-----------------------------------------------------------------------------
\* Every variable keeps its type; a turn is answered for once it is over, and
\* hung up on only then.
TypeOK ==
  /\ memory.fetched \in 0..1 /\ memory.failed \in 0..1
  /\ \A l \in Labels : slotted[l] \in {"new", "slot", "none"} /\ memory.requests[l] <= counted.made[l]
  /\ call \in {"none", "asked", "queued", "answered", "lost", "back"}
  /\ turn.ended <=> turn.answer # "none"
  /\ turn.hungUp => turn.ended
  /\ heard \subseteq {l \in Labels : slotted[l] = "slot"}

\* However a site's turn ends -- done, failed, thrown out of, its thread gone at
\* any step -- the run hears one site:done of it, a failure once if at all, and
\* counts it failed no more than once, and whenever it said so; and what the
\* site fetched is in the run's summary.
SaidOnce ==
  /\ run.saidDone <= 1 /\ run.saidFailed <= 1 /\ run.failed <= 1
  /\ run.over => /\ run.saidDone = 1 /\ run.saidFailed <= run.failed
                 /\ run.fetched = memory.fetched

\* No request is counted twice, and of a site that said it was done none made by
\* then is missing, with room for its label or without; a label is named only
\* once its count is in memory, for the reader may read it for the last time as
\* it hears of it.
RequestsAddUp ==
  /\ \A l \in Labels : run.requests[l] <= counted.made[l]
  /\ (run.over /\ turn.said /\ ~going.why)
       => \A l \in Labels : run.requests[l] >= counted.atDone[l]
  /\ \A l \in heard : memory.requests[l] > 0

\* The run is done with every site, whatever became of its thread; and a thread
\* lets go of its site, with calls a cancel let go of still out, or hung up on:
\* what waits on them holds its slots for other sites.
BothEnded == run.over /\ (site.st = "closing" => ~alive)
BothSidesEnd == []<>BothEnded
=============================================================================
