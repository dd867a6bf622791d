----------------------------- MODULE LocalSlot ------------------------------
(***************************************************************************)
(* LocalSlot: a local work slot that a parse lets go of while it waits on  *)
(* the network, over the p-queue the whole run shares.                     *)
(*                                                                         *)
(* A work is one `hold`: it settles for a slot, parses, begins waits       *)
(* through `away`, and writes.  What JavaScript runs between two awaits is *)
(* one action; a promise settling and the code that resumes on it are two. *)
(***************************************************************************)
EXTENDS Integers, Sequences, FiniteSets, SequencesExt

CONSTANTS
  Works,    \* the parses that share the queue
  Waits,    \* the waits each of them may begin
  MaxSlots, \* bound: the most slots the queue has
  Abandons  \* whether a parse may write without having awaited every wait

ASSUME SlotAssumption ==
  /\ MaxSlots \in Nat \ {0} /\ Abandons \in BOOLEAN
  /\ IsFiniteSet(Works) /\ DOMAIN Waits = Works
  /\ \A w \in Works : IsFiniteSet(Waits[w]) /\ "hold" \notin Waits[w]

VARIABLES
  body,     \* where the work itself is
  caller,   \* where each call of #settle is: the hold's, and each wait's
  away,     \* #away
  release,  \* whether #release is set
  taking,   \* #taking: "none", "pending", or settled and not yet cleared
  done,     \* #done
  queue,    \* p-queue's waiting tasks, in the order they will start
  running,  \* p-queue's running tasks of each work, kept by their `done`
  ending,   \* those whose `done` was called, their slot not free yet
  aborted,
  slots     \* localWork.concurrency

vars == <<body, caller, away, release, taking, done, queue, running, ending, aborted, slots>>

CallsOf(w) == {"hold"} \cup Waits[w]

Init ==
  /\ body = [w \in Works |-> "holding"]
  /\ caller = [w \in Works |-> [c \in CallsOf(w) |-> "idle"]]
  /\ away = [w \in Works |-> 0]
  /\ release = [w \in Works |-> FALSE]
  /\ taking = [w \in Works |-> "none"]
  /\ done = [w \in Works |-> FALSE]
  /\ queue = <<>>
  /\ running = [w \in Works |-> 0]
  /\ ending = [w \in Works |-> 0]
  /\ aborted = FALSE
  /\ slots \in 1..MaxSlots

-----------------------------------------------------------------------------
(* The queue: first in, first out within a priority.                       *)

\* The tasks on p-queue's books, numbered for each work.
Tasks == UNION {{w} \X (1 .. (running[w] + ending[w])) : w \in Works}
Taken == Cardinality(Tasks)
Startable == queue # <<>> /\ Taken < slots

\* A wait that ends comes back ahead of anything that has not started yet.
Priority(c) == IF c = "hold" THEN 1 ELSE 2
Enqueued(task) ==
  LET ahead == Cardinality({k \in DOMAIN queue : queue[k].priority >= task.priority})
  IN  InsertAt(queue, ahead + 1, task)

NotAwayAtAll(w) == done[w]                                          \* mutant
\* The slot arrived for work that has gone away again, or has finished.
Unwanted(w) == away[w] > 0 \/ done[w]

(* p-queue starts a task in the call that adds it or frees a slot, so this *)
(* goes before anything else can: see Pumped.                              *)
StartTask ==
  /\ Startable
  /\ LET w == Head(queue).work IN
       /\ taking' = [taking EXCEPT ![w] = "settled"]
       /\ IF Unwanted(w)
            THEN /\ ending' = [ending EXCEPT ![w] = @ + 1]
                 /\ UNCHANGED <<release, running>>
            ELSE /\ release' = [release EXCEPT ![w] = TRUE]
                 /\ running' = [running EXCEPT ![w] = @ + 1]
                 /\ UNCHANGED ending
  /\ queue' = Tail(queue)
  /\ UNCHANGED <<body, caller, away, done, aborted, slots>>

(* A task's promise resolves and its slot is another's.                    *)
SlotFreed(w) ==
  /\ ~Startable /\ ending[w] > 0
  /\ ending' = [ending EXCEPT ![w] = @ - 1]
  /\ UNCHANGED <<body, caller, away, release, taking, done, queue, running, aborted, slots>>

-----------------------------------------------------------------------------
KeepsRelease(w) == UNCHANGED <<release, running, ending>>           \* mutant
(* #letGo; p-queue keeps no slot for a task the cancel took off its books. *)
LetGo(w) ==
  /\ release' = [release EXCEPT ![w] = FALSE]
  /\ IF release[w] /\ ~aborted
       THEN /\ running' = [running EXCEPT ![w] = @ - 1]
            /\ ending' = [ending EXCEPT ![w] = @ + 1]
       ELSE UNCHANGED <<running, ending>>

\* A request for a slot is already out, to be waited for rather than doubled.
Shares(w) == taking[w] # "none"

NeverSettles(w, c, count) ==                                        \* mutant
  caller' = [caller EXCEPT ![w][c] = "returned"] /\ UNCHANGED <<taking, queue>>
(* One turn of #settle's loop, for a caller that finds `count` waits out.  *)
SettleTurn(w, c, count) ==
  IF count = 0 /\ ~release[w] /\ ~done[w]
    THEN /\ caller' = [caller EXCEPT ![w][c] = "waiting"]
         /\ IF Shares(w) THEN UNCHANGED <<taking, queue>>
            ELSE IF aborted THEN taking' = [taking EXCEPT ![w] = "rejected"] /\ UNCHANGED queue
            ELSE /\ taking' = [taking EXCEPT ![w] = "pending"]
                 /\ queue' = Enqueued([work |-> w, priority |-> Priority(c)])
    ELSE caller' = [caller EXCEPT ![w][c] = "returned"] /\ UNCHANGED <<taking, queue>>

(* .finally clears #taking, and whoever awaited it goes on.                *)
TakingCleared(w) ==
  /\ ~Startable /\ taking[w] \in {"settled", "rejected"}
  /\ taking' = [taking EXCEPT ![w] = "none"]
  /\ caller' = [caller EXCEPT ![w] = [c \in CallsOf(w) |->
       IF caller[w][c] # "waiting" THEN caller[w][c]
       ELSE IF taking[w] = "settled" THEN "resumed" ELSE "failed"]]
  /\ UNCHANGED <<body, away, release, done, queue, running, ending, aborted, slots>>

SettleAgain(w, c) ==
  /\ ~Startable /\ caller[w][c] = "resumed"
  /\ SettleTurn(w, c, away[w])
  /\ UNCHANGED <<body, away, release, done, running, ending, aborted, slots>>

-----------------------------------------------------------------------------
(* hold: first a slot, then the work.                                      *)
Hold(w) ==
  /\ ~Startable /\ caller[w]["hold"] = "idle"
  /\ SettleTurn(w, "hold", away[w])
  /\ UNCHANGED <<body, away, release, done, running, ending, aborted, slots>>

Begin(w) ==
  /\ ~Startable /\ body[w] = "holding" /\ caller[w]["hold"] \in {"returned", "failed"}
  /\ body' = [body EXCEPT ![w] =
                IF caller[w]["hold"] = "returned" THEN "parsing" ELSE "failed"]
  /\ UNCHANGED <<caller, away, release, taking, done, queue, running, ending, aborted, slots>>

(* away: the first wait to begin lets go of the slot.  Code a parse did    *)
(* not wait for goes on beginning waits after the parse has ended.         *)
BeginWait(w, i) ==
  /\ ~Startable /\ caller[w][i] = "idle"
  /\ body[w] \in {"parsing", "over"} \/ (Abandons /\ body[w] = "writing")
  /\ caller' = [caller EXCEPT ![w][i] = "out"]
  /\ away' = [away EXCEPT ![w] = @ + 1]
  /\ IF away[w] = 0 THEN LetGo(w) ELSE UNCHANGED <<release, running, ending>>
  /\ UNCHANGED <<body, taking, done, queue, aborted, slots>>

(* ... and the last to end takes it back, before its caller goes on.       *)
WaitEnds(w, i) ==
  /\ ~Startable /\ caller[w][i] = "out"
  /\ away' = [away EXCEPT ![w] = @ - 1]
  /\ IF away[w] = 1 THEN SettleTurn(w, i, 0)
     ELSE caller' = [caller EXCEPT ![w][i] = "returned"] /\ UNCHANGED <<taking, queue>>
  /\ UNCHANGED <<body, release, done, running, ending, aborted, slots>>

Outstanding(w) == {i \in Waits[w] : caller[w][i] \in {"out", "waiting", "resumed"}}

(* The parse returns, having awaited its waits, and the write begins.      *)
Write(w) ==
  /\ ~Startable /\ body[w] = "parsing" /\ ~aborted
  /\ Abandons \/ Outstanding(w) = {}
  /\ \A i \in Waits[w] : caller[w][i] # "failed"
  /\ body' = [body EXCEPT ![w] = "writing"]
  /\ UNCHANGED <<caller, away, release, taking, done, queue, running, ending, aborted, slots>>

(* The write ends, or the parse throws, a wait of its still out perhaps.   *)
End(w) ==
  /\ ~Startable /\ body[w] \in {"parsing", "writing"}
  /\ body' = [body EXCEPT ![w] = "over"]
  /\ done' = [done EXCEPT ![w] = TRUE]
  /\ LetGo(w)
  /\ UNCHANGED <<caller, away, taking, queue, aborted, slots>>

(* The run's signal: waiting tasks are dropped, running ones let go of.    *)
Abort ==
  /\ ~aborted /\ aborted' = TRUE
  /\ queue' = <<>>
  /\ taking' = [w \in Works |-> IF taking[w] = "pending" THEN "rejected" ELSE taking[w]]
  /\ running' = [w \in Works |-> 0] /\ ending' = [w \in Works |-> 0]
  /\ UNCHANGED <<body, caller, away, release, done, slots>>

Next ==
  \/ StartTask \/ Abort
  \/ \E w \in Works :
       \/ SlotFreed(w) \/ TakingCleared(w) \/ Hold(w) \/ Begin(w) \/ Write(w) \/ End(w)
       \/ \E c \in CallsOf(w) : SettleAgain(w, c)
       \/ \E i \in Waits[w] : BeginWait(w, i) \/ WaitEnds(w, i)

Spec == Init /\ [][Next]_vars

\* Promises that have settled are resumed on, the network answers or times out,
\* and a parse ends.  No work comes back to where it was, so it is enough that
\* what can happen does, a wait being begun and a cancel apart.
Progress ==
  \/ StartTask
  \/ \E w \in Works :
       \/ SlotFreed(w) \/ TakingCleared(w) \/ Hold(w) \/ Begin(w) \/ End(w)
       \/ \E c \in CallsOf(w) : SettleAgain(w, c)
       \/ \E i \in Waits[w] : WaitEnds(w, i)

FairSpec == Spec /\ WF_vars(Progress)

-----------------------------------------------------------------------------
\* Every variable keeps its type; at most one task of a work is on the books.
TypeOK ==
  /\ body \in [Works -> {"holding", "parsing", "writing", "over", "failed"}]
  /\ DOMAIN caller = Works /\ away \in [Works -> Nat]
  /\ \A w \in Works : caller[w] \in [CallsOf(w) ->
       {"idle", "out", "waiting", "resumed", "returned", "failed"}]
  /\ release \in [Works -> BOOLEAN] /\ done \in [Works -> BOOLEAN]
  /\ taking \in [Works -> {"none", "pending", "settled", "rejected"}]
  /\ queue \in Seq([work : Works, priority : 1..2])
  /\ running \in [Works -> 0..1] /\ ending \in [Works -> Nat]
  /\ aborted \in BOOLEAN /\ slots \in 1..MaxSlots

\* A slot is one a work's #release would end, and a work with its waits behind it
\* has one: two waits that end together never take two, of which one could not be
\* given back, and a parse that has none left writes on a slot.
SlotsFit ==
  ~aborted =>
    \A w \in Works :
      /\ running[w] = (IF release[w] THEN 1 ELSE 0)
      /\ body[w] = "writing" /\ Outstanding(w) = {} => release[w]

\* LocalSlot keeps the promise of the pool: work that waits on the network or
\* has finished holds no slot, in whatever order its waits begin and end around
\* the slot that arrives for it, and no more is held than there is.
Pool == INSTANCE SlotPool WITH
  holders  <- {w \in Works : release[w]},
  waiting  <- {w \in Works : away[w] > 0},
  finished <- {w \in Works : done[w]}
Implements == Pool!Spec

\* Every work ends, and every slot is given back for good.
AllBack == Taken = 0 /\ \A w \in Works : body[w] \in {"over", "failed"}
SlotsComeBack == <>[]AllBack
=============================================================================
