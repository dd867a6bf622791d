--------------------------- MODULE StreamPipeline ---------------------------
(***************************************************************************)
(* One pass of a streamed site: SiteRun.#streamPipeline, the local work    *)
(* queue its channel-days are written through, the chain that keeps two    *)
(* writes of one entry apart (#persist) and the write itself               *)
(* (#writeEntry).                                                          *)
(*                                                                         *)
(* A channel-day is what the code calls `${xmltvId}|${day}`.  What an      *)
(* emission says of it is a token: the number of the emission, or nothing. *)
(* Token 0 is what an earlier run left in the cache.                       *)
(***************************************************************************)
EXTENDS Integers, FiniteSets

CONSTANTS
  Pairs,            \* the channel-days the request is for
  Others,           \* channel-days nobody asked for, which a document may name
  MaxSlots,         \* bound: the most slots of local work a run is given
  MaxEmissions,     \* bound: emissions of one pass
  StoreFails,       \* whether the store may refuse a read or a write
  None              \* no channel-day

Emissions == 1..MaxEmissions
\* A write is named by the emission it is for, or by the gap it fills.
Writes == Emissions \cup Pairs
Tokens == 0..MaxEmissions
NoEntry == {-1}

ASSUME StreamAssumption ==
  /\ MaxSlots \in Nat \ {0}
  /\ MaxEmissions \in Nat
  /\ StoreFails \in BOOLEAN
  /\ IsFiniteSet(Pairs)
  /\ Pairs \cap Emissions = {}
  /\ Pairs \cap Others = {}
  /\ None \notin Pairs \cup Others

VARIABLES
  stream,  \* where the pass is
  failure, \* how the document ended: "none", "unchanged" (a 304) or "error"
  n,       \* emissions so far
  owed,    \* pairs the pass has not mentioned yet
  keeping, \* pairs it said are unchanged, kept once it ends
  written, \* #written: pairs this run has begun to write
  write,   \* what became of each emission, and of each gap
  cache,   \* the entry of each pair
  held,    \* pairs the sweep found an entry for (pair.cached)
  said,    \* what was counted, by pair
  empty,   \* the `empty` counter
  aborted, \* the run's signal
  busy,    \* local work slots other sites hold
  slots    \* the run's localConcurrency

pass  == <<stream, failure, n, owed, keeping, held, slots>>
store == <<written, cache, said, empty>>
vars  == <<stream, failure, n, owed, keeping, held, written, write, cache,
           said, empty, aborted, busy, slots>>

-----------------------------------------------------------------------------
Active  == {"reading", "appending", "writing"}  \* inside #writeEntry
Started == Active \cup {"chained"}              \* holding a local work slot
Open    == Started \cup {"waiting"}
Statuses == Open \cup {"none", "ignored", "kept", "landed", "lost"}

Record == [st : Statuses, id : Pairs \cup Others \cup {None},
           progs : SUBSET Tokens, before : SUBSET Tokens]

Unused == [st |-> "none", id |-> None, progs |-> {}, before |-> {}]
Entry(st, id, progs) == [st |-> st, id |-> id, progs |-> progs, before |-> {}]

InState(S)   == {w \in Writes : write[w].st \in S}
OfPair(p, S) == {w \in InState(S) : write[w].id = p}

\* p-queue counts what it runs, and what a cancel took off its books no more.
Running == IF aborted THEN 0 ELSE Cardinality(InState(Started))
SlotFree == Running + busy < slots

\* p-queue starts a waiting task in the very call that frees or finds a slot,
\* so nothing of the pass runs while a slot is free and a write is waiting.
Pumped == InState({"waiting"}) = {} \/ ~SlotFree

\* localWork.onSizeLessThan(localWork.concurrency): waiting tasks only.
Backpressure == Cardinality(InState({"waiting"})) < slots

Count(field, S) ==
  [p \in Pairs |-> IF p \in S THEN [said[p] EXCEPT ![field] = @ + 1] ELSE said[p]]

-----------------------------------------------------------------------------
Init ==
  /\ stream = "queued" /\ failure = "none" /\ n = 0
  /\ owed = Pairs /\ keeping = {} /\ written = {}
  /\ write = [w \in Writes |-> Unused]
  /\ held \in SUBSET Pairs
  /\ cache = [p \in Pairs |-> IF p \in held THEN {0} ELSE NoEntry]
  /\ said = [p \in Pairs |-> [fetched |-> 0, failed |-> 0, unchanged |-> 0]]
  /\ empty = 0 /\ aborted = FALSE /\ busy = 0 /\ slots \in 1..MaxSlots

(* The pipeline's turn: one the cancel came before does nothing.           *)
Begin ==
  /\ stream = "queued"
  /\ stream' = IF aborted THEN "skipped" ELSE "reading"
  /\ UNCHANGED <<failure, n, owed, keeping, held, slots, write, store, aborted, busy>>

(* The loop's condition to take one more emission.                         *)
Hears ==
  /\ stream = "reading" /\ ~aborted /\ n < MaxEmissions
  /\ Pumped /\ Backpressure
  /\ n' = n + 1
  /\ UNCHANGED <<stream, failure, held, slots, store, aborted, busy>>

Programmes(k) == {{}, {k}}

(* An emission of a pair still owed: its write joins the queue.            *)
EmitFirst(id) ==
  /\ Hears /\ id \in owed
  /\ \E progs \in Programmes(n + 1) :
       write' = [write EXCEPT ![n + 1] = Entry("waiting", id, progs)]
  /\ owed' = owed \ {id}
  /\ UNCHANGED keeping

(* The pass says what is cached of an owed pair still stands.              *)
EmitUnchanged(id) ==
  /\ Hears /\ id \in owed
  /\ write' = [write EXCEPT ![n + 1] = Entry("kept", id, {})]
  /\ owed' = owed \ {id}
  /\ keeping' = keeping \cup {id}

(* Said again, of a pair this run has begun to write: added to it.         *)
EmitAgain(id) ==
  /\ Hears /\ id \in written \ owed
  /\ \E progs \in Programmes(n + 1) :
       write' = [write EXCEPT ![n + 1] = Entry("waiting", id, progs)]
  /\ UNCHANGED <<owed, keeping>>

(* Anything else is counted as ignored: "unchanged" of a pair not owed, or *)
(* programmes of one that is neither owed nor written.                     *)
EmitIgnored(id) ==
  /\ Hears /\ id \notin owed
  /\ \E progs \in Programmes(n + 1) :
       /\ progs = {} \/ id \notin written
       /\ write' = [write EXCEPT ![n + 1] = Entry("ignored", id, progs)]
  /\ UNCHANGED <<owed, keeping>>

(* The document ends: cleanly, unchanged (a 304), or in an error, which is *)
(* what signal.throwIfAborted makes of the emission after a cancel.        *)
EndOfDocument(how) ==
  /\ stream = "reading" /\ Pumped /\ Backpressure
  /\ stream' = "draining"
  /\ failure' = how
  /\ UNCHANGED <<n, owed, keeping, held, slots, write, store, aborted, busy>>

-----------------------------------------------------------------------------
(* #persist and #writeEntry.                                               *)

Unchained(w) == {}                                                  \* mutant
\* The writes of the same entry this one is chained behind: those that
\* started before it and have not ended.  A gap's write comes after them all.
Prior(w) ==
  {v \in Emissions : /\ write[v].id = write[w].id
                     /\ write[v].st \in Started
                     /\ w \in Emissions => v < w}

\* The head of #writeEntry: the first write of a pair replaces, and claims the
\* pair before it waits for the store; any other reads back first.
EnterWrite(w) ==
  /\ write' = [write EXCEPT ![w].st =
                 IF write[w].id \in written THEN "reading" ELSE "writing"]
  /\ written' = written \cup {write[w].id}

(* The queue starts the write that has waited longest, on a free slot.     *)
StartWrite(w) ==
  /\ write[w].st = "waiting" /\ ~aborted /\ SlotFree
  /\ w \in Emissions => \A v \in InState({"waiting"}) \cap Emissions : w <= v
  /\ IF Prior(w) = {}
       THEN EnterWrite(w)
       ELSE write' = [write EXCEPT ![w].st = "chained"] /\ UNCHANGED written
  /\ UNCHANGED <<pass, cache, said, empty, aborted, busy>>

(* The write before it in the chain has settled.                           *)
ChainedTurn(w) ==
  /\ write[w].st = "chained" /\ Prior(w) = {}
  /\ EnterWrite(w)
  /\ UNCHANGED <<pass, cache, said, empty, aborted, busy>>

(* cache.read, of an entry that is there or is not.                        *)
ReadBack(w) ==
  /\ write[w].st = "reading"
  /\ write' = [write EXCEPT ![w].st = "appending",
                 ![w].before = IF cache[write[w].id] = NoEntry THEN {} ELSE cache[write[w].id]]
  /\ UNCHANGED <<pass, store, aborted, busy>>

(* cache.write lands: the run's first write of a pair, counted.            *)
FirstLands(w) ==
  /\ write[w].st = "writing"
  /\ write' = [write EXCEPT ![w].st = "landed"]
  /\ cache' = [cache EXCEPT ![write[w].id] = write[w].progs]
  /\ said' = Count("fetched", {write[w].id})
  /\ empty' = IF write[w].progs = {} THEN empty + 1 ELSE empty
  /\ UNCHANGED <<pass, written, aborted, busy>>

AppendCountsDown(w) ==                                              \* mutant
  LET all == write[w].before \cup write[w].progs IN
  /\ write[w].st = "appending"
  /\ write' = [write EXCEPT ![w].st = "landed"]
  /\ cache' = [cache EXCEPT ![write[w].id] = all]
  /\ empty' = IF write[w].before = {} THEN empty - 1 ELSE empty
  /\ UNCHANGED <<pass, written, said, aborted, busy>>
(* ... or one added to what was read back, which is no longer empty.       *)
AppendLands(w) ==
  LET all == write[w].before \cup write[w].progs IN
  /\ write[w].st = "appending"
  /\ write' = [write EXCEPT ![w].st = "landed"]
  /\ cache' = [cache EXCEPT ![write[w].id] = all]
  /\ empty' = IF write[w].before = {} /\ all # {} THEN empty - 1 ELSE empty
  /\ UNCHANGED <<pass, written, said, aborted, busy>>

(* The store refuses a read or a write.  Counted, unless the cancel let go *)
(* of the task first and counted it then.                                  *)
WriteFails(w) ==
  /\ StoreFails /\ write[w].st \in Active
  /\ write' = [write EXCEPT ![w].st = "lost"]
  /\ said' = IF aborted THEN said ELSE Count("failed", {write[w].id})
  /\ UNCHANGED <<pass, written, cache, empty, aborted, busy>>

(* The run's signal: p-queue drops what waits and rejects the promise of   *)
(* what runs, which goes on off its books.  Each is counted as failed.     *)
Abort ==
  /\ ~aborted /\ aborted' = TRUE
  /\ said' = [p \in Pairs |->
                [said[p] EXCEPT !.failed = @ + Cardinality(OfPair(p, Open))]]
  /\ write' = [w \in Writes |->
                 IF write[w].st = "waiting" THEN [write[w] EXCEPT !.st = "lost"]
                 ELSE write[w]]
  /\ UNCHANGED <<pass, written, cache, empty, busy>>

-----------------------------------------------------------------------------
(* Promise.all(writes): what p-queue still answers for has settled.        *)
Settled == aborted \/ InState(Open) = {}

Keep(counts, S) ==
  [p \in Pairs |-> IF p \notin S THEN counts[p]
                   ELSE IF p \in held THEN [counts[p] EXCEPT !.unchanged = @ + 1]
                   ELSE [counts[p] EXCEPT !.failed = @ + 1]]

(* A whole document unchanged: everything not emitted keeps what it has.   *)
KeepAll ==
  /\ stream = "draining" /\ failure = "unchanged" /\ Settled
  /\ stream' = "done"
  /\ said' = Keep(said, keeping \cup owed)
  /\ UNCHANGED <<failure, n, owed, keeping, held, slots, write, written, cache, empty, aborted, busy>>

(* One cut off: what it never reached is short, not empty.                 *)
FailRest ==
  /\ stream = "draining" /\ failure = "error" /\ Settled
  /\ stream' = "done"
  /\ said' = Keep(Count("failed", owed), keeping)
  /\ UNCHANGED <<failure, n, owed, keeping, held, slots, write, written, cache, empty, aborted, busy>>

(* A clean end: what it never mentioned has nothing on, and is cached so.  *)
(* After a cancel each of those writes is rejected as it is queued.        *)
FillGaps ==
  /\ stream = "draining" /\ failure = "none" /\ Settled
  /\ stream' = "filling"
  /\ said' = Keep(IF aborted THEN Count("failed", owed) ELSE said, keeping)
  /\ write' = [w \in Writes |->
                 IF w \in owed THEN Entry(IF aborted THEN "lost" ELSE "waiting", w, {})
                 ELSE write[w]]
  /\ UNCHANGED <<failure, n, owed, keeping, held, slots, written, cache, empty, aborted, busy>>

(* The gaps are written: the pipeline returns, and site:done is said.      *)
Finish ==
  /\ stream = "filling" /\ Settled
  /\ stream' = "done"
  /\ UNCHANGED <<failure, n, owed, keeping, held, slots, write, store, aborted, busy>>

-----------------------------------------------------------------------------
(* Other sites' checks, parses and writes share the slots.                 *)
OthersTake ==
  /\ ~aborted /\ SlotFree /\ busy' = busy + 1
  /\ UNCHANGED <<pass, store, write, aborted>>
OthersRelease ==
  /\ busy > 0 /\ busy' = busy - 1
  /\ UNCHANGED <<pass, store, write, aborted>>

Hearing ==
  \E id \in Pairs \cup Others :
    EmitFirst(id) \/ EmitUnchanged(id) \/ EmitAgain(id) \/ EmitIgnored(id)
Ending == \E how \in {"none", "unchanged", "error"} : EndOfDocument(how)
Settling == KeepAll \/ FailRest \/ FillGaps \/ Finish
Storing(w) == ChainedTurn(w) \/ ReadBack(w) \/ FirstLands(w) \/ AppendLands(w) \/ WriteFails(w)

Next ==
  \/ Begin \/ Hearing \/ Ending \/ Settling \/ Abort
  \/ \E w \in Writes : StartWrite(w) \/ Storing(w)
  \/ OthersTake \/ OthersRelease

Spec == Init /\ [][Next]_vars

\* A document ends or fails, a store answers, and a site lets go of its slots.
\* The queue is first in, first out, so other sites cannot pass a write for ever.
Fairness ==
  /\ WF_vars(Begin) /\ WF_vars(Ending) /\ WF_vars(Settling) /\ WF_vars(OthersRelease)
  /\ SF_vars(\E w \in Writes : StartWrite(w)) /\ WF_vars(\E w \in Writes : Storing(w))

FairSpec == Spec /\ Fairness

-----------------------------------------------------------------------------
Outcomes(p) == said[p].fetched + said[p].failed + said[p].unchanged
Over == stream \in {"done", "skipped"}

\* Every variable keeps its type: the states a pass, a write and the counters
\* of #streamPipeline can be in.
TypeOK ==
  /\ stream \in {"queued", "reading", "draining", "filling", "done", "skipped"}
  /\ failure \in {"none", "unchanged", "error"}
  /\ n \in 0..MaxEmissions
  /\ owed \in SUBSET Pairs /\ keeping \in SUBSET Pairs
  /\ written \in SUBSET Pairs /\ held \in SUBSET Pairs
  /\ write \in [Writes -> Record]
  /\ \A w \in InState(Open \cup {"landed", "lost"}) : write[w].id \in Pairs
  /\ cache \in [Pairs -> (SUBSET Tokens) \cup {NoEntry}]
  /\ said \in [Pairs -> [fetched : Nat, failed : Nat, unchanged : Nat]]
  /\ empty \in Int /\ aborted \in BOOLEAN /\ slots \in 1..MaxSlots /\ busy \in 0..slots

\* No lost update: what a write has put in an entry stays there, whatever other
\* emissions of the same channel-day are written before or after it.  This is
\* what the #writing chain is for.
NoLostUpdate ==
  \A w \in InState({"landed"}) : write[w].progs \subseteq cache[write[w].id]

\* Nothing on is never cached for a document that was cut off or unchanged: an
\* empty entry was emitted as empty, or the pass ended cleanly.
EmptyOnlyWhenSaid ==
  \A p \in Pairs :
    cache[p] = {} => \/ \E k \in Emissions : write[k].id = p /\ write[k].st = "landed"
                     \/ failure = "none" /\ stream \in {"filling", "done"}

\* An emission's programmes are dropped as `ignored` only for a channel-day the
\* pass itself had said was unchanged: any other is added to the entry.
SaidIsStored ==
  \A k \in Emissions :
    write[k].st = "ignored" /\ write[k].progs # {} /\ write[k].id \in Pairs
      => \E j \in 1..(k - 1) : write[j].st = "kept" /\ write[j].id = write[k].id

\* What is counted is what is stored.  A pass that began accounts for every
\* channel-day it was for before it is over, cancelled or not; and for each
\* exactly once, with every write of it landed before the pipeline returns,
\* unless the store refused one or the run was cancelled.  And `unchanged` is
\* where an entry of an earlier run stands exactly as it was left, and `empty`,
\* the store having refused none, where the entry has nothing on after all that
\* was added to it; and none has nothing on but where the source said so.
CountsAreTrue ==
  /\ stream = "done" =>
       \A p \in Pairs :
         /\ Outcomes(p) > 0
         /\ ~aborted /\ OfPair(p, {"lost"}) = {} => Outcomes(p) = 1 /\ OfPair(p, Open) = {}
  /\ \A p \in Pairs : said[p].unchanged > 0 => cache[p] = {0}
  /\ InState({"lost"}) = {} =>
       empty = Cardinality({p \in Pairs : OfPair(p, {"landed"}) # {} /\ cache[p] = {}})
  /\ EmptyOnlyWhenSaid

\* Every pass is over in the end, cancelled or not, and every write it queued
\* ends: a failed one never leaves those chained behind it waiting.
AllOver == Over /\ InState(Open) = {}
PassEnds == <>[]AllOver
=============================================================================
