----------------------------- MODULE SiteProofs -----------------------------
(* What holds of a site's turn, each way of having one that MCSite has: the    *)
(* document streamed to it, for every set of channel-days, number of slots and *)
(* number of emissions; the requests it makes one at a time, for every plan    *)
(* and concurrency; and the thread it may run in.                              *)
EXTENDS MCSite, FiniteSetTheorems, SequenceTheorems, TLAPS

-----------------------------------------------------------------------------
(* A document streamed.                                                        *)
(* Counting a set of pairs, or keeping one, keeps the counters' type.      *)
LEMMA CountType ==
  ASSUME TypeOK, NEW field \in {"fetched", "failed", "unchanged"}, NEW S
  PROVE  Count(field, S) \in [Pairs -> [fetched : Nat, failed : Nat, unchanged : Nat]]
BY DEF TypeOK, Count

LEMMA KeepType ==
  ASSUME NEW counts \in [Pairs -> [fetched : Nat, failed : Nat, unchanged : Nat]], NEW S
  PROVE  Keep(counts, S) \in [Pairs -> [fetched : Nat, failed : Nat, unchanged : Nat]]
BY DEF Keep

(* There are finitely many writes, so what is in a state can be counted.   *)
LEMMA WritesFinite ==
  ASSUME NEW S
  PROVE  /\ IsFiniteSet(Writes)
         /\ IsFiniteSet(InState(S)) /\ Cardinality(InState(S)) \in Nat
         /\ \A p : IsFiniteSet(OfPair(p, S)) /\ Cardinality(OfPair(p, S)) \in Nat
<1>1. IsFiniteSet(Emissions)
  BY StreamAssumption, FS_Interval DEF Emissions, StreamAssumption
<1>2. IsFiniteSet(Writes)
  BY <1>1, StreamAssumption, FS_Union DEF Writes, StreamAssumption
<1>3. InState(S) \subseteq Writes /\ \A p : OfPair(p, S) \subseteq Writes
  BY DEF InState, OfPair
<1> QED
  BY <1>2, <1>3, FS_Subset, FS_CardinalityType

LEMMA StatusNames ==
  /\ "none" \in Statuses /\ "ignored" \in Statuses /\ "kept" \in Statuses
  /\ "landed" \in Statuses /\ "lost" \in Statuses /\ "waiting" \in Statuses
  /\ "chained" \in Statuses /\ "reading" \in Statuses /\ "writing" \in Statuses
  /\ "appending" \in Statuses
BY DEF Statuses, Open, Started, Active

(* A record of each kind the actions make, and one whose state moves on.   *)
LEMMA RecordType ==
  /\ Unused \in Record
  /\ \A st \in Statuses, id \in Pairs \cup Others, progs \in SUBSET Tokens :
       Entry(st, id, progs) \in Record
  /\ \A r \in Record, st \in Statuses : [r EXCEPT !.st = st] \in Record
BY StatusNames DEF Unused, Entry, Record

LEMMA TypeInit == Init => TypeOK
<1> SUFFICES ASSUME Init PROVE TypeOK
  OBVIOUS
<1>1. write \in [Writes -> Record]
  BY RecordType DEF Init
<1>2. InState(Open \cup {"landed", "lost"}) = {}
  BY DEF Init, InState, Unused, Open, Started, Active
<1>3. cache \in [Pairs -> (SUBSET Tokens) \cup {NoEntry}]
  BY StreamAssumption DEF Init, Tokens, StreamAssumption
<1>4. said \in [Pairs -> [fetched : Nat, failed : Nat, unchanged : Nat]]
  BY DEF Init
<1>5. n \in 0..MaxEmissions /\ slots \in 1..MaxSlots /\ busy \in 0..slots
  BY StreamAssumption DEF Init, StreamAssumption
<1>6. \A w \in InState(Open \cup {"landed", "lost"}) : write[w].id \in Pairs
  BY <1>2
<1>7. /\ stream \in {"queued", "reading", "draining", "filling", "done", "skipped"}
      /\ failure \in {"none", "unchanged", "error"}
      /\ owed \in SUBSET Pairs /\ keeping \in SUBSET Pairs
      /\ written \in SUBSET Pairs /\ held \in SUBSET Pairs
      /\ empty \in Int
  BY SMT DEF Init
<1>8. aborted \in BOOLEAN
  BY Zenon DEF Init
<1> QED
  BY <1>1, <1>3, <1>4, <1>5, <1>6, <1>7, <1>8 DEF TypeOK

LEMMA TypeNext == TypeOK /\ [Next]_vars => TypeOK'
<1> SUFFICES ASSUME TypeOK, [Next]_vars PROVE TypeOK'
  OBVIOUS
<1> USE DEF pass, store
<1>1. CASE Begin
  BY <1>1 DEF TypeOK, Begin, InState
<1>2. ASSUME NEW id \in Pairs \cup Others,
             EmitFirst(id) \/ EmitUnchanged(id) \/ EmitAgain(id) \/ EmitIgnored(id)
      PROVE  TypeOK'
  <2>1. Hears
    BY <1>2 DEF EmitFirst, EmitUnchanged, EmitAgain, EmitIgnored
  <2>2. n + 1 \in Emissions /\ n' \in 0..MaxEmissions /\ Programmes(n + 1) \in SUBSET SUBSET Tokens
    BY <2>1, StreamAssumption
       DEF Hears, TypeOK, Emissions, Programmes, Tokens, StreamAssumption
  <2>3. PICK st \in {"waiting", "kept", "ignored"}, progs \in SUBSET Tokens :
          /\ write' = [write EXCEPT ![n + 1] = Entry(st, id, progs)]
          /\ st = "waiting" => id \in Pairs
    <3>1. CASE EmitFirst(id)
      BY <3>1, <2>2 DEF EmitFirst, TypeOK
    <3>2. CASE EmitUnchanged(id)
      <4>1. write' = [write EXCEPT ![n + 1] = Entry("kept", id, {})]
        BY <3>2 DEF EmitUnchanged
      <4>2. "kept" # "waiting" /\ {} \in SUBSET Tokens
        OBVIOUS
      <4> QED
        BY <4>1, <4>2
    <3>3. CASE EmitAgain(id)
      BY <3>3, <2>2 DEF EmitAgain, TypeOK
    <3>4. CASE EmitIgnored(id)
      BY <3>4, <2>2 DEF EmitIgnored
    <3> QED
      BY <1>2, <3>1, <3>2, <3>3, <3>4
  <2>4. owed' \in SUBSET Pairs /\ keeping' \in SUBSET Pairs
    BY <1>2 DEF EmitFirst, EmitUnchanged, EmitAgain, EmitIgnored, TypeOK
  <2>5. write' \in [Writes -> Record]
    BY <2>2, <2>3, RecordType, StatusNames DEF TypeOK, Writes
  <2>6. \A w \in Writes : write'[w].st \in Open \cup {"landed", "lost"} => write'[w].id \in Pairs
    BY <2>2, <2>3 DEF TypeOK, Writes, InState, Entry, Open, Started, Active
  <2> QED
    BY <2>1, <2>2, <2>4, <2>5, <2>6 DEF TypeOK, Hears, InState
<1>3. ASSUME NEW how \in {"none", "unchanged", "error"}, EndOfDocument(how)
      PROVE  TypeOK'
  BY <1>3 DEF TypeOK, EndOfDocument, InState
<1>4. CASE KeepAll
  <2>1. said' \in [Pairs -> [fetched : Nat, failed : Nat, unchanged : Nat]]
    BY <1>4, KeepType DEF KeepAll, TypeOK
  <2> QED
    BY <1>4, <2>1 DEF TypeOK, KeepAll, InState
<1>5. CASE FailRest
  <2>1. said' \in [Pairs -> [fetched : Nat, failed : Nat, unchanged : Nat]]
    BY <1>5, KeepType, CountType DEF FailRest
  <2> QED
    BY <1>5, <2>1 DEF TypeOK, FailRest, InState
<1>6. CASE FillGaps
  <2>1. said' \in [Pairs -> [fetched : Nat, failed : Nat, unchanged : Nat]]
    <3>1. (IF aborted THEN Count("failed", owed) ELSE said)
             \in [Pairs -> [fetched : Nat, failed : Nat, unchanged : Nat]]
      BY CountType DEF TypeOK
    <3> QED
      BY <1>6, <3>1, KeepType DEF FillGaps
  <2>2. write' \in [Writes -> Record]
    <3>1. ASSUME NEW w \in Writes, w \in owed
          PROVE  Entry(IF aborted THEN "lost" ELSE "waiting", w, {}) \in Record
      BY <3>1, RecordType, StatusNames DEF TypeOK
    <3> QED
      BY <1>6, <3>1 DEF FillGaps, TypeOK
  <2>3. \A w \in Writes : write'[w].st \in Open \cup {"landed", "lost"} => write'[w].id \in Pairs
    BY <1>6 DEF FillGaps, TypeOK, InState, Entry
  <2> QED
    BY <1>6, <2>1, <2>2, <2>3 DEF TypeOK, FillGaps, InState
<1>7. CASE Finish
  BY <1>7 DEF TypeOK, Finish, InState
<1>8. CASE Abort
  <2>1. said' \in [Pairs -> [fetched : Nat, failed : Nat, unchanged : Nat]]
    <3>1. ASSUME NEW p \in Pairs
          PROVE  [said[p] EXCEPT !.failed = @ + Cardinality(OfPair(p, Open))]
                   \in [fetched : Nat, failed : Nat, unchanged : Nat]
      <4>1. Cardinality(OfPair(p, Open)) \in Nat
        BY WritesFinite
      <4>2. said[p] \in [fetched : Nat, failed : Nat, unchanged : Nat]
        BY DEF TypeOK
      <4> QED
        BY <4>1, <4>2
    <3> QED
      BY <1>8, <3>1 DEF Abort
  <2>2. write' \in [Writes -> Record]
    BY <1>8, RecordType, StatusNames DEF Abort, TypeOK
  <2>3. \A w \in Writes : write'[w].st \in Open \cup {"landed", "lost"} => write'[w].id \in Pairs
    BY <1>8 DEF Abort, TypeOK, InState, Record, Open
  <2> QED
    BY <1>8, <2>1, <2>2, <2>3 DEF TypeOK, Abort, InState
<1>9. ASSUME NEW w \in Writes, StartWrite(w) \/ ChainedTurn(w)
      PROVE  TypeOK'
  <2>1. PICK st \in {"reading", "writing", "chained"} : write' = [write EXCEPT ![w].st = st]
    BY <1>9 DEF StartWrite, ChainedTurn, EnterWrite
  <2>2. write[w].st \in Open
    BY <1>9 DEF StartWrite, ChainedTurn, Open, Started
  <2>3. write' \in [Writes -> Record]
    BY <2>1, RecordType, StatusNames DEF TypeOK
  <2>4. \A v \in Writes : write'[v].st \in Open \cup {"landed", "lost"} => write'[v].id \in Pairs
    BY <2>1, <2>2 DEF TypeOK, InState, Record
  <2>5. written' \in SUBSET Pairs
    BY <1>9, <2>2 DEF StartWrite, ChainedTurn, EnterWrite, TypeOK, InState
  <2> QED
    BY <1>9, <2>3, <2>4, <2>5 DEF TypeOK, StartWrite, ChainedTurn, InState
<1>10. ASSUME NEW w \in Writes, ReadBack(w)
       PROVE  TypeOK'
  <2>1. write[w].id \in Pairs /\ write[w] \in Record
    BY <1>10 DEF ReadBack, TypeOK, InState, Open, Started, Active
  <2>2. (IF cache[write[w].id] = NoEntry THEN {} ELSE cache[write[w].id]) \in SUBSET Tokens
    BY <2>1 DEF TypeOK
  <2>3. write' \in [Writes -> Record]
    BY <1>10, <2>1, <2>2, StatusNames DEF ReadBack, TypeOK, Record
  <2>4. \A v \in Writes : write'[v].st \in Open \cup {"landed", "lost"} => write'[v].id \in Pairs
    BY <1>10, <2>1 DEF ReadBack, TypeOK, InState, Record
  <2> QED
    BY <1>10, <2>3, <2>4 DEF TypeOK, ReadBack, InState
<1>11. ASSUME NEW w \in Writes, FirstLands(w) \/ AppendLands(w)
       PROVE  TypeOK'
  <2>1. write[w].id \in Pairs /\ write[w] \in Record
    BY <1>11 DEF FirstLands, AppendLands, TypeOK, InState, Open, Started, Active
  <2>2. write' = [write EXCEPT ![w].st = "landed"]
    BY <1>11 DEF FirstLands, AppendLands
  <2>3. write' \in [Writes -> Record]
    BY <2>2, RecordType, StatusNames DEF TypeOK
  <2>4. \A v \in Writes : write'[v].st \in Open \cup {"landed", "lost"} => write'[v].id \in Pairs
    BY <2>1, <2>2 DEF TypeOK, InState, Record
  <2>5. cache' \in [Pairs -> (SUBSET Tokens) \cup {NoEntry}]
    BY <1>11, <2>1 DEF FirstLands, AppendLands, TypeOK, Record
  <2>6. said' \in [Pairs -> [fetched : Nat, failed : Nat, unchanged : Nat]]
    <3>1. said' = said \/ said' = Count("fetched", {write[w].id})
      BY <1>11 DEF FirstLands, AppendLands
    <3>2. Count("fetched", {write[w].id})
            \in [Pairs -> [fetched : Nat, failed : Nat, unchanged : Nat]]
      BY CountType
    <3> QED
      BY <3>1, <3>2 DEF TypeOK
  <2>7. empty' \in Int
    BY <1>11 DEF FirstLands, AppendLands, TypeOK
  <2> QED
    BY <1>11, <2>3, <2>4, <2>5, <2>6, <2>7 DEF TypeOK, FirstLands, AppendLands, InState
<1>12. ASSUME NEW w \in Writes, WriteFails(w)
       PROVE  TypeOK'
  <2>1. write[w].id \in Pairs /\ write[w] \in Record
    BY <1>12 DEF WriteFails, TypeOK, InState, Open, Started
  <2>2. write' \in [Writes -> Record]
    BY <1>12, RecordType, StatusNames DEF WriteFails, TypeOK
  <2>3. \A v \in Writes : write'[v].st \in Open \cup {"landed", "lost"} => write'[v].id \in Pairs
    BY <1>12, <2>1 DEF WriteFails, TypeOK, InState, Record
  <2>4. said' \in [Pairs -> [fetched : Nat, failed : Nat, unchanged : Nat]]
    BY <1>12, CountType DEF WriteFails, TypeOK
  <2> QED
    BY <1>12, <2>2, <2>3, <2>4 DEF TypeOK, WriteFails, InState
<1>13. CASE OthersTake
  <2>1. Running \in Nat
    BY WritesFinite DEF Running
  <2>2. busy' \in 0..slots
    BY <1>13, <2>1, StreamAssumption DEF OthersTake, SlotFree, TypeOK, StreamAssumption
  <2> QED
    BY <1>13, <2>2 DEF OthersTake, TypeOK, InState
<1>14. CASE OthersRelease
  <2>1. busy' \in 0..slots
    BY <1>14, StreamAssumption DEF OthersRelease, TypeOK, StreamAssumption
  <2> QED
    BY <1>14, <2>1 DEF OthersRelease, TypeOK, InState
<1>15. CASE UNCHANGED vars
  BY <1>15 DEF vars, TypeOK, InState
<1> QED
  BY <1>1, <1>2, <1>3, <1>4, <1>5, <1>6, <1>7, <1>8, <1>9, <1>10, <1>11, <1>12, <1>13, <1>14,
     <1>15 DEF Next, Hearing, Ending, Settling, Storing

\* Type correctness of a pass (TypeOK), for any channel-days, slots and
\* emissions, whether or not the store fails.
THEOREM StreamTypeCorrect == Spec => []TypeOK
<1>1. Init => TypeOK
  BY TypeInit
<1>2. TypeOK /\ [Next]_vars => TypeOK'
  BY TypeNext
<1> QED
  BY <1>1, <1>2, PTL DEF Spec

-----------------------------------------------------------------------------
(* Why no write loses what another has written (NoLostUpdate).  Which      *)
(* emissions there are, and whom a gap is written for.                     *)
Unheard == \A k \in Emissions : k > n => write[k].st = "none"
OwedUnmentioned == \A k \in Emissions : write[k].id \notin owed
GapOwed ==
  \A p \in Pairs : write[p].st # "none" =>
    /\ p \in owed /\ write[p].id = p
    /\ stream \in {"filling", "done"}

(* The queue is first in, first out, and the chain keeps its order: of the *)
(* writes of one entry, a later begins once the earlier ones have ended.   *)
Begun == Active \cup {"landed"}
Fifo ==
  \A w, v \in Emissions :
    w < v /\ write[w].st = "waiting" => write[v].st \notin Started \cup {"landed"}
Chain ==
  \A w, v \in Emissions :
    w < v /\ write[w].id = write[v].id /\ write[v].st \in Begun
      => write[w].st \notin Open

(* A write that began has claimed its pair, so only the first replaces.    *)
Claims == \A w \in Writes : write[w].st \in Begun => write[w].id \in written
FirstAlone ==
  \A w, v \in Writes :
    w # v /\ write[w].id = write[v].id /\ write[w].st = "writing"
      => write[v].st \notin Begun

(* What one that adds has read back holds all that has landed since.       *)
BeforeHolds ==
  \A w, v \in Writes :
    w # v /\ write[w].id = write[v].id /\ write[w].st = "appending" /\ write[v].st = "landed"
      => write[v].progs \subseteq write[w].before
Stands ==
  \A w \in Writes : write[w].st = "landed" => write[w].progs \subseteq cache[write[w].id]

Queueing == Unheard /\ OwedUnmentioned /\ GapOwed
Ordered == Fifo /\ Chain
Lossless == Claims /\ FirstAlone /\ BeforeHolds /\ Stands
LossInv == TypeOK /\ Queueing /\ Ordered /\ Lossless

(* What a step does to the writes, which is all that matters here.         *)
Quiet ==
  /\ UNCHANGED <<write, written, cache, n, owed>>
  /\ stream \in {"filling", "done"} => stream' \in {"filling", "done"}
Heard(id, st, progs) ==
  /\ stream = "reading" /\ stream' = stream
  /\ n + 1 \in Emissions /\ n' = n + 1
  /\ st \in {"waiting", "kept", "ignored"}
  /\ owed' = owed \ {id}
  /\ write' = [write EXCEPT ![n + 1] = Entry(st, id, progs)]
  /\ UNCHANGED <<written, cache>>
Works(w) == StartWrite(w) \/ ChainedTurn(w) \/ ReadBack(w) \/ FirstLands(w) \/ AppendLands(w)
            \/ WriteFails(w)

LEMMA StepKinds ==
  ASSUME TypeOK, [Next]_vars
  PROVE  \/ Quiet
         \/ \E id \in Pairs \cup Others, st \in Statuses, progs \in SUBSET Tokens :
              Heard(id, st, progs)
         \/ FillGaps \/ Abort
         \/ \E w \in Writes : Works(w)
<1> USE DEF pass, store
<1>1. CASE Begin \/ Ending \/ KeepAll \/ FailRest \/ Finish \/ OthersTake \/ OthersRelease
  BY <1>1 DEF Begin, Ending, EndOfDocument, KeepAll, FailRest, Finish, OthersTake,
             OthersRelease, Quiet
<1>2. CASE UNCHANGED vars
  BY <1>2 DEF vars, Quiet
<1>3. CASE Hearing
  <2>1. PICK id \in Pairs \cup Others :
          EmitFirst(id) \/ EmitUnchanged(id) \/ EmitAgain(id) \/ EmitIgnored(id)
    BY <1>3 DEF Hearing
  <2>2. Hears
    BY <2>1 DEF EmitFirst, EmitUnchanged, EmitAgain, EmitIgnored
  <2>3. n + 1 \in Emissions /\ Programmes(n + 1) \in SUBSET SUBSET Tokens
    BY <2>2, StreamAssumption
       DEF Hears, TypeOK, Emissions, Programmes, Tokens, StreamAssumption
  <2>4. owed' = owed \ {id}
    BY <2>1 DEF EmitFirst, EmitUnchanged, EmitAgain, EmitIgnored
  <2>5. \E st \in {"waiting", "kept", "ignored"}, progs \in SUBSET Tokens :
          write' = [write EXCEPT ![n + 1] = Entry(st, id, progs)]
    <3>1. CASE EmitFirst(id)
      BY <3>1, <2>3 DEF EmitFirst
    <3>2. CASE EmitUnchanged(id)
      <4>1. write' = [write EXCEPT ![n + 1] = Entry("kept", id, {})]
        BY <3>2 DEF EmitUnchanged
      <4> QED
        BY <4>1
    <3>3. CASE EmitAgain(id)
      BY <3>3, <2>3 DEF EmitAgain
    <3>4. CASE EmitIgnored(id)
      BY <3>4, <2>3 DEF EmitIgnored
    <3> QED
      BY <2>1, <3>1, <3>2, <3>3, <3>4
  <2>6. PICK st \in {"waiting", "kept", "ignored"}, progs \in SUBSET Tokens :
          write' = [write EXCEPT ![n + 1] = Entry(st, id, progs)]
    BY <2>5
  <2>7. Heard(id, st, progs)
    BY <2>2, <2>3, <2>4, <2>6 DEF Heard, Hears
  <2> QED
    BY <2>7, StatusNames
<1> QED
  BY <1>1, <1>2, <1>3 DEF Next, Settling, Storing, Works

(* A write that goes on takes its pair and its programmes with it, and     *)
(* leaves every other where it was.                                        *)
LEMMA OneMoves ==
  ASSUME TypeOK, NEW w \in Writes, Works(w)
  PROVE  /\ write[w].st \in Open /\ write[w].id \in Pairs
         /\ write'[w].st \in (Started \cup {"landed", "lost"}) \ {write[w].st}
         /\ \A v \in Writes : /\ write'[v].id = write[v].id
                              /\ write'[v].progs = write[v].progs
                              /\ v # w => write'[v] = write[v]
         /\ UNCHANGED <<n, owed, stream>>
<1> USE DEF pass, store
<1>1. CASE StartWrite(w) \/ ChainedTurn(w)
  BY <1>1 DEF StartWrite, ChainedTurn, EnterWrite, Open, Started, Active, TypeOK, Record, InState
<1>2. CASE ReadBack(w)
  BY <1>2 DEF ReadBack, Open, Started, Active, TypeOK, Record, InState
<1>3. CASE FirstLands(w) \/ AppendLands(w)
  BY <1>3 DEF FirstLands, AppendLands, Open, Started, Active, TypeOK, Record, InState
<1>4. CASE WriteFails(w)
  BY <1>4 DEF WriteFails, Open, Started, Active, TypeOK, Record, InState
<1> QED
  BY <1>1, <1>2, <1>3, <1>4 DEF Works

(* Two writes of one pair are both of emissions: a gap's is the only one.  *)
LEMMA SharedByEmissions ==
  ASSUME Queueing, NEW w \in Writes, NEW v \in Writes, w # v,
         write[w].id = write[v].id, write[w].st # "none", write[v].st # "none"
  PROVE  w \in Emissions /\ v \in Emissions
BY DEF Queueing, GapOwed, OwedUnmentioned, Writes

(* No two of one pair are inside #writeEntry together, nor has a later one *)
(* of them ended while an earlier is there.                                *)
LEMMA OneAtATime ==
  ASSUME Queueing, Ordered, NEW w \in Writes, NEW v \in Writes, w # v,
         write[w].id = write[v].id, write[w].st \in Active
  PROVE  write[v].st \notin Active
<1> SUFFICES ASSUME write[v].st \in Active PROVE FALSE
  OBVIOUS
<1>1. w \in Emissions /\ v \in Emissions
  BY SharedByEmissions DEF Active
<1>2. w < v \/ v < w
  BY <1>1 DEF Emissions
<1> QED
  BY <1>1, <1>2 DEF Ordered, Chain, Begun, Open, Started

LEMMA LossInit == Init => LossInv
<1> SUFFICES ASSUME Init PROVE Queueing /\ Ordered /\ Lossless
  BY TypeInit DEF LossInv
<1>1. \A w \in Writes : write[w].st = "none" /\ write[w].id = None
  BY DEF Init, Unused
<1>2. Emissions \subseteq Writes /\ Pairs \subseteq Writes /\ None \notin owed
  BY StreamAssumption DEF Writes, Init, StreamAssumption
<1> QED
  BY <1>1, <1>2 DEF Queueing, Unheard, OwedUnmentioned, GapOwed, Ordered, Fifo, Chain, Lossless,
     Claims, FirstAlone, BeforeHolds, Stands, Begun, Active, Started

LEMMA QueueingNext == TypeOK /\ Queueing /\ [Next]_vars => Queueing'
<1> SUFFICES ASSUME TypeOK, Queueing, [Next]_vars PROVE Queueing'
  OBVIOUS
<1> USE DEF Queueing, Unheard, OwedUnmentioned, GapOwed
<1>0. Emissions \subseteq Writes /\ Pairs \subseteq Writes
  BY DEF Writes
<1>1. CASE Quiet
  BY <1>1 DEF Quiet
<1>2. ASSUME NEW id \in Pairs \cup Others, NEW st \in Statuses, NEW progs \in SUBSET Tokens,
             Heard(id, st, progs)
      PROVE  Queueing'
  <2>1. \A v \in Writes : v # n + 1 => write'[v] = write[v]
    BY <1>2 DEF Heard, TypeOK
  <2>2. write'[n + 1].id = id
    BY <1>0, <1>2 DEF Heard, TypeOK, Entry
  <2>3. Unheard'
    BY <1>0, <1>2, <2>1 DEF Heard, TypeOK, Emissions
  <2>4. OwedUnmentioned'
    BY <1>0, <1>2, <2>1, <2>2 DEF Heard
  <2>5. GapOwed'
    BY <1>0, <1>2, <2>1, StreamAssumption DEF Heard, StreamAssumption
  <2> QED
    BY <2>3, <2>4, <2>5
<1>3. CASE FillGaps
  <2>1. \A v \in Writes \ owed : write'[v] = write[v]
    BY <1>3 DEF FillGaps
  <2>2. \A v \in owed : v \in Pairs /\ v \notin Emissions /\ write'[v].id = v
    BY <1>0, <1>3, StreamAssumption DEF FillGaps, TypeOK, Entry, StreamAssumption
  <2>3. Unheard' /\ OwedUnmentioned'
    BY <1>0, <1>3, <2>1, <2>2 DEF FillGaps
  <2>4. GapOwed'
    BY <1>0, <1>3, <2>1, <2>2 DEF FillGaps
  <2> QED
    BY <2>3, <2>4
<1>4. CASE Abort
  <2>1. \A v \in Writes : write'[v].id = write[v].id /\ (write[v].st = "none" => write'[v].st = "none")
    BY <1>4 DEF Abort, TypeOK, Record
  <2> QED
    BY <1>0, <1>4, <2>1 DEF Abort, pass
<1>5. ASSUME NEW w \in Writes, Works(w)
      PROVE  Queueing'
  <2>1. write[w].st # "none"
    BY <1>5, OneMoves DEF Open, Started, Active
  <2>2. \A v \in Writes : /\ write'[v].id = write[v].id
                         /\ (write[v].st = "none" => write'[v].st = "none")
    BY <1>5, <2>1, OneMoves
  <2> QED
    BY <1>0, <1>5, <2>2, OneMoves
<1> QED
  BY <1>1, <1>2, <1>3, <1>4, <1>5, StepKinds

LEMMA OrderedNext == TypeOK /\ Queueing /\ Ordered /\ [Next]_vars => Ordered'
<1> SUFFICES ASSUME TypeOK, Queueing, Ordered, [Next]_vars PROVE Ordered'
  OBVIOUS
<1> USE DEF Ordered, Fifo, Chain
<1>0. Emissions \subseteq Writes /\ Emissions \subseteq Nat
  BY DEF Writes, Emissions
<1>1. CASE Quiet
  BY <1>1 DEF Quiet
<1>2. ASSUME NEW id \in Pairs \cup Others, NEW st \in Statuses, NEW progs \in SUBSET Tokens,
             Heard(id, st, progs)
      PROVE  Ordered'
  <2>1. \A v \in Writes : v # n + 1 => write'[v] = write[v]
    BY <1>2 DEF Heard, TypeOK
  <2>2. write'[n + 1].st \in {"waiting", "kept", "ignored"}
    BY <1>0, <1>2 DEF Heard, TypeOK, Entry
  <2>3. \A v \in Emissions : v > n + 1 => write'[v].st = "none"
    BY <1>0, <1>2, <2>1 DEF Heard, Queueing, Unheard, TypeOK
  <2>4. n + 1 \in Emissions
    BY <1>2 DEF Heard
  <2> QED
    BY <1>0, <2>1, <2>2, <2>3, <2>4 DEF Begun, Started, Active, TypeOK
<1>3. CASE FillGaps
  <2>1. \A v \in Emissions : write'[v] = write[v]
    BY <1>0, <1>3, StreamAssumption DEF FillGaps, TypeOK, StreamAssumption
  <2> QED
    BY <2>1
<1>4. CASE Abort
  <2>1. \A v \in Writes : write'[v] = IF write[v].st = "waiting"
                                      THEN [write[v] EXCEPT !.st = "lost"] ELSE write[v]
    BY <1>4 DEF Abort
  <2>2. \A v \in Writes : /\ write'[v].id = write[v].id
                         /\ write'[v].st = IF write[v].st = "waiting" THEN "lost" ELSE write[v].st
    BY <2>1 DEF TypeOK, Record
  <2> QED
    BY <1>0, <2>2 DEF Begun, Open, Started, Active
<1>5. ASSUME NEW w \in Writes, Works(w)
      PROVE  Ordered'
  <2>1. \A v \in Writes : write'[v].id = write[v].id /\ (v # w => write'[v] = write[v])
    BY <1>5, OneMoves
  <2>2. write'[w].st \in Started \cup {"landed", "lost"} /\ write[w].st \in Open
    BY <1>5, OneMoves
  <2>3. w \in Emissions => \A v \in Emissions : v < w => write[v].st # "waiting"
    <3>1. CASE StartWrite(w)
      <4>1. w \in Emissions => \A v \in InState({"waiting"}) \cap Emissions : w <= v
        BY <3>1 DEF StartWrite
      <4> QED
        BY <1>0, <4>1 DEF InState
    <3>2. CASE ~StartWrite(w)
      BY <1>0, <1>5, <3>2 DEF Works, ChainedTurn, ReadBack, FirstLands, AppendLands, WriteFails,
                             Started, Active
    <3> QED
      BY <3>1, <3>2
  <2>4. Fifo'
    BY <1>0, <2>1, <2>2, <2>3 DEF Started, Active
  <2>5. \A v \in Emissions :
          v < w /\ w \in Emissions /\ write[v].id = write[w].id /\ write'[w].st \in Begun
            => write[v].st \notin Started
    <3>1. CASE write[w].st \in Begun
      BY <1>0, <3>1 DEF Open
    <3>2. CASE write[w].st \notin Begun
      <4>1. StartWrite(w) \/ ChainedTurn(w)
        BY <1>5, <3>2 DEF Works, ReadBack, FirstLands, AppendLands, WriteFails, Begun, Active
      <4>2. CASE Prior(w) = {}
        BY <1>0, <4>2 DEF Prior
      <4>3. CASE Prior(w) # {}
        <5>1. write' = [write EXCEPT ![w].st = "chained"]
          BY <4>1, <4>3 DEF StartWrite, ChainedTurn
        <5>2. write'[w].st = "chained"
          BY <5>1 DEF TypeOK, Record
        <5> QED
          BY <5>2 DEF Begun, Active
      <4> QED
        BY <4>2, <4>3
    <3> QED
      BY <3>1, <3>2
  <2>6. ASSUME NEW v \in Emissions, NEW u \in Emissions,
               v < u, write'[v].id = write'[u].id, write'[u].st \in Begun
        PROVE  write'[v].st \notin Open
    <3>1. CASE u = w
      BY <1>0, <2>1, <2>3, <2>5, <2>6, <3>1 DEF Open
    <3>2. CASE v = w
      BY <1>0, <2>1, <2>2, <2>6, <3>2
    <3>3. CASE u # w /\ v # w
      BY <1>0, <2>1, <2>6, <3>3
    <3> QED
      BY <3>1, <3>2, <3>3
  <2> QED
    BY <2>4, <2>6
<1> QED
  BY <1>1, <1>2, <1>3, <1>4, <1>5, StepKinds

LEMMA LosslessNext == LossInv /\ [Next]_vars => Lossless'
<1> SUFFICES ASSUME LossInv, [Next]_vars PROVE Lossless'
  OBVIOUS
<1>0. TypeOK /\ Queueing /\ Ordered /\ Lossless
  BY DEF LossInv
<1> USE DEF Lossless, Claims, FirstAlone, BeforeHolds, Stands
<1>1. CASE Quiet
  BY <1>0, <1>1 DEF Quiet
<1>2. ASSUME NEW id \in Pairs \cup Others, NEW st \in Statuses, NEW progs \in SUBSET Tokens,
             Heard(id, st, progs)
      PROVE  Lossless'
  <2>1. \A v \in Writes : v # n + 1 => write'[v] = write[v]
    BY <1>0, <1>2 DEF Heard, TypeOK
  <2>2. n + 1 \in Writes => write'[n + 1].st \notin Begun
    BY <1>0, <1>2 DEF Heard, TypeOK, Entry, Begun, Active
  <2> QED
    BY <1>0, <1>2, <2>1, <2>2 DEF Heard, Begun, Active
<1>3. CASE FillGaps
  <2>1. \A v \in Writes : write'[v] = write[v] \/ write'[v].st \notin Begun
    BY <1>0, <1>3 DEF FillGaps, Entry, Begun, Active
  <2> QED
    BY <1>0, <1>3, <2>1 DEF FillGaps, Begun, Active
<1>4. CASE Abort
  <2>1. \A v \in Writes : write'[v] = IF write[v].st = "waiting"
                                      THEN [write[v] EXCEPT !.st = "lost"] ELSE write[v]
    BY <1>4 DEF Abort
  <2>2. \A v \in Writes : write'[v] = write[v] \/ write'[v].st \notin Begun
    BY <1>0, <2>1 DEF TypeOK, Record, Begun, Active
  <2> QED
    BY <1>0, <1>4, <2>2 DEF Abort, Begun, Active
<1>5. ASSUME NEW w \in Writes, Works(w)
      PROVE  Lossless'
  <2>1. \A v \in Writes : /\ write'[v].id = write[v].id /\ write'[v].progs = write[v].progs
                         /\ (v # w => write'[v] = write[v])
    BY <1>0, <1>5, OneMoves
  <2>2. \A v \in Writes : v # w /\ write[v].id = write[w].id /\ write[w].st \in Active
                          => write[v].st \notin Active
    BY <1>0, OneAtATime
  <2>3. CASE StartWrite(w) \/ ChainedTurn(w)
    <3>1. CASE write'[w].st = "chained"
      BY <1>0, <2>1, <2>3, <3>1
         DEF StartWrite, ChainedTurn, EnterWrite, pass, TypeOK, Begun, Active
    <3>2. CASE write'[w].st # "chained"
      <4>1. Prior(w) = {} /\ EnterWrite(w) /\ cache' = cache
        <5>1. CASE Prior(w) = {}
          BY <2>3, <5>1 DEF StartWrite, ChainedTurn, store
        <5>2. CASE Prior(w) # {}
          <6>1. write' = [write EXCEPT ![w].st = "chained"]
            BY <2>3, <5>2 DEF StartWrite, ChainedTurn
          <6> QED
            BY <1>0, <3>2, <6>1 DEF TypeOK, Record
        <5> QED
          BY <5>1, <5>2
      <4>2. /\ write'[w].st = IF write[w].id \in written THEN "reading" ELSE "writing"
            /\ written' = written \cup {write[w].id}
        BY <1>0, <4>1 DEF EnterWrite, TypeOK
      <4>3. \A v \in Writes : v # w /\ write[v].id = write[w].id /\ write[v].st = "writing"
                              => FALSE
        <5> SUFFICES ASSUME NEW v \in Writes, v # w, write[v].id = write[w].id,
                            write[v].st = "writing"
                     PROVE  FALSE
          OBVIOUS
        <5>1. write[w].st \in {"waiting", "chained"}
          BY <2>3 DEF StartWrite, ChainedTurn
        <5>2. w \in Emissions /\ v \in Emissions
          BY <1>0, <5>1, SharedByEmissions
        <5>3. CASE v < w
          <6>1. v \in Prior(w)
            BY <5>2, <5>3 DEF Prior, Started, Active
          <6> QED
            BY <4>1, <6>1
        <5>4. CASE w < v
          BY <1>0, <5>1, <5>2, <5>4 DEF Ordered, Chain, Begun, Active, Open, Started
        <5> QED
          BY <5>2, <5>3, <5>4 DEF Emissions
      <4> QED
        BY <1>0, <2>1, <4>1, <4>2, <4>3 DEF Begun, Active
    <3> QED
      BY <3>1, <3>2
  <2>4. CASE ReadBack(w)
    <3>1. /\ write'[w].st = "appending" /\ UNCHANGED <<written, cache>>
          /\ write'[w].before = IF cache[write[w].id] = NoEntry THEN {} ELSE cache[write[w].id]
          /\ write[w].st = "reading"
      BY <1>0, <2>4 DEF ReadBack, store, TypeOK, Record
    <3>2. \A v \in Writes : write[v].progs \subseteq Tokens /\ -1 \notin Tokens
      BY <1>0, StreamAssumption DEF TypeOK, Record, Tokens, StreamAssumption
    <3>3. \A v \in Writes : write[v].st = "landed" /\ write[v].id = write[w].id
                            => write[v].progs \subseteq write'[w].before
      BY <1>0, <3>1, <3>2 DEF NoEntry
    <3> QED
      BY <1>0, <2>1, <3>1, <3>3 DEF Begun, Active
  <2>5. CASE FirstLands(w)
    <3>1. /\ write[w].st = "writing" /\ write'[w].st = "landed" /\ written' = written
          /\ cache' = [cache EXCEPT ![write[w].id] = write[w].progs]
      BY <1>0, <2>5 DEF FirstLands, TypeOK
    <3>2. write[w].id \in Pairs /\ cache'[write[w].id] = write[w].progs
      BY <1>0, <1>5, <3>1, OneMoves DEF TypeOK
    <3>3. \A p \in Pairs : p # write[w].id => cache'[p] = cache[p]
      BY <1>0, <3>1 DEF TypeOK
    <3>4. \A v \in Writes : write[v].st = "landed" => write[v].id \in Pairs
      BY <1>0 DEF TypeOK, InState
    <3>5. Stands'
      BY <1>0, <2>1, <3>1, <3>2, <3>3, <3>4 DEF Begun
    <3>6. Claims' /\ FirstAlone' /\ BeforeHolds'
      BY <1>0, <2>1, <2>2, <3>1 DEF Begun, Active
    <3> QED
      BY <3>5, <3>6
  <2>6. CASE AppendLands(w)
    <3>1. /\ write[w].st = "appending" /\ write'[w].st = "landed" /\ written' = written
          /\ cache' = [cache EXCEPT ![write[w].id] = write[w].before \cup write[w].progs]
      BY <1>0, <2>6 DEF AppendLands, TypeOK, pass
    <3>2. write[w].id \in Pairs /\ cache'[write[w].id] = write[w].before \cup write[w].progs
      BY <1>0, <1>5, <3>1, OneMoves DEF TypeOK
    <3>3. \A p \in Pairs : p # write[w].id => cache'[p] = cache[p]
      BY <1>0, <3>1 DEF TypeOK
    <3>4. \A v \in Writes : write[v].st = "landed" => write[v].id \in Pairs
      BY <1>0 DEF TypeOK, InState
    <3>5. Stands'
      BY <1>0, <2>1, <3>1, <3>2, <3>3, <3>4
    <3>6. Claims' /\ FirstAlone' /\ BeforeHolds'
      BY <1>0, <2>1, <2>2, <3>1 DEF Begun, Active
    <3> QED
      BY <3>5, <3>6
  <2>7. CASE WriteFails(w)
    <3>1. write'[w].st = "lost" /\ UNCHANGED <<written, cache>>
      BY <1>0, <2>7 DEF WriteFails, TypeOK
    <3> QED
      BY <1>0, <2>1, <3>1 DEF Begun, Active
  <2> QED
    BY <1>5, <2>3, <2>4, <2>5, <2>6, <2>7 DEF Works
<1> QED
  BY <1>0, <1>1, <1>2, <1>3, <1>4, <1>5, StepKinds

\* What a write has put in an entry stays in it (NoLostUpdate), for any number
\* of emissions of any channel-days over any number of slots, whatever fails
\* and whenever the run is cancelled.
THEOREM StreamLosesNothing == Spec => []NoLostUpdate
<1>1. Init => LossInv
  BY LossInit
<1>2. LossInv /\ [Next]_vars => LossInv'
  BY TypeNext, QueueingNext, OrderedNext, LosslessNext DEF LossInv
<1>3. LossInv => NoLostUpdate
  BY DEF LossInv, Lossless, Stands, NoLostUpdate, InState
<1> QED
  BY <1>1, <1>2, <1>3, PTL DEF Spec

-----------------------------------------------------------------------------
(* Why what is counted is what is stored (CountsAreTrue).  Where a pair    *)
(* stands in the pass: owed, kept, or given to the queue.                  *)
InQueue == Open \cup {"landed", "lost"}

CleanGaps ==
  /\ \A p \in Pairs : write[p].st # "none" => failure = "none"
  /\ stream = "filling" => failure = "none"
KeptApart ==
  /\ \A p \in keeping : p \notin owed /\ p \notin written
  /\ \A w \in Writes : write[w].st \in InQueue => write[w].id \notin keeping
OwedUnbegun == \A p \in owed : p \in written => write[p].st # "none"
Mentioned ==
  \A p \in Pairs : p \notin owed /\ p \notin keeping
    => \E k \in Emissions : write[k].id = p /\ write[k].st \in InQueue
Filled ==
  stream \in {"filling", "done"} /\ failure = "none"
    => \A p \in owed : write[p].st \in InQueue
AllEnded == stream = "done" /\ ~aborted => \A w \in Writes : write[w].st \notin Open
Untouched == \A p \in Pairs : p \notin written => cache[p] = IF p \in held THEN {0} ELSE NoEntry
Placed ==
  CleanGaps /\ KeptApart /\ OwedUnbegun /\ Mentioned /\ Filled /\ AllEnded /\ Untouched

(* What is counted of a pair, and when.                                    *)
Told(p) == Outcomes(p) > 0
Answered ==
  \A w \in Writes :
    write[w].st \in {"landed", "lost"} \/ (aborted /\ write[w].st \in Open)
      => Told(write[w].id)
Claimed ==
  \A p \in written : Told(p) \/ \E w \in Writes : write[w].id = p /\ write[w].st = "writing"
AllTold ==
  /\ stream = "done" => \A p \in Pairs : Told(p)
  /\ stream = "filling" => \A p \in keeping : Told(p)

Lost(p) == \E w \in Writes : write[w].id = p /\ write[w].st = "lost"
FirstLanded(p) ==
  p \in written /\ \A w \in Writes : write[w].id = p => write[w].st # "writing"
TakenAsIs(p) ==
  \/ stream \in {"filling", "done"} /\ p \in keeping
  \/ stream = "done" /\ failure # "none" /\ p \in owed
ExactOf(p) ==
  ~aborted /\ ~Lost(p) =>
    /\ said[p].fetched = IF FirstLanded(p) THEN 1 ELSE 0
    /\ said[p].failed + said[p].unchanged = IF TakenAsIs(p) THEN 1 ELSE 0
Exact == \A p \in Pairs : ExactOf(p)
KeptAsHeld ==
  \A p \in Pairs : said[p].unchanged > 0 =>
    /\ p \in held /\ stream \in {"filling", "done"}
    /\ p \in keeping \/ (p \in owed /\ failure = "unchanged")
Counting == Answered /\ Claimed /\ AllTold /\ Exact /\ KeptAsHeld

(* What the entries hold, and how many of them nothing.                    *)
ReadsTrue ==
  \A w \in Writes : write[w].st = "appending" =>
    write[w].before = IF cache[write[w].id] = NoEntry THEN {} ELSE cache[write[w].id]
LandedThere == \A w \in Writes : write[w].st = "landed" => cache[write[w].id] # NoEntry
ClaimSettles ==
  \A p \in written : \E w \in Writes :
    write[w].id = p /\ write[w].st \in {"writing", "landed", "lost"}
Bare == {p \in Pairs : OfPair(p, {"landed"}) # {} /\ cache[p] = {}}
EmptyCounted == InState({"lost"}) = {} => empty = Cardinality(Bare)
Emptying == ReadsTrue /\ LandedThere /\ ClaimSettles /\ EmptyCounted /\ EmptyOnlyWhenSaid

CountInv == LossInv /\ Placed /\ Counting /\ Emptying

(* The actions, by what of this they touch.                                *)
Aside ==
  /\ UNCHANGED <<failure, n, owed, keeping, held, written, write, cache, said, empty, aborted>>
  /\ \/ stream' = stream
     \/ stream = "queued" /\ stream' \in {"reading", "skipped"}
Closes ==
  /\ stream = "reading" /\ stream' = "draining"
  /\ UNCHANGED <<n, owed, keeping, held, written, write, cache, said, empty, aborted>>
HeardOf(id, st, progs) ==
  /\ Heard(id, st, progs) /\ ~aborted
  /\ keeping' = keeping \cup (IF st = "kept" THEN {id} ELSE {})
  /\ st = "kept" => id \in owed
  /\ st = "waiting" => id \in owed \cup written
  /\ st = "ignored" => id \notin owed
  /\ UNCHANGED <<failure, held, said, empty, aborted>>

LEMMA CountingSteps ==
  ASSUME TypeOK, [Next]_vars
  PROVE  \/ Aside \/ Closes
         \/ \E id \in Pairs \cup Others, st \in Statuses, progs \in SUBSET Tokens :
              HeardOf(id, st, progs)
         \/ KeepAll \/ FailRest \/ FillGaps \/ Finish \/ Abort
         \/ \E w \in Writes : Works(w)
<1> USE DEF pass, store
<1>1. CASE Begin \/ OthersTake \/ OthersRelease \/ UNCHANGED vars
  BY <1>1 DEF Begin, OthersTake, OthersRelease, vars, Aside
<1>2. CASE Ending
  BY <1>2 DEF Ending, EndOfDocument, Closes
<1>3. CASE Hearing
  <2>1. PICK id \in Pairs \cup Others :
          EmitFirst(id) \/ EmitUnchanged(id) \/ EmitAgain(id) \/ EmitIgnored(id)
    BY <1>3 DEF Hearing
  <2>2. Hears
    BY <2>1 DEF EmitFirst, EmitUnchanged, EmitAgain, EmitIgnored
  <2>3. n + 1 \in Emissions /\ Programmes(n + 1) \in SUBSET SUBSET Tokens
    BY <2>2, StreamAssumption
       DEF Hears, TypeOK, Emissions, Programmes, Tokens, StreamAssumption
  <2>4. owed' = owed \ {id}
    BY <2>1 DEF EmitFirst, EmitUnchanged, EmitAgain, EmitIgnored
  <2>5. CASE EmitFirst(id)
    <3>1. PICK progs \in Programmes(n + 1) :
            write' = [write EXCEPT ![n + 1] = Entry("waiting", id, progs)]
      BY <2>5 DEF EmitFirst
    <3>2. HeardOf(id, "waiting", progs)
      BY <2>2, <2>3, <2>4, <2>5, <3>1 DEF EmitFirst, HeardOf, Heard, Hears
    <3> QED
      BY <2>3, <3>2, StatusNames
  <2>6. CASE EmitUnchanged(id)
    <3>1. HeardOf(id, "kept", {})
      BY <2>2, <2>3, <2>4, <2>6 DEF EmitUnchanged, HeardOf, Heard, Hears
    <3> QED
      BY <3>1, StatusNames
  <2>7. CASE EmitAgain(id)
    <3>1. PICK progs \in Programmes(n + 1) :
            write' = [write EXCEPT ![n + 1] = Entry("waiting", id, progs)]
      BY <2>7 DEF EmitAgain
    <3>2. HeardOf(id, "waiting", progs)
      BY <2>2, <2>3, <2>4, <2>7, <3>1 DEF EmitAgain, HeardOf, Heard, Hears
    <3> QED
      BY <2>3, <3>2, StatusNames
  <2>8. CASE EmitIgnored(id)
    <3>1. PICK progs \in Programmes(n + 1) :
            write' = [write EXCEPT ![n + 1] = Entry("ignored", id, progs)]
      BY <2>8 DEF EmitIgnored
    <3>2. HeardOf(id, "ignored", progs)
      BY <2>2, <2>3, <2>4, <2>8, <3>1 DEF EmitIgnored, HeardOf, Heard, Hears
    <3> QED
      BY <2>3, <3>2, StatusNames
  <2> QED
    BY <2>1, <2>5, <2>6, <2>7, <2>8
<1> QED
  BY <1>1, <1>2, <1>3 DEF Next, Settling, Storing, Works

(* A write that goes on leaves the pass alone, and claims at most its pair. *)
LEMMA WorksAside ==
  ASSUME TypeOK, NEW w \in Writes, Works(w)
  PROVE  /\ UNCHANGED <<stream, failure, n, owed, keeping, held, aborted>>
         /\ \/ written' = written
            \/ write'[w].st \in Active /\ written' = written \cup {write[w].id}
         /\ \A p \in Pairs : p # write[w].id => cache'[p] = cache[p]
         /\ cache' # cache => write[w].st \in {"writing", "appending"}
<1> USE DEF pass, store
<1>1. CASE StartWrite(w) \/ ChainedTurn(w)
  BY <1>1 DEF StartWrite, ChainedTurn, EnterWrite, Active, TypeOK, Record
<1>2. CASE ReadBack(w) \/ WriteFails(w)
  BY <1>2 DEF ReadBack, WriteFails
<1>3. CASE FirstLands(w) \/ AppendLands(w)
  BY <1>3 DEF FirstLands, AppendLands, TypeOK
<1> QED
  BY <1>1, <1>2, <1>3 DEF Works

(* A cancel takes what waits off the queue, and nothing else.              *)
LEMMA AbortDrops ==
  ASSUME TypeOK, Abort
  PROVE  /\ \A v \in Writes :
              /\ write'[v].id = write[v].id /\ write'[v].progs = write[v].progs
              /\ write'[v].before = write[v].before
              /\ write'[v].st = IF write[v].st = "waiting" THEN "lost" ELSE write[v].st
         /\ UNCHANGED <<stream, failure, n, owed, keeping, held, written, cache, empty>>
<1>1. \A v \in Writes : write'[v] = IF write[v].st = "waiting"
                                    THEN [write[v] EXCEPT !.st = "lost"] ELSE write[v]
  BY DEF Abort
<1>2. UNCHANGED <<stream, failure, n, owed, keeping, held, written, cache, empty>>
  BY DEF Abort, pass
<1> QED
  BY <1>1, <1>2 DEF TypeOK, Record

LEMMA PlacedInit == Init => Placed
<1> SUFFICES ASSUME Init PROVE Placed
  OBVIOUS
<1>1. \A w \in Writes : write[w].st = "none"
  BY DEF Init, Unused
<1>2. Pairs \subseteq Writes
  BY DEF Writes
<1> QED
  BY <1>1, <1>2 DEF Init, Placed, CleanGaps, KeptApart, OwedUnbegun, Mentioned, Filled, AllEnded,
     Untouched, InQueue, Open, Started, Active

LEMMA PlacedNext == LossInv /\ Placed /\ [Next]_vars => Placed'
<1> SUFFICES ASSUME LossInv, Placed, [Next]_vars PROVE Placed'
  OBVIOUS
<1>0. TypeOK /\ Queueing /\ Lossless
  BY DEF LossInv
<1>a. Emissions \subseteq Writes /\ Pairs \subseteq Writes /\ Emissions \cap Pairs = {}
  BY StreamAssumption DEF Writes, StreamAssumption
<1>b. owed \subseteq Pairs /\ keeping \subseteq Pairs /\ written \subseteq Pairs
  BY <1>0 DEF TypeOK
<1> USE DEF Placed, CleanGaps, KeptApart, OwedUnbegun, Mentioned, Filled, AllEnded, Untouched
<1>1. CASE Aside
  BY <1>1 DEF Aside
<1>2. CASE Closes
  <2>1. \A p \in Pairs : write[p].st = "none"
    BY <1>0, <1>2 DEF Closes, Queueing, GapOwed
  <2> QED
    BY <1>2, <2>1 DEF Closes
<1>3. ASSUME NEW id \in Pairs \cup Others, NEW st \in Statuses, NEW progs \in SUBSET Tokens,
             HeardOf(id, st, progs)
      PROVE  Placed'
  <2>1. /\ n + 1 \in Emissions /\ stream = "reading" /\ stream' = stream
        /\ owed' = owed \ {id} /\ UNCHANGED <<written, cache, failure, held, aborted>>
        /\ keeping' = keeping \cup (IF st = "kept" THEN {id} ELSE {})
        /\ st \in {"waiting", "kept", "ignored"}
    BY <1>3 DEF HeardOf, Heard
  <2>2. \A v \in Writes : v # n + 1 => write'[v] = write[v]
    BY <1>0, <1>3 DEF HeardOf, Heard, TypeOK
  <2>3. write'[n + 1].id = id /\ write'[n + 1].st = st
    BY <1>0, <1>a, <1>3 DEF HeardOf, Heard, TypeOK, Entry
  <2>4. \A p \in Pairs : write[p].st = "none" /\ write'[p].st = "none"
    BY <1>0, <1>a, <2>1, <2>2 DEF Queueing, GapOwed
  <2>5. write[n + 1].st = "none"
    BY <1>0, <2>1 DEF Queueing, Unheard, TypeOK, Emissions
  <2>6. st = "kept" => id \in owed /\ id \notin written
    BY <1>3, <2>4, <1>b DEF HeardOf
  <2>7. st = "waiting" => id \notin keeping
    BY <1>3 DEF HeardOf
  <2>8. \A w \in Writes : write[w].st \in InQueue => w \in Emissions /\ write[w].id \notin owed
    BY <1>0, <1>a, <2>4 DEF Queueing, OwedUnmentioned, Writes, InQueue, Open, Started, Active
  <2>9. "kept" \notin InQueue /\ "ignored" \notin InQueue /\ "none" \notin InQueue /\ "waiting" \in InQueue
    BY DEF InQueue, Open, Started, Active
  <2>10. KeptApart'
    BY <1>a, <2>1, <2>2, <2>3, <2>6, <2>7, <2>8, <2>9
  <2>11. Mentioned'
    <3> SUFFICES ASSUME NEW p \in Pairs, p \notin owed', p \notin keeping'
                 PROVE  \E k \in Emissions : write'[k].id = p /\ write'[k].st \in InQueue
      OBVIOUS
    <3>1. CASE p \in owed
      <4>1. p = id /\ st = "waiting"
        BY <1>3, <2>1, <3>1 DEF HeardOf
      <4> QED
        BY <2>1, <2>3, <2>9, <4>1
    <3>2. CASE p \notin owed
      <4>1. PICK k \in Emissions : write[k].id = p /\ write[k].st \in InQueue
        BY <2>1, <3>2
      <4>2. k # n + 1
        BY <2>5, <2>9, <4>1
      <4> QED
        BY <1>a, <2>2, <4>1, <4>2
    <3> QED
      BY <3>1, <3>2
  <2>12. CleanGaps' /\ OwedUnbegun' /\ Filled' /\ AllEnded' /\ Untouched'
    BY <1>b, <2>1, <2>4
  <2> QED
    BY <2>10, <2>11, <2>12
<1>4. CASE KeepAll \/ FailRest
  <2>1. /\ stream' = "done" /\ failure \in {"unchanged", "error"} /\ stream = "draining"
        /\ UNCHANGED <<failure, owed, keeping, held, write, written, cache, aborted>>
        /\ aborted \/ InState(Open) = {}
    BY <1>4 DEF KeepAll, FailRest, Settled
  <2> QED
    BY <2>1 DEF InState
<1>5. CASE FillGaps
  <2>1. /\ stream' = "filling" /\ failure = "none" /\ stream = "draining"
        /\ UNCHANGED <<failure, owed, keeping, held, written, cache, aborted>>
    BY <1>5 DEF FillGaps
  <2>2. \A v \in Writes \ owed : write'[v] = write[v]
    BY <1>5 DEF FillGaps
  <2>3. \A v \in owed : v \in Pairs /\ write'[v].st \in InQueue /\ write'[v].st # "none" /\ write'[v].id = v
    BY <1>5, <1>a, <1>b DEF FillGaps, Entry, InQueue, Open
  <2>4. KeptApart'
    BY <2>1, <2>2, <2>3
  <2>5. Mentioned'
    BY <1>a, <1>b, <2>1, <2>2
  <2>6. CleanGaps' /\ OwedUnbegun' /\ Filled' /\ AllEnded' /\ Untouched'
    BY <2>1, <2>3
  <2> QED
    BY <2>4, <2>5, <2>6
<1>6. CASE Finish
  <2>1. /\ stream' = "done" /\ stream = "filling"
        /\ UNCHANGED <<failure, owed, keeping, held, write, written, cache>>
    BY <1>6 DEF Finish, store
  <2>2. AllEnded'
    BY <1>6 DEF Finish, Settled, InState
  <2>3. CleanGaps' /\ KeptApart' /\ OwedUnbegun' /\ Mentioned' /\ Filled' /\ Untouched'
    BY <2>1
  <2> QED
    BY <2>2, <2>3
<1>7. CASE Abort
  <2>1. /\ UNCHANGED <<stream, failure, owed, keeping, held, written, cache>>
        /\ aborted' = TRUE
    BY <1>7 DEF Abort, pass
  <2>3. \A v \in Writes : /\ write'[v].id = write[v].id
                         /\ write'[v].st = IF write[v].st = "waiting" THEN "lost" ELSE write[v].st
    BY <1>0, <1>7, AbortDrops
  <2>4. \A v \in Writes : /\ write'[v].st = "none" <=> write[v].st = "none"
                         /\ write'[v].st \in InQueue <=> write[v].st \in InQueue
    BY <2>3 DEF InQueue, Open
  <2>5. AllEnded'
    BY <2>1
  <2>6. CleanGaps' /\ KeptApart' /\ OwedUnbegun' /\ Mentioned' /\ Filled' /\ Untouched'
    BY <1>a, <1>b, <2>1, <2>3, <2>4
  <2> QED
    BY <2>5, <2>6
<1>8. ASSUME NEW w \in Writes, Works(w)
      PROVE  Placed'
  <2>1. /\ UNCHANGED <<stream, failure, owed, keeping, held, aborted>>
        /\ written' = written \/ written' = written \cup {write[w].id}
        /\ \A p \in Pairs : p # write[w].id => cache'[p] = cache[p]
        /\ cache' # cache => write[w].st \in {"writing", "appending"}
    BY <1>0, <1>8, WorksAside
  <2>2. /\ write[w].st \in Open /\ write[w].id \in Pairs
        /\ write'[w].st \in InQueue
        /\ \A v \in Writes : write'[v].id = write[v].id /\ (v # w => write'[v] = write[v])
    BY <1>0, <1>8, OneMoves DEF InQueue, Open
  <2>3. "none" \notin InQueue /\ Open \subseteq InQueue
    BY DEF InQueue, Open, Started, Active
  <2>4. write[w].id \notin keeping
    BY <2>2, <2>3
  <2>5. write[w].id \in owed => w = write[w].id
    BY <1>0, <2>2, <2>3 DEF Queueing, OwedUnmentioned, GapOwed, Writes
  <2>6. cache'[write[w].id] # cache[write[w].id] => write[w].id \in written
    BY <1>0, <2>1 DEF Lossless, Claims, Begun, Active
  <2>7. CleanGaps' /\ KeptApart' /\ OwedUnbegun' /\ Mentioned' /\ Filled'
    BY <1>a, <1>b, <2>1, <2>2, <2>3, <2>4, <2>5
  <2>8. AllEnded'
    BY <2>1, <2>2
  <2>9. Untouched'
    BY <2>1, <2>6
  <2> QED
    BY <2>7, <2>8, <2>9
<1> QED
  BY <1>0, <1>1, <1>2, <1>3, <1>4, <1>5, <1>6, <1>7, <1>8, CountingSteps

-----------------------------------------------------------------------------
(* What each action counts.                                                *)
LEMMA KeepCounts ==
  ASSUME NEW counts \in [Pairs -> [fetched : Nat, failed : Nat, unchanged : Nat]],
         NEW S, NEW p \in Pairs
  PROVE  /\ Keep(counts, S)[p].fetched = counts[p].fetched
         /\ Keep(counts, S)[p].failed
              = IF p \in S /\ p \notin held THEN counts[p].failed + 1 ELSE counts[p].failed
         /\ Keep(counts, S)[p].unchanged
              = IF p \in S /\ p \in held THEN counts[p].unchanged + 1 ELSE counts[p].unchanged
BY DEF Keep

LEMMA StreamCounts ==
  ASSUME TypeOK, NEW S, NEW p \in Pairs
  PROVE  /\ Count("fetched", S)[p].fetched = IF p \in S THEN said[p].fetched + 1 ELSE said[p].fetched
         /\ Count("fetched", S)[p].failed = said[p].failed
         /\ Count("fetched", S)[p].unchanged = said[p].unchanged
         /\ Count("failed", S)[p].fetched = said[p].fetched
         /\ Count("failed", S)[p].failed = IF p \in S THEN said[p].failed + 1 ELSE said[p].failed
         /\ Count("failed", S)[p].unchanged = said[p].unchanged
BY DEF TypeOK, Count

LEMMA AbortCounts ==
  ASSUME TypeOK, Abort, NEW p \in Pairs
  PROVE  /\ said'[p].fetched = said[p].fetched /\ said'[p].unchanged = said[p].unchanged
         /\ said'[p].failed >= said[p].failed
         /\ (\E w \in Writes : write[w].id = p /\ write[w].st \in Open) => said'[p].failed > 0
<1>1. said'[p] = [said[p] EXCEPT !.failed = @ + Cardinality(OfPair(p, Open))]
  BY DEF Abort
<1>2. Cardinality(OfPair(p, Open)) \in Nat /\ IsFiniteSet(OfPair(p, Open))
  BY WritesFinite
<1>3. said[p] \in [fetched : Nat, failed : Nat, unchanged : Nat]
  BY DEF TypeOK
<1>4. (\E w \in Writes : write[w].id = p /\ write[w].st \in Open)
        => Cardinality(OfPair(p, Open)) # 0
  BY <1>2, FS_EmptySet DEF OfPair, InState
<1> QED
  BY <1>1, <1>2, <1>3, <1>4

Counters == [fetched : Nat, failed : Nat, unchanged : Nat]
NoLess(p) ==
  said'[p].fetched >= said[p].fetched /\ said'[p].failed >= said[p].failed
    /\ said'[p].unchanged >= said[p].unchanged

(* What has been counted of a pair is never taken back.                    *)
LEMMA ToldStays ==
  ASSUME TypeOK, [Next]_vars, NEW p \in Pairs, Told(p)
  PROVE  Told(p)'
<1>0. said \in [Pairs -> Counters] /\ said' \in [Pairs -> Counters]
  BY TypeNext DEF TypeOK, Counters
<1>c. PICK counts : /\ counts = Count("failed", owed) /\ counts \in [Pairs -> Counters]
                   /\ counts[p].fetched = said[p].fetched /\ counts[p].unchanged = said[p].unchanged
                   /\ counts[p].failed >= said[p].failed
  BY <1>0, StreamCounts, CountType DEF Counters
<1>k. /\ Keep(counts, keeping)[p].fetched = counts[p].fetched
      /\ Keep(counts, keeping)[p].failed \in {counts[p].failed, counts[p].failed + 1}
      /\ Keep(counts, keeping)[p].unchanged \in {counts[p].unchanged, counts[p].unchanged + 1}
  BY <1>c, KeepCounts DEF Counters
<1>m. counts[p] \in Counters /\ said[p] \in Counters
  BY <1>0, <1>c
<1>1. NoLess(p)
  <2>1. CASE said' = said
    BY <1>0, <2>1 DEF NoLess, Counters
  <2>2. CASE KeepAll
    BY <1>0, <2>2, KeepCounts DEF KeepAll, NoLess, Counters
  <2>3. CASE FailRest
    <3>1. said' = Keep(counts, keeping)
      BY <1>c, <2>3 DEF FailRest
    <3> QED
      BY <1>c, <1>k, <1>m, <3>1 DEF NoLess, Counters
  <2>4. CASE FillGaps
    <3>1. said' = Keep(counts, keeping) \/ said' = Keep(said, keeping)
      BY <1>c, <2>4 DEF FillGaps
    <3>2. CASE said' = Keep(counts, keeping)
      BY <1>c, <1>k, <1>m, <3>2 DEF NoLess, Counters
    <3>3. CASE said' = Keep(said, keeping)
      BY <1>0, <3>3, KeepCounts DEF NoLess, Counters
    <3> QED
      BY <3>1, <3>2, <3>3
  <2>5. CASE Abort
    BY <1>0, <2>5, AbortCounts DEF NoLess, Counters
  <2>6. ASSUME NEW w \in Writes, FirstLands(w) PROVE NoLess(p)
    BY <1>0, <2>6, StreamCounts DEF FirstLands, NoLess, Counters
  <2>7. ASSUME NEW w \in Writes, WriteFails(w) PROVE NoLess(p)
    <3>1. said' = said \/ said' = Count("failed", {write[w].id})
      BY <2>7 DEF WriteFails
    <3> QED
      BY <1>0, <3>1, StreamCounts DEF NoLess, Counters
  <2>8. CASE Aside \/ Closes \/ Finish
    BY <2>1, <2>8 DEF Aside, Closes, Finish, store
  <2>9. ASSUME NEW id \in Pairs \cup Others, NEW st \in Statuses, NEW progs \in SUBSET Tokens,
               HeardOf(id, st, progs)
        PROVE  NoLess(p)
    BY <2>1, <2>9 DEF HeardOf
  <2>10. ASSUME NEW w \in Writes, StartWrite(w) \/ ChainedTurn(w) \/ ReadBack(w) \/ AppendLands(w)
         PROVE  NoLess(p)
    BY <2>1, <2>10 DEF StartWrite, ChainedTurn, ReadBack, AppendLands, store
  <2> QED
    BY <2>2, <2>3, <2>4, <2>5, <2>6, <2>7, <2>8, <2>9, <2>10, CountingSteps DEF Works
<1> QED
  BY <1>0, <1>1 DEF NoLess, Told, Outcomes, Counters

LEMMA CountingInit == Init => Counting
<1> SUFFICES ASSUME Init PROVE Counting
  OBVIOUS
<1>1. \A w \in Writes : write[w].st = "none"
  BY DEF Init, Unused
<1>2. Answered /\ Claimed
  BY <1>1 DEF Init, Answered, Claimed, Open, Started, Active
<1>3. AllTold /\ KeptAsHeld
  BY DEF Init, AllTold, KeptAsHeld
<1>4. Exact
  BY DEF Init, Exact, ExactOf, TakenAsIs, FirstLanded
<1> QED
  BY <1>2, <1>3, <1>4 DEF Counting

(* Once what the queue answers for has settled, each it was given is told. *)
LEMMA SettledTold ==
  ASSUME Answered, Settled, NEW w \in Writes, write[w].st \in InQueue
  PROVE  Told(write[w].id)
<1>1. CASE aborted
  BY <1>1 DEF Answered, InQueue
<1>2. CASE InState(Open) = {}
  BY <1>2 DEF Answered, InQueue, InState
<1> QED
  BY <1>1, <1>2 DEF Settled

LEMMA MentionedTold ==
  ASSUME Placed, Counting, Settled, NEW p \in Pairs, p \notin owed, p \notin keeping
  PROVE  Told(p)
<1>1. PICK k \in Emissions : write[k].id = p /\ write[k].st \in InQueue
  BY DEF Placed, Mentioned
<1> QED
  BY <1>1, SettledTold DEF Counting, Writes

(* The count of a pair stays exact when nothing it is of changes, and when *)
(* what is kept of it is added.                                            *)
LEMMA ExactStays ==
  ASSUME NEW p, ExactOf(p), said'[p] = said[p], ~aborted' => ~aborted, Lost(p) => Lost(p)',
         FirstLanded(p)' <=> FirstLanded(p), TakenAsIs(p)' <=> TakenAsIs(p)
  PROVE  ExactOf(p)'
BY DEF ExactOf

LEMMA ExactTaken ==
  ASSUME NEW p, ExactOf(p), ~aborted' => ~aborted, Lost(p) => Lost(p)',
         FirstLanded(p)' <=> FirstLanded(p), ~TakenAsIs(p), TakenAsIs(p)',
         said[p] \in Counters, said'[p].fetched = said[p].fetched,
         said'[p].failed + said'[p].unchanged = said[p].failed + said[p].unchanged + 1
  PROVE  ExactOf(p)'
BY DEF ExactOf, Counters

(* Where no write is lost, found again or begun, a pair's are as they were. *)
LEMMA SameOfPair ==
  ASSUME NEW p, written' = written,
         \A w \in Writes : /\ write'[w].id = p /\ write'[w].st = "writing"
                             <=> write[w].id = p /\ write[w].st = "writing"
                           /\ write'[w].id = p /\ write'[w].st = "lost"
                             <=> write[w].id = p /\ write[w].st = "lost"
  PROVE  (FirstLanded(p)' <=> FirstLanded(p)) /\ (Lost(p)' <=> Lost(p))
BY DEF FirstLanded, Lost

LEMMA CountingAside ==
  ASSUME LossInv, Placed, Counting, [Next]_vars, Aside \/ Closes \/ Finish
  PROVE  Counting'
<1>0. TypeOK /\ Queueing
  BY DEF LossInv
<1>1. UNCHANGED <<owed, keeping, held, written, write, said>> /\ (aborted' <=> aborted)
  BY DEF Aside, Closes, Finish, store
<1>2. Answered' /\ Claimed'
  BY <1>1 DEF Counting, Answered, Claimed, Told, Outcomes
<1>3. AllTold'
  <2>1. CASE Aside \/ Closes
    BY <1>1, <2>1 DEF Counting, AllTold, Told, Outcomes, Aside, Closes
  <2>2. CASE Finish
    <3> SUFFICES ASSUME NEW p \in Pairs PROVE Told(p)
      BY <1>1, <2>2 DEF Finish, AllTold, Told, Outcomes
    <3>1. Settled /\ stream = "filling" /\ failure = "none"
      BY <2>2 DEF Finish, Placed, CleanGaps
    <3>2. CASE p \in keeping
      BY <3>1, <3>2 DEF Counting, AllTold
    <3>3. CASE p \in owed
      <4>1. write[p].st \in InQueue /\ p \in Writes
        BY <3>1, <3>3 DEF Placed, Filled, Writes
      <4>2. write[p].id = p
        BY <1>0, <4>1 DEF Queueing, GapOwed, InQueue, Open, Started, Active
      <4> QED
        BY <3>1, <4>1, <4>2, SettledTold DEF Counting
    <3> QED
      BY <3>1, <3>2, <3>3, MentionedTold
  <2> QED
    BY <2>1, <2>2
<1>4. ASSUME NEW p \in Pairs PROVE ExactOf(p)'
  <2>1. TakenAsIs(p)' <=> TakenAsIs(p)
    BY <1>1 DEF Aside, Closes, Finish, TakenAsIs, Placed, CleanGaps
  <2>2. (FirstLanded(p)' <=> FirstLanded(p)) /\ (Lost(p)' <=> Lost(p))
    BY <1>1, SameOfPair
  <2> QED
    BY <1>1, <2>1, <2>2, ExactStays DEF Counting, Exact
<1>5. KeptAsHeld'
  BY <1>1 DEF Counting, KeptAsHeld, Aside, Closes, Finish
<1> QED
  BY <1>2, <1>3, <1>4, <1>5 DEF Counting, Exact

LEMMA CountingHeard ==
  ASSUME LossInv, Placed, Counting, [Next]_vars,
         NEW id \in Pairs \cup Others, NEW st \in Statuses, NEW progs \in SUBSET Tokens,
         HeardOf(id, st, progs)
  PROVE  Counting'
<1>0. TypeOK /\ Queueing
  BY DEF LossInv
<1>1. /\ UNCHANGED <<held, written, said>> /\ ~aborted /\ ~aborted'
      /\ stream = "reading" /\ stream' = "reading" /\ n + 1 \in Emissions
  BY DEF HeardOf, Heard
<1>2. \A v \in Writes : v # n + 1 => write'[v] = write[v]
  BY <1>0 DEF HeardOf, Heard, TypeOK
<1>3. write'[n + 1].st \in {"waiting", "kept", "ignored"} /\ n + 1 \in Writes
  BY <1>0 DEF HeardOf, Heard, TypeOK, Entry, Writes
<1>4. write[n + 1].st = "none"
  BY <1>0, <1>1 DEF Queueing, Unheard, TypeOK, Emissions
<1>5. Answered' /\ Claimed'
  BY <1>1, <1>2, <1>3, <1>4 DEF Counting, Answered, Claimed, Told, Outcomes
<1>6. AllTold' /\ KeptAsHeld'
  BY <1>1 DEF Counting, AllTold, KeptAsHeld
<1>7. ASSUME NEW p \in Pairs PROVE ExactOf(p)'
  <2>1. TakenAsIs(p)' <=> TakenAsIs(p)
    BY <1>1 DEF TakenAsIs
  <2>2. (FirstLanded(p)' <=> FirstLanded(p)) /\ (Lost(p)' <=> Lost(p))
    BY <1>1, <1>2, <1>3, <1>4, SameOfPair
  <2> QED
    BY <1>1, <2>1, <2>2, ExactStays DEF Counting, Exact
<1> QED
  BY <1>5, <1>6, <1>7 DEF Counting, Exact

LEMMA CountingKept ==
  ASSUME LossInv, Placed, Counting, [Next]_vars, KeepAll \/ FailRest
  PROVE  Counting'
<1>0. TypeOK
  BY DEF LossInv
<1>1. /\ UNCHANGED <<failure, owed, keeping, held, write, written>> /\ (aborted' <=> aborted)
      /\ stream = "draining" /\ stream' = "done" /\ failure # "none" /\ Settled
  BY DEF KeepAll, FailRest
<1>2. owed \subseteq Pairs /\ keeping \subseteq Pairs /\ owed \cap keeping = {}
  BY <1>0 DEF TypeOK, Placed, KeptApart
<1>3. said \in [Pairs -> Counters] /\ said' \in [Pairs -> Counters]
  BY <1>0, TypeNext DEF TypeOK, Counters
<1>4. ASSUME NEW p \in Pairs
      PROVE  /\ said'[p].fetched = said[p].fetched
             /\ p \in keeping \cup owed
                  => said'[p].failed + said'[p].unchanged = said[p].failed + said[p].unchanged + 1
             /\ p \notin keeping \cup owed => said'[p] = said[p]
             /\ said'[p].unchanged > said[p].unchanged
                  => p \in held /\ (p \in keeping \/ (p \in owed /\ failure = "unchanged"))
  <2>0. said[p] \in Counters
    BY <1>3
  <2>1. CASE KeepAll
    <3>1. said' = Keep(said, keeping \cup owed) /\ failure = "unchanged"
      BY <2>1 DEF KeepAll
    <3>2. p \notin keeping \cup owed => said'[p] = said[p]
      BY <3>1 DEF Keep
    <3>3. /\ said'[p].fetched = said[p].fetched
          /\ said'[p].failed = IF p \in keeping \cup owed /\ p \notin held
                               THEN said[p].failed + 1 ELSE said[p].failed
          /\ said'[p].unchanged = IF p \in keeping \cup owed /\ p \in held
                                  THEN said[p].unchanged + 1 ELSE said[p].unchanged
      BY <1>3, <3>1, KeepCounts DEF Counters
    <3> QED
      BY <2>0, <3>1, <3>2, <3>3 DEF Counters
  <2>2. CASE FailRest
    <3>1. PICK counts : counts = Count("failed", owed) /\ said' = Keep(counts, keeping)
      BY <2>2 DEF FailRest
    <3>2. counts \in [Pairs -> Counters] /\ counts[p] \in Counters
      BY <1>0, <3>1, CountType DEF Counters
    <3>3. /\ counts[p].fetched = said[p].fetched /\ counts[p].unchanged = said[p].unchanged
          /\ counts[p].failed = IF p \in owed THEN said[p].failed + 1 ELSE said[p].failed
      BY <1>0, <3>1, StreamCounts
    <3>4. /\ said'[p].fetched = counts[p].fetched
          /\ said'[p].failed = IF p \in keeping /\ p \notin held
                               THEN counts[p].failed + 1 ELSE counts[p].failed
          /\ said'[p].unchanged = IF p \in keeping /\ p \in held
                                  THEN counts[p].unchanged + 1 ELSE counts[p].unchanged
      BY <3>1, <3>2, KeepCounts DEF Counters
    <3>5. p \notin keeping \cup owed => said'[p] = said[p]
      BY <3>1 DEF Keep, Count
    <3> QED
      BY <1>2, <2>0, <3>2, <3>3, <3>4, <3>5 DEF Counters
  <2> QED
    BY <2>1, <2>2
<1>5. \A p \in Pairs : Told(p) => Told(p)'
  BY <1>0, ToldStays
<1>6. Answered'
  <2>1. \A w \in Writes : write[w].st \in Open \cup {"landed", "lost"} => write[w].id \in Pairs
    BY <1>0 DEF TypeOK, InState
  <2> QED
    BY <1>1, <1>5, <2>1 DEF Counting, Answered
<1>7. Claimed'
  BY <1>0, <1>1, <1>5 DEF Counting, Claimed, TypeOK
<1>8. AllTold'
  <2> SUFFICES ASSUME NEW p \in Pairs PROVE Told(p)'
    BY <1>1 DEF AllTold
  <2>1. CASE p \in owed \cup keeping
    <3>1. said[p] \in Counters /\ said'[p] \in Counters
      BY <1>3
    <3> QED
      BY <1>4, <2>1, <3>1 DEF Told, Outcomes, Counters
  <2>2. CASE p \notin owed \cup keeping
    BY <1>1, <1>5, <2>2, MentionedTold
  <2> QED
    BY <2>1, <2>2
<1>9. ASSUME NEW p \in Pairs PROVE ExactOf(p)'
  <2>1. (FirstLanded(p)' <=> FirstLanded(p)) /\ (Lost(p)' <=> Lost(p))
    BY <1>1, SameOfPair
  <2>2. ~TakenAsIs(p)
    BY <1>1 DEF TakenAsIs
  <2>3. TakenAsIs(p)' <=> p \in keeping \cup owed
    BY <1>1 DEF TakenAsIs
  <2>4. said[p] \in Counters
    BY <1>3
  <2>5. ExactOf(p)
    BY DEF Counting, Exact
  <2>6. CASE p \in keeping \cup owed
    BY <1>1, <1>4, <2>1, <2>2, <2>3, <2>4, <2>5, <2>6, ExactTaken
  <2>7. CASE p \notin keeping \cup owed
    BY <1>1, <1>4, <2>1, <2>2, <2>3, <2>5, <2>7, ExactStays
  <2> QED
    BY <2>6, <2>7
<1>10. KeptAsHeld'
  <2> SUFFICES ASSUME NEW p \in Pairs, said'[p].unchanged > 0
               PROVE  p \in held /\ (p \in keeping \/ (p \in owed /\ failure = "unchanged"))
    BY <1>1 DEF KeptAsHeld
  <2>1. said[p] \in Counters /\ said'[p] \in Counters
    BY <1>3
  <2>2. said[p].unchanged = 0
    <3>1. said[p].unchanged > 0 => stream \in {"filling", "done"}
      BY DEF Counting, KeptAsHeld
    <3> QED
      BY <1>1, <2>1, <3>1 DEF Counters
  <2> QED
    BY <1>4, <2>2
<1> QED
  BY <1>6, <1>7, <1>8, <1>9, <1>10 DEF Counting, Exact

LEMMA CountingFilled ==
  ASSUME LossInv, Placed, Counting, [Next]_vars, FillGaps
  PROVE  Counting'
<1>0. TypeOK /\ Queueing
  BY DEF LossInv
<1>1. /\ UNCHANGED <<failure, owed, keeping, held, written>> /\ (aborted' <=> aborted)
      /\ stream = "draining" /\ stream' = "filling" /\ failure = "none" /\ Settled
  BY DEF FillGaps
<1>2. owed \subseteq Pairs /\ keeping \subseteq Pairs /\ owed \cap keeping = {} /\ Pairs \subseteq Writes
  BY <1>0 DEF TypeOK, Placed, KeptApart, Writes
<1>3. said \in [Pairs -> Counters] /\ said' \in [Pairs -> Counters]
  BY <1>0, TypeNext DEF TypeOK, Counters
<1>4. /\ \A v \in Writes : v \notin owed => write'[v] = write[v]
      /\ \A v \in owed : write'[v].id = v
      /\ \A v \in owed : write'[v].st = IF aborted THEN "lost" ELSE "waiting"
      /\ \A v \in owed : write[v].st = "none"
  <2>1. \A v \in owed : write[v].st = "none"
    BY <1>0, <1>1, <1>2 DEF Queueing, GapOwed
  <2>2. \A v \in Writes : v \notin owed => write'[v] = write[v]
    BY DEF FillGaps
  <2>3. ASSUME NEW v \in owed
        PROVE  write'[v].id = v /\ write'[v].st = IF aborted THEN "lost" ELSE "waiting"
    <3>1. write'[v] = Entry(IF aborted THEN "lost" ELSE "waiting", v, {})
      BY <1>2 DEF FillGaps
    <3> QED
      BY <3>1 DEF Entry
  <2> QED
    BY <2>1, <2>2, <2>3
<1>5. PICK counts :
        /\ counts = (IF aborted THEN Count("failed", owed) ELSE said) /\ said' = Keep(counts, keeping)
  BY DEF FillGaps
<1>6. counts \in [Pairs -> Counters]
  BY <1>0, <1>3, <1>5, CountType DEF Counters
<1>7. ASSUME NEW p \in Pairs
      PROVE  /\ said'[p].fetched = counts[p].fetched
             /\ p \in keeping => said'[p].failed + said'[p].unchanged = counts[p].failed + counts[p].unchanged + 1
             /\ p \notin keeping => said'[p] = counts[p]
             /\ said'[p].unchanged > counts[p].unchanged => p \in held /\ p \in keeping
             /\ counts[p].unchanged = said[p].unchanged
             /\ p \in owed /\ aborted => counts[p].failed = said[p].failed + 1
  <2>1. /\ said'[p].fetched = counts[p].fetched
        /\ said'[p].failed = IF p \in keeping /\ p \notin held
                             THEN counts[p].failed + 1 ELSE counts[p].failed
        /\ said'[p].unchanged = IF p \in keeping /\ p \in held
                                THEN counts[p].unchanged + 1 ELSE counts[p].unchanged
    BY <1>5, <1>6, KeepCounts DEF Counters
  <2>2. p \notin keeping => said'[p] = counts[p]
    BY <1>5 DEF Keep
  <2>3. counts[p] \in Counters
    BY <1>6
  <2>4. counts[p].unchanged = said[p].unchanged
    BY <1>0, <1>5, StreamCounts
  <2>5. p \in owed /\ aborted => counts[p].failed = said[p].failed + 1
    BY <1>0, <1>5, StreamCounts
  <2>6. /\ p \in keeping => said'[p].failed + said'[p].unchanged = counts[p].failed + counts[p].unchanged + 1
        /\ said'[p].unchanged > counts[p].unchanged => p \in held /\ p \in keeping
    BY <2>1, <2>3 DEF Counters
  <2> QED
    BY <2>1, <2>2, <2>4, <2>5, <2>6
<1>8. \A p \in Pairs : Told(p) => Told(p)'
  BY <1>0, ToldStays
<1>9. Answered'
  <2> SUFFICES ASSUME NEW w \in Writes, NEW p, p = write'[w].id,
                      write'[w].st \in {"landed", "lost"} \/ (aborted /\ write'[w].st \in Open)
               PROVE  Told(p)'
    BY <1>1 DEF Answered, Told, Outcomes
  <2>1. CASE w \in owed
    <3>1. aborted
      BY <1>4, <2>1
    <3>2. said'[w] = counts[w] /\ counts[w].failed = said[w].failed + 1 /\ w \in Pairs
      BY <1>2, <1>7, <2>1, <3>1
    <3>3. said[w] \in Counters /\ said'[w] \in Counters
      BY <1>3, <3>2
    <3>4. Told(w)'
      BY <3>2, <3>3 DEF Told, Outcomes, Counters
    <3> QED
      BY <1>4, <2>1, <3>4
  <2>2. CASE w \notin owed
    <3>1. Told(write[w].id)
      BY <1>4, <2>2 DEF Counting, Answered
    <3>2. write[w].id \in Pairs
      BY <1>0, <1>4, <2>2 DEF TypeOK, InState
    <3> QED
      BY <1>4, <1>8, <2>2, <3>1, <3>2
  <2> QED
    BY <2>1, <2>2
<1>10. Claimed'
  <2> SUFFICES ASSUME NEW p \in written
               PROVE  Told(p)' \/ \E w \in Writes : write'[w].id = p /\ write'[w].st = "writing"
    BY <1>1 DEF Claimed
  <2>1. CASE Told(p)
    BY <1>0, <1>8, <2>1 DEF TypeOK
  <2>2. CASE \E w \in Writes : write[w].id = p /\ write[w].st = "writing"
    BY <1>4, <2>2
  <2> QED
    BY <2>1, <2>2 DEF Counting, Claimed
<1>11. AllTold'
  <2> SUFFICES ASSUME NEW p \in keeping PROVE Told(p)'
    BY <1>1 DEF AllTold
  <2>1. said'[p] \in Counters /\ counts[p] \in Counters /\ p \in Pairs
    BY <1>2, <1>3, <1>6
  <2> QED
    BY <1>7, <2>1 DEF Told, Outcomes, Counters
<1>12. ASSUME NEW p \in Pairs PROVE ExactOf(p)'
  <2>1. CASE aborted
    BY <1>1, <2>1 DEF ExactOf
  <2>2. CASE ~aborted
    <3>1. (FirstLanded(p)' <=> FirstLanded(p)) /\ (Lost(p)' <=> Lost(p))
      BY <1>1, <1>4, <2>2, SameOfPair
    <3>2. ~TakenAsIs(p)
      BY <1>1 DEF TakenAsIs
    <3>3. TakenAsIs(p)' <=> p \in keeping
      BY <1>1 DEF TakenAsIs
    <3>4. said[p] \in Counters /\ counts = said
      BY <1>3, <1>5, <2>2
    <3>5. ExactOf(p)
      BY DEF Counting, Exact
    <3>6. CASE p \in keeping
      BY <1>1, <1>7, <3>1, <3>2, <3>3, <3>4, <3>5, <3>6, ExactTaken
    <3>7. CASE p \notin keeping
      BY <1>1, <1>7, <3>1, <3>2, <3>3, <3>4, <3>5, <3>7, ExactStays
    <3> QED
      BY <3>6, <3>7
  <2> QED
    BY <2>1, <2>2
<1>13. KeptAsHeld'
  <2> SUFFICES ASSUME NEW p \in Pairs, said'[p].unchanged > 0 PROVE p \in held /\ p \in keeping
    BY <1>1 DEF KeptAsHeld
  <2>1. said[p] \in Counters
    BY <1>3
  <2>2. said[p].unchanged = 0
    <3>1. said[p].unchanged > 0 => stream \in {"filling", "done"}
      BY DEF Counting, KeptAsHeld
    <3> QED
      BY <1>1, <2>1, <3>1 DEF Counters
  <2> QED
    BY <1>7, <2>2
<1> QED
  BY <1>9, <1>10, <1>11, <1>12, <1>13 DEF Counting, Exact

LEMMA CountingAbort ==
  ASSUME LossInv, Counting, [Next]_vars, Abort
  PROVE  Counting'
<1>0. TypeOK
  BY DEF LossInv
<1>1. UNCHANGED <<stream, failure, owed, keeping, held, written>> /\ aborted' = TRUE
  BY <1>0, AbortDrops DEF Abort
<1>2. \A v \in Writes : /\ write'[v].id = write[v].id
                       /\ write'[v].st = IF write[v].st = "waiting" THEN "lost" ELSE write[v].st
  BY <1>0, AbortDrops
<1>3. \A p \in Pairs : Told(p) => Told(p)'
  BY <1>0, ToldStays
<1>4. \A w \in Writes : write[w].st \in Open \cup {"landed", "lost"} => write[w].id \in Pairs
  BY <1>0 DEF TypeOK, InState
<1>5. ASSUME NEW p \in Pairs, NEW w \in Writes, write[w].id = p, write[w].st \in Open
      PROVE  Told(p)'
  <2>1. said' \in [Pairs -> Counters]
    BY <1>0, TypeNext DEF TypeOK, Counters
  <2>2. said'[p] \in Counters
    BY <2>1
  <2>3. said'[p].failed > 0
    BY <1>0, <1>5, AbortCounts
  <2> QED
    BY <2>2, <2>3 DEF Told, Outcomes, Counters
<1>6. Answered'
  <2> SUFFICES ASSUME NEW w \in Writes, NEW p, p = write'[w].id,
                      write'[w].st \in Open \cup {"landed", "lost"}
               PROVE  Told(p)'
    BY DEF Answered, Told, Outcomes
  <2>1. p = write[w].id
    BY <1>2
  <2>2. CASE write[w].st \in Open
    BY <1>4, <1>5, <2>1, <2>2
  <2>3. CASE write[w].st \notin Open
    <3>1. write[w].st \in {"landed", "lost"}
      BY <1>2, <2>3 DEF Open
    <3> QED
      BY <1>3, <1>4, <2>1, <3>1 DEF Counting, Answered
  <2> QED
    BY <2>2, <2>3
<1>7. Claimed'
  <2> SUFFICES ASSUME NEW p \in written
               PROVE  Told(p)' \/ \E w \in Writes : write'[w].id = p /\ write'[w].st = "writing"
    BY <1>1 DEF Claimed
  <2>1. CASE Told(p)
    BY <1>0, <1>3, <2>1 DEF TypeOK
  <2>2. CASE \E w \in Writes : write[w].id = p /\ write[w].st = "writing"
    BY <1>2, <2>2
  <2> QED
    BY <2>1, <2>2 DEF Counting, Claimed
<1>8. AllTold'
  BY <1>0, <1>1, <1>3 DEF Counting, AllTold, TypeOK
<1>9. Exact'
  BY <1>1 DEF Exact, ExactOf
<1>10. KeptAsHeld'
  BY <1>0, <1>1, AbortCounts DEF Counting, KeptAsHeld
<1> QED
  BY <1>6, <1>7, <1>8, <1>9, <1>10 DEF Counting

(* A write that ends is told of, and no other is told of by mistake.       *)
LEMMA CountingWorks ==
  ASSUME LossInv, Placed, Counting, [Next]_vars, NEW w \in Writes, Works(w)
  PROVE  Counting'
<1>0. TypeOK /\ Lossless
  BY DEF LossInv
<1>1. UNCHANGED <<stream, failure, owed, keeping, held>> /\ (aborted' <=> aborted)
  BY <1>0, WorksAside
<1>2. /\ write[w].st \in Open /\ write[w].id \in Pairs
      /\ \A v \in Writes : write'[v].id = write[v].id /\ (v # w => write'[v] = write[v])
      /\ write'[w].st \in (Started \cup {"landed", "lost"}) \ {write[w].st}
  BY <1>0, OneMoves
<1>3. \A p \in Pairs : Told(p) => Told(p)'
  BY <1>0, ToldStays
<1>4. written \subseteq Pairs /\ \A v \in Writes : write[v].st \in {"landed", "lost"} \cup Open => write[v].id \in Pairs
  BY <1>0 DEF TypeOK, InState
<1>5. said \in [Pairs -> Counters] /\ said' \in [Pairs -> Counters]
  BY <1>0, TypeNext DEF TypeOK, Counters
<1>6. PICK p \in Pairs : p = write[w].id
  BY <1>2
<1>7. ASSUME Told(p)' \/ (write'[w].st \notin {"landed", "lost"} /\ ~aborted)
      PROVE  Answered'
  <2> SUFFICES ASSUME NEW v \in Writes, NEW q, q = write'[v].id,
                      write'[v].st \in {"landed", "lost"} \/ (aborted /\ write'[v].st \in Open)
               PROVE  Told(q)'
    BY <1>1 DEF Answered, Told, Outcomes
  <2>1. CASE v = w
    BY <1>2, <1>6, <1>7, <2>1
  <2>2. CASE v # w
    BY <1>2, <1>3, <1>4, <2>2 DEF Counting, Answered
  <2> QED
    BY <2>1, <2>2
<1>8. aborted => Told(p)
  BY <1>2, <1>6 DEF Counting, Answered
<1>9. ASSUME written' = written, write[w].st # "writing" \/ Told(p)'
      PROVE  Claimed'
  <2> SUFFICES ASSUME NEW q \in written
               PROVE  Told(q)' \/ \E v \in Writes : write'[v].id = q /\ write'[v].st = "writing"
    BY <1>9 DEF Claimed
  <2>1. CASE Told(q)
    BY <1>3, <1>4, <2>1
  <2>2. ASSUME NEW v \in Writes, write[v].id = q, write[v].st = "writing"
        PROVE  Told(q)' \/ \E u \in Writes : write'[u].id = q /\ write'[u].st = "writing"
    <3>1. CASE v = w
      BY <1>6, <1>9, <2>2, <3>1
    <3>2. CASE v # w
      BY <1>2, <2>2, <3>2
    <3> QED
      BY <3>1, <3>2
  <2> QED
    BY <2>1, <2>2 DEF Counting, Claimed
<1>10. AllTold'
  BY <1>0, <1>1, <1>3 DEF Counting, AllTold, TypeOK
<1>11. \A q : TakenAsIs(q)' <=> TakenAsIs(q)
  BY <1>1 DEF TakenAsIs
<1>12. ASSUME NEW q \in Pairs, q # p, said'[q] = said[q], \/ written' = written
                                                         \/ written' = written \cup {p}
       PROVE  ExactOf(q)'
  <2>1. Lost(q) => Lost(q)'
    BY <1>2, <1>6, <1>12 DEF Lost
  <2>2. FirstLanded(q)' <=> FirstLanded(q)
    BY <1>2, <1>6, <1>12 DEF FirstLanded
  <2>3. ExactOf(q)
    BY DEF Counting, Exact
  <2> QED
    BY <1>1, <1>11, <1>12, <2>1, <2>2, <2>3, ExactStays
<1>13. ASSUME \A q \in Pairs : said'[q].unchanged = said[q].unchanged
       PROVE  KeptAsHeld'
  BY <1>1, <1>13 DEF Counting, KeptAsHeld
<1>14. CASE StartWrite(w) \/ ChainedTurn(w)
  <2>1. said' = said /\ write[w].st \in {"waiting", "chained"}
    BY <1>14 DEF StartWrite, ChainedTurn
  <2>2. \/ written' = written /\ write'[w].st \in {"chained", "reading"}
        \/ /\ p \notin written /\ written' = written \cup {p}
           /\ write'[w].st = "writing"
    <3>1. CASE Prior(w) = {}
      <4>1. /\ write' = [write EXCEPT ![w].st = IF p \in written THEN "reading" ELSE "writing"]
            /\ written' = written \cup {p}
        BY <1>6, <1>14, <3>1 DEF StartWrite, ChainedTurn, EnterWrite
      <4>2. write'[w].st = IF p \in written THEN "reading" ELSE "writing"
        BY <1>0, <4>1 DEF TypeOK
      <4>3. p \in written => written' = written
        BY <4>1
      <4> QED
        BY <4>1, <4>2, <4>3
    <3>2. CASE Prior(w) # {}
      <4>1. write' = [write EXCEPT ![w].st = "chained"] /\ written' = written
        BY <1>14, <3>2 DEF StartWrite, ChainedTurn
      <4> QED
        BY <1>0, <4>1 DEF TypeOK
    <3> QED
      BY <3>1, <3>2
  <2>3. Answered'
    BY <1>3, <1>6, <1>7, <1>8, <2>2
  <2>4. Claimed'
    <3>1. CASE written' = written
      BY <1>9, <2>1, <3>1
    <3>2. CASE written' = written \cup {p} /\ write'[w].st = "writing"
      <4> SUFFICES ASSUME NEW q \in written \cup {p}
                   PROVE  Told(q)' \/ \E v \in Writes : write'[v].id = q /\ write'[v].st = "writing"
        BY <3>2 DEF Claimed
      <4>1. CASE q = p
        BY <1>2, <1>6, <3>2, <4>1
      <4>2. CASE q # p
        BY <1>2, <1>3, <1>4, <1>6, <4>2 DEF Counting, Claimed
      <4> QED
        BY <4>1, <4>2
    <3> QED
      BY <2>2, <3>1, <3>2
  <2>5. ExactOf(p)'
    <3>1. Lost(p) => Lost(p)'
      BY <1>2, <2>1 DEF Lost
    <3>2. FirstLanded(p)' <=> FirstLanded(p)
      <4>1. CASE written' = written /\ write'[w].st \in {"chained", "reading"}
        BY <1>2, <2>1, <4>1 DEF FirstLanded
      <4>2. CASE p \notin written /\ write'[w].st = "writing"
        BY <1>2, <1>6, <4>2 DEF FirstLanded
      <4> QED
        BY <2>2, <4>1, <4>2
    <3> QED
      BY <1>1, <1>11, <2>1, <3>1, <3>2, ExactStays DEF Counting, Exact
  <2>6. \A q \in Pairs : ExactOf(q)'
    BY <1>12, <2>1, <2>2, <2>5
  <2> QED
    BY <1>10, <1>13, <2>1, <2>3, <2>4, <2>6 DEF Counting, Exact
<1>15. CASE ReadBack(w)
  <2>1. /\ said' = said /\ written' = written /\ write[w].st = "reading"
        /\ write'[w].st = "appending"
    BY <1>0, <1>15 DEF ReadBack, store, TypeOK, Record
  <2>2. Answered'
    BY <1>3, <1>6, <1>7, <1>8, <2>1
  <2>3. Claimed'
    BY <1>9, <2>1
  <2>4. ExactOf(p)'
    <3>1. FirstLanded(p)' <=> FirstLanded(p)
      BY <1>2, <2>1 DEF FirstLanded
    <3>2. Lost(p) => Lost(p)'
      BY <1>2, <2>1 DEF Lost
    <3> QED
      BY <1>1, <1>11, <2>1, <3>1, <3>2, ExactStays DEF Counting, Exact
  <2>5. \A q \in Pairs : ExactOf(q)'
    BY <1>12, <2>1, <2>4
  <2> QED
    BY <1>10, <1>13, <2>1, <2>2, <2>3, <2>5 DEF Counting, Exact
<1>16. CASE FirstLands(w)
  <2>1. /\ said' = Count("fetched", {p}) /\ written' = written /\ write[w].st = "writing"
        /\ write'[w].st = "landed"
    BY <1>0, <1>6, <1>16 DEF FirstLands, TypeOK, Record
  <2>2. /\ said'[p].fetched = said[p].fetched + 1
        /\ said'[p].failed = said[p].failed /\ said'[p].unchanged = said[p].unchanged
        /\ \A q \in Pairs : said'[q].unchanged = said[q].unchanged
        /\ \A q \in Pairs : q # p => said'[q] = said[q]
    BY <1>0, <2>1, StreamCounts DEF Count
  <2>3. said[p] \in Counters /\ said'[p] \in Counters
    BY <1>5
  <2>4. Told(p)'
    BY <2>2, <2>3 DEF Told, Outcomes, Counters
  <2>5. ExactOf(p)'
    <3>1. ~FirstLanded(p)
      BY <1>6, <2>1 DEF FirstLanded
    <3>2. FirstLanded(p)'
      <4>1. p \in written
        BY <1>0, <1>6, <2>1 DEF Lossless, Claims, Begun, Active
      <4>2. \A v \in Writes : v # w /\ write[v].id = p => write[v].st # "writing"
        BY <1>0, <1>6, <2>1 DEF Lossless, FirstAlone, Begun, Active
      <4> QED
        BY <1>2, <2>1, <4>1, <4>2 DEF FirstLanded
    <3>3. Lost(p) => Lost(p)'
      BY <1>2, <2>1 DEF Lost
    <3>4. ExactOf(p)
      BY DEF Counting, Exact
    <3> QED
      BY <1>1, <1>11, <2>2, <2>3, <3>1, <3>2, <3>3, <3>4 DEF ExactOf, Counters
  <2>6. \A q \in Pairs : ExactOf(q)'
    BY <1>12, <2>1, <2>2, <2>5
  <2> QED
    BY <1>7, <1>9, <1>10, <1>13, <2>1, <2>2, <2>4, <2>6 DEF Counting, Exact
<1>17. CASE AppendLands(w)
  <2>1. /\ said' = said /\ written' = written /\ write[w].st = "appending"
        /\ write'[w].st = "landed"
    BY <1>0, <1>17 DEF AppendLands, TypeOK, Record
  <2>2. Told(p)
    <3>1. p \in written
      BY <1>0, <1>6, <2>1 DEF Lossless, Claims, Begun, Active
    <3>2. \A v \in Writes : write[v].id = p => write[v].st # "writing"
      BY <1>0, <1>6, <2>1 DEF Lossless, FirstAlone, Begun, Active
    <3> QED
      BY <3>1, <3>2 DEF Counting, Claimed
  <2>3. ExactOf(p)'
    <3>1. FirstLanded(p)' <=> FirstLanded(p)
      BY <1>2, <2>1 DEF FirstLanded
    <3>2. Lost(p) => Lost(p)'
      BY <1>2, <2>1 DEF Lost
    <3> QED
      BY <1>1, <1>11, <2>1, <3>1, <3>2, ExactStays DEF Counting, Exact
  <2>4. \A q \in Pairs : ExactOf(q)'
    BY <1>12, <2>1, <2>3
  <2> QED
    BY <1>3, <1>7, <1>9, <1>10, <1>13, <2>1, <2>2, <2>4 DEF Counting, Exact
<1>18. CASE WriteFails(w)
  <2>1. /\ said' = (IF aborted THEN said ELSE Count("failed", {p})) /\ written' = written
        /\ write'[w].st = "lost"
    BY <1>0, <1>6, <1>18 DEF WriteFails, TypeOK, Record
  <2>2. /\ \A q \in Pairs : said'[q].unchanged = said[q].unchanged
        /\ \A q \in Pairs : q # p => said'[q] = said[q]
        /\ ~aborted => said'[p].failed = said[p].failed + 1
    BY <1>0, <2>1, StreamCounts DEF Count
  <2>3. Told(p)'
    <3>1. CASE aborted
      BY <1>3, <1>8, <3>1
    <3>2. CASE ~aborted
      <4>1. said[p] \in Counters /\ said'[p] \in Counters
        BY <1>5
      <4> QED
        BY <2>2, <3>2, <4>1 DEF Told, Outcomes, Counters
    <3> QED
      BY <3>1, <3>2
  <2>4. ExactOf(p)'
    BY <1>2, <1>6, <2>1 DEF ExactOf, Lost
  <2>5. \A q \in Pairs : ExactOf(q)'
    BY <1>12, <2>1, <2>2, <2>4
  <2> QED
    BY <1>7, <1>9, <1>10, <1>13, <2>1, <2>2, <2>3, <2>5 DEF Counting, Exact
<1> QED
  BY <1>14, <1>15, <1>16, <1>17, <1>18 DEF Works

LEMMA CountingNext == LossInv /\ Placed /\ Counting /\ [Next]_vars => Counting'
<1> SUFFICES ASSUME LossInv, Placed, Counting, [Next]_vars PROVE Counting'
  OBVIOUS
<1>1. TypeOK
  BY DEF LossInv
<1> QED
  BY <1>1, CountingSteps, CountingAside, CountingHeard, CountingKept, CountingFilled,
     CountingAbort, CountingWorks

-----------------------------------------------------------------------------
(* How many entries have nothing on.                                       *)
LEMMA BareFinite ==
  IsFiniteSet(Bare) /\ Cardinality(Bare) \in Nat
BY StreamAssumption, FS_Subset, FS_CardinalityType DEF Bare, StreamAssumption

LEMMA BareIs ==
  \A p \in Pairs :
    p \in Bare <=> /\ \E w \in Writes : write[w].st = "landed" /\ write[w].id = p
                   /\ cache[p] = {}
BY DEF Bare, OfPair, InState

LEMMA EmptyingInit == Init => Emptying
<1> SUFFICES ASSUME Init PROVE Emptying
  OBVIOUS
<1>1. \A w \in Writes : write[w].st = "none"
  BY DEF Init, Unused
<1>2. ReadsTrue /\ LandedThere
  BY <1>1 DEF ReadsTrue, LandedThere
<1>3. ClaimSettles
  BY DEF Init, ClaimSettles
<1>4. EmptyCounted
  <2>1. Bare = {}
    BY <1>1, BareIs DEF Bare
  <2> QED
    BY <2>1, FS_EmptySet DEF Init, EmptyCounted
<1>5. EmptyOnlyWhenSaid
  BY DEF Init, EmptyOnlyWhenSaid, NoEntry
<1> QED
  BY <1>2, <1>3, <1>4, <1>5 DEF Emptying

(* Where no entry changes and no write lands, what lies in them is as it   *)
(* was counted.                                                            *)
SameEntries ==
  /\ UNCHANGED <<written, cache, empty>>
  /\ \A w \in Writes : write[w].st = "lost" => write'[w].st = "lost"
  /\ \A w \in Writes : write[w].st \in Begun \/ write'[w].st \in Begun
       => /\ write'[w].id = write[w].id /\ write'[w].st = write[w].st
          /\ write'[w].before = write[w].before
  /\ \A w \in Writes : write[w].st = "lost" => write'[w].id = write[w].id
  /\ failure = "none" /\ stream \in {"filling", "done"}
       => failure' = "none" /\ stream' \in {"filling", "done"}

LEMMA EmptyingSame ==
  ASSUME Emptying, SameEntries
  PROVE  Emptying'
<1>0. "appending" \in Begun /\ "landed" \in Begun /\ "writing" \in Begun
  BY DEF Begun, Active
<1>1. ReadsTrue' /\ LandedThere'
  BY <1>0 DEF Emptying, SameEntries, ReadsTrue, LandedThere
<1>2. ClaimSettles'
  <2> SUFFICES ASSUME NEW p \in written
               PROVE  \E w \in Writes : write'[w].id = p /\ write'[w].st \in {"writing", "landed", "lost"}
    BY DEF SameEntries, ClaimSettles
  <2>1. PICK w \in Writes : write[w].id = p /\ write[w].st \in {"writing", "landed", "lost"}
    BY DEF Emptying, ClaimSettles
  <2> QED
    BY <1>0, <2>1 DEF SameEntries
<1>3. EmptyCounted'
  <2>1. Bare' = Bare
    BY <1>0 DEF SameEntries, Bare, OfPair, InState
  <2>2. InState({"lost"})' = {} => InState({"lost"}) = {}
    BY DEF SameEntries, InState
  <2> QED
    BY <2>1, <2>2 DEF Emptying, EmptyCounted, SameEntries
<1>4. EmptyOnlyWhenSaid'
  BY <1>0 DEF Emptying, EmptyOnlyWhenSaid, SameEntries, Writes
<1> QED
  BY <1>1, <1>2, <1>3, <1>4 DEF Emptying

LEMMA EmptyingNext == LossInv /\ Placed /\ Emptying /\ [Next]_vars => Emptying'
<1> SUFFICES ASSUME LossInv, Placed, Emptying, [Next]_vars PROVE Emptying'
  OBVIOUS
<1>0. TypeOK /\ Queueing /\ Ordered /\ Lossless
  BY DEF LossInv
<1>1. CASE Aside \/ Closes \/ KeepAll \/ FailRest \/ Finish
  <2>1. UNCHANGED <<written, cache, empty, write>>
    BY <1>1 DEF Aside, Closes, KeepAll, FailRest, Finish, store
  <2>2. failure = "none" /\ stream \in {"filling", "done"}
          => failure' = "none" /\ stream' \in {"filling", "done"}
    BY <1>1 DEF Aside, Closes, KeepAll, FailRest, Finish
  <2> QED
    BY <2>1, <2>2, EmptyingSame DEF SameEntries
<1>2. ASSUME NEW id \in Pairs \cup Others, NEW st \in Statuses, NEW progs \in SUBSET Tokens,
             HeardOf(id, st, progs)
      PROVE  Emptying'
  <2>1. UNCHANGED <<written, cache, empty, failure>> /\ stream = "reading" /\ n + 1 \in Emissions
    BY <1>2 DEF HeardOf, Heard
  <2>2. \A v \in Writes : v # n + 1 => write'[v] = write[v]
    BY <1>0, <1>2 DEF HeardOf, Heard, TypeOK
  <2>3. write'[n + 1].st \in {"waiting", "kept", "ignored"}
    BY <1>0, <1>2 DEF HeardOf, Heard, TypeOK, Entry, Writes
  <2>4. write[n + 1].st = "none"
    BY <1>0, <2>1 DEF Queueing, Unheard, TypeOK, Emissions
  <2>5. SameEntries
    BY <2>1, <2>2, <2>3, <2>4 DEF SameEntries, Begun, Active
  <2> QED
    BY <2>5, EmptyingSame
<1>3. CASE FillGaps
  <2>1. UNCHANGED <<written, cache, empty, failure>> /\ stream = "draining"
    BY <1>3 DEF FillGaps
  <2>2. \A v \in Writes : v \notin owed => write'[v] = write[v]
    BY <1>3 DEF FillGaps
  <2>3. \A v \in Writes : v \in owed => write'[v].st \in {"lost", "waiting"}
    BY <1>3 DEF FillGaps, Entry
  <2>4. \A v \in owed : write[v].st = "none"
    BY <1>0, <2>1 DEF Queueing, GapOwed, TypeOK
  <2>5. SameEntries
    BY <2>1, <2>2, <2>3, <2>4 DEF SameEntries, Begun, Active
  <2> QED
    BY <2>5, EmptyingSame
<1>4. CASE Abort
  <2>1. SameEntries
    BY <1>0, <1>4, AbortDrops DEF SameEntries, Begun, Active
  <2> QED
    BY <2>1, EmptyingSame
<1>5. ASSUME NEW w \in Writes, Works(w)
      PROVE  Emptying'
  <2>1. /\ write[w].st \in Open /\ write[w].id \in Pairs
        /\ \A v \in Writes : write'[v].id = write[v].id /\ (v # w => write'[v] = write[v])
    BY <1>0, <1>5, OneMoves
  <2>2. UNCHANGED <<stream, failure>>
    BY <1>0, <1>5, WorksAside
  <2>3. PICK p \in Pairs : p = write[w].id
    BY <2>1
  <2>4. CASE StartWrite(w) \/ ChainedTurn(w)
    <3>1. UNCHANGED <<cache, empty>> /\ write[w].st \in {"waiting", "chained"}
      BY <2>4 DEF StartWrite, ChainedTurn
    <3>2. \/ written' = written /\ write'[w].st \in {"chained", "reading"}
          \/ written' = written \cup {p} /\ write'[w].st = "writing"
      <4>1. CASE Prior(w) = {}
        <5>1. /\ write' = [write EXCEPT ![w].st = IF p \in written THEN "reading" ELSE "writing"]
              /\ written' = written \cup {p}
          BY <2>3, <2>4, <4>1 DEF StartWrite, ChainedTurn, EnterWrite
        <5>2. write'[w].st = IF p \in written THEN "reading" ELSE "writing"
          BY <1>0, <5>1 DEF TypeOK
        <5>3. p \in written => written' = written
          BY <5>1
        <5> QED
          BY <5>1, <5>2, <5>3
      <4>2. CASE Prior(w) # {}
        <5>1. write' = [write EXCEPT ![w].st = "chained"] /\ written' = written
          BY <2>4, <4>2 DEF StartWrite, ChainedTurn
        <5> QED
          BY <1>0, <5>1 DEF TypeOK
      <4> QED
        BY <4>1, <4>2
    <3>3. ReadsTrue' /\ LandedThere'
      BY <2>1, <3>1, <3>2 DEF Emptying, ReadsTrue, LandedThere
    <3>4. ClaimSettles'
      <4> SUFFICES ASSUME NEW q \in written'
                   PROVE  \E v \in Writes : write'[v].id = q /\ write'[v].st \in {"writing", "landed", "lost"}
        BY DEF ClaimSettles
      <4>1. CASE q \in written
        BY <2>1, <3>1, <4>1 DEF Emptying, ClaimSettles
      <4>2. CASE q \notin written
        BY <2>1, <2>3, <3>2, <4>2
      <4> QED
        BY <4>1, <4>2
    <3>5. EmptyCounted'
      <4>1. Bare' = Bare
        BY <2>1, <3>1, <3>2 DEF Bare, OfPair, InState
      <4>2. InState({"lost"})' = {} => InState({"lost"}) = {}
        BY <2>1, <3>1 DEF InState
      <4> QED
        BY <3>1, <4>1, <4>2 DEF Emptying, EmptyCounted
    <3>6. EmptyOnlyWhenSaid'
      BY <2>1, <2>2, <3>1 DEF Emptying, EmptyOnlyWhenSaid, Writes
    <3> QED
      BY <3>3, <3>4, <3>5, <3>6 DEF Emptying
  <2>5. CASE ReadBack(w)
    <3>1. /\ UNCHANGED <<written, cache, empty>> /\ write[w].st = "reading" /\ write'[w].st = "appending"
          /\ write'[w].before = IF cache[write[w].id] = NoEntry THEN {} ELSE cache[write[w].id]
      BY <1>0, <2>5 DEF ReadBack, store, TypeOK, Record
    <3>2. ReadsTrue' /\ LandedThere'
      BY <2>1, <3>1 DEF Emptying, ReadsTrue, LandedThere
    <3>3. ClaimSettles'
      BY <2>1, <3>1 DEF Emptying, ClaimSettles
    <3>4. EmptyCounted'
      <4>1. Bare' = Bare
        BY <2>1, <3>1 DEF Bare, OfPair, InState
      <4>2. InState({"lost"})' = {} => InState({"lost"}) = {}
        BY <2>1, <3>1 DEF InState
      <4> QED
        BY <3>1, <4>1, <4>2 DEF Emptying, EmptyCounted
    <3>5. EmptyOnlyWhenSaid'
      BY <2>1, <2>2, <3>1 DEF Emptying, EmptyOnlyWhenSaid, Writes
    <3> QED
      BY <3>2, <3>3, <3>4, <3>5 DEF Emptying
  <2>6. CASE WriteFails(w)
    <3>1. UNCHANGED <<written, cache, empty>> /\ write'[w].st = "lost" /\ write[w].st \in Active
      BY <1>0, <2>6 DEF WriteFails, TypeOK, Record
    <3>2. ReadsTrue' /\ LandedThere'
      BY <2>1, <3>1 DEF Emptying, ReadsTrue, LandedThere
    <3>3. ClaimSettles'
      BY <2>1, <3>1 DEF Emptying, ClaimSettles
    <3>4. EmptyCounted'
      <4>1. w \in InState({"lost"})'
        BY <3>1 DEF InState
      <4> QED
        BY <4>1 DEF EmptyCounted
    <3>5. EmptyOnlyWhenSaid'
      BY <2>1, <2>2, <3>1 DEF Emptying, EmptyOnlyWhenSaid, Writes, Active
    <3> QED
      BY <3>2, <3>3, <3>4, <3>5 DEF Emptying
  <2>7. ASSUME NEW together \in SUBSET Tokens, write[w].st \in {"writing", "appending"},
               cache' = [cache EXCEPT ![p] = together], write'[w].st = "landed", written' = written,
               InState({"lost"}) = {} => empty' = Cardinality(Bare')
        PROVE  Emptying'
    <3>1. cache'[p] = together /\ \A q \in Pairs : q # p => cache'[q] = cache[q]
      BY <1>0, <2>7 DEF TypeOK
    <3>2. together # NoEntry
      <4>1. -1 \notin Tokens
        BY StreamAssumption DEF Tokens, StreamAssumption
      <4> QED
        BY <4>1 DEF NoEntry
    <3>3. \A v \in Writes : v # w /\ write[v].id = p => write[v].st \notin Active
      BY <1>0, <2>3, <2>7, OneAtATime DEF Active
    <3>4. \A v \in Writes : write[v].st \in {"landed", "appending"} => write[v].id \in Pairs
      BY <1>0 DEF TypeOK, InState, Open, Started, Active
    <3>5. ReadsTrue'
      BY <2>1, <2>3, <2>7, <3>1, <3>3, <3>4 DEF Emptying, ReadsTrue, Active
    <3>6. LandedThere'
      BY <2>1, <2>3, <2>7, <3>1, <3>2, <3>4 DEF Emptying, LandedThere
    <3>7. ClaimSettles'
      BY <2>1, <2>7 DEF Emptying, ClaimSettles
    <3>8. EmptyCounted'
      <4>1. InState({"lost"})' = {} => InState({"lost"}) = {}
        BY <2>1, <2>7 DEF InState
      <4> QED
        BY <2>7, <4>1 DEF EmptyCounted
    <3>9. EmptyOnlyWhenSaid'
      <4> SUFFICES ASSUME NEW q \in Pairs, cache'[q] = {}
                   PROVE  \/ \E k \in Emissions : write'[k].id = q /\ write'[k].st = "landed"
                          \/ failure = "none" /\ stream \in {"filling", "done"}
        BY <2>2 DEF EmptyOnlyWhenSaid
      <4>1. CASE q = p /\ w \in Emissions
        BY <2>1, <2>3, <2>7, <4>1
      <4>2. CASE q = p /\ w \notin Emissions
        <5>1. w \in Pairs /\ write[w].st # "none"
          BY <2>7, <4>2 DEF Writes
        <5> QED
          BY <1>0, <5>1 DEF Queueing, GapOwed, Placed, CleanGaps
      <4>3. CASE q # p
        BY <2>1, <2>2, <2>3, <2>7, <3>1, <4>3 DEF Emptying, EmptyOnlyWhenSaid, Writes
      <4> QED
        BY <4>1, <4>2, <4>3
    <3> QED
      BY <3>5, <3>6, <3>7, <3>8, <3>9 DEF Emptying
  <2>8. CASE FirstLands(w)
    <3>1. /\ write[w].st = "writing" /\ write'[w].st = "landed" /\ written' = written
          /\ cache' = [cache EXCEPT ![p] = write[w].progs]
          /\ empty' = IF write[w].progs = {} THEN empty + 1 ELSE empty
      BY <1>0, <2>3, <2>8 DEF FirstLands, TypeOK, Record
    <3>2. write[w].progs \in SUBSET Tokens
      BY <1>0 DEF TypeOK, Record
    <3>3. p \notin Bare
      BY <1>0, <2>3, <3>1, BareIs DEF Lossless, FirstAlone, Begun
    <3>4. cache'[p] = write[w].progs /\ \A q \in Pairs : q # p => cache'[q] = cache[q]
      BY <1>0, <3>1 DEF TypeOK
    <3>5. Bare' = IF write[w].progs = {} THEN Bare \cup {p} ELSE Bare
      <4>1. \A q \in Pairs : q # p => (q \in Bare' <=> q \in Bare)
        BY <2>1, <2>3, <3>1, <3>4 DEF Bare, OfPair, InState
      <4>2. p \in Bare' <=> write[w].progs = {}
        BY <2>1, <2>3, <3>1, <3>4 DEF Bare, OfPair, InState
      <4>3. Bare \subseteq Pairs /\ Bare' \subseteq Pairs
        BY DEF Bare
      <4> QED
        BY <3>3, <4>1, <4>2, <4>3
    <3>6. InState({"lost"}) = {} => empty' = Cardinality(Bare')
      BY <3>1, <3>3, <3>5, BareFinite, FS_AddElement DEF Emptying, EmptyCounted
    <3> QED
      BY <2>7, <3>1, <3>2, <3>6
  <2>9. CASE AppendLands(w)
    <3>1. PICK together \in SUBSET Tokens : together = write[w].before \cup write[w].progs
      BY <1>0 DEF TypeOK, Record
    <3>2. /\ write[w].st = "appending" /\ write'[w].st = "landed" /\ written' = written
          /\ cache' = [cache EXCEPT ![p] = together]
          /\ empty' = IF write[w].before = {} /\ together # {} THEN empty - 1 ELSE empty
      BY <1>0, <2>3, <2>9, <3>1 DEF AppendLands, pass, TypeOK, Record
    <3>3. cache'[p] = together /\ \A q \in Pairs : q # p => cache'[q] = cache[q]
      BY <1>0, <3>2 DEF TypeOK
    <3>4. Bare' = IF together = {} THEN Bare \cup {p} ELSE Bare \ {p}
      <4>1. \A q \in Pairs : q # p => (q \in Bare' <=> q \in Bare)
        BY <2>1, <2>3, <3>2, <3>3 DEF Bare, OfPair, InState
      <4>2. p \in Bare' <=> together = {}
        BY <2>1, <2>3, <3>2, <3>3 DEF Bare, OfPair, InState
      <4>3. Bare \subseteq Pairs /\ Bare' \subseteq Pairs
        BY DEF Bare
      <4> QED
        BY <4>1, <4>2, <4>3
    <3>5. ASSUME InState({"lost"}) = {}
          PROVE  p \in Bare <=> write[w].before = {}
      <4>1. p \in written
        BY <1>0, <2>3, <3>2 DEF Lossless, Claims, Begun, Active
      <4>2. PICK v \in Writes : write[v].id = p /\ write[v].st \in {"writing", "landed", "lost"}
        BY <4>1 DEF Emptying, ClaimSettles
      <4>3. write[v].st # "lost"
        BY <3>5 DEF InState
      <4>4. write[v].st # "writing"
        BY <1>0, <2>3, <3>2, <4>2 DEF Lossless, FirstAlone, Begun, Active
      <4>5. cache[p] # NoEntry
        BY <4>2, <4>3, <4>4 DEF Emptying, LandedThere
      <4>6. write[w].before = cache[p]
        BY <2>3, <3>2, <4>5 DEF Emptying, ReadsTrue
      <4> QED
        BY <4>2, <4>3, <4>4, <4>6, BareIs
    <3>6. InState({"lost"}) = {} => empty' = Cardinality(Bare')
      <4> SUFFICES ASSUME InState({"lost"}) = {} PROVE empty' = Cardinality(Bare')
        OBVIOUS
      <4>1. empty = Cardinality(Bare)
        BY DEF Emptying, EmptyCounted
      <4>2. CASE together = {}
        <5>1. p \in Bare /\ Bare' = Bare
          BY <3>1, <3>4, <3>5, <4>2
        <5> QED
          BY <3>2, <4>1, <4>2, <5>1
      <4>3. CASE together # {} /\ write[w].before = {}
        <5>1. p \in Bare /\ Bare' = Bare \ {p}
          BY <3>4, <3>5, <4>3
        <5> QED
          BY <3>2, <4>1, <4>3, <5>1, BareFinite, FS_RemoveElement
      <4>4. CASE write[w].before # {}
        <5>1. p \notin Bare /\ together # {}
          BY <3>1, <3>5, <4>4
        <5>2. Bare' = Bare
          BY <3>4, <5>1
        <5> QED
          BY <3>2, <4>1, <4>4, <5>2
      <4> QED
        BY <4>2, <4>3, <4>4
    <3> QED
      BY <2>7, <3>2, <3>6
  <2> QED
    BY <1>5, <2>4, <2>5, <2>6, <2>8, <2>9 DEF Works
<1> QED
  BY <1>0, <1>1, <1>2, <1>3, <1>4, <1>5, CountingSteps

(* At the end, then, every pair is told of; and, none of its writes lost,  *)
(* once: by the write that first landed, or as kept, which none began.     *)
LEMMA DoneOnce ==
  ASSUME LossInv, Placed, Counting, stream = "done", ~aborted, NEW p \in Pairs, ~Lost(p)
  PROVE  Outcomes(p) = 1 /\ OfPair(p, Open) = {}
<1>0. TypeOK /\ Queueing /\ Lossless
  BY DEF LossInv
<1>1. \A w \in Writes : write[w].st \notin Open
  BY DEF Placed, AllEnded
<1>2. FirstLanded(p) <=> ~TakenAsIs(p)
  <2>1. CASE p \in keeping
    BY <2>1 DEF Placed, KeptApart, FirstLanded, TakenAsIs
  <2>2. CASE p \in owed /\ failure # "none"
    <3>1. p \notin written
      BY <2>2 DEF Placed, OwedUnbegun, CleanGaps
    <3> QED
      BY <2>2, <3>1 DEF FirstLanded, TakenAsIs
  <2>3. CASE p \notin keeping /\ ~(p \in owed /\ failure # "none")
    <3>1. \E w \in Writes : write[w].id = p /\ write[w].st \in InQueue
      <4>1. CASE p \in owed
        <5>1. p \in Writes /\ write[p].st \in InQueue
          BY <2>3, <4>1 DEF Placed, Filled, Writes
        <5> QED
          BY <1>0, <5>1 DEF Queueing, GapOwed, InQueue, Open, Started, Active
      <4>2. CASE p \notin owed
        BY <2>3, <4>2 DEF Placed, Mentioned, Writes
      <4> QED
        BY <4>1, <4>2
    <3>2. PICK w \in Writes : write[w].id = p /\ write[w].st \in InQueue
      BY <3>1
    <3>3. write[w].st = "landed"
      BY <1>1, <3>2 DEF InQueue, Lost
    <3>4. p \in written
      BY <1>0, <3>2, <3>3 DEF Lossless, Claims, Begun
    <3>5. \A v \in Writes : write[v].st # "writing"
      BY <1>1 DEF Open, Started, Active
    <3> QED
      BY <2>3, <3>4, <3>5 DEF FirstLanded, TakenAsIs
  <2> QED
    BY <2>1, <2>2, <2>3
<1>3. ExactOf(p)
  BY DEF Counting, Exact
<1>4. said[p] \in Counters
  BY <1>0 DEF TypeOK, Counters
<1>5. Outcomes(p) = 1
  <2>1. CASE FirstLanded(p)
    BY <1>2, <1>3, <1>4, <2>1 DEF ExactOf, Outcomes, Counters
  <2>2. CASE ~FirstLanded(p)
    BY <1>2, <1>3, <1>4, <2>2 DEF ExactOf, Outcomes, Counters
  <2> QED
    BY <2>1, <2>2
<1> QED
  BY <1>1, <1>5 DEF OfPair, InState

LEMMA CountInvTrue == CountInv => CountsAreTrue
<1> SUFFICES ASSUME CountInv PROVE CountsAreTrue
  OBVIOUS
<1>0. LossInv /\ Placed /\ Counting /\ Emptying
  BY DEF CountInv
<1>1. ASSUME stream = "done", NEW p \in Pairs
      PROVE  /\ Outcomes(p) > 0
             /\ ~aborted /\ OfPair(p, {"lost"}) = {} => Outcomes(p) = 1 /\ OfPair(p, Open) = {}
  <2>1. Outcomes(p) > 0
    BY <1>0, <1>1 DEF Counting, AllTold, Told
  <2>2. OfPair(p, {"lost"}) = {} => ~Lost(p)
    BY DEF OfPair, InState, Lost
  <2> QED
    BY <1>0, <1>1, <2>1, <2>2, DoneOnce
<1>2. ASSUME NEW p \in Pairs, said[p].unchanged > 0 PROVE cache[p] = {0}
  <2>1. p \in held /\ (p \in keeping \/ (p \in owed /\ failure = "unchanged"))
    BY <1>0, <1>2 DEF Counting, KeptAsHeld
  <2>2. p \notin written
    BY <1>0, <2>1 DEF Placed, KeptApart, OwedUnbegun, CleanGaps
  <2> QED
    BY <1>0, <2>1, <2>2 DEF Placed, Untouched
<1>3. InState({"lost"}) = {} =>
        empty = Cardinality({p \in Pairs : OfPair(p, {"landed"}) # {} /\ cache[p] = {}})
  BY <1>0 DEF Emptying, EmptyCounted, Bare
<1>4. EmptyOnlyWhenSaid
  BY <1>0 DEF Emptying
<1> QED
  BY <1>1, <1>2, <1>3, <1>4 DEF CountsAreTrue

\* What a pass counts is what it stored (CountsAreTrue), for any channel-days,
\* emissions and slots: each is answered for, once where nothing was lost; what
\* is counted unchanged stands as it was; and nothing on is cached, and counted,
\* only where the source said so.
THEOREM StreamCountsAreTrue == Spec => []CountsAreTrue
<1>1. Init => CountInv
  BY LossInit, PlacedInit, CountingInit, EmptyingInit DEF CountInv
<1>2. CountInv /\ [Next]_vars => CountInv'
  <2>1. LossInv /\ [Next]_vars => LossInv'
    BY TypeNext, QueueingNext, OrderedNext, LosslessNext DEF LossInv
  <2> QED
    BY <2>1, PlacedNext, CountingNext, EmptyingNext DEF CountInv
<1> QED
  BY <1>1, <1>2, CountInvTrue, PTL DEF Spec

-----------------------------------------------------------------------------
(* Requests.                                                               *)
PairsOfTurn == Pipeline!ChannelDays
RequestsTyped ==
  /\ request \in [Requests -> Pipeline!RequestStates]
  /\ sent \in [Requests -> {"no", "waits", "runs"}]
  /\ pair \in [PairsOfTurn -> Pipeline!PairStates]
  /\ told \in [PairsOfTurn -> [Pipeline!Fields -> Nat]]

\* What is counted of a channel-day goes by where its request is, and where it is.
CountedAs(p, count) == told[p]["fetched"] + told[p]["failed"] + told[p]["unchanged"] = count
Follows(r, p) ==
  /\ request[r] \in {"planned", "sending", "dropped"} => pair[p] = "unparsed" /\ CountedAs(p, 0)
  /\ request[r] = "storing" =>
       /\ pair[p] # "unparsed"
       /\ CountedAs(p, IF pair[p] = "over" THEN 1 ELSE 0)
  /\ request[r] = "over" => pair[p] \in {"unparsed", "over"} /\ CountedAs(p, 1)
TrueOf(p) ==
  /\ told[p]["fetched"] = 1 <=> p \in fresh
  /\ told[p]["unchanged"] > 0 => p \in kept
OnItsWay(r) ==
  /\ sent[r] # "no" => request[r] = "sending"
  /\ \A p \in PairsOf[r] : Follows(r, p) /\ TrueOf(p)

RequestsInv == RequestsTyped /\ \A r \in Requests : OnItsWay(r)

LEMMA PairsAreOfTurn ==
  ASSUME NEW r \in Requests
  PROVE  PairsOf[r] \subseteq PairsOfTurn
BY DEF PairsOfTurn, Pipeline!ChannelDays

LEMMA PairIsOfOne ==
  ASSUME NEW r \in Requests, NEW s \in Requests, r # s, NEW p \in PairsOf[r]
  PROVE  p \notin PairsOf[s]
BY PipelineAssumption DEF Pipeline!RequestAssumption

LEMMA RequestsInit == MCInit => RequestsInv
<1> SUFFICES ASSUME MCInit PROVE RequestsInv
  OBVIOUS
<1>1. /\ request = [r \in Requests |-> "planned"] /\ sent = [r \in Requests |-> "no"]
      /\ pair = [p \in PairsOfTurn |-> "unparsed"] /\ fresh = {}
      /\ told = [p \in PairsOfTurn |-> [f \in Pipeline!Fields |-> 0]]
  BY DEF MCInit, Pipeline!Init, PairsOfTurn
<1>2. RequestsTyped
  BY <1>1 DEF RequestsTyped, Pipeline!RequestStates, Pipeline!PairStates
<1>3. ASSUME NEW r \in Requests, NEW p \in PairsOf[r] PROVE Follows(r, p) /\ TrueOf(p)
  <2>1. p \in PairsOfTurn
    BY PairsAreOfTurn
  <2>2. told[p] = [f \in Pipeline!Fields |-> 0] /\ pair[p] = "unparsed" /\ request[r] = "planned"
    BY <1>1, <2>1
  <2> QED BY <1>1, <2>2 DEF Follows, TrueOf, CountedAs, Pipeline!Fields
<1> QED BY <1>1, <1>2, <1>3 DEF RequestsInv, OnItsWay

\* What a step leaves of a channel-day, and of a request and all it is for.
SamePair(p) ==
  pair'[p] = pair[p] /\ told'[p] = told[p] /\ (p \in fresh' <=> p \in fresh)
SameRequest(r) ==
  request'[r] = request[r] /\ sent'[r] = sent[r] /\ \A p \in PairsOf[r] : SamePair(p)

LEMMA SameFollows ==
  ASSUME NEW r \in Requests, NEW p, request'[r] = request[r], SamePair(p), kept' = kept,
         Follows(r, p), TrueOf(p)
  PROVE  Follows(r, p)' /\ TrueOf(p)'
BY DEF SamePair, Follows, TrueOf, CountedAs

LEMMA SameIsOnItsWay ==
  ASSUME RequestsInv, NEW r \in Requests, SameRequest(r), kept' = kept
  PROVE  OnItsWay(r)'
<1>1. \A p \in PairsOf[r] : Follows(r, p)' /\ TrueOf(p)'
  BY SameFollows DEF SameRequest, RequestsInv, OnItsWay
<1> QED BY <1>1 DEF SameRequest, RequestsInv, OnItsWay

\* A step of one request.
LEMMA OfOneRequest ==
  ASSUME RequestsInv, NEW r \in Requests, RequestsTyped', kept' = kept, OnItsWay(r)',
         \A s \in Requests \ {r} : SameRequest(s)
  PROVE  RequestsInv'
<1>1. \A s \in Requests : OnItsWay(s)'
  BY SameIsOnItsWay
<1> QED BY <1>1 DEF RequestsInv

\* A step of one channel-day: told of it or not.
LEMMA OfOnePair ==
  ASSUME RequestsInv, NEW r \in Requests, NEW p \in PairsOf[r], RequestsTyped', kept' = kept,
         UNCHANGED <<request, sent>>, Follows(r, p)', TrueOf(p)',
         \A q \in PairsOfTurn \ {p} : SamePair(q)
  PROVE  RequestsInv'
<1>1. \A s \in Requests \ {r} : SameRequest(s)
  <2> SUFFICES ASSUME NEW s \in Requests, s # r, NEW q \in PairsOf[s] PROVE SamePair(q)
    BY DEF SameRequest
  <2> QED BY PairIsOfOne, PairsAreOfTurn
<1>2. \A q \in PairsOf[r] : Follows(r, q)' /\ TrueOf(q)'
  <2> SUFFICES ASSUME NEW q \in PairsOf[r], q # p PROVE Follows(r, q)' /\ TrueOf(q)'
    OBVIOUS
  <2>1. SamePair(q)
    BY PairsAreOfTurn
  <2> QED BY <2>1, SameFollows DEF RequestsInv, OnItsWay
<1>3. OnItsWay(r)'
  BY <1>2 DEF RequestsInv, OnItsWay
<1> QED BY <1>1, <1>3, OfOneRequest

\* A channel-day that was not counted is, once, as what it is.
LEMMA CountsIt ==
  ASSUME RequestsTyped, NEW p \in PairsOfTurn, NEW field \in Pipeline!Fields, CountedAs(p, 0),
         TrueOf(p), told'[p] = [told[p] EXCEPT ![field] = @ + 1], kept' = kept,
         p \in fresh' <=> field = "fetched" \/ p \in fresh, field = "unchanged" => p \in kept
  PROVE  CountedAs(p, 1)' /\ TrueOf(p)' /\ told'[p] \in [Pipeline!Fields -> Nat]
<1>1. /\ told[p] \in [Pipeline!Fields -> Nat] /\ Pipeline!Fields = {"fetched", "failed", "unchanged"}
  BY DEF RequestsTyped, Pipeline!Fields
<1>2. told[p]["fetched"] = 0 /\ told[p]["failed"] = 0 /\ told[p]["unchanged"] = 0
  <2> DEFINE f1 == told[p]["fetched"]
             f2 == told[p]["failed"]
             f3 == told[p]["unchanged"]
  <2>1. f1 \in Nat /\ f2 \in Nat /\ f3 \in Nat
    BY <1>1
  <2>2. f1 + f2 + f3 = 0
    BY DEF CountedAs
  <2> HIDE DEF f1, f2, f3
  <2>3. f1 = 0 /\ f2 = 0 /\ f3 = 0
    BY <2>1, <2>2
  <2> QED BY <2>3 DEF f1, f2, f3
<1>3. p \notin fresh
  BY <1>2 DEF TrueOf
<1>4. \A other \in Pipeline!Fields : told'[p][other] = IF other = field THEN 1 ELSE 0
  BY <1>1, <1>2
<1>5. /\ told'[p]["fetched"] = (IF field = "fetched" THEN 1 ELSE 0)
      /\ told'[p]["failed"] = (IF field = "failed" THEN 1 ELSE 0)
      /\ told'[p]["unchanged"] = (IF field = "unchanged" THEN 1 ELSE 0)
  BY <1>1, <1>4
<1>6. told'[p] \in [Pipeline!Fields -> Nat]
  <2> DEFINE sum == told[p][field] + 1
  <2>1. sum \in Nat
    BY <1>1
  <2>2. told'[p] = [told[p] EXCEPT ![field] = sum]
    OBVIOUS
  <2> HIDE DEF sum
  <2>3. [told[p] EXCEPT ![field] = sum] \in [Pipeline!Fields -> Nat]
    BY <1>1, <2>1
  <2> QED BY <2>2, <2>3
<1>7. CountedAs(p, 1)'
  <2>1. CASE field = "fetched"
    BY <1>5, <2>1 DEF CountedAs
  <2>2. CASE field = "failed"
    BY <1>5, <2>2 DEF CountedAs
  <2>3. CASE field = "unchanged"
    BY <1>5, <2>3 DEF CountedAs
  <2> QED BY <1>1, <2>1, <2>2, <2>3
<1>8. TrueOf(p)'
  BY <1>3, <1>5 DEF TrueOf
<1> QED BY <1>6, <1>7, <1>8

\* Nothing is told of a channel-day but by these.
LEMMA CountTells ==
  ASSUME RequestsTyped, NEW set, NEW field \in Pipeline!Fields, told' = Pipeline!Count(field, set)
  PROVE  /\ told' \in [PairsOfTurn -> [Pipeline!Fields -> Nat]]
         /\ \A p \in PairsOfTurn :
              /\ p \in set => told'[p] = [told[p] EXCEPT ![field] = @ + 1]
              /\ p \notin set => told'[p] = told[p]
<1>1. told' = [p \in PairsOfTurn |-> IF p \in set THEN [told[p] EXCEPT ![field] = @ + 1] ELSE told[p]]
  BY DEF Pipeline!Count, PairsOfTurn
<1>2. \A p \in PairsOfTurn : /\ told[p] \in [Pipeline!Fields -> Nat]
                             /\ [told[p] EXCEPT ![field] = @ + 1] \in [Pipeline!Fields -> Nat]
  BY DEF RequestsTyped
<1> QED BY <1>1, <1>2

LEMMA KeepTells ==
  ASSUME RequestsTyped, NEW set, told' = Pipeline!Keep(set)
  PROVE  /\ told' \in [PairsOfTurn -> [Pipeline!Fields -> Nat]]
         /\ \A p \in PairsOfTurn :
              /\ p \in set => \E field \in {"unchanged", "failed"} :
                   /\ told'[p] = [told[p] EXCEPT ![field] = @ + 1]
                   /\ field = "unchanged" => p \in kept
              /\ p \notin set => told'[p] = told[p]
<1> DEFINE how(p) == IF p \in kept THEN "unchanged" ELSE "failed"
<1>1. told' = [p \in PairsOfTurn |-> IF p \in set THEN [told[p] EXCEPT ![how(p)] = @ + 1] ELSE told[p]]
  BY DEF Pipeline!Keep, PairsOfTurn
<1>2. \A p \in PairsOfTurn : /\ told[p] \in [Pipeline!Fields -> Nat]
                             /\ [told[p] EXCEPT ![how(p)] = @ + 1] \in [Pipeline!Fields -> Nat]
  BY DEF RequestsTyped, Pipeline!Fields
<1> QED BY <1>1, <1>2

\* A request that is answered or fails at once: each channel-day of it is counted.
LEMMA OverAtOnce ==
  ASSUME RequestsInv, NEW r \in Requests, sent[r] = "runs",
         sent' = [sent EXCEPT ![r] = "no"], request' = [request EXCEPT ![r] = "over"],
         UNCHANGED <<pair, fresh, kept>>,
         told' \in [PairsOfTurn -> [Pipeline!Fields -> Nat]],
         \A p \in PairsOfTurn :
           /\ p \in PairsOf[r] => \E field \in {"unchanged", "failed"} :
                /\ told'[p] = [told[p] EXCEPT ![field] = @ + 1]
                /\ field = "unchanged" => p \in kept
           /\ p \notin PairsOf[r] => told'[p] = told[p]
  PROVE  RequestsInv'
<1>1. request[r] = "sending" /\ request'[r] = "over" /\ sent'[r] = "no"
  BY DEF RequestsInv, RequestsTyped, OnItsWay
<1>2. RequestsTyped'
  BY DEF RequestsInv, RequestsTyped, Pipeline!RequestStates
<1>3. \A p \in PairsOf[r] : Follows(r, p)' /\ TrueOf(p)'
  <2> SUFFICES ASSUME NEW p \in PairsOf[r] PROVE Follows(r, p)' /\ TrueOf(p)'
    OBVIOUS
  <2>1. p \in PairsOfTurn
    BY PairsAreOfTurn
  <2>2. pair[p] = "unparsed" /\ CountedAs(p, 0) /\ TrueOf(p)
    BY <1>1 DEF RequestsInv, OnItsWay, Follows
  <2>3. PICK field \in {"unchanged", "failed"} :
          told'[p] = [told[p] EXCEPT ![field] = @ + 1] /\ (field = "unchanged" => p \in kept)
    BY <2>1
  <2>4. CountedAs(p, 1)' /\ TrueOf(p)'
    BY <2>1, <2>2, <2>3, CountsIt DEF RequestsInv, Pipeline!Fields
  <2> QED BY <1>1, <2>2, <2>4 DEF Follows
<1>4. OnItsWay(r)'
  BY <1>1, <1>3 DEF OnItsWay
<1>5. \A s \in Requests \ {r} : SameRequest(s)
  <2> SUFFICES ASSUME NEW s \in Requests, s # r PROVE SameRequest(s)
    OBVIOUS
  <2>1. request'[s] = request[s] /\ sent'[s] = sent[s]
    BY DEF RequestsInv, RequestsTyped
  <2>2. \A p \in PairsOf[s] : SamePair(p)
    BY PairIsOfOne, PairsAreOfTurn DEF SamePair
  <2> QED BY <2>1, <2>2 DEF SameRequest
<1> QED BY <1>2, <1>4, <1>5, OfOneRequest

LEMMA RequestSteps ==
  ASSUME RequestsInv, NEW r \in Requests,
         Pipeline!Begin(r) \/ Pipeline!Send(r) \/ Pipeline!Answer(r) \/ Pipeline!AnswerUnchanged(r)
           \/ Pipeline!AnswerFails(r) \/ Pipeline!Finish(r)
  PROVE  RequestsInv'
<1> USE DEF RequestsInv
<1>1. CASE Pipeline!Begin(r)
  <2>1. /\ request[r] = "planned" /\ request'[r] \in {"dropped", "sending"}
        /\ sent'[r] # "no" => request'[r] = "sending"
        /\ \A s \in Requests \ {r} : request'[s] = request[s] /\ sent'[s] = sent[s]
        /\ UNCHANGED <<pair, kept, fresh, told>>
    BY <1>1 DEF Pipeline!Begin, RequestsTyped
  <2>2. RequestsTyped'
    BY <1>1 DEF Pipeline!Begin, RequestsTyped, Pipeline!RequestStates
  <2>3. OnItsWay(r)'
    BY <2>1 DEF OnItsWay, Follows, TrueOf, CountedAs
  <2> QED BY <2>1, <2>2, <2>3, OfOneRequest DEF SameRequest, SamePair
<1>2. CASE Pipeline!Send(r)
  <2>1. /\ request[r] = "sending"
        /\ \A s \in Requests \ {r} : request'[s] = request[s] /\ sent'[s] = sent[s]
        /\ UNCHANGED <<request, pair, kept, fresh, told>>
    BY <1>2 DEF Pipeline!Send, RequestsTyped, OnItsWay
  <2>2. RequestsTyped'
    BY <1>2 DEF Pipeline!Send, RequestsTyped
  <2>3. OnItsWay(r)'
    BY <2>1 DEF OnItsWay, Follows, TrueOf, CountedAs
  <2> QED BY <2>1, <2>2, <2>3, OfOneRequest DEF SameRequest, SamePair
<1>3. CASE Pipeline!Answer(r)
  <2>1. /\ request[r] = "sending" /\ request'[r] = "storing" /\ sent'[r] = "no"
        /\ \A s \in Requests \ {r} : request'[s] = request[s] /\ sent'[s] = sent[s]
        /\ pair' = [p \in PairsOfTurn |-> IF p \in PairsOf[r] THEN "slot" ELSE pair[p]]
        /\ UNCHANGED <<kept, fresh, told>>
    BY <1>3 DEF Pipeline!Answer, RequestsTyped, OnItsWay, PairsOfTurn
  <2>2. RequestsTyped'
    BY <1>3, <2>1 DEF Pipeline!Answer, RequestsTyped, Pipeline!RequestStates, Pipeline!PairStates
  <2>3. \A p \in PairsOf[r] : Follows(r, p)' /\ TrueOf(p)'
    <3> SUFFICES ASSUME NEW p \in PairsOf[r] PROVE Follows(r, p)' /\ TrueOf(p)'
      OBVIOUS
    <3>1. pair'[p] = "slot" /\ CountedAs(p, 0) /\ TrueOf(p)
      BY <2>1, PairsAreOfTurn DEF OnItsWay, Follows
    <3> QED BY <2>1, <3>1 DEF Follows, TrueOf, CountedAs
  <2>4. \A s \in Requests \ {r} : SameRequest(s)
    BY <2>1, PairIsOfOne, PairsAreOfTurn DEF SameRequest, SamePair
  <2> QED BY <2>1, <2>2, <2>3, <2>4, OfOneRequest DEF OnItsWay
<1>4. CASE Pipeline!AnswerUnchanged(r)
  <2>1. told' = Pipeline!Keep(PairsOf[r])
    BY <1>4 DEF Pipeline!AnswerUnchanged
  <2> QED BY <1>4, <2>1, KeepTells, OverAtOnce DEF Pipeline!AnswerUnchanged
<1>5. CASE Pipeline!AnswerFails(r)
  <2>1. told' = Pipeline!Count("failed", PairsOf[r]) /\ "failed" \in Pipeline!Fields
    BY <1>5 DEF Pipeline!AnswerFails, Pipeline!Fields
  <2>2. /\ told' \in [PairsOfTurn -> [Pipeline!Fields -> Nat]]
        /\ \A p \in PairsOfTurn :
             /\ p \in PairsOf[r] => told'[p] = [told[p] EXCEPT !["failed"] = @ + 1]
             /\ p \notin PairsOf[r] => told'[p] = told[p]
    BY <2>1, CountTells
  <2>3. \A p \in PairsOf[r] \cap PairsOfTurn : \E field \in {"unchanged", "failed"} :
          /\ told'[p] = [told[p] EXCEPT ![field] = @ + 1]
          /\ field = "unchanged" => p \in kept
    <3> TAKE p \in PairsOf[r] \cap PairsOfTurn
    <3>1. told'[p] = [told[p] EXCEPT !["failed"] = @ + 1] /\ ("failed" = "unchanged" => p \in kept)
      BY <2>2
    <3> QED BY <3>1
  <2> QED BY <1>5, <2>2, <2>3, OverAtOnce DEF Pipeline!AnswerFails
<1>6. CASE Pipeline!Finish(r)
  <2>1. /\ request[r] = "storing" /\ request'[r] = "over" /\ \A p \in PairsOf[r] : pair[p] = "over"
        /\ \A s \in Requests \ {r} : request'[s] = request[s]
        /\ UNCHANGED <<sent, pair, kept, fresh, told>>
    BY <1>6 DEF Pipeline!Finish, Pipeline!Stored, RequestsTyped
  <2>2. RequestsTyped'
    BY <1>6 DEF Pipeline!Finish, RequestsTyped, Pipeline!RequestStates
  <2>3. OnItsWay(r)'
    BY <2>1 DEF OnItsWay, Follows, TrueOf, CountedAs
  <2> QED BY <2>1, <2>2, <2>3, OfOneRequest DEF SameRequest, SamePair
<1> QED BY <1>1, <1>2, <1>3, <1>4, <1>5, <1>6

\* What a channel-day of a response goes through before it is counted.
InHandOf == Pipeline!PairStates \ {"unparsed", "over"}
LEMMA ParseSteps ==
  ASSUME RequestsInv, NEW p \in PairsOfTurn,
         Pipeline!StartParse(p) \/ Pipeline!AskPaced(p) \/ Pipeline!SendPaced(p)
           \/ Pipeline!PacedAnswered(p) \/ Pipeline!Return(p) \/ Pipeline!StartWrite(p)
           \/ Pipeline!WriteLands(p) \/ Pipeline!StoreRefuses(p)
  PROVE  RequestsInv'
<1> USE DEF RequestsInv
<1>1. PICK r \in Requests : p \in PairsOf[r]
  BY DEF PairsOfTurn, Pipeline!ChannelDays
<1>2. pair[p] \in InHandOf /\ UNCHANGED <<request, sent, kept>>
  BY DEF Pipeline!StartParse, Pipeline!AskPaced, Pipeline!SendPaced, Pipeline!PacedAnswered,
         Pipeline!Return, Pipeline!StartWrite, Pipeline!WriteLands, Pipeline!StoreRefuses,
         InHandOf, Pipeline!PairStates
<1>3. request[r] = "storing" /\ CountedAs(p, 0) /\ TrueOf(p)
  BY <1>1, <1>2 DEF OnItsWay, Follows, RequestsTyped, InHandOf, Pipeline!RequestStates
<1>4. CASE \E to \in InHandOf : pair' = [pair EXCEPT ![p] = to] /\ UNCHANGED <<told, fresh>>
  <2>1. RequestsTyped'
    BY <1>2, <1>4 DEF RequestsTyped, InHandOf
  <2>2. Follows(r, p)' /\ TrueOf(p)'
    BY <1>2, <1>3, <1>4 DEF Follows, TrueOf, CountedAs, InHandOf, RequestsTyped
  <2>3. \A q \in PairsOfTurn \ {p} : SamePair(q)
    BY <1>4 DEF SamePair, RequestsTyped
  <2> QED BY <1>1, <1>2, <2>1, <2>2, <2>3, OfOnePair
<1>5. CASE \E field \in {"fetched", "failed"} :
              /\ pair' = [pair EXCEPT ![p] = "over"] /\ told' = Pipeline!Count(field, {p})
              /\ fresh' = IF field = "fetched" THEN fresh \cup {p} ELSE fresh
  <2>1. PICK field \in {"fetched", "failed"} :
              /\ pair' = [pair EXCEPT ![p] = "over"] /\ told' = Pipeline!Count(field, {p})
              /\ fresh' = IF field = "fetched" THEN fresh \cup {p} ELSE fresh
    BY <1>5
  <2>2. field \in Pipeline!Fields
    BY DEF Pipeline!Fields
  <2>3. /\ told' \in [PairsOfTurn -> [Pipeline!Fields -> Nat]]
        /\ \A q \in PairsOfTurn :
             /\ q \in {p} => told'[q] = [told[q] EXCEPT ![field] = @ + 1]
             /\ q \notin {p} => told'[q] = told[q]
    BY <2>1, <2>2, CountTells
  <2>4. CountedAs(p, 1)' /\ TrueOf(p)'
    BY <1>2, <1>3, <2>1, <2>2, <2>3, CountsIt
  <2>5. pair'[p] = "over" /\ RequestsTyped'
    BY <1>2, <2>1, <2>3 DEF RequestsTyped, Pipeline!PairStates
  <2>6. Follows(r, p)'
    BY <1>2, <1>3, <2>4, <2>5 DEF Follows
  <2>7. \A q \in PairsOfTurn \ {p} : SamePair(q)
    BY <2>1, <2>3 DEF SamePair, RequestsTyped
  <2> QED BY <1>1, <1>2, <2>4, <2>5, <2>6, <2>7, OfOnePair
<1>6. Pipeline!WriteLands(p) \/ Pipeline!StoreRefuses(p) =>
        \E field \in {"fetched", "failed"} :
          /\ pair' = [pair EXCEPT ![p] = "over"] /\ told' = Pipeline!Count(field, {p})
          /\ fresh' = IF field = "fetched" THEN fresh \cup {p} ELSE fresh
  BY DEF Pipeline!WriteLands, Pipeline!StoreRefuses
<1>7. Pipeline!StartParse(p) \/ Pipeline!AskPaced(p) \/ Pipeline!SendPaced(p)
        \/ Pipeline!PacedAnswered(p) \/ Pipeline!Return(p) \/ Pipeline!StartWrite(p) =>
        \E to \in InHandOf : pair' = [pair EXCEPT ![p] = to] /\ UNCHANGED <<told, fresh>>
  BY DEF Pipeline!StartParse, Pipeline!AskPaced, Pipeline!SendPaced, Pipeline!PacedAnswered,
         Pipeline!Return, Pipeline!StartWrite, InHandOf, Pipeline!PairStates
<1> QED BY <1>4, <1>5, <1>6, <1>7

\* The signal: every request on the queue fails what it was for, and every
\* channel-day that waits for a slot or a request of its own is let go.
LEMMA AbortStep ==
  ASSUME RequestsInv, Pipeline!Abort
  PROVE  RequestsInv'
<1> DEFINE cut == {r \in Requests : sent[r] # "no"}
           let_go == Pipeline!PairsIn({"slot", "asks", "asking", "returning"})
           failed == let_go \cup UNION {PairsOf[r] : r \in cut}
<1>1. /\ sent' = [r \in Requests |-> "no"]
      /\ request' = [r \in Requests |-> IF r \in cut THEN "over" ELSE request[r]]
      /\ pair' = [p \in PairsOfTurn |-> IF p \in let_go THEN "over" ELSE pair[p]]
      /\ told' = Pipeline!Count("failed", failed) /\ UNCHANGED <<kept, fresh>>
  BY DEF Pipeline!Abort, PairsOfTurn
<1>2. "failed" \in Pipeline!Fields /\ RequestsTyped
  BY DEF Pipeline!Fields, RequestsInv
<1> HIDE DEF failed
<1>3. /\ told' \in [PairsOfTurn -> [Pipeline!Fields -> Nat]]
      /\ \A p \in PairsOfTurn :
           /\ p \in failed => told'[p] = [told[p] EXCEPT !["failed"] = @ + 1]
           /\ p \notin failed => told'[p] = told[p]
  BY <1>1, <1>2, CountTells
<1>4. RequestsTyped'
  BY <1>1, <1>2, <1>3 DEF RequestsTyped, Pipeline!RequestStates, Pipeline!PairStates
<1>5. ASSUME NEW r \in Requests, NEW p \in PairsOf[r] PROVE Follows(r, p)' /\ TrueOf(p)'
  <2>1. p \in PairsOfTurn /\ Follows(r, p) /\ TrueOf(p)
    BY PairsAreOfTurn DEF RequestsInv, OnItsWay
  <2>2. p \in let_go <=> pair[p] \in {"slot", "asks", "asking", "returning"}
    BY <2>1 DEF Pipeline!PairsIn, PairsOfTurn
  <2>3. p \in failed <=> p \in let_go \/ r \in cut
    BY PairIsOfOne DEF failed
  <2>4. r \in cut => request[r] = "sending"
    BY DEF RequestsInv, OnItsWay
  <2>5. request[r] \in Pipeline!RequestStates /\ pair[p] \in Pipeline!PairStates
    BY <1>2, <2>1 DEF RequestsTyped
  <2>6. CASE r \in cut
    <3>1. pair[p] = "unparsed" /\ CountedAs(p, 0)
      BY <2>1, <2>4, <2>6 DEF Follows
    <3>2. CountedAs(p, 1)' /\ TrueOf(p)'
      BY <1>1, <1>2, <1>3, <2>1, <2>3, <2>6, <3>1, CountsIt
    <3>3. request'[r] = "over" /\ pair'[p] = "unparsed"
      BY <1>1, <2>1, <2>2, <2>6, <3>1
    <3> QED BY <3>2, <3>3 DEF Follows
  <2>7. CASE r \notin cut /\ p \in let_go
    <3>1. request[r] = "storing" /\ CountedAs(p, 0)
      BY <2>1, <2>2, <2>5, <2>7 DEF Follows, Pipeline!RequestStates
    <3>2. CountedAs(p, 1)' /\ TrueOf(p)'
      BY <1>1, <1>2, <1>3, <2>1, <2>3, <2>7, <3>1, CountsIt
    <3>3. request'[r] = "storing" /\ pair'[p] = "over"
      BY <1>1, <2>1, <2>7, <3>1
    <3> QED BY <3>2, <3>3 DEF Follows
  <2>8. CASE r \notin cut /\ p \notin let_go
    <3>1. told'[p] = told[p] /\ request'[r] = request[r] /\ pair'[p] = pair[p]
      BY <1>1, <1>3, <2>1, <2>3, <2>8
    <3> QED BY <1>1, <2>1, <3>1, SameFollows DEF SamePair
  <2> QED BY <2>6, <2>7, <2>8
<1>6. ASSUME NEW r \in Requests PROVE OnItsWay(r)'
  BY <1>1, <1>5 DEF OnItsWay
<1> QED BY <1>4, <1>6 DEF RequestsInv

LEMMA RequestsNext == RequestsInv /\ [MCNext]_all => RequestsInv'
<1> SUFFICES ASSUME RequestsInv, [MCNext]_all PROVE RequestsInv'
  OBVIOUS
<1>1. CASE UNCHANGED ofPipeline
  BY <1>1 DEF ofPipeline, RequestsInv, RequestsTyped, OnItsWay, Follows, TrueOf, CountedAs
<1>2. CASE Pipeline!Next
  BY <1>2, RequestSteps, ParseSteps, AbortStep DEF Pipeline!Next, Pipeline!Progress, PairsOfTurn
<1> QED BY <1>1, <1>2 DEF MCNext, OfDocument, OfRequests, InThread, all, ofPipeline

\* A channel-day of a turn of requests is counted once its part of the turn is
\* over and not before, and only once, for every plan and every concurrency:
\* src/grabber/site-run.ts counts in #store, #keep and where a request fails.
THEOREM RequestsCountedOnce == MCSpec => []CountedOnce
<1>1. RequestsInv => CountedOnce
  <2> SUFFICES ASSUME RequestsInv PROVE Pipeline!CountedOnce
    BY DEF CountedOnce
  <2>1. ASSUME NEW r \in Requests, NEW p \in PairsOf[r]
        PROVE  Pipeline!Outcomes(p) =
                 (CASE request[r] \in {"planned", "sending", "dropped"} -> 0
                    [] request[r] = "storing" -> IF pair[p] = "over" THEN 1 ELSE 0
                    [] request[r] = "over" -> 1)
    <3>1. Follows(r, p) /\ request[r] \in Pipeline!RequestStates
      BY DEF RequestsInv, RequestsTyped, OnItsWay
    <3>2. CASE request[r] \in {"planned", "sending", "dropped"}
      BY <3>1, <3>2 DEF Follows, CountedAs, Pipeline!Outcomes
    <3>3. CASE request[r] = "storing"
      BY <3>1, <3>3 DEF Follows, CountedAs, Pipeline!Outcomes
    <3>4. CASE request[r] = "over"
      BY <3>1, <3>4 DEF Follows, CountedAs, Pipeline!Outcomes
    <3> QED BY <3>1, <3>2, <3>3, <3>4 DEF Pipeline!RequestStates
  <2>2. ASSUME NEW p \in PairsOfTurn PROVE TrueOf(p)
    <3>1. PICK r \in Requests : p \in PairsOf[r]
      BY DEF PairsOfTurn, Pipeline!ChannelDays
    <3> QED BY <3>1 DEF RequestsInv, OnItsWay
  <2> QED BY <2>1, <2>2 DEF Pipeline!CountedOnce, TrueOf, PairsOfTurn
<1> QED BY <1>1, RequestsInit, RequestsNext, PTL DEF MCSpec

-----------------------------------------------------------------------------

-----------------------------------------------------------------------------
(* What a thread says of its site, and what the run makes of it.           *)

Kinds == {"site:failed", "site:done", "slot", "requested", "cache", "done", "failed", "close"}
Messages == [kind : Kinds, label : Labels \cup {None}]
\* What says how far a turn is comes in this order, and each of it once; the
\* other kinds come at any time.
RankOf(m) == CASE m.kind = "site:failed" -> 1 [] m.kind = "site:done" -> 2
               [] m.kind = "done" -> 3 [] m.kind = "failed" -> 3
               [] m.kind = "close" -> 4 [] OTHER -> 0
\* How far a site is: past saying whatever ranks below.
StageOf(st) == CASE st = "loading" -> 0 [] st = "running" -> 1 [] st = "failing" -> 1
                 [] st = "ending" -> 2 [] st = "finished" -> 3 [] OTHER -> 4
Stages == {"loading", "running", "failing", "ending", "finished", "closing", "over"}

OnPort == {port[i] : i \in 1..Len(port)}
\* A turn's say up to a rank is said, and heard.
Past(k) == k < StageOf(site.st) /\ \A m \in OnPort : RankOf(m) \notin 1..k

SidesShape ==
  /\ DOMAIN site = {"st", "steps", "label"} /\ site.st \in Stages /\ site.label \in Labels \cup {None}
  /\ DOMAIN memory = {"began", "fetched", "failed", "requests"}
  /\ memory.fetched \in {0, 1} /\ memory.failed \in {0, 1}
  /\ DOMAIN turn = {"said", "ended", "hungUp", "answer"}
  /\ DOMAIN going = {"why", "closed", "waiting"}
  /\ DOMAIN run = {"over", "fetched", "failed", "requests", "saidFailed", "saidDone"}
\* Messages keep their order, each of what was sent in the thread's.
InOrder ==
  /\ port \in Seq(Messages)
  /\ \A i, j \in 1..Len(port) :
       i < j /\ RankOf(port[i]) > 0 /\ RankOf(port[j]) > 0 => RankOf(port[i]) < RankOf(port[j])
WasSent ==
  \A m \in OnPort : LET k == RankOf(m) IN
    /\ k \in {1, 2, 3} => k < StageOf(site.st)
    /\ k = 4 => ~alive
    /\ k \in {1, 2} => memory.began
    /\ k = 1 => memory.failed = 1
\* A site that is done has said so of its turn first.
SaysDone ==
  site.st = "finished" \/ (\E m \in OnPort : m.kind = "done")
    => turn.said \/ \E m \in OnPort : m.kind = "site:done"
HasBegun ==
  /\ site.st \in {"running", "failing", "ending", "finished"} \/ turn.said => memory.began
  /\ memory.fetched = 1 \/ memory.failed = 1 => memory.began
  /\ site.st = "failing" => memory.failed = 1
HasGone == going.why \/ going.closed \/ going.waiting => ~alive
\* Until the turn is over the run has only what it heard.
NotOver ==
  ~turn.ended =>
    /\ ~run.over /\ ~turn.hungUp /\ turn.answer = "none" /\ run.fetched = 0 /\ run.failed = 0
    /\ run.saidDone = (IF turn.said THEN 1 ELSE 0) /\ (turn.said => Past(2))
    /\ run.saidFailed \in {0, 1}
    /\ run.saidFailed = 1 => Past(1) /\ memory.failed = 1
\* Once it is, nothing of it is still to be heard, nor done.
IsOver ==
  turn.ended =>
    /\ Thread!Deaf \/ Past(3)
    /\ ~alive \/ site.st \in {"closing", "over"}
    /\ run.fetched = memory.fetched /\ turn.answer \in {"resolved", "rejected"}
    /\ turn.answer = "resolved" =>
         /\ run.saidDone = 1 /\ run.saidFailed \in {0, 1} /\ run.failed \in {0, 1}
         /\ run.saidFailed = 1 => run.failed = 1
    /\ turn.answer = "rejected" =>
         /\ turn.hungUp
         /\ run.over => run.saidDone = 1 /\ run.saidFailed = 1 /\ run.failed = 1
         /\ ~run.over => run.saidDone = 0 /\ run.saidFailed = 0 /\ run.failed = 0
TurnInv ==
  SidesShape /\ InOrder /\ WasSent /\ SaysDone /\ HasBegun /\ HasGone /\ NotOver /\ IsOver

LEMMA RankType == \A m : RankOf(m) \in 0..4
BY DEF RankOf

LEMMA StageType == \A st : StageOf(st) \in 0..4
BY DEF StageOf

LEMMA TurnInit == MCInit => TurnInv
<1> SUFFICES ASSUME MCInit PROVE TurnInv
  OBVIOUS
<1> USE DEF MCInit, Thread!Init
<1>1. OnPort = {}
  BY DEF OnPort
<1>2. SidesShape /\ InOrder
  BY DEF SidesShape, InOrder, Stages
<1> QED BY <1>1, <1>2 DEF TurnInv, WasSent, SaysDone, HasBegun, HasGone, NotOver, IsOver

\* A message sent comes last, and what is on the port stays.
LEMMA SentLast ==
  ASSUME InOrder, NEW m \in Messages, port' = Append(port, m),
         RankOf(m) > 0 => \A k \in OnPort : RankOf(k) < RankOf(m)
  PROVE  InOrder' /\ OnPort' = OnPort \cup {m}
<1>1. /\ port' \in Seq(Messages) /\ Len(port') = Len(port) + 1 /\ port'[Len(port) + 1] = m
      /\ \A i \in 1..Len(port) : port'[i] = port[i]
      /\ Len(port) \in Nat
  BY AppendProperties DEF InOrder
<1>2. \A i \in 1..Len(port') : i \in 1..Len(port) \/ i = Len(port) + 1
  BY <1>1
<1>3. \A i \in 1..Len(port) : i \in 1..Len(port') /\ port[i] \in OnPort
  BY <1>1 DEF OnPort
<1>4. OnPort' = OnPort \cup {m}
  <2>1. OnPort' \subseteq OnPort \cup {m}
    BY <1>1, <1>2 DEF OnPort
  <2>2. OnPort \subseteq OnPort'
    BY <1>1, <1>3 DEF OnPort
  <2>3. m \in OnPort'
    BY <1>1 DEF OnPort
  <2> QED BY <2>1, <2>2, <2>3
<1>5. ASSUME NEW i \in 1..Len(port'), NEW j \in 1..Len(port'), i < j,
             RankOf(port'[i]) > 0, RankOf(port'[j]) > 0
      PROVE  RankOf(port'[i]) < RankOf(port'[j])
  <2>1. i \in 1..Len(port)
    BY <1>1, <1>5
  <2>2. CASE j \in 1..Len(port)
    BY <1>1, <1>5, <2>1, <2>2 DEF InOrder
  <2>3. CASE j = Len(port) + 1
    BY <1>1, <1>3, <1>5, <2>1, <2>3
  <2> QED BY <1>2, <2>2, <2>3
<1> QED BY <1>1, <1>4, <1>5 DEF InOrder

\* The first on the port is heard, and all that tells of the turn after it
\* ranks above it.
LEMMA HeardFirst ==
  ASSUME InOrder, port # <<>>, port' = Tail(port)
  PROVE  /\ InOrder' /\ Head(port) \in Messages /\ Head(port) \in OnPort
         /\ OnPort' \subseteq OnPort /\ OnPort \subseteq OnPort' \cup {Head(port)}
         /\ \A m \in OnPort' : RankOf(Head(port)) > 0 /\ RankOf(m) > 0
                                 => RankOf(Head(port)) < RankOf(m)
<1>1. /\ port' \in Seq(Messages) /\ Len(port') = Len(port) - 1 /\ Head(port) = port[1]
      /\ \A i \in 1..Len(port') : port'[i] = port[i + 1]
      /\ Len(port) \in Nat /\ Len(port) >= 1 /\ port[1] \in Messages
  BY HeadTailProperties DEF InOrder
<1>2. \A i \in 1..Len(port') : i + 1 \in 1..Len(port) /\ 1 < i + 1
  BY <1>1
<1>3. \A i \in 1..Len(port) : i = 1 \/ (i - 1 \in 1..Len(port') /\ (i - 1) + 1 = i)
  BY <1>1
<1>4. OnPort' \subseteq OnPort
  BY <1>1, <1>2 DEF OnPort
<1>5. OnPort \subseteq OnPort' \cup {Head(port)}
  <2> SUFFICES ASSUME NEW i \in 1..Len(port), i # 1 PROVE port[i] \in OnPort'
    BY <1>1 DEF OnPort
  <2>1. i - 1 \in 1..Len(port') /\ port'[i - 1] = port[i]
    BY <1>1, <1>3
  <2> QED BY <2>1 DEF OnPort
<1>6. ASSUME NEW i \in 1..Len(port'), NEW j \in 1..Len(port'), i < j,
             RankOf(port'[i]) > 0, RankOf(port'[j]) > 0
      PROVE  RankOf(port'[i]) < RankOf(port'[j])
  <2>1. i + 1 < j + 1
    BY <1>1, <1>6
  <2> QED BY <1>1, <1>2, <1>6, <2>1 DEF InOrder
<1>7. ASSUME NEW m \in OnPort', RankOf(port[1]) > 0, RankOf(m) > 0
      PROVE  RankOf(port[1]) < RankOf(m)
  <2>1. PICK i \in 1..Len(port') : m = port[i + 1]
    BY <1>1 DEF OnPort
  <2>2. 1 \in 1..Len(port) /\ i + 1 \in 1..Len(port) /\ 1 < i + 1
    BY <1>1, <1>2
  <2>3. RankOf(port[1]) > 0 /\ RankOf(port[i + 1]) > 0 => RankOf(port[1]) < RankOf(port[i + 1])
    BY <2>2 DEF InOrder
  <2>4. RankOf(m) = RankOf(port[i + 1])
    BY <2>1
  <2> QED BY <1>7, <2>3, <2>4
<1>8. InOrder'
  BY <1>1, <1>6 DEF InOrder
<1>9. Head(port) \in OnPort /\ Head(port) \in Messages /\ Head(port) = port[1]
  BY <1>1 DEF OnPort
<1>10. \A m \in OnPort' : RankOf(Head(port)) > 0 /\ RankOf(m) > 0
                           => RankOf(Head(port)) < RankOf(m)
  BY <1>7, <1>9
<1> QED BY <1>4, <1>5, <1>8, <1>9, <1>10


\* What the thread may say as it goes on.
Says(m) ==
  LET k == RankOf(m) IN
    /\ k > 0 => StageOf(site.st) <= k
    /\ k \in {1, 2, 3} => k < StageOf(site'.st)
    /\ k = 4 => ~alive'
    /\ k \in {1, 2} => memory'.began
    /\ k = 1 => memory'.failed = 1
    /\ m.kind = "done" => site.st = "finished"

\* The thread goes on, and says what it may.
LEMMA SideMoves ==
  ASSUME TurnInv, alive, SidesShape', HasBegun', UNCHANGED <<turn, going, run>>,
         NEW news \in SUBSET Messages,
         \/ news = {} /\ UNCHANGED port
         \/ \E m \in Messages : news = {m} /\ port' = Append(port, m),
         \A m \in news : Says(m),
         StageOf(site.st) <= StageOf(site'.st),
         site'.st = "finished" => site.st = "finished" \/ \E m \in news : m.kind = "site:done",
         memory.began => memory'.began,
         memory.failed = 1 => memory'.failed = 1,
         site.st \in {"closing", "over"} =>
           site'.st \in {"closing", "over"} /\ memory'.fetched = memory.fetched
  PROVE  TurnInv'
<1> USE DEF TurnInv
<1>1. \A m \in OnPort : RankOf(m) \in 0..4 /\ (RankOf(m) > 0 => RankOf(m) < StageOf(site.st))
  <2> SUFFICES ASSUME NEW m \in OnPort, RankOf(m) > 0 PROVE RankOf(m) < StageOf(site.st)
    BY RankType
  <2>1. RankOf(m) \in {1, 2, 3, 4}
    BY RankType
  <2>2. RankOf(m) # 4
    BY DEF WasSent
  <2> QED BY <2>1, <2>2 DEF WasSent
<1>2. InOrder' /\ OnPort' = OnPort \cup news
  <2>1. CASE news = {} /\ UNCHANGED port
    BY <2>1 DEF InOrder, OnPort
  <2>2. CASE \E m \in Messages : news = {m} /\ port' = Append(port, m)
    <3>1. PICK m \in Messages : news = {m} /\ port' = Append(port, m)
      BY <2>2
    <3>2. ASSUME RankOf(m) > 0, NEW o \in OnPort PROVE RankOf(o) < RankOf(m)
      <4>1. StageOf(site.st) <= RankOf(m)
        BY <3>1, <3>2 DEF Says
      <4>2. RankOf(o) \in 0..4 /\ RankOf(m) \in 0..4 /\ StageOf(site.st) \in 0..4
        BY RankType, StageType
      <4>3. RankOf(o) > 0 => RankOf(o) < StageOf(site.st)
        BY <1>1
      <4> QED BY <3>2, <4>1, <4>2, <4>3
    <3> QED BY <3>1, <3>2, SentLast
  <2> QED BY <2>1, <2>2
<1>3. StageOf(site.st) \in 0..4 /\ StageOf(site'.st) \in 0..4
  BY StageType
<1>4. WasSent'
  <2>1. ASSUME NEW m \in OnPort
        PROVE  /\ RankOf(m) \in {1, 2, 3} => RankOf(m) < StageOf(site'.st)
               /\ RankOf(m) = 4 => ~alive'
               /\ RankOf(m) \in {1, 2} => memory'.began
               /\ RankOf(m) = 1 => memory'.failed = 1
    BY <1>1, <1>3 DEF WasSent
  <2> QED BY <1>2, <2>1 DEF WasSent, Says
<1>5. SaysDone'
  BY <1>2 DEF SaysDone, Says
<1>6. HasGone'
  BY DEF HasGone
<1>7. ASSUME NEW k \in {1, 2, 3}, Past(k) PROVE Past(k)'
  <2>1. \A m \in news : RankOf(m) \notin 1..k
    <3> SUFFICES ASSUME NEW m \in news, RankOf(m) \in 1..k PROVE FALSE
      OBVIOUS
    <3>1. StageOf(site.st) <= RankOf(m)
      BY DEF Says
    <3> QED BY <1>3, <1>7, <3>1 DEF Past
  <2>2. k < StageOf(site'.st)
    BY <1>3, <1>7 DEF Past
  <2>3. \A m \in OnPort : RankOf(m) \notin 1..k
    BY <1>7 DEF Past
  <2> QED BY <1>2, <2>1, <2>2, <2>3 DEF Past
<1>8. NotOver'
  BY <1>7 DEF NotOver
<1>9. IsOver'
  BY <1>7 DEF IsOver, Thread!Deaf
<1> QED BY <1>2, <1>4, <1>5, <1>6, <1>8, <1>9

LEMMA SideMovesOn ==
  ASSUME TurnInv, alive, SidesShape', HasBegun', UNCHANGED <<turn, going, run, port>>,
         StageOf(site.st) <= StageOf(site'.st),
         site'.st = "finished" => site.st = "finished",
         memory.began => memory'.began,
         memory.failed = 1 => memory'.failed = 1,
         site.st \in {"closing", "over"} =>
           site'.st \in {"closing", "over"} /\ memory'.fetched = memory.fetched
  PROVE  TurnInv'
<1> DEFINE news == {}
<1>1. news \in SUBSET Messages /\ \A m \in news : Says(m)
  OBVIOUS
<1>2. news = {} /\ UNCHANGED port
  OBVIOUS
<1> HIDE DEF news
<1> QED BY <1>1, <1>2, SideMoves

\* The site's turn in the thread.
LEMMA SideTurns ==
  ASSUME TurnInv, Thread!Turn
  PROVE  TurnInv'
<1> USE DEF TurnInv
<1>0. alive /\ UNCHANGED <<turn, going, run, alive>> /\ SidesShape /\ HasBegun
  BY DEF Thread!Turn, Thread!Begin, Thread!LoadFails, Thread!Fetch, Thread!Fail, Thread!SayFailed,
         Thread!End, Thread!SayDone, Thread!Done, Thread!Throws, Thread!At, Thread!host
<1>1. ASSUME NEW st \in Stages, Thread!Goto(st)
      PROVE  /\ site'.st = st /\ site'.label = site.label
             /\ DOMAIN site' = {"st", "steps", "label"}
  BY <1>0, <1>1 DEF Thread!Goto, SidesShape
<1>2. ASSUME NEW kind \in Kinds
      PROVE  /\ Thread!Message(kind) \in Messages /\ Thread!Message(kind).kind = kind
             /\ Thread!Send(Thread!Message(kind)) => port' = Append(port, Thread!Message(kind))
  BY DEF Thread!Message, Thread!Send, Messages
<1>3. CASE Thread!Begin
  <2>1. /\ site.st = "loading" /\ site'.st = "running" /\ DOMAIN site' = {"st", "steps", "label"}
        /\ site'.label = site.label
    BY <1>1, <1>3 DEF Thread!Begin, Thread!At, Stages
  <2>2. memory' = [memory EXCEPT !.began = TRUE] /\ UNCHANGED port
    BY <1>3 DEF Thread!Begin, Thread!SetBegan
  <2>3. memory'.began /\ memory'.fetched = memory.fetched /\ memory'.failed = memory.failed
        /\ DOMAIN memory' = DOMAIN memory
    BY <1>0, <2>2 DEF SidesShape
  <2>4. SidesShape' /\ HasBegun'
    BY <1>0, <2>1, <2>3 DEF SidesShape, HasBegun, Stages
  <2> QED BY <1>0, <2>1, <2>2, <2>3, <2>4, SideMovesOn DEF StageOf
<1>4. CASE Thread!Fetch
  <2>1. site.st = "running" /\ memory' = [memory EXCEPT !.fetched = 1] /\ UNCHANGED <<site, port>>
    BY <1>4 DEF Thread!Fetch, Thread!At
  <2>2. memory'.began = memory.began /\ memory'.fetched = 1 /\ memory'.failed = memory.failed
        /\ DOMAIN memory' = DOMAIN memory
    BY <1>0, <2>1 DEF SidesShape
  <2>3. SidesShape' /\ HasBegun'
    BY <1>0, <2>1, <2>2 DEF SidesShape, HasBegun
  <2> QED BY <1>0, <2>1, <2>2, <2>3, StageType, SideMovesOn DEF StageOf
<1>5. CASE Thread!Fail
  <2>1. /\ site.st = "running" /\ site'.st = "failing" /\ DOMAIN site' = {"st", "steps", "label"}
        /\ site'.label = site.label
    BY <1>1, <1>5 DEF Thread!Fail, Thread!At, Stages
  <2>2. memory' = [memory EXCEPT !.failed = 1] /\ UNCHANGED port
    BY <1>5 DEF Thread!Fail
  <2>3. memory'.began = memory.began /\ memory'.fetched = memory.fetched /\ memory'.failed = 1
        /\ DOMAIN memory' = DOMAIN memory
    BY <1>0, <2>2 DEF SidesShape
  <2>4. SidesShape' /\ HasBegun'
    BY <1>0, <2>1, <2>3 DEF SidesShape, HasBegun, Stages
  <2> QED BY <1>0, <2>1, <2>2, <2>3, <2>4, SideMovesOn DEF StageOf
<1>6. CASE Thread!End
  <2>1. /\ site.st = "running" /\ site'.st = "ending" /\ DOMAIN site' = {"st", "steps", "label"}
        /\ site'.label = site.label /\ UNCHANGED <<memory, port>>
    BY <1>1, <1>6 DEF Thread!End, Thread!At, Stages
  <2>2. SidesShape' /\ HasBegun'
    BY <1>0, <2>1 DEF SidesShape, HasBegun, Stages
  <2> QED BY <1>0, <2>1, <2>2, SideMovesOn DEF StageOf
<1>7. ASSUME NEW kind \in {"site:failed", "site:done", "done", "failed"},
             Thread!Send(Thread!Message(kind)), NEW st \in {"ending", "finished", "closing"},
             Thread!Goto(st), UNCHANGED memory,
             \/ kind = "site:failed" /\ site.st = "failing" /\ st = "ending"
             \/ kind = "site:done" /\ site.st = "ending" /\ st = "finished"
             \/ kind = "done" /\ site.st = "finished" /\ st = "closing"
             \/ kind = "failed" /\ site.st \in {"loading", "running", "ending", "finished"} /\ st = "closing"
      PROVE  TurnInv'
  <2> DEFINE m == Thread!Message(kind)
  <2>1. /\ m \in Messages /\ m.kind = kind /\ port' = Append(port, m) /\ site'.st = st
        /\ DOMAIN site' = {"st", "steps", "label"} /\ site'.label = site.label
    BY <1>1, <1>2, <1>7 DEF Kinds, Stages
  <2> HIDE DEF m
  <2>2. SidesShape' /\ HasBegun'
    BY <1>0, <1>7, <2>1 DEF SidesShape, HasBegun, Stages
  <2>3. Says(m)
    BY <1>0, <1>7, <2>1 DEF Says, RankOf, StageOf, HasBegun
  <2>4. StageOf(site.st) <= StageOf(site'.st)
    BY <1>7, <2>1 DEF StageOf
  <2> DEFINE news == {m}
  <2>5. /\ news \in SUBSET Messages /\ \A o \in news : Says(o)
        /\ \E o \in Messages : news = {o} /\ port' = Append(port, o)
        /\ site'.st = "finished" => \E o \in news : o.kind = "site:done"
        /\ site.st \notin {"closing", "over"}
    BY <1>7, <2>1, <2>3
  <2> HIDE DEF news
  <2> QED BY <1>0, <1>7, <2>2, <2>4, <2>5, SideMoves
<1>8. CASE Thread!LoadFails \/ Thread!SayFailed \/ Thread!SayDone \/ Thread!Done \/ Thread!Throws
  BY <1>7, <1>8 DEF Thread!LoadFails, Thread!SayFailed, Thread!SayDone, Thread!Done, Thread!Throws,
                    Thread!At
<1> QED BY <1>3, <1>4, <1>5, <1>6, <1>8 DEF Thread!Turn

\* What else the thread does: counts requests, asks of the cache, closes, dies.
LEMMA SideCounts ==
  ASSUME TurnInv, \/ \E l \in Labels : Thread!Request(l)
                  \/ Thread!Count \/ Thread!Ask \/ Thread!CacheCloses \/ Thread!Die
  PROVE  TurnInv'
<1> USE DEF TurnInv
<1>0. alive /\ UNCHANGED <<turn, going, run>> /\ SidesShape /\ HasBegun
  BY DEF Thread!Request, Thread!Count, Thread!Ask, Thread!CacheCloses, Thread!Die, Thread!At,
         Thread!host, Thread!thread
<1>1. ASSUME /\ DOMAIN site' = DOMAIN site /\ site'.st = site.st /\ site'.label \in Labels \cup {None}
             /\ DOMAIN memory' = DOMAIN memory /\ memory'.began = memory.began
             /\ memory'.fetched = memory.fetched /\ memory'.failed = memory.failed,
             \/ UNCHANGED port
             \/ \E m \in Messages : /\ port' = Append(port, m) /\ m.kind # "done"
                                    /\ RankOf(m) \in {0, 4} /\ (RankOf(m) = 4 => ~alive')
      PROVE  TurnInv'
  <2>1. SidesShape' /\ HasBegun'
    BY <1>0, <1>1 DEF SidesShape, HasBegun
  <2>2. StageOf(site.st) <= StageOf(site'.st)
    BY <1>1, StageType
  <2>3. CASE UNCHANGED port
    BY <1>0, <1>1, <2>1, <2>2, <2>3, SideMovesOn
  <2>4. CASE \E m \in Messages : /\ port' = Append(port, m) /\ m.kind # "done"
                                 /\ RankOf(m) \in {0, 4} /\ (RankOf(m) = 4 => ~alive')
    <3>1. PICK m \in Messages : /\ port' = Append(port, m) /\ m.kind # "done"
                               /\ RankOf(m) \in {0, 4} /\ (RankOf(m) = 4 => ~alive')
      BY <2>4
    <3> DEFINE news == {m}
    <3>2. Says(m)
      BY <3>1, StageType DEF Says
    <3>3. /\ news \in SUBSET Messages /\ \A o \in news : Says(o)
          /\ \E o \in Messages : news = {o} /\ port' = Append(port, o)
      BY <3>1, <3>2
    <3> HIDE DEF news
    <3> QED BY <1>0, <1>1, <2>1, <2>2, <3>3, SideMoves
  <2> QED BY <1>1, <2>3, <2>4
<1>2. ASSUME NEW l \in Labels, Thread!Request(l) PROVE TurnInv'
  <2>1. /\ DOMAIN site' = DOMAIN site /\ site'.st = site.st /\ site'.label = l
        /\ UNCHANGED <<memory, port>>
    BY <1>0, <1>2 DEF Thread!Request, SidesShape
  <2>2. site'.label \in Labels \cup {None}
    BY <2>1
  <2>3. UNCHANGED memory
    BY <2>1
  <2> QED BY <1>1, <2>1, <2>2, <2>3
<1>3. CASE Thread!Count
  <2>1. /\ DOMAIN site' = DOMAIN site /\ site'.st = site.st /\ site'.label = site.label
        /\ site.label \in Labels \cup {None}
    BY <1>0, <1>3 DEF Thread!Count, SidesShape
  <2>2. \/ UNCHANGED port /\ memory' = [memory EXCEPT !.requests[site.label] = @ + 1]
        \/ UNCHANGED memory /\ \E kind \in {"slot", "requested"} :
                                 port' = Append(port, [kind |-> kind, label |-> site.label])
    BY <1>3 DEF Thread!Count, Thread!Send
  <2>3. CASE UNCHANGED port /\ memory' = [memory EXCEPT !.requests[site.label] = @ + 1]
    <3>1. /\ DOMAIN memory' = DOMAIN memory /\ memory'.began = memory.began
          /\ memory'.fetched = memory.fetched /\ memory'.failed = memory.failed
      BY <1>0, <2>3 DEF SidesShape
    <3> QED BY <1>1, <2>1, <2>3, <3>1
  <2>4. CASE UNCHANGED memory /\ \E kind \in {"slot", "requested"} :
                                   port' = Append(port, [kind |-> kind, label |-> site.label])
    <3>1. PICK kind \in {"slot", "requested"} :
            port' = Append(port, [kind |-> kind, label |-> site.label])
      BY <2>4
    <3> DEFINE m == [kind |-> kind, label |-> site.label]
    <3>2. m \in Messages /\ m.kind = kind /\ RankOf(m) = 0
      BY <2>1 DEF Messages, Kinds, RankOf
    <3>3. port' = Append(port, m)
      BY <3>1
    <3> HIDE DEF m
    <3>4. UNCHANGED memory
      BY <2>4
    <3> QED BY <1>1, <2>1, <3>2, <3>3, <3>4
  <2> QED BY <2>2, <2>3, <2>4
<1>4. CASE Thread!Ask \/ Thread!Die
  <2>1. UNCHANGED <<memory, site>>
    BY <1>4 DEF Thread!Ask, Thread!Die, Thread!thread
  <2>2. \/ UNCHANGED port
        \/ \E kind \in {"cache", "close"} : /\ port' = Append(port, Thread!Message(kind))
                                            /\ kind = "close" => ~alive'
    BY <1>4 DEF Thread!Ask, Thread!Die, Thread!Send
  <2>3. CASE UNCHANGED port
    <3>1. site.label \in Labels \cup {None}
      BY <1>0 DEF SidesShape
    <3> QED BY <1>1, <2>1, <2>3, <3>1
  <2>4. CASE \E kind \in {"cache", "close"} : /\ port' = Append(port, Thread!Message(kind))
                                              /\ kind = "close" => ~alive'
    <3>1. PICK kind \in {"cache", "close"} : /\ port' = Append(port, Thread!Message(kind))
                                             /\ kind = "close" => ~alive'
      BY <2>4
    <3> DEFINE m == Thread!Message(kind)
    <3>2. /\ m \in Messages /\ m.kind = kind /\ RankOf(m) \in {0, 4}
          /\ RankOf(m) = 4 => kind = "close"
      BY DEF Messages, Kinds, RankOf, Thread!Message
    <3>3. port' = Append(port, m) /\ (RankOf(m) = 4 => ~alive') /\ m.kind # "done"
      BY <3>1, <3>2
    <3> HIDE DEF m
    <3>4. site.label \in Labels \cup {None}
      BY <1>0 DEF SidesShape
    <3> QED BY <1>1, <2>1, <3>2, <3>3, <3>4
  <2> QED BY <2>2, <2>3, <2>4
<1>5. CASE Thread!CacheCloses
  <2>1. /\ site.st = "closing" /\ site' = [site EXCEPT !.st = "over"] /\ UNCHANGED <<memory, port>>
    BY <1>5 DEF Thread!CacheCloses, Thread!At, Thread!Goto
  <2>2. SidesShape' /\ HasBegun' /\ site'.st = "over"
    BY <1>0, <2>1 DEF SidesShape, HasBegun, Stages
  <2> QED BY <1>0, <2>1, <2>2, SideMovesOn DEF StageOf
<1> QED BY <1>2, <1>3, <1>4, <1>5


\* The run hears one message, and knows the turn past what that says.
LEMMA HeardKeeps ==
  ASSUME TurnInv, port # <<>>, port' = Tail(port), UNCHANGED <<site, memory, alive>>
  PROVE  /\ InOrder' /\ WasSent'
         /\ Head(port) \in Messages /\ Head(port) \in OnPort
         /\ OnPort' \subseteq OnPort /\ OnPort \subseteq OnPort' \cup {Head(port)}
         /\ \A k \in {1, 2, 3} : Past(k) => Past(k)'
         /\ \A k \in {1, 2, 3} : RankOf(Head(port)) = k => Past(k)' /\ ~Past(k)
<1> USE DEF TurnInv
<1>1. /\ InOrder' /\ Head(port) \in Messages /\ Head(port) \in OnPort
      /\ OnPort' \subseteq OnPort /\ OnPort \subseteq OnPort' \cup {Head(port)}
  BY HeardFirst
<1>2. \A m \in OnPort' : RankOf(Head(port)) > 0 /\ RankOf(m) > 0 => RankOf(Head(port)) < RankOf(m)
  BY HeardFirst
<1>3. WasSent'
  BY <1>1 DEF WasSent
<1>4. ASSUME NEW k \in {1, 2, 3}, Past(k) PROVE Past(k)'
  BY <1>1, <1>4 DEF Past
<1>5. ASSUME NEW k \in {1, 2, 3}, RankOf(Head(port)) = k PROVE Past(k)' /\ ~Past(k)
  <2>1. k < StageOf(site.st)
    BY <1>1, <1>5 DEF WasSent
  <2>2. ASSUME NEW m \in OnPort', RankOf(m) \in 1..k PROVE FALSE
    <3>1. RankOf(Head(port)) < RankOf(m)
      BY <1>2, <1>5, <2>2
    <3> QED BY <1>5, <2>2, <3>1
  <2>3. Past(k)'
    BY <2>1, <2>2 DEF Past
  <2>4. ~Past(k)
    BY <1>1, <1>5 DEF Past
  <2> QED BY <2>3, <2>4
<1> QED BY <1>1, <1>3, <1>4, <1>5

\* The turn is over, for whichever came first.
LEMMA TurnEnds ==
  ASSUME SidesShape, HasBegun, NotOver, ~turn.ended, NEW how, Thread!Ended(how),
         UNCHANGED <<memory, site, alive>>, how = "done" => turn.said,
         ~alive \/ site.st \in {"closing", "over"},
         Past(3)' \/ (going'.why /\ going'.closed)
  PROVE  /\ DOMAIN turn' = DOMAIN turn /\ DOMAIN run' = DOMAIN run
         /\ turn'.ended /\ turn'.said = turn.said /\ IsOver'
<1> DEFINE r == Thread!Tallied(run)
<1>1. /\ run.fetched = 0 /\ run.failed = 0 /\ ~run.over
      /\ run.saidDone = (IF turn.said THEN 1 ELSE 0) /\ run.saidFailed \in {0, 1}
      /\ run.saidFailed = 1 => memory.failed = 1
  BY DEF NotOver
<1>2. /\ DOMAIN r = DOMAIN run /\ r.fetched = memory.fetched /\ r.failed = memory.failed
      /\ r.saidDone = run.saidDone /\ r.saidFailed = run.saidFailed /\ r.over = run.over
  BY <1>1 DEF Thread!Tallied, SidesShape
<1>3. memory.fetched \in {0, 1} /\ memory.failed \in {0, 1}
  BY DEF SidesShape
<1> HIDE DEF r
<1>4. CASE how # "done" /\ ~memory.began
  <2>1. /\ turn' = [turn EXCEPT !.ended = TRUE, !.hungUp = TRUE, !.answer = "rejected"]
        /\ run' = Thread!HungUp(r)
    BY <1>4 DEF Thread!Ended, r
  <2>2. /\ turn'.ended /\ turn'.hungUp /\ turn'.answer = "rejected" /\ turn'.said = turn.said
        /\ DOMAIN turn' = DOMAIN turn
    BY <2>1 DEF SidesShape
  <2>3. /\ run'.fetched = r.fetched /\ run'.failed = r.failed /\ run'.saidDone = r.saidDone
        /\ run'.saidFailed = r.saidFailed /\ run'.over = r.over /\ DOMAIN run' = DOMAIN run
    BY <1>2, <2>1 DEF Thread!HungUp, SidesShape
  <2>4. ~turn.said /\ memory.failed = 0 /\ memory.fetched = 0
    BY <1>3, <1>4 DEF HasBegun
  <2> QED BY <1>1, <1>2, <2>2, <2>3, <2>4 DEF IsOver, Thread!Deaf
<1>5. CASE ~(how # "done" /\ ~memory.began)
  <2>1. /\ turn' = [turn EXCEPT !.ended = TRUE, !.answer = "resolved"]
        /\ run' = IF how = "done" \/ turn.said THEN r
                  ELSE LET missing == IF turn.said THEN 0 ELSE Thread!NotCounted(memory) IN
                       [r EXCEPT !.failed = @ + missing, !.saidFailed = @ + missing, !.saidDone = @ + 1]
    BY <1>5 DEF Thread!Ended, r
  <2>2. /\ turn'.ended /\ turn'.hungUp = turn.hungUp /\ turn'.answer = "resolved"
        /\ turn'.said = turn.said /\ DOMAIN turn' = DOMAIN turn
    BY <2>1 DEF SidesShape
  <2>3. Thread!Deaf' \/ Past(3)'
    BY <2>2 DEF Thread!Deaf
  <2>4. /\ DOMAIN run' = DOMAIN run /\ run'.fetched = memory.fetched
        /\ run'.saidDone = 1 /\ run'.saidFailed \in {0, 1} /\ run'.failed \in {0, 1}
        /\ run'.saidFailed = 1 => run'.failed = 1
    <3>1. CASE turn.said
      BY <1>1, <1>2, <1>3, <2>1, <3>1
    <3>2. CASE ~turn.said /\ memory.failed = 0
      <4>1. run' = [r EXCEPT !.failed = @ + 1, !.saidFailed = @ + 1, !.saidDone = @ + 1]
        BY <2>1, <3>2 DEF Thread!NotCounted
      <4>2. r.failed = 0 /\ r.saidFailed = 0 /\ r.saidDone = 0
        BY <1>1, <1>2, <3>2
      <4> QED BY <1>2, <4>1, <4>2 DEF SidesShape
    <3>3. CASE ~turn.said /\ memory.failed = 1
      <4>1. run' = [r EXCEPT !.failed = @ + 0, !.saidFailed = @ + 0, !.saidDone = @ + 1]
        BY <2>1, <3>3 DEF Thread!NotCounted
      <4>2. r.failed = 1 /\ r.saidFailed \in {0, 1} /\ r.saidDone = 0
        BY <1>1, <1>2, <3>3
      <4> QED BY <1>2, <4>1, <4>2 DEF SidesShape
    <3> QED BY <1>3, <3>1, <3>2, <3>3
  <2> QED BY <2>2, <2>3, <2>4 DEF IsOver
<1> QED BY <1>4, <1>5

\* What the run hears.
LEMMA HearKeeps ==
  ASSUME TurnInv, Thread!Hear
  PROVE  TurnInv'
<1> USE DEF TurnInv
<1> DEFINE m == Head(port)
<1>1. /\ port # <<>> /\ port' = Tail(port) /\ ~Thread!Deaf
      /\ UNCHANGED <<memory, site, alive>>
  BY DEF Thread!Hear, Thread!thread
<1>2. /\ InOrder' /\ WasSent' /\ m \in Messages /\ m \in OnPort
      /\ OnPort' \subseteq OnPort /\ OnPort \subseteq OnPort' \cup {m}
  BY <1>1, HeardKeeps
<1>3. \A k \in {1, 2, 3} : (Past(k) => Past(k)') /\ (RankOf(m) = k => Past(k)' /\ ~Past(k))
  BY <1>1, HeardKeeps
<1>4. m.kind \in Kinds
  BY <1>2 DEF Messages
<1> HIDE DEF m
\* What tells nothing of the turn leaves what is known of it.
<1>5. ASSUME turn'.said = turn.said \/ (m.kind = "site:done" /\ turn'.said)
      PROVE  SaysDone' \/ (m.kind = "site:done" /\ ~turn'.said)
  BY <1>1, <1>2, <1>5 DEF SaysDone
<1>6. ASSUME turn'.ended = turn.ended, turn'.hungUp = turn.hungUp, turn'.answer = turn.answer,
             turn'.said = turn.said, going.why => going'.why, going.closed => going'.closed,
             /\ run'.over = run.over /\ run'.fetched = run.fetched /\ run'.failed = run.failed
             /\ run'.saidDone = run.saidDone /\ run'.saidFailed = run.saidFailed
      PROVE  NotOver' /\ IsOver'
  <2>1. NotOver'
    BY <1>1, <1>3, <1>6 DEF NotOver
  <2>2. IsOver'
    BY <1>1, <1>3, <1>6 DEF IsOver, Thread!Deaf
  <2> QED BY <2>1, <2>2
<1>7. CASE m.kind = "site:failed"
  <2>1. run' = [run EXCEPT !.saidFailed = @ + 1] /\ UNCHANGED <<turn, going>>
    BY <1>7 DEF Thread!Hear, m
  <2>2. /\ run'.saidFailed = run.saidFailed + 1 /\ run'.over = run.over /\ run'.fetched = run.fetched
        /\ run'.failed = run.failed /\ run'.saidDone = run.saidDone /\ DOMAIN run' = DOMAIN run
    BY <2>1 DEF SidesShape
  <2>3. RankOf(m) = 1 /\ Past(1)' /\ ~Past(1) /\ memory.failed = 1
    BY <1>2, <1>3, <1>7 DEF RankOf, WasSent
  <2>4. ~Past(3)
    BY <2>3, StageType DEF Past
  <2>5. ~turn.ended
    BY <1>1, <2>4 DEF IsOver
  <2>6. run.saidFailed = 0
    BY <2>3, <2>5 DEF NotOver
  <2>7. run'.saidFailed = 1
    BY <2>2, <2>6
  <2>8. NotOver'
    BY <1>1, <1>3, <2>1, <2>2, <2>3, <2>5, <2>7 DEF NotOver
  <2>9. IsOver'
    BY <2>1, <2>5 DEF IsOver
  <2>10. SidesShape' /\ HasBegun' /\ HasGone' /\ SaysDone'
    BY <1>1, <1>5, <1>7, <2>1, <2>2 DEF SidesShape, HasBegun, HasGone
  <2> QED BY <1>2, <2>8, <2>9, <2>10
<1>8. CASE m.kind = "site:done"
  <2>1. /\ run' = [run EXCEPT !.saidDone = @ + 1] /\ turn' = [turn EXCEPT !.said = TRUE]
        /\ UNCHANGED going
    BY <1>8 DEF Thread!Hear, m
  <2>2. /\ run'.saidDone = run.saidDone + 1 /\ run'.over = run.over /\ run'.fetched = run.fetched
        /\ run'.failed = run.failed /\ run'.saidFailed = run.saidFailed /\ DOMAIN run' = DOMAIN run
    BY <2>1 DEF SidesShape
  <2>3. /\ turn'.said /\ turn'.ended = turn.ended /\ turn'.hungUp = turn.hungUp
        /\ turn'.answer = turn.answer /\ DOMAIN turn' = DOMAIN turn
    BY <2>1 DEF SidesShape
  <2>4. RankOf(m) = 2 /\ Past(2)' /\ ~Past(2) /\ memory.began
    BY <1>2, <1>3, <1>8 DEF RankOf, WasSent
  <2>5. ~Past(3)
    BY <2>4, StageType DEF Past
  <2>6. ~turn.ended
    BY <1>1, <2>5 DEF IsOver
  <2>7. ~turn.said /\ run.saidDone = 0
    BY <2>4, <2>6 DEF NotOver
  <2>8. run'.saidDone = 1
    BY <2>2, <2>7
  <2>9. NotOver'
    BY <1>1, <1>3, <2>2, <2>3, <2>4, <2>6, <2>8 DEF NotOver
  <2>10. IsOver'
    BY <2>3, <2>6 DEF IsOver
  <2>11. SaysDone'
    BY <2>3 DEF SaysDone
  <2>12. SidesShape' /\ HasBegun' /\ HasGone'
    BY <1>1, <2>1, <2>2, <2>3, <2>4 DEF SidesShape, HasBegun, HasGone
  <2> QED BY <1>2, <2>9, <2>10, <2>11, <2>12
<1>9. CASE m.kind \in {"slot", "requested", "cache"}
  <2>1. /\ UNCHANGED <<turn, going>>
        /\ UNCHANGED run \/ run' = [run EXCEPT !.requests[m.label] = @ + 1]
    BY <1>9 DEF Thread!Hear, m
  <2>2. /\ run'.saidFailed = run.saidFailed /\ run'.over = run.over /\ run'.fetched = run.fetched
        /\ run'.failed = run.failed /\ run'.saidDone = run.saidDone /\ DOMAIN run' = DOMAIN run
    BY <2>1 DEF SidesShape
  <2>3. SidesShape' /\ HasBegun' /\ HasGone' /\ SaysDone'
    BY <1>1, <1>5, <1>9, <2>1, <2>2 DEF SidesShape, HasBegun, HasGone
  <2> QED BY <1>2, <1>6, <2>1, <2>2, <2>3
<1>10. ASSUME m.kind \in {"done", "failed"}, NEW how, Thread!Ended(how), UNCHANGED going,
              how = "done" => m.kind = "done"
       PROVE  TurnInv'
  <2>1. RankOf(m) = 3 /\ Past(3)' /\ ~Past(3)
    BY <1>3, <1>10 DEF RankOf
  <2>2. ~turn.ended
    BY <1>1, <2>1 DEF IsOver
  <2>3. site.st \in {"closing", "over"}
    <3>1. 3 < StageOf(site.st)
      BY <1>1, <2>1 DEF Past
    <3>2. \A st \in Stages : st \in {"closing", "over"} \/ StageOf(st) \in {0, 1, 2, 3}
      BY DEF Stages, StageOf
    <3> QED BY <3>1, <3>2 DEF SidesShape
  <2>4. m.kind = "done" => turn.said
    <3>1. SUFFICES ASSUME m.kind = "done", ~turn.said PROVE FALSE
      OBVIOUS
    <3>2. PICK o \in OnPort : o.kind = "site:done"
      BY <1>2, <3>1 DEF SaysDone
    <3>3. RankOf(o) = 2 /\ o # m
      BY <3>1, <3>2 DEF RankOf
    <3>4. o \in OnPort'
      BY <1>2, <3>3
    <3> QED BY <2>1, <3>3, <3>4 DEF Past
  <2>5. /\ DOMAIN turn' = DOMAIN turn /\ DOMAIN run' = DOMAIN run
        /\ turn'.ended /\ turn'.said = turn.said /\ IsOver'
    BY <1>1, <1>10, <2>1, <2>2, <2>3, <2>4, TurnEnds
  <2>6. NotOver'
    BY <2>5 DEF NotOver
  <2>7. SidesShape' /\ HasBegun' /\ HasGone' /\ SaysDone'
    BY <1>1, <1>5, <1>10, <2>5 DEF SidesShape, HasBegun, HasGone
  <2> QED BY <1>2, <2>5, <2>6, <2>7
<1>11. CASE m.kind \in {"done", "failed"}
  <2>1. CASE m.kind = "done"
    BY <1>10, <2>1 DEF Thread!Hear, m
  <2>2. CASE m.kind = "failed"
    BY <1>10, <2>2 DEF Thread!Hear, m
  <2> QED BY <1>11, <2>1, <2>2
<1>12. CASE m.kind = "close"
  <2>1. /\ going' = [going EXCEPT !.closed = TRUE, !.waiting = ~turn.ended /\ ~going.why]
        /\ IF going.why THEN Thread!Ended("went") ELSE UNCHANGED <<turn, run>>
    BY <1>12 DEF Thread!Hear, m
  <2>2. DOMAIN going' = DOMAIN going /\ going'.closed /\ going'.why = going.why
    BY <2>1 DEF SidesShape
  <2>3. ~alive
    BY <1>2, <1>12 DEF WasSent, RankOf
  <2>4. CASE UNCHANGED <<turn, run>>
    <3>1. SidesShape' /\ HasBegun' /\ HasGone' /\ SaysDone'
      BY <1>1, <1>5, <1>12, <2>2, <2>3, <2>4 DEF SidesShape, HasBegun, HasGone
    <3>2. going.closed => going'.closed
      BY <2>2
    <3> QED BY <1>2, <1>6, <2>2, <2>4, <3>1, <3>2
  <2>5. CASE going.why /\ Thread!Ended("went") /\ ~turn.ended
    <3>1. /\ DOMAIN turn' = DOMAIN turn /\ DOMAIN run' = DOMAIN run
          /\ turn'.ended /\ turn'.said = turn.said /\ IsOver'
      BY <1>1, <2>2, <2>3, <2>5, TurnEnds
    <3>2. NotOver'
      BY <3>1 DEF NotOver
    <3>3. SidesShape' /\ HasBegun' /\ HasGone' /\ SaysDone'
      BY <1>1, <1>5, <1>12, <2>2, <2>3, <3>1 DEF SidesShape, HasBegun, HasGone
    <3> QED BY <1>2, <3>1, <3>2, <3>3
  <2>6. turn.ended /\ Thread!Ended("went") => UNCHANGED <<turn, run>>
    BY DEF Thread!Ended
  <2> QED BY <2>1, <2>4, <2>5, <2>6
<1> QED BY <1>4, <1>7, <1>8, <1>9, <1>11, <1>12 DEF Kinds

\* The run hears why its thread went, waits no longer, or is done.
LEMMA HostSteps ==
  ASSUME TurnInv, Thread!HearWhy \/ Thread!GiveUp \/ Thread!RunEnds
  PROVE  TurnInv'
<1> USE DEF TurnInv
<1>1. UNCHANGED <<memory, site, alive, port>>
  BY DEF Thread!HearWhy, Thread!GiveUp, Thread!RunEnds, Thread!thread
<1>2. /\ InOrder' /\ WasSent' /\ OnPort' = OnPort
      /\ \A k \in {1, 2, 3} : Past(k) => Past(k)'
  BY <1>1 DEF InOrder, WasSent, OnPort, Past
<1>3. ASSUME ~alive, ~turn.ended, DOMAIN going' = DOMAIN going, going'.why, going'.closed,
             Thread!Ended("went")
      PROVE  TurnInv'
  <2>1. /\ DOMAIN turn' = DOMAIN turn /\ DOMAIN run' = DOMAIN run
        /\ turn'.ended /\ turn'.said = turn.said /\ IsOver'
    BY <1>1, <1>3, TurnEnds
  <2>2. NotOver'
    BY <2>1 DEF NotOver
  <2>3. SidesShape' /\ HasBegun' /\ HasGone' /\ SaysDone'
    BY <1>1, <1>2, <1>3, <2>1 DEF SidesShape, HasBegun, HasGone, SaysDone
  <2> QED BY <1>2, <2>1, <2>2, <2>3
<1>4. CASE Thread!HearWhy
  <2>1. /\ ~alive /\ ~turn.ended /\ going' = [going EXCEPT !.why = TRUE, !.waiting = ~going.closed]
        /\ IF ~going.closed THEN UNCHANGED <<turn, run>> ELSE Thread!Ended("went")
    BY <1>4 DEF Thread!HearWhy, Thread!Half
  <2>2. DOMAIN going' = DOMAIN going /\ going'.why /\ going'.closed = going.closed
    BY <2>1 DEF SidesShape
  <2>3. CASE going.closed
    BY <1>3, <2>1, <2>2, <2>3
  <2>4. CASE ~going.closed
    <3>1. UNCHANGED <<turn, run>>
      BY <2>1, <2>4
    <3>2. SidesShape' /\ HasBegun' /\ HasGone' /\ SaysDone'
      BY <1>1, <1>2, <2>1, <2>2, <3>1 DEF SidesShape, HasBegun, HasGone, SaysDone
    <3>3. NotOver' /\ IsOver'
      BY <1>1, <1>2, <2>1, <3>1 DEF NotOver, IsOver
    <3> QED BY <1>2, <3>2, <3>3
  <2> QED BY <2>3, <2>4
<1>5. CASE Thread!GiveUp
  <2>1. /\ going.waiting /\ ~turn.ended /\ going' = [why |-> TRUE, closed |-> TRUE, waiting |-> FALSE]
        /\ Thread!Ended("went")
    BY <1>5 DEF Thread!GiveUp, Thread!GraceOver
  <2>2. ~alive /\ DOMAIN going' = DOMAIN going /\ going'.why /\ going'.closed
    BY <2>1 DEF HasGone, SidesShape
  <2> QED BY <1>3, <2>1, <2>2
<1>6. CASE Thread!RunEnds
  <2>1. turn.ended /\ ~run.over /\ UNCHANGED going
    BY <1>6 DEF Thread!RunEnds, NotOver
  <2>2. CASE turn.answer = "rejected"
    <3>1. /\ run' = [run EXCEPT !.over = TRUE, !.failed = @ + 1, !.saidFailed = @ + 1, !.saidDone = @ + 1]
          /\ UNCHANGED turn
      BY <1>6, <2>2 DEF Thread!RunEnds
    <3>2. run.failed = 0 /\ run.saidFailed = 0 /\ run.saidDone = 0
      BY <2>1, <2>2 DEF IsOver
    <3>3. /\ run'.failed = 1 /\ run'.saidFailed = 1 /\ run'.saidDone = 1 /\ run'.over
          /\ run'.fetched = run.fetched /\ DOMAIN run' = DOMAIN run
      BY <3>1, <3>2 DEF SidesShape
    <3>4. IsOver'
      BY <1>1, <1>2, <2>1, <2>2, <3>1, <3>3 DEF IsOver, Thread!Deaf
    <3>5. NotOver'
      BY <2>1, <3>1 DEF NotOver
    <3>6. SidesShape' /\ HasBegun' /\ HasGone' /\ SaysDone'
      BY <1>1, <1>2, <2>1, <3>1, <3>3 DEF SidesShape, HasBegun, HasGone, SaysDone
    <3> QED BY <1>2, <3>4, <3>5, <3>6
  <2>3. CASE turn.answer # "rejected"
    <3>1. turn' = [turn EXCEPT !.hungUp = TRUE] /\ run' = [Thread!HungUp(run) EXCEPT !.over = TRUE]
      BY <1>6, <2>3 DEF Thread!RunEnds
    <3>2. /\ turn'.hungUp /\ turn'.ended = turn.ended /\ turn'.said = turn.said
          /\ turn'.answer = turn.answer /\ DOMAIN turn' = DOMAIN turn
      BY <3>1 DEF SidesShape
    <3>3. /\ run'.failed = run.failed /\ run'.saidFailed = run.saidFailed
          /\ run'.saidDone = run.saidDone /\ run'.fetched = run.fetched /\ DOMAIN run' = DOMAIN run
      BY <3>1 DEF SidesShape, Thread!HungUp
    <3>4. IsOver'
      BY <1>1, <2>1, <2>3, <3>2, <3>3 DEF IsOver, Thread!Deaf
    <3>5. NotOver'
      BY <2>1, <3>2 DEF NotOver
    <3>6. SidesShape' /\ HasBegun' /\ HasGone' /\ SaysDone'
      BY <1>1, <1>2, <2>1, <3>2, <3>3 DEF SidesShape, HasBegun, HasGone, SaysDone
    <3> QED BY <1>2, <3>4, <3>5, <3>6
  <2> QED BY <2>2, <2>3
<1> QED BY <1>4, <1>5, <1>6

LEMMA TurnNext == TurnInv /\ [MCNext]_all => TurnInv'
<1> SUFFICES ASSUME TurnInv, [MCNext]_all PROVE TurnInv'
  OBVIOUS
<1>1. CASE UNCHANGED <<memory, site, alive, port, turn, going, run>>
  BY <1>1 DEF TurnInv, SidesShape, InOrder, WasSent, OnPort, SaysDone, HasBegun, HasGone, NotOver,
              IsOver, Past, Thread!Deaf
<1>2. CASE UNCHANGED ofThread
  BY <1>1, <1>2 DEF ofThread
<1>3. CASE Thread!Answer \/ Thread!Back
  BY <1>1, <1>3 DEF Thread!Answer, Thread!Back, Thread!thread, Thread!host
<1>4. CASE Thread!Next
  BY <1>3, <1>4, SideTurns, SideCounts, HearKeeps, HostSteps DEF Thread!Next
<1> QED BY <1>2, <1>4 DEF MCNext, OfDocument, OfRequests, InThread, all

\* However the turn of a site in a thread ends -- done, failed, thrown out of, its
\* thread gone at any step, with any delay of what it sent -- the run hears one
\* site:done, a failure and a count of it once at most, and has what it fetched
\* (hostSite and workSite in src/grabber/thread.ts).
THEOREM ThreadSaysOnce == MCSpec => []SaidOnce
<1>1. TurnInv => SaidOnce
  <2> SUFFICES ASSUME TurnInv PROVE SaidOnce
    OBVIOUS
  <2>1. CASE turn.ended
    <3>1. CASE turn.answer = "resolved"
      BY <2>1, <3>1 DEF TurnInv, IsOver, SaidOnce, Thread!SaidOnce
    <3>2. CASE turn.answer = "rejected"
      BY <2>1, <3>2 DEF TurnInv, IsOver, SaidOnce, Thread!SaidOnce
    <3> QED BY <2>1, <3>1, <3>2 DEF TurnInv, IsOver
  <2>2. CASE ~turn.ended
    BY <2>2 DEF TurnInv, NotOver, SaidOnce, Thread!SaidOnce
  <2> QED BY <2>1, <2>2
<1> QED BY <1>1, TurnInit, TurnNext, PTL DEF MCSpec

-----------------------------------------------------------------------------
(* What a thread counts of its requests.                                   *)

\* Where on the port a request is said as it is, a label is named, and what was
\* sent before the site's word that it is done.
SaidOf(l) == {i \in 1..Len(port) : port[i].kind = "requested" /\ port[i].label = l}
NamedOf(l) == {i \in 1..Len(port) : port[i].kind = "slot" /\ port[i].label = l}
BeforeDone == {i \in 1..Len(port) : \E j \in 1..Len(port) : i < j /\ port[j].kind = "done"}

\* The site is in the middle of a count of a label, at a step of it.
Amid(l, step) == site.steps # <<>> /\ site.label = l /\ Head(site.steps) = step
AmidOne(l, step) == IF Amid(l, step) THEN 1 ELSE 0

CountsShape ==
  /\ memory.requests \in [Labels -> Nat] /\ run.requests \in [Labels -> Nat]
  /\ DOMAIN counted = {"made", "atDone"}
  /\ counted.made \in [Labels -> Nat] /\ counted.atDone \in [Labels -> Nat]
  /\ slotted \in [Labels -> {"new", "slot", "none"}]
  /\ site.steps \in {<<>>, <<"add">>, <<"name">>, <<"add", "name">>, <<"say">>}
  /\ \A l \in Labels : Amid(l, "name") => memory.requests[l] > 0

\* Of a label that was not counted under yet, one with no room, and one with a
\* slot: where its requests are, and those made by the time the site was done.
OfNew(l) ==
  /\ counted.made[l] = 0 /\ counted.atDone[l] = 0
  /\ memory.requests[l] = 0 /\ run.requests[l] = 0 /\ SaidOf(l) = {}
  /\ site.steps # <<>> => site.label # l
OfNone(l) ==
  /\ run.requests[l] + Cardinality(SaidOf(l)) + AmidOne(l, "say") = counted.made[l]
  /\ counted.atDone[l] <= run.requests[l] + Cardinality(SaidOf(l) \cap BeforeDone)
  /\ ~Amid(l, "add") /\ ~Amid(l, "name")
OfSlot(l) ==
  /\ SaidOf(l) = {} /\ ~Amid(l, "say")
  /\ memory.requests[l] + AmidOne(l, "add") = counted.made[l]
  /\ counted.atDone[l] <= memory.requests[l] /\ run.requests[l] <= memory.requests[l]
  /\ ~turn.hungUp => run.requests[l] = 0
  /\ run.over /\ turn.said /\ ~going.why => counted.atDone[l] <= run.requests[l]
\* A slot is named once its count is in it, and before the site is done.
IsNamed(l) ==
  /\ \/ l \in heard \/ NamedOf(l) # {}
     \/ site.label = l /\ site.steps \in {<<"name">>, <<"add", "name">>}
  /\ counted.atDone[l] > 0 => l \in heard \/ NamedOf(l) \cap BeforeDone # {}
Accounted(l) ==
  /\ slotted[l] = "new" => OfNew(l)
  /\ slotted[l] = "none" => OfNone(l)
  /\ slotted[l] = "slot" => OfSlot(l) /\ IsNamed(l)
  /\ l \in heard \/ NamedOf(l) # {} => slotted[l] = "slot" /\ memory.requests[l] > 0
\* A turn over by its own word is one whose word was heard; and one hung up on is
\* over, before the run is only if its site never began.
EndsByWord ==
  /\ turn.ended /\ ~going.why => Past(3)
  /\ turn.hungUp => turn.answer = "rejected" \/ run.over
  /\ turn.answer = "rejected" => ~turn.said /\ turn.hungUp
CountsInv == CountsShape /\ EndsByWord /\ \A l \in Labels : Accounted(l)

LEMMA CountsInit == MCInit => CountsInv
<1> SUFFICES ASSUME MCInit PROVE CountsInv
  OBVIOUS
<1> USE DEF MCInit, Thread!Init
<1>1. /\ memory.requests = [l \in Labels |-> 0] /\ run.requests = [l \in Labels |-> 0]
      /\ site.steps = <<>> /\ port = <<>> /\ Len(port) = 0 /\ heard = {}
      /\ counted = [made |-> [l \in Labels |-> 0], atDone |-> [l \in Labels |-> 0]]
      /\ slotted = [l \in Labels |-> "new"]
  OBVIOUS
<1>2. \A l \in Labels : SaidOf(l) = {} /\ NamedOf(l) = {}
  BY <1>1 DEF SaidOf, NamedOf
<1>3. CountsShape
  BY <1>1 DEF CountsShape, Amid
<1>4. EndsByWord
  BY DEF EndsByWord
<1>5. ASSUME NEW l \in Labels PROVE Accounted(l)
  BY <1>1, <1>2 DEF Accounted, OfNew
<1> QED BY <1>3, <1>4, <1>5 DEF CountsInv

\* What is sent comes after all that is on the port.
LEMMA PortGrows ==
  ASSUME InOrder, NEW m \in Messages, port' = Append(port, m)
  PROVE  /\ Len(port) \in Nat /\ port \in Seq(Messages)
         /\ BeforeDone' = (IF m.kind = "done" THEN 1..Len(port) ELSE BeforeDone)
         /\ \A l \in Labels :
              /\ SaidOf(l)' = (IF m.kind = "requested" /\ m.label = l
                                 THEN SaidOf(l) \cup {Len(port) + 1} ELSE SaidOf(l))
              /\ NamedOf(l)' = (IF m.kind = "slot" /\ m.label = l
                                  THEN NamedOf(l) \cup {Len(port) + 1} ELSE NamedOf(l))
<1>1. /\ port \in Seq(Messages) /\ Len(port') = Len(port) + 1 /\ port'[Len(port) + 1] = m
      /\ \A i \in 1..Len(port) : port'[i] = port[i]
      /\ Len(port) \in Nat
  BY AppendProperties DEF InOrder
<1>2. /\ \A i \in 1..Len(port') : i \in 1..Len(port) \/ i = Len(port) + 1
      /\ \A i \in 1..Len(port) : i \in 1..Len(port') /\ i < Len(port) + 1
      /\ Len(port) + 1 \in 1..Len(port') /\ \A i \in 1..Len(port') : ~(Len(port) + 1 < i)
  BY <1>1
<1>3. BeforeDone' = (IF m.kind = "done" THEN 1..Len(port) ELSE BeforeDone)
  <2>1. BeforeDone' = {i \in 1..Len(port') : \E j \in 1..Len(port') : i < j /\ port'[j].kind = "done"}
    BY DEF BeforeDone
  <2>2. ASSUME m.kind = "done" PROVE BeforeDone' = 1..Len(port)
    BY <1>1, <1>2, <2>1, <2>2
  <2>3. ASSUME m.kind # "done" PROVE BeforeDone' = BeforeDone
    <3>1. ASSUME NEW i \in BeforeDone' PROVE i \in BeforeDone
      <4>1. PICK j \in 1..Len(port') : i \in 1..Len(port') /\ i < j /\ port'[j].kind = "done"
        BY <2>1, <3>1
      <4>2. j # Len(port) + 1
        BY <1>1, <2>3, <4>1
      <4>3. j \in 1..Len(port) /\ i \in 1..Len(port)
        BY <1>2, <4>1, <4>2
      <4> QED BY <1>1, <4>1, <4>3 DEF BeforeDone
    <3>2. ASSUME NEW i \in BeforeDone PROVE i \in BeforeDone'
      <4>1. PICK j \in 1..Len(port) : i \in 1..Len(port) /\ i < j /\ port[j].kind = "done"
        BY <3>2 DEF BeforeDone
      <4> QED BY <1>1, <1>2, <2>1, <4>1
    <3> QED BY <3>1, <3>2
  <2> QED BY <2>2, <2>3
<1>4. ASSUME NEW l \in Labels
      PROVE  SaidOf(l)' = (IF m.kind = "requested" /\ m.label = l
                             THEN SaidOf(l) \cup {Len(port) + 1} ELSE SaidOf(l))
  BY <1>1, <1>2 DEF SaidOf
<1>5. ASSUME NEW l \in Labels
      PROVE  NamedOf(l)' = (IF m.kind = "slot" /\ m.label = l
                              THEN NamedOf(l) \cup {Len(port) + 1} ELSE NamedOf(l))
  BY <1>1, <1>2 DEF NamedOf
<1> QED BY <1>1, <1>3, <1>4, <1>5

\* What is heard is gone from the port, and all that is behind it moves up.
LEMMA PortMoves ==
  ASSUME InOrder, port # <<>>, port' = Tail(port)
  PROVE  /\ Len(port) \in Nat /\ 1 \in 1..Len(port) /\ Len(port') = Len(port) - 1
         /\ Head(port) = port[1]
         /\ \A i \in 1..Len(port') : i + 1 \in 1..Len(port) /\ port'[i] = port[i + 1]
         /\ \A i \in 1..Len(port) : i = 1 \/ (i - 1 \in 1..Len(port') /\ (i - 1) + 1 = i)
         /\ BeforeDone' = {i \in 1..Len(port') : i + 1 \in BeforeDone}
         /\ \A l \in Labels : /\ SaidOf(l)' = {i \in 1..Len(port') : i + 1 \in SaidOf(l)}
                              /\ NamedOf(l)' = {i \in 1..Len(port') : i + 1 \in NamedOf(l)}
<1>1. /\ Len(port') = Len(port) - 1 /\ Head(port) = port[1]
      /\ \A i \in 1..Len(port') : port'[i] = port[i + 1]
      /\ Len(port) \in Nat /\ Len(port) >= 1
  BY HeadTailProperties DEF InOrder
<1>2. /\ \A i \in 1..Len(port') : i + 1 \in 1..Len(port)
      /\ \A i \in 1..Len(port) : i = 1 \/ (i - 1 \in 1..Len(port') /\ (i - 1) + 1 = i)
      /\ 1 \in 1..Len(port)
  BY <1>1
<1>3. BeforeDone' = {i \in 1..Len(port') : \E j \in 1..Len(port') : i < j /\ port'[j].kind = "done"}
  BY DEF BeforeDone
<1>4. ASSUME NEW i \in 1..Len(port') PROVE i \in BeforeDone' <=> i + 1 \in BeforeDone
  <2>1. ASSUME i \in BeforeDone' PROVE i + 1 \in BeforeDone
    <3>1. PICK j \in 1..Len(port') : i < j /\ port'[j].kind = "done"
      BY <1>3, <2>1
    <3>2. i + 1 < j + 1
      BY <1>1, <3>1
    <3> QED BY <1>1, <1>2, <3>1, <3>2 DEF BeforeDone
  <2>2. ASSUME i + 1 \in BeforeDone PROVE i \in BeforeDone'
    <3>1. PICK j \in 1..Len(port) : i + 1 < j /\ port[j].kind = "done"
      BY <2>2 DEF BeforeDone
    <3>2. j # 1 /\ i < j - 1
      BY <1>1, <3>1
    <3>3. j - 1 \in 1..Len(port') /\ port'[j - 1] = port[j]
      BY <1>1, <1>2, <3>1, <3>2
    <3> QED BY <1>3, <3>1, <3>2, <3>3
  <2> QED BY <2>1, <2>2
<1>5. BeforeDone' = {i \in 1..Len(port') : i + 1 \in BeforeDone}
  BY <1>3, <1>4
<1>6. ASSUME NEW l \in Labels
      PROVE  /\ SaidOf(l)' = {i \in 1..Len(port') : i + 1 \in SaidOf(l)}
             /\ NamedOf(l)' = {i \in 1..Len(port') : i + 1 \in NamedOf(l)}
  BY <1>1, <1>2 DEF SaidOf, NamedOf
<1> QED BY <1>1, <1>2, <1>5, <1>6

\* A set of places of which the first is given up is smaller by one where it was
\* in it.
LEMMA MovedUp ==
  ASSUME NEW n0 \in Nat, NEW S \in SUBSET (1..n0), n0 > 0,
         NEW T, T = {i \in 1..(n0 - 1) : i + 1 \in S}
  PROVE  /\ Cardinality(S) \in Nat /\ Cardinality(T) \in Nat
         /\ Cardinality(S) = Cardinality(T) + (IF 1 \in S THEN 1 ELSE 0)
<1> DEFINE f == [i \in S \ {1} |-> i - 1]
<1>1. IsFiniteSet(S)
  <2>1. IsFiniteSet(1..n0)
    BY FS_Interval
  <2> QED BY <2>1, FS_Subset
<1>2. f \in Bijection(S \ {1}, T)
  <2>1. \A i \in T : i + 1 \in S \ {1} /\ (i + 1) - 1 = i
    OBVIOUS
  <2>2. \A i \in S \ {1} : i - 1 \in T /\ i \in Int
    OBVIOUS
  <2>3. f \in [S \ {1} -> T]
    BY <2>2
  <2>4. \A i, j \in S \ {1} : f[i] = f[j] => i = j
    BY <2>2
  <2>5. \A i \in T : \E j \in S \ {1} : f[j] = i
    BY <2>1
  <2> QED BY <2>3, <2>4, <2>5 DEF Bijection, Injection, Surjection, IsInjective
<1>3. IsFiniteSet(S \ {1}) /\ Cardinality(S \ {1}) = Cardinality(S) - (IF 1 \in S THEN 1 ELSE 0)
  <2>1. Cardinality(S) \in Nat
    BY <1>1, FS_CardinalityType
  <2>2. /\ IsFiniteSet(S \ {1})
        /\ Cardinality(S \ {1}) = IF 1 \in S THEN Cardinality(S) - 1 ELSE Cardinality(S)
    BY <1>1, FS_RemoveElement
  <2> QED BY <2>1, <2>2
<1>4. IsFiniteSet(T) /\ Cardinality(T) = Cardinality(S \ {1})
  <2>1. ExistsBijection(S \ {1}, T)
    BY <1>2 DEF ExistsBijection
  <2> HIDE DEF f
  <2> QED BY <1>3, <2>1, FS_Bijection
<1>5. Cardinality(S) \in Nat /\ Cardinality(T) \in Nat
  BY <1>1, <1>4, FS_CardinalityType
<1> QED BY <1>3, <1>4, <1>5

\* What does nothing to a label leaves what is accounted for it.
LEMMA AccountedSame ==
  ASSUME NEW l \in Labels, Accounted(l), BeforeDone' = BeforeDone,
         SaidOf(l)' = SaidOf(l), NamedOf(l)' = NamedOf(l),
         slotted'[l] = slotted[l], memory'.requests[l] = memory.requests[l],
         run'.requests[l] = run.requests[l],
         counted'.made[l] = counted.made[l], counted'.atDone[l] = counted.atDone[l],
         l \in heard' <=> l \in heard, turn.hungUp => turn'.hungUp,
         run'.over /\ turn'.said /\ ~going'.why => run.over /\ turn.said /\ ~going.why,
         \/ site'.steps = site.steps /\ site'.label = site.label
         \/ site.steps = <<>> /\ site'.label # l
         \/ site.label # l /\ site'.label = site.label
  PROVE  Accounted(l)'
<1> USE DEF Accounted
<1>1. \A step : Amid(l, step)' <=> Amid(l, step)
  BY DEF Amid
<1>2. \A step : AmidOne(l, step)' = AmidOne(l, step)
  BY <1>1 DEF AmidOne
<1>3. OfNew(l) => OfNew(l)'
  BY DEF OfNew
<1>4. OfNone(l) => OfNone(l)'
  BY <1>1, <1>2 DEF OfNone
<1>5. OfSlot(l) => OfSlot(l)'
  BY <1>1, <1>2 DEF OfSlot
<1>6. (site.label = l /\ site.steps \in {<<"name">>, <<"add", "name">>})'
      <=> (site.label = l /\ site.steps \in {<<"name">>, <<"add", "name">>})
  <2>1. <<>> \notin {<<"name">>, <<"add", "name">>}
    OBVIOUS
  <2> QED BY <2>1
<1>7. IsNamed(l) => IsNamed(l)'
  BY <1>6 DEF IsNamed
<1> QED BY <1>3, <1>4, <1>5, <1>7

\* A step of neither a count, a label, a request said nor the word done.
Indifferent ==
  /\ UNCHANGED <<slotted, heard, counted>>
  /\ memory'.requests = memory.requests /\ run'.requests = run.requests
  /\ site'.steps = site.steps /\ site'.label = site.label
  /\ \/ UNCHANGED port
     \/ \E m \in Messages : port' = Append(port, m) /\ m.kind \notin {"requested", "slot", "done"}

LEMMA CountsKeep ==
  ASSUME InOrder, CountsShape, \A l \in Labels : Accounted(l), Indifferent, EndsByWord',
         turn.hungUp => turn'.hungUp,
         run'.over /\ turn'.said /\ ~going'.why => run.over /\ turn.said /\ ~going.why
  PROVE  CountsInv'
<1>1. /\ BeforeDone' = BeforeDone
      /\ \A l \in Labels : SaidOf(l)' = SaidOf(l) /\ NamedOf(l)' = NamedOf(l)
  <2>1. CASE UNCHANGED port
    BY <2>1 DEF BeforeDone, SaidOf, NamedOf
  <2>2. CASE \E m \in Messages : /\ port' = Append(port, m)
                                 /\ m.kind \notin {"requested", "slot", "done"}
    BY <2>2, PortGrows
  <2> QED BY <2>1, <2>2 DEF Indifferent
<1>2. CountsShape'
  BY DEF CountsShape, Indifferent, Amid
<1>3. \A l \in Labels : Accounted(l)'
  BY <1>1, AccountedSame DEF Indifferent
<1> QED BY <1>2, <1>3 DEF CountsInv

\* What rank a turn is past it stays past.
LEMMA PastStays ==
  ASSUME TurnInv, Thread!Next, Past(3)
  PROVE  Past(3)'
<1> USE DEF TurnInv
<1>1. site.st \in {"closing", "over"}
  <2>1. \A st \in Stages : st \in {"closing", "over"} \/ StageOf(st) \in {0, 1, 2, 3}
    BY DEF Stages, StageOf
  <2> QED BY <2>1 DEF SidesShape, Past
<1>2. \A st \in {"closing", "over"} : StageOf(st) = 4
  BY DEF StageOf
<1>3. ASSUME UNCHANGED <<port, site>> PROVE Past(3)'
  BY <1>3 DEF Past, OnPort
<1>4. ASSUME alive, site'.st \in {"closing", "over"}, NEW m \in Messages, RankOf(m) \in {0, 4},
             port' = Append(port, m)
      PROVE  Past(3)'
  <2>1. OnPort' = OnPort \cup {m}
    <3>1. ASSUME RankOf(m) > 0, NEW o \in OnPort PROVE RankOf(o) < RankOf(m)
      <4>1. RankOf(o) # 4
        BY <1>4, <3>1 DEF WasSent
      <4> QED BY <1>4, <3>1, <4>1, RankType
    <3> QED BY <1>4, <3>1, SentLast
  <2> QED BY <1>2, <1>4, <2>1 DEF Past
<1>5. CASE Thread!Turn \/ Thread!Ask
  BY <1>1, <1>5 DEF Thread!Turn, Thread!Begin, Thread!LoadFails, Thread!Fetch, Thread!Fail,
                    Thread!SayFailed, Thread!End, Thread!SayDone, Thread!Done, Thread!Throws,
                    Thread!Ask, Thread!At
<1>6. CASE \E l \in Labels : Thread!Request(l)
  <2>1. site'.st = site.st /\ UNCHANGED port
    BY <1>6 DEF Thread!Request, SidesShape
  <2> QED BY <2>1 DEF Past, OnPort
<1>7. CASE Thread!Count
  <2>1. /\ alive /\ site'.st = site.st /\ site.label \in Labels \cup {None}
        /\ \/ UNCHANGED port
           \/ \E kind \in {"slot", "requested"} :
                port' = Append(port, [kind |-> kind, label |-> site.label])
    BY <1>7 DEF Thread!Count, Thread!Send, SidesShape
  <2>2. CASE UNCHANGED port
    BY <2>1, <2>2 DEF Past, OnPort
  <2>3. ASSUME NEW kind \in {"slot", "requested"},
               port' = Append(port, [kind |-> kind, label |-> site.label])
        PROVE  Past(3)'
    <3> DEFINE m == [kind |-> kind, label |-> site.label]
    <3>1. m \in Messages /\ RankOf(m) = 0 /\ port' = Append(port, m)
      BY <2>1, <2>3 DEF Messages, Kinds, RankOf
    <3> HIDE DEF m
    <3> QED BY <1>1, <1>4, <2>1, <3>1
  <2> QED BY <2>1, <2>2, <2>3
<1>8. CASE Thread!Die
  <2>1. /\ alive /\ UNCHANGED site
        /\ UNCHANGED port \/ port' = Append(port, Thread!Message("close"))
    BY <1>8 DEF Thread!Die, Thread!Send
  <2> DEFINE m == Thread!Message("close")
  <2>2. m \in Messages /\ RankOf(m) = 4
    BY DEF Thread!Message, Messages, Kinds, RankOf
  <2>3. UNCHANGED port \/ port' = Append(port, m)
    BY <2>1
  <2> HIDE DEF m
  <2> QED BY <1>1, <1>3, <1>4, <2>1, <2>2, <2>3
<1>9. CASE Thread!CacheCloses
  <2>1. site'.st = "over" /\ UNCHANGED port
    BY <1>9 DEF Thread!CacheCloses, Thread!Goto, SidesShape
  <2> QED BY <1>2, <2>1 DEF Past, OnPort
<1>10. CASE Thread!Hear
  BY <1>10, HeardKeeps DEF Thread!Hear, Thread!thread
<1>11. CASE Thread!Answer \/ Thread!Back \/ Thread!HearWhy \/ Thread!GiveUp \/ Thread!RunEnds
  BY <1>3, <1>11 DEF Thread!Answer, Thread!Back, Thread!HearWhy, Thread!GiveUp, Thread!RunEnds,
                     Thread!thread
<1> QED BY <1>5, <1>6, <1>7, <1>8, <1>9, <1>10, <1>11 DEF Thread!Next

\* How a turn ended goes by what was heard of it.
LEMMA EndsNext ==
  ASSUME TurnInv, EndsByWord, Thread!Next
  PROVE  EndsByWord'
<1> USE DEF TurnInv
<1>1. Past(3) => Past(3)'
  BY PastStays
<1>2. CASE UNCHANGED <<turn, going, run>>
  BY <1>1, <1>2 DEF EndsByWord
<1>3. ASSUME ~turn.ended, NEW how, Thread!Ended(how), Past(3)' \/ going'.why,
             how = "done" => turn.said
      PROVE  EndsByWord'
  <2>1. CASE how # "done" /\ ~memory.began
    <3>1. turn' = [turn EXCEPT !.ended = TRUE, !.hungUp = TRUE, !.answer = "rejected"]
      BY <1>3, <2>1 DEF Thread!Ended
    <3>2. ~turn.said
      BY <2>1 DEF HasBegun
    <3>3. turn'.hungUp /\ turn'.answer = "rejected" /\ ~turn'.said
      BY <3>1, <3>2 DEF SidesShape
    <3> QED BY <1>3, <3>3 DEF EndsByWord
  <2>2. CASE ~(how # "done" /\ ~memory.began)
    <3>1. turn' = [turn EXCEPT !.ended = TRUE, !.answer = "resolved"]
      BY <1>3, <2>2 DEF Thread!Ended
    <3>2. turn'.hungUp = turn.hungUp /\ turn'.answer = "resolved"
      BY <3>1 DEF SidesShape
    <3>3. ~turn.hungUp
      BY <1>3 DEF NotOver
    <3> QED BY <1>3, <3>2, <3>3 DEF EndsByWord
  <2> QED BY <2>1, <2>2
<1>4. ASSUME turn.ended, NEW how, Thread!Ended(how), going.why => going'.why
      PROVE  EndsByWord'
  <2>1. UNCHANGED <<turn, run>>
    BY <1>4 DEF Thread!Ended
  <2> QED BY <1>1, <1>4, <2>1 DEF EndsByWord
<1>5. ASSUME turn'.ended = turn.ended, turn'.hungUp = turn.hungUp, turn'.answer = turn.answer,
             turn'.said = turn.said \/ turn.answer # "rejected",
             going.why => going'.why, run.over => run'.over
      PROVE  EndsByWord'
  BY <1>1, <1>5 DEF EndsByWord
<1>6. CASE Thread!Hear
  <2> DEFINE m == Head(port)
  <2>1. /\ port # <<>> /\ port' = Tail(port) /\ ~Thread!Deaf
        /\ UNCHANGED <<memory, site, alive>>
    BY <1>6 DEF Thread!Hear, Thread!thread
  <2>2. m \in Messages /\ m \in OnPort /\ OnPort \subseteq OnPort' \cup {m}
    BY <2>1, HeardKeeps
  <2>3. \A k \in {1, 2, 3} : RankOf(m) = k => Past(k)' /\ ~Past(k)
    BY <2>1, HeardKeeps
  <2>4. m.kind \in Kinds
    BY <2>2 DEF Messages
  <2> HIDE DEF m
  <2>5. CASE m.kind \in {"site:failed", "requested"}
    <3>1. /\ UNCHANGED <<turn, going>>
          /\ \/ run' = [run EXCEPT !.saidFailed = @ + 1]
             \/ run' = [run EXCEPT !.requests[m.label] = @ + 1]
      BY <1>6, <2>5 DEF Thread!Hear, m
    <3>2. run'.over = run.over
      BY <3>1 DEF SidesShape
    <3> QED BY <1>5, <3>1, <3>2
  <2>6. CASE m.kind = "site:done"
    <3>1. /\ UNCHANGED going /\ run' = [run EXCEPT !.saidDone = @ + 1]
          /\ turn' = [turn EXCEPT !.said = TRUE]
      BY <1>6, <2>6 DEF Thread!Hear, m
    <3>2. /\ run'.over = run.over /\ turn'.ended = turn.ended /\ turn'.hungUp = turn.hungUp
          /\ turn'.answer = turn.answer
      BY <3>1 DEF SidesShape
    <3>3. turn.answer # "rejected"
      BY <2>1 DEF EndsByWord, Thread!Deaf
    <3> QED BY <1>5, <3>1, <3>2, <3>3
  <2>7. CASE m.kind \in {"slot", "cache"}
    BY <1>2, <1>6, <2>7 DEF Thread!Hear, m
  <2>8. CASE m.kind \in {"done", "failed"}
    <3>1. RankOf(m) = 3
      BY <2>8 DEF RankOf
    <3>2. Past(3)' /\ ~Past(3)
      BY <2>3, <3>1
    <3>3. m.kind = "done" => turn.said
      <4> SUFFICES ASSUME m.kind = "done", ~turn.said PROVE FALSE
        OBVIOUS
      <4>1. PICK o \in OnPort : o.kind = "site:done"
        BY <2>2 DEF SaysDone
      <4>2. RankOf(o) = 2 /\ o # m
        BY <4>1 DEF RankOf
      <4>3. o \in OnPort'
        BY <2>2, <4>2
      <4> QED BY <3>2, <4>2, <4>3 DEF Past
    <3>4. UNCHANGED going /\ \/ m.kind = "done" /\ Thread!Ended("done")
                             \/ m.kind # "done" /\ Thread!Ended("threw")
      BY <1>6, <2>8 DEF Thread!Hear, m
    <3> QED BY <1>3, <1>4, <3>2, <3>3, <3>4
  <2>9. CASE m.kind = "close"
    <3>1. /\ going' = [going EXCEPT !.closed = TRUE, !.waiting = ~turn.ended /\ ~going.why]
          /\ IF going.why THEN Thread!Ended("went") ELSE UNCHANGED <<turn, run>>
      BY <1>6, <2>9 DEF Thread!Hear, m
    <3>2. going'.why = going.why
      BY <3>1 DEF SidesShape
    <3> QED BY <1>3, <1>4, <1>5, <3>1, <3>2
  <2> QED BY <2>4, <2>5, <2>6, <2>7, <2>8, <2>9 DEF Kinds
<1>7. CASE Thread!HearWhy \/ Thread!GiveUp
  <2>1. ~turn.ended /\ \/ UNCHANGED <<turn, run>>
                       \/ Thread!Ended("went")
    BY <1>7 DEF Thread!HearWhy, Thread!GiveUp
  <2>2. going'.why
    <3>1. \/ going' = [going EXCEPT !.why = TRUE, !.waiting = Thread!Half]
          \/ going' = [why |-> TRUE, closed |-> TRUE, waiting |-> FALSE]
      BY <1>7 DEF Thread!HearWhy, Thread!GiveUp
    <3>2. CASE going' = [going EXCEPT !.why = TRUE, !.waiting = Thread!Half]
      BY <3>2 DEF SidesShape
    <3>3. CASE going' = [why |-> TRUE, closed |-> TRUE, waiting |-> FALSE]
      BY <3>3
    <3> QED BY <3>1, <3>2, <3>3
  <2> QED BY <1>3, <1>5, <2>1, <2>2
<1>8. CASE Thread!RunEnds
  <2>1. UNCHANGED going
    BY <1>8 DEF Thread!RunEnds
  <2>2. CASE turn.answer = "rejected"
    <3>1. /\ run' = [run EXCEPT !.over = TRUE, !.failed = @ + 1, !.saidFailed = @ + 1, !.saidDone = @ + 1]
          /\ UNCHANGED turn
      BY <1>8, <2>2 DEF Thread!RunEnds
    <3>2. run'.over
      BY <3>1 DEF SidesShape
    <3> QED BY <1>5, <2>1, <3>1, <3>2
  <2>3. CASE turn.answer # "rejected"
    <3>1. /\ turn' = [turn EXCEPT !.hungUp = TRUE]
          /\ run' = [Thread!HungUp(run) EXCEPT !.over = TRUE]
      BY <1>8, <2>3 DEF Thread!RunEnds
    <3>2. /\ turn'.ended = turn.ended /\ turn'.answer = turn.answer /\ run'.over
      BY <3>1 DEF SidesShape, Thread!HungUp
    <3> QED BY <1>1, <2>1, <2>3, <3>2 DEF EndsByWord
  <2> QED BY <2>2, <2>3
<1>9. CASE Thread!Turn \/ (\E l \in Labels : Thread!Request(l)) \/ Thread!Count
           \/ Thread!Ask \/ Thread!Answer \/ Thread!Back \/ Thread!CacheCloses \/ Thread!Die
  BY <1>2, <1>9 DEF Thread!Turn, Thread!Begin, Thread!LoadFails, Thread!Fetch, Thread!Fail,
       Thread!SayFailed, Thread!End, Thread!SayDone, Thread!Done, Thread!Throws, Thread!Request,
       Thread!Count, Thread!Ask, Thread!Answer, Thread!Back, Thread!CacheCloses, Thread!Die,
       Thread!host
<1> QED BY <1>6, <1>7, <1>8, <1>9 DEF Thread!Next

LEMMA NamedHasSlot ==
  ASSUME CountsInv, NEW l \in Labels, l \in heard \/ NamedOf(l) # {}
  PROVE  slotted[l] = "slot" /\ memory.requests[l] > 0
BY DEF CountsInv, Accounted

\* Steps of the thread that count nothing.
LEMMA OthersCount ==
  ASSUME TurnInv, CountsInv, EndsByWord',
         \/ Thread!Turn /\ ~Thread!Done
         \/ Thread!Ask \/ Thread!Answer \/ Thread!Back \/ Thread!CacheCloses \/ Thread!Die
  PROVE  CountsInv'
<1> USE DEF TurnInv, CountsInv
<1>1. UNCHANGED <<turn, going, run, heard, slotted, counted>>
  BY DEF Thread!Turn, Thread!Begin, Thread!LoadFails, Thread!Fetch, Thread!Fail, Thread!SayFailed,
         Thread!End, Thread!SayDone, Thread!Throws, Thread!Ask, Thread!Answer, Thread!Back,
         Thread!CacheCloses, Thread!Die, Thread!host, Thread!thread
<1>2. ASSUME NEW st, Thread!Goto(st)
      PROVE  site'.steps = site.steps /\ site'.label = site.label
  BY <1>2 DEF Thread!Goto, SidesShape
<1>3. site'.steps = site.steps /\ site'.label = site.label
  BY <1>2 DEF Thread!Turn, Thread!Begin, Thread!LoadFails, Thread!Fetch, Thread!Fail, Thread!SayFailed,
         Thread!End, Thread!SayDone, Thread!Throws, Thread!Ask, Thread!Answer, Thread!Back,
         Thread!CacheCloses, Thread!Die, Thread!thread
<1>4. memory'.requests = memory.requests
  <2>1. \/ UNCHANGED memory \/ memory' = [memory EXCEPT !.began = TRUE]
        \/ memory' = [memory EXCEPT !.fetched = 1] \/ memory' = [memory EXCEPT !.failed = 1]
    BY DEF Thread!Turn, Thread!Begin, Thread!LoadFails, Thread!Fetch, Thread!Fail, Thread!SayFailed,
           Thread!End, Thread!SayDone, Thread!Throws, Thread!Ask, Thread!Answer, Thread!Back,
           Thread!CacheCloses, Thread!Die, Thread!thread, Thread!SetBegan
  <2> QED BY <2>1 DEF SidesShape
<1>5. \/ UNCHANGED port
      \/ \E m \in Messages : port' = Append(port, m) /\ m.kind \notin {"requested", "slot", "done"}
  <2>1. \/ UNCHANGED port
        \/ \E kind \in {"failed", "site:failed", "site:done", "cache", "close"} :
             port' = Append(port, Thread!Message(kind))
    BY DEF Thread!Turn, Thread!Begin, Thread!LoadFails, Thread!Fetch, Thread!Fail, Thread!SayFailed,
           Thread!End, Thread!SayDone, Thread!Throws, Thread!Ask, Thread!Answer, Thread!Back,
           Thread!CacheCloses, Thread!Die, Thread!Send
  <2>2. \A kind \in {"failed", "site:failed", "site:done", "cache", "close"} :
          Thread!Message(kind) \in Messages /\ Thread!Message(kind).kind = kind
    BY DEF Thread!Message, Messages, Kinds
  <2> QED BY <2>1, <2>2
<1>6. Indifferent
  BY <1>1, <1>3, <1>4, <1>5 DEF Indifferent
<1> QED BY <1>1, <1>6, CountsKeep

\* The word done is sent with every count of the site's in a slot that is named,
\* or said.
LEMMA DoneCounts ==
  ASSUME TurnInv, CountsInv, EndsByWord', Thread!Done
  PROVE  CountsInv'
<1> USE DEF TurnInv, CountsInv
<1>1. /\ alive /\ site.st = "finished" /\ site.steps = <<>>
      /\ UNCHANGED <<turn, going, run, heard, memory, slotted>>
      /\ counted' = [counted EXCEPT !.atDone = counted.made]
      /\ port' = Append(port, Thread!Message("done"))
      /\ site'.steps = site.steps /\ site'.label = site.label
  BY DEF Thread!Done, Thread!At, Thread!Goto, Thread!Send, Thread!host, SidesShape
<1>2. counted'.made = counted.made /\ counted'.atDone = counted.made
  BY <1>1 DEF CountsShape
<1>3. CountsShape'
  <2>1. DOMAIN counted' = DOMAIN counted
    BY <1>1 DEF CountsShape
  <2> QED BY <1>1, <1>2, <2>1 DEF CountsShape, Amid
<1>4. /\ BeforeDone' = 1..Len(port) /\ Len(port) \in Nat
      /\ \A l \in Labels : SaidOf(l)' = SaidOf(l) /\ NamedOf(l)' = NamedOf(l)
  <2> DEFINE m == Thread!Message("done")
  <2>1. m \in Messages /\ m.kind = "done" /\ port' = Append(port, m)
    BY <1>1 DEF Thread!Message, Messages, Kinds
  <2> HIDE DEF m
  <2> QED BY <2>1, PortGrows
<1>5. ~run.over
  BY <1>1 DEF NotOver, IsOver
<1>6. ASSUME NEW l \in Labels PROVE Accounted(l)'
  <2>1. Accounted(l)
    OBVIOUS
  <2>2. \A step : ~Amid(l, step) /\ ~Amid(l, step)' /\ AmidOne(l, step) = 0 /\ AmidOne(l, step)' = 0
    BY <1>1 DEF Amid, AmidOne
  <2>3. OfNew(l) => OfNew(l)'
    BY <1>1, <1>2, <1>4 DEF OfNew
  <2>4. OfNone(l) => OfNone(l)'
    <3>1. SaidOf(l) \cap 1..Len(port) = SaidOf(l)
      BY DEF SaidOf
    <3>2. Cardinality(SaidOf(l)) \in Nat
      <4>1. IsFiniteSet(1..Len(port))
        BY <1>4, FS_Interval
      <4> QED BY <4>1, FS_Subset, FS_CardinalityType DEF SaidOf
    <3>3. run.requests[l] \in Nat /\ counted.made[l] \in Nat
      BY DEF CountsShape
    <3>4. (SaidOf(l) \cap BeforeDone)' = SaidOf(l)
      BY <1>4, <3>1
    <3>5. ASSUME OfNone(l)
          PROVE  run.requests[l] + Cardinality(SaidOf(l)) = counted.made[l]
      <4>1. run.requests[l] + Cardinality(SaidOf(l)) + 0 = counted.made[l]
        BY <2>2, <3>5 DEF OfNone
      <4> QED BY <3>2, <3>3, <4>1
    <3>6. ASSUME OfNone(l)
          PROVE  /\ (run.requests[l] + Cardinality(SaidOf(l)) + AmidOne(l, "say") = counted.made[l])'
                 /\ (counted.atDone[l] <= run.requests[l] + Cardinality(SaidOf(l) \cap BeforeDone))'
      <4>1. /\ run'.requests[l] = run.requests[l] /\ SaidOf(l)' = SaidOf(l)
            /\ counted'.made[l] = counted.made[l] /\ counted'.atDone[l] = counted.made[l]
        BY <1>1, <1>2, <1>4
      <4>2. run'.requests[l] + Cardinality(SaidOf(l)') + 0 = counted'.made[l]
        BY <3>2, <3>3, <3>5, <3>6, <4>1
      <4>3. counted'.atDone[l] <= run'.requests[l] + Cardinality((SaidOf(l) \cap BeforeDone)')
        <5>1. Cardinality((SaidOf(l) \cap BeforeDone)') = Cardinality(SaidOf(l))
          BY <3>4
        <5>2. counted.made[l] <= run.requests[l] + Cardinality(SaidOf(l))
          BY <3>2, <3>3, <3>5, <3>6
        <5> QED BY <4>1, <5>1, <5>2
      <4> QED BY <2>2, <4>2, <4>3
    <3> QED BY <2>2, <3>6 DEF OfNone
  <2>5. OfSlot(l) => OfSlot(l)'
    <3>1. memory.requests[l] \in Nat /\ counted.made[l] \in Nat
      BY DEF CountsShape
    <3> QED BY <1>1, <1>2, <1>4, <1>5, <2>2, <3>1 DEF OfSlot
  <2>6. IsNamed(l) => IsNamed(l)'
    <3>1. NamedOf(l) \cap 1..Len(port) = NamedOf(l)
      BY DEF NamedOf
    <3>2. <<>> \notin {<<"name">>, <<"add", "name">>}
      OBVIOUS
    <3> QED BY <1>1, <1>4, <3>1, <3>2 DEF IsNamed
  <2> QED BY <1>1, <1>4, <2>1, <2>3, <2>4, <2>5, <2>6 DEF Accounted
<1> QED BY <1>3, <1>6

\* A request is in the middle of its count.
LEMMA RequestCounts ==
  ASSUME TurnInv, CountsInv, EndsByWord', NEW k \in Labels, Thread!Request(k)
  PROVE  CountsInv'
<1> USE DEF TurnInv, CountsInv
<1>1. /\ site.steps = <<>> /\ UNCHANGED <<turn, going, run, heard, memory, port>>
      /\ counted' = [counted EXCEPT !.made[k] = @ + 1]
      /\ slotted' = [slotted EXCEPT ![k] = IF @ = "new" THEN IF Thread!Room THEN "slot" ELSE "none" ELSE @]
      /\ site' = [site EXCEPT !.label = k,
                              !.steps = CASE slotted[k] = "new" /\ Thread!Room -> <<"add", "name">>
                                          [] slotted[k] = "slot" -> <<"add">>
                                          [] OTHER -> <<"say">>]
  BY DEF Thread!Request, Thread!host, Thread!NewSlot
<1>2. /\ counted'.atDone = counted.atDone /\ counted'.made = [counted.made EXCEPT ![k] = @ + 1]
      /\ DOMAIN counted' = DOMAIN counted
  BY <1>1 DEF CountsShape
<1>3. /\ site'.label = k
      /\ slotted[k] = "new" /\ Thread!Room => site'.steps = <<"add", "name">> /\ slotted'[k] = "slot"
      /\ slotted[k] = "slot" => site'.steps = <<"add">> /\ slotted'[k] = "slot"
      /\ slotted[k] = "none" \/ (slotted[k] = "new" /\ ~Thread!Room)
           => site'.steps = <<"say">> /\ slotted'[k] = "none"
  <2>1. /\ site'.label = k
        /\ site'.steps = CASE slotted[k] = "new" /\ Thread!Room -> <<"add", "name">>
                           [] slotted[k] = "slot" -> <<"add">>
                           [] OTHER -> <<"say">>
    BY <1>1 DEF SidesShape
  <2>2. slotted'[k] = IF slotted[k] = "new" THEN IF Thread!Room THEN "slot" ELSE "none" ELSE slotted[k]
    BY <1>1 DEF CountsShape
  <2> QED BY <2>1, <2>2
<1>4. slotted[k] \in {"new", "slot", "none"} /\ Accounted(k)
  BY DEF CountsShape
<1>5. /\ BeforeDone' = BeforeDone
      /\ \A l \in Labels : SaidOf(l)' = SaidOf(l) /\ NamedOf(l)' = NamedOf(l)
  BY <1>1 DEF BeforeDone, SaidOf, NamedOf
<1>6. CountsShape'
  <2>1. slotted' \in [Labels -> {"new", "slot", "none"}]
    BY <1>1 DEF CountsShape
  <2>2. site'.steps \in {<<"add">>, <<"add", "name">>, <<"say">>}
    BY <1>3, <1>4
  <2>3. counted'.made \in [Labels -> Nat] /\ counted'.atDone \in [Labels -> Nat]
    BY <1>2 DEF CountsShape
  <2>4. \A l \in Labels : ~Amid(l, "name")'
    BY <2>2 DEF Amid
  <2> QED BY <1>1, <1>2, <2>1, <2>2, <2>3, <2>4 DEF CountsShape
<1>7. ASSUME NEW l \in Labels, l # k PROVE Accounted(l)'
  <2>1. /\ slotted'[l] = slotted[l] /\ counted'.made[l] = counted.made[l]
        /\ counted'.atDone[l] = counted.atDone[l]
    BY <1>1, <1>2, <1>7 DEF CountsShape
  <2> QED BY <1>1, <1>3, <1>5, <1>7, <2>1, AccountedSame
<1>8. /\ counted'.made[k] = counted.made[k] + 1 /\ counted'.atDone[k] = counted.atDone[k]
      /\ memory.requests[k] \in Nat /\ run.requests[k] \in Nat /\ counted.made[k] \in Nat
      /\ counted.atDone[k] \in Nat
  BY <1>2 DEF CountsShape
<1>9. \A step : ~Amid(k, step) /\ AmidOne(k, step) = 0
  BY <1>1 DEF Amid, AmidOne
<1>10. ASSUME slotted'[k] = "slot" PROVE Accounted(k)'
  <2>1. Amid(k, "add")' /\ ~Amid(k, "say")' /\ AmidOne(k, "add")' = 1
    <3>1. site'.steps = <<"add">> \/ site'.steps = <<"add", "name">>
      BY <1>3, <1>4, <1>10
    <3>2. site'.steps # <<>> /\ Head(site'.steps) = "add"
      <4>1. Head(<<"add">>) = "add" /\ Head(<<"add", "name">>) = "add"
        OBVIOUS
      <4>2. <<"add">> # <<>> /\ <<"add", "name">> # <<>>
        OBVIOUS
      <4> QED BY <3>1, <4>1, <4>2, Zenon
    <3> QED BY <1>3, <3>2 DEF Amid, AmidOne
  <2>2. OfSlot(k)'
    <3>1. CASE slotted[k] = "slot"
      BY <1>1, <1>4, <1>5, <1>8, <1>9, <2>1, <3>1 DEF Accounted, OfSlot
    <3>2. CASE slotted[k] = "new"
      BY <1>1, <1>4, <1>5, <1>8, <2>1, <3>2 DEF Accounted, OfNew, OfSlot
    <3> QED BY <1>3, <1>4, <1>10, <3>1, <3>2
  <2>3. IsNamed(k)'
    <3>1. CASE slotted[k] = "slot"
      <4>1. <<>> \notin {<<"name">>, <<"add", "name">>}
        OBVIOUS
      <4>2. IsNamed(k)
        BY <1>4, <3>1 DEF Accounted
      <4> QED BY <1>1, <1>5, <1>8, <4>1, <4>2 DEF IsNamed
    <3>2. CASE slotted[k] = "new"
      BY <1>1, <1>3, <1>4, <1>5, <1>8, <1>10, <3>2 DEF Accounted, OfNew, IsNamed
    <3> QED BY <1>3, <1>4, <1>10, <3>1, <3>2
  <2>4. k \in heard' \/ NamedOf(k)' # {} => memory'.requests[k] > 0
    BY <1>1, <1>5, NamedHasSlot
  <2> QED BY <1>10, <2>2, <2>3, <2>4 DEF Accounted
<1>11. ASSUME slotted'[k] = "none" PROVE Accounted(k)'
  <2>1. ~Amid(k, "add")' /\ ~Amid(k, "name")' /\ AmidOne(k, "say")' = 1
    <3>1. site'.steps = <<"say">>
      BY <1>3, <1>4, <1>11
    <3>2. site'.steps # <<>> /\ Head(site'.steps) = "say"
      BY <3>1
    <3> QED BY <1>3, <3>2 DEF Amid, AmidOne
  <2>2. OfNone(k)'
    <3>1. CASE slotted[k] = "none"
      <4>1. OfNone(k)
        BY <1>4, <3>1 DEF Accounted
      <4>2. Cardinality(SaidOf(k)) \in Nat
        <5>1. Len(port) \in Nat
          BY LenProperties DEF InOrder
        <5>2. IsFiniteSet(1..Len(port))
          BY <5>1, FS_Interval
        <5>3. SaidOf(k) \subseteq 1..Len(port)
          BY DEF SaidOf
        <5> QED BY <5>2, <5>3, FS_Subset, FS_CardinalityType
      <4>3. /\ run.requests[k] + Cardinality(SaidOf(k)) = counted.made[k]
            /\ counted.atDone[k] <= run.requests[k] + Cardinality(SaidOf(k) \cap BeforeDone)
        <5>1. run.requests[k] + Cardinality(SaidOf(k)) + 0 = counted.made[k]
          BY <1>9, <4>1 DEF OfNone
        <5>2. counted.atDone[k] <= run.requests[k] + Cardinality(SaidOf(k) \cap BeforeDone)
          BY <4>1 DEF OfNone
        <5> QED BY <1>8, <4>2, <5>1, <5>2
      <4>4. /\ (run.requests[k] + Cardinality(SaidOf(k)) + 1 = counted.made[k])'
            /\ (counted.atDone[k] <= run.requests[k] + Cardinality(SaidOf(k) \cap BeforeDone))'
        BY <1>1, <1>5, <1>8, <4>2, <4>3
      <4> QED BY <2>1, <4>4 DEF OfNone
    <3>2. CASE slotted[k] = "new"
      <4>1. SaidOf(k)' = {} /\ Cardinality({}) = 0 /\ (SaidOf(k) \cap BeforeDone)' = {}
        BY <1>4, <1>5, <3>2, FS_EmptySet DEF Accounted, OfNew
      <4>2. run'.requests[k] = 0 /\ counted'.made[k] = 1 /\ counted'.atDone[k] = 0
        BY <1>1, <1>4, <1>8, <3>2 DEF Accounted, OfNew
      <4> QED BY <2>1, <4>1, <4>2 DEF OfNone
    <3> QED BY <1>3, <1>4, <1>11, <3>1, <3>2
  <2>3. ~(k \in heard' \/ NamedOf(k)' # {})
    <3>1. slotted[k] # "slot"
      BY <1>3, <1>11
    <3>2. ~(k \in heard \/ NamedOf(k) # {})
      BY <3>1, NamedHasSlot
    <3> QED BY <1>1, <1>5, <3>2
  <2> QED BY <1>11, <2>2, <2>3 DEF Accounted
<1>12. Accounted(k)'
  BY <1>3, <1>4, <1>10, <1>11
<1> QED BY <1>6, <1>7, <1>12

\* What is said of a label is of places on the port.
LEMMA SaidFinite ==
  ASSUME InOrder, NEW l \in Labels
  PROVE  /\ Len(port) \in Nat /\ SaidOf(l) \in SUBSET (1..Len(port)) /\ IsFiniteSet(SaidOf(l))
         /\ Cardinality(SaidOf(l)) \in Nat /\ Cardinality(SaidOf(l) \cap BeforeDone) \in Nat
<1>1. Len(port) \in Nat
  BY LenProperties DEF InOrder
<1>2. IsFiniteSet(1..Len(port))
  BY <1>1, FS_Interval
<1>3. SaidOf(l) \subseteq 1..Len(port)
  BY DEF SaidOf
<1>4. IsFiniteSet(SaidOf(l)) /\ IsFiniteSet(SaidOf(l) \cap BeforeDone)
  BY <1>2, <1>3, FS_Subset
<1> QED BY <1>1, <1>3, <1>4, FS_CardinalityType

\* A step of a count: into the slot, its name, or the request as it is.
LEMMA CountCounts ==
  ASSUME TurnInv, CountsInv, EndsByWord', Thread!Count
  PROVE  CountsInv'
<1> USE DEF TurnInv
<1>0. PICK k : k = site.label
  OBVIOUS
<1> DEFINE step0 == Head(site.steps)
<1>1. /\ site.steps # <<>> /\ site' = [site EXCEPT !.steps = Tail(@)]
      /\ UNCHANGED <<slotted, counted, turn, going, heard, run>>
      /\ \/ /\ step0 = "add" /\ memory' = [memory EXCEPT !.requests[k] = @ + 1] /\ UNCHANGED port
         \/ /\ step0 = "name" /\ port' = Append(port, [kind |-> "slot", label |-> k])
            /\ UNCHANGED memory
         \/ /\ step0 = "say" /\ port' = Append(port, [kind |-> "requested", label |-> k])
            /\ UNCHANGED memory
  BY <1>0 DEF Thread!Count, Thread!Send, Thread!host
<1>2. site'.label = k /\ site.label = k /\ site'.steps = Tail(site.steps)
  BY <1>0, <1>1 DEF SidesShape
<1>3. /\ step0 = "add" => \/ site.steps = <<"add">> /\ site'.steps = <<>>
                          \/ site.steps = <<"add", "name">> /\ site'.steps = <<"name">>
      /\ step0 = "name" => site.steps = <<"name">> /\ site'.steps = <<>>
      /\ step0 = "say" => site.steps = <<"say">> /\ site'.steps = <<>>
  <2>1. /\ Head(<<"add">>) = "add" /\ Tail(<<"add">>) = <<>>
        /\ Head(<<"name">>) = "name" /\ Tail(<<"name">>) = <<>>
        /\ Head(<<"say">>) = "say" /\ Tail(<<"say">>) = <<>>
    OBVIOUS
  <2>2. Head(<<"add", "name">>) = "add" /\ Tail(<<"add", "name">>) = <<"name">>
    OBVIOUS
  <2>3. site.steps \in {<<"add">>, <<"name">>, <<"add", "name">>, <<"say">>}
    BY <1>1 DEF CountsInv, CountsShape
  <2>4. "add" # "name" /\ "add" # "say" /\ "name" # "say"
    OBVIOUS
  <2> QED BY <1>2, <2>1, <2>2, <2>3, <2>4, Zenon
<1>4. \A l \in Labels : site.label # l => ~Amid(l, "name")'
  BY <1>2 DEF Amid
<1>5. site'.steps \in {<<>>, <<"name">>}
  BY <1>1, <1>3
<1>6. ~Amid(k, "add")' /\ ~Amid(k, "say")' /\ AmidOne(k, "add")' = 0 /\ AmidOne(k, "say")' = 0
  <2>1. Head(<<"name">>) = "name"
    OBVIOUS
  <2>2. ~Amid(k, "add")' /\ ~Amid(k, "say")'
    BY <1>2, <1>5, <2>1 DEF Amid
  <2> QED BY <2>2 DEF AmidOne
<1>7. Amid(k, step0) /\ AmidOne(k, step0) = 1
  BY <1>1, <1>2 DEF Amid, AmidOne
<1>8. ASSUME k \in Labels
      PROVE  /\ Accounted(k) /\ slotted[k] \in {"slot", "none"}
             /\ memory.requests[k] \in Nat /\ run.requests[k] \in Nat /\ counted.made[k] \in Nat
             /\ counted.atDone[k] \in Nat
  BY <1>1, <1>2, <1>8 DEF CountsInv, CountsShape, Accounted, OfNew
<1> HIDE DEF step0
<1>9. CASE step0 = "add"
  <2>1. memory' = [memory EXCEPT !.requests[k] = @ + 1] /\ UNCHANGED port
    BY <1>1, <1>9
  <2>2. /\ memory'.requests = [memory.requests EXCEPT ![k] = @ + 1]
        /\ memory'.requests \in [Labels -> Nat]
    <3>1. memory'.requests = [memory.requests EXCEPT ![k] = @ + 1]
      BY <2>1 DEF SidesShape
    <3>2. memory.requests \in [Labels -> Nat]
      BY DEF CountsInv, CountsShape
    <3>3. k \in Labels => memory.requests[k] + 1 \in Nat
      BY <3>2
    <3> QED BY <3>1, <3>2, <3>3
  <2>3. /\ BeforeDone' = BeforeDone
        /\ \A l \in Labels : SaidOf(l)' = SaidOf(l) /\ NamedOf(l)' = NamedOf(l)
    BY <2>1 DEF BeforeDone, SaidOf, NamedOf
  <2>4. ASSUME NEW l \in Labels, l # k PROVE Accounted(l)'
    <3>1. memory'.requests[l] = memory.requests[l]
      BY <2>2, <2>4 DEF CountsInv, CountsShape
    <3> QED BY <1>1, <1>2, <2>3, <2>4, <3>1, AccountedSame DEF CountsInv
  <2>5. ASSUME k \in Labels PROVE Accounted(k)' /\ memory'.requests[k] > 0
    <3>1. Accounted(k) /\ OfSlot(k) /\ IsNamed(k) /\ slotted[k] = "slot"
      BY <1>7, <1>8, <1>9, <2>5 DEF Accounted, OfNone
    <3>2. memory'.requests[k] = memory.requests[k] + 1
      BY <2>2, <2>5 DEF CountsInv, CountsShape
    <3>3. memory.requests[k] + 1 = counted.made[k]
      BY <1>7, <1>9, <3>1 DEF OfSlot
    <3>4. /\ memory'.requests[k] + 0 = counted'.made[k]
          /\ counted'.atDone[k] <= memory'.requests[k] /\ run'.requests[k] <= memory'.requests[k]
      BY <1>1, <1>8, <2>5, <3>1, <3>2, <3>3 DEF OfSlot
    <3>5. OfSlot(k)'
      BY <1>1, <1>6, <2>3, <2>5, <3>1, <3>4 DEF OfSlot
    <3>6. site.steps \in {<<"name">>, <<"add", "name">>} => site'.steps = <<"name">>
      <4>1. <<"add">> \notin {<<"name">>, <<"add", "name">>}
        OBVIOUS
      <4>2. <<"name">> # <<"add">>  /\ <<"name">> # <<"add", "name">>
        OBVIOUS
      <4> QED BY <1>3, <1>9, <4>1, <4>2
    <3>7. IsNamed(k)'
      BY <1>1, <1>2, <2>3, <2>5, <3>1, <3>6 DEF IsNamed
    <3>8. memory'.requests[k] > 0
      BY <1>8, <2>5, <3>2
    <3>9. slotted'[k] = "slot"
      BY <1>1, <3>1
    <3> QED BY <3>5, <3>7, <3>8, <3>9 DEF Accounted
  <2>6. \A l \in Labels : Amid(l, "name")' => memory'.requests[l] > 0
    BY <1>2, <1>4, <2>5
  <2>7. CountsShape'
    BY <1>1, <1>5, <2>2, <2>6 DEF CountsInv, CountsShape
  <2> QED BY <2>4, <2>5, <2>7 DEF CountsInv
<1>10. ASSUME step0 \in {"name", "say"} PROVE CountsShape'
  <2>1. UNCHANGED memory /\ site'.steps = <<>>
    BY <1>1, <1>3, <1>10
  <2>2. \A l \in Labels : ~Amid(l, "name")'
    BY <2>1 DEF Amid
  <2> QED BY <1>1, <2>1, <2>2 DEF CountsInv, CountsShape
<1>11. CASE step0 = "name"
  <2> DEFINE m == [kind |-> "slot", label |-> k]
  <2>1. UNCHANGED memory /\ port' = Append(port, m) /\ m.kind = "slot" /\ m.label = k
    BY <1>1, <1>11
  <2>2. m \in Messages
    BY <1>2 DEF Messages, Kinds, SidesShape
  <2> HIDE DEF m
  <2>3. /\ BeforeDone' = BeforeDone
        /\ \A l \in Labels : /\ SaidOf(l)' = SaidOf(l)
                             /\ NamedOf(l)' = (IF l = k THEN NamedOf(l) \cup {Len(port) + 1} ELSE NamedOf(l))
    BY <2>1, <2>2, PortGrows
  <2>4. ASSUME NEW l \in Labels, l # k PROVE Accounted(l)'
    BY <1>1, <1>2, <2>1, <2>3, <2>4, AccountedSame DEF CountsInv
  <2>5. ASSUME k \in Labels PROVE Accounted(k)'
    <3>1. Accounted(k) /\ OfSlot(k) /\ IsNamed(k) /\ slotted[k] = "slot"
      BY <1>7, <1>8, <1>11, <2>5 DEF Accounted, OfNone
    <3>2. memory.requests[k] > 0
      BY <1>7, <1>11, <2>5 DEF CountsInv, CountsShape
    <3>3. memory.requests[k] + 0 = counted.made[k]
      <4>1. ~Amid(k, "add")
        BY <1>7, <1>11 DEF Amid
      <4>2. AmidOne(k, "add") = 0
        BY <4>1 DEF AmidOne
      <4> QED BY <3>1, <4>2 DEF OfSlot
    <3>4. OfSlot(k)'
      BY <1>1, <1>6, <2>1, <2>3, <2>5, <3>1, <3>3 DEF OfSlot
    <3>5. NamedOf(k)' # {} /\ NamedOf(k) \subseteq NamedOf(k)'
      BY <2>3, <2>5
    <3>6. IsNamed(k)'
      BY <1>1, <2>3, <3>1, <3>5 DEF IsNamed
    <3> QED BY <1>1, <2>1, <3>1, <3>2, <3>4, <3>6 DEF Accounted
  <2> QED BY <1>10, <1>11, <2>4, <2>5 DEF CountsInv
<1>12. CASE step0 = "say"
  <2> DEFINE m == [kind |-> "requested", label |-> k]
  <2>1. UNCHANGED memory /\ port' = Append(port, m) /\ m.kind = "requested" /\ m.label = k
    BY <1>1, <1>12
  <2>2. m \in Messages
    BY <1>2 DEF Messages, Kinds, SidesShape
  <2> HIDE DEF m
  <2>3. /\ BeforeDone' = BeforeDone /\ Len(port) \in Nat
        /\ \A l \in Labels : /\ NamedOf(l)' = NamedOf(l)
                             /\ SaidOf(l)' = (IF l = k THEN SaidOf(l) \cup {Len(port) + 1} ELSE SaidOf(l))
    BY <2>1, <2>2, PortGrows
  <2>4. ASSUME NEW l \in Labels, l # k PROVE Accounted(l)'
    BY <1>1, <1>2, <2>1, <2>3, <2>4, AccountedSame DEF CountsInv
  <2>5. ASSUME k \in Labels PROVE Accounted(k)'
    <3>1. Accounted(k) /\ OfNone(k) /\ slotted[k] = "none"
      BY <1>7, <1>8, <1>12, <2>5 DEF Accounted, OfSlot
    <3>2. /\ SaidOf(k) \in SUBSET (1..Len(port)) /\ IsFiniteSet(SaidOf(k))
          /\ Cardinality(SaidOf(k)) \in Nat /\ Cardinality(SaidOf(k) \cap BeforeDone) \in Nat
      BY <2>5, SaidFinite
    <3>3. Len(port) + 1 \notin SaidOf(k) /\ Len(port) + 1 \notin BeforeDone
      BY <2>3, <3>2 DEF BeforeDone
    <3>4. Cardinality(SaidOf(k) \cup {Len(port) + 1}) = Cardinality(SaidOf(k)) + 1
      BY <3>2, <3>3, FS_AddElement
    <3>5. /\ SaidOf(k)' = SaidOf(k) \cup {Len(port) + 1}
          /\ (SaidOf(k) \cap BeforeDone)' = SaidOf(k) \cap BeforeDone
      BY <2>3, <2>5, <3>3
    <3>6. run.requests[k] + Cardinality(SaidOf(k)) + 1 = counted.made[k]
      BY <1>7, <1>12, <3>1 DEF OfNone
    <3>7. /\ run'.requests[k] + Cardinality(SaidOf(k)') + 0 = counted'.made[k]
          /\ counted'.atDone[k] <= run'.requests[k] + Cardinality((SaidOf(k) \cap BeforeDone)')
      <4>1. Cardinality(SaidOf(k)') = Cardinality(SaidOf(k)) + 1
        BY <3>4, <3>5
      <4>2. Cardinality((SaidOf(k) \cap BeforeDone)') = Cardinality(SaidOf(k) \cap BeforeDone)
        BY <3>5
      <4>3. counted.atDone[k] <= run.requests[k] + Cardinality(SaidOf(k) \cap BeforeDone)
        BY <3>1 DEF OfNone
      <4>4. run' = run /\ counted' = counted
        BY <1>1
      <4>5. run.requests[k] \in Nat /\ counted.atDone[k] \in Nat /\ counted.made[k] \in Nat
        BY <1>8, <2>5
      <4> QED BY <3>2, <3>6, <4>1, <4>2, <4>3, <4>4, <4>5
    <3>8. ~Amid(k, "name")'
      BY <1>3, <1>12 DEF Amid
    <3>9. OfNone(k)'
      BY <1>6, <3>7, <3>8 DEF OfNone
    <3>10. ~(k \in heard \/ NamedOf(k) # {})
      BY <2>5, <3>1, NamedHasSlot
    <3> QED BY <1>1, <2>3, <2>5, <3>1, <3>9, <3>10 DEF Accounted
  <2> QED BY <1>10, <1>12, <2>4, <2>5 DEF CountsInv
<1> QED BY <1>1, <1>9, <1>11, <1>12

\* What the run hears is gone from the port, and is what it adds of a label.
LEMMA HeardAccounted ==
  ASSUME TurnInv, CountsInv, port # <<>>, port' = Tail(port), NEW l \in Labels,
         UNCHANGED <<memory, site, slotted, counted>>,
         run'.requests[l] = run.requests[l]
           + (IF Head(port).kind = "requested" /\ Head(port).label = l THEN 1 ELSE 0),
         l \in heard' <=> l \in heard \/ (Head(port).kind = "slot" /\ Head(port).label = l),
         turn.hungUp => turn'.hungUp,
         run'.over /\ turn'.said /\ ~going'.why => run.over /\ turn.said /\ ~going.why
  PROVE  Accounted(l)'
<1> USE DEF TurnInv
<1>1. /\ Len(port) \in Nat /\ 1 \in 1..Len(port) /\ Len(port') = Len(port) - 1
      /\ Head(port) = port[1]
      /\ \A i \in 1..Len(port) : i = 1 \/ (i - 1 \in 1..Len(port') /\ (i - 1) + 1 = i)
      /\ BeforeDone' = {i \in 1..Len(port') : i + 1 \in BeforeDone}
      /\ SaidOf(l)' = {i \in 1..Len(port') : i + 1 \in SaidOf(l)}
      /\ NamedOf(l)' = {i \in 1..Len(port') : i + 1 \in NamedOf(l)}
  BY PortMoves
<1>2. /\ 1 \in SaidOf(l) <=> Head(port).kind = "requested" /\ Head(port).label = l
      /\ 1 \in NamedOf(l) <=> Head(port).kind = "slot" /\ Head(port).label = l
  BY <1>1 DEF SaidOf, NamedOf
<1>3. \A step : /\ Amid(l, step)' <=> Amid(l, step)
                /\ AmidOne(l, step)' = AmidOne(l, step)
  BY DEF Amid, AmidOne
<1>4. Accounted(l)
  BY DEF CountsInv
<1>5. SaidOf(l) = {} => SaidOf(l)' = {} /\ run'.requests[l] = run.requests[l]
  <2>1. run.requests[l] \in Nat
    BY DEF CountsInv, CountsShape
  <2> QED BY <1>1, <1>2, <2>1
<1>6. slotted[l] = "new" => OfNew(l)'
  BY <1>4, <1>5 DEF Accounted, OfNew
<1>7. ASSUME slotted[l] = "none" PROVE OfNone(l)'
  <2>1. OfNone(l)
    BY <1>4, <1>7 DEF Accounted
  <2> DEFINE S == SaidOf(l)
             P == SaidOf(l) \cap BeforeDone
             one == IF 1 \in S THEN 1 ELSE 0
             ahead == IF 1 \in P THEN 1 ELSE 0
  <2>2. S \in SUBSET (1..Len(port)) /\ P \in SUBSET (1..Len(port)) /\ Len(port) > 0
    BY <1>1 DEF SaidOf
  <2>3. /\ SaidOf(l)' = {i \in 1..(Len(port) - 1) : i + 1 \in S}
        /\ (SaidOf(l) \cap BeforeDone)' = {i \in 1..(Len(port) - 1) : i + 1 \in P}
    BY <1>1
  <2>4. run'.requests[l] = run.requests[l] + one
    BY <1>2
  <2>5. ahead <= one /\ ahead \in Nat /\ one \in Nat
    OBVIOUS
  <2> HIDE DEF S, P
  <2>6. /\ Cardinality(S) \in Nat /\ Cardinality(SaidOf(l)') \in Nat
        /\ Cardinality(S) = Cardinality(SaidOf(l)') + one
    <3>1. \A T : T = {i \in 1..(Len(port) - 1) : i + 1 \in S}
                 => /\ Cardinality(S) \in Nat /\ Cardinality(T) \in Nat
                    /\ Cardinality(S) = Cardinality(T) + one
      BY <1>1, <2>2, MovedUp
    <3> HIDE DEF one
    <3> QED BY <2>3, <3>1
  <2>7. /\ Cardinality(P) \in Nat /\ Cardinality((SaidOf(l) \cap BeforeDone)') \in Nat
        /\ Cardinality(P) = Cardinality((SaidOf(l) \cap BeforeDone)') + ahead
    <3>1. \A T : T = {i \in 1..(Len(port) - 1) : i + 1 \in P}
                 => /\ Cardinality(P) \in Nat /\ Cardinality(T) \in Nat
                    /\ Cardinality(P) = Cardinality(T) + ahead
      BY <1>1, <2>2, MovedUp
    <3> HIDE DEF ahead
    <3> QED BY <2>3, <3>1
  <2> HIDE DEF one, ahead
  <2>8. /\ run.requests[l] + Cardinality(S) + AmidOne(l, "say") = counted.made[l]
        /\ counted.atDone[l] <= run.requests[l] + Cardinality(P)
    BY <2>1 DEF OfNone, S, P
  <2>9. AmidOne(l, "say") \in Nat /\ run.requests[l] \in Nat /\ counted.atDone[l] \in Nat
    BY DEF AmidOne, CountsInv, CountsShape
  <2>10. /\ run'.requests[l] + Cardinality(SaidOf(l)') + AmidOne(l, "say") = counted.made[l]
         /\ counted.atDone[l] <= run'.requests[l] + Cardinality((SaidOf(l) \cap BeforeDone)')
    <3>1. run'.requests[l] + Cardinality(SaidOf(l)') = run.requests[l] + Cardinality(S)
      BY <2>4, <2>5, <2>6, <2>9
    <3>2. run.requests[l] + Cardinality(P) <= run'.requests[l] + Cardinality((SaidOf(l) \cap BeforeDone)')
      BY <2>4, <2>5, <2>7, <2>9
    <3>3. run'.requests[l] \in Nat
      BY <2>4, <2>5, <2>9
    <3>4. run'.requests[l] + Cardinality(SaidOf(l)') + AmidOne(l, "say") = counted.made[l]
      BY <2>8, <3>1
    <3>5. run'.requests[l] + Cardinality((SaidOf(l) \cap BeforeDone)') \in Nat
      BY <2>7, <3>3
    <3>6. run.requests[l] + Cardinality(P) \in Nat
      BY <2>7, <2>9
    <3>7. counted.atDone[l] <= run'.requests[l] + Cardinality((SaidOf(l) \cap BeforeDone)')
      BY <2>8, <2>9, <3>2, <3>5, <3>6
    <3> QED BY <3>4, <3>7
  <2>11. AmidOne(l, "say")' = AmidOne(l, "say") /\ ~Amid(l, "add")' /\ ~Amid(l, "name")'
    BY <1>3, <2>1 DEF OfNone
  <2> QED BY <2>10, <2>11 DEF OfNone
<1>8. ASSUME slotted[l] = "slot" PROVE OfSlot(l)' /\ IsNamed(l)'
  <2>1. OfSlot(l) /\ IsNamed(l)
    BY <1>4, <1>8 DEF Accounted
  <2>2. SaidOf(l)' = {} /\ run'.requests[l] = run.requests[l]
    BY <1>5, <2>1 DEF OfSlot
  <2>3. OfSlot(l)'
    BY <1>3, <2>1, <2>2 DEF OfSlot
  <2>4. l \in heard \/ NamedOf(l) # {} => l \in heard' \/ NamedOf(l)' # {}
    <3> SUFFICES ASSUME NEW i \in NamedOf(l), l \notin heard' PROVE NamedOf(l)' # {}
      OBVIOUS
    <3>1. i \in 1..Len(port) /\ i # 1
      BY <1>2 DEF NamedOf
    <3>2. i - 1 \in NamedOf(l)'
      BY <1>1, <3>1
    <3> QED BY <3>2
  <2>5. l \in heard \/ NamedOf(l) \cap BeforeDone # {} => l \in heard' \/ (NamedOf(l) \cap BeforeDone)' # {}
    <3> SUFFICES ASSUME NEW i \in NamedOf(l) \cap BeforeDone, l \notin heard'
                 PROVE  (NamedOf(l) \cap BeforeDone)' # {}
      OBVIOUS
    <3>1. i \in 1..Len(port) /\ i # 1
      BY <1>2 DEF NamedOf
    <3>2. i - 1 \in (NamedOf(l) \cap BeforeDone)'
      BY <1>1, <3>1
    <3> QED BY <3>2
  <2>6. IsNamed(l)'
    BY <2>1, <2>4, <2>5 DEF IsNamed
  <2> QED BY <2>3, <2>6
<1>9. l \in heard' \/ NamedOf(l)' # {} => l \in heard \/ NamedOf(l) # {}
  BY <1>1, <1>2
<1> QED BY <1>4, <1>6, <1>7, <1>8, <1>9 DEF Accounted

\* What the run takes of the counts once its turn ends; the site's own are as
\* they were.
Steady ==
  UNCHANGED <<memory, site, slotted, counted, heard, port>>

LEMMA SteadyPort ==
  ASSUME Steady
  PROVE  /\ BeforeDone' = BeforeDone
         /\ \A l \in Labels : SaidOf(l)' = SaidOf(l) /\ NamedOf(l)' = NamedOf(l)
BY DEF Steady, BeforeDone, SaidOf, NamedOf

LEMMA DoneIsHeard ==
  ASSUME Past(3)
  PROVE  BeforeDone = {}
<1> SUFFICES ASSUME NEW i \in BeforeDone PROVE FALSE
  OBVIOUS
<1>1. PICK j \in 1..Len(port) : port[j].kind = "done"
  BY DEF BeforeDone
<1>2. port[j] \in OnPort /\ RankOf(port[j]) = 3
  BY <1>1 DEF OnPort, RankOf
<1> QED BY <1>2 DEF Past

\* The run hangs up: of a label with a slot it has what is in it now.
LEMMA HangsUp ==
  ASSUME TurnInv, CountsInv, Steady, ~turn.hungUp, turn'.hungUp, NEW l \in Labels,
         run'.requests[l] = run.requests[l] + (IF l \in heard THEN memory.requests[l] ELSE 0),
         turn'.said /\ ~going'.why => Past(3)
  PROVE  Accounted(l)' /\ run'.requests[l] \in Nat
<1> USE DEF TurnInv, Steady
<1>1. /\ BeforeDone' = BeforeDone /\ SaidOf(l)' = SaidOf(l) /\ NamedOf(l)' = NamedOf(l)
  BY SteadyPort
<1>2. \A step : /\ Amid(l, step)' <=> Amid(l, step)
                /\ AmidOne(l, step)' = AmidOne(l, step)
  BY DEF Amid, AmidOne
<1>3. /\ Accounted(l) /\ memory.requests[l] \in Nat /\ run.requests[l] \in Nat
      /\ counted.atDone[l] \in Nat
  BY DEF CountsInv, CountsShape
<1>4. run'.requests[l] \in Nat
  BY <1>3
<1>5. slotted[l] # "slot" => run'.requests[l] = run.requests[l]
  BY <1>3 DEF Accounted
<1>6. slotted[l] = "new" => OfNew(l)'
  BY <1>1, <1>3, <1>5 DEF Accounted, OfNew
<1>7. slotted[l] = "none" => OfNone(l)'
  BY <1>1, <1>2, <1>3, <1>5 DEF Accounted, OfNone
<1>8. ASSUME slotted[l] = "slot" PROVE OfSlot(l)' /\ IsNamed(l)'
  <2>1. OfSlot(l) /\ IsNamed(l)
    BY <1>3, <1>8 DEF Accounted
  <2>2. run.requests[l] = 0
    BY <2>1 DEF OfSlot
  <2>3. run'.requests[l] = IF l \in heard THEN memory.requests[l] ELSE 0
    BY <1>3, <2>2
  <2>4. ASSUME turn'.said, ~going'.why PROVE counted.atDone[l] <= run'.requests[l]
    <3>1. Past(3)
      BY <2>4
    <3>2. BeforeDone = {}
      BY <3>1, DoneIsHeard
    <3>3. counted.atDone[l] > 0 => l \in heard
      BY <2>1, <3>2 DEF IsNamed
    <3>4. counted.atDone[l] <= memory.requests[l]
      BY <2>1 DEF OfSlot
    <3> QED BY <1>3, <2>3, <3>3, <3>4
  <2>5. run'.requests[l] <= memory.requests[l]
    BY <1>3, <2>3
  <2>6. OfSlot(l)'
    BY <1>1, <1>2, <2>1, <2>4, <2>5 DEF OfSlot
  <2>7. IsNamed(l)'
    BY <1>1, <2>1 DEF IsNamed
  <2> QED BY <2>6, <2>7
<1> QED BY <1>1, <1>3, <1>4, <1>6, <1>7, <1>8 DEF Accounted

\* A label that is named is one.
Labelled ==
  /\ heard \subseteq Labels
  /\ \A i \in 1..Len(port) : port[i].kind = "slot" => port[i].label \in Labels
  /\ site.steps # <<>> => site.label \in Labels

LEMMA LabelledNext ==
  ASSUME TurnInv, Labelled, Thread!Next
  PROVE  Labelled'
<1> USE DEF TurnInv
<1>1. ASSUME UNCHANGED <<port, heard>>, site'.steps # <<>> => site'.label \in Labels
      PROVE  Labelled'
  BY <1>1 DEF Labelled
<1>2. ASSUME NEW m \in Messages, port' = Append(port, m), UNCHANGED heard,
             m.kind = "slot" => m.label \in Labels,
             site'.steps # <<>> => site'.label \in Labels
      PROVE  Labelled'
  <2>1. /\ Len(port') = Len(port) + 1 /\ port'[Len(port) + 1] = m /\ Len(port) \in Nat
        /\ \A i \in 1..Len(port) : port'[i] = port[i]
    BY <1>2, AppendProperties DEF InOrder
  <2>2. \A i \in 1..Len(port') : i \in 1..Len(port) \/ i = Len(port) + 1
    BY <2>1
  <2>3. \A i \in 1..Len(port') : port'[i].kind = "slot" => port'[i].label \in Labels
    BY <1>2, <2>1, <2>2 DEF Labelled
  <2> QED BY <1>2, <2>3 DEF Labelled
<1>3. CASE Thread!Turn \/ Thread!Ask \/ Thread!Answer \/ Thread!Back \/ Thread!CacheCloses \/ Thread!Die
  <2>1. UNCHANGED heard
    BY <1>3 DEF Thread!Turn, Thread!Begin, Thread!LoadFails, Thread!Fetch, Thread!Fail,
       Thread!SayFailed, Thread!End, Thread!SayDone, Thread!Done, Thread!Throws, Thread!Ask,
       Thread!Answer, Thread!Back, Thread!CacheCloses, Thread!Die, Thread!host
  <2>2. UNCHANGED site \/ \E st : Thread!Goto(st)
    BY <1>3 DEF Thread!Turn, Thread!Begin, Thread!LoadFails, Thread!Fetch, Thread!Fail,
       Thread!SayFailed, Thread!End, Thread!SayDone, Thread!Done, Thread!Throws, Thread!Ask,
       Thread!Answer, Thread!Back, Thread!CacheCloses, Thread!Die, Thread!thread
  <2>3. site'.steps = site.steps /\ site'.label = site.label
    BY <2>2 DEF Thread!Goto, SidesShape
  <2>4. \/ UNCHANGED port
        \/ \E kind \in {"failed", "site:failed", "site:done", "done", "cache", "close"} :
             port' = Append(port, Thread!Message(kind))
    BY <1>3 DEF Thread!Turn, Thread!Begin, Thread!LoadFails, Thread!Fetch, Thread!Fail,
       Thread!SayFailed, Thread!End, Thread!SayDone, Thread!Done, Thread!Throws, Thread!Ask,
       Thread!Answer, Thread!Back, Thread!CacheCloses, Thread!Die, Thread!Send
  <2>5. \A kind \in {"failed", "site:failed", "site:done", "done", "cache", "close"} :
          Thread!Message(kind) \in Messages /\ Thread!Message(kind).kind # "slot"
    BY DEF Thread!Message, Messages, Kinds
  <2> QED BY <1>1, <1>2, <2>1, <2>3, <2>4, <2>5 DEF Labelled
<1>4. CASE \E l \in Labels : Thread!Request(l)
  <2>1. site'.label \in Labels /\ UNCHANGED <<port, heard>>
    BY <1>4 DEF Thread!Request, Thread!host, SidesShape
  <2> QED BY <1>1, <2>1
<1>5. CASE Thread!Count
  <2>1. /\ site.label \in Labels /\ site'.label = site.label /\ UNCHANGED heard
        /\ \/ UNCHANGED port
           \/ \E kind \in {"slot", "requested"} :
                port' = Append(port, [kind |-> kind, label |-> site.label])
    BY <1>5 DEF Thread!Count, Thread!Send, Thread!host, SidesShape, Labelled
  <2>2. CASE UNCHANGED port
    BY <1>1, <2>1, <2>2
  <2>3. ASSUME NEW kind \in {"slot", "requested"},
               port' = Append(port, [kind |-> kind, label |-> site.label])
        PROVE  Labelled'
    <3> DEFINE m == [kind |-> kind, label |-> site.label]
    <3>1. m \in Messages /\ m.label \in Labels /\ port' = Append(port, m)
      BY <2>1, <2>3 DEF Messages, Kinds
    <3> HIDE DEF m
    <3> QED BY <1>2, <2>1, <3>1
  <2> QED BY <2>1, <2>2, <2>3
<1>6. CASE Thread!Hear
  <2>1. /\ port # <<>> /\ port' = Tail(port) /\ UNCHANGED site
        /\ heard' = heard \/ (Head(port).kind = "slot" /\ heard' = heard \cup {Head(port).label})
    <3>1. Head(port).kind \in Kinds
      BY <1>6, HeardKeeps DEF Messages, Thread!Hear, Thread!thread
    <3>2. CASE Head(port).kind = "slot"
      BY <1>6, <3>2 DEF Thread!Hear, Thread!thread
    <3>3. CASE Head(port).kind # "slot"
      <4>1. UNCHANGED heard
        BY <1>6, <3>1, <3>3 DEF Thread!Hear, Kinds
      <4> QED BY <1>6, <4>1 DEF Thread!Hear, Thread!thread
    <3> QED BY <3>2, <3>3
  <2>2. /\ Head(port) = port[1] /\ 1 \in 1..Len(port)
        /\ \A i \in 1..Len(port') : i + 1 \in 1..Len(port) /\ port'[i] = port[i + 1]
    BY <2>1, PortMoves
  <2> QED BY <2>1, <2>2 DEF Labelled
<1>7. CASE Thread!HearWhy \/ Thread!GiveUp \/ Thread!RunEnds
  BY <1>1, <1>7 DEF Thread!HearWhy, Thread!GiveUp, Thread!RunEnds, Thread!thread, Labelled
<1> QED BY <1>3, <1>4, <1>5, <1>6, <1>7 DEF Thread!Next

\* No label is counted under of a site that never began.
BegunFirst == memory.began \/ \A l \in Labels : slotted[l] = "new"

LEMMA BegunNext ==
  ASSUME TurnInv, BegunFirst, Thread!Next
  PROVE  BegunFirst'
<1>1. memory.began => memory'.began
  <2>1. \/ UNCHANGED memory \/ memory' = [memory EXCEPT !.began = TRUE]
        \/ memory' = [memory EXCEPT !.fetched = 1] \/ memory' = [memory EXCEPT !.failed = 1]
        \/ memory' = [memory EXCEPT !.requests[site.label] = @ + 1]
    BY DEF Thread!Next, Thread!Turn, Thread!Begin, Thread!LoadFails, Thread!Fetch, Thread!Fail,
       Thread!SayFailed, Thread!End, Thread!SayDone, Thread!Done, Thread!Throws, Thread!Request,
       Thread!Count, Thread!Ask, Thread!Answer, Thread!Back, Thread!CacheCloses, Thread!Die,
       Thread!Hear, Thread!HearWhy, Thread!GiveUp, Thread!RunEnds, Thread!thread, Thread!SetBegan
  <2> QED BY <2>1 DEF TurnInv, SidesShape
<1>2. CASE \E l \in Labels : Thread!Request(l)
  BY <1>1, <1>2 DEF Thread!Request, BegunFirst
<1>3. CASE ~\E l \in Labels : Thread!Request(l)
  <2>1. UNCHANGED slotted
    BY <1>3 DEF Thread!Next, Thread!Turn, Thread!Begin, Thread!LoadFails, Thread!Fetch, Thread!Fail,
       Thread!SayFailed, Thread!End, Thread!SayDone, Thread!Done, Thread!Throws,
       Thread!Count, Thread!Ask, Thread!Answer, Thread!Back, Thread!CacheCloses, Thread!Die,
       Thread!Hear, Thread!HearWhy, Thread!GiveUp, Thread!RunEnds, Thread!thread
  <2> QED BY <1>1, <2>1 DEF BegunFirst
<1> QED BY <1>2, <1>3

\* A turn's end by itself adds nothing of a slot: a site hung up on there never
\* began.
LEMMA EndedTakes ==
  ASSUME TurnInv, CountsInv, BegunFirst, NEW how, Thread!Ended(how)
  PROVE  /\ run'.requests = run.requests /\ run'.over = run.over
         /\ (turn.hungUp => turn'.hungUp) /\ turn'.said = turn.said
<1> USE DEF TurnInv
<1>1. CASE turn.ended
  BY <1>1 DEF Thread!Ended
<1> DEFINE r == Thread!Tallied(run)
<1>2. /\ r.requests = run.requests /\ r.over = run.over /\ DOMAIN r = DOMAIN run
  BY DEF Thread!Tallied, SidesShape
<1> HIDE DEF r
<1>3. CASE ~turn.ended /\ how # "done" /\ ~memory.began
  <2>1. /\ turn' = [turn EXCEPT !.ended = TRUE, !.hungUp = TRUE, !.answer = "rejected"]
        /\ run' = Thread!HungUp(r)
    BY <1>3 DEF Thread!Ended, r
  <2>2. turn'.hungUp /\ turn'.said = turn.said
    BY <2>1 DEF SidesShape
  <2>3. \A l \in Labels : l \notin heard
    BY <1>3 DEF BegunFirst, CountsInv, Accounted
  <2>4. /\ run'.over = r.over
        /\ run'.requests = [l \in Labels |-> r.requests[l] + IF l \in heard THEN memory.requests[l] ELSE 0]
    BY <1>2, <2>1 DEF Thread!HungUp, SidesShape
  <2>5. run.requests \in [Labels -> Nat]
    BY DEF CountsInv, CountsShape
  <2>6. run'.requests = run.requests
    BY <1>2, <2>3, <2>4, <2>5
  <2> QED BY <1>2, <2>2, <2>4, <2>6
<1>4. CASE ~turn.ended /\ ~(how # "done" /\ ~memory.began)
  <2>1. /\ turn' = [turn EXCEPT !.ended = TRUE, !.answer = "resolved"]
        /\ run' = IF how = "done" \/ turn.said THEN r
                  ELSE LET missing == IF turn.said THEN 0 ELSE Thread!NotCounted(memory) IN
                       [r EXCEPT !.failed = @ + missing, !.saidFailed = @ + missing, !.saidDone = @ + 1]
    BY <1>4 DEF Thread!Ended, r
  <2>2. turn'.hungUp = turn.hungUp /\ turn'.said = turn.said
    BY <2>1 DEF SidesShape
  <2>3. run'.requests = r.requests /\ run'.over = r.over
    BY <1>2, <2>1 DEF SidesShape
  <2> QED BY <1>2, <2>2, <2>3
<1> QED BY <1>1, <1>3, <1>4

\* What the run hears.
LEMMA HearCounts ==
  ASSUME TurnInv, CountsInv, BegunFirst, EndsByWord', Thread!Hear
  PROVE  CountsInv'
<1> USE DEF TurnInv
<1> DEFINE m == Head(port)
<1>1. /\ port # <<>> /\ port' = Tail(port) /\ ~Thread!Deaf
      /\ UNCHANGED <<memory, site, slotted, alive, counted>>
  BY DEF Thread!Hear, Thread!thread
<1>2. m \in Messages /\ m.kind \in Kinds
  BY <1>1, HeardKeeps DEF Messages
<1> HIDE DEF m
<1>3. ASSUME run'.requests \in [Labels -> Nat] PROVE CountsShape'
  BY <1>1, <1>3 DEF CountsInv, CountsShape, Amid
<1>4. ASSUME run'.requests = run.requests, m.kind # "requested",
             \A l \in Labels : l \in heard' <=> l \in heard \/ (m.kind = "slot" /\ m.label = l),
             turn.hungUp => turn'.hungUp,
             run'.over /\ turn'.said /\ ~going'.why => run.over /\ turn.said /\ ~going.why
      PROVE  CountsInv'
  <2>1. run.requests \in [Labels -> Nat]
    BY DEF CountsInv, CountsShape
  <2>2. ASSUME NEW l \in Labels PROVE Accounted(l)'
    <3>1. run'.requests[l] = run.requests[l]
                             + (IF Head(port).kind = "requested" /\ Head(port).label = l THEN 1 ELSE 0)
      BY <1>4, <2>1 DEF m
    <3>2. l \in heard' <=> l \in heard \/ (Head(port).kind = "slot" /\ Head(port).label = l)
      BY <1>4 DEF m
    <3> QED BY <1>1, <1>4, <3>1, <3>2, HeardAccounted
  <2> QED BY <1>3, <1>4, <2>1, <2>2 DEF CountsInv
<1>5. CASE m.kind = "site:failed"
  <2>1. run' = [run EXCEPT !.saidFailed = @ + 1] /\ UNCHANGED <<turn, going, heard>>
    BY <1>5 DEF Thread!Hear, m
  <2>2. run'.requests = run.requests /\ run'.over = run.over
    BY <2>1 DEF SidesShape
  <2> QED BY <1>4, <1>5, <2>1, <2>2
<1>6. CASE m.kind = "site:done"
  <2>1. /\ run' = [run EXCEPT !.saidDone = @ + 1] /\ turn' = [turn EXCEPT !.said = TRUE]
        /\ UNCHANGED <<going, heard>>
    BY <1>6 DEF Thread!Hear, m
  <2>2. run'.requests = run.requests /\ run'.over = run.over /\ turn'.hungUp = turn.hungUp
    BY <2>1 DEF SidesShape
  <2>3. ~Past(3)
    <3>1. RankOf(m) = 2
      BY <1>6 DEF RankOf
    <3>2. ~Past(2)
      BY <1>1, <3>1, HeardKeeps DEF m
    <3> QED BY <3>2, StageType DEF Past
  <2>4. ~run.over
    BY <1>1, <2>3 DEF IsOver, NotOver
  <2> QED BY <1>4, <1>6, <2>1, <2>2, <2>4
<1>7. CASE m.kind = "slot"
  <2>1. heard' = heard \cup {m.label} /\ UNCHANGED <<turn, going, run>>
    BY <1>7 DEF Thread!Hear, m
  <2> QED BY <1>4, <1>7, <2>1
<1>8. CASE m.kind = "cache"
  <2>1. UNCHANGED <<turn, going, run, heard>>
    BY <1>8 DEF Thread!Hear, m
  <2> QED BY <1>4, <1>8, <2>1
<1>9. CASE m.kind \in {"done", "failed"}
  <2>1. UNCHANGED <<going, heard>> /\ \E how : Thread!Ended(how)
    BY <1>9 DEF Thread!Hear, m
  <2>2. /\ run'.requests = run.requests /\ run'.over = run.over
        /\ (turn.hungUp => turn'.hungUp) /\ turn'.said = turn.said
    BY <2>1, EndedTakes
  <2> QED BY <1>4, <1>9, <2>1, <2>2
<1>10. CASE m.kind = "close"
  <2>1. /\ going' = [going EXCEPT !.closed = TRUE, !.waiting = ~turn.ended /\ ~going.why]
        /\ Thread!Ended("went") \/ UNCHANGED <<turn, run>>
        /\ UNCHANGED heard
    BY <1>10 DEF Thread!Hear, m
  <2>2. /\ run'.requests = run.requests /\ run'.over = run.over
        /\ (turn.hungUp => turn'.hungUp) /\ turn'.said = turn.said
    BY <2>1, EndedTakes
  <2>3. going'.why = going.why
    BY <2>1 DEF SidesShape
  <2> QED BY <1>4, <1>10, <2>1, <2>2, <2>3
<1>11. CASE m.kind = "requested"
  <2>1. run' = [run EXCEPT !.requests[m.label] = @ + 1] /\ UNCHANGED <<turn, going, heard>>
    BY <1>11 DEF Thread!Hear, m
  <2>2. run'.requests = [run.requests EXCEPT ![m.label] = @ + 1] /\ run'.over = run.over
    BY <2>1 DEF SidesShape
  <2>3. run.requests \in [Labels -> Nat]
    BY DEF CountsInv, CountsShape
  <2>4. run'.requests \in [Labels -> Nat]
    <3>1. m.label \in Labels => run.requests[m.label] + 1 \in Nat
      BY <2>3
    <3> QED BY <2>2, <2>3, <3>1
  <2>5. ASSUME NEW l \in Labels PROVE Accounted(l)'
    <3>1. run'.requests[l] = run.requests[l]
                             + (IF Head(port).kind = "requested" /\ Head(port).label = l THEN 1 ELSE 0)
      <4>1. run.requests[l] \in Nat
        BY <2>3
      <4>2. CASE m.label = l
        BY <1>11, <2>2, <2>3, <4>1, <4>2 DEF m
      <4>3. CASE m.label # l
        BY <1>11, <2>2, <2>3, <4>1, <4>3 DEF m
      <4> QED BY <4>2, <4>3
    <3>2. l \in heard' <=> l \in heard \/ (Head(port).kind = "slot" /\ Head(port).label = l)
      BY <1>11, <2>1 DEF m
    <3> QED BY <1>1, <2>1, <2>2, <3>1, <3>2, HeardAccounted
  <2> QED BY <1>3, <2>4, <2>5 DEF CountsInv
<1> QED BY <1>2, <1>5, <1>6, <1>7, <1>8, <1>9, <1>10, <1>11 DEF Kinds

\* The run hears why its thread went, waits no longer, or is done.
LEMMA HostCounts ==
  ASSUME TurnInv, CountsInv, BegunFirst, EndsByWord',
         Thread!HearWhy \/ Thread!GiveUp \/ Thread!RunEnds
  PROVE  CountsInv'
<1> USE DEF TurnInv
<1>1. Steady
  BY DEF Steady, Thread!HearWhy, Thread!GiveUp, Thread!RunEnds, Thread!thread
<1>2. ASSUME run'.requests = run.requests, turn.hungUp => turn'.hungUp,
             run'.over /\ turn'.said /\ ~going'.why => run.over /\ turn.said /\ ~going.why
      PROVE  CountsInv'
  <2>1. Indifferent
    BY <1>1, <1>2 DEF Steady, Indifferent
  <2> QED BY <1>2, <2>1, CountsKeep DEF CountsInv
<1>3. CASE Thread!HearWhy \/ Thread!GiveUp
  <2>1. /\ Thread!Ended("went") \/ UNCHANGED <<turn, run>>
        /\ ~turn.ended
    BY <1>3 DEF Thread!HearWhy, Thread!GiveUp
  <2>2. /\ run'.requests = run.requests /\ run'.over = run.over
        /\ turn.hungUp => turn'.hungUp
    BY <2>1, EndedTakes
  <2>3. ~run'.over
    BY <2>1, <2>2 DEF NotOver
  <2> QED BY <1>2, <2>2, <2>3
<1>4. CASE Thread!RunEnds
  <2>1. turn.answer # "none" /\ ~run.over /\ UNCHANGED going /\ turn.ended
    BY <1>4 DEF Thread!RunEnds, NotOver
  <2>2. CASE turn.answer = "rejected"
    <3>1. /\ run' = [run EXCEPT !.over = TRUE, !.failed = @ + 1, !.saidFailed = @ + 1, !.saidDone = @ + 1]
          /\ UNCHANGED turn
      BY <1>4, <2>2 DEF Thread!RunEnds
    <3>2. run'.requests = run.requests
      BY <3>1 DEF SidesShape
    <3>3. ~turn'.said
      BY <2>2, <3>1 DEF CountsInv, EndsByWord
    <3> QED BY <1>2, <3>1, <3>2, <3>3
  <2>3. CASE turn.answer # "rejected"
    <3>1. turn' = [turn EXCEPT !.hungUp = TRUE] /\ run' = [Thread!HungUp(run) EXCEPT !.over = TRUE]
      BY <1>4, <2>3 DEF Thread!RunEnds
    <3>2. turn'.hungUp /\ turn'.said = turn.said /\ ~turn.hungUp
      BY <2>1, <2>3, <3>1 DEF SidesShape, CountsInv, EndsByWord
    <3>3. run'.requests = [l \in Labels |-> run.requests[l]
                                            + IF l \in heard THEN memory.requests[l] ELSE 0]
      BY <3>1 DEF Thread!HungUp, SidesShape
    <3>4. turn'.said /\ ~going'.why => Past(3)
      BY <2>1 DEF CountsInv, EndsByWord
    <3>5. \A l \in Labels : Accounted(l)' /\ run'.requests[l] \in Nat
      BY <1>1, <3>2, <3>3, <3>4, HangsUp
    <3>6. run'.requests \in [Labels -> Nat]
      BY <3>3, <3>5
    <3>7. CountsShape'
      BY <1>1, <3>6 DEF CountsInv, CountsShape, Steady, Amid
    <3> QED BY <3>5, <3>7 DEF CountsInv
  <2> QED BY <2>2, <2>3
<1> QED BY <1>3, <1>4

LEMMA CountsNext ==
  ASSUME TurnInv, CountsInv, BegunFirst, Labelled, [MCNext]_all
  PROVE  CountsInv' /\ BegunFirst' /\ Labelled'
<1>1. CASE UNCHANGED ofThread
  <2>1. UNCHANGED <<memory, site, slotted, port, turn, going, heard, run, counted>>
    BY <1>1 DEF ofThread
  <2>2. /\ BeforeDone' = BeforeDone
        /\ \A l \in Labels : SaidOf(l)' = SaidOf(l) /\ NamedOf(l)' = NamedOf(l)
    BY <2>1, SteadyPort DEF Steady
  <2>3. \A l \in Labels : Accounted(l)'
    BY <2>1, <2>2, AccountedSame DEF CountsInv
  <2>4. CountsShape' /\ EndsByWord' /\ BegunFirst' /\ Labelled'
    BY <2>1 DEF CountsInv, CountsShape, EndsByWord, BegunFirst, Labelled, Amid, Past, OnPort
  <2> QED BY <2>3, <2>4 DEF CountsInv
<1>2. CASE Thread!Next
  <2>1. EndsByWord'
    BY <1>2, EndsNext DEF CountsInv
  <2>2. BegunFirst' /\ Labelled'
    BY <1>2, BegunNext, LabelledNext
  <2>3. CASE Thread!Turn
    BY <2>1, <2>2, <2>3, OthersCount, DoneCounts
  <2>4. CASE \E l \in Labels : Thread!Request(l)
    BY <2>1, <2>2, <2>4, RequestCounts
  <2>5. CASE Thread!Count \/ Thread!Hear
    BY <2>1, <2>2, <2>5, CountCounts, HearCounts
  <2>6. CASE Thread!HearWhy \/ Thread!GiveUp \/ Thread!RunEnds
    BY <2>1, <2>2, <2>6, HostCounts
  <2>7. CASE Thread!Ask \/ Thread!Answer \/ Thread!Back \/ Thread!CacheCloses \/ Thread!Die
    BY <2>1, <2>2, <2>7, OthersCount
  <2> QED BY <1>2, <2>2, <2>3, <2>4, <2>5, <2>6, <2>7 DEF Thread!Next
<1> QED BY <1>1, <1>2 DEF MCNext, OfDocument, OfRequests, InThread, all

\* What a thread's site requested adds up in the run, wherever it was counted: no
\* request twice, none missing that was made by the time the site said it was
\* done, and no label named before its count is there to be read (CountWriter and
\* CountReader in src/grabber/shared-counts.ts, hangUp in thread.ts).
THEOREM ThreadRequestsAddUp == MCSpec => []RequestsAddUp
<1> DEFINE Inv == TurnInv /\ CountsInv /\ BegunFirst /\ Labelled
<1>1. Inv => RequestsAddUp
  <2> SUFFICES ASSUME Inv PROVE RequestsAddUp
    OBVIOUS
  <2>1. ASSUME NEW l \in Labels
        PROVE  /\ run.requests[l] <= counted.made[l]
               /\ run.over /\ turn.said /\ ~going.why => run.requests[l] >= counted.atDone[l]
    <3>1. /\ Accounted(l) /\ slotted[l] \in {"new", "slot", "none"}
          /\ memory.requests[l] \in Nat /\ run.requests[l] \in Nat /\ counted.made[l] \in Nat
          /\ counted.atDone[l] \in Nat
      BY DEF CountsInv, CountsShape
    <3>2. AmidOne(l, "add") \in Nat /\ AmidOne(l, "say") \in Nat
      BY DEF AmidOne
    <3>3. CASE slotted[l] = "new"
      BY <3>1, <3>3 DEF Accounted, OfNew
    <3>4. CASE slotted[l] = "slot"
      <4>1. /\ memory.requests[l] + AmidOne(l, "add") = counted.made[l]
            /\ run.requests[l] <= memory.requests[l]
            /\ run.over /\ turn.said /\ ~going.why => counted.atDone[l] <= run.requests[l]
        BY <3>1, <3>4 DEF Accounted, OfSlot
      <4> QED BY <3>1, <3>2, <4>1
    <3>5. CASE slotted[l] = "none"
      <4>1. /\ run.requests[l] + Cardinality(SaidOf(l)) + AmidOne(l, "say") = counted.made[l]
            /\ counted.atDone[l] <= run.requests[l] + Cardinality(SaidOf(l) \cap BeforeDone)
        BY <3>1, <3>5 DEF Accounted, OfNone
      <4>2. Cardinality(SaidOf(l)) \in Nat
        BY SaidFinite DEF TurnInv
      <4>3. run.requests[l] <= counted.made[l]
        BY <3>1, <3>2, <4>1, <4>2
      <4>4. ASSUME run.over, turn.said, ~going.why PROVE run.requests[l] >= counted.atDone[l]
        <5>1. Past(3)
          BY <4>4 DEF TurnInv, NotOver, CountsInv, EndsByWord
        <5>2. BeforeDone = {}
          BY <5>1, DoneIsHeard
        <5>3. Cardinality(SaidOf(l) \cap BeforeDone) = 0
          <6>1. SaidOf(l) \cap BeforeDone = {}
            BY <5>2
          <6> QED BY <6>1, FS_EmptySet
        <5> QED BY <3>1, <4>1, <5>3
      <4> QED BY <4>3, <4>4
    <3> QED BY <3>1, <3>3, <3>4, <3>5
  <2>2. \A l \in heard : memory.requests[l] > 0
    BY NamedHasSlot DEF Labelled
  <2> QED BY <2>1, <2>2 DEF RequestsAddUp, Thread!RequestsAddUp
<1>2. MCInit => Inv
  BY TurnInit, CountsInit DEF MCInit, Thread!Init, BegunFirst, Labelled
<1>3. Inv /\ [MCNext]_all => Inv'
  BY TurnNext, CountsNext
<1> QED BY <1>1, <1>2, <1>3, PTL DEF MCSpec
=============================================================================
