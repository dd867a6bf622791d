--------------------------- MODULE ParsesProofs ---------------------------
(* What the parses of a site share, for any works, waits and slots: that    *)
(* LocalSlot keeps its type, that slots fit, and that it implements the     *)
(* pool; and for any calls, keys and answers: that what a site remembers is *)
(* handed to whom it is for, stored as it stands, and not lost.             *)
EXTENDS MCParses, SequenceTheorems, FiniteSetTheorems, TLAPS

Task == [work : Works, priority : 1..2]
CallStates == {"idle", "out", "waiting", "resumed", "returned", "failed"}
OutOf(w) == {i \in Waits[w] : caller[w][i] = "out"}

\* A work that asked for a slot is in the queue once, and has none until it
\* comes; a cancel leaves nothing in the queue.
Queueing ==
  /\ \A k \in 1..Len(queue) : taking[queue[k].work] = "pending"
  /\ \A j, k \in 1..Len(queue) : queue[j].work = queue[k].work => j = k
  /\ \A w \in Works : /\ taking[w] = "pending" => ~release[w]
                      /\ taking[w] = "rejected" => aborted
  /\ aborted => queue = <<>>

\* p-queue runs one task of a work that could let go of it, and no other.
OneEach == ~aborted => \A w \in Works : running[w] = (IF release[w] THEN 1 ELSE 0)

\* #away counts the waits that are out, and a work is over once #done.
Counted ==
  \A w \in Works : /\ away[w] = Cardinality(OutOf(w))
                   /\ done[w] => body[w] = "over"
                   /\ body[w] = "holding" => away[w] = 0

\* A work that was told it has a slot, and has no wait behind it, has one.
Backed ==
  ~aborted =>
    \A w \in Works :
      /\ body[w] = "holding" /\ caller[w]["hold"] = "returned" => release[w]
      /\ body[w] \in {"parsing", "writing"} /\ Outstanding(w) = {} => release[w]

SlotInv == TypeOK /\ Queueing /\ OneEach /\ Counted /\ Backed

-----------------------------------------------------------------------------
LEMMA InitInv == Init => SlotInv
<1> SUFFICES ASSUME Init PROVE SlotInv
  OBVIOUS
<1>1. \A w \in Works : OutOf(w) = {}
  BY DEF OutOf, Init, CallsOf
<1>2. \A w \in Works : Cardinality(OutOf(w)) = 0
  BY <1>1, FS_EmptySet
<1>3. queue \in Seq(Task) /\ Len(queue) = 0
  BY DEF Init
<1>4. TypeOK
  <2>1. \A w \in Works : caller[w] \in [CallsOf(w) -> CallStates]
    BY DEF Init, CallsOf, CallStates
  <2>2. /\ DOMAIN caller = Works /\ queue \in Seq(Task)
        /\ body \in [Works -> {"holding", "parsing", "writing", "over", "failed"}]
        /\ taking \in [Works -> {"none", "pending", "settled", "rejected"}]
    BY <1>3 DEF Init
  <2>3. /\ away \in [Works -> Nat] /\ running \in [Works -> 0..1] /\ ending \in [Works -> Nat]
        /\ slots \in 1..MaxSlots
    BY DEF Init
  <2>4. release \in [Works -> BOOLEAN] /\ done \in [Works -> BOOLEAN] /\ aborted \in BOOLEAN
    BY DEF Init
  <2> QED BY <2>1, <2>2, <2>3, <2>4 DEF TypeOK, Task, CallStates
<1>5. Queueing /\ OneEach /\ Backed
  BY <1>3 DEF Init, Queueing, OneEach, Backed, CallsOf
<1>6. Counted
  BY <1>2 DEF Init, Counted
<1> QED BY <1>4, <1>5, <1>6 DEF SlotInv

(* The queue with a task put into it.                                      *)
InsertedAt(s, i, t, u) ==
  /\ u \in Seq(Task) /\ Len(u) = Len(s) + 1
  /\ \A k \in 1..(Len(s) + 1) :
       u[k] = IF k < i THEN s[k] ELSE IF k = i THEN t ELSE s[k - 1]

LEMMA InsertedType ==
  ASSUME NEW s \in Seq(Task), NEW t \in Task, NEW i \in 1..(Len(s) + 1)
  PROVE  InsertedAt(s, i, t, InsertAt(s, i, t))
<1> DEFINE a == SubSeq(s, 1, i - 1)
           b == SubSeq(s, i, Len(s))
           m == a \o <<t>>
<1>1. Len(s) \in Nat /\ \A k \in 1..Len(s) : s[k] \in Task
  BY ElementOfSeq
<1>2. /\ a \in Seq(Task) /\ Len(a) = i - 1
      /\ \A k \in 1..(i - 1) : a[k] = s[k]
  <2>1. \A k \in 1..(i - 1) : s[k] \in Task
    BY <1>1
  <2>2. i - 1 \in Int /\ 1 \in Int /\ (IF 1 <= i - 1 THEN (i - 1) - 1 + 1 ELSE 0) = i - 1
    BY <1>1
  <2> HIDE DEF a
  <2>3. /\ a \in Seq(Task) /\ Len(a) = (IF 1 <= i - 1 THEN (i - 1) - 1 + 1 ELSE 0)
        /\ \A k \in 1..((i - 1) - 1 + 1) : a[k] = s[1 + k - 1]
    BY <2>1, <2>2, SubSeqProperties DEF a
  <2> QED BY <2>2, <2>3, <1>1
<1>3. /\ b \in Seq(Task) /\ Len(b) = Len(s) - i + 1
      /\ \A k \in 1..(Len(s) - i + 1) : b[k] = s[i + k - 1]
  <2>1. \A k \in i..Len(s) : s[k] \in Task
    BY <1>1
  <2>2. (IF i <= Len(s) THEN Len(s) - i + 1 ELSE 0) = Len(s) - i + 1
    BY <1>1
  <2> HIDE DEF b
  <2>3. /\ b \in Seq(Task) /\ Len(b) = (IF i <= Len(s) THEN Len(s) - i + 1 ELSE 0)
        /\ \A k \in 1..(Len(s) - i + 1) : b[k] = s[i + k - 1]
    BY <2>1, <1>1, SubSeqProperties DEF b
  <2> QED BY <2>2, <2>3
<1> HIDE DEF a, b
<1>4. <<t>> \in Seq(Task) /\ Len(<<t>>) = 1 /\ <<t>>[1] = t
  OBVIOUS
<1>5. /\ m \in Seq(Task) /\ Len(m) = i
      /\ \A k \in 1..i : m[k] = IF k <= i - 1 THEN a[k] ELSE <<t>>[k - (i - 1)]
  BY <1>2, <1>4, ConcatProperties
<1> HIDE DEF m
<1>6. /\ m \o b \in Seq(Task) /\ Len(m \o b) = Len(s) + 1
      /\ \A k \in 1..(Len(s) + 1) : (m \o b)[k] = IF k <= i THEN m[k] ELSE b[k - i]
  <2>1. i + (Len(s) - i + 1) = Len(s) + 1
    BY <1>1
  <2>2. /\ m \o b \in Seq(Task) /\ Len(m \o b) = Len(m) + Len(b)
        /\ \A k \in 1..(Len(m) + Len(b)) :
             (m \o b)[k] = IF k <= Len(m) THEN m[k] ELSE b[k - Len(m)]
    BY <1>3, <1>5, ConcatProperties
  <2>3. Len(m) + Len(b) = Len(s) + 1
    BY <1>3, <1>5, <2>1
  <2> QED BY <1>5, <2>2, <2>3
<1>7. InsertAt(s, i, t) = m \o b
  BY DEF InsertAt, m, a, b
<1>8. ASSUME NEW k \in 1..(Len(s) + 1)
      PROVE  (m \o b)[k] = IF k < i THEN s[k] ELSE IF k = i THEN t ELSE s[k - 1]
  <2>1. CASE k < i
    BY <2>1, <1>1, <1>2, <1>5, <1>6
  <2>2. CASE k = i
    <3>1. k \in 1..i /\ k <= i /\ ~(k <= i - 1) /\ k - (i - 1) = 1 /\ ~(k < i)
      BY <2>2, <1>1
    <3>2. (m \o b)[k] = m[k]
      BY <3>1, <1>6
    <3>3. m[k] = t
      BY <3>1, <1>4, <1>5
    <3> QED BY <2>2, <3>1, <3>2, <3>3
  <2>3. CASE k > i
    BY <2>3, <1>1, <1>3, <1>6
  <2>4. k < i \/ k = i \/ k > i
    BY <1>1
  <2> QED BY <2>1, <2>2, <2>3, <2>4
<1> QED BY <1>6, <1>7, <1>8 DEF InsertedAt

Free(s, t) == \A k \in 1..Len(s) : s[k].work # t.work
Distinct(s) == \A j, k \in 1..Len(s) : s[j].work = s[k].work => j = k
Among(u, s, t) ==
  \A k \in 1..Len(u) :
    u[k].work = t.work \/ \E j \in 1..Len(s) : u[k].work = s[j].work

LEMMA InsertedWorks ==
  ASSUME NEW s \in Seq(Task), NEW t \in Task, NEW i \in 1..(Len(s) + 1), NEW u,
         InsertedAt(s, i, t, u), Free(s, t), Distinct(s)
  PROVE  u \in Seq(Task) /\ Among(u, s, t) /\ Distinct(u)
<1>1. Len(s) \in Nat /\ u \in Seq(Task) /\ Len(u) = Len(s) + 1
  BY DEF InsertedAt
<1> DEFINE was(k) == IF k < i THEN k ELSE k - 1
<1>2. \A k \in 1..Len(u) :
        IF k = i THEN u[k] = t ELSE was(k) \in 1..Len(s) /\ u[k] = s[was(k)]
  BY <1>1 DEF InsertedAt
<1>3. \A j, k \in 1..Len(u) : j # i /\ k # i /\ was(j) = was(k) => j = k
  BY <1>1
<1> HIDE DEF was
<1>4. \A k \in 1..Len(u) :
        u[k].work = t.work \/ \E j \in 1..Len(s) : u[k].work = s[j].work
  BY <1>2
<1>5. \A j, k \in 1..Len(u) : u[j].work = u[k].work => j = k
  BY <1>2, <1>3 DEF Free, Distinct
<1> QED BY <1>1, <1>4, <1>5 DEF Among, Distinct

LEMMA EnqueuedIs ==
  ASSUME queue \in Seq(Task), NEW t \in Task
  PROVE  \E i \in 1..(Len(queue) + 1) : InsertedAt(queue, i, t, Enqueued(t))
<1> DEFINE S == {k \in DOMAIN queue : queue[k].priority >= t.priority}
<1>1. Len(queue) \in Nat /\ DOMAIN queue = 1..Len(queue)
  OBVIOUS
<1>2. IsFiniteSet(1..Len(queue)) /\ Cardinality(1..Len(queue)) = Len(queue)
  BY <1>1, FS_Interval
<1>3. S \in SUBSET (1..Len(queue))
  BY <1>1
<1>4. Cardinality(S) \in 0..Len(queue)
  BY <1>1, <1>2, <1>3, FS_Subset, FS_CardinalityType
<1>5. Cardinality(S) + 1 \in 1..(Len(queue) + 1) /\ Enqueued(t) = InsertAt(queue, Cardinality(S) + 1, t)
  BY <1>1, <1>4 DEF Enqueued
<1> DEFINE at == Cardinality(S) + 1
<1>6. at \in 1..(Len(queue) + 1) /\ Enqueued(t) = InsertAt(queue, at, t)
  BY <1>5
<1> HIDE DEF at
<1>7. InsertedAt(queue, at, t, InsertAt(queue, at, t))
  BY <1>6, InsertedType
<1> QED BY <1>6, <1>7

(* A turn of #settle of a work that is not in the queue, if it asks.       *)
LEMMA SettledQueue ==
  ASSUME SlotInv, NEW w \in Works, NEW c \in CallsOf(w), NEW n, SettleTurn(w, c, n),
         UNCHANGED <<release, aborted>>
  PROVE  /\ queue' \in Seq(Task) /\ Queueing'
         /\ taking' \in [Works -> {"none", "pending", "settled", "rejected"}]
<1>0. /\ queue \in Seq(Task) /\ Len(queue) \in Nat
      /\ \A k \in 1..Len(queue) : queue[k] \in Task
      /\ taking \in [Works -> {"none", "pending", "settled", "rejected"}]
  <2>1. queue \in Seq(Task)
    BY DEF SlotInv, TypeOK, Task
  <2>2. \A k \in 1..Len(queue) : queue[k] \in Task
    BY <2>1, ElementOfSeq
  <2> QED BY <2>1, <2>2 DEF SlotInv, TypeOK
<1>1. CASE UNCHANGED <<taking, queue>>
  BY <1>0, <1>1 DEF SlotInv, Queueing
<1>2. CASE aborted /\ taking' = [taking EXCEPT ![w] = "rejected"] /\ UNCHANGED queue
           /\ taking[w] = "none"
  BY <1>0, <1>2 DEF SlotInv, Queueing
<1>3. ASSUME ~aborted, ~release[w], taking[w] = "none", taking' = [taking EXCEPT ![w] = "pending"],
             queue' = Enqueued([work |-> w, priority |-> Priority(c)])
      PROVE  queue' \in Seq(Task) /\ Queueing'
             /\ taking' \in [Works -> {"none", "pending", "settled", "rejected"}]
  <2> DEFINE t == [work |-> w, priority |-> Priority(c)]
  <2>1. t \in Task /\ t.work = w
    BY DEF Task, Priority
  <2> HIDE DEF t
  <2>2. PICK i \in 1..(Len(queue) + 1) : InsertedAt(queue, i, t, Enqueued(t))
    BY <1>0, <2>1, EnqueuedIs
  <2>3. queue' = Enqueued(t) /\ InsertedAt(queue, i, t, queue')
    BY <1>3, <2>2 DEF t
  <2>4. \A k \in 1..Len(queue) : queue[k].work # t.work
    BY <1>0, <1>3, <2>1 DEF SlotInv, Queueing
  <2>5. queue' \in Seq(Task) /\ Among(queue', queue, t) /\ Distinct(queue')
    <3>1. Free(queue, t) /\ Distinct(queue)
      BY <2>4 DEF SlotInv, Queueing, Free, Distinct
    <3> QED BY <1>0, <2>1, <2>3, <3>1, InsertedWorks
  <2>6. \A k \in 1..Len(queue) : queue[k].work \in Works /\ taking[queue[k].work] = "pending"
    <3>1. \A k \in 1..Len(queue) : queue[k].work \in Works
      BY <1>0 DEF Task
    <3> QED BY <3>1 DEF SlotInv, Queueing
  <2>7. \A k \in 1..Len(queue') : taking'[queue'[k].work] = "pending"
    <3>1. taking'[w] = "pending" /\ \A v \in Works : v # w => taking'[v] = taking[v]
      BY <1>0, <1>3
    <3> QED BY <2>1, <2>5, <2>6, <3>1 DEF Among
  <2>8. taking' \in [Works -> {"none", "pending", "settled", "rejected"}]
    BY <1>0, <1>3
  <2>9. \A v \in Works : taking'[v] = IF v = w THEN "pending" ELSE taking[v]
    BY <1>0, <1>3
  <2>10. \A v \in Works : /\ taking'[v] = "pending" => ~release'[v]
                          /\ taking'[v] = "rejected" => aborted'
    BY <1>3, <2>9 DEF SlotInv, Queueing
  <2>11. ~aborted'
    BY <1>3
  <2> QED BY <2>5, <2>7, <2>8, <2>10, <2>11 DEF Queueing, Distinct
<1>4. taking[w] # "none" \/ taking[w] = "none"
  OBVIOUS
<1> QED BY <1>1, <1>2, <1>3, <1>4 DEF SettleTurn, Shares
-----------------------------------------------------------------------------
(* What is left of the invariant apart from the queue.                     *)

\* Who is in the queue, and whether a work is, stays.
SameQueue == UNCHANGED <<queue, taking, aborted>>

LEMMA QueueingKept ==
  ASSUME Queueing, TypeOK, SameQueue, \A w \in Works : release'[w] => release[w]
  PROVE  Queueing'
<1>1. \A w \in Works : /\ taking'[w] = "pending" => ~release'[w]
                       /\ taking'[w] = "rejected" => aborted'
  BY DEF Queueing, SameQueue
<1> QED BY <1>1 DEF Queueing, SameQueue

(* #letGo.                                                                 *)
LEMMA LetGoKeeps ==
  ASSUME TypeOK, OneEach, NEW w \in Works, LetGo(w)
  PROVE  /\ release' \in [Works -> BOOLEAN] /\ ~release'[w]
         /\ \A v \in Works \ {w} : release'[v] = release[v]
         /\ running' \in [Works -> 0..1] /\ ending' \in [Works -> Nat]
         /\ aborted' = aborted => OneEach'
<1>1. release' \in [Works -> BOOLEAN] /\ ~release'[w]
      /\ \A v \in Works \ {w} : release'[v] = release[v]
  BY DEF TypeOK, LetGo
<1>2. CASE release[w] /\ ~aborted
  <2>1. running[w] = 1
    BY <1>2 DEF OneEach
  <2>2. running' = [running EXCEPT ![w] = @ - 1] /\ ending' = [ending EXCEPT ![w] = @ + 1]
    BY <1>2 DEF LetGo
  <2>3. running' \in [Works -> 0..1] /\ ending' \in [Works -> Nat] /\ running'[w] = 0
        /\ \A v \in Works \ {w} : running'[v] = running[v]
    BY <2>1, <2>2 DEF TypeOK
  <2> QED BY <1>1, <1>2, <2>3 DEF OneEach
<1>3. CASE ~(release[w] /\ ~aborted)
  <2>1. UNCHANGED <<running, ending>>
    BY <1>3 DEF LetGo
  <2>2. aborted \/ running[w] = 0
    BY <1>3 DEF OneEach
  <2> QED BY <1>1, <1>3, <2>1, <2>2 DEF OneEach, TypeOK
<1> QED BY <1>2, <1>3

(* The calls of a work: what a step of one of them leaves of the waits.    *)
CallGoes(w, c, st) ==
  /\ caller' = [caller EXCEPT ![w][c] = st]

LEMMA CallType ==
  ASSUME TypeOK, NEW w \in Works, NEW c \in CallsOf(w), NEW st \in CallStates,
         CallGoes(w, c, st)
  PROVE  /\ DOMAIN caller' = Works
         /\ \A v \in Works : caller'[v] \in [CallsOf(v) -> CallStates]
         /\ \A v \in Works \ {w} : caller'[v] = caller[v]
         /\ \A d \in CallsOf(w) : caller'[w][d] = IF d = c THEN st ELSE caller[w][d]
<1>1. DOMAIN caller = Works /\ \A v \in Works : caller[v] \in [CallsOf(v) -> CallStates]
  BY DEF TypeOK, CallStates
<1>2. DOMAIN caller' = Works /\ \A v \in Works \ {w} : caller'[v] = caller[v]
  BY <1>1 DEF CallGoes
<1>3. caller'[w] = [caller[w] EXCEPT ![c] = st]
  BY <1>1 DEF CallGoes
<1>4. caller'[w] \in [CallsOf(w) -> CallStates]
      /\ \A d \in CallsOf(w) : caller'[w][d] = IF d = c THEN st ELSE caller[w][d]
  BY <1>1, <1>3
<1> QED BY <1>1, <1>2, <1>4

LEMMA OutFinite == \A w \in Works : IsFiniteSet(OutOf(w)) /\ IsFiniteSet(OutOf(w)')
<1> TAKE w \in Works
<1>1. IsFiniteSet(Waits[w]) /\ OutOf(w) \in SUBSET Waits[w] /\ OutOf(w)' \in SUBSET Waits[w]
  BY SlotAssumption DEF OutOf
<1> QED BY <1>1, FS_Subset

-----------------------------------------------------------------------------
\* A task that starts, the one step to a slot.
LEMMA StartKeeps == SlotInv /\ StartTask => SlotInv'
<1> SUFFICES ASSUME SlotInv, StartTask PROVE SlotInv'
  OBVIOUS
<1> DEFINE w == Head(queue).work
<1>1. /\ queue \in Seq(Task) /\ queue # <<>> /\ Len(queue) \in Nat /\ 1 \in 1..Len(queue)
      /\ Head(queue) = queue[1] /\ queue[1] \in Task
  <2>1. queue \in Seq(Task) /\ queue # <<>>
    BY DEF SlotInv, TypeOK, Task, StartTask, Startable
  <2>2. Len(queue) \in Nat \ {0}
    BY <2>1, EmptySeq
  <2>3. 1 \in 1..Len(queue) /\ Head(queue) = queue[1]
    BY <2>2
  <2> QED BY <2>1, <2>2, <2>3, ElementOfSeq
<1>2. w \in Works /\ taking[w] = "pending" /\ ~release[w] /\ ~aborted
  BY <1>1 DEF Task, SlotInv, Queueing
<1>3. /\ Tail(queue) \in Seq(Task) /\ Len(Tail(queue)) = Len(queue) - 1
      /\ \A k \in 1..Len(Tail(queue)) : Tail(queue)[k] = queue[k + 1]
  BY <1>1, HeadTailProperties
<1>4. queue' = Tail(queue) /\ UNCHANGED <<body, caller, away, done, aborted, slots>>
      /\ taking' = [taking EXCEPT ![w] = "settled"]
  BY DEF StartTask
<1>5. IF Unwanted(w)
        THEN ending' = [ending EXCEPT ![w] = @ + 1] /\ UNCHANGED <<release, running>>
        ELSE /\ release' = [release EXCEPT ![w] = TRUE]
             /\ running' = [running EXCEPT ![w] = @ + 1] /\ UNCHANGED ending
  BY DEF StartTask
<1> HIDE DEF w
<1>6. /\ release' \in [Works -> BOOLEAN] /\ (Unwanted(w) \/ release'[w])
      /\ \A v \in Works : (v # w \/ Unwanted(w) => release'[v] = release[v])
  BY <1>2, <1>5 DEF SlotInv, TypeOK
<1>7. running[w] = 0 /\ \A v \in Works : running[v] = IF release[v] THEN 1 ELSE 0
  BY <1>2 DEF SlotInv, OneEach
<1>8. running' \in [Works -> 0..1] /\ ending' \in [Works -> Nat]
      /\ (Unwanted(w) => running'[w] = 0) /\ (~Unwanted(w) => running'[w] = 1)
      /\ \A v \in Works : v # w => running'[v] = running[v]
  <2>1. running \in [Works -> 0..1] /\ ending \in [Works -> Nat]
    BY DEF SlotInv, TypeOK
  <2>2. CASE Unwanted(w)
    BY <1>2, <1>5, <1>7, <2>1, <2>2
  <2>3. CASE ~Unwanted(w)
    BY <1>2, <1>5, <1>7, <2>1, <2>3
  <2> QED BY <2>2, <2>3
<1>9. taking' \in [Works -> {"none", "pending", "settled", "rejected"}]
      /\ taking'[w] = "settled" /\ \A v \in Works : v # w => taking'[v] = taking[v]
  BY <1>2, <1>4 DEF SlotInv, TypeOK
<1>10. TypeOK'
  <2>1. queue' \in Seq([work : Works, priority : 1..2])
    BY <1>3, <1>4 DEF Task
  <2> QED BY <1>4, <1>6, <1>8, <1>9, <2>1 DEF SlotInv, TypeOK, CallsOf
<1>11. OneEach'
  BY <1>2, <1>6, <1>7, <1>8 DEF OneEach
<1>12. Queueing'
  <2>1. \A k \in 1..Len(queue') : /\ k + 1 \in 1..Len(queue) /\ queue'[k] = queue[k + 1]
                                  /\ queue[k + 1].work # w /\ queue[k + 1].work \in Works
    <3>1. \A k \in 1..Len(queue') : k + 1 \in 1..Len(queue) /\ queue'[k] = queue[k + 1]
                                   /\ k + 1 # 1
      BY <1>1, <1>3, <1>4
    <3>2. \A k \in 1..Len(queue) : k # 1 => queue[k].work # w
      BY <1>1 DEF SlotInv, Queueing, w
    <3>3. \A k \in 1..Len(queue) : queue[k].work \in Works
      <4>1. \A k \in 1..Len(queue) : queue[k] \in Task
        BY <1>1, ElementOfSeq
      <4> QED BY <4>1 DEF Task
    <3> TAKE k \in 1..Len(queue')
    <3>4. k + 1 \in 1..Len(queue) /\ queue'[k] = queue[k + 1] /\ k + 1 # 1
      BY <3>1
    <3> QED BY <3>2, <3>3, <3>4
  <2>2. \A k \in 1..Len(queue') : taking'[queue'[k].work] = "pending"
    BY <1>9, <2>1 DEF SlotInv, Queueing
  <2>3. \A j, k \in 1..Len(queue') : queue'[j].work = queue'[k].work => j = k
    <3>1. \A j, k \in 1..Len(queue') : queue'[j].work = queue'[k].work => j + 1 = k + 1
      BY <2>1 DEF SlotInv, Queueing
    <3>2. Len(queue') \in Nat
      BY <1>1, <1>3, <1>4
    <3> QED BY <3>1, <3>2
  <2>4. \A v \in Works : taking'[v] = "pending" => ~release'[v]
    BY <1>6, <1>9 DEF SlotInv, Queueing
  <2>5. \A v \in Works : taking'[v] = "rejected" => aborted'
    BY <1>2, <1>4, <1>9 DEF SlotInv, Queueing
  <2> QED BY <1>2, <1>4, <2>2, <2>3, <2>4, <2>5 DEF Queueing
<1>13. Counted'
  BY <1>4 DEF SlotInv, Counted, OutOf
<1>14. Backed'
  <2>1. \A v \in Works : release[v] => release'[v]
    BY <1>2, <1>6
  <2>2. \A v \in Works : Outstanding(v)' = Outstanding(v)
    BY <1>4 DEF Outstanding
  <2> QED BY <1>2, <1>4, <2>1, <2>2 DEF SlotInv, Backed
<1> QED BY <1>10, <1>11, <1>12, <1>13, <1>14 DEF SlotInv

-----------------------------------------------------------------------------
\* A step that leaves the queue and the slots as they were, and moves calls of
\* one work but its waits' going out and coming back.
LEMMA TakingKeeps ==
  ASSUME SlotInv, NEW w \in Works, TakingCleared(w) PROVE SlotInv'
<1>1. /\ taking[w] \in {"settled", "rejected"} /\ taking' = [taking EXCEPT ![w] = "none"]
      /\ UNCHANGED <<body, away, release, done, queue, running, ending, aborted, slots>>
      /\ caller' = [caller EXCEPT ![w] = [c \in CallsOf(w) |->
           IF caller[w][c] # "waiting" THEN caller[w][c]
           ELSE IF taking[w] = "settled" THEN "resumed" ELSE "failed"]]
  BY DEF TakingCleared
<1>2. taking' \in [Works -> {"none", "pending", "settled", "rejected"}]
      /\ \A v \in Works : taking'[v] = IF v = w THEN "none" ELSE taking[v]
  BY <1>1 DEF SlotInv, TypeOK
<1>3. /\ DOMAIN caller = Works
      /\ \A v \in Works : caller[v] \in [CallsOf(v) -> CallStates]
  BY DEF SlotInv, TypeOK, CallStates
<1>4. /\ DOMAIN caller' = Works
      /\ \A v \in Works \ {w} : caller'[v] = caller[v]
      /\ \A c \in CallsOf(w) : caller'[w][c] =
           IF caller[w][c] # "waiting" THEN caller[w][c]
           ELSE IF taking[w] = "settled" THEN "resumed" ELSE "failed"
      /\ caller'[w] \in [CallsOf(w) -> CallStates]
  BY <1>1, <1>3 DEF CallStates
<1>5. TypeOK'
  <2>1. \A v \in Works : caller'[v] \in [CallsOf(v) ->
          {"idle", "out", "waiting", "resumed", "returned", "failed"}]
    BY <1>3, <1>4 DEF CallStates
  <2>2. \A v \in Works : CallsOf(v)' = CallsOf(v)
    BY DEF CallsOf
  <2> QED BY <1>1, <1>2, <1>4, <2>1, <2>2 DEF SlotInv, TypeOK
<1>6. Queueing'
  <2>1. \A k \in 1..Len(queue) : queue[k].work # w
    BY <1>1 DEF SlotInv, Queueing
  <2>2. \A k \in 1..Len(queue) : queue[k].work \in Works
    <3>1. queue \in Seq(Task)
      BY DEF SlotInv, TypeOK, Task
    <3>2. \A k \in 1..Len(queue) : queue[k] \in Task
      BY <3>1, ElementOfSeq
    <3> QED BY <3>2 DEF Task
  <2> QED BY <1>1, <1>2, <2>1, <2>2 DEF SlotInv, Queueing
<1>7. OneEach'
  BY <1>1 DEF SlotInv, OneEach
<1>8. \A v \in Works : /\ OutOf(v)' = OutOf(v)
                       /\ ~aborted => Outstanding(v)' = Outstanding(v)
  <2>1. \A i \in Waits[w] : i \in CallsOf(w)
    BY DEF CallsOf
  <2>2. ~aborted => taking[w] = "settled"
    BY <1>1 DEF SlotInv, Queueing
  <2>3. OutOf(w)' = OutOf(w) /\ (~aborted => Outstanding(w)' = Outstanding(w))
    BY <1>4, <2>1, <2>2 DEF OutOf, Outstanding
  <2> QED BY <1>4, <2>3 DEF OutOf, Outstanding
<1>9. Counted'
  BY <1>1, <1>8 DEF SlotInv, Counted
<1>10. Backed'
  <2>1. \A v \in Works : caller'[v]["hold"] = "returned" => caller[v]["hold"] = "returned"
    BY <1>4 DEF CallsOf
  <2> QED BY <1>1, <1>8, <2>1 DEF SlotInv, Backed
<1> QED BY <1>5, <1>6, <1>7, <1>9, <1>10 DEF SlotInv

\* A turn of #settle of a call that was not out, or that has just come back.
LEMMA TurnKeeps ==
  ASSUME SlotInv, NEW w \in Works, NEW c \in CallsOf(w), SettleTurn(w, c, away'[w]),
         UNCHANGED <<body, release, done, running, ending, aborted, slots>>,
         away' \in [Works -> Nat], \A v \in Works \ {w} : away'[v] = away[v],
         away'[w] = Cardinality(OutOf(w) \ {c}),
         body[w] = "holding" => away'[w] = 0
  PROVE  SlotInv'
<1> PICK st \in {"waiting", "returned"} : CallGoes(w, c, st)
      /\ (st = "returned" => away'[w] # 0 \/ release[w] \/ done[w])
  <2>1. CASE away'[w] = 0 /\ ~release[w] /\ ~done[w]
    BY <2>1 DEF SettleTurn, CallGoes
  <2>2. CASE ~(away'[w] = 0 /\ ~release[w] /\ ~done[w])
    BY <2>2 DEF SettleTurn, CallGoes
  <2> QED BY <2>1, <2>2
<1>1. /\ DOMAIN caller' = Works
      /\ \A v \in Works : caller'[v] \in [CallsOf(v) -> CallStates]
      /\ \A v \in Works \ {w} : caller'[v] = caller[v]
      /\ \A d \in CallsOf(w) : caller'[w][d] = IF d = c THEN st ELSE caller[w][d]
  BY CallType DEF SlotInv, CallStates
<1>2. /\ queue' \in Seq(Task) /\ Queueing'
      /\ taking' \in [Works -> {"none", "pending", "settled", "rejected"}]
  BY SettledQueue
<1>3. TypeOK'
  <2>1. \A v \in Works : CallsOf(v)' = CallsOf(v)
    BY DEF CallsOf
  <2> QED BY <1>1, <1>2, <2>1 DEF SlotInv, TypeOK, CallStates, Task
<1>4. OneEach'
  BY DEF SlotInv, OneEach
<1>5. OutOf(w)' = OutOf(w) \ {c} /\ \A v \in Works \ {w} : OutOf(v)' = OutOf(v)
  BY <1>1 DEF OutOf, CallsOf
<1>6. Counted'
  <2>1. \A v \in Works : away'[v] = Cardinality(OutOf(v)')
    BY <1>5 DEF SlotInv, Counted
  <2> QED BY <2>1 DEF SlotInv, Counted
<1>7. Backed'
  <2> SUFFICES ASSUME ~aborted', NEW v \in Works
               PROVE  /\ body[v] = "holding" /\ caller'[v]["hold"] = "returned" => release[v]
                      /\ body[v] \in {"parsing", "writing"} /\ Outstanding(v)' = {} => release[v]
    BY DEF Backed
  <2>1. ~aborted
    OBVIOUS
  <2>2. CASE v # w
    <3>1. caller'[v] = caller[v] /\ Outstanding(v)' = Outstanding(v)
      BY <1>1, <2>2 DEF Outstanding
    <3> QED BY <2>1, <3>1 DEF SlotInv, Backed
  <2>3. CASE v = w
    <3>1. ASSUME body[w] = "holding", caller'[w]["hold"] = "returned"
          PROVE  release[w]
      <4>1. ~done[w] /\ away'[w] = 0
        BY <3>1 DEF SlotInv, Counted
      <4>2. CASE c = "hold"
        BY <1>1, <3>1, <4>1, <4>2
      <4>3. CASE c # "hold"
        <5>1. caller[w]["hold"] = "returned"
          BY <1>1, <3>1, <4>3 DEF CallsOf
        <5> QED BY <2>1, <3>1, <5>1 DEF SlotInv, Backed
      <4> QED BY <4>2, <4>3
    <3>2. ASSUME body[w] \in {"parsing", "writing"}, Outstanding(w)' = {}
          PROVE  release[w]
      <4>1. ~done[w]
        BY <3>2 DEF SlotInv, Counted
      <4>2. OutOf(w)' = {}
        BY <3>2 DEF OutOf, Outstanding
      <4>3. away'[w] = 0
        BY <1>5, <4>2, FS_EmptySet
      <4>4. CASE c \in Waits[w]
        <5>1. caller'[w][c] # "waiting"
          BY <3>2, <4>4 DEF Outstanding
        <5> QED BY <1>1, <4>1, <4>3, <5>1
      <4>5. CASE c \notin Waits[w]
        <5>1. Outstanding(w) = {}
          BY <1>1, <3>2, <4>5 DEF Outstanding, CallsOf
        <5> QED BY <2>1, <3>2, <5>1 DEF SlotInv, Backed
      <4> QED BY <4>4, <4>5
    <3> QED BY <2>3, <3>1, <3>2
  <2> QED BY <2>2, <2>3
<1> QED BY <1>2, <1>3, <1>4, <1>6, <1>7 DEF SlotInv

-----------------------------------------------------------------------------
LEMMA SettleKeeps ==
  ASSUME SlotInv, NEW w \in Works, NEW c \in CallsOf(w), caller[w][c] # "out",
         SettleTurn(w, c, away[w]),
         UNCHANGED <<body, away, release, done, running, ending, aborted, slots>>
  PROVE  SlotInv'
<1>1. away' \in [Works -> Nat] /\ \A v \in Works : away'[v] = away[v]
  BY DEF SlotInv, TypeOK
<1>2. OutOf(w) \ {c} = OutOf(w)
  BY DEF OutOf
<1>3. away'[w] = Cardinality(OutOf(w) \ {c}) /\ (body[w] = "holding" => away'[w] = 0)
  BY <1>1, <1>2 DEF SlotInv, Counted
<1>4. SettleTurn(w, c, away'[w])
  BY <1>1
<1> QED BY <1>1, <1>3, <1>4, TurnKeeps

\* A wait that comes back, whether or not it is the last.
LEMMA WaitEndKeeps ==
  ASSUME SlotInv, NEW w \in Works, NEW i \in Waits[w], WaitEnds(w, i)
  PROVE  SlotInv'
<1>1. /\ caller[w][i] = "out" /\ i \in CallsOf(w) /\ i \in OutOf(w)
      /\ away' = [away EXCEPT ![w] = @ - 1]
      /\ UNCHANGED <<body, release, done, running, ending, aborted, slots>>
  BY DEF WaitEnds, CallsOf, OutOf
<1>2. /\ Cardinality(OutOf(w)) \in Nat \ {0}
      /\ Cardinality(OutOf(w) \ {i}) = Cardinality(OutOf(w)) - 1
  <2>1. Cardinality(OutOf(w)) # 0 /\ Cardinality(OutOf(w)) \in Nat
    BY <1>1, OutFinite, FS_EmptySet, FS_CardinalityType
  <2> QED BY <1>1, <2>1, OutFinite, FS_RemoveElement
<1>3. away[w] = Cardinality(OutOf(w)) /\ away \in [Works -> Nat]
  BY DEF SlotInv, Counted, TypeOK
<1>4. /\ away' \in [Works -> Nat] /\ \A v \in Works \ {w} : away'[v] = away[v]
      /\ away'[w] = away[w] - 1
  BY <1>1, <1>2, <1>3
<1>5. body[w] # "holding"
  BY <1>2, <1>3 DEF SlotInv, Counted
<1>6. SettleTurn(w, i, away'[w])
  <2>1. CASE away[w] = 1
    BY <1>4, <2>1 DEF WaitEnds
  <2>2. CASE away[w] # 1
    BY <1>2, <1>3, <1>4, <2>2 DEF WaitEnds, SettleTurn
  <2> QED BY <2>1, <2>2
<1>7. away'[w] = Cardinality(OutOf(w) \ {i})
  BY <1>2, <1>3, <1>4
<1> QED BY <1>1, <1>4, <1>5, <1>6, <1>7, TurnKeeps

\* A wait that goes out, with the slot if it is the first.
LEMMA WaitBeginKeeps ==
  ASSUME SlotInv, NEW w \in Works, NEW i \in Waits[w], BeginWait(w, i)
  PROVE  SlotInv'
<1>1. /\ caller[w][i] = "idle" /\ i \in CallsOf(w) /\ i # "hold" /\ body[w] # "holding"
      /\ CallGoes(w, i, "out") /\ away' = [away EXCEPT ![w] = @ + 1]
      /\ UNCHANGED <<body, taking, done, queue, aborted, slots>>
      /\ IF away[w] = 0 THEN LetGo(w) ELSE UNCHANGED <<release, running, ending>>
  BY SlotAssumption DEF BeginWait, CallsOf, CallGoes
<1>2. /\ DOMAIN caller' = Works
      /\ \A v \in Works : caller'[v] \in [CallsOf(v) -> CallStates]
      /\ \A v \in Works \ {w} : caller'[v] = caller[v]
      /\ \A d \in CallsOf(w) : caller'[w][d] = IF d = i THEN "out" ELSE caller[w][d]
  BY <1>1, CallType DEF SlotInv, CallStates
<1>3. /\ release' \in [Works -> BOOLEAN]
      /\ \A v \in Works \ {w} : release'[v] = release[v]
      /\ release'[w] => release[w]
      /\ running' \in [Works -> 0..1] /\ ending' \in [Works -> Nat]
      /\ OneEach'
  <2>1. CASE away[w] = 0
    BY <1>1, <2>1, LetGoKeeps DEF SlotInv
  <2>2. CASE away[w] # 0
    BY <1>1, <2>2 DEF SlotInv, TypeOK, OneEach
  <2> QED BY <2>1, <2>2
<1>4. away \in [Works -> Nat] /\ away' \in [Works -> Nat] /\ away'[w] = away[w] + 1
      /\ \A v \in Works \ {w} : away'[v] = away[v]
  BY <1>1 DEF SlotInv, TypeOK
<1>5. TypeOK'
  <2>1. \A v \in Works : CallsOf(v)' = CallsOf(v)
    BY DEF CallsOf
  <2> QED BY <1>1, <1>2, <1>3, <1>4, <2>1 DEF SlotInv, TypeOK, CallStates
<1>6. Queueing'
  <2>1. \A v \in Works : release'[v] => release[v]
    BY <1>3
  <2> QED BY <1>1, <2>1, QueueingKept DEF SlotInv, SameQueue
<1>7. OutOf(w)' = OutOf(w) \cup {i} /\ i \notin OutOf(w)
      /\ \A v \in Works \ {w} : OutOf(v)' = OutOf(v)
  BY <1>1, <1>2 DEF OutOf, CallsOf
<1>8. Counted'
  <2>1. Cardinality(OutOf(w) \cup {i}) = Cardinality(OutOf(w)) + 1
    BY <1>7, OutFinite, FS_AddElement
  <2>2. away'[w] = Cardinality(OutOf(w)')
    BY <1>4, <1>7, <2>1 DEF SlotInv, Counted
  <2>3. \A v \in Works : away'[v] = Cardinality(OutOf(v)')
    BY <1>4, <1>7, <2>2 DEF SlotInv, Counted
  <2>4. \A v \in Works : body[v] = "holding" => away'[v] = 0
    BY <1>1, <1>4 DEF SlotInv, Counted
  <2> QED BY <1>1, <2>3, <2>4 DEF SlotInv, Counted
<1>9. Backed'
  <2>1. i \in Outstanding(w)'
    BY <1>2, <1>1 DEF Outstanding
  <2>2. \A v \in Works \ {w} : caller'[v] = caller[v] /\ Outstanding(v)' = Outstanding(v)
    BY <1>2 DEF Outstanding
  <2> QED BY <1>1, <1>3, <2>1, <2>2 DEF SlotInv, Backed
<1> QED BY <1>3, <1>5, <1>6, <1>8, <1>9 DEF SlotInv

-----------------------------------------------------------------------------
\* The steps of a work itself, and a cancel.
LEMMA EndKeeps ==
  ASSUME SlotInv, NEW w \in Works, End(w)
  PROVE  SlotInv'
<1>1. /\ body[w] \in {"parsing", "writing"} /\ body' = [body EXCEPT ![w] = "over"]
      /\ done' = [done EXCEPT ![w] = TRUE] /\ LetGo(w)
      /\ UNCHANGED <<caller, away, taking, queue, aborted, slots>>
  BY DEF End
<1>2. /\ release' \in [Works -> BOOLEAN]
      /\ \A v \in Works : (v # w => release'[v] = release[v]) /\ (release'[v] => release[v])
      /\ running' \in [Works -> 0..1] /\ ending' \in [Works -> Nat] /\ OneEach'
  BY <1>1, LetGoKeeps DEF SlotInv
<1>3. /\ body' \in [Works -> {"holding", "parsing", "writing", "over", "failed"}]
      /\ body'[w] = "over" /\ \A v \in Works : v # w => body'[v] = body[v]
  BY <1>1 DEF SlotInv, TypeOK
<1>4. /\ done' \in [Works -> BOOLEAN] /\ \A v \in Works : v # w => done'[v] = done[v]
  BY <1>1 DEF SlotInv, TypeOK
<1>5. TypeOK'
  BY <1>1, <1>2, <1>3, <1>4 DEF SlotInv, TypeOK, CallsOf
<1>6. Queueing'
  BY <1>1, <1>2, QueueingKept DEF SlotInv, SameQueue
<1>7. \A v \in Works : OutOf(v)' = OutOf(v) /\ Outstanding(v)' = Outstanding(v)
  BY <1>1 DEF OutOf, Outstanding
<1>8. Counted'
  BY <1>1, <1>3, <1>4, <1>7 DEF SlotInv, Counted
<1>9. Backed'
  BY <1>1, <1>2, <1>3, <1>7 DEF SlotInv, Backed
<1> QED BY <1>2, <1>5, <1>6, <1>8, <1>9 DEF SlotInv

LEMMA BodyKeeps ==
  ASSUME SlotInv, NEW w \in Works, Begin(w) \/ Write(w)
  PROVE  SlotInv'
<1>1. /\ UNCHANGED <<caller, away, release, taking, done, queue, running, ending, aborted, slots>>
      /\ \/ /\ body[w] = "holding" /\ caller[w]["hold"] = "returned"
            /\ body' = [body EXCEPT ![w] = "parsing"]
         \/ body[w] = "holding" /\ body' = [body EXCEPT ![w] = "failed"]
         \/ body[w] = "parsing" /\ body' = [body EXCEPT ![w] = "writing"]
  BY DEF Begin, Write
<1>2. body' \in [Works -> {"holding", "parsing", "writing", "over", "failed"}]
      /\ \A v \in Works : v # w => body'[v] = body[v]
  BY <1>1 DEF SlotInv, TypeOK
<1>3. \/ body[w] = "holding" /\ caller[w]["hold"] = "returned" /\ body'[w] = "parsing"
      \/ body[w] = "holding" /\ body'[w] = "failed"
      \/ body[w] = "parsing" /\ body'[w] = "writing"
  BY <1>1 DEF SlotInv, TypeOK
<1>4. TypeOK' /\ OneEach'
  BY <1>1, <1>2 DEF SlotInv, TypeOK, OneEach, CallsOf
<1>5. Queueing'
  BY <1>1, QueueingKept DEF SlotInv, SameQueue
<1>6. \A v \in Works : OutOf(v)' = OutOf(v) /\ Outstanding(v)' = Outstanding(v)
  BY <1>1 DEF OutOf, Outstanding
<1>7. Counted'
  BY <1>1, <1>2, <1>3, <1>6 DEF SlotInv, Counted
<1>8. Backed'
  BY <1>1, <1>2, <1>3, <1>6 DEF SlotInv, Backed
<1> QED BY <1>4, <1>5, <1>7, <1>8 DEF SlotInv

LEMMA FreedKeeps ==
  ASSUME SlotInv, NEW w \in Works, SlotFreed(w)
  PROVE  SlotInv'
<1>1. /\ ending[w] > 0 /\ ending' = [ending EXCEPT ![w] = @ - 1]
      /\ UNCHANGED <<body, caller, away, release, taking, done, queue, running, aborted, slots>>
  BY DEF SlotFreed
<1>2. ending' \in [Works -> Nat]
  BY <1>1 DEF SlotInv, TypeOK
<1>3. TypeOK' /\ OneEach'
  BY <1>1, <1>2 DEF SlotInv, TypeOK, OneEach, CallsOf
<1>4. Queueing'
  BY <1>1, QueueingKept DEF SlotInv, SameQueue
<1>5. \A v \in Works : OutOf(v)' = OutOf(v) /\ Outstanding(v)' = Outstanding(v)
  BY <1>1 DEF OutOf, Outstanding
<1>6. Counted' /\ Backed'
  BY <1>1, <1>5 DEF SlotInv, Counted, Backed
<1> QED BY <1>3, <1>4, <1>6 DEF SlotInv

LEMMA AbortKeeps == SlotInv /\ Abort => SlotInv'
<1> SUFFICES ASSUME SlotInv, Abort PROVE SlotInv'
  OBVIOUS
<1>1. /\ aborted' /\ queue' = <<>> /\ UNCHANGED <<body, caller, away, release, done, slots>>
      /\ aborted' = TRUE
      /\ taking' = [w \in Works |-> IF taking[w] = "pending" THEN "rejected" ELSE taking[w]]
      /\ running' = [w \in Works |-> 0] /\ ending' = [w \in Works |-> 0]
  BY DEF Abort
<1>2. /\ taking' \in [Works -> {"none", "pending", "settled", "rejected"}]
      /\ \A w \in Works : taking'[w] # "pending"
      /\ running' \in [Works -> 0..1] /\ ending' \in [Works -> Nat]
  BY <1>1 DEF SlotInv, TypeOK
<1>3. queue' \in Seq(Task) /\ Len(queue') = 0
  BY <1>1, EmptySeq
<1>4. TypeOK'
  BY <1>1, <1>2, <1>3 DEF SlotInv, TypeOK, CallsOf, Task
<1>5. Queueing' /\ OneEach' /\ Backed'
  BY <1>1, <1>2, <1>3 DEF Queueing, OneEach, Backed
<1>6. \A v \in Works : OutOf(v)' = OutOf(v)
  BY <1>1 DEF OutOf
<1>7. Counted'
  BY <1>1, <1>6 DEF SlotInv, Counted
<1> QED BY <1>4, <1>5, <1>7 DEF SlotInv

LEMMA StutterKeeps == SlotInv /\ UNCHANGED vars => SlotInv'
<1> SUFFICES ASSUME SlotInv, UNCHANGED vars PROVE SlotInv'
  OBVIOUS
<1>1. \A v \in Works : OutOf(v)' = OutOf(v) /\ Outstanding(v)' = Outstanding(v)
  BY DEF vars, OutOf, Outstanding
<1>2. TypeOK' /\ OneEach'
  BY DEF vars, SlotInv, TypeOK, OneEach, CallsOf
<1>3. Queueing'
  BY QueueingKept DEF vars, SlotInv, SameQueue
<1>4. Counted' /\ Backed'
  BY <1>1 DEF vars, SlotInv, Counted, Backed
<1> QED BY <1>2, <1>3, <1>4 DEF SlotInv

LEMMA NextKeeps == SlotInv /\ [Next]_vars => SlotInv'
<1> SUFFICES ASSUME SlotInv, [Next]_vars PROVE SlotInv'
  OBVIOUS
<1>1. CASE StartTask
  BY <1>1, StartKeeps
<1>2. CASE Abort
  BY <1>2, AbortKeeps
<1>3. ASSUME NEW w \in Works, SlotFreed(w) PROVE SlotInv'
  BY <1>3, FreedKeeps
<1>4. ASSUME NEW w \in Works, TakingCleared(w) PROVE SlotInv'
  BY <1>4, TakingKeeps
<1>5. ASSUME NEW w \in Works, Hold(w) PROVE SlotInv'
  <2>1. "hold" \in CallsOf(w)
    BY DEF CallsOf
  <2> QED BY <1>5, <2>1, SettleKeeps DEF Hold
<1>6. ASSUME NEW w \in Works, Begin(w) \/ Write(w) PROVE SlotInv'
  BY <1>6, BodyKeeps
<1>7. ASSUME NEW w \in Works, End(w) PROVE SlotInv'
  BY <1>7, EndKeeps
<1>8. ASSUME NEW w \in Works, NEW c \in CallsOf(w), SettleAgain(w, c) PROVE SlotInv'
  BY <1>8, SettleKeeps DEF SettleAgain
<1>9. ASSUME NEW w \in Works, NEW i \in Waits[w], BeginWait(w, i) PROVE SlotInv'
  BY <1>9, WaitBeginKeeps
<1>10. ASSUME NEW w \in Works, NEW i \in Waits[w], WaitEnds(w, i) PROVE SlotInv'
  BY <1>10, WaitEndKeeps
<1>11. CASE UNCHANGED vars
  BY <1>11, StutterKeeps
<1> QED BY <1>1, <1>2, <1>3, <1>4, <1>5, <1>6, <1>7, <1>8, <1>9, <1>10, <1>11 DEF Next

LEMMA SlotInvariant == Spec => []SlotInv
BY InitInv, NextKeeps, PTL DEF Spec

\* LocalSlot keeps its types: a work has at most one task of its own running on
\* p-queue (LocalSlot's #take and #letGo).
THEOREM SlotTyped == Spec => []TypeOK
<1>1. SlotInv => TypeOK
  BY DEF SlotInv
<1> QED BY <1>1, SlotInvariant, PTL

\* Slots fit: p-queue runs as many tasks of a work as its #release would end, and
\* a work with no wait behind it writes on a slot, however its waits overlap the
\* slot that comes for it (LocalSlot's away and #settle).
THEOREM SlotsAlwaysFit == Spec => []SlotsFit
<1>1. SlotInv => SlotsFit
  BY DEF SlotInv, OneEach, Backed, SlotsFit
<1> QED BY <1>1, SlotInvariant, PTL

-----------------------------------------------------------------------------
(* The pool.                                                               *)
Holders == {w \in Works : release[w]}

\* A slot is free for a task that may start: each work that holds one has a task
\* of its own on the books.
LEMMA HoldersFit ==
  ASSUME SlotInv, ~aborted, Taken < slots
  PROVE  Cardinality(Holders) < slots
<1> DEFINE Of(w) == {w} \X (1 .. (running[w] + ending[w]))
           All == {Of(w) : w \in Works}
           f == [w \in Holders |-> <<w, 1>>]
<1>1. \A w \in Works : running[w] + ending[w] \in Nat /\ (release[w] => running[w] = 1)
  BY DEF SlotInv, TypeOK, OneEach
<1>2. \A w \in Works : IsFiniteSet(Of(w))
  <2> TAKE w \in Works
  <2>1. IsFiniteSet({w})
    BY FS_Singleton
  <2>2. 1 \in Int /\ running[w] + ending[w] \in Int
    BY <1>1
  <2>3. IsFiniteSet(1 .. (running[w] + ending[w]))
    BY <2>2, FS_Interval
  <2> QED BY <2>1, <2>3, FS_Product
<1>3. IsFiniteSet(All)
  <2> DEFINE g == [w \in Works |-> Of(w)]
  <2>1. g \in Surjection(Works, All)
    <3> HIDE DEF Of
    <3> QED BY DEF Surjection
  <2> HIDE DEF g, All
  <2> QED BY <2>1, SlotAssumption, FS_Surjection
<1>4. IsFiniteSet(Tasks)
  <2>1. \A T \in All : IsFiniteSet(T)
    <3> HIDE DEF Of
    <3> QED BY <1>2
  <2>2. Tasks = UNION All
    BY DEF Tasks
  <2> HIDE DEF All
  <2> QED BY <1>3, <2>1, <2>2, FS_UNION
<1>5. f \in Injection(Holders, Tasks)
  <2>1. \A w \in Holders : <<w, 1>> \in Of(w) /\ w \in Works
    <3> TAKE w \in Holders
    <3>1. w \in Works /\ running[w] = 1 /\ ending[w] \in Nat
      BY DEF Holders, SlotInv, TypeOK, OneEach
    <3>2. 1 \in 1 .. (running[w] + ending[w])
      BY <3>1
    <3> QED BY <3>1, <3>2
  <2>2. \A w \in Holders : <<w, 1>> \in Tasks
    BY <2>1 DEF Tasks
  <2>3. \A v, w \in Holders : <<v, 1>> = <<w, 1>> => v = w
    OBVIOUS
  <2>4. f \in [Holders -> Tasks]
    BY <2>2
  <2>5. \A v, w \in Holders : f[v] = f[w] => v = w
    BY <2>3
  <2> HIDE DEF f
  <2> QED BY <2>4, <2>5 DEF Injection, IsInjective
<1>6. IsFiniteSet(Holders) /\ Cardinality(Holders) <= Cardinality(Tasks)
  BY <1>4, <1>5, FS_Injection
<1>7. Cardinality(Holders) \in Nat /\ Cardinality(Tasks) \in Nat
  BY <1>4, <1>6, FS_CardinalityType
<1> QED BY <1>6, <1>7 DEF Taken, SlotInv, TypeOK

LEMMA PoolInit == Init => Pool!Init
BY DEF Init, Pool!Init

\* The pool's variables.
Waiting == {w \in Works : away[w] > 0}
Finished == {w \in Works : done[w]}
Seen == <<Holders, Waiting, Finished, slots>>

LEMMA StartMaps ==
  ASSUME SlotInv, StartTask
  PROVE  [Pool!Next]_Seen
<1>1. queue # <<>> /\ Taken < slots
  BY DEF StartTask, Startable
<1>2. PICK w \in Works : w = Head(queue).work /\ taking[w] = "pending" /\ ~aborted
  <2>1. queue \in Seq(Task)
    BY DEF SlotInv, TypeOK, Task
  <2>2. Len(queue) \in Nat \ {0}
    BY <1>1, <2>1, EmptySeq
  <2>3. 1 \in 1..Len(queue) /\ Head(queue) = queue[1]
    BY <1>1, <2>1, <2>2
  <2>4. queue[1] \in Task
    BY <2>1, <2>3, ElementOfSeq
  <2> QED BY <1>1, <2>3, <2>4 DEF Task, SlotInv, Queueing
<1>3. UNCHANGED <<away, done, slots>>
  BY DEF StartTask
<1>4. CASE Unwanted(w)
  <2>1. UNCHANGED release
    BY <1>2, <1>4 DEF StartTask
  <2> QED BY <1>3, <2>1 DEF Seen, Holders, Waiting, Finished
<1>5. CASE ~Unwanted(w)
  <2>1. release' = [release EXCEPT ![w] = TRUE]
    BY <1>2, <1>5 DEF StartTask
  <2>2. w \notin Holders /\ w \notin Waiting /\ w \notin Finished
    BY <1>2, <1>5 DEF SlotInv, Queueing, Unwanted, Holders, Waiting, Finished
  <2>3. Holders' = Holders \cup {w}
    BY <1>2, <2>1 DEF SlotInv, TypeOK, Holders
  <2>4. UNCHANGED <<Waiting, Finished, slots>>
    BY <1>3 DEF Waiting, Finished
  <2>5. Cardinality(Holders) < slots
    BY <1>1, <1>2, HoldersFit
  <2>6. Pool!Acquire(w)
    <3>1. Pool!Cardinality(Holders) = Cardinality(Holders)
      BY DEF Pool!Cardinality, Cardinality
    <3> QED BY <2>2, <2>3, <2>4, <2>5, <3>1
            DEF Pool!Acquire, Holders, Waiting, Finished
  <2> QED BY <1>2, <2>6 DEF Pool!Next
<1> QED BY <1>4, <1>5

LEMMA LetGoMaps ==
  ASSUME SlotInv, NEW w \in Works, LetGo(w)
  PROVE  Holders' = Holders \ {w}
BY DEF SlotInv, TypeOK, LetGo, Holders

LEMMA WaitMaps ==
  ASSUME SlotInv, NEW w \in Works, NEW i \in Waits[w], BeginWait(w, i) \/ WaitEnds(w, i)
  PROVE  [Pool!Next]_Seen
<1>0. away \in [Works -> Nat]
  BY DEF SlotInv, TypeOK
<1>1. CASE BeginWait(w, i)
  <2>1. away' = [away EXCEPT ![w] = @ + 1] /\ UNCHANGED <<done, slots>>
    BY <1>1 DEF BeginWait
  <2>2. UNCHANGED Finished
    BY <2>1 DEF Finished
  <2>3. Waiting' = Waiting \cup {w}
    BY <1>0, <2>1 DEF Waiting
  <2>4. CASE away[w] = 0
    <3>1. Holders' = Holders \ {w}
      BY <1>1, <2>4, LetGoMaps DEF BeginWait
    <3>2. w \notin Waiting
      BY <2>4 DEF Waiting
    <3>3. Pool!GoAway(w)
      BY <2>1, <2>2, <2>3, <3>1, <3>2 DEF Pool!GoAway, Holders, Waiting, Finished
    <3> QED BY <3>3 DEF Pool!Next
  <2>5. CASE away[w] # 0
    <3>1. UNCHANGED Holders
      BY <1>1, <2>5 DEF BeginWait, Holders
    <3>2. w \in Waiting
      BY <1>0, <2>5 DEF Waiting
    <3> QED BY <2>1, <2>2, <2>3, <3>1, <3>2 DEF Seen
  <2> QED BY <2>4, <2>5
<1>2. CASE WaitEnds(w, i)
  <2>1. away' = [away EXCEPT ![w] = @ - 1] /\ UNCHANGED <<release, done, slots>>
    BY <1>2 DEF WaitEnds
  <2>2. UNCHANGED <<Holders, Finished>>
    BY <2>1 DEF Holders, Finished
  <2>3. CASE away[w] = 1
    <3>1. w \in Waiting /\ Waiting' = Waiting \ {w}
      BY <1>0, <2>1, <2>3 DEF Waiting
    <3>2. Pool!ComeBack(w)
      BY <2>1, <2>2, <3>1 DEF Pool!ComeBack, Holders, Waiting, Finished
    <3> QED BY <3>2 DEF Pool!Next
  <2>4. CASE away[w] # 1
    <3>1. UNCHANGED Waiting
      BY <1>0, <2>1, <2>4 DEF Waiting
    <3> QED BY <2>1, <2>2, <3>1 DEF Seen
  <2> QED BY <2>3, <2>4
<1> QED BY <1>1, <1>2

LEMMA EndMaps ==
  ASSUME SlotInv, NEW w \in Works, End(w)
  PROVE  [Pool!Next]_Seen
<1>1. /\ body[w] \in {"parsing", "writing"} /\ done' = [done EXCEPT ![w] = TRUE]
      /\ LetGo(w) /\ UNCHANGED <<away, slots>>
  BY DEF End
<1>2. w \notin Finished
  BY <1>1 DEF SlotInv, Counted, Finished
<1>3. Finished' = Finished \cup {w}
  BY <1>1 DEF SlotInv, TypeOK, Finished
<1>4. UNCHANGED Waiting /\ Holders' = Holders \ {w}
  BY <1>1, LetGoMaps DEF Waiting
<1>5. Pool!Finish(w)
  BY <1>1, <1>2, <1>3, <1>4 DEF Pool!Finish, Holders, Waiting, Finished
<1> QED BY <1>5 DEF Pool!Next

LEMMA PoolNext == SlotInv /\ [Next]_vars => [Pool!Next]_Seen
<1> SUFFICES ASSUME SlotInv, [Next]_vars PROVE [Pool!Next]_Seen
  OBVIOUS
<1>1. CASE StartTask
  BY <1>1, StartMaps
<1>2. ASSUME NEW w \in Works, NEW i \in Waits[w], BeginWait(w, i) \/ WaitEnds(w, i)
      PROVE  [Pool!Next]_Seen
  BY <1>2, WaitMaps
<1>3. ASSUME NEW w \in Works, End(w) PROVE [Pool!Next]_Seen
  BY <1>3, EndMaps
<1>4. ASSUME UNCHANGED <<release, away, done, slots>>
      PROVE  [Pool!Next]_Seen
  BY <1>4 DEF Seen, Holders, Waiting, Finished
<1>5. CASE Abort
  BY <1>5, <1>4 DEF Abort
<1>6. ASSUME NEW w \in Works,
             \/ SlotFreed(w) \/ TakingCleared(w) \/ Hold(w) \/ Begin(w) \/ Write(w)
             \/ \E c \in CallsOf(w) : SettleAgain(w, c)
      PROVE  [Pool!Next]_Seen
  BY <1>6, <1>4 DEF SlotFreed, TakingCleared, Hold, Begin, Write, SettleAgain
<1>7. CASE UNCHANGED vars
  BY <1>7, <1>4 DEF vars
<1> QED BY <1>1, <1>2, <1>3, <1>5, <1>6, <1>7 DEF Next

\* LocalSlot implements the pool: work that waits on the network or is done holds
\* no slot, and a slot is taken only where one is free, for any number of works,
\* waits and slots (LocalSlot over p-queue).
THEOREM SlotsImplementPool == Spec => Implements
<1>1. Init => Pool!Init
  BY PoolInit
<1>2. SlotInv /\ [Next]_vars => [Pool!Next]_Seen
  BY PoolNext
<1> QED BY <1>1, <1>2, SlotInvariant, PTL
        DEF Spec, Implements, Pool!Spec, Seen, Holders, Waiting, Finished

-----------------------------------------------------------------------------
(* What a site remembers.                                                  *)

\* An entry of a key is an earlier run's, or of a caller whose task for it came
\* to what it holds.
OwnEntry(e, k, calls, outcomes) ==
  /\ e = [by |-> e.by, missed |-> e.missed, lasts |-> e.lasts]
  /\ e.missed \in BOOLEAN /\ e.lasts \in BOOLEAN
  /\ \/ e.by = Earlier
     \/ /\ e.by \in Callers /\ calls[e.by].st = "done" /\ calls[e.by].ask.key = k
        /\ outcomes[e.by] = IF e.missed THEN "absent" ELSE "value"
EntryOf(e, k, calls, outcomes) == e = Memory!NoEntry \/ OwnEntry(e, k, calls, outcomes)
Lasting(e) == e = Memory!NoEntry \/ e.lasts

\* Of what is in hand and stored.
Entries ==
  /\ DOMAIN kept = Keys /\ DOMAIN passing = Keys /\ DOMAIN store = Keys /\ DOMAIN snapshot = Keys
  /\ \A k \in Keys :
       /\ EntryOf(kept[k], k, call, outcome) /\ EntryOf(store[k], k, call, outcome)
       /\ EntryOf(snapshot[k], k, call, outcome) /\ EntryOf(passing[k], k, call, outcome)
       /\ passing[k].by # Earlier
       /\ Lasting(kept[k]) /\ Lasting(snapshot[k])
       /\ k \in fresh => kept[k].by \in Callers

Stages == {"idle", "opening", "asking", "joined", "done"}
CallShape ==
  [st : Stages, ask : Memory!AskType \cup {None}, on : Callers \cup {None}]
CallOK(c) ==
  /\ call[c].st # "idle" => call[c].ask \in Memory!AskType
  /\ outcome[c] # "none" \/ answer[c] # None => call[c].st = "done"
  /\ call[c].st = "joined" =>
       /\ call[c].on \in Callers /\ call[call[c].on].st \in {"asking", "done"}
       /\ call[call[c].on].ask.key = call[c].ask.key
\* Of the calls: while the group is not read nothing was answered or asked for.
Calls ==
  /\ call \in [Callers -> CallShape]
  /\ DOMAIN outcome = Callers /\ DOMAIN answer = Callers /\ DOMAIN asking = Keys
  /\ \A c \in Callers : CallOK(c)
  /\ \A k \in Keys : asking[k] # None =>
       asking[k] \in Callers /\ call[asking[k]].st = "asking" /\ call[asking[k]].ask.key = k
  /\ group # "read" => /\ fresh = {}
                       /\ \A c \in Callers : call[c].st \notin {"asking", "joined"}

\* Of the turn: what is due is in hand, and not stored yet before the save.
Turn ==
  /\ group \in {"unread", "reading", "read"}
  /\ due \subseteq fresh /\ fresh \subseteq Keys
  /\ turn \in {"working", "pruning", "saving"} /\ due # {} => dirty
  /\ turn \in {"writing", "saved"} => \A k \in due : snapshot[k].by \in Callers
  /\ turn = "saved" => \A k \in due : store[k].by \in Callers
  /\ turn = "saved" /\ ~unread => \A k \in Keys : Lasting(store[k])
  /\ turn # "working" /\ group = "unread" => unread
  /\ group = "read" /\ ~dirty => \A k \in Keys : Lasting(store[k])

MemoryInv == Entries /\ Calls /\ Turn /\ Memory!AnswerIsItsOwn

\* The names of no entry, no call and no answer are told apart.
LEMMA NamesApart ==
  /\ None \notin Callers /\ Earlier \notin Callers /\ Nothing \notin Callers /\ Failed \notin Callers
  /\ Earlier # None /\ Earlier # Nothing /\ Earlier # Failed /\ Nothing # None /\ Nothing # Failed
  /\ Failed # None
BY MemoryAssumption DEF Memory!MemoryAssumption

LEMMA MemoryInit == MCInit => MemoryInv
<1> SUFFICES ASSUME MCInit PROVE MemoryInv
  OBVIOUS
<1> USE DEF Memory!Init, MCInit
<1>1. \A k \in Keys : /\ kept[k] = Memory!NoEntry /\ passing[k] = Memory!NoEntry
                      /\ snapshot[k] = Memory!NoEntry
  OBVIOUS
<1>2. \A k \in Keys : EntryOf(store[k], k, call, outcome)
  <2> SUFFICES ASSUME NEW k \in Keys, store[k] \in Stored PROVE OwnEntry(store[k], k, call, outcome)
    BY DEF EntryOf
  <2>1. store[k] \in [by : {Earlier}, missed : BOOLEAN, lasts : BOOLEAN]
    BY MemoryAssumption DEF Memory!MemoryAssumption
  <2> QED BY <2>1 DEF OwnEntry
<1>3. Entries
  BY <1>1, <1>2, NamesApart DEF Entries, EntryOf, Lasting, Memory!NoEntry
<1>4. Calls
  BY NamesApart DEF Calls, CallShape, Stages, CallOK
<1>5. Turn
  BY DEF Turn
<1>6. Memory!AnswerIsItsOwn
  BY NamesApart DEF Memory!AnswerIsItsOwn
<1> QED BY <1>3, <1>4, <1>5, <1>6 DEF MemoryInv

\* A call that is over stays as it is, and what it came to.
Settled ==
  \A c \in Callers : call[c].st = "done" => call'[c] = call[c] /\ outcome'[c] = outcome[c]

LEMMA EntryStill ==
  ASSUME Settled, NEW k \in Keys, NEW e, EntryOf(e, k, call, outcome)
  PROVE  EntryOf(e, k, call', outcome')
BY DEF Settled, EntryOf, OwnEntry

LEMMA EntriesStill ==
  ASSUME Entries, Settled, UNCHANGED <<kept, store, snapshot, passing, fresh>>
  PROVE  Entries'
BY EntryStill DEF Entries

\* What a call was answered is its own, and stays so.
RightAnswer(c) ==
  /\ answer[c] \in Callers =>
       outcome[answer[c]] = "value" /\ call[answer[c]].ask.key = call[c].ask.key
  /\ answer[c] = Nothing => call[c].ask.miss
  /\ answer[c] = Earlier => ~refresh

LEMMA AnswersStill ==
  ASSUME Calls, Memory!AnswerIsItsOwn, Settled, UNCHANGED refresh,
         \A d \in Callers : answer'[d] = answer[d] \/ RightAnswer(d)'
  PROVE  Memory!AnswerIsItsOwn'
<1> SUFFICES ASSUME NEW d \in Callers, answer'[d] = answer[d] PROVE RightAnswer(d)'
  BY DEF Memory!AnswerIsItsOwn, RightAnswer
<1>1. answer[d] # None => call'[d] = call[d]
  BY DEF Calls, CallOK, Settled
<1>2. answer[d] \in Callers => outcome[answer[d]] = "value" /\ call[answer[d]].ask.key = call[d].ask.key
  BY DEF Memory!AnswerIsItsOwn
<1>3. answer[d] \in Callers => call[answer[d]].st = "done"
  BY <1>2 DEF Calls, CallOK
<1>4. answer[d] \in Callers => outcome'[answer[d]] = "value" /\ call'[answer[d]] = call[answer[d]]
  BY <1>2, <1>3 DEF Settled
<1> QED BY <1>1, <1>2, <1>4, NamesApart DEF Memory!AnswerIsItsOwn, RightAnswer

\* A call begins, or goes on with no more than its own place and answer changed.
CallMoves(c, to) ==
  /\ call' = [call EXCEPT ![c] = to] /\ to \in CallShape
  /\ call[c].st # "done" /\ call[c].st # "asking"
  /\ UNCHANGED <<refresh, Memory!bag, Memory!save, unread, outcome>>

LEMMA CallMovesKeeps ==
  ASSUME MemoryInv, NEW c \in Callers, NEW to, CallMoves(c, to), CallOK(c)',
         group' \in {"unread", "reading", "read"},
         group' # group => group = "unread" /\ group' = "reading" /\ to.st = "opening",
         to.st \in {"asking", "joined"} => group = "read",
         to.st # "asking" => UNCHANGED asking,
         to.st = "asking" => asking' = [asking EXCEPT ![to.ask.key] = IF @ = None THEN c ELSE @],
         \A d \in Callers \ {c} : answer'[d] = answer[d], DOMAIN answer' = Callers,
         answer'[c] = answer[c] \/ RightAnswer(c)'
  PROVE  MemoryInv'
<1> USE DEF MemoryInv, CallMoves, Memory!bag, Memory!save
<1>1. call'[c] = to /\ \A d \in Callers \ {c} : call'[d] = call[d]
  BY DEF Calls
<1>2. Settled
  BY <1>1 DEF Settled
<1>3. Entries'
  BY <1>2, EntriesStill
<1>4. Memory!AnswerIsItsOwn'
  BY <1>2, AnswersStill
<1>5. Turn'
  BY DEF Turn
<1>6. ASSUME NEW d \in Callers, d # c PROVE CallOK(d)'
  BY <1>1, <1>6 DEF Calls, CallOK
<1>7. \A k \in Keys : asking'[k] # None =>
        asking'[k] \in Callers /\ call'[asking'[k]].st = "asking" /\ call'[asking'[k]].ask.key = k
  <2>1. ASSUME NEW k \in Keys, asking'[k] = asking[k], asking[k] # None
        PROVE  asking'[k] \in Callers /\ call'[asking'[k]].st = "asking" /\ call'[asking'[k]].ask.key = k
    BY <1>1, <2>1 DEF Calls
  <2>2. ASSUME NEW k \in Keys, asking'[k] # asking[k]
        PROVE  asking'[k] = c /\ call'[c].st = "asking" /\ call'[c].ask.key = k
    BY <1>1, <2>2 DEF Calls
  <2> QED BY <2>1, <2>2
<1>8. call' \in [Callers -> CallShape] /\ DOMAIN asking' = Keys
  BY DEF Calls
<1>9. group' # "read" => fresh' = {} /\ \A d \in Callers : call'[d].st \notin {"asking", "joined"}
  BY <1>1 DEF Calls
<1>10. Calls'
  BY <1>6, <1>7, <1>8, <1>9 DEF Calls
<1> QED BY <1>3, <1>4, <1>5, <1>10

LEMMA OpeningType ==
  ASSUME Turn, Memory!Opening
  PROVE  /\ group' \in {"unread", "reading", "read"}
         /\ group' # group => group = "unread" /\ group' = "reading"
BY DEF Turn, Memory!Opening

\* What the run has for a call is of its key, and under --refresh not an earlier
\* run's.
LEMMA HeldIsOwn ==
  ASSUME MemoryInv, NEW c \in Callers, call[c].ask.key \in Keys, Memory!Held(c) # Memory!NoEntry
  PROVE  /\ OwnEntry(Memory!Held(c), call[c].ask.key, call, outcome)
         /\ Memory!Held(c).by = Earlier => ~refresh
<1> DEFINE k == call[c].ask.key
<1>1. Memory!Held(c) = IF passing[k] # Memory!NoEntry THEN passing[k]
                       ELSE IF refresh /\ k \notin fresh THEN Memory!NoEntry ELSE kept[k]
  BY DEF Memory!Held
<1>2. /\ EntryOf(kept[k], k, call, outcome) /\ EntryOf(passing[k], k, call, outcome)
      /\ passing[k].by # Earlier /\ (k \in fresh => kept[k].by \in Callers)
  BY DEF MemoryInv, Entries
<1> QED BY <1>1, <1>2, NamesApart DEF EntryOf

LEMMA CallSteps ==
  ASSUME MemoryInv, NEW c \in Callers,
         Memory!Remember(c) \/ Memory!FromHeld(c) \/ Memory!Join(c) \/ Memory!StartTask(c)
           \/ Memory!Joined(c)
  PROVE  MemoryInv'
<1>0. call[c] \in CallShape /\ CallOK(c) /\ call \in [Callers -> CallShape] /\ DOMAIN answer = Callers
  BY DEF MemoryInv, Calls
<1>1. CASE Memory!Remember(c)
  <2>1. PICK ask \in Asks[c] : call' = [call EXCEPT ![c].st = "opening", ![c].ask = ask]
    BY <1>1 DEF Memory!Remember
  <2>2. ask \in Memory!AskType
    BY MemoryAssumption DEF Memory!MemoryAssumption, Memory!AskType
  <2> DEFINE to == [call[c] EXCEPT !.st = "opening", !.ask = ask]
  <2>3. /\ to \in CallShape /\ to.st = "opening" /\ call' = [call EXCEPT ![c] = to]
        /\ to.ask = ask
    BY <1>0, <2>1, <2>2 DEF CallShape, Stages
  <2>4. CallMoves(c, to)
    BY <1>1, <2>3 DEF Memory!Remember, CallMoves
  <2>5. call'[c] = to /\ outcome' = outcome /\ answer' = answer /\ asking' = asking /\ call[c].st = "idle"
    BY <1>0, <1>1, <2>3 DEF Memory!Remember
  <2>6. CallOK(c)'
    BY <1>0, <2>2, <2>3, <2>5 DEF CallOK
  <2>7. Memory!Opening /\ Turn
    BY <1>1 DEF Memory!Remember, MemoryInv
  <2> HIDE DEF to
  <2> QED BY <1>0, <2>3, <2>4, <2>5, <2>6, <2>7, OpeningType, CallMovesKeeps
<1>2. CASE Memory!FromHeld(c)
  <2> DEFINE to == [call[c] EXCEPT !.st = "done"]
  <2>1. /\ call[c].st = "opening" /\ call' = [call EXCEPT ![c] = to] /\ UNCHANGED <<group, asking, outcome>>
        /\ Memory!Held(c) # Memory!NoEntry /\ (Memory!Held(c).missed => call[c].ask.miss)
        /\ answer' = [answer EXCEPT ![c] = IF Memory!Held(c).missed THEN Nothing ELSE Memory!Held(c).by]
    BY <1>0, <1>2 DEF Memory!FromHeld, Memory!Ready, Memory!Answered, CallShape
  <2>2. to \in CallShape /\ to.st = "done" /\ to.ask = call[c].ask /\ call'[c] = to
    BY <1>0, <2>1 DEF CallShape, Stages
  <2>3. CallMoves(c, to)
    BY <1>2, <2>1, <2>2 DEF Memory!FromHeld, CallMoves
  <2>4. CallOK(c)' /\ call[c].ask.key \in Keys
    BY <1>0, <2>1, <2>2 DEF CallOK, Memory!AskType
  <2>5. RightAnswer(c)'
    <3>1. /\ OwnEntry(Memory!Held(c), call[c].ask.key, call, outcome)
          /\ Memory!Held(c).by = Earlier => ~refresh
      BY <2>1, <2>4, HeldIsOwn
    <3>2. answer'[c] = (IF Memory!Held(c).missed THEN Nothing ELSE Memory!Held(c).by)
      BY <1>0, <2>1
    <3>3. refresh' = refresh
      BY <1>2 DEF Memory!FromHeld
    <3>4. CASE Memory!Held(c).missed
      BY <2>1, <2>2, <3>2, <3>4, NamesApart DEF RightAnswer
    <3>5. CASE ~Memory!Held(c).missed /\ Memory!Held(c).by = Earlier
      BY <3>1, <3>2, <3>3, <3>5, NamesApart DEF RightAnswer
    <3>6. CASE ~Memory!Held(c).missed /\ Memory!Held(c).by # Earlier
      <4>1. /\ answer'[c] \in Callers /\ call[answer'[c]].ask.key = call[c].ask.key
            /\ outcome[answer'[c]] = "value" /\ call[answer'[c]].st = "done"
        BY <3>1, <3>2, <3>6 DEF OwnEntry
      <4>2. call'[answer'[c]] = call[answer'[c]] /\ call'[c].ask = call[c].ask
        BY <2>1, <2>2, <4>1
      <4> QED BY <2>1, <4>1, <4>2, NamesApart DEF RightAnswer
    <3> QED BY <3>1, <3>4, <3>5, <3>6 DEF OwnEntry
  <2>6. DOMAIN answer' = Callers /\ \A d \in Callers \ {c} : answer'[d] = answer[d]
    BY <1>0, <2>1
  <2>7. group' \in {"unread", "reading", "read"}
    BY <2>1 DEF MemoryInv, Turn
  <2> HIDE DEF to
  <2> QED BY <2>1, <2>2, <2>3, <2>4, <2>5, <2>6, <2>7, CallMovesKeeps
<1>3. CASE Memory!Join(c)
  <2> DEFINE to == [call[c] EXCEPT !.st = "joined", !.on = asking[call[c].ask.key]]
  <2>1. /\ call[c].st = "opening" /\ group = "read" /\ call' = [call EXCEPT ![c] = to]
        /\ UNCHANGED <<group, asking, outcome, answer>> /\ asking[call[c].ask.key] # None
    BY <1>0, <1>3 DEF Memory!Join, Memory!Ready, Memory!Joins, CallShape
  <2>2. call[c].ask \in Memory!AskType /\ call[c].ask.key \in Keys
    BY <1>0, <2>1 DEF CallOK, Memory!AskType
  <2>3. /\ asking[call[c].ask.key] \in Callers /\ call[asking[call[c].ask.key]].st = "asking"
        /\ call[asking[call[c].ask.key]].ask.key = call[c].ask.key
    BY <2>1, <2>2 DEF MemoryInv, Calls
  <2>4. /\ to \in CallShape /\ to.st = "joined" /\ to.ask = call[c].ask
        /\ to.on = asking[call[c].ask.key] /\ call'[c] = to
    BY <1>0, <2>1, <2>3 DEF CallShape, Stages
  <2>5. CallMoves(c, to)
    BY <1>3, <2>1, <2>4 DEF Memory!Join, CallMoves
  <2>6. CallOK(c)'
    BY <1>0, <2>1, <2>2, <2>3, <2>4 DEF CallOK
  <2>7. group' \in {"unread", "reading", "read"}
    BY <2>1
  <2> HIDE DEF to
  <2> QED BY <1>0, <2>1, <2>4, <2>5, <2>6, <2>7, CallMovesKeeps
<1>4. CASE Memory!StartTask(c)
  <2> DEFINE to == [call[c] EXCEPT !.st = "asking"]
  <2>1. /\ call[c].st = "opening" /\ group = "read" /\ call' = [call EXCEPT ![c] = to]
        /\ asking' = [asking EXCEPT ![call[c].ask.key] = IF @ = None THEN c ELSE @]
        /\ UNCHANGED <<group, outcome, answer>>
    BY <1>0, <1>4 DEF Memory!StartTask, Memory!Ready, CallShape
  <2>2. to \in CallShape /\ to.st = "asking" /\ to.ask = call[c].ask /\ call'[c] = to
    BY <1>0, <2>1 DEF CallShape, Stages
  <2>3. CallMoves(c, to)
    BY <1>4, <2>1, <2>2 DEF Memory!StartTask, CallMoves
  <2>4. CallOK(c)'
    BY <1>0, <2>1, <2>2 DEF CallOK
  <2>5. group' \in {"unread", "reading", "read"}
    BY <2>1
  <2> HIDE DEF to
  <2> QED BY <1>0, <2>1, <2>2, <2>3, <2>4, <2>5, CallMovesKeeps
<1>5. CASE Memory!Joined(c)
  <2> DEFINE to == [call[c] EXCEPT !.st = "done"]
             on == call[c].on
  <2>1. /\ call[c].st = "joined" /\ call' = [call EXCEPT ![c] = to] /\ outcome[on] # "none"
        /\ answer' = [answer EXCEPT ![c] = Memory!Takes(c, outcome[on], on)]
        /\ UNCHANGED <<group, asking, outcome>>
    BY <1>0, <1>5 DEF Memory!Joined, Memory!Hears, CallShape
  <2>2. to \in CallShape /\ to.st = "done" /\ to.ask = call[c].ask /\ call'[c] = to
    BY <1>0, <2>1 DEF CallShape, Stages
  <2>3. CallMoves(c, to)
    BY <1>5, <2>1, <2>2 DEF Memory!Joined, CallMoves
  <2>4. CallOK(c)'
    BY <1>0, <2>1, <2>2 DEF CallOK
  <2>5. on \in Callers /\ call[on].ask.key = call[c].ask.key /\ on # c
    <3>1. on \in Callers /\ call[on].ask.key = call[c].ask.key
      BY <1>0, <2>1 DEF CallOK
    <3>2. call[on].st = "done"
      BY <2>1, <3>1 DEF MemoryInv, Calls, CallOK
    <3> QED BY <2>1, <3>1, <3>2
  <2>6. RightAnswer(c)'
    <3>1. answer'[c] = Memory!Takes(c, outcome[on], on) /\ call'[on] = call[on]
      BY <1>0, <2>1, <2>5
    <3>2. CASE outcome[on] = "value"
      BY <2>1, <2>2, <2>5, <3>1, <3>2, NamesApart DEF RightAnswer, Memory!Takes
    <3>3. CASE outcome[on] # "value"
      BY <2>1, <2>2, <3>1, <3>3, NamesApart DEF RightAnswer, Memory!Takes
    <3> QED BY <3>2, <3>3
  <2>7. DOMAIN answer' = Callers /\ \A d \in Callers \ {c} : answer'[d] = answer[d]
    BY <1>0, <2>1
  <2>8. group' \in {"unread", "reading", "read"}
    BY <2>1 DEF MemoryInv, Turn
  <2> HIDE DEF to
  <2> QED BY <2>1, <2>2, <2>3, <2>4, <2>6, <2>7, <2>8, CallMovesKeeps
<1> QED BY <1>1, <1>2, <1>3, <1>4, <1>5

\* A task that ends: what it came to is kept, for later runs or for this one.
LEMMA TaskEndsKeeps ==
  ASSUME MemoryInv, NEW c \in Callers, NEW how \in {"value", "absent", "broken"},
         Memory!TaskEnds(c, how)
  PROVE  MemoryInv'
<1> USE DEF MemoryInv
<1> DEFINE ask == call[c].ask
           to == [call[c] EXCEPT !.st = "done"]
           entry == [by |-> c, missed |-> how = "absent", lasts |-> ask.lasts]
           kept_ == how = "value" \/ (how = "absent" /\ ask.miss)
<1>0. call[c] \in CallShape /\ CallOK(c) /\ call \in [Callers -> CallShape]
  BY DEF Calls
<1>1. /\ call[c].st = "asking" /\ call' = [call EXCEPT ![c] = to]
      /\ outcome' = [outcome EXCEPT ![c] = how]
      /\ asking' = [asking EXCEPT ![ask.key] = IF @ = c THEN None ELSE @]
      /\ answer' = [answer EXCEPT ![c] = Memory!Takes(c, how, c)]
      /\ UNCHANGED <<refresh, group, store, turn, snapshot, unread>>
  BY <1>0 DEF Memory!TaskEnds, CallShape
<1>2. to \in CallShape /\ to.st = "done" /\ to.ask = ask /\ call'[c] = to
  BY <1>0, <1>1 DEF CallShape, Stages
<1>3. ask \in Memory!AskType /\ ask.key \in Keys /\ ask.lasts \in BOOLEAN
  BY <1>0, <1>1 DEF CallOK, Memory!AskType
<1>4. /\ outcome'[c] = how /\ \A d \in Callers \ {c} : outcome'[d] = outcome[d] /\ call'[d] = call[d]
      /\ answer'[c] = Memory!Takes(c, how, c) /\ \A d \in Callers \ {c} : answer'[d] = answer[d]
      /\ DOMAIN outcome' = Callers /\ DOMAIN answer' = Callers /\ DOMAIN asking' = Keys
  BY <1>0, <1>1 DEF Calls
<1>5. Settled
  BY <1>1, <1>4 DEF Settled
<1>6. group = "read"
  BY <1>1 DEF Calls, Turn
<1>7. \/ /\ kept_ /\ ask.lasts /\ kept' = [kept EXCEPT ![ask.key] = entry] /\ dirty' = TRUE
         /\ fresh' = fresh \cup {ask.key} /\ passing' = passing
         /\ due' = IF turn = "working" THEN due \cup {ask.key} ELSE due
      \/ /\ kept_ /\ ~ask.lasts /\ passing' = [passing EXCEPT ![ask.key] = entry]
         /\ UNCHANGED <<kept, dirty, fresh, due>>
      \/ UNCHANGED <<kept, dirty, fresh, passing, due>>
  BY DEF Memory!TaskEnds, Memory!Keep, Memory!bag
<1>8. kept_ => OwnEntry(entry, ask.key, call', outcome') /\ entry.by = c /\ entry.lasts = ask.lasts
  BY <1>2, <1>3, <1>4 DEF OwnEntry
<1> HIDE DEF to, entry, kept_
<1>9. Entries'
  <2>1. ASSUME NEW k \in Keys
        PROVE  /\ EntryOf(kept[k], k, call', outcome') /\ EntryOf(store[k], k, call', outcome')
               /\ EntryOf(snapshot[k], k, call', outcome') /\ EntryOf(passing[k], k, call', outcome')
    BY <1>5, EntryStill DEF Entries
  <2>2. DOMAIN kept' = Keys /\ DOMAIN passing' = Keys
    BY <1>7 DEF Entries
  <2>3. ASSUME NEW k \in Keys
        PROVE  /\ EntryOf(kept'[k], k, call', outcome') /\ Lasting(kept'[k])
               /\ k \in fresh' => kept'[k].by \in Callers
    <3>1. \/ kept'[k] = kept[k] /\ (k \in fresh' => k \in fresh)
          \/ kept_ /\ ask.lasts /\ kept'[k] = entry /\ k = ask.key
      BY <1>3, <1>7 DEF Entries
    <3>2. CASE kept'[k] = kept[k] /\ (k \in fresh' => k \in fresh)
      BY <2>1, <3>2 DEF Entries
    <3>3. CASE kept_ /\ ask.lasts /\ kept'[k] = entry /\ k = ask.key
      BY <1>8, <3>3 DEF EntryOf, Lasting
    <3> QED BY <3>1, <3>2, <3>3
  <2>4. ASSUME NEW k \in Keys
        PROVE  EntryOf(passing'[k], k, call', outcome') /\ passing'[k].by # Earlier
    <3>1. passing'[k] = passing[k] \/ (kept_ /\ passing'[k] = entry /\ k = ask.key)
      BY <1>3, <1>7 DEF Entries
    <3>2. CASE passing'[k] = passing[k]
      BY <2>1, <3>2 DEF Entries
    <3>3. CASE kept_ /\ passing'[k] = entry /\ k = ask.key
      BY <1>8, <3>3, NamesApart DEF EntryOf
    <3> QED BY <3>1, <3>2, <3>3
  <2> QED BY <1>1, <2>1, <2>2, <2>3, <2>4 DEF Entries
<1>10. Memory!AnswerIsItsOwn'
  <2>1. RightAnswer(c)'
    <3>1. how = "value" => answer'[c] = c
      BY <1>4 DEF Memory!Takes
    <3>2. how # "value" => answer'[c] = (IF how = "absent" /\ ask.miss THEN Nothing ELSE Failed)
      BY <1>4 DEF Memory!Takes
    <3> QED BY <1>2, <1>4, <3>1, <3>2, NamesApart DEF RightAnswer
  <2> QED BY <1>1, <1>4, <1>5, <2>1, AnswersStill
<1>11. Turn'
  <2>1. /\ due' \subseteq fresh' /\ fresh \subseteq fresh' /\ (dirty => dirty' = TRUE)
        /\ due' # due => dirty' = TRUE /\ turn = "working"
        /\ fresh' \subseteq Keys
    BY <1>3, <1>7 DEF Turn
  <2>2. ~dirty' => ~dirty
    BY <2>1
  <2>3. (turn' \in {"working", "pruning", "saving"} /\ due' # {}) => dirty'
    BY <1>1, <2>1 DEF Turn
  <2>4. turn' # "working" => due' = due
    BY <1>1, <2>1
  <2> QED BY <1>1, <2>1, <2>2, <2>3, <2>4 DEF Turn
<1>12. Calls'
  <2>1. CallOK(c)'
    BY <1>2, <1>3 DEF CallOK
  <2>2. ASSUME NEW d \in Callers, d # c PROVE CallOK(d)'
    <3>1. CallOK(d) /\ call'[d] = call[d] /\ outcome'[d] = outcome[d] /\ answer'[d] = answer[d]
      BY <1>4, <2>2 DEF Calls
    <3>2. call[d].st = "joined" => call'[call[d].on].st \in {"asking", "done"}
                                   /\ call'[call[d].on].ask = call[call[d].on].ask
      BY <1>2, <1>4, <3>1 DEF CallOK
    <3> QED BY <3>1, <3>2 DEF CallOK
  <2>3. \A k \in Keys : asking'[k] # None =>
          asking'[k] \in Callers /\ call'[asking'[k]].st = "asking" /\ call'[asking'[k]].ask.key = k
    <3> SUFFICES ASSUME NEW k \in Keys, asking'[k] # None
                 PROVE  /\ asking'[k] \in Callers /\ call'[asking'[k]].st = "asking"
                        /\ call'[asking'[k]].ask.key = k
      OBVIOUS
    <3>1. asking'[k] = asking[k] /\ asking[k] # c
      <4>1. asking[k] = c => k = ask.key
        BY NamesApart DEF Calls
      <4>2. k = ask.key /\ asking[k] = c => asking'[k] = None
        BY <1>1 DEF Calls
      <4>3. asking'[k] = asking[k] \/ asking'[k] = None
        BY <1>1 DEF Calls
      <4> QED BY <4>1, <4>2, <4>3
    <3> QED BY <1>4, <3>1 DEF Calls
  <2>4. call' \in [Callers -> CallShape]
    BY <1>0, <1>1, <1>2
  <2> QED BY <1>1, <1>4, <1>6, <2>1, <2>2, <2>3, <2>4 DEF Calls
<1> QED BY <1>9, <1>10, <1>11, <1>12

\* The read of the group, and one that fails.
LEMMA ReadSteps ==
  ASSUME MemoryInv, Memory!GroupRead \/ Memory!ReadFails
  PROVE  MemoryInv'
<1> USE DEF MemoryInv
<1>1. group = "reading" /\ fresh = {} /\ due = {}
  BY DEF Memory!GroupRead, Memory!ReadFails, Calls, Turn
<1>2. CASE Memory!GroupRead
  <2>1. /\ group' = "read" /\ kept' = [k \in Keys |-> IF store[k].lasts THEN store[k] ELSE Memory!NoEntry]
        /\ dirty' = (\E k \in Keys : store[k] # Memory!NoEntry /\ ~store[k].lasts)
        /\ UNCHANGED <<refresh, fresh, passing, asking, call, outcome, answer, store, turn, snapshot,
                       due, unread>>
    BY <1>2 DEF Memory!GroupRead, Memory!DropExpired, Memory!save
  <2>2. Entries'
    BY <1>1, <2>1 DEF Entries, EntryOf, Lasting
  <2>3. Turn'
    <3>1. ~dirty' => \A k \in Keys : Lasting(store[k])
      BY <2>1 DEF Lasting
    <3> QED BY <1>1, <2>1, <3>1 DEF Turn
  <2>4. Calls'
    BY <2>1 DEF Calls, CallOK
  <2>5. Memory!AnswerIsItsOwn'
    BY <2>1 DEF Memory!AnswerIsItsOwn
  <2> QED BY <2>2, <2>3, <2>4, <2>5
<1>3. CASE Memory!ReadFails
  <2>1. /\ group' = "unread" /\ unread' = TRUE
        /\ call' = [c \in Callers |->
                      IF call[c].st = "opening" THEN [call[c] EXCEPT !.st = "done"] ELSE call[c]]
        /\ answer' = [c \in Callers |-> IF call[c].st = "opening" THEN Failed ELSE answer[c]]
        /\ turn' = IF turn = "saving" THEN "failed" ELSE turn
        /\ UNCHANGED <<refresh, kept, dirty, fresh, passing, asking, outcome, store, snapshot, due>>
    BY <1>3 DEF Memory!ReadFails, Memory!bag
  <2>2. ASSUME NEW c \in Callers
        PROVE  /\ call'[c] \in CallShape /\ call'[c].ask = call[c].ask /\ call'[c].on = call[c].on
               /\ call'[c].st = IF call[c].st = "opening" THEN "done" ELSE call[c].st
               /\ call'[c].st \notin {"asking", "joined"}
    <3>1. call[c] \in CallShape /\ call[c].st \notin {"asking", "joined"}
      BY <1>1 DEF Calls
    <3>2. CASE call[c].st = "opening"
      BY <2>1, <3>1, <3>2 DEF CallShape, Stages
    <3>3. CASE call[c].st # "opening"
      BY <2>1, <3>1, <3>3
    <3> QED BY <3>2, <3>3
  <2>3. Settled
    BY <2>1 DEF Settled
  <2>4. Entries'
    BY <2>1, <2>3, EntriesStill
  <2>5. Memory!AnswerIsItsOwn'
    <3>1. \A c \in Callers : answer'[c] = answer[c] \/ answer'[c] = Failed
      BY <2>1
    <3>2. \A c \in Callers : answer'[c] = Failed => RightAnswer(c)'
      BY NamesApart DEF RightAnswer
    <3> QED BY <2>1, <2>3, <3>1, <3>2, AnswersStill
  <2>6. Turn'
    BY <1>1, <2>1 DEF Turn
  <2>7. Calls'
    <3>1. \A c \in Callers : CallOK(c)'
      <4> SUFFICES ASSUME NEW c \in Callers PROVE CallOK(c)'
        OBVIOUS
      <4>1. CallOK(c) /\ answer'[c] = (IF call[c].st = "opening" THEN Failed ELSE answer[c])
        BY <2>1 DEF Calls
      <4> QED BY <2>1, <2>2, <4>1 DEF CallOK
    <3>2. \A k \in Keys : asking[k] = None
      BY <1>1 DEF Calls
    <3>3. call' \in [Callers -> CallShape]
      BY <2>1, <2>2
    <3> QED BY <1>1, <2>1, <2>2, <3>1, <3>2, <3>3 DEF Calls
  <2> QED BY <2>4, <2>5, <2>6, <2>7
<1> QED BY <1>2, <1>3

\* The turn's work over, the group pruned and saved.
LEMMA TurnSteps ==
  ASSUME MemoryInv,
         Memory!Prune \/ Memory!Pruned \/ Memory!Save \/ Memory!SaveLands \/ Memory!SaveFails
  PROVE  MemoryInv'
<1> USE DEF MemoryInv
<1>1. UNCHANGED <<refresh, kept, fresh, passing, asking, call, outcome, answer, due, unread>>
  BY DEF Memory!Prune, Memory!Pruned, Memory!Save, Memory!SaveLands, Memory!SaveFails, Memory!bag
<1>2. Settled
  BY <1>1 DEF Settled
<1>3. Memory!AnswerIsItsOwn'
  BY <1>1, <1>2, AnswersStill
<1>4. /\ DOMAIN store' = Keys /\ DOMAIN snapshot' = Keys
      /\ \A k \in Keys : store'[k] \in {store[k], snapshot[k]} /\ snapshot'[k] \in {kept[k], snapshot[k]}
  BY DEF Memory!Prune, Memory!Pruned, Memory!Save, Memory!SaveLands, Memory!SaveFails, Entries
<1>5. Entries'
  BY <1>1, <1>4 DEF Entries
<1>6. group' = group \/ (group = "unread" /\ group' = "reading" /\ turn = "working")
  BY DEF Memory!Prune, Memory!Pruned, Memory!Save, Memory!SaveLands, Memory!SaveFails,
         Memory!Opening
<1>7. Calls'
  BY <1>1, <1>6 DEF Calls, CallOK
<1>8. Turn'
  <2>1. CASE Memory!Prune
    <3>1. /\ turn = "working" /\ turn' = "pruning" /\ UNCHANGED <<dirty, store, snapshot>>
          /\ group' = IF group = "unread" THEN "reading" ELSE group
      BY <2>1 DEF Memory!Prune, Memory!Opening, Memory!bag
    <3> QED BY <1>1, <3>1 DEF Turn
  <2>2. CASE Memory!Pruned
    <3>1. /\ turn = "pruning" /\ turn' = "saving" /\ UNCHANGED <<group, dirty, store, snapshot>>
      BY <2>2 DEF Memory!Pruned, Memory!bag
    <3> QED BY <1>1, <3>1 DEF Turn
  <2>3. CASE Memory!Save
    <3>1. due # {} => group = "read" /\ dirty
      BY <2>3 DEF Memory!Save, Turn, Calls
    <3>2. \A k \in due : kept[k].by \in Callers
      BY DEF Turn, Entries
    <3>3. due # {} => turn' = "writing"
      BY <2>3, <3>1 DEF Memory!Save
    <3>4. turn' = "writing" => snapshot' = kept
      BY <2>3 DEF Memory!Save
    <3>5. turn' \in {"writing", "saved"} /\ UNCHANGED <<group, dirty, store>> /\ turn = "saving"
      BY <2>3 DEF Memory!Save, Memory!bag
    <3>6. turn' = "saved" /\ ~unread => \A k \in Keys : Lasting(store[k])
      BY <2>3 DEF Memory!Save, Turn
    <3> QED BY <1>1, <3>2, <3>3, <3>4, <3>5, <3>6 DEF Turn
  <2>4. CASE Memory!SaveLands
    BY <1>1, <2>4 DEF Memory!SaveLands, Turn, Entries
  <2>5. CASE Memory!SaveFails
    <3>1. turn = "writing" /\ turn' = "failed" /\ UNCHANGED <<group, dirty, store, snapshot>>
      BY <2>5 DEF Memory!SaveFails, Memory!bag
    <3> QED BY <1>1, <3>1 DEF Turn
  <2> QED BY <2>1, <2>2, <2>3, <2>4, <2>5
<1> QED BY <1>3, <1>5, <1>7, <1>8

LEMMA MemoryNext == MemoryInv /\ [MCNext]_all => MemoryInv'
<1> SUFFICES ASSUME MemoryInv, [MCNext]_all PROVE MemoryInv'
  OBVIOUS
<1>1. CASE UNCHANGED ofMemory
  BY <1>1 DEF ofMemory, MemoryInv, Entries, Calls, CallOK, Turn, Memory!AnswerIsItsOwn
<1>2. CASE Memory!Next
  BY <1>2, CallSteps, TaskEndsKeeps, ReadSteps, TurnSteps
     DEF Memory!Next, Memory!Goes, Memory!Ends
<1> QED BY <1>1, <1>2 DEF MCNext, OfSlots, OfMemory, all

\* A call of `remember` is handed a value of its own key alone, and null only
\* where it takes a failure for an answer, whoever asked first; and under
\* --refresh none an earlier run kept (src/grabber/remember.ts).
THEOREM MemoryAnswersItsOwn == MCSpec => []AnswerIsItsOwn
<1>1. MemoryInv => AnswerIsItsOwn
  BY DEF MemoryInv, AnswerIsItsOwn
<1> QED BY <1>1, MemoryInit, MemoryNext, PTL DEF MCSpec

\* Once the turn's state is saved, what was answered before its work was over is
\* stored, and nothing past its time is (remember.ts prune, state.ts save).
THEOREM MemoryStoresCurrent == MCSpec => []StoredIsCurrent
<1>1. MemoryInv => StoredIsCurrent
  BY DEF MemoryInv, Turn, Lasting, StoredIsCurrent, Memory!StoredIsCurrent
<1> QED BY <1>1, MemoryInit, MemoryNext, PTL DEF MCSpec

\* What has not passed in `from` is still in `in`.
Covers(in, from) ==
  \A k \in Keys : from[k] # Memory!NoEntry /\ from[k].lasts => in[k] # Memory!NoEntry
\* The bag has all that is stored and has not passed, from its read on, and so
\* has what is being written.
Covered ==
  /\ group = "read" => Covers(kept, store)
  /\ turn = "writing" => group = "read" /\ Covers(snapshot, store) /\ Covers(kept, snapshot)

\* The bag's entries are replaced, and never dropped, once it is read.
LEMMA BagGrows ==
  ASSUME MemoryInv, Memory!Next, group = "read"
  PROVE  group' = "read" /\ \A k \in Keys : kept[k] # Memory!NoEntry => kept'[k] # Memory!NoEntry
<1>1. CASE UNCHANGED kept
  <2>1. group' = "read"
    BY DEF Memory!Next, Memory!Goes, Memory!Ends, Memory!Remember, Memory!FromHeld, Memory!Join,
           Memory!StartTask, Memory!TaskEnds, Memory!Joined, Memory!GroupRead, Memory!ReadFails,
           Memory!Prune, Memory!Pruned, Memory!Save, Memory!SaveLands, Memory!SaveFails,
           Memory!Opening
  <2> QED BY <1>1, <2>1
<1>2. CASE \E c \in Callers : Memory!Ends(c)
  <2>1. PICK c \in Callers, how \in {"value", "absent", "broken"} : Memory!TaskEnds(c, how)
    BY <1>2 DEF Memory!Ends
  <2>2. group' = "read"
    BY <2>1 DEF Memory!TaskEnds
  <2>3. \/ UNCHANGED kept
        \/ \E k \in {call[c].ask.key} : kept' = [kept EXCEPT ![k] =
             [by |-> c, missed |-> how = "absent", lasts |-> call[c].ask.lasts]]
    BY <2>1 DEF Memory!TaskEnds, Memory!Keep, Memory!bag
  <2>4. [by |-> c, missed |-> how = "absent", lasts |-> call[c].ask.lasts] # Memory!NoEntry
    BY NamesApart DEF Memory!NoEntry
  <2> QED BY <2>2, <2>3, <2>4 DEF MemoryInv, Entries
<1>3. CASE ~\E c \in Callers : Memory!Ends(c)
  <2>1. UNCHANGED kept
    BY <1>3 DEF Memory!Next, Memory!Goes, Memory!Remember, Memory!FromHeld, Memory!Join,
           Memory!StartTask, Memory!Joined, Memory!GroupRead, Memory!ReadFails,
           Memory!Prune, Memory!Pruned, Memory!Save, Memory!SaveLands, Memory!SaveFails, Memory!bag
  <2> QED BY <1>1, <2>1
<1> QED BY <1>2, <1>3

\* A step that writes nothing stored changes no more than the bag.
LEMMA StoreSteps ==
  ASSUME Memory!Next
  PROVE  \/ Memory!SaveLands
         \/ Memory!GroupRead
         \/ Memory!Save
         \/ UNCHANGED <<store, snapshot>> /\ (turn' = "writing" => turn = "writing")
            /\ (group' = "read" => group = "read")
BY DEF Memory!Next, Memory!Goes, Memory!Ends, Memory!Remember, Memory!FromHeld, Memory!Join,
       Memory!StartTask, Memory!TaskEnds, Memory!Joined, Memory!ReadFails, Memory!Prune,
       Memory!Pruned, Memory!SaveFails, Memory!Opening, Memory!save

LEMMA CoveredInit == MCInit => Covered
BY DEF MCInit, Memory!Init, Covered

LEMMA CoveredNext == MemoryInv /\ Covered /\ [MCNext]_all => Covered'
<1> SUFFICES ASSUME MemoryInv, Covered, [MCNext]_all PROVE Covered'
  OBVIOUS
<1>1. CASE UNCHANGED ofMemory
  BY <1>1 DEF ofMemory, Covered, Covers
<1>2. CASE Memory!Next
  <2>1. group = "read" => group' = "read" /\ Covers(kept', kept)
    BY <1>2, BagGrows DEF Covers
  <2>2. CASE Memory!SaveLands
    <3>1. turn = "writing" /\ turn' = "saved" /\ store' = snapshot /\ kept' = kept
      BY <2>2 DEF Memory!SaveLands
    <3> QED BY <3>1 DEF Covered, Covers
  <2>3. CASE Memory!GroupRead
    <3>1. /\ group = "reading" /\ kept' = [k \in Keys |-> IF store[k].lasts THEN store[k] ELSE Memory!NoEntry]
          /\ UNCHANGED <<store, turn>>
      BY <2>3 DEF Memory!GroupRead, Memory!DropExpired, Memory!save
    <3>2. Covers(kept, store)'
      BY <3>1 DEF Covers
    <3> QED BY <3>1, <3>2 DEF Covered
  <2>4. CASE Memory!Save
    <3>1. /\ UNCHANGED <<group, kept, store>>
          /\ turn' = "writing" => group = "read" /\ snapshot' = kept
      BY <2>4 DEF Memory!Save, Memory!bag
    <3> QED BY <3>1 DEF Covered, Covers
  <2>5. CASE /\ UNCHANGED <<store, snapshot>> /\ (turn' = "writing" => turn = "writing")
             /\ (group' = "read" => group = "read")
    <3>1. group' = "read" => Covers(kept, store)'
      BY <2>1, <2>5, BagGrows, <1>2 DEF Covered, Covers
    <3>2. turn' = "writing" => group' = "read" /\ Covers(snapshot, store)' /\ Covers(kept, snapshot)'
      BY <2>1, <2>5, BagGrows, <1>2 DEF Covered, Covers
    <3> QED BY <3>1, <3>2 DEF Covered
  <2> QED BY <1>2, <2>2, <2>3, <2>4, <2>5, StoreSteps
<1> QED BY <1>1, <1>2 DEF MCNext, OfSlots, OfMemory, all

\* No value kept for a later run is lost before its time, whatever fails, and a
\* group that could not be read is never written over (state.ts save, #load).
THEOREM MemoryLosesNothing == MCSpec => NothingLost
<1> DEFINE NoLoss == \A k \in Keys : store[k] # Memory!NoEntry /\ store[k].lasts
                                       => store'[k] # Memory!NoEntry
<1>1. MemoryInv /\ Covered /\ [MCNext]_all => [NoLoss]_(Memory!vars)
  <2> SUFFICES ASSUME MemoryInv, Covered, [MCNext]_all PROVE NoLoss \/ UNCHANGED ofMemory
    BY DEF ofMemory, Memory!vars, Memory!bag, Memory!save
  <2>1. CASE Memory!Next
    <3>1. CASE UNCHANGED store
      BY <3>1
    <3>2. CASE Memory!SaveLands
      BY <3>2 DEF Memory!SaveLands, Covered, Covers
    <3> QED BY <2>1, <3>1, <3>2, StoreSteps DEF Memory!GroupRead, Memory!Save, Memory!save
  <2> QED BY <2>1 DEF MCNext, OfSlots, OfMemory, all
<1> QED BY <1>1, MemoryInit, MemoryNext, CoveredInit, CoveredNext, PTL
        DEF MCSpec, NothingLost, Memory!NothingLost
=============================================================================
