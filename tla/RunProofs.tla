----------------------------- MODULE RunProofs ------------------------------
(* What a whole run promises, for any number of sites, lists and turns at   *)
(* once and any size of the guide: TypeOK, WindsDown and AnswerTellsAll; and   *)
(* the parts of what one site of it goes by, as MCRun has them beside Build:   *)
(* its pacing, for every concurrency and length of a hold; what it asks again  *)
(* of its source, for every window, policy and document; and its clock, whose  *)
(* proof is that of SiteClockProofs.                                           *)
EXTENDS MCRun, WellFoundedInduction, TLAPS

Timed == INSTANCE SiteClockProofs WITH turn <- onTurn

-----------------------------------------------------------------------------
(* The run.                                                                *)

Early == {"settling", "choosing", "grabbing", "counting"}
Merging == {"opening", "writing", "closing", "discarding"}
Late == {"releasing", "settled", "over"}

\* A site's turn and what was said of it go together, and a turn is under way
\* only while the grab waits for it.
TurnInv ==
  /\ \A s \in Sites : /\ said[s] = IF turn[s] \in {"over", "unrun"} THEN 1 ELSE 0
                      /\ turn[s] \in {"queued", "running", "saving"} => stage = "grabbing"
                      /\ turn[s] = "dropped" => aborted
  /\ stage \in {"settling", "choosing"} => \A s \in Sites : turn[s] = "none"
  /\ stage \in {"grabbing", "counting"} => \A s \in Sites : turn[s] # "none"

\* Lists are all done with once the run goes by them, or one of them threw.
ListInv ==
  stage # "settling" => Threw # {} \/ \A s \in Sites : list[s].st = "done"

\* The run's end is said once every turn is over, and the run rejects of its own
\* only on its way out.
EndInv ==
  /\ stage \in Early => ended = "none"
  /\ stage \notin Late => failure = "none"
  /\ stage \notin Early \cup Late => ended # "none"
  /\ failure = "none" /\ stage \in Late => ended # "none"
  /\ ended # "none" => \A s \in Sites : turn[s] \in {"over", "unrun", "dropped"}
  /\ ended = "grab:done" => \A s \in Sites : turn[s] # "dropped"
  /\ ended = "run:cancelled" => aborted
  /\ failure = "reporter" => threw

\* A guide is merged of an uncancelled grab, and renamed once it is whole.
GuideInv ==
  /\ stage \in Merging \/ guide = "new" => command = "build" /\ ended = "grab:done"
  /\ stage = "closing" \/ guide = "new" => pieces = Pieces
  /\ guide = "new" => stage \in Late
  /\ temp = "there" => stage \in {"writing", "closing", "discarding"} \/ disk = "refused"
  /\ failure = "none" /\ stage \in Late /\ ~aborted /\ command = "build" => guide = "new"

\* What the run holds, and its answer.
HoldInv ==
  /\ stage \notin Early => \A s \in Sites : session[s] # "open"
  /\ cache = "closed" => stage \in {"settled", "over"}
  /\ answer # "none" => stage = "over" /\ answer = Outcome

RunInv == TypeOK /\ TurnInv /\ ListInv /\ EndInv /\ GuideInv /\ HoldInv

LEMMA RunInit == Init => RunInv
<1> SUFFICES ASSUME Init PROVE RunInv
  OBVIOUS
<1>1. /\ stage \in {"settling", "grabbing"} /\ failure = "none" /\ ended = "none"
      /\ answer = "none" /\ cache = "open" /\ guide = "old" /\ temp = "none" /\ threw = FALSE
      /\ disk = "fine"
      /\ stage = "settling" => turn = [s \in Sites |-> "none"]
      /\ stage = "grabbing" => turn = [s \in Sites |-> "queued"]
  BY DEF Init, Settles
<1>2. /\ list \in [Sites -> Lists] /\ session \in [Sites -> {"none", "open", "gone"}]
      /\ stage = "grabbing" => \A s \in Sites : list[s].st = "done"
  BY DEF Init, Settles, Lists
<1>3. turn \in [Sites -> Turns] /\ said = [s \in Sites |-> 0]
  BY <1>1 DEF Init, Turns
<1>4. TypeOK
  <2>1. command \in {"build", "grab", "plain"} /\ pieces = 0
    BY DEF Init
  <2>2. pieces \in 0..Pieces
    BY <2>1, BuildAssumption
  <2>3. threads \in BOOLEAN /\ aborted \in BOOLEAN /\ threw \in BOOLEAN
    BY DEF Init
  <2>4. said \in [Sites -> 0..1] /\ stage \in Stages
    BY <1>1, <1>3 DEF Stages
  <2> QED BY <1>1, <1>2, <1>3, <2>1, <2>2, <2>3, <2>4 DEF TypeOK
<1>5. TurnInv /\ ListInv
  BY <1>1, <1>2, <1>3 DEF TurnInv, ListInv
<1>6. EndInv /\ GuideInv /\ HoldInv
  BY <1>1 DEF EndInv, GuideInv, HoldInv, Early, Merging, Late
<1> QED BY <1>4, <1>5, <1>6 DEF RunInv

(* What a reporter throws is kept, and none hears of anything once a run is *)
(* over.                                                                   *)
LEMMA ThrewIsKept ==
  ASSUME threw \in BOOLEAN, Says \/ UNCHANGED threw
  PROVE  threw' \in BOOLEAN /\ (stage = "over" => threw' = threw) /\ (threw => threw')
BY DEF Says

(* A step of a list moves it on, and none that threw is taken back.        *)
ListStep(s) == ListBegins(s) \/ ListAnswered(s) \/ ListSaved(s)

LEMMA ListKeeps ==
  ASSUME RunInv, NEW s \in Sites, ListStep(s)
  PROVE  RunInv'
<1>1. /\ list' \in [Sites -> Lists] /\ list[s].st # "done"
      /\ \A t \in Sites \ {s} : list'[t] = list[t]
  BY DEF ListStep, ListBegins, ListAnswered, ListSaved, Came, Failing, RunInv, TypeOK, Lists
<1>2. /\ UNCHANGED <<guide, temp, pieces, disk, cache, answer, command, threads, aborted, turn, said,
                     ended, stage, session, failure>>
      /\ Says \/ UNCHANGED threw
  BY DEF ListStep, ListBegins, ListAnswered, ListSaved, Held, output, Grab, run
<1> threw' \in BOOLEAN /\ (stage = "over" => threw' = threw) /\ (threw => threw')
  BY <1>2, ThrewIsKept DEF RunInv, TypeOK
<1>3. TypeOK'
  BY <1>1, <1>2 DEF RunInv, TypeOK
<1>4. ListInv'
  <2>1. Threw \subseteq Threw'
    BY <1>1 DEF Threw
  <2> QED BY <1>1, <1>2, <2>1 DEF RunInv, ListInv
<1>5. TurnInv' /\ EndInv' /\ GuideInv'
  BY <1>2 DEF RunInv, TurnInv, EndInv, GuideInv
<1>6. HoldInv'
  BY <1>2 DEF RunInv, HoldInv, Outcome
<1> QED BY <1>3, <1>4, <1>5, <1>6 DEF RunInv

(* A step of a site's turn, while the grab waits for it.                   *)
TurnStep(s) ==
  TurnBegins(s) \/ NotRun(s) \/ Dropped(s) \/ WorkEnds(s) \/ TurnEnds(s) \/ Fault(s)

LEMMA TurnKeeps ==
  ASSUME RunInv, NEW s \in Sites, TurnStep(s)
  PROVE  RunInv'
<1>1. /\ turn[s] \in {"queued", "running", "saving"} /\ stage = "grabbing"
      /\ UNCHANGED <<guide, temp, pieces, disk, cache, answer, command, threads, aborted, stage, list,
                     ended, failure>>
      /\ threw' \in BOOLEAN
  BY DEF TurnStep, TurnBegins, NotRun, Dropped, WorkEnds, TurnEnds, Fault, SayDone, Says,
         Held, output, run, RunInv, TypeOK, TurnInv
<1>2. /\ \E to \in Turns \ {"none", "queued"} :
           /\ turn' = [turn EXCEPT ![s] = to]
           /\ to = "dropped" => aborted
           /\ said' = IF to \in {"over", "unrun"} THEN [said EXCEPT ![s] = @ + 1] ELSE said
      /\ session' \in [Sites -> {"none", "open", "gone"}]
  BY <1>1 DEF TurnStep, TurnBegins, NotRun, Dropped, WorkEnds, TurnEnds, Fault, SayDone, Turned,
              Turns, RunInv, TypeOK
<1>3. said \in [Sites -> 0..1] /\ turn \in [Sites -> Turns] /\ said[s] = 0
  BY <1>1 DEF RunInv, TypeOK, TurnInv
<1>4. said' \in [Sites -> 0..1] /\ turn' \in [Sites -> Turns]
  BY <1>2, <1>3
<1>5. TypeOK'
  BY <1>1, <1>2, <1>4 DEF RunInv, TypeOK
<1>6. TurnInv'
  BY <1>1, <1>2, <1>3 DEF RunInv, TurnInv, Turns
<1>7. ListInv' /\ EndInv' /\ GuideInv' /\ HoldInv'
  BY <1>1 DEF RunInv, ListInv, Threw, EndInv, GuideInv, HoldInv, Early, Merging, Late
<1> QED BY <1>5, <1>6, <1>7 DEF RunInv

(* Sites that have no list have had their turn as the grab begins.         *)
LEMMA ChooseKeeps == RunInv /\ Choose => RunInv'
<1> SUFFICES ASSUME RunInv, Choose PROVE RunInv'
  OBVIOUS
<1>1. /\ stage = "choosing" /\ threw' \in BOOLEAN
      /\ UNCHANGED <<guide, temp, pieces, disk, cache, answer, command, threads, aborted, list>>
  BY DEF Choose, Says, Held, output, run, RunInv, TypeOK
<1>2. CASE LetGo /\ Fails /\ UNCHANGED Grab
  <2>1. session' \in [Sites -> {"none", "gone"}]
    BY <1>2 DEF LetGo, RunInv, TypeOK
  <2> QED BY <1>1, <1>2, <2>1 DEF Fails, Goto, Grab, RunInv, TypeOK, TurnInv, ListInv, Threw,
             EndInv, GuideInv, HoldInv, Stages, Early, Merging, Late
<1>3. CASE /\ Goto("grabbing")
           /\ turn' = [s \in Sites |-> IF s \in Settling THEN "queued" ELSE "unrun"]
           /\ said' = [s \in Sites |-> IF s \in Left THEN said[s] + 1 ELSE said[s]]
           /\ UNCHANGED <<ended, session, failure>>
  <2>1. \A s \in Sites : said[s] = 0
    BY <1>1 DEF RunInv, TurnInv, TypeOK
  <2>2. /\ said' = [s \in Sites |-> IF s \in Left THEN 1 ELSE 0]
        /\ turn' = [s \in Sites |-> IF s \in Left THEN "unrun" ELSE "queued"]
    BY <1>3, <2>1 DEF Settling
  <2>3. TypeOK'
    BY <1>1, <1>3, <2>2 DEF Goto, RunInv, TypeOK, Stages, Turns
  <2>4. TurnInv'
    BY <1>1, <1>3, <2>2 DEF Goto, TurnInv
  <2>5. ListInv' /\ EndInv' /\ GuideInv' /\ HoldInv'
    BY <1>1, <1>3 DEF Goto, RunInv, ListInv, Threw, EndInv, GuideInv, HoldInv, Early, Merging, Late
  <2> QED BY <2>3, <2>4, <2>5 DEF RunInv
<1> QED BY <1>2, <1>3 DEF Choose

(* The end of the grab is said with every turn over.                       *)
LEMMA GrabSaidKeeps == RunInv /\ GrabSaid => RunInv'
<1> SUFFICES ASSUME RunInv, GrabSaid PROVE RunInv'
  OBVIOUS
<1>1. /\ stage = "counting" /\ threw' \in BOOLEAN /\ (threw => threw')
      /\ UNCHANGED <<guide, temp, pieces, disk, cache, answer, command, threads, aborted, list, turn,
                     said>>
  BY DEF GrabSaid, Says, Held, output, run, RunInv, TypeOK
<1>2. session' \in [Sites -> {"none", "gone"}]
  BY DEF GrabSaid, LetGo, RunInv, TypeOK
<1>3. \/ Faults # {} /\ failure' = "own" /\ stage' = "releasing" /\ ended' = ended
      \/ /\ Faults = {} /\ stage' = "grabbed" /\ failure' = failure
         /\ ended' = IF aborted THEN "run:cancelled" ELSE "grab:done"
  BY DEF GrabSaid, Fails, Goto
<1>4. TypeOK'
  BY <1>1, <1>2, <1>3 DEF RunInv, TypeOK, Stages
<1>5. TurnInv' /\ ListInv'
  BY <1>1, <1>3 DEF RunInv, TurnInv, ListInv, Threw
<1>6. EndInv'
  BY <1>1, <1>3 DEF RunInv, TypeOK, TurnInv, EndInv, Faults, Turns, Early, Late
<1>7. GuideInv' /\ HoldInv'
  BY <1>1, <1>2, <1>3 DEF RunInv, TypeOK, EndInv, GuideInv, HoldInv, Early, Merging, Late
<1> QED BY <1>4, <1>5, <1>6, <1>7 DEF RunInv

(* The other steps of the run itself leave lists, turns and what was said   *)
(* of them alone.                                                          *)
LEMMA StageKeeps ==
  ASSUME RunInv,
         Settled \/ SettleFails \/ GrabOver \/ StartPrune \/ Prune \/ Decide
         \/ Opens \/ WritesPiece \/ Cut \/ Flushed \/ CloseFile \/ Release \/ Answer \/ Abort
  PROVE  RunInv'
<1> USE DEF Goto, Fails, Says, Held, output, Grab, run
<1>1. UNCHANGED <<command, threads, list, turn, said, ended>>
  <2>1. CASE Settled \/ SettleFails \/ GrabOver \/ StartPrune \/ Prune \/ Decide \/ Cut \/ Flushed
    BY <2>1 DEF Settled, SettleFails, GrabOver, StartPrune, Prune, Decide, Cut, Flushed
  <2>2. CASE Opens \/ WritesPiece \/ CloseFile \/ Release \/ Answer \/ Abort
    BY <2>2 DEF Opens, WritesPiece, CloseFile, Release, Answer, Abort
  <2> QED BY <2>1, <2>2
<1>2. CASE Settled
  BY <1>2 DEF Settled, RunInv, TypeOK, TurnInv, ListInv, Threw, EndInv, GuideInv, HoldInv, Stages,
              Early, Merging, Late
<1>3. CASE SettleFails
  <2>1. session' \in [Sites -> {"none", "gone"}]
    BY <1>3 DEF SettleFails, LetGo, RunInv, TypeOK
  <2> QED BY <1>3, <2>1 DEF SettleFails, RunInv, TypeOK, TurnInv, ListInv, Threw, EndInv, GuideInv,
             HoldInv, Stages, Early, Merging, Late
<1>4. CASE GrabOver
  BY <1>4 DEF GrabOver, TurnsOver, RunInv, TypeOK, TurnInv, ListInv, Threw, EndInv, GuideInv, HoldInv,
              Stages, Early, Merging, Late
<1>5. CASE StartPrune \/ Prune
  <2>1. /\ stage \in {"grabbed", "pruning"} /\ threw' \in BOOLEAN /\ (threw => threw')
        /\ \/ stage' \in {"deciding", "pruning"} /\ failure' = failure
           \/ stage' = "releasing" /\ failure' = "own"
        /\ UNCHANGED <<guide, temp, pieces, disk, cache, answer, aborted, session>>
    BY <1>5 DEF StartPrune, Prune, RunInv, TypeOK
  <2>2. TypeOK' /\ TurnInv' /\ ListInv'
    BY <1>1, <2>1 DEF RunInv, TypeOK, TurnInv, ListInv, Threw, Stages
  <2>3. EndInv' /\ GuideInv' /\ HoldInv'
    BY <1>1, <2>1 DEF RunInv, EndInv, GuideInv, HoldInv, Early, Merging, Late
  <2> QED BY <2>2, <2>3 DEF RunInv
<1>6. CASE Decide
  BY <1>6 DEF Decide, RunInv, TypeOK, TurnInv, ListInv, Threw, EndInv, GuideInv, HoldInv,
              Stages, Early, Merging, Late
<1>7. CASE Opens \/ WritesPiece \/ Cut \/ Flushed
  <2>1. /\ stage \in {"opening", "writing"} /\ guide' = guide
        /\ stage' \in {"writing", "discarding", "closing", "releasing"}
        /\ stage' = "releasing" => stage = "opening" /\ temp' = temp /\ failure' = "own"
        /\ stage' # "releasing" => failure' = failure
        /\ stage' = "closing" => pieces = Pieces
        /\ UNCHANGED <<aborted, session, cache, answer, disk>>
    BY <1>7 DEF Opens, WritesPiece, Cut, Flushed
  <2>2. threw' \in BOOLEAN /\ (threw => threw')
    <3>1. Says \/ UNCHANGED threw
      BY <1>7 DEF Opens, WritesPiece, Cut, Flushed
    <3> QED BY <3>1, ThrewIsKept DEF RunInv, TypeOK
  <2> /\ temp' = temp \/ (temp' = "there" /\ stage' = "writing")
      /\ temp \in {"none", "there"}
    BY <1>7 DEF Opens, WritesPiece, Cut, Flushed, RunInv, TypeOK
  <2>3. /\ pieces' \in 0..Pieces
        /\ (stage = "writing" /\ stage' = "writing") \/ pieces' = pieces
    <3>1. pieces \in 0..Pieces /\ Pieces \in Nat
      BY BuildAssumption DEF RunInv, TypeOK
    <3>2. CASE WritesPiece
      <4>1. stage = "writing" /\ stage' = "writing" /\ pieces < Pieces /\ pieces' = pieces + 1
        BY <3>2 DEF WritesPiece
      <4> QED BY <3>1, <4>1
    <3>3. CASE Opens \/ Cut \/ Flushed
      <4>1. pieces' = pieces
        BY <3>3 DEF Opens, Cut, Flushed
      <4> QED BY <3>1, <4>1
    <3> QED BY <1>7, <3>2, <3>3
  <2>4. TypeOK'
    BY <1>1, <2>1, <2>2, <2>3 DEF RunInv, TypeOK, Stages
  <2>5. TurnInv' /\ ListInv' /\ EndInv'
    BY <1>1, <2>1, <2>2 DEF RunInv, TurnInv, ListInv, Threw, EndInv, Early, Late
  <2>6. GuideInv'
    BY <1>1, <2>1, <2>2, <2>3 DEF RunInv, TypeOK, EndInv, GuideInv, Early, Merging, Late
  <2>7. HoldInv'
    BY <1>1, <2>1 DEF RunInv, TypeOK, HoldInv, Early
  <2> QED BY <2>4, <2>5, <2>6, <2>7 DEF RunInv
<1>8. CASE CloseFile
  <2>1. /\ stage \in {"closing", "discarding"} /\ stage' = "releasing"
        /\ UNCHANGED <<aborted, threw, session, cache, answer, pieces>>
        /\ \/ temp' = "none" /\ disk' = disk
           \/ temp' = temp /\ disk' = "refused"
        /\ \/ stage = "closing" /\ guide' = "new" /\ (failure' = failure \/ failure' = "own")
           \/ guide' = guide /\ failure' = "own"
    BY <1>8 DEF CloseFile, WritableFinished, Renamed, Discarded
  <2>2. TypeOK'
    BY <1>1, <2>1 DEF RunInv, TypeOK, Stages
  <2>3. TurnInv' /\ ListInv'
    BY <1>1, <2>1 DEF RunInv, TurnInv, ListInv, Threw
  <2>4. EndInv'
    BY <1>1, <2>1 DEF RunInv, EndInv, Early, Late
  <2>5. GuideInv'
    BY <1>1, <2>1 DEF RunInv, TypeOK, EndInv, GuideInv, Early, Merging, Late
  <2>6. HoldInv'
    BY <1>1, <2>1 DEF RunInv, HoldInv, Early
  <2> QED BY <2>2, <2>3, <2>4, <2>5, <2>6 DEF RunInv
<1>9. CASE Release \/ Answer
  BY <1>9 DEF Release, Answer, Outcome, RunInv, TypeOK, TurnInv, ListInv, Threw, EndInv, GuideInv,
              HoldInv, Stages, Early, Merging, Late
<1>10. CASE Abort
  BY <1>10 DEF Abort, Outcome, RunInv, TypeOK, TurnInv, ListInv, Threw, EndInv, GuideInv, HoldInv
<1> QED BY <1>2, <1>3, <1>4, <1>5, <1>6, <1>7, <1>8, <1>9, <1>10

LEMMA RunNext == RunInv /\ [Next]_vars => RunInv'
<1> SUFFICES ASSUME RunInv, [Next]_vars PROVE RunInv'
  OBVIOUS
<1>1. CASE UNCHANGED vars
  BY <1>1 DEF vars, output, run, RunInv, TypeOK, TurnInv, ListInv, Threw, EndInv, GuideInv, HoldInv, Outcome
<1>2. CASE Next
  <2>1. CASE AllOver
    BY <1>1, <2>1 DEF AllOver
  <2> QED BY <1>2, <2>1, ListKeeps, TurnKeeps, ChooseKeeps, GrabSaidKeeps, StageKeeps
          DEF Next, ListStep, TurnStep
<1> QED BY <1>1, <1>2

LEMMA RunInvariant == Spec => []RunInv
BY RunInit, RunNext, PTL DEF Spec

(* Every variable of a run keeps its type, and no site is said twice.      *)
THEOREM RunTyped == Spec => []TypeOK
<1>1. RunInv => TypeOK
  BY DEF RunInv
<1> QED BY <1>1, RunInvariant, PTL

(* A run that answers has wound down: no turn is left with a closed cache,  *)
(* no timer, and no half of a guide.                                       *)
THEOREM RunWindsDown == Spec => []WindsDown
<1>1. RunInv => WindsDown
  <2> SUFFICES ASSUME RunInv PROVE WindsDown
    OBVIOUS
  <2>1. cache = "closed" => Running = {} /\ stage \in {"settled", "over"}
    BY DEF RunInv, HoldInv, TurnInv, Running
  <2>2. cache = "closed" => (Asked # {} => Threw # {})
    BY DEF RunInv, HoldInv, ListInv, Asked
  <2>3. answer # "none" => /\ \A s \in Sites : session[s] # "open"
                           /\ temp = "there" => disk = "refused"
    BY DEF RunInv, HoldInv, GuideInv, Early
  <2> QED BY <2>1, <2>2, <2>3 DEF WindsDown
<1> QED BY <1>1, RunInvariant, PTL

(* The answer of a run tells all that happened to it, and the guide it puts *)
(* in place is a whole one, of a grab that said every site.                *)
THEOREM RunTellsAll == Spec => []AnswerTellsAll
<1>1. RunInv => AnswerTellsAll
  <2> SUFFICES ASSUME RunInv PROVE AnswerTellsAll
    OBVIOUS
  <2>1. ended # "none" =>
          /\ \A s \in Sites : \/ turn[s] \in {"over", "unrun"} /\ said[s] = 1
                              \/ turn[s] = "dropped" /\ said[s] = 0
          /\ ended = "grab:done" => \A s \in Sites : said[s] = 1
    BY DEF RunInv, EndInv, TurnInv
  <2>2. answer # "none" => (threw <=> answer \in {"reporter", "both"})
    BY DEF RunInv, TypeOK, HoldInv, EndInv, Outcome
  <2>3. answer = "summary" => ended # "none" /\ stage = "over" /\ failure = "none"
    BY DEF RunInv, HoldInv, EndInv, Outcome, Late
  <2>4. answer = "summary" /\ ~aborted =>
          ended = "grab:done" /\ (command = "build" => guide = "new")
    BY <2>3 DEF RunInv, TypeOK, EndInv, GuideInv, Late
  <2>5. GuideIsWhole
    BY <2>1 DEF RunInv, GuideInv, GuideIsWhole
  <2> QED BY <2>1, <2>2, <2>3, <2>4, <2>5 DEF AnswerTellsAll
<1> QED BY <1>1, RunInvariant, PTL

-----------------------------------------------------------------------------
(* The pacing.                                                             *)
PacingTyped ==
  /\ moment \in Nat \ {0} /\ inflight \in Nat
  /\ concurrency \in 1 .. Ceiling /\ floor \in 1 .. Ceiling
  /\ holdingUntil \in Nat /\ promised \in Nat
  /\ timer = NoTimer \/ timer \in Nat

\* Until the run is cancelled a hold has a timer for as long as the queue is
\* paused, due when the hold ends and not before the last promise does.
Paused == ~cut => (paused <=> timer # NoTimer)
Due == ~cut /\ timer # NoTimer => timer = holdingUntil /\ promised <= timer
Kept == ~cut /\ timer = NoTimer => promised <= moment
\* A timer that is left behind keeps nothing alive, what is cancelled is dropped,
\* and the concurrency is halved as a hold begins and not after.
LeftBehind == disposed /\ timer # NoTimer => unref
CutDrops == cut => which = "pacing" /\ waiting = 0
Halves == Pacing!Holding => concurrency >= floor

PacingInv ==
  PacingTyped /\ Paused /\ Due /\ Kept /\ LeftBehind /\ CutDrops /\ Halves

LEMMA PacingInit == MCInit => PacingInv
BY PartsAssumption
   DEF MCInit, Pacing!Init, Pacing!PacingAssumption, PacingInv, PacingTyped, Paused, Due, Kept,
       LeftBehind, CutDrops, Halves, Pacing!Holding

\* A slow-down puts the end of the hold off, or leaves it where it is.
LEMMA SlowDownKeeps ==
  ASSUME PacingInv, NEW ms \in 0 .. MaxMs, Pacing!SlowDown(ms), UNCHANGED which
  PROVE  PacingInv'
<1> DEFINE until == moment + ms
<1>1. /\ inflight > 0 /\ inflight' = inflight - 1
      /\ concurrency' = IF Pacing!Slows THEN Pacing!Halved ELSE concurrency
      /\ floor' = IF Pacing!Holding THEN floor ELSE concurrency'
      /\ Pacing!HoldUntil(until)
      /\ UNCHANGED <<moment, asked, waiting, disposed, cut>>
  BY DEF Pacing!SlowDown
<1>2. ms \in Nat /\ until \in Nat /\ until >= moment /\ until # NoTimer
  BY PartsAssumption DEF PacingInv, PacingTyped, Pacing!PacingAssumption
<1>3. Pacing!Slows => ~Pacing!Holding
  BY DEF Pacing!Slows
<1>4. Pacing!Halved \in 1 .. Ceiling
  BY PartsAssumption DEF PacingInv, PacingTyped, Pacing!PacingAssumption, Pacing!Halved
<1>5. concurrency' \in 1 .. Ceiling /\ floor' \in 1 .. Ceiling /\ inflight' \in Nat
  BY <1>1, <1>4 DEF PacingInv, PacingTyped
<1>6. Halves'
  <2>1. CASE Pacing!Holding
    <3>1. concurrency' = concurrency /\ floor' = floor
      BY <1>1, <1>3, <2>1
    <3> QED BY <2>1, <3>1 DEF PacingInv, Halves
  <2>2. CASE ~Pacing!Holding
    <3>1. floor' = concurrency'
      BY <1>1, <2>2
    <3> QED BY <1>5, <3>1 DEF Halves
  <2> QED BY <2>1, <2>2
<1>7. CASE Pacing!Covered(until)
  <2>1. UNCHANGED <<paused, holdingUntil, timer, unref, promised>>
    BY <1>1, <1>7 DEF Pacing!HoldUntil, Pacing!hold
  <2> QED BY <1>1, <1>5, <1>6, <2>1
          DEF PacingInv, PacingTyped, Paused, Due, Kept, LeftBehind, CutDrops
<1>8. CASE ~Pacing!Covered(until)
  <2>1. /\ holdingUntil' = until /\ paused' = TRUE /\ timer' = until /\ unref' = disposed
        /\ promised' = IF until > promised THEN until ELSE promised
    BY <1>1, <1>8 DEF Pacing!HoldUntil, Pacing!SetTimer
  <2>2. until > holdingUntil
    BY <1>2, <1>8 DEF Pacing!Covered, PacingInv, PacingTyped
  <2>3. ~cut => promised <= until
    BY <1>2, <2>2 DEF PacingInv, PacingTyped, Due, Kept
  <2>4. promised' \in Nat /\ (~cut => promised' <= until)
    BY <1>2, <2>1, <2>3 DEF PacingInv, PacingTyped
  <2> QED BY <1>1, <1>2, <1>5, <1>6, <2>1, <2>4
          DEF PacingInv, PacingTyped, Paused, Due, Kept, LeftBehind, CutDrops
<1> QED BY <1>7, <1>8

LEMMA PacingNext == PacingInv /\ [MCNext]_all => PacingInv'
<1> SUFFICES ASSUME PacingInv, [MCNext]_all PROVE PacingInv'
  OBVIOUS
<1> USE DEF PacingInv, PacingTyped, Paused, Due, Kept, LeftBehind, CutDrops, Halves, Pacing!Holding
<1>1. CASE UNCHANGED ofPacing /\ UNCHANGED which /\ (which = "pacing" => UNCHANGED waiting)
  BY <1>1 DEF ofPacing
<1>2. CASE which = "pacing" /\ Pacing!Next /\ UNCHANGED which
  <2>1. CASE Pacing!Ask \/ Pacing!Send \/ Pacing!Fail
    BY <1>2, <2>1 DEF Pacing!Ask, Pacing!Send, Pacing!Fail, Pacing!hold
  <2>2. CASE \E ms \in 0 .. MaxMs : Pacing!SlowDown(ms)
    BY <1>2, <2>2, SlowDownKeeps
  <2>3. CASE Pacing!Succeed
    <3>1. /\ inflight > 0 /\ inflight' = inflight - 1
          /\ UNCHANGED <<moment, waiting, paused, holdingUntil, timer, unref, promised,
                         disposed, cut, floor>>
      BY <2>3 DEF Pacing!Succeed, Pacing!hold
    <3>2. \/ UNCHANGED concurrency
          \/ concurrency < Ceiling /\ concurrency' = concurrency + 1
      BY <2>3 DEF Pacing!Succeed, Pacing!LostSome
    <3>3. inflight' \in Nat /\ concurrency' \in 1 .. Ceiling /\ concurrency' >= concurrency
      BY <3>1, <3>2, PartsAssumption DEF Pacing!PacingAssumption
    <3>4. Halves'
      BY <3>1, <3>3
    <3> QED BY <1>2, <3>1, <3>3, <3>4
  <2>4. CASE Pacing!Release
    BY <1>2, <2>4 DEF Pacing!Release
  <2>5. CASE Pacing!Tick
    BY <1>2, <2>5 DEF Pacing!Tick, Pacing!hold
  <2>6. CASE Pacing!Cancel
    BY <1>2, <2>6 DEF Pacing!Cancel
  <2>7. CASE Pacing!Dispose
    BY <1>2, <2>7 DEF Pacing!Dispose
  <2> QED BY <1>2, <2>1, <2>2, <2>3, <2>4, <2>5, <2>6, <2>7 DEF Pacing!Next
<1> QED BY <1>1, <1>2 DEF MCNext, all

\* A queue that is paused has a timer that will start it again, whatever slow-
\* downs were told, a timer left behind keeps no process alive, and one violation
\* halves the concurrency once (sitePacing's hold, slowDown and dispose).
THEOREM PacingHoldsFit == MCSpec => []HoldFits
<1>1. PacingInv => HoldFits
  BY DEF PacingInv, Paused, LeftBehind, Halves, HoldFits, Pacing!HoldFits
<1> QED BY <1>1, PacingInit, PacingNext, PTL DEF MCSpec

\* While a wait a source has asked for stands nothing more is sent to it, however
\* the holds overlap, and nothing is after a cancel (sitePacing).
THEOREM PacingSendsInTurn == MCSpec => SentInTurn
<1>1. PacingInv /\ [MCNext]_all => [Pacing!SendsInTurn]_all
  <2> SUFFICES ASSUME PacingInv, MCNext PROVE Pacing!SendsInTurn
    BY DEF all
  <2> USE DEF PacingInv, PacingTyped, Pacing!SendsInTurn
  <2>1. CASE UNCHANGED inflight
    BY <2>1
  <2>2. CASE Pacing!Send
    <3>1. ~paused /\ waiting > 0 /\ UNCHANGED cut
      BY <2>2 DEF Pacing!Send
    <3>2. ~cut
      BY <3>1 DEF CutDrops
    <3>3. timer = NoTimer
      BY <3>1, <3>2 DEF Paused
    <3>4. moment >= promised
      BY <3>2, <3>3 DEF Kept
    <3> QED BY <3>1, <3>2, <3>4
  <2>3. CASE inflight' = inflight - 1
    BY <2>3
  <2>4. Pacing!Next => UNCHANGED inflight \/ Pacing!Send \/ inflight' = inflight - 1
    BY DEF Pacing!Next, Pacing!Ask, Pacing!SlowDown, Pacing!Succeed, Pacing!Fail, Pacing!Release,
           Pacing!Tick, Pacing!Cancel, Pacing!Dispose
  <2> QED BY <2>1, <2>2, <2>3, <2>4 DEF MCNext, ofPacing, all
<1> QED BY <1>1, PacingInit, PacingNext, PTL DEF MCSpec, SentInTurn

-----------------------------------------------------------------------------
(* Asking again.                                                           *)
Runs ==
  [at : {"asking", "kept", "reading", "writing", "settled"}, now : Nat, first : Int,
   refresh : BOOLEAN, left : SUBSET Again!Days, days : SUBSET Again!Days,
   mayKeep : BOOLEAN, touched : BOOLEAN]
UnderWay == asking \in Runs

AgainTyped ==
  /\ now \in Nat /\ version \in Nat /\ modified \in Nat
  /\ entries \in [Again!Days -> SUBSET [grabbedAt : Nat, holds : Nat]]
  /\ \A given \in validator : given.stamp \in Nat
  /\ asking = Again!noRun \/ UnderWay
  /\ outcome \in [at : Nat, window : SUBSET Again!Days, failed : BOOLEAN,
                  kept : SUBSET Again!Days, said : [Again!Days -> Nat]]
  /\ says \in [Again!Days -> Nat]
  /\ seen \in [last : Nat, whole : SUBSET Nat]

\* The days a run still has to do.
Pending ==
  IF asking = Again!noRun THEN {}
  ELSE asking.left \cup (IF asking.at \in {"asking", "reading", "writing"} THEN asking.days ELSE {})
Served(day) ==
  \E entry \in entries[day] :
    entry.holds = outcome.said[day] \/ ~Again!Aged(entry, outcome.at)

\* What a run did is bounded for each day it is done with, and it is done only
\* with the days of its window; what it may keep is cached, and not too old.
DoneServes == ~outcome.failed => \A day \in outcome.window \ Pending : Served(day)
OfWindow ==
  UnderWay =>
    /\ outcome.at = asking.now /\ asking.now <= now
    /\ asking.left \cup asking.days \subseteq outcome.window
    /\ \A day \in outcome.window : asking.first <= day
MayKeep ==
  UnderWay /\ asking.at = "asking" /\ asking.mayKeep =>
    \A day \in asking.days : \E entry \in entries[day] : ~Again!Aged(entry, asking.now)

\* What is stored about the url stands for a document that was read to its end,
\* if it stands for the one there is; and so does an entry as new as that.
Stamp == IF Dated THEN modified ELSE version
Whole == version \in seen.whole
BeingRead == UnderWay /\ asking.at = "reading" /\ asking.touched /\ seen.last = version
Published ==
  /\ modified <= now
  /\ \A given \in validator : given.stamp <= Stamp
Stands == \A given \in validator : given.stamp = Stamp => Whole \/ BeingRead
EntriesStand ==
  \A day \in Again!Days : \A entry \in entries[day] :
    entry.grabbedAt <= now /\ (entry.grabbedAt >= modified => Whole)
ReadsLast ==
  UnderWay /\ asking.at \in {"reading", "writing"} /\ asking.now >= modified => seen.last = version
WasRead == UnderWay /\ asking.at \in {"writing", "kept"} => seen.last \in seen.whole
Untouched == UnderWay /\ asking.at = "reading" /\ ~asking.touched => validator = {}

AgainInv ==
  /\ AgainTyped /\ DoneServes /\ OfWindow /\ MayKeep
  /\ Published /\ Stands /\ EntriesStand /\ ReadsLast /\ WasRead /\ Untouched

LEMMA AgainInit == MCInit => AgainInv
<1> SUFFICES ASSUME MCInit PROVE AgainInv
  OBVIOUS
<1>1. /\ now = 0 /\ version = 0 /\ modified = 0 /\ says = [day \in Again!Days |-> 0]
      /\ entries = [day \in Again!Days |-> {}] /\ validator = {} /\ asking = Again!noRun
      /\ outcome = [at |-> 0, window |-> {}, failed |-> FALSE, kept |-> {}, said |-> says]
      /\ seen = [last |-> 0, whole |-> {}]
  BY DEF MCInit, Again!Init
<1>2. ~UnderWay
  BY <1>1 DEF UnderWay, Runs, Again!noRun
<1> QED BY <1>1, <1>2
        DEF AgainInv, AgainTyped, DoneServes, OfWindow, MayKeep, Published, Stands, EntriesStand,
            ReadsLast, WasRead, Untouched

\* The shape of a run's next request, of what it has left.
AsksOf(asks, left, first, at) ==
  /\ asks \in Runs /\ asks.at = "asking" /\ asks.now = at /\ asks.first = first
  /\ asks.left \cup asks.days = left
  /\ asks.mayKeep => \A day \in asks.days : \E entry \in entries[day] : ~Again!Aged(entry, at)

LEMMA AskingType ==
  ASSUME NEW left \in SUBSET Again!Days, NEW first \in Int, NEW at \in Nat,
         NEW refresh \in BOOLEAN
  PROVE  AsksOf(Again!Asking(left, first, at, refresh), left, first, at)
<1> DEFINE asks == Again!Asking(left, first, at, refresh)
           group == (Again!Min(left) - first) \div PerRequest
           days == {day \in left : (day - first) \div PerRequest = group}
<1>1. asks = [at |-> "asking", now |-> at, first |-> first, refresh |-> refresh,
              left |-> left \ days, days |-> days, mayKeep |-> Again!mayKeep(days, at, refresh),
              touched |-> FALSE]
  BY DEF Again!Asking
<1>2. Again!mayKeep(days, at, refresh) \in BOOLEAN
  BY DEF Again!mayKeep
<1>3. days \subseteq left
  OBVIOUS
<1> HIDE DEF days
<1>4. asks \in Runs
  BY <1>1, <1>2, <1>3 DEF Runs
<1>5. Again!mayKeep(days, at, refresh) =>
        \A day \in days : \E entry \in entries[day] : ~Again!Aged(entry, at)
  <2> SUFFICES ASSUME Again!mayKeep(days, at, refresh), NEW day \in days
               PROVE  \E entry \in entries[day] : ~Again!Aged(entry, at)
    OBVIOUS
  <2>1. entries[day] # {} /\ ~Again!Aged(Again!The(entries[day]), at)
    BY DEF Again!mayKeep
  <2>2. Again!The(entries[day]) \in entries[day]
    BY <2>1 DEF Again!The
  <2> QED BY <2>1, <2>2
<1> QED BY <1>1, <1>3, <1>4, <1>5 DEF AsksOf

\* What a document published since cannot yet have been answered with.
LEMMA PublishKeeps == AgainInv /\ Again!Publish => AgainInv'
<1> SUFFICES ASSUME AgainInv, Again!Publish PROVE AgainInv'
  OBVIOUS
<1>1. /\ version' = version + 1 /\ modified' = now + 1 /\ now' = now + 1
      /\ UNCHANGED <<entries, validator, asking, outcome, seen>>
  BY DEF Again!Publish
<1>2. version \in Nat /\ modified \in Nat /\ now \in Nat /\ modified <= now
  BY DEF AgainInv, AgainTyped, Published
<1>3. says' \in [Again!Days -> Nat]
  <2>1. PICK changed \in SUBSET Again!Days :
          says' = [day \in Again!Days |-> IF day \in changed THEN version + 1 ELSE says[day]]
    BY DEF Again!Publish
  <2> QED BY <1>2, <2>1 DEF AgainInv, AgainTyped
<1>4. AgainTyped'
  BY <1>1, <1>2, <1>3 DEF AgainInv, AgainTyped, UnderWay
<1>5. DoneServes' /\ MayKeep' /\ WasRead' /\ Untouched'
  BY <1>1 DEF AgainInv, DoneServes, MayKeep, WasRead, Untouched, UnderWay, Pending, Served
<1>6. OfWindow' /\ ReadsLast'
  BY <1>1, <1>2 DEF AgainInv, OfWindow, ReadsLast, UnderWay, Runs
<1>7. \A given \in validator : given.stamp \in Nat /\ given.stamp < Stamp'
  BY <1>1, <1>2 DEF AgainInv, AgainTyped, Published, Stamp
<1>8. Stamp' \in Nat /\ modified' <= now'
  BY <1>1, <1>2 DEF Stamp
<1>9. Published' /\ Stands'
  BY <1>1, <1>7, <1>8 DEF Published, Stands
<1>10. EntriesStand'
  BY <1>1, <1>2 DEF AgainInv, AgainTyped, EntriesStand
<1> QED BY <1>4, <1>5, <1>6, <1>9, <1>10 DEF AgainInv

\* Time alone.
LEMMA TimeKeeps ==
  ASSUME AgainInv, now' = now \/ now' = now + 1,
         UNCHANGED <<version, modified, says, entries, validator, asking, outcome, seen>>
  PROVE  AgainInv'
<1>1. now' \in Nat /\ now \in Nat /\ now <= now'
  BY DEF AgainInv, AgainTyped
<1>2. AgainTyped'
  BY <1>1 DEF AgainInv, AgainTyped, UnderWay
<1>3. DoneServes' /\ MayKeep' /\ WasRead' /\ Untouched' /\ ReadsLast' /\ Stands'
  BY DEF AgainInv, DoneServes, MayKeep, WasRead, Untouched, ReadsLast, Stands, UnderWay, Pending,
         Served, Stamp, Whole, BeingRead
<1>4. OfWindow' /\ Published'
  BY <1>1 DEF AgainInv, AgainTyped, OfWindow, Published, Stamp, UnderWay, Runs
<1>5. EntriesStand'
  BY <1>1 DEF AgainInv, AgainTyped, EntriesStand, Whole
<1> QED BY <1>2, <1>3, <1>4, <1>5 DEF AgainInv

\* A run begins with what it finds stale, or refreshes.
LEMMA StartKeeps == AgainInv /\ Again!Start => AgainInv'
<1> SUFFICES ASSUME AgainInv, Again!Start PROVE AgainInv'
  OBVIOUS
<1> DEFINE first == Again!Today(now)
<1>1. PICK length \in 1 .. MaxLength, refresh \in BOOLEAN :
        LET window == first .. (first + length - 1)
        IN  /\ window \subseteq Again!Days
            /\ asking' = Again!Asking({day \in window : refresh \/ Again!Stale(day, now)},
                                      first, now, refresh)
            /\ outcome' = [at |-> now, window |-> window, failed |-> FALSE, kept |-> {},
                           said |-> says]
  BY DEF Again!Start
<1>2. /\ asking = Again!noRun /\ validator' \subseteq validator
      /\ UNCHANGED <<now, version, modified, says, entries, seen>>
  BY DEF Again!Start, Again!pruneValidators, AgainInv, AgainTyped, UnderWay, Runs
<1> DEFINE window == first .. (first + length - 1)
           left == {day \in window : refresh \/ Again!Stale(day, now)}
<1>3. now \in Nat /\ first \in Int /\ window \subseteq Again!Days /\ left \subseteq window
      /\ \A day \in window : first <= day
  BY <1>1, PartsAssumption DEF AgainInv, AgainTyped, Again!Today, Again!RevalidationAssumption
<1>4. \A day \in window \ left : \E entry \in entries[day] : ~Again!Aged(entry, now)
  BY DEF Again!Stale
<1>5. /\ asking' = Again!Asking(left, first, now, refresh)
      /\ outcome' = [at |-> now, window |-> window, failed |-> FALSE, kept |-> {}, said |-> says]
  BY <1>1
<1> HIDE DEF first, window, left
<1>6. AsksOf(asking', left, first, now)
  BY <1>3, <1>5, AskingType
<1>7. AgainTyped'
  BY <1>2, <1>3, <1>5, <1>6 DEF AsksOf, AgainInv, AgainTyped, UnderWay
<1>8. OfWindow' /\ MayKeep' /\ ReadsLast' /\ WasRead' /\ Untouched'
  BY <1>2, <1>3, <1>5, <1>6 DEF AsksOf, OfWindow, MayKeep, ReadsLast, WasRead, Untouched,
                                  UnderWay
<1>9. DoneServes'
  <2>1. Pending' = left
    BY <1>6 DEF AsksOf, Pending, Again!noRun, Runs
  <2>2. outcome'.window = window /\ outcome'.at = now
    BY <1>5
  <2> QED BY <1>2, <1>4, <2>1, <2>2 DEF DoneServes, Served
<1>10. Published' /\ EntriesStand' /\ Stands'
  <2>1. ~BeingRead
    BY <1>2 DEF BeingRead, UnderWay, Runs, Again!noRun
  <2> QED BY <1>2, <2>1 DEF AgainInv, Published, EntriesStand, Stands, Stamp, Whole
<1> QED BY <1>7, <1>8, <1>9, <1>10 DEF AgainInv

\* A set of moments that holds one has an earliest.
LEMMA EarliestIsOne ==
  ASSUME NEW set \in SUBSET Nat, set # {}
  PROVE  Again!Min(set) \in set
<1>1. PICK least \in set : \A other \in set : <<other, least>> \notin OpToRel(<, Nat)
  BY NatLessThanWellFounded, WFMin
<1>2. \A other \in set : least <= other
  <2> SUFFICES ASSUME NEW other \in set PROVE least <= other
    OBVIOUS
  <2>1. OpToRel(<, Nat) = {pair \in Nat \X Nat : pair[1] < pair[2]}
    BY DEF OpToRel
  <2>2. <<other, least>> \in Nat \X Nat /\ <<other, least>> \notin {pair \in Nat \X Nat : pair[1] < pair[2]}
    BY <1>1, <2>1
  <2>3. ~(other < least)
    BY <2>2
  <2> QED BY <2>3
<1> QED BY <1>2 DEF Again!Min

\* A source that says nothing was modified has been read to its end, as it is.
LEMMA UnmodifiedWasRead ==
  ASSUME AgainInv, UnderWay, asking.at = "asking", Again!Unmodified(Again!Asked)
  PROVE  asking.mayKeep /\ Whole
<1>1. asking.mayKeep
  BY DEF Again!Unmodified, Again!Asked
<1>2. Again!Asked = [validator |-> validator, since |-> Again!since(asking.days)]
  BY <1>1 DEF Again!Asked
<1>3. CASE \E given \in validator : given.stamp = Stamp
  <2>1. ~BeingRead
    BY DEF BeingRead
  <2> QED BY <1>1, <1>3, <2>1 DEF AgainInv, Stands
<1>4. CASE Dated /\ \E at \in Again!since(asking.days) : modified <= at
  <2> DEFINE grabbed == {entry.grabbedAt : entry \in UNION {entries[day] : day \in asking.days}}
  <2>1. PICK at \in Again!since(asking.days) : modified <= at
    BY <1>4
  <2>2. grabbed # {} /\ at = Again!Min(grabbed)
    BY <2>1 DEF Again!since
  <2>3. grabbed \in SUBSET Nat
    BY DEF AgainInv, AgainTyped, UnderWay, Runs
  <2>4. at \in grabbed
    BY <2>2, <2>3, EarliestIsOne
  <2>5. PICK day \in asking.days : \E entry \in entries[day] : entry.grabbedAt = at
    BY <2>4
  <2>8. PICK entry \in entries[day] : entry.grabbedAt = at
    BY <2>5
  <2>6. day \in Again!Days
    BY <2>5 DEF UnderWay, Runs
  <2>7. entry.grabbedAt >= modified
    BY <2>1, <2>3, <2>4, <2>8 DEF AgainInv, AgainTyped
  <2> QED BY <1>1, <2>6, <2>7, <2>8 DEF AgainInv, EntriesStand
<1> QED BY <1>1, <1>2, <1>3, <1>4 DEF Again!Unmodified, Stamp

LEMMA AnswerKeeps == AgainInv /\ Again!Answer => AgainInv'
<1> SUFFICES ASSUME AgainInv, Again!Answer PROVE AgainInv'
  OBVIOUS
<1>1. PICK offered \in {{}, {Stamp}} :
        LET status == IF Again!Unmodified(Again!Asked) THEN 304 ELSE 200
        IN  /\ validator' = Again!remember(status, offered)
            /\ asking' = [asking EXCEPT !.at = IF status = 304 THEN "kept" ELSE "reading",
                                        !.touched = offered # {}]
            /\ outcome' = [outcome EXCEPT
                 !.said = [day \in Again!Days |-> IF day \in asking.days THEN says[day] ELSE @[day]],
                 !.kept = IF status = 304 THEN @ \cup asking.days ELSE @]
            /\ seen' = [seen EXCEPT !.last = version]
  BY DEF Again!Answer, Stamp
<1> DEFINE answers == IF Again!Unmodified(Again!Asked) THEN "kept" ELSE "reading"
<1>2. /\ asking.at = "asking" /\ UNCHANGED <<now, version, modified, says, entries>>
      /\ asking' = [asking EXCEPT !.at = answers, !.touched = offered # {}]
      /\ seen' = [seen EXCEPT !.last = version]
  <2>1. asking.at = "asking" /\ UNCHANGED <<now, version, modified, says, entries>>
    BY DEF Again!Answer
  <2>2. CASE Again!Unmodified(Again!Asked)
    BY <1>1, <2>1, <2>2
  <2>3. CASE ~Again!Unmodified(Again!Asked)
    BY <1>1, <2>1, <2>3
  <2> QED BY <2>2, <2>3
<1>3. UnderWay
  BY <1>2 DEF AgainInv, AgainTyped, Again!noRun
<1>4. /\ UnderWay' /\ asking'.at = answers /\ asking'.now = asking.now
      /\ asking'.first = asking.first /\ asking'.left = asking.left /\ asking'.days = asking.days
      /\ asking'.touched = (offered # {})
  BY <1>2, <1>3 DEF UnderWay, Runs
<1>5. /\ outcome' \in [at : Nat, window : SUBSET Again!Days, failed : BOOLEAN,
                       kept : SUBSET Again!Days, said : [Again!Days -> Nat]]
      /\ outcome'.at = outcome.at /\ outcome'.window = outcome.window
      /\ outcome'.failed = outcome.failed
      /\ \A day \in Again!Days \ asking.days : outcome'.said[day] = outcome.said[day]
  <2>1. /\ outcome \in [at : Nat, window : SUBSET Again!Days, failed : BOOLEAN,
                        kept : SUBSET Again!Days, said : [Again!Days -> Nat]]
        /\ says \in [Again!Days -> Nat] /\ asking.days \in SUBSET Again!Days
    BY <1>3 DEF AgainInv, AgainTyped, UnderWay, Runs
  <2> DEFINE told == [day \in Again!Days |-> IF day \in asking.days THEN says[day] ELSE outcome.said[day]]
             kept == IF Again!Unmodified(Again!Asked) THEN outcome.kept \cup asking.days
                     ELSE outcome.kept
  <2>2. outcome' = [outcome EXCEPT !.said = told, !.kept = kept]
    <3>1. CASE Again!Unmodified(Again!Asked)
      BY <1>1, <3>1
    <3>2. CASE ~Again!Unmodified(Again!Asked)
      BY <1>1, <3>2
    <3> QED BY <3>1, <3>2
  <2>3. told \in [Again!Days -> Nat] /\ kept \in SUBSET Again!Days
        /\ \A day \in Again!Days \ asking.days : told[day] = outcome.said[day]
    BY <2>1
  <2> HIDE DEF told, kept
  <2> QED BY <2>1, <2>2, <2>3
<1>6. seen' \in [last : Nat, whole : SUBSET Nat] /\ seen'.last = version /\ seen'.whole = seen.whole
  BY <1>2 DEF AgainInv, AgainTyped
<1>7. Whole' = Whole /\ Stamp' = Stamp
  BY <1>2, <1>6 DEF Whole, Stamp
<1>8. \A given \in validator' : given.stamp \in Nat /\ given.stamp <= Stamp
  <2>1. \A given \in validator : given.stamp \in Nat /\ given.stamp <= Stamp
    BY DEF AgainInv, AgainTyped, Published
  <2>2. Stamp \in Nat
    BY DEF AgainInv, AgainTyped, Stamp
  <2> QED BY <1>1, <2>1, <2>2 DEF Again!remember
<1>9. answers = "kept" => asking.mayKeep /\ Whole
  BY <1>2, <1>3, UnmodifiedWasRead
<1>10. answers = "reading" /\ offered = {} => validator' = {}
  BY <1>1 DEF Again!remember
<1> HIDE DEF answers
<1>11. answers \in {"kept", "reading"}
  BY DEF answers
<1>12. AgainTyped'
  BY <1>2, <1>4, <1>5, <1>6, <1>8 DEF AgainInv, AgainTyped
<1>13. OfWindow' /\ MayKeep' /\ ReadsLast'
  BY <1>2, <1>3, <1>4, <1>5, <1>6, <1>11 DEF AgainInv, OfWindow, MayKeep, ReadsLast
<1>14. Published' /\ EntriesStand' /\ Untouched'
  BY <1>2, <1>4, <1>7, <1>8, <1>10 DEF AgainInv, Published, EntriesStand, Untouched
<1>15. Stands' /\ WasRead'
  BY <1>2, <1>4, <1>6, <1>7, <1>9, <1>10, <1>11 DEF Stands, WasRead, BeingRead, Whole
<1>16. DoneServes'
  <2> SUFFICES ASSUME ~outcome.failed, NEW day \in outcome.window, day \notin Pending'
               PROVE  Served(day)'
    BY <1>5 DEF DoneServes
  <2>1. day \in Again!Days
    BY DEF AgainInv, AgainTyped
  <2>2. asking # Again!noRun /\ asking' # Again!noRun
    BY <1>3, <1>4 DEF UnderWay, Runs, Again!noRun
  <2>3. CASE day \in asking.days
    <3>1. answers = "kept"
      BY <1>4, <1>11, <2>2, <2>3 DEF Pending
    <3>2. \E entry \in entries[day] : ~Again!Aged(entry, asking.now)
      BY <1>2, <1>3, <1>9, <2>3, <3>1 DEF AgainInv, MayKeep
    <3> QED BY <1>2, <1>3, <1>5, <3>2 DEF Served, AgainInv, OfWindow
  <2>4. CASE day \notin asking.days
    <3>1. day \notin Pending
      BY <1>2, <1>4, <2>2, <2>4 DEF Pending
    <3>2. Served(day)
      BY <3>1 DEF AgainInv, DoneServes
    <3> QED BY <1>2, <1>5, <2>1, <2>4, <3>2 DEF Served
  <2> QED BY <2>3, <2>4
<1> QED BY <1>12, <1>13, <1>14, <1>15, <1>16 DEF AgainInv

\* A step of the run under way that leaves the run's own request as it is.
SameRequest ==
  /\ UnderWay' /\ asking'.now = asking.now /\ asking'.first = asking.first
  /\ asking'.left = asking.left /\ asking'.days = asking.days /\ asking'.touched = asking.touched

LEMMA ReadKeeps == AgainInv /\ Again!Read => AgainInv'
<1> SUFFICES ASSUME AgainInv, Again!Read PROVE AgainInv'
  OBVIOUS
<1>1. /\ asking.at = "reading" /\ asking' = [asking EXCEPT !.at = "writing"]
      /\ seen' = [seen EXCEPT !.whole = @ \cup {seen.last}]
      /\ UNCHANGED <<now, version, modified, says, entries, validator, outcome>>
  BY DEF Again!Read
<1>2. UnderWay
  BY <1>1 DEF AgainInv, AgainTyped, Again!noRun
<1>3. SameRequest /\ asking'.at = "writing"
  BY <1>1, <1>2 DEF UnderWay, Runs, SameRequest
<1>4. /\ seen' \in [last : Nat, whole : SUBSET Nat] /\ seen'.last = seen.last
      /\ seen'.whole = seen.whole \cup {seen.last}
  BY <1>1 DEF AgainInv, AgainTyped
<1>5. AgainTyped'
  BY <1>1, <1>3, <1>4 DEF AgainInv, AgainTyped, SameRequest
<1>6. OfWindow' /\ MayKeep' /\ ReadsLast' /\ WasRead' /\ Untouched' /\ Published'
  BY <1>1, <1>2, <1>3, <1>4
     DEF AgainInv, OfWindow, MayKeep, ReadsLast, WasRead, Untouched, Published, Stamp, SameRequest
<1>7. (Whole \/ BeingRead => Whole') /\ Stamp' = Stamp
  BY <1>1, <1>4 DEF Whole, BeingRead, Stamp
<1>8. Stands' /\ EntriesStand'
  BY <1>1, <1>7 DEF AgainInv, Stands, EntriesStand
<1>9. DoneServes'
  <2>1. Pending' = Pending
    BY <1>1, <1>2, <1>3 DEF Pending, SameRequest, UnderWay, Runs, Again!noRun
  <2> QED BY <1>1, <2>1 DEF AgainInv, DoneServes, Served
<1> QED BY <1>5, <1>6, <1>8, <1>9 DEF AgainInv

\* A document cut off is no longer stood for by anything, nor is any day done.
LEMMA CutOffKeeps == AgainInv /\ Again!CutOff => AgainInv'
<1> SUFFICES ASSUME AgainInv, Again!CutOff PROVE AgainInv'
  OBVIOUS
<1>1. /\ asking.at = "reading" /\ asking' = [asking EXCEPT !.at = "settled"]
      /\ validator' = Again!forget /\ outcome' = [outcome EXCEPT !.failed = TRUE]
      /\ UNCHANGED <<now, version, modified, says, entries, seen>>
  BY DEF Again!CutOff
<1>2. UnderWay
  BY <1>1 DEF AgainInv, AgainTyped, Again!noRun
<1>3. SameRequest /\ asking'.at = "settled"
  BY <1>1, <1>2 DEF UnderWay, Runs, SameRequest
<1>4. validator' = {}
  BY <1>1, <1>2 DEF Again!forget, AgainInv, Untouched
<1>5. /\ outcome' \in [at : Nat, window : SUBSET Again!Days, failed : BOOLEAN,
                       kept : SUBSET Again!Days, said : [Again!Days -> Nat]]
      /\ outcome'.failed /\ outcome'.at = outcome.at /\ outcome'.window = outcome.window
  BY <1>1 DEF AgainInv, AgainTyped
<1>6. AgainTyped'
  BY <1>1, <1>3, <1>4, <1>5 DEF AgainInv, AgainTyped, SameRequest
<1>7. OfWindow' /\ MayKeep' /\ ReadsLast' /\ WasRead' /\ Untouched'
  BY <1>1, <1>2, <1>3, <1>4, <1>5
     DEF AgainInv, OfWindow, MayKeep, ReadsLast, WasRead, Untouched, SameRequest
<1>8. Published' /\ Stands' /\ EntriesStand' /\ DoneServes'
  BY <1>1, <1>4, <1>5 DEF AgainInv, Published, Stands, EntriesStand, DoneServes, Whole
<1> QED BY <1>6, <1>7, <1>8 DEF AgainInv

\* What is stored is what the source said of each day, and is as new as the run.
LEMMA StoresKeep == ASSUME NEW failing, AgainInv, Again!Stores(failing) PROVE AgainInv'
<1> DEFINE stored(day) == day \in asking.days \ failing
           entryOf(day) == [grabbedAt |-> asking.now, holds |-> outcome.said[day]]
<1>1. /\ asking.at = "writing" /\ asking' = [asking EXCEPT !.at = "settled"]
      /\ entries' = [day \in Again!Days |-> IF stored(day) THEN {entryOf(day)} ELSE entries[day]]
      /\ outcome' = [outcome EXCEPT !.failed = @ \/ failing # {}]
      /\ UNCHANGED <<now, version, modified, says, validator, seen>>
  BY DEF Again!Stores
<1>2. UnderWay
  BY <1>1 DEF AgainInv, AgainTyped, Again!noRun
<1>3. SameRequest /\ asking'.at = "settled"
  BY <1>1, <1>2 DEF UnderWay, Runs, SameRequest
<1>4. /\ outcome' \in [at : Nat, window : SUBSET Again!Days, failed : BOOLEAN,
                       kept : SUBSET Again!Days, said : [Again!Days -> Nat]]
      /\ outcome'.at = outcome.at /\ outcome'.window = outcome.window /\ outcome'.said = outcome.said
      /\ ~outcome'.failed => ~outcome.failed /\ failing = {}
  BY <1>1 DEF AgainInv, AgainTyped
<1>5. asking.now \in Nat /\ asking.now <= now /\ outcome.at = asking.now
  BY <1>2 DEF AgainInv, OfWindow, UnderWay, Runs
<1>6. \A day \in Again!Days : entryOf(day) \in [grabbedAt : Nat, holds : Nat]
  BY <1>5 DEF AgainInv, AgainTyped
<1>7. AgainTyped'
  BY <1>1, <1>3, <1>4, <1>6 DEF AgainInv, AgainTyped, SameRequest
<1>8. OfWindow' /\ MayKeep' /\ ReadsLast' /\ WasRead' /\ Untouched' /\ Published'
  BY <1>1, <1>2, <1>3, <1>4
     DEF AgainInv, OfWindow, MayKeep, ReadsLast, WasRead, Untouched, Published, Stamp, SameRequest
<1>9. Whole' = Whole /\ ~BeingRead /\ Stamp' = Stamp
  BY <1>1 DEF Whole, BeingRead, Stamp
<1>10. asking.now >= modified => Whole
  BY <1>1, <1>2 DEF AgainInv, ReadsLast, WasRead, Whole
<1>11. Stands' /\ EntriesStand'
  <2>1. Stands'
    BY <1>1, <1>9 DEF AgainInv, Stands
  <2>2. EntriesStand'
    <3> SUFFICES ASSUME NEW day \in Again!Days, NEW entry \in entries'[day]
                 PROVE  entry.grabbedAt <= now /\ (entry.grabbedAt >= modified => Whole)
      BY <1>1, <1>9 DEF EntriesStand
    <3>1. CASE stored(day)
      <4>1. entry = entryOf(day)
        BY <1>1, <3>1
      <4>2. entry.grabbedAt = asking.now
        BY <4>1
      <4> QED BY <1>5, <1>10, <4>2
    <3>2. CASE ~stored(day)
      BY <1>1, <3>2 DEF AgainInv, EntriesStand
    <3> QED BY <3>1, <3>2
  <2> QED BY <2>1, <2>2
<1>12. DoneServes'
  <2> SUFFICES ASSUME ~outcome'.failed, NEW day \in outcome.window, day \notin Pending'
               PROVE  Served(day)'
    BY <1>4 DEF DoneServes
  <2>1. day \in Again!Days /\ failing = {} /\ ~outcome.failed
    BY <1>4 DEF AgainInv, AgainTyped
  <2>2. asking # Again!noRun /\ asking' # Again!noRun
    BY <1>2, <1>3 DEF UnderWay, SameRequest, Runs, Again!noRun
  <2>3. CASE day \in asking.days
    <3>1. entries'[day] = {entryOf(day)}
      BY <1>1, <2>1, <2>3
    <3>2. entryOf(day).holds = outcome'.said[day]
      BY <1>4
    <3> QED BY <3>1, <3>2 DEF Served
  <2>4. CASE day \notin asking.days
    <3>1. day \notin Pending /\ entries'[day] = entries[day]
      BY <1>1, <1>3, <2>1, <2>2, <2>4 DEF Pending, SameRequest
    <3>2. Served(day)
      BY <2>1, <3>1 DEF AgainInv, DoneServes
    <3> QED BY <1>4, <3>1, <3>2 DEF Served
  <2> QED BY <2>3, <2>4
<1> QED BY <1>7, <1>8, <1>11, <1>12 DEF AgainInv

LEMMA FurtherKeeps == AgainInv /\ Again!Further => AgainInv'
<1> SUFFICES ASSUME AgainInv, Again!Further PROVE AgainInv'
  OBVIOUS
<1>1. /\ asking.at \in {"kept", "settled"}
      /\ asking' = Again!Asking(asking.left, asking.first, asking.now, asking.refresh)
      /\ UNCHANGED <<now, version, modified, says, entries, validator, outcome, seen>>
  BY DEF Again!Further
<1>2. UnderWay
  BY <1>1 DEF AgainInv, AgainTyped, Again!noRun
<1>3. AsksOf(asking', asking.left, asking.first, asking.now)
  BY <1>1, <1>2, AskingType DEF UnderWay, Runs
<1>4. AgainTyped'
  BY <1>1, <1>3 DEF AgainInv, AgainTyped, UnderWay, AsksOf
<1>5. OfWindow' /\ MayKeep' /\ ReadsLast' /\ WasRead' /\ Untouched'
  BY <1>1, <1>2, <1>3
     DEF AgainInv, OfWindow, MayKeep, ReadsLast, WasRead, Untouched, UnderWay, AsksOf
<1>6. Published' /\ Stands' /\ EntriesStand'
  BY <1>1 DEF AgainInv, Published, Stands, EntriesStand, Stamp, Whole, BeingRead
<1>7. DoneServes'
  <2>1. Pending' = Pending
    <3>1. asking # Again!noRun /\ asking' # Again!noRun
      BY <1>1, <1>3 DEF AsksOf, Again!noRun
    <3>2. Pending = asking.left
      BY <1>1, <3>1 DEF Pending
    <3>3. Pending' = asking'.left \cup asking'.days
      BY <1>3, <3>1 DEF Pending, AsksOf
    <3> QED BY <1>3, <3>2, <3>3 DEF AsksOf
  <2> QED BY <1>1, <2>1 DEF AgainInv, DoneServes, Served
<1> QED BY <1>4, <1>5, <1>6, <1>7 DEF AgainInv

\* What is pruned as a run ends is of no day of its window.
LEMMA OverKeeps == AgainInv /\ Again!Over => AgainInv'
<1> SUFFICES ASSUME AgainInv, Again!Over PROVE AgainInv'
  OBVIOUS
<1>1. /\ asking.at \in {"kept", "settled"} /\ asking.left = {} /\ asking' = Again!noRun
      /\ entries' = [day \in Again!Days |-> IF day < asking.first THEN {} ELSE entries[day]]
      /\ UNCHANGED <<now, version, modified, says, validator, outcome, seen>>
  BY DEF Again!Over
<1>2. UnderWay /\ ~UnderWay'
  BY <1>1 DEF AgainInv, AgainTyped, Again!noRun, UnderWay, Runs
<1>3. AgainTyped'
  BY <1>1 DEF AgainInv, AgainTyped
<1>4. OfWindow' /\ MayKeep' /\ ReadsLast' /\ WasRead' /\ Untouched' /\ Published'
  BY <1>1, <1>2 DEF AgainInv, OfWindow, MayKeep, ReadsLast, WasRead, Untouched, Published, Stamp
<1>5. Whole' = Whole /\ ~BeingRead /\ Stamp' = Stamp
  BY <1>1 DEF Whole, BeingRead, Stamp
<1>6. Stands' /\ EntriesStand'
  BY <1>1, <1>5 DEF AgainInv, Stands, EntriesStand
<1>7. DoneServes'
  <2> SUFFICES ASSUME ~outcome.failed, NEW day \in outcome.window PROVE Served(day)'
    BY <1>1 DEF DoneServes
  <2>1. day \notin Pending
    BY <1>1, <1>2 DEF Pending, UnderWay, Runs, Again!noRun
  <2>2. Served(day)
    BY <2>1 DEF AgainInv, DoneServes
  <2>3. day \in Again!Days /\ asking.first <= day
    BY <1>2 DEF AgainInv, AgainTyped, OfWindow
  <2>4. day \in Int /\ asking.first \in Int
    BY <1>2, <2>3, PartsAssumption
       DEF Again!Days, Again!RevalidationAssumption, UnderWay, Runs
  <2>5. entries'[day] = entries[day]
    BY <1>1, <2>3, <2>4
  <2> QED BY <1>1, <2>2, <2>5 DEF Served
<1> QED BY <1>3, <1>4, <1>6, <1>7 DEF AgainInv

\* The clock of a site is another's: it takes no time, or a moment.
LEMMA ClockTakesTime == Clock!Next => now' = now \/ now' = now + 1
BY DEF Clock!Next, Clock!Tick, Clock!Moves, Clock!Turn, Clock!Ask, Clock!AskSettled, Clock!Sent,
       Clock!Answered, Clock!Held, Clock!RateLimited, Clock!Reading, Clock!Queued, Clock!Started,
       Clock!Finished, Clock!Elsewhere, Clock!Comes, Clock!Back, Clock!Cancelled

LEMMA AgainNext == AgainInv /\ [MCNext]_all => AgainInv'
<1> SUFFICES ASSUME AgainInv, [MCNext]_all PROVE AgainInv'
  OBVIOUS
<1>1. CASE UNCHANGED ofAgain /\ (now' = now \/ now' = now + 1)
  BY <1>1, TimeKeeps DEF ofAgain
<1>2. CASE Again!Next
  <2>1. CASE Again!Tick
    BY <2>1, TimeKeeps DEF Again!Tick
  <2> QED BY <1>2, <2>1, PublishKeeps, StartKeeps, AnswerKeeps, ReadKeeps, CutOffKeeps,
             FurtherKeeps, OverKeeps, StoresKeep DEF Again!Next
<1> QED BY <1>1, <1>2, ClockTakesTime DEF MCNext, all

\* However long a source says nothing has changed, or is wrong to, after a run in
\* which nothing failed every day of its window is what the source said of it or
\* is no older than the policy has it; and nothing is kept on the word of a
\* document that was cut off (revalidate.ts, SiteRun.#collectStale).
THEOREM RunFreezesWithinBounds == MCSpec => []FreezeIsBounded
<1>1. AgainInv => FreezeIsBounded
  <2> SUFFICES ASSUME AgainInv PROVE Again!FreezeIsBounded /\ Again!KeptWasRead
    BY DEF FreezeIsBounded
  <2>1. Again!FreezeIsBounded
    BY DEF AgainInv, DoneServes, Pending, Served, Again!FreezeIsBounded
  <2>2. Again!KeptWasRead
    BY DEF AgainInv, AgainTyped, WasRead, Again!KeptWasRead, Again!noRun
  <2> QED BY <2>1, <2>2
<1> QED BY <1>1, AgainInit, AgainNext, PTL DEF MCSpec

-----------------------------------------------------------------------------
(* The clock of a site.                                                        *)

\* The clock proved about is the clock of the run.
LEMMA SameClock ==
  /\ Clock!Init => Timed!Init
  /\ \A stretches, runs, still : Clock!Settled(stretches, runs, still) = Timed!Settled(stretches, runs, still)
  /\ Timed!TimeIsGivenOnce => Clock!TimeIsGivenOnce
<1>1. Clock!Init => Timed!Init
  BY DEF Clock!Init, Timed!Init, Clock!noTime, Timed!noTime, Clock!MEASURED_TIME, Timed!MEASURED_TIME
<1>2. ASSUME NEW stretches, NEW runs, NEW still
      PROVE  Clock!Settled(stretches, runs, still) = Timed!Settled(stretches, runs, still)
  BY DEF Clock!Settled, Timed!Settled, Clock!SettledOver, Timed!SettledOver, Clock!Covered, Timed!Covered,
         Clock!SweptPast, Timed!SweptPast, Clock!Max, Timed!Max, Clock!Min, Timed!Min, Clock!Range, Timed!Range
<1>3. Timed!TimeIsGivenOnce => Clock!TimeIsGivenOnce
  BY DEF Timed!TimeIsGivenOnce, Clock!TimeIsGivenOnce, Timed!Moments, Clock!Moments, Timed!Spent, Clock!Spent,
         Timed!ClosedSpent, Clock!ClosedSpent, Timed!Given, Clock!Given, Timed!timeSpent, Clock!timeSpent,
         Timed!Cardinality, Clock!Cardinality, Timed!Max, Clock!Max
<1> QED BY <1>1, <1>2, <1>3

LEMMA SameSteps == Clock!Next => Timed!Next
<1>1. Clock!HoldsNow = Timed!HoldsNow /\ Clock!HoldsNow' = Timed!HoldsNow'
  BY DEF Clock!HoldsNow, Timed!HoldsNow, Clock!Holding, Timed!Holding
<1>2. Clock!ClosedSpent = Timed!ClosedSpent /\ Clock!ClosedAlone = Timed!ClosedAlone
  BY DEF Clock!ClosedSpent, Timed!ClosedSpent, Clock!Given, Timed!Given, Clock!ClosedAlone, Timed!ClosedAlone,
         Clock!Extended, Timed!Extended
<1>3. Clock!Moved => Timed!Moved
  BY <1>1, <1>2 DEF Clock!Moved, Timed!Moved
<1>4. Clock!Tick => Timed!Tick
  BY <1>1 DEF Clock!Tick, Timed!Tick, Clock!load, Timed!load
<1>5. Clock!Comes => Timed!Comes
  BY <1>1, <1>2, SameClock DEF Clock!Comes, Timed!Comes, Clock!Back, Timed!Back, Clock!load, Timed!load
<1>6. /\ Clock!Turn => Timed!Turn
      /\ Clock!Ask => Timed!Ask
      /\ Clock!AskSettled => Timed!AskSettled
      /\ Clock!Sent => Timed!Sent
      /\ Clock!Answered => Timed!Answered
  BY <1>3
  DEF Clock!load, Timed!load, Clock!history, Timed!history,
      Clock!Turn, Timed!Turn,
      Clock!Ask, Timed!Ask,
      Clock!AskSettled, Timed!AskSettled,
      Clock!Sent, Timed!Sent,
      Clock!Answered, Timed!Answered
<1>7. /\ Clock!Held => Timed!Held
      /\ Clock!RateLimited => Timed!RateLimited
      /\ Clock!Reading => Timed!Reading
      /\ Clock!Queued => Timed!Queued
  BY <1>3
  DEF Clock!load, Timed!load, Clock!history, Timed!history,
      Clock!Held, Timed!Held,
      Clock!RateLimited, Timed!RateLimited,
      Clock!Reading, Timed!Reading,
      Clock!Queued, Timed!Queued
<1>8. /\ Clock!Started => Timed!Started
      /\ Clock!Finished => Timed!Finished
      /\ Clock!Elsewhere => Timed!Elsewhere
      /\ Clock!Cancelled => Timed!Cancelled
  BY <1>3
  DEF Clock!load, Timed!load, Clock!history, Timed!history,
      Clock!Started, Timed!Started,
      Clock!Finished, Timed!Finished,
      Clock!Elsewhere, Timed!Elsewhere,
      Clock!Cancelled, Timed!Cancelled
<1> QED BY <1>4, <1>5, <1>6, <1>7, <1>8 DEF Clock!Next, Timed!Next, Clock!Moves, Timed!Moves

\* Every moment a site is on the clock is given to one part of it and once,
\* whatever order the calls of its work to the run's thread come back in (SiteClock).
THEOREM RunGivesTimeOnce == MCSpec => []TimeIsGivenOnce
<1> DEFINE TimeKept == which = "clock" => Timed!ClockInv
<1>1. MaxNow \in Nat
  BY PartsAssumption DEF Clock!ClockAssumption
<1>2. MCInit => TimeKept
  BY <1>1, SameClock, Timed!ClockInit DEF MCInit
<1>3. TimeKept /\ [MCNext]_all => TimeKept'
  <2> SUFFICES ASSUME TimeKept, [MCNext]_all, which' = "clock" PROVE Timed!ClockInv'
    OBVIOUS
  <2>1. which = "clock" /\ Timed!ClockInv
    BY DEF MCNext, all
  <2>2. CASE Clock!Next
    <3>1. [Timed!Next]_(Timed!vars)
      BY <2>2, SameSteps
    <3> QED BY <1>1, <2>1, <3>1, Timed!ClockNext
  <2>3. CASE UNCHANGED all
    <3>1. [Timed!Next]_(Timed!vars)
      BY <2>3 DEF all, ofClock, Timed!vars, Timed!load
    <3> QED BY <1>1, <2>1, <3>1, Timed!ClockNext
  <2> QED BY <2>1, <2>2, <2>3 DEF MCNext
<1>4. TimeKept => TimeIsGivenOnce
  BY <1>1, SameClock, Timed!GivenOnce DEF TimeIsGivenOnce
<1> HIDE DEF TimeKept
<1> QED BY <1>2, <1>3, <1>4, PTL DEF MCSpec
=============================================================================
