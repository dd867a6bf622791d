------------------------------- MODULE Build --------------------------------
(***************************************************************************)
(* A whole run: build() and runGrab() in build.ts around grabWith() in     *)
(* grab.ts.  The channel lists are settled, every site has its turn, the   *)
(* cache is pruned, the guide merged and put in place, and what was held   *)
(* is let go of: a cancel, a failure, or a reporter that throws, anywhere. *)
(*                                                                         *)
(* A site's turn is two steps here, its work and its end.  What is within  *)
(* one is StreamPipeline and RequestPipeline, and SiteThread its thread.   *)
(***************************************************************************)
EXTENDS Integers, FiniteSets

CONSTANTS
  Sites,
  Fetched,       \* those whose channel list is a function, asked of the source
  ListsAtOnce, SitesAtOnce,
  Pieces         \* what the guide is written in

ASSUME BuildAssumption ==
  /\ IsFiniteSet(Sites) /\ Fetched \subseteq Sites
  /\ ListsAtOnce \in Nat \ {0} /\ SitesAtOnce \in Nat \ {0} /\ Pieces \in Nat \ {0}

VARIABLES
  command,   \* "build", or "grab", or "plain": a grab with nothing to narrow
  threads,   \* whether sites run in threads
  aborted,   \* the run's signal
  threw,     \* whether the reporter has thrown, which keepingThrows keeps
  stage,     \* where the run is
  list,      \* each site's list: where it is, and what came of it
  session,   \* each site's session, here: its queue and its timer
  turn,      \* each site's turn
  said,      \* how often each site's site:done was said
  ended,     \* what was said of the run's end
  failure,   \* what the run would reject with: its own failure, or the reporter's
  guide,     \* the output's content
  temp, pieces,  \* its temporary file, and what is written of it
  disk,      \* whether closing, renaming or removing that was refused
  cache, answer

run == <<command, threads>>
output == <<guide, temp, pieces, disk>>
vars == <<run, aborted, threw, stage, list, session, turn, said, ended, failure, output,
          cache, answer>>

Settles == command # "plain"

Init ==
  /\ command \in {"build", "grab", "plain"} /\ threads \in BOOLEAN
  /\ aborted \in BOOLEAN /\ threw = FALSE
  /\ stage = IF Settles THEN "settling" ELSE "grabbing"
  /\ list = [s \in Sites |-> IF Settles THEN [st |-> "queued", came |-> "none"]
                                        ELSE [st |-> "done", came |-> "settled"]]
  /\ session \in [Sites -> {"none", "open"}]  \* a queue may not be built of its settings
  /\ \A s \in Sites : session[s] = "open" => Settles /\ s \in Fetched
  /\ turn = [s \in Sites |-> IF Settles THEN "none" ELSE "queued"]
  /\ said = [s \in Sites |-> 0] /\ ended = "none" /\ failure = "none"
  /\ guide = "old" /\ temp = "none" /\ pieces = 0 /\ disk = "fine"
  /\ cache = "open" /\ answer = "none"

\* The reporter is told of something, and may throw, until the run is over.
Says == threw' \in (IF stage = "over" THEN {threw} ELSE {threw, TRUE})
Goto(st) == stage' = st
Fails == failure' = "own" /\ Goto("releasing")
LetGo == session' = [s \in Sites |-> IF session[s] = "open" THEN "gone" ELSE session[s]]

Held == <<output, cache, answer, run, aborted>>
Grab == <<turn, said, ended>>

-----------------------------------------------------------------------------
(* resolveSessions: a few lists at once, in a queue no signal clears, so   *)
(* what is left of it goes on beside a run that has given up on it.        *)
Asked == {s \in Sites : list[s].st \in {"asking", "saving"}}

Came(s, to) == list' = [list EXCEPT ![s] = [st |-> "saving", came |-> to]]

\* A list that fails costs its site, and one that fails of the cancel the call.
Failing == IF aborted THEN "threw" ELSE "left"

\* One that is not fetched is read at once: of a site with no name it is left.
ListBegins(s) ==
  /\ list[s].st = "queued" /\ Cardinality(Asked) < ListsAtOnce
  /\ IF s \in Fetched THEN list' = [list EXCEPT ![s] = [st |-> "asking", came |-> "none"]]
                      ELSE \E to \in {"settled", "left", Failing} : Came(s, to)
  /\ UNCHANGED <<Held, Grab, threw, stage, session, failure>>

ListAnswered(s) ==
  /\ list[s].st = "asking"
  /\ \E to \in {"settled", Failing} : Came(s, to)
  /\ Says
  /\ UNCHANGED <<Held, Grab, stage, session, failure>>

(* The site's state is saved whatever came of the list, and should that    *)
(* fail it is what the call fails of.                                      *)
ListSaved(s) ==
  /\ list[s].st = "saving"
  /\ \E to \in {list[s].came, "threw"} : list' = [list EXCEPT ![s] = [st |-> "done", came |-> to]]
  /\ UNCHANGED <<Held, Grab, threw, stage, session, failure>>

Threw == {s \in Sites : list[s].st = "done" /\ list[s].came = "threw"}

Settled ==
  /\ stage = "settling" /\ Threw = {} /\ \A s \in Sites : list[s].st = "done"
  /\ Goto("choosing")
  /\ UNCHANGED <<Held, Grab, threw, list, session, failure>>

(* The first list that threw rejects the call, whatever the others do.     *)
SettleFails ==
  /\ stage = "settling" /\ Threw # {}
  /\ LetGo /\ Fails
  /\ UNCHANGED <<Held, Grab, threw, list>>

Left == {s \in Sites : list[s].came = "left"}
\* The sites a list was settled for, which is who has a turn.
Settling == Sites \ Left

(* `derived`, the selection and `cover`, any of which may throw; then the   *)
(* grab says first which sites have no list.                               *)
Choose ==
  /\ stage = "choosing" /\ Says
  /\ \/ /\ LetGo /\ Fails /\ UNCHANGED Grab
     \/ /\ Goto("grabbing")
        /\ turn' = [s \in Sites |-> IF s \in Settling THEN "queued" ELSE "unrun"]
        /\ said' = [s \in Sites |-> IF s \in Left THEN said[s] + 1 ELSE said[s]]
        /\ UNCHANGED <<ended, session, failure>>
  /\ UNCHANGED <<Held, list>>

-----------------------------------------------------------------------------
(* grabWith: the sites' queue, each task of which has the run's signal.    *)
Running == {s \in Sites : turn[s] \in {"running", "saving"}}
Turned(s, to) == turn' = [turn EXCEPT ![s] = to]
SayDone(s) == said' = [said EXCEPT ![s] = @ + 1] /\ Says

(* A site here may not be resolved; and a session is carried on with, or   *)
(* opened.  In a thread it has one of its own.                             *)
TurnBegins(s) ==
  /\ stage = "grabbing" /\ turn[s] = "queued" /\ ~aborted /\ Cardinality(Running) < SitesAtOnce
  /\ \/ /\ Turned(s, "running")
        /\ session' = IF ~threads /\ session[s] = "none"
                        THEN [session EXCEPT ![s] = "open"] ELSE session
        /\ UNCHANGED <<said, threw>>
     \/ ~threads /\ Turned(s, "unrun") /\ SayDone(s) /\ UNCHANGED session
  /\ UNCHANGED <<Held, stage, list, ended, failure>>

(* In a thread that never began it: SiteNotRunError.                       *)
NotRun(s) ==
  /\ threads /\ turn[s] = "running"
  /\ Turned(s, "unrun") /\ SayDone(s)
  /\ UNCHANGED <<Held, stage, list, session, ended, failure>>

(* p-queue rejects what still waits, and nothing is said of it.            *)
Dropped(s) ==
  /\ stage = "grabbing" /\ turn[s] = "queued" /\ aborted
  /\ Turned(s, "dropped")
  /\ UNCHANGED <<Held, threw, stage, list, session, said, ended, failure>>

(* SiteRun.run: the work ends, well or not; its state is saved, and its    *)
(* pacing let go of.                                                       *)
WorkEnds(s) ==
  /\ turn[s] = "running"
  /\ Turned(s, "saving") /\ Says
  /\ UNCHANGED <<Held, stage, list, session, said, ended, failure>>

TurnEnds(s) ==
  /\ turn[s] = "saving"
  /\ Turned(s, "over") /\ SayDone(s)
  /\ session' = IF threads THEN session ELSE [session EXCEPT ![s] = "gone"]
  /\ UNCHANGED <<Held, stage, list, ended, failure>>

(* A turn here that rejects, which is a fault in the package: kept as one. *)
Fault(s) ==
  /\ ~threads /\ turn[s] = "saving"
  /\ Turned(s, "fault") /\ session' = [session EXCEPT ![s] = "gone"]
  /\ UNCHANGED <<Held, threw, stage, list, said, ended, failure>>

QueueIsIdle ==                                                      \* mutant
  aborted \/ \A s \in Sites : turn[s] \notin {"queued", "running", "saving"}
\* A cancel rejects every task of the queue at once; the turns are waited for.
TurnsOver == \A s \in Sites : turn[s] \notin {"queued", "running", "saving"}

GrabOver ==
  /\ stage = "grabbing" /\ TurnsOver
  /\ Goto("counting")
  /\ UNCHANGED <<Held, Grab, threw, list, session, failure>>

Faults == {s \in Sites : turn[s] = "fault"}

(* The run's end is said, and the sessions of sites that had no turn here  *)
(* are let go of.                                                          *)
GrabSaid ==
  /\ stage = "counting"
  /\ LetGo
  /\ IF Faults # {}
       THEN Fails /\ UNCHANGED <<ended, threw>>
       ELSE /\ ended' = IF aborted THEN "run:cancelled" ELSE "grab:done"
            /\ Says /\ Goto("grabbed") /\ UNCHANGED failure
  /\ UNCHANGED <<Held, list, turn, said>>

(* grabInto: a prune, which a cancel before it leaves out and one during   *)
(* it, like the store, makes fail.                                         *)
StartPrune ==
  /\ stage = "grabbed"
  /\ Goto(IF aborted THEN "deciding" ELSE "pruning")
  /\ UNCHANGED <<Held, Grab, threw, list, session, failure>>

Prune ==
  /\ stage = "pruning" /\ Says
  /\ \/ Goto("deciding") /\ UNCHANGED failure
     \/ Fails
  /\ UNCHANGED <<Held, Grab, list, session>>

(* build: rethrow(), then the merge unless cancelled.                      *)
Decide ==
  /\ stage = "deciding"
  /\ IF command = "build" /\ threw
       THEN failure' = "reporter" /\ Goto("releasing")
       ELSE /\ Goto(IF command = "build" /\ ~aborted THEN "opening" ELSE "releasing")
            /\ UNCHANGED failure
  /\ UNCHANGED <<Held, Grab, threw, list, session>>

-----------------------------------------------------------------------------
(* writeGuide, over atomicFile.  A stream destroyed before it was opened    *)
(* makes no file; after, closing it is what takes the file away again.     *)
Opens ==
  /\ stage = "opening"
  /\ \/ ~aborted /\ temp' = "there" /\ Goto("writing") /\ UNCHANGED failure
     \/ Fails /\ UNCHANGED temp
  /\ UNCHANGED <<guide, pieces, disk, Grab, run, aborted, threw, list, session, cache, answer>>

WritesPiece ==
  /\ stage = "writing" /\ ~aborted /\ pieces < Pieces
  /\ pieces' = pieces + 1 /\ Says
  /\ UNCHANGED <<guide, temp, disk, Grab, run, aborted, stage, list, session, failure, cache, answer>>

(* The signal destroys the stream, or the cache or the disk fails it.      *)
Cut ==
  /\ stage = "writing" /\ Goto("discarding")
  /\ UNCHANGED <<Held, Grab, threw, list, session, failure>>

Flushed ==
  /\ stage = "writing" /\ ~aborted /\ pieces = Pieces
  /\ Goto("closing")
  /\ UNCHANGED <<Held, Grab, threw, list, session, failure>>

Closed == stage \in {"closing", "discarding"}                       \* mutant
WritableFinished == stage = "closing"

(* close(): the rename, which nothing takes back, or the file removed; and  *)
(* what the disk refuses of it leaves the file where it is.                *)
Renamed ==
  /\ guide' = "new" /\ temp' = "none" /\ Goto("releasing")
  /\ failure' \in {failure} \cup (IF aborted THEN {"own"} ELSE {})
Discarded == temp' = "none" /\ Fails /\ UNCHANGED guide
CloseFile ==
  /\ stage \in {"closing", "discarding"}
  /\ \/ (IF WritableFinished THEN Renamed ELSE Discarded) /\ UNCHANGED disk
     \/ disk' = "refused" /\ Fails /\ UNCHANGED <<guide, temp>>
  /\ UNCHANGED <<pieces, Grab, run, aborted, threw, list, session, cache, answer>>

-----------------------------------------------------------------------------
(* withCache lets go of the cache however the work ended, and settle()     *)
(* answers with what the run and its reporter came to.                     *)
Release ==
  /\ stage = "releasing"
  /\ cache' = "closed" /\ failure' \in {failure, "own"} /\ Goto("settled")
  /\ UNCHANGED <<Grab, run, aborted, threw, list, session, output, answer>>

Outcome ==
  IF threw THEN IF failure = "own" THEN "both" ELSE "reporter"
           ELSE IF failure = "none" THEN "summary" ELSE "failed"

Answer ==
  /\ stage = "settled"
  /\ answer' = Outcome /\ Goto("over")
  /\ UNCHANGED <<Grab, run, aborted, threw, list, session, failure, output, cache>>

Abort ==
  /\ ~aborted /\ aborted' = TRUE
  /\ UNCHANGED <<Grab, run, threw, stage, list, session, failure, output, cache, answer>>

AllOver ==
  /\ stage = "over" /\ \A s \in Sites : list[s].st = "done"
  /\ UNCHANGED vars

Next ==
  \/ \E s \in Sites : ListBegins(s) \/ ListAnswered(s) \/ ListSaved(s)
  \/ Settled \/ SettleFails \/ Choose
  \/ \E s \in Sites : \/ TurnBegins(s) \/ NotRun(s) \/ Dropped(s)
                      \/ WorkEnds(s) \/ TurnEnds(s) \/ Fault(s)
  \/ GrabOver \/ GrabSaid \/ StartPrune \/ Prune \/ Decide
  \/ Opens \/ WritesPiece \/ Cut \/ Flushed \/ CloseFile
  \/ Release \/ Answer \/ Abort
  \/ AllOver

Spec == Init /\ [][Next]_vars

-----------------------------------------------------------------------------
Stages == {"settling", "choosing", "grabbing", "counting", "grabbed", "pruning", "deciding",
           "opening", "writing", "discarding", "closing", "releasing", "settled", "over"}
Lists == [st : {"queued", "asking", "saving", "done"}, came : {"none", "settled", "left", "threw"}]
Turns == {"none", "queued", "running", "saving", "over", "unrun", "dropped", "fault"}

\* Every variable keeps its type; and no site is said to be done twice, whether
\* its list failed, it never began, or its turn ended.
TypeOK ==
  /\ command \in {"build", "grab", "plain"} /\ threads \in BOOLEAN
  /\ aborted \in BOOLEAN /\ threw \in BOOLEAN
  /\ stage \in Stages /\ list \in [Sites -> Lists]
  /\ session \in [Sites -> {"none", "open", "gone"}] /\ turn \in [Sites -> Turns]
  /\ said \in [Sites -> 0..1] /\ ended \in {"none", "grab:done", "run:cancelled"}
  /\ failure \in {"none", "own", "reporter"}
  /\ guide \in {"old", "new"} /\ temp \in {"none", "there"} /\ pieces \in 0..Pieces
  /\ disk \in {"fine", "refused"}
  /\ cache \in {"open", "closed"}
  /\ answer \in {"none", "summary", "failed", "reporter", "both"}

\* However a run ends, it has wound down by then: no site's turn, prune or merge
\* is left with a cache that is closed; no session's timer keeps the process
\* alive; and no temporary file lies beside the output, unless the disk refused to
\* take it away.  (Lists are the exception: what is left of them when one throws
\* goes on.)
WindsDown ==
  /\ cache = "closed" => /\ Running = {} /\ stage \in {"settled", "over"}
                         /\ Asked # {} => Threw # {}
  /\ answer # "none" => /\ \A s \in Sites : session[s] # "open"
                        /\ temp = "there" => disk = "refused"

\* The guide in place is replaced by a whole one alone, of a build that was not
\* cancelled in its grab and has said every site.
GuideIsWhole ==
  guide = "new" =>
    /\ pieces = Pieces
    /\ command = "build" /\ ended = "grab:done" /\ \A s \in Sites : said[s] = 1

\* A run answers with all that happened to it.  One whose end was said has said
\* every site once, or dropped it for the cancel, and had no fault; one that
\* resolves has said its end, and unless cancelled every site, its guide in
\* place; what a reporter threw is in the answer; and the guide is whole.
AnswerTellsAll ==
  /\ ended # "none" =>
       /\ \A s \in Sites : \/ turn[s] \in {"over", "unrun"} /\ said[s] = 1
                           \/ turn[s] = "dropped" /\ said[s] = 0
       /\ ended = "grab:done" => \A s \in Sites : said[s] = 1
  /\ answer = "summary" =>
       /\ ended # "none"
       /\ ~aborted => ended = "grab:done" /\ (command = "build" => guide = "new")
  /\ answer # "none" => (threw <=> answer \in {"reporter", "both"})
  /\ GuideIsWhole
=============================================================================
