------------------------------- MODULE MCRun --------------------------------
(* Build for three sites, of which two ask for their channel list; and, each   *)
(* by itself, what one site of a run goes by: its pacing, its clock, and what  *)
(* it asks again of its source.  Which of the four a behaviour is of is chosen *)
(* at the start, and the others rest.                                          *)
EXTENDS Build, TLC

CONSTANTS
  a, b, c,
  Ceiling, MaxMs, RecoverAfter, MaxRequests, MaxTime, NoTimer,
  MaxNow, MaxMoves, MaxWork, MaxAsked,
  DayLen, LastDay, MaxVersion, MaxLength, PerRequest, maxAgeDays, Dated, CanFail

VARIABLES
  which,
  moment, inflight, paused, concurrency, clean, holdingUntil, timer, unref, disposed, cut,
  promised, floor,
  asked, waiting, onTurn, out, held, rateLimited, reading, working, queued, calls, alone, ran,
  cancelled, part, since, spent, moments, served, moves,
  now, version, modified, says, entries, validator, asking, outcome, seen

MCSites == {a, b, c}
MCFetched == {a, b}

Pacing == INSTANCE SitePacing WITH now <- moment, aborted <- cut
Clock == INSTANCE SiteClock WITH turn <- onTurn
Again == INSTANCE Revalidation WITH cache <- entries, run <- asking, Failing <- CanFail

ASSUME PartsAssumption ==
  Pacing!PacingAssumption /\ Clock!ClockAssumption /\ Again!RevalidationAssumption

ofBuild == vars
ofPacing == <<moment, inflight, paused, concurrency, clean, holdingUntil, timer, unref,
              disposed, cut, promised, floor>>
ofClock == <<onTurn, out, held, rateLimited, reading, working, queued, calls, alone, ran,
             cancelled, part, since, spent, moments, served, moves>>
ofAgain == <<version, modified, says, entries, validator, asking, outcome, seen>>
all == <<which, asked, waiting, now, ofBuild, ofPacing, ofClock, ofAgain>>

MCInit ==
  /\ which \in {"build", "pacing", "clock", "again"}
  /\ Init
  /\ which # "build" => /\ command = "build" /\ ~threads /\ ~aborted
                        /\ \A s \in Sites : session[s] = "none"
  /\ Pacing!Init /\ Clock!Init /\ Again!Init

MCNext ==
  \/ which = "build" /\ Next /\ UNCHANGED <<which, asked, waiting, now, ofPacing, ofClock, ofAgain>>
  \/ which = "pacing" /\ Pacing!Next /\ UNCHANGED <<which, now, ofBuild, ofClock, ofAgain>>
  \/ which = "clock" /\ Clock!Next /\ UNCHANGED <<which, ofBuild, ofPacing, ofAgain>>
  \/ which = "again" /\ Again!Next /\ UNCHANGED <<which, asked, waiting, ofBuild, ofPacing, ofClock>>
  \/ which # "build" /\ UNCHANGED all \* each may rest; a run that can do nothing is a deadlock

Paced(A) == which = "pacing" /\ A /\ UNCHANGED <<which, now, ofBuild, ofClock, ofAgain>>
MCSpec ==
  /\ MCInit /\ [][MCNext]_all
  /\ WF_all(Paced(Pacing!Tick)) /\ WF_all(Paced(Pacing!Release))
  /\ SF_all(Paced(Pacing!Send)) /\ WF_all(Paced(Pacing!Settles))

-----------------------------------------------------------------------------
\* While any slow-down's wait stands nothing is sent, however holds overlap.
SentInTurn == [][Pacing!SendsInTurn]_all
\* A paused queue has a timer that starts it again, unless cancelled, and a
\* violation told to several requests at once halves the concurrency once.
HoldFits == Pacing!HoldFits
\* Every request asked for is sent, or dropped by a cancel, in the end.
AskedIsSent == which = "pacing" /\ waiting > 0 ~> waiting = 0

\* Every moment a site is on the clock is given to one part of it, and once.
TimeIsGivenOnce == which = "clock" => Clock!TimeIsGivenOnce

\* What a source may still freeze is bounded, and nothing is kept on the word of
\* a validator whose document was cut off, as Revalidation has it.
FreezeIsBounded == Again!FreezeIsBounded /\ Again!KeptWasRead
\* A channel-day kept on a 304 holds what the source says of it: what
\* docs/site-config.md:1028 has a request for one channel-day promise.
KeptIsCurrent == Again!KeptIsCurrent
=============================================================================
