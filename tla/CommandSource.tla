--------------------------- MODULE CommandSource ---------------------------
(* A program that writes XMLTV to its stdout, as a source: runCommand and the  *)
(* two passes of defineCommandSite, with the windows defineTvGrabCommandSite   *)
(* cuts a run into.  The program is a process of its own, on the other end of  *)
(* a pipe that holds so much and no more.                                      *)
EXTENDS Integers, Sequences, FiniteSets, FiniteSetsExt

CONSTANTS
  Wanted,        \* the days stale, of one channel
  Horizon,       \* bound: the days a document may be about
  Room,          \* what the pipe holds
  Limited,       \* whether there is a timeoutMs
  ArgsWait       \* whether `args` waits for anything, which tv_grab's does not

ProgramAssumption ==
  Horizon \in Nat \ {0} /\ Wanted \subseteq 1 .. Horizon /\ Wanted # {}

VARIABLES
  mode,          \* "list" or "grab": the channel list, or a pass over the days
  windows, at,   \* the invocations, and the one of now
  phase, said,   \* the pass, and how often each day was emitted
  signal,        \* the run's signal has fired
  prog,          \* the program
  stopped, killer, hears,  \* why it was stopped, the SIGKILL to come, the listener
  ends           \* history: how the program of each window ended

vars == <<mode, windows, at, phase, said, signal, prog, stopped, killer, hears, ends>>

-----------------------------------------------------------------------------
(* The windows.  A program that is asked for all at once, or cannot be told a  *)
(* stretch, is run once; any other once for each run of consecutive days.      *)
commandWindow(days) ==
  [days |-> days, startDay |-> Min(days), span |-> Max(days) - Min(days) + 1]

stretches(days) ==
  LET starts == {day \in days : day - 1 \notin days}
      before(first) == {day \in starts : day < first}
      Start(i) == CHOOSE first \in starts : Cardinality(before(first)) = i - 1
      Stretch(first) == {day \in days : day >= first /\ first .. day \subseteq days}
  IN  [i \in 1 .. Cardinality(starts) |-> Stretch(Start(i))]

runs(days, capabilities, method) ==
  IF method = "allatonce" \/ "baseline" \notin capabilities
    THEN <<commandWindow(days)>>
    ELSE LET groups == stretches(days)
         IN  [i \in DOMAIN groups |-> commandWindow(groups[i])]

\* The channel-days one run may answer for.
claimed == UNION {windows[i].days : i \in DOMAIN windows}
mine(i) == IF Len(windows) = 1 THEN Wanted
           ELSE {day \in Wanted : day \in windows[i].days \/ day \notin claimed}

\* What a program told its window writes: channels first (0; a list is asked for of
\* the first day), then its days in order.
Told(w, baseline) ==
  IF baseline THEN [first |-> w.startDay, last |-> w.startDay + w.span - 1]
              ELSE [first |-> 1, last |-> Horizon]
Document(w, baseline) ==
  LET told == Told(w, baseline)
      first == IF mode = "list" THEN 0 ELSE told.first
  IN  [i \in 1 .. (told.last - first + 1) |-> first + i - 1]

-----------------------------------------------------------------------------
NotRun == [st |-> "none", left |-> <<>>, pipe |-> <<>>, deaf |-> FALSE, stuck |-> FALSE, code |-> "none"]

Init ==
  /\ mode \in {"list", "grab"}
  /\ \E capabilities \in SUBSET {"baseline"}, method \in {"allatonce", "other"} :
       windows = IF mode = "list" THEN <<commandWindow({1})>>
                 ELSE runs(Wanted, capabilities, method)
  /\ at = 1 /\ phase = "sending" /\ said = [piece \in 0 .. Horizon |-> 0]
  /\ signal = FALSE /\ prog = NotRun
  /\ stopped = FALSE /\ killer = FALSE /\ hears = FALSE /\ ends = <<>>

Pass == <<mode, windows, at, ends>>
Over == {"returned", "threw", "left"}

\* SIGTERM, once, to a program that has not exited; SIGKILL after the grace.
stopPolitely ==  \* mutant
  IF stopped \/ prog.st # "running"
    THEN UNCHANGED <<prog, stopped, killer>>
    ELSE /\ stopped' = TRUE /\ killer' = FALSE
         /\ prog' = IF prog.deaf THEN prog ELSE [prog EXCEPT !.st = "exited", !.code = "signal"]
stop ==
  IF stopped \/ prog.st # "running"
    THEN UNCHANGED <<prog, stopped, killer>>
    ELSE /\ stopped' = TRUE /\ killer' = TRUE
         /\ prog' = IF prog.deaf THEN prog ELSE [prog EXCEPT !.st = "exited", !.code = "signal"]

(* The task of ctx.paced: the arguments worked out, and the program spawned in *)
(* the call that has them.  A signal that has fired already is not heard.      *)
Spawns ==
  /\ \/ \E baseline, deaf \in BOOLEAN, stuck \in {FALSE, Limited} :
          prog' = [st |-> "running", left |-> Document(windows[at], baseline), pipe |-> <<>>,
                   deaf |-> deaf, stuck |-> stuck, code |-> "none"]
     \/ prog' = [NotRun EXCEPT !.st = "missing"]
  /\ stopped' = FALSE /\ killer' = FALSE /\ hears' = ~signal

Spawn ==
  /\ phase = "sending" /\ Spawns /\ phase' = "reading"
  /\ UNCHANGED <<Pass, said, signal>>

\* The queue gave up on the task as the signal fired, and the task goes on.
SpawnLate ==
  /\ mode = "grab" /\ phase = "threw" /\ signal /\ prog.st = "none" /\ ArgsWait /\ Spawns
  /\ UNCHANGED <<Pass, phase, said, signal>>

(* The run's signal: a pass waiting for its slot is let go of, whose task goes  *)
(* on; and a program is stopped.                                               *)
Abort ==
  /\ ~signal /\ phase \notin Over /\ signal' = TRUE
  /\ phase' = IF mode = "grab" /\ phase = "sending" THEN "threw" ELSE phase
  /\ IF hears THEN stop ELSE UNCHANGED <<prog, stopped, killer>>
  /\ UNCHANGED <<Pass, said, hears>>

-----------------------------------------------------------------------------
(* The program: it writes while there is room and someone to read, and exits.  *)
Writes ==
  /\ prog.st = "running" /\ ~prog.stuck /\ prog.left # <<>>
  /\ Len(prog.pipe) < Room /\ phase \notin Over
  /\ prog' = [prog EXCEPT !.left = Tail(@), !.pipe = Append(@, Head(prog.left))]
  /\ UNCHANGED <<Pass, phase, said, signal, stopped, killer, hears>>

Quit(codes) ==
  /\ prog.st = "running" /\ \E code \in codes : prog' = [prog EXCEPT !.st = "exited", !.code = code]
  /\ UNCHANGED <<Pass, phase, said, signal, stopped, killer, hears>>

Exits == prog.left = <<>> /\ ~prog.stuck /\ Quit({"0", "accepted", "other"})
\* One of okExitCodes, for a document known to be partial; any other is a failure.
Dies == prog.left # <<>> /\ Quit({"accepted", "other", "signal"})

Sigkill ==
  /\ killer /\ prog.st = "running"
  /\ prog' = [prog EXCEPT !.st = "exited", !.code = "signal"]
  /\ UNCHANGED <<Pass, phase, said, signal, stopped, killer, hears>>

Timeout ==
  /\ Limited /\ prog.st = "running" /\ ~stopped /\ stop
  /\ UNCHANGED <<Pass, phase, said, signal, hears>>

\* 'close': exited, and its output read to the end or let go of.
Closes ==
  /\ prog.st = "exited" /\ phase # "reading"
  /\ prog' = [prog EXCEPT !.st = "closed", !.pipe = <<>>, !.left = <<>>]
  /\ ends' = Append(ends, prog.code)
  /\ killer' = FALSE /\ hears' = FALSE
  /\ UNCHANGED <<mode, windows, at, phase, said, signal, stopped>>

-----------------------------------------------------------------------------
(* Reading: a piece at a time, and the signal looked at between them.          *)
LetsGo(how) == phase' = how /\ stop /\ UNCHANGED <<Pass, said, signal, hears>>

Takes(piece) ==
  /\ said' = IF piece = 0 \/ piece \in mine(at) THEN [said EXCEPT ![piece] = @ + 1] ELSE said
  /\ prog' = [prog EXCEPT !.pipe = Tail(@)]
  /\ UNCHANGED <<Pass, phase, signal, stopped, killer, hears>>

Reads ==
  /\ phase = "reading" /\ prog.pipe # <<>>
  /\ CASE signal -> LetsGo("threw")
       [] ~signal /\ mode = "list" /\ Head(prog.pipe) # 0 -> LetsGo("returned")
       [] OTHER -> Takes(Head(prog.pipe))

\* A document that cannot be read, or a consumer that stops reading.
Garbled == phase = "reading" /\ prog.pipe # <<>> /\ LetsGo("threw")
LeftOff == mode = "grab" /\ phase = "reading" /\ prog.pipe # <<>> /\ LetsGo("left")

NeverStarted ==
  /\ phase = "reading" /\ prog.st = "missing" /\ phase' = "threw"
  /\ UNCHANGED <<Pass, said, signal, prog, stopped, killer, hears>>

\* The end of what it wrote, wherever it stopped, reads as the end of a document.
EndRead ==
  /\ phase = "reading" /\ prog.st = "exited" /\ prog.pipe = <<>>
  /\ phase' = "finishing"
  /\ UNCHANGED <<Pass, said, signal, prog, stopped, killer, hears>>

\* finished(): how it ended decides whether that was the document.
TrustedUnlessStopped == ~stopped  \* mutant
Trusted == ~stopped /\ prog.code \in {"0", "accepted"}
Finished ==
  /\ phase = "finishing" /\ prog.st = "closed"
  /\ IF Trusted /\ at < Len(windows)
       THEN phase' = "sending" /\ at' = at + 1
       ELSE phase' = (IF Trusted THEN "returned" ELSE "threw") /\ UNCHANGED at
  /\ UNCHANGED <<mode, windows, said, signal, prog, stopped, killer, hears, ends>>

Works == Spawn \/ SpawnLate \/ Writes \/ Exits \/ Sigkill \/ Closes
         \/ Reads \/ NeverStarted \/ EndRead \/ Finished
Next == Works \/ Abort \/ Dies \/ Timeout \/ Garbled \/ LeftOff
Spec == Init /\ [][Next]_vars /\ WF_vars(Works) /\ WF_vars(Timeout)

-----------------------------------------------------------------------------
\* A pass that ends well has each day it was for, once, and a list its channels,
\* but where a program said itself that it left something out: what stops half
\* way is never taken for a document that had no more to say.
Partial == \E i \in DOMAIN ends : ends[i] = "accepted"
CutShortIsNotTaken ==
  /\ \A day \in 1 .. Horizon : said[day] <= 1
  /\ phase = "returned" /\ ~Partial =>
       IF mode = "list" THEN said[0] = 1 ELSE \A day \in Wanted : said[day] = 1

\* A pass ends, and leaves no program running, whatever it is deaf to.
AllGone == phase \in Over /\ prog.st \in {"none", "missing", "closed"}
ProgramsEnd == <>[]AllGone
=============================================================================
