------------------------------ MODULE SiteClock ------------------------------
(* Where a site's wall clock goes: src/grabber/clock.ts.  Every method of the  *)
(* clock is an action that takes no time, and Tick is a moment passing.  What  *)
(* the moment should be given to is kept beside it as history: "moments" says  *)
(* what held in each, and "ran" and "served" in which a call to the run's      *)
(* thread was worked on.                                                       *)
EXTENDS Integers, Sequences, FiniteSets, FiniteSetsExt, Functions

CONSTANTS
  MaxNow,   \* bound: moments that pass
  MaxWork,  \* bound: parses of the site at once
  MaxAsked, \* bound: requests of the site at once
  MaxMoves  \* bound: changes within one moment

ClockAssumption == MaxNow \in Nat

VARIABLES
  now,
  turn, asked, waiting, out,      \* the turn, and requests asked outside it, waiting and out
  held, rateLimited, reading,     \* a hold, a rate limit, and passes reading a document
  working, queued,                \* local work under way, and waiting for a slot
  calls,                          \* of the work under way, calls out on the run's thread
  alone, ran,                     \* stretches nothing but those calls was doing, and that they ran in
  cancelled,
  part, since,                    \* what the time since "since" goes to
  spent,                          \* what each part was given
  moments, served,                \* history
  moves                           \* changes in this moment, for the bound

load == <<asked, waiting, out, held, rateLimited, reading, working, queued>>
vars == <<now, turn, load, calls, alone, ran, cancelled, part, since, spent, moments, served, moves>>

MEASURED_TIME == {"source", "held", "rateLimit", "working", "queued"}
noTime == [p \in MEASURED_TIME |-> 0]

\* The first part that holds: "elsewhere" is work waiting on the run's thread alone.
Holding(h, w, o, limited, work, away, q, r) ==
  CASE h /\ w + o > 0 -> "held"
    [] ~(h /\ w + o > 0) /\ o > 0 -> "source"
    [] o = 0 /\ w > 0 /\ ~h /\ limited -> "rateLimit"
    [] OTHER -> CASE work > away -> "working"
                  [] work <= away /\ away > 0 -> "elsewhere"
                  [] OTHER -> IF q > 0 THEN "queued" ELSE IF r > 0 THEN "source" ELSE "none"

HoldsNow ==
  IF turn \/ asked > 0
  THEN Holding(held, waiting, out, rateLimited, working, Len(calls), queued, reading)
  ELSE "none"

-----------------------------------------------------------------------------
(* #close: the stretch since the last change given to what held through it.    *)
\* One that a call back split is taken on with.
Extended(stretches) ==
  LET last == Len(stretches)
  IN  IF last > 0 /\ stretches[last][2] = since
      THEN [stretches EXCEPT ![last] = <<@[1], now>>]
      ELSE Append(stretches, <<since, now>>)

Given == IF part = "elsewhere" THEN "working" ELSE part

ClosedSpent ==
  IF part = "none" THEN spent ELSE [spent EXCEPT ![Given] = @ + (now - since)]
ClosedAlone ==
  IF part = "elsewhere" /\ now > since THEN Extended(alone) ELSE alone

\* #moved: what holds once the rest of the step is done, closing where it changed.
Moved ==
  IF HoldsNow' = part THEN UNCHANGED <<part, since, spent, alone>>
  ELSE /\ part' = HoldsNow'
       /\ since' = now
       /\ spent' = ClosedSpent
       /\ alone' = ClosedAlone

\* #covered: how much of a stretch the given others cover, swept along in the order
\* they began; of those that began together the one that lasts says all.
CoveredTwice(from, to, stretches) == \* mutant
  LET lasts(n) == Max({from} \cup {s[2] : s \in {one \in stretches : one[1] = n}})
      swept[n \in 0 .. to] ==
        IF n = 0 THEN 0
        ELSE LET begun == Max({n - 1, from})
                 ended == Min({lasts(n - 1), to})
             IN  IF ended > begun THEN swept[n - 1] + (ended - begun) ELSE swept[n - 1]
  IN  swept[to]

\* The sweep past those that begin at n.
SweptPast(n, was, from, to, stretches) ==
  LET lasts == Max({from} \cup {s[2] : s \in {one \in stretches : one[1] = n}})
      begun == Max({n, was.reached})
      ended == Min({lasts, to})
  IN  IF ended > begun THEN [ms |-> was.ms + (ended - begun), reached |-> ended] ELSE was

Covered(from, to, stretches) ==
  LET swept[n \in 0 .. to] ==
        IF n = 0 THEN [ms |-> 0, reached |-> from]
        ELSE SweptPast(n - 1, swept[n - 1], from, to, stretches)
  IN  swept[to].ms

\* #settle: what no call still out could change, over the given stretches in turn.
SettledOver(stretch, was, upTo, runs) ==
  LET from == stretch[1]
      to == stretch[2]
      until == Min({to, upTo})
  IN  [waited |-> IF from >= upTo THEN was.waited
                  ELSE was.waited + (until - from - Covered(from, until, runs)),
       alone |-> IF to <= upTo THEN was.alone
                 ELSE Append(was.alone, <<Max({from, upTo}), to>>)]

Settled(stretches, runs, still) ==
  LET upTo == Min({MaxNow + 1} \cup Range(still))
      over[i \in 0 .. Len(stretches)] ==
        IF i = 0 THEN [waited |-> 0, alone |-> <<>>]
        ELSE SettledOver(stretches[i], over[i - 1], upTo, runs)
      last == over[Len(stretches)]
  IN  [waited |-> last.waited, alone |-> last.alone, ran |-> {s \in runs : s[2] > upTo}]

-----------------------------------------------------------------------------
Init ==
  /\ now = 0 /\ turn = FALSE /\ asked = 0 /\ waiting = 0 /\ out = 0
  /\ held = FALSE /\ rateLimited = FALSE /\ reading = 0 /\ working = 0 /\ queued = 0
  /\ calls = <<>> /\ alone = <<>> /\ ran = {} /\ cancelled = FALSE
  /\ part = "none" /\ since = 0 /\ spent = noTime
  /\ moments = <<>> /\ served = {} /\ moves = 0

history == <<moments, served>>

Tick ==
  /\ now < MaxNow
  /\ now' = now + 1
  /\ moves' = 0
  /\ moments' = Append(moments, HoldsNow)
  /\ UNCHANGED <<turn, load, calls, alone, ran, cancelled, part, since, spent, served>>

Turn ==
  /\ turn' = ~turn
  /\ turn => working + queued + reading + waiting + out = 0
  /\ UNCHANGED <<now, load, calls, ran, cancelled, history>>
  /\ Moved

\* A request asked for: outside a turn it is what puts the site on the clock.
Ask ==
  /\ ~cancelled /\ waiting + out < MaxAsked
  /\ waiting' = waiting + 1
  /\ asked' = IF turn THEN asked ELSE asked + 1
  /\ UNCHANGED <<now, turn, out, held, rateLimited, reading, working, queued, calls, ran,
                 cancelled, history>>
  /\ Moved

AskSettled ==
  /\ asked > 0 /\ waiting + out < asked
  /\ asked' = asked - 1
  /\ UNCHANGED <<now, turn, waiting, out, held, rateLimited, reading, working, queued, calls, ran,
                 cancelled, history>>
  /\ Moved

Sent ==
  /\ waiting > 0
  /\ waiting' = waiting - 1
  /\ out' = out + 1
  /\ UNCHANGED <<now, turn, asked, held, rateLimited, reading, working, queued, calls, ran,
                 cancelled, history>>
  /\ Moved

Answered ==
  /\ out > 0
  /\ out' = out - 1
  /\ UNCHANGED <<now, turn, asked, waiting, held, rateLimited, reading, working, queued, calls,
                 ran, cancelled, history>>
  /\ Moved

Held ==
  /\ ~cancelled
  /\ held' = ~held
  /\ UNCHANGED <<now, turn, asked, waiting, out, rateLimited, reading, working, queued, calls, ran,
                 cancelled, history>>
  /\ Moved

RateLimited ==
  /\ ~cancelled
  /\ rateLimited' = ~rateLimited
  /\ UNCHANGED <<now, turn, asked, waiting, out, held, reading, working, queued, calls, ran,
                 cancelled, history>>
  /\ Moved

Reading ==
  /\ turn
  /\ reading' = 1 - reading
  /\ UNCHANGED <<now, turn, asked, waiting, out, held, rateLimited, working, queued, calls, ran,
                 cancelled, history>>
  /\ Moved

Queued ==
  /\ turn /\ ~cancelled /\ working + queued < MaxWork
  /\ queued' = queued + 1
  /\ UNCHANGED <<now, turn, asked, waiting, out, held, rateLimited, reading, working, calls, ran,
                 cancelled, history>>
  /\ Moved

Started ==
  /\ queued > 0
  /\ queued' = queued - 1
  /\ working' = working + 1
  /\ UNCHANGED <<now, turn, asked, waiting, out, held, rateLimited, reading, calls, ran,
                 cancelled, history>>
  /\ Moved

Finished ==
  /\ working > Len(calls)
  /\ working' = working - 1
  /\ UNCHANGED <<now, turn, asked, waiting, out, held, rateLimited, reading, queued, calls, ran,
                 cancelled, history>>
  /\ Moved

\* Work under way that goes to wait on the run's thread.
Elsewhere ==
  /\ working > Len(calls)
  /\ calls' = Append(calls, now)
  /\ UNCHANGED <<now, turn, load, ran, cancelled, history>>
  /\ Moved

\* Back from it, the first "wait" moments of the call spent waiting for a slot there.
Back(i, wait) ==
  LET from == calls[i] + wait
      still == SubSeq(calls, 1, i - 1) \o SubSeq(calls, i + 1, Len(calls))
      runs == IF from < now THEN ran \cup {<<from, now>>} ELSE ran
      settled == Settled(ClosedAlone, runs, still)
  IN  /\ from <= now
      /\ calls' = still
      /\ ran' = settled.ran
      /\ alone' = settled.alone
      /\ spent' = [ClosedSpent EXCEPT !["working"] = @ - settled.waited,
                                      !["queued"] = @ + settled.waited]
      /\ since' = now
      /\ served' = served \cup (from .. (now - 1))
      /\ UNCHANGED <<now, turn, load, cancelled, moments>>
      /\ part' = HoldsNow'

\* What waits is dropped by the same cancel, and nothing holds anything up.
Cancelled ==
  /\ ~cancelled
  /\ cancelled' = TRUE
  /\ waiting' = 0
  /\ queued' = 0
  /\ held' = FALSE
  /\ rateLimited' = FALSE
  /\ UNCHANGED <<now, turn, asked, out, reading, working, calls, ran, history>>
  /\ Moved

Comes == \E i \in DOMAIN calls : \E wait \in 0 .. MaxNow : Back(i, wait)

Moves ==
  \/ Turn \/ Ask \/ AskSettled \/ Sent \/ Answered \/ Held \/ RateLimited
  \/ Reading \/ Queued \/ Started \/ Finished \/ Elsewhere \/ Comes \/ Cancelled

Next == Tick \/ (Moves /\ moves < MaxMoves /\ moves' = moves + 1)

Spec == Init /\ [][Next]_vars

-----------------------------------------------------------------------------
\* What the clock says now, the stretch under way included; and as `site:done`.
Spent == ClosedSpent
timeSpent(ms, measured) ==
  LET total == measured.source + measured.held + measured.rateLimit
               + measured.working + measured.queued
      whole == Max({ms, total})
  IN  [ms |-> whole, other |-> whole - total]

Moments(p) == {t \in 0 .. (now - 1) : moments[t + 1] = p}

(* Every moment a site is on the clock is given to one part and once: to what  *)
(* held in it; and one in which it only waited on the run's thread, to its     *)
(* work if some call of it was being worked on there and to the wait for a     *)
(* slot if none was, once every call has come back to say.                     *)
TimeIsGivenOnce ==
  LET elsewhere == Moments("elsewhere")
  IN  /\ \A p \in {"source", "held", "rateLimit"} : Spent[p] = Cardinality(Moments(p))
      /\ Spent["working"] + Spent["queued"]
           = Cardinality(Moments("working")) + Cardinality(Moments("queued")) + Cardinality(elsewhere)
      /\ calls = <<>> =>
           Spent["working"] = Cardinality(Moments("working")) + Cardinality(elsewhere \cap served)
      /\ timeSpent(now, Spent).other = Cardinality(Moments("none"))
=============================================================================
