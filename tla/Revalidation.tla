---------------------------- MODULE Revalidation ----------------------------
(* Asking a source whether anything has changed: src/grabber/revalidate.ts,    *)
(* and what src/grabber/site-run.ts makes of the answer.  One channel of one   *)
(* source that answers a whole document at one url, so that every request of   *)
(* every run asks the same url, for the days that run finds stale.             *)
EXTENDS Integers, FiniteSets, FiniteSetsExt, TLC

CONSTANTS
  DayLen,       \* moments in a day
  LastDay,      \* bound: the last day there is
  MaxVersion,   \* bound: what the source publishes after its first document
  MaxLength,    \* bound: days in a window
  PerRequest,   \* days of the window one request may span
  maxAgeDays,   \* the policy a run goes by; today is always refetched
  Dated,        \* the source answers with a Last-Modified, else with an ETag
  Failing       \* the steps of a run that may fail: "body", "write"

RevalidationAssumption ==
  /\ DayLen \in Nat \ {0} /\ MaxLength \in Nat \ {0} /\ PerRequest \in Nat \ {0}
  /\ LastDay \in Nat /\ MaxVersion \in Nat /\ maxAgeDays \in Nat
  /\ Dated \in BOOLEAN /\ Failing \subseteq {"body", "write"}

VARIABLES
  now, version, modified, says,   \* the source: its document, when, and what it says of each day
  cache,                          \* day -> the entry cached, if any: [grabbedAt, holds]
  validator,                      \* what is stored about the url: at most one
  run,                            \* the run under way, and its request
  outcome,                        \* history: of the last run, what it kept and was told
  seen                            \* history: the last document answered of, those read to their end

vars == <<now, version, modified, says, cache, validator, run, outcome, seen>>

Days == 0 .. LastDay
Today(moment) == moment \div DayLen
The(option) == CHOOSE value \in option : TRUE
noRun == [at |-> "none"]

-----------------------------------------------------------------------------
(* What a run asks for, and with (site-run.ts #collectStale, #revalidationFor). *)
Aged(entry, at) == entry.grabbedAt < at - maxAgeDays * DayLen
Stale(day, at) ==
  \/ cache[day] = {}
  \/ day = Today(at)
  \/ \E entry \in cache[day] : Aged(entry, at)

mayKeepCached(days, at, refresh) == \* mutant: an entry of any age
  /\ ~refresh
  /\ \A day \in days : cache[day] # {}

mayKeep(days, at, refresh) ==
  /\ ~refresh
  /\ \A day \in days : cache[day] # {} /\ ~Aged(The(cache[day]), at)

since(days) ==
  LET grabbed == {entry.grabbedAt : entry \in UNION {cache[day] : day \in days}}
  IN  IF grabbed = {} THEN {} ELSE {Min(grabbed)}

\* A validator about days that have left the window goes as the run starts.
pruneValidators(first) == {held \in validator : held.lastDay >= first}

-----------------------------------------------------------------------------
(* The source.                                                                 *)
\* A document of its own moment, saying something new of some days.
Publish ==
  /\ version < MaxVersion
  /\ Today(now + 1) <= LastDay
  /\ \E changed \in SUBSET {day \in Days : day >= Today(now + 1)} \ {{}} :
       says' = [day \in Days |-> IF day \in changed THEN version + 1 ELSE says[day]]
  /\ version' = version + 1
  /\ modified' = now + 1
  /\ now' = now + 1
  /\ UNCHANGED <<cache, validator, run, outcome, seen>>

Tick ==
  /\ Today(now + 1) <= LastDay
  /\ now' = now + 1
  /\ UNCHANGED <<version, modified, says, cache, validator, run, outcome, seen>>

\* Whether the source answers 304 to what it was asked with.
Unmodified(asked) ==
  \/ \E held \in asked.validator :
       held.stamp = (IF Dated THEN modified ELSE version)
  \/ asked.validator = {} /\ Dated /\ \E moment \in asked.since : modified <= moment

-----------------------------------------------------------------------------
(* A run.                                                                      *)
\* The next of its requests (planner.ts: the window cut first, then what is stale).
Asking(left, first, at, refresh) ==
  LET group == (Min(left) - first) \div PerRequest
      days == {day \in left : (day - first) \div PerRequest = group}
  IN  [at |-> "asking", now |-> at, first |-> first, refresh |-> refresh, left |-> left \ days,
       days |-> days, mayKeep |-> mayKeep(days, at, refresh), touched |-> FALSE]

Start ==
  /\ run.at = "none"
  /\ \E length \in 1 .. MaxLength, refresh \in BOOLEAN :
       LET window == Today(now) .. (Today(now) + length - 1)
       IN  /\ window \subseteq Days
           /\ run' = Asking({day \in window : refresh \/ Stale(day, now)}, Today(now), now, refresh)
           /\ outcome' = [at |-> now, window |-> window, failed |-> FALSE, kept |-> {}, said |-> says]
  /\ validator' = pruneValidators(Today(now))
  /\ UNCHANGED <<now, version, modified, says, cache, seen>>

\* beforeRequest: a stored validator first, and the entries' own age without one.
Asked ==
  IF ~run.mayKeep THEN [validator |-> {}, since |-> {}]
  ELSE [validator |-> validator, since |-> since(run.days)]

\* remember: of a 200 what it says, of a 304 what was held, seen again; the last
\* day is the request's.
remember(status, stamp) ==
  LET held == {h.stamp : h \in validator}
      kept == IF stamp # {} THEN stamp ELSE IF status = 304 THEN held ELSE {}
  IN  {[stamp |-> s, lastDay |-> Max(run.days)] : s \in kept}

\* The headers of an answer: a 304 keeps every channel-day asked for.  A source
\* may offer no validator with a document.
Answer ==
  /\ run.at = "asking"
  /\ \E offered \in {{}, {IF Dated THEN modified ELSE version}} :
       LET status == IF Unmodified(Asked) THEN 304 ELSE 200
       IN  /\ validator' = remember(status, offered)
           /\ run' = [run EXCEPT !.at = IF status = 304 THEN "kept" ELSE "reading",
                                 !.touched = offered # {}]
           /\ outcome' = [outcome EXCEPT !.said = [day \in Days |->
                                            IF day \in run.days THEN says[day] ELSE @[day]],
                                         !.kept = IF status = 304 THEN @ \cup run.days ELSE @]
           /\ seen' = [seen EXCEPT !.last = version]
  /\ UNCHANGED <<now, version, modified, says, cache>>

\* The body in hand, or cut off: then what was remembered of it is forgotten.
Read ==
  /\ run.at = "reading"
  /\ run' = [run EXCEPT !.at = "writing"]
  /\ seen' = [seen EXCEPT !.whole = @ \cup {seen.last}]
  /\ UNCHANGED <<now, version, modified, says, cache, validator, outcome>>

forget == IF run.touched THEN {} ELSE validator

CutOff ==
  /\ run.at = "reading" /\ "body" \in Failing
  /\ run' = [run EXCEPT !.at = "settled"]
  /\ validator' = forget
  /\ outcome' = [outcome EXCEPT !.failed = TRUE]
  /\ UNCHANGED <<now, version, modified, says, cache, seen>>

\* Each channel-day's parse and write, all of them waited for: a failure is its own.
Stores(failing) ==
  /\ run.at = "writing"
  /\ failing \subseteq run.days /\ (failing # {} => "write" \in Failing)
  /\ cache' = [day \in Days |->
                IF day \in run.days \ failing
                THEN {[grabbedAt |-> run.now, holds |-> outcome.said[day]]} ELSE cache[day]]
  /\ run' = [run EXCEPT !.at = "settled"]
  /\ outcome' = [outcome EXCEPT !.failed = @ \/ failing # {}]
  /\ UNCHANGED <<now, version, modified, says, validator, seen>>

Further ==
  /\ run.at \in {"kept", "settled"} /\ run.left # {}
  /\ run' = Asking(run.left, run.first, run.now, run.refresh)
  /\ UNCHANGED <<now, version, modified, says, cache, validator, outcome, seen>>

\* The run over, and the days before its window pruned.
Over ==
  /\ run.at \in {"kept", "settled"} /\ run.left = {}
  /\ run' = noRun
  /\ cache' = [day \in Days |-> IF day < run.first THEN {} ELSE cache[day]]
  /\ UNCHANGED <<now, version, modified, says, validator, outcome, seen>>

Init ==
  /\ now = 0 /\ version = 0 /\ modified = 0
  /\ says = [day \in Days |-> 0]
  /\ cache = [day \in Days |-> {}]
  /\ validator = {}
  /\ run = noRun
  /\ outcome = [at |-> 0, window |-> {}, failed |-> FALSE, kept |-> {}, said |-> says]
  /\ seen = [last |-> 0, whole |-> {}]

Next ==
  \/ Publish \/ Tick \/ Start \/ Answer \/ Read \/ CutOff \/ Further \/ Over
  \/ \E failing \in SUBSET Days : Stores(failing)

Spec == Init /\ [][Next]_vars

-----------------------------------------------------------------------------
(* What a source may still freeze is bounded: after a run in which nothing     *)
(* failed, every day of its window has an entry, and one that is not what the  *)
(* source said as it answered is no older than maxAgeDays.                     *)
FreezeIsBounded ==
  run = noRun /\ ~outcome.failed =>
    \A day \in outcome.window : \E entry \in cache[day] :
      entry.holds = outcome.said[day] \/ ~Aged(entry, outcome.at)

(* No run keeps anything on the word of a validator whose own document was cut *)
(* off before it was read.                                                     *)
KeptWasRead == run.at = "kept" => seen.last \in seen.whole

(* A channel-day kept on a 304 holds what the source says of it.               *)
KeptIsCurrent ==
  \A day \in outcome.kept : run.at = "kept" => The(cache[day]).holds = outcome.said[day]
=============================================================================
