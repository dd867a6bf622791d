-------------------------- MODULE SchedulesDirect --------------------------
(* A Schedules Direct site, one run after another: the pass of stream.ts, the
   md5 it remembers of each station-day, the cache its days are written to, and
   a service that changes what it lists as it likes.  A listing is known by the
   moment it was made, which is its md5 and its lastModified both; a station
   has one channel, as the site's own channel list sees to.                *)
EXTENDS Integers, Sequences, FiniteSets, Functions

CONSTANTS
  StationDays,   \* <<station, day>>, both numbers
  Programmes,
  Airs,          \* the programmes the listings of a station-day name
  Md5s,          \* MD5S_PER_REQUEST
  PerRequest,    \* what stationDaysPerRequest may be, from run to run
  Waits,         \* how many queuedWaits there are
  Mishaps,       \* what may go wrong
  MaxMishaps, MaxTime,  \* bounds
  None, Incomplete      \* no value, and MD5_INCOMPLETE

\* What there is none of is no number, no "?" and nothing the service says or a run writes.
ASSUME SchedulesAssumption ==
  /\ StationDays \subseteq Nat \X Nat /\ IsFiniteSet(StationDays)
  /\ Airs \in [StationDays -> SUBSET Programmes]
  /\ Md5s \in Nat \ {0} /\ PerRequest \subseteq Nat \ {0}
  /\ None \notin Nat /\ Incomplete \notin Nat /\ None # Incomplete
  /\ None \notin [code : {"omitted", "ok"}, md5 : Nat \cup {None}]
  /\ None \notin [md5 : Nat, has : SUBSET Programmes]

VARIABLES
  listing, generating, detail, clock,  \* the service: 0 is nothing listed
  entry, saved, fingerprint,           \* the cache, the state file, the config
  phase, at, remapped, memory,         \* the run, and what the site remembers
  batches, later, waits, fetching, answer, known, gone, queued, tries,
  owed, said, kept, writes, failed,    \* what the run made of the emissions
  mishaps, lost, leftOut               \* what went wrong so far, and for which days

service == <<listing, generating, detail, clock>>
disk == <<entry, saved, fingerprint>>
md5s == <<batches, later, waits, fetching>>
batch == <<answer, known, gone, queued, tries>>
heard == <<owed, said, kept, writes, failed>>
pass == <<phase, at, remapped, memory, md5s, batch, heard>>
amiss == <<lost, leftOut>>
vars == <<service, disk, pass, mishaps, amiss>>

Nothing == [sd \in StationDays |-> None]
Empty == 0
Silence == [md5 |-> Empty, tagged |-> FALSE]
Unanswered == [sd \in StationDays |-> Silence]
Active == phase \in {"md5s", "schedules", "programmes"}
Missing == {sd \in StationDays : entry[sd] = None}

Idle ==
  /\ phase = "idle" /\ at = 0 /\ remapped = FALSE
  /\ memory = [stamp |-> None, md5 |-> Nothing]
  /\ batches = <<>> /\ later = {} /\ waits = 0 /\ fetching = Nothing
  /\ answer = Unanswered /\ known = {} /\ gone = {} /\ queued = {} /\ tries = 0
  /\ owed = {} /\ said = [sd \in StationDays |-> 0]
  /\ kept = Nothing /\ writes = Nothing /\ failed = FALSE

Init ==
  /\ listing \in [StationDays -> {Empty, 1}] /\ generating = {} /\ clock = 1
  /\ detail \in [Programmes -> {"ready", "queued"}]
  /\ entry = Nothing /\ saved = [stamp |-> None, md5 |-> Nothing] /\ fingerprint = 1
  /\ Idle /\ mishaps = {} /\ lost = {} /\ leftOut = {}

-----------------------------------------------------------------------------
(* The service, and the world around the site.                             *)

Publish(sd) ==
  /\ clock + Cardinality(generating \ {sd}) < MaxTime
  /\ clock' = clock + 1
  /\ listing' = [listing EXCEPT ![sd] = clock + 1]
  /\ generating' = generating \ {sd}
  /\ UNCHANGED <<detail, disk, pass, mishaps, amiss>>

Regenerate(sd) ==
  /\ sd \notin generating /\ clock + Cardinality(generating) < MaxTime
  /\ generating' = generating \cup {sd}
  /\ UNCHANGED <<listing, detail, clock, disk, pass, mishaps, amiss>>

Describe(p) ==
  /\ detail[p] = "queued"
  /\ \E state \in {"ready", "gone"} : detail' = [detail EXCEPT ![p] = state]
  /\ UNCHANGED <<listing, generating, clock, disk, pass, mishaps, amiss>>

Goes(wrong) ==
  /\ wrong \in Mishaps \ mishaps /\ Cardinality(mishaps) < MaxMishaps
  /\ mishaps' = mishaps \cup {wrong}

\* An option changed that changes what the site writes: another fingerprint.
Reconfigure ==
  /\ phase = "idle" /\ Goes("remap")
  /\ fingerprint' = fingerprint + 1
  /\ UNCHANGED <<service, entry, saved, pass, amiss>>

\* The state and the cache are files that can be lost separately.
LoseState ==
  /\ phase = "idle" /\ Goes("state")
  /\ saved' = [stamp |-> None, md5 |-> Nothing]
  /\ UNCHANGED <<service, entry, fingerprint, pass, amiss>>

LoseEntry(sd) ==
  /\ phase = "idle" /\ entry[sd] # None /\ Goes("entry")
  /\ entry' = [entry EXCEPT ![sd] = None]
  /\ UNCHANGED <<service, saved, fingerprint, pass, amiss>>

-----------------------------------------------------------------------------
(* md5.ts, and the cutting of station-days into requests.                  *)

\* Whether what is cached is what an md5 is of: by the md5 stored, or with none
\* by the listing having been made before the entry was.
Believed(stored, md5, cached) ==                                    \* mutant
  stored = md5 \/ (cached # None /\ stored = None /\ md5 <= cached.at)
Matches(stored, md5, cached) ==
  cached # None /\ (stored = md5 \/ (stored = None /\ md5 <= cached.at))

\* What to do about a station-day, by what is stored of it and cached, and what
\* the service said: its code, and the listing's md5 where that is "ok".
Decide(stored, wire, cached) ==
  CASE wire.code = "omitted" -> IF cached = None THEN "fetch" ELSE "keep"
    [] wire.code = "beyond"  -> "empty"
    [] wire.code = "queued"  -> "unknown"
    [] wire.code = "ok" -> IF Matches(stored, wire.md5, cached) THEN "keep" ELSE "fetch"

Earlier(a, b) == a[1] < b[1] \/ (a[1] = b[1] /\ a[2] < b[2])

\* chunkStationDays: each station's days in pieces of the width, and as many
\* pieces to a request as fit in it, which a piece that does not begins the next of.
ChunkStationDays(S, width) ==
  LET place(sd) == Cardinality({day \in S : day[1] = sd[1] /\ day[2] < sd[2]})
      heads == {sd \in S : place(sd) % width = 0}
      piece(sd) == Cardinality({head \in heads : head = sd \/ Earlier(head, sd)})
      size(i) == Cardinality({sd \in S : piece(sd) = i})
      held[i \in 0 .. Cardinality(heads)] ==
        IF i = 0 \/ held[i - 1] + size(i) > width THEN size(i) ELSE held[i - 1] + size(i)
      begins == {i \in 1 .. Cardinality(heads) : i = 1 \/ held[i - 1] + size(i) > width}
      request(i) == Cardinality({first \in begins : first <= i})
  IN [k \in 1 .. Cardinality(begins) |-> {sd \in S : request(piece(sd)) = k}]

-----------------------------------------------------------------------------
(* schedulesDirectPass.                                                    *)

\* A run asks for what is missing, and for what has grown stale besides.  A
\* fingerprint other than the last run's has every md5 forgotten.
Begin(S) ==
  /\ phase = "idle" /\ S # {} /\ Missing \subseteq S
  /\ phase' = "md5s" /\ at' = clock /\ owed' = S
  /\ remapped' = (saved.stamp \notin {None, fingerprint})
  /\ memory' = [stamp |-> fingerprint, md5 |-> IF remapped' THEN Nothing ELSE saved.md5]
  /\ batches' = ChunkStationDays(S, Md5s)
  /\ UNCHANGED <<service, disk, later, waits, fetching, batch, said, kept, writes,
                 failed, mishaps, amiss>>

Keep(md5) == [how |-> "keep", md5 |-> md5, has |-> {}, remember |-> md5]
Write(md5, has, remember) ==
  [how |-> "write", md5 |-> md5, has |-> has, remember |-> remember]

\* What a pass says between two of its calls, of some station-days: each is
\* queued to be written, or kept, and then its md5 remembered.
Emit(says) ==
  LET Of(how) == {sd \in DOMAIN says : says[sd].how = how}
      Remembered == {sd \in DOMAIN says : says[sd].remember # None}
  IN /\ said' = [sd \in StationDays |-> IF sd \in DOMAIN says THEN said[sd] + 1 ELSE said[sd]]
     /\ owed' = owed \ DOMAIN says
     /\ kept' = [sd \in StationDays |-> IF sd \in Of("keep") THEN says[sd].md5 ELSE kept[sd]]
     /\ writes' = [sd \in StationDays |->
                     IF sd \in Of("write") THEN [md5 |-> says[sd].md5, has |-> says[sd].has]
                     ELSE writes[sd]]
     /\ memory' = [memory EXCEPT !.md5 = [sd \in StationDays |->
                     IF sd \in Remembered THEN says[sd].remember ELSE @[sd]]]
     /\ UNCHANGED failed

\* What the service says of each station-day of a request, each its own way.
Answers(ways) ==
  {f \in [DOMAIN ways -> UNION Range(ways)] : \A sd \in DOMAIN ways : f[sd] \in ways[sd]}

\* What the service says of a station-day's md5: of a day outside its range it
\* says so, with the md5 of nothing or without one, or nothing at all.
Md5Of(sd) ==
  IF sd \in generating THEN {[code |-> "queued", md5 |-> None]}
  ELSE IF listing[sd] = Empty
  THEN {[code |-> "omitted", md5 |-> None], [code |-> "beyond", md5 |-> Empty],
        [code |-> "beyond", md5 |-> None]}
  ELSE {[code |-> "ok", md5 |-> listing[sd]]}

MayWait == waits < Waits

Verdict(sd, wire) ==
  LET verdict == Decide(memory.md5[sd], wire, entry[sd])
  IN IF MayWait /\ wire.code = "queued" THEN "wait"
     ELSE IF remapped /\ verdict = "keep" THEN "fetch" ELSE verdict

\* settle, for each station-day of a request.
Settle(wires) ==
  LET Judged(verdict) == {sd \in Head(batches) : Verdict(sd, wires[sd]) = verdict}
      Say(sd) == CASE sd \in Judged("keep")    -> Keep(wires[sd].md5)
                   [] sd \in Judged("empty")   -> Write(Empty, {}, wires[sd].md5)
                   [] sd \in Judged("unknown") -> Keep(None)
      Judgeable == Judged("keep") \cup Judged("empty") \cup Judged("unknown")
  IN /\ Emit([sd \in Judgeable |-> Say(sd)])
     /\ later' = later \cup Judged("wait")
     /\ fetching' = [sd \in StationDays |->
                       IF sd \in Judged("fetch") THEN wires[sd] ELSE fetching[sd]]

AskMd5s ==
  /\ phase = "md5s" /\ batches # <<>> /\ batches' = Tail(batches)
  /\ \E wires \in Answers([sd \in Head(batches) |-> Md5Of(sd)]) : Settle(wires)
  /\ UNCHANGED <<service, disk, phase, at, remapped, waits, batch, mishaps, amiss>>

\* A pause, and those still being generated are asked about again.
AskAgain ==
  /\ phase = "md5s" /\ batches = <<>> /\ later # {}
  /\ waits' = waits + 1 /\ later' = {}
  /\ batches' = ChunkStationDays(later, Md5s)
  /\ UNCHANGED <<service, disk, phase, at, remapped, memory, fetching, batch, heard,
                 mishaps, amiss>>

Fetched == {sd \in StationDays : fetching[sd] # None}

StartFetching ==
  /\ phase = "md5s" /\ batches = <<>> /\ later = {}
  /\ phase' = "schedules"
  /\ \E width \in PerRequest : batches' = ChunkStationDays(Fetched, width)
  /\ UNCHANGED <<service, disk, at, remapped, memory, later, waits, fetching, batch,
                 heard, mishaps, amiss>>

\* What the service lists for a station-day, with its md5 beside it or without.
ScheduleOf(sd) ==
  IF sd \in generating THEN {[code |-> "queued"]}
  ELSE IF listing[sd] = Empty THEN {[code |-> "beyond"]}
  ELSE [code : {"ok"}, md5 : {listing[sd]}, tagged : BOOLEAN]

\* One request's answer: what it refuses is said as it is read, and no longer
\* to be fetched; the programmes of what it lists are what is missing.  What it
\* leaves out is neither.
TakeSchedules(schedules) ==
  LET listed == {sd \in Head(batches) : schedules[sd].code = "ok"}
      refused == {sd \in Head(batches) : schedules[sd].code \notin {"ok", "absent"}}
      Say(sd) == IF schedules[sd].code = "beyond" THEN Write(Empty, {}, None) ELSE Keep(None)
  IN /\ Emit([sd \in refused |-> Say(sd)])
     /\ fetching' = [sd \in StationDays |-> IF sd \in refused THEN None ELSE fetching[sd]]
     /\ answer' = [sd \in StationDays |->
                     IF sd \in listed
                     THEN [md5 |-> schedules[sd].md5, tagged |-> schedules[sd].tagged] ELSE Silence]
     /\ queued' = UNION {Airs[sd] : sd \in listed} \ known
     /\ tries' = 0

\* An answer to each day, to none as the request was refused, or to some.
Heed(schedules) ==
  /\ TakeSchedules(schedules)
  /\ leftOut' = leftOut \cup {sd \in Head(batches) : schedules[sd].code = "absent"}

AskSchedules ==
  /\ phase = "schedules" /\ batches # <<>> /\ phase' = "programmes"
  /\ \/ /\ \E schedules \in Answers([sd \in Head(batches) |-> ScheduleOf(sd)]) : Heed(schedules)
        /\ UNCHANGED mishaps
     \/ /\ Goes("refused")
        /\ Heed([sd \in Head(batches) |-> [code |-> "refused"]])
     \/ /\ Goes("absent")
        /\ \E schedules \in Answers([sd \in Head(batches) |->
                                     ScheduleOf(sd) \cup {[code |-> "absent"]}]) : Heed(schedules)
  /\ UNCHANGED <<service, disk, at, remapped, batches, later, waits, known, gone, lost>>

Asking == queued # {} /\ tries <= Waits

\* detail: what is missing, and after each pause what was still being written.
AskPrograms ==
  /\ phase = "programmes" /\ Asking
  /\ known' = known \cup {p \in queued : detail[p] = "ready"}
  /\ gone' = gone \cup {p \in queued : detail[p] = "gone"}
  /\ queued' = {p \in queued : detail[p] = "queued"}
  /\ tries' = tries + 1
  /\ UNCHANGED <<service, disk, phase, at, remapped, memory, md5s, answer, heard,
                 mishaps, amiss>>

StationScope ==                                                     \* mutant
  {sd \in Fetched : \E asked \in Head(batches) : asked[1] = sd[1]}
\* The days this request asked about, less those refused.
Scope == Head(batches) \cap Fetched

\* Those of a station that is answered at all, a day left out among them.
Answered == {sd \in Scope : \E one \in Head(batches) : one[1] = sd[1] /\ answer[one] # Silence}

Aired(sd) == IF answer[sd] = Silence THEN {} ELSE Airs[sd]
Md5With(sd) == IF answer[sd].tagged THEN answer[sd].md5 ELSE fetching[sd].md5
NothingSaid(sd) == IF Aired(sd) \subseteq known \cup gone THEN Md5With(sd) ELSE None  \* mutant
\* A day is stored with the md5 it came with, or marked for a programme to come.
Md5ToStore(sd) == IF Aired(sd) \subseteq known \cup gone THEN Md5With(sd) ELSE Incomplete

SayDays ==
  /\ phase = "programmes" /\ ~Asking /\ phase' = "schedules" /\ batches' = Tail(batches)
  /\ Emit([sd \in Answered |-> Write(answer[sd].md5, Aired(sd) \cap known, Md5ToStore(sd))])
  /\ answer' = Unanswered /\ queued' = {} /\ tries' = 0
  /\ UNCHANGED <<service, disk, at, remapped, later, waits, fetching, known, gone, mishaps, amiss>>

-----------------------------------------------------------------------------
(* The run around the pass.                                                *)

Blank == [md5 |-> Empty, has |-> {}]

\* A clean end: what was never mentioned is cached empty.
EndPass ==
  /\ phase = "schedules" /\ batches = <<>>
  /\ phase' = "over"
  /\ writes' = [sd \in StationDays |-> IF sd \in owed THEN Blank ELSE writes[sd]]
  /\ UNCHANGED <<service, disk, at, remapped, memory, md5s, batch, owed, said, kept,
                 failed, mishaps, amiss>>

\* A call fails: what was not mentioned yet has failed, and keeps what it has.
CallFails ==
  /\ Active /\ (batches # <<>> \/ later # {}) /\ Goes("call")
  /\ phase' = "over" /\ failed' = TRUE
  /\ UNCHANGED <<service, disk, at, remapped, memory, md5s, batch, owed, said, kept,
                 writes, amiss>>

\* An entry says it was grabbed when its run began.
Landed(sd) == [md5 |-> writes[sd].md5, has |-> writes[sd].has, stamp |-> memory.stamp, at |-> at]

WriteLands(sd) ==
  /\ writes[sd] # None
  /\ entry' = [entry EXCEPT ![sd] = Landed(sd)]
  /\ writes' = [writes EXCEPT ![sd] = None]
  /\ lost' = lost \ {sd} /\ UNCHANGED leftOut
  /\ UNCHANGED <<service, saved, fingerprint, phase, at, remapped, memory, md5s, batch,
                 owed, said, kept, failed, mishaps>>

\* The disk refuses a write: what was cached before it stays.
WriteFails(sd) ==
  /\ writes[sd] # None /\ Goes("write")
  /\ writes' = [writes EXCEPT ![sd] = None]
  /\ lost' = lost \cup {sd} /\ UNCHANGED leftOut
  /\ UNCHANGED <<service, disk, phase, at, remapped, memory, md5s, batch, owed, said,
                 kept, failed>>

Rest ==
  /\ phase' = "idle" /\ at' = 0 /\ remapped' = FALSE
  /\ memory' = [stamp |-> None, md5 |-> Nothing]
  /\ batches' = <<>> /\ later' = {} /\ waits' = 0 /\ fetching' = Nothing
  /\ answer' = Unanswered /\ known' = {} /\ gone' = {} /\ queued' = {} /\ tries' = 0
  /\ owed' = {} /\ said' = [sd \in StationDays |-> 0]
  /\ kept' = Nothing /\ writes' = Nothing /\ failed' = FALSE

\* Its writes over, a run saves what the site remembers, failed or not.
Finish ==
  /\ phase = "over" /\ writes = Nothing
  /\ saved' = memory
  /\ Rest
  /\ UNCHANGED <<service, entry, fingerprint, mishaps, amiss>>

\* A cancel: writes that wait for a slot are dropped, and what the site remembers is
\* saved all the same where the store is not the run's own.
Cancel ==
  /\ phase # "idle" /\ Goes("cancel")
  /\ phase' = "over" /\ failed' = TRUE
  /\ \E dropped \in SUBSET {sd \in StationDays : writes[sd] # None} :
       /\ writes' = [sd \in StationDays |-> IF sd \in dropped THEN None ELSE writes[sd]]
       /\ lost' = lost \cup dropped
  /\ UNCHANGED <<service, disk, at, remapped, memory, md5s, batch, owed, said, kept, leftOut>>

\* The process dies, or is cancelled and the store, being the run's, writes no more.
Stop ==
  /\ phase # "idle" /\ Goes("stop")
  /\ Rest
  /\ UNCHANGED <<service, disk, amiss>>

Pass == AskMd5s \/ AskAgain \/ StartFetching \/ AskSchedules \/ AskPrograms \/ SayDays
        \/ EndPass \/ Finish \/ \E sd \in StationDays : WriteLands(sd)
World ==
  \/ \E sd \in StationDays :
       Publish(sd) \/ Regenerate(sd) \/ LoseEntry(sd) \/ WriteFails(sd)
  \/ \E p \in Programmes : Describe(p)
  \/ Reconfigure \/ LoseState \/ CallFails \/ Cancel \/ Stop
Next == Pass \/ World \/ \E S \in SUBSET StationDays : Begin(S)

\* The service writes what it said it is writing; and each day is asked for again
\* and again, as its age has it.
Answering == (\E p \in Programmes : Describe(p)) \/ (\E sd \in generating : Publish(sd))
Asks(sd) == \E S \in SUBSET StationDays : sd \in S /\ Begin(S)
Fairness == WF_vars(Pass) /\ WF_vars(Answering) /\ \A sd \in StationDays : SF_vars(Asks(sd))
Spec == Init /\ [][Next]_vars
FairSpec == Spec /\ Fairness

-----------------------------------------------------------------------------
(* Properties.                                                             *)

\* A day kept is cached, and is the listing whose md5 it is kept on; and it lacks
\* no programme the service still writes, as the "?" stored for it has it fetched
\* again.  Not so where a write that was refused or dropped had its md5 remembered
\* before, nor of a day an answer left out; nor, of what it lacks, where the md5s were lost and two clocks decide: for
\* which an entry that is not what is listed says it was grabbed before that.
KeptIsListed ==
  /\ \A sd \in StationDays \ (lost \cup leftOut) :
       kept[sd] # None =>
         /\ entry[sd] # None /\ entry[sd].md5 = kept[sd]
         /\ mishaps \cap {"state", "stop", "remap"} = {} /\ kept[sd] # Empty
            => Airs[sd] \ entry[sd].has \subseteq {p \in Programmes : detail[p] = "gone"}
  /\ \A sd \in StationDays \ leftOut :
       entry[sd] # None => entry[sd].md5 = listing[sd] \/ listing[sd] > entry[sd].at

\* A station-day is said once, whatever requests its station's days were cut
\* into, waited for or refused; and by the end of a pass that did not fail, but for
\* what an answer left out, which alone is cached empty unsaid.
EachIsSaidOnce ==
  /\ \A sd \in StationDays : said[sd] <= 1
  /\ phase = "over" /\ ~failed => owed \subseteq leftOut

\* The service having said all it will, runs leave every day cached as listed
\* and with every programme there is: nothing is kept for ever.
Whole(sd) == listing[sd] = Empty \/ \A p \in Airs[sd] : p \in entry[sd].has \/ detail[p] = "gone"
AsListed == \A sd \in StationDays : entry[sd] # None /\ entry[sd].md5 = listing[sd] /\ Whole(sd)
Settled == AsListed \/ lost \cup leftOut # {} \/ mishaps \cap {"state", "stop", "remap"} # {}
Converges == <>[]Settled

\* A day kept is written as this config writes: what main.ts:72 has a fingerprint
\* that differs see to.
KeptIsAsMapped == \A sd \in StationDays : kept[sd] # None => entry[sd].stamp = fingerprint
=============================================================================
