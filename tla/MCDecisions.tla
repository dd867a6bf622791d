---------------------------- MODULE MCDecisions ----------------------------
(* What is decided without waiting for anything, asked one question at a time: *)
(* every question within the bounds below is an initial state, and answering   *)
(* it is the only step.  Each property compares an answer with what it should  *)
(* be, found by looking at every instant, day or channel-day one by one, or    *)
(* with the answer to the question put another way.                            *)
EXTENDS Planning

CONSTANT Channels

VARIABLES asked, answered

vars == <<asked, answered>>

(* Bounds.  A day of four ticks, a clock that changes once, by up to a whole   *)
(* day, within a day of the days asked about, and not back over a midnight.    *)
Offsets == -2 .. 2
ChangesOffMidnight(zone) ==
  LET walls == {zone.at + zone.before, zone.at + zone.after}
  IN  \A wall \in (Min(walls) + 1) .. (Max(walls) - 1) : wall % DayLen # 0
Zones == {zone \in [at : 14 .. 17, before : Offsets, after : Offsets] : ChangesOffMidnight(zone)}
SomeZones == {zone \in Zones : zone.at \in {15, 16} /\ zone.before \in {-1, 0} /\ zone.after \in {0, 1}}
             \cup {[at |-> 14, before |-> -1, after |-> 2]}
Metas == {{}} \cup {{[grabbedAt |-> t, programmeCount |-> n]} : t \in {{}, {5}, {15}}, n \in {0, 1}}
Policies == {[refetchAll |-> r, alwaysRefetchDays |-> d, maxAgeDays |-> 2, emptyMaxAgeDays |-> 1] :
               r \in BOOLEAN, d \in {0, 1}}
SomeMetas == {{}, {[grabbedAt |-> {15}, programmeCount |-> 1]}}
Batchings == {<<"none", {}, {}>>, <<"channels", {2}, {}>>, <<"days", {}, {2}>>,
              <<"both", {2}, {0}>>, <<"both", {}, {2}>>, <<"channels", {}, {1}>>}
Window == <<4, 5, 6>>

WallClocks == [kind : {"wall"}, zone : Zones, wall : 8 .. 24, precision : {"full", "day"}]
Calendars == [kind : {"days"}, zone : SomeZones, other : Zones, first : {3, 4},
              days : {1, 2}, now : {15, 16, 18}]
Ages == [kind : {"age"}, meta : Metas, policy : Policies, now : {12, 16, 17, 24}, day : {3, 4, 5},
         zone : SomeZones, other : SomeZones]
Grids == [kind : {"grid"}, batching : Batchings,
          metas : [(Channels \X ToSet(Window)) -> SomeMetas]]
Schedules == [kind : {"grab"}, every : {1, 3, 4, 8}, at : {{}, {0}, {1}, {3}}, whenEmpty : BOOLEAN,
              zone : SomeZones, from : 10 .. 24, runs : {0, 1}, cached : {0, 1}]

\* Documents: "never" is no date and "wide" no number; three texts name a genre.
Today == {<<"today">>}
Five == {<<"5">>}
Two == {<<"2">>}
Movies == [text \in {<<"film">>, <<"Movie">>, <<"Krimi">>} |-> <<"Movie">>]
D == INSTANCE MCDocuments WITH Dates <- Today, Numbers <- Five, rootScanLimit <- 200,
                             Genres <- Movies, Numbered <- Two
Cuts == UNION {[kind : {"cut"}, text : {text}, at : 0 .. (Len(text) - 1), reading : D!Readings] :
                 text \in D!Documents}
Programmes == {D!Programme(first, second) : first, second \in D!Samples}
Shapes == [kind : {"shape"}, text : Programmes, profile : D!Profiles]
Copies == [kind : {"copy"}, text : D!Documents \cup Programmes]

\* Guides of one channel, channels derived from it, and texts; and entries of a
\* cache, with what they may say of themselves: see MCGuides.
Stamps == [schema : {1}, complete : {TRUE}, programmeCount : 0 .. 2,
           writtenBy : {<< <<"v1">> >>, << <<"?">>, <<">">> >>}]
G == INSTANCE MCGuides WITH Metas <- Stamps, Days <- {"d1", "d2"}

\* Which channels a site has and grabs, playlists cut and written again, and
\* documents as sources of channel-days: see MCLineups.
Seconds == [text \in {<<"-1">>, <<"5">>} |-> IF text = <<"5">> THEN 5 ELSE -1]
Names == {"EXTINF", "EXTM3U", "tvg", "a", "b", "-1", "2", "5", "half", "url", "x", "note", "group", "One", "Two"}
Digits == [word \in {"0", "1", "24"} |-> CASE word = "0" -> 0 [] word = "1" -> 1 [] OTHER -> 24]
U == INSTANCE MCLineups WITH Hours <- Digits, NameTokens <- Names, Numbers <- Seconds

Init ==
  /\ answered = FALSE
  /\ \/ asked \in WallClocks
     \/ asked \in Calendars
     \/ asked \in Ages
     \/ asked \in Grids
     \/ asked \in Schedules
     \/ asked \in Cuts
     \/ asked \in Shapes
     \/ asked \in Copies
     \/ asked \in G!Keepings
     \/ asked \in G!Judgings
     \/ asked \in G!Walks
     \/ asked \in G!Guides
     \/ asked \in G!Derivings
     \/ asked \in G!Unions
     \/ asked \in U!Splits
     \/ asked \in U!Heads
     \/ asked \in U!Sniffs
     \/ asked \in U!Covers
     \/ asked \in U!Playlists
     \/ asked \in U!Files
     \/ asked \in U!Matches
     \/ asked \in U!Shifts
     \/ asked \in U!Texts
     \/ asked \in U!Written

Answer == ~answered /\ answered' = TRUE /\ UNCHANGED asked

Spec == Init /\ [][Answer]_vars

-----------------------------------------------------------------------------
(* A wall clock in a named zone is the first instant that clock reads so; one  *)
(* the clocks skipped is as far past the gap as it was into it, whichever way  *)
(* the zone is named; and what is written of it is read back the same.         *)
(* (zone.ts resolve, date.ts formatXmltvDate and parseXmltvDate.)              *)
WallClockRead ==
  LET date == zonedXmltvDate(asked.wall, asked.precision, asked.zone)
      Reads(i) == i + rawOffsetAt(asked.zone, i)
      happened == {i \in (asked.wall - 2 * DayLen) .. (asked.wall + 2 * DayLen) :
                     Reads(i) = asked.wall}
      written == formatXmltvDate(date)
      again == parseXmltvDate(written)
  IN  /\ IF happened # {}
         THEN date.time = Min(happened) /\ date.time + The(date.offset) = asked.wall
         ELSE /\ date.time - asked.zone.at = asked.wall - (asked.zone.at + asked.zone.before)
              /\ The(date.offset) = asked.zone.after
      /\ parseNamed([digits |-> asked.wall, precision |-> "full", suffix |-> 0], asked.zone).time
           = date.time
      /\ formatXmltvDate(again) = written
      /\ asked.precision = "full" => again.time = date.time
      /\ dayIn(date.time, asked.zone) = (date.time + rawOffsetAt(asked.zone, date.time)) \div DayLen

(* A site on another calendar is asked for every day an hour of the run falls  *)
(* on, and for none beside; of a run that starts today none is behind the      *)
(* site's own today; and no prune takes a day a site is asked for.             *)
(* (days.ts daysCovering, site.ts siteWindow and earliestDay.)                 *)
HoursAreAsked ==
  LET covering == daysCovering(asked.first, asked.first + asked.days - 1, asked.zone, asked.other)
      window == siteWindow(asked.other, asked.first, asked.days, asked.zone, {asked.now})
      from == wallTimeIn(asked.first, asked.zone, 0)
      until == wallTimeIn(asked.first + asked.days, asked.zone, 0)
      DaysOf(instants) == {dayIn(i, asked.other) : i \in instants}
      today == dayIn(asked.now, asked.other)
  IN  /\ DaysOf(from .. (until - 1)) \subseteq covering
      /\ from < until =>
           {Min(covering), Max(covering)} \subseteq DaysOf(from .. (until - 1))
      /\ window \subseteq covering
      /\ \A day \in covering \ window :
           day < today /\ day \notin dayRange(asked.first, asked.days)
      /\ \A day \in window : day >= earliestDay({asked.zone, asked.other}, asked.first, asked.zone)

Always == [at |-> 16, before |-> 0, after |-> 0]
Declared == SetToSeq(Channels)
Fresh(pair) == asked.metas[pair] # {}
Keeping == [refetchAll |-> FALSE, alwaysRefetchDays |-> 0, maxAgeDays |-> 7, emptyMaxAgeDays |-> 1]
Batching == resolveBatching(asked.batching[1], asked.batching[2], asked.batching[3])

(* An entry is asked for again when a tick of its day is one of the days the   *)
(* policy always refetches, whatever calendar either is on, and stands only    *)
(* if it can say when it was grabbed and is young enough.                      *)
(* (staleness.ts isStale and alwaysRefetched.)                                 *)
StaleWhenTold ==
  LET today == dayIn(asked.now, asked.zone)
      ticks == (asked.day * DayLen - 2 * DayLen) .. (asked.day * DayLen + 3 * DayLen)
      meets == \E i \in ticks : /\ dayIn(i, asked.other) = asked.day
                                /\ dayIn(i, asked.zone) = today
      young(entry) ==
        LET age == IF entry.programmeCount = 0 THEN 1 ELSE 2
        IN  \E t \in entry.grabbedAt : t >= asked.now - age * DayLen
      stands == /\ ~asked.policy.refetchAll
                /\ ~(asked.policy.alwaysRefetchDays = 1 /\ meets)
                /\ \E entry \in asked.meta : young(entry)
  IN  isStale(asked.day, asked.meta, asked.policy, asked.now, asked.zone, asked.other) = ~stands

(* The requests cover what is stale, each in one, and in order.                *)
EachStaleOnce ==
  LET stale == collectStale(Channels, ToSet(Window), asked.metas, Keeping, 17, Always, Always)
      caps == The(Batching)
      requests == planRequests(Declared, Window, stale, caps)
      report == planRun(<<planSite(Declared, Window, stale, requests), unplannable>>)
      pairs == FlattenSeq([r \in DOMAIN requests |-> requests[r].pairs])
      GroupOf(day) == (CHOOSE i \in DOMAIN Window : Window[i] = day) - 1
  IN  /\ IsInjective(pairs)
      /\ ToSet(pairs) = {pair \in Channels \X ToSet(Window) : ~Fresh(pair)}
      /\ \A r \in DOMAIN requests :
           LET request == requests[r]
           IN  /\ Len(request.channels) <= caps.maxChannels
               /\ ToSet(request.channels) = {pair[1] : pair \in ToSet(request.pairs)}
               /\ ToSet(request.days) = {pair[2] : pair \in ToSet(request.pairs)}
               /\ \A a, b \in ToSet(request.days) :
                    GroupOf(a) \div caps.maxDays = GroupOf(b) \div caps.maxDays
      /\ \A r, s \in DOMAIN requests : r < s =>
           GroupOf(Head(requests[r].days)) \div caps.maxDays
             <= GroupOf(Head(requests[s].days)) \div caps.maxDays
      /\ report["stale"] = Len(pairs)
      /\ report["fresh"] + report["stale"] = report["entries"]

(* What is asked for is what is stale, and no more: an entry is taken for      *)
(* stale as the policy tells (StaleWhenTold); every stale channel-day is in    *)
(* one request, once, and no fresh one is in any; a request keeps to its caps  *)
(* and is no wider than what it asks for, and the days come a group of the     *)
(* window at a time; and the days of a site on another calendar are those the  *)
(* hours of the run fall on (HoursAreAsked).  A channel several sites have is  *)
(* one site's to grab where the run covers each once, and a channel is matched *)
(* to a name only when no other could be.                                      *)
(* (staleness.ts, planner.ts planRequests and resolveBatching, days.ts,        *)
(* channels.ts covered, match.ts.)                                             *)
RequestsCoverOnce ==
  [][/\ asked.kind = "days" => HoursAreAsked
     /\ asked.kind = "age" => StaleWhenTold
     /\ asked.kind = "grid" /\ Batching # {} => EachStaleOnce
     /\ asked.kind = "cover" => U!CoveredByOne(asked)
     /\ asked.kind = "match" => U!MatchedForCertain(asked)]_vars

(* A server told when to grab is never told of a moment it has passed, unless  *)
(* to start at once; with a time of day, the moment is the first of the day's  *)
(* anchor and the intervals after it still ahead.  (schedule.ts grabEvery.)    *)
NextGrabIsAhead ==
  LET next == grabEvery(asked.every, asked.at, asked.whenEmpty, asked.zone, asked.from,
                        asked.runs, asked.cached)
      anchor == wallTimeIn(dayIn(asked.from, asked.zone), asked.zone, The(asked.at))
      ahead == {t \in {anchor + n * asked.every : n \in 0 .. 40} : t > asked.from}
  IN  \/ /\ next = asked.from
         /\ asked.runs = 0
         /\ asked.at = {} \/ (asked.whenEmpty /\ asked.cached = 0)
      \/ asked.at = {} /\ asked.runs > 0 /\ next = asked.from + asked.every
      \/ asked.at # {} /\ next = Min(ahead)

(* Clocks are read right: a wall clock is the instant the zone shows it, and   *)
(* written and read back (WallClockRead); and the next grab is ahead of now,   *)
(* at the first moment its anchor gives (NextGrabIsAhead).  (zone.ts, date.ts, *)
(* schedule.ts.)                                                               *)
ClocksAreRead ==
  [][/\ asked.kind = "wall" => WallClockRead
     /\ asked.kind = "grab" => NextGrabIsAhead]_vars

(* However a document is cut into chunks, it is read as it is whole, but that  *)
(* a warning about the root tag may be said again when the cut is in the tag;  *)
(* and reading it for some channels only gives what reading all of it does,    *)
(* less what is of the others.  So is a playlist, while a line of it past the  *)
(* bound is ended, and is past it without its byte order mark or its carriage  *)
(* return and not of blanks.  A body is what its bytes say however they come,  *)
(* and a document hands each channel what it asked for of it, once, whatever   *)
(* its order; and a playlist is taken for the channels it names.               *)
(* (xmltv and m3u: scan.ts, parse.ts; xmltv-document.ts; channels.ts.)         *)
DocumentsReadAlike ==
  [][/\ asked.kind = "cut" => /\ D!ReadsTheSame(asked.text, asked.at, asked.reading)
                              /\ D!OnlyWhatIsWanted(asked.text, asked.reading)
     /\ asked.kind = "list" => U!ReadsTheSame(asked.text, asked.at, asked.reading)
     /\ asked.kind = "playlist" => U!ListIsTaken(asked)
     /\ asked.kind = "sniff" => U!SniffedAlike(asked)
     /\ asked.kind = "head" => U!ListedAsDeclared(asked)
     /\ asked.kind = "split" => U!HandedAsAsked(asked)]_vars

(* What is written of a document is read back as the document was, extensions  *)
(* and all, but that a guest is none goes without saying; and what is written  *)
(* for a consumer has none of what its profile drops and no more than it       *)
(* keeps, and is the same when it is written so once more.  A playlist comes   *)
(* back too, all at once or in chunks, but for what has no way to be said,     *)
(* which is refused, and its header is the one given over the one read.  An    *)
(* entry of the cache comes back whole or is known to be damaged, and what is  *)
(* kept is listed by its key.  A channels.xml and the name of a shifted        *)
(* channel come back as well.  (xmltv: serialize.ts, profile.ts, escape.ts;    *)
(* m3u: serialize.ts; channels: serialize.ts, parse.ts, match.ts; cache:       *)
(* codec.ts, ndjson-driver.ts, xmltv-driver.ts, manager.ts, fs-driver.ts.)     *)
WrittenIsReadBack ==
  [][/\ asked.kind = "copy" => D!ComesBack(asked.text)
     /\ asked.kind = "shape" => D!ShapedAsAsked(asked.text, asked.profile)
     /\ asked.kind = "written" => U!ComesBack(asked.text, asked.given, asked.eol)
     /\ asked.kind = "file" => U!FileComesBack(asked)
     /\ asked.kind = "shift" => U!ShiftIsReadBack(asked)
     /\ asked.kind = "keep" => G!EntryComesBack(asked)
     /\ asked.kind = "judge" => G!JudgedInTurn(asked)
     /\ asked.kind = "walk" => G!ListedAsKept(asked)]_vars

(* However sites are merged, what each holds of the days is in the guide, once *)
(* and as a broadcast of its own, in order and none over the next; a text left *)
(* out is said by one kept; and a derived channel, selected or not, is the one *)
(* it shifts.                                                                  *)
(* (guide.ts generateGuide, programme.ts, union.ts, derive.ts, select.ts.)     *)
GuideIsWhole ==
  [][/\ asked.kind = "guide" => G!EveryRowIsSaid(asked) /\ G!NothingOverlaps(asked)
     /\ asked.kind = "texts" => G!EveryTextIsSaid(asked)
     /\ asked.kind = "derive" => G!DerivedAsDeclared(asked)]_vars
=============================================================================
