# epg-tools in TLA+

epg-tools grabs television guides from sites, caches them a channel-day at a
time, merges them into one XMLTV guide and serves that guide over HTTP. This
directory holds a specification of the parts of it that are hard to test: what
runs beside what; what a cancel, a full disk, a killed process or a thread that
dies leaves behind; what is decided of days, documents and guides at the edges
nobody wrote a test for; and what the program promises whatever the order. Paths
below are relative to the repository root, in which the sources are `src/...`.

Each module is translated from the TypeScript, an action a piece of code that
runs without being interrupted (between two awaits, or between two accesses of
a memory that two threads share, or one call of a database that two processes
do), and a function that waits for nothing an operator. The names of the source
are kept where TLA+ allows it.

## 1. The system

| part | state it keeps | operations | spoken to by |
|---|---|---|---|
| run (`src/grabber/grab.ts`, `src/build.ts`) | tally, the local work queue, the run's signal | start every site, wait for all of them, add them up | command line, server |
| site's turn (`src/grabber/site-run.ts`) | plan, cached entries held, `#written`, the write chain | plan, request, parse, persist, keep, fail | the run |
| local work (`src/grabber/local-slot.ts`, p-queue) | slots taken, waiting tasks | hold, away, settle | every parse and write of a run |
| pacing (`src/grabber/pacing.ts`) | request queue, hold, concurrency | send, slow down, recover, cancel, dispose | a site's requests |
| time (`src/grabber/clock.ts`) | what holds now, the last change, the sums | begin and end of each thing a site does | a site's turn |
| memory (`src/grabber/remember.ts`, `state.ts`) | groups of kept answers, tasks under way | ask, keep, prune, save | a site's own code |
| channel lists (`src/grabber/channels.ts`, `state.ts`) | the stored list, its age | resolve, fetch, save | run, server, commands |
| threads (`src/grabber/thread.ts`, `shared-counts.ts`) | ports, shared counts, calls of the cache not answered | host, work, count, hang up | the run, a site |
| planning (`planner.ts`, `missing.ts`, `revalidate.ts`, `cache/staleness.ts`) | validators of urls | what to ask for and what may stand | a site's turn |
| cache (`src/cache/*`) | entries, groups of state | read, write, look, remove, prune, list | everything |
| merge (`src/merge/*`) | read-ahead | union, derive, select, order | build, server |
| server (`src/serve/*`) | snapshot, lists held over, schedule, bodies being sent | answer, probe, reload, grab, close | consumers, supervisors |
| sources (`src/grabber/*-source.ts`, `schedules-direct/*`) | processes, a token, md5s | list, grab | a site's turn |
| formats (`src/xmltv/*`, `src/m3u/*`, `src/channels/*`) | what a scanner holds between chunks | parse, check, write | sources, merge, cache |
| shells (`src/cli/*`, `src/tv-grab/*`) | none | arguments and prompts | people |

**How they interact.** The run starts the turn of each site, here or in a
thread. A turn sends its requests through the site's pacing, holds a slot of
local work for each parse and each write, and writes through the cache; a parse
that waits on the network gives its slot up meanwhile. A site's own code asks
its memory, which saves to the cache as the turn ends. In a thread the same turn
asks the run's cache through a port, and counts into memory the run reads. The
server reads the cache through a snapshot of it, and runs grabs that write it.
Other commands of the same user read and write the same cache at any moment.

**What is hard.** There is one thread of JavaScript per site at most, so
hazards are where code awaits: a set is looked in before an await and acted on
after it; a queue rejects a promise on a cancel while its task goes on; an entry
is judged and removed by its name two calls later; two things that describe each
other are saved apart. Threads add truly concurrent steps; files, databases,
programs and services add other processes, kills and late answers. And the
formats are read as they arrive, cut anywhere. `hazards` in `PROJECT.json` lists
each of these at its line.

**What makes each part correct.**

- *Run*: its answer tells all that happened, nothing it began outlives it, and the
  guide in place is a whole one of a grab that ended.
- *Streamed pass*: no emission's programmes are lost to another's; an entry with
  nothing on is written only when the source said so; every channel-day of the
  request is counted once; the pass ends.
- *Requesting turn*: every channel-day asked for is counted once, however a
  cancel meets it; `fetched` is what was written; it ends.
- *Local work*: work that waits or is done holds no slot; every slot comes back.
- *Pacing*: nothing is sent while a wait the source asked for stands.
- *Time*: every moment a site is on the clock is given to one part of it.
- *Memory*: an answer is the caller's own; nothing kept is lost or outlives its
  time.
- *Channel lists*: what is stored is a list the source had when it is said to.
- *Threads*: each site is said once and its work counted, its thread dead or not.
- *Planning*: what is stale is asked for once and nothing else is; what a source
  may freeze by saying "unchanged" is bounded.
- *Files and databases*: an entry is whole or not there; a prune takes only what
  it is for; a listing misses nothing that was there all along.
- *Sources*: what is kept on a source's word is what it lists; what was cut short
  is not taken; an account is logged in to no oftener than it must be.
- *Formats*: a text reads the same however it is cut, and what is written is read
  back.
- *Merge*: what each site holds of the days is in the guide, once.
- *Server*: a consumer told `304` has nothing older than what the snapshot has;
  every guide asked for ends; a close leaves nothing planned and no cache closed under a grab.

## 2. Modules

| module | models | run |
|---|---|---|
| `Build` | `build`, `runGrab`, `grab`, `resolveSessions`, `keepingThrows`, `atomicFile` | `run` |
| `SitePacing` | `sitePacing` | `run` |
| `SiteClock` | `SiteClock` | `run` |
| `Revalidation` | validators, 304s and what they keep over several runs | `run`, `kept` |
| `StreamPipeline` | `SiteRun.#streamPipeline`, `#persist`, `#writeEntry` | `site`, `stream_said_twice` |
| `RequestPipeline` | `SiteRun.#work`, `#requestPipeline`, `#store` | `site` |
| `SiteThread` | `hostSite`, `workSite`, `CountWriter`, `CountReader`, `RemoteCache` | `site` |
| `SlotPool` | abstract: what local work promises | `parses`, through `Implements` |
| `LocalSlot` | `LocalSlot` over p-queue | `parses` |
| `SiteMemory` | `Memory`, `SiteStateHandle` | `parses` |
| `ChannelLists` | `resolveChannels`, the group a list is stored in, a site's bag | `sources`, `lists_stamped` |
| `CommandSource` | `runCommand`, the passes of `defineCommandSite`, the windows of `tv_grab` | `sources` |
| `Tokens` | the session of a Schedules Direct account | `sources` |
| `SqliteCache` | `SqliteCacheDriver`, over several processes | `sources` |
| `SchedulesDirect` | the pass over station-days, its md5s and the run around it | `schedules_direct`, `schedules_remapped` |
| `CacheFiles` | `FsCacheDriver`, `writeFileAtomic` | `cache_files` |
| `Calendar` | `zone.ts`, `date.ts`, `days.ts`, the days of a site | `cache_files` |
| `Planning` | `staleness.ts`, `planner.ts`, the sweep, `--dry-run`, `missing.ts`, `schedule.ts` | `cache_files` |
| `Merge` | `src/merge`: union, days, derive, select, fill and clip | `cache_files` |
| `XmltvScan`, `XmltvWrite` | `xmltv/scan.ts` and `parse.ts`; `serialize.ts`, `profile.ts`, `escape.ts` | `cache_files` |
| `M3u` | `m3u/scan.ts`, `iptv.ts`, `parse.ts`, `serialize.ts` | `cache_files` |
| `DocumentSplit` | `xmltv-document.ts`, the passes of `xmltv-source.ts` | `cache_files` |
| `Lineups` | `channels.ts` and `src/channels`: which channels a site has and grabs | `cache_files` |
| `Entries` | `codec.ts`, the ndjson and XMLTV drivers, `manager.ts`, the names and the walk of `fs-driver.ts` | `cache_files` |
| `GuideServer` | `createGuideHandler`: snapshot, schedule, close | `server`, `server_lists` |
| `GuideBodies` | `guideBody` and the queue `guides` | `server` |

`SchedulesDirectProofs` and `GuideServerProofs` (over
`MCGuideServer`, for the bodies) hold the theorems of the component they are named for,
`CacheProofs` those of `CacheFiles` and of what `Calendar` and `Planning` decide,
`ParsesProofs` those of the local work and of what a site remembers as `MCParses` has
them, `SiteClockProofs` those of the clock of a site, `RunProofs` those of `Build` and of the
pacing, the revalidation and (by `SiteClockProofs`) the clock as `MCRun` has them, `SiteProofs` those of the streamed pass, the requesting turn and the thread as
`MCSite` has them, and `SourcesProofs` those of the channel list, the account and the database as
`MCSources` has them (section 5). `MCRun`, `MCSite`, `MCParses`,
`MCSources`, `MCCacheFiles`, `MCSchedulesDirect` and `MCGuideServer` are what TLC
runs: each gives the constants their values and composes parts of one thing,
one of which a behaviour is of. `MCDecisions` asks the questions that wait for
nothing, with `MCDocuments`, `MCGuides` (guides, and entries of a cache) and `MCLineups` (lists of
channels, playlists, and documents split among channels) for the inputs and
the properties of each kind. A `.cfg` is one
run. A definition with `\* mutant` after it is no part of the model: it is a
plausible slip in the definition that follows, kept to show that a property of
the run would notice.

### How state and actions correspond

**Build.** `stage` is where the code of `build` is: settling lists, choosing,
grabbing, counting, pruning, deciding whether to merge, writing the guide,
closing its file, letting go of the cache, answering. Beside it go the channel
lists (`list`: waiting in the queue, asked for, its state being saved, done, and
what came of it) and the turns (`turn`), each begun, at work, winding down and
over. A list and a turn are two steps each here; their insides are the modules
below. `aborted` may become true at any step, and `threw` at any step in which
something is said. `temp`, `pieces` and `guide` are the temporary file, what is
in it and what stands under the output's name; `disk` remembers whether a close,
a rename or an unlink was refused. `command` is `build`, a grab that narrows its
lists first, or one that does not.

**SitePacing.** Ticks for milliseconds. `holdingUntil` and `timer` are the
code's; `promised` is history: the longest wait any response asked for.

**SiteClock.** Each method of the clock is an action that takes no time, `Tick` a
moment passing. `part` and `since` are where the code stands, `moments` and
`served` the history it is judged by. `#covered` and `#settle` are recursive functions,
of the instant the sweep has come to and of the stretch it is at; `ran` is the set of the
stretches a call ran in, since those that begin together are swept as one.

**Revalidation.** One url that answers a whole document, asked by run after run
for the days each finds stale. `validator` is what is stored of it, `says` and
`modified` what the source sends. A run starts (`Start`: what is stale, and
`pruneValidators`), is answered with `mayKeep` deciding what it asked with
(`Answer`), reads the document or is cut off (`Read`, `CutOff`, `remember`),
stores what it read (`Stores`), goes on to its next request (`Further`) and is
over (`Over`). `seen` and `outcome` are history.

**StreamPipeline.** A document says channel-days one at a time; an emission is
its number, so a `cache` entry is the set of emissions stored in it, 0 for what
an earlier run left and `NoEntry` for none. `owed`, `keeping` and `written` are
the code's own sets; `write[w].st` is where the promise chain of one write is:
waiting for a slot, chained behind a write of the same entry, reading back,
appending or writing. `FillGaps` and `FailRest` are what follows the document.
`slots` and `busy` are the run's local work, which other sites share.

**RequestPipeline.** `request` is the pipeline of each planned request, `sent`
its task on the request queue, `pair` each channel-day from parse to write. A
parse that asks for a request (`AskPaced` … `Return`) holds no slot meanwhile.
A store that refuses, a source that says nothing changed, and a cancel at any
step are actions of their own.

**SiteThread.** `memory` is the `SharedArrayBuffer`, one access a step; `port`
what the thread sent, in order; `site.steps` what is left of a count in
`CountWriter.add`. `Die` may come between any two steps; that the thread went
(`HearWhy`) and that its port closed (a `close` message) arrive separately, or
one of them never, and `GiveUp` is the five seconds' grace. `counted` is
history.

**LocalSlot, SlotPool.** `caller[w]` holds where every call of `#settle` is,
`taking` the promise `#taking`, settled and cleared being two steps as in the
code; `queue`, `running` and `ending` are p-queue's, whose tasks start in the
call that frees a slot (so nothing else goes while one is `Startable`).
`SlotPool` knows only who holds a slot, who waits and who has finished;
`Implements` maps `#release`, `#away` and `#done` to those three.

**SiteMemory.** A value is named by the call that got it; `kept` is the group in
hand, `passing` the values answered but not to be kept, `store` what the cache
has. The prune and the save at the turn's end are separate steps, with calls
nobody waited for between them.

**ChannelLists.** A list is known by its version; `stored` is the group it is
saved in, `bag` the site's own, and a command `cmd[c]` a load, a question to the
source and the two saves. A moment is kept as how long ago it was, so the clock
may move on for ever. Sites differ in how they tell that nothing has changed
(`kind`): by the moment the list was stored, by stamps in their bag, or by what they
said of the list (`told`). The last is stored beside it (`about`) and never handed back,
since `held` returns the list and its moment alone, so such a site fetches every time.

**CommandSource.** The program `prog` writes into a pipe that holds so much,
exits, ignores a signal or leaves its pipe to a child; `phase` is the pass that
reads it, `killer` the SIGKILL to come, `hears` the run's listener.

**Tokens.** A token is known by the login that earned it. `pending`, `asked`,
`refusedTokens` and `unproven` are the client's; `valid` is what the service
takes, and `wanted` why there was a login. That a token has worked is remembered by
`unproven` alone, as in the code, and a call gives up over its token where the client does:
it replaced one that was refused and is not known to have worked, or the call may not be
tried again.

**SqliteCache.** A statement is one step and a call of the manager a few; a
listing hands out a page at a time. `Kill` leaves the rows there are.

**SchedulesDirect.** A listing is known by the moment it was made, which is its
md5 and its `lastModified`. `batches` are the requests to come, `fetching` what
each station-day is fetched for, `memory` the md5s of the run and `saved` those
in the cache; `writes` are queued and land, or fail, whenever they like. A request is for
as many days as one of `PerRequest`, and what is answered of each is a listing, a refusal
or nothing: a day left out (`leftOut`) is written empty where its station is answered
(`Answered`), and else never said. The mishaps are actions of their own, `Cancel` among
them, which drops writes that wait and has the run save what it remembers all the same;
`Stop` is a run that saves nothing. `lost` are the days whose last write was refused or dropped.

**CacheFiles.** One file system call is one action. A write opens a temporary
file beside the entry, writes, and renames; one that finds no directory makes it
and tries once more. A look reads whole and may remove by name a call later. A
prune lists, removes the old days, and tries `rmdir`. `Kill` leaves whatever is
there. The disk may refuse a write or its rename; that the temporary file is then removed
never fails, which is what `rm` with `force` comes to but on a disk that takes nothing.

**The operators.** `Calendar`, `Planning`, `Merge`, `XmltvScan`, `XmltvWrite`,
`M3u`, `DocumentSplit`, `Lineups` and `Entries` have no variables: an operator is
a function of the source, its loop a fold or a recursion. An instant is a number
of ticks, a zone its offset on either side of one change of the clocks, and a
text a sequence of tokens: a character that is markup is a token of its own, so
that a cut may fall inside a tag, a name or an entity, and a word is one. What a
scanner keeps between chunks is a record with the names of the source.

**GuideServer.** `flight` is `inFlight`, one look at a time: lists resolved, the
cache swept an entry at a time, and swept again when the print changed. `checked`
and `resolved` say whether each clock is young; `RevalidateDue` and `ListsAge`
are time. An entry is the number of the grab that wrote it, a list a sequence of
channels, and a tag the states of a list's entries in their places, which is what
`fingerprintOf` digests: `grabbedAt` and a count of each key in turn, and not which key
it is. Entries of one grab are taken to count alike. A guide is read an entry at a time
(`ReadInto`) and sent (`GuideSent`). `sched` carries the schedule from its question to its
timer, import and grab.

**GuideBodies.** A body is answered, queued for a slot, merging, offered at a
yield, or over; its reader may go at any of these, the cache may throw, and
`stop()` clears the queue and aborts what it owns.

## 3. Runs

A run asks one question of a part, or of parts that share a theme. Parts that do
not interact are explored beside each other and never multiplied: a variable
(`which`, `asked`) is chosen at the start, and the parts not chosen stand at one of
their beginnings. A property of one part says so, or holds of the others at rest.

| run | bounds | checks |
|---|---|---|
| `run` | three sites of which two fetch their list, two lists and two turns at once, here or in threads, a guide of two pieces; five requests, four at once, holds of one or two ticks; a clock of four moments with two changes in each; four days of a source that publishes twice, two days a request, `maxAgeDays` 1, bodies and writes failing | `WindsDown`, `AnswerTellsAll` of the whole run; `HoldFits`, `SentInTurn`, `AskedIsSent` of the pacing; `TimeIsGivenOnce` of the clock; `FreezeIsBounded` of the revalidation |
| `site` | two channel-days and a foreign one, two emissions, one slot or two, a refusing store; three requests for four channel-days, two at once, one slot, one request of its own a parse; a thread, two labels with room for one, two requests a label | `NoLostUpdate`, `CountsAreTrue` of the streamed pass; `CountedOnce` of the requests; `SaidOnce`, `RequestsAddUp` of the thread; `EverythingEnds` of all three |
| `parses` | three parses with two, one and no waits, one slot or two, waits left out, a cancel; two parses and a request over two keys, every earlier group, a refusing store | `SlotsFit`, `Implements` of local work; `AnswerIsItsOwn`, `StoredIsCurrent`, `NothingLost` of the memory; `EverythingEnds` |
| `cache_files` | two channels of an old and a new day, two writes that may be refused at the bytes or at the name, a look, a prune; and the questions of `MCDecisions` | `WholeOrNot`, `WritesAreClean`, `KeptDaysStay`, `EverythingEnds`; `ClocksAreRead`, `RequestsCoverOnce`, `DocumentsReadAlike`, `WrittenIsReadBack`, `GuideIsWhole` |
| `server` | three channels, one in every list and two of which a list has neither, the one or the other in its place, one grab, one change, one mishap; three guides over one slot, two chunks each, a cache that throws once | `AnswersAreTrue`, `CloseIsFinal`, `ChannelsStay`, `EverythingFollows` |
| `sources` | two commands over one list of three versions, any one of four mishaps; a program asked for three days of four, with a limit; two calls of an account over two runs; two processes of three calls over a database of two channel-days, one kill | `ListIsOfItsTime`, `CutShortIsNotTaken`, `RenewedOnce`, `KeysStay`, `EverythingFollows` |
| `schedules_direct` | one station of two days that air one programme, a request for each or one for both, one listing made anew, one of nine mishaps at any moment | `KeptIsListed`, `EachIsSaidOnce`, `Converges` |
| `stream_said_twice` | one channel-day, three emissions, two slots | `SaidIsStored` (violated) |
| `server_lists` | as `server`, its snapshot alone | `ListsFollow` (violated) |
| `kept` | as `run`, one day a request, nothing failing, `maxAgeDays` 2 | `KeptIsCurrent` (violated) |
| `schedules_remapped` | as `schedules_direct` | `KeptIsAsMapped` (violated) |
| `lists_stamped` | as the lists of `sources`, over a site that keeps stamps in its bag | `StampsStandForList` (violated) |

**What they show.** Of what runs beside what: that a run answers only when all it
began is over, and tells all of it; that appended writes do not overwrite each
other and every channel-day is counted once, whatever fails or is cancelled; that
slots are conserved while parses let go of them and take them back; that nothing
is sent while a wait stands; that a thread which dies at any step leaves a site
said once. Of what outlives a run: that entries are whole, that a prune takes only
what it is for, that a list stored is of the time it says, that what is kept on
a source's word is what it lists, and for how long a source may freeze a day. Of
what is decided: that the operators give what looking at every instant, day, cut
or channel-day one by one gives. And that all of it ends.

`CHECK_DEADLOCK FALSE` stands wherever the thing modelled ends: a pass, a turn, a
server that closed. `run` keeps the deadlock check: a run may stop only when it is
over and what it left of its lists has ended.

**Why the bounds are enough.** The hazards are between two actors over one thing,
and each part has at least two of what may collide and one beside them: two
emissions of one channel-day and another; two waits of one parse and two other
parses; two holds overlapping and a third response; two calls of one key and one
of another; two commands over one list; two processes over one key and another.
One slot is contention for everyone and two lets work pass work. A thread has one
label in the memory and one out of it. Of the two channels that come and go in the server's lists, a list has `b` first, as a
name is all that tells them apart (`Named`). One grab is enough for the server, where a
second would meet the snapshot in the same ways as the first: what matters is a
sweep or a guide before, within or after it. Mishaps are bounded together, for
what a property must survive is one at any moment; two independent ones meet the
same code one after the other. `run` has one site more than may be at work at
once, so that one waits while another winds down, and two pieces so that a guide
may be half written. Days of four ticks put a change of the clocks before, at,
within and after what is asked about; documents hold each token the scanners tell
apart, cut at every place. For the parts with theorems the bounds do not matter to
what is proved.

**Disagreements.** Five runs end in a violation, each a place where the code does
not do what the repository says of it:

- `stream_said_twice`: with two slots, all busy, a channel-day said a second time
  before its first write has started is counted as ignored and its programmes
  are dropped, since `#written` is claimed only when the write starts.
- `server_lists`: a health probe that looks first after a grab finds the changed
  print and makes it the snapshot, without resolving lists; the next look for a
  guide sees no change and resolves none either, until the lists age.
- `kept`: one validator stands for every entry of its url, so a 304 may keep
  an entry written of an earlier version of the document (bounded by
  `maxAgeDays`, which `FreezeIsBounded` shows and section 5 proves).
- `schedules_remapped`: a changed option forgets every md5 and stores its
  fingerprint at once, but refetches only what was stale; the rest is kept by
  every later run as the old option wrote it.
- `lists_stamped`: the stamps of the lineups a list was made of are stored apart
  from the list, and can come to describe a newer one.

Others were met on the way. They are in the models (a property says what holds in
spite of them) or were left out of what a property claims, and none has a run:

- *Server.* `reload()` during a look is undone as that look lands
  (`serve/handler.ts:1241`, against `docs/api.md:680`). A body `clear()` rejects
  before its slot reports nothing, and a closing server does not abort the bodies
  of a mounted handler before it closes the cache. The tag does not say whose entries
  it is of (`handler.ts:665-678`): a list that comes to name another channel in the place
  of one whose entry is in the same state keeps its tag, and a consumer is answered `304`
  with the guide of the old list, against the comments at 670-672 ("which ones they
  were"), 1004-1006 and 1057-1060. `TagMeansContent` therefore speaks of places, and
  `Follows` excepts `OthersAlike`.
- *Run.* A first write that fails still claims its channel-day
  (`site-run.ts:703`). A cancel lets a streamed pass return with its own write
  under way. A list that throws rejects the settling while other lists go on over
  a cache that is then closed (`channels.ts:582`, against
  `docs/configuration.md:349` and `docs/api.md:1213`).
- *Memory.* A value of "none" past its time stays in front of a kept one
  (`remember.ts:114`). An unusable entry is removed by name after an await
  (`cache/manager.ts:161`).
- *Guides.* A block that backfills and one that repeats a channel are described
  otherwise than they behave (`docs/configuration.md:2039` and `:2073`, against
  `merge/guide.ts:1042` and `:1106`); a chain of shifts that adds up to nothing,
  and cyclic declarations, differ when selected; an overlap is left where the next
  of the same start is a container that is dropped.
- *Schedule.* `grabEvery` drifts by the hour a clock change moved
  (`serve/schedule.ts:240`).
- *XMLTV.* Warnings of the root tag are repeated when a chunk ends in it (against
  `test/xmltv.test.ts:1151`); `guest="no"` does not come back; an instruction whose
  target holds `=` makes the writing stream throw; text in CDATA is decoded.
- *M3U.* A line is counted with its CR and its BOM while it has no end yet, and without
  once it has (`m3u/scan.ts:358-375`, `:411-429`), and blank or not only then. So an
  over-long last line that nothing ends, a line of exactly the bound with a CR or a BOM,
  and a blank one past the bound are read by how they were cut, against the comment at
  425-428 and `docs/m3u.md:279`. `DocumentsReadAlike` asks of playlists whose lines are
  counted alike both ways (`CountedAlike`), and its inputs hold lines of each of these
  kinds. Attribute names and unquoted values may be read that
  are refused or misread when written (`m3u/serialize.ts:82`, `:246`).
- *Schedules Direct.* An md5 is remembered before its write lands
  (`stream.ts:255`), so that of a write that was refused, or dropped by a cancel, is
  saved all the same (`grab.ts:286-290`, `site-run.ts:338-350`) and what was cached
  before is kept on it (`lost`). A station-day left out of an answer is
  written empty with the md5 the md5 pass gave it where another day of its station is
  answered, or is never said and cached empty, and later runs keep it so
  (`stream.ts:533-545`, against the comment at 363-369). A login under way is forgotten
  by a late refusal of the token before it. A replacement is put among the unproven again by
  each call that had the old one refused (`unproven.add`), so one that has worked
  meanwhile may fail the next call it is refused for, against the comment at
  `client.ts:355-367`; and so may one refused to a call that was retried as often as it may be.
- *Commands.* A signal before the spawn is never heard (`command-source.ts:361`,
  against the comments at 210 and 287).
- *Databases.* Two processes that both make the tables of one file do not meet as
  the comment at `sqlite-driver.ts:240` has it (`FirstWritesMeet`, kept in
  `MCSources` and asked by no run). `Create` and `Drop` are a step each, where the code
  has four statements and two (`sqlite-driver.ts:272-277`): the difference is only there
  for two processes making tables at once, of which `KeysStay` claims nothing.
- *Lists.* What a site says of its list is stored and never handed back to it: `held()`
  (`state.ts:275-289`) returns the list and its moment, and `resolveChannels` passes that
  on (`channels.ts:330-334`), against `docs/site-config.md:264-267` and
  `types.ts:292-293`, `:318-324`. A saved list that fails rejects the settling of every site; a shift of
  a hundred hours or more is not read back (`channels/match.ts`).

## 4. Fairness

Liveness is stated under weak fairness of what the platform does by itself: a
promise that settled is resumed on, a file system call or a request ends (each
has a timeout or an error), a timer fires, a message sent arrives, a parse ends, a
statement of a database ends. A cancel, a kill, a failure, a probe, a reload, a
new wait, a publication are never required. Where no process returns to an earlier
state, weak fairness of the union says the same as of each, and is what most
modules use: `RequestPipeline`'s `Progress`, `LocalSlot`'s, `SiteMemory`'s,
`SiteThread`'s `GoesOn`, `CacheFiles`' `Calls`, `GuideBodies`' `Works`,
`MCSources`' `Work`; time (`Tick`, `Ticks`, `Timeout`, `RevalidateDue`,
`ListsAge`) has its own.

Strong fairness appears four times. p-queue is first in, first out, so a
waiting write of `StreamPipeline` is not passed for ever by other sites', nor a
waiting request of `SitePacing` by holds that come and go. In `SchedulesDirect`
batches are asked in the order they were made, so a station-day is asked for in
the end by runs that go on (`Asks`). In `GuideServer` the consumer does not come
every time exactly while a health probe is looking (`PollAlone`): a poll that
always joined a probe's look would resolve no list, which is a matter of two timers
in step and not of the code's scheduling; what a single such meeting does is the
subject of `server_lists`.

One assumption is about people: a reader of a guide that is there reads on
(`Reading` of `GuideServer`, which is fair to it), and one that is gone is heard of
(`GuideBodies`). The code has no limit on how slowly a
guide is read, and a reader that does neither holds its slot.

## 5. What is proved

The theorems hold for every value of the constants that satisfies the named
assumptions; TLC evaluates those on every run of the module. Each invariant below
was given to TLC before it was proved. A module of operators that other modules
share has no theorem of its own.

**`RunProofs`**, of `Build`, for any sites, any number of lists and turns at once and a guide
of any size, from `BuildAssumption`: `RunTyped` (`[]TypeOK`, of which the part
worth proving is that no site is said twice), `RunWindsDown` (`[]WindsDown`),
`RunTellsAll` (`[]AnswerTellsAll`).

Neither of the last two is inductive: they speak of the end of a run, and what
makes them true is what holds on the way. `RunInv` ties every thing the run holds
to its stage: `TurnInv` (what was said of a site is what became of its turn, and
a turn is under way only while the grab waits), `ListInv` (past the settling,
every list is done or one threw), `EndInv` (the end is said when every turn is
over, and a failure is only ever on the way out), `GuideInv` (a guide is written
of a grab that ended uncancelled, whole under its name, and its temporary file is
there only while it is written unless the disk refused) and `HoldInv` (sessions,
cache and answer). A step is a list's, a turn's, the choosing, the end of the
grab or one of the run's own, and there is a lemma for each.

**`SiteProofs`**, of the streamed pass, for any finite set of channel-days, any number of
emissions and of slots, from `StreamAssumption`: `StreamTypeCorrect`
(`[]TypeOK`), `StreamLosesNothing` (`[]NoLostUpdate`: what a landed write put in
an entry stays there), `StreamCountsAreTrue` (`[]CountsAreTrue`: once a pass is
over every channel-day is counted once, and as what became of it).

That an append does not overwrite another write needs that what it read back still
is what is there, hence that no other write of the entry is under way with it,
hence that a write is chained behind each that started before it, and that writes
start in the order they were queued. `LossInv` says exactly that: `TypeOK`;
`Queueing` (writes are numbered as they were heard; a gap is filled only for a
channel-day no emission named); `Ordered` (`Fifo`: a later emission has not started
while an earlier one waits; `Chain`: of two writes of one entry the later has begun
on it only when the earlier has ended); `Lossless` (`Claims`: who has begun has
claimed the entry; `FirstAlone`: a write that replaces is the only one to have
begun; `BeforeHolds`: what an append read back holds every landed write; `Stands`:
the property). `StepKinds` sorts the actions by what they do to the writes,
`OneMoves` says that a step of the store moves one write and leaves all others.

The counts need more of the pass: `CountInv` adds `Placed` (where each channel-day
owed, kept or emitted is), `Counting` (what is counted of it is by where it is:
`Answered`, `Claimed`, `AllTold`, `Exact`, `KeptAsHeld`) and `Emptying` (an entry
holds nothing only when the document said so, and `empty` counts those).

**`ParsesProofs`**, over `MCParses`. For any works, any waits of each and any number of
slots, from the assumptions of `LocalSlot`: `SlotTyped`, `SlotsAlwaysFit` (`[]SlotsFit`)
and `SlotsImplementPool` (`Spec => Implements`: `LocalSlot` implements `SlotPool`).
`SlotInv` is `TypeOK` with `Queueing` (a work that asked is in the queue once and
has no slot until it comes), `OneEach` (p-queue runs one task of a work that could
let go of it, and no other), `Counted` (`#away` counts the waits that are out) and
`Backed` (a work that was told it has a slot has one). That the holders fit the
slots follows by an injection into p-queue's running tasks. In the refinement each
step is an `Acquire`, a `GoAway`, a `ComeBack`, a `Finish` of one work or a
stutter, sorted action by action.

For any callers, keys, asks and what the store held before, from `MemoryAssumption`:
`MemoryAnswersItsOwn` (`[]AnswerIsItsOwn`), `MemoryStoresCurrent` (`[]StoredIsCurrent`)
and `MemoryLosesNothing` (`MCSpec => NothingLost`). The first needs that every entry,
in the bag, stored or in a snapshot being written, was answered to a call of its own key
(`Entries`), and that a call joined to another asked for the same (`Calls`). The second
needs what stands when: that what is due is this run's, in the bag, then in the snapshot,
then in the store, and that only what lasts is written (`Turn`). The third adds
`Covered`: from its read on the bag has all that is stored and has not passed, and so
has what is being written. That is why a group that could not be read is not saved over.

**`CacheProofs`**, of the files, for any finite sets of channels and days, any writes and
looks, and anything an earlier run left, from `CacheAssumption`: `FilesTyped`
(`[]TypeOK`, of which the part worth proving is that a file, temporary or not, is
only where its directory is), `LooksReadWhole` (`[]WholeOrNot`), `KeptDays`
(`Spec => KeptDaysStay`) and `WritesLeaveNothing` (`[]WritesAreClean`: a temporary
file is left by a killed write alone, and a prune adds up). `FilesInv` adds to the
type `Beginnings` (a write that is writing or about to rename has its temporary
file, so its rename lands in a directory that cannot have been removed, since
`rmdir` refuses one that is not empty) and `Wholes` (no half of an entry is under
an entry's name); `CleanInv` adds `Tidy` (a temporary file is of a write under way
or killed), `Homed` (until a prune begins, a directory made for a write is there) and
`Tallied` (a prune has counted what it found in the channels it is done with).

And of `Calendar` and `Planning`, for every input: a day of any length, zones that are
within a day of UTC, and any instants. `WallClocksAreRead` says of `resolve`, and of writing and
reading a date, what `WallClockRead` of `MCDecisions` asks of a few zones: that halving
a day finds the change in it (`HalvingIs`, from `HalvingExists`, `OffsetIs`), and of the two
readings it leaves, which is the clock's. `HoursAreAskedFor`, `PruneLeavesAsked` and
`RefetchedAsToldOf` are of days on two calendars, and `NextGrabIsFirstAhead` of a
schedule; they need that a change does not take a clock over a midnight and back
(`OffMidnight`), for then a day is the instants between two midnights (`MidnightIs`): it
is what `ChangesOffMidnight` asks of the zones of the run, and what the code takes a day to
be. `RequestsCoverStale` is of `planRequests`, for any channels and window without a
repetition, whatever is stale of them, and the caps batching amounts to (`BatchingIs`): each stale
channel-day is in one request at one place, nothing else is in any, and the requests
come a run of days at a time, within their caps. Its lemmas say what a filter, a cut and a
flattening keep of a list and how often (`FilteredIs`, `PiecesAre`, `FlattenIs`), and those
of a request put them together (`RequestIs`, `RequestsInAre`). A function defined by
recursion is shown to exist, and an induction along it made, by the least number for which
it would fail (`LeastIsOne`).

**`GuideServerProofs`**, for any lists, channels and number of grabs, from
`ServerAssumption`: `ServerCloseIsFinal` (`[]CloseIsFinal`: `close()` clears the
timer there is, a decision that comes later is refused one, and a grab begins from a
timer alone), `ServerKeepsChannels` (`Spec => ChannelsStay`: a channel every list
has, once in the guide, is in each after it) and `ServerTagMeansContent`
(`[]TagMeansContent`: a consumer told `304` holds, in the place of each channel of the
snapshot, content no older than the snapshot's); and, of the server with the guides it sends and from `BodiesAssumption`,
`ServerAnswersAreTrue` (`[]AnswersAreTrue`). `StayInv` (`InLast`, `ByList`, `InLook`, `LookByList`) says that the
lists held over, the look under way and the snapshot are each of lists there were;
`TagInv` (`EntryOK`, `ListOK`, `LookOK`, `SnapOK`, `ReaderOK`) that a grab writes only
what is newer than all there is and a guide is sent after its snapshot was counted.
`BodiesInv` is of the queue of guides: what each reader was told is how its guide went
(`BodiesOK`, `ToldIsSo`), none of a closed server of its own is left to a reader still
there (`CutOK`), one waits in the queue once (`QueueOK`) and those that generate hold a
slot each (`SlotsOK`).

**`RunProofs`**, of the parts beside it in `MCRun`, from `PacingAssumption` and
`RevalidationAssumption`, for every concurrency, length of a hold and recovery:
`PacingHoldsFit` (`[]HoldFits`) and `PacingSendsInTurn` (`MCSpec => SentInTurn`); and
for every window, policy, number of days a request and document:
`RunFreezesWithinBounds` (`[]FreezeIsBounded`). `PacingInv` says that until a
cancel a paused queue has a timer (`Paused`), due when the hold ends and not before
the last promise (`Due`, `Kept`), that a timer left behind keeps nothing alive
(`LeftBehind`), that what is cancelled is dropped (`CutDrops`) and that a violation
halves the concurrency as its hold begins (`Halves`). `AgainInv` says of the run
under way and its request what it has done (`DoneServes`, `OfWindow`), what it may
keep (`MayKeep`: only entries within the policy's age), what stands in the cache and
the history of it (`Published`, `Stands`, `EntriesStand`, `Untouched`), and that a
validator is of a document read to its end or of the request that is reading it
(`ReadsLast`, `WasRead`).

**`SiteClockProofs`**, of the clock, for any number of moments, of calls out and of changes in a
moment, from `ClockAssumption`: `ClockGivesEachOnce` (`[]TimeIsGivenOnce`), which
`RunGivesTimeOnce` of `RunProofs` takes to the clock of `MCRun`. First what the code computes:
`CoveredIs` (the sweep counts each moment some call ran in once, though the stretches overlap:
by how far those begun so far reach, `SweptTo`) and `SettledIs` (what is settled is what is kept
before the first call still out, and what waited of it is what no call ran in, `SettledTo`). Both
are inductions along a recursive function, taken here over the first index at which they would
fail. Then `ClockInv`: the stretches kept lie in order (`InOrder`) and within the moments in which
the site only waited elsewhere; of a kept moment it is known whether a call now back ran in it;
and a moment settled is before every call still out (`Waits`), so that no call to come can say
anything of it. `Accounts` then has what each part was given be a set of moments, those kept with
the work.

**`SiteProofs`**, of the requesting turn, from `RequestAssumption`, for any finite plan of
requests for any disjoint channel-days, any concurrency and number of slots:
`RequestsCountedOnce` (`[]CountedOnce`). `RequestsInv` relates each channel-day to
its request: not counted while the request is planned or on its way, counted once
it is over, and in between by where its parse or write is (`Follows`); `fetched` by
what this run wrote, `unchanged` only over an entry (`TrueOf`); and a request on the
queue is one being sent (`OnItsWay`), which is what a cancel relies on to count each
once.

Of the thread, which needs no assumption: `ThreadSaysOnce` (`[]SaidOnce`) and
`ThreadRequestsAddUp` (`[]RequestsAddUp`). Each kind of
message that says how a turn goes has a rank (`RankOf`), and a side of the thread a
stage (`StageOf`). `TurnInv` says that messages are on the port in the order of their
ranks, each rank once (`InOrder`), and that what is on it was said by a site past it
(`WasSent`); that a site is done only after its `site:done` (`SaysDone`), and has begun
before all of it (`HasBegun`); that word of its going is only of a thread that went
(`HasGone`); and what the run has said and counted before its turn is over (`NotOver`:
only what it heard) and after (`IsOver`: nothing more can come, since either the run is
deaf to the port or all ranks up to a `done` are heard).

For the requests, `CountsInv` follows each label by whether it has a slot
(`Accounted`). One with no room (`OfNone`): what the run heard, what is on the port and
what the site is about to say are the requests made, and what is heard or ahead of
`done` on the port are those made by then. One with a slot (`OfSlot`, `IsNamed`): what
is in the slot, or about to be, are the requests made; its name is heard, or on the port
ahead of `done`; and the run has nothing of it until it hangs up, once. `EndsByWord`
says that a turn over with its thread alive is one whose `done` was heard, so all before
it was. Messages are counted as the set of their places on the port, which one sent
joins and one heard leaves as all others move up (`MovedUp`).

**`SourcesProofs`**, over `MCSources`, of its four parts. Of the account, which needs
no assumption: `AccountRenewsOnce` (`MCSpec => RenewedOnce`). `AReasonIsLeft` says that
what was asked for beyond the first token is covered by the tokens refused and the
reasons there were, and one reason is left over while a renewal is only intended;
`NoneRefused` that a call about to be sent carries the token that stands, which is not
refused. A call that finds its token refused meets one that is refused already or
refuses it itself, which is what makes two calls renew once. `Replaced` has a token
among the unproven be there in place of one refused before it, which is what a call may
fail for while it might be tried again.

Of the database, from `CacheAssumption` (keys are finitely many numbers above 0, a page
holds one at least): `DatabaseKeepsKeys` (`MCSpec => KeysStay`). `TablesInv` is why what
was written stays: until two processes have made tables over one another, one at most is
between its `DROP` and its stamp, and while it is no process relies on the tables
(`OneMakes`). `ListingInv` has what a listing handed out be every key of those there all
along up to where it is, each once and none beyond (`HandedOut`); the lemmas from
`RanksAreOfOne` to `PageIs` have `FirstOf` give the least keys in order, each once, and
all of them where they are fewer than a page, which needs the rank of a key in a finite
set to be that of no other.

Of the channel list, from `ListsAssumption`: `ListsAreOfTheirTime`, which is
`ListIsOfItsTime` wherever `kind = "stamped" => Alone`, and `StampsAreOfTheirList`. The
hypothesis is needed: TLC finds `ListIsOfItsTime` violated where a site told by its bag
has two commands at it at once, for the reason `lists_stamped` shows. `SinceInv` orders
the versions by when they stopped being the source's; `StoredInv` and `CommandsInv` have
what is stored, held and about to be stored be whole lists the source had that long ago
and said of no later one, so that a source that says "not changed since" has the list
still (`UnchangedIs`, which has a case for each way of telling); and `StampsInv` has the
bag, read or about to be put, be of no later list than the one it is with, whatever is
refused or killed between the two.

Of a program run as a source, from `ProgramAssumption` (a channel has stale days, up to a
last one): `CutShortIsNeverTaken` (`MCSpec => []CutShortIsNotTaken`), whatever the pipe
holds. `Divided` says that each stale day is in one window, which spans it; the lemmas
from `OfWanted` to `RunsAre` show it of `runs`, by the rank of each stretch's first day
and the least day there is a way back to. `ReadingInv` says that what is still in the
pipe and unwritten goes on from what was read (`Reading`), so that a program with nothing
left has said its window; `CodeInv` that exiting with success is past the last of it;
`SaidInv` that the windows before this one are said, and none of those after. How a pass
or a program may be let go of, in any phase, is one lemma (`StopsKeep`).

**`SchedulesDirectProofs`**, for any finite set of station-days, programmes aired, sizes
of a request, waits and mishaps, from `SchedulesAssumption`: `EachIsSaid`
(`[]EachIsSaidOnce`) and `KeptMeansListed` (`[]KeptIsListed`). That a day is kept is
decided by an md5 stored a run ago, which may have been of a listing that was never
written, of one that has changed since, or lost. `ChunksAre` says that cutting leaves
each station-day in one request (`Apart`, `Ahead`). Of the pass, `OwedInv` has all it
has not said in the requests to come, set aside, or to be fetched, each in one of
them. Of a day, `DayOnce` ties what was said to what is kept and to be written; `DayTrue`
has what is cached, to be written or just read be what is listed, unless that is newer
than its run (`DayRight` holds this and what follows of any day no answer left out); `DayStored` has each md5 stored be of what is cached, or of something that
is listed no longer (`Since`), which an md5 that is stored before its write lands needs of
the write; `DayWhole` has what lacks a programme still to come be marked for it, while
nothing was forgotten. A step says something of a day or nothing (`Heard`, `Quiet`), and
what is said keeps or writes: a lemma for each (`QuietKeeps`, `KeepingKeeps`,
`WritingKeeps`), and one for each action.

**Only model-checked**, and why:

- Liveness everywhere: `EverythingEnds`, `EverythingFollows`, `AskedIsSent`,
  `Converges`; fairness and `ENABLED` are beyond the prover.
- What is decided of texts: `DocumentsReadAlike`, `WrittenIsReadBack`, `GuideIsWhole`, the
  matching and covering in `RequestsCoverOnce`, and whether an entry that is not always
  refetched is old. Their recursive operators are beyond the prover. The rest of
  `ClocksAreRead` and `RequestsCoverOnce` is in `CacheProofs`, where it is stated of the operators:
  a module that reaches `MCDecisions` cannot hold a theorem.
- What a run is only shown to break: the properties of the runs that expect a
  violation.

## 6. What is not modelled

- The command line, `tv_grab_epg` and its prompts, and reporters: text in and text
  out. `keepingThrows` is in `Build`.
- The adapters that make requests of Xtream and playlist services, and the mapping
  of Schedules Direct metadata: conversions of fields.
- The memory cache and that of no cache: a map behind the same calls, and nothing.
- `xmltv/builder.ts`, most elements of a programme and of a channel, character
  sets, compression, bytes. `xmltv` and `m3u` are modelled token by token.
- In the parts that are modelled: p-queue's rate limit in the pacing; the pool's
  choice of a thread, and several sites in one; links in the file cache; routing,
  CORS, compression and base urls in the server; reading ahead in the merge, a
  matcher of one's own, near misses; what normalizes the letters of a name; the
  zone database, which is one change of the clocks.
- Of a whole run: what `derived`, a selection and `cover` choose (they may throw,
  which is all the run sees of them), `runMerge` and `guideStream` by themselves,
  outputs that are no file, the directories `atomicFile` makes, and the counts. A
  streamed pass that a cancel leaves writing is one step here, so `WindsDown` says
  nothing of it.

`PROJECT.json` says of each component what is left out of it.

## 7. Plan

Done: the parts above, each with its runs; the proofs of section 5.

To come: an abstract run (each site said once, all of it before the answer) which `Build`
implements.
