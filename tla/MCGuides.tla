------------------------------ MODULE MCGuides ------------------------------
(* Guides small enough to look at whole: what one or two sites hold of the     *)
(* days of one channel, every way of merging it, and what the guide made of    *)
(* it must be.  A day is six ticks.  Each row a site holds has a number of its *)
(* own, as the spelling of its title, by which it is found again in the guide. *)
(*                                                                             *)
(* And what it is made from: entries of up to two programmes, cut short        *)
(* anywhere and read back; and caches of a few keys of awkward names, among    *)
(* what others may have left.                                                  *)
EXTENDS Entries

CONSTANT Unbounded
DayTicks == 6
M == INSTANCE Merge WITH DayLen <- DayTicks

Local == [at |-> 0, before |-> 0, after |-> 0]
Behind == [at |-> 0, before |-> -2, after |-> -2]   \* another calendar, two ticks off
First == 3

Row(start, stop, name) == [start |-> start, stop |-> stop, name |-> name]
\* A day as a site may hold it: ticks from its midnight, the day before's too.
Plain == <<Row(0, {3}, "news"), Row(3, {6}, "film")>>
Over == <<Row(1, {}, "news"), Row(4, {8}, "late")>>
Repeat == <<Row(-2, {2}, "late"), Row(2, {5}, "film")>>
Block == <<Row(0, {6}, "block"), Row(1, {3}, "news"), Row(3, {6}, "film")>>
Open == <<Row(2, {4}, "news"), Row(5, {}, "late")>>
Beside == <<Row(1, {4}, "news"), Row(4, {6}, "film")>>
Clips == <<Row(1, {3}, "news"), Row(2, {4}, "news"), Row(2, {4}, "late")>>
Mixed == <<Row(-1, {2}, "late"), Row(3, {}, "film")>>
Late == <<Row(5, {7}, "late")>>

\* One day of it as a site's; "n" numbers the site.
Held(n, day, rows) ==
  [i \in DOMAIN rows |->
    [channel |-> "c", start |-> day * DayTicks + rows[i].start,
     stop |-> {day * DayTicks + t : t \in rows[i].stop},
     title |-> << <<rows[i].name, 100 * n + 10 * day + i>> >>, of |-> {n}]]
Silent == <<Row(0, {0}, "none")>>
Site(n, zone, from, lists) ==
  [site |-> n, zone |-> zone, channels |-> <<"c">>, drops |-> {},
   cache |-> [key \in {<<"c", from + i - 1>> : i \in {i \in DOMAIN lists : lists[i] # Silent}} |->
                Held(n, key[2], lists[key[2] - from + 1])]]

Gaps == {{}, {[blockMs |-> 2, minMs |-> 1, maxMs |-> 100, edges |-> TRUE]},
         {[blockMs |-> 4, minMs |-> 2, maxMs |-> 5, edges |-> FALSE]}}
Ways == [channelStrategy : {"merge-programmes", "first-wins"},
         programmeStrategy : {"merge", "backfill", "concat"}, dropContainers : BOOLEAN,
         clampToWindow : BOOLEAN, fillGaps : Gaps]
Guide(way, days) ==
  [first |-> First, last |-> First + days - 1, zone |-> Local, fillStop |-> {3}, clipOverlaps |-> TRUE,
   match |-> [startToleranceMs |-> 1, titles |-> "when-shifted"], union |-> "exact", drops |-> {},
   derived |-> <<>>, channels |-> {}] @@ way

\* The questions: one site three days, two on one calendar, two on two.
Merging == {way \in Ways : /\ way.channelStrategy = "merge-programmes" /\ ~way.clampToWindow
                           /\ way.programmeStrategy = "merge"}
Clamping == {way \in Ways : /\ way.channelStrategy = "merge-programmes"
                            /\ way.programmeStrategy = "merge" /\ way.dropContainers}
Choosing == {way \in Ways : /\ ~way.clampToWindow /\ way.dropContainers
                            /\ way.channelStrategy = "first-wins" => way.programmeStrategy = "merge"}
Asked(ways, behind, mine, theirs) ==
  [kind : {"guide"}, way : ways, behind : behind, mine : mine, theirs : theirs]
Lists(pool, days) == [1 .. days -> pool]
Guides ==
  Asked(Merging, {FALSE}, Lists({Silent, Plain, Over, Repeat, Block, Open}, 3), {<<>>})
    \cup Asked(Choosing, {FALSE}, Lists({Silent, Plain, Over, Repeat, Block}, 2),
                Lists({Silent, Beside, Clips, Mixed, Late}, 2))
    \cup Asked(Clamping, {TRUE}, Lists({Silent, Over, Repeat}, 2), Lists({Silent, Beside, Mixed, Late}, 3))
GuideOf(asked) == Guide(asked.way, Len(asked.mine))
SitesOf(asked) ==
  <<Site(1, Local, First, asked.mine)>>
    \o (CASE asked.theirs = <<>> -> <<>>
          [] asked.behind -> <<Site(2, Behind, First - 1, asked.theirs)>>
          [] OTHER -> <<Site(2, Local, First, asked.theirs)>>)

\* Two channels declared as others shifted, and which of the three are selected.
Shifts == {-4, -2, 2, 4}
Declarations ==
  UNION {{<<d, e>>, <<e, d>>} :
           d \in [xmltvId : {"d"}, from : {"c"}, offset : Shifts],
           e \in [xmltvId : {"e"}, from : {"c", "d"}, offset : Shifts]}
Derivings ==
  [kind : {"derive"}, derived : Declarations, channels : {{}} \cup {{ids} : ids \in SUBSET {"c", "d", "e"}},
   way : {way \in Choosing : way.fillGaps = {} /\ way.channelStrategy = "merge-programmes"},
   behind : {FALSE}, mine : Lists({Over, Repeat}, 2), theirs : {<<Mixed, Beside>>, <<Clips, Late>>}]

\* Texts of one language: what their words are, and whether they were cut off.
Texts == [words : {<<>>} \cup {<<w>> : w \in {<<"a">>, <<"a", "b">>, <<"b">>}}
                  \cup {<<v, w>> : v, w \in {<<"a">>, <<"b">>}},
          teaser : BOOLEAN]
Unions == [kind : {"texts"}, texts : UNION {[1 .. n -> Texts] : n \in 1 .. 3}]

-----------------------------------------------------------------------------
Made(guide, sites) == M!The(M!generateGuide(guide, sites))
Of(made, id) == (CHOOSE entry \in ToSet(made) : entry.xmltvId = id).programmes
Real(rows) == SelectSeq(rows, LAMBDA p : p.of # {})
Fill(rows) == SelectSeq(rows, LAMBDA p : p.of = {})

\* The lists that are the guide's to say, a day of it at a time.
ReadOn(guide, source, day) ==
  LET from == day * DayTicks
      until == from + DayTicks
      OnAir(p) == \E stop \in p.stop : stop > from
      all == FlattenSeq([i \in 1 .. Cardinality(DOMAIN source.cache) |->
                          source.cache[SetToSortSeq(DOMAIN source.cache, LAMBDA a, b : a[2] < b[2])[i]]])
      There(p) == /\ p.start < until
                  /\ p.start >= from \/ (day = guide.first /\ OnAir(p))
  IN  IF source.zone # guide.zone THEN SelectSeq(all, There)
      ELSE IF <<"c", day>> \in DOMAIN source.cache THEN source.cache[<<"c", day>>] ELSE <<>>
Contributed(guide, sites) ==
  LET There(p) == guide.clampToWindow => /\ guide.first * DayTicks <= p.start
                                         /\ p.start < (guide.last + 1) * DayTicks
      heard == IF guide.channelStrategy = "first-wins" THEN {1} ELSE DOMAIN sites
  IN  {SelectSeq(ReadOn(guide, sites[s], day), There) : s \in heard, day \in guide.first .. guide.last}
Near(p, q) == p.start - q.start \in -1 .. 1
Inside(p, q) == p.start >= q.start /\ (\E stop \in p.stop, end \in q.stop : stop <= end)

\* Every row is said, and said once, unless it is a block's that two or more
\* of the others are inside of; two of one list are never taken for one; and a
\* backfilled row is left out only where the first site has something on.
EveryRowIsSaid(asked) ==
  LET guide == GuideOf(asked)
      sites == SitesOf(asked)
      real == Real(Of(Made(guide, sites), "c"))
      lists == Contributed(guide, sites)
      rows == UNION {ToSet(l) : l \in lists}
      Saying(row) == {i \in DOMAIN real : row.title[1] \in ToSet(real[i].title)}
      IsBlock(row) == \E block \in rows : /\ Near(row, block)
                                          /\ Cardinality({p \in rows \ {block} : Inside(p, block)}) >= 2
      Ends(row) == Max({row.start + 1} \cup (IF row.stop = {} THEN {row.start + 3} ELSE row.stop))
      Outranked(row) == guide.programmeStrategy = "backfill" /\ row.of = {2}
                        /\ \E first \in rows : /\ first.of = {1}
                                               /\ row.start < Ends(first) + 1 /\ first.start < Ends(row) + 1
  IN  /\ \A row \in rows :
           \/ Cardinality(Saying(row)) = 1
           \/ Saying(row) = {} /\ (Outranked(row) \/ (guide.dropContainers /\ IsBlock(row)))
      /\ guide.programmeStrategy # "concat" =>
           \A l \in lists : \A p, q \in ToSet(l) :
             p.start # q.start => Saying(p) \cap Saying(q) = {}

\* In order; what starts before another is over by then; and if every one but
\* the last says its stop, the blocks are over nothing and, edges and all, leave
\* no tick of the days without anything on.
NothingOverlaps(asked) ==
  LET guide == GuideOf(asked)
      out == Of(Made(guide, SitesOf(asked)), "c")
      real == Real(out)
      Covers(p, tick) == p.start <= tick /\ (p.stop = {} \/ \E stop \in p.stop : tick < stop)
      measured == \A i \in 1 .. (Len(real) - 1) : real[i].stop # {}
      sameStart == \E i \in 1 .. (Len(real) - 1) : real[i].start = real[i + 1].start
  IN  /\ \A i \in 1 .. (Len(real) - 1) :
           /\ real[i].start <= real[i + 1].start
           /\ real[i].start < real[i + 1].start => \A stop \in real[i].stop : stop <= real[i + 1].start
      /\ measured /\ ~sameStart =>
           /\ \A i \in 1 .. (Len(out) - 1) : out[i].start < out[i + 1].start
           /\ \A i \in DOMAIN out : \A block \in ToSet(Fill(out)) \ {out[i]} :
                \A tick \in block.start .. (Min(block.stop) - 1) : ~Covers(out[i], tick)
           /\ (\E gaps \in guide.fillGaps : gaps.edges) =>
                \A tick \in (guide.first * DayTicks) .. ((guide.last + 1) * DayTicks - 1) :
                  \E p \in ToSet(out) : Covers(p, tick)

\* A derived channel is the one at the end of its chain, shifted by all of it,
\* where the shift leaves a day its last programme, for the next day's to follow;
\* with some of them selected, the guide is those and the channels they are
\* shifts of, as the whole guide has them; and it is refused for a chain that
\* shifts by a day, or, past one not selected, by nothing.
DerivedAsDeclared(asked) ==
  LET whole == Guide(asked.way, Len(asked.mine))
      guide == [whole EXCEPT !.derived = asked.derived, !.channels = asked.channels]
      made == M!generateGuide(guide, SitesOf(asked))
      source == Of(Made(whole, SitesOf(asked)), "c")
      declared == {d.xmltvId : d \in ToSet(asked.derived)}
      wanted == IF asked.channels = {} THEN declared \cup {"c"} ELSE UNION asked.channels
      By(id) == CHOOSE d \in ToSet(asked.derived) : d.xmltvId = id
      Total(id) == By(id).offset + (IF By(id).from = "c" THEN 0 ELSE By(By(id).from).offset)
      refused == \E id \in wanted \cap declared :
                   \/ Total(id) <= -DayTicks \/ Total(id) >= DayTicks
                   \/ By(id).from \notin wanted \cup {"c"} /\ Total(id) = 0
      Stays(id) == Total(id) >= -2
      Moved(p, id) == [p EXCEPT !.channel = id, !.start = @ + Total(id), !.stop = {t + Total(id) : t \in @}]
  IN  IF refused THEN made = {}
      ELSE /\ {entry.xmltvId : entry \in ToSet(M!The(made))}
                = wanted \cup (IF wanted = {} THEN {} ELSE {"c"})
           /\ \A id \in wanted \cap declared : Stays(id) =>
                Of(M!The(made), id) = [i \in DOMAIN source |-> Moved(source[i], id)]
           /\ "c" \in wanted => Of(M!The(made), "c") = source

\* Of several texts none is kept that another kept one says too, and each left
\* out is within another, and that one is kept or is within yet another.
EveryTextIsSaid(asked) ==
  LET texts == asked.texts
      kept == M!byContainment(texts)
      Covers(outer, inner) ==
        \/ inner.words = <<>>
        \/ \E at \in 0 .. (Len(outer.words) - Len(inner.words)) :
             /\ SubSeq(outer.words, at + 1, at + Len(inner.words) - 1) = Front(inner.words)
             /\ IF inner.teaser THEN IsPrefix(Last(inner.words), outer.words[at + Len(inner.words)])
                               ELSE Last(inner.words) = outer.words[at + Len(inner.words)]
      Within == [i, j \in DOMAIN texts |-> i = j \/ Covers(texts[j], texts[i])]
  IN  /\ kept # <<>>
      /\ \A i, j \in DOMAIN kept : i # j => ~Covers(kept[i], kept[j])
      /\ \A i \in DOMAIN texts : \E j, k \in DOMAIN texts :
           Within[i, j] /\ Within[j, k] /\ texts[k] \in ToSet(kept)

-----------------------------------------------------------------------------
(* Entries and the files they are in. *)
Date(time, offset, precision) == [time |-> time, offset |-> offset, precision |-> precision]
Shows == {[title |-> "News", start |-> Date(5, {}, "full"), stop |-> {Date(7, {2}, "full")}, previouslyShown |-> {}],
          [title |-> "Late", start |-> Date(4, {-1}, "full"), stop |-> {}, previouslyShown |-> {Date(3, {1}, "day")}],
          [title |-> "Late", start |-> Date(8, {0}, "day"), stop |-> {}, previouslyShown |-> {}]}
UpToTwo(set) == UNION {[1 .. n -> set] : n \in 0 .. 2}
Writers == {<< <<"v1">> >>, << <<"?">>, <<">">> >>}
Said(schema, complete, count) ==
  [schema |-> schema, complete |-> complete, programmeCount |-> count, writtenBy |-> << <<"v1">> >>]

\* Whole, cut short anywhere, or with a piece anywhere gone.
Longest == 18
Damages(codec) ==
  IF codec = "ndjson" THEN {less \in [from : 1 .. Longest, to : 1 .. Longest] : less.from <= less.to + 1}
  ELSE [from : 1 .. Longest, to : {Longest}]
Keeping(codec, writers) ==
  [kind : {"keep"}, codec : {codec}, programmes : UpToTwo(Shows), writtenBy : writers, less : Damages(codec)]
Keepings == Keeping("ndjson", {<< <<"v1">> >>}) \cup Keeping("json", {<< <<"v1">> >>}) \cup Keeping("xmltv", Writers)
Judgings == [kind : {"judge"}, schema : {1, 2}, complete : BOOLEAN, invalid : BOOLEAN, count : {0, 1}]

Named(token) == <<token>>
AwkwardNames == {Named("a"), <<".">>, <<".", ".">>, <<"a", "/", "a">>, <<"%", "2F">>}
AwkwardIds == {Named("a"), <<"/">>, <<"a", ".json">>}
Keys == [kind : {"entry"}, site : AwkwardNames, channelId : AwkwardIds, day : Days]
        \cup [kind : {"state"}, site : AwkwardNames, key : {Named("z"), <<"%">>}]
\* Another's directory beside the sites, or file within one.
Strangers == {<< <<"lost", "+", "found">>, <<"a">>, <<"d1", ".ext">> >>, << <<"%", "2f">>, <<"a">> >>, << <<"%">>, <<"a">>, <<"d1", ".ext">> >>,
              << <<"a">>, <<"a">>, <<"d1", ".ext", ".x", ".tmp">> >>, << <<"a">>, <<"a">>, <<"d1", ".old">> >>,
              << <<"a">>, <<"%">>, <<"d1", ".ext">> >>, << <<"Trash">>, <<"x">> >>}
Options == [kind : {{}, {"entry"}, {"state"}}, site : {{}, {<<"a">>}, {<<".", ".">>}},
            channelId : {{}, {<<"/">>}}]
KeySets == {{x, y, z} : x \in {k \in Keys : k.kind = "entry" /\ k.site = <<"a">> /\ k.day = "d1"}, y \in Keys,
                        z \in {k \in Keys : k.kind = "state" /\ k.site = <<".", ".">> /\ k.key = <<"%">>}}
Walks == [kind : {"walk"}, keys : KeySets, options : Options, denied : {"none", "stranger", "channel"}]

-----------------------------------------------------------------------------
Cut(text, at) == <<SubSeq(text, 1, at), SubSeq(text, at + 1, Len(text))>>

Less(text, gap) ==
  SubSeq(text, 1, Min({gap.from - 1, Len(text)})) \o SubSeq(text, gap.to + 1, Len(text))

\* A date is kept to its precision, in its offset; no offset and none said are one.
Normal(date) ==
  LET offset == IF date.offset = {} THEN 0 ELSE The(date.offset)
      wall == date.time + offset
  IN  [time |-> IF date.precision = "day" THEN wall - (wall % DayLen) - offset ELSE date.time,
       offset |-> date.offset \ {0}, precision |-> date.precision]
Beforehand(codec, programme) ==
  IF codec = "xmltv" THEN programme
  ELSE [programme EXCEPT !.start = Normal(@), !.stop = {Normal(date) : date \in @},
                         !.previouslyShown = {Normal(date) : date \in @}]

\* An entry reads back as it was written; cut short anywhere, or less some of
\* its ndjson, it is no entry or the same one; and its front says what all of
\* it does, however it is read.
EntryComesBack(asked) ==
  LET programmes == asked.programmes
      meta == stamped(programmes, asked.writtenBy)
      content == CASE asked.codec = "ndjson" -> ndjsonEntry(ndjsonBody(programmes), meta)
                   [] asked.codec = "json" -> jsonBody(programmes)
                   [] OTHER -> xmltvEntry(xmltvBody(programmes), meta)
      left == Less(content, asked.less)
      parts == CASE asked.codec = "ndjson" -> ndjsonParts(left)
                 [] asked.codec = "json" -> [meta |-> {meta}, body |-> left]
                 [] OTHER -> xmltvParts(left)
      front == CASE asked.codec = "ndjson" -> ndjsonMeta(Cut(left, Len(left) \div 2))
                 [] asked.codec = "json" -> {meta}
                 [] OTHER -> xmltvMeta(Cut(left, Len(left) \div 2))
      read == inspect(asked.codec, parts, {})
  IN  /\ \/ read = [status |-> "readable",
                   programmes |-> [i \in DOMAIN programmes |-> Beforehand(asked.codec, programmes[i])]]
         \/ left # content /\ read.status \in {"unreadable", "corrupt"}
      /\ front = parts.meta \/ (asked.codec = "ndjson" /\ NEWLINE \notin ToSet(left))

\* An entry is of another schema before it is anything else, and only one that
\* says enough is the config's to refuse.
JudgedInTurn(asked) ==
  LET meta == Said(asked.schema, asked.complete, asked.count)
      status == inspect("json", [meta |-> {meta}, body |-> jsonBody(<<>>)],
                        IF asked.invalid THEN {meta} ELSE {}).status
  IN  /\ asked.schema = 2 => status = "incompatible"
      /\ asked.schema = 1 /\ ~asked.complete => status = "unreadable"
      /\ asked.schema = 1 /\ asked.complete =>
           status = IF asked.invalid THEN "invalidated" ELSE IF asked.count = 0 THEN "readable" ELSE "corrupt"

\* Each key has a file of its own below the directory, and what is listed is what
\* was kept, as asked, whatever else is there; a channel that cannot be read is
\* said to be, by whoever asked for it, rather than be listed without its days.
ListedAsKept(asked) ==
  LET options == asked.options
      PathOf(key) == IF key.kind = "entry" THEN entryFilePath(key) ELSE stateFilePath(key.site, key.key)
      Mine(key) == key.kind = "entry" /\ key.site = <<"a">>
      denied == CASE asked.denied = "none" -> {}
                  [] asked.denied = "stranger" -> {<< <<"Trash">> >>}
                  [] OTHER -> {Front(PathOf(key)) : key \in {k \in asked.keys : Mine(k)}}
      disk == [files |-> {PathOf(key) : key \in asked.keys} \cup Strangers, denied |-> denied]
      ought == {key \in asked.keys :
                  /\ options.kind \subseteq {key.kind} /\ options.site \subseteq {key.site}
                  /\ options.channelId # {} => key.kind = "entry" /\ options.channelId = {key.channelId}}
      listed == list(disk, options)
  IN  /\ \A key, other \in asked.keys : PathOf(key) = PathOf(other) => key = other
      /\ \A key \in asked.keys : \A i \in DOMAIN PathOf(key) :
           PathOf(key)[i] \notin {<<".">>, <<".", ".">>} /\ "/" \notin ToSet(PathOf(key)[i])
      /\ listed.failed <=> asked.denied = "channel" /\ \E key \in ought : Mine(key)
      /\ ~listed.failed => listed.keys = ought
=============================================================================
