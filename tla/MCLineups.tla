----------------------------- MODULE MCLineups ------------------------------
(* Small lineups: two sites of a few channels between them; playlists of up to *)
(* three entries; channel lists written by hand, and entries to write; and     *)
(* names near enough to be taken for one another.                              *)
(*                                                                             *)
(* And playlists small enough to be cut everywhere: a header or none, and two  *)
(* or three lines of each kind there is, in every order; what should come of   *)
(* reading one in pieces, and of writing down what was read.                   *)
(*                                                                             *)
(* And documents small enough to be every one there is: up to four programmes  *)
(* of two channels a guide asks for and one it does not, in any order, over    *)
(* two days; bodies cut into chunks anywhere; and what should come of them.    *)
EXTENDS Lineups

CONSTANTS DayLen, NameTokens, Numbers
S == INSTANCE DocumentSplit
P == INSTANCE M3u

A(n) == [xmltvId |-> n]
Lists == {<<>>, <<A("x")>>, <<A("x"), A("y")>>, <<A("y"), A("x"), A("x")>>}
Rules == {[named |-> TRUE, name |-> name, answer |-> {}] : name \in {"all", "first"}}
         \cup {[named |-> FALSE, name |-> "own", answer |-> answer] :
                 answer \in {{}, {{}}, {{"s2"}}, {{"s1", "s3"}}, {{"who", "s2"}}}}
Covers == [kind : {"cover"}, s1 : Lists, s2 : Lists, s3 : Lists, rule : Rules]

Grp(value) == <<[name |-> "EXTGRP", value |-> value]>>
Playing(id, directives, group) ==
  [tvgId |-> id, tvgID |-> {<<"big">>}, tvgName |-> {<<>>}, name |-> <<"One">>, tvgChno |-> {<<"7">>},
   groupTitle |-> group, url |-> <<"rel", "stream">>, directives |-> directives]
Plays == {Playing(id, directives, group) :
            id \in {{<<>>}, {<<"one">>}, {}},
            directives \in {<<>>, Grp(<<"Old", ";", " ", ";", "News">>), <<[name |-> "EXTVLCOPT", value |-> <<"x">>]>>,
                            Grp(<<"Old">>) \o Grp(<<>>)},
            group \in {{}, {<<" ", "News", ";", "Film">>}}}
Playlists == [kind : {"playlist"}, entries : UNION {[1 .. n -> Plays] : n \in {1, 2}}
                                             \cup {<<x, y, x>> : x, y \in Plays},
              byName : BOOLEAN, base : {{}, {"http"}}]

Root(attrs) == <<"<channels">> \o attrs \o <<">", "LF">>
Tag(attrs, rest) == <<"<channel">> \o attrs \o rest
Ended(name) == <<">">> \o name \o <<"</channel", ">">>
Here(site, id, xmltvId) == site \o Attr("site_id", id) \o Attr("xmltv_id", xmltvId)
Elements == {
  Tag(Here(<<>>, <<"1">>, <<"one">>), <<" ", "/", ">">>),
  Tag(Here(<<>>, <<"1">>, <<>>), Ended(<<" ", "A", "&", "amp;", "lt;", " ">>)),
  Tag(Here(Attr("site", <<"b">>), <<"1">>, <<"two">>)
        \o <<" ", "url", "=", "\"", "a", "&", "gt;", "&", "quot;", "\"">>, Ended(<<"Two">>)),
  Tag(Attr("xmltv_id", <<"no">>) \o Attr("lcn", <<"5">>) \o Attr("lcn", <<"6">>), Ended(<<"None">>)),
  Tag(<<" ", "site_id", "=", "2", " ", "xmltv_id", "=", "\"", "open">>, <<">">>),
  <<"<channel", "group", ">">>, <<"<channel">>}
Files == [kind : {"file"}, prolog : {<<>>, <<"<", "?", "xml", "?", ">">>, Tag(<<>>, Ended(<<>>))},
          root : {Root(<<>>), Root(Attr("site", <<"a">>)), <<>>, <<"<channels">>},
          elements : [1 .. 2 -> Elements \cup {<<>>}], to : {{}, {<<"a">>}, {<<"b">>}}]

Names == {<<"One">>, <<"ONE", " ", "HD">>, <<"Two", " ", "+", "1">>, <<"Two">>, <<"One", " ", "-", "24", " ", "h">>, <<>>}
Cands == [id : {{}, {"one"}, {"two"}}, name : {{}} \cup {{name} : name \in Names}]
Matches == [kind : {"match"}, wanted : Cands, first : Cands, second : Cands]
Shifts == [kind : {"shift"}, base : Names \cup {<<" ", "One">>}, hours : {-24, -1, 0, 1, 24}, half : BOOLEAN,
           available : {<<>>, <<[id |-> {}, name |-> {<<"Two">>}]>>}]

-----------------------------------------------------------------------------
\* Nothing is lost for being contested but by a rule that says so, and what is
\* left to the first is grabbed once; a channel one site has is never asked about.
CoveredByOne(asked) ==
  LET sites == <<[site |-> "s1", channels |-> asked.s1], [site |-> "s2", channels |-> asked.s2],
                 [site |-> "s3", channels |-> asked.s3]>>
      left == covered(sites, asked.rule)
      Has(list, id) == \E i \in DOMAIN list : list[i].xmltvId = id
      Had(id) == {i \in DOMAIN sites : Has(sites[i].channels, id)}
      Keeps(id) == {i \in DOMAIN sites : Has(left.sites[i].channels, id)}
      Twice(id) == \E i \in DOMAIN sites : Len(SelectSeq(sites[i].channels, LAMBDA c : c.xmltvId = id)) > 1
  IN  /\ \A id \in {"x", "y"} :
           /\ Keeps(id) \subseteq Had(id)
           /\ Cardinality(Had(id)) = 1 /\ ~Twice(id) => Keeps(id) = Had(id)
           /\ asked.rule.name = "all" => Keeps(id) = Had(id)
           /\ asked.rule.name = "first" /\ Had(id) # {} => Keeps(id) = {Min(Had(id))}
           /\ asked.rule.answer = {} /\ asked.rule.name = "own" => Keeps(id) = Had(id)
      /\ \A i \in DOMAIN sites :
           left.dropped[i] = Cardinality({id \in {"x", "y"} : i \in Had(id) \ Keeps(id)})
      /\ left.warned # {} => asked.rule.answer \in {{{"who", "s2"}}, {{"s2"}}, {{"s1", "s3"}}}

\* Each entry of a list is a channel of it, in order, or passed over for a reason
\* it has; no two are one; and a group is said from where it is until the next.
ListIsTaken(asked) ==
  LET entries == asked.entries
      list == channelsFromM3u(entries, asked.byName, asked.base)
      ids == [i \in DOMAIN list.channels |-> list.channels[i].xmltvId]
      Begun(i) == {j \in 1 .. i : \E n \in DOMAIN entries[j].directives : entries[j].directives[n].name = "EXTGRP"}
      Data(i) == [url |-> IF asked.base = {} THEN <<"rel", "stream">> ELSE <<"http", "stream">>,
                  groups |-> Distinct(semicolons(Or(entries[i].groupTitle, <<>>))
                               \o (IF Begun(i) = {} THEN <<>>
                                   ELSE semicolons(Last(entries[Max(Begun(i))].directives).value)))]
      Taken(i) == \E n \in DOMAIN list.channels : list.channels[n].data = Data(i)
      Nameless(i) == entries[i].tvgId = {<<>>} /\ ~asked.byName
      FirstOfIts == {i \in DOMAIN entries : ~Nameless(i) /\ ~\E j \in 1 .. (i - 1) :
                       ~Nameless(j) /\ entries[j].tvgId = entries[i].tvgId}
  IN  /\ Len(list.channels) + Len(list.skipped) = Len(entries)
      /\ IsInjective(ids) /\ <<>> \notin ToSet(ids)
      /\ Len(ids) = Cardinality(FirstOfIts) /\ \A i \in FirstOfIts : Taken(i)
      /\ \A n \in DOMAIN list.skipped : list.skipped[n][2] = "no-id" <=> list.skipped[n][1].tvgId = {<<>>} /\ ~asked.byName

\* A list written is the list read, whatever site it is written under, but that
\* who names none is of that site; it is written the same again; what is wrong
\* with it still is; and no two of its channels are one of the source's.
FileComesBack(asked) ==
  LET text == asked.prolog \o asked.root \o FlattenSeq(asked.elements) \o <<"</channels", ">">>
      read == parseChannelsXml(text)
      written == serializeChannelsXml(read, [site |-> asked.to])
      again == parseChannelsXml(written)
      root == IF Said(asked.to) THEN asked.to ELSE read.site
      Under(entry) == [entry EXCEPT !.site = IF Said(@) THEN @ ELSE root]
      taken == channelsFromChannelsXml(again.entries, asked.to)
  IN  /\ again.site = root
      /\ again.entries = [i \in DOMAIN read.entries |-> Under(read.entries[i])]
      /\ serializeChannelsXml(again, [site |-> {}]) = written
      /\ read.warnings = <<"unexpected-document">> \/ asked.to # {} \/ again.warnings = read.warnings
      /\ IsInjective([i \in DOMAIN taken.channels |-> taken.channels[i].siteId])
      /\ Len(taken.channels) + Len(taken.skipped) = Len(read.entries)
      /\ \A i \in DOMAIN taken.channels :
           /\ taken.channels[i].xmltvId # <<>>
           /\ asked.to # {} => \A data \in taken.channels[i].data : data.site \subseteq asked.to

\* A channel is matched when there is no doubt which: by its id, the first that
\* has it; else by its name, and only where it is one's alone.
MatchedForCertain(asked) ==
  LET available == <<asked.first, asked.second>>
      match == matchChannels(<<asked.wanted>>, available)[1]
      Named(i) == /\ Said(asked.wanted.name) /\ Said(available[i].name)
                  /\ normalize(The(asked.wanted.name)) \notin {<<>>}
                  /\ normalize(The(available[i].name)) = normalize(The(asked.wanted.name))
      Same(i) == Said(asked.wanted.id) /\ available[i].id = asked.wanted.id
  IN  /\ match.kind = "id" <=> \E i \in 1 .. 2 : Same(i)
      /\ match.kind = "id" => \A i \in match.matched : Same(i) /\ \A j \in 1 .. (i - 1) : ~Same(j)
      /\ Cardinality(match.matched) <= 1
      /\ match.kind = "name" => match.matched = {i \in 1 .. 2 : Named(i)}
      /\ match.kind = "none" => match.matched = {} /\ Cardinality({i \in 1 .. 2 : Named(i)}) \in {0, 2}
      /\ match.timeshiftOf # {} => match.kind = "none" /\ match.ambiguous = {}

\* What a shifted channel is called is read back as the shift it is, and of what.
ShiftIsReadBack(asked) ==
  LET named == timeshiftName(asked.base, asked.hours, asked.half)
      Match(name) == matchChannels(<<[id |-> {}, name |-> {name}]>>, asked.available)[1]
  IN  timeshiftOf(asked.base) = {} =>
        \A name \in named :
          /\ timeshiftOf(name) = {[offset |-> asked.hours, base |-> Trim(asked.base)]}
          /\ asked.available # <<>> /\ asked.base = <<"Two">> =>
               Match(name).timeshiftOf = {[channel |-> 1, offset |-> asked.hours]}

-----------------------------------------------------------------------------
(* Documents as sources. *)
\* Two days, one tick either side of the midnight between them.
Local == [at |-> 8, before |-> -1, after |-> 1]
Starts(times, offsets) == {[time |-> t, offset |-> {o}, precision |-> "full"] : t \in times, o \in offsets}
Item(channel, start) == [type |-> "programme", value |-> [channel |-> channel, start |-> start]]
\* A programme is known by where it is in the document.
Numbered(document) ==
  [i \in DOMAIN document |->
    IF document[i].type = "channel" THEN document[i]
    ELSE [document[i] EXCEPT !.value = [n |-> i, channel |-> @.channel, start |-> @.start]]]
UpTo(n, items) == {Numbered(d) : d \in UNION {[1 .. k -> items] : k \in 0 .. n}}

Plain == {Item(id, start) : id \in {"s", "t", "u"}, start \in Starts({6, 9}, {0})}
Offset == {Item(id, start) : id \in {"s", "t"}, start \in Starts({7, 8}, {-1, 1})}
Declared(id) == [type |-> "channel",
                 value |-> [id |-> id, displayName |-> IF id = "t" THEN <<>> ELSE <<id, "other">>,
                            icon |-> IF id = "t" THEN <<"logo">> ELSE <<>>]]
Channel(xmltvId, siteId) == [xmltvId |-> xmltvId, siteId |-> siteId]
Asks(xmltvId, siteId, days) == [i \in DOMAIN days |-> [channel |-> Channel(xmltvId, siteId), day |-> days[i]]]
\* One channel a day short, two that share a source, and both beside another.
Plans == {Asks("A", "s", <<1>>) \o Asks("T", "t", <<1, 2>>),
          Asks("A", "s", <<1, 2>>) \o Asks("B", "s", <<2>>),
          Asks("A", "s", <<1>>) \o Asks("T", "t", <<2>>) \o Asks("B", "s", <<2>>)}
By(by) == [by |-> by, zone |-> Local]

Splits ==
  [kind : {"split"}, document : UpTo(4, Plain), plan : Plans, dayZone : {By("utc")}, order : {"grouped", "any"}]
  \cup [kind : {"split"}, document : UpTo(2, Offset), plan : Plans,
        dayZone : {By("source"), By("run"), By("zone")}, order : {"grouped"}]
Heads == [kind : {"head"}, document : UpTo(3, {Declared("s"), Declared("t"), Item("s", CHOOSE x \in Starts({6}, {0}) : TRUE)})]

Bodies == {<<>>, <<"<", "x">>, <<"bom", "<", "x", "x">>, <<"1f", "8b", "x", "x", "x">>, <<"1f", "x">>,
           <<"28", "b5", "2f", "fd", "x">>, <<"28", "b5", "2f">>, <<"x", "x", "1f", "8b", "x">>}
Abouts == [compression : {{}, {"none"}, {"gzip"}}, name : {{}, {"gzip"}, {"brotli"}},
           contentType : {{}, {"brotli"}}, contentEncoding : {{}, {"br"}}]
Sniffs == [kind : {"sniff"}, body : Bodies, about : Abouts]

-----------------------------------------------------------------------------
\* Each channel is handed every programme of the days it asked for, once and in
\* the order of the document, and nothing else.  What is held is of one channel
\* for as long as the document keeps each to itself, whatever is between, and a
\* channel-day is then handed over whole, once.
HandedAsAsked(asked) ==
  LET document == asked.document
      split == S!splitXmltvDocument(document, asked.plan, asked.dayZone, Local, asked.order)
      out == split.out
      sources == {it.channel.siteId : it \in ToSet(asked.plan)}
      indices == {i \in DOMAIN document : document[i].value.channel \in sources}
      Of(i) == document[i].value.channel
      Day(start) ==
        (start.time + (CASE asked.dayZone.by = "utc" -> 0 [] asked.dayZone.by = "source" -> The(start.offset)
                         [] OTHER -> IF start.time < Local.at THEN Local.before ELSE Local.after)) \div DayLen
      Handed(it) == FlattenSeq([k \in DOMAIN out |->
                      IF out[k].channel = it.channel /\ out[k].day = it.day THEN out[k].programmes ELSE <<>>])
      Ought(it) == SelectSeq([i \in DOMAIN document |-> document[i].value],
                     LAMBDA p : p.channel = it.channel.siteId /\ Day(p.start) = it.day)
      grouped == \A i, j, k \in indices : i < j /\ j < k /\ Of(i) = Of(k) => Of(j) = Of(i)
      LastOf(siteId) == Max({i \in indices : Of(i) = siteId})
  IN  /\ \A it \in ToSet(asked.plan) : Handed(it) = Ought(it)
      /\ \A k \in DOMAIN out : /\ out[k].programmes # <<>>
                               /\ [channel |-> out[k].channel, day |-> out[k].day] \in ToSet(asked.plan)
      /\ asked.order = "grouped" => (split.ungrouped <=> ~grouped)
      /\ asked.order = "grouped" /\ grouped =>
           /\ \A k, l \in DOMAIN out : out[k].channel = out[l].channel /\ out[k].day = out[l].day => k = l
           /\ \A k \in DOMAIN out : \A i \in indices :
                i > LastOf(out[k].channel.siteId) => i >= out[k].read

\* Every channel the document declares before it begins is listed, and is put
\* back under its new name as it was declared.
ListedAsDeclared(asked) ==
  LET document == asked.document
      listed == S!channelsOf(document)
      none == [id |-> "none", displayName |-> <<>>, icon |-> <<>>]
      named == [i \in DOMAIN listed |-> S!xmltvChannelInfo([listed[i] EXCEPT !.xmltvId = "new"], none)]
  IN  /\ \A i \in DOMAIN document :
           (\A j \in 1 .. i : document[j].type = "channel") =>
             i \in DOMAIN listed /\ named[i] = [document[i].value EXCEPT !.id = "new"]
      /\ Len(listed) < Len(document) => document[Len(listed) + 1].type = "programme"

\* However its bytes come, a body is taken for the same thing and comes whole; and
\* one of text or of a magic number of its own is never refused.
SniffedAlike(asked) ==
  LET body == asked.body
      whole == S!streamBytes(<<body>>, asked.about)
      Chunks(cut) == LET bounds == SetToSortSeq(cut \cup {0, Len(body)}, LAMBDA a, b : a < b)
                     IN  [i \in 1 .. (Len(bounds) - 1) |-> SubSeq(body, bounds[i] + 1, bounds[i + 1])]
  IN  /\ \A cut \in SUBSET (1 .. Len(body)) : S!streamBytes(Chunks(cut), asked.about) = whole
      /\ ~whole.refused => whole.bytes = body
      /\ whole.refused => Head(body) \notin {"<", "bom"} /\ ~IsPrefix(S!MAGIC.gzip, body)

-----------------------------------------------------------------------------
Info(rest) == <<"#", "EXTINF", ":">> \o rest
Headers == {<<>>, <<"#", "EXTM3U", "LF">>, <<"BOM", "#", "EXTM3U", " ", "tvg", "=", "a", "CR", "LF">>,
            <<" ", "LF", "#", "EXTM3U", "tab", "tvg", "=", "\"", "a", "LF">>,
            <<"#", "note", "LF", "#", "EXTM3U", "LF">>}
Lines == {
  Info(<<"-1", " ", "tvg", "=", "\"", "a", ",", "\"", ",", "One">>),
  Info(<<"5", " ", "tvg", " ", "=", "a", " ", "a", " ", "tvg", "=", "b", ",", "Two", ",", "2">>),
  Info(<<"half">>), Info(<<"-1", " ", "tvg", "=", "\"", "a", ",", "One">>),
  Info(<<"5", " ", "tvg", "=", "a", "\"", "\"", "b", ",", "One", "CR", "CR">>),
  <<"#", "group", ":", "a", ":", "b">>, <<"#", "EXTM3U">>, <<"#", " ", "note">>,
  <<"url">>, <<" ", "url", " ", "CR">>, <<>>, <<" ", "CR">>, <<"nbsp">>, <<" ", "#">>}

Ends == {<<"url">>, <<"#", "group", ":", "a", ":", "b">>, <<>>}
Two == {opening \o first \o <<"LF">> \o second \o ending :
          opening \in Headers, first \in Lines, second \in Ends, ending \in {<<>>, <<"LF">>}}
Three == {<<"#", "EXTM3U", "LF">> \o first \o <<"LF">> \o second \o <<"LF">> \o third :
            first \in Lines, second \in Lines, third \in Lines}

\* A line past the bound, lines that are only with what they begin or end by, and
\* one of blanks.
Bound == 19
Filled(n, token) == [i \in 1 .. n |-> token]
Long == {Filled(Bound + 1, "x"), <<"#">> \o Filled(Bound + 2, "x") \o <<"CR">>, Filled(Bound, "x"),
         Filled(Bound, "x") \o <<"CR">>, Filled(Bound + 1, " ")}
Overlong == {<<"BOM">> \o Filled(n, "x") \o <<"LF", "url">> : n \in {Bound, Bound + 1}} \cup
            {first \o <<"LF">> \o long \o last : first \in {Info(<<"5", ",", "One">>), <<"url">>},
               long \in Long, last \in {<<"LF", "url">>, <<"LF">>, <<>>}}
Readings == [keepUnknown : BOOLEAN, maxLineLength : {Bound}]
All == [keepUnknown |-> TRUE, maxLineLength |-> 1000]

Cuts(kind, texts) ==
  UNION {[kind : {kind}, text : {text}, at : 0 .. (Len(text) - 1), reading : Readings] : text \in texts}
Texts == Cuts("list", Two \cup Overlong)
         \cup [kind : {"list"}, text : Three, at : {0}, reading : Readings]
Written == [kind : {"written"}, text : Two \cup Three, given : {<<>>, <<<<<<"tvg">>, <<"z">>>>>>},
            eol : {<<"LF">>, <<"CR", "LF">>}]

\* Every cut in two, and into single tokens, which is every cut there is.
Cut(text, at) ==
  IF at = 0 THEN [i \in DOMAIN text |-> <<text[i]>>]
  ELSE <<SubSeq(text, 1, at), SubSeq(text, at + 1, Len(text))>>

-----------------------------------------------------------------------------
\* Whether a line is past the bound is counted in two ways: of one cut short of its
\* end, with what it begins and ends by and blank or not; of one that came whole,
\* without.  And one past the bound that nothing ends leaves the playlist unended.
CountedAlike(text, bound) ==
  LET ends == {0, Len(text) + 1} \cup {i \in DOMAIN text : text[i] = "LF"}
      Line(i) == SubSeq(text, Max({e \in ends : e < i}) + 1, i - 1)
      Text(line) == SelectSeq(line, LAMBDA token : token \notin {"BOM", "CR"})
  IN  \A i \in ends \ {0} :
        Len(Line(i)) > bound =>
          i \in DOMAIN text /\ Len(Text(Line(i))) > bound /\ ~(ToSet(Line(i)) \subseteq P!Blank)

\* However it is cut, a playlist whose lines are counted alike gives the same events.
ReadsTheSame(text, at, options) ==
  CountedAlike(text, options.maxLineLength) =>
    P!parseM3uStream(Cut(text, at), options) = P!parseM3uString(text, options)

Only(type, events) == SelectSeq(events, LAMBDA event : event.type = type)
Values(events) == [i \in DOMAIN events |-> events[i].value]
Entries(events) == Values(Only("entry", events))
HeaderOf(events) == FlattenSeq(Values(Only("header", events)))

\* No way to say it: a quote in a value, an end of a line in a text, or a url
\* that would be read as a tag.
Unsayable(events) ==
  LET Pairs == ToSet(HeaderOf(events)) \cup UNION {ToSet(e.attributes) : e \in ToSet(Entries(events))}
  IN  \/ \E pair \in Pairs : ToSet(pair[2]) \cap {"\"", "CR"} # {}
      \/ \E e \in ToSet(Entries(events)) :
           \/ "CR" \in ToSet(e.name) \cup ToSet(e.url)
           \/ At(e.url, 1) = "#"
           \/ \E it \in ToSet(e.directives) : "CR" \in ToSet(it.value)

ComesBack(text, given, eol) ==
  LET read == P!parseM3uString(text, All)
      written == P!M3uSerializeStream(read, given, eol)
      again == P!parseM3uString(written.out, All)
      named(pairs) == {pair[1] : pair \in ToSet(pairs)}
      kept == {pair \in ToSet(HeaderOf(read)) : pair[1] \notin named(given)}
      chunks == P!writeM3uStream(HeaderOf(again), Entries(again), eol, Len(written.out) \div 3)
  IN  /\ written.error => Unsayable(read)
      /\ ~written.error =>
           /\ Entries(again) = Entries(read)
           /\ ToSet(HeaderOf(again)) = kept \cup ToSet(given)
           /\ {w.code : w \in ToSet(Only("warning", again))} \subseteq {"incomplete-entry"}
           /\ ~chunks.error /\ P!parseM3uStream(chunks.chunks, All) = again
=============================================================================
