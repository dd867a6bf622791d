------------------------------ MODULE Lineups -------------------------------
(* Which channels a site has, told by a file beside it, and which of its own   *)
(* it grabs: src/grabber/channels.ts, and src/channels/ (parse.ts, match.ts,   *)
(* serialize.ts).  A text is a sequence of tokens: a mark, a space or a word   *)
(* is one each.  An attribute that may be missing is a set of at most one.     *)
EXTENDS Integers, Sequences, FiniteSets, SequencesExt, FiniteSetsExt

CONSTANT Hours  \* of a number's word, the number: one or two digits

Said(option) == option # {}
The(option) == CHOOSE value \in option : TRUE
Or(option, otherwise) == IF Said(option) THEN The(option) ELSE otherwise
At(text, i) == IF i \in DOMAIN text THEN text[i] ELSE "end"
First(indices, otherwise) == IF indices = {} THEN otherwise ELSE Min(indices)
Trim(text) ==
  LET words == {i \in DOMAIN text : text[i] # " "}
  IN  IF words = {} THEN <<>> ELSE SubSeq(text, Min(words), Max(words))

-----------------------------------------------------------------------------
(* Who grabs a channel more than one site has.  A site is [site, channels]; a  *)
(* rule "all" or "first", or what it answered: the sites to keep, if anything. *)
offersOf(sites, xmltvId) ==
  FlattenSeq([i \in DOMAIN sites |->
    LET here == SelectSeq(sites[i].channels, LAMBDA channel : channel.xmltvId = xmltvId)
    IN  [n \in DOMAIN here |-> sites[i].site]])
RULES(offers) == [all |-> {}, first |-> {{Head(offers)}}]
coverageOf(cover, offers) == IF cover.named THEN RULES(offers)[cover.name] ELSE cover.answer

covered(sites, cover) ==
  LET offered == {channel.xmltvId : channel \in UNION {ToSet(site.channels) : site \in ToSet(sites)}}
      Kept(id) == coverageOf(cover, offersOf(sites, id))
      contested == {id \in offered : Len(offersOf(sites, id)) >= 2 /\ Said(Kept(id))}
      Losing(site) == {id \in contested : site \in ToSet(offersOf(sites, id)) \ The(Kept(id))}
      Less(site) == [site EXCEPT !.channels = SelectSeq(@, LAMBDA channel : channel.xmltvId \notin Losing(site.site))]
  IN  [sites |-> [i \in DOMAIN sites |-> Less(sites[i])],
       dropped |-> [i \in DOMAIN sites |-> Cardinality(Losing(sites[i].site))],
       warned |-> {<<name, id>> \in (UNION {The(Kept(x)) : x \in contested}) \X contested :
                     name \in The(Kept(id)) /\ name \notin ToSet(offersOf(sites, id))}]

-----------------------------------------------------------------------------
(* A playlist as a list.  An entry's directives come before it, and a group    *)
(* begun by one lasts until the next.                                          *)
defaultId(entry) == Or(entry.tvgId, Or(entry.tvgID, <<>>))
semicolons(value) ==
  LET ends == {i \in DOMAIN value : value[i] = ";"} \cup {Len(value) + 1}
      Before(end) == Max({0} \cup {i \in ends : i < end})
      parts == {<<end, Trim(SubSeq(value, Before(end) + 1, end - 1))>> : end \in ends}
      said == SetToSortSeq({part \in parts : part[2] # <<>>}, LAMBDA a, b : a[1] < b[1])
  IN  [i \in DOMAIN said |-> said[i][2]]
resolve(url, base) ==
  IF Said(base) /\ url # <<>> /\ Head(url) = "rel" THEN <<The(base)>> \o Tail(url) ELSE url
Distinct(list) ==
  FoldLeft(LAMBDA once, value : IF value \in ToSet(once) THEN once ELSE Append(once, value), <<>>, list)

NoList == [channels |-> <<>>, seen |-> {}, skipped |-> <<>>, carriedGroups |-> <<>>]
Skips(s, entry, reason) == [s EXCEPT !.skipped = Append(@, <<entry, reason>>)]
channelsFromM3u(entries, byName, base) ==
  LET Groups(s, entry) ==
        LET told == SelectSeq(entry.directives, LAMBDA directive : directive.name = "EXTGRP")
        IN  IF told = <<>> THEN s.carriedGroups ELSE semicolons(Last(told).value)
      Id(entry) == IF byName /\ defaultId(entry) = <<>> THEN entry.name ELSE defaultId(entry)
      Name(entry) == LET name == Or(entry.tvgName, <<>>) IN IF name = <<>> THEN entry.name ELSE name
      Channel(entry, carried) ==
        [xmltvId |-> Id(entry), siteId |-> Id(entry),
         name |-> {Name(entry)} \ {<<>>}, preset |-> entry.tvgChno \ {<<>>},
         data |-> [url |-> resolve(entry.url, base),
                   groups |-> Distinct(semicolons(Or(entry.groupTitle, <<>>)) \o carried)]]
      Takes(before, entry) ==
        LET s == [before EXCEPT !.carriedGroups = Groups(before, entry)]
        IN  CASE Id(entry) = <<>> -> Skips(s, entry, "no-id")
              [] Id(entry) # <<>> /\ Id(entry) \in s.seen -> Skips(s, entry, "duplicate-id")
              [] OTHER -> [s EXCEPT !.seen = @ \cup {Id(entry)},
                                    !.channels = Append(@, Channel(entry, s.carriedGroups))]
  IN  FoldLeft(Takes, NoList, entries)

-----------------------------------------------------------------------------
(* A *.channels.xml, read and written.                                         *)
Entity == [word \in {"amp;", "lt;", "gt;", "quot;"} |->
             CASE word = "amp;" -> "&" [] word = "lt;" -> "<" [] word = "gt;" -> ">" [] OTHER -> "\""]
escape(text, marks) ==
  FlattenSeq([i \in DOMAIN text |->
    IF text[i] \in marks THEN <<"&", CHOOSE word \in DOMAIN Entity : Entity[word] = text[i]>> ELSE <<text[i]>>])
decodeEntities(text) ==
  LET Opens(i) == At(text, i) = "&" /\ At(text, i + 1) \in DOMAIN Entity
  IN  FlattenSeq([i \in DOMAIN text |-> CASE Opens(i) -> <<Entity[text[i + 1]]>>
                                          [] Opens(i - 1) -> <<>>
                                          [] OTHER -> <<text[i]>>])

\* What an element says under a name: the last it says, between double quotes.
attribute(text, name) ==
  LET Quotes(i) == {j \in 1 .. i : At(text, j) = "\""}
      starts == {i \in DOMAIN text : /\ text[i] = name /\ At(text, i + 1) = "=" /\ At(text, i + 2) = "\""
                                     /\ Cardinality(Quotes(i)) % 2 = 0
                                     /\ \E j \in (i + 3) .. Len(text) : text[j] = "\""}
      start == Max(starts) + 3
      end == Min({j \in start .. Len(text) : text[j] = "\""})
  IN  IF starts = {} THEN {} ELSE {decodeEntities(SubSeq(text, start, end - 1))}

Markup == {"<channel", "<channels", "</channel", "</channels", "<"}
indexOfClose(text, from) == First({i \in from .. Len(text) : text[i] \in Markup}, Len(text) + 1)

\* The element between two positions: what it says, and what is wrong with it.
Entry(text, at, close, rootSite) ==
  LET selfClosing == At(text, close - 1) = "/"
      attrs == SubSeq(text, at + 1, IF selfClosing THEN close - 2 ELSE close - 1)
      body == IF selfClosing THEN <<>> ELSE SubSeq(text, close + 1, indexOfClose(text, close + 1) - 1)
      own == attribute(attrs, "site")
  IN  [siteId |-> Or(attribute(attrs, "site_id"), <<>>), xmltvId |-> Or(attribute(attrs, "xmltv_id"), <<>>),
       name |-> Trim(decodeEntities(body)), site |-> IF Said(own) THEN own ELSE rootSite,
       lang |-> attribute(attrs, "lang"), update |-> attribute(attrs, "update"),
       logo |-> attribute(attrs, "logo"), url |-> attribute(attrs, "url"), lcn |-> attribute(attrs, "lcn")]

parseChannelsXml(text) ==
  LET root == First({i \in DOMAIN text : text[i] = "<channels"}, 0)
      rootEnd == First({i \in DOMAIN text : i > root /\ text[i] = ">"}, 0)
      rootSite == attribute(SubSeq(text, root + 1, rootEnd - 1), "site")
      Warnings(s, entry) ==
        (CASE entry.siteId = <<>> -> <<"missing-site-id">>
           [] entry.siteId # <<>> /\ <<Or(entry.site, <<>>), entry.siteId>> \in s.seen -> <<"duplicate-site-id">>
           [] OTHER -> <<>>)
        \o (IF entry.xmltvId = <<>> THEN <<"unmapped-channel">> ELSE <<>>)
      Reads(s, i) ==
        LET entry == Entry(text, s.at, i, rootSite)
        IN  CASE s.at = 0 /\ text[i] = "<channel" /\ At(text, i + 1) \in {" ", ">", "/"} -> [s EXCEPT !.at = i]
              [] s.at # 0 /\ text[i] = ">" ->
                   [at |-> 0, entries |-> Append(s.entries, entry), warnings |-> s.warnings \o Warnings(s, entry),
                    seen |-> IF entry.siteId = <<>> THEN s.seen
                             ELSE s.seen \cup {<<Or(entry.site, <<>>), entry.siteId>>}]
              [] OTHER -> s
      read == FoldLeftDomain(Reads, [at |-> 0, entries |-> <<>>, warnings |-> <<>>, seen |-> {}], text)
  IN  IF root = 0 \/ rootEnd = 0
        THEN [site |-> {}, entries |-> <<>>, warnings |-> <<"unexpected-document">>]
        ELSE [site |-> rootSite, entries |-> read.entries, warnings |-> read.warnings]

Attr(name, value) == <<" ", name, "=", "\"">> \o escape(value, {"&", "<", ">", "\""}) \o <<"\"">>
Attrs(name, option) == IF Said(option) THEN Attr(name, The(option)) ELSE <<>>
serializeChannelsXmlEntry(entry, root) ==
  <<"LF", "<channel">> \o Attrs("update", entry.update) \o Attrs("site", entry.site \ root)
    \o Attr("site_id", entry.siteId) \o Attrs("lang", entry.lang) \o Attr("xmltv_id", entry.xmltvId)
    \o Attrs("logo", entry.logo) \o Attrs("url", entry.url) \o Attrs("lcn", entry.lcn)
    \o <<">">> \o escape(entry.name, {"&", "<", ">"}) \o <<"</channel", ">">>
serializeChannelsXml(list, options) ==
  LET root == IF Said(options.site) THEN options.site ELSE list.site
  IN  <<"<", "?", "xml", "?", ">", "LF", "<channels">> \o Attrs("site", root) \o <<">">>
        \o FlattenSeq([i \in DOMAIN list.entries |-> serializeChannelsXmlEntry(list.entries[i], root)])
        \o <<"LF", "</channels", ">", "LF">>

channelsFromChannelsXml(entries, ofSite) ==
  LET Channel(entry) ==
        [xmltvId |-> entry.xmltvId, siteId |-> entry.siteId, name |-> {entry.name} \ {<<>>},
         lang |-> entry.lang, logo |-> entry.logo, preset |-> entry.lcn,
         data |-> IF entry.site = {} /\ entry.url = {} /\ entry.update = {} THEN {}
                  ELSE {[site |-> entry.site, url |-> entry.url, update |-> entry.update]}]
      Other(entry) == Said(ofSite) /\ Said(entry.site) /\ entry.site # ofSite
      Takes(s, entry) ==
        CASE Other(entry) -> Skips(s, entry, "other-site")
          [] ~Other(entry) /\ entry.xmltvId = <<>> -> Skips(s, entry, "unmapped")
          [] ~Other(entry) /\ entry.xmltvId # <<>> /\ entry.siteId \in s.seen -> Skips(s, entry, "duplicate-site-id")
          [] OTHER -> [s EXCEPT !.seen = @ \cup {entry.siteId}, !.channels = Append(@, Channel(entry))]
  IN  FoldLeft(Takes, NoList, entries)

-----------------------------------------------------------------------------
(* Lining one list up with another.  A name is a sequence of words and spaces; *)
(* a word is itself, or said another way that means the same.                  *)
QUALITY == {"HD", "UHD", "4K"}
Folded(word) == CASE word \in {"ONE", "One"} -> "one" [] word = "Two" -> "two" [] OTHER -> word
normalize(name) ==
  LET Next(kept, word) ==
        LET said == IF word \in QUALITY \cup {"-", ";"} THEN " " ELSE Folded(word)
        IN  IF said = " " /\ (kept = <<>> \/ Last(kept) = " ") THEN kept ELSE Append(kept, said)
  IN  Trim(FoldLeft(Next, <<>>, name))

\* A sign, and the hours it is of: the first there is, and where it begins and ends.
timeshiftOf(name) ==
  LET Number(i) == IF At(name, i + 1) = " " THEN i + 2 ELSE i + 1
      Unit(i) == First({j \in (i + 1) .. Len(name) : name[j] # " "}, 0)
      Over(i) == At(name, i + 1) \in {" ", "end"}
      End(i) == IF Unit(i) # 0 /\ name[Unit(i)] = "h" /\ Over(Unit(i)) THEN Unit(i) ELSE i
      Declares(i) == /\ name[i] \in {"+", "-"} /\ At(name, i - 1) \in {" ", "end"}
                     /\ At(name, Number(i)) \in DOMAIN Hours /\ Over(End(Number(i)))
      at == First({i \in DOMAIN name : Declares(i)}, 0)
      hours == Hours[name[Number(at)]]
  IN  IF at = 0 \/ hours = 0 THEN {}
      ELSE {[offset |-> IF name[at] = "-" THEN -hours ELSE hours,
             base |-> Trim(SubSeq(name, 1, at - 1) \o SubSeq(name, End(Number(at)) + 1, Len(name)))]}

\* Written in whole hours only, or not at all; `half` is half of one more.
timeshiftName(base, hours, half) ==
  IF Trim(base) = <<>> \/ half \/ hours = 0 THEN {}
  ELSE LET size == IF hours < 0 THEN -hours ELSE hours
           digits == {word \in DOMAIN Hours : Hours[word] = size}
       IN  {Trim(base) \o <<" ", IF hours > 0 THEN "+" ELSE "-">> \o <<The(digits)>>}

Unmatched == [kind |-> "none", matched |-> {}, ambiguous |-> {}, timeshiftOf |-> {}]
matchChannels(wanted, available) ==
  LET ById(id) == {i \in DOMAIN available : id # {} /\ available[i].id = id}
      ByName(name) == {i \in DOMAIN available : /\ normalize(name) # <<>>
                                                /\ normalize(Or(available[i].name, <<>>)) = normalize(name)}
      Match(item) ==
        LET exact == ById(item.id)
            rivals == ByName(Or(item.name, <<>>))
            shift == timeshiftOf(Or(item.name, <<>>))
            base == IF Said(shift) THEN ByName(The(shift).base) ELSE {}
        IN  CASE exact # {} -> [Unmatched EXCEPT !.kind = "id", !.matched = {Min(exact)}]
              [] exact = {} /\ Cardinality(rivals) = 1 -> [Unmatched EXCEPT !.kind = "name", !.matched = rivals]
              [] exact = {} /\ Cardinality(rivals) > 1 -> [Unmatched EXCEPT !.ambiguous = rivals]
              [] exact = {} /\ rivals = {} /\ Cardinality(base) = 1 ->
                   [Unmatched EXCEPT !.timeshiftOf = {[channel |-> The(base), offset |-> The(shift).offset]}]
              [] OTHER -> Unmatched
  IN  [i \in DOMAIN wanted |-> Match(wanted[i])]
=============================================================================
