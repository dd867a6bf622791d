----------------------------- MODULE XmltvWrite -----------------------------
(* Writing XMLTV: src/xmltv/serialize.ts and the profiles of                   *)
(* src/xmltv/profile.ts, over the elements XmltvScan reads.  "options" is      *)
(*   indent      what is put between elements, nothing when compact            *)
(*   extensions  which attributes and elements that are not XMLTV's go out     *)
(*   baseUrl     what a relative url is resolved against, if anything          *)
(*   drop, keep  the paths a profile leaves out, and how many of others it keeps *)
(*   systems, single, deriveMissing, normalizeDdProgid  its episode numbers    *)
(*   categories, eit  and what becomes of its categories                       *)
EXTENDS XmltvScan

CONSTANTS
  Genres,   \* what a category's text is recognised as, for those that are; a genre's
            \* name is recognised as itself, and stands for its code
  Numbered  \* the numbers an episode may have: a text is how a system writes one

AttrOrder == <<Key("date"), Key("generator-info-name"), Key("start"), Key("stop"), Key("showview"),
               Key("id"), Key("src"), Key("width"), Key("type"), Key("source"), Key("system"),
               Key("units"), Key("role"), Key("guest"), CHANNEL, Key("lang")>>
ChildOrder ==
  (PROGRAMME :> <<Key("title"), Key("credits"), Key("date"), Key("category"), Key("language"),
                  Key("length"), Key("icon"), Key("url"), Key("episode-num"), Key("video"),
                  Key("audio"), Key("previously-shown"), Key("premiere"), Key("new"),
                  Key("subtitles"), Key("rating"), Key("review"), Key("image")>>)
  @@ (CHANNEL :> <<Key("display-name"), Key("icon"), Key("url")>>)
  @@ (Key("credits") :> <<Key("director"), Key("actor")>>)
  @@ (Key("director") :> <<Key("image"), Key("url")>>)
  @@ (Key("actor") :> <<Key("image"), Key("url")>>)
  @@ (Key("video") :> <<Key("present"), Key("aspect")>>)
  @@ (Key("audio") :> <<Key("present"), Key("stereo")>>)
  @@ (Key("subtitles") :> <<Key("language")>>)
  @@ (Key("rating") :> <<Key("value"), Key("icon")>>)

Required == {Key("title"), Key("display-name"), Key("value")}

\* escape.ts: what would be markup where it goes.
Escaped == [plain \in {Entity[e] : e \in DOMAIN Entity} |->
              <<"&", CHOOSE e \in DOMAIN Entity : Entity[e] = plain>>]
escape(text, marks) ==
  FlattenSeq([i \in DOMAIN text |-> IF text[i] \in marks THEN Escaped[text[i]] ELSE <<text[i]>>])
\* Slipped: an "&" that opens an entity is left (a mutant of escapeXmlText).
escapeAllButEntities(text) ==
  FlattenSeq([i \in DOMAIN text |->
    IF text[i] = "&" /\ At(text, i + 1) \in DOMAIN Entity THEN <<"&">> ELSE escape(<<text[i]>>, {"&", "<", ">"})])
escapeXmlText(text) == escape(text, {"&", "<", ">"})
escapeXmlAttribute(text) == escape(text, {"&", "<", ">", "\""})

\* A relative url, which begins "rel", against the base.
absolute(options, url) ==
  IF options.baseUrl = <<>> \/ url = <<>> \/ url[1] # "rel" THEN url
  ELSE options.baseUrl \o Tail(url)

-----------------------------------------------------------------------------
(* A profile.                                                                  *)
kept(options, path) == path \notin options.drop
pick(options, path, elements) ==
  IF path \in DOMAIN options.keep
  THEN SubSeq(elements, 1, Min({options.keep[path], Len(elements)})) ELSE elements
chosen(options, path, elements) ==
  IF kept(options, path) THEN pick(options, path, elements) ELSE <<>>

systemOf(entry) == IF AttrOf(entry.attrs, Key("system")) = <<>> THEN <<"onscreen">>
                   ELSE AttrOf(entry.attrs, Key("system"))
\* How a system writes a number; a dd_progid may also be written loosely.
Form(system, number) == system \o number
ReadAs(entry, system) ==
  IF systemOf(entry) # system THEN {} ELSE {n \in Numbered : entry.text = Form(system, n)}
numbersFrom(entries) ==
  LET readable == SelectSeq(entries, LAMBDA e : ReadAs(e, <<"xmltv_ns">>) # {})
                    \o SelectSeq(entries, LAMBDA e : ReadAs(e, <<"onscreen">>) # {})
  IN  IF readable = <<>> THEN {} ELSE ReadAs(readable[1], systemOf(readable[1]))

normalized(entry) ==
  IF systemOf(entry) # <<"dd_progid">> THEN entry
  ELSE [entry EXCEPT !.text = IF @ # <<>> /\ @[1] = "loose" THEN <<"dd_progid">> \o Tail(@) ELSE @]
entryOf(system, number) ==
  [name |-> Key("episode-num"), text |-> Form(system, number), attrs |-> {<<Key("system"), system>>},
   extra |-> {}, kids |-> <<>>]
episodeNumRewrite(options, given) ==
  LET entries == IF options.normalizeDdProgid THEN [i \in DOMAIN given |-> normalized(given[i])]
                 ELSE given
      numbers == IF options.deriveMissing THEN numbersFrom(entries) ELSE {}
      missing == SelectSeq(options.systems, LAMBDA system :
                   /\ system \in {<<"xmltv_ns">>, <<"onscreen">>}
                   /\ numbers # {}
                   /\ \A i \in DOMAIN entries : systemOf(entries[i]) # system)
      all == entries \o [i \in DOMAIN missing |-> entryOf(missing[i], The(numbers))]
      ordered == IF options.systems = <<>> THEN all
                 ELSE FlattenSeq([i \in DOMAIN options.systems |->
                        SelectSeq(all, LAMBDA entry : systemOf(entry) = options.systems[i])])
  IN  IF options.single THEN SubSeq(ordered, 1, Min({1, Len(ordered)})) ELSE ordered

\* A genre is said in English, with its code unless the source gave one.
recognised(options, category) ==
  LET genre == IF category.text \in DOMAIN Genres THEN Genres[category.text] ELSE <<>>
      named == [category EXCEPT !.text = genre,
                                !.attrs = {<<Key("lang"), <<"en">>>>}]
      next == IF options.categories /\ genre # <<>> THEN named ELSE category
  IN  IF options.eit /\ genre # <<>> /\ \A pair \in next.extra : pair[1] # Key("eit")
      THEN [next EXCEPT !.extra = @ \cup {<<Key("eit"), Genres[category.text]>>}] ELSE next
categoryRewrite(options, given) ==
  LET mapped == [i \in DOMAIN given |-> recognised(options, given[i])]
      Same(x, y) == x.text = y.text /\ AttrOf(x.attrs, Key("lang")) = AttrOf(y.attrs, Key("lang"))
      first == {i \in DOMAIN mapped : \A j \in 1 .. (i - 1) : ~Same(mapped[i], mapped[j])}
  IN  IF ~options.categories /\ ~options.eit THEN given
      ELSE FlattenSeq([i \in DOMAIN mapped |-> IF i \in first THEN <<mapped[i]>> ELSE <<>>])

Shaped(options, path, kind, elements) ==
  CASE kind \in Required -> elements
    [] kind = Key("episode-num") ->
         IF kept(options, path) THEN pick(options, path, episodeNumRewrite(options, elements)) ELSE <<>>
    [] kind = Key("category") ->
         IF kept(options, path) THEN pick(options, path, categoryRewrite(options, elements)) ELSE <<>>
    [] OTHER -> chosen(options, path, elements)

-----------------------------------------------------------------------------
(* Elements.                                                                   *)
Attr(name, value) == <<" ">> \o name \o <<"=", "\"">> \o escapeXmlAttribute(value) \o <<"\"">>
attrsOf(pairs) == FlattenSeq(SetToSeq({Attr(pair[1], pair[2]) : pair \in pairs}))
extraAttrPairs(options, extra) == {pair \in extra : pair[1] \in options.extensions}
\* The attributes in the order of the code; that a guest is none goes without saying.
knownAttrs(options, element) ==
  FlattenSeq([i \in DOMAIN AttrOrder |->
    LET name == AttrOrder[i]
        value == AttrOf(element.attrs, name)
    IN  IF ~\E pair \in element.attrs : pair[1] = name THEN <<>>
        ELSE IF name = Key("guest") /\ value = <<"no">> THEN <<>>
        ELSE Attr(name, IF name = Key("src") THEN absolute(options, value) ELSE value)])

\* An extension goes out whole, as it came in.
RECURSIVE extraMarkup(_)
extraMarkup(extra) ==
  LET kids == Kids(extra, Key("extra"))
      inner == escapeXmlText(extra.text) \o FlattenSeq([i \in DOMAIN kids |-> extraMarkup(kids[i])])
      open == <<"<">> \o extra.name \o attrsOf(extra.extra)
  IN  IF inner = <<>> THEN open \o <<"/", ">">>
      ELSE open \o <<">">> \o inner \o <<"<", "/">> \o extra.name \o <<">">>
extraElements(options, extras, nl) ==
  LET wanted == SelectSeq(extras, LAMBDA extra : extra.name \in options.extensions)
  IN  FlattenSeq([i \in DOMAIN wanted |-> extraMarkup(wanted[i]) \o nl])

Bare == {Key("icon"), Key("previously-shown"), Key("new")}
Collapses == {Key("video"), Key("audio"), Key("subtitles")}
Inline == {Key("director"), Key("actor")}
Blocks == {CHANNEL, PROGRAMME, Key("credits"), Key("rating")} \cup Collapses

RECURSIVE serialize(_, _, _, _)
serialize(options, nl, path, element) ==
  LET name == element.name
      within == IF name \in Inline THEN <<>> ELSE options.indent
      order == IF name \in DOMAIN ChildOrder THEN ChildOrder[name] ELSE <<>>
      Under(kind) ==
        LET these == Shaped(options, Append(path, kind), kind, Kids(element, kind))
        IN  FlattenSeq([k \in DOMAIN these |->
                          serialize(options, within, Append(path, kind), these[k])])
      said == IF name \in {Key("url"), Key("image")} THEN absolute(options, element.text)
              ELSE element.text
      inner == escapeXmlText(said) \o FlattenSeq([i \in DOMAIN order |-> Under(order[i])])
                 \o extraElements(options, Kids(element, Key("extra")), within)
      open == <<"<">> \o name \o knownAttrs(options, element)
                \o attrsOf(extraAttrPairs(options, element.extra))
      silent == \/ name \in Bare
                \/ name \in Collapses /\ inner = <<>>
                \/ name = Key("premiere") /\ element.text = <<>>
  IN  IF name = Key("credits") /\ inner = <<>> THEN <<>>
      ELSE IF silent THEN open \o <<"/", ">">> \o nl
      ELSE open \o <<">">> \o (IF name \in Blocks THEN within ELSE <<>>) \o inner
             \o <<"<", "/">> \o name \o <<">">> \o nl

serializeChannel(channel, options) == serialize(options, options.indent, <<CHANNEL>>, channel)
serializeProgramme(programme, options) == serialize(options, options.indent, <<PROGRAMME>>, programme)

-----------------------------------------------------------------------------
(* A document.                                                                 *)
Reserved == {<<>>, <<"xml">>}
BadInTarget == {" ", "<", ">", "&", "\"", "/", "=", "?"}
Writable(instruction) ==
  /\ instruction.target \notin Reserved
  /\ ToSet(instruction.target) \cap BadInTarget = {}
  /\ Find(instruction.data, 1, <<"?", ">">>) = 0
serializeProcessingInstruction(instruction, options) ==
  InstructionOpen \o instruction.target
    \o (IF instruction.data = <<>> THEN <<>> ELSE <<" ">> \o instruction.data)
    \o <<"?", ">">> \o options.indent
instructionsAt(list, position, options) ==
  LET there == SelectSeq(list, LAMBDA instruction : instruction.position = position)
  IN  FlattenSeq([i \in DOMAIN there |-> serializeProcessingInstruction(there[i], options)])

serializeDocumentHeader(meta, list, options) ==
  <<"<", "?", "xml", "?", ">">> \o options.indent
    \o <<"<", "!", "DOCTYPE", " ", "tv", ">">> \o options.indent
    \o instructionsAt(list, "prolog", options)
    \o <<"<">> \o ROOT \o knownAttrs(options, meta) \o attrsOf(extraAttrPairs(options, meta.extra))
    \o <<">">> \o options.indent
    \o instructionsAt(list, "root", options)
serializeDocumentFooter(list, options) ==
  <<"<", "/">> \o ROOT \o <<">">> \o options.indent \o instructionsAt(list, "epilog", options)

\* The stream of events a scanner gives, written as they come: what it holds
\* back until the header, or until the end, and what is out.
NewWriter == [started |-> FALSE, meta |-> [attrs |-> {}, extra |-> {}], before |-> <<>>,
              after |-> <<>>, out |-> <<>>, error |-> FALSE]
Broken(w) == [w EXCEPT !.error = TRUE]

prelude(w, options) ==
  IF w.started THEN w
  ELSE IF \E i \in DOMAIN w.before : ~Writable(w.before[i]) THEN Broken(w)
  ELSE [w EXCEPT !.started = TRUE, !.before = <<>>,
                 !.out = serializeDocumentHeader(w.meta, w.before, options)]

\* A later meta overrides what it names.
overridden(pairs, by) == {p \in pairs : \A q \in by : q[1] # p[1]} \cup by

transform(w, event, options) ==
  LET written == prelude(w, options)
      instruction == event.value
  IN  CASE w.error -> w
        [] ~w.error /\ event.type = "meta" ->
             IF w.started THEN Broken(w)
             ELSE [w EXCEPT !.meta = [attrs |-> overridden(w.meta.attrs, event.value.attrs),
                                      extra |-> IF event.value.extra = {} THEN w.meta.extra
                                                ELSE event.value.extra]]
        [] ~w.error /\ event.type = "instruction" ->
             IF instruction.position = "epilog" THEN [w EXCEPT !.after = Append(@, instruction)]
             ELSE IF ~w.started THEN [w EXCEPT !.before = Append(@, instruction)]
             ELSE IF instruction.position = "prolog" \/ ~Writable(instruction) THEN Broken(w)
             ELSE [w EXCEPT !.out = @ \o serializeProcessingInstruction(instruction, options)]
        [] ~w.error /\ event.type = "element" ->
             [written EXCEPT !.out = @ \o
                IF event.value.name = CHANNEL THEN serializeChannel(event.value, options)
                                              ELSE serializeProgramme(event.value, options)]
        [] OTHER -> w

flush(w, options) ==
  LET written == prelude(w, options)
  IN  IF w.error \/ \E i \in DOMAIN w.after : ~Writable(w.after[i]) THEN Broken(w)
      ELSE [written EXCEPT !.out = @ \o serializeDocumentFooter(w.after, options)]

XmltvSerializeStream(events, options) ==
  flush(FoldLeft(LAMBDA w, event : transform(w, event, options), NewWriter, events), options)
=============================================================================
