---------------------------- MODULE MCDocuments -----------------------------
(* What is read of a document and what is written of it: the documents asked   *)
(* about, wherever they are cut into chunks, with all channels wanted or some, *)
(* and shaped as some consumer would have them; and what should come of it.    *)
EXTENDS XmltvWrite, TLC

Attrs(pairs) == FlattenSeq([i \in DOMAIN pairs |-> Attr(pairs[i][1], pairs[i][2])])
Open(name, pairs) == <<"<">> \o name \o Attrs(pairs) \o <<">">>
Empty(name, pairs) == <<"<">> \o name \o Attrs(pairs) \o <<"/", ">">>
Close(name) == <<"<", "/">> \o name \o <<">">>
Elem(name, pairs, inner) == Open(name, pairs) \o inner \o Close(name)
Comment(text) == CommentOpen \o text \o <<"-", "-", ">">>
Cdata(text) == CdataOpen \o text \o <<"]", "]", ">">>
Instruction(text) == InstructionOpen \o text \o <<"?", ">">>
Id(value) == <<<<Key("id"), value>>>>
Of(value, channel) == <<<<Key("start"), value>>, <<CHANNEL, channel>>>>

Pieces == {
  Elem(CHANNEL, Id(<<"one">>), Elem(Key("display-name"), <<>>, <<" ", "One", "&", "amp;", "&", "lt;">>)
           \o Empty(Key("icon"), <<<<Key("src"), <<"rel", "logo">>>>, <<Key("width"), <<"wide">>>>>>)),
  Empty(CHANNEL, <<<<Key("lcn"), <<"5">>>>>>) \o Elem(CHANNEL, Id(<<"two">>), Close(Key("b")) \o <<"x">>),
  Elem(PROGRAMME, Of(<<"today">>, <<"one">>),
         Comment(Close(PROGRAMME)) \o Elem(Key("title"), <<>>, Cdata(<<"<", "b">>) \o <<"News", " ">>)),
  Elem(PROGRAMME, Of(<<"never">>, <<"two">>), Cdata(Close(PROGRAMME)) \o Empty(Key("new"), <<>>)),
  Elem(PROGRAMME, Of(<<"today">>, <<"two">>), Instruction(Close(PROGRAMME)) \o Empty(Key("x"), <<>>)),
  Elem(PROGRAMME, Of(<<"today">>, <<"one">>),
         Elem(Key("video"), <<>>, Elem(Key("present"), <<>>, <<"maybe">>))
           \o Empty(Key("video"), <<>>) \o Empty(Key("credits"), <<>>)),
  Elem(PROGRAMME, Of(<<"today">>, <<>>),
         Elem(Key("rating"), <<>>, Empty(Key("icon"), <<>>)) \o Empty(Key("length"), <<>>)),
  Elem(Key("x"), <<>>, Empty(PROGRAMME, <<>>)) \o Instruction(<<"page", " ", "1">>) \o Close(Key("y")),
  <<"<">> \o PROGRAMME \o <<" ", "start", "=", "today", " ", "channel", "=", "one", " ", "channel",
    "=", "two", " ", "showview", "=", "\"", "\"", "/", ">">>}

Prologs == {<<>>, Instruction(<<"xml">>) \o <<"<", "!", "DOCTYPE", ">">> \o Instruction(<<"sheet", " ">>)
                    \o Comment(<<"<", "tv", ">">>)}
Roots == {Open(ROOT, <<>>), Open(ROOT, <<<<Key("date"), <<"never">>>>, <<Key("date"), <<"today">>>>>>),
          Empty(ROOT, <<>>), Open(<<"html">>, <<>>)}
Endings == {Close(ROOT) \o Instruction(<<"end">>), <<"<">>, <<>>}

Documents ==
  {Open(ROOT, <<>>) \o piece \o Close(ROOT) : piece \in Pieces}
  \cup {prolog \o root \o Empty(CHANNEL, Id(<<"one">>)) \o ending :
          prolog \in Prologs, root \in Roots, ending \in Endings}

AllWanted == [wanted |-> {}, tolerateMissingId |-> FALSE]
Readings == {AllWanted, [wanted |-> {}, tolerateMissingId |-> TRUE],
             [wanted |-> {{<<"one">>}}, tolerateMissingId |-> FALSE],
             [wanted |-> {{<<"two">>, <<>>}}, tolerateMissingId |-> TRUE]}

\* Every cut in two, and into single tokens, which is every cut there is.
Cut(text, at) ==
  IF at = 0 THEN [i \in DOMAIN text |-> <<text[i]>>]
  ELSE <<SubSeq(text, 1, at), SubSeq(text, at + 1, Len(text))>>

\* What a programme may hold beside its title.
System(name) == <<<<Key("system"), name>>>>
Samples == {
  <<>>,
  Elem(Key("title"), <<<<Key("lang"), <<"en">>>>>>, <<"More", " ", "&", "amp;", "lt;">>),
  Elem(Key("category"), <<>>, <<"film">>),
  Elem(Key("category"), <<<<Key("lang"), <<"en">>>>, <<Key("eit"), <<"0x20">>>>>>, <<"Movie">>),
  Elem(Key("category"), <<<<Key("lang"), <<"de">>>>>>, <<"Krimi">>),
  Elem(Key("icon"), <<<<Key("src"), <<"rel", "a">>>>>>, <<>>) \o Empty(Key("icon"), <<<<Key("src"), <<"b">>>>>>),
  Elem(Key("url"), System(<<"db">>), <<"rel", "page">>),
  Elem(Key("image"), <<<<Key("type"), <<"poster">>>>>>, <<"rel", "pic">>),
  Elem(Key("episode-num"), <<>>, <<"onscreen", "2">>),
  Elem(Key("episode-num"), System(<<"xmltv_ns">>), <<"xmltv_ns", "2">>),
  Elem(Key("episode-num"), System(<<"dd_progid">>), <<"loose", "7">>),
  Elem(Key("credits"), <<>>,
       Elem(Key("director"), <<>>, <<"Jo">> \o Elem(Key("url"), <<>>, <<"home">>))
         \o Elem(Key("actor"), <<<<Key("role"), <<"King">>>>, <<Key("guest"), <<"yes">>>>>>, <<"Al">>)),
  Elem(Key("actor"), <<<<Key("guest"), <<"no">>>>>>, <<"stray">>),
  Elem(Key("credits"), <<>>, Elem(Key("actor"), <<<<Key("guest"), <<"no">>>>>>, <<"Al", " ", "B">>)),
  Elem(Key("rating"), System(<<"age">>), Elem(Key("value"), <<>>, <<"12">>)
       \o Empty(Key("icon"), <<<<Key("src"), <<"rel", "12">>>>>>)),
  Elem(Key("video"), <<>>, Elem(Key("present"), <<>>, <<"yes">>) \o Elem(Key("aspect"), <<>>, <<"16:9">>)),
  Empty(Key("audio"), <<>>),
  Elem(Key("subtitles"), <<<<Key("type"), <<"teletext">>>>>>, Elem(Key("language"), <<>>, <<"en">>)),
  Empty(Key("previously-shown"), <<<<Key("start"), <<"today">>>>>>) \o Empty(Key("new"), <<>>),
  Elem(Key("premiere"), <<<<Key("lang"), <<"en">>>>>>, <<"First", "&", "lt;">> \o Comment(<<">">>) \o <<"!">>)
    \o Elem(Key("date"), <<>>, <<"today">>),
  Elem(Key("length"), <<<<Key("units"), <<"hours">>>>>>, <<" ", "5">>),
  Elem(Key("review"), <<<<Key("type"), <<"text">>>>, <<Key("source"), <<"a", "&", "quot;">>>>>>, <<"Good">>),
  Elem(Key("x"), <<<<Key("y"), <<"&", "lt;">>>>>>, Elem(Key("b"), <<>>, Cdata(<<"<", "x", ">">>)) \o Empty(Key("b"), <<>>))}
Programme(first, second) ==
  Open(ROOT, <<<<Key("date"), <<"today">>>>, <<Key("z"), <<"1">>>>>>)
    \o Elem(PROGRAMME, Of(<<"today">>, <<"one">>) \o <<<<Key("id"), <<"9">>>>>>,
            Elem(Key("title"), <<>>, <<"News">>) \o first \o second)
    \o Close(ROOT)

Everything == [indent |-> <<>>, extensions |-> {Key("x"), Key("y"), Key("z"), Key("b"), Key("id"), Key("eit"), Key("lcn"),
                                                Key("actor")},
               baseUrl |-> <<>>, drop |-> {}, keep |-> <<>>, systems |-> <<>>, single |-> FALSE,
               deriveMissing |-> FALSE, normalizeDdProgid |-> FALSE, categories |-> FALSE, eit |-> FALSE]
P(kind) == <<PROGRAMME, Key(kind)>>
Profiles == {
  [Everything EXCEPT !.indent = <<" ">>],
  [Everything EXCEPT !.baseUrl = <<"http">>, !.categories = TRUE, !.eit = TRUE,
     !.systems = <<<<"onscreen">>, <<"xmltv_ns">>>>, !.deriveMissing = TRUE,
     !.keep = (P("category") :> 1) @@ (<<PROGRAMME, Key("rating"), Key("icon")>> :> 0)],
  [Everything EXCEPT !.extensions = {}, !.categories = TRUE, !.systems = <<<<"xmltv_ns">>, <<"onscreen">>>>,
     !.deriveMissing = TRUE, !.single = TRUE, !.normalizeDdProgid = TRUE,
     !.drop = {P("credits"), P("previously-shown"), P("icon"), <<PROGRAMME, Key("video"), Key("present")>>}],
  [Everything EXCEPT !.indent = <<" ">>, !.eit = TRUE, !.normalizeDdProgid = TRUE,
     !.drop = {P("category"), <<PROGRAMME, Key("subtitles"), Key("language")>>,
               <<PROGRAMME, Key("credits"), Key("director"), Key("url")>>},
     !.keep = (<<PROGRAMME, Key("credits"), Key("actor")>> :> 0) @@ (P("episode-num") :> 1)]}

-----------------------------------------------------------------------------
Without(type, events) == SelectSeq(events, LAMBDA event : event.type # type)
Only(type, events) == SelectSeq(events, LAMBDA event : event.type = type)

\* What is said before the root is, once.
SaidOnce(events) ==
  LET meta == FirstOf({i \in DOMAIN events : events[i].type = "meta"})
      Again(i) == i < meta /\ \E j \in 1 .. (i - 1) : events[j] = events[i]
  IN  FlattenSeq([i \in DOMAIN events |-> IF Again(i) THEN <<>> ELSE <<events[i]>>])

ReadsTheSame(text, at, options) ==
  LET whole == parseXmltvString(text, options)
      cut == parseXmltvStream(Cut(text, at), options)
  IN  cut.error = whole.error /\ (~whole.error => SaidOnce(cut.events) = SaidOnce(whole.events))

Passes(options, event) ==
  \/ event.type # "element"
  \/ LET of == IF event.value.name = CHANNEL THEN Key("id") ELSE CHANNEL
     IN  ~Unwanted(options, AttrOf(event.value.attrs, of))
OnlyWhatIsWanted(text, options) ==
  LET all == parseXmltvString(text, [options EXCEPT !.wanted = {}])
      some == parseXmltvString(text, options)
  IN  /\ some.error = all.error
      /\ Without("warning", some.events)
           = SelectSeq(Without("warning", all.events), LAMBDA event : Passes(options, event))
      /\ ToSet(Only("warning", some.events)) \subseteq ToSet(Only("warning", all.events))

\* A document read, and what is read of what is written of it.
Read(text) == Without("warning", parseXmltvString(text, AllWanted).events)
Rewritten(text, options) == XmltvSerializeStream(Read(text), options).out

\* That a guest is none goes without saying.
RECURSIVE Unsaid(_)
Unsaid(element) ==
  [element EXCEPT !.attrs = @ \ {<<Key("guest"), <<"no">>>>},
                  !.kids = [kind \in DOMAIN @ |-> [i \in DOMAIN @[kind] |->
                              IF element.name = PROGRAMME /\ kind = <<"extra">> THEN @[kind][i]
                              ELSE Unsaid(@[kind][i])]]]
Plain(events) ==
  [i \in DOMAIN events |-> IF events[i].type = "element" THEN [events[i] EXCEPT !.value = Unsaid(@)]
                                                         ELSE events[i]]

ComesBack(text) ==
  LET written == XmltvSerializeStream(Read(text), Everything)
  IN  ~parseXmltvString(text, AllWanted).error =>
        ~written.error /\ Read(written.out) = Plain(Read(text))

\* The elements at a path, in a programme or in what is written of it.
RECURSIVE AtPath(_, _)
AtPath(elements, path) ==
  IF path = <<>> THEN elements
  ELSE AtPath(FlattenSeq([i \in DOMAIN elements |-> Kids(elements[i], Head(path))]), Tail(path))

ShapedAsAsked(text, options) ==
  LET written == Rewritten(text, options)
      once == parseXmltvString(written, AllWanted)
      twice == Read(Rewritten(written, options))
      programme == Only("element", once.events)[1].value
      Here(path) == AtPath(<<programme>>, Tail(path))
      categories == Kids(programme, Key("category"))
      systems == {systemOf(e) : e \in ToSet(Kids(programme, Key("episode-num")))}
  IN  /\ ~once.error /\ Only("warning", once.events) = <<>>
      /\ twice = once.events
      /\ \A path \in options.drop : Here(path) = <<>>
      /\ \A path \in DOMAIN options.keep : Len(Here(path)) <= options.keep[path]
      /\ options.single => Len(Kids(programme, Key("episode-num"))) <= 1
      /\ options.systems # <<>> => systems \subseteq ToSet(options.systems)
      /\ options.categories =>
           \A i, j \in DOMAIN categories : i # j => categories[i].text # categories[j].text
                                                    \/ categories[i].attrs # categories[j].attrs
=============================================================================
