------------------------------ MODULE XmltvScan ------------------------------
(* Reading XMLTV as it arrives: src/xmltv/scan.ts under the loop of            *)
(* src/xmltv/parse.ts.  A text is a sequence of tokens: a markup character is  *)
(* one, so that a cut falls anywhere in a tag, a comment's opener or a close   *)
(* tag, and a word, a space or an entity is one too; a name may be several.    *)
(* An element is [name, text, attrs, extra, kids]: the attributes its row      *)
(* below knows and those it does not, and its children by what they are kept   *)
(* as, "extra" for those the row does not know.  A result is where it got to,  *)
(* "to", or 0 when the buffer ends before it can say.                          *)
EXTENDS Integers, Sequences, FiniteSets, SequencesExt, FiniteSetsExt, Functions

CONSTANTS
  Dates,         \* the texts that read as a date
  Numbers,       \* and those that read as a number
  rootScanLimit  \* how much is buffered while there is no root


ROOT == <<"tv">>
PROGRAMME == <<"pro", "gramme">>
CHANNEL == <<"channel">>
Space == {" "}
NameEnd == Space \cup {">", "/", "="}
CommentOpen == <<"<", "!", "-", "-">>
CdataOpen == <<"<", "!", "[", "CDATA", "[">>
InstructionOpen == <<"<", "?">>
Closers == (CommentOpen :> <<"-", "-", ">">>) @@ (CdataOpen :> <<"]", "]", ">">>)
             @@ (InstructionOpen :> <<"?", ">">>)

At(buf, i) == IF i \in DOMAIN buf THEN buf[i] ELSE "end"
Starts(buf, i, what) == SubSeq(buf, i, Min({i + Len(what) - 1, Len(buf)})) = what
FirstOf(positions) == IF positions = {} THEN 0 ELSE Min(positions)
Find(buf, from, what) == FirstOf({i \in from .. Len(buf) : Starts(buf, i, what)})
FindAny(buf, from, tokens) == FirstOf({i \in from .. Len(buf) : buf[i] \in tokens})
PastSpace(buf, from) == FirstOf({i \in from .. Len(buf) : buf[i] \notin Space})

\* Escaping is undone once what is around it is whole (escape.ts decodeEntities):
\* an entity is "&" and the rest of it.
Entity == ("lt;" :> "<") @@ ("gt;" :> ">") @@ ("amp;" :> "&") @@ ("quot;" :> "\"")
decodeEntities(text) ==
  LET Opens(i) == i \in DOMAIN text /\ text[i] = "&" /\ At(text, i + 1) \in DOMAIN Entity
  IN  FlattenSeq([i \in DOMAIN text |-> IF Opens(i) THEN <<Entity[text[i + 1]]>>
                                       ELSE IF Opens(i - 1) THEN <<>> ELSE <<text[i]>>])
Trim(text) ==
  LET said == {i \in DOMAIN text : text[i] \notin Space}
  IN  IF said = {} THEN <<>> ELSE SubSeq(text, Min(said), Max(said))

The(values) == CHOOSE value \in values : TRUE
NeedMore == [to |-> 0]
Lacks(result) == result.to = 0
Warned(code, at) == <<[code |-> code, at |-> at]>>

-----------------------------------------------------------------------------
(* The lexer.                                                                  *)
isPartialSpecial(buf, lt) ==
  \E opener \in {CommentOpen, CdataOpen} :
    /\ Len(buf) - lt + 1 < Len(opener)
    /\ IsPrefix(SubSeq(buf, lt, Len(buf)), opener)

\* A comment, a CDATA section or an instruction; "none" where there is none.
skipSpecial(buf, lt) ==
  LET opened == {opener \in DOMAIN Closers : Starts(buf, lt, opener)}
      opener == CHOOSE o \in opened : TRUE
      end == Find(buf, lt + Len(opener), Closers[opener])
  IN  CASE opened = {} -> [to |-> -1, text |-> <<>>]
        [] opened # {} /\ end = 0 -> NeedMore
        [] OTHER -> [to |-> end + Len(Closers[opener]),
                     text |-> IF opener = CdataOpen THEN SubSeq(buf, lt + Len(opener), end - 1)
                                                    ELSE <<>>]

\* A second value for one name, and a name no object may hold, are dropped.
pushAttr(tag, at, name, value) ==
  IF name = <<"__proto__">> \/ \E i \in DOMAIN tag.attrs : tag.attrs[i].name = name
  THEN [tag EXCEPT !.warned = @ \o Warned("invalid-attribute", at)]
  ELSE [tag EXCEPT !.attrs = Append(@, [name |-> name, value |-> decodeEntities(value), at |-> at])]

CutOff(tag) == [tag EXCEPT !.to = 0]

RECURSIVE Attributes(_, _, _)
Attributes(buf, from, tag) ==
  LET i == PastSpace(buf, from)
      nameEnd == FindAny(buf, i, NameEnd)
      name == SubSeq(buf, i, nameEnd - 1)
      eq == PastSpace(buf, nameEnd)
      v == PastSpace(buf, eq + 1)
      quoteEnd == FirstOf({j \in (v + 1) .. Len(buf) : buf[j] = buf[v]})
      bareEnd == FirstOf({j \in v .. Len(buf) :
                            buf[j] \in Space \cup {">"} \/ (buf[j] = "/" /\ At(buf, j + 1) = ">")})
  IN  CASE i = 0 -> CutOff(tag)
        [] i # 0 /\ buf[i] = ">" -> [tag EXCEPT !.to = i + 1]
        [] i # 0 /\ buf[i] = "/" ->
             IF i = Len(buf) THEN CutOff(tag)
             ELSE IF buf[i + 1] = ">" THEN [tag EXCEPT !.to = i + 2, !.selfClosing = TRUE]
             ELSE Attributes(buf, i + 1, tag)
        [] OTHER ->
             CASE nameEnd = 0 \/ eq = 0 -> CutOff(tag)
               [] nameEnd # 0 /\ eq # 0 /\ buf[eq] # "=" ->
                    Attributes(buf, eq, pushAttr(tag, i, name, <<>>))
               [] OTHER ->
                    CASE v = 0 -> CutOff(tag)
                      [] v # 0 /\ buf[v] = "\"" ->
                           IF quoteEnd = 0 THEN CutOff(tag)
                           ELSE Attributes(buf, quoteEnd + 1,
                                           pushAttr(tag, i, name, SubSeq(buf, v + 1, quoteEnd - 1)))
                      [] OTHER ->
                           IF bareEnd = 0 THEN CutOff(tag)
                           ELSE Attributes(buf, bareEnd,
                                           pushAttr(tag, i, name, SubSeq(buf, v, bareEnd - 1)))

\* A tag cut off has been warned of what was before the cut.
readTag(buf, lt) ==
  LET nameEnd == FindAny(buf, lt + 1, NameEnd)
  IN  IF nameEnd = 0 THEN [to |-> 0, warned |-> <<>>]
      ELSE Attributes(buf, nameEnd,
             [to |-> 0, at |-> lt, name |-> SubSeq(buf, lt + 1, nameEnd - 1), attrs |-> <<>>,
              selfClosing |-> FALSE, warned |-> <<>>])

\* What follows the close of "name" at lt: -1 where it closes something else.
matchClose(buf, lt, name) ==
  LET gt == PastSpace(buf, lt + 2 + Len(name))
  IN  IF Len(buf) - lt + 1 < Len(name) + 3 THEN 0
      ELSE IF ~Starts(buf, lt + 2, name) THEN -1
      ELSE IF gt = 0 THEN 0
      ELSE IF buf[gt] = ">" THEN gt + 1 ELSE -1

-----------------------------------------------------------------------------
(* What is between an element's tags: its text, kept or passed over with all   *)
(* that is nested in it, or its children.                                      *)
RECURSIVE readTextContent(_, _, _, _)
readTextContent(buf, i, name, collect) ==
  LET lt == FindAny(buf, i, {"<"})
      closed == matchClose(buf, lt, name)
      gt == FindAny(buf, lt, {">"})
      special == IF At(buf, lt + 1) \in {"!", "?"} THEN skipSpecial(buf, lt)
                                                   ELSE [to |-> -1, text |-> <<>>]
      nested == readTag(buf, lt)
      inner == IF nested.to = 0 \/ nested.selfClosing \/ nested.name = <<>>
               THEN [to |-> nested.to, text |-> <<>>, warned |-> <<>>]
               ELSE readTextContent(buf, nested.to, nested.name, FALSE)
      On(to, text, warned) ==
        LET rest == readTextContent(buf, to, name, collect)
        IN  IF Lacks(rest) THEN NeedMore
            ELSE [to |-> rest.to, warned |-> warned \o rest.warned,
                  text |-> (IF collect THEN SubSeq(buf, i, lt - 1) \o text ELSE <<>>) \o rest.text]
  IN  IF lt = 0 THEN NeedMore
      ELSE IF At(buf, lt + 1) = "/"
      THEN CASE closed = 0 -> NeedMore
             [] closed > 0 -> [to |-> closed, warned |-> <<>>,
                               text |-> IF collect THEN SubSeq(buf, i, lt - 1) ELSE <<>>]
             [] OTHER -> IF gt = 0 THEN NeedMore ELSE On(gt + 1, <<>>, Warned("malformed-markup", lt))
      ELSE IF At(buf, lt + 1) \in {"!", "?"} /\ isPartialSpecial(buf, lt) THEN NeedMore
      ELSE IF special.to = 0 THEN NeedMore
      ELSE IF special.to > 0 THEN On(special.to, special.text, <<>>)
      ELSE IF nested.to = 0 \/ inner.to = 0 THEN NeedMore
      ELSE On(inner.to, <<>>,
              nested.warned
                \o (IF collect /\ nested.name # <<>> THEN Warned("unknown-element", lt) ELSE <<>>)
                \o inner.warned)

discardContent(buf, tag) ==
  IF tag.selfClosing THEN [to |-> tag.to, text |-> <<>>, warned |-> <<>>]
  ELSE readTextContent(buf, tag.to, tag.name, FALSE)

\* The next tag from i on, or "closed": and the text before it, for who collects it.
RECURSIVE nextChild(_, _, _)
nextChild(buf, i, parent) ==
  LET lt == FindAny(buf, i, {"<"})
      closed == matchClose(buf, lt, parent)
      gt == FindAny(buf, lt, {">"})
      special == skipSpecial(buf, lt)
      before == SubSeq(buf, i, lt - 1)
      tag == readTag(buf, lt)
      On(to, text, warned) ==
        LET rest == nextChild(buf, to, parent)
        IN  IF Lacks(rest) THEN NeedMore
            ELSE [rest EXCEPT !.text = before \o text \o @, !.warned = warned \o @]
  IN  IF lt = 0 THEN NeedMore
      ELSE IF At(buf, lt + 1) = "/"
      THEN CASE closed = 0 -> NeedMore
             [] closed > 0 -> [to |-> closed, closed |-> TRUE, text |-> before, warned |-> <<>>]
             [] OTHER -> IF gt = 0 THEN NeedMore ELSE On(gt + 1, <<>>, Warned("malformed-markup", lt))
      ELSE IF isPartialSpecial(buf, lt) \/ special.to = 0 THEN NeedMore
      ELSE IF special.to > 0 THEN On(special.to, special.text, <<>>)
      ELSE IF Lacks(tag) THEN NeedMore
      ELSE [to |-> tag.to, closed |-> FALSE, text |-> before, warned |-> tag.warned, tag |-> tag]

-----------------------------------------------------------------------------
(* The elements.  A row says of each attribute what becomes of it:             *)
(*   "any" is kept, "text" unless it is empty, the others if it reads as one;  *)
(* of what it holds: "text", "none" (passed over), "mixed", or "children";     *)
(* of its children which may come once and which many times; and whether its   *)
(* attributes are read before what it holds.                                   *)
Row(attrs, holds, once, many) ==
  [attrs |-> attrs, holds |-> holds, once |-> once, many |-> many, early |-> FALSE]
NoAttributes == <<>>  \* no attributes: the function of an empty domain
Key(name) == <<name>>

textValueChild == Row(Key("lang") :> "text", "text", {}, {})
stringChild == Row(NoAttributes, "string", {}, {})
iconChild == Row((Key("src") :> "any") @@ (Key("width") :> "number"), "none", {}, {})
urlChild == [Row(Key("system") :> "text", "text", {}, {}) EXCEPT !.early = TRUE]
imageChild == Row((Key("type") :> "image") @@ (Key("system") :> "text"),
                  "text", {}, {})
reviewChild == Row((Key("type") :> "review") @@ (Key("source") :> "text"),
                   "text", {}, {})
lengthChild == Row(Key("units") :> "any", "text", {}, {})
episodeNumChild == Row(Key("system") :> "text", "text", {}, {})
previouslyShownChild == Row((Key("start") :> "date") @@ (CHANNEL :> "text"), "none", {}, {})
flagChild == Row(Key("lang") :> "text", "flag", {}, {})
yesNoChild == Row(NoAttributes, "yesno", {}, {})
dateChild == Row(NoAttributes, "date", {}, {})
newChild == Row(NoAttributes, "none", {}, {})
ratingChild == Row(Key("system") :> "text", "children", {<<"value">>}, {<<"icon">>})
subtitlesChild == [Row(Key("type") :> "subtitles", "children", {<<"language">>}, {})
                     EXCEPT !.early = TRUE]
videoChild == Row(NoAttributes, "children", {<<"present">>, <<"aspect">>}, {})
audioChild == Row(NoAttributes, "children", {<<"present">>, <<"stereo">>}, {})
personChild == Row(NoAttributes, "mixed", {}, {<<"image">>, <<"url">>})
actorChild == [personChild EXCEPT !.attrs = (Key("role") :> "text") @@ (Key("guest") :> "flag")]
creditsChild == Row(NoAttributes, "children", {}, {<<"director">>, <<"actor">>})
extraChild == Row(NoAttributes, "mixed", {}, {})

OnceInProgramme == {<<"credits">>, <<"date">>, <<"language">>, <<"length">>, <<"video">>,
                    <<"audio">>, <<"previously-shown">>, <<"premiere">>, <<"new">>}
ManyInProgramme == {<<"title">>, <<"category">>, <<"icon">>, <<"url">>, <<"episode-num">>, <<"subtitles">>,
                    <<"rating">>, <<"review">>, <<"image">>}
programmeRow ==
  [Row((Key("start") :> "any") @@ (CHANNEL :> "any") @@ (Key("stop") :> "date")
         @@ (Key("showview") :> "text"),
       "children", OnceInProgramme, ManyInProgramme) EXCEPT !.early = TRUE]
channelRow ==
  [Row(Key("id") :> "any", "children", {}, {<<"display-name">>, <<"icon">>, <<"url">>})
     EXCEPT !.early = TRUE]
rootMeta == Row((Key("date") :> "date") @@ (Key("generator-info-name") :> "text"), "none", {}, {})

RowOf(parent, name) ==
  CASE name \notin parent.once \cup parent.many -> extraChild
    [] name \in {<<"title">>, <<"display-name">>, <<"category">>, <<"language">>} -> textValueChild
    [] name \in {<<"value">>, <<"aspect">>, <<"stereo">>} -> stringChild
    [] name = <<"present">> -> yesNoChild
    [] name = <<"date">> -> dateChild
    [] name = <<"icon">> -> iconChild
    [] name = <<"url">> -> urlChild
    [] name = <<"image">> -> imageChild
    [] name = <<"review">> -> reviewChild
    [] name = <<"length">> -> lengthChild
    [] name = <<"episode-num">> -> episodeNumChild
    [] name = <<"previously-shown">> -> previouslyShownChild
    [] name = <<"premiere">> -> flagChild
    [] name = <<"new">> -> newChild
    [] name = <<"rating">> -> ratingChild
    [] name = <<"subtitles">> -> subtitlesChild
    [] name = <<"video">> -> videoChild
    [] name = <<"audio">> -> audioChild
    [] name = <<"credits">> -> creditsChild
    [] name = <<"director">> -> personChild
    [] name = <<"actor">> -> actorChild

\* Whether a value is what its type asks for (applyDate, applyYesNo, Number, ...).
Fits(type, value) ==
  CASE type = "any" -> TRUE
    [] type = "text" -> value # <<>>
    [] type = "date" -> value \in Dates
    [] type = "number" -> value \in Numbers
    [] type = "flag" -> value \in {<<"yes">>, <<"no">>}
    [] type = "image" -> value \in {<<"poster">>, <<"still">>}
    [] type = "review" -> value \in {<<"url">>, <<"text">>}
    [] type = "subtitles" -> value = <<"teletext">>

\* The attributes as the row reads them: known, unknown, and what was dropped.
AttrsRead(tag, row) ==
  LET known == {i \in DOMAIN tag.attrs : tag.attrs[i].name \in DOMAIN row.attrs}
      fits == {i \in known : Fits(row.attrs[tag.attrs[i].name], tag.attrs[i].value)}
      Pairs(places) == {<<tag.attrs[i].name, tag.attrs[i].value>> : i \in places}
      dropped == SelectSeq(tag.attrs, LAMBDA a : /\ a.name \in DOMAIN row.attrs
                                                 /\ ~Fits(row.attrs[a.name], a.value))
  IN  [attrs |-> Pairs(fits), extra |-> Pairs(DOMAIN tag.attrs \ known),
       warned |-> [i \in DOMAIN dropped |-> [code |-> "invalid-attribute", at |-> dropped[i].at]]]
AttrOf(attrs, name) ==
  IF \E pair \in attrs : pair[1] = name THEN (CHOOSE pair \in attrs : pair[1] = name)[2] ELSE <<>>
Kids(element, kind) == IF kind \in DOMAIN element.kids THEN element.kids[kind] ELSE <<>>

\* What a finished element must have, and what one with nothing to say comes to.
Whole(element, row) ==
  CASE row = iconChild -> AttrOf(element.attrs, Key("src")) # <<>>
    [] row = ratingChild -> Kids(element, <<"value">>) # <<>>
    [] row = lengthChild -> /\ AttrOf(element.attrs, Key("units")) \in {<<"minutes">>, <<"hours">>}
                            /\ element.text \in Numbers
    [] row = dateChild -> element.text \in Dates
    [] row = yesNoChild -> element.text \in {<<"yes">>, <<"no">>}
    [] OTHER -> TRUE
Dropped(element, row) == row = creditsChild /\ DOMAIN element.kids = {}
Settled(element, row) ==
  CASE row.holds \in {"string", "date", "yesno"} \/ row = newChild ->
         [element EXCEPT !.attrs = {}, !.extra = {}]
    [] row = flagChild /\ element.text = <<>> -> [element EXCEPT !.attrs = {}, !.extra = {}]
    [] row = creditsChild -> [element EXCEPT !.attrs = {}, !.extra = {}]
    [] OTHER -> element

RECURSIVE Contents(_, _, _, _, _), Child(_, _, _)
\* The children from i on, added to what the element has, as they come.
Contents(buf, i, tag, row, element) ==
  LET step == nextChild(buf, i, tag.name)
      kind == IF step.tag.name \in row.once \cup row.many THEN step.tag.name ELSE <<"extra">>
      again == step.tag.name \in row.once /\ Kids(element, kind) # <<>>
      child == IF again THEN discardContent(buf, step.tag)
               ELSE Child(buf, step.tag, RowOf(row, step.tag.name))
      added == IF again \/ child.value = {} THEN element.kids
               ELSE (kind :> (Kids(element, kind) \o SetToSeq(child.value))) @@ element.kids
      text == IF row.holds = "mixed" THEN element.text \o step.text ELSE element.text
      rest == Contents(buf, child.to, tag, row, [element EXCEPT !.text = text, !.kids = added])
  IN  IF Lacks(step) THEN NeedMore
      ELSE IF step.closed
      THEN [to |-> step.to, warned |-> step.warned, value |-> {[element EXCEPT !.text = text]}]
      ELSE IF Lacks(child) \/ Lacks(rest) THEN NeedMore
      ELSE [rest EXCEPT !.warned =
              step.warned \o (IF again THEN Warned("invalid-element", step.tag.at) ELSE <<>>)
                \o child.warned \o @]

\* An element whose tag has been read: nothing, where it is dropped.
Child(buf, tag, row) ==
  LET read == AttrsRead(tag, row)
      said == IF row.holds \in {"string", "date", "yesno"} THEN <<>> ELSE read.warned
      empty == [name |-> tag.name, text |-> <<>>, attrs |-> read.attrs, extra |-> read.extra,
                kids |-> <<>>]
      held == IF tag.selfClosing THEN [to |-> tag.to, warned |-> <<>>, value |-> {empty}]
              ELSE IF row.holds \in {"children", "mixed"} THEN Contents(buf, tag.to, tag, row, empty)
              ELSE LET text == readTextContent(buf, tag.to, tag.name, row.holds # "none")
                   IN  IF Lacks(text) THEN NeedMore
                       ELSE [to |-> text.to, warned |-> text.warned,
                             value |-> {[empty EXCEPT !.text = text.text]}]
      got == The(held.value)
      element == Settled([got EXCEPT !.text = decodeEntities(Trim(@))], row)
      lacking == ~Whole(element, row)
  IN  IF Lacks(held) THEN NeedMore
      ELSE [to |-> held.to,
            value |-> IF lacking \/ Dropped(element, row) THEN {} ELSE {element},
            warned |-> (IF row.early THEN said \o held.warned
                        ELSE IF lacking /\ row \in {ratingChild, lengthChild} THEN held.warned
                        ELSE held.warned \o said)
                         \o (IF lacking THEN Warned("invalid-element", tag.at) ELSE <<>>)]

-----------------------------------------------------------------------------
(* What is directly in the root.  "options" is [wanted, tolerateMissingId]:    *)
(* the channels asked for as a set of one set, or empty when all of them are.  *)
Unwanted(options, channel) == \E wanted \in options.wanted : channel \notin wanted

\* An element dropped, for the reasons given, and what is in it with it.
Discarded(buf, tag, reasons) ==
  LET rest == discardContent(buf, tag)
  IN  IF Lacks(rest) THEN NeedMore
      ELSE [to |-> rest.to, value |-> {}, warned |-> tag.warned \o reasons \o rest.warned]

parseChannel(buf, tag, options) ==
  LET id == AttrOf(AttrsRead(tag, channelRow).attrs, Key("id"))
      read == Child(buf, tag, channelRow)
  IN  IF id = <<>> /\ ~options.tolerateMissingId
      THEN Discarded(buf, tag, Warned("invalid-element", tag.at))
      ELSE IF Unwanted(options, id)
      THEN LET rest == discardContent(buf, tag)
           IN  [to |-> rest.to, value |-> {}, warned |-> <<>>]
      ELSE IF Lacks(read) THEN NeedMore ELSE [read EXCEPT !.warned = tag.warned \o @]

\* Slipped: the first close tag is taken, comments and all (a mutant of stepOver).
stepOverToFirst(buf, tag) ==
  LET stop == FirstOf({i \in tag.to .. Len(buf) : matchClose(buf, i, PROGRAMME) # -1 /\ buf[i] = "<"})
  IN  IF tag.selfClosing THEN tag.to ELSE IF stop = 0 THEN 0 ELSE matchClose(buf, stop, PROGRAMME)

\* Over a programme no one wants, from one "<" to the next: the careful way
\* where a comment, CDATA or an instruction may hold what looks like its close.
stepOver(buf, tag) ==
  LET stop == FirstOf({i \in tag.to .. Len(buf) :
                         /\ buf[i] = "<"
                         /\ \/ At(buf, i + 1) \in {"!", "?"}
                            \/ At(buf, i + 1) = "/" /\ matchClose(buf, i, PROGRAMME) # -1})
  IN  IF tag.selfClosing THEN tag.to
      ELSE IF stop = 0 THEN 0
      ELSE IF buf[stop + 1] = "/" THEN matchClose(buf, stop, PROGRAMME)
      ELSE discardContent(buf, tag).to

parseProgramme(buf, tag, options) ==
  LET attrs == AttrsRead(tag, programmeRow)
      channel == AttrOf(attrs.attrs, CHANNEL)
      read == Child(buf, tag, programmeRow)
  IN  IF (channel # <<>> \/ options.tolerateMissingId) /\ Unwanted(options, channel)
      THEN [to |-> stepOver(buf, tag), value |-> {}, warned |-> <<>>]
      ELSE IF \/ AttrOf(attrs.attrs, Key("start")) \notin Dates
              \/ channel = <<>> /\ ~options.tolerateMissingId
      THEN Discarded(buf, tag, attrs.warned \o Warned("invalid-programme", tag.at))
      ELSE IF Lacks(read) THEN NeedMore ELSE [read EXCEPT !.warned = tag.warned \o @]

scanTopLevel(buf, lt, options) ==
  LET tag == readTag(buf, lt)
      rest == discardContent(buf, tag)
  IN  CASE Lacks(tag) -> NeedMore
        [] ~Lacks(tag) /\ tag.name = PROGRAMME -> parseProgramme(buf, tag, options)
        [] ~Lacks(tag) /\ tag.name = CHANNEL -> parseChannel(buf, tag, options)
        [] OTHER ->
             IF tag.name = <<>> THEN [to |-> tag.to, value |-> {}, warned |-> tag.warned]
             ELSE IF Lacks(rest) THEN NeedMore
             ELSE [to |-> rest.to, value |-> {},
                   warned |-> tag.warned \o rest.warned \o Warned("unknown-element", lt)]

-----------------------------------------------------------------------------
(* The scanner and its buffer: "from" is how much was trimmed off before it,   *)
(* "pending" the warnings not yet said.                                        *)
NewScanner == [buf |-> <<>>, from |-> 0, rootFound |-> FALSE, rootClosed |-> FALSE,
               pending |-> <<>>, events |-> <<>>, error |-> FALSE]

Placed(s, warned) == [i \in DOMAIN warned |-> [warned[i] EXCEPT !.at = @ + s.from]]
Say(s, events) == [s EXCEPT !.events = @ \o events]
WarningsOf(warned) == [i \in DOMAIN warned |-> [type |-> "warning", value |-> warned[i]]]

\* The warnings of a construct that is whole, and then what it comes to.
takeWarnings(s, warned, events) ==
  [Say(s, WarningsOf(s.pending \o Placed(s, warned)) \o events) EXCEPT !.pending = <<>>]

truncated(s, lt) ==
  [Say(s, WarningsOf(Placed(s, Warned("truncated-input", lt)))) EXCEPT !.pending = <<>>, !.buf = <<>>]

\* What is consumed is trimmed off, unless too much of what may be no document is kept.
advance(s, consumed, checkRootLimit) ==
  IF checkRootLimit /\ ~s.rootFound /\ Len(s.buf) - consumed > rootScanLimit
  THEN [s EXCEPT !.error = TRUE]
  ELSE [s EXCEPT !.buf = SubSeq(@, consumed + 1, Len(@)), !.from = @ + consumed]

processingInstruction(s, body) ==
  LET space == FindAny(body, 1, Space)
      target == IF space = 0 THEN body ELSE SubSeq(body, 1, space - 1)
      data == IF space = 0 \/ PastSpace(body, space) = 0 THEN <<>>
              ELSE SubSeq(body, PastSpace(body, space), Len(body))
      position == CASE s.rootClosed -> "epilog"
                    [] ~s.rootClosed /\ s.rootFound -> "root"
                    [] OTHER -> "prolog"
  IN  IF target \in {<<>>, <<"xml">>} THEN <<>>
      ELSE <<[type |-> "instruction", value |-> [target |-> target, data |-> data, position |-> position]]>>

RECURSIVE consumeFrom(_, _, _, _)
consumeFrom(s, pos, final, options) ==
  LET buf == s.buf
      lt == FindAny(buf, pos, {"<"})
      special == skipSpecial(buf, lt)
      gt == FindAny(buf, lt + 1, {">"})
      Incomplete(checkRootLimit) == IF final THEN truncated(s, lt)
                                    ELSE advance(s, lt - 1, checkRootLimit)
      closesRoot == /\ s.rootFound
                    /\ Starts(buf, lt, <<"<", "/">> \o ROOT)
                    /\ At(buf, lt + 3) \in NameEnd
      tag == readTag(buf, lt)
      meta == AttrsRead(tag, rootMeta)
      opened == [s EXCEPT !.rootFound = TRUE, !.rootClosed = tag.selfClosing]
      element == scanTopLevel(buf, lt, options)
  IN  IF lt = 0
      THEN IF ~s.rootFound /\ Len(buf) > rootScanLimit THEN [s EXCEPT !.error = TRUE]
           ELSE advance(s, Len(buf), FALSE)
      ELSE IF ~final /\ isPartialSpecial(buf, lt) THEN advance(s, lt - 1, FALSE)
      ELSE IF special.to = 0 THEN Incomplete(TRUE)
      ELSE IF special.to > 0
      THEN consumeFrom(IF Starts(buf, lt, InstructionOpen)
                       THEN Say(s, processingInstruction(s, SubSeq(buf, lt + 2, special.to - 3)))
                       ELSE s, special.to, final, options)
      ELSE IF At(buf, lt + 1) \in {"/", "!"}
      THEN IF gt = 0 THEN Incomplete(TRUE)
           ELSE consumeFrom([s EXCEPT !.rootClosed = @ \/ closesRoot], gt + 1, final, options)
      ELSE IF ~s.rootFound
      THEN IF Lacks(tag)
           THEN IF final THEN truncated(s, lt)
                ELSE advance([s EXCEPT !.pending = @ \o Placed(s, tag.warned)], lt - 1, TRUE)
           ELSE IF tag.name # ROOT THEN [s EXCEPT !.error = TRUE]
           ELSE consumeFrom(takeWarnings(opened, tag.warned \o meta.warned,
                                         <<[type |-> "meta", value |-> [attrs |-> meta.attrs, extra |-> meta.extra]]>>),
                            tag.to, final, options)
      ELSE IF Lacks(element) THEN Incomplete(FALSE)
      ELSE consumeFrom(takeWarnings(s, element.warned,
                                    [i \in 1 .. Cardinality(element.value) |->
                                       [type |-> "element", value |-> The(element.value)]]),
                       element.to, final, options)

consume(s, chunk, final, options) ==
  IF s.error THEN s ELSE consumeFrom([s EXCEPT !.buf = @ \o chunk], 1, final, options)

\* The chunks as they come, and then the end (parse.ts parseXmltvStream).
parseXmltvStream(chunks, options) ==
  consume(FoldLeft(LAMBDA s, chunk : consume(s, chunk, FALSE, options), NewScanner, chunks),
          <<>>, TRUE, options)
parseXmltvString(text, options) == consume(NewScanner, text, TRUE, options)
=============================================================================
