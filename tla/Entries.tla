------------------------------ MODULE Entries -------------------------------
(* What a cache keeps a channel-day as: the codecs of src/cache/codec.ts, the  *)
(* files ndjson-driver.ts and xmltv-driver.ts put around their bytes, how      *)
(* manager.ts judges what is read back, and the names fs-driver.ts gives what  *)
(* it keeps, with the walk it lists them by over a directory others may have   *)
(* put things in.  Text is a sequence of tokens, each of an entry a tuple: of  *)
(* JSON a value between its brackets, and a line ends in one; of XMLTV the     *)
(* tags, a programme whole in its opening one (XmltvScan has how they are      *)
(* read).                                                                      *)
EXTENDS Integers, Sequences, FiniteSets, SequencesExt, FiniteSetsExt, TLC

CONSTANTS
  DayLen,
  Metas, \* what an entry may say about itself
  Days   \* the tokens that are a day's name

LOCAL C == INSTANCE Calendar

The(option) == CHOOSE value \in option : TRUE
FirstOf(indices) == IF indices = {} THEN 0 ELSE Min(indices)

CACHE_SCHEMA == 1

-----------------------------------------------------------------------------
(* Records, and JSON: all of it or none reads.                                 *)
storedDate(date) == C!formatXmltvDate(date)
Restored(stored) == C!parseXmltvDate(stored)

\* The dates are known by name, the one of previouslyShown a level down.
toRecord(programme) ==
  [title |-> programme.title, start |-> storedDate(programme.start),
   stop |-> {storedDate(date) : date \in programme.stop},
   previouslyShown |-> {storedDate(date) : date \in programme.previouslyShown}]
fromRecord(record) ==
  [title |-> record.title, start |-> Restored(record.start),
   stop |-> {Restored(stored) : stored \in record.stop},
   previouslyShown |-> {Restored(stored) : stored \in record.previouslyShown}]

stringify(value) == <<<<"{">>, <<"says", value>>, <<"}">>>>
Says(text) ==
  IF Len(text) = 3 /\ Head(text) = <<"{">> /\ Len(text[2]) = 2 /\ text[3] = <<"}">>
    THEN {text[2][2]} ELSE {}
NEWLINE == <<"LF">>

-----------------------------------------------------------------------------
(* The codecs.  What one gives back is its programmes, or that the bytes are   *)
(* damaged: they do not read, or as more or fewer than the entry says it holds.*)
Damaged == [corrupt |-> TRUE, programmes |-> <<>>]
readAs(programmes, meta) ==
  IF programmes = {} \/ Len(The(programmes)) # meta.programmeCount THEN Damaged
  ELSE [corrupt |-> FALSE, programmes |-> The(programmes)]

toLine(programme) == stringify(toRecord(programme))
Lines(body) ==
  LET ends == SetToSortSeq({i \in DOMAIN body : body[i] = NEWLINE}, LAMBDA a, b : a < b)
      bounds == <<0>> \o ends \o <<Len(body) + 1>>
  IN  [i \in 1 .. (Len(bounds) - 1) |-> SubSeq(body, bounds[i] + 1, bounds[i + 1] - 1)]
ndjsonBody(programmes) ==
  FlattenSeq([i \in DOMAIN programmes |->
    (IF i = 1 THEN <<>> ELSE <<NEWLINE>>) \o toLine(programmes[i])])
ndjsonRead(body, meta) ==
  LET lines == SelectSeq(Lines(body), LAMBDA line : line # <<>>)
  IN  readAs(IF \A i \in DOMAIN lines : Says(lines[i]) # {}
               THEN {[i \in DOMAIN lines |-> fromRecord(The(Says(lines[i])))]} ELSE {}, meta)

jsonBody(programmes) == stringify(<<"array", [i \in DOMAIN programmes |-> toRecord(programmes[i])]>>)
jsonRead(body, meta) ==
  readAs({[i \in DOMAIN value[2] |-> fromRecord(value[2][i])] :
            value \in {v \in Says(body) : v[1] = "array"}}, meta)

PROGRAMME == "<programme>"
xmltvBody(programmes) ==
  FlattenSeq([i \in DOMAIN programmes |-> <<<<PROGRAMME, programmes[i]>>, <<"</programme>">>>>])

\* Where an instruction that begins at a token ends: at the first "?>" there is.
EndOf(document, at) ==
  FirstOf({i \in (at + 2) .. Len(document) : document[i - 1] = <<"?">> /\ document[i] = <<">">>})
Root(document) == FirstOf({i \in DOMAIN document : document[i] = <<"<tv>">>})
\* Bare elements are wrapped; one that does not end is none.
xmltvRead(document, meta) ==
  LET bare == document = <<>> \/ document[1][1] = PROGRAMME
      Ends(i) == i < Len(document) /\ document[i + 1] = <<"</programme>">>
      begun == {i \in DOMAIN document : document[i][1] = PROGRAMME /\ Ends(i)}
      elements == SetToSortSeq(begun, LAMBDA a, b : a < b)
  IN  readAs(IF bare \/ Root(document) # 0 THEN {[n \in DOMAIN elements |-> document[elements[n]][2]]} ELSE {},
             meta)

-----------------------------------------------------------------------------
(* The files: ndjson has its meta on the first line, xmltv in an instruction   *)
(* inside the root.                                                            *)
stamped(programmes, writtenBy) ==
  [schema |-> CACHE_SCHEMA, complete |-> TRUE, programmeCount |-> Len(programmes),
   writtenBy |-> writtenBy]

ndjsonEntry(body, meta) == stringify(meta) \o <<NEWLINE>> \o body
ndjsonParts(content) ==
  LET end == FirstOf({i \in DOMAIN content : content[i] = NEWLINE})
  IN  IF end = 0 THEN [meta |-> Says(content), body |-> <<>>]
      ELSE [meta |-> Says(SubSeq(content, 1, end - 1)),
            body |-> SubSeq(content, end + 1, Len(content))]
\* From the front of the file, a chunk at a time: none if its line never ends.
ndjsonMeta(chunks) ==
  LET content == FlattenSeq(chunks)
      end == FirstOf({i \in DOMAIN content : content[i] = NEWLINE})
  IN  IF end = 0 THEN {} ELSE Says(SubSeq(content, 1, end - 1))

META_TARGET == <<"epg-cache">>
Spelled(meta) ==
  << <<"{">> >> \o meta.writtenBy \o << <<ToString(meta.programmeCount)>>, <<"}">> >>
\* An instruction ends at the first "?>", so no ">" is left in what it holds.
encodeMeta(meta) ==
  LET text == Spelled(meta)
  IN  [i \in DOMAIN text |-> IF text[i] = <<">">> THEN <<"u003e">> ELSE text[i]]
xmltvEntry(body, meta) ==
  << <<"<?">>, <<"xml">>, <<"?">>, <<">">>, <<"<tv>">>, <<"<?">>, META_TARGET >> \o encodeMeta(meta)
    \o << <<"?">>, <<">">> >> \o body \o << <<"</tv>">> >>
\* The first instruction of ours inside the root, before any of what it holds.
xmltvMeta(chunks) ==
  LET content == FlattenSeq(chunks)
      root == Root(content)
      first == FirstOf({i \in DOMAIN content : content[i][1] = PROGRAMME \/ content[i] = <<"</tv>">>})
      Ours(i) == /\ root # 0 /\ i > root /\ (first = 0 \/ i < first) /\ EndOf(content, i) # 0
                 /\ content[i] = <<"<?">> /\ content[i + 1] = META_TARGET
      at == FirstOf({i \in DOMAIN content : Ours(i)})
  IN  IF at = 0 THEN {}
      ELSE {meta \in Metas : encodeMeta(meta) = SubSeq(content, at + 2, EndOf(content, at) - 2)}
xmltvParts(content) == [meta |-> xmltvMeta(<<content>>), body |-> content]

-----------------------------------------------------------------------------
(* What a run makes of an entry: a shape this code does not write, one that    *)
(* says too little, one the config will not have, one damaged, or the          *)
(* programmes it holds.                                                        *)
judged(meta, invalid) ==
  LET found == {m \in meta : "schema" \in DOMAIN m}
  IN  CASE \E m \in found : m.schema # CACHE_SCHEMA -> "incompatible"
        [] \E m \in found : m.schema = CACHE_SCHEMA /\ m.complete ->
             IF meta \subseteq invalid THEN "invalidated" ELSE "readable"
        [] OTHER -> "unreadable"

inspect(codec, parts, invalid) ==
  LET status == judged(parts.meta, invalid)
      meta == The(parts.meta)
      decoded == CASE codec = "ndjson" -> ndjsonRead(parts.body, meta)
                   [] codec = "json" -> jsonRead(parts.body, meta)
                   [] OTHER -> xmltvRead(parts.body, meta)
  IN  IF status # "readable" THEN [status |-> status, programmes |-> <<>>]
      ELSE IF decoded.corrupt THEN [status |-> "corrupt", programmes |-> <<>>]
      ELSE [status |-> "readable", programmes |-> decoded.programmes]

-----------------------------------------------------------------------------
(* Names.  An escape is a "%" and the token of a character it stands for; a    *)
(* path is a sequence of names below the cache directory, and the disk the set *)
(* of paths of its files, and the directories that cannot be read.             *)
Escapes == [code \in {"2F", "2f", "2B", "2E", "25"} |->
              CASE code \in {"2F", "2f"} -> "/" [] code = "2B" -> "+" [] code = "2E" -> "."
                [] OTHER -> "%"]
Each(name, Means(_)) == FlattenSeq([i \in DOMAIN name |-> Means(name[i])])
encodeURIComponent(name) ==
  Each(name, LAMBDA token : CASE token = "/" -> <<"%", "2F">> [] token = "+" -> <<"%", "2B">>
                              [] token = "%" -> <<"%", "25">> [] OTHER -> <<token>>)
decodeURIComponent(name) ==
  LET Escaped(i) == name[i] = "%"
  IN  IF \E i \in DOMAIN name : Escaped(i) /\ (i = Len(name) \/ name[i + 1] \notin DOMAIN Escapes) THEN {}
      ELSE {FlattenSeq([i \in DOMAIN name |->
              CASE Escaped(i) -> <<>>
                [] i > 1 /\ Escaped(i - 1) -> <<Escapes[name[i]]>>
                [] OTHER -> <<name[i]>>])}

\* A name of nothing but dots is the filesystem's own.
segment(name) ==
  LET encoded == encodeURIComponent(name)
  IN  IF encoded # <<>> /\ ToSet(encoded) = {"."} THEN Each(encoded, LAMBDA dot : <<"%", "2E">>)
      ELSE encoded

\* The name a segment was made from, if this driver made it.
named(segmented) == {name \in decodeURIComponent(segmented) : segment(name) = segmented}

entryFilePath(key) == <<segment(key.site), segment(key.channelId), <<key.day, ".ext">>>>
stateFilePath(site, key) == <<segment(site), Append(segment(key), ".json")>>

-----------------------------------------------------------------------------
(* The walk.  Each step answers with the keys found, or that a directory it    *)
(* must not pass over cannot be read.                                          *)
Fails == [failed |-> TRUE, keys |-> {}]
Finds(keys) == [failed |-> FALSE, keys |-> keys]
AllOf(parts) == [failed |-> \E part \in parts : part.failed, keys |-> UNION {part.keys : part \in parts}]

\* What a directory holds, each a file or a directory; nothing where there is
\* none, or where one found in passing is another's.
children(disk, dir, how) ==
  LET below == {path \in disk.files : Len(path) > Len(dir) /\ SubSeq(path, 1, Len(dir)) = dir}
  IN  IF dir \in disk.denied THEN [failed |-> how = "named", entries |-> {}]
      ELSE [failed |-> FALSE,
            entries |-> {[name |-> path[Len(dir) + 1], file |-> Len(path) = Len(dir) + 1] : path \in below}]

entriesIn(disk, dir, site, channelId) ==
  LET held == children(disk, dir, "named")
      days == {entry.name[1] : entry \in {e \in held.entries :
                 e.file /\ Len(e.name) = 2 /\ e.name[1] \in Days /\ e.name[2] = ".ext"}}
  IN  IF held.failed THEN Fails
      ELSE Finds({[kind |-> "entry", site |-> site, channelId |-> channelId, day |-> day] : day \in days})

\* One thing beside the others in a site: a group, a channel, or neither.
childOf(disk, sitePath, site, child, options) ==
  LET isGroup == child.file /\ child.name # <<>> /\ Last(child.name) = ".json"
      keys == IF options.kind = {"entry"} \/ options.channelId # {} THEN {} ELSE named(Front(child.name))
      channels == IF child.file \/ options.kind = {"state"} THEN {} ELSE named(child.name)
  IN  IF isGroup THEN Finds({[kind |-> "state", site |-> site, key |-> key] : key \in keys})
      ELSE AllOf({entriesIn(disk, Append(sitePath, child.name), site, channelId) :
                    channelId \in {c \in channels : options.channelId \subseteq {c}}})

siteOf(disk, name, options) ==
  LET site == The(named(name))
      held == children(disk, <<name>>, IF options.site = {} THEN "found" ELSE "named")
  IN  IF named(name) = {} THEN Finds({})
      ELSE IF options.channelId # {} /\ options.site # {}
      THEN IF options.kind = {"state"} THEN Finds({})
           ELSE entriesIn(disk, <<name, segment(The(options.channelId))>>, site, The(options.channelId))
      ELSE IF held.failed THEN Fails
      ELSE AllOf({childOf(disk, <<name>>, site, child, options) : child \in held.entries})

list(disk, options) ==
  LET beside == children(disk, <<>>, "named")
      sites == IF options.site = {} THEN {entry.name : entry \in {e \in beside.entries : ~e.file}}
               ELSE {segment(The(options.site))}
  IN  IF options.site = {} /\ beside.failed THEN Fails
      ELSE AllOf({siteOf(disk, name, options) : name \in sites})
=============================================================================
