-------------------------------- MODULE M3u ---------------------------------
(* Reading and writing a playlist: src/m3u/scan.ts and iptv.ts under the loop  *)
(* of parse.ts, and serialize.ts.  A text is a sequence of tokens: a mark of   *)
(* the format, a space, an end of a line and a word are one each.  A reading   *)
(* is what the scanner and the reader of the IPTV dialect keep between lines:  *)
(*   buf, skipping  the line not yet whole, and whether it ran past the bound  *)
(*   line, seen     how many lines there were, and whether one carried a thing *)
(*   pending        the entry whose url is yet to come, and where it began     *)
(*   leading        what came before the entry it is about                     *)
(*   events         what was handed on                                         *)
(* An entry is [name, duration, attributes, directives, url], and attributes   *)
(* are pairs in the order their names were first seen.                         *)
EXTENDS Integers, Sequences, FiniteSets, SequencesExt, FiniteSetsExt

CONSTANTS
  NameTokens,  \* what an attribute's name may be made of
  Numbers      \* what Number() reads: of some texts, the number

Blank == {" ", "tab", "CR", "LF"}
White == Blank \cup {"nbsp"}   \* what trim() and \s take for white besides
EXTINF == <<"EXTINF">>
EXTM3U == <<"EXTM3U">>
The(option) == CHOOSE value \in option : TRUE
Least(positions, otherwise) == Min(positions \cup {otherwise})
At(text, i) == IF i \in DOMAIN text THEN text[i] ELSE "end"
Past(text, from, to, tokens) == Least({i \in from .. to : text[i] \notin tokens}, to + 1)
UpTo(text, from, to, tokens) == Least({i \in from .. to : text[i] \in tokens}, to + 1)
Trim(text) ==
  LET said == {i \in DOMAIN text : text[i] \notin White}
  IN  IF said = {} THEN <<>> ELSE SubSeq(text, Min(said), Max(said))

-----------------------------------------------------------------------------
(* A tag's attributes (scan.ts M3uTag).                                        *)
\* Map.set: a name keeps the place it had.
Put(record, name, value) ==
  LET at == {i \in DOMAIN record : record[i][1] = name}
  IN  IF at = {} THEN Append(record, <<name, value>>)
      ELSE [record EXCEPT ![Min(at)] = <<name, value>>]

\* "open" is where a quote was opened that nothing closed.
RECURSIVE attributesFrom(_, _, _, _)
attributesFrom(value, from, to, into) ==
  LET name == Past(value, from, to, Blank)
      nameEnd == Past(value, name, to, NameTokens)
      equals == Past(value, nameEnd, to, Blank)
      start == Past(value, equals + 1, to, Blank)
      quoted == At(value, start) = "\""
      first == IF quoted THEN start + 1 ELSE start
      end == UpTo(value, first, to, IF quoted THEN {"\""} ELSE Blank)
      set == Put(into, SubSeq(value, name, nameEnd - 1), SubSeq(value, first, end - 1))
  IN  IF from > to THEN [into |-> into, open |-> {}]
      ELSE IF nameEnd = name THEN attributesFrom(value, name + 1, to, into)
      ELSE IF At(value, equals) # "=" THEN attributesFrom(value, equals, to, into)
      ELSE IF quoted /\ end > to THEN [into |-> set, open |-> {start}]
      ELSE attributesFrom(value, IF quoted THEN end + 1 ELSE end, to, set)

-----------------------------------------------------------------------------
(* The IPTV reader (iptv.ts).                                                  *)
Warned(s, code, line, col) ==
  [s EXCEPT !.events = Append(@, [type |-> "warning", code |-> code, line |-> line, col |-> col])]
WarnedIf(condition, s, code, col) == IF condition THEN Warned(s, code, s.line, col) ELSE s
Handed(s, type, value) == [s EXCEPT !.events = Append(@, [type |-> type, value |-> value])]

\* The entry that never got its url, said so of and handed on all the same.
flush(s) ==
  IF s.pending = {} THEN s
  ELSE LET open == The(s.pending)
       IN  Handed(Warned([s EXCEPT !.pending = {}], "incomplete-entry", open.at, 1), "entry", open.entry)

header(s, value, col) ==
  LET read == attributesFrom(value, 1, Len(value), <<>>)
  IN  Handed(WarnedIf(read.open # {}, s, "malformed-attributes", col + The(read.open) - 1),
             "header", read.into)

\* The name begins after the first comma that is not in quotes.
nameStart(text) ==
  LET Quotes(i) == Cardinality({j \in 1 .. i : text[j] = "\""})
  IN  Least({i \in DOMAIN text : text[i] = "," /\ Quotes(i) % 2 = 0}, Len(text) + 1)

extinf(s, text, col) ==
  LET comma == nameStart(text)
      named == comma <= Len(text)
      at == UpTo(text, 1, comma - 1, {" ", "tab"})
      seconds == SubSeq(text, 1, at - 1)
      known == seconds \in DOMAIN Numbers
      read == attributesFrom(text, at, comma - 1, <<>>)
      unknown == WarnedIf(~known, flush(s), "invalid-duration", col)
      open == WarnedIf(read.open # {}, unknown, "malformed-attributes", col + The(read.open) - 1)
      nameless == WarnedIf(~named, open, "malformed-attributes", col + Len(text))
      entry == [url |-> <<>>, name |-> SubSeq(text, comma + 1, Len(text)),
                duration |-> IF known THEN Numbers[seconds] ELSE -1, attributes |-> read.into,
                directives |-> [i \in DOMAIN s.leading |-> s.leading[i].directive]]
  IN  [nameless EXCEPT !.leading = <<>>, !.pending = {[entry |-> entry, at |-> s.line]}]

directive(s, name, value) ==
  LET it == [name |-> name, value |-> value]
      open == The(s.pending)
  IN  IF ~s.keepUnknown THEN s
      ELSE IF s.pending = {}
      THEN [s EXCEPT !.leading = Append(@, [directive |-> it, at |-> s.line])]
      ELSE [s EXCEPT !.pending = {[open EXCEPT !.entry.directives = Append(@, it)]}]

tag(s, first, name, value, col) ==
  IF first /\ name = EXTM3U THEN header(s, value, col)
  ELSE IF name = EXTINF THEN extinf(s, value, col)
  ELSE directive(s, name, value)

uri(s, text) ==
  IF s.pending = {} THEN Warned(s, "orphan-url", s.line, 1)
  ELSE Handed([s EXCEPT !.pending = {}], "entry", [The(s.pending).entry EXCEPT !.url = Trim(text)])

\* The playlist is over: what waited for a url, or for an entry, waited in vain.
end(s) ==
  LET done == flush(s)
  IN  FoldLeft(LAMBDA r, waiting : Warned(r, "orphan-directive", waiting.at, 1),
               [done EXCEPT !.leading = <<>>], s.leading)

-----------------------------------------------------------------------------
(* The scanner (scan.ts M3uScanner).                                           *)
\* The first line that carries anything, and whether it is the header.
opens(s, isHeader) ==
  WarnedIf(~s.seen /\ ~isHeader, [s EXCEPT !.seen = TRUE], "missing-header", 1)

readLine(s, raw) ==
  LET counted == [s EXCEPT !.line = @ + 1]
      unended == IF At(raw, Len(raw)) = "CR" THEN Front(raw) ELSE raw
      text == IF counted.line = 1 /\ At(unended, 1) = "BOM" THEN Tail(unended) ELSE unended
      nameEnd == UpTo(text, 2, Len(text), Blank \cup {":"})
      name == SubSeq(text, 2, nameEnd - 1)
  IN  IF ToSet(text) \subseteq Blank THEN counted
      ELSE IF Len(text) > s.maxLineLength THEN Warned(counted, "line-too-long", counted.line, 1)
      ELSE IF text[1] = "#"
      THEN tag(opens(counted, name = EXTM3U), ~s.seen, name,
               SubSeq(text, nameEnd + 1, Len(text)), nameEnd + 1)
      ELSE uri(opens(counted, FALSE), text)

\* What is whole in the buffer is read, a line after another; the rest is kept.
RECURSIVE readLines(_, _)
readLines(s, buf) ==
  LET newline == UpTo(buf, 1, Len(buf), {"LF"})
  IN  IF newline > Len(buf) THEN [s EXCEPT !.buf = buf]
      ELSE readLines(readLine(s, SubSeq(buf, 1, newline - 1)), SubSeq(buf, newline + 1, Len(buf)))

\* Of a line that ran past the bound nothing is read, up to its newline.
consume(s, final) ==
  LET newline == UpTo(s.buf, 1, Len(s.buf), {"LF"})
      read == IF s.skipping
              THEN readLines([s EXCEPT !.skipping = FALSE, !.line = @ + 1],
                             SubSeq(s.buf, newline + 1, Len(s.buf)))
              ELSE readLines(s, s.buf)
      rest == [read EXCEPT !.buf = <<>>]
  IN  IF s.skipping /\ newline > Len(s.buf) THEN [s EXCEPT !.buf = <<>>]
      ELSE IF final THEN end(IF read.buf = <<>> THEN rest ELSE readLine(rest, read.buf))
      ELSE IF Len(read.buf) <= s.maxLineLength THEN read
      ELSE Warned([rest EXCEPT !.skipping = TRUE], "line-too-long", read.line + 1, 1)

-----------------------------------------------------------------------------
(* The loop that reads a playlist in chunks, and the one that has it whole     *)
(* (parse.ts).                                                                 *)
Reading(options) ==
  [buf |-> <<>>, skipping |-> FALSE, line |-> 0, seen |-> FALSE, pending |-> {}, leading |-> <<>>,
   events |-> <<>>, keepUnknown |-> options.keepUnknown, maxLineLength |-> options.maxLineLength]
parseM3uStream(chunks, options) ==
  LET read == FoldLeft(LAMBDA s, chunk : consume([s EXCEPT !.buf = @ \o chunk], FALSE),
                       Reading(options), chunks)
  IN  consume(read, TRUE).events
parseM3uString(text, options) == consume([Reading(options) EXCEPT !.buf = text], TRUE).events

-----------------------------------------------------------------------------
(* Writing (serialize.ts).  What cannot be said is refused: an error.          *)
breaksLine(text) == ToSet(text) \cap {"LF", "CR"} # {}
BadName(name) == name = <<>> \/ ToSet(name) \cap (White \cup {"=", "\"", "'", ","}) # {}
Refused == [error |-> TRUE, out |-> <<>>]
Said(out) == [error |-> FALSE, out |-> out]
Together(a, b) == IF a.error \/ b.error THEN Refused ELSE Said(a.out \o b.out)

attributes(record) ==
  LET Unsayable(pair) == BadName(pair[1]) \/ "\"" \in ToSet(pair[2]) \/ breaksLine(pair[2])
      Text(pair) == <<" ">> \o pair[1] \o <<"=", "\"">> \o pair[2] \o <<"\"">>
  IN  IF \E pair \in ToSet(record) : Unsayable(pair) THEN Refused
      ELSE Said(FlattenSeq([i \in DOMAIN record |-> Text(record[i])]))

serializeM3uHeader(record, eol) ==
  Together(Together(Said(<<"#">> \o EXTM3U), attributes(record)), Said(eol))

Spelled(number) == CHOOSE text \in DOMAIN Numbers : Numbers[text] = number
serializeM3uEntry(entry, eol) ==
  LET url == entry.url
      badUrl == url # <<>> /\ (Trim(url) = <<>> \/ At(Trim(url), 1) = "#")
      Unsayable(it) == breaksLine(it.name) \/ breaksLine(it.value)
      Line(it) == <<"#">> \o it.name \o <<":">> \o it.value \o eol
      head == Together(Said(<<"#">> \o EXTINF \o <<":">> \o Spelled(entry.duration)),
                       attributes(entry.attributes))
      rest == FlattenSeq([i \in DOMAIN entry.directives |-> Line(entry.directives[i])])
  IN  IF \/ breaksLine(entry.name) \/ breaksLine(url) \/ badUrl
         \/ \E it \in ToSet(entry.directives) : Unsayable(it)
      THEN Refused
      ELSE Together(head, Said(<<",">> \o entry.name \o eol \o rest \o url \o eol))

\* As many entries to a chunk as it takes to fill one.
writeM3uStream(record, entries, eol, highWaterMark) ==
  LET Add(w, entry) ==
        LET more == serializeM3uEntry(entry, eol)
            pending == w.pending \o more.out
        IN  IF w.error \/ more.error THEN [w EXCEPT !.error = TRUE]
            ELSE IF Len(pending) >= highWaterMark
            THEN [w EXCEPT !.chunks = Append(@, pending), !.pending = <<>>]
            ELSE [w EXCEPT !.pending = pending]
      opened == serializeM3uHeader(record, eol)
      w == FoldLeft(Add, [error |-> opened.error, chunks |-> <<>>, pending |-> opened.out], entries)
  IN  [error |-> w.error, chunks |-> IF w.pending = <<>> THEN w.chunks ELSE Append(w.chunks, w.pending)]

\* The events of a reading, written as they come; the header goes out before
\* the first entry, and what the caller gave of it has the last word.
M3uSerializeStream(events, record, eol) ==
  LET Over(base, more) == FoldLeft(LAMBDA into, pair : Put(into, pair[1], pair[2]), base, more)
      Prelude(w) == IF w.started THEN Said(<<>>) ELSE serializeM3uHeader(Over(w.header, record), eol)
      Wrote(w, more) ==
        LET all == Together(Prelude(w), more)
        IN  [w EXCEPT !.started = TRUE, !.error = all.error, !.out = @ \o all.out]
      Take(w, event) ==
        IF w.error \/ event.type = "warning" THEN w
        ELSE IF event.type = "entry" THEN Wrote(w, serializeM3uEntry(event.value, eol))
        ELSE IF w.started THEN [w EXCEPT !.error = TRUE]
        ELSE [w EXCEPT !.header = Over(@, event.value)]
      last == FoldLeft(Take, [started |-> FALSE, header |-> <<>>, error |-> FALSE, out |-> <<>>], events)
  IN  IF last.error THEN last ELSE Wrote(last, Said(<<>>))
=============================================================================
