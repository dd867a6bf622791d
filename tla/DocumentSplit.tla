--------------------------- MODULE DocumentSplit ----------------------------
(* A whole document as a source of channel-days: src/grabber/xmltv-document.ts *)
(* and the two passes src/grabber/xmltv-source.ts makes over it.  A body is a  *)
(* sequence of chunks, a chunk of bytes; a document, once it is parsed, the    *)
(* sequence of its channels and programmes.                                    *)
EXTENDS Calendar, Sequences, SequencesExt

-----------------------------------------------------------------------------
(* What the body is compressed with, by its first bytes.                       *)
MAGIC_BYTES == 4

MAGIC == [gzip |-> <<"1f", "8b">>, zstd |-> <<"28", "b5", "2f", "fd">>]

\* Enough chunks to decide on are taken, and put back in front of the rest.
peek(source, want) ==
  LET taken(n) == FlattenSeq(SubSeq(source, 1, n))
      enough == {n \in 0 .. Len(source) : Len(taken(n)) >= want}
      held == IF enough = {} THEN Len(source) ELSE Min(enough)
  IN  [head |-> taken(held), body |-> <<taken(held)>> \o SubSeq(source, held + 1, Len(source))]

looksLikeText(head) == head = <<>> \/ Head(head) \in {"<", "#", "bom", "blank"}

\* Brotli has no magic number: it is gone by the name, unless fetch has undone it.
sniff(head, about) ==
  LET begins == {format \in DOMAIN MAGIC : IsPrefix(MAGIC[format], head)}
  IN  CASE begins # {} -> [format |-> begins, refused |-> FALSE]
        [] begins = {} /\ looksLikeText(head) -> [format |-> {}, refused |-> FALSE]
        [] OTHER -> LET named == IF Said(about.name) THEN about.name ELSE about.contentType
                        brotli == named = {"brotli"} /\ "br" \notin about.contentEncoding
                    IN  [format |-> IF brotli THEN {"brotli"} ELSE {}, refused |-> ~brotli]

\* What was said of it settles it unread; a body that is refused is let go of.
sniffed(source, about) ==
  LET peeked == peek(source, MAGIC_BYTES)
      made == IF Said(about.compression)
                THEN [format |-> about.compression \ {"none"}, refused |-> FALSE]
                ELSE sniff(peeked.head, about)
  IN  [format |-> made.format, refused |-> made.refused,
       body |-> IF made.refused THEN <<>> ELSE peeked.body]

\* The bytes as they come, for the format's decompressor to undo.
streamBytes(source, about) ==
  LET found == sniffed(source, about)
  IN  [bytes |-> FlattenSeq(found.body), format |-> found.format, refused |-> found.refused]

-----------------------------------------------------------------------------
(* Channels, and the day a programme is filed under: by "utc", by the offset   *)
(* its document wrote it with ("source"), in a zone, or in the run's.          *)
dayOf(start, dayZone, timeZone) ==
  LET offset == CASE dayZone.by = "utc" -> 0
                  [] dayZone.by = "source" -> getXmltvOffset(start)
                  [] dayZone.by = "run" -> offsetAt(timeZone, start.time)
                  [] OTHER -> offsetAt(dayZone.zone, start.time)
  IN  (start.time + offset) \div DayLen

First(list) == IF list = <<>> THEN {} ELSE {Head(list)}
asGrabberChannel(channel) ==
  [xmltvId |-> channel.id, siteId |-> channel.id, name |-> First(channel.displayName),
   logo |-> First(channel.icon), data |-> {channel}]

xmltvChannelInfo(channel, element) ==
  IF Said(channel.data) THEN [The(channel.data) EXCEPT !.id = channel.xmltvId] ELSE element

\* The list is the head of the document: it stops at the first programme.
channelsOf(document) ==
  LET rest == {i \in DOMAIN document : document[i].type = "programme"}
      head == IF rest = {} THEN document ELSE SubSeq(document, 1, Min(rest) - 1)
  IN  [i \in DOMAIN head |-> asGrabberChannel(head[i].value)]

-----------------------------------------------------------------------------
(* The split.  A source channel may be more than one of the guide's, and each  *)
(* has days of its own to be asked for.                                        *)
wanted(channelDays, siteId) ==
  FoldLeft(LAMBDA under, asked :
             IF asked.channel.siteId # siteId \/ asked.channel \in ToSet(under) THEN under
             ELSE Append(under, asked.channel), <<>>, channelDays)
planned(channelDays, xmltvId, day) ==
  \E i \in DOMAIN channelDays : /\ channelDays[i].channel.xmltvId = xmltvId
                                /\ channelDays[i].day = day

\* A programme, in the bucket of its source channel and day.
Filed(open, programme, day) ==
  LET here == {i \in DOMAIN open : open[i].siteId = programme.channel /\ open[i].day = day}
  IN  IF here = {}
        THEN Append(open, [siteId |-> programme.channel, day |-> day, programmes |-> <<programme>>])
        ELSE [open EXCEPT ![The(here)].programmes = Append(@, programme)]

\* Everything held for one source channel, as channel-days, when `read` of the
\* document has been.
release(s, siteId, channelDays, read) ==
  LET mine == SelectSeq(s.open, LAMBDA bucket : bucket.siteId \in siteId)
      Hands(bucket) ==
        LET channels == SelectSeq(wanted(channelDays, bucket.siteId),
                                  LAMBDA channel : planned(channelDays, channel.xmltvId, bucket.day))
        IN  [i \in DOMAIN channels |-> [channel |-> channels[i], day |-> bucket.day,
                                        programmes |-> bucket.programmes, read |-> read]]
  IN  [s EXCEPT !.open = SelectSeq(s.open, LAMBDA bucket : bucket.siteId \notin siteId),
                !.flushed = @ \cup siteId,
                !.out = @ \o FlattenSeq([i \in DOMAIN mine |-> Hands(mine[i])])]

\* Another channel begins: the last one is over, unless the document has come
\* back to one that was, and everything is held from there.
Turns(s, siteId, channelDays, read) ==
  CASE ~s.holding /\ s.current # {siteId} /\ siteId \in s.flushed -> [s EXCEPT !.holding = TRUE]
    [] ~s.holding /\ s.current # {siteId} /\ siteId \notin s.flushed ->
         [release(s, s.current, channelDays, read) EXCEPT !.current = {siteId}]
    [] OTHER -> IF s.current = {} THEN [s EXCEPT !.current = {siteId}] ELSE s

splitXmltvDocument(document, channelDays, dayZone, timeZone, order) ==
  LET Takes(s, i) ==
        LET programme == document[i].value
            channels == wanted(channelDays, programme.channel)
            turned == Turns(s, programme.channel, channelDays, i)
            day == dayOf(programme.start, dayZone, timeZone)
        IN  IF document[i].type # "programme" \/ channels = <<>> THEN s
            ELSE IF \A j \in DOMAIN channels : ~planned(channelDays, channels[j].xmltvId, day) THEN turned
            ELSE [turned EXCEPT !.open = Filed(@, programme, day)]
      begun == [open |-> <<>>, flushed |-> {}, holding |-> order = "any", current |-> {}, out |-> <<>>]
      s == FoldLeftDomain(LAMBDA acc, i : Takes(acc, i), begun, document)
      ended == FoldLeft(LAMBDA acc, bucket : release(acc, {bucket.siteId}, channelDays, Len(document) + 1),
                        s, s.open)
  IN  [out |-> ended.out,
       ungrouped |-> order # "any" /\ s.holding]
=============================================================================
