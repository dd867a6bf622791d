-------------------------------- MODULE Merge --------------------------------
(* The guide made of what the sites of a run hold: src/merge.  A programme is  *)
(* [channel, start, stop, title, of]: its stop if it says one, its titles, of  *)
(* which each is what it says and how it is spelt, and the sites it is of; the *)
(* stop stands for every scalar and the titles for every list that two         *)
(* programmes merged make one of.  A site is [site, zone, channels, cache,     *)
(* drops]: what it holds of a channel's day, if anything, and the titles its   *)
(* transform leaves out.  "guide" is what the guide is asked to be:            *)
(*   first, last, zone   its days, and the calendar they are on                *)
(*   channelStrategy, programmeStrategy, match, union                          *)
(*   fillStop            how long a programme without a stop is taken to run   *)
(*   clipOverlaps, dropContainers, clampToWindow, drops                        *)
(*   fillGaps            [blockMs, minMs, maxMs, edges], if gaps are filled     *)
(*   derived, channels   the channels that are others shifted; those selected  *)
(* What a merge notices of its sources on the way is left out.                 *)
EXTENDS Calendar, Sequences, SequencesExt

-----------------------------------------------------------------------------
(* Texts and programmes (text.ts, programme.ts).                               *)
unionBy(all, keys) ==
  LET IsFirst(i) == \A j \in 1 .. (i - 1) : keys[j] # keys[i]
  IN  FlattenSeq([i \in DOMAIN all |-> IF IsFirst(i) THEN <<all[i]>> ELSE <<>>])
normalizeTitle(title) == title[1]

mergeProgrammes(base, extra) ==
  [base EXCEPT !.stop = IF Said(@) THEN @ ELSE extra.stop,
               !.title = unionBy(@ \o extra.title, @ \o extra.title),
               !.of = @ \cup extra.of]

titlesMatch(a, b) ==
  \E x \in ToSet(a.title), y \in ToSet(b.title) : normalizeTitle(x) = normalizeTitle(y)
shiftOf(a, b) == IF a.start < b.start THEN b.start - a.start ELSE a.start - b.start
duration(p) == {t - p.start : t \in {stop \in p.stop : stop > p.start}}

\* What keeps two programmes from being one broadcast: anything but FALSE.
apart(match, a, b) ==
  LET shift == shiftOf(a, b)
      compared == match.titles = "always" \/ (match.titles # "never" /\ shift # 0)
  IN  \/ compared /\ ~titlesMatch(a, b)
      \/ shift > match.startToleranceMs
      \/ shift # 0 /\ \E lasts \in duration(a) \cup duration(b) : shift >= lasts

lowerBound(list, time) == Len(SelectSeq(list, LAMBDA p : p.start < time)) + 1
Insert(list, programme) == InsertAt(list, lowerBound(list, programme.start + 1), programme)

\* The nearest in reach that is not taken, of two as near the first; or 0.
matchOf(target, programme, match, taken) ==
  LET fits == {i \in DOMAIN target \ taken : ~apart(match, target[i], programme)}
      nearest == {i \in fits : \A j \in fits : shiftOf(target[i], programme) <= shiftOf(target[j], programme)}
  IN  IF fits = {} THEN 0 ELSE Min(nearest)

\* A source's own rows of one instant are one broadcast; no others of its are.
pool(incoming) ==
  FoldLeft(LAMBDA pooled, p :
             LET i == lowerBound(pooled, p.start)
             IN  IF i <= Len(pooled) /\ pooled[i].start = p.start
                 THEN [pooled EXCEPT ![i] = mergeProgrammes(@, p)]
                 ELSE InsertAt(pooled, i, p),
           <<>>, incoming)

mergeAsItLands(target, incoming, match) == \* mutant: decided against what has just landed
  FoldLeft(LAMBDA list, p :
             LET i == matchOf(list, p, match, {})
             IN  IF i = 0 THEN Insert(list, p) ELSE [list EXCEPT ![i] = mergeProgrammes(@, p)],
           target, pool(incoming))

\* Every one is decided against the target as it stands, and only then added.
mergeInto(target, incoming, match) ==
  LET placed == FoldLeft(LAMBDA s, p :
                   LET i == matchOf(target, p, match, DOMAIN s.joins)
                   IN  IF i = 0 THEN [s EXCEPT !.inserts = Append(@, p)]
                       ELSE [s EXCEPT !.joins = (i :> p) @@ @],
                 [joins |-> <<>>, inserts |-> <<>>], pool(incoming))
      merged == [i \in DOMAIN target |-> IF i \in DOMAIN placed.joins
                                         THEN mergeProgrammes(target[i], placed.joins[i])
                                         ELSE target[i]]
  IN  FoldLeft(Insert, merged, placed.inserts)

\* The time a list's programmes take up, of at least an instant each.
spans(list, fillStop) ==
  [i \in DOMAIN list |->
    LET start == list[i].start
        next == IF i < Len(list) THEN {list[i + 1].start} ELSE {}
        until == IF Said(list[i].stop) THEN The(list[i].stop)
                 ELSE IF Said(fillStop) THEN Min(next \cup {start + The(fillStop)}) ELSE start
    IN  [from |-> start, to |-> Max({until, start + 1})]]

backfillInto(target, incoming, match, fillStop) ==
  LET pooled == pool(incoming)
      occupied == ToSet(spans(target, fillStop))
      candidates == spans(pooled, fillStop)
      Fits(i) == /\ matchOf(target, pooled[i], match, {}) = 0
                 /\ \A o \in occupied : ~(candidates[i].from < o.to /\ o.from < candidates[i].to)
  IN  FoldLeft(LAMBDA list, i : IF Fits(i) THEN Insert(list, pooled[i]) ELSE list,
               target, [i \in DOMAIN pooled |-> i])

\* Which of a programme's titles the guide writes (union.ts resolveUnion).
written(programme, union) ==
  IF union = "exact" THEN programme
  ELSE [programme EXCEPT !.title = unionBy(@, [i \in DOMAIN @ |-> normalizeTitle(@[i])])]

\* Of texts of one language, those no other says too; a text is its words and
\* whether it was cut off, which may be within its last word (union.ts).
contains(outer, inner) ==
  \E at \in 0 .. (Len(outer.words) - Len(inner.words)) :
    \A k \in DOMAIN inner.words :
      \/ outer.words[at + k] = inner.words[k]
      \/ inner.teaser /\ k = Len(inner.words) /\ IsPrefix(inner.words[k], outer.words[at + k])
byContainment(texts) ==
  LET Covers(j, i) == /\ j # i /\ contains(texts[j], texts[i])
                      /\ texts[j].words # texts[i].words \/ j < i
      kept == {i \in DOMAIN texts : \A j \in DOMAIN texts : ~Covers(j, i)}
      InPlaceOf(i) == IF i \in kept THEN {i}
                      ELSE LET over == {j \in kept : Covers(j, i)}
                           IN  IF over = {} THEN {} ELSE {Min(over)}
      order == FlattenSeq([i \in DOMAIN texts |-> SetToSeq(InPlaceOf(i))])
      Again(n) == \E m \in 1 .. (n - 1) : order[m] = order[n]
  IN  FlattenSeq([n \in DOMAIN order |-> IF Again(n) THEN <<>> ELSE <<texts[order[n]]>>])

-----------------------------------------------------------------------------
(* Derived channels and the selection (derive.ts, select.ts).  A declaration   *)
(* is [xmltvId, from, offset].                                                 *)
Declared(declarations, id) == {d \in ToSet(declarations) : d.xmltvId = id}

shiftProgrammes(list, offset, id) ==
  [i \in DOMAIN list |->
    [list[i] EXCEPT !.channel = id, !.start = @ + offset, !.stop = {t + offset : t \in @}]]

\* The channel at the end of a chain; none if nothing produces it, "refused" if
\* the chain goes round or shifts by a day.
RECURSIVE rootOf(_, _, _, _, _)
rootOf(declarations, produced, step, offset, seen) ==
  LET total == offset + step.offset
      next == Declared(declarations, step.from)
  IN  IF step.from \in produced
      THEN IF total <= -DayLen \/ total >= DayLen THEN "refused"
           ELSE "found"
      ELSE IF next = {} THEN "none"
      ELSE IF step.from \in seen THEN "refused"
      ELSE rootOf(declarations, produced, The(next), total, seen \cup {step.from})
RECURSIVE chainOf(_, _, _, _)
chainOf(declarations, produced, step, offset) ==
  IF step.from \in produced THEN [root |-> step.from, offset |-> offset + step.offset]
  ELSE chainOf(declarations, produced, The(Declared(declarations, step.from)), offset + step.offset)

\* Every declaration the guide can honour, in order; none of them if one is refused.
resolveDeclarations(declarations, produced, duplicated) ==
  LET Root(d) == rootOf(declarations, produced, d, 0, {d.xmltvId})
      refused == \E i \in DOMAIN declarations :
        LET d == declarations[i]
        IN  \/ d.xmltvId = d.from
            \/ d.offset = 0 \/ d.offset <= -DayLen \/ d.offset >= DayLen
            \/ d.xmltvId \in produced
            \/ \E j \in 1 .. (i - 1) : declarations[j].xmltvId = d.xmltvId
            \/ d.from \in duplicated
            \/ Root(d) = "refused"
      found == SelectSeq(declarations, LAMBDA d : Root(d) = "found")
  IN  IF refused THEN {}
      ELSE {[i \in DOMAIN found |-> [xmltvId |-> found[i].xmltvId,
                                     derivedFrom |-> {chainOf(declarations, produced, found[i], 0)}]]}

\* A chain through a declaration no one selected is the chain without it.
RECURSIVE flattened(_, _, _, _)
flattened(declarations, kept, d, seen) ==
  LET step == Declared(declarations, d.from)
  IN  IF step = {} \/ d.from \in kept \cup seen THEN d
      ELSE flattened(declarations, kept, [d EXCEPT !.from = The(step).from, !.offset = @ + The(step).offset],
                     seen \cup {d.from})
channelSelection(channels, declarations) ==
  LET keptOnes == SelectSeq(declarations, LAMBDA d : d.xmltvId \in channels)
      kept == {d.xmltvId : d \in ToSet(keptOnes)}
      derived == [i \in DOMAIN keptOnes |-> flattened(declarations, kept, keptOnes[i], {keptOnes[i].xmltvId})]
  IN  [select |-> channels \cup {d.from : d \in ToSet(derived)}, derived |-> derived]

\* One entry for a channel, or one for each site that has it (guide.ts).
registryOf(sites, select, channelStrategy) ==
  LET claims == FlattenSeq([s \in DOMAIN sites |->
                  LET ids == SelectSeq(sites[s].channels, LAMBDA id : \A these \in select : id \in these)
                  IN  [i \in DOMAIN ids |-> [xmltvId |-> ids[i], sources |-> <<sites[s]>>,
                                             derivedFrom |-> {}]]])
      Of(id) == SelectSeq(claims, LAMBDA claim : claim.xmltvId = id)
      ids == LET all == [i \in DOMAIN claims |-> claims[i].xmltvId] IN unionBy(all, all)
      Joined(id) == [Of(id)[1] EXCEPT !.sources =
                       IF channelStrategy = "first-wins" THEN @
                       ELSE FlattenSeq([i \in DOMAIN Of(id) |-> Of(id)[i].sources])]
  IN  IF channelStrategy = "keep-all" THEN claims ELSE [i \in DOMAIN ids |-> Joined(ids[i])]

-----------------------------------------------------------------------------
(* Reading a channel's day (guide.ts).                                         *)
Days(guide) == [i \in 1 .. (guide.last - guide.first + 1) |-> guide.first + i - 1]
StartOf(guide, day) == wallTimeIn(day, guide.zone, 0)
windowStart(guide) == StartOf(guide, guide.first)
windowEnd(guide) == StartOf(guide, guide.last + 1)

\* The site's say over what it holds.
contribution(source, list) ==
  SelectSeq(list, LAMBDA p : \A title \in ToSet(p.title) : title[1] \notin source.drops)
Held(source, id, day) ==
  IF <<id, day>> \in DOMAIN source.cache THEN {contribution(source, source.cache[<<id, day>>])} ELSE {}

\* The days of another calendar over one of the guide's, and the one either
\* side where another day of the guide reads it.
coveringIn(guide, zone, day) ==
  LET own == daysCovering(day, day, guide.zone, zone)
  IN  ((Min(own) - 1) .. (Max(own) + 1)) \cap daysCovering(guide.first, guide.last, guide.zone, zone)

readSource(guide, source, id, day) ==
  LET own == coveringIn(guide, source.zone, day)
      lists == SetToSortSeq({d \in own : Said(Held(source, id, d))}, <)
      all == FlattenSeq([i \in DOMAIN lists |-> The(Held(source, id, lists[i]))])
      Within(p) == /\ p.start < StartOf(guide, day + 1)
                   /\ \/ p.start >= StartOf(guide, day)
                      \/ day = guide.first /\ \E stop \in p.stop : stop > StartOf(guide, day)
  IN  IF source.zone = guide.zone THEN Held(source, id, day)
      ELSE IF lists = <<>> THEN {} ELSE {SelectSeq(all, Within)}

clamped(guide, list) ==
  IF ~guide.clampToWindow THEN list
  ELSE SelectSeq(list, LAMBDA p : windowStart(guide) <= p.start /\ p.start < windowEnd(guide))

\* A derived channel reads what its root reads, and shifts it.
readChannelDay(guide, registry, entry, day) ==
  LET root == IF Said(entry.derivedFrom)
              THEN CHOOSE e \in ToSet(registry) : e.xmltvId = The(entry.derivedFrom).root ELSE entry
      Mine(list) == IF ~Said(entry.derivedFrom) THEN list
                    ELSE shiftProgrammes(list, The(entry.derivedFrom).offset, entry.xmltvId)
      lists == [i \in DOMAIN root.sources |-> readSource(guide, root.sources[i], root.xmltvId, day)]
      there == SelectSeq(lists, Said)
  IN  [i \in DOMAIN there |-> clamped(guide, Mine(The(there[i])))]

-----------------------------------------------------------------------------
(* Writing a channel, a day held back (guide.ts programmes).                   *)
containedCount(outer, after) ==
  Len(SelectSeq(after, LAMBDA p :
        /\ Said(outer.stop) /\ p.start < The(outer.stop)
        /\ p.start >= outer.start
        /\ \E stop \in p.stop : stop <= The(outer.stop)))

\* One as the guide has it, given the one that follows; none if transformed away.
finish(guide, programme, next) ==
  LET p == written(programme, guide.union)
      nextStart == The(next).start
      result ==
        CASE ~Said(next) -> p
          [] Said(next) /\ ~Said(p.stop) ->
               IF Said(guide.fillStop) /\ nextStart > p.start
               THEN [p EXCEPT !.stop = {Min({nextStart, p.start + The(guide.fillStop)})}] ELSE p
          [] OTHER ->
               IF guide.clipOverlaps /\ p.start < nextStart /\ The(p.stop) > nextStart
               THEN [p EXCEPT !.stop = {nextStart}] ELSE p
  IN  IF \E title \in ToSet(p.title) : title[1] \in guide.drops THEN {} ELSE {result}

\* Placeholders laid end to end across a gap.
Filler == <<"none", 1>>
blocks(id, from, to, gaps) ==
  LET width == to - from
      count == (width + gaps.blockMs - 1) \div gaps.blockMs
      At(n) == from + n * gaps.blockMs
  IN  IF width < gaps.minMs \/ width > gaps.maxMs THEN <<>>
      ELSE [n \in 1 .. count |-> [channel |-> id, start |-> At(n - 1), stop |-> {Min({At(n), to})},
                                  title |-> <<Filler>>, of |-> {}]]
Lay(guide, id, from, to) ==
  IF guide.channelStrategy = "keep-all" \/ ~Said(guide.fillGaps) \/ from >= to THEN <<>>
  ELSE blocks(id, from, to, The(guide.fillGaps))

\* Written so far of a channel: held back, out, and how far it is covered.
NewChannel == [pending |-> <<>>, out |-> <<>>, coveredUntil |-> {}, emitted |-> FALSE]

writtenOver(guide, s, programme, after, id) ==
  LET next == IF after = <<>> THEN {} ELSE {after[1]}
      finished == finish(guide, programme, next)
      result == The(finished)
      opens == Said(s.coveredUntil) \/ \E gaps \in guide.fillGaps : gaps.edges
      from == IF Said(s.coveredUntil) THEN The(s.coveredUntil) ELSE windowStart(guide)
  IN  IF \/ guide.dropContainers /\ containedCount(programme, after) >= 2
         \/ finished = {}
      THEN s
      ELSE [s EXCEPT !.out = @ \o (IF opens THEN Lay(guide, id, from, result.start) ELSE <<>>)
                               \o <<result>>,
                     !.emitted = TRUE,
                     !.coveredUntil = IF Said(result.stop) THEN {Max(@ \cup result.stop)} ELSE {}]

folded(guide, pending, lists) ==
  LET strategy == IF guide.channelStrategy = "merge-programmes" THEN guide.programmeStrategy
                                                               ELSE "concat"
      Merged(target, list) == mergeInto(target, list, guide.match)
      today == FoldLeft(LAMBDA list, mine : backfillInto(list, mine, guide.match, guide.fillStop),
                        <<>>, lists)
  IN  CASE strategy = "merge" -> FoldLeft(Merged, pending, lists)
        [] strategy = "backfill" -> Merged(pending, today)
        [] OTHER -> FoldLeft(Insert, <<>>, pending \o FlattenSeq(lists))

\* A day folded in: what starts before it is done, and on the last day all is.
withDay(guide, registry, entry, s, day) ==
  LET pending == folded(guide, s.pending, readChannelDay(guide, registry, entry, day))
      last == day = guide.last
      done == IF last THEN Len(pending) ELSE lowerBound(pending, StartOf(guide, day)) - 1
      out == FoldLeft(LAMBDA w, i : writtenOver(guide, w, pending[i],
                                                SubSeq(pending, i + 1, Len(pending)), entry.xmltvId),
                      [s EXCEPT !.pending = SubSeq(pending, done + 1, Len(pending))],
                      [i \in 1 .. done |-> i])
      tail == IF Said(out.coveredUntil) THEN out.coveredUntil
              ELSE IF out.emitted THEN {} ELSE {windowStart(guide)}
  IN  IF last /\ Said(tail) /\ \E gaps \in guide.fillGaps : gaps.edges
      THEN [out EXCEPT !.out = @ \o Lay(guide, entry.xmltvId, The(tail), windowEnd(guide))]
      ELSE out

programmes(guide, registry, entry) ==
  FoldLeft(LAMBDA s, day : withDay(guide, registry, entry, s, day), NewChannel, Days(guide)).out

\* The guide: its channels in order, and what is on each; or nothing, refused.
generateGuide(guide, sites) ==
  LET selection == channelSelection(UNION guide.channels, guide.derived)
      chosen == Said(guide.channels)
      registry == registryOf(sites, IF chosen THEN {selection.select} ELSE {}, guide.channelStrategy)
      Count(id) == Len(SelectSeq(registry, LAMBDA e : e.xmltvId = id))
      produced == {e.xmltvId : e \in ToSet(registry)}
      derived == resolveDeclarations(IF chosen THEN selection.derived ELSE guide.derived, produced,
                                     {id \in produced : Count(id) > 1})
      added == [i \in DOMAIN The(derived) |-> [xmltvId |-> The(derived)[i].xmltvId, sources |-> <<>>,
                                               derivedFrom |-> The(derived)[i].derivedFrom]]
      entries == registry \o added
  IN  IF derived = {} THEN {}
      ELSE {[i \in DOMAIN entries |-> [xmltvId |-> entries[i].xmltvId,
                                       programmes |-> programmes(guide, registry, entries[i])]]}
=============================================================================
