------------------------------ MODULE Planning ------------------------------
(* What a run asks for: the staleness rules of src/cache/staleness.ts, the     *)
(* cutting of the grid into requests of src/grabber/planner.ts, the sweep of   *)
(* src/grabber/site-run.ts it starts from, the report `--dry-run` makes of it  *)
(* in src/cli/plan.ts, how much may be missing after (src/grabber/missing.ts), *)
(* and when a server grabs next (src/serve/schedule.ts).                       *)
EXTENDS Calendar, Sequences, SequencesExt

CONSTANT Unbounded  \* a cap no grid here reaches: Infinity

(* An entry's meta: when it was grabbed, if that can be read, and how many     *)
(* programmes it holds.  What the cache has of a channel-day is at most one.   *)
Older(entry, age, now) ==
  \/ ~Said(entry.grabbedAt)
  \/ now - The(entry.grabbedAt) > age * DayLen

\* Today and the days after it, or the days of another calendar over them.
alwaysRefetched(day, days, now, zone, dayZone) ==
  LET today == dayIn(now, zone)
  IN  /\ days > 0
      /\ IF dayZone = zone THEN day - today \in 0 .. (days - 1)
         ELSE /\ wallTimeIn(day, dayZone, 0) < wallTimeIn(today + days, zone, 0)
              /\ wallTimeIn(day + 1, dayZone, 0) > wallTimeIn(today, zone, 0)

isStale(day, meta, policy, now, zone, dayZone) ==
  \/ policy.refetchAll
  \/ ~Said(meta)
  \/ alwaysRefetched(day, policy.alwaysRefetchDays, now, zone, dayZone)
  \/ LET entry == The(meta)
     IN  Older(entry, IF entry.programmeCount = 0 THEN policy.emptyMaxAgeDays
                                                  ELSE policy.maxAgeDays, now)

\* The channel-days to fetch; the rest are counted as from the cache.
collectStale(channels, window, metas, policy, now, zone, dayZone) ==
  {pair \in channels \X window :
     isStale(pair[2], metas[pair], policy, now, zone, dayZone)}

-----------------------------------------------------------------------------
(* Cutting.                                                                    *)
chunk(items, size) ==
  LET width == IF size < 1 THEN 1 ELSE size
  IN  [n \in 1 .. ((Len(items) + width - 1) \div width) |->
        SubSeq(items, (n - 1) * width + 1, Min({n * width, Len(items)}))]

\* What `batching` amounts to; a cap the mode does not read is refused.
resolveBatching(mode, channelsPerRequest, daysPerRequest) ==
  LET manyChannels == mode \in {"channels", "both"}
      manyDays == mode \in {"days", "both"}
      cap(size) == IF Said(size) /\ The(size) > 0 THEN The(size) ELSE Unbounded
  IN  IF \/ mode \notin {"none", "channels", "days", "both"}
         \/ ~manyChannels /\ Said(channelsPerRequest)
         \/ ~manyDays /\ Said(daysPerRequest)
      THEN {}
      ELSE {[maxChannels |-> IF manyChannels THEN cap(channelsPerRequest) ELSE 1,
             maxDays |-> IF manyDays THEN cap(daysPerRequest) ELSE 1]}

planByStaleDays(channels, window, stale, batching) == \* mutant: cuts what is stale
  LET staleDays == SelectSeq(window, LAMBDA day : \E c \in ToSet(channels) : <<c, day>> \in stale)
      Asked(c, day) == <<c, day>> \in stale
      Request(group, days) ==
        [channels |-> group, days |-> days,
         pairs |-> FlattenSeq([i \in DOMAIN group |->
                     [j \in DOMAIN days |-> <<group[i], days[j]>>]])]
  IN  FlattenSeq([d \in DOMAIN chunk(staleDays, batching.maxDays) |->
        LET days == chunk(staleDays, batching.maxDays)[d]
            groups == chunk(SelectSeq(channels, LAMBDA c : \E day \in ToSet(days) : Asked(c, day)),
                            batching.maxChannels)
        IN  [g \in DOMAIN groups |-> Request(groups[g], days)]])

\* Array.filter: those of a list that are in a set, as they come.
filtered(items, kept) ==
  LET upTo[i \in 0 .. Len(items)] ==
        IF i = 0 THEN <<>>
        ELSE IF items[i] \in kept THEN Append(upTo[i - 1], items[i]) ELSE upTo[i - 1]
  IN  upTo[Len(items)]

\* One request: its channels in turn, and the days of the group each is stale on.
pairsOf(channel, days) == [j \in DOMAIN days |-> <<channel, days[j]>>]
staleOn(channel, dayGroup, stale) ==
  filtered(dayGroup, {day \in ToSet(dayGroup) : <<channel, day>> \in stale})
requestFor(group, dayGroup, stale) ==
  LET pairs == FlattenSeq([i \in DOMAIN group |->
                 pairsOf(group[i], staleOn(group[i], dayGroup, stale))])
  IN  [channels |-> group, pairs |-> pairs,
       days |-> filtered(dayGroup, {pair[2] : pair \in ToSet(pairs)})]

\* The requests of one group of days, for the channels stale in it.
staleChannels(channels, dayGroup, stale) ==
  filtered(channels, {c \in ToSet(channels) : \E day \in ToSet(dayGroup) : <<c, day>> \in stale})
requestsIn(dayGroup, channels, stale, maxChannels) ==
  LET groups == chunk(staleChannels(channels, dayGroup, stale), maxChannels)
  IN  [g \in DOMAIN groups |-> requestFor(groups[g], dayGroup, stale)]

\* Days are the outer cut, from the whole window.
planRequests(channels, window, stale, batching) ==
  LET dayGroups == chunk(window, batching.maxDays)
  IN  FlattenSeq([d \in DOMAIN dayGroups |->
                    requestsIn(dayGroups[d], channels, stale, batching.maxChannels)])

\* What a dry run says of a site it could plan, and of one it could not.
planSite(channels, window, stale, requests) ==
  [entries |-> Len(channels) * Len(window), stale |-> Cardinality(stale),
   fresh |-> Len(channels) * Len(window) - Cardinality(stale), requests |-> Len(requests),
   failed |-> 0]
unplannable == [entries |-> 0, stale |-> 0, fresh |-> 0, requests |-> 0, failed |-> 1]

planRun(sites) ==
  [of \in {"entries", "stale", "fresh", "requests", "failed"} |->
     FoldFunction(LAMBDA site, sum : site[of] + sum, 0, sites)]

-----------------------------------------------------------------------------
(* How much may be missing: a whole number of channel-days, or a share of      *)
(* those the run accounted for, in percent.                                    *)
resolveAllowance(allowance) ==
  IF \/ allowance.value < 0
     \/ allowance.of = "share" /\ allowance.value > 100
  THEN {} ELSE {allowance}

fellShort(summary, allowance) ==
  \/ summary.sitesFailed > 0
  \/ /\ summary.failed > 0
     /\ \/ ~Said(allowance)
        \/ /\ The(allowance).of = "days"
           /\ summary.failed > The(allowance).value
        \/ LET accounted == summary.fetched + summary.fromCache
                              + summary.unchanged + summary.failed
           IN  /\ The(allowance).of = "share"
               /\ summary.failed * 100 > accounted * The(allowance).value

-----------------------------------------------------------------------------
(* The next grab.  "cached" is how many channel-days there are to serve.       *)

grabEvery(every, at, whenEmpty, zone, from, runs, cached) ==
  IF ~Said(at) THEN IF runs = 0 THEN from ELSE from + every
  ELSE IF runs = 0 /\ whenEmpty /\ cached = 0 THEN from
  ELSE LET anchor == wallTimeIn(dayIn(from, zone), zone, The(at))
           elapsed == from - anchor
       IN  IF elapsed < 0 THEN anchor ELSE anchor + (elapsed \div every + 1) * every
=============================================================================
