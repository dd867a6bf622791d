----------------------- MODULE SchedulesDirectProofs -----------------------
(* A Schedules Direct site, for any station-days, cut into requests of any     *)
(* size: each is said once in a pass, and one that is kept is what is listed.  *)
EXTENDS SchedulesDirect, FiniteSetTheorems, SequenceTheorems, WellFoundedInduction, TLAPS

-----------------------------------------------------------------------------
Md5Values == Nat \cup {None, Incomplete}
Stamps == Nat \cup {None}
Remembered == [stamp : Stamps, md5 : [StationDays -> Md5Values]]
Cached == [md5 : Nat, has : SUBSET Programmes, stamp : Stamps, at : Nat]
Written == [md5 : Nat, has : SUBSET Programmes]
Wires == [code : {"omitted", "ok"}, md5 : Nat \cup {None}]
Phases == {"idle", "md5s", "schedules", "programmes", "over"}

ServiceShape ==
  /\ clock \in Nat /\ listing \in [StationDays -> Nat]
  /\ \A sd \in StationDays : listing[sd] <= clock
  /\ detail \in [Programmes -> {"ready", "queued", "gone"}]
DiskShape ==
  /\ entry \in [StationDays -> {None} \cup Cached] /\ saved \in Remembered /\ fingerprint \in Nat
  /\ \A sd \in StationDays : entry[sd] # None => entry[sd].at <= clock
PassShape ==
  /\ phase \in Phases /\ at \in Nat /\ at <= clock /\ remapped \in BOOLEAN /\ memory \in Remembered
  /\ batches \in Seq(SUBSET StationDays) /\ later \subseteq StationDays
  /\ fetching \in [StationDays -> {None} \cup Wires]
  /\ answer \in [StationDays -> [md5 : Nat, tagged : BOOLEAN]]
  /\ known \subseteq Programmes /\ gone \subseteq Programmes /\ queued \subseteq Programmes
HeardShape ==
  /\ owed \subseteq StationDays /\ said \in [StationDays -> {0, 1}]
  /\ kept \in [StationDays -> {None} \cup Nat] /\ writes \in [StationDays -> {None} \cup Written]
Shape == ServiceShape /\ DiskShape /\ PassShape /\ HeardShape

\* A pass has what it has not said in the requests to come, set aside to be asked
\* about again, or to be fetched, each station-day in one of them; past that, it is
\* what an answer left out.
Apart(requests) ==
  \A i, j \in 1 .. Len(requests) : requests[i] \cap requests[j] # {} => i = j
Ahead(requests) == UNION {requests[i] : i \in 1 .. Len(requests)}
OwedInv ==
  /\ Apart(batches)
  /\ phase = "idle" => /\ kept = Nothing /\ writes = Nothing /\ fetching = Nothing /\ later = {}
                       /\ said = [sd \in StationDays |-> 0] /\ memory.md5 = Nothing
  /\ phase = "md5s" =>
       /\ owed = Ahead(batches) \cup later \cup Fetched
       /\ Ahead(batches) \cap later = {} /\ (Ahead(batches) \cup later) \cap Fetched = {}
  /\ phase = "schedules" => /\ Ahead(batches) \subseteq owed /\ owed \subseteq Fetched
                            /\ owed \ Ahead(batches) \subseteq leftOut
  /\ phase = "programmes" =>
       /\ batches # <<>> /\ Scope \cup Ahead(Tail(batches)) \subseteq owed /\ owed \subseteq Fetched
       /\ owed \ (Scope \cup Ahead(Tail(batches))) \subseteq leftOut
  /\ phase = "over" /\ ~failed => owed \subseteq leftOut

\* What is not said yet is neither kept nor to be written, and nothing is both.
DayOnce(sd) ==
  /\ sd \in owed /\ phase # "over" => said[sd] = 0 /\ kept[sd] = None /\ writes[sd] = None
  /\ writes[sd] # None => kept[sd] = None

\* A listing cached, to be written or just read is the one there is, or was when
\* its run began.
Awaited(sd) == phase = "programmes" /\ sd \in Scope
OfIts(md5, sd) == md5 = listing[sd] \/ listing[sd] > at
DayTrue(sd) ==
  /\ entry[sd] # None => entry[sd].md5 = listing[sd] \/ listing[sd] > entry[sd].at
  /\ writes[sd] # None => OfIts(writes[sd].md5, sd)
  /\ Awaited(sd) => OfIts(answer[sd].md5, sd) /\ answer[sd].md5 # Empty

\* An md5 stored is of what is cached, or of something that is listed no longer.
Was(md5, sd) == md5 \in Nat => md5 <= listing[sd]
Since(md5, new, sd) == md5 \in Nat => new = md5 \/ md5 < listing[sd]
DayStored(sd) ==
  /\ Was(memory.md5[sd], sd) /\ Was(saved.md5[sd], sd)
  /\ fetching[sd] # None => Was(fetching[sd].md5, sd)
  /\ writes[sd] # None => /\ Since(memory.md5[sd], writes[sd].md5, sd)
                          /\ Since(saved.md5[sd], writes[sd].md5, sd)
  /\ sd \notin lost /\ entry[sd] # None =>
       /\ Since(saved.md5[sd], entry[sd].md5, sd)
       /\ writes[sd] = None => Since(memory.md5[sd], entry[sd].md5, sd)
  /\ Awaited(sd) => /\ Was(answer[sd].md5, sd)
                    /\ Since(memory.md5[sd], answer[sd].md5, sd)
                    /\ Since(saved.md5[sd], answer[sd].md5, sd)
                    /\ Since(fetching[sd].md5, answer[sd].md5, sd)

\* What lacks a programme still to come has "?" stored for it, while nothing was
\* forgotten.
Undescribed == {p \in Programmes : detail[p] = "gone"}
Complete(sd, has) == Airs[sd] \ has \subseteq Undescribed
Clean == mishaps \cap {"state", "stop", "remap"} = {}
Latest == IF phase = "idle" THEN saved ELSE memory
DayWhole(sd) ==
  Clean =>
    /\ writes[sd] # None /\ writes[sd].md5 # Empty /\ memory.md5[sd] # Incomplete =>
         Complete(sd, writes[sd].has)
    /\ sd \notin lost /\ entry[sd] # None /\ writes[sd] = None /\ entry[sd].md5 # Empty
         /\ Latest.md5[sd] # Incomplete => Complete(sd, entry[sd].has)
CleanInv ==
  /\ gone \subseteq Undescribed
  /\ Clean => /\ fingerprint = 1 /\ saved.stamp \in {None, 1} /\ ~remapped
              /\ phase # "idle" => memory.stamp = 1

DayKept(sd) ==
  sd \notin lost /\ kept[sd] # None =>
    /\ entry[sd] # None /\ entry[sd].md5 = kept[sd]
    /\ Clean /\ kept[sd] # Empty => Complete(sd, entry[sd].has)

\* All of which is so of a day no answer left out.
DayRight(sd) == DayTrue(sd) /\ DayStored(sd) /\ DayWhole(sd) /\ DayKept(sd)
DayInv(sd) == DayOnce(sd) /\ (sd \notin leftOut => DayRight(sd))
SchedulesInv == Shape /\ OwedInv /\ CleanInv /\ \A sd \in StationDays : DayInv(sd)

-----------------------------------------------------------------------------
(* Station-days cut into requests: each is in one of them.                     *)

LEMMA Given ==
  /\ StationDays \subseteq Nat \X Nat /\ IsFiniteSet(StationDays)
  /\ Airs \in [StationDays -> SUBSET Programmes]
  /\ Md5s \in Nat \ {0} /\ PerRequest \subseteq Nat \ {0}
  /\ None \notin Nat /\ Incomplete \notin Nat /\ None # Incomplete
  /\ None \notin Wires /\ None \notin Written
BY SchedulesAssumption DEF SchedulesAssumption, Wires, Written

\* A set of numbers that holds one has a least.
LEMMA LeastIsOne ==
  ASSUME NEW set \in SUBSET Nat, set # {}
  PROVE  \E least \in set : \A other \in set : least <= other
<1>1. PICK least \in set : \A other \in set : <<other, least>> \notin OpToRel(<, Nat)
  BY NatLessThanWellFounded, WFMin
<1>2. SUFFICES ASSUME NEW other \in set PROVE least <= other
  OBVIOUS
<1>3. OpToRel(<, Nat) = {pair \in Nat \X Nat : pair[1] < pair[2]}
  BY DEF OpToRel
<1>4. <<other, least>> \in Nat \X Nat /\ <<other, least>> \notin {pair \in Nat \X Nat : pair[1] < pair[2]}
  BY <1>1, <1>3
<1> QED BY <1>4

\* The first day of each station begins a piece, and is at or before each of its days.
LEMMA FirstDayIs ==
  ASSUME NEW S \in SUBSET StationDays, NEW sd \in S
  PROVE  \E first \in S : /\ {day \in S : day[1] = first[1] /\ day[2] < first[2]} = {}
                          /\ first = sd \/ Earlier(first, sd)
<1> DEFINE days == {day \in {one[2] : one \in S} : <<sd[1], day>> \in S}
<1>1. \A one \in S : one = <<one[1], one[2]>> /\ one[1] \in Nat /\ one[2] \in Nat
  BY Given
<1>2. days \in SUBSET Nat /\ sd[2] \in days
  BY <1>1
<1>3. PICK least \in days : \A other \in days : least <= other
  BY <1>2, LeastIsOne
<1> DEFINE first == <<sd[1], least>>
<1>4. first \in S /\ least \in Nat
  BY <1>2, <1>3
<1>5. ASSUME NEW day \in S, day[1] = first[1], day[2] < first[2] PROVE FALSE
  <2>1. day = <<sd[1], day[2]>> /\ day[2] \in Nat
    BY <1>1, <1>5
  <2>2. day[2] \in days
    BY <2>1
  <2> QED BY <1>3, <1>4, <1>5, <2>1, <2>2
<1>6. first = sd \/ Earlier(first, sd)
  <2>1. least <= sd[2]
    BY <1>2, <1>3
  <2>2. CASE least = sd[2]
    BY <1>1, <2>2
  <2>3. CASE least < sd[2]
    BY <2>3 DEF Earlier
  <2> QED BY <1>1, <1>4, <2>1, <2>2, <2>3
<1> HIDE DEF first
<1>7. {day \in S : day[1] = first[1] /\ day[2] < first[2]} = {}
  BY <1>5
<1> QED BY <1>4, <1>6, <1>7 DEF first

\* A count of some of a finite set that holds one is a number up to that of all.
LEMMA CountedIs ==
  ASSUME NEW all, IsFiniteSet(all), NEW some \in SUBSET all, some # {}
  PROVE  Cardinality(all) \in Nat /\ Cardinality(some) \in 1 .. Cardinality(all)
<1>1. IsFiniteSet(some) /\ Cardinality(some) <= Cardinality(all)
  BY FS_Subset
<1>2. Cardinality(some) \in Nat /\ Cardinality(all) \in Nat /\ Cardinality(some) # 0
  BY <1>1, FS_CardinalityType, FS_EmptySet
<1> QED BY <1>1, <1>2

LEMMA ChunksAre ==
  ASSUME NEW S \in SUBSET StationDays, NEW width \in Nat \ {0}
  PROVE  LET cut == ChunkStationDays(S, width)
         IN  cut \in Seq(SUBSET StationDays) /\ Apart(cut) /\ Ahead(cut) = S
<1> DEFINE place(sd) == Cardinality({day \in S : day[1] = sd[1] /\ day[2] < sd[2]})
           heads == {sd \in S : place(sd) % width = 0}
           piece(sd) == Cardinality({head \in heads : head = sd \/ Earlier(head, sd)})
           size(i) == Cardinality({sd \in S : piece(sd) = i})
           held == CHOOSE f : f = [i \in 0 .. Cardinality(heads) |->
                     IF i = 0 \/ f[i - 1] + size(i) > width THEN size(i) ELSE f[i - 1] + size(i)]
           begins == {i \in 1 .. Cardinality(heads) : i = 1 \/ held[i - 1] + size(i) > width}
           request(i) == Cardinality({first \in begins : first <= i})
           cut == ChunkStationDays(S, width)
<1>1. cut = [k \in 1 .. Cardinality(begins) |-> {sd \in S : request(piece(sd)) = k}]
  BY DEF ChunkStationDays
<1> HIDE DEF cut
<1>2. IsFiniteSet(S) /\ IsFiniteSet(heads)
  BY Given, FS_Subset
<1>3. ASSUME NEW sd \in S PROVE piece(sd) \in 1 .. Cardinality(heads)
  <2>1. PICK first \in S : /\ {day \in S : day[1] = first[1] /\ day[2] < first[2]} = {}
                           /\ first = sd \/ Earlier(first, sd)
    BY FirstDayIs
  <2>2. place(first) = 0 /\ 0 % width = 0
    BY <2>1, FS_EmptySet
  <2>3. first \in {head \in heads : head = sd \/ Earlier(head, sd)}
    BY <2>1, <2>2
  <2> HIDE DEF heads
  <2> QED BY <1>2, <2>3, CountedIs
<1> HIDE DEF piece, heads, held, size
<1>4. Cardinality(heads) \in Nat
  BY <1>2, FS_CardinalityType
<1>5. IsFiniteSet(begins)
  <2>1. IsFiniteSet(1 .. Cardinality(heads)) /\ begins \subseteq 1 .. Cardinality(heads)
    BY <1>4, FS_Interval
  <2> HIDE DEF begins
  <2> QED BY <2>1, FS_Subset
<1>6. ASSUME NEW sd \in S PROVE request(piece(sd)) \in 1 .. Cardinality(begins)
  <2>1. piece(sd) \in 1 .. Cardinality(heads)
    BY <1>3
  <2>2. 1 \in begins /\ 1 <= piece(sd)
    BY <1>4, <2>1
  <2>3. 1 \in {first \in begins : first <= piece(sd)}
    BY <2>2
  <2> HIDE DEF begins
  <2> QED BY <1>5, <2>3, CountedIs
<1>7. Cardinality(begins) \in Nat
  BY <1>5, FS_CardinalityType
<1> HIDE DEF begins, request
<1>8. cut \in [1 .. Cardinality(begins) -> SUBSET StationDays]
  BY <1>1
<1>9. cut \in Seq(SUBSET StationDays) /\ Len(cut) = Cardinality(begins)
  BY <1>7, <1>8
<1>10. Apart(cut)
  BY <1>1, <1>9 DEF Apart
<1>11. Ahead(cut) = S
  <2>1. \A sd \in S : sd \in cut[request(piece(sd))]
    BY <1>1, <1>6
  <2>2. \A i \in 1 .. Len(cut) : cut[i] \subseteq S
    BY <1>1, <1>9
  <2> QED BY <1>6, <1>9, <2>1, <2>2 DEF Ahead
<1> QED BY <1>9, <1>10, <1>11 DEF cut

\* What is ahead is what is asked for next and what comes after it.
LEMMA NextIs ==
  ASSUME NEW requests \in Seq(SUBSET StationDays), requests # <<>>, Apart(requests)
  PROVE  /\ Head(requests) \subseteq StationDays /\ Tail(requests) \in Seq(SUBSET StationDays)
         /\ Apart(Tail(requests)) /\ Ahead(Tail(requests)) \subseteq StationDays
         /\ Ahead(requests) = Head(requests) \cup Ahead(Tail(requests))
         /\ Head(requests) \cap Ahead(Tail(requests)) = {}
<1> DEFINE rest == Tail(requests)
<1>1. /\ Head(requests) = requests[1] /\ Head(requests) \subseteq StationDays
      /\ rest \in Seq(SUBSET StationDays) /\ Len(rest) = Len(requests) - 1 /\ Len(requests) \in Nat \ {0}
      /\ \A i \in 1 .. Len(rest) : rest[i] = requests[i + 1]
  BY HeadTailProperties, EmptySeq
<1> HIDE DEF rest
<1>2. \A i \in 1 .. Len(rest) : i + 1 \in 1 .. Len(requests) /\ i + 1 # 1 /\ rest[i] \subseteq StationDays
  BY <1>1
<1>3. Apart(rest)
  <2> SUFFICES ASSUME NEW i \in 1 .. Len(rest), NEW j \in 1 .. Len(rest), rest[i] \cap rest[j] # {}
               PROVE  i = j
    BY DEF Apart
  <2>1. i + 1 = j + 1
    BY <1>1, <1>2 DEF Apart
  <2> QED BY <2>1
<1>4. Ahead(requests) = Head(requests) \cup Ahead(rest)
  <2>1. \A i \in 1 .. Len(requests) : i = 1 \/ (i - 1 \in 1 .. Len(rest) /\ requests[i] = rest[i - 1])
    BY <1>1
  <2>2. 1 \in 1 .. Len(requests)
    BY <1>1
  <2>3. Ahead(requests) \subseteq Head(requests) \cup Ahead(rest)
    BY <1>1, <2>1 DEF Ahead
  <2>4. Head(requests) \subseteq Ahead(requests)
    BY <1>1, <2>2 DEF Ahead
  <2>5. Ahead(rest) \subseteq Ahead(requests)
    <3> SUFFICES ASSUME NEW sd \in Ahead(rest) PROVE sd \in Ahead(requests)
      OBVIOUS
    <3>1. PICK i \in 1 .. Len(rest) : sd \in rest[i]
      BY DEF Ahead
    <3>2. i + 1 \in 1 .. Len(requests) /\ sd \in requests[i + 1]
      BY <1>1, <1>2, <3>1
    <3> QED BY <3>2 DEF Ahead
  <2> QED BY <2>3, <2>4, <2>5
<1>5. Head(requests) \cap Ahead(rest) = {}
  <2>1. \A i \in 1 .. Len(rest) : requests[1] \cap requests[i + 1] = {}
    BY <1>1, <1>2 DEF Apart
  <2> QED BY <1>1, <2>1 DEF Ahead
<1>6. Ahead(rest) \subseteq StationDays
  BY <1>2 DEF Ahead
<1> QED BY <1>1, <1>3, <1>4, <1>5, <1>6 DEF rest

LEMMA NoneAhead == Ahead(<<>>) = {} /\ Apart(<<>>)
BY DEF Ahead, Apart

-----------------------------------------------------------------------------
(* What steps do to one station-day.                                           *)

LEMMA DayShape ==
  ASSUME Shape, NEW sd \in StationDays
  PROVE  /\ listing[sd] \in Nat /\ listing[sd] <= clock /\ clock \in Nat /\ at \in Nat /\ at <= clock
         /\ entry[sd] # None => /\ entry[sd] \in Cached /\ entry[sd].md5 \in Nat /\ entry[sd].at \in Nat
                                /\ entry[sd].at <= clock
         /\ saved.md5[sd] \in Md5Values /\ memory.md5[sd] \in Md5Values
         /\ fetching[sd] # None => fetching[sd] \in Wires
         /\ answer[sd] \in [md5 : Nat, tagged : BOOLEAN] /\ answer[sd].md5 \in Nat
         /\ kept[sd] # None => kept[sd] \in Nat
         /\ writes[sd] # None => writes[sd] \in Written /\ writes[sd].md5 \in Nat
<1>1. listing[sd] \in Nat /\ listing[sd] <= clock /\ clock \in Nat /\ at \in Nat /\ at <= clock
  BY DEF Shape, ServiceShape, PassShape
<1>2. entry[sd] # None => entry[sd] \in Cached /\ entry[sd].at <= clock
  BY DEF Shape, DiskShape
<1>3. saved.md5[sd] \in Md5Values
  BY DEF Shape, DiskShape, Remembered
<1>4. memory.md5[sd] \in Md5Values
  BY DEF Shape, PassShape, Remembered
<1>5. /\ fetching[sd] # None => fetching[sd] \in Wires
      /\ answer[sd] \in [md5 : Nat, tagged : BOOLEAN]
  BY DEF Shape, PassShape
<1>6. /\ kept[sd] # None => kept[sd] \in Nat
      /\ writes[sd] # None => writes[sd] \in Written
  BY DEF Shape, HeardShape
<1>7. entry[sd] # None => entry[sd].md5 \in Nat /\ entry[sd].at \in Nat
  BY <1>2 DEF Cached
<1>8. writes[sd] # None => writes[sd].md5 \in Nat
  BY <1>6 DEF Written
<1> QED BY <1>1, <1>2, <1>3, <1>4, <1>5, <1>6, <1>7, <1>8

\* Within a pass: what the service and the cache have stays, and what went wrong.
Still(sd) ==
  /\ listing'[sd] = listing[sd] /\ entry'[sd] = entry[sd] /\ saved'.md5[sd] = saved.md5[sd]
  /\ at' = at /\ (sd \in lost' <=> sd \in lost)
  /\ mishaps \subseteq mishaps' /\ Undescribed \subseteq Undescribed'
  /\ (phase' = "idle" <=> phase = "idle") /\ (phase = "over" => phase' = "over")
  /\ (sd \in leftOut => sd \in leftOut')
Quiet(sd) ==
  /\ said'[sd] = said[sd] /\ kept'[sd] = kept[sd] /\ writes'[sd] = writes[sd]
  /\ memory'.md5[sd] = memory.md5[sd] /\ (sd \in owed' => sd \in owed)
Heard(sd, say) ==
  /\ sd \notin owed' /\ said'[sd] = said[sd] + 1
  /\ kept'[sd] = IF say.how = "keep" THEN say.md5 ELSE kept[sd]
  /\ writes'[sd] = IF say.how = "write" THEN [md5 |-> say.md5, has |-> say.has] ELSE writes[sd]
  /\ memory'.md5[sd] = IF say.remember # None THEN say.remember ELSE memory.md5[sd]

LEMMA ParentOf ==
  ASSUME NEW sd \in StationDays, Still(sd)
  PROVE  /\ Clean' => Clean
         /\ \A has : Complete(sd, has) => Complete(sd, has)'
         /\ \A md5 : (OfIts(md5, sd) <=> OfIts(md5, sd)') /\ (Was(md5, sd) <=> Was(md5, sd)')
         /\ \A md5, new : Since(md5, new, sd) <=> Since(md5, new, sd)'
BY DEF Still, Clean, Complete, OfIts, Was, Since

\* A day nothing is said of: read or not, and what it is fetched for.
LEMMA QuietKeeps ==
  ASSUME Shape, NEW sd \in StationDays, DayInv(sd), Still(sd), Quiet(sd),
         fetching'[sd] = fetching[sd] \/ fetching'[sd] = None
           \/ (Was(fetching'[sd].md5, sd) /\ ~Awaited(sd)'),
         Awaited(sd)' /\ sd \notin leftOut' =>
           \/ Awaited(sd) /\ answer'[sd] = answer[sd] /\ fetching'[sd] = fetching[sd]
           \/ /\ answer'[sd].md5 = listing[sd] /\ listing[sd] # Empty
              /\ fetching'[sd] = fetching[sd] /\ fetching[sd] # None
  PROVE  DayInv(sd)'
<1> USE ParentOf
<1>1. DayOnce(sd)'
  BY DEF DayInv, DayOnce, Quiet, Still
<1> SUFFICES ASSUME sd \notin leftOut' PROVE DayRight(sd)'
  BY <1>1 DEF DayInv
<1> DayRight(sd)
  BY DEF DayInv, Still
<1>2. DayTrue(sd)'
  BY DEF DayRight, DayTrue, Quiet, Still, OfIts
<1>3. DayStored(sd)'
  <2>1. /\ Was(memory'.md5[sd], sd) /\ Was(saved'.md5[sd], sd)
        /\ fetching'[sd] # None => Was(fetching'[sd].md5, sd)
    BY DEF DayRight, DayStored, Quiet, Still
  <2>2. writes'[sd] # None => /\ Since(memory'.md5[sd], writes'[sd].md5, sd)
                              /\ Since(saved'.md5[sd], writes'[sd].md5, sd)
    BY DEF DayRight, DayStored, Quiet, Still
  <2>3. sd \notin lost' /\ entry'[sd] # None =>
          /\ Since(saved'.md5[sd], entry'[sd].md5, sd)
          /\ writes'[sd] = None => Since(memory'.md5[sd], entry'[sd].md5, sd)
    BY DEF DayRight, DayStored, Quiet, Still
  <2>4. Awaited(sd)' => /\ Was(answer'[sd].md5, sd)
                        /\ Since(memory'.md5[sd], answer'[sd].md5, sd)
                        /\ Since(saved'.md5[sd], answer'[sd].md5, sd)
                        /\ Since(fetching'[sd].md5, answer'[sd].md5, sd)
    <3>1. CASE Awaited(sd) /\ answer'[sd] = answer[sd] /\ fetching'[sd] = fetching[sd]
      BY <3>1 DEF DayRight, DayStored, Quiet, Still
    <3>2. CASE /\ answer'[sd].md5 = listing[sd]
               /\ fetching'[sd] = fetching[sd] /\ fetching[sd] # None
      <4>1. Was(memory'.md5[sd], sd) /\ Was(saved'.md5[sd], sd) /\ Was(fetching'[sd].md5, sd)
        BY <2>1, <3>2
      <4>2. Was(listing[sd], sd) /\ \A md5 : Was(md5, sd) => Since(md5, listing[sd], sd)
        BY DayShape DEF Was, Since
      <4> QED BY <3>2, <4>1, <4>2
    <3> QED BY <3>1, <3>2
  <2> QED BY <2>1, <2>2, <2>3, <2>4 DEF DayStored
<1>4. DayWhole(sd)'
  <2>1. Latest'.md5[sd] = Latest.md5[sd]
    BY DEF Latest, Quiet, Still
  <2> QED BY <2>1 DEF DayRight, DayWhole, Quiet, Still
<1>5. DayKept(sd)'
  BY DEF DayRight, DayKept, Quiet, Still
<1> QED BY <1>2, <1>3, <1>4, <1>5 DEF DayRight

\* A day said is not awaited, and was neither kept nor written.
LEMMA HeardIs ==
  ASSUME Shape, NEW sd \in StationDays, DayInv(sd), sd \in owed, phase # "over", NEW say, Heard(sd, say)
  PROVE  said'[sd] = 1 /\ kept[sd] = None /\ writes[sd] = None
BY DEF Heard, DayInv, DayOnce

\* Kept, for no answer or as it is listed.
LEMMA KeepingKeeps ==
  ASSUME Shape, NEW sd \in StationDays, DayInv(sd), Still(sd), sd \in owed, ~Awaited(sd)',
         fetching'[sd] = fetching[sd] \/ fetching'[sd] = None, phase \notin {"idle", "over"},
         NEW md5, Heard(sd, Keep(md5)),
         \/ md5 = None
         \/ md5 = listing[sd] /\ Matches(memory.md5[sd], md5, entry[sd])
  PROVE  DayInv(sd)' /\ kept'[sd] \in {None} \cup Nat /\ writes'[sd] = None
         /\ memory'.md5[sd] \in Md5Values /\ said'[sd] = 1
<1> USE ParentOf, DayShape, Given
<1>1. /\ sd \notin owed' /\ said'[sd] = 1 /\ kept'[sd] = md5 /\ writes'[sd] = None /\ writes[sd] = None
      /\ memory'.md5[sd] = IF md5 # None THEN md5 ELSE memory.md5[sd]
  BY HeardIs DEF Heard, Keep
<1>2. DayOnce(sd)'
  BY <1>1 DEF DayOnce
<1>8. kept'[sd] \in {None} \cup Nat /\ memory'.md5[sd] \in Md5Values
  BY <1>1 DEF Md5Values
<1> SUFFICES ASSUME sd \notin leftOut' PROVE DayRight(sd)'
  BY <1>1, <1>2, <1>8 DEF DayInv
<1> DayRight(sd)
  BY DEF DayInv, Still
<1>3. DayTrue(sd)'
  BY <1>1 DEF DayRight, DayTrue, Still, OfIts
<1>4. md5 # None => /\ md5 = listing[sd] /\ entry[sd] # None /\ md5 \in Nat
                    /\ memory.md5[sd] # Incomplete
                    /\ sd \notin lost => entry[sd].md5 = listing[sd]
  <2> SUFFICES ASSUME md5 # None
               PROVE  /\ entry[sd] # None /\ memory.md5[sd] # Incomplete
                      /\ sd \notin lost => entry[sd].md5 = listing[sd]
    OBVIOUS
  <2>1. Matches(memory.md5[sd], md5, entry[sd]) /\ md5 = listing[sd] /\ entry[sd] # None
    BY DEF Matches
  <2>2. CASE memory.md5[sd] = md5
    <3>1. sd \notin lost => Since(md5, entry[sd].md5, sd)
      BY <1>1, <2>1, <2>2 DEF DayRight, DayStored
    <3> QED BY <2>1, <2>2, <3>1 DEF Since
  <2>3. CASE memory.md5[sd] = None /\ md5 <= entry[sd].at
    <3>1. entry[sd].md5 = listing[sd] \/ listing[sd] > entry[sd].at
      BY <2>1 DEF DayRight, DayTrue
    <3> QED BY <2>1, <2>3, <3>1
  <2> QED BY <2>1, <2>2, <2>3 DEF Matches
<1>5. DayStored(sd)'
  <2>1. Was(memory'.md5[sd], sd)
    <3>1. CASE md5 # None
      BY <1>1, <1>4, <3>1 DEF Was
    <3>2. CASE md5 = None
      BY <1>1, <3>2 DEF DayRight, DayStored
    <3> QED BY <3>1, <3>2
  <2>2. Was(saved'.md5[sd], sd) /\ (fetching'[sd] # None => Was(fetching'[sd].md5, sd))
    BY DEF DayRight, DayStored, Still
  <2>3. sd \notin lost' /\ entry'[sd] # None =>
          Since(saved'.md5[sd], entry'[sd].md5, sd) /\ Since(memory'.md5[sd], entry'[sd].md5, sd)
    <3>1. sd \notin lost' /\ entry'[sd] # None => Since(saved'.md5[sd], entry'[sd].md5, sd)
      BY DEF DayRight, DayStored, Still
    <3>2. CASE md5 # None
      BY <1>1, <1>4, <3>1, <3>2 DEF Since, Still
    <3>3. CASE md5 = None
      BY <1>1, <3>1, <3>3 DEF DayRight, DayStored, Still
    <3> QED BY <3>2, <3>3
  <2> QED BY <1>1, <2>1, <2>2, <2>3 DEF DayStored
<1>6. DayWhole(sd)'
  <2> SUFFICES ASSUME Clean', sd \notin lost', entry'[sd] # None, entry'[sd].md5 # Empty,
                      Latest'.md5[sd] # Incomplete
               PROVE  Complete(sd, entry[sd].has)'
    BY <1>1 DEF DayWhole
  <2>1. Latest'.md5[sd] = memory'.md5[sd] /\ Latest.md5[sd] = memory.md5[sd]
    BY DEF Latest, Still
  <2>2. memory.md5[sd] # Incomplete
    BY <1>1, <1>4, <2>1
  <2>3. Complete(sd, entry[sd].has)
    BY <1>1, <2>1, <2>2 DEF DayRight, DayWhole, Still
  <2> QED BY <2>3 DEF Still, Complete
<1>7. DayKept(sd)'
  <2> SUFFICES ASSUME sd \notin lost', md5 # None
               PROVE  /\ entry'[sd] # None /\ entry'[sd].md5 = md5
                      /\ Clean' /\ md5 # Empty => Complete(sd, entry[sd].has)'
    BY <1>1 DEF DayKept
  <2>1. entry[sd] # None /\ entry[sd].md5 = md5 /\ sd \notin lost
    BY <1>4 DEF Still
  <2>2. Latest.md5[sd] = memory.md5[sd]
    BY DEF Latest
  <2>3. Clean /\ md5 # Empty => Complete(sd, entry[sd].has)
    BY <1>1, <1>4, <2>1, <2>2 DEF DayRight, DayWhole
  <2> QED BY <2>1, <2>3 DEF Still, Complete
<1> QED BY <1>3, <1>5, <1>6, <1>7 DEF DayRight

\* Written: as the listing that was read, or with nothing for there is none.
LEMMA WritingKeeps ==
  ASSUME Shape, NEW sd \in StationDays, DayInv(sd), Still(sd), sd \in owed, ~Awaited(sd)',
         fetching'[sd] = fetching[sd] \/ fetching'[sd] = None, phase \notin {"idle", "over"},
         NEW md5 \in Nat, NEW has \in SUBSET Programmes, NEW remember \in Md5Values,
         Heard(sd, Write(md5, has, remember)),
         sd \notin leftOut' =>
           /\ OfIts(md5, sd) /\ (remember \in Nat => remember <= listing[sd])
           /\ Since(memory.md5[sd], md5, sd) /\ Since(saved.md5[sd], md5, sd) /\ Since(remember, md5, sd)
           /\ md5 # Empty /\ remember # Incomplete => Complete(sd, has)
  PROVE  DayInv(sd)' /\ kept'[sd] = None /\ writes'[sd] \in Written
         /\ memory'.md5[sd] \in Md5Values /\ said'[sd] = 1
<1> USE ParentOf, DayShape, Given
<1>1. /\ sd \notin owed' /\ said'[sd] = 1 /\ kept'[sd] = None /\ writes[sd] = None
      /\ writes'[sd] = [md5 |-> md5, has |-> has] /\ writes'[sd].md5 = md5 /\ writes'[sd].has = has
      /\ memory'.md5[sd] = IF remember # None THEN remember ELSE memory.md5[sd]
  <2>1. said'[sd] = 1 /\ kept[sd] = None /\ writes[sd] = None
    BY HeardIs
  <2>2. /\ Write(md5, has, remember).how = "write" /\ Write(md5, has, remember).md5 = md5
        /\ Write(md5, has, remember).has = has /\ Write(md5, has, remember).remember = remember
    BY DEF Write
  <2> QED BY <2>1, <2>2 DEF Heard
<1>10. writes'[sd] \in Written /\ writes'[sd] # None
  <2>1. [md5 |-> md5, has |-> has] \in Written
    BY DEF Written
  <2> QED BY <1>1, <2>1
<1>2. DayOnce(sd)'
  BY <1>1 DEF DayOnce
<1>8. memory'.md5[sd] \in Md5Values
  BY <1>1
<1> SUFFICES ASSUME sd \notin leftOut' PROVE DayRight(sd)'
  BY <1>1, <1>10, <1>2, <1>8 DEF DayInv
<1> DayRight(sd)
  BY DEF DayInv, Still
<1>3. DayTrue(sd)'
  BY <1>1 DEF DayRight, DayTrue, Still, OfIts
<1>4. Was(memory'.md5[sd], sd) /\ Since(memory'.md5[sd], md5, sd)
  BY <1>1 DEF Was, DayRight, DayStored
<1>5. DayStored(sd)'
  <2>1. Was(saved'.md5[sd], sd) /\ (fetching'[sd] # None => Was(fetching'[sd].md5, sd))
    BY DEF DayRight, DayStored, Still
  <2>2. Since(memory'.md5[sd], writes'[sd].md5, sd) /\ Since(saved'.md5[sd], writes'[sd].md5, sd)
    BY <1>1, <1>4 DEF Still
  <2>3. sd \notin lost' /\ entry'[sd] # None =>
          /\ Since(saved'.md5[sd], entry'[sd].md5, sd)
          /\ writes'[sd] = None => Since(memory'.md5[sd], entry'[sd].md5, sd)
    <3>1. sd \notin lost' /\ entry'[sd] # None => Since(saved'.md5[sd], entry'[sd].md5, sd)
      BY DEF DayRight, DayStored, Still
    <3> QED BY <1>10, <3>1
  <2> QED BY <1>4, <2>1, <2>2, <2>3 DEF DayStored
<1>6. DayWhole(sd)'
  <2> SUFFICES ASSUME md5 # Empty, memory'.md5[sd] # Incomplete PROVE Complete(sd, writes[sd].has)'
    BY <1>1, <1>10 DEF DayWhole
  <2>1. remember # Incomplete
    BY <1>1
  <2>2. Complete(sd, has)
    BY <2>1
  <2> QED BY <1>1, <2>2 DEF Complete, Still
<1>7. DayKept(sd)'
  BY <1>1 DEF DayKept
<1> QED BY <1>3, <1>5, <1>6, <1>7 DEF DayRight

-----------------------------------------------------------------------------
(* What a pass says between two of its calls.                                  *)

LEMMA EmitIs ==
  ASSUME Shape, NEW says, DOMAIN says \subseteq owed, Emit(says)
  PROVE  /\ owed' = owed \ DOMAIN says /\ failed' = failed
         /\ \A sd \in StationDays : IF sd \in DOMAIN says THEN Heard(sd, says[sd]) ELSE Quiet(sd)
         /\ memory'.stamp = memory.stamp
         /\ (\A sd \in StationDays : memory'.md5[sd] \in Md5Values) => memory' \in Remembered
         /\ (\A sd \in StationDays : /\ said'[sd] \in {0, 1} /\ kept'[sd] \in {None} \cup Nat
                                     /\ writes'[sd] \in {None} \cup Written) => HeardShape'
<1> DEFINE Of(how) == {sd \in DOMAIN says : says[sd].how = how}
           Told == {sd \in DOMAIN says : says[sd].remember # None}
           new == [sd \in StationDays |-> IF sd \in Told THEN says[sd].remember ELSE memory.md5[sd]]
<1>1. /\ said' = [sd \in StationDays |-> IF sd \in DOMAIN says THEN said[sd] + 1 ELSE said[sd]]
      /\ owed' = owed \ DOMAIN says /\ failed' = failed
      /\ kept' = [sd \in StationDays |-> IF sd \in Of("keep") THEN says[sd].md5 ELSE kept[sd]]
      /\ writes' = [sd \in StationDays |->
                      IF sd \in Of("write") THEN [md5 |-> says[sd].md5, has |-> says[sd].has]
                      ELSE writes[sd]]
  BY DEF Emit
<1>2. memory \in [stamp : Stamps, md5 : [StationDays -> Md5Values]]
  BY DEF Shape, PassShape, Remembered
<1>3. memory' = [memory EXCEPT !.md5 = new]
  BY DEF Emit
<1> HIDE DEF new
<1>4. memory' = [stamp |-> memory.stamp, md5 |-> new]
  BY <1>2, <1>3
<1>5. memory'.stamp = memory.stamp /\ memory'.md5 = new /\ memory.stamp \in Stamps
  BY <1>2, <1>4
<1>6. owed \subseteq StationDays
  BY DEF Shape, HeardShape
<1>7. ASSUME NEW sd \in StationDays
      PROVE  memory'.md5[sd] = IF sd \in Told THEN says[sd].remember ELSE memory.md5[sd]
  BY <1>5 DEF new
<1>8. ASSUME NEW sd \in StationDays
      PROVE  IF sd \in DOMAIN says THEN Heard(sd, says[sd]) ELSE Quiet(sd)
  <2>1. CASE sd \in DOMAIN says
    BY <1>1, <1>7, <2>1 DEF Heard
  <2>2. CASE sd \notin DOMAIN says
    BY <1>1, <1>7, <2>2 DEF Quiet
  <2> QED BY <2>1, <2>2
<1>9. ASSUME \A sd \in StationDays : memory'.md5[sd] \in Md5Values
      PROVE  memory' \in Remembered
  <2>1. new \in [StationDays -> Md5Values]
    BY <1>5, <1>9 DEF new
  <2> QED BY <1>4, <1>5, <2>1 DEF Remembered
<1>10. ASSUME \A sd \in StationDays : /\ said'[sd] \in {0, 1} /\ kept'[sd] \in {None} \cup Nat
                                      /\ writes'[sd] \in {None} \cup Written
       PROVE  HeardShape'
  <2>1. said' \in [StationDays -> {0, 1}]
    BY <1>1, <1>10
  <2>2. kept' \in [StationDays -> {None} \cup Nat]
    BY <1>1, <1>10
  <2>3. writes' \in [StationDays -> {None} \cup Written]
    BY <1>1, <1>10
  <2> QED BY <1>1, <1>6, <2>1, <2>2, <2>3 DEF HeardShape
<1> QED BY <1>1, <1>5, <1>8, <1>9, <1>10

\* What is said is said, and the rest stays as it was.
LEMMA SaidKeeps ==
  ASSUME SchedulesInv, phase # "idle", NEW says, DOMAIN says \subseteq owed, Emit(says),
         \A sd \in DOMAIN says : /\ DayInv(sd)' /\ kept'[sd] \in {None} \cup Nat
                                  /\ writes'[sd] \in {None} \cup Written
                                  /\ memory'.md5[sd] \in Md5Values /\ said'[sd] = 1,
         \A sd \in StationDays \ DOMAIN says : Quiet(sd) => DayInv(sd)'
  PROVE  /\ \A sd \in StationDays : DayInv(sd)'
         /\ HeardShape' /\ memory' \in Remembered /\ memory'.stamp = memory.stamp
         /\ owed' = owed \ DOMAIN says /\ failed' = failed
<1>1. Shape /\ owed \subseteq StationDays
  BY DEF SchedulesInv, Shape, HeardShape
<1>2. \A sd \in StationDays \ DOMAIN says : Quiet(sd)
  BY <1>1, EmitIs
<1>3. \A sd \in StationDays : DayInv(sd)'
  BY <1>2
<1>4. ASSUME NEW sd \in StationDays
      PROVE  /\ said'[sd] \in {0, 1} /\ kept'[sd] \in {None} \cup Nat
             /\ writes'[sd] \in {None} \cup Written /\ memory'.md5[sd] \in Md5Values
  <2>1. CASE sd \in DOMAIN says
    BY <2>1
  <2>2. CASE sd \notin DOMAIN says
    <3>1. /\ said[sd] \in {0, 1} /\ kept[sd] \in {None} \cup Nat
          /\ writes[sd] \in {None} \cup Written /\ memory.md5[sd] \in Md5Values
      BY <1>1 DEF Shape, HeardShape, PassShape, Remembered
    <3> QED BY <1>2, <2>2, <3>1 DEF Quiet
  <2> QED BY <2>1, <2>2
<1> QED BY <1>1, <1>3, <1>4, EmitIs

-----------------------------------------------------------------------------
(* The world around a pass, and its own books.                                 *)

\* Of no day is anything said, cached or listed.
LEMMA BooksKeep ==
  ASSUME SchedulesInv, Undescribed \subseteq Undescribed', mishaps \subseteq mishaps',
         UNCHANGED <<listing, entry, saved, at, amiss, memory, fetching, answer, owed, said, kept, writes>>,
         phase' = "idle" <=> phase = "idle", phase = "over" => phase' = "over",
         \A sd \in StationDays : Awaited(sd)' => Awaited(sd)
  PROVE  \A sd \in StationDays : DayInv(sd)'
<1> SUFFICES ASSUME NEW sd \in StationDays PROVE DayInv(sd)'
  OBVIOUS
<1>1. Shape /\ DayInv(sd)
  BY DEF SchedulesInv
<1>2. Still(sd)
  BY DEF Still, amiss
<1>3. Quiet(sd)
  BY DEF Quiet
<1> QED BY <1>1, <1>2, <1>3, QuietKeeps

LEMMA InitIs == Init => SchedulesInv
<1> SUFFICES ASSUME Init PROVE SchedulesInv
  OBVIOUS
<1> USE DEF Init, Idle
<1>1. Shape
  <2>1. Nothing \in [StationDays -> Md5Values] /\ Nothing \in [StationDays -> {None} \cup Nat]
    BY DEF Nothing, Md5Values
  <2>2. memory \in Remembered /\ saved \in Remembered
    BY <2>1 DEF Remembered, Stamps
  <2>3. ServiceShape
    BY DEF ServiceShape, Empty
  <2>4. DiskShape
    BY <2>2 DEF DiskShape, Nothing
  <2>5. PassShape
    <3>1. answer \in [StationDays -> [md5 : Nat, tagged : BOOLEAN]]
      BY DEF Unanswered, Silence, Empty
    <3>2. fetching \in [StationDays -> {None} \cup Wires]
      BY DEF Nothing
    <3>3. phase \in Phases /\ at \in Nat /\ at <= clock
      BY DEF Phases
    <3>6. remapped \in BOOLEAN
      OBVIOUS
    <3>4. batches \in Seq(SUBSET StationDays) /\ later \subseteq StationDays
      OBVIOUS
    <3>5. known \subseteq Programmes /\ gone \subseteq Programmes /\ queued \subseteq Programmes
      OBVIOUS
    <3> QED BY <2>2, <3>1, <3>2, <3>3, <3>4, <3>5, <3>6 DEF PassShape
  <2>6. HeardShape
    BY DEF HeardShape, Nothing
  <2> QED BY <2>3, <2>4, <2>5, <2>6 DEF Shape
<1>2. OwedInv
  BY NoneAhead DEF OwedInv
<1>3. CleanInv
  BY DEF CleanInv
<1>4. ASSUME NEW sd \in StationDays PROVE DayInv(sd)
  <2>1. /\ memory.md5[sd] = None /\ saved.md5[sd] = None /\ entry[sd] = None /\ fetching[sd] = None
        /\ kept[sd] = None /\ writes[sd] = None /\ None \notin Nat
    BY Given DEF Nothing
  <2>2. ~Awaited(sd)
    BY DEF Awaited
  <2> QED BY <2>1, <2>2 DEF DayInv, DayRight, DayOnce, DayTrue, DayStored, DayWhole, DayKept, Was
<1> QED BY <1>1, <1>2, <1>3, <1>4 DEF SchedulesInv

LEMMA PublishKeeps ==
  ASSUME SchedulesInv, NEW one \in StationDays, Publish(one)
  PROVE  SchedulesInv'
<1> USE DEF Publish, disk, pass, md5s, batch, heard, amiss
<1>1. Shape
  BY DEF SchedulesInv
<1>2. clock' = clock + 1 /\ clock \in Nat /\ listing'[one] = clock + 1
      /\ \A sd \in StationDays \ {one} : listing'[sd] = listing[sd]
  BY <1>1 DEF Shape, ServiceShape
<1>3. Shape'
  <2>1. ServiceShape'
    <3>1. listing' \in [StationDays -> Nat]
      BY <1>1, <1>2 DEF Shape, ServiceShape
    <3>2. \A sd \in StationDays : listing'[sd] <= clock'
      BY <1>1, <1>2 DEF Shape, ServiceShape
    <3> QED BY <1>1, <1>2, <3>1, <3>2 DEF Shape, ServiceShape
  <2>2. DiskShape'
    <3>1. \A sd \in StationDays : entry[sd] # None => entry[sd].at <= clock + 1
      BY <1>1, <1>2, DayShape
    <3> QED BY <1>1, <1>2, <3>1 DEF Shape, DiskShape
  <2>3. PassShape'
    <3>1. at <= clock + 1
      BY <1>1, <1>2 DEF Shape, PassShape
    <3> QED BY <1>1, <1>2, <3>1 DEF Shape, PassShape
  <2>4. HeardShape'
    BY <1>1 DEF Shape, HeardShape
  <2> QED BY <2>1, <2>2, <2>3, <2>4 DEF Shape
<1>4. OwedInv'
  BY DEF SchedulesInv, OwedInv, Fetched, Scope
<1>5. CleanInv'
  BY DEF SchedulesInv, CleanInv, Clean, Undescribed
<1>6. ASSUME NEW sd \in StationDays PROVE DayInv(sd)'
  <2>1. DayInv(sd)
    BY DEF SchedulesInv
  <2>2. Awaited(sd)' = Awaited(sd)
    BY DEF Awaited, Scope, Fetched
  <2>3. \A md5 : Was(md5, sd) => Was(md5, sd)'
    BY <1>1, <1>2, DayShape DEF Was
  <2>4. \A md5, new : Was(md5, sd) /\ Since(md5, new, sd) => Since(md5, new, sd)'
    BY <1>1, <1>2, DayShape DEF Was, Since
  <2>5. \A md5 : OfIts(md5, sd) => OfIts(md5, sd)'
    BY <1>1, <1>2, DayShape DEF OfIts
  <2>6. DayOnce(sd)'
    BY <2>1 DEF DayInv, DayOnce
  <2> SUFFICES ASSUME sd \notin leftOut' PROVE DayRight(sd)'
    BY <2>6 DEF DayInv
  <2> DayRight(sd)
    BY <2>1 DEF DayInv
  <2>7. DayTrue(sd)'
    <3>1. entry'[sd] # None => entry'[sd].md5 = listing'[sd] \/ listing'[sd] > entry'[sd].at
      BY <1>1, <1>2, <2>1, DayShape DEF DayRight, DayTrue
    <3> QED BY <2>2, <2>5, <3>1 DEF DayRight, DayTrue
  <2>8. DayStored(sd)'
    <3>1. Was(memory.md5[sd], sd) /\ Was(saved.md5[sd], sd) /\ (fetching[sd] # None => Was(fetching[sd].md5, sd))
      BY DEF DayRight, DayStored
    <3>2. Awaited(sd) => fetching[sd] # None
      BY DEF Awaited, Scope, Fetched
    <3> QED BY <2>2, <2>3, <2>4, <3>1, <3>2 DEF DayRight, DayStored
  <2>9. DayWhole(sd)'
    BY DEF DayRight, DayWhole, Clean, Latest, Complete, Undescribed
  <2>10. DayKept(sd)'
    BY DEF DayRight, DayKept, Clean, Complete, Undescribed
  <2> QED BY <2>7, <2>8, <2>9, <2>10 DEF DayRight
<1> QED BY <1>3, <1>4, <1>5, <1>6 DEF SchedulesInv

LEMMA RegenerateKeeps ==
  ASSUME SchedulesInv, NEW one \in StationDays, Regenerate(one)
  PROVE  SchedulesInv'
<1> USE DEF Regenerate, disk, pass, md5s, batch, heard, amiss
<1>1. Shape'
  BY DEF SchedulesInv, Shape, ServiceShape, DiskShape, PassShape, HeardShape
<1>2. OwedInv' /\ CleanInv'
  BY DEF SchedulesInv, OwedInv, CleanInv, Clean, Fetched, Scope, Undescribed
<1>3. \A sd \in StationDays : DayInv(sd)'
  BY BooksKeep DEF Undescribed, Awaited, Scope, Fetched
<1> QED BY <1>1, <1>2, <1>3 DEF SchedulesInv

LEMMA DescribeKeeps ==
  ASSUME SchedulesInv, NEW one \in Programmes, Describe(one)
  PROVE  SchedulesInv'
<1> USE DEF Describe, disk, pass, md5s, batch, heard, amiss
<1>1. PICK state \in {"ready", "gone"} : detail' = [detail EXCEPT ![one] = state]
  OBVIOUS
<1>2. detail \in [Programmes -> {"ready", "queued", "gone"}]
  BY DEF SchedulesInv, Shape, ServiceShape
<1>3. Undescribed \subseteq Undescribed'
  BY <1>1, <1>2 DEF Undescribed
<1>4. Shape'
  <2>1. ServiceShape'
    BY <1>1, <1>2 DEF SchedulesInv, Shape, ServiceShape
  <2>2. DiskShape' /\ PassShape' /\ HeardShape'
    BY DEF SchedulesInv, Shape, DiskShape, PassShape, HeardShape
  <2> QED BY <2>1, <2>2 DEF Shape
<1>5. OwedInv'
  BY DEF SchedulesInv, OwedInv, Fetched, Scope
<1>6. CleanInv'
  BY <1>3 DEF SchedulesInv, CleanInv, Clean
<1>7. \A sd \in StationDays : DayInv(sd)'
  BY <1>3, BooksKeep DEF Awaited, Scope, Fetched
<1> QED BY <1>4, <1>5, <1>6, <1>7 DEF SchedulesInv

LEMMA ReconfigureKeeps ==
  ASSUME SchedulesInv, Reconfigure
  PROVE  SchedulesInv'
<1> USE DEF Reconfigure, Goes, service, pass, md5s, batch, heard, amiss
<1>1. Shape'
  <2>1. fingerprint + 1 \in Nat
    BY DEF SchedulesInv, Shape, DiskShape
  <2> QED BY <2>1 DEF SchedulesInv, Shape, ServiceShape, DiskShape, PassShape, HeardShape
<1>2. OwedInv'
  BY DEF SchedulesInv, OwedInv, Fetched, Scope
<1>3. CleanInv'
  BY DEF SchedulesInv, CleanInv, Clean, Undescribed
<1>4. \A sd \in StationDays : DayInv(sd)'
  BY BooksKeep DEF Undescribed, Awaited, Scope, Fetched
<1> QED BY <1>1, <1>2, <1>3, <1>4 DEF SchedulesInv

LEMMA LoseStateKeeps ==
  ASSUME SchedulesInv, LoseState
  PROVE  SchedulesInv'
<1> USE DEF LoseState, Goes, service, pass, md5s, batch, heard, amiss
<1>1. saved' \in Remembered /\ \A sd \in StationDays : saved'.md5[sd] = None
  BY DEF Remembered, Stamps, Md5Values, Nothing
<1>2. Shape'
  BY <1>1 DEF SchedulesInv, Shape, ServiceShape, DiskShape, PassShape, HeardShape
<1>3. OwedInv'
  BY DEF SchedulesInv, OwedInv, Fetched, Scope
<1>4. ~Clean'
  BY DEF Clean
<1>5. CleanInv'
  BY <1>4 DEF SchedulesInv, CleanInv, Undescribed
<1>6. ASSUME NEW sd \in StationDays PROVE DayInv(sd)'
  <2>1. DayInv(sd) /\ kept[sd] = None /\ writes[sd] = None
    BY DEF SchedulesInv, OwedInv, Nothing
  <2>2. ~Awaited(sd)' /\ None \notin Nat
    BY Given DEF Awaited
  <2>5. DayOnce(sd)'
    BY <2>1 DEF DayInv, DayOnce
  <2> SUFFICES ASSUME sd \notin leftOut' PROVE DayRight(sd)'
    BY <2>5 DEF DayInv
  <2> DayRight(sd)
    BY <2>1 DEF DayInv
  <2>3. DayTrue(sd)' /\ DayWhole(sd)' /\ DayKept(sd)'
    BY <1>4, <2>1, <2>2 DEF DayRight, DayOnce, DayTrue, DayWhole, DayKept
  <2>4. DayStored(sd)'
    BY <1>1, <2>1, <2>2 DEF DayRight, DayStored, Was, Since
  <2> QED BY <2>3, <2>4 DEF DayRight
<1> QED BY <1>2, <1>3, <1>5, <1>6 DEF SchedulesInv

LEMMA LoseEntryKeeps ==
  ASSUME SchedulesInv, NEW one \in StationDays, LoseEntry(one)
  PROVE  SchedulesInv'
<1> USE DEF LoseEntry, Goes, service, pass, md5s, batch, heard, amiss
<1>1. entry \in [StationDays -> {None} \cup Cached]
  BY DEF SchedulesInv, Shape, DiskShape
<1>2. entry'[one] = None /\ \A sd \in StationDays \ {one} : entry'[sd] = entry[sd]
  BY <1>1
<1>3. Shape'
  <2>1. DiskShape'
    <3>1. entry' \in [StationDays -> {None} \cup Cached]
      BY <1>1
    <3>2. \A sd \in StationDays : entry'[sd] # None => entry'[sd].at <= clock
      BY <1>2 DEF SchedulesInv, Shape, DiskShape
    <3> QED BY <3>1, <3>2 DEF SchedulesInv, Shape, DiskShape
  <2> QED BY <2>1 DEF SchedulesInv, Shape, ServiceShape, PassShape, HeardShape
<1>4. OwedInv'
  BY DEF SchedulesInv, OwedInv, Fetched, Scope
<1>5. CleanInv'
  BY DEF SchedulesInv, CleanInv, Clean, Undescribed
<1>6. ASSUME NEW sd \in StationDays PROVE DayInv(sd)'
  <2>1. DayInv(sd) /\ kept[sd] = None /\ writes[sd] = None
    BY DEF SchedulesInv, OwedInv, Nothing
  <2>2. ~Awaited(sd)' /\ None \notin Nat
    BY Given DEF Awaited
  <2>3. Was(saved.md5[sd], sd)' = Was(saved.md5[sd], sd) /\ (Clean' => Clean)
    BY DEF Was, Clean
  <2>4. CASE sd = one
    BY <1>2, <2>1, <2>2, <2>4 DEF DayInv, DayRight, DayOnce, DayTrue, DayStored, DayWhole, DayKept, Was
  <2>5. CASE sd # one
    BY <1>2, <2>1, <2>2, <2>3, <2>5
       DEF DayInv, DayRight, DayOnce, DayTrue, DayStored, DayWhole, DayKept, Was, Since, Complete, Undescribed, Latest
  <2> QED BY <2>4, <2>5
<1> QED BY <1>3, <1>4, <1>5, <1>6 DEF SchedulesInv

\* At rest, a site remembers nothing but what it saved.
LEMMA RestIs ==
  ASSUME SchedulesInv, Rest, clock' = clock
  PROVE  /\ PassShape' /\ HeardShape' /\ OwedInv' /\ ~remapped' /\ phase' = "idle" /\ gone' = {}
         /\ \A sd \in StationDays : /\ memory'.md5[sd] = None /\ fetching'[sd] = None
                                    /\ kept'[sd] = None /\ writes'[sd] = None /\ sd \notin owed'
                                    /\ ~Awaited(sd)'
<1> USE DEF Rest
<1>1. Nothing \in [StationDays -> Md5Values] /\ Nothing \in [StationDays -> {None} \cup Nat]
      /\ Nothing \in [StationDays -> {None} \cup Wires]
      /\ Nothing \in [StationDays -> {None} \cup Written]
  BY DEF Nothing, Md5Values
<1>2. memory' \in Remembered
  BY <1>1 DEF Remembered, Stamps
<1>3. PassShape'
  <2>1. answer' \in [StationDays -> [md5 : Nat, tagged : BOOLEAN]]
    BY DEF Unanswered, Silence, Empty
  <2>2. phase' \in Phases /\ at' \in Nat /\ at' <= clock'
    BY DEF Phases, SchedulesInv, Shape, ServiceShape
  <2>3. remapped' \in BOOLEAN
    OBVIOUS
  <2>4. batches' \in Seq(SUBSET StationDays) /\ later' \subseteq StationDays
    OBVIOUS
  <2>5. known' \subseteq Programmes /\ gone' \subseteq Programmes /\ queued' \subseteq Programmes
    OBVIOUS
  <2> QED BY <1>1, <1>2, <2>1, <2>2, <2>3, <2>4, <2>5 DEF PassShape
<1>4. HeardShape'
  BY <1>1 DEF HeardShape
<1>5. OwedInv'
  BY NoneAhead DEF OwedInv
<1>6. \A sd \in StationDays : ~Awaited(sd)'
  BY DEF Awaited
<1> QED BY <1>3, <1>4, <1>5, <1>6 DEF Nothing

LEMMA StopKeeps ==
  ASSUME SchedulesInv, Stop
  PROVE  SchedulesInv'
<1> USE DEF Stop, Goes, service, disk, amiss
<1>1. Rest /\ clock' = clock /\ None \notin Nat
  BY Given
<1>2. Shape'
  BY <1>1, RestIs DEF SchedulesInv, Shape, ServiceShape, DiskShape
<1>3. ~Clean'
  BY DEF Clean
<1>4. CleanInv'
  BY <1>1, <1>3, RestIs DEF CleanInv
<1>5. ASSUME NEW sd \in StationDays PROVE DayInv(sd)'
  <2>1. DayOnce(sd)'
    BY <1>1, RestIs DEF DayOnce
  <2> SUFFICES ASSUME sd \notin leftOut' PROVE DayRight(sd)'
    BY <2>1 DEF DayInv
  <2> DayRight(sd)
    BY DEF SchedulesInv, DayInv
  <2>2. DayTrue(sd)' /\ DayWhole(sd)' /\ DayKept(sd)'
    BY <1>1, <1>3, RestIs DEF DayRight, DayTrue, DayWhole, DayKept
  <2>3. DayStored(sd)'
    BY <1>1, RestIs DEF DayRight, DayStored, Was, Since
  <2> QED BY <2>2, <2>3 DEF DayRight
<1>6. OwedInv'
  BY <1>1, RestIs
<1> QED BY <1>2, <1>4, <1>5, <1>6 DEF SchedulesInv

LEMMA FinishKeeps ==
  ASSUME SchedulesInv, Finish
  PROVE  SchedulesInv'
<1> USE DEF Finish, service, amiss
<1>1. Rest /\ clock' = clock /\ None \notin Nat /\ phase = "over" /\ saved' = memory
  BY Given
<1>2. Shape'
  <2>1. DiskShape'
    BY <1>1 DEF SchedulesInv, Shape, DiskShape, PassShape
  <2>2. ServiceShape'
    BY DEF SchedulesInv, Shape, ServiceShape
  <2> QED BY <1>1, <2>1, <2>2, RestIs DEF Shape
<1>3. CleanInv'
  <2>1. Clean' = Clean /\ Undescribed' = Undescribed
    BY DEF Clean, Undescribed
  <2> QED BY <1>1, <2>1, RestIs DEF SchedulesInv, CleanInv
<1>4. ASSUME NEW sd \in StationDays PROVE DayInv(sd)'
  <2>1. DayOnce(sd)'
    BY <1>1, RestIs DEF DayOnce
  <2> SUFFICES ASSUME sd \notin leftOut' PROVE DayRight(sd)'
    BY <2>1 DEF DayInv
  <2> DayRight(sd) /\ writes[sd] = None
    BY DEF SchedulesInv, DayInv, Nothing
  <2>2. DayTrue(sd)' /\ DayKept(sd)'
    BY <1>1, RestIs DEF DayRight, DayTrue, DayKept
  <2>3. DayStored(sd)'
    BY <1>1, RestIs DEF DayRight, DayStored, Was, Since
  <2>4. DayWhole(sd)'
    <3>1. Latest = memory /\ Latest' = memory
      BY <1>1, RestIs DEF Latest
    <3> QED BY <1>1, <3>1, RestIs DEF DayRight, DayWhole, Clean, Complete, Undescribed
  <2> QED BY <2>2, <2>3, <2>4 DEF DayRight
<1>5. OwedInv'
  BY <1>1, RestIs
<1> QED BY <1>2, <1>3, <1>4, <1>5 DEF SchedulesInv

LEMMA CallFailsKeeps ==
  ASSUME SchedulesInv, CallFails
  PROVE  SchedulesInv'
<1> USE DEF CallFails, Goes, Active, service, disk, md5s, batch, amiss
<1>1. Shape'
  BY DEF SchedulesInv, Shape, ServiceShape, DiskShape, PassShape, HeardShape, Phases
<1>2. OwedInv'
  BY DEF SchedulesInv, OwedInv
<1>3. CleanInv'
  BY DEF SchedulesInv, CleanInv, Clean, Undescribed
<1>4. \A sd \in StationDays : DayInv(sd)'
  BY BooksKeep DEF Undescribed, Awaited
<1> QED BY <1>1, <1>2, <1>3, <1>4 DEF SchedulesInv

\* What a cancel drops of the writes is lost, and the rest is as it was.
LEMMA CancelKeeps ==
  ASSUME SchedulesInv, Cancel
  PROVE  SchedulesInv'
<1> USE DEF Cancel, Goes, service, disk, md5s, batch
<1>1. PICK dropped \in SUBSET {sd \in StationDays : writes[sd] # None} :
        /\ writes' = [sd \in StationDays |-> IF sd \in dropped THEN None ELSE writes[sd]]
        /\ lost' = lost \cup dropped
  OBVIOUS
<1>2. Shape /\ writes \in [StationDays -> {None} \cup Written]
  BY DEF SchedulesInv, Shape, HeardShape
<1>3. Shape'
  <2>1. writes' \in [StationDays -> {None} \cup Written]
    BY <1>1, <1>2
  <2> QED BY <1>2, <2>1 DEF Shape, ServiceShape, DiskShape, PassShape, HeardShape, Phases
<1>4. OwedInv'
  BY DEF SchedulesInv, OwedInv
<1>5. CleanInv'
  BY DEF SchedulesInv, CleanInv, Clean, Undescribed
<1>6. ASSUME NEW sd \in StationDays PROVE DayInv(sd)'
  <2>1. DayInv(sd) /\ ~Awaited(sd)' /\ (Clean' => Clean) /\ Undescribed' = Undescribed
    BY DEF SchedulesInv, Awaited, Clean, Undescribed
  <2>2. CASE sd \in dropped
    <3>1. writes'[sd] = None /\ sd \in lost'
      BY <1>1, <2>2
    <3> QED BY <2>1, <3>1
          DEF DayInv, DayRight, DayOnce, DayTrue, DayStored, DayWhole, DayKept, Was, Since
  <2>3. CASE sd \notin dropped
    <3>1. Still(sd) /\ Quiet(sd)
      BY <1>1, <2>1, <2>3 DEF Still, Quiet
    <3> QED BY <1>2, <2>1, <3>1, QuietKeeps
  <2> QED BY <2>2, <2>3
<1> QED BY <1>3, <1>4, <1>5, <1>6 DEF SchedulesInv

LEMMA EndPassKeeps ==
  ASSUME SchedulesInv, EndPass
  PROVE  SchedulesInv'
<1> USE DEF EndPass, service, disk, md5s, batch, amiss
<1>1. owed \subseteq leftOut
  BY NoneAhead DEF SchedulesInv, OwedInv
<1>2. /\ writes \in [StationDays -> {None} \cup Written] /\ Blank \in Written
      /\ \A sd \in StationDays : writes'[sd] = IF sd \in owed THEN Blank ELSE writes[sd]
  BY DEF SchedulesInv, Shape, HeardShape, Written, Blank, Empty
<1>3. Shape'
  <2>1. HeardShape'
    BY <1>2 DEF SchedulesInv, Shape, HeardShape
  <2> QED BY <2>1 DEF SchedulesInv, Shape, ServiceShape, DiskShape, PassShape, Phases
<1>4. OwedInv'
  BY <1>1 DEF SchedulesInv, OwedInv
<1>5. CleanInv'
  BY DEF SchedulesInv, CleanInv, Clean, Undescribed
<1>6. ASSUME NEW sd \in StationDays PROVE DayInv(sd)'
  <2>1. DayInv(sd) /\ Shape
    BY DEF SchedulesInv
  <2>2. CASE sd \in owed
    BY <1>1, <2>1, <2>2 DEF DayInv, DayOnce
  <2>3. CASE sd \notin owed
    <3>1. Still(sd) /\ Quiet(sd) /\ ~Awaited(sd)'
      BY <1>2, <2>3 DEF Still, Quiet, Awaited, Undescribed
    <3> QED BY <2>1, <3>1, QuietKeeps
  <2> QED BY <2>2, <2>3
<1> QED BY <1>3, <1>4, <1>5, <1>6 DEF SchedulesInv

LEMMA AskAgainKeeps ==
  ASSUME SchedulesInv, AskAgain
  PROVE  SchedulesInv'
<1> USE DEF AskAgain, service, disk, batch, heard, amiss
<1>1. later \subseteq StationDays /\ Md5s \in Nat \ {0}
  BY Given DEF SchedulesInv, Shape, PassShape
<1>2. batches' \in Seq(SUBSET StationDays) /\ Apart(batches') /\ Ahead(batches') = later
  BY <1>1, ChunksAre
<1>3. Shape'
  BY <1>2 DEF SchedulesInv, Shape, ServiceShape, DiskShape, PassShape, HeardShape
<1>4. OwedInv'
  BY <1>2, NoneAhead DEF SchedulesInv, OwedInv, Fetched
<1>5. CleanInv'
  BY DEF SchedulesInv, CleanInv, Clean, Undescribed
<1>6. \A sd \in StationDays : DayInv(sd)'
  BY BooksKeep DEF Undescribed, Awaited
<1> QED BY <1>3, <1>4, <1>5, <1>6 DEF SchedulesInv

LEMMA StartFetchingKeeps ==
  ASSUME SchedulesInv, StartFetching
  PROVE  SchedulesInv'
<1> USE DEF StartFetching, service, disk, batch, heard, amiss
<1>1. PICK width \in PerRequest : batches' = ChunkStationDays(Fetched, width)
  OBVIOUS
<1>7. Fetched \subseteq StationDays /\ width \in Nat \ {0}
  BY Given DEF Fetched
<1>2. batches' \in Seq(SUBSET StationDays) /\ Apart(batches') /\ Ahead(batches') = Fetched
  BY <1>1, <1>7, ChunksAre
<1>3. Shape'
  BY <1>2 DEF SchedulesInv, Shape, ServiceShape, DiskShape, PassShape, HeardShape, Phases
<1>4. OwedInv'
  BY <1>2, NoneAhead DEF SchedulesInv, OwedInv, Fetched
<1>5. CleanInv'
  BY DEF SchedulesInv, CleanInv, Clean, Undescribed
<1>6. \A sd \in StationDays : DayInv(sd)'
  BY BooksKeep DEF Undescribed, Awaited
<1> QED BY <1>3, <1>4, <1>5, <1>6 DEF SchedulesInv

LEMMA AskProgramsKeeps ==
  ASSUME SchedulesInv, AskPrograms
  PROVE  SchedulesInv'
<1> USE DEF AskPrograms, service, disk, md5s, heard, amiss
<1>1. Shape'
  BY DEF SchedulesInv, Shape, ServiceShape, DiskShape, PassShape, HeardShape
<1>2. OwedInv'
  BY DEF SchedulesInv, OwedInv, Fetched, Scope
<1>3. CleanInv'
  <2>1. queued \subseteq Programmes
    BY DEF SchedulesInv, Shape, PassShape
  <2>2. gone' \subseteq Undescribed' /\ Clean' = Clean
    BY <2>1 DEF SchedulesInv, CleanInv, Clean, Undescribed
  <2> QED BY <2>2 DEF SchedulesInv, CleanInv
<1>4. \A sd \in StationDays : DayInv(sd)'
  BY BooksKeep DEF Undescribed, Awaited, Scope, Fetched
<1> QED BY <1>1, <1>2, <1>3, <1>4 DEF SchedulesInv

LEMMA BeginKeeps ==
  ASSUME SchedulesInv, NEW S \in SUBSET StationDays, Begin(S)
  PROVE  SchedulesInv'
<1> USE DEF Begin, service, disk, batch, amiss
<1>1. Shape /\ Md5s \in Nat \ {0} /\ None \notin Nat
  BY Given DEF SchedulesInv
<1>2. batches' \in Seq(SUBSET StationDays) /\ Apart(batches') /\ Ahead(batches') = S
  BY <1>1, ChunksAre
<1>3. /\ memory'.stamp = fingerprint /\ memory' \in Remembered
      /\ \A sd \in StationDays : memory'.md5[sd] = IF remapped' THEN None ELSE saved.md5[sd]
  <2>1. saved \in Remembered /\ saved.md5 \in [StationDays -> Md5Values] /\ fingerprint \in Stamps
    BY <1>1 DEF Shape, DiskShape, Remembered, Stamps
  <2>2. Nothing \in [StationDays -> Md5Values]
    BY DEF Nothing, Md5Values
  <2>3. CASE remapped'
    BY <2>1, <2>2, <2>3 DEF Remembered, Nothing
  <2>4. CASE ~remapped'
    BY <2>1, <2>4 DEF Remembered
  <2> QED BY <2>3, <2>4
<1>4. Shape'
  <2>1. PassShape'
    <3>1. remapped' \in BOOLEAN
      OBVIOUS
    <3>2. phase' \in Phases /\ at' \in Nat /\ at' <= clock'
      BY <1>1 DEF Phases, Shape, ServiceShape
    <3> QED BY <1>1, <1>2, <1>3, <3>1, <3>2 DEF Shape, PassShape
  <2> QED BY <1>1, <2>1 DEF Shape, ServiceShape, DiskShape, HeardShape
<1>5. \A sd \in StationDays : fetching[sd] = None /\ kept[sd] = None /\ writes[sd] = None /\ said[sd] = 0
  BY DEF SchedulesInv, OwedInv, Nothing
<1>6. OwedInv'
  BY <1>2, <1>5 DEF SchedulesInv, OwedInv, Fetched
<1>7. Clean' = Clean /\ Undescribed' = Undescribed
  BY DEF Clean, Undescribed
<1>8. Clean => ~remapped'
  BY DEF SchedulesInv, CleanInv
<1>9. CleanInv'
  BY <1>3, <1>7, <1>8 DEF SchedulesInv, CleanInv
<1>10. ASSUME NEW sd \in StationDays PROVE DayInv(sd)'
  <2>1. DayInv(sd) /\ ~Awaited(sd)'
    BY DEF SchedulesInv, Awaited
  <2>5. DayOnce(sd)'
    BY <1>5 DEF DayOnce
  <2> SUFFICES ASSUME sd \notin leftOut' PROVE DayRight(sd)'
    BY <2>5 DEF DayInv
  <2> DayRight(sd)
    BY <2>1 DEF DayInv
  <2>2. DayTrue(sd)' /\ DayKept(sd)'
    BY <1>5, <2>1 DEF DayRight, DayTrue, DayKept
  <2>3. DayStored(sd)'
    <3>1. memory'.md5[sd] = None \/ memory'.md5[sd] = saved.md5[sd]
      BY <1>3
    <3> QED BY <1>1, <1>5, <2>1, <3>1 DEF DayRight, DayStored, Was, Since
  <2>4. DayWhole(sd)'
    <3>1. Clean => Latest'.md5[sd] = Latest.md5[sd]
      BY <1>3, <1>8 DEF Latest
    <3> QED BY <1>5, <1>7, <2>1, <3>1 DEF DayRight, DayWhole, Complete
  <2> QED BY <2>2, <2>3, <2>4 DEF DayRight
<1> QED BY <1>4, <1>6, <1>9, <1>10 DEF SchedulesInv

LEMMA WriteLandsKeeps ==
  ASSUME SchedulesInv, NEW one \in StationDays, WriteLands(one)
  PROVE  SchedulesInv'
<1> USE DEF WriteLands, service, md5s, batch
<1>1. Shape
  BY DEF SchedulesInv
<1>2. entry \in [StationDays -> {None} \cup Cached] /\ writes \in [StationDays -> {None} \cup Written]
  BY <1>1 DEF Shape, DiskShape, HeardShape
<1>3. /\ entry'[one] = Landed(one) /\ writes'[one] = None
      /\ \A sd \in StationDays \ {one} : entry'[sd] = entry[sd] /\ writes'[sd] = writes[sd]
  BY <1>2
<1>4. Landed(one) \in Cached /\ Landed(one).md5 = writes[one].md5 /\ Landed(one).has = writes[one].has
      /\ Landed(one).at = at /\ at \in Nat /\ at <= clock
  <2>1. writes[one].md5 \in Nat /\ writes[one].has \in SUBSET Programmes
    BY <1>2 DEF Written
  <2>2. memory.stamp \in Stamps /\ at \in Nat /\ at <= clock
    BY <1>1 DEF Shape, PassShape, Remembered
  <2> QED BY <2>1, <2>2 DEF Landed, Cached
<1>5. Shape'
  <2>1. DiskShape'
    <3>1. entry' \in [StationDays -> {None} \cup Cached]
      BY <1>2, <1>4
    <3>2. \A sd \in StationDays : entry'[sd] # None => entry'[sd].at <= clock
      BY <1>1, <1>3, <1>4, DayShape
    <3> QED BY <1>1, <3>1, <3>2 DEF Shape, DiskShape
  <2>2. HeardShape'
    <3>1. writes' \in [StationDays -> {None} \cup Written]
      BY <1>2
    <3> QED BY <1>1, <3>1 DEF Shape, HeardShape
  <2> QED BY <1>1, <2>1, <2>2 DEF Shape, ServiceShape, PassShape
<1>6. phase # "idle"
  BY DEF SchedulesInv, OwedInv, Nothing
<1>7. OwedInv'
  BY <1>6 DEF SchedulesInv, OwedInv, Fetched, Scope
<1>8. CleanInv'
  BY DEF SchedulesInv, CleanInv, Clean, Undescribed
<1>9. ASSUME NEW sd \in StationDays PROVE DayInv(sd)'
  <2>1. DayInv(sd) /\ Awaited(sd)' = Awaited(sd) /\ (sd # one => (sd \in lost' <=> sd \in lost))
    BY DEF SchedulesInv, Awaited, Scope, Fetched
  <2>2. CASE sd = one
    <3>1. DayOnce(sd)'
      BY <1>3, <2>1, <2>2 DEF DayInv, DayOnce
    <3> SUFFICES ASSUME sd \notin leftOut' PROVE DayRight(sd)'
      BY <3>1 DEF DayInv
    <3> DayRight(sd)
      BY <2>1 DEF DayInv
    <3>2. DayTrue(sd)'
      BY <1>3, <1>4, <2>1, <2>2 DEF DayRight, DayTrue, OfIts
    <3>3. DayStored(sd)'
      BY <1>3, <1>4, <2>1, <2>2 DEF DayRight, DayStored, Was, Since
    <3>4. DayWhole(sd)'
      BY <1>3, <1>4, <1>6, <2>1, <2>2 DEF DayRight, DayWhole, Latest, Clean, Complete, Undescribed
    <3>5. DayKept(sd)'
      BY <2>1, <2>2 DEF DayInv, DayOnce, DayKept
    <3> QED BY <3>2, <3>3, <3>4, <3>5 DEF DayRight
  <2>3. CASE sd # one
    BY <1>3, <2>1, <2>3
       DEF DayInv, DayRight, DayOnce, DayTrue, DayStored, DayWhole, DayKept, OfIts, Was, Since, Latest, Clean,
           Complete, Undescribed
  <2> QED BY <2>2, <2>3
<1> QED BY <1>5, <1>7, <1>8, <1>9 DEF SchedulesInv

LEMMA WriteFailsKeeps ==
  ASSUME SchedulesInv, NEW one \in StationDays, WriteFails(one)
  PROVE  SchedulesInv'
<1> USE DEF WriteFails, Goes, service, disk, md5s, batch
<1>1. Shape /\ writes \in [StationDays -> {None} \cup Written]
  BY DEF SchedulesInv, Shape, HeardShape
<1>2. writes'[one] = None /\ \A sd \in StationDays \ {one} : writes'[sd] = writes[sd]
  BY <1>1
<1>3. Shape'
  <2>1. HeardShape'
    <3>1. writes' \in [StationDays -> {None} \cup Written]
      BY <1>1
    <3> QED BY <1>1, <3>1 DEF Shape, HeardShape
  <2> QED BY <1>1, <2>1 DEF Shape, ServiceShape, DiskShape, PassShape
<1>4. phase # "idle"
  BY DEF SchedulesInv, OwedInv, Nothing
<1>5. OwedInv'
  BY <1>4 DEF SchedulesInv, OwedInv, Fetched, Scope
<1>6. CleanInv'
  BY DEF SchedulesInv, CleanInv, Clean, Undescribed
<1>7. ASSUME NEW sd \in StationDays PROVE DayInv(sd)'
  <2>1. /\ DayInv(sd) /\ Awaited(sd)' = Awaited(sd) /\ (sd # one => (sd \in lost' <=> sd \in lost))
        /\ one \in lost' /\ (Clean' => Clean)
    BY DEF SchedulesInv, Awaited, Scope, Fetched, Clean
  <2>2. CASE sd = one
    BY <1>2, <2>1, <2>2
       DEF DayInv, DayRight, DayOnce, DayTrue, DayStored, DayWhole, DayKept, OfIts, Was, Since
  <2>3. CASE sd # one
    BY <1>2, <2>1, <2>3
       DEF DayInv, DayRight, DayOnce, DayTrue, DayStored, DayWhole, DayKept, OfIts, Was, Since, Latest,
           Complete, Undescribed
  <2> QED BY <2>2, <2>3
<1> QED BY <1>3, <1>5, <1>6, <1>7 DEF SchedulesInv

-----------------------------------------------------------------------------
(* The three questions of a pass, and what is made of their answers.           *)

\* What is done about a station-day, by what the service says of its md5.
LEMMA VerdictIs ==
  ASSUME SchedulesInv, NEW sd \in StationDays, NEW wire \in Md5Of(sd)
  PROVE  \/ Verdict(sd, wire) = "wait"
         \/ Verdict(sd, wire) = "unknown"
         \/ /\ Verdict(sd, wire) = "keep"
            /\ wire.md5 = None \/ (wire.md5 = listing[sd] /\ Matches(memory.md5[sd], wire.md5, entry[sd]))
         \/ Verdict(sd, wire) = "empty" /\ listing[sd] = Empty /\ wire.md5 \in {Empty, None}
         \/ Verdict(sd, wire) = "fetch" /\ wire \in Wires /\ Was(wire.md5, sd)
<1>1. listing[sd] \in Nat /\ None \notin Nat
  BY DayShape, Given DEF SchedulesInv
<1>2. CASE wire = [code |-> "queued", md5 |-> None]
  BY <1>2 DEF Verdict, Decide
<1>3. CASE wire = [code |-> "omitted", md5 |-> None]
  <2>1. wire.code = "omitted" /\ wire.md5 = None /\ wire \in Wires /\ Was(wire.md5, sd)
    BY <1>1, <1>3 DEF Wires, Was
  <2> QED BY <2>1 DEF Verdict, Decide
<1>4. CASE listing[sd] = Empty /\ wire \in {[code |-> "beyond", md5 |-> Empty], [code |-> "beyond", md5 |-> None]}
  BY <1>4 DEF Verdict, Decide
<1>5. CASE wire = [code |-> "ok", md5 |-> listing[sd]]
  <2>1. wire.code = "ok" /\ wire.md5 = listing[sd] /\ wire \in Wires /\ Was(wire.md5, sd)
    BY <1>1, <1>5 DEF Wires, Was
  <2> QED BY <2>1 DEF Verdict, Decide
<1> QED BY <1>2, <1>3, <1>4, <1>5 DEF Md5Of

LEMMA AskMd5sKeeps ==
  ASSUME SchedulesInv, AskMd5s
  PROVE  SchedulesInv'
<1> DEFINE asked == Head(batches)
<1>1. /\ Shape /\ None \notin Nat /\ None \notin Wires /\ phase = "md5s" /\ batches # <<>>
      /\ batches \in Seq(SUBSET StationDays) /\ Apart(batches) /\ later \subseteq StationDays
      /\ fetching \in [StationDays -> {None} \cup Wires]
  BY Given DEF AskMd5s, SchedulesInv, Shape, PassShape, OwedInv
<1>2. /\ asked \subseteq StationDays /\ Tail(batches) \in Seq(SUBSET StationDays)
      /\ Apart(Tail(batches)) /\ Ahead(batches) = asked \cup Ahead(Tail(batches))
      /\ asked \cap Ahead(Tail(batches)) = {} /\ asked \subseteq owed
  BY <1>1, NextIs DEF SchedulesInv, OwedInv
<1>3. PICK wires \in Answers([sd \in asked |-> Md5Of(sd)]) : Settle(wires)
  BY DEF AskMd5s
<1>4. \A sd \in asked : wires[sd] \in Md5Of(sd)
  BY DEF Answers
<1> DEFINE Judged(verdict) == {sd \in asked : Verdict(sd, wires[sd]) = verdict}
           Judgeable == Judged("keep") \cup Judged("empty") \cup Judged("unknown")
           Say(sd) == CASE sd \in Judged("keep")    -> Keep(wires[sd].md5)
                        [] sd \in Judged("empty")   -> Write(Empty, {}, wires[sd].md5)
                        [] sd \in Judged("unknown") -> Keep(None)
<1>5. PICK says : says = [sd \in Judgeable |-> Say(sd)]
  OBVIOUS
<1>6. /\ Emit(says) /\ later' = later \cup Judged("wait")
      /\ fetching' = [sd \in StationDays |-> IF sd \in Judged("fetch") THEN wires[sd] ELSE fetching[sd]]
  BY <1>3, <1>5 DEF Settle
<1>7. /\ UNCHANGED <<service, disk, phase, at, remapped, waits, batch, mishaps, amiss>>
      /\ batches' = Tail(batches)
  BY DEF AskMd5s
<1> USE DEF service, disk, batch, amiss
<1>8. ASSUME NEW sd \in asked
      PROVE  /\ sd \in Judgeable \cup Judged("wait") \cup Judged("fetch") /\ sd \in StationDays
             /\ sd \in Judged("fetch") => wires[sd] \in Wires /\ Was(wires[sd].md5, sd)
  BY <1>2, <1>4, VerdictIs
<1>9. \A sd \in StationDays : Still(sd) /\ ~Awaited(sd)'
  BY <1>1, <1>7 DEF Still, Awaited, Undescribed
<1>10. \A sd \in StationDays \ Judged("fetch") : fetching'[sd] = fetching[sd]
  BY <1>6
<1>11. DOMAIN says = Judgeable /\ Judgeable \subseteq asked
  BY <1>5
<1>12. ASSUME NEW sd \in Judgeable
       PROVE  /\ DayInv(sd)' /\ kept'[sd] \in {None} \cup Nat /\ writes'[sd] \in {None} \cup Written
              /\ memory'.md5[sd] \in Md5Values /\ said'[sd] = 1
  <2>1. /\ sd \in StationDays /\ sd \in owed /\ DayInv(sd) /\ Heard(sd, says[sd]) /\ says[sd] = Say(sd)
        /\ fetching'[sd] = fetching[sd] /\ Still(sd) /\ ~Awaited(sd)' /\ phase \notin {"idle", "over"}
    BY <1>1, <1>2, <1>5, <1>6, <1>9, <1>10, <1>11, EmitIs DEF SchedulesInv
  <2>2. CASE sd \in Judged("keep")
    <3>1. Heard(sd, Keep(wires[sd].md5))
      BY <2>1, <2>2
    <3>2. wires[sd].md5 = None \/ (wires[sd].md5 = listing[sd] /\ Matches(memory.md5[sd], wires[sd].md5, entry[sd]))
      BY <1>4, <2>1, <2>2, VerdictIs
    <3> QED BY <1>1, <2>1, <3>1, <3>2, KeepingKeeps
  <2>3. CASE sd \in Judged("empty")
    <3>1. Heard(sd, Write(Empty, {}, wires[sd].md5))
      BY <2>1, <2>3
    <3>2. listing[sd] = 0 /\ wires[sd].md5 \in Md5Values /\ (wires[sd].md5 \in Nat => wires[sd].md5 = 0)
      BY <1>1, <1>4, <2>1, <2>3, VerdictIs DEF Empty, Md5Values
    <3>3. /\ OfIts(Empty, sd) /\ Since(wires[sd].md5, Empty, sd)
          /\ wires[sd].md5 \in Nat => wires[sd].md5 <= listing[sd]
      BY <3>2 DEF OfIts, Since, Empty
    <3>4. sd \notin leftOut' => Since(memory.md5[sd], Empty, sd) /\ Since(saved.md5[sd], Empty, sd)
      BY <1>7, <2>1, <3>2 DEF DayInv, DayRight, DayStored, Was, Since, Empty
    <3>5. Empty \in Nat /\ {} \in SUBSET Programmes
      BY DEF Empty
    <3> QED BY <1>1, <2>1, <3>1, <3>2, <3>3, <3>4, <3>5, WritingKeeps
  <2>4. CASE sd \in Judged("unknown")
    <3>1. Heard(sd, Keep(None))
      BY <2>1, <2>4
    <3> QED BY <1>1, <2>1, <3>1, KeepingKeeps
  <2> QED BY <2>2, <2>3, <2>4
<1>13. ASSUME NEW sd \in StationDays \ Judgeable, Quiet(sd)
       PROVE  DayInv(sd)'
  <2>1. fetching'[sd] = fetching[sd] \/ (Was(fetching'[sd].md5, sd) /\ ~Awaited(sd)')
    BY <1>6, <1>8, <1>9
  <2> QED BY <1>1, <1>9, <1>13, <2>1, QuietKeeps DEF SchedulesInv
<1> HIDE DEF Judged, Judgeable, Say
<1>14. /\ \A sd \in StationDays : DayInv(sd)'
       /\ HeardShape' /\ memory' \in Remembered /\ memory'.stamp = memory.stamp
       /\ owed' = owed \ Judgeable
  BY <1>1, <1>2, <1>6, <1>11, <1>12, <1>13, SaidKeeps
<1> USE DEF Judged, Judgeable
<1>15. Shape'
  <2>1. fetching' \in [StationDays -> {None} \cup Wires]
    BY <1>1, <1>6, <1>8
  <2>2. PassShape'
    BY <1>1, <1>2, <1>6, <1>7, <1>14, <2>1 DEF Shape, PassShape
  <2> QED BY <1>1, <1>7, <1>14, <2>2 DEF Shape, ServiceShape, DiskShape
<1>16. OwedInv'
  <2>1. Fetched' = Fetched \cup Judged("fetch")
    BY <1>1, <1>2, <1>6, <1>8 DEF Fetched
  <2>2. owed = asked \cup Ahead(Tail(batches)) \cup later \cup Fetched
    BY <1>1, <1>2 DEF SchedulesInv, OwedInv
  <2>3. /\ (asked \cup Ahead(Tail(batches))) \cap later = {}
        /\ (asked \cup Ahead(Tail(batches)) \cup later) \cap Fetched = {}
    BY <1>1, <1>2 DEF SchedulesInv, OwedInv
  <2>4. owed' = Ahead(batches') \cup later' \cup Fetched'
    BY <1>2, <1>6, <1>7, <1>8, <1>14, <2>1, <2>2, <2>3
  <2>5. Ahead(batches') \cap later' = {} /\ (Ahead(batches') \cup later') \cap Fetched' = {}
    BY <1>2, <1>6, <1>7, <2>1, <2>3
  <2> QED BY <1>1, <1>2, <1>7, <2>4, <2>5 DEF OwedInv
<1>17. CleanInv'
  BY <1>1, <1>7, <1>14 DEF SchedulesInv, CleanInv, Clean, Undescribed
<1> QED BY <1>14, <1>15, <1>16, <1>17 DEF SchedulesInv

\* What a request's answer is taken for: what the service lists, or nothing of it.
LEMMA TakenKeeps ==
  ASSUME SchedulesInv, phase = "schedules", batches # <<>>, phase' = "programmes",
         NEW schedules, Heed(schedules), mishaps \subseteq mishaps',
         UNCHANGED <<service, disk, at, remapped, batches, later, waits, known, gone, lost>>,
         \A sd \in Head(batches) :
           schedules[sd] \in ScheduleOf(sd) \/ schedules[sd].code \in {"refused", "absent"}
  PROVE  SchedulesInv'
<1> USE DEF service, disk
<1> DEFINE asked == Head(batches)
<1>1. /\ Shape /\ None \notin Nat /\ None \notin Wires
      /\ batches \in Seq(SUBSET StationDays) /\ Apart(batches)
      /\ fetching \in [StationDays -> {None} \cup Wires]
  BY Given DEF SchedulesInv, Shape, PassShape, OwedInv
<1>2. /\ asked \subseteq StationDays /\ Tail(batches) \in Seq(SUBSET StationDays)
      /\ Apart(Tail(batches)) /\ asked \cup Ahead(Tail(batches)) \subseteq owed
      /\ owed \ (asked \cup Ahead(Tail(batches))) \subseteq leftOut
      /\ asked \cap Ahead(Tail(batches)) = {} /\ asked \subseteq Fetched /\ owed \subseteq Fetched
  BY <1>1, NextIs DEF SchedulesInv, OwedInv
<1> DEFINE listed == {sd \in asked : schedules[sd].code = "ok"}
           refused == {sd \in asked : schedules[sd].code \notin {"ok", "absent"}}
           Say(sd) == IF schedules[sd].code = "beyond" THEN Write(Empty, {}, None) ELSE Keep(None)
<1>3. PICK says : says = [sd \in refused |-> Say(sd)]
  OBVIOUS
<1>4. /\ Emit(says)
      /\ fetching' = [sd \in StationDays |-> IF sd \in refused THEN None ELSE fetching[sd]]
      /\ answer' = [sd \in StationDays |->
                      IF sd \in listed
                      THEN [md5 |-> schedules[sd].md5, tagged |-> schedules[sd].tagged] ELSE Silence]
      /\ queued' = UNION {Airs[sd] : sd \in listed} \ known
      /\ leftOut' = leftOut \cup {sd \in asked : schedules[sd].code = "absent"}
  BY <1>3 DEF Heed, TakeSchedules
<1>5. ASSUME NEW sd \in listed
      PROVE  /\ listing[sd] # Empty /\ answer'[sd].md5 = listing[sd]
             /\ answer'[sd] \in [md5 : Nat, tagged : BOOLEAN]
  <2>1. sd \in StationDays /\ schedules[sd] \in ScheduleOf(sd) /\ schedules[sd].code = "ok"
    BY <1>2
  <2>2. /\ listing[sd] # Empty
        /\ schedules[sd] \in [code : {"ok"}, md5 : {listing[sd]}, tagged : BOOLEAN]
    <3>1. schedules[sd] # [code |-> "queued"] /\ schedules[sd] # [code |-> "beyond"]
      BY <2>1
    <3> QED BY <2>1, <3>1 DEF ScheduleOf
  <2>3. answer'[sd] = [md5 |-> schedules[sd].md5, tagged |-> schedules[sd].tagged]
    BY <1>4, <2>1
  <2>4. listing[sd] \in Nat
    BY <1>1, <2>1, DayShape
  <2> QED BY <2>2, <2>3, <2>4
<1>6. ASSUME NEW sd \in refused, schedules[sd].code = "beyond" PROVE listing[sd] = Empty
  <2>1. schedules[sd] \in ScheduleOf(sd)
    BY <1>2, <1>6
  <2>2. /\ schedules[sd] # [code |-> "queued"]
        /\ schedules[sd] \notin [code : {"ok"}, md5 : {listing[sd]}, tagged : BOOLEAN]
    BY <1>6
  <2> QED BY <2>1, <2>2 DEF ScheduleOf
<1>7. Scope' = asked \ refused /\ listed \cap refused = {}
  BY <1>1, <1>2, <1>4 DEF Scope, Fetched
<1>8. \A sd \in StationDays : /\ Still(sd) /\ (Awaited(sd)' <=> sd \in asked \ refused)
                              /\ Awaited(sd)' /\ sd \notin leftOut' => sd \in listed
  <2>1. \A sd \in StationDays : Still(sd) /\ (Awaited(sd)' <=> sd \in asked \ refused)
    BY <1>4, <1>7 DEF Still, Awaited, Undescribed
  <2>2. \A sd \in asked \ refused : sd \notin leftOut' => sd \in listed
    BY <1>4
  <2> QED BY <2>1, <2>2
<1>9. \A sd \in StationDays : /\ fetching'[sd] = fetching[sd] \/ fetching'[sd] = None
                              /\ sd \notin refused => fetching'[sd] = fetching[sd]
  BY <1>4
<1>10. DOMAIN says = refused /\ refused \subseteq asked /\ refused \subseteq owed
  BY <1>2, <1>3
<1>11. ASSUME NEW sd \in refused
       PROVE  /\ DayInv(sd)' /\ kept'[sd] \in {None} \cup Nat /\ writes'[sd] \in {None} \cup Written
              /\ memory'.md5[sd] \in Md5Values /\ said'[sd] = 1
  <2>1. /\ sd \in StationDays /\ sd \in owed /\ DayInv(sd) /\ Heard(sd, says[sd]) /\ says[sd] = Say(sd)
        /\ fetching'[sd] = fetching[sd] \/ fetching'[sd] = None
        /\ Still(sd) /\ ~Awaited(sd)' /\ phase \notin {"idle", "over"}
    BY <1>1, <1>2, <1>3, <1>4, <1>8, <1>9, <1>10, EmitIs DEF SchedulesInv
  <2>2. CASE schedules[sd].code = "beyond"
    <3>1. Heard(sd, Write(Empty, {}, None)) /\ listing[sd] = 0
      BY <1>6, <2>1, <2>2 DEF Empty
    <3>2. OfIts(Empty, sd) /\ Since(None, Empty, sd) /\ None \in Md5Values /\ None # Incomplete
      BY <1>1, <3>1, Given DEF OfIts, Since, Empty, Md5Values
    <3>3. sd \notin leftOut' => Since(memory.md5[sd], Empty, sd) /\ Since(saved.md5[sd], Empty, sd)
      BY <1>4, <2>1, <3>1 DEF DayInv, DayRight, DayStored, Was, Since, Empty
    <3>4. Empty \in Nat /\ {} \in SUBSET Programmes
      BY DEF Empty
    <3> QED BY <1>1, <2>1, <3>1, <3>2, <3>3, <3>4, WritingKeeps
  <2>3. CASE schedules[sd].code # "beyond"
    <3>1. Heard(sd, Keep(None))
      BY <2>1, <2>3
    <3> QED BY <1>1, <2>1, <3>1, KeepingKeeps
  <2> QED BY <2>2, <2>3
<1>12. ASSUME NEW sd \in StationDays \ refused, Quiet(sd)
       PROVE  DayInv(sd)'
  <2>1. Awaited(sd)' /\ sd \notin leftOut' =>
                        /\ answer'[sd].md5 = listing[sd] /\ listing[sd] # Empty
                        /\ fetching'[sd] = fetching[sd] /\ fetching[sd] # None
    BY <1>2, <1>5, <1>8, <1>9 DEF Fetched
  <2> QED BY <1>1, <1>8, <1>9, <1>12, <2>1, QuietKeeps DEF SchedulesInv
<1> HIDE DEF refused, listed, Say
<1>13. /\ \A sd \in StationDays : DayInv(sd)'
       /\ HeardShape' /\ memory' \in Remembered /\ memory'.stamp = memory.stamp
       /\ owed' = owed \ refused
  BY <1>4, <1>10, <1>11, <1>12, SaidKeeps
<1> USE DEF refused, listed
<1>14. Shape'
  <2>1. fetching' \in [StationDays -> {None} \cup Wires]
    BY <1>1, <1>4
  <2>2. answer' \in [StationDays -> [md5 : Nat, tagged : BOOLEAN]]
    <3>1. Silence \in [md5 : Nat, tagged : BOOLEAN]
      BY DEF Silence, Empty
    <3>2. \A sd \in StationDays : answer'[sd] \in [md5 : Nat, tagged : BOOLEAN]
      BY <1>4, <1>5, <3>1
    <3> QED BY <1>4, <3>2
  <2>3. queued' \subseteq Programmes
    BY <1>2, <1>4, Given
  <2>4. PassShape'
    BY <1>1, <1>13, <2>1, <2>2, <2>3 DEF Shape, PassShape, Phases
  <2> QED BY <1>1, <1>13, <2>4 DEF Shape, ServiceShape, DiskShape
<1>15. OwedInv'
  <2>1. /\ Scope' \cup Ahead(Tail(batches)) \subseteq owed' /\ owed' \subseteq Fetched'
        /\ owed' \ (Scope' \cup Ahead(Tail(batches))) \subseteq leftOut'
    BY <1>1, <1>2, <1>4, <1>7, <1>9, <1>13 DEF Fetched
  <2> QED BY <1>1, <2>1 DEF OwedInv
<1>16. CleanInv'
  BY <1>13 DEF SchedulesInv, CleanInv, Clean, Undescribed
<1> QED BY <1>13, <1>14, <1>15, <1>16 DEF SchedulesInv

LEMMA AskSchedulesKeeps ==
  ASSUME SchedulesInv, AskSchedules
  PROVE  SchedulesInv'
<1>1. /\ phase = "schedules" /\ batches # <<>> /\ phase' = "programmes"
      /\ UNCHANGED <<service, disk, at, remapped, batches, later, waits, known, gone, lost>>
  BY DEF AskSchedules
<1>2. CASE /\ \E schedules \in Answers([sd \in Head(batches) |-> ScheduleOf(sd)]) : Heed(schedules)
           /\ UNCHANGED mishaps
  <2>1. PICK schedules \in Answers([sd \in Head(batches) |-> ScheduleOf(sd)]) : Heed(schedules)
    BY <1>2
  <2>2. \A sd \in Head(batches) : schedules[sd] \in ScheduleOf(sd)
    BY DEF Answers
  <2> QED BY <1>1, <1>2, <2>1, <2>2, TakenKeeps
<1>3. CASE /\ Goes("refused")
           /\ Heed([sd \in Head(batches) |-> [code |-> "refused"]])
  <2>1. PICK schedules : schedules = [sd \in Head(batches) |-> [code |-> "refused"]]
    OBVIOUS
  <2>2. \A sd \in Head(batches) : schedules[sd].code = "refused"
    BY <2>1
  <2>3. Heed(schedules) /\ mishaps \subseteq mishaps'
    BY <1>3, <2>1 DEF Goes
  <2> QED BY <1>1, <2>2, <2>3, TakenKeeps
<1>4. CASE /\ Goes("absent")
           /\ \E schedules \in Answers([sd \in Head(batches) |->
                                        ScheduleOf(sd) \cup {[code |-> "absent"]}]) : Heed(schedules)
  <2>1. PICK schedules \in Answers([sd \in Head(batches) |->
                                     ScheduleOf(sd) \cup {[code |-> "absent"]}]) : Heed(schedules)
    BY <1>4
  <2>2. \A sd \in Head(batches) : schedules[sd] \in ScheduleOf(sd) \/ schedules[sd].code = "absent"
    <3>1. \A sd \in Head(batches) : schedules[sd] \in ScheduleOf(sd) \cup {[code |-> "absent"]}
      BY DEF Answers
    <3> HIDE DEF ScheduleOf
    <3>2. [code |-> "absent"].code = "absent"
      OBVIOUS
    <3> QED BY <3>1, <3>2
  <2>3. mishaps \subseteq mishaps'
    BY <1>4 DEF Goes
  <2> QED BY <1>1, <2>1, <2>2, <2>3, TakenKeeps
<1> QED BY <1>1, <1>2, <1>3, <1>4 DEF AskSchedules

\* A day is written with what is known of its programmes, marked if one is to come.
LEMMA SayDaysKeeps ==
  ASSUME SchedulesInv, SayDays
  PROVE  SchedulesInv'
<1> USE DEF service, disk, amiss
<1>1. /\ Shape /\ None \notin Nat /\ None \notin Wires /\ phase = "programmes" /\ phase' = "schedules"
      /\ batches \in Seq(SUBSET StationDays) /\ batches # <<>> /\ Apart(batches)
      /\ Scope \cup Ahead(Tail(batches)) \subseteq owed /\ owed \subseteq Fetched
      /\ owed \ (Scope \cup Ahead(Tail(batches))) \subseteq leftOut
      /\ gone \subseteq Undescribed
  BY Given DEF SayDays, SchedulesInv, Shape, PassShape, OwedInv, CleanInv
<1>2. /\ Tail(batches) \in Seq(SUBSET StationDays) /\ Apart(Tail(batches))
      /\ Scope \subseteq StationDays /\ Scope \cap Ahead(Tail(batches)) = {}
      /\ Ahead(Tail(batches)) \subseteq StationDays /\ Answered \subseteq Scope
  BY <1>1, NextIs DEF Scope, Answered
<1>13. \A sd \in Scope \ Answered : sd \in leftOut
  <2> SUFFICES ASSUME NEW sd \in Scope, sd \notin leftOut PROVE sd \in Answered
    OBVIOUS
  <2>1. answer[sd].md5 # Empty
    BY <1>1, <1>2 DEF SchedulesInv, DayInv, DayRight, DayTrue, Awaited
  <2>2. sd \in Head(batches) /\ answer[sd] # Silence
    BY <2>1 DEF Scope, Silence
  <2> QED BY <2>2 DEF Answered
<1>3. PICK says : says = [sd \in Answered |-> Write(answer[sd].md5, Aired(sd) \cap known, Md5ToStore(sd))]
  OBVIOUS
<1>4. /\ Emit(says) /\ answer' = Unanswered /\ queued' = {} /\ batches' = Tail(batches)
      /\ UNCHANGED <<service, disk, at, remapped, later, waits, fetching, known, gone, mishaps, amiss>>
  BY <1>3 DEF SayDays
<1>5. \A sd \in StationDays : Still(sd) /\ ~Awaited(sd)'
  BY <1>1, <1>4 DEF Still, Awaited, Undescribed
<1>6. DOMAIN says = Answered /\ Answered \subseteq owed
  BY <1>1, <1>2, <1>3
<1>7. ASSUME NEW sd \in Answered
      PROVE  /\ DayInv(sd)' /\ kept'[sd] \in {None} \cup Nat /\ writes'[sd] \in {None} \cup Written
             /\ memory'.md5[sd] \in Md5Values /\ said'[sd] = 1
  <2> DEFINE md5 == answer[sd].md5
             has == Aired(sd) \cap known
  <2>1. /\ sd \in StationDays /\ sd \in owed /\ DayInv(sd) /\ Awaited(sd)
        /\ fetching'[sd] = fetching[sd] /\ Still(sd) /\ ~Awaited(sd)' /\ phase \notin {"idle", "over"}
    BY <1>1, <1>2, <1>4, <1>5, <1>6 DEF SchedulesInv, Awaited
  <2>2. Heard(sd, says[sd])
    BY <1>1, <1>4, <1>6, <2>1, EmitIs
  <2>3. Heard(sd, Write(md5, has, Md5ToStore(sd)))
    BY <1>3, <2>2
  <2>4. sd \notin leftOut =>
        /\ OfIts(md5, sd) /\ md5 # Empty /\ Was(md5, sd) /\ Since(memory.md5[sd], md5, sd)
        /\ Since(saved.md5[sd], md5, sd) /\ Since(fetching[sd].md5, md5, sd) /\ Was(fetching[sd].md5, sd)
    BY <2>1 DEF DayInv, DayRight, DayTrue, DayStored, Awaited, Scope, Fetched
  <2>5. md5 \in Nat /\ fetching[sd].md5 \in Nat \cup {None} /\ has \in SUBSET Programmes
    <3>1. fetching[sd] \in Wires /\ md5 \in Nat
      BY <1>1, <2>1, DayShape DEF Awaited, Scope, Fetched
    <3>2. known \subseteq Programmes
      BY <1>1 DEF Shape, PassShape
    <3> QED BY <3>1, <3>2 DEF Wires
  <2>6. sd \notin leftOut => Aired(sd) = Airs[sd]
    BY <2>4 DEF Aired, Silence
  <2>7. /\ Md5ToStore(sd) \in {md5, fetching[sd].md5, Incomplete}
        /\ sd \notin leftOut /\ Md5ToStore(sd) # Incomplete => Airs[sd] \subseteq known \cup gone
    BY <2>6 DEF Md5ToStore, Md5With
  <2>8. /\ Md5ToStore(sd) \in Md5Values
        /\ sd \notin leftOut => /\ Since(Md5ToStore(sd), md5, sd)
                                /\ Md5ToStore(sd) \in Nat => Md5ToStore(sd) <= listing[sd]
    BY <2>4, <2>5, <2>7, Given DEF Md5Values, Since, Was
  <2>9. sd \notin leftOut /\ Md5ToStore(sd) # Incomplete => Complete(sd, has)
    BY <1>1, <2>6, <2>7 DEF Complete
  <2> HIDE DEF md5, has
  <2>10. PICK remember : remember = Md5ToStore(sd)
    OBVIOUS
  <2>11. PICK new : new = md5
    OBVIOUS
  <2>13. leftOut' = leftOut
    BY <1>4
  <2>12. PICK holds : holds = has
    OBVIOUS
  <2>14. Heard(sd, Write(new, holds, remember)) /\ new \in Nat /\ holds \in SUBSET Programmes
         /\ remember \in Md5Values
    BY <2>3, <2>5, <2>8, <2>10, <2>11, <2>12
  <2>15. sd \notin leftOut' =>
           /\ OfIts(new, sd) /\ (remember \in Nat => remember <= listing[sd])
           /\ Since(memory.md5[sd], new, sd) /\ Since(saved.md5[sd], new, sd)
           /\ Since(remember, new, sd)
           /\ new # Empty /\ remember # Incomplete => Complete(sd, holds)
    <3> SUFFICES ASSUME sd \notin leftOut
                 PROVE  /\ OfIts(new, sd) /\ (remember \in Nat => remember <= listing[sd])
                        /\ Since(memory.md5[sd], new, sd) /\ Since(saved.md5[sd], new, sd)
                        /\ Since(remember, new, sd)
                        /\ new # Empty /\ remember # Incomplete => Complete(sd, holds)
      BY <2>13
    <3>1. OfIts(new, sd) /\ Since(memory.md5[sd], new, sd) /\ Since(saved.md5[sd], new, sd)
      BY <2>4, <2>11
    <3>2. (remember \in Nat => remember <= listing[sd]) /\ Since(remember, new, sd)
      BY <2>8, <2>10, <2>11
    <3>3. remember # Incomplete => Complete(sd, holds)
      BY <2>9, <2>10, <2>12
    <3> QED BY <3>1, <3>2, <3>3
  <2> HIDE DEF service, disk, amiss
  <2>16. /\ DayInv(sd)' /\ kept'[sd] = None /\ writes'[sd] \in Written
         /\ memory'.md5[sd] \in Md5Values /\ said'[sd] = 1
    BY <1>1, <2>1, <2>14, <2>15, WritingKeeps
  <2> QED BY <2>16
<1>8. ASSUME NEW sd \in StationDays \ Answered, Quiet(sd)
      PROVE  DayInv(sd)'
  BY <1>1, <1>4, <1>5, <1>8, QuietKeeps DEF SchedulesInv
<1>9. /\ \A sd \in StationDays : DayInv(sd)'
      /\ HeardShape' /\ memory' \in Remembered /\ memory'.stamp = memory.stamp
      /\ owed' = owed \ Answered
  BY <1>1, <1>4, <1>6, <1>7, <1>8, SaidKeeps
<1>10. Shape'
  <2>1. Unanswered \in [StationDays -> [md5 : Nat, tagged : BOOLEAN]]
    BY DEF Unanswered, Silence, Empty
  <2>2. PassShape'
    BY <1>1, <1>2, <1>4, <1>9, <2>1 DEF Shape, PassShape, Phases
  <2> QED BY <1>1, <1>4, <1>9, <2>2 DEF Shape, ServiceShape, DiskShape
<1>11. OwedInv'
  <2>1. /\ Ahead(Tail(batches)) \subseteq owed' /\ owed' \subseteq Fetched' /\ leftOut' = leftOut
        /\ owed' \ Ahead(Tail(batches)) \subseteq leftOut
    BY <1>1, <1>2, <1>4, <1>9, <1>13 DEF Fetched
  <2> QED BY <1>1, <1>2, <1>4, <2>1 DEF OwedInv
<1>12. CleanInv'
  BY <1>1, <1>4, <1>9 DEF SchedulesInv, CleanInv, Clean, Undescribed
<1> QED BY <1>9, <1>10, <1>11, <1>12 DEF SchedulesInv

-----------------------------------------------------------------------------
(* What holds of every state.                                                  *)

LEMMA NextKeeps ==
  ASSUME SchedulesInv, [Next]_vars
  PROVE  SchedulesInv'
<1>1. CASE Pass
  <2>1. CASE AskMd5s
    BY <2>1, AskMd5sKeeps
  <2>2. CASE AskAgain
    BY <2>2, AskAgainKeeps
  <2>3. CASE StartFetching
    BY <2>3, StartFetchingKeeps
  <2>4. CASE AskSchedules
    BY <2>4, AskSchedulesKeeps
  <2>5. CASE AskPrograms
    BY <2>5, AskProgramsKeeps
  <2>6. CASE SayDays
    BY <2>6, SayDaysKeeps
  <2>7. CASE EndPass
    BY <2>7, EndPassKeeps
  <2>8. CASE Finish
    BY <2>8, FinishKeeps
  <2>9. CASE \E sd \in StationDays : WriteLands(sd)
    BY <2>9, WriteLandsKeeps
  <2> QED BY <1>1, <2>1, <2>2, <2>3, <2>4, <2>5, <2>6, <2>7, <2>8, <2>9 DEF Pass
<1>2. CASE World
  <2>1. CASE \E sd \in StationDays : Publish(sd)
    BY <2>1, PublishKeeps
  <2>2. CASE \E sd \in StationDays : Regenerate(sd)
    BY <2>2, RegenerateKeeps
  <2>3. CASE \E sd \in StationDays : LoseEntry(sd)
    BY <2>3, LoseEntryKeeps
  <2>4. CASE \E sd \in StationDays : WriteFails(sd)
    BY <2>4, WriteFailsKeeps
  <2>5. CASE \E p \in Programmes : Describe(p)
    BY <2>5, DescribeKeeps
  <2>6. CASE Reconfigure
    BY <2>6, ReconfigureKeeps
  <2>7. CASE LoseState
    BY <2>7, LoseStateKeeps
  <2>8. CASE CallFails
    BY <2>8, CallFailsKeeps
  <2>9. CASE Cancel
    BY <2>9, CancelKeeps
  <2>10. CASE Stop
    BY <2>10, StopKeeps
  <2> QED BY <1>2, <2>1, <2>2, <2>3, <2>4, <2>5, <2>6, <2>7, <2>8, <2>9, <2>10 DEF World
<1>3. CASE \E S \in SUBSET StationDays : Begin(S)
  BY <1>3, BeginKeeps
<1>4. CASE UNCHANGED vars
  <2> USE <1>4 DEF vars, service, disk, pass, md5s, batch, heard, amiss
  <2>1. Shape'
    BY DEF SchedulesInv, Shape, ServiceShape, DiskShape, PassShape, HeardShape
  <2>2. OwedInv' /\ CleanInv'
    BY DEF SchedulesInv, OwedInv, CleanInv, Clean, Fetched, Scope, Undescribed
  <2>3. \A sd \in StationDays : DayInv(sd)'
    BY BooksKeep DEF Undescribed, Awaited, Scope, Fetched
  <2> QED BY <2>1, <2>2, <2>3 DEF SchedulesInv
<1> QED BY <1>1, <1>2, <1>3, <1>4 DEF Next

\* What a pass does and what it remembers is as the argument has it in every state.
THEOREM SchedulesInvHolds == Spec => []SchedulesInv
BY InitIs, NextKeeps, PTL DEF Spec

\* A station-day is said once in a pass, whatever requests the days were cut into,
\* refused or waited for; and a pass that ends without a failure said each it owed
\* but what an answer left out.
THEOREM EachIsSaid == Spec => []EachIsSaidOnce
<1>1. SchedulesInv => EachIsSaidOnce
  BY DEF SchedulesInv, Shape, HeardShape, OwedInv, EachIsSaidOnce
<1> QED BY <1>1, SchedulesInvHolds, PTL

\* A day kept is cached and is the listing whose md5 it is kept on; and, unless the
\* md5s were lost, an option changed or a run died, it lacks no programme still to
\* come.  Of days whose write was refused or dropped, or that an answer left out, it
\* says nothing.
THEOREM KeptMeansListed == Spec => []KeptIsListed
<1>1. SchedulesInv => KeptIsListed
  BY DEF SchedulesInv, DayInv, DayRight, DayKept, DayTrue, KeptIsListed, Clean, Complete, Undescribed
<1> QED BY <1>1, SchedulesInvHolds, PTL
=============================================================================
