-------------------------- MODULE GuideServerProofs --------------------------
(* The end of a served guide, the channels it keeps, and what a consumer that *)
(* is told nothing changed holds: for every list, channel and number of grabs; *)
(* and what is reported of the guides under way, for any of them and any slots. *)
EXTENDS MCGuideServer, FiniteSetTheorems, SequenceTheorems, TLAPS

LEMMA ListRange ==
  ASSUME NEW s \in Seq(Channels)
  PROVE  /\ Range(s) \subseteq Channels /\ DOMAIN s = 1..Len(s) /\ Len(s) \in Nat
         /\ \A i \in DOMAIN s : s[i] \in Range(s)
BY DEF Range

LEMMA StatesInSeq ==
  ASSUME NEW n \in Nat, NEW t, t = [i \in 1..n |-> t[i]], \A i \in 1..n : t[i] \in Nat
  PROVE  t \in Seq(Nat)
OBVIOUS

LEMMA NoRange == Range(<<>>) = {}
BY DEF Range

\* CloseIsFinal is inductive once the schedule is known to be one: a timer that
\* was set is cleared by close() itself, a decision that comes later is refused
\* one, and so no grab begins that stop() has not seen.
Scheduled == lineup \in Lineups /\ sched \in Schedule
CloseInv == Scheduled /\ CloseIsFinal

LEMMA CloseInit == Init => CloseInv
BY DEF Init, CloseInv, Scheduled, Schedule, CloseIsFinal, Running

(* What a step may do to the schedule.                                     *)
SetTo(st) == sched' = [sched EXCEPT !.st = st]

LEMMA SetToType ==
  ASSUME sched \in Schedule, NEW st, SetTo(st),
         st \in {"asking", "counting", "timer", "importing", "grabbing", "none"}
  PROVE  sched' \in Schedule /\ sched'.st = st
BY DEF Schedule, SetTo

LEMMA OverEnds ==
  ASSUME Over
  PROVE  /\ sched' \in Schedule
         /\ sched'.st \in {"asking", "none"}
BY DEF Over, Schedule

\* Every step leaves the schedule and close() alone but these.
LEMMA CloseNext == CloseInv /\ [Next]_vars => CloseInv'
<1> SUFFICES ASSUME CloseInv, [Next]_vars PROVE CloseInv'
  OBVIOUS
<1> USE DEF CloseInv, Scheduled, CloseIsFinal, Running
<1>1. CASE UNCHANGED vars
  BY <1>1 DEF vars, source, look, grab
<1>2. CASE Resolve \/ (\E c \in Channels : Sweep(c)) \/ RevalidateDue \/ ListsAge \/ Reload
             \/ Poll \/ Probe \/ (\E c \in Channels : ReadInto(c)) \/ GuideSent \/ HalfSent
  BY <1>2 DEF Resolve, Sweep, RevalidateDue, ListsAge, Reload, Poll, Probe, ReadInto, GuideSent,
              HalfSent, source, look, grab
<1>3. CASE Swept
  <2>1. UNCHANGED <<lineup, stop>> /\ (UNCHANGED sched \/ SetTo("asking"))
    BY <1>3 DEF Swept, SetTo, source
  <2> QED BY <2>1, SetToType
<1>4. CASE SweepFails
  <2>1. UNCHANGED <<lineup, stop>> /\ (UNCHANGED sched \/ SetTo("none"))
    BY <1>4 DEF SweepFails, SetTo, source
  <2> QED BY <2>1, SetToType
<1>5. CASE ListChanges
  BY <1>5 DEF ListChanges, look, grab
<1>6. CASE AskCached
  <2>1. UNCHANGED <<lineup, stop>> /\ SetTo("counting")
    BY <1>6 DEF AskCached, SetTo, source
  <2> QED BY <2>1, SetToType
<1>7. CASE Decide
  <2>1. UNCHANGED <<lineup, stop>> /\ ((stop = "no" /\ SetTo("timer")) \/ SetTo("none"))
    BY <1>7 DEF Decide, StillOpen, SetTo, source, look
  <2> QED BY <2>1, SetToType
\* The one step to a grab under way starts from a timer, which a server that is
\* stopping has none of.
<1>8. CASE TimerFires
  <2>1. UNCHANGED <<lineup, stop>> /\ SetTo("importing") /\ sched.st = "timer"
    BY <1>8 DEF TimerFires, SetTo, source, look
  <2> QED BY <2>1, SetToType
<1>9. CASE Imported
  <2>1. UNCHANGED <<lineup, stop>>
    BY <1>9 DEF Imported, source
  <2>2. CASE StillOpen
    <3>1. sched' = [st |-> "grabbing", left |-> Range(lineup)] /\ stop = "no"
      BY <1>9, <2>2 DEF Imported, StillOpen
    <3>2. Range(lineup) \subseteq Channels
      BY ServerAssumption, ListRange
    <3> QED BY <2>1, <3>1, <3>2 DEF Schedule
  <2>3. CASE ~StillOpen
    BY <1>9, <2>1, <2>3, OverEnds DEF Imported
  <2> QED BY <2>2, <2>3
<1>10. CASE \E c \in Channels : GrabWrites(c)
  <2> PICK c \in Channels : GrabWrites(c)
    BY <1>10
  <2>1. UNCHANGED <<lineup, stop>> /\ sched' = [sched EXCEPT !.left = @ \ {c}]
    BY DEF GrabWrites, source, look
  <2>2. sched' \in Schedule /\ sched'.st = sched.st
    BY <2>1 DEF Schedule
  <2> QED BY <2>1, <2>2
<1>11. CASE GrabEnds
  <2>1. UNCHANGED <<lineup, stop>>
    BY <1>11 DEF GrabEnds, source
  <2> QED BY <1>11, <2>1, OverEnds DEF GrabEnds
<1>12. CASE Close
  <2>1. UNCHANGED lineup /\ stop' = "stopping"
    BY <1>12 DEF Close, source
  <2>2. (sched.st = "timer" /\ SetTo("none")) \/ (sched.st # "timer" /\ UNCHANGED sched)
    BY <1>12 DEF Close, SetTo
  <2> QED BY <2>1, <2>2, SetToType
<1>13. CASE CacheCloses
  BY <1>13 DEF CacheCloses, Unwound, source, look, grab
<1> QED BY <1>1, <1>2, <1>3, <1>4, <1>5, <1>6, <1>7, <1>8, <1>9, <1>10, <1>11, <1>12, <1>13
        DEF Next

\* However close() meets the schedule, deciding, importing or grabbing, the
\* cache is not closed under a grab and nothing is planned afterwards
\* (createGuideHandler's close and stop, planNext and grabNow).
THEOREM ServerCloseIsFinal == Spec => []CloseIsFinal
<1>1. Init => CloseInv
  BY CloseInit
<1>2. CloseInv /\ [Next]_vars => CloseInv'
  BY CloseNext
<1>3. CloseInv => CloseIsFinal
  BY DEF CloseInv
<1> QED BY <1>1, <1>2, <1>3, PTL DEF Spec

-----------------------------------------------------------------------------
(* Channels the source never drops.                                        *)
Kept == {c \in Channels : \A cs \in Lineups : c \in Range(cs)}
Held(c) == snapshot # None /\ c \in Range(snapshot.sites)

\* A look is a record, whatever is in it.
Look(f) == f = [st |-> f.st, resolving |-> f.resolving, stale |-> f.stale, again |-> f.again,
                sites |-> f.sites, got |-> f.got]

\* A channel gets into a look, and so into the guide, from a list that resolved
\* or from the guide before; a list that fails is the one it had, which has the
\* channel since there is one by then.
InLast(c) == last # None => c \in Range(last)
ByList(c) == Held(c) => last # None
InLook(c) == flight.st = "sweep" /\ Held(c) => c \in Range(flight.sites)
LookByList(c) == flight.st = "sweep" /\ c \in Range(flight.sites) => last # None
StaysFor(c) == InLast(c) /\ ByList(c) /\ InLook(c) /\ LookByList(c)
Stays == \A c \in Kept : StaysFor(c)
StayInv == lineup \in Lineups /\ Look(flight) /\ Stays
NotLost == \A c \in Kept : Held(c) => c \in Range(snapshot'.sites)

LEMMA StayInit == Init => StayInv
BY DEF Init, StayInv, Stays, StaysFor, Look, Landed, InLast, ByList, InLook, LookByList, Held

LEMMA StaySame ==
  ASSUME StayInv, lineup' \in Lineups, UNCHANGED <<last, snapshot, flight>>
  PROVE  StayInv' /\ NotLost
BY DEF StayInv, Stays, StaysFor, Look, InLast, ByList, InLook, LookByList, Held, Kept, NotLost

\* A look that begins has the lists to resolve, or is over the guide's own.
LEMMA StayStart ==
  ASSUME StayInv, NEW resolving, StartOrJoin(resolving), lineup' = lineup, UNCHANGED <<last, snapshot>>
  PROVE  StayInv' /\ NotLost
<1>1. CASE UNCHANGED flight
  BY <1>1, StaySame DEF StayInv
<1>2. CASE Start(resolving) /\ Stale(resolving)
  <2>1. Look(flight') /\ flight'.st = "lists"
    BY <1>2 DEF Start, Landed, Look
  <2> QED BY <2>1 DEF StayInv, Stays, StaysFor, Look, InLast, ByList, InLook, LookByList, Held,
                      Kept, NotLost
<1>3. CASE Start(resolving) /\ ~Stale(resolving)
  <2>1. Look(flight') /\ flight'.st = "sweep" /\ flight'.sites = snapshot.sites /\ snapshot # None
    BY <1>3 DEF Start, Landed, Look, Stale
  <2> QED BY <2>1 DEF StayInv, Stays, StaysFor, Look, InLast, ByList, InLook, LookByList, Held,
                      Kept, NotLost
<1> QED BY <1>1, <1>2, <1>3 DEF StartOrJoin

LEMMA StayResolve == StayInv /\ Resolve => StayInv' /\ NotLost
<1> SUFFICES ASSUME StayInv, Resolve PROVE StayInv' /\ NotLost
  OBVIOUS
<1> USE DEF StayInv, Stays, StaysFor, InLast, ByList, InLook, LookByList, Held, Kept, NotLost
<1>1. UNCHANGED <<lineup, snapshot>>
  BY DEF Resolve, source
<1>2. Look(flight') /\ flight'.st = "sweep"
  BY DEF Resolve, Look
<1>3. CASE flight'.sites = lineup /\ last' = lineup
  BY <1>1, <1>2, <1>3, ServerAssumption
<1>4. CASE flight'.sites = HeldOver /\ UNCHANGED last
  BY <1>1, <1>2, <1>4, NoRange DEF HeldOver
<1>5. \/ flight'.sites = lineup /\ last' = lineup
      \/ flight'.sites = HeldOver /\ UNCHANGED last
  BY DEF Resolve, Look
<1> QED BY <1>3, <1>4, <1>5

LEMMA StaySwept == StayInv /\ Swept => StayInv' /\ NotLost
<1> SUFFICES ASSUME StayInv, Swept PROVE StayInv' /\ NotLost
  OBVIOUS
<1> USE DEF StayInv, Stays, StaysFor, InLast, ByList, InLook, LookByList, Held, Kept, NotLost
<1>1. UNCHANGED <<lineup, last>> /\ flight.st = "sweep"
  BY DEF Swept, source
<1>2. CASE ChangedSince
  <2>1. Look(flight') /\ flight'.st = "lists" /\ UNCHANGED snapshot
    BY <1>2 DEF Swept, Look
  <2> QED BY <1>1, <2>1
<1>3. CASE ~ChangedSince
  <2>1. Look(flight') /\ flight'.st = "none" /\ snapshot'.sites = flight.sites
    BY <1>3 DEF Swept, Look, Landed
  <2> QED BY <1>1, <2>1
<1> QED BY <1>2, <1>3

LEMMA StayNext == StayInv /\ [Next]_vars => StayInv' /\ NotLost
<1> SUFFICES ASSUME StayInv, [Next]_vars PROVE StayInv' /\ NotLost
  OBVIOUS
<1>1. CASE \/ UNCHANGED vars \/ RevalidateDue \/ ListsAge \/ Reload
           \/ (\E c \in Channels : ReadInto(c)) \/ GuideSent \/ HalfSent \/ Decide \/ TimerFires
           \/ Imported \/ (\E c \in Channels : GrabWrites(c)) \/ GrabEnds \/ Close \/ CacheCloses
  <2>1. UNCHANGED <<lineup, last, snapshot, flight>>
    BY <1>1 DEF vars, source, look, RevalidateDue, ListsAge, Reload, ReadInto, GuideSent, HalfSent,
                Decide, TimerFires, Imported, GrabWrites, GrabEnds, Close, CacheCloses
  <2> QED BY <2>1, StaySame DEF StayInv
<1>2. CASE ListChanges
  <2>1. lineup' \in Lineups /\ UNCHANGED <<last, snapshot, flight>>
    BY <1>2 DEF ListChanges, look
  <2> QED BY <2>1, StaySame
<1>3. CASE Poll \/ Probe \/ AskCached
  <2>1. UNCHANGED <<lineup, last, snapshot>>
    BY <1>3 DEF Poll, Probe, AskCached, source
  <2>2. (\E resolving : StartOrJoin(resolving)) \/ UNCHANGED flight
    BY <1>3 DEF Poll, Probe, AskCached, StartOrJoin
  <2> QED BY <2>1, <2>2, StayStart, StaySame DEF StayInv
<1>4. CASE Resolve
  BY <1>4, StayResolve
<1>5. CASE \E c \in Channels : Sweep(c)
  <2>1. UNCHANGED <<lineup, last, snapshot>> /\ flight.st = "sweep"
    BY <1>5 DEF Sweep, source
  <2>2. Look(flight) => Look(flight') /\ flight'.st = flight.st /\ flight'.sites = flight.sites
    BY <1>5 DEF Sweep, Look
  <2> QED BY <2>1, <2>2 DEF StayInv, Stays, StaysFor, InLast, ByList, InLook, LookByList, Held,
                            Kept, NotLost
<1>6. CASE Swept
  BY <1>6, StaySwept
<1>7. CASE SweepFails
  <2>1. UNCHANGED <<lineup, last, snapshot>> /\ Look(flight') /\ flight'.st = "none"
    BY <1>7 DEF SweepFails, Landed, Look, source
  <2> QED BY <2>1 DEF StayInv, Stays, StaysFor, InLast, ByList, InLook, LookByList, Held,
                      Kept, NotLost
<1> QED BY <1>1, <1>2, <1>3, <1>4, <1>5, <1>6, <1>7 DEF Next

\* A channel the source never drops is never out of the guide again once it is
\* in, whichever lists fail and whatever looks overlap the grab and a reload
\* (createGuideHandler's lists, current and metasOf).
THEOREM ServerKeepsChannels == Spec => ChannelsStay
<1>1. StayInv /\ [Next]_vars =>
        [\A c \in Channels :
           ((\A cs \in Lineups : c \in Range(cs)) /\ snapshot # None /\ c \in Range(snapshot.sites))
             => c \in Range(snapshot'.sites)]_vars
  BY StayNext DEF NotLost, Kept, Held
<1>2. StayInv /\ [Next]_vars => StayInv'
  BY StayNext
<1> QED BY StayInit, <1>1, <1>2, PTL DEF Spec, ChannelsStay

-----------------------------------------------------------------------------
(* What a consumer that is told nothing changed holds.                     *)

\* What was counted of some channels, none of it newer than the cache by now.
Counted(print, cs, cache) == print \in [cs -> Nat] /\ \A c \in cs : print[c] <= cache[c]
Snap(s, cache) ==
  /\ s = [sites |-> s.sites, print |-> s.print, tag |-> Tag(s.sites, s.print)]
  /\ s.sites \in Seq(Channels) /\ Counted(s.print, Range(s.sites), cache)
Reader(c) == c = [st |-> c.st, tag |-> c.tag, list |-> c.list, body |-> c.body, next |-> c.next,
                  got |-> c.got]
\* A guide of a list and a tag has in every place what is as new as the tag says,
\* or newer.
OfTag(list, guide, tag) ==
  /\ list \in Seq(Channels) /\ tag \in [DOMAIN list -> Nat] /\ guide \in [Range(list) -> Nat]
  /\ \A i \in DOMAIN list : tag[i] <= guide[list[i]]
\* What is read of a guide so far is as new as its snapshot, or newer.
SoFar(got, s) ==
  /\ DOMAIN got \subseteq Range(s.sites) /\ got \in [DOMAIN got -> Nat]
  /\ \A c \in DOMAIN got : s.print[c] <= got[c]

EntryOK == entry \in [Channels -> Nat] /\ runs \in Nat /\ \A d \in Channels : entry[d] <= runs + 2
ListOK == lineup \in Lineups /\ last \in Lineups \cup {None}
LookOK == /\ Look(flight) /\ flight.sites \in Seq(Channels)
          /\ DOMAIN flight.got \subseteq Range(flight.sites)
          /\ Counted(flight.got, DOMAIN flight.got, entry)
SnapOK == snapshot # None => Snap(snapshot, entry)
ReaderOK == /\ Reader(consumer)
            /\ IF consumer.st = "reading"
                 THEN Snap(consumer.next, entry) /\ SoFar(consumer.got, consumer.next)
                 ELSE consumer.got = Nothing
            /\ consumer.tag # None => OfTag(consumer.list, consumer.body, consumer.tag)
\* A grab only ever writes what is newer than all there is, and a guide is sent
\* after its snapshot was counted: the guide is as new as its tag, or newer.
TagInv == EntryOK /\ ListOK /\ LookOK /\ SnapOK /\ ReaderOK

LEMMA TagInit == Init => TagInv
<1> SUFFICES ASSUME Init PROVE TagInv
  OBVIOUS
<1>1. EntryOK /\ ListOK
  <2>1. \A c \in Channels : entry[c] <= 2 /\ entry[c] \in Nat
    BY DEF Init
  <2> QED BY <2>1 DEF Init, EntryOK, ListOK
<1>2. LookOK
  BY NoRange DEF Init, LookOK, Look, Landed, Nothing, Counted
<1>3. SnapOK /\ ReaderOK
  BY DEF Init, Idle, SnapOK, ReaderOK, Reader
<1> QED BY <1>1, <1>2, <1>3 DEF TagInv

LEMMA CountedStill ==
  ASSUME NEW e \in [Channels -> Nat], NEW f \in [Channels -> Nat], \A c \in Channels : e[c] <= f[c],
         NEW cs \in SUBSET Channels, NEW print, Counted(print, cs, e)
  PROVE  Counted(print, cs, f)
<1> SUFFICES ASSUME NEW c \in cs PROVE print[c] <= f[c]
  BY DEF Counted
<1>1. print[c] \in Nat /\ e[c] \in Nat /\ f[c] \in Nat /\ print[c] <= e[c] /\ e[c] <= f[c]
  BY DEF Counted
<1> QED BY <1>1

\* A step that leaves all but the cache alone keeps the rest as the cache grows.
LEMMA TagGrown ==
  ASSUME TagInv, EntryOK', ListOK', UNCHANGED <<flight, snapshot, consumer>>,
         \A c \in Channels : entry[c] <= entry'[c]
  PROVE  TagInv'
<1> USE DEF TagInv
<1>1. entry \in [Channels -> Nat] /\ entry' \in [Channels -> Nat]
  BY DEF EntryOK
<1>2. LookOK'
  <2>1. DOMAIN flight.got \in SUBSET Channels
    BY ListRange DEF LookOK
  <2> QED BY <1>1, <2>1, CountedStill DEF LookOK
<1>3. ASSUME NEW s, Snap(s, entry) PROVE Snap(s, entry')
  <2>1. Range(s.sites) \in SUBSET Channels /\ Counted(s.print, Range(s.sites), entry)
    BY <1>3, ListRange DEF Snap
  <2>2. Counted(s.print, Range(s.sites), entry')
    BY <1>1, <2>1, CountedStill
  <2> QED BY <1>3, <2>2 DEF Snap
<1>4. SnapOK' /\ ReaderOK'
  BY <1>3 DEF SnapOK, ReaderOK
<1> QED BY <1>2, <1>4

LEMMA TagSame ==
  ASSUME TagInv, UNCHANGED <<entry, lineup, last, flight, snapshot, consumer>>, runs' \in Nat, runs <= runs'
  PROVE  TagInv'
<1>1. EntryOK'
  <2> SUFFICES ASSUME NEW c \in Channels PROVE entry'[c] <= runs' + 2
    BY DEF TagInv, EntryOK
  <2>1. entry[c] \in Nat /\ entry[c] <= runs + 2 /\ entry'[c] = entry[c] /\ runs \in Nat
    BY DEF TagInv, EntryOK
  <2> QED BY <2>1
<1> QED BY <1>1 DEF TagInv, ListOK, LookOK, SnapOK, ReaderOK

\* A consumer told of a snapshot has it yet to read, if it is another's.
LEMMA TagTold ==
  ASSUME ReaderOK, consumer.st # "reading", NEW s, Snap(s, entry), consumer' = Told(s), UNCHANGED entry
  PROVE  ReaderOK'
<1>0. Reader(consumer) /\ consumer.got = Nothing
  BY DEF ReaderOK
<1>1. CASE consumer.tag = s.tag
  <2>1. consumer' = [consumer EXCEPT !.st = "idle"]
    BY <1>1 DEF Told
  <2>2. /\ Reader(consumer') /\ consumer'.st = "idle" /\ consumer'.tag = consumer.tag
        /\ consumer'.body = consumer.body /\ consumer'.list = consumer.list /\ consumer'.got = Nothing
    BY <1>0, <2>1 DEF Reader
  <2> QED BY <2>2 DEF ReaderOK
<1>2. CASE consumer.tag # s.tag
  <2>1. consumer' = [consumer EXCEPT !.st = "reading", !.next = s]
    BY <1>2 DEF Told
  <2>2. /\ Reader(consumer') /\ consumer'.tag = consumer.tag /\ consumer'.body = consumer.body
        /\ consumer'.list = consumer.list /\ consumer'.next = s /\ consumer'.got = Nothing
    BY <1>0, <2>1 DEF Reader
  <2>3. SoFar(Nothing, s)
    BY DEF SoFar, Nothing
  <2> QED BY <2>2, <2>3 DEF ReaderOK
<1> QED BY <1>1, <1>2

\* One that goes back to idle, or to wait, reads nothing and holds what it held.
LEMMA TagIdle ==
  ASSUME ReaderOK, NEW c, c \in {[consumer EXCEPT !.st = "idle"], [consumer EXCEPT !.st = "waiting"]},
         \/ consumer' = Cut
         \/ consumer.st # "reading" /\ consumer' = c
  PROVE  ReaderOK'
<1>0. Reader(consumer)
  BY DEF ReaderOK
<1>1. /\ Reader(consumer') /\ consumer'.st # "reading" /\ consumer'.tag = consumer.tag
      /\ consumer'.body = consumer.body /\ consumer'.list = consumer.list /\ consumer'.got = Nothing
  <2>1. CASE consumer' = Cut
    BY <1>0, <2>1 DEF Cut, Reader
  <2>2. CASE consumer.st # "reading" /\ consumer' = c
    BY <1>0, <2>2 DEF Reader, ReaderOK
  <2> QED BY <2>1, <2>2
<1> QED BY <1>1 DEF ReaderOK

LEMMA TagStart ==
  ASSUME LookOK, SnapOK, NEW resolving, StartOrJoin(resolving), UNCHANGED entry
  PROVE  LookOK'
<1>1. CASE UNCHANGED flight
  BY <1>1 DEF LookOK
<1>2. CASE Start(resolving)
  <2>1. Look(flight') /\ flight'.got = Nothing
    BY <1>2 DEF Start, Landed, Look
  <2>2. flight'.sites = <<>> \/ (snapshot # None /\ flight'.sites = snapshot.sites)
    BY <1>2 DEF Start, Landed, Stale
  <2>3. flight'.sites \in Seq(Channels)
    <3>1. <<>> \in Seq(Channels)
      OBVIOUS
    <3> QED BY <2>2, <3>1 DEF SnapOK, Snap
  <2> QED BY <2>1, <2>3 DEF LookOK, Nothing, Counted
<1> QED BY <1>1, <1>2 DEF StartOrJoin

LEMMA TagResolve == TagInv /\ Resolve => TagInv'
<1> SUFFICES ASSUME TagInv, Resolve PROVE TagInv'
  OBVIOUS
<1>1. UNCHANGED <<entry, runs, lineup, snapshot, consumer>>
  BY DEF Resolve, source, grab
<1>2. Look(flight') /\ flight'.got = Nothing
  BY DEF Resolve, Look, TagInv, LookOK
<1>3. \/ flight'.sites = lineup /\ last' = lineup
      \/ flight'.sites = HeldOver /\ UNCHANGED last
  BY DEF Resolve, Look, TagInv, LookOK
<1>4. lineup \in Seq(Channels) /\ (last # None => last \in Seq(Channels))
  BY ServerAssumption DEF TagInv, ListOK
<1>5. flight'.sites \in Seq(Channels) /\ last' \in Lineups \cup {None}
  <2>1. <<>> \in Seq(Channels) /\ lineup \in Lineups /\ last \in Lineups \cup {None}
    BY DEF TagInv, ListOK
  <2> QED BY <1>3, <1>4, <2>1 DEF HeldOver
<1>6. LookOK'
  BY <1>2, <1>5 DEF LookOK, Nothing, Counted
<1> QED BY <1>1, <1>5, <1>6 DEF TagInv, EntryOK, ListOK, SnapOK, ReaderOK

\* What is asked of the cache is what it has now.
LEMMA TagSweep == TagInv /\ (\E c \in Channels : Sweep(c)) => TagInv'
<1> SUFFICES ASSUME TagInv, NEW c \in Channels, Sweep(c) PROVE TagInv'
  OBVIOUS
<1>1. UNCHANGED <<entry, runs, lineup, last, snapshot, consumer>>
  BY DEF Sweep, source, grab
<1> DEFINE counted == With(flight.got, c)
<1>2. flight' = [flight EXCEPT !.got = counted] /\ c \in Range(flight.sites)
  BY DEF Sweep
<1>3. Look(flight') /\ flight'.sites = flight.sites /\ flight'.got = counted
  <2> HIDE DEF counted
  <2> QED BY <1>2 DEF TagInv, LookOK, Look
<1>4. DOMAIN counted = DOMAIN flight.got \cup {c} /\ Counted(counted, DOMAIN counted, entry)
  <2>1. \A d \in DOMAIN flight.got : flight.got[d] \in Nat /\ flight.got[d] <= entry[d]
    BY DEF TagInv, LookOK, Counted
  <2>2. entry[c] \in Nat /\ entry[c] <= entry[c]
    BY DEF TagInv, EntryOK
  <2> QED BY <2>1, <2>2 DEF Counted, With
<1>5. LookOK'
  <2> HIDE DEF counted
  <2> QED BY <1>1, <1>2, <1>3, <1>4 DEF TagInv, LookOK
<1> QED BY <1>1, <1>5 DEF TagInv, EntryOK, ListOK, SnapOK, ReaderOK

LEMMA TagSwept == TagInv /\ Swept => TagInv'
<1> SUFFICES ASSUME TagInv, Swept PROVE TagInv'
  OBVIOUS
<1>1. UNCHANGED <<entry, runs, lineup, last>> /\ DOMAIN flight.got = Range(flight.sites)
  BY DEF Swept, source
<1>2. CASE ChangedSince
  <2>1. UNCHANGED <<snapshot, consumer>>
    BY <1>2 DEF Swept
  <2>2. Look(flight') /\ flight'.sites = flight.sites /\ flight'.got = flight.got
    BY <1>2 DEF Swept, TagInv, LookOK, Look
  <2> QED BY <1>1, <2>1, <2>2 DEF TagInv, EntryOK, ListOK, LookOK, SnapOK, ReaderOK
<1>3. CASE ~ChangedSince
  <2> DEFINE s == [sites |-> flight.sites, print |-> flight.got,
                  tag |-> Tag(flight.sites, flight.got)]
  <2>1. /\ snapshot' = s /\ flight' = Landed
        /\ consumer' = IF consumer.st = "waiting" THEN Told(s) ELSE consumer
    BY <1>3 DEF Swept
  <2>2. Snap(s, entry)
    BY <1>1 DEF TagInv, LookOK, Snap
  <2>3. LookOK'
    BY <2>1 DEF Landed, LookOK, Look, Nothing, Counted
  <2>4. SnapOK'
    BY <1>1, <2>1, <2>2 DEF SnapOK
  <2>5. ReaderOK'
    <3> HIDE DEF s
    <3>1. CASE consumer.st = "waiting"
      BY <3>1, <1>1, <2>1, <2>2, TagTold DEF TagInv
    <3>2. CASE consumer.st # "waiting"
      BY <3>2, <1>1, <2>1 DEF TagInv, ReaderOK
    <3> QED BY <3>1, <3>2
  <2> QED BY <1>1, <2>3, <2>4, <2>5 DEF TagInv, EntryOK, ListOK
<1> QED BY <1>2, <1>3

LEMMA TagSweepFails == TagInv /\ SweepFails => TagInv'
<1> SUFFICES ASSUME TagInv, SweepFails PROVE TagInv'
  OBVIOUS
<1>1. UNCHANGED <<entry, runs, lineup, last, snapshot>> /\ flight' = Landed
  BY DEF SweepFails, source
<1>2. LookOK'
  BY <1>1 DEF Landed, LookOK, Look, Nothing, Counted
<1>3. ReaderOK'
  <2>1. CASE consumer.st = "waiting"
    <3>1. consumer' = [consumer EXCEPT !.st = "idle"]
      BY <2>1 DEF SweepFails
    <3> QED BY <2>1, <3>1, TagIdle DEF TagInv
  <2>2. CASE consumer.st # "waiting"
    BY <2>2, <1>1 DEF SweepFails, TagInv, ReaderOK
  <2> QED BY <2>1, <2>2
<1> QED BY <1>1, <1>2, <1>3 DEF TagInv, EntryOK, ListOK, SnapOK

LEMMA TagPoll == TagInv /\ Poll => TagInv'
<1> SUFFICES ASSUME TagInv, Poll PROVE TagInv'
  OBVIOUS
<1>1. UNCHANGED <<entry, runs, lineup, last, snapshot>>
  BY DEF Poll, source, grab
<1>2. CASE Current /\ consumer' = Told(snapshot) /\ UNCHANGED flight
  <2>1. ReaderOK'
    <3>1. Snap(snapshot, entry) /\ consumer.st = "idle"
      BY <1>2 DEF Poll, TagInv, SnapOK, Current
    <3> QED BY <1>1, <1>2, <3>1, TagTold DEF TagInv
  <2> QED BY <1>1, <1>2, <2>1 DEF TagInv, EntryOK, ListOK, LookOK, SnapOK
<1>3. CASE StartOrJoin(TRUE) /\ consumer' = [consumer EXCEPT !.st = "waiting"]
  <2>1. LookOK'
    BY <1>1, <1>3, TagStart DEF TagInv
  <2>2. consumer.st = "idle"
    BY DEF Poll
  <2>3. ReaderOK'
    BY <1>3, <2>2, TagIdle DEF TagInv
  <2> QED BY <1>1, <2>1, <2>3 DEF TagInv, EntryOK, ListOK, SnapOK
<1> QED BY <1>2, <1>3 DEF Poll

\* What is read into a guide is what the cache has by then.
LEMMA TagReads == TagInv /\ (\E c \in Channels : ReadInto(c)) => TagInv'
<1> SUFFICES ASSUME TagInv, NEW c \in Channels, ReadInto(c) PROVE TagInv'
  OBVIOUS
<1>1. UNCHANGED <<entry, runs, lineup, last, flight, snapshot>>
  BY DEF ReadInto, source, look, grab
<1> DEFINE read == With(consumer.got, c)
           next == consumer.next
<1>2. /\ consumer' = [consumer EXCEPT !.got = read] /\ consumer.st = "reading"
      /\ c \in Range(next.sites)
  BY DEF ReadInto
<1>3. Reader(consumer) /\ Snap(next, entry) /\ SoFar(consumer.got, next)
  BY <1>2 DEF TagInv, ReaderOK
<1>4. SoFar(read, next)
  <2>1. \A d \in DOMAIN consumer.got : consumer.got[d] \in Nat /\ next.print[d] <= consumer.got[d]
    BY <1>3 DEF SoFar
  <2>2. entry[c] \in Nat /\ next.print[c] <= entry[c]
    BY <1>2, <1>3 DEF Snap, Counted, TagInv, EntryOK
  <2>3. DOMAIN consumer.got \cup {c} \subseteq Range(next.sites)
    BY <1>2, <1>3 DEF SoFar
  <2> HIDE DEF next
  <2> QED BY <2>1, <2>2, <2>3 DEF SoFar, With
<1>5. /\ Reader(consumer') /\ consumer'.st = "reading" /\ consumer'.next = next /\ consumer'.got = read
      /\ consumer'.tag = consumer.tag /\ consumer'.list = consumer.list /\ consumer'.body = consumer.body
  <2> HIDE DEF read
  <2> QED BY <1>2, <1>3 DEF Reader
<1>6. ReaderOK'
  <2> HIDE DEF read, next
  <2> QED BY <1>1, <1>3, <1>4, <1>5 DEF TagInv, ReaderOK
<1> QED BY <1>1, <1>6 DEF TagInv, EntryOK, ListOK, LookOK, SnapOK

\* The guide that is sent is of what was read.
LEMMA TagSent == TagInv /\ GuideSent => TagInv'
<1> SUFFICES ASSUME TagInv, GuideSent PROVE TagInv'
  OBVIOUS
<1>1. UNCHANGED <<entry, runs, lineup, last, flight, snapshot>>
  BY DEF GuideSent, source, look, grab
<1> DEFINE next == consumer.next
<1>2. /\ Reader(consumer') /\ consumer'.st = "idle" /\ consumer'.got = Nothing
      /\ consumer'.tag = next.tag /\ consumer'.list = next.sites /\ consumer'.body = consumer.got
  BY DEF GuideSent, Idle, Reader
<1>3. Snap(next, entry) /\ SoFar(consumer.got, next) /\ DOMAIN consumer.got = Range(next.sites)
  BY DEF GuideSent, TagInv, ReaderOK
<1> HIDE DEF next
<1>4. next.sites \in Seq(Channels) /\ next.tag = Tag(next.sites, next.print)
  BY <1>3 DEF Snap
<1>5. consumer.got \in [Range(next.sites) -> Nat]
  BY <1>3 DEF SoFar
<1>6. /\ DOMAIN next.tag = DOMAIN next.sites
      /\ \A i \in DOMAIN next.sites : /\ next.tag[i] = next.print[next.sites[i]]
                                     /\ next.tag[i] \in Nat /\ next.tag[i] <= consumer.got[next.sites[i]]
  <2> SUFFICES ASSUME NEW i \in DOMAIN next.sites
               PROVE  /\ next.tag[i] = next.print[next.sites[i]] /\ next.tag[i] \in Nat
                      /\ next.tag[i] <= consumer.got[next.sites[i]]
    BY <1>4 DEF Tag
  <2>1. next.tag[i] = next.print[next.sites[i]] /\ next.sites[i] \in Range(next.sites)
    BY <1>4, ListRange DEF Tag
  <2> QED BY <1>3, <2>1 DEF SoFar, Snap, Counted
<1>7. next.tag \in [DOMAIN next.sites -> Nat]
  BY <1>4, <1>6 DEF Tag
<1>8. OfTag(consumer'.list, consumer'.body, consumer'.tag)
  BY <1>2, <1>4, <1>5, <1>6, <1>7 DEF OfTag
<1>9. ReaderOK'
  BY <1>2, <1>8 DEF ReaderOK
<1> QED BY <1>1, <1>9 DEF TagInv, EntryOK, ListOK, LookOK, SnapOK

\* What a grab writes is newer than all that was there.
LEMMA TagWrites == TagInv /\ (\E c \in Channels : GrabWrites(c)) => TagInv'
<1> SUFFICES ASSUME TagInv, NEW c \in Channels, GrabWrites(c) PROVE TagInv'
  OBVIOUS
<1>1. UNCHANGED <<runs, lineup, last, flight, snapshot, consumer>>
  BY DEF GrabWrites, source, look
<1>2. entry' = [entry EXCEPT ![c] = runs + 2] /\ runs \in Nat /\ runs + 2 \in Nat
  BY DEF GrabWrites, TagInv, EntryOK
<1>3. entry' \in [Channels -> Nat]
  BY <1>2 DEF TagInv, EntryOK
<1>4. \A d \in Channels : entry[d] <= entry'[d] /\ entry'[d] <= runs + 2
  <2> TAKE d \in Channels
  <2>1. entry[d] \in Nat /\ entry[d] <= runs + 2 /\ (entry'[d] = entry[d] \/ entry'[d] = runs + 2)
    BY <1>2 DEF TagInv, EntryOK
  <2> QED BY <1>2, <2>1
<1>5. EntryOK' /\ ListOK'
  BY <1>1, <1>2, <1>3, <1>4 DEF TagInv, EntryOK, ListOK
<1> QED BY <1>1, <1>4, <1>5, TagGrown

LEMMA TagNext == TagInv /\ [Next]_vars => TagInv'
<1> SUFFICES ASSUME TagInv, [Next]_vars PROVE TagInv'
  OBVIOUS
<1>0. runs \in Nat /\ runs <= runs
  BY DEF TagInv, EntryOK
<1>1. CASE UNCHANGED vars \/ RevalidateDue \/ ListsAge \/ Reload \/ Decide \/ TimerFires \/ CacheCloses
  <2>1. UNCHANGED <<entry, runs, lineup, last, flight, snapshot, consumer>>
    BY <1>1 DEF vars, source, look, grab, RevalidateDue, ListsAge, Reload, Decide, TimerFires, CacheCloses
  <2> QED BY <1>0, <2>1, TagSame
<1>2. CASE Imported \/ GrabEnds
  <2>1. UNCHANGED <<entry, lineup, last, flight, snapshot, consumer>>
          /\ (UNCHANGED runs \/ runs' = runs + 1)
    BY <1>2 DEF Imported, GrabEnds, Over, source
  <2>2. runs' \in Nat /\ runs <= runs'
    BY <1>0, <2>1
  <2> QED BY <2>1, <2>2, TagSame
<1>3. CASE ListChanges
  <2>1. lineup' \in Lineups /\ UNCHANGED <<entry, runs, last, flight, snapshot, consumer>>
    BY <1>3 DEF ListChanges, look, grab
  <2> QED BY <2>1 DEF TagInv, EntryOK, ListOK, LookOK, SnapOK, ReaderOK
<1>4. CASE Probe \/ AskCached
  <2>1. UNCHANGED <<entry, runs, lineup, last, snapshot, consumer>>
    BY <1>4 DEF Probe, AskCached, source, grab
  <2>2. \E resolving : StartOrJoin(resolving)
    BY <1>4 DEF Probe, AskCached, StartOrJoin
  <2>3. LookOK'
    BY <2>1, <2>2, TagStart DEF TagInv
  <2> QED BY <2>1, <2>3 DEF TagInv, EntryOK, ListOK, SnapOK, ReaderOK
<1>5. CASE HalfSent \/ Close
  <2>1. UNCHANGED <<entry, runs, lineup, last, flight, snapshot>> /\ consumer' = Cut
    BY <1>5 DEF HalfSent, Close, source, look, grab
  <2>2. ReaderOK'
    BY <2>1, TagIdle DEF TagInv
  <2> QED BY <2>1, <2>2 DEF TagInv, EntryOK, ListOK, LookOK, SnapOK
<1> QED BY <1>1, <1>2, <1>3, <1>4, <1>5, TagResolve, TagSweep, TagSwept, TagSweepFails, TagPoll,
           TagReads, TagSent, TagWrites DEF Next

LEMMA TagHolds == TagInv => TagMeansContent
<1> SUFFICES ASSUME TagInv, snapshot # None, consumer.tag = snapshot.tag
             PROVE  /\ Len(consumer.list) = Len(snapshot.sites)
                    /\ \A i \in DOMAIN snapshot.sites :
                         consumer.body[consumer.list[i]] >= snapshot.print[snapshot.sites[i]]
  BY DEF TagMeansContent
<1>1. /\ snapshot.sites \in Seq(Channels) /\ Counted(snapshot.print, Range(snapshot.sites), entry)
      /\ snapshot.tag = Tag(snapshot.sites, snapshot.print)
  BY DEF TagInv, SnapOK, Snap
<1>2. /\ DOMAIN snapshot.tag = DOMAIN snapshot.sites
      /\ \A i \in DOMAIN snapshot.sites : snapshot.tag[i] = snapshot.print[snapshot.sites[i]]
  BY <1>1 DEF Tag
<1>3. snapshot.tag \in Seq(Nat)
  <2>1. \A i \in 1..Len(snapshot.sites) : snapshot.tag[i] \in Nat
    BY <1>1, <1>2, ListRange DEF Counted
  <2>2. snapshot.tag = [i \in 1..Len(snapshot.sites) |-> snapshot.tag[i]] /\ Len(snapshot.sites) \in Nat
    BY <1>1, ListRange DEF Tag
  <2> QED BY <2>1, <2>2, StatesInSeq
<1>4. OfTag(consumer.list, consumer.body, consumer.tag)
  BY <1>3, ServerAssumption DEF TagInv, ReaderOK
<1>5. DOMAIN consumer.list = DOMAIN snapshot.sites
  BY <1>2, <1>4 DEF OfTag
<1>6. Len(consumer.list) = Len(snapshot.sites)
  BY <1>1, <1>4, <1>5, ListRange DEF OfTag
<1>7. ASSUME NEW i \in DOMAIN snapshot.sites
      PROVE  consumer.body[consumer.list[i]] >= snapshot.print[snapshot.sites[i]]
  <2>1. snapshot.print[snapshot.sites[i]] \in Nat
    BY <1>1, ListRange DEF Counted
  <2>2. consumer.list[i] \in Range(consumer.list) /\ consumer.body[consumer.list[i]] \in Nat
    BY <1>4, <1>5, ListRange DEF OfTag
  <2> QED BY <1>2, <1>4, <1>5, <2>1, <2>2 DEF OfTag
<1> QED BY <1>6, <1>7

\* A consumer that is told nothing has changed holds a guide of as many channels
\* as the server looked at and, in the place of each, what is as new as that or
\* newer, however its guide was read in the middle of a grab (createGuideHandler's
\* answer, fingerprintOf and guideBody).
THEOREM ServerTagMeansContent == Spec => []TagMeansContent
BY TagHolds, TagInit, TagNext, PTL DEF Spec

-----------------------------------------------------------------------------
(* What is reported of the guides under way.                               *)
BodyShape ==
  [st : {"answered", "queued", "merging", "offered", "over"}, sent : Nat, gone : BOOLEAN,
   told : {"nothing", "response", "failed", "disconnected"}]
\* Something is told of a body that is over alone, and is so.
ToldIsSo(rec) ==
  /\ rec.told # "nothing" => rec.st = "over"
  /\ rec.told = "response" => rec.sent = Chunks
  /\ rec.told = "failed" => ~rec.gone
  /\ rec.told = "disconnected" => rec.gone
LeftOff(rec) == rec.st = "over" \/ rec.gone
BodiesOK == body \in [Bodies -> BodyShape] /\ \A d \in Bodies : ToldIsSo(body[d])
\* A server of its own leaves no reader connected once it stops.
CutOK == (closing # "no" /\ owned) => \A d \in Bodies : LeftOff(body[d])
\* Who waits for a slot is in the queue once, and has none.
QueueOK ==
  /\ queue \in Seq(Bodies)
  /\ \A i \in 1..Len(queue) : body[queue[i]].st = "queued"
  /\ \A i, j \in 1..Len(queue) : queue[i] = queue[j] => i = j
SlotsOK == Cardinality(Guides!Generated) <= Slots
BodiesInv == BodiesOK /\ CutOK /\ QueueOK /\ SlotsOK

\* The counts of GuideBodies are those of FiniteSets.
LEMMA SameCount == \A S : Guides!Cardinality(S) = Cardinality(S)
BY DEF Guides!Cardinality, Cardinality

LEMMA SomeBodies == IsFiniteSet(Bodies) /\ Slots \in Nat \ {0}
BY BodiesAssumption DEF Guides!BodiesAssumption, Guides!IsFiniteSet, IsFiniteSet

LEMMA BodiesInit == Guides!Init => BodiesInv
<1> SUFFICES ASSUME Guides!Init PROVE BodiesInv
  OBVIOUS
<1> USE DEF Guides!Init
<1>1. \A d \in Bodies : body[d] = [st |-> "answered", sent |-> 0, gone |-> FALSE, told |-> "nothing"]
  OBVIOUS
<1>2. BodiesOK
  BY <1>1 DEF BodiesOK, BodyShape, ToldIsSo
<1>3. Guides!Generated = {}
  BY <1>1 DEF Guides!Generated, Guides!Is
<1>4. SlotsOK
  BY <1>3, FS_EmptySet, SomeBodies DEF SlotsOK
<1>5. CutOK /\ QueueOK
  BY DEF CutOK, QueueOK
<1> QED BY <1>2, <1>4, <1>5 DEF BodiesInv

\* What is generated is of finitely many bodies.
LEMMA FewGenerated ==
  ASSUME NEW S \in SUBSET Bodies
  PROVE  IsFiniteSet(S) /\ Cardinality(S) \in Nat
<1>1. IsFiniteSet(S)
  BY FS_Subset, SomeBodies
<1> QED BY <1>1, FS_CardinalityType

LEMMA SlotsStill ==
  ASSUME SlotsOK, Guides!Generated' \subseteq Guides!Generated
  PROVE  SlotsOK'
<1>1. Guides!Generated \subseteq Bodies /\ Guides!Generated' \subseteq Bodies
  BY DEF Guides!Generated
<1>2. IsFiniteSet(Guides!Generated)
  BY <1>1, FewGenerated
<1>3. /\ Cardinality(Guides!Generated') <= Cardinality(Guides!Generated)
      /\ Cardinality(Guides!Generated') \in Nat /\ Cardinality(Guides!Generated) \in Nat
  BY <1>1, <1>2, FS_Subset, FewGenerated
<1>4. Cardinality(Guides!Generated') <= Slots
  BY <1>3, SomeBodies DEF SlotsOK
<1> QED BY <1>4 DEF SlotsOK

LEMMA SlotTaken ==
  ASSUME NEW d \in Bodies, Cardinality(Guides!Generated) < Slots,
         Guides!Generated' \subseteq Guides!Generated \cup {d}
  PROVE  SlotsOK'
<1> DEFINE G == Guides!Generated
           H == Guides!Generated'
<1>1. G \subseteq Bodies /\ H \subseteq Bodies /\ G \cup {d} \subseteq Bodies
  BY DEF Guides!Generated
<1>2. IsFiniteSet(G) /\ IsFiniteSet(G \cup {d}) /\ Cardinality(G) \in Nat /\ Cardinality(H) \in Nat
  BY <1>1, FewGenerated
<1>3. Cardinality(G \cup {d}) <= Cardinality(G) + 1
  BY <1>2, FS_AddElement
<1>4. Cardinality(H) <= Cardinality(G \cup {d}) /\ Cardinality(G \cup {d}) \in Nat
  BY <1>1, <1>2, FS_Subset, FewGenerated
<1>5. Cardinality(H) <= Slots
  BY <1>2, <1>3, <1>4, SomeBodies
<1> QED BY <1>5 DEF SlotsOK

\* One body comes to a record, and the rest stand.
OneBody(d, rec) ==
  /\ body' = [body EXCEPT ![d] = rec] /\ UNCHANGED <<owned, closing>>
  /\ rec \in BodyShape /\ ToldIsSo(rec) /\ (LeftOff(body[d]) => LeftOff(rec))

LEMMA OneBodyMoves ==
  ASSUME BodiesOK, CutOK, NEW d \in Bodies, NEW rec, OneBody(d, rec)
  PROVE  /\ BodiesOK' /\ CutOK'
         /\ body'[d] = rec /\ \A e \in Bodies \ {d} : body'[e] = body[e]
         /\ Guides!Generated' \subseteq Guides!Generated \cup {d}
         /\ rec.st \notin {"merging", "offered"} \/ d \in Guides!Generated
              => Guides!Generated' \subseteq Guides!Generated
<1>1. body'[d] = rec /\ \A e \in Bodies \ {d} : body'[e] = body[e]
  BY DEF OneBody, BodiesOK
<1>2. BodiesOK'
  BY <1>1 DEF OneBody, BodiesOK
<1>3. CutOK'
  BY <1>1 DEF OneBody, CutOK
<1>4. Guides!Generated' = {e \in Bodies : body'[e].st = "merging" \/ body'[e].st = "offered"}
  BY DEF Guides!Generated, Guides!Is
<1>5. Guides!Generated = {e \in Bodies : body[e].st = "merging" \/ body[e].st = "offered"}
  BY DEF Guides!Generated, Guides!Is
<1> QED BY <1>1, <1>2, <1>3, <1>4, <1>5

\* A step of a body that does not wait for a slot leaves the queue as it is.
LEMMA QueueStill ==
  ASSUME QueueOK, NEW d \in Bodies, body[d].st # "queued" \/ body'[d].st = "queued",
         \A e \in Bodies \ {d} : body'[e] = body[e], UNCHANGED queue
  PROVE  QueueOK'
BY DEF QueueOK

\* A reader that pulls, is read to, goes, or is let go of; a merge that throws.
LEMMA BodySteps ==
  ASSUME BodiesInv, NEW d \in Bodies,
         \/ Guides!Yields(d) \/ Guides!ReadsOn(d) \/ Guides!Finishes(d) \/ Guides!Throws(d)
         \/ Guides!Goes(d) \/ Guides!LetGo(d)
  PROVE  BodiesInv'
<1> USE DEF BodiesInv
<1>0. body[d] \in BodyShape /\ ToldIsSo(body[d]) /\ body \in [Bodies -> BodyShape]
  BY DEF BodiesOK
<1>1. UNCHANGED <<owned, queue, closing>>
  BY DEF Guides!Yields, Guides!ReadsOn, Guides!Finishes, Guides!Throws, Guides!Goes, Guides!LetGo
<1>2. PICK rec : /\ OneBody(d, rec)
               /\ \/ d \in Guides!Generated
                  \/ rec.st = body[d].st
                  \/ rec.st = "over" /\ body[d].st # "queued"
  <2>1. CASE Guides!Yields(d)
    <3> DEFINE rec == [body[d] EXCEPT !.st = "offered", !.sent = @ + 1]
    <3>1. body' = [body EXCEPT ![d] = rec] /\ body[d].st = "merging"
      BY <1>0, <2>1 DEF Guides!Yields, Guides!Is
    <3>2. body[d].sent + 1 \in Nat
      BY <1>0 DEF BodyShape
    <3>3. rec = [st |-> "offered", sent |-> body[d].sent + 1, gone |-> body[d].gone, told |-> body[d].told]
      <4>1. body[d] = [st |-> body[d].st, sent |-> body[d].sent, gone |-> body[d].gone, told |-> body[d].told]
        BY <1>0 DEF BodyShape
      <4> DEFINE one == [body[d] EXCEPT !.st = "offered"]
      <4>2. one = [st |-> "offered", sent |-> body[d].sent, gone |-> body[d].gone, told |-> body[d].told]
        BY <4>1
      <4>3. rec = [one EXCEPT !.sent = body[d].sent + 1]
        BY <4>1
      <4> HIDE DEF one, rec
      <4> QED BY <4>2, <4>3
    <3>4. rec \in BodyShape /\ rec.told = body[d].told /\ rec.gone = body[d].gone
      <4> HIDE DEF rec
      <4> QED BY <1>0, <3>2, <3>3 DEF BodyShape
    <3>5. body[d].told = "nothing"
      BY <1>0, <3>1 DEF ToldIsSo
    <3>6. OneBody(d, rec)
      BY <1>1, <3>1, <3>4, <3>5 DEF OneBody, ToldIsSo, LeftOff
    <3> QED BY <3>1, <3>6 DEF Guides!Generated, Guides!Is
  <2>2. CASE Guides!ReadsOn(d)
    <3> DEFINE rec == [body[d] EXCEPT !.st = "merging"]
    <3>1. body' = [body EXCEPT ![d] = rec] /\ body[d].st = "offered"
      BY <1>0, <2>2 DEF Guides!ReadsOn, Guides!Moves, Guides!Is
    <3>2. rec \in BodyShape /\ rec.told = body[d].told /\ rec.gone = body[d].gone
      BY <1>0 DEF BodyShape
    <3>3. body[d].told = "nothing"
      BY <1>0, <3>1 DEF ToldIsSo
    <3>4. OneBody(d, rec)
      BY <1>1, <3>1, <3>2, <3>3 DEF OneBody, ToldIsSo, LeftOff
    <3> QED BY <3>1, <3>4 DEF Guides!Generated, Guides!Is
  <2>3. CASE Guides!Goes(d)
    <3> DEFINE rec == [body[d] EXCEPT !.gone = TRUE]
    <3>1. body' = [body EXCEPT ![d] = rec] /\ body[d].st # "over"
      BY <1>0, <2>3 DEF Guides!Goes, Guides!Is
    <3>2. rec \in BodyShape /\ rec.told = body[d].told /\ rec.st = body[d].st /\ rec.gone
      BY <1>0 DEF BodyShape
    <3>3. body[d].told = "nothing"
      BY <1>0, <3>1 DEF ToldIsSo
    <3>4. OneBody(d, rec)
      BY <1>1, <3>1, <3>2, <3>3 DEF OneBody, ToldIsSo, LeftOff
    <3> QED BY <3>2, <3>4
  <2>4. ASSUME Guides!Finishes(d) \/ Guides!Throws(d) \/ Guides!LetGo(d)
        PROVE  \E told \in {"nothing", "response", "failed", "disconnected"} :
                 /\ Guides!Ends(d, told) /\ body[d].st \notin {"queued", "over"}
                 /\ told = "response" => body[d].sent = Chunks
                 /\ told = "failed" => ~body[d].gone
                 /\ told = "disconnected" => body[d].gone
    <3>1. CASE Guides!Finishes(d)
      BY <3>1 DEF Guides!Finishes, Guides!Is
    <3>2. CASE Guides!Throws(d)
      BY <3>2 DEF Guides!Throws, Guides!Is, Guides!Reported
    <3>3. CASE Guides!LetGo(d)
      BY <3>3 DEF Guides!LetGo, Guides!Is
    <3> QED BY <2>4, <3>1, <3>2, <3>3
  <2>5. CASE Guides!Finishes(d) \/ Guides!Throws(d) \/ Guides!LetGo(d)
    <3>1. PICK told \in {"nothing", "response", "failed", "disconnected"} :
            /\ Guides!Ends(d, told) /\ body[d].st \notin {"queued", "over"}
            /\ told = "response" => body[d].sent = Chunks
            /\ told = "failed" => ~body[d].gone
            /\ told = "disconnected" => body[d].gone
      BY <2>4, <2>5
    <3> DEFINE rec == [body[d] EXCEPT !.st = "over", !.told = told]
    <3>2. body' = [body EXCEPT ![d] = rec]
      BY <1>0, <3>1 DEF Guides!Ends
    <3>3. /\ rec \in BodyShape /\ rec.told = told /\ rec.st = "over" /\ rec.gone = body[d].gone
          /\ rec.sent = body[d].sent
      BY <1>0 DEF BodyShape
    <3>4. OneBody(d, rec)
      BY <1>1, <3>1, <3>2, <3>3 DEF OneBody, ToldIsSo, LeftOff
    <3> QED BY <3>1, <3>3, <3>4
  <2> QED BY <2>1, <2>2, <2>3, <2>5
<1>3. /\ BodiesOK' /\ CutOK' /\ body'[d] = rec /\ \A e \in Bodies \ {d} : body'[e] = body[e]
      /\ rec.st \notin {"merging", "offered"} \/ d \in Guides!Generated
           => Guides!Generated' \subseteq Guides!Generated
  BY <1>2, OneBodyMoves
<1>4. Guides!Generated' \subseteq Guides!Generated
  BY <1>2, <1>3 DEF Guides!Generated, Guides!Is
<1>5. body[d].st # "queued" \/ body'[d].st = "queued"
  BY <1>2, <1>3 DEF Guides!Generated, Guides!Is
<1> QED BY <1>1, <1>3, <1>4, <1>5, SlotsStill, QueueStill

\* The first piece asked for.
LEMMA PullKeeps ==
  ASSUME BodiesInv, NEW d \in Bodies, Guides!Pull(d)
  PROVE  BodiesInv'
<1> USE DEF BodiesInv
<1>0. body[d] \in BodyShape /\ ToldIsSo(body[d]) /\ body \in [Bodies -> BodyShape] /\ queue \in Seq(Bodies)
  BY DEF BodiesOK, QueueOK
<1>1. body[d].st = "answered" /\ ~body[d].gone /\ body[d].told = "nothing" /\ UNCHANGED <<owned, closing>>
  BY <1>0 DEF Guides!Pull, Guides!Is, ToldIsSo
<1>2. ASSUME NEW st \in {"merging", "queued"}, Guides!Moves(d, st)
      PROVE  OneBody(d, [body[d] EXCEPT !.st = st]) /\ body'[d].st = st
  <2> DEFINE rec == [body[d] EXCEPT !.st = st]
  <2>1. body' = [body EXCEPT ![d] = rec] /\ rec.st = st
    BY <1>0, <1>2 DEF Guides!Moves, BodyShape
  <2>2. rec \in BodyShape /\ rec.told = "nothing"
    BY <1>0, <1>1 DEF BodyShape
  <2>3. ToldIsSo(rec) /\ ~LeftOff(body[d])
    BY <1>1, <2>2 DEF ToldIsSo, LeftOff
  <2> QED BY <1>0, <1>1, <2>1, <2>2, <2>3 DEF OneBody
<1>3. CASE queue = <<>> /\ Cardinality(Guides!Held) < Slots
  <2>1. Guides!Moves(d, "merging") /\ UNCHANGED queue
    BY <1>3, SameCount DEF Guides!Pull
  <2>2. /\ BodiesOK' /\ CutOK' /\ \A e \in Bodies \ {d} : body'[e] = body[e]
        /\ Guides!Generated' \subseteq Guides!Generated \cup {d}
    BY <1>2, <2>1, OneBodyMoves
  <2>3. SlotsOK'
    BY <1>3, <2>2, SlotTaken DEF Guides!Held
  <2> QED BY <1>1, <2>1, <2>2, <2>3, QueueStill
<1>4. CASE ~(queue = <<>> /\ Cardinality(Guides!Held) < Slots)
  <2>1. Guides!Moves(d, "queued") /\ queue' = Append(queue, d)
    BY <1>4, SameCount DEF Guides!Pull
  <2>2. /\ BodiesOK' /\ CutOK' /\ body'[d].st = "queued" /\ \A e \in Bodies \ {d} : body'[e] = body[e]
        /\ Guides!Generated' \subseteq Guides!Generated
    <3>1. [body[d] EXCEPT !.st = "queued"].st = "queued"
      BY <1>0 DEF BodyShape
    <3> QED BY <1>2, <2>1, <3>1, OneBodyMoves
  <2>3. SlotsOK'
    BY <2>2, SlotsStill
  <2>4. /\ queue' \in Seq(Bodies) /\ Len(queue') = Len(queue) + 1 /\ queue'[Len(queue) + 1] = d
        /\ \A i \in 1..Len(queue) : queue'[i] = queue[i]
    BY <1>0, <2>1, AppendProperties
  <2>5. \A i \in 1..Len(queue) : queue[i] \in Bodies /\ queue[i] # d
    BY <1>0, <1>1 DEF QueueOK
  <2>6. \A i \in 1..Len(queue') : i \in 1..Len(queue) \/ i = Len(queue) + 1
    BY <1>0, <2>4
  <2>7. \A i \in 1..Len(queue') : body'[queue'[i]].st = "queued"
    BY <2>2, <2>4, <2>5, <2>6 DEF QueueOK
  <2>8. \A i, j \in 1..Len(queue') : queue'[i] = queue'[j] => i = j
    BY <2>4, <2>5, <2>6 DEF QueueOK
  <2> QED BY <2>2, <2>3, <2>4, <2>7, <2>8 DEF QueueOK
<1> QED BY <1>3, <1>4

\* A slot freed goes to whoever has waited longest.
LEMMA TakenKeeps ==
  ASSUME BodiesInv, Guides!Taken
  PROVE  BodiesInv'
<1> USE DEF BodiesInv
<1> DEFINE d == Head(queue)
<1>1. /\ queue # <<>> /\ Cardinality(Guides!Generated) < Slots /\ Guides!Moves(d, "merging")
      /\ queue' = Tail(queue) /\ UNCHANGED <<owned, closing>>
  BY SameCount DEF Guides!Taken, Guides!Held
<1>2. /\ d \in Bodies /\ queue' \in Seq(Bodies) /\ Len(queue') = Len(queue) - 1 /\ d = queue[1]
      /\ \A i \in 1..Len(queue') : queue'[i] = queue[i + 1]
      /\ Len(queue) \in Nat /\ Len(queue) >= 1
  BY <1>1, HeadTailProperties DEF QueueOK
<1> HIDE DEF d
<1>3. body[d] \in BodyShape /\ ToldIsSo(body[d]) /\ body[d].st = "queued" /\ body[d].told = "nothing"
  BY <1>2 DEF BodiesOK, QueueOK, ToldIsSo
<1> DEFINE rec == [body[d] EXCEPT !.st = "merging"]
<1>4. OneBody(d, rec)
  <2>1. body' = [body EXCEPT ![d] = rec]
    BY <1>1, <1>2 DEF Guides!Moves, BodiesOK
  <2>2. rec \in BodyShape /\ rec.told = "nothing" /\ rec.gone = body[d].gone
    BY <1>3 DEF BodyShape
  <2> QED BY <1>1, <1>3, <2>1, <2>2 DEF OneBody, ToldIsSo, LeftOff
<1>5. /\ BodiesOK' /\ CutOK' /\ \A e \in Bodies \ {d} : body'[e] = body[e]
      /\ Guides!Generated' \subseteq Guides!Generated \cup {d}
  BY <1>2, <1>4, OneBodyMoves
<1>6. SlotsOK'
  BY <1>1, <1>2, <1>5, SlotTaken
<1>7. \A i \in 1..Len(queue') : i + 1 \in 1..Len(queue) /\ i + 1 # 1 /\ i \in Int
  BY <1>2
<1>8. \A i \in 1..Len(queue') : queue'[i] \in Bodies /\ queue'[i] # d /\ body[queue'[i]].st = "queued"
  BY <1>2, <1>7 DEF QueueOK
<1>9. \A i, j \in 1..Len(queue') : queue'[i] = queue'[j] => i = j
  <2> SUFFICES ASSUME NEW i \in 1..Len(queue'), NEW j \in 1..Len(queue'), queue'[i] = queue'[j]
               PROVE  i = j
    OBVIOUS
  <2>1. i + 1 = j + 1
    BY <1>2, <1>7 DEF QueueOK
  <2> QED BY <2>1
<1>10. QueueOK'
  BY <1>2, <1>5, <1>8, <1>9 DEF QueueOK
<1> QED BY <1>5, <1>6, <1>10

\* stop() lets go of every connection of a server of its own, and drops whoever
\* waits for a slot.
LEMMA StopSteps ==
  ASSUME BodiesInv, Guides!Shutdown \/ Guides!Stopped
  PROVE  BodiesInv'
<1> USE DEF BodiesInv
<1>1. CASE Guides!Shutdown
  <2>1. body' = [e \in Bodies |-> [body[e] EXCEPT !.gone = @ \/ (owned /\ body[e].st # "over")]]
    BY <1>1 DEF Guides!Shutdown, Guides!CutOff, Guides!Is
  <2>2. closing = "no" /\ UNCHANGED <<owned, queue>>
    BY <1>1 DEF Guides!Shutdown
  <2>3. ASSUME NEW e \in Bodies
        PROVE  /\ body'[e] \in BodyShape /\ ToldIsSo(body'[e]) /\ body'[e].st = body[e].st
               /\ owned => LeftOff(body'[e])
    <3>0. body[e] \in BodyShape /\ ToldIsSo(body[e])
      BY DEF BodiesOK
    <3>1. CASE owned /\ body[e].st # "over"
      <4>1. body'[e] = [body[e] EXCEPT !.gone = TRUE]
        BY <2>1, <3>0, <3>1 DEF BodyShape
      <4> QED BY <3>0, <3>1, <4>1 DEF BodyShape, ToldIsSo, LeftOff
    <3>2. CASE ~(owned /\ body[e].st # "over")
      <4>1. body'[e] = body[e]
        BY <2>1, <3>0, <3>2 DEF BodyShape
      <4> QED BY <3>0, <3>2, <4>1 DEF LeftOff
    <3> QED BY <3>1, <3>2
  <2>4. body' \in [Bodies -> BodyShape]
    BY <2>1, <2>3
  <2>5. Guides!Generated' = Guides!Generated
    BY <2>3 DEF Guides!Generated, Guides!Is
  <2>6. SlotsOK'
    BY <2>5, SlotsStill
  <2>7. QueueOK'
    BY <2>2, <2>3 DEF QueueOK
  <2> QED BY <2>2, <2>3, <2>4, <2>6, <2>7 DEF BodiesOK, CutOK
<1>2. CASE Guides!Stopped
  <2>1. /\ body' = [e \in Bodies |-> [body[e] EXCEPT !.st = IF e \in Guides!ToSet(queue) THEN "over" ELSE @]]
        /\ closing = "stopping" /\ queue' = <<>> /\ UNCHANGED owned
    BY <1>2 DEF Guides!Stopped, Guides!Rejected
  <2>2. ASSUME NEW e \in Bodies
        PROVE  /\ body'[e] \in BodyShape /\ ToldIsSo(body'[e])
               /\ body'[e] = body[e] \/ body'[e].st = "over"
    <3>0. body[e] \in BodyShape /\ ToldIsSo(body[e])
      BY DEF BodiesOK
    <3>1. CASE e \in Guides!ToSet(queue)
      <4>1. body'[e] = [body[e] EXCEPT !.st = "over"]
        BY <2>1, <3>1
      <4> QED BY <3>0, <4>1 DEF BodyShape, ToldIsSo
    <3>2. CASE e \notin Guides!ToSet(queue)
      <4>1. body'[e] = body[e]
        BY <2>1, <3>0, <3>2 DEF BodyShape
      <4> QED BY <3>0, <4>1
    <3> QED BY <3>1, <3>2
  <2>3. body' \in [Bodies -> BodyShape]
    BY <2>1, <2>2
  <2>4. Guides!Generated' \subseteq Guides!Generated
    BY <2>2 DEF Guides!Generated, Guides!Is
  <2>5. SlotsOK'
    BY <2>4, SlotsStill
  <2>6. CutOK'
    BY <2>1, <2>2 DEF CutOK, LeftOff
  <2>7. QueueOK'
    BY <2>1 DEF QueueOK
  <2>8. BodiesOK'
    BY <2>2, <2>3 DEF BodiesOK
  <2> QED BY <2>5, <2>6, <2>7, <2>8
<1> QED BY <1>1, <1>2

LEMMA BodiesNext == BodiesInv /\ [MCNext]_all => BodiesInv'
<1> SUFFICES ASSUME BodiesInv, [MCNext]_all PROVE BodiesInv'
  OBVIOUS
<1>1. CASE UNCHANGED ofBodies
  <2>1. UNCHANGED <<owned, body, queue, closing>>
    BY <1>1 DEF ofBodies
  <2>2. Guides!Generated' = Guides!Generated
    BY <2>1 DEF Guides!Generated, Guides!Is
  <2> QED BY <2>1, <2>2, SlotsStill DEF BodiesInv, BodiesOK, CutOK, QueueOK
<1>2. CASE Guides!Next
  BY <1>2, BodySteps, PullKeeps, TakenKeeps, StopSteps DEF Guides!Next, Guides!Works
<1> QED BY <1>1, <1>2 DEF MCNext, OfServer, OfBodies, all

\* A consumer is told what is so: that nothing has changed only where it holds,
\* place by place, what the server looked at or newer; and of each guide it was sent how that
\* ended, of which there are never more under way than slots, nor any for a
\* reader still there once a server of its own is closed (answer and guideBody in
\* src/serve/handler.ts).
THEOREM ServerAnswersAreTrue == MCSpec => []AnswersAreTrue
<1>1. BodiesInv => Guides!BodiesAreTold
  <2> SUFFICES ASSUME BodiesInv PROVE Guides!BodiesAreTold
    OBVIOUS
  <2>1. Guides!Generated \subseteq {e \in Bodies : body[e].st # "over"}
    BY DEF Guides!Generated, Guides!Is
  <2>2. (closing = "closed" /\ owned) => \A e \in Guides!Generated : body[e].gone
    BY <2>1 DEF BodiesInv, CutOK, LeftOff
  <2> QED BY <2>2, SameCount DEF Guides!BodiesAreTold, BodiesInv, SlotsOK, BodiesOK, ToldIsSo
<1>2. TagInv => TagMeansContent
  BY TagHolds
<1>3. MCInit => TagInv /\ BodiesInv
  BY TagInit, BodiesInit DEF MCInit
<1>4. [MCNext]_all => [Next]_vars
  BY DEF MCNext, OfServer, OfBodies, all
<1> QED BY <1>1, <1>2, <1>3, <1>4, TagNext, BodiesNext, PTL DEF MCSpec, AnswersAreTrue
=============================================================================
