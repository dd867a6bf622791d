---------------------------- MODULE GuideServer ----------------------------
(***************************************************************************)
(* The served guide: createGuideHandler's snapshot of the cache and the    *)
(* channel lists, polled by a consumer and probed for health, beside a     *)
(* scheduled grab that writes the cache it is served from, a reload, and   *)
(* close().                                                                *)
(*                                                                         *)
(* One await is one action: a list resolved, a question to the cache, an   *)
(* entry read into a guide, an entry written by the grab.  The day stands  *)
(* still.  An entry is the number of the grab that wrote it: 1 for an      *)
(* earlier run's, 0 where there is none; all have as many programmes.  A   *)
(* list is the sequence of its channels, in the order they are asked for.  *)
(***************************************************************************)
EXTENDS Integers, FiniteSets, FiniteSetsExt, Functions, Sequences

CONSTANTS
  Channels,
  Lineups,     \* what the source's list may say
  Left,        \* what an earlier run may have left of each channel
  MaxGrabs,    \* grabs of one server
  MaxChanges,  \* times the source's list changes
  MaxMishaps,  \* lists that fail, caches that throw, readers that go
  Noting,      \* whether the history below is kept
  None

ASSUME ServerAssumption ==
  /\ IsFiniteSet(Channels) /\ Lineups \subseteq Seq(Channels)
  /\ Left \in [Channels -> SUBSET (0..1)]
  /\ MaxGrabs \in Nat /\ MaxChanges \in Nat /\ MaxMishaps \in Nat /\ Noting \in BOOLEAN
  /\ None \notin Lineups /\ None \notin Seq(Nat)

VARIABLES
  lineup,    \* what the source's list says now
  entry,     \* what the cache holds: the grab that wrote each, or 0
  last,      \* lastResolved: what the list resolved to last, or None
  snapshot,  \* None, or what the cache amounted to when it was last looked at
  checked,   \* whether that was within revalidateMs
  resolved,  \* whether the lists were resolved within sitesMaxAgeMs
  flight,    \* inFlight: the one look under way
  consumer,  \* a consumer that polls: where it is, the guide it holds, of which
             \* list it is, and what it has got so far of the next
  sched,     \* the schedule: what it waits for, and what a grab has left to write
  runs,      \* grabs finished
  stop,      \* "no", "stopping", or "closed" once the cache is
  changes, mishaps,
  listed     \* history: whether the lists were resolved for the snapshot held

source == <<lineup, changes>>
look == <<last, snapshot, checked, resolved, flight, listed>>
grab == <<sched, runs>>
vars == <<source, look, grab, entry, consumer, stop, mishaps>>

Nothing == [c \in {} |-> 0]
Content(cs) == [c \in cs |-> entry[c]]
With(got, c) == [d \in DOMAIN got \cup {c} |-> IF d = c THEN entry[c] ELSE got[d]]

\* fingerprintOf(): the state of every entry in turn, a field left empty where
\* there is none; whose entry it is goes into no field.  The newest alone is a
\* mutant.
NewestOnly(list, got) ==                                            \* mutant
  IF list = <<>> THEN 0 ELSE Max({got[list[i]] : i \in DOMAIN list})
Tag(list, got) == [i \in DOMAIN list |-> got[list[i]]]

Landed == [st |-> "none", resolving |-> FALSE, stale |-> FALSE, again |-> FALSE,
           sites |-> <<>>, got |-> Nothing]
Idle == [st |-> "idle", tag |-> None, list |-> <<>>, body |-> Nothing, next |-> None,
         got |-> Nothing]

Init ==
  /\ lineup \in Lineups
  /\ entry \in [Channels -> 0..1] /\ \A c \in Channels : entry[c] \in Left[c]
  /\ last = None /\ snapshot = None /\ checked = FALSE /\ resolved = FALSE
  /\ flight = Landed
  /\ consumer = Idle
  /\ sched = [st |-> "asking", left |-> {}]
  /\ runs = 0 /\ stop = "no" /\ changes = 0 /\ mishaps = 0 /\ listed = FALSE

Schedule == [st : {"asking", "counting", "timer", "importing", "grabbing", "none"},
             left : SUBSET Channels]

Mishap == mishaps < MaxMishaps /\ mishaps' = mishaps + 1

-----------------------------------------------------------------------------
(* current(): at most once per revalidateMs, and one look at a time.       *)
Current == snapshot # None /\ checked

IgnoresAge(resolving) == snapshot = None                            \* mutant
Stale(resolving) == snapshot = None \/ (resolving /\ ~resolved)

Start(resolving) ==
  /\ ~Current /\ flight.st = "none"
  /\ flight' = IF Stale(resolving)
                 THEN [Landed EXCEPT !.st = "lists", !.resolving = resolving, !.stale = TRUE]
                 ELSE [Landed EXCEPT !.st = "sweep", !.resolving = resolving,
                                     !.sites = snapshot.sites]

StartOrJoin(resolving) == Start(resolving) \/ (~Current /\ flight.st # "none" /\ UNCHANGED flight)

(* lists(): one that fails is the one it had last, or none.                *)
Forgets == <<>>                                                     \* mutant
HeldOver == IF last = None THEN <<>> ELSE last

Resolve ==
  /\ flight.st = "lists"
  /\ \/ /\ flight' = [flight EXCEPT !.st = "sweep", !.sites = lineup, !.got = Nothing]
        /\ last' = lineup /\ UNCHANGED mishaps
     \/ /\ Mishap
        /\ flight' = [flight EXCEPT !.st = "sweep", !.sites = HeldOver, !.got = Nothing]
        /\ UNCHANGED last
  /\ UNCHANGED <<source, snapshot, checked, resolved, listed, grab, entry, consumer, stop>>

(* metasOf(): the entries of the lists, asked for in batches.              *)
Sweep(c) ==
  /\ flight.st = "sweep" /\ stop # "closed"
  /\ c \in Range(flight.sites) \ DOMAIN flight.got
  /\ flight' = [flight EXCEPT !.got = With(@, c)]
  /\ UNCHANGED <<source, last, snapshot, checked, resolved, listed, grab, entry, consumer, stop, mishaps>>

\* What a request is told of a snapshot: nothing it has not, or the guide of it.
Told(s) ==
  IF consumer.tag = s.tag
    THEN [consumer EXCEPT !.st = "idle"]
    ELSE [consumer EXCEPT !.st = "reading", !.next = s]

\* A grab has been: the lists are resolved again now, and swept again.
ChangedSince ==
  /\ flight.resolving /\ ~flight.stale /\ ~flight.again
  /\ Tag(flight.sites, flight.got) # snapshot.tag

Swept ==
  /\ flight.st = "sweep" /\ DOMAIN flight.got = Range(flight.sites)
  /\ IF ChangedSince
       THEN /\ flight' = [flight EXCEPT !.st = "lists", !.again = TRUE]
            /\ UNCHANGED <<snapshot, checked, resolved, listed, consumer, sched>>
       ELSE LET s == [sites |-> flight.sites, print |-> flight.got,
                      tag |-> Tag(flight.sites, flight.got)]
            IN /\ snapshot' = s /\ checked' = TRUE
               /\ resolved' = (resolved \/ flight.stale \/ flight.again)
               /\ listed' = (Noting /\ (flight.stale \/ flight.again \/ (listed /\ s.tag = snapshot.tag)))
               /\ consumer' = IF consumer.st = "waiting" THEN Told(s) ELSE consumer
               /\ sched' = IF sched.st = "counting" THEN [sched EXCEPT !.st = "asking"] ELSE sched
               /\ flight' = Landed
  /\ UNCHANGED <<source, last, runs, entry, stop, mishaps>>

(* The cache throws, closed or not: whoever waited is answered a failure.  *)
SweepFails ==
  /\ flight.st = "sweep"
  /\ Mishap \/ (stop = "closed" /\ UNCHANGED mishaps)
  /\ flight' = Landed
  /\ consumer' = IF consumer.st = "waiting" THEN [consumer EXCEPT !.st = "idle"] ELSE consumer
  /\ sched' = IF sched.st = "counting" THEN [sched EXCEPT !.st = "none"] ELSE sched
  /\ UNCHANGED <<source, last, snapshot, checked, resolved, listed, runs, entry, stop>>

(* revalidateMs and sitesMaxAgeMs go by.                                   *)
RevalidateDue ==
  /\ checked /\ checked' = FALSE
  /\ UNCHANGED <<source, last, snapshot, resolved, flight, listed, grab, entry, consumer, stop, mishaps>>
ListsAge ==
  /\ resolved /\ resolved' = FALSE
  /\ UNCHANGED <<source, last, snapshot, checked, flight, listed, grab, entry, consumer, stop, mishaps>>

Reload ==
  /\ stop = "no" /\ (checked \/ resolved)
  /\ checked' = FALSE /\ resolved' = FALSE
  /\ UNCHANGED <<source, last, snapshot, flight, listed, grab, entry, consumer, stop, mishaps>>

-----------------------------------------------------------------------------
(* answer(): a guide, for a consumer with the tag of the one it holds.     *)
Poll ==
  /\ consumer.st = "idle" /\ stop = "no"
  /\ \/ Current /\ consumer' = Told(snapshot) /\ UNCHANGED flight
     \/ StartOrJoin(TRUE) /\ consumer' = [consumer EXCEPT !.st = "waiting"]
  /\ UNCHANGED <<source, last, snapshot, checked, resolved, listed, grab, entry, stop, mishaps>>

(* healthOf(): never resolving, and what it counts is of no consequence.   *)
Probe ==
  /\ stop = "no" /\ Start(FALSE)
  /\ UNCHANGED <<source, last, snapshot, checked, resolved, listed, grab, entry, consumer, stop, mishaps>>

(* guideBody(): the entries of the snapshot's lists, each as it is by then. *)
ReadInto(c) ==
  /\ consumer.st = "reading" /\ c \in Range(consumer.next.sites) \ DOMAIN consumer.got
  /\ consumer' = [consumer EXCEPT !.got = With(@, c)]
  /\ UNCHANGED <<source, look, grab, entry, stop, mishaps>>

GuideSent ==
  /\ consumer.st = "reading" /\ DOMAIN consumer.got = Range(consumer.next.sites)
  /\ consumer' = [Idle EXCEPT !.tag = consumer.next.tag, !.list = consumer.next.sites,
                              !.body = consumer.got]
  /\ UNCHANGED <<source, look, grab, entry, stop, mishaps>>

Cut == [consumer EXCEPT !.st = "idle", !.next = None, !.got = Nothing]

(* The reader goes, or the cache throws: half a guide is none.             *)
HalfSent ==
  /\ consumer.st = "reading" /\ Mishap
  /\ consumer' = Cut
  /\ UNCHANGED <<source, look, grab, entry, stop>>

-----------------------------------------------------------------------------
(* The source's list changes.                                              *)
ListChanges ==
  /\ changes < MaxChanges /\ changes' = changes + 1
  /\ \E cs \in Lineups : cs # lineup /\ lineup' = cs
  /\ UNCHANGED <<look, grab, entry, consumer, stop, mishaps>>

(* planNext(): the schedule is asked, and may ask what is cached.          *)
AskCached ==
  /\ sched.st = "asking" /\ StartOrJoin(TRUE)
  /\ sched' = [sched EXCEPT !.st = "counting"]
  /\ UNCHANGED <<source, last, snapshot, checked, resolved, listed, runs, entry, consumer, stop, mishaps>>

AnyTime == TRUE                                                     \* mutant
\* Closed while it was deciding: a timer set now is one nobody clears.
StillOpen == stop = "no"

Decide ==
  /\ sched.st = "asking"
  /\ \/ StillOpen /\ runs < MaxGrabs /\ sched' = [sched EXCEPT !.st = "timer"]
     \/ sched' = [sched EXCEPT !.st = "none"]
  /\ UNCHANGED <<source, look, runs, entry, consumer, stop, mishaps>>

\* The held snapshot predates what the grab wrote, so it is trusted no longer.
Over == runs' = runs + 1 /\ checked' = FALSE
        /\ sched' = [st |-> IF stop = "no" THEN "asking" ELSE "none", left |-> {}]

(* grabNow(), from its import to its finally.                              *)
TimerFires ==
  /\ sched.st = "timer"
  /\ sched' = [sched EXCEPT !.st = "importing"]
  /\ UNCHANGED <<source, look, runs, entry, consumer, stop, mishaps>>

Imported ==
  /\ sched.st = "importing"
  /\ IF StillOpen
       THEN sched' = [st |-> "grabbing", left |-> Range(lineup)] /\ UNCHANGED <<runs, checked>>
       ELSE Over
  /\ UNCHANGED <<source, last, snapshot, resolved, flight, listed, entry, consumer, stop, mishaps>>

GrabWrites(c) ==
  /\ sched.st = "grabbing" /\ c \in sched.left
  /\ entry' = [entry EXCEPT ![c] = runs + 2]
  /\ sched' = [sched EXCEPT !.left = @ \ {c}]
  /\ UNCHANGED <<source, look, runs, consumer, stop, mishaps>>

(* It ends with all of it written, or with sites failed or called off.     *)
GrabEnds ==
  /\ sched.st = "grabbing" /\ Over
  /\ UNCHANGED <<source, last, snapshot, resolved, flight, listed, entry, consumer, stop, mishaps>>

-----------------------------------------------------------------------------
(* close(): no more plans, the grab called off, and the connections let go. *)
Running == sched.st \in {"importing", "grabbing"}
Close ==
  /\ stop = "no" /\ stop' = "stopping"
  /\ sched' = IF sched.st = "timer" THEN [sched EXCEPT !.st = "none"] ELSE sched
  /\ consumer' = Cut
  /\ UNCHANGED <<source, look, runs, entry, mishaps>>

Unwound == ~Running

CacheCloses ==
  /\ stop = "stopping" /\ Unwound
  /\ stop' = "closed"
  /\ UNCHANGED <<source, look, grab, entry, consumer, mishaps>>

Next ==
  \/ Resolve \/ (\E c \in Channels : Sweep(c)) \/ Swept \/ SweepFails
  \/ RevalidateDue \/ ListsAge \/ Reload
  \/ Poll \/ Probe \/ (\E c \in Channels : ReadInto(c)) \/ GuideSent \/ HalfSent
  \/ ListChanges
  \/ AskCached \/ Decide \/ TimerFires \/ Imported
  \/ (\E c \in Channels : GrabWrites(c)) \/ GrabEnds
  \/ Close \/ CacheCloses

Spec == Init /\ [][Next]_vars

\* Whatever is asked is answered, and time goes by.  The consumer keeps polling,
\* and does not come only when a probe is looking already.
Looking == Resolve \/ (\E c \in Channels : Sweep(c)) \/ Swept \/ (stop = "closed" /\ SweepFails)
Reading == (\E c \in Channels : ReadInto(c)) \/ GuideSent
PollAlone == Poll /\ flight.st = "none"
FairSpec ==
  /\ Spec
  /\ WF_vars(Looking) /\ WF_vars(Reading) /\ WF_vars(Poll) /\ SF_vars(PollAlone /\ ~Current)
  /\ WF_vars(RevalidateDue) /\ WF_vars(ListsAge)
  /\ WF_vars(Decide) /\ WF_vars(TimerFires \/ Imported \/ GrabEnds) /\ WF_vars(CacheCloses)

-----------------------------------------------------------------------------
\* Every variable keeps its type: a snapshot's lists and what it counted of them
\* travel together, and a look that was not to resolve never does.
TypeOK ==
  /\ lineup \in Lineups /\ entry \in [Channels -> 0..(MaxGrabs + 1)]
  /\ last \in Lineups \cup {None}
  /\ snapshot # None => DOMAIN snapshot.print = Range(snapshot.sites)
  /\ flight.st \in {"none", "lists", "sweep"} /\ DOMAIN flight.got \subseteq Range(flight.sites)
  /\ flight.again => flight.resolving
  /\ consumer.st \in {"idle", "waiting", "reading"}
  /\ sched \in Schedule
  /\ runs \in 0..MaxGrabs /\ stop \in {"no", "stopping", "closed"}

\* A consumer that would be told its guide is unchanged holds a guide of as many
\* channels as the snapshot's, and in the place of each an entry no older than
\* the snapshot's there: none is pinned to a guide it was sent in the middle of a
\* grab.  Where its list is the snapshot's, that is channel by channel; which
\* channel has a place, the tag does not tell.
TagMeansContent ==
  (snapshot # None /\ consumer.tag = snapshot.tag)
    => /\ Len(consumer.list) = Len(snapshot.sites)
       /\ \A i \in DOMAIN snapshot.sites :
            consumer.body[consumer.list[i]] >= snapshot.print[snapshot.sites[i]]

\* A list that fails costs a consumer none of the channels it had: one the
\* source never dropped is never out of the guide again.
ChannelsStay ==
  [][\A c \in Channels : ((\A cs \in Lineups : c \in Range(cs)) /\ snapshot # None /\ c \in Range(snapshot.sites))
       => c \in Range(snapshot'.sites)]_vars

\* However close() meets the schedule, deciding, importing or grabbing: the
\* cache is not closed under a grab, and nothing is planned once the server is
\* called off, for a timer set then would keep the process alive.
CloseIsFinal ==
  /\ stop = "closed" => ~Running
  /\ stop # "no" => sched.st # "timer"

\* The list came to name other channels whose entries are, place by place, in the
\* state of those it named: its tag is the one the consumer holds.
OthersAlike == consumer.list # lineup /\ consumer.tag = Tag(lineup, entry)

\* A consumer that keeps polling comes to hold what the cache holds of what the
\* source lists, a channel no grab touched included, unless what it holds is of
\* others alike.
Follows == consumer.body = Content(Range(lineup)) \/ OthersAlike
Converges == <>[](stop # "no") \/ <>[]Follows

\* "Between the two, a changed fingerprint still re-resolves immediately": what a
\* look for a guide leaves is a snapshot its lists were resolved for.
ListsFollow == [][(flight.resolving /\ ~checked /\ checked') => listed']_vars
=============================================================================
