---------------------------- MODULE ChannelLists ----------------------------
(* The channel list of one site that keeps it: resolveChannels, with the       *)
(* ChannelsGroup it is stored in and the SiteStateHandle a command holds both  *)
(* that and the site's own bag by.  Commands come again and again, two at      *)
(* once, over one cache; the source changes its list as it likes, and a list   *)
(* is known by its version.  A moment is kept as how long ago it was.          *)
EXTENDS Integers

CONSTANTS
  Commands,
  Selecting,     \* those that keep some channels only
  MaxAge,        \* channelsMaxAgeMs, in ticks
  Versions,      \* bound: how often the source changes, and one
  Wrongs, MaxWrongs,  \* what may go wrong, and a bound
  Alone,         \* whether a site whose bag tells has one command at a time
  Far,           \* the age of what is stamped in the future
  NoList

\* The source has changed once before; what stands for no moment
\* is none, and what stands for no list is no list stored.
ASSUME ListsAssumption ==
  /\ MaxAge \in Nat /\ Versions \in Nat /\ Versions >= 2 /\ Far \notin Nat
  /\ NoList \notin [list : [of : Nat, all : BOOLEAN], about : Nat, age : Nat]
  /\ NoList \notin [list : [of : Nat, all : BOOLEAN], age : Nat]

VARIABLES
  kind,          \* how the site tells that its list has not changed, if it can
  source, since, \* the source's version; how long each has not been it
  stored, bag,   \* the cache: the group of the list, and the site's own bag
  cmd,           \* the commands
  given,         \* the list the last command to end well came to
  wrongs

vars == <<kind, source, since, stored, bag, cmd, given, wrongs>>

Kinds == {"since", "told", "stamped", "unkept"}
Top == MaxAge + 2   \* longer ago than is told apart
Older(age) == IF age = Far \/ age = Top THEN age ELSE age + 1
Whole(v) == [of |-> v, all |-> TRUE]

\* The cache may have been copied from a machine whose clock was ahead.
Resting == [st |-> "idle", age |-> 0, refresh |-> FALSE, held |-> NoList,
            before |-> 0, bag |-> 0, about |-> 0, list |-> NoList, group |-> NoList, dirty |-> FALSE, down |-> FALSE]
Init ==
  /\ kind \in Kinds
  /\ source = 2 /\ since = [v \in 1 .. Versions |-> IF v = 2 THEN 0 ELSE Top]
  /\ stored \in {NoList} \cup {[list |-> Whole(1), about |-> 1, age |-> age] : age \in {Top, Far}}
  /\ bag = IF stored = NoList THEN 0 ELSE 1
  /\ cmd = [c \in Commands |-> Resting]
  /\ given = NoList /\ wrongs = 0

\* What `@@` of TLC is, in a form the provers have too.
With(state, changes) ==
  [f \in DOMAIN state |-> IF f \in DOMAIN changes THEN changes[f] ELSE state[f]]
Goes(c, changes) == cmd' = [cmd EXCEPT ![c] = With(@, changes)]
World == <<kind, source, since>>
Cache == <<stored, bag>>
Wrong(why) == why \in Wrongs /\ wrongs < MaxWrongs /\ wrongs' = wrongs + 1

-----------------------------------------------------------------------------
Changes ==
  /\ source < Versions
  /\ source' = source + 1
  /\ since' = [since EXCEPT ![source + 1] = 0]
  /\ UNCHANGED <<kind, Cache, cmd, given, wrongs>>

\* Bound: a command is over within a tick of the one it began in.
Ticks ==
  /\ \A c \in Commands : cmd[c].age = 0
  /\ since' = [v \in DOMAIN since |-> IF v >= source THEN 0 ELSE Older(since[v])]
  /\ stored' = IF stored = NoList THEN NoList ELSE [stored EXCEPT !.age = Older(@)]
  /\ cmd' = [c \in Commands |-> IF cmd[c].st = "idle" THEN cmd[c] ELSE [cmd[c] EXCEPT !.age = 1]]
  /\ UNCHANGED <<kind, source, bag, given, wrongs>>

-----------------------------------------------------------------------------
(* ChannelsGroup, as a command whose now is `now` ago reads it.                *)
Distrusted(entry, now) == entry = NoList \/ entry.age = Far \/ entry.age < now
fresh(entry, now) == ~Distrusted(entry, now) /\ entry.age - now <= MaxAge
held(entry, now) == IF Distrusted(entry, now) THEN NoList
                    ELSE [list |-> entry.list, age |-> entry.age - now]
metadata(entry) == IF entry = NoList THEN 0 ELSE entry.about

\* The selection is the last thing done to a list.
selected(c, list) == IF c \in Selecting THEN [list EXCEPT !.all = FALSE] ELSE list

\* resolveSessions: a handle of its own, and the moment a list is stored as of.
Begin(c) ==
  /\ cmd[c].st = "idle" /\ \A d \in Commands : cmd[d].age = 0
  /\ kind = "stamped" /\ Alone => \A d \in Commands : cmd[d].st = "idle"
  /\ \E refresh \in BOOLEAN : Goes(c, [st |-> "reading", refresh |-> refresh])
  /\ UNCHANGED <<World, Cache, given, wrongs>>

\* state.channels(), and a list that is fresh is the answer; state.bag() is read
\* before the fetch is sent.
Read(c) ==
  /\ cmd[c].st = "reading"
  /\ IF kind # "unkept" /\ ~cmd[c].refresh /\ fresh(stored, cmd[c].age)
       THEN Goes(c, [st |-> "saving", list |-> selected(c, stored.list)])
       ELSE Goes(c, [st |-> "asking", bag |-> bag,
                     held |-> IF kind = "unkept" THEN NoList ELSE held(stored, cmd[c].age),
                     before |-> IF kind = "unkept" THEN 0 ELSE metadata(stored)])
  /\ UNCHANGED <<World, Cache, given, wrongs>>

(* A list is stored as of now, before the selection, with what the site said   *)
(* of it or what was said of the one before; and what it put in its bag.       *)
StoresSelected(c, list, said, put) ==  \* mutant
  LET group == [list |-> selected(c, list), about |-> IF said = 0 THEN cmd[c].before ELSE said,
                age |-> 0]
  IN  Goes(c, [st |-> "saving", list |-> selected(c, list), held |-> NoList, about |-> 0,
               refresh |-> FALSE, bag |-> IF put = cmd[c].bag THEN 0 ELSE put,
               dirty |-> put # cmd[c].bag,
               group |-> IF kind = "unkept" THEN NoList ELSE group])
Stores(c, list, said, put) ==
  LET group == [list |-> list, about |-> IF said = 0 THEN cmd[c].before ELSE said, age |-> 0]
  IN  Goes(c, [st |-> "saving", list |-> selected(c, list), held |-> NoList, about |-> 0,
               refresh |-> FALSE, bag |-> IF put = cmd[c].bag THEN 0 ELSE put,
               dirty |-> put # cmd[c].bag,
               group |-> IF kind = "unkept" THEN NoList ELSE group])

(* What a site handed its last list asks first: whether the source has changed *)
(* since then, or is what its bag says.  What it said of the list it is not    *)
(* handed, so one that goes by that fetches every time.                        *)
UnchangedWhenAsked(c) ==  \* mutant
  /\ ~cmd[c].refresh /\ cmd[c].held # NoList
  /\ CASE kind = "since" -> since[source - 1] >= cmd[c].age
       [] kind = "stamped" -> cmd[c].bag = source
       [] OTHER -> FALSE
Unchanged(c) ==
  /\ ~cmd[c].refresh /\ cmd[c].held # NoList
  /\ CASE kind = "since" -> since[source - 1] > cmd[c].held.age + cmd[c].age
       [] kind = "stamped" -> cmd[c].bag = source
       [] OTHER -> FALSE

LookUp(c) ==
  /\ cmd[c].st = "asking"
  /\ IF Unchanged(c) THEN Stores(c, cmd[c].held.list, 0, cmd[c].bag)
                     ELSE Goes(c, [st |-> "fetching", about |-> source])
  /\ UNCHANGED <<World, Cache, given, wrongs>>

Fetch(c) ==
  /\ cmd[c].st = "fetching"
  /\ Stores(c, Whole(source), IF kind = "told" THEN cmd[c].about ELSE 0,
            IF kind = "stamped" THEN cmd[c].about ELSE cmd[c].bag)
  /\ UNCHANGED <<World, Cache, given, wrongs>>

\* Whatever is thrown, what was learnt on the way is saved.
Fails(c) == Goes(c, [st |-> "saving", list |-> NoList, held |-> NoList, about |-> 0,
                     refresh |-> FALSE])

(* A source that does not answer has its last list stand in, of whatever age,  *)
(* which is not stored again; unless the command was called off.               *)
Unanswered(c) ==
  /\ cmd[c].st \in {"asking", "fetching"} /\ Wrong("unanswered")
  /\ \E aborted \in BOOLEAN :
       IF cmd[c].held = NoList \/ aborted
         THEN Fails(c)
         ELSE Goes(c, [st |-> "saving", list |-> selected(c, cmd[c].held.list), held |-> NoList,
                       about |-> 0, refresh |-> FALSE, down |-> TRUE])
  /\ UNCHANGED <<World, Cache, given>>

\* An answer found wanting, a store that cannot be read, or a list of more than plain data.
Refused(c) ==
  /\ cmd[c].st \in {"reading", "asking", "fetching"} /\ Wrong("refused")
  /\ Fails(c)
  /\ UNCHANGED <<World, Cache, given>>

(* SiteStateHandle.save: the groups that changed, in the order they were asked *)
(* for.  One the store refuses leaves the rest, and rejects the settling.      *)
Ends(c) == cmd' = [cmd EXCEPT ![c] = Resting]
Answers(c) == given' = IF cmd[c].list = NoList THEN given ELSE cmd[c].list

SaveList(c) ==
  /\ cmd[c].st = "saving"
  /\ stored' = IF cmd[c].group = NoList THEN stored
                                        ELSE [cmd[c].group EXCEPT !.age = cmd[c].age]
  /\ \/ cmd[c].dirty /\ Goes(c, [st |-> "putting"]) /\ UNCHANGED given
     \/ ~cmd[c].dirty /\ Ends(c) /\ Answers(c)
  /\ UNCHANGED <<World, bag, wrongs>>

SaveBag(c) ==
  /\ cmd[c].st = "putting"
  /\ bag' = cmd[c].bag
  /\ Ends(c) /\ Answers(c)
  /\ UNCHANGED <<World, stored, wrongs>>

SaveFails(c) ==
  /\ \/ cmd[c].st = "saving" /\ cmd[c].group # NoList
     \/ cmd[c].st = "putting"
  /\ Wrong("store") /\ Ends(c)
  /\ UNCHANGED <<World, Cache, given>>

Killed(c) ==
  /\ cmd[c].st # "idle" /\ Wrong("kill")
  /\ cmd' = [cmd EXCEPT ![c] = Resting]
  /\ UNCHANGED <<World, Cache, given>>

Works == \E c \in Commands :
  Begin(c) \/ Read(c) \/ LookUp(c) \/ Fetch(c) \/ SaveList(c) \/ SaveBag(c)
Upsets == \E c \in Commands : Unanswered(c) \/ Refused(c) \/ SaveFails(c) \/ Killed(c)

Next == Works \/ Upsets \/ Changes \/ Ticks
Spec == Init /\ [][Next]_vars /\ WF_vars(Works) /\ WF_vars(Ticks)

-----------------------------------------------------------------------------
\* A list stored is a whole one, and one the source had within the time it is
\* said to be stored, and what describes it was said of it or of one before; and
\* a command's answer is no older than lists may be, or the source it asked did
\* not answer it.
ListIsOfItsTime ==
  /\ stored # NoList => stored.list.all
  /\ stored # NoList => stored.about <= stored.list.of
  /\ stored # NoList /\ stored.age # Far => since[stored.list.of] <= stored.age
  /\ \A c \in Commands : cmd[c].list # NoList /\ ~cmd[c].down =>
       since[cmd[c].list.of] <= MaxAge + cmd[c].age

\* Where a bag holds the stamps of a list, the list stored is no older than them:
\* what grabber/types.ts:316 has an adapter that keeps either to itself rely on.
StampsStandForList ==
  kind = "stamped" /\ stored # NoList /\ (\A c \in Commands : cmd[c].st = "idle") =>
    bag <= stored.list.of

\* The source having changed for the last time, commands come to its list.
AsTheSource == given # NoList /\ given.of = source
Follows == <>[]AsTheSource
=============================================================================
