---------------------------- MODULE CacheProofs -----------------------------
(* What the cache as files promises, for any channels, days, writes and     *)
(* looks: TypeOK, WholeOrNot, KeptDaysStay and WritesAreClean.  And what a run *)
(* makes of the days it is asked for and of what is in the cache, for any      *)
(* zones, windows, channels and caps: the clocks it reads, the days a site is  *)
(* asked for, what is asked for again, the requests that is cut into, and when *)
(* the next run begins.                                                        *)
EXTENDS CacheFiles, FiniteSetTheorems, SequenceTheorems, WellFoundedInduction, TLAPS

CONSTANTS DayLen, Unbounded

P == INSTANCE Planning

-----------------------------------------------------------------------------
(* The files of the cache.                                                     *)
Halves == [by : Writes, whole : {FALSE}]

\* A write's temporary file is there from its opening to its rename, and what it
\* is of is known from its beginning; and no half of an entry is where a look
\* would read it.
Beginnings ==
  \A w \in Writes : /\ write[w].st # "idle" => write[w].at \in Entries
                    /\ write[w].st \in {"writing", "renaming"} => w \in temp
                    /\ w \in temp => write[w].st # "idle"
Wholes == /\ \A e \in Entries : file[e] \notin Halves
          /\ \A r \in Looks : look[r].got \notin Halves
FilesInv == TypeOK /\ Beginnings /\ Wholes

(* What an entry may be.                                                   *)
LEMMA EntryKinds ==
  /\ \A w \in Writes : /\ Whole(w) \in Contents /\ Whole(w) \notin Halves
                       /\ Whole(w) # Absent /\ Partial(w) \in Halves
  /\ Absent \notin Halves /\ Bad \notin Halves /\ Good \notin Halves
  /\ Absent \notin {Bad, Good}
<1> DEFINE S == [by : Writes, whole : BOOLEAN]
<1>1. Halves \subseteq S
  BY DEF Halves
<1>2. /\ Absent \notin S /\ Bad \notin S /\ Good \notin S
      /\ Absent \notin {Bad, Good}
  BY CacheAssumption
<1>3. ASSUME NEW w \in Writes
      PROVE  Whole(w) \in S /\ Whole(w) \notin Halves /\ Partial(w) \in Halves
  BY DEF Whole, Partial, Halves
<1> QED BY <1>1, <1>2, <1>3 DEF Contents

LEMMA MayType == \A x \in Writes \cup Looks : May[x] \subseteq Entries
BY CacheAssumption

LEMMA FilesInit == Init => FilesInv
<1> SUFFICES ASSUME Init PROVE FilesInv
  OBVIOUS
<1>1. file \in [Entries -> {Absent, Bad, Good}]
  BY DEF Init
<1>2. \A e \in Entries : file[e] # Absent => e[1] \in dirs
  BY DEF Init
<1>3. TypeOK
  BY <1>1, <1>2 DEF Init, TypeOK, Idle, Contents, WriteStates, WalkStates
<1>4. Beginnings
  BY DEF Init, Beginnings, Idle
<1>5. Wholes
  BY <1>1, EntryKinds DEF Init, Wholes
<1> QED BY <1>3, <1>4, <1>5 DEF FilesInv

(* A step of a write that changes no file but its own temporary one.       *)
GoType(w, st) ==
  /\ write' \in [Writes -> [st : WriteStates, at : Entries \cup {None}, again : BOOLEAN]]
  /\ \A v \in Writes : /\ write'[v].at = write[v].at /\ write'[v].again = write[v].again
                       /\ v # w => write'[v].st = write[v].st
  /\ write'[w].st = st

LEMMA GotoType ==
  ASSUME TypeOK, NEW w \in Writes, NEW st \in WriteStates, Goto(w, st)
  PROVE  GoType(w, st)
<1> DEFINE R == [st : WriteStates, at : Entries \cup {None}, again : BOOLEAN]
<1>1. write \in [Writes -> R] /\ write[w] \in R
  BY DEF TypeOK
<1>2. write' = [write EXCEPT ![w] = [write[w] EXCEPT !.st = st]]
  BY DEF Goto
<1>3. /\ [write[w] EXCEPT !.st = st] \in R
      /\ [write[w] EXCEPT !.st = st].st = st
      /\ [write[w] EXCEPT !.st = st].at = write[w].at
      /\ [write[w] EXCEPT !.st = st].again = write[w].again
  BY <1>1
<1> QED BY <1>1, <1>2, <1>3 DEF GoType

(* A write that goes on, its temporary file and the directories as they     *)
(* were, or the file removed.                                              *)
LEMMA GotoKeeps ==
  ASSUME FilesInv, NEW w \in Writes, NEW st \in WriteStates \ {"idle"}, Goto(w, st),
         write[w].st # "idle",
         temp' = temp \/ temp' = temp \ {w},
         st \in {"writing", "renaming"} => w \in temp',
         UNCHANGED <<site, dirs, file, look, prune, walk, aborted>>
  PROVE  FilesInv'
<1>1. GoType(w, st)
  BY GotoType DEF FilesInv
<1>2. Beginnings'
  BY <1>1 DEF FilesInv, Beginnings, GoType
<1>3. TypeOK'
  BY <1>1 DEF FilesInv, TypeOK, GoType, Channel
<1>4. Wholes'
  BY DEF FilesInv, Wholes
<1> QED BY <1>2, <1>3, <1>4 DEF FilesInv

(* A write begins, of an entry it may be of.                               *)
LEMMA BeginKeeps ==
  ASSUME FilesInv, NEW w \in Writes, Begin(w)
  PROVE  FilesInv'
<1> DEFINE R == [st : WriteStates, at : Entries \cup {None}, again : BOOLEAN]
<1>1. PICK e \in May[w] :
        write' = [write EXCEPT ![w] = [write[w] EXCEPT !.st = "opening", !.at = e]]
  BY DEF Begin
<1>2. e \in Entries
  BY MayType
<1>3. write \in [Writes -> R] /\ write[w] \in R
  BY DEF FilesInv, TypeOK
<1>4. /\ write' \in [Writes -> R]
      /\ write'[w].st = "opening" /\ write'[w].at = e
      /\ \A v \in Writes \ {w} : write'[v] = write[v]
  BY <1>1, <1>2, <1>3 DEF WriteStates
<1>5. w \notin temp
  BY DEF FilesInv, Beginnings, Begin
<1>6. Beginnings'
  BY <1>2, <1>4, <1>5 DEF FilesInv, Beginnings, Begin, files
<1>7. TypeOK'
  BY <1>4, <1>5 DEF FilesInv, TypeOK, Begin, files, Channel
<1>8. Wholes'
  BY DEF FilesInv, Wholes, Begin, files
<1> QED BY <1>6, <1>7, <1>8 DEF FilesInv

(* The temporary file is opened in a directory that is there.              *)
LEMMA OpenKeeps ==
  ASSUME FilesInv, NEW w \in Writes, Open(w)
  PROVE  FilesInv'
<1>1. CASE Channel(w) \in dirs
  <2>1. Goto(w, "writing") /\ temp' = temp \cup {w}
        /\ UNCHANGED <<site, dirs, file, look, prune, walk, aborted>>
    BY <1>1 DEF Open, Beside
  <2>2. GoType(w, "writing")
    BY <2>1, GotoType DEF FilesInv, WriteStates
  <2>3. Beginnings'
    BY <2>1, <2>2 DEF FilesInv, Beginnings, GoType, Open
  <2>4. TypeOK'
    BY <1>1, <2>1, <2>2 DEF FilesInv, TypeOK, GoType, Channel
  <2>5. Wholes'
    BY <2>1 DEF FilesInv, Wholes
  <2> QED BY <2>3, <2>4, <2>5 DEF FilesInv
<1>2. CASE Channel(w) \notin dirs
  <2>1. PICK st \in {"gone", "missing"} : Goto(w, st)
    BY <1>2 DEF Open
  <2> QED BY <1>2, <2>1, GotoKeeps DEF Open, WriteStates
<1> QED BY <1>1, <1>2

(* The directory of the write's channel is made, and the site's with it.   *)
LEMMA MakeDirKeeps ==
  ASSUME FilesInv, NEW w \in Writes, MakeDir(w)
  PROVE  FilesInv'
<1>1. CASE aborted
  BY <1>1, GotoKeeps DEF MakeDir, WriteStates
<1>2. CASE ~aborted
  <2> DEFINE R == [st : WriteStates, at : Entries \cup {None}, again : BOOLEAN]
  <2>1. /\ write' = [write EXCEPT ![w] = [write[w] EXCEPT !.st = "opening", !.again = TRUE]]
        /\ site' = TRUE /\ dirs' = dirs \cup {Channel(w)}
        /\ UNCHANGED <<file, temp, look, prune, walk, aborted>>
    BY <1>2 DEF MakeDir
  <2>2. write \in [Writes -> R] /\ write[w] \in R
    BY DEF FilesInv, TypeOK
  <2>3. /\ write' \in [Writes -> R]
        /\ write'[w].st = "opening" /\ write'[w].at = write[w].at
        /\ \A v \in Writes \ {w} : write'[v] = write[v]
    BY <2>1, <2>2 DEF WriteStates
  <2>4. Channel(w) \in Channels
    BY DEF FilesInv, Beginnings, MakeDir, Channel, Entries
  <2>5. Beginnings'
    BY <2>1, <2>3 DEF FilesInv, Beginnings, MakeDir
  <2>6. TypeOK'
    BY <2>1, <2>3, <2>4 DEF FilesInv, TypeOK, Channel
  <2>7. Wholes'
    BY <2>1 DEF FilesInv, Wholes
  <2> QED BY <2>5, <2>6, <2>7 DEF FilesInv
<1> QED BY <1>1, <1>2

(* The rename puts a whole entry where its temporary file kept a directory. *)
LEMMA RenameKeeps ==
  ASSUME FilesInv, NEW w \in Writes, Rename(w)
  PROVE  FilesInv'
<1>1. /\ file' = [file EXCEPT ![write[w].at] = Whole(w)]
      /\ temp' = temp \ {w} /\ Goto(w, "done")
      /\ UNCHANGED <<site, dirs, look, prune, walk, aborted>>
  BY DEF Rename
<1>2. GoType(w, "done")
  BY <1>1, GotoType DEF FilesInv, WriteStates
<1>3. write[w].at \in Entries /\ write[w].at[1] \in dirs
  BY DEF FilesInv, TypeOK, Beginnings, Rename, Channel
<1>4. file' \in [Entries -> Contents \cup {Absent}]
  BY <1>1, <1>3, EntryKinds DEF FilesInv, TypeOK
<1>5. Beginnings'
  BY <1>1, <1>2 DEF FilesInv, Beginnings, GoType, Rename
<1>6. TypeOK'
  BY <1>1, <1>2, <1>3, <1>4 DEF FilesInv, TypeOK, GoType, Channel
<1>7. Wholes'
  BY <1>1, <1>3, EntryKinds DEF FilesInv, TypeOK, Wholes
<1> QED BY <1>5, <1>6, <1>7 DEF FilesInv

LEMMA WriteKeeps ==
  ASSUME FilesInv, NEW w \in Writes, Begin(w) \/ Writing(w) \/ Kill(w)
  PROVE  FilesInv'
<1>1. CASE Begin(w) \/ Open(w) \/ MakeDir(w) \/ Rename(w)
  BY <1>1, BeginKeeps, OpenKeeps, MakeDirKeeps, RenameKeeps
<1>2. CASE Written(w)
  BY <1>2, GotoKeeps DEF Written, files, WriteStates, FilesInv, Beginnings
<1>3. CASE WriteFails(w)
  BY <1>3, GotoKeeps DEF WriteFails, Fails, files, WriteStates
<1>4. CASE Discard(w)
  BY <1>4, GotoKeeps DEF Discard, WriteStates
<1>5. CASE Kill(w)
  BY <1>5, GotoKeeps DEF Kill, files, WriteStates
<1> QED BY <1>1, <1>2, <1>3, <1>4, <1>5 DEF Writing

(* A look reads an entry that is whole, and removes one by its name.       *)
LEMMA LookKeeps ==
  ASSUME FilesInv, NEW r \in Looks, Look(r) \/ Remove(r)
  PROVE  FilesInv'
<1> DEFINE R == [st : {"idle", "judged", "done"}, at : Entries \cup {None},
                 got : Contents \cup {Absent}]
<1>0. look \in [Looks -> R] /\ look[r] \in R /\ file \in [Entries -> Contents \cup {Absent}]
  BY DEF FilesInv, TypeOK
<1>1. CASE Look(r)
  <2>1. PICK e \in May[r] :
          look' = [look EXCEPT ![r] = [st |-> IF file[e] = Bad THEN "judged" ELSE "done",
                                       at |-> e, got |-> file[e]]]
    BY <1>1 DEF Look
  <2>2. e \in Entries /\ file[e] \in Contents \cup {Absent}
    BY <1>0, MayType
  <2>3. look' \in [Looks -> R] /\ \A q \in Looks : look'[q].got \in {look[q].got, file[e]}
    BY <1>0, <2>1, <2>2
  <2>4. UNCHANGED <<files, write, prune, walk, aborted>>
    BY <1>1 DEF Look
  <2>5. TypeOK'
    BY <2>3, <2>4 DEF FilesInv, TypeOK, files, Channel
  <2>6. Beginnings' /\ Wholes'
    BY <2>2, <2>3, <2>4 DEF FilesInv, Beginnings, Wholes, files
  <2> QED BY <2>5, <2>6 DEF FilesInv
<1>2. CASE Remove(r)
  <2>1. /\ file' = [file EXCEPT ![look[r].at] = Absent]
        /\ look' = [look EXCEPT ![r].st = "done"]
        /\ UNCHANGED <<site, dirs, temp, write, prune, walk, aborted>>
    BY <1>2 DEF Remove
  <2>2. /\ file' \in [Entries -> Contents \cup {Absent}]
        /\ \A e \in Entries : file'[e] \in {file[e], Absent}
    BY <1>0, <2>1
  <2>3. look' \in [Looks -> R] /\ \A q \in Looks : look'[q].got = look[q].got
    BY <1>0, <2>1
  <2>4. TypeOK'
    BY <2>1, <2>2, <2>3 DEF FilesInv, TypeOK, Channel
  <2>5. Beginnings' /\ Wholes'
    BY <2>1, <2>2, <2>3, EntryKinds DEF FilesInv, Beginnings, Wholes
  <2> QED BY <2>4, <2>5 DEF FilesInv
<1> QED BY <1>1, <1>2

(* A step of the prune in one channel, that leaves the writes alone.       *)
LEMMA PruningKeeps ==
  ASSUME FilesInv, NEW c \in Channels, Pruning(c)
  PROVE  FilesInv'
<1> DEFINE R == [st : WalkStates, stale : SUBSET OldDays, found : SUBSET OldDays]
<1>0. /\ walk \in [Channels -> R] /\ walk[c] \in R
      /\ file \in [Entries -> Contents \cup {Absent}]
  BY DEF FilesInv, TypeOK
<1>1. CASE ListDays(c)
  <2>1. Stale(c) \subseteq OldDays
    BY DEF Stale
  <2>2. walk' \in [Channels -> R] /\ UNCHANGED <<files, write, look, prune, aborted>>
    BY <1>0, <1>1, <2>1 DEF ListDays, WalkStates
  <2> QED BY <2>2 DEF FilesInv, TypeOK, Beginnings, Wholes, files, Channel
<1>2. ASSUME NEW d \in Days, RemoveDay(c, d) PROVE FilesInv'
  <2>1. /\ file' = [file EXCEPT ![<<c, d>>] = Absent]
        /\ walk' = [walk EXCEPT ![c].stale = @ \ {d}]
        /\ UNCHANGED <<site, dirs, temp, write, look, prune, aborted>>
    BY <1>2 DEF RemoveDay
  <2>2. walk' \in [Channels -> R]
    BY <1>0, <2>1
  <2>3. /\ file' \in [Entries -> Contents \cup {Absent}]
        /\ \A e \in Entries : file'[e] \in {file[e], Absent}
    BY <1>0, <2>1
  <2>4. TypeOK'
    BY <2>1, <2>2, <2>3 DEF FilesInv, TypeOK, Channel
  <2>5. Beginnings' /\ Wholes'
    BY <2>1, <2>3, EntryKinds DEF FilesInv, Beginnings, Wholes
  <2> QED BY <2>4, <2>5 DEF FilesInv
<1>3. CASE DaysRemoved(c)
  <2>1. IsFiniteSet(walk[c].found)
    BY <1>0, CacheAssumption, FS_Subset
  <2>2. Cardinality(walk[c].found) \in Nat
    BY <2>1, FS_CardinalityType
  <2>3. /\ prune' \in [st : {"idle", "walking", "stopped", "done"}, removed : Nat]
        /\ walk' \in [Channels -> R]
        /\ UNCHANGED <<files, write, look, aborted>>
    BY <1>0, <1>3, <2>2 DEF DaysRemoved, AddUp, FilesInv, TypeOK, WalkStates
  <2> QED BY <2>3 DEF FilesInv, TypeOK, Beginnings, Wholes, files, Channel
<1>4. CASE RemoveChannel(c)
  <2>1. /\ RemoveIfEmpty(c) /\ walk' = [walk EXCEPT ![c].st = "done"]
        /\ UNCHANGED <<site, file, temp, write, look, prune, aborted>>
    BY <1>4 DEF RemoveChannel, RemoveIfEmpty
  <2>2. walk' \in [Channels -> R]
    BY <1>0, <2>1 DEF WalkStates
  <2>3. Beginnings' /\ Wholes'
    BY <2>1 DEF FilesInv, Beginnings, Wholes
  <2>4. /\ \A e \in Entries : file[e] # Absent => e[1] \in dirs'
        /\ \A w \in temp : Channel(w) \in dirs'
    <3>1. \A e \in Entries : e = <<e[1], e[2]>> /\ e[2] \in Days
      BY DEF Entries
    <3> QED BY <2>1, <3>1 DEF RemoveIfEmpty, Empty, FilesInv, TypeOK
  <2>5. dirs' \subseteq dirs
    BY <2>1 DEF RemoveIfEmpty
  <2>6. TypeOK'
    BY <2>1, <2>2, <2>4, <2>5 DEF FilesInv, TypeOK, Channel
  <2> QED BY <2>3, <2>6 DEF FilesInv
<1> QED BY <1>1, <1>2, <1>3, <1>4 DEF Pruning

LEMMA FilesNext == FilesInv /\ [Next]_vars => FilesInv'
<1> SUFFICES ASSUME FilesInv, [Next]_vars PROVE FilesInv'
  OBVIOUS
<1>1. CASE \E w \in Writes : Begin(w) \/ Writing(w) \/ Kill(w)
  BY <1>1, WriteKeeps
<1>2. CASE \E r \in Looks : Look(r) \/ Remove(r)
  BY <1>2, LookKeeps
<1>3. CASE StartPrune
  <2>1. /\ prune' = [prune EXCEPT !.st = "walking"]
        /\ walk' = [c \in Channels |->
                      [walk[c] EXCEPT !.st = IF c \in dirs THEN "listing" ELSE "done"]]
        /\ UNCHANGED <<files, write, look, aborted>>
    BY <1>3 DEF StartPrune
  <2> DEFINE R == [st : WalkStates, stale : SUBSET OldDays, found : SUBSET OldDays]
  <2>2. ASSUME NEW c \in Channels, NEW st \in WalkStates
        PROVE  [walk[c] EXCEPT !.st = st] \in R
    <3>1. walk[c] \in R
      BY DEF FilesInv, TypeOK
    <3> QED BY <3>1
  <2>3. walk' \in [Channels -> R]
    BY <2>1, <2>2 DEF WalkStates
  <2>4. prune' \in [st : {"idle", "walking", "stopped", "done"}, removed : Nat]
    BY <2>1 DEF FilesInv, TypeOK
  <2> QED BY <2>1, <2>3, <2>4 DEF FilesInv, TypeOK, Beginnings, Wholes, files, Channel
<1>4. CASE \E c \in Channels : Pruning(c)
  BY <1>4, PruningKeeps
<1>5. CASE EndPrune
  <2>1. /\ prune' \in [st : {"idle", "walking", "stopped", "done"}, removed : Nat]
        /\ site' \in {site, site /\ dirs # {}}
        /\ UNCHANGED <<dirs, file, temp, write, look, walk, aborted>>
    BY <1>5 DEF EndPrune, FilesInv, TypeOK
  <2> QED BY <2>1 DEF FilesInv, TypeOK, Beginnings, Wholes, Channel
<1>6. CASE Abort
  BY <1>6 DEF Abort, FilesInv, TypeOK, Beginnings, Wholes, files, Channel
<1>7. CASE UNCHANGED vars
  BY <1>7 DEF vars, FilesInv, TypeOK, Beginnings, Wholes, files, Channel
<1> QED BY <1>1, <1>2, <1>3, <1>4, <1>5, <1>6, <1>7 DEF Next

LEMMA FilesInvariant == Spec => []FilesInv
BY FilesInit, FilesNext, PTL DEF Spec

(* Every variable of the cache's files keeps its type, and a file is only   *)
(* where its directory is.                                                 *)
THEOREM FilesTyped == Spec => []TypeOK
<1>1. FilesInv => TypeOK
  BY DEF FilesInv
<1> QED BY <1>1, FilesInvariant, PTL

(* No look reads half an entry, of any number of writes, looks and prunes.  *)
THEOREM LooksReadWhole == Spec => []WholeOrNot
<1>1. FilesInv => WholeOrNot
  BY EntryKinds DEF FilesInv, Wholes, WholeOrNot
<1> QED BY <1>1, FilesInvariant, PTL

\* A step that takes a kept day's entry away is a look's, of one it could not use.
KeptStep ==
  \A e \in Channels \X NewDays :
    file[e] # Absent /\ file'[e] = Absent
      => \E r \in Looks : look[r].st = "judged" /\ look[r].at = e

LEMMA DaysKeptNext == FilesInv /\ Next => KeptStep
<1> SUFFICES ASSUME FilesInv, Next,
                    NEW e \in Channels \X NewDays, file[e] # Absent, file'[e] = Absent
             PROVE  \E r \in Looks : look[r].st = "judged" /\ look[r].at = e
  BY DEF KeptStep
<1>1. e \in Entries /\ e = <<e[1], e[2]>> /\ e[2] \in NewDays
  BY DEF Entries, Days
<1>2. file \in [Entries -> Contents \cup {Absent}]
  BY DEF FilesInv, TypeOK
<1>3. ASSUME NEW w \in Writes, Rename(w) PROVE FALSE
  <2>1. file' = [file EXCEPT ![write[w].at] = Whole(w)] /\ Whole(w) # Absent
    BY <1>3, EntryKinds DEF Rename
  <2> QED BY <1>1, <1>2, <2>1
<1>4. ASSUME NEW c \in Channels, NEW d \in Days, RemoveDay(c, d) PROVE FALSE
  <2>1. d \in OldDays /\ d \notin NewDays
    BY <1>4, CacheAssumption DEF RemoveDay, FilesInv, TypeOK
  <2>2. file' = [file EXCEPT ![<<c, d>>] = Absent]
    BY <1>4 DEF RemoveDay
  <2> QED BY <1>1, <1>2, <2>1, <2>2
<1>5. ASSUME NEW r \in Looks, Remove(r) PROVE look[r].st = "judged" /\ look[r].at = e
  <2>1. look[r].st = "judged" /\ file' = [file EXCEPT ![look[r].at] = Absent]
    BY <1>5 DEF Remove
  <2> QED BY <1>1, <1>2, <2>1
<1>6. \/ file' = file
      \/ \E w \in Writes : Rename(w)
      \/ \E c \in Channels, d \in Days : RemoveDay(c, d)
      \/ \E r \in Looks : Remove(r)
  BY DEF Next, Begin, Writing, Open, Beside, MakeDir, Written, WriteFails, Discard, Kill,
         Look, StartPrune, Pruning, ListDays, DaysRemoved, RemoveChannel, RemoveIfEmpty,
         EndPrune, Abort, files
<1> QED BY <1>3, <1>4, <1>5, <1>6

(* The entry of a day a prune keeps is removed by nothing but a look that   *)
(* had read one it could not use.                                          *)
THEOREM KeptDays == Spec => KeptDaysStay
<1>1. FilesInv /\ [Next]_vars => [KeptStep]_vars
  BY DaysKeptNext
<1>2. Spec => [][KeptStep]_vars
  BY <1>1, FilesInvariant, PTL DEF Spec
<1> QED BY <1>2 DEF KeptDaysStay, KeptStep

-----------------------------------------------------------------------------
(* Why writes are clean (WritesAreClean).  A write's temporary file is that *)
(* of one under way or killed; one made a directory for has it, until a     *)
(* prune; and a prune has counted what the channels it is done with held.   *)
Tidy == \A w \in temp : write[w].st \in {"writing", "failing", "renaming", "killed"}

Homed ==
  prune.st = "idle" =>
    /\ \A c \in Channels : walk[c].st = "none"
    /\ \A w \in Writes : /\ write[w].st # "gone"
                         /\ write[w].again => write[w].st # "idle" /\ Channel(w) \in dirs

Behind == {"emptied", "done"}
CountedDays == {e \in Channels \X OldDays :
                  walk[e[1]].st \in Behind /\ e[2] \in walk[e[1]].found}
Tallied ==
  /\ \A c \in Channels : walk[c].st \in {"none", "listing", "stopped"} => walk[c].found = {}
  /\ prune.st = "done" => \A c \in Channels : walk[c].st = "done"
  /\ prune.removed = Cardinality(CountedDays)

CleanInv == FilesInv /\ Tidy /\ Homed /\ Tallied

LEMMA CleanInit == Init => Tidy /\ Homed /\ Tallied
<1> SUFFICES ASSUME Init PROVE Tidy /\ Homed /\ Tallied
  OBVIOUS
<1>1. Tidy /\ Homed
  BY DEF Init, Tidy, Homed, Idle
<1>2. CountedDays = {}
  BY DEF Init, CountedDays, Behind
<1>3. Tallied
  BY <1>2, FS_EmptySet DEF Init, Tallied
<1> QED BY <1>1, <1>3

(* A write that goes on, by where it goes: none is gone before a prune.    *)
LEMMA GotoClean ==
  ASSUME FilesInv, Tidy, Homed, NEW w \in Writes, NEW st \in WriteStates \ {"idle"}, Goto(w, st),
         write[w].st # "idle",
         temp' = temp \/ temp' = temp \ {w} \/ temp' = temp \cup {w},
         w \in temp' => st \in {"writing", "failing", "renaming", "killed"},
         st = "gone" => prune.st # "idle",
         UNCHANGED <<dirs, prune, walk>>
  PROVE  Tidy' /\ Homed'
<1>1. GoType(w, st)
  BY GotoType DEF FilesInv
<1>2. temp \subseteq Writes
  BY DEF FilesInv, TypeOK
<1>3. Tidy'
  BY <1>1, <1>2 DEF Tidy, GoType
<1>4. Homed'
  BY <1>1 DEF Homed, GoType, Channel
<1> QED BY <1>3, <1>4

LEMMA WriteClean ==
  ASSUME FilesInv, Tidy, Homed, NEW w \in Writes, Begin(w) \/ Writing(w) \/ Kill(w)
  PROVE  Tidy' /\ Homed'
<1> DEFINE R == [st : WriteStates, at : Entries \cup {None}, again : BOOLEAN]
<1>0. write \in [Writes -> R] /\ write[w] \in R
  BY DEF FilesInv, TypeOK
<1>1. CASE Begin(w)
  <2>1. PICK e \in May[w] :
          write' = [write EXCEPT ![w] = [write[w] EXCEPT !.st = "opening", !.at = e]]
    BY <1>1 DEF Begin
  <2>2. /\ write'[w].st = "opening" /\ write'[w].again = write[w].again
        /\ \A v \in Writes \ {w} : write'[v] = write[v]
        /\ UNCHANGED <<files, prune, walk>> /\ write[w].st = "idle"
    BY <1>0, <1>1, <2>1 DEF Begin
  <2>3. w \notin temp /\ temp \subseteq Writes
    BY <2>2 DEF FilesInv, TypeOK, Beginnings
  <2>4. Tidy'
    BY <2>2, <2>3 DEF Tidy, files
  <2>5. Homed'
    BY <2>2 DEF Homed, files, Channel
  <2> QED BY <2>4, <2>5
<1>2. CASE Open(w)
  <2>1. /\ UNCHANGED <<dirs, prune, walk>> /\ write[w].st = "opening"
        /\ w \notin temp \/ write[w].st \in {"writing", "failing", "renaming", "killed"}
    BY <1>2 DEF Open, Tidy
  <2>2. CASE Channel(w) \in dirs
    <3>1. Goto(w, "writing") /\ temp' = temp \cup {w}
      BY <1>2, <2>2 DEF Open, Beside
    <3> QED BY <2>1, <3>1, GotoClean DEF WriteStates
  <2>3. CASE Channel(w) \notin dirs /\ Again(w)
    <3>1. Goto(w, "gone") /\ temp' = temp
      BY <1>2, <2>3 DEF Open
    <3>2. prune.st # "idle"
      BY <2>3 DEF Homed, Again
    <3> QED BY <2>1, <3>1, <3>2, GotoClean DEF WriteStates
  <2>4. CASE Channel(w) \notin dirs /\ ~Again(w)
    <3>1. Goto(w, "missing") /\ temp' = temp
      BY <1>2, <2>4 DEF Open
    <3> QED BY <2>1, <3>1, GotoClean DEF WriteStates
  <2> QED BY <2>2, <2>3, <2>4
<1>3. CASE MakeDir(w) /\ aborted
  BY <1>3, GotoClean DEF MakeDir, WriteStates, Tidy
<1>4. CASE MakeDir(w) /\ ~aborted
  <2>1. /\ write' = [write EXCEPT ![w] = [write[w] EXCEPT !.st = "opening", !.again = TRUE]]
        /\ dirs' = dirs \cup {Channel(w)} /\ write[w].st = "missing"
        /\ UNCHANGED <<temp, prune, walk>>
    BY <1>4 DEF MakeDir
  <2>2. /\ write'[w].st = "opening" /\ write'[w].at = write[w].at
        /\ \A v \in Writes \ {w} : write'[v] = write[v]
    BY <1>0, <2>1
  <2>3. Tidy'
    BY <2>1, <2>2 DEF Tidy, FilesInv, TypeOK
  <2>4. Homed'
    BY <2>1, <2>2 DEF Homed, Channel
  <2> QED BY <2>3, <2>4
<1>5. CASE Written(w)
  BY <1>5, GotoClean DEF Written, files, WriteStates
<1>6. CASE WriteFails(w)
  BY <1>6, GotoClean DEF WriteFails, Fails, files, WriteStates
<1>7. CASE Discard(w)
  BY <1>7, GotoClean DEF Discard, WriteStates
<1>8. CASE Rename(w)
  BY <1>8, GotoClean DEF Rename, WriteStates
<1>9. CASE Kill(w)
  BY <1>9, GotoClean DEF Kill, files, WriteStates
<1> QED BY <1>1, <1>2, <1>3, <1>4, <1>5, <1>6, <1>7, <1>8, <1>9 DEF Writing

LEMMA TallySame ==
  ASSUME Tallied, UNCHANGED <<prune, walk>>
  PROVE  Tallied'
BY DEF Tallied, CountedDays

(* A channel is counted once, with as many days as were found in it.       *)
LEMMA CountedFinite ==
  IsFiniteSet(CountedDays)
<1>1. IsFiniteSet(Channels \X OldDays)
  BY CacheAssumption, FS_Product
<1> QED BY <1>1, FS_Subset DEF CountedDays

LEMMA RowCounts ==
  ASSUME NEW c, NEW S, IsFiniteSet(S)
  PROVE  IsFiniteSet({c} \X S) /\ Cardinality({c} \X S) = Cardinality(S)
<1>1. IsFiniteSet({c}) /\ Cardinality({c}) = 1
  BY FS_Singleton
<1>2. /\ IsFiniteSet({c} \X S)
      /\ Cardinality({c} \X S) = Cardinality({c}) * Cardinality(S)
  BY <1>1, FS_Product
<1>3. Cardinality(S) \in Nat
  BY FS_CardinalityType
<1> QED BY <1>1, <1>2, <1>3

LEMMA DaysCounted ==
  ASSUME TypeOK, Tallied, NEW c \in Channels, DaysRemoved(c)
  PROVE  Tallied'
<1> DEFINE R == [st : WalkStates, stale : SUBSET OldDays, found : SUBSET OldDays]
           F == walk[c].found
           row == {c} \X F
<1>0. walk \in [Channels -> R] /\ walk[c] \in R
  BY DEF TypeOK
<1>1. /\ walk[c].st = "removing" /\ prune' = [prune EXCEPT !.removed = @ + Cardinality(F)]
      /\ walk' = [walk EXCEPT ![c].st = "emptied"]
  BY DEF DaysRemoved, AddUp
<1>2. /\ walk'[c].st = "emptied" /\ \A b \in Channels : walk'[b].found = walk[b].found
      /\ \A b \in Channels : b # c => walk'[b].st = walk[b].st
  BY <1>0, <1>1
<1>3. F \subseteq OldDays /\ IsFiniteSet(F) /\ Cardinality(F) \in Nat
  BY <1>0, CacheAssumption, FS_Subset, FS_CardinalityType
<1>4. CountedDays' = CountedDays \cup row /\ CountedDays \cap row = {}
  <2>1. \A e \in Channels \X OldDays : e = <<e[1], e[2]>> /\ e[1] \in Channels
    OBVIOUS
  <2>2. \A e \in Channels \X OldDays : e[1] = c => e \notin CountedDays
    BY <1>1 DEF CountedDays, Behind
  <2>3. \A e \in Channels \X OldDays : e \in row <=> e[1] = c /\ e[2] \in F
    BY <2>1
  <2>4. row \subseteq Channels \X OldDays
    BY <1>3
  <2>5. \A e \in Channels \X OldDays : e \in CountedDays' <=> e \in CountedDays \/ e \in row
    BY <1>2, <2>1, <2>3 DEF CountedDays, Behind
  <2>6. CountedDays' \subseteq Channels \X OldDays /\ CountedDays \subseteq Channels \X OldDays
    BY DEF CountedDays
  <2>7. CountedDays' = CountedDays \cup row
    BY <2>4, <2>5, <2>6
  <2>8. CountedDays \cap row = {}
    BY <2>2, <2>3, <2>6
  <2> QED BY <2>7, <2>8
<1>5. Cardinality(CountedDays') = Cardinality(CountedDays) + Cardinality(F)
  <2>1. IsFiniteSet(row) /\ Cardinality(row) = Cardinality(F)
    BY <1>3, RowCounts
  <2>2. Cardinality(CountedDays \cup row)
          = Cardinality(CountedDays) + Cardinality(row) - Cardinality(CountedDays \cap row)
    BY <2>1, CountedFinite, FS_Union
  <2>3. Cardinality(CountedDays) \in Nat /\ Cardinality({}) = 0
    BY CountedFinite, FS_CardinalityType, FS_EmptySet
  <2>4. Cardinality(CountedDays') = Cardinality(CountedDays \cup row)
    BY <1>4
  <2>5. Cardinality(CountedDays \cap row) = 0
    BY <1>4, <2>3
  <2> HIDE DEF row, F
  <2> QED BY <1>3, <2>1, <2>2, <2>3, <2>4, <2>5
<1>6. prune'.st = prune.st /\ prune'.removed = prune.removed + Cardinality(F)
  BY <1>1 DEF TypeOK
<1>7. \A b \in Channels : walk'[b].st \in {"none", "listing", "stopped"} => walk'[b].found = {}
  BY <1>2 DEF Tallied
<1>8. prune'.st = "done" => \A b \in Channels : walk'[b].st = "done"
  BY <1>1, <1>6 DEF Tallied
<1>9. prune'.removed = Cardinality(CountedDays')
  BY <1>5, <1>6 DEF Tallied
<1> QED BY <1>7, <1>8, <1>9 DEF Tallied

(* Where a channel goes on and none is counted.                            *)
LEMMA TallyWalks ==
  ASSUME TypeOK, Tallied, NEW c \in Channels, prune' = prune,
         \A b \in Channels : b # c => walk'[b] = walk[b],
         walk[c].st # "done",
         walk'[c].st \in {"none", "listing", "stopped"} => walk'[c].found = {},
         walk'[c].st \in Behind <=> walk[c].st \in Behind,
         walk'[c].st \in Behind => walk'[c].found = walk[c].found
  PROVE  Tallied'
<1>1. CountedDays' = CountedDays
  BY DEF CountedDays
<1> QED BY <1>1 DEF Tallied

LEMMA PruneClean ==
  ASSUME FilesInv, Tidy, Homed, Tallied,
         StartPrune \/ EndPrune \/ \E c \in Channels : Pruning(c)
  PROVE  Tidy' /\ Homed' /\ Tallied'
<1> DEFINE R == [st : WalkStates, stale : SUBSET OldDays, found : SUBSET OldDays]
<1>0. TypeOK /\ walk \in [Channels -> R]
  BY DEF FilesInv, TypeOK
<1>1. CASE StartPrune
  <2>1. /\ prune.st = "idle" /\ prune' = [prune EXCEPT !.st = "walking"]
        /\ walk' = [c \in Channels |->
                      [walk[c] EXCEPT !.st = IF c \in dirs THEN "listing" ELSE "done"]]
        /\ UNCHANGED <<files, write>>
    BY <1>1 DEF StartPrune
  <2>2. /\ \A c \in Channels : walk[c].st = "none" /\ walk[c].found = {}
        /\ \A c \in Channels : walk'[c].found = {}
    BY <1>0, <2>1 DEF Homed, Tallied
  <2>3. CountedDays = {} /\ CountedDays' = {}
    BY <2>2 DEF CountedDays
  <2>4. prune'.st = "walking" /\ prune'.removed = prune.removed
    BY <1>0, <2>1 DEF TypeOK
  <2>5. Tallied'
    BY <2>2, <2>3, <2>4 DEF Tallied
  <2>6. Tidy' /\ Homed'
    BY <2>1, <2>4 DEF Tidy, Homed, files
  <2> QED BY <2>5, <2>6
<1>2. CASE EndPrune
  <2>1. /\ prune.st = "walking" /\ UNCHANGED <<dirs, file, temp, write, walk>>
        /\ prune'.removed = prune.removed /\ prune'.st \in {"stopped", "done"}
        /\ prune'.st = "done" => \A c \in Channels : walk[c].st = "done"
    BY <1>0, <1>2 DEF EndPrune, TypeOK
  <2>2. CountedDays' = CountedDays
    BY <2>1 DEF CountedDays
  <2>3. Tallied'
    BY <2>1, <2>2 DEF Tallied
  <2>4. Tidy' /\ Homed'
    BY <2>1 DEF Tidy, Homed
  <2> QED BY <2>3, <2>4
<1>3. ASSUME NEW c \in Channels, Pruning(c) PROVE Tidy' /\ Homed' /\ Tallied'
  <2>0. walk[c] \in R /\ walk[c].st # "none"
    BY <1>0, <1>3 DEF Pruning, ListDays, RemoveDay, DaysRemoved, RemoveChannel
  <2>1. UNCHANGED <<temp, write>> /\ prune'.st = prune.st /\ prune.st # "idle"
    <3>1. prune' = prune \/ prune' = [prune EXCEPT !.removed = @ + Cardinality(walk[c].found)]
      BY <1>3 DEF Pruning, ListDays, RemoveDay, DaysRemoved, RemoveChannel, AddUp
    <3>2. UNCHANGED <<temp, write>>
      BY <1>3 DEF Pruning, ListDays, RemoveDay, DaysRemoved, RemoveChannel, files
    <3> QED BY <1>0, <2>0, <3>1, <3>2 DEF TypeOK, Homed
  <2>2. Tidy' /\ Homed'
    BY <2>1 DEF Tidy, Homed
  <2>3. CASE ListDays(c) /\ aborted
    <3>1. /\ walk' = [walk EXCEPT ![c] = [walk[c] EXCEPT !.st = "stopped"]] /\ prune' = prune
          /\ walk[c].st = "listing"
      BY <2>3 DEF ListDays
    <3>2. /\ walk'[c].st = "stopped" /\ walk'[c].found = walk[c].found
          /\ \A b \in Channels : b # c => walk'[b] = walk[b]
      BY <1>0, <2>0, <3>1
    <3> QED BY <1>0, <2>2, <3>1, <3>2, TallyWalks DEF Tallied, Behind
  <2>4. CASE ListDays(c) /\ ~aborted
    <3>1. /\ walk' = [walk EXCEPT ![c] = [st |-> "removing", stale |-> Stale(c), found |-> Stale(c)]]
          /\ prune' = prune /\ walk[c].st = "listing"
      BY <2>4 DEF ListDays
    <3>2. walk'[c].st = "removing" /\ \A b \in Channels : b # c => walk'[b] = walk[b]
      BY <1>0, <3>1
    <3> QED BY <1>0, <2>2, <3>1, <3>2, TallyWalks DEF Behind
  <2>5. ASSUME NEW d \in Days, RemoveDay(c, d) PROVE Tallied'
    <3>1. /\ walk' = [walk EXCEPT ![c].stale = walk[c].stale \ {d}]
          /\ prune' = prune /\ walk[c].st = "removing"
      BY <2>5 DEF RemoveDay
    <3>2. walk'[c].st = "removing" /\ \A b \in Channels : b # c => walk'[b] = walk[b]
      BY <1>0, <2>0, <3>1
    <3> QED BY <1>0, <3>1, <3>2, TallyWalks DEF Behind
  <2>6. CASE DaysRemoved(c)
    BY <1>0, <2>2, <2>6, DaysCounted
  <2>7. CASE RemoveChannel(c)
    <3>1. /\ walk' = [walk EXCEPT ![c].st = "done"] /\ prune' = prune /\ walk[c].st = "emptied"
      BY <2>7 DEF RemoveChannel
    <3>2. /\ walk'[c].st = "done" /\ walk'[c].found = walk[c].found
          /\ \A b \in Channels : b # c => walk'[b] = walk[b]
      BY <1>0, <2>0, <3>1
    <3> QED BY <1>0, <2>2, <3>1, <3>2, TallyWalks DEF Behind
  <2> QED BY <1>3, <2>2, <2>3, <2>4, <2>5, <2>6, <2>7 DEF Pruning
<1> QED BY <1>1, <1>2, <1>3

LEMMA CleanNext == CleanInv /\ [Next]_vars => CleanInv'
<1> SUFFICES ASSUME CleanInv, [Next]_vars PROVE Tidy' /\ Homed' /\ Tallied'
  BY FilesNext DEF CleanInv
<1>0. FilesInv /\ Tidy /\ Homed /\ Tallied
  BY DEF CleanInv
<1>1. ASSUME NEW w \in Writes, Begin(w) \/ Writing(w) \/ Kill(w)
      PROVE  Tidy' /\ Homed' /\ Tallied'
  <2>1. UNCHANGED <<prune, walk>>
    BY <1>1 DEF Begin, Kill, Writing, Open, MakeDir, Written, WriteFails, Discard, Rename
  <2> QED BY <1>0, <1>1, <2>1, WriteClean, TallySame
<1>2. CASE \/ \E r \in Looks : Look(r) \/ Remove(r)
           \/ Abort \/ UNCHANGED vars
  <2>1. UNCHANGED <<dirs, temp, write, prune, walk>>
    BY <1>2 DEF Look, Remove, Abort, vars, files
  <2>2. Tidy' /\ Homed'
    BY <1>0, <2>1 DEF Tidy, Homed, Channel
  <2> QED BY <1>0, <2>1, <2>2, TallySame
<1> QED BY <1>0, <1>1, <1>2, PruneClean DEF Next

LEMMA CleanInvClean == CleanInv => WritesAreClean
<1> SUFFICES ASSUME CleanInv PROVE WritesAreClean
  OBVIOUS
<1>0. FilesInv /\ Tidy /\ Homed /\ Tallied
  BY DEF CleanInv
<1>1. prune.st = "done" => CountedDays = Found
  BY <1>0 DEF Tallied, CountedDays, Behind, Found
<1>2. PruneAddsUp
  BY <1>0, <1>1 DEF Tallied, PruneAddsUp
<1>3. \A w \in Writes : write[w].st = "gone" => prune.st # "idle"
  BY <1>0 DEF Homed
<1> QED BY <1>0, <1>2, <1>3 DEF WritesAreClean, Tidy

(* A write leaves nothing of itself behind but its entry, unless killed;    *)
(* none finds its directory gone twice but beside a prune; and a prune      *)
(* counts every day it found, of any number of channels at once.            *)
THEOREM WritesLeaveNothing == Spec => []WritesAreClean
<1>1. Init => CleanInv
  BY FilesInit, CleanInit DEF CleanInv
<1> QED BY <1>1, CleanNext, CleanInvClean, PTL DEF Spec

-----------------------------------------------------------------------------
LEMMA LeastIsOne ==
  ASSUME NEW set \in SUBSET Nat, set # {}
  PROVE  \E least \in set : \A other \in set : least <= other
<1>1. PICK least \in set : \A other \in set : <<other, least>> \notin OpToRel(<, Nat)
  BY NatLessThanWellFounded, WFMin
<1>2. SUFFICES ASSUME NEW other \in set PROVE least <= other
  OBVIOUS
<1>3. OpToRel(<, Nat) = {pair \in Nat \X Nat : pair[1] < pair[2]}
  BY DEF OpToRel
<1>4. <<other, least>> \in Nat \X Nat /\ <<other, least>> \notin {pair \in Nat \X Nat : pair[1] < pair[2]}
  BY <1>1, <1>3
<1> QED BY <1>4

-----------------------------------------------------------------------------
(* Zones, and wall clocks in them.                                             *)
Zone == [at : Int, before : Int, after : Int]

\* A day's halving, and what it comes to whatever it is asked between.
IsHalving(f, days, zone, before) ==
  f = [span \in days \X days |->
         LET held == span[1]
             changed == span[2]
             middle == held + (changed - held) \div 2
         IN  IF changed - held <= 1 THEN changed
             ELSE IF P!rawOffsetAt(zone, middle) = before THEN f[<<middle, changed>>]
             ELSE f[<<held, middle>>]]
Halved(held, changed, zone) ==
  IF changed - held <= 1 THEN changed
  ELSE IF zone.at <= held THEN held + 1 ELSE IF zone.at <= changed THEN zone.at ELSE changed

\* The half that is taken has the change in it, where there is one.
LEMMA HalfIs ==
  ASSUME NEW zone \in Zone, zone.before # zone.after, NEW held \in Int, NEW changed \in Int, changed - held > 1,
         NEW middle \in Int, middle = held + (changed - held) \div 2
  PROVE  /\ held < middle /\ middle < changed
         /\ Halved(held, changed, zone) =
              IF P!rawOffsetAt(zone, middle) = zone.before THEN Halved(middle, changed, zone)
                                                           ELSE Halved(held, middle, zone)
<1>1. held < middle /\ middle < changed
  OBVIOUS
<1>2. zone.at \in Int /\ (P!rawOffsetAt(zone, middle) = zone.before <=> middle < zone.at)
  BY DEF P!rawOffsetAt, Zone
<1> QED BY <1>1, <1>2 DEF Halved

LEMMA HalvingExists ==
  ASSUME NEW zone \in Zone, zone.before # zone.after, NEW start \in Int, NEW end \in Int
  PROVE  \E f : IsHalving(f, start .. end, zone, zone.before)
<1> DEFINE days == start .. end
           f == [span \in days \X days |-> Halved(span[1], span[2], zone)]
<1>1. ASSUME NEW held \in days, NEW changed \in days
      PROVE  Halved(held, changed, zone) =
               IF changed - held <= 1 THEN changed
               ELSE LET middle == held + (changed - held) \div 2
                    IN  IF P!rawOffsetAt(zone, middle) = zone.before THEN f[<<middle, changed>>] ELSE f[<<held, middle>>]
  <2>1. CASE changed - held <= 1
    BY <2>1 DEF Halved
  <2>2. CASE changed - held > 1
    <3> DEFINE middle == held + (changed - held) \div 2
    <3>1. held \in Int /\ changed \in Int /\ middle \in Int
      OBVIOUS
    <3>2. held < middle /\ middle < changed
      BY <2>2, <3>1
    <3>3. middle \in days
      BY <3>1, <3>2
    <3>4. f[<<middle, changed>>] = Halved(middle, changed, zone) /\ f[<<held, middle>>] = Halved(held, middle, zone)
      BY <3>3
    <3>5. Halved(held, changed, zone) =
            IF P!rawOffsetAt(zone, middle) = zone.before THEN Halved(middle, changed, zone)
                                                         ELSE Halved(held, middle, zone)
      BY <2>2, <3>1, HalfIs
    <3> HIDE DEF f, middle
    <3>6. ~(changed - held <= 1)
      BY <2>2, <3>1
    <3> QED BY <3>4, <3>5, <3>6 DEF middle
  <2> QED BY <2>1, <2>2
<1>2. ASSUME NEW span \in days \X days
      PROVE  f[span] = LET held == span[1]
                           changed == span[2]
                           middle == held + (changed - held) \div 2
                       IN  IF changed - held <= 1 THEN changed
                           ELSE IF P!rawOffsetAt(zone, middle) = zone.before THEN f[<<middle, changed>>]
                           ELSE f[<<held, middle>>]
  <2>1. span[1] \in days /\ span[2] \in days /\ f[span] = Halved(span[1], span[2], zone)
    OBVIOUS
  <2> HIDE DEF f, days
  <2> QED BY <1>1, <2>1
<1>3. f = [span \in days \X days |-> f[span]]
  OBVIOUS
<1> HIDE DEF f
<1>4. IsHalving(f, days, zone, zone.before)
  BY <1>2, <1>3 DEF IsHalving
<1> QED BY <1>4

LEMMA HalvingIs ==
  ASSUME NEW zone \in Zone, zone.before # zone.after, NEW start \in Int, NEW end \in Int,
         NEW f, IsHalving(f, start .. end, zone, zone.before),
         NEW first \in start .. end, NEW last \in start .. end
  PROVE  f[<<first, last>>] = Halved(first, last, zone)
<1> DEFINE days == start .. end
           fails == {n \in Nat : \E held \in days, changed \in days :
                                   n = changed - held /\ f[<<held, changed>>] # Halved(held, changed, zone)}
<1>1. ASSUME NEW held \in days, NEW changed \in days
      PROVE  f[<<held, changed>>] =
               IF changed - held <= 1 THEN changed
               ELSE LET middle == held + (changed - held) \div 2
                    IN  IF P!rawOffsetAt(zone, middle) = zone.before THEN f[<<middle, changed>>] ELSE f[<<held, middle>>]
  BY DEF IsHalving
<1>2. fails = {}
  <2> SUFFICES ASSUME fails # {} PROVE FALSE
    OBVIOUS
  <2>1. PICK n \in fails : \A other \in fails : n <= other
    <3>1. fails \in SUBSET Nat
      OBVIOUS
    <3> HIDE DEF fails
    <3> QED BY <3>1, LeastIsOne
  <2>2. PICK held \in days, changed \in days : n = changed - held /\ f[<<held, changed>>] # Halved(held, changed, zone)
    OBVIOUS
  <2>3. held \in Int /\ changed \in Int
    OBVIOUS
  <2>4. changed - held > 1
    <3>1. changed - held <= 1 => f[<<held, changed>>] = changed /\ Halved(held, changed, zone) = changed
      BY <1>1 DEF Halved
    <3> QED BY <2>2, <2>3, <3>1
  <2> DEFINE middle == held + (changed - held) \div 2
  <2>5. middle \in Int /\ held < middle /\ middle < changed
    BY <2>3, <2>4
  <2>6. middle \in days
    BY <2>3, <2>5
  <2>7. f[<<held, changed>>] = IF P!rawOffsetAt(zone, middle) = zone.before THEN f[<<middle, changed>>] ELSE f[<<held, middle>>]
    BY <1>1, <2>3, <2>4
  <2>8. Halved(held, changed, zone) =
          IF P!rawOffsetAt(zone, middle) = zone.before THEN Halved(middle, changed, zone)
                                                       ELSE Halved(held, middle, zone)
    BY <2>3, <2>4, <2>5, HalfIs
  <2> HIDE DEF middle
  <2>9. f[<<middle, changed>>] = Halved(middle, changed, zone)
    <3> SUFFICES ASSUME f[<<middle, changed>>] # Halved(middle, changed, zone) PROVE FALSE
      OBVIOUS
    <3>1. changed - middle < n /\ changed - middle \in Nat /\ n \in Nat
      BY <2>2, <2>3, <2>5
    <3> DEFINE closer == changed - middle
    <3>2. closer \in fails
      BY <2>6, <3>1
    <3> HIDE DEF fails, closer
    <3>3. n <= closer
      BY <2>1, <3>2
    <3> QED BY <3>1, <3>3 DEF closer
  <2>10. f[<<held, middle>>] = Halved(held, middle, zone)
    <3> SUFFICES ASSUME f[<<held, middle>>] # Halved(held, middle, zone) PROVE FALSE
      OBVIOUS
    <3>1. middle - held < n /\ middle - held \in Nat /\ n \in Nat
      BY <2>2, <2>3, <2>5
    <3> DEFINE closer == middle - held
    <3>2. closer \in fails
      BY <2>6, <3>1
    <3> HIDE DEF fails, closer
    <3>3. n <= closer
      BY <2>1, <3>2
    <3> QED BY <3>1, <3>3 DEF closer
  <2> QED BY <2>2, <2>7, <2>8, <2>9, <2>10
<1> HIDE DEF fails
<1>3. CASE last - first <= 1
  BY <1>1, <1>3 DEF Halved
<1>4. CASE last - first > 1
  <2>1. last - first \in Nat
    BY <1>4
  <2> QED BY <1>2, <2>1 DEF fails
<1> QED BY <1>3, <1>4

\* What is remembered of a day is what the runtime says of every moment of it.
LEMMA OffsetIs ==
  ASSUME DayLen \in Nat \ {0}, NEW zone \in Zone, NEW instant \in Int
  PROVE  P!offsetAt(zone, instant) = P!rawOffsetAt(zone, instant)
<1> DEFINE day == instant \div DayLen
           start == day * DayLen
           end == start + DayLen - 1
           before == P!rawOffsetAt(zone, start)
           after == P!rawOffsetAt(zone, end)
           found == CHOOSE f : IsHalving(f, start .. end, zone, before)
           known == P!surveyDay(zone, day)
<1>1. day \in Int /\ start \in Int /\ end \in Int /\ start <= instant /\ instant <= end
  OBVIOUS
<1>2. known = IF before = after THEN [at |-> start, before |-> before, after |-> after]
              ELSE [at |-> found[<<start, end>>], before |-> before, after |-> after]
  BY DEF P!surveyDay, IsHalving
<1>3. P!offsetAt(zone, instant) = IF instant < known.at THEN known.before ELSE known.after
  BY DEF P!offsetAt
<1> HIDE DEF day, known
<1>4. zone.at \in Int /\ \A i \in Int : P!rawOffsetAt(zone, i) = IF i < zone.at THEN zone.before ELSE zone.after
  BY DEF Zone, P!rawOffsetAt
<1> HIDE DEF start, end
<1>5. CASE before = after
  <2>1. P!offsetAt(zone, instant) = before
    BY <1>2, <1>3, <1>5
  <2>2. P!rawOffsetAt(zone, instant) = before
    BY <1>1, <1>4, <1>5
  <2> QED BY <2>1, <2>2
<1>6. CASE before # after
  <2>1. start < zone.at /\ zone.at <= end /\ before = zone.before /\ after = zone.after /\ zone.before # zone.after
    BY <1>1, <1>4, <1>6
  <2>2. IsHalving(found, start .. end, zone, zone.before)
    BY <1>1, <2>1, HalvingExists
  <2> HIDE DEF found
  <2>3. found[<<start, end>>] = Halved(start, end, zone)
    <3>1. start \in start .. end /\ end \in start .. end
      BY <1>1
    <3> QED BY <1>1, <2>1, <2>2, <3>1, HalvingIs
  <2>4. Halved(start, end, zone) = zone.at
    BY <1>1, <1>4, <2>1 DEF Halved
  <2>5. P!offsetAt(zone, instant) = IF instant < zone.at THEN before ELSE after
    BY <1>2, <1>3, <1>6, <2>3, <2>4
  <2> QED BY <1>1, <1>4, <2>1, <2>5
<1> QED BY <1>5, <1>6

\* A zone is off the sun by less than a day or so, either way.
NearUTC(zone) == zone.before \in (-DayLen) .. DayLen /\ zone.after \in (-DayLen) .. DayLen
Reads(zone, i) == i + P!rawOffsetAt(zone, i)

\* What a wall clock stands for: the first moment the clock shows it, or as far past
\* a change that skipped it as it is past what the clock showed then.
StandsFor(read, zone, wall) ==
  /\ read.instant \in Int /\ read.offset \in {zone.before, zone.after}
  /\ (\E i \in Int : Reads(zone, i) = wall) =>
       /\ Reads(zone, read.instant) = wall /\ read.offset = wall - read.instant
       /\ \A i \in Int : Reads(zone, i) = wall => read.instant <= i
  /\ (\A i \in Int : Reads(zone, i) # wall) =>
       /\ read.instant - zone.at = wall - (zone.at + zone.before) /\ read.offset = zone.after
       /\ zone.at + zone.before <= wall /\ wall < zone.at + zone.after

LEMMA ResolveIs ==
  ASSUME DayLen \in Nat \ {0}, NEW zone \in Zone, NearUTC(zone), NEW wall \in Int
  PROVE  StandsFor(P!resolve(wall, zone), zone, wall)
<1> DEFINE Raw(i) == IF i < zone.at THEN zone.before ELSE zone.after
           before == Raw(wall - DayLen)
           after == Raw(wall + DayLen)
           earlier == [instant |-> wall - before, offset |-> before]
           later == [instant |-> wall - after, offset |-> after]
           read == P!resolve(wall, zone)
<1>1. /\ zone.at \in Int /\ zone.before \in Int /\ zone.after \in Int
      /\ \A i \in Int : P!rawOffsetAt(zone, i) = Raw(i) /\ P!offsetAt(zone, i) = Raw(i)
  BY OffsetIs DEF Zone, P!rawOffsetAt
<1>2. /\ wall - DayLen \in Int /\ wall + DayLen \in Int
      /\ before \in {zone.before, zone.after} /\ after \in {zone.before, zone.after}
  OBVIOUS
<1>3. wall - before \in Int /\ wall - after \in Int
  BY <1>1, <1>2
<1>4. /\ P!offsetAt(zone, wall - DayLen) = before /\ P!offsetAt(zone, wall + DayLen) = after
      /\ P!offsetAt(zone, wall - before) = Raw(wall - before)
      /\ P!offsetAt(zone, wall - after) = Raw(wall - after)
  BY <1>1, <1>2, <1>3
<1>5. read = CASE before = after -> earlier
               [] before # after /\ Raw(wall - before) = before /\ Raw(wall - after) = after ->
                    IF earlier.instant <= later.instant THEN earlier ELSE later
               [] before # after /\ Raw(wall - before) = before /\ Raw(wall - after) # after -> earlier
               [] before # after /\ Raw(wall - before) # before /\ Raw(wall - after) = after -> later
               [] OTHER -> [instant |-> earlier.instant, offset |-> after]
  BY <1>4 DEF P!resolve
<1>6. /\ -DayLen <= zone.before /\ zone.before <= DayLen /\ -DayLen <= zone.after /\ zone.after <= DayLen
      /\ DayLen \in Int
  BY <1>1 DEF NearUTC
<1>7. \A i \in Int : Reads(zone, i) = i + Raw(i)
  BY <1>1 DEF Reads
<1>8. /\ before # after => before = zone.before /\ after = zone.after /\ wall - DayLen < zone.at /\ zone.at <= wall + DayLen
      /\ before = after => \A i \in Int : i + Raw(i) = wall => i = wall - before
      /\ before = after => Raw(wall - before) = before
  BY <1>1, <1>6
<1>9. read.instant \in Int /\ read.offset \in {zone.before, zone.after}
  BY <1>1, <1>2, <1>3, <1>5
<1>10. CASE before = after
  <2>1. read.instant = wall - before /\ read.offset = before
    BY <1>5, <1>10
  <2>2. Reads(zone, wall - before) = wall
    BY <1>1, <1>2, <1>3, <1>7, <1>8, <1>10
  <2>3. \A i \in Int : Reads(zone, i) = wall => wall - before <= i
    BY <1>3, <1>7, <1>8, <1>10
  <2> QED BY <1>1, <1>2, <1>3, <1>9, <2>1, <2>2, <2>3 DEF StandsFor
<1>11. CASE before # after
  <2> DEFINE one == wall - zone.before
             other == wall - zone.after
  <2>1. before = zone.before /\ after = zone.after
    BY <1>8, <1>11
  <2>2. \A i \in Int : Reads(zone, i) = wall => i = one \/ i = other
    BY <1>1, <1>7
  <2>3. /\ one < zone.at <=> Reads(zone, one) = wall
        /\ other >= zone.at <=> Reads(zone, other) = wall
    BY <1>1, <1>7, <1>11, <2>1
  <2>4. one \in Int /\ other \in Int /\ (Raw(one) = zone.before <=> one < zone.at) /\ (Raw(other) = zone.after <=> other >= zone.at)
    BY <1>1, <1>11, <2>1
  <2>5. CASE one < zone.at /\ other >= zone.at
    <3>1. read = IF one <= other THEN earlier ELSE later
      BY <1>5, <1>11, <2>1, <2>4, <2>5
    <3>2. read.instant = one /\ read.offset = zone.before
      BY <2>1, <2>4, <2>5, <1>1, <3>1
    <3>3. wall - one = zone.before
      BY <1>1
    <3> QED BY <1>1, <1>9, <2>2, <2>3, <2>4, <2>5, <3>2, <3>3 DEF StandsFor
  <2>6. CASE one < zone.at /\ ~(other >= zone.at)
    <3>1. read.instant = one /\ read.offset = zone.before
      BY <1>5, <1>11, <2>1, <2>4, <2>6
    <3>2. wall - one = zone.before
      BY <1>1
    <3> QED BY <1>1, <1>9, <2>2, <2>3, <2>4, <2>6, <3>1, <3>2 DEF StandsFor
  <2>7. CASE ~(one < zone.at) /\ other >= zone.at
    <3>1. read.instant = other /\ read.offset = zone.after
      BY <1>5, <1>11, <2>1, <2>4, <2>7
    <3>2. wall - other = zone.after
      BY <1>1
    <3> QED BY <1>1, <1>9, <2>2, <2>3, <2>4, <2>7, <3>1, <3>2 DEF StandsFor
  <2>8. CASE ~(one < zone.at) /\ ~(other >= zone.at)
    <3>1. read.instant = one /\ read.offset = zone.after
      BY <1>5, <1>11, <2>1, <2>4, <2>8
    <3>2. \A i \in Int : Reads(zone, i) # wall
      BY <2>2, <2>3, <2>8
    <3>3. one - zone.at = wall - (zone.at + zone.before)
          /\ zone.at + zone.before <= wall /\ wall < zone.at + zone.after
      BY <1>1, <2>4, <2>8
    <3> QED BY <1>9, <3>1, <3>2, <3>3 DEF StandsFor
  <2> QED BY <2>5, <2>6, <2>7, <2>8
<1> QED BY <1>10, <1>11

\* The one thing an option holds.
LEMMA TheIs == ASSUME NEW x PROVE P!Said({x}) /\ P!The({x}) = x /\ ~P!Said({})
BY DEF P!Said, P!The

LEMMA DaysOfTicks ==
  ASSUME DayLen \in Nat \ {0}
  PROVE  /\ \A x, day \in Int : day * DayLen <= x <=> day <= x \div DayLen
         /\ \A x \in Int : x \div DayLen \in Int
         /\ \A day \in Int : day * DayLen \in Int /\ (day * DayLen) \div DayLen = day
<1>1. ASSUME NEW x \in Int PROVE x \div DayLen \in Int
  OBVIOUS
<1>2. ASSUME NEW x \in Int, NEW day \in Int PROVE day * DayLen <= x <=> day <= x \div DayLen
  <2> DEFINE of == x \div DayLen
  <2>1. of \in Int /\ of * DayLen <= x /\ x < of * DayLen + DayLen
    OBVIOUS
  <2> HIDE DEF of
  <2>2. CASE day <= of
    <3>1. (of - day) * DayLen >= 0
      BY <2>1, <2>2
    <3>2. of * DayLen - day * DayLen = (of - day) * DayLen
      BY <2>1
    <3> QED BY <2>1, <2>2, <3>1, <3>2 DEF of
  <2>3. CASE ~(day <= of)
    <3>1. (day - of - 1) * DayLen >= 0
      BY <2>1, <2>3
    <3>2. day * DayLen - of * DayLen - DayLen = (day - of - 1) * DayLen
      BY <2>1
    <3> QED BY <2>1, <2>3, <3>1, <3>2 DEF of
  <2> QED BY <2>2, <2>3
<1>3. ASSUME NEW day \in Int PROVE day * DayLen \in Int /\ (day * DayLen) \div DayLen = day
  <2> DEFINE x == day * DayLen
  <2>1. x \in Int
    OBVIOUS
  <2>2. day <= x \div DayLen
    BY <1>2, <2>1
  <2>3. (x \div DayLen) * DayLen <= x
    OBVIOUS
  <2>4. ~(day + 1 <= x \div DayLen)
    <3>1. ~((day + 1) * DayLen <= x)
      OBVIOUS
    <3> QED BY <1>2, <2>1, <3>1
  <2> QED BY <1>1, <2>1, <2>2, <2>4
<1> QED BY <1>1, <1>2, <1>3

\* A wall clock of a zone is the first moment the clock there shows it, or is as far
\* past the change that skipped it as it is past what the clock showed then, whether
\* it is given as a time or as digits and the zone's name; and what is written of it
\* is read back the same.  (zone.ts resolve, date.ts formatXmltvDate, parseXmltvDate.)
THEOREM WallClocksAreRead ==
  ASSUME DayLen \in Nat \ {0}, NEW zone \in Zone, NearUTC(zone), NEW wall \in Int,
         NEW precision \in {"full", "day"}
  PROVE  LET date == P!zonedXmltvDate(wall, precision, zone)
             written == P!formatXmltvDate(date)
             again == P!parseXmltvDate(written)
         IN  /\ StandsFor([instant |-> date.time, offset |-> P!getXmltvOffset(date)], zone, wall)
             /\ P!parseNamed([digits |-> wall, precision |-> "full", suffix |-> 0], zone).time = date.time
             /\ P!formatXmltvDate(again) = written
             /\ precision = "full" => again.time = date.time
<1> DEFINE read == P!resolve(wall, zone)
           date == P!zonedXmltvDate(wall, precision, zone)
           written == P!formatXmltvDate(date)
           again == P!parseXmltvDate(written)
<1>1. StandsFor(read, zone, wall)
  BY ResolveIs
<1> HIDE DEF read
<1>2. read.instant \in Int /\ read.offset \in Int
  BY <1>1 DEF StandsFor, Zone
<1>3. date = [time |-> read.instant, offset |-> {read.offset}, precision |-> precision]
  BY DEF P!zonedXmltvDate, P!keepXmltvOffset, read
<1> HIDE DEF date
<1>4. P!getXmltvOffset(date) = read.offset
  BY <1>3, TheIs DEF P!getXmltvOffset
<1>5. StandsFor([instant |-> date.time, offset |-> P!getXmltvOffset(date)], zone, wall)
  BY <1>1, <1>3, <1>4 DEF StandsFor
<1> DEFINE shown == read.instant + read.offset
           digits == IF precision = "day" THEN (shown \div DayLen) * DayLen ELSE shown
<1>6. written = [digits |-> digits, precision |-> precision, suffix |-> read.offset]
  BY <1>3, <1>4 DEF P!formatXmltvDate
<1> HIDE DEF written
<1>7. digits \in Int /\ (precision = "day" => (digits \div DayLen) * DayLen = digits)
  <2>1. shown \in Int
    BY <1>2
  <2> HIDE DEF shown
  <2> DEFINE of == shown \div DayLen
  <2>2. of \in Int
    BY <2>1, DaysOfTicks
  <2> HIDE DEF of
  <2>3. of * DayLen \in Int /\ (of * DayLen) \div DayLen = of
    BY <2>2, DaysOfTicks
  <2>4. digits = IF precision = "day" THEN of * DayLen ELSE shown
    BY DEF of
  <2> HIDE DEF digits
  <2> QED BY <2>1, <2>3, <2>4
<1>8. again.time = digits - read.offset /\ again.precision = precision /\ P!getXmltvOffset(again) = read.offset
  <2> DEFINE kept == IF read.offset = 0 THEN {} ELSE {read.offset}
  <2>1. again = [time |-> digits - read.offset, offset |-> kept, precision |-> precision]
    <3> HIDE DEF digits
    <3>1. written.digits = digits /\ written.suffix = read.offset /\ written.precision = precision
      BY <1>6
    <3> DEFINE bare == [time |-> digits - read.offset, offset |-> {}, precision |-> precision]
    <3>2. again = P!setXmltvOffset(bare, read.offset)
      BY <3>1 DEF P!parseXmltvDate
    <3>3. P!setXmltvOffset(bare, read.offset) = [bare EXCEPT !.offset = kept]
      BY DEF P!setXmltvOffset
    <3> HIDE DEF again, kept
    <3> QED BY <3>2, <3>3
  <2> HIDE DEF again
  <2>2. CASE read.offset = 0
    BY <2>1, <2>2, TheIs DEF P!getXmltvOffset
  <2>3. CASE read.offset # 0
    BY <2>1, <2>3, TheIs DEF P!getXmltvOffset
  <2> QED BY <2>1, <2>2, <2>3
<1> HIDE DEF again
<1>9. P!formatXmltvDate(again) = written
  <2>1. again.time + read.offset = digits
    BY <1>2, <1>7, <1>8
  <2> HIDE DEF digits
  <2> QED BY <1>6, <1>7, <1>8, <2>1 DEF P!formatXmltvDate
<1>10. precision = "full" => again.time = date.time
  BY <1>2, <1>3, <1>8
<1>11. P!parseNamed([digits |-> wall, precision |-> "full", suffix |-> 0], zone).time = date.time
  <2> DEFINE stamp == [digits |-> wall, precision |-> "full", suffix |-> wall - read.instant]
  <2>1. P!parseNamed([digits |-> wall, precision |-> "full", suffix |-> 0], zone) = P!parseXmltvDate(stamp)
    BY DEF P!parseNamed, P!xmltvZone, read
  <2>2. P!parseXmltvDate(stamp).time = wall - (wall - read.instant)
    BY DEF P!parseXmltvDate, P!setXmltvOffset
  <2> QED BY <1>2, <1>3, <2>1, <2>2
<1> QED BY <1>5, <1>9, <1>10, <1>11 DEF date, written, again

-----------------------------------------------------------------------------
(* Days, and the moments of one.                                               *)
\* A change does not take the clock over a midnight and back, nor past one: it may
\* begin or end at one, and may skip a whole day.
OffMidnight(zone) ==
  LET was == zone.at + zone.before
      is == zone.at + zone.after
  IN  \A day \in Int : day * DayLen \notin (was + 1) .. (is - 1) \cup (is + 1) .. (was - 1)

Keeps(zone) == zone \in Zone /\ NearUTC(zone) /\ OffMidnight(zone)

LEMMA DayIs ==
  ASSUME DayLen \in Nat \ {0}, NEW zone \in Zone, NEW i \in Int
  PROVE  /\ P!dayIn(i, zone) \in Int
         /\ \A day \in Int : day <= P!dayIn(i, zone) <=> day * DayLen <= Reads(zone, i)
<1>1. P!dayIn(i, zone) = Reads(zone, i) \div DayLen
  BY OffsetIs DEF P!dayIn, Reads
<1>2. Reads(zone, i) \in Int
  BY DEF Reads, P!rawOffsetAt, Zone
<1> QED BY <1>1, <1>2, DaysOfTicks

\* A day begins at its midnight, or where the change that skipped it is.
LEMMA MidnightIs ==
  ASSUME DayLen \in Nat \ {0}, NEW zone, Keeps(zone), NEW day \in Int
  PROVE  /\ P!wallTimeIn(day, zone, 0) \in Int
         /\ \A i \in Int : P!wallTimeIn(day, zone, 0) <= i <=> day <= P!dayIn(i, zone)
<1> DEFINE start == P!wallTimeIn(day, zone, 0)
           midnight == day * DayLen
           read == P!resolve(midnight, zone)
<1>1. zone \in Zone /\ NearUTC(zone) /\ OffMidnight(zone) /\ midnight \in Int
  BY DaysOfTicks DEF Keeps
<1>2. start = read.instant
  <2>1. (day + 0 \div DayLen) * DayLen + (0 % DayLen) = midnight
    <3>1. 0 \div DayLen = 0 /\ 0 % DayLen = 0
      OBVIOUS
    <3> QED BY <3>1
  <2> HIDE DEF midnight
  <2> QED BY <2>1 DEF P!wallTimeIn, P!zonedTime, P!zonedXmltvDate, P!keepXmltvOffset
<1>3. StandsFor(read, zone, midnight)
  BY <1>1, ResolveIs
<1>4. /\ ~(zone.at + zone.before < midnight /\ midnight < zone.at + zone.after)
      /\ ~(zone.at + zone.after < midnight /\ midnight < zone.at + zone.before)
  <2> DEFINE was == zone.at + zone.before
             is == zone.at + zone.after
  <2>1. \A other \in Int : other * DayLen \notin (was + 1) .. (is - 1) \cup (is + 1) .. (was - 1)
    BY <1>1 DEF OffMidnight
  <2>2. was \in Int /\ is \in Int
    BY <1>1 DEF Zone
  <2> HIDE DEF was, is
  <2>3. midnight \notin (was + 1) .. (is - 1) \cup (is + 1) .. (was - 1)
    BY <2>1
  <2> HIDE DEF midnight
  <2>4. ~(was < midnight /\ midnight < is) /\ ~(is < midnight /\ midnight < was)
    BY <1>1, <2>2, <2>3
  <2> QED BY <2>4 DEF was, is
<1> HIDE DEF read, start
<1>5. start \in Int
  BY <1>2, <1>3 DEF StandsFor
<1>6. /\ zone.at \in Int /\ zone.before \in Int /\ zone.after \in Int
      /\ \A i \in Int : Reads(zone, i) = IF i < zone.at THEN i + zone.before ELSE i + zone.after
  BY <1>1 DEF Zone, Reads, P!rawOffsetAt
<1>7. ASSUME NEW i \in Int PROVE start <= i <=> midnight <= Reads(zone, i)
  <2> HIDE DEF midnight
  <2>1. CASE \E j \in Int : Reads(zone, j) = midnight
    <3>1. Reads(zone, start) = midnight /\ \A j \in Int : Reads(zone, j) = midnight => start <= j
      BY <1>2, <1>3, <2>1 DEF StandsFor
    <3>2. midnight - zone.before < zone.at => start <= midnight - zone.before
      <4>1. midnight - zone.before \in Int /\ (midnight - zone.before < zone.at => Reads(zone, midnight - zone.before) = midnight)
        BY <1>1, <1>6
      <4> QED BY <3>1, <4>1
    <3>3. start < zone.at => start + zone.before = midnight
      BY <1>5, <1>6, <3>1
    <3>4. start >= zone.at => start + zone.after = midnight
      BY <1>5, <1>6, <3>1
    <3>5. Reads(zone, i) = IF i < zone.at THEN i + zone.before ELSE i + zone.after
      BY <1>6
    <3> QED BY <1>1, <1>4, <1>5, <1>6, <3>2, <3>3, <3>4, <3>5
  <2>2. CASE \A j \in Int : Reads(zone, j) # midnight
    <3>1. start - zone.at = midnight - (zone.at + zone.before)
          /\ zone.at + zone.before <= midnight /\ midnight < zone.at + zone.after
      BY <1>2, <1>3, <2>2 DEF StandsFor
    <3>2. start = zone.at
      BY <1>1, <1>4, <1>5, <1>6, <3>1
    <3>3. Reads(zone, i) = IF i < zone.at THEN i + zone.before ELSE i + zone.after
      BY <1>6
    <3> QED BY <1>1, <1>6, <3>1, <3>2, <3>3
  <2> QED BY <2>1, <2>2
<1> QED BY <1>1, <1>5, <1>7, DayIs DEF start

\* Days come in order.
LEMMA DaysInOrder ==
  ASSUME DayLen \in Nat \ {0}, NEW zone, Keeps(zone), NEW i \in Int, NEW j \in Int, i <= j
  PROVE  P!dayIn(i, zone) <= P!dayIn(j, zone)
<1> DEFINE day == P!dayIn(i, zone)
           start == P!wallTimeIn(day, zone, 0)
<1>1. day \in Int
  BY DayIs DEF Keeps
<1>2. start \in Int /\ \A k \in Int : start <= k <=> day <= P!dayIn(k, zone)
  BY <1>1, MidnightIs
<1>3. start <= i
  BY <1>1, <1>2
<1> HIDE DEF start
<1>4. start <= j
  BY <1>2, <1>3
<1> QED BY <1>2, <1>4

-----------------------------------------------------------------------------
(* The days a site is asked for.                                               *)
\* The least of what a stretch of days holds is where it begins.
LEMMA LeastDay ==
  ASSUME NEW first \in Int, NEW last \in Int, first <= last
  PROVE  P!Min(first .. last) = first
<1>1. first \in first .. last /\ \A day \in first .. last : first <= day
  OBVIOUS
<1>2. \A day \in first .. last : (\A other \in first .. last : day <= other) => day = first
  OBVIOUS
<1> HIDE DEF P!Min
<1>3. P!Min(first .. last) = CHOOSE day \in first .. last : \A other \in first .. last : day <= other
  BY DEF P!Min
<1> QED BY <1>1, <1>2, <1>3

\* So has any set of days that none of is before some day.
LEMMA EarliestIs ==
  ASSUME NEW set \in SUBSET Int, set # {}, NEW low \in Int, \A day \in set : low <= day
  PROVE  P!Min(set) \in set /\ \A day \in set : P!Min(set) <= day
<1> DEFINE ahead == {day - low : day \in set}
<1>1. ahead \in SUBSET Nat /\ ahead # {}
  <2>1. ASSUME NEW day \in set PROVE day - low \in Nat
    <3>1. day \in Int /\ low <= day
      OBVIOUS
    <3> QED BY <3>1
  <2> QED BY <2>1
<1>2. PICK least \in ahead : \A other \in ahead : least <= other
  <2> HIDE DEF ahead
  <2> QED BY <1>1, LeastIsOne
<1>3. PICK first \in set : least = first - low
  OBVIOUS
<1>4. ASSUME NEW day \in set PROVE first <= day
  <2>1. day - low \in ahead
    OBVIOUS
  <2>2. first - low <= day - low
    BY <1>2, <1>3, <2>1
  <2> QED BY <2>2
<1>5. P!Min(set) = CHOOSE day \in set : \A other \in set : day <= other
  BY DEF P!Min
<1> QED BY <1>4, <1>5

\* Each day of a run is asked of a site on another calendar as the days there its
\* hours fall on: no moment of the run is on a day that is not covered.
LEMMA CoveringIs ==
  ASSUME DayLen \in Nat \ {0}, NEW zone, Keeps(zone), NEW other, Keeps(other),
         NEW first \in Int, NEW last \in Int
  PROVE  LET from == P!wallTimeIn(first, zone, 0)
             until == P!wallTimeIn(last + 1, zone, 0)
             covering == P!daysCovering(first, last, zone, other)
         IN  /\ from \in Int /\ until \in Int
             /\ \A i \in from .. (until - 1) : P!dayIn(i, other) \in covering
             /\ covering = IF other = zone THEN first .. last
                           ELSE P!dayIn(from, other) .. P!dayIn(until - 1, other)
             /\ \A i \in Int : P!dayIn(i, other) \in Int
<1> DEFINE from == P!wallTimeIn(first, zone, 0)
           until == P!wallTimeIn(last + 1, zone, 0)
           covering == P!daysCovering(first, last, zone, other)
<1>1. /\ from \in Int /\ \A i \in Int : from <= i <=> first <= P!dayIn(i, zone)
      /\ until \in Int /\ \A i \in Int : until <= i <=> last + 1 <= P!dayIn(i, zone)
  BY MidnightIs
<1>2. covering = IF other = zone THEN first .. last ELSE P!dayIn(from, other) .. P!dayIn(until - 1, other)
  BY DEF P!daysCovering
<1>3. \A i \in Int : P!dayIn(i, other) \in Int /\ P!dayIn(i, zone) \in Int
  BY DayIs DEF Keeps
<1> HIDE DEF from, until, covering
<1>4. ASSUME NEW i \in from .. (until - 1) PROVE P!dayIn(i, other) \in covering
  <2>1. i \in Int /\ from <= i /\ ~(until <= i) /\ i <= until - 1 /\ until - 1 \in Int
    BY <1>1
  <2>2. CASE other = zone
    <3>1. first <= P!dayIn(i, zone) /\ ~(last + 1 <= P!dayIn(i, zone))
      BY <1>1, <2>1
    <3> QED BY <1>2, <1>3, <2>1, <2>2, <3>1
  <2>3. CASE other # zone
    <3>1. P!dayIn(from, other) <= P!dayIn(i, other)
      BY <1>1, <2>1, DaysInOrder
    <3>2. P!dayIn(i, other) <= P!dayIn(until - 1, other)
      BY <2>1, DaysInOrder
    <3> QED BY <1>1, <1>2, <1>3, <2>1, <2>3, <3>1, <3>2
  <2> QED BY <2>2, <2>3
<1> QED BY <1>1, <1>2, <1>3, <1>4 DEF from, until, covering

\* A site is asked for every day of its own that a moment of the run falls on, of
\* those still ahead; a day it is not asked for that the run covers is behind its own
\* today and none of the run's; and on another calendar it is asked for none before or
\* after the days such moments fall on.  (days.ts daysCovering, site.ts siteWindow.)
THEOREM HoursAreAskedFor ==
  ASSUME DayLen \in Nat \ {0}, NEW zone, Keeps(zone), NEW other, Keeps(other),
         NEW first \in Int, NEW days \in Nat \ {0}, NEW now \in Int
  PROVE  LET from == P!wallTimeIn(first, zone, 0)
             until == P!wallTimeIn(first + days, zone, 0)
             covering == P!daysCovering(first, first + days - 1, zone, other)
             window == P!siteWindow(other, first, days, zone, {now})
         IN  /\ \A i \in from .. (until - 1) : i >= now => P!dayIn(i, other) \in window
             /\ window \subseteq covering
             /\ \A day \in covering \ window :
                  day < P!dayIn(now, other) /\ day \notin P!dayRange(first, days)
             /\ other # zone /\ from < until =>
                  \A day \in window : \E i, j \in from .. (until - 1) :
                    P!dayIn(i, other) <= day /\ day <= P!dayIn(j, other)
<1> DEFINE from == P!wallTimeIn(first, zone, 0)
           until == P!wallTimeIn(first + days, zone, 0)
           last == first + days - 1
           covering == P!daysCovering(first, last, zone, other)
           window == P!siteWindow(other, first, days, zone, {now})
           leading == P!Min(covering)
           today == P!dayIn(now, other)
<1>1. last \in Int /\ last + 1 = first + days
  OBVIOUS
<1>2. /\ from \in Int /\ until \in Int
      /\ \A i \in from .. (until - 1) : P!dayIn(i, other) \in covering
      /\ covering = IF other = zone THEN first .. last ELSE P!dayIn(from, other) .. P!dayIn(until - 1, other)
      /\ \A i \in Int : P!dayIn(i, other) \in Int
  <2>1. until = P!wallTimeIn(last + 1, zone, 0)
    BY <1>1
  <2> HIDE DEF until, last
  <2> QED BY <1>1, <2>1, CoveringIs
<1>3. \/ window = covering
      \/ /\ window = covering \ {leading}
         /\ leading < today /\ leading \notin P!dayRange(first, days)
         /\ other # zone
  <2>1. P!Said({now}) /\ P!The({now}) = now
    BY TheIs
  <2>2. window = IF \/ other = zone
                    \/ ~P!Said({now})
                    \/ first < P!dayIn(P!The({now}), zone)
                    \/ leading \in P!dayRange(first, days)
                    \/ leading >= P!dayIn(P!The({now}), other)
                 THEN covering ELSE covering \ {leading}
    BY DEF P!siteWindow
  <2>3. CASE covering = {}
    <3>1. covering \ {leading} = covering
      BY <2>3
    <3> HIDE DEF covering, window
    <3> QED BY <2>2, <3>1
  <2>4. CASE covering # {}
    <3> DEFINE least == IF other = zone THEN first ELSE P!dayIn(from, other)
               most == IF other = zone THEN last ELSE P!dayIn(until - 1, other)
    <3>1. covering = least .. most /\ least \in Int /\ most \in Int /\ today \in Int
      <4>1. until - 1 \in Int
        BY <1>2
      <4> HIDE DEF covering, last, until, from
      <4> QED BY <1>1, <1>2, <4>1
    <3> HIDE DEF least, most, covering, today, window
    <3>2. least <= most
      BY <2>4, <3>1
    <3>3. leading = least
      BY <3>1, <3>2, LeastDay
    <3>4. window # covering => window = covering \ {leading} /\ other # zone /\ leading \notin P!dayRange(first, days)
      BY <2>2
    <3>5. window # covering => ~(leading >= today)
      BY <2>1, <2>2 DEF today
    <3> HIDE DEF leading
    <3>6. leading \in Int /\ (~(leading >= today) => leading < today)
      BY <3>1, <3>3
    <3> QED BY <3>4, <3>5, <3>6
  <2> QED BY <2>3, <2>4
<1> HIDE DEF from, until, last, covering, window, today
<1> DEFINE AskedAhead == /\ \A i \in from .. (until - 1) : i >= now => P!dayIn(i, other) \in window
                     /\ window \subseteq covering
                     /\ \A day \in covering \ window : day < today /\ day \notin P!dayRange(first, days)
<1>4. ASSUME window = covering PROVE AskedAhead
  BY <1>2, <1>4
<1>5. ASSUME window = covering \ {leading}, leading < today, leading \notin P!dayRange(first, days) PROVE AskedAhead
  <2>1. ASSUME NEW i \in from .. (until - 1), i >= now PROVE P!dayIn(i, other) \in window
    <3>1. i \in Int /\ P!dayIn(i, other) \in covering /\ P!dayIn(i, other) \in Int /\ today \in Int
      BY <1>2, <2>1 DEF today
    <3>2. today <= P!dayIn(i, other)
      BY <2>1, <3>1, DaysInOrder DEF today
    <3>3. covering \subseteq Int
      BY <1>2, <1>1
    <3>4. leading # P!dayIn(i, other)
      <4> SUFFICES ASSUME leading = P!dayIn(i, other) PROVE FALSE
        OBVIOUS
      <4> HIDE DEF leading
      <4> QED BY <1>5, <3>1, <3>2
    <3> QED BY <1>5, <3>1, <3>4
  <2>2. window \subseteq covering /\ \A day \in covering \ window : day < today /\ day \notin P!dayRange(first, days)
    BY <1>5
  <2> QED BY <2>1, <2>2
<1>6. ASSUME other # zone, from < until, NEW day \in window
      PROVE  \E i, j \in from .. (until - 1) : P!dayIn(i, other) <= day /\ day <= P!dayIn(j, other)
  <2>1. from \in from .. (until - 1) /\ until - 1 \in from .. (until - 1)
    BY <1>2, <1>6
  <2>2. day \in P!dayIn(from, other) .. P!dayIn(until - 1, other)
    BY <1>2, <1>3, <1>6
  <2>3. P!dayIn(from, other) \in Int /\ P!dayIn(until - 1, other) \in Int
    BY <1>2, <2>1
  <2>4. P!dayIn(from, other) <= day /\ day <= P!dayIn(until - 1, other)
    BY <2>2, <2>3
  <2> QED BY <2>1, <2>4
<1>7. AskedAhead
  BY <1>3, <1>4, <1>5
<1> QED BY <1>6, <1>7 DEF from, until, window, covering, last, today

\* No day a site is asked for is before the day a prune leaves, whatever the calendars
\* of the sites, in a run whose first day has a moment in its own zone (only a day
\* skipped whole has none).  (site.ts earliestDay, siteWindow.)
THEOREM PruneLeavesAsked ==
  ASSUME DayLen \in Nat \ {0}, NEW zone, Keeps(zone), NEW zones,
         \A other \in zones : Keeps(other),
         NEW first \in Int, \E i \in Int : P!dayIn(i, zone) = first,
         NEW days \in Nat \ {0}, NEW now \in Int, NEW other \in zones
  PROVE  \A day \in P!siteWindow(other, first, days, zone, {now}) :
           P!earliestDay(zones, first, zone) <= day
<1> DEFINE Start(of) == P!Min(P!siteWindow(of, first, 1, zone, {}))
           starts == {first} \cup {Start(of) : of \in zones}
           from == P!wallTimeIn(first, zone, 0)
<1>1. from \in Int /\ \A i \in Int : from <= i <=> first <= P!dayIn(i, zone)
  BY MidnightIs
<1>2. ASSUME NEW of \in zones
      PROVE  Start(of) = IF of = zone THEN first ELSE P!dayIn(from, of)
  <2> DEFINE until == P!wallTimeIn(first + 1, zone, 0)
             covering == P!daysCovering(first, first, zone, of)
  <2>1. first + 1 - 1 = first /\ first + 1 \in Int
    OBVIOUS
  <2>2. P!siteWindow(of, first, 1, zone, {}) = covering
    BY <2>1, TheIs DEF P!siteWindow
  <2>3. /\ covering = IF of = zone THEN first .. first ELSE P!dayIn(from, of) .. P!dayIn(until - 1, of)
        /\ \A i \in Int : P!dayIn(i, of) \in Int
    <3>1. Keeps(zone) /\ Keeps(of) /\ first \in Int /\ DayLen \in Nat \ {0}
      OBVIOUS
    <3> QED BY ONLY <3>1, CoveringIs
  <2>4. until \in Int /\ \A i \in Int : until <= i <=> first + 1 <= P!dayIn(i, zone)
    BY <2>1, MidnightIs
  <2>5. from <= until - 1
    <3>1. PICK i \in Int : P!dayIn(i, zone) = first
      OBVIOUS
    <3>2. from <= i /\ ~(until <= i)
      BY <1>1, <2>4, <3>1
    <3> HIDE DEF from, until
    <3> QED BY <1>1, <2>4, <3>2
  <2> HIDE DEF covering, from, until
  <2>6. P!dayIn(from, of) <= P!dayIn(until - 1, of)
    <3>1. until - 1 \in Int
      BY <2>4
    <3> QED BY <1>1, <2>5, <3>1, DaysInOrder
  <2>7. CASE of = zone
    <3>1. covering = first .. first
      BY <2>3, <2>7
    <3>2. P!Min(first .. first) = first
      <4>1. first <= first
        OBVIOUS
      <4> QED BY <4>1, LeastDay
    <3>3. Start(of) = P!Min(covering)
      BY <2>2
    <3> HIDE DEF Start
    <3>4. Start(of) = first
      BY <3>1, <3>2, <3>3
    <3> QED BY <2>7, <3>4
  <2>8. CASE of # zone
    <3>1. covering = P!dayIn(from, of) .. P!dayIn(until - 1, of)
      BY <2>3, <2>8
    <3>2. P!dayIn(from, of) \in Int /\ P!dayIn(until - 1, of) \in Int
      BY <1>1, <2>3, <2>4
    <3>3. P!Min(P!dayIn(from, of) .. P!dayIn(until - 1, of)) = P!dayIn(from, of)
      BY <2>6, <3>2, LeastDay
    <3>4. Start(of) = P!Min(covering)
      BY <2>2
    <3> QED BY <2>8, <3>1, <3>3, <3>4
  <2> QED BY <2>7, <2>8
<1> DEFINE whole == (from - DayLen) \div DayLen
           low == IF whole <= first THEN whole ELSE first
<1>3. whole \in Int /\ whole * DayLen <= from - DayLen
  <2> DEFINE x == from - DayLen
  <2>1. x \in Int
    <3> HIDE DEF from
    <3> QED BY <1>1
  <2> HIDE DEF x
  <2>2. x \div DayLen \in Int
    BY <2>1, DaysOfTicks
  <2> DEFINE w == x \div DayLen
  <2>3. w \in Int /\ w <= w
    BY <2>2
  <2>4. w * DayLen <= x
    BY <2>1, <2>2, <2>3, DaysOfTicks
  <2> HIDE DEF from
  <2> QED BY <2>3, <2>4 DEF x
<1>4. ASSUME NEW of \in zones PROVE Start(of) \in Int /\ low <= Start(of)
  <2>1. of \in Zone /\ NearUTC(of)
    BY DEF Keeps
  <2>2. P!dayIn(from, of) \in Int /\ (whole <= P!dayIn(from, of) <=> whole * DayLen <= Reads(of, from))
    BY <1>1, <1>3, <2>1, DayIs
  <2>3. from - DayLen <= Reads(of, from)
    <3>1. P!rawOffsetAt(of, from) \in (-DayLen) .. DayLen
      BY <2>1 DEF P!rawOffsetAt, NearUTC
    <3> HIDE DEF from
    <3> QED BY <1>1, <3>1 DEF Reads
  <2>4. Reads(of, from) \in Int /\ whole * DayLen \in Int
    <3>1. P!rawOffsetAt(of, from) \in Int
      BY <2>1 DEF P!rawOffsetAt, Zone
    <3> HIDE DEF from, whole
    <3> QED BY <1>1, <1>3, <3>1 DEF Reads
  <2> HIDE DEF Start, from, whole
  <2>5. whole <= P!dayIn(from, of)
    BY <1>1, <1>3, <2>2, <2>3, <2>4
  <2> QED BY <1>2, <1>3, <2>2, <2>5
<1>5. P!Min(starts) \in starts /\ \A start \in starts : P!Min(starts) <= start
  <2>1. low \in Int /\ low <= first
    BY <1>3
  <2>2. starts \in SUBSET Int /\ starts # {} /\ \A start \in starts : low <= start
    <3> HIDE DEF Start, low
    <3> QED BY <1>4, <2>1
  <2> HIDE DEF starts, low
  <2> QED BY <2>1, <2>2, EarliestIs
<1>6. P!earliestDay(zones, first, zone) = P!Min(starts)
  BY DEF P!earliestDay
<1>7. P!earliestDay(zones, first, zone) <= first /\ P!earliestDay(zones, first, zone) <= Start(other)
  <2>1. first \in starts /\ Start(other) \in starts
    OBVIOUS
  <2> HIDE DEF starts, Start
  <2> QED BY <1>5, <1>6, <2>1
<1>8. P!earliestDay(zones, first, zone) \in Int
  <2>1. starts \subseteq Int
    <3> HIDE DEF Start
    <3> QED BY <1>4
  <2> HIDE DEF starts
  <2> QED BY <1>5, <1>6, <2>1
<1> DEFINE last == first + days - 1
           until == P!wallTimeIn(last + 1, zone, 0)
           covering == P!daysCovering(first, last, zone, other)
           earliest == P!earliestDay(zones, first, zone)
<1>9. last \in Int
  OBVIOUS
<1>10. P!siteWindow(other, first, days, zone, {now}) \subseteq covering
  BY DEF P!siteWindow
<1>11. /\ covering = IF other = zone THEN first .. last ELSE P!dayIn(from, other) .. P!dayIn(until - 1, other)
       /\ until \in Int /\ \A i \in Int : P!dayIn(i, other) \in Int
  <2>1. Keeps(zone) /\ Keeps(other) /\ first \in Int /\ DayLen \in Nat \ {0}
    OBVIOUS
  <2> HIDE DEF last
  <2> QED BY ONLY <1>9, <2>1, CoveringIs
<1> HIDE DEF Start, starts, earliest, covering, last, until, from
<1>12. ASSUME NEW day \in covering PROVE earliest <= day
  <2>1. CASE other = zone
    BY <1>7, <1>8, <1>9, <1>11, <2>1 DEF earliest
  <2>2. CASE other # zone
    <3>1. P!dayIn(from, other) = Start(other)
      BY <1>2, <2>2
    <3>2. P!dayIn(from, other) \in Int /\ P!dayIn(until - 1, other) \in Int
      BY <1>1, <1>11
    <3>3. day \in P!dayIn(from, other) .. P!dayIn(until - 1, other)
      BY <1>11, <2>2
    <3> QED BY <1>7, <1>8, <3>1, <3>2, <3>3 DEF earliest
  <2> QED BY <2>1, <2>2
<1> QED BY <1>10, <1>12 DEF earliest

-----------------------------------------------------------------------------
(* When an entry is asked for again, and when a server grabs next.             *)
\* A day, on whatever calendar, is always refetched if a moment of it is one of the
\* days that are, counted from today on; and no other day there is.
\* (staleness.ts alwaysRefetched.)
THEOREM RefetchedAsToldOf ==
  ASSUME DayLen \in Nat \ {0}, NEW zone, Keeps(zone), NEW dayZone, Keeps(dayZone),
         NEW now \in Int, NEW days \in Nat, NEW day \in Int, \E i \in Int : P!dayIn(i, dayZone) = day
  PROVE  P!alwaysRefetched(day, days, now, zone, dayZone) <=>
           \E i \in Int : /\ P!dayIn(i, dayZone) = day
                          /\ P!dayIn(i, zone) - P!dayIn(now, zone) \in 0 .. (days - 1)
<1> DEFINE today == P!dayIn(now, zone)
           a == P!wallTimeIn(day, dayZone, 0)
           b == P!wallTimeIn(day + 1, dayZone, 0)
           c == P!wallTimeIn(today, zone, 0)
           d == P!wallTimeIn(today + days, zone, 0)
           In(i) == P!dayIn(i, dayZone)
           At(i) == P!dayIn(i, zone)
<1>1. \A i \in Int : In(i) \in Int /\ At(i) \in Int
  BY DayIs DEF Keeps
<1>2. today \in Int /\ today + days \in Int /\ day + 1 \in Int
  BY <1>1
<1>3. /\ a \in Int /\ \A i \in Int : a <= i <=> day <= In(i)
      /\ b \in Int /\ \A i \in Int : b <= i <=> day + 1 <= In(i)
      /\ c \in Int /\ \A i \in Int : c <= i <=> today <= At(i)
      /\ d \in Int /\ \A i \in Int : d <= i <=> today + days <= At(i)
  BY <1>2, MidnightIs
<1>4. PICK some \in Int : In(some) = day
  OBVIOUS
<1>5. P!alwaysRefetched(day, days, now, zone, dayZone) <=>
        /\ days > 0
        /\ IF dayZone = zone THEN day - today \in 0 .. (days - 1) ELSE a < d /\ b > c
  BY DEF P!alwaysRefetched
<1>6. dayZone = zone => \A i \in Int : In(i) = At(i)
  OBVIOUS
<1>7. At(now) = today
  OBVIOUS
<1> HIDE DEF today, a, b, c, d, In, At
<1>8. (\E i \in Int : In(i) = day /\ At(i) - today \in 0 .. (days - 1)) =>
        days > 0 /\ IF dayZone = zone THEN day - today \in 0 .. (days - 1) ELSE a < d /\ b > c
  <2> SUFFICES ASSUME NEW i \in Int, In(i) = day, At(i) - today \in 0 .. (days - 1)
               PROVE  days > 0 /\ IF dayZone = zone THEN day - today \in 0 .. (days - 1) ELSE a < d /\ b > c
    OBVIOUS
  <2>1. days > 0 /\ today <= At(i) /\ ~(today + days <= At(i))
    BY <1>1, <1>2
  <2>2. a <= i /\ ~(b <= i) /\ c <= i /\ ~(d <= i)
    BY <1>1, <1>3, <2>1
  <2>3. a < d /\ b > c
    BY <1>3, <2>2
  <2> QED BY <1>6, <2>1, <2>3
<1>9. ASSUME days > 0, IF dayZone = zone THEN day - today \in 0 .. (days - 1) ELSE a < d /\ b > c
      PROVE  \E i \in Int : In(i) = day /\ At(i) - today \in 0 .. (days - 1)
  <2>1. CASE dayZone = zone
    BY <1>4, <1>6, <1>9, <2>1
  <2>2. CASE dayZone # zone
    <3>1. a <= some /\ ~(b <= some) /\ c <= now /\ ~(d <= now)
      BY <1>1, <1>2, <1>3, <1>4, <1>7, <1>9
    <3>2. a < b /\ c < d /\ a < d /\ c < b
      BY <1>3, <1>9, <2>2, <3>1
    <3>3. PICK i \in Int : a <= i /\ c <= i /\ i < b /\ i < d
      <4>1. CASE a <= c
        BY <1>3, <3>2, <4>1
      <4>2. CASE c < a
        BY <1>3, <3>2, <4>2
      <4> QED BY <1>3, <4>1, <4>2
    <3>4. day <= In(i) /\ ~(day + 1 <= In(i)) /\ today <= At(i) /\ ~(today + days <= At(i))
      BY <1>3, <3>3
    <3>5. In(i) \in Int /\ At(i) \in Int
      BY <1>1
    <3> QED BY <1>2, <3>4, <3>5
  <2> QED BY <2>1, <2>2
<1> QED BY <1>5, <1>8, <1>9 DEF In, At, today

\* Where a time of day is given, and a grab is not to start at once, the next one is
\* the first still ahead of the day's anchor and the intervals after it.
\* (schedule.ts grabEvery.)
THEOREM NextGrabIsFirstAhead ==
  ASSUME DayLen \in Nat \ {0}, NEW zone, Keeps(zone), NEW every \in Nat \ {0}, NEW at \in Nat,
         NEW whenEmpty \in BOOLEAN, NEW from \in Int, NEW runs \in Nat, NEW cached \in Nat,
         ~(runs = 0 /\ whenEmpty /\ cached = 0)
  PROVE  LET anchor == P!wallTimeIn(P!dayIn(from, zone), zone, at)
             next == P!grabEvery(every, {at}, whenEmpty, zone, from, runs, cached)
         IN  /\ \E n \in Nat : next = anchor + n * every
             /\ next > from
             /\ \A n \in Nat : anchor + n * every > from => next <= anchor + n * every
<1> DEFINE day == P!dayIn(from, zone)
           anchor == P!wallTimeIn(day, zone, at)
           next == P!grabEvery(every, {at}, whenEmpty, zone, from, runs, cached)
           elapsed == from - anchor
           n == elapsed \div every
<1>1. anchor \in Int
  <2> DEFINE wall == (day + at \div DayLen) * DayLen + (at % DayLen)
             read == P!resolve(wall, zone)
  <2>1. wall \in Int
    <3>1. day \in Int /\ at \div DayLen \in Int /\ at % DayLen \in Int
      BY DayIs DEF Keeps
    <3> HIDE DEF day
    <3> QED BY <3>1
  <2>2. anchor = read.instant
    <3> HIDE DEF day
    <3> QED BY DEF P!wallTimeIn, P!zonedTime, P!zonedXmltvDate, P!keepXmltvOffset
  <2> HIDE DEF wall
  <2>3. StandsFor(read, zone, wall)
    BY <2>1, ResolveIs DEF Keeps
  <2> QED BY <2>2, <2>3 DEF StandsFor
<1>2. next = IF elapsed < 0 THEN anchor ELSE anchor + (n + 1) * every
  BY TheIs DEF P!grabEvery
<1> HIDE DEF day, anchor, next
<1>3. elapsed \in Int /\ from = anchor + elapsed
  BY <1>1
<1> HIDE DEF elapsed
<1>4. n \in Int /\ n * every <= elapsed /\ elapsed < n * every + every
  BY <1>3
<1>5. \A m \in Int : m * every <= elapsed <=> m <= n
  <2> TAKE m \in Int
  <2> HIDE DEF n
  <2>1. CASE m <= n
    <3>1. (n - m) * every >= 0 /\ n * every - m * every = (n - m) * every
      BY <1>4, <2>1
    <3> QED BY <1>3, <1>4, <2>1, <3>1
  <2>2. CASE ~(m <= n)
    <3>1. (m - n - 1) * every >= 0 /\ m * every - n * every - every = (m - n - 1) * every
      BY <1>4, <2>2
    <3> QED BY <1>3, <1>4, <2>2, <3>1
  <2> QED BY <2>1, <2>2
<1> HIDE DEF n
<1>6. CASE elapsed < 0
  <2>1. next = anchor
    BY <1>2, <1>6
  <2>2. \A m \in Nat : anchor <= anchor + m * every
    <3> TAKE m \in Nat
    <3>1. m * every \in Nat
      OBVIOUS
    <3> QED BY <1>1, <3>1
  <2>3. anchor = anchor + 0 * every /\ 0 \in Nat
    BY <1>1
  <2>4. \E m \in Nat : next = anchor + m * every
    BY <2>1, <2>3
  <2>5. next > from
    BY <1>1, <1>3, <1>6, <2>1
  <2> QED BY <2>1, <2>2, <2>4, <2>5 DEF next, anchor, day
<1>7. CASE ~(elapsed < 0)
  <2>1. n >= 0
    BY <1>3, <1>4, <1>5, <1>7
  <2>2. next = anchor + (n + 1) * every /\ n + 1 \in Nat
    BY <1>2, <1>4, <1>7, <2>1
  <2>3. (n + 1) * every = n * every + every
    BY <1>4
  <2>4. next > from
    BY <1>1, <1>3, <1>4, <2>2, <2>3
  <2>5. ASSUME NEW m \in Nat, anchor + m * every > from PROVE next <= anchor + m * every
    <3>1. m * every \in Int /\ ~(m * every <= elapsed)
      BY <1>1, <1>3, <2>5
    <3>2. m >= n + 1
      BY <1>4, <1>5, <3>1
    <3>3. (m - n - 1) * every >= 0 /\ m * every - n * every - every = (m - n - 1) * every
      BY <1>4, <3>2
    <3> QED BY <1>1, <1>4, <2>2, <2>3, <3>1, <3>3
  <2> QED BY <2>2, <2>4, <2>5 DEF next, anchor, day
<1> QED BY <1>6, <1>7

-----------------------------------------------------------------------------
(* Cutting into requests: what is kept of a list, what pieces make of one, and *)
(* what a list of lists comes to.                                              *)
Once(items) == \A i, j \in DOMAIN items : items[i] = items[j] => i = j
OnceOf(lists) ==
  \A n, m \in DOMAIN lists : \A i \in DOMAIN lists[n], j \in DOMAIN lists[m] :
    lists[n][i] = lists[m][j] => n = m /\ i = j

\* What is kept of the first n.
KeptOf(out, n, items, kept) ==
  /\ out \in Seq(kept) /\ Len(out) <= n
  /\ \A j \in DOMAIN out : \E i \in 1 .. n : out[j] = items[i]
  /\ \A i \in 1 .. n : items[i] \in kept => \E j \in DOMAIN out : out[j] = items[i]
  /\ Once(items) => Once(out)

IsFilter(f, items, kept) ==
  f = [i \in 0 .. Len(items) |->
         IF i = 0 THEN <<>>
         ELSE IF items[i] \in kept THEN Append(f[i - 1], items[i]) ELSE f[i - 1]]

LEMMA KeptNext ==
  ASSUME NEW S, NEW items \in Seq(S), NEW kept, NEW n \in Nat, n < Len(items), NEW was, KeptOf(was, n, items, kept)
  PROVE  KeptOf(IF items[n + 1] \in kept THEN Append(was, items[n + 1]) ELSE was, n + 1, items, kept)
<1>1. /\ was \in Seq(kept) /\ Len(was) \in Nat /\ Len(was) <= n /\ DOMAIN was = 1 .. Len(was)
      /\ Len(items) \in Nat /\ DOMAIN items = 1 .. Len(items) /\ n + 1 \in DOMAIN items
      /\ \A i \in 1 .. (n + 1) : i \in 1 .. n \/ i = n + 1
      /\ \A i \in 1 .. n : i \in DOMAIN items /\ i \in 1 .. (n + 1) /\ i # n + 1
  BY DEF KeptOf
<1>2. CASE items[n + 1] \notin kept
  <2>1. \A j \in DOMAIN was : \E i \in 1 .. (n + 1) : was[j] = items[i]
    BY <1>1 DEF KeptOf
  <2>2. \A i \in 1 .. (n + 1) : items[i] \in kept => \E j \in DOMAIN was : was[j] = items[i]
    BY <1>1, <1>2 DEF KeptOf
  <2> QED BY <1>1, <1>2, <2>1, <2>2 DEF KeptOf
<1>3. CASE items[n + 1] \in kept
  <2> DEFINE out == Append(was, items[n + 1])
             last == Len(was) + 1
  <2>1. /\ out \in Seq(kept) /\ Len(out) = last /\ DOMAIN out = 1 .. last /\ out[last] = items[n + 1]
        /\ \A j \in DOMAIN was : out[j] = was[j]
    BY <1>1, <1>3
  <2>2. \A j \in DOMAIN out : j \in DOMAIN was \/ j = last
    BY <1>1, <2>1
  <2> HIDE DEF out
  <2>3. \A j \in DOMAIN out : \E i \in 1 .. (n + 1) : out[j] = items[i]
    BY <1>1, <2>1, <2>2 DEF KeptOf
  <2>4. ASSUME NEW i \in 1 .. (n + 1), items[i] \in kept PROVE \E j \in DOMAIN out : out[j] = items[i]
    <3>1. CASE i = n + 1
      BY <1>1, <2>1, <3>1
    <3>2. CASE i \in 1 .. n
      <4>1. PICK j \in DOMAIN was : was[j] = items[i]
        BY <2>4, <3>2 DEF KeptOf
      <4> QED BY <1>1, <2>1, <4>1
    <3> QED BY <1>1, <3>1, <3>2
  <2>5. ASSUME Once(items), NEW i \in DOMAIN out, NEW j \in DOMAIN out, out[i] = out[j] PROVE i = j
    <3>1. ASSUME NEW k \in DOMAIN was PROVE was[k] # items[n + 1]
      <4>1. PICK l \in 1 .. n : was[k] = items[l]
        BY DEF KeptOf
      <4> QED BY <1>1, <2>5, <4>1 DEF Once
    <3>2. Once(was)
      BY <2>5 DEF KeptOf
    <3> QED BY <2>1, <2>2, <2>5, <3>1, <3>2 DEF Once
  <2>6. Len(out) <= n + 1
    BY <1>1, <2>1
  <2>7. Once(items) => Once(out)
    BY <2>5 DEF Once
  <2> QED BY <1>3, <2>1, <2>3, <2>4, <2>6, <2>7 DEF KeptOf, out
<1> QED BY <1>2, <1>3

LEMMA KeptNone == ASSUME NEW items, NEW kept PROVE KeptOf(<<>>, 0, items, kept)
BY DEF KeptOf, Once

LEMMA FilterExists ==
  ASSUME NEW items, Len(items) \in Nat, NEW kept
  PROVE  \E f : IsFilter(f, items, kept)
<1> DEFINE At(f, i) == IF i = 0 THEN <<>>
                       ELSE IF items[i] \in kept THEN Append(f[i - 1], items[i]) ELSE f[i - 1]
           fails == {m \in Nat : ~\E f : f = [i \in 0 .. m |-> At(f, i)]}
<1>1. SUFFICES ASSUME Len(items) \in fails PROVE FALSE
  BY DEF IsFilter
<1>2. PICK m \in fails : \A other \in fails : m <= other
  BY <1>1, LeastIsOne
<1>3. CASE m = 0
  <2> DEFINE f == [i \in 0 .. 0 |-> <<>>]
  <2>1. \A i \in 0 .. 0 : i = 0 /\ At(f, i) = <<>>
    OBVIOUS
  <2> HIDE DEF At
  <2>2. f = [i \in 0 .. m |-> At(f, i)]
    BY <1>3, <2>1
  <2> QED BY <2>2
<1>4. CASE m # 0
  <2>1. m - 1 \in Nat /\ m - 1 \notin fails
    <3>1. m \in Nat /\ m - 1 \in Nat /\ ~(m <= m - 1)
      BY <1>4
    <3> HIDE DEF fails
    <3> QED BY <1>2, <3>1
  <2>2. PICK f : f = [i \in 0 .. (m - 1) |-> At(f, i)]
    BY <2>1
  <2> DEFINE g == [i \in 0 .. m |-> IF i = m THEN At(f, m) ELSE f[i]]
  <2>3. \A i \in 0 .. m : g[i] = At(g, i)
    <3> SUFFICES ASSUME NEW i \in 0 .. m PROVE g[i] = At(g, i)
      OBVIOUS
    <3>1. CASE i = m
      BY <3>1, <1>4
    <3>2. CASE i # m
      <4>1. i \in 0 .. (m - 1) /\ f[i] = At(f, i)
        <5>1. i \in 0 .. (m - 1)
          BY <3>2
        <5> HIDE DEF At
        <5> QED BY <5>1, <2>2
      <4>2. i # 0 => g[i - 1] = f[i - 1]
        BY <4>1
      <4> QED BY <4>1, <4>2, <3>2
    <3> QED BY <3>1, <3>2
  <2> HIDE DEF At
  <2>4. g = [i \in 0 .. m |-> At(g, i)]
    BY <2>3
  <2> QED BY <2>4
<1> QED BY <1>3, <1>4

\* What is kept of a list is those of it that are in the set, each as often.
LEMMA FilteredIs ==
  ASSUME NEW S, NEW items \in Seq(S), NEW kept
  PROVE  KeptOf(P!filtered(items, kept), Len(items), items, kept)
<1> DEFINE f == CHOOSE g : IsFilter(g, items, kept)
           fails == {n \in 0 .. Len(items) : ~KeptOf(f[n], n, items, kept)}
<1>1. Len(items) \in Nat
  OBVIOUS
<1>2. P!filtered(items, kept) = f[Len(items)]
  BY DEF P!filtered, IsFilter
<1>3. IsFilter(f, items, kept)
  BY <1>1, FilterExists
<1> HIDE DEF f
<1>4. f[0] = <<>> /\ \A n \in 1 .. Len(items) :
        f[n] = IF items[n] \in kept THEN Append(f[n - 1], items[n]) ELSE f[n - 1]
  <2>1. f = [n \in 0 .. Len(items) |->
               IF n = 0 THEN <<>>
               ELSE IF items[n] \in kept THEN Append(f[n - 1], items[n]) ELSE f[n - 1]]
    BY <1>3 DEF IsFilter
  <2>2. 0 \in 0 .. Len(items) /\ \A n \in 1 .. Len(items) : n \in 0 .. Len(items) /\ n # 0
    BY <1>1
  <2> QED BY <2>1, <2>2
<1>5. fails = {}
  <2> SUFFICES ASSUME fails # {} PROVE FALSE
    OBVIOUS
  <2>1. PICK n \in fails : \A other \in fails : n <= other
    <3>1. fails \in SUBSET Nat
      BY <1>1
    <3> HIDE DEF fails
    <3> QED BY <3>1, LeastIsOne
  <2>2. n # 0
    BY <1>4, <2>1, KeptNone
  <2>3. n - 1 \in Nat /\ n - 1 < Len(items) /\ n \in 1 .. Len(items) /\ (n - 1) + 1 = n
    BY <1>1, <2>2
  <2>4. n - 1 \notin fails
    <3> HIDE DEF fails
    <3>1. ~(n <= n - 1)
      BY <2>3
    <3> QED BY <2>1, <3>1
  <2>5. KeptOf(f[n - 1], n - 1, items, kept)
    BY <1>1, <2>3, <2>4
  <2> DEFINE before == n - 1
             was == f[before]
  <2>6. before \in Nat /\ before < Len(items) /\ before + 1 = n /\ KeptOf(was, before, items, kept)
    BY <2>3, <2>5
  <2> HIDE DEF before, was
  <2>7. KeptOf(IF items[before + 1] \in kept THEN Append(was, items[before + 1]) ELSE was, before + 1, items, kept)
    BY <2>6, KeptNext
  <2>8. f[n] = IF items[before + 1] \in kept THEN Append(was, items[before + 1]) ELSE was
    BY <1>4, <2>3, <2>6 DEF was, before
  <2>9. KeptOf(f[n], n, items, kept)
    BY <2>6, <2>7, <2>8
  <2> QED BY <2>9
<1> QED BY <1>1, <1>2, <1>5

\* The pieces of a list are of one to as many as they may be, and have what it has,
\* each of it once.
PiecesOf(pieces, items, size) ==
  /\ \A n \in DOMAIN pieces : Len(pieces[n]) \in 1 .. size
  /\ \A n \in DOMAIN pieces : \A j \in DOMAIN pieces[n] :
       \E i \in DOMAIN items : pieces[n][j] = items[i] /\ n - 1 = (i - 1) \div size
  /\ \A i \in DOMAIN items : \E n \in DOMAIN pieces : \E j \in DOMAIN pieces[n] : pieces[n][j] = items[i]
  /\ Once(items) => OnceOf(pieces)

LEMMA TimesIsOrdered ==
  ASSUME NEW n \in Int, NEW m \in Int, NEW size \in Nat \ {0}
  PROVE  n < m => n * size + size <= m * size
<1> SUFFICES ASSUME n < m PROVE n * size + size <= m * size
  OBVIOUS
<1>1. (m - n - 1) * size >= 0
  OBVIOUS
<1>2. m * size - n * size - size = (m - n - 1) * size
  OBVIOUS
<1>3. m * size \in Int /\ n * size \in Int
  OBVIOUS
<1> QED BY <1>1, <1>2, <1>3

LEMMA PlaceOf ==
  ASSUME NEW n \in Nat, NEW size \in Nat \ {0}, NEW j \in 1 .. size
  PROVE  (n * size + j - 1) \div size = n
<1> DEFINE x == n * size + j - 1
           q == x \div size
           from == n * size
           mine == q * size
<1>1. from \in Nat /\ x \in Nat /\ from <= x /\ x < from + size
  <2>1. n * size \in Nat
    OBVIOUS
  <2> QED BY <2>1
<1> HIDE DEF x
<1>2. q \in Nat /\ mine <= x /\ x < mine + size /\ mine \in Nat
  BY <1>1
<1> HIDE DEF q
<1>3. (n < q => from + size <= mine) /\ (q < n => mine + size <= from)
  BY <1>2, TimesIsOrdered
<1> HIDE DEF from, mine
<1>4. n = q
  BY <1>1, <1>2, <1>3
<1> QED BY <1>4 DEF q, x

LEMMA PiecesAre ==
  ASSUME NEW S, NEW items \in Seq(S), NEW size \in Nat \ {0}
  PROVE  P!chunk(items, size) \in Seq(Seq(S)) /\ PiecesOf(P!chunk(items, size), items, size)
<1> DEFINE len == Len(items)
           many == (len + size - 1) \div size
           End(n) == IF n * size <= len THEN n * size ELSE len
           pieces == [n \in 1 .. many |-> SubSeq(items, (n - 1) * size + 1, End(n))]
<1>1. len \in Nat /\ DOMAIN items = 1 .. len /\ \A i \in 1 .. len : items[i] \in S
  OBVIOUS
<1> HIDE DEF len
<1>2. /\ many \in Nat /\ many * size <= len + size - 1 /\ len + size - 1 < many * size + size
      /\ many * size \in Nat
  <2> DEFINE all == len + size - 1
  <2>1. all \in Nat
    BY <1>1
  <2> HIDE DEF all
  <2>2. all \div size \in Nat /\ (all \div size) * size <= all /\ all < (all \div size) * size + size
    BY <2>1
  <2> QED BY <2>1, <2>2 DEF all
<1> HIDE DEF many
<1>3. P!chunk(items, size) = pieces
  <2>1. ~(size < 1)
    OBVIOUS
  <2>2. ASSUME NEW n \in 1 .. many PROVE P!Min({n * size, len}) = End(n)
    <3> DEFINE most == n * size
    <3>1. most \in Int
      BY <1>2
    <3> HIDE DEF most
    <3>2. P!Min({most, len}) = CHOOSE x \in {most, len} : \A y \in {most, len} : x <= y
      BY DEF P!Min
    <3>3. \A x \in {most, len} : (\A y \in {most, len} : x <= y) => x = IF most <= len THEN most ELSE len
      BY <1>1, <3>1
    <3>4. \E x \in {most, len} : \A y \in {most, len} : x <= y
      BY <1>1, <3>1
    <3>5. P!Min({most, len}) = IF most <= len THEN most ELSE len
      BY <3>2, <3>3, <3>4
    <3> QED BY <3>5 DEF most
  <2>3. P!chunk(items, size) = [n \in 1 .. many |-> SubSeq(items, (n - 1) * size + 1, P!Min({n * size, len}))]
    BY <2>1 DEF P!chunk, many, len
  <2> HIDE DEF End
  <2> QED BY <2>2, <2>3
\* Where a piece begins and how long it is.
<1>4. ASSUME NEW n \in 1 .. many
      PROVE  /\ (n - 1) * size \in Nat /\ n * size = (n - 1) * size + size
             /\ (n - 1) * size < len /\ End(n) \in Nat
             /\ Len(pieces[n]) = End(n) - (n - 1) * size /\ pieces[n] \in Seq(S)
             /\ \A j \in 1 .. (End(n) - (n - 1) * size) :
                  pieces[n][j] = items[(n - 1) * size + j] /\ (n - 1) * size + j \in 1 .. len
  <2> DEFINE from == (n - 1) * size
  <2>1. n - 1 \in Nat /\ n \in Nat
    BY <1>2
  <2>2. from \in Nat /\ n * size = from + size
    BY <2>1
  <2>3. n * size <= many * size
    <3>1. n = many \/ n < many
      BY <1>2
    <3>2. n < many => n * size + size <= many * size
      BY <1>2, <2>1, TimesIsOrdered
    <3>3. n * size \in Nat
      BY <2>1
    <3> QED BY <1>2, <3>1, <3>2, <3>3
  <2> DEFINE to == End(n)
  <2>4. to = IF n * size <= len THEN n * size ELSE len
    OBVIOUS
  <2>5. pieces[n] = SubSeq(items, from + 1, to)
    OBVIOUS
  <2> HIDE DEF from, to, End
  <2>6. from < len
    BY <1>1, <1>2, <2>2, <2>3
  <2>7. to \in Nat /\ from + 1 <= to /\ to <= len
    BY <1>1, <2>2, <2>4, <2>6
  <2> DEFINE piece == SubSeq(items, from + 1, to)
  <2>8. from + 1 \in Int /\ to \in Int /\ \A i \in (from + 1) .. to : items[i] \in S
    BY <1>1, <2>2, <2>7
  <2>9. /\ piece \in Seq(S) /\ Len(piece) = IF from + 1 <= to THEN to - (from + 1) + 1 ELSE 0
        /\ \A j \in 1 .. (to - (from + 1) + 1) : piece[j] = items[from + 1 + j - 1]
    BY <2>8, SubSeqProperties
  <2> HIDE DEF piece, pieces
  <2>10. Len(piece) = to - from
    BY <2>2, <2>7, <2>9
  <2>11. ASSUME NEW j \in 1 .. (to - from) PROVE piece[j] = items[from + j] /\ from + j \in 1 .. len
    <3>1. j \in 1 .. (to - (from + 1) + 1) /\ from + 1 + j - 1 = from + j
      BY <2>2, <2>7
    <3> QED BY <1>1, <2>2, <2>7, <2>9, <3>1
  <2> QED BY <2>2, <2>5, <2>6, <2>7, <2>9, <2>10, <2>11 DEF from, to, piece
<1>5. DOMAIN pieces = 1 .. many
  OBVIOUS
<1>6. pieces \in Seq(Seq(S))
  <2>1. \A n \in 1 .. many : pieces[n] \in Seq(S)
    BY <1>4
  <2>2. pieces = [n \in 1 .. many |-> pieces[n]]
    OBVIOUS
  <2> HIDE DEF pieces
  <2>3. pieces \in [1 .. many -> Seq(S)]
    BY <2>1, <2>2
  <2> QED BY <1>2, <2>3, SeqDef
<1>7. ASSUME NEW n \in 1 .. many
      PROVE  /\ Len(pieces[n]) \in 1 .. size /\ DOMAIN pieces[n] = 1 .. (End(n) - (n - 1) * size)
             /\ End(n) <= len /\ End(n) <= (n - 1) * size + size
  <2> DEFINE from == (n - 1) * size
             next == n * size
  <2>1. from \in Nat /\ next = from + size /\ from < len /\ End(n) = IF next <= len THEN next ELSE len
    <3>1. End(n) = IF next <= len THEN next ELSE len
      OBVIOUS
    <3>2. from \in Nat /\ next = from + size /\ from < len
      BY <1>4
    <3> QED BY <3>1, <3>2
  <2>2. Len(pieces[n]) = End(n) - from /\ pieces[n] \in Seq(S) /\ DOMAIN pieces[n] = 1 .. Len(pieces[n])
    <3> HIDE DEF pieces, End
    <3>1. Len(pieces[n]) = End(n) - from /\ pieces[n] \in Seq(S)
      BY <1>4
    <3>2. DOMAIN pieces[n] = 1 .. Len(pieces[n])
      BY <3>1
    <3> QED BY <3>1, <3>2
  <2> HIDE DEF from, next, End, pieces
  <2>3. End(n) - from \in 1 .. size /\ End(n) <= len /\ End(n) <= from + size
    BY <1>1, <2>1
  <2> QED BY <2>2, <2>3 DEF from
<1> HIDE DEF pieces
<1>8. ASSUME NEW i \in DOMAIN items PROVE \E n \in DOMAIN pieces : \E j \in DOMAIN pieces[n] : pieces[n][j] = items[i]
  <2> DEFINE k == (i - 1) \div size
             n == k + 1
             from == k * size
  <2>1. i \in Nat /\ 1 <= i /\ i <= len /\ i - 1 \in Nat
    BY <1>1
  <2>2. k \in Nat /\ from <= i - 1 /\ i - 1 < from + size /\ from \in Nat
    <3> DEFINE x == i - 1
    <3>1. x \in Nat
      BY <2>1
    <3> HIDE DEF x
    <3>2. x \div size \in Nat /\ (x \div size) * size <= x /\ x < (x \div size) * size + size
      BY <3>1
    <3> QED BY <3>1, <3>2 DEF x
  <2> HIDE DEF k
  <2>3. n - 1 = k /\ (n - 1) * size = from /\ n * size = from + size /\ n \in Nat
    BY <2>2
  <2>4. n \in 1 .. many
    <3> SUFFICES ASSUME many < n PROVE FALSE
      BY <1>2, <2>2
    <3>1. many \in Int /\ n \in Int
      BY <1>2, <2>2
    <3> HIDE DEF n, from
    <3>2. many * size + size <= n * size
      BY <3>1, TimesIsOrdered
    <3> DEFINE most == many * size
               upTo == n * size
    <3>3. /\ most + size <= upTo /\ upTo = from + size /\ from <= i - 1 /\ from \in Nat
          /\ len + size - 1 < most + size /\ most \in Nat /\ i <= len /\ i \in Nat
      BY <1>2, <2>1, <2>2, <2>3, <3>2
    <3> HIDE DEF most, upTo
    <3> QED BY <1>1, <3>3
  <2> HIDE DEF n, from
  <2>5. i - from \in 1 .. (End(n) - from)
    <3>1. End(n) = IF from + size <= len THEN from + size ELSE len
      BY <2>3
    <3> HIDE DEF End
    <3> QED BY <1>1, <2>1, <2>2, <3>1
  <2> DEFINE j == i - from
  <2>6. from + j = i
    BY <2>1, <2>2
  <2>7. j \in DOMAIN pieces[n] /\ pieces[n][j] = items[(n - 1) * size + j]
    BY <1>4, <1>7, <2>3, <2>4, <2>5
  <2> HIDE DEF j
  <2>8. pieces[n][j] = items[i]
    BY <2>3, <2>6, <2>7
  <2> QED BY <1>5, <2>4, <2>7, <2>8
<1>9. ASSUME NEW n \in 1 .. many, NEW j \in DOMAIN pieces[n]
      PROVE  (n - 1) * size + j \in DOMAIN items /\ pieces[n][j] = items[(n - 1) * size + j]
             /\ j \in Nat /\ 1 <= j /\ j <= size
  <2>1. j \in 1 .. (End(n) - (n - 1) * size)
    BY <1>7
  <2>2. pieces[n][j] = items[(n - 1) * size + j] /\ (n - 1) * size + j \in DOMAIN items
    BY <1>1, <1>4, <2>1
  <2>3. j \in Nat /\ 1 <= j /\ j <= Len(pieces[n]) /\ Len(pieces[n]) \in 1 .. size
    <3> DEFINE l == Len(pieces[n])
    <3>1. pieces[n] \in Seq(S)
      BY <1>4
    <3>2. j \in 1 .. l
      BY <3>1
    <3>3. l \in 1 .. size
      BY <1>7
    <3> HIDE DEF l
    <3> QED BY <3>2, <3>3 DEF l
  <2> QED BY <2>2, <2>3
<1>10. ASSUME Once(items), NEW n \in 1 .. many, NEW m \in 1 .. many, NEW i \in DOMAIN pieces[n],
              NEW j \in DOMAIN pieces[m], pieces[n][i] = pieces[m][j]
       PROVE  n = m /\ i = j
  <2> DEFINE a == (n - 1) * size
             b == (m - 1) * size
  <2>1. /\ a + i \in DOMAIN items /\ b + j \in DOMAIN items /\ pieces[n][i] = items[a + i] /\ pieces[m][j] = items[b + j]
        /\ i \in Nat /\ 1 <= i /\ i <= size /\ j \in Nat /\ 1 <= j /\ j <= size /\ a \in Nat /\ b \in Nat
    BY <1>4, <1>9
  <2>2. a + i = b + j
    <3> HIDE DEF a, b
    <3> QED BY <1>10, <2>1 DEF Once
  <2>3. n - 1 \in Int /\ m - 1 \in Int
    BY <1>2
  <2>4. (n - 1 < m - 1 => a + size <= b) /\ (m - 1 < n - 1 => b + size <= a)
    BY <2>3, TimesIsOrdered
  <2>5. n = m
    <3> HIDE DEF a, b
    <3>1. ~(n - 1 < m - 1) /\ ~(m - 1 < n - 1)
      BY <2>1, <2>2, <2>4
    <3> QED BY <2>3, <3>1
  <2>6. a = b
    BY <2>5
  <2> HIDE DEF a, b
  <2> QED BY <2>1, <2>2, <2>5, <2>6
<1>11. Once(items) => OnceOf(pieces)
  BY <1>5, <1>10 DEF OnceOf
<1>12. ASSUME NEW n \in DOMAIN pieces, NEW j \in DOMAIN pieces[n]
       PROVE  \E i \in DOMAIN items : pieces[n][j] = items[i] /\ n - 1 = (i - 1) \div size
  <2> DEFINE i == (n - 1) * size + j
  <2>1. i \in DOMAIN items /\ pieces[n][j] = items[i] /\ j \in 1 .. size
    BY <1>5, <1>9
  <2>2. n - 1 \in Nat
    BY <1>2, <1>5
  <2>3. (i - 1) \div size = n - 1
    BY <2>1, <2>2, PlaceOf
  <2> HIDE DEF i
  <2> QED BY <2>1, <2>3
<1>13. \A n \in DOMAIN pieces : Len(pieces[n]) \in 1 .. size
  BY <1>5, <1>7
<1>14. PiecesOf(pieces, items, size)
  BY <1>8, <1>11, <1>12, <1>13 DEF PiecesOf
<1> QED BY <1>3, <1>6, <1>14

\* What is of an earlier list is before what is of a later one.
InTurn(out, n, lists) ==
  \A k, l \in DOMAIN out : \A a, c \in 1 .. n : \A b \in DOMAIN lists[a], d \in DOMAIN lists[c] :
    k < l /\ out[k] = lists[a][b] /\ out[l] = lists[c][d] => a <= c

\* What the first n of a list of lists come to in one.
FlatOf(S, out, n, lists) ==
  /\ out \in Seq(S)
  /\ \A k \in DOMAIN out : \E a \in 1 .. n : \E b \in DOMAIN lists[a] : out[k] = lists[a][b]
  /\ \A a \in 1 .. n : \A b \in DOMAIN lists[a] : \E k \in DOMAIN out : out[k] = lists[a][b]
  /\ OnceOf(lists) => Once(out) /\ InTurn(out, n, lists)

IsFlatten(f, lists) ==
  f = [i \in 1 .. Len(lists) |-> IF i = 1 THEN lists[i] ELSE f[i - 1] \o lists[i]]

LEMMA FlatNext ==
  ASSUME NEW S, NEW lists \in Seq(Seq(S)), NEW n \in Nat, n < Len(lists), NEW was, FlatOf(S, was, n, lists)
  PROVE  FlatOf(S, was \o lists[n + 1], n + 1, lists)
<1> DEFINE next == lists[n + 1]
           out == was \o next
           had == Len(was)
<1>1. /\ n + 1 \in DOMAIN lists /\ next \in Seq(S) /\ was \in Seq(S)
      /\ \A a \in 1 .. n : a \in DOMAIN lists /\ a \in 1 .. (n + 1) /\ a # n + 1
      /\ \A a \in 1 .. (n + 1) : a \in 1 .. n \/ a = n + 1
  BY DEF FlatOf
<1> HIDE DEF next
<1>2. /\ had \in Nat /\ DOMAIN was = 1 .. had /\ Len(next) \in Nat /\ DOMAIN next = 1 .. Len(next)
      /\ out \in Seq(S) /\ Len(out) = had + Len(next) /\ DOMAIN out = 1 .. (had + Len(next))
      /\ \A k \in 1 .. (had + Len(next)) : out[k] = IF k <= had THEN was[k] ELSE next[k - had]
  <2>1. had \in Nat /\ DOMAIN was = 1 .. had /\ Len(next) \in Nat /\ DOMAIN next = 1 .. Len(next)
    BY <1>1
  <2>2. /\ out \in Seq(S) /\ Len(out) = had + Len(next)
        /\ \A k \in 1 .. (had + Len(next)) : out[k] = IF k <= had THEN was[k] ELSE next[k - had]
    BY ONLY <1>1, ConcatProperties
  <2>3. DOMAIN out = 1 .. Len(out)
    <3> HIDE DEF out
    <3> QED BY <2>2
  <2> QED BY <2>1, <2>2, <2>3
<1> HIDE DEF out, had
<1>3. \A k \in DOMAIN was : k \in DOMAIN out /\ out[k] = was[k]
  BY <1>2
<1>4. \A b \in DOMAIN next : had + b \in DOMAIN out /\ out[had + b] = next[b]
  BY <1>2
<1>5. ASSUME NEW k \in DOMAIN out
      PROVE  \/ k \in DOMAIN was /\ out[k] = was[k]
             \/ k - had \in DOMAIN next /\ out[k] = next[k - had] /\ k = had + (k - had)
  BY <1>2
<1>6. ASSUME NEW k \in DOMAIN out PROVE \E a \in 1 .. (n + 1) : \E b \in DOMAIN lists[a] : out[k] = lists[a][b]
  <2>1. CASE k \in DOMAIN was /\ out[k] = was[k]
    <3>1. PICK a \in 1 .. n : \E b \in DOMAIN lists[a] : was[k] = lists[a][b]
      BY <2>1 DEF FlatOf
    <3>2. a \in 1 .. (n + 1)
      BY <1>1
    <3> QED BY <2>1, <3>1, <3>2
  <2>2. CASE k - had \in DOMAIN next /\ out[k] = next[k - had]
    <3>1. n + 1 \in 1 .. (n + 1)
      OBVIOUS
    <3> QED BY <2>2, <3>1 DEF next
  <2> QED BY <1>5, <2>1, <2>2
<1>7. ASSUME NEW a \in 1 .. (n + 1), NEW b \in DOMAIN lists[a] PROVE \E k \in DOMAIN out : out[k] = lists[a][b]
  <2>1. CASE a \in 1 .. n
    <3>1. PICK k \in DOMAIN was : was[k] = lists[a][b]
      BY <2>1 DEF FlatOf
    <3> QED BY <1>3, <3>1
  <2>2. CASE a = n + 1
    <3>1. b \in DOMAIN next /\ next[b] = lists[a][b]
      BY <2>2 DEF next
    <3> QED BY <1>4, <3>1
  <2> QED BY <1>1, <2>1, <2>2
<1>8. ASSUME OnceOf(lists), NEW k \in DOMAIN out, NEW l \in DOMAIN out, out[k] = out[l] PROVE k = l
  <2>1. Once(was)
    BY <1>8 DEF FlatOf
  <2>2. ASSUME NEW i \in DOMAIN was, NEW b \in DOMAIN next PROVE was[i] # next[b]
    <3>1. PICK a \in 1 .. n : \E c \in DOMAIN lists[a] : was[i] = lists[a][c]
      BY DEF FlatOf
    <3> QED BY <1>1, <1>8, <3>1 DEF OnceOf, next
  <2>3. ASSUME NEW b \in DOMAIN next, NEW c \in DOMAIN next, next[b] = next[c] PROVE b = c
    BY <1>1, <1>8, <2>3 DEF OnceOf, next
  <2> QED BY <1>5, <1>8, <2>1, <2>2, <2>3 DEF Once
<1>9. ASSUME OnceOf(lists), NEW k \in DOMAIN out, NEW l \in DOMAIN out, NEW a \in 1 .. (n + 1), NEW c \in 1 .. (n + 1),
             NEW b \in DOMAIN lists[a], NEW d \in DOMAIN lists[c],
             k < l, out[k] = lists[a][b], out[l] = lists[c][d], c < a
      PROVE  FALSE
  <2>1. c \in 1 .. n
    BY <1>9
  <2>2. l \in DOMAIN was /\ out[l] = was[l]
    <3>1. CASE l - had \in DOMAIN next /\ out[l] = next[l - had]
      <4>1. c \in DOMAIN lists /\ n + 1 \in DOMAIN lists /\ c # n + 1
        BY <1>1, <2>1
      <4>2. l - had \in DOMAIN lists[n + 1] /\ lists[n + 1][l - had] = lists[c][d]
        BY <1>9, <3>1 DEF next
      <4> QED BY <1>9, <4>1, <4>2 DEF OnceOf
    <3> QED BY <1>5, <3>1
  <2>3. k \in DOMAIN was /\ out[k] = was[k]
    <3>1. k \in 1 .. (had + Len(next)) /\ l \in 1 .. had /\ k < l
      BY <1>2, <1>9, <2>2
    <3>2. k \in 1 .. had
      BY <1>2, <3>1
    <3> QED BY <1>2, <1>3, <3>2
  <2>4. a \in 1 .. n
    <3>1. PICK e \in 1 .. n : \E i \in DOMAIN lists[e] : was[k] = lists[e][i]
      BY <2>3 DEF FlatOf
    <3>2. PICK i \in DOMAIN lists[e] : lists[a][b] = lists[e][i]
      BY <1>9, <2>3, <3>1
    <3>3. a \in DOMAIN lists /\ e \in DOMAIN lists
      BY <1>1
    <3>4. a = e
      BY <1>9, <3>2, <3>3 DEF OnceOf
    <3> QED BY <3>1, <3>4
  <2>5. InTurn(was, n, lists)
    BY <1>9 DEF FlatOf
  <2>6. a <= c
    BY <1>9, <2>1, <2>2, <2>3, <2>4, <2>5 DEF InTurn
  <2> QED BY <1>9, <2>6
<1>10. OnceOf(lists) => Once(out)
  BY <1>8 DEF Once
<1>11. OnceOf(lists) => InTurn(out, n + 1, lists)
  <2>1. \A a, c \in 1 .. (n + 1) : a <= c \/ c < a
    OBVIOUS
  <2> QED BY <1>9, <2>1 DEF InTurn
<1> QED BY <1>2, <1>6, <1>7, <1>10, <1>11 DEF FlatOf, out, next

LEMMA FlatNone == ASSUME NEW S, NEW lists PROVE FlatOf(S, <<>>, 0, lists)
<1>1. <<>> \in Seq(S) /\ DOMAIN <<>> = {}
  OBVIOUS
<1>2. \A a \in 1 .. 0 : FALSE
  OBVIOUS
<1> QED BY <1>1, <1>2 DEF FlatOf, Once, InTurn

LEMMA FlattenExists ==
  ASSUME NEW lists, Len(lists) \in Nat
  PROVE  \E f : IsFlatten(f, lists)
<1> DEFINE At(f, i) == IF i = 1 THEN lists[i] ELSE f[i - 1] \o lists[i]
           fails == {m \in Nat : ~\E f : f = [i \in 1 .. m |-> At(f, i)]}
<1>1. SUFFICES ASSUME Len(lists) \in fails PROVE FALSE
  BY DEF IsFlatten
<1>2. PICK m \in fails : \A other \in fails : m <= other
  BY <1>1, LeastIsOne
<1>3. CASE m = 0
  <2> DEFINE f == [i \in 1 .. 0 |-> <<>>]
  <2>1. \A i \in 1 .. 0 : FALSE
    OBVIOUS
  <2> HIDE DEF At
  <2>2. f = [i \in 1 .. m |-> At(f, i)]
    BY <1>3, <2>1
  <2> QED BY <2>2
<1>4. CASE m # 0
  <2>1. m - 1 \in Nat /\ m - 1 \notin fails
    <3>1. m \in Nat /\ m - 1 \in Nat /\ ~(m <= m - 1)
      BY <1>4
    <3> HIDE DEF fails
    <3> QED BY <1>2, <3>1
  <2>2. PICK f : f = [i \in 1 .. (m - 1) |-> At(f, i)]
    BY <2>1
  <2> DEFINE g == [i \in 1 .. m |-> IF i = m THEN At(f, m) ELSE f[i]]
  <2>3. \A i \in 1 .. m : g[i] = At(g, i)
    <3> SUFFICES ASSUME NEW i \in 1 .. m PROVE g[i] = At(g, i)
      OBVIOUS
    <3>0. i # 1 => i - 1 \in 1 .. m /\ i - 1 # m
      OBVIOUS
    <3>1. CASE i = m
      BY <3>0, <3>1, <1>4
    <3>2. CASE i # m
      <4>1. i \in 1 .. (m - 1) /\ f[i] = At(f, i)
        <5>1. i \in 1 .. (m - 1)
          BY <3>2
        <5> HIDE DEF At
        <5> QED BY <5>1, <2>2
      <4>2. i # 1 => g[i - 1] = f[i - 1]
        BY <3>0
      <4> QED BY <4>1, <4>2, <3>2
    <3> QED BY <3>1, <3>2
  <2> HIDE DEF At
  <2>4. g = [i \in 1 .. m |-> At(g, i)]
    BY <2>3
  <2> QED BY <2>4
<1> QED BY <1>3, <1>4

\* Lists in one list: what each of them has, as often as they have it.
LEMMA FlattenIs ==
  ASSUME NEW S, NEW lists \in Seq(Seq(S))
  PROVE  FlatOf(S, P!FlattenSeq(lists), Len(lists), lists)
<1> DEFINE len == Len(lists)
           f == CHOOSE g : IsFlatten(g, lists)
           fails == {n \in 1 .. len : ~FlatOf(S, f[n], n, lists)}
<1>1. len \in Nat
  OBVIOUS
<1>2. CASE len = 0
  <2>1. lists = <<>>
    BY <1>2
  <2>2. P!FlattenSeq(lists) = lists
    BY <1>2 DEF P!FlattenSeq
  <2> QED BY <1>2, <2>1, <2>2, FlatNone
<1>3. CASE len # 0
  <2>1. P!FlattenSeq(lists) = f[len]
    BY <1>3 DEF P!FlattenSeq, IsFlatten
  <2>2. IsFlatten(f, lists)
    BY <1>1, FlattenExists
  <2> HIDE DEF f
  <2>3. \A n \in 1 .. len : f[n] = IF n = 1 THEN lists[n] ELSE f[n - 1] \o lists[n]
    <3>1. f = [i \in 1 .. len |-> IF i = 1 THEN lists[i] ELSE f[i - 1] \o lists[i]]
      BY <2>2 DEF IsFlatten
    <3> QED BY <3>1
  <2>4. fails = {}
    <3> SUFFICES ASSUME fails # {} PROVE FALSE
      OBVIOUS
    <3>1. PICK n \in fails : \A other \in fails : n <= other
      <4>1. fails \in SUBSET Nat
        BY <1>1
      <4> HIDE DEF fails
      <4> QED BY <4>1, LeastIsOne
    <3> DEFINE before == n - 1
               was == IF n = 1 THEN <<>> ELSE f[before]
    <3>2. n \in 1 .. len /\ before \in Nat /\ before < len /\ before + 1 = n
      BY <1>1
    <3>3. FlatOf(S, was, before, lists)
      <4>1. CASE n = 1
        BY <4>1, FlatNone
      <4>2. CASE n # 1
        <5>1. before \in 1 .. len /\ ~(n <= before)
          BY <3>2, <4>2
        <5>2. before \notin fails
          <6> HIDE DEF fails, before
          <6> QED BY <3>1, <5>1
        <5> QED BY <4>2, <5>1, <5>2
      <4> QED BY <4>1, <4>2
    <3>4. f[n] = was \o lists[before + 1]
      <4>1. lists[n] \in Seq(S)
        BY <3>2
      <4>2. <<>> \o lists[n] = lists[n]
        BY <4>1, ConcatEmptySeq
      <4> QED BY <2>3, <3>2, <4>2
    <3> HIDE DEF before, was
    <3>5. FlatOf(S, was \o lists[before + 1], before + 1, lists)
      BY <1>1, <3>2, <3>3, FlatNext
    <3> QED BY <3>2, <3>4, <3>5
  <2>5. len \in 1 .. len
    BY <1>1, <1>3
  <2> QED BY <2>1, <2>4, <2>5
<1> QED BY <1>2, <1>3

-----------------------------------------------------------------------------
(* Requests.                                                                   *)
Asked(C, D) == [channels : Seq(C), pairs : Seq(C \X D), days : Seq(D)]

\* A request is for what is stale of its channels on a group of days, each once,
\* and for no other day.
Asks(request, group, dayGroup, stale) ==
  /\ request.channels = group
  /\ \A k \in DOMAIN request.pairs :
       /\ request.pairs[k] \in stale
       /\ \E i \in DOMAIN group, j \in DOMAIN dayGroup : request.pairs[k] = <<group[i], dayGroup[j]>>
  /\ \A i \in DOMAIN group, j \in DOMAIN dayGroup :
       <<group[i], dayGroup[j]>> \in stale =>
         \E k \in DOMAIN request.pairs : request.pairs[k] = <<group[i], dayGroup[j]>>
  /\ Once(request.pairs)
  /\ Len(request.days) <= Len(dayGroup)
  /\ P!ToSet(request.days) = {pair[2] : pair \in P!ToSet(request.pairs)}

LEMMA InSet ==
  ASSUME NEW items, NEW item
  PROVE  item \in P!ToSet(items) <=> \E i \in DOMAIN items : item = items[i]
BY DEF P!ToSet

\* A list kept of the days it is stale on, with the channel.
LEMMA PairsAre ==
  ASSUME NEW C, NEW D, NEW channel \in C, NEW dayGroup \in Seq(D), NEW stale
  PROVE  LET pairs == P!pairsOf(channel, P!staleOn(channel, dayGroup, stale))
         IN  /\ pairs \in Seq(C \X D)
             /\ \A k \in DOMAIN pairs : pairs[k] \in stale /\ \E j \in DOMAIN dayGroup : pairs[k] = <<channel, dayGroup[j]>>
             /\ \A j \in DOMAIN dayGroup : <<channel, dayGroup[j]>> \in stale =>
                  \E k \in DOMAIN pairs : pairs[k] = <<channel, dayGroup[j]>>
             /\ Once(dayGroup) => Once(pairs)
<1> DEFINE kept == {day \in P!ToSet(dayGroup) : <<channel, day>> \in stale}
           on == P!staleOn(channel, dayGroup, stale)
           pairs == P!pairsOf(channel, on)
           len == Len(dayGroup)
<1>1. len \in Nat /\ DOMAIN dayGroup = 1 .. len /\ \A j \in 1 .. len : dayGroup[j] \in D
  OBVIOUS
<1>2. KeptOf(on, len, dayGroup, kept)
  BY FilteredIs DEF P!staleOn
<1>3. \A j \in DOMAIN dayGroup : dayGroup[j] \in kept <=> <<channel, dayGroup[j]>> \in stale
  BY InSet
<1>4. kept \subseteq D
  BY <1>1, InSet
<1>5. \A k \in DOMAIN on : on[k] \in kept
  BY <1>2 DEF KeptOf
<1>6. on \in Seq(D)
  BY <1>2, <1>4 DEF KeptOf
<1>7. pairs = [k \in DOMAIN on |-> <<channel, on[k]>>]
  BY DEF P!pairsOf
<1> HIDE DEF pairs, on
<1>8. DOMAIN pairs = DOMAIN on /\ \A k \in DOMAIN on : pairs[k] = <<channel, on[k]>>
  BY <1>7
<1>9. pairs \in Seq(C \X D)
  <2>1. Len(on) \in Nat /\ DOMAIN on = 1 .. Len(on) /\ \A k \in 1 .. Len(on) : on[k] \in D
    BY <1>6
  <2>2. pairs \in [1 .. Len(on) -> C \X D]
    BY <1>7, <2>1
  <2> QED BY <2>1, <2>2, SeqDef
<1>10. ASSUME NEW k \in DOMAIN pairs
       PROVE  pairs[k] \in stale /\ \E j \in DOMAIN dayGroup : pairs[k] = <<channel, dayGroup[j]>>
  <2>1. on[k] \in kept /\ pairs[k] = <<channel, on[k]>>
    BY <1>5, <1>8
  <2>2. PICK j \in DOMAIN dayGroup : on[k] = dayGroup[j]
    BY <2>1, InSet
  <2> QED BY <2>1, <2>2
<1>11. ASSUME NEW j \in DOMAIN dayGroup, <<channel, dayGroup[j]>> \in stale
       PROVE  \E k \in DOMAIN pairs : pairs[k] = <<channel, dayGroup[j]>>
  <2>1. PICK k \in DOMAIN on : on[k] = dayGroup[j]
    BY <1>1, <1>2, <1>3, <1>11 DEF KeptOf
  <2> QED BY <1>8, <2>1
<1>12. ASSUME Once(dayGroup) PROVE Once(pairs)
  <2>1. Once(on)
    BY <1>2, <1>12 DEF KeptOf
  <2> QED BY <1>8, <2>1 DEF Once
<1> QED BY <1>9, <1>10, <1>11, <1>12 DEF pairs, on

LEMMA RequestIs ==
  ASSUME NEW C, NEW D, NEW group \in Seq(C), NEW dayGroup \in Seq(D), NEW stale, Once(group), Once(dayGroup)
  PROVE  P!requestFor(group, dayGroup, stale) \in Asked(C, D)
         /\ Asks(P!requestFor(group, dayGroup, stale), group, dayGroup, stale)
<1> DEFINE lists == [i \in DOMAIN group |-> P!pairsOf(group[i], P!staleOn(group[i], dayGroup, stale))]
           pairs == P!FlattenSeq(lists)
           asked == {pair[2] : pair \in P!ToSet(pairs)}
           days == P!filtered(dayGroup, asked)
           many == Len(group)
<1>1. many \in Nat /\ DOMAIN group = 1 .. many /\ \A i \in 1 .. many : group[i] \in C
  OBVIOUS
<1>2. ASSUME NEW i \in 1 .. many
      PROVE  /\ lists[i] \in Seq(C \X D)
             /\ \A k \in DOMAIN lists[i] : lists[i][k] \in stale /\ \E j \in DOMAIN dayGroup : lists[i][k] = <<group[i], dayGroup[j]>>
             /\ \A j \in DOMAIN dayGroup : <<group[i], dayGroup[j]>> \in stale =>
                  \E k \in DOMAIN lists[i] : lists[i][k] = <<group[i], dayGroup[j]>>
             /\ Once(lists[i])
  <2>1. group[i] \in C /\ lists[i] = P!pairsOf(group[i], P!staleOn(group[i], dayGroup, stale))
    BY <1>1
  <2> DEFINE mine == P!pairsOf(group[i], P!staleOn(group[i], dayGroup, stale))
  <2>2. /\ mine \in Seq(C \X D)
        /\ \A k \in DOMAIN mine : mine[k] \in stale /\ \E j \in DOMAIN dayGroup : mine[k] = <<group[i], dayGroup[j]>>
        /\ \A j \in DOMAIN dayGroup : <<group[i], dayGroup[j]>> \in stale =>
             \E k \in DOMAIN mine : mine[k] = <<group[i], dayGroup[j]>>
        /\ Once(mine)
    <3> DEFINE channel == group[i]
    <3>1. channel \in C
      BY <2>1
    <3> HIDE DEF channel
    <3>2. LET these == P!pairsOf(channel, P!staleOn(channel, dayGroup, stale))
          IN  /\ these \in Seq(C \X D)
              /\ \A k \in DOMAIN these : these[k] \in stale /\ \E j \in DOMAIN dayGroup : these[k] = <<channel, dayGroup[j]>>
              /\ \A j \in DOMAIN dayGroup : <<channel, dayGroup[j]>> \in stale =>
                   \E k \in DOMAIN these : these[k] = <<channel, dayGroup[j]>>
              /\ Once(dayGroup) => Once(these)
      BY <3>1, PairsAre
    <3> QED BY <3>2 DEF channel
  <2>3. lists[i] = mine
    BY <2>1
  <2> HIDE DEF lists, mine
  <2> QED BY <2>2, <2>3
<1>3. DOMAIN lists = 1 .. many /\ lists = [i \in 1 .. many |-> lists[i]]
  BY <1>1
<1> HIDE DEF lists, many
<1>4. lists \in Seq(Seq(C \X D)) /\ Len(lists) = many
  <2>1. lists \in [1 .. many -> Seq(C \X D)]
    BY <1>2, <1>3
  <2> QED BY <1>1, <1>3, <2>1, SeqDef
<1>5. FlatOf(C \X D, pairs, many, lists)
  BY <1>4, FlattenIs
<1> HIDE DEF pairs
<1>6. OnceOf(lists)
  <2> SUFFICES ASSUME NEW n \in 1 .. many, NEW m \in 1 .. many, NEW i \in DOMAIN lists[n], NEW j \in DOMAIN lists[m],
                      lists[n][i] = lists[m][j]
               PROVE  n = m /\ i = j
    BY <1>3 DEF OnceOf
  <2>1. \E a \in DOMAIN dayGroup, b \in DOMAIN dayGroup : <<group[n], dayGroup[a]>> = <<group[m], dayGroup[b]>>
    BY <1>2
  <2>2. group[n] = group[m]
    BY <2>1
  <2>3. n = m
    BY <1>1, <2>2 DEF Once
  <2>4. Once(lists[n])
    BY <1>2
  <2> QED BY <2>3, <2>4 DEF Once
<1>7. pairs \in Seq(C \X D) /\ Once(pairs)
  BY <1>5, <1>6 DEF FlatOf
<1>8. ASSUME NEW k \in DOMAIN pairs
      PROVE  pairs[k] \in stale /\ \E i \in DOMAIN group, j \in DOMAIN dayGroup : pairs[k] = <<group[i], dayGroup[j]>>
  <2>1. PICK a \in 1 .. many : \E b \in DOMAIN lists[a] : pairs[k] = lists[a][b]
    BY <1>5 DEF FlatOf
  <2>2. PICK b \in DOMAIN lists[a] : pairs[k] = lists[a][b]
    BY <2>1
  <2>3. lists[a][b] \in stale /\ \E j \in DOMAIN dayGroup : lists[a][b] = <<group[a], dayGroup[j]>>
    BY <1>2
  <2> QED BY <1>1, <2>2, <2>3
<1>9. ASSUME NEW i \in DOMAIN group, NEW j \in DOMAIN dayGroup, <<group[i], dayGroup[j]>> \in stale
      PROVE  \E k \in DOMAIN pairs : pairs[k] = <<group[i], dayGroup[j]>>
  <2>1. PICK b \in DOMAIN lists[i] : lists[i][b] = <<group[i], dayGroup[j]>>
    BY <1>1, <1>2, <1>9
  <2>2. PICK k \in DOMAIN pairs : pairs[k] = lists[i][b]
    BY <1>1, <1>5 DEF FlatOf
  <2> QED BY <2>1, <2>2
<1>10. KeptOf(days, Len(dayGroup), dayGroup, asked)
  BY FilteredIs
<1> HIDE DEF days
<1>11. days \in Seq(D) /\ Len(days) <= Len(dayGroup)
  <2>1. asked \subseteq D
    <3> SUFFICES ASSUME NEW pair \in P!ToSet(pairs) PROVE pair[2] \in D
      OBVIOUS
    <3>1. PICK k \in DOMAIN pairs : pair = pairs[k]
      BY InSet
    <3>2. pairs[k] \in C \X D
      BY <1>7
    <3> QED BY <3>1, <3>2
  <2> HIDE DEF asked
  <2> QED BY <1>10, <2>1 DEF KeptOf
<1>12. P!ToSet(days) = asked
  <2>1. ASSUME NEW day \in P!ToSet(days) PROVE day \in asked
    <3> HIDE DEF asked
    <3>1. PICK k \in DOMAIN days : day = days[k]
      BY InSet
    <3>2. days \in Seq(asked)
      BY <1>10 DEF KeptOf
    <3> QED BY <3>1, <3>2
  <2>2. ASSUME NEW day \in asked PROVE day \in P!ToSet(days)
    <3>1. PICK pair \in P!ToSet(pairs) : day = pair[2]
      OBVIOUS
    <3>2. PICK k \in DOMAIN pairs : pair = pairs[k]
      BY InSet
    <3>3. PICK j \in DOMAIN dayGroup : day = dayGroup[j]
      BY <1>8, <3>1, <3>2
    <3> HIDE DEF asked
    <3>4. j \in 1 .. Len(dayGroup)
      OBVIOUS
    <3>5. \E l \in DOMAIN days : days[l] = dayGroup[j]
      BY <1>10, <2>2, <3>3, <3>4 DEF KeptOf
    <3> QED BY <3>3, <3>5, InSet
  <2> HIDE DEF asked
  <2> QED BY <2>1, <2>2
<1> DEFINE request == [channels |-> group, pairs |-> pairs, days |-> days]
<1>13. P!requestFor(group, dayGroup, stale) = request
  BY DEF P!requestFor, days, pairs, lists
<1>14. request.channels = group /\ request.pairs = pairs /\ request.days = days /\ request \in Asked(C, D)
  BY <1>7, <1>11 DEF Asked
<1> HIDE DEF request, asked
<1>15. Asks(request, group, dayGroup, stale)
  BY <1>7, <1>8, <1>9, <1>11, <1>12, <1>14 DEF Asks, asked
<1> QED BY <1>13, <1>14, <1>15

\* A request within its caps, for channels and days it has something to ask of.
Serves(request, channels, dayGroup, stale, maxChannels, maxDays) ==
  /\ Len(request.channels) \in 1 .. maxChannels
  /\ Len(request.days) <= maxDays
  /\ P!ToSet(request.channels) = {pair[1] : pair \in P!ToSet(request.pairs)}
  /\ P!ToSet(request.days) = {pair[2] : pair \in P!ToSet(request.pairs)}
  /\ 1 \in DOMAIN request.pairs
  /\ \A k \in DOMAIN request.pairs :
       /\ request.pairs[k] \in stale
       /\ \E i \in DOMAIN channels, j \in DOMAIN dayGroup : request.pairs[k] = <<channels[i], dayGroup[j]>>

AllAsked(requests, channels, days, stale) ==
  \A i \in DOMAIN channels, j \in DOMAIN days :
    <<channels[i], days[j]>> \in stale =>
      \E r \in DOMAIN requests : \E k \in DOMAIN requests[r].pairs : requests[r].pairs[k] = <<channels[i], days[j]>>

AskedOnce(requests) ==
  \A r, s \in DOMAIN requests : \A k \in DOMAIN requests[r].pairs, l \in DOMAIN requests[s].pairs :
    requests[r].pairs[k] = requests[s].pairs[l] => r = s /\ k = l

\* A request of channels that are each stale on a day of the group.
LEMMA RequestServes ==
  ASSUME NEW C, NEW D, NEW group \in Seq(C), NEW dayGroup \in Seq(D), NEW stale, NEW request \in Asked(C, D),
         Asks(request, group, dayGroup, stale), NEW maxChannels \in Nat, Len(group) \in 1 .. maxChannels,
         NEW maxDays \in Nat, Len(dayGroup) <= maxDays,
         NEW channels, \A i \in DOMAIN group : \E n \in DOMAIN channels : group[i] = channels[n],
         \A i \in DOMAIN group : \E j \in DOMAIN dayGroup : <<group[i], dayGroup[j]>> \in stale
  PROVE  Serves(request, channels, dayGroup, stale, maxChannels, maxDays)
<1> DEFINE pairs == request.pairs
<1>1. request.channels = group /\ pairs \in Seq(C \X D)
  BY DEF Asks, Asked
<1>2. ASSUME NEW k \in DOMAIN pairs
      PROVE  /\ pairs[k] \in stale
             /\ \E n \in DOMAIN channels, j \in DOMAIN dayGroup : pairs[k] = <<channels[n], dayGroup[j]>>
             /\ \E i \in DOMAIN group : pairs[k][1] = group[i]
  <2>1. PICK i \in DOMAIN group, j \in DOMAIN dayGroup : pairs[k] = <<group[i], dayGroup[j]>>
    BY DEF Asks
  <2>2. pairs[k] \in stale
    BY DEF Asks
  <2> QED BY <2>1, <2>2
<1>3. ASSUME NEW i \in DOMAIN group PROVE \E k \in DOMAIN pairs : pairs[k][1] = group[i]
  <2>1. PICK j \in DOMAIN dayGroup : <<group[i], dayGroup[j]>> \in stale
    OBVIOUS
  <2>2. PICK k \in DOMAIN pairs : pairs[k] = <<group[i], dayGroup[j]>>
    BY <2>1 DEF Asks
  <2> QED BY <2>2
<1> HIDE DEF pairs
<1>4. 1 \in DOMAIN pairs
  <2>1. 1 \in DOMAIN group
    OBVIOUS
  <2>2. DOMAIN pairs # {}
    BY <1>3, <2>1
  <2>3. DOMAIN pairs = 1 .. Len(pairs) /\ Len(pairs) \in Nat
    BY <1>1
  <2> QED BY <2>2, <2>3
<1> DEFINE firsts == {pair[1] : pair \in P!ToSet(pairs)}
<1>5. P!ToSet(group) = firsts
  <2>1. ASSUME NEW channel \in P!ToSet(group) PROVE channel \in firsts
    <3>1. PICK i \in DOMAIN group : channel = group[i]
      BY InSet
    <3>2. PICK k \in DOMAIN pairs : pairs[k][1] = group[i]
      BY <1>3
    <3>3. pairs[k] \in P!ToSet(pairs)
      BY InSet
    <3> QED BY <3>1, <3>2, <3>3
  <2>2. ASSUME NEW pair \in P!ToSet(pairs) PROVE pair[1] \in P!ToSet(group)
    <3>1. PICK k \in DOMAIN pairs : pair = pairs[k]
      BY InSet
    <3>2. PICK i \in DOMAIN group : pairs[k][1] = group[i]
      BY <1>2
    <3> QED BY <3>1, <3>2, InSet
  <2> QED BY <2>1, <2>2
<1>6. Len(request.days) <= maxDays /\ P!ToSet(request.days) = {pair[2] : pair \in P!ToSet(pairs)}
  <2>1. request.days \in Seq(D) /\ Len(request.days) <= Len(dayGroup)
    BY DEF Asks, Asked
  <2>2. Len(request.days) \in Nat /\ Len(dayGroup) \in Nat
    BY <2>1
  <2> QED BY <2>1, <2>2 DEF Asks, pairs
<1> QED BY <1>1, <1>2, <1>4, <1>5, <1>6 DEF Serves, pairs

LEMMA RequestsInAre ==
  ASSUME NEW C, NEW D, NEW channels \in Seq(C), Once(channels), NEW dayGroup \in Seq(D), Once(dayGroup), NEW stale,
         NEW maxChannels \in Nat \ {0}, NEW maxDays \in Nat, Len(dayGroup) <= maxDays
  PROVE  LET requests == P!requestsIn(dayGroup, channels, stale, maxChannels)
         IN  /\ requests \in Seq(Asked(C, D))
             /\ \A r \in DOMAIN requests : Serves(requests[r], channels, dayGroup, stale, maxChannels, maxDays)
             /\ AllAsked(requests, channels, dayGroup, stale)
             /\ AskedOnce(requests)
<1> DEFINE kept == {c \in P!ToSet(channels) : \E day \in P!ToSet(dayGroup) : <<c, day>> \in stale}
           wanted == P!staleChannels(channels, dayGroup, stale)
           groups == P!chunk(wanted, maxChannels)
           requests == [g \in DOMAIN groups |-> P!requestFor(groups[g], dayGroup, stale)]
           many == Len(groups)
<1>1. KeptOf(wanted, Len(channels), channels, kept)
  BY FilteredIs DEF P!staleChannels
<1>2. kept \subseteq C
  BY InSet
<1>3. wanted \in Seq(kept) /\ wanted \in Seq(C) /\ Once(wanted)
  BY <1>1, <1>2 DEF KeptOf
<1>4. \A c \in kept : \E j \in DOMAIN dayGroup : <<c, dayGroup[j]>> \in stale
  BY InSet
<1>5. ASSUME NEW n \in DOMAIN channels, NEW j \in DOMAIN dayGroup, <<channels[n], dayGroup[j]>> \in stale
      PROVE  \E i \in DOMAIN wanted : wanted[i] = channels[n]
  <2>1. channels[n] \in kept
    BY <1>5, InSet
  <2>2. n \in 1 .. Len(channels)
    OBVIOUS
  <2> HIDE DEF kept, wanted
  <2> QED BY <1>1, <2>1, <2>2 DEF KeptOf
<1>6. \A i \in DOMAIN wanted : wanted[i] \in kept /\ \E n \in DOMAIN channels : wanted[i] = channels[n]
  <2>2. 1 .. Len(channels) = DOMAIN channels
    OBVIOUS
  <2> HIDE DEF kept, wanted
  <2>1. \A i \in DOMAIN wanted : wanted[i] \in kept
    BY <1>3
  <2> QED BY <1>1, <2>1, <2>2 DEF KeptOf
<1> HIDE DEF kept, wanted
<1>7. groups \in Seq(Seq(C)) /\ PiecesOf(groups, wanted, maxChannels)
  BY <1>3, PiecesAre
<1> HIDE DEF groups
<1>8. many \in Nat /\ DOMAIN groups = 1 .. many /\ \A g \in DOMAIN groups : groups[g] \in Seq(C)
  BY <1>7
<1>9. OnceOf(groups)
  BY <1>3, <1>7 DEF PiecesOf
<1>10. ASSUME NEW g \in DOMAIN groups
       PROVE  /\ requests[g] \in Asked(C, D) /\ Asks(requests[g], groups[g], dayGroup, stale)
              /\ Serves(requests[g], channels, dayGroup, stale, maxChannels, maxDays)
  <2> DEFINE group == groups[g]
             request == P!requestFor(group, dayGroup, stale)
  <2>1. requests[g] = request
    OBVIOUS
  <2>2. group \in Seq(C) /\ Once(group)
    BY <1>8, <1>9 DEF OnceOf, Once
  <2>3. Len(group) \in 1 .. maxChannels
    BY <1>7 DEF PiecesOf
  <2>4. \A i \in DOMAIN group : \E w \in DOMAIN wanted : group[i] = wanted[w]
    BY <1>7 DEF PiecesOf
  <2> HIDE DEF group, requests
  <2>5. request \in Asked(C, D) /\ Asks(request, group, dayGroup, stale)
    BY <2>2, RequestIs
  <2> HIDE DEF request
  <2>6. \A i \in DOMAIN group : \E n \in DOMAIN channels : group[i] = channels[n]
    BY <1>6, <2>4
  <2>7. \A i \in DOMAIN group : \E j \in DOMAIN dayGroup : <<group[i], dayGroup[j]>> \in stale
    BY <1>4, <1>6, <2>4
  <2>8. Serves(request, channels, dayGroup, stale, maxChannels, maxDays)
    <3>1. maxChannels \in Nat /\ maxDays \in Nat /\ Len(dayGroup) <= maxDays /\ dayGroup \in Seq(D)
      OBVIOUS
    <3> QED BY ONLY <2>2, <2>3, <2>5, <2>6, <2>7, <3>1, RequestServes
  <2> QED BY <2>1, <2>5, <2>8 DEF group
<1>11. DOMAIN requests = 1 .. many /\ requests = [g \in 1 .. many |-> requests[g]]
  BY <1>8
<1>12. P!requestsIn(dayGroup, channels, stale, maxChannels) = requests
  BY DEF P!requestsIn, groups, wanted
<1> HIDE DEF requests, many
<1>13. requests \in Seq(Asked(C, D))
  <2>1. requests \in [1 .. many -> Asked(C, D)]
    BY <1>8, <1>10, <1>11
  <2> QED BY <1>8, <2>1, SeqDef
<1>14. AllAsked(requests, channels, dayGroup, stale)
  <2> SUFFICES ASSUME NEW n \in DOMAIN channels, NEW j \in DOMAIN dayGroup, <<channels[n], dayGroup[j]>> \in stale
               PROVE  \E r \in DOMAIN requests : \E k \in DOMAIN requests[r].pairs :
                        requests[r].pairs[k] = <<channels[n], dayGroup[j]>>
    BY DEF AllAsked
  <2>1. PICK w \in DOMAIN wanted : wanted[w] = channels[n]
    BY <1>5
  <2>2. PICK g \in DOMAIN groups : \E i \in DOMAIN groups[g] : groups[g][i] = wanted[w]
    BY <1>7 DEF PiecesOf
  <2>3. PICK i \in DOMAIN groups[g] : groups[g][i] = channels[n]
    BY <2>1, <2>2
  <2>4. Asks(requests[g], groups[g], dayGroup, stale) /\ g \in DOMAIN requests
    BY <1>8, <1>10, <1>11
  <2>5. \E k \in DOMAIN requests[g].pairs : requests[g].pairs[k] = <<groups[g][i], dayGroup[j]>>
    BY <2>3, <2>4 DEF Asks
  <2> QED BY <2>3, <2>4, <2>5
<1>15. AskedOnce(requests)
  <2> SUFFICES ASSUME NEW r \in DOMAIN requests, NEW s \in DOMAIN requests,
                      NEW k \in DOMAIN requests[r].pairs, NEW l \in DOMAIN requests[s].pairs,
                      requests[r].pairs[k] = requests[s].pairs[l]
               PROVE  r = s /\ k = l
    BY DEF AskedOnce
  <2>1. Asks(requests[r], groups[r], dayGroup, stale) /\ Asks(requests[s], groups[s], dayGroup, stale)
    BY <1>8, <1>10, <1>11
  <2>2. PICK a \in DOMAIN groups[r] : requests[r].pairs[k][1] = groups[r][a]
    BY <2>1 DEF Asks
  <2>3. PICK b \in DOMAIN groups[s] : requests[s].pairs[l][1] = groups[s][b]
    BY <2>1 DEF Asks
  <2>4. groups[r][a] = groups[s][b]
    BY <2>2, <2>3
  <2>5. r = s
    BY <1>8, <1>9, <1>11, <2>4 DEF OnceOf
  <2>6. Once(requests[r].pairs)
    BY <2>1 DEF Asks
  <2> QED BY <2>5, <2>6 DEF Once
<1> QED BY <1>8, <1>10, <1>11, <1>12, <1>13, <1>14, <1>15

\* What batching amounts to is a size each way, whichever of its settings are given.
LEMMA BatchingIs ==
  ASSUME Unbounded \in Nat \ {0}, NEW mode,
         NEW channels \in {{}} \cup {{size} : size \in Nat}, NEW days \in {{}} \cup {{size} : size \in Nat}
  PROVE  P!resolveBatching(mode, channels, days) \subseteq [maxChannels : Nat \ {0}, maxDays : Nat \ {0}]
<1> DEFINE cap(size) == IF P!Said(size) /\ P!The(size) > 0 THEN P!The(size) ELSE Unbounded
<1>1. ASSUME NEW size \in {{}} \cup {{n} : n \in Nat} PROVE cap(size) \in Nat \ {0}
  <2>1. CASE size = {}
    BY <2>1 DEF P!Said
  <2>2. CASE size # {}
    <3>1. PICK n \in Nat : size = {n}
      BY <2>2
    <3>2. P!The(size) = n
      BY <3>1, TheIs
    <3> QED BY <3>2
  <2> QED BY <2>1, <2>2
<1> HIDE DEF cap
<1>2. \A caps \in P!resolveBatching(mode, channels, days) :
        \E wide, long \in BOOLEAN :
          caps = [maxChannels |-> IF wide THEN cap(channels) ELSE 1, maxDays |-> IF long THEN cap(days) ELSE 1]
  <2> DEFINE wide == mode \in {"channels", "both"}
             long == mode \in {"days", "both"}
             only == [maxChannels |-> IF wide THEN cap(channels) ELSE 1, maxDays |-> IF long THEN cap(days) ELSE 1]
  <2>1. P!resolveBatching(mode, channels, days) \subseteq {only}
    BY DEF P!resolveBatching, cap
  <2>2. wide \in BOOLEAN /\ long \in BOOLEAN
    OBVIOUS
  <2> QED BY <2>1, <2>2
<1>3. cap(channels) \in Nat \ {0} /\ cap(days) \in Nat \ {0}
  BY <1>1
<1> QED BY <1>2, <1>3

\* Which run of the window's days a channel-day is in.
InRun(pair, run, window, maxDays) ==
  \E i \in DOMAIN window : pair[2] = window[i] /\ run = (i - 1) \div maxDays

(* The requests of a site cover what is stale of its channels on the days of   *)
(* the window, whatever that is: every channel-day of it is in one request, at *)
(* one place, and nothing else is in any; a request has no more channels and   *)
(* days than its caps, none it asks nothing of, and its days are of one run of *)
(* the window; and the requests come a run of days at a time.  The caps are    *)
(* any that batching amounts to (BatchingIs).  (planner.ts planRequests and    *)
(* resolveBatching, chunk.ts.)                                                 *)
THEOREM RequestsCoverStale ==
  ASSUME NEW C, NEW D, NEW channels \in Seq(C), Once(channels), NEW window \in Seq(D), Once(window), NEW stale,
         NEW batching \in [maxChannels : Nat \ {0}, maxDays : Nat \ {0}]
  PROVE  LET requests == P!planRequests(channels, window, stale, batching)
         IN  /\ requests \in Seq(Asked(C, D))
             /\ AllAsked(requests, channels, window, stale) /\ AskedOnce(requests)
             /\ \A r \in DOMAIN requests :
                  /\ Serves(requests[r], channels, window, stale, batching.maxChannels, batching.maxDays)
                  /\ \E run \in Nat : \A k \in DOMAIN requests[r].pairs :
                       InRun(requests[r].pairs[k], run, window, batching.maxDays)
             /\ \A r, s \in DOMAIN requests : r < s =>
                  \A k \in DOMAIN requests[r].pairs, l \in DOMAIN requests[s].pairs :
                    \A run, later \in Nat :
                      /\ InRun(requests[r].pairs[k], run, window, batching.maxDays)
                      /\ InRun(requests[s].pairs[l], later, window, batching.maxDays)
                      => run <= later
<1> DEFINE maxDays == batching.maxDays
           maxChannels == batching.maxChannels
           dayGroups == P!chunk(window, maxDays)
           many == Len(dayGroups)
           lists == [d \in DOMAIN dayGroups |-> P!requestsIn(dayGroups[d], channels, stale, maxChannels)]
           requests == P!FlattenSeq(lists)
<1>1. maxDays \in Nat \ {0} /\ maxChannels \in Nat \ {0}
  OBVIOUS
<1>2. P!planRequests(channels, window, stale, batching) = requests
  BY DEF P!planRequests
<1> HIDE DEF maxDays, maxChannels
<1>3. dayGroups \in Seq(Seq(D)) /\ PiecesOf(dayGroups, window, maxDays)
  BY <1>1, PiecesAre
<1> HIDE DEF dayGroups
<1>4. /\ many \in Nat /\ DOMAIN dayGroups = 1 .. many /\ \A d \in 1 .. many : dayGroups[d] \in Seq(D)
      /\ OnceOf(dayGroups)
  BY <1>3 DEF PiecesOf
<1>5. DOMAIN lists = 1 .. many /\ lists = [d \in 1 .. many |-> lists[d]]
      /\ \A d \in 1 .. many : lists[d] = P!requestsIn(dayGroups[d], channels, stale, maxChannels)
  BY <1>4
<1> HIDE DEF many, lists
<1>6. ASSUME NEW d \in 1 .. many
      PROVE  /\ lists[d] \in Seq(Asked(C, D))
             /\ \A r \in DOMAIN lists[d] : Serves(lists[d][r], channels, dayGroups[d], stale, maxChannels, maxDays)
             /\ AllAsked(lists[d], channels, dayGroups[d], stale)
             /\ AskedOnce(lists[d])
  <2> DEFINE dayGroup == dayGroups[d]
             these == P!requestsIn(dayGroup, channels, stale, maxChannels)
  <2>1. dayGroup \in Seq(D) /\ Once(dayGroup) /\ Len(dayGroup) <= maxDays
    <3>1. Len(dayGroup) \in 1 .. maxDays
      BY <1>3, <1>4 DEF PiecesOf
    <3>2. Len(dayGroup) <= maxDays
      BY <1>1, <3>1
    <3> QED BY <1>4, <3>2 DEF OnceOf, Once
  <2> HIDE DEF dayGroup
  <2>2. /\ these \in Seq(Asked(C, D))
        /\ \A r \in DOMAIN these : Serves(these[r], channels, dayGroup, stale, maxChannels, maxDays)
        /\ AllAsked(these, channels, dayGroup, stale)
        /\ AskedOnce(these)
    BY <1>1, <2>1, RequestsInAre
  <2>3. lists[d] = these
    BY <1>5 DEF dayGroup
  <2> HIDE DEF these
  <2> QED BY <2>2, <2>3 DEF dayGroup
<1>7. lists \in Seq(Seq(Asked(C, D))) /\ Len(lists) = many
  <2>1. lists \in [1 .. many -> Seq(Asked(C, D))]
    BY <1>5, <1>6
  <2> QED BY <1>4, <1>5, <2>1, SeqDef
<1>8. FlatOf(Asked(C, D), requests, many, lists)
  BY <1>7, FlattenIs
<1> HIDE DEF requests
(* Where the day of a channel-day puts it.                                     *)
<1>9. ASSUME NEW d \in 1 .. many, NEW b \in DOMAIN lists[d], NEW k \in DOMAIN lists[d][b].pairs
      PROVE  /\ \E j \in DOMAIN dayGroups[d] : lists[d][b].pairs[k][2] = dayGroups[d][j]
             /\ InRun(lists[d][b].pairs[k], d - 1, window, maxDays)
             /\ \A run : InRun(lists[d][b].pairs[k], run, window, maxDays) => run = d - 1
  <2> DEFINE pair == lists[d][b].pairs[k]
  <2>1. PICK n \in DOMAIN channels, j \in DOMAIN dayGroups[d] : pair = <<channels[n], dayGroups[d][j]>>
    BY <1>6 DEF Serves
  <2>2. pair[2] = dayGroups[d][j]
    BY <2>1
  <2> HIDE DEF pair
  <2>3. PICK i \in DOMAIN window : dayGroups[d][j] = window[i] /\ d - 1 = (i - 1) \div maxDays
    BY <1>3, <1>4 DEF PiecesOf
  <2>4. InRun(pair, d - 1, window, maxDays)
    BY <2>2, <2>3 DEF InRun
  <2>5. ASSUME NEW run, InRun(pair, run, window, maxDays) PROVE run = d - 1
    <3>1. PICK l \in DOMAIN window : pair[2] = window[l] /\ run = (l - 1) \div maxDays
      BY <2>5 DEF InRun
    <3>2. l = i
      BY <2>2, <2>3, <3>1 DEF Once
    <3> QED BY <2>3, <3>1, <3>2
  <2> QED BY <2>2, <2>4, <2>5 DEF pair
<1>10. ASSUME NEW d \in 1 .. many, NEW e \in 1 .. many, NEW b \in DOMAIN lists[d], NEW c \in DOMAIN lists[e],
              NEW k \in DOMAIN lists[d][b].pairs, NEW l \in DOMAIN lists[e][c].pairs,
              lists[d][b].pairs[k] = lists[e][c].pairs[l]
       PROVE  d = e /\ b = c /\ k = l
  <2>1. PICK j \in DOMAIN dayGroups[d] : lists[d][b].pairs[k][2] = dayGroups[d][j]
    BY <1>9
  <2>2. PICK m \in DOMAIN dayGroups[e] : lists[e][c].pairs[l][2] = dayGroups[e][m]
    BY <1>9
  <2>3. d = e
    BY <1>4, <1>10, <2>1, <2>2 DEF OnceOf
  <2>4. AskedOnce(lists[d])
    BY <1>6
  <2> QED BY <1>10, <2>3, <2>4 DEF AskedOnce
<1>11. OnceOf(lists)
  <2> SUFFICES ASSUME NEW d \in 1 .. many, NEW e \in 1 .. many, NEW b \in DOMAIN lists[d], NEW c \in DOMAIN lists[e],
                      lists[d][b] = lists[e][c]
               PROVE  d = e /\ b = c
    BY <1>5 DEF OnceOf
  <2>1. 1 \in DOMAIN lists[d][b].pairs
    BY <1>6 DEF Serves
  <2>2. 1 \in DOMAIN lists[e][c].pairs /\ lists[d][b].pairs[1] = lists[e][c].pairs[1]
    BY <2>1
  <2> QED BY <1>10, <2>1, <2>2
<1>12. requests \in Seq(Asked(C, D)) /\ Once(requests) /\ InTurn(requests, many, lists)
  BY <1>8, <1>11 DEF FlatOf
<1>13. ASSUME NEW r \in DOMAIN requests
       PROVE  \E d \in 1 .. many : \E b \in DOMAIN lists[d] : requests[r] = lists[d][b]
  BY <1>8 DEF FlatOf
<1>14. AllAsked(requests, channels, window, stale)
  <2> SUFFICES ASSUME NEW n \in DOMAIN channels, NEW i \in DOMAIN window, <<channels[n], window[i]>> \in stale
               PROVE  \E r \in DOMAIN requests : \E k \in DOMAIN requests[r].pairs :
                        requests[r].pairs[k] = <<channels[n], window[i]>>
    BY DEF AllAsked
  <2>1. PICK d \in 1 .. many : \E j \in DOMAIN dayGroups[d] : dayGroups[d][j] = window[i]
    BY <1>3, <1>4 DEF PiecesOf
  <2>2. PICK j \in DOMAIN dayGroups[d] : dayGroups[d][j] = window[i]
    BY <2>1
  <2>3. AllAsked(lists[d], channels, dayGroups[d], stale)
    BY <1>6
  <2>4. PICK b \in DOMAIN lists[d] : \E k \in DOMAIN lists[d][b].pairs : lists[d][b].pairs[k] = <<channels[n], window[i]>>
    <3>1. <<channels[n], dayGroups[d][j]>> \in stale
      BY <2>2
    <3>2. \E b \in DOMAIN lists[d] : \E k \in DOMAIN lists[d][b].pairs : lists[d][b].pairs[k] = <<channels[n], dayGroups[d][j]>>
      BY <2>3, <3>1 DEF AllAsked
    <3> QED BY <2>2, <3>2
  <2>5. PICK r \in DOMAIN requests : requests[r] = lists[d][b]
    BY <1>8 DEF FlatOf
  <2> QED BY <2>4, <2>5
<1>15. AskedOnce(requests)
  <2> SUFFICES ASSUME NEW r \in DOMAIN requests, NEW s \in DOMAIN requests,
                      NEW k \in DOMAIN requests[r].pairs, NEW l \in DOMAIN requests[s].pairs,
                      requests[r].pairs[k] = requests[s].pairs[l]
               PROVE  r = s /\ k = l
    BY DEF AskedOnce
  <2>1. PICK d \in 1 .. many : \E b \in DOMAIN lists[d] : requests[r] = lists[d][b]
    BY <1>13
  <2>2. PICK b \in DOMAIN lists[d] : requests[r] = lists[d][b]
    BY <2>1
  <2>3. PICK e \in 1 .. many : \E c \in DOMAIN lists[e] : requests[s] = lists[e][c]
    BY <1>13
  <2>4. PICK c \in DOMAIN lists[e] : requests[s] = lists[e][c]
    BY <2>3
  <2>5. d = e /\ b = c /\ k = l
    BY <1>10, <2>2, <2>4
  <2> QED BY <1>12, <2>2, <2>4, <2>5 DEF Once
<1>16. ASSUME NEW r \in DOMAIN requests
       PROVE  /\ Serves(requests[r], channels, window, stale, maxChannels, maxDays)
              /\ \E run \in Nat : \A k \in DOMAIN requests[r].pairs : InRun(requests[r].pairs[k], run, window, maxDays)
  <2> DEFINE request == requests[r]
  <2>1. PICK d \in 1 .. many : \E b \in DOMAIN lists[d] : request = lists[d][b]
    BY <1>13
  <2>2. PICK b \in DOMAIN lists[d] : request = lists[d][b]
    BY <2>1
  <2>3. request \in Asked(C, D)
    BY <1>12
  <2> HIDE DEF request
  <2>4. Serves(request, channels, dayGroups[d], stale, maxChannels, maxDays)
    BY <1>6, <2>2
  <2>5. \A j \in DOMAIN dayGroups[d] : \E i \in DOMAIN window : dayGroups[d][j] = window[i]
    <3> SUFFICES ASSUME NEW j \in DOMAIN dayGroups[d] PROVE \E i \in DOMAIN window : dayGroups[d][j] = window[i]
      OBVIOUS
    <3>1. \E i \in DOMAIN window : dayGroups[d][j] = window[i] /\ d - 1 = (i - 1) \div maxDays
      BY <1>3, <1>4 DEF PiecesOf
    <3> QED BY <3>1
  <2>10. ASSUME NEW k \in DOMAIN request.pairs
         PROVE  /\ request.pairs[k] \in stale
                /\ \E n \in DOMAIN channels, i \in DOMAIN window : request.pairs[k] = <<channels[n], window[i]>>
    <3>1. PICK n \in DOMAIN channels, j \in DOMAIN dayGroups[d] : request.pairs[k] = <<channels[n], dayGroups[d][j]>>
      BY <2>4 DEF Serves
    <3>2. PICK i \in DOMAIN window : dayGroups[d][j] = window[i]
      BY <2>5
    <3>3. request.pairs[k] \in stale
      BY <2>4 DEF Serves
    <3> QED BY <3>1, <3>2, <3>3
  <2>11. Serves(request, channels, window, stale, maxChannels, maxDays)
    BY <2>4, <2>10 DEF Serves
  <2>12. d - 1 \in Nat /\ \A k \in DOMAIN request.pairs : InRun(request.pairs[k], d - 1, window, maxDays)
    BY <1>9, <2>2
  <2> QED BY <2>11, <2>12 DEF request
<1>17. ASSUME NEW r \in DOMAIN requests, NEW s \in DOMAIN requests, r < s,
              NEW k \in DOMAIN requests[r].pairs, NEW l \in DOMAIN requests[s].pairs, NEW run \in Nat, NEW later \in Nat,
              InRun(requests[r].pairs[k], run, window, maxDays), InRun(requests[s].pairs[l], later, window, maxDays)
       PROVE  run <= later
  <2>1. PICK d \in 1 .. many : \E b \in DOMAIN lists[d] : requests[r] = lists[d][b]
    BY <1>13
  <2>2. PICK b \in DOMAIN lists[d] : requests[r] = lists[d][b]
    BY <2>1
  <2>3. PICK e \in 1 .. many : \E c \in DOMAIN lists[e] : requests[s] = lists[e][c]
    BY <1>13
  <2>4. PICK c \in DOMAIN lists[e] : requests[s] = lists[e][c]
    BY <2>3
  <2>5. d <= e
    BY <1>12, <1>17, <2>2, <2>4 DEF InTurn
  <2>6. run = d - 1
    <3>1. k \in DOMAIN lists[d][b].pairs /\ InRun(lists[d][b].pairs[k], run, window, maxDays)
      BY <1>17, <2>2
    <3> QED BY <1>9, <3>1
  <2>7. later = e - 1
    <3>1. l \in DOMAIN lists[e][c].pairs /\ InRun(lists[e][c].pairs[l], later, window, maxDays)
      BY <1>17, <2>4
    <3> QED BY <1>9, <3>1
  <2> QED BY <2>5, <2>6, <2>7
<1> QED BY <1>2, <1>12, <1>14, <1>15, <1>16, <1>17 DEF maxDays, maxChannels
=============================================================================
