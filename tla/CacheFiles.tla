----------------------------- MODULE CacheFiles -----------------------------
(***************************************************************************)
(* The cache as files: FsCacheDriver and writeFileAtomic beneath           *)
(* CacheManager, for one site.  Writes of entries, looks that remove an    *)
(* entry they cannot use, and a prune run beside each other, in one        *)
(* process or several, any of which may be killed.                         *)
(*                                                                         *)
(* One file system call is one action.  The site's directory holds a       *)
(* directory for each channel, and that a file for each day.               *)
(***************************************************************************)
EXTENDS Integers, FiniteSets

CONSTANTS
  Channels,
  OldDays, NewDays,  \* days before the prune's `before`, and the others
  Writes,            \* writes of one entry each
  Looks,             \* reads of one entry each
  May,               \* the entries each of them may be of
  Left,              \* what an earlier run may have left of each entry
  Disk,              \* whether the disk may refuse a write or its rename
  Absent, Bad, Good, None

Days == OldDays \cup NewDays
Entries == Channels \X Days
\* An entry is one an earlier run left, Bad or Good, or a write's: all of it, or
\* what is down so far.
Partial(w) == [by |-> w, whole |-> FALSE]
Whole(w) == [by |-> w, whole |-> TRUE]
Contents == {Bad, Good} \cup [by : Writes, whole : BOOLEAN]

ASSUME CacheAssumption ==
  /\ IsFiniteSet(Channels) /\ IsFiniteSet(OldDays) /\ IsFiniteSet(NewDays)
  /\ OldDays \cap NewDays = {} /\ Disk \in BOOLEAN
  /\ May \in [Writes \cup Looks -> SUBSET Entries]
  /\ Left \in [Entries -> SUBSET {Absent, Bad, Good}]
  /\ {Absent, Bad, Good} \cap [by : Writes, whole : BOOLEAN] = {} /\ Absent \notin {Bad, Good}

VARIABLES
  site,     \* whether the site's directory is there
  dirs,     \* the channels whose directory is
  file,     \* the content of each entry's file
  temp,     \* the writes whose temporary file is there
  write,    \* each write: where it is, its entry, which attempt this is
  look,     \* each look: where it is, its entry, and what it read
  prune,    \* the prune: where it is, and the total so far
  walk,     \* where it is in each channel, the stale days left and found there
  aborted   \* the run's signal, which the driver was given

files == <<site, dirs, file, temp>>
vars == <<files, write, look, prune, walk, aborted>>

Idle == [st |-> "idle", at |-> None, again |-> FALSE]

Init ==
  /\ dirs \in SUBSET Channels /\ site = (dirs # {})
  /\ file \in [Entries -> {Absent, Bad, Good}]
  /\ \A e \in Entries : file[e] \in (IF e[1] \in dirs THEN Left[e] ELSE {Absent})
  /\ temp = {}
  /\ write = [w \in Writes |-> Idle]
  /\ look = [r \in Looks |-> [st |-> "idle", at |-> None, got |-> Absent]]
  /\ prune = [st |-> "idle", removed |-> 0]
  /\ walk = [c \in Channels |-> [st |-> "none", stale |-> {}, found |-> {}]]
  /\ aborted = FALSE

Channel(w) == write[w].at[1]
Goto(w, st) == write' = [write EXCEPT ![w].st = st]

-----------------------------------------------------------------------------
(* CacheManager.write, and writeFileAtomic beneath it.                     *)
Begin(w) ==
  /\ write[w].st = "idle"
  /\ \E e \in May[w] : write' = [write EXCEPT ![w] = [@ EXCEPT !.st = "opening", !.at = e]]
  /\ UNCHANGED <<files, look, prune, walk, aborted>>

InPlace(w) ==                                                       \* mutant
  /\ file' = [file EXCEPT ![write[w].at] = Partial(w)] /\ UNCHANGED temp
Beside(w) == temp' = temp \cup {w} /\ UNCHANGED file

\* A directory found missing twice is what a write fails of.
Again(w) == write[w].again

(* Written before the directory is made sure of.                           *)
Open(w) ==
  /\ write[w].st = "opening"
  /\ IF Channel(w) \in dirs
       THEN Beside(w) /\ Goto(w, "writing")
       ELSE Goto(w, IF Again(w) THEN "gone" ELSE "missing") /\ UNCHANGED <<file, temp>>
  /\ UNCHANGED <<site, dirs, look, prune, walk, aborted>>

(* ENOENT: made, and written again, unless cancelled by now.               *)
MakeDir(w) ==
  /\ write[w].st = "missing"
  /\ IF aborted
       THEN Goto(w, "failed") /\ UNCHANGED <<site, dirs>>
       ELSE /\ write' = [write EXCEPT ![w].st = "opening", ![w].again = TRUE]
            /\ site' = TRUE /\ dirs' = dirs \cup {Channel(w)}
  /\ UNCHANGED <<file, temp, look, prune, walk, aborted>>

Written(w) ==
  /\ write[w].st = "writing"
  /\ Goto(w, "renaming")
  /\ UNCHANGED <<files, look, prune, walk, aborted>>

LeavesTemp(w) == Goto(w, "failed")                                  \* mutant
Fails(w) == Goto(w, "failing")

(* The signal, which the write takes and the rename does not, or the disk. *)
WriteFails(w) ==
  /\ \/ write[w].st = "opening" /\ aborted
     \/ write[w].st = "writing" /\ (aborted \/ Disk)
     \/ write[w].st = "renaming" /\ Disk
  /\ Fails(w)
  /\ UNCHANGED <<files, look, prune, walk, aborted>>

Discard(w) ==
  /\ write[w].st = "failing"
  /\ temp' = temp \ {w} /\ Goto(w, "failed")
  /\ UNCHANGED <<site, dirs, file, look, prune, walk, aborted>>

Rename(w) ==
  /\ write[w].st = "renaming"
  /\ file' = [file EXCEPT ![write[w].at] = Whole(w)]
  /\ temp' = temp \ {w} /\ Goto(w, "done")
  /\ UNCHANGED <<site, dirs, look, prune, walk, aborted>>

(* The process is killed: what it wrote so far stays where it is.          *)
Kill(w) ==
  /\ write[w].st \in {"opening", "missing", "writing", "failing", "renaming"}
  /\ Goto(w, "killed")
  /\ UNCHANGED <<files, look, prune, walk, aborted>>

-----------------------------------------------------------------------------
(* CacheManager.read and getMeta: the file is read whole, and one that     *)
(* cannot be used is removed, a call later, by its name.                   *)
Look(r) ==
  /\ look[r].st = "idle" /\ ~aborted
  /\ \E e \in May[r] :
       look' = [look EXCEPT ![r] = [st |-> IF file[e] = Bad THEN "judged" ELSE "done",
                                    at |-> e, got |-> file[e]]]
  /\ UNCHANGED <<files, write, prune, walk, aborted>>

Remove(r) ==
  /\ look[r].st = "judged"
  /\ file' = [file EXCEPT ![look[r].at] = Absent]
  /\ look' = [look EXCEPT ![r].st = "done"]
  /\ UNCHANGED <<site, dirs, temp, write, prune, walk, aborted>>

-----------------------------------------------------------------------------
(* prune: the channels of a site a few at a time, the days of each.        *)
StartPrune ==
  /\ prune.st = "idle" /\ ~aborted
  /\ prune' = [prune EXCEPT !.st = "walking"]
  /\ walk' = [c \in Channels |-> [walk[c] EXCEPT !.st = IF c \in dirs THEN "listing" ELSE "done"]]
  /\ UNCHANGED <<files, write, look, aborted>>

Stale(c) == {d \in OldDays : file[<<c, d>>] # Absent}

ListDays(c) ==
  /\ walk[c].st = "listing"
  /\ walk' = [walk EXCEPT ![c] = IF aborted THEN [@ EXCEPT !.st = "stopped"]
                                 ELSE [st |-> "removing", stale |-> Stale(c), found |-> Stale(c)]]
  /\ UNCHANGED <<files, write, look, prune, aborted>>

RemoveDay(c, d) ==
  /\ walk[c].st = "removing" /\ d \in walk[c].stale
  /\ file' = [file EXCEPT ![<<c, d>>] = Absent]
  /\ walk' = [walk EXCEPT ![c].stale = @ \ {d}]
  /\ UNCHANGED <<site, dirs, temp, write, look, prune, aborted>>

\* Counted after the await, with what another channel has added meanwhile.
AddUp(c) == prune' = [prune EXCEPT !.removed = @ + Cardinality(walk[c].found)]

DaysRemoved(c) ==
  /\ walk[c].st = "removing" /\ walk[c].stale = {}
  /\ AddUp(c)
  /\ walk' = [walk EXCEPT ![c].st = "emptied"]
  /\ UNCHANGED <<files, write, look, aborted>>

Empty(c) == /\ \A d \in Days : file[<<c, d>>] = Absent
            /\ \A w \in temp : Channel(w) # c

RemoveTree(c) ==                                                    \* mutant
  /\ dirs' = dirs \ {c}
  /\ file' = [e \in Entries |-> IF e[1] = c THEN Absent ELSE file[e]]
(* rmdir, without asking first: it refuses one with anything in it.        *)
RemoveIfEmpty(c) ==
  /\ dirs' = IF Empty(c) THEN dirs \ {c} ELSE dirs
  /\ UNCHANGED file

RemoveChannel(c) ==
  /\ walk[c].st = "emptied"
  /\ RemoveIfEmpty(c)
  /\ walk' = [walk EXCEPT ![c].st = "done"]
  /\ UNCHANGED <<site, temp, write, look, prune, aborted>>

NotHeard == FALSE                                                   \* mutant
\* The first channel that would not start is the answer; the others go on.
Halted == \E c \in Channels : walk[c].st = "stopped"

(* ... and the site's, once its channels are done with.                    *)
EndPrune ==
  /\ prune.st = "walking"
  /\ \/ Halted /\ prune' = [prune EXCEPT !.st = "stopped"] /\ UNCHANGED site
     \/ /\ \A c \in Channels : walk[c].st = "done"
        /\ prune' = [prune EXCEPT !.st = "done"]
        /\ site' = (site /\ dirs # {})
  /\ UNCHANGED <<dirs, file, temp, write, look, walk, aborted>>

Abort ==
  /\ ~aborted /\ aborted' = TRUE
  /\ UNCHANGED <<files, write, look, prune, walk>>

Writing(w) == Open(w) \/ MakeDir(w) \/ Written(w) \/ WriteFails(w) \/ Discard(w) \/ Rename(w)
Pruning(c) == ListDays(c) \/ (\E d \in Days : RemoveDay(c, d)) \/ DaysRemoved(c) \/ RemoveChannel(c)

Next ==
  \/ \E w \in Writes : Begin(w) \/ Writing(w) \/ Kill(w)
  \/ \E r \in Looks : Look(r) \/ Remove(r)
  \/ StartPrune \/ (\E c \in Channels : Pruning(c)) \/ EndPrune
  \/ Abort

Spec == Init /\ [][Next]_vars

\* Every file system call ends.  None is ever gone back to, so weak fairness of
\* them all is that of each.
Calls ==
  \/ \E w \in Writes : Writing(w)
  \/ \E r \in Looks : Remove(r)
  \/ (\E c \in Channels : Pruning(c)) \/ EndPrune
FairSpec == Spec /\ WF_vars(Calls)

-----------------------------------------------------------------------------
WriteStates == {"idle", "opening", "missing", "writing", "failing", "renaming",
                "done", "failed", "gone", "killed"}
WalkStates == {"none", "listing", "stopped", "removing", "emptied", "done"}

\* Every variable keeps its type, and a file is only where its directory is: a
\* temporary one keeps its directory from being removed until it is renamed.
TypeOK ==
  /\ site \in BOOLEAN /\ dirs \subseteq Channels /\ temp \subseteq Writes
  /\ file \in [Entries -> Contents \cup {Absent}]
  /\ write \in [Writes -> [st : WriteStates, at : Entries \cup {None}, again : BOOLEAN]]
  /\ look \in [Looks -> [st : {"idle", "judged", "done"}, at : Entries \cup {None},
                         got : Contents \cup {Absent}]]
  /\ prune \in [st : {"idle", "walking", "stopped", "done"}, removed : Nat]
  /\ walk \in [Channels -> [st : WalkStates, stale : SUBSET OldDays, found : SUBSET OldDays]]
  /\ aborted \in BOOLEAN
  /\ dirs # {} => site
  /\ \A e \in Entries : file[e] # Absent => e[1] \in dirs
  /\ \A w \in temp : Channel(w) \in dirs

\* No look ever reads half an entry, whatever is being written, killed, pruned
\* or removed beside it.
WholeOrNot == \A r \in Looks : look[r].got \notin {Partial(w) : w \in Writes}

\* A prune's total is what its channels were found to hold, though several are
\* counted at once.
Found == {e \in Channels \X OldDays : e[2] \in walk[e[1]].found}
PruneAddsUp == prune.st = "done" => prune.removed = Cardinality(Found)

\* A write leaves nothing of itself behind but its entry, cancelled or refused
\* as it may be; only one killed does.  And a channel's first day is written,
\* directory and all: a write that finds the directory gone twice is one a prune
\* took it from between.  And a prune beside it all adds up.
WritesAreClean ==
  /\ \A w \in temp : write[w].st \in {"writing", "failing", "renaming", "killed"}
  /\ \A w \in Writes : write[w].st = "gone" => prune.st # "idle"
  /\ PruneAddsUp

\* The entry of a day a prune keeps goes only by name, to a look that had read
\* one it could not use: never to a prune, nor with a directory taken for empty.
KeptDaysStay ==
  [][\A e \in Channels \X NewDays :
       file[e] # Absent /\ file'[e] = Absent
         => \E r \in Looks : look[r].st = "judged" /\ look[r].at = e]_vars

\* Every write that began ends, and every prune, cancelled or not.
AllEnded == /\ \A w \in Writes : write[w].st \in {"idle", "done", "failed", "gone", "killed"}
            /\ prune.st \in {"idle", "done", "stopped"}
EverythingEnds == <>[]AllEnded
=============================================================================
