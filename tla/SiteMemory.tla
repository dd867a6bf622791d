----------------------------- MODULE SiteMemory -----------------------------
(***************************************************************************)
(* What a site remembers between runs: Memory (remember.ts) over the       *)
(* `remembered` group of its SiteStateHandle (state.ts), from the first    *)
(* ask of a run to the save at the end of the site's turn.                 *)
(*                                                                         *)
(* A value is the caller whose task answered it, or Earlier where an       *)
(* earlier run kept it.  The bag's other groups are saved the same way.    *)
(***************************************************************************)
CONSTANTS
  Callers,   \* calls of a context's `remember`
  Keys,
  Asks,      \* what each call may ask: [key, away, miss, lasts]
  Stored,    \* what an earlier run may have kept of a key
  Earlier, Nothing, Failed, None

\* away: a parse's, which waits on another's task; a request runs its own.
\* miss: takes a failure that says "none" for an answer.  lasts: an `until`
\* that has not passed.
AskType == [key : Keys, away : BOOLEAN, miss : BOOLEAN, lasts : BOOLEAN]

MemoryAssumption ==
  /\ Asks \in [Callers -> SUBSET AskType]
  /\ Stored \subseteq [by : {Earlier}, missed : BOOLEAN, lasts : BOOLEAN]
  /\ {Earlier, Nothing, Failed, None} \cap Callers = {}
  /\ {Earlier, Nothing} \cap {Failed, None} = {} /\ Earlier # Nothing /\ Failed # None

Kept == [by : Callers \cup {Earlier}, missed : BOOLEAN, lasts : BOOLEAN]
NoEntry == [by |-> None, missed |-> FALSE, lasts |-> FALSE]

VARIABLES
  store,    \* the group as it is stored
  refresh,  \* --refresh
  group,    \* the group's read: "unread", "reading" or "read"
  kept,     \* the bag
  dirty,    \* whether any of its keys changed since it was stored
  fresh,    \* keys this run answered
  passing,  \* answers good for this run alone
  asking,   \* the ask under way for each key, for others to wait on
  call,     \* each call: where it is, what it asks, whom it waits on
  outcome,  \* what each caller's own task came to
  answer,   \* what each call was answered
  turn,     \* the site's turn, from its work to the save
  snapshot, \* what the save under way is writing
  due,      \* keys answered to be kept before the turn's work was over
  unread    \* whether a read of the group has failed

bag  == <<kept, dirty, fresh, passing>>
save == <<store, turn, snapshot, due>>
vars == <<refresh, group, bag, asking, call, outcome, answer, save, unread>>

Init ==
  /\ store \in [Keys -> {NoEntry} \cup Stored]
  /\ refresh \in BOOLEAN
  /\ group = "unread" /\ kept = [k \in Keys |-> NoEntry] /\ dirty = FALSE
  /\ fresh = {} /\ passing = [k \in Keys |-> NoEntry] /\ asking = [k \in Keys |-> None]
  /\ call = [c \in Callers |-> [st |-> "idle", ask |-> None, on |-> None]]
  /\ outcome = [c \in Callers |-> "none"] /\ answer = [c \in Callers |-> None]
  /\ turn = "working" /\ snapshot = kept /\ due = {} /\ unread = FALSE

-----------------------------------------------------------------------------
(* #open and #use: the first ask reads the group, the others join it.      *)
Opening == group' = IF group = "unread" THEN "reading" ELSE group

Remember(c) ==
  /\ call[c].st = "idle"
  /\ \E ask \in Asks[c] : call' = [call EXCEPT ![c].st = "opening", ![c].ask = ask]
  /\ Opening
  /\ UNCHANGED <<refresh, bag, asking, outcome, answer, save, unread>>

DropExpired(found) == [k \in Keys |-> IF found[k].lasts THEN found[k] ELSE NoEntry]

GroupRead ==
  /\ group = "reading" /\ group' = "read"
  /\ kept' = DropExpired(store)
  /\ dirty' = (\E k \in Keys : store[k] # NoEntry /\ ~store[k].lasts)
  /\ UNCHANGED <<refresh, fresh, passing, asking, call, outcome, answer, save, unread>>

ReadAsEmpty ==                                                      \* mutant
  /\ group = "reading" /\ group' = "read" /\ unread' = TRUE
  /\ UNCHANGED <<refresh, bag, asking, call, outcome, answer, save>>
(* A read that failed is not remembered: whoever waits on it fails, and    *)
(* the next ask reads again.  A save that waits on it fails with it.       *)
ReadFails ==
  /\ group = "reading" /\ group' = "unread" /\ unread' = TRUE
  /\ call' = [c \in Callers |->
                IF call[c].st = "opening" THEN [call[c] EXCEPT !.st = "done"] ELSE call[c]]
  /\ answer' = [c \in Callers |-> IF call[c].st = "opening" THEN Failed ELSE answer[c]]
  /\ turn' = IF turn = "saving" THEN "failed" ELSE turn
  /\ UNCHANGED <<refresh, bag, asking, outcome, store, snapshot, due>>

-----------------------------------------------------------------------------
(* What the run has for the call: under refresh, what it answered itself.  *)
Held(c) ==
  LET k == call[c].ask.key IN
  IF passing[k] # NoEntry THEN passing[k]
  ELSE IF refresh /\ k \notin fresh THEN NoEntry
  ELSE kept[k]

\* A "none" is an answer only to a call that takes one.
AnyAnswer(c) == Held(c) # NoEntry                                   \* mutant
Answered(c) == Held(c) # NoEntry /\ (Held(c).missed => call[c].ask.miss)

Joins(c) == asking[call[c].ask.key] # None /\ call[c].ask.away

Ready(c) == call[c].st = "opening" /\ group = "read"

FromHeld(c) ==
  /\ Ready(c) /\ Answered(c)
  /\ call' = [call EXCEPT ![c].st = "done"]
  /\ answer' = [answer EXCEPT ![c] = IF Held(c).missed THEN Nothing ELSE Held(c).by]
  /\ UNCHANGED <<refresh, group, bag, asking, outcome, save, unread>>

Join(c) ==
  /\ Ready(c) /\ ~Answered(c) /\ Joins(c)
  /\ call' = [call EXCEPT ![c].st = "joined", ![c].on = asking[call[c].ask.key]]
  /\ UNCHANGED <<refresh, group, bag, asking, outcome, answer, save, unread>>

StartTask(c) ==
  /\ Ready(c) /\ ~Answered(c) /\ ~Joins(c)
  /\ call' = [call EXCEPT ![c].st = "asking"]
  /\ asking' = [asking EXCEPT ![call[c].ask.key] = IF @ = None THEN c ELSE @]
  /\ UNCHANGED <<refresh, group, bag, outcome, answer, save, unread>>

KeepsQuietly(c, missed) ==                                          \* mutant
  LET k == call[c].ask.key IN
  /\ kept' = [kept EXCEPT ![k] = [by |-> c, missed |-> missed, lasts |-> TRUE]]
  /\ fresh' = fresh \cup {k}
  /\ due' = IF turn = "working" THEN due \cup {k} ELSE due
  /\ UNCHANGED <<dirty, passing>>
(* #keep: for the runs after, or for this one where `until` has passed.    *)
Keep(c, missed) ==
  LET ask == call[c].ask
      entry == [by |-> c, missed |-> missed, lasts |-> ask.lasts] IN
  IF ask.lasts
    THEN /\ kept' = [kept EXCEPT ![ask.key] = entry]
         /\ dirty' = TRUE /\ fresh' = fresh \cup {ask.key}
         /\ due' = IF turn = "working" THEN due \cup {ask.key} ELSE due
         /\ UNCHANGED passing
    ELSE /\ passing' = [passing EXCEPT ![ask.key] = entry]
         /\ UNCHANGED <<kept, dirty, fresh, due>>

\* What a call makes of an outcome, by its own `miss`.
Takes(c, how, by) ==
  IF how = "value" THEN by ELSE IF how = "absent" /\ call[c].ask.miss THEN Nothing ELSE Failed

(* #ask: the task ends with a value, a failure that says there is none, or *)
(* any other (a value that is not plain among them), which nobody keeps.   *)
TaskEnds(c, how) ==
  /\ call[c].st = "asking"
  /\ IF how = "value" \/ (how = "absent" /\ call[c].ask.miss)
       THEN Keep(c, how = "absent")
       ELSE UNCHANGED <<bag, due>>
  /\ outcome' = [outcome EXCEPT ![c] = how]
  /\ asking' = [asking EXCEPT ![call[c].ask.key] = IF @ = c THEN None ELSE @]
  /\ call' = [call EXCEPT ![c].st = "done"]
  /\ answer' = [answer EXCEPT ![c] = Takes(c, how, c)]
  /\ UNCHANGED <<refresh, group, store, turn, snapshot, unread>>

Hears(c) == outcome[call[c].on] # "none"

Joined(c) ==
  /\ call[c].st = "joined" /\ Hears(c)
  /\ call' = [call EXCEPT ![c].st = "done"]
  /\ answer' = [answer EXCEPT ![c] = Takes(c, outcome[call[c].on], call[c].on)]
  /\ UNCHANGED <<refresh, group, bag, asking, outcome, save, unread>>

-----------------------------------------------------------------------------
(* The turn's work is over, with calls nobody waited for perhaps under     *)
(* way: Memory.prune reads the group, asked for or not.                    *)
Prune ==
  /\ turn = "working" /\ turn' = "pruning"
  /\ Opening
  /\ UNCHANGED <<refresh, bag, asking, call, outcome, answer, store, snapshot, due, unread>>

Pruned ==
  /\ turn = "pruning" /\ group # "reading" /\ turn' = "saving"
  /\ UNCHANGED <<refresh, group, bag, asking, call, outcome, answer, store, snapshot, due, unread>>

(* SiteStateHandle.save: a group that was never read has nothing to write. *)
Save ==
  /\ turn = "saving" /\ group # "reading"
  /\ turn' = IF group = "read" /\ dirty THEN "writing" ELSE "saved"
  /\ snapshot' = IF turn' = "writing" THEN kept ELSE snapshot
  /\ UNCHANGED <<refresh, group, bag, asking, call, outcome, answer, store, due, unread>>

(* setState lands, and the group settles: what changed meanwhile is taken  *)
(* as stored too, and no other save will come.                             *)
SaveLands ==
  /\ turn = "writing" /\ turn' = "saved"
  /\ store' = snapshot /\ dirty' = FALSE
  /\ UNCHANGED <<refresh, group, kept, fresh, passing, asking, call, outcome, answer, snapshot,
                 due, unread>>

SaveFails ==
  /\ turn = "writing" /\ turn' = "failed"
  /\ UNCHANGED <<refresh, group, bag, asking, call, outcome, answer, store, snapshot, due, unread>>

Ends(c) == \E how \in {"value", "absent", "broken"} : TaskEnds(c, how)
Goes(c) == FromHeld(c) \/ Join(c) \/ StartTask(c) \/ Ends(c) \/ Joined(c)

Next ==
  \/ \E c \in Callers : Remember(c) \/ Goes(c)
  \/ GroupRead \/ ReadFails
  \/ Prune \/ Pruned \/ Save \/ SaveLands \/ SaveFails

Spec == Init /\ [][Next]_vars

\* A read ends, and a task does, and a promise settled is heard of.  No step is
\* ever taken twice, so weak fairness of them together is that of each.
Progress == GroupRead \/ ReadFails \/ \E c \in Callers : Goes(c)
FairSpec == Spec /\ WF_vars(Progress)

-----------------------------------------------------------------------------
\* Every variable keeps its type; within a run nothing in the bag has passed
\* the time it was to be forgotten by.
TypeOK ==
  /\ \A k \in Keys : store[k] \in Kept \cup {NoEntry}
  /\ \A k \in Keys : kept[k] = NoEntry \/ (kept[k] \in Kept /\ kept[k].lasts)
  /\ \A k \in Keys : passing[k] = NoEntry \/ (passing[k] \in Kept /\ ~passing[k].lasts)
  /\ refresh \in BOOLEAN /\ dirty \in BOOLEAN /\ unread \in BOOLEAN
  /\ group \in {"unread", "reading", "read"}
  /\ fresh \subseteq Keys /\ due \subseteq Keys
  /\ \A c \in Callers : /\ call[c].st \in {"idle", "opening", "asking", "joined", "done"}
                        /\ call[c].ask = None \/ call[c].ask \in Asks[c]
                        /\ answer[c] \in Callers \cup {Earlier, Nothing, Failed, None}
  /\ turn \in {"working", "pruning", "saving", "writing", "saved", "failed"}

\* A call is handed a value only of its own key, and null only where it says
\* that some failure is an answer, whoever asked first and however they took
\* theirs; and under --refresh none that an earlier run kept.
AnswerIsItsOwn ==
  \A c \in Callers :
    /\ answer[c] \in Callers =>
         outcome[answer[c]] = "value" /\ call[answer[c]].ask.key = call[c].ask.key
    /\ answer[c] = Nothing => call[c].ask.miss
    /\ answer[c] = Earlier => ~refresh

\* Once the turn's state is saved, what was answered to be kept before its work
\* was over is stored, though more is kept while it is being written; and
\* nothing past its `until` is, whether or not anything asked, unless the group
\* could not be read.
StoredIsCurrent ==
  turn = "saved" =>
    /\ \A k \in due : store[k].by \in Callers
    /\ ~unread => \A k \in Keys : store[k] = NoEntry \/ store[k].lasts

\* No value stored for a later run is lost before its time, and a group that
\* could not be read is never written over: it is dropped once expired, or
\* replaced by what this run was answered.
NothingLost ==
  [][\A k \in Keys : store[k] # NoEntry /\ store[k].lasts => store'[k] # NoEntry]_vars

\* Every call is answered, or fails, in the end: none stays under way for good.
CallsEnd == []<>(\A c \in Callers : call[c].st \in {"idle", "done"})
=============================================================================
