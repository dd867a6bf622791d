----------------------------- MODULE SqliteCache -----------------------------
(* SqliteCacheDriver under the CacheManager: one database file, and processes  *)
(* that each have a driver of their own.  A statement is one step, and between *)
(* two of them another process may run one; the bytes of an entry are whole,   *)
(* cut, or of another schema, and an entry is known by the write it is of.     *)
EXTENDS Integers, Sequences, FiniteSets, FiniteSetsExt, SequencesExt

CONSTANTS
  Processes,
  Keys,          \* numbers, in the order of entries_key
  Past,          \* those of days before the one a prune keeps
  Page,          \* LIST_PAGE
  MaxCalls,      \* bound
  Left,          \* what earlier runs may have left under each key
  Looks,         \* how a process may start: "made" or "unmade" tables
  Kills          \* bound

\* Keys are told apart by their order, from where a listing begins.
CacheAssumption ==
  /\ Keys \subseteq Nat \ {0} /\ IsFiniteSet(Keys) /\ Page \in Nat \ {0}
  /\ \A holds \in Left : \A k \in Keys : holds[k] \in {"nothing", "readable", "cut", "unreadable"}

VARIABLES
  file,          \* the database: its version, and its rows or no table
  proc,          \* the processes: a driver, and the call it is in
  calls, kills,
  promised,          \* history: what a write put under a key and nothing took since,
  through,       \* the keys there all through a listing, and whether a process
  raced          \* made tables over those another had made

vars == <<file, proc, calls, kills, promised, through, raced>>

NoRow == [of |-> 0, holds |-> "nothing"]
Current == 3     \* TABLE_VERSION
Row(holds) == IF holds = "nothing" THEN NoRow ELSE [of |-> 0, holds |-> holds]
Empty == [k \in Keys |-> NoRow]

Fresh == [st |-> "idle", want |-> "none", key |-> 0, after |-> 0, listed |-> <<>>,
          open |-> FALSE, current |-> FALSE, writable |-> FALSE]

Init ==
  /\ file \in (IF "made" \in Looks
                 THEN {[there |-> TRUE, version |-> Current, made |-> TRUE,
                        rows |-> [k \in Keys |-> Row(holds[k])]] : holds \in Left}
                 ELSE {})
              \cup (IF "unmade" \in Looks
                      THEN {[there |-> FALSE, version |-> 0, made |-> FALSE, rows |-> Empty],
                            [there |-> TRUE, version |-> 2, made |-> TRUE, rows |-> Empty]}
                      ELSE {})
  /\ proc = [p \in Processes |-> Fresh]
  /\ calls = 0 /\ kills = 0 /\ promised = [k \in Keys |-> 0]
  /\ through = [p \in Processes |-> {}] /\ raced = FALSE

-----------------------------------------------------------------------------
History == <<promised, through, raced>>
\* What `@@` of TLC is, in a form the provers have too.
With(state, changes) ==
  [f \in DOMAIN state |-> IF f \in DOMAIN changes THEN changes[f] ELSE state[f]]
Goes(p, changes) == proc' = [proc EXCEPT ![p] = With(@, changes)]
Nothing == [listed |-> <<>>]
Answers(p, changes) ==
  proc' = [proc EXCEPT ![p] = With([@ EXCEPT !.st = "idle", !.key = 0, !.after = 0], changes)]
Mode(want) == CASE want \in {"meta", "read", "inspect", "list"} -> "read"
                [] want \in {"delete", "remove", "prune"} -> "change"
                [] OTHER -> "write"

\* A call of the manager, one at a time in a process.
Call(p) ==
  /\ proc[p].st = "idle" /\ calls < MaxCalls /\ calls' = calls + 1
  /\ \/ \E want \in {"meta", "read", "inspect", "write", "delete"}, key \in Keys :
          /\ Goes(p, [st |-> "preparing", want |-> want, key |-> key, listed |-> <<>>])
          /\ UNCHANGED through
     \/ \E want \in {"list", "prune"} :
          /\ Goes(p, [st |-> "preparing", want |-> want, listed |-> <<>>])
          /\ through' = [through EXCEPT ![p] = {k \in Keys : file.rows[k] # NoRow}]
  /\ UNCHANGED <<file, kills, promised, raced>>

(* #prepared.  Only a write makes the file, and the tables where they are not  *)
(* this code's: for any other call there is nothing until someone has.         *)
PrepareLook(p) ==
  /\ proc[p].st = "preparing" /\ Mode(proc[p].want) # "write" /\ ~proc[p].current
  /\ IF ~proc[p].open /\ ~file.there
       THEN Answers(p, Nothing)
       ELSE IF file.version = Current
              THEN Goes(p, [open |-> TRUE, current |-> TRUE])
              ELSE Answers(p, [open |-> TRUE])
  /\ UNCHANGED <<file, calls, kills, History>>

PrepareChange(p) ==
  /\ proc[p].st = "preparing" /\ ~proc[p].writable
  /\ Mode(proc[p].want) = "write" \/ (Mode(proc[p].want) = "change" /\ proc[p].current)
  /\ file' = [file EXCEPT !.there = TRUE]
  /\ Goes(p, [open |-> TRUE, st |-> "ensuring"])
  /\ UNCHANGED <<calls, kills, History>>

Prepared(p) ==
  /\ proc[p].st = "preparing"
  /\ IF Mode(proc[p].want) = "read" THEN proc[p].current ELSE proc[p].writable
  /\ Goes(p, [st |-> "running"])
  /\ UNCHANGED <<file, calls, kills, History>>

(* #ensureTable, a statement at a time, each its own transaction.              *)
Ready(p) == Goes(p, [st |-> "running", current |-> TRUE, writable |-> TRUE])
Ensure(p) ==
  /\ proc[p].st = "ensuring"
  /\ IF file.version = Current THEN Ready(p) ELSE Goes(p, [st |-> "dropping"])
  /\ UNCHANGED <<file, calls, kills, History>>
Making(p) == proc[p].st \in {"dropping", "creating", "stamping"}
Drop(p) ==
  /\ proc[p].st = "dropping" /\ Goes(p, [st |-> "creating"])
  /\ file' = [file EXCEPT !.made = FALSE, !.rows = Empty]
  /\ through' = [q \in Processes |-> {}]
  /\ raced' = (raced \/ file.version = Current \/ \E q \in Processes \ {p} : Making(q))
  /\ UNCHANGED <<calls, kills, promised>>
Create(p) ==
  /\ proc[p].st = "creating"
  /\ IF file.made
       THEN Answers(p, Nothing) /\ UNCHANGED file
       ELSE Goes(p, [st |-> "stamping"]) /\ file' = [file EXCEPT !.made = TRUE]
  /\ UNCHANGED <<calls, kills, History>>
Stamp(p) ==
  /\ proc[p].st = "stamping" /\ Ready(p)
  /\ file' = [file EXCEPT !.version = Current]
  /\ UNCHANGED <<calls, kills, History>>

-----------------------------------------------------------------------------
Running(p, wants) == proc[p].st = "running" /\ proc[p].want \in wants /\ file.made
Rows(rows) == file' = [file EXCEPT !.rows = rows]

\* A table someone has dropped since: the statement is thrown.
NoTable(p) ==
  /\ proc[p].st = "running" /\ ~file.made
  /\ Answers(p, Nothing)
  /\ UNCHANGED <<file, calls, kills, History>>

(* What a run would not use it removes, by its key; a look leaves it.  A meta  *)
(* is judged without its programmes, and programmes are counted as they are    *)
(* decoded.                                                                    *)
Usable(row, want) == row.holds = "readable" \/ (want = "meta" /\ row.holds = "cut")
Read(p) ==
  /\ Running(p, {"meta", "read", "inspect"})
  /\ LET row == file.rows[proc[p].key]
     IN  CASE Usable(row, proc[p].want) -> Answers(p, Nothing)
           [] row # NoRow /\ ~Usable(row, proc[p].want) /\ proc[p].want # "inspect" ->
                Goes(p, [st |-> "preparing", want |-> "remove"])
           [] OTHER -> Answers(p, Nothing)
  /\ UNCHANGED <<file, calls, kills, History>>

Write(p) ==
  /\ Running(p, {"write"})
  /\ Rows([file.rows EXCEPT ![proc[p].key] = [of |-> calls, holds |-> "readable"]])
  /\ promised' = [promised EXCEPT ![proc[p].key] = calls]
  /\ Answers(p, Nothing)
  /\ UNCHANGED <<calls, kills, through, raced>>

Taken(p) == IF proc[p].want = "prune" THEN Past ELSE {proc[p].key}
Delete(p) ==
  /\ Running(p, {"delete", "remove", "prune"})
  /\ Rows([k \in Keys |-> IF k \in Taken(p) THEN NoRow ELSE file.rows[k]])
  /\ promised' = [k \in Keys |-> IF k \in Taken(p) THEN 0 ELSE promised[k]]
  /\ through' = [q \in Processes |-> through[q] \ Taken(p)]
  /\ Answers(p, Nothing)
  /\ UNCHANGED <<calls, kills, raced>>

(* A page of keys at a time, whole before one is handed out, from where the    *)
(* last ended; what is done between two is anyone's.                           *)
FirstOf(keys) ==
  LET before(k) == {j \in keys : j < k}
  IN  [i \in 1 .. Min({Page, Cardinality(keys)}) |->
         CHOOSE k \in keys : Cardinality(before(k)) = i - 1]
PagedAgain(after) ==  \* mutant
  FirstOf({k \in Keys : k >= after /\ file.rows[k] # NoRow})
Paged(after) == FirstOf({k \in Keys : k > after /\ file.rows[k] # NoRow})
NextPage(p) ==
  /\ Running(p, {"list"})
  /\ LET page == Paged(proc[p].after)
         listed == proc[p].listed \o page
     IN  IF Len(page) = Page
           THEN Goes(p, [listed |-> listed, after |-> Last(page)])
           ELSE Answers(p, [listed |-> listed])
  /\ UNCHANGED <<file, calls, kills, History>>

\* Closed, or killed: whoever comes next opens the file again.
Ends(p) ==
  /\ proc[p].open /\ kills < Kills /\ kills' = kills + 1
  /\ proc' = [proc EXCEPT ![p] = Fresh]
  /\ UNCHANGED <<file, calls, History>>

Works == \E p \in Processes :
  \/ PrepareLook(p) \/ PrepareChange(p) \/ Prepared(p)
  \/ Ensure(p) \/ Drop(p) \/ Create(p) \/ Stamp(p)
  \/ NoTable(p) \/ Read(p) \/ Write(p) \/ Delete(p) \/ NextPage(p)
Next == Works \/ \E p \in Processes : Call(p) \/ Ends(p)
Spec == Init /\ [][Next]_vars /\ WF_vars(Works)

-----------------------------------------------------------------------------
\* What a write put under a key is there as it was written until a write, a prune
\* or a removal of that key, and a database that says its tables are this code's
\* has them; but for processes that made the tables over one another's.
AsWritten == \A k \in Keys : promised[k] # 0 => file.rows[k] = [of |-> promised[k], holds |-> "readable"]
WrittenStays == ~raced => AsWritten /\ (file.version = Current => file.made)

\* A listing hands out no key twice, and every key that is there all along, with
\* whatever is written and removed between its pages.
ListedOnce ==
  [][\A p \in Processes : Running(p, {"list"}) /\ kills' = kills /\ proc'[p].st = "idle" =>
       IsInjective(proc'[p].listed) /\ through[p] \subseteq ToSet(proc'[p].listed)]_vars
KeysStay == []WrittenStays /\ ListedOnce

\* Whatever other process writes for the first time, what was written stays.
FirstWritesMeet == AsWritten
=============================================================================
