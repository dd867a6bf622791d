----------------------------- MODULE MCSources -----------------------------
(* What sites ask for and keep, each by itself: the channel list of a site     *)
(* over two commands; a program run as a source; the token of an account over  *)
(* two calls; and a database two processes keep their channel-days in.  Which  *)
(* of the four a behaviour is of is chosen at the start.                       *)
EXTENDS ChannelLists

CONSTANTS
  c1, c2, Parts,
  Wanted, Horizon, Room, Limited, ArgsWait,         \* as in CommandSource
  Calls, Slots, Limit, Runs, Mishaps, MaxMishaps,   \* as in Tokens
  Processes, Keys, Past, Page, MaxCalls, Left, Looks, Kills  \* as in SqliteCache

VARIABLES
  which,
  mode, windows, at, phase, said, signal, prog, stopped, killer, hears, ends,
  keeps, session, pending, asked, issued, refusedTokens, unproven, call, valid, wanted,
  runs, mishaps,
  file, proc, calls, kills, promised, through, raced

MCCommands == {c1, c2}
MCSelecting == {c2}

Program == INSTANCE CommandSource
Account == INSTANCE Tokens

\* Two channel-days, under keys that are the first two numbers.
MCLeft == {<<"readable", "cut">>, <<"unreadable", "readable">>}
Database == INSTANCE SqliteCache

ASSUME CacheAssumption == Database!CacheAssumption
ASSUME ProgramAssumption == Program!ProgramAssumption

ofProgram == <<mode, windows, at, phase, said, signal, prog, stopped, killer, hears, ends>>
ofAccount == <<keeps, session, pending, asked, issued, refusedTokens, unproven, call, valid,
               wanted, runs, mishaps>>
ofDatabase == <<file, proc, calls, kills, promised, through, raced>>
all == <<which, vars, ofProgram, ofAccount, ofDatabase>>

\* A part that is not the one chosen stands at one of its beginnings.
AtRest ==
  /\ which # "lists" => kind = "unkept" /\ stored = NoList
  /\ which # "program" => mode = "list"
  /\ which # "account" => ~keeps
  /\ which # "database" => ~file.there
MCInit ==
  /\ which \in Parts
  /\ Init /\ Program!Init /\ Account!Init /\ Database!Init /\ AtRest

OfLists(A) == which = "lists" /\ A /\ UNCHANGED <<which, ofProgram, ofAccount, ofDatabase>>
OfProgram(A) == which = "program" /\ A /\ UNCHANGED <<which, vars, ofAccount, ofDatabase>>
OfAccount(A) == which = "account" /\ A /\ UNCHANGED <<which, vars, ofProgram, ofDatabase>>
OfDatabase(A) == which = "database" /\ A /\ UNCHANGED <<which, vars, ofProgram, ofAccount>>

MCNext ==
  \/ OfLists(Next) \/ OfProgram(Program!Next) \/ OfAccount(Account!Next)
  \/ OfDatabase(Database!Next)
Work == OfLists(Works) \/ OfProgram(Program!Works) \/ OfAccount(Account!Progress)
Time == OfLists(Ticks) \/ OfProgram(Program!Timeout)
MCSpec ==
  /\ MCInit /\ [][MCNext]_all /\ WF_all(Work) /\ WF_all(Time)

-----------------------------------------------------------------------------
\* As CommandSource has it.
CutShortIsNotTaken == which = "program" => Program!CutShortIsNotTaken
\* As Tokens has it.
RenewedOnce == Account!RenewedOnce
\* As SqliteCache has it.
KeysStay == Database!KeysStay

\* Commands come to the list the source has; a program run is gone when its pass
\* is over, and the pass ends; and every call of an account ends.
EverythingFollows ==
  <>[](CASE which = "lists" -> AsTheSource
         [] which = "program" -> Program!AllGone
         [] which = "account" -> Account!AllOver
         [] OTHER -> TRUE)

\* As ChannelLists, CommandSource and SqliteCache have them: what the comments
\* say that does not hold.
ProgramsEnd == which = "program" => Program!ProgramsEnd
FirstWritesMeet == Database!FirstWritesMeet
=============================================================================
