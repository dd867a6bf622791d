---------------------------- MODULE MCCacheFiles ----------------------------
(* CacheFiles for two channels, of a day to prune and a day to keep; and the   *)
(* questions of MCDecisions, asked one at a time.  Which of the two a          *)
(* behaviour is of is chosen at the start.                                     *)
EXTENDS CacheFiles, TLC

CONSTANTS a, b, w1, w2, r, c1, c2, c3, DayLen, Unbounded

VARIABLES asked, answered

MCChannels == {a, b}
MCWrites == {w1, w2}
MCLooks == {r}
MCMay == w1 :> {<<a, 1>>, <<a, 2>>} @@ w2 :> {<<a, 2>>} @@ r :> {<<a, 2>>}
MCLeft == <<a, 1>> :> {Absent, Good} @@ <<a, 2>> :> {Absent, Bad}
          @@ <<b, 1>> :> {Good} @@ <<b, 2>> :> {Absent}

Grid == {c1, c2, c3}
Questions == INSTANCE MCDecisions WITH Channels <- Grid

ASSUME Questions!CalendarAssumption

Files == asked = [kind |-> "files"]

MCInit ==
  /\ Init
  /\ \/ asked = [kind |-> "files"] /\ answered = FALSE
     \/ dirs = {} /\ Questions!Init

OfFiles(A) == Files /\ A /\ UNCHANGED <<asked, answered>>
MCNext == OfFiles(Next) \/ (~Files /\ Questions!Answer /\ UNCHANGED vars)
MCSpec == MCInit /\ [][MCNext]_<<vars, asked, answered>> /\ WF_<<vars, asked, answered>>(OfFiles(Calls))

-----------------------------------------------------------------------------
\* The questions, each as MCDecisions has it.
ClocksAreRead == Questions!ClocksAreRead
RequestsCoverOnce == Questions!RequestsCoverOnce
DocumentsReadAlike == Questions!DocumentsReadAlike
WrittenIsReadBack == Questions!WrittenIsReadBack
GuideIsWhole == Questions!GuideIsWhole
=============================================================================
