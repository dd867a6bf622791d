-------------------------- MODULE RequestPipeline ---------------------------
(***************************************************************************)
(* One turn of a site that makes requests: SiteRun.#work from the plan on, *)
(* #requestPipeline, #store and the parse, through the site's request      *)
(* queue, its pipelines and the slots of the run's local work.             *)
(*                                                                         *)
(* Pacing (holds, rate limits) is SitePacing's, and how a parse gives its  *)
(* slot up and takes it back is LocalSlot's: here a parse that is away     *)
(* holds none, and needs one again before it goes on.                      *)
(***************************************************************************)
EXTENDS Integers, FiniteSetsExt

CONSTANTS
  Requests,    \* the planned requests, in the order they were planned
  PairsOf,     \* the channel-days each is for
  Concurrency, \* the site's concurrency
  LocalSlots,  \* slots of the run's local work
  MaxPaced     \* bound: requests one parse asks for

RequestAssumption ==
  /\ Requests \subseteq Nat /\ IsFiniteSet(Requests)
  /\ \A r \in Requests : IsFiniteSet(PairsOf[r])
  /\ \A r, s \in Requests : r # s => PairsOf[r] \cap PairsOf[s] = {}
  /\ Concurrency \in Nat \ {0} /\ LocalSlots \in Nat \ {0} /\ MaxPaced \in Nat

ChannelDays == UNION {PairsOf[r] : r \in Requests}
RequestOf(p) == CHOOSE r \in Requests : p \in PairsOf[r]

VARIABLES
  request, \* where each pipeline is
  sent,    \* whether its task is on the request queue: "no", "waits", "runs"
  pair,    \* where each channel-day of a response is
  paced,   \* requests each parse has asked for
  held,    \* channel-days an entry is cached for
  fresh,   \* channel-days this run has written
  said,    \* what was counted of each channel-day
  aborted

vars == <<request, sent, pair, paced, held, fresh, said, aborted>>

RequestStates == {"planned", "sending", "storing", "over", "dropped"}
PairStates == {"unparsed", "slot", "parsing", "asks", "asking", "returning",
               "writing", "over"}
Fields == {"fetched", "failed", "unchanged"}

Init ==
  /\ request = [r \in Requests |-> "planned"]
  /\ sent = [r \in Requests |-> "no"]
  /\ pair = [p \in ChannelDays |-> "unparsed"]
  /\ paced = [p \in ChannelDays |-> 0]
  /\ held \in SUBSET ChannelDays
  /\ fresh = {}
  /\ said = [p \in ChannelDays |-> [f \in Fields |-> 0]]
  /\ aborted = FALSE

-----------------------------------------------------------------------------
InHand == {r \in Requests : request[r] \in {"sending", "storing"}}
PairsIn(S) == {p \in ChannelDays : pair[p] \in S}

HeldThroughParse ==                                                 \* mutant
  Cardinality({r \in Requests : sent[r] = "runs" \/ request[r] = "storing"})
    + Cardinality(PairsIn({"asking"}))
\* The request queue's slots, each held for one request and nothing else.
Sending == Cardinality({r \in Requests : sent[r] = "runs"}) + Cardinality(PairsIn({"asking"}))

SlotsUsed == Cardinality(PairsIn({"parsing", "writing"}))

Count(field, S) ==
  [p \in ChannelDays |-> IF p \in S THEN [said[p] EXCEPT ![field] = @ + 1] ELSE said[p]]

\* #keep: what is cached stands; with nothing cached it is a failure.
Keep(S) ==
  [p \in ChannelDays |-> IF p \notin S THEN said[p]
                   ELSE IF p \in held THEN [said[p] EXCEPT !["unchanged"] = @ + 1]
                   ELSE [said[p] EXCEPT !["failed"] = @ + 1]]

\* What #pipelines bounds: the responses a site has in hand at once.
HandFree == Cardinality(InHand) < Concurrency

(* A pipeline's turn, in the order of the plan: one the cancel came before *)
(* is not made, and counts nothing.                                        *)
Begin(r) ==
  /\ request[r] = "planned" /\ HandFree
  /\ \A s \in Requests : s < r => request[s] # "planned"
  /\ request' = [request EXCEPT ![r] = IF aborted THEN "dropped" ELSE "sending"]
  /\ sent' = [sent EXCEPT ![r] = IF aborted THEN "no" ELSE "waits"]
  /\ UNCHANGED <<pair, paced, held, fresh, said, aborted>>

(* The request queue starts a planned request: after every request a parse *)
(* is waiting for, which were added ahead of it.                           *)
Send(r) ==
  /\ sent[r] = "waits" /\ ~aborted /\ Sending < Concurrency
  /\ PairsIn({"asks"}) = {}
  /\ sent' = [sent EXCEPT ![r] = "runs"]
  /\ UNCHANGED <<request, pair, paced, held, fresh, said, aborted>>

(* The response: each channel-day of it asks for a slot to be parsed in.   *)
Answer(r) ==
  /\ sent[r] = "runs" /\ ~aborted
  /\ sent' = [sent EXCEPT ![r] = "no"]
  /\ request' = [request EXCEPT ![r] = "storing"]
  /\ pair' = [p \in ChannelDays |-> IF p \in PairsOf[r] THEN "slot" ELSE pair[p]]
  /\ UNCHANGED <<paced, held, fresh, said, aborted>>

(* A 304, or a site that says the same of its own judgement.               *)
AnswerUnchanged(r) ==
  /\ sent[r] = "runs" /\ ~aborted
  /\ sent' = [sent EXCEPT ![r] = "no"]
  /\ request' = [request EXCEPT ![r] = "over"]
  /\ said' = Keep(PairsOf[r])
  /\ UNCHANGED <<pair, paced, held, fresh, aborted>>

(* A request that failed fails every channel-day it was for.               *)
AnswerFails(r) ==
  /\ sent[r] = "runs" /\ ~aborted
  /\ sent' = [sent EXCEPT ![r] = "no"]
  /\ request' = [request EXCEPT ![r] = "over"]
  /\ said' = Count("failed", PairsOf[r])
  /\ UNCHANGED <<pair, paced, held, fresh, aborted>>

-----------------------------------------------------------------------------
(* #store: one channel-day, on a slot of the run's local work.             *)
StartParse(p) ==
  /\ pair[p] = "slot" /\ ~aborted /\ SlotsUsed < LocalSlots
  /\ PairsIn({"returning"}) = {}
  /\ pair' = [pair EXCEPT ![p] = "parsing"]
  /\ UNCHANGED <<request, sent, paced, held, fresh, said, aborted>>

(* The parse asks for a request of its own, and lets go of its slot.  Once *)
(* cancelled, the queue refuses it.                                        *)
AskPaced(p) ==
  /\ pair[p] = "parsing" /\ ~aborted /\ paced[p] < MaxPaced
  /\ pair' = [pair EXCEPT ![p] = "asks"]
  /\ paced' = [paced EXCEPT ![p] = @ + 1]
  /\ UNCHANGED <<request, sent, held, fresh, said, aborted>>

SendPaced(p) ==
  /\ pair[p] = "asks" /\ ~aborted /\ Sending < Concurrency
  /\ pair' = [pair EXCEPT ![p] = "asking"]
  /\ UNCHANGED <<request, sent, paced, held, fresh, said, aborted>>

(* Answered or failed, the parse comes back for a slot.                    *)
PacedAnswered(p) ==
  /\ pair[p] = "asking" /\ ~aborted
  /\ pair' = [pair EXCEPT ![p] = "returning"]
  /\ UNCHANGED <<request, sent, paced, held, fresh, said, aborted>>

(* ... ahead of any parse that has not started.                            *)
Return(p) ==
  /\ pair[p] = "returning" /\ ~aborted /\ SlotsUsed < LocalSlots
  /\ pair' = [pair EXCEPT ![p] = "parsing"]
  /\ UNCHANGED <<request, sent, paced, held, fresh, said, aborted>>

(* #persist: a run cancelled while the parse ran writes nothing.           *)
StartWrite(p) ==
  /\ pair[p] = "parsing" /\ ~aborted
  /\ pair' = [pair EXCEPT ![p] = "writing"]
  /\ UNCHANGED <<request, sent, paced, held, fresh, said, aborted>>

(* The write of a first emission, which a request's always is.  One under  *)
(* way when the run is cancelled is finished, and counted.                 *)
WriteLands(p) ==
  /\ pair[p] = "writing"
  /\ pair' = [pair EXCEPT ![p] = "over"]
  /\ fresh' = fresh \cup {p}
  /\ said' = Count("fetched", {p})
  /\ UNCHANGED <<request, sent, paced, held, aborted>>

(* The parse throws, a request of its own failing perhaps, the cancel is   *)
(* what it finds on its way to the write, or the store refuses.            *)
StoreRefuses(p) ==
  /\ pair[p] \in {"parsing", "writing"}
  /\ pair' = [pair EXCEPT ![p] = "over"]
  /\ said' = Count("failed", {p})
  /\ UNCHANGED <<request, sent, paced, held, fresh, aborted>>

Stored(r) == request[r] = "storing" /\ \A p \in PairsOf[r] : pair[p] = "over"

(* Every channel-day of the response settled: the pipeline returns.        *)
Finish(r) ==
  /\ Stored(r)
  /\ request' = [request EXCEPT ![r] = "over"]
  /\ UNCHANGED <<sent, pair, paced, held, fresh, said, aborted>>

-----------------------------------------------------------------------------
AbortRejectsRunning ==                                              \* mutant
  LET cut == {r \in Requests : sent[r] # "no"}
      let_go == PairsIn({"slot", "asks", "asking", "returning"}) IN
  /\ ~aborted /\ aborted' = TRUE
  /\ sent' = [r \in Requests |-> "no"]
  /\ request' = [r \in Requests |-> IF r \in cut THEN "over" ELSE request[r]]
  /\ pair' = [p \in ChannelDays |-> IF p \in let_go THEN "over" ELSE pair[p]]
  /\ said' = Count("failed", let_go \cup PairsIn({"parsing", "writing"})
                               \cup UNION {PairsOf[r] : r \in cut})
  /\ UNCHANGED <<paced, held, fresh>>
(* The run's signal.  A request on the queue, waiting or running, rejects  *)
(* at once and fails what it was for; a parse waiting for a slot or for a  *)
(* request of its own rejects and fails its channel-day.  A parse or a     *)
(* write under way goes on, and the pipeline waits for it.                 *)
Abort ==
  LET cut == {r \in Requests : sent[r] # "no"}
      let_go == PairsIn({"slot", "asks", "asking", "returning"}) IN
  /\ ~aborted /\ aborted' = TRUE
  /\ sent' = [r \in Requests |-> "no"]
  /\ request' = [r \in Requests |-> IF r \in cut THEN "over" ELSE request[r]]
  /\ pair' = [p \in ChannelDays |-> IF p \in let_go THEN "over" ELSE pair[p]]
  /\ said' = Count("failed", let_go \cup UNION {PairsOf[r] : r \in cut})
  /\ UNCHANGED <<paced, held, fresh>>

\* Everything but the cancel.  Each step takes a request, a parse or a write one
\* further, so a turn makes finitely many.
Progress ==
  \/ \E r \in Requests :
       Begin(r) \/ Send(r) \/ Answer(r) \/ AnswerUnchanged(r) \/ AnswerFails(r) \/ Finish(r)
  \/ \E p \in ChannelDays :
       \/ StartParse(p) \/ AskPaced(p) \/ SendPaced(p) \/ PacedAnswered(p) \/ Return(p)
       \/ StartWrite(p) \/ WriteLands(p) \/ StoreRefuses(p)

Next == Progress \/ Abort

Spec == Init /\ [][Next]_vars

\* The queues start what they can, the source answers or its request times out,
\* a parse ends and a store answers.
FairSpec == Spec /\ WF_vars(Progress)

-----------------------------------------------------------------------------
Over == \A r \in Requests : request[r] \in {"over", "dropped"}
Outcomes(p) == said[p]["fetched"] + said[p]["failed"] + said[p]["unchanged"]

\* Every variable keeps its type; no channel-day is counted twice in one field.
TypeOK ==
  /\ request \in [Requests -> RequestStates]
  /\ sent \in [Requests -> {"no", "waits", "runs"}]
  /\ pair \in [ChannelDays -> PairStates]
  /\ paced \in [ChannelDays -> 0..MaxPaced]
  /\ held \in SUBSET ChannelDays /\ fresh \in SUBSET ChannelDays
  /\ said \in [ChannelDays -> [Fields -> 0..1]]
  /\ aborted \in BOOLEAN

\* A channel-day is counted once its part of the turn is over and not before,
\* and only once, however the request, its parse, its write and a cancel meet:
\* the ones a cancel kept from being asked for are the only ones not counted.
\* `fetched` counts those whose entry this run wrote, and none is kept as
\* unchanged with nothing cached.
CountedOnce ==
  /\ \A r \in Requests : \A p \in PairsOf[r] :
       Outcomes(p) =
         (CASE request[r] \in {"planned", "sending", "dropped"} -> 0
            [] request[r] = "storing" -> IF pair[p] = "over" THEN 1 ELSE 0
            [] request[r] = "over" -> 1)
  /\ \A p \in ChannelDays : /\ said[p]["fetched"] = 1 <=> p \in fresh
                      /\ said[p]["unchanged"] > 0 => p \in held

\* The turn ends: no parse waits for the slot its own response came through.
TurnEnds == <>Over
=============================================================================
