------------------------------- MODULE MCSite -------------------------------
(* A site's turn, each way there is of having one: a document streamed to it,  *)
(* requests it makes one at a time, and a thread of its own it has it in.      *)
(* Which of the three a behaviour is of is chosen at the start.                *)
EXTENDS StreamPipeline, TLC

CONSTANTS
  a, b, c, d, x,
  Labels, Slots, MaxCount,           \* of a thread
  Requests, PairsOf, Cached,         \* of a turn of requests, with what it may find cached
  Concurrency, LocalSlots, MaxPaced

VARIABLES
  which,
  request, sent, pair, paced, kept, fresh, told, stopped,
  memory, site, slotted, call, port, alive, turn, going, heard, run, counted

MCPairs == {a, b}
MCOne == {a}
MCOthers == {x}
MCNobody == {}

\* Three requests, of one or two channel-days.
MCRequests == 1..3
MCPairsOf == 1 :> {a, b} @@ 2 :> {c} @@ 3 :> {d}
MCCached == {{}, {a, c}}
Pipeline == INSTANCE RequestPipeline WITH held <- kept, said <- told, aborted <- stopped
Thread == INSTANCE SiteThread

ASSUME PipelineAssumption == Pipeline!RequestAssumption
ASSUME ThreadAssumption == Thread!ThreadAssumption

ofPipeline == <<request, sent, pair, paced, kept, fresh, told, stopped>>
ofThread == <<memory, site, slotted, call, port, alive, turn, going, heard, run, counted>>
all == <<which, vars, ofPipeline, ofThread>>

MCInit ==
  /\ which \in {"document", "requests", "thread"}
  /\ Init /\ Pipeline!Init /\ Thread!Init
  /\ which # "requests" => kept = {}
  /\ which = "requests" => kept \in Cached
  /\ which # "document" => slots = 1 /\ cache = [p \in Pairs |-> NoEntry]

OfDocument(A) == which = "document" /\ A /\ UNCHANGED <<which, ofPipeline, ofThread>>
OfRequests(A) == which = "requests" /\ A /\ UNCHANGED <<which, vars, ofThread>>
InThread(A) == which = "thread" /\ A /\ UNCHANGED <<which, vars, ofPipeline>>
MCNext == OfDocument(Next) \/ OfRequests(Pipeline!Next) \/ InThread(Thread!Next)

MCSpec ==
  /\ MCInit /\ [][MCNext]_all
  /\ WF_all(OfDocument(Begin)) /\ WF_all(OfDocument(Ending)) /\ WF_all(OfDocument(Settling))
  /\ WF_all(OfDocument(OthersRelease))
  /\ SF_all(OfDocument(\E w \in Writes : StartWrite(w)))
  /\ WF_all(OfDocument(\E w \in Writes : Storing(w)))
  /\ WF_all(OfRequests(Pipeline!Progress)) /\ WF_all(InThread(Thread!GoesOn))

-----------------------------------------------------------------------------
\* A channel-day of a turn is counted once, as RequestPipeline has it; and what
\* a thread counts is said once and adds up, as SiteThread has it.
CountedOnce == Pipeline!CountedOnce
SaidOnce == Thread!SaidOnce
RequestsAddUp == Thread!RequestsAddUp
\* A pass ends with every write it queued, the failed never leaving those
\* chained behind them waiting; so does a turn of requests, no parse of it
\* waiting for the slot its own response came through; and both sides of a
\* thread do, whichever died.
EverythingEnds ==
  /\ <>[](CASE which = "document" -> AllOver
            [] which = "requests" -> Pipeline!Over
            [] which = "thread" -> TRUE)
  /\ []<>(which = "thread" => Thread!BothEnded)
=============================================================================
