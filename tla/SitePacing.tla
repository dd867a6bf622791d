----------------------------- MODULE SitePacing -----------------------------
(***************************************************************************)
(* sitePacing: the request queue of one site and the holds a slow-down of  *)
(* the source (a 429 or a 503) puts on it, with its timer, its concurrency *)
(* that adapts, a cancel, and the site letting go of it all.               *)
(*                                                                         *)
(* Time is counted in ticks.  The rate limit is p-queue's and not modelled.*)
(***************************************************************************)
EXTENDS Integers

CONSTANTS
  Ceiling,      \* the concurrency the site is configured with
  MaxMs,        \* backoff.maxMs, in ticks
  RecoverAfter, \* RECOVER_AFTER
  MaxRequests,  \* bound: requests the site asks for
  MaxTime,      \* bound: when the last hold may end
  NoTimer

PacingAssumption ==
  /\ Ceiling \in Nat \ {0} /\ RecoverAfter \in Nat \ {0}
  /\ MaxMs \in Nat /\ MaxRequests \in Nat /\ MaxTime \in Nat \ {0}
  /\ NoTimer \notin Int

VARIABLES
  now,
  asked,        \* requests asked for
  waiting,      \* of those, the ones the queue holds
  inflight,     \* and the ones it has started
  paused,       \* queue.isPaused
  concurrency,  \* queue.concurrency
  clean,        \* responses since a slow-down, or since one was given back
  holdingUntil, \* 0 when not holding
  timer,        \* when the timer is due
  unref,        \* whether the timer keeps the process alive no longer
  disposed,
  aborted,
  promised,     \* the latest moment the source has been promised silence to
  floor         \* the concurrency the hold under way began with

hold == <<paused, holdingUntil, timer, unref, promised>>
vars == <<now, asked, waiting, inflight, hold, concurrency, clean, disposed, aborted, floor>>

Init ==
  /\ now = 1 /\ asked = 0 /\ waiting = 0 /\ inflight = 0
  /\ paused = FALSE /\ concurrency = Ceiling /\ clean = 0
  /\ holdingUntil = 0 /\ timer = NoTimer /\ unref = FALSE
  /\ disposed = FALSE /\ aborted = FALSE
  /\ promised = 0 /\ floor = Ceiling

Ask ==
  /\ asked < MaxRequests /\ ~aborted
  /\ asked' = asked + 1 /\ waiting' = waiting + 1
  /\ UNCHANGED <<now, inflight, hold, concurrency, clean, disposed, aborted, floor>>

Send ==
  /\ waiting > 0 /\ ~paused /\ inflight < concurrency
  /\ waiting' = waiting - 1 /\ inflight' = inflight + 1
  /\ UNCHANGED <<now, asked, hold, concurrency, clean, disposed, aborted, floor>>

Holding == now < holdingUntil

ShorterHoldToo(until) == FALSE                                      \* mutant
\* A longer hold already covers this one.
Covered(until) == until <= holdingUntil

StaysReffed(until) == timer' = until /\ unref' = FALSE              \* mutant
SetTimer(until) == timer' = until /\ unref' = disposed

(* hold(ms): stop starting requests until then.                            *)
HoldUntil(until) ==
  IF Covered(until) THEN UNCHANGED hold
  ELSE /\ holdingUntil' = until
       /\ paused' = TRUE
       /\ SetTimer(until)
       /\ promised' = IF until > promised THEN until ELSE promised

\* Once per hold: requests in flight together are told off together.
Slows == concurrency > 1 /\ ~Holding

Halved == IF concurrency \div 2 > 1 THEN concurrency \div 2 ELSE 1

(* A 429 or a 503, and the wait it asks for, or the fallback.              *)
SlowDown(ms) ==
  /\ inflight > 0 /\ inflight' = inflight - 1
  /\ now + ms <= MaxTime
  /\ clean' = 0
  /\ concurrency' = IF Slows THEN Halved ELSE concurrency
  /\ floor' = IF Holding THEN floor ELSE concurrency'
  /\ HoldUntil(now + ms)
  /\ UNCHANGED <<now, asked, waiting, disposed, aborted>>

LostSome == concurrency < Ceiling

(* A response that is fine: one more of the concurrency lost may be back.  *)
Succeed ==
  /\ inflight > 0 /\ inflight' = inflight - 1
  /\ IF ~LostSome THEN UNCHANGED <<clean, concurrency>>
     ELSE IF clean + 1 >= RecoverAfter THEN clean' = 0 /\ concurrency' = concurrency + 1
     ELSE clean' = clean + 1 /\ UNCHANGED concurrency
  /\ UNCHANGED <<now, asked, waiting, hold, disposed, aborted, floor>>

(* Any other answer, or none.                                              *)
Fail ==
  /\ inflight > 0 /\ inflight' = inflight - 1
  /\ UNCHANGED <<now, asked, waiting, hold, concurrency, clean, disposed, aborted, floor>>

(* The timer: the hold is over and the queue starts again.                 *)
Release ==
  /\ timer # NoTimer /\ now >= timer
  /\ timer' = NoTimer /\ holdingUntil' = 0 /\ paused' = FALSE
  /\ UNCHANGED <<now, asked, waiting, inflight, unref, promised, concurrency, clean, disposed,
                 aborted, floor>>

Tick ==
  /\ now < MaxTime /\ now' = now + 1
  /\ UNCHANGED <<asked, waiting, inflight, hold, concurrency, clean, disposed, aborted, floor>>

(* The run's signal: the hold is dropped and the queue left as it is, then *)
(* p-queue drops every task that waits.  A site that has let go of its     *)
(* pacing listens no more.                                                 *)
Cancel ==
  /\ ~aborted /\ aborted' = TRUE
  /\ timer' = IF disposed THEN timer ELSE NoTimer
  /\ holdingUntil' = IF disposed THEN holdingUntil ELSE 0
  /\ waiting' = 0
  /\ UNCHANGED <<now, asked, inflight, paused, unref, promised, concurrency, clean, disposed,
                 floor>>

DisposeEndsHold ==                                                  \* mutant
  /\ ~disposed /\ disposed' = TRUE
  /\ timer' = NoTimer
  /\ UNCHANGED <<now, asked, waiting, inflight, paused, holdingUntil, unref, promised,
                 concurrency, clean, aborted, floor>>
(* dispose: a hold under way still ends, but keeps nothing alive for it.   *)
Dispose ==
  /\ ~disposed /\ disposed' = TRUE
  /\ unref' = (timer # NoTimer)
  /\ UNCHANGED <<now, asked, waiting, inflight, paused, holdingUntil, timer, promised,
                 concurrency, clean, aborted, floor>>

Next ==
  \/ Ask \/ Send \/ (\E ms \in 0..MaxMs : SlowDown(ms)) \/ Succeed \/ Fail
  \/ Release \/ Tick \/ Cancel \/ Dispose

Spec == Init /\ [][Next]_vars

Settles == Succeed \/ Fail
\* Time passes, a timer due fires, the queue starts what it can, and a response
\* or a timeout comes.
FairSpec ==
  Spec /\ WF_vars(Tick) /\ WF_vars(Release) /\ SF_vars(Send) /\ WF_vars(Settles)

-----------------------------------------------------------------------------
\* Every variable keeps its type, and the concurrency stays within what the
\* site was configured with.
TypeOK ==
  /\ now \in 1..MaxTime
  /\ asked \in 0..MaxRequests /\ waiting \in 0..MaxRequests /\ inflight \in 0..Ceiling
  /\ paused \in BOOLEAN /\ disposed \in BOOLEAN /\ aborted \in BOOLEAN /\ unref \in BOOLEAN
  /\ concurrency \in 1..Ceiling /\ floor \in 1..Ceiling
  /\ clean \in 0..(RecoverAfter - 1)
  /\ holdingUntil \in 0..MaxTime /\ promised \in 0..MaxTime
  /\ timer = NoTimer \/ timer \in 0..MaxTime

\* While any slow-down's wait stands nothing is sent, however the holds of
\* responses in flight together overlap: a shorter one never cuts a longer, and
\* a cancel in the middle of one sends nothing, then or later.
SendsInTurn == inflight' > inflight => now >= promised /\ ~aborted'
SentInTurn == [][SendsInTurn]_vars

\* A paused queue has a timer that will start it again, unless the run was
\* cancelled: no request waits for ever behind a hold, not even one sent after
\* the site let go of its pacing, whose timer keeps no process alive; and a
\* violation told to several requests in flight together halves the concurrency
\* once.
HoldFits ==
  /\ paused /\ ~aborted => timer # NoTimer
  /\ disposed /\ timer # NoTimer => unref
  /\ Holding => concurrency >= floor

\* Every request asked for is sent, or dropped by a cancel, in the end.
AskedIsSent == waiting > 0 ~> waiting = 0
=============================================================================
