------------------------------- MODULE Tokens -------------------------------
(* The session of one Schedules Direct account: the token every call carries,  *)
(* kept in the site's bag between runs, asked for when there is none worth     *)
(* sending, and replaced when the service refuses it.  A token is known by the *)
(* login that earned it, and logins are numbered; the one kept is the first.   *)
EXTENDS Integers, FiniteSets, TLC

CONSTANTS
  Calls,
  Slots,         \* of the site's queue
  Limit,         \* SCHEDULES_DIRECT_RETRY.limit
  Runs,          \* bound
  Mishaps, MaxMishaps  \* what may go wrong, and a bound

VARIABLES
  keeps,         \* whether there is a session to keep the token in
  session,          \* the token kept between runs, or 0; and whether its end is far off
  pending,       \* the login whose token is sent, or 0
  asked, issued, \* the logins under way, and how many there were
  refusedTokens, unproven,
  call,          \* the calls of a run, and the token or the login each has
  valid,         \* the tokens the service takes
  wanted,        \* history: why there was a login
  runs, mishaps

vars == <<keeps, session, pending, asked, issued, refusedTokens, unproven, call, valid, wanted,
          runs, mishaps>>

Idle == [st |-> "idle", of |-> 0, retries |-> 0]
NoneHeld == [token |-> 0, worth |-> FALSE]

Init ==
  /\ keeps \in BOOLEAN
  /\ session \in {NoneHeld} \cup (IF keeps THEN [token : {1}, worth : BOOLEAN] ELSE {})
  /\ pending = 0 /\ asked = {} /\ issued = 1
  /\ refusedTokens = {} /\ unproven = {}
  /\ call = [c \in Calls |-> Idle]
  /\ valid = {1} /\ wanted = 1
  /\ runs = 1 /\ mishaps = 0

Wrong(why) == why \in Mishaps /\ mishaps < MaxMishaps /\ mishaps' = mishaps + 1
Working == {c \in Calls : call[c].st \in {"sending", "asking", "sent", "renewing"}}
Service == <<valid, runs, keeps>>

\* A call fails, or is tried again while it may be.
Over(c, how) == call' = [call EXCEPT ![c] = [Idle EXCEPT !.st = how]]
Retried(c) == IF call[c].retries < Limit
                THEN [Idle EXCEPT !.st = "sending", !.retries = call[c].retries + 1]
                ELSE [Idle EXCEPT !.st = "failed"]
Retries(c) == call' = [call EXCEPT ![c] = Retried(c)]

-----------------------------------------------------------------------------
(* ensureToken: the token kept while it is worth sending, else that of the     *)
(* last login, else a login.  Not paced: a call waiting for it keeps its slot. *)
storedToken(bag) == IF bag.worth THEN bag.token ELSE 0
ensured(bag, login) ==
  CASE storedToken(bag) # 0 -> [token |-> storedToken(bag), of |-> login]
    [] storedToken(bag) = 0 /\ login \notin asked \cup {0} -> [token |-> login, of |-> login]
    [] storedToken(bag) = 0 /\ login \in asked -> [token |-> 0, of |-> login]
    [] OTHER -> [token |-> 0, of |-> issued + 1]
Asks(answer) ==
  /\ pending' = answer.of
  /\ asked' = IF answer.of > issued THEN asked \cup {answer.of} ELSE asked
  /\ issued' = IF answer.of > issued THEN answer.of ELSE issued

\* A call begins, in a turn of the queue.
Begin(c) ==
  /\ call[c].st = "idle" /\ Cardinality(Working) < Slots
  /\ call' = [call EXCEPT ![c].st = "sending"]
  /\ UNCHANGED <<Service, session, pending, asked, issued, refusedTokens, unproven, wanted, mishaps>>

\* beforeRequest, of a first try and of any other.
Sends(c) ==
  /\ call[c].st = "sending"
  /\ LET answer == ensured(session, pending)
     IN  /\ Asks(answer)
         /\ call' = [call EXCEPT ![c] =
              IF answer.token # 0 THEN [@ EXCEPT !.st = "sent", !.of = answer.token]
                                  ELSE [@ EXCEPT !.st = "asking", !.of = answer.of]]
  /\ UNCHANGED <<Service, session, refusedTokens, unproven, wanted, mishaps>>

-----------------------------------------------------------------------------
(* authenticate: what it earns is kept, and everything that waited for it goes *)
(* on.  Its end may be too near, or not said, to send it again by what is kept. *)
Awaits(c, login) == call[c].st \in {"asking", "renewing"} /\ call[c].of = login

LoginAnswers(login) ==
  /\ login \in asked
  /\ asked' = asked \ {login} /\ valid' = valid \cup {login}
  /\ \E worth \in BOOLEAN :
       session' = IF keeps THEN [token |-> login, worth |-> worth] ELSE NoneHeld
  /\ unproven' = unproven \cup {t \in {login} : \E c \in Calls :
                                 call[c].st = "renewing" /\ call[c].of = login}
  /\ call' = [c \in Calls |->
       CASE Awaits(c, login) /\ call[c].st = "asking" -> [call[c] EXCEPT !.st = "sent"]
         [] Awaits(c, login) /\ call[c].st = "renewing" -> Retried(c)
         [] OTHER -> call[c]]
  /\ UNCHANGED <<keeps, runs, pending, issued, refusedTokens, wanted, mishaps>>

\* Refused, offline, or not reached: whatever is pending is let go of.
LoginFails(login) ==
  /\ login \in asked /\ Wrong("login")
  /\ asked' = asked \ {login} /\ pending' = 0
  /\ wanted' = wanted + 1
  /\ \E again \in BOOLEAN :
       call' = [c \in Calls |->
         IF Awaits(c, login)
           THEN IF again THEN Retried(c) ELSE [Idle EXCEPT !.st = "failed"]
           ELSE call[c]]
  /\ UNCHANGED <<Service, session, issued, refusedTokens, unproven>>

-----------------------------------------------------------------------------
\* afterResponse: an answer, or a refusal of what was sent.
Answered(c) ==
  /\ call[c].st = "sent" /\ call[c].of \in valid
  /\ unproven' = unproven \ {call[c].of}
  /\ Over(c, "done")
  /\ UNCHANGED <<Service, session, pending, asked, issued, refusedTokens, wanted, mishaps>>

EveryRefusal(sent) == TRUE  \* mutant
FirstRefused(sent) == sent \notin refusedTokens

(* The first refusal of a token forgets it, wherever it is kept; any other has *)
(* what replaced it.                                                           *)
Refused(c) ==
  LET sent == call[c].of
      first == FirstRefused(sent)
      answer == IF first THEN ensured(NoneHeld, 0) ELSE ensured(session, pending)
  IN  /\ call[c].st = "sent" /\ sent \notin valid /\ sent \notin unproven
      /\ refusedTokens' = refusedTokens \cup {sent}
      /\ session' = IF first THEN NoneHeld ELSE session
      /\ Asks(answer)
      /\ unproven' = unproven \cup ({answer.token} \ {0, sent})
      /\ call' = [call EXCEPT ![c] =
           CASE answer.token = 0 -> [@ EXCEPT !.st = "renewing", !.of = answer.of]
             [] answer.token = sent -> [Idle EXCEPT !.st = "failed"]
             [] OTHER -> Retried(c)]
      /\ UNCHANGED <<Service, wanted, mishaps>>

\* A token earned here that has not worked since: an account that cannot authenticate.
GivesUp(c) ==
  /\ call[c].st = "sent" /\ call[c].of \notin valid /\ call[c].of \in unproven
  /\ Over(c, "failed")
  /\ UNCHANGED <<Service, session, pending, asked, issued, refusedTokens, unproven, wanted, mishaps>>

\* Busy, or lost on the way, so it is sent again; or called off where it stands.
Busy(c) ==
  /\ call[c].st = "sent" /\ Wrong("busy") /\ Retries(c)
  /\ UNCHANGED <<Service, session, pending, asked, issued, refusedTokens, unproven, wanted>>
Dropped(c) ==
  /\ c \in Working /\ Wrong("drop") /\ Over(c, "failed")
  /\ UNCHANGED <<Service, session, pending, asked, issued, refusedTokens, unproven, wanted>>

-----------------------------------------------------------------------------
\* The service lets go of a token, and what is kept comes near its end.
Expires ==
  /\ valid # {} /\ Wrong("expire") /\ valid' = {}
  /\ UNCHANGED <<keeps, session, pending, asked, issued, refusedTokens, unproven, call,
                 wanted, runs>>
Nears ==
  /\ session.worth /\ Wrong("near") /\ session' = [session EXCEPT !.worth = FALSE]
  /\ wanted' = wanted + 1
  /\ UNCHANGED <<Service, pending, asked, issued, refusedTokens, unproven, call>>

\* Another run, with what the bag kept.
Rerun ==
  /\ Working = {} /\ runs < Runs /\ asked = {}
  /\ runs' = runs + 1 /\ call' = [c \in Calls |-> Idle]
  /\ pending' = 0 /\ refusedTokens' = {} /\ unproven' = {}
  /\ wanted' = wanted + Cardinality(refusedTokens) + 1
  /\ UNCHANGED <<keeps, session, asked, issued, valid, mishaps>>

Works == \E c \in Calls : Begin(c) \/ Sends(c) \/ Answered(c) \/ Refused(c) \/ GivesUp(c)
Logs == \E login \in asked : LoginAnswers(login)
Next ==
  \/ Works \/ Logs
  \/ \E c \in Calls : Busy(c) \/ Dropped(c)
  \/ \E login \in asked : LoginFails(login)
  \/ Expires \/ Nears \/ Rerun
Progress == Works \/ Logs
Spec == Init /\ [][Next]_vars /\ WF_vars(Progress)

-----------------------------------------------------------------------------
\* A login is made for a run with no token worth sending, for a token refused, for
\* one near its end, or for a login that failed, and once for each, however many
\* calls were carrying it: client.ts:344 has it of the refused ones.
LoginsHaveReason == issued - 1 <= wanted + Cardinality(refusedTokens)
\* And no call is sent with a token refused before; nor does a call that may be
\* tried again fail for its token, or for a login that answered, unless another
\* token was refused in the run: client.ts:416-419 has it that the run would fail where
\* one login would have carried it.
RenewedOnce ==
  [][/\ LoginsHaveReason'
     /\ \A c \in Calls : call'[c].st = "sent" /\ call[c].st # "sent" =>
          call'[c].of \notin refusedTokens
     /\ \A c \in Calls : call[c].st \in {"sent", "renewing"} /\ call'[c].st = "failed"
                         /\ mishaps' = mishaps /\ call[c].retries < Limit =>
          \E token \in refusedTokens : token # call[c].of]_vars

\* Every call of a run ends, though logins take no turn of the queue.
AllOver == \A c \in Calls : call[c].st \in {"done", "failed"}
CallsEnd == <>[]AllOver
=============================================================================
