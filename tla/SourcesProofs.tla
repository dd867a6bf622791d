--------------------------- MODULE SourcesProofs ----------------------------
(* What sites ask for and keep, each part for any values of its constants.  Of  *)
(* the token of an account: a login is made for a reason and once for each, and *)
(* no call carries a token that was refused.  Of a database that processes keep *)
(* channel-days in: what was written stays, and a listing hands out every key   *)
(* once.  Of the channel list of a site: it is of its time.  Of a program run as  *)
(* a source: what it was stopped at is not taken for all it had to say.        *)
EXTENDS MCSources, FiniteSetTheorems, SequenceTheorems, WellFoundedInduction, TLAPS

-----------------------------------------------------------------------------
(* The token of an account.                                                    *)

CallSteps == {"idle", "sending", "asking", "sent", "renewing", "done", "failed"}
AccountShape ==
  /\ issued \in Nat /\ pending \in 0 .. issued /\ wanted \in Nat
  /\ asked \subseteq 1 .. issued /\ refusedTokens \subseteq 1 .. issued
  /\ session.worth => session.token \in 1 .. issued
  /\ call \in [Calls -> [st : CallSteps, of : 0 .. issued, retries : Nat]]

\* There is a reason left over for the login that is made while none is pending.
AReasonIsLeft ==
  issued - 1 + (IF pending = 0 THEN 1 ELSE 0) <= wanted + Cardinality(refusedTokens)

\* What may be sent next was not refused, and what is still asked for is neither
\* kept nor sent.
NoneRefused ==
  /\ pending \notin refusedTokens /\ asked \cap refusedTokens = {}
  /\ session.worth => session.token \notin refusedTokens \cup asked
  /\ \A c \in Calls : call[c].st = "sent" => call[c].of \in (1 .. issued) \ asked

AccountInv == AccountShape /\ AReasonIsLeft /\ NoneRefused

-----------------------------------------------------------------------------
LEMMA SameCount == \A S : Account!Cardinality(S) = Cardinality(S)
BY DEF Account!Cardinality, Cardinality

LEMMA RetriedIs ==
  ASSUME NEW c \in Calls
  PROVE  Account!Retried(c) \in {[st |-> "sending", of |-> 0, retries |-> call[c].retries + 1],
                                 [st |-> "failed", of |-> 0, retries |-> 0]}
BY DEF Account!Retried, Account!Idle

LEMMA RefusedAreFinite ==
  ASSUME AccountShape
  PROVE  IsFiniteSet(refusedTokens) /\ Cardinality(refusedTokens) \in Nat
<1>1. IsFiniteSet(1 .. issued)
  BY FS_Interval DEF AccountShape
<1> QED BY <1>1, FS_Subset, FS_CardinalityType DEF AccountShape

LEMMA AccountInit == Account!Init => AccountInv
<1> SUFFICES ASSUME Account!Init PROVE AccountInv
  OBVIOUS
<1>1. /\ issued = 1 /\ pending = 0 /\ wanted = 1 /\ asked = {} /\ refusedTokens = {}
      /\ call = [c \in Calls |-> Account!Idle]
  BY DEF Account!Init
<1>2. session.worth => session.token = 1
  BY DEF Account!Init, Account!NoneHeld
<1>3. AccountShape
  BY <1>1, <1>2 DEF AccountShape, Account!Idle, CallSteps
<1>4. AReasonIsLeft
  BY <1>1, FS_EmptySet DEF AReasonIsLeft
<1>5. NoneRefused
  BY <1>1, <1>2 DEF NoneRefused, Account!Idle
<1> QED BY <1>3, <1>4, <1>5 DEF AccountInv

\* What ensureToken comes to: a token not refused, that no one is asking for, or a
\* login, which is a new one only where none is pending.
LEMMA WhatIsEnsured ==
  ASSUME AccountInv, NEW what, NEW login \in {0, pending},
         what = session \/ what = Account!NoneHeld
  PROVE  LET answer == Account!ensured(what, login)
         IN  /\ answer.token \in 0 .. issued /\ answer.token \notin refusedTokens \ {0}
             /\ answer.token # 0 => answer.token \notin asked
             /\ answer.of \in {login, issued + 1}
             /\ answer.of = issued + 1 => login = 0 /\ answer.token = 0
             /\ answer.token = 0 => answer.of # 0
<1>1. Account!storedToken(what) \in 0 .. issued
  BY DEF AccountInv, AccountShape, Account!storedToken, Account!NoneHeld
<1>2. Account!storedToken(what) # 0 => Account!storedToken(what) \notin refusedTokens \cup asked
  BY DEF AccountInv, NoneRefused, Account!storedToken, Account!NoneHeld
<1>3. issued \in Nat /\ login \in 0 .. issued /\ login \notin refusedTokens \ {0}
  BY DEF AccountInv, AccountShape, NoneRefused
<1>4. CASE Account!storedToken(what) # 0
  <2>1. Account!ensured(what, login) = [token |-> Account!storedToken(what), of |-> login]
    BY <1>4 DEF Account!ensured
  <2> QED BY <1>1, <1>2, <1>3, <1>4, <2>1
<1>5. CASE Account!storedToken(what) = 0 /\ login \notin asked \cup {0}
  <2>1. Account!ensured(what, login) = [token |-> login, of |-> login]
    BY <1>5 DEF Account!ensured
  <2> QED BY <1>3, <1>5, <2>1
<1>6. CASE Account!storedToken(what) = 0 /\ login \in asked
  <2>1. Account!ensured(what, login) = [token |-> 0, of |-> login]
    BY <1>6 DEF Account!ensured
  <2>2. login # 0
    BY <1>6 DEF AccountInv, AccountShape
  <2> QED BY <1>3, <1>6, <2>1, <2>2
<1>7. CASE Account!storedToken(what) = 0 /\ login = 0 /\ login \notin asked
  <2>1. Account!ensured(what, login) = [token |-> 0, of |-> issued + 1]
    BY <1>7 DEF Account!ensured
  <2> QED BY <1>3, <1>7, <2>1
<1> QED BY <1>4, <1>5, <1>6, <1>7

\* A login begins: the moves of what is pending, asked for and issued.
LEMMA AsksKeep ==
  ASSUME AccountInv, NEW what, NEW login \in {0, pending},
         what = session \/ what = Account!NoneHeld,
         Account!Asks(Account!ensured(what, login))
  PROVE  /\ issued' \in {issued, issued + 1}
         /\ pending' \in 0 .. issued' /\ pending' \notin refusedTokens
         /\ asked' \subseteq 1 .. issued' /\ asked' \cap refusedTokens = {}
         /\ asked' \subseteq asked \cup {issued + 1}
         /\ issued' = issued + 1 => login = 0 /\ pending' # 0
         /\ issued' = issued => pending' = login
         /\ Account!ensured(what, login).of \in 0 .. issued'
<1> DEFINE answer == Account!ensured(what, login)
<1>1. /\ answer.of \in {login, issued + 1}
      /\ answer.of = issued + 1 => login = 0
  BY WhatIsEnsured
<1>2. /\ pending' = answer.of
      /\ asked' = IF answer.of > issued THEN asked \cup {answer.of} ELSE asked
      /\ issued' = IF answer.of > issued THEN answer.of ELSE issued
  BY DEF Account!Asks
<1>3. /\ issued \in Nat /\ pending \in 0 .. issued /\ asked \subseteq 1 .. issued
      /\ refusedTokens \subseteq 1 .. issued /\ asked \cap refusedTokens = {}
      /\ pending \notin refusedTokens
  BY DEF AccountInv, AccountShape, NoneRefused
<1> HIDE DEF answer
<1>4. CASE answer.of = issued + 1
  <2>1. pending' = issued + 1 /\ asked' = asked \cup {issued + 1} /\ issued' = issued + 1
    BY <1>2, <1>3, <1>4
  <2>2. issued + 1 \notin refusedTokens
    BY <1>3
  <2> QED BY <1>1, <1>3, <1>4, <2>1, <2>2 DEF answer
<1>5. CASE answer.of = login /\ answer.of # issued + 1
  <2>1. pending' = login /\ asked' = asked /\ issued' = issued
    BY <1>2, <1>3, <1>5
  <2>2. 0 \notin refusedTokens
    BY <1>3
  <2> QED BY <1>3, <1>5, <2>1, <2>2 DEF answer
<1> QED BY <1>1, <1>4, <1>5

RenewedStep ==
  \A c \in Calls : call'[c].st = "sent" /\ call[c].st # "sent" => call'[c].of \notin refusedTokens

\* A step that leaves the logins alone, and sends nothing.
LEMMA CallsMove ==
  ASSUME AccountInv, UNCHANGED <<session, pending, asked, issued, refusedTokens, wanted>>,
         call' \in [Calls -> [st : CallSteps, of : 0 .. issued, retries : Nat]],
         \A c \in Calls : call'[c].st = "sent" => call'[c] = call[c]
  PROVE  AccountInv' /\ RenewedStep
<1>1. AccountShape'
  BY DEF AccountInv, AccountShape
<1>2. AReasonIsLeft'
  BY DEF AccountInv, AReasonIsLeft
<1>3. NoneRefused'
  BY DEF AccountInv, NoneRefused
<1> QED BY <1>1, <1>2, <1>3 DEF AccountInv, RenewedStep

LEMMA SendsKeeps ==
  ASSUME AccountInv, NEW c \in Calls, Account!Sends(c)
  PROVE  AccountInv' /\ RenewedStep
<1> DEFINE answer == Account!ensured(session, pending)
<1>1. /\ answer.token \in 0 .. issued /\ answer.token \notin refusedTokens \ {0}
      /\ answer.token # 0 => answer.token \notin asked
      /\ answer.of = issued + 1 => answer.token = 0
      /\ answer.of \in {pending, issued + 1}
  BY WhatIsEnsured
<1>2. /\ issued' \in {issued, issued + 1}
      /\ pending' \in 0 .. issued' /\ pending' \notin refusedTokens
      /\ asked' \subseteq 1 .. issued' /\ asked' \cap refusedTokens = {}
      /\ asked' \subseteq asked \cup {issued + 1}
      /\ issued' = issued + 1 => pending = 0 /\ pending' # 0
      /\ issued' = issued => pending' = pending
      /\ answer.of \in 0 .. issued'
  BY AsksKeep DEF Account!Sends
<1>3. /\ call[c].st = "sending"
      /\ call' = [call EXCEPT ![c] =
           IF answer.token # 0 THEN [@ EXCEPT !.st = "sent", !.of = answer.token]
                               ELSE [@ EXCEPT !.st = "asking", !.of = answer.of]]
      /\ UNCHANGED <<session, refusedTokens, unproven, wanted>>
  BY DEF Account!Sends
<1>4. answer.token # 0 => asked' = asked /\ issued' = issued
  BY <1>1 DEF Account!Sends, Account!Asks, AccountInv, AccountShape
<1> HIDE DEF answer
<1>5. issued \in Nat /\ issued' \in Nat /\ issued <= issued'
  BY <1>2 DEF AccountInv, AccountShape
<1>6. AccountShape'
  <2>1. call \in [Calls -> [st : CallSteps, of : 0 .. issued', retries : Nat]]
    BY <1>5 DEF AccountInv, AccountShape
  <2>2. answer.token \in 0 .. issued' /\ answer.of \in 0 .. issued'
    BY <1>1, <1>2, <1>5
  <2>3. call' \in [Calls -> [st : CallSteps, of : 0 .. issued', retries : Nat]]
    BY <1>3, <2>1, <2>2 DEF CallSteps
  <2>4. session'.worth => session'.token \in 1 .. issued'
    BY <1>3, <1>5 DEF AccountInv, AccountShape
  <2>5. refusedTokens' \subseteq 1 .. issued' /\ wanted' \in Nat
    BY <1>3, <1>5 DEF AccountInv, AccountShape
  <2> QED BY <1>2, <1>5, <2>3, <2>4, <2>5 DEF AccountShape
<1>7. AReasonIsLeft'
  <2>1. Cardinality(refusedTokens) \in Nat /\ wanted \in Nat /\ refusedTokens' = refusedTokens /\ wanted' = wanted
    BY <1>3, RefusedAreFinite DEF AccountInv, AccountShape
  <2> QED BY <1>2, <1>5, <2>1 DEF AccountInv, AReasonIsLeft
<1>8. NoneRefused' /\ RenewedStep
  <2>1. \A other \in Calls : other # c => call'[other] = call[other]
    BY <1>3 DEF AccountInv, AccountShape
  <2>2. call'[c].st = "sent" => answer.token # 0 /\ call'[c].of = answer.token
    BY <1>3 DEF AccountInv, AccountShape
  <2>3. \A token \in 1 .. issued : token \notin asked => token \in (1 .. issued') \ asked'
    BY <1>2, <1>5
  <2>4. call'[c].st = "sent" => call'[c].of \in (1 .. issued) \ asked /\ call'[c].of \notin refusedTokens
    BY <1>1, <1>5, <2>2
  <2>5. \A other \in Calls : call'[other].st = "sent" => call'[other].of \in (1 .. issued') \ asked'
    BY <2>1, <2>3, <2>4 DEF AccountInv, NoneRefused
  <2>6. session'.worth => session'.token \notin refusedTokens' \cup asked'
    BY <1>2, <1>3, <1>5 DEF AccountInv, NoneRefused, AccountShape
  <2>7. RenewedStep
    BY <2>1, <2>4 DEF RenewedStep
  <2> QED BY <1>2, <1>3, <2>5, <2>6, <2>7 DEF NoneRefused
<1> QED BY <1>6, <1>7, <1>8 DEF AccountInv

LEMMA AnsweredKeeps ==
  ASSUME AccountInv, NEW login \in asked, Account!LoginAnswers(login)
  PROVE  AccountInv' /\ RenewedStep
<1>1. /\ asked' = asked \ {login}
      /\ UNCHANGED <<pending, issued, refusedTokens, wanted>>
  BY DEF Account!LoginAnswers
<1>2. session'.worth => session'.token = login
  <2>1. PICK worth \in BOOLEAN :
          session' = IF keeps THEN [token |-> login, worth |-> worth] ELSE Account!NoneHeld
    BY DEF Account!LoginAnswers
  <2> QED BY <2>1 DEF Account!NoneHeld
<1>3. login \in 1 .. issued /\ login \notin refusedTokens /\ issued \in Nat
  BY DEF AccountInv, AccountShape, NoneRefused
<1>4. call' = [c \in Calls |->
        CASE Account!Awaits(c, login) /\ call[c].st = "asking" -> [call[c] EXCEPT !.st = "sent"]
          [] Account!Awaits(c, login) /\ call[c].st = "renewing" -> Account!Retried(c)
          [] OTHER -> call[c]]
  BY DEF Account!LoginAnswers
<1>5. \A c \in Calls : call[c] \in [st : CallSteps, of : 0 .. issued, retries : Nat]
  BY DEF AccountInv, AccountShape
<1>6. \A c \in Calls :
        /\ call'[c] \in [st : CallSteps, of : 0 .. issued, retries : Nat]
        /\ call'[c].st = "sent" => call'[c] = call[c] \/ call'[c].of = login
  <2> SUFFICES ASSUME NEW c \in Calls
               PROVE  /\ call'[c] \in [st : CallSteps, of : 0 .. issued, retries : Nat]
                      /\ call'[c].st = "sent" => call'[c] = call[c] \/ call'[c].of = login
    OBVIOUS
  <2>1. CASE Account!Awaits(c, login) /\ call[c].st = "asking"
    <3>1. call'[c] = [call[c] EXCEPT !.st = "sent"] /\ call[c].of = login
      BY <1>4, <2>1 DEF Account!Awaits
    <3> QED BY <1>5, <3>1 DEF CallSteps
  <2>2. CASE Account!Awaits(c, login) /\ call[c].st = "renewing"
    <3>1. call'[c] = Account!Retried(c)
      BY <1>4, <2>2
    <3>2. call[c].retries \in Nat
      BY <1>5
    <3> QED BY <1>3, <3>1, <3>2, RetriedIs DEF CallSteps
  <2>3. CASE ~(Account!Awaits(c, login) /\ call[c].st \in {"asking", "renewing"})
    <3>1. call'[c] = call[c]
      BY <1>4, <2>3
    <3> QED BY <1>5, <3>1
  <2> QED BY <2>1, <2>2, <2>3
<1>7. call' \in [Calls -> [st : CallSteps, of : 0 .. issued, retries : Nat]]
  BY <1>4, <1>6
<1>8. AccountShape'
  BY <1>1, <1>2, <1>3, <1>7 DEF AccountInv, AccountShape
<1>9. AReasonIsLeft'
  BY <1>1 DEF AccountInv, AReasonIsLeft
<1>10. NoneRefused'
  <2>1. \A c \in Calls : call'[c].st = "sent" => call'[c].of \in (1 .. issued) \ asked'
    BY <1>1, <1>3, <1>6 DEF AccountInv, NoneRefused
  <2> QED BY <1>1, <1>2, <1>3, <2>1 DEF AccountInv, NoneRefused
<1>11. RenewedStep
  BY <1>3, <1>6 DEF RenewedStep
<1> QED BY <1>8, <1>9, <1>10, <1>11 DEF AccountInv

LEMMA FailsKeeps ==
  ASSUME AccountInv, NEW login \in asked, Account!LoginFails(login)
  PROVE  AccountInv' /\ RenewedStep
<1>1. /\ asked' = asked \ {login} /\ pending' = 0 /\ wanted' = wanted + 1
      /\ UNCHANGED <<session, issued, refusedTokens>>
  BY DEF Account!LoginFails
<1>2. issued \in Nat /\ wanted \in Nat /\ Cardinality(refusedTokens) \in Nat
  BY RefusedAreFinite DEF AccountInv, AccountShape
<1>3. PICK again \in BOOLEAN :
        call' = [c \in Calls |->
          IF Account!Awaits(c, login)
            THEN IF again THEN Account!Retried(c) ELSE [Account!Idle EXCEPT !.st = "failed"]
            ELSE call[c]]
  BY DEF Account!LoginFails
<1>4. \A c \in Calls : call[c] \in [st : CallSteps, of : 0 .. issued, retries : Nat]
  BY DEF AccountInv, AccountShape
<1>5. \A c \in Calls :
        /\ call'[c] \in [st : CallSteps, of : 0 .. issued, retries : Nat]
        /\ call'[c].st = "sent" => call'[c] = call[c]
  <2> SUFFICES ASSUME NEW c \in Calls
               PROVE  /\ call'[c] \in [st : CallSteps, of : 0 .. issued, retries : Nat]
                      /\ call'[c].st = "sent" => call'[c] = call[c]
    OBVIOUS
  <2>1. call'[c] \in {Account!Retried(c), [Account!Idle EXCEPT !.st = "failed"], call[c]}
    BY <1>3
  <2>2. call[c].retries \in Nat
    BY <1>4
  <2>3. [Account!Idle EXCEPT !.st = "failed"] = [st |-> "failed", of |-> 0, retries |-> 0]
    BY DEF Account!Idle
  <2> QED BY <1>2, <1>4, <2>1, <2>2, <2>3, RetriedIs DEF CallSteps
<1>6. call' \in [Calls -> [st : CallSteps, of : 0 .. issued, retries : Nat]]
  BY <1>3, <1>5
<1>7. AccountShape'
  BY <1>1, <1>2, <1>6 DEF AccountInv, AccountShape
<1>8. AReasonIsLeft'
  BY <1>1, <1>2 DEF AccountInv, AReasonIsLeft, AccountShape
<1>9. NoneRefused' /\ RenewedStep
  BY <1>1, <1>5 DEF AccountInv, NoneRefused, RenewedStep, AccountShape
<1> QED BY <1>7, <1>8, <1>9 DEF AccountInv

\* The first refusal of a token has one more to its count, and the login it asks
\* for is that one's; any other takes what came since.
LEMMA RefusedKeeps ==
  ASSUME AccountInv, NEW c \in Calls, Account!Refused(c)
  PROVE  AccountInv' /\ RenewedStep
<1> DEFINE sent == call[c].of
           first == sent \notin refusedTokens
           what == IF first THEN Account!NoneHeld ELSE session
           login == IF first THEN 0 ELSE pending
           answer == Account!ensured(what, login)
<1>1. /\ call[c].st = "sent" /\ sent \in (1 .. issued) \ asked
      /\ refusedTokens' = refusedTokens \cup {sent}
      /\ session' = what /\ wanted' = wanted
  BY DEF Account!Refused, Account!FirstRefused, AccountInv, NoneRefused
<1>2. Account!Asks(answer)
  BY DEF Account!Refused, Account!FirstRefused
<1>3. call' = [call EXCEPT ![c] =
        CASE answer.token = 0 -> [@ EXCEPT !.st = "renewing", !.of = answer.of]
          [] answer.token = sent -> [Account!Idle EXCEPT !.st = "failed"]
          [] OTHER -> Account!Retried(c)]
  BY DEF Account!Refused, Account!FirstRefused
<1>4. /\ issued' \in {issued, issued + 1}
      /\ pending' \in 0 .. issued' /\ pending' \notin refusedTokens
      /\ asked' \subseteq 1 .. issued' /\ asked' \cap refusedTokens = {}
      /\ asked' \subseteq asked \cup {issued + 1}
      /\ issued' = issued + 1 => login = 0 /\ pending' # 0
      /\ issued' = issued => pending' = login
      /\ answer.of \in 0 .. issued'
  BY <1>2, AsksKeep
<1>5. issued \in Nat /\ issued' \in Nat /\ issued <= issued' /\ wanted \in Nat
  BY <1>4 DEF AccountInv, AccountShape
<1>6. first => issued' = issued + 1 /\ pending' = issued + 1
  <2> SUFFICES ASSUME first PROVE issued' = issued + 1 /\ pending' = issued + 1
    OBVIOUS
  <2>1. answer = [token |-> 0, of |-> issued + 1]
    BY DEF Account!ensured, Account!storedToken, Account!NoneHeld, AccountInv, AccountShape
  <2> QED BY <1>2, <1>5, <2>1 DEF Account!Asks
<1>7. ~first => refusedTokens' = refusedTokens /\ session' = session /\ login = pending
  BY <1>1
<1>8. first => ~session'.worth
  BY <1>1 DEF Account!NoneHeld
<1> HIDE DEF answer, login, what
<1>9. AccountShape'
  <2>1. call \in [Calls -> [st : CallSteps, of : 0 .. issued', retries : Nat]]
    BY <1>5 DEF AccountInv, AccountShape
  <2>2. \A other \in Calls : other # c => call'[other] = call[other]
    BY <1>3, <2>1
  <2>3. call'[c] \in [st : CallSteps, of : 0 .. issued', retries : Nat] /\ call'[c].st # "sent"
    <3>1. call'[c] \in {[call[c] EXCEPT !.st = "renewing", !.of = answer.of],
                        [Account!Idle EXCEPT !.st = "failed"], Account!Retried(c)}
      BY <1>3, <2>1
    <3>2. answer.of \in 0 .. issued' /\ call[c].retries \in Nat /\ 0 \in 0 .. issued'
      BY <1>4, <1>5, <2>1
    <3>3. [Account!Idle EXCEPT !.st = "failed"] = [st |-> "failed", of |-> 0, retries |-> 0]
      BY DEF Account!Idle
    <3>4. Account!Retried(c) \in [st : CallSteps \ {"sent"}, of : 0 .. issued', retries : Nat]
      BY <3>2, RetriedIs DEF CallSteps
    <3>5. [st |-> "failed", of |-> 0, retries |-> 0] \in
            [st : CallSteps \ {"sent"}, of : 0 .. issued', retries : Nat]
      BY <3>2 DEF CallSteps
    <3>6. [call[c] EXCEPT !.st = "renewing", !.of = answer.of] \in
            [st : CallSteps \ {"sent"}, of : 0 .. issued', retries : Nat]
      BY <2>1, <3>2 DEF CallSteps
    <3>7. call'[c] \in [st : CallSteps \ {"sent"}, of : 0 .. issued', retries : Nat]
      BY <3>1, <3>3, <3>4, <3>5, <3>6
    <3> QED BY <3>7
  <2>4. call' \in [Calls -> [st : CallSteps, of : 0 .. issued', retries : Nat]]
    BY <1>3, <2>1, <2>2, <2>3
  <2>5. refusedTokens' \subseteq 1 .. issued'
    <3>1. 1 .. issued \subseteq 1 .. issued'
      BY <1>5
    <3> QED BY <1>1, <3>1 DEF AccountInv, AccountShape
  <2>6. session'.worth => session'.token \in 1 .. issued'
    BY <1>5, <1>7, <1>8 DEF AccountInv, AccountShape
  <2> QED BY <1>1, <1>4, <1>5, <2>4, <2>5, <2>6 DEF AccountShape
<1>10. AReasonIsLeft'
  <2>1. IsFiniteSet(refusedTokens) /\ Cardinality(refusedTokens) \in Nat
    BY RefusedAreFinite DEF AccountInv
  <2>2. CASE first
    <3>1. Cardinality(refusedTokens') = Cardinality(refusedTokens) + 1
      BY <1>1, <2>1, <2>2, FS_AddElement
    <3> QED BY <1>1, <1>5, <1>6, <2>1, <2>2, <3>1 DEF AccountInv, AReasonIsLeft
  <2>3. CASE ~first
    <3>1. refusedTokens' = refusedTokens /\ wanted' = wanted
      BY <1>1, <1>7, <2>3
    <3>2. /\ issued' = issued + 1 => pending = 0 /\ pending' # 0
          /\ issued' = issued => pending' = pending
      BY <1>4, <1>7, <2>3
    <3> QED BY <1>4, <1>5, <2>1, <3>1, <3>2 DEF AccountInv, AReasonIsLeft
  <2> QED BY <2>2, <2>3
<1>11. NoneRefused' /\ RenewedStep
  <2>1. call \in [Calls -> [st : CallSteps, of : 0 .. issued, retries : Nat]]
    BY DEF AccountInv, AccountShape
  <2>2. \A other \in Calls : call'[other].st = "sent" => call'[other] = call[other]
    BY <1>3, <2>1 DEF Account!Retried, Account!Idle
  <2>3. \A other \in Calls : call'[other].st = "sent" => call'[other].of \in (1 .. issued') \ asked'
    BY <1>4, <1>5, <2>2 DEF AccountInv, NoneRefused
  <2>4. sent \notin asked'
    BY <1>1, <1>4, <1>5
  <2>5. pending' \notin refusedTokens'
    <3>1. CASE first
      BY <1>1, <1>4, <1>5, <1>6, <3>1
    <3>2. CASE ~first
      BY <1>4, <1>7, <3>2
    <3> QED BY <3>1, <3>2
  <2>6. session'.worth => session'.token \notin refusedTokens' \cup asked'
    BY <1>4, <1>5, <1>7, <1>8 DEF AccountInv, NoneRefused, AccountShape
  <2>7. asked' \cap refusedTokens' = {}
    BY <1>1, <1>4, <2>4
  <2> QED BY <2>2, <2>3, <2>5, <2>6, <2>7 DEF NoneRefused, RenewedStep
<1> QED BY <1>9, <1>10, <1>11 DEF AccountInv

LEMMA RerunKeeps ==
  ASSUME AccountInv, Account!Rerun
  PROVE  AccountInv' /\ RenewedStep
<1>1. /\ asked = {} /\ call' = [c \in Calls |-> Account!Idle]
      /\ pending' = 0 /\ refusedTokens' = {} /\ wanted' = wanted + Cardinality(refusedTokens) + 1
      /\ UNCHANGED <<session, asked, issued>>
  BY SameCount DEF Account!Rerun
<1>2. issued \in Nat /\ wanted \in Nat /\ Cardinality(refusedTokens) \in Nat
  BY RefusedAreFinite DEF AccountInv, AccountShape
<1>3. AccountShape'
  BY <1>1, <1>2 DEF AccountInv, AccountShape, CallSteps, Account!Idle
<1>4. AReasonIsLeft'
  BY <1>1, <1>2, FS_EmptySet DEF AccountInv, AReasonIsLeft
<1>5. NoneRefused' /\ RenewedStep
  BY <1>1 DEF NoneRefused, RenewedStep, Account!Idle
<1> QED BY <1>3, <1>4, <1>5 DEF AccountInv

LEMMA NearsKeeps ==
  ASSUME AccountInv, Account!Nears
  PROVE  AccountInv' /\ RenewedStep
<1>1. /\ session' = [session EXCEPT !.worth = FALSE] /\ wanted' = wanted + 1
      /\ UNCHANGED <<pending, asked, issued, refusedTokens, call>>
  BY DEF Account!Nears
<1>2. issued \in Nat /\ wanted \in Nat /\ Cardinality(refusedTokens) \in Nat
  BY RefusedAreFinite DEF AccountInv, AccountShape
<1>3. ~session'.worth
  BY <1>1 DEF Account!Nears
<1>4. AccountShape'
  BY <1>1, <1>2, <1>3 DEF AccountInv, AccountShape
<1>5. AReasonIsLeft'
  BY <1>1, <1>2 DEF AccountInv, AReasonIsLeft
<1>6. NoneRefused' /\ RenewedStep
  BY <1>1, <1>3 DEF AccountInv, NoneRefused, RenewedStep
<1> QED BY <1>4, <1>5, <1>6 DEF AccountInv

\* What moves the calls alone.
LEMMA OthersKeep ==
  ASSUME AccountInv, NEW c \in Calls,
         \/ Account!Begin(c) \/ Account!Answered(c) \/ Account!GivesUp(c)
         \/ Account!Busy(c) \/ Account!Dropped(c)
  PROVE  AccountInv' /\ RenewedStep
<1>1. UNCHANGED <<session, pending, asked, issued, refusedTokens, wanted>>
  BY DEF Account!Begin, Account!Answered, Account!GivesUp, Account!Busy, Account!Dropped
<1>2. call \in [Calls -> [st : CallSteps, of : 0 .. issued, retries : Nat]] /\ issued \in Nat
  BY DEF AccountInv, AccountShape
<1>3. \/ call' = [call EXCEPT ![c].st = "sending"]
      \/ call' = [call EXCEPT ![c] = [st |-> "done", of |-> 0, retries |-> 0]]
      \/ call' = [call EXCEPT ![c] = [st |-> "failed", of |-> 0, retries |-> 0]]
      \/ call' = [call EXCEPT ![c] = Account!Retried(c)]
  <2>1. \A how : [Account!Idle EXCEPT !.st = how] = [st |-> how, of |-> 0, retries |-> 0]
    BY DEF Account!Idle
  <2>2. \A how : Account!Over(c, how) => call' = [call EXCEPT ![c] = [st |-> how, of |-> 0, retries |-> 0]]
    BY <2>1 DEF Account!Over
  <2> QED BY <2>2 DEF Account!Begin, Account!Answered, Account!GivesUp, Account!Busy,
                      Account!Dropped, Account!Retries
<1>4. 0 \in 0 .. issued /\ call[c].retries + 1 \in Nat
  BY <1>2
<1>5. /\ call' \in [Calls -> [st : CallSteps, of : 0 .. issued, retries : Nat]]
      /\ \A other \in Calls : call'[other].st = "sent" => call'[other] = call[other]
  <2>1. CASE call' = [call EXCEPT ![c].st = "sending"]
    BY <1>2, <2>1 DEF CallSteps
  <2>2. CASE call' = [call EXCEPT ![c] = [st |-> "done", of |-> 0, retries |-> 0]]
    BY <1>2, <1>4, <2>2 DEF CallSteps
  <2>3. CASE call' = [call EXCEPT ![c] = [st |-> "failed", of |-> 0, retries |-> 0]]
    BY <1>2, <1>4, <2>3 DEF CallSteps
  <2>4. CASE call' = [call EXCEPT ![c] = Account!Retried(c)]
    BY <1>2, <1>4, <2>4, RetriedIs DEF CallSteps
  <2> QED BY <1>3, <2>1, <2>2, <2>3, <2>4
<1> QED BY <1>1, <1>5, CallsMove

LEMMA AccountNext ==
  ASSUME AccountInv, Account!Next
  PROVE  AccountInv' /\ RenewedStep
<1>1. CASE Account!Works
  BY <1>1, SendsKeeps, RefusedKeeps, OthersKeep DEF Account!Works
<1>2. CASE Account!Logs
  BY <1>2, AnsweredKeeps DEF Account!Logs
<1>3. CASE \E c \in Calls : Account!Busy(c) \/ Account!Dropped(c)
  BY <1>3, OthersKeep
<1>4. CASE \E login \in asked : Account!LoginFails(login)
  BY <1>4, FailsKeeps
<1>5. CASE Account!Expires
  <2>1. UNCHANGED <<session, pending, asked, issued, refusedTokens, wanted, call>>
    BY <1>5 DEF Account!Expires
  <2> QED BY <2>1, CallsMove DEF AccountInv, AccountShape
<1> QED BY <1>1, <1>2, <1>3, <1>4, <1>5, NearsKeeps, RerunKeeps DEF Account!Next

LEMMA AccountStep ==
  ASSUME AccountInv, [MCNext]_all
  PROVE  AccountInv' /\ RenewedStep
<1>1. CASE OfAccount(Account!Next)
  BY <1>1, AccountNext DEF OfAccount
<1>2. CASE UNCHANGED ofAccount
  <2>1. UNCHANGED <<session, pending, asked, issued, refusedTokens, wanted, call>>
    BY <1>2 DEF ofAccount
  <2> QED BY <2>1, CallsMove DEF AccountInv, AccountShape
<1>3. MCNext => OfAccount(Account!Next) \/ UNCHANGED ofAccount
  BY DEF MCNext, OfLists, OfProgram, OfDatabase
<1>4. UNCHANGED all => UNCHANGED ofAccount
  BY DEF all
<1> QED BY <1>1, <1>2, <1>3, <1>4

-----------------------------------------------------------------------------
(* What a call may fail for.                                                   *)

\* A token is among the untried only where another was refused before it was
\* earned, and so is a login waited for to replace one.
Replaced ==
  /\ mishaps \in Nat
  /\ \A token \in unproven : \E other \in refusedTokens : other # token
  /\ \A c \in Calls : call[c].st = "renewing" => refusedTokens # {}

\* What a call that may be tried again fails for.
FailsWhereOneWas ==
  \A c \in Calls : call[c].st \in {"sent", "renewing"} /\ call'[c].st = "failed"
                   /\ mishaps' = mishaps /\ call[c].retries < Limit =>
    \E token \in refusedTokens : token # call[c].of

\* A step that lets go of what is untried, if anything, and refuses nothing.
LEMMA LetsGo ==
  ASSUME AccountInv, Replaced, refusedTokens' = refusedTokens, unproven' \subseteq unproven,
         mishaps' \in {mishaps, mishaps + 1},
         \A c \in Calls : call'[c].st = "renewing" => call[c].st = "renewing",
         mishaps' = mishaps => \A c \in Calls : call'[c].st = "failed" => call[c].st = "failed"
  PROVE  Replaced' /\ FailsWhereOneWas
<1>1. mishaps' \in Nat
  BY DEF Replaced
<1>2. Replaced'
  BY <1>1 DEF Replaced
<1>3. FailsWhereOneWas
  BY DEF FailsWhereOneWas
<1> QED BY <1>2, <1>3

LEMMA WrongCounts ==
  ASSUME Replaced, NEW why, Account!Wrong(why)
  PROVE  mishaps' = mishaps + 1 /\ mishaps' # mishaps
BY DEF Replaced, Account!Wrong

LEMMA LoginReplaces ==
  ASSUME AccountInv, Replaced, NEW login \in asked, Account!LoginAnswers(login)
  PROVE  Replaced' /\ FailsWhereOneWas
<1>1. /\ UNCHANGED <<refusedTokens, mishaps>>
      /\ unproven' = unproven \cup {t \in {login} : \E c \in Calls :
                                     call[c].st = "renewing" /\ call[c].of = login}
  BY DEF Account!LoginAnswers
<1>2. login \notin refusedTokens
  BY DEF AccountInv, NoneRefused
<1>3. \A token \in unproven' : \E other \in refusedTokens' : other # token
  BY <1>1, <1>2 DEF Replaced
<1>4. \A c \in Calls :
        /\ call'[c].st = "renewing" => call[c].st = "renewing"
        /\ call'[c].st = "failed" => call[c].st = "failed" \/ ~(call[c].retries < Limit)
  <2> SUFFICES ASSUME NEW c \in Calls
               PROVE  /\ call'[c].st = "renewing" => call[c].st = "renewing"
                      /\ call'[c].st = "failed" => call[c].st = "failed" \/ ~(call[c].retries < Limit)
    OBVIOUS
  <2>1. call' = [d \in Calls |->
          CASE Account!Awaits(d, login) /\ call[d].st = "asking" -> [call[d] EXCEPT !.st = "sent"]
            [] Account!Awaits(d, login) /\ call[d].st = "renewing" -> Account!Retried(d)
            [] OTHER -> call[d]]
    BY DEF Account!LoginAnswers
  <2>2. call[c] \in [st : CallSteps, of : 0 .. issued, retries : Nat]
    BY DEF AccountInv, AccountShape
  <2>3. CASE Account!Awaits(c, login) /\ call[c].st = "asking"
    <3>1. call'[c] = [call[c] EXCEPT !.st = "sent"]
      BY <2>1, <2>3
    <3> QED BY <2>2, <3>1
  <2>4. CASE Account!Awaits(c, login) /\ call[c].st = "renewing"
    <3>1. call'[c] = Account!Retried(c)
      BY <2>1, <2>4
    <3> QED BY <2>4, <3>1 DEF Account!Retried, Account!Idle
  <2>5. CASE ~(Account!Awaits(c, login) /\ call[c].st \in {"asking", "renewing"})
    <3>1. call'[c] = call[c]
      BY <2>1, <2>5
    <3> QED BY <3>1
  <2> QED BY <2>3, <2>4, <2>5
<1>5. Replaced'
  BY <1>1, <1>3, <1>4 DEF Replaced
<1>6. FailsWhereOneWas
  BY <1>4 DEF FailsWhereOneWas
<1> QED BY <1>5, <1>6

\* The token refused is one more, and what replaces it is another.
LEMMA RefusedReplaces ==
  ASSUME AccountInv, Replaced, NEW c \in Calls, Account!Refused(c)
  PROVE  Replaced' /\ FailsWhereOneWas
<1> DEFINE sent == call[c].of
           first == sent \notin refusedTokens
           answer == Account!ensured(IF first THEN Account!NoneHeld ELSE session,
                                     IF first THEN 0 ELSE pending)
<1>1. /\ call[c].st = "sent" /\ refusedTokens' = refusedTokens \cup {sent}
      /\ unproven' = unproven \cup ({answer.token} \ {0, sent})
      /\ mishaps' = mishaps
  BY DEF Account!Refused, Account!FirstRefused
<1>2. call' = [call EXCEPT ![c] =
        CASE answer.token = 0 -> [@ EXCEPT !.st = "renewing", !.of = answer.of]
          [] answer.token = sent -> [Account!Idle EXCEPT !.st = "failed"]
          [] OTHER -> Account!Retried(c)]
  BY DEF Account!Refused, Account!FirstRefused
<1>3. answer.token \notin refusedTokens \ {0}
  BY WhatIsEnsured
<1>4. sent # 0
  BY <1>1 DEF AccountInv, NoneRefused
<1>5. first => answer.token = 0
  BY DEF Account!ensured, Account!storedToken, Account!NoneHeld, AccountInv, AccountShape
<1>6. answer.token # sent
  BY <1>3, <1>4, <1>5
<1>7. call \in [Calls -> [st : CallSteps, of : 0 .. issued, retries : Nat]]
  BY DEF AccountInv, AccountShape
<1> HIDE DEF answer
<1>8. Replaced'
  <2>1. \A token \in unproven' : \E other \in refusedTokens' : other # token
    BY <1>1 DEF Replaced
  <2>2. refusedTokens' # {}
    BY <1>1
  <2> QED BY <1>1, <2>1, <2>2 DEF Replaced
<1>9. FailsWhereOneWas
  <2> SUFFICES ASSUME NEW d \in Calls, call[d].st \in {"sent", "renewing"},
                      call'[d].st = "failed", call[d].retries < Limit
               PROVE  FALSE
    BY DEF FailsWhereOneWas
  <2>1. d = c
    BY <1>2, <1>7
  <2>2. call'[c] = [call[c] EXCEPT !.st = "renewing", !.of = answer.of]
        \/ call'[c] = Account!Retried(c)
    BY <1>2, <1>6, <1>7
  <2> QED BY <1>7, <2>1, <2>2 DEF Account!Retried, Account!Idle
<1> QED BY <1>8, <1>9

LEMMA GivenUpReplaces ==
  ASSUME AccountInv, Replaced, NEW c \in Calls, Account!GivesUp(c)
  PROVE  Replaced' /\ FailsWhereOneWas
<1>1. /\ UNCHANGED <<refusedTokens, unproven, mishaps>>
      /\ call' = [call EXCEPT ![c] = [Account!Idle EXCEPT !.st = "failed"]]
      /\ call[c].of \in unproven
  BY DEF Account!GivesUp, Account!Over
<1>2. \A d \in Calls : d # c => call'[d] = call[d]
  BY <1>1 DEF AccountInv, AccountShape
<1>3. call'[c] = [st |-> "failed", of |-> 0, retries |-> 0]
  BY <1>1 DEF AccountInv, AccountShape, Account!Idle
<1>4. Replaced'
  BY <1>1, <1>2, <1>3 DEF Replaced
<1>5. FailsWhereOneWas
  BY <1>1, <1>2 DEF Replaced, FailsWhereOneWas
<1> QED BY <1>4, <1>5

LEMMA OthersReplace ==
  ASSUME AccountInv, Replaced, NEW c \in Calls,
         \/ Account!Begin(c) \/ Account!Sends(c) \/ Account!Answered(c)
         \/ Account!Busy(c) \/ Account!Dropped(c)
  PROVE  Replaced' /\ FailsWhereOneWas
<1>1. call \in [Calls -> [st : CallSteps, of : 0 .. issued, retries : Nat]]
  BY DEF AccountInv, AccountShape
<1>2. CASE Account!Begin(c)
  <2>1. call' = [call EXCEPT ![c].st = "sending"] /\ UNCHANGED <<refusedTokens, unproven, mishaps>>
    BY <1>2 DEF Account!Begin
  <2>2. \A d \in Calls : call'[d].st \in {call[d].st, "sending"}
    BY <1>1, <2>1
  <2> QED BY <2>1, <2>2, LetsGo
<1>3. CASE Account!Sends(c)
  <2>1. UNCHANGED <<refusedTokens, unproven, mishaps>>
    BY <1>3 DEF Account!Sends
  <2>2. \A d \in Calls : call'[d].st \in {call[d].st, "sent", "asking"}
    BY <1>1, <1>3 DEF Account!Sends
  <2> QED BY <2>1, <2>2, LetsGo
<1>4. CASE Account!Answered(c)
  <2>1. /\ unproven' \subseteq unproven /\ UNCHANGED <<refusedTokens, mishaps>>
        /\ call' = [call EXCEPT ![c] = [Account!Idle EXCEPT !.st = "done"]]
    BY <1>4 DEF Account!Answered, Account!Over
  <2>2. \A d \in Calls : call'[d].st \in {call[d].st, "done"}
    BY <1>1, <2>1 DEF Account!Idle
  <2> QED BY <2>1, <2>2, LetsGo
<1>5. CASE Account!Busy(c) \/ Account!Dropped(c)
  <2>1. /\ UNCHANGED <<refusedTokens, unproven>>
        /\ mishaps' = mishaps + 1 /\ mishaps' # mishaps
    BY <1>5, WrongCounts DEF Account!Busy, Account!Dropped
  <2>2. call' \in {[call EXCEPT ![c] = Account!Retried(c)],
                   [call EXCEPT ![c] = [Account!Idle EXCEPT !.st = "failed"]]}
    BY <1>5 DEF Account!Busy, Account!Dropped, Account!Over, Account!Retries
  <2>3. \A d \in Calls : call'[d].st \in {call[d].st, "failed", "sending"}
    BY <1>1, <2>2 DEF Account!Retried, Account!Idle
  <2> QED BY <2>1, <2>3, LetsGo
<1> QED BY <1>2, <1>3, <1>4, <1>5

LEMMA UpsetsReplace ==
  ASSUME AccountInv, Replaced,
         \/ \E login \in asked : Account!LoginFails(login)
         \/ Account!Expires \/ Account!Nears \/ Account!Rerun
  PROVE  Replaced' /\ FailsWhereOneWas
<1>1. CASE \E login \in asked : Account!LoginFails(login)
  <2>1. PICK login \in asked : Account!LoginFails(login)
    BY <1>1
  <2>2. UNCHANGED <<refusedTokens, unproven>> /\ mishaps' = mishaps + 1 /\ mishaps' # mishaps
    BY <2>1, WrongCounts DEF Account!LoginFails
  <2>3. PICK again \in BOOLEAN :
          call' = [c \in Calls |->
            IF Account!Awaits(c, login)
              THEN IF again THEN Account!Retried(c) ELSE [Account!Idle EXCEPT !.st = "failed"]
              ELSE call[c]]
    BY <2>1 DEF Account!LoginFails
  <2>4. \A d \in Calls : call'[d].st \in {call[d].st, "failed", "sending"}
    <3> SUFFICES ASSUME NEW d \in Calls PROVE call'[d].st \in {call[d].st, "failed", "sending"}
      OBVIOUS
    <3>1. call'[d] \in {Account!Retried(d), [Account!Idle EXCEPT !.st = "failed"], call[d]}
      BY <2>3
    <3>2. [Account!Idle EXCEPT !.st = "failed"] = [st |-> "failed", of |-> 0, retries |-> 0]
      BY DEF Account!Idle
    <3> QED BY <3>1, <3>2, RetriedIs
  <2> QED BY <2>2, <2>4, LetsGo
<1>2. CASE Account!Expires \/ Account!Nears
  <2>1. /\ UNCHANGED <<refusedTokens, unproven, call>>
        /\ mishaps' = mishaps + 1
    BY <1>2, WrongCounts DEF Account!Expires, Account!Nears
  <2> QED BY <2>1, LetsGo
<1>3. CASE Account!Rerun
  <2>1. /\ refusedTokens' = {} /\ unproven' = {} /\ mishaps' = mishaps
        /\ call' = [c \in Calls |-> Account!Idle]
    BY <1>3 DEF Account!Rerun
  <2>2. \A d \in Calls : call'[d].st = "idle"
    BY <2>1 DEF Account!Idle
  <2> QED BY <2>1, <2>2 DEF Replaced, FailsWhereOneWas
<1> QED BY <1>1, <1>2, <1>3

LEMMA ReplacedStep ==
  ASSUME AccountInv, Replaced, [MCNext]_all
  PROVE  Replaced' /\ FailsWhereOneWas
<1>1. CASE OfAccount(Account!Next)
  <2>1. Account!Next
    BY <1>1 DEF OfAccount
  <2>2. CASE Account!Works
    BY <2>2, RefusedReplaces, GivenUpReplaces, OthersReplace DEF Account!Works
  <2>3. CASE Account!Logs
    BY <2>3, LoginReplaces DEF Account!Logs
  <2>4. CASE \E c \in Calls : Account!Busy(c) \/ Account!Dropped(c)
    BY <2>4, OthersReplace
  <2> QED BY <2>1, <2>2, <2>3, <2>4, UpsetsReplace DEF Account!Next
<1>2. CASE UNCHANGED ofAccount
  <2>1. UNCHANGED <<refusedTokens, unproven, mishaps, call>>
    BY <1>2 DEF ofAccount
  <2> QED BY <2>1, LetsGo
<1>3. MCNext => OfAccount(Account!Next) \/ UNCHANGED ofAccount
  BY DEF MCNext, OfLists, OfProgram, OfDatabase
<1>4. UNCHANGED all => UNCHANGED ofAccount
  BY DEF all
<1> QED BY <1>1, <1>2, <1>3, <1>4

\* A login is made for a run with nothing worth sending, for a token refused, for
\* one near its end or for a login that failed, and once for each, however many
\* calls were carrying it; no call is sent with a token that was refused; and a
\* call that may be tried again fails for its token, or for a login that answered,
\* only where another token was refused in the run: SchedulesDirectClient's
\* #ensureToken, #authenticate and #afterResponse.
THEOREM AccountRenewsOnce == MCSpec => RenewedOnce
<1> DEFINE Inv == AccountInv /\ Replaced
           Renews == /\ Account!LoginsHaveReason'
                     /\ \A c \in Calls : call'[c].st = "sent" /\ call[c].st # "sent" =>
                          call'[c].of \notin refusedTokens
                     /\ \A c \in Calls : call[c].st \in {"sent", "renewing"}
                                         /\ call'[c].st = "failed"
                                         /\ mishaps' = mishaps /\ call[c].retries < Limit =>
                          \E token \in refusedTokens : token # call[c].of
<1>1. MCInit => Inv
  <2> SUFFICES ASSUME MCInit PROVE Inv
    OBVIOUS
  <2>1. AccountInv
    BY AccountInit DEF MCInit
  <2>2. mishaps = 0 /\ unproven = {} /\ \A c \in Calls : call[c].st = "idle"
    BY DEF MCInit, Account!Init, Account!Idle
  <2> QED BY <2>1, <2>2 DEF Replaced
<1>2. Inv /\ [MCNext]_all => Inv'
  BY AccountStep, ReplacedStep
<1>3. Inv /\ Inv' /\ [MCNext]_all => [Renews]_(Account!vars)
  <2> SUFFICES ASSUME Inv, Inv', [MCNext]_all
               PROVE  Account!LoginsHaveReason' /\ RenewedStep /\ FailsWhereOneWas
    BY DEF RenewedStep, FailsWhereOneWas
  <2>1. RenewedStep /\ FailsWhereOneWas
    BY AccountStep, ReplacedStep
  <2>2. AccountShape' /\ AReasonIsLeft'
    BY DEF AccountInv
  <2>3. issued' \in Nat /\ wanted' \in Nat /\ Cardinality(refusedTokens') \in Nat
    <3>1. IsFiniteSet(1 .. issued') /\ refusedTokens' \subseteq 1 .. issued'
      BY <2>2, FS_Interval DEF AccountShape
    <3> QED BY <2>2, <3>1, FS_Subset, FS_CardinalityType DEF AccountShape
  <2>4. issued' - 1 <= wanted' + Cardinality(refusedTokens')
    BY <2>2, <2>3 DEF AReasonIsLeft
  <2>5. Account!Cardinality(refusedTokens') = Cardinality(refusedTokens')
    BY SameCount
  <2> QED BY <2>1, <2>4, <2>5 DEF Account!LoginsHaveReason
<1> QED BY <1>1, <1>2, <1>3, PTL DEF MCSpec, RenewedOnce, Account!RenewedOnce

-----------------------------------------------------------------------------
(* The database two processes keep their channel-days in.                      *)

Steps == {"idle", "preparing", "ensuring", "dropping", "creating", "stamping", "running"}
Wants == {"none", "meta", "read", "inspect", "write", "delete", "remove", "list", "prune"}
Driver == [st : Steps, want : Wants, key : Nat, after : Nat, listed : Seq(Nat),
           open : BOOLEAN, current : BOOLEAN, writable : BOOLEAN]
Holds == {"nothing", "readable", "cut", "unreadable"}
DatabaseShape ==
  /\ proc \in [Processes -> Driver]
  /\ file \in [there : BOOLEAN, version : {0, 2, 3}, made : BOOLEAN,
               rows : [Keys -> [of : Nat, holds : Holds]]]
  /\ calls \in Nat /\ kills \in Nat /\ promised \in [Keys -> Nat]
  /\ through \in [Processes -> SUBSET Keys] /\ raced \in BOOLEAN

\* A process that has dropped the tables and not yet said that they are its own.
Maker(p) == proc[p].st \in {"creating", "stamping"}
Relies(p) == proc[p].current \/ proc[p].writable \/ proc[p].st = "running"

\* While no process made tables over another's, one makes them at a time, before
\* anyone relies on them and anything is promised.
OneMakes ==
  /\ \A p, q \in Processes : Maker(p) /\ Maker(q) => p = q
  /\ \A p \in Processes :
       /\ Maker(p) => file.version # Database!Current
       /\ proc[p].st = "creating" => ~file.made
       /\ proc[p].st = "stamping" => file.made
       /\ Relies(p) => file.version = Database!Current
  /\ file.version # Database!Current => \A k \in Keys : promised[k] = 0
TablesInv == ~raced => OneMakes /\ Database!WrittenStays

\* What a listing has handed out: no key twice, none past where it is, and up to
\* there all that were there since it began.
Lists(p) == proc[p].want = "list" /\ proc[p].st \in {"preparing", "running"}
HandedOut(keys, listed, after) ==
  /\ \A i, j \in 1 .. Len(listed) : listed[i] = listed[j] => i = j
  /\ \A i \in 1 .. Len(listed) : listed[i] <= after
  /\ \A k \in keys : k <= after => \E i \in 1 .. Len(listed) : listed[i] = k
ListingInv ==
  /\ \A p \in Processes, k \in Keys : k \in through[p] => file.rows[k] # Database!NoRow
  /\ \A p \in Processes : Lists(p) => HandedOut(through[p], proc[p].listed, proc[p].after)
  /\ \A p \in Processes :
       /\ proc[p].st = "idle" => proc[p].after = 0
       /\ proc[p].st \in {"ensuring", "dropping", "creating", "stamping"} => proc[p].want # "list"

DatabaseInv == DatabaseShape /\ TablesInv /\ ListingInv

-----------------------------------------------------------------------------
LEMMA RowIs == \A holds \in Holds : Database!Row(holds) \in [of : Nat, holds : Holds]
BY DEF Database!Row, Database!NoRow, Holds

LEMMA DatabaseInit == Database!Init => DatabaseInv
<1> SUFFICES ASSUME Database!Init PROVE DatabaseInv
  OBVIOUS
<1>1. /\ proc = [p \in Processes |-> Database!Fresh] /\ calls = 0 /\ kills = 0
      /\ promised = [k \in Keys |-> 0] /\ through = [p \in Processes |-> {}] /\ raced = FALSE
  BY DEF Database!Init
<1>2. /\ file \in [there : BOOLEAN, version : {0, 2, 3}, made : BOOLEAN,
                   rows : [Keys -> [of : Nat, holds : Holds]]]
      /\ file.version = Database!Current => file.made
  <2> DEFINE Made == {[there |-> TRUE, version |-> Database!Current, made |-> TRUE,
                       rows |-> [k \in Keys |-> Database!Row(holds[k])]] : holds \in Left}
             Unmade == {[there |-> FALSE, version |-> 0, made |-> FALSE, rows |-> Database!Empty],
                        [there |-> TRUE, version |-> 2, made |-> TRUE, rows |-> Database!Empty]}
  <2>1. file \in Made \cup Unmade
    BY DEF Database!Init
  <2>2. CASE file \in Made
    <3>1. PICK holds \in Left :
            file = [there |-> TRUE, version |-> Database!Current, made |-> TRUE,
                    rows |-> [k \in Keys |-> Database!Row(holds[k])]]
      BY <2>2
    <3>2. \A k \in Keys : holds[k] \in Holds
      BY CacheAssumption DEF Database!CacheAssumption, Holds
    <3>3. \A k \in Keys : Database!Row(holds[k]) \in [of : Nat, holds : Holds]
      BY <3>2, RowIs
    <3> QED BY <3>1, <3>3 DEF Database!Current
  <2>3. CASE file \in Unmade
    <3>1. Database!Empty \in [Keys -> [of : Nat, holds : Holds]]
      BY DEF Database!Empty, Database!NoRow, Holds
    <3>2. CASE file = [there |-> FALSE, version |-> 0, made |-> FALSE, rows |-> Database!Empty]
      BY <3>1, <3>2 DEF Database!Current
    <3>3. CASE file = [there |-> TRUE, version |-> 2, made |-> TRUE, rows |-> Database!Empty]
      BY <3>1, <3>3 DEF Database!Current
    <3> QED BY <2>3, <3>2, <3>3
  <2> QED BY <2>1, <2>2, <2>3
<1>3. /\ Database!Fresh \in Driver /\ Database!Fresh.st = "idle" /\ Database!Fresh.after = 0
      /\ ~Database!Fresh.current /\ ~Database!Fresh.writable
  BY DEF Database!Fresh, Driver, Steps, Wants
<1>4. DatabaseShape
  BY <1>1, <1>2, <1>3 DEF DatabaseShape
<1>5. TablesInv
  BY <1>1, <1>2, <1>3 DEF TablesInv, OneMakes, Maker, Relies, Database!WrittenStays, Database!AsWritten
<1>6. ListingInv
  BY <1>1, <1>3 DEF ListingInv, Lists
<1> QED BY <1>4, <1>5, <1>6 DEF DatabaseInv

-----------------------------------------------------------------------------
\* Only the driver of one process is another.
Frame(p) == proc' = [proc EXCEPT ![p] = proc'[p]]

LEMMA GoesIs ==
  ASSUME DatabaseShape, NEW p \in Processes, NEW changes, Database!Goes(p, changes)
  PROVE  Frame(p) /\ proc'[p] = Database!With(proc[p], changes) /\ proc[p] \in Driver
BY DEF DatabaseShape, Database!Goes, Frame

LEMMA AnswersIs ==
  ASSUME DatabaseShape, NEW p \in Processes, NEW listed \in Seq(Nat),
         Database!Answers(p, [listed |-> listed])
  PROVE  /\ Frame(p) /\ proc' \in [Processes -> Driver]
         /\ proc'[p].st = "idle" /\ proc'[p].after = 0 /\ proc'[p].listed = listed
         /\ proc'[p].want = proc[p].want /\ proc'[p].open = proc[p].open
         /\ proc'[p].current = proc[p].current /\ proc'[p].writable = proc[p].writable
<1>1. proc[p] \in Driver /\ proc \in [Processes -> Driver]
  BY DEF DatabaseShape
<1> DEFINE idle == [proc[p] EXCEPT !.st = "idle", !.key = 0, !.after = 0]
<1>2. proc' = [proc EXCEPT ![p] = Database!With(idle, [listed |-> listed])]
  BY DEF Database!Answers
<1>3. LET new == Database!With(idle, [listed |-> listed])
      IN  /\ new \in Driver /\ new.st = "idle" /\ new.after = 0 /\ new.listed = listed
          /\ new.want = proc[p].want /\ new.open = proc[p].open
          /\ new.current = proc[p].current /\ new.writable = proc[p].writable
  BY <1>1 DEF Database!With, Driver, Steps
<1> HIDE DEF idle
<1> QED BY <1>1, <1>2, <1>3 DEF Frame

LEMMA NothingIs == Database!Nothing = [listed |-> <<>>] /\ <<>> \in Seq(Nat)
BY DEF Database!Nothing

\* A step of one process that leaves the tables and what was promised alone, that
\* does not make tables, relies on them only where it did or they are this code's,
\* and has a listing stand where it stood.
Quiet(p) ==
  /\ Frame(p) /\ proc'[p] \in Driver
  /\ file' \in [there : BOOLEAN, version : {file.version}, made : {file.made}, rows : {file.rows}]
  /\ UNCHANGED <<promised, through, raced>> /\ calls' \in Nat /\ kills' \in Nat
  /\ Maker(p)' => Maker(p) /\ proc'[p].st = proc[p].st
  /\ Relies(p)' => Relies(p) \/ file.version = Database!Current
  /\ Lists(p)' => /\ Lists(p)
                  /\ proc'[p].listed = proc[p].listed /\ proc'[p].after = proc[p].after
  /\ proc'[p].st = "idle" => proc'[p].after = 0
  /\ proc'[p].st \in {"ensuring", "dropping", "creating", "stamping"} => proc'[p].want # "list"

ListedStep ==
  \A p \in Processes : Database!Running(p, {"list"}) /\ kills' = kills /\ proc'[p].st = "idle" =>
    Database!IsInjective(proc'[p].listed) /\ through[p] \subseteq Database!ToSet(proc'[p].listed)

LEMMA QuietKeeps ==
  ASSUME DatabaseInv, NEW p \in Processes, Quiet(p)
  PROVE  DatabaseInv'
<1>1. /\ proc \in [Processes -> Driver] /\ proc' \in [Processes -> Driver]
      /\ \A q \in Processes : q # p => proc'[q] = proc[q]
  BY DEF DatabaseInv, DatabaseShape, Quiet, Frame
<1>2. file'.version = file.version /\ file'.made = file.made /\ file'.rows = file.rows
  BY DEF Quiet
<1>3. DatabaseShape'
  BY <1>1 DEF DatabaseInv, DatabaseShape, Quiet
<1>4. TablesInv'
  <2> SUFFICES ASSUME ~raced PROVE OneMakes' /\ Database!WrittenStays'
    BY DEF TablesInv, Quiet
  <2>1. OneMakes /\ Database!WrittenStays
    BY DEF DatabaseInv, TablesInv
  <2>2. \A q \in Processes : Maker(q)' => Maker(q) /\ proc'[q].st = proc[q].st
    BY <1>1 DEF Quiet, Maker
  <2>3. \A q \in Processes : Relies(q)' => Relies(q) \/ file.version = Database!Current
    BY <1>1 DEF Quiet, Relies
  <2>4. \A q \in Processes : proc'[q].st \in {"creating", "stamping"} => proc'[q].st = proc[q].st
    BY <2>2 DEF Maker
  <2>5. OneMakes'
    BY <1>2, <2>1, <2>2, <2>3, <2>4 DEF OneMakes, Quiet
  <2>6. Database!WrittenStays'
    BY <1>2, <2>1 DEF Database!WrittenStays, Database!AsWritten, Quiet
  <2> QED BY <2>5, <2>6
<1>5. ListingInv'
  <2>1. ListingInv /\ through' = through
    BY DEF DatabaseInv, Quiet
  <2>2. \A q \in Processes : Lists(q)' =>
          Lists(q) /\ proc'[q].listed = proc[q].listed /\ proc'[q].after = proc[q].after
    BY <1>1 DEF Quiet, Lists
  <2>3. \A q \in Processes : Lists(q)' => HandedOut(through[q], proc[q].listed, proc[q].after)
    BY <2>1, <2>2 DEF ListingInv
  <2>4. \A q \in Processes : Lists(q)' => HandedOut(through'[q], proc'[q].listed, proc'[q].after)
    BY <2>1, <2>2, <2>3
  <2>5. \A q \in Processes :
          /\ proc'[q].st = "idle" => proc'[q].after = 0
          /\ proc'[q].st \in {"ensuring", "dropping", "creating", "stamping"} => proc'[q].want # "list"
    BY <1>1, <2>1 DEF Quiet, ListingInv
  <2>6. \A q \in Processes, k \in Keys : k \in through'[q] => file'.rows[k] # Database!NoRow
    BY <1>2, <2>1 DEF ListingInv
  <2> QED BY <2>4, <2>5, <2>6 DEF ListingInv
<1> QED BY <1>3, <1>4, <1>5 DEF DatabaseInv

-----------------------------------------------------------------------------
(* The quiet steps.                                                            *)

LEMMA FileIs ==
  ASSUME DatabaseShape
  PROVE  /\ file \in [there : BOOLEAN, version : {file.version}, made : {file.made}, rows : {file.rows}]
         /\ [file EXCEPT !.there = TRUE] \in
              [there : BOOLEAN, version : {file.version}, made : {file.made}, rows : {file.rows}]
         /\ calls \in Nat /\ kills \in Nat /\ file.version \in {0, 2, 3} /\ proc \in [Processes -> Driver]
BY DEF DatabaseShape

\* A call that is over, for whatever reason but a listing's having ended.
LEMMA AnsweredQuiet ==
  ASSUME DatabaseInv, NEW p \in Processes, Database!Answers(p, Database!Nothing),
         UNCHANGED <<file, calls, kills, promised, through, raced>>
  PROVE  Quiet(p)
<1>1. /\ Frame(p) /\ proc' \in [Processes -> Driver]
      /\ proc'[p].st = "idle" /\ proc'[p].after = 0
      /\ proc'[p].current = proc[p].current /\ proc'[p].writable = proc[p].writable
  BY AnswersIs, NothingIs DEF DatabaseInv
<1> QED BY <1>1, FileIs DEF Quiet, Maker, Relies, Lists, DatabaseInv

LEMMA LookQuiet ==
  ASSUME DatabaseInv, NEW p \in Processes, Database!PrepareLook(p)
  PROVE  Quiet(p)
<1>1. UNCHANGED <<file, calls, kills, promised, through, raced>> /\ proc[p].st = "preparing"
  BY DEF Database!PrepareLook, Database!History
<1>2. CASE Database!Answers(p, Database!Nothing)
  BY <1>1, <1>2, AnsweredQuiet
<1>3. CASE file.version = Database!Current /\ Database!Goes(p, [open |-> TRUE, current |-> TRUE])
  <2>1. Frame(p) /\ proc'[p] = Database!With(proc[p], [open |-> TRUE, current |-> TRUE]) /\ proc[p] \in Driver
    BY <1>3, GoesIs DEF DatabaseInv
  <2>2. /\ proc'[p] \in Driver /\ proc'[p].st = proc[p].st /\ proc'[p].want = proc[p].want
        /\ proc'[p].listed = proc[p].listed /\ proc'[p].after = proc[p].after
    BY <2>1 DEF Database!With, Driver
  <2> QED BY <1>1, <1>3, <2>1, <2>2, FileIs DEF Quiet, Maker, Relies, Lists, DatabaseInv
<1>4. CASE Database!Answers(p, [open |-> TRUE])
  <2>1. proc[p] \in Driver /\ proc \in [Processes -> Driver]
    BY DEF DatabaseInv, DatabaseShape
  <2> DEFINE idle == [proc[p] EXCEPT !.st = "idle", !.key = 0, !.after = 0]
  <2>2. proc' = [proc EXCEPT ![p] = Database!With(idle, [open |-> TRUE])]
    BY <1>4 DEF Database!Answers
  <2>3. LET new == Database!With(idle, [open |-> TRUE])
        IN  /\ new \in Driver /\ new.st = "idle" /\ new.after = 0
            /\ new.current = proc[p].current /\ new.writable = proc[p].writable
    BY <2>1 DEF Database!With, Driver, Steps
  <2> HIDE DEF idle
  <2>4. /\ Frame(p) /\ proc'[p] \in Driver /\ proc'[p].st = "idle" /\ proc'[p].after = 0
        /\ proc'[p].current = proc[p].current /\ proc'[p].writable = proc[p].writable
    BY <2>1, <2>2, <2>3 DEF Frame
  <2> QED BY <1>1, <2>4, FileIs DEF Quiet, Maker, Relies, Lists, DatabaseInv
<1> QED BY <1>2, <1>3, <1>4 DEF Database!PrepareLook

LEMMA ChangeQuiet ==
  ASSUME DatabaseInv, NEW p \in Processes, Database!PrepareChange(p)
  PROVE  Quiet(p)
<1>1. /\ file' = [file EXCEPT !.there = TRUE] /\ proc[p].want # "list"
      /\ UNCHANGED <<calls, kills, promised, through, raced>>
  BY DEF Database!PrepareChange, Database!History, Database!Mode
<1>2. Frame(p) /\ proc'[p] = Database!With(proc[p], [open |-> TRUE, st |-> "ensuring"]) /\ proc[p] \in Driver
  BY GoesIs DEF DatabaseInv, Database!PrepareChange
<1>3. /\ proc'[p] \in Driver /\ proc'[p].st = "ensuring" /\ proc'[p].want = proc[p].want
      /\ proc'[p].current = proc[p].current /\ proc'[p].writable = proc[p].writable
  BY <1>2 DEF Database!With, Driver, Steps
<1> QED BY <1>1, <1>2, <1>3, FileIs DEF Quiet, Maker, Relies, Lists, DatabaseInv

LEMMA PreparedQuiet ==
  ASSUME DatabaseInv, NEW p \in Processes, Database!Prepared(p)
  PROVE  Quiet(p)
<1>1. /\ UNCHANGED <<file, calls, kills, promised, through, raced>> /\ proc[p].st = "preparing"
      /\ proc[p].current \/ proc[p].writable
  BY DEF Database!Prepared, Database!History
<1>2. Frame(p) /\ proc'[p] = Database!With(proc[p], [st |-> "running"]) /\ proc[p] \in Driver
  BY GoesIs DEF DatabaseInv, Database!Prepared
<1>3. /\ proc'[p] \in Driver /\ proc'[p].st = "running" /\ proc'[p].want = proc[p].want
      /\ proc'[p].listed = proc[p].listed /\ proc'[p].after = proc[p].after
  BY <1>2 DEF Database!With, Driver, Steps
<1> QED BY <1>1, <1>2, <1>3, FileIs DEF Quiet, Maker, Relies, Lists, DatabaseInv

LEMMA EnsureQuiet ==
  ASSUME DatabaseInv, NEW p \in Processes, Database!Ensure(p)
  PROVE  Quiet(p)
<1>1. /\ UNCHANGED <<file, calls, kills, promised, through, raced>> /\ proc[p].st = "ensuring"
      /\ proc[p].want # "list"
  BY DEF Database!Ensure, Database!History, DatabaseInv, ListingInv
<1>2. CASE file.version = Database!Current
  <2>1. Frame(p) /\ proc'[p] = Database!With(proc[p], [st |-> "running", current |-> TRUE, writable |-> TRUE])
        /\ proc[p] \in Driver
    BY <1>2, GoesIs DEF DatabaseInv, Database!Ensure, Database!Ready
  <2>2. proc'[p] \in Driver /\ proc'[p].st = "running" /\ proc'[p].want = proc[p].want
    BY <2>1 DEF Database!With, Driver, Steps
  <2> QED BY <1>1, <1>2, <2>1, <2>2, FileIs DEF Quiet, Maker, Relies, Lists, DatabaseInv
<1>3. CASE file.version # Database!Current
  <2>1. Frame(p) /\ proc'[p] = Database!With(proc[p], [st |-> "dropping"]) /\ proc[p] \in Driver
    BY <1>3, GoesIs DEF DatabaseInv, Database!Ensure
  <2>2. /\ proc'[p] \in Driver /\ proc'[p].st = "dropping" /\ proc'[p].want = proc[p].want
        /\ proc'[p].current = proc[p].current /\ proc'[p].writable = proc[p].writable
    BY <2>1 DEF Database!With, Driver, Steps
  <2> QED BY <1>1, <1>3, <2>1, <2>2, FileIs DEF Quiet, Maker, Relies, Lists, DatabaseInv
<1> QED BY <1>2, <1>3

LEMMA ReadQuiet ==
  ASSUME DatabaseInv, NEW p \in Processes, Database!Read(p)
  PROVE  Quiet(p)
<1>1. UNCHANGED <<file, calls, kills, promised, through, raced>>
  BY DEF Database!Read, Database!History
<1>2. CASE Database!Answers(p, Database!Nothing)
  BY <1>1, <1>2, AnsweredQuiet
<1>3. CASE Database!Goes(p, [st |-> "preparing", want |-> "remove"])
  <2>1. Frame(p) /\ proc'[p] = Database!With(proc[p], [st |-> "preparing", want |-> "remove"])
        /\ proc[p] \in Driver
    BY <1>3, GoesIs DEF DatabaseInv
  <2>2. /\ proc'[p] \in Driver /\ proc'[p].st = "preparing" /\ proc'[p].want = "remove"
        /\ proc'[p].current = proc[p].current /\ proc'[p].writable = proc[p].writable
    BY <2>1 DEF Database!With, Driver, Steps, Wants
  <2> QED BY <1>1, <2>1, <2>2, FileIs DEF Quiet, Maker, Relies, Lists, DatabaseInv
<1> QED BY <1>2, <1>3 DEF Database!Read

LEMMA EndsQuiet ==
  ASSUME DatabaseInv, NEW p \in Processes, Database!Ends(p)
  PROVE  Quiet(p)
<1>1. /\ UNCHANGED <<file, calls, promised, through, raced>> /\ kills' = kills + 1
      /\ proc' = [proc EXCEPT ![p] = Database!Fresh]
  BY DEF Database!Ends, Database!History
<1>2. /\ Database!Fresh \in Driver /\ Database!Fresh.st = "idle" /\ Database!Fresh.after = 0
      /\ ~Database!Fresh.current /\ ~Database!Fresh.writable
  BY NothingIs DEF Database!Fresh, Driver, Steps, Wants
<1>3. Frame(p) /\ proc'[p] = Database!Fresh
  BY <1>1 DEF Frame, DatabaseInv, DatabaseShape
<1> QED BY <1>1, <1>2, <1>3, FileIs DEF Quiet, Maker, Relies, Lists, DatabaseInv

-----------------------------------------------------------------------------
(* The steps that begin a call, make tables, or change what is in them.        *)

\* What others' drivers are to the invariants, after a step of one.
LEMMA OthersStand ==
  ASSUME DatabaseInv, NEW p \in Processes, Frame(p), proc'[p] \in Driver
  PROVE  /\ proc' \in [Processes -> Driver]
         /\ \A q \in Processes : q # p =>
              proc'[q] = proc[q] /\ (Maker(q)' <=> Maker(q)) /\ (Relies(q)' <=> Relies(q))
                                 /\ (Lists(q)' <=> Lists(q))
<1>1. /\ proc \in [Processes -> Driver] /\ proc' \in [Processes -> Driver]
      /\ \A q \in Processes : q # p => proc'[q] = proc[q]
  BY DEF DatabaseInv, DatabaseShape, Frame
<1> QED BY <1>1 DEF Maker, Relies, Lists

LEMMA CallKeeps ==
  ASSUME DatabaseInv, NEW p \in Processes, Database!Call(p)
  PROVE  DatabaseInv'
<1>1. proc \in [Processes -> Driver] /\ proc[p].st = "idle" /\ proc[p].after = 0
  BY DEF DatabaseInv, DatabaseShape, ListingInv, Database!Call
<1>2. /\ calls' = calls + 1 /\ UNCHANGED <<file, kills, promised, raced>>
      /\ \/ through' = through
         \/ through' = [through EXCEPT ![p] = {k \in Keys : file.rows[k] # Database!NoRow}]
  BY DEF Database!Call
<1>3. /\ Frame(p) /\ proc'[p] \in Driver /\ proc'[p].st = "preparing" /\ proc'[p].after = 0
      /\ proc'[p].listed = <<>>
      /\ proc'[p].current = proc[p].current /\ proc'[p].writable = proc[p].writable
  <2>1. CASE \E want \in {"meta", "read", "inspect", "write", "delete"}, key \in Keys :
               Database!Goes(p, [st |-> "preparing", want |-> want, key |-> key, listed |-> <<>>])
    <3>1. PICK want \in {"meta", "read", "inspect", "write", "delete"}, key \in Keys :
            Database!Goes(p, [st |-> "preparing", want |-> want, key |-> key, listed |-> <<>>])
      BY <2>1
    <3>2. want \in Wants /\ key \in Nat
      BY CacheAssumption DEF Wants, Database!CacheAssumption
    <3>3. Frame(p) /\ proc[p] \in Driver /\ proc'[p] =
            Database!With(proc[p], [st |-> "preparing", want |-> want, key |-> key, listed |-> <<>>])
      BY <3>1, GoesIs DEF DatabaseInv
    <3> DEFINE new(s) == Database!With(proc[p], [st |-> "preparing", want |-> want, key |-> key, listed |-> s])
    <3>4. \A s \in Seq(Nat) :
            /\ new(s) \in Driver /\ new(s).st = "preparing" /\ new(s).after = proc[p].after
            /\ new(s).listed = s
            /\ new(s).current = proc[p].current /\ new(s).writable = proc[p].writable
      BY <3>2, <3>3 DEF Database!With, Driver, Steps
    <3>5. proc'[p] = new(<<>>)
      BY <3>3
    <3> HIDE DEF new
    <3> QED BY <1>1, <3>3, <3>4, <3>5, NothingIs
  <2>2. CASE \E want \in {"list", "prune"} :
               Database!Goes(p, [st |-> "preparing", want |-> want, listed |-> <<>>])
    <3>1. PICK want \in {"list", "prune"} :
            Database!Goes(p, [st |-> "preparing", want |-> want, listed |-> <<>>])
      BY <2>2
    <3>2. want \in Wants
      BY DEF Wants
    <3>3. Frame(p) /\ proc[p] \in Driver /\ proc'[p] =
            Database!With(proc[p], [st |-> "preparing", want |-> want, listed |-> <<>>])
      BY <3>1, GoesIs DEF DatabaseInv
    <3> DEFINE new(s) == Database!With(proc[p], [st |-> "preparing", want |-> want, listed |-> s])
    <3>4. \A s \in Seq(Nat) :
            /\ new(s) \in Driver /\ new(s).st = "preparing" /\ new(s).after = proc[p].after
            /\ new(s).listed = s
            /\ new(s).current = proc[p].current /\ new(s).writable = proc[p].writable
      BY <3>2, <3>3 DEF Database!With, Driver, Steps
    <3>5. proc'[p] = new(<<>>)
      BY <3>3
    <3> HIDE DEF new
    <3> QED BY <1>1, <3>3, <3>4, <3>5, NothingIs
  <2> QED BY <2>1, <2>2 DEF Database!Call
<1>4. /\ proc' \in [Processes -> Driver]
      /\ \A q \in Processes : q # p => proc'[q] = proc[q] /\ (Maker(q)' <=> Maker(q))
           /\ (Relies(q)' <=> Relies(q)) /\ (Lists(q)' <=> Lists(q))
  BY <1>3, OthersStand
<1>5. /\ through' \in [Processes -> SUBSET Keys]
      /\ \A q \in Processes : through'[q] = through[q]
           \/ \A k \in through'[q] : file.rows[k] # Database!NoRow
      /\ \A q \in Processes : q # p => through'[q] = through[q]
  BY <1>2 DEF DatabaseInv, DatabaseShape
<1>6. DatabaseShape'
  BY <1>2, <1>4, <1>5 DEF DatabaseInv, DatabaseShape
<1>7. TablesInv'
  <2>1. \A q \in Processes : Maker(q)' => q # p /\ Maker(q) /\ proc'[q] = proc[q]
    BY <1>3, <1>4 DEF Maker
  <2>2. \A q \in Processes : Relies(q)' => Relies(q)
    BY <1>1, <1>3, <1>4 DEF Relies
  <2> SUFFICES ASSUME ~raced PROVE OneMakes' /\ Database!WrittenStays'
    BY <1>2 DEF TablesInv
  <2>3. OneMakes /\ Database!WrittenStays
    BY DEF DatabaseInv, TablesInv
  <2>4. \A q \in Processes : proc'[q].st \in {"creating", "stamping"} => proc'[q].st = proc[q].st
    BY <2>1 DEF Maker
  <2>5. OneMakes'
    BY <1>2, <2>1, <2>2, <2>3, <2>4 DEF OneMakes
  <2>6. Database!WrittenStays'
    BY <1>2, <2>3 DEF Database!WrittenStays, Database!AsWritten
  <2> QED BY <2>5, <2>6
<1>8. ListingInv'
  <2>1. ListingInv
    BY DEF DatabaseInv
  <2>2. \A q \in Processes, k \in Keys : k \in through'[q] => file'.rows[k] # Database!NoRow
    BY <1>2, <1>5, <2>1 DEF ListingInv
  <2>3. HandedOut(through'[p], proc'[p].listed, proc'[p].after)
    <3>1. Len(<<>>) = 0 /\ \A k \in through'[p] : k \in Nat \ {0}
      BY <1>5, CacheAssumption DEF Database!CacheAssumption
    <3>2. proc'[p].listed = <<>> /\ proc'[p].after = 0
      BY <1>3
    <3>3. HandedOut(through'[p], <<>>, 0)
      BY <3>1 DEF HandedOut
    <3> QED BY <3>2, <3>3
  <2>4. ASSUME NEW q \in Processes, Lists(q)'
        PROVE  HandedOut(through'[q], proc'[q].listed, proc'[q].after)
    <3>1. CASE q = p
      BY <2>3, <3>1
    <3>2. CASE q # p
      <4>1. Lists(q) /\ proc'[q] = proc[q] /\ through'[q] = through[q]
        BY <1>4, <1>5, <2>4, <3>2
      <4>2. HandedOut(through[q], proc[q].listed, proc[q].after)
        BY <2>1, <4>1 DEF ListingInv
      <4> QED BY <4>1, <4>2
    <3> QED BY <3>1, <3>2
  <2>5. \A q \in Processes :
          /\ proc'[q].st = "idle" => proc'[q].after = 0
          /\ proc'[q].st \in {"ensuring", "dropping", "creating", "stamping"} => proc'[q].want # "list"
    BY <1>3, <1>4, <2>1 DEF ListingInv
  <2> QED BY <2>2, <2>4, <2>5 DEF ListingInv
<1> QED BY <1>6, <1>7, <1>8 DEF DatabaseInv

LEMMA DropKeeps ==
  ASSUME DatabaseInv, NEW p \in Processes, Database!Drop(p)
  PROVE  DatabaseInv'
<1>1. /\ proc[p].st = "dropping" /\ file' = [file EXCEPT !.made = FALSE, !.rows = Database!Empty]
      /\ through' = [q \in Processes |-> {}] /\ UNCHANGED <<calls, kills, promised>>
      /\ raced' = (raced \/ file.version = Database!Current
                         \/ \E q \in Processes \ {p} : Database!Making(q))
  BY DEF Database!Drop
<1>2. Frame(p) /\ proc'[p] = Database!With(proc[p], [st |-> "creating"]) /\ proc[p] \in Driver
  BY GoesIs DEF DatabaseInv, Database!Drop
<1>3. /\ proc'[p] \in Driver /\ proc'[p].st = "creating" /\ proc'[p].want = proc[p].want
      /\ proc'[p].current = proc[p].current /\ proc'[p].writable = proc[p].writable
  BY <1>2 DEF Database!With, Driver, Steps
<1>4. /\ proc' \in [Processes -> Driver]
      /\ \A q \in Processes : q # p => proc'[q] = proc[q] /\ (Maker(q)' <=> Maker(q))
           /\ (Relies(q)' <=> Relies(q)) /\ (Lists(q)' <=> Lists(q))
  BY <1>2, <1>3, OthersStand
<1>5. Database!Empty \in [Keys -> [of : Nat, holds : Holds]]
  BY DEF Database!Empty, Database!NoRow, Holds
<1>6. file'.version = file.version /\ file'.made = FALSE /\ file'.rows = Database!Empty
  BY <1>1 DEF DatabaseInv, DatabaseShape
<1>7. DatabaseShape'
  <2>1. raced' \in BOOLEAN
    BY <1>1
  <2>2. file' \in [there : BOOLEAN, version : {0, 2, 3}, made : BOOLEAN,
                   rows : [Keys -> [of : Nat, holds : Holds]]]
    BY <1>1, <1>5 DEF DatabaseInv, DatabaseShape
  <2> QED BY <1>1, <1>4, <2>1, <2>2 DEF DatabaseInv, DatabaseShape
<1>8. TablesInv'
  <2> SUFFICES ASSUME ~raced' PROVE OneMakes' /\ Database!WrittenStays'
    BY DEF TablesInv
  <2>1. ~raced /\ file.version # Database!Current /\ \A q \in Processes : q # p => ~Maker(q)
    BY <1>1 DEF Database!Making, Maker
  <2>2. OneMakes
    BY <2>1 DEF DatabaseInv, TablesInv
  <2>3. \A q \in Processes : Maker(q)' => q = p
    BY <1>4, <2>1
  <2>4. \A q \in Processes : ~Relies(q)
    BY <2>1, <2>2 DEF OneMakes
  <2>5. \A q \in Processes : ~Relies(q)'
    BY <1>3, <1>4, <2>4 DEF Relies
  <2>6. \A q \in Processes : proc'[q].st # "stamping"
    BY <1>3, <2>3 DEF Maker
  <2>7. \A k \in Keys : promised'[k] = 0
    BY <1>1, <2>1, <2>2 DEF OneMakes
  <2>8. OneMakes'
    BY <1>6, <2>1, <2>3, <2>5, <2>6, <2>7 DEF OneMakes
  <2>9. Database!WrittenStays'
    BY <1>6, <2>1, <2>7 DEF Database!WrittenStays, Database!AsWritten
  <2> QED BY <2>8, <2>9
<1>9. ListingInv'
  <2>1. ListingInv
    BY DEF DatabaseInv
  <2>2. \A q \in Processes : through'[q] = {}
    BY <1>1
  <2>3. ~Lists(p)' /\ proc'[p].want # "list"
    BY <1>1, <1>3, <2>1 DEF Lists, ListingInv
  <2>4. \A q \in Processes : Lists(q)' => HandedOut(through'[q], proc'[q].listed, proc'[q].after)
    BY <1>4, <2>1, <2>2, <2>3 DEF ListingInv, HandedOut
  <2>5. \A q \in Processes :
          /\ proc'[q].st = "idle" => proc'[q].after = 0
          /\ proc'[q].st \in {"ensuring", "dropping", "creating", "stamping"} => proc'[q].want # "list"
    BY <1>3, <1>4, <2>1, <2>3 DEF ListingInv
  <2> QED BY <2>2, <2>4, <2>5 DEF ListingInv
<1> QED BY <1>7, <1>8, <1>9 DEF DatabaseInv

LEMMA CreateKeeps ==
  ASSUME DatabaseInv, NEW p \in Processes, Database!Create(p)
  PROVE  DatabaseInv'
<1>1. proc[p].st = "creating" /\ UNCHANGED <<calls, kills, promised, through, raced>>
  BY DEF Database!Create, Database!History
<1>2. CASE file.made
  <2>1. Database!Answers(p, Database!Nothing) /\ UNCHANGED file
    BY <1>2 DEF Database!Create
  <2> QED BY <1>1, <2>1, AnsweredQuiet, QuietKeeps
<1>3. CASE ~file.made
  <2>1. Database!Goes(p, [st |-> "stamping"]) /\ file' = [file EXCEPT !.made = TRUE]
    BY <1>3 DEF Database!Create
  <2>2. Frame(p) /\ proc'[p] = Database!With(proc[p], [st |-> "stamping"]) /\ proc[p] \in Driver
    BY <2>1, GoesIs DEF DatabaseInv
  <2>3. /\ proc'[p] \in Driver /\ proc'[p].st = "stamping" /\ proc'[p].want = proc[p].want
        /\ proc'[p].current = proc[p].current /\ proc'[p].writable = proc[p].writable
    BY <2>2 DEF Database!With, Driver, Steps
  <2>4. /\ proc' \in [Processes -> Driver]
        /\ \A q \in Processes : q # p => proc'[q] = proc[q] /\ (Maker(q)' <=> Maker(q))
             /\ (Relies(q)' <=> Relies(q)) /\ (Lists(q)' <=> Lists(q))
    BY <2>2, <2>3, OthersStand
  <2>5. file'.version = file.version /\ file'.made = TRUE /\ file'.rows = file.rows
    BY <2>1 DEF DatabaseInv, DatabaseShape
  <2>6. DatabaseShape'
    BY <1>1, <2>1, <2>4 DEF DatabaseInv, DatabaseShape
  <2>7. TablesInv'
    <3> SUFFICES ASSUME ~raced PROVE OneMakes' /\ Database!WrittenStays'
      BY <1>1 DEF TablesInv
    <3>1. OneMakes /\ Database!WrittenStays
      BY DEF DatabaseInv, TablesInv
    <3>2. Maker(p) /\ \A q \in Processes : Maker(q) => q = p
      BY <1>1, <3>1 DEF OneMakes, Maker
    <3>3. \A q \in Processes : Maker(q)' => q = p
      BY <2>4, <3>2
    <3>4. \A q \in Processes : Relies(q)' => Relies(q)
      BY <2>3, <2>4 DEF Relies
    <3>5. \A q \in Processes : proc'[q].st # "creating"
      BY <2>3, <3>3 DEF Maker
    <3>6. file.version # Database!Current
      BY <3>1, <3>2 DEF OneMakes
    <3>7. OneMakes'
      BY <1>1, <2>5, <3>1, <3>3, <3>4, <3>5, <3>6 DEF OneMakes
    <3>8. Database!WrittenStays'
      BY <1>1, <2>5, <3>1 DEF Database!WrittenStays, Database!AsWritten
    <3> QED BY <3>7, <3>8
  <2>8. ListingInv'
    <3>1. ListingInv /\ through' = through
      BY <1>1 DEF DatabaseInv
    <3>2. ~Lists(p)' /\ proc'[p].want # "list"
      BY <1>1, <2>3, <3>1 DEF Lists, ListingInv
    <3>3. \A q \in Processes : Lists(q)' => HandedOut(through'[q], proc'[q].listed, proc'[q].after)
      BY <2>4, <3>1, <3>2 DEF ListingInv
    <3>4. \A q \in Processes :
            /\ proc'[q].st = "idle" => proc'[q].after = 0
            /\ proc'[q].st \in {"ensuring", "dropping", "creating", "stamping"} => proc'[q].want # "list"
      BY <2>3, <2>4, <3>1, <3>2 DEF ListingInv
    <3>5. \A q \in Processes, k \in Keys : k \in through'[q] => file'.rows[k] # Database!NoRow
      BY <2>5, <3>1 DEF ListingInv
    <3> QED BY <3>3, <3>4, <3>5 DEF ListingInv
  <2> QED BY <2>6, <2>7, <2>8 DEF DatabaseInv
<1> QED BY <1>2, <1>3

LEMMA StampKeeps ==
  ASSUME DatabaseInv, NEW p \in Processes, Database!Stamp(p)
  PROVE  DatabaseInv'
<1>1. /\ proc[p].st = "stamping" /\ file' = [file EXCEPT !.version = Database!Current]
      /\ UNCHANGED <<calls, kills, promised, through, raced>>
  BY DEF Database!Stamp, Database!History
<1>2. Frame(p) /\ proc'[p] = Database!With(proc[p], [st |-> "running", current |-> TRUE, writable |-> TRUE])
      /\ proc[p] \in Driver
  BY GoesIs DEF DatabaseInv, Database!Stamp, Database!Ready
<1>3. proc'[p] \in Driver /\ proc'[p].st = "running" /\ proc'[p].want = proc[p].want
  BY <1>2 DEF Database!With, Driver, Steps
<1>4. /\ proc' \in [Processes -> Driver]
      /\ \A q \in Processes : q # p => proc'[q] = proc[q] /\ (Maker(q)' <=> Maker(q))
           /\ (Relies(q)' <=> Relies(q)) /\ (Lists(q)' <=> Lists(q))
  BY <1>2, <1>3, OthersStand
<1>5. file'.version = Database!Current /\ file'.made = file.made /\ file'.rows = file.rows
  BY <1>1 DEF DatabaseInv, DatabaseShape
<1>6. DatabaseShape'
  BY <1>1, <1>4 DEF DatabaseInv, DatabaseShape, Database!Current
<1>7. TablesInv'
  <2> SUFFICES ASSUME ~raced PROVE OneMakes' /\ Database!WrittenStays'
    BY <1>1 DEF TablesInv
  <2>1. OneMakes
    BY DEF DatabaseInv, TablesInv
  <2>2. Maker(p) /\ file.made /\ \A q \in Processes : Maker(q) => q = p
    BY <1>1, <2>1 DEF OneMakes, Maker
  <2>3. \A q \in Processes : ~Maker(q)'
    BY <1>3, <1>4, <2>2 DEF Maker
  <2>4. \A k \in Keys : promised[k] = 0
    BY <2>1, <2>2 DEF OneMakes
  <2>5. OneMakes'
    BY <1>5, <2>3 DEF OneMakes, Maker
  <2>6. Database!WrittenStays'
    BY <1>1, <1>5, <2>2, <2>4 DEF Database!WrittenStays, Database!AsWritten
  <2> QED BY <2>5, <2>6
<1>8. ListingInv'
  <2>1. ListingInv /\ through' = through
    BY <1>1 DEF DatabaseInv
  <2>2. ~Lists(p)' /\ proc'[p].want # "list"
    BY <1>1, <1>3, <2>1 DEF Lists, ListingInv
  <2>3. \A q \in Processes : Lists(q)' => HandedOut(through'[q], proc'[q].listed, proc'[q].after)
    BY <1>4, <2>1, <2>2 DEF ListingInv
  <2>4. \A q \in Processes :
          /\ proc'[q].st = "idle" => proc'[q].after = 0
          /\ proc'[q].st \in {"ensuring", "dropping", "creating", "stamping"} => proc'[q].want # "list"
    BY <1>3, <1>4, <2>1 DEF ListingInv
  <2>5. \A q \in Processes, k \in Keys : k \in through'[q] => file'.rows[k] # Database!NoRow
    BY <1>5, <2>1 DEF ListingInv
  <2> QED BY <2>3, <2>4, <2>5 DEF ListingInv
<1> QED BY <1>6, <1>7, <1>8 DEF DatabaseInv

\* A statement that changes rows, by a driver whose tables are there: every key is
\* as it was, or as it is promised to be, and no listing counts on one taken.
LEMMA RowsKeep ==
  ASSUME DatabaseInv, NEW p \in Processes, Database!Answers(p, Database!Nothing), Relies(p),
         NEW rows \in [Keys -> [of : Nat, holds : Holds]], file' = [file EXCEPT !.rows = rows],
         promised' \in [Keys -> Nat], through' \in [Processes -> SUBSET Keys],
         \A k \in Keys : \/ promised'[k] = promised[k] /\ rows[k] = file.rows[k]
                         \/ promised'[k] # 0 => rows[k] = [of |-> promised'[k], holds |-> "readable"],
         \A q \in Processes : through'[q] \subseteq through[q],
         \A q \in Processes, k \in Keys : k \in through'[q] =>
           rows[k] = file.rows[k] \/ rows[k] # Database!NoRow,
         UNCHANGED <<calls, kills, raced>>
  PROVE  DatabaseInv'
<1>1. /\ Frame(p) /\ proc' \in [Processes -> Driver]
      /\ proc'[p].st = "idle" /\ proc'[p].after = 0
      /\ proc'[p].current = proc[p].current /\ proc'[p].writable = proc[p].writable
  BY AnswersIs, NothingIs DEF DatabaseInv
<1>2. \A q \in Processes : q # p => proc'[q] = proc[q] /\ (Maker(q)' <=> Maker(q))
         /\ (Relies(q)' <=> Relies(q)) /\ (Lists(q)' <=> Lists(q))
  <2>1. proc'[p] \in Driver
    BY <1>1
  <2> QED BY <1>1, <2>1, OthersStand
<1>3. file'.version = file.version /\ file'.made = file.made /\ file'.rows = rows
  BY DEF DatabaseInv, DatabaseShape
<1>4. DatabaseShape'
  BY <1>1 DEF DatabaseInv, DatabaseShape
<1>5. TablesInv'
  <2> SUFFICES ASSUME ~raced PROVE OneMakes' /\ Database!WrittenStays'
    BY DEF TablesInv
  <2>1. OneMakes /\ Database!WrittenStays
    BY DEF DatabaseInv, TablesInv
  <2>2. file.version = Database!Current
    BY <2>1 DEF OneMakes
  <2>3. \A q \in Processes : ~Maker(q)
    BY <2>1, <2>2 DEF OneMakes
  <2>4. \A q \in Processes : ~Maker(q)'
    BY <1>1, <1>2, <2>3 DEF Maker
  <2>5. OneMakes'
    BY <1>3, <2>2, <2>4 DEF OneMakes, Maker
  <2>6. \A k \in Keys : promised'[k] # 0 => rows[k] = [of |-> promised'[k], holds |-> "readable"]
    BY <2>1 DEF Database!WrittenStays, Database!AsWritten
  <2>7. Database!WrittenStays'
    BY <1>3, <2>1, <2>6 DEF Database!WrittenStays, Database!AsWritten
  <2> QED BY <2>5, <2>7
<1>6. ListingInv'
  <2>1. ListingInv
    BY DEF DatabaseInv
  <2>2. \A q \in Processes, k \in Keys : k \in through'[q] => file'.rows[k] # Database!NoRow
    <3>1. \A q \in Processes, k \in Keys : k \in through'[q] => file.rows[k] # Database!NoRow
      BY <2>1 DEF ListingInv
    <3> QED BY <1>3, <3>1
  <2>3. ~Lists(p)'
    BY <1>1 DEF Lists
  <2>4. \A q \in Processes : Lists(q)' => HandedOut(through'[q], proc'[q].listed, proc'[q].after)
    <3>1. \A q \in Processes : Lists(q)' =>
            HandedOut(through[q], proc'[q].listed, proc'[q].after)
      BY <1>2, <2>1, <2>3 DEF ListingInv
    <3> QED BY <3>1 DEF HandedOut
  <2>5. \A q \in Processes :
          /\ proc'[q].st = "idle" => proc'[q].after = 0
          /\ proc'[q].st \in {"ensuring", "dropping", "creating", "stamping"} => proc'[q].want # "list"
    BY <1>1, <1>2, <2>1 DEF ListingInv
  <2> QED BY <2>2, <2>4, <2>5 DEF ListingInv
<1> QED BY <1>4, <1>5, <1>6 DEF DatabaseInv

LEMMA WriteKeeps ==
  ASSUME DatabaseInv, NEW p \in Processes, Database!Write(p)
  PROVE  DatabaseInv'
<1>1. /\ Relies(p) /\ Database!Answers(p, Database!Nothing) /\ UNCHANGED <<calls, kills, through, raced>>
  BY DEF Database!Write, Database!Running, Relies
<1> DEFINE rows == [file.rows EXCEPT ![proc[p].key] = [of |-> calls, holds |-> "readable"]]
<1>2. file' = [file EXCEPT !.rows = rows] /\ promised' = [promised EXCEPT ![proc[p].key] = calls]
  BY DEF Database!Write, Database!Rows
<1>3. /\ file.rows \in [Keys -> [of : Nat, holds : Holds]] /\ promised \in [Keys -> Nat] /\ calls \in Nat
      /\ through \in [Processes -> SUBSET Keys]
  BY DEF DatabaseInv, DatabaseShape
<1>4. [of |-> calls, holds |-> "readable"] \in [of : Nat, holds : Holds]
      /\ [of |-> calls, holds |-> "readable"] # Database!NoRow
  BY <1>3 DEF Holds, Database!NoRow
<1>5. rows \in [Keys -> [of : Nat, holds : Holds]] /\ promised' \in [Keys -> Nat]
  BY <1>2, <1>3, <1>4
<1>6. \A k \in Keys : \/ k # proc[p].key /\ promised'[k] = promised[k] /\ rows[k] = file.rows[k]
                      \/ /\ promised'[k] = calls
                         /\ rows[k] = [of |-> calls, holds |-> "readable"]
  BY <1>2, <1>3
<1> HIDE DEF rows
<1>7. \A k \in Keys : \/ promised'[k] = promised[k] /\ rows[k] = file.rows[k]
                      \/ promised'[k] # 0 => rows[k] = [of |-> promised'[k], holds |-> "readable"]
  BY <1>6
<1>8. \A q \in Processes, k \in Keys : k \in through'[q] =>
        rows[k] = file.rows[k] \/ rows[k] # Database!NoRow
  BY <1>4, <1>6
<1>9. through' = through
  BY <1>1
<1> QED BY <1>1, <1>2, <1>3, <1>5, <1>7, <1>8, <1>9, RowsKeep

LEMMA DeleteKeeps ==
  ASSUME DatabaseInv, NEW p \in Processes, Database!Delete(p)
  PROVE  DatabaseInv'
<1>1. /\ Relies(p) /\ Database!Answers(p, Database!Nothing) /\ UNCHANGED <<calls, kills, raced>>
  BY DEF Database!Delete, Database!Running, Relies
<1> DEFINE taken == Database!Taken(p)
           rows == [k \in Keys |-> IF k \in taken THEN Database!NoRow ELSE file.rows[k]]
<1>2. /\ file' = [file EXCEPT !.rows = rows]
      /\ promised' = [k \in Keys |-> IF k \in taken THEN 0 ELSE promised[k]]
      /\ through' = [q \in Processes |-> through[q] \ taken]
  BY DEF Database!Delete, Database!Rows
<1>3. /\ file.rows \in [Keys -> [of : Nat, holds : Holds]] /\ promised \in [Keys -> Nat]
      /\ through \in [Processes -> SUBSET Keys]
  BY DEF DatabaseInv, DatabaseShape
<1>4. Database!NoRow \in [of : Nat, holds : Holds]
  BY DEF Holds, Database!NoRow
<1> HIDE DEF taken
<1>5. rows \in [Keys -> [of : Nat, holds : Holds]] /\ promised' \in [Keys -> Nat]
  BY <1>2, <1>3, <1>4
<1>6. \A k \in Keys : \/ k \notin taken /\ promised'[k] = promised[k] /\ rows[k] = file.rows[k]
                      \/ k \in taken /\ promised'[k] = 0
  BY <1>2, <1>3
<1>7. /\ through' \in [Processes -> SUBSET Keys]
      /\ \A q \in Processes : through'[q] = through[q] \ taken
  BY <1>2, <1>3
<1> HIDE DEF rows
<1>8. \A k \in Keys : \/ promised'[k] = promised[k] /\ rows[k] = file.rows[k]
                      \/ promised'[k] # 0 => rows[k] = [of |-> promised'[k], holds |-> "readable"]
  BY <1>6
<1>9. \A q \in Processes, k \in Keys : k \in through'[q] =>
        rows[k] = file.rows[k] \/ rows[k] # Database!NoRow
  BY <1>6, <1>7
<1>10. \A q \in Processes : through'[q] \subseteq through[q]
  BY <1>7
<1> QED BY <1>1, <1>2, <1>5, <1>7, <1>8, <1>9, <1>10, RowsKeep

-----------------------------------------------------------------------------
(* A page of keys: the first so many, each by how many come before it.         *)

Before(keys, k) == {j \in keys : j < k}
Rank(keys, k) == Cardinality(Before(keys, k))

\* A set of numbers that holds one has a least.
LEMMA LeastIsOne ==
  ASSUME NEW set \in SUBSET Nat, set # {}
  PROVE  \E least \in set : \A other \in set : least <= other
<1>1. PICK least \in set : \A other \in set : <<other, least>> \notin OpToRel(<, Nat)
  BY NatLessThanWellFounded, WFMin
<1>2. SUFFICES ASSUME NEW other \in set PROVE least <= other
  OBVIOUS
<1>3. OpToRel(<, Nat) = {pair \in Nat \X Nat : pair[1] < pair[2]}
  BY DEF OpToRel
<1>4. <<other, least>> \in Nat \X Nat /\ <<other, least>> \notin {pair \in Nat \X Nat : pair[1] < pair[2]}
  BY <1>1, <1>3
<1> QED BY <1>4

LEMMA RanksAreOfOne ==
  ASSUME NEW keys \in SUBSET Nat, IsFiniteSet(keys), NEW j \in keys, NEW k \in keys
  PROVE  /\ Rank(keys, k) \in 0 .. (Cardinality(keys) - 1) /\ Cardinality(keys) \in Nat
         /\ j < k => Rank(keys, j) < Rank(keys, k)
         /\ Rank(keys, j) = Rank(keys, k) => j = k
<1>1. \A one, other \in keys : one < other => Rank(keys, one) < Rank(keys, other)
  <2> SUFFICES ASSUME NEW one \in keys, NEW other \in keys, one < other
               PROVE  Rank(keys, one) < Rank(keys, other)
    OBVIOUS
  <2>1. Before(keys, one) \cup {one} \subseteq Before(keys, other) /\ one \notin Before(keys, one)
    <3>1. \A early \in keys : early \in Nat
      OBVIOUS
    <3>2. \A early \in keys : early < one => early < other
      BY <3>1
    <3>3. one \notin Before(keys, one)
      BY <3>1 DEF Before
    <3>4. Before(keys, one) \subseteq Before(keys, other) /\ one \in Before(keys, other)
      BY <3>2 DEF Before
    <3> QED BY <3>3, <3>4
  <2>2. /\ IsFiniteSet(Before(keys, one)) /\ Cardinality(Before(keys, one)) \in Nat
        /\ IsFiniteSet(Before(keys, other)) /\ Cardinality(Before(keys, other)) \in Nat
    BY FS_Subset, FS_CardinalityType DEF Before
  <2>3. Cardinality(Before(keys, one) \cup {one}) = Cardinality(Before(keys, one)) + 1
    BY <2>1, <2>2, FS_AddElement
  <2>4. Cardinality(Before(keys, one) \cup {one}) <= Cardinality(Before(keys, other))
    BY <2>1, <2>2, FS_Subset
  <2> QED BY <2>2, <2>3, <2>4 DEF Rank
<1>2. \A one \in keys : Rank(keys, one) \in Nat
  BY FS_Subset, FS_CardinalityType DEF Rank, Before
<1>3. Cardinality(keys) \in Nat /\ Rank(keys, k) < Cardinality(keys)
  <2>1. Before(keys, k) \cup {k} \subseteq keys /\ k \notin Before(keys, k)
    BY DEF Before
  <2>2. IsFiniteSet(Before(keys, k)) /\ Cardinality(keys) \in Nat
    BY FS_Subset, FS_CardinalityType DEF Before
  <2>3. Cardinality(Before(keys, k) \cup {k}) = Cardinality(Before(keys, k)) + 1
    BY <2>1, <2>2, FS_AddElement
  <2>4. Cardinality(Before(keys, k) \cup {k}) <= Cardinality(keys)
    BY <2>1, FS_Subset
  <2> QED BY <1>2, <2>2, <2>3, <2>4 DEF Rank
<1>4. j < k \/ k < j \/ j = k
  OBVIOUS
<1> QED BY <1>1, <1>2, <1>3, <1>4

\* Every rank below how many there are is that of one of them: were one not, the
\* least such would come after one that is, and what is left after that has a least.
LEMMA EachRankIsTaken ==
  ASSUME NEW keys \in SUBSET Nat, IsFiniteSet(keys)
  PROVE  \A i \in 0 .. (Cardinality(keys) - 1) : \E k \in keys : Rank(keys, k) = i
<1> DEFINE untaken == {i \in Nat : i < Cardinality(keys) /\ \A k \in keys : Rank(keys, k) # i}
<1>1. Cardinality(keys) \in Nat
  BY FS_CardinalityType
<1>2. SUFFICES ASSUME untaken # {} PROVE FALSE
  BY <1>1
<1>3. PICK i \in untaken : \A other \in untaken : i <= other
  BY <1>2, LeastIsOne
<1>4. i \in Nat /\ i < Cardinality(keys) /\ \A k \in keys : Rank(keys, k) # i
  BY <1>3
<1>5. CASE i = 0
  <2>1. keys # {}
    BY <1>1, <1>4, FS_EmptySet
  <2>2. PICK least \in keys : \A other \in keys : least <= other
    BY <2>1, LeastIsOne
  <2>3. Before(keys, least) = {}
    <3>1. \A other \in keys : ~(other < least)
      BY <2>2
    <3> QED BY <3>1 DEF Before
  <2>4. Rank(keys, least) = 0
    BY <2>3, FS_EmptySet DEF Rank
  <2> QED BY <1>4, <1>5, <2>4
<1>6. CASE i # 0
  <2>1. i - 1 \in Nat /\ i - 1 < Cardinality(keys) /\ i - 1 \notin untaken
    BY <1>1, <1>3, <1>4, <1>6
  <2>2. PICK last \in keys : Rank(keys, last) = i - 1
    BY <2>1
  <2> DEFINE upto == Before(keys, last) \cup {last}
             left == keys \ upto
  <2>3. /\ IsFiniteSet(Before(keys, last)) /\ last \notin Before(keys, last)
        /\ upto \subseteq keys
    BY FS_Subset DEF Before
  <2>4. Cardinality(upto) = i
    <3>1. Cardinality(upto) = Cardinality(Before(keys, last)) + 1
      BY <2>3, FS_AddElement
    <3>2. Cardinality(Before(keys, last)) = i - 1
      BY <2>2 DEF Rank
    <3> HIDE DEF upto
    <3> QED BY <1>4, <3>1, <3>2
  <2>5. left # {}
    BY <1>4, <2>3, <2>4
  <2>6. PICK next \in left : \A other \in left : next <= other
    BY <2>5, LeastIsOne
  <2>7. Before(keys, next) = upto
    <3>1. ~(next < last) /\ next # last
      BY <2>6 DEF Before
    <3>2. \A k \in upto : k < next
      BY <2>6, <3>1 DEF Before
    <3>3. \A k \in keys : k < next => k \in upto
      BY <2>6
    <3> QED BY <2>3, <3>2, <3>3 DEF Before
  <2>8. Rank(keys, next) = i
    BY <2>4, <2>7 DEF Rank
  <2> QED BY <1>4, <2>6, <2>8
<1> QED BY <1>5, <1>6

LEMMA DatabaseCount == \A S : Database!Cardinality(S) = Cardinality(S)
BY DEF Database!Cardinality, Cardinality

LEMMA LesserIs ==
  ASSUME NEW m \in Nat, NEW l \in Nat
  PROVE  /\ Database!Min({m, l}) \in Nat /\ Database!Min({m, l}) <= m /\ Database!Min({m, l}) <= l
         /\ Database!Min({m, l}) \in {m, l}
<1>1. \E least \in {m, l} : \A other \in {m, l} : least <= other
  <2>1. CASE m <= l
    BY <2>1
  <2>2. CASE l <= m
    BY <2>2
  <2> QED BY <2>1, <2>2
<1>2. Database!Min({m, l}) \in {m, l} /\ \A other \in {m, l} : Database!Min({m, l}) <= other
  BY <1>1 DEF Database!Min
<1> QED BY <1>2

\* What a page of a set of keys is: none twice, up to the last of it all there are,
\* and all there are where it is short.
LEMMA PageIs ==
  ASSUME NEW keys \in SUBSET Nat, IsFiniteSet(keys)
  PROVE  LET page == Database!FirstOf(keys)
         IN  /\ page \in Seq(keys) /\ Len(page) <= Page
             /\ \A i, j \in 1 .. Len(page) : page[i] = page[j] => i = j
             /\ Len(page) = Page =>
                  /\ \A i \in 1 .. Len(page) : page[i] <= page[Len(page)]
                  /\ \A k \in keys : k <= page[Len(page)] => \E i \in 1 .. Len(page) : page[i] = k
             /\ Len(page) # Page => \A k \in keys : \E i \in 1 .. Len(page) : page[i] = k
<1> DEFINE size == Database!Min({Page, Cardinality(keys)})
           key(i) == CHOOSE k \in keys : Rank(keys, k) = i - 1
           page == [i \in 1 .. size |-> key(i)]
<1>1. Page \in Nat \ {0} /\ Cardinality(keys) \in Nat
  BY CacheAssumption, FS_CardinalityType DEF Database!CacheAssumption
<1>2. size \in Nat /\ size <= Page /\ size <= Cardinality(keys) /\ size \in {Page, Cardinality(keys)}
  BY <1>1, LesserIs
<1>3. Database!FirstOf(keys) = page
  BY DEF Database!FirstOf, Rank, Before, Database!Cardinality, Cardinality
<1> HIDE DEF size
<1>4. \A i \in 1 .. size : key(i) \in keys /\ Rank(keys, key(i)) = i - 1
  <2> SUFFICES ASSUME NEW i \in 1 .. size PROVE key(i) \in keys /\ Rank(keys, key(i)) = i - 1
    OBVIOUS
  <2>1. i - 1 \in 0 .. (Cardinality(keys) - 1)
    BY <1>1, <1>2
  <2>2. \E k \in keys : Rank(keys, k) = i - 1
    BY <2>1, EachRankIsTaken
  <2> QED BY <2>2
<1> HIDE DEF key
<1>5. page \in Seq(keys) /\ Len(page) = size /\ \A i \in 1 .. size : page[i] = key(i)
  BY <1>2, <1>4
<1>6. \A i \in 1 .. size : page[i] \in keys /\ page[i] \in Nat /\ Rank(keys, page[i]) = i - 1
  BY <1>4, <1>5
<1> HIDE DEF page
<1>7. \A i, j \in 1 .. size : page[i] = page[j] => i = j
  BY <1>2, <1>6
<1>8. \A i, j \in 1 .. size : i <= j => page[i] <= page[j]
  <2> SUFFICES ASSUME NEW i \in 1 .. size, NEW j \in 1 .. size, i <= j, page[j] < page[i]
               PROVE  FALSE
    BY <1>6
  <2>1. Rank(keys, page[j]) < Rank(keys, page[i])
    BY <1>6, RanksAreOfOne
  <2> QED BY <1>2, <1>6, <2>1
\* A key of a rank within the page is in it.
<1>9. \A k \in keys : Rank(keys, k) < size => \E i \in 1 .. size : page[i] = k
  <2> SUFFICES ASSUME NEW k \in keys, Rank(keys, k) < size PROVE \E i \in 1 .. size : page[i] = k
    OBVIOUS
  <2>1. Rank(keys, k) \in Nat
    BY RanksAreOfOne
  <2>2. Rank(keys, k) + 1 \in 1 .. size
    BY <1>2, <2>1
  <2>3. Rank(keys, page[Rank(keys, k) + 1]) = Rank(keys, k) /\ page[Rank(keys, k) + 1] \in keys
    BY <1>6, <2>1, <2>2
  <2>4. page[Rank(keys, k) + 1] = k
    BY <2>3, RanksAreOfOne
  <2> QED BY <2>2, <2>4
<1>10. \A k \in keys : k <= page[size] /\ size > 0 => \E i \in 1 .. size : page[i] = k
  <2> SUFFICES ASSUME NEW k \in keys, k <= page[size], size > 0 PROVE Rank(keys, k) < size
    BY <1>9
  <2>1. size \in 1 .. size /\ page[size] \in keys /\ Rank(keys, page[size]) = size - 1 /\ page[size] \in Nat
    BY <1>2, <1>6
  <2>2. k < page[size] \/ k = page[size]
    BY <2>1
  <2>3. Rank(keys, k) \in Nat /\ Rank(keys, k) <= Rank(keys, page[size])
    BY <2>1, <2>2, RanksAreOfOne
  <2> QED BY <1>2, <2>1, <2>3
<1>11. size # Page => \A k \in keys : \E i \in 1 .. size : page[i] = k
  <2> SUFFICES ASSUME size # Page, NEW k \in keys PROVE Rank(keys, k) < size
    BY <1>9
  <2>1. size = Cardinality(keys)
    BY <1>2
  <2>2. Rank(keys, k) \in 0 .. (Cardinality(keys) - 1)
    BY RanksAreOfOne
  <2> QED BY <1>1, <2>1, <2>2
<1>12. size = Page => size > 0 /\ size \in 1 .. size
  BY <1>1, <1>2
<1> QED BY <1>2, <1>3, <1>5, <1>7, <1>8, <1>10, <1>11, <1>12

\* A listing that handed out `listed` of those, up to `after`, comes to a page.
GoesOn(keys, those, listed, after, page, longer) ==
  /\ keys \in SUBSET Nat /\ IsFiniteSet(keys) /\ those \in SUBSET Nat
  /\ listed \in Seq(Nat) /\ after \in Nat /\ HandedOut(those, listed, after)
  /\ \A k \in keys : k > after
  /\ \A k \in those : k > after => k \in keys
  /\ page = Database!FirstOf(keys) /\ longer = listed \o page

\* What a listing has handed out, and a page of what comes after.
LEMMA HandedOn ==
  \A keys, those, listed, after, page, longer :
    GoesOn(keys, those, listed, after, page, longer) =>
      /\ longer \in Seq(Nat)
      /\ \A i, j \in 1 .. Len(longer) : longer[i] = longer[j] => i = j
      /\ Len(page) = Page => page[Len(page)] \in Nat /\ HandedOut(those, longer, page[Len(page)])
      /\ Len(page) # Page => \A k \in those : \E i \in 1 .. Len(longer) : longer[i] = k
<1> SUFFICES ASSUME NEW keys, NEW those, NEW listed, NEW after, NEW page, NEW longer,
                    GoesOn(keys, those, listed, after, page, longer)
             PROVE  /\ longer \in Seq(Nat)
                    /\ \A i, j \in 1 .. Len(longer) : longer[i] = longer[j] => i = j
                    /\ Len(page) = Page =>
                         page[Len(page)] \in Nat /\ HandedOut(those, longer, page[Len(page)])
                    /\ Len(page) # Page => \A k \in those : \E i \in 1 .. Len(longer) : longer[i] = k
  OBVIOUS
<1>0. /\ keys \in SUBSET Nat /\ IsFiniteSet(keys) /\ those \in SUBSET Nat
      /\ listed \in Seq(Nat) /\ after \in Nat /\ HandedOut(those, listed, after)
      /\ \A k \in keys : k > after
      /\ \A k \in those : k > after => k \in keys
      /\ page = Database!FirstOf(keys) /\ longer = listed \o page
  BY DEF GoesOn
<1>1. /\ page \in Seq(keys) /\ Len(page) <= Page
      /\ \A i, j \in 1 .. Len(page) : page[i] = page[j] => i = j
      /\ Len(page) = Page =>
           /\ \A i \in 1 .. Len(page) : page[i] <= page[Len(page)]
           /\ \A k \in keys : k <= page[Len(page)] => \E i \in 1 .. Len(page) : page[i] = k
      /\ Len(page) # Page => \A k \in keys : \E i \in 1 .. Len(page) : page[i] = k
  BY <1>0, PageIs
<1>2. Page \in Nat \ {0}
  BY CacheAssumption DEF Database!CacheAssumption
<1>3. /\ page \in Seq(Nat) /\ Len(page) \in Nat /\ Len(listed) \in Nat
      /\ \A i \in 1 .. Len(page) : page[i] \in keys /\ page[i] \in Nat /\ page[i] > after
  <2>1. page \in Seq(keys) /\ keys \subseteq Nat
    BY <1>0, <1>1
  <2>2. Len(page) \in Nat /\ \A i \in 1 .. Len(page) : page[i] \in keys
    BY <2>1
  <2>3. page \in Seq(Nat)
    BY <2>1, SeqMonotonic
  <2> QED BY <1>0, <2>1, <2>2, <2>3
<1>4. /\ longer \in Seq(Nat) /\ Len(longer) = Len(listed) + Len(page)
      /\ \A i \in 1 .. Len(listed) : longer[i] = listed[i]
      /\ \A i \in 1 .. Len(page) : longer[Len(listed) + i] = page[i]
      /\ \A i \in 1 .. Len(listed) : listed[i] \in Nat /\ listed[i] <= after
  <2>1. longer = listed \o page /\ listed \in Seq(Nat) /\ page \in Seq(Nat)
    BY <1>0, <1>3
  <2>2. /\ longer \in Seq(Nat) /\ Len(longer) = Len(listed) + Len(page)
        /\ \A i \in 1 .. Len(listed) : longer[i] = listed[i]
        /\ \A i \in 1 .. Len(page) : longer[Len(listed) + i] = page[i]
    BY <2>1
  <2>3. \A i \in 1 .. Len(listed) : listed[i] \in Nat /\ listed[i] <= after
    BY <1>0 DEF HandedOut
  <2> QED BY <2>2, <2>3
<1>5. \A i \in 1 .. Len(longer) :
        \/ i \in 1 .. Len(listed) /\ longer[i] = listed[i]
        \/ i - Len(listed) \in 1 .. Len(page) /\ longer[i] = page[i - Len(listed)]
  <2> SUFFICES ASSUME NEW i \in 1 .. Len(longer), i \notin 1 .. Len(listed)
               PROVE  i - Len(listed) \in 1 .. Len(page) /\ longer[i] = page[i - Len(listed)]
    BY <1>4
  <2>1. i - Len(listed) \in 1 .. Len(page)
    BY <1>3, <1>4
  <2>2. longer[Len(listed) + (i - Len(listed))] = page[i - Len(listed)]
    BY <1>4, <2>1
  <2>3. Len(listed) + (i - Len(listed)) = i
    BY <1>3, <1>4
  <2> QED BY <2>1, <2>2, <2>3
<1>6. \A i, j \in 1 .. Len(longer) : longer[i] = longer[j] => i = j
  <2> SUFFICES ASSUME NEW i \in 1 .. Len(longer), NEW j \in 1 .. Len(longer), longer[i] = longer[j]
               PROVE  i = j
    OBVIOUS
  <2>1. CASE i \in 1 .. Len(listed) /\ j \in 1 .. Len(listed)
    BY <1>0, <1>4, <2>1 DEF HandedOut
  <2>2. CASE i \notin 1 .. Len(listed) /\ j \notin 1 .. Len(listed)
    <3>1. /\ i - Len(listed) \in 1 .. Len(page) /\ longer[i] = page[i - Len(listed)]
          /\ j - Len(listed) \in 1 .. Len(page) /\ longer[j] = page[j - Len(listed)]
      BY <1>5, <2>2
    <3>2. i - Len(listed) = j - Len(listed)
      <4>1. \A m, n \in 1 .. Len(page) : page[m] = page[n] => m = n
        BY <1>1
      <4> QED BY <3>1, <4>1
    <3> QED BY <1>3, <1>4, <3>2
  <2>3. CASE i \in 1 .. Len(listed) /\ j \notin 1 .. Len(listed)
    <3>1. longer[i] <= after /\ longer[j] > after /\ longer[i] \in Nat
      BY <1>3, <1>4, <1>5, <2>3
    <3> QED BY <1>0, <3>1
  <2>4. CASE i \notin 1 .. Len(listed) /\ j \in 1 .. Len(listed)
    <3>1. longer[j] <= after /\ longer[i] > after /\ longer[j] \in Nat
      BY <1>3, <1>4, <1>5, <2>4
    <3> QED BY <1>0, <3>1
  <2> QED BY <2>1, <2>2, <2>3, <2>4
<1>7. \A k : (\E i \in 1 .. Len(listed) : listed[i] = k) \/ (\E i \in 1 .. Len(page) : page[i] = k) =>
        \E i \in 1 .. Len(longer) : longer[i] = k
  <2> SUFFICES ASSUME NEW k, (\E i \in 1 .. Len(listed) : listed[i] = k)
                             \/ (\E i \in 1 .. Len(page) : page[i] = k)
               PROVE  \E i \in 1 .. Len(longer) : longer[i] = k
    OBVIOUS
  <2>1. CASE \E i \in 1 .. Len(listed) : listed[i] = k
    <3>1. PICK i \in 1 .. Len(listed) : listed[i] = k
      BY <2>1
    <3>2. i \in 1 .. Len(longer) /\ longer[i] = k
      BY <1>3, <1>4, <3>1
    <3> QED BY <3>2
  <2>2. CASE \E i \in 1 .. Len(page) : page[i] = k
    <3>1. PICK i \in 1 .. Len(page) : page[i] = k
      BY <1>0, <2>2
    <3>2. Len(listed) + i \in 1 .. Len(longer)
      BY <1>3, <1>4, <3>1
    <3>3. longer[Len(listed) + i] = k
      BY <1>4, <3>1
    <3> QED BY <3>2, <3>3
  <2> QED BY <2>1, <2>2
<1>8. ASSUME Len(page) = Page
      PROVE  page[Len(page)] \in Nat /\ HandedOut(those, longer, page[Len(page)])
  <2>1. Len(page) \in 1 .. Len(page) /\ page[Len(page)] \in Nat /\ page[Len(page)] > after
    BY <1>2, <1>3, <1>8
  <2>2. \A i \in 1 .. Len(longer) : longer[i] <= page[Len(page)]
    <3> SUFFICES ASSUME NEW i \in 1 .. Len(longer) PROVE longer[i] <= page[Len(page)]
      OBVIOUS
    <3>1. CASE i \in 1 .. Len(listed)
      <4>1. longer[i] \in Nat /\ longer[i] <= after
        BY <1>4, <3>1
      <4> QED BY <1>0, <2>1, <4>1
    <3>2. CASE i \notin 1 .. Len(listed)
      BY <1>1, <1>5, <1>8, <3>2
    <3> QED BY <3>1, <3>2
  <2>3. \A k \in those : k <= page[Len(page)] => \E i \in 1 .. Len(longer) : longer[i] = k
    <3> SUFFICES ASSUME NEW k \in those, k <= page[Len(page)]
                 PROVE  \E i \in 1 .. Len(longer) : longer[i] = k
      OBVIOUS
    <3>1. CASE k <= after
      <4>1. \E i \in 1 .. Len(listed) : listed[i] = k
        BY <1>0, <3>1 DEF HandedOut
      <4> QED BY <1>7, <4>1
    <3>2. CASE ~(k <= after)
      <4>1. k \in keys
        BY <1>0, <3>2
      <4>2. \E i \in 1 .. Len(page) : page[i] = k
        BY <1>1, <1>8, <4>1
      <4> QED BY <1>7, <4>2
    <3> QED BY <3>1, <3>2
  <2> QED BY <1>6, <2>1, <2>2, <2>3 DEF HandedOut
<1>9. ASSUME Len(page) # Page, NEW k \in those
      PROVE  \E i \in 1 .. Len(longer) : longer[i] = k
  <2>1. CASE k <= after
    <3>1. \E i \in 1 .. Len(listed) : listed[i] = k
      BY <1>0, <2>1 DEF HandedOut
    <3> QED BY <1>7, <3>1
  <2>2. CASE ~(k <= after)
    <3>1. k \in keys
      BY <1>0, <2>2
    <3>2. \E i \in 1 .. Len(page) : page[i] = k
      BY <1>1, <1>9, <3>1
    <3> QED BY <1>7, <3>2
  <2> QED BY <2>1, <2>2
<1> QED BY <1>4, <1>6, <1>8, <1>9

\* A page that is full has the listing go on past its last, and one that is short
\* is the end of it.
LEMMA NextPageKeeps ==
  ASSUME DatabaseInv, NEW p \in Processes, Database!NextPage(p)
  PROVE  /\ DatabaseInv'
         /\ proc'[p].st = "idle" =>
              /\ \A i, j \in 1 .. Len(proc'[p].listed) : proc'[p].listed[i] = proc'[p].listed[j] => i = j
              /\ \A k \in through[p] : \E i \in 1 .. Len(proc'[p].listed) : proc'[p].listed[i] = k
              /\ proc'[p].listed \in Seq(Nat)
         /\ \A q \in Processes : q # p => proc'[q] = proc[q]
<1>a. PICK keys : keys = {k \in Keys : k > proc[p].after /\ file.rows[k] # Database!NoRow}
  OBVIOUS
<1>b. PICK page : page = Database!FirstOf(keys)
  OBVIOUS
<1>c. PICK longer : longer = proc[p].listed \o page
  OBVIOUS
<1>1. /\ proc[p].st = "running" /\ proc[p].want = "list" /\ Relies(p) /\ Lists(p)
      /\ UNCHANGED <<file, calls, kills, promised, through, raced>>
  BY DEF Database!NextPage, Database!Running, Database!History, Relies, Lists
<1>2. IF Len(page) = Page
        THEN Database!Goes(p, [listed |-> longer, after |-> page[Len(page)]])
        ELSE Database!Answers(p, [listed |-> longer])
  BY <1>a, <1>b, <1>c DEF Database!NextPage, Database!Paged, Database!Last
<1>3. /\ proc \in [Processes -> Driver] /\ proc[p] \in Driver
      /\ proc[p].listed \in Seq(Nat) /\ proc[p].after \in Nat
      /\ through[p] \in SUBSET Keys
  BY DEF DatabaseInv, DatabaseShape, Driver
<1>4. /\ HandedOut(through[p], proc[p].listed, proc[p].after)
      /\ \A k \in through[p] : file.rows[k] # Database!NoRow
  BY <1>1, <1>3 DEF DatabaseInv, ListingInv
<1>5. Keys \subseteq Nat /\ keys \in SUBSET Nat /\ IsFiniteSet(keys)
  <2>1. Keys \subseteq Nat /\ IsFiniteSet(Keys) /\ keys \subseteq Keys
    BY <1>a, CacheAssumption DEF Database!CacheAssumption, Database!IsFiniteSet, IsFiniteSet
  <2>2. IsFiniteSet(keys)
    BY <2>1, FS_Subset
  <2> QED BY <2>1, <2>2
<1>6. /\ \A k \in keys : k > proc[p].after
      /\ \A k \in through[p] : k > proc[p].after => k \in keys
      /\ through[p] \in SUBSET Nat
  BY <1>3, <1>4, <1>5, <1>a
<1>7. /\ longer \in Seq(Nat)
      /\ \A i, j \in 1 .. Len(longer) : longer[i] = longer[j] => i = j
      /\ Len(page) = Page =>
           page[Len(page)] \in Nat /\ HandedOut(through[p], longer, page[Len(page)])
      /\ Len(page) # Page => \A k \in through[p] : \E i \in 1 .. Len(longer) : longer[i] = k
  <2>1. GoesOn(keys, through[p], proc[p].listed, proc[p].after, page, longer)
    BY <1>3, <1>4, <1>5, <1>6, <1>b, <1>c DEF GoesOn
  <2> QED BY <2>1, HandedOn
<1>8. CASE Len(page) = Page
  <2>1. Frame(p) /\ proc'[p] = Database!With(proc[p], [listed |-> longer, after |-> page[Len(page)]])
    BY <1>2, <1>8, GoesIs DEF DatabaseInv
  <2>2. /\ proc'[p] \in Driver /\ proc'[p].st = "running" /\ proc'[p].want = "list"
        /\ proc'[p].listed = longer /\ proc'[p].after = page[Len(page)]
        /\ proc'[p].current = proc[p].current /\ proc'[p].writable = proc[p].writable
    BY <1>1, <1>3, <1>7, <1>8, <2>1 DEF Database!With, Driver
  <2>3. /\ proc' \in [Processes -> Driver]
        /\ \A q \in Processes : q # p => proc'[q] = proc[q] /\ (Maker(q)' <=> Maker(q))
             /\ (Relies(q)' <=> Relies(q)) /\ (Lists(q)' <=> Lists(q))
    BY <2>1, <2>2, OthersStand
  <2>4. DatabaseShape'
    BY <1>1, <2>3 DEF DatabaseInv, DatabaseShape
  <2>5. TablesInv'
    <3> SUFFICES ASSUME ~raced PROVE OneMakes' /\ Database!WrittenStays'
      BY <1>1 DEF TablesInv
    <3>1. OneMakes /\ Database!WrittenStays
      BY DEF DatabaseInv, TablesInv
    <3>2. \A q \in Processes : Maker(q)' => Maker(q) /\ proc'[q].st = proc[q].st
      BY <2>2, <2>3 DEF Maker
    <3>3. \A q \in Processes : Relies(q)' => Relies(q)
      BY <1>1, <2>3
    <3>4. \A q \in Processes : proc'[q].st \in {"creating", "stamping"} => proc'[q].st = proc[q].st
      BY <3>2 DEF Maker
    <3>5. OneMakes'
      BY <1>1, <3>1, <3>2, <3>3, <3>4 DEF OneMakes
    <3>6. Database!WrittenStays'
      BY <1>1, <3>1 DEF Database!WrittenStays, Database!AsWritten
    <3> QED BY <3>5, <3>6
  <2>6. ListingInv'
    <3>1. ListingInv /\ through' = through /\ file' = file
      BY <1>1 DEF DatabaseInv
    <3>2. \A q \in Processes : Lists(q)' => HandedOut(through'[q], proc'[q].listed, proc'[q].after)
      <4>1. \A q \in Processes : q # p /\ Lists(q)' => HandedOut(through'[q], proc'[q].listed, proc'[q].after)
        BY <2>3, <3>1 DEF ListingInv
      <4>2. HandedOut(through'[p], proc'[p].listed, proc'[p].after)
        BY <1>7, <1>8, <2>2, <3>1
      <4> QED BY <4>1, <4>2
    <3>3. \A q \in Processes :
            /\ proc'[q].st = "idle" => proc'[q].after = 0
            /\ proc'[q].st \in {"ensuring", "dropping", "creating", "stamping"} => proc'[q].want # "list"
      BY <2>2, <2>3, <3>1 DEF ListingInv
    <3> QED BY <3>1, <3>2, <3>3 DEF ListingInv
  <2> QED BY <2>2, <2>3, <2>4, <2>5, <2>6 DEF DatabaseInv
<1>9. CASE Len(page) # Page
  <2>1. Database!Answers(p, [listed |-> longer])
    BY <1>2, <1>9
  <2>2. /\ Frame(p) /\ proc' \in [Processes -> Driver]
        /\ proc'[p].st = "idle" /\ proc'[p].after = 0 /\ proc'[p].listed = longer
        /\ proc'[p].current = proc[p].current /\ proc'[p].writable = proc[p].writable
    BY <1>7, <2>1, AnswersIs DEF DatabaseInv
  <2>3. Quiet(p)
    BY <1>1, <2>2, FileIs DEF Quiet, Maker, Relies, Lists, DatabaseInv
  <2>4. \A q \in Processes : q # p => proc'[q] = proc[q]
    BY <1>3, <2>2 DEF Frame
  <2> QED BY <1>7, <1>9, <2>2, <2>3, <2>4, QuietKeeps
<1> QED BY <1>8, <1>9

\* A step of a process that is not at the last page of its listing ends none.
LEMMA EndsNoListing ==
  ASSUME DatabaseInv, NEW p \in Processes, NEW new, proc' = [proc EXCEPT ![p] = new],
         ~(Database!Running(p, {"list"}) /\ kills' = kills)
  PROVE  ListedStep
<1> SUFFICES ASSUME NEW q \in Processes, Database!Running(q, {"list"}), kills' = kills,
                    proc'[q].st = "idle"
             PROVE  FALSE
  BY DEF ListedStep
<1>1. q # p
  OBVIOUS
<1>2. proc'[q] = proc[q]
  BY <1>1 DEF DatabaseInv, DatabaseShape
<1> QED BY <1>2 DEF Database!Running

LEMMA GoesOrAnswers ==
  /\ \A p, changes : Database!Goes(p, changes) => \E new : proc' = [proc EXCEPT ![p] = new]
  /\ \A p, changes : Database!Answers(p, changes) => \E new : proc' = [proc EXCEPT ![p] = new]
BY DEF Database!Goes, Database!Answers

LEMMA ListsFrom ==
  ASSUME DatabaseInv, NEW p \in Processes, Database!NextPage(p)
  PROVE  ListedStep
<1> SUFFICES ASSUME NEW q \in Processes, Database!Running(q, {"list"}), proc'[q].st = "idle"
             PROVE  /\ Database!IsInjective(proc'[q].listed)
                    /\ through[q] \subseteq Database!ToSet(proc'[q].listed)
  BY DEF ListedStep
<1>1. q = p
  <2>1. q # p => proc'[q] = proc[q]
    BY NextPageKeeps
  <2> QED BY <2>1 DEF Database!Running
<1>2. PICK listed : listed = proc'[p].listed
  OBVIOUS
<1>3. /\ \A i, j \in 1 .. Len(listed) : listed[i] = listed[j] => i = j
      /\ \A k \in through[p] : \E i \in 1 .. Len(listed) : listed[i] = k
      /\ listed \in Seq(Nat)
  BY <1>1, <1>2, NextPageKeeps
<1>4. DOMAIN listed = 1 .. Len(listed)
  BY <1>3
<1>5. Database!IsInjective(listed) /\ through[p] \subseteq Database!ToSet(listed)
  BY <1>3, <1>4 DEF Database!IsInjective, Database!ToSet
<1> QED BY <1>1, <1>2, <1>5

LEMMA DatabaseWorks ==
  ASSUME DatabaseInv, NEW p \in Processes
  PROVE  /\ Database!PrepareLook(p) => DatabaseInv' /\ ListedStep
         /\ Database!PrepareChange(p) => DatabaseInv' /\ ListedStep
         /\ Database!Prepared(p) => DatabaseInv' /\ ListedStep
         /\ Database!Ensure(p) => DatabaseInv' /\ ListedStep
         /\ Database!Drop(p) => DatabaseInv' /\ ListedStep
         /\ Database!Create(p) => DatabaseInv' /\ ListedStep
         /\ Database!Stamp(p) => DatabaseInv' /\ ListedStep
         /\ Database!NoTable(p) => DatabaseInv' /\ ListedStep
         /\ Database!Read(p) => DatabaseInv' /\ ListedStep
         /\ Database!Write(p) => DatabaseInv' /\ ListedStep
         /\ Database!Delete(p) => DatabaseInv' /\ ListedStep
         /\ Database!NextPage(p) => DatabaseInv' /\ ListedStep
<1>1. ASSUME Database!PrepareLook(p) PROVE DatabaseInv' /\ ListedStep
  <2>1. (\E new : proc' = [proc EXCEPT ![p] = new]) /\ ~Database!Running(p, {"list"})
    BY <1>1, GoesOrAnswers DEF Database!PrepareLook, Database!Running
  <2> QED BY <1>1, <2>1, LookQuiet, QuietKeeps, EndsNoListing
<1>2. ASSUME Database!PrepareChange(p) PROVE DatabaseInv' /\ ListedStep
  <2>1. (\E new : proc' = [proc EXCEPT ![p] = new]) /\ ~Database!Running(p, {"list"})
    BY <1>2, GoesOrAnswers DEF Database!PrepareChange, Database!Running
  <2> QED BY <1>2, <2>1, ChangeQuiet, QuietKeeps, EndsNoListing
<1>3. ASSUME Database!Prepared(p) PROVE DatabaseInv' /\ ListedStep
  <2>1. (\E new : proc' = [proc EXCEPT ![p] = new]) /\ ~Database!Running(p, {"list"})
    BY <1>3, GoesOrAnswers DEF Database!Prepared, Database!Running
  <2> QED BY <1>3, <2>1, PreparedQuiet, QuietKeeps, EndsNoListing
<1>4. ASSUME Database!Ensure(p) PROVE DatabaseInv' /\ ListedStep
  <2>1. (\E new : proc' = [proc EXCEPT ![p] = new]) /\ ~Database!Running(p, {"list"})
    BY <1>4, GoesOrAnswers DEF Database!Ensure, Database!Ready, Database!Running
  <2> QED BY <1>4, <2>1, EnsureQuiet, QuietKeeps, EndsNoListing
<1>5. ASSUME Database!Drop(p) PROVE DatabaseInv' /\ ListedStep
  <2>1. (\E new : proc' = [proc EXCEPT ![p] = new]) /\ ~Database!Running(p, {"list"})
    BY <1>5, GoesOrAnswers DEF Database!Drop, Database!Running
  <2> QED BY <1>5, <2>1, DropKeeps, EndsNoListing
<1>6. ASSUME Database!Create(p) PROVE DatabaseInv' /\ ListedStep
  <2>1. (\E new : proc' = [proc EXCEPT ![p] = new]) /\ ~Database!Running(p, {"list"})
    BY <1>6, GoesOrAnswers DEF Database!Create, Database!Running
  <2> QED BY <1>6, <2>1, CreateKeeps, EndsNoListing
<1>7. ASSUME Database!Stamp(p) PROVE DatabaseInv' /\ ListedStep
  <2>1. (\E new : proc' = [proc EXCEPT ![p] = new]) /\ ~Database!Running(p, {"list"})
    BY <1>7, GoesOrAnswers DEF Database!Stamp, Database!Ready, Database!Running
  <2> QED BY <1>7, <2>1, StampKeeps, EndsNoListing
<1>8. ASSUME Database!NoTable(p) PROVE DatabaseInv' /\ ListedStep
  <2>1. Database!Answers(p, Database!Nothing) /\ ~Database!Running(p, {"list"})
    BY <1>8 DEF Database!NoTable, Database!Running
  <2>2. UNCHANGED <<file, calls, kills, promised, through, raced>>
    BY <1>8 DEF Database!NoTable, Database!History
  <2>3. \E new : proc' = [proc EXCEPT ![p] = new]
    BY <2>1, GoesOrAnswers
  <2> QED BY <2>1, <2>2, <2>3, AnsweredQuiet, QuietKeeps, EndsNoListing
<1>9. ASSUME Database!Read(p) PROVE DatabaseInv' /\ ListedStep
  <2>1. (\E new : proc' = [proc EXCEPT ![p] = new]) /\ ~Database!Running(p, {"list"})
    BY <1>9, GoesOrAnswers DEF Database!Read, Database!Running
  <2> QED BY <1>9, <2>1, ReadQuiet, QuietKeeps, EndsNoListing
<1>10. ASSUME Database!Write(p) PROVE DatabaseInv' /\ ListedStep
  <2>1. (\E new : proc' = [proc EXCEPT ![p] = new]) /\ ~Database!Running(p, {"list"})
    BY <1>10, GoesOrAnswers DEF Database!Write, Database!Running
  <2> QED BY <1>10, <2>1, WriteKeeps, EndsNoListing
<1>11. ASSUME Database!Delete(p) PROVE DatabaseInv' /\ ListedStep
  <2>1. (\E new : proc' = [proc EXCEPT ![p] = new]) /\ ~Database!Running(p, {"list"})
    BY <1>11, GoesOrAnswers DEF Database!Delete, Database!Running
  <2> QED BY <1>11, <2>1, DeleteKeeps, EndsNoListing
<1>12. ASSUME Database!NextPage(p) PROVE DatabaseInv' /\ ListedStep
  BY <1>12, NextPageKeeps, ListsFrom
<1> QED BY <1>1, <1>2, <1>3, <1>4, <1>5, <1>6, <1>7, <1>8, <1>9, <1>10, <1>11, <1>12

LEMMA DatabaseNext ==
  ASSUME DatabaseInv, Database!Next
  PROVE  DatabaseInv' /\ ListedStep
<1>1. ASSUME NEW p \in Processes, Database!Call(p) PROVE DatabaseInv' /\ ListedStep
  <2>1. (\E new : proc' = [proc EXCEPT ![p] = new]) /\ ~Database!Running(p, {"list"})
    BY <1>1, GoesOrAnswers DEF Database!Call, Database!Running
  <2> QED BY <1>1, <2>1, CallKeeps, EndsNoListing
<1>2. ASSUME NEW p \in Processes, Database!Ends(p) PROVE DatabaseInv' /\ ListedStep
  <2>1. (\E new : proc' = [proc EXCEPT ![p] = new]) /\ kills' # kills
    <3>1. kills \in Nat /\ kills' = kills + 1
      BY <1>2 DEF Database!Ends, DatabaseInv, DatabaseShape
    <3>2. kills' # kills
      BY <3>1
    <3> QED BY <1>2, <3>2 DEF Database!Ends
  <2> QED BY <1>2, <2>1, EndsQuiet, QuietKeeps, EndsNoListing
<1> QED BY <1>1, <1>2, DatabaseWorks DEF Database!Next, Database!Works

LEMMA DatabaseStep ==
  ASSUME DatabaseInv, [MCNext]_all
  PROVE  DatabaseInv' /\ ListedStep
<1>1. CASE OfDatabase(Database!Next)
  BY <1>1, DatabaseNext DEF OfDatabase
<1>2. CASE UNCHANGED ofDatabase
  <2>1. UNCHANGED <<file, proc, calls, kills, promised, through, raced>>
    BY <1>2 DEF ofDatabase
  <2>2. DatabaseInv'
    BY <2>1 DEF DatabaseInv, DatabaseShape, TablesInv, OneMakes, Maker, Relies, Database!WrittenStays,
                Database!AsWritten, ListingInv, Lists
  <2>3. ListedStep
    BY <2>1 DEF ListedStep, Database!Running
  <2> QED BY <2>2, <2>3
<1>3. MCNext => OfDatabase(Database!Next) \/ UNCHANGED ofDatabase
  BY DEF MCNext, OfLists, OfProgram, OfAccount
<1>4. UNCHANGED all => UNCHANGED ofDatabase
  BY DEF all
<1> QED BY <1>1, <1>2, <1>3, <1>4

\* What a write put under a key stays as it was written until that key is written,
\* removed or pruned again, unless tables were made over a table that was; and a
\* listing hands out no key twice and none of those there all along is missing,
\* whatever other processes write and remove between its pages:
\* SqliteCacheDriver's #ensureTable, its statements and keys().
THEOREM DatabaseKeepsKeys == MCSpec => KeysStay
<1>1. MCInit => DatabaseInv
  BY DatabaseInit DEF MCInit
<1>2. DatabaseInv /\ [MCNext]_all => DatabaseInv'
  BY DatabaseStep
<1>3. DatabaseInv => Database!WrittenStays
  BY DEF DatabaseInv, TablesInv, Database!WrittenStays
<1>4. DatabaseInv /\ [MCNext]_all =>
        [\A p \in Processes : Database!Running(p, {"list"}) /\ kills' = kills /\ proc'[p].st = "idle" =>
           Database!IsInjective(proc'[p].listed)
             /\ through[p] \subseteq Database!ToSet(proc'[p].listed)]_(Database!vars)
  BY DatabaseStep DEF ListedStep
<1> QED BY <1>1, <1>2, <1>3, <1>4, PTL DEF MCSpec, KeysStay, Database!KeysStay, Database!ListedOnce

-----------------------------------------------------------------------------
(* The channel list of a site.                                                 *)

SomeLists == [of : 1 .. Versions, all : BOOLEAN]
Entries == [list : SomeLists, about : Nat, age : Nat]
HeldEntries == [list : SomeLists, age : Nat]
FarEntries == [list : SomeLists, about : Nat, age : {Far}]
Stages == {"idle", "reading", "asking", "fetching", "saving", "putting"}
Command == [st : Stages, age : {0, 1}, refresh : BOOLEAN, held : {NoList} \cup HeldEntries,
            before : Nat, bag : Nat, about : Nat, list : {NoList} \cup SomeLists,
            group : {NoList} \cup Entries, dirty : BOOLEAN, down : BOOLEAN]
ListsShape ==
  /\ kind \in Kinds /\ source \in 2 .. Versions /\ since \in [1 .. Versions -> 0 .. Top]
  /\ stored \in {NoList} \cup Entries \cup FarEntries
  /\ bag \in Nat /\ cmd \in [Commands -> Command]

\* The versions there were stopped being the source's one after the other.
SinceInv ==
  /\ since[source] = 0
  /\ \A v, w \in 1 .. source : v <= w => since[w] <= since[v]

\* A whole list the source has had, so long ago at most, and said of no later one.
IsHad(entry) == entry.list.all /\ entry.list.of <= source
IsOne(entry) == IsHad(entry) /\ entry.about <= entry.list.of
HeldSince(entry, age) == since[entry.list.of] <= age
StoredInv == stored # NoList => IsOne(stored) /\ (stored.age # Far => HeldSince(stored, stored.age))

\* What a command holds of the list stored, and what it will store.
CommandHolds(it) ==
  /\ it.st = "idle" => it = Resting
  /\ it.st \in {"reading", "asking", "fetching"} => it.group = NoList /\ ~it.dirty
  /\ it.held # NoList => IsHad(it.held) /\ HeldSince(it.held, it.held.age + it.age)
  /\ it.group # NoList => IsOne(it.group) /\ HeldSince(it.group, it.age)
  /\ it.about <= source /\ it.before <= source
  /\ it.list # NoList /\ ~it.down => since[it.list.of] <= MaxAge + it.age
CommandsInv == \A c \in Commands : CommandHolds(cmd[c])

\* A site whose bag tells, one command at a time: the bag is of no later list than
\* the one it is with.
StampsHold(it) ==
  /\ it.st \in {"asking", "fetching"} =>
       it.bag = bag /\ (it.held # NoList => bag <= it.held.list.of)
  /\ it.st = "saving" /\ it.group # NoList => bag <= it.group.list.of
  /\ it.st = "saving" /\ it.dirty => it.group # NoList /\ it.bag <= it.group.list.of
  /\ it.st = "putting" => stored # NoList /\ it.bag <= stored.list.of
OneAtATime == \A c, d \in Commands : cmd[c].st # "idle" /\ cmd[d].st # "idle" => c = d
StampsInv ==
  kind = "stamped" =>
    /\ OneAtATime /\ bag <= source
    /\ stored # NoList => bag <= stored.list.of
    /\ \A c \in Commands : StampsHold(cmd[c])

Timely == kind = "stamped" => Alone
ListsInv == ListsShape /\ (Timely => SinceInv /\ StoredInv /\ CommandsInv /\ StampsInv)

LEMMA RestingIs ==
  ASSUME source \in Nat
  PROVE  Resting \in Command /\ CommandHolds(Resting) /\ StampsHold(Resting)
<1>1. Resting \in Command
  BY DEF Resting, Command, Stages
<1>2. /\ Resting.st = "idle" /\ Resting.held = NoList /\ Resting.group = NoList /\ Resting.about = 0
      /\ Resting.before = 0 /\ Resting.list = NoList /\ Resting.dirty = FALSE
  BY DEF Resting
<1> QED BY <1>1, <1>2 DEF CommandHolds, StampsHold

LEMMA ListsInit == Init => ListsInv
<1> SUFFICES ASSUME Init PROVE ListsInv
  OBVIOUS
<1>1. /\ source = 2 /\ Versions \in Nat /\ Versions >= 2 /\ MaxAge \in Nat /\ Far \notin Nat
      /\ Top \in Nat /\ Top >= 2
  BY ListsAssumption DEF Init, Top
<1>2. since \in [1 .. Versions -> 0 .. Top] /\ since[2] = 0 /\ since[1] = Top
  BY <1>1 DEF Init
<1>3. stored # NoList =>
        /\ stored = [list |-> Whole(1), about |-> 1, age |-> stored.age]
        /\ stored.age \in {Top, Far} /\ stored \in Entries \cup FarEntries
  <2> SUFFICES ASSUME stored # NoList
               PROVE  /\ stored = [list |-> Whole(1), about |-> 1, age |-> stored.age]
                      /\ stored.age \in {Top, Far} /\ stored \in Entries \cup FarEntries
    OBVIOUS
  <2>1. PICK age \in {Top, Far} : stored = [list |-> Whole(1), about |-> 1, age |-> age]
    BY DEF Init
  <2>2. Whole(1) \in SomeLists
    BY <1>1 DEF Whole, SomeLists
  <2>3. stored.age = age
    BY <2>1
  <2>4. CASE age = Top
    BY <1>1, <2>1, <2>2, <2>3, <2>4 DEF Entries
  <2>5. CASE age = Far
    BY <1>1, <2>1, <2>2, <2>3, <2>5 DEF FarEntries
  <2> QED BY <2>1, <2>4, <2>5
<1>4. stored # NoList => stored.list.of = 1 /\ stored.list.all /\ stored.about = 1
  BY <1>3 DEF Whole
<1>5. bag \in Nat /\ bag <= 1 /\ (stored = NoList => bag = 0)
  BY DEF Init
<1>6. \A c \in Commands : cmd[c] = Resting
  BY DEF Init
<1>7. ListsShape
  BY <1>1, <1>2, <1>3, <1>5, <1>6, RestingIs DEF ListsShape, Init
<1>8. SinceInv
  BY <1>1, <1>2 DEF SinceInv
<1>9. StoredInv
  BY <1>1, <1>2, <1>3, <1>4 DEF StoredInv, IsOne, IsHad, HeldSince
<1>10. CommandsInv
  BY <1>1, <1>6, RestingIs DEF CommandsInv
<1>11. StampsInv
  <2>1. OneAtATime
    BY <1>6 DEF OneAtATime, Resting
  <2>2. bag <= source /\ (stored # NoList => bag <= stored.list.of)
    BY <1>1, <1>4, <1>5
  <2> QED BY <1>1, <1>6, <2>1, <2>2, RestingIs DEF StampsInv
<1> QED BY <1>7, <1>8, <1>9, <1>10, <1>11 DEF ListsInv

\* A step of one command, which stores nothing: a site whose bag tells has it alone
\* awake.
LEMMA OwnStep ==
  ASSUME ListsInv, NEW c \in Commands, NEW new \in Command, cmd' = [cmd EXCEPT ![c] = new],
         UNCHANGED <<kind, source, since, stored, bag>>,
         Timely => CommandHolds(new),
         Timely /\ kind = "stamped" =>
           StampsHold(new) /\ (new.st = "idle" \/ \A d \in Commands : d = c \/ cmd[d].st = "idle")
  PROVE  ListsInv'
<1>1. cmd \in [Commands -> Command] /\ cmd' \in [Commands -> Command]
      /\ cmd'[c] = new /\ \A d \in Commands : d # c => cmd'[d] = cmd[d]
  BY DEF ListsInv, ListsShape
<1>2. ListsShape'
  BY <1>1 DEF ListsInv, ListsShape
<1> SUFFICES ASSUME Timely PROVE SinceInv' /\ StoredInv' /\ CommandsInv' /\ StampsInv'
  BY <1>2 DEF ListsInv, Timely
<1>3. SinceInv /\ StoredInv /\ CommandsInv /\ StampsInv
  BY DEF ListsInv
<1>4. SinceInv'
  BY <1>3 DEF SinceInv
<1>5. StoredInv'
  BY <1>3 DEF StoredInv, IsOne, IsHad, HeldSince
<1>6. CommandsInv'
  <2>1. \A d \in Commands : CommandHolds(cmd'[d])
    BY <1>1, <1>3 DEF CommandsInv
  <2> QED BY <2>1 DEF CommandsInv, CommandHolds, IsOne, IsHad, HeldSince
<1>7. StampsInv'
  <2> SUFFICES ASSUME kind = "stamped"
               PROVE  /\ OneAtATime' /\ bag <= source
                      /\ stored # NoList => bag <= stored.list.of
                      /\ \A d \in Commands : StampsHold(cmd[d])'
    BY DEF StampsInv
  <2>1. OneAtATime /\ \A d \in Commands : StampsHold(cmd[d])
    BY <1>3 DEF StampsInv
  <2>2. OneAtATime'
    BY <1>1, <2>1 DEF OneAtATime
  <2>3. \A d \in Commands : StampsHold(cmd'[d])
    BY <1>1, <2>1
  <2>4. \A d \in Commands : StampsHold(cmd[d])'
    BY <2>3 DEF StampsHold
  <2> QED BY <1>3, <2>2, <2>4 DEF StampsInv
<1> QED BY <1>4, <1>5, <1>6, <1>7

LEMMA AwakeStep ==
  ASSUME ListsInv, NEW c \in Commands, cmd[c].st # "idle", NEW new \in Command,
         cmd' = [cmd EXCEPT ![c] = new], UNCHANGED <<kind, source, since, stored, bag>>,
         Timely => CommandHolds(new), Timely /\ kind = "stamped" => StampsHold(new)
  PROVE  ListsInv'
<1>1. Timely /\ kind = "stamped" => \A d \in Commands : d = c \/ cmd[d].st = "idle"
  BY DEF ListsInv, StampsInv, OneAtATime
<1> QED BY <1>1, OwnStep

LEMMA NoEntryIsNone == \A entry \in Entries : entry # NoList
<1> SUFFICES ASSUME NEW entry \in Entries, entry = NoList PROVE FALSE
  OBVIOUS
<1>1. entry \in [list : [of : Nat, all : BOOLEAN], about : Nat, age : Nat]
  BY DEF Entries, SomeLists
<1> QED BY <1>1, ListsAssumption

LEMMA SelectedIs ==
  ASSUME NEW c, NEW list \in SomeLists
  PROVE  selected(c, list) \in SomeLists /\ selected(c, list).of = list.of
BY DEF selected, SomeLists

\* A command is what it was, or at rest.
LEMMA CommandIs ==
  ASSUME ListsInv, NEW c \in Commands
  PROVE  /\ cmd \in [Commands -> Command] /\ cmd[c] \in Command /\ source \in Nat /\ source >= 2
         /\ MaxAge \in Nat /\ source \in 1 .. Versions
         /\ Timely => CommandHolds(cmd[c]) /\ SinceInv /\ StoredInv
         /\ Timely /\ kind = "stamped" =>
              bag <= source /\ StampsHold(cmd[c]) /\ (stored # NoList => bag <= stored.list.of)
         /\ \A v \in 1 .. Versions : since[v] \in Nat
<1>1. Versions \in Nat /\ MaxAge \in Nat /\ Top \in Nat
  BY ListsAssumption DEF Top
<1>2. cmd \in [Commands -> Command] /\ source \in 2 .. Versions /\ since \in [1 .. Versions -> 0 .. Top]
  BY DEF ListsInv, ListsShape
<1>3. /\ Timely => CommandHolds(cmd[c]) /\ SinceInv /\ StoredInv
      /\ Timely /\ kind = "stamped" =>
           bag <= source /\ StampsHold(cmd[c]) /\ (stored # NoList => bag <= stored.list.of)
  BY DEF ListsInv, CommandsInv, StampsInv
<1> QED BY <1>1, <1>2, <1>3

LEMMA BeginKeeps == ASSUME ListsInv, NEW c \in Commands, Begin(c) PROVE ListsInv'
<1>1. PICK refresh \in BOOLEAN : Goes(c, [st |-> "reading", refresh |-> refresh])
  BY DEF Begin
<1>2. PICK new : new = With(cmd[c], [st |-> "reading", refresh |-> refresh])
  OBVIOUS
<1>3. cmd' = [cmd EXCEPT ![c] = new] /\ UNCHANGED <<kind, source, since, stored, bag>>
  BY <1>1, <1>2 DEF Goes, Begin, World, Cache
<1>4. /\ new \in Command /\ new.st = "reading" /\ new.held = cmd[c].held /\ new.about = cmd[c].about
      /\ new.before = cmd[c].before /\ new.group = cmd[c].group /\ new.dirty = cmd[c].dirty /\ new.list = cmd[c].list
  BY <1>2, CommandIs DEF With, Command, Stages
<1>5. Timely => CommandHolds(new)
  <2> SUFFICES ASSUME Timely PROVE CommandHolds(new)
    OBVIOUS
  <2>1. cmd[c] = Resting /\ source \in Nat
    BY CommandIs DEF CommandHolds, Begin
  <2>2. /\ new.held = NoList /\ new.group = NoList /\ new.about = 0 /\ new.list = NoList
        /\ new.before = 0 /\ new.dirty = FALSE
    BY <1>4, <2>1 DEF Resting
  <2> QED BY <1>4, <2>1, <2>2 DEF CommandHolds
<1>6. Timely /\ kind = "stamped" =>
        StampsHold(new) /\ \A d \in Commands : d = c \/ cmd[d].st = "idle"
  BY <1>4 DEF StampsHold, Begin, Timely
<1> QED BY <1>3, <1>4, <1>5, <1>6, OwnStep

LEMMA HeldIs ==
  ASSUME ListsInv, NEW now \in {0, 1}, held(stored, now) # NoList
  PROVE  /\ held(stored, now) \in HeldEntries /\ stored # NoList /\ held(stored, now).list = stored.list
         /\ Timely => /\ IsHad(held(stored, now))
                      /\ HeldSince(held(stored, now), held(stored, now).age + now)
<1>1. stored # NoList /\ stored.age # Far /\ ~(stored.age < now)
      /\ held(stored, now) = [list |-> stored.list, age |-> stored.age - now]
  BY DEF held, Distrusted
<1>2. stored \in Entries /\ stored.age \in Nat /\ stored.age - now \in Nat
  BY <1>1 DEF ListsInv, ListsShape, Entries, FarEntries
<1>3. /\ held(stored, now) \in HeldEntries /\ held(stored, now).list = stored.list
      /\ held(stored, now).age + now = stored.age
  BY <1>1, <1>2 DEF Entries, HeldEntries
<1>4. Timely => IsHad(stored) /\ HeldSince(stored, stored.age)
  BY <1>1 DEF ListsInv, StoredInv, IsOne
<1> QED BY <1>1, <1>3, <1>4 DEF IsHad, HeldSince

LEMMA MetadataIs ==
  ASSUME ListsInv
  PROVE  metadata(stored) \in Nat /\ (Timely => metadata(stored) <= source)
<1>1. CASE stored = NoList
  BY <1>1 DEF metadata, ListsInv, ListsShape
<1>2. CASE stored # NoList
  <2>1. metadata(stored) = stored.about /\ stored.about \in Nat /\ stored.list.of \in Nat
    BY <1>2 DEF metadata, ListsInv, ListsShape, Entries, FarEntries, SomeLists
  <2>2. source \in Nat
    BY DEF ListsInv, ListsShape
  <2>3. Timely => stored.about <= stored.list.of /\ stored.list.of <= source
    BY <1>2 DEF ListsInv, StoredInv, IsOne, IsHad
  <2> QED BY <2>1, <2>2, <2>3
<1> QED BY <1>1, <1>2

LEMMA ReadKeeps == ASSUME ListsInv, NEW c \in Commands, Read(c) PROVE ListsInv'
<1>1. cmd[c].st = "reading" /\ UNCHANGED <<kind, source, since, stored, bag>>
  BY DEF Read, World, Cache
<1>2. PICK now : now = cmd[c].age
  OBVIOUS
<1>3. now \in {0, 1}
  BY <1>2, CommandIs DEF Command
<1>4. CASE fresh(stored, now) /\ Goes(c, [st |-> "saving", list |-> selected(c, stored.list)])
  <2>1. /\ stored # NoList /\ stored.age # Far /\ stored.age - now <= MaxAge
    BY <1>4 DEF fresh, Distrusted
  <2>2. stored \in Entries /\ stored.list \in SomeLists /\ stored.age \in Nat
    BY <2>1 DEF ListsInv, ListsShape, Entries, FarEntries
  <2>3. PICK list : list = selected(c, stored.list)
    OBVIOUS
  <2>4. list \in SomeLists /\ list.of = stored.list.of
    BY <2>2, <2>3, SelectedIs
  <2>5. PICK new : new = With(cmd[c], [st |-> "saving", list |-> list])
    OBVIOUS
  <2>6. /\ new \in Command /\ new.st = "saving" /\ new.list = list /\ new.held = cmd[c].held
        /\ new.about = cmd[c].about /\ new.group = cmd[c].group /\ new.dirty = cmd[c].dirty
        /\ new.age = now /\ new.down = cmd[c].down /\ new.before = cmd[c].before
    BY <1>2, <2>4, <2>5, CommandIs DEF With, Command, Stages
  <2>7. cmd' = [cmd EXCEPT ![c] = new]
    BY <1>4, <2>3, <2>5 DEF Goes
  <2>8. Timely => CommandHolds(new)
    <3> SUFFICES ASSUME Timely PROVE CommandHolds(new)
      OBVIOUS
    <3>1. CommandHolds(cmd[c]) /\ HeldSince(stored, stored.age) /\ MaxAge \in Nat
      BY <2>1, CommandIs DEF StoredInv
    <3>2. since[list.of] <= MaxAge + now
      <4>1. since[list.of] <= stored.age /\ since[list.of] \in Nat
        BY <2>4, <3>1, CommandIs DEF HeldSince, SomeLists
      <4> QED BY <1>3, <2>1, <2>2, <3>1, <4>1
    <3> QED BY <1>1, <1>2, <2>6, <3>1, <3>2 DEF CommandHolds
  <2>9. Timely /\ kind = "stamped" => StampsHold(new)
    BY <1>1, <2>6, CommandIs DEF CommandHolds, StampsHold
  <2> QED BY <1>1, <2>6, <2>7, <2>8, <2>9, AwakeStep
<1>5. CASE Goes(c, [st |-> "asking", bag |-> bag,
                    held |-> IF kind = "unkept" THEN NoList ELSE held(stored, now),
                    before |-> IF kind = "unkept" THEN 0 ELSE metadata(stored)])
  <2>1. PICK mine : mine = IF kind = "unkept" THEN NoList ELSE held(stored, now)
    OBVIOUS
  <2>2. mine # NoList => /\ mine \in HeldEntries /\ stored # NoList /\ mine.list = stored.list
                         /\ Timely => IsHad(mine) /\ HeldSince(mine, mine.age + now)
    BY <1>3, <2>1, HeldIs
  <2>9. PICK word : word = IF kind = "unkept" THEN 0 ELSE metadata(stored)
    OBVIOUS
  <2>3. PICK new : new = With(cmd[c], [st |-> "asking", bag |-> bag, held |-> mine,
                                       before |-> word])
    OBVIOUS
  <2>4. bag \in Nat /\ word \in Nat /\ (Timely => word <= source)
    BY <2>9, MetadataIs DEF ListsInv, ListsShape
  <2>5. /\ new \in Command /\ new.st = "asking" /\ new.list = cmd[c].list /\ new.held = mine
        /\ new.about = cmd[c].about /\ new.group = cmd[c].group /\ new.dirty = cmd[c].dirty
        /\ new.age = now /\ new.down = cmd[c].down /\ new.bag = bag /\ new.before = word
    BY <1>2, <2>2, <2>3, <2>4, CommandIs DEF With, Command, Stages
  <2>6. cmd' = [cmd EXCEPT ![c] = new]
    BY <1>5, <2>1, <2>3, <2>9 DEF Goes
  <2>7. Timely => CommandHolds(new)
    BY <1>1, <1>2, <2>2, <2>4, <2>5, CommandIs DEF CommandHolds
  <2>8. Timely /\ kind = "stamped" => StampsHold(new)
    BY <2>2, <2>5, CommandIs DEF StampsHold
  <2> QED BY <1>1, <2>5, <2>6, <2>7, <2>8, AwakeStep
<1> QED BY <1>2, <1>4, <1>5 DEF Read

\* What a command comes to when it stores a list that is the source's.
LEMMA StoresKeeps ==
  ASSUME ListsInv, NEW c \in Commands, cmd[c].st \in {"asking", "fetching"},
         NEW list \in SomeLists, NEW word \in Nat, NEW put \in Nat, Stores(c, list, word, put),
         UNCHANGED <<kind, source, since, stored, bag>>,
         Timely => list.all /\ list.of = source /\ word <= source,
         Timely /\ kind = "stamped" => put <= source
  PROVE  ListsInv'
<1>1. PICK before : before = cmd[c].before
  OBVIOUS
<1>2. before \in Nat /\ (Timely => before <= source)
  BY <1>1, CommandIs DEF Command, CommandHolds
<1>3. PICK about : about = IF word = 0 THEN before ELSE word
  OBVIOUS
<1>4. about \in Nat /\ (Timely => about <= source)
  BY <1>2, <1>3
<1>5. PICK group : group = [list |-> list, about |-> about, age |-> 0]
  OBVIOUS
<1>6. group \in Entries /\ group.list = list /\ group.about = about /\ group # NoList
  BY <1>4, <1>5, NoEntryIsNone DEF Entries
<1>7. PICK chosen : chosen = selected(c, list)
  OBVIOUS
<1>8. chosen \in SomeLists /\ chosen.of = list.of
  BY <1>7, SelectedIs
<1>9. PICK new : new = With(cmd[c], [st |-> "saving", list |-> chosen, held |-> NoList, about |-> 0,
               refresh |-> FALSE, bag |-> IF put = cmd[c].bag THEN 0 ELSE put,
               dirty |-> put # cmd[c].bag,
               group |-> IF kind = "unkept" THEN NoList ELSE group])
  OBVIOUS
<1>10. cmd' = [cmd EXCEPT ![c] = new]
  BY <1>1, <1>3, <1>5, <1>7, <1>9 DEF Stores, Goes
<1>11. /\ new \in Command /\ new.st = "saving" /\ new.list = chosen /\ new.held = NoList
       /\ new.about = 0 /\ new.age = cmd[c].age /\ new.down = cmd[c].down
       /\ new.before = cmd[c].before
       /\ new.dirty = (put # cmd[c].bag) /\ new.bag = (IF put = cmd[c].bag THEN 0 ELSE put)
       /\ new.group = IF kind = "unkept" THEN NoList ELSE group
  <2>1. cmd[c] \in Command /\ (IF put = cmd[c].bag THEN 0 ELSE put) \in Nat
    BY CommandIs
  <2>2. PICK puts : puts = IF put = cmd[c].bag THEN 0 ELSE put
    OBVIOUS
  <2>3. PICK dirty \in BOOLEAN : dirty = (put # cmd[c].bag)
    OBVIOUS
  <2>4. PICK stores : stores = IF kind = "unkept" THEN NoList ELSE group
    OBVIOUS
  <2>5. stores \in {NoList} \cup Entries /\ puts \in Nat
    BY <1>6, <2>1, <2>2, <2>4
  <2>6. new = With(cmd[c], [st |-> "saving", list |-> chosen, held |-> NoList, about |-> 0,
               refresh |-> FALSE, bag |-> puts, dirty |-> dirty, group |-> stores])
    BY <1>9, <2>2, <2>3, <2>4
  <2>7. /\ new \in Command /\ new.st = "saving" /\ new.list = chosen /\ new.held = NoList
        /\ new.about = 0 /\ new.age = cmd[c].age /\ new.down = cmd[c].down
        /\ new.before = cmd[c].before /\ new.dirty = dirty /\ new.bag = puts /\ new.group = stores
    BY <1>8, <2>1, <2>5, <2>6 DEF With, Command, Stages
  <2> QED BY <2>2, <2>3, <2>4, <2>7
<1>12. Timely => CommandHolds(new)
  <2> SUFFICES ASSUME Timely PROVE CommandHolds(new)
    OBVIOUS
  <2>1. /\ list.all /\ list.of = source /\ since[source] = 0 /\ source \in Nat /\ MaxAge \in Nat
        /\ cmd[c].age \in {0, 1}
    BY CommandIs DEF SinceInv, Command
  <2>2. new.group # NoList => IsOne(new.group) /\ HeldSince(new.group, new.age)
    BY <1>4, <1>6, <1>11, <2>1 DEF IsOne, IsHad, HeldSince
  <2>3. since[new.list.of] <= MaxAge + new.age
    BY <1>8, <1>11, <2>1
  <2>4. new.before <= source
    BY <1>1, <1>2, <1>11
  <2> QED BY <1>11, <2>1, <2>2, <2>3, <2>4 DEF CommandHolds
<1>13. Timely /\ kind = "stamped" => StampsHold(new)
  <2> SUFFICES ASSUME Timely, kind = "stamped" PROVE StampsHold(new)
    OBVIOUS
  <2>1. /\ new.group = group /\ new.group # NoList /\ new.group.list.of = source /\ bag <= source
        /\ put <= source
    BY <1>6, <1>11, CommandIs
  <2>2. new.bag <= source
    BY <1>11, <2>1, CommandIs
  <2> QED BY <1>11, <2>1, <2>2 DEF StampsHold
<1> QED BY <1>10, <1>11, <1>12, <1>13, AwakeStep

\* The source has the list still that a command is told has not changed.
LEMMA UnchangedIs ==
  ASSUME ListsInv, Timely, NEW c \in Commands, cmd[c].st = "asking", Unchanged(c)
  PROVE  cmd[c].held \in HeldEntries /\ cmd[c].held.list.all /\ cmd[c].held.list.of = source
<1>1. PICK it : it = cmd[c]
  OBVIOUS
<1>2. /\ it \in Command /\ it.held # NoList /\ CommandHolds(it) /\ SinceInv /\ source \in Nat /\ source >= 2
      /\ source \in 1 .. Versions /\ \A v \in 1 .. Versions : since[v] \in Nat
  BY <1>1, CommandIs DEF Unchanged
<1>3. it.held \in HeldEntries /\ it.age \in {0, 1}
  BY <1>2 DEF Command
<1>4. PICK of : of = it.held.list.of
  OBVIOUS
<1>5. /\ of \in 1 .. Versions /\ it.held.age \in Nat
      /\ of <= source /\ it.held.list.all /\ since[of] <= it.held.age + it.age
  BY <1>2, <1>3, <1>4 DEF HeldEntries, SomeLists, CommandHolds, IsHad, HeldSince
<1>6. CASE kind = "since"
  <2>1. since[source - 1] > it.held.age + it.age
    BY <1>1, <1>6 DEF Unchanged
  <2>2. of <= source - 1 => since[source - 1] <= since[of]
    BY <1>2, <1>5 DEF SinceInv
  <2>3. since[of] \in Nat /\ since[source - 1] \in Nat /\ it.held.age + it.age \in Nat
    <3>1. source - 1 \in 1 .. Versions
      BY <1>2, ListsAssumption
    <3> QED BY <1>2, <1>3, <1>5, <3>1
  <2>4. ~(of <= source - 1)
    BY <1>5, <2>1, <2>2, <2>3
  <2>5. of = source
    BY <1>2, <1>5, <2>4
  <2> QED BY <1>1, <1>3, <1>4, <1>5, <2>5
<1>7. CASE kind = "stamped"
  <2>1. it.bag = source /\ StampsHold(it)
    BY <1>1, <1>7, CommandIs DEF Unchanged
  <2>2. source <= of
    BY <1>1, <1>2, <1>4, <2>1 DEF StampsHold
  <2>3. of = source
    BY <1>2, <1>5, <2>2
  <2> QED BY <1>1, <1>3, <1>4, <1>5, <2>3
<1> QED BY <1>6, <1>7 DEF Unchanged

LEMMA LookUpKeeps == ASSUME ListsInv, NEW c \in Commands, LookUp(c) PROVE ListsInv'
<1>1. cmd[c].st = "asking" /\ UNCHANGED <<kind, source, since, stored, bag>>
  BY DEF LookUp, World, Cache
<1>2. cmd[c] \in Command /\ source \in Nat
  BY CommandIs
<1>3. CASE Unchanged(c) /\ Stores(c, cmd[c].held.list, 0, cmd[c].bag)
  <2>1. cmd[c].held \in HeldEntries /\ cmd[c].held.list \in SomeLists /\ cmd[c].bag \in Nat
    BY <1>2, <1>3 DEF Unchanged, Command, HeldEntries
  <2>2. Timely => cmd[c].held.list.all /\ cmd[c].held.list.of = source
    BY <1>1, <1>3, UnchangedIs
  <2>3. Timely /\ kind = "stamped" => cmd[c].bag <= source
    BY <1>1, CommandIs DEF StampsHold
  <2> QED BY <1>1, <1>2, <1>3, <2>1, <2>2, <2>3, StoresKeeps
<1>4. CASE Goes(c, [st |-> "fetching", about |-> source])
  <2>1. PICK new : new = With(cmd[c], [st |-> "fetching", about |-> source])
    OBVIOUS
  <2>2. cmd' = [cmd EXCEPT ![c] = new]
    BY <1>4, <2>1 DEF Goes
  <2>3. /\ new \in Command /\ new.st = "fetching" /\ new.list = cmd[c].list /\ new.held = cmd[c].held
        /\ new.about = source /\ new.group = cmd[c].group /\ new.dirty = cmd[c].dirty
        /\ new.age = cmd[c].age /\ new.down = cmd[c].down /\ new.bag = cmd[c].bag
        /\ new.before = cmd[c].before
    BY <1>2, <2>1 DEF With, Command, Stages
  <2>4. Timely => CommandHolds(new)
    BY <1>1, <1>2, <2>3, CommandIs DEF CommandHolds
  <2>5. Timely /\ kind = "stamped" => StampsHold(new)
    BY <1>1, <2>3, CommandIs DEF StampsHold
  <2> QED BY <1>1, <2>2, <2>3, <2>4, <2>5, AwakeStep
<1> QED BY <1>3, <1>4 DEF LookUp

LEMMA FetchKeeps == ASSUME ListsInv, NEW c \in Commands, Fetch(c) PROVE ListsInv'
<1>1. cmd[c].st = "fetching" /\ UNCHANGED <<kind, source, since, stored, bag>>
  BY DEF Fetch, World, Cache
<1>2. cmd[c] \in Command /\ source \in Nat /\ source \in 1 .. Versions
  BY CommandIs
<1>3. PICK word : word = IF kind = "told" THEN cmd[c].about ELSE 0
  OBVIOUS
<1>4. PICK put : put = IF kind = "stamped" THEN cmd[c].about ELSE cmd[c].bag
  OBVIOUS
<1>5. Stores(c, Whole(source), word, put)
  BY <1>3, <1>4 DEF Fetch
<1>6. cmd[c].about \in Nat /\ cmd[c].bag \in Nat /\ (Timely => cmd[c].about <= source)
  BY <1>2, CommandIs DEF Command, CommandHolds
<1>7. word \in Nat /\ put \in Nat /\ (Timely => word <= source)
  BY <1>2, <1>3, <1>4, <1>6
<1>8. Timely /\ kind = "stamped" => put <= source
  BY <1>4, <1>6
<1>9. Whole(source) \in SomeLists /\ Whole(source).all /\ Whole(source).of = source
  BY <1>2 DEF Whole, SomeLists
<1> QED BY <1>1, <1>5, <1>7, <1>8, <1>9, StoresKeeps

LEMMA CommandFailsKeeps ==
  ASSUME ListsInv, NEW c \in Commands, cmd[c].st \in {"reading", "asking", "fetching"}, Fails(c),
         UNCHANGED <<kind, source, since, stored, bag>>
  PROVE  ListsInv'
<1>1. PICK new : new = With(cmd[c], [st |-> "saving", list |-> NoList, held |-> NoList, about |-> 0,
                                     refresh |-> FALSE])
  OBVIOUS
<1>2. cmd' = [cmd EXCEPT ![c] = new]
  BY <1>1 DEF Fails, Goes
<1>3. /\ new \in Command /\ new.st = "saving" /\ new.list = NoList /\ new.held = NoList
      /\ new.about = 0 /\ new.group = cmd[c].group /\ new.dirty = cmd[c].dirty
      /\ new.before = cmd[c].before
  BY <1>1, CommandIs DEF With, Command, Stages
<1>4. Timely => /\ cmd[c].group = NoList /\ ~cmd[c].dirty /\ source \in Nat
                /\ cmd[c].before <= source
  BY CommandIs DEF CommandHolds
<1>5. Timely => CommandHolds(new)
  BY <1>3, <1>4 DEF CommandHolds
<1>6. Timely /\ kind = "stamped" => StampsHold(new)
  BY <1>3, <1>4 DEF StampsHold
<1> QED BY <1>2, <1>3, <1>5, <1>6, AwakeStep

LEMMA UnansweredKeeps == ASSUME ListsInv, NEW c \in Commands, Unanswered(c) PROVE ListsInv'
<1>1. /\ cmd[c].st \in {"asking", "fetching"} /\ UNCHANGED <<kind, source, since, stored, bag>>
      /\ \/ Fails(c)
         \/ /\ cmd[c].held # NoList
            /\ Goes(c, [st |-> "saving", list |-> selected(c, cmd[c].held.list), held |-> NoList,
                        about |-> 0, refresh |-> FALSE, down |-> TRUE])
  BY DEF Unanswered, World, Cache
<1>2. CASE Fails(c)
  BY <1>1, <1>2, CommandFailsKeeps
<1>3. CASE cmd[c].held # NoList /\ Goes(c, [st |-> "saving", list |-> selected(c, cmd[c].held.list),
              held |-> NoList, about |-> 0, refresh |-> FALSE, down |-> TRUE])
  <2>1. PICK list : list = selected(c, cmd[c].held.list)
    OBVIOUS
  <2>2. list \in SomeLists
    <3>1. cmd[c].held.list \in SomeLists
      BY <1>3, CommandIs DEF Command, HeldEntries
    <3> QED BY <2>1, <3>1, SelectedIs
  <2>3. PICK new : new = With(cmd[c], [st |-> "saving", list |-> list, held |-> NoList, about |-> 0,
                                       refresh |-> FALSE, down |-> TRUE])
    OBVIOUS
  <2>4. cmd' = [cmd EXCEPT ![c] = new]
    BY <1>3, <2>1, <2>3 DEF Goes
  <2>5. /\ new \in Command /\ new.st = "saving" /\ new.down = TRUE /\ new.held = NoList
        /\ new.about = 0 /\ new.group = cmd[c].group /\ new.dirty = cmd[c].dirty
        /\ new.before = cmd[c].before
    BY <2>2, <2>3, CommandIs DEF With, Command, Stages
  <2>6. Timely => /\ cmd[c].group = NoList /\ ~cmd[c].dirty /\ source \in Nat
                  /\ cmd[c].before <= source
    BY <1>1, CommandIs DEF CommandHolds
  <2>7. Timely => CommandHolds(new)
    BY <2>5, <2>6 DEF CommandHolds
  <2>8. Timely /\ kind = "stamped" => StampsHold(new)
    BY <2>5, <2>6 DEF StampsHold
  <2> QED BY <1>1, <2>4, <2>5, <2>7, <2>8, AwakeStep
<1> QED BY <1>1, <1>2, <1>3

LEMMA CommandRefusedKeeps == ASSUME ListsInv, NEW c \in Commands, Refused(c) PROVE ListsInv'
<1>1. /\ cmd[c].st \in {"reading", "asking", "fetching"} /\ Fails(c)
      /\ UNCHANGED <<kind, source, since, stored, bag>>
  BY DEF Refused, World, Cache
<1> QED BY <1>1, CommandFailsKeeps

\* A command that is over, having stored nothing, or killed.
LEMMA OverKeeps ==
  ASSUME ListsInv, NEW c \in Commands, cmd' = [cmd EXCEPT ![c] = Resting],
         UNCHANGED <<kind, source, since, stored, bag>>
  PROVE  ListsInv'
<1>1. Resting \in Command /\ CommandHolds(Resting) /\ StampsHold(Resting) /\ Resting.st = "idle"
  BY RestingIs, CommandIs DEF Resting
<1> QED BY <1>1, OwnStep

LEMMA SaveFailsKeeps == ASSUME ListsInv, NEW c \in Commands, SaveFails(c) PROVE ListsInv'
BY OverKeeps DEF SaveFails, Ends, World, Cache

LEMMA KilledKeeps == ASSUME ListsInv, NEW c \in Commands, Killed(c) PROVE ListsInv'
BY OverKeeps DEF Killed, World, Cache

\* What a command stored is the list stored; one that had nothing to store leaves it.
LEMMA SaveListKeeps == ASSUME ListsInv, NEW c \in Commands, SaveList(c) PROVE ListsInv'
<1>1. /\ cmd[c].st = "saving" /\ UNCHANGED <<kind, source, since, bag>>
      /\ stored' = IF cmd[c].group = NoList THEN stored ELSE [cmd[c].group EXCEPT !.age = cmd[c].age]
      /\ \/ cmd[c].dirty /\ Goes(c, [st |-> "putting"])
         \/ ~cmd[c].dirty /\ Ends(c)
  BY DEF SaveList, World
<1>2. PICK new : new = IF cmd[c].dirty THEN With(cmd[c], [st |-> "putting"]) ELSE Resting
  OBVIOUS
<1>3. /\ cmd \in [Commands -> Command] /\ cmd[c] \in Command /\ source \in Nat
      /\ Timely => CommandHolds(cmd[c])
  BY CommandIs
<1>4. cmd' = [cmd EXCEPT ![c] = new]
  BY <1>1, <1>2 DEF Goes, Ends
<1>5. cmd[c].dirty => /\ new \in Command /\ new.st = "putting" /\ new.held = cmd[c].held
                      /\ new.about = cmd[c].about /\ new.group = cmd[c].group
                      /\ new.list = cmd[c].list /\ new.down = cmd[c].down /\ new.age = cmd[c].age
                      /\ new.bag = cmd[c].bag /\ new.before = cmd[c].before
  BY <1>2, <1>3 DEF With, Command, Stages
<1>6. /\ new \in Command /\ new.st \in {"idle", "putting"}
      /\ (new.st = "putting" => cmd[c].dirty /\ new.bag = cmd[c].bag)
      /\ Timely => CommandHolds(new)
  <2>1. CASE cmd[c].dirty
    <3>1. Timely => CommandHolds(new)
      BY <1>1, <1>3, <1>5, <2>1 DEF CommandHolds
    <3> QED BY <1>5, <2>1, <3>1
  <2>2. CASE ~cmd[c].dirty
    BY <1>2, <1>3, <2>2, RestingIs DEF Resting
  <2> QED BY <2>1, <2>2
<1>7. cmd[c].group # NoList =>
        /\ stored' \in Entries /\ stored' # NoList /\ stored'.list = cmd[c].group.list
        /\ stored'.about = cmd[c].group.about /\ stored'.age = cmd[c].age /\ stored'.age \in Nat
  <2> SUFFICES ASSUME cmd[c].group # NoList
               PROVE  /\ stored' \in Entries /\ stored'.list = cmd[c].group.list
                      /\ stored'.about = cmd[c].group.about /\ stored'.age = cmd[c].age
                      /\ stored'.age \in Nat
    BY NoEntryIsNone
  <2>1. cmd[c].group \in Entries /\ cmd[c].age \in Nat
    BY <1>3 DEF Command
  <2> QED BY <1>1, <2>1 DEF Entries
<1>8. /\ cmd' \in [Commands -> Command] /\ cmd'[c] = new
      /\ \A d \in Commands : d # c => cmd'[d] = cmd[d]
  BY <1>3, <1>4, <1>6
<1>9. ListsShape'
  <2>1. stored' \in {NoList} \cup Entries \cup FarEntries
    BY <1>1, <1>7 DEF ListsInv, ListsShape
  <2> QED BY <1>1, <1>8, <2>1 DEF ListsInv, ListsShape
<1> SUFFICES ASSUME Timely PROVE SinceInv' /\ StoredInv' /\ CommandsInv' /\ StampsInv'
  BY <1>1, <1>9 DEF ListsInv, Timely
<1>10. SinceInv'
  BY <1>1 DEF ListsInv, SinceInv
<1>11. StoredInv'
  <2>1. CASE cmd[c].group = NoList
    BY <1>1, <2>1 DEF ListsInv, StoredInv, IsOne, IsHad, HeldSince
  <2>2. CASE cmd[c].group # NoList
    <3>1. IsOne(cmd[c].group) /\ HeldSince(cmd[c].group, cmd[c].age)
      BY <1>3, <2>2 DEF CommandHolds
    <3>2. IsOne(stored') /\ HeldSince(stored', stored'.age)
      BY <1>7, <2>2, <3>1 DEF IsOne, IsHad, HeldSince
    <3> QED BY <1>1, <3>2 DEF StoredInv, IsOne, IsHad, HeldSince
  <2> QED BY <2>1, <2>2
<1>12. CommandsInv'
  <2>1. \A d \in Commands : CommandHolds(cmd'[d])
    BY <1>6, <1>8 DEF ListsInv, CommandsInv
  <2> QED BY <1>1, <2>1 DEF CommandsInv, CommandHolds, IsOne, IsHad, HeldSince
<1>13. StampsInv'
  <2> SUFFICES ASSUME kind = "stamped"
               PROVE  /\ OneAtATime' /\ bag <= source
                      /\ stored' # NoList => bag <= stored'.list.of
                      /\ \A d \in Commands : StampsHold(cmd[d])'
    BY <1>1 DEF StampsInv
  <2>1. /\ OneAtATime /\ bag <= source /\ StampsHold(cmd[c])
        /\ stored # NoList => bag <= stored.list.of
    BY DEF ListsInv, StampsInv
  <2>2. OneAtATime'
    BY <1>1, <1>8, <2>1 DEF OneAtATime
  <2>3. stored' # NoList => bag <= stored'.list.of
    BY <1>1, <1>7, <2>1 DEF StampsHold
  <2>4. \A d \in Commands : d # c => cmd'[d].st = "idle"
    BY <1>1, <1>8, <2>1 DEF OneAtATime
  <2>5. cmd'[c].st = "putting" => stored' # NoList /\ cmd'[c].bag <= stored'.list.of
    BY <1>1, <1>6, <1>7, <1>8, <2>1 DEF StampsHold
  <2>6. cmd'[c].st \in {"idle", "putting"}
    BY <1>6, <1>8
  <2>7. \A d \in Commands : StampsHold(cmd[d])'
    BY <2>4, <2>5, <2>6 DEF StampsHold
  <2> QED BY <2>1, <2>2, <2>3, <2>7
<1> QED BY <1>10, <1>11, <1>12, <1>13

LEMMA SaveBagKeeps == ASSUME ListsInv, NEW c \in Commands, SaveBag(c) PROVE ListsInv'
<1>1. /\ cmd[c].st = "putting" /\ UNCHANGED <<kind, source, since, stored>> /\ bag' = cmd[c].bag
      /\ cmd' = [cmd EXCEPT ![c] = Resting]
  BY DEF SaveBag, World, Ends
<1>2. /\ cmd \in [Commands -> Command] /\ cmd[c] \in Command /\ source \in Nat
      /\ Resting \in Command /\ CommandHolds(Resting) /\ Resting.st = "idle"
  BY CommandIs, RestingIs DEF Resting
<1>3. /\ cmd' \in [Commands -> Command] /\ cmd'[c].st = "idle" /\ cmd'[c] = Resting
      /\ \A d \in Commands : d # c => cmd'[d] = cmd[d]
  BY <1>1, <1>2
<1>4. ListsShape'
  <2>1. cmd[c].bag \in Nat
    BY <1>2 DEF Command
  <2> QED BY <1>1, <1>3, <2>1 DEF ListsInv, ListsShape
<1> SUFFICES ASSUME Timely PROVE SinceInv' /\ StoredInv' /\ CommandsInv' /\ StampsInv'
  BY <1>1, <1>4 DEF ListsInv, Timely
<1>5. SinceInv' /\ StoredInv'
  BY <1>1 DEF ListsInv, SinceInv, StoredInv, IsOne, IsHad, HeldSince
<1>6. CommandsInv'
  <2>1. \A d \in Commands : CommandHolds(cmd'[d])
    BY <1>2, <1>3 DEF ListsInv, CommandsInv
  <2> QED BY <1>1, <2>1 DEF CommandsInv, CommandHolds, IsOne, IsHad, HeldSince
<1>7. StampsInv'
  <2> SUFFICES ASSUME kind = "stamped"
               PROVE  /\ OneAtATime' /\ bag' <= source
                      /\ stored # NoList => bag' <= stored.list.of
                      /\ \A d \in Commands : StampsHold(cmd[d])'
    BY <1>1 DEF StampsInv
  <2>1. OneAtATime /\ StampsHold(cmd[c])
    BY DEF ListsInv, StampsInv
  <2>2. \A d \in Commands : cmd'[d].st = "idle"
    BY <1>1, <1>3, <2>1 DEF OneAtATime
  <2>3. stored # NoList /\ bag' <= stored.list.of /\ stored.list.of <= source
    BY <1>1, <2>1 DEF StampsHold, ListsInv, StoredInv, IsOne, IsHad
  <2>4. bag' \in Nat /\ stored.list.of \in Nat
    BY <1>4, <2>3 DEF ListsInv, ListsShape, Entries, FarEntries, SomeLists
  <2>5. bag' <= source
    BY <1>2, <2>3, <2>4
  <2>6. OneAtATime' /\ \A d \in Commands : StampsHold(cmd[d])'
    BY <2>2 DEF OneAtATime, StampsHold
  <2> QED BY <2>3, <2>5, <2>6
<1> QED BY <1>5, <1>6, <1>7

LEMMA VersionsAre ==
  ASSUME ListsShape
  PROVE  /\ Versions \in Nat /\ MaxAge \in Nat /\ Top \in Nat /\ source \in Nat /\ source >= 2
         /\ source \in 1 .. Versions /\ since \in [1 .. Versions -> 0 .. Top]
         /\ \A v \in 1 .. Versions : since[v] \in Nat /\ since[v] <= Top
         /\ \A entry \in Entries \cup FarEntries :
              entry.list.of \in 1 .. Versions /\ entry.list.of \in Nat /\ entry.about \in Nat
         /\ \A entry \in HeldEntries : entry.list.of \in 1 .. Versions
         /\ \A c \in Commands :
              /\ cmd[c] \in Command /\ cmd[c].age \in {0, 1}
              /\ cmd[c].about \in Nat /\ cmd[c].before \in Nat
              /\ cmd[c].held # NoList => cmd[c].held \in HeldEntries /\ cmd[c].held.age \in Nat
              /\ cmd[c].group # NoList => cmd[c].group \in Entries
              /\ cmd[c].list # NoList => cmd[c].list.of \in 1 .. Versions
<1>1. /\ Versions \in Nat /\ MaxAge \in Nat /\ Top \in Nat /\ source \in Nat /\ source >= 2
      /\ source \in 1 .. Versions /\ since \in [1 .. Versions -> 0 .. Top]
  BY ListsAssumption DEF ListsShape, Top
<1>2. \A v \in 1 .. Versions : since[v] \in Nat /\ since[v] <= Top
  BY <1>1
<1>3. \A entry \in Entries \cup FarEntries :
        entry.list.of \in 1 .. Versions /\ entry.list.of \in Nat /\ entry.about \in Nat
  BY DEF Entries, FarEntries, SomeLists
<1>6. \A entry \in HeldEntries : entry.list.of \in 1 .. Versions
  BY DEF HeldEntries, SomeLists
<1>4. \A c \in Commands : /\ cmd[c] \in Command /\ cmd[c].age \in {0, 1}
                         /\ cmd[c].about \in Nat /\ cmd[c].before \in Nat
  BY DEF ListsShape, Command
<1>5. \A c \in Commands :
        /\ cmd[c].held # NoList => cmd[c].held \in HeldEntries /\ cmd[c].held.age \in Nat
        /\ cmd[c].group # NoList => cmd[c].group \in Entries
        /\ cmd[c].list # NoList => cmd[c].list.of \in 1 .. Versions
  BY <1>4 DEF Command, Entries, HeldEntries, SomeLists
<1> QED BY <1>1, <1>2, <1>3, <1>4, <1>5, <1>6

\* The source has a list of its own for the first time: none has been older.
LEMMA ChangesKeep == ASSUME ListsInv, Changes PROVE ListsInv'
<1>1. /\ source < Versions /\ source' = source + 1 /\ since' = [since EXCEPT ![source + 1] = 0]
      /\ UNCHANGED <<kind, stored, bag, cmd>> /\ ListsShape
  BY DEF Changes, Cache, ListsInv
<1>2. /\ Versions \in Nat /\ Top \in Nat /\ source \in Nat /\ source >= 2
      /\ source \in 1 .. Versions /\ since \in [1 .. Versions -> 0 .. Top]
      /\ \A v \in 1 .. Versions : since[v] \in Nat
  BY <1>1, VersionsAre
<1>3. /\ since' \in [1 .. Versions -> 0 .. Top] /\ since'[source + 1] = 0 /\ source + 1 \in 1 .. Versions
      /\ \A v \in 1 .. Versions : v # source + 1 => since'[v] = since[v]
  BY <1>1, <1>2
<1>4. \A v \in 1 .. Versions : since'[v] \in Nat /\ since'[v] <= since[v]
  <2> SUFFICES ASSUME NEW v \in 1 .. Versions PROVE since'[v] \in Nat /\ since'[v] <= since[v]
    OBVIOUS
  <2>1. CASE v = source + 1
    BY <1>2, <1>3, <2>1
  <2>2. CASE v # source + 1
    BY <1>2, <1>3, <2>2
  <2> QED BY <2>1, <2>2
<1>5. ListsShape'
  <2>1. source' \in 2 .. Versions
    BY <1>1, <1>2
  <2> QED BY <1>1, <1>3, <2>1 DEF ListsShape
<1> SUFFICES ASSUME Timely PROVE SinceInv' /\ StoredInv' /\ CommandsInv' /\ StampsInv'
  BY <1>1, <1>5 DEF ListsInv, Timely
<1>6. SinceInv /\ StoredInv /\ CommandsInv /\ StampsInv
  BY DEF ListsInv
<1>7. SinceInv'
  <2> SUFFICES ASSUME NEW v \in 1 .. (source + 1), NEW w \in 1 .. (source + 1), v <= w
               PROVE  since'[w] <= since'[v]
    BY <1>1, <1>3 DEF SinceInv
  <2>1. CASE w = source + 1
    BY <1>2, <1>3, <1>4, <2>1
  <2>2. CASE w # source + 1
    <3>1. v \in 1 .. source /\ w \in 1 .. source
      BY <1>2, <2>2
    <3>2. since[w] <= since[v]
      BY <1>6, <3>1 DEF SinceInv
    <3>3. since'[w] = since[w] /\ since'[v] = since[v]
      BY <1>2, <1>3, <3>1
    <3> QED BY <3>2, <3>3
  <2> QED BY <2>1, <2>2
\* What an entry held by holds still.
<1>8. \A entry \in Entries \cup FarEntries : IsOne(entry) => IsOne(entry)'
  <2> SUFFICES ASSUME NEW entry \in Entries \cup FarEntries, IsOne(entry) PROVE IsOne(entry)'
    OBVIOUS
  <2>1. entry.list.of <= source + 1
    BY <1>1, <1>2, VersionsAre DEF IsOne, IsHad
  <2> QED BY <1>1, <2>1 DEF IsOne, IsHad
<1>13. \A entry \in HeldEntries : IsHad(entry) => IsHad(entry)'
  <2> SUFFICES ASSUME NEW entry \in HeldEntries, IsHad(entry) PROVE IsHad(entry)'
    OBVIOUS
  <2>1. entry.list.of <= source + 1
    BY <1>1, <1>2, VersionsAre DEF IsHad
  <2> QED BY <1>1, <2>1 DEF IsHad
<1>9. \A entry \in Entries \cup FarEntries \cup HeldEntries, n \in Nat : HeldSince(entry, n) => HeldSince(entry, n)'
  <2> SUFFICES ASSUME NEW entry \in Entries \cup FarEntries \cup HeldEntries, NEW n \in Nat,
                      HeldSince(entry, n)
               PROVE  HeldSince(entry, n)'
    OBVIOUS
  <2>1. entry.list.of \in 1 .. Versions /\ since[entry.list.of] <= n
    BY <1>1, VersionsAre DEF HeldSince
  <2>2. since'[entry.list.of] <= n
    BY <1>2, <1>4, <2>1
  <2> QED BY <2>2 DEF HeldSince
<1>10. StoredInv'
  <2>1. stored # NoList /\ stored.age # Far => stored.age \in Nat
    BY <1>1 DEF ListsShape, Entries, FarEntries
  <2>2. stored # NoList => stored \in Entries \cup FarEntries
    BY <1>1 DEF ListsShape
  <2>3. stored # NoList => IsOne(stored)' /\ (stored.age # Far => HeldSince(stored, stored.age)')
    BY <1>1, <1>6, <1>8, <1>9, <2>1, <2>2 DEF StoredInv
  <2> QED BY <1>1, <2>3 DEF StoredInv
<1>11. CommandsInv'
  <2> SUFFICES ASSUME NEW c \in Commands PROVE CommandHolds(cmd[c])'
    BY DEF CommandsInv
  <2>1. PICK it : it = cmd[c]
    OBVIOUS
  <2>2. /\ it \in Command /\ it.age \in {0, 1} /\ it.about \in Nat /\ it.before \in Nat
        /\ it.held # NoList => it.held \in HeldEntries /\ it.held.age \in Nat
        /\ it.group # NoList => it.group \in Entries
        /\ it.list # NoList => it.list.of \in 1 .. Versions
    BY <1>1, <2>1, VersionsAre
  <2>3. CommandHolds(it) /\ cmd'[c] = it
    BY <1>1, <1>6, <2>1 DEF CommandsInv
  <2>4. it.about <= source + 1 /\ it.before <= source + 1
    BY <1>2, <2>2, <2>3 DEF CommandHolds
  <2>5. it.held # NoList => IsHad(it.held)' /\ HeldSince(it.held, it.held.age + it.age)'
    <3>1. it.held # NoList => it.held.age + it.age \in Nat
      BY <2>2
    <3> QED BY <1>9, <1>13, <2>2, <2>3, <3>1 DEF CommandHolds
  <2>6. it.group # NoList => IsOne(it.group)' /\ HeldSince(it.group, it.age)'
    BY <1>8, <1>9, <2>2, <2>3 DEF CommandHolds
  <2>7. it.list # NoList /\ ~it.down => since'[it.list.of] <= MaxAge + it.age
    <3> SUFFICES ASSUME it.list # NoList, ~it.down PROVE since'[it.list.of] <= MaxAge + it.age
      OBVIOUS
    <3>1. since[it.list.of] <= MaxAge + it.age /\ it.list.of \in 1 .. Versions
      BY <2>2, <2>3 DEF CommandHolds
    <3> QED BY <1>1, <1>2, <1>4, <2>2, <3>1, VersionsAre
  <2> QED BY <1>1, <2>3, <2>4, <2>5, <2>6, <2>7 DEF CommandHolds
<1>12. StampsInv'
  <2>1. bag \in Nat
    BY <1>1 DEF ListsShape
  <2>2. bag <= source => bag <= source + 1
    BY <1>2, <2>1
  <2> QED BY <1>1, <1>6, <2>2 DEF StampsInv, OneAtATime, StampsHold
<1> QED BY <1>7, <1>10, <1>11, <1>12

LEMMA OlderIs ==
  ASSUME NEW n \in Nat
  PROVE  /\ Older(n) \in Nat /\ (n # Top => Older(n) = n + 1) /\ (n = Top => Older(n) = n)
BY ListsAssumption DEF Older

\* A tick: what is stored ages as what it is of does.
LEMMA TicksKeep == ASSUME ListsInv, Ticks PROVE ListsInv'
<1>1. /\ \A c \in Commands : cmd[c].age = 0
      /\ since' = [v \in DOMAIN since |-> IF v >= source THEN 0 ELSE Older(since[v])]
      /\ stored' = IF stored = NoList THEN NoList ELSE [stored EXCEPT !.age = Older(stored.age)]
      /\ cmd' = [c \in Commands |-> IF cmd[c].st = "idle" THEN cmd[c] ELSE [cmd[c] EXCEPT !.age = 1]]
      /\ UNCHANGED <<kind, source, bag>> /\ ListsShape
  BY DEF Ticks, ListsInv
<1>2. /\ Versions \in Nat /\ Top \in Nat /\ source \in Nat /\ source >= 2 /\ MaxAge \in Nat
      /\ source \in 1 .. Versions /\ since \in [1 .. Versions -> 0 .. Top]
      /\ \A v \in 1 .. Versions : since[v] \in Nat /\ since[v] <= Top
  BY <1>1, VersionsAre
<1>3. \A v \in 1 .. Versions : since'[v] = IF v >= source THEN 0 ELSE Older(since[v])
  BY <1>1, <1>2
<1>4. \A v \in 1 .. Versions : since'[v] \in 0 .. Top /\ since'[v] <= since[v] + 1
  <2> SUFFICES ASSUME NEW v \in 1 .. Versions
               PROVE  since'[v] \in 0 .. Top /\ since'[v] <= since[v] + 1
    OBVIOUS
  <2>1. since[v] \in Nat /\ since[v] <= Top
    BY <1>2
  <2>2. CASE v >= source
    <3>1. since'[v] = 0
      BY <1>3, <2>2
    <3> QED BY <1>2, <2>1, <3>1
  <2>3. CASE ~(v >= source)
    <3>1. since'[v] = Older(since[v])
      BY <1>3, <2>3
    <3>2. (since'[v] = since[v] + 1 /\ since[v] # Top) \/ since'[v] = since[v]
      BY <2>1, <3>1, OlderIs
    <3> QED BY <1>2, <2>1, <3>2
  <2> QED BY <2>2, <2>3
<1>5. since' \in [1 .. Versions -> 0 .. Top]
  BY <1>1, <1>2, <1>4
<1>6. stored # NoList =>
        /\ stored'.list = stored.list /\ stored'.about = stored.about /\ stored'.age = Older(stored.age)
        /\ stored.age = Far => stored'.age = Far
        /\ stored.age # Far => stored.age \in Nat /\ stored' \in Entries
        /\ stored' \in Entries \cup FarEntries /\ stored' # NoList
  <2> SUFFICES ASSUME stored # NoList
               PROVE  /\ stored'.list = stored.list /\ stored'.about = stored.about
                      /\ stored'.age = Older(stored.age)
                      /\ stored.age = Far => stored'.age = Far
                      /\ stored.age # Far => stored.age \in Nat /\ stored' \in Entries
                      /\ stored' \in Entries \cup FarEntries /\ stored' # NoList
    OBVIOUS
  <2>1. stored \in Entries \cup FarEntries /\ stored' = [stored EXCEPT !.age = Older(stored.age)]
    BY <1>1 DEF ListsShape
  <2>2. CASE stored \in Entries
    <3>1. stored.age \in Nat /\ Older(stored.age) \in Nat /\ stored.age # Far
      BY <2>2, OlderIs, ListsAssumption DEF Entries
    <3>2. /\ stored' \in Entries /\ stored'.list = stored.list /\ stored'.about = stored.about
          /\ stored'.age = Older(stored.age)
      BY <2>1, <2>2, <3>1 DEF Entries
    <3> QED BY <3>1, <3>2, NoEntryIsNone
  <2>3. CASE stored \in FarEntries
    <3>1. stored.age = Far /\ Older(stored.age) = Far
      BY <2>3 DEF FarEntries, Older
    <3>2. stored' = stored
      BY <2>1, <2>3, <3>1 DEF FarEntries
    <3> QED BY <2>3, <3>1, <3>2
  <2> QED BY <2>1, <2>2, <2>3
<1>7. \A c \in Commands :
        /\ cmd'[c] \in Command /\ cmd'[c].st = cmd[c].st
        /\ cmd'[c].held = cmd[c].held /\ cmd'[c].about = cmd[c].about /\ cmd'[c].list = cmd[c].list
        /\ cmd'[c].group = cmd[c].group /\ cmd'[c].dirty = cmd[c].dirty /\ cmd'[c].down = cmd[c].down
        /\ cmd'[c].bag = cmd[c].bag /\ cmd'[c].before = cmd[c].before
        /\ cmd[c].st = "idle" => cmd'[c] = cmd[c]
        /\ cmd[c].st # "idle" => cmd'[c].age = 1
  <2> SUFFICES ASSUME NEW c \in Commands
               PROVE  /\ cmd'[c] \in Command /\ cmd'[c].st = cmd[c].st
                      /\ cmd'[c].held = cmd[c].held /\ cmd'[c].about = cmd[c].about
                      /\ cmd'[c].list = cmd[c].list /\ cmd'[c].group = cmd[c].group
                      /\ cmd'[c].dirty = cmd[c].dirty /\ cmd'[c].down = cmd[c].down
                      /\ cmd'[c].bag = cmd[c].bag /\ cmd'[c].before = cmd[c].before
                      /\ cmd[c].st = "idle" => cmd'[c] = cmd[c]
                      /\ cmd[c].st # "idle" => cmd'[c].age = 1
    OBVIOUS
  <2>1. cmd[c] \in Command
    BY <1>1 DEF ListsShape
  <2>2. cmd'[c] = IF cmd[c].st = "idle" THEN cmd[c] ELSE [cmd[c] EXCEPT !.age = 1]
    BY <1>1
  <2> QED BY <2>1, <2>2 DEF Command
<1>8. ListsShape'
  <2>1. stored' \in {NoList} \cup Entries \cup FarEntries
    BY <1>1, <1>6
  <2>2. cmd' \in [Commands -> Command]
    BY <1>1, <1>7
  <2> QED BY <1>1, <1>5, <2>1, <2>2 DEF ListsShape
<1> SUFFICES ASSUME Timely PROVE SinceInv' /\ StoredInv' /\ CommandsInv' /\ StampsInv'
  BY <1>1, <1>8 DEF ListsInv, Timely
<1>9. SinceInv /\ StoredInv /\ CommandsInv /\ StampsInv
  BY DEF ListsInv
<1>10. SinceInv'
  <2>1. since'[source] = 0
    BY <1>2, <1>3
  <2> SUFFICES ASSUME NEW v \in 1 .. source, NEW w \in 1 .. source, v <= w PROVE since'[w] <= since'[v]
    BY <1>1, <2>1 DEF SinceInv
  <2>2. v \in 1 .. Versions /\ w \in 1 .. Versions
    BY <1>2
  <2>3. CASE w >= source
    BY <1>3, <1>4, <2>2, <2>3
  <2>4. CASE ~(w >= source)
    <3>1. since'[w] = Older(since[w]) /\ since'[v] = Older(since[v])
      BY <1>2, <1>3, <2>2, <2>4
    <3>2. since[w] <= since[v]
      BY <1>9 DEF SinceInv
    <3>3. since[w] \in Nat /\ since[v] \in Nat /\ since[v] <= Top
      BY <1>2, <2>2
    <3>4. since'[w] = (IF since[w] = Top THEN Top ELSE since[w] + 1)
      BY <3>1, <3>3, OlderIs
    <3>5. since'[v] = (IF since[v] = Top THEN Top ELSE since[v] + 1)
      BY <3>1, <3>3, OlderIs
    <3> QED BY <1>2, <3>2, <3>3, <3>4, <3>5
  <2> QED BY <2>3, <2>4
<1>11. StoredInv'
  <2> SUFFICES ASSUME stored' # NoList
               PROVE  IsOne(stored)' /\ (stored'.age # Far => HeldSince(stored, stored.age)')
    BY DEF StoredInv
  <2>1. stored # NoList
    BY <1>1
  <2>2. IsOne(stored)'
    BY <1>1, <1>6, <1>9, <2>1 DEF StoredInv, IsOne, IsHad
  <2>3. ASSUME stored'.age # Far PROVE HeldSince(stored, stored.age)'
    <3>1. /\ stored.age \in Nat /\ since[stored.list.of] <= stored.age
          /\ stored'.age = Older(stored.age) /\ stored'.list = stored.list
      BY <1>6, <1>9, <2>1, <2>3 DEF StoredInv, HeldSince
    <3>2. stored.list.of \in 1 .. Versions
      <4>1. stored \in Entries \cup FarEntries
        BY <1>1, <2>1 DEF ListsShape
      <4> QED BY <1>1, <4>1, VersionsAre
    <3>3. since'[stored.list.of] <= Older(stored.age)
      <4>1. /\ since'[stored.list.of] \in 0 .. Top /\ since[stored.list.of] \in Nat
            /\ since'[stored.list.of] <= since[stored.list.of] + 1
        BY <1>2, <1>4, <3>2
      <4>2. Older(stored.age) = IF stored.age = Top THEN Top ELSE stored.age + 1
        BY <3>1, OlderIs
      <4> QED BY <1>2, <3>1, <4>1, <4>2
    <3> QED BY <3>1, <3>3 DEF HeldSince
  <2> QED BY <2>2, <2>3
<1>12. CommandsInv'
  <2> SUFFICES ASSUME NEW c \in Commands PROVE CommandHolds(cmd[c])'
    BY DEF CommandsInv
  <2>1. PICK it : it = cmd[c]
    OBVIOUS
  <2>2. PICK new : new = cmd'[c]
    OBVIOUS
  <2>3. /\ it \in Command /\ it.age = 0 /\ it.about \in Nat
        /\ it.held # NoList => it.held \in HeldEntries /\ it.held.age \in Nat
        /\ it.group # NoList => it.group \in Entries
        /\ it.list # NoList => it.list.of \in 1 .. Versions
    BY <1>1, <2>1, VersionsAre
  <2>4. CommandHolds(it)
    BY <1>9, <2>1 DEF CommandsInv
  <2>5. /\ new.st = it.st /\ new.held = it.held /\ new.about = it.about /\ new.list = it.list
        /\ new.group = it.group /\ new.dirty = it.dirty /\ new.down = it.down
        /\ new.before = it.before
        /\ it.st = "idle" => new = it
        /\ it.st # "idle" => new.age = 1
    BY <1>7, <2>1, <2>2
  <2>6. CASE it.st = "idle"
    <3>1. new = Resting /\ Resting.held = NoList /\ Resting.group = NoList /\ Resting.list = NoList
      BY <2>4, <2>5, <2>6 DEF CommandHolds, Resting
    <3>2. /\ new.st = "idle" /\ new.about <= source /\ new.before <= source
      BY <2>4, <2>5, <2>6 DEF CommandHolds
    <3> QED BY <1>1, <2>2, <3>1, <3>2 DEF CommandHolds
  <2>7. CASE it.st # "idle"
    <3>1. /\ \A entry \in Entries : IsOne(entry) => IsOne(entry)'
          /\ \A entry \in HeldEntries : IsHad(entry) => IsHad(entry)'
      BY <1>1 DEF IsOne, IsHad
    <3>2. \A entry \in Entries \cup HeldEntries, n \in Nat : HeldSince(entry, n) => HeldSince(entry, n + 1)'
      <4> SUFFICES ASSUME NEW entry \in Entries \cup HeldEntries, NEW n \in Nat, HeldSince(entry, n)
                   PROVE  HeldSince(entry, n + 1)'
        OBVIOUS
      <4>1. entry.list.of \in 1 .. Versions /\ since[entry.list.of] <= n
        BY <1>1, VersionsAre DEF HeldSince
      <4>2. since'[entry.list.of] <= n + 1
        BY <1>2, <1>4, <4>1
      <4> QED BY <4>2 DEF HeldSince
    <3>3. it.held # NoList => IsHad(it.held)' /\ HeldSince(it.held, it.held.age + 1)'
      <4>1. it.held # NoList => HeldSince(it.held, it.held.age) /\ IsHad(it.held)
        BY <2>3, <2>4 DEF CommandHolds
      <4> QED BY <2>3, <3>1, <3>2, <4>1
    <3>4. it.group # NoList => IsOne(it.group)' /\ HeldSince(it.group, 1)'
      <4>1. it.group # NoList => HeldSince(it.group, 0) /\ IsOne(it.group)
        BY <2>3, <2>4 DEF CommandHolds
      <4> QED BY <2>3, <3>1, <3>2, <4>1
    <3>5. it.list # NoList /\ ~it.down => since'[it.list.of] <= MaxAge + 1
      <4> SUFFICES ASSUME it.list # NoList, ~it.down PROVE since'[it.list.of] <= MaxAge + 1
        OBVIOUS
      <4>1. since[it.list.of] <= MaxAge + 0 /\ it.list.of \in 1 .. Versions
        BY <2>3, <2>4 DEF CommandHolds
      <4> QED BY <1>2, <1>4, <4>1
    <3>6. CommandHolds(new)'
      BY <1>1, <2>4, <2>5, <2>7, <3>3, <3>4, <3>5 DEF CommandHolds
    <3> QED BY <2>2, <3>6 DEF CommandHolds
  <2> QED BY <2>6, <2>7
<1>13. StampsInv'
  <2>1. OneAtATime => OneAtATime'
    BY <1>7 DEF OneAtATime
  <2>2. stored' # NoList => stored # NoList /\ stored'.list = stored.list
    BY <1>1, <1>6
  <2>3. \A c \in Commands : StampsHold(cmd[c]) => StampsHold(cmd[c])'
    <3> SUFFICES ASSUME NEW c \in Commands, StampsHold(cmd[c]) PROVE StampsHold(cmd[c])'
      OBVIOUS
    <3>1. cmd[c].st = "putting" => stored' # NoList /\ cmd[c].bag <= stored'.list.of
      <4> SUFFICES ASSUME cmd[c].st = "putting" PROVE stored' # NoList /\ cmd[c].bag <= stored'.list.of
        OBVIOUS
      <4>1. stored # NoList /\ cmd[c].bag <= stored.list.of /\ stored.about <= stored.list.of
        BY <1>9 DEF StampsHold, StoredInv, IsOne
      <4>2. stored' # NoList
        BY <1>6, <4>1
      <4> QED BY <1>6, <4>1, <4>2
    <3> QED BY <1>1, <1>7, <3>1 DEF StampsHold
  <2> QED BY <1>1, <1>9, <2>1, <2>2, <2>3 DEF StampsInv
<1> QED BY <1>10, <1>11, <1>12, <1>13

LEMMA ListsNext == ASSUME ListsInv, Next PROVE ListsInv'
<1>1. ASSUME Works PROVE ListsInv'
  BY <1>1, BeginKeeps, ReadKeeps, LookUpKeeps, FetchKeeps, SaveListKeeps, SaveBagKeeps DEF Works
<1>2. ASSUME Upsets PROVE ListsInv'
  BY <1>2, UnansweredKeeps, CommandRefusedKeeps, SaveFailsKeeps, KilledKeeps DEF Upsets
<1> QED BY <1>1, <1>2, ChangesKeep, TicksKeep DEF Next

LEMMA ListsStep == ASSUME ListsInv, [MCNext]_all PROVE ListsInv'
<1>1. CASE OfLists(Next)
  BY <1>1, ListsNext DEF OfLists
<1>2. CASE UNCHANGED vars
  <2>1. UNCHANGED <<kind, source, since, stored, bag, cmd>>
    BY <1>2 DEF vars
  <2> QED BY <2>1 DEF ListsInv, ListsShape, Timely, SinceInv, StoredInv, CommandsInv, CommandHolds,
                      IsOne, IsHad, HeldSince, StampsInv, StampsHold, OneAtATime
<1>3. MCNext => OfLists(Next) \/ UNCHANGED vars
  BY DEF MCNext, OfProgram, OfAccount, OfDatabase
<1>4. UNCHANGED all => UNCHANGED vars
  BY DEF all
<1> QED BY <1>1, <1>2, <1>3, <1>4

LEMMA ListsAlways == MCSpec => []ListsInv
<1>1. MCInit => ListsInv
  BY ListsInit DEF MCInit
<1>2. ListsInv /\ [MCNext]_all => ListsInv'
  BY ListsStep
<1> QED BY <1>1, <1>2, PTL DEF MCSpec

\* Unless a site tells by its bag that its list has not changed and commands may
\* come to it two at once: a list stored is whole, and one the source had within
\* the time it is said to be stored, with what was said of it or of one before, and
\* a command answers with no list older than
\* lists may be unless the source did not answer: resolveChannels and ChannelsGroup.
THEOREM ListsAreOfTheirTime == MCSpec => []((kind = "stamped" => Alone) => ListIsOfItsTime)
<1>1. ListsInv => ((kind = "stamped" => Alone) => ListIsOfItsTime)
  <2> SUFFICES ASSUME ListsInv, Timely PROVE ListIsOfItsTime
    BY DEF Timely
  <2>1. stored # NoList => IsOne(stored) /\ (stored.age # Far => HeldSince(stored, stored.age))
    BY DEF ListsInv, StoredInv
  <2>2. \A c \in Commands : CommandHolds(cmd[c])
    BY DEF ListsInv, CommandsInv
  <2> QED BY <2>1, <2>2 DEF ListIsOfItsTime, IsOne, IsHad, HeldSince, CommandHolds
<1> QED BY <1>1, ListsAlways, PTL

\* One command at a time, a bag holds stamps of no later list than the one stored:
\* what an adapter that keeps its own relies on.
THEOREM StampsAreOfTheirList == MCSpec => [](Alone => StampsStandForList)
<1>1. ListsInv => (Alone => StampsStandForList)
  BY DEF ListsInv, Timely, StampsInv, StampsStandForList
<1> QED BY <1>1, ListsAlways, PTL

-----------------------------------------------------------------------------
(* A program run as a source.                                                  *)

Window == [days : SUBSET Nat, startDay : Nat, span : Nat]
Phases == {"sending", "reading", "finishing", "returned", "threw", "left"}
Codes == {"none", "0", "accepted", "other", "signal"}
Ran == {"none", "missing", "running", "exited", "closed"}

\* The windows of a pass are of stale days, each in one of them, and each window
\* spans its own; the list is asked for of the first day.
Divided ==
  /\ \A i \in 1 .. Len(windows) :
       /\ windows[i].days \subseteq Wanted /\ windows[i].startDay >= 1
       /\ \A day \in windows[i].days :
            windows[i].startDay <= day /\ day <= windows[i].startDay + windows[i].span - 1
  /\ \A i, j \in 1 .. Len(windows) : \A day \in windows[i].days : day \in windows[j].days => i = j
  /\ \A day \in Wanted : \E i \in 1 .. Len(windows) : day \in windows[i].days
WindowsInv ==
  /\ mode \in {"list", "grab"} /\ windows \in Seq(Window) /\ at \in 1 .. Len(windows)
  /\ mode = "list" => Len(windows) = 1 /\ windows[1].startDay = 1 /\ windows[1].span = 1
  /\ mode = "grab" => Divided

ProgramShape ==
  /\ said \in [0 .. Horizon -> {0, 1}] /\ phase \in Phases
  /\ prog \in [st : Ran, left : Seq(Nat), pipe : Seq(Nat), deaf : BOOLEAN, stuck : {FALSE, Limited},
               code : Codes]
  /\ ends \in Seq(Codes)

\* How a program exited is known once it has; and with success only past its last.
CodeInv ==
  /\ prog.st \in {"none", "missing", "running"} => prog.code = "none"
  /\ prog.st \in {"exited", "closed"} => prog.code # "none"
  /\ prog.st = "exited" /\ prog.code = "0" => prog.left = <<>>
  /\ prog.st = "missing" => prog.pipe = <<>>
  /\ prog.st = "closed" => \E i \in 1 .. Len(ends) : ends[i] = prog.code

\* The days of a window, or the channels of a list, are said or none of them is.
AllSaid(i) == IF mode = "list" THEN said[0] = 1 ELSE \A day \in windows[i].days : said[day] = 1
NoneSaid(i) == IF mode = "list" THEN said[0] = 0 ELSE \A day \in windows[i].days : said[day] = 0
SaidInv ==
  /\ mode = "list" => \A day \in 1 .. Horizon : said[day] = 0
  /\ \A i \in 1 .. Len(windows) : i > at \/ (i = at /\ phase = "sending") => NoneSaid(i)
  /\ ~Program!Partial => \A i \in 1 .. Len(windows) : i < at => AllSaid(i)
  /\ phase = "finishing" => prog.st \in {"exited", "closed"} /\ (prog.code = "0" => AllSaid(at))
  /\ phase = "returned" /\ ~Program!Partial => \A i \in 1 .. Len(windows) : AllSaid(i)

\* What is read is what a program writes in order, with no piece left out: all
\* before the next is said, and the last is past the window's.
Reading(next) ==
  /\ \A i \in 1 .. Len(prog.pipe) : prog.pipe[i] = next + i - 1
  /\ \A i \in 1 .. Len(prog.left) : prog.left[i] = next + Len(prog.pipe) + i - 1
  /\ mode = "list" => /\ said[0] = IF next = 0 THEN 0 ELSE 1
                      /\ next + Len(prog.pipe) + Len(prog.left) > 0
  /\ mode = "grab" => /\ next > 0
                      /\ \A day \in windows[at].days :
                           /\ said[day] = IF day < next THEN 1 ELSE 0
                           /\ day < next + Len(prog.pipe) + Len(prog.left)
ReadingInv ==
  phase = "reading" =>
    /\ prog.st \in {"missing", "running", "exited"}
    /\ prog.st # "missing" => \E next \in Nat : Reading(next)

ProgramInv == WindowsInv /\ ProgramShape /\ CodeInv /\ SaidInv /\ ReadingInv

-----------------------------------------------------------------------------
LEMMA ProgramCount == \A S : Program!Cardinality(S) = Cardinality(S)
BY DEF Program!Cardinality, Cardinality

LEMMA OfWanted ==
  /\ Horizon \in Nat \ {0} /\ Wanted \subseteq 1 .. Horizon /\ Wanted # {} /\ Wanted \in SUBSET Nat
  /\ IsFiniteSet(Wanted)
<1>1. Horizon \in Nat \ {0} /\ Wanted \subseteq 1 .. Horizon /\ Wanted # {}
  BY ProgramAssumption DEF Program!ProgramAssumption
<1>2. IsFiniteSet(1 .. Horizon)
  BY <1>1, FS_Interval
<1>3. IsFiniteSet(Wanted)
  BY <1>1, <1>2, FS_Subset
<1> QED BY <1>1, <1>3

LEMMA MinMaxAre ==
  ASSUME NEW days \in SUBSET (1 .. Horizon), days # {}
  PROVE  /\ Program!Min(days) \in days /\ Program!Max(days) \in days
         /\ \A day \in days : Program!Min(days) <= day /\ day <= Program!Max(days)
<1>1. days \in SUBSET Nat /\ Horizon \in Nat
  BY OfWanted
<1>2. \E least \in days : \A day \in days : least <= day
  BY <1>1, LeastIsOne
<1>3. \E most \in days : \A day \in days : most >= day
  <2> DEFINE turned == {Horizon - day : day \in days}
  <2>1. turned \in SUBSET Nat /\ turned # {}
    <3>1. \A day \in days : Horizon - day \in Nat
      BY <1>1
    <3>2. \E day \in days : TRUE
      OBVIOUS
    <3> QED BY <3>1, <3>2
  <2>2. PICK least \in turned : \A other \in turned : least <= other
    BY <2>1, LeastIsOne
  <2>3. PICK most \in days : least = Horizon - most
    BY <2>2
  <2>4. ASSUME NEW day \in days PROVE most >= day
    <3>1. Horizon - most <= Horizon - day
      BY <2>2, <2>3
    <3> QED BY <1>1, <3>1
  <2> QED BY <2>4
<1>4. Program!Min(days) \in days /\ \A day \in days : Program!Min(days) <= day
  BY <1>2 DEF Program!Min
<1>5. Program!Max(days) \in days /\ \A day \in days : Program!Max(days) >= day
  BY <1>3 DEF Program!Max
<1> QED BY <1>1, <1>4, <1>5

LEMMA AWindowIs ==
  ASSUME NEW days \in SUBSET (1 .. Horizon), days # {}
  PROVE  LET w == Program!commandWindow(days)
         IN  /\ w \in Window /\ w.days = days /\ w.startDay >= 1
             /\ \A day \in days : w.startDay <= day /\ day <= w.startDay + w.span - 1
<1> DEFINE least == Program!Min(days)
           most == Program!Max(days)
<1>1. /\ least \in days /\ most \in days /\ \A day \in days : least <= day /\ day <= most
  BY MinMaxAre
<1> HIDE DEF least, most
<1>2. Program!commandWindow(days) = [days |-> days, startDay |-> least, span |-> most - least + 1]
  BY DEF Program!commandWindow, least, most
<1>3. days \in SUBSET Nat
  BY OfWanted
<1>4. least \in Nat /\ most \in Nat /\ most - least + 1 \in Nat /\ least >= 1
  BY <1>1, OfWanted
<1>5. least + (most - least + 1) - 1 = most
  BY <1>4
<1> QED BY <1>1, <1>2, <1>3, <1>4, <1>5 DEF Window

-----------------------------------------------------------------------------
(* The stretches of consecutive days: each day is in one.                      *)

Firsts == {day \in Wanted : day - 1 \notin Wanted}
Stretch(first) == {day \in Wanted : day >= first /\ first .. day \subseteq Wanted}
First(i) == CHOOSE first \in Firsts : Rank(Firsts, first) = i - 1

LEMMA FirstsAre == Firsts \in SUBSET Nat /\ IsFiniteSet(Firsts) /\ Cardinality(Firsts) \in Nat
BY OfWanted, FS_Subset, FS_CardinalityType DEF Firsts

LEMMA FirstIs ==
  ASSUME NEW i \in 1 .. Cardinality(Firsts)
  PROVE  First(i) \in Firsts /\ Rank(Firsts, First(i)) = i - 1
<1>1. i - 1 \in 0 .. (Cardinality(Firsts) - 1)
  BY FirstsAre
<1>2. \E first \in Firsts : Rank(Firsts, first) = i - 1
  BY <1>1, FirstsAre, EachRankIsTaken
<1> QED BY <1>2 DEF First

LEMMA EachDayInOne ==
  /\ \A first \in Firsts : Stretch(first) \subseteq Wanted /\ first \in Stretch(first)
  /\ \A first, other \in Firsts : Stretch(first) \cap Stretch(other) # {} => first = other
  /\ \A day \in Wanted : \E first \in Firsts : day \in Stretch(first)
<1>1. ASSUME NEW first \in Firsts PROVE Stretch(first) \subseteq Wanted /\ first \in Stretch(first)
  BY OfWanted DEF Firsts, Stretch
<1>2. ASSUME NEW first \in Firsts, NEW other \in Firsts, NEW day \in Stretch(first),
             day \in Stretch(other), first < other
      PROVE  FALSE
  <2>1. first \in Nat /\ other \in Nat /\ day \in Nat /\ other <= day /\ other - 1 \notin Wanted
    <3>1. day \in Wanted /\ first \in Wanted /\ other \in Wanted /\ day >= other /\ other - 1 \notin Wanted
      BY <1>2 DEF Firsts, Stretch
    <3> QED BY <3>1, OfWanted
  <2>2. other - 1 \in first .. day
    BY <1>2, <2>1
  <2> QED BY <2>1, <2>2 DEF Stretch
<1>3. ASSUME NEW first \in Firsts, NEW other \in Firsts, Stretch(first) \cap Stretch(other) # {}
      PROVE  first = other
  <2>1. PICK day \in Stretch(first) : day \in Stretch(other)
    BY <1>3
  <2>2. first < other \/ other < first \/ first = other
    BY FirstsAre
  <2> QED BY <1>2, <2>1, <2>2
<1>4. ASSUME NEW day \in Wanted PROVE \E first \in Firsts : day \in Stretch(first)
  <2> DEFINE back == {first \in Wanted : first <= day /\ first .. day \subseteq Wanted}
  <2>1. back \in SUBSET Nat /\ day \in Nat
    BY OfWanted
  <2>2. day .. day = {day}
    BY <2>1
  <2>3. day \in back
    BY <2>1, <2>2
  <2>4. PICK least \in back : \A other \in back : least <= other
    BY <2>1, <2>3, LeastIsOne
  <2>5. least \in Nat /\ least \in Wanted /\ least <= day /\ least .. day \subseteq Wanted
    BY <2>1, <2>4
  <2>6. ASSUME least - 1 \in Wanted PROVE FALSE
    <3>1. (least - 1) .. day = {least - 1} \cup (least .. day)
      BY <2>1, <2>5
    <3>2. least - 1 \in back
      BY <2>1, <2>5, <2>6, <3>1
    <3> QED BY <2>4, <2>5, <3>2
  <2>7. least \in Firsts
    BY <2>5, <2>6 DEF Firsts
  <2>8. day >= least
    BY <2>1, <2>5
  <2> QED BY <2>5, <2>7, <2>8 DEF Stretch
<1> QED BY <1>1, <1>3, <1>4

LEMMA StretchesAre ==
  Program!stretches(Wanted) = [i \in 1 .. Cardinality(Firsts) |-> Stretch(First(i))]
BY ProgramCount DEF Program!stretches, Firsts, Stretch, First, Rank, Before

LEMMA RunsAre ==
  ASSUME NEW capabilities, NEW method
  PROVE  LET cut == Program!runs(Wanted, capabilities, method)
         IN  /\ cut \in Seq(Window) /\ Len(cut) >= 1
             /\ \A i \in 1 .. Len(cut) :
                  /\ cut[i].days \subseteq Wanted /\ cut[i].startDay >= 1
                  /\ \A day \in cut[i].days :
                       cut[i].startDay <= day /\ day <= cut[i].startDay + cut[i].span - 1
             /\ \A i, j \in 1 .. Len(cut) : \A day \in cut[i].days : day \in cut[j].days => i = j
             /\ \A day \in Wanted : \E i \in 1 .. Len(cut) : day \in cut[i].days
<1> DEFINE cut == Program!runs(Wanted, capabilities, method)
           whole == Program!commandWindow(Wanted)
           part(i) == Program!commandWindow(Stretch(First(i)))
           many == Cardinality(Firsts)
<1>1. CASE cut = <<whole>>
  <2>1. /\ whole \in Window /\ whole.days = Wanted /\ whole.startDay >= 1
        /\ \A day \in Wanted : whole.startDay <= day /\ day <= whole.startDay + whole.span - 1
    BY OfWanted, AWindowIs
  <2> HIDE DEF whole, cut
  <2>2. cut \in Seq(Window) /\ Len(cut) = 1 /\ cut[1] = whole
    BY <1>1, <2>1
  <2>3. 1 .. Len(cut) = {1}
    BY <2>2
  <2>4. \A i \in 1 .. Len(cut) : cut[i] = whole /\ i = 1
    BY <2>2, <2>3
  <2>5. \A day \in Wanted : \E i \in 1 .. Len(cut) : day \in cut[i].days
    BY <2>1, <2>2, <2>3
  <2> QED BY <2>1, <2>2, <2>4, <2>5 DEF cut
<1>2. CASE cut # <<whole>>
  <2>1. cut = LET groups == Program!stretches(Wanted)
              IN  [i \in DOMAIN groups |-> Program!commandWindow(groups[i])]
    BY <1>2 DEF Program!runs
  <2>2. cut = [i \in 1 .. many |-> part(i)]
    BY <2>1, StretchesAre
  <2>3. \A i \in 1 .. many : First(i) \in Firsts /\ Rank(Firsts, First(i)) = i - 1
    BY FirstIs
  <2>4. ASSUME NEW i \in 1 .. many
        PROVE  /\ part(i) \in Window /\ part(i).days = Stretch(First(i)) /\ part(i).startDay >= 1
               /\ \A day \in Stretch(First(i)) :
                    part(i).startDay <= day /\ day <= part(i).startDay + part(i).span - 1
    <3>1. Stretch(First(i)) \subseteq Wanted /\ Stretch(First(i)) # {}
      BY <2>3, EachDayInOne
    <3>2. Stretch(First(i)) \in SUBSET (1 .. Horizon)
      BY <3>1, OfWanted
    <3> QED BY <3>1, <3>2, AWindowIs
  <2> HIDE DEF part, cut
  <2>5. cut \in Seq(Window) /\ Len(cut) = many /\ \A i \in 1 .. many : cut[i] = part(i)
    <3>1. many \in Nat
      BY FirstsAre
    <3>2. [i \in 1 .. many |-> part(i)] \in Seq(Window)
      BY <2>4, <3>1, IsASeq
    <3> QED BY <2>2, <3>1, <3>2, LenProperties
  <2>6. ASSUME NEW i \in 1 .. many, NEW j \in 1 .. many, NEW day \in Stretch(First(i)),
               day \in Stretch(First(j))
        PROVE  i = j
    <3>1. First(i) = First(j)
      BY <2>3, <2>6, EachDayInOne
    <3>2. i - 1 = j - 1
      BY <2>3, <3>1
    <3> QED BY <3>2
  <2>7. ASSUME NEW day \in Wanted PROVE \E i \in 1 .. many : day \in Stretch(First(i))
    <3>1. PICK first \in Firsts : day \in Stretch(first)
      BY EachDayInOne
    <3>2. Rank(Firsts, first) \in 0 .. (many - 1) /\ many \in Nat
      BY FirstsAre, RanksAreOfOne
    <3>3. PICK i \in 1 .. many : i - 1 = Rank(Firsts, first)
      <4>1. Rank(Firsts, first) + 1 \in 1 .. many /\ (Rank(Firsts, first) + 1) - 1 = Rank(Firsts, first)
        BY <3>2
      <4> QED BY <4>1
    <3>4. First(i) = first
      BY <2>3, <3>3, FirstsAre, RanksAreOfOne
    <3> QED BY <3>1, <3>4
  <2>8. many >= 1
    <3>1. PICK day \in Wanted : TRUE
      BY OfWanted
    <3> HIDE DEF many
    <3>2. \E i \in 1 .. many : TRUE
      BY <2>7, <3>1
    <3>3. many \in Nat
      BY FirstsAre DEF many
    <3> QED BY <3>2, <3>3
  <2>9. \A i \in 1 .. many : Stretch(First(i)) \subseteq Wanted
    BY <2>3, EachDayInOne
  <2> HIDE DEF many
  <2> QED BY <2>4, <2>5, <2>6, <2>7, <2>8, <2>9 DEF cut
<1> QED BY <1>1, <1>2

LEMMA ProgramInit == Program!Init => ProgramInv
<1> SUFFICES ASSUME Program!Init PROVE ProgramInv
  OBVIOUS
<1>1. /\ mode \in {"list", "grab"} /\ at = 1 /\ phase = "sending"
      /\ said = [piece \in 0 .. Horizon |-> 0] /\ prog = Program!NotRun /\ ends = <<>>
  BY DEF Program!Init
<1>2. WindowsInv
  <2>1. CASE mode = "list"
    <3>1. {1} \in SUBSET (1 .. Horizon) /\ {1} # {}
      BY OfWanted
    <3>2. windows = <<Program!commandWindow({1})>>
      BY <2>1 DEF Program!Init
    <3>3. Program!commandWindow({1}) \in Window
      BY <3>1, AWindowIs
    <3>4. Program!Min({1}) = 1 /\ Program!Max({1}) = 1
      BY <3>1, MinMaxAre
    <3>5. Program!commandWindow({1}).startDay = 1 /\ Program!commandWindow({1}).span = 1
      BY <3>4 DEF Program!commandWindow
    <3> QED BY <1>1, <2>1, <3>2, <3>3, <3>5 DEF WindowsInv
  <2>2. CASE mode = "grab"
    <3>1. PICK capabilities, method : windows = Program!runs(Wanted, capabilities, method)
      BY <2>2 DEF Program!Init
    <3>2. Divided /\ windows \in Seq(Window) /\ Len(windows) >= 1
      BY <3>1, RunsAre DEF Divided
    <3> QED BY <1>1, <2>2, <3>2 DEF WindowsInv
  <2> QED BY <1>1, <2>1, <2>2
<1>3. ProgramShape
  BY <1>1, OfWanted DEF ProgramShape, Program!NotRun, Phases, Codes, Ran
<1>4. CodeInv
  BY <1>1 DEF CodeInv, Program!NotRun
<1>5. SaidInv
  <2>1. \A piece \in 0 .. Horizon : said[piece] = 0
    BY <1>1
  <2>2. 0 \in 0 .. Horizon /\ \A day \in 1 .. Horizon : day \in 0 .. Horizon
    BY OfWanted
  <2>3. \A i \in 1 .. Len(windows) : NoneSaid(i)
    <3>1. mode = "grab" => \A i \in 1 .. Len(windows) : windows[i].days \subseteq 1 .. Horizon
      BY <1>2, OfWanted DEF WindowsInv, Divided
    <3> QED BY <1>1, <2>1, <2>2, <3>1 DEF NoneSaid
  <2>4. \A i \in 1 .. Len(windows) : ~(i < at)
    BY <1>1
  <2> QED BY <1>1, <2>1, <2>2, <2>3, <2>4 DEF SaidInv
<1>6. ReadingInv
  BY <1>1 DEF ReadingInv
<1> QED BY <1>2, <1>3, <1>4, <1>5, <1>6 DEF ProgramInv

-----------------------------------------------------------------------------
(* What each step does to it.                                                  *)

LEMMA ShapeOf ==
  ASSUME ProgramInv
  PROVE  /\ mode \in {"list", "grab"} /\ windows \in Seq(Window) /\ Len(windows) \in Nat
         /\ at \in 1 .. Len(windows) /\ at \in Nat
         /\ said \in [0 .. Horizon -> {0, 1}] /\ phase \in Phases
         /\ prog.st \in Ran /\ prog.left \in Seq(Nat) /\ prog.pipe \in Seq(Nat) /\ prog.deaf \in BOOLEAN
         /\ prog.stuck \in {FALSE, Limited} /\ prog.code \in Codes
         /\ ends \in Seq(Codes) /\ Len(ends) \in Nat
<1>1. mode \in {"list", "grab"} /\ windows \in Seq(Window) /\ at \in 1 .. Len(windows)
  BY DEF ProgramInv, WindowsInv
<1>2. /\ said \in [0 .. Horizon -> {0, 1}] /\ phase \in Phases /\ ends \in Seq(Codes)
      /\ prog \in [st : Ran, left : Seq(Nat), pipe : Seq(Nat), deaf : BOOLEAN, stuck : {FALSE, Limited},
                   code : Codes]
  BY DEF ProgramInv, ProgramShape
<1>3. Len(windows) \in Nat /\ at \in Nat /\ Len(ends) \in Nat
  BY <1>1, <1>2
<1>4. /\ prog.st \in Ran /\ prog.left \in Seq(Nat) /\ prog.pipe \in Seq(Nat) /\ prog.deaf \in BOOLEAN
      /\ prog.stuck \in {FALSE, Limited} /\ prog.code \in Codes
  BY <1>2
<1> QED BY <1>1, <1>2, <1>3, <1>4

\* A program that stops running, of itself or stopped, and a pass that is given up:
\* what is let go of is not taken.
Stops ==
  \/ prog' = prog
  \/ \E code \in Codes \ {"none"} :
       /\ prog.st = "running" /\ prog' = [prog EXCEPT !.st = "exited", !.code = code]
       /\ code = "0" => prog.left = <<>>
GivesUp ==
  \/ phase' = phase
  \/ phase' \in {"threw", "left"}
  \/ phase = "reading" /\ phase' = "returned" /\ mode = "list" /\ said[0] = 1

LEMMA StopsKeep ==
  ASSUME ProgramInv, Stops, GivesUp, UNCHANGED <<mode, windows, at, said, ends>>
  PROVE  ProgramInv'
<1> USE ShapeOf
<1>1. UNCHANGED <<mode, windows, at, said, ends>>
  OBVIOUS
<1>2. WindowsInv'
  BY <1>1 DEF ProgramInv, WindowsInv, Divided
<1>3. /\ prog' \in [st : Ran, left : Seq(Nat), pipe : Seq(Nat), deaf : BOOLEAN, stuck : {FALSE, Limited},
                    code : Codes]
      /\ prog'.left = prog.left /\ prog'.pipe = prog.pipe
      /\ \/ prog'.st = prog.st /\ prog'.code = prog.code
         \/ /\ prog.st = "running" /\ prog'.st = "exited" /\ prog'.code \in Codes \ {"none"}
            /\ prog'.code = "0" => prog.left = <<>>
  <2>1. prog \in [st : Ran, left : Seq(Nat), pipe : Seq(Nat), deaf : BOOLEAN, stuck : {FALSE, Limited},
                  code : Codes]
    BY DEF ProgramInv, ProgramShape
  <2>2. CASE prog' = prog
    BY <2>1, <2>2
  <2>3. CASE prog' # prog
    <3>1. PICK code \in Codes \ {"none"} :
            /\ prog.st = "running" /\ prog' = [prog EXCEPT !.st = "exited", !.code = code]
            /\ code = "0" => prog.left = <<>>
      BY <2>3 DEF Stops
    <3> QED BY <2>1, <3>1 DEF Ran
  <2> QED BY <2>2, <2>3
<1>4. phase' \in Phases
  BY DEF GivesUp, Phases
<1>5. ProgramShape'
  BY <1>1, <1>3, <1>4 DEF ProgramInv, ProgramShape
<1>6. CodeInv'
  BY <1>1, <1>3 DEF ProgramInv, CodeInv
<1>7. \A i : (AllSaid(i) <=> AllSaid(i)') /\ (NoneSaid(i) <=> NoneSaid(i)')
  BY <1>1 DEF AllSaid, NoneSaid
<1>8. Program!Partial <=> Program!Partial'
  BY <1>1 DEF Program!Partial
<1>9. SaidInv'
  <2>1. mode = "list" => \A day \in 1 .. Horizon : said[day] = 0
    BY DEF ProgramInv, SaidInv
  <2>2. \A i \in 1 .. Len(windows) : i > at \/ (i = at /\ phase' = "sending") => NoneSaid(i)
    BY DEF ProgramInv, SaidInv, GivesUp
  <2>3. phase' = "finishing" => prog'.st \in {"exited", "closed"} /\ (prog'.code = "0" => AllSaid(at))
    BY <1>3 DEF ProgramInv, SaidInv, GivesUp
  <2>4. phase' = "returned" /\ ~Program!Partial => \A i \in 1 .. Len(windows) : AllSaid(i)
    <3>1. CASE phase' = phase
      BY <3>1 DEF ProgramInv, SaidInv
    <3>2. CASE mode = "list" /\ said[0] = 1
      BY <3>2 DEF AllSaid
    <3> QED BY <3>1, <3>2 DEF GivesUp
  <2>5. ~Program!Partial => \A i \in 1 .. Len(windows) : i < at => AllSaid(i)
    BY DEF ProgramInv, SaidInv
  <2> QED BY <1>1, <1>7, <1>8, <2>1, <2>2, <2>3, <2>4, <2>5 DEF SaidInv
<1>10. ReadingInv'
  <2>1. SUFFICES ASSUME phase' = "reading"
                 PROVE  /\ prog'.st \in {"missing", "running", "exited"}
                        /\ prog'.st # "missing" => \E next \in Nat : Reading(next)'
    BY DEF ReadingInv
  <2>2. phase = "reading"
    BY <2>1 DEF GivesUp
  <2>3. \A next : Reading(next) <=> Reading(next)'
    BY <1>1, <1>3 DEF Reading
  <2> QED BY <1>3, <2>2, <2>3 DEF ProgramInv, ReadingInv
<1> QED BY <1>2, <1>5, <1>6, <1>9, <1>10 DEF ProgramInv

LEMMA StopStops == ASSUME ProgramInv, Program!stop PROVE Stops
<1>1. "signal" \in Codes \ {"none"}
  BY DEF Codes
<1> QED BY <1>1 DEF Program!stop, Stops

LEMMA LettingGoKeeps ==
  ASSUME ProgramInv, phase = "reading", NEW how \in {"threw", "left", "returned"}, Program!LetsGo(how),
         how = "returned" => mode = "list" /\ said[0] = 1
  PROVE  ProgramInv'
<1>1. Stops
  BY StopStops DEF Program!LetsGo
<1>2. GivesUp
  BY DEF Program!LetsGo, GivesUp
<1> QED BY <1>1, <1>2, StopsKeep DEF Program!LetsGo, Program!Pass

LEMMA EndingsKeep ==
  ASSUME ProgramInv,
         \/ Program!Abort \/ Program!Exits \/ Program!Dies \/ Program!Sigkill \/ Program!Timeout
         \/ Program!Garbled \/ Program!LeftOff \/ Program!NeverStarted
  PROVE  ProgramInv'
<1>1. CASE Program!Abort
  <2>1. Stops
    BY <1>1, StopStops DEF Program!Abort, Stops
  <2>2. GivesUp
    BY <1>1 DEF Program!Abort, GivesUp
  <2> QED BY <1>1, <2>1, <2>2, StopsKeep DEF Program!Abort, Program!Pass
<1>2. CASE Program!Exits \/ Program!Dies
  <2>1. Stops /\ phase' = phase
    <3>1. CASE Program!Exits
      <4>1. PICK code \in {"0", "accepted", "other"} : prog' = [prog EXCEPT !.st = "exited", !.code = code]
        BY <3>1 DEF Program!Exits, Program!Quit
      <4>2. prog.st = "running" /\ prog.left = <<>> /\ code \in Codes \ {"none"} /\ phase' = phase
        BY <3>1 DEF Program!Exits, Program!Quit, Codes
      <4> QED BY <4>1, <4>2 DEF Stops
    <3>2. CASE Program!Dies
      <4>1. PICK code \in {"accepted", "other", "signal"} :
              prog' = [prog EXCEPT !.st = "exited", !.code = code]
        BY <3>2 DEF Program!Dies, Program!Quit
      <4>2. prog.st = "running" /\ code \in Codes \ {"none", "0"} /\ phase' = phase
        BY <3>2 DEF Program!Dies, Program!Quit, Codes
      <4> QED BY <4>1, <4>2 DEF Stops
    <3> QED BY <1>2, <3>1, <3>2
  <2> QED BY <1>2, <2>1, StopsKeep DEF Program!Exits, Program!Dies, Program!Quit, Program!Pass, GivesUp
<1>3. CASE Program!Sigkill
  <2>1. "signal" \in Codes \ {"none"}
    BY DEF Codes
  <2>2. Stops
    BY <1>3, <2>1 DEF Program!Sigkill, Stops
  <2> QED BY <1>3, <2>2, StopsKeep DEF Program!Sigkill, Program!Pass, GivesUp
<1>4. CASE Program!Timeout
  BY <1>4, StopStops, StopsKeep DEF Program!Timeout, Program!Pass, GivesUp
<1>5. CASE Program!Garbled \/ Program!LeftOff
  BY <1>5, LettingGoKeeps DEF Program!Garbled, Program!LeftOff
<1>6. CASE Program!NeverStarted
  BY <1>6, StopsKeep DEF Program!NeverStarted, Program!Pass, Stops, GivesUp
<1> QED BY <1>1, <1>2, <1>3, <1>4, <1>5, <1>6

-----------------------------------------------------------------------------
\* What a program writes of its window when it starts: all of it, in order.
LEMMA DocumentIs ==
  ASSUME ProgramInv, NEW baseline \in BOOLEAN
  PROVE  LET document == Program!Document(windows[at], baseline)
             first == IF mode = "list" THEN 0 ELSE Program!Told(windows[at], baseline).first
         IN  /\ document \in Seq(Nat) /\ first \in Nat /\ (mode = "grab" => first > 0)
             /\ \A i \in 1 .. Len(document) : document[i] = first + i - 1
             /\ mode = "list" => first + Len(document) > 0
             /\ mode = "grab" => \A day \in windows[at].days :
                                   ~(day < first) /\ day < first + Len(document)
<1> DEFINE document == Program!Document(windows[at], baseline)
           told == Program!Told(windows[at], baseline)
           first == IF mode = "list" THEN 0 ELSE told.first
           length == told.last - first + 1
<1> USE ShapeOf
<1>1. windows[at] \in Window
  BY ElementOfSeq
<1>2. windows[at].startDay \in Nat /\ windows[at].span \in Nat /\ windows[at].startDay >= 1
  BY <1>1 DEF Window, ProgramInv, WindowsInv, Divided
<1>3. /\ told.first \in Nat /\ told.first > 0 /\ told.last \in Int
      /\ mode = "list" => told.last >= 1
  <2>1. CASE baseline
    <3>1. told.first = windows[at].startDay /\ told.last = windows[at].startDay + windows[at].span - 1
      BY <2>1 DEF Program!Told
    <3>2. mode = "list" => windows[at].startDay = 1 /\ windows[at].span = 1
      BY DEF ProgramInv, WindowsInv
    <3> QED BY <1>2, <3>1, <3>2
  <2>2. CASE ~baseline
    BY <2>2, OfWanted DEF Program!Told
  <2> QED BY <2>1, <2>2
<1>4. mode = "grab" => \A day \in windows[at].days : day \in Nat /\ told.first <= day /\ day <= told.last
  <2> SUFFICES ASSUME mode = "grab", NEW day \in windows[at].days
               PROVE  day \in Nat /\ told.first <= day /\ day <= told.last
    OBVIOUS
  <2>1. /\ day \in 1 .. Horizon
        /\ windows[at].startDay <= day /\ day <= windows[at].startDay + windows[at].span - 1
    BY OfWanted DEF ProgramInv, WindowsInv, Divided
  <2>2. CASE baseline
    BY <2>1, <2>2, OfWanted DEF Program!Told
  <2>3. CASE ~baseline
    BY <2>1, <2>3, OfWanted DEF Program!Told
  <2> QED BY <2>2, <2>3
<1> HIDE DEF told
<1>5. document = [i \in 1 .. length |-> first + i - 1]
  BY DEF Program!Document, told
<1>6. CASE length >= 1
  <2>1. length \in Nat /\ first \in Nat
    BY <1>3, <1>6
  <2>2. \A i \in 1 .. length : first + i - 1 \in Nat
    BY <2>1
  <2> HIDE DEF length, first, document
  <2>3. document \in [1 .. length -> Nat]
    BY <1>5, <2>2
  <2>4. document \in Seq(Nat) /\ Len(document) = length
    BY <2>1, <2>3
  <2>5. \A i \in 1 .. Len(document) : document[i] = first + i - 1
    BY <1>5, <2>4
  <2>6. first + length > 0 /\ (mode = "grab" => first > 0)
    BY <1>3, <1>6, <2>1 DEF first
  <2>7. mode = "grab" => \A day \in windows[at].days : ~(day < first) /\ day < first + length
    BY <1>3, <1>4, <1>6, <2>1 DEF first, length
  <2> QED BY <2>1, <2>4, <2>5, <2>6, <2>7 DEF first, document, told
<1>7. CASE ~(length >= 1)
  <2>1. first \in Nat /\ mode # "list" /\ (mode = "grab" => first > 0)
    BY <1>3, <1>7
  <2>2. 1 .. length = 1 .. 0
    BY <1>3, <1>7, <2>1
  <2>3. document \in Seq(Nat) /\ Len(document) = 0 /\ 1 .. Len(document) = {}
    <3>1. document = [i \in 1 .. 0 |-> first + i - 1]
      BY <1>5, <2>2
    <3> HIDE DEF document
    <3>2. document \in [1 .. 0 -> Nat]
      BY <3>1
    <3> QED BY <3>2
  <2>4. mode = "grab" => windows[at].days = {}
    BY <1>3, <1>4, <1>7, <2>1
  <2> QED BY <2>1, <2>3, <2>4 DEF first, document, told
<1> QED BY <1>6, <1>7

LEMMA SpawningIs ==
  ASSUME ProgramInv, Program!Spawns
  PROVE  /\ prog' \in [st : Ran, left : Seq(Nat), pipe : Seq(Nat), deaf : BOOLEAN, stuck : {FALSE, Limited},
                       code : Codes]
         /\ prog'.st \in {"missing", "running"} /\ prog'.code = "none" /\ prog'.pipe = <<>>
         /\ prog'.st # "missing" =>
              \E baseline \in BOOLEAN : prog'.left = Program!Document(windows[at], baseline)
<1>1. CASE prog' = [Program!NotRun EXCEPT !.st = "missing"]
  <2>1. prog' = [st |-> "missing", left |-> <<>>, pipe |-> <<>>, deaf |-> FALSE, stuck |-> FALSE,
                 code |-> "none"]
    BY <1>1 DEF Program!NotRun
  <2>2. <<>> \in Seq(Nat) /\ "missing" \in Ran /\ "none" \in Codes
    BY DEF Ran, Codes
  <2> QED BY <2>1, <2>2
<1>2. CASE \E baseline, deaf \in BOOLEAN, stuck \in {FALSE, Limited} :
             prog' = [st |-> "running", left |-> Program!Document(windows[at], baseline), pipe |-> <<>>,
                      deaf |-> deaf, stuck |-> stuck, code |-> "none"]
  <2>1. PICK baseline \in BOOLEAN, deaf \in BOOLEAN, stuck \in {FALSE, Limited} :
             prog' = [st |-> "running", left |-> Program!Document(windows[at], baseline), pipe |-> <<>>,
                      deaf |-> deaf, stuck |-> stuck, code |-> "none"]
    BY <1>2
  <2>2. PICK document \in Seq(Nat) : document = Program!Document(windows[at], baseline)
    BY DocumentIs
  <2>3. prog' = [st |-> "running", left |-> document, pipe |-> <<>>, deaf |-> deaf, stuck |-> stuck,
                 code |-> "none"]
    BY <2>1, <2>2
  <2>4. <<>> \in Seq(Nat) /\ "running" \in Ran /\ "none" \in Codes
    BY DEF Ran, Codes
  <2> QED BY <2>2, <2>3, <2>4
<1> QED BY <1>1, <1>2 DEF Program!Spawns

LEMMA SpawnsKeep ==
  ASSUME ProgramInv, Program!Spawn \/ Program!SpawnLate
  PROVE  ProgramInv'
<1> USE ShapeOf
<1>1. /\ UNCHANGED <<mode, windows, at, ends, said>> /\ Program!Spawns
      /\ \/ phase = "sending" /\ phase' = "reading"
         \/ phase = "threw" /\ phase' = "threw"
  BY DEF Program!Spawn, Program!SpawnLate, Program!Pass
<1>2. /\ prog' \in [st : Ran, left : Seq(Nat), pipe : Seq(Nat), deaf : BOOLEAN, stuck : {FALSE, Limited},
                    code : Codes]
      /\ prog'.st \in {"missing", "running"} /\ prog'.code = "none" /\ prog'.pipe = <<>>
      /\ prog'.st # "missing" =>
           \E baseline \in BOOLEAN : prog'.left = Program!Document(windows[at], baseline)
  BY <1>1, SpawningIs
<1>3. WindowsInv'
  BY <1>1 DEF ProgramInv, WindowsInv, Divided
<1>4. ProgramShape'
  BY <1>1, <1>2 DEF ProgramInv, ProgramShape, Phases
<1>5. CodeInv'
  BY <1>2 DEF CodeInv
<1>6. \A i : (AllSaid(i) <=> AllSaid(i)') /\ (NoneSaid(i) <=> NoneSaid(i)')
  BY <1>1 DEF AllSaid, NoneSaid
<1>7. Program!Partial <=> Program!Partial'
  BY <1>1 DEF Program!Partial
<1>8. SaidInv'
  BY <1>1, <1>6, <1>7 DEF ProgramInv, SaidInv
<1>9. ASSUME phase' = "reading", prog'.st # "missing" PROVE \E next \in Nat : Reading(next)'
  <2>1. PICK baseline \in BOOLEAN : prog'.left = Program!Document(windows[at], baseline)
    BY <1>2, <1>9
  <2> DEFINE from == IF mode = "list" THEN 0 ELSE Program!Told(windows[at], baseline).first
  <2>a. /\ prog'.left \in Seq(Nat) /\ from \in Nat /\ (mode = "grab" => from > 0)
        /\ \A i \in 1 .. Len(prog'.left) : prog'.left[i] = from + i - 1
        /\ mode = "list" => from + Len(prog'.left) > 0
        /\ mode = "grab" => \A day \in windows[at].days :
                              ~(day < from) /\ day < from + Len(prog'.left)
    BY <2>1, DocumentIs
  <2>2. PICK first \in Nat :
        /\ first = IF mode = "list" THEN 0 ELSE Program!Told(windows[at], baseline).first
        /\ prog'.left \in Seq(Nat) /\ (mode = "grab" => first > 0)
        /\ \A i \in 1 .. Len(prog'.left) : prog'.left[i] = first + i - 1
        /\ mode = "list" => first + Len(prog'.left) > 0
        /\ mode = "grab" => \A day \in windows[at].days :
                              ~(day < first) /\ day < first + Len(prog'.left)
    BY <2>a
  <2>3. prog'.pipe = <<>> /\ Len(prog'.pipe) = 0 /\ 1 .. Len(prog'.pipe) = {}
    BY <1>2, <1>9
  <2>4. NoneSaid(at)
    BY <1>1, <1>9 DEF ProgramInv, SaidInv
  <2>5. mode = "list" => first = 0 /\ said[0] = 0
    BY <2>2, <2>4 DEF NoneSaid
  <2>6. mode = "grab" => \A day \in windows[at].days : said[day] = 0
    BY <2>4 DEF NoneSaid
  <2>7. first + Len(prog'.pipe) = first /\ Len(prog'.left) \in Nat
    BY <2>2, <2>3
  <2>8. \A i \in 1 .. Len(prog'.left) : prog'.left[i] = first + Len(prog'.pipe) + i - 1
    BY <2>2, <2>7
  <2>9. mode = "list" => /\ said[0] = IF first = 0 THEN 0 ELSE 1
                         /\ first + Len(prog'.pipe) + Len(prog'.left) > 0
    BY <2>2, <2>5, <2>7
  <2>10. mode = "grab" => /\ first > 0
                          /\ \A day \in windows[at].days :
                               /\ said[day] = IF day < first THEN 1 ELSE 0
                               /\ day < first + Len(prog'.pipe) + Len(prog'.left)
    BY <2>2, <2>6, <2>7
  <2>11. first \in Nat /\ \A i \in 1 .. Len(prog'.pipe) : prog'.pipe[i] = first + i - 1
    BY <2>2, <2>3
  <2>12. Reading(first)'
    BY <1>1, <2>8, <2>9, <2>10, <2>11 DEF Reading
  <2> QED BY <2>11, <2>12
<1>10. ReadingInv'
  BY <1>2, <1>9 DEF ReadingInv
<1> QED BY <1>3, <1>4, <1>5, <1>8, <1>10 DEF ProgramInv

LEMMA WritesKeep ==
  ASSUME ProgramInv, Program!Writes
  PROVE  ProgramInv'
<1> USE ShapeOf
<1>1. /\ UNCHANGED <<mode, windows, at, ends, said, phase>> /\ prog.st = "running" /\ prog.left # <<>>
  BY DEF Program!Writes, Program!Pass
<1>2. /\ prog' \in [st : Ran, left : Seq(Nat), pipe : Seq(Nat), deaf : BOOLEAN, stuck : {FALSE, Limited},
                    code : Codes]
      /\ prog'.st = "running" /\ prog'.code = prog.code
      /\ prog'.left = Tail(prog.left) /\ prog'.pipe = Append(prog.pipe, Head(prog.left))
  <2>1. Tail(prog.left) \in Seq(Nat) /\ Head(prog.left) \in Nat
    BY <1>1
  <2>2. Append(prog.pipe, Head(prog.left)) \in Seq(Nat)
    BY <2>1
  <2> QED BY <1>1, <2>1, <2>2 DEF Program!Writes, ProgramInv, ProgramShape
<1>3. WindowsInv'
  BY <1>1 DEF ProgramInv, WindowsInv, Divided
<1>4. ProgramShape'
  BY <1>1, <1>2 DEF ProgramInv, ProgramShape
<1>5. CodeInv'
  BY <1>1, <1>2 DEF ProgramInv, CodeInv
<1>6. \A i : (AllSaid(i) <=> AllSaid(i)') /\ (NoneSaid(i) <=> NoneSaid(i)')
  BY <1>1 DEF AllSaid, NoneSaid
<1>7. Program!Partial <=> Program!Partial'
  BY <1>1 DEF Program!Partial
<1>8. SaidInv'
  BY <1>1, <1>2, <1>6, <1>7 DEF ProgramInv, SaidInv
<1>9. ASSUME NEW next \in Nat, Reading(next) PROVE Reading(next)'
  <2> DEFINE had == Len(prog.pipe)
             more == Len(prog.left)
  <2>1. /\ had \in Nat /\ more \in Nat /\ more > 0
        /\ Len(prog'.pipe) = had + 1 /\ Len(prog'.left) = more - 1
    <3>1. Head(prog.left) \in Nat
      BY <1>1
    <3>2. Len(prog'.pipe) = had + 1
      BY <1>2, <3>1, AppendProperties
    <3>3. Len(prog'.left) = more - 1
      BY <1>1, <1>2, HeadTailProperties
    <3> QED BY <1>1, <3>2, <3>3, EmptySeq
  <2>2. /\ \A i \in 1 .. had : prog'.pipe[i] = prog.pipe[i]
        /\ prog'.pipe[had + 1] = Head(prog.left) /\ Head(prog.left) = prog.left[1]
        /\ \A i \in 1 .. (more - 1) : prog'.left[i] = prog.left[i + 1]
    <3>1. /\ prog.left \in Seq(Nat) /\ prog.left # <<>> /\ prog.pipe \in Seq(Nat)
          /\ Head(prog.left) \in Nat
      BY <1>1
    <3>2. /\ \A i \in 1 .. had : prog'.pipe[i] = prog.pipe[i]
          /\ prog'.pipe[had + 1] = Head(prog.left)
      BY <1>2, <3>1, AppendProperties
    <3>3. /\ Head(prog.left) = prog.left[1]
          /\ \A i \in 1 .. (more - 1) : prog'.left[i] = prog.left[i + 1]
      BY <1>2, <3>1, HeadTailProperties
    <3> QED BY <3>2, <3>3
  <2>3. \A i \in 1 .. had : prog.pipe[i] = next + i - 1
    BY <1>9 DEF Reading
  <2>4. \A i \in 1 .. more : prog.left[i] = next + had + i - 1
    BY <1>9 DEF Reading
  <2> HIDE DEF had, more
  <2>5. \A i \in 1 .. (had + 1) : prog'.pipe[i] = next + i - 1
    <3>1. prog.left[1] = next + had
      BY <2>1, <2>4
    <3>2. \A i \in 1 .. (had + 1) : i \in 1 .. had \/ i = had + 1
      BY <2>1
    <3>3. prog'.pipe[had + 1] = next + (had + 1) - 1
      BY <2>1, <2>2, <3>1
    <3> QED BY <2>2, <2>3, <3>2, <3>3
  <2>6. \A i \in 1 .. (more - 1) : prog'.left[i] = next + (had + 1) + i - 1
    <3> SUFFICES ASSUME NEW i \in 1 .. (more - 1) PROVE prog'.left[i] = next + (had + 1) + i - 1
      OBVIOUS
    <3>1. i + 1 \in 1 .. more /\ prog'.left[i] = prog.left[i + 1]
      BY <2>1, <2>2
    <3>2. prog.left[i + 1] = next + had + (i + 1) - 1
      BY <2>4, <3>1
    <3> QED BY <2>1, <3>1, <3>2
  <2>7. next + (had + 1) + (more - 1) = next + had + more
    BY <2>1
  <2>8. /\ mode = "list" => said[0] = (IF next = 0 THEN 0 ELSE 1) /\ next + had + more > 0
        /\ mode = "grab" => /\ next > 0
                            /\ \A day \in windows[at].days :
                                 said[day] = (IF day < next THEN 1 ELSE 0) /\ day < next + had + more
    BY <1>9 DEF Reading, had, more
  <2> QED BY <1>1, <2>1, <2>5, <2>6, <2>7, <2>8 DEF Reading
<1>10. ReadingInv'
  BY <1>1, <1>2, <1>9 DEF ProgramInv, ReadingInv
<1> QED BY <1>3, <1>4, <1>5, <1>8, <1>10 DEF ProgramInv

LEMMA ClosesKeeps ==
  ASSUME ProgramInv, Program!Closes
  PROVE  ProgramInv'
<1> USE ShapeOf
<1>1. /\ UNCHANGED <<mode, windows, at, said, phase>> /\ prog.st = "exited" /\ phase # "reading"
      /\ ends' = Append(ends, prog.code)
  BY DEF Program!Closes
<1>2. /\ prog' \in [st : Ran, left : Seq(Nat), pipe : Seq(Nat), deaf : BOOLEAN, stuck : {FALSE, Limited},
                    code : Codes]
      /\ prog'.st = "closed" /\ prog'.code = prog.code
  <2>1. <<>> \in Seq(Nat) /\ "closed" \in Ran
    BY DEF Ran
  <2> QED BY <2>1 DEF Program!Closes, ProgramInv, ProgramShape
<1>3. /\ ends' \in Seq(Codes) /\ Len(ends') = Len(ends) + 1 /\ ends'[Len(ends) + 1] = prog.code
      /\ \A i \in 1 .. Len(ends) : ends'[i] = ends[i]
  BY <1>1, AppendProperties
<1>4. WindowsInv'
  BY <1>1 DEF ProgramInv, WindowsInv, Divided
<1>5. ProgramShape'
  BY <1>1, <1>2, <1>3 DEF ProgramInv, ProgramShape
<1>6. CodeInv'
  <2>1. prog.code # "none"
    BY <1>1 DEF ProgramInv, CodeInv
  <2>2. Len(ends) + 1 \in 1 .. Len(ends')
    BY <1>3
  <2> QED BY <1>2, <1>3, <2>1, <2>2 DEF CodeInv
<1>7. \A i : (AllSaid(i) <=> AllSaid(i)') /\ (NoneSaid(i) <=> NoneSaid(i)')
  BY <1>1 DEF AllSaid, NoneSaid
<1>8. Program!Partial => Program!Partial'
  <2>1. DOMAIN ends = 1 .. Len(ends) /\ DOMAIN ends' = 1 .. Len(ends')
    BY <1>3
  <2>2. \A i \in 1 .. Len(ends) : i \in 1 .. Len(ends')
    BY <1>3
  <2> QED BY <1>3, <2>1, <2>2 DEF Program!Partial
<1>9. SaidInv'
  BY <1>1, <1>2, <1>7, <1>8 DEF ProgramInv, SaidInv
<1>10. ReadingInv'
  BY <1>1 DEF ReadingInv
<1> QED BY <1>4, <1>5, <1>6, <1>9, <1>10 DEF ProgramInv

LEMMA EndReadKeeps ==
  ASSUME ProgramInv, Program!EndRead
  PROVE  ProgramInv'
<1> USE ShapeOf
<1>1. /\ UNCHANGED <<mode, windows, at, said, prog, ends>> /\ prog.st = "exited" /\ prog.pipe = <<>>
      /\ phase = "reading" /\ phase' = "finishing"
  BY DEF Program!EndRead, Program!Pass
<1>2. WindowsInv'
  BY <1>1 DEF ProgramInv, WindowsInv, Divided
<1>3. ProgramShape'
  BY <1>1 DEF ProgramInv, ProgramShape, Phases
<1>4. CodeInv'
  BY <1>1 DEF ProgramInv, CodeInv
<1>5. \A i : (AllSaid(i) <=> AllSaid(i)') /\ (NoneSaid(i) <=> NoneSaid(i)')
  BY <1>1 DEF AllSaid, NoneSaid
<1>6. Program!Partial <=> Program!Partial'
  BY <1>1 DEF Program!Partial
<1>7. ASSUME prog.code = "0" PROVE AllSaid(at)
  <2>1. PICK next \in Nat : Reading(next)
    BY <1>1 DEF ProgramInv, ReadingInv
  <2>2. prog.left = <<>>
    BY <1>1, <1>7 DEF ProgramInv, CodeInv
  <2>3. Len(prog.pipe) = 0 /\ Len(prog.left) = 0 /\ next + Len(prog.pipe) + Len(prog.left) = next
    BY <1>1, <2>2
  <2>4. mode = "list" => next # 0
    BY <2>1, <2>3 DEF Reading
  <2>5. mode = "list" => said[0] = 1
    BY <2>1, <2>4 DEF Reading
  <2>6. mode = "grab" => \A day \in windows[at].days : said[day] = 1
    BY <2>1, <2>3 DEF Reading
  <2> QED BY <2>5, <2>6 DEF AllSaid
<1>8. SaidInv'
  BY <1>1, <1>5, <1>6, <1>7 DEF ProgramInv, SaidInv
<1>9. ReadingInv'
  BY <1>1 DEF ReadingInv
<1> QED BY <1>2, <1>3, <1>4, <1>8, <1>9 DEF ProgramInv

LEMMA FinishedKeeps ==
  ASSUME ProgramInv, Program!Finished
  PROVE  ProgramInv'
<1> USE ShapeOf
<1>1. /\ UNCHANGED <<mode, windows, said, prog, ends>> /\ prog.st = "closed" /\ phase = "finishing"
      /\ \/ Program!Trusted /\ at < Len(windows) /\ phase' = "sending" /\ at' = at + 1
         \/ Program!Trusted /\ ~(at < Len(windows)) /\ phase' = "returned" /\ at' = at
         \/ phase' = "threw" /\ at' = at
  BY DEF Program!Finished
<1>2. at' \in 1 .. Len(windows) /\ at' \in Nat /\ phase' \in Phases
  BY <1>1 DEF Phases
<1>3. WindowsInv'
  BY <1>1, <1>2 DEF ProgramInv, WindowsInv, Divided
<1>4. ProgramShape'
  BY <1>1, <1>2 DEF ProgramInv, ProgramShape
<1>5. CodeInv'
  BY <1>1 DEF ProgramInv, CodeInv
<1>6. \A i : (AllSaid(i) <=> AllSaid(i)') /\ (NoneSaid(i) <=> NoneSaid(i)')
  BY <1>1 DEF AllSaid, NoneSaid
<1>7. Program!Partial <=> Program!Partial'
  BY <1>1 DEF Program!Partial
<1>8. ASSUME Program!Trusted, ~Program!Partial PROVE AllSaid(at)
  <2>1. PICK i \in 1 .. Len(ends) : ends[i] = prog.code
    BY <1>1 DEF ProgramInv, CodeInv
  <2>2. DOMAIN ends = 1 .. Len(ends)
    OBVIOUS
  <2>3. prog.code # "accepted"
    BY <1>8, <2>1, <2>2 DEF Program!Partial
  <2> QED BY <1>1, <1>8, <2>3 DEF Program!Trusted, ProgramInv, SaidInv
<1>9. ~Program!Partial => \A i \in 1 .. Len(windows) : i < at => AllSaid(i)
  BY DEF ProgramInv, SaidInv
<1>10. \A i \in 1 .. Len(windows) : i > at => NoneSaid(i)
  BY DEF ProgramInv, SaidInv
<1>11. SaidInv'
  <2>1. mode = "list" => \A day \in 1 .. Horizon : said[day] = 0
    BY DEF ProgramInv, SaidInv
  <2>2. CASE Program!Trusted /\ at < Len(windows) /\ phase' = "sending" /\ at' = at + 1
    <3>1. \A i \in 1 .. Len(windows) : i > at' \/ i = at' => i > at
      BY <2>2
    <3>2. \A i \in 1 .. Len(windows) : i < at' => i < at \/ i = at
      BY <2>2
    <3>3. ~Program!Partial => \A i \in 1 .. Len(windows) : i < at' => AllSaid(i)
      BY <1>8, <1>9, <2>2, <3>2
    <3> QED BY <1>1, <1>6, <1>7, <1>10, <2>1, <2>2, <3>1, <3>3 DEF SaidInv
  <2>3. CASE Program!Trusted /\ ~(at < Len(windows)) /\ phase' = "returned" /\ at' = at
    <3>1. \A i \in 1 .. Len(windows) : i < at \/ i = at
      BY <2>3
    <3>2. ~Program!Partial => \A i \in 1 .. Len(windows) : AllSaid(i)
      BY <1>8, <1>9, <2>3, <3>1
    <3> QED BY <1>1, <1>6, <1>7, <1>10, <2>1, <2>3, <3>2 DEF SaidInv
  <2>4. CASE phase' = "threw" /\ at' = at
    BY <1>1, <1>6, <1>7, <1>9, <1>10, <2>1, <2>4 DEF SaidInv
  <2> QED BY <1>1, <2>2, <2>3, <2>4
<1>12. ReadingInv'
  BY <1>1 DEF ReadingInv
<1> QED BY <1>3, <1>4, <1>5, <1>11, <1>12 DEF ProgramInv

-----------------------------------------------------------------------------
\* The days a pass takes from a program of one of its windows are that window's.
LEMMA MineIs ==
  ASSUME ProgramInv, mode = "grab"
  PROVE  Program!mine(at) = windows[at].days
<1> USE ShapeOf
<1>1. /\ \A i \in 1 .. Len(windows) : windows[i].days \subseteq Wanted
      /\ \A day \in Wanted : \E i \in 1 .. Len(windows) : day \in windows[i].days
  BY DEF ProgramInv, WindowsInv, Divided
<1>2. DOMAIN windows = 1 .. Len(windows)
  OBVIOUS
<1>3. Program!claimed = Wanted
  BY <1>1, <1>2 DEF Program!claimed
<1>4. CASE Len(windows) = 1
  <2>1. 1 .. Len(windows) = {1} /\ at = 1
    BY <1>4
  <2>2. windows[1].days = Wanted
    BY <1>1, <2>1
  <2> QED BY <1>4, <2>1, <2>2 DEF Program!mine
<1>5. CASE Len(windows) # 1
  BY <1>1, <1>3, <1>5 DEF Program!mine
<1> QED BY <1>4, <1>5

LEMMA TakesKeeps ==
  ASSUME ProgramInv, phase = "reading", prog.pipe # <<>>, Program!Takes(Head(prog.pipe)),
         mode = "list" => Head(prog.pipe) = 0
  PROVE  ProgramInv'
<1> USE ShapeOf
<1> DEFINE piece == Head(prog.pipe)
<1>1. /\ UNCHANGED <<mode, windows, at, ends, phase>> /\ phase = "reading"
      /\ piece = prog.pipe[1] /\ piece \in Nat
      /\ said' = IF piece = 0 \/ piece \in Program!mine(at) THEN [said EXCEPT ![piece] = @ + 1] ELSE said
  BY DEF Program!Takes, Program!Pass
<1>2. PICK next \in Nat : Reading(next)
  <2>1. prog.st # "missing"
    BY DEF ProgramInv, CodeInv
  <2> QED BY <1>1, <2>1 DEF ProgramInv, ReadingInv
<1>3. Len(prog.pipe) \in Nat \ {0} /\ piece = next
  <2>1. Len(prog.pipe) \in Nat \ {0}
    BY EmptySeq
  <2>2. prog.pipe[1] = next + 1 - 1
    BY <1>2, <2>1 DEF Reading
  <2> QED BY <1>1, <2>1, <2>2
<1>4. /\ prog' \in [st : Ran, left : Seq(Nat), pipe : Seq(Nat), deaf : BOOLEAN, stuck : {FALSE, Limited},
                    code : Codes]
      /\ prog'.st = prog.st /\ prog'.code = prog.code /\ prog'.left = prog.left
      /\ prog'.pipe = Tail(prog.pipe) /\ prog.st # "missing"
  <2>1. Tail(prog.pipe) \in Seq(Nat)
    BY HeadTailProperties
  <2>2. prog.st # "missing"
    BY DEF ProgramInv, CodeInv
  <2> QED BY <2>1, <2>2 DEF Program!Takes, ProgramInv, ProgramShape
\* What is said changes of the piece alone, which was not said.
<1>5. /\ said' \in [0 .. Horizon -> {0, 1}]
      /\ \A day \in 0 .. Horizon : day # next => said'[day] = said[day]
      /\ mode = "list" => next = 0 /\ said'[0] = 1
      /\ mode = "grab" => next > 0 /\ \A day \in windows[at].days : day = next => said'[day] = 1
      /\ mode = "grab" => next \in windows[at].days \/ said' = said
  <2>1. CASE mode = "list"
    <3>1. next = 0 /\ piece = 0 /\ said[0] = 0 /\ 0 \in 0 .. Horizon
      BY <1>2, <1>3, <2>1, OfWanted DEF Reading
    <3>2. said' = [said EXCEPT ![0] = said[0] + 1]
      BY <1>1, <3>1
    <3>3. said' = [said EXCEPT ![0] = 1]
      BY <3>1, <3>2
    <3> QED BY <2>1, <3>1, <3>3
  <2>2. CASE mode = "grab"
    <3>1. next > 0 /\ piece = next /\ next \in Nat
      BY <1>2, <1>3, <2>2 DEF Reading
    <3>2. next \in Program!mine(at) <=> next \in windows[at].days
      BY <2>2, MineIs
    <3>3. CASE next \in windows[at].days
      <4>1. said[next] = 0
        <5>1. said[next] = IF next < next THEN 1 ELSE 0
          BY <1>2, <2>2, <3>3 DEF Reading
        <5> QED BY <3>1, <5>1
      <4>2. next \in 0 .. Horizon
        BY <2>2, <3>1, <3>3, OfWanted DEF ProgramInv, WindowsInv, Divided
      <4>3. said' = [said EXCEPT ![next] = 1]
        <5>1. said' = [said EXCEPT ![next] = said[next] + 1]
          BY <1>1, <3>1, <3>2, <3>3
        <5> QED BY <4>1, <5>1
      <4> QED BY <2>2, <3>1, <3>3, <4>2, <4>3
    <3>4. CASE next \notin windows[at].days
      <4>1. said' = said
        BY <1>1, <3>1, <3>2, <3>4
      <4> QED BY <2>2, <3>1, <3>4, <4>1
    <3> QED BY <3>3, <3>4
  <2> QED BY <2>1, <2>2
<1>6. WindowsInv'
  BY <1>1 DEF ProgramInv, WindowsInv, Divided
<1>7. ProgramShape'
  BY <1>1, <1>4, <1>5 DEF ProgramInv, ProgramShape
<1>8. CodeInv'
  BY <1>1, <1>4 DEF ProgramInv, CodeInv
<1>9. Program!Partial <=> Program!Partial'
  BY <1>1 DEF Program!Partial
\* The days of other windows are other days.
<1>10. ASSUME NEW i \in 1 .. Len(windows), i # at
       PROVE  (AllSaid(i) <=> AllSaid(i)') /\ (NoneSaid(i) <=> NoneSaid(i)')
  <2>1. mode = "grab"
    <3>1. mode = "list" => Len(windows) = 1
      BY DEF ProgramInv, WindowsInv
    <3>2. Len(windows) = 1 => i = at
      OBVIOUS
    <3> QED BY <1>10, <3>1, <3>2
  <2>2. \A day \in windows[i].days : day \in 0 .. Horizon
    <3>1. windows[i].days \subseteq Wanted
      BY <2>1 DEF ProgramInv, WindowsInv, Divided
    <3>2. Wanted \subseteq 0 .. Horizon
      BY OfWanted
    <3> QED BY <3>1, <3>2
  <2>3. \A day \in windows[i].days : day \notin windows[at].days
    BY <1>10, <2>1 DEF ProgramInv, WindowsInv, Divided
  <2>4. \A day \in windows[i].days : said'[day] = said[day]
    BY <1>5, <2>1, <2>2, <2>3
  <2> QED BY <1>1, <2>1, <2>4 DEF AllSaid, NoneSaid
<1>11. SaidInv'
  <2>1. mode = "list" => \A day \in 1 .. Horizon : said'[day] = 0
    <3>1. mode = "list" => \A day \in 1 .. Horizon : day \in 0 .. Horizon /\ day # next /\ said[day] = 0
      BY <1>5 DEF ProgramInv, SaidInv
    <3> QED BY <1>5, <3>1
  <2>2. \A i \in 1 .. Len(windows) : i > at => NoneSaid(i)'
    <3>1. \A i \in 1 .. Len(windows) : i > at => i # at /\ NoneSaid(i)
      BY DEF ProgramInv, SaidInv
    <3> QED BY <1>10, <3>1
  <2>3. ~Program!Partial => \A i \in 1 .. Len(windows) : i < at => AllSaid(i)'
    <3>1. ~Program!Partial => \A i \in 1 .. Len(windows) : i < at => i # at /\ AllSaid(i)
      BY DEF ProgramInv, SaidInv
    <3> QED BY <1>10, <3>1
  <2> QED BY <1>1, <1>9, <2>1, <2>2, <2>3 DEF SaidInv
<1>12. Reading(next + 1)'
  <2> DEFINE had == Len(prog.pipe)
             more == Len(prog.left)
  <2>1. /\ had \in Nat \ {0} /\ more \in Nat /\ Len(prog'.pipe) = had - 1 /\ Len(prog'.left) = more
        /\ \A i \in 1 .. (had - 1) : prog'.pipe[i] = prog.pipe[i + 1]
    BY <1>3, <1>4, HeadTailProperties
  <2>2. \A i \in 1 .. had : prog.pipe[i] = next + i - 1
    BY <1>2 DEF Reading
  <2>3. \A i \in 1 .. more : prog.left[i] = next + had + i - 1
    BY <1>2 DEF Reading
  <2>4. /\ mode = "list" => next + had + more > 0
        /\ mode = "grab" => \A day \in windows[at].days :
                              said[day] = (IF day < next THEN 1 ELSE 0) /\ day < next + had + more
    BY <1>2 DEF Reading
  <2> HIDE DEF had, more
  <2>5. \A i \in 1 .. (had - 1) : prog'.pipe[i] = next + 1 + i - 1
    <3> SUFFICES ASSUME NEW i \in 1 .. (had - 1) PROVE prog'.pipe[i] = next + 1 + i - 1
      OBVIOUS
    <3>1. i + 1 \in 1 .. had /\ prog'.pipe[i] = prog.pipe[i + 1]
      BY <2>1
    <3>2. prog.pipe[i + 1] = next + (i + 1) - 1
      BY <2>2, <3>1
    <3> QED BY <3>1, <3>2
  <2>6. \A i \in 1 .. more : prog'.left[i] = next + 1 + (had - 1) + i - 1
    <3> SUFFICES ASSUME NEW i \in 1 .. more PROVE prog'.left[i] = next + 1 + (had - 1) + i - 1
      OBVIOUS
    <3>1. prog'.left[i] = next + had + i - 1
      BY <1>4, <2>3
    <3> QED BY <2>1, <3>1
  <2>7. next + 1 + (had - 1) + more = next + had + more
    BY <2>1
  <2>8. mode = "list" => /\ said'[0] = IF next + 1 = 0 THEN 0 ELSE 1
                         /\ next + 1 + (had - 1) + more > 0
    BY <1>5, <2>4, <2>7
  <2>9. mode = "grab" => /\ next + 1 > 0
                         /\ \A day \in windows[at].days :
                              /\ said'[day] = IF day < next + 1 THEN 1 ELSE 0
                              /\ day < next + 1 + (had - 1) + more
    <3> SUFFICES ASSUME mode = "grab"
                 PROVE  \A day \in windows[at].days :
                          /\ said'[day] = IF day < next + 1 THEN 1 ELSE 0
                          /\ day < next + 1 + (had - 1) + more
      OBVIOUS
    <3> SUFFICES ASSUME NEW day \in windows[at].days
                 PROVE  /\ said'[day] = IF day < next + 1 THEN 1 ELSE 0
                        /\ day < next + 1 + (had - 1) + more
      OBVIOUS
    <3>1. day \in 0 .. Horizon
      <4>1. windows[at].days \subseteq Wanted
        BY DEF ProgramInv, WindowsInv, Divided
      <4>2. Wanted \subseteq 0 .. Horizon
        BY OfWanted
      <4> QED BY <4>1, <4>2
    <3>2. CASE day = next
      BY <1>5, <2>4, <2>7, <3>1, <3>2
    <3>3. CASE day < next
      BY <1>5, <2>4, <2>7, <3>1, <3>3
    <3>4. CASE day > next
      <4>1. said'[day] = said[day]
        BY <1>5, <3>1, <3>4
      <4>2. said[day] = 0
        <5>1. said[day] = IF day < next THEN 1 ELSE 0
          BY <2>4
        <5>2. ~(day < next)
          BY <3>1, <3>4
        <5> QED BY <5>1, <5>2
      <4>3. ~(day < next + 1)
        BY <3>1, <3>4
      <4>4. day < next + 1 + (had - 1) + more
        BY <2>4, <2>7
      <4> QED BY <4>1, <4>2, <4>3, <4>4
    <3> QED BY <3>1, <3>2, <3>3, <3>4
  <2> QED BY <1>1, <2>1, <2>5, <2>6, <2>8, <2>9 DEF Reading
<1>13. ReadingInv'
  <2>1. prog'.st \in {"missing", "running", "exited"}
    BY <1>1, <1>4 DEF ProgramInv, ReadingInv
  <2>2. next + 1 \in Nat
    OBVIOUS
  <2> QED BY <1>12, <2>1, <2>2 DEF ReadingInv
<1> QED BY <1>6, <1>7, <1>8, <1>11, <1>13 DEF ProgramInv

LEMMA ReadsKeep ==
  ASSUME ProgramInv, Program!Reads
  PROVE  ProgramInv'
<1> USE ShapeOf
<1>1. phase = "reading" /\ prog.pipe # <<>>
  BY DEF Program!Reads
<1>2. CASE signal
  BY <1>1, <1>2, LettingGoKeeps DEF Program!Reads
<1>3. CASE ~signal /\ mode = "list" /\ Head(prog.pipe) # 0
  <2>1. Program!LetsGo("returned")
    BY <1>1, <1>3 DEF Program!Reads
  <2>2. PICK next \in Nat : Reading(next)
    <3>1. prog.st # "missing"
      BY <1>1 DEF ProgramInv, CodeInv
    <3> QED BY <1>1, <3>1 DEF ProgramInv, ReadingInv
  <2>3. Len(prog.pipe) \in Nat \ {0} /\ Head(prog.pipe) = prog.pipe[1]
    BY <1>1, EmptySeq
  <2>4. prog.pipe[1] = next + 1 - 1
    <3>1. 1 \in 1 .. Len(prog.pipe)
      BY <2>3
    <3> QED BY <2>2, <3>1 DEF Reading
  <2>5. next # 0
    BY <1>3, <2>3, <2>4
  <2>6. said[0] = 1
    BY <1>3, <2>2, <2>5 DEF Reading
  <2> QED BY <1>1, <1>3, <2>1, <2>6, LettingGoKeeps
<1>4. CASE ~signal /\ ~(mode = "list" /\ Head(prog.pipe) # 0)
  <2>1. Program!Takes(Head(prog.pipe))
    BY <1>4 DEF Program!Reads
  <2> QED BY <1>1, <1>4, <2>1, TakesKeeps
<1> QED BY <1>2, <1>3, <1>4

LEMMA ProgramStep ==
  ASSUME ProgramInv, [MCNext]_all
  PROVE  ProgramInv'
<1>1. CASE OfProgram(Program!Next)
  BY <1>1, EndingsKeep, SpawnsKeep, WritesKeep, ClosesKeeps, EndReadKeeps, FinishedKeeps, ReadsKeep
     DEF OfProgram, Program!Next, Program!Works
<1>2. CASE UNCHANGED ofProgram
  <2>1. UNCHANGED <<mode, windows, at, phase, said, prog, ends>>
    BY <1>2 DEF ofProgram
  <2>2. WindowsInv' /\ ProgramShape' /\ CodeInv'
    BY <2>1 DEF ProgramInv, WindowsInv, Divided, ProgramShape, CodeInv
  <2>3. SaidInv'
    BY <2>1 DEF ProgramInv, SaidInv, AllSaid, NoneSaid, Program!Partial
  <2>4. ReadingInv'
    BY <2>1 DEF ProgramInv, ReadingInv, Reading
  <2> QED BY <2>2, <2>3, <2>4 DEF ProgramInv
<1>3. MCNext => OfProgram(Program!Next) \/ UNCHANGED ofProgram
  BY DEF MCNext, OfLists, OfAccount, OfDatabase
<1>4. UNCHANGED all => UNCHANGED ofProgram
  BY DEF all
<1> QED BY <1>1, <1>2, <1>3, <1>4

LEMMA WholeIsSaid == ProgramInv => CutShortIsNotTaken
<1> SUFFICES ASSUME ProgramInv PROVE Program!CutShortIsNotTaken
  BY DEF CutShortIsNotTaken
<1> USE ShapeOf
<1>1. \A day \in 1 .. Horizon : said[day] <= 1
  <2>1. \A day \in 1 .. Horizon : said[day] \in {0, 1}
    BY OfWanted
  <2> QED BY <2>1
<1>2. ASSUME phase = "returned", ~Program!Partial
      PROVE  IF mode = "list" THEN said[0] = 1 ELSE \A day \in Wanted : said[day] = 1
  <2>1. \A i \in 1 .. Len(windows) : AllSaid(i)
    BY <1>2 DEF ProgramInv, SaidInv
  <2>2. CASE mode = "list"
    BY <2>1, <2>2 DEF AllSaid
  <2>3. CASE mode = "grab"
    <3>1. \A day \in Wanted : \E i \in 1 .. Len(windows) : day \in windows[i].days
      BY <2>3 DEF ProgramInv, WindowsInv, Divided
    <3> QED BY <2>1, <2>3, <3>1 DEF AllSaid
  <2> QED BY <2>2, <2>3
<1> QED BY <1>1, <1>2 DEF Program!CutShortIsNotTaken

\* A pass over a program's documents that ends well has said each day it was for,
\* once, and a list its channels, but where a program exited as partial: a program
\* stopped half way is never taken for one that had no more to say.  Whatever the
\* days, the room in the pipe, and whoever lets go first: runCommand's `finished`
\* and the two passes of defineCommandSite.
THEOREM CutShortIsNeverTaken == MCSpec => []CutShortIsNotTaken
<1>1. MCInit => ProgramInv
  BY ProgramInit DEF MCInit
<1>2. ProgramInv /\ [MCNext]_all => ProgramInv'
  BY ProgramStep
<1> QED BY <1>1, <1>2, WholeIsSaid, PTL DEF MCSpec
=============================================================================
