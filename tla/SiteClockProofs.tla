--------------------------- MODULE SiteClockProofs ---------------------------
(* That the clock of a site gives every moment to one part and once, however   *)
(* long the run, however many calls are out and whatever order they come back  *)
(* in.  Settled moments, Away, are those the site spent waiting on the run's   *)
(* thread that no call still out can say anything of.                          *)
EXTENDS SiteClock, FiniteSetTheorems, SequenceTheorems, WellFoundedInduction, TLAPS

Parts == MEASURED_TIME \cup {"elsewhere", "none"}
Stretches == Nat \X Nat

Within(s, t) == s[1] <= t /\ t < s[2]
Ran(runs, t) == \E s \in runs : Within(s, t)
Past(n, p) == {t \in 0 .. (n - 1) : moments[t + 1] = p}
Kept(stretches) == {t \in 0 .. MaxNow : \E i \in DOMAIN stretches : Within(stretches[i], t)}
Away(n, stretches) == Past(n, "elsewhere") \ Kept(stretches)

-----------------------------------------------------------------------------
(* Numbers: the least and the greatest of some, and how many there are.        *)

\* A set of naturals that is not empty has a least member.
LEMMA LeastIsOne ==
  ASSUME NEW set \in SUBSET Nat, set # {}
  PROVE  \E least \in set : \A other \in set : least <= other
<1>1. PICK least \in set : \A other \in set : <<other, least>> \notin OpToRel(<, Nat)
  BY NatLessThanWellFounded, WFMin
<1>2. SUFFICES ASSUME NEW other \in set PROVE least <= other
  OBVIOUS
<1>3. OpToRel(<, Nat) = {pair \in Nat \X Nat : pair[1] < pair[2]}
  BY DEF OpToRel
<1>4. <<other, least>> \in Nat \X Nat /\ <<other, least>> \notin {pair \in Nat \X Nat : pair[1] < pair[2]}
  BY <1>1, <1>3
<1> QED BY <1>4

\* Min is the least of a set of naturals.
LEMMA MinIs ==
  ASSUME NEW set \in SUBSET Nat, set # {}
  PROVE  Min(set) \in set /\ \A other \in set : Min(set) <= other
BY LeastIsOne DEF Min

\* Max is the greatest of a set of naturals with a bound.
LEMMA MaxIs ==
  ASSUME NEW set \in SUBSET Nat, set # {}, NEW bound \in Nat, \A n \in set : n <= bound
  PROVE  Max(set) \in set /\ \A other \in set : other <= Max(set)
<1> DEFINE below == {bound - n : n \in set}
<1>1. below \in SUBSET Nat /\ below # {}
  <2>1. \A n \in set : bound - n \in Nat
    OBVIOUS
  <2> QED BY <2>1
<1>2. PICK least \in below : \A other \in below : least <= other
  BY <1>1, LeastIsOne
<1>3. PICK n \in set : least = bound - n
  BY <1>2
<1>4. \A other \in set : other <= n
  <2> TAKE other \in set
  <2>1. bound - n <= bound - other
    BY <1>2, <1>3
  <2> QED BY <2>1
<1> QED BY <1>4 DEF Max

LEMMA MinOfTwo ==
  ASSUME NEW a \in Nat, NEW b \in Nat
  PROVE  Min({a, b}) = IF a <= b THEN a ELSE b
BY MinIs, {a, b} \in SUBSET Nat

LEMMA MaxOfTwo ==
  ASSUME NEW a \in Nat, NEW b \in Nat
  PROVE  Max({a, b}) = IF a >= b THEN a ELSE b
<1>1. {a, b} \in SUBSET Nat /\ {a, b} # {} /\ a + b \in Nat /\ \A n \in {a, b} : n <= a + b
  OBVIOUS
<1>2. Max({a, b}) \in {a, b} /\ \A other \in {a, b} : other <= Max({a, b})
  BY <1>1, MaxIs
<1> QED BY <1>2

\* Numbers below a bound are so many, and are as many as the two parts of them are.
LEMMA CountIs ==
  ASSUME NEW n \in Nat, NEW set \in SUBSET (0 .. n)
  PROVE  IsFiniteSet(set) /\ Cardinality(set) \in Nat
<1>1. IsFiniteSet(0 .. n)
  BY FS_Interval, 0 \in Int
<1>2. IsFiniteSet(set)
  BY <1>1, FS_Subset
<1> QED BY <1>2, FS_CardinalityType

LEMMA CountOfTwo ==
  ASSUME NEW n \in Nat, NEW one \in SUBSET (0 .. n), NEW other \in SUBSET (0 .. n), one \cap other = {}
  PROVE  Cardinality(one \cup other) = Cardinality(one) + Cardinality(other)
<1>1. /\ IsFiniteSet(one) /\ Cardinality(one) \in Nat
      /\ IsFiniteSet(other) /\ Cardinality(other) \in Nat
  BY CountIs
<1>2. Cardinality(one \cup other) = Cardinality(one) + Cardinality(other) - Cardinality(one \cap other)
  BY <1>1, FS_Union
<1>3. Cardinality(one \cap other) = 0
  BY FS_EmptySet
<1> QED BY <1>1, <1>2, <1>3

LEMMA CountBetween ==
  ASSUME NEW from \in Nat, NEW to \in Nat, from <= to
  PROVE  Cardinality(from .. (to - 1)) = to - from
<1>1. Cardinality(from .. (to - 1)) = IF from > to - 1 THEN 0 ELSE (to - 1) - from + 1
  <2> from \in Int /\ to - 1 \in Int
    OBVIOUS
  <2> QED BY FS_Interval
<1> QED BY <1>1

-----------------------------------------------------------------------------
(* #covered: the sweep counts the moments that some call was worked on in.     *)
Begun(n, from, to, runs) == {t \in from .. (to - 1) : \E s \in runs : s[1] < n /\ Within(s, t)}

\* What the sweep has of those begun before n: how much, and how far they reach.
SweptTo(n, was, from, to, runs) ==
  /\ was.ms = Cardinality(Begun(n, from, to, runs))
  /\ was.reached \in from .. to
  /\ \A t \in from .. (to - 1) : t >= n - 1 => (t \in Begun(n, from, to, runs) <=> t < was.reached)

\* The sweep is a function of where it has come to.
IsSweep(f, from, to, runs) ==
  f = [n \in 0 .. to |-> IF n = 0 THEN [ms |-> 0, reached |-> from]
                         ELSE SweptPast(n - 1, f[n - 1], from, to, runs)]

LEMMA SweepExists ==
  ASSUME NEW from, NEW to \in Nat, NEW runs
  PROVE  \E f : IsSweep(f, from, to, runs)
<1> DEFINE At(f, n) == IF n = 0 THEN [ms |-> 0, reached |-> from]
                       ELSE SweptPast(n - 1, f[n - 1], from, to, runs)
           fails == {m \in Nat : ~\E f : f = [n \in 0 .. m |-> At(f, n)]}
<1>1. SUFFICES ASSUME to \in fails PROVE FALSE
  BY DEF IsSweep
<1>2. PICK m \in fails : \A other \in fails : m <= other
  BY <1>1, LeastIsOne
<1>3. CASE m = 0
  <2> DEFINE f == [n \in 0 .. 0 |-> [ms |-> 0, reached |-> from]]
  <2>1. \A n \in 0 .. 0 : n = 0 /\ At(f, n) = [ms |-> 0, reached |-> from]
    OBVIOUS
  <2> HIDE DEF At
  <2>2. f = [n \in 0 .. m |-> At(f, n)]
    BY <1>3, <2>1
  <2> QED BY <2>2
<1>4. CASE m # 0
  <2>1. m - 1 \in Nat /\ m - 1 \notin fails
    <3>1. m \in Nat /\ m - 1 \in Nat /\ ~(m <= m - 1)
      BY <1>4
    <3> HIDE DEF fails
    <3> QED BY <1>2, <3>1
  <2>2. PICK f : f = [n \in 0 .. (m - 1) |-> At(f, n)]
    BY <2>1
  <2> DEFINE g == [n \in 0 .. m |-> IF n = m THEN At(f, m) ELSE f[n]]
  <2>3. \A n \in 0 .. m : g[n] = At(g, n)
    <3> SUFFICES ASSUME NEW n \in 0 .. m PROVE g[n] = At(g, n)
      OBVIOUS
    <3>1. CASE n = m
      BY <3>1, <1>4
    <3>2. CASE n # m
      <4>1. n \in 0 .. (m - 1) /\ f[n] = At(f, n)
        <5>1. n \in 0 .. (m - 1)
          BY <3>2
        <5> HIDE DEF At
        <5> QED BY <5>1, <2>2
      <4>2. n # 0 => g[n - 1] = f[n - 1]
        BY <4>1
      <4> QED BY <4>1, <4>2, <3>2
    <3> QED BY <3>1, <3>2
  <2> HIDE DEF At
  <2>4. g = [n \in 0 .. m |-> At(g, n)]
    BY <2>3
  <2> QED BY <2>4
<1> QED BY <1>3, <1>4

\* Those that begin at n add what of them is past how far the others reach.
LEMMA SweepGoesOn ==
  ASSUME NEW from \in Nat, NEW to \in Nat, from <= to, NEW runs \in SUBSET Stretches,
         NEW bound \in Nat, \A s \in runs : s[2] <= bound,
         NEW n \in Nat, n < to, NEW was, SweptTo(n, was, from, to, runs)
  PROVE  SweptTo(n + 1, SweptPast(n, was, from, to, runs), from, to, runs)
<1> DEFINE ends == {from} \cup {s[2] : s \in {one \in runs : one[1] = n}}
           lasts == Max(ends)
           begun == Max({n, was.reached})
           ended == Min({lasts, to})
           next == SweptPast(n, was, from, to, runs)
           before == Begun(n, from, to, runs)
           after == Begun(n + 1, from, to, runs)
<1>1. was.reached \in Nat /\ from <= was.reached /\ was.reached <= to
  BY DEF SweptTo
<1>2. lasts \in ends /\ \A other \in ends : other <= lasts
  <2>1. ends \in SUBSET Nat /\ ends # {} /\ from + bound \in Nat /\ \A e \in ends : e <= from + bound
    BY DEF Stretches
  <2> HIDE DEF ends
  <2> QED BY <2>1, MaxIs
<1>3. lasts \in Nat
  BY <1>2 DEF Stretches
<1> HIDE DEF lasts
<1>4. begun = (IF n >= was.reached THEN n ELSE was.reached) /\ ended = (IF lasts <= to THEN lasts ELSE to)
  BY <1>1, <1>3, MaxOfTwo, MinOfTwo
<1>5. next = IF ended > begun THEN [ms |-> was.ms + (ended - begun), reached |-> ended] ELSE was
  BY DEF SweptPast, lasts
<1>6. begun \in Nat /\ ended \in Nat
  BY <1>1, <1>3, <1>4
<1> HIDE DEF begun, ended, next
<1>7. \A t \in from .. (to - 1) : t \in after <=> t \in before \/ (n <= t /\ t < ended)
  <2> SUFFICES ASSUME NEW t \in from .. (to - 1)
               PROVE  t \in after <=> t \in before \/ (n <= t /\ t < ended)
    OBVIOUS
  <2>1. t \in after => t \in before \/ (n <= t /\ t < ended)
    <3> SUFFICES ASSUME NEW s \in runs, s[1] < n + 1, Within(s, t), ~(s[1] < n)
                 PROVE  n <= t /\ t < ended
      BY DEF Begun
    <3>1. s[1] \in Nat /\ s[2] \in Nat
      BY DEF Stretches
    <3>2. s[1] = n
      BY <3>1
    <3>3. s[2] <= lasts
      BY <3>2, <1>2
    <3> QED BY <3>1, <3>2, <3>3, <1>3, <1>4 DEF Within
  <2>2. t \in before => t \in after
    BY DEF Begun, Stretches
  <2>3. n <= t /\ t < ended => t \in after
    <3> SUFFICES ASSUME n <= t, t < ended PROVE t \in after
      OBVIOUS
    <3>1. t < lasts
      BY <1>3, <1>4
    <3>2. PICK s \in runs : s[1] = n /\ s[2] = lasts
      BY <3>1, <1>2
    <3> QED BY <3>1, <3>2 DEF Begun, Within
  <2> QED BY <2>1, <2>2, <2>3
<1>8. \A t \in from .. (to - 1) : t >= n => (t \in before <=> t < was.reached)
  BY DEF SweptTo
<1>9. was.ms = Cardinality(before)
  BY DEF SweptTo
<1>10. before \in SUBSET (0 .. to) /\ after \in SUBSET (from .. (to - 1))
  BY DEF Begun
<1>11. \A t \in before : t \in from .. (to - 1)
  BY DEF Begun
<1> HIDE DEF before, after
<1>12. CASE ended > begun
  <2>1. next.ms = was.ms + (ended - begun) /\ next.reached = ended
    BY <1>5, <1>12
  <2>2. ended <= to /\ from <= begun /\ begun <= ended
    BY <1>1, <1>3, <1>4, <1>12
  <2>3. after = before \cup (begun .. (ended - 1))
    <3>1. \A t \in from .. (to - 1) : t \in after <=> t \in before \/ t \in begun .. (ended - 1)
      BY <1>1, <1>4, <1>6, <1>7, <1>8
    <3>2. \A t \in begun .. (ended - 1) : t \in from .. (to - 1)
      BY <1>6, <2>2
    <3> QED BY <3>1, <3>2, <1>10, <1>11
  <2>4. before \cap (begun .. (ended - 1)) = {}
    BY <1>1, <1>4, <1>6, <1>8, <1>11
  <2>5. (begun .. (ended - 1)) \in SUBSET (0 .. to)
    BY <1>6, <2>2
  <2>6. Cardinality(after) = Cardinality(before) + (ended - begun)
    <3>1. Cardinality(after) = Cardinality(before) + Cardinality(begun .. (ended - 1))
      <4> DEFINE new == begun .. (ended - 1)
      <4>1. new \in SUBSET (0 .. to) /\ before \cap new = {} /\ after = before \cup new /\ to \in Int
        BY <2>3, <2>4, <2>5
      <4> HIDE DEF new
      <4> QED BY <1>10, <4>1, CountOfTwo DEF new
    <3>2. Cardinality(begun .. (ended - 1)) = ended - begun
      BY <1>6, <2>2, CountBetween
    <3> QED BY <3>1, <3>2
  <2>7. \A t \in from .. (to - 1) : t >= n => (t \in after <=> t < ended)
    BY <1>1, <1>4, <1>6, <1>7, <1>8, <1>12
  <2>8. ended \in from .. to
    BY <1>6, <2>2
  <2> QED BY <1>9, <2>1, <2>6, <2>7, <2>8 DEF SweptTo, next, after
<1>13. CASE ~(ended > begun)
  <2>1. next = was
    BY <1>5, <1>13
  <2>2. after = before
    <3>1. \A t \in from .. (to - 1) : t \in after <=> t \in before
      BY <1>1, <1>4, <1>6, <1>7, <1>8, <1>13
    <3> QED BY <3>1, <1>10, <1>11
  <2>3. \A t \in from .. (to - 1) : t >= n => (t \in after <=> t < was.reached)
    BY <1>8, <2>2
  <2> QED BY <1>1, <1>9, <2>1, <2>2, <2>3 DEF SweptTo, next, after
<1> QED BY <1>12, <1>13

\* So what is covered of a stretch is how many moments of it some call ran in.
LEMMA CoveredIs ==
  ASSUME NEW from \in Nat, NEW to \in Nat, from <= to, NEW runs \in SUBSET Stretches,
         NEW bound \in Nat, \A s \in runs : s[2] <= bound
  PROVE  Covered(from, to, runs) = Cardinality({t \in from .. (to - 1) : Ran(runs, t)})
<1> DEFINE swept == CHOOSE f : IsSweep(f, from, to, runs)
           fails == {n \in 0 .. to : ~SweptTo(n, swept[n], from, to, runs)}
<1>1. swept = [n \in 0 .. to |-> IF n = 0 THEN [ms |-> 0, reached |-> from]
                                 ELSE SweptPast(n - 1, swept[n - 1], from, to, runs)]
  <2>1. IsSweep(swept, from, to, runs)
    BY SweepExists
  <2> QED BY <2>1 DEF IsSweep
<1>2. Covered(from, to, runs) = swept[to].ms
  BY DEF Covered, IsSweep
<1> HIDE DEF swept
<1>3. fails = {}
  <2> SUFFICES ASSUME fails # {} PROVE FALSE
    OBVIOUS
  <2>1. PICK n \in fails : \A other \in fails : n <= other
    <3>1. fails \in SUBSET Nat
      OBVIOUS
    <3> HIDE DEF fails
    <3> QED BY <3>1, LeastIsOne
  <2>2. CASE n = 0
    <3>1. swept[0].ms = 0 /\ swept[0].reached = from
      BY <1>1
    <3>2. Begun(0, from, to, runs) = {}
      BY DEF Begun, Stretches
    <3>3. SweptTo(0, swept[0], from, to, runs)
      <4>1. Cardinality(Begun(0, from, to, runs)) = 0
        BY <3>2, FS_EmptySet
      <4>2. \A t \in from .. (to - 1) : ~(t < from)
        OBVIOUS
      <4> QED BY <3>1, <3>2, <4>1, <4>2 DEF SweptTo
    <3> QED BY <2>1, <2>2, <3>3
  <2>3. CASE n # 0
    <3>1. n - 1 \in Nat /\ n - 1 < to /\ n - 1 \in 0 .. to /\ n - 1 \notin fails /\ (n - 1) + 1 = n
      BY <2>1, <2>3
    <3>2. SweptTo(n - 1, swept[n - 1], from, to, runs)
      BY <3>1
    <3>3. swept[n] = SweptPast(n - 1, swept[n - 1], from, to, runs)
      BY <1>1, <2>1, <2>3
    <3>4. SweptTo((n - 1) + 1, SweptPast(n - 1, swept[n - 1], from, to, runs), from, to, runs)
      BY <3>1, <3>2, SweepGoesOn
    <3> QED BY <2>1, <3>1, <3>3, <3>4
  <2> QED BY <2>2, <2>3
<1>4. swept[to].ms = Cardinality(Begun(to, from, to, runs))
  BY <1>3 DEF SweptTo
<1>5. Begun(to, from, to, runs) = {t \in from .. (to - 1) : Ran(runs, t)}
  BY DEF Begun, Ran, Within, Stretches
<1> QED BY <1>2, <1>4, <1>5

-----------------------------------------------------------------------------
(* #settle: of the moments the stretches keep, those before the first call     *)
(* still out are given for good, and the others kept.                          *)
InOrder(n, stretches) ==
  /\ stretches \in Seq(Stretches)
  /\ \A i \in DOMAIN stretches : stretches[i][1] < stretches[i][2] /\ stretches[i][2] <= n
  /\ \A i, j \in DOMAIN stretches : i < j => stretches[i][2] <= stretches[j][1]

KeptTo(i, stretches) == {t \in 0 .. MaxNow : \E j \in 1 .. i : Within(stretches[j], t)}
Waited(upTo, set, runs) == {t \in set : t < upTo /\ ~Ran(runs, t)}

\* What is settled of the first i of them.
SettledTo(i, was, n, stretches, upTo, runs) ==
  /\ was.waited = Cardinality(Waited(upTo, KeptTo(i, stretches), runs))
  /\ InOrder(n, was.alone)
  /\ \A k \in DOMAIN was.alone : \A j \in (i + 1) .. Len(stretches) : was.alone[k][2] <= stretches[j][1]
  /\ Kept(was.alone) = {t \in KeptTo(i, stretches) : t >= upTo}

IsSettling(f, stretches, upTo, runs) ==
  f = [i \in 0 .. Len(stretches) |-> IF i = 0 THEN [waited |-> 0, alone |-> <<>>]
                                     ELSE SettledOver(stretches[i], f[i - 1], upTo, runs)]

LEMMA SettlingExists ==
  ASSUME NEW stretches, Len(stretches) \in Nat, NEW upTo, NEW runs
  PROVE  \E f : IsSettling(f, stretches, upTo, runs)
<1> DEFINE At(f, i) == IF i = 0 THEN [waited |-> 0, alone |-> <<>>]
                       ELSE SettledOver(stretches[i], f[i - 1], upTo, runs)
           fails == {m \in Nat : ~\E f : f = [i \in 0 .. m |-> At(f, i)]}
<1>1. SUFFICES ASSUME Len(stretches) \in fails PROVE FALSE
  BY DEF IsSettling
<1>2. PICK m \in fails : \A other \in fails : m <= other
  BY <1>1, LeastIsOne
<1>3. CASE m = 0
  <2> DEFINE f == [i \in 0 .. 0 |-> [waited |-> 0, alone |-> <<>>]]
  <2>1. \A i \in 0 .. 0 : i = 0 /\ At(f, i) = [waited |-> 0, alone |-> <<>>]
    OBVIOUS
  <2> HIDE DEF At
  <2>2. f = [i \in 0 .. m |-> At(f, i)]
    BY <1>3, <2>1
  <2> QED BY <2>2
<1>4. CASE m # 0
  <2>1. m - 1 \in Nat /\ m - 1 \notin fails
    <3>1. m \in Nat /\ m - 1 \in Nat /\ ~(m <= m - 1)
      BY <1>4
    <3> HIDE DEF fails
    <3> QED BY <1>2, <3>1
  <2>2. PICK f : f = [i \in 0 .. (m - 1) |-> At(f, i)]
    BY <2>1
  <2> DEFINE g == [i \in 0 .. m |-> IF i = m THEN At(f, m) ELSE f[i]]
  <2>3. \A i \in 0 .. m : g[i] = At(g, i)
    <3> SUFFICES ASSUME NEW i \in 0 .. m PROVE g[i] = At(g, i)
      OBVIOUS
    <3>1. CASE i = m
      BY <3>1, <1>4
    <3>2. CASE i # m
      <4>1. i \in 0 .. (m - 1) /\ f[i] = At(f, i)
        <5>1. i \in 0 .. (m - 1)
          BY <3>2
        <5> HIDE DEF At
        <5> QED BY <5>1, <2>2
      <4>2. i # 0 => g[i - 1] = f[i - 1]
        BY <4>1
      <4> QED BY <4>1, <4>2, <3>2
    <3> QED BY <3>1, <3>2
  <2> HIDE DEF At
  <2>4. g = [i \in 0 .. m |-> At(g, i)]
    BY <2>3
  <2> QED BY <2>4
<1> QED BY <1>3, <1>4

\* One more stretch keeps the moments within it.
LEMMA KeptOfAppend ==
  ASSUME NEW stretches \in Seq(Stretches), NEW stretch \in Stretches
  PROVE  Kept(Append(stretches, stretch)) = Kept(stretches) \cup {t \in 0 .. MaxNow : Within(stretch, t)}
<1> DEFINE more == Append(stretches, stretch)
<1>1. /\ Len(stretches) \in Nat /\ DOMAIN stretches = 1 .. Len(stretches)
      /\ DOMAIN more = 1 .. (Len(stretches) + 1) /\ more[Len(stretches) + 1] = stretch
      /\ \A i \in DOMAIN stretches : i \in DOMAIN more /\ more[i] = stretches[i]
  OBVIOUS
<1>2. \A i \in DOMAIN more : i \in DOMAIN stretches \/ i = Len(stretches) + 1
  BY <1>1
<1>3. Len(stretches) + 1 \in DOMAIN more
  BY <1>1
<1> HIDE DEF more
<1> QED BY <1>1, <1>2, <1>3 DEF Kept

\* What is not covered of a stretch is how many moments of it no call ran in.
LEMMA UncoveredIs ==
  ASSUME NEW from \in Nat, NEW to \in Nat, from <= to, NEW runs \in SUBSET Stretches,
         NEW bound \in Nat, \A s \in runs : s[2] <= bound
  PROVE  to - from - Covered(from, to, runs) = Cardinality({t \in from .. (to - 1) : ~Ran(runs, t)})
<1> DEFINE all == from .. (to - 1)
           some == {t \in all : Ran(runs, t)}
           others == {t \in all : ~Ran(runs, t)}
<1>1. some \in SUBSET (0 .. to) /\ others \in SUBSET (0 .. to)
  OBVIOUS
<1>2. all = some \cup others /\ some \cap others = {}
  OBVIOUS
<1>3. Covered(from, to, runs) = Cardinality(some) /\ Cardinality(all) = to - from
  BY CoveredIs, CountBetween
<1> HIDE DEF all, some, others
<1>4. Cardinality(all) = Cardinality(some) + Cardinality(others)
  BY <1>1, <1>2, CountOfTwo
<1>5. Cardinality(some) \in Nat /\ Cardinality(others) \in Nat
  BY <1>1, CountIs
<1> QED BY <1>3, <1>4, <1>5 DEF others, all

\* One more stretch is settled as those before it were.
LEMMA SettlesNext ==
  ASSUME MaxNow \in Nat, NEW n \in 0 .. MaxNow, NEW stretches, InOrder(n, stretches), NEW upTo \in Nat,
         NEW runs \in SUBSET Stretches, \A s \in runs : s[2] <= n,
         NEW i \in Nat, i < Len(stretches), NEW was, SettledTo(i, was, n, stretches, upTo, runs)
  PROVE  SettledTo(i + 1, SettledOver(stretches[i + 1], was, upTo, runs), n, stretches, upTo, runs)
<1> DEFINE stretch == stretches[i + 1]
           from == stretch[1]
           to == stretch[2]
           until == Min({to, upTo})
           begins == Max({from, upTo})
           next == SettledOver(stretch, was, upTo, runs)
           before == KeptTo(i, stretches)
           after == KeptTo(i + 1, stretches)
<1>1. /\ Len(stretches) \in Nat /\ DOMAIN stretches = 1 .. Len(stretches)
      /\ i + 1 \in 1 .. Len(stretches) /\ stretch \in Stretches
  BY DEF InOrder
<1>2. from \in Nat /\ to \in Nat /\ from < to /\ to <= n /\ to <= MaxNow
  BY <1>1 DEF InOrder, Stretches
<1>3. \A j \in (i + 2) .. Len(stretches) : to <= stretches[j][1]
  <2> SUFFICES ASSUME NEW j \in (i + 2) .. Len(stretches) PROVE to <= stretches[j][1]
    OBVIOUS
  <2>1. i + 1 \in DOMAIN stretches /\ j \in DOMAIN stretches /\ i + 1 < j
    BY <1>1
  <2> QED BY <2>1 DEF InOrder
<1>4. \A t \in before : t < from
  <2> SUFFICES ASSUME NEW j \in 1 .. i, NEW t \in 0 .. MaxNow, Within(stretches[j], t) PROVE t < from
    BY DEF KeptTo
  <2>1. j \in DOMAIN stretches /\ j < i + 1 /\ i + 1 \in DOMAIN stretches
    BY <1>1
  <2>2. stretches[j][2] <= from /\ stretches[j][2] \in Nat
    <3>1. stretches[j] \in Stretches
      BY <2>1 DEF InOrder
    <3>2. stretches[j][2] <= stretches[i + 1][1]
      BY <1>1, <2>1 DEF InOrder
    <3> QED BY <3>1, <3>2 DEF Stretches
  <2> QED BY <1>2, <2>2 DEF Within
<1>5. after = before \cup (from .. (to - 1))
  <2>1. \A j \in 1 .. (i + 1) : j \in 1 .. i \/ j = i + 1
    OBVIOUS
  <2>2. {t \in 0 .. MaxNow : Within(stretch, t)} = from .. (to - 1)
    <3>1. \A t \in 0 .. MaxNow : Within(stretch, t) <=> from <= t /\ t < to
      BY <1>2 DEF Within
    <3> HIDE DEF from, to
    <3>2. \A t \in from .. (to - 1) : t \in 0 .. MaxNow
      BY <1>2
    <3> QED BY <1>2, <3>1, <3>2
  <2>3. after = before \cup {t \in 0 .. MaxNow : Within(stretch, t)}
    BY <2>1 DEF KeptTo
  <2> QED BY <2>2, <2>3
<1>6. before \in SUBSET (0 .. MaxNow)
  BY DEF KeptTo
<1>7. until = (IF to <= upTo THEN to ELSE upTo) /\ begins = (IF from >= upTo THEN from ELSE upTo)
  BY <1>2, MinOfTwo, MaxOfTwo
<1>8. /\ next.waited = IF from >= upTo THEN was.waited
                       ELSE was.waited + (until - from - Covered(from, until, runs))
      /\ next.alone = IF to <= upTo THEN was.alone ELSE Append(was.alone, <<begins, to>>)
  BY DEF SettledOver
<1> HIDE DEF stretch, until, begins, next, before, after
<1>9. /\ was.waited = Cardinality(Waited(upTo, before, runs)) /\ InOrder(n, was.alone)
      /\ \A k \in DOMAIN was.alone : \A j \in (i + 1) .. Len(stretches) : was.alone[k][2] <= stretches[j][1]
      /\ Kept(was.alone) = {t \in before : t >= upTo}
  BY DEF SettledTo, before
<1>10. next.waited = Cardinality(Waited(upTo, after, runs))
  <2>1. CASE from >= upTo
    <3>1. Waited(upTo, after, runs) = Waited(upTo, before, runs)
      BY <1>2, <1>5, <2>1 DEF Waited
    <3> QED BY <1>8, <1>9, <2>1, <3>1
  <2>2. CASE ~(from >= upTo)
    <3> DEFINE new == {t \in from .. (until - 1) : ~Ran(runs, t)}
               old == Waited(upTo, before, runs)
    <3>1. until \in Nat /\ from <= until /\ until <= to /\ until <= upTo
      BY <1>2, <1>7, <2>2
    <3>2. until - from - Covered(from, until, runs) = Cardinality(new)
      <4>1. n \in Nat
        OBVIOUS
      <4> QED BY <1>2, <3>1, <4>1, UncoveredIs
    <3>3. Waited(upTo, after, runs) = old \cup new
      <4>1. \A t \in from .. (to - 1) : t < upTo <=> t \in from .. (until - 1)
        BY <1>2, <1>7, <3>1
      <4>2. \A t \in from .. (until - 1) : t \in from .. (to - 1)
        BY <1>2, <3>1
      <4> QED BY <1>5, <4>1, <4>2 DEF Waited
    <3>4. old \in SUBSET (0 .. MaxNow) /\ new \in SUBSET (0 .. MaxNow)
      <4>1. old \subseteq before
        BY DEF Waited
      <4>2. \A t \in from .. (until - 1) : t \in 0 .. MaxNow
        BY <1>2, <3>1
      <4> QED BY <1>6, <4>1, <4>2
    <3>5. old \cap new = {}
      BY <1>2, <1>4, <3>1 DEF Waited
    <3> HIDE DEF old, new
    <3>6. Cardinality(old \cup new) = Cardinality(old) + Cardinality(new)
      BY <3>4, <3>5, CountOfTwo
    <3> DEFINE covered == Covered(from, until, runs)
    <3>7. was.waited = Cardinality(old)
      BY <1>9 DEF old
    <3>8. next.waited = was.waited + (until - from - covered)
      BY <1>8, <2>2
    <3> HIDE DEF covered
    <3> QED BY <3>2, <3>3, <3>6, <3>7, <3>8 DEF covered
  <2> QED BY <2>1, <2>2
<1>11. /\ InOrder(n, next.alone)
       /\ \A k \in DOMAIN next.alone : \A j \in (i + 2) .. Len(stretches) : next.alone[k][2] <= stretches[j][1]
       /\ Kept(next.alone) = {t \in after : t >= upTo}
  <2>1. CASE to <= upTo
    <3>1. next.alone = was.alone
      BY <1>8, <2>1
    <3>2. {t \in after : t >= upTo} = {t \in before : t >= upTo}
      BY <1>2, <1>5, <2>1
    <3>3. \A j \in (i + 2) .. Len(stretches) : j \in (i + 1) .. Len(stretches)
      OBVIOUS
    <3> QED BY <1>9, <3>1, <3>2, <3>3
  <2>2. CASE ~(to <= upTo)
    <3> DEFINE kept == <<begins, to>>
               all == Append(was.alone, kept)
               last == Len(was.alone) + 1
    <3>1. begins \in Nat /\ from <= begins /\ begins < to /\ kept \in Stretches /\ kept[1] = begins /\ kept[2] = to
      BY <1>2, <1>7, <2>2 DEF Stretches
    <3>2. was.alone \in Seq(Stretches)
      BY <1>9 DEF InOrder
    <3> HIDE DEF kept
    <3>3. /\ Len(was.alone) \in Nat /\ DOMAIN was.alone = 1 .. Len(was.alone) /\ all \in Seq(Stretches)
          /\ DOMAIN all = 1 .. last /\ all[last] = kept
          /\ \A k \in DOMAIN was.alone : all[k] = was.alone[k]
      BY <3>1, <3>2
    <3>4. next.alone = all
      BY <1>8, <2>2 DEF kept
    <3> HIDE DEF all
    <3>5. \A k \in 1 .. last : k \in DOMAIN was.alone \/ k = last
      BY <3>3
    <3>6. \A k \in DOMAIN was.alone : was.alone[k][2] <= from
      BY <1>1, <1>9 DEF stretch
    <3>7. InOrder(n, all)
      <4>1. \A k \in DOMAIN all : all[k][1] < all[k][2] /\ all[k][2] <= n
        BY <1>2, <1>9, <3>1, <3>3, <3>5 DEF InOrder
      <4>2. ASSUME NEW k \in DOMAIN all, NEW j \in DOMAIN all, k < j PROVE all[k][2] <= all[j][1]
        <5>1. k \in DOMAIN was.alone
          BY <3>3, <3>5, <4>2
        <5>2. CASE j \in DOMAIN was.alone
          BY <1>9, <3>3, <4>2, <5>1, <5>2 DEF InOrder
        <5>3. CASE j = last
          <6>1. was.alone[k] \in Stretches
            BY <3>2, <5>1
          <6>2. was.alone[k][2] \in Nat
            BY <6>1 DEF Stretches
          <6>3. was.alone[k][2] <= from
            BY <3>6, <5>1
          <6>4. all[k] = was.alone[k] /\ all[j] = kept
            BY <3>3, <5>1, <5>3
          <6>5. was.alone[k][2] <= begins
            BY <1>2, <3>1, <6>2, <6>3
          <6> QED BY <3>1, <6>4, <6>5
        <5> QED BY <3>3, <3>5, <5>2, <5>3
      <4> QED BY <3>3, <4>1, <4>2 DEF InOrder
    <3>8. \A k \in DOMAIN all : \A j \in (i + 2) .. Len(stretches) : all[k][2] <= stretches[j][1]
      <4>1. \A j \in (i + 2) .. Len(stretches) : j \in (i + 1) .. Len(stretches)
        OBVIOUS
      <4> QED BY <1>3, <1>9, <3>1, <3>3, <3>5, <4>1
    <3>9. Kept(all) = {t \in after : t >= upTo}
      <4>1. Kept(all) = Kept(was.alone) \cup {t \in 0 .. MaxNow : Within(kept, t)}
        BY <3>1, <3>2, KeptOfAppend DEF all
      <4>2. {t \in 0 .. MaxNow : Within(kept, t)} = {t \in from .. (to - 1) : t >= upTo}
        BY <1>2, <1>7, <3>1 DEF Within
      <4> QED BY <1>5, <1>9, <4>1, <4>2
    <3> QED BY <3>4, <3>7, <3>8, <3>9
  <2> QED BY <2>1, <2>2
<1> QED BY <1>10, <1>11 DEF SettledTo, after, next, stretch

SettlesUpTo(upTo, settled, n, stretches, runs, still) ==
  /\ \A i \in DOMAIN still : upTo <= still[i]
  /\ still = <<>> => upTo = MaxNow + 1
  /\ settled.waited = Cardinality(Waited(upTo, Kept(stretches), runs))
  /\ InOrder(n, settled.alone)
  /\ Kept(settled.alone) = {t \in Kept(stretches) : t >= upTo}
  /\ settled.ran = {s \in runs : s[2] > upTo}

\* So what a call coming back settles is the moments before those still out.
LEMMA SettledIs ==
  ASSUME MaxNow \in Nat, NEW n \in 0 .. MaxNow, NEW stretches, InOrder(n, stretches),
         NEW runs \in SUBSET Stretches, \A s \in runs : s[2] <= n, NEW still \in Seq(Nat)
  PROVE  \E upTo \in Nat : SettlesUpTo(upTo, Settled(stretches, runs, still), n, stretches, runs, still)
<1> DEFINE calling == {MaxNow + 1} \cup Range(still)
           upTo == Min(calling)
           over == CHOOSE f : IsSettling(f, stretches, upTo, runs)
           fails == {i \in 0 .. Len(stretches) : ~SettledTo(i, over[i], n, stretches, upTo, runs)}
<1>1. /\ upTo \in calling /\ \A other \in calling : upTo <= other
      /\ calling \in SUBSET Nat /\ \A i \in DOMAIN still : still[i] \in calling
  <2>1. calling \in SUBSET Nat /\ calling # {} /\ \A i \in DOMAIN still : still[i] \in calling
    BY DEF Range
  <2> HIDE DEF calling
  <2> QED BY <2>1, MinIs
<1>2. upTo \in Nat /\ upTo <= MaxNow + 1 /\ \A i \in DOMAIN still : upTo <= still[i]
  <2>1. MaxNow + 1 \in calling
    OBVIOUS
  <2> HIDE DEF calling
  <2> QED BY <1>1, <2>1
<1>3. still = <<>> => upTo = MaxNow + 1
  <2> SUFFICES ASSUME still = <<>> PROVE upTo = MaxNow + 1
    OBVIOUS
  <2>1. DOMAIN still = {}
    OBVIOUS
  <2>2. calling = {MaxNow + 1}
    BY <2>1 DEF Range
  <2> HIDE DEF calling
  <2> QED BY <1>1, <2>2
<1>4. /\ Settled(stretches, runs, still).waited = over[Len(stretches)].waited
      /\ Settled(stretches, runs, still).alone = over[Len(stretches)].alone
      /\ Settled(stretches, runs, still).ran = {s \in runs : s[2] > upTo}
  BY DEF Settled, IsSettling
<1> HIDE DEF upTo, calling
<1>5. Len(stretches) \in Nat /\ DOMAIN stretches = 1 .. Len(stretches)
  BY DEF InOrder
<1>6. over = [i \in 0 .. Len(stretches) |-> IF i = 0 THEN [waited |-> 0, alone |-> <<>>]
                                            ELSE SettledOver(stretches[i], over[i - 1], upTo, runs)]
  <2>1. IsSettling(over, stretches, upTo, runs)
    BY <1>5, SettlingExists
  <2> QED BY <2>1 DEF IsSettling
<1> HIDE DEF over
<1>7. fails = {}
  <2> SUFFICES ASSUME fails # {} PROVE FALSE
    OBVIOUS
  <2>1. PICK i \in fails : \A other \in fails : i <= other
    <3>1. fails \in SUBSET Nat
      OBVIOUS
    <3> HIDE DEF fails
    <3> QED BY <3>1, LeastIsOne
  <2>2. CASE i = 0
    <3>1. over[0].waited = 0 /\ over[0].alone = <<>>
      BY <1>5, <1>6
    <3>2. KeptTo(0, stretches) = {} /\ Waited(upTo, {}, runs) = {} /\ Kept(<<>>) = {}
      BY DEF KeptTo, Waited, Kept
    <3>3. InOrder(n, <<>>)
      BY DEF InOrder
    <3>4. SettledTo(0, over[0], n, stretches, upTo, runs)
      <4>1. Cardinality(Waited(upTo, KeptTo(0, stretches), runs)) = 0
        BY <3>2, FS_EmptySet
      <4>2. DOMAIN over[0].alone = {}
        BY <3>1
      <4>3. Kept(over[0].alone) = {t \in KeptTo(0, stretches) : t >= upTo}
        BY <3>1, <3>2
      <4> QED BY <3>1, <3>3, <4>1, <4>2, <4>3 DEF SettledTo
    <3> QED BY <2>1, <2>2, <3>4
  <2>3. CASE i # 0
    <3>1. i - 1 \in Nat /\ i - 1 < Len(stretches) /\ i - 1 \in 0 .. Len(stretches)
          /\ i - 1 \notin fails /\ (i - 1) + 1 = i
      BY <1>5, <2>1, <2>3
    <3>2. SettledTo(i - 1, over[i - 1], n, stretches, upTo, runs)
      BY <3>1
    <3>3. over[i] = SettledOver(stretches[i], over[i - 1], upTo, runs)
      BY <1>6, <2>1, <2>3
    <3>4. SettledTo((i - 1) + 1, SettledOver(stretches[(i - 1) + 1], over[i - 1], upTo, runs),
                    n, stretches, upTo, runs)
      BY <1>2, <3>1, <3>2, SettlesNext
    <3> QED BY <2>1, <3>1, <3>3, <3>4
  <2> QED BY <2>2, <2>3
<1>8. SettledTo(Len(stretches), over[Len(stretches)], n, stretches, upTo, runs)
  BY <1>5, <1>7
<1>9. KeptTo(Len(stretches), stretches) = Kept(stretches)
  BY <1>5 DEF KeptTo, Kept
<1>10. SettlesUpTo(upTo, Settled(stretches, runs, still), n, stretches, runs, still)
  BY <1>2, <1>3, <1>4, <1>8, <1>9 DEF SettledTo, SettlesUpTo
<1> QED BY <1>2, <1>10

-----------------------------------------------------------------------------
(* What holds of the clock: what it has given is what held in the moments up   *)
(* to the last change, and those it keeps are given to the work for now.       *)
Typed ==
  /\ now \in 0 .. MaxNow /\ since \in 0 .. now
  /\ part = HoldsNow
  /\ spent \in [MEASURED_TIME -> Int]
  /\ moments \in Seq(Parts) /\ Len(moments) = now
  /\ calls \in Seq(Nat) /\ \A i \in DOMAIN calls : calls[i] <= now
  /\ served \in SUBSET (0 .. (since - 1))
  /\ ran \in SUBSET Stretches /\ \A s \in ran : s[2] <= since

\* A kept moment was worked on if some stretch has it; a settled one is before every call out.
Waits(n, stretches, runs, worked, still) ==
  /\ Kept(stretches) \subseteq Past(n, "elsewhere")
  /\ \A t \in Kept(stretches) : t \in worked <=> Ran(runs, t)
  /\ \A t \in Away(n, stretches) : \A i \in DOMAIN still : t < still[i]

ToQueue(n, stretches, worked) == Past(n, "queued") \cup (Away(n, stretches) \ worked)
ToWork(n, stretches, worked) ==
  Past(n, "working") \cup Kept(stretches) \cup (Away(n, stretches) \cap worked)

Accounts(n, gave, stretches, worked) ==
  /\ \A p \in {"source", "held", "rateLimit"} : gave[p] = Cardinality(Past(n, p))
  /\ gave["queued"] = Cardinality(ToQueue(n, stretches, worked))
  /\ gave["working"] = Cardinality(ToWork(n, stretches, worked))

ClockInv ==
  /\ Typed
  /\ \A t \in since .. (now - 1) : moments[t + 1] = part
  /\ InOrder(since, alone)
  /\ Waits(since, alone, ran, served, calls)
  /\ Accounts(since, spent, alone, served)
  /\ calls = <<>> => alone = <<>>

Under == since .. (now - 1)

\* What holds is one of the parts, and work that waits elsewhere has a call out.
LEMMA HoldsIs ==
  /\ HoldsNow \in Parts
  /\ Len(calls) \in Nat => (HoldsNow = "elsewhere" => calls # <<>>)
<1>1. HoldsNow \in Parts
  BY DEF HoldsNow, Holding, Parts, MEASURED_TIME
<1>2. HoldsNow = "elsewhere" => Len(calls) > 0
  BY DEF HoldsNow, Holding
<1> QED BY <1>1, <1>2

\* The moments up to now are those up to the last change, and what held since.
LEMMA PastIs ==
  ASSUME Typed, \A t \in Under : moments[t + 1] = part, NEW p
  PROVE  /\ Past(now, p) = Past(since, p) \cup (IF part = p THEN Under ELSE {})
         /\ Past(since, p) \in SUBSET (0 .. (since - 1))
<1>1. now \in Nat /\ since \in Nat /\ since <= now
  BY DEF Typed
<1>2. \A t \in 0 .. (now - 1) : t \in 0 .. (since - 1) \/ t \in Under
  BY <1>1 DEF Under
<1>3. \A t \in 0 .. (since - 1) : t \in 0 .. (now - 1)
  BY <1>1
<1>4. \A t \in Under : t \in 0 .. (now - 1)
  BY <1>1 DEF Under
<1> QED BY <1>2, <1>3, <1>4 DEF Past

\* Closing a stretch keeps it where nothing but calls elsewhere was done in it.
LEMMA ClosedAloneIs ==
  ASSUME MaxNow \in Nat, ClockInv
  PROVE  /\ InOrder(now, ClosedAlone)
         /\ Kept(ClosedAlone) = Kept(alone) \cup (IF part = "elsewhere" THEN Under ELSE {})
<1>1. now \in Nat /\ since \in Nat /\ since <= now /\ now <= MaxNow
  BY DEF ClockInv, Typed
<1>2. InOrder(since, alone)
  BY DEF ClockInv
<1>3. InOrder(now, alone)
  <2>1. \A i \in DOMAIN alone : alone[i][2] \in Nat
    BY <1>2 DEF InOrder, Stretches
  <2> QED BY <1>1, <1>2, <2>1 DEF InOrder
<1>4. CASE ~(part = "elsewhere" /\ now > since)
  <2>1. part = "elsewhere" => Under = {}
    BY <1>1, <1>4 DEF Under
  <2> QED BY <1>3, <1>4, <2>1 DEF ClosedAlone
<1>5. CASE part = "elsewhere" /\ now > since
  <2> DEFINE last == Len(alone)
  <2>1. last \in Nat /\ DOMAIN alone = 1 .. last /\ alone \in Seq(Stretches)
    BY <1>2 DEF InOrder
  <2>2. ClosedAlone = Extended(alone)
    BY <1>5 DEF ClosedAlone
  <2>3. CASE last > 0 /\ alone[last][2] = since
    <3> DEFINE longer == <<alone[last][1], now>>
               all == [alone EXCEPT ![last] = longer]
    <3>1. ClosedAlone = all
      BY <2>2, <2>3 DEF Extended
    <3>2. last \in DOMAIN alone /\ alone[last][1] \in Nat /\ alone[last][1] < since
      BY <1>2, <2>1, <2>3 DEF InOrder, Stretches
    <3>3. longer \in Stretches /\ longer[1] = alone[last][1] /\ longer[2] = now
      BY <1>1, <3>2 DEF Stretches
    <3> HIDE DEF longer
    <3>4. /\ all \in Seq(Stretches) /\ DOMAIN all = DOMAIN alone /\ all[last] = longer
          /\ \A i \in DOMAIN alone : i # last => all[i] = alone[i]
      BY <2>1, <3>2, <3>3
    <3> HIDE DEF all
    <3>5. InOrder(now, all)
      <4>1. \A i \in DOMAIN all : all[i][1] < all[i][2] /\ all[i][2] <= now
        BY <1>1, <1>3, <3>2, <3>3, <3>4 DEF InOrder
      <4>2. ASSUME NEW i \in DOMAIN all, NEW j \in DOMAIN all, i < j PROVE all[i][2] <= all[j][1]
        <5>1. i # last /\ alone[i][2] <= alone[j][1]
          BY <1>3, <2>1, <3>4, <4>2 DEF InOrder
        <5> QED BY <3>3, <3>4, <5>1
      <4> QED BY <3>4, <4>1, <4>2 DEF InOrder
    <3>6. Kept(all) = Kept(alone) \cup Under
      <4>1. \A t \in 0 .. MaxNow : Within(longer, t) <=> Within(alone[last], t) \/ t \in Under
        BY <1>1, <2>3, <3>2, <3>3 DEF Within, Under
      <4>2. \A t \in Under : t \in 0 .. MaxNow
        BY <1>1 DEF Under
      <4>3. ASSUME NEW t \in Kept(all) PROVE t \in Kept(alone) \cup Under
        <5>1. PICK i \in DOMAIN all : Within(all[i], t)
          BY <4>3 DEF Kept
        <5>2. t \in 0 .. MaxNow
          BY <4>3 DEF Kept
        <5> QED BY <3>2, <3>4, <4>1, <5>1, <5>2 DEF Kept
      <4>4. ASSUME NEW t \in Kept(alone) PROVE t \in Kept(all)
        <5>1. PICK i \in DOMAIN alone : Within(alone[i], t)
          BY <4>4 DEF Kept
        <5>2. t \in 0 .. MaxNow
          BY <4>4 DEF Kept
        <5> QED BY <3>2, <3>4, <4>1, <5>1, <5>2 DEF Kept
      <4>5. \A t \in Under : t \in Kept(all)
        BY <3>2, <3>4, <4>1, <4>2 DEF Kept
      <4> QED BY <4>3, <4>4, <4>5
    <3> QED BY <1>5, <3>1, <3>5, <3>6
  <2>4. CASE ~(last > 0 /\ alone[last][2] = since)
    <3> DEFINE new == <<since, now>>
               all == Append(alone, new)
    <3>1. ClosedAlone = all
      BY <2>2, <2>4 DEF Extended
    <3>2. new \in Stretches /\ new[1] = since /\ new[2] = now
      BY <1>1 DEF Stretches
    <3>3. Kept(all) = Kept(alone) \cup Under
      <4>1. {t \in 0 .. MaxNow : Within(new, t)} = Under
        BY <1>1 DEF Within, Under
      <4> QED BY <2>1, <3>2, <4>1, KeptOfAppend
    <3> HIDE DEF new
    <3>4. /\ all \in Seq(Stretches) /\ DOMAIN all = 1 .. (last + 1) /\ all[last + 1] = new
          /\ \A i \in DOMAIN alone : all[i] = alone[i]
          /\ \A i \in 1 .. (last + 1) : i \in DOMAIN alone \/ i = last + 1
      BY <2>1, <3>2
    <3> HIDE DEF all
    <3>5. InOrder(now, all)
      <4>1. \A i \in DOMAIN all : all[i][1] < all[i][2] /\ all[i][2] <= now
        BY <1>1, <1>3, <1>5, <3>2, <3>4 DEF InOrder
      <4>2. ASSUME NEW i \in DOMAIN all, NEW j \in DOMAIN all, i < j PROVE all[i][2] <= all[j][1]
        <5>1. i \in DOMAIN alone
          BY <2>1, <3>4, <4>2
        <5>2. alone[i][2] <= since
          BY <1>2, <5>1 DEF InOrder
        <5>3. j \in DOMAIN alone => alone[i][2] <= alone[j][1]
          BY <1>2, <4>2, <5>1 DEF InOrder
        <5> QED BY <3>2, <3>4, <5>1, <5>2, <5>3
      <4> QED BY <3>4, <4>1, <4>2 DEF InOrder
    <3> QED BY <1>5, <3>1, <3>3, <3>5
  <2> QED BY <2>3, <2>4
<1> QED BY <1>4, <1>5

\* So closing gives the moments since to the part that held in them.
LEMMA CloseGives ==
  ASSUME MaxNow \in Nat, ClockInv
  PROVE  /\ ClosedSpent \in [MEASURED_TIME -> Int]
         /\ Waits(now, ClosedAlone, ran, served, calls)
         /\ Accounts(now, ClosedSpent, ClosedAlone, served)
         /\ Away(now, ClosedAlone) = Away(since, alone)
<1> DEFINE more(p) == IF part = p THEN Under ELSE {}
           longer(p) == IF part = p THEN now - since ELSE 0
<1>1. now \in Nat /\ since \in Nat /\ since <= now /\ now <= MaxNow
  BY DEF ClockInv, Typed
<1>2. \A p : Past(now, p) = Past(since, p) \cup more(p) /\ Past(since, p) \in SUBSET (0 .. (since - 1))
  <2>1. Typed /\ \A t \in Under : moments[t + 1] = part
    BY DEF ClockInv, Under
  <2> QED BY <2>1, PastIs
<1>3. Kept(ClosedAlone) = Kept(alone) \cup more("elsewhere")
  BY ClosedAloneIs
<1>4. Kept(alone) \subseteq Past(since, "elsewhere")
  BY DEF ClockInv, Waits
<1>5. \A t \in Under : t \notin 0 .. (since - 1)
  BY <1>1 DEF Under
<1>6. Away(now, ClosedAlone) = Away(since, alone)
  BY <1>2, <1>3, <1>4, <1>5 DEF Away
<1>7. Waits(now, ClosedAlone, ran, served, calls)
  <2>1. Kept(ClosedAlone) \subseteq Past(now, "elsewhere")
    BY <1>2, <1>3, <1>4
  <2>2. ASSUME NEW t \in Kept(ClosedAlone) PROVE t \in served <=> Ran(ran, t)
    <3>1. CASE t \in Kept(alone)
      BY <3>1 DEF ClockInv, Waits
    <3>2. CASE t \in Under
      <4>1. t \notin served
        BY <1>5, <3>2 DEF ClockInv, Typed
      <4>2. ASSUME NEW s \in ran, Within(s, t) PROVE FALSE
        <5>1. s[2] \in Nat /\ s[2] <= since
          BY DEF ClockInv, Typed, Stretches
        <5> QED BY <1>1, <3>2, <4>2, <5>1 DEF Under, Within
      <4> QED BY <4>1, <4>2 DEF Ran
    <3> QED BY <1>3, <2>2, <3>1, <3>2
  <2> QED BY <1>6, <2>1, <2>2 DEF ClockInv, Waits
<1>8. ASSUME NEW set \in SUBSET (0 .. (since - 1)), NEW p
      PROVE  Cardinality(set \cup more(p)) = Cardinality(set) + longer(p)
  <2>1. CASE part = p
    <3>1. set \in SUBSET (0 .. now) /\ Under \in SUBSET (0 .. now)
      BY <1>1 DEF Under
    <3>2. set \cap Under = {}
      BY <1>5
    <3>3. Cardinality(Under) = now - since
      BY <1>1, CountBetween DEF Under
    <3>4. Cardinality(set \cup Under) = Cardinality(set) + Cardinality(Under)
      BY ZenonT(30), <1>1, <3>1, <3>2, CountOfTwo
    <3>5. more(p) = Under /\ longer(p) = now - since
      BY <2>1
    <3> QED BY <3>3, <3>4, <3>5
  <2>2. CASE part # p
    <3>1. Cardinality(set) \in Nat
      <4>1. set \in SUBSET (0 .. now)
        BY <1>1
      <4> QED BY <1>1, <4>1, CountIs
    <3> QED BY <2>2, <3>1
  <2> QED BY <2>1, <2>2
<1>9. part \in Parts /\ spent \in [MEASURED_TIME -> Int]
  BY HoldsIs DEF ClockInv, Typed
<1>10. /\ ClosedSpent \in [MEASURED_TIME -> Int]
       /\ \A p \in {"source", "held", "rateLimit", "queued"} : ClosedSpent[p] = spent[p] + longer(p)
       /\ ClosedSpent["working"] = spent["working"] + longer("working") + longer("elsewhere")
  <2>1. CASE part = "none"
    BY <1>9, <2>1 DEF ClosedSpent, MEASURED_TIME
  <2>2. CASE part # "none"
    <3>1. Given \in MEASURED_TIME
      BY <1>9, <2>2 DEF Given, Parts, MEASURED_TIME
    <3>2. ClosedSpent = [spent EXCEPT ![Given] = spent[Given] + (now - since)]
      BY <2>2 DEF ClosedSpent
    <3>3. ClosedSpent \in [MEASURED_TIME -> Int]
      BY <1>1, <1>9, <3>1, <3>2
    <3>4. \A p \in MEASURED_TIME : ClosedSpent[p] = IF p = Given THEN spent[p] + (now - since) ELSE spent[p]
      BY <1>9, <3>2
    <3>5. \A p \in MEASURED_TIME : spent[p] \in Int
      BY <1>9
    <3>6. \A p \in {"source", "held", "rateLimit", "queued"} : ClosedSpent[p] = spent[p] + longer(p)
      BY <3>4, <3>5 DEF Given, MEASURED_TIME
    <3>7. ClosedSpent["working"] = spent["working"] + longer("working") + longer("elsewhere")
      BY <1>1, <3>4, <3>5 DEF Given, MEASURED_TIME
    <3> QED BY <3>3, <3>6, <3>7
  <2> QED BY <2>1, <2>2
<1>11. \A p \in {"source", "held", "rateLimit"} : ClosedSpent[p] = Cardinality(Past(now, p))
  <2> TAKE p \in {"source", "held", "rateLimit"}
  <2>1. ClosedSpent[p] = spent[p] + longer(p) /\ spent[p] = Cardinality(Past(since, p))
    BY <1>10 DEF ClockInv, Accounts
  <2>2. Past(now, p) = Past(since, p) \cup more(p) /\ Past(since, p) \in SUBSET (0 .. (since - 1))
    BY <1>2
  <2> HIDE DEF more, longer
  <2> QED BY <1>8, <2>1, <2>2
<1> DEFINE queue == ToQueue(since, alone, served)
           work == ToWork(since, alone, served)
<1>12. queue \in SUBSET (0 .. (since - 1)) /\ work \in SUBSET (0 .. (since - 1))
  BY <1>2, <1>4 DEF ToQueue, ToWork, Away
<1>13. /\ ToQueue(now, ClosedAlone, served) = queue \cup more("queued")
       /\ ToWork(now, ClosedAlone, served) = (work \cup more("working")) \cup more("elsewhere")
  BY <1>2, <1>3, <1>6 DEF ToQueue, ToWork
<1> HIDE DEF queue, work
<1>14. ClosedSpent["queued"] = Cardinality(ToQueue(now, ClosedAlone, served))
  BY <1>8, <1>10, <1>12, <1>13 DEF ClockInv, Accounts, queue
<1>15. ClosedSpent["working"] = Cardinality(ToWork(now, ClosedAlone, served))
  <2>1. spent["working"] = Cardinality(work) /\ Cardinality(work) \in Int
    BY <1>9 DEF ClockInv, Accounts, work, MEASURED_TIME
  <2>2. CASE part = "working"
    <3>1. more("elsewhere") = {} /\ longer("elsewhere") = 0 /\ longer("working") \in Int
      BY <1>1, <2>2
    <3>2. Cardinality(work \cup more("working")) = Cardinality(work) + longer("working")
      BY <1>8, <1>12
    <3> HIDE DEF more, longer
    <3>3. ToWork(now, ClosedAlone, served) = work \cup more("working")
      BY <1>13, <3>1
    <3> QED BY <1>10, <2>1, <3>1, <3>2, <3>3
  <2>3. CASE part # "working"
    BY <1>1, <1>8, <1>10, <1>12, <1>13, <2>1, <2>3
  <2> QED BY <2>2, <2>3
<1> QED BY <1>6, <1>7, <1>10, <1>11, <1>14, <1>15 DEF Accounts

-----------------------------------------------------------------------------
(* No step of the clock's goes against it.                                     *)
LEMMA ClockInit == MaxNow \in Nat /\ Init => ClockInv
<1> SUFFICES ASSUME MaxNow \in Nat, Init PROVE ClockInv
  OBVIOUS
<1> USE DEF Init
<1>1. Typed
  <2>1. HoldsNow = "none"
    BY DEF HoldsNow
  <2>2. spent \in [MEASURED_TIME -> Int]
    BY DEF noTime
  <2>3. now \in 0 .. MaxNow /\ since \in 0 .. now
    OBVIOUS
  <2>4. ran \in SUBSET Stretches /\ served \in SUBSET (0 .. (since - 1)) /\ \A s \in ran : s[2] <= since
    OBVIOUS
  <2>5. moments \in Seq(Parts) /\ Len(moments) = now /\ calls \in Seq(Nat) /\ \A i \in DOMAIN calls : calls[i] <= now
    OBVIOUS
  <2> QED BY <2>1, <2>2, <2>3, <2>4, <2>5 DEF Typed
<1>2. InOrder(since, alone) /\ Kept(alone) = {}
  BY DEF InOrder, Kept
<1>3. \A p : Past(since, p) = {}
  BY DEF Past
<1>4. Away(since, alone) = {} /\ ToQueue(since, alone, served) = {} /\ ToWork(since, alone, served) = {}
  BY <1>2, <1>3 DEF Away, ToQueue, ToWork
<1>5. Waits(since, alone, ran, served, calls)
  BY <1>2, <1>3, <1>4 DEF Waits
<1>6. Accounts(since, spent, alone, served)
  <2>1. \A p \in MEASURED_TIME : spent[p] = 0
    BY DEF noTime
  <2>2. Cardinality({}) = 0
    BY FS_EmptySet
  <2> QED BY <1>3, <1>4, <2>1, <2>2 DEF Accounts, MEASURED_TIME
<1>7. \A t \in since .. (now - 1) : moments[t + 1] = part
  OBVIOUS
<1> QED BY <1>1, <1>2, <1>5, <1>6, <1>7 DEF ClockInv

\* What a change keeps where nothing came back: the time since may be closed.
LEMMA MovedKeeps ==
  ASSUME MaxNow \in Nat, ClockInv, Moved,
         UNCHANGED <<now, ran, served, moments>>, calls' = calls \/ calls' = Append(calls, now)
  PROVE  ClockInv'
<1>1. now \in Nat /\ since \in Nat /\ since <= now /\ calls \in Seq(Nat) /\ Len(calls) \in Nat
  BY DEF ClockInv, Typed
<1>2. /\ calls' \in Seq(Nat) /\ \A i \in DOMAIN calls' : calls'[i] <= now
      /\ \A i \in DOMAIN calls' : (i \in DOMAIN calls /\ calls'[i] = calls[i]) \/ calls'[i] = now
      /\ calls' = <<>> => calls = <<>>
  <2>1. CASE calls' = calls
    BY <2>1 DEF ClockInv, Typed
  <2>2. CASE calls' = Append(calls, now)
    <3>1. /\ DOMAIN calls' = 1 .. (Len(calls) + 1) /\ calls'[Len(calls) + 1] = now
          /\ \A i \in 1 .. Len(calls) : calls'[i] = calls[i]
          /\ calls' \in Seq(Nat) /\ calls' # <<>> /\ DOMAIN calls = 1 .. Len(calls)
      BY <1>1, <2>2
    <3>2. \A i \in DOMAIN calls' : i \in 1 .. Len(calls) \/ i = Len(calls) + 1
      BY <1>1, <3>1
    <3>3. \A i \in DOMAIN calls : calls[i] <= now
      BY DEF ClockInv, Typed
    <3> QED BY <1>1, <3>1, <3>2, <3>3
  <2> QED BY <2>1, <2>2
<1>3. ASSUME NEW n \in Nat, n <= now, NEW stretches, Waits(n, stretches, ran, served, calls)
      PROVE  Waits(n, stretches, ran, served, calls')
  <2>1. \A t \in Away(n, stretches) : t \in Int /\ t < now
    BY <1>1, <1>3 DEF Away, Past
  <2> QED BY <1>2, <1>3, <2>1 DEF Waits
<1>4. CASE HoldsNow' = part
  <2>1. UNCHANGED <<part, since, spent, alone>>
    BY <1>4 DEF Moved
  <2>2. Typed'
    BY <1>2, <1>4, <2>1 DEF ClockInv, Typed
  <2>3. Waits(since, alone, ran, served, calls')
    BY <1>1, <1>3 DEF ClockInv
  <2>4. Waits(since, alone, ran, served, calls)'
    BY <2>1, <2>3 DEF Waits, Away, Past, Kept
  <2>5. Accounts(since, spent, alone, served)'
    BY <2>1 DEF ClockInv, Accounts, ToQueue, ToWork, Away, Past, Kept
  <2>6. InOrder(since, alone)' /\ (\A t \in since .. (now - 1) : moments[t + 1] = part)'
    BY <2>1 DEF ClockInv, InOrder
  <2>7. (calls = <<>> => alone = <<>>)'
    BY <1>2, <2>1 DEF ClockInv
  <2> QED BY <2>2, <2>4, <2>5, <2>6, <2>7 DEF ClockInv
<1>5. CASE HoldsNow' # part
  <2>1. part' = HoldsNow' /\ since' = now /\ spent' = ClosedSpent /\ alone' = ClosedAlone
    BY <1>5 DEF Moved
  <2>2. /\ InOrder(now, ClosedAlone) /\ ClosedSpent \in [MEASURED_TIME -> Int]
        /\ Waits(now, ClosedAlone, ran, served, calls) /\ Accounts(now, ClosedSpent, ClosedAlone, served)
    BY ClosedAloneIs, CloseGives
  <2>3. Typed'
    <3>1. now' \in 0 .. MaxNow /\ since' \in 0 .. now' /\ moments' \in Seq(Parts) /\ Len(moments') = now'
      BY <1>1, <2>1 DEF ClockInv, Typed
    <3>2. served' \in SUBSET (0 .. (since' - 1)) /\ ran' \in SUBSET Stretches
      BY <1>1, <2>1 DEF ClockInv, Typed
    <3>3. \A s \in ran' : s[2] <= since'
      BY <1>1, <2>1 DEF ClockInv, Typed, Stretches
    <3> QED BY <1>2, <2>1, <2>2, <3>1, <3>2, <3>3 DEF Typed
  <2>4. Waits(now, ClosedAlone, ran, served, calls')
    BY <1>1, <1>3, <2>2
  <2>5. Waits(since, alone, ran, served, calls)'
    BY <2>1, <2>4 DEF Waits, Away, Past, Kept
  <2>6. Accounts(since, spent, alone, served)'
    BY <2>1, <2>2 DEF Accounts, ToQueue, ToWork, Away, Past, Kept
  <2>7. InOrder(since, alone)'
    BY <2>1, <2>2 DEF InOrder
  <2>8. (\A t \in since .. (now - 1) : moments[t + 1] = part)'
    BY <1>1, <2>1
  <2>9. (calls = <<>> => alone = <<>>)'
    <3> SUFFICES ASSUME calls' = <<>> PROVE ClosedAlone = <<>>
      BY <2>1
    <3>1. calls = <<>> /\ part # "elsewhere"
      BY <1>1, <1>2, HoldsIs DEF ClockInv, Typed
    <3> QED BY <3>1 DEF ClockInv, ClosedAlone
  <2> QED BY <2>3, <2>5, <2>6, <2>7, <2>8, <2>9 DEF ClockInv
<1> QED BY <1>4, <1>5

\* A moment passes, and goes on what holds.
LEMMA TickKeeps == MaxNow \in Nat /\ ClockInv /\ Tick => ClockInv'
<1> SUFFICES ASSUME MaxNow \in Nat, ClockInv, Tick PROVE ClockInv'
  OBVIOUS
<1>1. /\ now \in Nat /\ since \in Nat /\ since <= now /\ now < MaxNow
      /\ moments \in Seq(Parts) /\ Len(moments) = now
  BY DEF ClockInv, Typed, Tick
<1>2. /\ now' = now + 1 /\ moments' = Append(moments, HoldsNow)
      /\ UNCHANGED <<turn, load, calls, alone, ran, cancelled, part, since, spent, served>>
  BY DEF Tick
<1>3. HoldsNow' = HoldsNow
  BY <1>2 DEF HoldsNow, load
<1>4. /\ moments' \in Seq(Parts) /\ Len(moments') = now + 1 /\ moments'[now + 1] = HoldsNow
      /\ \A i \in 1 .. now : moments'[i] = moments[i]
  BY <1>1, <1>2, HoldsIs
<1>5. \A t \in 0 .. (since - 1) : moments'[t + 1] = moments[t + 1]
  <2>1. \A t \in 0 .. (since - 1) : t + 1 \in 1 .. now
    BY <1>1
  <2> QED BY <1>4, <2>1
<1>6. Typed'
  <2>1. now' \in 0 .. MaxNow /\ since' \in 0 .. now' /\ part' = HoldsNow'
    BY <1>1, <1>2, <1>3 DEF ClockInv, Typed
  <2>2. calls' \in Seq(Nat) /\ \A i \in DOMAIN calls' : calls'[i] <= now'
    BY <1>1, <1>2 DEF ClockInv, Typed
  <2> QED BY <1>2, <1>4, <2>1, <2>2 DEF ClockInv, Typed
<1>7. Waits(since, alone, ran, served, calls)'
  BY <1>2, <1>5 DEF ClockInv, Waits, Away, Past, Kept
<1>8. Accounts(since, spent, alone, served)'
  <2>1. \A p : Past(since, p)' = Past(since, p)
    BY <1>2, <1>5 DEF Past
  <2>2. Kept(alone)' = Kept(alone) /\ Away(since, alone)' = Away(since, alone)
    BY <1>2, <2>1 DEF Away, Kept
  <2>3. /\ ToQueue(since, alone, served)' = ToQueue(since, alone, served)
        /\ ToWork(since, alone, served)' = ToWork(since, alone, served)
    BY <1>2, <2>1, <2>2 DEF ToQueue, ToWork
  <2> QED BY <1>2, <2>1, <2>3 DEF ClockInv, Accounts
<1>9. (\A t \in since .. (now - 1) : moments[t + 1] = part)'
  <2> SUFFICES ASSUME NEW t \in since .. now PROVE moments'[t + 1] = part
    BY <1>1, <1>2
  <2>1. CASE t = now
    BY <1>4, <2>1 DEF ClockInv, Typed
  <2>2. CASE t # now
    <3>1. t \in since .. (now - 1) /\ t + 1 \in 1 .. now
      BY <1>1, <2>2
    <3> QED BY <1>4, <3>1 DEF ClockInv
  <2> QED BY <2>1, <2>2
<1>10. InOrder(since, alone)' /\ (calls = <<>> => alone = <<>>)'
  BY <1>2 DEF ClockInv, InOrder
<1> QED BY <1>6, <1>7, <1>8, <1>9, <1>10 DEF ClockInv

\* The calls but one are some of the calls.
LEMMA OthersAre ==
  ASSUME NEW all \in Seq(Nat), NEW i \in 1 .. Len(all)
  PROVE  LET still == SubSeq(all, 1, i - 1) \o SubSeq(all, i + 1, Len(all))
         IN  still \in Seq(Nat) /\ \A j \in DOMAIN still : \E k \in DOMAIN all : still[j] = all[k]
<1> DEFINE head == SubSeq(all, 1, i - 1)
           tail == SubSeq(all, i + 1, Len(all))
           still == head \o tail
<1>1. Len(all) \in Nat /\ DOMAIN all = 1 .. Len(all)
  OBVIOUS
<1>2. /\ head \in Seq(Nat) /\ Len(head) = i - 1
      /\ \A j \in 1 .. (i - 1) : head[j] \in {all[k] : k \in DOMAIN all}
  <2>1. 1 \in Int /\ i - 1 \in Int /\ \A j \in 1 .. (i - 1) : all[j] \in Nat
    BY <1>1
  <2>2. /\ head \in Seq(Nat) /\ Len(head) = IF 1 <= i - 1 THEN (i - 1) - 1 + 1 ELSE 0
        /\ \A j \in 1 .. ((i - 1) - 1 + 1) : head[j] = all[1 + j - 1]
    BY <2>1, SubSeqProperties
  <2> HIDE DEF head
  <2>3. ASSUME NEW j \in 1 .. (i - 1) PROVE head[j] \in {all[k] : k \in DOMAIN all}
    <3>1. j \in 1 .. ((i - 1) - 1 + 1) /\ 1 + j - 1 \in DOMAIN all
      BY <1>1
    <3> QED BY <2>2, <3>1
  <2> QED BY <2>2, <2>3
<1>3. /\ tail \in Seq(Nat) /\ Len(tail) = Len(all) - i
      /\ \A j \in 1 .. (Len(all) - i) : tail[j] \in {all[k] : k \in DOMAIN all}
  <2>1. i + 1 \in Int /\ Len(all) \in Int /\ \A j \in (i + 1) .. Len(all) : all[j] \in Nat
    BY <1>1
  <2>2. /\ tail \in Seq(Nat) /\ Len(tail) = IF i + 1 <= Len(all) THEN Len(all) - (i + 1) + 1 ELSE 0
        /\ \A j \in 1 .. (Len(all) - (i + 1) + 1) : tail[j] = all[(i + 1) + j - 1]
    BY <2>1, SubSeqProperties
  <2> HIDE DEF tail
  <2>3. ASSUME NEW j \in 1 .. (Len(all) - i) PROVE tail[j] \in {all[k] : k \in DOMAIN all}
    <3>1. j \in 1 .. (Len(all) - (i + 1) + 1) /\ (i + 1) + j - 1 \in DOMAIN all
      BY <1>1
    <3>2. tail[j] = all[(i + 1) + j - 1]
      BY <2>2, <3>1
    <3> QED BY <3>1, <3>2
  <2>4. Len(tail) = Len(all) - i
    <3> DEFINE size == Len(tail)
               whole == Len(all)
    <3>1. size = (IF i + 1 <= whole THEN whole - (i + 1) + 1 ELSE 0) /\ whole \in Nat /\ i \in 1 .. whole
      BY <1>1, <2>2
    <3> HIDE DEF size, whole
    <3>2. size = whole - i
      BY <3>1
    <3> QED BY <3>2 DEF size, whole
  <2> QED BY <2>2, <2>3, <2>4
<1> HIDE DEF head, tail
<1>4. /\ still \in Seq(Nat) /\ Len(still) = Len(head) + Len(tail)
      /\ \A j \in 1 .. (Len(head) + Len(tail)) :
           still[j] = IF j <= Len(head) THEN head[j] ELSE tail[j - Len(head)]
  BY <1>2, <1>3, ConcatProperties
<1> HIDE DEF still
<1>5. ASSUME NEW j \in DOMAIN still PROVE still[j] \in {all[k] : k \in DOMAIN all}
  <2>1. j \in 1 .. ((i - 1) + (Len(all) - i))
    <3>1. DOMAIN still = 1 .. Len(still)
      BY <1>4
    <3> QED BY <1>2, <1>3, <1>4, <3>1
  <2>2. CASE j <= i - 1
    <3>1. j \in 1 .. (i - 1)
      BY <2>1, <2>2
    <3>2. still[j] = head[j]
      BY <1>2, <1>3, <1>4, <2>1, <2>2
    <3> QED BY <1>2, <3>1, <3>2
  <2>3. CASE ~(j <= i - 1)
    <3>1. j - (i - 1) \in 1 .. (Len(all) - i)
      BY <1>1, <2>1, <2>3
    <3>2. still[j] = tail[j - (i - 1)]
      BY <1>2, <1>3, <1>4, <2>1, <2>3
    <3> QED BY <1>3, <3>1, <3>2
  <2> QED BY <2>2, <2>3
<1> QED BY <1>4, <1>5 DEF still, head, tail

\* A call back: the moments it was worked on are the work's, and what is settled
\* of the others has waited for a slot.
LEMMA BackKeeps ==
  ASSUME MaxNow \in Nat, ClockInv, NEW i \in DOMAIN calls, NEW wait \in 0 .. MaxNow, Back(i, wait)
  PROVE  ClockInv'
<1> DEFINE from == calls[i] + wait
           still == SubSeq(calls, 1, i - 1) \o SubSeq(calls, i + 1, Len(calls))
           runs == IF from < now THEN ran \cup {<<from, now>>} ELSE ran
           settled == Settled(ClosedAlone, runs, still)
           worked == served \cup (from .. (now - 1))
<1>1. /\ now \in 0 .. MaxNow /\ since \in Nat /\ since <= now /\ calls \in Seq(Nat) /\ Len(calls) \in Nat
      /\ i \in 1 .. Len(calls) /\ DOMAIN calls = 1 .. Len(calls) /\ calls[i] \in Nat /\ calls[i] <= now
  <2>1. Typed
    BY DEF ClockInv
  <2>2. now \in 0 .. MaxNow /\ since \in 0 .. now /\ calls \in Seq(Nat) /\ \A k \in DOMAIN calls : calls[k] <= now
    BY <2>1 DEF Typed
  <2>3. Len(calls) \in Nat /\ DOMAIN calls = 1 .. Len(calls) /\ \A k \in DOMAIN calls : calls[k] \in Nat
    BY <2>2
  <2>4. i \in 1 .. Len(calls) /\ calls[i] \in Nat /\ calls[i] <= now
    BY <2>2, <2>3
  <2>5. since \in Nat /\ since <= now
    BY <2>2
  <2> QED BY <2>2, <2>3, <2>4, <2>5
<1>2. from \in Nat /\ from <= now /\ calls[i] <= from
  <2>1. from <= now
    BY Zenon DEF Back
  <2>2. wait \in Nat
    OBVIOUS
  <2>3. from \in Nat /\ calls[i] <= from
    BY <1>1, <2>2
  <2> QED BY <2>1, <2>3
<1>3. /\ calls' = still /\ ran' = settled.ran /\ alone' = settled.alone
      /\ since' = now /\ served' = worked /\ part' = HoldsNow'
      /\ spent' = [ClosedSpent EXCEPT !["working"] = @ - settled.waited, !["queued"] = @ + settled.waited]
      /\ UNCHANGED <<now, moments>>
  BY DEF Back
<1>4. still \in Seq(Nat) /\ \A j \in DOMAIN still : \E k \in DOMAIN calls : still[j] = calls[k]
  BY <1>1, OthersAre
<1> HIDE DEF from, still
<1>5. \A j \in DOMAIN still : still[j] \in Nat /\ still[j] <= now
  BY <1>1, <1>4 DEF ClockInv, Typed
<1>6. runs \in SUBSET Stretches /\ \A s \in runs : s[2] <= now
  <2>1. <<from, now>> \in Stretches
    BY <1>1, <1>2 DEF Stretches
  <2>2. ran \in SUBSET Stretches /\ \A s \in ran : s[2] <= since
    BY DEF ClockInv, Typed
  <2>3. ASSUME NEW s \in ran PROVE s \in Stretches /\ s[2] <= now
    <3>1. s \in Stretches /\ s[2] <= since
      BY <2>2
    <3>2. s[2] \in Nat
      BY <3>1 DEF Stretches
    <3> QED BY <1>1, <3>1, <3>2
  <2>4. \A s \in runs : s \in ran \/ s = <<from, now>>
    OBVIOUS
  <2>5. now <= now /\ <<from, now>>[2] = now
    BY <1>1
  <2> HIDE DEF runs
  <2> QED BY <2>1, <2>3, <2>4, <2>5
<1>7. \A t \in Int : Ran(runs, t) <=> Ran(ran, t) \/ t \in from .. (now - 1)
  <2> TAKE t \in Int
  <2>1. Within(<<from, now>>, t) <=> t \in from .. (now - 1)
    BY <1>1, <1>2 DEF Within
  <2>2. CASE from < now
    <3>1. runs = ran \cup {<<from, now>>}
      BY <2>2
    <3> HIDE DEF runs
    <3>2. Ran(runs, t) <=> Ran(ran, t) \/ Within(<<from, now>>, t)
      BY <3>1 DEF Ran
    <3> QED BY <2>1, <3>2
  <2>3. CASE ~(from < now)
    <3>1. runs = ran
      BY <2>3
    <3>2. ~(t \in from .. (now - 1))
      BY <1>1, <1>2, <2>3
    <3> QED BY <3>1, <3>2
  <2> QED BY <2>2, <2>3
<1> HIDE DEF runs
<1>8. /\ InOrder(now, ClosedAlone) /\ Kept(ClosedAlone) \subseteq 0 .. MaxNow
      /\ ClosedSpent \in [MEASURED_TIME -> Int]
      /\ Waits(now, ClosedAlone, ran, served, calls) /\ Accounts(now, ClosedSpent, ClosedAlone, served)
  BY ClosedAloneIs, CloseGives DEF Kept
<1> HIDE DEF settled
<1>9. PICK upTo \in Nat : SettlesUpTo(upTo, settled, now, ClosedAlone, runs, still)
  BY <1>1, <1>4, <1>6, <1>8, SettledIs DEF settled
<1> DEFINE old == Waited(upTo, Kept(ClosedAlone), runs)
<1>10. \A t \in Past(now, "elsewhere") : t \in Int /\ 0 <= t /\ t < now
  BY <1>1 DEF Past
<1>11. /\ Kept(ClosedAlone) \subseteq Past(now, "elsewhere")
       /\ \A t \in Kept(ClosedAlone) : t \in worked <=> Ran(runs, t)
  BY <1>7, <1>8, <1>10 DEF Waits
<1>12. \A t \in Away(now, ClosedAlone) : t \in worked <=> t \in served
  <2> SUFFICES ASSUME NEW t \in Away(now, ClosedAlone) PROVE t \notin from .. (now - 1)
    OBVIOUS
  <2>1. t < calls[i] /\ t \in Int
    BY <1>8, <1>10 DEF Waits, Away
  <2> QED BY <1>1, <1>2, <2>1
<1>13. Away(now, settled.alone) = Away(now, ClosedAlone) \cup {t \in Kept(ClosedAlone) : t < upTo}
  BY <1>9, <1>10, <1>11 DEF Away, SettlesUpTo
<1>14. Waits(now, settled.alone, settled.ran, worked, still)
  <2>1. Kept(settled.alone) \subseteq Past(now, "elsewhere")
    BY <1>9, <1>11 DEF SettlesUpTo
  <2>2. ASSUME NEW t \in Kept(settled.alone) PROVE t \in worked <=> Ran(settled.ran, t)
    <3>1. t \in Kept(ClosedAlone) /\ t >= upTo /\ t \in Int
      BY <1>9, <1>10, <1>11, <2>2 DEF SettlesUpTo
    <3>2. Ran(settled.ran, t) <=> Ran(runs, t)
      BY <1>6, <1>9, <3>1 DEF Ran, Within, Stretches, SettlesUpTo
    <3> QED BY <1>11, <3>1, <3>2
  <2>3. ASSUME NEW t \in Away(now, settled.alone), NEW j \in DOMAIN still PROVE t < still[j]
    <3>1. CASE t \in Away(now, ClosedAlone)
      BY <1>4, <1>8, <3>1 DEF Waits
    <3>2. CASE t \in Kept(ClosedAlone) /\ t < upTo
      BY <1>5, <1>9, <1>10, <1>11, <3>2 DEF SettlesUpTo
    <3> QED BY <1>13, <2>3, <3>1, <3>2
  <2> QED BY <2>1, <2>2, <2>3 DEF Waits
<1>15. Accounts(now, spent', settled.alone, worked)
  <2> DEFINE queue == ToQueue(now, ClosedAlone, served)
             work == ToWork(now, ClosedAlone, served)
             toQueue == ToQueue(now, settled.alone, worked)
             toWork == ToWork(now, settled.alone, worked)
  <2>1. \A p, q : p # q => Past(now, p) \cap Past(now, q) = {}
    BY DEF Past
  <2>2. \A t \in old : t \in Kept(ClosedAlone) /\ t < upTo /\ t \notin worked
    BY <1>11 DEF Waited
  <2>3. \A t \in Kept(ClosedAlone) : t < upTo /\ t \notin worked => t \in old
    BY <1>11 DEF Waited
  <2>4. toQueue = queue \cup old
    BY <1>12, <1>13, <2>2, <2>3 DEF ToQueue
  <2>5. queue \cap old = {}
    <3>1. Past(now, "queued") \cap Past(now, "elsewhere") = {}
      BY <2>1
    <3> QED BY <1>11, <2>2, <3>1 DEF ToQueue, Away
  <2>6. work = toWork \cup old
    <3>1. \A t \in Kept(ClosedAlone) : t < upTo \/ t \in Kept(settled.alone)
      BY <1>9, <1>10, <1>11 DEF SettlesUpTo
    <3>2. \A t \in Kept(settled.alone) : t \in Kept(ClosedAlone)
      BY <1>9 DEF SettlesUpTo
    <3> QED BY <1>12, <1>13, <2>2, <2>3, <3>1, <3>2 DEF ToWork
  <2>7. toWork \cap old = {}
    <3>1. Past(now, "working") \cap Past(now, "elsewhere") = {}
      BY <2>1
    <3>2. old \cap Kept(settled.alone) = {}
      BY <1>9, <1>10, <1>11, <2>2 DEF SettlesUpTo
    <3> QED BY <1>11, <2>2, <3>1, <3>2 DEF ToWork
  <2>8. /\ queue \in SUBSET (0 .. MaxNow) /\ work \in SUBSET (0 .. MaxNow)
        /\ toWork \in SUBSET (0 .. MaxNow) /\ old \in SUBSET (0 .. MaxNow)
    <3>1. \A p : Past(now, p) \in SUBSET (0 .. MaxNow)
      BY <1>1 DEF Past
    <3>2. queue \in SUBSET (0 .. MaxNow) /\ work \in SUBSET (0 .. MaxNow)
      BY <1>8, <3>1 DEF ToQueue, ToWork, Away
    <3>3. toWork \in SUBSET (0 .. MaxNow) /\ old \in SUBSET (0 .. MaxNow)
      BY <2>6, <3>2
    <3> QED BY <3>2, <3>3
  <2>9. ClosedSpent["queued"] = Cardinality(queue) /\ ClosedSpent["working"] = Cardinality(work)
    BY <1>8 DEF Accounts
  <2> HIDE DEF queue, work, toQueue, toWork, old
  <2>10. Cardinality(toQueue) = Cardinality(queue) + Cardinality(old)
    BY <2>4, <2>5, <2>8, CountOfTwo
  <2>11. Cardinality(work) = Cardinality(toWork) + Cardinality(old)
    BY <2>6, <2>7, <2>8, CountOfTwo
  <2>12. Cardinality(toWork) \in Nat /\ Cardinality(old) \in Nat
    BY <2>8, CountIs
  <2>13. /\ spent'["working"] = ClosedSpent["working"] - settled.waited
         /\ spent'["queued"] = ClosedSpent["queued"] + settled.waited
         /\ \A p \in {"source", "held", "rateLimit"} : spent'[p] = ClosedSpent[p]
    BY <1>3, <1>8 DEF MEASURED_TIME
  <2>14. spent'["queued"] = Cardinality(toQueue) /\ spent'["working"] = Cardinality(toWork)
    <3>1. settled.waited = Cardinality(old)
      BY <1>9 DEF SettlesUpTo, old
    <3> QED BY <2>9, <2>10, <2>11, <2>12, <2>13, <3>1
  <2> QED BY <1>8, <2>13, <2>14 DEF Accounts, toQueue, toWork
<1>16. still = <<>> => settled.alone = <<>>
  <2> SUFFICES ASSUME still = <<>>, settled.alone # <<>> PROVE FALSE
    OBVIOUS
  <2>1. settled.alone \in Seq(Stretches) /\ 1 \in DOMAIN settled.alone
    BY <1>9 DEF InOrder, SettlesUpTo
  <2> DEFINE first == settled.alone[1]
  <2>2. first[1] \in Nat /\ first[1] < first[2] /\ first[2] \in Nat /\ first[2] <= now
    <3>1. InOrder(now, settled.alone)
      BY <1>9 DEF SettlesUpTo
    <3>2. first \in Stretches
      BY <2>1
    <3>3. first[1] < first[2] /\ first[2] <= now
      BY <2>1, <3>1 DEF InOrder
    <3> HIDE DEF first
    <3> QED BY <3>2, <3>3 DEF Stretches
  <2>3. settled.alone[1][1] \in Kept(settled.alone)
    <3> HIDE DEF first
    <3>1. first[1] \in 0 .. MaxNow /\ Within(first, first[1])
      BY <1>1, <2>2 DEF Within
    <3> QED BY <2>1, <3>1 DEF Kept, first
  <2>4. settled.alone[1][1] >= MaxNow + 1
    BY <1>9, <2>3 DEF SettlesUpTo
  <2> QED BY <1>1, <2>2, <2>4
<1>17. Typed'
  <2>1. now' \in 0 .. MaxNow /\ since' \in 0 .. now' /\ moments' \in Seq(Parts) /\ Len(moments') = now'
    BY <1>1, <1>3 DEF ClockInv, Typed
  <2>2. served' \in SUBSET (0 .. (since' - 1))
    BY <1>1, <1>2, <1>3 DEF ClockInv, Typed
  <2>3. ran' \in SUBSET Stretches /\ \A s \in ran' : s[2] <= since'
    BY <1>3, <1>6, <1>9 DEF SettlesUpTo
  <2>4. settled.waited \in Nat
    <3>1. old \in SUBSET (0 .. MaxNow)
      BY <1>8 DEF Waited
    <3>2. settled.waited = Cardinality(old)
      BY <1>9 DEF SettlesUpTo
    <3> HIDE DEF old
    <3> QED BY <3>1, <3>2, CountIs
  <2>5. spent' \in [MEASURED_TIME -> Int]
    BY <1>3, <1>8, <2>4 DEF MEASURED_TIME
  <2>6. calls' \in Seq(Nat) /\ \A j \in DOMAIN calls' : calls'[j] <= now'
    BY <1>3, <1>4, <1>5
  <2> QED BY <1>3, <2>1, <2>2, <2>3, <2>5, <2>6 DEF Typed
<1>18. Waits(since, alone, ran, served, calls)'
  BY <1>3, <1>14 DEF Waits, Away, Past, Kept
<1>19. Accounts(since, spent, alone, served)'
  BY <1>3, <1>15 DEF Accounts, ToQueue, ToWork, Away, Past, Kept
<1>20. InOrder(since, alone)' /\ (calls = <<>> => alone = <<>>)'
  BY <1>3, <1>9, <1>16 DEF InOrder, SettlesUpTo
<1>21. (\A t \in since .. (now - 1) : moments[t + 1] = part)'
  BY <1>1, <1>3
<1> QED BY <1>17, <1>18, <1>19, <1>20, <1>21 DEF ClockInv

LEMMA ClockNext == MaxNow \in Nat /\ ClockInv /\ [Next]_vars => ClockInv'
<1> SUFFICES ASSUME MaxNow \in Nat, ClockInv, [Next]_vars PROVE ClockInv'
  OBVIOUS
<1>1. CASE Tick
  BY <1>1, TickKeeps
<1>2. ASSUME Turn \/ Ask \/ AskSettled \/ Sent \/ Answered \/ Held \/ RateLimited
             \/ Reading \/ Queued \/ Started \/ Finished \/ Elsewhere \/ Cancelled
      PROVE  ClockInv'
  <2>1. /\ Moved /\ UNCHANGED <<now, ran, served, moments>>
        /\ calls' = calls \/ calls' = Append(calls, now)
    BY <1>2 DEF Turn, Ask, AskSettled, Sent, Answered, Held, RateLimited, Reading, Queued, Started,
                Finished, Elsewhere, Cancelled, load, history
  <2> QED BY <2>1, MovedKeeps
<1>3. CASE Comes
  BY <1>3, BackKeeps DEF Comes
<1>4. CASE UNCHANGED vars
  <2>1. UNCHANGED <<now, turn, asked, waiting, out, held, rateLimited, reading, working, queued, calls,
                    alone, ran, part, since, spent, moments, served>>
    BY <1>4 DEF vars, load
  <2>2. HoldsNow' = HoldsNow
    BY <2>1 DEF HoldsNow
  <2>3. Typed'
    BY <2>1, <2>2 DEF ClockInv, Typed
  <2> QED BY <2>1, <2>3 DEF ClockInv, InOrder, Waits, Accounts, ToQueue, ToWork, Away, Past, Kept
<1> QED BY <1>1, <1>2, <1>3, <1>4 DEF Next, Moves

\* What is given is every moment, once.
LEMMA GivenOnce == MaxNow \in Nat /\ ClockInv => TimeIsGivenOnce
<1> SUFFICES ASSUME MaxNow \in Nat, ClockInv PROVE TimeIsGivenOnce
  OBVIOUS
<1> DEFINE elsewhere == Past(now, "elsewhere")
           kept == Kept(ClosedAlone)
           away == Away(now, ClosedAlone)
           n(p) == Cardinality(Past(now, p))
<1>1. now \in Nat /\ now <= MaxNow /\ moments \in Seq(Parts) /\ Len(moments) = now
  BY DEF ClockInv, Typed
<1>2. /\ ClosedSpent \in [MEASURED_TIME -> Int]
      /\ Waits(now, ClosedAlone, ran, served, calls) /\ Accounts(now, ClosedSpent, ClosedAlone, served)
  BY CloseGives
<1>3. \A p : Moments(p) = Past(now, p) /\ Past(now, p) \in SUBSET (0 .. now)
  BY <1>1 DEF Moments, Past
<1>4. \A p, q : p # q => Past(now, p) \cap Past(now, q) = {}
  BY DEF Past
<1>5. kept \cup away = elsewhere /\ kept \cap away = {}
  BY <1>2 DEF Away, Waits
<1>6. \A p : n(p) \in Nat
  BY <1>1, <1>3, CountIs
<1> HIDE DEF kept, away
<1>7. /\ kept \in SUBSET (0 .. now) /\ away \in SUBSET (0 .. now)
      /\ \A p : p # "elsewhere" => Past(now, p) \cap kept = {} /\ Past(now, p) \cap away = {}
  BY <1>3, <1>4, <1>5
<1>8. ClosedSpent["queued"] = n("queued") + Cardinality(away \ served)
  <2>1. ClosedSpent["queued"] = Cardinality(Past(now, "queued") \cup (away \ served))
    BY <1>2 DEF Accounts, ToQueue, away
  <2>2. Past(now, "queued") \in SUBSET (0 .. now) /\ (away \ served) \in SUBSET (0 .. now)
    BY <1>3, <1>7
  <2>3. Past(now, "queued") \cap (away \ served) = {}
    BY <1>7
  <2> DEFINE one == Past(now, "queued")
             other == away \ served
  <2>4. one \in SUBSET (0 .. now) /\ other \in SUBSET (0 .. now) /\ one \cap other = {}
    BY <2>2, <2>3
  <2> HIDE DEF one, other
  <2>5. Cardinality(one \cup other) = Cardinality(one) + Cardinality(other)
    BY ZenonT(30), <1>1, <2>4, CountOfTwo
  <2> QED BY <2>1, <2>5 DEF one, other
<1>9. ClosedSpent["working"] = n("working") + Cardinality(kept) + Cardinality(away \cap served)
  <2> DEFINE one == Past(now, "working")
  <2>1. ClosedSpent["working"] = Cardinality((one \cup kept) \cup (away \cap served))
    BY <1>2 DEF Accounts, ToWork, away, kept
  <2>2. /\ one \in SUBSET (0 .. now) /\ (one \cup kept) \in SUBSET (0 .. now)
        /\ (away \cap served) \in SUBSET (0 .. now)
    BY <1>3, <1>7
  <2>3. one \cap kept = {} /\ (one \cup kept) \cap (away \cap served) = {}
    BY <1>5, <1>7
  <2> HIDE DEF one
  <2>4. Cardinality((one \cup kept) \cup (away \cap served)) = Cardinality(one \cup kept) + Cardinality(away \cap served)
    <3> DEFINE both == one \cup kept
               ran1 == away \cap served
    <3>1. both \in SUBSET (0 .. now) /\ ran1 \in SUBSET (0 .. now) /\ both \cap ran1 = {}
      BY <2>2, <2>3
    <3> HIDE DEF both, ran1
    <3>2. Cardinality(both \cup ran1) = Cardinality(both) + Cardinality(ran1)
      BY ZenonT(30), <1>1, <3>1, CountOfTwo
    <3> QED BY <3>2 DEF both, ran1
  <2>5. Cardinality(one \cup kept) = Cardinality(one) + Cardinality(kept)
    BY ZenonT(30), <1>1, <1>7, <2>2, <2>3, CountOfTwo
  <2> QED BY <2>1, <2>4, <2>5 DEF one
<1>10. n("elsewhere") = Cardinality(kept) + Cardinality(away \ served) + Cardinality(away \cap served)
  <2>1. n("elsewhere") = Cardinality(kept) + Cardinality(away)
    <3>1. Cardinality(kept \cup away) = Cardinality(kept) + Cardinality(away)
      <4>1. kept \cap away = {} /\ kept \in SUBSET (0 .. now) /\ away \in SUBSET (0 .. now)
        BY <1>5, <1>7
      <4> QED BY ZenonT(30), <1>1, <4>1, CountOfTwo
    <3> QED BY <1>5, <3>1
  <2>2. Cardinality(away) = Cardinality(away \ served) + Cardinality(away \cap served)
    <3> DEFINE not == away \ served
               did == away \cap served
    <3>1. away = not \cup did /\ not \cap did = {}
      OBVIOUS
    <3>2. not \in SUBSET (0 .. now) /\ did \in SUBSET (0 .. now)
      BY <1>7
    <3> HIDE DEF not, did
    <3>3. Cardinality(not \cup did) = Cardinality(not) + Cardinality(did)
      BY ZenonT(30), <1>1, <3>1, <3>2, CountOfTwo
    <3> QED BY <3>1, <3>3 DEF not, did
  <2>3. Cardinality(kept) \in Nat /\ Cardinality(away \ served) \in Nat /\ Cardinality(away \cap served) \in Nat
    <3>1. (away \ served) \in SUBSET (0 .. now) /\ (away \cap served) \in SUBSET (0 .. now)
      BY <1>7
    <3> QED BY <1>1, <1>7, <3>1, CountIs
  <2> QED BY <2>1, <2>2, <2>3
<1>11. /\ Cardinality(kept) \in Nat /\ Cardinality(away \ served) \in Nat
       /\ Cardinality(away \cap served) \in Nat
  <2>1. (away \ served) \in SUBSET (0 .. now) /\ (away \cap served) \in SUBSET (0 .. now)
    BY <1>7
  <2> QED BY <1>1, <1>7, <2>1, CountIs
<1>12. \A p \in {"source", "held", "rateLimit"} : ClosedSpent[p] = n(p)
  BY <1>2 DEF Accounts
<1>13. ClosedSpent["working"] + ClosedSpent["queued"] = n("working") + n("queued") + n("elsewhere")
  BY <1>6, <1>8, <1>9, <1>10, <1>11
<1>14. ASSUME calls = <<>>
       PROVE  ClosedSpent["working"] = n("working") + Cardinality(elsewhere \cap served)
  <2>1. ClosedAlone = <<>>
    <3>1. part # "elsewhere"
      BY <1>14, HoldsIs DEF ClockInv, Typed
    <3> QED BY <1>14, <3>1 DEF ClockInv, ClosedAlone
  <2>2. kept = {} /\ away = elsewhere
    <3>1. kept = {}
      BY <2>1 DEF Kept, kept
    <3> QED BY <1>5, <3>1
  <2>3. Cardinality(kept) = 0
    BY <2>2, FS_EmptySet
  <2> QED BY <1>6, <1>9, <1>11, <2>2, <2>3
<1>15. now = n("source") + n("held") + n("rateLimit") + n("working") + n("queued") + n("elsewhere") + n("none")
  <2> DEFINE a1 == Past(now, "source")
             a2 == Past(now, "held")
             a3 == Past(now, "rateLimit")
             a4 == Past(now, "working")
             a5 == Past(now, "queued")
             a6 == Past(now, "elsewhere")
             a7 == Past(now, "none")
             s2 == a1 \cup a2
             s3 == s2 \cup a3
             s4 == s3 \cup a4
             s5 == s4 \cup a5
             s6 == s5 \cup a6
  <2>1. /\ a1 \in SUBSET (0 .. now) /\ a2 \in SUBSET (0 .. now) /\ a3 \in SUBSET (0 .. now)
        /\ a4 \in SUBSET (0 .. now) /\ a5 \in SUBSET (0 .. now) /\ a6 \in SUBSET (0 .. now)
        /\ a7 \in SUBSET (0 .. now)
    BY <1>3
  <2>2. s6 \cup a7 = 0 .. (now - 1)
    <3>1. \A t \in 0 .. (now - 1) : moments[t + 1] \in Parts
      BY <1>1
    <3>2. \A t \in 0 .. (now - 1) : t \in s6 \cup a7
      BY <3>1 DEF Parts, MEASURED_TIME, Past
    <3>3. \A p : Past(now, p) \subseteq 0 .. (now - 1)
      BY DEF Past
    <3>4. s6 \cup a7 \subseteq 0 .. (now - 1)
      BY <3>3
    <3> HIDE DEF s6, a7
    <3> QED BY <3>2, <3>4
  <2>3. /\ a1 \cap a2 = {}
        /\ s2 \cap a3 = {}
        /\ s3 \cap a4 = {}
        /\ s4 \cap a5 = {}
        /\ s5 \cap a6 = {}
        /\ s6 \cap a7 = {}
    BY DEF Past
  <2> HIDE DEF a1, a2, a3, a4, a5, a6, a7
  <2>4. /\ s2 \in SUBSET (0 .. now) /\ s3 \in SUBSET (0 .. now) /\ s4 \in SUBSET (0 .. now)
        /\ s5 \in SUBSET (0 .. now) /\ s6 \in SUBSET (0 .. now)
    BY <2>1
  <2>5. s2 = a1 \cup a2 /\ s3 = s2 \cup a3 /\ s4 = s3 \cup a4 /\ s5 = s4 \cup a5 /\ s6 = s5 \cup a6
    OBVIOUS
  <2> HIDE DEF s2, s3, s4, s5, s6
  <2>6. /\ Cardinality(a1 \cup a2) = Cardinality(a1) + Cardinality(a2)
        /\ Cardinality(s2 \cup a3) = Cardinality(s2) + Cardinality(a3)
        /\ Cardinality(s3 \cup a4) = Cardinality(s3) + Cardinality(a4)
        /\ Cardinality(s4 \cup a5) = Cardinality(s4) + Cardinality(a5)
        /\ Cardinality(s5 \cup a6) = Cardinality(s5) + Cardinality(a6)
        /\ Cardinality(s6 \cup a7) = Cardinality(s6) + Cardinality(a7)
    <3>1. Cardinality(a1 \cup a2) = Cardinality(a1) + Cardinality(a2)
      <4>1. a1 \in SUBSET (0 .. now) /\ a2 \in SUBSET (0 .. now) /\ a1 \cap a2 = {} /\ now \in Nat
        BY <1>1, <2>1, <2>3, <2>4
      <4> QED BY <4>1, CountOfTwo
    <3>2. Cardinality(s2 \cup a3) = Cardinality(s2) + Cardinality(a3)
      <4>1. s2 \in SUBSET (0 .. now) /\ a3 \in SUBSET (0 .. now) /\ s2 \cap a3 = {} /\ now \in Nat
        BY <1>1, <2>1, <2>3, <2>4
      <4> QED BY <4>1, CountOfTwo
    <3>3. Cardinality(s3 \cup a4) = Cardinality(s3) + Cardinality(a4)
      <4>1. s3 \in SUBSET (0 .. now) /\ a4 \in SUBSET (0 .. now) /\ s3 \cap a4 = {} /\ now \in Nat
        BY <1>1, <2>1, <2>3, <2>4
      <4> QED BY <4>1, CountOfTwo
    <3>4. Cardinality(s4 \cup a5) = Cardinality(s4) + Cardinality(a5)
      <4>1. s4 \in SUBSET (0 .. now) /\ a5 \in SUBSET (0 .. now) /\ s4 \cap a5 = {} /\ now \in Nat
        BY <1>1, <2>1, <2>3, <2>4
      <4> QED BY <4>1, CountOfTwo
    <3>5. Cardinality(s5 \cup a6) = Cardinality(s5) + Cardinality(a6)
      <4>1. s5 \in SUBSET (0 .. now) /\ a6 \in SUBSET (0 .. now) /\ s5 \cap a6 = {} /\ now \in Nat
        BY <1>1, <2>1, <2>3, <2>4
      <4> QED BY <4>1, CountOfTwo
    <3>6. Cardinality(s6 \cup a7) = Cardinality(s6) + Cardinality(a7)
      <4>1. s6 \in SUBSET (0 .. now) /\ a7 \in SUBSET (0 .. now) /\ s6 \cap a7 = {} /\ now \in Nat
        BY <1>1, <2>1, <2>3, <2>4
      <4> QED BY <4>1, CountOfTwo
    <3> QED BY <3>1, <3>2, <3>3, <3>4, <3>5, <3>6
  <2>7. Cardinality(s6 \cup a7) = now
    <3>1. Cardinality(0 .. (now - 1)) = now
      BY <1>1, CountBetween
    <3> QED BY <2>2, <3>1
  <2>8. /\ Cardinality(a1) \in Nat /\ Cardinality(a2) \in Nat /\ Cardinality(a3) \in Nat /\ Cardinality(a4) \in Nat
        /\ Cardinality(a5) \in Nat /\ Cardinality(a6) \in Nat /\ Cardinality(a7) \in Nat
    BY <1>1, <2>1, CountIs
  <2>9. now = Cardinality(a1) + Cardinality(a2) + Cardinality(a3) + Cardinality(a4) + Cardinality(a5)
              + Cardinality(a6) + Cardinality(a7)
    BY <2>5, <2>6, <2>7, <2>8
  <2> QED BY <2>9 DEF a1, a2, a3, a4, a5, a6, a7
<1>16. timeSpent(now, ClosedSpent).other = n("none")
  <2> DEFINE total == ClosedSpent.source + ClosedSpent.held + ClosedSpent.rateLimit
                      + ClosedSpent.working + ClosedSpent.queued
  <2>1. total \in Nat /\ now = total + n("none")
    <3>1. total = n("source") + n("held") + n("rateLimit") + n("working") + n("queued") + n("elsewhere")
      <4>1. /\ ClosedSpent.source = n("source") /\ ClosedSpent.held = n("held")
            /\ ClosedSpent.rateLimit = n("rateLimit")
        BY <1>12
      <4>2. ClosedSpent.working \in Int /\ ClosedSpent.queued \in Int
        BY <1>2 DEF MEASURED_TIME
      <4> HIDE DEF n
      <4> QED BY <1>6, <1>13, <4>1, <4>2
    <3> HIDE DEF n, total
    <3> QED BY <1>6, <1>15, <3>1
  <2>2. timeSpent(now, ClosedSpent).other = Max({now, total}) - total
    BY DEF timeSpent
  <2> HIDE DEF total
  <2>3. Max({now, total}) = now
    BY <1>1, <1>6, <2>1, MaxOfTwo
  <2> QED BY <1>6, <2>1, <2>2, <2>3
<1> QED BY <1>3, <1>12, <1>13, <1>14, <1>16 DEF TimeIsGivenOnce, Spent

\* Every moment a site is on the clock is given to one part, and once (clock.ts).
THEOREM ClockGivesEachOnce == ClockAssumption /\ Spec => []TimeIsGivenOnce
<1> SUFFICES ASSUME MaxNow \in Nat PROVE Spec => []TimeIsGivenOnce
  BY DEF ClockAssumption
<1> QED BY ClockInit, ClockNext, GivenOnce, PTL DEF Spec
=============================================================================
