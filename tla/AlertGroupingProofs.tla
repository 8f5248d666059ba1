-------------------------- MODULE AlertGroupingProofs --------------------------
(***************************************************************************)
(* The grouping of alerts for every number of sessions, keys and threads:  *)
(* what a window holds back has a timer that will report it, every alert   *)
(* held back is counted exactly once, and no session alerts twice at a     *)
(* level.                                                                  *)
(*                                                                         *)
(* The inductive invariant is AlertInv: a window has a timer exactly while *)
(* it holds something back (WindowInv), that timer is the key's own and    *)
(* ends with the window (HeldHasTimer), and the count is exact.  For the   *)
(* levels, RankInv relates what was sent and what is being sent to the     *)
(* rank kept for the session.                                              *)
(***************************************************************************)
EXTENDS AlertGrouping, SequenceTheorems, FiniteSetTheorems, TLAPS

(* A window has a timer only while it holds something back, and there are  *)
(* no windows when repeats are not held back at all.                       *)
WindowInv ==
    \A k \in Keys : group[k] # NoGroup =>
        Window > 0 /\ (group[k].timer = NoTimer <=> group[k].held = 0)

AlertInv == WindowInv /\ HeldHasTimer /\ CountExact

(* What was alerted, and what is about to be, is not above the rank kept.  *)
RankInv ==
    /\ \A s \in Sessions : alerted[s] <= seen[s]
    /\ \A c \in Callers : call[c].at = "send" => call[c].event.rank <= seen[call[c].event.session]

-----------------------------------------------------------------------------
(* The greater and the lesser of two numbers.                              *)
LEMMA MaxMinOfTwo ==
    ASSUME NEW a \in Int, NEW b \in Int
    PROVE  /\ Max({a, b}) = IF a >= b THEN a ELSE b
           /\ Min({a, b}) = IF a <= b THEN a ELSE b
<1>1. \E x \in {a, b} : \A y \in {a, b} : x >= y
  BY SMT
<1>2. \E x \in {a, b} : \A y \in {a, b} : x <= y
  BY SMT
<1>3. Max({a, b}) \in {a, b} /\ \A y \in {a, b} : Max({a, b}) >= y
  BY <1>1 DEF Max
<1>4. Min({a, b}) \in {a, b} /\ \A y \in {a, b} : Min({a, b}) <= y
  BY <1>2 DEF Min
<1>. QED
  BY <1>3, <1>4

-----------------------------------------------------------------------------
(* A session that is tracked has a place in the order.                     *)
LEMMA PlaceOf ==
    ASSUME TypeOK, NEW s \in Sessions, seen[s] # NoRank
    PROVE  Place(s) \in 1..Len(order) /\ order[Place(s)] = s
<1>1. s \in ToSet(order) /\ order \in Seq(Sessions)
  BY DEF TypeOK
<1>2. DOMAIN order = 1..Len(order)
  BY <1>1, LenProperties
<1>3. \E i \in 1..Len(order) : order[i] = s
  BY <1>1, <1>2 DEF ToSet
<1>. QED
  BY <1>3 DEF Place

(* Taking one place out of a sequence keeps the others, each once.         *)
LEMMA WithoutOne ==
    ASSUME NEW sq \in Seq(Sessions), IsInjective(sq), NEW i \in 1..Len(sq)
    PROVE  /\ RemoveAt(sq, i) \in Seq(Sessions) /\ Len(RemoveAt(sq, i)) = Len(sq) - 1
           /\ IsInjective(RemoveAt(sq, i))
           /\ ToSet(RemoveAt(sq, i)) = ToSet(sq) \ {sq[i]}
<1> DEFINE n == Len(sq)
           a == SubSeq(sq, 1, i - 1)
           b == SubSeq(sq, i + 1, n)
           r == RemoveAt(sq, i)
<1>1. n \in Nat /\ DOMAIN sq = 1..n /\ \A j \in 1..n : sq[j] \in Sessions
  BY LenProperties, ElementOfSeq
<1>2. /\ a \in Seq(Sessions) /\ Len(a) = i - 1 /\ \A j \in 1..(i - 1) : a[j] = sq[j]
  <2>1. \A j \in 1..(i - 1) : sq[j] \in Sessions
    BY <1>1
  <2>2. a \in Seq(Sessions) /\ Len(a) = (IF 1 <= i - 1 THEN (i - 1) - 1 + 1 ELSE 0)
        /\ \A j \in 1..((i - 1) - 1 + 1) : a[j] = sq[1 + j - 1]
    BY <1>1, <2>1, SubSeqProperties
  <2>. QED
    BY <1>1, <2>2
<1>3. /\ b \in Seq(Sessions) /\ Len(b) = n - i /\ \A j \in 1..(n - i) : b[j] = sq[i + j]
  <2>1. \A j \in (i + 1)..n : sq[j] \in Sessions
    BY <1>1
  <2>2. b \in Seq(Sessions) /\ Len(b) = (IF i + 1 <= n THEN n - (i + 1) + 1 ELSE 0)
        /\ \A j \in 1..(n - (i + 1) + 1) : b[j] = sq[(i + 1) + j - 1]
    BY <1>1, <2>1, SubSeqProperties
  <2>a. i \in Nat /\ i <= n
    BY <1>1
  <2>. HIDE DEF n
  <2>3. n - (i + 1) + 1 = n - i /\ (IF i + 1 <= n THEN n - i ELSE 0) = n - i
    BY <1>1, <2>a
  <2>4. \A j \in 1..(n - i) : (i + 1) + j - 1 = i + j
    BY <1>1, <2>a
  <2>. HIDE DEF b
  <2>. QED
    BY <2>2, <2>3, <2>4
<1>4. /\ r \in Seq(Sessions) /\ Len(r) = n - 1
      /\ \A j \in 1..(n - 1) : r[j] = IF j < i THEN sq[j] ELSE sq[j + 1]
  <2>1. r = a \o b
    BY DEF RemoveAt
  <2>. HIDE DEF a, b, r
  <2>2. /\ r \in Seq(Sessions) /\ Len(r) = Len(a) + Len(b)
        /\ \A j \in 1..(Len(a) + Len(b)) : r[j] = IF j <= Len(a) THEN a[j] ELSE b[j - Len(a)]
    BY <1>2, <1>3, <2>1, ConcatProperties
  <2>3. ASSUME NEW j \in 1..(n - 1) PROVE r[j] = IF j < i THEN sq[j] ELSE sq[j + 1]
    <3>0. r[j] = IF j <= i - 1 THEN a[j] ELSE b[j - (i - 1)]
      <4>1. Len(a) + Len(b) = n - 1
        BY <1>1, <1>2, <1>3
      <4>. QED
        BY <1>2, <2>2, <4>1
    <3>1. CASE j < i
      <4>1. j \in 1..(i - 1) /\ j <= i - 1
        BY <1>1, <3>1
      <4>. QED
        BY <1>2, <3>0, <3>1, <4>1
    <3>2. CASE ~(j < i)
      <4>1. r[j] = b[j - (i - 1)] /\ j - (i - 1) \in 1..(n - i)
        BY <1>1, <3>0, <3>2
      <4>2. b[j - (i - 1)] = sq[i + (j - (i - 1))] /\ i + (j - (i - 1)) = j + 1
        BY <1>1, <1>3, <4>1
      <4>. QED
        BY <3>2, <4>1, <4>2
    <3>. QED
      BY <3>1, <3>2
  <2>. QED
    BY <1>1, <1>2, <1>3, <2>2, <2>3
<1>. HIDE DEF a, b, r, n
<1>5. DOMAIN r = 1..(n - 1)
  BY <1>4, LenProperties
<1>6. \A j, l \in 1..n : sq[j] = sq[l] => j = l
  BY <1>1 DEF IsInjective
<1>7. IsInjective(r)
  <2>1. ASSUME NEW j \in 1..(n - 1), NEW l \in 1..(n - 1), r[j] = r[l] PROVE j = l
    <3> DEFINE up(x) == IF x < i THEN x ELSE x + 1
    <3>1. up(j) \in 1..n /\ up(l) \in 1..n /\ r[j] = sq[up(j)] /\ r[l] = sq[up(l)]
      BY <1>1, <1>4
    <3>2. up(j) = up(l)
      BY <1>6, <2>1, <3>1
    <3>. QED
      BY <1>1, <3>2
  <2>. QED
    BY <1>5, <2>1 DEF IsInjective
<1>8. ToSet(r) = ToSet(sq) \ {sq[i]}
  <2>1. ASSUME NEW j \in 1..(n - 1) PROVE r[j] \in ToSet(sq) /\ r[j] # sq[i]
    <3>1. \E l \in 1..n : r[j] = sq[l] /\ l # i
      <4>1. CASE j < i
        BY <1>1, <1>4, <4>1
      <4>2. CASE ~(j < i)
        BY <1>1, <1>4, <4>2
      <4>. QED
        BY <4>1, <4>2
    <3>. QED
      BY <1>1, <1>6, <3>1 DEF ToSet
  <2>2. ASSUME NEW l \in 1..n, l # i PROVE sq[l] \in ToSet(r)
    <3>1. CASE l < i
      <4>1. l \in 1..(n - 1) /\ r[l] = sq[l]
        BY <1>1, <1>4, <3>1
      <4>. QED
        BY <1>5, <4>1 DEF ToSet
    <3>2. CASE l > i
      <4>1. l - 1 \in 1..(n - 1) /\ r[l - 1] = sq[(l - 1) + 1] /\ (l - 1) + 1 = l
        BY <1>1, <1>4, <3>2
      <4>. QED
        BY <1>5, <4>1 DEF ToSet
    <3>. QED
      BY <1>1, <2>2, <3>1, <3>2
  <2>. QED
    BY <1>1, <1>5, <2>1, <2>2 DEF ToSet
<1>. QED
  BY <1>4, <1>7, <1>8 DEF r, n

(* With the session a decision records as the newest, each is still listed *)
(* once.                                                                   *)
LEMMA NewestOf ==
    ASSUME TypeOK, NEW s \in Sessions
    PROVE  /\ Newest(s) \in Seq(Sessions) /\ IsInjective(Newest(s))
           /\ ToSet(Newest(s)) = ToSet(order) \cup {s}
           /\ Len(Newest(s)) > 0 /\ Newest(s)[Len(Newest(s))] = s
<1> DEFINE old == IF seen[s] = NoRank THEN order ELSE RemoveAt(order, Place(s))
<1>1. order \in Seq(Sessions) /\ IsInjective(order) /\ (seen[s] = NoRank <=> s \notin ToSet(order))
  BY DEF TypeOK
<1>2. old \in Seq(Sessions) /\ IsInjective(old) /\ ToSet(old) = ToSet(order) \ {s}
  BY <1>1, PlaceOf, WithoutOne
<1>. HIDE DEF old
<1>3. Newest(s) = Append(old, s)
  BY DEF Newest, old
<1>4. /\ Newest(s) \in Seq(Sessions) /\ Len(Newest(s)) = Len(old) + 1
      /\ \A i \in 1..Len(old) : Newest(s)[i] = old[i]
      /\ Newest(s)[Len(old) + 1] = s
  BY <1>2, <1>3, AppendProperties
<1>5. Len(old) \in Nat /\ DOMAIN old = 1..Len(old) /\ DOMAIN Newest(s) = 1..(Len(old) + 1)
  BY <1>2, <1>4, LenProperties
<1>6. \A i \in 1..Len(old) : old[i] # s
  BY <1>2, <1>5 DEF ToSet
<1>7. IsInjective(Newest(s))
  <2>1. ASSUME NEW i \in 1..(Len(old) + 1), NEW j \in 1..(Len(old) + 1),
               Newest(s)[i] = Newest(s)[j]
        PROVE  i = j
    <3>1. i \in 1..Len(old) \/ i = Len(old) + 1
      BY <1>5
    <3>2. j \in 1..Len(old) \/ j = Len(old) + 1
      BY <1>5
    <3>. QED
      BY <1>2, <1>4, <1>5, <1>6, <2>1, <3>1, <3>2 DEF IsInjective
  <2>. QED
    BY <1>5, <2>1 DEF IsInjective
<1>8. ToSet(Newest(s)) = ToSet(old) \cup {s}
  <2>1. \A i \in 1..(Len(old) + 1) : i \in 1..Len(old) \/ i = Len(old) + 1
    BY <1>5
  <2>2. 1..Len(old) \subseteq 1..(Len(old) + 1) /\ Len(old) + 1 \in 1..(Len(old) + 1)
    BY <1>5
  <2>. QED
    BY <1>4, <1>5, <2>1, <2>2 DEF ToSet
<1>. QED
  BY <1>2, <1>4, <1>5, <1>7, <1>8

(* The entries kept are the newest, the one just recorded among them.      *)
LEMMA LatestOf ==
    ASSUME NEW sq \in Seq(Sessions), IsInjective(sq), Len(sq) > 0
    PROVE  /\ Latest(sq) \in Seq(Sessions) /\ IsInjective(Latest(sq))
           /\ Len(Latest(sq)) <= MaxTracked
           /\ ToSet(Latest(sq)) \subseteq ToSet(sq)
           /\ sq[Len(sq)] \in ToSet(Latest(sq))
<1> DEFINE n == Len(sq)
           m == n - MaxTracked
<1>1. n \in Nat /\ DOMAIN sq = 1..n /\ (\A j \in 1..n : sq[j] \in Sessions) /\ MaxTracked \in Nat \ {0}
  BY AlertConstants, LenProperties, ElementOfSeq
<1>2. CASE n <= MaxTracked
  BY <1>1, <1>2 DEF Latest, ToSet
<1>3. CASE ~(n <= MaxTracked)
  <2> DEFINE r == Latest(sq)
  <2>1. r = SubSeq(sq, m + 1, n)
    BY <1>3 DEF Latest
  <2>2. \A j \in (m + 1)..n : sq[j] \in Sessions
    BY <1>1, <1>3
  <2>. HIDE DEF r
  <2>3. r \in Seq(Sessions) /\ Len(r) = MaxTracked /\ \A j \in 1..MaxTracked : r[j] = sq[m + j]
    <3>1. r \in Seq(Sessions) /\ Len(r) = (IF m + 1 <= n THEN n - (m + 1) + 1 ELSE 0)
          /\ \A j \in 1..(n - (m + 1) + 1) : r[j] = sq[(m + 1) + j - 1]
      <4>1. m + 1 \in Int /\ n \in Int
        BY <1>1
      <4>. HIDE DEF m, n
      <4>. QED
        BY <2>1, <2>2, <4>1, SubSeqProperties
    <3>2. n - (m + 1) + 1 = MaxTracked /\ m + 1 <= n /\ \A j \in Nat : (m + 1) + j - 1 = m + j
      BY <1>1, <1>3
    <3>. QED
      BY <1>1, <3>1, <3>2
  <2>4. DOMAIN r = 1..MaxTracked
    BY <2>3, LenProperties
  <2>5. \A j \in 1..MaxTracked : m + j \in 1..n
    BY <1>1, <1>3
  <2>6. IsInjective(r)
    <3>1. ASSUME NEW i \in 1..MaxTracked, NEW j \in 1..MaxTracked, r[i] = r[j] PROVE i = j
      <4>1. sq[m + i] = sq[m + j] /\ m + i \in 1..n /\ m + j \in 1..n
        BY <2>3, <2>5, <3>1
      <4>2. m + i = m + j
        <5>. HIDE DEF m, n
        <5>. QED
          BY <1>1, <4>1 DEF IsInjective
      <4>. QED
        BY <1>1, <4>2
    <3>. QED
      BY <2>4, <3>1 DEF IsInjective
  <2>7. ToSet(r) \subseteq ToSet(sq)
    <3>1. ASSUME NEW j \in 1..MaxTracked PROVE r[j] \in ToSet(sq)
      <4>1. r[j] = sq[m + j] /\ m + j \in DOMAIN sq
        BY <1>1, <2>3, <2>5
      <4>. QED
        BY <4>1 DEF ToSet
    <3>. QED
      BY <2>4, <3>1 DEF ToSet
  <2>8. sq[n] \in ToSet(r)
    <3>1. MaxTracked \in 1..MaxTracked /\ m + MaxTracked = n
      BY <1>1
    <3>. QED
      BY <2>3, <2>4, <3>1 DEF ToSet
  <2>. QED
    BY <1>1, <2>3, <2>6, <2>7, <2>8 DEF r
<1>. QED
  BY <1>2, <1>3

(* A sequence without repetition is no longer than the set it lists.       *)
LEMMA NoLonger ==
    ASSUME NEW sq \in Seq(Sessions), IsInjective(sq)
    PROVE  Len(sq) <= Cardinality(Sessions)
<1>1. Len(sq) \in Nat /\ sq \in [1..Len(sq) -> Sessions]
  BY LenProperties
<1>2. sq \in Injection(1..Len(sq), Sessions)
  BY <1>1 DEF Injection
<1>3. Cardinality(1..Len(sq)) <= Cardinality(Sessions)
  BY <1>2, AlertConstants, FS_Injection
<1>4. Cardinality(1..Len(sq)) = Len(sq)
  BY <1>1, FS_Interval
<1>. QED
  BY <1>3, <1>4

(* What recording a session's rank keeps: the tracked sessions are those   *)
(* with a rank; and none is forgotten when all of them fit.                *)
LEMMA TrackKeeps ==
    ASSUME TypeOK, NEW e \in Events, Track(e)
    PROVE  /\ seen' \in [Sessions -> Ranks \cup {NoRank}]
           /\ order' \in Seq(Sessions) /\ Len(order') <= MaxTracked /\ IsInjective(order')
           /\ ToSet(order') = {s \in Sessions : seen'[s] # NoRank}
           /\ Cardinality(Sessions) <= MaxTracked => seen' = [seen EXCEPT ![e.session] = e.rank]
<1> DEFINE s == e.session
           new == Newest(s)
<1>1. s \in Sessions /\ e.rank \in Ranks /\ e.rank # NoRank
  BY AlertConstants DEF Events, NoRank
<1>2. /\ new \in Seq(Sessions) /\ IsInjective(new) /\ ToSet(new) = ToSet(order) \cup {s}
      /\ Len(new) > 0 /\ new[Len(new)] = s
  BY <1>1, NewestOf
<1>. HIDE DEF new
<1>3. /\ order' = Latest(new)
      /\ seen' = [t \in Sessions |-> IF t \notin ToSet(order') THEN NoRank
                                     ELSE IF t = s THEN e.rank ELSE seen[t]]
  BY DEF Track, new
<1>4. /\ order' \in Seq(Sessions) /\ IsInjective(order') /\ Len(order') <= MaxTracked
      /\ ToSet(order') \subseteq ToSet(new) /\ s \in ToSet(order')
  BY <1>2, <1>3, LatestOf
<1>5. seen \in [Sessions -> Ranks \cup {NoRank}] /\ ToSet(order) = {t \in Sessions : seen[t] # NoRank}
  BY DEF TypeOK
<1>6. seen' \in [Sessions -> Ranks \cup {NoRank}]
  BY <1>1, <1>3, <1>5
<1>7. ToSet(order') = {t \in Sessions : seen'[t] # NoRank}
  BY <1>1, <1>2, <1>3, <1>4, <1>5
<1>8. ASSUME Cardinality(Sessions) <= MaxTracked PROVE seen' = [seen EXCEPT ![s] = e.rank]
  <2>1. Len(new) <= Cardinality(Sessions) /\ Len(new) \in Nat /\ Cardinality(Sessions) \in Nat
        /\ MaxTracked \in Nat
    BY <1>2, NoLonger, AlertConstants, LenProperties, FS_CardinalityType
  <2>2. order' = new
    BY <1>3, <1>8, <2>1 DEF Latest
  <2>3. ToSet(order') = ToSet(order) \cup {s}
    BY <1>2, <2>2
  <2>4. \A t \in Sessions : seen'[t] = IF t = s THEN e.rank ELSE seen[t]
    BY <1>3, <1>5, <2>3
  <2>. QED
    BY <1>3, <1>5, <2>4
<1>. QED
  BY <1>4, <1>6, <1>7, <1>8

-----------------------------------------------------------------------------
(* What messages tell of is a number, and one message more tells of as     *)
(* many more as it says.                                                   *)
LEMMA ToldFinite ==
    ASSUME NEW T, IsFiniteSet(T), NEW g \in [T -> 0..MaxHeld]
    PROVE  IsFiniteSet(Told(T, g)) /\ Cardinality(Told(T, g)) \in Nat
<1>1. MaxHeld \in Nat /\ IsFiniteSet(1..MaxHeld)
  BY AlertConstants, FS_Interval
<1>2. IsFiniteSet(T \X (1..MaxHeld))
  BY <1>1, FS_Product
<1>3. Told(T, g) \in SUBSET (T \X (1..MaxHeld))
  <2>1. \A y \in T : 1..g[y] \subseteq 1..MaxHeld
    BY <1>1
  <2>. QED
    BY <2>1 DEF Told
<1>. QED
  BY <1>2, <1>3, FS_Subset, FS_CardinalityType

(* A set of messages and one more.                                         *)
LEMMA ToldOneMore ==
    ASSUME NEW T, IsFiniteSet(T), NEW g \in [T -> 0..MaxHeld], NEW x \in T,
           NEW S, S = T \ {x}, NEW f, \A y \in S : f[y] = g[y], f = [y \in S |-> f[y]]
    PROVE  Cardinality(Told(T, g)) = Cardinality(Told(S, f)) + g[x]
<1> DEFINE X == {x} \X (1..g[x])
<1>1. IsFiniteSet(S) /\ f \in [S -> 0..MaxHeld] /\ g[x] \in Nat
  <2>1. IsFiniteSet(S)
    BY FS_Difference
  <2>2. f \in [S -> 0..MaxHeld]
    OBVIOUS
  <2>3. g[x] \in Nat
    BY AlertConstants
  <2>. QED
    BY <2>1, <2>2, <2>3
<1>2. IsFiniteSet(Told(S, f)) /\ Cardinality(Told(S, f)) \in Nat
  BY <1>1, ToldFinite
<1>3. IsFiniteSet(X) /\ Cardinality(X) = g[x]
  <2>1. IsFiniteSet({x}) /\ Cardinality({x}) = 1
    BY FS_Singleton
  <2>2. IsFiniteSet(1..g[x]) /\ Cardinality(1..g[x]) = g[x]
    BY <1>1, FS_Interval
  <2>3. IsFiniteSet(X) /\ Cardinality(X) = Cardinality({x}) * Cardinality(1..g[x])
    BY <2>1, <2>2, FS_Product
  <2>. QED
    BY <1>1, <2>1, <2>2, <2>3
<1>4. Told(T, g) = Told(S, f) \cup X /\ Told(S, f) \cap X = {}
  <2>1. T = S \cup {x} /\ x \notin S
    OBVIOUS
  <2>2. Told(T, g) = Told(S, f) \cup X
    BY <2>1 DEF Told
  <2>3. Told(S, f) \cap X = {}
    BY <2>1 DEF Told
  <2>. QED
    BY <2>2, <2>3
<1>. HIDE DEF X
<1>5. Cardinality(Told(S, f) \cup X) = Cardinality(Told(S, f)) + Cardinality(X) - Cardinality({})
  BY <1>2, <1>3, <1>4, FS_Union
<1>6. Cardinality(Told(T, g)) = Cardinality(Told(S, f)) + g[x]
  BY <1>1, <1>2, <1>3, <1>4, <1>5, FS_EmptySet
<1>. QED
  BY <1>6

(* The same of what is in flight for a key, by the calls and the timers.   *)
Sends(k) == [c \in Sending(k) |-> call[c].repeats]
Tells(k) == [t \in Telling(k) |-> timer[t].repeats]
BySends(k) == Cardinality(Told(Sending(k), Sends(k)))
ByTells(k) == Cardinality(Told(Telling(k), Tells(k)))

ThreadsOK == call \in [Callers -> Calls] /\ timer \in [Timers -> TimerStates]

(* Both counts are numbers, and together they are what is in flight.       *)
LEMMA FlightType ==
    ASSUME ThreadsOK, NEW k \in Keys
    PROVE  /\ InFlight(k) = BySends(k) + ByTells(k)
           /\ IsFiniteSet(Sending(k)) /\ Sends(k) \in [Sending(k) -> 0..MaxHeld]
           /\ IsFiniteSet(Telling(k)) /\ Tells(k) \in [Telling(k) -> 0..MaxHeld]
           /\ BySends(k) \in Nat /\ ByTells(k) \in Nat
<1>1. IsFiniteSet(Sending(k)) /\ IsFiniteSet(Telling(k))
  <2>1. Sending(k) \in SUBSET Callers /\ Telling(k) \in SUBSET Timers
    BY DEF Sending, Telling
  <2>. QED
    BY <2>1, AlertConstants, FS_Subset
<1>2. ASSUME NEW c \in Sending(k) PROVE call[c].repeats \in 0..MaxHeld
  BY DEF ThreadsOK, Sending, Calls, IdleCall
<1>3. ASSUME NEW t \in Telling(k) PROVE timer[t].repeats \in 0..MaxHeld
  BY DEF ThreadsOK, Telling, TimerStates, DeadTimer
<1>4. Sends(k) \in [Sending(k) -> 0..MaxHeld] /\ Tells(k) \in [Telling(k) -> 0..MaxHeld]
  BY <1>2, <1>3 DEF Sends, Tells
<1>5. BySends(k) \in Nat /\ ByTells(k) \in Nat
  BY <1>1, <1>4, ToldFinite DEF BySends, ByTells
<1>. QED
  BY <1>1, <1>4, <1>5 DEF InFlight, BySends, ByTells, Sends, Tells

(* The steps of a caller and of a timer, as the count sees them: it stays, *)
(* takes up a message, or has sent it.                                     *)
LEMMA SendsStay ==
    ASSUME NEW k, \A d \in Callers : call[d].at = "send" \/ call'[d].at = "send" => call'[d] = call[d]
    PROVE  BySends(k)' = BySends(k)
<1>1. Sending(k)' = Sending(k)
  BY DEF Sending
<1>2. Sends(k)' = Sends(k)
  BY <1>1 DEF Sends, Sending
<1>. QED
  BY <1>1, <1>2 DEF BySends

(* A caller takes up a message.                                            *)
LEMMA SendsUp ==
    ASSUME ThreadsOK, ThreadsOK', NEW k \in Keys, NEW c \in Callers,
           call[c].at # "send", call'[c].at = "send",
           \A d \in Callers : d # c => call'[d] = call[d]
    PROVE  BySends(k)' = BySends(k) + IF call'[c].event.key = k THEN call'[c].repeats ELSE 0
<1> DEFINE S == Sending(k)
           T == {d \in Callers : call'[d].at = "send" /\ call'[d].event.key = k}
           f == Sends(k)
           g == [d \in T |-> call'[d].repeats]
<1>1. BySends(k)' = Cardinality(Told(T, g))
  BY DEF BySends, Sending, Sends
<1>2. IsFiniteSet(T) /\ g \in [T -> 0..MaxHeld]
  <2>1. T \in SUBSET Callers
    OBVIOUS
  <2>2. ASSUME NEW d \in T PROVE call'[d].repeats \in 0..MaxHeld
    BY DEF ThreadsOK, Calls, IdleCall
  <2>. QED
    BY <2>1, <2>2, AlertConstants, FS_Subset
<1>3. BySends(k) \in Nat /\ BySends(k) = Cardinality(Told(S, f))
  BY FlightType DEF BySends
<1>4. CASE call'[c].event.key = k
  <2>1. c \in T /\ S = T \ {c} /\ g[c] = call'[c].repeats
    BY <1>4 DEF Sending
  <2>2. (\A d \in S : f[d] = g[d]) /\ f = [d \in S |-> f[d]]
    BY <2>1 DEF Sends, Sending
  <2>. HIDE DEF S, T, f, g
  <2>3. Cardinality(Told(T, g)) = Cardinality(Told(S, f)) + g[c]
    BY <1>2, <2>1, <2>2, ToldOneMore
  <2>. QED
    BY <1>1, <1>3, <1>4, <2>1, <2>3
<1>5. CASE call'[c].event.key # k
  <2>1. T = S
    BY <1>5 DEF Sending
  <2>2. g = f
    BY <1>5 DEF Sending, Sends
  <2>. HIDE DEF S, T, f, g
  <2>. QED
    BY <1>1, <1>3, <1>5, <2>1, <2>2
<1>. QED
  BY <1>4, <1>5

(* A caller has sent its message.                                          *)
LEMMA SendsDown ==
    ASSUME ThreadsOK, NEW k \in Keys, NEW c \in Callers,
           call[c].at = "send", call'[c].at # "send",
           \A d \in Callers : d # c => call'[d] = call[d]
    PROVE  /\ BySends(k) = BySends(k)' + IF call[c].event.key = k THEN call[c].repeats ELSE 0
           /\ BySends(k)' \in Nat
<1> DEFINE T == Sending(k)
           S == {d \in Callers : call'[d].at = "send" /\ call'[d].event.key = k}
           g == Sends(k)
           f == [d \in S |-> call'[d].repeats]
<1>1. BySends(k)' = Cardinality(Told(S, f))
  BY DEF BySends, Sending, Sends
<1>2. IsFiniteSet(T) /\ g \in [T -> 0..MaxHeld]
  BY FlightType
<1>3. S \subseteq T /\ \A d \in S : call'[d] = call[d]
  BY DEF Sending
<1>4. (\A d \in S : f[d] = g[d]) /\ f = [d \in S |-> f[d]] /\ f \in [S -> 0..MaxHeld]
  <2>1. \A d \in S : f[d] = g[d]
    BY <1>3 DEF Sends
  <2>2. f = [d \in S |-> f[d]]
    OBVIOUS
  <2>. HIDE DEF S, T, f, g
  <2>. QED
    BY <1>2, <1>3, <2>1, <2>2
<1>5. BySends(k)' \in Nat
  <2>. HIDE DEF S, T, f, g
  <2>1. IsFiniteSet(S)
    BY <1>2, <1>3, FS_Subset
  <2>. QED
    BY <1>1, <1>4, <2>1, ToldFinite
<1>6. CASE call[c].event.key = k
  <2>1. c \in T /\ S = T \ {c} /\ g[c] = call[c].repeats
    BY <1>6 DEF Sending, Sends
  <2>. HIDE DEF S, T, f, g
  <2>2. Cardinality(Told(T, g)) = Cardinality(Told(S, f)) + g[c]
    BY <1>2, <1>4, <2>1, ToldOneMore
  <2>. QED
    BY <1>1, <1>5, <1>6, <2>1, <2>2 DEF BySends, T, g
<1>7. CASE call[c].event.key # k
  <2>1. T = S
    BY <1>7 DEF Sending
  <2>2. g = f
    BY <1>3, <2>1 DEF Sends
  <2>. HIDE DEF S, f
  <2>. QED
    BY <1>1, <1>5, <1>7, <2>1, <2>2 DEF BySends
<1>. QED
  BY <1>5, <1>6, <1>7

(* No follow-up is taken up or done.                                       *)
LEMMA TellsStay ==
    ASSUME NEW k, \A t \in Timers : timer[t].at = "targets" \/ timer'[t].at = "targets"
                                       => timer'[t] = timer[t]
    PROVE  ByTells(k)' = ByTells(k)
<1>1. Telling(k)' = Telling(k)
  BY DEF Telling
<1>2. Tells(k)' = Tells(k)
  BY <1>1 DEF Tells, Telling
<1>. QED
  BY <1>1, <1>2 DEF ByTells

(* A timer takes up a follow-up.                                           *)
LEMMA TellsUp ==
    ASSUME ThreadsOK, ThreadsOK', NEW k \in Keys, NEW t \in Timers,
           timer[t].at # "targets", timer'[t].at = "targets",
           \A u \in Timers : u # t => timer'[u] = timer[u]
    PROVE  ByTells(k)' = ByTells(k) + IF timer'[t].key = k THEN timer'[t].repeats ELSE 0
<1> DEFINE S == Telling(k)
           T == {u \in Timers : timer'[u].at = "targets" /\ timer'[u].key = k}
           f == Tells(k)
           g == [u \in T |-> timer'[u].repeats]
<1>1. ByTells(k)' = Cardinality(Told(T, g))
  BY DEF ByTells, Telling, Tells
<1>2. IsFiniteSet(T) /\ g \in [T -> 0..MaxHeld]
  <2>1. T \in SUBSET Timers
    OBVIOUS
  <2>2. ASSUME NEW u \in T PROVE timer'[u].repeats \in 0..MaxHeld
    BY DEF ThreadsOK, TimerStates, DeadTimer
  <2>. QED
    BY <2>1, <2>2, AlertConstants, FS_Subset
<1>3. ByTells(k) \in Nat /\ ByTells(k) = Cardinality(Told(S, f))
  BY FlightType DEF ByTells
<1>4. CASE timer'[t].key = k
  <2>1. t \in T /\ S = T \ {t} /\ g[t] = timer'[t].repeats
    BY <1>4 DEF Telling
  <2>2. (\A u \in S : f[u] = g[u]) /\ f = [u \in S |-> f[u]]
    BY <2>1 DEF Tells, Telling
  <2>. HIDE DEF S, T, f, g
  <2>3. Cardinality(Told(T, g)) = Cardinality(Told(S, f)) + g[t]
    BY <1>2, <2>1, <2>2, ToldOneMore
  <2>. QED
    BY <1>1, <1>3, <1>4, <2>1, <2>3
<1>5. CASE timer'[t].key # k
  <2>1. T = S
    BY <1>5 DEF Telling
  <2>2. g = f
    BY <1>5 DEF Telling, Tells
  <2>. HIDE DEF S, T, f, g
  <2>. QED
    BY <1>1, <1>3, <1>5, <2>1, <2>2
<1>. QED
  BY <1>4, <1>5

(* A timer is done with its follow-up.                                     *)
LEMMA TellsDown ==
    ASSUME ThreadsOK, NEW k \in Keys, NEW t \in Timers,
           timer[t].at = "targets", timer'[t].at # "targets",
           \A u \in Timers : u # t => timer'[u] = timer[u]
    PROVE  /\ ByTells(k) = ByTells(k)' + IF timer[t].key = k THEN timer[t].repeats ELSE 0
           /\ ByTells(k)' \in Nat
<1> DEFINE T == Telling(k)
           S == {u \in Timers : timer'[u].at = "targets" /\ timer'[u].key = k}
           g == Tells(k)
           f == [u \in S |-> timer'[u].repeats]
<1>1. ByTells(k)' = Cardinality(Told(S, f))
  BY DEF ByTells, Telling, Tells
<1>2. IsFiniteSet(T) /\ g \in [T -> 0..MaxHeld]
  BY FlightType
<1>3. S \subseteq T /\ \A u \in S : timer'[u] = timer[u]
  BY DEF Telling
<1>4. (\A u \in S : f[u] = g[u]) /\ f = [u \in S |-> f[u]] /\ f \in [S -> 0..MaxHeld]
  <2>1. \A u \in S : f[u] = g[u]
    BY <1>3 DEF Tells
  <2>2. f = [u \in S |-> f[u]]
    OBVIOUS
  <2>. HIDE DEF S, T, f, g
  <2>. QED
    BY <1>2, <1>3, <2>1, <2>2
<1>5. ByTells(k)' \in Nat
  <2>. HIDE DEF S, T, f, g
  <2>1. IsFiniteSet(S)
    BY <1>2, <1>3, FS_Subset
  <2>. QED
    BY <1>1, <1>4, <2>1, ToldFinite
<1>6. CASE timer[t].key = k
  <2>1. t \in T /\ S = T \ {t} /\ g[t] = timer[t].repeats
    BY <1>6 DEF Telling, Tells
  <2>. HIDE DEF S, T, f, g
  <2>2. Cardinality(Told(T, g)) = Cardinality(Told(S, f)) + g[t]
    BY <1>2, <1>4, <2>1, ToldOneMore
  <2>. QED
    BY <1>1, <1>5, <1>6, <2>1, <2>2 DEF ByTells, T, g
<1>7. CASE timer[t].key # k
  <2>1. T = S
    BY <1>7 DEF Telling
  <2>2. g = f
    BY <1>3, <2>1 DEF Tells
  <2>. HIDE DEF S, f
  <2>. QED
    BY <1>1, <1>5, <1>7, <2>1, <2>2 DEF ByTells
<1>. QED
  BY <1>5, <1>6, <1>7

-----------------------------------------------------------------------------
(* The invariant, key by key. *)
WindowAt(k) ==
    group[k] # NoGroup => Window > 0 /\ (group[k].timer = NoTimer <=> group[k].held = 0)

TimerAt(k) ==
    group[k] # NoGroup /\ group[k].held > 0 =>
        LET t == group[k].timer IN
        /\ group[k].latest <= group[k].rank /\ group[k].latest < Critical
        /\ t # NoTimer
        /\ timer[t].at \in {"waiting", "fired"}
        /\ timer[t].key = k
        /\ timer[t].at = "waiting" => timer[t].left = Window - group[k].age

CountAt(k) == outstanding[k] = BySends(k) + ByTells(k) + Repeats(group[k])

KeyInv(k) == WindowAt(k) /\ TimerAt(k) /\ CountAt(k)

BaseOK ==
    /\ group \in [Keys -> Groups \cup {NoGroup}]
    /\ seen \in [Sessions -> Ranks \cup {NoRank}]
    /\ order \in Seq(Sessions) /\ Len(order) <= MaxTracked
    /\ IsInjective(order)
    /\ ToSet(order) = {s \in Sessions : seen[s] # NoRank}
    /\ sincePrune \in 0..PruneEvery
    /\ ThreadsOK
    /\ alerted \in [Sessions -> Ranks \cup {NoRank}]
    /\ exits \in 0..MaxExits

(* That every count is exact makes it a number.                            *)
KeysInv == BaseOK /\ outstanding \in [Keys -> Int] /\ \A k \in Keys : KeyInv(k)

(* The invariant is that of every key, with the types.                     *)
LEMMA ByKeys == AlertInv <=> KeysInv
<1>. USE DEF KeysInv
<1>1. ASSUME AlertInv
      PROVE  BaseOK /\ outstanding \in [Keys -> Int] /\ \A k \in Keys : KeyInv(k)
  <2>1. TypeOK /\ BaseOK
    BY <1>1 DEF AlertInv, HeldHasTimer, TypeOK, BaseOK, ThreadsOK
  <2>2. outstanding \in [Keys -> Int]
    BY <2>1 DEF TypeOK
  <2>3. ASSUME NEW k \in Keys PROVE WindowAt(k) /\ TimerAt(k)
    BY <1>1 DEF AlertInv, WindowInv, HeldHasTimer, WindowAt, TimerAt
  <2>4. ASSUME NEW k \in Keys PROVE CountAt(k)
    <3>1. outstanding[k] = InFlight(k) + Repeats(group[k])
      BY <1>1 DEF AlertInv, CountExact, Repeats
    <3>. QED
      BY <2>1, <3>1, FlightType DEF CountAt, BaseOK
  <2>. QED
    BY <2>1, <2>2, <2>3, <2>4 DEF KeyInv
<1>2. ASSUME BaseOK, outstanding \in [Keys -> Int], \A k \in Keys : KeyInv(k)
      PROVE  AlertInv
  <2>1. ASSUME NEW k \in Keys
        PROVE  outstanding[k] = InFlight(k) + Repeats(group[k]) /\ outstanding[k] \in Nat
    <3>1. /\ InFlight(k) = BySends(k) + ByTells(k) /\ BySends(k) \in Nat /\ ByTells(k) \in Nat
      BY <1>2, FlightType DEF BaseOK
    <3>2. CountAt(k)
      BY <1>2 DEF KeyInv
    <3>3. Repeats(group[k]) \in Nat
      BY <1>2, AlertConstants DEF BaseOK, Groups, Repeats
    <3>. QED
      BY <3>1, <3>2, <3>3 DEF CountAt
  <2>2. CountExact
    BY <2>1 DEF CountExact, Repeats
  <2>3. outstanding \in [Keys -> Nat]
    BY <1>2, <2>1
  <2>4. TypeOK
    BY <1>2, <2>3 DEF BaseOK, TypeOK, ThreadsOK
  <2>5. WindowInv /\ HeldHasTimer
    BY <1>2, <2>4 DEF KeyInv, WindowInv, HeldHasTimer, WindowAt, TimerAt
  <2>. QED
    BY <2>2, <2>5 DEF AlertInv
<1>. QED
  BY <1>1, <1>2

(* A key keeps its invariant when its window stays, or goes with nothing   *)
(* held back, and its timers and messages stay.                            *)
LEMMA KeyStays ==
    ASSUME NEW k \in Keys, KeyInv(k),
           group'[k] = group[k] \/ (group'[k] = NoGroup /\ Repeats(group[k]) = 0),
           group[k] # NoGroup => group[k].timer \in Timers \cup {NoTimer},
           \A t \in Timers : timer[t].at \in {"waiting", "fired"} /\ timer[t].key = k
                                 => timer'[t] = timer[t],
           outstanding'[k] = outstanding[k],
           BySends(k)' = BySends(k), ByTells(k)' = ByTells(k)
    PROVE  KeyInv(k)'
<1>1. WindowAt(k)'
  BY DEF KeyInv, WindowAt
<1>2. TimerAt(k)'
  <2>1. ASSUME group'[k] # NoGroup, group'[k].held > 0
        PROVE  group'[k] = group[k] /\ timer'[group[k].timer] = timer[group[k].timer]
    BY <2>1 DEF KeyInv, TimerAt
  <2>. QED
    BY <2>1 DEF KeyInv, TimerAt
<1>3. CountAt(k)'
  <2>1. Repeats(group'[k]) = Repeats(group[k])
    BY DEF Repeats
  <2>. QED
    BY <2>1 DEF KeyInv, CountAt, Repeats
<1>. QED
  BY <1>1, <1>2, <1>3 DEF KeyInv

(* Pruning drops only windows that hold nothing back.                      *)
LEMMA PrunedKeeps ==
    ASSUME AlertInv, NEW k \in Keys
    PROVE  /\ Pruned \in [Keys -> Groups \cup {NoGroup}]
           /\ Pruned[k] = group[k] \/ (Pruned[k] = NoGroup /\ Repeats(group[k]) = 0)
           /\ Repeats(Pruned[k]) = Repeats(group[k])
           /\ Pruned[k] # NoGroup => Pruned[k] = group[k] /\ Window > 0
<1>1. group \in [Keys -> Groups \cup {NoGroup}] /\ WindowAt(k)
  BY ByKeys DEF KeysInv, BaseOK, KeyInv
<1>2. Pruned \in [Keys -> Groups \cup {NoGroup}]
  BY <1>1 DEF Pruned
<1>3. Pruned[k] = group[k] \/ (Pruned[k] = NoGroup /\ Repeats(group[k]) = 0)
  <2>1. Pruned[k] = group[k] \/ (Pruned[k] = NoGroup /\ Stale(k))
    BY DEF Pruned, Stale
  <2>2. Stale(k) => Repeats(group[k]) = 0
    BY <1>1 DEF Stale, WindowAt, Repeats
  <2>. QED
    BY <2>1, <2>2
<1>4. Pruned[k] # NoGroup => Pruned[k] = group[k] /\ Window > 0
  BY <1>1, <1>3 DEF WindowAt
<1>. QED
  BY <1>2, <1>3, <1>4 DEF Repeats

(* What a call or a timer is at tells what it carries.                     *)
LEMMA ThreadCases ==
    ASSUME ThreadsOK
    PROVE  /\ \A c \in Callers : call[c].at \in {"decide", "send"} => call[c].event \in Events
           /\ \A c \in Callers : call[c].at = "send" => call[c].repeats \in 0..MaxHeld
           /\ \A t \in Timers : timer[t].at = "waiting" => timer[t].key \in Keys /\ timer[t].left \in 0..Window
           /\ \A t \in Timers : timer[t].at = "fired" => timer[t].key \in Keys
           /\ \A t \in Timers : timer[t].at = "targets" =>
                  timer[t].key \in Keys /\ timer[t].repeats \in 0..MaxHeld
           /\ \A e \in Events : e.session \in Sessions /\ e.key \in Keys /\ e.rank \in Ranks
<1>1. /\ \A c \in Callers : call[c].at \in {"decide", "send"} => call[c].event \in Events
      /\ \A c \in Callers : call[c].at = "send" => call[c].repeats \in 0..MaxHeld
  BY DEF ThreadsOK, Calls, IdleCall
<1>2. /\ \A t \in Timers : timer[t].at = "waiting" => timer[t].key \in Keys /\ timer[t].left \in 0..Window
      /\ \A t \in Timers : timer[t].at = "fired" => timer[t].key \in Keys
      /\ \A t \in Timers : timer[t].at = "targets" =>
             timer[t].key \in Keys /\ timer[t].repeats \in 0..MaxHeld
  BY DEF ThreadsOK, TimerStates, DeadTimer
<1>3. \A e \in Events : e.session \in Sessions /\ e.key \in Keys /\ e.rank \in Ranks
  BY DEF Events
<1>. QED
  BY <1>1, <1>2, <1>3

-----------------------------------------------------------------------------
(* An alert that goes out closes the window of its key and takes over what *)
(* that window held back.                                                  *)
LEMMA AlertKeeps ==
    ASSUME AlertInv, NEW c \in Callers, Alert(c)
    PROVE  AlertInv'
<1> DEFINE e == call[c].event
           g == Pruned[e.key]
<1>a. BaseOK /\ outstanding \in [Keys -> Int] /\ (\A k \in Keys : KeyInv(k)) /\ ThreadsOK /\ TypeOK
  BY ByKeys DEF KeysInv, BaseOK, AlertInv, HeldHasTimer
<1>b. /\ group \in [Keys -> Groups \cup {NoGroup}] /\ call \in [Callers -> Calls]
      /\ timer \in [Timers -> TimerStates]
  BY <1>a DEF BaseOK, ThreadsOK
<1>c. /\ call[c].at = "decide" /\ GoesOut(g, e.rank) /\ Track(e) /\ PruneNow
      /\ group' = IF Window = 0 THEN group ELSE [Pruned EXCEPT ![e.key] = NewGroup(e.rank)]
      /\ timer' = IF g = NoGroup THEN timer ELSE Cancel(g.timer)
      /\ call' = [call EXCEPT ![c] = [at |-> "send", event |-> e, repeats |-> Repeats(g)]]
      /\ UNCHANGED <<outstanding, alerted, exits>>
  BY DEF Alert
<1>d. e \in Events /\ e.key \in Keys /\ e.rank \in Ranks
  BY <1>a, <1>c, ThreadCases
<1>e. Window \in Nat /\ MaxHeld \in Nat \ {0} /\ PruneEvery \in Nat \ {0}
  BY AlertConstants
<1>. HIDE DEF e, g
<1>1. \A k \in Keys :
         /\ Pruned[k] = group[k] \/ (Pruned[k] = NoGroup /\ Repeats(group[k]) = 0)
         /\ Repeats(Pruned[k]) = Repeats(group[k])
         /\ Pruned[k] # NoGroup => Pruned[k] = group[k] /\ Window > 0
  BY PrunedKeeps
<1>2. Pruned \in [Keys -> Groups \cup {NoGroup}] /\ g = Pruned[e.key]
  BY <1>d, PrunedKeeps DEF g, e
<1>3. Repeats(g) \in 0..MaxHeld /\ Repeats(g) = Repeats(group[e.key])
  BY <1>1, <1>2, <1>d, <1>e DEF Repeats, Groups
(* The only timer cancelled is the one of the window that is closed. *)
<1>4. \/ timer' = timer
      \/ \E t \in Timers : /\ timer[t].at = "waiting" /\ timer[t].key = e.key
                           /\ timer' = [timer EXCEPT ![t] = DeadTimer]
  <2>1. CASE g = NoGroup \/ g.timer = NoTimer
    BY <1>c, <2>1 DEF Cancel
  <2>2. CASE g # NoGroup /\ g.timer # NoTimer
    <3>1. g = group[e.key] /\ KeyInv(e.key) /\ g \in Groups
      BY <1>1, <1>2, <1>a, <1>d, <2>2
    <3>2. g.held # 0 /\ g.held \in 0..MaxHeld
      BY <2>2, <3>1 DEF KeyInv, WindowAt, Groups
    <3>3. g.held > 0
      BY <1>e, <3>2
    <3>4. timer[g.timer].key = e.key /\ g.timer \in Timers
      BY <2>2, <3>1, <3>3 DEF KeyInv, TimerAt, Groups
    <3>. QED
      BY <1>c, <2>2, <3>4 DEF Cancel
  <2>. QED
    BY <2>1, <2>2
<1>5. timer' \in [Timers -> TimerStates]
  BY <1>b, <1>4 DEF TimerStates
<1>6. call' \in [Callers -> Calls]
  BY <1>b, <1>c, <1>d, <1>3 DEF Calls
<1>7. group' \in [Keys -> Groups \cup {NoGroup}]
  <2>1. NewGroup(e.rank) \in Groups
    BY <1>d, <1>e DEF NewGroup, Groups
  <2>. QED
    BY <1>b, <1>c, <1>2, <2>1
<1>8. sincePrune' \in 0..PruneEvery
  BY <1>a, <1>c, <1>e DEF PruneNow, BaseOK
<1>9. BaseOK' /\ ThreadsOK'
  <2>1. /\ seen' \in [Sessions -> Ranks \cup {NoRank}]
        /\ order' \in Seq(Sessions) /\ Len(order') <= MaxTracked /\ IsInjective(order')
        /\ ToSet(order') = {s \in Sessions : seen'[s] # NoRank}
    BY <1>a, <1>c, <1>d, TrackKeeps
  <2>2. ThreadsOK'
    BY <1>5, <1>6 DEF ThreadsOK
  <2>. QED
    BY <1>a, <1>c, <1>7, <1>8, <2>1, <2>2 DEF BaseOK
<1>10. ASSUME NEW k \in Keys PROVE KeyInv(k)'
  <2>1. BySends(k)' = BySends(k) + IF e.key = k THEN Repeats(g) ELSE 0
    <3>1. /\ call[c].at # "send" /\ call'[c] = [at |-> "send", event |-> e, repeats |-> Repeats(g)]
          /\ \A d \in Callers : d # c => call'[d] = call[d]
      BY <1>b, <1>c
    <3>2. call'[c].at = "send" /\ call'[c].event = e /\ call'[c].repeats = Repeats(g)
      BY <3>1
    <3>3. BySends(k)' = BySends(k) + IF call'[c].event.key = k THEN call'[c].repeats ELSE 0
      BY <1>a, <1>9, <3>1, <3>2, SendsUp
    <3>. QED
      BY <3>2, <3>3
  <2>2. ByTells(k)' = ByTells(k)
    <3>1. \A t \in Timers : timer[t].at = "targets" \/ timer'[t].at = "targets" => timer'[t] = timer[t]
      BY <1>b, <1>4 DEF DeadTimer
    <3>. QED
      BY <3>1, TellsStay
  <2>3. CASE k # e.key
    <3>1. group'[k] = group[k] \/ (group'[k] = NoGroup /\ Repeats(group[k]) = 0)
      BY <1>b, <1>c, <1>1, <1>2, <2>3
    <3>2. \A t \in Timers : timer[t].at \in {"waiting", "fired"} /\ timer[t].key = k
                               => timer'[t] = timer[t]
      BY <1>b, <1>4, <2>3
    <3>3. BySends(k)' = BySends(k)
      <4>1. BySends(k) \in Nat
        BY <1>a, FlightType
      <4>. QED
        BY <2>1, <2>3, <4>1
    <3>4. group[k] # NoGroup => group[k].timer \in Timers \cup {NoTimer}
      BY <1>b DEF Groups
    <3>. QED
      BY <1>a, <1>c, <2>2, <3>1, <3>2, <3>3, <3>4, KeyStays
  <2>4. CASE k = e.key /\ Window = 0
    <3>1. group[k] = NoGroup /\ group'[k] = NoGroup
      BY <1>a, <1>c, <2>4 DEF KeyInv, WindowAt
    <3>2. BySends(k)' = BySends(k)
      <4>1. Repeats(g) = 0 /\ BySends(k) \in Nat
        BY <1>a, <1>3, <2>4, <3>1, FlightType DEF Repeats
      <4>. QED
        BY <2>1, <4>1
    <3>. QED
      BY <1>a, <1>c, <2>2, <3>1, <3>2 DEF KeyInv, WindowAt, TimerAt, CountAt, Repeats
  <2>5. CASE k = e.key /\ Window # 0
    <3>1. group'[k] = NewGroup(e.rank)
      BY <1>c, <1>2, <2>5
    <3>2. group'[k].held = 0 /\ group'[k].timer = NoTimer /\ Repeats(group'[k]) = 0
      BY <3>1 DEF NewGroup, Repeats
    <3>3. CountAt(k)'
      <4>1. CountAt(k) /\ BySends(k) \in Nat /\ ByTells(k) \in Nat /\ outstanding'[k] = outstanding[k]
        BY <1>a, <1>c, FlightType DEF KeyInv
      <4>2. outstanding'[k] = BySends(k)' + ByTells(k)' + Repeats(group'[k])
        BY <1>3, <1>e, <2>1, <2>2, <2>5, <3>2, <4>1 DEF CountAt
      <4>. QED
        BY <4>2 DEF CountAt, Repeats
    <3>4. WindowAt(k)' /\ TimerAt(k)'
      BY <1>e, <2>5, <3>2 DEF WindowAt, TimerAt
    <3>. QED
      BY <3>3, <3>4 DEF KeyInv
  <2>. QED
    BY <2>3, <2>4, <2>5
<1>11. outstanding' \in [Keys -> Int]
  BY <1>a, <1>c
<1>12. KeysInv'
  BY <1>9, <1>10, <1>11 DEF KeysInv
<1>. QED
  BY <1>12, ByKeys, PTL

(* A window that holds one session more.                                   *)
LEMMA HeldOf ==
    ASSUME NEW g \in Groups, g.held < MaxHeld, NEW e, e.rank \in Ranks,
           NEW t \in Timers \cup {NoTimer}
    PROVE  /\ Held(g, e, t).age = g.age /\ Held(g, e, t).rank = g.rank
           /\ Held(g, e, t).held = g.held + 1 /\ Held(g, e, t).latest = e.rank
           /\ Held(g, e, t).timer = t /\ Held(g, e, t) \in Groups
<1>1. g.held + 1 \in 0..MaxHeld
  BY AlertConstants DEF Groups
<1>2. /\ Held(g, e, t).age = g.age /\ Held(g, e, t).rank = g.rank
      /\ Held(g, e, t).held = g.held + 1 /\ Held(g, e, t).latest = e.rank
      /\ Held(g, e, t).timer = t
  BY DEF Held, Groups
<1>3. Held(g, e, t) \in Groups
  BY <1>1 DEF Held, Groups
<1>. QED
  BY <1>2, <1>3

(* An alert held back is counted in the window of its key, whose timer is  *)
(* running or is started now.                                              *)
LEMMA HoldKeeps ==
    ASSUME AlertInv, NEW c \in Callers, Hold(c)
    PROVE  AlertInv'
<1> DEFINE e == call[c].event
           g == Pruned[e.key]
<1>a. BaseOK /\ outstanding \in [Keys -> Int] /\ (\A k \in Keys : KeyInv(k)) /\ ThreadsOK /\ TypeOK
  BY ByKeys DEF KeysInv, BaseOK, AlertInv, HeldHasTimer
<1>b. /\ group \in [Keys -> Groups \cup {NoGroup}] /\ call \in [Callers -> Calls]
      /\ timer \in [Timers -> TimerStates]
  BY <1>a DEF BaseOK, ThreadsOK
<1>c. /\ call[c].at = "decide" /\ ~GoesOut(g, e.rank) /\ Track(e) /\ PruneNow
      /\ g.held < MaxHeld
      /\ outstanding' = [outstanding EXCEPT ![e.key] = @ + 1]
      /\ call' = [call EXCEPT ![c] = IdleCall]
      /\ UNCHANGED <<alerted, exits>>
  BY DEF Hold
<1>d. e \in Events /\ e.key \in Keys /\ e.rank \in Ranks
  BY <1>a, <1>c, ThreadCases
<1>e. /\ Window \in Nat /\ MaxHeld \in Nat \ {0} /\ PruneEvery \in Nat \ {0}
      /\ Ranks \subseteq 0..4 /\ NoTimer \notin Timers /\ NoGroup \notin Groups
  BY AlertConstants
(* The timer of the window after the step: its own, or one that was dead. *)
<1>f. \E t \in Timers \cup {NoTimer} :
         /\ group' = [Pruned EXCEPT ![e.key] = Held(g, e, t)]
         /\ \/ g.timer # NoTimer /\ t = g.timer /\ UNCHANGED timer
            \/ /\ t \in Timers /\ timer[t].at = "dead" /\ g.timer = NoTimer
               /\ timer' = [timer EXCEPT ![t] = [at |-> "waiting", key |-> e.key,
                                                 left |-> Window - g.age]]
  <2>1. CASE ~StartsTimer(g) /\ group' = [Pruned EXCEPT ![e.key] = Held(g, e, g.timer)]
             /\ UNCHANGED timer
    <3>1. g.timer \in Timers \cup {NoTimer}
      <4>1. g \in Groups \cup {NoGroup}
        BY <1>d, PrunedKeeps
      <4>2. g # NoGroup
        BY <1>c DEF GoesOut
      <4>. QED
        BY <4>1, <4>2 DEF Groups
    <3>. QED
      BY <2>1, <3>1 DEF StartsTimer
  <2>2. CASE \E t \in Timers :
                /\ StartsTimer(g) /\ ~Alive(t)
                /\ group' = [Pruned EXCEPT ![e.key] = Held(g, e, t)]
                /\ timer' = [timer EXCEPT ![t] = [at |-> "waiting", key |-> e.key,
                                                  left |-> Window - g.age]]
    BY <2>2 DEF StartsTimer, Alive
  <2>. QED
    BY <2>1, <2>2 DEF Hold
<1>. HIDE DEF e, g
<1>1. \A k \in Keys :
         /\ Pruned[k] = group[k] \/ (Pruned[k] = NoGroup /\ Repeats(group[k]) = 0)
         /\ Pruned[k] # NoGroup => Pruned[k] = group[k] /\ Window > 0
  BY PrunedKeeps
<1>2. /\ Pruned \in [Keys -> Groups \cup {NoGroup}] /\ g = Pruned[e.key]
      /\ g # NoGroup /\ g = group[e.key] /\ g \in Groups
      /\ g.age < Window /\ e.rank <= g.rank /\ e.rank # Critical
  <2>1. Pruned \in [Keys -> Groups \cup {NoGroup}] /\ g = Pruned[e.key]
    BY <1>d, PrunedKeeps DEF g, e
  <2>2. g # NoGroup /\ ~(g.age >= Window) /\ ~(e.rank > g.rank) /\ e.rank # Critical
    BY <1>c DEF GoesOut
  <2>3. g \in Groups /\ g = group[e.key]
    BY <1>1, <1>d, <2>1, <2>2
  <2>4. g.age \in 0..Window /\ g.rank \in 0..4 /\ e.rank \in 0..4
    BY <1>d, <1>e, <2>3 DEF Groups
  <2>. QED
    BY <1>e, <2>1, <2>2, <2>3, <2>4
<1>3. /\ g.age \in 0..Window /\ g.held \in 0..MaxHeld /\ g.rank \in Ranks
      /\ g.timer \in Timers \cup {NoTimer} /\ (g.timer = NoTimer <=> g.held = 0)
  BY <1>2, <1>a, <1>d DEF Groups, KeyInv, WindowAt
<1>4. PICK t \in Timers \cup {NoTimer} :
         /\ group' = [Pruned EXCEPT ![e.key] = Held(g, e, t)]
         /\ \/ g.timer # NoTimer /\ t = g.timer /\ UNCHANGED timer
            \/ /\ t \in Timers /\ timer[t].at = "dead" /\ g.timer = NoTimer
               /\ timer' = [timer EXCEPT ![t] = [at |-> "waiting", key |-> e.key,
                                                 left |-> Window - g.age]]
  BY <1>f
<1>5. timer' \in [Timers -> TimerStates]
  <2>1. Window - g.age \in 0..Window
    BY <1>3, <1>e
  <2>. QED
    BY <1>b, <1>4, <1>d, <2>1 DEF TimerStates
<1>6. call' \in [Callers -> Calls]
  BY <1>b, <1>c DEF Calls
<1>7. /\ Held(g, e, t).age = g.age /\ Held(g, e, t).rank = g.rank
      /\ Held(g, e, t).held = g.held + 1 /\ Held(g, e, t).latest = e.rank
      /\ Held(g, e, t).timer = t /\ Held(g, e, t) \in Groups
  BY <1>2, <1>c, <1>d, HeldOf
<1>8. group' \in [Keys -> Groups \cup {NoGroup}]
  BY <1>2, <1>4, <1>7
<1>9. sincePrune' \in 0..PruneEvery
  BY <1>a, <1>c, <1>e DEF PruneNow, BaseOK
<1>10. BaseOK' /\ ThreadsOK'
  <2>1. /\ seen' \in [Sessions -> Ranks \cup {NoRank}]
        /\ order' \in Seq(Sessions) /\ Len(order') <= MaxTracked /\ IsInjective(order')
        /\ ToSet(order') = {s \in Sessions : seen'[s] # NoRank}
    BY <1>a, <1>c, <1>d, TrackKeeps
  <2>2. ThreadsOK'
    BY <1>5, <1>6 DEF ThreadsOK
  <2>. QED
    BY <1>a, <1>c, <1>8, <1>9, <2>1, <2>2 DEF BaseOK
<1>11. ASSUME NEW k \in Keys PROVE KeyInv(k)'
  <2>1. BySends(k)' = BySends(k)
    <3>1. \A d \in Callers : call[d].at = "send" \/ call'[d].at = "send" => call'[d] = call[d]
      BY <1>b, <1>c DEF IdleCall
    <3>. QED
      BY <3>1, SendsStay
  <2>2. ByTells(k)' = ByTells(k)
    <3>1. \A u \in Timers : timer[u].at = "targets" \/ timer'[u].at = "targets" => timer'[u] = timer[u]
      BY <1>b, <1>4
    <3>. QED
      BY <3>1, TellsStay
  <2>3. CASE k # e.key
    <3>1. group'[k] = group[k] \/ (group'[k] = NoGroup /\ Repeats(group[k]) = 0)
      BY <1>1, <1>2, <1>4, <2>3
    <3>2. \A u \in Timers : timer[u].at \in {"waiting", "fired"} /\ timer[u].key = k
                               => timer'[u] = timer[u]
      BY <1>b, <1>4
    <3>3. group[k] # NoGroup => group[k].timer \in Timers \cup {NoTimer}
      BY <1>b DEF Groups
    <3>4. outstanding'[k] = outstanding[k]
      BY <1>a, <1>c, <2>3
    <3>. QED
      BY <1>a, <2>1, <2>2, <3>1, <3>2, <3>3, <3>4, KeyStays
  <2>4. CASE k = e.key
    <3>1. group'[k] = Held(g, e, t) /\ group'[k] \in Groups
      BY <1>2, <1>4, <1>7, <2>4
    <3>2. /\ group'[k].age = g.age /\ group'[k].rank = g.rank /\ group'[k].held = g.held + 1
          /\ group'[k].latest = e.rank /\ group'[k].timer = t /\ group'[k] # NoGroup
      BY <1>e, <1>7, <3>1
    <3>3. /\ t # NoTimer /\ timer'[t].at \in {"waiting", "fired"} /\ timer'[t].key = k
          /\ timer'[t].at = "waiting" => timer'[t].left = Window - g.age
      <4>1. CASE g.timer # NoTimer /\ t = g.timer /\ UNCHANGED timer
        <5>1. g.held > 0
          BY <1>3, <1>e, <4>1
        <5>2. TimerAt(k) /\ group[k] = g
          BY <1>a, <1>2, <2>4 DEF KeyInv
        <5>. QED
          BY <1>2, <4>1, <5>1, <5>2 DEF TimerAt
      <4>2. CASE /\ t \in Timers /\ timer[t].at = "dead" /\ g.timer = NoTimer
                 /\ timer' = [timer EXCEPT ![t] = [at |-> "waiting", key |-> e.key,
                                                   left |-> Window - g.age]]
        <5>1. timer'[t] = [at |-> "waiting", key |-> e.key, left |-> Window - g.age]
          BY <1>b, <4>2
        <5>2. timer'[t].at = "waiting" /\ timer'[t].key = e.key /\ timer'[t].left = Window - g.age
          BY <5>1
        <5>. QED
          BY <1>e, <2>4, <4>2, <5>2
      <4>. QED
        BY <1>4, <4>1, <4>2
    <3>4. WindowAt(k)'
      <4>1. g.held + 1 # 0 /\ Window > 0
        BY <1>1, <1>2, <1>3, <1>d, <1>e
      <4>. QED
        BY <3>2, <3>3, <4>1 DEF WindowAt
    <3>5. TimerAt(k)'
      <4>1. e.rank <= g.rank /\ e.rank < Critical
        <5>1. e.rank \in 0..4
          BY <1>d, <1>e
        <5>. QED
          BY <1>2, <5>1 DEF Critical
      <4>. QED
        BY <3>2, <3>3, <4>1 DEF TimerAt
    <3>6. CountAt(k)'
      <4>1. /\ CountAt(k) /\ BySends(k) \in Nat /\ ByTells(k) \in Nat
            /\ outstanding'[k] = outstanding[k] + 1
        BY <1>a, <1>c, <2>4, FlightType DEF KeyInv
      <4>2. Repeats(group[k]) = g.held /\ Repeats(group'[k]) = g.held + 1
        BY <1>2, <2>4, <3>2 DEF Repeats
      <4>3. outstanding'[k] = BySends(k)' + ByTells(k)' + Repeats(group'[k])
        BY <1>3, <2>1, <2>2, <4>1, <4>2 DEF CountAt
      <4>. QED
        BY <4>3 DEF CountAt, Repeats
    <3>. QED
      BY <3>4, <3>5, <3>6 DEF KeyInv
  <2>. QED
    BY <2>3, <2>4
<1>12. outstanding' \in [Keys -> Int]
  <2>1. outstanding[e.key] \in Int
    BY <1>a, <1>d
  <2>2. outstanding[e.key] + 1 \in Int
    BY <2>1
  <2>. QED
    BY <1>a, <1>c, <2>2
<1>13. KeysInv'
  BY <1>10, <1>11, <1>12 DEF KeysInv
<1>. QED
  BY <1>13, ByKeys, PTL

(* A call taken up, or dropped as a repeat, tells of nothing. *)
LEMMA CallKeeps ==
    ASSUME AlertInv, NEW c \in Callers, (\E e \in Events : Call(c, e)) \/ DropRepeat(c)
    PROVE  AlertInv'
<1>a. BaseOK /\ outstanding \in [Keys -> Int] /\ (\A k \in Keys : KeyInv(k)) /\ ThreadsOK
  BY ByKeys DEF KeysInv, BaseOK
<1>b. /\ group \in [Keys -> Groups \cup {NoGroup}] /\ call \in [Callers -> Calls]
  BY <1>a DEF BaseOK, ThreadsOK
<1>f. UNCHANGED <<group, seen, order, sincePrune, timer, outstanding, alerted, exits>>
  BY DEF Call, DropRepeat
<1>1. PICK x \in Calls :
         call[c].at # "send" /\ x.at # "send" /\ call' = [call EXCEPT ![c] = x]
  <2>1. CASE DropRepeat(c)
    <3>1. IdleCall \in Calls /\ IdleCall.at # "send"
      BY DEF Calls, IdleCall
    <3>. QED
      BY <2>1, <3>1 DEF DropRepeat
  <2>2. ASSUME NEW e \in Events, Call(c, e)
        PROVE  \E x \in Calls : call[c].at # "send" /\ x.at # "send" /\ call' = [call EXCEPT ![c] = x]
    <3> DEFINE x == [at |-> "decide", event |-> e]
    <3>1. x \in Calls /\ x.at # "send"
      BY DEF Calls
    <3>2. call[c].at # "send" /\ call' = [call EXCEPT ![c] = x]
      BY <2>2 DEF Call, IdleCall
    <3>. HIDE DEF x
    <3>. QED
      BY <3>1, <3>2
  <2>. QED
    BY <2>1, <2>2
<1>2. call' \in [Callers -> Calls] /\ \A d \in Callers : d # c => call'[d] = call[d]
  BY <1>b, <1>1
<1>3. BaseOK' /\ outstanding' \in [Keys -> Int]
  BY <1>a, <1>f, <1>2 DEF BaseOK, ThreadsOK
<1>4. ASSUME NEW k \in Keys PROVE KeyInv(k)'
  <2>1. BySends(k)' = BySends(k)
    <3>1. call'[c] = x
      BY <1>b, <1>1
    <3>2. \A d \in Callers : call[d].at = "send" \/ call'[d].at = "send" => call'[d] = call[d]
      BY <1>1, <1>2, <3>1
    <3>. QED
      BY <3>2, SendsStay
  <2>2. ByTells(k)' = ByTells(k)
    BY <1>f, TellsStay
  <2>3. group[k] # NoGroup => group[k].timer \in Timers \cup {NoTimer}
    BY <1>b DEF Groups
  <2>. QED
    BY <1>a, <1>f, <2>1, <2>2, <2>3, KeyStays
<1>5. KeysInv'
  BY <1>3, <1>4 DEF KeysInv
<1>. QED
  BY <1>5, ByKeys, PTL

(* A message sent has told of what it took over. *)
LEMMA DispatchKeeps ==
    ASSUME AlertInv, NEW c \in Callers, Dispatch(c)
    PROVE  AlertInv'
<1> DEFINE e == call[c].event
           n == call[c].repeats
<1>a. BaseOK /\ outstanding \in [Keys -> Int] /\ (\A k \in Keys : KeyInv(k)) /\ ThreadsOK
  BY ByKeys DEF KeysInv, BaseOK
<1>b. /\ group \in [Keys -> Groups \cup {NoGroup}] /\ call \in [Callers -> Calls]
      /\ alerted \in [Sessions -> Ranks \cup {NoRank}]
  BY <1>a DEF BaseOK, ThreadsOK
<1>c. /\ call[c].at = "send"
      /\ outstanding' = [outstanding EXCEPT ![e.key] = @ - n]
      /\ alerted' = [alerted EXCEPT ![e.session] = Max({@, e.rank})]
      /\ call' = [call EXCEPT ![c] = IdleCall]
      /\ UNCHANGED <<group, seen, order, sincePrune, timer, exits>>
  BY DEF Dispatch
<1>d. e \in Events /\ e.session \in Sessions /\ e.key \in Keys /\ e.rank \in Ranks /\ n \in 0..MaxHeld
  BY <1>a, <1>c, ThreadCases
<1>e. MaxHeld \in Nat /\ Ranks \subseteq Int /\ NoRank \in Int
  BY AlertConstants DEF NoRank
<1>1. call' \in [Callers -> Calls] /\ call'[c] = IdleCall /\ \A d \in Callers : d # c => call'[d] = call[d]
  BY <1>b, <1>c DEF Calls
<1>. HIDE DEF e, n
<1>2. alerted' \in [Sessions -> Ranks \cup {NoRank}]
  <2>1. alerted[e.session] \in Int /\ e.rank \in Int
    BY <1>b, <1>d, <1>e
  <2>2. Max({alerted[e.session], e.rank}) \in {alerted[e.session], e.rank}
    BY <2>1, MaxMinOfTwo
  <2>3. Max({alerted[e.session], e.rank}) \in Ranks \cup {NoRank}
    BY <1>b, <1>d, <2>2
  <2>. QED
    BY <1>b, <1>c, <2>3
<1>3. outstanding' \in [Keys -> Int]
  <2>1. outstanding[e.key] - n \in Int
    BY <1>a, <1>d, <1>e
  <2>. QED
    BY <1>a, <1>c, <2>1
<1>4. BaseOK'
  BY <1>a, <1>c, <1>1, <1>2 DEF BaseOK, ThreadsOK
<1>5. ASSUME NEW k \in Keys PROVE KeyInv(k)'
  <2>1. BySends(k) = BySends(k)' + (IF e.key = k THEN n ELSE 0) /\ BySends(k)' \in Nat
    <3>1. call'[c].at # "send"
      BY <1>1 DEF IdleCall
    <3>. QED
      BY <1>a, <1>c, <1>1, <3>1, SendsDown DEF e, n
  <2>2. ByTells(k)' = ByTells(k) /\ ByTells(k) \in Nat
    BY <1>a, <1>c, TellsStay, FlightType
  <2>3. group'[k] = group[k] /\ timer' = timer
    BY <1>c
  <2>4. WindowAt(k)' /\ TimerAt(k)'
    BY <1>a, <1>c DEF KeyInv, WindowAt, TimerAt
  <2>5. CountAt(k)'
    <3>1. outstanding[k] = BySends(k) + ByTells(k) + Repeats(group[k]) /\ Repeats(group[k]) \in Nat
      BY <1>a, <1>b, <1>e DEF KeyInv, CountAt, Repeats, Groups
    <3>2. outstanding'[k] = outstanding[k] - (IF e.key = k THEN n ELSE 0)
      BY <1>a, <1>c, <1>d
    <3>3. outstanding'[k] = BySends(k)' + ByTells(k)' + Repeats(group[k])
      BY <1>d, <1>e, <2>1, <2>2, <3>1, <3>2
    <3>. QED
      BY <2>3, <3>3 DEF CountAt, Repeats
  <2>. QED
    BY <2>4, <2>5 DEF KeyInv
<1>6. KeysInv'
  BY <1>3, <1>4, <1>5 DEF KeysInv
<1>. QED
  BY <1>6, ByKeys, PTL

-----------------------------------------------------------------------------
(* A timer whose wait is over still belongs to its window; one that finds  *)
(* nothing held back belongs to none.                                      *)
LEMMA TimerEndsKeeps ==
    ASSUME AlertInv, NEW t \in Timers, TimerEnds(t) \/ FollowUpEmpty(t)
    PROVE  AlertInv'
<1>a. BaseOK /\ outstanding \in [Keys -> Int] /\ (\A k \in Keys : KeyInv(k)) /\ ThreadsOK
  BY ByKeys DEF KeysInv, BaseOK
<1>b. group \in [Keys -> Groups \cup {NoGroup}] /\ timer \in [Timers -> TimerStates]
  BY <1>a DEF BaseOK, ThreadsOK
<1>1. UNCHANGED <<group, seen, order, sincePrune, call, outstanding, alerted, exits>>
  BY DEF TimerEnds, FollowUpEmpty
<1>2. PICK x \in TimerStates :
         /\ timer' = [timer EXCEPT ![t] = x]
         /\ x.at # "targets" /\ timer[t].at # "targets"
         /\ \/ timer[t].at = "waiting" /\ x.at = "fired" /\ x.key = timer[t].key
            \/ timer[t].at = "fired" /\ NothingHeld(timer[t].key)
  <2>1. CASE TimerEnds(t)
    <3>1. timer[t].key \in Keys
      BY <1>a, <2>1, ThreadCases DEF TimerEnds
    <3> DEFINE x == [at |-> "fired", key |-> timer[t].key]
    <3>2. x \in TimerStates /\ x.at = "fired" /\ x.key = timer[t].key
      BY <3>1 DEF TimerStates
    <3>3. timer' = [timer EXCEPT ![t] = x] /\ timer[t].at = "waiting"
      BY <2>1 DEF TimerEnds
    <3>. QED
      BY <3>2, <3>3
  <2>2. CASE FollowUpEmpty(t)
    <3>1. DeadTimer \in TimerStates /\ DeadTimer.at = "dead"
      BY DEF TimerStates, DeadTimer
    <3>. QED
      BY <2>2, <3>1 DEF FollowUpEmpty
  <2>. QED
    BY <2>1, <2>2
<1>3. timer' \in [Timers -> TimerStates] /\ timer'[t] = x /\ \A u \in Timers : u # t => timer'[u] = timer[u]
  BY <1>b, <1>2
<1>4. BaseOK' /\ outstanding' \in [Keys -> Int]
  BY <1>a, <1>1, <1>3 DEF BaseOK, ThreadsOK
<1>5. ASSUME NEW k \in Keys PROVE KeyInv(k)'
  <2>1. BySends(k)' = BySends(k)
    BY <1>1, SendsStay
  <2>2. ByTells(k)' = ByTells(k)
    <3>1. \A u \in Timers : timer[u].at = "targets" \/ timer'[u].at = "targets" => timer'[u] = timer[u]
      BY <1>2, <1>3
    <3>. QED
      BY <3>1, TellsStay
  <2>3. WindowAt(k)'
    BY <1>a, <1>1 DEF KeyInv, WindowAt
  <2>4. CountAt(k)'
    BY <1>a, <1>1, <2>1, <2>2 DEF KeyInv, CountAt, Repeats
  <2>5. TimerAt(k)'
    <3>1. SUFFICES ASSUME group[k] # NoGroup, group[k].held > 0
                   PROVE  TimerAt(k)'
      BY <1>1 DEF TimerAt
    <3>2. TimerAt(k) /\ group[k].timer \in Timers \cup {NoTimer}
      BY <1>a, <1>b, <3>1 DEF KeyInv, Groups
    <3>3. CASE group[k].timer # t
      BY <1>1, <1>3, <3>1, <3>2, <3>3 DEF TimerAt
    <3>4. CASE group[k].timer = t
      <4>1. timer[t].key = k /\ ~NothingHeld(k)
        <5>1. timer[t].key = k /\ group[k].held # 0
          BY <1>b, <3>1, <3>2, <3>4, AlertConstants DEF TimerAt, Groups
        <5>. QED
          BY <3>1, <5>1 DEF NothingHeld
      <4>2. x.at = "fired" /\ x.key = k
        BY <1>2, <4>1
      <4>. QED
        BY <1>1, <1>3, <3>1, <3>2, <3>4, <4>2 DEF TimerAt
    <3>. QED
      BY <3>3, <3>4
  <2>. QED
    BY <2>3, <2>4, <2>5 DEF KeyInv
<1>6. KeysInv'
  BY <1>4, <1>5 DEF KeysInv
<1>. QED
  BY <1>6, ByKeys, PTL

(* A follow-up takes what its window held back, and opens a new one.       *)
LEMMA FollowUpKeeps ==
    ASSUME AlertInv, NEW t \in Timers, FollowUp(t)
    PROVE  AlertInv'
<1> DEFINE k0 == timer[t].key
           g  == group[k0]
           x  == [at |-> "targets", key |-> k0, repeats |-> g.held]
<1>a. BaseOK /\ outstanding \in [Keys -> Int] /\ (\A k \in Keys : KeyInv(k)) /\ ThreadsOK
  BY ByKeys DEF KeysInv, BaseOK
<1>b. group \in [Keys -> Groups \cup {NoGroup}] /\ timer \in [Timers -> TimerStates]
  BY <1>a DEF BaseOK, ThreadsOK
<1>c. /\ timer[t].at = "fired" /\ ~NothingHeld(k0)
      /\ timer' = [timer EXCEPT ![t] = x]
      /\ group' = [group EXCEPT ![k0] = NewGroup(group[k0].rank)]
      /\ UNCHANGED <<seen, order, sincePrune, call, outstanding, alerted, exits>>
  BY DEF FollowUp
<1>d. k0 \in Keys
  BY <1>a, <1>c, ThreadCases
<1>e. Window \in Nat /\ MaxHeld \in Nat /\ NoGroup \notin Groups
  BY AlertConstants
<1>1. /\ g # NoGroup /\ g.held # 0 /\ g \in Groups /\ g.held \in 0..MaxHeld /\ g.rank \in Ranks
      /\ Window > 0
  <2>1. g # NoGroup /\ g.held # 0
    BY <1>c DEF NothingHeld
  <2>. QED
    BY <1>a, <1>b, <1>d, <2>1 DEF Groups, KeyInv, WindowAt
<1>2. x \in TimerStates /\ x.at = "targets" /\ x.key = k0 /\ x.repeats = g.held
  BY <1>1, <1>d DEF TimerStates
<1>. HIDE DEF k0, g, x
<1>3. timer' \in [Timers -> TimerStates] /\ timer'[t] = x /\ \A u \in Timers : u # t => timer'[u] = timer[u]
  BY <1>b, <1>c, <1>2
<1>4. NewGroup(group[k0].rank) \in Groups
  BY <1>1, <1>e DEF NewGroup, Groups, g
<1>5. group' \in [Keys -> Groups \cup {NoGroup}]
  BY <1>b, <1>c, <1>4
<1>6. BaseOK' /\ outstanding' \in [Keys -> Int] /\ ThreadsOK'
  BY <1>a, <1>c, <1>3, <1>5 DEF BaseOK, ThreadsOK
<1>7. ASSUME NEW k \in Keys PROVE KeyInv(k)'
  <2>1. BySends(k)' = BySends(k) /\ BySends(k) \in Nat
    BY <1>a, <1>c, SendsStay, FlightType
  <2>2. ByTells(k)' = ByTells(k) + (IF k0 = k THEN g.held ELSE 0) /\ ByTells(k) \in Nat
    <3>1. ByTells(k)' = ByTells(k) + IF timer'[t].key = k THEN timer'[t].repeats ELSE 0
      <4>1. timer[t].at # "targets" /\ timer'[t].at = "targets"
        BY <1>c, <1>2, <1>3
      <4>. QED
        BY <1>a, <1>3, <1>6, <4>1, TellsUp
    <3>2. ByTells(k) \in Nat
      BY <1>a, FlightType
    <3>. QED
      BY <1>2, <1>3, <3>1, <3>2
  <2>3. outstanding[k] = BySends(k) + ByTells(k) + Repeats(group[k]) /\ outstanding'[k] = outstanding[k]
    BY <1>a, <1>c DEF KeyInv, CountAt
  <2>4. CASE k = k0
    <3>1. group'[k] = NewGroup(group[k0].rank)
      BY <1>b, <1>c, <1>d, <2>4
    <3>2. group'[k].held = 0 /\ group'[k].timer = NoTimer /\ Repeats(group'[k]) = 0
      BY <3>1 DEF NewGroup, Repeats
    <3>3. WindowAt(k)' /\ TimerAt(k)'
      BY <1>1, <3>2 DEF WindowAt, TimerAt
    <3>4. Repeats(group[k]) = g.held
      BY <1>1, <2>4 DEF Repeats, g
    <3>5. outstanding'[k] = BySends(k)' + ByTells(k)' + Repeats(group'[k])
      BY <1>1, <1>e, <2>1, <2>2, <2>3, <2>4, <3>2, <3>4
    <3>. QED
      BY <3>3, <3>5 DEF KeyInv, CountAt, Repeats
  <2>5. CASE k # k0
    <3>1. group'[k] = group[k] /\ ByTells(k)' = ByTells(k)
      BY <1>b, <1>c, <2>2, <2>5
    <3>2. \A u \in Timers : timer[u].at \in {"waiting", "fired"} /\ timer[u].key = k
                                => timer'[u] = timer[u]
      BY <1>3, <2>5 DEF k0
    <3>3. group[k] # NoGroup => group[k].timer \in Timers \cup {NoTimer}
      BY <1>b DEF Groups
    <3>. QED
      BY <1>a, <2>1, <2>3, <3>1, <3>2, <3>3, KeyStays
  <2>. QED
    BY <2>4, <2>5
<1>8. KeysInv'
  BY <1>6, <1>7 DEF KeysInv
<1>. QED
  BY <1>8, ByKeys, PTL

(* A follow-up sent, or given up, has told of what it took. *)
LEMMA FollowUpDoneKeeps ==
    ASSUME AlertInv, NEW t \in Timers, FollowUpDone(t)
    PROVE  AlertInv'
<1> DEFINE k0 == timer[t].key
           n  == timer[t].repeats
<1>a. BaseOK /\ outstanding \in [Keys -> Int] /\ (\A k \in Keys : KeyInv(k)) /\ ThreadsOK
  BY ByKeys DEF KeysInv, BaseOK
<1>b. group \in [Keys -> Groups \cup {NoGroup}] /\ timer \in [Timers -> TimerStates]
  BY <1>a DEF BaseOK, ThreadsOK
<1>c. /\ timer[t].at = "targets"
      /\ outstanding' = [outstanding EXCEPT ![k0] = @ - n]
      /\ timer' = [timer EXCEPT ![t] = DeadTimer]
      /\ UNCHANGED <<group, seen, order, sincePrune, call, alerted, exits>>
  BY DEF FollowUpDone
<1>d. k0 \in Keys /\ n \in 0..MaxHeld
  BY <1>a, <1>c, ThreadCases
<1>e. MaxHeld \in Nat
  BY AlertConstants
<1>1. /\ timer' \in [Timers -> TimerStates] /\ timer'[t].at = "dead"
      /\ \A u \in Timers : u # t => timer'[u] = timer[u]
  BY <1>b, <1>c DEF TimerStates, DeadTimer
<1>. HIDE DEF k0, n
<1>2. outstanding' \in [Keys -> Int]
  <2>1. outstanding[k0] - n \in Int
    BY <1>a, <1>d, <1>e
  <2>. QED
    BY <1>a, <1>c, <2>1
<1>3. BaseOK'
  BY <1>a, <1>c, <1>1 DEF BaseOK, ThreadsOK
<1>4. ASSUME NEW k \in Keys PROVE KeyInv(k)'
  <2>1. BySends(k)' = BySends(k) /\ BySends(k) \in Nat
    BY <1>a, <1>c, SendsStay, FlightType
  <2>2. ByTells(k) = ByTells(k)' + (IF k0 = k THEN n ELSE 0) /\ ByTells(k)' \in Nat
    <3>1. timer'[t].at # "targets"
      BY <1>1
    <3>. QED
      BY <1>a, <1>c, <1>1, <3>1, TellsDown DEF k0, n
  <2>3. WindowAt(k)'
    BY <1>a, <1>c DEF KeyInv, WindowAt
  <2>4. TimerAt(k)'
    <3>1. SUFFICES ASSUME group[k] # NoGroup, group[k].held > 0 PROVE TimerAt(k)'
      BY <1>c DEF TimerAt
    <3>2. TimerAt(k) /\ group[k].timer \in Timers \cup {NoTimer}
      BY <1>a, <1>b, <3>1 DEF KeyInv, Groups
    <3>3. group[k].timer # t
      BY <1>c, <3>1, <3>2 DEF TimerAt
    <3>. QED
      BY <1>c, <1>1, <3>1, <3>2, <3>3 DEF TimerAt
  <2>5. CountAt(k)'
    <3>1. outstanding[k] = BySends(k) + ByTells(k) + Repeats(group[k]) /\ Repeats(group[k]) \in Nat
      BY <1>a, <1>b, <1>e DEF KeyInv, CountAt, Repeats, Groups
    <3>2. outstanding'[k] = outstanding[k] - (IF k0 = k THEN n ELSE 0)
      BY <1>a, <1>c, <1>d
    <3>3. outstanding'[k] = BySends(k)' + ByTells(k)' + Repeats(group[k])
      BY <1>d, <1>e, <2>1, <2>2, <3>1, <3>2
    <3>. QED
      BY <1>c, <3>3 DEF CountAt, Repeats
  <2>. QED
    BY <2>3, <2>4, <2>5 DEF KeyInv
<1>5. KeysInv'
  BY <1>2, <1>3, <1>4 DEF KeysInv
<1>. QED
  BY <1>5, ByKeys, PTL

-----------------------------------------------------------------------------
(* Time passes for a window and its timer alike.                           *)
LEMMA TickKeeps ==
    ASSUME AlertInv, Tick
    PROVE  AlertInv'
<1>a. BaseOK /\ outstanding \in [Keys -> Int] /\ (\A k \in Keys : KeyInv(k)) /\ ThreadsOK
  BY ByKeys DEF KeysInv, BaseOK
<1>b. group \in [Keys -> Groups \cup {NoGroup}] /\ timer \in [Timers -> TimerStates]
  BY <1>a DEF BaseOK, ThreadsOK
<1>c. /\ \A k \in Keys : group'[k] = IF group[k] = NoGroup THEN NoGroup
                                     ELSE [group[k] EXCEPT !.age = Older(group[k].age, Window)]
      /\ group' = [k \in Keys |-> group'[k]]
      /\ sincePrune' = Older(sincePrune, PruneEvery)
      /\ \A t \in Timers : timer'[t] = IF timer[t].at = "waiting"
                                       THEN [timer[t] EXCEPT !.left = Max({timer[t].left - 1, 0})]
                                       ELSE timer[t]
      /\ timer' = [t \in Timers |-> timer'[t]]
      /\ UNCHANGED <<seen, order, call, outstanding, alerted, exits>>
  BY DEF Tick
<1>e. Window \in Nat /\ PruneEvery \in Nat \ {0} /\ NoGroup \notin Groups
  BY AlertConstants
<1>1. ASSUME NEW n \in Nat, NEW a \in 0..n
      PROVE  Older(a, n) \in 0..n /\ Older(a, n) = IF a + 1 <= n THEN a + 1 ELSE n
  <2>1. a + 1 \in Int /\ n \in Int
    OBVIOUS
  <2>2. Older(a, n) = IF a + 1 <= n THEN a + 1 ELSE n
    BY <2>1, MaxMinOfTwo DEF Older
  <2>. QED
    BY <2>2
<1>2. ASSUME NEW a \in Nat PROVE Max({a - 1, 0}) = IF a >= 1 THEN a - 1 ELSE 0
  BY MaxMinOfTwo
<1>3. ASSUME NEW k \in Keys, group[k] # NoGroup
      PROVE  /\ group[k] \in Groups /\ group'[k] \in Groups
             /\ group'[k].age = Older(group[k].age, Window)
             /\ group'[k].rank = group[k].rank /\ group'[k].held = group[k].held
             /\ group'[k].latest = group[k].latest /\ group'[k].timer = group[k].timer
  <2>1. group[k] \in Groups /\ Older(group[k].age, Window) \in 0..Window
    BY <1>b, <1>e, <1>1, <1>3 DEF Groups
  <2>2. group'[k] = [group[k] EXCEPT !.age = Older(group[k].age, Window)]
    BY <1>c, <1>3
  <2>. QED
    BY <2>1, <2>2 DEF Groups
<1>4. ASSUME NEW k \in Keys, group[k] = NoGroup PROVE group'[k] = NoGroup
  BY <1>c, <1>4
<1>5. ASSUME NEW t \in Timers, timer[t].at = "waiting"
      PROVE  /\ timer[t].left \in 0..Window /\ timer'[t] \in TimerStates
             /\ timer'[t].at = "waiting" /\ timer'[t].key = timer[t].key
             /\ timer'[t].left = IF timer[t].left >= 1 THEN timer[t].left - 1 ELSE 0
  <2>1. timer[t] \in [at : {"waiting"}, key : Keys, left : 0..Window]
    BY <1>b, <1>5 DEF TimerStates, DeadTimer
  <2>2. Max({timer[t].left - 1, 0}) = IF timer[t].left >= 1 THEN timer[t].left - 1 ELSE 0
    BY <1>2, <1>e, <2>1
  <2>3. Max({timer[t].left - 1, 0}) \in 0..Window
    BY <1>e, <2>1, <2>2
  <2>4. timer'[t] = [timer[t] EXCEPT !.left = Max({timer[t].left - 1, 0})]
    BY <1>c, <1>5
  <2>5. timer'[t] \in [at : {"waiting"}, key : Keys, left : 0..Window]
        /\ timer'[t].key = timer[t].key /\ timer'[t].left = Max({timer[t].left - 1, 0})
    BY <2>1, <2>3, <2>4
  <2>. QED
    BY <2>1, <2>2, <2>5 DEF TimerStates
<1>6. ASSUME NEW t \in Timers, timer[t].at # "waiting" PROVE timer'[t] = timer[t]
  BY <1>c, <1>6
<1>7. group' \in [Keys -> Groups \cup {NoGroup}] /\ timer' \in [Timers -> TimerStates]
  <2>1. \A k \in Keys : group'[k] \in Groups \cup {NoGroup}
    BY <1>3, <1>4
  <2>2. \A t \in Timers : timer'[t] \in TimerStates
    BY <1>b, <1>5, <1>6
  <2>. QED
    BY <1>c, <2>1, <2>2
<1>8. sincePrune' \in 0..PruneEvery
  BY <1>a, <1>c, <1>e, <1>1 DEF BaseOK
<1>9. BaseOK' /\ outstanding' \in [Keys -> Int]
  BY <1>a, <1>c, <1>7, <1>8 DEF BaseOK, ThreadsOK
<1>10. ASSUME NEW k \in Keys PROVE KeyInv(k)'
  <2>1. BySends(k)' = BySends(k)
    BY <1>c, SendsStay
  <2>2. ByTells(k)' = ByTells(k)
    <3>1. \A t \in Timers : timer[t].at = "targets" \/ timer'[t].at = "targets" => timer'[t] = timer[t]
      BY <1>5, <1>6
    <3>. QED
      BY <3>1, TellsStay
  <2>3. CountAt(k)'
    <3>1. Repeats(group'[k]) = Repeats(group[k])
      BY <1>3, <1>4, <1>e DEF Repeats
    <3>. QED
      BY <1>a, <1>c, <2>1, <2>2, <3>1 DEF KeyInv, CountAt, Repeats
  <2>4. WindowAt(k)'
    BY <1>a, <1>3, <1>4 DEF KeyInv, WindowAt
  <2>5. TimerAt(k)'
    <3>1. SUFFICES ASSUME group'[k] # NoGroup, group'[k].held > 0 PROVE TimerAt(k)'
      BY DEF TimerAt
    <3>2. /\ group[k] # NoGroup /\ group[k].held > 0 /\ group[k].age \in 0..Window
          /\ group'[k].timer = group[k].timer /\ group'[k].rank = group[k].rank
          /\ group'[k].latest = group[k].latest
          /\ group'[k].age = IF group[k].age + 1 <= Window THEN group[k].age + 1 ELSE Window
      <4>1. group[k] # NoGroup
        BY <1>4, <3>1
      <4>2. group[k] \in Groups /\ group[k].age \in 0..Window
        BY <1>3, <4>1 DEF Groups
      <4>. QED
        BY <1>1, <1>3, <1>e, <3>1, <4>1, <4>2
    <3> DEFINE t == group[k].timer
    <3>3. /\ group[k].latest <= group[k].rank /\ group[k].latest < Critical
          /\ t # NoTimer /\ timer[t].at \in {"waiting", "fired"} /\ timer[t].key = k
          /\ timer[t].at = "waiting" => timer[t].left = Window - group[k].age
      BY <1>a, <3>2 DEF KeyInv, TimerAt
    <3>4. t \in Timers
      BY <1>b, <3>2, <3>3 DEF Groups
    <3>. HIDE DEF t
    <3>5. /\ timer'[t].at \in {"waiting", "fired"} /\ timer'[t].key = k
          /\ timer'[t].at = "waiting" => timer'[t].left = Window - group'[k].age
      <4>1. CASE timer[t].at = "waiting"
        <5>1. timer[t].left = Window - group[k].age
          BY <3>3, <4>1
        <5>2. timer'[t].left = Window - group'[k].age
          BY <1>5, <1>e, <3>2, <3>4, <4>1, <5>1
        <5>. QED
          BY <1>5, <3>3, <3>4, <4>1, <5>2
      <4>2. CASE timer[t].at # "waiting"
        BY <1>6, <3>3, <3>4, <4>2
      <4>. QED
        BY <4>1, <4>2
    <3>6. group'[k].timer = t
      BY <3>2 DEF t
    <3>. QED
      BY <3>2, <3>3, <3>5, <3>6 DEF TimerAt
  <2>. QED
    BY <2>3, <2>4, <2>5 DEF KeyInv
<1>11. KeysInv'
  BY <1>9, <1>10 DEF KeysInv
<1>. QED
  BY <1>11, ByKeys, PTL

(* Nothing held back, nothing running: the start of the process.           *)
Fresh ==
    /\ group = [k \in Keys |-> NoGroup]
    /\ seen = [s \in Sessions |-> NoRank]
    /\ order = <<>>
    /\ sincePrune = PruneEvery
    /\ call = [c \in Callers |-> IdleCall]
    /\ timer = [t \in Timers |-> DeadTimer]
    /\ outstanding = [k \in Keys |-> 0]
    /\ alerted = [s \in Sessions |-> NoRank]
    /\ exits \in 0..MaxExits

(* The invariants hold whenever the process starts.                        *)
LEMMA FreshHolds == Fresh => AlertInv /\ RankInv
<1>. SUFFICES ASSUME Fresh PROVE AlertInv /\ RankInv
  OBVIOUS
<1>. USE DEF Fresh
<1>e. Window \in Nat /\ PruneEvery \in Nat \ {0} /\ MaxTracked \in Nat \ {0} /\ MaxExits \in Nat
  BY AlertConstants
<1>1. order \in Seq(Sessions) /\ Len(order) = 0 /\ DOMAIN order = {}
  <2>1. order \in Seq(Sessions) /\ Len(order) = 0
    BY EmptySeq
  <2>2. DOMAIN order = 1..0
    BY <2>1, LenProperties
  <2>. QED
    BY <2>1, <2>2
<1>2. IsInjective(order) /\ ToSet(order) = {}
  BY <1>1 DEF IsInjective, ToSet
<1>3. ToSet(order) = {s \in Sessions : seen[s] # NoRank}
  BY <1>2
<1>4. ThreadsOK /\ (\A c \in Callers : call[c].at = "idle") /\ (\A t \in Timers : timer[t].at = "dead")
  BY DEF ThreadsOK, Calls, TimerStates, IdleCall, DeadTimer
<1>5. BaseOK /\ outstanding \in [Keys -> Int]
  BY <1>e, <1>1, <1>2, <1>3, <1>4 DEF BaseOK
<1>6. ASSUME NEW k \in Keys PROVE KeyInv(k)
  <2>1. group[k] = NoGroup /\ outstanding[k] = 0
    OBVIOUS
  <2>2. Sending(k) = {} /\ Telling(k) = {}
    BY <1>4 DEF Sending, Telling
  <2>3. Told(Sending(k), Sends(k)) = {} /\ Told(Telling(k), Tells(k)) = {}
    BY <2>2 DEF Told
  <2>4. BySends(k) = 0 /\ ByTells(k) = 0
    BY <2>3, FS_EmptySet DEF BySends, ByTells
  <2>. QED
    BY <2>1, <2>4 DEF KeyInv, WindowAt, TimerAt, CountAt, Repeats
<1>7. AlertInv
  BY <1>5, <1>6, ByKeys DEF KeysInv
<1>8. RankInv
  BY <1>4 DEF RankInv, NoRank
<1>. QED
  BY <1>7, <1>8

(* Every step keeps the invariant.                                         *)
LEMMA AlertInvStep ==
    ASSUME AlertInv, [Next]_vars
    PROVE  AlertInv'
<1>1. ASSUME NEW c \in Callers, (\E e \in Events : Call(c, e)) \/ DropRepeat(c) PROVE AlertInv'
  BY <1>1, CallKeeps
<1>2. ASSUME NEW c \in Callers, Alert(c) PROVE AlertInv'
  BY <1>2, AlertKeeps
<1>3. ASSUME NEW c \in Callers, Hold(c) PROVE AlertInv'
  BY <1>3, HoldKeeps
<1>4. ASSUME NEW c \in Callers, Dispatch(c) PROVE AlertInv'
  BY <1>4, DispatchKeeps
<1>5. ASSUME NEW t \in Timers, TimerEnds(t) \/ FollowUpEmpty(t) PROVE AlertInv'
  BY <1>5, TimerEndsKeeps
<1>6. ASSUME NEW t \in Timers, FollowUp(t) PROVE AlertInv'
  BY <1>6, FollowUpKeeps
<1>7. ASSUME NEW t \in Timers, FollowUpDone(t) PROVE AlertInv'
  BY <1>7, FollowUpDoneKeeps
<1>8. CASE Tick
  BY <1>8, TickKeeps
<1>9. CASE Exit
  <2>1. exits \in 0..MaxExits /\ MaxExits \in Nat
    BY AlertConstants DEF AlertInv, HeldHasTimer, TypeOK
  <2>2. Fresh'
    BY <1>9, <2>1 DEF Exit, Fresh
  <2>. QED
    BY <2>2, FreshHolds, PTL
<1>10. CASE UNCHANGED vars
  <2>1. UNCHANGED <<group, seen, order, sincePrune, call, timer, outstanding, alerted, exits>>
    BY <1>10 DEF vars
  <2>2. BaseOK' <=> BaseOK
    BY <2>1 DEF BaseOK, ThreadsOK
  <2>3. \A k \in Keys : KeyInv(k) => KeyInv(k)'
    <3>1. ASSUME NEW k \in Keys PROVE BySends(k)' = BySends(k) /\ ByTells(k)' = ByTells(k)
      BY <2>1, SendsStay, TellsStay
    <3>. QED
      BY <2>1, <3>1 DEF KeyInv, WindowAt, TimerAt, CountAt, Repeats
  <2>4. KeysInv
    BY ByKeys
  <2>5. KeysInv'
    BY <2>1, <2>2, <2>3, <2>4 DEF KeysInv
  <2>. QED
    BY <2>5, ByKeys, PTL
<1>. QED
  BY <1>1, <1>2, <1>3, <1>4, <1>5, <1>6, <1>7, <1>8, <1>9, <1>10
     DEF Next, CallerStep, TimerStep

(* The invariant holds in every behaviour.                                 *)
LEMMA AlertInvHolds == Spec => []AlertInv
<1>1. Init => AlertInv
  <2>1. Init => Fresh
    BY AlertConstants DEF Init, Fresh
  <2>. QED
    BY <2>1, FreshHolds
<1>2. AlertInv /\ [Next]_vars => AlertInv'
  BY AlertInvStep
<1>. QED
  BY <1>1, <1>2, PTL DEF Spec

(* No count can be stranded: whatever is held back has a live timer of its *)
(* own, due when its window ends, and nothing urgent is held back          *)
(* (_alert_decision, _send_follow_up).                                     *)
THEOREM HeldHasATimer == Spec => []HeldHasTimer
<1>1. AlertInv => HeldHasTimer
  BY DEF AlertInv
<1>. QED
  BY <1>1, AlertInvHolds, PTL

(* Every alert held back is counted exactly once, in its window or in one  *)
(* message on its way, however callers and timers race for the window.     *)
THEOREM EveryRepeatCountedOnce == Spec => []CountExact
<1>1. AlertInv => CountExact
  BY DEF AlertInv
<1>. QED
  BY <1>1, AlertInvHolds, PTL

-----------------------------------------------------------------------------
(* A level not alerted yet is above every level the session alerted at.    *)
LEMMA NotYetAlerted ==
    ASSUME seen \in [Sessions -> Ranks \cup {NoRank}], NEW e, e.session \in Sessions,
           e.rank \in Ranks, ~AlreadyAlerted(e)
    PROVE  e.rank > seen[e.session] /\ e.rank \in Int /\ seen[e.session] \in Int
<1> DEFINE r == e.rank
           n == seen[e.session]
<1>1. r \in 0..4 /\ (n \in 0..4 \/ n = NoRank)
  BY AlertConstants
<1>2. n = NoRank \/ ~(r <= n)
  BY DEF AlreadyAlerted
<1>. HIDE DEF r, n
<1>3. r > n /\ r \in Int /\ n \in Int
  BY <1>1, <1>2 DEF NoRank
<1>. QED
  BY <1>3 DEF r, n

(* With no more sessions than are tracked, the rank kept for a session     *)
(* only rises while the process runs.                                      *)
LEMMA RankInvStep ==
    ASSUME AlertInv, RankInv, [Next]_vars, Cardinality(Sessions) <= MaxTracked
    PROVE  RankInv'
<1>a. TypeOK /\ ThreadsOK
  BY DEF AlertInv, HeldHasTimer, TypeOK, ThreadsOK
<1>b. /\ call \in [Callers -> Calls] /\ seen \in [Sessions -> Ranks \cup {NoRank}]
      /\ alerted \in [Sessions -> Ranks \cup {NoRank}]
  BY <1>a DEF TypeOK
<1>e. Ranks \subseteq 0..4 /\ Ranks \cup {NoRank} \subseteq Int
  BY AlertConstants DEF NoRank
<1>1. ASSUME NEW c \in Callers, Alert(c) \/ Hold(c) PROVE RankInv'
  <2> DEFINE e == call[c].event
  <2>1. /\ call[c].at = "decide" /\ ~AlreadyAlerted(e) /\ Track(e) /\ alerted' = alerted
        /\ \A d \in Callers : d # c => call'[d] = call[d]
        /\ call'[c].at = "send" => call'[c].event = e
    <3>1. CASE Alert(c)
      <4>1. call'[c] = [at |-> "send", event |-> e, repeats |-> Repeats(Pruned[e.key])]
        BY <1>b, <3>1 DEF Alert
      <4>2. call'[c].event = e
        BY <4>1
      <4>. QED
        BY <1>b, <3>1, <4>2 DEF Alert
    <3>2. CASE Hold(c)
      BY <1>b, <3>2 DEF Hold, IdleCall
    <3>. QED
      BY <1>1, <3>1, <3>2
  <2>2. e \in Events /\ e.session \in Sessions /\ e.rank \in Ranks
    BY <1>a, <2>1, ThreadCases
  <2>. HIDE DEF e
  <2>3. seen' = [seen EXCEPT ![e.session] = e.rank]
    BY <1>a, <2>1, <2>2, TrackKeeps
  <2>4. e.rank > seen[e.session] /\ e.rank \in Int /\ seen[e.session] \in Int
    BY <1>b, <2>1, <2>2, NotYetAlerted
  <2>5. \A s \in Sessions : seen[s] \in Int /\ seen'[s] \in Int /\ alerted[s] \in Int /\ seen[s] <= seen'[s]
    BY <1>b, <1>e, <2>2, <2>3, <2>4
  <2>6. \A s \in Sessions : alerted'[s] <= seen'[s]
    BY <2>1, <2>5 DEF RankInv
  <2>7. ASSUME NEW d \in Callers, call'[d].at = "send"
        PROVE  call'[d].event.rank <= seen'[call'[d].event.session]
    <3>1. CASE d = c
      <4>1. call'[d].event = e /\ seen'[e.session] = e.rank
        BY <1>b, <2>1, <2>2, <2>3, <2>7, <3>1
      <4>. QED
        BY <2>4, <4>1
    <3>2. CASE d # c
      <4>1. call'[d] = call[d] /\ call[d].at = "send"
        BY <2>1, <2>7, <3>2
      <4>2. call[d].event.session \in Sessions /\ call[d].event.rank \in Int
        BY <1>a, <1>e, <4>1, ThreadCases
      <4>3. call[d].event.rank <= seen[call[d].event.session]
        BY <4>1 DEF RankInv
      <4>. QED
        BY <2>5, <4>1, <4>2, <4>3
    <3>. QED
      BY <3>1, <3>2
  <2>. QED
    BY <2>6, <2>7 DEF RankInv
<1>2. ASSUME NEW c \in Callers, Dispatch(c) PROVE RankInv'
  <2> DEFINE e == call[c].event
  <2>1. /\ call[c].at = "send" /\ alerted' = [alerted EXCEPT ![e.session] = Max({alerted[e.session], e.rank})]
        /\ call' = [call EXCEPT ![c] = IdleCall] /\ seen' = seen
    BY <1>2 DEF Dispatch
  <2>2. e.session \in Sessions /\ e.rank \in Ranks /\ e.rank <= seen[e.session]
    BY <1>a, <2>1, ThreadCases DEF RankInv
  <2>. HIDE DEF e
  <2>3. Max({alerted[e.session], e.rank}) <= seen[e.session]
    <3>1. alerted[e.session] \in Int /\ e.rank \in Int /\ alerted[e.session] <= seen[e.session]
      BY <1>b, <1>e, <2>2 DEF RankInv
    <3>. QED
      BY <2>2, <3>1, MaxMinOfTwo
  <2>4. \A s \in Sessions : alerted'[s] <= seen'[s]
    BY <1>b, <2>1, <2>2, <2>3 DEF RankInv
  <2>5. \A d \in Callers : call'[d].at = "send" => call'[d] = call[d]
    BY <1>b, <2>1 DEF IdleCall
  <2>. QED
    BY <2>1, <2>4, <2>5 DEF RankInv
<1>3. ASSUME NEW c \in Callers, (\E e \in Events : Call(c, e)) \/ DropRepeat(c) PROVE RankInv'
  <2>1. seen' = seen /\ alerted' = alerted
    BY <1>3 DEF Call, DropRepeat
  <2>2. \A d \in Callers : call'[d].at = "send" => call'[d] = call[d]
    BY <1>b, <1>3 DEF Call, DropRepeat, IdleCall
  <2>. QED
    BY <2>1, <2>2 DEF RankInv
<1>4. CASE Tick \/ (\E t \in Timers : TimerStep(t)) \/ UNCHANGED vars
  <2>1. UNCHANGED <<seen, alerted, call>>
    BY <1>4 DEF Tick, TimerStep, TimerEnds, FollowUpEmpty, FollowUp, FollowUpDone, vars
  <2>. QED
    BY <2>1 DEF RankInv
<1>5. CASE Exit
  <2>1. exits \in 0..MaxExits /\ MaxExits \in Nat
    BY <1>a, AlertConstants DEF TypeOK
  <2>2. Fresh'
    BY <1>5, <2>1 DEF Exit, Fresh
  <2>. QED
    BY <2>2, FreshHolds, PTL
<1>. QED
  BY <1>1, <1>2, <1>3, <1>4, <1>5 DEF Next, CallerStep

(* An alert that goes out is of a higher level than any sent for its       *)
(* session, or on its way.                                                 *)
LEMMA AlertIsNews ==
    ASSUME AlertInv, RankInv, [Next]_vars, NEW c \in Callers,
           call[c].at = "decide", call'[c].at = "send"
    PROVE  LET e == call[c].event IN
           /\ e.rank > alerted[e.session]
           /\ \A d \in Callers \ {c} :
                call[d].at = "send" /\ call[d].event.session = e.session =>
                    call[d].event.rank < e.rank
<1> DEFINE e == call[c].event
<1>a. TypeOK /\ ThreadsOK
  BY DEF AlertInv, HeldHasTimer, TypeOK, ThreadsOK
<1>b. /\ call \in [Callers -> Calls] /\ seen \in [Sessions -> Ranks \cup {NoRank}]
      /\ alerted \in [Sessions -> Ranks \cup {NoRank}]
  BY <1>a DEF TypeOK
<1>e. Ranks \subseteq 0..4 /\ Ranks \cup {NoRank} \subseteq Int
  BY AlertConstants DEF NoRank
<1>1. e \in Events /\ e.session \in Sessions /\ e.rank \in Ranks
  BY <1>a, ThreadCases
<1>2. ~AlreadyAlerted(e)
  <2>1. ASSUME NEW d \in Callers, DropRepeat(d) \/ Hold(d) \/ Dispatch(d) \/ (\E x \in Events : Call(d, x))
        PROVE  FALSE
    <3>1. call'[c] = call[c] \/ call'[c].at # "send"
      BY <1>b, <2>1 DEF DropRepeat, Hold, Dispatch, Call, IdleCall
    <3>. QED
      BY <3>1
  <2>2. ASSUME NEW d \in Callers, Alert(d) PROVE ~AlreadyAlerted(e)
    <3>1. d = c
      BY <1>b, <2>2 DEF Alert
    <3>. QED
      BY <2>2, <3>1 DEF Alert
  <2>3. CASE Tick \/ (\E t \in Timers : TimerStep(t)) \/ UNCHANGED vars
    <3>1. call' = call
      BY <2>3 DEF Tick, TimerStep, TimerEnds, FollowUpEmpty, FollowUp, FollowUpDone, vars
    <3>. QED
      BY <3>1
  <2>4. CASE Exit
    BY <2>4 DEF Exit, IdleCall
  <2>. QED
    BY <2>1, <2>2, <2>3, <2>4 DEF Next, CallerStep
<1>. HIDE DEF e
<1>3. e.rank > seen[e.session] /\ e.rank \in Int /\ seen[e.session] \in Int /\ alerted[e.session] \in Int
  <2>1. e.rank > seen[e.session] /\ e.rank \in Int /\ seen[e.session] \in Int
    BY <1>b, <1>1, <1>2, NotYetAlerted
  <2>. QED
    BY <1>b, <1>e, <1>1, <2>1
<1>4. e.rank > alerted[e.session]
  <2>1. alerted[e.session] <= seen[e.session]
    BY <1>1 DEF RankInv
  <2>. QED
    BY <1>3, <2>1
<1>5. ASSUME NEW d \in Callers, call[d].at = "send", call[d].event.session = e.session
      PROVE  call[d].event.rank < e.rank
  <2>1. call[d].event.rank <= seen[e.session]
    BY <1>5 DEF RankInv
  <2>2. call[d].event.rank \in Int
    BY <1>a, <1>e, <1>5, ThreadCases
  <2>. QED
    BY <1>3, <2>1, <2>2
<1>. QED
  BY <1>4, <1>5 DEF e

(* As long as every session fits among those tracked, no session alerts    *)
(* twice at a level or at a lower one, whichever threads decide about it   *)
(* and in whatever order (_maybe_send_alert, _alert_decision).  Beyond     *)
(* that number the code forgets the oldest: hence the hypothesis.          *)
THEOREM NoSecondAlertAtALevel ==
    ASSUME Cardinality(Sessions) <= MaxTracked
    PROVE  Spec => OncePerLevel
<1> DEFINE News == \A c \in Callers :
                      call[c].at = "decide" /\ call'[c].at = "send" =>
                         LET e == call[c].event IN
                         /\ e.rank > alerted[e.session]
                         /\ \A d \in Callers \ {c} :
                              call[d].at = "send" /\ call[d].event.session = e.session =>
                                  call[d].event.rank < e.rank
<1>1. Init => RankInv
  <2>1. Init => Fresh
    BY AlertConstants DEF Init, Fresh
  <2>. QED
    BY <2>1, FreshHolds
<1>2. AlertInv /\ RankInv /\ [Next]_vars => RankInv'
  BY RankInvStep
<1>3. AlertInv /\ RankInv /\ [Next]_vars => [News]_vars
  BY AlertIsNews
<1>. QED
  BY <1>1, <1>2, <1>3, AlertInvHolds, PTL DEF Spec, OncePerLevel
===============================================================================
