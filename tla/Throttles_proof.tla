--------------------------- MODULE Throttles_proof ---------------------------
(***************************************************************************)
(* What the two throttles promise, for any limit and window and any number *)
(* of requests and addresses.  Both keep a list of times and drop those    *)
(* that are older than the window; the first part says what is left.  The  *)
(* second is about the row of the persistent throttle, the third about the *)
(* limiter in memory.                                                      *)
(*                                                                         *)
(* RateLimiter is an instance here, so what it assumes of its constants is *)
(* a hypothesis of the theorems about it.                                  *)
(***************************************************************************)
EXTENDS LoginThrottle, RequestBudget, Integers, FiniteSetTheorems, SequenceTheorems, TLAPS

CONSTANT MaxSteps

Limiter == INSTANCE RateLimiter

-----------------------------------------------------------------------------
(***************************************************************************)
(* Sequences of times that never decrease, and the part of one that lies   *)
(* in a window.                                                            *)
(***************************************************************************)

Ascending(s) == \A i, j \in 1..Len(s) : i <= j => s[i] <= s[j]

\* A set of indices that has all smaller ones with each is an interval.
LEMMA Prefix ==
    ASSUME NEW n \in Nat, NEW D \in SUBSET (1..n), \A i \in D : \A j \in 1..i : j \in D
    PROVE  Cardinality(D) \in 0..n /\ D = 1..Cardinality(D)
  <1>1. IsFiniteSet(1..n) /\ Cardinality(1..n) = n
    BY FS_Interval
  <1>2. IsFiniteSet(D) /\ Cardinality(D) \in Nat /\ Cardinality(D) <= n
    <2>1. IsFiniteSet(D) /\ Cardinality(D) <= Cardinality(1..n)
      BY <1>1, FS_Subset
    <2> QED
      BY <1>1, <2>1, FS_CardinalityType
  <1>3. ASSUME NEW i \in D
        PROVE  i \in 1..Cardinality(D)
    <2>1. 1..i \in SUBSET D
      OBVIOUS
    <2>2. Cardinality(1..i) = i
      BY FS_Interval
    <2>3. i <= Cardinality(D)
      BY <1>2, <2>1, <2>2, FS_Subset
    <2> QED
      BY <1>2, <2>3
  <1>4. IsFiniteSet(1..Cardinality(D)) /\ Cardinality(1..Cardinality(D)) = Cardinality(D)
    BY <1>2, FS_Interval
  <1>5. D \in SUBSET (1..Cardinality(D))
    BY <1>3
  <1>6. D = 1..Cardinality(D)
    BY <1>4, <1>5, FS_Subset
  <1> QED
    BY <1>2, <1>6

\* The elements at an interval of indices.
LEMMA ElementsAtInterval ==
    ASSUME NEW s, NEW a \in Nat, NEW b \in Nat, a <= b
    PROVE  ElementsAt(s, (a + 1)..b) = [n \in 1..(b - a) |-> s[a + n]]
  <1> DEFINE K == (a + 1)..b
  <1>1. Cardinality(K) = b - a
    <2>1. a + 1 \in Int /\ b \in Int
      OBVIOUS
    <2>2. Cardinality(K) = IF a + 1 > b THEN 0 ELSE b - (a + 1) + 1
      BY <2>1, FS_Interval
    <2> HIDE DEF K
    <2> QED
      BY <2>2
  <1>2. ASSUME NEW n \in 1..(b - a)
        PROVE  (CHOOSE i \in K : Cardinality({j \in K : j <= i}) = n) = a + n
    <2>1. ASSUME NEW i \in K
          PROVE  Cardinality({j \in K : j <= i}) = i - a
      <3>1. {j \in K : j <= i} = (a + 1)..i
        OBVIOUS
      <3>2. Cardinality((a + 1)..i) = i - a
        BY FS_Interval
      <3> QED
        BY <3>1, <3>2
    <2>2. a + n \in K
      OBVIOUS
    <2>3. \A i \in K : Cardinality({j \in K : j <= i}) = n <=> i = a + n
      BY <2>1
    <2> HIDE DEF K
    <2> QED
      BY <2>2, <2>3
  <1> HIDE DEF K
  <1>3. ElementsAt(s, K) = [n \in 1..Cardinality(K) |->
                              s[CHOOSE i \in K : Cardinality({j \in K : j <= i}) = n]]
    BY Zenon DEF ElementsAt
  <1>4. \A n \in 1..Cardinality(K) :
          s[CHOOSE i \in K : Cardinality({j \in K : j <= i}) = n] = s[a + n]
    BY <1>1, <1>2
  <1>5. ElementsAt(s, K) = [n \in 1..Cardinality(K) |-> s[a + n]]
    BY <1>3, <1>4, Zenon
  <1> QED
    BY <1>1, <1>5 DEF K

\* Of ascending times, Prune drops the first e, which are too old, and those
\* after the first p, which are later than now.
LEMMA PruneKeeps ==
    ASSUME NEW s \in Seq(Nat), Ascending(s), NEW now0 \in Nat, NEW w \in Nat
    PROVE  \E e, p \in 0..Len(s) :
             /\ e <= p
             /\ Prune(s, now0, w) \in Seq(Nat)
             /\ Len(Prune(s, now0, w)) = p - e
             /\ \A n \in 1..(p - e) : Prune(s, now0, w)[n] = s[e + n]
             /\ \A i \in 1..Len(s) : (i <= e <=> s[i] + w <= now0) /\ (i <= p <=> s[i] <= now0)
  <1> DEFINE E == {i \in 1..Len(s) : s[i] + w <= now0}
             P == {i \in 1..Len(s) : s[i] <= now0}
             e == Cardinality(E)
             p == Cardinality(P)
  <1>0. Len(s) \in Nat /\ \A i \in 1..Len(s) : s[i] \in Nat
    OBVIOUS
  <1>1. e \in 0..Len(s) /\ E = 1..e
    <2>1. \A i \in E : \A j \in 1..i : j \in E
      BY <1>0 DEF Ascending
    <2>2. E \in SUBSET (1..Len(s))
      OBVIOUS
    <2> HIDE DEF E
    <2> QED
      BY <1>0, <2>1, <2>2, Prefix
  <1>2. p \in 0..Len(s) /\ P = 1..p
    <2>1. \A i \in P : \A j \in 1..i : j \in P
      BY <1>0 DEF Ascending
    <2>2. P \in SUBSET (1..Len(s))
      OBVIOUS
    <2> HIDE DEF P
    <2> QED
      BY <1>0, <2>1, <2>2, Prefix
  <1>3. \A i \in 1..Len(s) : (i <= e <=> s[i] + w <= now0) /\ (i <= p <=> s[i] <= now0)
    <2>1. \A i \in 1..Len(s) : (i \in E <=> s[i] + w <= now0) /\ (i \in P <=> s[i] <= now0)
      OBVIOUS
    <2> HIDE DEF E, P, e, p
    <2> QED
      BY <1>0, <1>1, <1>2, <2>1
  <1>4. e <= p
    <2>1. E \subseteq P
      BY <1>0
    <2> HIDE DEF E, P, e, p
    <2> QED
      BY <1>1, <1>2, <2>1
  <1>5. {i \in 1..Len(s) : s[i] + w > now0 /\ s[i] <= now0} = (e + 1)..p
    <2> HIDE DEF E, P, e, p
    <2>1. \A i \in 1..Len(s) : s[i] + w > now0 <=> i > e
      <3>1. \A i \in 1..Len(s) : s[i] + w > now0 <=> ~(s[i] + w <= now0)
        BY <1>0
      <3>2. \A i \in 1..Len(s) : i > e <=> ~(i <= e)
        BY <1>0, <1>1
      <3> QED
        BY <1>3, <3>1, <3>2
    <2>2. {i \in 1..Len(s) : s[i] + w > now0 /\ s[i] <= now0}
            = {i \in 1..Len(s) : i > e /\ i <= p}
      BY <1>3, <2>1
    <2>3. {i \in 1..Len(s) : i > e /\ i <= p} = (e + 1)..p
      BY <1>0, <1>1, <1>2
    <2> QED
      BY <2>2, <2>3
  <1>6. Prune(s, now0, w) = [n \in 1..(p - e) |-> s[e + n]]
    <2> HIDE DEF E, P, e, p
    <2>1. Prune(s, now0, w) = ElementsAt(s, (e + 1)..p)
      BY <1>5 DEF Prune
    <2>2. e \in Nat /\ p \in Nat
      BY <1>0, <1>1, <1>2
    <2> QED
      BY <1>4, <2>1, <2>2, ElementsAtInterval
  <1>7. Prune(s, now0, w) \in Seq(Nat) /\ Len(Prune(s, now0, w)) = p - e
    <2> HIDE DEF E, P, e, p
    <2>1. p - e \in Nat /\ \A n \in 1..(p - e) : s[e + n] \in Nat
      BY <1>0, <1>1, <1>2, <1>4
    <2> QED
      BY <1>6, <2>1
  <1> HIDE DEF e, p
  <1> QED
    BY <1>1, <1>2, <1>3, <1>4, <1>6, <1>7

LEMMA SeqOver ==
    ASSUME NEW s \in Seq(Nat), NEW S, \A i \in 1..Len(s) : s[i] \in S
    PROVE  s \in Seq(S)
  <1>1. Len(s) \in Nat /\ s \in [1..Len(s) -> S]
    OBVIOUS
  <1> QED
    BY <1>1, SeqDef

-----------------------------------------------------------------------------
(***************************************************************************)
(* The throttle.  Its row is part of the history of recorded attempts:     *)
(* each of its times is one of them.  While no attempt has been overtaken, *)
(* it is the end of that history, and what is before it has left the       *)
(* window or is one too many.                                              *)
(***************************************************************************)

\* The elements of s are elements of t, each at an index of its own.
Embeds(s, t) ==
    \E f \in [1..Len(s) -> 1..Len(t)] :
        /\ \A i, j \in 1..Len(s) : i # j => f[i] # f[j]
        /\ \A i \in 1..Len(s) : s[i] = t[f[i]]

EndOf(s, t) ==
    /\ Len(s) <= Len(t)
    /\ \A n \in 1..Len(s) : s[n] = t[Len(t) - Len(s) + n]
    /\ \/ Len(s) = MaxAttempts
       \/ \A i \in 1..(Len(t) - Len(s)) : t[i] + Window <= t[Len(t)]

\* The indices that Within counts.
Indices(s, t) == {i \in 1..Len(s) : s[i] <= t /\ t < s[i] + Window}

LEMMA IndicesAreFinite ==
    ASSUME NEW s \in Seq(Nat), NEW t
    PROVE  /\ \A S \in SUBSET (1..Len(s)) : IsFiniteSet(S) /\ Cardinality(S) \in Nat
           /\ Indices(s, t) \in SUBSET (1..Len(s)) /\ Within(s, t) = Cardinality(Indices(s, t))
  <1>1. Len(s) \in Nat
    OBVIOUS
  <1>2. IsFiniteSet(1..Len(s))
    BY <1>1, FS_Interval
  <1>3. \A S \in SUBSET (1..Len(s)) : IsFiniteSet(S) /\ Cardinality(S) \in Nat
    BY <1>2, FS_Subset, FS_CardinalityType
  <1>4. Indices(s, t) \in SUBSET (1..Len(s))
    BY DEF Indices
  <1>5. Within(s, t) = Cardinality(Indices(s, t))
    BY DEF Within, Indices
  <1> QED
    BY <1>3, <1>4, <1>5

LEMMA WithinIsNat ==
    ASSUME NEW s \in Seq(Nat), NEW t
    PROVE  Within(s, t) \in Nat
  BY IndicesAreFinite

\* What is embedded has no more elements in a window.
LEMMA EmbeddedIsFewer ==
    ASSUME NEW s \in Seq(Nat), NEW t \in Seq(Nat), Embeds(s, t), NEW u
    PROVE  /\ Within(s, u) \in Nat /\ Within(t, u) \in Nat
           /\ Within(s, u) <= Within(t, u)
  <1>1. PICK f \in [1..Len(s) -> 1..Len(t)] :
        /\ \A i, j \in 1..Len(s) : i # j => f[i] # f[j]
        /\ \A i \in 1..Len(s) : s[i] = t[f[i]]
    BY DEF Embeds
  <1> DEFINE S == Indices(s, u)
             T == Indices(t, u)
             g == [i \in S |-> f[i]]
  <1>2. IsFiniteSet(T) /\ Cardinality(T) \in Nat /\ Cardinality(S) \in Nat
    BY IndicesAreFinite
  <1>3. g \in [S -> T] /\ \A i, j \in S : i # j => g[i] # g[j]
    BY <1>1 DEF Indices
  <1>4. g \in Injection(S, T)
    <2> HIDE DEF S, T, g
    <2> QED
      BY <1>3 DEF Injection, IsInjective
  <1>5. Cardinality(S) <= Cardinality(T)
    <2> HIDE DEF S, T, g
    <2> QED
      BY <1>2, <1>4, FS_Injection
  <1> QED
    BY <1>2, <1>5, IndicesAreFinite

LEMMA EmbedsPart ==
    ASSUME NEW s \in Seq(Nat), NEW t \in Seq(Nat), Embeds(s, t),
           NEW part \in Seq(Nat), NEW e \in Nat, e + Len(part) <= Len(s),
           \A n \in 1..Len(part) : part[n] = s[e + n]
    PROVE  Embeds(part, t)
  <1>1. PICK f \in [1..Len(s) -> 1..Len(t)] :
        /\ \A i, j \in 1..Len(s) : i # j => f[i] # f[j]
        /\ \A i \in 1..Len(s) : s[i] = t[f[i]]
    BY DEF Embeds
  <1>2. Len(s) \in Nat /\ Len(part) \in Nat
    OBVIOUS
  <1>3. /\ \A n \in 1..Len(part) : e + n \in 1..Len(s)
        /\ \A n, m \in 1..Len(part) : n # m => e + n # e + m
    BY <1>2
  <1> DEFINE g == [n \in 1..Len(part) |-> f[e + n]]
  <1>4. g \in [1..Len(part) -> 1..Len(t)]
    BY <1>1, <1>3
  <1>5. \A n, m \in 1..Len(part) : n # m => g[n] # g[m]
    BY <1>1, <1>3
  <1>6. \A n \in 1..Len(part) : part[n] = t[g[n]]
    BY <1>1, <1>3
  <1> HIDE DEF g
  <1> QED
    BY <1>4, <1>5, <1>6 DEF Embeds

LEMMA EmbedsAppend ==
    ASSUME NEW s \in Seq(Nat), NEW t \in Seq(Nat), Embeds(s, t), NEW x \in Nat
    PROVE  /\ Embeds(s, Append(t, x))
           /\ Embeds(Append(s, x), Append(t, x))
  <1>1. PICK f \in [1..Len(s) -> 1..Len(t)] :
        /\ \A i, j \in 1..Len(s) : i # j => f[i] # f[j]
        /\ \A i \in 1..Len(s) : s[i] = t[f[i]]
    BY DEF Embeds
  <1> DEFINE t2 == Append(t, x)
             s2 == Append(s, x)
             g == [n \in 1..Len(s2) |-> IF n = Len(s2) THEN Len(t2) ELSE f[n]]
  <1>2. /\ Len(s) \in Nat /\ Len(t) \in Nat
        /\ Len(t2) = Len(t) + 1 /\ t2[Len(t2)] = x /\ \A i \in 1..Len(t) : t2[i] = t[i]
        /\ Len(s2) = Len(s) + 1 /\ s2[Len(s2)] = x /\ \A i \in 1..Len(s) : s2[i] = s[i]
    OBVIOUS
  <1> HIDE DEF t2, s2
  <1>3. \A i \in 1..Len(t) : i \in 1..Len(t2) /\ i # Len(t2)
    BY <1>2
  <1>4. Embeds(s, t2)
    <2>1. f \in [1..Len(s) -> 1..Len(t2)]
      BY <1>1, <1>3
    <2>2. \A i \in 1..Len(s) : s[i] = t2[f[i]]
      BY <1>1, <1>2
    <2> QED
      BY <1>1, <2>1, <2>2 DEF Embeds
  <1>5. Embeds(s2, t2)
    <2>1. /\ \A n \in 1..Len(s2) : n = Len(s2) \/ n \in 1..Len(s)
          /\ Len(t2) \in 1..Len(t2)
      BY <1>2
    <2>2. g \in [1..Len(s2) -> 1..Len(t2)]
      BY <1>1, <1>3, <2>1
    <2>3. \A n, m \in 1..Len(s2) : n # m => g[n] # g[m]
      BY <1>1, <1>3, <2>1
    <2>4. \A n \in 1..Len(s2) : s2[n] = t2[g[n]]
      BY <1>1, <1>2, <2>1
    <2> HIDE DEF g
    <2> QED
      BY <2>2, <2>3, <2>4 DEF Embeds
  <1> QED
    BY <1>4, <1>5 DEF t2, s2

\* slice(-MaxAttempts): the end of a sequence, all of it unless it is too long.
LEMMA LatestIsEnd ==
    ASSUME NEW s \in Seq(Nat)
    PROVE  \E c \in Nat :
             /\ Latest(s) \in Seq(Nat) /\ Len(Latest(s)) = Len(s) - c
             /\ Len(Latest(s)) <= MaxAttempts /\ c <= Len(s)
             /\ \A n \in 1..Len(Latest(s)) : Latest(s)[n] = s[c + n]
             /\ c # 0 => Len(Latest(s)) = MaxAttempts
  <1> DEFINE c == IF Len(s) > MaxAttempts THEN Len(s) - MaxAttempts ELSE 0
  <1>1. MaxAttempts \in Nat \ {0} /\ Len(s) \in Nat
    BY LoginThrottleAssumption
  <1>2. c \in Nat /\ c <= Len(s) /\ Len(s) - c <= MaxAttempts /\ (c # 0 => Len(s) - c = MaxAttempts)
    BY <1>1
  <1>3. Latest(s) = SubSeq(s, c + 1, Len(s))
    BY <1>1 DEF Latest
  <1> HIDE DEF c
  <1>4. \A i \in (c + 1)..Len(s) : s[i] \in Nat
    BY <1>1, <1>2
  <1>5. c + 1 \in Int /\ Len(s) \in Int
    BY <1>1, <1>2
  <1>6. /\ Latest(s) \in Seq(Nat)
        /\ Len(Latest(s)) = IF c + 1 <= Len(s) THEN Len(s) - (c + 1) + 1 ELSE 0
        /\ \A i \in 1..(Len(s) - (c + 1) + 1) : Latest(s)[i] = s[c + 1 + i - 1]
    BY <1>3, <1>4, <1>5, SubSeqProperties
  <1>7. Len(Latest(s)) = Len(s) - c
    BY <1>1, <1>2, <1>6
  <1>8. \A n \in 1..Len(Latest(s)) : Latest(s)[n] = s[c + n]
    <2> SUFFICES ASSUME NEW n \in 1..Len(Latest(s)) PROVE Latest(s)[n] = s[c + n]
      OBVIOUS
    <2>1. n \in 1..(Len(s) - (c + 1) + 1) /\ c + 1 + n - 1 = c + n
      BY <1>1, <1>2, <1>7
    <2> QED
      BY <1>6, <2>1
  <1> QED
    BY <1>2, <1>6, <1>7, <1>8

-----------------------------------------------------------------------------
(* The row of the next state.                                              *)

RowInv ==
    /\ failureTimestamps \in Seq(Nat) /\ recorded \in Seq(Nat)
    /\ Ascending(failureTimestamps) /\ Embeds(failureTimestamps, recorded)
    /\ InOrder(recorded) => EndOf(failureTimestamps, recorded)

\* What an attempt at time t is counted with: of the times in the row the first
\* e are too old, those after the p-th too late, and c more are one too many.
CountedFrom(t, e, p, c) ==
    /\ e <= p /\ p <= Len(failureTimestamps)
    /\ Counted(t) \in Seq(Nat) /\ Len(Counted(t)) = p - e + 1 - c
    /\ 1 <= Len(Counted(t)) /\ Len(Counted(t)) <= MaxAttempts
    /\ c # 0 => Len(Counted(t)) = MaxAttempts
    /\ Counted(t)[Len(Counted(t))] = t
    /\ \A n \in 1..(Len(Counted(t)) - 1) :
          e + c + n \in 1..p /\ Counted(t)[n] = failureTimestamps[e + c + n]
    /\ \A i \in 1..Len(failureTimestamps) :
          /\ i <= e <=> failureTimestamps[i] + Window <= t
          /\ i <= p <=> failureTimestamps[i] <= t

LEMMA CountedIs ==
    ASSUME RowInv, NEW t \in Nat
    PROVE  /\ Embeds(Counted(t), Append(recorded, t))
           /\ \E e, p, c \in Nat : CountedFrom(t, e, p, c)
  <1> DEFINE ft == failureTimestamps
             kept == Prune(ft, t, Window)
             all == Append(kept, t)
  <1>1. Window \in Nat /\ MaxAttempts \in Nat \ {0} /\ ft \in Seq(Nat) /\ Len(ft) \in Nat
    BY LoginThrottleAssumption DEF RowInv
  <1>2. PICK e, p \in 0..Len(ft) :
             /\ e <= p
             /\ kept \in Seq(Nat)
             /\ Len(kept) = p - e
             /\ \A n \in 1..(p - e) : kept[n] = ft[e + n]
             /\ \A i \in 1..Len(ft) : (i <= e <=> ft[i] + Window <= t) /\ (i <= p <=> ft[i] <= t)
    BY <1>1, PruneKeeps DEF RowInv
  <1> HIDE DEF ft, kept
  <1>3. /\ all \in Seq(Nat) /\ Len(all) = p - e + 1 /\ all[Len(all)] = t
        /\ \A n \in 1..(p - e) : all[n] = kept[n]
    BY <1>2
  <1> HIDE DEF all
  <1>4. Counted(t) = Latest(all)
    BY DEF Counted, all, kept, ft
  <1>5. PICK c \in Nat :
             /\ Counted(t) \in Seq(Nat) /\ Len(Counted(t)) = Len(all) - c
             /\ Len(Counted(t)) <= MaxAttempts /\ c <= Len(all)
             /\ \A n \in 1..Len(Counted(t)) : Counted(t)[n] = all[c + n]
             /\ c # 0 => Len(Counted(t)) = MaxAttempts
    BY <1>3, <1>4, LatestIsEnd
  <1>6. p - e \in Nat /\ Len(all) \in Nat /\ Len(Counted(t)) \in Nat /\ 1 <= Len(Counted(t))
    BY <1>1, <1>2, <1>3, <1>5
  <1>7. Counted(t)[Len(Counted(t))] = t
    <2>1. Len(Counted(t)) \in 1..Len(Counted(t)) /\ c + Len(Counted(t)) = Len(all)
      BY <1>5, <1>6
    <2> QED
      BY <1>3, <1>5, <2>1
  <1>8. ASSUME NEW n \in 1..(Len(Counted(t)) - 1)
        PROVE  e + c + n \in 1..p /\ Counted(t)[n] = ft[e + c + n]
    <2>1. /\ n \in 1..Len(Counted(t)) /\ c + n \in 1..(p - e)
          /\ e + (c + n) = e + c + n /\ e + c + n \in 1..p
      BY <1>1, <1>2, <1>3, <1>5, <1>6
    <2>2. Counted(t)[n] = all[c + n] /\ all[c + n] = kept[c + n] /\ kept[c + n] = ft[e + (c + n)]
      BY <1>2, <1>3, <1>5, <2>1
    <2> QED
      BY <2>1, <2>2
  <1>9. Embeds(Counted(t), Append(recorded, t))
    <2>1. recorded \in Seq(Nat) /\ Append(recorded, t) \in Seq(Nat) /\ Embeds(ft, recorded)
      BY DEF RowInv, ft
    <2>2. Embeds(kept, recorded)
      <3>1. e \in Nat /\ e + Len(kept) <= Len(ft) /\ \A n \in 1..Len(kept) : kept[n] = ft[e + n]
        BY <1>1, <1>2
      <3> QED
        BY <1>1, <1>2, <2>1, <3>1, EmbedsPart
    <2>3. Embeds(all, Append(recorded, t))
      BY <1>2, <2>1, <2>2, EmbedsAppend DEF all
    <2>4. c + Len(Counted(t)) <= Len(all)
      BY <1>5, <1>6
    <2> QED
      BY <1>3, <1>5, <2>1, <2>3, <2>4, EmbedsPart
  <1>10. CountedFrom(t, e, p, c)
    <2>1. e <= p /\ p <= Len(ft) /\ Len(Counted(t)) = p - e + 1 - c
      BY <1>1, <1>2, <1>3, <1>5
    <2> QED
      BY <1>2, <1>5, <1>6, <1>7, <1>8, <2>1 DEF CountedFrom, ft
  <1>11. e \in Nat /\ p \in Nat
    BY <1>1, <1>2
  <1> QED
    BY <1>9, <1>10, <1>11

\* All attempts that are counted lie in the window that ends at t.
LEMMA CountedInWindow ==
    ASSUME RowInv, NEW t \in Nat
    PROVE  /\ Counted(t) \in Seq(Nat) /\ Len(Counted(t)) \in 1..MaxAttempts
           /\ Ascending(Counted(t))
           /\ \A n \in 1..Len(Counted(t)) : Counted(t)[n] <= t /\ t < Counted(t)[n] + Window
           /\ \A n \in 1..Len(Counted(t)) :
                 Counted(t)[n] = t \/ \E i \in 1..Len(failureTimestamps) :
                                         Counted(t)[n] = failureTimestamps[i]
           /\ Embeds(Counted(t), Append(recorded, t))
           /\ Within(Append(recorded, t), t) >= Len(Counted(t))
  <1> DEFINE ft == failureTimestamps
             C == Counted(t)
  <1>1. Window \in Nat \ {0} /\ MaxAttempts \in Nat /\ ft \in Seq(Nat) /\ Len(ft) \in Nat
    BY LoginThrottleAssumption DEF RowInv
  <1>0. PICK e, p, c \in Nat : CountedFrom(t, e, p, c)
    BY CountedIs
  <1>2. /\ e <= p /\ p <= Len(ft)
        /\ C \in Seq(Nat) /\ Len(C) = p - e + 1 - c
        /\ 1 <= Len(C) /\ Len(C) <= MaxAttempts
        /\ C[Len(C)] = t
        /\ \A n \in 1..(Len(C) - 1) : e + c + n \in 1..p /\ C[n] = ft[e + c + n]
        /\ \A i \in 1..Len(ft) : (i <= e <=> ft[i] + Window <= t) /\ (i <= p <=> ft[i] <= t)
        /\ Embeds(C, Append(recorded, t))
    BY <1>0, CountedIs DEF CountedFrom
  <1> HIDE DEF C
  <1>3. Len(C) \in 1..MaxAttempts
    BY <1>1, <1>2
  <1>4. \A n \in 1..Len(C) : n = Len(C) \/ n \in 1..(Len(C) - 1)
    BY <1>3
  <1>5. ASSUME NEW n \in 1..(Len(C) - 1)
        PROVE  /\ e + c + n \in 1..Len(ft) /\ C[n] = ft[e + c + n]
               /\ C[n] <= t /\ t < C[n] + Window
    <2>1. e + c + n \in 1..p /\ C[n] = ft[e + c + n]
      BY <1>2
    <2>2. e + c + n \in 1..Len(ft) /\ e + c + n <= p /\ ~(e + c + n <= e)
      <3>1. n \in Nat /\ 1 <= n /\ p <= Len(ft) /\ Len(ft) \in Nat
        BY <1>1, <1>2
      <3> QED
        BY <2>1, <3>1
    <2>n. ft[e + c + n] \in Nat
      BY <1>1, <2>2
    <2>3. ft[e + c + n] <= t /\ ~(ft[e + c + n] + Window <= t)
      BY <1>2, <2>2
    <2> QED
      BY <1>1, <2>1, <2>2, <2>3, <2>n
  <1>6. \A n \in 1..Len(C) : C[n] <= t /\ t < C[n] + Window
    BY <1>1, <1>2, <1>4, <1>5
  <1>7. Ascending(C)
    <2> SUFFICES ASSUME NEW i \in 1..Len(C), NEW j \in 1..Len(C), i <= j
                 PROVE  C[i] <= C[j]
      BY DEF Ascending
    <2>1. CASE j = Len(C)
      BY <1>2, <1>6, <2>1
    <2>2. CASE j # Len(C)
      <3>1. i \in 1..(Len(C) - 1) /\ j \in 1..(Len(C) - 1)
        BY <1>3, <2>2
      <3>2. e + c + i <= e + c + j
        BY <1>1, <1>2, <3>1
      <3>3. ft[e + c + i] <= ft[e + c + j]
        BY <1>5, <3>1, <3>2 DEF RowInv, Ascending
      <3> QED
        BY <1>5, <3>1, <3>3
    <2> QED
      BY <2>1, <2>2
  <1>8. \A n \in 1..Len(C) : C[n] = t \/ \E i \in 1..Len(ft) : C[n] = ft[i]
    BY <1>2, <1>4, <1>5
  <1>9. Within(Append(recorded, t), t) >= Len(C)
    <2>1. Indices(C, t) = 1..Len(C)
      BY <1>6 DEF Indices
    <2>2. Cardinality(1..Len(C)) = Len(C)
      BY <1>3, FS_Interval
    <2>3. Within(C, t) = Len(C)
      BY <1>2, <2>1, <2>2, IndicesAreFinite
    <2>4. Append(recorded, t) \in Seq(Nat)
      BY DEF RowInv
    <2>5. Within(C, t) <= Within(Append(recorded, t), t) /\ Within(Append(recorded, t), t) \in Nat
      BY <1>2, <2>4, EmbeddedIsFewer
    <2> QED
      BY <1>3, <2>3, <2>5
  <1> QED
    BY <1>2, <1>3, <1>6, <1>7, <1>8, <1>9 DEF C, ft

\* While no attempt has been overtaken, none is missing from the count.
LEMMA NoneIsMissing ==
    ASSUME RowInv, NEW t \in Nat, InOrder(Append(recorded, t))
    PROVE  /\ InOrder(recorded)
           /\ EndOf(Counted(t), Append(recorded, t))
           /\ Len(Counted(t)) < MaxAttempts => Within(Append(recorded, t), t) < MaxAttempts
  <1> DEFINE ft == failureTimestamps
             C == Counted(t)
             rec == recorded
             rec2 == Append(recorded, t)
             d == Len(rec) - Len(ft)
  <1>1. /\ Window \in Nat \ {0} /\ MaxAttempts \in Nat \ {0} /\ ft \in Seq(Nat) /\ Len(ft) \in Nat
        /\ rec \in Seq(Nat) /\ Len(rec) \in Nat
    BY LoginThrottleAssumption DEF RowInv
  <1>2. /\ rec2 \in Seq(Nat) /\ Len(rec2) = Len(rec) + 1 /\ rec2[Len(rec2)] = t
        /\ \A i \in 1..Len(rec) : rec2[i] = rec[i]
    BY <1>1
  <1>0. PICK e, p, c \in Nat : CountedFrom(t, e, p, c)
    BY CountedIs
  <1>3. /\ e <= p /\ p <= Len(ft)
        /\ C \in Seq(Nat) /\ Len(C) = p - e + 1 - c
        /\ 1 <= Len(C) /\ Len(C) <= MaxAttempts
        /\ c # 0 => Len(C) = MaxAttempts
        /\ C[Len(C)] = t
        /\ \A n \in 1..(Len(C) - 1) : e + c + n \in 1..p /\ C[n] = ft[e + c + n]
        /\ \A i \in 1..Len(ft) : (i <= e <=> ft[i] + Window <= t) /\ (i <= p <=> ft[i] <= t)
    BY <1>0 DEF CountedFrom
  <1> HIDE DEF C, rec2
  <1>4. \A i \in 1..Len(rec) : i \in 1..Len(rec2) /\ Len(rec2) \in 1..Len(rec2) /\ i < Len(rec2)
    BY <1>1, <1>2
  <1>5. \A i \in 1..Len(rec) : rec[i] <= t
    <2>1. InOrder(rec2)
      BY DEF rec2
    <2> QED
      BY <1>2, <1>4, <2>1 DEF InOrder
  <1>6. InOrder(rec)
    <2>1. InOrder(rec2)
      BY DEF rec2
    <2> QED
      BY <1>2, <1>4, <2>1 DEF InOrder
  <1>7. /\ d \in Nat /\ \A n \in 1..Len(ft) : d + n \in 1..Len(rec) /\ ft[n] = rec[d + n]
        /\ \/ Len(ft) = MaxAttempts
           \/ \A i \in 1..d : rec[i] + Window <= rec[Len(rec)]
    BY <1>1, <1>6 DEF RowInv, EndOf
  <1> HIDE DEF ft, rec, d
  <1>8. p = Len(ft)
    <2>1. ASSUME Len(ft) # 0
          PROVE  Len(ft) <= p
      <3>1. Len(ft) \in 1..Len(ft)
        BY <1>1, <2>1
      <3>2. ft[Len(ft)] <= t
        BY <1>5, <1>7, <3>1
      <3> QED
        BY <1>3, <3>1, <3>2
    <2>2. p \in Nat /\ p <= Len(ft) /\ Len(ft) \in Nat
      BY <1>0, <1>1, <1>3
    <2> QED
      BY <2>1, <2>2
  <1>9. d + Len(ft) = Len(rec)
    BY <1>1 DEF d
  <1>10. Len(C) \in Nat /\ Len(rec2) - Len(C) = d + e + c /\ Len(C) <= Len(rec2)
    <2>1. Len(C) \in Nat /\ Len(C) = Len(ft) - e + 1 - c
      BY <1>3, <1>8
    <2>2. d \in Nat /\ Len(rec2) = d + Len(ft) + 1
      BY <1>2, <1>7, <1>9
    <2> QED
      BY <1>1, <2>1, <2>2
  <1>11. ASSUME NEW n \in 1..Len(C)
         PROVE  C[n] = rec2[Len(rec2) - Len(C) + n]
    <2>1. CASE n = Len(C)
      <3>1. Len(rec2) - Len(C) + n = Len(rec2)
        BY <1>1, <1>2, <1>10, <2>1
      <3> QED
        BY <1>2, <1>3, <2>1, <3>1
    <2>2. CASE n # Len(C)
      <3>1. n \in 1..(Len(C) - 1)
        BY <1>10, <2>2
      <3>2. e + c + n \in 1..Len(ft) /\ C[n] = ft[e + c + n]
        BY <1>3, <1>8, <3>1
      <3>3. d + (e + c + n) = Len(rec2) - Len(C) + n
        <4>1. n \in Nat /\ d \in Nat /\ Len(rec2) - Len(C) = d + e + c
          BY <1>7, <1>10
        <4> QED
          BY <4>1
      <3>4. d + (e + c + n) \in 1..Len(rec) /\ ft[e + c + n] = rec[d + (e + c + n)]
        BY <1>7, <3>2
      <3> QED
        BY <1>2, <3>2, <3>3, <3>4
    <2> QED
      BY <2>1, <2>2
  <1>12. ASSUME Len(C) < MaxAttempts, NEW i \in 1..(Len(rec2) - Len(C))
         PROVE  i \in 1..Len(rec2) /\ rec2[i] + Window <= t
    <2>0. MaxAttempts \in Nat /\ Len(C) \in Nat /\ Len(C) # MaxAttempts
      BY <1>1, <1>10, <1>12
    <2>1. c = 0 /\ i \in 1..(d + e)
      <3>1. c = 0
        BY <1>3, <2>0
      <3> QED
        BY <1>7, <1>10, <3>1
    <2>2. i \in 1..Len(rec) /\ i \in 1..Len(rec2) /\ rec2[i] = rec[i] /\ rec[i] \in Nat
      <3>1. i \in Nat /\ 1 <= i /\ i <= d + e
        BY <1>7, <2>1
      <3>2. i \in 1..Len(rec)
        <4>1. e <= Len(ft) /\ d + Len(ft) = Len(rec) /\ d \in Nat /\ Len(rec) \in Nat /\ Len(ft) \in Nat
          BY <1>1, <1>3, <1>7, <1>8, <1>9
        <4> QED
          BY <3>1, <4>1
      <3> QED
        BY <1>1, <1>2, <1>4, <3>2
    <2>3. CASE i > d
      <3>1. i - d \in 1..Len(ft) /\ i - d <= e /\ d + (i - d) = i
        BY <1>1, <1>3, <1>7, <2>1, <2>3
      <3>2. ft[i - d] + Window <= t /\ ft[i - d] = rec[d + (i - d)]
        BY <1>3, <1>7, <3>1
      <3> QED
        BY <2>2, <3>1, <3>2
    <2>4. CASE i <= d /\ Len(ft) = MaxAttempts
      <3>1. 1 <= e /\ 1 \in 1..Len(ft) /\ d + 1 \in 1..Len(rec) /\ i < d + 1
        <4>1. Len(C) = Len(ft) - e + 1 /\ Len(C) < Len(ft) /\ Len(ft) \in Nat \ {0}
          BY <1>1, <1>3, <1>8, <1>12, <2>1, <2>4
        <4>2. 1 <= e /\ 1 \in 1..Len(ft)
          BY <2>0, <4>1
        <4>3. d + 1 \in 1..Len(rec)
          BY <1>7, <4>2
        <4> QED
          BY <1>7, <2>1, <2>4, <4>2, <4>3
      <3>2. ft[1] + Window <= t /\ ft[1] = rec[d + 1] /\ rec[i] <= rec[d + 1]
        BY <1>3, <1>6, <1>7, <2>2, <3>1 DEF InOrder
      <3>3. rec[d + 1] \in Nat
        BY <1>1, <3>1
      <3>4. rec[d + 1] + Window <= t
        BY <3>2
      <3>5. rec[i] + Window <= t
        <4>1. Window \in Nat /\ rec[i] \in Nat /\ rec[i] <= rec[d + 1]
          BY <1>1, <2>2, <3>2
        <4> QED
          BY <3>3, <3>4, <4>1
      <3> QED
        BY <2>2, <3>5
    <2>5. CASE i <= d /\ Len(ft) # MaxAttempts
      <3>1. i \in 1..d /\ Len(rec) \in 1..Len(rec)
        BY <1>1, <2>1, <2>2, <2>5
      <3>2. rec[i] + Window <= rec[Len(rec)] /\ rec[Len(rec)] <= t /\ rec[Len(rec)] \in Nat
        BY <1>1, <1>5, <1>7, <2>5, <3>1
      <3> QED
        BY <1>1, <2>2, <3>2
    <2>6. i > d \/ i <= d
      <3>1. i \in Nat /\ d \in Nat
        BY <1>7, <2>2
      <3> QED
        BY <3>1
    <2> QED
      BY <2>2, <2>3, <2>4, <2>5, <2>6
  <1>13. EndOf(C, rec2)
    <2>1. Len(C) = MaxAttempts \/ Len(C) < MaxAttempts
      BY <1>1, <1>3, <1>10
    <2> QED
      BY <1>2, <1>10, <1>11, <1>12, <2>1 DEF EndOf
  <1>14. ASSUME Len(C) < MaxAttempts
         PROVE  Within(rec2, t) < MaxAttempts
    <2> DEFINE last == (Len(rec2) - Len(C) + 1)..Len(rec2)
    <2>1. IsFiniteSet(last) /\ Cardinality(last) = Len(C)
      <3>1. Len(rec2) - Len(C) + 1 \in Int /\ Len(rec2) \in Int /\ Len(rec2) \in Nat
        BY <1>1, <1>2, <1>10
      <3>2. IsFiniteSet(last) /\ Cardinality(last) =
              IF Len(rec2) - Len(C) + 1 > Len(rec2) THEN 0
              ELSE Len(rec2) - (Len(rec2) - Len(C) + 1) + 1
        BY <3>1, FS_Interval
      <3> HIDE DEF last
      <3> QED
        BY <1>10, <3>1, <3>2
    <2>2. Indices(rec2, t) \in SUBSET last
      <3> SUFFICES ASSUME NEW i \in Indices(rec2, t) PROVE i \in last
        OBVIOUS
      <3>1. i \in 1..Len(rec2) /\ rec2[i] \in Nat /\ ~(rec2[i] + Window <= t)
        BY <1>1, <1>2 DEF Indices
      <3>2. ~(i \in 1..(Len(rec2) - Len(C)))
        BY <1>12, <1>14, <3>1
      <3>3. Len(rec2) \in Nat
        BY <1>1, <1>2
      <3> QED
        BY <1>10, <3>1, <3>2, <3>3
    <2>3. Cardinality(Indices(rec2, t)) <= Len(C) /\ Cardinality(Indices(rec2, t)) \in Nat
      <3>1. Cardinality(Indices(rec2, t)) \in Nat
        BY <1>2, IndicesAreFinite
      <3> HIDE DEF last
      <3> QED
        BY <2>1, <2>2, <3>1, FS_Subset
    <2>4. Within(rec2, t) = Cardinality(Indices(rec2, t))
      BY <1>2, IndicesAreFinite
    <2> QED
      BY <1>1, <1>10, <1>14, <2>3, <2>4
  <1> QED
    BY <1>6, <1>13, <1>14 DEF C, rec2, rec

-----------------------------------------------------------------------------
(* The inductive invariant.                                                *)

RowIsHistory ==
    /\ Ascending(failureTimestamps) /\ Embeds(failureTimestamps, recorded)
    /\ InOrder(recorded) => EndOf(failureTimestamps, recorded)

AdmittedAreRecorded ==
    /\ Embeds(admitted, recorded)
    /\ action = "logon" => admitted = <<>>

\* A request has a time to record, and only a logon verifies and clears.
Attempts ==
    \A r \in Requests :
        /\ attemptTime[r] <= now
        /\ pc[r] \in Busy => attemptTime[r] # 0
        /\ pc[r] \in {"verifying", "clearing"} => action = "logon"

Inv == TypeOK /\ RowIsHistory /\ AdmittedAreRecorded /\ Attempts
           /\ LocksForAReason /\ AdmittedBounded

\* Actions that move requests or the clock and leave the row as it is.
Quiet == \/ Tick
         \/ \E r \in Requests :
              \/ Begin(r) \/ CheckAnswers(r) \/ CheckErrs(r)
              \/ \E outcome \in Busy \cup Over : Verifies(r, outcome)
              \/ RecordErrs(r) \/ ClearErrs(r)

Clearing == ProfileClears \/ \E r \in Requests : Clears(r)

LEMMA NextIs == Next <=> Quiet \/ Clearing \/ \E r \in Requests : Records(r)
  BY DEF Next, Quiet, Clearing

LEMMA TimesAreNat ==
    ASSUME TypeOK
    PROVE  /\ failureTimestamps \in Seq(Nat) /\ recorded \in Seq(Nat) /\ admitted \in Seq(Nat)
           /\ now \in Nat /\ lockedUntil \in Nat
           /\ \A r \in Requests : attemptTime[r] \in Nat /\ attemptTime[r] <= MaxTime
  <1>1. MaxTime \in Nat /\ LockTime \in Nat
    BY LoginThrottleAssumption
  <1>2. \A s \in Seq(1..MaxTime) : s \in Seq(Nat)
    <2> SUFFICES ASSUME NEW s \in Seq(1..MaxTime) PROVE s \in Seq(Nat)
      OBVIOUS
    <2>1. Len(s) \in Nat /\ \A i \in 1..Len(s) : s[i] \in 1..MaxTime
      BY <1>1
    <2> QED
      BY <1>1, <2>1
  <1> QED
    BY <1>1, <1>2 DEF TypeOK

LEMMA NothingEmbeds ==
    ASSUME NEW t
    PROVE  Embeds(<<>>, t) /\ Ascending(<<>>) /\ EndOf(<<>>, <<>>) /\ <<>> \in Seq(Nat)
  <1>1. Len(<<>>) = 0 /\ 1..Len(<<>>) = {} /\ <<>> \in Seq(Nat)
    OBVIOUS
  <1>2. [i \in 1..Len(<<>>) |-> 1] \in [1..Len(<<>>) -> 1..Len(t)]
    BY <1>1
  <1>3. Embeds(<<>>, t)
    BY <1>1, <1>2 DEF Embeds
  <1>4. Ascending(<<>>)
    BY <1>1 DEF Ascending
  <1>5. EndOf(<<>>, <<>>)
    BY <1>1 DEF EndOf
  <1> QED
    BY <1>1, <1>3, <1>4, <1>5

\* A later time lies in no window that has ended.
LEMMA WithinAppend ==
    ASSUME NEW s \in Seq(Nat), NEW x \in Nat, NEW u \in Nat, u < x
    PROVE  Within(Append(s, x), u) = Within(s, u)
  <1> DEFINE s2 == Append(s, x)
  <1>1. /\ Len(s) \in Nat /\ s2 \in Seq(Nat)
        /\ Len(s2) = Len(s) + 1 /\ s2[Len(s2)] = x /\ \A i \in 1..Len(s) : s2[i] = s[i]
    OBVIOUS
  <1> HIDE DEF s2
  <1>2. \A i \in 1..Len(s2) : i = Len(s2) \/ i \in 1..Len(s)
    BY <1>1
  <1>3. \A i \in 1..Len(s) : i \in 1..Len(s2)
    BY <1>1
  <1>4. ~(s2[Len(s2)] <= u)
    BY <1>1
  <1>5. Indices(s2, u) = Indices(s, u)
    BY <1>1, <1>2, <1>3, <1>4 DEF Indices
  <1> QED
    BY <1>1, <1>5, IndicesAreFinite DEF s2

\* Of an append that keeps the order, nothing is later than what is appended.
LEMMA LastIsLatest ==
    ASSUME NEW s \in Seq(Nat), NEW x \in Nat, InOrder(Append(s, x)), NEW k \in 1..Len(s)
    PROVE  s[k] \in Nat /\ s[k] <= x
  <1> DEFINE s2 == Append(s, x)
  <1>1. /\ Len(s) \in Nat /\ Len(s2) = Len(s) + 1 /\ s2[Len(s) + 1] = x /\ s2[k] = s[k]
        /\ s[k] \in Nat
    OBVIOUS
  <1>2. InOrder(s2)
    OBVIOUS
  <1> HIDE DEF s2
  <1>3. k \in 1..Len(s2) /\ Len(s) + 1 \in 1..Len(s2) /\ k < Len(s) + 1
    BY <1>1
  <1> QED
    BY <1>1, <1>2, <1>3 DEF InOrder

-----------------------------------------------------------------------------
(* The steps.                                                              *)

LEMMA InitInv == Init => Inv
  <1> SUFFICES ASSUME Init PROVE Inv
    OBVIOUS
  <1>1. MaxTime \in Nat \ {0} /\ MaxAttempts \in Nat \ {0} /\ LockTime \in Nat
    BY LoginThrottleAssumption
  <1>2. <<>> \in Seq(1..MaxTime) /\ Len(<<>>) = 0
    OBVIOUS
  <1>3. TypeOK
    BY <1>1, <1>2 DEF Init, TypeOK, Over
  <1>4. RowIsHistory /\ AdmittedAreRecorded
    BY NothingEmbeds DEF Init, RowIsHistory, AdmittedAreRecorded
  <1>5. Attempts
    BY DEF Init, Attempts, Busy
  <1>6. LocksForAReason /\ AdmittedBounded
    BY <1>2 DEF Init, LocksForAReason, AdmittedBounded
  <1> QED
    BY <1>3, <1>4, <1>5, <1>6 DEF Inv

\* What a quiet step leaves as it is.
LEMMA QuietLeaves ==
    Quiet => UNCHANGED <<action, failureTimestamps, lockedUntil, recorded, admitted>>
  BY DEF Quiet, Tick, Begin, CheckAnswers, CheckErrs, GoesOn, Verifies, RecordErrs, ClearErrs, row

LEMMA QuietKeepsRequests ==
    ASSUME TypeOK, Attempts, Quiet
    PROVE  TypeOK' /\ Attempts'
  <1>0. /\ action \in {"logon", "form"} /\ now \in 1..MaxTime /\ MaxTime \in Nat
        /\ pc \in [Requests -> Busy \cup Over] /\ attemptTime \in [Requests -> 0..MaxTime]
    BY LoginThrottleAssumption DEF TypeOK
  <1> DEFINE Kept == /\ now' \in 1..MaxTime /\ pc' \in [Requests -> Busy \cup Over]
                     /\ attemptTime' \in [Requests -> 0..MaxTime]
                     /\ Attempts'
  <1>1. SUFFICES Kept
    BY QuietLeaves DEF TypeOK
  <1>2. CASE Tick
    <2>1. now' \in 1..MaxTime /\ now' = now + 1 /\ UNCHANGED <<action, pc, attemptTime>>
      BY <1>0, <1>2 DEF Tick
    <2>2. \A r \in Requests : attemptTime[r] <= now' 
      <3> SUFFICES ASSUME NEW r \in Requests PROVE attemptTime[r] <= now'
        OBVIOUS
      <3>1. attemptTime[r] \in Nat /\ attemptTime[r] <= now
        BY <1>0 DEF Attempts
      <3> QED
        BY <1>0, <2>1, <3>1
    <2> QED
      BY <1>0, <2>1, <2>2 DEF Attempts
  <1>3. ASSUME NEW r \in Requests, NEW at \in Busy \cup Over, NEW time \in {attemptTime[r], now},
               at \in {"verifying", "clearing"} => action = "logon",
               at \in Busy => time # 0,
               pc' = [pc EXCEPT ![r] = at],
               attemptTime' = [attemptTime EXCEPT ![r] = time],
               UNCHANGED <<now, action>>
        PROVE  Kept
    <2>1. time \in 0..MaxTime /\ time <= now
      BY <1>0 DEF Attempts
    <2>2. /\ now' \in 1..MaxTime /\ pc' \in [Requests -> Busy \cup Over]
          /\ attemptTime' \in [Requests -> 0..MaxTime]
      BY <1>0, <1>3, <2>1
    <2>3. ASSUME NEW q \in Requests
          PROVE  /\ attemptTime'[q] <= now'
                 /\ pc'[q] \in Busy => attemptTime'[q] # 0
                 /\ pc'[q] \in {"verifying", "clearing"} => action' = "logon"
      <3>1. CASE q = r
        BY <1>0, <1>3, <2>1, <3>1
      <3>2. CASE q # r
        <4>1. pc'[q] = pc[q] /\ attemptTime'[q] = attemptTime[q]
          BY <1>0, <1>3, <3>2
        <4> QED
          BY <1>3, <4>1 DEF Attempts
      <3> QED
        BY <3>1, <3>2
    <2>4. Attempts'
      BY <2>3 DEF Attempts
    <2> QED
      BY <2>2, <2>4
  <1>4. now # 0 /\ \A r \in Requests : attemptTime = [attemptTime EXCEPT ![r] = attemptTime[r]]
    BY <1>0
  <1>5. ASSUME NEW r \in Requests, Begin(r)
        PROVE  Kept
    <2>1. /\ pc' = [pc EXCEPT ![r] = "checking"] /\ attemptTime' = [attemptTime EXCEPT ![r] = now]
          /\ UNCHANGED <<now, action>>
      BY <1>5 DEF Begin
    <2>2. "checking" \in Busy \cup Over /\ "checking" \notin {"verifying", "clearing"}
      BY DEF Busy
    <2> QED
      BY <1>3, <1>4, <2>1, <2>2
  <1>6. ASSUME NEW r \in Requests, pc[r] = "checking", GoesOn(r), UNCHANGED <<now, action>>
        PROVE  Kept
    <2>1. CASE action = "form"
      <3>1. pc' = [pc EXCEPT ![r] = "recording"] /\ attemptTime' = [attemptTime EXCEPT ![r] = now]
        BY <1>6, <2>1 DEF GoesOn
      <3>2. "recording" \in Busy \cup Over /\ "recording" \notin {"verifying", "clearing"}
        BY DEF Busy
      <3> QED
        BY <1>3, <1>4, <1>6, <3>1, <3>2
    <2>2. CASE action # "form"
      <3>1. /\ pc' = [pc EXCEPT ![r] = "verifying"]
            /\ attemptTime' = [attemptTime EXCEPT ![r] = attemptTime[r]]
            /\ action = "logon"
        BY <1>0, <1>4, <1>6, <2>2 DEF GoesOn
      <3>2. "verifying" \in Busy \cup Over /\ attemptTime[r] # 0
        BY <1>6 DEF Attempts, Busy
      <3> QED
        BY <1>3, <1>6, <3>1, <3>2
    <2> QED
      BY <2>1, <2>2
  <1>7. ASSUME NEW r \in Requests, NEW at \in Busy \cup Over,
               pc[r] \in Busy, pc' = [pc EXCEPT ![r] = at],
               at \in {"verifying", "clearing"} => action = "logon",
               UNCHANGED <<now, action, attemptTime>>
        PROVE  Kept
    <2>1. attemptTime' = [attemptTime EXCEPT ![r] = attemptTime[r]] /\ attemptTime[r] # 0
      BY <1>4, <1>7 DEF Attempts
    <2> QED
      BY <1>3, <1>7, <2>1
  <1>8. ASSUME NEW r \in Requests, CheckAnswers(r)
        PROVE  Kept
    <2>1. pc[r] = "checking" /\ UNCHANGED <<now, action>>
      BY <1>8 DEF CheckAnswers
    <2>2. CASE GoesOn(r)
      BY <1>6, <2>1, <2>2
    <2>3. CASE pc' = [pc EXCEPT ![r] = "blocked"] /\ UNCHANGED attemptTime
      BY <1>7, <2>1, <2>3 DEF Busy, Over
    <2> QED
      BY <1>8, <2>2, <2>3 DEF CheckAnswers
  <1>9. ASSUME NEW r \in Requests, NEW outcome, Verifies(r, outcome)
        PROVE  Kept
    <2>1. pc[r] = "verifying" /\ action = "logon" /\ outcome \in Busy \cup Over
      BY <1>9 DEF Verifies, Attempts, Busy, Over
    <2> QED
      BY <1>7, <1>9, <2>1 DEF Verifies, Busy
  <1>10. ASSUME NEW r \in Requests, CheckErrs(r) \/ RecordErrs(r) \/ ClearErrs(r)
         PROVE  Kept
    <2>1. CASE CheckErrs(r)
      BY <1>6, <2>1 DEF CheckErrs
    <2>2. CASE RecordErrs(r)
      BY <1>7, <2>2 DEF RecordErrs, Busy, Over
    <2>3. CASE ClearErrs(r)
      BY <1>7, <2>3 DEF ClearErrs, Busy, Over
    <2> QED
      BY <1>10, <2>1, <2>2, <2>3
  <1> QED
    BY <1>2, <1>5, <1>8, <1>9, <1>10 DEF Quiet

\* The row of logon is cleared, and nobody was admitted through it.
LEMMA ClearingKeepsInv ==
    ASSUME Inv, Clearing
    PROVE  Inv'
  <1>1. action = "logon" /\ admitted = <<>>
    BY DEF Inv, Clearing, Clears, ProfileClears, Attempts, AdmittedAreRecorded
  <1>2. /\ failureTimestamps' = <<>> /\ lockedUntil' = 0 /\ recorded' = <<>>
        /\ UNCHANGED <<action, now, attemptTime, admitted>>
    BY DEF Clearing, Clears, ProfileClears
  <1>3. pc' = pc \/ \E r \in Requests : pc' = [pc EXCEPT ![r] = "signedIn"]
    BY DEF Clearing, Clears, ProfileClears
  <1>4. <<>> \in Seq(1..MaxTime) /\ Len(<<>>) = 0 /\ MaxAttempts \in Nat
        /\ MaxTime \in Nat /\ LockTime \in Nat
    BY LoginThrottleAssumption
  <1>5. TypeOK'
    <2>1. pc' \in [Requests -> Busy \cup Over]
      BY <1>3 DEF Inv, TypeOK, Over
    <2> QED
      BY <1>2, <1>4, <2>1 DEF Inv, TypeOK
  <1>6. Attempts'
    <2>1. \A r \in Requests : pc'[r] = pc[r] \/ pc'[r] = "signedIn"
      BY <1>3 DEF Inv, TypeOK
    <2> QED
      BY <1>2, <2>1 DEF Inv, Attempts, Busy
  <1>7. RowIsHistory' /\ AdmittedAreRecorded'
    BY <1>1, <1>2, NothingEmbeds DEF RowIsHistory, AdmittedAreRecorded
  <1>8. LocksForAReason' /\ AdmittedBounded'
    BY <1>1, <1>2, <1>4 DEF LocksForAReason, AdmittedBounded
  <1> QED
    BY <1>5, <1>6, <1>7, <1>8 DEF Inv

\* An attempt that finds the row locked changes nothing but its request.
LEMMA LockedRecordKeepsInv ==
    ASSUME Inv, NEW r \in Requests, Records(r), Locked(lockedUntil, attemptTime[r])
    PROVE  Inv' /\ UNCHANGED <<failureTimestamps, lockedUntil, recorded>>
  <1>1. NextFailureState(attemptTime[r]) = [stamps |-> failureTimestamps, until |-> lockedUntil]
    BY DEF NextFailureState
  <1>2. /\ UNCHANGED <<failureTimestamps, lockedUntil, recorded, action, now, attemptTime, admitted>>
        /\ pc' = [pc EXCEPT ![r] = "blocked"]
    BY <1>1 DEF Records
  <1>3. TypeOK'
    BY <1>2 DEF Inv, TypeOK, Over
  <1>4. Attempts'
    BY <1>2 DEF Inv, TypeOK, Attempts, Busy
  <1>5. RowIsHistory' /\ AdmittedAreRecorded' /\ LocksForAReason' /\ AdmittedBounded'
    BY <1>2 DEF Inv, RowIsHistory, AdmittedAreRecorded, LocksForAReason, AdmittedBounded
  <1> QED
    BY <1>2, <1>3, <1>4, <1>5 DEF Inv

\* What an attempt does to a row that is not locked for it.
LEMMA UnlockedRecordIs ==
    ASSUME Inv, NEW r \in Requests, Records(r), ~Locked(lockedUntil, attemptTime[r])
    PROVE  LET t == attemptTime[r] IN
           /\ RowInv /\ t \in Nat /\ t \in 1..MaxTime /\ t <= now
           /\ failureTimestamps' = Counted(t) /\ recorded' = Append(recorded, t)
           /\ Len(Counted(t)) >= MaxAttempts => lockedUntil' = t + LockTime
           /\ ~(Len(Counted(t)) >= MaxAttempts) => lockedUntil' = 0
           /\ \/ admitted' = admitted
              \/ /\ admitted' = Append(admitted, t) /\ action = "form"
                 /\ ~(Len(Counted(t)) >= MaxAttempts)
           /\ \E at \in Over : pc' = [pc EXCEPT ![r] = at]
           /\ UNCHANGED <<action, now, attemptTime>>
  <1> DEFINE t == attemptTime[r]
             next == NextFailureState(t)
  <1>1. RowInv
    BY TimesAreNat DEF Inv, RowInv, RowIsHistory
  <1>2. t \in Nat /\ t \in 1..MaxTime /\ t <= now
    <2>1. t \in Nat /\ t <= MaxTime /\ t <= now
      BY TimesAreNat DEF Inv, Attempts
    <2>2. t # 0 /\ MaxTime \in Nat
      BY LoginThrottleAssumption DEF Inv, Attempts, Records, Busy
    <2> QED
      BY <2>1, <2>2
  <1>3. next = [stamps |-> Counted(t),
                until |-> IF Len(Counted(t)) >= MaxAttempts THEN t + LockTime ELSE 0]
    BY DEF NextFailureState
  <1>4. /\ failureTimestamps' = next.stamps /\ lockedUntil' = next.until
        /\ recorded' = Append(recorded, t)
        /\ UNCHANGED <<action, now, attemptTime>>
        /\ \/ /\ admitted' = admitted
           \/ /\ admitted' = Append(admitted, t) /\ action = "form" /\ ~Locked(next.until, t)
        /\ \E at \in Over : pc' = [pc EXCEPT ![r] = at]
    BY DEF Records, Over
  <1>5. Len(Counted(t)) >= MaxAttempts => next.until = t + LockTime /\ Locked(next.until, t)
    <2>1. LockTime \in Nat /\ LockTime # 0
      BY LoginThrottleAssumption
    <2> QED
      BY <1>2, <1>3, <2>1 DEF Locked
  <1>6. ~(Len(Counted(t)) >= MaxAttempts) => next.until = 0
    BY <1>3
  <1>7. next.stamps = Counted(t)
    BY <1>3
  <1> HIDE DEF next
  <1> QED
    BY <1>1, <1>2, <1>4, <1>5, <1>6, <1>7

\* An attempt that is counted: its time is in the window, the row is again a
\* part of the history, and if it locks, as many were recorded as it takes.
LEMMA UnlockedRecordKeepsInv ==
    ASSUME Inv, NEW r \in Requests, Records(r), ~Locked(lockedUntil, attemptTime[r])
    PROVE  Inv'
  <1> DEFINE t == attemptTime[r]
             C == Counted(t)
  <1>1. /\ RowInv /\ t \in Nat /\ t \in 1..MaxTime /\ t <= now
        /\ failureTimestamps' = C /\ recorded' = Append(recorded, t)
        /\ Len(C) >= MaxAttempts => lockedUntil' = t + LockTime
        /\ ~(Len(C) >= MaxAttempts) => lockedUntil' = 0
        /\ \/ admitted' = admitted
           \/ admitted' = Append(admitted, t) /\ action = "form" /\ ~(Len(C) >= MaxAttempts)
        /\ \E at \in Over : pc' = [pc EXCEPT ![r] = at]
        /\ UNCHANGED <<action, now, attemptTime>>
    BY UnlockedRecordIs
  <1> HIDE DEF t
  <1>2. /\ C \in Seq(Nat) /\ Len(C) \in 1..MaxAttempts
        /\ Ascending(C)
        /\ \A n \in 1..Len(C) :
              C[n] = t \/ \E i \in 1..Len(failureTimestamps) : C[n] = failureTimestamps[i]
        /\ Embeds(C, Append(recorded, t))
        /\ Within(Append(recorded, t), t) >= Len(C)
    BY <1>1, CountedInWindow
  <1>3. InOrder(Append(recorded, t)) =>
           /\ InOrder(recorded)
           /\ EndOf(C, Append(recorded, t))
           /\ Len(C) < MaxAttempts => Within(Append(recorded, t), t) < MaxAttempts
    BY <1>1, NoneIsMissing
  <1>4. /\ MaxAttempts \in Nat /\ LockTime \in Nat /\ MaxTime \in Nat
        /\ failureTimestamps \in Seq(1..MaxTime) /\ recorded \in Seq(1..MaxTime)
        /\ admitted \in Seq(1..MaxTime)
        /\ admitted \in Seq(Nat) /\ recorded \in Seq(Nat) /\ now \in Nat
    BY LoginThrottleAssumption, TimesAreNat DEF Inv, TypeOK
  <1> HIDE DEF C
  <1>5. TypeOK'
    <2>1. C \in Seq(1..MaxTime)
      <3>1. \A i \in 1..Len(failureTimestamps) : failureTimestamps[i] \in 1..MaxTime
        BY <1>4
      <3>2. \A n \in 1..Len(C) : C[n] \in 1..MaxTime
        BY <1>1, <1>2, <3>1
      <3> QED
        BY <1>2, <3>2, SeqOver
    <2>2. recorded' \in Seq(1..MaxTime) /\ admitted' \in Seq(1..MaxTime)
      <3>1. Append(recorded, t) \in Seq(1..MaxTime) /\ Append(admitted, t) \in Seq(1..MaxTime)
        BY <1>1, <1>4
      <3> QED
        BY <1>1, <1>4, <3>1
    <2>3. lockedUntil' \in 0..(MaxTime + LockTime)
      BY <1>1, <1>4
    <2>4. pc' \in [Requests -> Busy \cup Over]
      BY <1>1 DEF Inv, TypeOK
    <2>5. Len(C) <= MaxAttempts
      BY <1>2
    <2> QED
      BY <1>1, <2>1, <2>2, <2>3, <2>4, <2>5 DEF Inv, TypeOK
  <1>6. Attempts'
    <2>1. \A q \in Requests : pc'[q] = pc[q] \/ pc'[q] \in Over
      BY <1>1 DEF Inv, TypeOK
    <2> QED
      BY <1>1, <2>1 DEF Inv, Attempts, Busy, Over
  <1>7. RowIsHistory'
    BY <1>1, <1>2, <1>3 DEF RowIsHistory
  <1>8. AdmittedAreRecorded'
    <2>1. Embeds(admitted, recorded)
      BY DEF Inv, AdmittedAreRecorded
    <2>2. Embeds(admitted, Append(recorded, t)) /\ Embeds(Append(admitted, t), Append(recorded, t))
      BY <1>1, <1>4, <2>1, EmbedsAppend
    <2> QED
      BY <1>1, <2>2 DEF Inv, AdmittedAreRecorded
  <1>9. LocksForAReason'
    <2>1. CASE Len(C) >= MaxAttempts
      <3>1. lockedUntil' - LockTime = t
        BY <1>1, <1>4, <2>1
      <3>2. Within(Append(recorded, t), t) >= MaxAttempts
        <4>1. Within(Append(recorded, t), t) \in Nat /\ Len(C) \in Nat
          <5>1. Append(recorded, t) \in Seq(Nat)
            BY <1>1, <1>4
          <5>2. Within(Append(recorded, t), t) \in Nat
            BY <5>1, WithinIsNat
          <5>3. Len(C) \in Nat
            BY <1>2
          <5> QED
            BY <5>2, <5>3
        <4> QED
          BY <1>2, <1>4, <2>1, <4>1
      <3> QED
        BY <1>1, <3>1, <3>2 DEF LocksForAReason, Within
    <2>2. CASE ~(Len(C) >= MaxAttempts)
      BY <1>1, <2>2 DEF LocksForAReason
    <2> QED
      BY <2>1, <2>2
  <1>10. AdmittedBounded'
    <2> SUFFICES ASSUME InOrder(Append(recorded, t)), NEW i \in 1..Len(admitted')
                 PROVE  Within(admitted', admitted'[i]) < MaxAttempts
      BY <1>1 DEF AdmittedBounded, InOrder, Within
    <2>1. \A j \in 1..Len(admitted) : Within(admitted, admitted[j]) < MaxAttempts
      BY <1>3 DEF Inv, AdmittedBounded
    <2>2. CASE admitted' = admitted
      BY <2>1, <2>2
    <2>3. CASE admitted' = Append(admitted, t) /\ ~(Len(C) >= MaxAttempts)
      <3>1. Within(admitted', t) < MaxAttempts
        <4>1. Embeds(admitted', recorded') /\ recorded' = Append(recorded, t)
          BY <1>1, <1>8 DEF AdmittedAreRecorded
        <4>2. admitted' \in Seq(Nat) /\ Append(recorded, t) \in Seq(Nat)
          BY <1>1, <1>4, <2>3
        <4>3. /\ Within(admitted', t) \in Nat /\ Within(Append(recorded, t), t) \in Nat
              /\ Within(admitted', t) <= Within(Append(recorded, t), t)
          BY <4>1, <4>2, EmbeddedIsFewer
        <4>4. Within(Append(recorded, t), t) < MaxAttempts
          <5>1. Len(C) < MaxAttempts
            BY <1>2, <1>4, <2>3
          <5> QED
            BY <1>3, <5>1
        <4> QED
          BY <1>4, <4>3, <4>4
      <3>2. i \in 1..Len(admitted) \/ admitted'[i] = t
        BY <1>4, <2>3
      <3>3. ASSUME i \in 1..Len(admitted), admitted[i] # t
            PROVE  Within(admitted', admitted[i]) < MaxAttempts
        <4>1. admitted[i] < t
          <5>1. \E k \in 1..Len(recorded) : admitted[i] = recorded[k]
            BY <3>3 DEF Inv, AdmittedAreRecorded, Embeds
          <5>2. PICK k \in 1..Len(recorded) : admitted[i] = recorded[k]
            BY <5>1
          <5>3. recorded[k] \in Nat /\ recorded[k] <= t
            BY <1>1, <1>4, LastIsLatest
          <5> QED
            BY <1>1, <3>3, <5>2, <5>3
        <4>2. admitted[i] \in Nat
          BY <1>4, <3>3
        <4>3. Within(Append(admitted, t), admitted[i]) = Within(admitted, admitted[i])
          BY <1>1, <1>4, <4>1, <4>2, WithinAppend
        <4> QED
          BY <2>1, <2>3, <3>3, <4>3
      <3>4. i \in 1..Len(admitted) => admitted'[i] = admitted[i]
        BY <1>4, <2>3
      <3> QED
        BY <3>1, <3>2, <3>3, <3>4
    <2> QED
      BY <1>1, <2>2, <2>3
  <1> QED
    BY <1>5, <1>6, <1>7, <1>8, <1>9, <1>10 DEF Inv

LEMMA NextInv == Inv /\ [Next]_vars => Inv'
  <1> SUFFICES ASSUME Inv, [Next]_vars PROVE Inv'
    OBVIOUS
  <1>1. CASE Quiet
    <2>1. TypeOK' /\ Attempts'
      BY <1>1, QuietKeepsRequests DEF Inv
    <2>2. RowIsHistory' /\ AdmittedAreRecorded' /\ LocksForAReason' /\ AdmittedBounded'
      BY <1>1, QuietLeaves
         DEF Inv, RowIsHistory, AdmittedAreRecorded, LocksForAReason, AdmittedBounded
    <2> QED
      BY <2>1, <2>2 DEF Inv
  <1>2. CASE Clearing
    BY <1>2, ClearingKeepsInv
  <1>3. ASSUME NEW r \in Requests, Records(r)
        PROVE  Inv'
    BY <1>3, LockedRecordKeepsInv, UnlockedRecordKeepsInv
  <1>4. CASE UNCHANGED vars
    <2>1. TypeOK' /\ Attempts'
      BY <1>4 DEF Inv, TypeOK, Attempts, vars, row
    <2>2. RowIsHistory' /\ AdmittedAreRecorded' /\ LocksForAReason' /\ AdmittedBounded'
      BY <1>4 DEF Inv, RowIsHistory, AdmittedAreRecorded, LocksForAReason, AdmittedBounded,
                  vars, row
    <2> QED
      BY <2>1, <2>2 DEF Inv
  <1> QED
    BY <1>1, <1>2, <1>3, <1>4, NextIs

THEOREM ThrottleInv == Spec => []Inv
  BY InitInv, NextInv, PTL DEF Spec

-----------------------------------------------------------------------------
(* The properties.                                                         *)

\* Of the throttle, for any number of requests, any limit, window and lock:
\* the row never holds more times than it may, and every time in it, recorded
\* or admitted is one the clock has shown.
THEOREM ThrottleTypeCorrect == Spec => []TypeOK
  BY ThrottleInv, PTL DEF Inv

\* nextFailureState locks the row only when as many attempts lie in the window.
THEOREM LocksAreExplained == Spec => []LocksForAReason
  BY ThrottleInv, PTL DEF Inv

\* Records that are not overtaken admit fewer than MaxAttempts in any window.
THEOREM AdmissionsAreBounded == Spec => []AdmittedBounded
  BY ThrottleInv, PTL DEF Inv

\* The attempt that fills a window locks the row in the same transaction.
THEOREM FullWindowLocks == Spec => NthAttemptLocks
  <1> DEFINE Reaches(i) == LET t == recorded'[i] IN
               Within(recorded', t) >= MaxAttempts /\ Within(recorded, t) < MaxAttempts
                   => lockedUntil' >= t + LockTime
             Step == Len(recorded') > Len(recorded) /\ InOrder(recorded') =>
                        \A i \in 1..Len(recorded') : Reaches(i)
  <1>1. ASSUME Inv, [Next]_vars
        PROVE  [Step]_vars
    <2> SUFFICES ASSUME Len(recorded') > Len(recorded), InOrder(recorded'),
                        NEW i \in 1..Len(recorded')
                 PROVE  Reaches(i)
      OBVIOUS
    <2>0. /\ recorded \in Seq(Nat) /\ Len(recorded) \in Nat
          /\ MaxAttempts \in Nat /\ LockTime \in Nat
      BY <1>1, TimesAreNat, LoginThrottleAssumption DEF Inv
    <2>1. ~(Len(recorded) > Len(recorded)) /\ ~(0 > Len(recorded)) /\ Len(<<>>) = 0
      BY <2>0
    <2>2. PICK r \in Requests : Records(r)
      <3>1. ~Quiet
        BY <2>1, QuietLeaves
      <3>2. ~Clearing
        BY <2>1 DEF Clearing, Clears, ProfileClears
      <3>3. ~UNCHANGED vars
        BY <2>1 DEF vars
      <3> QED
        BY <1>1, <3>1, <3>2, <3>3, NextIs
    <2> DEFINE t0 == attemptTime[r]
    <2>3. ~Locked(lockedUntil, t0)
      BY <1>1, <2>1, <2>2, LockedRecordKeepsInv
    <2>4. /\ RowInv /\ t0 \in Nat /\ recorded' = Append(recorded, t0)
          /\ Len(Counted(t0)) >= MaxAttempts => lockedUntil' = t0 + LockTime
      BY <1>1, <2>2, <2>3, UnlockedRecordIs
    <2> HIDE DEF t0
    <2>5. recorded'[i] \in Nat /\ recorded'[i] <= t0
      <3>1. /\ Len(recorded') \in 1..Len(recorded') /\ recorded'[Len(recorded')] = t0
            /\ i = Len(recorded') \/ i < Len(recorded')
            /\ recorded'[i] \in Nat
        BY <2>0, <2>4
      <3> QED
        BY <2>4, <3>1 DEF InOrder
    <2>6. CASE recorded'[i] = t0
      <3>1. Len(Counted(t0)) < MaxAttempts => Within(recorded', t0) < MaxAttempts
        BY <2>4, NoneIsMissing
      <3>2. Len(Counted(t0)) \in Nat /\ Within(recorded', t0) \in Nat
        <4>1. Append(recorded, t0) \in Seq(Nat) /\ Counted(t0) \in Seq(Nat)
          BY <2>0, <2>4, CountedInWindow
        <4>2. Within(Append(recorded, t0), t0) \in Nat
          BY <4>1, WithinIsNat
        <4>3. Len(Counted(t0)) \in Nat
          BY <4>1
        <4> QED
          BY <2>4, <4>2, <4>3
      <3>3. CASE Len(Counted(t0)) < MaxAttempts
        BY <2>0, <2>6, <3>1, <3>2, <3>3
      <3>4. CASE Len(Counted(t0)) >= MaxAttempts
        BY <2>0, <2>4, <2>6, <3>4
      <3> QED
        BY <2>0, <3>2, <3>3, <3>4
    <2>7. CASE recorded'[i] # t0
      <3>1. Within(recorded', recorded'[i]) = Within(recorded, recorded'[i])
        BY <2>0, <2>4, <2>5, <2>7, WithinAppend
      <3>2. Within(recorded, recorded'[i]) \in Nat
        BY <2>0, WithinIsNat
      <3> QED
        BY <2>0, <3>1, <3>2
    <2> QED
      BY <2>6, <2>7
  <1> QED
    BY <1>1, ThrottleInv, PTL DEF Spec, NthAttemptLocks

\* Only the row of logon is cleared: neither a record of another attempt nor
\* an error changes a lock that is in force.
THEOREM LocksStand == Spec => LockStands
  <1>1. ASSUME Inv, [Next]_vars
        PROVE  [lockedUntil > now => \/ lockedUntil' = lockedUntil
                                     \/ action = "logon" /\ row' = <<<<>>, 0>>]_vars
    <2> SUFFICES ASSUME lockedUntil > now
                 PROVE  \/ lockedUntil' = lockedUntil
                        \/ action = "logon" /\ row' = <<<<>>, 0>>
      OBVIOUS
    <2>1. CASE Quiet
      BY <2>1, QuietLeaves
    <2>2. CASE Clearing
      BY <1>1, <2>2 DEF Inv, Clearing, Clears, ProfileClears, Attempts, row
    <2>3. ASSUME NEW r \in Requests, Records(r)
          PROVE  lockedUntil' = lockedUntil
      <3>1. Locked(lockedUntil, attemptTime[r])
        <4>1. /\ attemptTime[r] \in Nat /\ attemptTime[r] <= now
              /\ lockedUntil \in Nat /\ now \in Nat
          BY <1>1, TimesAreNat DEF Inv, Attempts
        <4> QED
          BY <4>1 DEF Locked
      <3> QED
        BY <1>1, <2>3, <3>1, LockedRecordKeepsInv
    <2>4. CASE UNCHANGED vars
      BY <2>4 DEF vars, row
    <2> QED
      BY <1>1, <2>1, <2>2, <2>3, <2>4, NextIs
  <1> QED
    BY <1>1, ThrottleInv, PTL DEF Spec, LockStands

-----------------------------------------------------------------------------
(***************************************************************************)
(* The limiter.  What is known of a key at time t: h is the end of the     *)
(* list p of all its requests that were allowed, everything before it has  *)
(* left the window, and a key that was told to come back at r waits for    *)
(* the oldest of a full window.                                            *)
(***************************************************************************)

\* The requests of the window that begins with the i-th one.
Span(p, i) == {j \in i..Len(p) : p[j] < p[i] + WindowMs}

Sound(t, h, p, r) ==
    /\ Ascending(p) /\ \A i \in 1..Len(p) : p[i] <= t
    /\ Len(h) <= Len(p) /\ Len(h) <= MaxRequests
    /\ \A n \in 1..Len(h) : h[n] = p[Len(p) - Len(h) + n]
    /\ \A i \in 1..(Len(p) - Len(h)) : p[i] + WindowMs <= t
    /\ \A i \in 1..Len(p) : Cardinality(Span(p, i)) <= MaxRequests
    /\ r # 0 => Len(h) = MaxRequests /\ r = h[1] + WindowMs

LimiterInv ==
    /\ Limiter!RateLimiterAssumption
    /\ Limiter!TypeOK
    /\ \A k \in Keys : Sound(now, hits[k], passed[k], retryAt[k])

\* What Prune keeps of the hits of a key: all but the first e.
LEMMA HitsPruned ==
    ASSUME Limiter!RateLimiterAssumption, NEW t \in Nat,
           NEW h \in Seq(Nat), NEW p \in Seq(Nat), NEW r \in Nat, Sound(t, h, p, r)
    PROVE  \E e \in 0..Len(h) :
             /\ Prune(h, t, WindowMs) \in Seq(Nat) /\ Len(Prune(h, t, WindowMs)) = Len(h) - e
             /\ \A n \in 1..(Len(h) - e) : Prune(h, t, WindowMs)[n] = h[e + n]
             /\ \A i \in 1..Len(h) : i <= e <=> h[i] + WindowMs <= t
  <1>1. WindowMs \in Nat /\ Len(h) \in Nat /\ Len(p) \in Nat
    BY DEF Limiter!RateLimiterAssumption
  <1>2. Ascending(h) /\ \A i \in 1..Len(h) : h[i] <= t
    <2> DEFINE d == Len(p) - Len(h)
    <2>1. d \in Nat /\ \A i \in 1..Len(h) : d + i \in 1..Len(p) /\ h[i] = p[d + i]
      BY <1>1 DEF Sound
    <2>2. \A i, j \in 1..Len(h) : i <= j => d + i <= d + j
      BY <1>1, <2>1
    <2> HIDE DEF d
    <2> QED
      BY <2>1, <2>2 DEF Sound, Ascending
  <1>3. PICK e, q \in 0..Len(h) :
             /\ e <= q
             /\ Prune(h, t, WindowMs) \in Seq(Nat)
             /\ Len(Prune(h, t, WindowMs)) = q - e
             /\ \A n \in 1..(q - e) : Prune(h, t, WindowMs)[n] = h[e + n]
             /\ \A i \in 1..Len(h) : (i <= e <=> h[i] + WindowMs <= t) /\ (i <= q <=> h[i] <= t)
    BY <1>1, <1>2, PruneKeeps
  <1>4. q = Len(h)
    <2>1. CASE Len(h) = 0
      BY <1>1, <2>1
    <2>2. CASE Len(h) # 0
      <3>1. Len(h) \in 1..Len(h)
        BY <1>1, <2>2
      <3>2. Len(h) <= q
        BY <1>2, <1>3, <3>1
      <3> QED
        BY <1>1, <3>2
    <2> QED
      BY <2>1, <2>2
  <1> QED
    BY <1>3, <1>4

LEMMA UpToNext ==
    ASSUME NEW n \in Nat, NEW i \in Nat, NEW j \in i..(n + 1), j # n + 1
    PROVE  j \in i..n
  OBVIOUS

\* A call of check() keeps what is known of its key.
LEMMA CheckIsSound ==
    ASSUME Limiter!RateLimiterAssumption,
           NEW t \in 1..MaxTime, NEW h \in Seq(1..MaxTime), NEW p \in Seq(1..MaxTime), NEW r \in Nat,
           Sound(t, h, p, r)
    PROVE  LET result == RecordHit(h, t, WindowMs, MaxRequests)
               p2 == IF result.allowed THEN Append(p, t) ELSE p
               r2 == IF result.allowed THEN 0 ELSE t + result.retryAfter
           IN  /\ result.stamps \in Seq(1..MaxTime) /\ p2 \in Seq(1..MaxTime) /\ r2 \in Nat
               /\ Sound(t, result.stamps, p2, r2)
  <1> DEFINE kept == Prune(h, t, WindowMs)
             result == RecordHit(h, t, WindowMs, MaxRequests)
  <1>1. /\ WindowMs \in Nat \ {0} /\ MaxRequests \in Nat \ {0} /\ MaxTime \in Nat
        /\ Len(h) \in Nat /\ Len(p) \in Nat
        /\ \A i \in 1..Len(h) : h[i] \in 1..MaxTime
        /\ \A i \in 1..Len(p) : p[i] \in 1..MaxTime
    BY DEF Limiter!RateLimiterAssumption
  <1>2. t \in Nat /\ h \in Seq(Nat) /\ p \in Seq(Nat)
    BY <1>1
  <1>3. PICK e \in 0..Len(h) :
             /\ kept \in Seq(Nat) /\ Len(kept) = Len(h) - e
             /\ \A n \in 1..(Len(h) - e) : kept[n] = h[e + n]
             /\ \A i \in 1..Len(h) : i <= e <=> h[i] + WindowMs <= t
    BY <1>2, HitsPruned
  <1> HIDE DEF kept
  <1>n. /\ e \in Nat /\ e <= Len(h) /\ Len(kept) \in Nat /\ Len(kept) = Len(h) - e
        /\ Len(h) <= Len(p) /\ Len(kept) <= Len(p)
    BY <1>1, <1>3 DEF Sound
  <1>4. kept \in Seq(1..MaxTime)
    <2>1. \A n \in 1..Len(kept) : e + n \in 1..Len(h)
      BY <1>1, <1>n
    <2>2. \A n \in 1..Len(kept) : kept[n] \in 1..MaxTime
      BY <1>1, <1>3, <2>1
    <2> QED
      BY <1>3, <2>2, SeqOver
  <1>5. \A i \in 1..(Len(p) - Len(kept)) : p[i] + WindowMs <= t
    <2> SUFFICES ASSUME NEW i \in 1..(Len(p) - Len(kept)) PROVE p[i] + WindowMs <= t
      OBVIOUS
    <2>1. CASE i <= Len(p) - Len(h)
      BY <1>1, <2>1 DEF Sound
    <2>2. CASE i > Len(p) - Len(h)
      <3> DEFINE n == i - (Len(p) - Len(h))
      <3>n. e \in Nat /\ Len(p) \in Nat /\ Len(h) \in Nat /\ e <= Len(h) /\ Len(h) <= Len(p)
        BY <1>1, <1>n
      <3>i. i \in 1..(Len(p) - (Len(h) - e))
        BY <1>n
      <3>0. i \in Nat /\ Len(p) - Len(h) < i /\ i <= Len(p) - (Len(h) - e)
        BY <2>2, <3>n, <3>i
      <3>1. n \in 1..e /\ n \in 1..Len(h) /\ Len(p) - Len(h) + n = i
        <4> DEFINE a == Len(p)
                   b == Len(h)
        <4>1. /\ e \in Nat /\ a \in Nat /\ b \in Nat /\ e <= b /\ b <= a
              /\ i \in Nat /\ a - b < i /\ i <= a - (b - e)
          BY <3>0, <3>n
        <4> HIDE DEF a, b
        <4>2. i - (a - b) \in 1..e /\ i - (a - b) \in 1..b /\ a - b + (i - (a - b)) = i
          BY <4>1
        <4> QED
          BY <4>2 DEF a, b
      <3>2. h[n] + WindowMs <= t
        <4>1. n <= e
          BY <1>n, <3>1
        <4> HIDE DEF n
        <4> QED
          BY <1>3, <3>1, <4>1
      <3>3. h[n] = p[i]
        BY <3>1 DEF Sound
      <3> QED
        BY <3>2, <3>3
    <2> QED
      BY <1>1, <2>1, <2>2
  <1>6. \A n \in 1..Len(kept) : kept[n] = p[Len(p) - Len(kept) + n]
    <2> SUFFICES ASSUME NEW n \in 1..Len(kept) PROVE kept[n] = p[Len(p) - Len(kept) + n]
      OBVIOUS
    <2>1. e + n \in 1..Len(h) /\ Len(p) - Len(h) + (e + n) = Len(p) - Len(kept) + n
      BY <1>1, <1>3
    <2> QED
      BY <1>3, <2>1 DEF Sound
  <1>7. CASE Len(kept) >= MaxRequests
    <2>1. e = 0 /\ Len(h) = MaxRequests /\ Len(kept) = Len(h)
      BY <1>1, <1>3, <1>7 DEF Sound
    <2>2. result = [allowed |-> FALSE, retryAfter |-> Head(kept) + WindowMs - t, stamps |-> kept]
      BY <1>7 DEF RecordHit, kept
    <2>3. Head(kept) = kept[1] /\ kept[1] \in 1..MaxTime
      BY <1>1, <1>4, <2>1
    <2>4. result.allowed = FALSE /\ result.stamps = kept /\ t + result.retryAfter = kept[1] + WindowMs
      BY <1>1, <1>2, <2>2, <2>3
    <2>5. Sound(t, kept, p, kept[1] + WindowMs)
      BY <1>3, <1>5, <1>6, <2>1 DEF Sound
    <2>6. kept[1] + WindowMs \in Nat
      BY <1>1, <2>3
    <2> HIDE DEF result
    <2>7. /\ result.stamps \in Seq(1..MaxTime)
          /\ p \in Seq(1..MaxTime) /\ t + result.retryAfter \in Nat
          /\ Sound(t, result.stamps, p, t + result.retryAfter)
      BY <1>4, <2>4, <2>5, <2>6
    <2> QED
      BY <2>4, <2>7 DEF result
  <1>8. CASE ~(Len(kept) >= MaxRequests)
    <2> DEFINE h2 == Append(kept, t)
               p2 == Append(p, t)
    <2>1. result = [allowed |-> TRUE, retryAfter |-> 0, stamps |-> h2]
      BY <1>8 DEF RecordHit, kept
    <2>2. /\ h2 \in Seq(1..MaxTime) /\ Len(h2) = Len(kept) + 1 /\ h2[Len(h2)] = t
          /\ \A n \in 1..Len(kept) : h2[n] = kept[n]
      BY <1>4
    <2>3. /\ p2 \in Seq(1..MaxTime) /\ Len(p2) = Len(p) + 1 /\ p2[Len(p2)] = t
          /\ \A i \in 1..Len(p) : p2[i] = p[i]
      OBVIOUS
    <2> HIDE DEF h2, p2
    <2>4. Len(kept) \in Nat /\ Len(kept) <= Len(p)
      BY <1>n
    <2>5. Ascending(p2) /\ \A i \in 1..Len(p2) : p2[i] <= t
      <3>1. \A i \in 1..Len(p2) : i \in 1..Len(p) \/ i = Len(p2)
        BY <1>1, <2>3
      <3>2. \A i \in 1..Len(p2) : p2[i] <= t
        <4>1. \A i \in 1..Len(p) : p[i] <= t
          BY DEF Sound
        <4>2. t <= t
          BY <1>2
        <4> QED
          BY <2>3, <3>1, <4>1, <4>2
      <3>3. \A i, j \in 1..Len(p2) : i <= j /\ i = Len(p2) => j = Len(p2)
        BY <1>1, <2>3
      <3> QED
        BY <1>1, <1>2, <2>3, <3>1, <3>2, <3>3 DEF Sound, Ascending
    <2>6. \A n \in 1..Len(h2) : h2[n] = p2[Len(p2) - Len(h2) + n]
      <3> SUFFICES ASSUME NEW n \in 1..Len(h2) PROVE h2[n] = p2[Len(p2) - Len(h2) + n]
        OBVIOUS
      <3>1. CASE n = Len(h2)
        <4>1. Len(p2) - Len(h2) + n = Len(p2)
          BY <1>1, <2>2, <2>3, <2>4, <3>1
        <4> QED
          BY <2>2, <2>3, <3>1, <4>1
      <3>2. CASE n # Len(h2)
        <4>1. n \in 1..Len(kept) /\ Len(p2) - Len(h2) + n = Len(p) - Len(kept) + n
          BY <1>1, <2>2, <2>3, <2>4, <3>2
        <4>2. Len(p) - Len(kept) + n \in 1..Len(p)
          BY <1>1, <2>4, <4>1
        <4> QED
          BY <1>6, <2>2, <2>3, <4>1, <4>2
      <3> QED
        BY <3>1, <3>2
    <2>7. \A i \in 1..(Len(p2) - Len(h2)) : p2[i] + WindowMs <= t
      <3>1. Len(p2) - Len(h2) = Len(p) - Len(kept)
        BY <1>1, <2>2, <2>3, <2>4
      <3>2. \A i \in 1..(Len(p) - Len(kept)) : i \in 1..Len(p)
        BY <1>1, <2>4
      <3> QED
        BY <1>5, <2>3, <3>1, <3>2
    <2>8. ASSUME NEW i \in 1..Len(p2)
          PROVE  Cardinality(Span(p2, i)) <= MaxRequests
      <3>1. CASE i <= Len(p) - Len(kept)
        <4>1. i \in 1..(Len(p) - Len(kept)) /\ i \in 1..Len(p)
          BY <1>1, <2>3, <2>4, <3>1
        <4>2. p2[i] = p[i] /\ p[i] + WindowMs <= t /\ p[i] \in Nat
          <5>1. p2[i] = p[i] /\ p[i] \in 1..MaxTime
            BY <1>1, <2>3, <4>1
          <5>2. p[i] + WindowMs <= t
            BY <1>5, <4>1
          <5> QED
            BY <1>1, <5>1, <5>2
        <4>3. /\ \A j \in i..Len(p2) : (j \in i..Len(p) \/ j = Len(p2))
              /\ \A j \in i..Len(p) : (j \in i..Len(p2) /\ j \in 1..Len(p))
          <5>1. Len(p) \in Nat /\ Len(p2) = Len(p) + 1 /\ i \in Nat /\ 1 <= i /\ i <= Len(p)
            BY <1>1, <2>3, <4>1
          <5>2. ASSUME NEW j \in i..Len(p2), j # Len(p2)
                PROVE  j \in i..Len(p)
            <6>1. j \in i..(Len(p) + 1) /\ j # Len(p) + 1
              BY <5>1, <5>2
            <6> QED
              BY <5>1, <6>1, UpToNext
          <5>3. ASSUME NEW j \in i..Len(p)
                PROVE  j \in i..Len(p2) /\ j \in 1..Len(p)
            <6>1. j \in Int /\ i <= j /\ j <= Len(p)
              BY <5>1
            <6> QED
              BY <5>1, <6>1
          <5> QED
            BY <5>2, <5>3
        <4>4. ~(p2[Len(p2)] < p2[i] + WindowMs)
          <5>1. p2[Len(p2)] = t /\ p2[i] + WindowMs <= t
            BY <2>3, <4>2
          <5>2. p2[i] + WindowMs \in Nat
            <6>1. p2[i] \in Nat
              BY <4>2
            <6>2. WindowMs \in Nat
              BY <1>1
            <6> QED
              BY <6>1, <6>2
          <5> QED
            BY <1>2, <5>1, <5>2
        <4>5. Span(p2, i) = Span(p, i)
          BY <2>3, <4>2, <4>3, <4>4 DEF Span
        <4> QED
          BY <4>1, <4>5 DEF Sound
      <3>2. CASE i > Len(p) - Len(kept)
        <4>1. Span(p2, i) \in SUBSET (i..Len(p2))
          BY DEF Span
        <4>2. IsFiniteSet(i..Len(p2)) /\ Cardinality(i..Len(p2)) = Len(p2) - i + 1
          BY <1>1, <2>3, FS_Interval
        <4>3. Cardinality(Span(p2, i)) <= Len(p2) - i + 1 /\ Cardinality(Span(p2, i)) \in Nat
          BY <4>1, <4>2, FS_Subset, FS_CardinalityType
        <4> QED
          BY <1>1, <1>8, <2>3, <2>4, <3>2, <4>3
      <3> QED
        BY <1>1, <2>3, <2>4, <3>1, <3>2
    <2>9. Sound(t, h2, p2, 0)
      BY <1>1, <1>8, <2>2, <2>3, <2>4, <2>5, <2>6, <2>7, <2>8 DEF Sound
    <2>10. result.allowed = TRUE /\ result.stamps = h2
      BY <2>1
    <2> HIDE DEF result
    <2> QED
      BY <2>2, <2>3, <2>9, <2>10 DEF result, p2
  <1> QED
    BY <1>7, <1>8

LEMMA NewKeyIsSound ==
    ASSUME Limiter!RateLimiterAssumption, NEW t \in Nat
    PROVE  Sound(t, <<>>, <<>>, 0)
  BY DEF Limiter!RateLimiterAssumption, Sound, Ascending

LEMMA LaterIsSound ==
    ASSUME Limiter!RateLimiterAssumption, NEW t \in Nat, NEW t2 \in Nat, t <= t2,
           NEW h \in Seq(Nat), NEW p \in Seq(Nat), NEW r \in Nat, Sound(t, h, p, r)
    PROVE  Sound(t2, h, p, r)
  <1>1. WindowMs \in Nat /\ Len(p) \in Nat /\ Len(h) \in Nat /\ \A i \in 1..Len(p) : p[i] \in Nat
    BY DEF Limiter!RateLimiterAssumption
  <1>2. \A i \in 1..Len(p) : p[i] <= t2
    BY <1>1 DEF Sound
  <1>3. \A i \in 1..(Len(p) - Len(h)) : p[i] + WindowMs <= t2
    BY <1>1 DEF Sound
  <1> QED
    BY <1>2, <1>3 DEF Sound

\* The limiter prunes as the throttle does: what the instance defines is the
\* same function.
LEMMA SameCardinality ==
    \A S : Limiter!Cardinality(S) = Cardinality(S)
  <1>1. \A S : Limiter!IsFiniteSet(S) <=> IsFiniteSet(S)
    BY Zenon DEF Limiter!IsFiniteSet, IsFiniteSet
  <1> QED
    BY <1>1, Zenon DEF Limiter!Cardinality, Cardinality

LEMMA SameRecordHit ==
    \A s, t, w, m : Limiter!RecordHit(s, t, w, m) = RecordHit(s, t, w, m)
  <1>1. \A s, ix : Limiter!ElementsAt(s, ix) = ElementsAt(s, ix)
    <2> SUFFICES ASSUME NEW s, NEW ix PROVE Limiter!ElementsAt(s, ix) = ElementsAt(s, ix)
      OBVIOUS
    <2> DEFINE at(n) == CHOOSE i \in ix : Cardinality({j \in ix : j <= i}) = n
               theirs(n) == CHOOSE i \in ix : Limiter!Cardinality({j \in ix : j <= i}) = n
    <2>1. \A n : theirs(n) = at(n)
      BY SameCardinality, Zenon
    <2>2. Limiter!ElementsAt(s, ix) = [n \in 1..Limiter!Cardinality(ix) |-> s[theirs(n)]]
      BY Zenon DEF Limiter!ElementsAt
    <2>3. ElementsAt(s, ix) = [n \in 1..Cardinality(ix) |-> s[at(n)]]
      BY Zenon DEF ElementsAt
    <2>4. Limiter!Cardinality(ix) = Cardinality(ix)
      BY SameCardinality, Zenon
    <2> HIDE DEF at, theirs
    <2> QED
      BY <2>1, <2>2, <2>3, <2>4
  <1>2. \A s, t, w : Limiter!Prune(s, t, w) = Prune(s, t, w)
    BY <1>1, Zenon DEF Limiter!Prune, Prune
  <1> QED
    <2> SUFFICES ASSUME NEW s, NEW t, NEW w, NEW m
                 PROVE  Limiter!RecordHit(s, t, w, m) = RecordHit(s, t, w, m)
      OBVIOUS
    <2> DEFINE hit(kept) ==
                 IF Len(kept) >= m
                 THEN [allowed |-> FALSE, retryAfter |-> Head(kept) + w - t, stamps |-> kept]
                 ELSE [allowed |-> TRUE, retryAfter |-> 0, stamps |-> Append(kept, t)]
    <2>1. Limiter!RecordHit(s, t, w, m) = hit(Limiter!Prune(s, t, w))
      BY Zenon DEF Limiter!RecordHit
    <2>2. RecordHit(s, t, w, m) = hit(Prune(s, t, w))
      BY Zenon DEF RecordHit
    <2> HIDE DEF hit
    <2> QED
      BY <1>2, <2>1, <2>2

LEMMA InvInductive ==
    ASSUME LimiterInv, [Limiter!Next]_(Limiter!vars)
    PROVE  LimiterInv'
  <1>0. Limiter!RateLimiterAssumption
    BY DEF LimiterInv
  <1>1. MaxTime \in Nat /\ \A s \in Seq(1..MaxTime) : s \in Seq(Nat)
    BY <1>0 DEF Limiter!RateLimiterAssumption
  <1>2. /\ now \in 1..MaxTime /\ hits \in [Keys -> Seq(1..MaxTime)]
        /\ passed \in [Keys -> Seq(1..MaxTime)] /\ retryAt \in [Keys -> Nat]
        /\ \A k \in Keys : Sound(now, hits[k], passed[k], retryAt[k])
    BY DEF LimiterInv, Limiter!TypeOK
  <1>3. ASSUME now' \in 1..MaxTime, hits' \in [Keys -> Seq(1..MaxTime)],
               passed' \in [Keys -> Seq(1..MaxTime)], retryAt' \in [Keys -> Nat],
               \A k \in Keys : Sound(now', hits'[k], passed'[k], retryAt'[k])
        PROVE  LimiterInv'
    BY <1>3 DEF LimiterInv, Limiter!TypeOK, Sound
  <1>4. ASSUME NEW k \in Keys, Limiter!Check(k)
        PROVE  LimiterInv'
    <2> DEFINE result == RecordHit(hits[k], now, WindowMs, MaxRequests)
               p2 == IF result.allowed THEN Append(passed[k], now) ELSE passed[k]
               r2 == IF result.allowed THEN 0 ELSE now + result.retryAfter
    <2>1. /\ result.stamps \in Seq(1..MaxTime) /\ p2 \in Seq(1..MaxTime) /\ r2 \in Nat
          /\ Sound(now, result.stamps, p2, r2)
      BY <1>0, <1>2, CheckIsSound
    <2>2. /\ hits' = [hits EXCEPT ![k] = result.stamps]
          /\ passed' = [passed EXCEPT ![k] = p2]
          /\ retryAt' = [retryAt EXCEPT ![k] = r2]
          /\ now' = now
      BY <1>2, <1>4, SameRecordHit DEF Limiter!Check
    <2> HIDE DEF result, p2, r2
    <2> QED
      BY <1>2, <1>3, <2>1, <2>2
  <1>5. ASSUME NEW ks, Limiter!Reset(ks)
        PROVE  LimiterInv'
    <2>1. now' = now /\ now \in Nat
      BY <1>1, <1>2, <1>5 DEF Limiter!Reset
    <2>2. /\ hits' \in [Keys -> Seq(1..MaxTime)] /\ passed' \in [Keys -> Seq(1..MaxTime)]
          /\ retryAt' \in [Keys -> Nat]
      <3>1. <<>> \in Seq(1..MaxTime) /\ 0 \in Nat
        OBVIOUS
      <3> QED
        BY <1>2, <1>5, <3>1 DEF Limiter!Reset
    <2>3. ASSUME NEW k \in Keys
          PROVE  Sound(now', hits'[k], passed'[k], retryAt'[k])
      <3>1. CASE k \in ks
        <4>1. hits'[k] = <<>> /\ passed'[k] = <<>> /\ retryAt'[k] = 0
          BY <1>5, <3>1 DEF Limiter!Reset
        <4> QED
          BY <1>0, <2>1, <4>1, NewKeyIsSound
      <3>2. CASE k \notin ks
        <4>1. hits'[k] = hits[k] /\ passed'[k] = passed[k] /\ retryAt'[k] = retryAt[k]
          BY <1>5, <3>2 DEF Limiter!Reset
        <4> QED
          BY <1>2, <2>1, <4>1
      <3> QED
        BY <3>1, <3>2
    <2> QED
      BY <1>2, <1>3, <2>1, <2>2, <2>3
  <1>6. CASE Limiter!Tick
    <2>1. now' \in 1..MaxTime /\ now <= now' /\ UNCHANGED <<hits, passed, retryAt>>
      BY <1>1, <1>2, <1>6 DEF Limiter!Tick
    <2>2. ASSUME NEW k \in Keys
          PROVE  Sound(now', hits[k], passed[k], retryAt[k])
      <3>1. now \in Nat /\ now' \in Nat /\ hits[k] \in Seq(Nat) /\ passed[k] \in Seq(Nat)
        BY <1>1, <1>2, <2>1
      <3> QED
        BY <1>0, <1>2, <2>1, <3>1, LaterIsSound
    <2> QED
      BY <1>2, <1>3, <2>1, <2>2
  <1>7. CASE UNCHANGED Limiter!vars
    BY <1>2, <1>3, <1>7 DEF Limiter!vars
  <1> QED
    BY <1>4, <1>5, <1>6, <1>7 DEF Limiter!Next

LEMMA InitIsSound ==
    ASSUME Limiter!RateLimiterAssumption, Limiter!Init
    PROVE  LimiterInv
  <1>1. MaxTime \in Nat \ {0} /\ MaxRequests \in Nat
    BY DEF Limiter!RateLimiterAssumption
  <1>2. <<>> \in Seq(1..MaxTime) /\ Len(<<>>) = 0
    OBVIOUS
  <1>3. Limiter!TypeOK
    BY <1>1, <1>2 DEF Limiter!Init, Limiter!TypeOK
  <1>4. Sound(1, <<>>, <<>>, 0)
    BY NewKeyIsSound
  <1> QED
    BY <1>3, <1>4 DEF Limiter!Init, LimiterInv

THEOREM LimiterInvHolds == Limiter!RateLimiterAssumption /\ Limiter!Spec => []LimiterInv
  <1>1. Limiter!RateLimiterAssumption /\ Limiter!Init => LimiterInv
    BY InitIsSound
  <1>2. LimiterInv /\ [Limiter!Next]_(Limiter!vars) => LimiterInv'
    BY InvInductive
  <1> QED
    BY <1>1, <1>2, PTL DEF Limiter!Spec

\* The map of hits, the clock and the answers keep their types, and no key
\* holds more hits than its budget.
THEOREM LimiterTypeCorrect == Limiter!RateLimiterAssumption /\ Limiter!Spec => []Limiter!TypeOK
  <1>1. LimiterInv => Limiter!TypeOK
    BY DEF LimiterInv
  <1> QED
    BY <1>1, LimiterInvHolds, PTL

\* No window, wherever it begins, holds more allowed requests of one key than
\* the budget, for any number of keys and any way the clock moves on.
THEOREM BudgetHolds == Limiter!RateLimiterAssumption /\ Limiter!Spec => []WithinBudget
  <1>1. LimiterInv => WithinBudget
    <2> SUFFICES ASSUME LimiterInv, NEW k \in Keys, NEW i \in 1..Len(passed[k])
                 PROVE  Cardinality(Span(passed[k], i)) <= MaxRequests
      BY SameCardinality, Zenon DEF WithinBudget, Span
    <2> QED
      BY DEF LimiterInv, Sound
  <1> QED
    BY <1>1, LimiterInvHolds, PTL

\* A blocked key is blocked until the moment it was told, and not a tick
\* longer.
THEOREM RetryAfterExact ==
    Limiter!RateLimiterAssumption /\ Limiter!Spec => []RetryAfterIsExact
  <1>1. LimiterInv => RetryAfterIsExact
    <2> SUFFICES ASSUME LimiterInv, NEW k \in Keys, retryAt[k] # 0
                 PROVE  RecordHit(hits[k], now, WindowMs, MaxRequests).allowed
                            <=> now >= retryAt[k]
      BY SameRecordHit DEF RetryAfterIsExact
    <2> DEFINE h == hits[k]
               kept == Prune(h, now, WindowMs)
    <2>1. /\ MaxTime \in Nat /\ MaxRequests \in Nat \ {0} /\ WindowMs \in Nat
          /\ now \in 1..MaxTime /\ h \in Seq(1..MaxTime) /\ passed[k] \in Seq(1..MaxTime)
          /\ retryAt[k] \in Nat /\ Sound(now, h, passed[k], retryAt[k])
      BY DEF Limiter!RateLimiterAssumption, LimiterInv, Limiter!TypeOK
    <2>2. now \in Nat /\ h \in Seq(Nat) /\ passed[k] \in Seq(Nat) /\ Len(h) = MaxRequests
          /\ retryAt[k] = h[1] + WindowMs /\ h[1] \in Nat
      <3>0. retryAt[k] # 0
        OBVIOUS
      <3> HIDE DEF h
      <3>1. Len(h) = MaxRequests /\ retryAt[k] = h[1] + WindowMs
        BY <2>1, <3>0 DEF Sound
      <3>2. 1 \in 1..Len(h) /\ \A i \in 1..Len(h) : h[i] \in 1..MaxTime
        BY <2>1, <3>1
      <3>3. now \in Nat /\ h[1] \in Nat /\ \A s \in Seq(1..MaxTime) : s \in Seq(Nat)
        BY <2>1, <3>2
      <3> QED
        BY <2>1, <3>1, <3>3
    <2>3. PICK e \in 0..Len(h) :
             /\ Len(kept) = Len(h) - e
             /\ \A i \in 1..Len(h) : i <= e <=> h[i] + WindowMs <= now
      BY <2>1, <2>2, HitsPruned DEF LimiterInv
    <2>4. RecordHit(h, now, WindowMs, MaxRequests).allowed <=> ~(Len(kept) >= MaxRequests)
      BY DEF RecordHit
    <2> HIDE DEF h, kept
    <2>5. Len(kept) >= MaxRequests <=> e = 0
      <3>1. e \in Nat /\ MaxRequests \in Nat /\ Len(kept) = MaxRequests - e
        BY <2>1, <2>2, <2>3
      <3> QED
        BY <3>1
    <2>6. e = 0 <=> ~(h[1] + WindowMs <= now)
      <3>1. e \in Nat /\ 1 \in 1..Len(h)
        BY <2>1, <2>2, <2>3
      <3>2. 1 <= e <=> h[1] + WindowMs <= now
        BY <2>3, <3>1
      <3> QED
        BY <3>1, <3>2
    <2> QED
      BY <2>1, <2>2, <2>4, <2>5, <2>6 DEF h
  <1> QED
    BY <1>1, LimiterInvHolds, PTL

=============================================================================
