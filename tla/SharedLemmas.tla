---------------------------- MODULE SharedLemmas ----------------------------
(***************************************************************************)
(* What the proofs of several components cite: about module Condition,     *)
(* about sequences, queues whose head moves to the end of a history, and   *)
(* FlattenSeq of the community modules.                                    *)
(***************************************************************************)
EXTENDS Condition, Integers, Sequences, SequencesExt, FiniteSets, FiniteSetTheorems,
        WellFoundedInduction, TLAPS

-----------------------------------------------------------------------------
(* What the operators of module Condition do to the sets of waiting and    *)
(* woken threads, for any finite set S of threads with control states in   *)
(* V.                                                                      *)

\* The woken threads are some of the threads, finitely many.
LEMMA WokenIsFinite ==
  ASSUME NEW S, IsFiniteSet(S), NEW V, NEW st \in [S -> V]
  PROVE  /\ Woken(st) \subseteq S
         /\ IsFiniteSet(Woken(st))
         /\ Cardinality(Woken(st)) \in Nat
<1>1. Woken(st) \in SUBSET S
  BY DEF Woken
<1> QED
  BY <1>1, FS_Subset, FS_CardinalityType

\* A thread that returns from wait() leaves the waiting and joins the woken.
LEMMA WakeOneCounts ==
  ASSUME NEW S, IsFiniteSet(S), NEW V, "woken" \in V, NEW st \in [S -> V],
         NEW st2 \in WakeOne(st)
  PROVE  /\ st2 \in [S -> V]
         /\ Waiting(st) # {}
         /\ Waiting(st2) \subseteq Waiting(st)
         /\ Cardinality(Woken(st2)) = Cardinality(Woken(st)) + 1
         /\ \A x \in S : \/ st2[x] = st[x]
                         \/ st[x] = "waiting" /\ st2[x] = "woken"
<1>1. PICK x \in Waiting(st) : st2 = [st EXCEPT ![x] = "woken"]
  BY DEF WakeOne
<1>2. x \in S /\ st[x] = "waiting"
  BY <1>1 DEF Waiting
<1>3. st2 \in [S -> V]
  BY <1>1, <1>2
<1>4. Waiting(st2) \subseteq Waiting(st)
  BY <1>1, <1>2 DEF Waiting
<1>5. Woken(st2) = Woken(st) \cup {x} /\ x \notin Woken(st)
  BY <1>1, <1>2 DEF Woken
<1>6. Cardinality(Woken(st2)) = Cardinality(Woken(st)) + 1
  BY <1>5, WokenIsFinite, FS_AddElement
<1> QED
  BY <1>1, <1>2, <1>3, <1>4, <1>6

\* A notification is lost only when nobody waits; otherwise one more is woken.
LEMMA NotifyCounts ==
  ASSUME NEW S, IsFiniteSet(S), NEW V, "woken" \in V, NEW st \in [S -> V],
         NEW st2 \in Notify(st)
  PROVE  /\ st2 \in [S -> V]
         /\ Waiting(st2) \subseteq Waiting(st)
         /\ Waiting(st) = {} => st2 = st
         /\ Waiting(st) # {} =>
              Cardinality(Woken(st2)) = Cardinality(Woken(st)) + 1
         /\ \A x \in S : \/ st2[x] = st[x]
                         \/ st[x] = "waiting" /\ st2[x] = "woken"
<1>1. CASE Waiting(st) = {}
  BY <1>1 DEF Notify
<1>2. CASE Waiting(st) # {}
  <2>1. st2 \in WakeOne(st)
    BY <1>2 DEF Notify
  <2> QED
    BY <1>2, <2>1, WakeOneCounts
<1> QED
  BY <1>1, <1>2

\* A broadcast leaves nobody waiting.
LEMMA NotifyAllWakes ==
  ASSUME NEW S, NEW V, "woken" \in V, NEW st \in [S -> V]
  PROVE  /\ NotifyAll(st) \in [S -> V]
         /\ Waiting(NotifyAll(st)) = {}
         /\ \A x \in S : \/ NotifyAll(st)[x] = st[x]
                         \/ st[x] = "waiting" /\ NotifyAll(st)[x] = "woken"
  BY DEF NotifyAll, Waiting

\* Thread x moves on to v by itself.
Move(st, x, v) == [st EXCEPT ![x] = v]

\* A thread that moves on by itself takes at most itself from the woken.
LEMMA MoveCounts ==
  ASSUME NEW S, IsFiniteSet(S), NEW V, NEW st \in [S -> V],
         NEW x \in S, NEW v \in V \ {"woken"}
  PROVE  /\ Move(st, x, v) \in [S -> V]
         /\ v \notin {"waiting"} => Waiting(Move(st, x, v)) \subseteq Waiting(st)
         /\ Cardinality(Woken(Move(st, x, v))) \in Nat
         /\ Cardinality(Woken(Move(st, x, v))) >= Cardinality(Woken(st)) - 1
         /\ \/ x \in Woken(st)
            \/ Cardinality(Woken(Move(st, x, v))) >= Cardinality(Woken(st))
<1>1. Move(st, x, v) \in [S -> V]
  BY DEF Move
<1>2. v \notin {"waiting"} => Waiting(Move(st, x, v)) \subseteq Waiting(st)
  BY DEF Move, Waiting
<1>3. Woken(Move(st, x, v)) = Woken(st) \ {x}
  BY DEF Move, Woken
<1>4. IsFiniteSet(Woken(st)) /\ Cardinality(Woken(st)) \in Nat
  BY WokenIsFinite
<1>5. Cardinality(Woken(Move(st, x, v))) =
        IF x \in Woken(st) THEN Cardinality(Woken(st)) - 1
                           ELSE Cardinality(Woken(st))
  BY <1>3, <1>4, FS_RemoveElement
<1>6. Cardinality(Woken(Move(st, x, v))) >= Cardinality(Woken(st)) - 1
  BY <1>4, <1>5
<1>7. \/ x \in Woken(st)
      \/ Cardinality(Woken(Move(st, x, v))) >= Cardinality(Woken(st))
  BY <1>4, <1>5
<1>8. Cardinality(Woken(Move(st, x, v))) \in Nat
  BY <1>1, WokenIsFinite
<1> QED
  BY <1>1, <1>2, <1>6, <1>7, <1>8

-----------------------------------------------------------------------------
(* Concatenation.                                                          *)

\* Concatenation is associative.
LEMMA ConcatAssoc ==
  ASSUME NEW S, NEW x \in Seq(S), NEW y \in Seq(S), NEW z \in Seq(S)
  PROVE  (x \o y) \o z = x \o (y \o z)
  OBVIOUS

\* Append is concatenation of one element.
LEMMA AppendIsConcat ==
  ASSUME NEW S, NEW s \in Seq(S), NEW e \in S
  PROVE  Append(s, e) = s \o <<e>> /\ <<e>> \in Seq(S)
  OBVIOUS

\* The empty sequence is its unit.
LEMMA ConcatNothing ==
  ASSUME NEW S, NEW s \in Seq(S)
  PROVE  s \o <<>> = s /\ <<>> \o s = s
  OBVIOUS

\* A sequence of length one is its element.
LEMMA OneElement ==
  ASSUME NEW S, NEW s \in Seq(S), Len(s) = 1
  PROVE  s[1] \in S /\ s = <<s[1]>>
<1>1. s[1] \in S
  OBVIOUS
<1>2. s = [i \in 1 .. 1 |-> s[i]]
  OBVIOUS
<1>3. [i \in 1 .. 1 |-> s[i]] = <<s[1]>>
  OBVIOUS
<1> QED
  BY <1>1, <1>2, <1>3

-----------------------------------------------------------------------------
(* First parts and the rest.                                               *)

\* The first elements of a sequence.
LEMMA FirstPart ==
  ASSUME NEW S, NEW s \in Seq(S), NEW k \in 0 .. Len(s)
  PROVE  SubSeq(s, 1, k) \in Seq(S) /\ Len(SubSeq(s, 1, k)) = k
  OBVIOUS

\* The whole is its own first part.
LEMMA WholePart ==
  ASSUME NEW S, NEW s \in Seq(S)
  PROVE  SubSeq(s, 1, Len(s)) = s
  OBVIOUS

\* What is left behind the first k elements.
LEMMA RestPart ==
  ASSUME NEW S, NEW s \in Seq(S), NEW k \in 0 .. Len(s)
  PROVE  LET r == SubSeq(s, k + 1, Len(s))
         IN  /\ r \in Seq(S) /\ Len(r) = Len(s) - k
             /\ \A i \in 1 .. Len(s) - k : r[i] = s[i + k]
  OBVIOUS

\* A first part and the rest make the whole.
LEMMA SplitAt ==
  ASSUME NEW S, NEW s \in Seq(S), NEW k \in 0 .. Len(s)
  PROVE  /\ SubSeq(s, 1, k) \in Seq(S) /\ SubSeq(s, k + 1, Len(s)) \in Seq(S)
         /\ s = SubSeq(s, 1, k) \o SubSeq(s, k + 1, Len(s))
<1> DEFINE a == SubSeq(s, 1, k)
           b == SubSeq(s, k + 1, Len(s))
<1>1. a \in Seq(S) /\ Len(a) = k /\ \A i \in 1 .. k : a[i] = s[i]
  OBVIOUS
<1>2. b \in Seq(S) /\ Len(b) = Len(s) - k /\ \A i \in 1 .. Len(s) - k : b[i] = s[i + k]
  OBVIOUS
<1> HIDE DEF a, b
<1>3. a \o b \in Seq(S) /\ Len(a \o b) = Len(s)
  <2>1. a \in Seq(S) /\ b \in Seq(S) /\ Len(a) = k /\ Len(b) = Len(s) - k
    BY <1>1, <1>2
  <2>2. a \o b \in Seq(S) /\ Len(a \o b) = Len(a) + Len(b)
    BY <2>1
  <2>3. k + (Len(s) - k) = Len(s)
    OBVIOUS
  <2> QED
    BY <2>1, <2>2, <2>3
<1>4. ASSUME NEW i \in 1 .. Len(s) PROVE (a \o b)[i] = s[i]
  <2>1. CASE i <= k
    BY <1>1, <1>2, <2>1
  <2>2. CASE i > k
    <3>1. i - k \in 1 .. Len(s) - k /\ (i - k) + k = i /\ k \in Nat /\ i \in Nat
      BY <2>2
    <3>2. b[i - k] = s[i - k + k]
      BY <1>2, <3>1
    <3>3. i \in Len(a) + 1 .. Len(a) + Len(b)
      BY <1>1, <1>2, <2>2, <3>1
    <3>4. a \in Seq(S) /\ b \in Seq(S)
      BY <1>1, <1>2
    <3>5. (a \o b)[i] = b[i - Len(a)]
      BY <3>3, <3>4
    <3> QED
      BY <1>1, <3>1, <3>2, <3>5
  <2>3. i <= k \/ i > k
    OBVIOUS
  <2> QED
    BY <2>1, <2>2, <2>3
<1> DEFINE c == a \o b
<1>5. c \in Seq(S) /\ Len(c) = Len(s) /\ \A i \in 1 .. Len(s) : c[i] = s[i]
  BY <1>3, <1>4
<1> HIDE DEF c
<1>6. c = s
  BY <1>5
<1>7. s = a \o b
  BY <1>6 DEF c
<1> QED
  BY <1>1, <1>2, <1>7 DEF a, b

\* What comes behind a sequence leaves its first part alone.
LEMMA FirstPartOfConcat ==
  ASSUME NEW S, NEW s \in Seq(S), NEW t \in Seq(S), NEW k \in 0 .. Len(s)
  PROVE  SubSeq(s \o t, 1, k) = SubSeq(s, 1, k)
<1>1. s \o t \in Seq(S) /\ Len(s \o t) = Len(s) + Len(t)
  OBVIOUS
<1>2. \A i \in 1 .. k : (s \o t)[i] = s[i]
  OBVIOUS
<1>3. SubSeq(s \o t, 1, k) = [i \in 1 .. k |-> (s \o t)[i]]
  BY <1>1
<1>4. SubSeq(s, 1, k) = [i \in 1 .. k |-> s[i]]
  OBVIOUS
<1> QED
  BY <1>2, <1>3, <1>4

\* The first part of the first part.
LEMMA FirstPartOfFirst ==
  ASSUME NEW S, NEW s \in Seq(S), NEW k \in 0 .. Len(s), NEW n \in 0 .. k
  PROVE  SubSeq(SubSeq(s, 1, k), 1, n) = SubSeq(s, 1, n)
  OBVIOUS

\* A first part is a prefix.
LEMMA FirstPartIsPrefix ==
  ASSUME NEW S, NEW s \in Seq(S), NEW k \in 0 .. Len(s)
  PROVE  IsPrefix(SubSeq(s, 1, k), s)
<1>1. SubSeq(s, 1, k) \in Seq(S) /\ Len(SubSeq(s, 1, k)) = k
  BY FirstPart
<1>2. SubSeq(SubSeq(s, 1, k), 1, k) = SubSeq(s, 1, k)
  BY FirstPartOfFirst
<1>3. k <= Len(s)
  OBVIOUS
<1> QED
  BY <1>1, <1>2, <1>3 DEF IsPrefix

\* The rest of a sequence is a suffix of it.
LEMMA RestIsSuffix ==
  ASSUME NEW S, NEW t \in Seq(S), NEW j \in 0 .. Len(t)
  PROVE  IsSuffix(SubSeq(t, j + 1, Len(t)), t)
<1> DEFINE r == SubSeq(t, j + 1, Len(t))
           n == Len(t) - j
<1>1. r \in Seq(S) /\ Len(r) = n /\ n \in 0 .. Len(t) /\ Len(t) \in Nat /\ j = Len(t) - n
  OBVIOUS
<1>2. \A i \in 1 .. n : r[i] = t[i + j]
  OBVIOUS
<1> HIDE DEF r, n
<1> DEFINE rr == Reverse(r)
           rt == Reverse(t)
<1>3. rr = [i \in 1 .. n |-> r[n - i + 1]]
  BY <1>1 DEF Reverse
<1>4. rt = [i \in 1 .. Len(t) |-> t[Len(t) - i + 1]]
  BY DEF Reverse
<1>5. \A i \in 1 .. n : r[n - i + 1] \in S
  BY <1>1
<1>6. \A i \in 1 .. Len(t) : t[Len(t) - i + 1] \in S
  OBVIOUS
<1>7. rr \in Seq(S) /\ Len(rr) = n
  BY <1>1, <1>3, <1>5
<1>8. rt \in Seq(S) /\ Len(rt) = Len(t)
  BY <1>1, <1>4, <1>6
<1>9. ASSUME NEW i \in 1 .. n PROVE rr[i] = rt[i]
  <2>1. n - i + 1 \in 1 .. n /\ n - i + 1 + j = Len(t) - i + 1 /\ i \in 1 .. Len(t)
    BY <1>1
  <2>2. r[n - i + 1] = t[n - i + 1 + j]
    BY <2>1, <1>2
  <2> QED
    BY <2>1, <2>2, <1>3, <1>4
<1> HIDE DEF rr, rt
<1>10. SubSeq(rr, 1, n) = [i \in 1 .. n |-> rr[i]]
  BY <1>1, <1>7
<1>11. SubSeq(rt, 1, n) = [i \in 1 .. n |-> rt[i]]
  BY <1>1, <1>8
<1>12. SubSeq(rr, 1, n) = SubSeq(rt, 1, n)
  BY <1>9, <1>10, <1>11
<1>13. IsPrefix(rr, rt)
  BY <1>1, <1>7, <1>8, <1>12 DEF IsPrefix
<1> QED
  BY <1>13 DEF IsSuffix, r, rr, rt

\* What is left behind the first k elements, when they are more than s, is left of t.
LEMMA RestOfConcat ==
  ASSUME NEW S, NEW s \in Seq(S), NEW t \in Seq(S), NEW k \in Len(s) .. Len(s \o t)
  PROVE  IsSuffix(SubSeq(s \o t, k + 1, Len(s \o t)), t)
<1> DEFINE j == k - Len(s)
<1>1. s \o t \in Seq(S) /\ Len(s \o t) = Len(s) + Len(t) /\ j \in 0 .. Len(t)
  OBVIOUS
<1>2. SubSeq(s \o t, k + 1, Len(s \o t)) = SubSeq(t, j + 1, Len(t))
  OBVIOUS
<1> QED
  BY <1>1, <1>2, RestIsSuffix

-----------------------------------------------------------------------------
(* Elements and their order.                                               *)

\* The elements of a concatenation.
LEMMA RangeOfConcat ==
  ASSUME NEW S, NEW x \in Seq(S), NEW y \in Seq(S)
  PROVE  Range(x \o y) = Range(x) \cup Range(y)
<1>1. x \o y \in Seq(S) /\ Len(x \o y) = Len(x) + Len(y)
  OBVIOUS
<1>2. ASSUME NEW i \in DOMAIN (x \o y) PROVE (x \o y)[i] \in Range(x) \cup Range(y)
  <2>1. i \in 1 .. Len(x) + Len(y) /\ Len(x) \in Nat /\ Len(y) \in Nat
    BY <1>1
  <2>2. CASE i <= Len(x)
    <3>1. i \in DOMAIN x /\ (x \o y)[i] = x[i]
      BY <2>1, <2>2
    <3> QED
      BY <3>1 DEF Range
  <2>3. CASE i > Len(x)
    <3>1. i - Len(x) \in DOMAIN y /\ (x \o y)[i] = y[i - Len(x)]
      BY <2>1, <2>3
    <3> QED
      BY <3>1 DEF Range
  <2>4. i <= Len(x) \/ i > Len(x)
    BY <2>1
  <2> QED
    BY <2>2, <2>3, <2>4
<1>3. ASSUME NEW i \in DOMAIN x PROVE x[i] \in Range(x \o y)
  <2>1. i \in DOMAIN (x \o y) /\ (x \o y)[i] = x[i]
    BY <1>1
  <2> QED
    BY <2>1 DEF Range
<1>4. ASSUME NEW i \in DOMAIN y PROVE y[i] \in Range(x \o y)
  <2>1. i + Len(x) \in DOMAIN (x \o y) /\ (x \o y)[i + Len(x)] = y[i]
    BY <1>1
  <2> QED
    BY <2>1 DEF Range
<1> QED
  BY <1>2, <1>3, <1>4 DEF Range

\* Each element is related to those after it.
SortedBy(s, R) == \A i, j \in DOMAIN s : i < j => <<s[i], s[j]>> \in R

\* A concatenation is sorted when both parts are and the first goes before the second.
LEMMA SortedConcat ==
  ASSUME NEW S, NEW x \in Seq(S), NEW y \in Seq(S), NEW R
  PROVE  SortedBy(x \o y, R) <=>
           /\ SortedBy(x, R) /\ SortedBy(y, R)
           /\ \A a \in Range(x), b \in Range(y) : <<a, b>> \in R
<1> DEFINE z == x \o y
<1>1. /\ DOMAIN x = 1 .. Len(x) /\ DOMAIN y = 1 .. Len(y) /\ Len(x) \in Nat /\ Len(y) \in Nat
      /\ DOMAIN z = 1 .. Len(x) + Len(y)
  OBVIOUS
<1>2. \A i \in DOMAIN x : i \in DOMAIN z /\ z[i] = x[i]
  OBVIOUS
<1>3. \A i \in DOMAIN y : i + Len(x) \in DOMAIN z /\ z[i + Len(x)] = y[i]
  OBVIOUS
<1>4. \A i \in DOMAIN z : \/ i \in DOMAIN x
                          \/ i > Len(x) /\ i - Len(x) \in DOMAIN y /\ z[i] = y[i - Len(x)]
  OBVIOUS
<1> HIDE DEF z
<1>5. ASSUME SortedBy(z, R)
      PROVE  /\ SortedBy(x, R) /\ SortedBy(y, R)
             /\ \A a \in Range(x), b \in Range(y) : <<a, b>> \in R
  <2>1. SortedBy(x, R)
    BY <1>2, <1>5 DEF SortedBy
  <2>2. SortedBy(y, R)
    <3>1. SUFFICES ASSUME NEW i \in DOMAIN y, NEW j \in DOMAIN y, i < j
                   PROVE  <<y[i], y[j]>> \in R
      BY DEF SortedBy
    <3>2. i + Len(x) < j + Len(x)
      BY <1>1, <3>1
    <3> QED
      BY <1>3, <1>5, <3>2 DEF SortedBy
  <2>3. ASSUME NEW i \in DOMAIN x, NEW j \in DOMAIN y PROVE <<x[i], y[j]>> \in R
    <3>1. i < j + Len(x)
      BY <1>1
    <3> QED
      BY <1>2, <1>3, <1>5, <3>1 DEF SortedBy
  <2> QED
    BY <2>1, <2>2, <2>3 DEF Range
<1>6. ASSUME SortedBy(x, R), SortedBy(y, R),
             \A a \in Range(x), b \in Range(y) : <<a, b>> \in R
      PROVE  SortedBy(z, R)
  <2>1. SUFFICES ASSUME NEW i \in DOMAIN z, NEW j \in DOMAIN z, i < j
                 PROVE  <<z[i], z[j]>> \in R
    BY DEF SortedBy
  <2>2. CASE j \in DOMAIN x
    <3>1. i \in DOMAIN x
      BY <1>1, <2>1, <2>2
    <3> QED
      BY <1>2, <1>6, <2>1, <2>2, <3>1 DEF SortedBy
  <2>3. CASE j > Len(x) /\ j - Len(x) \in DOMAIN y /\ z[j] = y[j - Len(x)]
    <3>1. CASE i \in DOMAIN x
      BY <1>2, <1>6, <2>3, <3>1 DEF Range
    <3>2. CASE i > Len(x) /\ i - Len(x) \in DOMAIN y /\ z[i] = y[i - Len(x)]
      <4>1. i - Len(x) < j - Len(x)
        BY <1>1, <2>1
      <4> QED
        BY <1>6, <2>3, <3>2, <4>1 DEF SortedBy
    <3> QED
      BY <1>4, <3>1, <3>2
  <2> QED
    BY <1>4, <2>2, <2>3
<1> QED
  BY <1>5, <1>6 DEF z

\* Backwards, the last comes first.
LEMMA ReverseAppend ==
  ASSUME NEW S, NEW s \in Seq(S), NEW e \in S
  PROVE  Reverse(s) \in Seq(S) /\ Reverse(Append(s, e)) = <<e>> \o Reverse(s)
<1> DEFINE n == Len(s)
           r == Reverse(s)
           t == Append(s, e)
           q == Reverse(t)
<1>1. n \in Nat /\ t \in Seq(S) /\ Len(t) = n + 1 /\ t[n + 1] = e
  OBVIOUS
<1>2. \A i \in 1 .. n : t[i] = s[i]
  OBVIOUS
<1>3. r = [i \in 1 .. n |-> s[(n - i) + 1]]
  BY DEF Reverse
<1>4. \A i \in 1 .. n : s[(n - i) + 1] \in S
  OBVIOUS
<1>5. r \in Seq(S) /\ Len(r) = n
  BY <1>1, <1>3, <1>4
<1> HIDE DEF t
<1>6. q = [i \in 1 .. n + 1 |-> t[((n + 1) - i) + 1]]
  BY <1>1 DEF Reverse
<1> HIDE DEF r, q
<1>7. \A i \in 1 .. n + 1 : ((n + 1) - i) + 1 \in 1 .. n + 1
  BY <1>1
<1>8. \A i \in 1 .. n + 1 : t[((n + 1) - i) + 1] \in S
  BY <1>1, <1>7
<1>9. q \in Seq(S) /\ Len(q) = n + 1
  BY <1>1, <1>6, <1>8
<1> DEFINE w == <<e>> \o r
<1>10. w \in Seq(S) /\ Len(w) = n + 1
  BY <1>5, <1>1
<1>11. ASSUME NEW i \in 1 .. n + 1 PROVE q[i] = w[i]
  <2>1. CASE i = 1
    <3>1. w[1] = e
      BY <1>5
    <3>2. q[1] = t[((n + 1) - 1) + 1] /\ ((n + 1) - 1) + 1 = n + 1
      BY <1>1, <1>6
    <3> QED
      BY <1>1, <2>1, <3>1, <3>2
  <2>2. CASE i # 1
    <3>1. i - 1 \in 1 .. n /\ ((n + 1) - i) + 1 = (n - (i - 1)) + 1
          /\ (n - (i - 1)) + 1 \in 1 .. n
      BY <1>1, <2>2
    <3>2. w[i] = r[i - 1]
      BY <1>5, <3>1, <2>2
    <3>3. r[i - 1] = s[(n - (i - 1)) + 1]
      BY <1>3, <3>1
    <3>4. q[i] = t[(n - (i - 1)) + 1]
      BY <1>6, <3>1
    <3> QED
      BY <1>2, <3>1, <3>2, <3>3, <3>4
  <2> QED
    BY <2>1, <2>2
<1> HIDE DEF w
<1>12. q = w
  BY <1>9, <1>10, <1>11
<1> QED
  BY <1>5, <1>12 DEF q, r, t, w

\* Backwards it has the same elements.
LEMMA ReverseIsSeq ==
  ASSUME NEW S, NEW s \in Seq(S)
  PROVE  Reverse(s) \in Seq(S)
<1>1. \A i \in 1 .. Len(s) : s[(Len(s) - i) + 1] \in S
  OBVIOUS
<1> QED
  BY <1>1 DEF Reverse

\* A sequence that is not empty.
LEMMA FrontAndLast ==
  ASSUME NEW S, NEW s \in Seq(S), s # <<>>
  PROVE  /\ Front(s) \in Seq(S) /\ Last(s) \in S
         /\ s = Append(Front(s), Last(s))
<1>1. Len(s) \in Nat /\ Len(s) > 0
  OBVIOUS
<1> DEFINE f == SubSeq(s, 1, Len(s) - 1)
           l == s[Len(s)]
<1>2. f \in Seq(S) /\ Len(f) = Len(s) - 1 /\ \A i \in 1 .. Len(s) - 1 : f[i] = s[i]
  <2>1. Len(s) - 1 \in 0 .. Len(s)
    BY <1>1
  <2>2. \A i \in 1 .. Len(s) - 1 : f[i] = s[i]
    BY <1>1
  <2> QED
    BY <2>1, <2>2, FirstPart
<1>3. l \in S
  BY <1>1
<1> HIDE DEF f
<1> DEFINE a == Append(f, l)
<1>4. a \in Seq(S) /\ Len(a) = Len(s)
  BY <1>1, <1>2, <1>3
<1>5. ASSUME NEW i \in 1 .. Len(s) PROVE a[i] = s[i]
  <2>1. i \in 1 .. Len(s) - 1 \/ i = Len(s)
    BY <1>1
  <2>2. CASE i \in 1 .. Len(s) - 1
    BY <1>2, <2>2
  <2>3. CASE i = Len(s)
    BY <1>2, <1>1, <2>3
  <2> QED
    BY <2>1, <2>2, <2>3
<1> HIDE DEF a
<1>6. a = s
  BY <1>4, <1>5
<1> QED
  BY <1>2, <1>3, <1>6 DEF a, f, Front, Last

-----------------------------------------------------------------------------
(* Queues: s is what has left the queue q, in order, and s \o q the history *)
(* of what was put in.                                                      *)

\* An element at the back of the queue is at the back of the whole history.
LEMMA AppendToSecond ==
  ASSUME NEW S, NEW s \in Seq(S), NEW q \in Seq(S), NEW e \in S
  PROVE  s \o Append(q, e) = Append(s \o q, e)
  OBVIOUS

\* An element that moves from the queue to the takers keeps its place.
LEMMA MoveHead ==
  ASSUME NEW S, NEW s \in Seq(S), NEW q \in Seq(S), q # <<>>
  PROVE  Append(s, Head(q)) \o Tail(q) = s \o q
  OBVIOUS

\* The history of n calls, and of the next.
LEMMA OneMore ==
  ASSUME NEW n \in Nat
  PROVE  Append([i \in 1 .. n |-> i], n + 1) = [i \in 1 .. (n + 1) |-> i]
<1> DEFINE s == [i \in 1 .. n |-> i]
           t == Append(s, n + 1)
<1>1. s \in Seq(Nat) /\ Len(s) = n
  OBVIOUS
<1>2. \A i \in 1 .. n : s[i] = i
  OBVIOUS
<1> HIDE DEF s
<1>3. t \in Seq(Nat) /\ Len(t) = n + 1
  BY <1>1
<1>4. \A i \in 1 .. (n + 1) : t[i] = i
  BY <1>1, <1>2
<1> HIDE DEF t
<1>5. t = [i \in 1 .. (n + 1) |-> i]
  BY <1>3, <1>4
<1> QED
  BY <1>5 DEF s, t

\* An element at the back of two queues, one behind the other.
LEMMA AppendToThird ==
  ASSUME NEW S, NEW s \in Seq(S), NEW b \in Seq(S), NEW q \in Seq(S), NEW e \in S
  PROVE  s \o (b \o Append(q, e)) = Append(s \o (b \o q), e)
<1>1. b \o Append(q, e) = Append(b \o q, e) /\ b \o q \in Seq(S)
  BY AppendToSecond
<1> QED
  BY <1>1, AppendToSecond

\* The same with one more queue behind.
LEMMA MoveHeadBefore ==
  ASSUME NEW S, NEW s \in Seq(S), NEW b \in Seq(S), NEW q \in Seq(S), b # <<>>
  PROVE  Append(s, Head(b)) \o (Tail(b) \o q) = s \o (b \o q)
  BY SMTT(30)

-----------------------------------------------------------------------------
(* Induction.  The library's rules take a predicate, which no prover here  *)
(* can instantiate; NatInd is stated with a set, and proved from the least *)
(* element a well-founded order gives a nonempty set.                      *)

\* A nonempty set of numbers has a least one.
LEMMA NatMin ==
  ASSUME NEW T, T \subseteq Nat, T # {}
  PROVE  \E x \in T : \A y \in T : x <= y
<1>1. PICK R : IsWellFoundedOn(R, Nat) /\ \A x, y \in Nat : <<x, y>> \in R <=> x < y
  <2> DEFINE Less == {ss \in Nat \X Nat : ss[1] < ss[2]}
  <2>1. IsWellFoundedOn(Less, Nat)
    BY NatLessThanWellFounded DEF OpToRel
  <2>2. \A x, y \in Nat : <<x, y>> \in Less <=> x < y
    OBVIOUS
  <2> HIDE DEF Less
  <2> QED BY <2>1, <2>2
<1>0. IsWellFoundedOn(R, Nat)
  BY <1>1
<1>2. PICK x \in T : \A y \in T : <<y,x>> \notin R
  BY <1>0, WFMin
<1>3. \A y \in T : ~ (y < x)
  BY <1>1, <1>2
<1> QED BY <1>2, <1>3

\* Induction over the numbers, for a set.
LEMMA NatInd ==
  ASSUME NEW S, 0 \in S, \A n \in Nat : n \in S => n + 1 \in S
  PROVE  Nat \subseteq S
<1>1. SUFFICES ASSUME NEW k \in Nat, k \notin S PROVE FALSE
  OBVIOUS
<1> DEFINE T == {n \in Nat : n \notin S}
<1>2. T \subseteq Nat /\ T # {}
  BY <1>1
<1>3. PICK x \in T : \A y \in T : x <= y
  BY <1>2, NatMin
<1>4. x \in Nat /\ x # 0 /\ x - 1 \in Nat
  OBVIOUS
<1>5. x - 1 \in S
  BY <1>3, <1>4
<1>6. x - 1 + 1 = x
  BY <1>4
<1>7. x - 1 + 1 \in S
  BY <1>4, <1>5
<1> QED BY <1>6, <1>7

-----------------------------------------------------------------------------
(* FlattenSeq of the community modules.                                    *)

\* f[i] is the concatenation of the first i sequences of s.
Flattens(f, s, n) == f = [i \in 1 .. n |-> IF i = 1 THEN s[i] ELSE f[i - 1] \o s[i]]

\* The function behind FlattenSeq() exists.
LEMMA FlattensExists ==
  ASSUME NEW s, NEW n \in Nat
  PROVE  \E f : Flattens(f, s, n)
<1> DEFINE Good == {k \in Nat : \E f : Flattens(f, s, k)}
<1>1. 0 \in Good
  <2> DEFINE f == [i \in 1 .. 0 |-> s]
  <2>1. Flattens(f, s, 0)
    BY DEF Flattens
  <2> HIDE DEF f
  <2> QED
    BY <2>1
<1>2. ASSUME NEW k \in Nat, k \in Good PROVE k + 1 \in Good
  <2>1. PICK f : Flattens(f, s, k)
    BY <1>2
  <2> DEFINE last == IF k = 0 THEN s[k + 1] ELSE f[k] \o s[k + 1]
             g == [i \in 1 .. k + 1 |-> IF i = k + 1 THEN last ELSE f[i]]
  <2>2. \A i \in 1 .. k : f[i] = IF i = 1 THEN s[i] ELSE f[i - 1] \o s[i]
    BY <2>1 DEF Flattens
  <2>3. \A i \in 1 .. k : g[i] = f[i]
    OBVIOUS
  <2>4. g[k + 1] = last
    OBVIOUS
  <2>5. DOMAIN g = 1 .. k + 1 /\ g = [i \in 1 .. k + 1 |-> g[i]]
    OBVIOUS
  <2> HIDE DEF g
  <2>6. ASSUME NEW i \in 1 .. k + 1
        PROVE  g[i] = IF i = 1 THEN s[i] ELSE g[i - 1] \o s[i]
    <3>1. CASE i = k + 1
      <4>1. CASE k = 0
        BY <3>1, <4>1, <2>4
      <4>2. CASE k # 0
        <5>1. k \in 1 .. k /\ i # 1 /\ i - 1 = k
          BY <3>1, <4>2
        <5>2. g[k] = f[k]
          BY <5>1, <2>3
        <5>3. g[i] = f[k] \o s[i]
          BY <3>1, <4>2, <2>4
        <5> QED
          BY <5>1, <5>2, <5>3
      <4> QED
        BY <4>1, <4>2
    <3>2. CASE i # k + 1
      <4>1. i \in 1 .. k
        BY <3>2
      <4>2. CASE i = 1
        BY <4>1, <4>2, <2>2, <2>3
      <4>3. CASE i # 1
        <5>1. i - 1 \in 1 .. k
          BY <4>1, <4>3
        <5>2. f[i] = f[i - 1] \o s[i]
          BY <4>1, <4>3, <2>2
        <5> QED
          BY <4>1, <4>3, <5>1, <5>2, <2>3
      <4> QED
        BY <4>2, <4>3
    <3> QED
      BY <3>1, <3>2
  <2> DEFINE h == [i \in 1 .. k + 1 |-> IF i = 1 THEN s[i] ELSE g[i - 1] \o s[i]]
  <2>7. g = h
    BY <2>5, <2>6
  <2>8. Flattens(g, s, k + 1)
    BY <2>7 DEF Flattens
  <2> QED
    BY <2>8
<1> HIDE DEF Good
<1>3. Nat \subseteq Good
  BY <1>1, <1>2, NatInd
<1> QED
  BY <1>3 DEF Good

\* FlattenSeq is its last value.
LEMMA FlattenSeqIs ==
  ASSUME NEW s, Len(s) \in Nat, Len(s) # 0
  PROVE  \E f : Flattens(f, s, Len(s)) /\ FlattenSeq(s) = f[Len(s)]
<1>1. \E f : Flattens(f, s, Len(s))
  BY FlattensExists
<1> DEFINE c == CHOOSE f : f = [i \in 1 .. Len(s) |-> IF i = 1 THEN s[i] ELSE f[i - 1] \o s[i]]
<1>2. Flattens(c, s, Len(s))
  BY <1>1, Zenon DEF Flattens
<1>3. FlattenSeq(s) = c[Len(s)]
  BY DEF FlattenSeq
<1> QED
  BY <1>2, <1>3

\* Its values, one after the other.
LEMMA FlattensAt ==
  ASSUME NEW f, NEW s, NEW n, Flattens(f, s, n)
  PROVE  \A i \in 1 .. n : f[i] = IF i = 1 THEN s[i] ELSE f[i - 1] \o s[i]
  BY DEF Flattens

\* The first values of the function do not depend on what comes later.
LEMMA FlattensAgree ==
  ASSUME NEW f, NEW g, NEW s, NEW t, NEW m \in Nat, NEW n \in Nat, m <= n,
         Flattens(f, s, m), Flattens(g, t, n), \A i \in 1 .. m : s[i] = t[i]
  PROVE  \A i \in 1 .. m : f[i] = g[i]
<1> DEFINE Good == {k \in Nat : k \in 1 .. m => f[k] = g[k]}
<1>1. 0 \in Good
  OBVIOUS
<1>2. ASSUME NEW k \in Nat, k \in Good PROVE k + 1 \in Good
  <2>1. SUFFICES ASSUME k + 1 \in 1 .. m PROVE f[k + 1] = g[k + 1]
    OBVIOUS
  <2>2. f[k + 1] = IF k + 1 = 1 THEN s[k + 1] ELSE f[k + 1 - 1] \o s[k + 1]
    BY <2>1, FlattensAt
  <2>3. k + 1 \in 1 .. n
    BY <2>1
  <2>4. g[k + 1] = IF k + 1 = 1 THEN t[k + 1] ELSE g[k + 1 - 1] \o t[k + 1]
    BY <2>3, FlattensAt
  <2>5. k + 1 - 1 = k /\ (k + 1 # 1 => k \in 1 .. m)
    BY <2>1
  <2> QED
    BY <1>2, <2>1, <2>2, <2>4, <2>5
<1> HIDE DEF Good
<1>3. Nat \subseteq Good
  BY <1>1, <1>2, NatInd
<1> QED
  BY <1>3 DEF Good

\* No sequences, no elements.
LEMMA FlattenEmpty == FlattenSeq(<<>>) = <<>>
  BY DEF FlattenSeq

\* A sequence more at the end.
LEMMA FlattenAppend ==
  ASSUME NEW S, NEW s \in Seq(Seq(S)), NEW e \in Seq(S), FlattenSeq(s) \in Seq(S)
  PROVE  FlattenSeq(Append(s, e)) = FlattenSeq(s) \o e
<1> DEFINE n == Len(s)
           t == Append(s, e)
<1>1. n \in Nat /\ Len(t) = n + 1 /\ t[n + 1] = e /\ \A i \in 1 .. n : s[i] = t[i]
  OBVIOUS
<1> HIDE DEF t
<1>2. PICK g : Flattens(g, t, n + 1) /\ FlattenSeq(t) = g[n + 1]
  <2>1. Len(t) \in Nat /\ Len(t) # 0
    BY <1>1
  <2> QED
    BY <1>1, <2>1, FlattenSeqIs
<1>3. g[n + 1] = IF n + 1 = 1 THEN t[n + 1] ELSE g[n + 1 - 1] \o t[n + 1]
  <2>1. n + 1 \in 1 .. n + 1
    BY <1>1
  <2> QED
    BY <1>2, <2>1, FlattensAt
<1>4. CASE n = 0
  <2>1. s = <<>> /\ FlattenSeq(s) = <<>>
    BY <1>4, FlattenEmpty
  <2>2. FlattenSeq(t) = e
    BY <1>1, <1>2, <1>3, <1>4
  <2> QED
    BY <2>1, <2>2 DEF t
<1>5. CASE n # 0
  <2>1. PICK f : Flattens(f, s, n) /\ FlattenSeq(s) = f[n]
    BY <1>1, <1>5, FlattenSeqIs
  <2>2. f[n] = g[n]
    <3>1. n + 1 \in Nat /\ n <= n + 1 /\ n \in 1 .. n
      BY <1>1, <1>5
    <3> HIDE DEF n
    <3>2. \A i \in 1 .. n : f[i] = g[i]
      BY <1>1, <1>2, <2>1, <3>1, FlattensAgree, SMTT(30)
    <3> QED
      BY <3>1, <3>2
  <2>3. n + 1 # 1 /\ n + 1 - 1 = n
    BY <1>1, <1>5
  <2> QED
    BY <1>1, <1>2, <1>3, <2>1, <2>2, <2>3 DEF t
<1> QED
  BY <1>4, <1>5

\* The result is a sequence of the same elements.
LEMMA FlattenType ==
  ASSUME NEW S, NEW s \in Seq(Seq(S))
  PROVE  FlattenSeq(s) \in Seq(S)
<1> DEFINE pre(k) == SubSeq(s, 1, k)
           Good == {k \in Nat : k <= Len(s) => FlattenSeq(pre(k)) \in Seq(S)}
<1>1. pre(0) = <<>> /\ pre(Len(s)) = s /\ Len(s) \in Nat
  OBVIOUS
<1>2. \A k \in Nat : k + 1 <= Len(s) =>
        /\ pre(k) \in Seq(Seq(S)) /\ s[k + 1] \in Seq(S) /\ k <= Len(s)
        /\ pre(k + 1) = Append(pre(k), s[k + 1])
  OBVIOUS
<1> HIDE DEF pre
<1>3. 0 \in Good
  <2>1. <<>> \in Seq(S)
    OBVIOUS
  <2> QED
    BY <1>1, <2>1, FlattenEmpty
<1>4. ASSUME NEW k \in Nat, k \in Good PROVE k + 1 \in Good
  <2>1. SUFFICES ASSUME k + 1 <= Len(s) PROVE FlattenSeq(pre(k + 1)) \in Seq(S)
    OBVIOUS
  <2> DEFINE x == FlattenSeq(pre(k))
  <2>2. x \in Seq(S) /\ s[k + 1] \in Seq(S)
    BY <1>2, <1>4, <2>1
  <2>3. FlattenSeq(pre(k + 1)) = x \o s[k + 1]
    BY <1>2, <2>1, <2>2, FlattenAppend
  <2> HIDE DEF x
  <2>4. x \o s[k + 1] \in Seq(S)
    BY <2>2
  <2> QED
    BY <2>3, <2>4
<1>5. Len(s) \in Good
  <2> HIDE DEF Good
  <2>1. Nat \subseteq Good
    BY <1>3, <1>4, NatInd
  <2> QED
    BY <1>1, <2>1
<1>6. Len(s) <= Len(s)
  BY <1>1
<1>7. FlattenSeq(pre(Len(s))) \in Seq(S)
  BY <1>5, <1>6
<1> QED
  BY <1>1, <1>7

\* FlattenSeq of two sequences of sequences, one behind the other.
LEMMA FlattenConcat ==
  ASSUME NEW S, NEW s \in Seq(Seq(S)), NEW t \in Seq(Seq(S))
  PROVE  FlattenSeq(s \o t) = FlattenSeq(s) \o FlattenSeq(t)
<1> DEFINE pre(k) == SubSeq(t, 1, k)
           Good == {k \in Nat : k <= Len(t) =>
                      FlattenSeq(s \o pre(k)) = FlattenSeq(s) \o FlattenSeq(pre(k))}
<1>1. pre(0) = <<>> /\ pre(Len(t)) = t /\ Len(t) \in Nat
  OBVIOUS
<1>2. \A k \in Nat : k + 1 <= Len(t) =>
        /\ pre(k) \in Seq(Seq(S)) /\ t[k + 1] \in Seq(S) /\ k <= Len(t)
        /\ pre(k + 1) = Append(pre(k), t[k + 1])
  OBVIOUS
<1> HIDE DEF pre
<1>3. 0 \in Good
  <2> DEFINE x == FlattenSeq(s)
  <2>1. x \in Seq(S)
    BY FlattenType
  <2> HIDE DEF x
  <2>2. x \o <<>> = x /\ s \o <<>> = s
    BY <2>1
  <2> QED
    BY <1>1, <2>2, FlattenEmpty DEF x
<1>4. ASSUME NEW k \in Nat, k \in Good PROVE k + 1 \in Good
  <2>1. SUFFICES ASSUME k + 1 <= Len(t)
                 PROVE  FlattenSeq(s \o pre(k + 1)) = FlattenSeq(s) \o FlattenSeq(pre(k + 1))
    OBVIOUS
  <2> DEFINE e == t[k + 1]
             p == pre(k)
             x == FlattenSeq(s)
             y == FlattenSeq(p)
  <2>2. p \in Seq(Seq(S)) /\ e \in Seq(S) /\ pre(k + 1) = Append(p, e)
    BY <1>2, <2>1
  <2>3. FlattenSeq(s \o p) = x \o y
    BY <1>2, <1>4, <2>1
  <2> HIDE DEF p, e
  <2>4. s \o p \in Seq(Seq(S)) /\ s \o Append(p, e) = Append(s \o p, e)
    BY <2>2, SMTT(30)
  <2>5. x \in Seq(S) /\ y \in Seq(S) /\ FlattenSeq(s \o p) \in Seq(S)
    BY <2>2, <2>4, FlattenType
  <2>6. FlattenSeq(Append(p, e)) = y \o e
    BY <2>2, <2>5, FlattenAppend
  <2>7. FlattenSeq(Append(s \o p, e)) = (x \o y) \o e
    BY <2>2, <2>3, <2>4, <2>5, FlattenAppend
  <2> HIDE DEF x, y
  <2>8. x \in Seq(S) /\ y \in Seq(S) /\ e \in Seq(S)
    BY <2>2, <2>5
  <2>9. (x \o y) \o e = x \o (y \o e)
    BY <2>8, ConcatAssoc
  <2> QED
    BY <2>2, <2>4, <2>6, <2>7, <2>9 DEF x
<1>5. Len(t) \in Good
  <2> HIDE DEF Good
  <2>1. Nat \subseteq Good
    BY <1>3, <1>4, NatInd
  <2> QED
    BY <1>1, <2>1
<1>6. Len(t) <= Len(t)
  BY <1>1
<1>7. FlattenSeq(s \o pre(Len(t))) = FlattenSeq(s) \o FlattenSeq(pre(Len(t)))
  BY <1>5, <1>6
<1> QED
  BY <1>1, <1>7

\* FlattenSeq of one sequence.
LEMMA FlattenOne ==
  ASSUME NEW S, NEW e \in Seq(S)
  PROVE  FlattenSeq(<<e>>) = e
<1>1. <<e>> = Append(<<>>, e) /\ <<>> \in Seq(Seq(S)) /\ <<>> \in Seq(S) /\ <<>> \o e = e
  OBVIOUS
<1> QED
  BY <1>1, FlattenEmpty, FlattenAppend

-----------------------------------------------------------------------------
(* Functions defined by recursion over the numbers up to N.                *)

\* f starts with base and goes from the value at n - 1 to that at n by step[n].
Recurs(f, N, base, step) ==
  f[0] = base /\ \A n \in 1 .. N : f[n] = step[n][f[n - 1]]

\* A recursion on numbers has a solution.
LEMMA RecursionExists ==
  ASSUME NEW S, NEW N \in Nat, NEW base \in S, NEW step \in [1 .. N -> [S -> S]]
  PROVE  \E f \in [0 .. N -> S] : Recurs(f, N, base, step)
<1> DEFINE Upto(f, k) == f[0] = base /\ \A n \in 1 .. k : f[n] = step[n][f[n - 1]]
           Good == {k \in Nat : k <= N => \E f \in [0 .. k -> S] : Upto(f, k)}
<1>1. 0 \in Good
  <2> DEFINE f == [n \in 0 .. 0 |-> base]
  <2>1. f \in [0 .. 0 -> S] /\ Upto(f, 0)
    OBVIOUS
  <2> HIDE DEF f, Upto
  <2> QED
    BY <2>1
<1>2. ASSUME NEW k \in Nat, k \in Good PROVE k + 1 \in Good
  <2>1. SUFFICES ASSUME k + 1 <= N
                 PROVE  \E f \in [0 .. k + 1 -> S] : Upto(f, k + 1)
    OBVIOUS
  <2>2. PICK f \in [0 .. k -> S] : Upto(f, k)
    BY <1>2, <2>1
  <2> DEFINE last == step[k + 1][f[k]]
             g == [n \in 0 .. k + 1 |-> IF n = k + 1 THEN last ELSE f[n]]
  <2>3. last \in S
    <3>1. k + 1 \in 1 .. N /\ k \in 0 .. k
      BY <2>1
    <3>2. step[k + 1] \in [S -> S] /\ f[k] \in S
      BY <3>1
    <3> QED
      BY <3>2
  <2>4. /\ \A n \in 0 .. k : g[n] = f[n]
        /\ g[k + 1] = last
    OBVIOUS
  <2>5. g \in [0 .. k + 1 -> S]
    <3> HIDE DEF last
    <3>1. \A n \in 0 .. k + 1 : n # k + 1 => n \in 0 .. k
      OBVIOUS
    <3> QED
      BY <2>3, <3>1
  <2> HIDE DEF g
  <2>6. Upto(g, k + 1)
    <3>1. 0 \in 0 .. k /\ k \in 0 .. k
      OBVIOUS
    <3>2. g[0] = base
      BY <2>2, <2>4, <3>1
    <3>3. ASSUME NEW n \in 1 .. k + 1 PROVE g[n] = step[n][g[n - 1]]
      <4>1. CASE n = k + 1
        <5>1. n - 1 = k
          BY <4>1
        <5> QED
          BY <2>4, <3>1, <4>1, <5>1
      <4>2. CASE n # k + 1
        <5>1. n \in 1 .. k /\ n \in 0 .. k /\ n - 1 \in 0 .. k
          BY <4>2
        <5> QED
          BY <2>2, <2>4, <5>1
      <4> QED
        BY <4>1, <4>2
    <3> QED
      BY <3>2, <3>3
  <2> QED
    BY <2>5, <2>6
<1> HIDE DEF Good
<1>3. N \in Good
  BY <1>1, <1>2, NatInd
<1> QED
  BY <1>3 DEF Good, Recurs

GoOnAlike(f, g, N) == \A n \in 1 .. N : f[n - 1] = g[n - 1] => f[n] = g[n]

\* Two functions that start alike and go on alike agree.
LEMMA RecursionAgrees ==
  ASSUME NEW N \in Nat, NEW f, NEW g, f[0] = g[0], GoOnAlike(f, g, N)
  PROVE  \A n \in 0 .. N : f[n] = g[n]
<1> DEFINE Good == {k \in Nat : k <= N => f[k] = g[k]}
<1>1. 0 \in Good
  OBVIOUS
<1>2. ASSUME NEW k \in Nat, k \in Good PROVE k + 1 \in Good
  <2>1. SUFFICES ASSUME k + 1 <= N PROVE f[k + 1] = g[k + 1]
    OBVIOUS
  <2>2. k + 1 \in 1 .. N /\ k + 1 - 1 = k /\ k <= N
    BY <2>1
  <2>3. f[k] = g[k]
    BY <1>2, <2>2
  <2> QED
    BY <2>2, <2>3 DEF GoOnAlike
<1> HIDE DEF Good
<1>3. Nat \subseteq Good
  BY <1>1, <1>2, NatInd
<1> QED
  BY <1>3 DEF Good

=============================================================================
