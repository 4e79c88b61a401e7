---------------------------- MODULE StreamProofs ----------------------------
(***************************************************************************)
(* Theorems about the modules through which text and bytes are streamed,   *)
(* Buffer, LogStream and Logging, for any sizes, widths, values, threads   *)
(* and bounds.                                                             *)
(***************************************************************************)
EXTENDS Buffer, LogStream, Logging, SharedLemmas

-----------------------------------------------------------------------------
(* Digits: powers and numbers, one digit after the other.                  *)

Powers(f, b, n) == f = [k \in 0 .. n |-> IF k = 0 THEN 1 ELSE b * f[k - 1]]

\* Power(b, n) is the end of a sequence of powers.
LEMMA PowerIs ==
  ASSUME NEW b \in Nat, NEW n \in Nat
  PROVE  \E f \in [0 .. n -> Nat] :
           /\ Power(b, n) = f[n]
           /\ f[0] = 1
           /\ \A k \in 1 .. n : f[k] = b * f[k - 1]
<1> DEFINE step == [k \in 1 .. n |-> [x \in Nat |-> b * x]]
<1>1. step \in [1 .. n -> [Nat -> Nat]]
  OBVIOUS
<1>2. \A k \in 1 .. n : \A x \in Nat : step[k][x] = b * x
  OBVIOUS
<1> HIDE DEF step
<1>3. PICK g \in [0 .. n -> Nat] : Recurs(g, n, 1, step)
  BY <1>1, RecursionExists
<1>4. 0 \in 0 .. n /\ \A k \in 0 .. n : k # 0 => k \in 1 .. n /\ k - 1 \in 0 .. n
  OBVIOUS
<1>5. \A k \in 0 .. n : g[k] = IF k = 0 THEN 1 ELSE b * g[k - 1]
  <2>1. g[0] = 1 /\ \A k \in 1 .. n : g[k] = step[k][g[k - 1]]
    BY <1>3 DEF Recurs
  <2>2. ASSUME NEW k \in 1 .. n PROVE g[k] = b * g[k - 1]
    <3>1. g[k - 1] \in Nat
      BY <1>3, <1>4
    <3> QED
      BY <1>2, <2>1, <3>1
  <2> QED
    BY <1>4, <2>1, <2>2
<1> DEFINE h == [k \in 0 .. n |-> IF k = 0 THEN 1 ELSE b * g[k - 1]]
<1>6. g = h
  BY <1>3, <1>5
<1>7. Powers(g, b, n)
  BY <1>6 DEF Powers
<1> DEFINE c == CHOOSE p : p = [k \in 0 .. n |-> IF k = 0 THEN 1 ELSE b * p[k - 1]]
<1>8. Powers(c, b, n)
  BY <1>7, Zenon DEF Powers
<1>9. Power(b, n) = c[n]
  BY DEF Power
<1> HIDE DEF c
<1>10. c[0] = 1 /\ \A k \in 1 .. n : c[k] = b * c[k - 1]
  <2>1. \A k \in 0 .. n : c[k] = IF k = 0 THEN 1 ELSE b * c[k - 1]
    BY <1>8 DEF Powers
  <2>2. 0 \in 0 .. n /\ \A k \in 1 .. n : k \in 0 .. n /\ k # 0
    OBVIOUS
  <2> QED
    BY <2>1, <2>2
<1>11. \A k \in 0 .. n : c[k] = g[k]
  <2>1. c[0] = g[0]
    BY <1>4, <1>5, <1>10
  <2>2. ASSUME NEW k \in 1 .. n, c[k - 1] = g[k - 1] PROVE c[k] = g[k]
    <3>1. k \in 0 .. n /\ k # 0
      OBVIOUS
    <3> QED
      BY <1>5, <1>10, <2>2, <3>1
  <2>3. GoOnAlike(c, g, n)
    BY <2>2 DEF GoOnAlike
  <2> QED
    BY <2>1, <2>3, RecursionAgrees
<1>12. c \in [0 .. n -> Nat]
  <2>1. \A k \in 0 .. n : c[k] \in Nat
    BY <1>3, <1>11
  <2>2. c = [k \in 0 .. n |-> c[k]]
    BY <1>8 DEF Powers
  <2> QED
    BY <2>1, <2>2
<1> QED
  BY <1>9, <1>10, <1>12

Numbers(f, s, b) ==
  f = [k \in 0 .. Len(s) |-> IF k = 0 THEN 0 ELSE b * f[k - 1] + s[k]]

\* Number(s, b) is the end of a sequence of partial numbers.
LEMMA NumberIs ==
  ASSUME NEW b \in Nat, NEW s \in Seq(Nat)
  PROVE  \E f \in [0 .. Len(s) -> Nat] :
           /\ Number(s, b) = f[Len(s)]
           /\ f[0] = 0
           /\ \A k \in 1 .. Len(s) : f[k] = b * f[k - 1] + s[k]
<1> DEFINE n == Len(s)
           step == [k \in 1 .. n |-> [x \in Nat |-> b * x + s[k]]]
<1>0. n \in Nat /\ \A k \in 1 .. n : s[k] \in Nat
  OBVIOUS
<1>1. step \in [1 .. n -> [Nat -> Nat]]
  BY <1>0
<1>2. \A k \in 1 .. n : \A x \in Nat : step[k][x] = b * x + s[k]
  OBVIOUS
<1> HIDE DEF step, n
<1>3. PICK g \in [0 .. n -> Nat] : Recurs(g, n, 0, step)
  BY <1>0, <1>1, RecursionExists
<1>4. 0 \in 0 .. n /\ \A k \in 0 .. n : k # 0 => k \in 1 .. n /\ k - 1 \in 0 .. n
  BY <1>0
<1>5. \A k \in 0 .. n : g[k] = IF k = 0 THEN 0 ELSE b * g[k - 1] + s[k]
  BY <1>2, <1>3, <1>4 DEF Recurs
<1> DEFINE h == [k \in 0 .. n |-> IF k = 0 THEN 0 ELSE b * g[k - 1] + s[k]]
<1>6. g = h
  BY <1>3, <1>5
<1>7. Numbers(g, s, b)
  BY <1>6 DEF Numbers, n
<1> DEFINE c == CHOOSE u : u = [k \in 0 .. Len(s) |-> IF k = 0 THEN 0 ELSE b * u[k - 1] + s[k]]
<1>8. Numbers(c, s, b)
  BY <1>7, Zenon DEF Numbers
<1>9. Number(s, b) = c[n]
  BY DEF Number, n
<1> HIDE DEF c
<1>10. c[0] = 0 /\ \A k \in 1 .. n : c[k] = b * c[k - 1] + s[k]
  <2>1. \A k \in 0 .. n : c[k] = IF k = 0 THEN 0 ELSE b * c[k - 1] + s[k]
    BY <1>8 DEF Numbers, n
  <2>2. 0 \in 0 .. n /\ \A k \in 1 .. n : k \in 0 .. n /\ k # 0
    BY <1>0
  <2> QED
    BY <2>1, <2>2
<1>11. \A k \in 0 .. n : c[k] = g[k]
  <2>1. c[0] = g[0]
    BY <1>4, <1>5, <1>10
  <2>2. ASSUME NEW k \in 1 .. n, c[k - 1] = g[k - 1] PROVE c[k] = g[k]
    <3>1. k \in 0 .. n /\ k # 0
      BY <1>0
    <3> QED
      BY <1>5, <1>10, <2>2, <3>1
  <2>3. GoOnAlike(c, g, n)
    BY <2>2 DEF GoOnAlike
  <2> QED
    BY <1>0, <2>1, <2>3, RecursionAgrees, ZenonT(40)
<1>12. c \in [0 .. n -> Nat]
  <2>1. \A k \in 0 .. n : c[k] \in Nat
    BY <1>3, <1>11
  <2>2. c = [k \in 0 .. n |-> c[k]]
    BY <1>8 DEF Numbers, n
  <2> QED
    BY <2>1, <2>2
<1> QED
  BY <1>9, <1>10, <1>12 DEF n

\* Nothing multiplied.
LEMMA PowerZero ==
  ASSUME NEW b \in Nat
  PROVE  Power(b, 0) = 1
  BY PowerIs

\* A power is a natural number.
LEMMA PowerType ==
  ASSUME NEW b \in Nat, NEW n \in Nat
  PROVE  Power(b, n) \in Nat
<1>1. PICK f \in [0 .. n -> Nat] : Power(b, n) = f[n]
  BY PowerIs
<1>2. n \in 0 .. n
  OBVIOUS
<1> QED
  BY <1>1, <1>2

\* The next power.
LEMMA PowerNext ==
  ASSUME NEW b \in Nat, NEW n \in Nat
  PROVE  Power(b, n + 1) = b * Power(b, n)
<1>1. PICK f \in [0 .. n -> Nat] :
        Power(b, n) = f[n] /\ f[0] = 1 /\ \A k \in 1 .. n : f[k] = b * f[k - 1]
  BY PowerIs
<1>2. PICK g \in [0 .. n + 1 -> Nat] :
        Power(b, n + 1) = g[n + 1] /\ g[0] = 1 /\ \A k \in 1 .. n + 1 : g[k] = b * g[k - 1]
  <2>1. n + 1 \in Nat
    OBVIOUS
  <2> QED
    BY <2>1, PowerIs
<1>3. GoOnAlike(f, g, n)
  <2>1. ASSUME NEW k \in 1 .. n, f[k - 1] = g[k - 1] PROVE f[k] = g[k]
    <3>1. k \in 1 .. n + 1
      OBVIOUS
    <3> QED
      BY <1>1, <1>2, <2>1, <3>1
  <2> QED
    BY <2>1 DEF GoOnAlike
<1>4. f[n] = g[n]
  <2>1. f[0] = g[0]
    BY <1>1, <1>2
  <2>2. \A k \in 0 .. n : f[k] = g[k]
    BY <1>3, <2>1, RecursionAgrees, SMTT(30)
  <2> QED
    BY <2>2
<1>5. n + 1 \in 1 .. n + 1 /\ n + 1 - 1 = n
  OBVIOUS
<1> QED
  BY <1>1, <1>2, <1>4, <1>5

\* No power of a positive base is zero.
LEMMA PowerPositive ==
  ASSUME NEW b \in Nat \ {0}, NEW n \in Nat
  PROVE  Power(b, n) \in Nat \ {0}
<1> DEFINE Good == {k \in Nat : Power(b, k) \in Nat \ {0}}
<1>1. 0 \in Good
  BY PowerZero
<1>2. ASSUME NEW k \in Nat, k \in Good PROVE k + 1 \in Good
  BY <1>2, PowerNext
<1> HIDE DEF Good
<1>3. n \in Good
  BY <1>1, <1>2, NatInd
<1> QED
  BY <1>3 DEF Good

\* The powers of an even base are even.
LEMMA PowerEven ==
  ASSUME NEW b \in Nat \ {0}, b % 2 = 0, NEW n \in Nat \ {0}
  PROVE  Power(b, n) = 2 * (Power(b, n) \div 2)
<1>1. n - 1 \in Nat /\ n - 1 + 1 = n
  OBVIOUS
<1>2. Power(b, n) = b * Power(b, n - 1) /\ Power(b, n - 1) \in Nat
  BY <1>1, PowerNext, PowerType
<1>3. b = 2 * (b \div 2) /\ b \div 2 \in Nat
  OBVIOUS
<1>4. ASSUME NEW h \in Nat, NEW p \in Nat PROVE (2 * h) * p = 2 * (((2 * h) * p) \div 2)
  OBVIOUS
<1> QED
  BY <1>2, <1>3, <1>4

\* A number is natural.
LEMMA NumberType ==
  ASSUME NEW b \in Nat, NEW s \in Seq(Nat)
  PROVE  Number(s, b) \in Nat
<1>1. Len(s) \in 0 .. Len(s)
  OBVIOUS
<1> QED
  BY <1>1, NumberIs

\* No digits denote zero.
LEMMA NumberEmpty ==
  ASSUME NEW b \in Nat
  PROVE  Number(<<>>, b) = 0
<1>1. <<>> \in Seq(Nat) /\ Len(<<>>) = 0
  OBVIOUS
<1> QED
  BY <1>1, NumberIs, ZenonT(40)

\* One digit more.
LEMMA NumberAppend ==
  ASSUME NEW b \in Nat, NEW s \in Seq(Nat), NEW d \in Nat
  PROVE  Number(Append(s, d), b) = b * Number(s, b) + d
<1> DEFINE n == Len(s)
           longer == Append(s, d)
<1>1. /\ n \in Nat /\ Len(longer) = n + 1 /\ longer \in Seq(Nat) /\ longer[n + 1] = d
      /\ \A k \in 1 .. n : longer[k] = s[k]
  OBVIOUS
<1> HIDE DEF longer
<1>2. PICK f \in [0 .. n -> Nat] :
        /\ Number(s, b) = f[n] /\ f[0] = 0
        /\ \A k \in 1 .. n : f[k] = b * f[k - 1] + s[k]
  BY NumberIs
<1>3. PICK g \in [0 .. n + 1 -> Nat] :
        /\ Number(longer, b) = g[n + 1] /\ g[0] = 0
        /\ \A k \in 1 .. n + 1 : g[k] = b * g[k - 1] + longer[k]
  <2>1. \E g \in [0 .. Len(longer) -> Nat] :
          /\ Number(longer, b) = g[Len(longer)] /\ g[0] = 0
          /\ \A k \in 1 .. Len(longer) : g[k] = b * g[k - 1] + longer[k]
    BY <1>1, NumberIs
  <2> QED
    BY <1>1, <2>1
<1>4. f[0] = g[0] /\ GoOnAlike(f, g, n)
  <2>1. f[0] = g[0]
    BY <1>2, <1>3
  <2>2. ASSUME NEW k \in 1 .. n, f[k - 1] = g[k - 1] PROVE f[k] = g[k]
    <3>1. k \in 1 .. n + 1 /\ longer[k] = s[k]
      BY <1>1
    <3> QED
      BY <1>2, <1>3, <2>2, <3>1
  <2> QED
    BY <2>1, <2>2 DEF GoOnAlike
<1>5. f[n] = g[n]
  <2>1. \A k \in 0 .. n : f[k] = g[k]
    BY <1>1, <1>4, RecursionAgrees, SMTT(30)
  <2> QED
    BY <1>1, <2>1
<1>6. n + 1 \in 1 .. n + 1 /\ n + 1 - 1 = n
  BY <1>1
<1>7. g[n + 1] = b * g[n] + d
  <2> DEFINE m == n + 1
  <2>1. m \in 1 .. n + 1 /\ m - 1 = n /\ longer[m] = d
    BY <1>1, <1>6
  <2>2. \A k \in 1 .. n + 1 : g[k] = b * g[k - 1] + longer[k]
    BY <1>3
  <2> HIDE DEF m
  <2>3. g[m] = b * g[m - 1] + longer[m]
    BY <2>1, <2>2, Zenon
  <2>4. g[m] = b * g[n] + d
    BY <2>1, <2>3, Zenon
  <2> QED
    BY <2>4, Zenon DEF m
<1>8. Number(longer, b) = b * Number(s, b) + d
  BY <1>2, <1>3, <1>5, <1>7
<1> QED
  BY <1>8 DEF longer

\* A sequence over a smaller set is one over a larger.
LEMMA SeqOfMore ==
  ASSUME NEW S, NEW T, S \subseteq T, NEW s \in Seq(S)
  PROVE  s \in Seq(T)
<1>1. \A i \in 1 .. Len(s) : s[i] \in T
  OBVIOUS
<1>2. s = [i \in 1 .. Len(s) |-> s[i]] /\ Len(s) \in Nat
  OBVIOUS
<1> QED
  BY <1>1, <1>2

\* What stood first stands last.
LEMMA ReversePrepend ==
  ASSUME NEW S, NEW s \in Seq(S), NEW e \in S
  PROVE  Reverse(<<e>> \o s) = Append(Reverse(s), e)
<1> DEFINE n == Len(s)
           t == <<e>> \o s
           r == Reverse(s)
<1>1. n \in Nat /\ t \in Seq(S) /\ Len(t) = n + 1 /\ t[1] = e
  OBVIOUS
<1>2. \A i \in 1 .. n : t[i + 1] = s[i]
  OBVIOUS
<1>3. r \in Seq(S) /\ Len(r) = n /\ \A i \in 1 .. n : r[i] = s[(n - i) + 1]
  <2>1. r = [i \in 1 .. n |-> s[(n - i) + 1]]
    BY DEF Reverse
  <2> HIDE DEF r
  <2>2. Len(r) = n /\ \A i \in 1 .. n : r[i] = s[(n - i) + 1]
    BY <1>1, <2>1
  <2> QED
    BY <2>2, ReverseIsSeq DEF r
<1> HIDE DEF t, r
<1> DEFINE q == Reverse(t)
           w == Append(r, e)
<1>4. q = [i \in 1 .. n + 1 |-> t[((n + 1) - i) + 1]]
  BY <1>1 DEF Reverse
<1>5. w \in Seq(S) /\ Len(w) = n + 1 /\ w[n + 1] = e /\ \A i \in 1 .. n : w[i] = r[i]
  BY <1>1, <1>3
<1> HIDE DEF w
<1>6. ASSUME NEW i \in 1 .. n + 1 PROVE t[((n + 1) - i) + 1] = w[i]
  <2>1. CASE i = n + 1
    <3>1. ((n + 1) - i) + 1 = 1
      BY <1>1, <2>1
    <3> QED
      BY <1>1, <1>5, <2>1, <3>1
  <2>2. CASE i # n + 1
    <3>1. i \in 1 .. n /\ (n - i) + 1 \in 1 .. n /\ ((n + 1) - i) + 1 = (n - i) + 1 + 1
      BY <1>1, <2>2
    <3> QED
      BY <1>2, <1>3, <1>5, <3>1
  <2> QED
    BY <2>1, <2>2
<1>7. w = [i \in 1 .. n + 1 |-> w[i]]
  BY <1>1, <1>5
<1>8. q = w
  BY <1>4, <1>6, <1>7
<1> QED
  BY <1>8 DEF t, r, w

\* Reversing twice changes nothing.
LEMMA ReverseTwice ==
  ASSUME NEW S, NEW s \in Seq(S)
  PROVE  Len(Reverse(s)) = Len(s) /\ Reverse(Reverse(s)) = s
<1> DEFINE n == Len(s)
           r == Reverse(s)
<1>1. n \in Nat
  OBVIOUS
<1>2. r = [i \in 1 .. n |-> s[(n - i) + 1]]
  BY DEF Reverse
<1> HIDE DEF r
<1>3. Len(r) = n
  BY <1>1, <1>2
<1>4. Reverse(r) = [i \in 1 .. n |-> r[(n - i) + 1]]
  BY <1>3 DEF Reverse
<1>5. ASSUME NEW i \in 1 .. n PROVE r[(n - i) + 1] = s[i]
  <2>1. (n - i) + 1 \in 1 .. n /\ (n - ((n - i) + 1)) + 1 = i
    BY <1>1
  <2> QED
    BY <1>2, <2>1
<1>6. s = [i \in 1 .. n |-> s[i]]
  OBVIOUS
<1> QED
  BY <1>3, <1>4, <1>5, <1>6 DEF r

-----------------------------------------------------------------------------
(* Integers in memory.                                                     *)

\* The bytes of a number, as many as its width.
LEMMA MemoryType ==
  ASSUME NEW v \in Int, NEW n \in Nat
  PROVE  memory(v, n) \in [1 .. n -> Byte] /\ memory(v, n) \in Seq(Byte) /\ Len(memory(v, n)) = n
<1>1. ASSUME NEW i \in 1 .. n PROVE (v \div Power(Base, i - 1)) % Base \in Byte
  <2>1. Power(Base, i - 1) \in Nat \ {0} /\ Base \in Nat \ {0}
    BY PowerPositive, BufferAssumption
  <2>2. v \div Power(Base, i - 1) \in Int
    BY <2>1
  <2> QED
    BY <2>1, <2>2 DEF Byte
<1> QED
  BY <1>1 DEF memory

\* The first byte, and those after it.
LEMMA MemoryNext ==
  ASSUME NEW v \in Int, NEW n \in Nat
  PROVE  memory(v, n + 1) = <<v % Base>> \o memory(v \div Base, n)
<1> DEFINE m == memory(v, n + 1)
           q == memory(v \div Base, n)
           w == <<v % Base>> \o q
<1>1. Base \in Nat \ {0} /\ v \div Base \in Int /\ v % Base \in Byte
  BY BufferAssumption DEF Byte
<1>2. m \in Seq(Byte) /\ Len(m) = n + 1
  BY MemoryType
<1>3. q \in Seq(Byte) /\ Len(q) = n
  BY <1>1, MemoryType
<1>4. \A i \in 1 .. n + 1 : m[i] = (v \div Power(Base, i - 1)) % Base
  BY DEF memory
<1>5. \A i \in 1 .. n : q[i] = ((v \div Base) \div Power(Base, i - 1)) % Base
  BY DEF memory
<1> HIDE DEF m, q
<1>6. /\ w \in Seq(Byte) /\ Len(w) = n + 1 /\ w[1] = v % Base
      /\ \A i \in 1 .. n : w[i + 1] = q[i]
  BY <1>1, <1>3
<1> HIDE DEF w
<1>7. ASSUME NEW i \in 1 .. n + 1 PROVE m[i] = w[i]
  <2>1. CASE i = 1
    <3>1. Power(Base, i - 1) = 1
      BY <1>1, <2>1, PowerZero
    <3>2. v \div 1 = v
      OBVIOUS
    <3> QED
      BY <1>4, <1>6, <2>1, <3>1, <3>2
  <2>2. CASE i # 1
    <3> DEFINE j == i - 1
               p == Power(Base, j - 1)
    <3>1. j \in 1 .. n /\ i = j + 1 /\ j - 1 \in Nat /\ i - 1 = j - 1 + 1
      BY <2>2
    <3>2. p \in Nat \ {0} /\ Power(Base, i - 1) = Base * p
      BY <1>1, <3>1, PowerPositive, PowerNext
    <3> HIDE DEF p
    <3>3. v \div (Base * p) = (v \div Base) \div p
      BY <1>1, <3>2
    <3>4. q[j] = ((v \div Base) \div p) % Base
      BY <1>5, <3>1 DEF p
    <3>5. m[i] = (v \div (Base * p)) % Base
      BY <1>4, <3>2
    <3> QED
      BY <1>6, <3>1, <3>3, <3>4, <3>5
  <2> QED
    BY <2>1, <2>2
<1> QED
  BY <1>2, <1>6, <1>7 DEF m, q, w

\* Read from the last byte on, the memory of v is v modulo Base ^ n.
LEMMA NumberOfMemory ==
  ASSUME NEW n \in Nat
  PROVE  \A v \in Int : Number(Reverse(memory(v, n)), Base) = v % Power(Base, n)
<1> DEFINE Good == {k \in Nat : \A v \in Int :
                      Number(Reverse(memory(v, k)), Base) = v % Power(Base, k)}
<1>1. Base \in Nat \ {0} /\ Byte \subseteq Nat
  BY BufferAssumption DEF Byte
<1>2. 0 \in Good
  <2>1. SUFFICES ASSUME NEW v \in Int
                 PROVE  Number(Reverse(memory(v, 0)), Base) = v % Power(Base, 0)
    OBVIOUS
  <2>2. memory(v, 0) = <<>>
    BY MemoryType
  <2>3. Reverse(<<>>) = <<>>
    BY DEF Reverse
  <2>4. v % 1 = 0
    OBVIOUS
  <2> QED
    BY <1>1, <2>2, <2>3, <2>4, NumberEmpty, PowerZero
<1>3. ASSUME NEW k \in Nat, k \in Good PROVE k + 1 \in Good
  <2>1. SUFFICES ASSUME NEW v \in Int
                 PROVE  Number(Reverse(memory(v, k + 1)), Base) = v % Power(Base, k + 1)
    OBVIOUS
  <2> DEFINE q == memory(v \div Base, k)
             d == v % Base
             p == Power(Base, k)
  <2>2. v \div Base \in Int /\ d \in Byte /\ d \in Nat /\ p \in Nat \ {0}
    BY <1>1, PowerPositive DEF Byte
  <2>3. q \in Seq(Byte)
    BY <2>2, MemoryType
  <2>4. memory(v, k + 1) = <<d>> \o q
    BY MemoryNext
  <2>5. Number(Reverse(q), Base) = (v \div Base) % p
    BY <1>3, <2>2
  <2> HIDE DEF q, d
  <2>6. Reverse(memory(v, k + 1)) = Append(Reverse(q), d)
    BY <2>2, <2>3, <2>4, ReversePrepend
  <2>7. Reverse(q) \in Seq(Nat)
    <3>1. q \in Seq(Nat)
      BY <1>1, <2>3, SeqOfMore
    <3> QED
      BY <3>1, ReverseIsSeq
  <2>8. Number(Reverse(memory(v, k + 1)), Base) = Base * ((v \div Base) % p) + d
    BY <1>1, <2>2, <2>5, <2>6, <2>7, NumberAppend, ZenonT(40)
  <2> HIDE DEF p
  <2>9. v % (Base * p) = Base * ((v \div Base) % p) + (v % Base)
    <3>1. ASSUME NEW b \in Nat \ {0}, NEW y \in Nat \ {0}, NEW x \in Int
          PROVE  x % (b * y) = b * ((x \div b) % y) + (x % b)
      OBVIOUS
    <3> QED
      BY <1>1, <2>2, <3>1
  <2>10. Power(Base, k + 1) = Base * p
    BY <1>1, PowerNext DEF p
  <2> QED
    BY <2>8, <2>9, <2>10 DEF d
<1> HIDE DEF Good
<1>4. n \in Good
  BY <1>2, <1>3, NatInd
<1> QED
  BY <1>4 DEF Good

\* A numeral of n digits denotes less than Base ^ n.
LEMMA NumberBound ==
  ASSUME NEW n \in Nat
  PROVE  \A s \in Seq(Byte) : Len(s) = n => Number(s, Base) \in 0 .. Power(Base, n) - 1
<1> DEFINE Good == {k \in Nat : \A s \in Seq(Byte) :
                      Len(s) = k => Number(s, Base) \in 0 .. Power(Base, k) - 1}
<1>1. Base \in Nat \ {0} /\ Byte \subseteq Nat /\ \A x \in Byte : x < Base
  BY BufferAssumption DEF Byte
<1>2. 0 \in Good
  <2>1. \A s \in Seq(Byte) : Len(s) = 0 => s = <<>>
    OBVIOUS
  <2>2. Number(<<>>, Base) = 0 /\ Power(Base, 0) = 1
    BY <1>1, NumberEmpty, PowerZero
  <2> QED
    BY <2>1, <2>2
<1>3. ASSUME NEW k \in Nat, k \in Good PROVE k + 1 \in Good
  <2>1. SUFFICES ASSUME NEW s \in Seq(Byte), Len(s) = k + 1
                 PROVE  Number(s, Base) \in 0 .. Power(Base, k + 1) - 1
    OBVIOUS
  <2> DEFINE f == Front(s)
             d == Last(s)
  <2>2. s # <<>>
    BY <2>1
  <2>3. f \in Seq(Byte) /\ d \in Byte /\ s = Append(f, d)
    BY <2>2, FrontAndLast
  <2> HIDE DEF f, d
  <2>4. Len(f) = k /\ f \in Seq(Nat) /\ d \in Nat /\ d < Base
    <3>1. f \in Seq(Nat)
      BY <1>1, <2>3, SeqOfMore
    <3>2. d \in Nat /\ d < Base
      BY <1>1, <2>3
    <3>3. Len(f) = k
      BY <2>1, <2>3
    <3> QED
      BY <3>1, <3>2, <3>3
  <2>5. Number(f, Base) \in 0 .. Power(Base, k) - 1
    BY <1>3, <2>3, <2>4
  <2>6. Number(s, Base) = Base * Number(f, Base) + d
    BY <1>1, <2>3, <2>4, NumberAppend
  <2>7. Power(Base, k + 1) = Base * Power(Base, k) /\ Power(Base, k) \in Nat
    BY <1>1, PowerNext, PowerType
  <2>8. ASSUME NEW b \in Nat, NEW x \in Nat, NEW p \in Nat, NEW c \in Nat, x <= p - 1, c < b
        PROVE  b * x + c \in 0 .. b * p - 1
    <3>1. b * x <= b * (p - 1) /\ b * (p - 1) = b * p - b
      BY <2>8
    <3>2. b * x \in Nat /\ b * p \in Nat
      OBVIOUS
    <3> QED
      BY <2>8, <3>1, <3>2
  <2>9. Number(f, Base) \in Nat /\ Number(f, Base) <= Power(Base, k) - 1
    BY <2>5, <2>7
  <2>10. Base * Number(f, Base) + d \in 0 .. Base * Power(Base, k) - 1
    BY <1>1, <2>4, <2>7, <2>8, <2>9
  <2> QED
    BY <2>6, <2>7, <2>10
<1> HIDE DEF Good
<1>4. n \in Good
  BY <1>2, <1>3, NatInd
<1> QED
  BY <1>4 DEF Good

\* The memory of the number that n bytes denote, read from the last on, is they.
LEMMA MemoryOfNumber ==
  ASSUME NEW n \in Nat
  PROVE  \A s \in Seq(Byte) : Len(s) = n => memory(Number(Reverse(s), Base), n) = s
<1> DEFINE Good == {k \in Nat : \A s \in Seq(Byte) :
                      Len(s) = k => memory(Number(Reverse(s), Base), k) = s}
<1>1. Base \in Nat \ {0} /\ Byte \subseteq Nat /\ Byte = 0 .. Base - 1
  BY BufferAssumption DEF Byte
<1>2. 0 \in Good
  <2>1. ASSUME NEW s \in Seq(Byte), Len(s) = 0 PROVE memory(Number(Reverse(s), Base), 0) = s
    <3>1. s \in Seq(Nat)
      BY <1>1
    <3>2. Number(Reverse(s), Base) \in Int
      BY <1>1, <3>1, ReverseIsSeq, NumberType
    <3>3. Len(memory(Number(Reverse(s), Base), 0)) = 0
          /\ memory(Number(Reverse(s), Base), 0) \in Seq(Byte)
      BY <3>2, MemoryType
    <3> QED
      BY <2>1, <3>3
  <2> QED
    BY <2>1
<1>3. ASSUME NEW k \in Nat, k \in Good PROVE k + 1 \in Good
  <2>1. SUFFICES ASSUME NEW s \in Seq(Byte), Len(s) = k + 1
                 PROVE  memory(Number(Reverse(s), Base), k + 1) = s
    OBVIOUS
  <2> DEFINE h == Head(s)
             t == Tail(s)
             x == Number(Reverse(t), Base)
  <2>2. h \in Byte /\ t \in Seq(Byte) /\ Len(t) = k /\ s = <<h>> \o t
    BY <2>1
  <2>3. memory(x, k) = t
    BY <1>3, <2>2
  <2> HIDE DEF h, t, x
  <2>4. t \in Seq(Nat) /\ h \in Nat
    BY <1>1, <2>2
  <2>5. x \in Nat /\ Reverse(t) \in Seq(Nat)
    BY <1>1, <2>4, ReverseIsSeq, NumberType DEF x
  <2>6. Reverse(s) = Append(Reverse(t), h)
    BY <2>2, ReversePrepend
  <2>7. Number(Reverse(s), Base) = Base * x + h
    BY <1>1, <2>4, <2>5, <2>6, NumberAppend DEF x
  <2>8. Base * x + h \in Int /\ (Base * x + h) \div Base = x /\ (Base * x + h) % Base = h
    <3>1. ASSUME NEW b \in Nat \ {0}, NEW y \in Nat, NEW r \in 0 .. b - 1
          PROVE  b * y + r \in Int /\ (b * y + r) \div b = y /\ (b * y + r) % b = r
      OBVIOUS
    <3> QED
      BY <1>1, <2>2, <2>5, <3>1
  <2>9. memory(Base * x + h, k + 1) = <<h>> \o memory(x, k)
    BY <2>8, MemoryNext
  <2> QED
    BY <2>2, <2>3, <2>7, <2>9
<1> HIDE DEF Good
<1>4. n \in Good
  BY <1>2, <1>3, NatInd
<1> QED
  BY <1>4 DEF Good

\* Integers that differ by a multiple of Base ^ n look alike in n bytes.
LEMMA MemoryModulo ==
  ASSUME NEW n \in Nat, NEW v \in Int
  PROVE  memory(v, n) = memory(v % Power(Base, n), n)
<1> DEFINE s == memory(v, n)
<1>1. s \in Seq(Byte) /\ Len(s) = n
  BY MemoryType
<1>2. Number(Reverse(s), Base) = v % Power(Base, n)
  BY NumberOfMemory
<1> HIDE DEF s
<1>3. memory(Number(Reverse(s), Base), n) = s
  BY <1>1, MemoryOfNumber
<1> QED
  BY <1>2, <1>3 DEF s

\* Half of Base ^ n, the first magnitude that takes the sign's place.
LEMMA HalfPower ==
  ASSUME NEW n \in Nat \ {0}
  PROVE  \E h \in Nat \ {0} :
           Power(Base, n) = 2 * h /\ Signed(n) = -h .. h - 1
<1> DEFINE p == Power(Base, n)
<1>1. Base \in Nat \ {0} /\ Base % 2 = 0
  BY BufferAssumption
<1>2. p \in Nat \ {0} /\ p = 2 * (p \div 2)
  BY <1>1, PowerPositive, PowerEven
<1>3. Signed(n) = -(p \div 2) .. p \div 2 - 1
  BY DEF Signed
<1> HIDE DEF p
<1>4. p \div 2 \in Nat \ {0}
  BY <1>2
<1> QED
  BY <1>2, <1>3, <1>4 DEF p

\* Every memory of n bytes holds one of the integers of that size.
LEMMA IntegerOfMemory ==
  ASSUME NEW n \in Nat \ {0}, NEW s \in Seq(Byte), Len(s) = n
  PROVE  integer(s) \in Signed(n) /\ memory(integer(s), n) = s
<1>1. PICK h \in Nat \ {0} : Power(Base, n) = 2 * h /\ Signed(n) = -h .. h - 1
  BY HalfPower
<1> DEFINE u == Number(Reverse(s), Base)
<1>2. u \in 0 .. 2 * h - 1
  BY <1>1, NumberBound, ReverseIsSeq, ReverseTwice
<1>3. memory(u, n) = s
  BY MemoryOfNumber
<1> HIDE DEF u
<1>4. \E v \in Signed(n) : memory(v, n) = s
  <2>1. CASE u < h
    <3>1. u \in Signed(n)
      BY <1>1, <1>2, <2>1
    <3> QED
      BY <1>3, <3>1
  <2>2. CASE ~ (u < h)
    <3>1. u - 2 * h \in Signed(n) /\ u - 2 * h \in Int
      BY <1>1, <1>2, <2>2
    <3>2. (u - 2 * h) % (2 * h) = u /\ u % (2 * h) = u
      <4>1. ASSUME NEW p \in Nat \ {0}, NEW x \in 0 .. p - 1
            PROVE  (x - p) % p = x /\ x % p = x
        OBVIOUS
      <4>2. 2 * h \in Nat \ {0}
        OBVIOUS
      <4> QED
        BY <1>2, <4>1, <4>2
    <3>3. memory(u - 2 * h, n) = memory((u - 2 * h) % Power(Base, n), n)
      BY <3>1, MemoryModulo
    <3> QED
      BY <1>1, <1>3, <3>1, <3>2, <3>3
  <2> QED
    BY <2>1, <2>2
<1> QED
  BY <1>4 DEF integer

\* Swapping the bytes of an integer reverses its memory.
LEMMA SwappedMemory ==
  ASSUME NEW n \in Nat \ {0}, NEW v \in Int
  PROVE  htobe(v, n) \in Signed(n) /\ memory(htobe(v, n), n) = Reverse(memory(v, n))
<1> DEFINE s == memory(v, n)
<1>1. s \in Seq(Byte) /\ Len(s) = n
  BY MemoryType
<1> HIDE DEF s
<1>2. Reverse(s) \in Seq(Byte) /\ Len(Reverse(s)) = n
  BY <1>1, ReverseIsSeq, ReverseTwice
<1> QED
  BY <1>2, IntegerOfMemory DEF htobe, s

\* The instance of ByteQueue has the same numbers and powers.
LEMMA NumberThere ==
  ASSUME NEW s, NEW b
  PROVE  Q!Number(s, b) = Number(s, b)
  BY DEF Q!Number, Number

\* Buffer and its abstract queue mean the same powers.
LEMMA PowerThere ==
  ASSUME NEW b, NEW n
  PROVE  Q!Power(b, n) = Power(b, n)
  BY DEF Q!Power, Power

\* The memory of a swapped integer is its numeral, most significant digit first.
LEMMA SwappedIsNumeral ==
  ASSUME NEW n \in Nat \ {0}, NEW v \in Signed(n)
  PROVE  Reverse(memory(v, n)) \in Q!Numerals(v, n)
<1>1. PICK h \in Nat \ {0} : Power(Base, n) = 2 * h /\ Signed(n) = -h .. h - 1
  BY HalfPower
<1> DEFINE s == Reverse(memory(v, n))
           p == Power(Base, n)
<1>2. v \in Int
  BY <1>1
<1>3. memory(v, n) \in Seq(Byte) /\ Len(memory(v, n)) = n
  BY <1>2, MemoryType
<1>4. s \in Seq(Byte) /\ Len(s) = n
  BY <1>3, ReverseIsSeq, ReverseTwice
<1>5. Number(s, Base) = v % p
  BY <1>2, NumberOfMemory
<1>6. v % p = IF v >= 0 THEN v ELSE v + p
  <2>1. ASSUME NEW x \in Int, NEW y \in Nat \ {0}, -y <= x, x < y
        PROVE  x % y = IF x >= 0 THEN x ELSE x + y
    BY <2>1
  <2>2. p \in Nat \ {0} /\ -p <= v /\ v < p
    BY <1>1
  <2> QED
    BY <1>2, <2>1, <2>2
<1> HIDE DEF s, p
<1>7. s \in [1 .. n -> Byte]
  BY <1>4
<1> QED
  BY <1>5, <1>6, <1>7, NumberThere, PowerThere DEF Q!Numerals, Byte, s, p

-----------------------------------------------------------------------------
(* The vector and the bytes it holds.                                      *)

ValidBuffer ==
  {b \in [data : Seq(Byte), r : Nat, w : Nat] :
     b.r <= b.w /\ kPrependSize <= b.w /\ b.w <= Len(b.data)}

Held(b) == SubSeq(b.data, b.r + 1, b.w)

\* The elements between two places.
LEMMA PartOfSequence ==
  ASSUME NEW S, NEW d \in Seq(S), NEW i \in Nat, NEW j \in Nat, i <= j, j <= Len(d)
  PROVE  /\ SubSeq(d, i + 1, j) \in Seq(S)
         /\ Len(SubSeq(d, i + 1, j)) = j - i
         /\ \A k \in 1 .. j - i : SubSeq(d, i + 1, j)[k] = d[i + k]
  OBVIOUS

\* Two sequences of the same length and elements.
LEMMA SameSequence ==
  ASSUME NEW S, NEW x \in Seq(S), NEW y \in Seq(S), Len(x) = Len(y),
         \A k \in 1 .. Len(x) : x[k] = y[k]
  PROVE  x = y
  OBVIOUS

\* The elements of a concatenation, by place.
LEMMA ElementOfConcat ==
  ASSUME NEW S, NEW x \in Seq(S), NEW y \in Seq(S)
  PROVE  /\ x \o y \in Seq(S) /\ Len(x \o y) = Len(x) + Len(y)
         /\ \A k \in 1 .. Len(x) : (x \o y)[k] = x[k]
         /\ \A k \in 1 .. Len(y) : (x \o y)[Len(x) + k] = y[k]
  OBVIOUS

\* One part behind the other.
LEMMA PartsConcat ==
  ASSUME NEW S, NEW d \in Seq(S), NEW i \in Nat, NEW j \in Nat, NEW k \in Nat,
         i <= j, j <= k, k <= Len(d)
  PROVE  SubSeq(d, i + 1, k) = SubSeq(d, i + 1, j) \o SubSeq(d, j + 1, k)
<1> DEFINE x == SubSeq(d, i + 1, j)
           y == SubSeq(d, j + 1, k)
           z == SubSeq(d, i + 1, k)
<1>1. x \in Seq(S) /\ Len(x) = j - i /\ \A e \in 1 .. j - i : x[e] = d[i + e]
  BY PartOfSequence
<1>2. y \in Seq(S) /\ Len(y) = k - j /\ \A e \in 1 .. k - j : y[e] = d[j + e]
  BY PartOfSequence
<1>3. z \in Seq(S) /\ Len(z) = k - i /\ \A e \in 1 .. k - i : z[e] = d[i + e]
  BY PartOfSequence
<1> HIDE DEF x, y, z
<1> DEFINE xy == x \o y
<1>4. /\ xy \in Seq(S) /\ Len(xy) = k - i
      /\ \A e \in 1 .. j - i : xy[e] = x[e]
      /\ \A e \in 1 .. k - j : xy[(j - i) + e] = y[e]
  <2>1. /\ xy \in Seq(S) /\ Len(xy) = Len(x) + Len(y)
        /\ \A e \in 1 .. Len(x) : xy[e] = x[e]
        /\ \A e \in 1 .. Len(y) : xy[Len(x) + e] = y[e]
    <3>1. x \in Seq(S) /\ y \in Seq(S)
      BY <1>1, <1>2
    <3> QED
      BY <3>1, ElementOfConcat
  <2>2. (j - i) + (k - j) = k - i
    OBVIOUS
  <2> HIDE DEF xy
  <2> QED
    BY <1>1, <1>2, <2>1, <2>2
<1> HIDE DEF xy
<1>5. ASSUME NEW e \in 1 .. k - i PROVE z[e] = xy[e]
  <2>1. CASE e <= j - i
    <3>1. e \in 1 .. j - i
      BY <2>1
    <3> QED
      BY <1>1, <1>3, <1>4, <3>1
  <2>2. CASE ~ (e <= j - i)
    <3> DEFINE m == e - (j - i)
    <3>1. m \in 1 .. k - j /\ e = (j - i) + m /\ j + m = i + e
      BY <2>2
    <3> HIDE DEF m
    <3>2. xy[e] = y[m]
      BY <1>4, <3>1
    <3>3. y[m] = d[i + e]
      BY <1>2, <3>1
    <3> QED
      BY <1>3, <3>2, <3>3
  <2> QED
    BY <2>1, <2>2
<1>6. z = xy
  BY <1>3, <1>4, <1>5, SameSequence
<1> QED
  BY <1>6 DEF xy, x, y, z

\* copy(), byte by byte.
LEMMA CopyIs ==
  ASSUME NEW d \in Seq(Byte), NEW at \in Nat, NEW s \in Seq(Byte)
  PROVE  /\ copy(d, at, s) \in Seq(Byte)
         /\ Len(copy(d, at, s)) = Len(d)
         /\ \A i \in 1 .. Len(d) :
              copy(d, at, s)[i] = IF i - at \in 1 .. Len(s) THEN s[i - at] ELSE d[i]
<1> DEFINE c == copy(d, at, s)
<1>1. c = [i \in 1 .. Len(d) |-> IF i - at \in 1 .. Len(s) THEN s[i - at] ELSE d[i]]
  BY DEF copy
<1>2. ASSUME NEW i \in 1 .. Len(d)
      PROVE  (IF i - at \in 1 .. Len(s) THEN s[i - at] ELSE d[i]) \in Byte
  OBVIOUS
<1> HIDE DEF c
<1> QED
  BY <1>1, <1>2 DEF c

\* What has been copied is there.
LEMMA CopiedPart ==
  ASSUME NEW d \in Seq(Byte), NEW at \in Nat, NEW s \in Seq(Byte), at + Len(s) <= Len(d)
  PROVE  SubSeq(copy(d, at, s), at + 1, at + Len(s)) = s
<1> DEFINE c == copy(d, at, s)
           end == at + Len(s)
           x == SubSeq(c, at + 1, end)
<1>1. /\ c \in Seq(Byte) /\ Len(c) = Len(d)
      /\ \A i \in 1 .. Len(d) : c[i] = IF i - at \in 1 .. Len(s) THEN s[i - at] ELSE d[i]
  BY CopyIs
<1> HIDE DEF c
<1>2. /\ end \in Nat /\ at <= end /\ end - at = Len(s) /\ Len(s) \in Nat
      /\ end <= Len(c)
  BY <1>1
<1> HIDE DEF end
<1>3. x \in Seq(Byte) /\ Len(x) = Len(s) /\ \A k \in 1 .. Len(s) : x[k] = c[at + k]
  <2>1. /\ x \in Seq(Byte) /\ Len(x) = end - at
        /\ \A k \in 1 .. end - at : x[k] = c[at + k]
    BY <1>1, <1>2, PartOfSequence
  <2> HIDE DEF x
  <2> QED
    BY <1>2, <2>1
<1> HIDE DEF x
<1>4. ASSUME NEW k \in 1 .. Len(s) PROVE x[k] = s[k]
  <2>1. at + k \in 1 .. Len(d) /\ (at + k) - at = k
    OBVIOUS
  <2> QED
    BY <1>1, <1>3, <2>1
<1>5. x = s
  BY <1>3, <1>4, SameSequence
<1> QED
  BY <1>5 DEF x, c, end

\* What lies outside is as it was.
LEMMA CopiedBeside ==
  ASSUME NEW d \in Seq(Byte), NEW at \in Nat, NEW s \in Seq(Byte), at + Len(s) <= Len(d),
         NEW i \in Nat, NEW j \in Nat, i <= j, j <= Len(d), j <= at \/ at + Len(s) <= i
  PROVE  SubSeq(copy(d, at, s), i + 1, j) = SubSeq(d, i + 1, j)
<1> DEFINE c == copy(d, at, s)
           x == SubSeq(c, i + 1, j)
           y == SubSeq(d, i + 1, j)
<1>1. /\ c \in Seq(Byte) /\ Len(c) = Len(d)
      /\ \A k \in 1 .. Len(d) : c[k] = IF k - at \in 1 .. Len(s) THEN s[k - at] ELSE d[k]
  BY CopyIs
<1> HIDE DEF c
<1>2. x \in Seq(Byte) /\ Len(x) = j - i /\ \A k \in 1 .. j - i : x[k] = c[i + k]
  BY <1>1, PartOfSequence
<1>3. y \in Seq(Byte) /\ Len(y) = j - i /\ \A k \in 1 .. j - i : y[k] = d[i + k]
  BY PartOfSequence
<1> HIDE DEF x, y
<1>4. ASSUME NEW k \in 1 .. j - i PROVE x[k] = y[k]
  <2>1. i + k \in 1 .. Len(d) /\ (i + k) - at \notin 1 .. Len(s)
    OBVIOUS
  <2> QED
    BY <1>1, <1>2, <1>3, <2>1
<1>5. x = y
  BY <1>2, <1>3, <1>4, SameSequence
<1> QED
  BY <1>5 DEF x, y, c

\* resize(), byte by byte.
LEMMA ResizeIs ==
  ASSUME NEW d \in Seq(Byte), NEW n \in Nat
  PROVE  /\ resize(d, n) \in Seq(Byte) /\ Len(resize(d, n)) = n
         /\ \A i \in 1 .. n : resize(d, n)[i] = IF i \in 1 .. Len(d) THEN d[i] ELSE 0
<1> DEFINE c == resize(d, n)
<1>1. c = [i \in 1 .. n |-> IF i \in 1 .. Len(d) THEN d[i] ELSE 0]
  BY DEF resize
<1>2. ASSUME NEW i \in 1 .. n PROVE (IF i \in 1 .. Len(d) THEN d[i] ELSE 0) \in Byte
  BY BufferAssumption DEF Byte
<1> HIDE DEF c
<1> QED
  BY <1>1, <1>2 DEF c

\* A larger vector begins with what the smaller held.
LEMMA ResizedPart ==
  ASSUME NEW d \in Seq(Byte), NEW n \in Nat, Len(d) <= n,
         NEW i \in Nat, NEW j \in Nat, i <= j, j <= Len(d)
  PROVE  SubSeq(resize(d, n), i + 1, j) = SubSeq(d, i + 1, j)
<1> DEFINE c == resize(d, n)
           x == SubSeq(c, i + 1, j)
           y == SubSeq(d, i + 1, j)
<1>1. /\ c \in Seq(Byte) /\ Len(c) = n
      /\ \A k \in 1 .. n : c[k] = IF k \in 1 .. Len(d) THEN d[k] ELSE 0
  BY ResizeIs
<1> HIDE DEF c
<1>2. x \in Seq(Byte) /\ Len(x) = j - i /\ \A k \in 1 .. j - i : x[k] = c[i + k]
  <2>1. j <= n
    OBVIOUS
  <2> QED
    BY <1>1, <2>1, PartOfSequence
<1>3. y \in Seq(Byte) /\ Len(y) = j - i /\ \A k \in 1 .. j - i : y[k] = d[i + k]
  BY PartOfSequence
<1> HIDE DEF x, y
<1>4. ASSUME NEW k \in 1 .. j - i PROVE x[k] = y[k]
  <2>1. i + k \in 1 .. Len(d) /\ i + k \in 1 .. n
    OBVIOUS
  <2> QED
    BY <1>1, <1>2, <1>3, <2>1
<1>5. x = y
  BY <1>2, <1>3, <1>4, SameSequence
<1> QED
  BY <1>5 DEF x, y, c

\* Moved to the front, or in a larger vector, the readable bytes stay what they
\* are, and there is room for the bytes to come.
LEMMA RoomIsMade ==
  ASSUME NEW b \in ValidBuffer, NEW n \in Nat
  PROVE  /\ makeRoom(b, n) \in ValidBuffer
         /\ Held(makeRoom(b, n)) = Held(b)
         /\ makeRoom(b, n).w + n <= Len(makeRoom(b, n).data)
<1> DEFINE d == b.data
           r == b.r
           w == b.w
           p == kPrependSize
<1>1. /\ d \in Seq(Byte) /\ r \in Nat /\ w \in Nat /\ Len(d) \in Nat /\ p \in Nat
      /\ r <= w /\ p <= w /\ w <= Len(d)
      /\ b = [data |-> d, r |-> r, w |-> w]
  BY BufferAssumption DEF ValidBuffer
<1>2. /\ writableBytes(b) = Len(d) - w
      /\ MustGrow(b, n) <=> (Len(d) - w) + r < n + p
  BY DEF writableBytes, MustGrow, prependableBytes
<1>3. ASSUME NEW e \in Seq(Byte), NEW i \in Nat, NEW j \in Nat, i <= j, p <= j, j + n <= Len(e),
             SubSeq(e, i + 1, j) = SubSeq(d, r + 1, w),
             makeRoom(b, n) = [data |-> e, r |-> i, w |-> j]
      PROVE  /\ makeRoom(b, n) \in ValidBuffer
             /\ Held(makeRoom(b, n)) = Held(b)
             /\ makeRoom(b, n).w + n <= Len(makeRoom(b, n).data)
  <2>1. j <= Len(e)
    BY <1>3
  <2>2. [data |-> e, r |-> i, w |-> j] \in ValidBuffer
    BY <1>3, <2>1 DEF ValidBuffer
  <2>3. Held([data |-> e, r |-> i, w |-> j]) = Held(b)
    BY <1>3 DEF Held
  <2> QED
    BY <1>3, <2>2, <2>3
<1>4. CASE writableBytes(b) >= n
  <2>1. makeRoom(b, n) = [data |-> d, r |-> r, w |-> w]
    BY <1>1, <1>4 DEF makeRoom
  <2> HIDE DEF d, r, w, p
  <2>2. w + n <= Len(d)
    BY <1>1, <1>2, <1>4
  <2> QED
    BY <1>1, <1>3, <2>1, <2>2
<1>5. CASE ~ (writableBytes(b) >= n) /\ MustGrow(b, n)
  <2> DEFINE e == resize(d, w + n)
  <2>1. makeRoom(b, n) = [data |-> e, r |-> r, w |-> w]
    BY <1>1, <1>5 DEF makeRoom
  <2> HIDE DEF d, r, w, p
  <2>2. Len(d) <= w + n /\ w + n \in Nat
    BY <1>1, <1>2, <1>5
  <2>3. e \in Seq(Byte) /\ Len(e) = w + n
    BY <1>1, <2>2, ResizeIs
  <2>4. SubSeq(e, r + 1, w) = SubSeq(d, r + 1, w)
    BY <1>1, <2>2, ResizedPart
  <2> HIDE DEF e
  <2>5. w + n <= Len(e)
    BY <2>2, <2>3
  <2> QED
    BY <1>1, <1>3, <2>1, <2>3, <2>4, <2>5
<1>6. CASE ~ (writableBytes(b) >= n) /\ ~ MustGrow(b, n)
  <2> DEFINE k == w - r
             s == SubSeq(d, r + 1, w)
             e == copy(d, p, s)
  <2>1. makeRoom(b, n) = [data |-> e, r |-> p, w |-> p + k]
    BY <1>6 DEF makeRoom, moved, readableBytes
  <2> HIDE DEF d, r, w, p
  <2>2. s \in Seq(Byte) /\ Len(s) = k
    BY <1>1, PartOfSequence
  <2> HIDE DEF s
  <2>3. k \in Nat /\ p + k \in Nat /\ p <= p + k /\ p + k + n <= Len(d) /\ p + k <= Len(d)
    BY <1>1, <1>2, <1>6
  <2> HIDE DEF k
  <2>4. e \in Seq(Byte) /\ Len(e) = Len(d)
    BY <1>1, <2>2, CopyIs
  <2>5. SubSeq(e, p + 1, p + k) = s
    BY <1>1, <2>2, <2>3, CopiedPart
  <2> HIDE DEF e
  <2>6. p <= p + k /\ p + k + n <= Len(e)
    BY <2>3, <2>4
  <2>7. SubSeq(e, p + 1, p + k) = SubSeq(d, r + 1, w)
    BY <2>5 DEF s
  <2> QED
    BY <1>1, <1>3, <2>1, <2>3, <2>4, <2>6, <2>7
<1> QED
  BY <1>4, <1>5, <1>6

\* Bytes written behind the readable ones, where there is room, are put last.
LEMMA WrittenBehind ==
  ASSUME NEW b \in ValidBuffer, NEW s \in Seq(Byte), b.w + Len(s) <= Len(b.data),
         NEW c, c = [data |-> copy(b.data, b.w, s), r |-> b.r, w |-> b.w + Len(s)]
  PROVE  c \in ValidBuffer /\ Held(c) = Held(b) \o s /\ Len(c.data) = Len(b.data)
<1> DEFINE d == b.data
           r == b.r
           w == b.w
           e == copy(d, w, s)
           j == w + Len(s)
<1>1. /\ d \in Seq(Byte) /\ r \in Nat /\ w \in Nat /\ r <= w /\ w <= Len(d) /\ Len(d) \in Nat
      /\ kPrependSize <= w /\ kPrependSize \in Nat /\ Len(s) \in Nat
  BY BufferAssumption DEF ValidBuffer
<1>2. /\ c = [data |-> e, r |-> r, w |-> j]
      /\ c.data = e /\ c.r = r /\ c.w = j
      /\ Held(b) = SubSeq(d, r + 1, w) /\ j <= Len(d)
  BY DEF Held
<1> HIDE DEF d, r, w
<1>3. /\ j \in Nat /\ w <= j /\ r <= j /\ kPrependSize <= j /\ w <= w
  BY <1>1
<1>4. e \in Seq(Byte) /\ Len(e) = Len(d)
  BY <1>1, CopyIs
<1>5. SubSeq(e, w + 1, j) = s
  BY <1>1, <1>2, CopiedPart
<1>6. SubSeq(e, r + 1, w) = SubSeq(d, r + 1, w)
  <2>1. ASSUME NEW i \in Nat, NEW k \in Nat, i <= k, k <= w
        PROVE  SubSeq(copy(d, w, s), i + 1, k) = SubSeq(d, i + 1, k)
    <3>1. w + Len(s) <= Len(d) /\ k <= Len(d)
      BY <1>1, <1>2, <2>1
    <3> QED
      BY <1>1, <2>1, <3>1, CopiedBeside
  <2> QED
    BY <1>1, <1>3, <2>1
<1> HIDE DEF e, j
<1>7. SubSeq(e, r + 1, j) = SubSeq(e, r + 1, w) \o SubSeq(e, w + 1, j)
  <2>1. j <= Len(e)
    BY <1>2, <1>4
  <2> QED
    BY <1>1, <1>3, <1>4, <2>1, PartsConcat
<1>8. Held(c) = Held(b) \o s
  <2>1. Held(c) = SubSeq(e, r + 1, j)
    BY <1>2 DEF Held
  <2> QED
    BY <1>2, <1>5, <1>6, <1>7, <2>1, Zenon
<1>9. c \in ValidBuffer
  BY <1>1, <1>2, <1>3, <1>4 DEF ValidBuffer
<1>10. Len(c.data) = Len(b.data)
  BY <1>2, <1>4 DEF d
<1> QED
  BY <1>8, <1>9, <1>10

\* append() puts its bytes behind the readable ones.
LEMMA AppendedIs ==
  ASSUME NEW b \in ValidBuffer, NEW s \in Seq(Byte)
  PROVE  appended(b, s) \in ValidBuffer /\ Held(appended(b, s)) = Held(b) \o s
<1> DEFINE room == makeRoom(b, Len(s))
           c == [room EXCEPT !.data = copy(room.data, room.w, s), !.w = room.w + Len(s)]
<1>1. Len(s) \in Nat
  OBVIOUS
<1>2. room \in ValidBuffer /\ Held(room) = Held(b) /\ room.w + Len(s) <= Len(room.data)
  BY <1>1, RoomIsMade
<1>3. appended(b, s) = c
  BY DEF appended
<1> HIDE DEF room
<1>4. c = [data |-> copy(room.data, room.w, s), r |-> room.r, w |-> room.w + Len(s)]
  <2>1. room \in [data : Seq(Byte), r : Nat, w : Nat]
    BY <1>2 DEF ValidBuffer
  <2>2. ASSUME NEW x \in [data : Seq(Byte), r : Nat, w : Nat], NEW y, NEW z
        PROVE  [x EXCEPT !.data = y, !.w = z] = [data |-> y, r |-> x.r, w |-> z]
    <3>1. [x EXCEPT !.data = y] = [data |-> y, r |-> x.r, w |-> x.w]
      OBVIOUS
    <3>2. ASSUME NEW u, u = [data |-> y, r |-> x.r, w |-> x.w]
          PROVE  [u EXCEPT !.w = z] = [data |-> y, r |-> x.r, w |-> z]
      BY <3>2
    <3> QED
      BY <3>1, <3>2
  <2> QED
    BY <2>1, <2>2
<1> HIDE DEF c
<1> QED
  BY <1>2, <1>3, <1>4, WrittenBehind

-----------------------------------------------------------------------------
(* The operations.                                                         *)

\* The state is a buffer that holds Contents.
LEMMA StateIsBuffer ==
  ASSUME TypeOK
  PROVE  buffer \in ValidBuffer /\ Held(buffer) = Contents /\ Len(data) <= MaxSize
<1>1. /\ data \in Seq(Byte) /\ Len(data) \in Nat /\ kPrependSize \in Nat
      /\ readIndex \in 0 .. writeIndex /\ writeIndex \in kPrependSize .. Len(data)
  BY BufferAssumption DEF TypeOK
<1>2. /\ readIndex \in Nat /\ writeIndex \in Nat /\ readIndex <= writeIndex
      /\ kPrependSize <= writeIndex /\ writeIndex <= Len(data)
  BY <1>1
<1>3. buffer \in ValidBuffer
  BY <1>1, <1>2 DEF buffer, ValidBuffer
<1>4. Held(buffer) = Contents
  BY DEF buffer, Held, Contents
<1> QED
  BY <1>3, <1>4 DEF TypeOK

\* What a step leaves when it leaves buffer b.
LEMMA BufferIsNext ==
  ASSUME NEW b \in ValidBuffer, Len(b.data) <= MaxSize, Becomes(b)
  PROVE  TypeOK' /\ Contents' = Held(b)
<1>1. data' = b.data /\ readIndex' = b.r /\ writeIndex' = b.w
  BY DEF Becomes
<1>2. /\ b.data \in Seq(Byte) /\ Len(b.data) \in Nat /\ kPrependSize \in Nat
      /\ b.r \in Nat /\ b.w \in Nat /\ b.r <= b.w
      /\ kPrependSize <= b.w /\ b.w <= Len(b.data)
  BY BufferAssumption DEF ValidBuffer
<1>3. b.r \in 0 .. b.w /\ b.w \in kPrependSize .. Len(b.data)
  BY <1>2
<1>4. TypeOK'
  BY <1>1, <1>2, <1>3 DEF TypeOK
<1>5. Contents' = Held(b)
  BY <1>1 DEF Contents, Held
<1> QED
  BY <1>4, <1>5

\* append() is a write behind the readable bytes.
LEMMA AppendStep ==
  ASSUME TypeOK, NEW s \in Seq(Byte), append(s)
  PROVE  TypeOK' /\ Contents' = Contents \o s
<1>1. buffer \in ValidBuffer /\ Held(buffer) = Contents
  BY StateIsBuffer
<1>2. appended(buffer, s) \in ValidBuffer /\ Held(appended(buffer, s)) = Held(buffer) \o s
  BY <1>1, AppendedIs
<1>3. Len(appended(buffer, s).data) <= MaxSize /\ Becomes(appended(buffer, s))
  BY DEF append
<1> QED
  BY <1>1, <1>2, <1>3, BufferIsNext

\* prepend() is a write in front of them.
LEMMA PrependStep ==
  ASSUME TypeOK, NEW s \in Seq(Byte), prepend(s)
  PROVE  TypeOK' /\ Contents' = s \o Contents
<1> DEFINE r == readIndex
           w == writeIndex
           i == r - Len(s)
           e == copy(data, i, s)
<1>1. /\ data \in Seq(Byte) /\ Len(data) \in Nat /\ Len(data) <= MaxSize
      /\ kPrependSize \in Nat /\ r \in Nat /\ w \in Nat /\ r <= w
      /\ kPrependSize <= w /\ w <= Len(data)
  BY BufferAssumption DEF TypeOK
<1>2. Len(s) <= r /\ readIndex' = i /\ data' = e /\ writeIndex' = w
  BY DEF prepend, prependableBytes, buffer
<1>3. Contents = SubSeq(data, r + 1, w)
  BY DEF Contents
<1> HIDE DEF r, w
<1>4. Len(s) \in Nat /\ i \in Nat /\ i <= r /\ r <= r /\ i + Len(s) = r /\ r <= Len(data)
  BY <1>1, <1>2
<1> HIDE DEF i
<1>5. e \in Seq(Byte) /\ Len(e) = Len(data)
  BY <1>1, <1>4, CopyIs
<1>6. SubSeq(e, i + 1, r) = s
  <2>1. i + Len(s) <= Len(data)
    BY <1>4
  <2>2. SubSeq(e, i + 1, i + Len(s)) = s
    BY <1>1, <1>4, <2>1, CopiedPart
  <2> QED
    BY <1>4, <2>2
<1>7. SubSeq(e, r + 1, w) = SubSeq(data, r + 1, w)
  <2>1. ASSUME NEW j \in Nat, NEW k \in Nat, j <= k, k <= Len(data), i + Len(s) <= j
        PROVE  SubSeq(copy(data, i, s), j + 1, k) = SubSeq(data, j + 1, k)
    <3>1. i + Len(s) <= Len(data)
      BY <1>4
    <3> QED
      BY <1>1, <1>4, <2>1, <3>1, CopiedBeside
  <2>2. i + Len(s) <= r
    BY <1>4
  <2> QED
    BY <1>1, <2>1, <2>2
<1> HIDE DEF e
<1>8. SubSeq(e, i + 1, w) = SubSeq(e, i + 1, r) \o SubSeq(e, r + 1, w)
  <2>1. w <= Len(e)
    BY <1>1, <1>5
  <2> QED
    BY <1>1, <1>4, <1>5, <2>1, PartsConcat
<1>9. Contents' = SubSeq(e, i + 1, w)
  BY <1>2 DEF Contents
<1>10. TypeOK'
  <2>1. i \in 0 .. w /\ w \in kPrependSize .. Len(e) /\ Len(e) <= MaxSize
    BY <1>1, <1>4, <1>5
  <2> QED
    BY <1>2, <1>5, <2>1 DEF TypeOK
<1> QED
  BY <1>3, <1>6, <1>7, <1>8, <1>9, <1>10

\* A part of a part.
LEMMA PartBehind ==
  ASSUME NEW S, NEW d \in Seq(S), NEW i \in Nat, NEW j \in Nat, NEW n \in Nat,
         i + n <= j, j <= Len(d)
  PROVE  SubSeq(SubSeq(d, i + 1, j), n + 1, j - i) = SubSeq(d, i + n + 1, j)
  OBVIOUS

\* A part of a part, from its front.
LEMMA PartInFront ==
  ASSUME NEW S, NEW d \in Seq(S), NEW i \in Nat, NEW j \in Nat, NEW k \in Nat, NEW n \in Nat,
         i <= j, j <= Len(d), k + n <= j - i
  PROVE  SubSeq(SubSeq(d, i + 1, j), k + 1, k + n) = SubSeq(d, i + k + 1, i + k + n)
  OBVIOUS

\* retrieve() takes readable bytes away from the front.
LEMMA RetrieveStep ==
  ASSUME TypeOK, NEW n \in Nat, retrieve(n)
  PROVE  TypeOK' /\ Contents' = SubSeq(Contents, n + 1, Len(Contents))
<1> DEFINE r == readIndex
           w == writeIndex
<1>1. /\ data \in Seq(Byte) /\ Len(data) \in Nat /\ Len(data) <= MaxSize
      /\ kPrependSize \in Nat /\ r \in Nat /\ w \in Nat /\ r <= w
      /\ kPrependSize <= w /\ w <= Len(data)
  BY BufferAssumption DEF TypeOK
<1>2. Contents \in Seq(Byte) /\ Len(Contents) = w - r
  BY <1>1, PartOfSequence DEF Contents
<1>3. data' = data
  BY DEF retrieve
<1>4. CASE n < w - r
  <2>1. readIndex' = r + n /\ writeIndex' = w
    BY <1>4 DEF retrieve, readableBytes, buffer
  <2>2. Contents' = SubSeq(data, r + n + 1, w)
    BY <1>3, <2>1 DEF Contents
  <2>3. r + n <= w
    BY <1>1, <1>4
  <2>4. SubSeq(SubSeq(data, r + 1, w), n + 1, w - r) = SubSeq(data, r + n + 1, w)
    BY <1>1, <2>3, PartBehind
  <2>5. Contents' = SubSeq(Contents, n + 1, Len(Contents))
    BY <1>2, <2>2, <2>4 DEF Contents
  <2>6. r + n \in 0 .. w /\ w \in kPrependSize .. Len(data)
    BY <1>1, <2>3
  <2> QED
    BY <1>1, <1>3, <2>1, <2>5, <2>6 DEF TypeOK
<1>5. CASE ~ (n < w - r)
  <2>1. readIndex' = kPrependSize /\ writeIndex' = kPrependSize
    BY <1>5 DEF retrieve, readableBytes, buffer
  <2>2. Contents' = SubSeq(data, kPrependSize + 1, kPrependSize)
    BY <1>3, <2>1 DEF Contents
  <2>3. ASSUME NEW d \in Seq(Byte), NEW i \in Nat, NEW j \in Nat, j < i
        PROVE  SubSeq(d, i, j) = <<>>
    BY <2>3
  <2>4. SubSeq(data, kPrependSize + 1, kPrependSize) = <<>>
    BY <1>1, <2>3
  <2>5. SubSeq(Contents, n + 1, Len(Contents)) = <<>>
    <3>1. n + 1 \in Nat /\ w - r \in Nat /\ w - r < n + 1
      BY <1>1, <1>5
    <3> QED
      BY <1>2, <2>3, <3>1
  <2>6. kPrependSize \in 0 .. kPrependSize /\ kPrependSize \in kPrependSize .. Len(data)
    BY <1>1
  <2> QED
    BY <1>1, <1>3, <2>1, <2>2, <2>4, <2>5, <2>6 DEF TypeOK
<1> QED
  BY <1>4, <1>5

\* readFromFd() appends what the socket held, through the extra buffer if need be.
LEMMA ReadFromFdStep ==
  ASSUME TypeOK, NEW s \in Seq(Byte), readFromFd(s)
  PROVE  TypeOK' /\ Contents' = Contents \o s
<1> DEFINE room  == writableBytes(buffer)
           first == IF Len(s) <= room THEN s ELSE SubSeq(s, 1, room)
           tail  == SubSeq(s, room + 1, Len(s))
           full  == [data |-> copy(data, writeIndex, first), r |-> readIndex,
                     w |-> writeIndex + Len(first)]
<1>1. buffer \in ValidBuffer /\ Held(buffer) = Contents /\ Len(data) <= MaxSize
  BY StateIsBuffer
<1>2. room = Len(data) - writeIndex /\ room \in Nat /\ writeIndex \in Nat /\ Len(data) \in Nat
  BY BufferAssumption DEF TypeOK, writableBytes, buffer
<1>3. IF Len(s) <= room
        THEN Becomes(full)
        ELSE Len(appended(full, tail).data) <= MaxSize /\ Becomes(appended(full, tail))
  BY DEF readFromFd
<1> HIDE DEF room
<1>4. first \in Seq(Byte) /\ Len(first) <= room
  <2>1. CASE Len(s) <= room
    BY <2>1
  <2>2. CASE ~ (Len(s) <= room)
    <3>1. room \in 0 .. Len(s)
      BY <1>2, <2>2
    <3>2. SubSeq(s, 1, room) \in Seq(Byte) /\ Len(SubSeq(s, 1, room)) = room
      BY <3>1, FirstPart
    <3> QED
      BY <1>2, <2>2, <3>2
  <2> QED
    BY <2>1, <2>2
<1> HIDE DEF first
<1>5. full \in ValidBuffer /\ Held(full) = Contents \o first /\ Len(full.data) = Len(data)
  <2>1. writeIndex + Len(first) <= Len(data)
    BY <1>2, <1>4
  <2>2. buffer.data = data /\ buffer.r = readIndex /\ buffer.w = writeIndex
    BY DEF buffer
  <2>3. full = [data |-> copy(buffer.data, buffer.w, first), r |-> buffer.r,
                w |-> buffer.w + Len(first)]
    BY <2>2
  <2> HIDE DEF full
  <2>4. buffer.w + Len(first) <= Len(buffer.data)
    BY <2>1, <2>2
  <2> QED
    BY <1>1, <1>4, <2>2, <2>3, <2>4, WrittenBehind
<1> HIDE DEF full
<1>6. CASE Len(s) <= room
  <2>1. Becomes(full) /\ first = s
    BY <1>3, <1>6 DEF first
  <2> QED
    BY <1>1, <1>5, <2>1, BufferIsNext
<1>7. CASE ~ (Len(s) <= room)
  <2>1. room \in 0 .. Len(s) /\ first = SubSeq(s, 1, room)
    BY <1>2, <1>7 DEF first
  <2>2. tail \in Seq(Byte) /\ s = first \o tail
    BY <2>1, SplitAt
  <2>3. Len(appended(full, tail).data) <= MaxSize /\ Becomes(appended(full, tail))
    BY <1>3, <1>7
  <2> HIDE DEF tail
  <2>4. /\ appended(full, tail) \in ValidBuffer
        /\ Held(appended(full, tail)) = (Contents \o first) \o tail
    BY <1>5, <2>2, AppendedIs
  <2>5. TypeOK' /\ Contents' = (Contents \o first) \o tail
    BY <2>3, <2>4, BufferIsNext
  <2>6. Contents \in Seq(Byte)
    BY PartOfSequence, BufferAssumption DEF TypeOK, Contents
  <2>7. (Contents \o first) \o tail = Contents \o (first \o tail)
    BY <1>4, <2>2, <2>6, ConcatAssoc
  <2> QED
    BY <2>2, <2>5, <2>7
<1> QED
  BY <1>6, <1>7

\* An integer that is put in is memory in network byte order.
LEMMA PutInteger ==
  ASSUME NEW n \in Widths, NEW v \in Signed(n)
  PROVE  /\ memory(htobe(v, n), n) \in Seq(Byte)
         /\ memory(htobe(v, n), n) \in Q!Numerals(v, n)
<1>1. n \in Nat \ {0}
  BY BufferAssumption
<1>2. v \in Int
  <2>1. PICK h \in Nat \ {0} : Signed(n) = -h .. h - 1
    BY <1>1, HalfPower
  <2> QED
    BY <2>1
<1>3. memory(htobe(v, n), n) = Reverse(memory(v, n))
  BY <1>1, <1>2, SwappedMemory
<1>4. memory(v, n) \in Seq(Byte)
  BY <1>1, <1>2, MemoryType
<1> QED
  BY <1>1, <1>3, <1>4, ReverseIsSeq, SwappedIsNumeral

\* What is written are bytes.
LEMMA ChunkIsBytes ==
  ASSUME NEW s \in Chunk
  PROVE  s \in Seq(Byte)
<1>1. PICK m \in 0 .. MaxChunk : s \in [1 .. m -> Byte]
  BY DEF Chunk, BoundedSeq, SeqOf
<1>2. m \in Nat
  BY BufferAssumption
<1> QED
  BY <1>1, <1>2

\* Both indexes start behind the bytes kept free.
LEMMA TypeInit == Init => TypeOK
<1> SUFFICES ASSUME Init PROVE TypeOK
  OBVIOUS
<1> DEFINE n == kPrependSize + kInitialSize
<1>1. /\ kPrependSize \in Nat /\ kInitialSize \in Nat /\ n \in Nat /\ n <= MaxSize
      /\ 0 \in Byte
  BY BufferAssumption DEF Byte
<1>2. data \in Seq(Byte) /\ Len(data) = n
  BY <1>1 DEF Init
<1>3. kPrependSize \in 0 .. kPrependSize /\ kPrependSize \in kPrependSize .. n
  BY <1>1
<1> QED
  BY <1>1, <1>2, <1>3 DEF Init, TypeOK

\* Every operation keeps the indexes in order.
LEMMA TypeStep == TypeOK /\ [Next]_vars => TypeOK'
<1> SUFFICES ASSUME TypeOK, [Next]_vars PROVE TypeOK'
  OBVIOUS
<1>1. ASSUME NEW s \in Chunk, append(s) PROVE TypeOK'
  BY <1>1, ChunkIsBytes, AppendStep
<1>2. ASSUME NEW s \in Chunk, prepend(s) PROVE TypeOK'
  BY <1>2, ChunkIsBytes, PrependStep
<1>3. ASSUME NEW n \in Widths, NEW v \in Signed(n), appendInt(v, n) PROVE TypeOK'
  BY <1>3, PutInteger, AppendStep DEF appendInt
<1>4. ASSUME NEW n \in Widths, NEW v \in Signed(n), prependInt(v, n) PROVE TypeOK'
  BY <1>4, PutInteger, PrependStep DEF prependInt
<1>5. ASSUME NEW n \in 0 .. MaxSize, retrieve(n) PROVE TypeOK'
  BY <1>5, RetrieveStep
<1>6. ASSUME NEW s \in Chunk, readFromFd(s) PROVE TypeOK'
  BY <1>6, ChunkIsBytes, ReadFromFdStep
<1>7. CASE UNCHANGED vars
  BY <1>7 DEF vars, TypeOK
<1> QED
  BY <1>1, <1>2, <1>3, <1>4, <1>5, <1>6, <1>7 DEF Next

\* The indexes stay in order and inside the vector: 0 <= _readIndex <= _writeIndex
\* <= _data.size(), and the writable bytes never begin in the room for the header,
\* whatever the operations and their order.
THEOREM IndexesStayInOrder == Spec => []TypeOK
<1>1. Spec => []TypeOK
  BY TypeInit, TypeStep, PTL DEF Spec
<1> QED
  BY <1>1

-----------------------------------------------------------------------------
(* What the operations do to the readable bytes.                           *)

\* append, prepend, appendInt, prependInt, retrieve and readFromFd() are the
\* operations of a queue of bytes: no compaction, growth or split of what was read
\* between the vector and the stack array loses, doubles or swaps one.
THEOREM BufferImplementsQueue == Spec => ImplementsQueue
<1> DEFINE Puts == \A s \in Chunk : append(s) \/ readFromFd(s) => Q!PutLast(s)
           PutsInFront == \A s \in Chunk : prepend(s) => Q!PutFirst(s)
           PutsIntegers ==
             \A n \in Widths : \A v \in Signed(n) :
               /\ appendInt(v, n) => \E s \in Q!Numerals(v, n) : Q!PutLast(s)
               /\ prependInt(v, n) => \E s \in Q!Numerals(v, n) : Q!PutFirst(s)
           TakesFirst == \A n \in 0 .. MaxSize : retrieve(n) => Q!Take(n)
<1>1. TypeOK => Puts
  BY ChunkIsBytes, AppendStep, ReadFromFdStep DEF Q!PutLast
<1>2. TypeOK => PutsInFront
  BY ChunkIsBytes, PrependStep DEF Q!PutFirst
<1>3. TypeOK => PutsIntegers
  <2> SUFFICES ASSUME TypeOK, NEW n \in Widths, NEW v \in Signed(n)
               PROVE  /\ appendInt(v, n) => \E s \in Q!Numerals(v, n) : Q!PutLast(s)
                      /\ prependInt(v, n) => \E s \in Q!Numerals(v, n) : Q!PutFirst(s)
    OBVIOUS
  <2>1. ASSUME appendInt(v, n) PROVE \E s \in Q!Numerals(v, n) : Q!PutLast(s)
    <3>1. Q!PutLast(memory(htobe(v, n), n))
      BY <2>1, PutInteger, AppendStep DEF appendInt, Q!PutLast
    <3> QED
      BY <3>1, PutInteger
  <2>2. ASSUME prependInt(v, n) PROVE \E s \in Q!Numerals(v, n) : Q!PutFirst(s)
    <3>1. Q!PutFirst(memory(htobe(v, n), n))
      BY <2>2, PutInteger, PrependStep DEF prependInt, Q!PutFirst
    <3> QED
      BY <3>1, PutInteger
  <2> QED
    BY <2>1, <2>2
<1>4. TypeOK => TakesFirst
  BY RetrieveStep DEF Q!Take
<1>5. TypeOK => (Puts /\ PutsInFront /\ PutsIntegers /\ TakesFirst)
  BY <1>1, <1>2, <1>3, <1>4
<1> QED
  BY <1>5, IndexesStayInOrder, PTL DEF Spec, ImplementsQueue

-----------------------------------------------------------------------------
(* What is read in place.                                                  *)

\* peekInt() gives the integer whose numeral the contents start with.
LEMMA PeekedIntegers ==
  ASSUME TypeOK, NEW n \in Widths, n <= readableBytes(buffer)
  PROVE  SubSeq(Contents, 1, n) \in Q!Numerals(peekInt(n), n)
<1> DEFINE r == readIndex
           w == writeIndex
           s == SubSeq(data, r + 1, r + n)
           x == integer(s)
<1>1. /\ data \in Seq(Byte) /\ Len(data) \in Nat /\ r \in Nat /\ w \in Nat /\ r <= w
      /\ w <= Len(data) /\ n \in Nat \ {0} /\ n <= w - r
  BY BufferAssumption DEF TypeOK, readableBytes, buffer
<1>2. SubSeq(Contents, 1, n) = s
  <2>1. SubSeq(SubSeq(data, r + 1, w), 0 + 1, 0 + n) = SubSeq(data, r + 0 + 1, r + 0 + n)
    BY <1>1, PartInFront
  <2>2. 0 + 1 = 1 /\ 0 + n = n /\ r + 0 + 1 = r + 1 /\ r + 0 + n = r + n
    BY <1>1
  <2> QED
    BY <2>1, <2>2 DEF Contents
<1>3. s \in Seq(Byte) /\ Len(s) = n
  <2>1. r + n \in Nat /\ r <= r + n /\ r + n <= Len(data) /\ (r + n) - r = n
    BY <1>1
  <2> QED
    BY <1>1, <2>1, PartOfSequence
<1>4. peekInt(n) = htobe(x, n)
  BY DEF peekInt
<1> HIDE DEF s
<1>5. x \in Signed(n) /\ memory(x, n) = s
  BY <1>1, <1>3, IntegerOfMemory
<1>6. x \in Int
  <2>1. PICK h \in Nat \ {0} : Signed(n) = -h .. h - 1
    BY <1>1, HalfPower
  <2> QED
    BY <1>5, <2>1
<1> HIDE DEF x
<1>7. htobe(x, n) \in Signed(n) /\ memory(htobe(x, n), n) = Reverse(s)
  BY <1>1, <1>5, <1>6, SwappedMemory
<1>8. Reverse(memory(htobe(x, n), n)) \in Q!Numerals(htobe(x, n), n)
  BY <1>1, <1>7, SwappedIsNumeral
<1>9. Reverse(Reverse(s)) = s
  BY <1>3, ReverseTwice
<1> QED
  BY <1>2, <1>4, <1>7, <1>8, <1>9

\* findCRLF() and its kind find the first place.
LEMMA FoundIsFirst ==
  ASSUME TypeOK, NEW pattern \in Seq(Byte)
  PROVE  IF find(pattern) = nullptr
           THEN \A k \in 0 .. Len(Contents) : ~ Q!FirstAt(pattern, k)
           ELSE Q!FirstAt(pattern, find(pattern) - readIndex)
<1> DEFINE r == readIndex
           w == writeIndex
           m == Len(pattern)
           hits == {p \in r .. w - m : SubSeq(data, p + 1, p + m) = pattern}
<1>1. /\ data \in Seq(Byte) /\ Len(data) \in Nat /\ r \in Nat /\ w \in Nat /\ r <= w
      /\ w <= Len(data) /\ m \in Nat
  BY BufferAssumption DEF TypeOK
<1>2. Contents \in Seq(Byte) /\ Len(Contents) = w - r
  BY <1>1, PartOfSequence DEF Contents
<1>3. find(pattern) =
        IF hits = {} THEN nullptr ELSE CHOOSE p \in hits : \A q \in hits : p <= q
  BY DEF find
<1>4. Contents = SubSeq(data, r + 1, w)
  BY DEF Contents
<1>5. \A p : p \in hits <=> p \in r .. w - m /\ SubSeq(data, p + 1, p + m) = pattern
  OBVIOUS
<1> HIDE DEF r, w, m, hits
<1>6. ASSUME NEW k \in Nat PROVE Q!Occurs(pattern, k) <=> r + k \in hits
  <2>1. Q!Occurs(pattern, k) <=>
          k + m <= w - r /\ SubSeq(SubSeq(data, r + 1, w), k + 1, k + m) = pattern
    BY <1>2, <1>4 DEF Q!Occurs, m
  <2>2. k + m <= w - r <=> r + k \in r .. w - m
    BY <1>1
  <2>3. ASSUME k + m <= w - r
        PROVE  SubSeq(SubSeq(data, r + 1, w), k + 1, k + m) = SubSeq(data, r + k + 1, r + k + m)
    BY <1>1, <2>3, PartInFront
  <2> QED
    BY <1>5, <2>1, <2>2, <2>3
<1>7. CASE hits = {}
  <2>1. find(pattern) = nullptr
    BY <1>3, <1>7
  <2>2. \A k \in 0 .. Len(Contents) : ~ Q!FirstAt(pattern, k)
    <3>1. \A k \in 0 .. Len(Contents) : k \in Nat
      BY <1>1, <1>2
    <3> QED
      BY <1>6, <1>7, <3>1 DEF Q!FirstAt
  <2> QED
    BY <2>1, <2>2
<1>8. CASE hits # {}
  <2>1. hits \subseteq Nat
    BY <1>1, <1>5
  <2>2. PICK least \in hits : \A q \in hits : least <= q
    BY <1>8, <2>1, NatMin
  <2> DEFINE p == CHOOSE x \in hits : \A q \in hits : x <= q
  <2>3. p \in hits /\ \A q \in hits : p <= q
    BY <2>2
  <2>4. find(pattern) = p
    BY <1>3, <1>8
  <2> HIDE DEF p
  <2>5. p \in Nat /\ r <= p /\ p - r \in Nat /\ r + (p - r) = p
    <3>1. p \in r .. w - m
      BY <1>5, <2>3
    <3> QED
      BY <1>1, <3>1
  <2>6. p # nullptr
    BY <2>5 DEF nullptr
  <2>7. Q!Occurs(pattern, p - r)
    BY <1>6, <2>3, <2>5
  <2>8. ASSUME NEW j \in 0 .. (p - r) - 1 PROVE ~ Q!Occurs(pattern, j)
    <3>1. j \in Nat /\ ~ (p <= r + j)
      BY <1>1, <2>5
    <3> QED
      BY <1>6, <2>3, <3>1
  <2>9. Q!FirstAt(pattern, p - r)
    BY <2>7, <2>8 DEF Q!FirstAt
  <2> QED
    BY <2>4, <2>6, <2>9 DEF r
<1> QED
  BY <1>7, <1>8

\* Integers of every width and sign that peekInt() reads, and the ends of line that
\* findEOL() and findCRLF() find, are those at the front of the queue, in every state.
THEOREM PeeksAtQueueAlways == Spec => []PeeksAtQueue
<1>1. TypeOK => PeeksAtQueue
  <2> SUFFICES ASSUME TypeOK PROVE PeeksAtQueue
    OBVIOUS
  <2>1. \A pattern \in {<<LF>>, <<CR, LF>>} : pattern \in Seq(Byte)
    <3>1. CR \in Byte /\ LF \in Byte
      BY BufferAssumption
    <3>2. <<LF>> \in Seq(Byte) /\ <<CR, LF>> \in Seq(Byte)
      BY <3>1
    <3> QED
      BY <3>2
  <2> QED
    BY <2>1, PeekedIntegers, FoundIsFirst DEF PeeksAtQueue
<1> QED
  BY <1>1, IndexesStayInOrder, PTL

-----------------------------------------------------------------------------
(* length() and filled(), one piece after the other.                       *)

\* The function behind length().
Sums(f, text) ==
  f = [n \in 0 .. Len(text) |-> IF n = 0 THEN 0 ELSE f[n - 1] + text[n].len + 1]

\* length(s) is the end of a sequence of partial sums.
LEMMA LengthIs ==
  ASSUME NEW text \in Seq(Piece)
  PROVE  \E f \in [0 .. Len(text) -> Nat] :
           /\ length(text) = f[Len(text)]
           /\ f[0] = 0
           /\ \A n \in 1 .. Len(text) : f[n] = f[n - 1] + text[n].len + 1
<1> DEFINE N == Len(text)
           step == [n \in 1 .. N |-> [x \in Nat |-> x + text[n].len + 1]]
<1>1. N \in Nat /\ \A n \in 1 .. N : text[n].len \in Nat
  BY DEF Piece
<1>2. step \in [1 .. N -> [Nat -> Nat]]
  BY <1>1
<1>3. \A n \in 1 .. N : \A x \in Nat : step[n][x] = x + text[n].len + 1
  OBVIOUS
<1>4. 0 \in Nat
  OBVIOUS
<1> HIDE DEF step, N
<1>5. PICK g \in [0 .. N -> Nat] : Recurs(g, N, 0, step)
  BY <1>1, <1>2, <1>4, RecursionExists
<1>6. 0 \in 0 .. N /\ \A n \in 0 .. N : n # 0 => n \in 1 .. N /\ n - 1 \in 0 .. N
  BY <1>1
<1>7. \A n \in 0 .. N : g[n] = IF n = 0 THEN 0 ELSE g[n - 1] + text[n].len + 1
  BY <1>3, <1>5, <1>6 DEF Recurs
<1> DEFINE h == [n \in 0 .. N |-> IF n = 0 THEN 0 ELSE g[n - 1] + text[n].len + 1]
<1>8. g = h
  BY <1>5, <1>7
<1>9. Sums(g, text)
  BY <1>8 DEF Sums, N
<1> DEFINE c == CHOOSE f :
      f = [n \in 0 .. Len(text) |-> IF n = 0 THEN 0 ELSE f[n - 1] + text[n].len + 1]
<1>10. Sums(c, text)
  BY <1>9, Zenon DEF Sums
<1>11. length(text) = c[Len(text)]
  BY DEF length
<1> HIDE DEF c
<1>12. c[0] = 0 /\ \A n \in 1 .. N : c[n] = c[n - 1] + text[n].len + 1
  <2>1. \A n \in 0 .. Len(text) : c[n] = IF n = 0 THEN 0 ELSE c[n - 1] + text[n].len + 1
    BY <1>10 DEF Sums
  <2>2. 0 \in 0 .. N /\ \A n \in 1 .. N : n \in 0 .. N /\ n # 0
    BY <1>1
  <2> QED
    BY <2>1, <2>2 DEF N
<1>13. \A n \in 0 .. N : c[n] = g[n]
  <2>1. c[0] = g[0]
    BY <1>6, <1>7, <1>12
  <2>2. ASSUME NEW n \in 1 .. N, c[n - 1] = g[n - 1] PROVE c[n] = g[n]
    <3>1. n \in 0 .. N /\ n # 0
      BY <1>1
    <3> QED
      BY <1>7, <1>12, <2>2, <3>1
  <2>3. GoOnAlike(c, g, N)
    BY <2>2 DEF GoOnAlike
  <2> QED
    BY <1>1, <2>1, <2>3, RecursionAgrees
<1>14. DOMAIN c = 0 .. N
  BY <1>10 DEF Sums, N
<1>15. c \in [0 .. N -> Nat]
  <2>1. \A n \in 0 .. N : c[n] \in Nat
    BY <1>5, <1>13
  <2>2. c = [n \in 0 .. N |-> c[n]]
    BY <1>10, <1>14 DEF Sums
  <2> QED
    BY <2>1, <2>2
<1> QED
  BY <1>11, <1>12, <1>15 DEF N

\* Lengths are natural numbers.
LEMMA LengthType ==
  ASSUME NEW text \in Seq(Piece)
  PROVE  length(text) \in Nat
<1>1. Len(text) \in 0 .. Len(text)
  OBVIOUS
<1> QED
  BY <1>1, LengthIs

\* No pieces have no length.
LEMMA LengthEmpty == length(<<>>) = 0
<1>1. <<>> \in Seq(Piece) /\ Len(<<>>) = 0
  OBVIOUS
<1> QED
  BY <1>1, LengthIs

\* One piece more.
LEMMA LengthAppend ==
  ASSUME NEW text \in Seq(Piece), NEW p \in Piece
  PROVE  length(Append(text, p)) = length(text) + p.len + 1
<1> DEFINE N == Len(text)
           longer == Append(text, p)
<1>1. /\ N \in Nat /\ Len(longer) = N + 1 /\ longer \in Seq(Piece) /\ longer[N + 1] = p
      /\ \A n \in 1 .. N : longer[n] = text[n]
  OBVIOUS
<1> HIDE DEF longer
<1>2. PICK f \in [0 .. N -> Nat] :
        /\ length(text) = f[N] /\ f[0] = 0
        /\ \A n \in 1 .. N : f[n] = f[n - 1] + text[n].len + 1
  BY LengthIs
<1>3. PICK g \in [0 .. N + 1 -> Nat] :
        /\ length(longer) = g[N + 1] /\ g[0] = 0
        /\ \A n \in 1 .. N + 1 : g[n] = g[n - 1] + longer[n].len + 1
  <2>1. \E g \in [0 .. Len(longer) -> Nat] :
          /\ length(longer) = g[Len(longer)] /\ g[0] = 0
          /\ \A n \in 1 .. Len(longer) : g[n] = g[n - 1] + longer[n].len + 1
    BY <1>1, LengthIs
  <2> QED
    BY <1>1, <2>1
<1>4. f[0] = g[0] /\ GoOnAlike(f, g, N)
  <2>1. f[0] = g[0]
    BY <1>2, <1>3
  <2>2. ASSUME NEW n \in 1 .. N, f[n - 1] = g[n - 1] PROVE f[n] = g[n]
    <3>1. n \in 1 .. N + 1 /\ longer[n] = text[n]
      BY <1>1
    <3> QED
      BY <1>2, <1>3, <2>2, <3>1
  <2>3. GoOnAlike(f, g, N)
    BY <2>2 DEF GoOnAlike
  <2> QED
    BY <2>1, <2>3
<1>5. f[N] = g[N]
  <2>1. \A n \in 0 .. N : f[n] = g[n]
    BY <1>1, <1>4, RecursionAgrees, SMTT(30)
  <2> QED
    BY <1>1, <2>1
<1>6. N + 1 \in 1 .. N + 1 /\ N + 1 - 1 = N
  BY <1>1
<1> QED
  BY <1>1, <1>2, <1>3, <1>5, <1>6 DEF longer

\* What a buffer holds are pieces.
LEMMA PutType ==
  ASSUME NEW text \in Seq(Piece), NEW p \in Piece
  PROVE  put(text, p) \in Seq(Piece)
  BY DEF put

\* The function behind filled().
Fills(f, pieces) ==
  f = [n \in 0 .. Len(pieces) |-> IF n = 0 THEN <<>> ELSE put(f[n - 1], pieces[n])]

\* filled(s) is the end of a sequence of fillings.
LEMMA FilledIs ==
  ASSUME NEW pieces \in Seq(Piece)
  PROVE  \E f \in [0 .. Len(pieces) -> Seq(Piece)] :
           /\ filled(pieces) = f[Len(pieces)]
           /\ f[0] = <<>>
           /\ \A n \in 1 .. Len(pieces) : f[n] = put(f[n - 1], pieces[n])
<1> DEFINE N == Len(pieces)
           T == Seq(Piece)
           step == [n \in 1 .. N |-> [x \in T |-> put(x, pieces[n])]]
<1>1. N \in Nat /\ \A n \in 1 .. N : pieces[n] \in Piece
  OBVIOUS
<1>2. step \in [1 .. N -> [T -> T]]
  BY <1>1, PutType
<1>3. \A n \in 1 .. N : \A x \in T : step[n][x] = put(x, pieces[n])
  OBVIOUS
<1>4. <<>> \in T
  OBVIOUS
<1> HIDE DEF step, N, T
<1>5. PICK g \in [0 .. N -> T] : Recurs(g, N, <<>>, step)
  BY <1>1, <1>2, <1>4, RecursionExists
<1>6. 0 \in 0 .. N /\ \A n \in 0 .. N : n # 0 => n \in 1 .. N /\ n - 1 \in 0 .. N
  BY <1>1
<1>7. \A n \in 0 .. N : g[n] = IF n = 0 THEN <<>> ELSE put(g[n - 1], pieces[n])
  BY <1>3, <1>5, <1>6 DEF Recurs
<1> DEFINE h == [n \in 0 .. N |-> IF n = 0 THEN <<>> ELSE put(g[n - 1], pieces[n])]
<1>8. g = h
  BY <1>5, <1>7
<1>9. Fills(g, pieces)
  BY <1>8 DEF Fills, N
<1> DEFINE c == CHOOSE f :
      f = [n \in 0 .. Len(pieces) |-> IF n = 0 THEN <<>> ELSE put(f[n - 1], pieces[n])]
<1>10. Fills(c, pieces)
  BY <1>9, Zenon DEF Fills
<1>11. filled(pieces) = c[Len(pieces)]
  BY DEF filled
<1> HIDE DEF c
<1>12. c[0] = <<>> /\ \A n \in 1 .. N : c[n] = put(c[n - 1], pieces[n])
  <2>1. \A n \in 0 .. Len(pieces) : c[n] = IF n = 0 THEN <<>> ELSE put(c[n - 1], pieces[n])
    BY <1>10 DEF Fills
  <2>2. 0 \in 0 .. N /\ \A n \in 1 .. N : n \in 0 .. N /\ n # 0
    BY <1>1
  <2> QED
    BY <2>1, <2>2 DEF N
<1>13. \A n \in 0 .. N : c[n] = g[n]
  <2>1. c[0] = g[0]
    BY <1>6, <1>7, <1>12
  <2>2. ASSUME NEW n \in 1 .. N, c[n - 1] = g[n - 1] PROVE c[n] = g[n]
    <3>1. n \in 0 .. N /\ n # 0
      BY <1>1
    <3> QED
      BY <1>7, <1>12, <2>2, <3>1
  <2>3. GoOnAlike(c, g, N)
    BY <2>2 DEF GoOnAlike
  <2> QED
    BY <1>1, <2>1, <2>3, RecursionAgrees
<1>14. c \in [0 .. N -> T]
  <2>1. \A n \in 0 .. N : c[n] \in T
    BY <1>5, <1>13
  <2>2. c = [n \in 0 .. N |-> c[n]]
    BY <1>10 DEF Fills, N
  <2> QED
    BY <2>1, <2>2
<1> QED
  BY <1>11, <1>12, <1>14 DEF N, T

\* A filled buffer holds pieces.
LEMMA FilledType ==
  ASSUME NEW pieces \in Seq(Piece)
  PROVE  filled(pieces) \in Seq(Piece)
<1>1. Len(pieces) \in 0 .. Len(pieces)
  OBVIOUS
<1> QED
  BY <1>1, FilledIs

\* Nothing fills nothing.
LEMMA FilledEmpty == filled(<<>>) = <<>>
<1>1. <<>> \in Seq(Piece) /\ Len(<<>>) = 0
  OBVIOUS
<1> QED
  BY <1>1, FilledIs

\* A piece more.
LEMMA FilledAppend ==
  ASSUME NEW pieces \in Seq(Piece), NEW p \in Piece
  PROVE  filled(Append(pieces, p)) = put(filled(pieces), p)
<1> DEFINE N == Len(pieces)
           longer == Append(pieces, p)
<1>1. /\ N \in Nat /\ Len(longer) = N + 1 /\ longer \in Seq(Piece) /\ longer[N + 1] = p
      /\ \A n \in 1 .. N : longer[n] = pieces[n]
  OBVIOUS
<1> HIDE DEF longer
<1>2. PICK f \in [0 .. N -> Seq(Piece)] :
        /\ filled(pieces) = f[N] /\ f[0] = <<>>
        /\ \A n \in 1 .. N : f[n] = put(f[n - 1], pieces[n])
  BY FilledIs
<1>3. PICK g \in [0 .. N + 1 -> Seq(Piece)] :
        /\ filled(longer) = g[N + 1] /\ g[0] = <<>>
        /\ \A n \in 1 .. N + 1 : g[n] = put(g[n - 1], longer[n])
  <2>1. \E g \in [0 .. Len(longer) -> Seq(Piece)] :
          /\ filled(longer) = g[Len(longer)] /\ g[0] = <<>>
          /\ \A n \in 1 .. Len(longer) : g[n] = put(g[n - 1], longer[n])
    BY <1>1, FilledIs
  <2> QED
    BY <1>1, <2>1
<1>4. f[0] = g[0] /\ GoOnAlike(f, g, N)
  <2>1. f[0] = g[0]
    BY <1>2, <1>3
  <2>2. ASSUME NEW n \in 1 .. N, f[n - 1] = g[n - 1] PROVE f[n] = g[n]
    <3>1. n \in 1 .. N + 1 /\ longer[n] = pieces[n]
      BY <1>1
    <3> QED
      BY <1>2, <1>3, <2>2, <3>1
  <2>3. GoOnAlike(f, g, N)
    BY <2>2 DEF GoOnAlike
  <2> QED
    BY <2>1, <2>3
<1>5. f[N] = g[N]
  <2>1. \A n \in 0 .. N : f[n] = g[n]
    BY <1>1, <1>4, RecursionAgrees, ZenonT(40)
  <2> QED
    BY <1>1, <2>1
<1>6. N + 1 \in 1 .. N + 1 /\ N + 1 - 1 = N
  BY <1>1
<1> QED
  BY <1>1, <1>2, <1>3, <1>5, <1>6 DEF longer

\* The line break is a piece like any other.
LEMMA LineBreakIsPiece == lineBreak \in Piece
  BY DEF lineBreak, Piece

\* What fits is all there.
LEMMA FilledFits ==
  ASSUME NEW pieces \in Seq(Piece), Fits(pieces)
  PROVE  filled(pieces) = pieces
<1> DEFINE N == Len(pieces)
           pre(k) == SubSeq(pieces, 1, k)
           Good == {k \in Nat : k <= N => filled(pre(k)) = pre(k)}
<1>1. N \in Nat /\ pre(0) = <<>> /\ pre(N) = pieces
  OBVIOUS
<1>2. \A k \in Nat : k + 1 <= N =>
        /\ pre(k) \in Seq(Piece) /\ pieces[k + 1] \in Piece /\ k <= N
        /\ pre(k + 1) = Append(pre(k), pieces[k + 1])
  OBVIOUS
<1>3. \A k \in Nat : k + 1 <= N => length(pre(k)) + pieces[k + 1].asks <= SIZE
  <2> SUFFICES ASSUME NEW k \in Nat, k + 1 <= N
               PROVE  length(pre(k)) + pieces[k + 1].asks <= SIZE
    OBVIOUS
  <2>1. k + 1 \in DOMAIN pieces /\ k + 1 - 1 = k
    OBVIOUS
  <2> QED
    BY <2>1 DEF Fits
<1> HIDE DEF pre
<1>4. 0 \in Good
  BY <1>1, FilledEmpty
<1>5. ASSUME NEW k \in Nat, k \in Good PROVE k + 1 \in Good
  <2>1. SUFFICES ASSUME k + 1 <= N PROVE filled(pre(k + 1)) = pre(k + 1)
    OBVIOUS
  <2> DEFINE p == pieces[k + 1]
             q == pre(k)
  <2>2. q \in Seq(Piece) /\ p \in Piece /\ pre(k + 1) = Append(q, p) /\ filled(q) = q
    BY <1>2, <1>5, <2>1
  <2>3. length(q) + p.asks <= SIZE /\ length(q) \in Nat /\ p.asks \in Nat /\ SIZE \in Nat
    BY <1>3, <2>1, <2>2, LengthType, LoggingAssumption DEF Piece
  <2> HIDE DEF p, q
  <2>4. put(q, p) = Append(q, p)
    BY <2>3 DEF put
  <2> QED
    BY <2>2, <2>4, FilledAppend
<1> HIDE DEF Good
<1>6. N \in Good
  BY <1>1, <1>4, <1>5, NatInd
<1> QED
  BY <1>1, <1>6 DEF Good

\* append() never fills the buffer beyond its size.
LEMMA PutStaysInside ==
  ASSUME NEW text \in Seq(Piece), NEW p \in Piece, length(text) <= SIZE
  PROVE  length(put(text, p)) <= SIZE
<1>1. length(text) \in Nat /\ p.len \in Nat /\ p.asks \in Nat /\ p.len < p.asks /\ SIZE \in Nat
  BY LengthType, LoggingAssumption DEF Piece
<1> QED
  BY <1>1, LengthAppend DEF put

\* What does not fit stays inside the buffer.
LEMMA FilledStaysInside ==
  ASSUME NEW pieces \in Seq(Piece)
  PROVE  length(filled(pieces)) <= SIZE
<1> DEFINE N == Len(pieces)
           pre(k) == SubSeq(pieces, 1, k)
           Good == {k \in Nat : k <= N => length(filled(pre(k))) <= SIZE}
<1>1. N \in Nat /\ pre(0) = <<>> /\ pre(N) = pieces
  OBVIOUS
<1>2. \A k \in Nat : k + 1 <= N =>
        /\ pre(k) \in Seq(Piece) /\ pieces[k + 1] \in Piece /\ k <= N
        /\ pre(k + 1) = Append(pre(k), pieces[k + 1])
  OBVIOUS
<1> HIDE DEF pre
<1>3. 0 \in Good
  BY <1>1, FilledEmpty, LengthEmpty, LoggingAssumption
<1>4. ASSUME NEW k \in Nat, k \in Good PROVE k + 1 \in Good
  <2>1. SUFFICES ASSUME k + 1 <= N PROVE length(filled(pre(k + 1))) <= SIZE
    OBVIOUS
  <2> DEFINE p == pieces[k + 1]
             q == pre(k)
  <2>2. q \in Seq(Piece) /\ p \in Piece /\ pre(k + 1) = Append(q, p)
        /\ length(filled(q)) <= SIZE
    BY <1>2, <1>4, <2>1
  <2> HIDE DEF p, q
  <2>3. filled(q) \in Seq(Piece) /\ filled(pre(k + 1)) = put(filled(q), p)
    BY <2>2, FilledType, FilledAppend
  <2> QED
    BY <2>2, <2>3, PutStaysInside
<1> HIDE DEF Good
<1>5. N \in Good
  BY <1>1, <1>3, <1>4, NatInd
<1> QED
  BY <1>1, <1>5 DEF Good

\* The line break is missing only where there was no room for it.
LEMMA LineEnds ==
  ASSUME NEW text \in Seq(Piece)
  PROVE  LET ended == put(text, lineBreak)
         IN  Last(ended) = lineBreak \/ SIZE - length(ended) < lineBreak.asks
<1>1. CASE SIZE - length(text) >= lineBreak.asks
  <2> DEFINE ended == Append(text, lineBreak)
  <2>1. put(text, lineBreak) = ended
    BY <1>1 DEF put
  <2>2. Len(ended) = Len(text) + 1 /\ ended[Len(text) + 1] = lineBreak
    BY LineBreakIsPiece
  <2> QED
    BY <2>1, <2>2 DEF Last
<1>2. CASE ~ (SIZE - length(text) >= lineBreak.asks)
  <2>1. length(text) \in Nat /\ SIZE \in Nat /\ lineBreak.asks \in Nat
    BY LengthType, LineBreakIsPiece, LoggingAssumption DEF Piece
  <2>2. put(text, lineBreak) = text
    BY <1>2 DEF put
  <2> QED
    BY <1>2, <2>1, <2>2
<1> QED
  BY <1>1, <1>2

-----------------------------------------------------------------------------
(* The invariant.                                                          *)

Line == [id : Nat, level : Nat, text : Seq(Piece)]

LinesShape ==
  /\ said \in Seq(Seq(Piece)) /\ begun = Len(said)
  /\ lines \in [Thread -> Seq(Line)]
  /\ output \in [Sink -> Seq(Line)]
  /\ g_output \in Sink /\ g_flush \in Sink
  /\ safe \in [Sink -> Nat]
  /\ dying \in [Thread -> {none} \cup Sink \X Nat]
  /\ flushed \in [Thread -> {"nothing"} \cup Sink]

\* Every line has its own number, whoever is in it and wherever it went.
Apart ==
  /\ \A t \in Thread : \A i \in DOMAIN lines[t] : lines[t][i].id \in 1 .. begun
  /\ \A s \in Sink : \A k \in DOMAIN output[s] : output[s][k].id \in 1 .. begun
  /\ \A t, u \in Thread : \A i \in DOMAIN lines[t] : \A j \in DOMAIN lines[u] :
       lines[t][i].id = lines[u][j].id => t = u /\ i = j
  /\ \A t \in Thread : \A i \in DOMAIN lines[t] :
       \A s \in Sink : \A k \in DOMAIN output[s] : lines[t][i].id # output[s][k].id

\* A buffer holds what was streamed into its line, as far as it fits.
Texts ==
  /\ \A t \in Thread : \A i \in DOMAIN lines[t] :
       lines[t][i].text = filled(Header \o said[lines[t][i].id])
  /\ \A s \in Sink : \A k \in DOMAIN output[s] :
       output[s][k].text = filled(Streamed(output[s][k]))

\* A fatal line is in its sink before its thread flushes, and what is safe is a
\* part of what its sink was given.
Fatal ==
  /\ \A t \in Thread : /\ dying[t] # none => dying[t][2] <= Len(output[dying[t][1]])
                       /\ dying[t] = none => flushed[t] = "nothing"
  /\ \A s \in Sink : safe[s] <= Len(output[s])
  /\ FatalIsFlushed

LinesInv == LinesShape /\ Apart /\ Texts /\ Fatal

\* Nobody logs at the start.
LEMMA LinesInit == LogInit => LinesInv
<1> SUFFICES ASSUME LogInit PROVE LinesInv
  OBVIOUS
<1>1. LinesShape
  BY DEF LogInit, LinesShape, Sink
<1>2. Apart /\ Texts
  BY DEF LogInit, Apart, Texts
<1>3. Fatal
  BY DEF LogInit, Fatal, FatalIsFlushed, none
<1> QED
  BY <1>1, <1>2, <1>3 DEF LinesInv

\* A new line has the next number and the header.
LEMMA BeginKeeps ==
  ASSUME LinesInv, NEW t \in Thread, NEW level \in 0 .. FATAL, Begin(t, level)
  PROVE  LinesInv'
<1> DEFINE new == [id |-> begun + 1, level |-> level, text |-> filled(Header)]
<1>1. /\ begun \in Nat /\ begun = Len(said) /\ said \in Seq(Seq(Piece))
      /\ lines[t] \in Seq(Line) /\ Header \in Seq(Piece) /\ level \in Nat
  BY LoggingAssumption DEF LinesInv, LinesShape
<1>2. new \in Line
  BY <1>1, FilledType DEF Line
<1>3. /\ begun' = begun + 1 /\ said' = Append(said, <<>>)
      /\ lines' = [lines EXCEPT ![t] = Append(@, new)]
      /\ UNCHANGED <<globals, dying, flushed, dead, output, safe>>
  BY DEF Begin
<1>4. /\ new.id = begun + 1 /\ new.text = filled(Header)
  OBVIOUS
<1> HIDE DEF new
<1>5. LinesShape'
  <2>1. said' \in Seq(Seq(Piece)) /\ begun' = Len(said')
    <3>1. <<>> \in Seq(Piece)
      OBVIOUS
    <3> QED
      BY <1>1, <1>3, <3>1
  <2>2. lines' \in [Thread -> Seq(Line)]
    BY <1>1, <1>2, <1>3 DEF LinesInv, LinesShape
  <2> QED
    BY <1>3, <2>1, <2>2 DEF LinesInv, LinesShape, globals
<1>6. /\ \A n \in 1 .. begun : n \in 1 .. begun' /\ said'[n] = said[n]
      /\ begun + 1 \in 1 .. begun' /\ said'[begun + 1] = <<>>
      /\ begun + 1 \notin 1 .. begun
  BY <1>1, <1>3
<1>7. \A u \in Thread : \A i \in DOMAIN lines'[u] :
        \/ i \in DOMAIN lines[u] /\ lines'[u][i] = lines[u][i]
        \/ u = t /\ i = Len(lines[t]) + 1 /\ lines'[u][i] = new
  BY <1>1, <1>3 DEF LinesInv, LinesShape
<1>8. Apart'
  <2>1. \A u \in Thread : \A i \in DOMAIN lines'[u] : lines'[u][i].id \in 1 .. begun'
    BY <1>4, <1>6, <1>7 DEF LinesInv, Apart
  <2>2. \A s \in Sink : \A k \in DOMAIN output'[s] : output'[s][k].id \in 1 .. begun'
    BY <1>3, <1>6 DEF LinesInv, Apart
  <2>3. \A u, w \in Thread : \A i \in DOMAIN lines'[u] : \A j \in DOMAIN lines'[w] :
          lines'[u][i].id = lines'[w][j].id => u = w /\ i = j
    BY <1>4, <1>6, <1>7 DEF LinesInv, Apart
  <2>4. \A u \in Thread : \A i \in DOMAIN lines'[u] :
          \A s \in Sink : \A k \in DOMAIN output'[s] : lines'[u][i].id # output'[s][k].id
    BY <1>3, <1>4, <1>6, <1>7 DEF LinesInv, Apart
  <2> QED
    BY <2>1, <2>2, <2>3, <2>4 DEF Apart
<1>9. Texts'
  <2>1. ASSUME NEW u \in Thread, NEW i \in DOMAIN lines'[u]
        PROVE  lines'[u][i].text = filled(Header \o said'[lines'[u][i].id])
    <3>1. CASE i \in DOMAIN lines[u] /\ lines'[u][i] = lines[u][i]
      BY <1>6, <3>1 DEF LinesInv, Apart, Texts
    <3>2. CASE lines'[u][i] = new
      <4>1. Header \o <<>> = Header
        BY <1>1
      <4> QED
        BY <1>4, <1>6, <3>2, <4>1
    <3> QED
      BY <1>7, <3>1, <3>2
  <2>2. ASSUME NEW s \in Sink, NEW k \in DOMAIN output[s]
        PROVE  said'[output[s][k].id] = said[output[s][k].id]
    BY <1>6 DEF LinesInv, Apart
  <2>3. \A s \in Sink : \A k \in DOMAIN output'[s] :
          output'[s][k].text = filled(Header \o said'[output'[s][k].id] \o <<lineBreak>>)
    BY <1>3, <2>2 DEF LinesInv, Texts, Streamed
  <2> QED
    BY <2>1, <2>3 DEF Texts, Streamed
<1>10. Fatal'
  BY <1>3 DEF LinesInv, Fatal, FatalIsFlushed, globals
<1> QED
  BY <1>5, <1>8, <1>9, <1>10 DEF LinesInv

\* What is streamed goes into the innermost line of the thread, and only there.
LEMMA StreamKeeps ==
  ASSUME LinesInv, NEW t \in Thread, NEW p \in Pieces, Stream(t, p)
  PROVE  LinesInv'
<1> DEFINE last == Len(lines[t])
           id == lines[t][last].id
           longer == put(lines[t][last].text, p)
<1>1. /\ begun \in Nat /\ begun = Len(said) /\ said \in Seq(Seq(Piece))
      /\ lines[t] \in Seq(Line) /\ Header \in Seq(Piece) /\ p \in Piece
  BY LoggingAssumption DEF LinesInv, LinesShape
<1>2. last \in DOMAIN lines[t] /\ lines[t][last] \in Line
  BY <1>1 DEF Stream
<1>3. id \in 1 .. begun /\ said[id] \in Seq(Piece)
  <2>1. id \in 1 .. begun
    BY <1>2 DEF LinesInv, Apart
  <2> QED
    BY <1>1, <2>1
<1>4. /\ said' = [said EXCEPT ![id] = Append(@, p)]
      /\ lines' = [lines EXCEPT ![t][last].text = longer]
      /\ UNCHANGED <<globals, begun, dying, flushed, dead, output, safe>>
  BY DEF Stream, Last, innermost
<1>5. longer \in Seq(Piece)
  BY <1>1, <1>2, PutType DEF Line
<1>6. longer = filled(Header \o Append(said[id], p))
  <2>1. lines[t][last].text = filled(Header \o said[id])
    BY <1>2 DEF LinesInv, Texts
  <2>2. Header \o said[id] \in Seq(Piece)
        /\ Header \o Append(said[id], p) = Append(Header \o said[id], p)
    <3> DEFINE x == said[id]
    <3>1. x \in Seq(Piece)
      BY <1>3
    <3> HIDE DEF x
    <3>2. Header \o x \in Seq(Piece) /\ Header \o Append(x, p) = Append(Header \o x, p)
      BY <1>1, <3>1
    <3> QED
      BY <3>2 DEF x
  <2> QED
    BY <1>1, <2>1, <2>2, FilledAppend
<1>7. \A u \in Thread : \A i \in DOMAIN lines'[u] :
        /\ i \in DOMAIN lines[u] /\ lines'[u][i].id = lines[u][i].id
        /\ (u = t /\ i = last) \/ lines'[u][i] = lines[u][i]
  BY <1>1, <1>2, <1>4 DEF LinesInv, LinesShape
<1>8. lines'[t][last].text = longer
  BY <1>1, <1>2, <1>4 DEF LinesInv, LinesShape, Line
<1>9. lines' \in [Thread -> Seq(Line)]
  <2>1. [lines[t][last] EXCEPT !.text = longer] \in Line
    BY <1>2, <1>5 DEF Line
  <2>2. [lines[t] EXCEPT ![last].text = longer] \in Seq(Line)
    BY <1>1, <1>2, <2>1
  <2> QED
    BY <1>4, <2>2 DEF LinesInv, LinesShape
<1> HIDE DEF last, id, longer
<1>10. \A n \in 1 .. begun : said'[n] = IF n = id THEN Append(said[id], p) ELSE said[n]
  BY <1>1, <1>3, <1>4
<1>11. LinesShape'
  <2>1. said' \in Seq(Seq(Piece)) /\ begun' = Len(said')
    <3>1. Append(said[id], p) \in Seq(Piece)
      BY <1>1, <1>3
    <3> QED
      BY <1>1, <1>3, <1>4, <3>1
  <2> QED
    BY <1>4, <1>9, <2>1 DEF LinesInv, LinesShape, globals
<1>12. Apart'
  BY <1>4, <1>7 DEF LinesInv, Apart
<1>13. Texts'
  <2>1. ASSUME NEW u \in Thread, NEW i \in DOMAIN lines'[u]
        PROVE  lines'[u][i].text = filled(Header \o said'[lines'[u][i].id])
    <3>1. lines'[u][i].id \in 1 .. begun
      BY <1>7 DEF LinesInv, Apart
    <3>2. CASE u = t /\ i = last
      <4>1. lines'[u][i].id = id
        BY <1>7, <3>2 DEF id
      <4> QED
        BY <1>3, <1>6, <1>8, <1>10, <3>2, <4>1
    <3>3. CASE ~ (u = t /\ i = last)
      <4>1. i \in DOMAIN lines[u] /\ lines'[u][i] = lines[u][i]
        BY <1>7, <3>3
      <4>2. lines[u][i].id # id
        BY <1>2, <3>3, <4>1 DEF LinesInv, Apart, id
      <4> QED
        BY <1>10, <3>1, <4>1, <4>2 DEF LinesInv, Texts
    <3> QED
      BY <3>2, <3>3
  <2>2. ASSUME NEW s \in Sink, NEW k \in DOMAIN output[s]
        PROVE  said'[output[s][k].id] = said[output[s][k].id]
    <3>1. output[s][k].id \in 1 .. begun /\ output[s][k].id # id
      BY <1>2 DEF LinesInv, Apart, id
    <3> QED
      BY <1>10, <3>1
  <2>3. \A s \in Sink : \A k \in DOMAIN output'[s] :
          output'[s][k].text = filled(Header \o said'[output'[s][k].id] \o <<lineBreak>>)
    BY <1>4, <2>2 DEF LinesInv, Texts, Streamed
  <2> QED
    BY <2>1, <2>3 DEF Texts, Streamed
<1>14. Fatal'
  BY <1>4 DEF LinesInv, Fatal, FatalIsFlushed, globals
<1> QED
  BY <1>11, <1>12, <1>13, <1>14 DEF LinesInv

\* A line that ends leaves its thread and goes, with its line break, to the end
\* of one sink.
LEMMA EndKeeps ==
  ASSUME LinesInv, NEW t \in Thread, End(t)
  PROVE  LinesInv'
<1> DEFINE last == Len(lines[t])
           old == lines[t][last]
           line == [old EXCEPT !.text = put(@, lineBreak)]
<1>1. /\ begun \in Nat /\ begun = Len(said) /\ said \in Seq(Seq(Piece))
      /\ lines[t] \in Seq(Line) /\ Header \in Seq(Piece) /\ lineBreak \in Piece
      /\ output \in [Sink -> Seq(Line)] /\ g_output \in Sink
  BY LineBreakIsPiece, LoggingAssumption DEF LinesInv, LinesShape
<1>2. /\ last \in DOMAIN lines[t] /\ old \in Line
      /\ Front(lines[t]) \in Seq(Line) /\ Len(Front(lines[t])) = last - 1 /\ last \in Nat \ {0}
      /\ \A i \in 1 .. last - 1 : Front(lines[t])[i] = lines[t][i]
  BY <1>1, SMTT(30) DEF End, Front
<1>3. /\ output' = [output EXCEPT ![g_output] = Append(@, line)]
      /\ lines' = [lines EXCEPT ![t] = Front(@)]
      /\ ~ dead
      /\ UNCHANGED <<globals, begun, flushed, dead, safe, said>>
  BY DEF End, Last, Runs
<1>4. line \in Line /\ line.id = old.id /\ line.text = put(old.text, lineBreak)
  <2>1. put(old.text, lineBreak) \in Seq(Piece)
    BY <1>1, <1>2, PutType DEF Line
  <2> QED
    BY <1>2, <2>1 DEF Line
<1>5. old.id \in 1 .. begun /\ said[old.id] \in Seq(Piece)
  <2>1. old.id \in 1 .. begun
    BY <1>2 DEF LinesInv, Apart
  <2> QED
    BY <1>1, <2>1
<1>6. line.text = filled(Header \o said[line.id] \o <<lineBreak>>)
  <2>1. old.text = filled(Header \o said[old.id])
    BY <1>2 DEF LinesInv, Texts
  <2> DEFINE x == Header \o said[old.id]
  <2>2. x \in Seq(Piece)
    BY <1>1, <1>5
  <2> HIDE DEF x, line, old
  <2>3. Append(x, lineBreak) = x \o <<lineBreak>>
    BY <1>1, <2>2
  <2>4. filled(x \o <<lineBreak>>) = put(filled(x), lineBreak)
    BY <1>1, <2>2, <2>3, FilledAppend
  <2> QED
    BY <1>4, <2>1, <2>4 DEF x
<1>7. \A u \in Thread : \A i \in DOMAIN lines'[u] :
        /\ i \in DOMAIN lines[u] /\ lines'[u][i] = lines[u][i]
        /\ ~ (u = t /\ i = last)
  <2> SUFFICES ASSUME NEW u \in Thread, NEW i \in DOMAIN lines'[u]
               PROVE  /\ i \in DOMAIN lines[u] /\ lines'[u][i] = lines[u][i]
                      /\ ~ (u = t /\ i = last)
    OBVIOUS
  <2>1. CASE u = t
    <3>1. lines'[t] = Front(lines[t])
      BY <1>3 DEF LinesInv, LinesShape
    <3>2. i \in 1 .. last - 1
      BY <1>2, <2>1, <3>1
    <3>3. i \in DOMAIN lines[t] /\ i # last
      BY <1>1, <1>2, <3>2
    <3> QED
      BY <1>2, <2>1, <3>1, <3>2, <3>3
  <2>2. CASE u # t
    BY <1>3, <2>2 DEF LinesInv, LinesShape
  <2> QED
    BY <2>1, <2>2
<1> HIDE DEF line
<1>8. \A s \in Sink : \A k \in DOMAIN output'[s] :
        \/ k \in DOMAIN output[s] /\ output'[s][k] = output[s][k]
        \/ output'[s][k] = line
  BY <1>1, <1>3, <1>4
<1>9. /\ output' \in [Sink -> Seq(Line)]
      /\ \A s \in Sink : Len(output'[s]) \in Nat /\ Len(output'[s]) >= Len(output[s])
  BY <1>1, <1>3, <1>4
<1>10. \A u \in Thread : \/ dying'[u] = dying[u]
                          \/ /\ dying'[u] = <<g_output, Len(output'[g_output])>>
                             /\ flushed[u] = "nothing"
  BY DEF End, Runs, LinesInv, LinesShape, Fatal
<1>11. LinesShape'
  <2>1. lines' \in [Thread -> Seq(Line)]
    BY <1>2, <1>3 DEF LinesInv, LinesShape
  <2>2. dying' \in [Thread -> {none} \cup Sink \X Nat]
    <3>1. <<g_output, Len(output'[g_output])>> \in Sink \X Nat
      BY <1>1, <1>9
    <3> QED
      BY <3>1 DEF End, LinesInv, LinesShape
  <2> QED
    BY <1>3, <1>9, <2>1, <2>2 DEF LinesInv, LinesShape, globals
<1>12. Apart'
  <2>1. \A u \in Thread : \A i \in DOMAIN lines'[u] : lines'[u][i].id \in 1 .. begun'
    BY <1>3, <1>7 DEF LinesInv, Apart
  <2>2. \A s \in Sink : \A k \in DOMAIN output'[s] : output'[s][k].id \in 1 .. begun'
    BY <1>3, <1>4, <1>5, <1>8 DEF LinesInv, Apart
  <2>3. \A u, w \in Thread : \A i \in DOMAIN lines'[u] : \A j \in DOMAIN lines'[w] :
          lines'[u][i].id = lines'[w][j].id => u = w /\ i = j
    BY <1>7 DEF LinesInv, Apart
  <2>4. \A u \in Thread : \A i \in DOMAIN lines'[u] : lines'[u][i].id # old.id
    BY <1>2, <1>7 DEF LinesInv, Apart
  <2> HIDE DEF old, last
  <2>5. \A u \in Thread : \A i \in DOMAIN lines'[u] :
          \A s \in Sink : \A k \in DOMAIN output'[s] : lines'[u][i].id # output'[s][k].id
    BY <1>4, <1>7, <1>8, <2>4 DEF LinesInv, Apart
  <2> QED
    BY <2>1, <2>2, <2>3, <2>5 DEF Apart
<1>13. Texts'
  <2>1. \A u \in Thread : \A i \in DOMAIN lines'[u] :
          lines'[u][i].text = filled(Header \o said'[lines'[u][i].id])
    BY <1>3, <1>7 DEF LinesInv, Texts
  <2> HIDE DEF old, last
  <2>2. \A s \in Sink : \A k \in DOMAIN output'[s] :
          output'[s][k].text = filled(Header \o said'[output'[s][k].id] \o <<lineBreak>>)
    BY <1>3, <1>6, <1>8 DEF LinesInv, Texts, Streamed
  <2> QED
    BY <2>1, <2>2 DEF Texts, Streamed
<1>14. Fatal'
  <2>1. ASSUME NEW u \in Thread, dying'[u] # none
        PROVE  /\ dying'[u][2] <= Len(output'[dying'[u][1]])
               /\ flushed[u] = dying'[u][1] => dying'[u][2] <= safe[flushed[u]]
    <3>1. CASE dying'[u] = dying[u]
      <4>1. dying[u] \in Sink \X Nat /\ dying[u][2] <= Len(output[dying[u][1]])
        BY <2>1, <3>1 DEF LinesInv, LinesShape, Fatal
      <4>2. dying[u][1] \in Sink /\ dying[u][2] \in Nat
        BY <4>1
      <4>3. Len(output[dying[u][1]]) \in Nat
        BY <1>1, <4>2
      <4>4. flushed[u] = dying[u][1] => dying[u][2] <= safe[flushed[u]]
        BY <2>1, <3>1 DEF LinesInv, Fatal, FatalIsFlushed
      <4> QED
        BY <1>9, <3>1, <4>1, <4>2, <4>3, <4>4
    <3>2. CASE dying'[u] = <<g_output, Len(output'[g_output])>> /\ flushed[u] = "nothing"
      <4>1. "nothing" \notin Sink
        BY DEF Sink
      <4> QED
        BY <1>1, <1>9, <3>2, <4>1
    <3> QED
      BY <1>10, <3>1, <3>2
  <2>2. \A u \in Thread : dying'[u] = none => flushed[u] = "nothing"
    BY <1>10 DEF LinesInv, Fatal
  <2>3. ASSUME NEW s \in Sink PROVE safe[s] <= Len(output'[s])
    <3>1. safe[s] \in Nat /\ safe[s] <= Len(output[s]) /\ Len(output[s]) \in Nat
      BY <1>1 DEF LinesInv, LinesShape, Fatal
    <3> QED
      BY <1>9, <3>1
  <2> QED
    BY <1>3, <2>1, <2>2, <2>3 DEF Fatal, FatalIsFlushed
<1> QED
  BY <1>11, <1>12, <1>13, <1>14 DEF LinesInv

\* A step that touches no text keeps what is said of texts.
LEMMA SameTexts ==
  ASSUME Apart, Texts, UNCHANGED <<begun, lines, output, said>>
  PROVE  Apart' /\ Texts'
<1>1. Apart'
  BY DEF Apart
<1>2. Texts'
  BY DEF Texts, Streamed
<1> QED
  BY <1>1, <1>2

\* g_flush() makes all of its sink safe, the fatal line included if it is there,
\* and takes nothing back.
LEMMA FlushKeeps ==
  ASSUME LinesInv, NEW t \in Thread, FlushFatal(t)
  PROVE  LinesInv'
<1>1. /\ safe' = [safe EXCEPT ![g_flush] = Len(output[g_flush])]
      /\ flushed' = [flushed EXCEPT ![t] = g_flush]
      /\ UNCHANGED <<globals, begun, lines, dying, dead, output, said>>
      /\ dying[t] # none /\ ~ dead
  BY DEF FlushFatal, FlushesSink
<1>2. /\ g_flush \in Sink /\ output[g_flush] \in Seq(Line) /\ Len(output[g_flush]) \in Nat
      /\ safe \in [Sink -> Nat] /\ flushed \in [Thread -> {"nothing"} \cup Sink]
  BY DEF LinesInv, LinesShape
<1>3. LinesShape' /\ Apart' /\ Texts'
  <2>1. LinesShape'
    BY <1>1, <1>2 DEF LinesInv, LinesShape, globals
  <2> QED
    BY <1>1, <2>1, SameTexts DEF LinesInv
<1>4. \A s \in Sink : /\ safe'[s] = IF s = g_flush THEN Len(output[s]) ELSE safe[s]
                      /\ safe[s] <= safe'[s] /\ safe'[s] <= Len(output[s])
  BY <1>1, <1>2 DEF LinesInv, Fatal
<1>5. ASSUME NEW u \in Thread, dying[u] # none, flushed'[u] = dying[u][1]
      PROVE  dying[u][2] <= safe'[flushed'[u]]
  <2>1. dying[u][1] \in Sink /\ dying[u][2] \in Nat /\ dying[u][2] <= Len(output[dying[u][1]])
    <3>1. dying[u] \in Sink \X Nat /\ dying[u][2] <= Len(output[dying[u][1]])
      BY <1>5 DEF LinesInv, LinesShape, Fatal
    <3> QED
      BY <3>1
  <2>2. CASE u = t
    <3>1. flushed'[u] = g_flush
      BY <1>1, <1>2, <2>2
    <3> QED
      BY <1>4, <1>5, <2>1, <3>1
  <2>3. CASE u # t
    <3>1. flushed'[u] = flushed[u]
      BY <1>1, <1>2, <2>3
    <3>2. dying[u][2] <= safe[flushed[u]] /\ flushed[u] \in Sink
      BY <1>5, <2>1, <3>1 DEF LinesInv, Fatal, FatalIsFlushed
    <3>3. safe[flushed[u]] \in Nat /\ safe'[flushed[u]] \in Nat
      BY <1>2, <1>3, <3>2 DEF LinesShape
    <3> QED
      BY <1>4, <2>1, <3>1, <3>2, <3>3
  <2> QED
    BY <2>2, <2>3
<1>6. \A u \in Thread : dying[u] = none => flushed'[u] = "nothing"
  BY <1>1, <1>2 DEF LinesInv, Fatal
<1>7. Fatal'
  BY <1>1, <1>4, <1>5, <1>6 DEF LinesInv, Fatal, FatalIsFlushed
<1> QED
  BY <1>3, <1>7 DEF LinesInv

\* abort() comes from a thread that has flushed.
LEMMA AbortKeeps ==
  ASSUME LinesInv, NEW t \in Thread, Abort(t)
  PROVE  LinesInv'
<1>1. /\ UNCHANGED <<globals, begun, lines, dying, flushed, output, safe, said>>
      /\ dying[t] # none /\ flushed[t] # "nothing"
  BY DEF Abort
<1>2. LinesShape' /\ Fatal'
  BY <1>1 DEF LinesInv, LinesShape, Fatal, FatalIsFlushed, globals
<1> QED
  BY <1>1, <1>2, SameTexts DEF LinesInv

\* The setters change only the globals, and only while the process lives.
LEMMA SetKeeps ==
  ASSUME LinesInv, \/ \E level \in 0 .. FATAL + 1 : SetLogLevel(level)
               \/ \E s \in Sink : SetOutput(s) \/ SetFlush(s)
  PROVE  LinesInv'
<1>1. /\ UNCHANGED <<begun, lines, dying, flushed, dead, output, safe, said>> /\ ~ dead
      /\ g_output' \in Sink /\ g_flush' \in Sink
  BY DEF SetLogLevel, SetOutput, SetFlush, LinesInv, LinesShape
<1>2. LinesShape' /\ Fatal'
  BY <1>1 DEF LinesInv, LinesShape, Fatal, FatalIsFlushed
<1> QED
  BY <1>1, <1>2, SameTexts DEF LinesInv

\* Every step keeps the inductive invariant.
LEMMA LinesStep == LinesInv /\ [LogNext]_LogVars => LinesInv'
<1> SUFFICES ASSUME LinesInv, [LogNext]_LogVars PROVE LinesInv'
  OBVIOUS
<1>1. CASE \E t \in Thread : \E level \in 0 .. FATAL : Begin(t, level)
  BY <1>1, BeginKeeps
<1>2. CASE \E t \in Thread : \E p \in Pieces : Stream(t, p)
  BY <1>2, StreamKeeps
<1>3. CASE \E t \in Thread : End(t)
  BY <1>3, EndKeeps
<1>4. CASE \E t \in Thread : FlushFatal(t) \/ Abort(t)
  BY <1>4, FlushKeeps, AbortKeeps
<1>5. CASE \/ \E level \in 0 .. FATAL + 1 : SetLogLevel(level)
           \/ \E s \in Sink : SetOutput(s) \/ SetFlush(s)
  BY <1>5, SetKeeps
<1>6. CASE UNCHANGED LogVars
  <2>1. LinesShape' /\ Fatal'
    BY <1>6 DEF LogVars, globals, LinesInv, LinesShape, Fatal, FatalIsFlushed
  <2> QED
    BY <1>6, <2>1, SameTexts DEF LogVars, LinesInv
<1> QED
  BY <1>1, <1>2, <1>3, <1>4, <1>5, <1>6 DEF LogNext

\* The inductive invariant of Logging holds in every reachable state.
THEOREM LinesInvariance == LogSpec => []LinesInv
  BY LinesInit, LinesStep, PTL DEF LogSpec

-----------------------------------------------------------------------------

\* However the threads and the expressions that log inside others interleave, a
\* line comes out with all that was streamed into it, in order, and nothing else,
\* if it fits; if not it stays inside its buffer and misses its line break only
\* when that is full (Logging::Logging, ~Logging, LogStream's append).
THEOREM LinesAreWholeAlways == LogSpec => []LinesAreWhole
<1>1. ASSUME LinesInv, NEW s \in Sink, NEW line \in Range(output[s])
      PROVE  /\ Fits(Streamed(line)) => line.text = Streamed(line)
             /\ length(line.text) <= SIZE
             /\ Last(line.text) = lineBreak \/ SIZE - length(line.text) < lineBreak.asks
  <2>1. PICK k \in DOMAIN output[s] : line = output[s][k]
    BY DEF Range
  <2>2. line.id \in 1 .. begun /\ line.text = filled(Streamed(line))
    BY <1>1, <2>1 DEF LinesInv, Apart, Texts
  <2> DEFINE x == Header \o said[line.id]
  <2>3. x \in Seq(Piece) /\ lineBreak \in Piece
    <3>1. said[line.id] \in Seq(Piece) /\ Header \in Seq(Piece)
      BY <1>1, <2>2, LoggingAssumption DEF LinesInv, LinesShape
    <3> QED
      BY <3>1, LineBreakIsPiece
  <2> HIDE DEF x
  <2>4. Streamed(line) = x \o <<lineBreak>>
    BY DEF Streamed, x
  <2>5. x \o <<lineBreak>> = Append(x, lineBreak) /\ Append(x, lineBreak) \in Seq(Piece)
    BY <2>3
  <2>6. Streamed(line) \in Seq(Piece) /\ line.text = put(filled(x), lineBreak)
    BY <2>2, <2>3, <2>4, <2>5, FilledAppend
  <2>7. Fits(Streamed(line)) => line.text = Streamed(line)
    BY <2>2, <2>6, FilledFits
  <2>8. length(line.text) <= SIZE
    BY <2>2, <2>6, FilledStaysInside
  <2>9. Last(line.text) = lineBreak \/ SIZE - length(line.text) < lineBreak.asks
    BY <2>3, <2>6, FilledType, LineEnds
  <2> QED
    BY <2>7, <2>8, <2>9
<1>2. LinesInv => LinesAreWhole
  BY <1>1 DEF LinesAreWhole
<1> QED
  BY <1>2, LinesInvariance, PTL

\* The process ends in a thread that has called g_flush() after its fatal line,
\* and in whatever order other threads log and set the sinks meanwhile, a fatal
\* line in the sink its thread flushed has left the process with all that came to
\* that sink before it (~Logging).
THEOREM FatalIsFlushedAlways == LogSpec => []FatalIsFlushed
<1>1. LinesInv => FatalIsFlushed
  BY DEF LinesInv, Fatal
<1> QED
  BY <1>1, LinesInvariance, PTL

-----------------------------------------------------------------------------
(* convert() and convertHex(), one round after the other.                  *)

Magnitude(i) == IF i >= 0 THEN i ELSE -i

\* A division that rounds towards zero divides magnitudes, and leaves a digit.
LEMMA RoundIs ==
  ASSUME NEW i \in Int, NEW d \in Nat \ {0, 1}
  PROVE  /\ quot(i, d) \in Int
         /\ Magnitude(quot(i, d)) = Magnitude(i) \div d
         /\ lsd(i, d) = digitsHex[1 + (Magnitude(i) % d)]
<1>1. ASSUME NEW x \in Nat PROVE x \div d \in Nat /\ x % d \in Nat /\ x = d * (x \div d) + (x % d)
  OBVIOUS
<1>2. CASE i >= 0
  <2>1. i \in Nat /\ quot(i, d) = i \div d /\ Magnitude(i) = i
    BY <1>2 DEF quot, Magnitude
  <2>2. i - d * quot(i, d) = i % d /\ i % d \in Nat /\ i \div d \in Nat
    BY <1>1, <2>1
  <2> QED
    BY <2>1, <2>2 DEF lsd, Magnitude
<1>3. CASE ~ (i >= 0)
  <2>1. -i \in Nat /\ quot(i, d) = -((-i) \div d) /\ Magnitude(i) = -i
    BY <1>3 DEF quot, Magnitude
  <2>2. (-i) \div d \in Nat /\ (-i) % d \in Nat /\ -i = d * ((-i) \div d) + ((-i) % d)
    BY <1>1, <2>1
  <2> DEFINE q == (-i) \div d
             m == (-i) % d
             r == i - d * quot(i, d)
  <2> HIDE DEF q, m
  <2>3. quot(i, d) = -q /\ q \in Nat /\ m \in Nat /\ -i = d * q + m
    BY <2>1, <2>2 DEF q, m
  <2>4. r = -m
    <3>1. d * quot(i, d) = -(d * q) /\ d * q \in Nat
      BY <2>3
    <3> QED
      BY <2>3, <3>1
  <2>5. (IF r >= 0 THEN r ELSE -r) = m
    BY <2>3, <2>4
  <2>6. lsd(i, d) = digitsHex[1 + m]
    BY <2>5 DEF lsd
  <2>7. Magnitude(quot(i, d)) = q
    BY <2>3 DEF Magnitude
  <2> QED
    BY <2>1, <2>3, <2>6, <2>7 DEF q, m
<1> QED
  BY <1>2, <1>3

\* `i' before the first round, and after each.
LEMMA LeftIs ==
  ASSUME NEW i \in Int, NEW d \in Nat \ {0, 1}
  PROVE  /\ left(i, d) \in [0 .. Reserve -> Int]
         /\ left(i, d)[0] = i
         /\ \A n \in 1 .. Reserve : left(i, d)[n] = quot(left(i, d)[n - 1], d)
<1> DEFINE step == [n \in 1 .. Reserve |-> [x \in Int |-> quot(x, d)]]
<1>0. Reserve \in Nat
  BY LogStreamAssumption
<1>1. step \in [1 .. Reserve -> [Int -> Int]]
  BY RoundIs
<1>2. \A n \in 1 .. Reserve : \A x \in Int : step[n][x] = quot(x, d)
  OBVIOUS
<1> HIDE DEF step
<1>3. PICK g \in [0 .. Reserve -> Int] : Recurs(g, Reserve, i, step)
  BY <1>0, <1>1, RecursionExists
<1>4. \A n \in 0 .. Reserve : n # 0 => n \in 1 .. Reserve /\ n - 1 \in 0 .. Reserve
  BY <1>0
<1>5. \A n \in 0 .. Reserve : g[n] = IF n = 0 THEN i ELSE quot(g[n - 1], d)
  BY <1>2, <1>3, <1>4 DEF Recurs
<1> DEFINE h == [n \in 0 .. Reserve |-> IF n = 0 THEN i ELSE quot(g[n - 1], d)]
<1>6. g = h
  BY <1>3, <1>5
<1> DEFINE Is(j) == j = [n \in 0 .. Reserve |-> IF n = 0 THEN i ELSE quot(j[n - 1], d)]
           c == CHOOSE j : Is(j)
<1>7. Is(g)
  BY <1>6
<1>8. left(i, d) = c
  BY DEF left
<1> HIDE DEF Is
<1>9. Is(c)
  BY <1>7, Zenon
<1> HIDE DEF c
<1>10. c = [n \in 0 .. Reserve |-> IF n = 0 THEN i ELSE quot(c[n - 1], d)]
  BY <1>9 DEF Is
<1>11. c[0] = i /\ \A n \in 1 .. Reserve : c[n] = quot(c[n - 1], d)
  <2>1. \A n \in 0 .. Reserve : c[n] = IF n = 0 THEN i ELSE quot(c[n - 1], d)
    BY <1>10
  <2>2. 0 \in 0 .. Reserve /\ \A n \in 1 .. Reserve : n \in 0 .. Reserve /\ n # 0
    BY <1>0
  <2> QED
    BY <2>1, <2>2
<1>12. \A n \in 0 .. Reserve : c[n] = g[n]
  <2>1. c[0] = g[0]
    BY <1>3, <1>11 DEF Recurs
  <2>2. ASSUME NEW n \in 1 .. Reserve, c[n - 1] = g[n - 1] PROVE c[n] = g[n]
    <3>1. n \in 0 .. Reserve /\ n # 0
      BY <1>0
    <3> QED
      BY <1>5, <1>11, <2>2, <3>1
  <2>3. GoOnAlike(c, g, Reserve)
    BY <2>2 DEF GoOnAlike
  <2> QED
    BY <1>0, <2>1, <2>3, RecursionAgrees
<1>13. c \in [0 .. Reserve -> Int]
  <2>1. \A n \in 0 .. Reserve : c[n] \in Int
    BY <1>3, <1>12
  <2>2. c = [n \in 0 .. Reserve |-> c[n]]
    BY <1>10
  <2> QED
    BY <2>1, <2>2
<1> QED
  BY <1>8, <1>11, <1>13

\* A number below d ^ n is used up after at most n rounds: the loop ends, and no
\* earlier than with its last digit.
LEMMA LoopEnds ==
  ASSUME NEW i \in Int, NEW d \in Nat \ {0, 1}, NEW N \in 1 .. Reserve,
         Magnitude(i) < Power(d, N)
  PROVE  \E n \in 1 .. N :
           /\ EndsAfter(left(i, d), n)
           /\ backwards(i, d) = [k \in 1 .. n |-> lsd(left(i, d)[k - 1], d)]
<1> DEFINE j == left(i, d)
           Good == {n \in Nat : n <= N => Magnitude(j[n]) < Power(d, N - n)}
<1>0. Reserve \in Nat /\ N \in Nat
  BY LogStreamAssumption
<1>1. /\ j \in [0 .. Reserve -> Int] /\ j[0] = i
      /\ \A n \in 1 .. Reserve : j[n] = quot(j[n - 1], d)
  BY LeftIs
<1> HIDE DEF j
<1>2. 0 \in Good
  <2>1. N - 0 = N
    BY <1>0
  <2> QED
    BY <1>1, <2>1
<1>3. ASSUME NEW n \in Nat, n \in Good PROVE n + 1 \in Good
  <2>1. SUFFICES ASSUME n + 1 <= N PROVE Magnitude(j[n + 1]) < Power(d, N - (n + 1))
    OBVIOUS
  <2>2. /\ n + 1 \in 1 .. Reserve /\ n \in 0 .. Reserve /\ n + 1 - 1 = n /\ n <= N
        /\ N - (n + 1) \in Nat /\ N - (n + 1) + 1 = N - n
    BY <1>0, <2>1
  <2>3. j[n + 1] = quot(j[n], d) /\ j[n] \in Int
    BY <1>1, <2>2
  <2>4. Magnitude(j[n + 1]) = Magnitude(j[n]) \div d
    BY <2>3, RoundIs
  <2>5. Power(d, N - n) = d * Power(d, N - (n + 1)) /\ Power(d, N - (n + 1)) \in Nat
    BY <2>2, PowerNext, PowerType
  <2>6. Magnitude(j[n]) < Power(d, N - n) /\ Magnitude(j[n]) \in Nat
    BY <1>3, <2>2, <2>3 DEF Magnitude
  <2>7. ASSUME NEW x \in Nat, NEW p \in Nat, x < d * p PROVE x \div d < p
    BY <2>7
  <2> QED
    BY <2>4, <2>5, <2>6, <2>7
<1> DEFINE Zero == {n \in Nat : n >= 1 /\ n <= N /\ j[n] = 0}
<1>4. N \in Zero
  <2>1. N \in Good
    <3> HIDE DEF Good
    <3> QED
      BY <1>0, <1>2, <1>3, NatInd
  <2>2. Magnitude(j[N]) < Power(d, 0) /\ N - N = 0
    BY <1>0, <2>1
  <2>3. Power(d, 0) = 1
    BY PowerZero
  <2>4. j[N] \in Int
    <3>1. N \in 0 .. Reserve
      BY <1>0
    <3> QED
      BY <1>1, <3>1
  <2> QED
    BY <1>0, <2>2, <2>3, <2>4 DEF Magnitude
<1> HIDE DEF Good
<1>5. PICK n \in Zero : \A m \in Zero : n <= m
  <2>1. Zero \subseteq Nat /\ Zero # {}
    BY <1>4
  <2> HIDE DEF Zero
  <2> QED
    BY <2>1, NatMin
<1>6. n \in 1 .. N /\ n \in 1 .. Reserve
  BY <1>0, <1>5
<1>7. EndsAfter(j, n)
  <2>1. ASSUME NEW m \in 1 .. n - 1 PROVE j[m] # 0
    <3>1. m \in Nat /\ m >= 1 /\ m <= N /\ ~ (n <= m)
      BY <1>0, <1>6
    <3> QED
      BY <1>5, <3>1
  <2> QED
    BY <1>5, <2>1 DEF EndsAfter
<1> DEFINE c == CHOOSE m \in 1 .. Reserve : EndsAfter(j, m)
<1>8. c \in 1 .. Reserve /\ EndsAfter(j, c)
  BY <1>6, <1>7
<1>9. c = n
  <2> HIDE DEF c
  <2>1. j[c] = 0 /\ j[n] = 0 /\ c \in Nat /\ n \in Nat /\ c >= 1 /\ n >= 1
    BY <1>0, <1>6, <1>7, <1>8 DEF EndsAfter
  <2>2. ~ (c < n)
    <3>1. c < n => c \in 1 .. n - 1
      BY <2>1
    <3> QED
      BY <1>7, <2>1, <3>1 DEF EndsAfter
  <2>3. ~ (n < c)
    <3>1. n < c => n \in 1 .. c - 1
      BY <2>1
    <3> QED
      BY <1>8, <2>1, <3>1 DEF EndsAfter
  <2> QED
    BY <2>1, <2>2, <2>3
<1>10. backwards(i, d) = [k \in 1 .. c |-> lsd(j[k - 1], d)]
  BY DEF backwards, j
<1> HIDE DEF c
<1> QED
  BY <1>6, <1>7, <1>9, <1>10 DEF j
\* The digits are different characters, none of them a blank, a sign or an x.
LEMMA DigitsDiffer ==
  /\ \A j, k \in 1 .. 16 : digitsHex[j] = digitsHex[k] => j = k
  /\ \A k \in 1 .. 16 : digitsHex[k] # " "
  /\ \A k \in 2 .. 16 : digitsHex[k] # "0"
<1>1. /\ digitsHex[1] = "0" /\ digitsHex[2] = "1" /\ digitsHex[3] = "2" /\ digitsHex[4] = "3"
      /\ digitsHex[5] = "4" /\ digitsHex[6] = "5" /\ digitsHex[7] = "6" /\ digitsHex[8] = "7"
      /\ digitsHex[9] = "8" /\ digitsHex[10] = "9" /\ digitsHex[11] = "A"
      /\ digitsHex[12] = "B" /\ digitsHex[13] = "C" /\ digitsHex[14] = "D"
      /\ digitsHex[15] = "E" /\ digitsHex[16] = "F"
  BY DEF digitsHex
<1> HIDE DEF digitsHex
<1>3. \A k \in 1 .. 16 : \/ k = 1 \/ k = 2 \/ k = 3 \/ k = 4 \/ k = 5 \/ k = 6 \/ k = 7
                         \/ k = 8 \/ k = 9 \/ k = 10 \/ k = 11 \/ k = 12 \/ k = 13
                         \/ k = 14 \/ k = 15 \/ k = 16
  OBVIOUS
<1>4. \A j, k \in 1 .. 16 : digitsHex[j] = digitsHex[k] => j = k
  BY <1>1, <1>3, SMTT(60)
<1>5. \A k \in 1 .. 16 : digitsHex[k] # " "
  BY <1>1, <1>3
<1>6. \A k \in 2 .. 16 : digitsHex[k] # "0"
  BY <1>1, <1>4
<1> QED
  BY <1>4, <1>5, <1>6

DigitsBelow(d) == {digitsHex[k + 1] : k \in 0 .. d - 1}

HexDigit == DigitsBelow(16)

\* value() finds the place of a digit.
LEMMA ValueOf ==
  ASSUME NEW k \in 0 .. 15
  PROVE  digitsHex[k + 1] \in HexDigit /\ value(digitsHex[k + 1]) = k
<1>1. \A m \in 0 .. 15 : digitsHex[m + 1] = digitsHex[k + 1] => m = k
  <2>1. ASSUME NEW m \in 0 .. 15, digitsHex[m + 1] = digitsHex[k + 1] PROVE m = k
    <3>1. m + 1 \in 1 .. 16 /\ k + 1 \in 1 .. 16
      OBVIOUS
    <3>2. m + 1 = k + 1
      BY <2>1, <3>1, DigitsDiffer
    <3> QED
      BY <3>2
  <2> QED
    BY <2>1
<1> QED
  BY <1>1 DEF HexDigit, DigitsBelow, value

\* One digit more.
LEMMA NumeralAppend ==
  ASSUME NEW s \in Seq(HexDigit), NEW c \in HexDigit, NEW d \in Nat
  PROVE  Numeral(Append(s, c), d) = d * Numeral(s, d) + value(c) /\ Numeral(s, d) \in Nat
<1> DEFINE u == [i \in 1 .. Len(s) |-> value(s[i])]
           w == [i \in 1 .. Len(Append(s, c)) |-> value(Append(s, c)[i])]
<1>1. \A x \in HexDigit : value(x) \in Nat
  BY ValueOf DEF HexDigit, DigitsBelow
<1>2. /\ Len(Append(s, c)) = Len(s) + 1 /\ Append(s, c)[Len(s) + 1] = c /\ Len(s) \in Nat
      /\ \A i \in 1 .. Len(s) : Append(s, c)[i] = s[i] /\ s[i] \in HexDigit
  OBVIOUS
<1>3. u \in Seq(Nat) /\ Len(u) = Len(s) /\ \A i \in 1 .. Len(s) : u[i] = value(s[i])
  BY <1>1, <1>2
<1>4. value(c) \in Nat
  BY <1>1
<1>5. w = Append(u, value(c))
  <2> DEFINE z == Append(u, value(c))
  <2>1. /\ z \in Seq(Nat) /\ Len(z) = Len(s) + 1 /\ z[Len(s) + 1] = value(c)
        /\ \A i \in 1 .. Len(s) : z[i] = u[i]
    BY <1>3, <1>4
  <2>2. w = [i \in 1 .. Len(s) + 1 |-> value(Append(s, c)[i])]
    BY <1>2
  <2> HIDE DEF u, z, w
  <2>3. \A i \in 1 .. Len(s) + 1 : z[i] = value(Append(s, c)[i])
    <3>1. \A i \in 1 .. Len(s) + 1 : i = Len(s) + 1 \/ i \in 1 .. Len(s)
      BY <1>2
    <3> QED
      BY <1>2, <1>3, <2>1, <3>1
  <2>4. z = [i \in 1 .. Len(s) + 1 |-> z[i]]
    BY <2>1
  <2>5. z = w
    BY <2>2, <2>3, <2>4
  <2> QED
    BY <2>5 DEF z
<1>6. Numeral(s, d) = Number(u, d) /\ Numeral(Append(s, c), d) = Number(w, d)
  BY DEF Numeral
<1> HIDE DEF u, w
<1> QED
  BY <1>3, <1>4, <1>5, <1>6, NumberAppend, NumberType

\* No digits denote zero.
LEMMA NumeralEmpty ==
  ASSUME NEW d \in Nat
  PROVE  Numeral(<<>>, d) = 0
<1>1. [i \in 1 .. Len(<<>>) |-> value(<<>>[i])] = <<>>
  OBVIOUS
<1> QED
  BY <1>1, NumberEmpty DEF Numeral

\* A first part, longer by one.
LEMMA SubSeqNext ==
  ASSUME NEW S, NEW s \in Seq(S), NEW m \in Nat, m + 1 <= Len(s)
  PROVE  /\ SubSeq(s, 1, m) \in Seq(S)
         /\ SubSeq(s, 1, m + 1) = Append(SubSeq(s, 1, m), s[m + 1])
<1>1. SubSeq(s, 1, m) \in Seq(S) /\ Len(SubSeq(s, 1, m)) = m
  OBVIOUS
<1>2. Append(SubSeq(s, 1, m), s[m + 1])
        = [k \in 1 .. m + 1 |-> IF k = m + 1 THEN s[m + 1] ELSE SubSeq(s, 1, m)[k]]
  BY <1>1
<1>3. SubSeq(s, 1, m + 1) = [k \in 1 .. m + 1 |-> s[k]]
  OBVIOUS
<1>4. \A k \in 1 .. m : SubSeq(s, 1, m)[k] = s[k]
  OBVIOUS
<1> QED
  BY <1>2, <1>3, <1>4

\* What the loop leaves, reversed: the first n - k of n digits denote the number
\* that was left after k rounds, and the first is no zero unless it is the only one.
LEMMA DigitsDenote ==
  ASSUME NEW i \in Int, NEW d \in 2 .. 16, NEW n \in 1 .. Reserve,
         EndsAfter(left(i, d), n),
         backwards(i, d) = [k \in 1 .. n |-> lsd(left(i, d)[k - 1], d)]
  PROVE  /\ backwards(i, d) \in Seq(DigitsBelow(d)) /\ Len(backwards(i, d)) = n
         /\ Reverse(backwards(i, d)) \in Seq(DigitsBelow(d))
         /\ Len(Reverse(backwards(i, d))) = n
         /\ \A k \in 0 .. n :
              Numeral(SubSeq(Reverse(backwards(i, d)), 1, n - k), d) = Magnitude(left(i, d)[k])
         /\ n > 1 => Reverse(backwards(i, d))[1] # "0"
<1> DEFINE j == left(i, d)
           b == backwards(i, d)
           h == Reverse(b)
           D == DigitsBelow(d)
<1>d. D \subseteq HexDigit /\ \A k \in 0 .. d - 1 : digitsHex[k + 1] \in D
  <2>1. \A k \in 0 .. d - 1 : k \in 0 .. 16 - 1
    OBVIOUS
  <2> QED
    BY <2>1, Zenon DEF HexDigit, DigitsBelow
<1>0. n \in Nat /\ Reserve \in Nat /\ d \in Nat \ {0, 1}
  BY LogStreamAssumption
<1>1. /\ j \in [0 .. Reserve -> Int] /\ j[0] = i
      /\ \A k \in 1 .. Reserve : j[k] = quot(j[k - 1], d)
  BY <1>0, LeftIs
<1>2. /\ b = [k \in 1 .. n |-> lsd(j[k - 1], d)]
      /\ j[n] = 0 /\ \A m \in 1 .. n - 1 : j[m] # 0
  BY DEF EndsAfter
<1> HIDE DEF j, b, D
<1>3. ASSUME NEW k \in 0 .. n - 1
      PROVE  /\ j[k] \in Int /\ Magnitude(j[k]) \in Nat
             /\ b[k + 1] = digitsHex[1 + (Magnitude(j[k]) % d)]
             /\ Magnitude(j[k]) % d \in 0 .. d - 1
             /\ Magnitude(j[k + 1]) = Magnitude(j[k]) \div d
             /\ b[k + 1] \in D /\ value(b[k + 1]) = Magnitude(j[k]) % d
  <2>1. /\ k + 1 \in 1 .. n /\ k + 1 - 1 = k /\ k \in 0 .. Reserve /\ k + 1 \in 1 .. Reserve
    BY <1>0
  <2>2. j[k] \in Int /\ j[k + 1] = quot(j[k], d) /\ b[k + 1] = lsd(j[k], d)
    BY <1>1, <1>2, <2>1
  <2>3. /\ b[k + 1] = digitsHex[1 + (Magnitude(j[k]) % d)]
        /\ Magnitude(j[k + 1]) = Magnitude(j[k]) \div d
    BY <1>0, <2>2, RoundIs
  <2>4. Magnitude(j[k]) \in Nat
    BY <2>2 DEF Magnitude
  <2> DEFINE m == Magnitude(j[k]) % d
  <2>5. m \in 0 .. d - 1 /\ m \in 0 .. 15 /\ 1 + m = m + 1
    <3>1. ASSUME NEW x \in Nat, NEW e \in Nat \ {0} PROVE (x % e) \in 0 .. e - 1
      OBVIOUS
    <3>2. m \in 0 .. d - 1
      BY <1>0, <2>4, <3>1
    <3> HIDE DEF m
    <3> QED
      BY <1>0, <3>2
  <2>6. digitsHex[m + 1] \in D /\ value(digitsHex[m + 1]) = m
    BY <1>d, <2>5, ValueOf
  <2> HIDE DEF m
  <2>7. b[k + 1] = digitsHex[m + 1]
    BY <2>3, <2>5 DEF m
  <2> QED
    BY <2>2, <2>3, <2>4, <2>5, <2>6, <2>7 DEF m
<1>4. b \in Seq(D) /\ Len(b) = n
  <2>1. ASSUME NEW k \in 1 .. n PROVE b[k] \in D
    <3>1. k - 1 \in 0 .. n - 1 /\ k - 1 + 1 = k
      BY <1>0
    <3> QED
      BY <1>3, <3>1
  <2> QED
    BY <1>0, <1>2, <2>1
<1>5. /\ h \in Seq(D) /\ Len(h) = n
      /\ \A k \in 1 .. n : h[k] = b[(n - k) + 1]
  <2>1. h = [k \in 1 .. n |-> b[(n - k) + 1]]
    BY <1>4 DEF Reverse
  <2>2. h \in Seq(D) /\ Len(h) = n
    BY <1>4, ReverseIsSeq, ReverseTwice
  <2> QED
    BY <2>1, <2>2
<1> HIDE DEF h
<1> DEFINE Good == {m \in Nat : m <= n =>
                      Numeral(SubSeq(h, 1, m), d) = Magnitude(j[n - m])}
<1>6. 0 \in Good
  <2>1. SubSeq(h, 1, 0) = <<>> /\ n - 0 = n
    BY <1>0, <1>5
  <2>2. Magnitude(0) = 0
    BY DEF Magnitude
  <2> QED
    BY <1>0, <1>2, <2>1, <2>2, NumeralEmpty
<1>7. ASSUME NEW m \in Nat, m \in Good PROVE m + 1 \in Good
  <2>1. SUFFICES ASSUME m + 1 <= n
                 PROVE  Numeral(SubSeq(h, 1, m + 1), d) = Magnitude(j[n - (m + 1)])
    OBVIOUS
  <2> DEFINE k == n - (m + 1)
             s == SubSeq(h, 1, m)
  <2>2. k \in 0 .. n - 1 /\ k + 1 = n - m /\ m + 1 \in 1 .. n /\ (n - (m + 1)) + 1 = k + 1
        /\ m \in 0 .. n /\ m <= n
    BY <1>0, <2>1
  <2>3. SubSeq(h, 1, m + 1) = Append(s, h[m + 1]) /\ s \in Seq(D)
    <3>1. h \in Seq(D) /\ m \in Nat /\ m + 1 <= Len(h)
      BY <1>5, <2>1
    <3> HIDE DEF s
    <3>2. /\ SubSeq(h, 1, m) \in Seq(D)
          /\ SubSeq(h, 1, m + 1) = Append(SubSeq(h, 1, m), h[m + 1])
      BY <3>1, SubSeqNext
    <3> QED
      BY <3>2 DEF s
  <2>4. h[m + 1] = b[k + 1]
    BY <1>5, <2>2
  <2>5. Numeral(s, d) = Magnitude(j[k + 1])
    BY <1>7, <2>2
  <2> HIDE DEF s, k
  <2>6. s \in Seq(HexDigit) /\ b[k + 1] \in HexDigit
    BY <1>d, <1>3, <2>2, <2>3, SeqOfMore
  <2>7. Numeral(Append(s, b[k + 1]), d) = d * Numeral(s, d) + value(b[k + 1])
    BY <1>0, <2>6, NumeralAppend
  <2>8. ASSUME NEW x \in Nat PROVE d * (x \div d) + (x % d) = x
    BY <1>0
  <2>9. Numeral(Append(s, b[k + 1]), d) = Magnitude(j[k])
    BY <1>3, <2>2, <2>5, <2>7, <2>8
  <2> QED
    BY <2>3, <2>4, <2>9 DEF k
<1>8. ASSUME NEW k \in 0 .. n PROVE Numeral(SubSeq(h, 1, n - k), d) = Magnitude(j[k])
  <2>1. n - k \in Nat /\ n - k <= n /\ n - (n - k) = k
    BY <1>0
  <2>2. n - k \in Good
    <3> HIDE DEF Good
    <3> QED
      BY <1>6, <1>7, <2>1, NatInd
  <2> QED
    BY <2>1, <2>2
<1>9. ASSUME n > 1 PROVE h[1] # "0"
  <2> DEFINE x == Magnitude(j[n - 1])
  <2>1. n - 1 \in 0 .. n - 1 /\ n - 1 \in 1 .. n - 1 /\ n - 1 + 1 = n /\ (n - 1) + 1 = n /\ 1 \in 1 .. n
    BY <1>0, <1>9
  <2>2. h[1] = digitsHex[1 + (x % d)] /\ x \in Nat /\ x \div d = Magnitude(j[n])
    BY <1>3, <1>5, <2>1
  <2>3. x # 0
    <3>1. j[n - 1] # 0 /\ j[n - 1] \in Int
      BY <1>2, <1>3, <2>1
    <3> QED
      BY <3>1 DEF Magnitude
  <2>4. Magnitude(j[n]) = 0
    BY <1>2 DEF Magnitude
  <2> HIDE DEF x
  <2>5. x % d = x /\ x <= 15
    <3>1. ASSUME NEW y \in Nat, y \div d = 0 PROVE y < d /\ y % d = y
      <4>1. y = d * (y \div d) + (y % d) /\ (y % d) \in 0 .. d - 1
        BY <1>0
      <4>2. d * (y \div d) = 0
        BY <1>0, <3>1
      <4> QED
        BY <1>0, <4>1, <4>2
    <3> QED
      BY <2>2, <2>4, <3>1
  <2>6. 1 + (x % d) \in 2 .. 16
    BY <2>2, <2>3, <2>5
  <2> QED
    BY <2>2, <2>6, DigitsDiffer
<1> QED
  BY <1>4, <1>5, <1>8, <1>9 DEF h, j, b, D
-----------------------------------------------------------------------------
(* What formatInteger() and operator<<(const void* ) put into the buffer.   *)

\* What a conversion asks for is room for every value.
LEMMA ReserveIsEnough ==
  /\ Reserve \in Nat /\ Reserve >= 4 /\ Bits \in Nat /\ Bits >= 1 /\ kSmallSize \in Nat
  /\ \A v \in Ints : v \in Int /\ Magnitude(v) < Power(10, Reserve - 2)
  /\ \A p \in Pointers : p \in Nat /\ Magnitude(p) = p /\ p < Power(16, Reserve - 3)
<1>1. Reserve \in Nat /\ Reserve >= 4 /\ Bits \in Nat /\ Bits >= 1 /\ kSmallSize \in Nat
  BY LogStreamAssumption
<1>2. /\ Power(2, Bits) <= Power(10, Reserve - 2)
      /\ Pointers \subseteq 0 .. Power(16, Reserve - 3) - 1
  BY LogStreamAssumption
<1> DEFINE a == Power(2, Bits - 1)
           b == Power(2, Bits)
           c == Power(10, Reserve - 2)
           e == Power(16, Reserve - 3)
<1>3. a \in Nat /\ a > 0 /\ b = 2 * a
  <2>1. Bits - 1 \in Nat /\ Bits - 1 + 1 = Bits
    BY <1>1
  <2> QED
    BY <2>1, PowerPositive, PowerNext, PowerType
<1>4. b \in Nat /\ c \in Nat /\ e \in Nat
  <2>1. Reserve - 2 \in Nat /\ Reserve - 3 \in Nat
    BY <1>1
  <2> QED
    BY <1>1, <2>1, PowerType
<1>5. Ints = -a .. b - 1 /\ b <= c /\ Pointers \subseteq 0 .. e - 1
  BY <1>2 DEF Ints
<1> HIDE DEF a, b, c, e
<1>6. \A v \in Ints : v \in Int /\ Magnitude(v) < c
  BY <1>3, <1>4, <1>5 DEF Magnitude
<1>7. \A p \in Pointers : p \in Nat /\ Magnitude(p) = p /\ p < e
  BY <1>4, <1>5 DEF Magnitude
<1> QED
  BY <1>1, <1>6, <1>7 DEF c, e

Decimal == DigitsBelow(10)

\* Decimal digits, hexadecimal digits, characters.
LEMMA DigitsAreDigits ==
  /\ Decimal \subseteq HexDigit /\ HexDigit \subseteq Alphabet
  /\ Decimal = Range(SubSeq(digitsHex, 1, 10))
  /\ \A c \in HexDigit : c # " "
  /\ "x" \in Alphabet /\ "-" \in Alphabet /\ " " \in Alphabet
<1>1. Len(digitsHex) = 16 /\ DOMAIN digitsHex = 1 .. 16
  BY DEF digitsHex
<1>2. Range(digitsHex) = HexDigit
  <2>1. \A k \in 1 .. 16 : k - 1 \in 0 .. 15 /\ k - 1 + 1 = k
    OBVIOUS
  <2>2. \A k \in 0 .. 15 : k + 1 \in 1 .. 16
    OBVIOUS
  <2> QED
    BY <1>1, <2>1, <2>2 DEF Range, HexDigit, DigitsBelow
<1>3. Decimal \subseteq HexDigit
  BY DEF Decimal, HexDigit, DigitsBelow
<1>4. \A c \in HexDigit : c # " "
  <2>1. \A k \in 0 .. 16 - 1 : k + 1 \in 1 .. 16
    OBVIOUS
  <2> QED
    BY <2>1, DigitsDiffer, Zenon DEF HexDigit, DigitsBelow
<1>5. Decimal = Range(SubSeq(digitsHex, 1, 10))
  <2> DEFINE s == SubSeq(digitsHex, 1, 10)
  <2>1. s = [k \in 1 .. 10 |-> digitsHex[k]]
    <3>1. ASSUME NEW t, t \in Seq(HexDigit), Len(t) = 16
          PROVE  SubSeq(t, 1, 10) = [k \in 1 .. 10 |-> t[k]]
      BY <3>1
    <3>2. digitsHex \in Seq(HexDigit)
      <4>1. \A k \in 1 .. 16 : digitsHex[k] \in HexDigit
        BY <1>1, <1>2 DEF Range
      <4>2. digitsHex = [k \in 1 .. 16 |-> digitsHex[k]]
        BY DEF digitsHex
      <4> QED
        BY <4>1, <4>2
    <3> QED
      BY <1>1, <3>1, <3>2
  <2> HIDE DEF s
  <2>2. Range(s) = {digitsHex[k] : k \in 1 .. 10}
    BY <2>1 DEF Range
  <2>3. \A k \in 1 .. 10 : k - 1 \in 0 .. 9 /\ k - 1 + 1 = k
    OBVIOUS
  <2>4. \A k \in 0 .. 9 : k + 1 \in 1 .. 10
    OBVIOUS
  <2>5. Range(s) = Decimal
    BY <2>2, <2>3, <2>4 DEF Decimal, DigitsBelow
  <2> QED
    BY <2>5 DEF s
<1> QED
  BY <1>2, <1>3, <1>4, <1>5 DEF Alphabet

\* Digits hold no blank.
LEMMA NoBlank ==
  ASSUME NEW S \in SUBSET HexDigit, NEW s \in Seq(S)
  PROVE  s \in Seq(Alphabet) /\ " " \notin Range(s)
<1>1. s \in Seq(Alphabet)
  BY DigitsAreDigits, SeqOfMore
<1>2. \A k \in DOMAIN s : s[k] \in HexDigit
  OBVIOUS
<1> QED
  BY <1>1, <1>2, DigitsAreDigits DEF Range

\* convert(): the digits of the magnitude, most significant first, after a sign.
LEMMA ConvertIs ==
  ASSUME NEW v \in Ints
  PROVE  \E h \in Seq(Decimal) :
           /\ Len(h) >= 1 /\ Len(h) <= Reserve - 2
           /\ Numeral(h, 10) = Magnitude(v)
           /\ Len(h) > 1 => h[1] # "0"
           /\ convert(v) = IF v < 0 THEN <<"-">> \o h ELSE h
<1>1. v \in Int /\ Reserve \in Nat /\ Reserve - 2 \in 1 .. Reserve
  BY ReserveIsEnough
<1>2. Magnitude(v) < Power(10, Reserve - 2)
  BY ReserveIsEnough
<1>3. PICK n \in 1 .. Reserve - 2 :
        /\ EndsAfter(left(v, 10), n)
        /\ backwards(v, 10) = [k \in 1 .. n |-> lsd(left(v, 10)[k - 1], 10)]
  BY <1>1, <1>2, LoopEnds
<1>4. n \in 1 .. Reserve /\ 10 - 1 = 9 /\ n \in Nat
  BY <1>1
<1> DEFINE b == backwards(v, 10)
           h == Reverse(b)
           j == left(v, 10)
<1>5. /\ b \in Seq(Decimal) /\ h \in Seq(Decimal) /\ Len(b) = n /\ Len(h) = n
      /\ \A k \in 0 .. n : Numeral(SubSeq(h, 1, n - k), 10) = Magnitude(j[k])
      /\ n > 1 => h[1] # "0"
  <2>1. 10 \in 2 .. 16
    OBVIOUS
  <2> QED
    BY <1>1, <1>3, <1>4, <2>1, DigitsDenote DEF Decimal
<1>6. convert(v) = Reverse(b \o (IF v < 0 THEN <<"-">> ELSE <<>>))
  BY DEF convert
<1>7. j[0] = v
  BY <1>1, LeftIs
<1> HIDE DEF b, h, j
<1>8. Numeral(h, 10) = Magnitude(v)
  <2>1. SubSeq(h, 1, n - 0) = h /\ 0 \in 0 .. n
    BY <1>4, <1>5
  <2> QED
    BY <1>5, <1>7, <2>1
<1>9. convert(v) = IF v < 0 THEN <<"-">> \o h ELSE h
  <2>1. b \in Seq(Alphabet) /\ "-" \in Alphabet
    BY <1>5, DigitsAreDigits, SeqOfMore
  <2>2. b \o <<"-">> = Append(b, "-") /\ b \o <<>> = b
    BY <2>1
  <2>3. Reverse(Append(b, "-")) = <<"-">> \o Reverse(b)
    BY <2>1, ReverseAppend
  <2> QED
    BY <1>6, <2>2, <2>3 DEF h
<1> QED
  BY <1>1, <1>4, <1>5, <1>8, <1>9

\* One element in front.
LEMMA PrependIs ==
  ASSUME NEW S, NEW c \in S, NEW t \in Seq(S)
  PROVE  /\ <<c>> \o t \in Seq(S) /\ Len(<<c>> \o t) = Len(t) + 1
         /\ (<<c>> \o t)[1] = c /\ Tail(<<c>> \o t) = t
         /\ \A k \in 1 .. Len(t) + 1 :
              (<<c>> \o t)[k] = c \/ \E m \in 1 .. Len(t) : (<<c>> \o t)[k] = t[m]
<1> DEFINE o == <<c>>
           s == o \o t
<1>1. o \in Seq(S) /\ Len(o) = 1 /\ o[1] = c
  OBVIOUS
<1> HIDE DEF o
<1>2. /\ s \in Seq(S) /\ Len(s) = 1 + Len(t) /\ Len(t) \in Nat
      /\ \A k \in 1 .. 1 : s[k] = o[k]
      /\ \A k \in 1 .. Len(t) : s[1 + k] = t[k]
  BY <1>1, ElementOfConcat, SMTT(30)
<1> HIDE DEF s
<1>3. s[1] = c /\ \A k \in 1 .. Len(t) : s[k + 1] = t[k]
  BY <1>1, <1>2
<1>4. Tail(s) = t
  <2>1. Tail(s) \in Seq(S) /\ Len(Tail(s)) = Len(t) /\ \A k \in 1 .. Len(t) : Tail(s)[k] = s[k + 1]
    BY <1>2
  <2> QED
    BY <1>3, <2>1, SameSequence
<1>5. ASSUME NEW k \in 1 .. Len(t) + 1
      PROVE  s[k] = c \/ \E m \in 1 .. Len(t) : s[k] = t[m]
  <2>1. k = 1 \/ (k - 1 \in 1 .. Len(t) /\ k - 1 + 1 = k)
    BY <1>2
  <2> QED
    BY <1>3, <2>1
<1> QED
  BY <1>2, <1>3, <1>4, <1>5 DEF s, o

\* The text of an integer fits, is one token, and reads back as the integer.
LEMMA ConvertIsInteger ==
  ASSUME NEW v \in Ints
  PROVE  /\ convert(v) \in Seq(Alphabet) /\ " " \notin Range(convert(v))
         /\ Len(convert(v)) <= Reserve - 1
         /\ IsIntegerOf(convert(v), v)
<1>1. PICK h \in Seq(Decimal) :
        /\ Len(h) >= 1 /\ Len(h) <= Reserve - 2
        /\ Numeral(h, 10) = Magnitude(v)
        /\ Len(h) > 1 => h[1] # "0"
        /\ convert(v) = IF v < 0 THEN <<"-">> \o h ELSE h
  BY ConvertIs
<1>2. v \in Int /\ Reserve \in Nat
  BY ReserveIsEnough
<1>3. h \in Seq(Alphabet) /\ Len(h) \in Nat
  <2>1. h \in Seq(Alphabet)
    BY DigitsAreDigits, NoBlank
  <2> QED
    BY <2>1
<1>9. " " \notin Range(h)
  BY DigitsAreDigits, NoBlank
<1> DEFINE s == <<"-">> \o h
<1>4. /\ s \in Seq(Alphabet) /\ Len(s) = Len(h) + 1 /\ s[1] = "-" /\ Tail(s) = h
      /\ \A k \in 1 .. Len(h) + 1 : s[k] = "-" \/ \E m \in 1 .. Len(h) : s[k] = h[m]
  <2>0. "-" \in Alphabet
    BY DigitsAreDigits
  <2> HIDE DEF s
  <2>1. s = <<"-">> \o h
    BY DEF s
  <2> QED
    BY <1>3, <2>0, <2>1, PrependIs
<1> HIDE DEF s
<1>5. " " \notin Range(s)
  <2>1. DOMAIN s = 1 .. Len(s)
    BY <1>4
  <2>3. DOMAIN h = 1 .. Len(h)
    BY <1>3
  <2>2. "-" # " "
    OBVIOUS
  <2>4. ASSUME NEW k \in DOMAIN s PROVE s[k] # " "
    <3>1. k \in 1 .. Len(h) + 1
      BY <1>4, <2>1
    <3>2. CASE s[k] = "-"
      BY <2>2, <3>2
    <3>3. ASSUME NEW m \in 1 .. Len(h), s[k] = h[m] PROVE s[k] # " "
      <4>1. h[m] \in Range(h)
        BY <2>3 DEF Range
      <4> QED
        BY <1>9, <3>3, <4>1
    <3> QED
      BY <1>4, <3>1, <3>2, <3>3
  <2> QED
    BY <2>4 DEF Range
<1>6. convert(v) = (IF v < 0 THEN s ELSE h)
  BY <1>1 DEF s
<1>7. IsIntegerOf(convert(v), v)
  <2>1. (IF v < 0 THEN Tail(convert(v)) ELSE convert(v)) = h
    BY <1>4, <1>6
  <2>2. v < 0 => convert(v)[1] = "-"
    BY <1>4, <1>6
  <2>3. \A i \in DOMAIN h : h[i] \in Range(SubSeq(digitsHex, 1, 10))
    <3>1. h \in Seq(Decimal)
      OBVIOUS
    <3>2. \A i \in DOMAIN h : h[i] \in Decimal
      BY <3>1
    <3> QED
      BY <3>2, DigitsAreDigits
  <2>4. Numeral(h, 10) = IF v < 0 THEN -v ELSE v
    BY <1>1, <1>2 DEF Magnitude
  <2> QED
    BY <1>1, <2>1, <2>2, <2>3, <2>4 DEF IsIntegerOf
<1>10. Len(s) <= Reserve - 1 /\ Len(h) <= Reserve - 1
  <2>1. Len(h) <= Reserve - 2
    BY <1>1
  <2> QED
    BY <1>2, <1>3, <1>4, <2>1
<1>8. /\ convert(v) \in Seq(Alphabet) /\ " " \notin Range(convert(v))
      /\ Len(convert(v)) <= Reserve - 1
  <2>1. CASE v < 0
    <3>1. convert(v) = s
      BY <1>6, <2>1
    <3> QED
      BY <1>4, <1>5, <1>10, <3>1, Zenon
  <2>2. CASE ~ (v < 0)
    <3>1. convert(v) = h
      BY <1>6, <2>2
    <3> QED
      BY <1>3, <1>9, <1>10, <3>1, Zenon
  <2> QED
    BY <2>1, <2>2
<1> QED
  BY <1>7, <1>8

\* convertHex(): without its last two digits it denotes a 256th.
LEMMA ConvertHexIs ==
  ASSUME NEW p \in Pointers
  PROVE  /\ convertHex(p) \in Seq(HexDigit)
         /\ Len(convertHex(p)) >= 1 /\ Len(convertHex(p)) <= Reserve - 3
         /\ p >= 256 => /\ Len(convertHex(p)) >= 2
                        /\ Numeral(SubSeq(convertHex(p), 1, Len(convertHex(p)) - 2), 16)
                             = p \div 256
<1>1. p \in Int /\ p \in Nat /\ Magnitude(p) = p /\ Reserve \in Nat /\ Reserve - 3 \in 1 .. Reserve
  BY ReserveIsEnough
<1>2. Magnitude(p) < Power(16, Reserve - 3)
  BY ReserveIsEnough
<1>3. PICK n \in 1 .. Reserve - 3 :
        /\ EndsAfter(left(p, 16), n)
        /\ backwards(p, 16) = [k \in 1 .. n |-> lsd(left(p, 16)[k - 1], 16)]
  BY <1>1, <1>2, LoopEnds
<1>4. n \in 1 .. Reserve /\ n \in Nat
  BY <1>1
<1> DEFINE b == backwards(p, 16)
           h == Reverse(b)
           j == left(p, 16)
<1>5. /\ h \in Seq(HexDigit) /\ Len(h) = n
      /\ \A k \in 0 .. n : Numeral(SubSeq(h, 1, n - k), 16) = Magnitude(j[k])
  <2>1. 16 \in 2 .. 16
    OBVIOUS
  <2> QED
    BY <1>1, <1>3, <1>4, <2>1, DigitsDenote DEF HexDigit
<1>6. j[0] = p /\ \A k \in 1 .. Reserve : j[k] = quot(j[k - 1], 16)
  BY <1>1, LeftIs
<1>7. j[n] = 0
  BY <1>3 DEF EndsAfter
<1>8. convertHex(p) = h
  BY DEF convertHex
<1> HIDE DEF b, h, j
<1>9. j[1] = p \div 16 /\ j[1] \in Nat
  <2>1. 1 \in 1 .. Reserve /\ 1 - 1 = 0
    BY <1>1
  <2>2. j[1] = quot(p, 16)
    BY <1>6, <2>1
  <2> QED
    BY <1>1, <2>2 DEF quot
<1>10. ASSUME p >= 256
       PROVE  n >= 2 /\ Numeral(SubSeq(h, 1, n - 2), 16) = p \div 256
  <2>1. n # 1
    BY <1>1, <1>7, <1>9, <1>10
  <2>2. 2 \in 0 .. n /\ 2 \in 1 .. Reserve /\ 2 - 1 = 1 /\ n >= 2
    BY <1>1, <1>4, <2>1
  <2>3. j[2] = quot(j[1], 16)
    BY <1>6, <2>2
  <2>4. j[2] = j[1] \div 16 /\ j[2] \in Nat
    BY <1>9, <2>3 DEF quot
  <2>5. (p \div 16) \div 16 = p \div 256
    BY <1>1
  <2>6. Magnitude(j[2]) = p \div 256
    BY <1>9, <2>4, <2>5 DEF Magnitude
  <2> QED
    BY <1>5, <2>2, <2>6
<1> QED
  BY <1>1, <1>4, <1>5, <1>8, <1>10
-----------------------------------------------------------------------------
(* Cut(), one character after the other.                                   *)

TokenList(A) == [tokens : Seq(Seq(A)), open : Seq(A)]

NoTokens == [tokens |-> <<>>, open |-> <<>>]

CutStep(x, c) ==
  IF c = " " THEN [tokens |-> Append(x.tokens, x.open), open |-> <<>>]
             ELSE [x EXCEPT !.open = Append(@, c)]

Cuts(f, b) ==
  f = [n \in 0 .. Len(b) |->
        IF n = 0 THEN [tokens |-> <<>>, open |-> <<>>]
        ELSE IF b[n] = " "
          THEN [tokens |-> Append(f[n - 1].tokens, f[n - 1].open), open |-> <<>>]
          ELSE [f[n - 1] EXCEPT !.open = Append(@, b[n])]]

\* One character keeps the shape of a division into tokens.
LEMMA CutStepType ==
  ASSUME NEW A, NEW x \in TokenList(A), NEW c \in A
  PROVE  CutStep(x, c) \in TokenList(A)
<1>1. x.tokens \in Seq(Seq(A)) /\ x.open \in Seq(A)
  BY DEF TokenList
<1>2. Append(x.tokens, x.open) \in Seq(Seq(A)) /\ Append(x.open, c) \in Seq(A)
  BY <1>1
<1>3. <<>> \in Seq(A)
  OBVIOUS
<1>4. CASE c = " "
  <2>1. CutStep(x, c) = [tokens |-> Append(x.tokens, x.open), open |-> <<>>]
    BY <1>4 DEF CutStep
  <2> QED
    BY <1>2, <1>3, <2>1 DEF TokenList
<1>5. CASE c # " "
  <2>1. CutStep(x, c) = [x EXCEPT !.open = Append(x.open, c)]
    BY <1>5 DEF CutStep
  <2> QED
    BY <1>2, <2>1 DEF TokenList
<1> QED
  BY <1>4, <1>5

\* Cut(b) is the end of a sequence of divisions, one per character.
LEMMA CutIs ==
  ASSUME NEW A, NEW b \in Seq(A)
  PROVE  \E f \in [0 .. Len(b) -> TokenList(A)] :
           /\ Cut(b) = f[Len(b)]
           /\ f[0] = NoTokens
           /\ \A k \in 1 .. Len(b) : f[k] = CutStep(f[k - 1], b[k])
<1> DEFINE n == Len(b)
           step == [k \in 1 .. n |-> [x \in TokenList(A) |-> CutStep(x, b[k])]]
<1>0. n \in Nat /\ \A k \in 1 .. n : b[k] \in A
  OBVIOUS
<1>1. step \in [1 .. n -> [TokenList(A) -> TokenList(A)]]
  <2>1. \A k \in 1 .. n : \A x \in TokenList(A) : CutStep(x, b[k]) \in TokenList(A)
    BY <1>0, CutStepType
  <2> QED
    BY <2>1
<1>2. \A k \in 1 .. n : \A x \in TokenList(A) : step[k][x] = CutStep(x, b[k])
  OBVIOUS
<1>p. NoTokens \in TokenList(A)
  <2>1. <<>> \in Seq(A) /\ <<>> \in Seq(Seq(A))
    OBVIOUS
  <2> QED
    BY <2>1 DEF NoTokens, TokenList
<1> HIDE DEF step, n
<1>3. PICK g \in [0 .. n -> TokenList(A)] : Recurs(g, n, NoTokens, step)
  BY <1>0, <1>1, <1>p, RecursionExists
<1>4. 0 \in 0 .. n /\ \A k \in 0 .. n : k # 0 => k \in 1 .. n /\ k - 1 \in 0 .. n
  BY <1>0
<1>5. \A k \in 0 .. n : g[k] = IF k = 0 THEN NoTokens ELSE CutStep(g[k - 1], b[k])
  BY <1>2, <1>3, <1>4 DEF Recurs
<1> DEFINE h == [k \in 0 .. n |-> IF k = 0 THEN NoTokens ELSE CutStep(g[k - 1], b[k])]
<1>6. g = h
  BY <1>3, <1>5
<1>7. \A f : Cuts(f, b) <=> f = [k \in 0 .. n |-> IF k = 0 THEN NoTokens ELSE CutStep(f[k - 1], b[k])]
  BY Zenon DEF Cuts, CutStep, NoTokens, n
<1>8. Cuts(g, b)
  BY <1>6, <1>7
<1> DEFINE c == CHOOSE f : f = [k \in 0 .. Len(b) |->
                  IF k = 0 THEN [tokens |-> <<>>, open |-> <<>>]
                  ELSE IF b[k] = " "
                    THEN [tokens |-> Append(f[k - 1].tokens, f[k - 1].open), open |-> <<>>]
                    ELSE [f[k - 1] EXCEPT !.open = Append(@, b[k])]]
<1>9. Cuts(c, b)
  BY <1>8, Zenon DEF Cuts
<1>10. Cut(b) = c[n]
  BY DEF Cut, n
<1> HIDE DEF c
<1>11. c = [k \in 0 .. n |-> IF k = 0 THEN NoTokens ELSE CutStep(c[k - 1], b[k])]
  BY <1>7, <1>9
<1>12. c[0] = NoTokens /\ \A k \in 1 .. n : c[k] = CutStep(c[k - 1], b[k])
  <2>1. \A k \in 0 .. n : c[k] = IF k = 0 THEN NoTokens ELSE CutStep(c[k - 1], b[k])
    BY <1>11
  <2>2. 0 \in 0 .. n /\ \A k \in 1 .. n : k \in 0 .. n /\ k # 0
    BY <1>0
  <2> QED
    BY <2>1, <2>2
<1>13. \A k \in 0 .. n : c[k] = g[k]
  <2>1. c[0] = g[0]
    BY <1>4, <1>5, <1>12
  <2>2. ASSUME NEW k \in 1 .. n, c[k - 1] = g[k - 1] PROVE c[k] = g[k]
    <3>1. k \in 0 .. n /\ k # 0
      BY <1>0
    <3> QED
      BY <1>5, <1>12, <2>2, <3>1
  <2>3. GoOnAlike(c, g, n)
    BY <2>2 DEF GoOnAlike
  <2> QED
    BY <1>0, <2>1, <2>3, RecursionAgrees
<1>14. c \in [0 .. n -> TokenList(A)]
  <2>1. \A k \in 0 .. n : c[k] \in TokenList(A)
    BY <1>3, <1>13
  <2>2. c = [k \in 0 .. n |-> c[k]]
    BY <1>11
  <2> QED
    BY <2>1, <2>2
<1> QED
  BY <1>10, <1>12, <1>14 DEF n

\* Cut(b) has that shape.
LEMMA CutType ==
  ASSUME NEW A, NEW b \in Seq(A)
  PROVE  Cut(b) \in TokenList(A)
<1>1. PICK f \in [0 .. Len(b) -> TokenList(A)] : Cut(b) = f[Len(b)]
  BY CutIs
<1>2. Len(b) \in 0 .. Len(b)
  OBVIOUS
<1> QED
  BY <1>1, <1>2

\* Nothing has no tokens.
LEMMA CutEmpty == Cut(<<>>) = NoTokens
<1>1. <<>> \in Seq({0}) /\ Len(<<>>) = 0
  OBVIOUS
<1>2. PICK f \in [0 .. Len(<<>>) -> TokenList({0})] : Cut(<<>>) = f[Len(<<>>)] /\ f[0] = NoTokens
  BY <1>1, CutIs, ZenonT(40)
<1> QED
  BY <1>1, <1>2

\* One character more.
LEMMA CutAppend ==
  ASSUME NEW A, NEW b \in Seq(A), NEW c \in A
  PROVE  Cut(Append(b, c)) = CutStep(Cut(b), c)
<1> DEFINE n == Len(b)
           longer == Append(b, c)
<1>1. /\ n \in Nat /\ Len(longer) = n + 1 /\ longer \in Seq(A) /\ longer[n + 1] = c
      /\ \A k \in 1 .. n : longer[k] = b[k]
  OBVIOUS
<1> HIDE DEF longer
<1>2. PICK f \in [0 .. n -> TokenList(A)] :
        /\ Cut(b) = f[n] /\ f[0] = NoTokens
        /\ \A k \in 1 .. n : f[k] = CutStep(f[k - 1], b[k])
  BY CutIs
<1>3. PICK g \in [0 .. n + 1 -> TokenList(A)] :
        /\ Cut(longer) = g[n + 1] /\ g[0] = NoTokens
        /\ \A k \in 1 .. n + 1 : g[k] = CutStep(g[k - 1], longer[k])
  <2>1. \E g \in [0 .. Len(longer) -> TokenList(A)] :
          /\ Cut(longer) = g[Len(longer)] /\ g[0] = NoTokens
          /\ \A k \in 1 .. Len(longer) : g[k] = CutStep(g[k - 1], longer[k])
    BY <1>1, CutIs
  <2> QED
    BY <1>1, <2>1
<1>4. f[0] = g[0] /\ GoOnAlike(f, g, n)
  <2>1. f[0] = g[0]
    BY <1>2, <1>3
  <2>2. ASSUME NEW k \in 1 .. n, f[k - 1] = g[k - 1] PROVE f[k] = g[k]
    <3>1. k \in 1 .. n + 1 /\ longer[k] = b[k]
      BY <1>1
    <3> QED
      BY <1>2, <1>3, <2>2, <3>1
  <2> QED
    BY <2>1, <2>2 DEF GoOnAlike
<1>5. f[n] = g[n]
  <2>1. \A k \in 0 .. n : f[k] = g[k]
    BY <1>1, <1>4, RecursionAgrees
  <2> QED
    BY <1>1, <2>1
<1>6. n + 1 \in 1 .. n + 1 /\ n + 1 - 1 = n
  BY <1>1
<1>7. g[n + 1] = CutStep(g[n], c)
  <2>1. g[n + 1] = CutStep(g[n + 1 - 1], longer[n + 1])
    BY <1>3, <1>6
  <2> QED
    BY <1>1, <1>6, <2>1, Zenon
<1> QED
  BY <1>2, <1>3, <1>5, <1>7 DEF longer

\* The same, field by field.
LEMMA CutStepIs ==
  ASSUME NEW t, NEW o, NEW c
  PROVE  CutStep([tokens |-> t, open |-> o], c)
           = IF c = " " THEN [tokens |-> Append(t, o), open |-> <<>>]
                        ELSE [tokens |-> t, open |-> Append(o, c)]
<1> DEFINE x == [tokens |-> t, open |-> o]
<1>1. x.tokens = t /\ x.open = o
  OBVIOUS
<1>2. [x EXCEPT !.open = Append(x.open, c)] = [tokens |-> t, open |-> Append(o, c)]
  OBVIOUS
<1>3. CutStep(x, c) = IF c = " " THEN [tokens |-> Append(x.tokens, x.open), open |-> <<>>]
                                 ELSE [x EXCEPT !.open = Append(x.open, c)]
  BY DEF CutStep
<1> HIDE DEF x
<1>4. CutStep(x, c) = IF c = " " THEN [tokens |-> Append(t, o), open |-> <<>>]
                                 ELSE [tokens |-> t, open |-> Append(o, c)]
  BY <1>1, <1>2, <1>3, Zenon
<1> QED
  BY <1>4 DEF x

\* Appending to the second half.
LEMMA ConcatAppend ==
  ASSUME NEW S, NEW s \in Seq(S), NEW t \in Seq(S), NEW e \in S
  PROVE  s \o t \in Seq(S) /\ s \o Append(t, e) = Append(s \o t, e)
<1>1. <<e>> \in Seq(S) /\ s \o t \in Seq(S)
  OBVIOUS
<1>2. Append(t, e) = t \o <<e>> /\ Append(s \o t, e) = (s \o t) \o <<e>>
  BY <1>1, AppendIsConcat
<1> QED
  BY <1>1, <1>2, ConcatAssoc

BlankFree(w) == " " \notin Range(w)

\* Characters without a blank lengthen the last, open token.
LEMMA CutWord ==
  ASSUME NEW A, NEW b \in Seq(A), NEW w \in Seq(A), BlankFree(w)
  PROVE  Cut(b \o w) = [tokens |-> Cut(b).tokens, open |-> Cut(b).open \o w]
<1> DEFINE x == Cut(b)
           Good == {m \in Nat : m <= Len(w) =>
                     Cut(b \o SubSeq(w, 1, m)) = [tokens |-> x.tokens, open |-> x.open \o SubSeq(w, 1, m)]}
<1>1. x \in TokenList(A) /\ x.tokens \in Seq(Seq(A)) /\ x.open \in Seq(A)
  BY CutType DEF TokenList
<1> HIDE DEF x
<1>2. 0 \in Good
  <2>1. SubSeq(w, 1, 0) = <<>>
    OBVIOUS
  <2>2. b \o <<>> = b /\ x.open \o <<>> = x.open
    BY <1>1
  <2>3. x = [tokens |-> x.tokens, open |-> x.open]
    BY <1>1 DEF TokenList
  <2>4. Cut(b) = x
    BY DEF x
  <2> QED
    BY <2>1, <2>2, <2>3, <2>4
<1>3. ASSUME NEW m \in Nat, m \in Good PROVE m + 1 \in Good
  <2> DEFINE s == SubSeq(w, 1, m)
             e == w[m + 1]
  <2>1. SUFFICES ASSUME m + 1 <= Len(w)
                 PROVE  Cut(b \o SubSeq(w, 1, m + 1))
                          = [tokens |-> x.tokens, open |-> x.open \o SubSeq(w, 1, m + 1)]
    OBVIOUS
  <2>2. s \in Seq(A) /\ SubSeq(w, 1, m + 1) = Append(s, e)
    BY <2>1, SubSeqNext
  <2>3. m + 1 \in 1 .. Len(w) /\ m <= Len(w)
    BY <2>1
  <2>4. e \in A /\ e # " "
    <3>1. e \in Range(w)
      BY <2>3 DEF Range
    <3>2. e \in A
      BY <2>3
    <3> QED
      BY <3>1, <3>2 DEF BlankFree
  <2>5. Cut(b \o s) = [tokens |-> x.tokens, open |-> x.open \o s]
    BY <1>3, <2>3
  <2> HIDE DEF s, e
  <2>10. s \in Seq(A) /\ e \in A
    BY <2>2, <2>4
  <2> HIDE DEF Good
  <2>11. ASSUME NEW y \in Seq(A)
         PROVE  y \o s \in Seq(A) /\ y \o Append(s, e) = Append(y \o s, e)
    BY <2>10, ConcatAppend
  <2>6. b \o s \in Seq(A) /\ b \o Append(s, e) = Append(b \o s, e)
    BY <2>11
  <2>7. x.open \o Append(s, e) = Append(x.open \o s, e)
    BY <1>1, <2>11
  <2>8. Cut(Append(b \o s, e)) = CutStep(Cut(b \o s), e)
    BY <2>4, <2>6, CutAppend
  <2>9. CutStep(Cut(b \o s), e) = [tokens |-> x.tokens, open |-> Append(x.open \o s, e)]
    BY <2>4, <2>5, CutStepIs
  <2> QED
    BY <2>2, <2>6, <2>7, <2>8, <2>9
<1>4. Len(w) \in Good
  <2> HIDE DEF Good
  <2>1. Len(w) \in Nat
    OBVIOUS
  <2> QED
    BY <1>2, <1>3, <2>1, NatInd
<1>5. SubSeq(w, 1, Len(w)) = w /\ Len(w) <= Len(w)
  OBVIOUS
<1> QED
  BY <1>4, <1>5 DEF x

\* A word and its blank are one more token.
LEMMA CutToken ==
  ASSUME NEW A, NEW b \in Seq(A), NEW w \in Seq(A), BlankFree(w), " " \in A,
         Cut(b).open = <<>>
  PROVE  Cut((b \o w) \o <<" ">>) = [tokens |-> Append(Cut(b).tokens, w), open |-> <<>>]
<1>1. b \o w \in Seq(A) /\ (b \o w) \o <<" ">> = Append(b \o w, " ") /\ <<>> \o w = w
  <2>1. b \o w \in Seq(A) /\ <<>> \o w = w
    BY ElementOfConcat, ConcatNothing, Zenon
  <2> QED
    BY <2>1, AppendIsConcat
<1>2. Cut(b \o w) = [tokens |-> Cut(b).tokens, open |-> w]
  BY <1>1, CutWord
<1>3. Cut(Append(b \o w, " ")) = CutStep(Cut(b \o w), " ")
  BY <1>1, CutAppend
<1>4. CutStep(Cut(b \o w), " ") = [tokens |-> Append(Cut(b).tokens, w), open |-> <<>>]
  BY <1>2, CutStepIs
<1> QED
  BY <1>1, <1>3, <1>4
-----------------------------------------------------------------------------
(* The stream.                                                             *)

\* What the history of values taken holds.
Taken == ({"text"} \X Seq(Chars)) \cup ({"int"} \X Ints) \cup ({"pointer"} \X Pointers)

\* The inductive invariant: each value taken left one token behind.
StreamInv == StaysInArray /\ given \in Seq(Taken) /\ ReadsBack

Blank == <<" ">>

\* What a write needs to stay inside, NUL or `0x' included.
LEMMA WriteStays ==
  ASSUME StaysInArray, NEW s \in Seq(Alphabet), NEW len \in 0 .. Len(s), NEW n \in Nat,
         len + 1 <= n, Len(buf) + n <= kSmallSize, addLength(s, len), Reaches(n)
  PROVE  /\ StaysInArray'
         /\ SubSeq(s, 1, len) \in Seq(Alphabet)
         /\ buf' = (buf \o SubSeq(s, 1, len)) \o Blank
<1> DEFINE w == SubSeq(s, 1, len)
<1>1. w \in Seq(Alphabet) /\ Len(w) = len /\ len \in Nat
  OBVIOUS
<1>2. buf' = (buf \o w) \o Blank
  BY DEF addLength, Blank
<1>3. buf \in Seq(Alphabet) /\ top \in 0 .. kSmallSize /\ Len(buf) <= top /\ Len(buf) \in Nat
  BY DEF StaysInArray
<1>4. top' = IF Len(buf) + n > top THEN Len(buf) + n ELSE top
  BY DEF Reaches
<1>5. kSmallSize \in Nat
  BY ReserveIsEnough
<1> HIDE DEF w
<1>6. buf' \in Seq(Alphabet) /\ Len(buf') = Len(buf) + len + 1
  <2>1. buf \o w \in Seq(Alphabet) /\ Len(buf \o w) = Len(buf) + len
    BY <1>1, <1>3, ElementOfConcat
  <2>2. Blank \in Seq(Alphabet) /\ Len(Blank) = 1
    <3>1. " " \in Alphabet
      BY DigitsAreDigits
    <3>2. ASSUME NEW e \in Alphabet PROVE <<e>> \in Seq(Alphabet) /\ Len(<<e>>) = 1
      OBVIOUS
    <3> QED
      BY <3>1, <3>2, Zenon DEF Blank
  <2> DEFINE x == buf \o w
             y == Blank
  <2> HIDE DEF x, y
  <2>3. x \o y \in Seq(Alphabet) /\ Len(x \o y) = Len(x) + Len(y)
    BY <2>1, <2>2, ElementOfConcat DEF x, y
  <2> QED
    BY <1>2, <2>1, <2>2, <2>3 DEF x, y
<1>7. top' \in 0 .. kSmallSize /\ Len(buf') <= top'
  BY <1>1, <1>3, <1>4, <1>5, <1>6
<1> QED
  BY <1>1, <1>2, <1>6, <1>7 DEF StaysInArray, w

\* A sequence and one element more.
LEMMA AppendIs ==
  ASSUME NEW S, NEW s \in Seq(S), NEW e \in S
  PROVE  /\ Len(s) \in Nat /\ DOMAIN s = 1 .. Len(s)
         /\ Append(s, e) \in Seq(S) /\ Len(Append(s, e)) = Len(s) + 1
         /\ DOMAIN Append(s, e) = 1 .. Len(s) + 1
         /\ Append(s, e)[Len(s) + 1] = e
         /\ \A i \in 1 .. Len(s) : Append(s, e)[i] = s[i]
  OBVIOUS

\* The token a value leaves.
LeavesToken(w, x) == ~ HasBlank(x) => BlankFree(w) /\ ReadAs(w, x)

\* A value that leaves one token, which its reader can tell, keeps the rest.
LEMMA TokenKeeps ==
  ASSUME StaysInArray, given \in Seq(Taken), ReadsBack,
         NEW x \in Taken, NEW w \in Seq(Alphabet),
         given' = Append(given, x), buf' = (buf \o w) \o Blank,
         LeavesToken(w, x)
  PROVE  given' \in Seq(Taken) /\ ReadsBack'
<1> DEFINE n == Len(given)
<1>1. /\ n \in Nat /\ given' \in Seq(Taken) /\ Len(given') = n + 1 /\ given'[n + 1] = x
      /\ \A i \in 1 .. n : given'[i] = given[i]
      /\ DOMAIN given = 1 .. n /\ DOMAIN given' = 1 .. n + 1
  BY AppendIs
<1>4. n \in Nat /\ n + 1 \in 1 .. n + 1 /\ \A i \in 1 .. n : i \in 1 .. n + 1
  <2>1. n \in Nat
    BY <1>1
  <2> HIDE DEF n
  <2> QED
    BY <2>1
<1>2. ASSUME \A i \in 1 .. n + 1 : ~ HasBlank(given'[i])
      PROVE  /\ Cut(buf').open = <<>> /\ Len(Cut(buf').tokens) = n + 1
             /\ \A i \in 1 .. n + 1 : ReadAs(Cut(buf').tokens[i], given'[i])
  <2>1. ~ HasBlank(x) /\ \A i \in 1 .. n : ~ HasBlank(given[i])
    <3> HIDE DEF n
    <3> QED
      BY <1>1, <1>2, <1>4, Zenon
  <2> DEFINE ts == Cut(buf).tokens
  <2>2. /\ Cut(buf).open = <<>> /\ Len(ts) = n
        /\ \A i \in 1 .. n : ReadAs(ts[i], given[i])
    BY <1>1, <2>1, Zenon DEF ReadsBack
  <2>3. buf \in Seq(Alphabet) /\ " " \in Alphabet
    BY DigitsAreDigits DEF StaysInArray
  <2>9. BlankFree(w) /\ ReadAs(w, x)
    BY <2>1, Zenon DEF LeavesToken
  <2>4. Cut(buf') = [tokens |-> Append(ts, w), open |-> <<>>]
    BY <2>2, <2>3, <2>9, CutToken, Zenon DEF Blank
  <2>5. ts \in Seq(Seq(Alphabet))
    BY <2>3, CutType DEF TokenList
  <2> HIDE DEF ts
  <2> DEFINE us == Append(ts, w)
  <2>6. /\ Len(us) = n + 1 /\ us[n + 1] = w
        /\ \A i \in 1 .. n : us[i] = ts[i]
    BY <2>2, <2>5, AppendIs
  <2>7. Cut(buf').open = <<>> /\ Cut(buf').tokens = us
    <3>1. ASSUME NEW r, NEW y, NEW z, r = [tokens |-> y, open |-> z]
          PROVE  r.open = z /\ r.tokens = y
      BY <3>1
    <3> QED
      BY <2>4, <3>1
  <2> HIDE DEF us
  <2>8. ASSUME NEW i \in 1 .. n + 1 PROVE ReadAs(us[i], given'[i])
    <3>1. CASE i = n + 1
      <4>1. ReadAs(w, x)
        BY <2>9
      <4> QED
        BY <1>1, <2>6, <3>1, <4>1, Zenon
    <3>2. CASE i # n + 1
      <4>1. i \in 1 .. n
        <5> HIDE DEF n
        <5> QED
          BY <1>4, <3>2
      <4> QED
        BY <1>1, <2>2, <2>6, <4>1, Zenon
    <3> QED
      BY <3>1, <3>2
  <2> QED
    BY <2>6, <2>7, <2>8, Zenon
<1>3. ReadsBack'
  BY <1>1, <1>2, Zenon DEF ReadsBack
<1> QED
  BY <1>1, <1>3

\* Every text fits where the code looked for room, and is a token if it has no blank.
LEMMA TextKeeps ==
  ASSUME StreamInv, NEW t \in Seq(Chars), Len(buf) + (Len(t) + 1) <= kSmallSize,
         addLength(t, Len(t)), Reaches(Len(t) + 1), Takes("text", t)
  PROVE  StreamInv'
<1>1. t \in Seq(Alphabet) /\ Len(t) \in Nat
  <2>1. Chars \subseteq Alphabet
    BY DEF Alphabet
  <2> QED
    BY <2>1, SeqOfMore
<1>2. Len(t) \in 0 .. Len(t) /\ Len(t) + 1 \in Nat /\ Len(t) + 1 <= Len(t) + 1
  BY <1>1
<1>3. SubSeq(t, 1, Len(t)) = t
  BY <1>1
<1>4. StaysInArray /\ given \in Seq(Taken) /\ ReadsBack
  BY DEF StreamInv
<1>5. /\ StaysInArray'
      /\ buf' = (buf \o SubSeq(t, 1, Len(t))) \o Blank
  BY <1>1, <1>2, <1>4, WriteStays
<1> DEFINE x == <<"text", t>>
<1>6. x \in Taken /\ given' = Append(given, x)
  BY DEF Taken, Takes
<1>7. LeavesToken(t, x)
  <2>1. x[1] = "text" /\ x[2] = t
    OBVIOUS
  <2> HIDE DEF x
  <2> QED
    BY <2>1, Zenon DEF HasBlank, BlankFree, ReadAs, LeavesToken
<1> HIDE DEF x
<1>8. given' \in Seq(Taken) /\ ReadsBack'
  BY <1>1, <1>3, <1>4, <1>5, <1>6, <1>7, TokenKeeps
<1> QED
  BY <1>5, <1>8 DEF StreamInv

\* An integer leaves one token that reads back as it.
LEMMA IntegerKeeps ==
  ASSUME StreamInv, NEW v \in Ints, FormatInteger(v)
  PROVE  StreamInv'
<1> DEFINE s == convert(v)
           x == <<"int", v>>
<1>1. /\ s \in Seq(Alphabet) /\ BlankFree(s) /\ Len(s) <= Reserve - 1 /\ IsIntegerOf(s, v)
  BY ConvertIsInteger DEF BlankFree
<1>2. /\ rest >= Reserve /\ addLength(s, Len(s)) /\ Reaches(Len(s) + 1)
      /\ given' = Append(given, x)
  BY DEF FormatInteger, Takes
<1>3. StaysInArray /\ given \in Seq(Taken) /\ ReadsBack
  BY DEF StreamInv
<1>4. x \in Taken
  BY DEF Taken
<1>5. LeavesToken(s, x)
  <2>1. x[1] = "int" /\ x[2] = v
    OBVIOUS
  <2> HIDE DEF x, s
  <2> QED
    BY <1>1, <2>1, Zenon DEF ReadAs, LeavesToken
<1> HIDE DEF s, x
<1>6. Len(buf) \in Nat /\ kSmallSize \in Nat /\ Reserve \in Nat /\ Len(s) \in Nat
  BY <1>1, <1>3, ReserveIsEnough DEF StaysInArray
<1>7. /\ Len(s) \in 0 .. Len(s) /\ Len(s) + 1 \in Nat /\ Len(s) + 1 <= Len(s) + 1
      /\ Len(buf) + (Len(s) + 1) <= kSmallSize
  <2>1. Len(s) <= Reserve - 1 /\ kSmallSize - Len(buf) >= Reserve
    BY <1>1, <1>2 DEF rest
  <2> QED
    BY <1>6, <2>1
<1>8. StaysInArray' /\ buf' = (buf \o SubSeq(s, 1, Len(s))) \o Blank
  BY <1>1, <1>2, <1>3, <1>7, WriteStays
<1>9. SubSeq(s, 1, Len(s)) = s
  BY <1>1, WholePart
<1>10. given' \in Seq(Taken) /\ ReadsBack'
  BY <1>1, <1>2, <1>3, <1>4, <1>5, <1>8, <1>9, TokenKeeps
<1> QED
  BY <1>8, <1>10 DEF StreamInv

\* The length passed to addLength() leaves out the `0x', and with it two digits.
LEMMA PointerKeeps ==
  ASSUME StreamInv, NEW p \in Pointers, FormatPointer(p)
  PROVE  StreamInv'
<1> DEFINE c == convertHex(p)
           s == <<"0", "x">> \o c
           w == SubSeq(s, 1, Len(c))
           x == <<"pointer", p>>
<1>1. /\ c \in Seq(HexDigit) /\ Len(c) >= 1 /\ Len(c) <= Reserve - 3
      /\ p >= 256 => Len(c) >= 2 /\ Numeral(SubSeq(c, 1, Len(c) - 2), 16) = p \div 256
  BY ConvertHexIs
<1>2. /\ rest >= Reserve /\ addLength(s, Len(c)) /\ Reaches(Len(c) + 3)
      /\ given' = Append(given, x)
  BY DEF FormatPointer, Takes
<1>3. StaysInArray /\ given \in Seq(Taken) /\ ReadsBack
  BY DEF StreamInv
<1>4. x \in Taken
  BY DEF Taken
<1> HIDE DEF c
<1>5. /\ Len(buf) \in Nat /\ kSmallSize \in Nat /\ Reserve \in Nat /\ Len(c) \in Nat
      /\ c \in Seq(Alphabet)
  <2>1. buf \in Seq(Alphabet) /\ kSmallSize \in Nat /\ Reserve \in Nat
    BY <1>3, ReserveIsEnough DEF StaysInArray
  <2>2. c \in Seq(Alphabet)
    BY <1>1, DigitsAreDigits, SeqOfMore
  <2> QED
    BY <2>1, <2>2
<1> DEFINE o == <<"0", "x">>
<1>6. o \in Seq(Alphabet) /\ Len(o) = 2
  <2>1. "0" \in Alphabet
    <3>1. 0 \in 0 .. 15 /\ 0 + 1 = 1 /\ digitsHex[1] = "0"
      BY DEF digitsHex
    <3>2. digitsHex[0 + 1] \in HexDigit
      BY <3>1, ValueOf
    <3>3. "0" \in HexDigit
      BY <3>1, <3>2, Zenon
    <3> QED
      BY <3>3, DigitsAreDigits, Zenon
  <2>2. "x" \in Alphabet
    BY DigitsAreDigits
  <2>3. ASSUME NEW e \in Alphabet, NEW f \in Alphabet
        PROVE  <<e, f>> \in Seq(Alphabet) /\ Len(<<e, f>>) = 2
    OBVIOUS
  <2> QED
    BY <2>1, <2>2, <2>3, Zenon
<1>o. o[1] # " " /\ o[2] # " "
  OBVIOUS
<1> HIDE DEF o
<1>7. /\ s \in Seq(Alphabet) /\ Len(s) = Len(c) + 2
      /\ \A k \in 1 .. 2 : s[k] = o[k]
      /\ \A k \in 1 .. Len(c) : s[2 + k] = c[k]
  <2>1. s = o \o c
    BY DEF o
  <2> QED
    BY <1>5, <1>6, <2>1, ElementOfConcat
<1> HIDE DEF s
<1>8. /\ Len(c) \in 0 .. Len(s) /\ Len(c) + 3 \in Nat /\ Len(c) + 1 <= Len(c) + 3
      /\ Len(buf) + (Len(c) + 3) <= kSmallSize
  <2>1. Len(c) <= Reserve - 3 /\ kSmallSize - Len(buf) >= Reserve
    BY <1>1, <1>2 DEF rest
  <2> QED
    BY <1>5, <1>7, <2>1
<1>9. StaysInArray' /\ w \in Seq(Alphabet) /\ buf' = (buf \o w) \o Blank
  BY <1>2, <1>3, <1>7, <1>8, WriteStays
<1>10. Len(w) = Len(c) /\ \A k \in 1 .. Len(c) : w[k] = s[k]
  BY <1>5, <1>7
<1> HIDE DEF w
<1>11. BlankFree(w)
  <2>1. \A k \in 1 .. Len(c) : c[k] # " "
    <3>1. \A k \in 1 .. Len(c) : c[k] \in HexDigit
      BY <1>1
    <3> QED
      BY <3>1, DigitsAreDigits
  <2>2. ASSUME NEW k \in 1 .. Len(c) PROVE w[k] # " "
    <3>1. k = 1 \/ k = 2 \/ (k - 2 \in 1 .. Len(c) /\ 2 + (k - 2) = k)
      BY <1>5
    <3>2. 1 \in 1 .. 2 /\ 2 \in 1 .. 2
      OBVIOUS
    <3>3. w[k] = s[k]
      BY <1>10
    <3>4. CASE k = 1 \/ k = 2
      <4>1. s[k] = o[k] /\ o[k] # " "
        BY <1>7, <1>o, <3>2, <3>4, Zenon
      <4> QED
        BY <3>3, <4>1, Zenon
    <3>5. CASE k - 2 \in 1 .. Len(c) /\ 2 + (k - 2) = k
      <4>1. s[2 + (k - 2)] = c[k - 2] /\ c[k - 2] # " "
        BY <1>7, <2>1, <3>5, Zenon
      <4> QED
        BY <3>3, <3>5, <4>1, Zenon
    <3> QED
      BY <3>1, <3>4, <3>5
  <2>3. DOMAIN w = 1 .. Len(c)
    <3>1. w \in Seq(Alphabet)
      BY <1>9
    <3>2. DOMAIN w = 1 .. Len(w)
      BY <3>1
    <3> QED
      BY <1>10, <3>2, Zenon
  <2> QED
    BY <2>2, <2>3 DEF BlankFree, Range
<1>12. ASSUME p >= 256 PROVE Numeral(SubSeq(w, 3, Len(w)), 16) = p \div 256
  <2>1. Len(c) >= 2 /\ Len(c) - 2 \in Nat
    BY <1>1, <1>5, <1>12
  <2> DEFINE y == SubSeq(w, 2 + 1, Len(c))
             z == SubSeq(c, 0 + 1, Len(c) - 2)
  <2>2. /\ y \in Seq(Alphabet) /\ Len(y) = Len(c) - 2
        /\ \A k \in 1 .. Len(c) - 2 : y[k] = w[2 + k]
    <3>1. w \in Seq(Alphabet) /\ Len(w) = Len(c)
      BY <1>9, <1>10
    <3>2. 2 <= Len(c) /\ Len(c) <= Len(w) /\ 2 \in Nat
      BY <1>5, <2>1, <3>1
    <3> QED
      BY <1>5, <3>1, <3>2, PartOfSequence
  <2>3. /\ z \in Seq(Alphabet) /\ Len(z) = Len(c) - 2
        /\ \A k \in 1 .. Len(c) - 2 : z[k] = c[k]
    <3>1. c \in Seq(Alphabet) /\ Len(c) - 2 \in Nat /\ Len(c) - 2 <= Len(c)
      BY <1>5, <2>1
    <3>2. ASSUME NEW m \in Nat, m <= Len(c)
          PROVE  /\ SubSeq(c, 0 + 1, m) \in Seq(Alphabet) /\ Len(SubSeq(c, 0 + 1, m)) = m
                 /\ \A k \in 1 .. m : SubSeq(c, 0 + 1, m)[k] = c[k]
      BY <3>1, <3>2
    <3> QED
      BY <3>1, <3>2
  <2>4. \A k \in 1 .. Len(c) - 2 : 2 + k \in 1 .. Len(c) /\ k \in 1 .. Len(c)
    BY <1>5, <2>1
  <2> HIDE DEF y, z
  <2>5. \A k \in 1 .. Len(c) - 2 : y[k] = z[k]
    BY <1>7, <1>10, <2>2, <2>3, <2>4, Zenon
  <2>6. y = z
    BY <2>2, <2>3, <2>5, SameSequence
  <2>7. SubSeq(w, 3, Len(w)) = y /\ SubSeq(c, 1, Len(c) - 2) = z
    BY <1>10 DEF y, z
  <2>8. Numeral(SubSeq(c, 1, Len(c) - 2), 16) = p \div 256
    BY <1>1, <1>12
  <2> QED
    BY <2>6, <2>7, <2>8, Zenon
<1>13. LeavesToken(w, x)
  <2>1. x[1] = "pointer" /\ x[2] = p
    OBVIOUS
  <2> HIDE DEF x
  <2> QED
    BY <1>11, <1>12, <2>1, Zenon DEF ReadAs, LeavesToken
<1> HIDE DEF x
<1>14. given' \in Seq(Taken) /\ ReadsBack'
  BY <1>2, <1>3, <1>4, <1>9, <1>11, <1>13, TokenKeeps
<1> QED
  BY <1>9, <1>14 DEF StreamInv

\* An empty stream holds no tokens.
LEMMA StreamStarts == StreamInit => StreamInv
<1> SUFFICES ASSUME StreamInit PROVE StreamInv
  OBVIOUS
<1>1. buf = <<>> /\ top = 0 /\ given = <<>>
  BY DEF StreamInit
<1>2. StaysInArray
  BY <1>1, ReserveIsEnough DEF StaysInArray
<1>3. given \in Seq(Taken) /\ DOMAIN given = {} /\ Len(given) = 0
  BY <1>1
<1>4. Cut(buf).open = <<>> /\ Len(Cut(buf).tokens) = 0
  BY <1>1, CutEmpty DEF NoTokens
<1>5. ReadsBack
  BY <1>3, <1>4 DEF ReadsBack
<1> QED
  BY <1>2, <1>3, <1>5 DEF StreamInv

\* Every step keeps the inductive invariant.
LEMMA StreamStep == StreamInv /\ [StreamNext]_StreamVars => StreamInv'
<1> SUFFICES ASSUME StreamInv, [StreamNext]_StreamVars PROVE StreamInv'
  OBVIOUS
<1>0. /\ Len(buf) \in Nat /\ kSmallSize \in Nat /\ Reserve \in Nat
      /\ \A t \in Strings \cup Doubles : t \in Seq(Chars) /\ Len(t) \in Nat
  BY ReserveIsEnough, LogStreamAssumption DEF StreamInv, StaysInArray
<1>1. ASSUME NEW t \in Strings, AppendText(t) PROVE StreamInv'
  <2>1. Len(buf) + (Len(t) + 1) <= kSmallSize
    <3>1. kSmallSize - Len(buf) > Len(t)
      BY <1>1 DEF AppendText, fits, rest
    <3> QED
      BY <1>0, <3>1
  <2> QED
    BY <1>0, <1>1, <2>1, TextKeeps DEF AppendText
<1>2. ASSUME NEW v \in Ints, FormatInteger(v) PROVE StreamInv'
  BY <1>2, IntegerKeeps
<1>3. ASSUME NEW t \in Doubles, FormatDouble(t) PROVE StreamInv'
  <2>1. Len(buf) + (Len(t) + 1) <= kSmallSize
    <3>1. kSmallSize - Len(buf) >= Reserve
      BY <1>3 DEF FormatDouble, rest
    <3>2. Len(t) < Reserve
      BY LogStreamAssumption
    <3> QED
      BY <1>0, <3>1, <3>2
  <2> QED
    BY <1>0, <1>3, <2>1, TextKeeps DEF FormatDouble
<1>4. ASSUME NEW p \in Pointers, FormatPointer(p) PROVE StreamInv'
  BY <1>4, PointerKeeps
<1>5. CASE UNCHANGED StreamVars
  <2>1. buf' = buf /\ top' = top /\ given' = given
    BY <1>5 DEF StreamVars
  <2>2. StaysInArray' /\ (given \in Seq(Taken))'
    BY <2>1 DEF StreamInv, StaysInArray
  <2>3. ReadsBack'
    BY <2>1, Zenon DEF StreamInv, ReadsBack
  <2> QED
    BY <2>2, <2>3 DEF StreamInv
<1>6. CASE Drop
  BY <1>5, <1>6 DEF Drop
<1> QED
  BY <1>1, <1>2, <1>3, <1>4, <1>5, <1>6 DEF StreamNext

\* The inductive invariant holds in every reachable state.
THEOREM StreamInvariance == StreamSpec => []StreamInv
<1>1. StreamInit => StreamInv
  BY StreamStarts
<1>2. StreamInv /\ [StreamNext]_StreamVars => StreamInv'
  BY StreamStep
<1> QED
  BY <1>1, <1>2, PTL DEF StreamSpec

\* No write of the stream, of a conversion's NUL or of the blank passes the end
\* of the array, whatever its size and the width of the integers.
THEOREM StreamStaysInArray == StreamSpec => []StaysInArray
<1>1. StreamInv => StaysInArray
  BY DEF StreamInv
<1> QED
  BY <1>1, StreamInvariance, PTL

\* What the stream took can be read back from the buffer, in order and exactly.
THEOREM StreamReadsBack == StreamSpec => []ReadsBack
<1>1. StreamInv => ReadsBack
  BY DEF StreamInv
<1> QED
  BY <1>1, StreamInvariance, PTL

=============================================================================
