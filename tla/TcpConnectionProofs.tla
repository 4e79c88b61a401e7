------------------------- MODULE TcpConnectionProofs -------------------------
(***************************************************************************)
(* Theorems about module TcpConnection, for every number and length of     *)
(* messages.                                                               *)
(***************************************************************************)
EXTENDS TcpConnection, SharedLemmas

\* What send() leaves of a message while the high-water callback runs.
Rest == {r \in Seq(Byte) : r # <<>> /\ \A i \in DOMAIN r : r[i][1] = r[1][1]}

Shape ==
  /\ state \in {"CONNECTED", "DISCONNECTED"}
  /\ events \subseteq Event /\ interest \subseteq Event
  /\ out \in Seq(Byte) /\ wire \in Seq(Byte)
  /\ stack \in Seq(Rest)
  /\ lens \in Seq(1 .. MaxLen)
  /\ pc \in {"new", "poll", "polled", "handle", "user", "closing", "destroying"}

\* Epoll watches for WRITE only while output is pending, and is told of every
\* change of the mask as long as the connection is up.
Watched ==
  /\ pc = "new" => out = <<>> /\ events = {} /\ stack = <<>> /\ state = "DISCONNECTED"
  /\ pc \in {"closing", "destroying"} => state = "DISCONNECTED"
  /\ "WRITE" \in interest => out # <<>>
  /\ hasWrite => out # <<>>
  /\ life = "alive" /\ state = "CONNECTED" =>
       interest = events /\ "READ" \in events /\ (out # <<>> => hasWrite)

\* A connection that no one else holds does not come back to the loop after its
\* end was reported.
Ended ==
  /\ reports \in Nat
  /\ (life \in {"gone", "undefined"} \/ pc \in {"closing", "destroying"}) => reports > 0
  /\ ~ held =>
       /\ reports <= 1
       /\ reports > 0 => life # "alive" \/ pc \in {"closing", "destroying"}

Inv == Shape /\ Watched /\ Ended

-----------------------------------------------------------------------------

LEMMA InitInv == Init => Inv
  BY DEF Init, Inv, Shape, Watched, Ended, hasWrite, Event

\* A rest goes to the output buffer, and WRITE into the mask.
LEMMA AppendRestKeeps ==
  ASSUME Shape, Watched, NEW rest \in Rest, AppendRest(rest), UNCHANGED <<state, life>>
  PROVE  /\ out' \in Seq(Byte) /\ out' # <<>>
         /\ events' \subseteq Event /\ interest' \subseteq Event
         /\ life = "alive" /\ state = "CONNECTED" =>
              interest' = events' /\ "READ" \in events' /\ hasWrite'
<1>1. out' = out \o rest /\ out \in Seq(Byte) /\ rest \in Seq(Byte) /\ rest # <<>>
  BY DEF AppendRest, Shape, Rest
<1>2. out' \in Seq(Byte) /\ out' # <<>>
  BY <1>1
<1>3. CASE hasWrite /\ UNCHANGED channel
  BY <1>2, <1>3 DEF channel, hasWrite, Shape, Watched
<1>4. CASE events' = events \cup {"WRITE"} /\ interest' = events \cup {"WRITE"}
  BY <1>2, <1>4 DEF hasWrite, Shape, Watched, Event
<1> QED
  BY <1>3, <1>4 DEF AppendRest, update, updateChannel

\* The bytes of a message and what is left of it after a short write.
LEMMA MessageFacts ==
  ASSUME NEW m \in 1 .. MaxSends, NEW n \in 1 .. MaxLen
  PROVE  /\ Message(m, n) \in Seq(Byte) /\ Len(Message(m, n)) = n
         /\ \A k \in 1 .. n - 1 : SubSeq(Message(m, n), k + 1, n) \in Rest
<1> DEFINE msg == Message(m, n)
<1>1. msg = [i \in 1 .. n |-> <<m, i>>] /\ n \in Nat /\ n >= 1
  BY TcpConnectionAssumption DEF Message
<1>2. \A i \in 1 .. n : <<m, i>> \in Byte
  BY TcpConnectionAssumption DEF Byte
<1>3. msg \in Seq(Byte) /\ Len(msg) = n /\ \A i \in 1 .. n : msg[i] = <<m, i>>
  BY <1>1, <1>2
<1> HIDE DEF msg
<1>4. ASSUME NEW k \in 1 .. n - 1 PROVE SubSeq(msg, k + 1, n) \in Rest
  <2> DEFINE r == SubSeq(msg, k + 1, n)
  <2>1. r \in Seq(Byte) /\ Len(r) = n - k /\ \A i \in 1 .. n - k : r[i] = msg[i + k]
    <3>1. k \in 0 .. Len(msg) /\ Len(msg) = n
      BY <1>1, <1>3
    <3> QED
      BY <1>3, <3>1, RestPart
  <2>2. \A i \in 1 .. n - k : i + k \in 1 .. n /\ n - k >= 1
    BY <1>1
  <2> HIDE DEF r
  <2>3. \A i \in 1 .. n - k : r[i] = <<m, i + k>>
    BY <1>3, <2>1, <2>2
  <2>4. DOMAIN r = 1 .. n - k /\ 1 \in 1 .. n - k /\ r # <<>>
    BY <1>1, <2>1
  <2>5. \A i \in DOMAIN r : r[i][1] = m
    BY <2>3, <2>4
  <2>6. r \in Rest
    BY <2>1, <2>4, <2>5 DEF Rest
  <2> QED
    BY <2>6 DEF r
<1> QED
  BY <1>3, <1>4 DEF msg

\* What a call of send() comes to.
LEMMA SendCases ==
  ASSUME Shape, NEW n \in 1 .. MaxLen, Send(n)
  PROVE  LET m   == Len(lens) + 1
             msg == Message(m, n)
         IN  /\ m \in 1 .. MaxSends /\ lens' = Append(lens, n)
             /\ life = "alive" /\ pc \in {"user", "closing", "destroying"}
             /\ \/ /\ UNCHANGED <<channel, out, stack, wire>>
                   /\ life' \in {life, "killed"}
                \/ /\ out = <<>>
                   /\ \E k \in 0 .. n :
                        /\ wire' = wire \o SubSeq(msg, 1, k)
                        /\ \/ k \in {0, n} /\ UNCHANGED <<channel, out, stack, life>>
                           \/ /\ k \in 1 .. n - 1 /\ AppendRest(SubSeq(msg, k + 1, n))
                              /\ UNCHANGED <<stack, life>>
                           \/ /\ k \in 1 .. n - 1
                              /\ stack' = Append(stack, SubSeq(msg, k + 1, n))
                              /\ UNCHANGED <<channel, out, life>>
                           \/ life' = "killed" /\ UNCHANGED <<channel, out, stack>>
<1> DEFINE m == Len(lens) + 1
           msg == Message(m, n)
<1>1. m \in 1 .. MaxSends
  BY TcpConnectionAssumption DEF Send, Shape
<1>2. Len(msg) = n
  BY <1>1, MessageFacts
<1>3. CASE SendIdle /\ peer \in {"open", "fin"}
           /\ \E k \in 0 .. n :
                /\ wire' = wire \o SubSeq(msg, 1, k)
                /\ IF k \in {0, n} THEN UNCHANGED <<channel, out, stack, life>>
                   ELSE Queue(SubSeq(msg, k + 1, n))
  <2>1. PICK k \in 0 .. n :
          /\ wire' = wire \o SubSeq(msg, 1, k)
          /\ IF k \in {0, n} THEN UNCHANGED <<channel, out, stack, life>>
             ELSE Queue(SubSeq(msg, k + 1, n))
    BY <1>3
  <2>2. k \in {0, n} \/ k \in 1 .. n - 1
    BY TcpConnectionAssumption
  <2> QED
    BY <1>1, <1>3, <2>1, <2>2 DEF Send, InCallback, SendIdle, Queue
<1>4. CASE UNCHANGED <<channel, out, stack, wire>> /\ life' \in {life, "killed"}
  BY <1>1, <1>4 DEF Send, InCallback
<1>5. \/ SendIdle /\ peer \in {"open", "fin"}
         /\ \E k \in 0 .. n :
                /\ wire' = wire \o SubSeq(msg, 1, k)
                /\ IF k \in {0, n} THEN UNCHANGED <<channel, out, stack, life>>
                   ELSE Queue(SubSeq(msg, k + 1, n))
      \/ UNCHANGED <<channel, out, stack, wire>> /\ life' \in {life, "killed"}
  BY <1>2 DEF Send
<1> QED
  BY <1>3, <1>4, <1>5

LEMMA SendKeeps ==
  ASSUME Inv, NEW n \in 1 .. MaxLen, Send(n)
  PROVE  Inv'
<1> DEFINE m == Len(lens) + 1
           msg == Message(m, n)
<1>1. /\ m \in 1 .. MaxSends /\ lens' = Append(lens, n)
      /\ life = "alive" /\ pc \in {"user", "closing", "destroying"}
      /\ \/ /\ UNCHANGED <<channel, out, stack, wire>>
            /\ life' \in {life, "killed"}
         \/ /\ out = <<>>
            /\ \E k \in 0 .. n :
                 /\ wire' = wire \o SubSeq(msg, 1, k)
                 /\ \/ k \in {0, n} /\ UNCHANGED <<channel, out, stack, life>>
                    \/ /\ k \in 1 .. n - 1 /\ AppendRest(SubSeq(msg, k + 1, n))
                       /\ UNCHANGED <<stack, life>>
                    \/ /\ k \in 1 .. n - 1
                       /\ stack' = Append(stack, SubSeq(msg, k + 1, n))
                       /\ UNCHANGED <<channel, out, life>>
                    \/ life' = "killed" /\ UNCHANGED <<channel, out, stack>>
  BY SendCases DEF Inv
<1>2. UNCHANGED <<state, todo, pc, held, reports>>
  BY DEF Send, user
<1>3. lens' \in Seq(1 .. MaxLen)
  BY <1>1 DEF Inv, Shape
<1>4. msg \in Seq(Byte) /\ Len(msg) = n /\ \A k \in 1 .. n - 1 : SubSeq(msg, k + 1, n) \in Rest
  BY <1>1, MessageFacts
<1> HIDE DEF msg
<1>5. wire' \in Seq(Byte)
  <2>1. CASE UNCHANGED wire
    BY <2>1 DEF Inv, Shape
  <2>2. ASSUME NEW k \in 0 .. n, wire' = wire \o SubSeq(msg, 1, k)
        PROVE  wire' \in Seq(Byte)
    <3>1. SubSeq(msg, 1, k) \in Seq(Byte)
      BY <1>4, FirstPart
    <3>2. wire \in Seq(Byte)
      BY DEF Inv, Shape
    <3> QED
      BY <2>2, <3>1, <3>2
  <2> QED
    BY <1>1, <2>1, <2>2
<1>6. CASE UNCHANGED <<channel, out, stack>> /\ life' \in {life, "killed"}
  BY <1>1, <1>2, <1>3, <1>5, <1>6
     DEF channel, Inv, Shape, Watched, Ended, hasWrite
<1>7. ASSUME NEW k \in 1 .. n - 1, AppendRest(SubSeq(msg, k + 1, n)), UNCHANGED <<stack, life>>
      PROVE  Inv'
  <2> DEFINE rest == SubSeq(msg, k + 1, n)
  <2>1. rest \in Rest
    BY <1>4
  <2> HIDE DEF rest
  <2>2. AppendRest(rest)
    BY <1>7 DEF rest
  <2>3. /\ out' \in Seq(Byte) /\ out' # <<>>
        /\ events' \subseteq Event /\ interest' \subseteq Event
        /\ life = "alive" /\ state = "CONNECTED" =>
              interest' = events' /\ "READ" \in events' /\ hasWrite'
    BY <1>2, <1>7, <2>1, <2>2, AppendRestKeeps DEF Inv
  <2> QED
    BY <1>1, <1>2, <1>3, <1>5, <1>7, <2>3 DEF Inv, Shape, Watched, Ended
<1>8. ASSUME NEW k \in 1 .. n - 1, stack' = Append(stack, SubSeq(msg, k + 1, n)),
             UNCHANGED <<channel, out, life>>
      PROVE  Inv'
  <2>1. stack' \in Seq(Rest)
    <3> DEFINE rest == SubSeq(msg, k + 1, n)
    <3>1. rest \in Rest /\ stack \in Seq(Rest) /\ stack' = Append(stack, rest)
      BY <1>4, <1>8 DEF Inv, Shape
    <3> HIDE DEF rest
    <3> QED
      BY <3>1
  <2> QED
    BY <1>1, <1>2, <1>3, <1>5, <1>8, <2>1
       DEF channel, Inv, Shape, Watched, Ended, hasWrite
<1> QED
  BY <1>1, <1>6, <1>7, <1>8

\* A high-water callback returns: the rest it has held up is appended.
LEMMA HighWaterKeeps ==
  ASSUME Inv, HighWaterReturns
  PROVE  Inv'
<1>1. /\ life = "alive" /\ stack # <<>> /\ stack' = Front(stack) /\ AppendRest(Last(stack))
      /\ UNCHANGED <<state, todo, pc, life, held, wire, lens, reports>>
  BY DEF HighWaterReturns, user, network, history, sends
<1>2. Front(stack) \in Seq(Rest) /\ Last(stack) \in Rest
  BY <1>1, FrontAndLast DEF Inv, Shape
<1>3. /\ out' \in Seq(Byte) /\ out' # <<>>
      /\ events' \subseteq Event /\ interest' \subseteq Event
      /\ life = "alive" /\ state = "CONNECTED" =>
              interest' = events' /\ "READ" \in events' /\ hasWrite'
  BY <1>1, <1>2, AppendRestKeeps DEF Inv
<1> QED
  BY <1>1, <1>2, <1>3 DEF Inv, Shape, Watched, Ended

\* Steps that leave the buffers and what epoll knows alone.
Quiet ==
  \/ Poll \/ Return \/ HandleClose \/ HandleRead \/ EndClose \/ Destory
  \/ EndDestory \/ Release \/ PeerSends \/ PeerCloses \/ PeerResets

LEMMA QuietSteps ==
  ASSUME Inv, Quiet
  PROVE  /\ UNCHANGED <<out, wire, stack, lens, nested, held>>
         /\ interest' \subseteq interest /\ events' \subseteq events
         /\ pc' # "new" \/ pc' = pc
  BY DEF Quiet, Poll, Return, HandleClose, HandleRead, EndClose, Destory, EndDestory, Release,
         PeerSends, PeerCloses, PeerResets, Disconnect, disableAll, channel, network, history,
         sends, user, Finish

LEMMA QuietKeeps ==
  ASSUME Inv, Quiet
  PROVE  Inv'
<1>1. /\ UNCHANGED <<out, wire, stack, lens, held>>
      /\ interest' \subseteq interest /\ events' \subseteq events
      /\ pc' # "new" \/ pc' = pc
  BY QuietSteps
<1>2. /\ pc' \in {"new", "poll", "polled", "handle", "user", "closing", "destroying"}
      /\ state' \in {state, "DISCONNECTED"}
      /\ pc' \in {"closing", "destroying"} => pc' = pc \/ state' = "DISCONNECTED"
  BY DEF Quiet, Poll, Return, HandleClose, HandleRead, EndClose, Destory, EndDestory, Release,
         PeerSends, PeerCloses, PeerResets, Disconnect, Finish, Inv, Shape
<1>6. /\ state' = "CONNECTED" => UNCHANGED <<state, events, interest>>
      /\ life' = "alive" => life = "alive"
  BY DEF Quiet, Poll, Return, HandleClose, HandleRead, Serving, EndClose, Destory, EndDestory,
         Release, PeerSends, PeerCloses, PeerResets, Disconnect, channel, Inv, Watched
<1>7. Shape'
  BY <1>1, <1>2 DEF Inv, Shape
<1>8. Watched'
  BY <1>1, <1>2, <1>6 DEF Inv, Watched, hasWrite
<1>9. Ended'
  <2>1. CASE HandleClose \/ HandleRead \/ Destory
    BY <2>1 DEF HandleClose, HandleRead, Destory, Serving, Disconnect, Finish, user, Inv, Ended
  <2>2. CASE EndClose \/ EndDestory \/ Release
    BY <2>2 DEF EndClose, CloseDestroys, EndDestory, Release, Finish, user, history, Inv, Ended
  <2>3. CASE Poll \/ Return \/ PeerSends \/ PeerCloses \/ PeerResets
    BY <2>3 DEF Poll, Return, PeerSends, PeerCloses, PeerResets, user, history, Inv, Ended
  <2> QED
    BY <2>1, <2>2, <2>3 DEF Quiet
<1> QED
  BY <1>7, <1>8, <1>9 DEF Inv

LEMMA EstablishedKeeps ==
  ASSUME Inv, Established
  PROVE  Inv'
<1>1. /\ life = "alive" /\ pc = "new" /\ events' = {"READ"} /\ interest' = {"READ"}
      /\ state' = "CONNECTED" /\ pc' = "user"
      /\ UNCHANGED <<out, wire, todo, stack, life, held, lens, reports>>
  BY DEF Established, update, updateChannel, Inv, Watched, user, network, history, sends
<1> QED
  BY <1>1 DEF Inv, Shape, Watched, Ended, hasWrite, Event

\* The output buffer is drained, in part or to its end.
LEMMA WriteCases ==
  ASSUME Inv, HandleWrite
  PROVE  /\ life = "alive" /\ pc \in {"polled", "handle"} /\ todo' = {}
         /\ UNCHANGED <<state, stack, lens, nested, held, reports>> /\ pc' \in {"poll", "user"}
         /\ \/ UNCHANGED <<channel, out, wire>> /\ life' \in {life, "killed"}
            \/ /\ UNCHANGED life
               /\ \E k \in 1 .. Len(out) :
                    /\ wire' = wire \o SubSeq(out, 1, k)
                    /\ out' = SubSeq(out, k + 1, Len(out))
                    /\ IF out' = <<>>
                         THEN events' = events \ {"WRITE"} /\ interest' = events \ {"WRITE"}
                         ELSE UNCHANGED channel
  BY DEF HandleWrite, Serving, update, updateChannel, user, history, sends

LEMMA WriteKeeps ==
  ASSUME Inv, HandleWrite
  PROVE  Inv'
<1>1. /\ life = "alive" /\ pc \in {"polled", "handle"} /\ todo' = {}
      /\ UNCHANGED <<state, stack, lens, held, reports>> /\ pc' \in {"poll", "user"}
      /\ \/ UNCHANGED <<channel, out, wire>> /\ life' \in {life, "killed"}
         \/ /\ UNCHANGED life
            /\ \E k \in 1 .. Len(out) :
                 /\ wire' = wire \o SubSeq(out, 1, k)
                 /\ out' = SubSeq(out, k + 1, Len(out))
                 /\ IF out' = <<>>
                      THEN events' = events \ {"WRITE"} /\ interest' = events \ {"WRITE"}
                      ELSE UNCHANGED channel
  BY WriteCases
<1>2. CASE UNCHANGED <<channel, out, wire>> /\ life' \in {life, "killed"}
  BY <1>1, <1>2 DEF channel, Inv, Shape, Watched, Ended, hasWrite
<1>3. ASSUME UNCHANGED life, NEW k \in 1 .. Len(out),
             wire' = wire \o SubSeq(out, 1, k),
             out' = SubSeq(out, k + 1, Len(out)),
             IF out' = <<>> THEN events' = events \ {"WRITE"} /\ interest' = events \ {"WRITE"}
                            ELSE UNCHANGED channel
      PROVE  Inv'
  <2>1. out \in Seq(Byte) /\ wire \in Seq(Byte) /\ k \in 0 .. Len(out)
    BY DEF Inv, Shape
  <2>2. SubSeq(out, 1, k) \in Seq(Byte) /\ SubSeq(out, k + 1, Len(out)) \in Seq(Byte)
    BY <2>1, SplitAt
  <2>3. out' \in Seq(Byte) /\ wire' \in Seq(Byte)
    BY <1>3, <2>1, <2>2
  <2>4. out # <<>>
    BY <2>1
  <2>5. /\ events' \subseteq Event /\ interest' \subseteq Event
        /\ out' # <<>> => UNCHANGED <<events, interest>>
        /\ out' = <<>> => events' = events \ {"WRITE"} /\ interest' = events'
    BY <1>3 DEF channel, Inv, Shape
  <2>6. Shape'
    BY <1>1, <2>3, <2>5 DEF Inv, Shape
  <2>7. Watched'
    BY <1>1, <1>3, <2>5 DEF Inv, Watched, hasWrite
  <2> QED
    BY <1>1, <1>3, <2>6, <2>7 DEF Inv, Ended
<1> QED
  BY <1>1, <1>2, <1>3

LEMMA StepInv == Inv /\ [Next]_vars => Inv'
<1> SUFFICES ASSUME Inv, [Next]_vars PROVE Inv'
  OBVIOUS
<1>1. CASE \E n \in 1 .. MaxLen : Send(n)
  BY <1>1, SendKeeps
<1>2. CASE Quiet
  BY <1>2, QuietKeeps
<1>3. CASE UNCHANGED vars
  BY <1>3 DEF vars, channel, user, network, history, sends, Inv, Shape, Watched,
              Ended, hasWrite
<1> QED
  BY <1>1, <1>2, <1>3, HighWaterKeeps, EstablishedKeeps, WriteKeeps DEF Next, LoopStep, Quiet

LEMMA Invariance == Spec => []Inv
  BY InitInv, StepInv, PTL DEF Spec

\* While connected, epoll watches for WRITE exactly while output is pending, and
\* has been told of every change of the mask (TcpConnection::send, handleWrite).
THEOREM WriteInterestAlways == Spec => []WriteInterest
<1>1. Inv => WriteInterest
  BY DEF Inv, Watched, WriteInterest
<1> QED
  BY <1>1, Invariance, PTL

\* No connection ends unreported, and none that user code does not keep is
\* reported twice (TcpConnection::handleClose, destory, Channel::handleEvent).
THEOREM EndIsReportedOnceAlways == Spec => []EndIsReportedOnce
<1>1. Inv => EndIsReportedOnce
  BY DEF Inv, Ended, EndIsReportedOnce
<1> QED
  BY <1>1, Invariance, PTL

-----------------------------------------------------------------------------
(* The bytes and their order.                                              *)

\* A byte may come before another.
Orders(N) == {bc \in Byte \X Byte :
                Before(bc[1], bc[2]) \/ <<bc[2][1], bc[1][1]>> \in N}

\* Bytes s of messages of lengths L, all of each or nothing, in order but for
\* the pairs N of a message and one sent in its high-water callback.
Faithful(s, N, L) ==
  /\ s \in Seq(Byte)
  /\ SortedBy(s, Orders(N))
  /\ \A b \in Range(s) : b[1] \in 1 .. Len(L)
  /\ \A b \in Range(s) : \A i \in 1 .. L[b[1]] : <<b[1], i>> \in Range(s)

Waits == FlattenSeq(Reverse(stack))

KeptFaithful == life # "killed" => Faithful(Kept, nested, lens)

\* More pairs, or one more message that sends no byte, change nothing.
LEMMA FaithfulGrows ==
  ASSUME NEW L \in Seq(1 .. MaxLen), NEW n \in 1 .. MaxLen, NEW N, NEW N2, N \subseteq N2,
         NEW s, Faithful(s, N, L)
  PROVE  Faithful(s, N2, Append(L, n))
<1>1. SortedBy(s, Orders(N2))
  BY DEF Faithful, SortedBy, Orders
<1>2. /\ Len(Append(L, n)) = Len(L) + 1 /\ Len(L) \in Nat
      /\ \A m \in 1 .. Len(L) : Append(L, n)[m] = L[m]
  OBVIOUS
<1>3. \A b \in Range(s) : b[1] \in 1 .. Len(Append(L, n))
  <2>1. \A m \in 1 .. Len(L) : m \in 1 .. Len(L) + 1
    BY <1>2
  <2> QED
    BY <1>2, <2>1 DEF Faithful
<1>4. \A b \in Range(s) : \A i \in 1 .. Append(L, n)[b[1]] : <<b[1], i>> \in Range(s)
  BY <1>2 DEF Faithful
<1> QED
  BY <1>1, <1>3, <1>4 DEF Faithful

\* The elements of a message, which are in order.
LEMMA MessageIsSorted ==
  ASSUME NEW m \in 1 .. MaxSends, NEW n \in 1 .. MaxLen, NEW N
  PROVE  /\ Range(Message(m, n)) = {<<m, i>> : i \in 1 .. n}
         /\ SortedBy(Message(m, n), Orders(N))
<1>1. \A i \in 1 .. n : <<m, i>> \in Byte
  BY TcpConnectionAssumption DEF Byte
<1>2. Range(Message(m, n)) = {<<m, i>> : i \in 1 .. n}
  BY DEF Message, Range
<1>3. \A i, j \in 1 .. n : i < j => << <<m, i>>, <<m, j>> >> \in Orders(N)
  BY <1>1 DEF Orders, Before
<1>4. SortedBy(Message(m, n), Orders(N))
  BY <1>3 DEF SortedBy, Message
<1> QED
  BY <1>2, <1>4

\* A new message goes between what is on the wire and the rests that wait.
LEMMA NewMessage ==
  ASSUME NEW L \in Seq(1 .. MaxLen), NEW n \in 1 .. MaxLen,
         NEW N, NEW N2, N \subseteq N2, NEW x \in Seq(Byte), NEW y \in Seq(Byte),
         Len(L) + 1 \in 1 .. MaxSends, Faithful(x \o y, N, L),
         \A b \in Range(y) : <<b[1], Len(L) + 1>> \in N2
  PROVE  Faithful((x \o Message(Len(L) + 1, n)) \o y, N2, Append(L, n))
<1> DEFINE m == Len(L) + 1
           msg == Message(m, n)
           R == Orders(N2)
           s == (x \o msg) \o y
           L2 == Append(L, n)
<1>1. /\ Len(L2) = m /\ L2[m] = n /\ Len(L) \in Nat /\ \A j \in 1 .. Len(L) : L2[j] = L[j]
      /\ \A j \in 1 .. Len(L) : j \in 1 .. m /\ j < m
  OBVIOUS
<1>2. msg \in Seq(Byte) /\ Range(msg) = {<<m, i>> : i \in 1 .. n} /\ SortedBy(msg, R)
  BY MessageFacts, MessageIsSorted
<1>3. /\ Range(x \o y) = Range(x) \cup Range(y)
      /\ \A b \in Range(x) \cup Range(y) : b \in Byte /\ b[1] \in 1 .. Len(L)
  <2>1. Range(x \o y) = Range(x) \cup Range(y)
    BY RangeOfConcat
  <2>2. \A b \in Range(x) \cup Range(y) : b \in Byte
    BY DEF Range
  <2> QED
    BY <2>1, <2>2 DEF Faithful
<1>4. SortedBy(x \o y, R)
  BY DEF Faithful, SortedBy, Orders
<1>5. /\ SortedBy(x, R) /\ SortedBy(y, R)
      /\ \A a \in Range(x), b \in Range(y) : <<a, b>> \in R
  BY <1>4, SortedConcat
<1> HIDE DEF m, msg
<1>6. \A i \in 1 .. n : <<m, i>> \in Byte
  <2>1. m \in 1 .. MaxSends
    BY DEF m
  <2> QED
    BY <2>1, TcpConnectionAssumption DEF Byte
<1>7. \A a \in Range(x), b \in Range(msg) : <<a, b>> \in R
  BY <1>1, <1>2, <1>3, <1>6 DEF Orders, Before, m
<1>8. \A a \in Range(msg), b \in Range(y) : <<a, b>> \in R
  BY <1>2, <1>3, <1>6 DEF Orders, m
<1> HIDE DEF R
<1>9. x \o msg \in Seq(Byte) /\ s \in Seq(Byte)
  BY <1>2
<1>10. Range(x \o msg) = Range(x) \cup Range(msg) /\ SortedBy(x \o msg, R)
  BY <1>2, <1>5, <1>7, RangeOfConcat, SortedConcat
<1>11. Range(s) = Range(x) \cup Range(msg) \cup Range(y) /\ SortedBy(s, R)
  <2> DEFINE z == x \o msg
  <2>1. z \in Seq(Byte) /\ Range(z) = Range(x) \cup Range(msg) /\ SortedBy(z, R)
    BY <1>9, <1>10
  <2> HIDE DEF z
  <2>2. Range(z \o y) = Range(z) \cup Range(y) /\ SortedBy(z \o y, R)
    BY <1>5, <1>8, <2>1, <1>10, RangeOfConcat, SortedConcat
  <2> QED
    BY <2>1, <2>2 DEF z
<1> HIDE DEF s, L2
<1>12. ASSUME NEW b \in Range(s)
       PROVE  b[1] \in 1 .. Len(L2) /\ \A i \in 1 .. L2[b[1]] : <<b[1], i>> \in Range(s)
  <2>1. CASE b \in Range(msg)
    <3>1. b[1] = m /\ m \in 1 .. m
      BY <1>2, <2>1, <1>1 DEF m
    <3> QED
      BY <1>1, <1>2, <1>11, <3>1
  <2>2. CASE b \in Range(x) \cup Range(y)
    <3>1. b[1] \in 1 .. Len(L) /\ b \in Range(x \o y)
      BY <1>3, <2>2
    <3>2. \A i \in 1 .. L[b[1]] : <<b[1], i>> \in Range(x \o y)
      BY <3>1 DEF Faithful
    <3> QED
      BY <1>1, <1>3, <1>11, <3>1, <3>2
  <2> QED
    BY <1>11, <2>1, <2>2
<1>13. Faithful(s, N2, L2)
  BY <1>9, <1>11, <1>12 DEF Faithful, R, s
<1> QED
  BY <1>13 DEF s, L2, msg, m

\* The rests are sequences of bytes, each of a message whose number comes with
\* the first byte of one of them.
LEMMA WaitsAre ==
  ASSUME NEW st \in Seq(Rest)
  PROVE  /\ FlattenSeq(Reverse(st)) \in Seq(Byte)
         /\ \A b \in Range(FlattenSeq(Reverse(st))) :
              \E r \in Range(st) : r[1][1] = b[1]
<1> DEFINE Pending == {b \in Byte : \E r \in Range(st) : r[1][1] = b[1]}
           F == FlattenSeq(Reverse(st))
<1>1. ASSUME NEW r \in Range(st) PROVE r \in Seq(Pending)
  <2>1. r \in Rest
    BY DEF Range
  <2>2. r \in Seq(Byte) /\ \A i \in DOMAIN r : r[i][1] = r[1][1]
    BY <2>1 DEF Rest
  <2>3. \A i \in 1 .. Len(r) : r[i] \in Pending
    BY <2>2
  <2> HIDE DEF Pending
  <2> QED
    BY <2>2, <2>3
<1>2. st \in Seq(Seq(Pending))
  <2>1. \A i \in 1 .. Len(st) : st[i] \in Seq(Pending)
    BY <1>1 DEF Range
  <2> HIDE DEF Pending
  <2> QED
    BY <2>1
<1> HIDE DEF Pending
<1>3. Reverse(st) \in Seq(Seq(Pending))
  BY <1>2, ReverseIsSeq
<1>4. F \in Seq(Pending)
  BY <1>3, FlattenType
<1> HIDE DEF F
<1>5. \A b \in Range(F) : b \in Pending
  BY <1>4 DEF Range
<1>6. F \in Seq(Byte)
  <2>1. Pending \subseteq Byte
    BY DEF Pending
  <2> QED
    BY <1>4, <2>1
<1> QED
  BY <1>5, <1>6 DEF F, Pending

\* The newest rest comes first.
LEMMA WaitsGrows ==
  ASSUME NEW st \in Seq(Rest), NEW r \in Rest
  PROVE  FlattenSeq(Reverse(Append(st, r))) = r \o FlattenSeq(Reverse(st))
<1>1. r \in Seq(Byte) /\ st \in Seq(Seq(Byte))
  <2>1. Rest \subseteq Seq(Byte)
    BY DEF Rest
  <2> QED
    BY <2>1
<1>2. Reverse(Append(st, r)) = <<r>> \o Reverse(st) /\ Reverse(st) \in Seq(Seq(Byte))
  BY <1>1, ReverseAppend
<1>3. <<r>> \in Seq(Seq(Byte))
  BY <1>1
<1>4. FlattenSeq(<<r>> \o Reverse(st)) = FlattenSeq(<<r>>) \o FlattenSeq(Reverse(st))
  BY <1>2, <1>3, FlattenConcat
<1>5. FlattenSeq(<<r>>) = r
  BY <1>1, FlattenOne
<1> QED
  BY <1>2, <1>4, <1>5

\* Concatenation of bytes.
LEMMA BytesConcat ==
  ASSUME NEW a \in Seq(Byte), NEW b \in Seq(Byte)
  PROVE  a \o b \in Seq(Byte)
  OBVIOUS

LEMMA BytesAssoc ==
  ASSUME NEW a \in Seq(Byte), NEW b \in Seq(Byte), NEW c \in Seq(Byte)
  PROVE  (a \o b) \o c = a \o (b \o c)
  BY ConcatAssoc

LEMMA KeptIs ==
  ASSUME Shape
  PROVE  /\ Waits \in Seq(Byte) /\ wire \in Seq(Byte) /\ out \in Seq(Byte)
         /\ Kept \in Seq(Byte) /\ Kept = (wire \o out) \o Waits
         /\ out = <<>> => Kept = wire \o Waits
<1>1. Waits \in Seq(Byte) /\ wire \in Seq(Byte) /\ out \in Seq(Byte)
  BY WaitsAre DEF Shape, Waits
<1>2. Kept = (wire \o out) \o Waits
  BY DEF Kept, Waits
<1> HIDE DEF Waits
<1>3. Kept \in Seq(Byte)
  BY <1>1, <1>2, BytesConcat
<1>4. wire \o <<>> = wire
  BY <1>1
<1> QED
  BY <1>1, <1>2, <1>3, <1>4

\* The steps that take bytes from one place to the next keep them.
LEMMA QuietKept ==
  ASSUME Inv, Quiet
  PROVE  Kept' = Kept /\ UNCHANGED <<nested, lens>>
  BY QuietSteps DEF Kept

LEMMA WriteKept ==
  ASSUME Inv, HandleWrite
  PROVE  Kept' = Kept /\ UNCHANGED <<nested, lens>>
<1>1. /\ UNCHANGED <<stack, nested, lens>>
      /\ \/ UNCHANGED <<out, wire>>
         \/ \E k \in 1 .. Len(out) : /\ wire' = wire \o SubSeq(out, 1, k)
                                     /\ out' = SubSeq(out, k + 1, Len(out))
  BY WriteCases
<1>2. ASSUME NEW k \in 1 .. Len(out), wire' = wire \o SubSeq(out, 1, k),
             out' = SubSeq(out, k + 1, Len(out))
      PROVE  wire' \o out' = wire \o out
  <2>1. out \in Seq(Byte) /\ wire \in Seq(Byte) /\ k \in 0 .. Len(out)
    BY DEF Inv, Shape
  <2> DEFINE a == SubSeq(out, 1, k)
             b == SubSeq(out, k + 1, Len(out))
  <2>2. a \in Seq(Byte) /\ b \in Seq(Byte) /\ out = a \o b
    BY <2>1, SplitAt
  <2>3. wire' = wire \o a /\ out' = b
    BY <1>2
  <2> HIDE DEF a, b
  <2>4. (wire \o a) \o b = wire \o (a \o b)
    BY <2>1, <2>2, BytesAssoc
  <2> QED
    BY <2>2, <2>3, <2>4
<1>3. wire' \o out' = wire \o out
  BY <1>1, <1>2
<1> QED
  BY <1>1, <1>3 DEF Kept

LEMMA HighWaterKept ==
  ASSUME Inv, HighWaterReturns
  PROVE  Kept' = Kept /\ UNCHANGED <<nested, lens>>
<1> DEFINE f == Front(stack)
           l == Last(stack)
           w == FlattenSeq(Reverse(f))
<1>1. /\ stack # <<>> /\ stack' = f /\ out' = out \o l /\ UNCHANGED <<wire, nested, lens>>
  BY DEF HighWaterReturns, AppendRest, network, history, sends
<1>2. f \in Seq(Rest) /\ l \in Rest /\ stack = Append(f, l)
  BY <1>1, FrontAndLast DEF Inv, Shape
<1> HIDE DEF f, l
<1>3. Waits = l \o w
  BY <1>2, WaitsGrows DEF Waits
<1>4. l \in Seq(Byte) /\ w \in Seq(Byte) /\ wire \in Seq(Byte) /\ out \in Seq(Byte)
  BY <1>2, WaitsAre, KeptIs DEF Inv, Rest
<1>5. Kept' = (wire \o (out \o l)) \o w
  BY <1>1 DEF Kept
<1>6. Kept = (wire \o out) \o (l \o w)
  BY <1>3, KeptIs DEF Inv
<1> HIDE DEF w
<1>7. (wire \o out) \o l = wire \o (out \o l) /\ wire \o out \in Seq(Byte)
  BY <1>4, BytesAssoc, BytesConcat
<1> DEFINE x == wire \o out
<1>8. x \in Seq(Byte)
  BY <1>7
<1> HIDE DEF x
<1>9. (x \o l) \o w = x \o (l \o w)
  BY <1>4, <1>8, BytesAssoc
<1> QED
  BY <1>1, <1>5, <1>6, <1>7, <1>9 DEF x

\* A call of send() that meets an idle socket, and the bytes it keeps.
LEMMA DirectSend ==
  ASSUME Inv, NEW n \in 1 .. MaxLen, Send(n), life' # "killed",
         ~ UNCHANGED <<out, stack, wire>>
  PROVE  /\ Kept = wire \o Waits
         /\ \/ Kept' = Kept
            \/ Kept' = (wire \o Message(Len(lens) + 1, n)) \o Waits
<1> DEFINE m == Len(lens) + 1
           msg == Message(m, n)
<1>1. /\ m \in 1 .. MaxSends /\ out = <<>>
      /\ \E k \in 0 .. n :
           /\ wire' = wire \o SubSeq(msg, 1, k)
           /\ \/ k \in {0, n} /\ UNCHANGED <<out, stack>>
              \/ /\ k \in 1 .. n - 1 /\ out' = out \o SubSeq(msg, k + 1, n)
                 /\ UNCHANGED stack
              \/ /\ k \in 1 .. n - 1
                 /\ stack' = Append(stack, SubSeq(msg, k + 1, n))
                 /\ UNCHANGED out
  BY SendCases DEF Inv, AppendRest
<1>2. msg \in Seq(Byte) /\ Len(msg) = n /\ \A k \in 1 .. n - 1 : SubSeq(msg, k + 1, n) \in Rest
  BY <1>1, MessageFacts
<1>3. PICK k \in 0 .. n :
           /\ wire' = wire \o SubSeq(msg, 1, k)
           /\ \/ k \in {0, n} /\ UNCHANGED <<out, stack>>
              \/ /\ k \in 1 .. n - 1 /\ out' = out \o SubSeq(msg, k + 1, n)
                 /\ UNCHANGED stack
              \/ /\ k \in 1 .. n - 1
                 /\ stack' = Append(stack, SubSeq(msg, k + 1, n))
                 /\ UNCHANGED out
  BY <1>1
<1> HIDE DEF msg
<1> DEFINE p == SubSeq(msg, 1, k)
           r == SubSeq(msg, k + 1, n)
<1>4. Waits \in Seq(Byte) /\ wire \in Seq(Byte) /\ Kept = wire \o Waits
  BY <1>1, KeptIs DEF Inv
<1>5. p \in Seq(Byte) /\ r \in Seq(Byte) /\ msg = p \o r
  BY <1>2, SplitAt
<1>6. CASE k \in {0, n} /\ UNCHANGED <<out, stack>>
  <2>1. Kept' = (wire' \o <<>>) \o Waits
    BY <1>1, <1>6 DEF Kept, Waits
  <2>2. wire' \in Seq(Byte) /\ wire' = wire \o p
    BY <1>3, <1>4, <1>5, BytesConcat
  <2>3. wire' \o <<>> = wire'
    BY <2>2
  <2>4. p = msg \/ p = <<>>
    <3>1. CASE k = n
      BY <1>2, <3>1, WholePart
    <3>2. CASE k = 0
      BY <1>2, <3>2
    <3> QED
      BY <1>6, <3>1, <3>2
  <2>5. wire \o <<>> = wire
    BY <1>4
  <2> QED
    BY <1>4, <2>1, <2>2, <2>3, <2>4, <2>5 DEF msg
<1>7. (wire \o p) \o r = wire \o msg /\ wire \o p \in Seq(Byte)
  <2> HIDE DEF p, r
  <2> QED
    BY <1>4, <1>5, BytesAssoc, BytesConcat
<1>8. CASE k \in 1 .. n - 1 /\ out' = out \o r /\ UNCHANGED stack
  <2>1. <<>> \o r = r
    <3> HIDE DEF r
    <3> QED
      BY <1>5
  <2>2. Kept' = ((wire \o p) \o r) \o Waits
    BY <1>1, <1>3, <1>8, <2>1 DEF Kept, Waits
  <2> QED
    BY <1>4, <1>7, <2>2 DEF msg
<1>9. CASE k \in 1 .. n - 1 /\ stack' = Append(stack, r) /\ UNCHANGED out
  <2>1. stack \in Seq(Rest) /\ r \in Rest
    BY <1>2, <1>9 DEF Inv, Shape
  <2> HIDE DEF r
  <2>2. Waits' = r \o Waits
    BY <1>9, <2>1, WaitsGrows DEF Waits
  <2> DEFINE x == wire \o p
  <2>3. x \in Seq(Byte) /\ r \in Seq(Byte) /\ Waits \in Seq(Byte)
    BY <1>4, <1>5, <1>7
  <2>4. wire' = x
    BY <1>3
  <2> HIDE DEF x
  <2>5. x \o <<>> = x
    BY <2>3
  <2>6. Kept' = x \o (r \o Waits)
    BY <1>1, <1>9, <2>2, <2>4, <2>5 DEF Kept, Waits
  <2>7. (x \o r) \o Waits = x \o (r \o Waits)
    BY <2>3, BytesAssoc
  <2> QED
    BY <1>4, <1>7, <2>6, <2>7 DEF x, msg
<1> QED
  BY <1>3, <1>4, <1>6, <1>8, <1>9

LEMMA SendKept ==
  ASSUME Inv, KeptFaithful, NEW n \in 1 .. MaxLen, Send(n)
  PROVE  KeptFaithful'
<1> SUFFICES ASSUME life' # "killed" PROVE Faithful(Kept', nested', lens')
  BY DEF KeptFaithful
<1> DEFINE m == Len(lens) + 1
           msg == Message(m, n)
<1>1. /\ m \in 1 .. MaxSends /\ lens' = Append(lens, n) /\ life # "killed"
      /\ lens \in Seq(1 .. MaxLen)
  BY SendCases DEF Inv, Shape
<1>2. nested' = nested \cup {<<r[1][1], m>> : r \in Range(stack)}
  BY DEF Send
<1>3. Faithful(Kept, nested, lens)
  BY <1>1 DEF KeptFaithful
<1>4. Faithful(Kept, nested', lens')
  BY <1>1, <1>2, <1>3, FaithfulGrows
<1>5. CASE UNCHANGED <<out, stack, wire>>
  <2>1. Kept' = Kept
    BY <1>5 DEF Kept
  <2> QED
    BY <1>4, <2>1
<1>6. CASE ~ UNCHANGED <<out, stack, wire>>
  <2>1. /\ Kept = wire \o Waits
        /\ \/ Kept' = Kept
           \/ Kept' = (wire \o msg) \o Waits
    BY <1>6, DirectSend
  <2>2. Waits \in Seq(Byte) /\ wire \in Seq(Byte)
    BY KeptIs DEF Inv
  <2>3. \A b \in Range(Waits) : <<b[1], m>> \in nested'
    BY <1>2, WaitsAre DEF Inv, Shape, Waits
  <2>4. Faithful((wire \o msg) \o Waits, nested', lens')
    <3>1. nested \subseteq nested' /\ Faithful(wire \o Waits, nested, lens)
      BY <1>2, <1>3, <2>1
    <3> QED
      BY <1>1, <2>2, <2>3, <3>1, NewMessage
  <2> QED
    BY <1>4, <2>1, <2>4
<1> QED
  BY <1>5, <1>6

LEMMA InitKept == Init => KeptFaithful
<1> SUFFICES ASSUME Init PROVE Faithful(Kept, nested, lens)
  BY DEF KeptFaithful
<1>1. Reverse(<<>>) = <<>>
  BY DEF Reverse
<1>2. Kept = <<>>
  BY <1>1, FlattenEmpty DEF Init, Kept
<1>3. Range(<<>>) = {}
  BY DEF Range
<1> QED
  BY <1>2, <1>3 DEF Faithful, SortedBy

LEMMA StepKept == Inv /\ KeptFaithful /\ [Next]_vars => KeptFaithful'
<1> SUFFICES ASSUME Inv, KeptFaithful, [Next]_vars PROVE KeptFaithful'
  OBVIOUS
<1>1. CASE \E n \in 1 .. MaxLen : Send(n)
  BY <1>1, SendKept
<1>2. CASE Quiet \/ HandleWrite \/ HighWaterReturns
  <2>1. Kept' = Kept /\ UNCHANGED <<nested, lens>>
    BY <1>2, QuietKept, WriteKept, HighWaterKept
  <2>2. life = "killed" => UNCHANGED life
    BY <1>2 DEF Quiet, Poll, Return, HandleClose, HandleRead, Serving, EndClose, Destory,
         EndDestory, Release, PeerSends, PeerCloses, PeerResets, HandleWrite, HighWaterReturns
  <2> QED
    BY <2>1, <2>2 DEF KeptFaithful
<1>3. CASE Established \/ UNCHANGED vars
  <2>1. UNCHANGED <<wire, out, stack, nested, lens, life>>
    BY <1>3 DEF Established, vars, network, history, sends
  <2>2. Kept' = Kept
    BY <2>1 DEF Kept
  <2> QED
    BY <2>1, <2>2 DEF KeptFaithful
<1> QED
  BY <1>1, <1>2, <1>3 DEF Next, LoopStep, Quiet

\* Whatever the socket takes of each write, messages reach the peer whole or not
\* at all, and in order but for one sent in the high-water callback of another
\* (TcpConnection::send, handleWrite).
THEOREM WholeInOrderAlways == Spec => []WholeInOrder
<1>1. Init => Inv /\ KeptFaithful
  BY InitInv, InitKept
<1>2. (Inv /\ KeptFaithful) /\ [Next]_vars => (Inv /\ KeptFaithful)'
  BY StepInv, StepKept
<1>3. Inv /\ KeptFaithful => WholeInOrder
  <2> SUFFICES ASSUME KeptFaithful, life # "killed" PROVE WholeInOrder
    BY DEF WholeInOrder
  <2>1. Faithful(Kept, nested, lens)
    BY DEF KeptFaithful
  <2>2. \A i, j \in DOMAIN Kept :
          i < j => \/ Before(Kept[i], Kept[j])
                   \/ <<Kept[j][1], Kept[i][1]>> \in nested
    BY <2>1 DEF Faithful, SortedBy, Orders
  <2> QED
    BY <2>1, <2>2 DEF Faithful, WholeInOrder
<1> QED
  BY <1>1, <1>2, <1>3, PTL DEF Spec

=============================================================================
