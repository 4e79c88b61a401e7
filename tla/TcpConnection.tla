---------------------------- MODULE TcpConnection ----------------------------
(***************************************************************************)
(* net/TcpConnection with its Channel and its place in Epoller, in the one *)
(* thread of its loop: the output buffer and the WRITE interest that       *)
(* drains it, the callbacks of a poll round in the order                   *)
(* Channel::handleEvent makes them, and the end of the connection.         *)
(*                                                                         *)
(* A byte is a pair <<m, i>>, the i-th byte of the m-th call of send().    *)
(* The socket is external: a write takes some bytes or fails, the peer     *)
(* sends, closes or resets at any time; that epoll_ctl() succeeds is       *)
(* assumed (Epoller::controlEpoll only logs a failure).                    *)
(***************************************************************************)
EXTENDS Naturals, Sequences, SequencesExt

CONSTANTS
  MaxSends,   \* bound on the calls of send()
  MaxLen      \* bound on the length of a message

ASSUME TcpConnectionAssumption == MaxSends \in Nat /\ MaxLen \in Nat \ {0}

Byte == (1 .. MaxSends) \X (1 .. MaxLen)
Event == {"READ", "WRITE"}

\* The bytes of the m-th message, of length n.
Message(m, n) == [i \in 1 .. n |-> <<m, i>>]

VARIABLES
  state,      \* _state
  events,     \* _channel->_events
  chState,    \* _channel->_state
  interest,   \* what the kernel's epoll watches for the descriptor
  highWater,  \* _highWaterMark, which nothing initialises; what exceeds any
              \* rest of a message stands for all larger values
  hasHwCb,    \* the user has set _highWaterMarkCallback
  out,        \* _outputBuffer, its readable bytes
  wire,       \* bytes the kernel has taken, in order
  unread,     \* the kernel holds input
  peer,       \* "open"; "fin": it has closed; "reset": and the error is
              \* pending; "dead": the error has been delivered
  todo,       \* calls Channel::handleEvent has still to make
  pc,         \* where the loop's thread is
  stack,      \* rests of messages whose high-water callback is running
  life,       \* of the object: "alive"; "gone", destroyed while no one uses
              \* it; "undefined", used after its end; or "killed", the process
  held,       \* user code keeps a TcpConnectionPtr: disableAll() leaves it in
              \* epoll, which then reports the end round after round
  lens,       \* history: the length of each message sent
  nested,     \* history: <<l, m>>, m was sent in l's high-water callback
  failed,     \* history: messages a connection error kept off the wire
  reports     \* history: calls of _connectionCallback with a disconnected state

channel == <<events, chState, interest>>
network == <<wire, unread, peer>>
user    == <<highWater, hasHwCb, held>>
sends   == <<lens, nested, failed>>
history == <<sends, reports>>
vars == <<state, channel, user, out, network, todo, pc, stack, life, history>>

TypeOK ==
  /\ state \in {"CONNECTED", "DISCONNECTED"}
  /\ events \subseteq Event /\ interest \subseteq Event
  /\ chState \in {"NEW", "ADDED", "DELETED"}
  /\ highWater \in 0 .. MaxLen
  /\ {hasHwCb, unread, held} \subseteq BOOLEAN
  /\ out \in Seq(Byte) /\ wire \in Seq(Byte)
  /\ peer \in {"open", "fin", "reset", "dead"}
  /\ todo \subseteq {"close", "read", "write"}
  /\ pc \in {"new", "poll", "polled", "handle", "user", "closing", "destroying"}
  /\ stack \in Seq(Seq(Byte))
  /\ life \in {"alive", "gone", "killed", "undefined"}
  /\ lens \in Seq(1 .. MaxLen) /\ Len(lens) <= MaxSends
  /\ nested \subseteq (1 .. MaxSends) \X (1 .. MaxSends)
  /\ failed \subseteq 1 .. MaxSends
  /\ reports \in 0 .. 2

Init ==
  /\ state = "DISCONNECTED"
  /\ events = {} /\ chState = "NEW" /\ interest = {}
  /\ highWater \in 0 .. MaxLen
  /\ hasHwCb \in BOOLEAN
  /\ out = <<>> /\ wire = <<>> /\ unread = FALSE /\ peer = "open"
  /\ todo = {}
  /\ pc = "new" /\ stack = <<>> /\ life = "alive"
  /\ held \in BOOLEAN
  /\ lens = <<>> /\ nested = {} /\ failed = {} /\ reports = 0

-----------------------------------------------------------------------------
(* Channel and Epoller.                                                    *)

updateQuietly(ev) ==           \* mutant: the kernel is not told
  events' = ev /\ UNCHANGED <<chState, interest>>

\* Epoller tells the kernel, and forgets a descriptor of no interest.
updateChannel(ev) ==
  /\ interest' = ev
  /\ chState' = IF chState = "ADDED" /\ ev = {} THEN "DELETED" ELSE "ADDED"

\* enableReading(), enableWriting() and disableWriting() set the mask.
update(ev) == events' = ev /\ updateChannel(ev)

\* disableAll() does not tell the kernel.
disableAll == events' = {} /\ UNCHANGED <<chState, interest>>

hasWrite == "WRITE" \in events

\* What epoll reports: the interest, and a hang-up whether asked for or not.
Revents ==
  LET in == "READ" \in interest /\ (unread \/ peer # "open")
      hup == peer \in {"reset", "dead"}
  IN  (IF in THEN {"read"} ELSE {})
        \cup (IF hup /\ ~ in /\ chState = "ADDED" THEN {"close"} ELSE {})
        \cup (IF "WRITE" \in interest THEN {"write"} ELSE {})

\* The socket is writable, or not (then only the rest of the events), and
\* always once the connection is broken.
Poll ==
  /\ pc = "poll" /\ life = "alive"
  /\ todo' \in {Revents} \cup (IF peer \in {"reset", "dead"} THEN {}
                               ELSE {Revents \ {"write"}})
  /\ todo' # {}
  /\ pc' = "polled"
  /\ UNCHANGED <<state, channel, user, out, network, stack, life, history>>

-----------------------------------------------------------------------------
(* The user's callbacks: where the calls of send() come from.              *)

InCallback == life = "alive" /\ pc \in {"user", "closing", "destroying"}

\* The rest of a message goes to the output buffer.
AppendRest(rest) ==
  /\ out' = out \o rest
  /\ IF hasWrite THEN UNCHANGED channel ELSE update(events \cup {"WRITE"})

\* First the high-water callback, when the rest exceeds the mark, which is
\* whatever the memory held: the callback may send in its turn, and an empty
\* one throws through loop().
Queue(rest) ==
  LET exceeds == highWater # 0 /\ Len(out \o rest) > highWater
  IN  \/ /\ ~ exceeds
         /\ AppendRest(rest)
         /\ UNCHANGED <<stack, life>>
      \/ /\ exceeds /\ hasHwCb
         /\ stack' = Append(stack, rest)
         /\ UNCHANGED <<channel, out, life>>
      \/ /\ exceeds /\ ~ hasHwCb
         /\ life' = "killed"
         /\ UNCHANGED <<channel, out, stack>>

HighWaterDrops ==              \* mutant: append() only if nothing is pending
  /\ life = "alive" /\ stack # <<>>
  /\ IF out = <<>> THEN AppendRest(Last(stack)) ELSE UNCHANGED <<channel, out>>
  /\ stack' = Front(stack)
  /\ UNCHANGED <<state, user, network, todo, pc, life, history>>

\* A high-water callback returns into send().
HighWaterReturns ==
  /\ life = "alive" /\ stack # <<>>
  /\ AppendRest(Last(stack))
  /\ stack' = Front(stack)
  /\ UNCHANGED <<state, user, network, todo, pc, life, history>>

SendIdle == ~ hasWrite /\ out = <<>>

\* send() of n bytes: with nothing pending, a direct write that takes all or
\* some of them, would block, or meets a broken connection: ECONNRESET once,
\* then SIGPIPE.  With output pending `remain' is 0 and nothing happens.
Send(n) ==
  /\ InCallback
  /\ Len(lens) < MaxSends
  /\ lens' = Append(lens, n)
  /\ nested' = nested \cup {<<rest[1][1], Len(lens) + 1>> : rest \in Range(stack)}
  /\ LET m == Len(lens) + 1
         msg == Message(m, n)
         len == Len(msg)
     IN  \/ /\ SendIdle /\ peer \in {"open", "fin"}
            /\ \E k \in 0 .. len :
                 /\ wire' = wire \o SubSeq(msg, 1, k)
                 /\ IF k \in {0, len} THEN UNCHANGED <<channel, out, stack, life>>
                    ELSE Queue(SubSeq(msg, k + 1, len))
            /\ UNCHANGED <<peer, failed>>
         \/ /\ SendIdle /\ peer = "reset"
            /\ peer' = "dead"
            /\ failed' = failed \cup {m}
            /\ UNCHANGED <<channel, out, stack, life, wire>>
         \/ /\ SendIdle /\ peer = "dead"
            /\ life' = "killed"
            /\ failed' = failed \cup {m}
            /\ UNCHANGED <<channel, out, stack, wire, peer>>
         \/ /\ ~ SendIdle
            /\ UNCHANGED <<channel, out, stack, life, wire, peer, failed>>
  /\ UNCHANGED <<state, user, unread, todo, pc, reports>>

\* A message, write-complete or connection callback returns to handleEvent.
Return ==
  /\ life = "alive" /\ pc = "user" /\ stack = <<>>
  /\ pc' = IF todo = {} THEN "poll" ELSE "handle"
  /\ UNCHANGED <<state, channel, user, out, network, todo, stack, life, history>>

-----------------------------------------------------------------------------
(* TcpConnection's handlers.                                               *)

\* established() up to the connection callback.
Established ==
  /\ life = "alive" /\ pc = "new"
  /\ update(events \cup {"READ"})
  /\ state' = "CONNECTED"
  /\ pc' = "user"
  /\ UNCHANGED <<user, out, network, todo, stack, life, history>>

\* handleEvent is called, or goes on.
Serving == life = "alive" /\ pc \in {"polled", "handle"}

Finish == IF todo' = {} THEN "poll" ELSE "handle"

\* Shared by handleClose() and destory(): up to the connection callback.
Disconnect ==
  /\ disableAll
  /\ state' = "DISCONNECTED"
  /\ reports' = IF reports < 2 THEN reports + 1 ELSE 2

HandleClose ==
  /\ Serving /\ "close" \in todo
  /\ Disconnect
  /\ todo' = todo \ {"close"}
  /\ pc' = "closing"
  /\ UNCHANGED <<user, out, network, stack, life, sends>>

\* handleRead(): input, the end of it, or an error, which is only logged.
HandleRead ==
  /\ Serving
  /\ "close" \notin todo /\ "read" \in todo
  /\ todo' = todo \ {"read"}
  /\ \/ /\ unread
        /\ unread' = FALSE
        /\ pc' = "user"
        /\ UNCHANGED <<state, channel, peer, reports>>
     \/ /\ ~ unread /\ peer \in {"fin", "dead"}
        /\ Disconnect
        /\ pc' = "closing"
        /\ UNCHANGED <<unread, peer>>
     \/ /\ ~ unread /\ peer = "reset"
        /\ peer' = "dead"
        /\ pc' = Finish
        /\ UNCHANGED <<state, channel, unread, reports>>
  /\ UNCHANGED <<user, out, wire, stack, life, sends>>

\* handleWrite() writes some of the output buffer, or fails and only logs.
HandleWrite ==
  /\ Serving /\ todo = {"write"}
  /\ todo' = {}
  /\ \/ /\ ~ hasWrite
        /\ pc' = "poll"
        /\ UNCHANGED <<channel, out, wire, peer, life>>
     \/ /\ hasWrite /\ peer \in {"open", "fin"}
        /\ \E k \in 1 .. Len(out) :
             LET rest == SubSeq(out, k + 1, Len(out))
             IN  /\ wire' = wire \o SubSeq(out, 1, k)
                 /\ out' = rest
                 /\ IF rest = <<>>
                      THEN update(events \ {"WRITE"}) /\ pc' = "user"
                      ELSE UNCHANGED channel /\ pc' = "poll"
        /\ UNCHANGED <<peer, life>>
     \/ /\ hasWrite /\ peer \in {"open", "fin"}
        /\ pc' = "poll"
        /\ UNCHANGED <<channel, out, wire, peer, life>>
     \/ /\ hasWrite /\ peer = "reset"
        /\ peer' = "dead"
        /\ pc' = "poll"
        /\ UNCHANGED <<channel, out, wire, life>>
     \/ /\ hasWrite /\ peer = "dead"
        /\ life' = "killed"
        /\ pc' = "poll"
        /\ UNCHANGED <<channel, out, wire, peer>>
  /\ UNCHANGED <<state, user, unread, stack, history>>

StaysInServer == FALSE         \* mutant: the server does not erase it

\* _closeCallback takes the connection out of the server, which held the last
\* pointer unless user code keeps one.
CloseDestroys == ~ held

\* The end of handleClose(): the connection and its channel die here if no
\* one holds them.  Whatever the events of the round, handleEvent goes on to
\* read _revents of that channel, at least for POLLOUT, and on what it finds
\* there depends whether it calls a callback of the dead channel.
EndClose ==
  /\ life = "alive" /\ pc = "closing" /\ stack = <<>>
  /\ UNCHANGED todo
  /\ IF CloseDestroys THEN life' = "undefined" /\ UNCHANGED pc
                      ELSE pc' = Finish /\ UNCHANGED life
  /\ UNCHANGED <<state, channel, user, out, network, stack, history>>

\* destory(), from ~TcpServer, between two rounds of the loop.
Destory ==
  /\ life = "alive" /\ pc = "poll" /\ state = "CONNECTED"
  /\ Disconnect
  /\ pc' = "destroying"
  /\ UNCHANGED <<user, out, network, todo, stack, life, sends>>

\* Its end: remove() takes the descriptor out of epoll.
EndDestory ==
  /\ life = "alive" /\ pc = "destroying" /\ stack = <<>>
  /\ interest' = {} /\ chState' = "NEW"
  /\ life' = IF held THEN "alive" ELSE "gone"
  /\ pc' = "poll"
  /\ UNCHANGED <<state, events, user, out, network, todo, stack, history>>

\* User code drops the pointer it kept of a connection that is closed: between
\* two rounds, or in the callback of another connection, when this one's
\* channel may be further on in the list that poll() returned.
Release ==
  /\ life = "alive" /\ pc \in {"poll", "polled"} /\ held /\ reports > 0
  /\ life' = IF pc = "polled" THEN "undefined" ELSE "gone"
  /\ UNCHANGED <<state, channel, user, out, network, todo, pc, stack, history>>

-----------------------------------------------------------------------------

PeerSends ==
  /\ life = "alive" /\ pc # "new" /\ peer = "open" /\ ~ unread
  /\ unread' = TRUE
  /\ UNCHANGED <<state, channel, user, out, wire, peer, todo, pc, stack, life, history>>

PeerCloses ==
  /\ life = "alive" /\ peer = "open"
  /\ peer' = "fin"
  /\ UNCHANGED <<state, channel, user, out, wire, unread, todo, pc, stack, life, history>>

PeerResets ==
  /\ life = "alive" /\ peer \in {"open", "fin"}
  /\ peer' = "reset"
  /\ UNCHANGED <<state, channel, user, out, wire, unread, todo, pc, stack, life, history>>

-----------------------------------------------------------------------------

LoopStep ==
  Poll \/ Established \/ HighWaterReturns \/ Return \/ HandleClose \/ HandleRead \/ HandleWrite
    \/ EndClose \/ EndDestory

Next ==
  \/ LoopStep
  \/ \E n \in 1 .. MaxLen : Send(n)
  \/ Destory
  \/ Release
  \/ PeerSends
  \/ PeerCloses
  \/ PeerResets

\* The loop runs and callbacks return; a peer that stays makes the socket
\* writable again and again, and a write to it then succeeds.
Fairness ==
  /\ WF_vars(LoopStep)
  /\ SF_vars(Poll /\ "write" \in todo')
  /\ SF_vars(HandleWrite /\ out' # out)

Spec == Init /\ [][Next]_vars

FairSpec == Spec /\ Fairness

-----------------------------------------------------------------------------

\* What the peer has or will receive if the connection stays up, in order.
Kept == wire \o out \o FlattenSeq(Reverse(stack))

Before(b, c) == b[1] < c[1] \/ (b[1] = c[1] /\ b[2] < c[2])

\* Unless the process died sending it, a message is received whole or not at
\* all, its bytes in order and none twice; and messages in the order they were
\* sent, except that one sent from the high-water callback of another may come
\* before the rest of that one, since the callback runs before append().
WholeInOrder ==
  life # "killed" =>
    /\ \A i, j \in DOMAIN Kept :
         i < j => \/ Before(Kept[i], Kept[j])
                  \/ <<Kept[j][1], Kept[i][1]>> \in nested
    /\ \A b \in Range(Kept) :
         \A i \in 1 .. lens[b[1]] : <<b[1], i>> \in Range(Kept)

\* While connected, epoll watches the descriptor for WRITE exactly when output
\* is pending (else it would be forgotten, or the loop would spin), and it is
\* told of each change of the mask.
WriteInterest ==
  (life = "alive" /\ state = "CONNECTED") =>
    /\ interest = events
    /\ "READ" \in events
    /\ hasWrite <=> out # <<>>

\* The user is told of the end of every connection that comes to one, closed,
\* reset or destroyed with the server; and once only, whatever events come
\* together, unless user code keeps a pointer: epoll then goes on to report a
\* descriptor that disableAll() did not take out of it.
EndIsReportedOnce ==
  /\ life \in {"gone", "undefined"} => reports > 0
  /\ ~ held => reports <= 1

\* Pending output of a connection that stays up reaches the kernel.
PendingIsWritten ==
  (out # <<>>) ~> (out = <<>> \/ peer # "open" \/ life # "alive"
                     \/ state = "DISCONNECTED")

\* A peer that closes or resets is reported to the user, or kills the process
\* (SIGPIPE).
PeerCloseIsReported == (peer # "open") ~> (reports > 0 \/ life # "alive")

\* send(): `the rest of the data goes to the output buffer': while the
\* connection has had no error each byte sent is on the wire or in the buffer.
NothingLost ==
  life = "alive" =>
    \A m \in DOMAIN lens \ failed :
      \A i \in 1 .. lens[m] : <<m, i>> \in Range(Kept)

=============================================================================
