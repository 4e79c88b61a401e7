------------------------------ MODULE TcpServer ------------------------------
(***************************************************************************)
(* net/TcpServer over Acceptor, EventLoopThreadPool and the connections'   *)
(* life: the base thread (thread 0) accepts, enters a connection in        *)
(* _connections and registers it with the loop of another thread, which    *)
(* reports its end and erases it, on the same unprotected map.  With no    *)
(* other threads the base loop does both.                                  *)
(*                                                                         *)
(* MaxConns clients connect, the kernel grants descriptors up to a limit,  *)
(* and its worse errors end the process through LOG_FATAL.                 *)
(*                                                                         *)
(* The program has no meaning any more, `undefined', once two threads use  *)
(* the map at once, a handler uses a deleted connection, or handleEvent()  *)
(* goes on with the channel of the connection its own close handler has    *)
(* deleted, as it does at every close but one newConnection() overlaps:    *)
(* what it reads there may lead nowhere, or anywhere.  Pointers that user  *)
(* code keeps are module TcpConnection's.                                  *)
(***************************************************************************)
EXTENDS Naturals, Sequences, FiniteSets

CONSTANTS
  Fds,          \* descriptors the kernel gives to accepted sockets
  ThreadNums,   \* values of threadNum
  MaxConns,     \* bound on the connections accepted
  MaxReports    \* bound on the reports kept of one connection

ASSUME TcpServerAssumption ==
  /\ ThreadNums \subseteq Nat
  /\ MaxConns \in Nat /\ MaxReports \in Nat \ {0, 1}

Conns == 1 .. MaxConns
none == 0
idle == [at |-> "idle", c |-> none]

VARIABLES
  threadNum,    \* _threadNum of the pool
  limit,        \* descriptors the process may still open
  server,       \* of TcpServer: "new", "running", "destroying", "down", or
                \* "aborted" with the process
  currentIndex, \* _currentIndex of the pool
  connections,  \* _connections: descriptor -> connection or none
  accepted,     \* connections made so far
  fd,           \* of each connection
  loop,         \* the thread of each connection's loop
  state,        \* _state of each connection
  watched,      \* connections in the epoll of their loop
  refs,         \* who holds a pointer: "map", newConnection's "local",
                \* or a "callback"
  open,         \* open descriptors
  base,         \* where the base thread is in newConnection()
  handler,      \* where each thread is in the handling of a connection's end
  closed,       \* connections the peer has closed
  reports,      \* history: what _connectionCallback was told
  fault         \* what has left the program without meaning: "no" thing, the
                \* "map", a deleted "connection" or its "channel"

conn == <<fd, loop, state, watched, refs, open, reports>>
config == <<threadNum, limit>>
vars == <<config, server, currentIndex, connections, accepted, conn, base,
          handler, closed, fault>>

undefined == fault # "no"

Threads == 0 .. threadNum
Alive(c) == refs[c] # {}

TypeOK ==
  /\ threadNum \in ThreadNums
  /\ limit \in 1 .. Cardinality(Fds)
  /\ server \in {"new", "running", "destroying", "down", "aborted"}
  /\ currentIndex \in 0 .. threadNum /\ (currentIndex < threadNum \/ threadNum = 0)
  /\ connections \in [Fds -> Conns \cup {none}]
  /\ accepted \in 0 .. MaxConns
  /\ fd \in [Conns -> Fds \cup {none}]
  /\ loop \in [Conns -> Threads]
  /\ state \in [Conns -> {"CONNECTED", "DISCONNECTED"}]
  /\ watched \subseteq {c \in 1 .. accepted : Alive(c)}
  /\ refs \in [Conns -> SUBSET {"map", "local", "callback"}]
  /\ open \subseteq Fds
  /\ base \in {"idle", "insert", "register", "connected", "report", "return"}
  /\ handler \in [Threads -> [at : {"idle", "polled", "report", "erase", "erasing", "tail"},
                              c : Conns \cup {none}]]
  /\ closed \subseteq Conns
  /\ \A c \in Conns : reports[c] \in Seq({"up", "down"})
  /\ fault \in {"no", "map", "connection", "channel"}

Init ==
  /\ threadNum \in ThreadNums
  /\ limit \in 1 .. Cardinality(Fds)
  /\ server = "new"
  /\ currentIndex = 0
  /\ connections = [f \in Fds |-> none]
  /\ accepted = 0
  /\ fd = [c \in Conns |-> none]
  /\ loop = [c \in Conns |-> 0]
  /\ state = [c \in Conns |-> "DISCONNECTED"]
  /\ watched = {}
  /\ refs = [c \in Conns |-> {}]
  /\ open = {}
  /\ base = "idle"
  /\ handler = [t \in Threads |-> idle]
  /\ closed = {}
  /\ reports = [c \in Conns |-> <<>>]
  /\ fault = "no"

-----------------------------------------------------------------------------

\* The pointers of c become r: without any the connection is deleted, its
\* descriptor closed and thereby out of epoll.
Hold(c, r, w) ==
  /\ refs' = [refs EXCEPT ![c] = r]
  /\ open' = IF r = {} THEN open \ {fd[c]} ELSE open
  /\ watched' = IF r = {} THEN w \ {c} ELSE w

\* What an action does to the meaning of the program.
Breaks(what, when) == fault' = IF when THEN what ELSE "no"

BaseIdle == base = "idle" /\ handler[0].at = "idle"

Erasing(t) == handler[t].at = "erasing"

\* The history keeps the first MaxReports reports of each connection.
Report(c, what) ==
  reports' = IF Len(reports[c]) < MaxReports
               THEN [reports EXCEPT ![c] = Append(@, what)] ELSE reports

-----------------------------------------------------------------------------
(* The base thread.                                                        *)

\* The acceptor listens, or LOG_FATAL ends the process.
listen == server' \in {"running", "aborted"}

\* start(): the pool's loops run when it returns.
Start ==
  /\ server = "new"
  /\ listen
  /\ UNCHANGED <<config, currentIndex, connections, accepted, conn, base,
                 handler, closed, fault>>

\* getNextLoop() in turn, or the base loop; `next' is the index after it.
next == IF currentIndex + 1 >= threadNum THEN 0 ELSE currentIndex + 1

ClientWaits == accepted < MaxConns /\ BaseIdle /\ server = "running" /\ ~ undefined

\* Without a free descriptor accept4() fails with EMFILE: like the passing
\* errors this is logged, nothing changes, and the next poll() tries again.
Grants(f) == f \notin open /\ Cardinality(open) < limit

\* Acceptor::handleRead accepts; newConnection() makes the connection and is
\* about to use the map.
Accept(f) ==
  /\ ClientWaits /\ Grants(f)
  /\ LET c == accepted + 1
     IN  /\ accepted' = c
         /\ fd' = [fd EXCEPT ![c] = f]
         /\ loop' = [loop EXCEPT ![c] = IF threadNum = 0 THEN 0
                                                         ELSE currentIndex + 1]
         /\ currentIndex' = IF threadNum = 0 THEN 0 ELSE next
         /\ refs' = [refs EXCEPT ![c] = {"local"}]
  /\ open' = open \cup {f}
  /\ base' = "insert"
  /\ Breaks("map", \E t \in Threads : Erasing(t))
  /\ UNCHANGED <<config, server, connections, state, watched, handler, closed,
                 reports>>

\* The system is out of descriptors or memory, or the error unknown.
AcceptDies ==
  /\ ClientWaits
  /\ server' = "aborted"
  /\ UNCHANGED <<config, currentIndex, connections, accepted, conn, base, handler,
                 closed, fault>>

Current == accepted

Insert ==
  /\ ~ undefined /\ base = "insert"
  /\ connections' = [connections EXCEPT ![fd[Current]] = Current]
  /\ refs' = [refs EXCEPT ![Current] = @ \cup {"map"}]
  /\ base' = "register"
  /\ UNCHANGED <<config, server, currentIndex, accepted, fd, loop, state, watched,
                 open, reports, handler, closed, fault>>

\* established() in the base thread, whatever loop the connection has.
Register ==
  /\ ~ undefined /\ base = "register"
  /\ watched' = watched \cup {Current}
  /\ base' = "connected"
  /\ UNCHANGED <<config, server, currentIndex, connections, accepted, fd, loop,
                 state, refs, open, reports, handler, closed, fault>>

SetConnected ==
  /\ ~ undefined /\ base = "connected"
  /\ state' = [state EXCEPT ![Current] = "CONNECTED"]
  /\ base' = "report"
  /\ UNCHANGED <<config, server, currentIndex, connections, accepted, fd, loop,
                 watched, refs, open, reports, handler, closed, fault>>

ReportUp ==
  /\ ~ undefined /\ base = "report"
  /\ Report(Current, IF state[Current] = "CONNECTED" THEN "up" ELSE "down")
  /\ base' = "return"
  /\ UNCHANGED <<config, server, currentIndex, connections, accepted, fd, loop,
                 state, watched, refs, open, handler, closed, fault>>

\* newConnection() returns and drops its pointer.
Return ==
  /\ ~ undefined /\ base = "return"
  /\ Hold(Current, refs[Current] \ {"local"}, watched)
  /\ base' = "idle"
  /\ UNCHANGED <<config, server, currentIndex, connections, accepted, fd, loop,
                 state, reports, handler, closed, fault>>

\* ~TcpServer walks the map ...
BeginDestroy ==
  /\ ~ undefined /\ server = "running" /\ BaseIdle
  /\ server' = "destroying"
  /\ Breaks("map", \E t \in Threads : Erasing(t))
  /\ UNCHANGED <<config, currentIndex, connections, accepted, conn, base, handler,
                 closed>>

\* ... and calls destory() of each connection, in the base thread.
DestroyOne(f) ==
  /\ ~ undefined /\ server = "destroying" /\ connections[f] # none
  /\ LET c == connections[f]
     IN  /\ connections' = [connections EXCEPT ![f] = none]
         /\ state' = [state EXCEPT ![c] = "DISCONNECTED"]
         /\ Report(c, "down")
         /\ Hold(c, refs[c] \ {"map"}, watched \ {c})
         /\ Breaks("connection", handler[loop[c]].c = c)
  /\ UNCHANGED <<config, server, currentIndex, accepted, fd, loop, base, handler,
                 closed>>

EndDestroy ==
  /\ ~ undefined /\ server = "destroying"
  /\ \A f \in Fds : connections[f] = none
  /\ server' = "down"
  /\ UNCHANGED <<config, currentIndex, connections, accepted, conn, base, handler,
                 closed, fault>>

-----------------------------------------------------------------------------
(* The end of a connection, in the thread of its loop.                     *)

PeerCloses(c) ==
  /\ ~ undefined /\ server # "aborted" /\ Alive(c) /\ c \notin closed
  /\ closed' = closed \cup {c}
  /\ UNCHANGED <<config, server, currentIndex, connections, accepted, conn, base,
                 handler, fault>>

Goes(c, to) == handler' = [handler EXCEPT ![loop[c]] = [at |-> to, c |-> c]]

At(c, where) == handler[loop[c]] = [at |-> where, c |-> c]

\* poll() returns a bare pointer to the channel.
Polled(c) ==
  /\ ~ undefined /\ c \in watched /\ c \in closed
  /\ handler[loop[c]].at = "idle"
  /\ loop[c] = 0 => base = "idle" /\ server = "running"
  /\ Goes(c, "polled")
  /\ UNCHANGED <<config, server, currentIndex, connections, accepted, conn, base,
                 closed, fault>>

\* handleClose() up to, and then past, the connection callback.
HandleClose(c) ==
  /\ ~ undefined /\ At(c, "polled")
  /\ state' = [state EXCEPT ![c] = "DISCONNECTED"]
  /\ Breaks("connection", ~ Alive(c))
  /\ Goes(c, "report")
  /\ UNCHANGED <<config, server, currentIndex, connections, accepted, fd, loop,
                 watched, refs, open, reports, base, closed>>

ReportDown(c) ==
  /\ ~ undefined /\ At(c, "report")
  /\ Report(c, IF state[c] = "CONNECTED" THEN "up" ELSE "down")
  /\ Breaks("connection", ~ Alive(c))
  /\ Goes(c, "erase")
  /\ UNCHANGED <<config, server, currentIndex, connections, accepted, fd, loop,
                 state, watched, refs, open, base, closed>>

\* removeConnection() is about to use the map.
BeginErase(c) ==
  /\ ~ undefined /\ At(c, "erase")
  /\ refs' = [refs EXCEPT ![c] = @ \cup {"callback"}]
  /\ Breaks(IF Alive(c) THEN "map" ELSE "connection",
            \/ ~ Alive(c)
            \/ base = "insert"
            \/ server = "destroying"
            \/ \E t \in Threads : Erasing(t))
  /\ Goes(c, "erasing")
  /\ UNCHANGED <<config, server, currentIndex, connections, accepted, fd, loop,
                 state, watched, open, reports, base, closed>>

EraseNothing(c) == connections              \* mutant: no _connections.erase()
EraseFirst(c) ==                            \* mutant: erase(begin())
  [f \in Fds |-> IF \A g \in Fds : g < f => connections[g] = none THEN none
                                                                 ELSE connections[f]]

Erase(c) == [connections EXCEPT ![fd[c]] = none]

\* removeConnection() and handleClose() return, and their pointers go.
EndErase(c) ==
  /\ ~ undefined /\ At(c, "erasing")
  /\ connections' = Erase(c)
  /\ Hold(c, refs[c] \ (IF connections'[fd[c]] = c THEN {"callback"}
                                                   ELSE {"map", "callback"}), watched)
  /\ Goes(c, "tail")
  /\ UNCHANGED <<config, server, currentIndex, accepted, fd, loop, state, reports,
                 base, closed, fault>>

\* handleEvent() tests _revents for what else there is to handle; what it finds
\* in a deleted channel may lead it into a callback that is no more.
EndEvent(c) ==
  /\ ~ undefined /\ At(c, "tail")
  /\ \/ handler' = [handler EXCEPT ![loop[c]] = idle] /\ UNCHANGED fault
     \/ ~ Alive(c) /\ fault' = "channel" /\ UNCHANGED handler
  /\ UNCHANGED <<config, server, currentIndex, connections, accepted, conn, base,
                 closed>>

-----------------------------------------------------------------------------

BaseStep ==
  /\ server # "aborted"
  /\ \/ Insert \/ Register \/ SetConnected \/ ReportUp \/ Return \/ EndDestroy
     \/ \E f \in Fds : Accept(f)

CloseStep(c) ==
  /\ server # "aborted"
  /\ \/ Polled(c) \/ HandleClose(c) \/ ReportDown(c) \/ BeginErase(c) \/ EndErase(c)
     \/ EndEvent(c)

Next ==
  \/ BaseStep
  \/ Start
  \/ AcceptDies
  \/ BeginDestroy
  \/ \E f \in Fds : DestroyOne(f)
  \/ \E c \in Conns : PeerCloses(c) \/ CloseStep(c)

\* Every loop runs; what is ready in it is handled, a waiting client too.
Fairness == WF_vars(BaseStep) /\ \A c \in Conns : WF_vars(CloseStep(c))

Spec == Init /\ [][Next]_vars

FairSpec == Spec /\ Fairness

-----------------------------------------------------------------------------

\* Without other threads a connection's end is handled once and in order: each
\* connection is reported up, then down, at most once each, no handler runs for
\* one that is deleted, the map is never used twice at once, and no descriptor
\* outlives the server.  What remains is the read of the deleted channel with
\* which every handleEvent() of a close ends, and that comes after the report.
SoundOnOneThread ==
  threadNum = 0 =>
    /\ fault \in {"no", "channel"}
    /\ \A c \in Conns : reports[c] \in {<<>>, <<"up">>, <<"up", "down">>}
    /\ \A c \in Conns : At(c, "tail") => ~ Alive(c) /\ reports[c] = <<"up", "down">>
    /\ server = "down" => open = {}

\* The map and the connections agree, whatever thread ends a connection and
\* although descriptors are used again: an entry is a living connection with
\* that descriptor, open, and the end of a connection never erases another's
\* entry.
EntriesAreOwn ==
  ~ undefined =>
    /\ \A f \in Fds : connections[f] # none => f \in open /\ fd[connections[f]] = f
    /\ \A c \in Conns : "map" \in refs[c] <=> c \in {connections[f] : f \in Fds}
    /\ \A c \in Conns : At(c, "erasing") => connections[fd[c]] \in {c, none}

\* A client waits for ever only while every descriptor serves a connection whose
\* peer keeps it: one that is closed is released and used for the client.
ClientsAreAccepted ==
  <>[](server = "running" /\ ~ undefined /\ accepted < MaxConns)
    => <>[](/\ Cardinality(open) = limit
            /\ \A c \in Conns : Alive(c) => c \notin closed)

\* The descriptor of a connection the peer closes is released, unless the
\* server is destroyed.
ClosedIsReleased ==
  \A c \in Conns :
    (c \in closed /\ Alive(c))
      ~> (~ Alive(c) \/ undefined \/ server # "running")

=============================================================================
