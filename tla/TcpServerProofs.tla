--------------------------- MODULE TcpServerProofs ---------------------------
(***************************************************************************)
(* Theorems about module TcpServer, for every set of descriptors, every    *)
(* number of threads and of connections.                                   *)
(***************************************************************************)
EXTENDS TcpServer, SequenceTheorems, TLAPS

Phases == {"idle", "polled", "report", "erase", "erasing", "tail"}
BasePhases == {"idle", "insert", "register", "connected", "report", "return"}

Shape ==
  /\ threadNum \in Nat
  /\ server \in {"new", "running", "destroying", "down", "aborted"}
  /\ currentIndex \in 0 .. threadNum /\ (currentIndex < threadNum \/ threadNum = 0)
  /\ connections \in [Fds -> Conns \cup {none}]
  /\ accepted \in 0 .. MaxConns /\ (base # "idle" => accepted \in Conns)
  /\ fd \in [Conns -> Fds \cup {none}]
  /\ loop \in [Conns -> Threads]
  /\ state \in [Conns -> {"CONNECTED", "DISCONNECTED"}]
  /\ refs \in [Conns -> SUBSET {"map", "local", "callback"}]
  /\ open \subseteq Fds
  /\ base \in BasePhases
  /\ handler \in [Threads -> [at : Phases, c : Conns \cup {none}]]
  /\ DOMAIN reports = Conns
  /\ fault \in {"no", "map", "connection", "channel"}

\* Who holds a connection, and what of: a living connection has a descriptor of
\* its own, which is open; an entry of the map is a pointer to one that has this
\* descriptor; newConnection() and removeConnection() hold what they work on.
Own ==
  /\ \A c \in Conns : c > accepted => refs[c] = {}
  /\ \A c \in Conns : Alive(c) => fd[c] \in open
  /\ \A f \in open : \E c \in Conns : Alive(c) /\ fd[c] = f
  /\ \A c, d \in Conns : Alive(c) /\ Alive(d) /\ fd[c] = fd[d] => c = d
  /\ \A f \in Fds : connections[f] # none => fd[connections[f]] = f
  /\ \A c \in Conns : "map" \in refs[c] <=> \E f \in Fds : connections[f] = c
  /\ \A c \in Conns : At(c, "erasing") => "callback" \in refs[c]
  /\ base # "idle" => "local" \in refs[Current]
  /\ base = "insert" => "map" \notin refs[Current] /\ \A t \in Threads : ~ Erasing(t)

Inv == Shape /\ (~ undefined => Own)

-----------------------------------------------------------------------------
(* One thread.                                                             *)

\* What a connection has been told when it is up, and in the end.
IsUp(r)   == r = <<"up">>
IsOver(r) == r = <<"up", "down">>

Fresh(c) == refs[c] = {} /\ reports[c] = <<>> /\ c \notin watched

\* A connection newConnection() is at work on, ...
Coming(c) ==
  /\ refs[c] = IF base = "insert" THEN {"local"} ELSE {"local", "map"}
  /\ IF base = "return" THEN IsUp(reports[c]) ELSE reports[c] = <<>>
  /\ base \in {"report", "return"} => state[c] = "CONNECTED"

\* ... one whose end handleEvent is at work on, and all the others.
Going(c) ==
  LET at == handler[0].at
  IN  /\ at = "erasing" => refs[c] = {"map", "callback"}
      /\ at = "tail" => refs[c] = {} /\ c \notin watched
      /\ at \notin {"erasing", "tail"} => refs[c] = {"map"}
      /\ IF at \in {"polled", "report"} THEN IsUp(reports[c]) ELSE IsOver(reports[c])
      /\ at = "report" => state[c] = "DISCONNECTED"

Settled(c) ==
  \/ refs[c] = {"map"} /\ IsUp(reports[c])
  \/ refs[c] = {} /\ IsOver(reports[c]) /\ c \notin watched

Role(c) ==
  IF c > accepted THEN Fresh(c)
  ELSE IF base # "idle" /\ c = Current THEN Coming(c)
  ELSE IF handler[0].c = c THEN Going(c)
  ELSE Settled(c)

Solo ==
  /\ fault \in {"no", "channel"}
  /\ undefined => handler[0].at = "tail"
  /\ handler[0].at # "idle" => base = "idle" /\ server = "running"
  /\ handler[0].at = "idle" <=> handler[0].c = none
  /\ handler[0].c <= accepted
  /\ base # "idle" => server = "running"
  /\ \A c \in Conns : Role(c)
  /\ server = "down" => \A f \in Fds : connections[f] = none

SoloInv == threadNum = 0 => Solo

-----------------------------------------------------------------------------
(* Shapes.                                                                 *)

LEMMA Constants ==
  /\ MaxConns \in Nat /\ MaxReports \in Nat
  /\ none \notin Conns /\ \A c \in Conns : c \in Nat /\ c # none
  BY TcpServerAssumption DEF Conns, none

LEMMA InitInv == Init => Inv
<1> SUFFICES ASSUME Init PROVE Inv
  OBVIOUS
<1>1. Shape
  <2>1. threadNum \in Nat /\ currentIndex = 0 /\ accepted = 0 /\ MaxConns \in Nat
    BY TcpServerAssumption DEF Init
  <2>2. currentIndex \in 0 .. threadNum /\ (currentIndex < threadNum \/ threadNum = 0)
    BY <2>1
  <2>3. accepted \in 0 .. MaxConns /\ 0 \in Threads
    BY <2>1 DEF Threads
  <2>4. /\ connections \in [Fds -> Conns \cup {none}]
        /\ fd \in [Conns -> Fds \cup {none}]
        /\ loop \in [Conns -> Threads]
        /\ state \in [Conns -> {"CONNECTED", "DISCONNECTED"}]
        /\ refs \in [Conns -> SUBSET {"map", "local", "callback"}]
    BY <2>3 DEF Init
  <2>5. handler \in [Threads -> [at : Phases, c : Conns \cup {none}]]
    BY DEF Init, idle, Phases
  <2>6. /\ server = "new" /\ open \subseteq Fds /\ base = "idle"
        /\ DOMAIN reports = Conns /\ fault = "no"
    BY DEF Init
  <2> QED
    BY <2>1, <2>2, <2>3, <2>4, <2>5, <2>6 DEF Shape, BasePhases
<1>2. Own
  <2>1. /\ \A c \in Conns : refs[c] = {} /\ loop[c] = 0
        /\ \A f \in Fds : connections[f] = none
        /\ \A t \in Threads : handler[t] = idle
        /\ open = {} /\ base = "idle"
    BY DEF Init
  <2>2. 0 \in Threads
    BY TcpServerAssumption DEF Init, Threads
  <2>3. \A c \in Conns : ~ At(c, "erasing") /\ ~ Alive(c)
    BY <2>1, <2>2 DEF At, Alive, idle
  <2> QED
    BY <2>1, <2>3, Constants DEF Own
<1> QED
  BY <1>1, <1>2 DEF Inv

\* Steps that leave the map, the pointers and the descriptors alone.
Quiet ==
  \/ Start \/ AcceptDies \/ BeginDestroy \/ EndDestroy
  \/ Register \/ SetConnected \/ ReportUp
  \/ \E c \in Conns : \/ PeerCloses(c) \/ Polled(c) \/ HandleClose(c) \/ ReportDown(c)
                      \/ EndEvent(c)

\* What such a step makes of the handlers.
HandlersMove ==
  \/ UNCHANGED handler
  \/ \E c \in Conns : \/ \E to \in {"polled", "report", "erase"} : Goes(c, to)
                      \/ handler' = [handler EXCEPT ![loop[c]] = idle]

LEMMA QuietSteps ==
  ASSUME Quiet
  PROVE  /\ UNCHANGED <<threadNum, currentIndex, connections, accepted, fd, loop, refs, open>>
         /\ base' # "idle" => base # "idle"
         /\ base' = "insert" => base = "insert"
         /\ undefined => undefined'
         /\ HandlersMove
<1>1. CASE Start \/ AcceptDies \/ BeginDestroy \/ EndDestroy
  <2>1. UNCHANGED <<threadNum, currentIndex, connections, accepted, fd, loop, refs, open,
                    base, handler>>
    BY <1>1 DEF Start, AcceptDies, BeginDestroy, EndDestroy, config, conn
  <2>2. undefined => undefined'
    BY <1>1 DEF Start, AcceptDies, BeginDestroy, EndDestroy, ClientWaits, undefined
  <2> QED
    BY <2>1, <2>2 DEF HandlersMove
<1>2. CASE Register \/ SetConnected \/ ReportUp
  BY <1>2 DEF Register, SetConnected, ReportUp, config, conn, HandlersMove
<1>3. ASSUME NEW c \in Conns,
             PeerCloses(c) \/ Polled(c) \/ HandleClose(c) \/ ReportDown(c) \/ EndEvent(c)
      PROVE  /\ UNCHANGED <<threadNum, currentIndex, connections, accepted, fd, loop, refs,
                            open, base>>
             /\ undefined => undefined'
             /\ HandlersMove
  BY <1>3 DEF PeerCloses, Polled, HandleClose, ReportDown, EndEvent, config, conn, HandlersMove
<1> QED
  BY <1>1, <1>2, <1>3 DEF Quiet

LEMMA QuietShape ==
  ASSUME Shape, Quiet
  PROVE  Shape'
<1>1. /\ UNCHANGED <<threadNum, currentIndex, connections, accepted, fd, loop, refs, open>>
      /\ base' # "idle" => base # "idle"
  BY QuietSteps
<1>2. /\ server' \in {"new", "running", "destroying", "down", "aborted"}
      /\ base' \in BasePhases
  BY ZenonT(40) DEF Quiet, Start, listen, AcceptDies, BeginDestroy, EndDestroy, Register, SetConnected,
         ReportUp, PeerCloses, Polled, HandleClose, ReportDown, EndEvent, Shape, BasePhases
<1>2a. fault' \in {"no", "map", "connection", "channel"}
  BY DEF Quiet, Start, AcceptDies, BeginDestroy, EndDestroy, Register, SetConnected,
         ReportUp, PeerCloses, Polled, HandleClose, ReportDown, EndEvent, Shape, Breaks
<1>3. state' \in [Conns -> {"CONNECTED", "DISCONNECTED"}]
  BY DEF Quiet, Start, AcceptDies, BeginDestroy, EndDestroy, Register, SetConnected,
         ReportUp, PeerCloses, Polled, HandleClose, ReportDown, EndEvent, Shape, conn
<1>4. DOMAIN reports' = Conns
  BY DEF Quiet, Start, AcceptDies, BeginDestroy, EndDestroy, Register, SetConnected,
         ReportUp, PeerCloses, Polled, HandleClose, ReportDown, EndEvent, Report, Shape, conn
<1>5. handler' \in [Threads -> [at : Phases, c : Conns \cup {none}]]
  <2>1. CASE UNCHANGED handler
    BY <2>1 DEF Shape
  <2>2. ASSUME NEW c \in Conns, NEW to \in {"polled", "report", "erase"}, Goes(c, to)
        PROVE  handler' \in [Threads -> [at : Phases, c : Conns \cup {none}]]
    <3>1. [at |-> to, c |-> c] \in [at : Phases, c : Conns \cup {none}]
      BY DEF Phases
    <3> QED
      BY <2>2, <3>1 DEF Goes, Shape
  <2>3. ASSUME NEW c \in Conns, handler' = [handler EXCEPT ![loop[c]] = idle]
        PROVE  handler' \in [Threads -> [at : Phases, c : Conns \cup {none}]]
    <3>1. idle \in [at : Phases, c : Conns \cup {none}]
      BY DEF Phases, idle
    <3> QED
      BY <2>3, <3>1 DEF Shape
  <2> QED
    BY <2>1, <2>2, <2>3, QuietSteps DEF HandlersMove
<1> QED
  BY <1>1, <1>2, <1>2a, <1>3, <1>4, <1>5 DEF Shape, Threads

LEMMA QuietOwn ==
  ASSUME Shape, Own, Quiet
  PROVE  Own'
<1>1. /\ UNCHANGED <<threadNum, connections, accepted, fd, loop, refs, open>>
      /\ base' # "idle" => base # "idle"
      /\ base' = "insert" => base = "insert"
      /\ HandlersMove
  BY QuietSteps
<1>2. \A t \in Threads : handler'[t] = handler[t] \/ handler'[t].at # "erasing"
  <2>1. ASSUME NEW c \in Conns, NEW to \in {"polled", "report", "erase"}, Goes(c, to),
               NEW t \in Threads
        PROVE  handler'[t] = handler[t] \/ handler'[t].at # "erasing"
    <3>1. handler' = [handler EXCEPT ![loop[c]] = [at |-> to, c |-> c]]
      BY <2>1 DEF Goes
    <3>2. t \in DOMAIN handler
      BY DEF Shape
    <3>3. handler'[t] = IF t = loop[c] THEN [at |-> to, c |-> c] ELSE handler[t]
      BY <3>1, <3>2
    <3>4. [at |-> to, c |-> c].at # "erasing"
      OBVIOUS
    <3> QED
      BY <3>3, <3>4
  <2>2. ASSUME NEW c \in Conns, handler' = [handler EXCEPT ![loop[c]] = idle],
               NEW t \in Threads
        PROVE  handler'[t] = handler[t] \/ handler'[t].at # "erasing"
    BY <2>2 DEF Shape, idle
  <2> QED
    BY <1>1, <2>1, <2>2 DEF HandlersMove
<1>3. \A c \in Conns : At(c, "erasing")' => At(c, "erasing")
  BY <1>1, <1>2 DEF At, Shape
<1>4. \A t \in Threads : Erasing(t)' => Erasing(t)
  BY <1>2 DEF Erasing
<1>5. UNCHANGED <<Threads, Current>> /\ \A c \in Conns : UNCHANGED Alive(c)
  BY <1>1 DEF Threads, Current, Alive
<1> QED
  BY <1>1, <1>3, <1>4, <1>5 DEF Own

-----------------------------------------------------------------------------
(* A connection comes.                                                     *)

LEMMA AcceptKeeps ==
  ASSUME Shape, NEW f \in Fds, Accept(f), Own
  PROVE  Shape' /\ (~ undefined' => Own')
<1> DEFINE c == accepted + 1
<1>1. /\ accepted < MaxConns /\ BaseIdle /\ f \notin open
      /\ accepted' = c /\ fd' = [fd EXCEPT ![c] = f]
      /\ loop' = [loop EXCEPT ![c] = IF threadNum = 0 THEN 0 ELSE currentIndex + 1]
      /\ currentIndex' = IF threadNum = 0 THEN 0 ELSE next
      /\ refs' = [refs EXCEPT ![c] = {"local"}]
      /\ open' = open \cup {f} /\ base' = "insert"
      /\ Breaks("map", \E t \in Threads : Erasing(t))
      /\ UNCHANGED <<threadNum, server, connections, state, handler, reports>>
  BY DEF Accept, ClientWaits, Grants, config
<1>2. c \in Conns /\ c > accepted /\ c \in 0 .. MaxConns /\ accepted \in Nat
  BY <1>1, Constants DEF Shape, Conns
<1>3. (IF threadNum = 0 THEN 0 ELSE currentIndex + 1) \in Threads
  BY DEF Shape, Threads
<1>4. currentIndex' \in 0 .. threadNum /\ (currentIndex' < threadNum \/ threadNum = 0)
  BY <1>1 DEF Shape, next
<1> HIDE DEF c
<1>5. Shape'
  BY <1>1, <1>2, <1>3, <1>4 DEF Shape, Threads, BasePhases, Breaks
<1>6. ASSUME ~ undefined' PROVE Own'
  <2>1. refs[c] = {} /\ refs'[c] = {"local"} /\ fd'[c] = f
    BY <1>1, <1>2 DEF Own, Shape
  <2>2. \A d \in Conns : d # c => refs'[d] = refs[d] /\ fd'[d] = fd[d] /\ loop'[d] = loop[d]
    BY <1>1, <1>2 DEF Shape
  <2>3. \A t \in Threads : ~ Erasing(t)' /\ ~ Erasing(t)
    BY <1>1, <1>6 DEF Erasing, Breaks, undefined
  <2>4. \A d \in Conns : d > accepted' => d > accepted /\ d # c
    BY <1>1, <1>2, Constants DEF c
  <2>5. \A d \in Conns : d > accepted' => refs'[d] = {}
    BY <2>2, <2>4 DEF Own
  <2>6. \A d \in Conns : Alive(d)' <=> Alive(d) \/ d = c
    BY <2>1, <2>2 DEF Alive
  <2>7. \A d \in Conns : Alive(d)' => fd'[d] \in open'
    BY <1>1, <2>1, <2>2, <2>6 DEF Own
  <2>8. \A g \in open' : \E d \in Conns : Alive(d)' /\ fd'[d] = g
    <3>1. SUFFICES ASSUME NEW g \in open' PROVE \E d \in Conns : Alive(d)' /\ fd'[d] = g
      OBVIOUS
    <3>2. CASE g = f
      BY <1>2, <2>1, <2>6, <3>2
    <3>3. CASE g \in open
      <4>1. PICK d \in Conns : Alive(d) /\ fd[d] = g
        BY <3>3 DEF Own
      <4>2. d # c
        BY <2>1, <4>1 DEF Alive
      <4> QED
        BY <2>2, <2>6, <4>1, <4>2
    <3> QED
      BY <1>1, <3>2, <3>3
  <2>9. \A d, e \in Conns : Alive(d)' /\ Alive(e)' /\ fd'[d] = fd'[e] => d = e
    <3>1. \A d \in Conns : Alive(d)' /\ d # c => fd'[d] # f
      BY <1>1, <2>2, <2>6 DEF Own
    <3> QED
      BY <2>1, <2>2, <2>6, <3>1 DEF Own
  <2>10. \A g \in Fds : connections[g] # c
    BY <1>2, <2>1 DEF Own
  <2>11. \A g \in Fds : connections'[g] # none => fd'[connections'[g]] = g
    BY <1>1, <2>2, <2>10 DEF Own, Shape
  <2>12. \A d \in Conns : "map" \in refs'[d] <=> \E g \in Fds : connections'[g] = d
    BY <1>1, <2>1, <2>2, <2>10 DEF Own
  <2>13. \A d \in Conns : ~ At(d, "erasing")'
    <3>1. \A d \in Conns : loop'[d] \in Threads
      BY <1>5, <1>1 DEF Shape, Threads
    <3> QED
      BY <2>3, <3>1 DEF At, Erasing
  <2>14. Current' = c /\ "map" \notin refs'[c] /\ "local" \in refs'[c]
    BY <1>1, <2>1 DEF Current
  <2>15. \A t \in Threads' : ~ Erasing(t)'
    BY <1>1, <2>3 DEF Threads
  <2> QED
    BY <2>5, <2>7, <2>8, <2>9, <2>11, <2>12, <2>13, <2>14, <2>15 DEF Own
<1> QED
  BY <1>5, <1>6

\* A descriptor that serves a living connection has no entry but its own.
LEMMA EntryIsOwn ==
  ASSUME Shape, Own, NEW c \in Conns, Alive(c)
  PROVE  /\ fd[c] \in Fds /\ connections[fd[c]] \in {c, none}
         /\ \A f \in Fds : connections[f] = c <=> f = fd[c] /\ "map" \in refs[c]
<1>1. fd[c] \in open /\ open \subseteq Fds
  BY DEF Own, Shape
<1>2. ASSUME connections[fd[c]] # none PROVE connections[fd[c]] = c
  <2> DEFINE d == connections[fd[c]]
  <2>1. d \in Conns /\ fd[d] = fd[c]
    BY <1>1, <1>2 DEF Own, Shape
  <2>2. Alive(d)
    BY <1>1, <2>1 DEF Own, Alive
  <2> QED
    BY <2>1, <2>2 DEF Own
<1>3. ASSUME NEW f \in Fds, connections[f] = c PROVE f = fd[c] /\ "map" \in refs[c]
  BY <1>3, Constants DEF Own
<1>4. ASSUME "map" \in refs[c] PROVE connections[fd[c]] = c
  BY <1>3, <1>4 DEF Own
<1> QED
  BY <1>1, <1>2, <1>3, <1>4

LEMMA InsertKeeps ==
  ASSUME Shape, Insert, Own
  PROVE  Shape' /\ Own'
<1> DEFINE c == Current
<1>1. /\ base = "insert" /\ base' = "register"
      /\ connections' = [connections EXCEPT ![fd[c]] = c]
      /\ refs' = [refs EXCEPT ![c] = @ \cup {"map"}]
      /\ UNCHANGED <<threadNum, server, currentIndex, accepted, fd, loop, state, open, reports,
                     handler, fault>>
  BY DEF Insert, config
<1>2. c \in Conns /\ "local" \in refs[c] /\ "map" \notin refs[c] /\ Alive(c)
      /\ \A t \in Threads : ~ Erasing(t)
  BY <1>1 DEF Shape, Own, Alive, Current
<1>3. fd[c] \in Fds /\ connections[fd[c]] = none /\ \A f \in Fds : connections[f] # c
  <2>1. /\ fd[c] \in Fds /\ connections[fd[c]] \in {c, none}
        /\ \A f \in Fds : connections[f] # c
    BY <1>2, EntryIsOwn
  <2> QED
    BY <2>1
<1>4. Shape'
  BY <1>1, <1>2 DEF Shape, Threads, BasePhases
<1>5. c' = c
  BY <1>1 DEF Current
<1> HIDE DEF c
<1>6. /\ connections'[fd[c]] = c
      /\ \A f \in Fds : f # fd[c] => connections'[f] = connections[f]
      /\ refs'[c] = refs[c] \cup {"map"}
      /\ \A d \in Conns : d # c => refs'[d] = refs[d]
  BY <1>1, <1>2, <1>3 DEF Shape
<1>7. \A d \in Conns : Alive(d)' <=> Alive(d)
  BY <1>2, <1>6 DEF Alive
<1>8. \A f \in Fds : connections'[f] # none => fd'[connections'[f]] = f
  BY <1>1, <1>6 DEF Own
<1>9. \A d \in Conns : "map" \in refs'[d] <=> \E f \in Fds : connections'[f] = d
  <2>1. SUFFICES ASSUME NEW d \in Conns, d # c
                 PROVE  "map" \in refs'[d] <=> \E f \in Fds : connections'[f] = d
    BY <1>3, <1>6
  <2>2. \A f \in Fds : connections'[f] = d <=> connections[f] = d
    BY <1>3, <1>6, <2>1, Constants
  <2> QED
    BY <1>6, <2>1, <2>2 DEF Own
<1>10. \A d \in Conns : d > accepted => refs'[d] = {}
  BY <1>2, <1>6 DEF Own, Alive
<1>11. \A d \in Conns : At(d, "erasing")' => "callback" \in refs'[d]
  <2>1. \A d \in Conns : At(d, "erasing")' <=> At(d, "erasing")
    BY <1>1 DEF At
  <2> QED
    BY <2>1, <1>6 DEF Own
<1>12. "local" \in refs'[c]
  BY <1>2, <1>6
<1> QED
  BY <1>1, <1>4, <1>5, <1>7, <1>8, <1>9, <1>10, <1>11, <1>12 DEF Own, c

-----------------------------------------------------------------------------
(* A connection goes.                                                      *)

\* A pointer that is not the map's, or the last one, is dropped.
LEMMA ReturnKeeps ==
  ASSUME Shape, Return, Own
  PROVE  Shape' /\ Own'
<1> DEFINE c == Current
<1>1. /\ base = "return" /\ base' = "idle"
      /\ refs' = [refs EXCEPT ![c] = refs[c] \ {"local"}]
      /\ open' = IF refs[c] \ {"local"} = {} THEN open \ {fd[c]} ELSE open
      /\ UNCHANGED <<threadNum, server, currentIndex, connections, accepted, fd, loop, state,
                     reports, handler, fault>>
  BY DEF Return, Hold, config
<1>2. c \in Conns /\ "local" \in refs[c] /\ Alive(c)
  BY <1>1 DEF Shape, Own, Alive, Current
<1>3. Shape'
  BY <1>1, <1>2 DEF Shape, Threads, BasePhases
<1> HIDE DEF c
<1>4. /\ refs'[c] = refs[c] \ {"local"}
      /\ \A d \in Conns : d # c => refs'[d] = refs[d]
  BY <1>1, <1>2 DEF Shape
<1>5. \A d \in Conns : Alive(d)' => Alive(d) /\ fd[d] \in open'
  <2>1. SUFFICES ASSUME NEW d \in Conns, Alive(d)' PROVE Alive(d) /\ fd[d] \in open'
    OBVIOUS
  <2>2. Alive(d) /\ fd[d] \in open
    BY <1>2, <1>4, <2>1 DEF Alive, Own
  <2>3. d # c => fd[d] # fd[c]
    BY <1>2, <2>2 DEF Own
  <2>4. d = c => refs[c] \ {"local"} # {}
    BY <1>4, <2>1 DEF Alive
  <2> QED
    BY <1>1, <2>2, <2>3, <2>4
<1>6. \A g \in open' : \E d \in Conns : Alive(d)' /\ fd[d] = g
  <2>1. SUFFICES ASSUME NEW g \in open' PROVE \E d \in Conns : Alive(d)' /\ fd[d] = g
    OBVIOUS
  <2>2. PICK d \in Conns : Alive(d) /\ fd[d] = g
    BY <1>1, <2>1 DEF Own
  <2>3. d = c => refs[c] \ {"local"} # {}
    BY <1>1, <2>1, <2>2
  <2>4. Alive(d)'
    BY <1>4, <2>2, <2>3 DEF Alive
  <2> QED
    BY <2>2, <2>4
<1>7. \A d \in Conns : /\ "map" \in refs'[d] <=> "map" \in refs[d]
                       /\ "callback" \in refs[d] => "callback" \in refs'[d]
                       /\ refs[d] = {} => refs'[d] = {}
  BY <1>4
<1>8. \A d \in Conns : At(d, "erasing")' <=> At(d, "erasing")
  BY <1>1 DEF At
<1> QED
  BY <1>1, <1>3, <1>5, <1>6, <1>7, <1>8 DEF Own

LEMMA DestroyOneKeeps ==
  ASSUME Shape, NEW f \in Fds, DestroyOne(f), Own
  PROVE  Shape' /\ Own'
<1> DEFINE c == connections[f]
<1>1. /\ c # none
      /\ connections' = [connections EXCEPT ![f] = none]
      /\ state' = [state EXCEPT ![c] = "DISCONNECTED"]
      /\ refs' = [refs EXCEPT ![c] = refs[c] \ {"map"}]
      /\ open' = IF refs[c] \ {"map"} = {} THEN open \ {fd[c]} ELSE open
      /\ Breaks("connection", handler[loop[c]].c = c)
      /\ UNCHANGED <<threadNum, server, currentIndex, accepted, fd, loop, base, handler>>
  BY DEF DestroyOne, Hold, config
<1>2. c \in Conns /\ fd[c] = f /\ "map" \in refs[c] /\ Alive(c)
  BY <1>1 DEF Shape, Own, Alive
<1>3. DOMAIN reports' = Conns
  BY <1>2 DEF DestroyOne, Report, Shape
<1>4. Shape'
  BY <1>1, <1>2, <1>3 DEF Shape, Threads, BasePhases, Breaks
<1> HIDE DEF c
<1>5. /\ refs'[c] = refs[c] \ {"map"}
      /\ \A d \in Conns : d # c => refs'[d] = refs[d]
      /\ connections'[f] = none
      /\ \A g \in Fds : g # f => connections'[g] = connections[g]
  BY <1>1, <1>2 DEF Shape
<1>6. \A d \in Conns : Alive(d)' => Alive(d) /\ fd[d] \in open'
  <2>1. SUFFICES ASSUME NEW d \in Conns, Alive(d)' PROVE Alive(d) /\ fd[d] \in open'
    OBVIOUS
  <2>2. Alive(d) /\ fd[d] \in open
    BY <1>2, <1>5, <2>1 DEF Alive, Own
  <2>3. d # c => fd[d] # fd[c]
    BY <1>2, <2>2 DEF Own
  <2>4. d = c => refs[c] \ {"map"} # {}
    BY <1>5, <2>1 DEF Alive
  <2> QED
    BY <1>1, <2>2, <2>3, <2>4
<1>7. \A g \in open' : \E d \in Conns : Alive(d)' /\ fd[d] = g
  <2>1. SUFFICES ASSUME NEW g \in open' PROVE \E d \in Conns : Alive(d)' /\ fd[d] = g
    OBVIOUS
  <2>2. PICK d \in Conns : Alive(d) /\ fd[d] = g
    BY <1>1, <2>1 DEF Own
  <2>3. d = c => refs[c] \ {"map"} # {}
    BY <1>1, <2>1, <2>2
  <2>4. Alive(d)'
    BY <1>5, <2>2, <2>3 DEF Alive
  <2> QED
    BY <2>2, <2>4
<1>8. \A d \in Conns : "map" \in refs'[d] <=> \E g \in Fds : connections'[g] = d
  <2>1. SUFFICES ASSUME NEW d \in Conns
                 PROVE  "map" \in refs'[d] <=> \E g \in Fds : connections'[g] = d
    OBVIOUS
  <2>2. CASE d = c
    <3>1. \A g \in Fds : connections[g] = c => g = f
      BY <1>2, EntryIsOwn
    <3> QED
      BY <1>2, <1>5, <2>2, <3>1, Constants
  <2>3. CASE d # c
    <3>1. \A g \in Fds : connections'[g] = d <=> connections[g] = d
      BY <1>5, <2>3, Constants DEF c
    <3> QED
      BY <1>5, <2>3, <3>1 DEF Own
  <2> QED
    BY <2>2, <2>3
<1>9. \A d \in Conns : /\ "callback" \in refs[d] => "callback" \in refs'[d]
                       /\ "local" \in refs[d] => "local" \in refs'[d]
                       /\ "map" \notin refs[d] => "map" \notin refs'[d]
                       /\ refs[d] = {} => refs'[d] = {}
  BY <1>5
<1>10. \A d \in Conns : At(d, "erasing")' <=> At(d, "erasing")
  BY <1>1 DEF At
<1>11. \A g \in Fds : connections'[g] # none => fd[connections'[g]] = g
  BY <1>5 DEF Own
<1>12. \A t \in Threads : Erasing(t)' <=> Erasing(t)
  BY <1>1 DEF Erasing
<1>13. base # "idle" => Current \in Conns
  BY DEF Shape, Current
<1>14. UNCHANGED <<Threads, Current>>
  BY <1>1 DEF Threads, Current
<1> QED
  BY <1>1, <1>4, <1>6, <1>7, <1>8, <1>9, <1>10, <1>11, <1>12, <1>13, <1>14 DEF Own

LEMMA BeginEraseKeeps ==
  ASSUME Shape, NEW c \in Conns, BeginErase(c), Own
  PROVE  Shape' /\ (~ undefined' => Own')
<1>1. /\ refs' = [refs EXCEPT ![c] = @ \cup {"callback"}]
      /\ Breaks(IF Alive(c) THEN "map" ELSE "connection",
                \/ ~ Alive(c) \/ base = "insert" \/ server = "destroying"
                \/ \E t \in Threads : Erasing(t))
      /\ handler' = [handler EXCEPT ![loop[c]] = [at |-> "erasing", c |-> c]]
      /\ UNCHANGED <<threadNum, server, currentIndex, connections, accepted, fd, loop, state,
                     open, reports, base>>
  BY DEF BeginErase, Goes, config
<1>2. loop[c] \in Threads
  BY DEF Shape
<1>3. [at |-> "erasing", c |-> c] \in [at : Phases, c : Conns \cup {none}]
  BY DEF Phases
<1>4. Shape'
  BY <1>1, <1>2, <1>3 DEF Shape, Threads, Breaks
<1>5. /\ refs'[c] = refs[c] \cup {"callback"}
      /\ \A d \in Conns : d # c => refs'[d] = refs[d]
      /\ \A t \in Threads : t # loop[c] => handler'[t] = handler[t]
      /\ handler'[loop[c]] = [at |-> "erasing", c |-> c]
  BY <1>1, <1>2 DEF Shape
<1>6. ASSUME ~ undefined' PROVE Own'
  <2>1. Alive(c) /\ base # "insert" /\ \A t \in Threads : ~ Erasing(t)
    BY <1>1, <1>6 DEF Breaks, undefined
  <2>2. \A d \in Conns : Alive(d)' <=> Alive(d)
    BY <1>5, <2>1 DEF Alive
  <2>3. \A d \in Conns : /\ "map" \in refs'[d] <=> "map" \in refs[d]
                         /\ "local" \in refs[d] => "local" \in refs'[d]
    BY <1>5
  <2>4. \A d \in Conns : d > accepted => refs'[d] = {}
    BY <1>5, <2>1 DEF Own, Alive
  <2>5. \A d \in Conns : At(d, "erasing")' => d = c
    <3>1. SUFFICES ASSUME NEW d \in Conns, At(d, "erasing")' PROVE d = c
      OBVIOUS
    <3>2. handler'[loop[d]] = [at |-> "erasing", c |-> d] /\ loop[d] \in Threads
      BY <1>1, <3>1 DEF At, Shape
    <3>3. CASE loop[d] = loop[c]
      BY <1>5, <3>2, <3>3
    <3>4. CASE loop[d] # loop[c]
      BY <1>5, <2>1, <3>2, <3>4 DEF Erasing
    <3> QED
      BY <3>3, <3>4
  <2>6. base # "idle" => Current \in Conns
    BY DEF Shape, Current
  <2>7. UNCHANGED Current
    BY <1>1 DEF Current
  <2>8. \A d \in Conns : At(d, "erasing")' => "callback" \in refs'[d]
    BY <1>5, <2>5
  <2> QED
    BY <1>1, <2>1, <2>2, <2>3, <2>4, <2>6, <2>7, <2>8 DEF Own
<1> QED
  BY <1>4, <1>6

LEMMA EndEraseKeeps ==
  ASSUME Shape, NEW c \in Conns, EndErase(c), Own
  PROVE  Shape' /\ Own'
<1>1. "callback" \in refs[c] /\ Alive(c) /\ fd[c] \in Fds /\ connections[fd[c]] \in {c, none}
  <2>1. "callback" \in refs[c] /\ Alive(c)
    BY DEF EndErase, Own, Alive
  <2> QED
    BY <2>1, EntryIsOwn
<1>2. connections' = [connections EXCEPT ![fd[c]] = none] /\ connections'[fd[c]] = none
  BY <1>1 DEF EndErase, Erase, Shape
<1>3. /\ refs' = [refs EXCEPT ![c] = refs[c] \ {"map", "callback"}]
      /\ open' = IF refs[c] \ {"map", "callback"} = {} THEN open \ {fd[c]} ELSE open
      /\ handler' = [handler EXCEPT ![loop[c]] = [at |-> "tail", c |-> c]]
      /\ UNCHANGED <<threadNum, server, currentIndex, accepted, fd, loop, state, reports, base,
                     fault>>
  BY <1>2, Constants DEF EndErase, Goes, Hold, config
<1>4. loop[c] \in Threads
  BY DEF Shape
<1>5. [at |-> "tail", c |-> c] \in [at : Phases, c : Conns \cup {none}]
  BY DEF Phases
<1>6. Shape'
  BY <1>1, <1>2, <1>3, <1>4, <1>5 DEF Shape, Threads
<1>7. /\ refs'[c] = refs[c] \ {"map", "callback"}
      /\ \A d \in Conns : d # c => refs'[d] = refs[d]
      /\ \A g \in Fds : g # fd[c] => connections'[g] = connections[g]
      /\ \A t \in Threads : t # loop[c] => handler'[t] = handler[t]
      /\ handler'[loop[c]] = [at |-> "tail", c |-> c]
  BY <1>1, <1>2, <1>3, <1>4 DEF Shape
<1>8. \A d \in Conns : Alive(d)' => Alive(d) /\ fd[d] \in open'
  <2>1. SUFFICES ASSUME NEW d \in Conns, Alive(d)' PROVE Alive(d) /\ fd[d] \in open'
    OBVIOUS
  <2>2. Alive(d) /\ fd[d] \in open
    BY <1>1, <1>7, <2>1 DEF Alive, Own
  <2>3. d # c => fd[d] # fd[c]
    BY <1>1, <2>2 DEF Own
  <2>4. d = c => refs[c] \ {"map", "callback"} # {}
    BY <1>7, <2>1 DEF Alive
  <2> QED
    BY <1>3, <2>2, <2>3, <2>4
<1>9. \A g \in open' : \E d \in Conns : Alive(d)' /\ fd[d] = g
  <2>1. SUFFICES ASSUME NEW g \in open' PROVE \E d \in Conns : Alive(d)' /\ fd[d] = g
    OBVIOUS
  <2>2. PICK d \in Conns : Alive(d) /\ fd[d] = g
    BY <1>3, <2>1 DEF Own
  <2>3. d = c => refs[c] \ {"map", "callback"} # {}
    BY <1>3, <2>1, <2>2
  <2>4. Alive(d)'
    BY <1>7, <2>2, <2>3 DEF Alive
  <2> QED
    BY <2>2, <2>4
<1>10. \A d \in Conns : "map" \in refs'[d] <=> \E g \in Fds : connections'[g] = d
  <2>1. SUFFICES ASSUME NEW d \in Conns
                 PROVE  "map" \in refs'[d] <=> \E g \in Fds : connections'[g] = d
    OBVIOUS
  <2>2. CASE d = c
    <3>1. \A g \in Fds : connections[g] = c => g = fd[c]
      BY <1>1, EntryIsOwn
    <3> QED
      BY <1>2, <1>7, <2>2, <3>1, Constants
  <2>3. CASE d # c
    <3>1. \A g \in Fds : connections'[g] = d <=> connections[g] = d
      BY <1>1, <1>2, <1>7, <2>3, Constants
    <3> QED
      BY <1>7, <2>3, <3>1 DEF Own
  <2> QED
    BY <2>2, <2>3
<1>11. \A d \in Conns : At(d, "erasing")' => "callback" \in refs'[d]
  <2>1. SUFFICES ASSUME NEW d \in Conns, At(d, "erasing")' PROVE "callback" \in refs'[d]
    OBVIOUS
  <2>2. loop[d] \in Threads /\ handler'[loop[d]] = [at |-> "erasing", c |-> d]
    BY <1>3, <2>1 DEF At, Shape
  <2>3. loop[d] # loop[c]
    BY <1>7, <2>2
  <2>4. At(d, "erasing")
    BY <1>7, <2>2, <2>3 DEF At
  <2> QED
    BY <1>7, <2>3, <2>4 DEF Own
<1>12. \A d \in Conns : /\ "local" \in refs[d] => "local" \in refs'[d]
                        /\ "map" \notin refs[d] => "map" \notin refs'[d]
                        /\ refs[d] = {} => refs'[d] = {}
  BY <1>7
<1>13. \A g \in Fds : connections'[g] # none => fd[connections'[g]] = g
  BY <1>2, <1>7 DEF Own
<1>14. \A t \in Threads : Erasing(t)' => Erasing(t)
  <2>1. SUFFICES ASSUME NEW t \in Threads, Erasing(t)' PROVE Erasing(t)
    OBVIOUS
  <2>2. t # loop[c]
    BY <1>7, <2>1 DEF Erasing
  <2> QED
    BY <1>7, <2>1, <2>2 DEF Erasing
<1>15. base # "idle" => Current \in Conns
  BY DEF Shape, Current
<1>16. UNCHANGED <<Threads, Current>>
  BY <1>3 DEF Threads, Current
<1> QED
  BY <1>3, <1>6, <1>8, <1>9, <1>10, <1>11, <1>12, <1>13, <1>14, <1>15, <1>16 DEF Own

-----------------------------------------------------------------------------
(* The invariant and the property.                                         *)

LEMMA StepInv == Inv /\ [Next]_vars => Inv'
<1> SUFFICES ASSUME Inv, [Next]_vars PROVE Inv'
  OBVIOUS
<1>1. CASE UNCHANGED vars
  BY <1>1 DEF vars, config, conn, Inv, Shape, Own, Threads, Alive, At, Erasing, Current, undefined
<1>2. CASE Quiet
  <2>1. Shape' /\ (undefined => undefined')
    BY <1>2, QuietShape, QuietSteps DEF Inv
  <2>2. Own => Own'
    BY <1>2, QuietOwn DEF Inv
  <2> QED
    BY <2>1, <2>2 DEF Inv
<1>3. ASSUME NEW f \in Fds, Accept(f) PROVE Inv'
  BY <1>3, AcceptKeeps DEF Inv, Accept, ClientWaits
<1>4. CASE Insert
  BY <1>4, InsertKeeps DEF Inv, Insert
<1>5. CASE Return
  BY <1>5, ReturnKeeps DEF Inv, Return
<1>6. ASSUME NEW f \in Fds, DestroyOne(f) PROVE Inv'
  BY <1>6, DestroyOneKeeps DEF Inv, DestroyOne
<1>7. ASSUME NEW c \in Conns, BeginErase(c) PROVE Inv'
  BY <1>7, BeginEraseKeeps DEF Inv, BeginErase
<1>8. ASSUME NEW c \in Conns, EndErase(c) PROVE Inv'
  BY <1>8, EndEraseKeeps DEF Inv, EndErase
<1> QED
  BY <1>1, <1>2, <1>3, <1>4, <1>5, <1>6, <1>7, <1>8 DEF Next, BaseStep, CloseStep, Quiet

\* The inductive invariant holds in every reachable state.
THEOREM Invariance == Spec => []Inv
<1> QED
  BY InitInv, StepInv, PTL DEF Spec

\* The map holds exactly the living connections that are entered in it, each
\* under its own open descriptor, and removeConnection() finds under the
\* descriptor of its connection that connection or nothing: as long as no two
\* threads use the map at once, for every number of loops and of connections.
THEOREM EntriesAreOwnAlways == Spec => []EntriesAreOwn
<1>1. Inv => EntriesAreOwn
  <2> SUFFICES ASSUME Shape, Own PROVE EntriesAreOwn
    BY DEF Inv, EntriesAreOwn
  <2>1. ASSUME NEW f \in Fds, connections[f] # none
        PROVE  f \in open /\ fd[connections[f]] = f
    <3>1. connections[f] \in Conns /\ fd[connections[f]] = f
      BY <2>1 DEF Shape, Own
    <3>2. Alive(connections[f])
      BY <3>1 DEF Own, Alive
    <3> QED
      BY <3>1, <3>2 DEF Own
  <2>2. ASSUME NEW c \in Conns
        PROVE  "map" \in refs[c] <=> c \in {connections[f] : f \in Fds}
    BY DEF Own
  <2>3. ASSUME NEW c \in Conns, At(c, "erasing") PROVE connections[fd[c]] \in {c, none}
    <3>1. Alive(c)
      BY <2>3 DEF Own, Alive
    <3> QED
      BY <3>1, EntryIsOwn
  <2> QED
    BY <2>1, <2>2, <2>3 DEF EntriesAreOwn
<1> QED
  BY <1>1, Invariance, PTL

-----------------------------------------------------------------------------
(* One thread does it all.                                                 *)

\* Its one thread is the base thread.
LEMMA OneThread ==
  ASSUME Shape, threadNum = 0
  PROVE  /\ Threads = {0} /\ 0 \in DOMAIN handler /\ \A c \in Conns : loop[c] = 0
         /\ handler[0].at \in Phases /\ handler[0].c \in Conns \cup {none}
         /\ accepted \in Nat
<1>1. Threads = {0}
  BY DEF Threads
<1>2. 0 \in DOMAIN handler /\ \A c \in Conns : loop[c] \in {0}
  BY <1>1 DEF Shape
<1>3. handler[0] \in [at : Phases, c : Conns \cup {none}]
  BY <1>1 DEF Shape
<1>4. accepted \in Nat
  BY Constants DEF Shape
<1> QED
  BY <1>1, <1>2, <1>3, <1>4

\* A second element.
LEMMA AppendToOne ==
  ASSUME NEW S, NEW s \in Seq(S), NEW e \in S, Len(s) = 1
  PROVE  Append(s, e) = <<s[1], e>>
<1>1. 1 \in 1 .. Len(s)
  OBVIOUS
<1>2. s[1] \in S
  BY <1>1, ElementOfSeq
<1>3. Append(s, e) \in Seq(S)
  BY AppendProperties
<1>4. Len(Append(s, e)) = Len(s) + 1
  BY AppendProperties
<1>5. Append(s, e)[1] = s[1] /\ Append(s, e)[Len(s) + 1] = e
  BY <1>1, AppendProperties
<1> DEFINE u == Append(s, e)
           v == <<s[1], e>>
<1>6. u \in Seq(S)
  BY <1>3
<1>7. v \in Seq(S) /\ Len(v) = 2 /\ v[1] = s[1] /\ v[2] = e
  BY <1>2
<1>8. Len(u) = 2 /\ u[1] = v[1] /\ u[2] = v[2]
  BY <1>4, <1>5, <1>7
<1> HIDE DEF u, v
<1>9. \A i \in 1 .. Len(u) : u[i] = v[i]
  <2>1. \A i \in 1 .. 2 : i = 1 \/ i = 2
    OBVIOUS
  <2> QED
    BY <1>8, <2>1
<1>10. u = v
  BY <1>6, <1>7, <1>8, <1>9, SeqEqual
<1> QED
  BY <1>10 DEF u, v

LEMMA UpThenDown == Append(<<"up">>, "down") = <<"up", "down">>
<1> DEFINE s == <<"up">>
<1>1. s \in Seq({"up", "down"})
  OBVIOUS
<1>2. "down" \in {"up", "down"} /\ Len(s) = 1 /\ s[1] = "up"
  OBVIOUS
<1> HIDE DEF s
<1>3. Append(s, "down") = <<s[1], "down">>
  BY <1>1, <1>2, AppendToOne
<1> QED
  BY <1>2, <1>3 DEF s

\* A report reaches the history of its connection alone.
LEMMA ReportsGo ==
  ASSUME Shape, NEW c \in Conns, NEW what, Report(c, what)
  PROVE  /\ \A d \in Conns : d # c => reports'[d] = reports[d]
         /\ reports'[c] = IF Len(reports[c]) < MaxReports THEN Append(reports[c], what)
                                                         ELSE reports[c]
  BY DEF Shape, Report

LEMMA UpIsReported ==
  ASSUME Shape, NEW c \in Conns, reports[c] = <<>>, Report(c, "up")
  PROVE  IsUp(reports'[c])
<1>1. reports'[c] = IF Len(reports[c]) < MaxReports THEN Append(reports[c], "up") ELSE reports[c]
  BY ReportsGo
<1>2. Len(<<>>) = 0 /\ Append(<<>>, "up") = <<"up">>
  OBVIOUS
<1> QED
  BY <1>1, <1>2, TcpServerAssumption DEF IsUp

LEMMA DownIsReported ==
  ASSUME Shape, NEW c \in Conns, IsUp(reports[c]), Report(c, "down")
  PROVE  IsOver(reports'[c])
<1>1. reports'[c] = IF Len(reports[c]) < MaxReports THEN Append(reports[c], "down")
                                                    ELSE reports[c]
  BY ReportsGo
<1>2. Len(<<"up">>) = 1
  OBVIOUS
<1> QED
  BY <1>1, <1>2, UpThenDown, TcpServerAssumption DEF IsUp, IsOver

\* What is not worked on stays as it is.
LEMMA Undisturbed ==
  ASSUME NEW d \in Conns, UNCHANGED <<refs[d], reports[d]>>, d \in watched' => d \in watched
  PROVE  (Fresh(d) => Fresh(d)') /\ (Settled(d) => Settled(d)')
  BY DEF Fresh, Settled

\* Steps that change no connection.
Aside == Start \/ AcceptDies \/ BeginDestroy \/ EndDestroy \/ \E c \in Conns : PeerCloses(c)

LEMMA AsideIsSolo ==
  ASSUME Shape, threadNum = 0, Solo, ~ undefined, Aside
  PROVE  Solo'
<1>1. UNCHANGED <<connections, accepted, state, watched, refs, reports, base, handler>>
  BY DEF Aside, Start, AcceptDies, BeginDestroy, EndDestroy, PeerCloses, conn
<1>2. fault' = "no"
  <2>1. fault = "no"
    BY DEF Solo, undefined
  <2>2. CASE BeginDestroy
    BY <2>2, OneThread DEF BeginDestroy, BaseIdle, Breaks, Erasing
  <2>3. CASE ~ BeginDestroy
    BY <2>1, <2>3 DEF Aside, Start, AcceptDies, EndDestroy, PeerCloses
  <2> QED
    BY <2>2, <2>3
<1>3. \A c \in Conns : Role(c)'
  BY <1>1 DEF Solo, Role, Fresh, Coming, Going, Settled, Current
<1>4. (handler[0].at # "idle" \/ base # "idle") => server' = "running"
  BY DEF Solo, Aside, Start, AcceptDies, BeginDestroy, EndDestroy, PeerCloses, ClientWaits, BaseIdle
<1>5. server' = "down" => \A f \in Fds : connections[f] = none
  BY DEF Solo, Aside, Start, listen, AcceptDies, BeginDestroy, EndDestroy, PeerCloses
<1> QED
  BY <1>1, <1>2, <1>3, <1>4, <1>5 DEF Solo, undefined

LEMMA AcceptIsSolo ==
  ASSUME Shape, threadNum = 0, Solo, NEW f \in Fds, Accept(f)
  PROVE  Solo'
<1> SUFFICES ASSUME NEW c \in Conns, c = accepted + 1 PROVE Solo'
  BY OneThread, Constants DEF Accept, ClientWaits, Conns
<1>1. /\ accepted < MaxConns /\ base = "idle" /\ handler[0].at = "idle" /\ server = "running"
      /\ accepted' = c /\ base' = "insert"
      /\ refs' = [refs EXCEPT ![c] = {"local"}]
      /\ Breaks("map", \E t \in Threads : Erasing(t))
      /\ UNCHANGED <<server, connections, watched, handler, reports>>
  BY DEF Accept, ClientWaits, BaseIdle, config
<1>2. accepted \in Nat /\ c \in Conns /\ c > accepted
  BY <1>1, OneThread, Constants DEF Conns
<1>3. fault' = "no"
  BY <1>1, OneThread DEF Erasing, Breaks
<1>4. handler[0].c = none
  BY <1>1 DEF Solo
<1>5. ASSUME NEW d \in Conns PROVE Role(d)'
  <2>1. CASE d = c
    <3>1. reports[c] = <<>>
      BY <1>2 DEF Solo, Role, Fresh
    <3>2. refs'[c] = {"local"}
      BY <1>1, <1>2 DEF Shape
    <3>3. Coming(c)'
      BY <1>1, <3>1, <3>2 DEF Coming
    <3>4. ~ (c > accepted') /\ Current' = c
      BY <1>1, <1>2 DEF Current
    <3> QED
      BY <1>1, <2>1, <3>3, <3>4 DEF Role
  <2>2. CASE d # c
    <3>1. UNCHANGED <<refs[d], reports[d]>> /\ (d \in watched' <=> d \in watched)
      BY <1>1, <2>2 DEF Shape
    <3>2. d > accepted' <=> d > accepted
      BY <1>1, <1>2, <2>2, Constants
    <3>3. Current' # d /\ handler'[0].c # d
      BY <1>1, <1>4, <2>2, Constants DEF Current
    <3>4. IF d > accepted THEN Fresh(d) ELSE Settled(d)
      BY <1>1, <1>4, Constants DEF Solo, Role
    <3> QED
      BY <3>1, <3>2, <3>3, <3>4, Undisturbed DEF Role
  <2> QED
    BY <2>1, <2>2
<1>6. none <= accepted'
  BY <1>1, <1>2 DEF none
<1> QED
  BY <1>1, <1>3, <1>4, <1>5, <1>6 DEF Solo, undefined

\* newConnection() takes its connection a step further.
Onward == Insert \/ Register \/ SetConnected \/ ReportUp \/ Return

LEMMA OnwardIsSolo ==
  ASSUME Shape, threadNum = 0, Solo, Onward
  PROVE  Solo'
<1> SUFFICES ASSUME NEW c \in Conns, c = Current, base # "idle" PROVE Solo'
  BY DEF Onward, Insert, Register, SetConnected, ReportUp, Return, Shape, Current
<1>1. base # "idle" /\ UNCHANGED <<server, accepted, handler, fault>>
  BY DEF Onward, Insert, Register, SetConnected, ReportUp, Return, config
<1>2. c \in Conns /\ handler[0].at = "idle" /\ handler[0].c = none /\ server = "running"
      /\ accepted \in Nat /\ c = accepted /\ Current' = c
  BY <1>1, OneThread DEF Shape, Solo, Current
<1>3. Coming(c)
  BY <1>1, <1>2, Constants DEF Solo, Role
<1>4. base' = "idle" => Return
  BY DEF Onward, Insert, Register, SetConnected, ReportUp, Return
<1>5. ~ (c > accepted')
  BY <1>1, <1>2
<1>6. \A d \in Conns : d # c => UNCHANGED <<refs[d], reports[d]>> /\ (d \in watched' => d \in watched)
  <2>1. CASE Insert
    BY <2>1 DEF Insert, Shape
  <2>2. CASE Register
    BY <2>2 DEF Register
  <2>3. CASE SetConnected
    BY <2>3 DEF SetConnected
  <2>4. CASE ReportUp
    BY <2>4, <1>2, ReportsGo DEF ReportUp
  <2>5. CASE Return
    BY <2>5 DEF Return, Hold, Shape
  <2> QED
    BY <2>1, <2>2, <2>3, <2>4, <2>5 DEF Onward
<1>7. IF base' = "idle" THEN Settled(c)' ELSE Coming(c)'
  <2>1. CASE Insert
    <3>1. base = "insert" /\ base' = "register" /\ refs'[c] = refs[c] \cup {"map"}
          /\ UNCHANGED <<reports, state>>
      BY <1>2, <2>1 DEF Insert, Shape
    <3> QED
      BY <1>2, <1>3, <3>1 DEF Coming
  <2>2. CASE Register
    BY <1>2, <1>3, <2>2 DEF Register, Coming
  <2>3. CASE SetConnected
    <3>1. base = "connected" /\ base' = "report" /\ state'[c] = "CONNECTED"
          /\ UNCHANGED <<reports, refs>>
      BY <1>2, <2>3 DEF SetConnected, Shape
    <3> QED
      BY <1>2, <1>3, <3>1 DEF Coming
  <2>4. CASE ReportUp
    <3>1. base = "report" /\ base' = "return" /\ UNCHANGED <<state, refs>>
          /\ state[c] = "CONNECTED" /\ reports[c] = <<>>
      BY <1>3, <2>4 DEF ReportUp, Coming
    <3>2. IsUp(reports'[c])
      BY <1>2, <2>4, <3>1, UpIsReported DEF ReportUp
    <3> QED
      BY <1>2, <1>3, <3>1, <3>2 DEF Coming
  <2>5. CASE Return
    <3>1. base = "return" /\ base' = "idle" /\ refs'[c] = refs[c] \ {"local"}
          /\ UNCHANGED reports
      BY <1>2, <2>5 DEF Return, Hold, Shape
    <3>2. refs'[c] = {"map"} /\ IsUp(reports'[c])
      BY <1>3, <3>1 DEF Coming
    <3> QED
      BY <3>1, <3>2 DEF Settled
  <2> QED
    BY <2>1, <2>2, <2>3, <2>4, <2>5 DEF Onward
<1>8. ASSUME NEW d \in Conns PROVE Role(d)'
  <2>1. CASE d = c
    BY <1>1, <1>2, <1>5, <1>7, <2>1, Constants DEF Role
  <2>2. CASE d # c
    <3>1. IF d > accepted THEN Fresh(d) ELSE Settled(d)
      BY <1>2, <2>2, Constants DEF Solo, Role
    <3> QED
      BY <1>1, <1>2, <1>6, <2>2, <3>1, Undisturbed, Constants DEF Role
  <2> QED
    BY <2>1, <2>2
<1> QED
  BY <1>1, <1>2, <1>8 DEF Solo, undefined

LEMMA DestroyOneIsSolo ==
  ASSUME Shape, Own, threadNum = 0, Solo, NEW f \in Fds, DestroyOne(f)
  PROVE  Solo'
<1> SUFFICES ASSUME NEW c \in Conns, c = connections[f] PROVE Solo'
  BY DEF DestroyOne, Shape
<1>1. /\ server = "destroying" /\ c # none
      /\ Report(c, "down")
      /\ refs' = [refs EXCEPT ![c] = refs[c] \ {"map"}]
      /\ watched' \subseteq watched \ {c}
      /\ Breaks("connection", handler[loop[c]].c = c)
      /\ UNCHANGED <<server, accepted, base, handler>>
  BY DEF DestroyOne, Hold
<1>2. c \in Conns /\ "map" \in refs[c]
  BY <1>1 DEF Shape, Own
<1>3. base = "idle" /\ handler[0].at = "idle" /\ handler[0].c = none /\ loop[c] = 0
  BY <1>1, <1>2, OneThread DEF Solo
<1>4. ~ (c > accepted) /\ refs[c] = {"map"} /\ IsUp(reports[c])
  BY <1>2, <1>3, Constants DEF Solo, Role, Fresh, Settled
<1>5. IsOver(reports'[c])
  BY <1>1, <1>2, <1>4, DownIsReported
<1>6. \A d \in Conns : d # c => reports'[d] = reports[d]
  BY <1>1, <1>2, ReportsGo
<1>7. ASSUME NEW d \in Conns PROVE Role(d)'
  <2>1. CASE d = c
    <3>1. refs'[c] = {} /\ c \notin watched'
      BY <1>1, <1>2, <1>4 DEF Shape
    <3>2. Settled(c)'
      BY <1>5, <3>1 DEF Settled
    <3> QED
      BY <1>1, <1>2, <1>3, <1>4, <2>1, <3>2, Constants DEF Role
  <2>2. CASE d # c
    <3>1. IF d > accepted THEN Fresh(d) ELSE Settled(d)
      BY <1>3, Constants DEF Solo, Role
    <3>2. UNCHANGED <<refs[d], reports[d]>> /\ (d \in watched' => d \in watched)
      BY <1>1, <1>6, <2>2 DEF Shape
    <3> QED
      BY <1>1, <1>3, <3>1, <3>2, Undisturbed, Constants DEF Role
  <2> QED
    BY <2>1, <2>2
<1>8. fault' = "no"
  BY <1>1, <1>2, <1>3, Constants DEF Breaks
<1> QED
  BY <1>1, <1>3, <1>7, <1>8 DEF Solo, undefined

\* The state while handleEvent is at work on the end of c.
LEMMA AtWork ==
  ASSUME Shape, threadNum = 0, Solo, NEW c \in Conns,
         NEW at \in Phases \ {"idle"}, At(c, at)
  PROVE  /\ handler[0].at = at /\ handler[0].c = c /\ loop[c] = 0
         /\ base = "idle" /\ server = "running" /\ ~ (c > accepted)
         /\ Going(c)
         /\ \A d \in Conns : d # c => IF d > accepted THEN Fresh(d) ELSE Settled(d)
<1>1. handler[0] = [at |-> at, c |-> c] /\ loop[c] = 0
  BY OneThread DEF At
<1>2. handler[0].at = at /\ handler[0].c = c
  BY <1>1
<1>3. base = "idle" /\ server = "running" /\ ~ (c > accepted)
  BY <1>2, OneThread, Constants DEF Solo
<1> QED
  BY <1>1, <1>2, <1>3 DEF Solo, Role

\* A step that concerns c alone and leaves it being worked on, or settled.
LEMMA OneIsSolo ==
  ASSUME Shape, threadNum = 0, NEW c \in Conns, ~ (c > accepted),
         \A d \in Conns : d # c => IF d > accepted THEN Fresh(d) ELSE Settled(d),
         \A d \in Conns : d # c => /\ UNCHANGED <<refs[d], reports[d]>>
                                   /\ d \in watched' => d \in watched,
         UNCHANGED <<accepted, base, server>>, base = "idle", server = "running",
         fault' \in {"no", "channel"}, undefined' => handler'[0].at = "tail",
         IF handler'[0].at = "idle" THEN handler'[0].c = none /\ Settled(c)'
                                    ELSE handler'[0].c = c /\ Going(c)'
  PROVE  Solo'
<1>1. ASSUME NEW d \in Conns PROVE Role(d)'
  <2>1. CASE d = c
    BY <2>1, Constants DEF Role
  <2>2. CASE d # c
    <3>1. handler'[0].c # d
      BY <2>2, Constants
    <3>2. IF d > accepted THEN Fresh(d)' ELSE Settled(d)'
      BY <2>2, Undisturbed
    <3> QED
      BY <3>1, <3>2 DEF Role
  <2> QED
    BY <2>1, <2>2
<1>2. handler'[0].c <= accepted
  BY OneThread, Constants DEF none
<1>3. handler'[0].at = "idle" <=> handler'[0].c = none
  BY Constants
<1> QED
  BY <1>1, <1>2, <1>3 DEF Solo

LEMMA PolledIsSolo ==
  ASSUME Shape, threadNum = 0, Solo, NEW c \in Conns, Polled(c)
  PROVE  Solo'
<1>1. c \in watched /\ handler[0].at = "idle" /\ base = "idle" /\ server = "running"
  BY OneThread DEF Polled
<1>2. handler' = [handler EXCEPT ![0] = [at |-> "polled", c |-> c]]
      /\ UNCHANGED <<accepted, base, server, refs, reports, watched, fault>>
  BY OneThread DEF Polled, Goes, conn
<1>3. handler[0].c = none
  BY <1>1 DEF Solo
<1>4. \A d \in Conns : IF d > accepted THEN Fresh(d) ELSE Settled(d)
  BY <1>1, <1>3, Constants DEF Solo, Role
<1>5. ~ (c > accepted) /\ refs[c] = {"map"} /\ IsUp(reports[c])
  BY <1>1, <1>4 DEF Fresh, Settled
<1>6. handler'[0].at = "polled" /\ handler'[0].c = c
  BY <1>2, OneThread
<1>7. Going(c)'
  BY <1>2, <1>5, <1>6 DEF Going
<1>8. fault' \in {"no", "channel"} /\ ~ undefined'
  BY <1>2 DEF Polled, Solo, undefined
<1> QED
  BY <1>1, <1>2, <1>4, <1>5, <1>6, <1>7, <1>8, OneIsSolo

LEMMA HandleCloseIsSolo ==
  ASSUME Shape, threadNum = 0, Solo, NEW c \in Conns, HandleClose(c)
  PROVE  Solo'
<1>1. /\ handler[0].at = "polled" /\ loop[c] = 0 /\ base = "idle" /\ server = "running"
      /\ ~ (c > accepted) /\ Going(c)
      /\ \A d \in Conns : d # c => IF d > accepted THEN Fresh(d) ELSE Settled(d)
  BY AtWork DEF HandleClose, Phases
<1>2. /\ handler' = [handler EXCEPT ![0] = [at |-> "report", c |-> c]]
      /\ state' = [state EXCEPT ![c] = "DISCONNECTED"]
      /\ Breaks("connection", ~ Alive(c))
      /\ UNCHANGED <<accepted, base, server, refs, reports, watched>>
  BY <1>1 DEF HandleClose, Goes
<1>3. refs[c] = {"map"} /\ IsUp(reports[c])
  BY <1>1 DEF Going
<1>4. handler'[0].at = "report" /\ handler'[0].c = c /\ state'[c] = "DISCONNECTED"
  BY <1>2, OneThread DEF Shape
<1>5. Going(c)'
  BY <1>2, <1>3, <1>4 DEF Going
<1>6. fault' = "no" /\ ~ undefined'
  BY <1>2, <1>3 DEF Alive, Breaks, undefined
<1> QED
  BY <1>1, <1>2, <1>4, <1>5, <1>6, OneIsSolo

LEMMA ReportDownIsSolo ==
  ASSUME Shape, threadNum = 0, Solo, NEW c \in Conns, ReportDown(c)
  PROVE  Solo'
<1>1. /\ handler[0].at = "report" /\ loop[c] = 0 /\ base = "idle" /\ server = "running"
      /\ ~ (c > accepted) /\ Going(c)
      /\ \A d \in Conns : d # c => IF d > accepted THEN Fresh(d) ELSE Settled(d)
  BY AtWork DEF ReportDown, Phases
<1>2. refs[c] = {"map"} /\ IsUp(reports[c]) /\ state[c] = "DISCONNECTED"
  BY <1>1 DEF Going
<1>3. /\ handler' = [handler EXCEPT ![0] = [at |-> "erase", c |-> c]]
      /\ Report(c, "down")
      /\ Breaks("connection", ~ Alive(c))
      /\ UNCHANGED <<accepted, base, server, refs, watched>>
  BY <1>1, <1>2 DEF ReportDown, Goes
<1>4. handler'[0].at = "erase" /\ handler'[0].c = c
  BY <1>3, OneThread
<1>5. IsOver(reports'[c])
  BY <1>2, <1>3, DownIsReported
<1>6. Going(c)'
  BY <1>2, <1>3, <1>4, <1>5 DEF Going
<1>7. fault' = "no" /\ ~ undefined'
  BY <1>2, <1>3 DEF Alive, Breaks, undefined
<1>8. \A d \in Conns : d # c => reports'[d] = reports[d]
  BY <1>3, ReportsGo
<1> QED
  BY <1>1, <1>3, <1>4, <1>6, <1>7, <1>8, OneIsSolo

LEMMA BeginEraseIsSolo ==
  ASSUME Shape, threadNum = 0, Solo, NEW c \in Conns, BeginErase(c)
  PROVE  Solo'
<1>1. /\ handler[0].at = "erase" /\ loop[c] = 0 /\ base = "idle" /\ server = "running"
      /\ ~ (c > accepted) /\ Going(c)
      /\ \A d \in Conns : d # c => IF d > accepted THEN Fresh(d) ELSE Settled(d)
  BY AtWork DEF BeginErase, Phases
<1>2. refs[c] = {"map"} /\ IsOver(reports[c])
  BY <1>1 DEF Going
<1>3. /\ handler' = [handler EXCEPT ![0] = [at |-> "erasing", c |-> c]]
      /\ refs' = [refs EXCEPT ![c] = @ \cup {"callback"}]
      /\ UNCHANGED <<accepted, base, server, reports, watched>>
  BY <1>1 DEF BeginErase, Goes
<1>4. fault' = "no" /\ ~ undefined'
  BY <1>1, <1>2, OneThread DEF BeginErase, Alive, Erasing, Breaks, undefined
<1>5. handler'[0].at = "erasing" /\ handler'[0].c = c
  BY <1>3, OneThread
<1>6. refs'[c] = {"map", "callback"} /\ \A d \in Conns : d # c => refs'[d] = refs[d]
  BY <1>2, <1>3 DEF Shape
<1>7. Going(c)'
  BY <1>2, <1>3, <1>5, <1>6 DEF Going
<1> QED
  BY <1>1, <1>3, <1>4, <1>5, <1>6, <1>7, OneIsSolo

LEMMA EndEraseIsSolo ==
  ASSUME Shape, Own, threadNum = 0, Solo, NEW c \in Conns, EndErase(c)
  PROVE  Solo'
<1>1. /\ handler[0].at = "erasing" /\ loop[c] = 0 /\ base = "idle" /\ server = "running"
      /\ ~ (c > accepted) /\ Going(c)
      /\ \A d \in Conns : d # c => IF d > accepted THEN Fresh(d) ELSE Settled(d)
  BY AtWork DEF EndErase, Phases
<1>2. refs[c] = {"map", "callback"} /\ IsOver(reports[c])
  BY <1>1 DEF Going
<1>3. fd[c] \in Fds
  BY <1>2, EntryIsOwn DEF Alive
<1>4. connections'[fd[c]] = none
  BY <1>3 DEF EndErase, Erase, Shape
<1>5. /\ handler' = [handler EXCEPT ![0] = [at |-> "tail", c |-> c]]
      /\ refs' = [refs EXCEPT ![c] = {}]
      /\ watched' = watched \ {c}
      /\ UNCHANGED <<accepted, base, server, reports, fault>>
  <2>1. refs[c] \ {"map", "callback"} = {}
    BY <1>2
  <2> QED
    BY <1>1, <1>4, <2>1, Constants DEF EndErase, Goes, Hold
<1>6. handler'[0].at = "tail" /\ handler'[0].c = c
  BY <1>5, OneThread
<1>7. refs'[c] = {} /\ \A d \in Conns : d # c => refs'[d] = refs[d]
  BY <1>5 DEF Shape
<1>8. Going(c)'
  BY <1>2, <1>5, <1>6, <1>7 DEF Going
<1>9. fault' \in {"no", "channel"}
  BY <1>5 DEF Solo
<1> QED
  BY <1>1, <1>5, <1>6, <1>7, <1>8, <1>9, OneIsSolo

\* It is here alone that something deleted is used, and nothing follows.
LEMMA EndEventIsSolo ==
  ASSUME Shape, threadNum = 0, Solo, NEW c \in Conns, EndEvent(c)
  PROVE  Solo'
<1>1. /\ handler[0].at = "tail" /\ handler[0].c = c /\ loop[c] = 0
      /\ base = "idle" /\ server = "running" /\ ~ (c > accepted) /\ Going(c)
      /\ \A d \in Conns : d # c => IF d > accepted THEN Fresh(d) ELSE Settled(d)
  BY AtWork DEF EndEvent, Phases
<1>2. refs[c] = {} /\ IsOver(reports[c]) /\ c \notin watched
  BY <1>1 DEF Going
<1>3. UNCHANGED <<accepted, base, server, refs, reports, watched, state>>
  BY DEF EndEvent, conn
<1>4. CASE handler' = [handler EXCEPT ![loop[c]] = idle] /\ UNCHANGED fault
  <2>1. handler'[0] = idle
    BY <1>1, <1>4, OneThread
  <2>2. handler'[0].at = "idle" /\ handler'[0].c = none
    BY <2>1 DEF idle
  <2>3. Settled(c)'
    BY <1>2, <1>3 DEF Settled
  <2>4. fault' \in {"no", "channel"} /\ ~ undefined'
    BY <1>4 DEF EndEvent, undefined
  <2> QED
    BY <1>1, <1>3, <2>2, <2>3, <2>4, OneIsSolo
<1>5. CASE fault' = "channel" /\ UNCHANGED handler
  <2>1. Going(c)'
    BY <1>1, <1>3, <1>5 DEF Going
  <2> QED
    BY <1>1, <1>3, <1>5, <2>1, OneIsSolo
<1> QED
  BY <1>4, <1>5 DEF EndEvent

LEMMA InitSolo == Init => SoloInv
<1> SUFFICES ASSUME Init, threadNum = 0 PROVE Solo
  BY DEF SoloInv
<1>1. Shape
  BY InitInv DEF Inv
<1>2. handler[0] = idle /\ accepted = 0
  BY <1>1, OneThread DEF Init
<1>3. ASSUME NEW c \in Conns PROVE Role(c)
  <2>1. c > accepted
    BY <1>2, TcpServerAssumption DEF Conns
  <2> QED
    BY <2>1 DEF Init, Role, Fresh
<1> QED
  BY <1>2, <1>3 DEF Init, Solo, idle, none, undefined

LEMMA StepSolo == Inv /\ SoloInv /\ [Next]_vars => SoloInv'
<1> SUFFICES ASSUME Shape, ~ undefined => Own, SoloInv, [Next]_vars, threadNum' = 0
             PROVE  Solo'
  BY DEF Inv, SoloInv
<1>1. threadNum = 0
  BY DEF Next, BaseStep, CloseStep, Start, AcceptDies, BeginDestroy, EndDestroy, PeerCloses,
         Accept, Insert, Register, SetConnected, ReportUp, Return, DestroyOne, Polled,
         HandleClose, ReportDown, BeginErase, EndErase, EndEvent, vars, config
<1>2. Solo
  BY <1>1 DEF SoloInv
<1>3. CASE UNCHANGED vars
  BY <1>2, <1>3 DEF vars, conn, Solo, Role, Fresh, Coming, Going, Settled, Current, undefined
<1>3a. Next => ~ undefined
  <2>1. undefined => server = "running"
    BY <1>2 DEF Solo
  <2> QED
    BY <2>1 DEF Next, BaseStep, CloseStep, Start, AcceptDies, ClientWaits, BeginDestroy,
           EndDestroy, PeerCloses, Accept, Insert, Register, SetConnected, ReportUp, Return,
           DestroyOne, Polled, HandleClose, ReportDown, BeginErase, EndErase, EndEvent
<1> SUFFICES ASSUME Next, ~ undefined, Own PROVE Solo'
  BY <1>3, <1>3a
<1>4. CASE Aside
  BY <1>1, <1>2, <1>4, AsideIsSolo
<1>5. ASSUME NEW f \in Fds, Accept(f) PROVE Solo'
  BY <1>1, <1>2, <1>5, AcceptIsSolo
<1>6. CASE Onward
  BY <1>1, <1>2, <1>6, OnwardIsSolo
<1>7. ASSUME NEW f \in Fds, DestroyOne(f) PROVE Solo'
  BY <1>1, <1>2, <1>7, DestroyOneIsSolo
<1>8. ASSUME NEW c \in Conns,
             \/ Polled(c) \/ HandleClose(c) \/ ReportDown(c) \/ BeginErase(c)
             \/ EndErase(c) \/ EndEvent(c)
      PROVE  Solo'
  BY <1>1, <1>2, <1>8, PolledIsSolo, HandleCloseIsSolo, ReportDownIsSolo, BeginEraseIsSolo,
     EndEraseIsSolo, EndEventIsSolo
<1> QED
  BY <1>3, <1>4, <1>5, <1>6, <1>7, <1>8 DEF Next, BaseStep, CloseStep, Aside, Onward

\* Without other threads no two uses of the map meet, no handler is entered
\* for a deleted connection, each connection is told that it is up and then that
\* it is down and no more, and a server that is gone leaves no descriptor.  Only
\* handleEvent() goes on with the channel its close handler has deleted, after
\* the connection has been told its end: for every set of descriptors and every
\* number of clients, however many close at once.
THEOREM SoundOnOneThreadAlways == Spec => []SoundOnOneThread
<1>1. Inv /\ SoloInv => SoundOnOneThread
  <2> SUFFICES ASSUME Shape, ~ undefined => Own, threadNum = 0, Solo PROVE SoundOnOneThread
    BY DEF Inv, SoloInv, SoundOnOneThread
  <2>1. ASSUME NEW c \in Conns PROVE reports[c] \in {<<>>, <<"up">>, <<"up", "down">>}
    BY DEF Solo, Role, Fresh, Coming, Going, Settled, IsUp, IsOver
  <2>2. ASSUME server = "down", NEW f \in open PROVE FALSE
    <3>1. Own /\ base = "idle" /\ handler[0].c = none
      BY <2>2 DEF Solo
    <3>2. PICK c \in Conns : Alive(c) /\ fd[c] = f
      BY <3>1 DEF Own
    <3>3. refs[c] = {"map"}
      BY <3>1, <3>2, Constants DEF Solo, Role, Fresh, Settled, Alive
    <3>4. \E g \in Fds : connections[g] = c
      BY <3>1, <3>3 DEF Own
    <3> QED
      BY <2>2, <3>4, Constants DEF Solo
  <2>3. ASSUME NEW c \in Conns, At(c, "tail")
        PROVE  ~ Alive(c) /\ reports[c] = <<"up", "down">>
    <3>1. handler[0].at = "tail" /\ Going(c)
      BY <2>3, AtWork DEF Phases
    <3> QED
      BY <3>1 DEF Going, Alive, IsOver
  <2>4. fault \in {"no", "channel"}
    BY DEF Solo
  <2> QED
    BY <2>1, <2>2, <2>3, <2>4 DEF SoundOnOneThread
<1>2. Spec => []SoloInv
  BY InitSolo, StepSolo, Invariance, PTL DEF Spec
<1> QED
  BY <1>1, <1>2, Invariance, PTL

=============================================================================
