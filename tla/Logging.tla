------------------------------- MODULE Logging -------------------------------
(***************************************************************************)
(* base/Logging: a LOG_ macro makes an object, the expression after it     *)
(* streams pieces into the object's own buffer, and its destructor ends    *)
(* the line, hands it to g_output and, if it is fatal, calls g_flush and   *)
(* then abort(), between which other threads go on.  An expression may log *)
(* itself.   The text of a piece is LogStream's; here a piece has an id,    *)
(* a length and the room its operator asks for.                            *)
(***************************************************************************)
EXTENDS Naturals, Sequences, SequencesExt

CONSTANTS
  Thread,
  SIZE,       \* bytes of the buffer of a line
  Header,     \* the pieces the constructor streams, each [len, asks]
  Pieces,     \* the pieces users stream
  FATAL,      \* the highest level; NUM_LOG_LEVELS is one more
  MaxLines,   \* bound on the lines begun
  MaxNest,    \* bound on the lines a thread is in at once
  MaxPieces   \* bound on the pieces streamed into a line

Piece == {p \in [len : Nat, asks : Nat] : p.len < p.asks}

ASSUME LoggingAssumption ==
  /\ {SIZE, FATAL, MaxLines, MaxNest, MaxPieces} \subseteq Nat
  /\ Header \in Seq(Piece) /\ Pieces \subseteq Piece

Sink == {"stdout", "user"}     \* defaultOutput and defaultFlush, or the user's
lineBreak == [len |-> 1, asks |-> 2]

VARIABLES
  g_logLevel,
  g_output,   \* the sink it writes to
  g_flush,    \* the sink it flushes
  begun,      \* lines begun
  lines,      \* of each thread: its Logging objects, the innermost last
  dying,      \* of each thread: the sink and place of its fatal line, or none
  flushed,    \* of each thread: the sink its g_flush() flushed, or "nothing"
  dead,       \* abort() was called
  output,     \* of each sink: the lines it was given
  safe,       \* of each sink: how many of these it has flushed
  said        \* history: of each line, the pieces users streamed into it

globals == <<g_logLevel, g_output, g_flush>>
LogVars == <<globals, begun, lines, dying, flushed, dead, output, safe, said>>

none == <<>>

LogInit ==
  /\ g_logLevel = 0
  /\ g_output = "stdout" /\ g_flush = "stdout"
  /\ begun = 0
  /\ lines = [t \in Thread |-> <<>>]
  /\ dying = [t \in Thread |-> none]
  /\ flushed = [t \in Thread |-> "nothing"]
  /\ dead = FALSE
  /\ output = [s \in Sink |-> <<>>]
  /\ safe = [s \in Sink |-> 0]
  /\ said = <<>>

-----------------------------------------------------------------------------

\* The bytes of a buffer: FixedBuffer puts a blank after each piece.
length(text) ==
  LET sum[n \in 0 .. Len(text)] == IF n = 0 THEN 0 ELSE sum[n - 1] + text[n].len + 1
  IN  sum[Len(text)]

\* operator<<: what has no room is dropped.
put(text, p) == IF SIZE - length(text) >= p.asks THEN Append(text, p) ELSE text

\* A buffer into which these pieces were streamed.
filled(pieces) ==
  LET text[n \in 0 .. Len(pieces)] == IF n = 0 THEN <<>> ELSE put(text[n - 1], pieces[n])
  IN  text[Len(pieces)]

Runs(t) == ~ dead /\ dying[t] = none

\* The test of a LOG_ macro.
enabled(level) == g_logLevel <= level

\* The macro and the constructor.
Begin(t, level) ==
  /\ Runs(t)
  /\ enabled(level)
  /\ begun < MaxLines /\ Len(lines[t]) < MaxNest
  /\ begun' = begun + 1
  /\ lines' = [lines EXCEPT ![t] =
                 Append(@, [id |-> begun + 1, level |-> level,
                            text |-> filled(Header)])]
  /\ said' = Append(said, <<>>)
  /\ UNCHANGED <<globals, dying, flushed, dead, output, safe>>

outermost(t) == 1              \* mutant: one stream for the lines of a thread

innermost(t) == Len(lines[t])

Stream(t, p) ==
  /\ Runs(t) /\ lines[t] # <<>>
  /\ LET id == Last(lines[t]).id
     IN  /\ Len(said[id]) < MaxPieces
         /\ said' = [said EXCEPT ![id] = Append(@, p)]
  /\ lines' = [lines EXCEPT ![t][innermost(t)].text = put(@, p)]
  /\ UNCHANGED <<globals, begun, dying, flushed, dead, output, safe>>

\* ~Logging up to g_output().
End(t) ==
  /\ Runs(t) /\ lines[t] # <<>>
  /\ LET line == [Last(lines[t]) EXCEPT !.text = put(@, lineBreak)]
     IN  /\ output' = [output EXCEPT ![g_output] = Append(@, line)]
         /\ dying' = IF line.level = FATAL
                       THEN [dying EXCEPT ![t] = <<g_output, Len(output'[g_output])>>]
                       ELSE dying
  /\ lines' = [lines EXCEPT ![t] = Front(@)]
  /\ UNCHANGED <<globals, begun, flushed, dead, safe, said>>

FlushesNothing == safe         \* mutant: g_flush() is not called

\* g_flush() writes out all that its sink has been given so far.
FlushesSink == [safe EXCEPT ![g_flush] = Len(output[g_flush])]

\* After a fatal line: g_flush() ...
FlushFatal(t) ==
  /\ ~ dead /\ dying[t] # none /\ flushed[t] = "nothing"
  /\ safe' = FlushesSink
  /\ flushed' = [flushed EXCEPT ![t] = g_flush]
  /\ UNCHANGED <<globals, begun, lines, dying, dead, output, said>>

\* ... and abort().
Abort(t) ==
  /\ ~ dead /\ dying[t] # none /\ flushed[t] # "nothing"
  /\ dead' = TRUE
  /\ UNCHANGED <<globals, begun, lines, dying, flushed, output, safe, said>>

SetLogLevel(level) ==
  /\ ~ dead
  /\ g_logLevel' = level
  /\ UNCHANGED <<g_output, g_flush, begun, lines, dying, flushed, dead, output, safe, said>>

SetOutput(s) ==
  /\ ~ dead
  /\ g_output' = s
  /\ UNCHANGED <<g_logLevel, g_flush, begun, lines, dying, flushed, dead, output, safe, said>>

SetFlush(s) ==
  /\ ~ dead
  /\ g_flush' = s
  /\ UNCHANGED <<g_logLevel, g_output, begun, lines, dying, flushed, dead, output, safe, said>>

LogNext ==
  \/ \E t \in Thread :
       \/ \E level \in 0 .. FATAL : Begin(t, level)
       \/ \E p \in Pieces : Stream(t, p)
       \/ End(t)
       \/ FlushFatal(t)
       \/ Abort(t)
  \/ \E level \in 0 .. FATAL + 1 : SetLogLevel(level)
  \/ \E s \in Sink : SetOutput(s) \/ SetFlush(s)

LogSpec == LogInit /\ [][LogNext]_LogVars

-----------------------------------------------------------------------------

\* All that was streamed into a line, and whether every piece finds its room.
Streamed(line) == Header \o said[line.id] \o <<lineBreak>>

Fits(text) ==
  \A i \in DOMAIN text : length(SubSeq(text, 1, i - 1)) + text[i].asks <= SIZE

\* However threads and nested expressions interleave, a line that fits its
\* buffer comes out whole and with nothing of another line; one that does not
\* stays inside the buffer and runs into the next line only when it is full.
LinesAreWhole ==
  \A s \in Sink : \A line \in Range(output[s]) :
    /\ Fits(Streamed(line)) => line.text = Streamed(line)
    /\ length(line.text) <= SIZE
    /\ Last(line.text) = lineBreak \/ SIZE - length(line.text) < lineBreak.asks

\* Some thread's fatal line ends the process, and only after its g_flush(): what
\* other threads log, and to whichever sink they turn g_output and g_flush
\* meanwhile, the line and all before it have left the process if they were
\* given to the sink that was flushed.  (Nothing is said of a line given to
\* another sink, as after setOutput() without setFlush(), nor of what other
\* threads log between g_flush() and abort(), their fatal lines included.)
FatalIsFlushed ==
  /\ dead => \E t \in Thread : dying[t] # none /\ flushed[t] # "nothing"
  /\ \A t \in Thread :
       dying[t] # none /\ flushed[t] = dying[t][1] => dying[t][2] <= safe[flushed[t]]

=============================================================================
