------------------------------ MODULE LogStream ------------------------------
(***************************************************************************)
(* base/LogStream: values are converted to text straight into a buffer of  *)
(* fixed size, each followed by a blank, and dropped when it does not fit. *)
(* A character is a string of length one.                                  *)
(***************************************************************************)
EXTENDS Digits, SequencesExt

CONSTANTS
  kSmallSize,  \* bytes of the FixedBuffer: 4000
  Reserve,     \* bytes a conversion asks for: 32
  Bits,        \* width of the integers
  Chars,       \* the characters of texts
  Strings,     \* the strings appended
  Doubles,     \* texts snprintf() makes of the floating-point numbers appended
  Pointers     \* the addresses appended

\* Signed and unsigned integers.
Ints == -Power(2, Bits - 1) .. Power(2, Bits) - 1

\* What a conversion asks for is room for the digits of the largest number, its
\* sign or `0x', and a NUL.
ASSUME LogStreamAssumption ==
  /\ {kSmallSize, Bits} \subseteq Nat \ {0} /\ Reserve \in Nat \ 0 .. 3
  /\ Power(2, Bits) <= Power(10, Reserve - 2)
  /\ Pointers \subseteq 0 .. Power(16, Reserve - 3) - 1
  /\ Strings \cup Doubles \subseteq Seq(Chars)
  /\ \A t \in Doubles : Len(t) < Reserve

VARIABLES
  buf,     \* the bytes before _cur
  top,     \* history: bytes of the array any write has reached
  given    \* history: the values the stream took, as <<kind, value>>

StreamVars == <<buf, top, given>>

-----------------------------------------------------------------------------

digitsHex == <<"0", "1", "2", "3", "4", "5", "6", "7", "8", "9",
               "A", "B", "C", "D", "E", "F">>

\* What the buffer may hold.
Alphabet == Chars \cup Range(digitsHex) \cup {"x", "-", " "}

\* `/' and `%' of C++ round towards zero; zero[lsd] is the digit of |lsd|.
quot(i, d) == IF i >= 0 THEN i \div d ELSE -((-i) \div d)
lsd(i, d) == LET r == i - d * quot(i, d)
             IN  digitsHex[1 + (IF r >= 0 THEN r ELSE -r)]

\* `i' after n rounds of the do-while loop.
left(i, d) ==
  LET j[n \in 0 .. Reserve] == IF n = 0 THEN i ELSE quot(j[n - 1], d)
  IN  j

EndsAfter(j, n) == j[n] = 0 /\ \A m \in 1 .. n - 1 : j[m] # 0

\* The digits it leaves, the last one first.
backwards(i, d) ==
  LET rounds == CHOOSE n \in 1 .. Reserve : EndsAfter(left(i, d), n)
  IN  [n \in 1 .. rounds |-> lsd(left(i, d)[n - 1], d)]

convertForward(v) ==                     \* mutant: no std::reverse()
  backwards(v, 10) \o (IF v < 0 THEN <<"-">> ELSE <<>>)

convert(v) == Reverse(backwards(v, 10) \o (IF v < 0 THEN <<"-">> ELSE <<>>))

convertHex(p) == Reverse(backwards(p, 16))

-----------------------------------------------------------------------------

StreamInit == buf = <<>> /\ top = 0 /\ given = <<>>

rest == kSmallSize - Len(buf)

\* addLength(len) after writing s at _cur: len of its characters stay, and a
\* blank takes the place after them.
addLength(s, len) == buf' = buf \o SubSeq(s, 1, len) \o <<" ">>

\* The highest byte of the array written, by `n' bytes at _cur or the blank.
Reaches(n) == top' = IF Len(buf) + n > top THEN Len(buf) + n ELSE top

Takes(kind, v) == given' = Append(given, <<kind, v>>)

fitsExactly(len) == rest >= len          \* mutant: no place for the blank

fits(len) == rest > len

\* append(): strings and characters.
AppendText(t) ==
  /\ fits(Len(t))
  /\ addLength(t, Len(t))
  /\ Reaches(Len(t) + 1)
  /\ Takes("text", t)

\* formatInteger(): the text and its NUL.  A bool is the integer 0 or 1.
FormatInteger(v) ==
  /\ rest >= Reserve
  /\ addLength(convert(v), Len(convert(v)))
  /\ Reaches(Len(convert(v)) + 1)
  /\ Takes("int", v)

\* operator<<(double): snprintf() writes in place, with a NUL.
FormatDouble(t) ==
  /\ rest >= Reserve
  /\ addLength(t, Len(t))
  /\ Reaches(Len(t) + 1)
  /\ Takes("text", t)

\* operator<<(const void*): the length passed on leaves out the `0x'.
FormatPointer(p) ==
  /\ rest >= Reserve
  /\ addLength(<<"0", "x">> \o convertHex(p), Len(convertHex(p)))
  /\ Reaches(Len(convertHex(p)) + 3)
  /\ Takes("pointer", p)

\* What does not fit is dropped, without a word.
Drop ==
  /\ rest < Reserve \/ \E t \in Strings : ~ fits(Len(t))
  /\ UNCHANGED StreamVars

StreamNext ==
  \/ \E t \in Strings : AppendText(t)
  \/ \E v \in Ints : FormatInteger(v)
  \/ \E t \in Doubles : FormatDouble(t)
  \/ \E p \in Pointers : FormatPointer(p)
  \/ Drop

StreamSpec == StreamInit /\ [][StreamNext]_StreamVars

-----------------------------------------------------------------------------

\* No write passes the end of the array, the NULs of the conversions included.
StaysInArray ==
  /\ buf \in Seq(Alphabet)
  /\ top \in 0 .. kSmallSize
  /\ Len(buf) <= top

\* The buffer as its reader divides it: blanks end the tokens.
Cut(b) ==
  LET cut[n \in 0 .. Len(b)] ==
        IF n = 0 THEN [tokens |-> <<>>, open |-> <<>>]
        ELSE IF b[n] = " "
          THEN [tokens |-> Append(cut[n - 1].tokens, cut[n - 1].open), open |-> <<>>]
          ELSE [cut[n - 1] EXCEPT !.open = Append(@, b[n])]
  IN  cut[Len(b)]

\* The number a text stands for, most significant digit first.
value(c) == CHOOSE k \in 0 .. 15 : digitsHex[k + 1] = c

Numeral(s, d) == Number([i \in 1 .. Len(s) |-> value(s[i])], d)

IsIntegerOf(s, v) ==
  LET digits == IF v < 0 THEN Tail(s) ELSE s
  IN  /\ v < 0 => s[1] = "-"
      /\ Len(digits) > 1 => digits[1] # "0"
      /\ \A i \in DOMAIN digits : digits[i] \in Range(SubSeq(digitsHex, 1, 10))
      /\ Numeral(digits, 10) = IF v < 0 THEN -v ELSE v

\* A value taken, and the token its reader finds.  Of an address only the
\* leading digits are there: its last two are lost.
ReadAs(token, x) ==
  \/ x[1] = "text" /\ token = x[2]
  \/ x[1] = "int" /\ IsIntegerOf(token, x[2])
  \/ /\ x[1] = "pointer"
     /\ x[2] >= 256 => Numeral(SubSeq(token, 3, Len(token)), 16) = x[2] \div 256

HasBlank(x) == x[1] = "text" /\ " " \in Range(x[2])

\* Reading the buffer back gives the values taken, in order, integers exactly,
\* the smallest included.  Texts with blanks of their own hide where they end.
ReadsBack ==
  (\A i \in DOMAIN given : ~ HasBlank(given[i])) =>
    /\ Cut(buf).open = <<>>
    /\ Len(Cut(buf).tokens) = Len(given)
    /\ \A i \in DOMAIN given : ReadAs(Cut(buf).tokens[i], given[i])

=============================================================================
