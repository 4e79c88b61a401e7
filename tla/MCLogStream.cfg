SPECIFICATION StreamSpec
CONSTANTS
  kSmallSize = 10
  Reserve = 6
  Bits = 5
  Chars <- MCChars
  Strings <- MCStrings
  Doubles <- MCDoubles
  Pointers = {0, 26, 256, 4075}
INVARIANTS StaysInArray ReadsBack
