-------------------------------- MODULE Libc --------------------------------
(***************************************************************************)
(* The functions of firmware/lib/omni_libc.c.                              *)
(*                                                                         *)
(* The memory functions take the memory, a function from addresses to      *)
(* bytes, and return what they leave or what they answer; a loop of the   *)
(* code is a function of the number of turns it has made.  The conversions  *)
(* take a string as the sequence of its characters.  A long is Long values *)
(* wide, and two's complement.                                             *)
(***************************************************************************)
EXTENDS Integers, Sequences, SequencesExt, FiniteSetsExt

CONSTANT Long   \* 2^32
LongMax == (Long \div 2) - 1
LongMin == -(Long \div 2)

Upto(n)   == [i \in 1..n |-> i - 1]        \* 0, 1, ... n - 1
Downto(n) == [i \in 1..n |-> n - i]        \* n - 1, ... 1, 0

------------------------------------------------------------------------------
(* Memory.                                                                 *)

CopyCells(m, d, s, order) ==
  LET turn[k \in 0..Len(order)] ==
        IF k = 0 THEN m
        ELSE LET mm == turn[k - 1] IN [mm EXCEPT ![d + order[k]] = mm[s + order[k]]]
  IN  turn[Len(order)]

memcpy(m, d, s, n) == CopyCells(m, d, s, Upto(n))

\* Mutant: memmove always copies forward.
memmove_Forward(m, d, s, n) == memcpy(m, d, s, n)

memmove(m, d, s, n) ==
  IF d < s THEN CopyCells(m, d, s, Upto(n))
  ELSE IF d > s THEN CopyCells(m, d, s, Downto(n))
  ELSE m

memset(m, d, c, n) ==
  LET turn[k \in 0..n] == IF k = 0 THEN m ELSE [turn[k - 1] EXCEPT ![d + k - 1] = c % 256]
  IN  turn[n]

memcmp(m, a, b, n) ==
  LET differ == {i \in 0..(n - 1) : m[a + i] # m[b + i]}
  IN  IF differ = {} THEN 0 ELSE m[a + Min(differ)] - m[b + Min(differ)]

------------------------------------------------------------------------------
(* Strings: a pointer into the memory, up to the first 0.                  *)

strlen(m, s) == Min({i \in 0..(Cardinality(DOMAIN m) - 1 - s) : m[s + i] = 0})

strcpy(m, d, s) ==
  LET copied == CopyCells(m, d, s, Upto(strlen(m, s)))
  IN  [copied EXCEPT ![d + strlen(m, s)] = 0]

strncpy(m, d, s, n) ==
  LET k == Min({n, strlen(m, s)})
  IN  memset(CopyCells(m, d, s, Upto(k)), d + k, 0, n - k)

\* The indices at which a comparison may stop: a difference, or the end of both.
Stops(m, a, b, n) ==
  {i \in 0..(n - 1) : /\ \A j \in 0..(i - 1) : m[a + j] = m[b + j] /\ m[a + j] # 0
                      /\ m[a + i] # m[b + i] \/ m[a + i] = 0}

strcmp(m, a, b) ==
  LET stop == Min(Stops(m, a, b, Cardinality(DOMAIN m))) IN m[a + stop] - m[b + stop]

strncmp(m, a, b, n) ==
  LET stops == Stops(m, a, b, n) IN IF stops = {} THEN 0 ELSE m[a + Min(stops)] - m[b + Min(stops)]

NULL == -1
Occurrences(m, s, c) == {i \in 0..strlen(m, s) : m[s + i] = c % 256}
strchr(m, s, c)  == IF Occurrences(m, s, c) = {} THEN NULL ELSE s + Min(Occurrences(m, s, c))
strrchr(m, s, c) == IF Occurrences(m, s, c) = {} THEN NULL ELSE s + Max(Occurrences(m, s, c))

------------------------------------------------------------------------------
(* Conversion.                                                             *)

Digits  == <<"0","1","2","3","4","5","6","7","8","9","a","b","c","d","e","f">>
Letters == [x |-> 33, z |-> 35]
White   == {" ", "\t", "\n", "\f", "\r"}

\* The characters the model uses: the sixteen digits, x and z.
digit_of(c, base) ==
  LET v == IF \E k \in 1..16 : Digits[k] = c THEN (CHOOSE k \in 1..16 : Digits[k] = c) - 1
           ELSE IF c \in DOMAIN Letters THEN Letters[c] ELSE base
  IN  IF v < base THEN v ELSE -1

\* Character i of s, the terminator beyond its end.
At(s, i) == IF i <= Len(s) THEN s[i] ELSE "nul"

\* The first position from i on whose character is not in good.
Skip(s, i, good) == Min({j \in i..(Len(s) + 1) : At(s, j) \notin good})

HexPrefix(s, p) == At(s, p) = "0" /\ At(s, p + 1) = "x" /\ digit_of(At(s, p + 2), 16) >= 0

\* [v, sat] after the digits s[i..j-1]: saturated for good once the next digit
\* would pass ULONG_MAX.
Accumulate(s, i, j, base) ==
  LET turn[k \in 0..(j - i)] ==
        IF k = 0 THEN [v |-> 0, sat |-> FALSE]
        ELSE LET acc == turn[k - 1]
                 d   == digit_of(s[i + k - 1], base)
             IN  IF acc.sat \/ acc.v > (Long - 1 - d) \div base THEN [acc EXCEPT !.sat = TRUE]
                 ELSE [acc EXCEPT !.v = acc.v * base + d]
  IN  turn[j - i]

\* end is how many characters were used, 0 when nothing was converted.
parse_mag(s, base) ==
  LET sgn   == Skip(s, 1, White)
      p     == IF At(s, sgn) \in {"+", "-"} THEN sgn + 1 ELSE sgn
      hex   == base \in {0, 16} /\ HexPrefix(s, p)
      radix == IF hex THEN 16 ELSE IF base # 0 THEN base ELSE IF At(s, p) = "0" THEN 8 ELSE 10
      start == IF hex THEN p + 2 ELSE p
      stop  == Skip(s, start, {c \in Range(s) : digit_of(c, radix) >= 0})
      acc   == Accumulate(s, start, stop, radix)
      none  == radix \notin 2..36 \/ stop = start
  IN  [neg |-> At(s, sgn) = "-",
       end |-> IF none THEN 0 ELSE stop - 1,
       v   |-> IF none THEN 0 ELSE acc.v,
       sat |-> ~none /\ acc.sat]

\* value, end and conv_errno
strtoul(s, base) ==
  LET m == parse_mag(s, base)
  IN  [value |-> IF m.sat THEN Long - 1 ELSE IF m.neg THEN (0 - m.v) % Long ELSE m.v,
       end |-> m.end, erange |-> m.sat]

strtol(s, base) ==
  LET m   == parse_mag(s, base)
      big == m.sat \/ m.v > (IF m.neg THEN LongMax + 1 ELSE LongMax)
  IN  [value |-> IF big THEN (IF m.neg THEN LongMin ELSE LongMax) ELSE IF m.neg THEN -m.v ELSE m.v,
       end |-> m.end, erange |-> big]

------------------------------------------------------------------------------
(* Formatting.                                                             *)

\* The digits of v > 0 in the order the code extracts them, lowest first.
Extracted[v \in 0..Long, base \in {10, 16}] ==
  IF v = 0 THEN <<>> ELSE <<Digits[(v % base) + 1]>> \o Extracted[v \div base, base]

\* v is two's complement, so -v of the least value is itself, as unsigned its magnitude.
itoa(v) ==
  IF v = 0 THEN <<"0">>
  ELSE IF v < 0 THEN Reverse(Append(Extracted[(0 - v) % Long, 10], "-"))
  ELSE Reverse(Extracted[v, 10])

utoa_hex(v) == IF v = 0 THEN <<"0">> ELSE Reverse(Extracted[v, 16])
=============================================================================
