---------------------------- MODULE LibraryCalls ----------------------------
(***************************************************************************)
(* A caller of the C library (Libc, Printf), and what C promises of each   *)
(* function, stated without following the code: a copy is the bytes that   *)
(* were there before, a comparison looks at the first difference, a        *)
(* conversion takes the longest numeral, a formatted number is as wide as  *)
(* asked and reads back as itself.                                         *)
(***************************************************************************)
EXTENDS Printf

CONSTANTS Size,        \* cells of the memory the caller works in
          Bytes,       \* what a cell may hold
          Chars,       \* the characters of the strings it converts
          MaxChars,    \* and how many of them
          Widths       \* field widths and precisions

ASSUME LibraryAssumption ==
  /\ Size \in Nat \ {0} /\ Bytes \subseteq 0..255 /\ 0 \in Bytes
  /\ Long \in Nat \ {0} /\ Long % 2 = 0
  /\ MaxChars \in Nat /\ Widths \subseteq 0..TMPMAX

VARIABLES mem,   \* the caller's memory
          call   \* the call it made last, with its result
vars == <<mem, call>>

Addr == 0..(Size - 1)
None == [fn |-> "none"]

Init == mem \in [Addr -> Bytes] /\ call = None

\* A string of MaxChars characters at most.
Strings == SeqOf(Chars, MaxChars)

Terminated(s)   == \E i \in s..(Size - 1) : mem[i] = 0
Room(p, n)      == p + n <= Size
Apart(d, s, n)  == d + n <= s \/ s + n <= d

\* A call that changes the memory from what it keeps in the record.
Writes(fn, d, s, n, result) ==
  mem' = result /\ call' = [fn |-> fn, d |-> d, s |-> s, n |-> n, before |-> mem]

Answers(fn, a, b, n, value) ==
  call' = [fn |-> fn, a |-> a, b |-> b, n |-> n, value |-> value] /\ UNCHANGED mem

Copies ==
  \E d \in Addr, s \in Addr, n \in 0..Size :
    /\ Room(d, n) /\ Room(s, n)
    /\ \/ Writes("memmove", d, s, n, memmove(mem, d, s, n))
       \/ Apart(d, s, n) /\ Writes("memcpy", d, s, n, memcpy(mem, d, s, n))
       \/ Apart(d, s, n) /\ Terminated(s) /\ Writes("strncpy", d, s, n, strncpy(mem, d, s, n))

Fills ==
  \E d \in Addr :
    \/ \E c \in Bytes, n \in 0..Size : Room(d, n) /\ Writes("memset", d, c, n, memset(mem, d, c, n))
    \/ \E s \in Addr : /\ Terminated(s) /\ Room(d, strlen(mem, s) + 1)
                       /\ Apart(d, s, strlen(mem, s) + 1)
                       /\ Writes("strcpy", d, s, strlen(mem, s) + 1, strcpy(mem, d, s))

Compares ==
  \E a \in Addr, b \in Addr, n \in 0..Size :
    \/ Room(a, n) /\ Room(b, n) /\ Answers("memcmp", a, b, n, memcmp(mem, a, b, n))
    \/ /\ Terminated(a) \/ Room(a, n)
       /\ Terminated(b) \/ Room(b, n)
       /\ Answers("strncmp", a, b, n, strncmp(mem, a, b, n))
    \/ Terminated(a) /\ Terminated(b) /\ Answers("strcmp", a, b, Size, strcmp(mem, a, b))

Searches ==
  \E a \in Addr, c \in Bytes :
    /\ Terminated(a)
    /\ \/ Answers("strchr", a, c, Size, strchr(mem, a, c))
       \/ Answers("strrchr", a, c, Size, strrchr(mem, a, c))

\* Conversions and formatting do not look at the memory: one content is enough.
Fresh == mem = [a \in Addr |-> 0]

Converts ==
  /\ Fresh /\ UNCHANGED mem
  /\ \E s \in Strings, base \in {0, 1, 10, 16} :
       \/ call' = [fn |-> "strtoul", s |-> s, base |-> base, result |-> strtoul(s, base)]
       \/ call' = [fn |-> "strtol", s |-> s, base |-> base, result |-> strtol(s, base)]

Prints ==
  /\ Fresh /\ UNCHANGED mem
  /\ \/ \E v \in LongMin..LongMax : call' = [fn |-> "itoa", v |-> v, text |-> itoa(v)]
     \/ \E v \in 0..(Long - 1) : call' = [fn |-> "utoa_hex", v |-> v, text |-> utoa_hex(v)]

Blank(n) == [i \in 1..n |-> "?"]

\* The longest text a directive can ask for.
Widest == Max(Widths) + 8

\* vsnprintf into a buffer of any size, with cells behind it that are not its own.
Formatted(f, n) ==
  call' = [fn |-> "vsnprintf", f |-> f, n |-> n, out |-> vsnprintf(Blank(Widest), n, <<f>>), text |-> do_format(<<f>>)]

Directive(conv, flags, width, prec, arg) ==
  [conv |-> conv, flags |-> flags, width |-> width, prec |-> prec, arg |-> arg]

Formats ==
  /\ Fresh /\ UNCHANGED mem
  /\ \E flags \in SUBSET {"-", "0", "+", " ", "#"}, width \in Widths, prec \in Widths \cup {-1} :
       \/ \E v \in {LongMin, -1, 0, 1, LongMax} :
            Formatted(Directive("d", flags, width, prec, v), Widest)
       \/ \E conv \in {"u", "x", "X", "p"}, v \in {0, 9, 10, Long - 1} :
            Formatted(Directive(conv, flags, width, prec, v), Widest)
       \/ \E n \in 0..4 : Formatted(Directive("s", flags, width, prec, <<"a", "b", "c">>), n)
       \/ \E c \in {"c", "%", "q"} : Formatted(Directive(c, flags, width, prec, "a"), 2)

Return == call # None /\ call' = None /\ UNCHANGED mem

Call == call = None /\ (Copies \/ Fills \/ Compares \/ Searches \/ Converts \/ Prints \/ Formats)
Next == Call \/ Return
Spec == Init /\ [][Next]_vars

------------------------------------------------------------------------------
(* Copies and comparisons.                                                 *)

\* What byte k of the destination must be.
Source(c, k) ==
  IF c.fn = "memset" THEN c.s
  ELSE IF c.fn = "strncpy" /\ (\E i \in 0..(k - 1) : c.before[c.s + i] = 0) THEN 0
  ELSE c.before[c.s + k]

\* Every copy leaves the bytes the source had before the call, overlapping or not, and
\* touches nothing else (memcpy, memmove, memset, strcpy, strncpy).
CopiesAreExact ==
  call.fn \in {"memcpy", "memmove", "memset", "strcpy", "strncpy"} =>
    \A a \in Addr : mem[a] = IF a \in call.d..(call.d + call.n - 1)
                               THEN Source(call, a - call.d) ELSE call.before[a]

Sign(v) == IF v < 0 THEN -1 ELSE IF v > 0 THEN 1 ELSE 0

\* The bytes a comparison or a search may look at: n of them, strings up to their 0.
Extent(c, p) == {i \in 0..(c.n - 1) : p + i \in Addr /\
                   (c.fn = "memcmp" \/ \A j \in 0..(i - 1) : mem[p + j] # 0)}
Differ(c)    == {i \in Extent(c, c.a) \cap Extent(c, c.b) : mem[c.a + i] # mem[c.b + i]}

\* The order of two strings is that of their first difference within the bound, and a
\* search returns the first or the last place (memcmp, strcmp, strncmp, strchr, strrchr).
ComparisonsAreOrder ==
  /\ call.fn \in {"memcmp", "strcmp", "strncmp"} =>
       Sign(call.value) = IF Differ(call) = {} THEN 0
                          ELSE LET i == Min(Differ(call)) IN Sign(mem[call.a + i] - mem[call.b + i])
  /\ call.fn \in {"strchr", "strrchr"} =>
       LET places == {call.a + i : i \in {j \in Extent(call, call.a) : mem[call.a + j] = call.b}}
       IN  IF places = {} THEN call.value = NULL
           ELSE call.value = IF call.fn = "strchr" THEN Min(places) ELSE Max(places)

------------------------------------------------------------------------------
(* Numbers.                                                                *)

\* The number a sequence of digits stands for.
ValueOf(ds, base) ==
  LET upto[k \in 0..Len(ds)] == IF k = 0 THEN 0 ELSE base * upto[k - 1] + ds[k]
  IN  upto[Len(ds)]

\* The ways to read the first k characters of s as a numeral: white space up to i,
\* a sign up to j, a prefix up to p, digits from there.
Readings(s, base, k) ==
  {r \in [i : 0..k, j : 0..k, p : 0..k, radix : {8, 10, 16}] :
     /\ r.i <= r.j /\ r.j <= r.p /\ r.p < k
     /\ \A x \in 1..r.i : s[x] \in White
     /\ r.j = r.i \/ (r.j = r.i + 1 /\ s[r.j] \in {"+", "-"})
     /\ r.p = r.j \/ (r.radix = 16 /\ r.p = r.j + 2 /\ s[r.j + 1] = "0" /\ s[r.p] = "x")
     /\ \A x \in (r.p + 1)..k : digit_of(s[x], r.radix) >= 0
     /\ CASE base # 0 -> r.radix = base
          [] OTHER -> r.radix = IF r.p > r.j THEN 16 ELSE IF s[r.p + 1] = "0" THEN 8 ELSE 10}

\* The longest one, if any.
Numeral(s, base) ==
  LET ends == {k \in 0..Len(s) : Readings(s, base, k) # {}}
      k    == Max(ends)
      r    == CHOOSE x \in Readings(s, base, k) : \A y \in Readings(s, base, k) : y.p <= x.p
      mag  == ValueOf([x \in 1..(k - r.p) |-> digit_of(s[r.p + x], r.radix)], r.radix)
  IN  IF ends = {} THEN [end |-> 0, v |-> 0]
      ELSE [end |-> k, v |-> IF r.j > r.i /\ s[r.j] = "-" THEN -mag ELSE mag]

\* strtol and strtoul take the longest numeral the string starts with, saturate at the
\* limits, say so, and consume all its digits even then (parse_mag, strtol, strtoul).
ConversionsTakeLongest ==
  call.fn \in {"strtol", "strtoul"} =>
    LET num == Numeral(call.s, call.base)
        r   == call.result
    IN  /\ r.end = num.end
        /\ call.fn = "strtol" =>
             /\ r.erange = (num.v \notin LongMin..LongMax)
             /\ r.value = IF num.v < LongMin THEN LongMin ELSE IF num.v > LongMax THEN LongMax ELSE num.v
        /\ call.fn = "strtoul" =>
             /\ r.erange = (num.v \notin -(Long - 1)..(Long - 1))
             /\ r.value = IF r.erange THEN Long - 1 ELSE num.v % Long

\* The number a formatted field shows, by the library's own reader.
Lower(c) == IF \E u \in DOMAIN UpperCase : UpperCase[u] = c
              THEN CHOOSE u \in DOMAIN UpperCase : UpperCase[u] = c ELSE IF c = "X" THEN "x" ELSE c
ReadsAs(text, base) == LET s == [i \in DOMAIN text |-> Lower(text[i])]
                       IN  [v |-> strtol(s, base).value, u |-> strtoul(s, base).value]

\* The digits of the magnitude alone, and where the 0 of a prefix stands.
Unsigned(f)  == IF f.conv = "d" THEN itoa(IF f.arg < 0 THEN -f.arg ELSE f.arg)
                ELSE IF f.conv = "u" THEN itoa(f.arg) ELSE utoa_hex(f.arg)
Prefix(text) == (CHOOSE i \in DOMAIN text : text[i] \in {"x", "X"}) - 1

\* A number in its field reads back as itself and fills the width; the text in the buffer is
\* its start, with a terminator, and nothing behind the buffer's end is touched; the answer
\* is the length the whole text has (itoa, utoa_hex, make_number, emit_field, out_ch, vsnprintf).
FormatsReadBack ==
  /\ call.fn = "itoa" => ReadsAs(call.text, 10).v = call.v
  /\ call.fn = "utoa_hex" => ReadsAs(call.text, 16).u = call.v
  /\ call.fn = "vsnprintf" =>
       LET f    == call.f
           text == call.text
           kept == IF Len(text) < call.n THEN Len(text) ELSE call.n - 1
           silent == f.prec = 0 /\ f.arg = 0
       IN  /\ call.out.value = Len(text)
           /\ call.n > 0 => SubSeq(call.out.buf, 1, kept + 1) = Append(SubSeq(text, 1, kept), "nul")
           /\ \A i \in (call.n + 1)..Widest : call.out.buf[i] = "?"
           /\ f.conv \in {"d", "u", "x", "X", "p", "c", "s"} => Len(text) >= f.width
           /\ f.conv = "d" /\ ~silent => ReadsAs(text, 10).v = f.arg
           /\ f.conv = "u" /\ ~silent => ReadsAs(text, 10).u = f.arg
           /\ f.conv \in {"x", "X", "p"} /\ ~silent => ReadsAs(text, 16).u = f.arg
           /\ f.conv \in {"d", "u", "x", "X"} /\ f.prec >= 0 =>
                Cardinality({i \in DOMAIN text : text[i] \notin {" ", "-", "+", "x", "X"}}
                              \ (IF "#" \in f.flags /\ f.conv \in {"x", "X"} /\ f.arg # 0 THEN {Prefix(text)} ELSE {}))
                  = IF silent THEN 0 ELSE Max({f.prec, Len(Unsigned(f))})

\* The memory, string and conversion functions do what the C standard says of them.
CallsKeepContracts == CopiesAreExact /\ ComparisonsAreOrder /\ ConversionsTakeLongest
=============================================================================
