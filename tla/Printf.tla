------------------------------- MODULE Printf -------------------------------
(***************************************************************************)
(* The formatting engine of firmware/lib/omni_printf.c.  A format is a     *)
(* sequence of items: a character, or a directive with the argument it     *)
(* takes: [conv, flags, width, prec, arg], prec -1 when none is given.     *)
(* Characters are strings of length one; an argument of %s is a sequence   *)
(* of them.                                                                *)
(***************************************************************************)
EXTENDS Libc

TMPMAX == 24

\* out_rep
Rep(c, k) == [i \in 1..k |-> c]

Pad(f, len) == IF f.width > len THEN f.width - len ELSE 0

\* Mutant: the '0' flag is obeyed although a precision is given.
ZeroPads_Always(f) == "0" \in f.flags /\ "-" \notin f.flags

ZeroPads(f) == "0" \in f.flags /\ "-" \notin f.flags /\ f.prec < 0

\* sign, prefix, zeros and digits, justified
emit_field(f, fd) ==
  LET pad   == Pad(f, Len(fd.sign) + Len(fd.prefix) + Len(fd.body))
      zeros == IF ZeroPads(f) THEN pad ELSE 0
      blank == Rep(" ", pad - zeros)
      field == fd.sign \o fd.prefix \o Rep("0", zeros) \o fd.body
  IN  IF "-" \in f.flags THEN field \o blank ELSE blank \o field

UpperCase == [a |-> "A", b |-> "B", c |-> "C", d |-> "D", e |-> "E", f |-> "F"]
Cased(c, upper) == IF upper /\ c \in DOMAIN UpperCase THEN UpperCase[c] ELSE c

\* A magnitude with the zeros its precision asks for; body[] holds TMPMAX characters.
make_number(mag, base, upper, f, sign, prefixed) ==
  LET tmp   == IF mag = 0 THEN IF f.prec = 0 THEN <<>> ELSE <<"0">> ELSE Extracted[mag, base]
      zeros == IF f.prec > Len(tmp) THEN f.prec - Len(tmp) ELSE 0
      body  == Rep("0", zeros) \o [i \in 1..Len(tmp) |-> Cased(Reverse(tmp)[i], upper)]
  IN  [body |-> body, sign |-> sign,
       prefix |-> IF prefixed /\ body # <<>> THEN <<"0", IF upper THEN "X" ELSE "x">> ELSE <<>>]

PlusSign(f) == IF "+" \in f.flags THEN <<"+">> ELSE IF " " \in f.flags THEN <<" ">> ELSE <<>>

\* %d of v in two's complement: its magnitude is 0 - v as unsigned.
Signed(f, v) ==
  IF v < 0 THEN make_number((0 - v) % Long, 10, FALSE, f, <<"-">>, FALSE)
           ELSE make_number(v, 10, FALSE, f, PlusSign(f), FALSE)

Text(f, s) ==
  LET shown == IF f.prec >= 0 /\ f.prec < Len(s) THEN SubSeq(s, 1, f.prec) ELSE s
      blank == Rep(" ", Pad(f, Len(shown)))
  IN  IF "-" \in f.flags THEN shown \o blank ELSE blank \o shown

\* What one item writes.
Written(f) ==
  CASE f.conv \in {"d", "i"} -> emit_field(f, Signed(f, f.arg))
    [] f.conv = "u" -> emit_field(f, make_number(f.arg, 10, FALSE, f, <<>>, FALSE))
    [] f.conv \in {"x", "X"} ->
         emit_field(f, make_number(f.arg, 16, f.conv = "X", f, <<>>, "#" \in f.flags /\ f.arg # 0))
    [] f.conv = "p" ->
         emit_field(f, [make_number(f.arg, 16, FALSE, f, <<>>, TRUE) EXCEPT !.prefix = <<"0", "x">>])
    [] f.conv = "c" -> emit_field(f, [body |-> <<f.arg>>, sign |-> <<>>, prefix |-> <<>>])
    [] f.conv = "s" -> Text(f, f.arg)
    [] f.conv = "char" -> <<f.arg>>
    [] f.conv = "%" -> <<"%">>
    [] OTHER -> <<"%", f.conv>>

\* Everything do_format hands to its sink.
do_format(items) == FlattenSeq([i \in DOMAIN items |-> Written(items[i])])

\* Counted always, stored while there is room for the terminator behind it.
out_ch(buf, n, count, c) == IF n > 0 /\ count < n - 1 THEN [buf EXCEPT ![count + 1] = c] ELSE buf

vsnprintf(buf, n, items) ==
  LET text == do_format(items)
      kept == FoldLeft(LAMBDA b, i : out_ch(b, n, i, text[i + 1]), buf, Upto(Len(text)))
      last == IF Len(text) < n THEN Len(text) ELSE n - 1
  IN  [buf |-> IF n > 0 THEN [kept EXCEPT ![last + 1] = "nul"] ELSE kept, value |-> Len(text)]
=============================================================================
