--------------------------------- MODULE Text ---------------------------------
(***************************************************************************)
(* The string and formatting functions the kernel and the user library     *)
(* each have a copy of (kernel/string.c, kernel/printk.c, user/ulib.c,     *)
(* user/printf.c), as functions of their arguments.  Memory is a sequence  *)
(* of cells, a C string one that holds NUL; a long has W bits and an int   *)
(* half of them.  A digit printed is its value: the kernel writes "a" to   *)
(* "f" where the library writes "A" to "F".                                *)
(***************************************************************************)
EXTENDS Integers, Sequences, SequencesExt

CONSTANTS
  W,              \* bits of a long
  Args,           \* the arguments after a format, as W-bit patterns
  FormatChars,    \* characters of formats
  Room            \* cells of memory; length of formats

VARIABLES
  call            \* the call in question

NUL == "NUL"

----------------------------------------------------------------------------
\* Copying

\* *d = *s for the offsets of order one after the other.
Copy(mem, dst, src, order) ==
  FoldLeft(LAMBDA m, i : [m EXCEPT ![dst + i] = m[src + i]], mem, order)

Up(n) == [i \in 1 .. n |-> i - 1]
Down(n) == [i \in 1 .. n |-> n - i]

\* Wrong: always upwards.
memmoveUp(mem, dst, src, n) == Copy(mem, dst, src, Up(n))

\* The kernel's memmove copies downwards only when the end of the source
\* overlaps the destination, the library's unless the source lies above.
memmove(mem, dst, src, n) ==
  Copy(mem, dst, src, IF src < dst /\ src + n > dst THEN Down(n) ELSE Up(n))

umemmove(mem, dst, src, n) ==
  Copy(mem, dst, src, IF src > dst THEN Up(n) ELSE Down(n))

\* strncpy() into the first cells of s: up to n characters of t and the NUL,
\* then NULs up to n.
RECURSIVE strncpyFrom(_, _, _, _)
strncpyFrom(s, t, n, i) ==
  IF i > n THEN s
  ELSE IF t[i] = NUL
  THEN [j \in DOMAIN s |-> IF j \in i .. n THEN NUL ELSE s[j]]
  ELSE strncpyFrom([s EXCEPT ![i] = t[i]], t, n, i + 1)

strncpy(s, t, n) == strncpyFrom(s, t, n, 1)

\* safestrcpy(): n - 1 characters at most, and always a NUL; a second one behind
\* the NUL that was copied, which has moved s on.
RECURSIVE safestrcpyFrom(_, _, _, _)
safestrcpyFrom(s, t, n, i) ==
  IF i >= n THEN [s EXCEPT ![i] = NUL]
  ELSE IF t[i] = NUL THEN [s EXCEPT ![i] = NUL, ![i + 1] = NUL]
  ELSE safestrcpyFrom([s EXCEPT ![i] = t[i]], t, n, i + 1)

safestrcpy(s, t, n) == IF n <= 0 THEN s ELSE safestrcpyFrom(s, t, n, 1)

\* strncmp() answers 0: equal up to n characters or to a common NUL.
RECURSIVE strncmpFrom(_, _, _, _)
strncmpFrom(p, q, n, i) ==
  IF i > n THEN TRUE
  ELSE IF p[i] # NUL /\ p[i] = q[i] THEN strncmpFrom(p, q, n, i + 1)
  ELSE p[i] = q[i]

strncmp(p, q, n) == strncmpFrom(p, q, n, 1)

----------------------------------------------------------------------------
\* Printing

Char(c) == <<"char", c>>

\* The low half of an argument, as a signed or an unsigned int in a long.
int(x) == LET low == x % 2^(W \div 2)
          IN IF low >= 2^(W \div 2 - 1) THEN low + 2^W - 2^(W \div 2) ELSE low
uint32(x) == x % 2^(W \div 2)

RECURSIVE Digits(_, _)
Digits(x, base) ==
  LET last == <<"digit", x % base>>
  IN IF x \div base = 0 THEN <<last>> ELSE Append(Digits(x \div base, base), last)

IsNegative(xx) == xx >= 2^(W - 1)
Minus(xx) == (2^W - xx) % 2^W

uprintint(xx, base, sgn) ==
  LET neg == sgn /\ IsNegative(xx)
  IN (IF neg THEN <<Char("-")>> ELSE <<>>) \o Digits(IF neg THEN Minus(xx) ELSE xx, base)

\* The kernel reuses the parameter sign for "is negative".
printint(xx, base, sgn) ==
  LET sign == IF sgn THEN IsNegative(xx) ELSE FALSE
      x == IF sign THEN Minus(xx) ELSE xx
  IN IF sign THEN <<Char("-")>> \o Digits(x, base) ELSE Digits(x, base)

\* From the topmost four bits down, leading zeros included.
printptr(x) ==
  <<<<"digit", 0>>, Char("x")>>
    \o [i \in 1 .. W \div 4 |-> <<"digit", (x \div 2^(W - 4 * i)) % 16>>]

At(fmt, i) == IF i <= Len(fmt) THEN fmt[i] ELSE NUL

Arg(k) == Args[1 + (k % Len(Args))]

\* What a conversion prints of the next argument, whether it takes one, and
\* how many more characters of the format it takes.
Conv(out, arg, more) == [out |-> out, arg |-> arg, more |-> more]

\* The user library: vprintf() is in the state after a "%".
uConversion(c0, c1, c2, x) ==
  CASE c0 = "d" -> Conv(uprintint(int(x), 10, TRUE), 1, 0)
    [] c0 = "l" /\ c1 = "d" -> Conv(uprintint(x, 10, TRUE), 1, 1)
    [] c0 = "l" /\ c1 = "l" /\ c2 = "d" -> Conv(uprintint(x, 10, TRUE), 1, 2)
    [] c0 = "u" -> Conv(uprintint(uint32(x), 10, FALSE), 1, 0)
    [] c0 = "l" /\ c1 = "u" -> Conv(uprintint(x, 10, FALSE), 1, 1)
    [] c0 = "l" /\ c1 = "l" /\ c2 = "u" -> Conv(uprintint(x, 10, FALSE), 1, 2)
    [] c0 = "x" -> Conv(uprintint(uint32(x), 16, FALSE), 1, 0)
    [] c0 = "l" /\ c1 = "x" -> Conv(uprintint(x, 16, FALSE), 1, 1)
    [] c0 = "l" /\ c1 = "l" /\ c2 = "x" -> Conv(uprintint(x, 16, FALSE), 1, 2)
    [] c0 = "p" -> Conv(printptr(x), 1, 0)
    [] c0 = "c" -> Conv(<<<<"byte", uint32(x)>>>>, 1, 0)
    [] c0 = "s" -> Conv(<<<<"string", x>>>>, 1, 0)
    [] c0 = "%" -> Conv(<<Char("%")>>, 0, 0)
    [] OTHER -> Conv(<<Char("%"), Char(c0)>>, 0, 0)

RECURSIVE vprintf(_, _, _, _)
vprintf(fmt, i, state, k) ==
  LET c0 == At(fmt, i)
      c1 == At(fmt, i + 1)
      c2 == IF c1 = NUL THEN NUL ELSE At(fmt, i + 2)
      c == uConversion(c0, c1, c2, Arg(k))
  IN IF c0 = NUL THEN <<>>
     ELSE IF state = "%"
     THEN c.out \o vprintf(fmt, i + c.more + 1, "0", k + c.arg)
     ELSE IF c0 = "%" THEN vprintf(fmt, i + 1, "%", k)
     ELSE <<Char(c0)>> \o vprintf(fmt, i + 1, "0", k)

\* The kernel: printk() takes a conversion in one round of its loop.
Conversion(c0, c1, c2, x) ==
  CASE c0 = "d" -> Conv(printint(int(x), 10, TRUE), 1, 0)
    [] c0 = "l" /\ c1 = "d" -> Conv(printint(x, 10, TRUE), 1, 1)
    [] c0 = "l" /\ c1 = "l" /\ c2 = "d" -> Conv(printint(x, 10, TRUE), 1, 2)
    [] c0 = "u" -> Conv(printint(uint32(x), 10, FALSE), 1, 0)
    [] c0 = "l" /\ c1 = "u" -> Conv(printint(x, 10, FALSE), 1, 1)
    [] c0 = "l" /\ c1 = "l" /\ c2 = "u" -> Conv(printint(x, 10, FALSE), 1, 2)
    [] c0 = "x" -> Conv(printint(uint32(x), 16, FALSE), 1, 0)
    [] c0 = "l" /\ c1 = "x" -> Conv(printint(x, 16, FALSE), 1, 1)
    [] c0 = "l" /\ c1 = "l" /\ c2 = "x" -> Conv(printint(x, 16, FALSE), 1, 2)
    [] c0 = "p" -> Conv(printptr(x), 1, 0)
    [] c0 = "c" -> Conv(<<<<"byte", uint32(x)>>>>, 1, 0)
    [] c0 = "s" -> Conv(<<<<"string", x>>>>, 1, 0)
    [] c0 = "%" -> Conv(<<Char("%")>>, 0, 0)
    [] OTHER -> Conv(<<Char("%"), Char(c0)>>, 0, 0)

RECURSIVE printk(_, _, _)
printk(fmt, i, k) ==
  LET c0 == At(fmt, i + 1)
      c1 == IF c0 = NUL THEN NUL ELSE At(fmt, i + 2)
      c2 == IF c1 = NUL THEN NUL ELSE At(fmt, i + 3)
      c == Conversion(c0, c1, c2, Arg(k))
  IN IF At(fmt, i) = NUL THEN <<>>
     ELSE IF At(fmt, i) # "%" THEN <<Char(At(fmt, i))>> \o printk(fmt, i + 1, k)
     ELSE IF c0 = NUL THEN <<>>
     ELSE c.out \o printk(fmt, i + 2 + c.more, k + c.arg)

----------------------------------------------------------------------------
\* Calls of these functions: memory to move, names to store and compare, a
\* format that grows character by character.

Cells == 1 .. Room
Words == UNION {[1 .. n -> {"a", "b"}] : n \in 0 .. Room - 2}

Init ==
  \/ \E dst, src \in Cells : \E n \in 0 .. Room + 1 - (IF dst > src THEN dst ELSE src) :
       call = [op |-> "move", dst |-> dst, src |-> src, n |-> n]
  \/ \E s, t \in Words, n \in 0 .. Room - 2 :
       call = [op |-> "name", s |-> Append(s, NUL), t |-> Append(t, NUL), n |-> n]
  \/ call = [op |-> "print", fmt |-> <<>>]

Lengthen ==
  /\ call.op = "print" /\ Len(call.fmt) < Room
  /\ \E c \in FormatChars : call' = [call EXCEPT !.fmt = Append(@, c)]

Next == Lengthen \/ UNCHANGED call

(* memmove moves the bytes as they were before the call and touches nothing *)
(* else, however source and destination overlap, in both copies; a name     *)
(* stored by strncpy without room for a NUL compares equal to exactly the   *)
(* names with the same first n characters; safestrcpy keeps n - 1 of them   *)
(* and a NUL, and clears one more cell if there is one; none writes past    *)
(* the n cells it was given.                                                *)
StringsExact ==
  /\ call.op = "move" =>
       LET mem == [i \in Cells |-> i]
           moved == [i \in Cells |-> IF i \in call.dst .. call.dst + call.n - 1
                                     THEN i - call.dst + call.src ELSE i]
       IN /\ memmove(mem, call.dst, call.src, call.n) = moved
          /\ umemmove(mem, call.dst, call.src, call.n) = moved
  /\ call.op = "name" =>
       LET old == [i \in Cells |-> "old"]
           n == call.n
           Head_(s, k) == SubSeq(s, 1, IF Len(s) < k THEN Len(s) ELSE k)
           stored == strncpy(old, call.s, n)
           safe == safestrcpy(old, call.s, n)
           kept == Head_(Front(call.s), n - 1)
       IN /\ strncmp(stored, call.t, n) <=> Head_(Front(call.s), n) = Head_(Front(call.t), n)
          /\ n > 0 => safe = [i \in Cells |->
                                IF i <= Len(kept) THEN kept[i]
                                ELSE IF i <= Len(kept) + 2 /\ i <= n THEN NUL ELSE "old"]
          /\ \A i \in Cells : i > n => stored[i] = "old" /\ safe[i] = "old"

\* What a sequence of digits and signs says, in base b.
RECURSIVE Value(_, _)
Value(ds, b) ==
  IF ds = <<>> THEN 0
  ELSE IF Head(ds) = Char("-") THEN -Value(Tail(ds), b)
  ELSE Value(Front(ds), b) * b + ds[Len(ds)][2]

Signed(x) == IF IsNegative(x) THEN x - 2^W ELSE x

(* For every format, printk and the library's printf print the same and     *)
(* take the same arguments, however "%" and "l" follow each other and       *)
(* wherever the format breaks off; and a number printed is the number       *)
(* passed, the most negative one included.                                  *)
PrintersAgree ==
  call.op = "print" =>
    /\ vprintf(call.fmt, 1, "0", 0) = printk(call.fmt, 1, 0)
    /\ call.fmt = <<>> => \A x \in 0 .. 2^W - 1 :
         /\ Value(printint(x, 10, TRUE), 10) = Signed(x)
         /\ Value(uprintint(x, 10, TRUE), 10) = Signed(x)
         /\ Value(uprintint(x, 16, FALSE), 16) = x /\ Value(printint(x, 16, FALSE), 16) = x
==============================================================================
