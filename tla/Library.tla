-------------------------------- MODULE Library --------------------------------
(***************************************************************************)
(* What the kernel's C library computes: strtoul, ulltoa and lltoa of      *)
(* src/stdlib.c, memmove of src/string.c, decode_format and vsnprintf of   *)
(* src/print.c, and the walk of src/backtrace.c.  None of them has state   *)
(* of its own: a behaviour is one call, with its arguments and its result. *)
(***************************************************************************)
EXTENDS Integers, Sequences, SequencesExt, FiniteSets

CONSTANTS
  BITS,      \* of an unsigned long; 64 in the code
  Numbers,   \* [value, base] for lltoa
  Texts,     \* [space, sign, prefix, digits, base] for strtoul, in this order
  Moves,     \* [dst, src, size] for memmove
  Formats,   \* formats, sequences of characters
  Prints,    \* [chunks, size]: lengths of what a format is made into, and of buf
  Stacks     \* [bottom, top, memory, rbp] for backtrace

ULONG_MAX == 2^BITS - 1

VARIABLES call, args, result

vars == <<call, args, result>>

None == "none"

-----------------------------------------------------------------------------
(* stdlib.c                                                                *)

\* ulltoa produces the last digit first and then turns them round.
RECURSIVE LastFirst(_, _)
LastFirst(value, base) ==
  <<value % base>> \o IF value < base THEN <<>> ELSE LastFirst(value \div base, base)

ulltoa(value, base) == Reverse(LastFirst(value, base))

lltoa(value, base) == [minus |-> value < 0,
                       digits |-> ulltoa(IF value < 0 THEN -value ELSE value, base)]

\* The base and how much of the prefix is passed; *ptr is a digit or "x".
Base(text) ==
  IF text.base # 0 THEN text.base
  ELSE CASE text.prefix = "" -> 10
         [] text.prefix = "0" -> 8
         [] text.prefix = "0x" -> 16

\* Mutant: the sum and not what remains of the range is compared.
OverflowLate(ret, digit, base) == ret * base > ULONG_MAX

Overflow(ret, digit, base) == ret > (ULONG_MAX - digit) \div base

strtoul(text) ==
  LET base == Base(text)
      Digit(done, d) ==
        IF done.over THEN done
        ELSE IF Overflow(done.ret, d, base) THEN [ret |-> ULONG_MAX, over |-> TRUE]
        ELSE [done EXCEPT !.ret = (@ * base + d) % (ULONG_MAX + 1)]
      ret == FoldLeft(Digit, [ret |-> 0, over |-> FALSE], text.digits).ret
  IN IF text.sign = "-" THEN (ULONG_MAX + 1 - ret) % (ULONG_MAX + 1) ELSE ret

-----------------------------------------------------------------------------
(* string.c, on a memory whose cells hold their own numbers at first.      *)

Unmoved(m) == [i \in 0..(m.dst + m.src + m.size) |-> i]

\* memcpy from the lowest address up, and the loop from the highest down.
Up(m) == FoldLeft(LAMBDA mem, i : [mem EXCEPT ![m.dst + i - 1] = mem[m.src + i - 1]],
                  Unmoved(m), [i \in 1..m.size |-> i])
Down(m) == FoldLeft(LAMBDA mem, i : [mem EXCEPT ![m.dst + i] = mem[m.src + i]],
                    Unmoved(m), [i \in 1..m.size |-> m.size - i])

memmove(m) == IF m.dst < m.src THEN Up(m) ELSE IF m.dst # m.src THEN Down(m) ELSE Unmoved(m)

-----------------------------------------------------------------------------
(* print.c                                                                 *)

Flags == {"-", "+", " ", "#", "0"}
Digits == {"0", "1"}

\* The character at a position of fmt, and how often a loop goes on from there.
Char(fmt, i) == IF i > Len(fmt) THEN "nul" ELSE fmt[i]
PassAll(fmt, i, chars) ==
  CHOOSE j \in i..Len(fmt) + 1 :
    Char(fmt, j) \notin chars /\ \A k \in i..j - 1 : fmt[k] \in chars
PassOne(fmt, i, chars) == IF Char(fmt, i) \in chars THEN i + 1 ELSE i

TypeOf(c) == CASE c \in {"p", "x", "X", "o", "u", "d", "i"} -> "int"
               [] c = "s" -> "str" [] c = "c" -> "char" [] c = "%" -> "percent"
               [] OTHER -> "invalid"

\* decode_format from position i: [type, next].
decode_format(fmt, i) ==
  IF fmt[i] # "%"
  THEN [type |-> "none",
        next |-> CHOOSE j \in i..Len(fmt) + 1 :
                   Char(fmt, j) \in {"%", "nul"} /\ \A k \in i..j - 1 : fmt[k] # "%"]
  ELSE LET width == PassAll(fmt, PassOne(fmt, i + 1, Flags), Digits)
           prec  == IF Char(fmt, width) = "." THEN PassAll(fmt, width + 1, Digits)
                    ELSE width
           size  == IF Char(fmt, prec) \in {"l", "h"}
                    THEN PassOne(fmt, prec + 1, {fmt[prec]}) ELSE prec
       IN [type |-> TypeOf(Char(fmt, size)), next |-> size + 1]

\* __vprintf: the items in order; it ends at the first that is not valid.
RECURSIVE Items(_, _)
Items(fmt, i) ==
  IF i > Len(fmt) THEN <<>>
  ELSE LET item == [type |-> decode_format(fmt, i).type, from |-> i,
                    next |-> decode_format(fmt, i).next]
       IN <<item>> \o IF item.type = "invalid" THEN <<>> ELSE Items(fmt, item.next)

\* vsnprintf with str_out, for characters that are their own numbers: what is in
\* buf, and behind it, and what is returned.
StrOut(done, n, size) ==
  LET remain == IF n < size - done.written THEN n ELSE size - done.written
      Copied == done.written .. done.written + remain - 1
  IN [written |-> done.written + n,
      buf |-> IF done.written > size THEN done.buf
              ELSE [i \in DOMAIN done.buf |-> IF i \in Copied THEN i ELSE done.buf[i]]]

EndAt(rc, size) == IF rc < size THEN rc ELSE size - 1

BUF == 16
vsnprintf(p) ==
  LET end == FoldLeft(LAMBDA done, n : StrOut(done, n, p.size),
                      [written |-> 0, buf |-> [i \in 0..BUF |-> -1]], p.chunks)
  IN [rc |-> end.written, buf |-> [end.buf EXCEPT ![EndAt(end.written, p.size)] = -2]]

-----------------------------------------------------------------------------
(* backtrace.c: the addresses of the frames it reads, on a stack that may  *)
(* hold anything; addresses are words, a frame has two.                    *)

InStack(rbp, s) == rbp >= s.bottom /\ (rbp + 2) % (ULONG_MAX + 1) <= s.top

RECURSIVE backtrace(_, _)
backtrace(rbp, s) ==
  IF ~InStack(rbp, s) THEN {}
  ELSE {rbp} \cup IF rbp \in DOMAIN s.memory /\ s.memory[rbp] > rbp
                  THEN backtrace(s.memory[rbp], s) ELSE {}

-----------------------------------------------------------------------------
Calls == {<<"lltoa", a>> : a \in Numbers} \cup {<<"strtoul", a>> : a \in Texts}
           \cup {<<"memmove", a>> : a \in Moves} \cup {<<"vprintf", a>> : a \in Formats}
           \cup {<<"vsnprintf", a>> : a \in Prints} \cup {<<"backtrace", a>> : a \in Stacks}

Init == /\ \E c \in Calls : call = c[1] /\ args = c[2]
        /\ result = <<None>>

Return(value) == result' = <<"ok", value>> /\ UNCHANGED <<call, args>>

Next ==
  \/ /\ result = <<None>>
     /\ \/ call = "lltoa" /\ Return(lltoa(args.value, args.base))
        \/ call = "strtoul" /\ Return(strtoul(args))
        \/ call = "memmove" /\ Return(memmove(args))
        \/ call = "vprintf" /\ Return(Items(args, 1))
        \/ call = "vsnprintf" /\ Return(vsnprintf(args))
        \/ call = "backtrace" /\ Return(backtrace(args.rbp, args))
  \/ result # <<None>> /\ UNCHANGED vars

Spec == Init /\ [][Next]_vars

-----------------------------------------------------------------------------
ValueOf(digits, base) == FoldLeft(LAMBDA v, d : v * base + d, 0, digits)
Text(sign, digits, base) == [sign |-> sign, prefix |-> "", digits |-> digits, base |-> base]

\* A number is written without leading zeros, in digits of the base, and read back.
NumberOK(n, text) ==
  /\ \A i \in DOMAIN text.digits : text.digits[i] < n.base
  /\ Head(text.digits) = 0 => text.digits = <<0>>
  /\ ValueOf(text.digits, n.base) = IF text.minus THEN -n.value ELSE n.value
  /\ strtoul(Text(IF text.minus THEN "-" ELSE "+", text.digits, n.base))
       = n.value % (ULONG_MAX + 1)

\* What is too large is read as the largest number, at the very boundary.
TextOK(text, value) ==
  LET v == ValueOf(text.digits, Base(text))
  IN IF v > ULONG_MAX THEN text.sign # "-" => value = ULONG_MAX
     ELSE value = (IF text.sign = "-" THEN -v ELSE v) % (ULONG_MAX + 1)

\* However source and target overlap.
MoveOK(m, mem) ==
  \A i \in DOMAIN mem : mem[i] = IF i \in m.dst .. m.dst + m.size - 1
                                 THEN i - m.dst + m.src ELSE i

\* %[flag][digits][.[digits]][h|hh|l|ll]conversion
IsConversion(s) ==
  \E f, w, p, z \in 1..Len(s) :
    /\ s[1] = "%" /\ f <= w /\ w <= p /\ p <= z /\ z = Len(s) - 1
    /\ f = 1 \/ (f = 2 /\ s[2] \in Flags)
    /\ \A i \in f + 1..w : s[i] \in Digits
    /\ p = w \/ (s[w + 1] = "." /\ \A i \in w + 2..p : s[i] \in Digits)
    /\ SubSeq(s, p + 1, z) \in {<<>>, <<"h">>, <<"l">>, <<"h", "h">>, <<"l", "l">>}
    /\ TypeOf(s[Len(s)]) # "invalid"

\* The items are the format cut into conversions and the longest stretches without
\* one, up to the first "%" that begins no conversion; nothing behind the end of
\* the format is an item that is printed.
FormatOK(fmt, items) ==
  LET last == Len(items)
      Part(i) == SubSeq(fmt, items[i].from, items[i].next - 1)
  IN /\ fmt # <<>> => items # <<>> /\ items[1].from = 1
     /\ \A i \in 1..last :
          /\ i < last => items[i + 1].from = items[i].next
          /\ CASE items[i].type = "none" ->
                    /\ "%" \notin ToSet(Part(i))
                    /\ i < last => fmt[items[i].next] = "%"
               [] items[i].type = "invalid" ->
                    /\ i = last
                    /\ \A n \in items[i].from..Len(fmt) :
                         ~IsConversion(SubSeq(fmt, items[i].from, n))
               [] OTHER -> IsConversion(Part(i))
     /\ last > 0 /\ items[last].type # "invalid" => items[last].next = Len(fmt) + 1

\* A string that is too long is cut, always ended, and never written behind the
\* buffer; the length of all of it is returned.
PrintOK(p, out) ==
  LET all == FoldLeft(LAMBDA sum, n : sum + n, 0, p.chunks)
      kept == IF all < p.size THEN all ELSE p.size - 1
  IN /\ out.rc = all
     /\ \A i \in 0..BUF : /\ i < kept => out.buf[i] = i
                          /\ i = kept => out.buf[i] = -2
                          /\ i >= p.size => out.buf[i] = -1

\* Whatever a broken stack holds, frames are read inside it, but for an address so
\* high that rbp + 16 wraps around.
BacktraceOK(s, frames) ==
  \A a \in frames : a >= s.bottom /\ (a + 2 <= s.top \/ a + 2 > ULONG_MAX)

LibraryCorrect ==
  result # <<None>> =>
    CASE call = "lltoa" -> NumberOK(args, result[2])
      [] call = "strtoul" -> TextOK(args, result[2])
      [] call = "memmove" -> MoveOK(args, result[2])
      [] call = "vprintf" -> FormatOK(args, result[2])
      [] call = "vsnprintf" -> PrintOK(args, result[2])
      [] call = "backtrace" -> BacktraceOK(args, result[2])
=============================================================================
