-------------------------------- MODULE Console --------------------------------
(***************************************************************************)
(* src/vga.c: the text screen, character by character, and threads that    *)
(* print messages as week4/sync/locks/src/main.c does, with interrupts     *)
(* masked around printf so that no other thread's characters come between. *)
(***************************************************************************)
EXTENDS Integers, Sequences, SequencesExt, FiniteSets

CONSTANTS
  ROWS, COLS,
  Thread,
  Message,    \* what a printf may write: sequences of characters
  WRITES      \* bound: how many messages are printed

Assumption == /\ ROWS \in Nat \ {0} /\ COLS \in Nat \ {0}
              /\ WRITES \in Nat

VARIABLES
  screen,     \* characters by row and column
  r, c,       \* the cursor: the static variables of putchar
  rest,       \* what each thread has still to print of its message
  masked,     \* the thread that has interrupts masked, or "nobody"
  printed     \* the messages begun, in order (for the properties)

vars == <<screen, r, c, rest, masked, printed>>

Row == 0..ROWS - 1
Col == 0..COLS - 1
Space == " "

\* vga_clr
Init == /\ screen = [i \in Row |-> [j \in Col |-> Space]]
        /\ r = 0 /\ c = 0
        /\ rest = [t \in Thread |-> <<>>]
        /\ masked = "nobody"
        /\ printed = <<>>

scroll(rows) == [i \in Row |-> IF i + 1 \in Row THEN rows[i + 1]
                               ELSE [j \in Col |-> Space]]

LineEnds(x, col) == x = "\n" \/ col = COLS

\* putchar: a newline blanks what is left of its row.
Put(x) ==
  LET col == IF x = "\n" THEN c ELSE c + 1
      row == IF x = "\n" THEN [j \in Col |-> IF j >= c THEN Space ELSE screen[r][j]]
             ELSE [screen[r] EXCEPT ![c] = x]
      rows == [screen EXCEPT ![r] = row]
      down == IF LineEnds(x, col) THEN r + 1 ELSE r
  IN /\ c' = IF LineEnds(x, col) THEN 0 ELSE col
     /\ r' = IF down = ROWS THEN down - 1 ELSE down
     /\ screen' = IF down = ROWS THEN scroll(rows) ELSE rows

\* Mutant: local_int_save is forgotten.
MayBeginUnmasked(t) == rest[t] = <<>>
MayBegin(t) == masked = "nobody"

\* local_int_save and the call of printf.
Begin(t) ==
  /\ MayBegin(t)
  /\ Len(printed) < WRITES
  /\ \E message \in Message :
       /\ rest' = [rest EXCEPT ![t] = message]
       /\ printed' = Append(printed, message)
  /\ masked' = t
  /\ UNCHANGED <<screen, r, c>>

\* One turn of the loop of vga_write.
Write(t) == /\ rest[t] # <<>>
            /\ Put(Head(rest[t]))
            /\ rest' = [rest EXCEPT ![t] = Tail(@)]
            /\ UNCHANGED <<masked, printed>>

\* local_int_restore
End(t) == /\ masked = t /\ rest[t] = <<>>
          /\ masked' = "nobody"
          /\ UNCHANGED <<screen, r, c, rest, printed>>

Ended == Len(printed) = WRITES /\ masked = "nobody" /\ UNCHANGED vars

Next == Ended \/ \E t \in Thread : Begin(t) \/ Write(t) \/ End(t)

Spec == Init /\ [][Next]_vars

-----------------------------------------------------------------------------
\* The text so far: all messages, but for what is to come of the last.
Pending == FoldSet(LAMBDA t, n : n + Len(rest[t]), 0, Thread)
Text == SubSeq(FlattenSeq(printed), 1, Len(FlattenSeq(printed)) - Pending)

\* The text in lines: a line ends with "\n" or when its row is full.
Lines == FoldLeft(LAMBDA lines, x :
                    LET line == lines[Len(lines)]
                        grown == IF x = "\n" THEN line ELSE Append(line, x)
                    IN IF x = "\n" \/ Len(grown) = COLS
                       THEN [lines EXCEPT ![Len(lines)] = grown] \o <<<<>>>>
                       ELSE [lines EXCEPT ![Len(lines)] = grown],
                  <<<<>>>>, Text)

\* The screen shows the last rows of the text, message by message, the cursor is
\* behind its last character, and never outside the screen.
ScreenShows ==
  LET above == IF Len(Lines) > ROWS THEN Len(Lines) - ROWS ELSE 0
      line(i) == IF above + i + 1 <= Len(Lines) THEN Lines[above + i + 1] ELSE <<>>
  IN /\ r = Len(Lines) - above - 1 /\ c = Len(line(r))
     /\ r \in Row /\ c \in Col
     /\ \A i \in Row, j \in Col :
          screen[i][j] = IF j < Len(line(i)) THEN line(i)[j + 1] ELSE Space
=============================================================================
