-------------------------------- MODULE MCParts --------------------------------
(***************************************************************************)
(* Small instances of Exec (see MCExec), of the components of Parts, and   *)
(* of four more, checked side by side as in MCFiles: the first page tables *)
(* and what the initrd turns into before there are threads, the console    *)
(* and the C library.                                                      *)
(***************************************************************************)
EXTENDS MCExec, Parts

VARIABLES
  end, tables, early_cr3, pml4, step,                            \* BootPaging
  modules, initrd, size, pos, at, loaded,                  \* Initramfs
  screen, row, col, rest, masked, printed,                     \* Console
  function, args, result                                   \* Library

pagingVars == <<end, tables, early_cr3, pml4, step>>
initramfsVars == <<modules, initrd, size, pos, at, loaded>>
consoleVars == <<screen, row, col, rest, masked, printed>>
libraryVars == <<function, args, result>>
allVars == <<on, execVars, exampleVars, bootVars, pagingVars, initramfsVars, slabVars,
             consoleVars, libraryVars>>

-----------------------------------------------------------------------------
\* Pages of two bytes: memory maps of two arbitrary entries, and of three on
\* fewer addresses, in any order.
Map(addresses) == {e \in [from : addresses, to : addresses, available : BOOLEAN] :
                     e.from < e.to}
TwoEntries == {<<a, b>> : a, b \in Map(0..10)}
ThreeEntries == {<<a, b, c>> : a, b, c \in Map({0, 3, 4, 8, 12})}

BootMaps == TwoEntries \cup ThreeEntries
BootImage == <<[begin |-> 8, end |-> 9], [begin |-> 5, end |-> 5]>>
BootRequests == {[from |-> 0, to |-> 8, size |-> 2, align |-> 2],
                 [from |-> 6, to |-> 13, size |-> 1, align |-> 1]}
BootDescriptors(pages) == 1 + pages \div 4

-----------------------------------------------------------------------------
\* Tables of four entries.  Memory ends inside and at the end of pages of each size,
\* and behind where the entry of the root table changes; what is free is enough for
\* the tables or not, and page 0 may be free.
Paging == INSTANCE BootPaging WITH
  LEVELS <- 4, FAN <- 4, HIGHER_BASE <- 128, VIRTUAL_BASE <- 224, WINDOW <- 32,
  Memories <- {[end |-> n, free |-> {p \in a..b : p < n}] :
                 n \in {1, 2, 4, 5, 16, 17, 21, 37, 64, 69, 96},
                 a \in {0, 1, 3}, b \in {3, 8, 96}},
  memory <- tables, cr3 <- early_cr3, pc <- step

-----------------------------------------------------------------------------
\* Archives with directories, empty files, and names and files of all lengths
\* modulo four, something behind the trailer too; each cut off anywhere, and
\* each behind another module.
Dir == [name |-> "i", mode |-> 16877, size |-> 0]
Plain(name, n) == [name |-> name, mode |-> 33188, size |-> n]
Trailer == [name |-> "TRAILER!!!", mode |-> 0, size |-> 0]
Archives == {<<Dir, Plain("i/a", 5), Plain("i/bcd", 300), Trailer>>,
             <<Plain("ab", 0), Plain("abc", 4), Dir, Plain("a", 1)>>,
             <<Dir, Trailer, Plain("a", 2)>>}

Initrd(C) == INSTANCE Initramfs WITH
  HEADER <- 110, SIGN <- 6, ModuleLists <- C, data <- initrd, pc <- at

EndOf(archive) == Initrd({})!At(archive, Len(archive) + 1)
Module(archive, n) == [size |-> n, entries |-> archive]
Other == {Module(<<>>, 3), Module(<<>>, 500)}
Lists == UNION {{<<Module(c, n)>> : n \in 0..EndOf(c)} : c \in Archives}
           \cup {<<o, Module(c, EndOf(c))>> : o \in Other, c \in Archives}
           \cup {<<o>> : o \in Other}

Initramfs == INSTANCE Initramfs WITH
  HEADER <- 110, SIGN <- 6, ModuleLists <- Lists, data <- initrd, pc <- at

-----------------------------------------------------------------------------
\* A screen of two rows, and messages within a row, of a full row, and over the end
\* of one.
Console == INSTANCE Console WITH
  ROWS <- 2, COLS <- 3, Thread <- Proc, WRITES <- 4, r <- row, c <- col,
  Message <- {<<"a">>, <<"a", "\n">>, <<"b", "a", "b">>, <<"\n", "b">>}

\* Words of six bits.
Library == INSTANCE Library WITH
  BITS <- 6, call <- function,
  Numbers <- [value : -31..31, base : {2, 8, 10, 16}],
  Texts <- {t \in UNION {[sign : {"", "-"}, prefix : {"", "0", "0x"}, base : {0, b},
                          digits : UNION {[1..n -> {d \in {0, 1, 3, 6, 7, 15} : d < b}]
                                          : n \in 1..3}] : b \in {8, 10, 16}} :
              LET base == IF t.base # 0 THEN t.base
                          ELSE CASE t.prefix = "" -> 10 [] t.prefix = "0" -> 8
                                 [] t.prefix = "0x" -> 16
              IN /\ t.prefix = "0x" => base = 16
                 /\ t.base = 0 /\ t.prefix = "" => t.digits[1] # 0
                 /\ \A i \in DOMAIN t.digits : t.digits[i] < base},
  Moves <- [dst : 0..4, src : 0..4, size : 0..4],
  Formats <- UNION {[1..n -> {"%", "0", ".", "l", "d", "q"}] : n \in 0..4}
               \cup {<<"%", "-", "1", ".", "0", "h", "h", "x">>, <<"%", "l", "h", "d">>},
  Prints <- [size : 1..5, chunks : UNION {[1..n -> 0..3] : n \in 0..3}],
  Stacks <- [bottom : {8}, top : {14}, rbp : {7, 8, 10, 12, 13, 62},
             memory : [{8, 10, 12} -> {8, 9, 10, 12, 13, 62}]]

ASSUME InstanceAssumption == Paging!Assumption /\ Console!Assumption

-----------------------------------------------------------------------------
\* A component that does not move has one initial state.
AllInit ==
  /\ on \in {"exec", "example", "boot", "paging", "initramfs", "slab", "console",
             "library"}
  /\ ExecInit
  /\ on # "exec" => frames = 2 /\ argv = <<2>> /\ file.size = 1
  /\ Example!Init
  /\ Boot!Init /\ (on # "boot" => mmap = CHOOSE m \in TwoEntries : TRUE)
  /\ IF on = "paging" THEN Paging!Init
     ELSE end = 0 /\ tables = <<>> /\ early_cr3 = -1 /\ pml4 = -1 /\ step = "root"
  /\ Initramfs!Init /\ (on # "initramfs" => modules = <<Module(<<>>, 3)>>)
  /\ Slab!Init /\ (on # "slab" => cache.order = 0)
  /\ Console!Init
  /\ IF on = "library" THEN Library!Init
     ELSE function = "" /\ args = <<>> /\ result = <<>>

\* What the other components have stays as it is.
Others(name) ==
  /\ UNCHANGED on
  /\ IF name = "exec" THEN TRUE ELSE UNCHANGED execVars
  /\ IF name = "example" THEN TRUE ELSE UNCHANGED exampleVars
  /\ IF name = "boot" THEN TRUE ELSE UNCHANGED bootVars
  /\ IF name = "paging" THEN TRUE ELSE UNCHANGED pagingVars
  /\ IF name = "initramfs" THEN TRUE ELSE UNCHANGED initramfsVars
  /\ IF name = "slab" THEN TRUE ELSE UNCHANGED slabVars
  /\ IF name = "console" THEN TRUE ELSE UNCHANGED consoleVars
  /\ IF name = "library" THEN TRUE ELSE UNCHANGED libraryVars

AllNext ==
  \/ on = "exec" /\ ExecNext /\ Others("exec")
  \/ on = "example" /\ Example!Next /\ Others("example")
  \/ on = "boot" /\ Boot!Next /\ Others("boot")
  \/ on = "paging" /\ Paging!Next /\ Others("paging")
  \/ on = "initramfs" /\ Initramfs!Next /\ Others("initramfs")
  \/ on = "slab" /\ Slab!Next /\ Others("slab")
  \/ on = "console" /\ Console!Next /\ Others("console")
  \/ on = "library" /\ Library!Next /\ Others("library")

AllSpec == AllInit /\ [][AllNext]_allVars

\* Exec's AllOrNothing and ImageOK are checked of all states: where another component
\* moves, exec has not begun.

\* The tables of paging_setup map all of memory, and nothing else (paging.c).
EarlyMap == on = "paging" => Paging!EarlyMap

\* The files of the archive are made, as far as it was passed (initramfs.c).
InitrdLoaded == on = "initramfs" => Initramfs!ArchiveLoaded

\* The screen shows whole messages, the last rows of them (vga.c).
ScreenShows == on = "console" => Console!ScreenShows

\* Numbers, strings, formats and backtraces (stdlib.c, string.c, print.c,
\* backtrace.c).
LibraryCorrect == on = "library" => Library!LibraryCorrect

Symmetric == Permutations(Proc)
=============================================================================
