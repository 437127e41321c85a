-------------------------------- MODULE MCExec --------------------------------
(***************************************************************************)
(* Exec with pages of four bytes, eight of them in user space, three of    *)
(* these for the stack, pointers of two bytes, and addresses below 128,    *)
(* of which tables see the lower 64.                                       *)
(***************************************************************************)
EXTENDS Exec

Seg(load, flags, vaddr, offset, filesz, memsz) ==
  [load |-> load, flags |-> flags, vaddr |-> vaddr, offset |-> offset,
   filesz |-> filesz, memsz |-> memsz]

Code == Seg(TRUE, {"execute"}, 4, 8, 4, 4)
Data == Seg(TRUE, {"write"}, 9, 13, 3, 10)   \* begins inside a page
Empty == Seg(TRUE, {}, 20, 8, 0, 0)
Large == Seg(TRUE, {"write"}, 8, 7, 7, 8)    \* more than a page of the file
Same == Seg(TRUE, {"write"}, 6, 8, 2, 2)     \* in the page of Code
Note == Seg(FALSE, {}, 0, 0, 0, 0)

\* Addresses of which tables see only a part, above user space, behind HIGHER_BASE,
\* and with a sum that wraps around.
Alias == Seg(TRUE, {"execute"}, 68, -2, 4, 4)
Above == Seg(TRUE, {"write"}, 32, 8, 2, 4)
High == Seg(TRUE, {}, 100, 8, 2, 4)
Wrapped == Seg(TRUE, {}, 120, 8, 2, 12)

\* More in the file than in memory: below the stack, elsewhere, and above user space
\* without a page of its own.
UnderStack == Seg(TRUE, {"write"}, 16, 8, 4, 2)
Short == Seg(TRUE, {"write"}, 4, 8, 4, 2)
NoPage == Seg(TRUE, {"write"}, 32, 8, 2, 0)

\* A file with headers of two bytes from offset 2, and of a certain size.
File(size, segments) ==
  [size |-> size, elf |-> TRUE, phoff |-> 2, phentsize |-> 2,
   phnum |-> Len(segments), entry |-> 4,
   segment |-> [o \in {2 * i : i \in DOMAIN segments} |-> segments[o \div 2]]]

Files == {File(16, <<Code, Note, Data>>), File(16, <<Empty, Large>>),
          File(16, <<Code, Same>>),
          File(5, <<Code, Data>>), File(14, <<Code, Data>>),
          File(16, <<Alias>>), File(16, <<Code, Above>>), File(16, <<High>>),
          File(16, <<Wrapped>>), File(16, <<UnderStack>>), File(16, <<Short>>),
          File(16, <<NoPage>>),
          [File(16, <<>>) EXCEPT !.elf = FALSE], File(1, <<>>)}

\* Nothing, "a", "bb", and what is too much for the stack.
Argvs == {<<>>, <<2>>, <<2, 3>>, <<3, 2>>, <<4, 3>>}

StalePage == {Stale}
Perms == {{"read"} \cup flags : flags \in SUBSET {"write", "execute"}}
=============================================================================
