--------------------------------- MODULE Exec ---------------------------------
(***************************************************************************)
(* src/exec.c: a thread replaces its address space by one that is made     *)
(* from a file.  A step is one of the calls exec makes, each of which may  *)
(* fail; the address spaces, their tables and the memory are those of      *)
(* AddressSpace, with contents byte by byte.  Addresses here are in bytes. *)
(***************************************************************************)
EXTENDS AddressSpace

CONSTANTS
  PAGE_SIZE, PTR,      \* bytes of a page and of a pointer
  STACK,               \* pages of USER_STACK_SIZE
  WORD,                \* pages that 64 bits can address
  HEADER, PHEADER,     \* sizes of struct elf_hdr and struct elf_phdr
  Old, New,            \* the two address spaces
  Programs,            \* the files: [size, elf, phoff, phentsize, phnum, entry,
                       \* segment], the last a function from offsets
  Arguments            \* argv: sequences of the lengths of strings, with the 0

ASSUME SizeAssumption == /\ {PAGE_SIZE, PTR, HEADER, PHEADER} \subseteq Nat \ {0}
                         /\ STACK \in 1..END
ASSUME SpacesAssumption == {Old, New} \subseteq Mm /\ Old # New

\* Tables translate the lower 48 bits of an address: USER_MASK + 1, in pages.
SPACE == Size(LEVELS) * FAN
ASSUME WordAssumption == WORD \in Nat \ {0} /\ WORD % SPACE = 0

\* The fields of headers are unsigned numbers of a word, but p_offset, which
\* segment_map takes for a long.
Number == 0..WORD * PAGE_SIZE - 1
ASSUME ProgramsAssumption ==
  \A p \in Programs :
    /\ p.phnum \in Nat
    /\ \A i \in 0..p.phnum - 1 :
         LET s == p.segment[p.phoff + i * p.phentsize]
         IN {s.vaddr, s.memsz, s.filesz} \subseteq Number /\ s.offset \in Int

\* The strings of argv are in memory, which is smaller than user space.
ASSUME ArgumentsAssumption ==
  \A a \in Arguments :
    a \in Seq(Nat) /\ FoldLeft(+, 0, a) + PTR * (Len(a) + 2) <= END * PAGE_SIZE
ASSUME PermissionAssumption ==
  \A flags \in SUBSET {"write", "execute"} : {"read"} \cup flags \in Perm

VARIABLES
  file, argv,  \* what exec was called with
  pc,          \* the call exec is about to make, or how it ended
  mm, cr3,     \* me->mm, and what the processor uses
  header,      \* the program header load_binary is at
  buffer,      \* segment_map's page, 0 if there is none
  done,        \* bytes of the segment that were copied
  ctx,         \* stack pointer, number of arguments and argv of the new program
  frames,      \* how many frames there are
  regs         \* me->regs, when exec returns to user space

memoryVars == <<memory, data, live, root, vmas>>
call == <<file, argv, frames>>
progress == <<header, buffer, done>>
thread == <<mm, cr3, regs>>
callVars == <<call, progress, ctx, thread>>
execVars == <<memoryVars, callVars, pc>>

\* Contents: a byte of the file is its offset, one of a string <<its number,
\* place>>, one of a pointer <<its value>>.
Zero == <<"zero">>
Stale == [b \in 0..PAGE_SIZE - 1 |-> <<"stale">>]

ExecInit ==
  /\ frames \in Frame
  /\ memory = [table |-> [f \in Frame |-> [s \in Slot |-> None]],
               avail |-> 2..frames, out |-> "ok"]
  /\ data = [f \in Frame |-> Stale]
  /\ live = {Old} /\ root = [x \in Mm |-> IF x = Old THEN 1 ELSE 0]
  /\ vmas = [x \in Mm |-> <<>>]
  /\ file \in Programs /\ argv \in Arguments
  /\ pc = "open"
  /\ mm = Old /\ cr3 = 1
  /\ header = 0 /\ buffer = 0 /\ done = 0
  /\ ctx = <<>> /\ regs = <<>>

\* ramfs_readat, as AbstractFiles has it: how many bytes it finds.  An offset below
\* 0 passes its test; before the file there are zeros.
Readable(from, n) == IF from >= file.size THEN 0
                     ELSE Smaller(n, file.size - from)
FileByte(offset) == IF offset < 0 THEN Zero ELSE <<offset>>

-----------------------------------------------------------------------------
(* exec, up to load_binary.                                                *)

Goto(next) == pc' = next /\ UNCHANGED <<memoryVars, callVars>>

\* argc, ramfs_open, the header and check_elf_hdr.
Open == /\ pc = "open"
        /\ Goto(IF argv # <<>> /\ file.elf /\ Readable(0, HEADER) = HEADER
                THEN "create" ELSE "failed")

CreateNew == /\ pc = "create"
             /\ \/ Create(New) /\ pc' = "stack" /\ UNCHANGED callVars
                \/ Goto("failed")

\* In pages.  It is where the kernel's half begins, behind addresses that no table
\* can tell from those of user space.
HIGHER_BASE == WORD - (SPACE - END)

\* mmap, as mm.c begins it: the end is compared as a number of 64 bits, then both are
\* cut to 48.  The call fails on its own account (from > to, areas overlap), or
\* because there is no object for the area.  Ranges above USERSPACE_END are taken
\* too, and pt_map goes on into the tables that all address spaces share: what comes
\* of that is not followed.
MapPages(from, to, perm, next, failure) ==
  LET begin == from % SPACE
      end   == to % SPACE
  IN IF to > HIGHER_BASE THEN Goto(failure)
     ELSE IF begin = end THEN Goto(next)
     ELSE \/ Goto(failure)
          \/ /\ begin < end /\ end <= END
             /\ Mmap(New, begin, end, perm)
             /\ pc' = IF memory'.out = "hang" THEN "hang"
                      ELSE IF vmas' # vmas THEN next ELSE failure
             /\ UNCHANGED callVars
          \/ /\ begin < end /\ end > END
             /\ ~Overlaps(vmas[New], begin, end)
             /\ Goto("kernel")

StackEnd == END * PAGE_SIZE

\* setup_stack
Stack == /\ pc = "stack"
         /\ MapPages(END - STACK, END, {"read", "write"}, "args", "undo")

-----------------------------------------------------------------------------
(* Bytes of the new address space: what mcopy and mset do when every page  *)
(* of a range is mapped.  When one is not they fail, and all they wrote    *)
(* goes with the address space; or they go on into the kernel's half.      *)

FrameAt(x, addr) == FrameOf(memory, x, addr \div PAGE_SIZE)
InUserSpace(addr) == (addr \div PAGE_SIZE) % SPACE < END
AllMapped(addr, n) ==
  \A a \in addr..addr + n - 1 : InUserSpace(a) /\ FrameAt(New, a) # 0

\* All is mapped up to the kernel's half, where memory is mapped in every address
\* space, or nothing is: then the call fails there.
ReachesKernel(addr, n) ==
  \E a \in addr..addr + n - 1 : ~InUserSpace(a) /\ AllMapped(addr, a - addr)
Stops(addr, n, failure) == \/ Goto(failure)
                           \/ ReachesKernel(addr, n) /\ Goto("kernel")

\* data with bytes, a function on 0..n - 1, put at addr.
Put(addr, n, bytes) ==
  [f \in Frame |-> [b \in 0..PAGE_SIZE - 1 |->
     LET at == {i \in 0..n - 1 : /\ FrameAt(New, addr + i) = f
                                 /\ (addr + i) % PAGE_SIZE = b}
     IN IF at = {} THEN data[f][b] ELSE bytes[CHOOSE i \in at : TRUE]]]

ByteAt(x, addr) == data[FrameAt(x, addr)][addr % PAGE_SIZE]

-----------------------------------------------------------------------------
(* copy_args: the strings, and below them the pointers to them.            *)

Total(k) == FoldLeft(+, 0, SubSeq(argv, 1, k))
RoundUp(n, to) == ((n + to - 1) \div to) * to
Strings == StackEnd - RoundUp(Total(Len(argv)), PTR)

\* Mutant: no room for the pointer behind the last.
PointersShort == Strings - PTR * Len(argv)
Pointers == Strings - PTR * (Len(argv) + 1)

\* The strings are copied one behind the other, then the pointers and a 0.
String(a) == LET k == CHOOSE k \in DOMAIN argv :
                        Strings + Total(k - 1) <= a /\ a < Strings + Total(k)
             IN <<k, a - Strings - Total(k - 1)>>
Pointer(k) == IF k \in DOMAIN argv THEN <<Strings + Total(k - 1)>> ELSE <<0>>

ArgsByte(a) == IF a < Strings THEN Pointer((a - Pointers) \div PTR + 1)
               ELSE String(a)

CopyArgs ==
  /\ pc = "args"
  /\ LET n == Strings + Total(Len(argv)) - Pointers
         bytes == [i \in 0..n - 1 |-> ArgsByte(Pointers + i)]
     IN IF AllMapped(Pointers, n)
        THEN /\ data' = Put(Pointers, n, bytes)
             /\ ctx' = [rsp |-> Pointers, rdi |-> Len(argv), rsi |-> Pointers]
             /\ pc' = "load"
             /\ UNCHANGED <<memory, live, root, vmas, call, progress, thread>>
        ELSE Goto("undo")

-----------------------------------------------------------------------------
(* load_binary and segment_map                                             *)

HeaderAt == file.phoff + header * file.phentsize
Segment == file.segment[HeaderAt]

Loaded == pc = "load" /\ header = file.phnum /\ Goto("switch")

\* The next program header is read; only PT_LOAD is looked at.
Load ==
  /\ pc = "load" /\ header # file.phnum
  /\ IF Readable(HeaderAt, PHEADER) # PHEADER THEN Goto("undo")
     ELSE IF Segment.load THEN Goto("buffer")
     ELSE /\ header' = header + 1
          /\ UNCHANGED <<memoryVars, pc, call, buffer, done, ctx, thread>>

Buffer ==
  /\ pc = "buffer"
  /\ IF memory.avail # {}
     THEN /\ buffer' = Block(memory, 1)
          /\ memory' = Grab(memory, buffer', 1)
          /\ pc' = "map"
          /\ UNCHANGED <<data, live, root, vmas, call, header, done, ctx, thread>>
     ELSE Goto("segment_fails")

\* buddy_free(phys, 0), which is called with the 0 of a failed buddy_alloc too.
FreeBuffer == /\ memory' = GiveBack(memory, buffer, 1)
              /\ buffer' = 0

SegmentFails ==
  /\ pc = "segment_fails"
  /\ FreeBuffer
  /\ pc' = "undo"
  /\ UNCHANGED <<data, live, root, vmas, call, header, done, ctx, thread>>

segment_flags(flags) == {"read"} \cup (flags \cap {"write", "execute"})

\* The page behind a segment.  The sum may wrap around.
SegmentEnd(s) == ((s.vaddr + s.memsz + PAGE_SIZE - 1) \div PAGE_SIZE) % WORD

MapSegment ==
  /\ pc = "map"
  /\ MapPages(Segment.vaddr \div PAGE_SIZE, SegmentEnd(Segment),
              segment_flags(Segment.flags), "copy", "segment_fails")

\* A turn of the loop: a page of the file, read at p_offset every time.
CopySegment ==
  /\ pc = "copy"
  /\ LET s == Segment
         n == Smaller(s.filesz - done, PAGE_SIZE)
     IN /\ done < s.filesz
        /\ IF Readable(s.offset, n) # n THEN Goto("segment_fails")
           ELSE IF AllMapped(s.vaddr + done, n)
           THEN /\ data' = Put(s.vaddr + done, n,
                               [i \in 0..n - 1 |-> FileByte(s.offset + i)])
                /\ done' = done + n
                /\ UNCHANGED <<memory, live, root, vmas, pc,
                               call, header, buffer, ctx, thread>>
           ELSE Stops(s.vaddr + done, n, "segment_fails")

\* The rest is filled with 0, and the buffer freed.  How much that is, is an unsigned
\* number: with less in memory than in the file mset goes on until it fails.
FillSegment ==
  /\ pc = "copy" /\ done = Segment.filesz
  /\ LET addr == Segment.vaddr + done
         n    == (Segment.memsz - Segment.filesz) % (WORD * PAGE_SIZE)
     IN IF AllMapped(addr, n)
        THEN /\ data' = Put(addr, n, [i \in 0..n - 1 |-> Zero])
             /\ FreeBuffer
             /\ header' = header + 1 /\ done' = 0
             /\ pc' = "load"
             /\ UNCHANGED <<live, root, vmas, call, ctx, thread>>
        ELSE Stops(addr, n, "segment_fails")

-----------------------------------------------------------------------------
(* The end of exec.                                                        *)

\* Mutant: the new address space is forgotten.
ReleaseNewForgotten(x) == UNCHANGED memoryVars
ReleaseNew(x) == ReleaseMm(x)

Undo == /\ pc = "undo"
        /\ ReleaseNew(New)
        /\ pc' = "failed"
        /\ UNCHANGED callVars

Switch == /\ pc = "switch"
          /\ mm' = New /\ cr3' = root[New]
          /\ pc' = "release"
          /\ UNCHANGED <<memoryVars, call, progress, ctx, regs>>

ReleaseOld == /\ pc = "release"
              /\ ReleaseMm(Old)
              /\ regs' = [rip |-> file.entry, rsp |-> ctx.rsp,
                          rdi |-> ctx.rdi, rsi |-> ctx.rsi]
              /\ pc' = "done"
              /\ UNCHANGED <<call, progress, ctx, mm, cr3>>

Ended == pc \in {"done", "failed", "hang", "kernel"} /\ UNCHANGED execVars

ExecNext == \/ Open \/ CreateNew \/ Stack \/ CopyArgs
            \/ Load \/ Loaded \/ Buffer \/ MapSegment \/ SegmentFails
            \/ CopySegment \/ FillSegment
            \/ Undo \/ Switch \/ ReleaseOld
            \/ Ended

ExecSpec == ExecInit /\ [][ExecNext]_execVars

-----------------------------------------------------------------------------
Used == {u \in live \X Node : NodeFrame(u[1], u[2][1], u[2][2]) # 0}

Segments == {file.segment[file.phoff + i * file.phentsize] : i \in 0..file.phnum - 1}

\* A segment as a linker makes it: in user space, and not shorter in memory than in
\* the file.
Loadable(s) == s.filesz <= s.memsz /\ s.vaddr + s.memsz <= StackEnd

\* All or nothing, wherever exec fails: it ends with the old address space and
\* registers, or with the new ones; the processor never uses a page table that
\* was freed; and every frame (0 is none: see ZeroNeverFree) is free, in one place
\* of one address space, or the buffer: none is lost or used for two things.  That
\* ends where exec writes above user space, which only a program with a segment
\* that is not Loadable makes it do.
AllOrNothing ==
  /\ pc = "kernel" => \E s \in Segments : s.load /\ ~Loadable(s)
  /\ mm \in live /\ cr3 = root[mm]
  /\ pc = "failed" => live = {Old} /\ regs = <<>>
  /\ pc = "done" => live = {New} /\ regs # <<>>
  /\ Up /\ pc # "kernel" =>
       LET used == {NodeFrame(u[1], u[2][1], u[2][2]) : u \in Used}
           spare == {buffer} \ {0}
           free == memory.avail \ {0}
       IN /\ Cardinality(Used) = Cardinality(used)
          /\ used \cap (free \cup spare) = {}
          /\ free \cap spare = {}
          /\ pc \in {"failed", "done"} => spare = {}
          /\ used \cup free \cup spare = 1..frames

\* A pointer that user space reads at an address.
PointerAt(a) == ByteAt(New, a)[1]

\* The program finds its arguments: argv is an array of pointers to the strings,
\* ends with 0, and lies with them in mapped memory above the stack pointer.
ArgumentsOK ==
  \A k \in 1..Len(argv) + 1 :
    LET p == PointerAt(regs.rsi + PTR * (k - 1))
    IN IF k > Len(argv) THEN p = 0
       ELSE \A i \in 0..argv[k] - 1 : ByteAt(New, p + i) = <<k, i>>

\* And its segments: what the file has of them, up to a page, then zeros.
SegmentsOK(limit) ==
  \A s \in Segments : s.load =>
    /\ \A i \in 0..Smaller(s.filesz, limit) - 1 :
         ByteAt(New, s.vaddr + i) = FileByte(s.offset + i)
    /\ \A i \in s.filesz..s.memsz - 1 : ByteAt(New, s.vaddr + i) = Zero

\* What a program finds when exec succeeds: its arguments and segments, each
\* segment at most a page of the file.
ImageOK == pc = "done" => /\ regs.rip = file.entry /\ regs.rdi = Len(argv)
                          /\ regs.rsp = regs.rsi
                          /\ ArgumentsOK /\ SegmentsOK(PAGE_SIZE)

\* The same of segments of any size.
WholeSegments == pc = "done" => SegmentsOK(file.size)

\* balloc.c:190: the first megabyte is "a reserved area. Also we can interpret
\* zero physical address as an invalid", so it is never free to be given out.
ZeroNeverFree == 0 \notin memory.avail
=============================================================================
