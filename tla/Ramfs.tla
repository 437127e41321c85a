-------------------------------- MODULE Ramfs --------------------------------
(***************************************************************************)
(* src/ramfs.c: files in memory, a list of pages each, in order of their   *)
(* offsets and with gaps where nothing was written.  Every call but close  *)
(* works inside ramfs_mtx; a step is the search for a name, or one turn of *)
(* the loop over the pages, in which memory may run out.                   *)
(***************************************************************************)
EXTENDS Integers, Sequences, FiniteSets, SequencesExt

CONSTANTS
  Proc, NoProc,
  Name,
  PAGE_SIZE,
  LIMIT,    \* bound on the end of a read or write
  WRITES,   \* bound on the number of writes
  ToRead, ToWrite  \* ranges of a file, <<first offset, offset behind the last>>

\* What an instance has to give the constants.
Assumption ==
  /\ PAGE_SIZE \in Nat \ {0} /\ LIMIT \in Nat /\ WRITES \in Nat
  /\ NoProc \notin Proc
  /\ \A r \in ToRead \cup ToWrite : r \in (0..LIMIT) \X (0..LIMIT) /\ r[1] <= r[2]

VARIABLES
  files,    \* ramfs_cache, the oldest first; a pointer is a place in it
  mtx,      \* who is inside ramfs_mtx, or NoProc
  call,     \* the call a process is in, or the result of its last one
  objects,  \* how many struct ramfs_page and pages the allocators gave out
  writes,   \* how many writes there were
  image     \* auxiliary: files as the completed writes should have left them

vars == <<files, mtx, call, objects, writes, image>>

Offset == 0..LIMIT - 1
Page == [offs : Offset, byte : [0..PAGE_SIZE - 1 -> Seq(Nat)]]

\* A byte of the n-th write is <<n, place>>; the others are what memset left in
\* a buffer, and what the last user of a page left in it.
Nothing == <<>>
Zero == <<0>>
Stale == <<0, 0>>

Init == /\ files = <<>> /\ mtx = NoProc
        /\ call = [p \in Proc |-> [at |-> "done", result |-> <<>>]]
        /\ objects = [rp |-> 0, page |-> 0]
        /\ writes = 0
        /\ image = <<>>

Goto(p, new) == call' = [call EXCEPT ![p] = new]

\* mutex_unlock and return.
Return(p, result) == /\ mtx' = NoProc
                     /\ Goto(p, [at |-> "done", result |-> result])

-----------------------------------------------------------------------------
(* The calls, up to mutex_lock.                                            *)

Begin(p) ==
  /\ call[p].at = "done"
  /\ \/ \E n \in Name, create \in BOOLEAN :
          Goto(p, [at |-> "lock", op |-> "find", name |-> n, create |-> create])
     \/ \E f \in DOMAIN files, r \in ToRead :
          Goto(p, [at |-> "lock", op |-> "read", file |-> f, from |-> r[1],
                   to |-> r[2], turn |-> 1,
                   buf |-> [i \in 0..r[2] - r[1] - 1 |-> Zero]])
  /\ UNCHANGED <<files, mtx, objects, writes, image>>

BeginWrite(p) ==
  /\ call[p].at = "done"
  /\ writes < WRITES
  /\ \E f \in DOMAIN files, r \in ToWrite :
       Goto(p, [at |-> "lock", op |-> "grow", file |-> f, from |-> r[1],
                to |-> r[2], turn |-> 1, offs |-> r[1], tag |-> writes + 1])
  /\ writes' = writes + 1
  /\ UNCHANGED <<files, mtx, objects, image>>

\* Mutant: nobody waits.
MayLockAlways == TRUE
MayLock == mtx = NoProc

Lock(p) ==
  /\ call[p].at = "lock"
  /\ MayLock
  /\ mtx' = p
  /\ Goto(p, [call[p] EXCEPT !.at = "in"])
  /\ UNCHANGED <<files, objects, writes, image>>

Doing(p, op) == call[p].at = "in" /\ call[p].op = op

-----------------------------------------------------------------------------
(* __ramfs_open                                                            *)

Called(name) == {f \in DOMAIN files : files[f].name = name}

Found(p) ==
  /\ Doing(p, "find")
  /\ \E f \in Called(call[p].name) :
       /\ \A g \in Called(call[p].name) : g <= f
       /\ Return(p, <<f>>)
  /\ UNCHANGED <<files, objects, writes, image>>

NotFound(p) ==
  /\ Doing(p, "find")
  /\ Called(call[p].name) = {}
  /\ IF call[p].create
     THEN Goto(p, [call[p] EXCEPT !.op = "add"]) /\ UNCHANGED mtx
     ELSE Return(p, <<-1>>)
  /\ UNCHANGED <<files, objects, writes, image>>

Add(p) ==
  /\ Doing(p, "add")
  /\ files' = Append(files, [name |-> call[p].name, size |-> 0, data |-> <<>>])
  /\ image' = Append(image, [name |-> call[p].name, size |-> 0,
                             byte |-> [o \in Offset |-> Nothing]])
  /\ Return(p, <<Len(files) + 1>>)
  /\ UNCHANGED <<objects, writes>>

\* The result of slab_cache_alloc is not tested: without memory for the file the
\* store to new->size faults, and the processor stays in the handler of exceptions
\* with interrupts off.
AddFaults(p) ==
  /\ Doing(p, "add")
  /\ Goto(p, [at |-> "fault"])
  /\ UNCHANGED <<files, mtx, objects, writes, image>>

-----------------------------------------------------------------------------
(* What a turn of either loop copies.                                      *)

Smaller(a, b) == IF a < b THEN a ELSE b
Larger(a, b) == IF a < b THEN b ELSE a

DataOffs(rp, from) == Larger(rp.offs - from, 0)
PageOffs(rp, offs) == Larger(offs - rp.offs, 0)
ToCopy(rp, from, offs, to) ==
  Smaller(PAGE_SIZE - PageOffs(rp, offs), to - (from + DataOffs(rp, from)))

\* memcpy(dst + at, src + from, n)
Memcpy(dst, at, src, from, n) ==
  [i \in DOMAIN dst |-> IF i \in at..at + n - 1 THEN src[from + i - at] ELSE dst[i]]

-----------------------------------------------------------------------------
(* __ramfs_readat                                                          *)

ReadTurn(p) ==
  /\ Doing(p, "read")
  /\ LET c == call[p]
         data == files[c.file].data
         rp == data[c.turn]
         n  == ToCopy(rp, c.from, c.from, c.to)
     IN /\ c.from < files[c.file].size
        /\ c.turn <= Len(data)
        /\ rp.offs < c.to \/ rp.offs + PAGE_SIZE <= c.from
        /\ Goto(p, [c EXCEPT !.turn = @ + 1,
                     !.buf = IF rp.offs + PAGE_SIZE <= c.from THEN @
                             ELSE Memcpy(@, DataOffs(rp, c.from), rp.byte,
                                         PageOffs(rp, c.from), n)])
  /\ UNCHANGED <<files, mtx, objects, writes, image>>

Count(size, from, to) == IF from >= size THEN 0
                         ELSE IF to >= size THEN size - from ELSE to - from

ReadEnd(p) ==
  /\ Doing(p, "read")
  /\ LET c == call[p]
         data == files[c.file].data
         size == files[c.file].size
     IN /\ c.from < size /\ c.turn <= Len(data) =>
             data[c.turn].offs >= c.to /\ data[c.turn].offs + PAGE_SIZE > c.from
        /\ Return(p, <<Count(size, c.from, c.to), c.buf>>)
  /\ UNCHANGED <<files, objects, writes, image>>

-----------------------------------------------------------------------------
(* __ramfs_writeat                                                         *)

\* The size grows before anything is stored.
Grow(p) ==
  /\ Doing(p, "grow")
  /\ files' = [files EXCEPT ![call[p].file].size = Larger(@, call[p].to)]
  /\ Goto(p, [call[p] EXCEPT !.op = "write"])
  /\ UNCHANGED <<mtx, objects, writes, image>>

PagesOf(p) == files[call[p].file].data
Writing(p) == Doing(p, "write") /\ call[p].offs # call[p].to

Behind(rp, offs) == rp.offs + PAGE_SIZE <= offs

WriteSkip(p) ==
  /\ Writing(p)
  /\ call[p].turn <= Len(PagesOf(p))
  /\ Behind(PagesOf(p)[call[p].turn], call[p].offs)
  /\ Goto(p, [call[p] EXCEPT !.turn = @ + 1])
  /\ UNCHANGED <<files, mtx, objects, writes, image>>

\* The turn copies to the page at its place in the list.
Store(p, data) ==
  LET c  == call[p]
      rp == data[c.turn]
      n  == ToCopy(rp, c.from, c.offs, c.to)
      src == [i \in 0..c.to - c.from - 1 |-> <<c.tag, i>>]
  IN /\ files' = [files EXCEPT ![c.file].data = [data EXCEPT ![c.turn].byte =
                    Memcpy(@, PageOffs(rp, c.offs), src, DataOffs(rp, c.from), n)]]
     /\ Goto(p, [c EXCEPT !.turn = @ + 1, !.offs = @ + n])
     /\ UNCHANGED <<mtx, writes, image>>

Missing(p) == /\ Writing(p)
              /\ call[p].turn <= Len(PagesOf(p)) =>
                   PagesOf(p)[call[p].turn].offs > call[p].offs

WriteCopy(p) ==
  /\ Writing(p) /\ ~Missing(p)
  /\ ~Behind(PagesOf(p)[call[p].turn], call[p].offs)
  /\ Store(p, PagesOf(p))
  /\ UNCHANGED objects

\* The page is not cleared.
NewPage(offs) == [offs |-> offs - (offs % PAGE_SIZE),
                  byte |-> [i \in 0..PAGE_SIZE - 1 |-> Stale]]

WriteInsert(p) ==
  /\ Missing(p)
  /\ Store(p, InsertAt(PagesOf(p), call[p].turn, NewPage(call[p].offs)))
  /\ objects' = [rp |-> objects.rp + 1, page |-> objects.page + 1]

\* The image takes what was stored before the end, or before the failure.
Finish(p, ret) ==
  LET c == call[p]
  IN /\ image' = [image EXCEPT
          ![c.file].size = Larger(@, c.to),
          ![c.file].byte = [o \in Offset |-> IF o \in c.from..c.offs - 1
                                             THEN <<c.tag, o - c.from>> ELSE @[o]]]
     /\ Return(p, <<ret>>)
     /\ UNCHANGED <<files, writes>>

\* Mutant: the object is kept when there is no page for it.
FreedNever(got) == 0
Freed(got) == got

\* There is no ramfs_page, or one that is freed as there is no page.
WriteFails(p) ==
  /\ Missing(p)
  /\ \E got \in {0, 1} : objects' = [objects EXCEPT !.rp = @ + got - Freed(got)]
  /\ Finish(p, IF call[p].offs = call[p].from THEN -1
               ELSE call[p].offs - call[p].from)

WriteEnd(p) ==
  /\ Doing(p, "write") /\ call[p].offs = call[p].to
  /\ Finish(p, call[p].offs - call[p].from)
  /\ UNCHANGED objects

-----------------------------------------------------------------------------
Faulted == \E p \in Proc : call[p].at = "fault"

Step(p) ==
  \/ Begin(p) \/ BeginWrite(p) \/ Lock(p)
  \/ Found(p) \/ NotFound(p) \/ Add(p) \/ AddFaults(p)
  \/ ReadTurn(p) \/ ReadEnd(p)
  \/ Grow(p) \/ WriteSkip(p) \/ WriteCopy(p) \/ WriteInsert(p)
  \/ WriteFails(p) \/ WriteEnd(p)

Next == \/ ~Faulted /\ \E p \in Proc : Step(p)
        \/ Faulted /\ UNCHANGED vars

Spec == Init /\ [][Next]_vars

-----------------------------------------------------------------------------
\* The lists are as the loops expect them: pages at multiples of PAGE_SIZE, in
\* order, none twice.
PagesOK ==
  \A f \in DOMAIN files :
    LET data == files[f].data
    IN \A k \in DOMAIN data : /\ data[k].offs % PAGE_SIZE = 0
                              /\ k > 1 => data[k - 1].offs < data[k].offs

\* Whoever works on them has the mutex.
MutexOK == \A p \in Proc : call[p].at \in {"in", "fault"} => mtx = p

\* Every object and page that was taken is in a list, also after a write that
\* failed half way.
Places == UNION {{f} \X DOMAIN files[f].data : f \in DOMAIN files}
NothingLost == objects = [rp |-> Cardinality(Places), page |-> Cardinality(Places)]

WellFormed == PagesOK /\ MutexOK /\ NothingLost

-----------------------------------------------------------------------------
(* Why reads return what writes stored.                                    *)

FindCall == [at : {"lock", "in"}, op : {"find", "add"}, name : Name,
             create : BOOLEAN]
ReadCall(n) == [at : {"lock", "in"}, op : {"read"}, file : Nat, from : 0..LIMIT,
                to : 0..LIMIT, turn : Nat \ {0}, buf : [0..n - 1 -> Seq(Nat)]]
WriteCall == [at : {"lock", "in"}, op : {"grow", "write"}, file : Nat,
              from : 0..LIMIT, to : 0..LIMIT, turn : Nat \ {0},
              offs : 0..LIMIT, tag : 1..WRITES]

TypeOK ==
  /\ files \in Seq([name : Name, size : 0..LIMIT, data : Seq(Page)])
  /\ image \in Seq([name : Name, size : 0..LIMIT, byte : [Offset -> Seq(Nat)]])
  /\ Len(image) = Len(files)
  /\ \A f \in DOMAIN files : image[f].name = files[f].name
  /\ writes \in 0..WRITES
  /\ call = [p \in Proc |-> call[p]]
  /\ \A p \in Proc : \/ call[p].at \in {"done", "fault"}
                     \/ call[p] \in FindCall \cup WriteCall
                     \/ \E n \in 0..LIMIT : call[p] \in ReadCall(n)

\* What a call is at before it has looked at a page.
Asked(c) ==
  /\ c.op \in {"read", "grow", "write"} => c.file \in DOMAIN files /\ c.from <= c.to
  /\ c.op = "read" => DOMAIN c.buf = 0..c.to - c.from - 1
  /\ c.op = "grow" => c.turn = 1 /\ c.offs = c.from
  /\ c.op = "add" => c.at = "in" /\ Called(c.name) = {}
  /\ c.at = "lock" => c.op # "write" /\ (c.op = "read" => c.turn = 1)

CallsOK == \A p \in Proc : call[p].at \in {"lock", "in"} => Asked(call[p])

\* The page that holds a byte holds this one.
Holds(rp, o) == o \in rp.offs .. rp.offs + PAGE_SIZE - 1
Kept(f, o, byte) == \E k \in DOMAIN files[f].data :
  /\ Holds(files[f].data[k], o)
  /\ files[f].data[k].byte[o - files[f].data[k].offs] = byte

\* A reader has copied the pages before its place.
Copied(c, data) ==
  /\ c.turn <= Len(data) + 1
  /\ \A k \in 1..c.turn - 1 : \A o \in c.from..c.to - 1 :
       Holds(data[k], o) => c.buf[o - c.from] = data[k].byte[o - data[k].offs]

ReaderOK == \A p \in Proc :
  Doing(p, "read") => Copied(call[p], files[call[p].file].data)

\* A writer that has not finished is at the end of a page, or at its start, and
\* all pages before its place are behind it.
Passed(c, data) ==
  /\ c.turn <= Len(data) + 1
  /\ c.offs \in c.from..c.to
  /\ c.offs # c.to => /\ c.offs = c.from \/ c.offs % PAGE_SIZE = 0
                      /\ \A k \in 1..c.turn - 1 : Behind(data[k], c.offs)

WriterOK == \A p \in Proc :
  Doing(p, "write") => Passed(call[p], files[call[p].file].data)

\* A file is what the completed writes left, and what the writer inside it did.
WriterOf(p, f) == Doing(p, "write") /\ call[p].file = f
Stored(p, o) == o \in call[p].from .. call[p].offs - 1

SizeOK ==
  \A f \in DOMAIN files :
    /\ \A p \in Proc : WriterOf(p, f) =>
         files[f].size = Larger(image[f].size, call[p].to)
    /\ (\A p \in Proc : ~WriterOf(p, f)) => files[f].size = image[f].size

BytesOK ==
  \A f \in DOMAIN files, o \in Offset :
    /\ \A p \in Proc : WriterOf(p, f) /\ Stored(p, o) =>
         Kept(f, o, <<call[p].tag, o - call[p].from>>)
    /\ image[f].byte[o] # Nothing /\ ~(\E p \in Proc : WriterOf(p, f) /\ Stored(p, o))
         => Kept(f, o, image[f].byte[o])

\* Inductive.
IInv == TypeOK /\ WellFormed /\ CallsOK /\ ReaderOK /\ WriterOK /\ SizeOK /\ BytesOK

Abstract == INSTANCE AbstractFiles WITH
  file <- image,
  result <- [p \in Proc |-> IF call[p].at = "done" THEN call[p].result ELSE <<>>]

\* Whatever the calls of other processes do between the steps of one, files are
\* what AbstractFiles says: in particular a read returns all that was written,
\* also from pages that writes of any order and overlap made, and a write that
\* fails keeps what it returned.
ImplementsFiles == Abstract!Spec
=============================================================================
