------------------------------- MODULE Initramfs -------------------------------
(***************************************************************************)
(* src/initramfs.c and initrd_find of src/misc.c: the module of the boot   *)
(* loader that is a cpio archive is found, and its files are made in the   *)
(* file system (AbstractFiles).  One processor does this, before there are *)
(* threads; a step is one turn of the loop over the archive.               *)
(***************************************************************************)
EXTENDS Integers, Sequences, SequencesExt, FiniteSets

CONSTANTS
  HEADER,     \* sizeof(struct cpio_header)
  SIGN,       \* sizeof(sign) - 1
  ModuleLists \* what the boot loader may pass: sequences of [size, entries], the
              \* second <<>> in what is no archive; an entry is [name, mode, size]

VARIABLES
  modules,
  data, size,  \* the initrd: the entries in it, and where it ends
  pos,
  pc,          \* "find", "parse", "done", or "hang": a loop after a message
  loaded       \* the files made: [name, from, size]

vars == <<modules, data, size, pos, pc, loaded>>

TRAILER == "TRAILER!!!"

-----------------------------------------------------------------------------
(* What cpio --format=newc writes.                                         *)

RoundUp(n) == ((n + 3) \div 4) * 4

Hex(n) == [i \in 1..8 |-> (n \div 16^(8 - i)) % 16]
Header(entry) == [mode |-> Hex(entry.mode), filesize |-> Hex(entry.size),
                  namesize |-> Hex(Len(entry.name) + 1)]

DataAfter(at, entry) == RoundUp(at + HEADER + Len(entry.name) + 1)
Next4(at, entry) == RoundUp(DataAfter(at, entry) + entry.size)

\* Where an entry of an archive begins, and its data.
At(entries, k) == FoldLeft(Next4, 0, SubSeq(entries, 1, k - 1))
DataAt(entries, k) == DataAfter(At(entries, k), entries[k])

-----------------------------------------------------------------------------
Init == /\ modules \in ModuleLists
        /\ data = <<>> /\ size = 0
        /\ pos = 0 /\ pc = "find"
        /\ loaded = <<>>

\* initrd_find: the first module that begins with the sign.
Signed(module) == module.size >= SIGN /\ module.entries # <<>>

Find == /\ pc = "find"
        /\ \E m \in DOMAIN modules :
             /\ Signed(modules[m])
             /\ \A l \in 1..m - 1 : ~Signed(modules[l])
             /\ data' = modules[m].entries
             /\ size' = modules[m].size
        /\ pc' = "parse"
        /\ UNCHANGED <<modules, pos, loaded>>

FindNothing == /\ pc = "find"
               /\ \A m \in DOMAIN modules : ~Signed(modules[m])
               /\ pc' = "hang"
               /\ UNCHANGED <<modules, data, size, pos, loaded>>

-----------------------------------------------------------------------------
(* parse_cpio                                                              *)

parse_hex(digits) == FoldLeft(LAMBDA ans, d : ans * 16 + d, 0, digits)

S_ISREG(mode) == (mode \div 4096) % 16 = 8

Pad(n) == ((n + 3) \div 4) * 4

More == pos < size /\ size - pos >= HEADER
EntriesHere == {k \in DOMAIN data : At(data, k) = pos}

Leave == pc' = "done" /\ UNCHANGED <<modules, data, size, pos, loaded>>

\* create_file: it loops for ever when there is no memory for all of the file.
CreateFile(name, from, n) ==
  \/ loaded' = Append(loaded, [name |-> name, from |-> from, size |-> n]) /\ UNCHANGED pc
  \/ pc' = "hang" /\ UNCHANGED loaded

\* Mutant: the end of the data is not looked at.
CutNever(at) == FALSE
Cut(at) == at > size

Turn ==
  /\ pc = "parse" /\ More
  /\ \E k \in EntriesHere :
       LET hdr == Header(data[k])
           filesize == parse_hex(hdr.filesize)
           filedata == Pad(pos + HEADER + parse_hex(hdr.namesize))
       IN IF filedata > size \/ data[k].name = TRAILER \/ Cut(filedata + filesize)
          THEN Leave
          ELSE /\ IF S_ISREG(parse_hex(hdr.mode))
                  THEN CreateFile(data[k].name, filedata, filesize)
                  ELSE UNCHANGED <<pc, loaded>>
               /\ pos' = Pad(filedata + filesize)
               /\ UNCHANGED <<modules, data, size>>

Leaving == pc = "parse" /\ ~More /\ Leave

Ended == pc \in {"done", "hang"} /\ UNCHANGED vars

Next == Find \/ FindNothing \/ Turn \/ Leaving \/ Ended

Spec == Init /\ [][Next]_vars

-----------------------------------------------------------------------------
\* The archive the boot loader passed, which other modules may come before.
Archive == CHOOSE m \in {modules[i] : i \in DOMAIN modules} : m.entries # <<>>

\* The entries before the first that is the trailer, or that the module ends in.
Whole == {k \in DOMAIN Archive.entries :
            \A j \in 1..k : /\ Archive.entries[j].name # TRAILER
                          /\ DataAt(Archive.entries, j) + Archive.entries[j].size
                               <= Archive.size}

Wanted == SelectSeq([k \in 1..Cardinality(Whole) |->
                       [name |-> Archive.entries[k].name,
                        from |-> DataAt(Archive.entries, k),
                        size |-> Archive.entries[k].size,
                        file |-> S_ISREG(Archive.entries[k].mode)]],
                    LAMBDA e : e.file)

\* Wherever the module ends, also inside a header, a name or the data of a file,
\* the walk reads headers only where there are some, and makes exactly the files
\* that are there as a whole, in order, each with its own bytes; a loop after
\* the files are found leaves those before made.
ArchiveLoaded ==
  /\ pc = "parse" /\ More => EntriesHere # {}
  /\ pc # "find" /\ size > 0 =>
       LET made == [i \in DOMAIN loaded |->
                      loaded[i] @@ [file |-> TRUE]]
       IN /\ IsPrefix(made, Wanted)
          /\ pc = "done" => made = Wanted
=============================================================================
