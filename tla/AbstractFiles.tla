---------------------------- MODULE AbstractFiles ----------------------------
(***************************************************************************)
(* What the calls of src/ramfs.c promise: each takes effect at one moment. *)
(* There is one file to a name; a write that runs out of memory stores a   *)
(* prefix, though the file has grown; a read returns every byte that was   *)
(* written, and what it likes where nothing was.                           *)
(***************************************************************************)
EXTENDS Integers, Sequences

CONSTANTS Proc, Name, LIMIT, WRITES

VARIABLES
  file,   \* the files, in the order they were made: [name, size, byte]
  result  \* the result of the last call of a process, or Pending

Pending == <<>>
Nothing == <<>>  \* in a file, where nothing was written
Offset == 0..LIMIT - 1

Init == file = <<>> /\ result = [p \in Proc |-> Pending]

Begin(p) == /\ result' = [result EXCEPT ![p] = Pending]
            /\ UNCHANGED file

Return(p, value) == /\ result[p] = Pending
                    /\ result' = [result EXCEPT ![p] = value]

Named(name) == {f \in DOMAIN file : file[f].name = name}

Open(p, name) ==
  \/ \E f \in Named(name) : Return(p, <<f>>) /\ UNCHANGED file
  \/ Named(name) = {} /\ Return(p, <<-1>>) /\ UNCHANGED file
  \/ /\ Named(name) = {}
     /\ Return(p, <<Len(file) + 1>>)
     /\ file' = Append(file, [name |-> name, size |-> 0,
                              byte |-> [o \in Offset |-> Nothing]])

Write(p, f, from, to, tag, count) ==
  /\ Return(p, <<IF count = 0 /\ from < to THEN -1 ELSE count>>)
  /\ file' = [file EXCEPT
       ![f].size = IF to > @ THEN to ELSE @,
       ![f].byte = [o \in Offset |-> IF o \in from..from + count - 1
                                     THEN <<tag, o - from>> ELSE @[o]]]

Read(p, f, from, to) ==
  LET size == file[f].size
      ret  == IF from >= size THEN 0
              ELSE (IF to < size THEN to ELSE size) - from
  IN /\ result[p] = Pending
     /\ Len(result'[p]) = 2 /\ result'[p][1] = ret
     /\ \A o \in from..from + ret - 1 :
          file[f].byte[o] # Nothing => result'[p][2][o - from] = file[f].byte[o]
     /\ \A q \in Proc \ {p} : result'[q] = result[q]
     /\ UNCHANGED file

Next == \E p \in Proc :
  \/ Begin(p)
  \/ \E name \in Name : Open(p, name)
  \/ \E f \in DOMAIN file, from, to \in 0..LIMIT :
       \/ \E tag \in 1..WRITES, count \in 0..to - from :
            Write(p, f, from, to, tag, count)
       \/ Read(p, f, from, to)

Spec == Init /\ [][Next]_<<file, result>>
=============================================================================
