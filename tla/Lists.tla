--------------------------------- MODULE Lists ---------------------------------
(***************************************************************************)
(* src/list.c: circular doubly linked lists, as pointers.  Each function   *)
(* is called by whoever has the lock of the lists it gets, so it is a      *)
(* step; contents is what the callers take the lists to hold.              *)
(***************************************************************************)
EXTENDS Integers, Sequences

CONSTANTS List,  \* the list heads
          Item,  \* the struct list_head inside other objects
          Wild   \* where a pointer nobody has set may point

ASSUME NodeAssumption == List \cap Item = {} /\ Wild \notin List \cup Item

VARIABLES next, prev,  \* of every node
          made,        \* the heads list_init was called for
          contents     \* auxiliary: the items of every list, in order

vars == <<next, prev, made, contents>>

Node == List \cup Item

Init == /\ next = [n \in Node |-> Wild] /\ prev = [n \in Node |-> Wild]
        /\ made = {}
        /\ contents = [h \in List |-> <<>>]

\* Sequences as the callers see them: x put in at place k, place k left out, and
\* t put in behind place k.
PutIn(s, k, x) == [i \in 1..Len(s) + 1 |->
                     IF i < k THEN s[i] ELSE IF i = k THEN x ELSE s[i - 1]]
LeaveOut(s, k) == [i \in 1..Len(s) - 1 |-> IF i < k THEN s[i] ELSE s[i + 1]]

InList(h, x) == \E k \in 1..Len(contents[h]) : contents[h][k] = x
Free(x) == \A h \in List : ~InList(h, x)

\* The nodes of a list: the head, the items, and the head again.
NodeAt(h, k) == IF k \in 1..Len(contents[h]) THEN contents[h][k] ELSE h

-----------------------------------------------------------------------------
list_init(h) ==
  /\ h \notin made
  /\ made' = made \cup {h}
  /\ next' = [next EXCEPT ![h] = h] /\ prev' = [prev EXCEPT ![h] = h]
  /\ UNCHANGED contents

\* Mutant: the node after the new one keeps its pointer back.
list_insert_half(node, p, n) ==
  /\ prev' = [prev EXCEPT ![node] = p]
  /\ next' = [next EXCEPT ![node] = n, ![p] = node]

list_insert(node, p, n) ==
  /\ prev' = [prev EXCEPT ![node] = p, ![n] = node]
  /\ next' = [next EXCEPT ![node] = n, ![p] = node]

\* list_add and list_add_after: x behind the node at place k.
list_add(x, h, k) ==
  /\ h \in made /\ Free(x)
  /\ list_insert(x, NodeAt(h, k), next[NodeAt(h, k)])
  /\ contents' = [contents EXCEPT ![h] = PutIn(@, k + 1, x)]
  /\ UNCHANGED made

\* list_add_tail and list_add_before: x before the node at place k.
list_add_tail(x, h, k) ==
  /\ h \in made /\ Free(x)
  /\ list_insert(x, prev[NodeAt(h, k)], NodeAt(h, k))
  /\ contents' = [contents EXCEPT ![h] = PutIn(@, k, x)]
  /\ UNCHANGED made

\* The item itself keeps its pointers.
list_del(h, k) ==
  LET x == contents[h][k]
  IN /\ next' = [next EXCEPT ![prev[x]] = next[x]]
     /\ prev' = [prev EXCEPT ![next[x]] = prev[x]]
     /\ contents' = [contents EXCEPT ![h] = LeaveOut(@, k)]
     /\ UNCHANGED made

list_empty(h) == next[h] = h

\* The items of from are linked in behind p, and from is made empty.
SpliceBehind(from, p) ==
  LET first == next[from]
      last == prev[from]
      n == next[p]
  IN /\ next' = [next EXCEPT ![from] = from, ![last] = n, ![p] = first]
     /\ prev' = [prev EXCEPT ![from] = from, ![first] = p, ![n] = last]

list_splice(from, to) ==
  /\ {from, to} \subseteq made /\ from # to
  /\ IF list_empty(from) THEN UNCHANGED vars
     ELSE /\ SpliceBehind(from, to)
          /\ contents' = [contents EXCEPT ![from] = <<>>,
                                          ![to] = contents[from] \o @]
          /\ UNCHANGED made

list_splice_tail(from, to) ==
  /\ {from, to} \subseteq made /\ from # to
  /\ IF list_empty(from) THEN UNCHANGED vars
     ELSE /\ SpliceBehind(from, prev[to])
          /\ contents' = [contents EXCEPT ![from] = <<>>,
                                          ![to] = @ \o contents[from]]
          /\ UNCHANGED made

Next ==
  \E h \in List :
    \/ list_init(h)
    \/ \E x \in Item :
         \/ \E k \in 0..Len(contents[h]) : list_add(x, h, k)
         \/ \E k \in 1..Len(contents[h]) + 1 : list_add_tail(x, h, k)
    \/ \E k \in 1..Len(contents[h]) : list_del(h, k)
    \/ \E to \in List : list_splice(h, to) \/ list_splice_tail(h, to)

Spec == Init /\ [][Next]_vars

-----------------------------------------------------------------------------
TypeOK == /\ next \in [Node -> Node \cup {Wild}]
          /\ prev \in [Node -> Node \cup {Wild}]
          /\ made \subseteq List
          /\ contents \in [List -> Seq(Item)]

\* An item is in one list, once; a list that was not made is empty.
Once == /\ \A g, h \in List : \A i \in 1..Len(contents[g]), k \in 1..Len(contents[h]) :
             contents[g][i] = contents[h][k] => g = h /\ i = k
        /\ \A h \in List \ made : contents[h] = <<>>

\* Going forward from a head by next, or back by prev, visits exactly the items
\* the callers put in the list, in their order, and comes back to the head: every
\* loop over a list ends, and sees all of it.
Linked == \A h \in made : \A k \in 0..Len(contents[h]) :
            /\ next[NodeAt(h, k)] = NodeAt(h, k + 1)
            /\ prev[NodeAt(h, k + 1)] = NodeAt(h, k)

\* The pointers and the sequences agree after any calls of list.c.
ListsAgree == TypeOK /\ Once /\ Linked
=============================================================================
