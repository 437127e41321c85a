------------------------------ MODULE FilesProofs ------------------------------
(***************************************************************************)
(* Proofs about the components of MCFiles: Lists keeps pointers and        *)
(* sequences in agreement; Buddy keeps memory partitioned into blocks and  *)
(* the descriptors true, and implements AbstractAllocator; Ramfs keeps the *)
(* pages of its files in order, and implements AbstractFiles.              *)
(***************************************************************************)
EXTENDS MCFiles, SeqLemmas

\* What stays at its place: a node is at one place of one list.
LEMMA Places ==
  ASSUME ListsAgree, NEW g \in List, NEW h \in List,
         NEW i \in 0..Len(contents[g]), NEW k \in 0..Len(contents[h]),
         NodeAt(g, i) = NodeAt(h, k)
  PROVE  g = h /\ i = k
<1>1. contents[g] \in Seq(Item) /\ contents[h] \in Seq(Item)
  BY DEF ListsAgree, TypeOK
<1>2. i # 0 => NodeAt(g, i) = contents[g][i] /\ NodeAt(g, i) \in Item
  BY <1>1 DEF NodeAt
<1>3. k # 0 => NodeAt(h, k) = contents[h][k] /\ NodeAt(h, k) \in Item
  BY <1>1 DEF NodeAt
<1>4. i = 0 => NodeAt(g, i) = g
  BY DEF NodeAt
<1>5. k = 0 => NodeAt(h, k) = h
  BY DEF NodeAt
<1>6. CASE i = 0 \/ k = 0
  BY <1>2, <1>3, <1>4, <1>5, <1>6, NodeAssumption
<1>7. CASE i # 0 /\ k # 0
  <2>1. i \in 1..Len(contents[g]) /\ k \in 1..Len(contents[h])
    BY <1>1, <1>7
  <2> QED BY <1>2, <1>3, <1>7, <2>1 DEF ListsAgree, Once
<1> QED BY <1>6, <1>7

\* Every place of a list has a node, the place behind the last the head.
LEMMA Nodes ==
  ASSUME ListsAgree, NEW h \in List
  PROVE  /\ contents[h] \in Seq(Item) /\ Len(contents[h]) \in Nat
         /\ \A k \in Int : NodeAt(h, k) \in Node
         /\ NodeAt(h, 0) = h /\ NodeAt(h, Len(contents[h]) + 1) = h
         /\ \A k \in 1..Len(contents[h]) : NodeAt(h, k) = contents[h][k]
         /\ \A k \in 1..Len(contents[h]) : NodeAt(h, k) \in Item
<1>1. contents[h] \in Seq(Item)
  BY DEF ListsAgree, TypeOK
<1> QED BY <1>1 DEF NodeAt, Node

\* The pointers at every place of a list that was made.
LEMMA Pointers ==
  ASSUME ListsAgree, NEW h \in made
  PROVE  /\ h \in List
         /\ \A k \in 0..Len(contents[h]) : next[NodeAt(h, k)] = NodeAt(h, k + 1)
         /\ \A k \in 1..Len(contents[h]) + 1 : prev[NodeAt(h, k)] = NodeAt(h, k - 1)
<1>1. h \in List /\ contents[h] \in Seq(Item)
  BY DEF ListsAgree, TypeOK
<1>2. \A k \in 1..Len(contents[h]) + 1 :
        /\ k - 1 \in 0..Len(contents[h]) /\ (k - 1) + 1 = k
  BY <1>1
<1> QED BY <1>1, <1>2 DEF ListsAgree, Linked

\* The same for the node behind a place, which may be the head.
LEMMA Behind ==
  ASSUME ListsAgree, NEW g \in made, NEW h \in made,
         NEW j \in 0..Len(contents[g]), NEW k \in 0..Len(contents[h]),
         NodeAt(g, j + 1) = NodeAt(h, k + 1)
  PROVE  g = h /\ j = k
<1>1. NodeAt(g, j) = NodeAt(h, k)
  BY DEF ListsAgree, Linked
<1> QED BY <1>1, Places, Pointers

-----------------------------------------------------------------------------
\* list_insert between two places of a list puts the item there.
LEMMA Insert ==
  ASSUME ListsAgree, NEW h \in made, NEW x \in Item, Free(x),
         NEW k \in 1..Len(contents[h]) + 1,
         list_insert(x, NodeAt(h, k - 1), NodeAt(h, k)),
         contents' = [contents EXCEPT ![h] = PutIn(@, k, x)],
         UNCHANGED made
  PROVE  ListsAgree'
<1> DEFINE s == contents[h]
           p == NodeAt(h, k - 1)
           n == NodeAt(h, k)
<1>0. h \in List
  BY Pointers
<1>1. s \in Seq(Item) /\ Len(s) \in Nat /\ k \in Int /\ p \in Node /\ n \in Node
  BY <1>0, Nodes
<1>2. PutIn(s, k, x) \in Seq(Item) /\ Len(PutIn(s, k, x)) = Len(s) + 1
  BY <1>1 DEF PutIn
<1>3. /\ contents'[h] = PutIn(s, k, x)
      /\ \A g \in List : g # h => contents'[g] = contents[g]
  BY <1>0 DEF ListsAgree, TypeOK
<1>4. TypeOK'
  <2>1. contents' \in [List -> Seq(Item)]
    BY <1>0, <1>2 DEF ListsAgree, TypeOK
  <2>2. next' \in [Node -> Node \cup {Wild}] /\ prev' \in [Node -> Node \cup {Wild}]
    BY <1>1 DEF ListsAgree, TypeOK, list_insert, Node
  <2> QED BY <2>1, <2>2 DEF ListsAgree, TypeOK
<1>5. \A g \in List : \A i \in 1..Len(contents[g]) : contents[g][i] # x
  BY DEF Free, InList
<1>6. \A i \in 1..Len(s) + 1 : contents'[h][i] = IF i < k THEN s[i]
                                   ELSE IF i = k THEN x ELSE s[i - 1]
  BY <1>1, <1>3 DEF PutIn
<1> DEFINE old(i) == IF i < k THEN i ELSE i - 1
<1>6a. \A i \in 1..Len(s) + 1 : i # k => /\ old(i) \in 1..Len(s)
                                         /\ contents'[h][i] = s[old(i)]
  BY <1>1, <1>6
<1>6b. contents'[h][k] = x
  BY <1>1, <1>6
<1> HIDE DEF old
<1>7. Once'
  <2>1. ASSUME NEW g \in List, NEW f \in List, NEW i \in 1..Len(contents'[g]),
               NEW j \in 1..Len(contents'[f]), contents'[g][i] = contents'[f][j]
        PROVE  g = f /\ i = j
    <3>0. /\ \A a \in 1..Len(s) : s[a] # x
          /\ \A a, b \in 1..Len(s) : s[a] = s[b] => a = b
      BY <1>0, <1>5 DEF ListsAgree, Once
    <3>1. CASE g # h /\ f # h
      BY <2>1, <3>1, <1>3 DEF ListsAgree, Once
    <3>2. CASE g = h /\ f # h
      <4>1. i \in 1..Len(s) + 1 /\ j \in 1..Len(contents[f])
        BY <3>2, <1>2, <1>3
      <4>2. contents[f][j] # x /\ \A a \in 1..Len(s) : s[a] # contents[f][j]
        BY <3>2, <4>1, <1>0, <1>5 DEF ListsAgree, Once
      <4>3. i # k => old(i) \in 1..Len(s) /\ contents'[h][i] = s[old(i)]
        BY <4>1, <1>6a
      <4>4. contents'[h][i] = contents[f][j]
        BY <2>1, <3>2, <1>3
      <4>5. i = k => contents'[h][i] = x
        BY <1>6b
      <4> QED BY <4>2, <4>3, <4>4, <4>5
    <3>3. CASE g # h /\ f = h
      <4>1. j \in 1..Len(s) + 1 /\ i \in 1..Len(contents[g])
        BY <3>3, <1>2, <1>3
      <4>2. contents[g][i] # x /\ \A a \in 1..Len(s) : s[a] # contents[g][i]
        BY <3>3, <4>1, <1>0, <1>5 DEF ListsAgree, Once
      <4>3. j # k => old(j) \in 1..Len(s) /\ contents'[h][j] = s[old(j)]
        BY <4>1, <1>6a
      <4>4. contents'[h][j] = contents[g][i]
        BY <2>1, <3>3, <1>3
      <4>5. j = k => contents'[h][j] = x
        BY <1>6b
      <4> QED BY <4>2, <4>3, <4>4, <4>5
    <3>4. CASE g = h /\ f = h
      <4>1. i \in 1..Len(s) + 1 /\ j \in 1..Len(s) + 1
        BY <3>4, <1>2, <1>3
      <4>2. /\ i # k => old(i) \in 1..Len(s) /\ contents'[h][i] = s[old(i)]
            /\ j # k => old(j) \in 1..Len(s) /\ contents'[h][j] = s[old(j)]
        BY <4>1, <1>6a
      <4>3. contents'[h][i] = contents'[h][j]
        BY <2>1, <3>4
      <4>4. i # k /\ j # k => old(i) = old(j)
        BY <3>0, <4>2, <4>3
      <4>5. i # k /\ j # k => i = j
        BY <4>1, <4>4, <1>1 DEF old
      <4>6. /\ i = k => contents'[h][i] = x
            /\ j = k => contents'[h][j] = x
        BY <1>6b
      <4>7. i = k <=> j = k
        BY <3>0, <4>2, <4>3, <4>6
      <4> QED BY <3>4, <4>5, <4>7
    <3> QED BY <3>1, <3>2, <3>3, <3>4
  <2>2. \A g \in List \ made' : contents'[g] = <<>>
    BY <1>3 DEF ListsAgree, Once
  <2> QED BY <2>1, <2>2 DEF Once
<1>8. Linked'
  <2>1. ASSUME NEW g \in made', NEW j \in 0..Len(contents'[g])
        PROVE  next'[NodeAt(g, j)'] = NodeAt(g, j + 1)' /\ prev'[NodeAt(g, j + 1)'] = NodeAt(g, j)'
    <3>0. g \in made /\ g \in List
      BY Pointers
    <3>1. /\ next'[x] = n /\ (p # x => next'[p] = x)
          /\ \A m \in Node : m # x /\ m # p => next'[m] = next[m]
          /\ prev'[n] = x /\ (n # x => prev'[x] = p)
          /\ \A m \in Node : m # x /\ m # n => prev'[m] = prev[m]
      BY <1>1 DEF list_insert, ListsAgree, TypeOK, Node
    <3>2. \A f \in List, i \in Int : NodeAt(f, i) # x
      BY <1>5, NodeAssumption DEF NodeAt
    <3>3. CASE g # h
      <4>1. \A i \in Int : NodeAt(g, i)' = NodeAt(g, i)
        BY <3>3, <3>0, <1>3 DEF NodeAt
      <4>2. j \in 0..Len(contents[g])
        BY <3>3, <3>0, <1>3
      <4>3. NodeAt(g, j) # p
        BY <4>2, <3>3, <3>0, <1>0, <1>1, Places
      <4>4. NodeAt(g, j + 1) # n
        <5>1. k - 1 \in 0..Len(contents[h]) /\ (k - 1) + 1 = k
          BY <1>1
        <5> QED BY <4>2, <5>1, <3>3, <3>0, Behind
      <4>5. NodeAt(g, j) \in Node /\ NodeAt(g, j + 1) \in Node
        BY <4>2, <3>0, Nodes
      <4>6. next[NodeAt(g, j)] = NodeAt(g, j + 1) /\ prev[NodeAt(g, j + 1)] = NodeAt(g, j)
        BY <4>2, <3>0 DEF ListsAgree, Linked
      <4>7. next'[NodeAt(g, j)] = NodeAt(g, j + 1) /\ prev'[NodeAt(g, j + 1)] = NodeAt(g, j)
        BY <4>2, <4>3, <4>4, <4>5, <4>6, <3>0, <3>1, <3>2
      <4> QED BY <4>1, <4>2, <4>7
    <3>4. CASE g = h
      <4>0. j \in 0..Len(s) + 1
        BY <3>4, <1>2, <1>3
      <4>1. \A i \in 0..Len(s) + 2 : NodeAt(h, i)' = IF i < k THEN NodeAt(h, i)
               ELSE IF i = k THEN x ELSE NodeAt(h, i - 1)
        BY <1>0, <1>1, <1>2, <1>3, <1>6 DEF NodeAt
      <4>2. \A i \in 0..Len(s) : i # k - 1 => NodeAt(h, i) # p
        BY <1>0, <1>1, Places
      <4>3. \A i \in 1..Len(s) + 1 : i # k => NodeAt(h, i) # n
        <5>1. ASSUME NEW i \in 1..Len(s) + 1, i # k, NodeAt(h, i) = n
              PROVE  FALSE
          <6>1. i - 1 \in 0..Len(s) /\ k - 1 \in 0..Len(s)
            BY <5>1, <1>1
          <6>2. prev[NodeAt(h, i)] = NodeAt(h, i - 1) /\ prev[n] = p
            BY <5>1, <1>1, Pointers
          <6> QED BY <6>1, <6>2, <5>1, <1>0, <1>1, Places
        <5> QED BY <5>1
      <4>4. \A i \in 0..Len(s) + 1 : NodeAt(h, i) \in Node /\ NodeAt(h, i) # x
        BY <3>2, <1>0, <1>1, Nodes
      <4>5. /\ \A i \in 0..Len(s) : next[NodeAt(h, i)] = NodeAt(h, i + 1)
            /\ \A i \in 1..Len(s) + 1 : prev[NodeAt(h, i)] = NodeAt(h, i - 1)
        BY Pointers
      <4>6. /\ NodeAt(h, j)' = IF j < k THEN NodeAt(h, j) ELSE IF j = k THEN x ELSE NodeAt(h, j - 1)
            /\ NodeAt(h, j + 1)' = IF j + 1 < k THEN NodeAt(h, j + 1)
                                   ELSE IF j + 1 = k THEN x ELSE NodeAt(h, j)
        BY <4>0, <4>1, <1>1
      <4>7. CASE j + 1 < k
        BY <4>0, <4>2, <4>3, <4>4, <4>5, <4>6, <4>7, <3>1, <3>4, <1>1
      <4>8. CASE j + 1 = k
        BY <4>0, <4>4, <4>6, <4>8, <3>1, <3>4, <1>1
      <4>9. CASE j = k
        BY <4>0, <4>4, <4>6, <4>9, <3>1, <3>4, <1>1
      <4>10. CASE j > k
        BY <4>0, <4>2, <4>3, <4>4, <4>5, <4>6, <4>10, <3>1, <3>4, <1>1
      <4> QED BY <4>0, <4>7, <4>8, <4>9, <4>10, <1>1
    <3> QED BY <3>3, <3>4
  <2> QED BY <2>1 DEF Linked
<1> QED BY <1>4, <1>7, <1>8 DEF ListsAgree

\* list_del takes the item at a place out.
LEMMA Delete ==
  ASSUME ListsAgree, NEW h \in made, NEW k \in 1..Len(contents[h]), list_del(h, k)
  PROVE  ListsAgree'
<1> DEFINE s == contents[h]
           x == contents[h][k]
           p == NodeAt(h, k - 1)
           n == NodeAt(h, k + 1)
           was(i) == IF i < k THEN i ELSE i + 1
<1>0. h \in List
  BY Pointers
<1>1. /\ s \in Seq(Item) /\ Len(s) \in Nat /\ k \in Int
      /\ p \in Node /\ n \in Node /\ x = NodeAt(h, k) /\ x \in Item
  BY <1>0, Nodes
<1>2. prev[x] = p /\ next[x] = n
  <2>1. k \in 0..Len(s) /\ k \in 1..Len(s) + 1
    BY <1>1
  <2> QED BY <1>1, <2>1, Pointers
<1>3. LeaveOut(s, k) \in Seq(Item) /\ Len(LeaveOut(s, k)) = Len(s) - 1
  BY <1>1 DEF LeaveOut
<1>4. /\ contents'[h] = LeaveOut(s, k)
      /\ \A g \in List : g # h => contents'[g] = contents[g]
      /\ made' = made
  BY <1>0 DEF ListsAgree, TypeOK, list_del
<1>5. TypeOK'
  <2>1. contents' \in [List -> Seq(Item)]
    BY <1>0, <1>3 DEF ListsAgree, TypeOK, list_del
  <2>2. next' \in [Node -> Node \cup {Wild}] /\ prev' \in [Node -> Node \cup {Wild}]
    BY <1>1, <1>2 DEF ListsAgree, TypeOK, list_del
  <2> QED BY <2>1, <2>2 DEF ListsAgree, TypeOK, list_del
<1>6. \A i \in 1..Len(s) - 1 : /\ was(i) \in 1..Len(s)
                              /\ contents'[h][i] = s[was(i)]
  BY <1>1, <1>4 DEF LeaveOut
<1>7. \A i, j \in Int : was(i) = was(j) => i = j
  BY <1>1
<1> HIDE DEF was
<1>8. Once'
  <2>1. ASSUME NEW g \in List, NEW f \in List, NEW i \in 1..Len(contents'[g]),
               NEW j \in 1..Len(contents'[f]), contents'[g][i] = contents'[f][j]
        PROVE  g = f /\ i = j
    <3>1. CASE g # h /\ f # h
      BY <2>1, <3>1, <1>4 DEF ListsAgree, Once
    <3>2. CASE g = h /\ f # h
      <4>1. i \in 1..Len(s) - 1 /\ j \in 1..Len(contents[f])
        BY <3>2, <1>3, <1>4
      <4>2. was(i) \in 1..Len(s) /\ s[was(i)] = contents[f][j]
        BY <2>1, <3>2, <4>1, <1>4, <1>6
      <4> QED BY <3>2, <4>1, <4>2, <1>0 DEF ListsAgree, Once
    <3>3. CASE g # h /\ f = h
      <4>1. j \in 1..Len(s) - 1 /\ i \in 1..Len(contents[g])
        BY <3>3, <1>3, <1>4
      <4>2. was(j) \in 1..Len(s) /\ s[was(j)] = contents[g][i]
        BY <2>1, <3>3, <4>1, <1>4, <1>6
      <4> QED BY <3>3, <4>1, <4>2, <1>0 DEF ListsAgree, Once
    <3>4. CASE g = h /\ f = h
      <4>1. i \in 1..Len(s) - 1 /\ j \in 1..Len(s) - 1
        BY <3>4, <1>3, <1>4
      <4>2. was(i) \in 1..Len(s) /\ was(j) \in 1..Len(s) /\ s[was(i)] = s[was(j)]
        BY <2>1, <3>4, <4>1, <1>6
      <4>3. was(i) = was(j)
        BY <4>2, <1>0 DEF ListsAgree, Once
      <4> QED BY <3>4, <4>1, <4>3, <1>7
    <3> QED BY <3>1, <3>2, <3>3, <3>4
  <2>2. \A g \in List \ made' : contents'[g] = <<>>
    BY <1>4 DEF ListsAgree, Once
  <2> QED BY <2>1, <2>2 DEF Once
<1>9. Linked'
  <2>1. ASSUME NEW g \in made', NEW j \in 0..Len(contents'[g])
        PROVE  next'[NodeAt(g, j)'] = NodeAt(g, j + 1)' /\ prev'[NodeAt(g, j + 1)'] = NodeAt(g, j)'
    <3>0. g \in made /\ g \in List
      BY <1>4, Pointers
    <3>1. /\ next'[p] = n /\ \A m \in Node : m # p => next'[m] = next[m]
          /\ prev'[n] = p /\ \A m \in Node : m # n => prev'[m] = prev[m]
      BY <1>1, <1>2 DEF list_del, ListsAgree, TypeOK
    <3>2. k - 1 \in 0..Len(s) /\ k \in 0..Len(s)
      BY <1>1
    <3>3. CASE g # h
      <4>1. \A i \in Int : NodeAt(g, i)' = NodeAt(g, i)
        BY <3>3, <3>0, <1>4 DEF NodeAt
      <4>2. j \in 0..Len(contents[g])
        BY <3>3, <3>0, <1>4
      <4>3. NodeAt(g, j) # p
        BY <4>2, <3>2, <3>3, <3>0, <1>0, Places
      <4>4. NodeAt(g, j + 1) # n
        BY <4>2, <3>2, <3>3, <3>0, Behind
      <4>5. NodeAt(g, j) \in Node /\ NodeAt(g, j + 1) \in Node
        BY <4>2, <3>0, Nodes
      <4>6. next[NodeAt(g, j)] = NodeAt(g, j + 1) /\ prev[NodeAt(g, j + 1)] = NodeAt(g, j)
        BY <4>2, <3>0 DEF ListsAgree, Linked
      <4>7. next'[NodeAt(g, j)] = NodeAt(g, j + 1) /\ prev'[NodeAt(g, j + 1)] = NodeAt(g, j)
        BY <4>3, <4>4, <4>5, <4>6, <3>1
      <4> QED BY <4>1, <4>2, <4>7
    <3>4. CASE g = h
      <4>0. j \in 0..Len(s) - 1
        BY <3>4, <1>1, <1>3, <1>4
      <4>1. \A i \in 0..Len(s) : NodeAt(h, i)' = IF i < k THEN NodeAt(h, i) ELSE NodeAt(h, i + 1)
        BY <1>0, <1>1, <1>3, <1>4, <1>6 DEF NodeAt, was
      <4>2. \A i \in 0..Len(s) : i # k - 1 => NodeAt(h, i) # p
        BY <1>0, <3>2, Places
      <4>3. \A i \in 0..Len(s) : i # k => NodeAt(h, i + 1) # n
        BY <3>2, Behind
      <4>4. \A i \in 0..Len(s) : NodeAt(h, i) \in Node /\ NodeAt(h, i + 1) \in Node
        BY <1>0, <1>1, Nodes
      <4>5. \A i \in 0..Len(s) : /\ next[NodeAt(h, i)] = NodeAt(h, i + 1)
                                /\ prev[NodeAt(h, i + 1)] = NodeAt(h, i)
        BY DEF ListsAgree, Linked
      <4>6. \A i \in 0..Len(s) :
              /\ i # k - 1 => next'[NodeAt(h, i)] = NodeAt(h, i + 1)
              /\ i # k => prev'[NodeAt(h, i + 1)] = NodeAt(h, i)
        BY <4>2, <4>3, <4>4, <4>5, <3>1
      <4>a. j \in Int /\ j \in 0..Len(s) /\ j + 1 \in 0..Len(s) /\ (j + 1) + 1 = j + 2
        BY <4>0, <1>1
      <4>b. /\ NodeAt(h, j)' = IF j < k THEN NodeAt(h, j) ELSE NodeAt(h, j + 1)
            /\ NodeAt(h, j + 1)' = IF j + 1 < k THEN NodeAt(h, j + 1) ELSE NodeAt(h, j + 2)
        BY <4>1, <4>a
      <4>c. /\ j # k - 1 => next'[NodeAt(h, j)] = NodeAt(h, j + 1)
            /\ j # k => prev'[NodeAt(h, j + 1)] = NodeAt(h, j)
            /\ j + 1 # k - 1 => next'[NodeAt(h, j + 1)] = NodeAt(h, j + 2)
            /\ j + 1 # k => prev'[NodeAt(h, j + 2)] = NodeAt(h, j + 1)
        BY <4>6, <4>a
      <4>7. CASE j + 1 < k
        BY <4>a, <4>b, <4>c, <4>7, <3>4, <1>1
      <4>8. CASE j + 1 = k
        <5>1. NodeAt(h, j) = p /\ NodeAt(h, j + 2) = n
          BY <4>8, <4>a, <1>1
        <5> QED BY <4>a, <4>b, <4>8, <5>1, <3>1, <3>4, <1>1
      <4>9. CASE j + 1 > k
        BY <4>a, <4>b, <4>c, <4>9, <3>4, <1>1
      <4> QED BY <4>0, <4>7, <4>8, <4>9, <1>1
    <3> QED BY <3>3, <3>4
  <2> QED BY <2>1 DEF Linked
<1> QED BY <1>5, <1>8, <1>9 DEF ListsAgree

\* What concatenation holds where.
LEMMA Concatenation ==
  ASSUME NEW s \in Seq(Item), NEW t \in Seq(Item)
  PROVE  /\ s \o t \in Seq(Item) /\ Len(s \o t) = Len(s) + Len(t) /\ Len(s \o t) = Len(t) + Len(s)
         /\ \A i \in 1..Len(s) : (s \o t)[i] = s[i]
         /\ \A i \in 1..Len(t) : (s \o t)[Len(s) + i] = t[i]
<1>1. Len(s) \in Nat /\ Len(t) \in Nat /\ s \o t \in Seq(Item)
      /\ Len(s \o t) = Len(s) + Len(t) /\ Len(s) + Len(t) = Len(t) + Len(s)
  OBVIOUS
<1>2. ASSUME NEW i \in 1..Len(s)
      PROVE  (s \o t)[i] = s[i]
  <2>1. i \in 1..Len(s) + Len(t) /\ i <= Len(s)
    BY <1>1
  <2> QED BY <2>1
<1>3. ASSUME NEW i \in 1..Len(t)
      PROVE  (s \o t)[Len(s) + i] = t[i]
  <2>1. Len(s) + i \in 1..Len(s) + Len(t) /\ ~(Len(s) + i <= Len(s)) /\ Len(s) + i - Len(s) = i
    BY <1>1
  <2> QED BY <2>1
<1> QED BY <1>1, <1>2, <1>3

\* u is s with t behind place k.
Joined(u, s, k, t) == /\ u \in Seq(Item) /\ Len(u) = Len(s) + Len(t)
                      /\ \A i \in 1..k : u[i] = s[i]
                      /\ \A i \in 1..Len(t) : u[k + i] = t[i]
                      /\ \A i \in k + 1..Len(s) : u[Len(t) + i] = s[i]

\* Linking the items of a list in behind place k of another moves them all there,
\* in their order.
Splices(from, to, k, u) ==
  /\ from # to /\ ~list_empty(from)
  /\ k \in 0..Len(contents[to])
  /\ Joined(u, contents[to], k, contents[from])
  /\ SpliceBehind(from, NodeAt(to, k))
  /\ contents' = [contents EXCEPT ![from] = <<>>, ![to] = u]
  /\ UNCHANGED made

\* list_splice keeps pointers and sequences in agreement.
LEMMA Join ==
  ASSUME ListsAgree, NEW from \in made, NEW to \in made, NEW k, NEW u, Splices(from, to, k, u)
  PROVE  ListsAgree'
<1>0. /\ from \in List /\ to \in List /\ from # to
      /\ contents[from] \in Seq(Item) /\ contents[to] \in Seq(Item)
  BY Nodes, Pointers DEF Splices
<1>m. PICK m \in Nat : m = Len(contents[from])
  BY <1>0
<1>l. PICK l \in Nat : l = Len(contents[to])
  BY <1>0
<1> DEFINE first == NodeAt(from, 1)
           last == NodeAt(from, m)
           p == NodeAt(to, k)
           n == NodeAt(to, k + 1)
<1>a. /\ ~list_empty(from)
      /\ k \in 0..l /\ Joined(u, contents[to], k, contents[from])
      /\ contents' = [contents EXCEPT ![from] = <<>>, ![to] = u]
      /\ made' = made
  BY <1>l DEF Splices
<1>b. SpliceBehind(from, p)
  BY DEF Splices
<1>c. /\ m = Len(contents[from]) /\ contents[from] \in Seq(Item) /\ m \in Nat
      /\ l = Len(contents[to]) /\ contents[to] \in Seq(Item) /\ l \in Nat
  BY <1>0, <1>m, <1>l
<1>d. /\ \A i \in Int : NodeAt(from, i) \in Node /\ NodeAt(to, i) \in Node
      /\ NodeAt(from, 0) = from /\ NodeAt(from, m + 1) = from
      /\ \A i \in 1..m : NodeAt(from, i) \in Item
  BY <1>0, <1>c, Nodes
<1>e. /\ \A i \in 0..m : next[NodeAt(from, i)] = NodeAt(from, i + 1)
      /\ \A i \in 1..m + 1 : prev[NodeAt(from, i)] = NodeAt(from, i - 1)
      /\ \A i \in 0..l : next[NodeAt(to, i)] = NodeAt(to, i + 1)
  BY <1>c, Pointers
<1>f. ASSUME NEW g \in made, NEW j \in 0..Len(contents[g])
      PROVE  /\ \A i \in 0..m : /\ NodeAt(g, j) = NodeAt(from, i) => g = from /\ j = i
                                /\ NodeAt(g, j + 1) = NodeAt(from, i + 1) => g = from /\ j = i
             /\ \A i \in 0..l : /\ NodeAt(g, j) = NodeAt(to, i) => g = to /\ j = i
                                /\ NodeAt(g, j + 1) = NodeAt(to, i + 1) => g = to /\ j = i
  BY <1>0, <1>c, Places, Behind, Pointers
<1>1. m \in Nat /\ l \in Nat /\ k \in Nat /\ k <= l
  BY <1>a, <1>c
<1>v. u \in Seq(Item) /\ Len(u) = l + m
  BY <1>a, <1>c DEF Joined
<1>w. /\ \A i \in 1..k : u[i] = contents[to][i]
      /\ \A i \in 1..m : u[k + i] = contents[from][i]
      /\ \A i \in k + 1..l : u[m + i] = contents[to][i]
  BY <1>a, <1>c DEF Joined
<1>u. u \in Seq(Item) /\ Len(u) = m + l
  BY <1>1, <1>v
<1>2. m >= 1
  <2>1. m = 0 => next[from] = from
    BY <1>1, <1>d, <1>e
  <2> QED BY <1>1, <1>a, <2>1 DEF list_empty
<1>3. next[from] = first /\ prev[from] = last /\ next[p] = n
  <2>1. m + 1 \in 1..m + 1 /\ (m + 1) - 1 = m /\ 0 \in 0..m /\ 0 + 1 = 1 /\ k \in 0..l
    BY <1>1
  <2> QED BY <2>1, <1>d, <1>e
<1>4. /\ first \in Item /\ last \in Item /\ p \in Node /\ n \in Node /\ from \in Node
      /\ first \in Node /\ last \in Node
  <2>1. 1 \in 1..m /\ m \in 1..m /\ k \in Int /\ k + 1 \in Int
    BY <1>1, <1>2
  <2> QED BY <2>1, <1>0, <1>d DEF Node
<1>5. /\ from # p /\ last # p /\ from # last /\ from # first /\ from # n /\ first # n
  <2>1. 0 \in 0..m /\ m \in 0..m /\ k \in 0..l /\ 0 + 1 = 1
    BY <1>1
  <2>2. k \in 0..Len(contents[to])
    BY <2>1, <1>c
  <2>3. from # p /\ last # p /\ from # n /\ first # n
    BY <2>1, <2>2, <1>0, <1>d, <1>f
  <2> QED BY <2>3, <1>0, <1>4, NodeAssumption
<1>6. /\ next' = [next EXCEPT ![from] = from, ![last] = n, ![p] = first]
      /\ prev' = [prev EXCEPT ![from] = from, ![first] = p, ![n] = last]
  BY <1>3, <1>b DEF SpliceBehind
<1>7. /\ next'[from] = from /\ next'[last] = n /\ next'[p] = first
      /\ prev'[from] = from /\ prev'[first] = p /\ prev'[n] = last
      /\ \A x \in Node : x \notin {from, last, p} => next'[x] = next[x]
      /\ \A x \in Node : x \notin {from, first, n} => prev'[x] = prev[x]
  BY <1>4, <1>5, <1>6 DEF ListsAgree, TypeOK
<1>8. /\ contents'[to] = u
      /\ \A g \in List : g # from /\ g # to => contents'[g] = contents[g]
  BY <1>0, <1>a DEF ListsAgree, TypeOK
<1>8a. contents'[from] = <<>> /\ Len(contents'[from]) = 0
  BY <1>0, <1>a DEF ListsAgree, TypeOK
<1>9. TypeOK'
  <2>1. contents' \in [List -> Seq(Item)]
    <3>1. <<>> \in Seq(Item) /\ contents \in [List -> Seq(Item)]
      BY DEF ListsAgree, TypeOK
    <3> QED BY <1>0, <1>a, <1>u, <3>1
  <2>2. next' \in [Node -> Node \cup {Wild}] /\ prev' \in [Node -> Node \cup {Wild}]
    BY <1>4, <1>6 DEF ListsAgree, TypeOK
  <2> QED BY <2>1, <2>2, <1>a DEF ListsAgree, TypeOK
<1> DEFINE list(i) == IF k < i /\ i <= k + m THEN from ELSE to
           place(i) == IF i <= k THEN i ELSE IF i <= k + m THEN i - k ELSE i - m
<1>10. \A i \in 1..m + l : /\ list(i) \in {from, to}
                           /\ place(i) \in 1..Len(contents[list(i)])
                           /\ u[i] = contents[list(i)][place(i)]
  <2>1. ASSUME NEW i \in 1..m + l, i <= k
        PROVE  i \in 1..k /\ i \in 1..l
    BY <2>1, <1>1
  <2>2. ASSUME NEW i \in 1..m + l, k < i, i <= k + m
        PROVE  i - k \in 1..m /\ k + (i - k) = i
    BY <2>2, <1>1
  <2>3. ASSUME NEW i \in 1..m + l, k + m < i
        PROVE  i - m \in k + 1..l /\ i - m \in 1..l /\ m + (i - m) = i
    BY <2>3, <1>1
  <2>4. ASSUME NEW i \in 1..m + l
        PROVE  /\ list(i) \in {from, to}
               /\ place(i) \in 1..Len(contents[list(i)])
               /\ u[i] = contents[list(i)][place(i)]
    <3>1. CASE i <= k
      <4>1. list(i) = to /\ place(i) = i
        BY <3>1, <1>1
      <4> HIDE DEF list, place
      <4> QED BY <2>1, <3>1, <4>1, <1>w, <1>c
    <3>2. CASE k < i /\ i <= k + m
      <4>1. list(i) = from /\ place(i) = i - k
        BY <3>2, <1>1
      <4>2. u[k + (i - k)] = contents[from][i - k]
        BY <2>2, <3>2, <1>w
      <4> HIDE DEF list, place
      <4> QED BY <2>2, <3>2, <4>1, <4>2, <1>c
    <3>3. CASE k + m < i
      <4>1. list(i) = to /\ place(i) = i - m
        BY <3>3, <1>1
      <4>2. u[m + (i - m)] = contents[to][i - m]
        BY <2>3, <3>3, <1>w
      <4> HIDE DEF list, place
      <4> QED BY <2>3, <3>3, <4>1, <4>2, <1>c
    <3> QED BY <3>1, <3>2, <3>3, <1>1
  <2> QED BY <2>4
<1>11. \A i, j \in Int : list(i) = list(j) /\ place(i) = place(j) => i = j
  BY <1>0, <1>1
<1> HIDE DEF list, place
<1>12. Once'
  <2>1. ASSUME NEW g \in List, NEW f \in List, NEW i \in 1..Len(contents'[g]),
               NEW j \in 1..Len(contents'[f]), contents'[g][i] = contents'[f][j]
        PROVE  g = f /\ i = j
    <3>0. g # from /\ f # from
      BY <1>8a
    <3>1. CASE g # to /\ f # to
      BY <2>1, <3>0, <3>1, <1>8 DEF ListsAgree, Once
    <3>2. CASE g = to /\ f # to
      <4>1. i \in 1..m + l /\ j \in 1..Len(contents[f])
        BY <3>0, <3>2, <1>u, <1>8
      <4>2. /\ list(i) \in List /\ list(i) # f /\ place(i) \in 1..Len(contents[list(i)])
            /\ contents[list(i)][place(i)] = contents[f][j]
        BY <2>1, <3>0, <3>2, <4>1, <1>0, <1>8, <1>10
      <4> QED BY <4>1, <4>2 DEF ListsAgree, Once
    <3>3. CASE g # to /\ f = to
      <4>1. j \in 1..m + l /\ i \in 1..Len(contents[g])
        BY <3>0, <3>3, <1>u, <1>8
      <4>2. /\ list(j) \in List /\ list(j) # g /\ place(j) \in 1..Len(contents[list(j)])
            /\ contents[list(j)][place(j)] = contents[g][i]
        BY <2>1, <3>0, <3>3, <4>1, <1>0, <1>8, <1>10
      <4> QED BY <4>1, <4>2 DEF ListsAgree, Once
    <3>4. CASE g = to /\ f = to
      <4>1. i \in 1..m + l /\ j \in 1..m + l
        BY <3>4, <1>u, <1>8
      <4>2. /\ list(i) \in List /\ place(i) \in 1..Len(contents[list(i)])
            /\ list(j) \in List /\ place(j) \in 1..Len(contents[list(j)])
            /\ contents[list(i)][place(i)] = contents[list(j)][place(j)]
        BY <2>1, <3>4, <4>1, <1>0, <1>8, <1>10
      <4>3. list(i) = list(j) /\ place(i) = place(j)
        BY <4>2 DEF ListsAgree, Once
      <4> QED BY <3>4, <4>1, <4>3, <1>11
    <3> QED BY <3>1, <3>2, <3>3, <3>4
  <2>2. \A g \in List \ made' : contents'[g] = <<>>
    BY <1>8, <1>a DEF ListsAgree, Once
  <2> QED BY <2>1, <2>2 DEF Once
\* What the new pointers leave alone.
<1>13. ASSUME NEW g \in made, NEW j \in 0..Len(contents[g])
       PROVE  /\ (g = to /\ j = k) \/ (g = from /\ j \in {0, m})
                   \/ next'[NodeAt(g, j)] = NodeAt(g, j + 1)
              /\ (g = to /\ j = k) \/ (g = from /\ j \in {0, m})
                   \/ prev'[NodeAt(g, j + 1)] = NodeAt(g, j)
  <2>0. g \in List /\ 0 \in 0..m /\ m \in 0..m /\ 0 + 1 = 1 /\ k \in 0..l
    BY <1>1, Pointers
  <2>1. NodeAt(g, j) \in Node /\ NodeAt(g, j + 1) \in Node
    BY <2>0, Nodes
  <2>2. next[NodeAt(g, j)] = NodeAt(g, j + 1) /\ prev[NodeAt(g, j + 1)] = NodeAt(g, j)
    BY DEF ListsAgree, Linked
  <2>3. /\ NodeAt(g, j) = p => g = to /\ j = k
        /\ NodeAt(g, j) = last => g = from /\ j = m
        /\ NodeAt(g, j) = from => g = from /\ j = 0
        /\ NodeAt(g, j + 1) = n => g = to /\ j = k
        /\ NodeAt(g, j + 1) = first => g = from /\ j = 0
        /\ NodeAt(g, j + 1) = from => g = from /\ j = m
    <3>1. /\ NodeAt(g, j) = p => g = to /\ j = k
          /\ NodeAt(g, j + 1) = n => g = to /\ j = k
      BY <2>0, <1>f
    <3>2. /\ NodeAt(g, j) = last => g = from /\ j = m
          /\ NodeAt(g, j + 1) = NodeAt(from, m + 1) => g = from /\ j = m
      BY <2>0, <1>f, SMTT(30)
    <3>3. /\ NodeAt(g, j) = NodeAt(from, 0) => g = from /\ j = 0
          /\ NodeAt(g, j + 1) = NodeAt(from, 0 + 1) => g = from /\ j = 0
      <4>1. 0 \in 0..m
        BY <2>0
      <4> QED BY <4>1, <1>f
    <3> QED BY <2>0, <3>1, <3>2, <3>3, <1>d
  <2> QED BY <2>1, <2>2, <2>3, <1>7
<1>14. Linked'
  <2>1. ASSUME NEW g \in made', NEW j \in 0..Len(contents'[g])
        PROVE  next'[NodeAt(g, j)'] = NodeAt(g, j + 1)' /\ prev'[NodeAt(g, j + 1)'] = NodeAt(g, j)'
    <3>0. g \in made /\ g \in List
      BY <1>a, Pointers
    <3>1. CASE g = from
      BY <3>1, <1>7, <1>8a DEF NodeAt
    <3>2. CASE g # from /\ g # to
      <4>1. \A i \in Int : NodeAt(g, i)' = NodeAt(g, i)
        BY <3>2, <3>0, <1>8 DEF NodeAt
      <4>2. j \in 0..Len(contents[g]) /\ j \in Int /\ j + 1 \in Int
        BY <3>2, <3>0, <1>8
      <4> QED BY <4>1, <4>2, <3>0, <3>2, <1>13
    <3>3. CASE g = to
      <4>0. j \in Int /\ 0 <= j /\ j <= m + l
        BY <3>3, <1>1, <1>u, <1>8
      <4>1. /\ \A i \in 0..k : NodeAt(to, i)' = NodeAt(to, i)
            /\ \A i \in 1..m : NodeAt(to, k + i)' = NodeAt(from, i)
            /\ \A i \in k + 1..l + 1 : NodeAt(to, m + i)' = NodeAt(to, i)
        <5>1. \A i \in Int : NodeAt(to, i)' = IF i \in 1..m + l THEN u[i] ELSE to
          BY <1>8, <1>u DEF NodeAt
        <5>3. /\ \A i \in Int : NodeAt(to, i) = IF i \in 1..l THEN contents[to][i] ELSE to
              /\ \A i \in 1..m : NodeAt(from, i) = contents[from][i]
          BY <1>c DEF NodeAt
        <5>4. ASSUME NEW i \in 0..k
              PROVE  NodeAt(to, i)' = NodeAt(to, i)
          BY <5>1, <5>3, <1>1, <1>w
        <5>5. ASSUME NEW i \in 1..m
              PROVE  NodeAt(to, k + i)' = NodeAt(from, i)
          <6>1. k + i \in 1..m + l /\ k + i \in Int
            BY <1>1
          <6> QED BY <6>1, <5>1, <5>3, <1>w
        <5>6. ASSUME NEW i \in k + 1..l + 1
              PROVE  NodeAt(to, m + i)' = NodeAt(to, i)
          <6>1. CASE i <= l
            <7>1. m + i \in 1..m + l /\ m + i \in Int /\ i \in k + 1..l /\ i \in 1..l /\ i \in Int
              BY <6>1, <1>1
            <7> QED BY <7>1, <5>1, <5>3, <1>w
          <6>2. CASE i = l + 1
            <7>1. m + i \notin 1..m + l /\ m + i \in Int /\ i \notin 1..l /\ i \in Int
              BY <6>2, <1>1
            <7> QED BY <7>1, <5>1, <5>3
          <6> QED BY <6>1, <6>2, <1>1
        <5> QED BY <5>4, <5>5, <5>6
      <4>2. CASE j < k
        <5>1. j \in 0..k /\ j + 1 \in 0..k /\ j \in 0..l
          BY <4>0, <4>2, <1>1
        <5>2. next'[NodeAt(to, j)] = NodeAt(to, j + 1) /\ prev'[NodeAt(to, j + 1)] = NodeAt(to, j)
          BY <5>1, <4>2, <1>0, <1>1, <1>c, <1>13
        <5> QED BY <5>1, <5>2, <4>1, <3>3
      <4>3. CASE j = k
        <5>1. k \in 0..k /\ 1 \in 1..m
          BY <1>1, <1>2
        <5> QED BY <5>1, <4>1, <4>3, <3>3, <1>7
      <4>4. CASE k < j /\ j < k + m
        <5> DEFINE i == j - k
        <5>1. i \in 1..m /\ i + 1 \in 1..m /\ i \in 0..m /\ j = k + i /\ j + 1 = k + (i + 1)
          BY <4>0, <4>4, <1>1
        <5>2. i \notin {0, m}
          BY <4>0, <4>4, <1>1
        <5>3. NodeAt(to, j)' = NodeAt(from, i) /\ NodeAt(to, j + 1)' = NodeAt(from, i + 1)
          BY <5>1, <4>1
        <5>4. next'[NodeAt(from, i)] = NodeAt(from, i + 1) /\ prev'[NodeAt(from, i + 1)] = NodeAt(from, i)
          BY <5>1, <5>2, <1>0, <1>c, <1>13
        <5> QED BY <5>3, <5>4, <3>3
      <4>5. CASE j = k + m
        <5>1. m \in 1..m /\ k + 1 \in k + 1..l + 1 /\ j + 1 = m + (k + 1)
          BY <4>0, <4>5, <1>1, <1>2
        <5>2. NodeAt(to, j)' = last /\ NodeAt(to, j + 1)' = n
          <6>1. NodeAt(to, k + m)' = last /\ NodeAt(to, m + (k + 1))' = n
            BY <5>1, <4>1
          <6> QED BY <5>1, <6>1, <4>5
        <5> QED BY <5>2, <3>3, <1>7
      <4>6. CASE k + m < j
        <5> DEFINE i == j - m
        <5>1. /\ i \in k + 1..l + 1 /\ i + 1 \in k + 1..l + 1 /\ i \in 0..l
              /\ j = m + i /\ j + 1 = m + (i + 1) /\ i # k
          BY <4>0, <4>6, <1>1
        <5>2. NodeAt(to, j)' = NodeAt(to, i) /\ NodeAt(to, j + 1)' = NodeAt(to, i + 1)
          <6>1. NodeAt(to, m + i)' = NodeAt(to, i) /\ NodeAt(to, m + (i + 1))' = NodeAt(to, i + 1)
            BY <5>1, <4>1
          <6> QED BY <5>1, <6>1
        <5>3. next'[NodeAt(to, i)] = NodeAt(to, i + 1) /\ prev'[NodeAt(to, i + 1)] = NodeAt(to, i)
          BY <5>1, <1>0, <1>c, <1>13
        <5> QED BY <5>2, <5>3, <3>3
      <4> QED BY <4>0, <4>2, <4>3, <4>4, <4>5, <4>6, <1>1
    <3> QED BY <3>1, <3>2, <3>3
  <2> QED BY <2>1 DEF Linked
<1> QED BY <1>9, <1>12, <1>14 DEF ListsAgree

-----------------------------------------------------------------------------
\* Whatever the callers do with their lists, the pointers of each visit exactly
\* the items it holds, forward and back, and no item is in two lists.
THEOREM ListsCorrect == Spec => []ListsAgree
<1>1. Init => ListsAgree
  BY DEF Init, ListsAgree, TypeOK, Once, Linked, Node
<1>2. ListsAgree /\ [Next]_vars => ListsAgree'
  <2> SUFFICES ASSUME ListsAgree, [Next]_vars
               PROVE  ListsAgree'
    OBVIOUS
  <2>1. ASSUME NEW h \in List, list_init(h)
        PROVE  ListsAgree'
    <3>1. contents[h] = <<>> /\ contents' = contents /\ made' = made \cup {h}
      BY <2>1 DEF list_init, ListsAgree, Once
    <3>2. h \in Node /\ TypeOK' /\ Once'
      BY <2>1, <3>1 DEF list_init, ListsAgree, TypeOK, Once, Node
    <3>3. /\ next'[h] = h /\ \A x \in Node : x # h => next'[x] = next[x]
          /\ prev'[h] = h /\ \A x \in Node : x # h => prev'[x] = prev[x]
      BY <2>1, <3>2 DEF list_init, ListsAgree, TypeOK
    <3>4. ASSUME NEW g \in made', NEW j \in 0..Len(contents'[g])
          PROVE  next'[NodeAt(g, j)'] = NodeAt(g, j + 1)' /\ prev'[NodeAt(g, j + 1)'] = NodeAt(g, j)'
      <4>1. CASE g = h
        BY <4>1, <3>1, <3>3 DEF NodeAt
      <4>2. CASE g # h
        <5>1. g \in made /\ g \in List /\ j \in 0..Len(contents[g])
          BY <4>2, <3>1 DEF ListsAgree, TypeOK
        <5>2. NodeAt(g, j)' = NodeAt(g, j) /\ NodeAt(g, j + 1)' = NodeAt(g, j + 1)
          BY <3>1 DEF NodeAt
        <5>3. NodeAt(g, j) \in Node /\ NodeAt(g, j + 1) \in Node
          BY <5>1, Nodes
        <5>4. \A i \in Int : NodeAt(g, i) # h
          BY <2>1, <4>2, <5>1, Nodes, NodeAssumption DEF NodeAt
        <5>5. next[NodeAt(g, j)] = NodeAt(g, j + 1) /\ prev[NodeAt(g, j + 1)] = NodeAt(g, j)
          BY <5>1 DEF ListsAgree, Linked
        <5> QED BY <5>1, <5>2, <5>3, <5>4, <5>5, <3>3
      <4> QED BY <4>1, <4>2
    <3> QED BY <3>2, <3>4 DEF ListsAgree, Linked
  <2>2. ASSUME NEW h \in List, NEW x \in Item, NEW k \in 0..Len(contents[h]), list_add(x, h, k)
        PROVE  ListsAgree'
    <3>1. h \in made /\ Free(x) /\ contents[h] \in Seq(Item)
      BY <2>2, Nodes DEF list_add
    <3>2. k + 1 \in 1..Len(contents[h]) + 1 /\ (k + 1) - 1 = k
      BY <3>1
    <3>3. next[NodeAt(h, k)] = NodeAt(h, k + 1)
      BY <3>1, Pointers
    <3> QED BY <2>2, <3>1, <3>2, <3>3, Insert DEF list_add
  <2>3. ASSUME NEW h \in List, NEW x \in Item, NEW k \in 1..Len(contents[h]) + 1,
               list_add_tail(x, h, k)
        PROVE  ListsAgree'
    <3>1. h \in made /\ Free(x)
      BY <2>3 DEF list_add_tail
    <3>2. prev[NodeAt(h, k)] = NodeAt(h, k - 1)
      BY <3>1, Pointers
    <3> QED BY <2>3, <3>1, <3>2, Insert DEF list_add_tail
  <2>4. ASSUME NEW h \in List, NEW k \in 1..Len(contents[h]), list_del(h, k)
        PROVE  ListsAgree'
    <3>1. h \in made
      BY <2>4 DEF ListsAgree, Once
    <3> QED BY <2>4, <3>1, Delete
  <2>5. ASSUME NEW h \in List, NEW to \in List, list_splice(h, to)
        PROVE  ListsAgree'
    <3>1. CASE list_empty(h)
      BY <2>5, <3>1 DEF list_splice, vars, ListsAgree, TypeOK, Once, Linked, NodeAt
    <3>2. CASE ~list_empty(h)
      <4> DEFINE u == contents[h] \o contents[to]
      <4>1. contents[h] \in Seq(Item) /\ contents[to] \in Seq(Item)
        BY Nodes
      <4>2. 0 \in 0..Len(contents[to]) /\ NodeAt(to, 0) = to
        BY <4>1, Nodes
      <4>3. Joined(u, contents[to], 0, contents[h])
        <5>1. /\ \A i \in 1..0 : u[i] = contents[to][i]
              /\ \A i \in Int : 0 + i = i
          OBVIOUS
        <5>2. /\ u \in Seq(Item) /\ Len(u) = Len(contents[to]) + Len(contents[h])
              /\ \A i \in 1..Len(contents[h]) : u[0 + i] = contents[h][i]
              /\ \A i \in 0 + 1..Len(contents[to]) : u[Len(contents[h]) + i] = contents[to][i]
          <6>1. /\ u \in Seq(Item) /\ Len(u) = Len(contents[h]) + Len(contents[to])
                /\ \A i \in 1..Len(contents[h]) : u[i] = contents[h][i]
                /\ \A i \in 1..Len(contents[to]) : u[Len(contents[h]) + i] = contents[to][i]
            BY <4>1, Concatenation
          <6>2. Len(contents[h]) \in Nat /\ Len(contents[to]) \in Nat /\ 0 + 1 = 1
            BY <4>1
          <6> HIDE DEF u
          <6>3. ASSUME NEW i \in 1..Len(contents[h])
                PROVE  u[0 + i] = contents[h][i]
            <7>1. 0 + i = i
              OBVIOUS
            <7> QED BY <6>1, <7>1
          <6>4. 0 + 1..Len(contents[to]) = 1..Len(contents[to])
            OBVIOUS
          <6>5. Len(u) = Len(contents[to]) + Len(contents[h])
            BY <4>1, Concatenation DEF u
          <6> QED BY <6>1, <6>3, <6>4, <6>5
        <5> QED BY <5>1, <5>2 DEF Joined
      <4>4. /\ h \in made /\ to \in made /\ h # to
            /\ SpliceBehind(h, NodeAt(to, 0)) /\ UNCHANGED made
            /\ contents' = [contents EXCEPT ![h] = <<>>, ![to] = u]
        BY <2>5, <3>2, <4>2 DEF list_splice, ListsAgree, TypeOK
      <4> HIDE DEF u
      <4>5. Splices(h, to, 0, u)
        BY <3>2, <4>2, <4>3, <4>4 DEF Splices
      <4> QED BY <4>4, <4>5, Join
    <3> QED BY <3>1, <3>2
  <2>6. ASSUME NEW h \in List, NEW to \in List, list_splice_tail(h, to)
        PROVE  ListsAgree'
    <3>1. CASE list_empty(h)
      BY <2>6, <3>1 DEF list_splice_tail, vars, ListsAgree, TypeOK, Once, Linked, NodeAt
    <3>2. CASE ~list_empty(h)
      <4> DEFINE u == contents[to] \o contents[h]
                 l == Len(contents[to])
      <4>1. contents[h] \in Seq(Item) /\ contents[to] \in Seq(Item)
        BY Nodes
      <4>2. l \in 0..l /\ prev[to] = NodeAt(to, l)
        <5>1. to \in made /\ NodeAt(to, l + 1) = to
          BY <2>6, Nodes DEF list_splice_tail
        <5>2. l \in Nat /\ l + 1 \in 1..l + 1 /\ (l + 1) - 1 = l
          BY <4>1
        <5> QED BY <5>1, <5>2, Pointers
      <4>3. Joined(u, contents[to], l, contents[h])
        <5>1. \A i \in l + 1..l : u[Len(contents[h]) + i] = contents[to][i]
          BY <4>1
        <5> QED BY <5>1, <4>1, Concatenation DEF Joined
      <4>4. /\ h \in made /\ to \in made /\ h # to
            /\ SpliceBehind(h, NodeAt(to, l)) /\ UNCHANGED made
            /\ contents' = [contents EXCEPT ![h] = <<>>, ![to] = u]
        BY <2>6, <3>2, <4>2 DEF list_splice_tail, ListsAgree, TypeOK
      <4> HIDE DEF u
      <4>5. Splices(h, to, l, u)
        BY <3>2, <4>2, <4>3, <4>4 DEF Splices
      <4> QED BY <4>4, <4>5, Join
    <3> QED BY <3>1, <3>2
  <2>7. CASE UNCHANGED vars
    BY <2>7 DEF vars, ListsAgree, TypeOK, Once, Linked, NodeAt
  <2> QED BY <2>1, <2>2, <2>3, <2>4, <2>5, <2>6, <2>7 DEF Next
<1> QED BY <1>1, <1>2, PTL DEF Spec

-----------------------------------------------------------------------------
(* The buddy allocator.  First, aligned numbers and powers of two.         *)

\* Quotient and remainder are what they are said to be.
LEMMA Remainder ==
  ASSUME NEW a \in Nat \ {0}, NEW q \in Nat, NEW r \in 0..a - 1
  PROVE  a * q + r \in Nat /\ (a * q + r) % a = r /\ (a * q + r) \div a = q
<1> DEFINE x == a * q + r
<1>1. x \in Nat /\ x = a * q + r /\ a * q \in Nat
  BY MultiplesAligned
<1> HIDE DEF x
<1> DEFINE k == x \div a
           m == x % a
<1>2. k \in Nat /\ m \in 0..a - 1 /\ x = a * k + m
  BY <1>1, Division
<1>3. x % a = m /\ x \div a = k
  OBVIOUS
<1> HIDE DEF k, m
<1>4. a * k \in Nat
  BY <1>2, MultiplesAligned
<1>5. ASSUME k < q PROVE FALSE
  <2>1. a * k + a <= a * q
    BY <1>2, <1>5, MultiplesApart
  <2> QED BY <2>1, <1>1, <1>2, <1>4
<1>6. ASSUME q < k PROVE FALSE
  <2>1. a * q + a <= a * k
    BY <1>2, <1>6, MultiplesApart
  <2> QED BY <2>1, <1>1, <1>2, <1>4
<1>7. k = q
  BY <1>2, <1>5, <1>6
<1>8. m = r
  BY <1>1, <1>2, <1>4, <1>7
<1> QED BY <1>1, <1>3, <1>7, <1>8 DEF x

\* Aligned numbers are multiples.
LEMMA AlignedIs ==
  ASSUME NEW x \in Nat, NEW a \in Nat \ {0}, x % a = 0
  PROVE  \E q \in Nat : x = a * q
<1>1. x \div a \in Nat /\ x = a * (x \div a) + (x % a) /\ a * (x \div a) \in Nat
  BY Division
<1>2. x = a * (x \div a)
  BY <1>1
<1> QED BY <1>1, <1>2

\* Powers of two up to the largest order, and one beyond.
LEMMA Power ==
  ASSUME Buddy!Assumption
  PROVE  /\ MAX_ORDER \in Nat /\ 2^0 = 1
         /\ \A k \in 0..MAX_ORDER + 1 : 2^k \in Nat \ {0}
         /\ \A k \in 0..MAX_ORDER : 2^(k + 1) = 2^k + 2^k
<1>1. /\ MAX_ORDER \in Nat /\ 2^0 = 1
      /\ \A k \in 0..MAX_ORDER : 2^k \in Nat \ {0} /\ 2^(k + 1) = 2 * 2^k
  BY DEF Buddy!Assumption
<1>2. ASSUME NEW k \in 0..MAX_ORDER + 1 PROVE 2^k \in Nat \ {0}
  <2>1. CASE k \in 0..MAX_ORDER
    BY <2>1, <1>1
  <2>2. CASE k = MAX_ORDER + 1
    <3>1. 2^(MAX_ORDER + 1) = 2 * 2^MAX_ORDER /\ 2^MAX_ORDER \in Nat \ {0}
      BY <1>1
    <3> QED BY <3>1, <2>2
  <2> QED BY <1>1, <2>1, <2>2
<1>3. ASSUME NEW k \in 0..MAX_ORDER PROVE 2^(k + 1) = 2^k + 2^k
  BY <1>1
<1> QED BY <1>1, <1>2, <1>3

\* A larger power of two is a multiple of a smaller one.
LEMMA PowerDivides ==
  ASSUME Buddy!Assumption, NEW k \in 0..MAX_ORDER + 1, NEW j \in 0..k
  PROVE  /\ \E c \in Nat \ {0} : 2^k = 2^j * c
         /\ 2^j <= 2^k
         /\ j < k => 2^j + 2^j <= 2^k
<1> DEFINE Good(n) == \E c \in Nat \ {0} : 2^n = 2^j * c
           T == {n \in 0..k : j <= n /\ ~Good(n)}
<1>0. /\ MAX_ORDER \in Nat
      /\ \A n \in 0..MAX_ORDER + 1 : 2^n \in Nat \ {0}
      /\ \A n \in 0..MAX_ORDER : 2^(n + 1) = 2^n + 2^n
      /\ 2^j \in Nat \ {0}
  BY Power
<1>1. ASSUME NEW n \in 0..k, j <= n, ~Good(n) PROVE FALSE
  <2>1. T \in SUBSET Nat /\ T # {}
    BY <1>1
  <2>2. PICK m \in T : \A y \in T : m <= y
    BY <2>1, Least
  <2>3. m \in 0..k /\ j <= m /\ ~Good(m)
    OBVIOUS
  <2>4. m # j
    <3>1. 2^j = 2^j * 1
      BY <1>0
    <3> QED BY <3>1, <2>3
  <2>5. m - 1 \in 0..k /\ j <= m - 1 /\ m - 1 \in 0..MAX_ORDER /\ (m - 1) + 1 = m
    BY <2>3, <2>4, <1>0
  <2>6. m - 1 \notin T
    <3>1. ~(m <= m - 1)
      BY <2>3
    <3> QED BY <3>1, <2>2
  <2>7. PICK c \in Nat \ {0} : 2^(m - 1) = 2^j * c
    BY <2>5, <2>6
  <2>8. 2^m = 2^(m - 1) + 2^(m - 1)
    BY <2>5, <1>0
  <2>9. 2^m = 2^j * (c + c) /\ c + c \in Nat \ {0}
    BY <2>7, <2>8, <1>0
  <2> QED BY <2>9, <2>3
<1>2. ASSUME NEW n \in 0..k, j <= n PROVE 2^j <= 2^n
  <2>1. PICK c \in Nat \ {0} : 2^n = 2^j * c
    BY <1>1, <1>2
  <2>2. CASE c = 1
    BY <2>1, <2>2, <1>0
  <2>3. CASE 1 < c
    <3>1. 2^j * 1 + 2^j <= 2^j * c
      BY <2>3, <1>0, MultiplesApart
    <3> QED BY <3>1, <2>1, <1>0
  <2> QED BY <2>2, <2>3
<1>3. ASSUME j < k PROVE 2^j + 2^j <= 2^k
  <2>1. k - 1 \in 0..k /\ j <= k - 1 /\ k - 1 \in 0..MAX_ORDER /\ (k - 1) + 1 = k
    BY <1>3, <1>0
  <2>2. 2^j <= 2^(k - 1) /\ 2^k = 2^(k - 1) + 2^(k - 1) /\ 2^(k - 1) \in Nat
    BY <2>1, <1>2, <1>0
  <2> QED BY <2>2, <1>0
<1>4. k \in 0..k /\ j <= k
  BY <1>0
<1>5. Good(k)
  BY <1>1, <1>4
<1>6. 2^j <= 2^k
  BY <1>2, <1>4
<1> QED BY <1>3, <1>5, <1>6

\* Aligned to a larger power is aligned to a smaller one.
LEMMA AlignedDown ==
  ASSUME Buddy!Assumption, NEW k \in 0..MAX_ORDER + 1, NEW j \in 0..k,
         NEW x \in Nat, x % 2^k = 0
  PROVE  x % 2^j = 0
<1>1. 2^k \in Nat \ {0} /\ 2^j \in Nat \ {0}
  <2>1. j \in 0..MAX_ORDER + 1
    BY Power
  <2> QED BY <2>1, Power
<1>2. PICK q \in Nat : x = 2^k * q
  BY <1>1, AlignedIs
<1>3. PICK c \in Nat \ {0} : 2^k = 2^j * c
  BY PowerDivides
<1>4. x = 2^j * (c * q) /\ c * q \in Nat
  BY <1>1, <1>2, <1>3
<1> QED BY <1>1, <1>4, MultiplesAligned

\* Aligned blocks are nested or apart.
LEMMA Nested ==
  ASSUME Buddy!Assumption, NEW k \in 0..MAX_ORDER + 1, NEW j \in 0..k,
         NEW x \in Nat, x % 2^j = 0, NEW y \in Nat, y % 2^k = 0,
         NEW t \in Int, x <= t, t < x + 2^j, y <= t, t < y + 2^k
  PROVE  y <= x /\ x + 2^j <= y + 2^k
<1>1. 2^k \in Nat \ {0} /\ 2^j \in Nat \ {0}
  <2>1. j \in 0..MAX_ORDER + 1
    BY Power
  <2> QED BY <2>1, Power
<1> DEFINE m == 2^j
           n == 2^k
<1>2. PICK a \in Nat : x = m * a
  BY <1>1, AlignedIs
<1>3. PICK b \in Nat : y = n * b
  BY <1>1, AlignedIs
<1>4. PICK c \in Nat \ {0} : n = m * c
  BY PowerDivides
<1>5. m \in Nat \ {0} /\ n \in Nat \ {0} /\ x <= t /\ t < x + m /\ y <= t /\ t < y + n
  BY <1>1
<1> HIDE DEF m, n
<1> DEFINE e == c * b
<1>6. e \in Nat /\ y = m * e /\ y + n = m * (e + c) /\ e + c \in Nat
  BY <1>3, <1>4, <1>5
<1> HIDE DEF e
<1>7. ASSUME a < e PROVE FALSE
  <2>1. m * a + m <= m * e
    BY <1>5, <1>6, <1>7, MultiplesApart
  <2> QED BY <2>1, <1>2, <1>5, <1>6
<1>8. ASSUME e + c <= a PROVE FALSE
  <2>1. m * (e + c) <= m * a
    <3>1. CASE e + c = a
      BY <3>1, <1>5, <1>6, MultiplesAligned
    <3>2. CASE e + c < a
      <4>1. m * (e + c) + m <= m * a
        BY <1>5, <1>6, <3>2, MultiplesApart
      <4>2. m * (e + c) \in Nat /\ m * a \in Nat
        BY <1>5, <1>6, MultiplesAligned
      <4> QED BY <4>1, <4>2, <1>5
    <3> QED BY <3>1, <3>2, <1>6, <1>8
  <2> QED BY <2>1, <1>2, <1>5, <1>6
<1>9. x + m <= y + n
  <2>1. a < e + c
    BY <1>6, <1>8
  <2>2. m * a + m <= m * (e + c)
    BY <2>1, <1>5, <1>6, MultiplesApart
  <2> QED BY <2>2, <1>2, <1>6
<1>10. y <= x
  <2>1. CASE e = a
    BY <2>1, <1>2, <1>6
  <2>2. CASE e < a
    <3>1. m * e + m <= m * a
      BY <2>2, <1>5, <1>6, MultiplesApart
    <3> QED BY <3>1, <1>2, <1>5, <1>6
  <2> QED BY <2>1, <2>2, <1>6, <1>7
<1> QED BY <1>9, <1>10 DEF m, n

\* The buddy of an aligned block, and the block they make together.
LEMMA FlipIs ==
  ASSUME Buddy!Assumption, NEW k \in 0..MAX_ORDER, NEW x \in Nat, x % 2^k = 0
  PROVE  /\ Buddy!Flip(x, k) \in Nat /\ Buddy!Flip(x, k) % 2^k = 0
         /\ Buddy!Flip(Buddy!Flip(x, k), k) = x
         /\ Buddy!Flip(x, k) # x
         /\ \/ /\ x % 2^(k + 1) = 0 /\ (x \div 2^k) % 2 = 0
               /\ Buddy!Flip(x, k) = x + 2^k
            \/ /\ Buddy!Flip(x, k) % 2^(k + 1) = 0 /\ (x \div 2^k) % 2 = 1
               /\ x = Buddy!Flip(x, k) + 2^k
<1> DEFINE m == 2^k
           n == 2^(k + 1)
           f == Buddy!Flip(x, k)
<1>1. m \in Nat \ {0} /\ n \in Nat \ {0} /\ n = m + m /\ x % m = 0
  <2>1. k \in 0..MAX_ORDER + 1 /\ k + 1 \in 0..MAX_ORDER + 1
    BY Power
  <2> QED BY <2>1, Power
<1>2. \A y \in Nat : Buddy!Flip(y, k) = IF (y \div m) % 2 = 0 THEN y + m ELSE y - m
  BY DEF Buddy!Flip
<1>3. f = Buddy!Flip(x, k) /\ f = IF (x \div m) % 2 = 0 THEN x + m ELSE x - m
  BY <1>2
<1> HIDE DEF m, n, f
<1>4. PICK q \in Nat : x = m * q
  BY <1>1, AlignedIs
<1>5. x \div m = q
  BY <1>1, <1>4, MultiplesAligned
<1> DEFINE r == q \div 2
           s == q % 2
<1>6. r \in Nat /\ s \in 0..1 /\ q = 2 * r + s /\ q % 2 = s
  BY Division
<1> HIDE DEF r, s
<1>7. n * r = m * (2 * r) /\ m * (2 * r) \in Nat
  BY <1>1, <1>6
<1>8. (n * r) % n = 0
  BY <1>1, <1>6, MultiplesAligned
<1>9. CASE s = 0
  <2>1. x = n * r
    BY <1>4, <1>6, <1>7, <1>9
  <2>2. f = x + m
    BY <1>3, <1>5, <1>6, <1>9
  <2>3. f = m * (q + 1) /\ q + 1 \in Nat
    BY <2>2, <1>1, <1>4
  <2>4. f \in Nat /\ f % m = 0 /\ f \div m = q + 1
    BY <2>3, <1>1, MultiplesAligned
  <2>5. (q + 1) % 2 = 1
    <3>1. q + 1 = 2 * r + 1
      BY <1>6, <1>9
    <3>2. (2 * r + 1) % 2 = 1
      BY <1>6, Remainder
    <3> QED BY <3>1, <3>2
  <2>6. Buddy!Flip(f, k) = f - m
    BY <2>4, <2>5, <1>2
  <2>7. x % n = 0 /\ (x \div m) % 2 = 0
    BY <2>1, <1>5, <1>6, <1>8, <1>9
  <2>8. Buddy!Flip(f, k) = x /\ f # x
    BY <2>2, <2>6, <1>1
  <2> QED BY <2>2, <2>4, <2>7, <2>8 DEF f, m, n
<1>10. CASE s = 1
  <2>1. f = x - m
    BY <1>3, <1>5, <1>6, <1>10
  <2>2. q - 1 = 2 * r /\ q - 1 \in Nat
    BY <1>6, <1>10
  <2>3. f = m * (2 * r)
    BY <2>1, <2>2, <1>1, <1>4
  <2>4. f \in Nat /\ f % m = 0 /\ f \div m = 2 * r /\ f % n = 0
    BY <2>3, <1>1, <1>6, <1>7, <1>8, MultiplesAligned
  <2>5. (2 * r) % 2 = 0
    BY <1>6, MultiplesAligned
  <2>6. Buddy!Flip(f, k) = f + m
    BY <2>4, <2>5, <1>2
  <2>7. (x \div m) % 2 = 1
    BY <1>5, <1>6, <1>10
  <2>8. Buddy!Flip(f, k) = x /\ f # x /\ x = f + m
    BY <2>1, <2>4, <2>6, <1>1
  <2> QED BY <2>4, <2>7, <2>8 DEF f, m, n
<1> QED BY <1>6, <1>9, <1>10

\* A block with a page in a larger one has its buddy in it, too.
LEMMA FlipInside ==
  ASSUME Buddy!Assumption, NEW k \in 0..MAX_ORDER + 1, NEW j \in 0..k - 1,
         NEW x \in Nat, x % 2^j = 0, NEW y \in Nat, y % 2^k = 0,
         y <= x, x < y + 2^k
  PROVE  y <= Buddy!Flip(x, j) /\ Buddy!Flip(x, j) + 2^j <= y + 2^k
<1> DEFINE f == Buddy!Flip(x, j)
<1>1. j \in 0..MAX_ORDER /\ j + 1 \in 0..k
  BY Power
<1>2. /\ f \in Nat
      /\ \/ x % 2^(j + 1) = 0 /\ f = x + 2^j
         \/ f % 2^(j + 1) = 0 /\ x = f + 2^j
  BY <1>1, FlipIs
<1>3. 2^(j + 1) = 2^j + 2^j /\ 2^j \in Nat \ {0} /\ 2^k \in Nat
  <2>1. j \in 0..MAX_ORDER + 1
    BY <1>1, Power
  <2> QED BY <1>1, <2>1, Power
<1> HIDE DEF f
<1>4. CASE x % 2^(j + 1) = 0 /\ f = x + 2^j
  <2>1. y <= x /\ x + 2^(j + 1) <= y + 2^k
    <3>1. x \in Int /\ x <= x /\ x < x + 2^(j + 1)
      BY <1>3
    <3>2. k \in 0..MAX_ORDER + 1 /\ j + 1 \in 0..k /\ x % 2^(j + 1) = 0
      BY <1>1, <1>4
    <3> QED BY <3>1, <3>2, Nested
  <2> QED BY <2>1, <1>2, <1>3, <1>4 DEF f
<1>5. CASE f % 2^(j + 1) = 0 /\ x = f + 2^j
  <2>1. y <= f /\ f + 2^(j + 1) <= y + 2^k
    <3>1. x \in Int /\ f \in Nat /\ f <= x /\ x < f + 2^(j + 1)
      BY <1>2, <1>3, <1>5
    <3>2. k \in 0..MAX_ORDER + 1 /\ j + 1 \in 0..k /\ f % 2^(j + 1) = 0
      BY <1>1, <1>5
    <3> QED BY <3>1, <3>2, Nested
  <2> QED BY <2>1, <1>2, <1>3, <1>5 DEF f
<1> QED BY <1>2, <1>4, <1>5

\* The library's operators are the same in the instance.
LEMMA BuddyQueue ==
  /\ \A s : Buddy!ToSet(s) = ToSet(s)
  /\ \A s : Buddy!IsInjective(s) <=> IsInjective(s)
  /\ \A s, i : Buddy!RemoveAt(s, i) = RemoveAt(s, i)
BY DEF Buddy!ToSet, ToSet, Buddy!IsInjective, IsInjective, Buddy!RemoveAt, RemoveAt

\* The pages of a block.
LEMMA BlockPages ==
  ASSUME Buddy!Assumption, NEW p \in Nat, NEW k \in 0..MAX_ORDER + 1
  PROVE  /\ \A t : t \in Buddy!Pages(<<p, k>>) <=>
                     t \in Nat /\ p <= t /\ t < p + 2^k
         /\ p \in Buddy!Pages(<<p, k>>)
         /\ Buddy!Aligned(<<p, k>>) <=> p % 2^k = 0
<1>1. 2^k \in Nat \ {0}
  BY Power
<1>2. Buddy!Pages(<<p, k>>) = p .. p + 2^k - 1
  BY DEF Buddy!Pages
<1>3. Buddy!Aligned(<<p, k>>) <=> p % 2^k = 0
  BY DEF Buddy!Aligned
<1> DEFINE m == 2^k
<1>4. m \in Nat \ {0} /\ Buddy!Pages(<<p, k>>) = p .. p + m - 1
  BY <1>1, <1>2
<1> HIDE DEF m
<1>5. \A t : t \in Buddy!Pages(<<p, k>>) <=> t \in Nat /\ p <= t /\ t < p + m
  BY <1>4
<1>6. p \in Buddy!Pages(<<p, k>>)
  BY <1>4, <1>5
<1> QED BY <1>3, <1>5, <1>6 DEF m

\* A page is in one zone, and the next page in no other.
LEMMA ZonesApart ==
  ASSUME Buddy!Assumption, NEW y \in DOMAIN Zones, NEW z \in DOMAIN Zones,
         NEW p \in Buddy!PagesOf(y)
  PROVE  /\ p \in Nat /\ p \in Buddy!Page
         /\ p \in Buddy!PagesOf(z) \/ p + 1 \in Buddy!PagesOf(z) => y = z
<1>1. /\ Zones \in Seq(Buddy!PageRange)
      /\ \A u, v \in DOMAIN Zones : u # v => \/ Zones[u].end < Zones[v].begin
                                             \/ Zones[v].end < Zones[u].begin
  BY DEF Buddy!Assumption, Buddy!Apart
<1>2. DOMAIN Zones = 1..Len(Zones)
  BY <1>1
<1>3. /\ Zones[y].begin \in Nat /\ Zones[y].end \in Nat
      /\ Zones[z].begin \in Nat /\ Zones[z].end \in Nat
  <2>1. Zones[y] \in Buddy!PageRange /\ Zones[z] \in Buddy!PageRange
    BY <1>1, <1>2, ElementOfSeq
  <2> QED BY <2>1 DEF Buddy!PageRange
<1>4. /\ \A q : q \in Buddy!PagesOf(y) <=> q \in Zones[y].begin .. Zones[y].end - 1
      /\ \A q : q \in Buddy!PagesOf(z) <=> q \in Zones[z].begin .. Zones[z].end - 1
  BY DEF Buddy!PagesOf
<1>5. p \in Nat /\ Zones[y].begin <= p /\ p < Zones[y].end
  BY <1>3, <1>4
<1>6. ASSUME p \in Buddy!PagesOf(z) \/ p + 1 \in Buddy!PagesOf(z), y # z
      PROVE  FALSE
  <2>1. Zones[z].begin <= p + 1 /\ p < Zones[z].end
    BY <1>3, <1>4, <1>5, <1>6
  <2>2. \/ Zones[y].end < Zones[z].begin
        \/ Zones[z].end < Zones[y].begin
    BY <1>1, <1>6
  <2> QED BY <1>3, <1>5, <2>1, <2>2
<1>7. p \in Buddy!Page
  BY DEF Buddy!Page
<1> QED BY <1>5, <1>6, <1>7

\* buddy_find_zone finds the zone of a page.
LEMMA ZoneOfIs ==
  ASSUME Buddy!Assumption, NEW z \in DOMAIN Zones, NEW p \in Buddy!PagesOf(z)
  PROVE  Buddy!ZoneOf(p) = z
<1>1. \A y \in DOMAIN Zones : p \in Buddy!PagesOf(y) <=> y = z
  BY ZonesApart
<1> QED BY <1>1 DEF Buddy!ZoneOf

\* What the invariant says of lists and blocks, piece by piece.
LEMMA BuddyBlocks ==
  ASSUME Buddy!Assumption, Buddy!TypeOK
  PROVE  /\ Buddy!Page \subseteq Nat
         /\ Buddy!Order = 0..MAX_ORDER
         /\ \A z, p, k : <<p, k>> \in Buddy!FreeBlocksOf(z) <=>
                           k \in Buddy!Order /\ p \in ToSet(order[z][k])
         /\ \A b : b \in Buddy!FreeBlocks <=>
                     \E z \in DOMAIN Zones : b \in Buddy!FreeBlocksOf(z)
         /\ \A z \in DOMAIN Zones : \A b \in Buddy!FreeBlocksOf(z) :
              /\ b[1] \in Buddy!Page /\ b[2] \in 0..MAX_ORDER /\ b = <<b[1], b[2]>>
              /\ b[1] \in ToSet(order[z][b[2]])
         /\ \A b \in Buddy!FreeBlocks \cup held :
              b[1] \in Nat /\ b[1] \in Buddy!Page /\ b[2] \in 0..MAX_ORDER
                /\ b = <<b[1], b[2]>>
<1>1. Buddy!Page \subseteq Nat
  BY ZonesApart DEF Buddy!Page
<1>2. \A z, p, k : <<p, k>> \in Buddy!FreeBlocksOf(z) <=>
                     k \in Buddy!Order /\ p \in ToSet(order[z][k])
  BY BuddyQueue DEF Buddy!FreeBlocksOf
<1>3. \A b : b \in Buddy!FreeBlocks <=>
               \E z \in DOMAIN Zones : b \in Buddy!FreeBlocksOf(z)
  BY DEF Buddy!FreeBlocks
<1>4. ASSUME NEW z \in DOMAIN Zones, NEW b \in Buddy!FreeBlocksOf(z)
      PROVE  /\ b[1] \in Buddy!Page /\ b[2] \in Buddy!Order /\ b = <<b[1], b[2]>>
             /\ b[1] \in ToSet(order[z][b[2]])
  <2>1. PICK k \in Buddy!Order : \E p \in ToSet(order[z][k]) : b = <<p, k>>
    BY BuddyQueue DEF Buddy!FreeBlocksOf
  <2>2. PICK p \in ToSet(order[z][k]) : b = <<p, k>>
    BY <2>1
  <2>3. order[z][k] \in Seq(Buddy!Page)
    BY DEF Buddy!TypeOK
  <2>4. p \in Buddy!Page
    BY <2>2, <2>3, QueueElements
  <2> QED BY <2>2, <2>4
<1>5. \A b \in held : b[1] \in Buddy!Page /\ b[2] \in Buddy!Order /\ b = <<b[1], b[2]>>
  BY DEF Buddy!TypeOK
<1>6. Buddy!Order = 0..MAX_ORDER
  BY DEF Buddy!Order
<1> QED BY <1>1, <1>2, <1>3, <1>4, <1>5, <1>6

\* Two blocks that share a page are the same.
LEMMA OneBlock ==
  ASSUME Buddy!IInv, NEW a \in Buddy!FreeBlocks \cup held,
         NEW b \in Buddy!FreeBlocks \cup held, NEW t \in Buddy!Pages(a),
         t \in Buddy!Pages(b)
  PROVE  a = b
BY DEF Buddy!IInv, Buddy!Partition

\* Where a block lies; and blocks that share a page with an aligned one.
LEMMA BlockPlace ==
  ASSUME Buddy!Assumption, Buddy!IInv, NEW b \in Buddy!FreeBlocks \cup held
  PROVE  /\ b[1] \in Nat /\ b[2] \in 0..MAX_ORDER /\ b = <<b[1], b[2]>>
         /\ b[1] % 2^b[2] = 0
         /\ \A t : t \in Buddy!Pages(b) <=> t \in Nat /\ b[1] <= t /\ t < b[1] + 2^b[2]
         /\ b[1] \in Buddy!Pages(b)
         /\ 2^b[2] \in Nat \ {0}
<1>1. b[1] \in Nat /\ b[2] \in 0..MAX_ORDER /\ b = <<b[1], b[2]>>
  BY BuddyBlocks DEF Buddy!IInv
<1>2. b[2] \in 0..MAX_ORDER + 1
  BY <1>1, Power
<1>3. /\ \A t : t \in Buddy!Pages(<<b[1], b[2]>>) <=>
                     t \in Nat /\ b[1] <= t /\ t < b[1] + 2^b[2]
      /\ b[1] \in Buddy!Pages(<<b[1], b[2]>>)
  BY <1>1, <1>2, BlockPages
<1>4. b[1] % 2^b[2] = 0
  BY DEF Buddy!IInv, Buddy!Placed, Buddy!Aligned
<1>5. 2^b[2] \in Nat \ {0}
  BY <1>2, Power
<1> QED BY <1>1, <1>3, <1>4, <1>5

\* What __buddy_free_zone finds at the buddy of a block that grew out of one in
\* use: if the descriptor says so, there is a free block.
LEMMA FlagsTrue ==
  ASSUME Buddy!Assumption, Buddy!IInv, NEW b \in Buddy!FreeBlocks \cup held,
         NEW j \in b[2]..MAX_ORDER, NEW x \in Nat, x % 2^j = 0,
         x <= b[1], b[1] < x + 2^j,
         NEW z \in DOMAIN Zones, Buddy!Flip(x, j) \in Buddy!PagesOf(z),
         isfree[Buddy!Flip(x, j)], border[Buddy!Flip(x, j)] = j
  PROVE  <<Buddy!Flip(x, j), j>> \in Buddy!FreeBlocksOf(z)
<1> DEFINE f == Buddy!Flip(x, j)
<1>1. b[1] \in Nat /\ b[2] \in 0..MAX_ORDER /\ b[1] \in Buddy!Pages(b)
  BY BlockPlace
<1>2. j \in 0..MAX_ORDER /\ j \in 0..MAX_ORDER + 1 /\ b[2] <= j
  BY <1>1, Power
<1>3. f \in Nat /\ f % 2^j = 0 /\ Buddy!Flip(f, j) = x
  BY <1>2, FlipIs
<1>4. f \in Buddy!Page /\ isfree[f] /\ border[f] = j /\ f \in Buddy!PagesOf(z)
  BY ZonesApart
<1> HIDE DEF f
<1>5. CASE <<f, j>> \in Buddy!FreeBlocks
  <2>1. PICK y \in DOMAIN Zones : <<f, j>> \in Buddy!FreeBlocksOf(y)
    BY <1>5, BuddyBlocks DEF Buddy!IInv
  <2>2. f \in Buddy!PagesOf(y)
    <3>1. f \in Buddy!Pages(<<f, j>>)
      BY <1>2, <1>3, BlockPages
    <3> QED BY <2>1, <3>1 DEF Buddy!IInv, Buddy!Placed
  <2>3. y = z
    BY <1>4, <2>2, ZonesApart
  <2> QED BY <2>1, <2>3 DEF f
<1>6. CASE \E c \in Buddy!FreeBlocks \cup held : f \in Buddy!Pages(c) /\ j < c[2]
  <2>1. PICK c \in Buddy!FreeBlocks \cup held : f \in Buddy!Pages(c) /\ j < c[2]
    BY <1>6
  <2>2. /\ c[1] \in Nat /\ c[2] \in 0..MAX_ORDER /\ c[1] % 2^c[2] = 0
        /\ c[1] <= f /\ f < c[1] + 2^c[2]
        /\ \A t : t \in Buddy!Pages(c) <=>
                    t \in Nat /\ c[1] <= t /\ t < c[1] + 2^c[2]
        /\ 2^c[2] \in Nat
    BY <2>1, BlockPlace
  <2>3. c[2] \in 0..MAX_ORDER + 1 /\ j \in 0..c[2] - 1
    BY <1>2, <2>1, <2>2, Power
  <2>4. c[1] <= x /\ x + 2^j <= c[1] + 2^c[2]
    BY <1>3, <2>2, <2>3, FlipInside
  <2>5. 2^j \in Nat
    BY <1>2, Power
  <2>6. c[1] <= b[1] /\ b[1] < c[1] + 2^c[2]
    BY <1>1, <2>2, <2>4, <2>5
  <2>7. b[1] \in Buddy!Pages(c)
    BY <1>1, <2>2, <2>6
  <2>8. b = c
    BY <1>1, <2>7, OneBlock
  <2> QED BY <1>1, <1>2, <2>1, <2>2, <2>8
<1>7. <<f, j>> \in Buddy!FreeBlocks
        \/ \E c \in Buddy!FreeBlocks \cup held : f \in Buddy!Pages(c) /\ j < c[2]
  BY <1>4 DEF Buddy!IInv, Buddy!FlagsOK
<1> QED BY <1>5, <1>6, <1>7

\* The descriptors tell the truth about buddies.
LEMMA BuddyDescriptors ==
  ASSUME Buddy!Assumption, Buddy!IInv PROVE Buddy!DescriptorsOK
<1> SUFFICES ASSUME NEW b \in Buddy!FreeBlocks \cup held, NEW z \in DOMAIN Zones,
                    b[1] \in Buddy!PagesOf(z),
                    Buddy!Flip(b[1], b[2]) \in Buddy!PagesOf(z)
             PROVE  isfree[Buddy!Flip(b[1], b[2])] /\ border[Buddy!Flip(b[1], b[2])] = b[2]
                      <=> <<Buddy!Flip(b[1], b[2]), b[2]>> \in Buddy!FreeBlocksOf(z)
  BY DEF Buddy!DescriptorsOK
<1> DEFINE f == Buddy!Flip(b[1], b[2])
<1>1. /\ b[1] \in Nat /\ b[2] \in 0..MAX_ORDER /\ b[1] % 2^b[2] = 0
      /\ 2^b[2] \in Nat \ {0}
  BY BlockPlace
<1>2. /\ b[2] \in b[2]..MAX_ORDER /\ b[1] <= b[1] /\ b[1] < b[1] + 2^b[2]
  BY <1>1, Power
<1>3. isfree[f] /\ border[f] = b[2] => <<f, b[2]>> \in Buddy!FreeBlocksOf(z)
  BY <1>1, <1>2, FlagsTrue
<1>4. ASSUME <<f, b[2]>> \in Buddy!FreeBlocksOf(z) PROVE isfree[f] /\ border[f] = b[2]
  <2>1. <<f, b[2]>> \in Buddy!FreeBlocks
    BY <1>4, BuddyBlocks DEF Buddy!IInv
  <2> HIDE DEF f
  <2>2. isfree[<<f, b[2]>>[1]] /\ border[<<f, b[2]>>[1]] = <<f, b[2]>>[2]
    BY <2>1 DEF Buddy!IInv, Buddy!FlagsOK
  <2> QED BY <2>2
<1> QED BY <1>3, <1>4

\* An aligned run of free pages lies in one free block.
LEMMA RunInBlock ==
  ASSUME Buddy!Assumption, Buddy!IInv, NEW k \in 0..MAX_ORDER, NEW p \in Nat,
         p % 2^k = 0, Buddy!Pages(<<p, k>>) \subseteq Buddy!FreePages
  PROVE  \E b \in Buddy!FreeBlocks : k <= b[2] /\ p \in Buddy!Pages(b)
<1> DEFINE Good(n, q) ==
             \E b \in Buddy!FreeBlocks : n <= b[2] /\ q \in Buddy!Pages(b)
           Run(n, q) == q % 2^n = 0 /\ Buddy!Pages(<<q, n>>) \subseteq Buddy!FreePages
           T == {n \in 0..MAX_ORDER : \E q \in Nat : Run(n, q) /\ ~Good(n, q)}
<1>1. SUFFICES ASSUME ~Good(k, p) PROVE FALSE
  OBVIOUS
<1>2. T \in SUBSET Nat /\ T # {}
  BY <1>1
<1>3. PICK m \in T : \A y \in T : m <= y
  BY <1>2, Least
<1>4. m \in 0..MAX_ORDER /\ MAX_ORDER \in Nat
  BY Power
<1>5. PICK q \in Nat : Run(m, q) /\ ~Good(m, q)
  OBVIOUS
<1>6. q \in Buddy!Pages(<<q, m>>)
  <2>1. m \in 0..MAX_ORDER + 1
    BY <1>4
  <2> QED BY <2>1, BlockPages
<1>7. m # 0
  <2>1. PICK b \in Buddy!FreeBlocks : q \in Buddy!Pages(b)
    BY <1>5, <1>6 DEF Buddy!FreePages
  <2>2. b[2] \in 0..MAX_ORDER
    BY BlockPlace
  <2> QED BY <1>5, <2>1, <2>2
<1> DEFINE n == m - 1
<1>8. n \in 0..MAX_ORDER /\ n + 1 = m /\ n < m /\ n \in 0..m /\ n < MAX_ORDER
  BY <1>4, <1>7
<1> HIDE DEF T
<1>9. n \notin T
  <2>1. ~(m <= n)
    BY <1>4, <1>8
  <2> QED BY <1>3, <2>1
<1>10. \A r \in Nat : Run(n, r) => Good(n, r)
  BY <1>8, <1>9 DEF T
<1> HIDE DEF n
<1>11. 2^m = 2^n + 2^n /\ 2^n \in Nat \ {0} /\ 2^m \in Nat \ {0}
  BY <1>4, <1>8, Power
<1>12. q % 2^m = 0 /\ q % 2^n = 0
  <2>1. q % 2^m = 0
    BY <1>5
  <2> QED BY <2>1, <1>4, <1>8, AlignedDown
<1> DEFINE r == q + 2^n
<1>13. r \in Nat /\ r = q + 2^n /\ r % 2^n = 0 /\ Buddy!Flip(q, n) = r
  <2>1. \/ q % 2^(n + 1) = 0 /\ Buddy!Flip(q, n) = q + 2^n
        \/ Buddy!Flip(q, n) % 2^(n + 1) = 0 /\ q = Buddy!Flip(q, n) + 2^n
    BY <1>8, <1>12, FlipIs
  <2>2. q % 2^(n + 1) = 0
    BY <1>8, <1>12
  <2>3. Buddy!Flip(q, n) \in Nat /\ Buddy!Flip(q, n) % 2^n = 0
    BY <1>8, <1>12, FlipIs
  <2>4. ASSUME Buddy!Flip(q, n) % 2^(n + 1) = 0, q = Buddy!Flip(q, n) + 2^n
        PROVE  FALSE
    <3> DEFINE g == Buddy!Flip(q, n)
    <3>1. g \in Nat /\ g % 2^m = 0 /\ q = g + 2^n /\ q % 2^m = 0
      BY <2>2, <2>3, <2>4, <1>8
    <3> HIDE DEF g
    <3>2. q \in Int /\ g <= q /\ q < g + 2^m /\ q <= q /\ q < q + 2^m
      BY <1>11, <3>1
    <3>3. m \in 0..m /\ m \in 0..MAX_ORDER + 1
      BY <1>4
    <3>4. q <= g
      BY <3>1, <3>2, <3>3, Nested
    <3> QED BY <3>1, <3>4, <1>11
  <2> QED BY <2>1, <2>2, <2>3, <2>4
<1> HIDE DEF r
<1>14. \A t : t \in Buddy!Pages(<<q, n>>) \/ t \in Buddy!Pages(<<r, n>>)
                => t \in Buddy!Pages(<<q, m>>)
  <2>1. n \in 0..MAX_ORDER + 1 /\ m \in 0..MAX_ORDER + 1
    BY <1>4, <1>8
  <2>2. /\ \A t : t \in Buddy!Pages(<<q, n>>) <=> t \in Nat /\ q <= t /\ t < q + 2^n
        /\ \A t : t \in Buddy!Pages(<<r, n>>) <=> t \in Nat /\ r <= t /\ t < r + 2^n
        /\ \A t : t \in Buddy!Pages(<<q, m>>) <=> t \in Nat /\ q <= t /\ t < q + 2^m
    BY <1>13, <2>1, BlockPages
  <2> QED BY <2>2, <1>11, <1>13
<1>15. Run(n, q) /\ Run(n, r)
  BY <1>5, <1>12, <1>13, <1>14
<1>16. PICK a \in Buddy!FreeBlocks : n <= a[2] /\ q \in Buddy!Pages(a)
  BY <1>10, <1>15
<1>17. PICK b \in Buddy!FreeBlocks : n <= b[2] /\ r \in Buddy!Pages(b)
  BY <1>10, <1>13, <1>15
<1>18. ~(m <= a[2])
  BY <1>5, <1>16
<1>19. ~(m <= b[2])
  <2>1. ASSUME m <= b[2] PROVE q \in Buddy!Pages(b)
    <3>1. /\ b[1] \in Nat /\ b[2] \in 0..MAX_ORDER /\ b[1] % 2^b[2] = 0
          /\ b[1] <= r /\ r < b[1] + 2^b[2]
          /\ \A t : t \in Buddy!Pages(b) <=>
                      t \in Nat /\ b[1] <= t /\ t < b[1] + 2^b[2]
      BY <1>17, BlockPlace
    <3>2. r \in Int /\ q <= r /\ r < q + 2^m
      BY <1>11, <1>13
    <3>3. b[2] \in 0..MAX_ORDER + 1 /\ m \in 0..b[2]
      BY <1>4, <2>1, <3>1
    <3>4. b[1] <= q /\ q + 2^m <= b[1] + 2^b[2]
      BY <1>12, <3>1, <3>2, <3>3, Nested
    <3>5. 2^b[2] \in Nat
      BY <3>3, Power
    <3> QED BY <3>1, <3>4, <3>5, <1>11
  <2> QED BY <1>5, <1>17, <2>1
<1>20. ASSUME NEW c \in Buddy!FreeBlocks, NEW x \in {q, r}, n <= c[2],
              x \in Buddy!Pages(c), ~(m <= c[2])
       PROVE  c = <<x, n>>
  <2>1. /\ c[1] \in Nat /\ c[2] \in 0..MAX_ORDER /\ c[1] % 2^c[2] = 0
        /\ c[1] <= x /\ x < c[1] + 2^c[2] /\ c = <<c[1], c[2]>>
    BY <1>20, BlockPlace
  <2>2. c[2] = n
    BY <2>1, <1>4, <1>8, <1>20
  <2>3. x \in Nat /\ x % 2^n = 0
    BY <1>12, <1>13
  <2>4. x \in Int /\ x <= x /\ x < x + 2^n
    BY <2>3, <1>11
  <2>5. n \in 0..n /\ n \in 0..MAX_ORDER + 1
    BY <1>8, <1>4
  <2>6. x <= c[1]
    BY <2>1, <2>2, <2>3, <2>4, <2>5, Nested
  <2> QED BY <2>1, <2>2, <2>3, <2>6
<1>21. a = <<q, n>> /\ b = <<r, n>>
  BY <1>16, <1>17, <1>18, <1>19, <1>20
<1> HIDE DEF Good, Run
<1>22. <<q, n>> \in Buddy!FreeBlocks /\ <<Buddy!Flip(q, n), n>> \in Buddy!FreeBlocks
  BY <1>13, <1>21
<1>23. <<q, n>>[2] < MAX_ORDER =>
         <<Buddy!Flip(<<q, n>>[1], <<q, n>>[2]), <<q, n>>[2]>> \notin Buddy!FreeBlocks
  BY <1>22 DEF Buddy!IInv, Buddy!Coalesced
<1> QED BY <1>8, <1>22, <1>23

\* A zone that turns a request down has no run of free pages that would do.
LEMMA BuddyHides ==
  ASSUME Buddy!Assumption, Buddy!IInv PROVE Buddy!NothingHidden
<1> SUFFICES ASSUME NEW z \in DOMAIN Zones, NEW k \in Buddy!Order,
                    \A j \in k..MAX_ORDER : order[z][j] = << >>,
                    NEW p \in Buddy!PagesOf(z), p % 2^k = 0,
                    Buddy!Pages(<<p, k>>) \subseteq Buddy!FreePages
             PROVE  FALSE
  BY DEF Buddy!NothingHidden
<1>1. p \in Nat /\ k \in 0..MAX_ORDER
  BY ZonesApart DEF Buddy!Order
<1>2. PICK b \in Buddy!FreeBlocks : k <= b[2] /\ p \in Buddy!Pages(b)
  BY <1>1, RunInBlock
<1>3. PICK y \in DOMAIN Zones : b \in Buddy!FreeBlocksOf(y)
  BY BuddyBlocks DEF Buddy!IInv
<1>4. p \in Buddy!PagesOf(y)
  BY <1>2, <1>3 DEF Buddy!IInv, Buddy!Placed
<1>5. y = z
  BY <1>4, ZonesApart
<1>6. b[2] \in 0..MAX_ORDER /\ b[1] \in ToSet(order[z][b[2]])
  BY <1>3, <1>5, BuddyBlocks DEF Buddy!IInv
<1>7. b[2] \in k..MAX_ORDER
  BY <1>1, <1>2, <1>6
<1> QED BY <1>6, <1>7, EmptyQueue

\* The set of pages of ranges.
LEMMA RangePages ==
  /\ \A t : t \in Buddy!Available <=>
              \E i \in DOMAIN FreeRanges :
                t \in FreeRanges[i].begin .. FreeRanges[i].end - 1
  /\ \A t : t \in Buddy!Unfreed <=>
              \E i \in DOMAIN todo : t \in todo[i].begin .. todo[i].end - 1
  /\ \A t : t \in Buddy!Unfreed' <=>
              \E i \in DOMAIN todo' : t \in todo'[i].begin .. todo'[i].end - 1
BY DEF Buddy!Available, Buddy!Unfreed, Buddy!ToSet

\* The ranges of free pages do not touch, and each is in a zone.
LEMMA FreeRangesApart ==
  ASSUME Buddy!Assumption
  PROVE  /\ FreeRanges \in Seq(Buddy!PageRange)
         /\ DOMAIN FreeRanges = 1..Len(FreeRanges) /\ Len(FreeRanges) \in Nat
         /\ \A i \in DOMAIN FreeRanges :
              /\ FreeRanges[i].begin \in Nat /\ FreeRanges[i].end \in Nat
              /\ FreeRanges[i].begin < FreeRanges[i].end
              /\ \E z \in DOMAIN Zones :
                   FreeRanges[i].begin .. FreeRanges[i].end - 1
                     \subseteq Buddy!PagesOf(z)
         /\ \A i, m \in DOMAIN FreeRanges : \A t, u \in Int :
              /\ FreeRanges[i].begin <= t /\ t < FreeRanges[i].end
              /\ FreeRanges[m].begin <= u /\ u < FreeRanges[m].end
              /\ t = u \/ t + 1 = u
              => i = m
<1>1. /\ FreeRanges \in Seq(Buddy!PageRange)
      /\ \A i \in DOMAIN FreeRanges : FreeRanges[i].begin < FreeRanges[i].end
      /\ \A i, m \in DOMAIN FreeRanges :
           i # m => \/ FreeRanges[i].end < FreeRanges[m].begin
                    \/ FreeRanges[m].end < FreeRanges[i].begin
  BY DEF Buddy!Assumption, Buddy!Apart
<1>2. DOMAIN FreeRanges = 1..Len(FreeRanges) /\ Len(FreeRanges) \in Nat
  BY <1>1
<1>3. ASSUME NEW i \in DOMAIN FreeRanges
      PROVE  FreeRanges[i].begin \in Nat /\ FreeRanges[i].end \in Nat
  <2>1. FreeRanges[i] \in Buddy!PageRange
    BY <1>1, <1>2, ElementOfSeq
  <2> QED BY <2>1 DEF Buddy!PageRange
<1>4. ASSUME NEW i \in DOMAIN FreeRanges
      PROVE  \E z \in DOMAIN Zones :
               FreeRanges[i].begin .. FreeRanges[i].end - 1 \subseteq Buddy!PagesOf(z)
  <2>1. PICK z \in DOMAIN Zones : /\ Zones[z].begin <= FreeRanges[i].begin
                                  /\ FreeRanges[i].end <= Zones[z].end
    BY DEF Buddy!Assumption
  <2>2. Zones[z].begin \in Nat /\ Zones[z].end \in Nat
    <3>1. Zones \in Seq(Buddy!PageRange) /\ DOMAIN Zones = 1..Len(Zones)
      BY DEF Buddy!Assumption, Buddy!Apart
    <3>2. Zones[z] \in Buddy!PageRange
      BY <3>1, ElementOfSeq
    <3> QED BY <3>2 DEF Buddy!PageRange
  <2>3. FreeRanges[i].begin .. FreeRanges[i].end - 1
          \subseteq Zones[z].begin .. Zones[z].end - 1
    BY <1>3, <2>1, <2>2
  <2> QED BY <2>3 DEF Buddy!PagesOf
<1>5. ASSUME NEW i \in DOMAIN FreeRanges, NEW m \in DOMAIN FreeRanges,
             NEW t \in Int, NEW u \in Int,
             FreeRanges[i].begin <= t, t < FreeRanges[i].end,
             FreeRanges[m].begin <= u, u < FreeRanges[m].end,
             t = u \/ t + 1 = u
      PROVE  i = m
  BY <1>1, <1>3, <1>5, SMTT(30)
<1> QED BY <1>1, <1>2, <1>3, <1>4, <1>5

\* An aligned number whose next bit is clear is aligned further, and conversely.
LEMMA NextBit ==
  ASSUME Buddy!Assumption, NEW k \in 0..MAX_ORDER, NEW x \in Nat, x % 2^k = 0
  PROVE  /\ x % 2^(k + 1) = 0 <=> (x \div 2^k) % 2 = 0
         /\ (x \div 2^k) % 2 = 0 \/ (x \div 2^k) % 2 = 1
<1> DEFINE f == Buddy!Flip(x, k)
<1>1. /\ f \in Nat /\ f % 2^k = 0
      /\ \/ x % 2^(k + 1) = 0 /\ (x \div 2^k) % 2 = 0
         \/ f % 2^(k + 1) = 0 /\ (x \div 2^k) % 2 = 1 /\ x = f + 2^k
  BY FlipIs
<1> HIDE DEF f
<1>2. ASSUME f % 2^(k + 1) = 0, x = f + 2^k, x % 2^(k + 1) = 0 PROVE FALSE
  <2>1. 2^(k + 1) = 2^k + 2^k /\ 2^k \in Nat \ {0}
    <3>1. k \in 0..MAX_ORDER + 1
      BY Power
    <3> QED BY <3>1, Power
  <2>2. k + 1 \in 0..MAX_ORDER + 1 /\ k + 1 \in 0..k + 1
    BY Power
  <2>3. x \in Int /\ f <= x /\ x < f + 2^(k + 1) /\ x <= x /\ x < x + 2^(k + 1)
    BY <1>1, <1>2, <2>1
  <2>4. x <= f
    BY <1>1, <1>2, <2>2, <2>3, Nested
  <2> QED BY <1>1, <1>2, <2>1, <2>4
<1> QED BY <1>1, <1>2

\* buddy_zone_free: the block fits, and a larger one would not.
LEMMA FirstFitIs ==
  ASSUME Buddy!Assumption, NEW begin \in Nat, NEW end \in Nat, begin < end
  PROVE  /\ Buddy!FirstFit(begin, end) \in 0..MAX_ORDER
         /\ begin % 2^Buddy!FirstFit(begin, end) = 0
         /\ begin + 2^Buddy!FirstFit(begin, end) <= end
         /\ Buddy!Largest(<<begin, Buddy!FirstFit(begin, end)>>, end)
<1> DEFINE Stop(n) == \/ n = MAX_ORDER
                      \/ (begin \div 2^n) % 2 = 1
                      \/ begin + 2^(n + 1) > end
           Go(n) == (begin \div 2^n) % 2 = 0 /\ begin + 2^(n + 1) <= end
           Fit(n) == /\ \A j \in 0..n - 1 : Go(j)
                     /\ n < MAX_ORDER => \/ (begin \div 2^n) % 2 = 1
                                         \/ begin + 2^(n + 1) > end
           T == {n \in 0..MAX_ORDER : Stop(n)}
           k == Buddy!FirstFit(begin, end)
<1>0. MAX_ORDER \in Nat /\ 2^0 = 1 /\ \A n \in 0..MAX_ORDER + 1 : 2^n \in Nat \ {0}
  BY Power
<1>1. k = CHOOSE n \in 0..MAX_ORDER : Fit(n)
  BY DEF Buddy!FirstFit, Buddy!Order
\* As long as the bits below n are clear, begin is a multiple of 2^n.
<1>2. ASSUME NEW n \in 0..MAX_ORDER, \A j \in 0..n - 1 : (begin \div 2^j) % 2 = 0
      PROVE  begin % 2^n = 0
  <2> DEFINE U == {j \in 0..n : begin % 2^j # 0}
  <2>1. SUFFICES ASSUME n \in U PROVE FALSE
    BY <1>0
  <2>2. PICK m \in U : \A y \in U : m <= y
    <3>1. U \in SUBSET Nat /\ U # {}
      BY <2>1
    <3> QED BY <3>1, Least
  <2>3. m \in 0..n /\ begin % 2^m # 0
    OBVIOUS
  <2> HIDE DEF U
  <2>4. m # 0
    <3>1. begin % 1 = 0
      <4>1. begin = 1 * begin /\ 1 \in Nat \ {0}
        OBVIOUS
      <4>2. (1 * begin) % 1 = 0
        BY <4>1, MultiplesAligned
      <4> QED BY <4>1, <4>2
    <3> QED BY <3>1, <2>3, <1>0
  <2>5. m - 1 \in 0..n - 1 /\ m - 1 \in 0..n /\ m - 1 \in 0..MAX_ORDER
        /\ (m - 1) + 1 = m /\ ~(m <= m - 1)
    BY <2>3, <2>4, <1>0
  <2>6. begin % 2^(m - 1) = 0
    <3>1. m - 1 \notin U
      BY <2>2, <2>5
    <3> QED BY <3>1, <2>5 DEF U
  <2>7. begin % 2^((m - 1) + 1) = 0
    BY <1>2, <2>5, <2>6, NextBit
  <2> QED BY <2>3, <2>5, <2>7
<1>3. \E n \in 0..MAX_ORDER : Fit(n)
  <2>1. T \in SUBSET Nat /\ MAX_ORDER \in T
    BY <1>0
  <2>2. PICK n \in T : \A y \in T : n <= y
    BY <2>1, Least
  <2>3. n \in 0..MAX_ORDER /\ Stop(n)
    OBVIOUS
  <2> HIDE DEF T
  <2>4. ASSUME NEW j \in 0..n - 1, \A i \in 0..j - 1 : (begin \div 2^i) % 2 = 0
        PROVE  Go(j)
    <3>1. j \in 0..MAX_ORDER /\ ~(n <= j)
      BY <1>0, <2>3
    <3>2. ~Stop(j)
      BY <2>2, <3>1 DEF T
    <3>3. begin % 2^j = 0
      BY <1>2, <2>4, <3>1
    <3>4. (begin \div 2^j) % 2 = 0 \/ (begin \div 2^j) % 2 = 1
      BY <3>1, <3>3, NextBit
    <3>5. begin + 2^(j + 1) \in Nat
      <4>1. j + 1 \in 0..MAX_ORDER + 1
        BY <3>1, <1>0
      <4>2. 2^(j + 1) \in Nat
        BY <4>1, <1>0
      <4> QED BY <4>2
    <3> QED BY <3>2, <3>4, <3>5
  <2>5. ASSUME NEW j \in 0..n - 1, ~Go(j) PROVE FALSE
    <3> DEFINE V == {i \in 0..n - 1 : ~Go(i)}
    <3>1. V \in SUBSET Nat /\ V # {}
      <4>1. j \in V
        BY <2>5
      <4>2. \A i \in 0..n - 1 : i \in Nat
        BY <2>3
      <4> HIDE DEF Go
      <4> QED BY <4>1, <4>2
    <3>2. PICK m \in V : \A y \in V : m <= y
      BY <3>1, Least
    <3>3. m \in 0..n - 1 /\ ~Go(m)
      OBVIOUS
    <3> HIDE DEF V
    <3>4. ASSUME NEW i \in 0..m - 1 PROVE (begin \div 2^i) % 2 = 0
      <4>1. i \in 0..n - 1 /\ ~(m <= i)
        BY <3>3, <2>3
      <4>2. i \notin V
        BY <3>2, <4>1
      <4> QED BY <4>1, <4>2 DEF V
    <3> QED BY <2>4, <3>3, <3>4
  <2>6. n < MAX_ORDER => (begin \div 2^n) % 2 = 1 \/ begin + 2^(n + 1) > end
    BY <2>3, <1>0
  <2>7. \A j \in 0..n - 1 : Go(j)
    BY <2>5
  <2> QED BY <2>3, <2>6, <2>7
<1> HIDE DEF Fit
<1>4. k \in 0..MAX_ORDER /\ Fit(k)
  BY <1>1, <1>3
<1> HIDE DEF k
<1>5. /\ \A j \in 0..k - 1 : Go(j)
      /\ k < MAX_ORDER => (begin \div 2^k) % 2 = 1 \/ begin + 2^(k + 1) > end
  BY <1>4 DEF Fit
<1>6. begin % 2^k = 0
  BY <1>2, <1>4, <1>5
<1>7. begin + 2^k <= end
  <2>1. CASE k = 0
    BY <2>1, <1>0
  <2>2. CASE k # 0
    <3>1. k - 1 \in 0..k - 1 /\ (k - 1) + 1 = k
      BY <1>0, <1>4, <2>2
    <3>2. Go(k - 1)
      BY <1>5, <3>1
    <3> QED BY <3>1, <3>2
  <2> QED BY <2>1, <2>2
<1>8. Buddy!Largest(<<begin, k>>, end)
  BY <1>0, <1>4, <1>5 DEF Buddy!Largest
<1> QED BY <1>4, <1>6, <1>7, <1>8 DEF k

\* Before buddy_setup nothing is free and all ranges are still to be freed.
LEMMA BuddyInit == ASSUME Buddy!Assumption, Buddy!Init PROVE Buddy!IInv
<1> USE DEF Buddy!Init
<1>1. /\ \A p \in Buddy!Page : isfree[p] = FALSE /\ border[p] = 0
      /\ isfree \in [Buddy!Page -> BOOLEAN] /\ border \in [Buddy!Page -> {0}]
  <2>1. PICK page \in [Buddy!Page -> {<<FALSE, 0>>}] :
          /\ isfree = [p \in Buddy!Page |-> page[p][1]]
          /\ border = [p \in Buddy!Page |-> page[p][2]]
    OBVIOUS
  <2>2. \A p \in Buddy!Page : page[p] = <<FALSE, 0>>
    BY <2>1
  <2>3. ASSUME NEW p \in Buddy!Page PROVE page[p][1] = FALSE /\ page[p][2] = 0
    <3>1. page[p] = <<FALSE, 0>>
      BY <2>2
    <3>2. <<FALSE, 0>>[1] = FALSE /\ <<FALSE, 0>>[2] = 0
      OBVIOUS
    <3> QED BY <3>1, <3>2, Zenon
  <2> QED BY <2>1, <2>3
<1>2. \A z \in DOMAIN Zones : \A k \in Buddy!Order : order[z][k] = << >>
  OBVIOUS
<1>3. Buddy!TypeOK
  <2>1. order \in [DOMAIN Zones -> [Buddy!Order -> Seq(Buddy!Page)]]
    BY EmptyQueue
  <2>2. todo \in Seq(Buddy!PageRange)
    BY FreeRangesApart
  <2>3. border \in [Buddy!Page -> Buddy!Order]
    BY <1>1, Power DEF Buddy!Order
  <2>4. call \in [Proc -> {Buddy!Idle} \cup ((DOMAIN Zones) \X Buddy!Order)]
    OBVIOUS
  <2> QED BY <1>1, <2>1, <2>2, <2>3, <2>4 DEF Buddy!TypeOK
<1>4. Buddy!FreeBlocks = {} /\ \A z \in DOMAIN Zones : Buddy!FreeBlocksOf(z) = {}
  <2>1. ASSUME NEW z \in DOMAIN Zones, NEW b \in Buddy!FreeBlocksOf(z) PROVE FALSE
    <3>1. b[1] \in ToSet(order[z][b[2]]) /\ b[2] \in Buddy!Order
      BY <1>3, BuddyBlocks
    <3> QED BY <3>1, <1>2, EmptyQueue
  <2> QED BY <2>1, <1>3, BuddyBlocks
<1>5. Buddy!Partition
  <2>1. Buddy!Available = Buddy!Unfreed
    BY DEF Buddy!Available, Buddy!Unfreed
  <2>2. \A z \in DOMAIN Zones, k \in Buddy!Order : Buddy!IsInjective(order[z][k])
    BY <1>2, EmptyQueue, BuddyQueue
  <2> QED BY <1>4, <2>1, <2>2 DEF Buddy!Partition
<1>6. Buddy!Coalesced /\ Buddy!Placed
  BY <1>4 DEF Buddy!Coalesced, Buddy!Placed
<1>7. Buddy!FlagsOK
  BY <1>1, <1>4 DEF Buddy!FlagsOK
<1>8. Buddy!SetupOK
  <2> SUFFICES ASSUME todo # << >> PROVE
        \E n \in DOMAIN FreeRanges :
          /\ Len(todo) = Len(FreeRanges) - n + 1
          /\ \A i \in 2..Len(todo) : todo[i] = FreeRanges[n + i - 1]
          /\ todo[1].end = FreeRanges[n].end
          /\ todo[1].begin \in FreeRanges[n].begin .. FreeRanges[n].end - 1
    BY <1>4 DEF Buddy!SetupOK, Buddy!Idle
  <2>1. todo = FreeRanges /\ FreeRanges \in Seq(Buddy!PageRange)
    BY FreeRangesApart
  <2>2. 1 \in DOMAIN FreeRanges
    BY <2>1
  <2>3. Len(FreeRanges) \in Nat /\ Len(todo) = Len(FreeRanges) - 1 + 1
    BY <2>1
  <2>4. \A i \in 2..Len(todo) : 1 + i - 1 = i
    OBVIOUS
  <2>5. todo[1].begin \in FreeRanges[1].begin .. FreeRanges[1].end - 1
    BY <2>1, <2>2, FreeRangesApart
  <2> QED BY <2>1, <2>2, <2>3, <2>4, <2>5
<1> QED BY <1>3, <1>5, <1>6, <1>7, <1>8 DEF Buddy!IInv

\* buddy_alloc begins, or goes on to the next zone: only the caller moves.
LEMMA CallerMoves ==
  ASSUME Buddy!Assumption, Buddy!IInv, NEW c \in Proc,
         Buddy!AllocBegin(c) \/ Buddy!AllocNextZone(c)
  PROVE  Buddy!IInv'
<1>1. UNCHANGED <<isfree, border, order, todo, held>>
  BY DEF Buddy!AllocBegin, Buddy!AllocNextZone
<1>2. Zones \in Seq(Buddy!PageRange)
  BY DEF Buddy!Assumption, Buddy!Apart
<1>3. call' \in [Proc -> {Buddy!Idle} \cup ((DOMAIN Zones) \X Buddy!Order)]
  <2>1. call \in [Proc -> {Buddy!Idle} \cup ((DOMAIN Zones) \X Buddy!Order)]
    BY DEF Buddy!IInv, Buddy!TypeOK
  <2>2. CASE Buddy!AllocBegin(c)
    <3>1. PICK k \in Buddy!Order : call' = [call EXCEPT ![c] = <<1, k>>]
      BY <2>2 DEF Buddy!AllocBegin
    <3>2. 1 \in DOMAIN Zones
      BY <1>2 DEF Buddy!Assumption
    <3> QED BY <2>1, <3>1, <3>2
  <2>3. CASE Buddy!AllocNextZone(c)
    <3>1. /\ call[c] # Buddy!Idle
          /\ call' = [call EXCEPT ![c] = IF call[c][1] = Len(Zones) THEN Buddy!Idle
                                         ELSE <<call[c][1] + 1, call[c][2]>>]
      BY <2>3 DEF Buddy!AllocNextZone
    <3>2. call[c][1] \in DOMAIN Zones /\ call[c][2] \in Buddy!Order
      BY <2>1, <3>1
    <3>3. call[c][1] # Len(Zones) => call[c][1] + 1 \in DOMAIN Zones
      BY <1>2, <3>2
    <3> QED BY <2>1, <3>1, <3>2, <3>3
  <2> QED BY <2>2, <2>3
<1>4. /\ Buddy!FreeBlocks' = Buddy!FreeBlocks
      /\ \A z \in DOMAIN Zones : Buddy!FreeBlocksOf(z)' = Buddy!FreeBlocksOf(z)
      /\ Buddy!Unfreed' = Buddy!Unfreed
  BY <1>1 DEF Buddy!FreeBlocks, Buddy!FreeBlocksOf, Buddy!Unfreed
<1>5. todo # << >> => call' = call
  <2>1. CASE Buddy!AllocBegin(c)
    BY <2>1 DEF Buddy!AllocBegin
  <2>2. CASE Buddy!AllocNextZone(c)
    BY <2>2 DEF Buddy!AllocNextZone, Buddy!IInv, Buddy!SetupOK
  <2> QED BY <2>1, <2>2
<1>6. Buddy!TypeOK'
  BY <1>1, <1>3 DEF Buddy!IInv, Buddy!TypeOK
<1>7. Buddy!Partition' /\ Buddy!Coalesced'
  BY <1>1, <1>4 DEF Buddy!IInv, Buddy!Partition, Buddy!Coalesced
<1>8. Buddy!Placed' /\ Buddy!FlagsOK'
  BY <1>1, <1>4 DEF Buddy!IInv, Buddy!Placed, Buddy!FlagsOK
<1>9. Buddy!SetupOK'
  BY <1>1, <1>4, <1>5 DEF Buddy!IInv, Buddy!SetupOK
<1> QED BY <1>6, <1>7, <1>8, <1>9 DEF Buddy!IInv

\* The same of the lists after a step.
LEMMA BlocksNext ==
  ASSUME Buddy!Assumption, Buddy!TypeOK'
  PROVE  /\ \A y \in DOMAIN Zones : \A b : b \in Buddy!FreeBlocksOf(y)' <=>
              \E k \in Buddy!Order : \E p \in ToSet(order'[y][k]) : b = <<p, k>>
         /\ \A y \in DOMAIN Zones : \A p, k : <<p, k>> \in Buddy!FreeBlocksOf(y)' <=>
              k \in Buddy!Order /\ p \in ToSet(order'[y][k])
         /\ \A b : b \in Buddy!FreeBlocks' <=>
              \E y \in DOMAIN Zones : b \in Buddy!FreeBlocksOf(y)'
<1>1. \A y \in DOMAIN Zones : \A b : b \in Buddy!FreeBlocksOf(y)' <=>
         \E k \in Buddy!Order : \E p \in ToSet(order'[y][k]) : b = <<p, k>>
  BY BuddyQueue DEF Buddy!FreeBlocksOf
<1>2. \A b : b \in Buddy!FreeBlocks' <=>
              \E y \in DOMAIN Zones : b \in Buddy!FreeBlocksOf(y)'
  BY DEF Buddy!FreeBlocks
<1> QED BY <1>1, <1>2

\* Where buddy_setup is.
LEMMA SetupAt ==
  ASSUME Buddy!Assumption, Buddy!IInv, todo # << >>
  PROVE  /\ held = {} /\ \A c \in Proc : call[c] = Buddy!Idle
         /\ Len(todo) \in Nat \ {0} /\ DOMAIN todo = 1..Len(todo)
         /\ \E n \in DOMAIN FreeRanges :
              /\ Len(todo) = Len(FreeRanges) - n + 1
              /\ \A i \in 2..Len(todo) : todo[i] = FreeRanges[n + i - 1]
              /\ todo[1].end = FreeRanges[n].end
              /\ todo[1].begin \in FreeRanges[n].begin .. FreeRanges[n].end - 1
         /\ \A b \in Buddy!FreeBlocks :
              b[1] + 2^b[2] = todo[1].begin => Buddy!Largest(b, todo[1].end)
<1>1. todo \in Seq(Buddy!PageRange)
  BY DEF Buddy!IInv, Buddy!TypeOK
<1> QED BY <1>1 DEF Buddy!IInv, Buddy!SetupOK

\* The range buddy_setup is at and the next block in it.
LEMMA SetupRange ==
  ASSUME Buddy!Assumption, Buddy!IInv, todo # << >>, NEW n \in DOMAIN FreeRanges,
         Len(todo) = Len(FreeRanges) - n + 1,
         \A i \in 2..Len(todo) : todo[i] = FreeRanges[n + i - 1],
         todo[1].end = FreeRanges[n].end,
         todo[1].begin \in FreeRanges[n].begin .. FreeRanges[n].end - 1
  PROVE  /\ todo[1].begin \in Nat /\ todo[1].end \in Nat /\ todo[1].begin < todo[1].end
         /\ FreeRanges[n].begin <= todo[1].begin
         /\ \A i \in 2..Len(todo) :
              /\ n + i - 1 \in DOMAIN FreeRanges /\ n + i - 1 # n
              /\ todo[i].begin \in Nat /\ todo[i].end \in Nat
              /\ todo[i].begin < todo[i].end
         /\ \A t : t \in Buddy!Unfreed <=>
              \/ t \in todo[1].begin .. todo[1].end - 1
              \/ \E i \in 2..Len(todo) : t \in todo[i].begin .. todo[i].end - 1
         /\ \A t \in todo[1].begin .. todo[1].end - 1, i \in 2..Len(todo) :
              t \notin todo[i].begin .. todo[i].end - 1
<1>1. FreeRanges[n].begin \in Nat /\ FreeRanges[n].end \in Nat
  BY FreeRangesApart
<1>2. todo[1].begin \in Nat /\ todo[1].end \in Nat /\ todo[1].begin < todo[1].end
      /\ FreeRanges[n].begin <= todo[1].begin
  BY <1>1
<1>3. Len(todo) \in Nat \ {0} /\ DOMAIN todo = 1..Len(todo)
  BY SetupAt
<1>4. ASSUME NEW i \in 2..Len(todo)
      PROVE  /\ n + i - 1 \in DOMAIN FreeRanges /\ n + i - 1 # n
             /\ todo[i].begin \in Nat /\ todo[i].end \in Nat
             /\ todo[i].begin < todo[i].end
  <2>1. n \in 1..Len(FreeRanges) /\ Len(FreeRanges) \in Nat
    BY FreeRangesApart
  <2>2. n + i - 1 \in 1..Len(FreeRanges) /\ n + i - 1 # n
    BY <2>1, <1>3
  <2>3. n + i - 1 \in DOMAIN FreeRanges
    BY <2>2, FreeRangesApart
  <2>4. todo[i] = FreeRanges[n + i - 1]
    OBVIOUS
  <2> QED BY <2>2, <2>3, <2>4, FreeRangesApart
<1>5. \A t : t \in Buddy!Unfreed <=>
              \/ t \in todo[1].begin .. todo[1].end - 1
              \/ \E i \in 2..Len(todo) : t \in todo[i].begin .. todo[i].end - 1
  <2>1. \A i : i \in DOMAIN todo <=> i = 1 \/ i \in 2..Len(todo)
    BY <1>3
  <2> QED BY <2>1, RangePages
<1>6. ASSUME NEW t \in todo[1].begin .. todo[1].end - 1, NEW i \in 2..Len(todo),
             t \in todo[i].begin .. todo[i].end - 1
      PROVE  FALSE
  <2>1. todo[i] = FreeRanges[n + i - 1]
    OBVIOUS
  <2>2. t \in Int /\ todo[1].begin <= t /\ t < todo[1].end
    BY <1>2
  <2>3. todo[i].begin <= t /\ t < todo[i].end
    BY <1>4, <1>6
  <2>4. FreeRanges[n].begin <= t /\ t < FreeRanges[n].end
    BY <2>2, <1>1, <1>2
  <2>5. FreeRanges[n + i - 1].begin <= t /\ t < FreeRanges[n + i - 1].end
    BY <2>1, <2>3
  <2> DEFINE m == n + i - 1
  <2>6. m \in DOMAIN FreeRanges /\ m # n
        /\ FreeRanges[m].begin <= t /\ t < FreeRanges[m].end
    BY <2>5, <1>4
  <2> HIDE DEF m
  <2> QED BY <2>2, <2>4, <2>6, FreeRangesApart
<1> QED BY <1>2, <1>4, <1>5, <1>6

\* Pages of a block are free or in use; they are in a free range, and not in one
\* that is still to be freed.
LEMMA BlocksAvailable ==
  ASSUME Buddy!Assumption, Buddy!IInv, NEW b \in Buddy!FreeBlocks \cup held,
         NEW t \in Buddy!Pages(b)
  PROVE  t \in Buddy!Available /\ t \notin Buddy!Unfreed
BY DEF Buddy!IInv, Buddy!Partition

\* The step of buddy_zone_free in terms of sets: one block more.
LEMMA ZoneFreeStep ==
  ASSUME Buddy!Assumption, Buddy!IInv, Buddy!ZoneFree
  PROVE  /\ todo # << >>
         /\ \E z \in DOMAIN Zones, k \in 0..MAX_ORDER :
              /\ todo[1].begin % 2^k = 0
              /\ todo[1].begin + 2^k <= todo[1].end
              /\ Buddy!Largest(<<todo[1].begin, k>>, todo[1].end)
              /\ todo[1].begin .. todo[1].end - 1 \subseteq Buddy!PagesOf(z)
              /\ border' = [border EXCEPT ![todo[1].begin] = k]
              /\ isfree' = [isfree EXCEPT ![todo[1].begin] = TRUE]
              /\ Buddy!TypeOK'
              /\ \A y \in DOMAIN Zones : \A b :
                   b \in Buddy!FreeBlocksOf(y)' <=>
                     \/ b \in Buddy!FreeBlocksOf(y)
                     \/ y = z /\ b = <<todo[1].begin, k>>
              /\ \A b : b \in Buddy!FreeBlocks' <=>
                          \/ b \in Buddy!FreeBlocks
                          \/ b = <<todo[1].begin, k>>
              /\ \A y \in DOMAIN Zones, j \in Buddy!Order :
                   Buddy!IsInjective(order'[y][j])
              /\ todo' = IF todo[1].begin + 2^k = todo[1].end THEN Tail(todo)
                         ELSE <<[todo[1] EXCEPT !.begin = @ + 2^k]>> \o Tail(todo)
<1> DEFINE begin == todo[1].begin
           end == todo[1].end
           k == Buddy!FirstFit(begin, end)
           z == Buddy!ZoneOf(begin)
<1>1. todo # << >> /\ Head(todo) = todo[1]
  <2>1. todo \in Seq(Buddy!PageRange) /\ todo # << >>
    BY DEF Buddy!ZoneFree, Buddy!IInv, Buddy!TypeOK
  <2> QED BY <2>1
<1>2. /\ border' = [border EXCEPT ![begin] = k]
      /\ isfree' = [isfree EXCEPT ![begin] = TRUE]
      /\ order' = [order EXCEPT ![z][k] = Append(@, begin)]
      /\ todo' = IF begin + 2^k = end THEN Tail(todo)
                 ELSE <<[todo[1] EXCEPT !.begin = begin + 2^k]>> \o Tail(todo)
      /\ UNCHANGED <<call, held>>
  BY <1>1 DEF Buddy!ZoneFree
<1>3. PICK n \in DOMAIN FreeRanges :
         /\ Len(todo) = Len(FreeRanges) - n + 1
         /\ \A i \in 2..Len(todo) : todo[i] = FreeRanges[n + i - 1]
         /\ todo[1].end = FreeRanges[n].end
         /\ todo[1].begin \in FreeRanges[n].begin .. FreeRanges[n].end - 1
  BY <1>1, SetupAt
<1>4. begin \in Nat /\ end \in Nat /\ begin < end /\ FreeRanges[n].begin <= begin
  BY <1>1, <1>3, SetupRange
<1>5. PICK w \in DOMAIN Zones : FreeRanges[n].begin .. FreeRanges[n].end - 1
                                  \subseteq Buddy!PagesOf(w)
  BY FreeRangesApart
<1>6. begin .. end - 1 \subseteq Buddy!PagesOf(w) /\ begin \in Buddy!PagesOf(w)
  <2>1. FreeRanges[n].begin \in Nat /\ FreeRanges[n].end \in Nat
    BY FreeRangesApart
  <2>2. begin .. end - 1 \subseteq FreeRanges[n].begin .. FreeRanges[n].end - 1
        /\ begin \in begin .. end - 1
    BY <2>1, <1>3, <1>4
  <2> QED BY <2>2, <1>5
<1>7. z = w
  BY <1>6, ZoneOfIs
<1>8. /\ k \in 0..MAX_ORDER /\ begin % 2^k = 0 /\ begin + 2^k <= end
      /\ Buddy!Largest(<<begin, k>>, end)
  BY <1>4, FirstFitIs
<1>9. z \in DOMAIN Zones /\ k \in Buddy!Order /\ begin \in Buddy!Page
  BY <1>6, <1>7, <1>8, ZonesApart DEF Buddy!Order
<1>10. z \in DOMAIN Zones /\ begin .. end - 1 \subseteq Buddy!PagesOf(z)
  BY <1>6, <1>7
<1>11. /\ isfree \in [Buddy!Page -> BOOLEAN] /\ border \in [Buddy!Page -> Buddy!Order]
       /\ order \in [DOMAIN Zones -> [Buddy!Order -> Seq(Buddy!Page)]]
       /\ todo \in Seq(Buddy!PageRange)
       /\ call \in [Proc -> {Buddy!Idle} \cup ((DOMAIN Zones) \X Buddy!Order)]
       /\ held \subseteq Buddy!Page \X Buddy!Order
  BY DEF Buddy!IInv, Buddy!TypeOK
<1>12. 2^k \in Nat \ {0}
  <2>1. k \in 0..MAX_ORDER + 1
    BY <1>8, Power
  <2> QED BY <2>1, Power
<1> HIDE DEF k, z, begin, end
<1>13. Buddy!TypeOK'
  <2>1. order' \in [DOMAIN Zones -> [Buddy!Order -> Seq(Buddy!Page)]]
    <3>1. Append(order[z][k], begin) \in Seq(Buddy!Page)
      BY <1>9, <1>11, AppendQueue
    <3> QED BY <3>1, <1>2, <1>9, <1>11
  <2>2. todo' \in Seq(Buddy!PageRange)
    <3>1. Tail(todo) \in Seq(Buddy!PageRange) /\ todo[1] \in Buddy!PageRange
      BY <1>1, <1>11, TailQueue
    <3>2. [todo[1] EXCEPT !.begin = begin + 2^k] \in Buddy!PageRange
      BY <3>1, <1>4, <1>12 DEF Buddy!PageRange
    <3> DEFINE rest == Tail(todo)
               r == [todo[1] EXCEPT !.begin = begin + 2^k]
    <3>3. rest \in Seq(Buddy!PageRange) /\ r \in Buddy!PageRange
          /\ (todo' = rest \/ todo' = <<r>> \o rest)
      BY <3>1, <3>2, <1>2
    <3> HIDE DEF rest, r
    <3>4. rest \in Seq(Buddy!PageRange) /\ r \in Buddy!PageRange
      BY <3>3
    <3>5. <<r>> \o rest \in Seq(Buddy!PageRange)
      BY <3>4, PrependQueue
    <3> QED BY <3>3, <3>5
  <2>3. /\ isfree' \in [Buddy!Page -> BOOLEAN]
        /\ border' \in [Buddy!Page -> Buddy!Order]
    BY <1>2, <1>9, <1>11
  <2> QED BY <2>1, <2>2, <2>3, <1>2, <1>11 DEF Buddy!TypeOK
<1>14. \A y \in DOMAIN Zones : \A j \in Buddy!Order :
         order'[y][j] = IF y = z /\ j = k THEN Append(order[z][k], begin)
                        ELSE order[y][j]
  BY <1>2, <1>9, <1>11
<1>15. order[z][k] \in Seq(Buddy!Page)
  BY <1>9, <1>11
<1>16. ToSet(Append(order[z][k], begin)) = ToSet(order[z][k]) \cup {begin}
  BY <1>9, <1>15, AppendQueue
<1>17. \A y \in DOMAIN Zones : \A p, j : <<p, j>> \in Buddy!FreeBlocksOf(y)' <=>
         \/ <<p, j>> \in Buddy!FreeBlocksOf(y)
         \/ y = z /\ <<p, j>> = <<begin, k>>
  <2> SUFFICES ASSUME NEW y \in DOMAIN Zones, NEW p, NEW j
               PROVE  <<p, j>> \in Buddy!FreeBlocksOf(y)' <=>
                         \/ <<p, j>> \in Buddy!FreeBlocksOf(y)
                         \/ y = z /\ <<p, j>> = <<begin, k>>
    OBVIOUS
  <2>1. /\ <<p, j>> \in Buddy!FreeBlocksOf(y)' <=>
             j \in Buddy!Order /\ p \in ToSet(order'[y][j])
        /\ <<p, j>> \in Buddy!FreeBlocksOf(y) <=>
             j \in Buddy!Order /\ p \in ToSet(order[y][j])
    BY <1>13, BlocksNext, BuddyBlocks DEF Buddy!IInv
  <2>2. CASE y = z /\ j = k
    BY <2>1, <2>2, <1>9, <1>14, <1>16
  <2>3. CASE ~(y = z /\ j = k)
    BY <2>1, <2>3, <1>14
  <2> QED BY <2>2, <2>3
<1>18. \A y \in DOMAIN Zones : \A b : b \in Buddy!FreeBlocksOf(y)' <=>
         \/ b \in Buddy!FreeBlocksOf(y)
         \/ y = z /\ b = <<begin, k>>
  <2> SUFFICES ASSUME NEW y \in DOMAIN Zones, NEW b
               PROVE  b \in Buddy!FreeBlocksOf(y)' <=>
                         \/ b \in Buddy!FreeBlocksOf(y)
                         \/ y = z /\ b = <<begin, k>>
    OBVIOUS
  <2>1. b \in Buddy!FreeBlocksOf(y)' => \E p, j : b = <<p, j>>
    BY <1>13, BlocksNext
  <2>2. b \in Buddy!FreeBlocksOf(y) => b = <<b[1], b[2]>>
    BY BuddyBlocks DEF Buddy!IInv
  <2> QED BY <2>1, <2>2, <1>17
<1>19. \A b : b \in Buddy!FreeBlocks' <=> b \in Buddy!FreeBlocks \/ b = <<begin, k>>
  BY <1>13, <1>18, <1>9, BlocksNext, BuddyBlocks DEF Buddy!IInv
<1>20. ASSUME NEW y \in DOMAIN Zones, NEW j \in Buddy!Order
       PROVE  Buddy!IsInjective(order'[y][j])
  <2>1. IsInjective(order[y][j]) /\ IsInjective(order[z][k])
    BY <1>9, BuddyQueue DEF Buddy!IInv, Buddy!Partition
  <2>2. begin \notin ToSet(order[z][k])
    <3>1. ASSUME begin \in ToSet(order[z][k]) PROVE FALSE
      <4> DEFINE c == <<begin, k>>
      <4>1. c \in Buddy!FreeBlocks
        BY <1>9, <3>1, BuddyBlocks DEF Buddy!IInv
      <4>2. begin \in Buddy!Pages(c)
        <5>1. c[1] = begin
          OBVIOUS
        <5> HIDE DEF c
        <5> QED BY <4>1, <5>1, BlockPlace
      <4> HIDE DEF c
      <4>3. begin \notin Buddy!Unfreed
        BY <4>1, <4>2, BlocksAvailable
      <4>4. begin \in todo[1].begin .. todo[1].end - 1
        BY <1>4 DEF begin, end
      <4> QED BY <4>3, <4>4, <1>1, <1>3, SetupRange
    <3> QED BY <3>1
  <2>3. IsInjective(Append(order[z][k], begin))
    BY <1>9, <1>15, <2>1, <2>2, AppendQueue
  <2> QED BY <2>1, <2>3, <1>14, BuddyQueue
<1>21. todo' = IF begin + 2^k = end THEN Tail(todo)
               ELSE <<[todo[1] EXCEPT !.begin = @ + 2^k]>> \o Tail(todo)
  BY <1>2 DEF begin
<1> QED BY <1>1, <1>2, <1>8, <1>10, <1>13, <1>18, <1>19, <1>20, <1>21 DEF begin, end

\* The queue with another head.
LEMMA NewHead ==
  ASSUME NEW S, NEW s \in Seq(S), s # << >>, NEW e \in S
  PROVE  /\ Len(<<e>> \o Tail(s)) = Len(s) /\ (<<e>> \o Tail(s))[1] = e
         /\ \A i \in 2..Len(s) : (<<e>> \o Tail(s))[i] = s[i]
         /\ Len(Tail(s)) = Len(s) - 1
         /\ \A i \in 1..Len(s) - 1 : Tail(s)[i] = s[i + 1]
<1> DEFINE a == <<e>>
           t == Tail(s)
           u == a \o t
<1>1. t \in Seq(S) /\ Len(t) = Len(s) - 1 /\ Len(s) \in Nat
      /\ \A i \in 1..Len(t) : t[i] = s[i + 1]
  BY HeadTailProperties
<1>2. a \in Seq(S) /\ Len(a) = 1 /\ a[1] = e
  OBVIOUS
<1> HIDE DEF a, t
<1>3. /\ Len(u) = Len(a) + Len(t)
      /\ \A i \in 1..Len(a) + Len(t) :
           u[i] = IF i <= Len(a) THEN a[i] ELSE t[i - Len(a)]
  BY <1>1, <1>2, ConcatProperties
<1> HIDE DEF u
<1>4. Len(u) = Len(s) /\ u[1] = e
  <2>1. 1 \in 1..Len(a) + Len(t)
    BY <1>1, <1>2
  <2> QED BY <1>1, <1>2, <1>3, <2>1
<1>5. ASSUME NEW i \in 2..Len(s) PROVE u[i] = s[i]
  <2>1. i \in 1..Len(a) + Len(t) /\ ~(i <= Len(a)) /\ i - Len(a) = i - 1
        /\ i - 1 \in 1..Len(t) /\ (i - 1) + 1 = i
    BY <1>1, <1>2
  <2> QED BY <2>1, <1>1, <1>3
<1> QED BY <1>1, <1>4, <1>5 DEF u, t, a

\* buddy_setup goes on behind a block of order k.
GoesOn(k) ==
  todo' = IF todo[1].begin + 2^k = todo[1].end THEN Tail(todo)
          ELSE <<[todo[1] EXCEPT !.begin = @ + 2^k]>> \o Tail(todo)

\* What buddy_setup has still to free, after a block.
LEMMA ZoneFreeRanges ==
  ASSUME Buddy!Assumption, Buddy!IInv, todo # << >>, NEW k \in 0..MAX_ORDER,
         todo[1].begin + 2^k <= todo[1].end,
         GoesOn(k)
  PROVE  /\ \A t \in Buddy!Pages(<<todo[1].begin, k>>) :
              t \in Buddy!Unfreed /\ t \in Buddy!Available
         /\ \A t : t \in Buddy!Unfreed' <=>
                     /\ t \in Buddy!Unfreed
                     /\ t \notin Buddy!Pages(<<todo[1].begin, k>>)
         /\ todo' # << >> =>
              /\ \E n \in DOMAIN FreeRanges :
                   /\ Len(todo') = Len(FreeRanges) - n + 1
                   /\ \A i \in 2..Len(todo') : todo'[i] = FreeRanges[n + i - 1]
                   /\ todo'[1].end = FreeRanges[n].end
                   /\ todo'[1].begin \in FreeRanges[n].begin .. FreeRanges[n].end - 1
              /\ \/ /\ todo'[1].begin = todo[1].begin + 2^k
                    /\ todo'[1].end = todo[1].end
                 \/ todo'[1].begin - 1 \notin Buddy!Available
<1>1. /\ todo \in Seq(Buddy!PageRange) /\ todo[1] \in Buddy!PageRange
      /\ Len(todo) \in Nat \ {0} /\ DOMAIN todo = 1..Len(todo)
  <2>1. todo \in Seq(Buddy!PageRange)
    BY DEF Buddy!IInv, Buddy!TypeOK
  <2> QED BY <2>1, SetupAt, ElementOfSeq
<1>2. PICK n \in DOMAIN FreeRanges :
         /\ Len(todo) = Len(FreeRanges) - n + 1
         /\ \A i \in 2..Len(todo) : todo[i] = FreeRanges[n + i - 1]
         /\ todo[1].end = FreeRanges[n].end
         /\ todo[1].begin \in FreeRanges[n].begin .. FreeRanges[n].end - 1
  BY SetupAt
<1> DEFINE begin == todo[1].begin
           end == todo[1].end
           size == 2^k
           behind == begin + size
           r == [todo[1] EXCEPT !.begin = @ + 2^k]
<1>3. /\ begin \in Nat /\ end \in Nat /\ begin < end
      /\ FreeRanges[n].begin <= begin
      /\ \A i \in 2..Len(todo) :
           /\ n + i - 1 \in DOMAIN FreeRanges
           /\ todo[i].begin \in Nat /\ todo[i].end \in Nat
           /\ todo[i].begin < todo[i].end
      /\ \A t : t \in Buddy!Unfreed <=>
           \/ t \in begin .. end - 1
           \/ \E i \in 2..Len(todo) : t \in todo[i].begin .. todo[i].end - 1
      /\ \A t \in begin .. end - 1, i \in 2..Len(todo) :
           t \notin todo[i].begin .. todo[i].end - 1
  BY <1>2, SetupRange
<1>4. size \in Nat \ {0} /\ k \in 0..MAX_ORDER + 1
  <2>1. k \in 0..MAX_ORDER + 1
    BY Power
  <2> QED BY <2>1, Power
<1>5. \A t : t \in Buddy!Pages(<<begin, k>>) <=> t \in Nat /\ begin <= t /\ t < behind
  BY <1>3, <1>4, BlockPages
<1>6. FreeRanges[n].begin \in Nat /\ FreeRanges[n].end \in Nat
      /\ Len(FreeRanges) \in Nat /\ n \in 1..Len(FreeRanges)
  BY FreeRangesApart
<1>7. r \in Buddy!PageRange /\ r.begin = behind /\ r.end = end
  <2> DEFINE a == todo[1]
  <2>1. a \in [begin : Nat, end : Nat]
    BY <1>1 DEF Buddy!PageRange
  <2>2. behind \in Nat /\ a.begin + 2^k = behind /\ a.end = end
    BY <1>3, <1>4
  <2> HIDE DEF a, behind, end
  <2>3. [a EXCEPT !.begin = @ + 2^k] = [begin |-> a.begin + 2^k, end |-> a.end]
    BY <2>1
  <2>4. r = [begin |-> behind, end |-> end]
    BY <2>2, <2>3 DEF a
  <2> QED BY <2>2, <2>4, <1>3 DEF Buddy!PageRange
<1>8. todo' = IF behind = end THEN Tail(todo) ELSE <<r>> \o Tail(todo)
  BY DEF GoesOn
<1>9. behind <= end /\ behind \in Nat /\ begin < behind
  BY <1>3, <1>4
<1>10. end = FreeRanges[n].end /\ todo[1].begin = begin /\ todo[1].end = end
  BY <1>2
<1>11. ASSUME NEW t, t \in begin .. end - 1 PROVE t \in Buddy!Available
  <2>1. t \in FreeRanges[n].begin .. FreeRanges[n].end - 1
    BY <1>3, <1>6, <1>10, <1>11
  <2> QED BY <2>1, RangePages
<1> HIDE DEF begin, end, size, behind, r
<1>12. CASE behind = end
  <2>1. /\ todo' = Tail(todo) /\ Len(todo') = Len(todo) - 1
        /\ \A i \in 1..Len(todo) - 1 : todo'[i] = todo[i + 1]
    BY <1>1, <1>8, <1>12, HeadTailProperties
  <2>2. todo' \in Seq(Buddy!PageRange) /\ DOMAIN todo' = 1..Len(todo')
    BY <1>1, <2>1, TailQueue
  <2>3. \A t : t \in Buddy!Unfreed' <=>
                \E i \in 2..Len(todo) : t \in todo[i].begin .. todo[i].end - 1
    <3>1. ASSUME NEW t, t \in Buddy!Unfreed'
          PROVE  \E i \in 2..Len(todo) : t \in todo[i].begin .. todo[i].end - 1
      <4>1. PICK i \in DOMAIN todo' : t \in todo'[i].begin .. todo'[i].end - 1
        BY <3>1, RangePages
      <4>2. i \in 1..Len(todo) - 1 /\ i + 1 \in 2..Len(todo)
        BY <2>1, <2>2, <1>1
      <4> QED BY <4>1, <4>2, <2>1
    <3>2. ASSUME NEW t, NEW i \in 2..Len(todo), t \in todo[i].begin .. todo[i].end - 1
          PROVE  t \in Buddy!Unfreed'
      <4>1. i - 1 \in DOMAIN todo' /\ i - 1 \in 1..Len(todo) - 1 /\ (i - 1) + 1 = i
        BY <2>1, <2>2, <1>1
      <4>2. todo'[i - 1] = todo[i]
        BY <4>1, <2>1
      <4> QED BY <4>1, <4>2, <3>2, RangePages
    <3> QED BY <3>1, <3>2
  <2>4. \A t : t \in begin .. end - 1 <=> t \in Buddy!Pages(<<begin, k>>)
    BY <1>3, <1>5, <1>9, <1>12
  <2>5. ASSUME todo' # << >>
        PROVE  /\ n + 1 \in DOMAIN FreeRanges
               /\ Len(todo') = Len(FreeRanges) - (n + 1) + 1
               /\ \A i \in 2..Len(todo') : todo'[i] = FreeRanges[(n + 1) + i - 1]
               /\ todo'[1] = FreeRanges[n + 1]
    <3>1. Len(todo') # 0 /\ Len(todo') \in Nat
      BY <2>2, <2>5, EmptySeq
    <3>2. 2 \in 2..Len(todo) /\ n + 2 - 1 = n + 1 /\ 1 \in 1..Len(todo) - 1 /\ 1 + 1 = 2
      BY <3>1, <2>1, <1>1, <1>6
    <3>3. n + 1 \in DOMAIN FreeRanges
      BY <3>2, <1>3
    <3>4. todo'[1] = FreeRanges[n + 1]
      BY <3>2, <2>1, <1>2
    <3>5. Len(todo') = Len(FreeRanges) - (n + 1) + 1
      BY <2>1, <1>1, <1>2, <1>6
    <3>6. ASSUME NEW i \in 2..Len(todo') PROVE todo'[i] = FreeRanges[(n + 1) + i - 1]
      <4>1. i \in 1..Len(todo) - 1 /\ i + 1 \in 2..Len(todo)
            /\ n + (i + 1) - 1 = (n + 1) + i - 1
        BY <1>1, <1>6, <2>1
      <4> QED BY <4>1, <2>1, <1>2
    <3> QED BY <3>3, <3>4, <3>5, <3>6
  <2>6. ASSUME todo' # << >> PROVE todo'[1].begin - 1 \notin Buddy!Available
    <3> DEFINE m == n + 1
               t == FreeRanges[m].begin - 1
    <3>1. m \in DOMAIN FreeRanges /\ todo'[1] = FreeRanges[m]
      BY <2>5, <2>6
    <3>2. FreeRanges[m].begin \in Nat /\ FreeRanges[m].begin < FreeRanges[m].end
          /\ FreeRanges[m].end \in Nat
      BY <3>1, FreeRangesApart
    <3> HIDE DEF m
    <3>3. t \in Int /\ t + 1 = FreeRanges[m].begin /\ FreeRanges[m].begin \in Int
          /\ FreeRanges[m].begin <= FreeRanges[m].begin
      BY <3>2
    <3> SUFFICES ASSUME t \in Buddy!Available PROVE FALSE
      BY <3>1
    <3> HIDE DEF t
    <3>4. PICK i \in DOMAIN FreeRanges : t \in FreeRanges[i].begin .. FreeRanges[i].end - 1
      BY RangePages
    <3>5. FreeRanges[i].begin \in Nat /\ FreeRanges[i].end \in Nat
      BY FreeRangesApart
    <3>6. FreeRanges[i].begin <= t /\ t < FreeRanges[i].end
      BY <3>3, <3>4, <3>5
    <3>7. i = m
      BY <3>1, <3>2, <3>3, <3>6, FreeRangesApart
    <3> QED BY <3>6, <3>7, <3>3
  <2>7. \A t : t \in Buddy!Unfreed' <=>
                 t \in Buddy!Unfreed /\ t \notin Buddy!Pages(<<begin, k>>)
    BY <2>3, <2>4, <1>3
  <2>8. ASSUME todo' # << >>
        PROVE  \E m \in DOMAIN FreeRanges :
                 /\ Len(todo') = Len(FreeRanges) - m + 1
                 /\ \A i \in 2..Len(todo') : todo'[i] = FreeRanges[m + i - 1]
                 /\ todo'[1].end = FreeRanges[m].end
                 /\ todo'[1].begin \in FreeRanges[m].begin .. FreeRanges[m].end - 1
    <3> DEFINE m == n + 1
    <3>1. /\ m \in DOMAIN FreeRanges
          /\ Len(todo') = Len(FreeRanges) - m + 1
          /\ \A i \in 2..Len(todo') : todo'[i] = FreeRanges[m + i - 1]
          /\ todo'[1] = FreeRanges[m]
      BY <2>5, <2>8
    <3> HIDE DEF m
    <3>2. FreeRanges[m].begin \in Nat /\ FreeRanges[m].end \in Nat
          /\ FreeRanges[m].begin < FreeRanges[m].end
      BY <3>1, FreeRangesApart
    <3>3. todo'[1].begin \in FreeRanges[m].begin .. FreeRanges[m].end - 1
      BY <3>1, <3>2
    <3> QED BY <3>1, <3>3
  <2> QED BY <2>4, <2>6, <2>7, <2>8, <1>3, <1>11 DEF begin
<1>13. CASE behind # end
  <2>1. /\ todo' = <<r>> \o Tail(todo) /\ Len(todo') = Len(todo)
        /\ todo'[1] = r /\ \A i \in 2..Len(todo) : todo'[i] = todo[i]
    <3>1. todo' = <<r>> \o Tail(todo)
      BY <1>8, <1>13
    <3>2. /\ Len(<<r>> \o Tail(todo)) = Len(todo) /\ (<<r>> \o Tail(todo))[1] = r
          /\ \A i \in 2..Len(todo) : (<<r>> \o Tail(todo))[i] = todo[i]
      BY <1>1, <1>7, NewHead
    <3> QED BY <3>1, <3>2, Zenon
  <2>2. DOMAIN todo' = 1..Len(todo)
    <3>1. Tail(todo) \in Seq(Buddy!PageRange)
      BY <1>1, TailQueue
    <3>2. todo' \in Seq(Buddy!PageRange)
      BY <3>1, <2>1, <1>7, PrependQueue
    <3> QED BY <3>2, <2>1
  <2>3. behind < end
    BY <1>3, <1>9, <1>13
  <2>4. \A i : i \in DOMAIN todo' <=> i = 1 \/ i \in 2..Len(todo)
    BY <2>2, <1>1
  <2>5. \A t : t \in Buddy!Unfreed' <=>
           \/ t \in behind .. end - 1
           \/ \E i \in 2..Len(todo) : t \in todo[i].begin .. todo[i].end - 1
    <3>1. \A t : t \in Buddy!Unfreed' <=>
             \E i \in DOMAIN todo' : t \in todo'[i].begin .. todo'[i].end - 1
      BY RangePages
    <3>2. todo'[1].begin = behind /\ todo'[1].end = end
      BY <2>1, <1>7
    <3> QED BY <3>1, <3>2, <2>1, <2>4
  <2>6. \A t : t \in Buddy!Pages(<<begin, k>>) => t \in begin .. end - 1
    BY <1>3, <1>5, <1>9
  <2>7. \A t : t \in behind .. end - 1 <=>
                 t \in begin .. end - 1 /\ t \notin Buddy!Pages(<<begin, k>>)
    <3>1. ASSUME NEW t
          PROVE  t \in behind .. end - 1 <=> /\ t \in begin .. end - 1
                                           /\ ~(t \in Nat /\ begin <= t /\ t < behind)
      BY <1>3, <1>9
    <3> QED BY <3>1, <1>5
  <2>8. \A t : t \in Buddy!Unfreed' <=>
                 t \in Buddy!Unfreed /\ t \notin Buddy!Pages(<<begin, k>>)
    BY <2>5, <2>6, <2>7, <1>3
  <2>9. todo'[1].begin = behind /\ todo'[1].end = end
    BY <2>1, <1>7
  <2>10. /\ Len(todo') = Len(FreeRanges) - n + 1
         /\ \A i \in 2..Len(todo') : todo'[i] = FreeRanges[n + i - 1]
         /\ todo'[1].end = FreeRanges[n].end
         /\ todo'[1].begin \in FreeRanges[n].begin .. FreeRanges[n].end - 1
    BY <2>1, <2>3, <2>9, <1>2, <1>3, <1>6, <1>9, <1>10, SMTT(30)
  <2>11. behind = todo[1].begin + 2^k /\ end = todo[1].end
    BY DEF behind, size, begin, end
  <2> QED BY <2>6, <2>8, <2>9, <2>10, <2>11, <1>3, <1>11 DEF begin
<1> QED BY <1>12, <1>13

\* The block that buddy_setup frees has no free buddy: the pages behind it are
\* still to be freed or in no range, and one before it would have been larger.
LEMMA NoBuddyYet ==
  ASSUME Buddy!Assumption, Buddy!IInv, todo # << >>, NEW k \in 0..MAX_ORDER,
         k < MAX_ORDER, todo[1].begin % 2^k = 0,
         todo[1].begin + 2^k <= todo[1].end, NEW c \in Buddy!FreeBlocks,
         c[2] = k, c[1] = Buddy!Flip(todo[1].begin, k)
  PROVE  FALSE
<1> DEFINE begin == todo[1].begin
           end == todo[1].end
           size == 2^k
           f == Buddy!Flip(begin, k)
<1>1. PICK n \in DOMAIN FreeRanges :
         /\ Len(todo) = Len(FreeRanges) - n + 1
         /\ \A i \in 2..Len(todo) : todo[i] = FreeRanges[n + i - 1]
         /\ end = FreeRanges[n].end
         /\ todo[1].begin \in FreeRanges[n].begin .. FreeRanges[n].end - 1
  BY SetupAt
<1>2. /\ begin \in Nat /\ end \in Nat /\ begin < end
      /\ FreeRanges[n].begin <= begin
      /\ \A t : t \in begin .. end - 1 => t \in Buddy!Unfreed
  BY <1>1, SetupRange
<1>3. size \in Nat \ {0} /\ k \in 0..MAX_ORDER + 1 /\ 2^(k + 1) = size + size
  <2>1. k \in 0..MAX_ORDER + 1
    BY Power
  <2> QED BY <2>1, Power
<1>4. begin + size <= end /\ c[1] = f
  OBVIOUS
<1>5. /\ f \in Nat
      /\ \/ f = begin + size
         \/ begin = f + size /\ f % 2^(k + 1) = 0 /\ f % 2^k = 0
  BY <1>2, FlipIs
<1>6. f \in Buddy!Pages(c)
  BY <1>4, BlockPlace
<1>7. f \in Buddy!Available /\ f \notin Buddy!Unfreed
  BY <1>6, BlocksAvailable
<1>8. Buddy!Largest(c, end) \/ c[1] + 2^c[2] # begin
  BY SetupAt
<1>9. 2^c[2] = size /\ 2^(c[2] + 1) = size + size
  BY <1>3
<1> HIDE DEF begin, end, f
<1>10. CASE f = begin + size
  <2>1. f = end
    BY <1>2, <1>3, <1>4, <1>7, <1>10
  <2>2. PICK i \in DOMAIN FreeRanges : f \in FreeRanges[i].begin .. FreeRanges[i].end - 1
    BY <1>7, RangePages
  <2>3. /\ FreeRanges[i].begin \in Nat /\ FreeRanges[i].end \in Nat
        /\ FreeRanges[n].begin \in Nat /\ FreeRanges[n].end \in Nat
    BY FreeRangesApart
  <2>4. f \in Int /\ FreeRanges[i].begin <= f /\ f < FreeRanges[i].end
    BY <1>5, <2>2, <2>3
  <2> DEFINE u == end - 1
  <2>5. u \in Int /\ FreeRanges[n].begin <= u /\ u < FreeRanges[n].end /\ u + 1 = f
    <3>1. end = FreeRanges[n].end
      BY <1>1
    <3>2. u \in Int /\ u + 1 = f /\ u < end
      BY <1>2, <2>1
    <3>3. FreeRanges[n].begin <= u
      BY <1>2, <2>3
    <3> QED BY <3>1, <3>2, <3>3
  <2> HIDE DEF u
  <2>6. n = i
    BY <2>4, <2>5, FreeRangesApart
  <2>7. f < FreeRanges[n].end
    BY <2>4, <2>6
  <2> QED BY <2>1, <2>3, <2>7, <1>1, <1>2
<1>11. CASE begin = f + size /\ f % 2^(k + 1) = 0 /\ f % 2^k = 0
  <2>1. (f \div 2^k) % 2 = 0
    BY <1>5, <1>11, NextBit
  <2>2. Buddy!Largest(c, end)
    BY <1>8, <1>9, <1>4, <1>11
  <2>3. (c[1] \div 2^c[2]) % 2 = 0
    BY <2>1, <1>4
  <2>4. c[1] + 2^(c[2] + 1) = begin + size
    BY <1>9, <1>4, <1>11, <1>5, <1>3
  <2> HIDE DEF size
  <2>5. c[1] + 2^(c[2] + 1) > end
    BY <2>2, <2>3 DEF Buddy!Largest
  <2> QED BY <2>4, <2>5, <1>2, <1>3, <1>4
<1> QED BY <1>5, <1>10, <1>11

\* buddy_zone_free: pages that were to be freed are in a free block.
LEMMA ZoneFreeKeeps ==
  ASSUME Buddy!Assumption, Buddy!IInv, Buddy!ZoneFree
  PROVE  /\ Buddy!IInv' /\ held' = held
         /\ (Buddy!FreePages \cup Buddy!Unfreed)' = Buddy!FreePages \cup Buddy!Unfreed
<1> DEFINE begin == todo[1].begin
           end == todo[1].end
<1>1. todo # << >> /\ held = {} /\ held' = held /\ call' = call
      /\ \A c \in Proc : call[c] = Buddy!Idle
  BY ZoneFreeStep, SetupAt DEF Buddy!ZoneFree
<1>2. PICK z \in DOMAIN Zones, k \in 0..MAX_ORDER :
              /\ begin % 2^k = 0
              /\ begin + 2^k <= end
              /\ Buddy!Largest(<<begin, k>>, end)
              /\ begin .. end - 1 \subseteq Buddy!PagesOf(z)
              /\ border' = [border EXCEPT ![begin] = k]
              /\ isfree' = [isfree EXCEPT ![begin] = TRUE]
              /\ Buddy!TypeOK'
              /\ \A y \in DOMAIN Zones : \A b :
                   b \in Buddy!FreeBlocksOf(y)' <=>
                     \/ b \in Buddy!FreeBlocksOf(y)
                     \/ y = z /\ b = <<begin, k>>
              /\ \A b : b \in Buddy!FreeBlocks' <=>
                          \/ b \in Buddy!FreeBlocks
                          \/ b = <<begin, k>>
              /\ \A y \in DOMAIN Zones, j \in Buddy!Order :
                   Buddy!IsInjective(order'[y][j])
              /\ GoesOn(k)
  BY ZoneFreeStep DEF GoesOn
<1> DEFINE new == <<begin, k>>
<1>3. /\ \A t \in Buddy!Pages(new) : t \in Buddy!Unfreed /\ t \in Buddy!Available
      /\ \A t : t \in Buddy!Unfreed' <=>
                     t \in Buddy!Unfreed /\ t \notin Buddy!Pages(new)
      /\ todo' # << >> =>
              /\ \E n \in DOMAIN FreeRanges :
                   /\ Len(todo') = Len(FreeRanges) - n + 1
                   /\ \A i \in 2..Len(todo') : todo'[i] = FreeRanges[n + i - 1]
                   /\ todo'[1].end = FreeRanges[n].end
                   /\ todo'[1].begin \in FreeRanges[n].begin .. FreeRanges[n].end - 1
              /\ \/ todo'[1].begin = begin + 2^k /\ todo'[1].end = end
                 \/ todo'[1].begin - 1 \notin Buddy!Available
  BY <1>1, <1>2, ZoneFreeRanges
<1>4. /\ begin \in Nat /\ end \in Nat /\ begin < end
  BY <1>1, SetupAt, SetupRange
<1>5. 2^k \in Nat \ {0} /\ k \in 0..MAX_ORDER + 1
  <2>1. k \in 0..MAX_ORDER + 1
    BY Power
  <2> QED BY <2>1, Power
<1>6. /\ \A t : t \in Buddy!Pages(new) <=> t \in Nat /\ begin <= t /\ t < begin + 2^k
      /\ begin \in Buddy!Pages(new)
      /\ Buddy!Aligned(new)
  BY <1>2, <1>4, <1>5, BlockPages
<1>7. new[1] = begin /\ new[2] = k
  OBVIOUS
<1>8. \A b \in Buddy!FreeBlocks \cup held : \A t \in Buddy!Pages(b) :
         t \in Buddy!Available /\ t \notin Buddy!Unfreed /\ t \notin Buddy!Pages(new)
  BY <1>3, BlocksAvailable
<1>9. \A b : b \in Buddy!FreeBlocks' <=> b \in Buddy!FreeBlocks \/ b = new
  BY <1>2
<1>10. Buddy!Largest(new, end)
  BY <1>2
<1>11. \A b \in Buddy!FreeBlocks : b[1] # begin /\ b[1] \in Buddy!Pages(b)
  BY <1>6, <1>8, BlockPlace
<1>12. /\ begin \in Buddy!Page /\ \A p \in Buddy!Page : p \in Nat
       /\ \A t \in Buddy!Pages(new) : t \in Buddy!PagesOf(z)
  <2>1. \A t \in Buddy!Pages(new) : t \in begin .. end - 1
    BY <1>2, <1>4, <1>5, <1>6
  <2> QED BY <2>1, <1>2, <1>6, ZonesApart, BuddyBlocks DEF Buddy!IInv
<1>13. /\ isfree \in [Buddy!Page -> BOOLEAN] /\ border \in [Buddy!Page -> Buddy!Order]
  BY DEF Buddy!IInv, Buddy!TypeOK
<1>14. /\ isfree'[begin] /\ border'[begin] = k
       /\ \A p \in Buddy!Page : p # begin => isfree'[p] = isfree[p] /\ border'[p] = border[p]
  BY <1>2, <1>12, <1>13
<1>15. \A y \in DOMAIN Zones : \A b : b \in Buddy!FreeBlocksOf(y)' <=>
                     b \in Buddy!FreeBlocksOf(y) \/ (y = z /\ b = new)
  BY <1>2
<1>16. \A c \in Buddy!FreeBlocks : k < MAX_ORDER /\ c[2] = k => c[1] # Buddy!Flip(begin, k)
  BY <1>1, <1>2, NoBuddyYet
<1>17. k < MAX_ORDER => Buddy!Flip(begin, k) # begin
  BY <1>2, <1>4, FlipIs
<1>18. \A y \in DOMAIN Zones, j \in Buddy!Order : Buddy!IsInjective(order'[y][j])
  BY <1>2
<1>19. Buddy!TypeOK'
  BY <1>2
<1> HIDE DEF new, begin, end
<1>20. Buddy!Partition'
  <2>1. ASSUME NEW a \in (Buddy!FreeBlocks \cup held)', NEW b \in (Buddy!FreeBlocks \cup held)',
               a # b
        PROVE  Buddy!Pages(a) \cap Buddy!Pages(b) = {}
    <3>1. (a = new \/ a \in Buddy!FreeBlocks) /\ (b = new \/ b \in Buddy!FreeBlocks)
      BY <1>1, <1>9
    <3>2. a \in Buddy!FreeBlocks /\ b \in Buddy!FreeBlocks => Buddy!Pages(a) \cap Buddy!Pages(b) = {}
      BY <2>1 DEF Buddy!IInv, Buddy!Partition
    <3> QED BY <2>1, <3>1, <3>2, <1>8
  <2>2. \A t : (\E b \in Buddy!FreeBlocks \cup held : t \in Buddy!Pages(b)) <=>
                 t \in Buddy!Available /\ t \notin Buddy!Unfreed
    BY DEF Buddy!IInv, Buddy!Partition
  <2>3. \A t : (\E b \in (Buddy!FreeBlocks \cup held)' : t \in Buddy!Pages(b)) <=>
                 t \in Buddy!Available /\ t \notin Buddy!Unfreed'
    <3>1. \A t : (\E b \in (Buddy!FreeBlocks \cup held)' : t \in Buddy!Pages(b)) <=>
                   \/ \E b \in Buddy!FreeBlocks \cup held : t \in Buddy!Pages(b)
                   \/ t \in Buddy!Pages(new)
      BY <1>1, <1>9
    <3> QED BY <3>1, <2>2, <1>3
  <2>4. (UNION {Buddy!Pages(b) : b \in Buddy!FreeBlocks \cup held})'
          = (Buddy!Available \ Buddy!Unfreed)'
    <3>1. Buddy!Available' = Buddy!Available
      BY DEF Buddy!Available
    <3> QED BY <2>3, <3>1
  <2>5. (Buddy!FreeBlocks \cap held)' = {}
    BY <1>1
  <2> QED BY <2>1, <2>4, <2>5, <1>18 DEF Buddy!Partition
<1>21. Buddy!Placed'
  <2>1. \A b \in (Buddy!FreeBlocks \cup held)' : Buddy!Aligned(b)
    BY <1>1, <1>6, <1>9 DEF Buddy!IInv, Buddy!Placed
  <2>2. \A y \in DOMAIN Zones : \A b \in Buddy!FreeBlocksOf(y)' :
           Buddy!Pages(b) \subseteq Buddy!PagesOf(y)
    BY <1>12, <1>15 DEF Buddy!IInv, Buddy!Placed
  <2> QED BY <2>1, <2>2, <1>1 DEF Buddy!Placed
<1>22. Buddy!FlagsOK'
  <2>1. ASSUME NEW b \in Buddy!FreeBlocks' PROVE isfree'[b[1]] /\ border'[b[1]] = b[2]
    <3>1. CASE b = new
      BY <3>1, <1>7, <1>14
    <3>2. CASE b \in Buddy!FreeBlocks
      <4>1. isfree[b[1]] /\ border[b[1]] = b[2] /\ b[1] \in Buddy!Page
        BY <3>2, BuddyBlocks DEF Buddy!IInv, Buddy!FlagsOK
      <4> QED BY <4>1, <3>2, <1>11, <1>14
    <3> QED BY <3>1, <3>2, <1>9
  <2>2. ASSUME NEW p \in Buddy!Page, isfree'[p]
        PROVE  /\ Buddy!Aligned(<<p, border'[p]>>)
               /\ \/ <<p, border'[p]>> \in Buddy!FreeBlocks'
                  \/ \E b \in (Buddy!FreeBlocks \cup held)' :
                        p \in Buddy!Pages(b) /\ border'[p] < b[2]
    <3>1. CASE p = begin
      <4>1. <<p, border'[p]>> = new
        BY <3>1, <1>14 DEF new
      <4> QED BY <4>1, <1>6, <1>9
    <3>2. CASE p # begin
      <4>1. isfree[p] /\ border'[p] = border[p]
        BY <2>2, <3>2, <1>14
      <4>2. /\ Buddy!Aligned(<<p, border[p]>>)
            /\ \/ <<p, border[p]>> \in Buddy!FreeBlocks
               \/ \E b \in Buddy!FreeBlocks \cup held : p \in Buddy!Pages(b) /\ border[p] < b[2]
        BY <4>1 DEF Buddy!IInv, Buddy!FlagsOK
      <4> QED BY <4>1, <4>2, <1>1, <1>9
    <3> QED BY <3>1, <3>2
  <2> QED BY <2>1, <2>2 DEF Buddy!FlagsOK
<1>23. Buddy!Coalesced'
  <2> SUFFICES ASSUME NEW b \in Buddy!FreeBlocks', b[2] < MAX_ORDER,
                      <<Buddy!Flip(b[1], b[2]), b[2]>> \in Buddy!FreeBlocks'
               PROVE  FALSE
    BY DEF Buddy!Coalesced
  <2> DEFINE c == <<Buddy!Flip(b[1], b[2]), b[2]>>
  <2>1. c[1] = Buddy!Flip(b[1], b[2]) /\ c[2] = b[2]
    OBVIOUS
  <2>2. c = new \/ c \in Buddy!FreeBlocks
    BY <1>9
  <2>3. ~(b \in Buddy!FreeBlocks /\ c \in Buddy!FreeBlocks)
    BY DEF Buddy!IInv, Buddy!Coalesced
  <2> HIDE DEF c
  <2>4. CASE b = new
    BY <2>1, <2>2, <2>4, <1>7, <1>16, <1>17
  <2>5. CASE b \in Buddy!FreeBlocks /\ c = new
    <3>1. b[1] \in Nat /\ b[1] % 2^b[2] = 0 /\ b[2] \in 0..MAX_ORDER
      BY <2>5, BlockPlace
    <3>2. Buddy!Flip(Buddy!Flip(b[1], b[2]), b[2]) = b[1]
      BY <3>1, FlipIs
    <3>3. b[2] = k /\ b[1] = Buddy!Flip(begin, k)
      BY <2>1, <2>5, <3>2, <1>7
    <3> QED BY <2>5, <3>3, <1>16
  <2> QED BY <2>2, <2>3, <2>4, <2>5, <1>9
<1>24. Buddy!SetupOK'
  <2> SUFFICES ASSUME todo' # << >>, NEW b \in Buddy!FreeBlocks',
                      b[1] + 2^b[2] = todo'[1].begin
               PROVE  Buddy!Largest(b, todo'[1].end)
    BY <1>1, <1>3 DEF Buddy!SetupOK, Buddy!Idle
  <2>1. /\ b[1] \in Nat /\ 2^b[2] \in Nat \ {0}
        /\ \A t : t \in Buddy!Pages(b) <=> t \in Nat /\ b[1] <= t /\ t < b[1] + 2^b[2]
    <3>1. CASE b = new
      BY <3>1, <1>4, <1>5, <1>6, <1>7
    <3>2. CASE b \in Buddy!FreeBlocks
      BY <3>2, BlockPlace
    <3> QED BY <3>1, <3>2, <1>9
  <2> DEFINE last == b[1] + 2^b[2] - 1
  <2>2. last \in Buddy!Pages(b) /\ last = todo'[1].begin - 1
    BY <2>1
  <2>3. last \in Buddy!Available
    BY <2>2, <1>3, <1>8, <1>9
  <2>4. todo'[1].begin = begin + 2^k /\ todo'[1].end = end
    BY <1>3, <2>2, <2>3
  <2>5. last \in Buddy!Pages(new)
    <3>1. b[1] + 2^b[2] = begin + 2^k
      BY <2>4
    <3>2. last = begin + 2^k - 1
      BY <3>1, <2>1, <1>4, <1>5
    <3> HIDE DEF last
    <3> QED BY <3>2, <1>4, <1>5, <1>6
  <2>6. b = new
    BY <2>2, <2>5, <1>8, <1>9
  <2> QED BY <2>4, <2>6, <1>10
<1>25. (Buddy!FreePages \cup Buddy!Unfreed)' = Buddy!FreePages \cup Buddy!Unfreed
  <2>1. \A t : t \in Buddy!FreePages' <=> t \in Buddy!FreePages \/ t \in Buddy!Pages(new)
    BY <1>9 DEF Buddy!FreePages
  <2> QED BY <2>1, <1>3
<1> QED BY <1>1, <1>19, <1>20, <1>21, <1>22, <1>23, <1>24, <1>25 DEF Buddy!IInv

\* buddy_alloc: the right half of a block of a larger order.
LEMMA Half ==
  ASSUME Buddy!Assumption, NEW m \in 0..MAX_ORDER, NEW idx \in Nat, idx % 2^m = 0,
         NEW j \in 0..m - 1
  PROVE  /\ Buddy!Flip(idx, j) = idx + 2^j
         /\ Buddy!Flip(idx, j) \in Nat /\ Buddy!Flip(idx, j) % 2^j = 0
         /\ Buddy!Flip(Buddy!Flip(idx, j), j) = idx
         /\ idx < Buddy!Flip(idx, j)
         /\ Buddy!Flip(idx, j) + 2^j = idx + 2^(j + 1)
         /\ Buddy!Flip(idx, j) + 2^j <= idx + 2^m
<1>1. /\ j \in 0..MAX_ORDER /\ j + 1 \in 0..m /\ m \in 0..MAX_ORDER + 1
      /\ j \in 0..m /\ j < m
  BY Power
<1>2. idx % 2^(j + 1) = 0 /\ idx % 2^j = 0
  BY <1>1, AlignedDown
<1> DEFINE f == Buddy!Flip(idx, j)
           h == 2^j
           g == 2^(j + 1)
           w == 2^m
<1>3. h \in Nat \ {0} /\ g = h + h /\ w \in Nat /\ h + h <= w
  <2>1. j \in 0..MAX_ORDER + 1
    BY <1>1, Power
  <2> QED BY <1>1, <2>1, Power, PowerDivides
<1>4. (idx \div 2^j) % 2 = 0
  BY <1>1, <1>2, NextBit
<1>5. f \in Nat /\ f % 2^j = 0 /\ Buddy!Flip(f, j) = idx /\ f = idx + h
  BY <1>1, <1>2, <1>4, FlipIs
<1> HIDE DEF f, h, g, w
<1>6. idx < f /\ f + h = idx + g /\ f + h <= idx + w
  BY <1>3, <1>5
<1> QED BY <1>5, <1>6 DEF f, h, g, w

\* What a block is split into: the part that is given out and the right halves.
Pieces(idx, k, m) ==
  {<<idx, k>>} \cup {<<Buddy!Flip(idx, j), j>> : j \in k..m - 1}

\* A piece is an aligned block inside the one that is split.
LEMMA PieceIs ==
  ASSUME Buddy!Assumption, NEW m \in 0..MAX_ORDER, NEW k \in 0..m,
         NEW idx \in Nat, idx % 2^m = 0, NEW q \in Pieces(idx, k, m)
  PROVE  /\ q[1] \in Nat /\ q[2] \in k..m /\ q[2] \in 0..MAX_ORDER
         /\ q[1] % 2^q[2] = 0 /\ Buddy!Aligned(q)
         /\ q[1] \in Buddy!Pages(q)
         /\ \A t : t \in Buddy!Pages(q) <=> t \in Nat /\ q[1] <= t /\ t < q[1] + 2^q[2]
         /\ \A t \in Buddy!Pages(q) : t \in Buddy!Pages(<<idx, m>>)
<1>1. m \in 0..MAX_ORDER + 1 /\ k \in 0..MAX_ORDER
  BY Power
<1>2. \A t : t \in Buddy!Pages(<<idx, m>>) <=> t \in Nat /\ idx <= t /\ t < idx + 2^m
  BY <1>1, BlockPages
<1>3. CASE q = <<idx, k>>
  <2>1. q[1] = idx /\ q[2] = k
    BY <1>3
  <2>2. k \in 0..MAX_ORDER + 1 /\ 2^k <= 2^m /\ 2^k \in Nat /\ 2^m \in Nat
    BY <1>1, Power, PowerDivides
  <2>3. idx % 2^k = 0
    BY <1>1, AlignedDown
  <2>4. /\ \A t : t \in Buddy!Pages(q) <=> t \in Nat /\ idx <= t /\ t < idx + 2^k
        /\ idx \in Buddy!Pages(q) /\ Buddy!Aligned(q)
    BY <1>3, <2>2, <2>3, BlockPages
  <2>5. \A t \in Nat : t < idx + 2^k => t < idx + 2^m
    BY <2>2
  <2> QED BY <2>1, <2>3, <2>4, <2>5, <1>1, <1>2
<1>4. CASE \E j \in k..m - 1 : q = <<Buddy!Flip(idx, j), j>>
  <2>1. PICK j \in k..m - 1 : q = <<Buddy!Flip(idx, j), j>>
    BY <1>4
  <2> DEFINE f == Buddy!Flip(idx, j)
  <2>2. j \in 0..m - 1 /\ j \in k..m /\ j \in 0..MAX_ORDER /\ j \in 0..MAX_ORDER + 1
    <3>1. MAX_ORDER \in Nat
      BY Power
    <3>2. j \in 0..m - 1 /\ j \in k..m
      OBVIOUS
    <3> QED BY <3>1, <3>2
  <2>3. /\ f \in Nat /\ f % 2^j = 0 /\ idx < f /\ f + 2^j <= idx + 2^m
    BY <2>2, Half
  <2>4. q = <<f, j>> /\ q[1] = f /\ q[2] = j
    BY <2>1
  <2> HIDE DEF f
  <2>5. /\ \A t : t \in Buddy!Pages(q) <=> t \in Nat /\ f <= t /\ t < f + 2^j
        /\ f \in Buddy!Pages(q) /\ Buddy!Aligned(q)
    BY <2>2, <2>3, <2>4, BlockPages
  <2>6. 2^j \in Nat /\ 2^m \in Nat
    BY <1>1, <2>2, Power
  <2>7. \A t \in Nat : f <= t /\ t < f + 2^j => idx <= t /\ t < idx + 2^m
    BY <2>3, <2>6
  <2> QED BY <2>2, <2>3, <2>4, <2>5, <2>7, <1>2
<1> QED BY <1>3, <1>4 DEF Pieces

\* The pieces cover the block.
LEMMA PiecesCover ==
  ASSUME Buddy!Assumption, NEW m \in 0..MAX_ORDER, NEW k \in 0..m,
         NEW idx \in Nat, idx % 2^m = 0, NEW t \in Buddy!Pages(<<idx, m>>)
  PROVE  \E q \in Pieces(idx, k, m) : t \in Buddy!Pages(q)
<1>1. /\ m \in 0..MAX_ORDER + 1 /\ k \in 0..MAX_ORDER /\ k \in 0..MAX_ORDER + 1
      /\ MAX_ORDER \in Nat
  BY Power
<1>2. t \in Nat /\ idx <= t /\ t < idx + 2^m
  BY <1>1, BlockPages
<1> DEFINE T == {n \in k..m : t < idx + 2^n}
<1>3. PICK n \in T : \A y \in T : n <= y
  <2>1. T \in SUBSET Nat /\ m \in T
    BY <1>1, <1>2
  <2> QED BY <2>1, Least
<1>4. n \in k..m /\ t < idx + 2^n
  OBVIOUS
<1>5. CASE n = k
  <2>1. t \in Buddy!Pages(<<idx, k>>)
    BY <1>1, <1>2, <1>4, <1>5, BlockPages
  <2> QED BY <2>1 DEF Pieces
<1>6. CASE n # k
  <2> DEFINE j == n - 1
  <2>1. /\ j \in k..m - 1 /\ j \in 0..m - 1 /\ j + 1 = n /\ ~(n <= j) /\ j \in k..m
        /\ j \in 0..MAX_ORDER + 1
    BY <1>1, <1>4, <1>6
  <2>2. ~(t < idx + 2^j)
    <3>1. j \notin T
      BY <1>3, <2>1
    <3> QED BY <3>1, <2>1
  <2> HIDE DEF j, T
  <2> DEFINE f == Buddy!Flip(idx, j)
             h == 2^j
             q == <<f, j>>
  <2>3. f = idx + h /\ f \in Nat /\ f + h = idx + 2^n
    BY <2>1, Half
  <2>4. h \in Nat
    BY <2>1, Power
  <2>5. f <= t /\ t < f + h
    <3>1. ~(t < f)
      BY <2>2, <2>3
    <3>2. t < f + h
      BY <1>4, <2>3
    <3> HIDE DEF f
    <3> QED BY <3>1, <3>2, <2>3, <1>2
  <2>6. t \in Buddy!Pages(q)
    <3> HIDE DEF f
    <3> QED BY <2>1, <2>3, <2>5, <1>2, BlockPages
  <2>7. q \in Pieces(idx, k, m)
    BY <2>1 DEF Pieces
  <2> HIDE DEF q
  <2> QED BY <2>6, <2>7
<1> QED BY <1>5, <1>6

\* They do not overlap.
LEMMA PiecesApart ==
  ASSUME Buddy!Assumption, NEW m \in 0..MAX_ORDER, NEW k \in 0..m,
         NEW idx \in Nat, idx % 2^m = 0, NEW p \in Pieces(idx, k, m),
         NEW q \in Pieces(idx, k, m), NEW t \in Buddy!Pages(p), t \in Buddy!Pages(q)
  PROVE  p = q
<1>1. MAX_ORDER \in Nat
  BY Power
\* A half and a piece of smaller order.
<1>2. ASSUME NEW a \in Pieces(idx, k, m), NEW j \in k..m - 1,
             a = <<idx, k>> \/ \E i \in k..j - 1 : a = <<Buddy!Flip(idx, i), i>>,
             t \in Buddy!Pages(a), t \in Buddy!Pages(<<Buddy!Flip(idx, j), j>>)
      PROVE  FALSE
  <2> DEFINE f == Buddy!Flip(idx, j)
             h == 2^j
  <2>1. j \in 0..m - 1 /\ j \in 0..MAX_ORDER + 1
    BY <1>1
  <2>2. f = idx + h /\ f \in Nat /\ h \in Nat
    BY <2>1, Half, Power
  <2>3. f <= t /\ t \in Nat
    <3> HIDE DEF f
    <3>1. t \in Buddy!Pages(<<f, j>>)
      BY <1>2 DEF f
    <3> QED BY <3>1, <2>1, <2>2, BlockPages
  <2>4. t < a[1] + 2^a[2]
    BY <1>2, PieceIs
  <2>5. a[1] + 2^a[2] <= idx + h
    <3>1. CASE a = <<idx, k>>
      <4>1. k \in 0..j /\ 2^k <= h
        BY <2>1, PowerDivides
      <4>2. a[1] = idx /\ a[2] = k
        BY <3>1
      <4>3. 2^k \in Nat
        <5>1. k \in 0..MAX_ORDER + 1
          BY <1>1
        <5> QED BY <5>1, Power
      <4> HIDE DEF h
      <4> QED BY <4>1, <4>2, <4>3, <2>2
    <3>2. CASE \E i \in k..j - 1 : a = <<Buddy!Flip(idx, i), i>>
      <4>1. PICK i \in k..j - 1 : a = <<Buddy!Flip(idx, i), i>>
        BY <3>2
      <4>2. i \in 0..m - 1 /\ i + 1 \in 0..j /\ i + 1 \in 0..MAX_ORDER + 1
        BY <1>1, <2>1
      <4>3. Buddy!Flip(idx, i) + 2^i = idx + 2^(i + 1)
        BY <4>2, Half
      <4>4. 2^(i + 1) <= h /\ 2^(i + 1) \in Nat
        BY <4>2, <2>1, PowerDivides, Power
      <4>5. a[1] = Buddy!Flip(idx, i) /\ a[2] = i
        BY <4>1
      <4>6. a[1] + 2^a[2] = idx + 2^(i + 1)
        BY <4>3, <4>5
      <4> HIDE DEF h
      <4> QED BY <4>4, <4>6, <2>2
    <3> QED BY <3>1, <3>2, <1>2
  <2>6. a[1] + 2^a[2] \in Int
    <3>1. a[1] \in Nat /\ a[2] \in 0..MAX_ORDER
      BY PieceIs
    <3>2. a[2] \in 0..MAX_ORDER + 1
      BY <1>1, <3>1
    <3>3. 2^a[2] \in Nat
      BY <3>2, Power
    <3> QED BY <3>1, <3>3
  <2> DEFINE e == a[1] + 2^a[2]
  <2> HIDE DEF f, h, e
  <2> QED BY <2>2, <2>3, <2>4, <2>5, <2>6 DEF e
<1>3. \A a \in Pieces(idx, k, m) :
         a = <<idx, k>> \/ \E j \in k..m - 1 : a = <<Buddy!Flip(idx, j), j>>
  BY DEF Pieces
<1>4. CASE p = <<idx, k>>
  BY <1>2, <1>3, <1>4
<1>5. CASE q = <<idx, k>>
  BY <1>2, <1>3, <1>5
<1>6. ASSUME NEW i \in k..m - 1, NEW j \in k..m - 1,
             p = <<Buddy!Flip(idx, i), i>>, q = <<Buddy!Flip(idx, j), j>>
      PROVE  p = q
  <2>1. i = j \/ i \in k..j - 1 \/ j \in k..i - 1
    OBVIOUS
  <2>2. CASE i = j
    BY <1>6, <2>2
  <2>3. CASE i \in k..j - 1
    BY <1>2, <1>6, <2>3
  <2>4. CASE j \in k..i - 1
    BY <1>2, <1>6, <2>4
  <2> QED BY <2>1, <2>2, <2>3, <2>4
<1> QED BY <1>3, <1>4, <1>5, <1>6

\* The step of buddy_alloc in terms of sets: one block less, halves in its place.
LEMMA AllocZoneStep ==
  ASSUME Buddy!Assumption, Buddy!IInv, NEW c \in Proc, Buddy!AllocZone(c)
  PROVE  /\ todo = << >> /\ todo' = todo
         /\ \E z \in DOMAIN Zones, m \in 0..MAX_ORDER : \E k \in 0..m, idx \in Nat :
              /\ <<idx, m>> \in Buddy!FreeBlocksOf(z) /\ idx % 2^m = 0
              /\ Buddy!TypeOK'
              /\ held' = held \cup {<<idx, k>>}
              /\ \A y \in DOMAIN Zones : \A b :
                   b \in Buddy!FreeBlocksOf(y)' <=>
                     \/ b \in Buddy!FreeBlocksOf(y) /\ b # <<idx, m>>
                     \/ y = z /\ \E j \in k..m - 1 : b = <<Buddy!Flip(idx, j), j>>
              /\ \A y \in DOMAIN Zones, j \in Buddy!Order :
                   Buddy!IsInjective(order'[y][j])
              /\ \A p \in Buddy!Page :
                   isfree'[p] <=> /\ p # idx
                                  /\ \/ isfree[p]
                                     \/ \E j \in k..m - 1 : p = Buddy!Flip(idx, j)
              /\ \A j \in k..m - 1 : border'[Buddy!Flip(idx, j)] = j
              /\ \A p \in Buddy!Page :
                   (\A j \in k..m - 1 : p # Buddy!Flip(idx, j)) => border'[p] = border[p]
<1>1. call[c] # Buddy!Idle /\ todo' = todo
  BY DEF Buddy!AllocZone
<1>2. todo = << >>
  BY <1>1, SetupAt
<1>3. /\ isfree \in [Buddy!Page -> BOOLEAN] /\ border \in [Buddy!Page -> Buddy!Order]
      /\ order \in [DOMAIN Zones -> [Buddy!Order -> Seq(Buddy!Page)]]
      /\ todo \in Seq(Buddy!PageRange)
      /\ call \in [Proc -> {Buddy!Idle} \cup ((DOMAIN Zones) \X Buddy!Order)]
      /\ held \subseteq Buddy!Page \X Buddy!Order
  BY DEF Buddy!IInv, Buddy!TypeOK
<1> DEFINE z == call[c][1]
           k == call[c][2]
<1>4. z \in DOMAIN Zones /\ k \in Buddy!Order
  BY <1>1, <1>3
<1>5. Buddy!Order = 0..MAX_ORDER /\ MAX_ORDER \in Nat
  BY Power DEF Buddy!Order
<1>6. PICK m \in k..MAX_ORDER :
          /\ order[z][m] # << >>
          /\ \A j \in k..m - 1 : order[z][j] = << >>
          /\ LET idx == Head(order[z][m])
                 half(j) == Buddy!Flip(idx, j)
                 halves == {half(j) : j \in k..m - 1}
             IN /\ isfree' = Buddy!FreeAfterSplit(idx, halves)
                /\ border' = [p \in Buddy!Page |->
                     IF p \in halves
                     THEN CHOOSE j \in k..m - 1 : half(j) = p
                     ELSE border[p]]
                /\ order' = [order EXCEPT ![z] = [j \in Buddy!Order |->
                     IF j = m THEN Tail(@[j])
                     ELSE IF j \in k..m - 1 THEN <<half(j)>> \o @[j]
                     ELSE @[j]]]
                /\ held' = held \cup {<<idx, k>>}
          /\ call' = [call EXCEPT ![c] = Buddy!Idle]
  BY DEF Buddy!AllocZone
<1> DEFINE idx == Head(order[z][m])
           halves == {Buddy!Flip(idx, j) : j \in k..m - 1}
           rest == order[z][m]
<1>7. /\ isfree' = Buddy!FreeAfterSplit(idx, halves)
      /\ border' = [p \in Buddy!Page |->
                     IF p \in halves
                     THEN CHOOSE j \in k..m - 1 : Buddy!Flip(idx, j) = p
                     ELSE border[p]]
      /\ order' = [order EXCEPT ![z] = [j \in Buddy!Order |->
                     IF j = m THEN Tail(order[z][j])
                     ELSE IF j \in k..m - 1 THEN <<Buddy!Flip(idx, j)>> \o order[z][j]
                     ELSE order[z][j]]]
      /\ held' = held \cup {<<idx, k>>}
      /\ call' = [call EXCEPT ![c] = Buddy!Idle]
  BY <1>6
<1>8. /\ m \in 0..MAX_ORDER /\ k \in 0..m /\ m \in Buddy!Order
      /\ \A j \in k..m - 1 : j \in 0..m - 1 /\ j \in Buddy!Order /\ j # m
      /\ \A j \in k..m - 1 : j \in 0..MAX_ORDER
  <2>1. k \in 0..MAX_ORDER /\ m \in k..MAX_ORDER
    BY <1>4, <1>5, <1>6
  <2> HIDE DEF k
  <2> QED BY <2>1, <1>5
<1>9. rest \in Seq(Buddy!Page) /\ rest # << >>
  BY <1>3, <1>4, <1>6, <1>8
<1>10. /\ idx \in Buddy!Page /\ idx \in ToSet(rest)
       /\ Tail(rest) \in Seq(Buddy!Page)
       /\ ToSet(rest) = ToSet(Tail(rest)) \cup {idx}
       /\ IsInjective(rest) => IsInjective(Tail(rest)) /\ idx \notin ToSet(Tail(rest))
  <2> HIDE DEF rest
  <2>1. idx = Head(rest)
    BY DEF rest
  <2> QED BY <2>1, <1>9, TailQueue
<1>11. \A y \in DOMAIN Zones, j \in Buddy!Order : IsInjective(order[y][j])
  BY BuddyQueue DEF Buddy!IInv, Buddy!Partition
<1>12. IsInjective(rest)
  BY <1>4, <1>8, <1>11
<1>13. /\ \A y, p, j : <<p, j>> \in Buddy!FreeBlocksOf(y) <=>
                           j \in Buddy!Order /\ p \in ToSet(order[y][j])
       /\ \A y \in DOMAIN Zones : \A b \in Buddy!FreeBlocksOf(y) : b = <<b[1], b[2]>>
       /\ \A b : b \in Buddy!FreeBlocks <=>
                     \E y \in DOMAIN Zones : b \in Buddy!FreeBlocksOf(y)
  BY BuddyBlocks DEF Buddy!IInv
<1> DEFINE old == <<idx, m>>
<1>14. old \in Buddy!FreeBlocksOf(z) /\ old \in Buddy!FreeBlocks
  BY <1>4, <1>8, <1>10, <1>13
<1>15. old[1] = idx /\ old[2] = m
  OBVIOUS
<1> HIDE DEF old
<1>16. /\ idx \in Nat /\ idx % 2^m = 0 /\ idx \in Buddy!Pages(old)
       /\ \A t : t \in Buddy!Pages(old) <=> t \in Nat /\ idx <= t /\ t < idx + 2^m
       /\ 2^m \in Nat
  BY <1>14, <1>15, BlockPlace
<1>17. \A t \in Buddy!Pages(old) : t \in Buddy!PagesOf(z)
  BY <1>4, <1>14 DEF Buddy!IInv, Buddy!Placed
<1> HIDE DEF z, k, idx, rest
<1>18. ASSUME NEW j \in k..m - 1
       PROVE  /\ Buddy!Flip(idx, j) = idx + 2^j /\ Buddy!Flip(idx, j) \in Nat
              /\ Buddy!Flip(idx, j) \in Buddy!Pages(old)
              /\ Buddy!Flip(idx, j) \in Buddy!PagesOf(z)
              /\ Buddy!Flip(idx, j) \in Buddy!Page
              /\ Buddy!Flip(idx, j) # idx
  <2> DEFINE f == Buddy!Flip(idx, j)
             h == 2^j
  <2>1. j \in 0..m - 1 /\ j \in 0..MAX_ORDER + 1
    <3>1. j \in 0..MAX_ORDER
      BY <1>8
    <3> QED BY <3>1, <1>5, <1>8
  <2>2. f = idx + h /\ f \in Nat /\ idx < f /\ f + h <= idx + 2^m
    BY <2>1, <1>8, <1>16, Half
  <2>3. h \in Nat \ {0}
    BY <2>1, Power
  <2> HIDE DEF f, h
  <2>4. idx <= f /\ f < idx + 2^m
    BY <2>2, <2>3, <1>16
  <2>5. f \in Buddy!Pages(old) /\ f # idx
    BY <2>2, <2>4, <1>16
  <2>6. f \in Buddy!PagesOf(z)
    BY <2>5, <1>17
  <2>7. f \in Buddy!Page
    BY <2>6, <1>4, ZonesApart
  <2> QED BY <2>2, <2>5, <2>6, <2>7 DEF f, h
<1>19. ASSUME NEW i \in k..m - 1, NEW j \in k..m - 1, Buddy!Flip(idx, i) = Buddy!Flip(idx, j)
       PROVE  i = j
  <2> DEFINE p == <<Buddy!Flip(idx, i), i>>
             q == <<Buddy!Flip(idx, j), j>>
  <2>1. p \in Pieces(idx, k, m) /\ q \in Pieces(idx, k, m)
    BY DEF Pieces
  <2>2. p[1] = Buddy!Flip(idx, i) /\ q[1] = Buddy!Flip(idx, i) /\ p[2] = i /\ q[2] = j
    BY <1>19
  <2> HIDE DEF p, q
  <2>3. p[1] \in Buddy!Pages(p) /\ p[1] \in Buddy!Pages(q)
    BY <2>1, <2>2, <1>8, <1>16, PieceIs
  <2>4. p = q
    BY <2>1, <2>3, <1>8, <1>16, PiecesApart
  <2> QED BY <2>2, <2>4
<1>20. \A p : p \in halves <=> \E j \in k..m - 1 : p = Buddy!Flip(idx, j)
  OBVIOUS
<1> HIDE DEF halves
<1>21. isfree' = [p \in Buddy!Page |-> p # idx /\ (p \in halves \/ isfree[p])]
  BY <1>7 DEF Buddy!FreeAfterSplit
<1>22. \A p \in Buddy!Page :
                   isfree'[p] <=> p # idx /\ (isfree[p] \/ \E j \in k..m - 1 : p = Buddy!Flip(idx, j))
  BY <1>20, <1>21
<1>23. \A j \in k..m - 1 : border'[Buddy!Flip(idx, j)] = j
  <2> SUFFICES ASSUME NEW j \in k..m - 1 PROVE border'[Buddy!Flip(idx, j)] = j
    OBVIOUS
  <2> DEFINE f == Buddy!Flip(idx, j)
  <2>1. f \in Buddy!Page /\ f \in halves
    BY <1>18, <1>20
  <2>2. border'[f] = CHOOSE i \in k..m - 1 : Buddy!Flip(idx, i) = f
    BY <2>1, <1>7
  <2>3. \A i \in k..m - 1 : Buddy!Flip(idx, i) = f <=> i = j
    BY <1>19
  <2>4. (CHOOSE i \in k..m - 1 : Buddy!Flip(idx, i) = f) = j
    BY <2>3
  <2> QED BY <2>2, <2>4
<1>24. \A p \in Buddy!Page : p \notin halves => border'[p] = border[p]
  BY <1>7
<1>25. /\ isfree' \in [Buddy!Page -> BOOLEAN]
       /\ border' \in [Buddy!Page -> Buddy!Order]
  <2>1. isfree' \in [Buddy!Page -> BOOLEAN]
    BY <1>21
  <2>2. ASSUME NEW p \in Buddy!Page PROVE border'[p] \in Buddy!Order
    <3>1. CASE p \in halves
      BY <3>1, <1>8, <1>20, <1>23
    <3>2. CASE p \notin halves
      BY <3>2, <1>3, <1>24
    <3> QED BY <3>1, <3>2
  <2>3. border' = [p \in Buddy!Page |-> border'[p]]
    BY <1>7
  <2> QED BY <2>1, <2>2, <2>3
<1>26. \A y \in DOMAIN Zones : \A j \in Buddy!Order :
          order'[y][j] = IF y # z THEN order[y][j]
                         ELSE IF j = m THEN Tail(rest)
                         ELSE IF j \in k..m - 1 THEN <<Buddy!Flip(idx, j)>> \o order[z][j]
                         ELSE order[z][j]
  BY <1>3, <1>4, <1>7 DEF rest
<1>27. \A j \in k..m - 1 : order[z][j] = << >>
  BY <1>6 DEF z, k
<1>28. ASSUME NEW j \in k..m - 1
       PROVE  /\ <<Buddy!Flip(idx, j)>> \o order[z][j] \in Seq(Buddy!Page)
              /\ ToSet(<<Buddy!Flip(idx, j)>> \o order[z][j]) = {Buddy!Flip(idx, j)}
              /\ IsInjective(<<Buddy!Flip(idx, j)>> \o order[z][j])
              /\ ToSet(order[z][j]) = {}
  <2> DEFINE f == Buddy!Flip(idx, j)
             q == order[z][j]
  <2>1. f \in Buddy!Page /\ q = << >>
    BY <1>18, <1>27
  <2>2. q \in Seq(Buddy!Page) /\ ToSet(q) = {} /\ IsInjective(q)
    <3> HIDE DEF q
    <3> QED BY <2>1, EmptyQueue
  <2> HIDE DEF f, q
  <2>3. /\ <<f>> \o q \in Seq(Buddy!Page)
        /\ ToSet(<<f>> \o q) = ToSet(q) \cup {f}
        /\ IsInjective(<<f>> \o q)
    <3>1. f \notin ToSet(q)
      BY <2>2
    <3>2. f \in Buddy!Page
      BY <2>1
    <3>3. /\ <<f>> \o q \in Seq(Buddy!Page)
          /\ ToSet(<<f>> \o q) = ToSet(q) \cup {f}
          /\ IsInjective(q) /\ f \notin ToSet(q) => IsInjective(<<f>> \o q)
      BY <3>2, <2>2, PrependQueue
    <3> QED BY <3>1, <3>3, <2>2
  <2> QED BY <2>2, <2>3 DEF f, q
<1>29. ASSUME NEW y \in DOMAIN Zones, NEW j \in Buddy!Order
       PROVE  /\ order'[y][j] \in Seq(Buddy!Page) /\ IsInjective(order'[y][j])
              /\ \A p : p \in ToSet(order'[y][j]) <=>
                          \/ p \in ToSet(order[y][j]) /\ ~(y = z /\ j = m /\ p = idx)
                          \/ y = z /\ j \in k..m - 1 /\ p = Buddy!Flip(idx, j)
  <2>1. order[y][j] \in Seq(Buddy!Page) /\ IsInjective(order[y][j])
    BY <1>3, <1>11
  <2>2. CASE y # z
    BY <2>1, <2>2, <1>26
  <2>3. CASE y = z /\ j = m
    <3>1. order'[y][j] = Tail(rest) /\ order[y][j] = rest /\ j \notin k..m - 1
      BY <2>3, <1>8, <1>26 DEF rest
    <3> QED BY <3>1, <2>3, <1>10, <1>12
  <2>4. CASE y = z /\ j \in k..m - 1
    <3>1. order'[y][j] = <<Buddy!Flip(idx, j)>> \o order[z][j] /\ j # m
      BY <2>4, <1>8, <1>26
    <3> QED BY <3>1, <2>4, <1>28
  <2>5. CASE y = z /\ j # m /\ j \notin k..m - 1
    BY <2>1, <2>5, <1>26
  <2> QED BY <2>2, <2>3, <2>4, <2>5
<1>30. Buddy!TypeOK'
  <2>1. order' \in [DOMAIN Zones -> [Buddy!Order -> Seq(Buddy!Page)]]
    <3>1. \A y \in DOMAIN Zones : order'[y] = [j \in Buddy!Order |-> order'[y][j]]
      BY <1>3, <1>4, <1>7
    <3>2. order' = [y \in DOMAIN Zones |-> order'[y]]
      BY <1>3, <1>7
    <3>3. \A y \in DOMAIN Zones : order'[y] \in [Buddy!Order -> Seq(Buddy!Page)]
      BY <3>1, <1>29
    <3> QED BY <3>2, <3>3
  <2>2. call' \in [Proc -> {Buddy!Idle} \cup ((DOMAIN Zones) \X Buddy!Order)]
    BY <1>3, <1>7
  <2>3. held' \subseteq Buddy!Page \X Buddy!Order
    BY <1>3, <1>4, <1>7, <1>10 DEF k
  <2> QED BY <1>1, <1>3, <1>25, <2>1, <2>2, <2>3 DEF Buddy!TypeOK
<1>31. \A y \in DOMAIN Zones : \A p, j : <<p, j>> \in Buddy!FreeBlocksOf(y)' <=>
         \/ <<p, j>> \in Buddy!FreeBlocksOf(y) /\ ~(y = z /\ j = m /\ p = idx)
         \/ y = z /\ j \in k..m - 1 /\ p = Buddy!Flip(idx, j)
  <2>1. \A y \in DOMAIN Zones : \A p, j : <<p, j>> \in Buddy!FreeBlocksOf(y)' <=>
              j \in Buddy!Order /\ p \in ToSet(order'[y][j])
    BY <1>30, BlocksNext
  <2> QED BY <2>1, <1>8, <1>13, <1>29
\* idx is in no list of another zone.
<1>32. \A y \in DOMAIN Zones : old \in Buddy!FreeBlocksOf(y) => y = z
  <2> SUFFICES ASSUME NEW y \in DOMAIN Zones, old \in Buddy!FreeBlocksOf(y) PROVE y = z
    OBVIOUS
  <2>1. idx \in Buddy!PagesOf(y) /\ idx \in Buddy!PagesOf(z)
    BY <1>16, <1>17 DEF Buddy!IInv, Buddy!Placed
  <2> QED BY <2>1, <1>4, ZonesApart
<1>33. \A y \in DOMAIN Zones : \A b : b \in Buddy!FreeBlocksOf(y)' <=>
         \/ b \in Buddy!FreeBlocksOf(y) /\ b # old
         \/ y = z /\ \E j \in k..m - 1 : b = <<Buddy!Flip(idx, j), j>>
  <2> SUFFICES ASSUME NEW y \in DOMAIN Zones, NEW b
               PROVE  b \in Buddy!FreeBlocksOf(y)' <=>
                        \/ b \in Buddy!FreeBlocksOf(y) /\ b # old
                        \/ y = z /\ \E j \in k..m - 1 : b = <<Buddy!Flip(idx, j), j>>
    OBVIOUS
  <2>1. b \in Buddy!FreeBlocksOf(y)' => \E p, j : b = <<p, j>>
    BY <1>30, BlocksNext
  <2>2. b \in Buddy!FreeBlocksOf(y) => \E p, j : b = <<p, j>>
    BY <1>13
  <2>3. ASSUME NEW p, NEW j, b = <<p, j>>
        PROVE  b \in Buddy!FreeBlocksOf(y)' <=>
                        \/ b \in Buddy!FreeBlocksOf(y) /\ b # old
                        \/ y = z /\ \E i \in k..m - 1 : b = <<Buddy!Flip(idx, i), i>>
    <3>1. b = old <=> p = idx /\ j = m
      BY <2>3 DEF old
    <3>2. (\E i \in k..m - 1 : b = <<Buddy!Flip(idx, i), i>>) <=>
            j \in k..m - 1 /\ p = Buddy!Flip(idx, j)
      BY <2>3
    <3>3. b \in Buddy!FreeBlocksOf(y) /\ b = old => y = z
      BY <1>32
    <3>4. b \in Buddy!FreeBlocksOf(y)' <=>
            \/ b \in Buddy!FreeBlocksOf(y) /\ ~(y = z /\ j = m /\ p = idx)
            \/ y = z /\ j \in k..m - 1 /\ p = Buddy!Flip(idx, j)
      BY <2>3, <1>31
    <3> QED BY <3>1, <3>2, <3>3, <3>4
  <2> QED BY <2>1, <2>2, <2>3
<1>34. \A y \in DOMAIN Zones, j \in Buddy!Order : Buddy!IsInjective(order'[y][j])
  BY <1>29, BuddyQueue
<1>35. held' = held \cup {<<idx, k>>}
  BY <1>7
<1>36. \A p \in Buddy!Page :
         (\A j \in k..m - 1 : p # Buddy!Flip(idx, j)) => border'[p] = border[p]
  BY <1>20, <1>24
<1> DEFINE Result(zz, mm, kk, ii) ==
              /\ <<ii, mm>> \in Buddy!FreeBlocksOf(zz) /\ ii % 2^mm = 0
              /\ Buddy!TypeOK'
              /\ held' = held \cup {<<ii, kk>>}
              /\ \A y \in DOMAIN Zones : \A b :
                   b \in Buddy!FreeBlocksOf(y)' <=>
                     \/ b \in Buddy!FreeBlocksOf(y) /\ b # <<ii, mm>>
                     \/ y = zz /\ \E j \in kk..mm - 1 : b = <<Buddy!Flip(ii, j), j>>
              /\ \A y \in DOMAIN Zones, j \in Buddy!Order :
                   Buddy!IsInjective(order'[y][j])
              /\ \A p \in Buddy!Page :
                   isfree'[p] <=> /\ p # ii
                                  /\ \/ isfree[p]
                                     \/ \E j \in kk..mm - 1 : p = Buddy!Flip(ii, j)
              /\ \A j \in kk..mm - 1 : border'[Buddy!Flip(ii, j)] = j
              /\ \A p \in Buddy!Page :
                   (\A j \in kk..mm - 1 : p # Buddy!Flip(ii, j)) => border'[p] = border[p]
<1>37. Result(z, m, k, idx)
  BY <1>14, <1>16, <1>22, <1>23, <1>30, <1>33, <1>34, <1>35, <1>36 DEF old
<1> HIDE DEF Result
<1>38. \E zz \in DOMAIN Zones, mm \in 0..MAX_ORDER : \E kk \in 0..mm, ii \in Nat :
         Result(zz, mm, kk, ii)
  BY <1>37, <1>4, <1>8, <1>16 DEF z, k
<1> QED BY <1>1, <1>2, <1>38 DEF Result

\* A page that is marked free inside a block keeps an order that is less than
\* that of the piece it is in after a split.
LEMMA PieceOrder ==
  ASSUME Buddy!Assumption, NEW m \in 0..MAX_ORDER, NEW k \in 0..m,
         NEW idx \in Nat, idx % 2^m = 0, NEW q \in Pieces(idx, k, m),
         NEW p \in Buddy!Pages(q), NEW j \in 0..m - 1, p % 2^j = 0, p # q[1]
  PROVE  j < q[2]
<1>1. /\ q[1] \in Nat /\ q[2] \in k..m /\ q[2] \in 0..MAX_ORDER /\ q[1] % 2^q[2] = 0
      /\ p \in Nat /\ q[1] <= p /\ p < q[1] + 2^q[2]
  BY PieceIs
<1>2. j \in 0..MAX_ORDER + 1 /\ MAX_ORDER \in Nat
  <2>1. MAX_ORDER \in Nat
    BY Power
  <2> QED BY <2>1
<1> SUFFICES ASSUME q[2] \in 0..j PROVE FALSE
  BY <1>1
<1>3. 2^j \in Nat \ {0}
  BY <1>2, Power
<1>4. p <= p /\ p < p + 2^j /\ p \in Int
  BY <1>1, <1>3
<1>5. p <= q[1]
  BY <1>1, <1>2, <1>4, Nested
<1> QED BY <1>1, <1>5

\* buddy_alloc gives out a part of a free block and keeps the rest.
LEMMA AllocZoneKeeps ==
  ASSUME Buddy!Assumption, Buddy!IInv, NEW c \in Proc, Buddy!AllocZone(c)
  PROVE  /\ Buddy!IInv'
         /\ \E k \in 0..MAX_ORDER, idx \in Nat :
              /\ idx % 2^k = 0
              /\ idx \in Buddy!Pages(<<idx, k>>)
              /\ Buddy!Pages(<<idx, k>>) \subseteq Buddy!FreePages \cup Buddy!Unfreed
              /\ (Buddy!FreePages \cup Buddy!Unfreed)'
                   = (Buddy!FreePages \cup Buddy!Unfreed) \ Buddy!Pages(<<idx, k>>)
              /\ held' = held \cup {<<idx, k>>}
<1>1. todo = << >> /\ todo' = todo
  BY AllocZoneStep
<1>2. PICK z \in DOMAIN Zones, m \in 0..MAX_ORDER : \E k \in 0..m, idx \in Nat :
              /\ <<idx, m>> \in Buddy!FreeBlocksOf(z) /\ idx % 2^m = 0
              /\ Buddy!TypeOK'
              /\ held' = held \cup {<<idx, k>>}
              /\ \A y \in DOMAIN Zones : \A b :
                   b \in Buddy!FreeBlocksOf(y)' <=>
                     \/ b \in Buddy!FreeBlocksOf(y) /\ b # <<idx, m>>
                     \/ y = z /\ \E j \in k..m - 1 : b = <<Buddy!Flip(idx, j), j>>
              /\ \A y \in DOMAIN Zones, j \in Buddy!Order :
                   Buddy!IsInjective(order'[y][j])
              /\ \A p \in Buddy!Page :
                   isfree'[p] <=> /\ p # idx
                                  /\ \/ isfree[p]
                                     \/ \E j \in k..m - 1 : p = Buddy!Flip(idx, j)
              /\ \A j \in k..m - 1 : border'[Buddy!Flip(idx, j)] = j
              /\ \A p \in Buddy!Page :
                   (\A j \in k..m - 1 : p # Buddy!Flip(idx, j)) => border'[p] = border[p]
  BY AllocZoneStep
<1>3. PICK k \in 0..m, idx \in Nat :
              /\ <<idx, m>> \in Buddy!FreeBlocksOf(z) /\ idx % 2^m = 0
              /\ Buddy!TypeOK'
              /\ held' = held \cup {<<idx, k>>}
              /\ \A y \in DOMAIN Zones : \A b :
                   b \in Buddy!FreeBlocksOf(y)' <=>
                     \/ b \in Buddy!FreeBlocksOf(y) /\ b # <<idx, m>>
                     \/ y = z /\ \E j \in k..m - 1 : b = <<Buddy!Flip(idx, j), j>>
              /\ \A y \in DOMAIN Zones, j \in Buddy!Order :
                   Buddy!IsInjective(order'[y][j])
              /\ \A p \in Buddy!Page :
                   isfree'[p] <=> /\ p # idx
                                  /\ \/ isfree[p]
                                     \/ \E j \in k..m - 1 : p = Buddy!Flip(idx, j)
              /\ \A j \in k..m - 1 : border'[Buddy!Flip(idx, j)] = j
              /\ \A p \in Buddy!Page :
                   (\A j \in k..m - 1 : p # Buddy!Flip(idx, j)) => border'[p] = border[p]
  BY <1>2
<1> DEFINE old == <<idx, m>>
           given == <<idx, k>>
           Halves == {<<Buddy!Flip(idx, j), j>> : j \in k..m - 1}
           P == Pieces(idx, k, m)
<1>4. /\ old[1] = idx /\ old[2] = m /\ given[1] = idx /\ given[2] = k
      /\ P = {given} \cup Halves
      /\ \A b \in Halves : b[2] \in k..m - 1 /\ b[1] = Buddy!Flip(idx, b[2])
                             /\ b = <<Buddy!Flip(idx, b[2]), b[2]>>
  BY DEF Pieces
<1>5. idx \in Nat /\ idx % 2^m = 0 /\ old \in Buddy!FreeBlocksOf(z)
  BY <1>3
<1>6. \A y \in DOMAIN Zones : \A b : b \in Buddy!FreeBlocksOf(y)' <=>
                     \/ b \in Buddy!FreeBlocksOf(y) /\ b # old
                     \/ y = z /\ b \in Halves
  BY <1>3
<1>7. held' = held \cup {given} /\ Buddy!TypeOK'
      /\ \A y \in DOMAIN Zones, j \in Buddy!Order : Buddy!IsInjective(order'[y][j])
  BY <1>3
<1>8. old \in Buddy!FreeBlocks
  BY <1>5, BuddyBlocks DEF Buddy!IInv
<1>9. \A q \in P :
         /\ q[1] \in Nat /\ q[2] \in k..m /\ q[2] \in 0..MAX_ORDER
         /\ q[1] % 2^q[2] = 0 /\ Buddy!Aligned(q)
         /\ q[1] \in Buddy!Pages(q)
         /\ \A t : t \in Buddy!Pages(q) <=> t \in Nat /\ q[1] <= t /\ t < q[1] + 2^q[2]
         /\ \A t \in Buddy!Pages(q) : t \in Buddy!Pages(old)
  BY <1>5, PieceIs
<1>10. \A t \in Buddy!Pages(old) : \E q \in P : t \in Buddy!Pages(q)
  BY <1>5, PiecesCover
<1>11. \A p, q \in P : \A t \in Buddy!Pages(p) : t \in Buddy!Pages(q) => p = q
  BY <1>5, PiecesApart
<1>12. \A b : b \in Buddy!FreeBlocks' <=>
                 (b \in Buddy!FreeBlocks /\ b # old) \/ b \in Halves
  <2>1. \A b : b \in Buddy!FreeBlocks' <=> \E y \in DOMAIN Zones : b \in Buddy!FreeBlocksOf(y)'
    BY <1>7, BlocksNext
  <2>2. \A b : b \in Buddy!FreeBlocks <=> \E y \in DOMAIN Zones : b \in Buddy!FreeBlocksOf(y)
    BY BuddyBlocks DEF Buddy!IInv
  <2> HIDE DEF old, Halves
  <2> QED BY <2>1, <2>2, <1>6
<1>13. \A b \in Buddy!FreeBlocks \cup held : \A t \in Buddy!Pages(b) :
          t \in Buddy!Pages(old) => b = old
  BY <1>8, OneBlock
<1>14. old \notin held /\ \A b \in held : b \notin Buddy!FreeBlocks
  BY <1>8 DEF Buddy!IInv, Buddy!Partition
<1>15. given \in P /\ idx \in Buddy!Pages(given) /\ idx \in Buddy!Pages(old)
  BY <1>4, <1>9
<1>16. ASSUME NEW j \in k..m - 1
       PROVE  /\ Buddy!Flip(idx, j) # idx
              /\ Buddy!Flip(Buddy!Flip(idx, j), j) = idx
              /\ Buddy!Flip(idx, j) \in Buddy!Pages(old)
              /\ <<Buddy!Flip(idx, j), j>> \in Halves
  <2>1. j \in 0..m - 1
    OBVIOUS
  <2>2. Buddy!Flip(idx, j) \in Nat /\ idx < Buddy!Flip(idx, j)
        /\ Buddy!Flip(Buddy!Flip(idx, j), j) = idx
    BY <2>1, <1>5, Half
  <2> DEFINE b == <<Buddy!Flip(idx, j), j>>
  <2>3. b \in Halves /\ b[1] = Buddy!Flip(idx, j)
    OBVIOUS
  <2> HIDE DEF b, Halves
  <2>4. b[1] \in Buddy!Pages(old)
    BY <2>3, <1>4, <1>9
  <2> QED BY <2>2, <2>3, <2>4 DEF b
<1>17. \A t \in Buddy!Pages(old) : t \in Buddy!PagesOf(z)
  BY <1>5 DEF Buddy!IInv, Buddy!Placed
<1>18. /\ \A p \in Buddy!Page :
             isfree'[p] <=> p # idx /\ (isfree[p] \/ \E j \in k..m - 1 : p = Buddy!Flip(idx, j))
       /\ \A j \in k..m - 1 : border'[Buddy!Flip(idx, j)] = j
       /\ \A p \in Buddy!Page :
             (\A j \in k..m - 1 : p # Buddy!Flip(idx, j)) => border'[p] = border[p]
  BY <1>3
<1> HIDE DEF old, given, Halves, P
<1>19. \A b : b \in (Buddy!FreeBlocks \cup held)' <=>
                 (b \in Buddy!FreeBlocks \cup held /\ b # old) \/ b \in P
  BY <1>4, <1>7, <1>12, <1>14
<1>20. Buddy!Partition'
  <2>1. ASSUME NEW a \in (Buddy!FreeBlocks \cup held)', NEW b \in (Buddy!FreeBlocks \cup held)',
               a # b
        PROVE  Buddy!Pages(a) \cap Buddy!Pages(b) = {}
    <3> SUFFICES ASSUME NEW t \in Buddy!Pages(a), t \in Buddy!Pages(b) PROVE FALSE
      OBVIOUS
    <3>1. CASE a \in P /\ b \in P
      BY <2>1, <3>1, <1>11
    <3>2. CASE a \in P /\ b \notin P
      <4>1. b \in Buddy!FreeBlocks \cup held /\ b # old
        BY <3>2, <1>19
      <4> QED BY <4>1, <3>2, <1>9, <1>13
    <3>3. CASE a \notin P /\ b \in P
      <4>1. a \in Buddy!FreeBlocks \cup held /\ a # old
        BY <3>3, <1>19
      <4> QED BY <4>1, <3>3, <1>9, <1>13
    <3>4. CASE a \notin P /\ b \notin P
      <4>1. a \in Buddy!FreeBlocks \cup held /\ b \in Buddy!FreeBlocks \cup held
        BY <3>4, <1>19
      <4> QED BY <4>1, <2>1, OneBlock
    <3> QED BY <3>1, <3>2, <3>3, <3>4
  <2>2. (Buddy!FreeBlocks \cap held)' = {}
    <3> SUFFICES ASSUME NEW b \in Buddy!FreeBlocks', b \in held' PROVE FALSE
      OBVIOUS
    <3>1. CASE b \in Buddy!FreeBlocks /\ b # old
      <4>1. b = given
        BY <3>1, <1>7, <1>14
      <4> QED BY <4>1, <3>1, <1>13, <1>15
    <3>2. CASE b \in Halves
      <4>1. b \in P /\ b[1] # idx
        BY <3>2, <1>4, <1>16
      <4>2. b # given
        BY <4>1, <1>4
      <4>3. b \in held
        BY <4>2, <1>7
      <4>4. b[1] \in Buddy!Pages(b) /\ b[1] \in Buddy!Pages(old)
        BY <4>1, <1>9
      <4> QED BY <4>3, <4>4, <1>13, <1>14
    <3> QED BY <3>1, <3>2, <1>12
  <2>3. \A t : (\E b \in (Buddy!FreeBlocks \cup held)' : t \in Buddy!Pages(b)) <=>
                 (\E b \in Buddy!FreeBlocks \cup held : t \in Buddy!Pages(b))
    BY <1>8, <1>9, <1>10, <1>19
  <2>4. (UNION {Buddy!Pages(b) : b \in Buddy!FreeBlocks \cup held})'
          = (Buddy!Available \ Buddy!Unfreed)'
    <3>1. Buddy!Available' = Buddy!Available /\ Buddy!Unfreed' = Buddy!Unfreed
      BY <1>1 DEF Buddy!Available, Buddy!Unfreed
    <3>2. UNION {Buddy!Pages(b) : b \in Buddy!FreeBlocks \cup held}
            = Buddy!Available \ Buddy!Unfreed
      BY DEF Buddy!IInv, Buddy!Partition
    <3> QED BY <2>3, <3>1, <3>2
  <2> QED BY <2>1, <2>2, <2>4, <1>7 DEF Buddy!Partition
<1>21. Buddy!Placed'
  <2>1. \A b \in (Buddy!FreeBlocks \cup held)' : Buddy!Aligned(b)
    BY <1>9, <1>19 DEF Buddy!IInv, Buddy!Placed
  <2>2. \A b \in P : Buddy!Pages(b) \subseteq Buddy!PagesOf(z)
    BY <1>9, <1>17
  <2>3. \A y \in DOMAIN Zones : \A b \in Buddy!FreeBlocksOf(y)' :
           Buddy!Pages(b) \subseteq Buddy!PagesOf(y)
    BY <2>2, <1>4, <1>6 DEF Buddy!IInv, Buddy!Placed
  <2>4. \A b \in held' : \E y \in DOMAIN Zones : Buddy!Pages(b) \subseteq Buddy!PagesOf(y)
    BY <2>2, <1>7, <1>15 DEF Buddy!IInv, Buddy!Placed
  <2> QED BY <2>1, <2>3, <2>4 DEF Buddy!Placed
<1>22. Buddy!FlagsOK'
  <2>1. ASSUME NEW b \in Buddy!FreeBlocks' PROVE isfree'[b[1]] /\ border'[b[1]] = b[2]
    <3>1. b[1] \in Buddy!Page
      BY <1>7, <1>12, BuddyBlocks, <1>4, <1>16, <1>17, ZonesApart DEF Buddy!IInv
    <3>2. CASE b \in Halves
      BY <3>1, <3>2, <1>4, <1>16, <1>18
    <3>3. CASE b \in Buddy!FreeBlocks /\ b # old
      <4>1. isfree[b[1]] /\ border[b[1]] = b[2]
        BY <3>3 DEF Buddy!IInv, Buddy!FlagsOK
      <4>2. b[1] \notin Buddy!Pages(old)
        BY <3>3, <1>13, BlockPlace
      <4> QED BY <3>1, <4>1, <4>2, <1>15, <1>16, <1>18
    <3> QED BY <3>2, <3>3, <1>12
  <2>2. ASSUME NEW p \in Buddy!Page, isfree'[p]
        PROVE  /\ Buddy!Aligned(<<p, border'[p]>>)
               /\ \/ <<p, border'[p]>> \in Buddy!FreeBlocks'
                  \/ \E b \in (Buddy!FreeBlocks \cup held)' :
                        p \in Buddy!Pages(b) /\ border'[p] < b[2]
    <3>1. CASE \E j \in k..m - 1 : p = Buddy!Flip(idx, j)
      <4>1. PICK j \in k..m - 1 : p = Buddy!Flip(idx, j)
        BY <3>1
      <4> DEFINE b == <<Buddy!Flip(idx, j), j>>
      <4>2. b \in Halves /\ <<p, border'[p]>> = b
        BY <4>1, <1>16, <1>18
      <4> HIDE DEF b
      <4> QED BY <4>2, <1>4, <1>9, <1>12
    <3>2. CASE ~\E j \in k..m - 1 : p = Buddy!Flip(idx, j)
      <4>1. isfree[p] /\ border'[p] = border[p] /\ p # idx
        BY <2>2, <3>2, <1>18
      <4> DEFINE j == border[p]
                 own == <<p, j>>
      <4>2. /\ Buddy!Aligned(own)
            /\ \/ own \in Buddy!FreeBlocks
               \/ \E b \in Buddy!FreeBlocks \cup held : p \in Buddy!Pages(b) /\ j < b[2]
        BY <4>1 DEF Buddy!IInv, Buddy!FlagsOK
      <4>3. p \in Nat /\ j \in 0..MAX_ORDER /\ own[1] = p /\ own[2] = j
        <5>1. border \in [Buddy!Page -> Buddy!Order] /\ Buddy!Page \subseteq Nat
              /\ Buddy!Order = 0..MAX_ORDER
          BY BuddyBlocks DEF Buddy!IInv, Buddy!TypeOK
        <5> QED BY <5>1
      <4> HIDE DEF j, own
      <4>4. p % 2^j = 0
        BY <4>2, <4>3 DEF Buddy!Aligned
      <4>5. CASE own \in Buddy!FreeBlocks
        <5>1. own # old
          BY <4>1, <4>3, <1>4
        <5>2. own \in Buddy!FreeBlocks'
          BY <4>5, <5>1, <1>12
        <5> QED BY <4>1, <4>2, <5>2 DEF own, j
      <4>6. CASE \E b \in Buddy!FreeBlocks \cup held : p \in Buddy!Pages(b) /\ j < b[2]
        <5>1. PICK b \in Buddy!FreeBlocks \cup held : p \in Buddy!Pages(b) /\ j < b[2]
          BY <4>6
        <5>2. \E d \in (Buddy!FreeBlocks \cup held)' : p \in Buddy!Pages(d) /\ j < d[2]
          <6>1. CASE b # old
            BY <5>1, <6>1, <1>19
          <6>2. CASE b = old
            <7>1. PICK q \in P : p \in Buddy!Pages(q)
              BY <5>1, <6>2, <1>10
            <7>2. p # q[1]
              BY <3>2, <4>1, <1>4
            <7>3. j \in 0..m - 1
              BY <4>3, <5>1, <6>2, <1>4
            <7>4. j < q[2]
              BY <7>1, <7>2, <7>3, <4>4, <1>5, PieceOrder DEF P
            <7> QED BY <7>1, <7>4, <1>19
          <6> QED BY <6>1, <6>2
        <5> QED BY <4>1, <4>2, <5>2 DEF own, j
      <4> QED BY <4>2, <4>5, <4>6
    <3> QED BY <3>1, <3>2
  <2> QED BY <2>1, <2>2 DEF Buddy!FlagsOK
<1>23. Buddy!Coalesced'
  <2> SUFFICES ASSUME NEW b \in Buddy!FreeBlocks', b[2] < MAX_ORDER,
                      <<Buddy!Flip(b[1], b[2]), b[2]>> \in Buddy!FreeBlocks'
               PROVE  FALSE
    BY DEF Buddy!Coalesced
  <2> DEFINE d == <<Buddy!Flip(b[1], b[2]), b[2]>>
  <2>1. d[1] = Buddy!Flip(b[1], b[2]) /\ d[2] = b[2]
    OBVIOUS
  <2>2. d \in Buddy!FreeBlocks'
    OBVIOUS
  <2>3. ~(b \in Buddy!FreeBlocks /\ d \in Buddy!FreeBlocks)
    BY DEF Buddy!IInv, Buddy!Coalesced
  <2> HIDE DEF d
\* No free block begins where the one that is given out does.
  <2>4. ASSUME NEW e \in Buddy!FreeBlocks' PROVE e[1] # idx
    <3>1. CASE e \in Halves
      BY <3>1, <1>4, <1>16
    <3>2. CASE e \in Buddy!FreeBlocks /\ e # old
      BY <3>2, <1>13, <1>15, BlockPlace
    <3> QED BY <3>1, <3>2, <1>12
  <2>5. CASE b \in Halves
    BY <2>1, <2>2, <2>4, <2>5, <1>4, <1>16
  <2>6. CASE b \in Buddy!FreeBlocks /\ d \in Halves
    <3>1. b[1] \in Nat /\ b[1] % 2^b[2] = 0 /\ b[2] \in 0..MAX_ORDER
      BY <2>6, BlockPlace
    <3>2. Buddy!Flip(Buddy!Flip(b[1], b[2]), b[2]) = b[1]
      BY <3>1, FlipIs
    <3>3. d[2] \in k..m - 1 /\ d[1] = Buddy!Flip(idx, d[2])
      BY <2>6, <1>4
    <3>4. Buddy!Flip(d[1], d[2]) = idx
      BY <3>3, <1>16
    <3> QED BY <2>1, <2>4, <3>2, <3>4
  <2> QED BY <2>2, <2>3, <2>5, <2>6, <1>12
<1>24. Buddy!SetupOK'
  BY <1>1 DEF Buddy!SetupOK
<1>25. Buddy!Unfreed = {} /\ Buddy!Unfreed' = {}
  <2>1. ToSet(todo) = {} /\ ToSet(todo') = {}
    BY <1>1, EmptyQueue
  <2> QED BY <2>1, BuddyQueue DEF Buddy!Unfreed
<1>26. \A t : t \in Buddy!FreePages' <=> t \in Buddy!FreePages /\ t \notin Buddy!Pages(given)
  <2>1. \A t : t \in Buddy!FreePages <=> \E b \in Buddy!FreeBlocks : t \in Buddy!Pages(b)
    BY DEF Buddy!FreePages
  <2>2. \A t : t \in Buddy!FreePages' <=> \E b \in Buddy!FreeBlocks' : t \in Buddy!Pages(b)
    BY DEF Buddy!FreePages
  <2>3. ASSUME NEW t, t \in Buddy!FreePages'
        PROVE  t \in Buddy!FreePages /\ t \notin Buddy!Pages(given)
    <3>1. PICK b \in Buddy!FreeBlocks' : t \in Buddy!Pages(b)
      BY <2>2, <2>3
    <3>2. CASE b \in Buddy!FreeBlocks /\ b # old
      BY <2>1, <3>1, <3>2, <1>9, <1>13, <1>15
    <3>3. CASE b \in Halves
      <4>1. b \in P /\ b # given
        BY <3>3, <1>4, <1>16
      <4> QED BY <2>1, <3>1, <4>1, <1>8, <1>9, <1>11, <1>15
    <3> QED BY <3>2, <3>3, <1>12
  <2>4. ASSUME NEW t, t \in Buddy!FreePages, t \notin Buddy!Pages(given)
        PROVE  t \in Buddy!FreePages'
    <3>1. PICK b \in Buddy!FreeBlocks : t \in Buddy!Pages(b)
      BY <2>1, <2>4
    <3>2. CASE b # old
      BY <2>2, <3>1, <3>2, <1>12
    <3>3. CASE b = old
      BY <2>2, <2>4, <3>1, <3>3, <1>4, <1>10, <1>12
    <3> QED BY <3>2, <3>3
  <2> QED BY <2>3, <2>4
<1>27. \A t \in Buddy!Pages(given) : t \in Buddy!FreePages
  BY <1>8, <1>9, <1>15 DEF Buddy!FreePages
<1>28. k \in 0..MAX_ORDER /\ idx % 2^k = 0
  <2>1. given[2] \in 0..MAX_ORDER /\ given[1] % 2^given[2] = 0
    BY <1>9, <1>15
  <2> QED BY <2>1, <1>4
<1>29. /\ idx \in Buddy!Pages(given)
       /\ Buddy!Pages(given) \subseteq Buddy!FreePages \cup Buddy!Unfreed
       /\ (Buddy!FreePages \cup Buddy!Unfreed)'
             = (Buddy!FreePages \cup Buddy!Unfreed) \ Buddy!Pages(given)
  BY <1>15, <1>25, <1>26, <1>27
<1>30. Buddy!IInv'
  BY <1>7, <1>20, <1>21, <1>22, <1>23, <1>24 DEF Buddy!IInv
<1> QED BY <1>7, <1>28, <1>29, <1>30, <1>5 DEF given

\* list_del: the list loses one page.
LEMMA WithoutIs ==
  ASSUME NEW S, NEW list \in Seq(S), IsInjective(list), NEW p
  PROVE  /\ Buddy!Without(list, p) \in Seq(S)
         /\ ToSet(Buddy!Without(list, p)) = ToSet(list) \ {p}
         /\ IsInjective(Buddy!Without(list, p))
<1>1. CASE p \notin ToSet(list)
  <2>1. Buddy!Without(list, p) = list
    BY <1>1, BuddyQueue DEF Buddy!Without
  <2> QED BY <1>1, <2>1
<1>2. CASE p \in ToSet(list)
  <2> DEFINE i == CHOOSE n \in DOMAIN list : list[n] = p
  <2>1. i \in DOMAIN list /\ list[i] = p
    <3>1. \E n \in DOMAIN list : list[n] = p
      BY <1>2 DEF ToSet
    <3> QED BY <3>1
  <2>2. Buddy!Without(list, p) = RemoveAt(list, i)
    BY <1>2, BuddyQueue DEF Buddy!Without
  <2> HIDE DEF i
  <2> QED BY <2>1, <2>2, RemoveQueue
<1> QED BY <1>1, <1>2

\* The block of order n that a block grows into.
LEMMA GrownIs ==
  ASSUME Buddy!Assumption, NEW k \in 0..MAX_ORDER, NEW n \in k..MAX_ORDER,
         NEW idx \in Nat, idx % 2^k = 0
  PROVE  /\ Buddy!Grown(idx, k, n) \in Nat /\ Buddy!Grown(idx, k, n) % 2^n = 0
         /\ Buddy!Grown(idx, k, n) <= idx /\ idx < Buddy!Grown(idx, k, n) + 2^n
         /\ Buddy!Grown(idx, k, k) = idx
<1>1. MAX_ORDER \in Nat /\ n \in 0..MAX_ORDER + 1
  <2>1. MAX_ORDER \in Nat
    BY Power
  <2> QED BY <2>1
<1> DEFINE h == 2^n
           r == idx % h
           d == idx \div h
<1>2. h \in Nat \ {0}
  BY <1>1, Power
<1>3. Buddy!Grown(idx, k, n) = idx - (r - (idx % 2^k)) /\ Buddy!Grown(idx, k, k) = idx - ((idx % 2^k) - (idx % 2^k))
  BY DEF Buddy!Grown
<1> HIDE DEF h
<1>4. d \in Nat /\ r \in 0..h - 1 /\ idx - r = h * d
  BY <1>2, Division
<1> HIDE DEF r, d
<1>5. h * d \in Nat /\ (h * d) % h = 0
  BY <1>2, <1>4, MultiplesAligned
<1> DEFINE g == idx - r
<1>6. g = h * d
  BY <1>4
<1>7. g \in Nat /\ g % h = 0
  BY <1>5, <1>6
<1>8. g <= idx /\ idx < g + h
  BY <1>2, <1>4
<1>9. Buddy!Grown(idx, k, n) = g /\ Buddy!Grown(idx, k, k) = idx
  BY <1>3, <1>4, <1>2
<1> QED BY <1>7, <1>8, <1>9 DEF h

\* Uniting two buddies.
LEMMA GrownNext ==
  ASSUME Buddy!Assumption, NEW k \in 0..MAX_ORDER, NEW n \in k..MAX_ORDER - 1,
         NEW idx \in Nat, idx % 2^k = 0,
         NEW t \in Buddy!Pages(<<Buddy!Grown(idx, k, n + 1), n + 1>>)
  PROVE  \/ t \in Buddy!Pages(<<Buddy!Grown(idx, k, n), n>>)
         \/ t \in Buddy!Pages(<<Buddy!Flip(Buddy!Grown(idx, k, n), n), n>>)
<1>1. MAX_ORDER \in Nat
  BY Power
<1>2. /\ n \in k..MAX_ORDER /\ n \in 0..MAX_ORDER /\ n \in 0..MAX_ORDER + 1
      /\ n + 1 \in k..MAX_ORDER /\ n + 1 \in 0..MAX_ORDER + 1 /\ n + 1 \in 0..n + 1
  BY <1>1
<1> DEFINE g == Buddy!Grown(idx, k, n)
           e == Buddy!Grown(idx, k, n + 1)
           f == Buddy!Flip(g, n)
           h == 2^n
           w == 2^(n + 1)
<1>3. h \in Nat \ {0} /\ w = h + h
  BY <1>2, Power
<1>4. g \in Nat /\ g % 2^n = 0 /\ g <= idx /\ idx < g + h
  BY <1>2, GrownIs
<1>5. e \in Nat /\ e % 2^(n + 1) = 0 /\ e <= idx /\ idx < e + w
  BY <1>2, GrownIs
<1> HIDE DEF g, e
<1>6. /\ f \in Nat
      /\ \/ g % 2^(n + 1) = 0 /\ f = g + h
         \/ f % 2^(n + 1) = 0 /\ g = f + h
  BY <1>2, <1>4, FlipIs
<1> HIDE DEF f
<1>7. /\ t \in Nat /\ e <= t /\ t < e + w
      /\ \A p \in Nat : p <= t /\ t < p + h => t \in Buddy!Pages(<<p, n>>)
  <2>1. t \in Buddy!Pages(<<e, n + 1>>)
    BY DEF e
  <2> QED BY <2>1, <1>2, <1>5, BlockPages
\* Two aligned blocks of order n + 1 with a page in common.
<1>8. ASSUME NEW x \in Nat, x % 2^(n + 1) = 0, x <= idx, idx < x + w
      PROVE  x = e
  <2>1. /\ idx \in Int /\ x <= idx /\ idx < x + 2^(n + 1)
        /\ e <= idx /\ idx < e + 2^(n + 1)
    BY <1>5, <1>8
  <2>2. e \in Nat /\ e % 2^(n + 1) = 0
    BY <1>5
  <2>3. e <= x
    BY <2>1, <2>2, <1>2, <1>8, Nested
  <2>4. x <= e
    BY <2>1, <2>2, <1>2, <1>8, Nested
  <2> QED BY <2>2, <2>3, <2>4
<1> HIDE DEF h, w
<1>9. CASE g % 2^(n + 1) = 0 /\ f = g + h
  <2>1. g = e
    <3>1. idx < g + w
      BY <1>3, <1>4
    <3> QED BY <3>1, <1>4, <1>8, <1>9
  <2>2. (g <= t /\ t < g + h) \/ (f <= t /\ t < f + h)
    BY <2>1, <1>3, <1>4, <1>6, <1>7, <1>9
  <2> QED BY <2>2, <1>4, <1>6, <1>7 DEF g, f
<1>10. CASE f % 2^(n + 1) = 0 /\ g = f + h
  <2>1. f = e
    <3>1. f <= idx /\ idx < f + w
      BY <1>3, <1>4, <1>6, <1>10
    <3> QED BY <3>1, <1>6, <1>8, <1>10
  <2>2. (g <= t /\ t < g + h) \/ (f <= t /\ t < f + h)
    BY <2>1, <1>3, <1>4, <1>6, <1>7, <1>10
  <2> QED BY <2>2, <1>4, <1>6, <1>7 DEF g, f
<1> QED BY <1>6, <1>9, <1>10

\* The blocks that are united: the one that was freed, and the buddies.
Merged(idx, k, n) == {<<Buddy!Flip(Buddy!Grown(idx, k, j), j), j>> : j \in k..n - 1}

\* They lie in that block, and the buddies are of smaller orders.
LEMMA MergedInside ==
  ASSUME Buddy!Assumption, NEW k \in 0..MAX_ORDER, NEW n \in k..MAX_ORDER,
         NEW idx \in Nat, idx % 2^k = 0,
         NEW e \in Merged(idx, k, n) \cup {<<idx, k>>}
  PROVE  /\ \A t \in Buddy!Pages(e) : t \in Buddy!Pages(<<Buddy!Grown(idx, k, n), n>>)
         /\ e[2] <= n
         /\ e \in Merged(idx, k, n) => e[2] < n
<1>1. MAX_ORDER \in Nat
  BY Power
<1> DEFINE g == Buddy!Grown(idx, k, n)
           w == 2^n
<1>2. g \in Nat /\ g % 2^n = 0 /\ g <= idx /\ idx < g + w
  BY GrownIs
<1>3. n \in 0..MAX_ORDER + 1 /\ n \in 0..MAX_ORDER
  BY <1>1
<1>4. w \in Nat \ {0}
  BY <1>3, Power
<1> HIDE DEF g
<1>5. \A t : t \in Buddy!Pages(<<g, n>>) <=> t \in Nat /\ g <= t /\ t < g + w
  BY <1>2, <1>3, BlockPages
<1> HIDE DEF w
<1>6. CASE e = <<idx, k>>
  <2> DEFINE h == 2^k
  <2>1. k \in 0..MAX_ORDER + 1 /\ k \in 0..n
    BY <1>1
  <2>2. h \in Nat \ {0}
    BY <2>1, Power
  <2>3. idx <= idx /\ idx < idx + h
    BY <2>2
  <2>4. idx + h <= g + w
    <3>1. idx + 2^k <= g + 2^n
      <4>1. idx \in Int /\ g <= idx /\ idx < g + 2^n
        BY <1>2 DEF w
      <4>2. g \in Nat /\ g % 2^n = 0
        BY <1>2
      <4>3. idx <= idx /\ idx < idx + 2^k
        BY <2>3
      <4> QED BY <4>1, <4>2, <4>3, <2>1, <1>3, Nested
    <3> QED BY <3>1 DEF w
  <2>5. \A t : t \in Buddy!Pages(<<idx, k>>) <=> t \in Nat /\ idx <= t /\ t < idx + h
    BY <2>1, BlockPages
  <2> HIDE DEF h
  <2>6. \A t \in Nat : idx <= t /\ t < idx + h => g <= t /\ t < g + w
    BY <2>2, <2>4, <1>2, <1>4
  <2>7. e[2] = k /\ e \notin Merged(idx, k, n) /\ k <= n
    <3>1. e[2] = k
      BY <1>6
    <3>2. ASSUME e \in Merged(idx, k, n) PROVE FALSE
      <4>1. PICK j \in k..n - 1 : e = <<Buddy!Flip(Buddy!Grown(idx, k, j), j), j>>
        BY <3>2 DEF Merged
      <4>2. j = k /\ Buddy!Flip(idx, k) = idx
        <5>1. e[2] = j /\ e[1] = Buddy!Flip(Buddy!Grown(idx, k, j), j) /\ e[1] = idx
          BY <4>1, <1>6
        <5>2. Buddy!Grown(idx, k, k) = idx
          BY GrownIs
        <5> QED BY <5>1, <5>2, <3>1
      <4> QED BY <4>2, FlipIs
    <3> QED BY <3>1, <3>2
  <2> QED BY <2>5, <2>6, <2>7, <1>5, <1>6 DEF g
<1>7. CASE e \in Merged(idx, k, n)
  <2>1. PICK j \in k..n - 1 : e = <<Buddy!Flip(Buddy!Grown(idx, k, j), j), j>>
    BY <1>7 DEF Merged
  <2> DEFINE x == Buddy!Grown(idx, k, j)
             f == Buddy!Flip(x, j)
             h == 2^j
  <2>2. /\ j \in k..MAX_ORDER /\ j \in 0..n - 1 /\ j \in 0..n /\ j \in 0..MAX_ORDER
        /\ j \in 0..MAX_ORDER + 1 /\ j < n
    BY <1>1
  <2>3. x \in Nat /\ x % 2^j = 0 /\ x <= idx /\ idx < x + 2^j
    BY <2>2, GrownIs
  <2> HIDE DEF x
  <2>4. g <= x /\ x + 2^j <= g + 2^n
    <3>1. idx \in Int /\ g <= idx /\ idx < g + 2^n
      BY <1>2 DEF w
    <3>2. g \in Nat /\ g % 2^n = 0
      BY <1>2
    <3> QED BY <3>1, <3>2, <2>2, <2>3, <1>3, Nested
  <2>5. h \in Nat \ {0}
    BY <2>2, Power
  <2>6. x < g + w
    BY <2>3, <2>4, <2>5, <1>2, <1>4 DEF w
  <2>7. g <= f /\ f + h <= g + w /\ f \in Nat
    BY <2>2, <2>3, <2>4, <2>6, <1>2, <1>3, FlipInside, FlipIs DEF w
  <2> HIDE DEF f
  <2>8. \A t : t \in Buddy!Pages(<<f, j>>) <=> t \in Nat /\ f <= t /\ t < f + h
    BY <2>2, <2>7, BlockPages
  <2> HIDE DEF h
  <2>9. \A t \in Nat : f <= t /\ t < f + h => g <= t /\ t < g + w
    BY <2>5, <2>7, <1>2, <1>4
  <2>10. e = <<f, j>> /\ e[2] = j
    BY <2>1 DEF f, x
  <2> QED BY <2>2, <2>8, <2>9, <2>10, <1>5 DEF g
<1> QED BY <1>6, <1>7

\* They make that block.
LEMMA MergedCover ==
  ASSUME Buddy!Assumption, NEW k \in 0..MAX_ORDER, NEW n \in k..MAX_ORDER,
         NEW idx \in Nat, idx % 2^k = 0,
         NEW t \in Buddy!Pages(<<Buddy!Grown(idx, k, n), n>>)
  PROVE  \E e \in Merged(idx, k, n) \cup {<<idx, k>>} : t \in Buddy!Pages(e)
<1>1. MAX_ORDER \in Nat
  BY Power
<1> DEFINE In(j) == t \in Buddy!Pages(<<Buddy!Grown(idx, k, j), j>>)
           T == {j \in k..n : In(j)}
<1>2. PICK j \in T : \A y \in T : j <= y
  <2>1. T \in SUBSET Nat /\ n \in T
    BY <1>1
  <2> QED BY <2>1, Least
<1>3. j \in k..n /\ In(j)
  OBVIOUS
<1>4. CASE j = k
  <2>1. Buddy!Grown(idx, k, k) = idx
    BY GrownIs
  <2>2. t \in Buddy!Pages(<<idx, k>>)
    BY <2>1, <1>3, <1>4
  <2> QED BY <2>2
<1>5. CASE j # k
  <2> DEFINE i == j - 1
             e == <<Buddy!Flip(Buddy!Grown(idx, k, i), i), i>>
  <2>1. i \in k..n - 1 /\ i \in k..MAX_ORDER - 1 /\ i + 1 = j /\ i \in k..n /\ ~(j <= i)
    BY <1>1, <1>3, <1>5
  <2>2. ~In(i)
    <3>1. i \notin T
      BY <2>1, <1>2
    <3> QED BY <3>1, <2>1
  <2> HIDE DEF i, T
  <2>3. t \in Buddy!Pages(<<Buddy!Grown(idx, k, i + 1), i + 1>>)
    BY <2>1, <1>3
  <2>4. t \in Buddy!Pages(e)
    BY <2>1, <2>2, <2>3, GrownNext
  <2>5. e \in Merged(idx, k, n)
    BY <2>1 DEF Merged
  <2> HIDE DEF e
  <2> QED BY <2>4, <2>5
<1> QED BY <1>4, <1>5

\* The step of buddy_free in terms of sets: the buddies go, the united block comes.
LEMMA FreeStep ==
  ASSUME Buddy!Assumption, Buddy!IInv, NEW block \in held, Buddy!Free(block)
  PROVE  /\ todo = << >> /\ todo' = todo
         /\ held' = held \ {block}
         /\ Buddy!TypeOK'
         /\ \A y \in DOMAIN Zones, j \in Buddy!Order : Buddy!IsInjective(order'[y][j])
         /\ \E z \in DOMAIN Zones, k \in 0..MAX_ORDER, idx \in Nat : \E n \in k..MAX_ORDER :
              /\ block = <<idx, k>> /\ idx % 2^k = 0
              /\ \A b \in Merged(idx, k, n) : b \in Buddy!FreeBlocksOf(z)
              /\ \A t \in Buddy!Pages(<<Buddy!Grown(idx, k, n), n>>) : t \in Buddy!PagesOf(z)
              /\ n < MAX_ORDER => ~Buddy!MayMerge(z, Buddy!Grown(idx, k, n), n)
              /\ \A y \in DOMAIN Zones : \A b :
                   b \in Buddy!FreeBlocksOf(y)' <=>
                     \/ b \in Buddy!FreeBlocksOf(y) /\ b \notin Merged(idx, k, n)
                     \/ y = z /\ b = <<Buddy!Grown(idx, k, n), n>>
              /\ border' = [border EXCEPT ![Buddy!Grown(idx, k, n)] = n]
              /\ isfree' = [isfree EXCEPT ![Buddy!Grown(idx, k, n)] = TRUE]
<1> DEFINE idx == block[1]
           k == block[2]
           z == Buddy!ZoneOf(idx)
           g(j) == Buddy!Grown(idx, k, j)
           f(j) == Buddy!Flip(g(j), j)
<1>1. todo' = todo /\ call' = call /\ held' = held \ {block}
  BY DEF Buddy!Free
<1>2. todo = << >>
  BY SetupAt
<1>3. PICK n \in k..MAX_ORDER :
          /\ \A j \in k..n - 1 : Buddy!MayMerge(z, g(j), j)
          /\ n < MAX_ORDER => ~Buddy!MayMerge(z, g(n), n)
          /\ border' = [border EXCEPT ![g(n)] = n]
          /\ isfree' = [isfree EXCEPT ![g(n)] = TRUE]
          /\ order' = [order EXCEPT ![z] = [j \in Buddy!Order |->
               IF j = n THEN <<g(n)>> \o order[z][j]
               ELSE IF j \in k..n - 1 THEN Buddy!Without(order[z][j], f(j))
               ELSE order[z][j]]]
  BY DEF Buddy!Free
<1>4. /\ isfree \in [Buddy!Page -> BOOLEAN] /\ border \in [Buddy!Page -> Buddy!Order]
      /\ order \in [DOMAIN Zones -> [Buddy!Order -> Seq(Buddy!Page)]]
      /\ todo \in Seq(Buddy!PageRange)
      /\ call \in [Proc -> {Buddy!Idle} \cup ((DOMAIN Zones) \X Buddy!Order)]
      /\ held \subseteq Buddy!Page \X Buddy!Order
  BY DEF Buddy!IInv, Buddy!TypeOK
<1>5. Buddy!Order = 0..MAX_ORDER /\ MAX_ORDER \in Nat
  BY Power DEF Buddy!Order
<1>6. /\ idx \in Nat /\ k \in 0..MAX_ORDER /\ block = <<idx, k>> /\ idx % 2^k = 0
      /\ idx \in Buddy!Pages(block)
  BY BlockPlace
<1>7. PICK y \in DOMAIN Zones : Buddy!Pages(block) \subseteq Buddy!PagesOf(y)
  BY DEF Buddy!IInv, Buddy!Placed
<1>8. z = y
  <2>1. idx \in Buddy!PagesOf(y)
    BY <1>6, <1>7
  <2> HIDE DEF idx
  <2> QED BY <2>1, ZoneOfIs
<1>9. z \in DOMAIN Zones /\ Buddy!Pages(block) \subseteq Buddy!PagesOf(z)
  BY <1>7, <1>8
<1> HIDE DEF z
<1> DEFINE M == Merged(idx, k, n)
           new == <<g(n), n>>
<1>10. \A b : b \in M <=> \E j \in k..n - 1 : b = <<f(j), j>>
  BY DEF Merged
<1>11. n \in k..MAX_ORDER /\ n \in 0..MAX_ORDER /\ n \in Buddy!Order
       /\ \A j \in k..n - 1 : j \in k..MAX_ORDER /\ j \in 0..MAX_ORDER /\ j \in Buddy!Order
                              /\ j # n
  BY <1>3, <1>5, <1>6
<1>12. ASSUME NEW j \in k..n - 1 PROVE <<f(j), j>> \in Buddy!FreeBlocksOf(z)
  <2>1. Buddy!MayMerge(z, g(j), j)
    BY <1>3
  <2>2. g(j) \in Nat /\ g(j) % 2^j = 0 /\ g(j) <= idx /\ idx < g(j) + 2^j
    BY <1>6, <1>11, GrownIs
  <2>3. block \in Buddy!FreeBlocks \cup held /\ j \in block[2]..MAX_ORDER
    BY <1>11
  <2> DEFINE x == g(j)
  <2>4. /\ x \in Nat /\ x % 2^j = 0 /\ x <= block[1] /\ block[1] < x + 2^j
        /\ Buddy!Flip(x, j) \in Buddy!PagesOf(z)
        /\ isfree[Buddy!Flip(x, j)] /\ border[Buddy!Flip(x, j)] = j
    BY <2>1, <2>2 DEF Buddy!MayMerge
  <2> HIDE DEF x
  <2>5. <<Buddy!Flip(x, j), j>> \in Buddy!FreeBlocksOf(z)
    BY <2>3, <2>4, <1>9, FlagsTrue
  <2> QED BY <2>5 DEF x
<1>13. \A b \in M : b \in Buddy!FreeBlocksOf(z)
  BY <1>10, <1>12
<1>14. \A t \in Buddy!Pages(new) : t \in Buddy!PagesOf(z)
  <2> SUFFICES ASSUME NEW t \in Buddy!Pages(new) PROVE t \in Buddy!PagesOf(z)
    OBVIOUS
  <2>1. PICK e \in M \cup {<<idx, k>>} : t \in Buddy!Pages(e)
    BY <1>6, <1>11, MergedCover
  <2>2. CASE e \in M
    BY <2>1, <2>2, <1>9, <1>13 DEF Buddy!IInv, Buddy!Placed
  <2>3. CASE e = block
    BY <2>1, <2>3, <1>9
  <2> QED BY <2>1, <2>2, <2>3, <1>6
<1>15. /\ g(n) \in Buddy!Page /\ g(n) \in Buddy!Pages(new) /\ g(n) \in Nat
       /\ g(n) \in Buddy!PagesOf(z)
  <2> DEFINE x == g(n)
             b == <<x, n>>
  <2>1. x \in Nat
    BY <1>6, <1>11, GrownIs
  <2>2. n \in 0..MAX_ORDER + 1
    BY <1>5, <1>11
  <2> HIDE DEF x
  <2>3. x \in Buddy!Pages(b)
    BY <2>1, <2>2, BlockPages
  <2>4. x \in Buddy!PagesOf(z)
    BY <2>3, <1>14 DEF x
  <2>5. x \in Buddy!Page
    BY <2>4, <1>9, ZonesApart
  <2> QED BY <2>1, <2>3, <2>4, <2>5 DEF x
\* No block that is united is in the list the new one goes to.
<1>16. g(n) \notin ToSet(order[z][n])
  <2> SUFFICES ASSUME g(n) \in ToSet(order[z][n]) PROVE FALSE
    OBVIOUS
  <2>1. new \in Buddy!FreeBlocksOf(z) /\ new \in Buddy!FreeBlocks
    BY <1>9, <1>11, BuddyBlocks DEF Buddy!IInv
  <2>2. idx \in Buddy!Pages(new)
    BY <1>6, <1>11, MergedInside
  <2>3. new = block
    BY <2>1, <2>2, <1>6, OneBlock
  <2> QED BY <2>1, <2>3 DEF Buddy!IInv, Buddy!Partition
<1>17. /\ \A w, p, j : <<p, j>> \in Buddy!FreeBlocksOf(w) <=>
                           j \in Buddy!Order /\ p \in ToSet(order[w][j])
       /\ \A w \in DOMAIN Zones : \A b \in Buddy!FreeBlocksOf(w) : b = <<b[1], b[2]>>
  BY BuddyBlocks DEF Buddy!IInv
<1>18. \A w \in DOMAIN Zones, j \in Buddy!Order : IsInjective(order[w][j])
  BY BuddyQueue DEF Buddy!IInv, Buddy!Partition
<1>19. \A w \in DOMAIN Zones : \A j \in Buddy!Order :
          order'[w][j] = IF w # z THEN order[w][j]
                         ELSE IF j = n THEN <<g(n)>> \o order[z][j]
                         ELSE IF j \in k..n - 1 THEN Buddy!Without(order[z][j], f(j))
                         ELSE order[z][j]
  BY <1>3, <1>4, <1>9
<1>20. ASSUME NEW w \in DOMAIN Zones, NEW j \in Buddy!Order
       PROVE  /\ order'[w][j] \in Seq(Buddy!Page) /\ IsInjective(order'[w][j])
              /\ \A p : p \in ToSet(order'[w][j]) <=>
                          \/ p \in ToSet(order[w][j]) /\ ~(w = z /\ j \in k..n - 1 /\ p = f(j))
                          \/ w = z /\ j = n /\ p = g(n)
  <2>1. order[w][j] \in Seq(Buddy!Page) /\ IsInjective(order[w][j])
    BY <1>4, <1>18
  <2>2. CASE w # z
    BY <2>1, <2>2, <1>19
  <2>3. CASE w = z /\ j = n
    <3> DEFINE q == order[w][j]
               x == g(n)
    <3>1. order'[w][j] = <<x>> \o q /\ j \notin k..n - 1
      BY <2>3, <1>11, <1>19
    <3>2. q \in Seq(Buddy!Page) /\ IsInjective(q) /\ x \in Buddy!Page /\ x \notin ToSet(q)
      BY <2>1, <2>3, <1>15, <1>16
    <3> HIDE DEF q, x
    <3>3. /\ <<x>> \o q \in Seq(Buddy!Page)
          /\ ToSet(<<x>> \o q) = ToSet(q) \cup {x}
          /\ IsInjective(q) /\ x \notin ToSet(q) => IsInjective(<<x>> \o q)
      BY <3>2, PrependQueue
    <3> QED BY <3>1, <3>2, <3>3, <2>3 DEF q, x
  <2>4. CASE w = z /\ j \in k..n - 1
    <3> DEFINE q == order[w][j]
               x == f(j)
    <3>1. order'[w][j] = Buddy!Without(q, x) /\ j # n
      BY <2>4, <1>11, <1>19
    <3>2. q \in Seq(Buddy!Page) /\ IsInjective(q)
      BY <2>1
    <3> HIDE DEF q, x
    <3>3. /\ Buddy!Without(q, x) \in Seq(Buddy!Page)
          /\ ToSet(Buddy!Without(q, x)) = ToSet(q) \ {x}
          /\ IsInjective(Buddy!Without(q, x))
      BY <3>2, WithoutIs
    <3> QED BY <3>1, <3>3, <2>4 DEF q, x
  <2>5. CASE w = z /\ j # n /\ j \notin k..n - 1
    BY <2>1, <2>5, <1>19
  <2> QED BY <2>2, <2>3, <2>4, <2>5
<1>21. Buddy!TypeOK'
  <2>1. order' \in [DOMAIN Zones -> [Buddy!Order -> Seq(Buddy!Page)]]
    <3>1. \A w \in DOMAIN Zones : order'[w] = [j \in Buddy!Order |-> order'[w][j]]
      BY <1>3, <1>4, <1>9
    <3>2. order' = [w \in DOMAIN Zones |-> order'[w]]
      BY <1>3, <1>4
    <3>3. \A w \in DOMAIN Zones : order'[w] \in [Buddy!Order -> Seq(Buddy!Page)]
      BY <3>1, <1>20
    <3> QED BY <3>2, <3>3
  <2>2. /\ isfree' \in [Buddy!Page -> BOOLEAN]
        /\ border' \in [Buddy!Page -> Buddy!Order]
    BY <1>3, <1>4, <1>11, <1>15
  <2>3. held' \subseteq Buddy!Page \X Buddy!Order
    BY <1>1, <1>4
  <2> QED BY <1>1, <1>4, <2>1, <2>2, <2>3 DEF Buddy!TypeOK
<1>22. \A w \in DOMAIN Zones : \A p, j : <<p, j>> \in Buddy!FreeBlocksOf(w)' <=>
         \/ <<p, j>> \in Buddy!FreeBlocksOf(w) /\ ~(w = z /\ j \in k..n - 1 /\ p = f(j))
         \/ w = z /\ j = n /\ p = g(n)
  <2>1. \A w \in DOMAIN Zones : \A p, j : <<p, j>> \in Buddy!FreeBlocksOf(w)' <=>
              j \in Buddy!Order /\ p \in ToSet(order'[w][j])
    BY <1>21, BlocksNext
  <2> QED BY <2>1, <1>11, <1>17, <1>20
\* The buddies are in no list of another zone.
<1>23. \A w \in DOMAIN Zones : \A b \in M : b \in Buddy!FreeBlocksOf(w) => w = z
  <2> SUFFICES ASSUME NEW w \in DOMAIN Zones, NEW b \in M, b \in Buddy!FreeBlocksOf(w)
               PROVE  w = z
    OBVIOUS
  <2>1. b \in Buddy!FreeBlocks /\ b \in Buddy!FreeBlocksOf(z)
    BY <1>13, BuddyBlocks DEF Buddy!IInv
  <2>2. b[1] \in Buddy!Pages(b)
    BY <2>1, BlockPlace
  <2>3. b[1] \in Buddy!PagesOf(w) /\ b[1] \in Buddy!PagesOf(z)
    BY <2>1, <2>2, <1>9 DEF Buddy!IInv, Buddy!Placed
  <2> QED BY <2>3, <1>9, ZonesApart
<1>24. \A w \in DOMAIN Zones : \A b : b \in Buddy!FreeBlocksOf(w)' <=>
         \/ b \in Buddy!FreeBlocksOf(w) /\ b \notin M
         \/ w = z /\ b = new
  <2> SUFFICES ASSUME NEW w \in DOMAIN Zones, NEW b
               PROVE  b \in Buddy!FreeBlocksOf(w)' <=>
                        \/ b \in Buddy!FreeBlocksOf(w) /\ b \notin M
                        \/ w = z /\ b = new
    OBVIOUS
  <2>1. b \in Buddy!FreeBlocksOf(w)' => \E p, j : b = <<p, j>>
    BY <1>21, BlocksNext
  <2>2. b \in Buddy!FreeBlocksOf(w) => \E p, j : b = <<p, j>>
    BY <1>17
  <2>3. ASSUME NEW p, NEW j, b = <<p, j>>
        PROVE  b \in Buddy!FreeBlocksOf(w)' <=>
                        \/ b \in Buddy!FreeBlocksOf(w) /\ b \notin M
                        \/ w = z /\ b = new
    <3>1. b = new <=> p = g(n) /\ j = n
      BY <2>3
    <3>2. b \in M <=> j \in k..n - 1 /\ p = f(j)
      BY <2>3, <1>10
    <3>3. b \in Buddy!FreeBlocksOf(w) /\ b \in M => w = z
      BY <1>23
    <3>4. b \in Buddy!FreeBlocksOf(w)' <=>
            \/ b \in Buddy!FreeBlocksOf(w) /\ ~(w = z /\ j \in k..n - 1 /\ p = f(j))
            \/ w = z /\ j = n /\ p = g(n)
      BY <2>3, <1>22
    <3> HIDE DEF new, M, f, g
    <3> QED BY <3>1, <3>2, <3>3, <3>4
  <2> QED BY <2>1, <2>2, <2>3
<1>25. \A w \in DOMAIN Zones, j \in Buddy!Order : Buddy!IsInjective(order'[w][j])
  BY <1>20, BuddyQueue
<1> DEFINE Result(zz, kk, ii, nn) ==
              /\ block = <<ii, kk>> /\ ii % 2^kk = 0
              /\ \A b \in Merged(ii, kk, nn) : b \in Buddy!FreeBlocksOf(zz)
              /\ \A t \in Buddy!Pages(<<Buddy!Grown(ii, kk, nn), nn>>) :
                   t \in Buddy!PagesOf(zz)
              /\ nn < MAX_ORDER => ~Buddy!MayMerge(zz, Buddy!Grown(ii, kk, nn), nn)
              /\ \A w \in DOMAIN Zones : \A b :
                   b \in Buddy!FreeBlocksOf(w)' <=>
                     \/ b \in Buddy!FreeBlocksOf(w) /\ b \notin Merged(ii, kk, nn)
                     \/ w = zz /\ b = <<Buddy!Grown(ii, kk, nn), nn>>
              /\ border' = [border EXCEPT ![Buddy!Grown(ii, kk, nn)] = nn]
              /\ isfree' = [isfree EXCEPT ![Buddy!Grown(ii, kk, nn)] = TRUE]
<1>26. Result(z, k, idx, n)
  <2>1. n < MAX_ORDER => ~Buddy!MayMerge(z, Buddy!Grown(idx, k, n), n)
    BY <1>3
  <2>2. /\ border' = [border EXCEPT ![Buddy!Grown(idx, k, n)] = n]
        /\ isfree' = [isfree EXCEPT ![Buddy!Grown(idx, k, n)] = TRUE]
    BY <1>3
  <2>3. block = <<idx, k>> /\ idx % 2^k = 0
    BY <1>6
  <2> QED BY <2>1, <2>2, <2>3, <1>13, <1>14, <1>24
<1> HIDE DEF Result
<1>27. \E zz \in DOMAIN Zones, kk \in 0..MAX_ORDER, ii \in Nat : \E nn \in kk..MAX_ORDER :
         Result(zz, kk, ii, nn)
  BY <1>26, <1>6, <1>9, <1>11
<1> QED BY <1>1, <1>2, <1>21, <1>25, <1>27 DEF Result

\* When __buddy_free_zone stops, the united block has no free buddy: not in its
\* zone, where the flags would tell, nor in another, as zones do not touch.
LEMMA NoBuddyLeft ==
  ASSUME Buddy!Assumption, Buddy!IInv, NEW z \in DOMAIN Zones,
         NEW n \in 0..MAX_ORDER, NEW x \in Nat, x % 2^n = 0,
         \A t \in Buddy!Pages(<<x, n>>) : t \in Buddy!PagesOf(z),
         ~Buddy!MayMerge(z, x, n),
         NEW c \in Buddy!FreeBlocks, c[2] = n, c[1] = Buddy!Flip(x, n)
  PROVE  FALSE
<1> DEFINE f == Buddy!Flip(x, n)
           h == 2^n
<1>1. isfree[f] /\ border[f] = n
  BY DEF Buddy!IInv, Buddy!FlagsOK
<1>2. f \notin Buddy!PagesOf(z)
  BY <1>1 DEF Buddy!MayMerge
<1>3. n \in 0..MAX_ORDER + 1
  <2>1. MAX_ORDER \in Nat
    BY Power
  <2> QED BY <2>1
<1>4. h \in Nat \ {0}
  BY <1>3, Power
<1>5. f \in Nat /\ (f = x + h \/ x = f + h)
  BY FlipIs
<1>6. PICK y \in DOMAIN Zones : c \in Buddy!FreeBlocksOf(y)
  BY BuddyBlocks DEF Buddy!IInv
<1>7. \A t \in Buddy!Pages(c) : t \in Buddy!PagesOf(y)
  BY <1>6 DEF Buddy!IInv, Buddy!Placed
<1>8. /\ \A t : t \in Buddy!Pages(<<x, n>>) <=> t \in Nat /\ x <= t /\ t < x + h
      /\ \A t : t \in Buddy!Pages(c) <=> t \in Nat /\ f <= t /\ t < f + h
  BY <1>3, BlockPages, BlockPlace
<1> HIDE DEF f, h
<1>9. f \in Buddy!PagesOf(y)
  BY <1>4, <1>5, <1>7, <1>8
<1>10. CASE f = x + h
  <2> DEFINE t == x + h - 1
  <2>1. t \in Nat /\ t + 1 = f /\ x <= t /\ t < x + h
    BY <1>4, <1>10
  <2> HIDE DEF t
  <2>2. t \in Buddy!PagesOf(z)
    BY <2>1, <1>8
  <2>3. t + 1 \in Buddy!PagesOf(y)
    BY <2>1, <1>9
  <2>4. z = y
    BY <2>2, <2>3, ZonesApart
  <2> QED BY <2>4, <1>2, <1>9
<1>11. CASE x = f + h
  <2> DEFINE t == f + h - 1
  <2>1. t \in Nat /\ t + 1 = x /\ f <= t /\ t < f + h
    BY <1>4, <1>5, <1>11
  <2> HIDE DEF t
  <2>2. t \in Buddy!PagesOf(y)
    BY <2>1, <1>7, <1>8
  <2>3. x \in Buddy!PagesOf(z)
    BY <1>4, <1>8
  <2>4. t + 1 \in Buddy!PagesOf(z)
    BY <2>1, <2>3
  <2>5. z = y
    BY <2>2, <2>4, ZonesApart
  <2> QED BY <2>5, <1>2, <1>9
<1> QED BY <1>5, <1>10, <1>11

\* buddy_free takes a block back and unites it with its buddies.
LEMMA FreeKeeps ==
  ASSUME Buddy!Assumption, Buddy!IInv, NEW block \in held, Buddy!Free(block)
  PROVE  /\ Buddy!IInv' /\ held' = held \ {block}
         /\ (Buddy!FreePages \cup Buddy!Unfreed)'
              = (Buddy!FreePages \cup Buddy!Unfreed) \cup Buddy!Pages(block)
<1>1. /\ todo = << >> /\ todo' = todo /\ held' = held \ {block}
      /\ Buddy!TypeOK'
      /\ \A y \in DOMAIN Zones, j \in Buddy!Order : Buddy!IsInjective(order'[y][j])
  BY FreeStep
<1>2. PICK z \in DOMAIN Zones, k \in 0..MAX_ORDER, idx \in Nat : \E n \in k..MAX_ORDER :
              /\ block = <<idx, k>> /\ idx % 2^k = 0
              /\ \A b \in Merged(idx, k, n) : b \in Buddy!FreeBlocksOf(z)
              /\ \A t \in Buddy!Pages(<<Buddy!Grown(idx, k, n), n>>) : t \in Buddy!PagesOf(z)
              /\ n < MAX_ORDER => ~Buddy!MayMerge(z, Buddy!Grown(idx, k, n), n)
              /\ \A y \in DOMAIN Zones : \A b :
                   b \in Buddy!FreeBlocksOf(y)' <=>
                     \/ b \in Buddy!FreeBlocksOf(y) /\ b \notin Merged(idx, k, n)
                     \/ y = z /\ b = <<Buddy!Grown(idx, k, n), n>>
              /\ border' = [border EXCEPT ![Buddy!Grown(idx, k, n)] = n]
              /\ isfree' = [isfree EXCEPT ![Buddy!Grown(idx, k, n)] = TRUE]
  BY FreeStep
<1>3. PICK n \in k..MAX_ORDER :
              /\ block = <<idx, k>> /\ idx % 2^k = 0
              /\ \A b \in Merged(idx, k, n) : b \in Buddy!FreeBlocksOf(z)
              /\ \A t \in Buddy!Pages(<<Buddy!Grown(idx, k, n), n>>) : t \in Buddy!PagesOf(z)
              /\ n < MAX_ORDER => ~Buddy!MayMerge(z, Buddy!Grown(idx, k, n), n)
              /\ \A y \in DOMAIN Zones : \A b :
                   b \in Buddy!FreeBlocksOf(y)' <=>
                     \/ b \in Buddy!FreeBlocksOf(y) /\ b \notin Merged(idx, k, n)
                     \/ y = z /\ b = <<Buddy!Grown(idx, k, n), n>>
              /\ border' = [border EXCEPT ![Buddy!Grown(idx, k, n)] = n]
              /\ isfree' = [isfree EXCEPT ![Buddy!Grown(idx, k, n)] = TRUE]
  BY <1>2
<1> DEFINE g == Buddy!Grown(idx, k, n)
           new == <<g, n>>
           M == Merged(idx, k, n)
           E == M \cup {block}
<1>4. n \in 0..MAX_ORDER /\ n \in 0..MAX_ORDER + 1 /\ MAX_ORDER \in Nat
  <2>1. MAX_ORDER \in Nat
    BY Power
  <2> QED BY <2>1
<1>5. /\ \A b \in M : b \in Buddy!FreeBlocksOf(z)
      /\ \A t \in Buddy!Pages(new) : t \in Buddy!PagesOf(z)
      /\ n < MAX_ORDER => ~Buddy!MayMerge(z, g, n)
      /\ border' = [border EXCEPT ![g] = n]
      /\ isfree' = [isfree EXCEPT ![g] = TRUE]
  BY <1>3
<1>6. \A y \in DOMAIN Zones : \A b : b \in Buddy!FreeBlocksOf(y)' <=>
                     \/ b \in Buddy!FreeBlocksOf(y) /\ b \notin M
                     \/ y = z /\ b = new
  BY <1>3
<1>7. g \in Nat /\ g % 2^n = 0
  BY <1>3, GrownIs
<1>8. new[1] = g /\ new[2] = n
  OBVIOUS
<1>9. /\ \A e \in E : \A t \in Buddy!Pages(e) : t \in Buddy!Pages(new)
      /\ \A e \in E : e[2] <= n
      /\ \A e \in M : e[2] < n
  BY <1>3, MergedInside
<1>10. \A t \in Buddy!Pages(new) : \E e \in E : t \in Buddy!Pages(e)
  BY <1>3, MergedCover
<1> HIDE DEF g
<1>11. g \in Buddy!Pages(new) /\ Buddy!Aligned(new)
  BY <1>4, <1>7, BlockPages
<1> HIDE DEF new, M
<1>12. \A b : b \in Buddy!FreeBlocks' <=>
                 (b \in Buddy!FreeBlocks /\ b \notin M) \/ b = new
  <2>1. \A b : b \in Buddy!FreeBlocks' <=> \E y \in DOMAIN Zones : b \in Buddy!FreeBlocksOf(y)'
    BY <1>1, BlocksNext
  <2>2. \A b : b \in Buddy!FreeBlocks <=> \E y \in DOMAIN Zones : b \in Buddy!FreeBlocksOf(y)
    BY BuddyBlocks DEF Buddy!IInv
  <2> QED BY <2>1, <2>2, <1>6
<1>13. /\ \A b \in M : b \in Buddy!FreeBlocks /\ b # block
       /\ \A b \in Buddy!FreeBlocks : b \notin held
  <2>1. \A b \in M : b \in Buddy!FreeBlocks
    BY <1>5, BuddyBlocks DEF Buddy!IInv
  <2>2. \A b \in Buddy!FreeBlocks : b \notin held
    BY DEF Buddy!IInv, Buddy!Partition
  <2> QED BY <2>1, <2>2
\* A block that has a page of the new one is one of those it is made of.
<1>14. \A b \in Buddy!FreeBlocks \cup held : \A t \in Buddy!Pages(b) :
          t \in Buddy!Pages(new) => b \in E
  <2> SUFFICES ASSUME NEW b \in Buddy!FreeBlocks \cup held, NEW t \in Buddy!Pages(b),
                      t \in Buddy!Pages(new)
               PROVE  b \in E
    OBVIOUS
  <2>1. PICK e \in E : t \in Buddy!Pages(e)
    BY <1>10
  <2>2. e \in Buddy!FreeBlocks \cup held
    BY <1>13
  <2>3. b = e
    BY <2>1, <2>2, OneBlock
  <2> QED BY <2>3
<1>15. \A e \in E : e \in Buddy!FreeBlocks \cup held
  BY <1>13
<1>16. block \in E /\ \A b \in E : b # block => b \in M
  OBVIOUS
<1> HIDE DEF E
\* The new block is none of the others.
<1>17. new \notin held' /\ \A b \in Buddy!FreeBlocks : b \notin M => b # new /\ b[1] # g
  <2>1. ASSUME NEW b \in Buddy!FreeBlocks, b \notin M, b = new \/ b[1] = g PROVE FALSE
    <3>1. b[1] = g /\ b[1] \in Buddy!Pages(b)
      BY <2>1, <1>8, BlockPlace
    <3>2. b \in E
      BY <3>1, <1>11, <1>14
    <3> QED BY <2>1, <3>2, <1>13, <1>16
  <2>2. ASSUME new \in held' PROVE FALSE
    <3>1. new \in held /\ new # block
      BY <2>2, <1>1
    <3>2. new \in E
      BY <3>1, <1>11, <1>14
    <3> QED BY <3>1, <3>2, <1>13, <1>16
  <2> QED BY <2>1, <2>2
<1>18. \A b : b \in (Buddy!FreeBlocks \cup held)' <=>
                 (b \in Buddy!FreeBlocks \cup held /\ b \notin E) \/ b = new
  <2> SUFFICES ASSUME NEW b
               PROVE  b \in Buddy!FreeBlocks' \/ b \in held' <=>
                        (b \in Buddy!FreeBlocks \cup held /\ b \notin E) \/ b = new
    OBVIOUS
  <2>1. b \in E <=> b \in M \/ b = block
    BY DEF E
  <2> QED BY <2>1, <1>1, <1>12, <1>13
<1>19. g \in Buddy!Page
  BY <1>5, <1>11, ZonesApart
<1>20. /\ isfree \in [Buddy!Page -> BOOLEAN] /\ border \in [Buddy!Page -> Buddy!Order]
       /\ Buddy!Page \subseteq Nat /\ Buddy!Order = 0..MAX_ORDER
  BY BuddyBlocks DEF Buddy!IInv, Buddy!TypeOK
<1>21. /\ isfree'[g] /\ border'[g] = n
       /\ \A p \in Buddy!Page : p # g => isfree'[p] = isfree[p] /\ border'[p] = border[p]
  BY <1>5, <1>19, <1>20
<1>22. Buddy!Partition'
  <2>1. ASSUME NEW a \in (Buddy!FreeBlocks \cup held)', NEW b \in (Buddy!FreeBlocks \cup held)',
               a # b
        PROVE  Buddy!Pages(a) \cap Buddy!Pages(b) = {}
    <3> SUFFICES ASSUME NEW t \in Buddy!Pages(a), t \in Buddy!Pages(b) PROVE FALSE
      OBVIOUS
    <3>1. CASE a = new
      <4>1. b \in Buddy!FreeBlocks \cup held /\ b \notin E
        BY <2>1, <3>1, <1>18
      <4> QED BY <3>1, <4>1, <1>14
    <3>2. CASE b = new
      <4>1. a \in Buddy!FreeBlocks \cup held /\ a \notin E
        BY <2>1, <3>2, <1>18
      <4> QED BY <3>2, <4>1, <1>14
    <3>3. CASE a # new /\ b # new
      <4>1. a \in Buddy!FreeBlocks \cup held /\ b \in Buddy!FreeBlocks \cup held
        BY <3>3, <1>18
      <4> QED BY <4>1, <2>1, OneBlock
    <3> QED BY <3>1, <3>2, <3>3
  <2>2. (Buddy!FreeBlocks \cap held)' = {}
    BY <1>1, <1>12, <1>13, <1>17
  <2>3. \A t : (\E b \in (Buddy!FreeBlocks \cup held)' : t \in Buddy!Pages(b)) <=>
                 (\E b \in Buddy!FreeBlocks \cup held : t \in Buddy!Pages(b))
    BY <1>9, <1>10, <1>15, <1>18
  <2>4. (UNION {Buddy!Pages(b) : b \in Buddy!FreeBlocks \cup held})'
          = (Buddy!Available \ Buddy!Unfreed)'
    <3>1. Buddy!Available' = Buddy!Available /\ Buddy!Unfreed' = Buddy!Unfreed
      BY <1>1 DEF Buddy!Available, Buddy!Unfreed
    <3>2. UNION {Buddy!Pages(b) : b \in Buddy!FreeBlocks \cup held}
            = Buddy!Available \ Buddy!Unfreed
      BY DEF Buddy!IInv, Buddy!Partition
    <3> QED BY <2>3, <3>1, <3>2
  <2> QED BY <2>1, <2>2, <2>4, <1>1 DEF Buddy!Partition
<1>23. Buddy!Placed'
  <2>1. \A b \in (Buddy!FreeBlocks \cup held)' : Buddy!Aligned(b)
    BY <1>11, <1>18 DEF Buddy!IInv, Buddy!Placed
  <2>2. \A y \in DOMAIN Zones : \A b \in Buddy!FreeBlocksOf(y)' :
           Buddy!Pages(b) \subseteq Buddy!PagesOf(y)
    BY <1>5, <1>6 DEF Buddy!IInv, Buddy!Placed
  <2>3. \A b \in held' : \E y \in DOMAIN Zones : Buddy!Pages(b) \subseteq Buddy!PagesOf(y)
    BY <1>1 DEF Buddy!IInv, Buddy!Placed
  <2> QED BY <2>1, <2>2, <2>3 DEF Buddy!Placed
<1>24. Buddy!FlagsOK'
  <2>1. ASSUME NEW b \in Buddy!FreeBlocks' PROVE isfree'[b[1]] /\ border'[b[1]] = b[2]
    <3>1. CASE b = new
      BY <3>1, <1>8, <1>21
    <3>2. CASE b \in Buddy!FreeBlocks /\ b \notin M
      <4>1. isfree[b[1]] /\ border[b[1]] = b[2] /\ b[1] \in Buddy!Page
        BY <3>2, BuddyBlocks DEF Buddy!IInv, Buddy!FlagsOK
      <4> QED BY <3>2, <4>1, <1>17, <1>21
    <3> QED BY <3>1, <3>2, <1>12
  <2>2. ASSUME NEW p \in Buddy!Page, isfree'[p]
        PROVE  /\ Buddy!Aligned(<<p, border'[p]>>)
               /\ \/ <<p, border'[p]>> \in Buddy!FreeBlocks'
                  \/ \E b \in (Buddy!FreeBlocks \cup held)' :
                        p \in Buddy!Pages(b) /\ border'[p] < b[2]
    <3>1. CASE p = g
      <4>1. <<p, border'[p]>> = new
        BY <3>1, <1>21 DEF new
      <4> QED BY <4>1, <1>11, <1>12
    <3>2. CASE p # g
      <4>1. isfree[p] /\ border'[p] = border[p]
        BY <2>2, <3>2, <1>21
      <4> DEFINE j == border[p]
                 own == <<p, j>>
      <4>2. /\ Buddy!Aligned(own)
            /\ \/ own \in Buddy!FreeBlocks
               \/ \E b \in Buddy!FreeBlocks \cup held : p \in Buddy!Pages(b) /\ j < b[2]
        BY <4>1 DEF Buddy!IInv, Buddy!FlagsOK
      <4>3. p \in Nat /\ j \in 0..MAX_ORDER /\ own[1] = p /\ own[2] = j
        BY <1>20
      <4> HIDE DEF j, own
      <4>4. CASE own \in Buddy!FreeBlocks
        <5>1. CASE own \notin M
          <6>1. own \in Buddy!FreeBlocks'
            BY <4>4, <5>1, <1>12
          <6> QED BY <4>1, <4>2, <6>1 DEF own, j
        <5>2. CASE own \in M
          <6>1. own[1] \in Buddy!Pages(own) /\ own \in E /\ own[2] < n
            BY <4>4, <5>2, <1>9, BlockPlace DEF E
          <6>2. p \in Buddy!Pages(new) /\ j < new[2]
            BY <4>3, <6>1, <1>8, <1>9
          <6> QED BY <4>1, <4>2, <6>2, <1>18 DEF own, j
        <5> QED BY <5>1, <5>2
      <4>5. CASE \E b \in Buddy!FreeBlocks \cup held : p \in Buddy!Pages(b) /\ j < b[2]
        <5>1. PICK b \in Buddy!FreeBlocks \cup held : p \in Buddy!Pages(b) /\ j < b[2]
          BY <4>5
        <5>2. \E d \in (Buddy!FreeBlocks \cup held)' : p \in Buddy!Pages(d) /\ j < d[2]
          <6>1. CASE b \notin E
            BY <5>1, <6>1, <1>18
          <6>2. CASE b \in E
            <7>1. p \in Buddy!Pages(new) /\ b[2] <= n /\ b[2] \in Nat
              BY <5>1, <6>2, <1>9, BlockPlace
            <7>2. j < new[2]
              BY <4>3, <5>1, <7>1, <1>4, <1>8
            <7> QED BY <7>1, <7>2, <1>18
          <6> QED BY <6>1, <6>2
        <5> QED BY <4>1, <4>2, <5>2 DEF own, j
      <4> QED BY <4>2, <4>4, <4>5
    <3> QED BY <3>1, <3>2
  <2> QED BY <2>1, <2>2 DEF Buddy!FlagsOK
<1>25. Buddy!Coalesced'
  <2> SUFFICES ASSUME NEW b \in Buddy!FreeBlocks', b[2] < MAX_ORDER,
                      <<Buddy!Flip(b[1], b[2]), b[2]>> \in Buddy!FreeBlocks'
               PROVE  FALSE
    BY DEF Buddy!Coalesced
  <2> DEFINE d == <<Buddy!Flip(b[1], b[2]), b[2]>>
  <2>1. d[1] = Buddy!Flip(b[1], b[2]) /\ d[2] = b[2] /\ d \in Buddy!FreeBlocks'
    OBVIOUS
  <2>2. ~(b \in Buddy!FreeBlocks /\ d \in Buddy!FreeBlocks)
    BY DEF Buddy!IInv, Buddy!Coalesced
  <2> HIDE DEF d
  <2>3. ASSUME NEW c \in Buddy!FreeBlocks, n < MAX_ORDER, c[2] = n, c[1] = Buddy!Flip(g, n)
        PROVE  FALSE
    <3>1. ~Buddy!MayMerge(z, g, n) /\ \A t \in Buddy!Pages(<<g, n>>) : t \in Buddy!PagesOf(z)
      BY <2>3, <1>5 DEF new
    <3> QED BY <2>3, <3>1, <1>4, <1>7, NoBuddyLeft
  <2>4. CASE b = new
    <3>1. n < MAX_ORDER /\ d[1] = Buddy!Flip(g, n) /\ d[2] = n
      BY <2>1, <2>4, <1>8
    <3>2. d # new
      BY <3>1, <1>4, <1>7, <1>8, FlipIs
    <3>3. d \in Buddy!FreeBlocks
      BY <2>1, <3>2, <1>12
    <3> QED BY <2>3, <3>1, <3>3
  <2>5. CASE b # new
    <3>1. b \in Buddy!FreeBlocks
      BY <2>5, <1>12
    <3>2. d = new
      BY <2>1, <2>2, <3>1, <1>12
    <3>3. b[1] \in Nat /\ b[1] % 2^b[2] = 0 /\ b[2] \in 0..MAX_ORDER
      BY <3>1, BlockPlace
    <3>4. Buddy!Flip(Buddy!Flip(b[1], b[2]), b[2]) = b[1]
      BY <3>3, FlipIs
    <3>5. b[2] = n /\ b[1] = Buddy!Flip(g, n) /\ n < MAX_ORDER
      BY <2>1, <3>2, <3>4, <1>8
    <3> QED BY <2>3, <3>1, <3>5
  <2> QED BY <2>4, <2>5
<1>26. Buddy!SetupOK'
  BY <1>1 DEF Buddy!SetupOK
<1>27. Buddy!Unfreed = {} /\ Buddy!Unfreed' = {}
  <2>1. ToSet(todo) = {} /\ ToSet(todo') = {}
    BY <1>1, EmptyQueue
  <2> QED BY <2>1, BuddyQueue DEF Buddy!Unfreed
<1>28. \A t : t \in Buddy!FreePages' <=> t \in Buddy!FreePages \/ t \in Buddy!Pages(block)
  <2>1. \A t : t \in Buddy!FreePages <=> \E b \in Buddy!FreeBlocks : t \in Buddy!Pages(b)
    BY DEF Buddy!FreePages
  <2>2. \A t : t \in Buddy!FreePages' <=> \E b \in Buddy!FreeBlocks' : t \in Buddy!Pages(b)
    BY DEF Buddy!FreePages
  <2>3. ASSUME NEW t, t \in Buddy!FreePages'
        PROVE  t \in Buddy!FreePages \/ t \in Buddy!Pages(block)
    <3>1. PICK b \in Buddy!FreeBlocks' : t \in Buddy!Pages(b)
      BY <2>2, <2>3
    <3>2. CASE b \in Buddy!FreeBlocks
      BY <2>1, <3>1, <3>2
    <3>3. CASE b = new
      BY <2>1, <3>1, <3>3, <1>10, <1>13, <1>16
    <3> QED BY <3>1, <3>2, <3>3, <1>12
  <2>4. ASSUME NEW t, t \in Buddy!FreePages \/ t \in Buddy!Pages(block)
        PROVE  t \in Buddy!FreePages'
    <3>1. PICK b \in Buddy!FreeBlocks \cup {block} : t \in Buddy!Pages(b)
      BY <2>1, <2>4
    <3>2. CASE b \in E
      BY <2>2, <3>1, <3>2, <1>9, <1>12
    <3>3. CASE b \notin E
      <4>1. b \in Buddy!FreeBlocks /\ b \notin M
        BY <3>3, <1>16 DEF E
      <4> QED BY <2>2, <3>1, <4>1, <1>12
    <3> QED BY <3>2, <3>3
  <2> QED BY <2>3, <2>4
<1>29. (Buddy!FreePages \cup Buddy!Unfreed)'
              = (Buddy!FreePages \cup Buddy!Unfreed) \cup Buddy!Pages(block)
  BY <1>27, <1>28
<1> QED BY <1>1, <1>22, <1>23, <1>24, <1>25, <1>26, <1>29 DEF Buddy!IInv

\* The other components leave the page allocator alone.
LEMMA BuddyBeside == AllSpec => Buddy!Spec
<1>1. AllInit => Buddy!Init
  BY DEF AllInit
<1>2. [AllNext]_allVars => [Buddy!Next]_(Buddy!vars)
  BY DEF AllNext, allVars, buddyVars, Buddy!vars
<1> QED BY <1>1, <1>2, PTL DEF AllSpec, Buddy!Spec

\* A step of nobody.
LEMMA BuddyRests ==
  ASSUME Buddy!IInv, UNCHANGED Buddy!vars
  PROVE  /\ Buddy!IInv' /\ held' = held
         /\ (Buddy!FreePages \cup Buddy!Unfreed)' = Buddy!FreePages \cup Buddy!Unfreed
<1>1. UNCHANGED <<isfree, border, order, todo, call, held>>
  BY DEF Buddy!vars
<1>2. /\ Buddy!FreeBlocks' = Buddy!FreeBlocks
      /\ \A z \in DOMAIN Zones : Buddy!FreeBlocksOf(z)' = Buddy!FreeBlocksOf(z)
      /\ Buddy!Unfreed' = Buddy!Unfreed
  BY <1>1 DEF Buddy!FreeBlocks, Buddy!FreeBlocksOf, Buddy!Unfreed
<1>3. Buddy!TypeOK'
  BY <1>1 DEF Buddy!IInv, Buddy!TypeOK
<1>4. Buddy!Partition' /\ Buddy!Coalesced'
  BY <1>1, <1>2 DEF Buddy!IInv, Buddy!Partition, Buddy!Coalesced
<1>5. Buddy!Placed' /\ Buddy!FlagsOK'
  BY <1>1, <1>2 DEF Buddy!IInv, Buddy!Placed, Buddy!FlagsOK
<1>6. Buddy!SetupOK'
  BY <1>1, <1>2 DEF Buddy!IInv, Buddy!SetupOK
<1> QED BY <1>1, <1>2, <1>3, <1>4, <1>5, <1>6 DEF Buddy!IInv, Buddy!FreePages

\* IInv is an invariant: every step keeps it.
LEMMA BuddyAlways == ASSUME Buddy!Assumption PROVE Buddy!Spec => []Buddy!IInv
<1>1. Buddy!Init => Buddy!IInv
  BY BuddyInit
<1>2. ASSUME Buddy!IInv, [Buddy!Next]_(Buddy!vars) PROVE Buddy!IInv'
  <2>1. CASE UNCHANGED Buddy!vars
    BY <1>2, <2>1, BuddyRests
  <2>2. CASE Buddy!ZoneFree
    BY <1>2, <2>2, ZoneFreeKeeps
  <2>3. ASSUME NEW c \in Proc, Buddy!AllocBegin(c) \/ Buddy!AllocNextZone(c)
        PROVE  Buddy!IInv'
    BY <1>2, <2>3, CallerMoves
  <2>4. ASSUME NEW c \in Proc, Buddy!AllocZone(c) PROVE Buddy!IInv'
    BY <1>2, <2>4, AllocZoneKeeps
  <2>5. ASSUME NEW block \in held, Buddy!Free(block) PROVE Buddy!IInv'
    BY <1>2, <2>5, FreeKeeps
  <2> QED BY <1>2, <2>1, <2>2, <2>3, <2>4, <2>5 DEF Buddy!Next
<1> QED BY <1>1, <1>2, PTL DEF Buddy!Spec

\* Whatever zones and free ranges the boot allocator leaves, and however callers
\* interleave, the free blocks and those given out partition the memory handed
\* over; the descriptors of buddies tell the truth; free buddies are united; and
\* a zone that turns a request down has no run of pages that would do (buddy.c).
THEOREM BuddyCorrect == AllSpec => []BuddyOK
<1>1. Buddy!Assumption
  BY InstanceAssumption
<1>2. Buddy!IInv => BuddyOK
  BY <1>1, BuddyDescriptors, BuddyHides DEF BuddyOK, Buddy!IInv, Buddy!WellFormed
<1> QED BY <1>1, <1>2, BuddyBeside, BuddyAlways, PTL

\* buddy_alloc and buddy_free implement an allocator of aligned exclusive blocks:
\* splits, unions and buddy_setup are no steps of it (buddy.c).
THEOREM BuddyImplements == AllSpec => BuddyImplementsAllocator
<1> DEFINE free == Buddy!FreePages \cup Buddy!Unfreed
<1>1. Buddy!Assumption
  BY InstanceAssumption
<1>2. ASSUME Buddy!Init PROVE Buddy!Abstract!Init
  <2>1. Buddy!IInv /\ held = {} /\ todo = FreeRanges
    BY <1>1, <1>2, BuddyInit DEF Buddy!Init
  <2>2. Buddy!Unfreed = Buddy!Available
    BY <2>1 DEF Buddy!Unfreed, Buddy!Available
  <2>3. Buddy!FreePages \subseteq Buddy!Available
    BY <1>1, <2>1, BlocksAvailable DEF Buddy!FreePages
  <2> QED BY <2>1, <2>2, <2>3 DEF Buddy!Abstract!Init
<1>3. ASSUME Buddy!IInv, [Buddy!Next]_(Buddy!vars)
      PROVE  [Buddy!Abstract!Next]_(Buddy!Abstract!vars)
  <2> SUFFICES ASSUME ~UNCHANGED <<free, held>>
               PROVE  Buddy!Abstract!Next
    BY DEF Buddy!Abstract!vars
  <2>1. CASE UNCHANGED Buddy!vars
    BY <1>3, <2>1, BuddyRests
  <2>2. CASE Buddy!ZoneFree
    BY <1>1, <1>3, <2>2, ZoneFreeKeeps
  <2>3. ASSUME NEW c \in Proc, Buddy!AllocBegin(c) \/ Buddy!AllocNextZone(c)
        PROVE  Buddy!Abstract!Next
    <3>1. UNCHANGED <<order, todo, held>>
      BY <2>3 DEF Buddy!AllocBegin, Buddy!AllocNextZone
    <3>2. UNCHANGED free
      BY <3>1 DEF Buddy!FreePages, Buddy!FreeBlocks, Buddy!FreeBlocksOf, Buddy!Unfreed
    <3> QED BY <3>1, <3>2
  <2>4. ASSUME NEW c \in Proc, Buddy!AllocZone(c) PROVE Buddy!Abstract!Next
    <3>1. PICK k \in 0..MAX_ORDER, idx \in Nat :
            /\ idx % 2^k = 0
            /\ idx \in Buddy!Pages(<<idx, k>>)
            /\ Buddy!Pages(<<idx, k>>) \subseteq free
            /\ free' = free \ Buddy!Pages(<<idx, k>>)
            /\ held' = held \cup {<<idx, k>>}
      BY <1>1, <1>3, <2>4, AllocZoneKeeps
    <3> DEFINE b == <<idx, k>>
    <3>2. b[1] = idx /\ b[2] = k /\ Buddy!Abstract!Pages(b) = Buddy!Pages(b)
      BY DEF Buddy!Abstract!Pages, Buddy!Pages
    <3> HIDE DEF b
    <3>3. Buddy!Abstract!Alloc(b)
      <4>1. /\ b[1] % 2^b[2] = 0
            /\ Buddy!Pages(b) \subseteq free
            /\ free' = free \ Buddy!Pages(b)
            /\ held' = held \cup {b}
        BY <3>1, <3>2 DEF b
      <4> QED BY <3>2, <4>1 DEF Buddy!Abstract!Alloc
    <3>4. idx \in free
      BY <3>1
    <3> QED BY <3>3, <3>4 DEF Buddy!Abstract!Next, b
  <2>5. ASSUME NEW block \in held, Buddy!Free(block) PROVE Buddy!Abstract!Next
    <3>1. held' = held \ {block} /\ free' = free \cup Buddy!Pages(block)
      BY <1>1, <1>3, <2>5, FreeKeeps
    <3>2. Buddy!Abstract!Pages(block) = Buddy!Pages(block)
      BY DEF Buddy!Abstract!Pages, Buddy!Pages
    <3>3. Buddy!Abstract!Free(block)
      BY <3>1, <3>2 DEF Buddy!Abstract!Free
    <3> QED BY <3>3 DEF Buddy!Abstract!Next
  <2> QED BY <1>3, <2>1, <2>2, <2>3, <2>4, <2>5 DEF Buddy!Next
<1>4. Buddy!Spec => Buddy!Abstract!Spec
  BY <1>1, <1>2, <1>3, BuddyAlways, PTL DEF Buddy!Spec, Buddy!Abstract!Spec
<1> QED BY <1>4, BuddyBeside, PTL DEF BuddyImplementsAllocator, Buddy!ImplementsAllocator

-----------------------------------------------------------------------------
(* The file system.  First, the operators it is made of.                   *)

\* An element more in a sequence.
LEMMA Inserted ==
  ASSUME NEW S, NEW s \in Seq(S), NEW i \in 1..Len(s) + 1, NEW e \in S
  PROVE  /\ Ramfs!InsertAt(s, i, e) \in Seq(S)
         /\ Len(Ramfs!InsertAt(s, i, e)) = Len(s) + 1
         /\ Ramfs!InsertAt(s, i, e)[i] = e
         /\ \A k \in 1..i - 1 : Ramfs!InsertAt(s, i, e)[k] = s[k]
         /\ \A k \in i..Len(s) : Ramfs!InsertAt(s, i, e)[k + 1] = s[k]
<1> DEFINE l == SubSeq(s, 1, i - 1)
           r == SubSeq(s, i, Len(s))
           t == (l \o <<e>>) \o r
<1>1. Len(s) \in Nat /\ i \in Nat
  OBVIOUS
<1>2. /\ l \in Seq(S) /\ Len(l) = i - 1
      /\ \A k \in 1..i - 1 : l[k] = s[k]
  <2>1. 1..i - 1 \subseteq DOMAIN s
    BY <1>1
  <2>2. \A k \in 1..i - 1 : s[k] \in S
    BY <2>1, ElementOfSeq
  <2> QED BY <1>1, <2>2
<1>3. /\ r \in Seq(S) /\ Len(r) = Len(s) - i + 1
      /\ \A k \in 1..Len(s) - i + 1 : r[k] = s[k + i - 1]
  <2>1. \A k \in i..Len(s) : s[k] \in S
    BY <1>1, ElementOfSeq
  <2> QED BY <1>1, <2>1
<1> HIDE DEF l, r
<1>4. /\ l \o <<e>> \in Seq(S) /\ Len(l \o <<e>>) = i
      /\ (l \o <<e>>)[i] = e
      /\ \A k \in 1..i - 1 : (l \o <<e>>)[k] = l[k]
  BY <1>1, <1>2
<1>5. /\ t \in Seq(S) /\ Len(t) = Len(s) + 1
      /\ \A k \in 1..i : t[k] = (l \o <<e>>)[k]
      /\ \A k \in i + 1..Len(s) + 1 : t[k] = r[k - i]
  BY <1>1, <1>3, <1>4
<1>6. t = Ramfs!InsertAt(s, i, e)
  BY DEF Ramfs!InsertAt, l, r
<1> HIDE DEF t
<1>7. ASSUME NEW k \in i..Len(s) PROVE t[k + 1] = s[k]
  <2>1. /\ k + 1 \in i + 1..Len(s) + 1 /\ k + 1 - i \in 1..Len(s) - i + 1
        /\ (k + 1 - i) + i - 1 = k
    BY <1>1
  <2>2. t[k + 1] = r[k + 1 - i]
    BY <1>5, <2>1
  <2>3. r[k + 1 - i] = s[(k + 1 - i) + i - 1]
    BY <1>3, <2>1
  <2> QED BY <2>1, <2>2, <2>3
<1>8. t[i] = e /\ \A k \in 1..i - 1 : t[k] = s[k]
  BY <1>1, <1>2, <1>4, <1>5
<1> QED BY <1>5, <1>6, <1>7, <1>8

\* The end of a page.
LEMMA PageEnds ==
  ASSUME Ramfs!Assumption, NEW a \in Nat, NEW b \in Nat,
         a % PAGE_SIZE = 0, b % PAGE_SIZE = 0
  PROVE  /\ a < b => a + PAGE_SIZE <= b
         /\ (a + PAGE_SIZE) % PAGE_SIZE = 0
<1>1. PAGE_SIZE \in Nat \ {0}
  BY DEF Ramfs!Assumption
<1> DEFINE p == a \div PAGE_SIZE
           q == b \div PAGE_SIZE
<1>2. p \in Nat /\ q \in Nat /\ a = PAGE_SIZE * p /\ b = PAGE_SIZE * q
  BY <1>1, Division
<1> HIDE DEF p, q
<1>3. ASSUME a < b PROVE a + PAGE_SIZE <= b
  <2>1. p < q
    BY <1>1, <1>2, <1>3, MultiplesOrder
  <2> QED BY <1>1, <1>2, <2>1, MultiplesApart
<1>4. (a + PAGE_SIZE) % PAGE_SIZE = 0
  <2>1. a + PAGE_SIZE = PAGE_SIZE * (p + 1) /\ p + 1 \in Nat
    BY <1>1, <1>2
  <2> QED BY <1>1, <2>1, MultiplesAligned
<1> QED BY <1>3, <1>4

\* The page a byte is in.
LEMMA PageBegins ==
  ASSUME Ramfs!Assumption, NEW o \in Nat
  PROVE  /\ o - (o % PAGE_SIZE) \in 0..o /\ o < o - (o % PAGE_SIZE) + PAGE_SIZE
         /\ (o - (o % PAGE_SIZE)) % PAGE_SIZE = 0
<1>1. PAGE_SIZE \in Nat \ {0}
  BY DEF Ramfs!Assumption
<1>2. /\ o \div PAGE_SIZE \in Nat /\ o % PAGE_SIZE \in 0..PAGE_SIZE - 1
      /\ o = PAGE_SIZE * (o \div PAGE_SIZE) + (o % PAGE_SIZE)
      /\ o - (o % PAGE_SIZE) = PAGE_SIZE * (o \div PAGE_SIZE)
  BY <1>1, Division
<1>3. PAGE_SIZE * (o \div PAGE_SIZE) \in Nat
  BY <1>1, <1>2
<1>4. (PAGE_SIZE * (o \div PAGE_SIZE)) % PAGE_SIZE = 0
  BY <1>1, <1>2, MultiplesAligned
<1> QED BY <1>1, <1>2, <1>3, <1>4

\* Pages in order: a page that is not in front of another is behind it.
LEMMA PagesInOrder ==
  ASSUME Ramfs!Assumption, NEW data \in Seq(Ramfs!Page),
         \A k \in DOMAIN data : /\ data[k].offs % PAGE_SIZE = 0
                                /\ k > 1 => data[k - 1].offs < data[k].offs,
         NEW k \in DOMAIN data
  PROVE  \A j \in 1..k - 1 : /\ j \in DOMAIN data /\ data[j].offs < data[k].offs
                             /\ data[j].offs + PAGE_SIZE <= data[k].offs
<1>1. DOMAIN data = 1..Len(data) /\ Len(data) \in Nat
  OBVIOUS
<1>2. \A j \in DOMAIN data : data[j].offs \in Nat
  <2>1. \A j \in DOMAIN data : data[j] \in Ramfs!Page
    BY <1>1, ElementOfSeq
  <2>2. LIMIT \in Nat
    BY DEF Ramfs!Assumption
  <2> QED BY <2>1, <2>2 DEF Ramfs!Page, Ramfs!Offset
<1> DEFINE T == {d \in 1..k - 1 : ~(data[k - d].offs < data[k].offs)}
<1>3. ASSUME T # {} PROVE FALSE
  <2>1. PICK d \in T : \A y \in T : d <= y
    <3>1. T \in SUBSET Nat
      BY <1>1
    <3> HIDE DEF T
    <3> QED BY <1>3, <3>1, Least
  <2>2. d \in 1..k - 1 /\ ~(data[k - d].offs < data[k].offs)
    OBVIOUS
  <2>3. /\ k - d \in DOMAIN data /\ k - d + 1 \in DOMAIN data /\ k - d + 1 > 1
        /\ k - d + 1 - 1 = k - d
    BY <1>1, <2>2
  <2>4. data[k - d].offs < data[k - d + 1].offs
    BY <2>3
  <2>5. CASE d = 1
    <3>1. k - d + 1 = k
      BY <1>1, <2>5
    <3> QED BY <2>2, <2>4, <3>1
  <2>6. CASE d # 1
    <3>1. d - 1 \in 1..k - 1 /\ k - (d - 1) = k - d + 1
      BY <1>1, <2>2, <2>6
    <3>2. d - 1 \notin T
      BY <2>1, <2>2
    <3>3. data[k - d + 1].offs < data[k].offs
      BY <3>1, <3>2
    <3> QED BY <1>2, <2>2, <2>3, <2>4, <3>3
  <2> QED BY <2>5, <2>6
<1>4. ASSUME NEW j \in 1..k - 1
      PROVE  /\ j \in DOMAIN data /\ data[j].offs < data[k].offs
             /\ data[j].offs + PAGE_SIZE <= data[k].offs
  <2>1. k - j \in 1..k - 1 /\ k - (k - j) = j /\ j \in DOMAIN data
    BY <1>1
  <2>2. data[j].offs < data[k].offs
    BY <1>3, <2>1
  <2> QED BY <1>2, <2>1, <2>2, PageEnds
<1> QED BY <1>4

\* What memcpy leaves.
LEMMA MemcpyIs ==
  ASSUME NEW dst, NEW at, NEW src, NEW from, NEW n, NEW i \in DOMAIN dst
  PROVE  /\ DOMAIN Ramfs!Memcpy(dst, at, src, from, n) = DOMAIN dst
         /\ Ramfs!Memcpy(dst, at, src, from, n)[i]
              = IF i \in at..at + n - 1 THEN src[from + i - at] ELSE dst[i]
BY DEF Ramfs!Memcpy

\* Files, their images and their pages.
LEMMA RamfsFiles ==
  ASSUME Ramfs!Assumption, Ramfs!IInv
  PROVE  /\ DOMAIN image = DOMAIN files /\ DOMAIN files = 1..Len(files)
         /\ Len(files) \in Nat /\ Len(image) = Len(files)
         /\ \A f \in DOMAIN files :
              /\ files[f] \in [name : Name, size : 0..LIMIT, data : Seq(Ramfs!Page)]
              /\ files[f].size \in Nat
              /\ files[f].data \in Seq(Ramfs!Page)
              /\ DOMAIN files[f].data = 1..Len(files[f].data)
              /\ Len(files[f].data) \in Nat
              /\ image[f] \in [name : Name, size : 0..LIMIT,
                               byte : [Ramfs!Offset -> Seq(Nat)]]
              /\ image[f].size \in Nat
              /\ image[f].name = files[f].name
              /\ \A k \in DOMAIN files[f].data :
                   /\ files[f].data[k] \in Ramfs!Page
                   /\ files[f].data[k].offs \in Nat
                   /\ files[f].data[k].offs % PAGE_SIZE = 0
                   /\ k > 1 => files[f].data[k - 1].offs < files[f].data[k].offs
<1>1. /\ files \in Seq([name : Name, size : 0..LIMIT, data : Seq(Ramfs!Page)])
      /\ image \in Seq([name : Name, size : 0..LIMIT,
                        byte : [Ramfs!Offset -> Seq(Nat)]])
      /\ Len(image) = Len(files)
      /\ \A f \in DOMAIN files : image[f].name = files[f].name
  BY DEF Ramfs!IInv, Ramfs!TypeOK
<1>2. /\ DOMAIN image = DOMAIN files /\ DOMAIN files = 1..Len(files)
      /\ Len(files) \in Nat
  BY <1>1
<1>3. ASSUME NEW f \in DOMAIN files
      PROVE  /\ files[f] \in [name : Name, size : 0..LIMIT, data : Seq(Ramfs!Page)]
             /\ image[f] \in [name : Name, size : 0..LIMIT,
                              byte : [Ramfs!Offset -> Seq(Nat)]]
             /\ files[f].size \in Nat /\ image[f].size \in Nat
             /\ files[f].data \in Seq(Ramfs!Page)
  <2>1. /\ files[f] \in [name : Name, size : 0..LIMIT, data : Seq(Ramfs!Page)]
        /\ image[f] \in [name : Name, size : 0..LIMIT,
                         byte : [Ramfs!Offset -> Seq(Nat)]]
    BY <1>1, <1>2, ElementOfSeq
  <2> QED BY <2>1
<1>4. ASSUME NEW f \in DOMAIN files, NEW k \in DOMAIN files[f].data
      PROVE  /\ files[f].data[k] \in Ramfs!Page
             /\ files[f].data[k].offs \in Nat
             /\ files[f].data[k].offs % PAGE_SIZE = 0
             /\ k > 1 => files[f].data[k - 1].offs < files[f].data[k].offs
  <2>1. files[f].data[k] \in Ramfs!Page
    BY <1>3, ElementOfSeq
  <2>2. LIMIT \in Nat
    BY DEF Ramfs!Assumption
  <2>3. files[f].data[k].offs \in Nat
    BY <2>1, <2>2 DEF Ramfs!Page, Ramfs!Offset
  <2> QED BY <2>1, <2>3 DEF Ramfs!IInv, Ramfs!WellFormed, Ramfs!PagesOK
<1>5. \A f \in DOMAIN files : /\ DOMAIN files[f].data = 1..Len(files[f].data)
                              /\ Len(files[f].data) \in Nat
  BY <1>3
<1> QED BY <1>1, <1>2, <1>3, <1>4, <1>5

\* The call a process is in.
LEMMA RamfsCall ==
  ASSUME Ramfs!Assumption, Ramfs!IInv, NEW p \in Proc,
         access[p].at \in {"lock", "in"}
  PROVE  /\ access[p].op \in {"find", "add"} => access[p] \in Ramfs!FindCall
         /\ access[p].op = "read" =>
              /\ \E n \in 0..LIMIT : access[p] \in Ramfs!ReadCall(n)
              /\ access[p].file \in DOMAIN files
              /\ access[p].from \in Nat /\ access[p].to \in 0..LIMIT
              /\ access[p].from <= access[p].to /\ access[p].turn \in Nat \ {0}
              /\ access[p].buf \in [0..access[p].to - access[p].from - 1 -> Seq(Nat)]
         /\ access[p].op \in {"grow", "write"} =>
              /\ access[p] \in Ramfs!WriteCall /\ access[p].file \in DOMAIN files
              /\ access[p].from \in Nat /\ access[p].to \in 0..LIMIT
              /\ access[p].from <= access[p].to /\ access[p].turn \in Nat \ {0}
              /\ access[p].offs \in Nat /\ access[p].tag \in 1..WRITES
         /\ access[p].op \in {"find", "add", "read", "grow", "write"}
         /\ Ramfs!Asked(access[p])
<1>1. \/ access[p] \in Ramfs!FindCall \cup Ramfs!WriteCall
      \/ \E n \in 0..LIMIT : access[p] \in Ramfs!ReadCall(n)
  BY DEF Ramfs!IInv, Ramfs!TypeOK
<1>2. Ramfs!Asked(access[p])
  BY DEF Ramfs!IInv, Ramfs!CallsOK
<1>3. LIMIT \in Nat
  BY DEF Ramfs!Assumption
<1>4. CASE access[p] \in Ramfs!FindCall
  BY <1>2, <1>4 DEF Ramfs!FindCall
<1>5. CASE access[p] \in Ramfs!WriteCall
  BY <1>2, <1>3, <1>5 DEF Ramfs!WriteCall, Ramfs!Asked
<1>6. ASSUME NEW n \in 0..LIMIT, access[p] \in Ramfs!ReadCall(n)
      PROVE  /\ access[p].op = "read" /\ access[p].file \in DOMAIN files
             /\ access[p].from \in Nat /\ access[p].to \in 0..LIMIT
             /\ access[p].from <= access[p].to /\ access[p].turn \in Nat \ {0}
             /\ access[p].buf \in [0..access[p].to - access[p].from - 1 -> Seq(Nat)]
  <2>1. /\ access[p].op = "read" /\ access[p].from \in Nat
        /\ access[p].to \in 0..LIMIT /\ access[p].turn \in Nat \ {0}
        /\ access[p].buf \in [0..n - 1 -> Seq(Nat)]
    BY <1>3, <1>6 DEF Ramfs!ReadCall
  <2>2. /\ access[p].file \in DOMAIN files /\ access[p].from <= access[p].to
        /\ DOMAIN access[p].buf = 0..access[p].to - access[p].from - 1
    BY <1>2, <2>1 DEF Ramfs!Asked
  <2> QED BY <2>1, <2>2
<1> QED BY <1>1, <1>2, <1>4, <1>5, <1>6

\* One process is inside the mutex.
LEMMA RamfsAlone ==
  ASSUME Ramfs!IInv, NEW p \in Proc, access[p].at \in {"in", "fault"}
  PROVE  /\ mtx = p
         /\ \A q \in Proc : access[q].at \in {"in", "fault"} => q = p
BY DEF Ramfs!IInv, Ramfs!WellFormed, Ramfs!MutexOK

\* A process goes on, and no file changes.
LEMMA CallChanges ==
  ASSUME Ramfs!Assumption, Ramfs!IInv, NEW p \in Proc, NEW new,
         access' = [access EXCEPT ![p] = new],
         UNCHANGED <<files, objects, image>>, writes' \in 0..WRITES,
         \/ new.at \in {"done", "fault"}
         \/ new \in Ramfs!FindCall \cup Ramfs!WriteCall
         \/ \E n \in 0..LIMIT : new \in Ramfs!ReadCall(n),
         new.at \in {"lock", "in"} => Ramfs!Asked(new),
         new.at \in {"in", "fault"} => mtx' = p,
         \A q \in Proc \ {p} : access[q].at \in {"in", "fault"} => mtx' = mtx,
         new.at = "in" /\ new.op = "read"
           => Ramfs!Copied(new, files[new.file].data),
         new.at = "in" /\ new.op = "write"
           => Ramfs!Passed(new, files[new.file].data),
         \/ ~Ramfs!Doing(p, "write") /\ ~(new.at = "in" /\ new.op = "write")
         \/ /\ Ramfs!Doing(p, "write") /\ new.at = "in" /\ new.op = "write"
            /\ new.file = access[p].file /\ new.from = access[p].from
            /\ new.to = access[p].to /\ new.offs = access[p].offs
            /\ new.tag = access[p].tag
  PROVE  Ramfs!IInv'
<1>1. /\ access = [q \in Proc |-> access[q]] /\ access' = [q \in Proc |-> access'[q]]
      /\ access'[p] = new /\ \A q \in Proc \ {p} : access'[q] = access[q]
  BY DEF Ramfs!IInv, Ramfs!TypeOK
<1>2. files' = files /\ objects' = objects /\ image' = image
  OBVIOUS
<1>3. \A c : /\ Ramfs!Asked(c)' <=> Ramfs!Asked(c)
  BY <1>2 DEF Ramfs!Asked, Ramfs!Called
<1>4. Ramfs!TypeOK'
  <2>1. ASSUME NEW q \in Proc
        PROVE  \/ access'[q].at \in {"done", "fault"}
               \/ access'[q] \in Ramfs!FindCall \cup Ramfs!WriteCall
               \/ \E n \in 0..LIMIT : access'[q] \in Ramfs!ReadCall(n)
    <3>1. CASE q = p
      BY <1>1, <3>1
    <3>2. CASE q # p
      BY <1>1, <3>2 DEF Ramfs!IInv, Ramfs!TypeOK
    <3> QED BY <3>1, <3>2
  <2> QED BY <1>1, <1>2, <2>1 DEF Ramfs!IInv, Ramfs!TypeOK
<1>5. Ramfs!WellFormed'
  <2>1. Ramfs!PagesOK' /\ Ramfs!NothingLost'
    BY <1>2 DEF Ramfs!IInv, Ramfs!WellFormed, Ramfs!PagesOK, Ramfs!NothingLost,
                Ramfs!Places
  <2>2. Ramfs!MutexOK'
    BY <1>1 DEF Ramfs!IInv, Ramfs!WellFormed, Ramfs!MutexOK
  <2> QED BY <2>1, <2>2 DEF Ramfs!WellFormed
<1>6. Ramfs!CallsOK'
  BY <1>1, <1>3 DEF Ramfs!IInv, Ramfs!CallsOK
<1>7. Ramfs!ReaderOK' /\ Ramfs!WriterOK'
  <2>1. ASSUME NEW q \in Proc
        PROVE  /\ Ramfs!Doing(q, "read")'
                    => Ramfs!Copied(access'[q], files'[access'[q].file].data)
               /\ Ramfs!Doing(q, "write")'
                    => Ramfs!Passed(access'[q], files'[access'[q].file].data)
    <3>1. CASE q = p
      BY <1>1, <1>2, <3>1 DEF Ramfs!Doing
    <3>2. CASE q # p
      BY <1>1, <1>2, <3>2 DEF Ramfs!Doing, Ramfs!IInv, Ramfs!ReaderOK, Ramfs!WriterOK
    <3> QED BY <3>1, <3>2
  <2> QED BY <2>1 DEF Ramfs!ReaderOK, Ramfs!WriterOK, Ramfs!Copied, Ramfs!Passed,
                      Ramfs!Holds, Ramfs!Behind
<1>8. ASSUME NEW q \in Proc
      PROVE  /\ \A f : Ramfs!WriterOf(q, f)' <=> Ramfs!WriterOf(q, f)
             /\ \A f : Ramfs!WriterOf(q, f) =>
                  /\ access'[q].to = access[q].to /\ access'[q].tag = access[q].tag
                  /\ access'[q].from = access[q].from
                  /\ \A o : Ramfs!Stored(q, o)' <=> Ramfs!Stored(q, o)
  <2>1. CASE q = p
    BY <1>1, <2>1 DEF Ramfs!WriterOf, Ramfs!Stored, Ramfs!Doing
  <2>2. CASE q # p
    BY <1>1, <2>2 DEF Ramfs!WriterOf, Ramfs!Stored, Ramfs!Doing
  <2> QED BY <2>1, <2>2
<1>9. Ramfs!SizeOK'
  BY <1>2, <1>8 DEF Ramfs!IInv, Ramfs!SizeOK
<1>10. Ramfs!BytesOK'
  <2>1. \A f, o, v : Ramfs!Kept(f, o, v)' <=> Ramfs!Kept(f, o, v)
    BY <1>2 DEF Ramfs!Kept, Ramfs!Holds
  <2> QED BY <1>2, <1>8, <2>1 DEF Ramfs!IInv, Ramfs!BytesOK
<1> QED BY <1>4, <1>5, <1>6, <1>7, <1>9, <1>10 DEF Ramfs!IInv

\* A call begins.
LEMMA BeginKeeps ==
  ASSUME Ramfs!Assumption, Ramfs!IInv, NEW p \in Proc,
         Ramfs!Begin(p) \/ Ramfs!BeginWrite(p)
  PROVE  Ramfs!IInv'
<1>1. /\ access[p].at = "done" /\ UNCHANGED <<files, mtx, objects, image>>
      /\ ~Ramfs!Doing(p, "write")
  BY DEF Ramfs!Begin, Ramfs!BeginWrite, Ramfs!Doing
<1>2. LIMIT \in Nat /\ WRITES \in Nat /\ writes \in 0..WRITES /\ Len(files) \in Nat
      /\ DOMAIN files = 1..Len(files)
  BY RamfsFiles DEF Ramfs!Assumption, Ramfs!IInv, Ramfs!TypeOK
<1>3. ASSUME NEW n \in Name, NEW create \in BOOLEAN,
             Ramfs!Goto(p, [at |-> "lock", op |-> "find", name |-> n,
                            create |-> create]),
             writes' = writes
      PROVE  Ramfs!IInv'
  <2> DEFINE new == [at |-> "lock", op |-> "find", name |-> n, create |-> create]
  <2>1. /\ new \in Ramfs!FindCall /\ Ramfs!Asked(new) /\ new.at = "lock"
        /\ access' = [access EXCEPT ![p] = new]
    BY <1>3 DEF Ramfs!FindCall, Ramfs!Asked, Ramfs!Goto
  <2> HIDE DEF new
  <2> QED BY <1>1, <1>2, <1>3, <2>1, CallChanges
<1>4. ASSUME NEW f \in DOMAIN files, NEW r \in ToRead, writes' = writes,
             Ramfs!Goto(p, [at |-> "lock", op |-> "read", file |-> f,
                            from |-> r[1], to |-> r[2], turn |-> 1,
                            buf |-> [i \in 0..r[2] - r[1] - 1 |-> Ramfs!Zero]])
      PROVE  Ramfs!IInv'
  <2> DEFINE new == [at |-> "lock", op |-> "read", file |-> f,
                     from |-> r[1], to |-> r[2], turn |-> 1,
                     buf |-> [i \in 0..r[2] - r[1] - 1 |-> Ramfs!Zero]]
  <2>1. r[1] \in 0..LIMIT /\ r[2] \in 0..LIMIT /\ r[1] <= r[2] /\ f \in Nat
    BY <1>2 DEF Ramfs!Assumption
  <2>2. r[2] - r[1] \in 0..LIMIT /\ Ramfs!Zero \in Seq(Nat)
    BY <1>2, <2>1 DEF Ramfs!Zero
  <2>3. new \in Ramfs!ReadCall(r[2] - r[1])
    BY <2>1, <2>2 DEF Ramfs!ReadCall
  <2>4. /\ Ramfs!Asked(new) /\ new.at = "lock"
        /\ access' = [access EXCEPT ![p] = new]
    BY <1>4, <2>1 DEF Ramfs!Asked, Ramfs!Goto
  <2> HIDE DEF new
  <2> QED BY <1>1, <1>2, <1>4, <2>2, <2>3, <2>4, CallChanges
<1>5. ASSUME NEW f \in DOMAIN files, NEW r \in ToWrite, writes < WRITES,
             writes' = writes + 1,
             Ramfs!Goto(p, [at |-> "lock", op |-> "grow", file |-> f,
                            from |-> r[1], to |-> r[2], turn |-> 1,
                            offs |-> r[1], tag |-> writes + 1])
      PROVE  Ramfs!IInv'
  <2> DEFINE new == [at |-> "lock", op |-> "grow", file |-> f, from |-> r[1],
                     to |-> r[2], turn |-> 1, offs |-> r[1], tag |-> writes + 1]
  <2>1. /\ r[1] \in 0..LIMIT /\ r[2] \in 0..LIMIT /\ r[1] <= r[2] /\ f \in Nat
        /\ writes + 1 \in 1..WRITES /\ writes' \in 0..WRITES
    BY <1>2, <1>5 DEF Ramfs!Assumption
  <2>2. /\ new \in Ramfs!WriteCall /\ Ramfs!Asked(new) /\ new.at = "lock"
        /\ access' = [access EXCEPT ![p] = new]
    BY <1>5, <2>1 DEF Ramfs!WriteCall, Ramfs!Asked, Ramfs!Goto
  <2> HIDE DEF new
  <2> QED BY <1>1, <1>2, <2>1, <2>2, CallChanges
<1> QED BY <1>3, <1>4, <1>5 DEF Ramfs!Begin, Ramfs!BeginWrite

\* mutex_lock returns.
LEMMA LockKeeps ==
  ASSUME Ramfs!Assumption, Ramfs!IInv, NEW p \in Proc, Ramfs!Lock(p)
  PROVE  Ramfs!IInv'
<1> DEFINE c == access[p]
           new == [c EXCEPT !.at = "in"]
<1>1. /\ c.at = "lock" /\ mtx = NoProc /\ mtx' = p
      /\ access' = [access EXCEPT ![p] = new]
      /\ UNCHANGED <<files, objects, writes, image>>
  BY DEF Ramfs!Lock, Ramfs!MayLock, Ramfs!Goto
<1>2. writes \in 0..WRITES /\ NoProc \notin Proc
  BY DEF Ramfs!Assumption, Ramfs!IInv, Ramfs!TypeOK
<1>3. Ramfs!Asked(c)
  BY <1>1, RamfsCall
<1>4. /\ \/ new \in Ramfs!FindCall \cup Ramfs!WriteCall
         \/ \E n \in 0..LIMIT : new \in Ramfs!ReadCall(n)
      /\ new.at = "in" /\ new.op = c.op
  <2>1. CASE c \in Ramfs!FindCall
    BY <2>1 DEF Ramfs!FindCall
  <2>2. CASE c \in Ramfs!WriteCall
    BY <2>2 DEF Ramfs!WriteCall
  <2>3. ASSUME NEW n \in 0..LIMIT, c \in Ramfs!ReadCall(n)
        PROVE  new \in Ramfs!ReadCall(n) /\ new.at = "in" /\ new.op = c.op
    BY <2>3 DEF Ramfs!ReadCall
  <2> QED BY <1>1, <2>1, <2>2, <2>3 DEF Ramfs!IInv, Ramfs!TypeOK
<1>5. /\ new.op = "read" => /\ new.file = c.file /\ new.from = c.from
                            /\ new.to = c.to /\ new.buf = c.buf /\ new.turn = c.turn
      /\ new.op \in {"grow", "write"} =>
           /\ new.file = c.file /\ new.from = c.from
           /\ new.to = c.to /\ new.offs = c.offs /\ new.turn = c.turn
  <2>1. CASE c.op = "read"
    BY <1>1, <1>4, <2>1, RamfsCall DEF Ramfs!ReadCall
  <2>2. CASE c.op \in {"grow", "write"}
    BY <1>1, <1>4, <2>2, RamfsCall DEF Ramfs!WriteCall
  <2> QED BY <1>4, <2>1, <2>2
<1> HIDE DEF new
<1>6. Ramfs!Asked(new)
  BY <1>1, <1>3, <1>4, <1>5 DEF Ramfs!Asked
<1>7. new.op = "read" => Ramfs!Copied(new, files[new.file].data)
  <2> SUFFICES ASSUME new.op = "read" PROVE Ramfs!Copied(new, files[new.file].data)
    OBVIOUS
  <2>1. new.turn = 1 /\ new.file \in DOMAIN files
    BY <1>1, <1>3, <1>4, <1>5 DEF Ramfs!Asked
  <2>2. Len(files[new.file].data) \in Nat
    BY <2>1, RamfsFiles
  <2> QED BY <2>1, <2>2 DEF Ramfs!Copied
<1>8. new.op # "write" /\ ~Ramfs!Doing(p, "write")
  BY <1>1, <1>3, <1>4 DEF Ramfs!Asked, Ramfs!Doing
<1>9. \A q \in Proc : access[q].at \notin {"in", "fault"}
  BY <1>1, <1>2, RamfsAlone
<1> QED BY <1>1, <1>2, <1>4, <1>6, <1>7, <1>8, <1>9, CallChanges

\* A call returns that changed no file.
LEMMA RamfsReturns ==
  ASSUME Ramfs!Assumption, Ramfs!IInv, NEW p \in Proc, NEW result,
         access[p].at \in {"in", "fault"}, ~Ramfs!Doing(p, "write"),
         Ramfs!Return(p, result), UNCHANGED <<files, objects, writes, image>>
  PROVE  Ramfs!IInv'
<1> DEFINE new == [at |-> "done", result |-> result]
<1>1. new.at = "done" /\ access' = [access EXCEPT ![p] = new]
  BY DEF Ramfs!Return, Ramfs!Goto
<1> HIDE DEF new
<1>2. \A q \in Proc \ {p} : access[q].at \notin {"in", "fault"}
  BY RamfsAlone
<1>3. writes' \in 0..WRITES
  BY DEF Ramfs!IInv, Ramfs!TypeOK
<1> QED BY <1>1, <1>2, <1>3, CallChanges

\* __ramfs_open up to the making of a file.
LEMMA FindKeeps ==
  ASSUME Ramfs!Assumption, Ramfs!IInv, NEW p \in Proc,
         Ramfs!Found(p) \/ Ramfs!NotFound(p) \/ Ramfs!AddFaults(p)
  PROVE  Ramfs!IInv'
<1>1. /\ access[p].at = "in" /\ access[p].op \in {"find", "add"}
      /\ ~Ramfs!Doing(p, "write") /\ UNCHANGED <<files, objects, writes, image>>
  BY DEF Ramfs!Found, Ramfs!NotFound, Ramfs!AddFaults, Ramfs!Doing
<1>2. mtx = p /\ \A q \in Proc \ {p} : access[q].at \notin {"in", "fault"}
  BY <1>1, RamfsAlone
<1>3. writes' \in 0..WRITES
  BY <1>1 DEF Ramfs!IInv, Ramfs!TypeOK
<1>4. CASE \E result : Ramfs!Return(p, result)
  BY <1>1, <1>4, RamfsReturns
<1>5. CASE /\ access[p].op = "find" /\ Ramfs!Called(access[p].name) = {}
           /\ Ramfs!Goto(p, [access[p] EXCEPT !.op = "add"]) /\ UNCHANGED mtx
  <2> DEFINE new == [access[p] EXCEPT !.op = "add"]
  <2>1. access[p] \in Ramfs!FindCall
    BY <1>1, RamfsCall
  <2>2. /\ new \in Ramfs!FindCall /\ new.at = "in" /\ new.op = "add"
        /\ new.name = access[p].name
    BY <1>1, <2>1 DEF Ramfs!FindCall
  <2>3. access' = [access EXCEPT ![p] = new]
    BY <1>5 DEF Ramfs!Goto
  <2> HIDE DEF new
  <2>4. Ramfs!Asked(new)
    BY <1>5, <2>2 DEF Ramfs!Asked
  <2> QED BY <1>1, <1>2, <1>3, <1>5, <2>2, <2>3, <2>4, CallChanges
<1>6. CASE Ramfs!Goto(p, [at |-> "fault"]) /\ UNCHANGED mtx
  <2> DEFINE new == [at |-> "fault"]
  <2>1. new.at = "fault" /\ access' = [access EXCEPT ![p] = new]
    BY <1>6 DEF Ramfs!Goto
  <2> HIDE DEF new
  <2> QED BY <1>1, <1>2, <1>3, <1>6, <2>1, CallChanges
<1> QED BY <1>1, <1>4, <1>5, <1>6
        DEF Ramfs!Found, Ramfs!NotFound, Ramfs!AddFaults, Ramfs!Doing

\* What a turn of __ramfs_readat copies: the bytes of the page that are wanted, to
\* their places in the buffer.
LEMMA ReadCopies ==
  ASSUME Ramfs!Assumption, NEW rp \in Ramfs!Page, NEW from \in Nat, NEW to \in Nat,
         from <= to, rp.offs < to, ~(rp.offs + PAGE_SIZE <= from),
         NEW buf \in [0..to - from - 1 -> Seq(Nat)], NEW new,
         new = Ramfs!Memcpy(buf, Ramfs!DataOffs(rp, from), rp.byte,
                            Ramfs!PageOffs(rp, from), Ramfs!ToCopy(rp, from, from, to))
  PROVE  /\ new \in [0..to - from - 1 -> Seq(Nat)]
         /\ \A o \in from..to - 1 :
              new[o - from] = IF Ramfs!Holds(rp, o) THEN rp.byte[o - rp.offs]
                              ELSE buf[o - from]
<1>1. PAGE_SIZE \in Nat \ {0} /\ LIMIT \in Nat
  BY DEF Ramfs!Assumption
<1>2. rp.offs \in Nat /\ rp.byte \in [0..PAGE_SIZE - 1 -> Seq(Nat)]
  BY <1>1 DEF Ramfs!Page, Ramfs!Offset
<1> DEFINE q == rp.offs
           d == Ramfs!DataOffs(rp, from)
           s == Ramfs!PageOffs(rp, from)
           n == Ramfs!ToCopy(rp, from, from, to)
<1>3. /\ q \in Nat /\ q < to /\ from < q + PAGE_SIZE
      /\ q < from => d = 0 /\ s = from - q
      /\ ~(q < from) => d = q - from /\ s = 0
      /\ n = Ramfs!Smaller(PAGE_SIZE - s, to - (from + d))
  <2>1. d = Ramfs!Larger(q - from, 0) /\ s = Ramfs!Larger(from - q, 0)
    BY DEF Ramfs!DataOffs, Ramfs!PageOffs
  <2>2. n = Ramfs!Smaller(PAGE_SIZE - s, to - (from + d))
    BY DEF Ramfs!ToCopy
  <2>3. q \in Nat /\ q < to /\ from < q + PAGE_SIZE
    BY <1>1, <1>2
  <2> HIDE DEF q, d, s, n
  <2> QED BY <2>1, <2>2, <2>3 DEF Ramfs!Larger
<1>4. /\ new = Ramfs!Memcpy(buf, d, rp.byte, s, n)
      /\ \A o : Ramfs!Holds(rp, o) <=> o \in q..q + PAGE_SIZE - 1
  BY DEF Ramfs!Holds
<1> HIDE DEF q, d, s, n
<1>5. /\ d \in Nat /\ s \in Nat /\ n \in Int
      /\ n <= PAGE_SIZE - s /\ n <= to - (from + d)
      /\ n = PAGE_SIZE - s \/ n = to - (from + d)
  <2>1. d \in Nat /\ s \in Nat
    BY <1>3
  <2> QED BY <1>1, <1>3, <2>1 DEF Ramfs!Smaller
<1>6. ASSUME NEW i \in 0..to - from - 1
      PROVE  /\ i \in d..d + n - 1 <=> Ramfs!Holds(rp, from + i)
             /\ i \in d..d + n - 1 => s + i - d = from + i - q
             /\ i \in d..d + n - 1 => s + i - d \in 0..PAGE_SIZE - 1
  <2>1. i \in Int /\ 0 <= i /\ i < to - from
    OBVIOUS
  <2>2. from + i \in q..q + PAGE_SIZE - 1
          <=> q <= from + i /\ from + i <= q + PAGE_SIZE - 1
    BY <1>1, <1>3, <2>1
  <2>3. i \in d..d + n - 1 <=> d <= i /\ i <= d + n - 1
    BY <1>5, <2>1
  <2>4. q \in Int /\ from \in Int /\ to \in Int /\ PAGE_SIZE \in Int
        /\ d \in Int /\ s \in Int /\ n \in Int /\ i \in Int
    BY <1>1, <1>3, <1>5, <2>1
  <2>5. s - d = from - q /\ (d = 0 \/ s = 0) /\ 0 <= d /\ 0 <= s
    BY <1>3, <1>5, <2>4
  <2>6. s + i - d = from + i - q
    BY <2>4, <2>5
  <2>7. ASSUME d <= i, i <= d + n - 1
        PROVE  /\ q <= from + i /\ from + i <= q + PAGE_SIZE - 1
               /\ 0 <= s + i - d /\ s + i - d <= PAGE_SIZE - 1
    <3>1. i <= d + (PAGE_SIZE - s) - 1
      BY <1>5, <2>4, <2>7
    <3> QED BY <2>4, <2>5, <2>6, <2>7, <3>1
  <2>8. ASSUME q <= from + i, from + i <= q + PAGE_SIZE - 1
        PROVE  d <= i /\ i <= d + n - 1
    <3>1. d <= i
      BY <1>3, <2>1, <2>4, <2>8
    <3>2. i <= d + (PAGE_SIZE - s) - 1
      BY <2>4, <2>5, <2>8
    <3>3. i <= d + (to - (from + d)) - 1
      BY <2>1, <2>4
    <3> QED BY <1>5, <2>4, <3>1, <3>2, <3>3
  <2>9. i \in d..d + n - 1 => s + i - d \in 0..PAGE_SIZE - 1
    BY <2>3, <2>4, <2>7
  <2> QED BY <1>4, <2>2, <2>3, <2>6, <2>7, <2>8, <2>9
<1>7. ASSUME NEW i \in 0..to - from - 1
      PROVE  /\ new[i] = IF i \in d..d + n - 1 THEN rp.byte[s + i - d] ELSE buf[i]
             /\ new[i] \in Seq(Nat)
  <2>1. new[i] = IF i \in d..d + n - 1 THEN rp.byte[s + i - d] ELSE buf[i]
    BY <1>4, MemcpyIs
  <2> QED BY <1>2, <1>6, <2>1
<1>8. new \in [0..to - from - 1 -> Seq(Nat)]
  BY <1>4, <1>7 DEF Ramfs!Memcpy
<1>9. ASSUME NEW o \in from..to - 1
      PROVE  new[o - from] = IF Ramfs!Holds(rp, o) THEN rp.byte[o - rp.offs]
                             ELSE buf[o - from]
  <2>1. o - from \in 0..to - from - 1 /\ from + (o - from) = o
    OBVIOUS
  <2>2. new[o - from] = IF o - from \in d..d + n - 1
                        THEN rp.byte[s + (o - from) - d] ELSE buf[o - from]
    BY <1>7, <2>1
  <2>3. o - from \in d..d + n - 1 <=> Ramfs!Holds(rp, o)
    BY <1>6, <2>1
  <2>4. o - from \in d..d + n - 1 => s + (o - from) - d = o - q
    <3>1. o - from \in d..d + n - 1
            => s + (o - from) - d = from + (o - from) - q
      BY <1>6, <2>1
    <3>2. from + (o - from) - q = o - q
      BY <1>3
    <3> QED BY <3>1, <3>2
  <2>5. q = rp.offs
    BY DEF q
  <2> QED BY <2>2, <2>3, <2>4, <2>5
<1> QED BY <1>8, <1>9

\* A turn of the loop over the pages in __ramfs_readat.
LEMMA ReadTurnKeeps ==
  ASSUME Ramfs!Assumption, Ramfs!IInv, NEW p \in Proc, Ramfs!ReadTurn(p)
  PROVE  Ramfs!IInv'
<1> DEFINE c == access[p]
           data == files[c.file].data
           rp == data[c.turn]
           buf == IF rp.offs + PAGE_SIZE <= c.from THEN c.buf
                  ELSE Ramfs!Memcpy(c.buf, Ramfs!DataOffs(rp, c.from), rp.byte,
                         Ramfs!PageOffs(rp, c.from),
                         Ramfs!ToCopy(rp, c.from, c.from, c.to))
           new == [c EXCEPT !.turn = @ + 1, !.buf = buf]
<1>1. /\ c.at = "in" /\ c.op = "read" /\ c.turn <= Len(data)
      /\ rp.offs < c.to \/ rp.offs + PAGE_SIZE <= c.from
      /\ access' = [access EXCEPT ![p] = new]
      /\ UNCHANGED <<files, mtx, objects, writes, image>>
  BY DEF Ramfs!ReadTurn, Ramfs!Doing, Ramfs!Goto
<1>2. /\ c.file \in DOMAIN files /\ c.from \in Nat /\ c.to \in 0..LIMIT
      /\ c.from <= c.to /\ c.turn \in Nat \ {0}
      /\ c.buf \in [0..c.to - c.from - 1 -> Seq(Nat)]
      /\ \E n \in 0..LIMIT : c \in Ramfs!ReadCall(n)
      /\ Ramfs!Asked(c)
  BY <1>1, RamfsCall
<1>3. LIMIT \in Nat /\ PAGE_SIZE \in Nat \ {0}
  BY DEF Ramfs!Assumption
<1>4. /\ data \in Seq(Ramfs!Page) /\ Len(data) \in Nat /\ c.turn \in DOMAIN data
      /\ \A k \in DOMAIN data :
           /\ data[k] \in Ramfs!Page /\ data[k].offs \in Nat
           /\ data[k].offs % PAGE_SIZE = 0
           /\ k > 1 => data[k - 1].offs < data[k].offs
  <2>1. /\ data \in Seq(Ramfs!Page) /\ Len(data) \in Nat
        /\ DOMAIN data = 1..Len(data)
        /\ \A k \in DOMAIN data :
             /\ data[k] \in Ramfs!Page /\ data[k].offs \in Nat
             /\ data[k].offs % PAGE_SIZE = 0
             /\ k > 1 => data[k - 1].offs < data[k].offs
    BY <1>2, RamfsFiles
  <2>2. c.turn \in DOMAIN data
    <3> HIDE DEF data
    <3> QED BY <1>1, <1>2, <2>1
  <2> QED BY <2>1, <2>2
<1> HIDE DEF data
<1>5. \A j \in 1..c.turn - 1 : j \in DOMAIN data /\ data[j].offs \in Nat
                               /\ data[j].offs + PAGE_SIZE <= rp.offs
  BY <1>4, PagesInOrder
<1>6. /\ buf \in [0..c.to - c.from - 1 -> Seq(Nat)]
      /\ \A o \in c.from..c.to - 1 :
           buf[o - c.from] = IF Ramfs!Holds(rp, o) THEN rp.byte[o - rp.offs]
                             ELSE c.buf[o - c.from]
  <2>1. CASE rp.offs + PAGE_SIZE <= c.from
    <3>1. \A o \in c.from..c.to - 1 : ~Ramfs!Holds(rp, o)
      BY <1>2, <1>3, <1>4, <2>1 DEF Ramfs!Holds
    <3> QED BY <1>2, <2>1, <3>1
  <2>2. CASE ~(rp.offs + PAGE_SIZE <= c.from)
    <3>1. c.to \in Nat /\ rp.offs < c.to /\ rp \in Ramfs!Page
      BY <1>1, <1>2, <1>3, <1>4, <2>2
    <3>2. buf = Ramfs!Memcpy(c.buf, Ramfs!DataOffs(rp, c.from), rp.byte,
                         Ramfs!PageOffs(rp, c.from),
                         Ramfs!ToCopy(rp, c.from, c.from, c.to))
      BY <2>2
    <3>3. c.from \in Nat /\ c.from <= c.to
          /\ c.buf \in [0..c.to - c.from - 1 -> Seq(Nat)]
      BY <1>2
    <3> HIDE DEF buf, rp, c
    <3> QED BY <2>2, <3>1, <3>2, <3>3, ReadCopies
  <2> QED BY <2>1, <2>2
<1> HIDE DEF buf
<1>7. PICK n \in 0..LIMIT : c \in Ramfs!ReadCall(n)
  BY <1>2
<1>8. /\ new \in Ramfs!ReadCall(n) /\ new.at = "in" /\ new.op = "read"
      /\ new.file = c.file /\ new.from = c.from /\ new.to = c.to
      /\ new.turn = c.turn + 1 /\ new.buf = buf
  <2>1. buf \in [0..n - 1 -> Seq(Nat)]
    <3>1. c.buf \in [0..n - 1 -> Seq(Nat)]
      BY <1>7 DEF Ramfs!ReadCall
    <3>2. 0..n - 1 = 0..c.to - c.from - 1
      BY <1>2, <3>1
    <3> QED BY <1>6, <3>2
  <2>2. c.turn + 1 \in Nat \ {0}
    BY <1>2
  <2> QED BY <1>1, <1>7, <2>1, <2>2 DEF Ramfs!ReadCall
<1> HIDE DEF new
<1>9. Ramfs!Asked(new)
  BY <1>1, <1>2, <1>6, <1>8 DEF Ramfs!Asked
<1>10. Ramfs!Copied(new, data)
  <2>1. \A k \in 1..c.turn - 1 : \A o \in c.from..c.to - 1 :
          Ramfs!Holds(data[k], o)
            => c.buf[o - c.from] = data[k].byte[o - data[k].offs]
    BY <1>1 DEF data, Ramfs!IInv, Ramfs!ReaderOK, Ramfs!Doing, Ramfs!Copied
  <2>2. ASSUME NEW k \in 1..c.turn, NEW o \in c.from..c.to - 1,
               Ramfs!Holds(data[k], o)
        PROVE  buf[o - c.from] = data[k].byte[o - data[k].offs]
    <3>1. CASE k = c.turn
      BY <1>6, <2>2, <3>1
    <3>2. CASE k # c.turn
      <4>1. k \in 1..c.turn - 1
        BY <1>2, <3>2
      <4>2. ~Ramfs!Holds(rp, o)
        <5>1. /\ data[k].offs \in Nat /\ rp.offs \in Nat /\ o \in Int
              /\ data[k].offs + PAGE_SIZE <= rp.offs
          BY <1>2, <1>3, <1>4, <1>5, <4>1
        <5> HIDE DEF rp
        <5> QED BY <1>3, <2>2, <5>1 DEF Ramfs!Holds
      <4> QED BY <1>6, <2>1, <2>2, <4>1, <4>2
    <3> QED BY <3>1, <3>2
  <2>3. new.turn <= Len(data) + 1 /\ new.turn - 1 = c.turn
    BY <1>1, <1>2, <1>4, <1>8
  <2> QED BY <1>8, <2>2, <2>3 DEF Ramfs!Copied
<1>11. mtx = p /\ \A q \in Proc \ {p} : access[q].at \notin {"in", "fault"}
  BY <1>1, RamfsAlone
<1>12. writes' \in 0..WRITES /\ ~Ramfs!Doing(p, "write")
  BY <1>1 DEF Ramfs!IInv, Ramfs!TypeOK, Ramfs!Doing
<1>13. Ramfs!Copied(new, files[new.file].data)
  BY <1>8, <1>10 DEF data
<1> QED BY <1>1, <1>8, <1>9, <1>11, <1>12, <1>13, CallChanges

\* __ramfs_readat returns.
LEMMA ReadEndKeeps ==
  ASSUME Ramfs!Assumption, Ramfs!IInv, NEW p \in Proc, Ramfs!ReadEnd(p)
  PROVE  Ramfs!IInv'
<1>1. /\ access[p].at = "in" /\ ~Ramfs!Doing(p, "write")
      /\ \E result : Ramfs!Return(p, result)
      /\ UNCHANGED <<files, objects, writes, image>>
  BY DEF Ramfs!ReadEnd, Ramfs!Doing
<1> QED BY <1>1, RamfsReturns

\* __ramfs_writeat passes a page that is behind.
LEMMA WriteSkipKeeps ==
  ASSUME Ramfs!Assumption, Ramfs!IInv, NEW p \in Proc, Ramfs!WriteSkip(p)
  PROVE  Ramfs!IInv'
<1> DEFINE c == access[p]
           data == files[c.file].data
           new == [c EXCEPT !.turn = @ + 1]
<1>1. /\ c.at = "in" /\ c.op = "write" /\ c.offs # c.to /\ c.turn <= Len(data)
      /\ Ramfs!Behind(data[c.turn], c.offs)
      /\ access' = [access EXCEPT ![p] = new]
      /\ UNCHANGED <<files, mtx, objects, writes, image>>
  BY DEF Ramfs!WriteSkip, Ramfs!Writing, Ramfs!PagesOf, Ramfs!Doing, Ramfs!Goto
<1>2. /\ c \in Ramfs!WriteCall /\ c.file \in DOMAIN files /\ c.turn \in Nat \ {0}
      /\ c.from <= c.to /\ Ramfs!Asked(c)
  BY <1>1, RamfsCall
<1>3. Len(data) \in Nat
  BY <1>2, RamfsFiles
<1>4. /\ new \in Ramfs!WriteCall /\ new.at = "in" /\ new.op = "write"
      /\ new.file = c.file /\ new.from = c.from /\ new.to = c.to
      /\ new.turn = c.turn + 1 /\ new.offs = c.offs /\ new.tag = c.tag
  BY <1>1, <1>2 DEF Ramfs!WriteCall
<1>5. Ramfs!Passed(c, data)
  BY <1>1 DEF Ramfs!IInv, Ramfs!WriterOK, Ramfs!Doing
<1> HIDE DEF data, new
<1>6. Ramfs!Passed(new, data)
  <2>1. \A k \in 1..new.turn - 1 : Ramfs!Behind(data[k], c.offs)
    <3>1. \A k \in 1..new.turn - 1 : k \in 1..c.turn - 1 \/ k = c.turn
      BY <1>2, <1>4
    <3> QED BY <1>1, <1>5, <3>1 DEF Ramfs!Passed
  <2>2. new.turn <= Len(data) + 1
    BY <1>1, <1>2, <1>3, <1>4
  <2> QED BY <1>1, <1>4, <1>5, <2>1, <2>2 DEF Ramfs!Passed
<1>7. Ramfs!Asked(new) /\ Ramfs!Passed(new, files[new.file].data)
  BY <1>1, <1>2, <1>4, <1>6 DEF Ramfs!Asked, data
<1>8. mtx = p /\ \A q \in Proc \ {p} : access[q].at \notin {"in", "fault"}
  BY <1>1, RamfsAlone
<1>9. writes' \in 0..WRITES /\ Ramfs!Doing(p, "write")
  BY <1>1 DEF Ramfs!IInv, Ramfs!TypeOK, Ramfs!Doing
<1> QED BY <1>1, <1>4, <1>7, <1>8, <1>9, CallChanges

\* The pages of all files are finitely many.
LEMMA PlacesFinite ==
  ASSUME Ramfs!Assumption, Ramfs!IInv
  PROVE  /\ IsFiniteSet(Ramfs!Places)
         /\ Ramfs!Cardinality(Ramfs!Places) = Cardinality(Ramfs!Places)
         /\ Cardinality(Ramfs!Places) \in Nat
<1> DEFINE place == [f \in DOMAIN files |-> {f} \X DOMAIN files[f].data]
           T == {place[f] : f \in DOMAIN files}
<1>1. IsFiniteSet(DOMAIN files)
  <2>1. DOMAIN files = 1..Len(files) /\ Len(files) \in Nat
    BY RamfsFiles
  <2> QED BY <2>1, FS_Interval
<1>2. ASSUME NEW f \in DOMAIN files PROVE IsFiniteSet(place[f])
  <2>1. /\ DOMAIN files[f].data = 1..Len(files[f].data)
        /\ Len(files[f].data) \in Nat
    BY RamfsFiles
  <2>2. IsFiniteSet(1..Len(files[f].data))
    <3>1. 1 \in Int /\ Len(files[f].data) \in Int
      BY <2>1
    <3> QED BY <3>1, FS_Interval
  <2>3. IsFiniteSet({f} \X DOMAIN files[f].data)
    BY <2>1, <2>2, FS_Singleton, FS_Product
  <2> QED BY <2>3
<1>3. IsFiniteSet(T)
  <2>1. place = [f \in DOMAIN files |-> place[f]]
    OBVIOUS
  <2> HIDE DEF place
  <2>2. place \in [DOMAIN files -> T] /\ \A t \in T : \E f \in DOMAIN files : place[f] = t
    BY <2>1
  <2> QED BY <1>1, <2>2, FS_Surjection DEF Surjection
<1>4. \A e \in T : IsFiniteSet(e)
  BY <1>2
<1>5. IsFiniteSet(UNION T)
  <2> HIDE DEF T
  <2> QED BY <1>3, <1>4, FS_UNION
<1>6. Ramfs!Places = UNION T
  <2>1. T = {{f} \X DOMAIN files[f].data : f \in DOMAIN files}
    OBVIOUS
  <2> QED BY <2>1 DEF Ramfs!Places
<1> QED BY <1>5, <1>6, FS_CardinalityType DEF Ramfs!Cardinality, Cardinality

\* The other calls see nothing of a step inside the mutex that keeps the names.
LEMMA OthersKeep ==
  ASSUME Ramfs!Assumption, Ramfs!IInv, NEW p \in Proc, NEW new,
         access[p].at = "in", mtx' \in {p, NoProc},
         access' = [access EXCEPT ![p] = new],
         DOMAIN files \subseteq DOMAIN files'
  PROVE  /\ access' = [q \in Proc |-> access'[q]] /\ access'[p] = new
         /\ \A q \in Proc \ {p} :
              /\ access'[q] = access[q] /\ access[q].at \notin {"in", "fault"}
              /\ \/ access[q].at \in {"done", "fault"}
                 \/ access[q] \in Ramfs!FindCall \cup Ramfs!WriteCall
                 \/ \E n \in 0..LIMIT : access[q] \in Ramfs!ReadCall(n)
              /\ access[q].at \in {"lock", "in"} => Ramfs!Asked(access[q])'
              /\ \A op : ~Ramfs!Doing(q, op) /\ ~Ramfs!Doing(q, op)'
<1>1. access = [q \in Proc |-> access[q]]
  BY DEF Ramfs!IInv, Ramfs!TypeOK
<1>2. \A q \in Proc \ {p} : access[q].at \notin {"in", "fault"}
  BY RamfsAlone
<1>3. ASSUME NEW q \in Proc \ {p}, access[q].at \in {"lock", "in"}
      PROVE  Ramfs!Asked(access[q])'
  <2>1. Ramfs!Asked(access[q]) /\ access[q].at # "in" /\ access'[q] = access[q]
    BY <1>1, <1>2, <1>3 DEF Ramfs!IInv, Ramfs!CallsOK
  <2> QED BY <2>1 DEF Ramfs!Asked
<1>4. /\ access' = [q \in Proc |-> access'[q]] /\ access'[p] = new
      /\ \A q \in Proc \ {p} : access'[q] = access[q]
  BY <1>1
<1> QED BY <1>2, <1>3, <1>4 DEF Ramfs!IInv, Ramfs!TypeOK, Ramfs!Doing

\* The size of a file grows before anything is stored.
LEMMA GrowKeeps ==
  ASSUME Ramfs!Assumption, Ramfs!IInv, NEW p \in Proc, Ramfs!Grow(p)
  PROVE  Ramfs!IInv'
<1> DEFINE c == access[p]
           new == [c EXCEPT !.op = "write"]
           g == c.file
<1>1. /\ c.at = "in" /\ c.op = "grow"
      /\ files' = [files EXCEPT ![g].size = Ramfs!Larger(@, c.to)]
      /\ access' = [access EXCEPT ![p] = new]
      /\ UNCHANGED <<mtx, objects, writes, image>>
  BY DEF Ramfs!Grow, Ramfs!Doing, Ramfs!Goto
<1>2. /\ c \in Ramfs!WriteCall /\ g \in DOMAIN files /\ c.from <= c.to
      /\ c.from \in Nat /\ c.to \in 0..LIMIT /\ Ramfs!Asked(c)
  BY <1>1, RamfsCall
<1>3. /\ new \in Ramfs!WriteCall /\ new.at = "in" /\ new.op = "write"
      /\ new.file = g /\ new.from = c.from /\ new.to = c.to
      /\ new.turn = 1 /\ new.offs = c.from
  BY <1>1, <1>2 DEF Ramfs!WriteCall, Ramfs!Asked
<1>4. LIMIT \in Nat /\ mtx = p
  BY <1>1, RamfsAlone DEF Ramfs!Assumption
<1>5. /\ DOMAIN files' = DOMAIN files /\ Len(files') = Len(files)
      /\ files' \in Seq([name : Name, size : 0..LIMIT, data : Seq(Ramfs!Page)])
      /\ \A f \in DOMAIN files :
           /\ files'[f].name = files[f].name /\ files'[f].data = files[f].data
           /\ files'[f].size = IF f = g THEN Ramfs!Larger(files[f].size, c.to)
                               ELSE files[f].size
  <2>1. files[g] \in [name : Name, size : 0..LIMIT, data : Seq(Ramfs!Page)]
    BY <1>2, RamfsFiles
  <2>2. Ramfs!Larger(files[g].size, c.to) \in 0..LIMIT
    BY <1>2, <1>4, <2>1 DEF Ramfs!Larger
  <2> DEFINE file == [files[g] EXCEPT !.size = Ramfs!Larger(files[g].size, c.to)]
  <2>3. /\ file \in [name : Name, size : 0..LIMIT, data : Seq(Ramfs!Page)]
        /\ file.name = files[g].name /\ file.data = files[g].data
        /\ file.size = Ramfs!Larger(files[g].size, c.to)
    BY <2>1, <2>2
  <2>4. files' = [files EXCEPT ![g] = file]
    BY <1>1
  <2>5. files \in Seq([name : Name, size : 0..LIMIT, data : Seq(Ramfs!Page)])
    BY DEF Ramfs!IInv, Ramfs!TypeOK
  <2> HIDE DEF file, g
  <2> QED BY <1>2, <2>3, <2>4, <2>5
<1> HIDE DEF new
<1>6. /\ access' = [q \in Proc |-> access'[q]] /\ access'[p] = new
      /\ \A q \in Proc \ {p} :
           /\ access'[q] = access[q] /\ access[q].at \notin {"in", "fault"}
           /\ \/ access[q].at \in {"done", "fault"}
              \/ access[q] \in Ramfs!FindCall \cup Ramfs!WriteCall
              \/ \E n \in 0..LIMIT : access[q] \in Ramfs!ReadCall(n)
           /\ access[q].at \in {"lock", "in"} => Ramfs!Asked(access[q])'
           /\ \A op : ~Ramfs!Doing(q, op) /\ ~Ramfs!Doing(q, op)'
  BY <1>1, <1>4, <1>5, OthersKeep
<1>7. Ramfs!TypeOK'
  <2>1. \A q \in Proc : \/ access'[q].at \in {"done", "fault"}
                        \/ access'[q] \in Ramfs!FindCall \cup Ramfs!WriteCall
                        \/ \E n \in 0..LIMIT : access'[q] \in Ramfs!ReadCall(n)
    BY <1>3, <1>6
  <2>2. image' = image /\ writes' = writes
    BY <1>1
  <2> QED BY <1>5, <1>6, <2>1, <2>2 DEF Ramfs!IInv, Ramfs!TypeOK
<1>8. Ramfs!WellFormed'
  <2>1. Ramfs!PagesOK'
    <3>1. \A f \in DOMAIN files : files'[f].data = files[f].data
      BY <1>5
    <3>2. \A f \in DOMAIN files : \A k \in DOMAIN files'[f].data :
            /\ files'[f].data[k].offs % PAGE_SIZE = 0
            /\ k > 1 => files'[f].data[k - 1].offs < files'[f].data[k].offs
      BY <3>1, RamfsFiles
    <3> QED BY <1>5, <3>2 DEF Ramfs!PagesOK
  <2>2. Ramfs!Places' = Ramfs!Places
    <3>1. \A f \in DOMAIN files : {f} \X DOMAIN files'[f].data
                                    = {f} \X DOMAIN files[f].data
      BY <1>5
    <3> QED BY <1>5, <3>1 DEF Ramfs!Places
  <2>3. Ramfs!NothingLost'
    BY <1>1, <2>2 DEF Ramfs!IInv, Ramfs!WellFormed, Ramfs!NothingLost
  <2>4. Ramfs!MutexOK'
    BY <1>1, <1>4, <1>6 DEF Ramfs!MutexOK
  <2> QED BY <2>1, <2>3, <2>4 DEF Ramfs!WellFormed
<1>9. Ramfs!CallsOK'
  <2>1. ASSUME NEW q \in Proc, access'[q].at \in {"lock", "in"}
        PROVE  Ramfs!Asked(access[q])'
    <3>1. CASE q = p
      BY <1>2, <1>3, <1>5, <1>6, <3>1 DEF Ramfs!Asked
    <3>2. CASE q # p
      BY <1>6, <2>1, <3>2
    <3> QED BY <3>1, <3>2
  <2> QED BY <2>1 DEF Ramfs!CallsOK
<1>10. Ramfs!ReaderOK'
  BY <1>3, <1>6 DEF Ramfs!ReaderOK, Ramfs!Doing
<1>11. Ramfs!WriterOK'
  <2>1. Ramfs!Passed(new, files'[g].data)
    <3>1. Len(files'[g].data) \in Nat
      BY <1>2, <1>5, RamfsFiles
    <3>2. c.from \in c.from..c.to
      BY <1>2
    <3> QED BY <1>3, <3>1, <3>2 DEF Ramfs!Passed
  <2>2. Ramfs!Passed(access'[p], files'[access'[p].file].data)
    BY <1>3, <1>6, <2>1
  <2>3. ASSUME NEW q \in Proc, Ramfs!Doing(q, "write")' PROVE q = p
    BY <1>6, <2>3
  <2> QED BY <2>2, <2>3 DEF Ramfs!WriterOK, Ramfs!Passed, Ramfs!Behind
<1>12. /\ \A q \in Proc : \A f : ~Ramfs!WriterOf(q, f)
       /\ \A q \in Proc : \A f : Ramfs!WriterOf(q, f)' <=> (q = p /\ f = g)
       /\ \A o : ~Ramfs!Stored(p, o)'
  <2>1. ~Ramfs!Doing(p, "write") /\ Ramfs!Doing(p, "write")'
    BY <1>1, <1>3, <1>6 DEF Ramfs!Doing
  <2>2. \A o : ~(o \in c.from..c.from - 1)
    BY <1>2
  <2> QED BY <1>3, <1>6, <2>1, <2>2 DEF Ramfs!WriterOf, Ramfs!Stored
<1>13. Ramfs!SizeOK'
  <2>1. \A f \in DOMAIN files : files[f].size = image[f].size
    BY <1>12 DEF Ramfs!IInv, Ramfs!SizeOK
  <2>2. image' = image
    BY <1>1
  <2> QED BY <1>3, <1>5, <1>6, <1>12, <2>1, <2>2 DEF Ramfs!SizeOK, Ramfs!Larger
<1>14. Ramfs!BytesOK'
  <2>1. \A f \in DOMAIN files : \A o, v : Ramfs!Kept(f, o, v) => Ramfs!Kept(f, o, v)'
    BY <1>5 DEF Ramfs!Kept, Ramfs!Holds
  <2>2. \A f \in DOMAIN files, o \in Ramfs!Offset :
          image[f].byte[o] # Ramfs!Nothing => Ramfs!Kept(f, o, image[f].byte[o])
    BY <1>12 DEF Ramfs!IInv, Ramfs!BytesOK
  <2>3. image' = image
    BY <1>1
  <2>4. \A f \in DOMAIN files, o \in Ramfs!Offset :
          image[f].byte[o] # Ramfs!Nothing => Ramfs!Kept(f, o, image[f].byte[o])'
    BY <2>1, <2>2, <2>3
  <2> QED BY <1>5, <1>12, <2>3, <2>4 DEF Ramfs!BytesOK
<1> QED BY <1>7, <1>8, <1>9, <1>10, <1>11, <1>13, <1>14 DEF Ramfs!IInv

\* A file is made.
LEMMA AddKeeps ==
  ASSUME Ramfs!Assumption, Ramfs!IInv, NEW p \in Proc, Ramfs!Add(p)
  PROVE  Ramfs!IInv'
<1> DEFINE n == Len(files)
           file == [name |-> access[p].name, size |-> 0, data |-> <<>>]
           img == [name |-> access[p].name, size |-> 0,
                   byte |-> [o \in Ramfs!Offset |-> Ramfs!Nothing]]
           new == [at |-> "done", result |-> <<n + 1>>]
<1>1. /\ access[p].at = "in" /\ access[p].op = "add"
      /\ files' = Append(files, file) /\ image' = Append(image, img)
      /\ mtx' = NoProc /\ access' = [access EXCEPT ![p] = new]
      /\ UNCHANGED <<objects, writes>>
  BY DEF Ramfs!Add, Ramfs!Doing, Ramfs!Return, Ramfs!Goto
<1>2. access[p].name \in Name /\ LIMIT \in Nat
  BY <1>1, RamfsCall DEF Ramfs!FindCall, Ramfs!Assumption
<1>3. /\ file \in [name : Name, size : 0..LIMIT, data : Seq(Ramfs!Page)]
      /\ img \in [name : Name, size : 0..LIMIT, byte : [Ramfs!Offset -> Seq(Nat)]]
      /\ file.name = img.name /\ file.size = img.size /\ DOMAIN file.data = {}
      /\ \A o \in Ramfs!Offset : img.byte[o] = Ramfs!Nothing
  BY <1>2 DEF Ramfs!Nothing
<1> HIDE DEF file, img
<1>4. new.at = "done"
  OBVIOUS
<1> HIDE DEF new
<1>5. /\ files \in Seq([name : Name, size : 0..LIMIT, data : Seq(Ramfs!Page)])
      /\ image \in Seq([name : Name, size : 0..LIMIT,
                        byte : [Ramfs!Offset -> Seq(Nat)]])
      /\ n \in Nat /\ Len(image) = n
  BY RamfsFiles DEF Ramfs!IInv, Ramfs!TypeOK
<1>6. /\ files' \in Seq([name : Name, size : 0..LIMIT, data : Seq(Ramfs!Page)])
      /\ image' \in Seq([name : Name, size : 0..LIMIT,
                         byte : [Ramfs!Offset -> Seq(Nat)]])
      /\ Len(files') = n + 1 /\ Len(image') = n + 1
      /\ DOMAIN files' = DOMAIN files \cup {n + 1}
      /\ \A f \in DOMAIN files : files'[f] = files[f] /\ image'[f] = image[f]
      /\ files'[n + 1] = file /\ image'[n + 1] = img
  <2>1. DOMAIN files = 1..n
    BY <1>5
  <2>2. /\ files' \in Seq([name : Name, size : 0..LIMIT, data : Seq(Ramfs!Page)])
        /\ Len(files') = n + 1 /\ files'[n + 1] = file
        /\ \A f \in 1..n : files'[f] = files[f]
    BY <1>1, <1>3, <1>5
  <2>3. /\ image' \in Seq([name : Name, size : 0..LIMIT,
                            byte : [Ramfs!Offset -> Seq(Nat)]])
        /\ Len(image') = n + 1 /\ image'[n + 1] = img
        /\ \A f \in 1..n : image'[f] = image[f]
    BY <1>1, <1>3, <1>5
  <2>4. DOMAIN files' = 1..n \cup {n + 1}
    BY <1>5, <2>2
  <2> QED BY <2>1, <2>2, <2>3, <2>4
<1>7. /\ access' = [q \in Proc |-> access'[q]] /\ access'[p] = new
      /\ \A q \in Proc \ {p} :
           /\ access'[q] = access[q] /\ access[q].at \notin {"in", "fault"}
           /\ \/ access[q].at \in {"done", "fault"}
              \/ access[q] \in Ramfs!FindCall \cup Ramfs!WriteCall
              \/ \E m \in 0..LIMIT : access[q] \in Ramfs!ReadCall(m)
           /\ access[q].at \in {"lock", "in"} => Ramfs!Asked(access[q])'
           /\ \A op : ~Ramfs!Doing(q, op) /\ ~Ramfs!Doing(q, op)'
  BY <1>1, <1>6, OthersKeep
<1>8. \A q \in Proc : ~Ramfs!Doing(q, "write") /\ ~Ramfs!Doing(q, "write")'
                      /\ ~Ramfs!Doing(q, "read")'
  BY <1>1, <1>4, <1>7 DEF Ramfs!Doing
<1>9. Ramfs!TypeOK'
  <2>1. \A q \in Proc : \/ access'[q].at \in {"done", "fault"}
                        \/ access'[q] \in Ramfs!FindCall \cup Ramfs!WriteCall
                        \/ \E m \in 0..LIMIT : access'[q] \in Ramfs!ReadCall(m)
    BY <1>4, <1>7
  <2>2. \A f \in DOMAIN files' : image'[f].name = files'[f].name
    BY <1>3, <1>6, RamfsFiles
  <2>3. writes' \in 0..WRITES /\ Len(image') = Len(files')
    BY <1>1, <1>6 DEF Ramfs!IInv, Ramfs!TypeOK
  <2> QED BY <1>6, <1>7, <2>1, <2>2, <2>3 DEF Ramfs!TypeOK
<1>10. Ramfs!WellFormed'
  <2>1. Ramfs!PagesOK'
    <3>1. ASSUME NEW f \in DOMAIN files', NEW k \in DOMAIN files'[f].data
          PROVE  /\ files'[f].data[k].offs % PAGE_SIZE = 0
                 /\ k > 1 => files'[f].data[k - 1].offs < files'[f].data[k].offs
      <4>1. f \in DOMAIN files /\ files'[f] = files[f]
        BY <1>3, <1>6
      <4>2. k \in DOMAIN files[f].data
        BY <4>1
      <4> QED BY <4>1, <4>2, RamfsFiles
    <3> QED BY <3>1 DEF Ramfs!PagesOK
  <2>2. Ramfs!Places' = Ramfs!Places
    <3>1. \A f \in DOMAIN files : {f} \X DOMAIN files'[f].data
                                    = {f} \X DOMAIN files[f].data
      BY <1>6
    <3>2. {n + 1} \X DOMAIN files'[n + 1].data = {}
      BY <1>3, <1>6
    <3> QED BY <1>6, <3>1, <3>2 DEF Ramfs!Places
  <2>3. Ramfs!NothingLost'
    BY <1>1, <2>2 DEF Ramfs!IInv, Ramfs!WellFormed, Ramfs!NothingLost
  <2>4. Ramfs!MutexOK'
    BY <1>4, <1>7 DEF Ramfs!MutexOK
  <2> QED BY <2>1, <2>3, <2>4 DEF Ramfs!WellFormed
<1>11. Ramfs!CallsOK'
  <2>1. ASSUME NEW q \in Proc, access'[q].at \in {"lock", "in"}
        PROVE  Ramfs!Asked(access[q])'
    <3>1. q # p
      BY <1>4, <1>7, <2>1
    <3> QED BY <1>7, <2>1, <3>1
  <2> QED BY <2>1 DEF Ramfs!CallsOK
<1>12. Ramfs!ReaderOK' /\ Ramfs!WriterOK'
  BY <1>8 DEF Ramfs!ReaderOK, Ramfs!WriterOK
<1>13. /\ \A q \in Proc : \A f : ~Ramfs!WriterOf(q, f) /\ ~Ramfs!WriterOf(q, f)'
  BY <1>8 DEF Ramfs!WriterOf
<1>14. Ramfs!SizeOK'
  <2>1. \A f \in DOMAIN files : files[f].size = image[f].size
    BY <1>13 DEF Ramfs!IInv, Ramfs!SizeOK
  <2> QED BY <1>3, <1>6, <1>13, <2>1 DEF Ramfs!SizeOK
<1>15. Ramfs!BytesOK'
  <2>1. \A f \in DOMAIN files : \A o, v : Ramfs!Kept(f, o, v) => Ramfs!Kept(f, o, v)'
    BY <1>6 DEF Ramfs!Kept, Ramfs!Holds
  <2>2. \A f \in DOMAIN files, o \in Ramfs!Offset :
          image[f].byte[o] # Ramfs!Nothing => Ramfs!Kept(f, o, image[f].byte[o])
    BY <1>13 DEF Ramfs!IInv, Ramfs!BytesOK
  <2>3. ASSUME NEW f \in DOMAIN files', NEW o \in Ramfs!Offset,
               image'[f].byte[o] # Ramfs!Nothing
        PROVE  Ramfs!Kept(f, o, image[f].byte[o])'
    <3>1. f \in DOMAIN files /\ image'[f] = image[f]
      BY <1>3, <1>6, <2>3
    <3>2. Ramfs!Kept(f, o, image[f].byte[o])
      BY <2>2, <2>3, <3>1
    <3> QED BY <2>1, <3>1, <3>2
  <2> QED BY <1>13, <2>3 DEF Ramfs!BytesOK
<1> QED BY <1>9, <1>10, <1>11, <1>12, <1>14, <1>15 DEF Ramfs!IInv

\* A write returns, and the image takes what it stored.
LEMMA FinishKeeps ==
  ASSUME Ramfs!Assumption, Ramfs!IInv, NEW p \in Proc, NEW ret,
         Ramfs!Doing(p, "write"), Ramfs!Finish(p, ret), objects' = objects
  PROVE  Ramfs!IInv'
<1> DEFINE c == access[p]
           g == c.file
           img == [image[g] EXCEPT
                     !.size = Ramfs!Larger(image[g].size, c.to),
                     !.byte = [o \in Ramfs!Offset |->
                                 IF o \in c.from..c.offs - 1
                                 THEN <<c.tag, o - c.from>> ELSE image[g].byte[o]]]
           new == [at |-> "done", result |-> <<ret>>]
<1>1. /\ c.at = "in" /\ c.op = "write" /\ mtx' = NoProc
      /\ access' = [access EXCEPT ![p] = new] /\ UNCHANGED <<files, writes>>
  BY DEF Ramfs!Finish, Ramfs!Doing, Ramfs!Return, Ramfs!Goto
<1>2. /\ g \in DOMAIN files /\ c.from \in Nat /\ c.to \in 0..LIMIT
      /\ c.offs \in Nat /\ c.tag \in 1..WRITES
  BY <1>1, RamfsCall
<1>3. LIMIT \in Nat /\ WRITES \in Nat
  BY DEF Ramfs!Assumption
<1>4. /\ image[g] \in [name : Name, size : 0..LIMIT,
                       byte : [Ramfs!Offset -> Seq(Nat)]]
      /\ DOMAIN image = DOMAIN files
      /\ image \in Seq([name : Name, size : 0..LIMIT,
                        byte : [Ramfs!Offset -> Seq(Nat)]])
  BY <1>2, RamfsFiles DEF Ramfs!IInv, Ramfs!TypeOK
<1>5. image' = [image EXCEPT ![g] = img]
  BY <1>2, <1>4 DEF Ramfs!Finish
<1>6. /\ img \in [name : Name, size : 0..LIMIT, byte : [Ramfs!Offset -> Seq(Nat)]]
      /\ img.name = image[g].name
      /\ img.size = Ramfs!Larger(image[g].size, c.to)
      /\ \A o \in Ramfs!Offset :
           img.byte[o] = IF o \in c.from..c.offs - 1
                         THEN <<c.tag, o - c.from>> ELSE image[g].byte[o]
  <2>1. Ramfs!Larger(image[g].size, c.to) \in 0..LIMIT
    BY <1>2, <1>3, <1>4 DEF Ramfs!Larger
  <2>2. \A o \in c.from..c.offs - 1 : <<c.tag, o - c.from>> \in Seq(Nat)
    BY <1>2, <1>3
  <2>3. \A o \in Ramfs!Offset : image[g].byte[o] \in Seq(Nat)
    BY <1>4
  <2> HIDE DEF c, g
  <2> QED BY <1>4, <2>1, <2>2, <2>3
<1> HIDE DEF img
<1>7. /\ image' \in Seq([name : Name, size : 0..LIMIT,
                         byte : [Ramfs!Offset -> Seq(Nat)]])
      /\ DOMAIN image' = DOMAIN files /\ Len(image') = Len(image)
      /\ image'[g] = img
      /\ \A f \in DOMAIN files \ {g} : image'[f] = image[f]
  BY <1>2, <1>4, <1>5, <1>6
<1>8. new.at = "done"
  OBVIOUS
<1> HIDE DEF new
<1>9. /\ access' = [q \in Proc |-> access'[q]] /\ access'[p] = new
      /\ \A q \in Proc \ {p} :
           /\ access'[q] = access[q] /\ access[q].at \notin {"in", "fault"}
           /\ \/ access[q].at \in {"done", "fault"}
              \/ access[q] \in Ramfs!FindCall \cup Ramfs!WriteCall
              \/ \E m \in 0..LIMIT : access[q] \in Ramfs!ReadCall(m)
           /\ access[q].at \in {"lock", "in"} => Ramfs!Asked(access[q])'
           /\ \A op : ~Ramfs!Doing(q, op) /\ ~Ramfs!Doing(q, op)'
  <2>1. DOMAIN files \subseteq DOMAIN files' /\ mtx' \in {p, NoProc}
    BY <1>1
  <2> HIDE DEF c, g
  <2> QED BY <1>1, <2>1, OthersKeep DEF c
<1>10. \A q \in Proc : ~Ramfs!Doing(q, "write")' /\ ~Ramfs!Doing(q, "read")'
  BY <1>8, <1>9 DEF Ramfs!Doing
<1>11. Ramfs!TypeOK'
  <2>1. \A q \in Proc : \/ access'[q].at \in {"done", "fault"}
                        \/ access'[q] \in Ramfs!FindCall \cup Ramfs!WriteCall
                        \/ \E m \in 0..LIMIT : access'[q] \in Ramfs!ReadCall(m)
    BY <1>8, <1>9
  <2>2. \A f \in DOMAIN files : image'[f].name = files[f].name
    BY <1>6, <1>7, RamfsFiles
  <2>3. files' = files /\ writes' = writes
    BY <1>1
  <2> QED BY <1>7, <1>9, <2>1, <2>2, <2>3 DEF Ramfs!IInv, Ramfs!TypeOK
<1>12. Ramfs!WellFormed'
  <2>1. files' = files /\ objects' = objects
    BY <1>1
  <2>2. Ramfs!PagesOK' /\ Ramfs!NothingLost'
    BY <2>1 DEF Ramfs!IInv, Ramfs!WellFormed, Ramfs!PagesOK, Ramfs!NothingLost,
                Ramfs!Places
  <2>3. Ramfs!MutexOK'
    BY <1>8, <1>9 DEF Ramfs!MutexOK
  <2> QED BY <2>2, <2>3 DEF Ramfs!WellFormed
<1>13. Ramfs!CallsOK'
  <2>1. ASSUME NEW q \in Proc, access'[q].at \in {"lock", "in"}
        PROVE  Ramfs!Asked(access[q])'
    <3>1. q # p
      BY <1>8, <1>9, <2>1
    <3> QED BY <1>9, <2>1, <3>1
  <2> QED BY <2>1 DEF Ramfs!CallsOK
<1>14. Ramfs!ReaderOK' /\ Ramfs!WriterOK'
  BY <1>10 DEF Ramfs!ReaderOK, Ramfs!WriterOK
<1>15. /\ \A q \in Proc : \A f : ~Ramfs!WriterOf(q, f)'
       /\ \A q \in Proc : \A f : Ramfs!WriterOf(q, f) <=> (q = p /\ f = g)
  BY <1>1, <1>9, <1>10 DEF Ramfs!WriterOf, Ramfs!Doing
<1>16. Ramfs!SizeOK'
  <2>1. \A f \in DOMAIN files : files[f].size = image'[f].size
    <3>1. files[g].size = Ramfs!Larger(image[g].size, c.to)
      BY <1>2, <1>15 DEF Ramfs!IInv, Ramfs!SizeOK
    <3>2. \A f \in DOMAIN files \ {g} : files[f].size = image[f].size
      BY <1>15 DEF Ramfs!IInv, Ramfs!SizeOK
    <3> QED BY <1>6, <1>7, <3>1, <3>2
  <2> QED BY <1>1, <1>15, <2>1 DEF Ramfs!SizeOK
<1>17. Ramfs!BytesOK'
  <2>1. ASSUME NEW f \in DOMAIN files, NEW o \in Ramfs!Offset,
               image'[f].byte[o] # Ramfs!Nothing
        PROVE  Ramfs!Kept(f, o, image'[f].byte[o])
    <3>1. CASE f # g
      <4>1. image'[f] = image[f] /\ \A q \in Proc : ~Ramfs!WriterOf(q, f)
        BY <1>7, <1>15, <3>1
      <4> QED BY <2>1, <4>1 DEF Ramfs!IInv, Ramfs!BytesOK
    <3>2. CASE f = g
      <4>1. CASE o \in c.from..c.offs - 1
        <5>1. Ramfs!WriterOf(p, f) /\ Ramfs!Stored(p, o)
          BY <1>15, <3>2, <4>1 DEF Ramfs!Stored
        <5>2. Ramfs!Kept(f, o, <<c.tag, o - c.from>>)
          BY <5>1 DEF Ramfs!IInv, Ramfs!BytesOK
        <5> QED BY <1>6, <1>7, <3>2, <4>1, <5>2
      <4>2. CASE o \notin c.from..c.offs - 1
        <5>1. image'[f].byte[o] = image[f].byte[o]
          BY <1>6, <1>7, <3>2, <4>2
        <5>2. ~(\E q \in Proc : Ramfs!WriterOf(q, f) /\ Ramfs!Stored(q, o))
          BY <1>15, <4>2 DEF Ramfs!Stored
        <5> QED BY <2>1, <5>1, <5>2 DEF Ramfs!IInv, Ramfs!BytesOK
      <4> QED BY <4>1, <4>2
    <3> QED BY <3>1, <3>2
  <2>2. \A f \in DOMAIN files : \A o, v : Ramfs!Kept(f, o, v) <=> Ramfs!Kept(f, o, v)'
    BY <1>1 DEF Ramfs!Kept, Ramfs!Holds
  <2>3. ASSUME NEW f \in DOMAIN files, NEW o \in Ramfs!Offset,
               image'[f].byte[o] # Ramfs!Nothing
        PROVE  Ramfs!Kept(f, o, image[f].byte[o])'
    BY <2>1, <2>2, <2>3
  <2> QED BY <1>1, <1>15, <2>3 DEF Ramfs!BytesOK
<1> QED BY <1>11, <1>12, <1>13, <1>14, <1>16, <1>17 DEF Ramfs!IInv

\* A write that runs out of memory frees what it took.
LEMMA WriteReturns ==
  ASSUME Ramfs!Assumption, Ramfs!IInv, NEW p \in Proc,
         Ramfs!WriteFails(p) \/ Ramfs!WriteEnd(p)
  PROVE  Ramfs!IInv'
<1>1. CASE Ramfs!WriteEnd(p)
  <2>1. /\ Ramfs!Doing(p, "write") /\ objects' = objects
        /\ \E ret : Ramfs!Finish(p, ret)
    BY <1>1 DEF Ramfs!WriteEnd
  <2> QED BY <2>1, FinishKeeps
<1>2. CASE Ramfs!WriteFails(p)
  <2>1. Ramfs!Doing(p, "write") /\ \E ret : Ramfs!Finish(p, ret)
    BY <1>2 DEF Ramfs!WriteFails, Ramfs!Missing, Ramfs!Writing
  <2>2. PICK got \in {0, 1} :
          objects' = [objects EXCEPT !.rp = objects.rp + got - Ramfs!Freed(got)]
    BY <1>2 DEF Ramfs!WriteFails
  <2> DEFINE n == Ramfs!Cardinality(Ramfs!Places)
  <2>3. objects = [rp |-> n, page |-> n] /\ n \in Nat
    BY PlacesFinite DEF Ramfs!IInv, Ramfs!WellFormed, Ramfs!NothingLost
  <2> HIDE DEF n
  <2>4. objects.rp + got - Ramfs!Freed(got) = n
    BY <2>3 DEF Ramfs!Freed
  <2>5. objects' = objects
    BY <2>2, <2>3, <2>4
  <2> QED BY <2>1, <2>5, FinishKeeps
<1> QED BY <1>1, <1>2

\* The numbers of a turn of __ramfs_writeat, for a page of S bytes at q.
LEMMA StoreNumbers ==
  ASSUME NEW S \in Nat \ {0}, NEW q \in Nat, NEW from \in Nat, NEW offs \in Nat,
         NEW to \in Nat, from <= offs, offs < to, q <= offs, offs < q + S,
         NEW d \in Nat, d = offs - from, NEW s \in Nat, s = offs - q,
         NEW n \in Int, n <= q + S - offs, n <= to - offs,
         n = q + S - offs \/ n = to - offs
  PROVE  /\ n \in Nat \ {0} /\ offs + n <= to
         /\ offs + n # to => offs + n = q + S
         /\ \A o \in offs..offs + n - 1 : o \in q..q + S - 1
         /\ \A i \in 0..S - 1 :
              /\ i \in s..s + n - 1 <=> q + i \in offs..offs + n - 1
              /\ d + i - s = q + i - from
              /\ i \in s..s + n - 1 => d + i - s \in 0..to - from - 1
<1>1. d = offs - from /\ s = offs - q
  OBVIOUS
<1>2. /\ n \in Nat \ {0} /\ offs + n <= to /\ offs + n <= q + S
      /\ offs + n # to => offs + n = q + S
  OBVIOUS
<1>3. \A o \in offs..offs + n - 1 : o \in q..q + S - 1
  BY <1>2
<1>4. ASSUME NEW i \in 0..S - 1
      PROVE  /\ i \in s..s + n - 1 <=> q + i \in offs..offs + n - 1
             /\ d + i - s = q + i - from
             /\ i \in s..s + n - 1 => d + i - s \in 0..to - from - 1
  <2>1. d + i - s = q + i - from
    BY <1>1
  <2>2. /\ i \in Int /\ s \in Int /\ n \in Int
        /\ i \in s..s + n - 1 <=> s <= i /\ i <= s + n - 1
        /\ q + i \in offs..offs + n - 1 <=> offs <= q + i /\ q + i <= offs + n - 1
    BY <1>1, <1>2
  <2>3. i \in s..s + n - 1 <=> q + i \in offs..offs + n - 1
    <3>1. s <= i <=> offs <= q + i
      BY <1>1, <2>2
    <3>2. i <= s + n - 1 <=> q + i <= offs + n - 1
      BY <1>1, <2>2
    <3> QED BY <2>2, <3>1, <3>2
  <2>4. i \in s..s + n - 1 => d + i - s \in 0..to - from - 1
    <3>1. CASE offs <= q + i /\ q + i <= offs + n - 1
      <4>1. q + i - from \in 0..to - from - 1
        BY <1>2, <2>2, <3>1
      <4> QED BY <2>1, <4>1
    <3> QED BY <2>2, <2>3, <3>1
  <2> QED BY <2>1, <2>3, <2>4
<1> QED BY <1>2, <1>3, <1>4

\* What a turn of __ramfs_writeat leaves in its page.
StoredIn(rp, from, offs, to, tag) ==
  Ramfs!Memcpy(rp.byte, Ramfs!PageOffs(rp, offs),
               [i \in 0..to - from - 1 |-> <<tag, i>>],
               Ramfs!DataOffs(rp, from), Ramfs!ToCopy(rp, from, offs, to))

\* It is what comes next of the write, n bytes, as far as the page goes.
StoresNext(rp, from, offs, to, tag, n) ==
  /\ n \in Nat \ {0} /\ offs + n <= to
  /\ offs + n # to => offs + n = rp.offs + PAGE_SIZE
  /\ StoredIn(rp, from, offs, to, tag) \in [0..PAGE_SIZE - 1 -> Seq(Nat)]
  /\ \A o \in offs..offs + n - 1 : Ramfs!Holds(rp, o)
  /\ \A o : Ramfs!Holds(rp, o) =>
       StoredIn(rp, from, offs, to, tag)[o - rp.offs]
         = IF o \in offs..offs + n - 1 THEN <<tag, o - from>>
           ELSE rp.byte[o - rp.offs]

\* Every turn of the loop in __ramfs_writeat does this.
LEMMA StoreCopies ==
  ASSUME Ramfs!Assumption, NEW rp \in Ramfs!Page, NEW from \in Nat, NEW offs \in Nat,
         NEW to \in Nat, NEW tag \in Nat, from <= offs, offs < to,
         rp.offs <= offs, offs < rp.offs + PAGE_SIZE, offs = from \/ offs = rp.offs,
         NEW n, n = Ramfs!ToCopy(rp, from, offs, to)
  PROVE  StoresNext(rp, from, offs, to, tag, n)
<1>1. PAGE_SIZE \in Nat \ {0} /\ LIMIT \in Nat
  BY DEF Ramfs!Assumption
<1>2. rp.offs \in Nat /\ rp.byte \in [0..PAGE_SIZE - 1 -> Seq(Nat)]
  BY <1>1 DEF Ramfs!Page, Ramfs!Offset
<1> DEFINE q == rp.offs
           d == Ramfs!DataOffs(rp, from)
           s == Ramfs!PageOffs(rp, offs)
           src == [i \in 0..to - from - 1 |-> <<tag, i>>]
           new == StoredIn(rp, from, offs, to, tag)
<1>3. /\ new = Ramfs!Memcpy(rp.byte, s, src, d, n)
      /\ \A o : Ramfs!Holds(rp, o) <=> o \in q..q + PAGE_SIZE - 1
  BY DEF Ramfs!Holds, StoredIn
<1>4. \A i \in 0..to - from - 1 : src[i] = <<tag, i>> /\ src[i] \in Seq(Nat)
  OBVIOUS
<1>5. /\ q \in Nat /\ q <= offs /\ offs < q + PAGE_SIZE /\ (offs = from \/ offs = q)
      /\ d = Ramfs!Larger(q - from, 0) /\ s = Ramfs!Larger(offs - q, 0)
      /\ n = Ramfs!Smaller(PAGE_SIZE - s, to - (from + d))
  BY <1>2 DEF Ramfs!DataOffs, Ramfs!PageOffs, Ramfs!ToCopy
<1> HIDE DEF q, d, s, src, new
<1>6. /\ n \in Nat \ {0} /\ offs + n <= to
      /\ offs + n # to => offs + n = q + PAGE_SIZE
      /\ \A o \in offs..offs + n - 1 : o \in q..q + PAGE_SIZE - 1
      /\ \A i \in 0..PAGE_SIZE - 1 :
           /\ i \in s..s + n - 1 <=> q + i \in offs..offs + n - 1
           /\ d + i - s = q + i - from
           /\ i \in s..s + n - 1 => d + i - s \in 0..to - from - 1
  <2>1. d = offs - from
    BY <1>5 DEF Ramfs!Larger
  <2>2. s = offs - q
    BY <1>5 DEF Ramfs!Larger
  <2>3. d \in Nat /\ s \in Nat
    BY <1>5, <2>1, <2>2
  <2>4. PAGE_SIZE - s = q + PAGE_SIZE - offs
    BY <1>1, <1>5, <2>2, <2>3
  <2>5. to - (from + d) = to - offs
    BY <1>1, <1>5, <2>1, <2>3
  <2>6. /\ n \in Int /\ n <= q + PAGE_SIZE - offs /\ n <= to - offs
        /\ n = q + PAGE_SIZE - offs \/ n = to - offs
    BY <1>1, <1>5, <2>4, <2>5 DEF Ramfs!Smaller
  <2> QED BY <1>1, <1>5, <2>1, <2>2, <2>3, <2>6, StoreNumbers
<1>7. ASSUME NEW i \in 0..PAGE_SIZE - 1
      PROVE  new[i] = IF i \in s..s + n - 1 THEN src[d + i - s] ELSE rp.byte[i]
  <2>1. i \in DOMAIN rp.byte
    BY <1>2
  <2> QED BY <1>3, <2>1, MemcpyIs
<1>8. new \in [0..PAGE_SIZE - 1 -> Seq(Nat)]
  <2>1. \A i \in 0..PAGE_SIZE - 1 : new[i] \in Seq(Nat)
    BY <1>2, <1>4, <1>6, <1>7
  <2>2. DOMAIN new = 0..PAGE_SIZE - 1 /\ new = [i \in DOMAIN new |-> new[i]]
    BY <1>2, <1>3 DEF Ramfs!Memcpy
  <2> QED BY <2>1, <2>2
<1>9. ASSUME NEW o, Ramfs!Holds(rp, o)
      PROVE  new[o - q] = IF o \in offs..offs + n - 1 THEN <<tag, o - from>>
                          ELSE rp.byte[o - q]
  <2>1. o \in q..q + PAGE_SIZE - 1
    BY <1>3, <1>9
  <2>2. o - q \in 0..PAGE_SIZE - 1 /\ q + (o - q) = o /\ o \in Int /\ q \in Int
    <3> HIDE DEF Ramfs!Holds
    <3> QED BY <1>1, <1>5, <2>1
  <2>3. /\ o - q \in s..s + n - 1 <=> o \in offs..offs + n - 1
        /\ d + (o - q) - s = o - from
        /\ o - q \in s..s + n - 1 => d + (o - q) - s \in 0..to - from - 1
    <3>1. /\ o - q \in s..s + n - 1 <=> q + (o - q) \in offs..offs + n - 1
          /\ d + (o - q) - s = q + (o - q) - from
          /\ o - q \in s..s + n - 1 => d + (o - q) - s \in 0..to - from - 1
      BY <1>6, <2>2
    <3>2. q + (o - q) - from = o - from
      BY <2>2
    <3> QED BY <2>2, <3>1, <3>2
  <2>4. new[o - q] = IF o - q \in s..s + n - 1 THEN src[d + (o - q) - s]
                     ELSE rp.byte[o - q]
    BY <1>7, <2>2
  <2>5. o \in offs..offs + n - 1 => src[o - from] = <<tag, o - from>>
    BY <1>4, <2>3
  <2> QED BY <2>3, <2>4, <2>5
<1>10. \A o \in offs..offs + n - 1 : Ramfs!Holds(rp, o)
  BY <1>3, <1>6
<1> QED BY <1>6, <1>8, <1>9, <1>10 DEF q, new, StoresNext

\* A turn of the loop in __ramfs_writeat that has its page, of a list that holds
\* all the pages of the file.
LEMMA StoreKeeps ==
  ASSUME Ramfs!Assumption, Ramfs!IInv, NEW p \in Proc, NEW data \in Seq(Ramfs!Page),
         Ramfs!Writing(p), Ramfs!Store(p, data), Ramfs!NothingLost',
         \A k \in DOMAIN data : /\ data[k].offs % PAGE_SIZE = 0
                                /\ k > 1 => data[k - 1].offs < data[k].offs,
         access[p].turn \in DOMAIN data,
         data[access[p].turn].offs <= access[p].offs,
         access[p].offs < data[access[p].turn].offs + PAGE_SIZE,
         \A k \in 1..access[p].turn - 1 : Ramfs!Behind(data[k], access[p].offs),
         \A k \in DOMAIN Ramfs!PagesOf(p) :
           \E j \in DOMAIN data : data[j] = Ramfs!PagesOf(p)[k]
  PROVE  Ramfs!IInv'
<1>1. PICK g, t, from, offs, to, tag :
        /\ g = access[p].file /\ t = access[p].turn /\ from = access[p].from
        /\ offs = access[p].offs /\ to = access[p].to /\ tag = access[p].tag
  OBVIOUS
<1> DEFINE rp == data[t]
           n == Ramfs!ToCopy(rp, from, offs, to)
           byte == StoredIn(rp, from, offs, to, tag)
           list == [data EXCEPT ![t].byte = byte]
           new == [access[p] EXCEPT !.turn = t + 1, !.offs = offs + n]
<1>2. /\ access[p].at = "in" /\ access[p].op = "write" /\ offs # to
      /\ files' = [files EXCEPT ![g].data = list]
      /\ access' = [access EXCEPT ![p] = new]
      /\ UNCHANGED <<mtx, writes, image>>
  <2>1. /\ access[p].at = "in" /\ access[p].op = "write" /\ offs # to
    BY <1>1 DEF Ramfs!Writing, Ramfs!Doing
  <2>2. /\ files' = [files EXCEPT ![g].data = list]
        /\ access' = [access EXCEPT ![p] = new]
        /\ UNCHANGED <<mtx, writes, image>>
    BY <1>1 DEF Ramfs!Store, Ramfs!Goto, StoredIn
  <2> QED BY <2>1, <2>2
<1>3. /\ access[p] \in Ramfs!WriteCall /\ g \in DOMAIN files /\ t \in Nat \ {0}
      /\ from \in Nat /\ to \in 0..LIMIT /\ offs \in Nat
      /\ tag \in 1..WRITES /\ from <= to
  BY <1>1, <1>2, RamfsCall
<1>4. LIMIT \in Nat /\ WRITES \in Nat /\ PAGE_SIZE \in Nat \ {0}
  BY DEF Ramfs!Assumption
<1>5. /\ offs \in from..to /\ offs < to /\ from <= offs
      /\ offs = from \/ offs % PAGE_SIZE = 0
  <2>1. Ramfs!Passed(access[p], files[g].data)
    BY <1>1, <1>2 DEF Ramfs!IInv, Ramfs!WriterOK, Ramfs!Doing
  <2>2. offs \in from..to /\ (offs = from \/ offs % PAGE_SIZE = 0)
    BY <1>1, <1>2, <2>1 DEF Ramfs!Passed
  <2>3. offs < to /\ from <= offs
    BY <1>2, <1>3, <2>2
  <2> QED BY <2>2, <2>3
<1>6. /\ t \in DOMAIN data /\ DOMAIN data = 1..Len(data) /\ Len(data) \in Nat
      /\ \A k \in DOMAIN data : data[k] \in Ramfs!Page /\ data[k].offs \in Nat
      /\ rp.offs <= offs /\ offs < rp.offs + PAGE_SIZE
      /\ \A k \in 1..t - 1 : data[k].offs + PAGE_SIZE <= offs
  <2>1. DOMAIN data = 1..Len(data) /\ Len(data) \in Nat
    OBVIOUS
  <2>2. \A k \in DOMAIN data : data[k] \in Ramfs!Page
    BY <2>1, ElementOfSeq
  <2>3. \A k \in DOMAIN data : data[k].offs \in Nat
    BY <1>4, <2>2 DEF Ramfs!Page, Ramfs!Offset
  <2>4. \A k \in 1..t - 1 : data[k].offs + PAGE_SIZE <= offs
    BY <1>1 DEF Ramfs!Behind
  <2> QED BY <1>1, <2>1, <2>2, <2>3, <2>4
<1>7. rp \in Ramfs!Page /\ rp.offs \in Nat /\ rp.offs % PAGE_SIZE = 0
  BY <1>6
<1> HIDE DEF rp
<1>8. offs = from \/ offs = rp.offs
  <2> SUFFICES ASSUME offs % PAGE_SIZE = 0, rp.offs < offs PROVE FALSE
    BY <1>3, <1>5, <1>6, <1>7
  <2>1. rp.offs + PAGE_SIZE <= offs
    BY <1>3, <1>7, PageEnds
  <2> QED BY <1>3, <1>4, <1>6, <1>7, <2>1
<1>9. /\ n \in Nat \ {0} /\ offs + n <= to
      /\ offs + n # to => offs + n = rp.offs + PAGE_SIZE
      /\ byte \in [0..PAGE_SIZE - 1 -> Seq(Nat)]
      /\ \A o \in offs..offs + n - 1 : Ramfs!Holds(rp, o)
      /\ \A o : Ramfs!Holds(rp, o) =>
           byte[o - rp.offs] = IF o \in offs..offs + n - 1
                               THEN <<tag, o - from>> ELSE rp.byte[o - rp.offs]
  <2>1. /\ to \in Nat /\ tag \in Nat /\ n = Ramfs!ToCopy(rp, from, offs, to)
        /\ from \in Nat /\ offs \in Nat /\ from <= offs /\ offs < to
        /\ rp \in Ramfs!Page /\ rp.offs <= offs /\ offs < rp.offs + PAGE_SIZE
        /\ offs = from \/ offs = rp.offs
    BY <1>3, <1>4, <1>5, <1>6, <1>7, <1>8
  <2> HIDE DEF n
  <2>2. StoresNext(rp, from, offs, to, tag, n)
    BY <2>1, StoreCopies
  <2> QED BY <2>2 DEF StoresNext
<1> HIDE DEF n, byte
<1>10. /\ list \in Seq(Ramfs!Page) /\ Len(list) = Len(data)
       /\ DOMAIN list = DOMAIN data
       /\ list[t].offs = rp.offs /\ list[t].byte = byte
       /\ \A k \in DOMAIN data \ {t} : list[k] = data[k]
       /\ \A k \in DOMAIN data : list[k].offs = data[k].offs
  <2> DEFINE page == [rp EXCEPT !.byte = byte]
  <2>1. page \in Ramfs!Page /\ page.offs = rp.offs /\ page.byte = byte
    BY <1>7, <1>9 DEF Ramfs!Page
  <2>2. list = [data EXCEPT ![t] = page]
    BY DEF rp
  <2> HIDE DEF page, list
  <2>3. /\ list \in Seq(Ramfs!Page) /\ Len(list) = Len(data)
        /\ DOMAIN list = DOMAIN data /\ list[t] = page
        /\ \A k \in DOMAIN data \ {t} : list[k] = data[k]
    BY <1>6, <2>1, <2>2
  <2> QED BY <2>1, <2>3 DEF rp
<1> HIDE DEF list
<1>11. /\ DOMAIN files' = DOMAIN files /\ Len(files') = Len(files)
       /\ files' \in Seq([name : Name, size : 0..LIMIT, data : Seq(Ramfs!Page)])
       /\ files'[g].data = list
       /\ \A f \in DOMAIN files \ {g} : files'[f] = files[f]
       /\ \A f \in DOMAIN files :
            files'[f].name = files[f].name /\ files'[f].size = files[f].size
  <2> DEFINE file == [files[g] EXCEPT !.data = list]
  <2>1. files[g] \in [name : Name, size : 0..LIMIT, data : Seq(Ramfs!Page)]
    BY <1>3, RamfsFiles
  <2>2. /\ file \in [name : Name, size : 0..LIMIT, data : Seq(Ramfs!Page)]
        /\ file.name = files[g].name /\ file.size = files[g].size
        /\ file.data = list
    BY <1>10, <2>1
  <2>3. files' = [files EXCEPT ![g] = file]
    BY <1>2
  <2>4. /\ files \in Seq([name : Name, size : 0..LIMIT, data : Seq(Ramfs!Page)])
        /\ DOMAIN files = 1..Len(files) /\ Len(files) \in Nat
    BY RamfsFiles DEF Ramfs!IInv, Ramfs!TypeOK
  <2> HIDE DEF file
  <2>5. /\ files' \in Seq([name : Name, size : 0..LIMIT, data : Seq(Ramfs!Page)])
        /\ DOMAIN files' = DOMAIN files /\ Len(files') = Len(files)
        /\ files'[g] = file
        /\ \A f \in DOMAIN files \ {g} : files'[f] = files[f]
    BY <1>3, <2>2, <2>3, <2>4
  <2> QED BY <2>2, <2>5
<1>12. /\ new \in Ramfs!WriteCall /\ new.at = "in" /\ new.op = "write"
       /\ new.file = g /\ new.from = from /\ new.to = to
       /\ new.turn = t + 1 /\ new.offs = offs + n /\ new.tag = tag
  <2>1. offs + n \in 0..LIMIT /\ t + 1 \in Nat \ {0}
    BY <1>3, <1>4, <1>9
  <2> QED BY <1>1, <1>2, <1>3, <2>1 DEF Ramfs!WriteCall
<1> HIDE DEF new
<1>13. /\ access' = [q \in Proc |-> access'[q]] /\ access'[p] = new
       /\ \A q \in Proc \ {p} :
            /\ access'[q] = access[q] /\ access[q].at \notin {"in", "fault"}
            /\ \/ access[q].at \in {"done", "fault"}
               \/ access[q] \in Ramfs!FindCall \cup Ramfs!WriteCall
               \/ \E m \in 0..LIMIT : access[q] \in Ramfs!ReadCall(m)
            /\ access[q].at \in {"lock", "in"} => Ramfs!Asked(access[q])'
            /\ \A op : ~Ramfs!Doing(q, op) /\ ~Ramfs!Doing(q, op)'
  <2>1. mtx' \in {p, NoProc} /\ DOMAIN files \subseteq DOMAIN files'
    BY <1>2, <1>11, RamfsAlone
  <2> QED BY <1>2, <2>1, OthersKeep
<1>14. Ramfs!TypeOK'
  <2>1. \A q \in Proc : \/ access'[q].at \in {"done", "fault"}
                        \/ access'[q] \in Ramfs!FindCall \cup Ramfs!WriteCall
                        \/ \E m \in 0..LIMIT : access'[q] \in Ramfs!ReadCall(m)
    BY <1>12, <1>13
  <2>2. image' = image /\ writes' = writes
    BY <1>2
  <2> QED BY <1>11, <1>13, <2>1, <2>2 DEF Ramfs!IInv, Ramfs!TypeOK
<1>15. Ramfs!WellFormed'
  <2>1. Ramfs!PagesOK'
    <3>1. ASSUME NEW k \in DOMAIN list
          PROVE  /\ list[k].offs % PAGE_SIZE = 0
                 /\ k > 1 => list[k - 1].offs < list[k].offs
      <4>1. k > 1 => k - 1 \in DOMAIN data
        BY <1>6, <1>10
      <4> QED BY <1>10, <4>1
    <3>2. ASSUME NEW f \in DOMAIN files, NEW k \in DOMAIN files'[f].data
          PROVE  /\ files'[f].data[k].offs % PAGE_SIZE = 0
                 /\ k > 1 => files'[f].data[k - 1].offs < files'[f].data[k].offs
      <4>1. CASE f = g
        BY <1>11, <3>1, <3>2, <4>1
      <4>2. CASE f # g
        <5>1. files'[f] = files[f]
          BY <1>11, <4>2
        <5> QED BY <3>2, <5>1, RamfsFiles
      <4> QED BY <4>1, <4>2
    <3> QED BY <1>11, <3>2 DEF Ramfs!PagesOK
  <2>2. Ramfs!MutexOK'
    <3>1. mtx' = p
      BY <1>2, RamfsAlone
    <3> QED BY <1>13, <3>1 DEF Ramfs!MutexOK
  <2> QED BY <2>1, <2>2 DEF Ramfs!WellFormed
<1>16. Ramfs!CallsOK'
  <2>1. ASSUME NEW q \in Proc, access'[q].at \in {"lock", "in"}
        PROVE  Ramfs!Asked(access[q])'
    <3>1. CASE q = p
      BY <1>3, <1>11, <1>12, <1>13, <3>1 DEF Ramfs!Asked
    <3>2. CASE q # p
      BY <1>13, <2>1, <3>2
    <3> QED BY <3>1, <3>2
  <2> QED BY <2>1 DEF Ramfs!CallsOK
<1>17. Ramfs!ReaderOK'
  BY <1>12, <1>13 DEF Ramfs!ReaderOK, Ramfs!Doing
<1>18. Ramfs!WriterOK'
  <2>1. offs + n \in from..to /\ t + 1 <= Len(list) + 1
    BY <1>3, <1>5, <1>6, <1>9, <1>10
  <2>2. ASSUME offs + n # to, NEW k \in 1..t
        PROVE  Ramfs!Behind(list[k], offs + n)
    <3>1. offs + n = rp.offs + PAGE_SIZE /\ n \in Nat
      BY <1>9, <2>2
    <3>2. CASE k = t
      BY <1>4, <1>7, <1>10, <3>1, <3>2 DEF Ramfs!Behind
    <3>3. CASE k # t
      <4>1. k \in 1..t - 1 /\ k \in DOMAIN data
        BY <1>3, <1>6, <3>3
      <4>2. /\ data[k].offs + PAGE_SIZE <= offs /\ data[k].offs \in Nat
            /\ list[k].offs = data[k].offs
        BY <1>6, <1>10, <4>1
      <4>3. list[k].offs + PAGE_SIZE <= offs + n
        BY <1>3, <1>4, <3>1, <4>2
      <4> QED BY <4>3 DEF Ramfs!Behind
    <3> QED BY <3>2, <3>3
  <2>3. offs + n # to => (offs + n) % PAGE_SIZE = 0
    BY <1>7, <1>9, PageEnds
  <2>4. new.turn - 1 = t
    BY <1>3, <1>12
  <2>5. Ramfs!Passed(new, list)
    BY <1>12, <2>1, <2>2, <2>3, <2>4 DEF Ramfs!Passed
  <2>6. Ramfs!Passed(access'[p], files'[access'[p].file].data)
    BY <1>11, <1>12, <1>13, <2>5
  <2>7. ASSUME NEW q \in Proc, Ramfs!Doing(q, "write")' PROVE q = p
    BY <1>13, <2>7
  <2> QED BY <2>6, <2>7 DEF Ramfs!WriterOK, Ramfs!Passed, Ramfs!Behind
<1>19. /\ \A q \in Proc : \A f : Ramfs!WriterOf(q, f) <=> (q = p /\ f = g)
       /\ \A q \in Proc : \A f : Ramfs!WriterOf(q, f)' <=> (q = p /\ f = g)
       /\ \A o : Ramfs!Stored(p, o) <=> o \in from..offs - 1
       /\ \A o : Ramfs!Stored(p, o)' <=> o \in from..offs + n - 1
  <2>1. Ramfs!Doing(p, "write") /\ Ramfs!Doing(p, "write")'
    BY <1>2, <1>12, <1>13 DEF Ramfs!Doing
  <2>2. \A q \in Proc : \A f : Ramfs!WriterOf(q, f) <=> (q = p /\ f = g)
    BY <1>1, <1>13, <2>1 DEF Ramfs!WriterOf
  <2>3. \A q \in Proc : \A f : Ramfs!WriterOf(q, f)' <=> (q = p /\ f = g)
    BY <1>12, <1>13, <2>1 DEF Ramfs!WriterOf
  <2>4. \A o : Ramfs!Stored(p, o) <=> o \in from..offs - 1
    BY <1>1 DEF Ramfs!Stored
  <2>5. \A o : Ramfs!Stored(p, o)' <=> o \in from..offs + n - 1
    <3>1. access'[p].from = from /\ access'[p].offs = offs + n
      BY <1>12, <1>13
    <3>2. \A o : Ramfs!Stored(p, o)' <=> o \in access'[p].from..access'[p].offs - 1
      BY DEF Ramfs!Stored
    <3>3. access'[p].offs - 1 = offs + n - 1
      <4>1. offs \in Int /\ n \in Int
        BY <1>3, <1>9
      <4> QED BY <3>1, <4>1
    <3>4. access'[p].from..access'[p].offs - 1 = from..offs + n - 1
      BY <3>1, <3>3
    <3> QED BY <3>2, <3>4
  <2> QED BY <2>2, <2>3, <2>4, <2>5
<1>20. Ramfs!SizeOK'
  <2>1. image' = image /\ access'[p].to = access[p].to
    BY <1>1, <1>2, <1>12, <1>13
  <2> QED BY <1>11, <1>19, <2>1 DEF Ramfs!IInv, Ramfs!SizeOK
<1>21. ASSUME NEW o \in offs..offs + n - 1
       PROVE  Ramfs!Kept(g, o, <<tag, o - from>>)'
  <2>1. Ramfs!Holds(list[t], o) /\ list[t].byte[o - list[t].offs] = <<tag, o - from>>
    BY <1>9, <1>10 DEF Ramfs!Holds
  <2>2. t \in DOMAIN files'[g].data /\ files'[g].data = list
    BY <1>6, <1>10, <1>11
  <2> QED BY <2>1, <2>2 DEF Ramfs!Kept, Ramfs!Holds
<1>22. ASSUME NEW o, o \notin offs..offs + n - 1, NEW v, Ramfs!Kept(g, o, v)
       PROVE  Ramfs!Kept(g, o, v)'
  <2>1. PICK k \in DOMAIN files[g].data :
          /\ Ramfs!Holds(files[g].data[k], o)
          /\ files[g].data[k].byte[o - files[g].data[k].offs] = v
    BY <1>22 DEF Ramfs!Kept
  <2>2. PICK j \in DOMAIN data : data[j] = files[g].data[k]
    BY <1>1 DEF Ramfs!PagesOf
  <2>3. Ramfs!Holds(list[j], o) /\ list[j].byte[o - list[j].offs] = v
    <3>1. CASE j = t
      <4>1. rp = files[g].data[k]
        BY <2>2, <3>1 DEF rp
      <4>2. byte[o - rp.offs] = rp.byte[o - rp.offs]
        BY <1>9, <1>22, <2>1, <4>1
      <4> QED BY <1>10, <2>1, <3>1, <4>1, <4>2 DEF Ramfs!Holds
    <3>2. CASE j # t
      BY <1>10, <2>1, <2>2, <3>2
    <3> QED BY <3>1, <3>2
  <2>4. j \in DOMAIN files'[g].data /\ files'[g].data = list
    BY <1>10, <1>11
  <2> QED BY <2>3, <2>4 DEF Ramfs!Kept, Ramfs!Holds
<1>23. \A f \in DOMAIN files \ {g} : \A o, v : Ramfs!Kept(f, o, v) => Ramfs!Kept(f, o, v)'
  BY <1>11 DEF Ramfs!Kept, Ramfs!Holds
<1>24. Ramfs!BytesOK'
  <2>1. ASSUME NEW f \in DOMAIN files, NEW o \in Ramfs!Offset,
               NEW q \in Proc, Ramfs!WriterOf(q, f)', Ramfs!Stored(q, o)'
        PROVE  Ramfs!Kept(f, o, <<access[q].tag, o - access[q].from>>)'
    <3>1. q = p /\ f = g /\ o \in from..offs + n - 1
      BY <1>19, <2>1
    <3>2. access'[q].tag = tag /\ access'[q].from = from
      BY <1>12, <1>13, <3>1
    <3>3. Ramfs!Kept(g, o, <<tag, o - from>>)'
      <4>1. CASE o \in offs..offs + n - 1
        BY <1>21, <4>1
      <4>2. CASE o \notin offs..offs + n - 1
        <5>1. o \in from..offs - 1
          BY <1>3, <1>9, <3>1, <4>2
        <5>2. Ramfs!Kept(g, o, <<tag, o - from>>)
          BY <1>1, <1>19, <3>1, <5>1 DEF Ramfs!IInv, Ramfs!BytesOK
        <5> QED BY <1>22, <4>2, <5>2
      <4> QED BY <4>1, <4>2
    <3> QED BY <3>1, <3>2, <3>3
  <2>2. ASSUME NEW f \in DOMAIN files, NEW o \in Ramfs!Offset,
               image[f].byte[o] # Ramfs!Nothing,
               ~(\E q \in Proc : Ramfs!WriterOf(q, f)' /\ Ramfs!Stored(q, o)')
        PROVE  Ramfs!Kept(f, o, image[f].byte[o])'
    <3>1. ~(\E q \in Proc : Ramfs!WriterOf(q, f) /\ Ramfs!Stored(q, o))
      <4>1. o \in from..offs - 1 => o \in from..offs + n - 1
        BY <1>3, <1>9
      <4> QED BY <1>19, <2>2, <4>1
    <3>2. Ramfs!Kept(f, o, image[f].byte[o])
      BY <2>2, <3>1 DEF Ramfs!IInv, Ramfs!BytesOK
    <3>3. image' = image
      BY <1>2
    <3>4. CASE f # g
      BY <1>23, <3>2, <3>3, <3>4
    <3>5. CASE f = g
      <4>1. o \notin offs..offs + n - 1
        <5>1. o \in offs..offs + n - 1 => o \in from..offs + n - 1
          BY <1>3, <1>5, <1>9
        <5> QED BY <1>19, <2>2, <3>5, <5>1
      <4> QED BY <1>22, <3>2, <3>3, <3>5, <4>1
    <3> QED BY <3>4, <3>5
  <2>3. image' = image
    BY <1>2
  <2> QED BY <1>11, <2>1, <2>2, <2>3 DEF Ramfs!BytesOK
<1> QED BY <1>14, <1>15, <1>16, <1>17, <1>18, <1>20, <1>24 DEF Ramfs!IInv

\* Where the pages are after a turn of __ramfs_writeat.
LEMMA StorePlaces ==
  ASSUME Ramfs!Assumption, Ramfs!IInv, NEW p \in Proc, NEW data, Ramfs!Writing(p),
         Ramfs!Store(p, data)
  PROVE  /\ access[p].file \in DOMAIN files /\ DOMAIN files' = DOMAIN files
         /\ DOMAIN files'[access[p].file].data = DOMAIN data
         /\ \A f \in DOMAIN files \ {access[p].file} : files'[f] = files[f]
<1> DEFINE g == access[p].file
           page(byte) == [data EXCEPT ![access[p].turn].byte = byte]
<1>1. g \in DOMAIN files
  BY RamfsCall DEF Ramfs!Writing, Ramfs!Doing
<1>2. PICK byte : files' = [files EXCEPT ![g].data = page(byte)]
  BY DEF Ramfs!Store
<1>3. DOMAIN page(byte) = DOMAIN data
  OBVIOUS
<1>4. /\ files[g] \in [name : Name, size : 0..LIMIT, data : Seq(Ramfs!Page)]
      /\ files \in Seq([name : Name, size : 0..LIMIT, data : Seq(Ramfs!Page)])
  BY <1>1, RamfsFiles DEF Ramfs!IInv, Ramfs!TypeOK
<1> HIDE DEF page, g
<1>5. /\ DOMAIN files' = DOMAIN files /\ files'[g].data = page(byte)
      /\ \A f \in DOMAIN files \ {g} : files'[f] = files[f]
  BY <1>1, <1>2, <1>4
<1> QED BY <1>1, <1>3, <1>5 DEF g

\* A turn of __ramfs_writeat that finds its page.
LEMMA WriteCopyKeeps ==
  ASSUME Ramfs!Assumption, Ramfs!IInv, NEW p \in Proc, Ramfs!WriteCopy(p)
  PROVE  Ramfs!IInv'
<1> DEFINE data == Ramfs!PagesOf(p)
           t == access[p].turn
           offs == access[p].offs
<1>1. /\ Ramfs!Writing(p) /\ Ramfs!Store(p, data) /\ objects' = objects
      /\ t <= Len(data) /\ ~(data[t].offs > offs) /\ ~Ramfs!Behind(data[t], offs)
      /\ access[p].at = "in" /\ access[p].op = "write" /\ offs # access[p].to
  BY DEF Ramfs!WriteCopy, Ramfs!Missing, Ramfs!Writing, Ramfs!Doing
<1>2. access[p].file \in DOMAIN files /\ t \in Nat \ {0} /\ offs \in Nat
  BY <1>1, RamfsCall
<1>3. /\ data \in Seq(Ramfs!Page) /\ Len(data) \in Nat /\ DOMAIN data = 1..Len(data)
      /\ \A k \in DOMAIN data : /\ data[k].offs \in Nat
                                /\ data[k].offs % PAGE_SIZE = 0
                                /\ k > 1 => data[k - 1].offs < data[k].offs
  BY <1>2, RamfsFiles DEF Ramfs!PagesOf
<1>4. PAGE_SIZE \in Nat \ {0}
  BY DEF Ramfs!Assumption
<1>5. Ramfs!NothingLost'
  <2>1. /\ DOMAIN files' = DOMAIN files
        /\ \A f \in DOMAIN files : DOMAIN files'[f].data = DOMAIN files[f].data
    BY <1>1, <1>2, StorePlaces DEF Ramfs!PagesOf
  <2>2. \A f \in DOMAIN files : {f} \X DOMAIN files'[f].data
                                  = {f} \X DOMAIN files[f].data
    BY <2>1
  <2>3. Ramfs!Places' = Ramfs!Places
    BY <2>1, <2>2 DEF Ramfs!Places
  <2> QED BY <1>1, <2>3 DEF Ramfs!IInv, Ramfs!WellFormed, Ramfs!NothingLost
<1>6. t \in DOMAIN data /\ data[t].offs <= offs /\ offs < data[t].offs + PAGE_SIZE
  <2>1. t \in DOMAIN data
    BY <1>1, <1>2, <1>3
  <2>2. data[t].offs \in Nat /\ ~(data[t].offs + PAGE_SIZE <= offs)
    BY <1>1, <1>3, <2>1 DEF Ramfs!Behind
  <2> QED BY <1>1, <1>2, <1>4, <2>1, <2>2
<1>7. \A k \in 1..t - 1 : Ramfs!Behind(data[k], offs)
  BY <1>1 DEF Ramfs!PagesOf, Ramfs!IInv, Ramfs!WriterOK, Ramfs!Doing, Ramfs!Passed
<1>8. \A k \in DOMAIN data : \E j \in DOMAIN data : data[j] = data[k]
  OBVIOUS
<1> HIDE DEF data
<1>9. \A k \in DOMAIN Ramfs!PagesOf(p) :
        \E j \in DOMAIN data : data[j] = Ramfs!PagesOf(p)[k]
  BY <1>8 DEF data
<1> QED BY <1>1, <1>3, <1>5, <1>6, <1>7, <1>9, StoreKeeps

\* A turn of __ramfs_writeat that makes its page.
LEMMA WriteInsertKeeps ==
  ASSUME Ramfs!Assumption, Ramfs!IInv, NEW p \in Proc, Ramfs!WriteInsert(p)
  PROVE  Ramfs!IInv'
<1>1. PICK g, t, offs : g = access[p].file /\ t = access[p].turn /\ offs = access[p].offs
  OBVIOUS
<1>2. PICK old : old = Ramfs!PagesOf(p)
  OBVIOUS
<1> DEFINE page == Ramfs!NewPage(offs)
           data == Ramfs!InsertAt(old, t, page)
<1>3. /\ Ramfs!Writing(p) /\ Ramfs!Store(p, data)
      /\ objects' = [rp |-> objects.rp + 1, page |-> objects.page + 1]
      /\ t <= Len(old) => old[t].offs > offs
      /\ access[p].at = "in" /\ access[p].op = "write" /\ offs # access[p].to
  BY <1>1, <1>2 DEF Ramfs!WriteInsert, Ramfs!Missing, Ramfs!Writing, Ramfs!Doing
<1>4. /\ g \in DOMAIN files /\ t \in Nat \ {0} /\ offs \in Nat
      /\ access[p].to \in 0..LIMIT
  BY <1>1, <1>3, RamfsCall
<1>5. PAGE_SIZE \in Nat \ {0} /\ LIMIT \in Nat
  BY DEF Ramfs!Assumption
<1>6. /\ old = files[g].data /\ old \in Seq(Ramfs!Page) /\ Len(old) \in Nat
      /\ DOMAIN old = 1..Len(old)
      /\ \A k \in DOMAIN old : /\ old[k].offs \in Nat
                               /\ old[k].offs % PAGE_SIZE = 0
                               /\ k > 1 => old[k - 1].offs < old[k].offs
  BY <1>1, <1>2, <1>4, RamfsFiles DEF Ramfs!PagesOf
<1>7. /\ t <= Len(old) + 1 /\ offs < access[p].to
      /\ \A k \in 1..t - 1 : Ramfs!Behind(old[k], offs)
  <2>1. Ramfs!Passed(access[p], old)
    BY <1>1, <1>3, <1>6 DEF Ramfs!IInv, Ramfs!WriterOK, Ramfs!Doing
  <2>2. offs <= access[p].to
    BY <1>1, <1>4, <2>1 DEF Ramfs!Passed
  <2> QED BY <1>1, <1>3, <1>4, <2>1, <2>2 DEF Ramfs!Passed
<1>8. /\ page \in Ramfs!Page /\ page.offs % PAGE_SIZE = 0 /\ page.offs \in Nat
      /\ page.offs <= offs /\ offs < page.offs + PAGE_SIZE
  <2>1. /\ page.offs = offs - (offs % PAGE_SIZE)
        /\ page = [offs |-> offs - (offs % PAGE_SIZE),
                   byte |-> [i \in 0..PAGE_SIZE - 1 |-> Ramfs!Stale]]
    BY DEF Ramfs!NewPage
  <2>2. /\ page.offs \in 0..offs /\ offs < page.offs + PAGE_SIZE
        /\ page.offs % PAGE_SIZE = 0
    BY <1>4, <2>1, PageBegins
  <2>3. page.offs \in Ramfs!Offset
    <3> HIDE DEF page
    <3> QED BY <1>4, <1>5, <1>7, <2>2 DEF Ramfs!Offset
  <2>4. Ramfs!Stale \in Seq(Nat)
    BY DEF Ramfs!Stale
  <2>5. page \in Ramfs!Page
    BY <2>1, <2>3, <2>4 DEF Ramfs!Page
  <2> HIDE DEF page
  <2> QED BY <1>4, <2>2, <2>5
<1> HIDE DEF page
<1>9. /\ data \in Seq(Ramfs!Page) /\ Len(data) = Len(old) + 1 /\ data[t] = page
      /\ \A k \in 1..t - 1 : data[k] = old[k]
      /\ \A k \in t..Len(old) : data[k + 1] = old[k]
  <2>1. t \in 1..Len(old) + 1
    BY <1>4, <1>6, <1>7
  <2> QED BY <1>6, <1>8, <2>1, Inserted
<1> HIDE DEF data
<1>10. DOMAIN data = 1..Len(old) + 1 /\ t \in DOMAIN data
  BY <1>4, <1>6, <1>7, <1>9
<1>11. \A k \in 1..t - 1 : k \in DOMAIN old /\ old[k].offs + PAGE_SIZE <= offs
  BY <1>4, <1>6, <1>7 DEF Ramfs!Behind
<1>12. ASSUME NEW k \in DOMAIN data
       PROVE  /\ data[k].offs % PAGE_SIZE = 0
              /\ k > 1 => data[k - 1].offs < data[k].offs
  <2>1. k \in Nat /\ 1 <= k /\ k <= Len(old) + 1
    BY <1>6, <1>10
  <2>2. CASE k < t
    <3>1. k \in 1..t - 1 /\ k \in DOMAIN old
      BY <1>4, <1>11, <2>1, <2>2
    <3>2. k > 1 => k - 1 \in 1..t - 1
      BY <1>4, <2>1, <2>2
    <3> QED BY <1>6, <1>9, <3>1, <3>2
  <2>3. CASE k = t
    <3>1. ASSUME k > 1 PROVE data[k - 1].offs < data[k].offs
      <4>1. /\ k - 1 \in 1..t - 1 /\ data[k - 1] = old[k - 1]
            /\ old[k - 1].offs + PAGE_SIZE <= offs /\ old[k - 1].offs \in Nat
        <5>1. k - 1 \in 1..t - 1
          BY <1>4, <2>1, <2>3, <3>1
        <5> QED BY <1>6, <1>9, <1>11, <5>1
      <4>2. old[k - 1].offs < page.offs
        BY <1>4, <1>5, <1>8, <4>1
      <4> QED BY <1>9, <2>3, <4>1, <4>2
    <3> QED BY <1>8, <1>9, <2>3, <3>1
  <2>4. CASE k = t + 1
    <3>1. t \in DOMAIN old /\ t \in t..Len(old) /\ t <= Len(old) /\ k - 1 = t
      BY <1>4, <1>6, <2>1, <2>4
    <3>2. data[k] = old[t] /\ data[k - 1] = page /\ old[t].offs \in Nat
      BY <1>6, <1>9, <2>4, <3>1
    <3>3. page.offs < old[t].offs
      BY <1>3, <1>4, <1>8, <3>1, <3>2
    <3> QED BY <1>6, <3>1, <3>2, <3>3
  <2>5. CASE k > t + 1
    <3>1. /\ k - 1 \in t..Len(old) /\ k - 2 \in t..Len(old) /\ k - 1 > 1
          /\ (k - 1) + 1 = k /\ (k - 2) + 1 = k - 1 /\ k - 1 - 1 = k - 2
          /\ k - 1 \in DOMAIN old
      BY <1>4, <1>6, <2>1, <2>5
    <3>2. data[k] = old[k - 1] /\ data[k - 1] = old[k - 2]
      <4>1. data[(k - 1) + 1] = old[k - 1] /\ data[(k - 2) + 1] = old[k - 2]
        BY <1>9, <3>1
      <4> QED BY <3>1, <4>1
    <3>3. old[(k - 1) - 1].offs < old[k - 1].offs /\ old[k - 1].offs % PAGE_SIZE = 0
      BY <1>6, <3>1
    <3> QED BY <3>1, <3>2, <3>3
  <2> QED BY <1>4, <2>1, <2>2, <2>3, <2>4, <2>5
<1>13. ASSUME NEW k \in DOMAIN Ramfs!PagesOf(p)
       PROVE  \E j \in DOMAIN data : data[j] = Ramfs!PagesOf(p)[k]
  <2>1. k \in Nat /\ 1 <= k /\ k <= Len(old) /\ Ramfs!PagesOf(p)[k] = old[k]
    BY <1>2, <1>6
  <2>2. CASE k < t
    <3>1. k \in 1..t - 1 /\ k \in DOMAIN data
      BY <1>4, <1>6, <1>10, <2>1, <2>2
    <3> QED BY <1>9, <2>1, <3>1
  <2>3. CASE ~(k < t)
    <3>1. k \in t..Len(old) /\ k + 1 \in DOMAIN data
      BY <1>4, <1>6, <1>10, <2>1, <2>3
    <3> QED BY <1>9, <2>1, <3>1
  <2> QED BY <2>2, <2>3
<1>14. Ramfs!NothingLost'
  <2>1. /\ DOMAIN files' = DOMAIN files /\ DOMAIN files'[g].data = DOMAIN data
        /\ \A f \in DOMAIN files \ {g} : files'[f] = files[f]
    BY <1>1, <1>3, StorePlaces
  <2> DEFINE e == <<g, Len(old) + 1>>
  <2>2. {g} \X DOMAIN data = ({g} \X DOMAIN old) \cup {e} /\ e \notin {g} \X DOMAIN old
    <3>1. DOMAIN data = DOMAIN old \cup {Len(old) + 1} /\ Len(old) + 1 \notin DOMAIN old
      BY <1>6, <1>10
    <3> QED BY <3>1
  <2>3. \A f \in DOMAIN files \ {g} :
          /\ {f} \X DOMAIN files'[f].data = {f} \X DOMAIN files[f].data
          /\ e \notin {f} \X DOMAIN files[f].data
    BY <2>1
  <2>4. \A x : x \in Ramfs!Places
                 <=> \E f \in DOMAIN files : x \in {f} \X DOMAIN files[f].data
    BY DEF Ramfs!Places
  <2>5. \A x : x \in Ramfs!Places'
                 <=> \E f \in DOMAIN files : x \in {f} \X DOMAIN files'[f].data
    BY <2>1 DEF Ramfs!Places
  <2> HIDE DEF e
  <2>6. Ramfs!Places' = Ramfs!Places \cup {e} /\ e \notin Ramfs!Places
    <3>1. e \notin Ramfs!Places
      BY <1>6, <2>2, <2>3, <2>4
    <3>2. \A x : x \in Ramfs!Places' <=> x \in Ramfs!Places \/ x = e
      BY <1>4, <1>6, <2>1, <2>2, <2>3, <2>4, <2>5
    <3> QED BY <3>1, <3>2
  <2>7. Cardinality(Ramfs!Places') = Cardinality(Ramfs!Places) + 1
    <3>1. IsFiniteSet(Ramfs!Places)
      BY PlacesFinite
    <3> QED BY <2>6, <3>1, FS_AddElement
  <2>8. /\ Ramfs!Cardinality(Ramfs!Places') = Cardinality(Ramfs!Places')
        /\ Ramfs!Cardinality(Ramfs!Places) = Cardinality(Ramfs!Places)
    BY DEF Ramfs!Cardinality, Cardinality
  <2>9. objects = [rp |-> Ramfs!Cardinality(Ramfs!Places),
                   page |-> Ramfs!Cardinality(Ramfs!Places)]
    BY DEF Ramfs!IInv, Ramfs!WellFormed, Ramfs!NothingLost
  <2>10. objects' = [rp |-> Ramfs!Cardinality(Ramfs!Places'),
                     page |-> Ramfs!Cardinality(Ramfs!Places')]
    BY <1>3, <2>7, <2>8, <2>9
  <2> QED BY <2>10 DEF Ramfs!NothingLost
<1>15. \A k \in 1..t - 1 : Ramfs!Behind(data[k], offs)
  BY <1>7, <1>9
<1>16. data[t].offs <= offs /\ offs < data[t].offs + PAGE_SIZE
  BY <1>8, <1>9
<1> QED BY <1>1, <1>3, <1>9, <1>10, <1>12, <1>13, <1>14, <1>15, <1>16, StoreKeeps

\* Nothing is open, and no file is made.
LEMMA RamfsInit ==
  ASSUME Ramfs!Assumption, Ramfs!Init
  PROVE  Ramfs!IInv
<1>1. /\ files = <<>> /\ image = <<>> /\ DOMAIN files = {} /\ Len(files) = 0
      /\ Len(image) = 0 /\ writes = 0 /\ objects = [rp |-> 0, page |-> 0]
      /\ access = [p \in Proc |-> access[p]] /\ WRITES \in Nat
      /\ \A p \in Proc : access[p].at = "done"
  BY DEF Ramfs!Init, Ramfs!Assumption
<1>2. Ramfs!TypeOK
  BY <1>1 DEF Ramfs!TypeOK
<1>3. Ramfs!WellFormed
  <2>1. Ramfs!Places = {}
    BY <1>1 DEF Ramfs!Places
  <2>2. Ramfs!Cardinality({}) = Cardinality({}) /\ Cardinality({}) = 0
    BY FS_EmptySet DEF Ramfs!Cardinality, Cardinality
  <2>3. Ramfs!NothingLost
    BY <1>1, <2>1, <2>2 DEF Ramfs!NothingLost
  <2> QED BY <1>1, <2>3 DEF Ramfs!WellFormed, Ramfs!PagesOK, Ramfs!MutexOK
<1>4. /\ Ramfs!CallsOK /\ Ramfs!ReaderOK /\ Ramfs!WriterOK /\ Ramfs!SizeOK
      /\ Ramfs!BytesOK
  BY <1>1 DEF Ramfs!CallsOK, Ramfs!ReaderOK, Ramfs!WriterOK, Ramfs!SizeOK,
              Ramfs!BytesOK, Ramfs!Doing
<1> QED BY <1>2, <1>3, <1>4 DEF Ramfs!IInv

\* A step of nobody.
LEMMA RamfsRests ==
  ASSUME Ramfs!IInv, UNCHANGED Ramfs!vars
  PROVE  Ramfs!IInv'
<1>1. UNCHANGED <<files, mtx, access, objects, writes, image>>
  BY DEF Ramfs!vars
<1>2. Ramfs!TypeOK'
  BY <1>1 DEF Ramfs!IInv, Ramfs!TypeOK
<1>3. Ramfs!WellFormed'
  BY <1>1 DEF Ramfs!IInv, Ramfs!WellFormed, Ramfs!PagesOK, Ramfs!MutexOK,
              Ramfs!NothingLost, Ramfs!Places
<1>4. Ramfs!CallsOK'
  BY <1>1 DEF Ramfs!IInv, Ramfs!CallsOK, Ramfs!Asked, Ramfs!Called
<1>5. \A p \in Proc : \A op : Ramfs!Doing(p, op)' <=> Ramfs!Doing(p, op)
  BY <1>1 DEF Ramfs!Doing
<1>6. Ramfs!ReaderOK' /\ Ramfs!WriterOK'
  BY <1>1, <1>5 DEF Ramfs!IInv, Ramfs!ReaderOK, Ramfs!WriterOK, Ramfs!Copied,
                    Ramfs!Passed, Ramfs!Holds, Ramfs!Behind
<1>7. /\ \A p \in Proc : \A f : Ramfs!WriterOf(p, f)' <=> Ramfs!WriterOf(p, f)
      /\ \A p \in Proc : \A o : Ramfs!Stored(p, o)' <=> Ramfs!Stored(p, o)
      /\ \A f, o, v : Ramfs!Kept(f, o, v)' <=> Ramfs!Kept(f, o, v)
  BY <1>1, <1>5 DEF Ramfs!WriterOf, Ramfs!Stored, Ramfs!Kept, Ramfs!Holds
<1>8. Ramfs!SizeOK' /\ Ramfs!BytesOK'
  BY <1>1, <1>7 DEF Ramfs!IInv, Ramfs!SizeOK, Ramfs!BytesOK
<1> QED BY <1>2, <1>3, <1>4, <1>6, <1>8 DEF Ramfs!IInv

\* Every step keeps the invariant.
LEMMA RamfsNext ==
  ASSUME Ramfs!Assumption, Ramfs!IInv, [Ramfs!Next]_(Ramfs!vars)
  PROVE  Ramfs!IInv'
<1>1. CASE UNCHANGED Ramfs!vars
  BY <1>1, RamfsRests
<1>2. ASSUME NEW p \in Proc, Ramfs!Step(p) PROVE Ramfs!IInv'
  <2>1. CASE Ramfs!Begin(p) \/ Ramfs!BeginWrite(p)
    BY <2>1, BeginKeeps
  <2>2. CASE Ramfs!Lock(p)
    BY <2>2, LockKeeps
  <2>3. CASE Ramfs!Found(p) \/ Ramfs!NotFound(p) \/ Ramfs!AddFaults(p)
    BY <2>3, FindKeeps
  <2>4. CASE Ramfs!Add(p)
    BY <2>4, AddKeeps
  <2>5. CASE Ramfs!ReadTurn(p)
    BY <2>5, ReadTurnKeeps
  <2>6. CASE Ramfs!ReadEnd(p)
    BY <2>6, ReadEndKeeps
  <2>7. CASE Ramfs!Grow(p)
    BY <2>7, GrowKeeps
  <2>8. CASE Ramfs!WriteSkip(p)
    BY <2>8, WriteSkipKeeps
  <2>9. CASE Ramfs!WriteCopy(p)
    BY <2>9, WriteCopyKeeps
  <2>10. CASE Ramfs!WriteInsert(p)
    BY <2>10, WriteInsertKeeps
  <2>11. CASE Ramfs!WriteFails(p) \/ Ramfs!WriteEnd(p)
    BY <2>11, WriteReturns
  <2> QED BY <1>2, <2>1, <2>2, <2>3, <2>4, <2>5, <2>6, <2>7, <2>8, <2>9, <2>10, <2>11
          DEF Ramfs!Step
<1> QED BY <1>1, <1>2 DEF Ramfs!Next

\* The file system is always as its calls expect it.
LEMMA RamfsAlways ==
  ASSUME Ramfs!Assumption
  PROVE  Ramfs!Spec => []Ramfs!IInv
<1>1. Ramfs!Init => Ramfs!IInv
  BY RamfsInit
<1>2. Ramfs!IInv /\ [Ramfs!Next]_(Ramfs!vars) => Ramfs!IInv'
  BY RamfsNext
<1> QED BY <1>1, <1>2, PTL DEF Ramfs!Spec

\* What a caller sees of the calls.
Results == [p \in Proc |-> IF access[p].at = "done" THEN access[p].result ELSE <<>>]

\* It changes where a call begins and where one returns.
LEMMA ResultsChange ==
  ASSUME Ramfs!IInv, NEW p \in Proc, NEW new, access' = [access EXCEPT ![p] = new]
  PROVE  Results' = [Results EXCEPT ![p] = IF new.at = "done" THEN new.result ELSE <<>>]
<1>1. access = [q \in Proc |-> access[q]]
  BY DEF Ramfs!IInv, Ramfs!TypeOK
<1>2. access'[p] = new /\ \A q \in Proc \ {p} : access'[q] = access[q]
  BY <1>1
<1> DEFINE value == IF new.at = "done" THEN new.result ELSE <<>>
<1>3. ASSUME NEW q \in Proc
      PROVE  Results'[q] = [Results EXCEPT ![p] = value][q]
  <2>1. Results'[q] = IF access'[q].at = "done" THEN access'[q].result ELSE <<>>
    BY DEF Results
  <2>2. Results[q] = IF access[q].at = "done" THEN access[q].result ELSE <<>>
    BY DEF Results
  <2>3. DOMAIN Results = Proc
    BY DEF Results
  <2>4. CASE q = p
    <3>1. Results'[p] = value
      BY <1>2, <2>1, <2>4
    <3> QED BY <2>3, <2>4, <3>1
  <2>5. CASE q # p
    <3>1. Results'[q] = Results[q]
      BY <1>2, <2>1, <2>2, <2>5
    <3> QED BY <2>3, <2>5, <3>1
  <2> QED BY <2>4, <2>5
<1> HIDE DEF value
<1>4. Results = [q \in Proc |-> Results[q]]
  BY DEF Results
<1>5. Results' = [q \in Proc |-> Results'[q]]
  BY DEF Results
<1>6. [Results EXCEPT ![p] = value] = [q \in Proc |-> [Results EXCEPT ![p] = value][q]]
  BY <1>4
<1>7. Results' = [Results EXCEPT ![p] = value]
  BY <1>3, <1>5, <1>6
<1> QED BY <1>7 DEF value

\* A call returns.
LEMMA ReturnImplements ==
  ASSUME Ramfs!IInv, NEW p \in Proc, NEW value, access[p].at = "in",
         Ramfs!Return(p, value)
  PROVE  /\ Ramfs!Abstract!Return(p, value)
         /\ Results'[p] = value /\ Results[p] = <<>>
         /\ \A q \in Proc \ {p} : Results'[q] = Results[q]
<1> DEFINE new == [at |-> "done", result |-> value]
<1>1. access' = [access EXCEPT ![p] = new] /\ new.at = "done" /\ new.result = value
  BY DEF Ramfs!Return, Ramfs!Goto
<1> HIDE DEF new
<1>2. Results' = [Results EXCEPT ![p] = value]
  BY <1>1, ResultsChange
<1>3. Results[p] = <<>> /\ DOMAIN Results = Proc
  BY DEF Results
<1>4. Ramfs!Abstract!Return(p, value)
  <2>1. Ramfs!Abstract!Return(p, value)
          <=> Results[p] = <<>> /\ Results' = [Results EXCEPT ![p] = value]
    BY DEF Ramfs!Abstract!Return, Ramfs!Abstract!Pending, Results
  <2> QED BY <1>2, <1>3, <2>1
<1> QED BY <1>2, <1>3, <1>4

\* The search for a name, and the making of a file, open it.
LEMMA OpenImplements ==
  ASSUME Ramfs!Assumption, Ramfs!IInv, NEW p \in Proc,
         \/ Ramfs!Found(p) \/ Ramfs!Add(p)
         \/ Ramfs!NotFound(p) /\ ~access[p].create
  PROVE  Ramfs!Abstract!Next
<1> DEFINE n == access[p].name
<1>1. access[p].at = "in" /\ access[p].op \in {"find", "add"}
  BY DEF Ramfs!Found, Ramfs!NotFound, Ramfs!Add, Ramfs!Doing
<1>2. n \in Name /\ Ramfs!Asked(access[p])
  BY <1>1, RamfsCall DEF Ramfs!FindCall
<1>3. Ramfs!Abstract!Named(n) = Ramfs!Called(n)
  BY RamfsFiles DEF Ramfs!Abstract!Named, Ramfs!Called
<1>4. Ramfs!Abstract!Open(p, n)
  <2>1. CASE Ramfs!Found(p)
    <3>1. PICK f \in Ramfs!Called(n) : Ramfs!Return(p, <<f>>) /\ image' = image
      BY <2>1 DEF Ramfs!Found
    <3>2. Ramfs!Abstract!Return(p, <<f>>)
      BY <1>1, <3>1, ReturnImplements
    <3> QED BY <1>3, <3>1, <3>2 DEF Ramfs!Abstract!Open
  <2>2. CASE Ramfs!NotFound(p) /\ ~access[p].create
    <3>1. Ramfs!Called(n) = {} /\ Ramfs!Return(p, <<-1>>) /\ image' = image
      BY <2>2 DEF Ramfs!NotFound
    <3>2. Ramfs!Abstract!Return(p, <<-1>>)
      BY <1>1, <3>1, ReturnImplements
    <3> QED BY <1>3, <3>1, <3>2 DEF Ramfs!Abstract!Open
  <2>3. CASE Ramfs!Add(p)
    <3>1. /\ Ramfs!Called(n) = {} /\ Len(files) = Len(image)
          /\ Ramfs!Return(p, <<Len(files) + 1>>)
          /\ image' = Append(image, [name |-> n, size |-> 0,
                                     byte |-> [o \in Ramfs!Offset |-> Ramfs!Nothing]])
      BY <1>2, <2>3, RamfsFiles DEF Ramfs!Add, Ramfs!Asked, Ramfs!Doing
    <3>2. Ramfs!Abstract!Return(p, <<Len(image) + 1>>)
      <4>1. PICK value : value = <<Len(image) + 1>>
        OBVIOUS
      <4>2. Ramfs!Return(p, value)
        BY <3>1, <4>1
      <4>3. Ramfs!Abstract!Return(p, value)
        BY <1>1, <4>2, ReturnImplements
      <4> QED BY <4>1, <4>3 DEF Ramfs!Abstract!Return
    <3>3. /\ Ramfs!Abstract!Offset = Ramfs!Offset
          /\ Ramfs!Abstract!Nothing = Ramfs!Nothing
      BY DEF Ramfs!Abstract!Offset, Ramfs!Offset, Ramfs!Abstract!Nothing, Ramfs!Nothing
    <3> QED BY <1>3, <3>1, <3>2, <3>3 DEF Ramfs!Abstract!Open
  <2> QED BY <2>1, <2>2, <2>3
<1> QED BY <1>2, <1>4 DEF Ramfs!Abstract!Next

\* A write takes effect where it returns.
LEMMA WriteImplements ==
  ASSUME Ramfs!Assumption, Ramfs!IInv, NEW p \in Proc,
         Ramfs!WriteFails(p) \/ Ramfs!WriteEnd(p)
  PROVE  Ramfs!Abstract!Next
<1>1. PICK g, from, to, offs, tag :
        /\ g = access[p].file /\ from = access[p].from /\ to = access[p].to
        /\ offs = access[p].offs /\ tag = access[p].tag
  OBVIOUS
<1>2. access[p].at = "in" /\ access[p].op = "write"
  BY DEF Ramfs!WriteFails, Ramfs!WriteEnd, Ramfs!Missing, Ramfs!Writing, Ramfs!Doing
<1>3. /\ g \in DOMAIN files /\ from \in Nat /\ to \in 0..LIMIT /\ offs \in Nat
      /\ tag \in 1..WRITES /\ from <= to
  BY <1>1, <1>2, RamfsCall
<1>4. LIMIT \in Nat
  BY DEF Ramfs!Assumption
<1>5. offs \in from..to
  BY <1>1, <1>2 DEF Ramfs!IInv, Ramfs!WriterOK, Ramfs!Doing, Ramfs!Passed
<1>6. PICK count : count = offs - from
  OBVIOUS
<1>7. count \in 0..to - from /\ from + count - 1 = offs - 1 /\ from \in 0..LIMIT
  BY <1>3, <1>4, <1>5, <1>6
<1>8. Ramfs!Finish(p, IF count = 0 /\ from < to THEN -1 ELSE count)
  <2>1. CASE Ramfs!WriteFails(p)
    <3>1. /\ Ramfs!Finish(p, IF offs = from THEN -1 ELSE offs - from)
          /\ offs # to
      BY <1>1, <2>1 DEF Ramfs!WriteFails, Ramfs!Missing, Ramfs!Writing
    <3>2. from < to /\ (offs = from <=> count = 0)
      BY <1>3, <1>5, <1>6, <3>1
    <3> QED BY <1>6, <3>1, <3>2
  <2>2. CASE Ramfs!WriteEnd(p)
    <3>1. Ramfs!Finish(p, offs - from) /\ offs = to
      BY <1>1, <2>2 DEF Ramfs!WriteEnd
    <3>2. ~(count = 0 /\ from < to)
      BY <1>3, <1>6, <3>1
    <3> QED BY <1>6, <3>1, <3>2
  <2> QED BY <2>1, <2>2
<1>9. Ramfs!Abstract!Write(p, g, from, to, tag, count)
  <2>1. Ramfs!Abstract!Return(p, <<IF count = 0 /\ from < to THEN -1 ELSE count>>)
    BY <1>2, <1>8, ReturnImplements DEF Ramfs!Finish
  <2>2. image' = [image EXCEPT
          ![g].size = Ramfs!Larger(@, to),
          ![g].byte = [o \in Ramfs!Offset |-> IF o \in from..offs - 1
                                              THEN <<tag, o - from>> ELSE @[o]]]
    BY <1>1, <1>8 DEF Ramfs!Finish
  <2>3. Ramfs!Abstract!Offset = Ramfs!Offset
    BY DEF Ramfs!Abstract!Offset, Ramfs!Offset
  <2>4. image[g].size \in Nat
    BY <1>3, RamfsFiles
  <2>5. Ramfs!Larger(image[g].size, to)
          = IF to > image[g].size THEN to ELSE image[g].size
    BY <1>3, <1>4, <2>4 DEF Ramfs!Larger
  <2>6. from..from + count - 1 = from..offs - 1
    BY <1>7
  <2>7. image' = [image EXCEPT
          ![g].size = IF to > @ THEN to ELSE @,
          ![g].byte = [o \in Ramfs!Abstract!Offset |->
                         IF o \in from..from + count - 1
                         THEN <<tag, o - from>> ELSE @[o]]]
    BY <2>2, <2>3, <2>5, <2>6
  <2> QED BY <2>1, <2>7 DEF Ramfs!Abstract!Write
<1>10. g \in DOMAIN image
  BY <1>3, RamfsFiles
<1> QED BY <1>3, <1>7, <1>9, <1>10 DEF Ramfs!Abstract!Next

\* A read takes effect where it returns.
LEMMA ReadImplements ==
  ASSUME Ramfs!Assumption, Ramfs!IInv, NEW p \in Proc, Ramfs!ReadEnd(p)
  PROVE  Ramfs!Abstract!Next
<1>1. PICK g, from, to, turn, buf, data, size :
        /\ g = access[p].file /\ from = access[p].from /\ to = access[p].to
        /\ turn = access[p].turn /\ buf = access[p].buf
        /\ data = files[g].data /\ size = files[g].size
  OBVIOUS
<1>2. PICK ret : ret = Ramfs!Count(size, from, to)
  OBVIOUS
<1>3. /\ access[p].at = "in" /\ access[p].op = "read" /\ image' = image
      /\ from < size /\ turn <= Len(data) => data[turn].offs >= to
      /\ Ramfs!Return(p, <<ret, buf>>)
  BY <1>1, <1>2 DEF Ramfs!ReadEnd, Ramfs!Doing
<1>4. /\ g \in DOMAIN files /\ from \in Nat /\ to \in 0..LIMIT /\ from <= to
      /\ turn \in Nat \ {0}
  BY <1>1, <1>3, RamfsCall
<1>5. LIMIT \in Nat /\ PAGE_SIZE \in Nat \ {0}
  BY DEF Ramfs!Assumption
<1>6. /\ g \in DOMAIN image /\ size \in 0..LIMIT /\ data \in Seq(Ramfs!Page)
      /\ Len(data) \in Nat /\ DOMAIN data = 1..Len(data)
      /\ \A k \in DOMAIN data : /\ data[k].offs \in Nat
                                /\ data[k].offs % PAGE_SIZE = 0
                                /\ k > 1 => data[k - 1].offs < data[k].offs
  BY <1>1, <1>4, RamfsFiles
<1>7. \A q \in Proc : \A f : ~Ramfs!WriterOf(q, f)
  BY <1>3, RamfsAlone DEF Ramfs!WriterOf, Ramfs!Doing
<1>8. image[g].size = size
  BY <1>1, <1>4, <1>7 DEF Ramfs!IInv, Ramfs!SizeOK
<1>9. /\ ret = IF from >= size THEN 0 ELSE (IF to < size THEN to ELSE size) - from
      /\ \A o \in from..from + ret - 1 : o \in from..to - 1 /\ o < size /\ from < size
  <2>1. ret = IF from >= size THEN 0 ELSE (IF to < size THEN to ELSE size) - from
    BY <1>2, <1>4, <1>5, <1>6 DEF Ramfs!Count
  <2> QED BY <1>4, <1>5, <1>6, <2>1
<1>10. ASSUME NEW o \in from..from + ret - 1, image[g].byte[o] # Ramfs!Nothing
       PROVE  buf[o - from] = image[g].byte[o]
  <2>1. o \in from..to - 1 /\ o \in Ramfs!Offset /\ from < size /\ o \in Int
    BY <1>4, <1>5, <1>6, <1>9 DEF Ramfs!Offset
  <2>2. PICK k \in DOMAIN data :
          Ramfs!Holds(data[k], o) /\ data[k].byte[o - data[k].offs] = image[g].byte[o]
    BY <1>1, <1>4, <1>7, <1>10, <2>1
       DEF Ramfs!IInv, Ramfs!BytesOK, Ramfs!Kept
  <2>3. k < turn
    <3> SUFFICES ASSUME ~(k < turn) PROVE FALSE
      OBVIOUS
    <3>1. turn \in DOMAIN data /\ turn <= Len(data) /\ k \in Nat /\ turn <= k
      BY <1>4, <1>6
    <3>2. data[turn].offs >= to
      BY <1>3, <2>1, <3>1
    <3>3. data[turn].offs <= data[k].offs
      <4>1. CASE turn = k
        BY <1>6, <3>1, <4>1
      <4>2. CASE turn # k
        <5>1. turn \in 1..k - 1
          BY <1>4, <3>1, <4>2
        <5>2. data[turn].offs < data[k].offs
          BY <1>6, <5>1, PagesInOrder
        <5> QED BY <1>6, <3>1, <5>2
      <4> QED BY <4>1, <4>2
    <3>4. data[k].offs <= o
      BY <1>5, <1>6, <2>1, <2>2 DEF Ramfs!Holds
    <3>5. o < to /\ data[k].offs \in Nat /\ data[turn].offs \in Nat
      BY <1>4, <1>6, <2>1, <3>1
    <3> QED BY <1>4, <2>1, <3>2, <3>3, <3>4, <3>5
  <2>4. k \in 1..turn - 1
    BY <1>4, <1>6, <2>3
  <2>5. buf[o - from] = data[k].byte[o - data[k].offs]
    BY <1>1, <1>3, <2>1, <2>2, <2>4
       DEF Ramfs!IInv, Ramfs!ReaderOK, Ramfs!Copied, Ramfs!Doing
  <2> QED BY <2>2, <2>5
<1>11. Ramfs!Abstract!Read(p, g, from, to)
  <2>1. /\ Results'[p] = <<ret, buf>> /\ Results[p] = <<>>
        /\ \A q \in Proc \ {p} : Results'[q] = Results[q]
    BY <1>3, ReturnImplements
  <2>2. /\ Len(Results'[p]) = 2 /\ Results'[p][1] = ret /\ Results'[p][2] = buf
    BY <2>1
  <2>3. \A o \in from..from + ret - 1 :
          image[g].byte[o] # Ramfs!Abstract!Nothing
            => Results'[p][2][o - from] = image[g].byte[o]
    BY <1>10, <2>2 DEF Ramfs!Abstract!Nothing, Ramfs!Nothing
  <2> QED BY <1>3, <1>8, <1>9, <2>1, <2>2, <2>3
          DEF Ramfs!Abstract!Read, Ramfs!Abstract!Pending, Results
<1>12. from \in 0..LIMIT
  BY <1>4, <1>5
<1> QED BY <1>4, <1>6, <1>11, <1>12 DEF Ramfs!Abstract!Next

\* The other steps change nothing that a caller sees, but the beginning of a call.
LEMMA OthersImplement ==
  ASSUME Ramfs!Assumption, Ramfs!IInv, NEW p \in Proc,
         \/ Ramfs!Begin(p) \/ Ramfs!BeginWrite(p) \/ Ramfs!Lock(p)
         \/ Ramfs!NotFound(p) /\ access[p].create
         \/ Ramfs!AddFaults(p) \/ Ramfs!ReadTurn(p) \/ Ramfs!Grow(p)
         \/ Ramfs!WriteSkip(p) \/ Ramfs!WriteCopy(p) \/ Ramfs!WriteInsert(p)
  PROVE  image' = image /\ (Results' = Results \/ Ramfs!Abstract!Begin(p))
<1>1. CASE Ramfs!Begin(p) \/ Ramfs!BeginWrite(p)
  <2>1. PICK new : access' = [access EXCEPT ![p] = new] /\ new.at = "lock"
    <3>1. CASE Ramfs!Begin(p)
      <4>1. ASSUME NEW n \in Name, NEW create \in BOOLEAN,
                   Ramfs!Goto(p, [at |-> "lock", op |-> "find", name |-> n,
                                  create |-> create])
            PROVE  \E new : access' = [access EXCEPT ![p] = new] /\ new.at = "lock"
        <5> DEFINE new == [at |-> "lock", op |-> "find", name |-> n, create |-> create]
        <5>1. access' = [access EXCEPT ![p] = new] /\ new.at = "lock"
          BY <4>1 DEF Ramfs!Goto
        <5> HIDE DEF new
        <5> QED BY <5>1
      <4>2. ASSUME NEW f \in DOMAIN files, NEW r \in ToRead,
                   Ramfs!Goto(p, [at |-> "lock", op |-> "read", file |-> f,
                                  from |-> r[1], to |-> r[2], turn |-> 1,
                                  buf |-> [i \in 0..r[2] - r[1] - 1 |-> Ramfs!Zero]])
            PROVE  \E new : access' = [access EXCEPT ![p] = new] /\ new.at = "lock"
        <5> DEFINE new == [at |-> "lock", op |-> "read", file |-> f, from |-> r[1],
                           to |-> r[2], turn |-> 1,
                           buf |-> [i \in 0..r[2] - r[1] - 1 |-> Ramfs!Zero]]
        <5>1. access' = [access EXCEPT ![p] = new] /\ new.at = "lock"
          BY <4>2 DEF Ramfs!Goto
        <5> HIDE DEF new
        <5> QED BY <5>1
      <4> QED BY <3>1, <4>1, <4>2 DEF Ramfs!Begin
    <3>2. CASE Ramfs!BeginWrite(p)
      <4>1. PICK f \in DOMAIN files, r \in ToWrite :
              Ramfs!Goto(p, [at |-> "lock", op |-> "grow", file |-> f, from |-> r[1],
                             to |-> r[2], turn |-> 1, offs |-> r[1],
                             tag |-> writes + 1])
        BY <3>2 DEF Ramfs!BeginWrite
      <4> DEFINE new == [at |-> "lock", op |-> "grow", file |-> f, from |-> r[1],
                         to |-> r[2], turn |-> 1, offs |-> r[1], tag |-> writes + 1]
      <4>2. access' = [access EXCEPT ![p] = new] /\ new.at = "lock"
        BY <4>1 DEF Ramfs!Goto
      <4> HIDE DEF new
      <4> QED BY <4>2
    <3> QED BY <1>1, <3>1, <3>2
  <2>2. image' = image /\ Results' = [Results EXCEPT ![p] = <<>>]
    BY <1>1, <2>1, ResultsChange DEF Ramfs!Begin, Ramfs!BeginWrite
  <2> QED BY <2>2 DEF Ramfs!Abstract!Begin, Ramfs!Abstract!Pending, Results
<1>2. CASE \/ Ramfs!Lock(p)
           \/ Ramfs!NotFound(p) /\ access[p].create
           \/ Ramfs!AddFaults(p) \/ Ramfs!ReadTurn(p) \/ Ramfs!Grow(p)
           \/ Ramfs!WriteSkip(p) \/ Ramfs!WriteCopy(p) \/ Ramfs!WriteInsert(p)
  <2>1. access[p].at \in {"lock", "in"} /\ image' = image
    BY <1>2 DEF Ramfs!Lock, Ramfs!NotFound, Ramfs!AddFaults, Ramfs!ReadTurn, Ramfs!Grow,
                Ramfs!WriteSkip, Ramfs!WriteCopy, Ramfs!WriteInsert, Ramfs!Missing,
                Ramfs!Writing, Ramfs!Doing, Ramfs!Store
  <2>2. "at" \in DOMAIN access[p]
    <3>1. CASE access[p] \in Ramfs!FindCall
      BY <3>1 DEF Ramfs!FindCall
    <3>2. CASE access[p] \in Ramfs!WriteCall
      BY <3>2 DEF Ramfs!WriteCall
    <3>3. CASE \E n \in 0..LIMIT : access[p] \in Ramfs!ReadCall(n)
      BY <3>3 DEF Ramfs!ReadCall
    <3> QED BY <2>1, <3>1, <3>2, <3>3 DEF Ramfs!IInv, Ramfs!TypeOK
  <2>3. PICK new : access' = [access EXCEPT ![p] = new] /\ new.at \in {"lock", "in", "fault"}
    <3>1. CASE Ramfs!Lock(p)
      BY <2>2, <3>1 DEF Ramfs!Lock, Ramfs!Goto
    <3>2. CASE Ramfs!NotFound(p) /\ access[p].create
      BY <2>1, <2>2, <3>2 DEF Ramfs!NotFound, Ramfs!Goto
    <3>3. CASE Ramfs!AddFaults(p)
      <4> DEFINE new == [at |-> "fault"]
      <4>1. access' = [access EXCEPT ![p] = new]
        BY <3>3 DEF Ramfs!AddFaults, Ramfs!Goto
      <4>2. new.at \in {"lock", "in", "fault"}
        BY <2>1, <2>2
      <4> HIDE DEF new
      <4> QED BY <4>1, <4>2
    <3>4. CASE Ramfs!ReadTurn(p)
      <4>1. PICK buf : access' = [access EXCEPT ![p] =
                         [access[p] EXCEPT !.turn = access[p].turn + 1, !.buf = buf]]
        BY <3>4 DEF Ramfs!ReadTurn, Ramfs!Goto
      <4> DEFINE new == [access[p] EXCEPT !.turn = access[p].turn + 1, !.buf = buf]
      <4>2. access' = [access EXCEPT ![p] = new] /\ new.at \in {"lock", "in", "fault"}
        BY <2>1, <2>2, <4>1
      <4> HIDE DEF new
      <4> QED BY <4>2
    <3>5. CASE Ramfs!Grow(p)
      <4> DEFINE new == [access[p] EXCEPT !.op = "write"]
      <4>1. access' = [access EXCEPT ![p] = new]
        BY <3>5 DEF Ramfs!Grow, Ramfs!Goto
      <4>2. new.at \in {"lock", "in", "fault"}
        BY <2>1, <2>2
      <4> HIDE DEF new
      <4> QED BY <4>1, <4>2
    <3>6. CASE Ramfs!WriteSkip(p)
      <4> DEFINE new == [access[p] EXCEPT !.turn = access[p].turn + 1]
      <4>1. access' = [access EXCEPT ![p] = new]
        BY <3>6 DEF Ramfs!WriteSkip, Ramfs!Goto
      <4>2. new.at \in {"lock", "in", "fault"}
        BY <2>1, <2>2
      <4> HIDE DEF new
      <4> QED BY <4>1, <4>2
    <3>7. CASE Ramfs!WriteCopy(p) \/ Ramfs!WriteInsert(p)
      <4>1. PICK data : Ramfs!Store(p, data)
        BY <3>7 DEF Ramfs!WriteCopy, Ramfs!WriteInsert
      <4>2. PICK n : access' = [access EXCEPT ![p] =
                       [access[p] EXCEPT !.turn = access[p].turn + 1,
                                         !.offs = access[p].offs + n]]
        BY <4>1 DEF Ramfs!Store, Ramfs!Goto
      <4> DEFINE new == [access[p] EXCEPT !.turn = access[p].turn + 1,
                                          !.offs = access[p].offs + n]
      <4>3. access' = [access EXCEPT ![p] = new] /\ new.at \in {"lock", "in", "fault"}
        BY <2>1, <2>2, <4>2
      <4> HIDE DEF new
      <4> QED BY <4>3
    <3> QED BY <1>2, <3>1, <3>2, <3>3, <3>4, <3>5, <3>6, <3>7
  <2>4. Results[p] = <<>> /\ Results = [q \in Proc |-> Results[q]]
    BY <2>1 DEF Results
  <2>5. Results' = [Results EXCEPT ![p] = <<>>]
    BY <2>3, ResultsChange
  <2>6. Results' = Results
    BY <2>4, <2>5
  <2> QED BY <2>1, <2>6
<1> QED BY <1>1, <1>2

\* The other components leave it alone.
LEMMA RamfsBeside == AllSpec => Ramfs!Spec
<1>1. AllInit => Ramfs!Init
  BY DEF AllInit
<1>2. [AllNext]_allVars => [Ramfs!Next]_(Ramfs!vars)
  BY DEF AllNext, allVars, ramfsVars, Ramfs!vars
<1> QED BY <1>1, <1>2, PTL DEF AllSpec, Ramfs!Spec

\* The pages of files are in order and at their places, whoever works on them has
\* the mutex, and every object that was taken is in a list (ramfs.c).
THEOREM RamfsCorrect == AllSpec => []RamfsWellFormed
<1>1. Ramfs!Assumption
  BY InstanceAssumption
<1>2. Ramfs!IInv => RamfsWellFormed
  BY DEF RamfsWellFormed, Ramfs!IInv
<1> QED BY <1>1, <1>2, RamfsBeside, RamfsAlways, PTL

\* The calls of ramfs.c implement files whose calls take effect at one moment, the
\* one where they return: a read returns all that was written, and a write that
\* fails keeps what it returned.
THEOREM RamfsImplements == AllSpec => RamfsImplementsFiles
<1>1. Ramfs!Assumption
  BY InstanceAssumption
<1>2. Ramfs!Init => Ramfs!Abstract!Init
  BY DEF Ramfs!Init, Ramfs!Abstract!Init, Ramfs!Abstract!Pending
<1>3. ASSUME Ramfs!IInv, [Ramfs!Next]_(Ramfs!vars)
      PROVE  [Ramfs!Abstract!Next]_<<image, Results>>
  <2>1. CASE UNCHANGED Ramfs!vars
    BY <2>1 DEF Ramfs!vars, Results
  <2>2. ASSUME NEW p \in Proc, Ramfs!Step(p)
        PROVE  [Ramfs!Abstract!Next]_<<image, Results>>
    <3>1. CASE \/ Ramfs!Found(p) \/ Ramfs!Add(p)
               \/ (Ramfs!NotFound(p) /\ ~access[p].create)
      BY <1>1, <1>3, <3>1, OpenImplements
    <3>2. CASE Ramfs!WriteFails(p) \/ Ramfs!WriteEnd(p)
      BY <1>1, <1>3, <3>2, WriteImplements
    <3>3. CASE Ramfs!ReadEnd(p)
      BY <1>1, <1>3, <3>3, ReadImplements
    <3>4. CASE \/ Ramfs!Begin(p) \/ Ramfs!BeginWrite(p) \/ Ramfs!Lock(p)
               \/ (Ramfs!NotFound(p) /\ access[p].create)
               \/ Ramfs!AddFaults(p) \/ Ramfs!ReadTurn(p) \/ Ramfs!Grow(p)
               \/ Ramfs!WriteSkip(p) \/ Ramfs!WriteCopy(p) \/ Ramfs!WriteInsert(p)
      <4>1. image' = image /\ (Results' = Results \/ Ramfs!Abstract!Begin(p))
        BY <1>1, <1>3, <3>4, OthersImplement
      <4>2. Ramfs!Abstract!Begin(p) => Ramfs!Abstract!Next
        BY DEF Ramfs!Abstract!Next
      <4> QED BY <4>1, <4>2
    <3> QED BY <2>2, <3>1, <3>2, <3>3, <3>4 DEF Ramfs!Step
  <2> QED BY <1>3, <2>1, <2>2 DEF Ramfs!Next
<1>4. Ramfs!Spec => Ramfs!Abstract!Spec
  <2>1. Ramfs!IInv /\ [Ramfs!Next]_(Ramfs!vars)
          => [Ramfs!Abstract!Next]_<<image, Results>>
    BY <1>3
  <2> QED BY <1>1, <1>2, <2>1, RamfsAlways, PTL
          DEF Ramfs!Spec, Ramfs!Abstract!Spec, Results
<1> QED BY <1>4, RamfsBeside, PTL DEF RamfsImplementsFiles, Ramfs!ImplementsFiles

==============================================================================
