-------------------------- MODULE AddressSpaceProofs --------------------------
(***************************************************************************)
(* Proofs about PageTable, AddressSpace and Exec.  What the tables of an   *)
(* address space are is described by a function u: it gives every frame of *)
(* its tree a place, the level and the number of a table or the number of  *)
(* a page.  Tree says that the tables are as u says; Takes, Grown and      *)
(* Become what pt_unmap, pt_map and the calls of mm.c make of u; and IInv  *)
(* that the trees of the address spaces, with the free frames, are all     *)
(* frames.  ExecInv is IInv's counterpart while exec runs: there a failed  *)
(* mmap may leave tables that are a tree, but not that of the areas.       *)
(***************************************************************************)
EXTENDS Exec, SeqLemmas

-----------------------------------------------------------------------------
(* Loops, and the sizes of what the levels cover.                          *)

\* A loop that keeps I[k] after k turns ends in I[n].
LEMMA LoopKeeps ==
  ASSUME NEW turn, NEW s, NEW n \in Nat, NEW I,
         s \in I[0],
         \A k \in 0..n - 1 : \A t \in I[k] : turn[t] \in I[k + 1]
  PROVE  Loop(turn, s, n) \in I[n]
<1> DEFINE Is(a, k) == a = [j \in 0..k |-> IF j = 0 THEN s ELSE turn[a[j - 1]]]
           T == {k \in Nat : ~\E a : Is(a, k)}
<1>1. T = {}
  <2>1. SUFFICES ASSUME T # {} PROVE FALSE
    OBVIOUS
  <2>2. T \in SUBSET Nat
    OBVIOUS
  <2> HIDE DEF T
  <2>3. PICK k \in T : \A l \in T : k <= l
    BY <2>1, <2>2, Least
  <2> USE DEF T
  <2>4. CASE k = 0
    <3> DEFINE b == [j \in 0..k |-> s]
    <3>1. \A j \in 0..k : j = 0
      BY <2>4
    <3>2. \A j \in 0..k : b[j] = IF j = 0 THEN s ELSE turn[b[j - 1]]
      BY <3>1
    <3>3. b = [j \in 0..k |-> b[j]]
      OBVIOUS
    <3> HIDE DEF b
    <3>4. Is(b, k)
      BY <3>2, <3>3
    <3> QED BY <2>3, <3>4
  <2>5. CASE k # 0
    <3> HIDE DEF T
    <3>1. k \in Nat /\ k - 1 \in Nat /\ k - 1 \notin T
      BY <2>2, <2>3, <2>5
    <3> USE DEF T
    <3>2. PICK a : Is(a, k - 1)
      BY <3>1
    <3> DEFINE b == [j \in 0..k |-> IF j = k THEN turn[a[k - 1]] ELSE a[j]]
    <3>3. \A j \in 0..k : j # k => a[j] = IF j = 0 THEN s ELSE turn[a[j - 1]]
      BY <3>1, <3>2
    <3>4. \A j \in 0..k : b[j] = IF j = 0 THEN s ELSE turn[b[j - 1]]
      <4>1. TAKE j \in 0..k
      <4>2. j # 0 => j - 1 \in 0..k /\ j - 1 # k
        BY <3>1
      <4>3. j # 0 => b[j - 1] = a[j - 1]
        BY <4>2
      <4>4. CASE j = k
        BY <2>5, <4>3, <4>4
      <4>5. CASE j # k
        BY <3>3, <4>3, <4>5
      <4> QED BY <4>4, <4>5
    <3>5. b = [j \in 0..k |-> IF j = 0 THEN s ELSE turn[b[j - 1]]]
      BY <3>4
    <3> HIDE DEF b
    <3> QED BY <2>3, <3>5
  <2> QED BY <2>4, <2>5
<1>2. \E a : Is(a, n)
  BY <1>1
<1> DEFINE after == CHOOSE a : Is(a, n)
<1>3. Is(after, n)
  BY <1>2
<1>4. Loop(turn, s, n) = after[n]
  BY DEF Loop
<1> HIDE DEF after
<1> DEFINE U == {k \in Nat : k <= n /\ after[k] \notin I[k]}
<1>5. U = {}
  <2>1. SUFFICES ASSUME U # {} PROVE FALSE
    OBVIOUS
  <2>2. U \in SUBSET Nat
    OBVIOUS
  <2>3. PICK k \in U : \A l \in U : k <= l
    BY <2>1, <2>2, Least
  <2>4. k \in 0..n /\ k \in Nat /\ after[k] \notin I[k]
    BY <2>3
  <2>5. after[k] = IF k = 0 THEN s ELSE turn[after[k - 1]]
    BY <1>3, <2>4
  <2>6. k # 0
    BY <2>4, <2>5
  <2>7. k - 1 \in Nat /\ k - 1 \notin U /\ k - 1 <= n
    BY <2>3, <2>4, <2>6
  <2>8. after[k - 1] \in I[k - 1] /\ k - 1 \in 0..n - 1 /\ (k - 1) + 1 = k
    BY <2>4, <2>6, <2>7
  <2> QED BY <2>4, <2>5, <2>6, <2>8
<1> QED BY <1>4, <1>5

\* Sizes are powers of FAN.
LEMMA Sizes ==
  /\ LEVELS \in Nat /\ LEVELS >= 1 /\ FAN \in Nat /\ FAN >= 2 /\ FRAMES \in Nat
  /\ Size(1) = 1
  /\ \A l \in 1..LEVELS + 1 : Size(l) \in Nat /\ Size(l) >= 1
  /\ \A l \in 1..LEVELS : Size(l + 1) = Size(l) * FAN /\ Size(l) < Size(l + 1)
<1> DEFINE T == {k \in Nat : k >= 1 /\ k <= LEVELS + 1 /\ ~(Size(k) \in Nat /\ Size(k) >= 1)}
<1>1. T = {}
  <2>1. SUFFICES ASSUME T # {} PROVE FALSE
    OBVIOUS
  <2>2. T \in SUBSET Nat
    OBVIOUS
  <2>3. PICK k \in T : \A l \in T : k <= l
    BY <2>1, <2>2, Least
  <2>4. k # 1
    BY <2>3, PagingAssumption
  <2>5. k - 1 \in 1..LEVELS /\ k - 1 \notin T /\ (k - 1) + 1 = k
    BY <2>3, <2>4, PagingAssumption
  <2>6. Size(k) = Size(k - 1) * FAN /\ Size(k - 1) \in Nat /\ Size(k - 1) >= 1
    BY <2>5, PagingAssumption
  <2>7. \A a, b \in Nat : a >= 1 /\ b >= 1 => a * b \in Nat /\ a * b >= 1
    BY SMT
  <2> HIDE DEF T
  <2>8. Size(k) \in Nat /\ Size(k) >= 1
    BY <2>6, <2>7, PagingAssumption
  <2> USE DEF T
  <2> QED BY <2>3, <2>8
<1>2. \A l \in 1..LEVELS + 1 : Size(l) \in Nat /\ Size(l) >= 1
  BY <1>1, PagingAssumption
<1>3. \A a \in Nat, b \in Nat : a >= 1 /\ b >= 2 => a < a * b
  BY SMT
<1>4. \A l \in 1..LEVELS : Size(l + 1) = Size(l) * FAN /\ Size(l) < Size(l + 1)
  <2>1. TAKE l \in 1..LEVELS
  <2>2. Size(l) \in Nat /\ Size(l) >= 1 /\ Size(l + 1) = Size(l) * FAN
    BY <1>2, PagingAssumption
  <2>3. FAN \in Nat /\ FAN >= 2
    BY PagingAssumption
  <2>4. Size(l) < Size(l) * FAN
    BY <1>3, <2>2, <2>3
  <2> QED BY <2>2, <2>4
<1> QED BY <1>2, <1>4, PagingAssumption

\* Division by a product.
LEMMA DivideTwice ==
  ASSUME NEW v \in Nat, NEW a \in Nat, NEW b \in Nat, a >= 1, b >= 1
  PROVE  /\ a * b \in Nat /\ a * b >= 1
         /\ v \div a \in Nat
         /\ (v \div a) \div b = v \div (a * b)
         /\ v \div a = (v \div (a * b)) * b + ((v \div a) % b)
         /\ (v \div a) % b \in 0..b - 1
<1>0. a * b \in Nat /\ a * b >= 1
  BY SMT
<1> DEFINE q == v \div a
           r == v % a
           p == q \div b
           t == q % b
<1>a. a \in Nat \ {0} /\ b \in Nat \ {0}
  OBVIOUS
<1>1. q \in Nat /\ r \in 0..a - 1 /\ v = a * q + r
  BY <1>a, Division
<1>2. p \in Nat /\ t \in 0..b - 1 /\ q = b * p + t
  BY <1>1, <1>a, Division
<1> HIDE DEF q, r, p, t
<1> DEFINE c == a * b
           u == a * t + r
<1>3. u \in 0..c - 1
  <2>1. t + 1 <= b /\ t \in Nat
    BY <1>2
  <2>2. a * (t + 1) <= a * b
    BY <2>1
  <2>3. a * (t + 1) = a * t + a
    BY <2>1
  <2>4. a * t \in Nat
    BY <2>1
  <2> QED BY <1>1, <2>2, <2>3, <2>4
<1>4. v = c * p + u
  <2>1. a * (b * p + t) = a * (b * p) + a * t
    BY <1>2
  <2>2. a * (b * p) = (a * b) * p
    BY <1>2
  <2> QED BY <1>1, <1>2, <2>1, <2>2
<1>5. c \in Nat /\ c >= 1 /\ c \in Nat \ {0}
  BY <1>0
<1> HIDE DEF c, u
<1>6. v \div c = p
  <2>1. v \div c \in Nat /\ v % c \in 0..c - 1 /\ v = c * (v \div c) + (v % c)
    BY <1>5, Division
  <2> DEFINE d == v \div c
             e == v % c
  <2>2. d \in Nat /\ e \in 0..c - 1 /\ v = c * d + e
    BY <2>1
  <2> HIDE DEF d, e
  <2>3. CASE d < p
    <3>1. c * d + c <= c * p
      BY <1>5, <1>2, <2>2, <2>3, MultiplesApart
    <3> QED BY <1>3, <1>4, <1>5, <1>2, <2>2, <3>1
  <2>4. CASE p < d
    <3>1. c * p + c <= c * d
      BY <1>5, <1>2, <2>2, <2>4, MultiplesApart
    <3> QED BY <1>3, <1>4, <1>5, <1>2, <2>2, <3>1
  <2>5. CASE d = p
    BY <2>5 DEF d
  <2>6. d < p \/ p < d \/ d = p
    BY <2>2, <1>2
  <2> QED BY <2>3, <2>4, <2>5, <2>6
<1>7. q = p * b + t
  BY <1>2
<1> QED BY <1>0, <1>1, <1>2, <1>6, <1>7 DEF q, r, p, t, c

\* The region of a size that an address lies in.
LEMMA InRegion ==
  ASSUME NEW v \in Nat, NEW a \in Nat, a >= 1
  PROVE  /\ v \div a \in Nat
         /\ v % a \in 0..a - 1
         /\ v = (v \div a) * a + (v % a)
         /\ (v \div a) * a <= v /\ v < (v \div a) * a + a
         /\ \A n \in Nat : n * a <= v /\ v < n * a + a => n = v \div a
<1> DEFINE q == v \div a
           r == v % a
<1>a. a \in Nat \ {0}
  OBVIOUS
<1>1. q \in Nat /\ r \in 0..a - 1 /\ v = a * q + r
  BY <1>a, Division
<1> HIDE DEF q, r
<1>2. a * q = q * a
  BY <1>1
<1>3. ASSUME NEW n \in Nat, n * a <= v, v < n * a + a
      PROVE  n = q
  <2>1. a * n = n * a
    OBVIOUS
  <2>2. CASE n < q
    <3>1. a * n + a <= a * q
      BY <1>1, <2>2, MultiplesApart
    <3> QED BY <1>1, <1>3, <2>1, <3>1
  <2>3. CASE q < n
    <3>1. a * q + a <= a * n
      BY <1>1, <2>3, MultiplesApart
    <3> QED BY <1>1, <1>3, <2>1, <3>1
  <2> QED BY <1>1, <2>2, <2>3
<1>4. q * a <= v /\ v < q * a + a /\ v = q * a + r
  BY <1>1, <1>2
<1> QED BY <1>1, <1>3, <1>4 DEF q, r

-----------------------------------------------------------------------------
(* Numbers of tables and pages: Num.                                       *)

\* The number of the table of level l, or for l = 0 of the page, that v lies in.
Num(v, l) == v \div Size(l + 1)

\* A number at one level is the number at the next level up and an index.
LEMMA Numbers ==
  /\ \A v \in Nat, l \in 0..LEVELS : Num(v, l) \in Nat
  /\ \A v \in Nat : Num(v, 0) = v
  /\ \A v \in Nat, l \in 1..LEVELS : Index(v, l) \in Slot
  /\ \A v \in Nat, l \in 1..LEVELS : Num(v, l - 1) = Num(v, l) * FAN + Index(v, l)
  /\ \A v \in Nat : v < Size(LEVELS + 1) => Num(v, LEVELS) = 0
<1>0. /\ LEVELS \in Nat /\ LEVELS >= 1 /\ FAN \in Nat /\ FAN >= 2
      /\ Size(1) = 1
      /\ \A l \in 1..LEVELS + 1 : Size(l) \in Nat /\ Size(l) >= 1
      /\ \A l \in 1..LEVELS : Size(l + 1) = Size(l) * FAN
  BY Sizes
<1>1. ASSUME NEW v \in Nat, NEW l \in 0..LEVELS
      PROVE  Num(v, l) \in Nat
  <2>1. l + 1 \in 1..LEVELS + 1
    BY <1>0
  <2>2. Size(l + 1) \in Nat /\ Size(l + 1) >= 1
    BY <1>0, <2>1
  <2> QED BY <2>2, InRegion DEF Num
<1>2. ASSUME NEW v \in Nat PROVE Num(v, 0) = v
  <2>1. Size(0 + 1) = 1
    BY <1>0
  <2>2. v = (v \div 1) * 1 + (v % 1) /\ v % 1 \in 0..1 - 1 /\ v \div 1 \in Nat
    BY InRegion
  <2>3. v \div 1 = v
    BY <2>2
  <2> QED BY <2>1, <2>3 DEF Num
<1>3. ASSUME NEW v \in Nat, NEW l \in 1..LEVELS
      PROVE  Index(v, l) \in Slot /\ Num(v, l - 1) = Num(v, l) * FAN + Index(v, l)
  <2>1. Size(l) \in Nat /\ Size(l) >= 1 /\ Size(l + 1) = Size(l) * FAN /\ (l - 1) + 1 = l
    BY <1>0
  <2> DEFINE s == Size(l)
  <2>2. s \in Nat /\ s >= 1
    BY <2>1
  <2>a. FAN \in Nat /\ FAN >= 1
    BY <1>0
  <2> HIDE DEF s
  <2>3. /\ v \div s = (v \div (s * FAN)) * FAN + ((v \div s) % FAN)
        /\ (v \div s) % FAN \in 0..FAN - 1
    BY <2>a, <2>2, DivideTwice
  <2> QED BY <2>1, <2>3 DEF Index, Num, Slot, s
<1>4. ASSUME NEW v \in Nat, v < Size(LEVELS + 1)
      PROVE  Num(v, LEVELS) = 0
  <2>1. LEVELS + 1 \in 1..LEVELS + 1
    BY <1>0
  <2> DEFINE s == Size(LEVELS + 1)
  <2>2. s \in Nat /\ s >= 1
    BY <1>0, <2>1
  <2> HIDE DEF s
  <2>3. \A n \in Nat : n * s <= v /\ v < n * s + s => n = v \div s
    BY <2>2, InRegion
  <2>4. v < s
    BY <1>4 DEF s
  <2>5. 0 * s <= v /\ v < 0 * s + s
    BY <2>2, <2>4
  <2>6. 0 = v \div s
    BY <2>3, <2>5
  <2> QED BY <2>6 DEF Num, s
<1> QED BY <1>1, <1>2, <1>3, <1>4

\* Tables of level l - 1 are told apart by that of level l and the index in it.
LEMMA SameNumber ==
  ASSUME NEW v \in Nat, NEW w \in Nat, NEW l \in 1..LEVELS
  PROVE  Num(v, l - 1) = Num(w, l - 1)
           <=> Num(v, l) = Num(w, l) /\ Index(v, l) = Index(w, l)
<1>1. /\ FAN \in Nat /\ FAN >= 2 /\ FAN \in Nat \ {0} /\ l \in 0..LEVELS
  BY Sizes
<1>2. /\ Num(v, l) \in Nat /\ Num(w, l) \in Nat
      /\ Num(v, l - 1) = Num(v, l) * FAN + Index(v, l)
      /\ Num(w, l - 1) = Num(w, l) * FAN + Index(w, l)
      /\ Index(v, l) \in 0..FAN - 1 /\ Index(w, l) \in 0..FAN - 1
  BY <1>1, Numbers DEF Slot
<1> DEFINE p == Num(v, l)
           q == Num(w, l)
           i == Index(v, l)
           j == Index(w, l)
<1>3. /\ p \in Nat /\ q \in Nat /\ i \in 0..FAN - 1 /\ j \in 0..FAN - 1
      /\ Num(v, l - 1) = p * FAN + i /\ Num(w, l - 1) = q * FAN + j
  BY <1>2
<1> HIDE DEF p, q, i, j
<1>4. ASSUME p * FAN + i = q * FAN + j
      PROVE  p = q /\ i = j
  <2>0. p * FAN = FAN * p /\ q * FAN = FAN * q
    BY <1>1, <1>3
  <2>1. CASE p < q
    <3>1. FAN * p + FAN <= FAN * q
      BY <1>1, <1>3, <2>1, MultiplesApart
    <3> QED BY <1>1, <1>3, <1>4, <2>0, <3>1
  <2>2. CASE q < p
    <3>1. FAN * q + FAN <= FAN * p
      BY <1>1, <1>3, <2>2, MultiplesApart
    <3> QED BY <1>1, <1>3, <1>4, <2>0, <3>1
  <2>3. CASE p = q
    BY <1>1, <1>3, <1>4, <2>3
  <2> QED BY <1>3, <2>1, <2>2, <2>3
<1>5. Num(v, l - 1) = Num(w, l - 1) <=> p = q /\ i = j
  BY <1>3, <1>4
<1> QED BY <1>5 DEF p, q, i, j

\* The pages of a table, or of an entry of level l + 1, are in a row.
LEMMA Regions ==
  ASSUME NEW l \in 0..LEVELS
  PROVE  /\ Size(l + 1) \in Nat /\ Size(l + 1) >= 1
         /\ \A v \in Nat : /\ v % Size(l + 1) \in 0..Size(l + 1) - 1
                           /\ v = Num(v, l) * Size(l + 1) + (v % Size(l + 1))
         /\ \A n \in Nat, k \in 0..Size(l + 1) - 1 :
              /\ n * Size(l + 1) + k \in Nat
              /\ Num(n * Size(l + 1) + k, l) = n
              /\ (n * Size(l + 1) + k) % Size(l + 1) = k
         /\ \A n \in Nat : n * Size(l + 1) \in Nat
         /\ \A v, w \in Nat : v <= w => Num(v, l) <= Num(w, l)
<1> DEFINE s == Size(l + 1)
<1>1. s \in Nat /\ s >= 1 /\ s \in Nat \ {0}
  <2>1. l + 1 \in 1..LEVELS + 1
    BY Sizes
  <2> QED BY <2>1, Sizes
<1> HIDE DEF s
<1>2. ASSUME NEW v \in Nat
      PROVE  /\ v \div s \in Nat /\ v % s \in 0..s - 1 /\ v = (v \div s) * s + (v % s)
             /\ \A n \in Nat : n * s <= v /\ v < n * s + s => n = v \div s
  BY <1>1, InRegion
<1>3. \A n \in Nat : n * s \in Nat
  BY <1>1
<1>4. ASSUME NEW n \in Nat, NEW k \in 0..s - 1
      PROVE  n * s + k \in Nat /\ (n * s + k) \div s = n /\ (n * s + k) % s = k
  <2> DEFINE v == n * s + k
  <2>1. v \in Nat /\ n * s <= v /\ v < n * s + s
    BY <1>1, <1>3
  <2> HIDE DEF v
  <2>2. v \div s = n
    BY <1>2, <2>1
  <2>3. v = (v \div s) * s + (v % s) /\ v % s \in Nat
    BY <1>2, <2>1, <1>1
  <2>4. v = n * s + (v % s)
    BY <2>2, <2>3
  <2>5. v = n * s + k /\ n * s \in Nat
    BY <1>3 DEF v
  <2>6. v % s = k
    BY <2>3, <2>4, <2>5, <1>1
  <2> QED BY <2>1, <2>2, <2>6 DEF v
<1>5. ASSUME NEW v \in Nat, NEW w \in Nat, v <= w PROVE v \div s <= w \div s
  <2> DEFINE p == v \div s
             q == w \div s
  <2>1. /\ p \in Nat /\ v = p * s + (v % s) /\ v % s \in 0..s - 1
        /\ q \in Nat /\ w = q * s + (w % s) /\ w % s \in 0..s - 1
    BY <1>2
  <2> HIDE DEF p, q
  <2>2. ASSUME q < p PROVE FALSE
    <3>1. s * q + s <= s * p
      BY <1>1, <2>1, <2>2, MultiplesApart
    <3>2. s * q = q * s /\ s * p = p * s
      BY <1>1, <2>1
    <3>3. p * s \in Nat /\ q * s \in Nat
      BY <1>1, <2>1
    <3> QED BY <1>1, <1>5, <2>1, <3>1, <3>2, <3>3
  <2>3. p <= q
    BY <2>1, <2>2
  <2> QED BY <2>3 DEF p, q
<1> QED BY <1>1, <1>2, <1>3, <1>4, <1>5 DEF Num, s

-----------------------------------------------------------------------------
(* A tree of page tables, as the function u that gives its frames their places.*)

\* In the tree that u describes, frame f is the table of level l, or for l = 0 the
\* page, that v lies in.  u gives every frame of the tree its level and its number.
Covers(u, f, l, v) == f \in DOMAIN u /\ u[f].lvl = l /\ u[f].num = Num(v, l)

LeafEntry(entry, l) == Present(entry) /\ (l = 1 \/ entry.large)
InnerEntry(entry, l) == Present(entry) /\ ~(l = 1 \/ entry.large)

\* Every frame has one place.
Places(u) ==
  /\ u = [f \in DOMAIN u |-> u[f]]
  /\ DOMAIN u \subseteq Frame
  /\ \A f \in DOMAIN u : u[f].lvl \in 0..LEVELS /\ u[f].num \in Nat
  /\ \A f, g \in DOMAIN u : u[f].lvl = u[g].lvl /\ u[f].num = u[g].num => f = g
  /\ \A f \in DOMAIN u : u[f].lvl = LEVELS => u[f].num = 0

\* What is behind the entries of a table is in its place.
Downward(table, u) ==
  \A f \in DOMAIN u, l \in 1..LEVELS, v \in Nat :
    Covers(u, f, l, v) =>
      LET e == table[f][Index(v, l)]
      IN /\ LeafEntry(e, l) => Covers(u, e.phys + (v % Size(l)), 0, v)
         /\ InnerEntry(e, l) => Covers(u, e.phys, l - 1, v)

\* What is in a place is behind an entry.
Upward(table, u) ==
  /\ \A f \in DOMAIN u, l \in 1..LEVELS - 1, v \in Nat :
       Covers(u, f, l, v) =>
         \E g \in DOMAIN u : LET e == table[g][Index(v, l + 1)]
                             IN /\ Covers(u, g, l + 1, v)
                                /\ InnerEntry(e, l + 1) /\ e.phys = f
  /\ \A f \in DOMAIN u, v \in Nat :
       Covers(u, f, 0, v) =>
         \E g \in DOMAIN u, l \in 1..LEVELS :
            LET e == table[g][Index(v, l)]
            IN Covers(u, g, l, v) /\ LeafEntry(e, l) /\ f = e.phys + (v % Size(l))

Tree(table, r, u) ==
  /\ Places(u) /\ Downward(table, u) /\ Upward(table, u)
  /\ r \in DOMAIN u /\ u[r].lvl = LEVELS

\* There is one frame in a place.
LEMMA OnePlace ==
  ASSUME NEW u, Places(u), NEW f, NEW g, NEW l, NEW v, Covers(u, f, l, v), Covers(u, g, l, v)
  PROVE  f = g
BY DEF Places, Covers

\* Over what is in a tree there is a table of every higher level.
LEMMA Ancestor ==
  ASSUME NEW table, NEW u, Upward(table, u), NEW f, NEW l \in 1..LEVELS, NEW v \in Nat,
         Covers(u, f, l, v)
  PROVE  \A j \in l + 1..LEVELS : \E g \in DOMAIN u :
           Covers(u, g, j, v) /\ InnerEntry(table[g][Index(v, j)], j)
<1> DEFINE P(j) == \E g \in DOMAIN u :
                     Covers(u, g, j, v) /\ InnerEntry(table[g][Index(v, j)], j)
           T == {j \in Nat : j > l /\ j <= LEVELS /\ ~P(j)}
<1>0. LEVELS \in Nat
  BY Sizes
<1>1. SUFFICES ASSUME T # {} PROVE FALSE
  <2>1. SUFFICES ASSUME NEW j \in l + 1..LEVELS PROVE P(j)
    OBVIOUS
  <2>2. j \in Nat /\ j > l /\ j <= LEVELS
    BY <1>0
  <2> QED BY <1>1, <2>2
<1>2. T \in SUBSET Nat
  OBVIOUS
<1> HIDE DEF T
<1>3. PICK j \in T : \A k \in T : j <= k
  BY <1>1, <1>2, Least
<1>4. j \in Nat /\ j > l /\ j <= LEVELS /\ ~P(j)
  BY <1>3 DEF T
<1>5. \E g : Covers(u, g, j - 1, v)
  <2>1. CASE j = l + 1
    BY <2>1
  <2>2. CASE j # l + 1
    <3>1. j - 1 \in Nat /\ j - 1 > l /\ j - 1 <= LEVELS /\ j - 1 \notin T
      BY <1>0, <1>3, <1>4, <2>2
    <3>2. P(j - 1)
      BY <3>1 DEF T
    <3> QED BY <3>2
  <2> QED BY <2>1, <2>2
<1>6. j - 1 \in 1..LEVELS - 1 /\ (j - 1) + 1 = j
  BY <1>0, <1>4
<1> HIDE DEF P
<1>7. P(j)
  BY <1>5, <1>6 DEF Upward, P, Covers
<1> QED BY <1>4, <1>7

\* An entry that is no way down has no table of a lower level, and no page but its
\* own, behind it.
LEMMA NothingBelow ==
  ASSUME NEW table, NEW r, NEW u, Tree(table, r, u),
         NEW f, NEW l \in 1..LEVELS, NEW v \in Nat, Covers(u, f, l, v),
         ~InnerEntry(table[f][Index(v, l)], l)
  PROVE  /\ \A k \in 1..l - 1, g \in DOMAIN u : ~Covers(u, g, k, v)
         /\ \A g \in DOMAIN u : Covers(u, g, 0, v) =>
              /\ LeafEntry(table[f][Index(v, l)], l)
              /\ g = table[f][Index(v, l)].phys + (v % Size(l))
<1>0. LEVELS \in Nat /\ Places(u) /\ Upward(table, u)
  BY Sizes DEF Tree
<1>1. ASSUME NEW k \in 1..l - 1, NEW g \in DOMAIN u, Covers(u, g, k, v)
      PROVE  FALSE
  <2>1. l \in k + 1..LEVELS /\ k \in 1..LEVELS
    BY <1>0
  <2>2. PICK h \in DOMAIN u : Covers(u, h, l, v) /\ InnerEntry(table[h][Index(v, l)], l)
    BY <1>0, <1>1, <2>1, Ancestor
  <2>3. h = f
    BY <1>0, <2>2, OnePlace
  <2> QED BY <2>2, <2>3
<1>2. ASSUME NEW g \in DOMAIN u, Covers(u, g, 0, v)
      PROVE  /\ LeafEntry(table[f][Index(v, l)], l)
             /\ g = table[f][Index(v, l)].phys + (v % Size(l))
  <2>1. PICK h \in DOMAIN u, j \in 1..LEVELS :
               /\ Covers(u, h, j, v) /\ LeafEntry(table[h][Index(v, j)], j)
               /\ g = table[h][Index(v, j)].phys + (v % Size(j))
    BY <1>0, <1>2 DEF Upward
  <2>2. CASE j = l
    <3>1. h = f
      BY <1>0, <2>1, <2>2, OnePlace
    <3> QED BY <2>1, <2>2, <3>1
  <2>3. CASE j < l
    <3>1. j \in 1..l - 1
      BY <1>0, <2>3
    <3> QED BY <1>1, <2>1, <3>1
  <2>4. CASE l < j
    <3>1. j \in l + 1..LEVELS
      BY <1>0, <2>4
    <3>2. PICK i \in DOMAIN u : Covers(u, i, j, v) /\ InnerEntry(table[i][Index(v, j)], j)
      BY <1>0, <3>1, Ancestor
    <3>3. i = h
      BY <1>0, <2>1, <3>2, OnePlace
    <3> QED BY <2>1, <3>2, <3>3 DEF InnerEntry, LeafEntry
  <2> QED BY <1>0, <2>2, <2>3, <2>4
<1> QED BY <1>1, <1>2

\* Such an entry is the one a page below its table is behind.
LEMMA SoleLeaf ==
  ASSUME NEW table, NEW r, NEW u, Tree(table, r, u),
         NEW g, NEW k \in 1..LEVELS, NEW v \in Nat, Covers(u, g, k, v),
         ~InnerEntry(table[g][Index(v, k)], k),
         NEW h \in DOMAIN u, Covers(u, h, 0, v)
  PROVE  /\ LeafEntry(table[g][Index(v, k)], k)
         /\ h = table[g][Index(v, k)].phys + (v % Size(k))
BY NothingBelow

-----------------------------------------------------------------------------
(* Walk and pt_addr.                                                       *)

Tables == [Frame -> [Slot -> AnyEntry]]

\* The walk down to level k reads the entry for v of the lowest table over v, of
\* level k or more.
LEMMA WalkReads ==
  ASSUME NEW table \in Tables, NEW r, NEW u, Tree(table, r, u),
         NEW v \in Nat, v < Size(LEVELS + 1), NEW k \in 1..LEVELS
  PROVE  LET s == Walk(table, r, v, k)
         IN /\ s.lvl \in k..LEVELS /\ s.entry \in AnyEntry
            /\ s.lvl = k \/ ~InnerEntry(s.entry, s.lvl)
            /\ \E g \in DOMAIN u : Covers(u, g, s.lvl, v) /\ s.entry = table[g][Index(v, s.lvl)]
<1>0. LEVELS \in Nat /\ LEVELS >= 1 /\ Places(u) /\ Downward(table, u) /\ r \in DOMAIN u
      /\ u[r].lvl = LEVELS /\ DOMAIN u \subseteq Frame
  BY Sizes DEF Tree, Places
<1> DEFINE Good(s) == \E g \in DOMAIN u : Covers(u, g, s.lvl, v)
                                          /\ s.entry = table[g][Index(v, s.lvl)]
           I == [j \in 0..LEVELS - k |->
                   {s \in [lvl : 1..LEVELS, entry : AnyEntry] :
                      /\ s.lvl >= LEVELS - j
                      /\ s.lvl = LEVELS - j \/ ~InnerEntry(s.entry, s.lvl)
                      /\ Good(s)}]
           s0 == [lvl |-> LEVELS, entry |-> table[r][Index(v, LEVELS)]]
           n == LEVELS - k
<1>1. n \in Nat /\ 0 \in 0..n
  BY <1>0
<1>2. s0 \in I[0]
  <2>1. Covers(u, r, LEVELS, v)
    BY <1>0, Numbers DEF Places, Covers
  <2>2. Index(v, LEVELS) \in Slot /\ r \in Frame
    BY <1>0, Numbers
  <2>3. table[r][Index(v, LEVELS)] \in AnyEntry
    BY <2>2 DEF Tables
  <2>4. LEVELS \in 1..LEVELS /\ LEVELS - 0 = LEVELS
    BY <1>0
  <2>5. Good(s0)
    BY <1>0, <2>1
  <2>6. s0 \in [lvl : 1..LEVELS, entry : AnyEntry]
    BY <2>3, <2>4
  <2> QED BY <1>1, <2>4, <2>5, <2>6
<1>3. ASSUME NEW j \in 0..n - 1, NEW s \in I[j]
      PROVE  Deeper(table, v)[s] \in I[j + 1]
  <2>1. /\ j \in 0..n /\ j + 1 \in 0..n /\ j \in Nat
        /\ s \in [lvl : 1..LEVELS, entry : AnyEntry] /\ s.lvl >= LEVELS - j
        /\ s.lvl = LEVELS - j \/ ~InnerEntry(s.entry, s.lvl)
        /\ Good(s)
    BY <1>0, <1>1
  <2>2. s.lvl \in 1..LEVELS /\ s.entry \in AnyEntry
    BY <2>1
  <2> DEFINE t == Deeper(table, v)[s]
  <2>3. t = IF s.lvl > 1 /\ Inner(s.entry)
            THEN [lvl |-> s.lvl - 1, entry |-> table[s.entry.phys][Index(v, s.lvl - 1)]]
            ELSE s
    BY <2>1 DEF Deeper
  <2> HIDE DEF t
  <2>4. CASE s.lvl > 1 /\ Inner(s.entry)
    <3>1. InnerEntry(s.entry, s.lvl)
      BY <2>2, <2>4 DEF InnerEntry, Inner
    <3>2. s.lvl = LEVELS - j
      BY <2>1, <3>1
    <3>3. PICK g \in DOMAIN u : Covers(u, g, s.lvl, v) /\ s.entry = table[g][Index(v, s.lvl)]
      BY <2>1
    <3>4. Covers(u, s.entry.phys, s.lvl - 1, v)
      BY <1>0, <2>2, <3>1, <3>3 DEF Downward
    <3>5. s.lvl - 1 \in 1..LEVELS /\ s.lvl - 1 = LEVELS - (j + 1) /\ s.lvl - 1 >= LEVELS - (j + 1)
      BY <2>1, <2>2, <2>4, <3>2, <1>0
    <3>6. s.entry.phys \in Frame /\ Index(v, s.lvl - 1) \in Slot /\ s.entry.phys \in DOMAIN u
      BY <1>0, <3>4, <3>5, Numbers DEF Covers
    <3>7. table[s.entry.phys][Index(v, s.lvl - 1)] \in AnyEntry
      BY <3>6 DEF Tables
    <3>8. t = [lvl |-> s.lvl - 1, entry |-> table[s.entry.phys][Index(v, s.lvl - 1)]]
      BY <2>3, <2>4
    <3>9. t.lvl = s.lvl - 1 /\ t.entry = table[s.entry.phys][Index(v, s.lvl - 1)]
          /\ t \in [lvl : 1..LEVELS, entry : AnyEntry]
      BY <3>5, <3>7, <3>8
    <3>10. Good(t)
      BY <3>4, <3>6, <3>9
    <3> HIDE DEF Good
    <3> QED BY <2>1, <3>5, <3>9, <3>10 DEF t
  <2>5. CASE ~(s.lvl > 1 /\ Inner(s.entry))
    <3>1. t = s
      BY <2>3, <2>5
    <3>2. ~InnerEntry(s.entry, s.lvl)
      BY <2>2, <2>5 DEF InnerEntry, Inner
    <3>3. s.lvl >= LEVELS - (j + 1)
      BY <2>1, <2>2, <1>0
    <3> HIDE DEF Good
    <3> QED BY <2>1, <3>1, <3>2, <3>3 DEF t
  <2> QED BY <2>4, <2>5
<1> HIDE DEF I, s0
<1>4. Loop(Deeper(table, v), s0, n) \in I[n]
  BY <1>1, <1>2, <1>3, LoopKeeps
<1>5. n \in 0..n /\ LEVELS - n = k
  BY <1>0, <1>1
<1> DEFINE s == Walk(table, r, v, k)
<1>6. s \in I[n]
  BY <1>4 DEF Walk, s0
<1> HIDE DEF s
<1>7. /\ s \in [lvl : 1..LEVELS, entry : AnyEntry] /\ s.lvl >= k
      /\ s.lvl = k \/ ~InnerEntry(s.entry, s.lvl)
      /\ Good(s)
  BY <1>5, <1>6 DEF I
<1>8. s.lvl \in k..LEVELS /\ s.entry \in AnyEntry
  BY <1>0, <1>7
<1> QED BY <1>7, <1>8 DEF s

\* pt_addr finds the frame of a page, and finds none for a page that has none.
LEMMA AddrFinds ==
  ASSUME NEW table \in Tables, NEW r, NEW u, Tree(table, r, u),
         NEW v \in Nat, v < Size(LEVELS + 1)
  PROVE  /\ pt_addr(table, r, v) # 0 => Covers(u, pt_addr(table, r, v), 0, v)
         /\ \A f \in DOMAIN u : Covers(u, f, 0, v) => pt_addr(table, r, v) = f
<1>0. LEVELS \in Nat /\ 1 \in 1..LEVELS /\ Places(u) /\ Downward(table, u)
      /\ DOMAIN u \subseteq Frame
  BY Sizes DEF Tree, Places
<1> DEFINE s == Walk(table, r, v, 1)
<1>1. /\ s.lvl \in 1..LEVELS /\ s.entry \in AnyEntry
      /\ s.lvl = 1 \/ ~InnerEntry(s.entry, s.lvl)
      /\ \E g \in DOMAIN u : Covers(u, g, s.lvl, v) /\ s.entry = table[g][Index(v, s.lvl)]
  BY <1>0, WalkReads
<1>2. pt_addr(table, r, v) = IF Present(s.entry) THEN s.entry.phys + (v % Size(s.lvl)) ELSE 0
  BY DEF pt_addr
<1> HIDE DEF s
<1>3. ~InnerEntry(s.entry, s.lvl)
  BY <1>1 DEF InnerEntry
<1>4. PICK g \in DOMAIN u : Covers(u, g, s.lvl, v) /\ s.entry = table[g][Index(v, s.lvl)]
  BY <1>1
<1>5. \A h \in DOMAIN u : Covers(u, h, 0, v) =>
         LeafEntry(s.entry, s.lvl) /\ h = s.entry.phys + (v % Size(s.lvl))
  <2> DEFINE k == s.lvl
  <2>1. /\ k \in 1..LEVELS /\ Covers(u, g, k, v) /\ s.entry = table[g][Index(v, k)]
        /\ ~InnerEntry(table[g][Index(v, k)], k)
    BY <1>1, <1>3, <1>4
  <2> HIDE DEF k
  <2>2. ASSUME NEW h \in DOMAIN u, Covers(u, h, 0, v)
        PROVE  /\ LeafEntry(table[g][Index(v, k)], k)
               /\ h = table[g][Index(v, k)].phys + (v % Size(k))
    <3>1. k \in 1..LEVELS
      BY <2>1
    <3>2. Covers(u, g, k, v)
      BY <2>1
    <3>3. ~InnerEntry(table[g][Index(v, k)], k)
      BY <2>1
    <3>4. v \in Nat /\ Tree(table, r, u)
      OBVIOUS
    <3> QED BY <2>2, <3>1, <3>2, <3>3, <3>4, SoleLeaf
  <2> QED BY <2>1, <2>2 DEF k
<1>6. Present(s.entry) => LeafEntry(s.entry, s.lvl)
  BY <1>3 DEF InnerEntry, LeafEntry
<1>7. LeafEntry(s.entry, s.lvl) => Covers(u, s.entry.phys + (v % Size(s.lvl)), 0, v)
  BY <1>0, <1>1, <1>4 DEF Downward
<1> QED BY <1>2, <1>5, <1>6, <1>7 DEF LeafEntry

-----------------------------------------------------------------------------
(* A tree that grows: a table, pages.                                      *)

\* The tree u with frame f as the table of level l and number n.
WithTable(u, f, l, n) ==
  [g \in DOMAIN u \cup {f} |-> IF g = f THEN [lvl |-> l, num |-> n] ELSE u[g]]

\* A fresh frame becomes an inner table behind an absent entry.
LEMMA AddTable ==
  ASSUME NEW table, NEW r, NEW u, Tree(table, r, u),
         NEW pt \in DOMAIN u, NEW l \in 2..LEVELS, NEW virt \in Nat, Covers(u, pt, l, virt),
         ~Present(table[pt][Index(virt, l)]),
         NEW f \in Frame \ DOMAIN u, NEW new, NEW e,
         e.phys = f, ~e.large,
         \A g \in Frame, j \in Slot :
           new[g][j] = IF g = pt /\ j = Index(virt, l) THEN e
                       ELSE IF g = f THEN None ELSE table[g][j]
  PROVE  Tree(new, r, WithTable(u, f, l - 1, Num(virt, l - 1)))
<1> DEFINE i == Index(virt, l)
           w == WithTable(u, f, l - 1, Num(virt, l - 1))
<1>0. /\ LEVELS \in Nat /\ LEVELS >= 1 /\ l \in 1..LEVELS /\ l - 1 \in 1..LEVELS - 1
      /\ l - 1 \in 0..LEVELS /\ (l - 1) + 1 = l /\ l - 1 # LEVELS /\ l - 1 # 0 /\ l # 1
  BY Sizes
<1>1. /\ Places(u) /\ Downward(table, u) /\ Upward(table, u) /\ r \in DOMAIN u
      /\ u[r].lvl = LEVELS /\ DOMAIN u \subseteq Frame /\ pt # f
  BY DEF Tree, Places
<1>2. \A v \in Nat : Num(v, l) = Num(virt, l) /\ Index(v, l) = i <=> Num(v, l - 1) = Num(virt, l - 1)
  BY <1>0, SameNumber
<1>3. Num(virt, l - 1) \in Nat
  BY <1>0, Numbers
<1>4. DOMAIN w = DOMAIN u \cup {f} /\ w[f].lvl = l - 1 /\ w[f].num = Num(virt, l - 1)
      /\ \A g \in DOMAIN u : w[g] = u[g]
  BY <1>1 DEF WithTable
<1>f. w = [g \in DOMAIN w |-> w[g]]
  BY DEF WithTable
<1> HIDE DEF w
<1>5. \A g \in DOMAIN u : \A k, v : Covers(w, g, k, v) <=> Covers(u, g, k, v)
  BY <1>4 DEF Covers
<1>6. \A k, v : Covers(w, f, k, v) <=> k = l - 1 /\ Num(v, k) = Num(virt, l - 1)
  BY <1>4 DEF Covers
<1>7. \A g, k, v : Covers(u, g, k, v) => Covers(w, g, k, v)
  BY <1>5 DEF Covers
<1>8. ~InnerEntry(table[pt][i], l)
  BY DEF InnerEntry
<1>9. \A g \in DOMAIN u : ~(u[g].lvl = l - 1 /\ u[g].num = Num(virt, l - 1))
  <2>1. \A g \in DOMAIN u : ~Covers(u, g, l - 1, virt)
    <3>1. l - 1 \in 1..l - 1
      BY <1>0
    <3> QED BY <1>0, <1>8, <3>1, NothingBelow
  <2> QED BY <2>1 DEF Covers
<1>10. Places(w)
  <2>1. DOMAIN w \subseteq Frame
    BY <1>1, <1>4
  <2>2. \A g \in DOMAIN w : w[g].lvl \in 0..LEVELS /\ w[g].num \in Nat
    BY <1>0, <1>1, <1>3, <1>4 DEF Places
  <2>3. \A g, h \in DOMAIN w : w[g].lvl = w[h].lvl /\ w[g].num = w[h].num => g = h
    BY <1>1, <1>4, <1>9 DEF Places
  <2>4. \A g \in DOMAIN w : w[g].lvl = LEVELS => w[g].num = 0
    BY <1>0, <1>1, <1>4 DEF Places
  <2> QED BY <1>f, <2>1, <2>2, <2>3, <2>4 DEF Places
<1>11. \A g \in DOMAIN u, v \in Nat, k \in 1..LEVELS :
         Covers(u, g, k, v) =>
           new[g][Index(v, k)] = IF g = pt /\ Num(v, l - 1) = Num(virt, l - 1) THEN e
                                 ELSE table[g][Index(v, k)]
  <2>1. TAKE g \in DOMAIN u, v \in Nat, k \in 1..LEVELS
  <2>2. HAVE Covers(u, g, k, v)
  <2>3. Index(v, k) \in Slot /\ g \in Frame /\ g # f
    BY <1>1, Numbers
  <2>4. new[g][Index(v, k)] = IF g = pt /\ Index(v, k) = i THEN e ELSE table[g][Index(v, k)]
    BY <2>3
  <2>5. g = pt => k = l /\ Num(v, l) = Num(virt, l)
    BY <2>2 DEF Covers
  <2> QED BY <1>2, <2>4, <2>5
<1>12. \A v \in Nat, k \in 1..LEVELS : ~Present(new[f][Index(v, k)])
  <2>1. \A v \in Nat, k \in 1..LEVELS : Index(v, k) \in Slot
    BY Numbers
  <2> QED BY <1>1, <2>1 DEF Present, None
<1>13. \A k : InnerEntry(e, l) /\ ~LeafEntry(e, l)
  BY <1>0, <1>1 DEF InnerEntry, LeafEntry, Present, Frame
<1>14. Downward(new, w)
  <2>1. SUFFICES ASSUME NEW g \in DOMAIN w, NEW k \in 1..LEVELS, NEW v \in Nat, Covers(w, g, k, v)
                 PROVE  LET d == new[g][Index(v, k)]
                        IN /\ LeafEntry(d, k) => Covers(w, d.phys + (v % Size(k)), 0, v)
                           /\ InnerEntry(d, k) => Covers(w, d.phys, k - 1, v)
    BY DEF Downward
  <2>2. CASE g = f
    BY <1>12, <2>2 DEF LeafEntry, InnerEntry
  <2>3. CASE g # f
    <3>1. g \in DOMAIN u /\ Covers(u, g, k, v)
      BY <1>4, <1>5, <2>1, <2>3
    <3>2. CASE g = pt /\ Num(v, l - 1) = Num(virt, l - 1)
      <4>1. new[g][Index(v, k)] = e /\ k = l
        BY <1>11, <3>1, <3>2 DEF Covers
      <4>2. Covers(w, e.phys, l - 1, v)
        BY <1>6, <3>2
      <4> QED BY <1>13, <4>1, <4>2
    <3>3. CASE ~(g = pt /\ Num(v, l - 1) = Num(virt, l - 1))
      <4>1. new[g][Index(v, k)] = table[g][Index(v, k)]
        BY <1>11, <3>1, <3>3
      <4> QED BY <1>1, <1>7, <3>1, <4>1 DEF Downward
    <3> QED BY <3>2, <3>3
  <2> QED BY <2>2, <2>3
<1>15. \A g \in DOMAIN u, v \in Nat, k \in 1..LEVELS :
         Covers(u, g, k, v) /\ Present(table[g][Index(v, k)]) =>
           new[g][Index(v, k)] = table[g][Index(v, k)]
  <2>1. TAKE g \in DOMAIN u, v \in Nat, k \in 1..LEVELS
  <2>2. HAVE Covers(u, g, k, v) /\ Present(table[g][Index(v, k)])
  <2>3. ASSUME g = pt, Num(v, l - 1) = Num(virt, l - 1) PROVE FALSE
    <3>1. k = l /\ Index(v, k) = i
      BY <1>2, <2>2, <2>3 DEF Covers
    <3> QED BY <2>2, <2>3, <3>1
  <2> QED BY <1>11, <2>2, <2>3
<1>16. Upward(new, w)
  <2>1. ASSUME NEW g \in DOMAIN w, NEW k \in 1..LEVELS - 1, NEW v \in Nat, Covers(w, g, k, v)
        PROVE  \E h \in DOMAIN w : LET d == new[h][Index(v, k + 1)]
                                   IN /\ Covers(w, h, k + 1, v)
                                      /\ InnerEntry(d, k + 1) /\ d.phys = g
    <3>1. CASE g = f
      <4>1. k = l - 1 /\ Num(v, l - 1) = Num(virt, l - 1)
        BY <1>6, <2>1, <3>1
      <4>2. Covers(u, pt, l, v) /\ k + 1 = l
        BY <1>0, <1>2, <4>1 DEF Covers
      <4>3. new[pt][Index(v, k + 1)] = e
        BY <1>0, <1>11, <4>1, <4>2
      <4> QED BY <1>4, <1>7, <1>13, <3>1, <4>2, <4>3
    <3>2. CASE g # f
      <4>1. g \in DOMAIN u /\ Covers(u, g, k, v)
        BY <1>4, <1>5, <2>1, <3>2
      <4>2. PICK h \in DOMAIN u : /\ Covers(u, h, k + 1, v)
                                  /\ InnerEntry(table[h][Index(v, k + 1)], k + 1)
                                  /\ table[h][Index(v, k + 1)].phys = g
        BY <1>1, <4>1 DEF Upward
      <4>3. k + 1 \in 1..LEVELS
        BY <1>0
      <4>4. new[h][Index(v, k + 1)] = table[h][Index(v, k + 1)]
        BY <1>15, <4>2, <4>3 DEF InnerEntry
      <4> QED BY <1>4, <1>7, <4>2, <4>4
    <3> QED BY <3>1, <3>2
  <2>2. ASSUME NEW g \in DOMAIN w, NEW v \in Nat, Covers(w, g, 0, v)
        PROVE  \E h \in DOMAIN w, k \in 1..LEVELS :
                 LET d == new[h][Index(v, k)]
                 IN Covers(w, h, k, v) /\ LeafEntry(d, k) /\ g = d.phys + (v % Size(k))
    <3>1. g \in DOMAIN u /\ Covers(u, g, 0, v)
      BY <1>0, <1>4, <1>5, <1>6, <2>2
    <3>2. PICK h \in DOMAIN u, k \in 1..LEVELS :
                 /\ Covers(u, h, k, v) /\ LeafEntry(table[h][Index(v, k)], k)
                 /\ g = table[h][Index(v, k)].phys + (v % Size(k))
      BY <1>1, <3>1 DEF Upward
    <3>3. new[h][Index(v, k)] = table[h][Index(v, k)]
      BY <1>15, <3>2 DEF LeafEntry
    <3> QED BY <1>4, <1>7, <3>2, <3>3
  <2> QED BY <2>1, <2>2 DEF Upward
<1> QED BY <1>1, <1>4, <1>10, <1>14, <1>16 DEF Tree, w

\* The same for the pages behind an entry of level l.
LEMMA EntryRegions ==
  ASSUME NEW l \in 1..LEVELS
  PROVE  /\ Size(l) \in Nat /\ Size(l) >= 1
         /\ \A v \in Nat : /\ v % Size(l) \in 0..Size(l) - 1
                           /\ v = Num(v, l - 1) * Size(l) + (v % Size(l))
         /\ \A n \in Nat, k \in 0..Size(l) - 1 :
              /\ n * Size(l) + k \in Nat
              /\ Num(n * Size(l) + k, l - 1) = n
              /\ (n * Size(l) + k) % Size(l) = k
         /\ \A n \in Nat : n * Size(l) \in Nat
         /\ \A v, w \in Nat : v <= w => Num(v, l - 1) <= Num(w, l - 1)
<1> DEFINE j == l - 1
<1>1. j \in 0..LEVELS /\ j + 1 = l
  BY Sizes
<1> HIDE DEF j
<1>2. /\ Size(j + 1) \in Nat /\ Size(j + 1) >= 1
      /\ \A v \in Nat : /\ v % Size(j + 1) \in 0..Size(j + 1) - 1
                        /\ v = Num(v, j) * Size(j + 1) + (v % Size(j + 1))
      /\ \A n \in Nat, k \in 0..Size(j + 1) - 1 :
           /\ n * Size(j + 1) + k \in Nat
           /\ Num(n * Size(j + 1) + k, j) = n
           /\ (n * Size(j + 1) + k) % Size(j + 1) = k
      /\ \A n \in Nat : n * Size(j + 1) \in Nat
      /\ \A v, w \in Nat : v <= w => Num(v, j) <= Num(w, j)
  BY <1>1, Regions
<1> DEFINE s == Size(j + 1)
<1>3. s = Size(l)
  BY <1>1
<1>4. /\ s \in Nat /\ s >= 1
      /\ \A v \in Nat : v % s \in 0..s - 1 /\ v = Num(v, j) * s + (v % s)
      /\ \A n \in Nat, k \in 0..s - 1 :
           n * s + k \in Nat /\ Num(n * s + k, j) = n /\ (n * s + k) % s = k
      /\ \A n \in Nat : n * s \in Nat
      /\ \A v, w \in Nat : v <= w => Num(v, j) <= Num(w, j)
  BY <1>2
<1> HIDE DEF s
<1> QED BY <1>3, <1>4 DEF j

\* The tree u with the pages from n on in the frames from f on.
WithPages(u, f, size, n) ==
  [g \in DOMAIN u \cup Run(f, size) |->
     IF g \in DOMAIN u THEN u[g] ELSE [lvl |-> 0, num |-> n + (g - f)]]

\* Fresh frames in a row become the pages behind an absent entry.
LEMMA AddLeaf ==
  ASSUME NEW table, NEW r, NEW u, Tree(table, r, u),
         NEW pt \in DOMAIN u, NEW l \in 1..LEVELS, NEW virt \in Nat, Covers(u, pt, l, virt),
         ~Present(table[pt][Index(virt, l)]),
         NEW f \in Nat, Run(f, Size(l)) \subseteq Frame \ DOMAIN u, NEW new, NEW e,
         e.phys = f, l = 1 \/ e.large,
         \A g \in Frame, j \in Slot :
           new[g][j] = IF g = pt /\ j = Index(virt, l) THEN e ELSE table[g][j]
  PROVE  Tree(new, r, WithPages(u, f, Size(l), Num(virt, l - 1) * Size(l)))
<1> DEFINE i == Index(virt, l)
           R == Run(f, Size(l))
           b == Num(virt, l - 1) * Size(l)
           In(v) == Num(v, l - 1) = Num(virt, l - 1)
           w == WithPages(u, f, Size(l), b)
<1>0. /\ LEVELS \in Nat /\ LEVELS >= 1 /\ l - 1 \in 0..LEVELS /\ (l - 1) + 1 = l
      /\ 0 # LEVELS /\ 0 \in 0..LEVELS /\ l \in Nat
  BY Sizes
<1>1. /\ Places(u) /\ Downward(table, u) /\ Upward(table, u) /\ r \in DOMAIN u
      /\ u[r].lvl = LEVELS /\ DOMAIN u \subseteq Frame /\ R \cap DOMAIN u = {}
      /\ R \subseteq Frame
  BY DEF Tree, Places
<1>2. \A v \in Nat : Num(v, l) = Num(virt, l) /\ Index(v, l) = i <=> In(v)
  BY <1>0, SameNumber
<1>3. /\ Num(virt, l - 1) \in Nat /\ b \in Nat
      /\ Size(l) \in Nat /\ Size(l) >= 1
      /\ \A v \in Nat : In(v) => v = b + (v % Size(l)) /\ v % Size(l) \in 0..Size(l) - 1
      /\ \A k \in 0..Size(l) - 1 : b + k \in Nat /\ In(b + k) /\ (b + k) % Size(l) = k
  <2>1. Num(virt, l - 1) \in Nat
    BY <1>0, Numbers
  <2>2. /\ Size(l) \in Nat /\ Size(l) >= 1
        /\ \A v \in Nat : /\ v % Size(l) \in 0..Size(l) - 1
                          /\ v = Num(v, l - 1) * Size(l) + (v % Size(l))
        /\ \A n \in Nat, k \in 0..Size(l) - 1 :
              /\ n * Size(l) + k \in Nat
              /\ Num(n * Size(l) + k, l - 1) = n
              /\ (n * Size(l) + k) % Size(l) = k
        /\ \A n \in Nat : n * Size(l) \in Nat
    BY EntryRegions
  <2> QED BY <2>1, <2>2
<1> DEFINE num == [g \in R |-> b + (g - f)]
<1>w. w = [g \in DOMAIN u \cup R |->
             IF g \in DOMAIN u THEN u[g] ELSE [lvl |-> 0, num |-> num[g]]]
  BY DEF WithPages
<1>f. w = [g \in DOMAIN w |-> w[g]]
  BY DEF WithPages
<1> HIDE DEF w
<1>r. R \cap DOMAIN u = {} /\ R \subseteq Frame
  BY <1>1
<1> HIDE DEF R, num
<1>4. /\ DOMAIN w = DOMAIN u \cup R
      /\ \A g \in DOMAIN u : w[g] = u[g]
      /\ \A g \in R : w[g].lvl = 0 /\ w[g].num = num[g]
  BY <1>w, <1>r
<1> USE DEF R, num
<1>5. \A g \in R : g - f \in 0..Size(l) - 1 /\ num[g] \in Nat /\ In(num[g]) /\ num[g] % Size(l) = g - f
                   /\ g = f + (num[g] % Size(l))
  <2>1. TAKE g \in R
  <2>2. g - f \in 0..Size(l) - 1 /\ g \in Nat
    BY <1>3 DEF Run
  <2> HIDE DEF b
  <2>3. b + (g - f) \in Nat /\ In(b + (g - f)) /\ (b + (g - f)) % Size(l) = g - f
    BY <1>3, <2>2
  <2>4. g = f + (g - f)
    BY <2>2
  <2> QED BY <2>2, <2>3, <2>4
<1>6. \A v \in Nat : In(v) => f + (v % Size(l)) \in R /\ num[f + (v % Size(l))] = v
  <2>1. TAKE v \in Nat
  <2>2. HAVE In(v)
  <2> DEFINE k == v % Size(l)
  <2>3. k \in 0..Size(l) - 1 /\ v = b + k
    BY <1>3, <2>2
  <2> HIDE DEF k, b
  <2>4. f + k \in R /\ b + ((f + k) - f) = b + k
    BY <1>3, <2>3 DEF Run, b
  <2> QED BY <2>3, <2>4 DEF k
<1> HIDE DEF b, R
<1> HIDE DEF num
<1>7. \A g \in DOMAIN u : \A k, v : Covers(w, g, k, v) <=> Covers(u, g, k, v)
  BY <1>4 DEF Covers
<1>8. \A g \in R : \A k, v : Covers(w, g, k, v) <=> k = 0 /\ num[g] = Num(v, k)
  BY <1>4 DEF Covers
<1>9. \A g, k, v : Covers(u, g, k, v) => Covers(w, g, k, v)
  BY <1>7 DEF Covers
<1>10. \A v \in Nat, g \in DOMAIN u : In(v) => ~Covers(u, g, 0, v)
  <2>1. TAKE v \in Nat, g \in DOMAIN u
  <2>2. HAVE In(v)
  <2>3. Covers(u, pt, l, v) /\ Index(v, l) = i
    BY <1>2, <2>2 DEF Covers
  <2>4. ~InnerEntry(table[pt][Index(v, l)], l) /\ ~LeafEntry(table[pt][Index(v, l)], l)
    BY <2>3 DEF InnerEntry, LeafEntry
  <2> QED BY <2>3, <2>4, NothingBelow
<1>11. \A g \in DOMAIN u, h \in R : ~(u[g].lvl = 0 /\ u[g].num = num[h])
  BY <1>5, <1>10, Numbers DEF Covers
<1>12. Places(w)
  <2>1. DOMAIN w \subseteq Frame
    BY <1>1, <1>4
  <2>2. \A g \in DOMAIN w : w[g].lvl \in 0..LEVELS /\ w[g].num \in Nat
    BY <1>0, <1>1, <1>4, <1>5 DEF Places
  <2>3. \A g, h \in R : num[g] = num[h] => g = h
    BY <1>5
  <2>4. \A g, h \in DOMAIN w : w[g].lvl = w[h].lvl /\ w[g].num = w[h].num => g = h
    <3>1. TAKE g \in DOMAIN w, h \in DOMAIN w
    <3>0. HAVE w[g].lvl = w[h].lvl /\ w[g].num = w[h].num
    <3>2. CASE g \in DOMAIN u /\ h \in DOMAIN u
      BY <1>1, <1>4, <3>0, <3>2 DEF Places
    <3>3. CASE g \in DOMAIN u /\ h \in R
      <4>1. w[g] = u[g] /\ w[h].lvl = 0 /\ w[h].num = num[h]
        BY <1>4, <3>3
      <4>2. u[g].lvl = 0 /\ u[g].num = num[h]
        BY <3>0, <4>1
      <4> QED BY <1>11, <3>3, <4>2
    <3>4. CASE g \in R /\ h \in DOMAIN u
      <4>1. w[h] = u[h] /\ w[g].lvl = 0 /\ w[g].num = num[g]
        BY <1>4, <3>4
      <4>2. u[h].lvl = 0 /\ u[h].num = num[g]
        BY <3>0, <4>1
      <4> QED BY <1>11, <3>4, <4>2
    <3>5. CASE g \in R /\ h \in R
      <4>1. w[g].num = num[g] /\ w[h].num = num[h]
        BY <1>4, <3>5
      <4>2. num[g] = num[h]
        BY <3>0, <4>1
      <4> QED BY <2>3, <3>5, <4>2
    <3> QED BY <1>4, <3>2, <3>3, <3>4, <3>5
  <2>5. \A g \in DOMAIN w : w[g].lvl = LEVELS => w[g].num = 0
    BY <1>0, <1>1, <1>4 DEF Places
  <2> QED BY <1>f, <2>1, <2>2, <2>4, <2>5 DEF Places
<1>13. \A g \in DOMAIN u, v \in Nat, k \in 1..LEVELS :
         Covers(u, g, k, v) =>
           new[g][Index(v, k)] = IF g = pt /\ In(v) THEN e ELSE table[g][Index(v, k)]
  <2>1. TAKE g \in DOMAIN u, v \in Nat, k \in 1..LEVELS
  <2>2. HAVE Covers(u, g, k, v)
  <2>3. Index(v, k) \in Slot /\ g \in Frame
    BY <1>1, Numbers
  <2>4. new[g][Index(v, k)] = IF g = pt /\ Index(v, k) = i THEN e ELSE table[g][Index(v, k)]
    BY <2>3
  <2>5. g = pt => k = l /\ Num(v, l) = Num(virt, l)
    BY <2>2 DEF Covers
  <2> QED BY <1>2, <2>4, <2>5
<1>14. LeafEntry(e, l) /\ ~InnerEntry(e, l)
  <2>1. f \in R
    BY <1>3 DEF R, Run
  <2> QED BY <1>1, <2>1 DEF LeafEntry, InnerEntry, Present, Frame
<1>15. Downward(new, w)
  <2>1. SUFFICES ASSUME NEW g \in DOMAIN w, NEW k \in 1..LEVELS, NEW v \in Nat, Covers(w, g, k, v)
                 PROVE  LET d == new[g][Index(v, k)]
                        IN /\ LeafEntry(d, k) => Covers(w, d.phys + (v % Size(k)), 0, v)
                           /\ InnerEntry(d, k) => Covers(w, d.phys, k - 1, v)
    BY DEF Downward
  <2>2. g \in DOMAIN u /\ Covers(u, g, k, v)
    <3>1. k # 0
      OBVIOUS
    <3>2. g \notin R
      BY <1>8, <2>1, <3>1
    <3> QED BY <1>4, <1>7, <2>1, <3>2
  <2>3. CASE g = pt /\ In(v)
    <3>1. new[g][Index(v, k)] = e /\ k = l
      BY <1>13, <2>2, <2>3 DEF Covers
    <3>2. Covers(w, f + (v % Size(l)), 0, v)
      <4>1. f + (v % Size(l)) \in R /\ num[f + (v % Size(l))] = v
        BY <1>6, <2>3
      <4>2. Num(v, 0) = v
        BY Numbers
      <4> DEFINE x == f + (v % Size(l))
      <4>3. x \in R /\ num[x] = v
        BY <4>1
      <4> HIDE DEF x
      <4>4. Covers(w, x, 0, v)
        BY <1>4, <4>2, <4>3 DEF Covers
      <4> QED BY <4>4 DEF x
    <3> QED BY <1>14, <3>1, <3>2
  <2>4. CASE ~(g = pt /\ In(v))
    <3>1. new[g][Index(v, k)] = table[g][Index(v, k)]
      BY <1>13, <2>2, <2>4
    <3> QED BY <1>1, <1>9, <2>2, <3>1 DEF Downward
  <2> QED BY <2>3, <2>4
<1>16. \A g \in DOMAIN u, v \in Nat, k \in 1..LEVELS :
         Covers(u, g, k, v) /\ Present(table[g][Index(v, k)]) =>
           new[g][Index(v, k)] = table[g][Index(v, k)]
  <2>1. TAKE g \in DOMAIN u, v \in Nat, k \in 1..LEVELS
  <2>2. HAVE Covers(u, g, k, v) /\ Present(table[g][Index(v, k)])
  <2>3. ASSUME g = pt, In(v) PROVE FALSE
    <3>1. k = l /\ Index(v, k) = i
      BY <1>2, <2>2, <2>3 DEF Covers
    <3> QED BY <2>2, <2>3, <3>1
  <2> QED BY <1>13, <2>2, <2>3
<1>17. Upward(new, w)
  <2>1. ASSUME NEW g \in DOMAIN w, NEW k \in 1..LEVELS - 1, NEW v \in Nat, Covers(w, g, k, v)
        PROVE  \E h \in DOMAIN w : LET d == new[h][Index(v, k + 1)]
                                   IN /\ Covers(w, h, k + 1, v)
                                      /\ InnerEntry(d, k + 1) /\ d.phys = g
    <3>0. k # 0
      BY <1>0
    <3>a. g \notin R
      BY <1>8, <2>1, <3>0
    <3>1. g \in DOMAIN u /\ Covers(u, g, k, v)
      BY <1>4, <1>7, <2>1, <3>a
    <3>2. PICK h \in DOMAIN u : /\ Covers(u, h, k + 1, v)
                                /\ InnerEntry(table[h][Index(v, k + 1)], k + 1)
                                /\ table[h][Index(v, k + 1)].phys = g
      BY <1>1, <3>1 DEF Upward
    <3>3. k + 1 \in 1..LEVELS
      BY <1>0
    <3>4. new[h][Index(v, k + 1)] = table[h][Index(v, k + 1)]
      BY <1>16, <3>2, <3>3 DEF InnerEntry
    <3> QED BY <1>4, <1>9, <3>2, <3>4
  <2>2. ASSUME NEW g \in DOMAIN w, NEW v \in Nat, Covers(w, g, 0, v)
        PROVE  \E h \in DOMAIN w, k \in 1..LEVELS :
                 LET d == new[h][Index(v, k)]
                 IN Covers(w, h, k, v) /\ LeafEntry(d, k) /\ g = d.phys + (v % Size(k))
    <3>1. CASE g \in R
      <4>1. v = num[g]
        BY <1>8, <2>2, <3>1, Numbers
      <4>2. In(v) /\ g = f + (v % Size(l))
        BY <1>5, <3>1, <4>1
      <4>3. Covers(u, pt, l, v)
        BY <1>2, <4>2 DEF Covers
      <4>4. new[pt][Index(v, l)] = e
        BY <1>13, <4>2, <4>3
      <4> QED BY <1>4, <1>9, <1>14, <4>2, <4>3, <4>4
    <3>2. CASE g \notin R
      <4>1. g \in DOMAIN u /\ Covers(u, g, 0, v)
        BY <1>4, <1>7, <2>2, <3>2
      <4>2. PICK h \in DOMAIN u, k \in 1..LEVELS :
                   /\ Covers(u, h, k, v) /\ LeafEntry(table[h][Index(v, k)], k)
                   /\ g = table[h][Index(v, k)].phys + (v % Size(k))
        BY <1>1, <4>1 DEF Upward
      <4>3. new[h][Index(v, k)] = table[h][Index(v, k)]
        BY <1>16, <4>2 DEF LeafEntry
      <4> QED BY <1>4, <1>9, <4>2, <4>3
    <3> QED BY <3>1, <3>2
  <2> QED BY <2>1, <2>2 DEF Upward
<1> QED BY <1>1, <1>4, <1>12, <1>15, <1>17 DEF Tree, w, b

-----------------------------------------------------------------------------
(* A tree that is cut.                                                     *)

\* Pages that lie in one table lie in one table of every higher level.
LEMMA NumberUp ==
  ASSUME NEW v \in Nat, NEW w \in Nat, NEW a \in 0..LEVELS, Num(v, a) = Num(w, a)
  PROVE  \A b \in a..LEVELS : Num(v, b) = Num(w, b)
<1> DEFINE T == {b \in Nat : b >= a /\ b <= LEVELS /\ Num(v, b) # Num(w, b)}
<1>0. LEVELS \in Nat
  BY Sizes
<1>1. SUFFICES ASSUME T # {} PROVE FALSE
  <2>1. SUFFICES ASSUME NEW b \in a..LEVELS PROVE Num(v, b) = Num(w, b)
    OBVIOUS
  <2>2. b \in Nat /\ b >= a /\ b <= LEVELS
    BY <1>0
  <2> QED BY <1>1, <2>2
<1>2. T \in SUBSET Nat
  OBVIOUS
<1> HIDE DEF T
<1>3. PICK b \in T : \A c \in T : b <= c
  BY <1>1, <1>2, Least
<1>4. b \in Nat /\ b >= a /\ b <= LEVELS /\ Num(v, b) # Num(w, b)
  BY <1>3 DEF T
<1>5. b # a
  BY <1>4
<1>6. b - 1 \in Nat /\ b - 1 >= a /\ b - 1 <= LEVELS /\ b - 1 \notin T /\ b \in 1..LEVELS
  BY <1>0, <1>3, <1>4, <1>5
<1>7. Num(v, b - 1) = Num(w, b - 1)
  BY <1>6 DEF T
<1> QED BY <1>4, <1>6, <1>7, SameNumber

\* What is behind the entry of a table of level l for virt, at any depth.
Under(u, l, virt) ==
  {g \in DOMAIN u : \E v \in Nat, k \in 0..l - 1 :
                       Num(v, l - 1) = Num(virt, l - 1) /\ Covers(u, g, k, v)}

\* The tree without the frames X.
Rest(u, X) == [g \in DOMAIN u \ X |-> u[g]]

\* An entry that is cleared takes along what is behind it.
LEMMA Prune ==
  ASSUME NEW table, NEW r, NEW u, Tree(table, r, u),
         NEW pt \in DOMAIN u, NEW l \in 1..LEVELS, NEW virt \in Nat, Covers(u, pt, l, virt),
         NEW new,
         \A g \in DOMAIN u \ Under(u, l, virt), j \in Slot :
           new[g][j] = IF g = pt /\ j = Index(virt, l) THEN None ELSE table[g][j]
  PROVE  Tree(new, r, Rest(u, Under(u, l, virt)))
<1> DEFINE i == Index(virt, l)
           In(v) == Num(v, l - 1) = Num(virt, l - 1)
           S == Under(u, l, virt)
           w == Rest(u, S)
<1>0. LEVELS \in Nat /\ l - 1 \in 0..LEVELS /\ l \in Nat
  BY Sizes
<1>1. /\ Places(u) /\ Downward(table, u) /\ Upward(table, u) /\ r \in DOMAIN u
      /\ u[r].lvl = LEVELS /\ DOMAIN u \subseteq Frame
  BY DEF Tree, Places
<1>2. \A v \in Nat : Num(v, l) = Num(virt, l) /\ Index(v, l) = i <=> In(v)
  BY <1>0, SameNumber
<1>3. \A g \in DOMAIN u, k \in 0..l - 1, v \in Nat : Covers(u, g, k, v) => (g \in S <=> In(v))
  <2>1. TAKE g \in DOMAIN u, k \in 0..l - 1, v \in Nat
  <2>2. HAVE Covers(u, g, k, v)
  <2>3. In(v) => g \in S
    BY <2>2 DEF Under
  <2>4. ASSUME g \in S PROVE In(v)
    <3>1. PICK x \in Nat, j \in 0..l - 1 : In(x) /\ Covers(u, g, j, x)
      BY <2>4 DEF Under
    <3>2. j = k /\ Num(v, k) = Num(x, k)
      BY <2>2, <3>1 DEF Covers
    <3>3. k \in 0..LEVELS /\ l - 1 \in k..LEVELS
      BY <1>0
    <3>4. Num(v, l - 1) = Num(x, l - 1)
      BY <3>2, <3>3, NumberUp
    <3> QED BY <3>1, <3>4
  <2> QED BY <2>3, <2>4
<1>4. \A g \in DOMAIN u, k \in l..LEVELS : \A v : Covers(u, g, k, v) => g \notin S
  <2>1. \A g \in S : u[g].lvl \in 0..l - 1
    BY DEF Under, Covers
  <2> QED BY <1>0, <2>1 DEF Covers
<1> HIDE DEF S
<1>5. DOMAIN w = DOMAIN u \ S /\ \A g \in DOMAIN w : w[g] = u[g]
  BY DEF Rest
<1>f. w = [g \in DOMAIN w |-> w[g]]
  BY DEF Rest
<1> HIDE DEF w
<1>6. \A g \in DOMAIN w : \A k, v : Covers(w, g, k, v) <=> Covers(u, g, k, v)
  BY <1>5 DEF Covers
<1>7. Places(w)
  BY <1>1, <1>5, <1>f DEF Places
<1>8. \A g \in DOMAIN w, v \in Nat, k \in 1..LEVELS :
         Covers(u, g, k, v) =>
           new[g][Index(v, k)] = IF g = pt /\ In(v) THEN None ELSE table[g][Index(v, k)]
  <2>1. TAKE g \in DOMAIN w, v \in Nat, k \in 1..LEVELS
  <2>2. HAVE Covers(u, g, k, v)
  <2>3. Index(v, k) \in Slot
    BY Numbers
  <2>4. new[g][Index(v, k)] = IF g = pt /\ Index(v, k) = i THEN None ELSE table[g][Index(v, k)]
    BY <1>5, <2>3 DEF S
  <2>5. g = pt => k = l /\ Num(v, l) = Num(virt, l)
    BY <2>2 DEF Covers
  <2> QED BY <1>2, <2>4, <2>5
<1>9. ~LeafEntry(None, l) /\ ~InnerEntry(None, l)
  BY DEF LeafEntry, InnerEntry, Present, None
<1>10. ASSUME NEW g \in DOMAIN w, NEW k \in 1..LEVELS, NEW v \in Nat, Covers(u, g, k, v),
              In(v), NEW x, NEW j \in {0, k - 1}, Covers(u, x, j, v),
              IF j = 0 /\ k # 1 THEN LeafEntry(table[g][Index(v, k)], k)
                                ELSE Present(table[g][Index(v, k)])
       PROVE  k \in l..LEVELS /\ (k = l => g = pt) /\ (k > l => j >= l)
  <2>1. k >= l
    <3>1. ASSUME k < l PROVE FALSE
      <4>1. k \in 0..l - 1
        BY <1>0, <3>1
      <4> QED BY <1>3, <1>5, <1>10, <4>1
    <3> QED BY <1>0, <3>1
  <2>2. k = l => g = pt
    <3>1. ASSUME k = l PROVE g = pt
      <4>1. Covers(u, pt, l, v)
        BY <1>2, <1>10 DEF Covers
      <4> QED BY <1>1, <1>10, <3>1, <4>1, OnePlace
    <3> QED BY <3>1
  <2>3. ASSUME k > l, j < l PROVE FALSE
    <3>1. j = 0 /\ k # 1 /\ LeafEntry(table[g][Index(v, k)], k)
      BY <1>0, <1>10, <2>3
    <3>2. Covers(u, pt, l, v)
      BY <1>2, <1>10 DEF Covers
    <3>3. ~InnerEntry(table[g][Index(v, k)], k)
      BY <3>1 DEF InnerEntry, LeafEntry
    <3>4. l \in 1..k - 1
      BY <1>0, <2>3
    <3>5. g \in DOMAIN u
      BY <1>5
    <3>6. ~Covers(u, pt, l, v)
      BY <1>10, <3>3, <3>4, <3>5, NothingBelow
    <3> QED BY <3>2, <3>6
  <2> QED BY <1>0, <2>1, <2>2, <2>3
<1>11. Downward(new, w)
  <2>1. SUFFICES ASSUME NEW g \in DOMAIN w, NEW k \in 1..LEVELS, NEW v \in Nat, Covers(w, g, k, v)
                 PROVE  LET d == new[g][Index(v, k)]
                        IN /\ LeafEntry(d, k) => Covers(w, d.phys + (v % Size(k)), 0, v)
                           /\ InnerEntry(d, k) => Covers(w, d.phys, k - 1, v)
    BY DEF Downward
  <2>2. g \in DOMAIN u /\ Covers(u, g, k, v)
    BY <1>5, <1>6, <2>1
  <2>3. CASE g = pt /\ In(v)
    <3>1. new[g][Index(v, k)] = None /\ k = l
      BY <1>8, <2>2, <2>3 DEF Covers
    <3> QED BY <1>9, <3>1
  <2>4. CASE ~(g = pt /\ In(v))
    <3> DEFINE d == table[g][Index(v, k)]
    <3>1. new[g][Index(v, k)] = d
      BY <1>8, <2>2, <2>4
    <3>2. ASSUME LeafEntry(d, k) PROVE Covers(w, d.phys + (v % Size(k)), 0, v)
      <4> DEFINE x == d.phys + (v % Size(k))
      <4>1. Covers(u, x, 0, v)
        BY <1>1, <2>2, <3>2 DEF Downward
      <4>2. x \in DOMAIN u
        BY <4>1 DEF Covers
      <4>3. Present(d)
        BY <3>2 DEF LeafEntry
      <4> HIDE DEF x, d
      <4>4. ASSUME x \in S PROVE FALSE
        <5>1. In(v)
          BY <1>0, <1>3, <4>1, <4>2, <4>4
        <5>2. k = l => g = pt
          BY <1>10, <2>2, <3>2, <4>1, <4>3, <5>1 DEF d
        <5>3. k > l => 0 >= l
          BY <1>10, <2>2, <3>2, <4>1, <4>3, <5>1 DEF d
        <5>4. k \in l..LEVELS
          BY <1>10, <2>2, <3>2, <4>1, <4>3, <5>1 DEF d
        <5> QED BY <1>0, <2>4, <5>1, <5>2, <5>3, <5>4
      <4>5. x \in DOMAIN w
        BY <1>5, <4>2, <4>4
      <4> QED BY <1>6, <4>1, <4>5 DEF x
    <3>3. ASSUME InnerEntry(d, k) PROVE Covers(w, d.phys, k - 1, v)
      <4> DEFINE x == d.phys
      <4>1. Covers(u, x, k - 1, v)
        BY <1>1, <2>2, <3>3 DEF Downward
      <4>2. x \in DOMAIN u
        BY <4>1 DEF Covers
      <4>3. Present(d) /\ k # 1
        BY <3>3 DEF InnerEntry
      <4> HIDE DEF x, d
      <4>4. ASSUME x \in S PROVE FALSE
        <5>1. k - 1 \in 0..l - 1
          <6>1. k - 1 \in l..LEVELS => x \notin S
            BY <1>4, <4>1, <4>2
          <6> QED BY <1>0, <4>4, <6>1
        <5>2. In(v)
          BY <1>3, <4>1, <4>2, <4>4, <5>1
        <5>3. k - 1 # 0
          BY <4>3
        <5>4. k \in l..LEVELS /\ (k = l => g = pt)
          BY <1>10, <2>2, <4>1, <4>3, <5>2, <5>3 DEF d
        <5> QED BY <1>0, <2>4, <5>1, <5>2, <5>4
      <4>5. x \in DOMAIN w
        BY <1>5, <4>2, <4>4
      <4> QED BY <1>6, <4>1, <4>5 DEF x
    <3> QED BY <3>1, <3>2, <3>3
  <2> QED BY <2>3, <2>4
<1>12. Upward(new, w)
  <2>1. ASSUME NEW g \in DOMAIN w, NEW k \in 0..LEVELS, NEW v \in Nat, Covers(u, g, k, v),
               NEW h \in DOMAIN u, NEW j \in k + 1..LEVELS, Covers(u, h, j, v)
        PROVE  h \in DOMAIN w /\ new[h][Index(v, j)] = table[h][Index(v, j)]
    <3>0. g \in DOMAIN u /\ g \notin S
      BY <1>5
    <3>1. k < l => ~In(v)
      <4>1. k < l => k \in 0..l - 1
        BY <1>0
      <4> QED BY <1>3, <2>1, <3>0, <4>1
    <3>2. h \notin S
      <4>1. SUFFICES ASSUME h \in S PROVE FALSE
        OBVIOUS
      <4>2. j \in 0..l - 1
        BY <1>0, <1>4, <2>1, <4>1
      <4>3. In(v)
        BY <1>3, <2>1, <4>1, <4>2
      <4> QED BY <1>0, <3>1, <4>2, <4>3
    <3>3. ~(h = pt /\ In(v))
      <4>1. SUFFICES ASSUME h = pt, In(v) PROVE FALSE
        OBVIOUS
      <4>2. j = l
        BY <2>1, <4>1 DEF Covers
      <4> QED BY <1>0, <3>1, <4>1, <4>2
    <3>4. h \in DOMAIN w /\ j \in 1..LEVELS
      BY <1>0, <1>5, <3>2
    <3> QED BY <1>8, <2>1, <3>3, <3>4
  <2>2. ASSUME NEW g \in DOMAIN w, NEW k \in 1..LEVELS - 1, NEW v \in Nat, Covers(w, g, k, v)
        PROVE  \E h \in DOMAIN w : LET d == new[h][Index(v, k + 1)]
                                   IN /\ Covers(w, h, k + 1, v)
                                      /\ InnerEntry(d, k + 1) /\ d.phys = g
    <3>a. k + 1 \in k + 1..LEVELS /\ k \in 0..LEVELS
      BY <1>0
    <3>1. g \in DOMAIN u /\ Covers(u, g, k, v) /\ k + 1 \in k + 1..LEVELS /\ k \in 0..LEVELS
      BY <1>5, <1>6, <2>2, <3>a
    <3>2. PICK h \in DOMAIN u : /\ Covers(u, h, k + 1, v)
                                /\ InnerEntry(table[h][Index(v, k + 1)], k + 1)
                                /\ table[h][Index(v, k + 1)].phys = g
      BY <1>1, <3>1 DEF Upward
    <3>3. h \in DOMAIN w /\ new[h][Index(v, k + 1)] = table[h][Index(v, k + 1)]
      BY <2>1, <3>1, <3>2
    <3> QED BY <1>6, <3>2, <3>3
  <2>3. ASSUME NEW g \in DOMAIN w, NEW v \in Nat, Covers(w, g, 0, v)
        PROVE  \E h \in DOMAIN w, k \in 1..LEVELS :
                 LET d == new[h][Index(v, k)]
                 IN Covers(w, h, k, v) /\ LeafEntry(d, k) /\ g = d.phys + (v % Size(k))
    <3>a. 0 \in 0..LEVELS
      BY <1>0
    <3>1. g \in DOMAIN u /\ Covers(u, g, 0, v) /\ 0 \in 0..LEVELS
      BY <1>5, <1>6, <2>3, <3>a
    <3>2. PICK h \in DOMAIN u, k \in 1..LEVELS :
                 /\ Covers(u, h, k, v) /\ LeafEntry(table[h][Index(v, k)], k)
                 /\ g = table[h][Index(v, k)].phys + (v % Size(k))
      BY <1>1, <3>1 DEF Upward
    <3>3. k \in 0 + 1..LEVELS
      OBVIOUS
    <3>4. h \in DOMAIN w /\ new[h][Index(v, k)] = table[h][Index(v, k)]
      BY <2>1, <3>1, <3>2, <3>3
    <3> QED BY <1>6, <3>2, <3>4
  <2> QED BY <2>2, <2>3 DEF Upward
<1>13. r \in DOMAIN w
  <2>1. Covers(u, r, LEVELS, 0) /\ LEVELS \in l..LEVELS
    <3>1. LEVELS + 1 \in 1..LEVELS + 1 /\ LEVELS \in l..LEVELS
      BY <1>0
    <3>2. 0 < Size(LEVELS + 1)
      BY <3>1, Sizes
    <3>3. Num(0, LEVELS) = 0
      BY <3>2, Numbers
    <3> QED BY <1>1, <3>1, <3>3 DEF Covers, Places
  <2> QED BY <1>1, <1>4, <1>5, <2>1
<1> QED BY <1>1, <1>5, <1>7, <1>11, <1>12, <1>13 DEF Tree, w, S

\* The place of a page in its table: the entry, and the place behind the entry.
LEMMA Digits ==
  ASSUME NEW l \in 1..LEVELS
  PROVE  /\ Size(l) \in Nat /\ Size(l) >= 1 /\ Size(l + 1) \in Nat /\ Size(l + 1) = FAN * Size(l)
         /\ \A v \in Nat : /\ Index(v, l) \in 0..FAN - 1 /\ v % Size(l) \in 0..Size(l) - 1
                           /\ v % Size(l + 1) = Index(v, l) * Size(l) + (v % Size(l))
                           /\ v % Size(l + 1) \in 0..Size(l + 1) - 1
         /\ \A v \in Nat, i \in 0..FAN - 1, k \in 0..Size(l) - 1 :
              v % Size(l + 1) = i * Size(l) + k => Index(v, l) = i /\ v % Size(l) = k
<1> DEFINE s == Size(l)
           t == Size(l + 1)
<1>0. /\ FAN \in Nat /\ FAN >= 2 /\ l \in 0..LEVELS /\ l \in 1..LEVELS + 1 /\ l + 1 \in 1..LEVELS + 1
  BY Sizes
<1>1. /\ s \in Nat /\ s >= 1 /\ t \in Nat /\ t >= 1 /\ t = s * FAN
  BY <1>0, Sizes
<1>2. t = FAN * s
  BY <1>0, <1>1
<1>3. ASSUME NEW v \in Nat
      PROVE  /\ Index(v, l) \in 0..FAN - 1 /\ v % s \in 0..s - 1
             /\ v % t = Index(v, l) * s + (v % s) /\ v % t \in 0..t - 1
  <2>1. Index(v, l) \in 0..FAN - 1 /\ Num(v, l - 1) = Num(v, l) * FAN + Index(v, l)
        /\ Num(v, l) \in Nat
    BY <1>0, Numbers DEF Slot
  <2>2. v % s \in 0..s - 1 /\ v = Num(v, l - 1) * s + (v % s)
    BY EntryRegions
  <2>3. v % t \in 0..t - 1 /\ v = Num(v, l) * t + (v % t)
    BY <1>0, Regions
  <2> DEFINE p == Num(v, l)
             i == Index(v, l)
             a == v % s
             b == v % t
  <2>4. /\ p \in Nat /\ i \in Nat /\ a \in Nat /\ b \in Nat
        /\ v = (p * FAN + i) * s + a /\ v = p * t + b
    BY <1>1, <2>1, <2>2, <2>3
  <2> HIDE DEF p, i, a, b, s, t
  <2>5. (p * FAN + i) * s = p * (FAN * s) + i * s
    BY <1>0, <1>1, <2>4
  <2>6. p * t = p * (FAN * s)
    BY <1>2
  <2>7. p * t \in Nat /\ i * s \in Nat
    BY <1>1, <2>4
  <2>8. b = i * s + a
    BY <2>4, <2>5, <2>6, <2>7
  <2> QED BY <2>1, <2>2, <2>3, <2>8 DEF i, a, b
<1>4. ASSUME NEW v \in Nat, NEW i \in 0..FAN - 1, NEW k \in 0..s - 1, v % t = i * s + k
      PROVE  Index(v, l) = i /\ v % s = k
  <2> DEFINE j == Index(v, l)
             a == v % s
  <2>1. j \in 0..FAN - 1 /\ a \in 0..s - 1 /\ j * s + a = i * s + k
    BY <1>3, <1>4
  <2> HIDE DEF j, a, s
  <2>2. j * s = s * j /\ i * s = s * i /\ s \in Nat \ {0} /\ j \in Int /\ i \in Int
        /\ s * j \in Nat /\ s * i \in Nat
    BY <1>0, <1>1, <2>1
  <2>3. ASSUME j < i PROVE FALSE
    <3>1. s * j + s <= s * i
      BY <2>2, <2>3, MultiplesApart
    <3> QED BY <1>1, <2>1, <2>2, <3>1
  <2>4. ASSUME i < j PROVE FALSE
    <3>1. s * i + s <= s * j
      BY <2>2, <2>4, MultiplesApart
    <3> QED BY <1>1, <2>1, <2>2, <3>1
  <2>5. j = i
    BY <1>0, <2>1, <2>3, <2>4
  <2>6. a = k
    BY <1>1, <2>1, <2>2, <2>5
  <2> QED BY <2>5, <2>6 DEF j, a
<1> QED BY <1>1, <1>2, <1>3, <1>4

\* The first page of what a frame of a tree covers.
First(u, g) == u[g].num * Size(u[g].lvl + 1)

\* A frame covers the first of its pages, which is aligned to what it covers.
LEMMA FirstPage ==
  ASSUME NEW u, Places(u), NEW g \in DOMAIN u
  PROVE  /\ First(u, g) \in Nat /\ Covers(u, g, u[g].lvl, First(u, g))
         /\ First(u, g) % Size(u[g].lvl + 1) = 0
<1> DEFINE l == u[g].lvl
           n == u[g].num
<1>1. l \in 0..LEVELS /\ n \in Nat
  BY DEF Places
<1> HIDE DEF l, n
<1> DEFINE s == Size(l + 1)
<1>2. /\ s \in Nat /\ s >= 1 /\ n * s \in Nat
      /\ \A k \in 0..s - 1 : Num(n * s + k, l) = n /\ (n * s + k) % s = k
  BY <1>1, Regions
<1> HIDE DEF s
<1>3. 0 \in 0..s - 1 /\ n * s + 0 = n * s
  BY <1>2
<1>4. Num(n * s, l) = n /\ (n * s) % s = 0
  BY <1>2, <1>3
<1> QED BY <1>2, <1>4 DEF First, Covers, s, l, n

\* The frames of level below l that begin in [a, z).
Gone(u, l, a, z) ==
  {g \in DOMAIN u : u[g].lvl < l /\ a <= First(u, g) /\ First(u, g) < z}

\* What is behind an entry begins in the entry's pages.
LEMMA UnderGone ==
  ASSUME NEW u, Places(u), NEW l \in 1..LEVELS, NEW p \in Nat, p % Size(l) = 0
  PROVE  Under(u, l, p) = Gone(u, l, p, p + Size(l))
<1> DEFINE s == Size(l)
<1>0. LEVELS \in Nat /\ l - 1 \in 0..LEVELS /\ l \in Nat /\ (l - 1) + 1 = l
  BY Sizes
<1>1. /\ s \in Nat /\ s >= 1
      /\ \A v \in Nat : v % s \in 0..s - 1 /\ v = Num(v, l - 1) * s + (v % s)
      /\ \A n \in Nat : n * s \in Nat
      /\ \A n \in Nat, k \in 0..s - 1 : n * s + k \in Nat /\ Num(n * s + k, l - 1) = n
  BY EntryRegions
<1>2. \A v \in Nat : Num(v, l - 1) \in Nat
  BY <1>0, Numbers
<1> DEFINE c == Num(p, l - 1)
<1>3. c \in Nat /\ p = c * s
  <2>1. p = Num(p, l - 1) * s + 0 /\ Num(p, l - 1) \in Nat /\ Num(p, l - 1) * s \in Nat
    BY <1>1, <1>2
  <2> QED BY <2>1
<1> HIDE DEF s, c
<1>4. ASSUME NEW v \in Nat PROVE Num(v, l - 1) = c <=> p <= v /\ v < p + s
  <2>1. ASSUME Num(v, l - 1) = c PROVE p <= v /\ v < p + s
    BY <1>1, <1>3, <2>1
  <2>2. ASSUME p <= v, v < p + s PROVE Num(v, l - 1) = c
    <3> DEFINE k == v - p
    <3>1. k \in 0..s - 1 /\ v = c * s + k
      BY <1>1, <1>3, <2>2
    <3> HIDE DEF k
    <3>2. Num(c * s + k, l - 1) = c
      BY <1>1, <1>3, <3>1
    <3> QED BY <3>1, <3>2
  <2> QED BY <2>1, <2>2
<1>5. ASSUME NEW g \in Under(u, l, p) PROVE g \in Gone(u, l, p, p + s)
  <2>1. PICK v \in Nat, k \in 0..l - 1 : Num(v, l - 1) = c /\ Covers(u, g, k, v)
    BY <1>5 DEF Under, c
  <2>2. g \in DOMAIN u /\ u[g].lvl = k /\ u[g].lvl < l
    BY <1>0, <2>1 DEF Covers, Under
  <2>3. First(u, g) \in Nat /\ Covers(u, g, k, First(u, g))
    BY <2>2, FirstPage
  <2>4. Num(First(u, g), k) = Num(v, k)
    BY <2>1, <2>3 DEF Covers
  <2>5. k \in 0..LEVELS /\ l - 1 \in k..LEVELS
    BY <1>0
  <2>6. Num(First(u, g), l - 1) = c
    BY <2>1, <2>3, <2>4, <2>5, NumberUp
  <2>7. p <= First(u, g) /\ First(u, g) < p + s
    BY <1>4, <2>3, <2>6
  <2> QED BY <2>2, <2>7 DEF Gone
<1>6. ASSUME NEW g \in Gone(u, l, p, p + s) PROVE g \in Under(u, l, p)
  <2>1. g \in DOMAIN u /\ u[g].lvl < l /\ p <= First(u, g) /\ First(u, g) < p + s
    BY <1>6 DEF Gone
  <2>2. First(u, g) \in Nat /\ Covers(u, g, u[g].lvl, First(u, g)) /\ u[g].lvl \in 0..LEVELS
    BY <2>1, FirstPage DEF Places
  <2>3. Num(First(u, g), l - 1) = c /\ u[g].lvl \in 0..l - 1
    BY <1>0, <1>4, <2>1, <2>2
  <2> QED BY <2>1, <2>2, <2>3 DEF Under, c
<1> QED BY <1>5, <1>6 DEF s

\* Behind an absent entry is nothing, behind a leaf its pages, and behind the entry
\* of an empty table that table.
LEMMA UnderAbsent ==
  ASSUME NEW table, NEW r, NEW u, Tree(table, r, u),
         NEW pt \in DOMAIN u, NEW l \in 1..LEVELS, NEW p \in Nat, Covers(u, pt, l, p),
         ~Present(table[pt][Index(p, l)])
  PROVE  Under(u, l, p) = {}
<1>1. SUFFICES ASSUME NEW g \in Under(u, l, p) PROVE FALSE
  OBVIOUS
<1>0. LEVELS \in Nat
  BY Sizes
<1>2. PICK v \in Nat, k \in 0..l - 1 : Num(v, l - 1) = Num(p, l - 1) /\ Covers(u, g, k, v)
  BY DEF Under
<1>3. Covers(u, pt, l, v) /\ Index(v, l) = Index(p, l) /\ g \in DOMAIN u
  BY <1>2, SameNumber DEF Covers
<1>4. ~InnerEntry(table[pt][Index(v, l)], l) /\ ~LeafEntry(table[pt][Index(v, l)], l)
  BY <1>3 DEF InnerEntry, LeafEntry
<1>5. k = 0 \/ k \in 1..l - 1
  BY <1>0
<1>6. /\ \A j \in 1..l - 1, h \in DOMAIN u : ~Covers(u, h, j, v)
      /\ \A h \in DOMAIN u : ~Covers(u, h, 0, v)
  BY <1>3, <1>4, NothingBelow
<1> QED BY <1>2, <1>3, <1>5, <1>6

\* Behind a leaf are its pages.
LEMMA UnderLeaf ==
  ASSUME NEW table, NEW r, NEW u, Tree(table, r, u),
         NEW pt \in DOMAIN u, NEW l \in 1..LEVELS, NEW p \in Nat, Covers(u, pt, l, p),
         LeafEntry(table[pt][Index(p, l)], l), table[pt][Index(p, l)].phys \in Nat
  PROVE  Under(u, l, p) = Run(table[pt][Index(p, l)].phys, Size(l))
<1> DEFINE e == table[pt][Index(p, l)]
           s == Size(l)
<1>0. LEVELS \in Nat
  BY Sizes
<1>1. /\ s \in Nat /\ s >= 1
      /\ \A v \in Nat : v % s \in 0..s - 1
      /\ \A n \in Nat, k \in 0..s - 1 :
           n * s + k \in Nat /\ Num(n * s + k, l - 1) = n /\ (n * s + k) % s = k
  BY EntryRegions
<1>2. Num(p, l - 1) \in Nat /\ l - 1 \in 0..LEVELS
  BY <1>0, Numbers
<1>3. \A v \in Nat : Num(v, l - 1) = Num(p, l - 1) =>
        Covers(u, pt, l, v) /\ table[pt][Index(v, l)] = e
  BY SameNumber DEF Covers
<1>4. ASSUME NEW g \in Under(u, l, p) PROVE g \in Run(e.phys, s)
  <2>1. PICK v \in Nat, k \in 0..l - 1 : Num(v, l - 1) = Num(p, l - 1) /\ Covers(u, g, k, v)
    BY <1>4 DEF Under
  <2>2. Covers(u, pt, l, v) /\ table[pt][Index(v, l)] = e /\ g \in DOMAIN u
    BY <1>3, <2>1 DEF Covers
  <2>3. ~InnerEntry(table[pt][Index(v, l)], l)
    BY <2>2 DEF InnerEntry, LeafEntry
  <2>4. k = 0 \/ k \in 1..l - 1
    BY <1>0
  <2>5. /\ \A j \in 1..l - 1, h \in DOMAIN u : ~Covers(u, h, j, v)
        /\ \A h \in DOMAIN u : Covers(u, h, 0, v) =>
             h = table[pt][Index(v, l)].phys + (v % Size(l))
    BY <2>2, <2>3, NothingBelow
  <2>6. g = e.phys + (v % s)
    BY <2>1, <2>2, <2>4, <2>5
  <2> DEFINE k2 == v % s
             q == e.phys
  <2>7. k2 \in 0..s - 1 /\ q \in Nat /\ g = q + k2
    BY <1>1, <2>6
  <2> HIDE DEF k2, q, s
  <2>8. g \in q..q + s - 1
    BY <1>1, <2>7
  <2> QED BY <2>8 DEF Run, q
<1>5. ASSUME NEW g \in Run(e.phys, s) PROVE g \in Under(u, l, p)
  <2> DEFINE k == g - e.phys
             v == Num(p, l - 1) * s + k
  <2>1. k \in 0..s - 1 /\ g = e.phys + k
    <3> DEFINE q == e.phys
    <3>1. q \in Nat /\ g \in q..q + s - 1
      BY <1>5 DEF Run
    <3> HIDE DEF s, q
    <3>2. g - q \in 0..s - 1 /\ g = q + (g - q)
      BY <1>1, <3>1
    <3> QED BY <3>2 DEF q
  <2>2. v \in Nat /\ Num(v, l - 1) = Num(p, l - 1) /\ v % s = k
    BY <1>1, <1>2, <2>1
  <2> HIDE DEF v
  <2>3. Covers(u, pt, l, v) /\ table[pt][Index(v, l)] = e
    BY <1>3, <2>2
  <2>4. Covers(u, e.phys + (v % s), 0, v)
    BY <2>2, <2>3 DEF Tree, Downward
  <2>5. Covers(u, g, 0, v) /\ 0 \in 0..l - 1
    BY <1>0, <2>1, <2>2, <2>4
  <2> QED BY <2>2, <2>5 DEF Under, Covers
<1> QED BY <1>4, <1>5

\* Behind the entry of an empty table is that table.
LEMMA UnderInner ==
  ASSUME NEW table, NEW r, NEW u, Tree(table, r, u),
         NEW pt \in DOMAIN u, NEW l \in 1..LEVELS, NEW p \in Nat, Covers(u, pt, l, p),
         InnerEntry(table[pt][Index(p, l)], l),
         \A g \in DOMAIN u : g \in Under(u, l, p) => u[g].lvl = l - 1
  PROVE  Under(u, l, p) = {table[pt][Index(p, l)].phys}
<1> DEFINE c == table[pt][Index(p, l)].phys
<1>0. LEVELS \in Nat /\ Places(u)
  BY Sizes DEF Tree
<1>1. Covers(u, c, l - 1, p) /\ l - 1 \in 0..l - 1
  BY <1>0 DEF Tree, Downward
<1>2. c \in Under(u, l, p)
  BY <1>1 DEF Under, Covers
<1>3. ASSUME NEW g \in Under(u, l, p) PROVE g = c
  <2>1. PICK v \in Nat, k \in 0..l - 1 : Num(v, l - 1) = Num(p, l - 1) /\ Covers(u, g, k, v)
    BY DEF Under
  <2>2. k = l - 1
    BY <2>1 DEF Covers
  <2>3. Covers(u, g, l - 1, p)
    BY <2>1, <2>2 DEF Covers
  <2> QED BY <1>0, <1>1, <2>3, OnePlace
<1> QED BY <1>2, <1>3

-----------------------------------------------------------------------------
(* __pt_unmap: a turn of its loop.                                         *)

Calls == [m : Memory, pt : Frame, virt : Nat, size : Nat]

\* __pt_unmap on a table of level l runs the loop over the entries of the range.
LEMMA UnmapRuns ==
  ASSUME NEW l \in 1..LEVELS, NEW c \in Calls
  PROVE  Unmap[l][c] =
           Loop(UnmapTurn(c.pt, l, Unmap[l - 1]),
                [m |-> c.m, i |-> Index(c.virt, l), virt |-> c.virt, size |-> c.size],
                (Index(c.virt + c.size - 1, l) + 1) - Index(c.virt, l)).m
<1> DEFINE Go(below, k, d) ==
             Loop(UnmapTurn(d.pt, k, below),
                  [m |-> d.m, i |-> Index(d.virt, k), virt |-> d.virt, size |-> d.size],
                  (Index(d.virt + d.size - 1, k) + 1) - Index(d.virt, k)).m
           Is(a, n) == a = [k \in 0..n |-> [d \in Calls |-> IF k = 0 THEN d.m
                                                            ELSE Go(a[k - 1], k, d)]]
           T == {n \in Nat : ~\E a : Is(a, n)}
<1>1. T = {}
  <2>1. SUFFICES ASSUME T # {} PROVE FALSE
    OBVIOUS
  <2>2. T \in SUBSET Nat
    OBVIOUS
  <2> HIDE DEF T
  <2>3. PICK n \in T : \A k \in T : n <= k
    BY <2>1, <2>2, Least
  <2>4. n \in Nat /\ ~\E a : Is(a, n)
    BY <2>3 DEF T
  <2>5. CASE n = 0
    <3> DEFINE b == [k \in 0..n |-> [d \in Calls |-> d.m]]
    <3>1. \A k \in 0..n : k = 0
      BY <2>5
    <3>2. \A k \in 0..n : b[k] = [d \in Calls |-> IF k = 0 THEN d.m ELSE Go(b[k - 1], k, d)]
      BY <3>1
    <3>3. b = [k \in 0..n |-> b[k]]
      OBVIOUS
    <3> HIDE DEF b
    <3>4. b = [k \in 0..n |-> [d \in Calls |-> IF k = 0 THEN d.m ELSE Go(b[k - 1], k, d)]]
      BY <3>2, <3>3
    <3> QED BY <2>4, <3>4
  <2>6. CASE n # 0
    <3>1. n - 1 \in Nat /\ n - 1 \notin T
      BY <2>3, <2>4, <2>6
    <3>2. PICK a : Is(a, n - 1)
      BY <3>1 DEF T
    <3> DEFINE b == [k \in 0..n |-> IF k = n THEN [d \in Calls |-> Go(a[n - 1], n, d)] ELSE a[k]]
    <3>3. \A k \in 0..n : k # n =>
            a[k] = [d \in Calls |-> IF k = 0 THEN d.m ELSE Go(a[k - 1], k, d)]
      <4>1. \A k \in 0..n : k # n => k \in 0..n - 1
        BY <2>4
      <4> QED BY <3>2, <4>1
    <3>4. ASSUME NEW k \in 0..n
          PROVE  b[k] = [d \in Calls |-> IF k = 0 THEN d.m ELSE Go(b[k - 1], k, d)]
      <4>1. k # 0 => k - 1 \in 0..n /\ k - 1 # n
        BY <2>4
      <4>2. k # 0 => b[k - 1] = a[k - 1]
        BY <4>1
      <4>3. CASE k = n
        <5>1. b[k] = [d \in Calls |-> Go(a[n - 1], n, d)] /\ b[n - 1] = a[n - 1]
          BY <2>6, <4>2, <4>3
        <5> HIDE DEF b
        <5> QED BY <2>6, <4>3, <5>1
      <4>4. CASE k # n
        <5>1. b[k] = a[k]
          BY <4>4
        <5> HIDE DEF b
        <5>2. CASE k = 0
          BY <3>3, <4>4, <5>1, <5>2
        <5>3. CASE k # 0
          BY <3>3, <4>2, <4>4, <5>1, <5>3
        <5> QED BY <5>2, <5>3
      <4> QED BY <4>3, <4>4
    <3>5. b = [k \in 0..n |-> b[k]]
      OBVIOUS
    <3> HIDE DEF b
    <3>6. b = [k \in 0..n |-> [d \in Calls |-> IF k = 0 THEN d.m ELSE Go(b[k - 1], k, d)]]
      BY <3>4, <3>5
    <3> QED BY <2>4, <3>6
  <2> QED BY <2>5, <2>6
<1>2. \E a : Is(a, LEVELS)
  BY <1>1, Sizes
<1>3. Unmap = CHOOSE a : Is(a, LEVELS)
  BY DEF Unmap, Calls
<1>4. Is(Unmap, LEVELS)
  BY <1>2, <1>3
<1>5. l \in 0..LEVELS /\ l # 0
  BY Sizes
<1>6. Unmap[l] = [d \in Calls |-> IF l = 0 THEN d.m ELSE Go(Unmap[l - 1], l, d)]
  BY <1>4, <1>5
<1>7. Unmap[l][c] = Go(Unmap[l - 1], l, c)
  BY <1>5, <1>6
<1> QED BY <1>7

\* A multiple of a size is one of every smaller size.
LEMMA AlignedDown ==
  ASSUME NEW v \in Nat, NEW l \in 1..LEVELS + 1, v % Size(l) = 0
  PROVE  \A k \in 1..l : v % Size(k) = 0
<1>0. LEVELS \in Nat
  BY Sizes
<1> DEFINE T == {j \in Nat : j < l /\ v % Size(l - j) # 0}
<1>1. SUFFICES ASSUME T # {} PROVE FALSE
  <2>1. SUFFICES ASSUME NEW k \in 1..l PROVE v % Size(k) = 0
    OBVIOUS
  <2>2. l - k \in Nat /\ l - k < l /\ l - (l - k) = k
    BY <1>0
  <2> DEFINE j == l - k
  <2>3. j \notin T
    BY <1>1
  <2>4. v % Size(l - j) = 0
    BY <2>2, <2>3
  <2> QED BY <2>2, <2>4
<1>2. T \in SUBSET Nat
  OBVIOUS
<1> HIDE DEF T
<1>3. PICK j \in T : \A k \in T : j <= k
  BY <1>1, <1>2, Least
<1>4. j \in Nat /\ j < l /\ v % Size(l - j) # 0
  BY <1>3 DEF T
<1>5. j # 0
  BY <1>0, <1>4
<1>6. j - 1 \in Nat /\ j - 1 < l /\ j - 1 \notin T /\ l - j \in 1..LEVELS /\ (l - j) + 1 = l - (j - 1)
  BY <1>0, <1>3, <1>4, <1>5
<1> DEFINE k == l - j
<1>7. v % Size(k + 1) = 0 /\ k \in 1..LEVELS
  BY <1>6 DEF T
<1>8. v % Size(k) # 0
  BY <1>4
<1> HIDE DEF k
<1>9. /\ Size(k) \in Nat /\ Size(k) >= 1 /\ Index(v, k) \in 0..FAN - 1 /\ v % Size(k) \in 0..Size(k) - 1
      /\ v % Size(k + 1) = Index(v, k) * Size(k) + (v % Size(k))
  BY <1>7, Digits
<1> DEFINE i == Index(v, k)
           s == Size(k)
           a == v % Size(k)
<1>10. i \in Nat /\ s \in Nat /\ a \in Nat /\ 0 = i * s + a
  BY <1>7, <1>9, Sizes
<1> HIDE DEF i, s, a
<1>11. i * s \in Nat
  BY <1>10
<1>12. a = 0
  BY <1>10, <1>11
<1> QED BY <1>8, <1>12 DEF a

\* The next entry begins a size further on.
LEMMA NextAligned ==
  ASSUME NEW l \in 1..LEVELS, NEW v \in Nat, v % Size(l) = 0
  PROVE  /\ v + Size(l) \in Nat /\ (v + Size(l)) % Size(l) = 0
         /\ v = Num(v, l - 1) * Size(l)
<1> DEFINE s == Size(l)
           c == Num(v, l - 1)
<1>1. /\ s \in Nat /\ s >= 1 /\ v = c * s + (v % s)
      /\ \A n \in Nat, k \in 0..s - 1 : n * s + k \in Nat /\ (n * s + k) % s = k
  BY EntryRegions
<1>2. c \in Nat
  BY Numbers, Sizes
<1> HIDE DEF c
<1>3. v % s = 0
  OBVIOUS
<1> HIDE DEF s
<1>4. c * s \in Nat
  BY <1>1, <1>2
<1>5. v = c * s
  BY <1>1, <1>3, <1>4
<1>6. v + s = (c + 1) * s + 0 /\ c + 1 \in Nat /\ 0 \in 0..s - 1
  BY <1>1, <1>2, <1>5
<1>7. v + s \in Nat /\ (v + s) % s = 0
  BY <1>1, <1>6
<1> QED BY <1>5, <1>7 DEF s, c

\* In n the frames X of the tree u of m have been given back, and they were behind
\* tables of level l at most.
Takes(m, r, u, X, l, n) ==
  /\ n \in Memory /\ n.out = m.out /\ n.avail = m.avail \cup X
  /\ X \subseteq DOMAIN u /\ Tree(n.table, r, Rest(u, X))
  /\ \A f \in Frame : ~(f \in DOMAIN u /\ u[f].lvl \in 1..l) => n.table[f] = m.table[f]
  /\ \A f \in Frame, i \in Slot : n.table[f][i] = m.table[f][i] \/ n.table[f][i] = None

\* Nothing has been given back.
LEMMA TakesNone ==
  ASSUME NEW m \in Memory, NEW r, NEW u, NEW l, Tree(m.table, r, u)
  PROVE  Takes(m, r, u, {}, l, m)
<1>1. Rest(u, {}) = u
  BY DEF Rest, Tree, Places
<1>2. m.avail \cup {} = m.avail
  OBVIOUS
<1> QED BY <1>1, <1>2 DEF Takes

\* Frames are given back in two steps.
LEMMA TakesMore ==
  ASSUME NEW m, NEW n, NEW o, NEW r, NEW u, NEW X, NEW Y, NEW l, NEW k,
         LEVELS \in Nat, k \in Nat, l \in Nat, k <= l,
         \/ Takes(m, r, u, X, k, n) /\ Takes(n, r, Rest(u, X), Y, l, o)
         \/ Takes(m, r, u, X, l, n) /\ Takes(n, r, Rest(u, X), Y, k, o)
  PROVE  Takes(m, r, u, X \cup Y, l, o)
<1>0. 1..k \subseteq 1..l
  OBVIOUS
<1>1. Takes(m, r, u, X, l, n) /\ Takes(n, r, Rest(u, X), Y, l, o)
  BY <1>0 DEF Takes
<1>2. DOMAIN Rest(u, X) = DOMAIN u \ X /\ \A g \in DOMAIN u \ X : Rest(u, X)[g] = u[g]
  BY DEF Rest
<1>3. Rest(Rest(u, X), Y) = Rest(u, X \cup Y)
  BY <1>2 DEF Rest
<1>4. o \in Memory /\ o.out = m.out /\ o.avail = m.avail \cup (X \cup Y)
      /\ X \cup Y \subseteq DOMAIN u /\ Tree(o.table, r, Rest(u, X \cup Y))
  BY <1>1, <1>2, <1>3 DEF Takes
<1>5. \A f \in Frame : ~(f \in DOMAIN u /\ u[f].lvl \in 1..l) => o.table[f] = m.table[f]
  BY <1>1, <1>2 DEF Takes
<1>6. \A f \in Frame, i \in Slot : o.table[f][i] = m.table[f][i] \/ o.table[f][i] = None
  BY <1>1 DEF Takes
<1> QED BY <1>4, <1>5, <1>6 DEF Takes

\* An entry and the free frames change.
Alter(m, X, pt, i, e) == [m EXCEPT !.avail = X, !.table[pt][i] = e]

Altered(m, X, pt, i, e, n) ==
  /\ n \in Memory /\ n.out = m.out /\ n.avail = X
  /\ \A g \in Frame, j \in Slot :
       n.table[g][j] = IF g = pt /\ j = i THEN e ELSE m.table[g][j]
  /\ \A g \in Frame : g # pt => n.table[g] = m.table[g]

\* What Alter changes, and that nothing else does.
LEMMA AlterIs ==
  ASSUME NEW m \in Memory, NEW pt \in Frame, NEW i \in Slot, NEW e \in AnyEntry,
         NEW X, X \subseteq 0..FRAMES
  PROVE  Altered(m, X, pt, i, e, Alter(m, X, pt, i, e))
<1> DEFINE n == Alter(m, X, pt, i, e)
           old == m.table
           row == [old[pt] EXCEPT ![i] = e]
           tab == [old EXCEPT ![pt] = row]
<1>1. m \in [table : [Frame -> [Slot -> AnyEntry]], avail : SUBSET (0..FRAMES),
           out : {"ok", "fail", "hang"}]
  BY DEF Memory
<1>2. n.table = tab /\ n.avail = X /\ n.out = m.out /\ n = [m EXCEPT !.avail = X, !.table = tab]
  BY <1>1 DEF Alter
<1>a. old \in [Frame -> [Slot -> AnyEntry]]
  BY <1>1
<1> HIDE DEF old, n
<1>3. row \in [Slot -> AnyEntry] /\ \A j \in Slot : row[j] = IF j = i THEN e ELSE old[pt][j]
  BY <1>a
<1> HIDE DEF row
<1>4. /\ tab \in [Frame -> [Slot -> AnyEntry]]
      /\ \A g \in Frame : tab[g] = IF g = pt THEN row ELSE old[g]
  BY <1>a, <1>3
<1> HIDE DEF tab
<1>5. n.table = tab /\ n.avail = X /\ n.out = m.out
  BY <1>2
<1>6. n \in Memory
  BY <1>1, <1>2, <1>4 DEF Memory
<1>7. \A g \in Frame, j \in Slot : n.table[g][j] = IF g = pt /\ j = i THEN e ELSE old[g][j]
  BY <1>3, <1>4, <1>5
<1>8. \A g \in Frame : g # pt => n.table[g] = old[g]
  BY <1>4, <1>5
<1> QED BY <1>5, <1>6, <1>7, <1>8 DEF old, n, Altered

\* Clearing an entry gives back what is behind it (__pt_unmap, paging.c).
LEMMA TakesEntry ==
  ASSUME NEW m \in Memory, NEW r, NEW u, Tree(m.table, r, u),
         NEW pt \in DOMAIN u, NEW l \in 1..LEVELS, NEW p \in Nat, Covers(u, pt, l, p)
  PROVE  Takes(m, r, u, Under(u, l, p), l,
               Alter(m, m.avail \cup Under(u, l, p), pt, Index(p, l), None))
<1> DEFINE S == Under(u, l, p)
           i == Index(p, l)
           X == m.avail \cup S
           n == Alter(m, X, pt, i, None)
<1>1. Places(u) /\ FRAMES \in Nat /\ i \in Slot
  BY Numbers, Sizes DEF Tree
<1>2. S \subseteq DOMAIN u /\ DOMAIN u \subseteq Frame /\ pt \in Frame
  BY <1>1 DEF Under, Places
<1>3. X \subseteq 0..FRAMES
  BY <1>1, <1>2 DEF Memory, Frame
<1>4. None \in AnyEntry
  BY <1>1 DEF None, AnyEntry
<1> HIDE DEF i, X
<1>6. /\ n \in Memory /\ n.out = m.out /\ n.avail = X
      /\ \A g \in Frame, j \in Slot :
           n.table[g][j] = IF g = pt /\ j = i THEN None ELSE m.table[g][j]
      /\ \A g \in Frame : g # pt => n.table[g] = m.table[g]
  <2>1. Altered(m, X, pt, i, None, n)
    BY <1>1, <1>2, <1>3, <1>4, AlterIs
  <2> HIDE DEF n
  <2> QED BY <2>1 DEF Altered
<1> HIDE DEF n
<1>7. Tree(n.table, r, Rest(u, S))
  <2> DEFINE tab == n.table
             old == m.table
  <2>1. \A g \in DOMAIN u \ Under(u, l, p), j \in Slot :
          tab[g][j] = IF g = pt /\ j = Index(p, l) THEN None ELSE old[g][j]
    BY <1>2, <1>6 DEF i
  <2>3. Tree(old, r, u)
    OBVIOUS
  <2> HIDE DEF tab, old
  <2>4. Tree(tab, r, Rest(u, Under(u, l, p)))
    BY <2>1, <2>3, Prune
  <2> QED BY <2>4 DEF tab
<1>8. u[pt].lvl \in 1..l
  BY DEF Covers
<1> QED BY <1>2, <1>6, <1>7, <1>8 DEF Takes, X, n, i

\* Where page v is not the first one of an entry, there is a table behind that entry.
Reached(u, l, v) ==
  \A k \in 2..l : v % Size(k) # 0 => \E g \in DOMAIN u : Covers(u, g, k - 1, v)

\* What __pt_unmap does on a table of level l, from page v of it on up to the end of
\* the k-th entry.
Clears(l, below) ==
  \A c \in Calls : \A r, u : \A v \in Nat, k \in 1..FAN :
    /\ Tree(c.m.table, r, u) /\ Covers(u, c.pt, l, v) /\ Reached(u, l, v)
    /\ c.virt % Size(l + 1) = v % Size(l + 1)
    /\ v % Size(l + 1) < k * Size(l) /\ c.size = k * Size(l) - (v % Size(l + 1))
    => Takes(c.m, r, u, Gone(u, l, v, Num(v, l) * Size(l + 1) + k * Size(l)), l, below[c])

States == [m : Memory, i : Slot, virt : Nat, size : Nat]

\* What a turn makes of a state.
Turned(pt, l, below, s, t) ==
  LET e       == s.m.table[pt][s.i]
      tounmap == Smaller(s.size, Size(l) - (s.virt % Size(l)))
      c       == [m |-> s.m, pt |-> e.phys, virt |-> s.virt, size |-> tounmap]
  IN /\ t.i = s.i + 1 /\ t = [m |-> t.m, i |-> t.i, virt |-> t.virt, size |-> t.size]
     /\ ~InnerEntry(e, l) => t.virt = s.virt + 0 /\ t.size = s.size - 0
     /\ ~Present(e) => t.m = s.m
     /\ LeafEntry(e, l) =>
          t.m = Alter(s.m, s.m.avail \cup Run(e.phys, Size(l)), pt, s.i, None)
     /\ InnerEntry(e, l) =>
          /\ t.virt = s.virt + tounmap /\ t.size = s.size - tounmap
          /\ t.m = Release(below[c], pt, s.i, tounmap, l)

\* UnmapTurn is what Turned says.
LEMMA TurnIs ==
  ASSUME NEW l \in 1..LEVELS, NEW pt \in Frame, NEW below, NEW s \in States
  PROVE  Turned(pt, l, below, s, UnmapTurn(pt, l, below)[s])
<1> DEFINE t       == UnmapTurn(pt, l, below)[s]
           e       == s.m.table[pt][s.i]
           tounmap == Smaller(s.size, Size(l) - (s.virt % Size(l)))
           c       == [m |-> s.m, pt |-> e.phys, virt |-> s.virt, size |-> tounmap]
           Past(n, got) == [m |-> n, i |-> s.i + 1, virt |-> s.virt + got,
                             size |-> s.size - got]
<1>1. t = IF ~Present(e) THEN Past(s.m, 0)
          ELSE IF l = 1 \/ e.large
          THEN Past(SetEntry(GiveBack(s.m, e.phys, Size(l)), pt, s.i, None), 0)
          ELSE Past(Release(below[c], pt, s.i, tounmap, l), tounmap)
  BY DEF UnmapTurn, States
<1> HIDE DEF t, c, tounmap, e, Turned
<1>2. CASE ~Present(e)
  <2>1. t = Past(s.m, 0)
    BY <1>1, <1>2
  <2>2. ~LeafEntry(e, l) /\ ~InnerEntry(e, l)
    BY <1>2 DEF LeafEntry, InnerEntry
  <2> QED BY <1>2, <2>1, <2>2 DEF t, c, tounmap, e, Turned
<1>3. CASE LeafEntry(e, l)
  <2>1. t = Past(SetEntry(GiveBack(s.m, e.phys, Size(l)), pt, s.i, None), 0)
    BY <1>1, <1>3 DEF LeafEntry
  <2>2. Present(e) /\ ~InnerEntry(e, l)
    BY <1>3 DEF LeafEntry, InnerEntry
  <2>3. SetEntry(GiveBack(s.m, e.phys, Size(l)), pt, s.i, None)
          = Alter(s.m, s.m.avail \cup Run(e.phys, Size(l)), pt, s.i, None)
    BY DEF SetEntry, GiveBack, Alter, States, Memory
  <2> QED BY <1>3, <2>1, <2>2, <2>3 DEF t, c, tounmap, e, Turned
<1>4. CASE InnerEntry(e, l)
  <2>1. t = Past(Release(below[c], pt, s.i, tounmap, l), tounmap)
    BY <1>1, <1>4 DEF InnerEntry
  <2>2. Present(e) /\ ~LeafEntry(e, l)
    BY <1>4 DEF LeafEntry, InnerEntry
  <2> QED BY <1>4, <2>1, <2>2 DEF t, c, tounmap, e, Turned
<1> QED BY <1>2, <1>3, <1>4 DEF LeafEntry, InnerEntry

\* A turn on an entry from its first page on.
LEMMA TurnAligned ==
  ASSUME NEW l \in 1..LEVELS, NEW s \in States, NEW r, NEW u, Tree(s.m.table, r, u),
         NEW pt \in DOMAIN u, NEW p \in Nat, Covers(u, pt, l, p), p % Size(l) = 0,
         NEW below, l # 1 => Clears(l - 1, below),
         s.i = Index(p, l), s.virt % Size(l) = 0, s.size >= Size(l)
  PROVE  LET t == UnmapTurn(pt, l, below)[s]
         IN /\ Takes(s.m, r, u, Gone(u, l, p, p + Size(l)), l, t.m)
            /\ t.virt \in Nat /\ t.virt % Size(l) = 0
            /\ t.size \in Nat /\ t.size >= s.size - Size(l)
<1> DEFINE t == UnmapTurn(pt, l, below)[s]
           m == s.m
           i == s.i
           e == m.table[pt][i]
           z == Size(l)
           S == Gone(u, l, p, p + z)
<1>0. /\ LEVELS \in Nat /\ FRAMES \in Nat /\ l \in Nat /\ z \in Nat /\ z >= 1 /\ FAN \in Nat
      /\ FAN >= 2 /\ l \in 1..LEVELS + 1
  BY Sizes, EntryRegions
<1>1. /\ Places(u) /\ DOMAIN u \subseteq Frame /\ pt \in Frame /\ m \in Memory /\ i \in Slot
      /\ s.virt \in Nat /\ s.size \in Nat
  BY DEF Tree, Places, States
<1>2. e \in AnyEntry
  BY <1>1 DEF Memory
<1>t. Turned(pt, l, below, s, t)
  BY <1>1, TurnIs
<1>3. S = Under(u, l, p)
  BY <1>1, UnderGone
<1>4. s.virt + 0 \in Nat /\ (s.virt + 0) % z = 0 /\ s.size - 0 \in Nat /\ s.size - 0 >= s.size - z
  <2>1. s.virt + 0 = s.virt /\ s.size - 0 = s.size
    BY <1>1
  <2> QED BY <1>0, <1>1, <2>1
<1>5. CASE ~Present(e)
  <2>1. S = {}
    BY <1>3, <1>5, UnderAbsent
  <2>2. t.m = m /\ t.virt = s.virt + 0 /\ t.size = s.size - 0
    BY <1>t, <1>5 DEF Turned, InnerEntry
  <2> HIDE DEF t, S, m
  <2>3. Takes(m, r, u, S, l, t.m)
    BY <1>1, <2>1, <2>2, TakesNone DEF m
  <2> QED BY <1>4, <2>2, <2>3 DEF t, S, m
<1>6. CASE LeafEntry(e, l)
  <2>1. e.phys \in Nat
    BY <1>0, <1>2 DEF AnyEntry
  <2>2. S = Run(e.phys, z)
    BY <1>3, <1>6, <2>1, UnderLeaf
  <2>3. /\ t.m = Alter(m, m.avail \cup Run(e.phys, z), pt, i, None)
        /\ t.virt = s.virt + 0 /\ t.size = s.size - 0
    BY <1>t, <1>6 DEF Turned, InnerEntry, LeafEntry
  <2>4. Takes(m, r, u, Under(u, l, p), l,
               Alter(m, m.avail \cup Under(u, l, p), pt, Index(p, l), None))
    BY <1>1, TakesEntry
  <2> HIDE DEF t, S
  <2>5. Takes(m, r, u, S, l, t.m)
    BY <1>3, <2>2, <2>3, <2>4
  <2> QED BY <1>4, <2>3, <2>5 DEF t, S
<1>7. CASE InnerEntry(e, l)
  <2> DEFINE tounmap == Smaller(s.size, z - (s.virt % z))
             c == [m |-> m, pt |-> e.phys, virt |-> s.virt, size |-> tounmap]
             n == below[c]
  <2>1. tounmap = z
    BY <1>0, <1>1 DEF Smaller
  <2>2. /\ t.m = Release(n, pt, i, tounmap, l)
        /\ t.virt = s.virt + tounmap /\ t.size = s.size - tounmap
    BY <1>t, <1>7 DEF Turned
  <2> HIDE DEF tounmap, t
  <2>3. /\ t.virt \in Nat /\ t.virt % z = 0 /\ t.size \in Nat /\ t.size >= s.size - z
    BY <1>0, <1>1, <2>1, <2>2, NextAligned
  <2>4. l - 1 \in 1..LEVELS /\ (l - 1) + 1 = l /\ l # 1 /\ FAN \in 1..FAN
    BY <1>0, <1>7 DEF InnerEntry
  <2>5. Covers(u, e.phys, l - 1, p)
    BY <1>7 DEF Tree, Downward
  <2>6. c \in Calls /\ c.m = m /\ c.pt = e.phys /\ c.virt = s.virt /\ c.size = z
    BY <1>0, <1>1, <2>1, <2>5 DEF Calls, Covers
  <2> DEFINE y == Size(l - 1)
  <2>7. y \in Nat /\ y >= 1 /\ z = FAN * y
    BY <2>4, Digits
  <2>8. Reached(u, l - 1, p)
    <3>1. \A k \in 1..l : p % Size(k) = 0
      BY <1>0, AlignedDown
    <3> QED BY <1>0, <3>1 DEF Reached
  <2>9. p = Num(p, l - 1) * z
    BY NextAligned
  <2> DEFINE X == Gone(u, l - 1, p, p + z)
  <2> HIDE DEF n, c
  <2>10. Takes(m, r, u, X, l - 1, n)
    <3>1. c.virt % Size((l - 1) + 1) = p % Size((l - 1) + 1)
      BY <2>4, <2>6
    <3>2. p % Size((l - 1) + 1) < FAN * y /\ c.size = FAN * y - (p % Size((l - 1) + 1))
      <4>1. p % Size((l - 1) + 1) = 0
        BY <2>4
      <4> HIDE DEF y, z
      <4> QED BY <1>0, <2>6, <2>7, <4>1
    <3>3. /\ Tree(c.m.table, r, u) /\ Covers(u, c.pt, l - 1, p)
      BY <2>5, <2>6
    <3>4. Takes(c.m, r, u, Gone(u, l - 1, p, Num(p, l - 1) * Size((l - 1) + 1) + FAN * y),
                l - 1, below[c])
      BY <2>4, <2>6, <2>8, <3>1, <3>2, <3>3 DEF Clears
    <3>5. Num(p, l - 1) * Size((l - 1) + 1) + FAN * y = p + z
      BY <2>4, <2>7, <2>9
    <3> QED BY <2>6, <3>4, <3>5 DEF n
  <2> DEFINE w == Rest(u, X)
  <2>11. /\ n \in Memory /\ Tree(n.table, r, w) /\ n.table[pt] = m.table[pt]
    <3>1. ~(u[pt].lvl \in 1..l - 1)
      BY <1>0 DEF Covers
    <3> QED BY <1>1, <2>10, <3>1 DEF Takes
  <2>12. DOMAIN w = DOMAIN u \ X /\ \A g \in DOMAIN w : w[g] = u[g] /\ First(w, g) = First(u, g)
    BY DEF Rest, First
  <2>13. pt \in DOMAIN w /\ Covers(w, pt, l, p)
    <3>1. ~(u[pt].lvl < l - 1)
      BY <1>0 DEF Covers
    <3> QED BY <2>12, <3>1 DEF Gone, Covers
  <2> DEFINE Y == Under(w, l, p)
  <2>14. Places(w) /\ Y = Gone(w, l, p, p + z)
    <3>1. Places(w)
      BY <2>11 DEF Tree
    <3> HIDE DEF w
    <3> QED BY <3>1, UnderGone
  <2>15. X \cup Y = S
    <3>1. X \subseteq S
      BY <1>0, <1>1 DEF Gone, Places
    <3>2. Y \subseteq S
      <4> HIDE DEF w
      <4> QED BY <2>12, <2>14 DEF Gone
    <3>3. \A g \in S : g \notin X => g \in Y
      <4> HIDE DEF w, X
      <4> QED BY <2>12, <2>14 DEF Gone
    <3> QED BY <3>1, <3>2, <3>3
  <2>16. \A g \in DOMAIN w : g \in Y => w[g].lvl = l - 1
    <3>1. \A g \in DOMAIN u : u[g].lvl \in Nat
      BY <1>1 DEF Places
    <3> HIDE DEF w
    <3> QED BY <1>0, <2>12, <2>14, <3>1 DEF Gone
  <2> HIDE DEF w, X
  <2>17. Y = {n.table[pt][i].phys}
    BY <1>7, <2>11, <2>13, <2>16, UnderInner
  <2>18. t.m = Alter(n, n.avail \cup Y, pt, i, None)
    <3> DEFINE f == n.table[pt][i].phys
    <3>1. f \in Nat
      BY <1>0, <1>2, <2>11 DEF AnyEntry
    <3>2. Run(f, 1) = {f}
      <4> HIDE DEF f
      <4>1. f + 1 - 1 = f
        BY <3>1
      <4> QED BY <3>1, <4>1 DEF Run
    <3>3. t.m = SetEntry(GiveBack(n, f, 1), pt, i, None)
      BY <2>1, <2>2 DEF Release
    <3>4. SetEntry(GiveBack(n, f, 1), pt, i, None) = Alter(n, n.avail \cup Run(f, 1), pt, i, None)
      <4> HIDE DEF f
      <4> QED BY <2>11 DEF SetEntry, GiveBack, Alter, Memory
    <3> QED BY <2>17, <3>2, <3>3, <3>4
  <2>19. Takes(n, r, w, Y, l, t.m)
    <3>1. Takes(n, r, w, Under(w, l, p), l,
                 Alter(n, n.avail \cup Under(w, l, p), pt, Index(p, l), None))
      BY <2>11, <2>13, TakesEntry
    <3> QED BY <2>18, <3>1
  <2>20. Takes(m, r, u, X \cup Y, l, t.m)
    <3>1. l - 1 \in Nat /\ l - 1 <= l
      BY <1>0
    <3>2. Takes(n, r, Rest(u, X), Y, l, t.m)
      BY <2>19 DEF w
    <3> HIDE DEF Y
    <3> QED BY <1>0, <2>10, <3>1, <3>2, TakesMore
  <2> QED BY <2>3, <2>15, <2>20 DEF t
<1> QED BY <1>5, <1>6, <1>7 DEF LeafEntry, InnerEntry

\* The walk comes to page v in the middle of the entry of a table of level l, and what a
\* turn there makes of the state s.
Midway(l, s, v) ==
  /\ v % Size(l) # 0 /\ s.virt % Size(l) = v % Size(l)
  /\ s.size >= Size(l) - (v % Size(l))

MidwayPast(l, r, u, v, s, t) ==
  /\ Takes(s.m, r, u, Gone(u, l, v, Num(v, l - 1) * Size(l) + Size(l)), l, t.m)
  /\ t.virt \in Nat /\ t.virt % Size(l) = 0
  /\ t.size \in Int /\ t.size = s.size - (Size(l) - (v % Size(l)))

\* The first turn, on an entry that is unmapped from a page in its middle on.
LEMMA TurnMidway ==
  ASSUME NEW l \in 1..LEVELS, NEW s \in States, NEW r, NEW u, Tree(s.m.table, r, u),
         NEW pt \in DOMAIN u, NEW v \in Nat, Covers(u, pt, l, v), Reached(u, l, v),
         NEW below, l # 1 => Clears(l - 1, below), s.i = Index(v, l), Midway(l, s, v)
  PROVE  MidwayPast(l, r, u, v, s, UnmapTurn(pt, l, below)[s])
<1> DEFINE t == UnmapTurn(pt, l, below)[s]
           m == s.m
           i == s.i
           e == m.table[pt][i]
           z == Size(l)
           o == v % z
           q == Num(v, l - 1) * z + z
<1>h. v % Size(l) # 0 /\ s.virt % Size(l) = v % Size(l) /\ s.size >= Size(l) - (v % Size(l))
  BY DEF Midway
<1>0. /\ LEVELS \in Nat /\ FRAMES \in Nat /\ l \in Nat /\ z \in Nat /\ z >= 1 /\ FAN \in Nat
      /\ FAN >= 2 /\ Size(1) = 1
      /\ v = Num(v, l - 1) * z + o /\ o \in 0..z - 1 /\ o # 0 /\ Num(v, l - 1) * z \in Nat
      /\ Num(v, l - 1) \in Nat
  <2>1. Num(v, l - 1) \in Nat
    BY Sizes, Numbers
  <2> QED BY <1>h, <2>1, Sizes, EntryRegions
<1>1. /\ Places(u) /\ DOMAIN u \subseteq Frame /\ pt \in Frame /\ m \in Memory /\ i \in Slot
      /\ s.virt \in Nat /\ s.size \in Nat
  BY DEF Tree, Places, States
<1>2. l \in 2..LEVELS /\ l - 1 \in 1..LEVELS /\ (l - 1) + 1 = l /\ l # 1
      /\ l - 1 \in 1..LEVELS - 1
  <2>1. ASSUME l = 1 PROVE FALSE
    BY <1>0, <2>1
  <2> QED BY <1>0, <2>1
<1>3. InnerEntry(e, l)
  <2>1. PICK g \in DOMAIN u : Covers(u, g, l - 1, v)
    <3>1. l \in 2..l
      BY <1>2
    <3> QED BY <1>h, <3>1 DEF Reached
  <2>2. PICK h \in DOMAIN u : Covers(u, h, l, v) /\ InnerEntry(m.table[h][Index(v, l)], l)
    <3>1. \E h \in DOMAIN u :
             /\ Covers(u, h, (l - 1) + 1, v)
             /\ InnerEntry(m.table[h][Index(v, (l - 1) + 1)], (l - 1) + 1)
      BY <1>2, <2>1 DEF Tree, Upward
    <3> QED BY <1>2, <3>1
  <2>3. h = pt
    BY <1>1, <2>2, OnePlace
  <2> QED BY <2>2, <2>3
<1>t. Turned(pt, l, below, s, t)
  BY <1>1, TurnIs
<1> DEFINE tounmap == Smaller(s.size, z - (s.virt % z))
           c == [m |-> m, pt |-> e.phys, virt |-> s.virt, size |-> tounmap]
           n == below[c]
<1>4. tounmap = z - o
  BY <1>h, <1>0, <1>1 DEF Smaller
<1>5. /\ t.m = Release(n, pt, i, tounmap, l)
      /\ t.virt = s.virt + tounmap /\ t.size = s.size - tounmap
  BY <1>t, <1>3 DEF Turned
<1> HIDE DEF tounmap, t
<1>6. t.m = n
  <2>1. tounmap # z
    <3> HIDE DEF z, o
    <3> QED BY <1>0, <1>4
  <2> QED BY <1>5, <2>1 DEF Release
<1>7. t.virt \in Nat /\ t.virt % z = 0 /\ t.size = s.size - (z - o) /\ t.size \in Int
  <2>1. /\ s.virt = Num(s.virt, l - 1) * z + o /\ Num(s.virt, l - 1) \in Nat
        /\ \A a \in Nat, k \in 0..z - 1 : a * z + k \in Nat /\ (a * z + k) % z = k
        /\ \A a \in Nat : a * z \in Nat
    <3>1. l - 1 \in 0..LEVELS
      BY <1>0
    <3>2. Num(s.virt, l - 1) \in Nat
      BY <1>1, <3>1, Numbers
    <3>3. \A a \in Nat, k \in 0..z - 1 : a * z + k \in Nat /\ (a * z + k) % z = k
      BY EntryRegions
    <3>4. \A a \in Nat : a * z \in Nat
      BY EntryRegions
    <3>5. s.virt = Num(s.virt, l - 1) * z + (s.virt % z)
      BY <1>1, EntryRegions
    <3> QED BY <1>h, <3>2, <3>3, <3>4, <3>5
  <2> DEFINE a == Num(s.virt, l - 1)
  <2> HIDE DEF a, z, o
  <2>2. s.virt = a * z + o /\ a \in Nat /\ a + 1 \in Nat
    BY <2>1 DEF a
  <2>3. s.virt + (z - o) = (a + 1) * z + 0
    BY <1>0, <2>1, <2>2
  <2>4. 0 \in 0..z - 1
    BY <1>0
  <2>5. (a + 1) * z + 0 \in Nat /\ ((a + 1) * z + 0) % z = 0
    BY <2>1, <2>2, <2>4
  <2> QED BY <1>0, <1>1, <1>4, <1>5, <2>3, <2>5
<1>8. Covers(u, e.phys, l - 1, v)
  BY <1>3 DEF Tree, Downward
<1>9. c \in Calls /\ c.m = m /\ c.pt = e.phys /\ c.virt = s.virt /\ c.size = z - o
  <2>1. z - o \in Nat
    <3> HIDE DEF z, o
    <3> QED BY <1>0
  <2> QED BY <1>1, <1>4, <1>8, <2>1 DEF Calls, Covers
<1> DEFINE y == Size(l - 1)
<1>10. y \in Nat /\ y >= 1 /\ z = FAN * y
  BY <1>2, Digits
<1>11. Reached(u, l - 1, v)
  BY <1>0 DEF Reached
<1> HIDE DEF n, c
<1>12. Takes(m, r, u, Gone(u, l - 1, v, q), l - 1, n)
  <2>1. c.virt % Size((l - 1) + 1) = v % Size((l - 1) + 1)
    BY <1>h, <1>2, <1>9
  <2>2. v % Size((l - 1) + 1) < FAN * y /\ c.size = FAN * y - (v % Size((l - 1) + 1))
    <3>1. v % Size((l - 1) + 1) = o
      BY <1>2
    <3> HIDE DEF y, z, o
    <3> QED BY <1>0, <1>9, <1>10, <3>1
  <2>3. /\ Tree(c.m.table, r, u) /\ Covers(u, c.pt, l - 1, v)
    BY <1>8, <1>9
  <2>4. FAN \in 1..FAN
    BY <1>0
  <2>5. Takes(c.m, r, u, Gone(u, l - 1, v, Num(v, l - 1) * Size((l - 1) + 1) + FAN * y),
              l - 1, below[c])
    BY <1>2, <1>9, <1>11, <2>1, <2>2, <2>3, <2>4 DEF Clears
  <2>6. Num(v, l - 1) * Size((l - 1) + 1) + FAN * y = q
    BY <1>2, <1>10
  <2> QED BY <1>9, <2>5, <2>6 DEF n
<1>13. Gone(u, l - 1, v, q) = Gone(u, l, v, q)
  <2>1. SUFFICES ASSUME NEW g \in DOMAIN u, u[g].lvl = l - 1, v <= First(u, g), First(u, g) < q
                 PROVE  FALSE
    <3>1. \A g \in DOMAIN u : u[g].lvl \in Nat
      BY <1>1 DEF Places
    <3>2. \A g \in DOMAIN u : u[g].lvl < l - 1 => u[g].lvl < l
      BY <1>0, <3>1
    <3>3. \A g \in DOMAIN u : u[g].lvl < l => u[g].lvl < l - 1 \/ u[g].lvl = l - 1
      BY <1>0, <3>1
    <3> QED BY <2>1, <3>2, <3>3 DEF Gone
  <2> DEFINE f == First(u, g)
             a == Num(v, l - 1)
             k == f - a * z
  <2>2. f \in Nat /\ f % z = 0
    BY <1>1, <1>2, <2>1, FirstPage
  <2>3. \A b \in Nat, j \in 0..z - 1 : (b * z + j) % z = j
    BY EntryRegions
  <2> HIDE DEF f, z, o
  <2>4. a \in Nat /\ a * z \in Nat /\ v = a * z + o /\ f < a * z + z /\ v <= f
    BY <1>0, <2>1 DEF f
  <2> HIDE DEF a
  <2>5. k \in 0..z - 1 /\ k # 0 /\ f = a * z + k
    BY <1>0, <2>2, <2>4
  <2> HIDE DEF k
  <2>6. f % z = k
    BY <2>3, <2>4, <2>5
  <2> QED BY <2>2, <2>5, <2>6
<1>14. Takes(m, r, u, Gone(u, l, v, q), l, t.m)
  <2>1. 1..l - 1 \subseteq 1..l
    BY <1>0
  <2> QED BY <1>6, <1>12, <1>13, <2>1 DEF Takes
<1> QED BY <1>h, <1>7, <1>14 DEF t, MidwayPast

\* The first page of an entry.
LEMMA EntryPage ==
  ASSUME NEW l \in 1..LEVELS, NEW n \in Nat, NEW i \in 0..FAN - 1
  PROVE  /\ n * Size(l + 1) + i * Size(l) \in Nat
         /\ Num(n * Size(l + 1) + i * Size(l), l) = n
         /\ Index(n * Size(l + 1) + i * Size(l), l) = i
         /\ (n * Size(l + 1) + i * Size(l)) % Size(l) = 0
<1> DEFINE s == Size(l)
           z == Size(l + 1)
           k == i * s
           p == n * z + k
<1>1. /\ s \in Nat /\ s >= 1 /\ z \in Nat /\ z = FAN * s /\ FAN \in Nat
  BY Digits, Sizes
<1>2. \A a \in Nat, b \in 0..z - 1 : a * z + b \in Nat /\ Num(a * z + b, l) = a /\ (a * z + b) % z = b
  <2>1. l \in 0..LEVELS
    BY Sizes
  <2> QED BY <2>1, Regions
<1>3. \A v \in Nat, j \in 0..FAN - 1, b \in 0..s - 1 :
        v % z = j * s + b => Index(v, l) = j /\ v % s = b
  BY Digits
<1> HIDE DEF s, z
<1>4. k \in 0..z - 1
  <2>1. i + 1 <= FAN /\ i \in Nat
    BY <1>1
  <2>2. (i + 1) * s <= FAN * s /\ (i + 1) * s = i * s + s /\ i * s \in Nat
    BY <1>1, <2>1
  <2> QED BY <1>1, <2>2
<1>5. k = i * s + 0 /\ 0 \in 0..s - 1
  BY <1>1, <1>4
<1> HIDE DEF k
<1>6. p \in Nat /\ Num(p, l) = n /\ p % z = k
  BY <1>2, <1>4
<1> HIDE DEF p
<1>7. Index(p, l) = i /\ p % s = 0
  BY <1>3, <1>5, <1>6
<1> QED BY <1>6, <1>7 DEF p, k, s, z

\* So many entries are the entries before one and the entries from it on.
LEMMA Apiece ==
  ASSUME NEW i \in Int, NEW j \in Int, NEW z \in Int
  PROVE  i * z = j * z + (i - j) * z
OBVIOUS

\* __pt_unmap on a table, from that on the tables of the next level.
LEMMA LevelClears ==
  ASSUME NEW l \in 1..LEVELS, l # 1 => Clears(l - 1, Unmap[l - 1])
  PROVE  Clears(l, Unmap[l])
<1>1. SUFFICES ASSUME NEW c \in Calls, NEW r, NEW u, NEW v \in Nat, NEW K \in 1..FAN,
                      Tree(c.m.table, r, u), Covers(u, c.pt, l, v), Reached(u, l, v),
                      c.virt % Size(l + 1) = v % Size(l + 1),
                      v % Size(l + 1) < K * Size(l),
                      c.size = K * Size(l) - (v % Size(l + 1))
               PROVE  Takes(c.m, r, u, Gone(u, l, v, Num(v, l) * Size(l + 1) + K * Size(l)),
                            l, Unmap[l][c])
  BY DEF Clears
<1> DEFINE z == Size(l)
           y == Size(l + 1)
           b == Num(v, l) * y
           from == Index(v, l)
           o == v % z
           pt == c.pt
           turn == UnmapTurn(pt, l, Unmap[l - 1])
           P(i) == b + i * z
           n == K - from
           s0 == [m |-> c.m, i |-> from, virt |-> c.virt, size |-> c.size]
           Good(s) == /\ s.i \in 0..FAN /\ s.m \in Memory /\ s.virt \in Nat /\ s.size \in Nat
                      /\ s.virt % z = 0 /\ s.size >= (K - s.i) * z
                      /\ Takes(c.m, r, u, Gone(u, l, v, P(s.i)), l, s.m)
           I == [k \in 0..n |-> IF k = 0 THEN {s0}
                                ELSE {s \in [m : Memory, i : 0..FAN, virt : Nat, size : Nat] :
                                        s.i = from + k /\ Good(s)}]
<1>2. /\ LEVELS \in Nat /\ l \in Nat /\ FAN \in Nat /\ FAN >= 2 /\ l \in 0..LEVELS
      /\ z \in Nat /\ z >= 1 /\ y \in Nat /\ y = FAN * z /\ K \in Nat /\ K >= 1 /\ K <= FAN
  <2>1. LEVELS \in Nat /\ FAN \in Nat /\ FAN >= 2
    BY Sizes
  <2>2. z \in Nat /\ z >= 1 /\ y \in Nat /\ y = FAN * z
    BY Digits
  <2> HIDE DEF z, y
  <2>3. l \in Nat /\ l \in 0..LEVELS
    BY <2>1
  <2>4. K \in Nat /\ K >= 1 /\ K <= FAN
    BY <2>1
  <2> QED BY <2>1, <2>2, <2>3, <2>4
<1>a. LEVELS \in Nat /\ l \in Nat /\ FAN \in Nat /\ FAN >= 2 /\ K \in Nat /\ K >= 1 /\ K <= FAN
  BY <1>2
<1>b. z \in Nat /\ z >= 1 /\ \A d \in Int : (d + 1) * z = d * z + z
  <2>1. z \in Nat /\ z >= 1
    BY <1>2
  <2> HIDE DEF z
  <2> QED BY <2>1
<1>3. /\ Places(u) /\ DOMAIN u \subseteq Frame /\ pt \in DOMAIN u /\ pt \in Frame
      /\ c.m \in Memory /\ c.virt \in Nat /\ c.size \in Nat /\ u[pt].lvl = l
  <2>1. Places(u)
    BY <1>1 DEF Tree
  <2>2. pt \in DOMAIN u /\ u[pt].lvl = l
    BY <1>1 DEF Covers
  <2>3. DOMAIN u \subseteq Frame
    BY <2>1 DEF Places
  <2>4. pt \in Frame /\ c.m \in Memory /\ c.virt \in Nat /\ c.size \in Nat
    BY DEF Calls
  <2> QED BY <2>1, <2>2, <2>3, <2>4
<1>4. /\ from \in 0..FAN - 1 /\ o \in 0..z - 1 /\ v % y = from * z + o /\ v % y \in 0..y - 1
  BY Digits
<1>5. Index(c.virt, l) = from /\ c.virt % z = o
  <2>1. c.virt % y = from * z + o
    BY <1>1, <1>4
  <2> HIDE DEF from, o
  <2>2. \A w \in Nat, i \in 0..FAN - 1, k \in 0..z - 1 :
          w % y = i * z + k => Index(w, l) = i /\ w % z = k
    BY Digits
  <2> HIDE DEF y, z
  <2> QED BY <1>3, <1>4, <2>1, <2>2
<1>6. /\ b \in Nat /\ v = b + (v % y) /\ \A i \in Nat : i * z \in Nat
      /\ Num(v, l) \in Nat
  <2>1. Num(v, l) \in Nat
    BY <1>2, Numbers
  <2>2. v = Num(v, l) * y + (v % y)
    BY <1>2, Regions
  <2>3. \A j \in Nat : j * y \in Nat
    BY <1>2, Regions
  <2>4. \A i \in Nat : i * z \in Nat
    BY EntryRegions
  <2> QED BY <2>1, <2>2, <2>3, <2>4
<1>7. c.size = K * z - (v % y) /\ v % y < K * z
  BY <1>1
<1>8. Index(c.virt + c.size - 1, l) = K - 1
  <2> DEFINE a == Num(c.virt, l)
             w == c.virt + c.size - 1
  <2>1. a \in Nat /\ a * y \in Nat /\ c.virt = a * y + (v % y)
    <3>1. c.virt = a * y + (c.virt % y)
      BY <1>2, <1>3, Regions
    <3>2. a \in Nat
      BY <1>2, <1>3, Numbers
    <3>3. \A j \in Nat : j * y \in Nat
      BY <1>2, Regions
    <3> QED BY <1>1, <3>1, <3>2, <3>3
  <2>2. \A j \in Nat, k \in 0..y - 1 : j * y + k \in Nat /\ (j * y + k) % y = k
    BY <1>2, Regions
  <2>3. \A x \in Nat, i \in 0..FAN - 1, k \in 0..z - 1 :
          x % y = i * z + k => Index(x, l) = i /\ x % z = k
    BY Digits
  <2> HIDE DEF a, y, z, from, o
  <2>4. (K - 1) * z = K * z - z /\ K * z \in Nat /\ K * z <= FAN * z /\ K * z >= z
    <3>1. K * z \in Nat
      BY <1>2, <1>6
    <3>2. K = FAN \/ K < FAN
      BY <1>2
    <3>3. K < FAN => z * K + z <= z * FAN
      <4>1. z \in Nat \ {0} /\ K \in Int /\ FAN \in Int
        BY <1>2
      <4> QED BY <4>1, MultiplesApart
    <3>4. z * K = K * z /\ z * FAN = FAN * z
      BY <1>2
    <3>5. K * z <= FAN * z
      BY <1>2, <3>1, <3>2, <3>3, <3>4
    <3>6. (K - 1) * z = K * z - z
      BY <1>2
    <3>7. (K - 1) * z \in Nat
      BY <1>2, <1>6
    <3> QED BY <1>2, <3>1, <3>5, <3>6, <3>7
  <2> DEFINE k == K * z - 1
  <2>5. k \in 0..y - 1 /\ k = (K - 1) * z + (z - 1) /\ z - 1 \in 0..z - 1 /\ K - 1 \in 0..FAN - 1
    BY <1>2, <2>4
  <2>6. w = a * y + k
    BY <1>2, <1>4, <1>7, <2>1, <2>4
  <2> HIDE DEF k
  <2>7. w \in Nat /\ w % y = k
    BY <2>1, <2>2, <2>5, <2>6
  <2> HIDE DEF w
  <2>8. Index(w, l) = K - 1
    BY <2>3, <2>5, <2>7
  <2> QED BY <2>8 DEF w
<1>9. from < K /\ n \in Nat /\ n >= 1 /\ from \in Nat /\ K - from = n
  <2> HIDE DEF from, o, z, y
  <2>1. ASSUME K <= from PROVE FALSE
    <3>1. K = from \/ K < from
      BY <1>2, <1>4, <2>1
    <3>2. K < from => z * K + z <= z * from
      <4>1. z \in Nat \ {0} /\ K \in Int /\ from \in Int
        BY <1>2, <1>4
      <4> QED BY <4>1, MultiplesApart
    <3>3. z * K = K * z /\ z * from = from * z
      BY <1>2, <1>4
    <3>4. K * z \in Nat /\ from * z \in Nat
      BY <1>2, <1>4, <1>6
    <3> QED BY <1>2, <1>4, <1>7, <3>1, <3>2, <3>3, <3>4
  <2> QED BY <1>2, <1>4, <2>1
<1>10. Unmap[l][c] = Loop(turn, s0, n).m
  <2>1. Unmap[l][c] =
           Loop(UnmapTurn(c.pt, l, Unmap[l - 1]),
                [m |-> c.m, i |-> Index(c.virt, l), virt |-> c.virt, size |-> c.size],
                (Index(c.virt + c.size - 1, l) + 1) - Index(c.virt, l)).m
    BY UnmapRuns
  <2>2. (Index(c.virt + c.size - 1, l) + 1) - Index(c.virt, l) = n
    <3> HIDE DEF from
    <3> QED BY <1>2, <1>5, <1>8, <1>9
  <2> HIDE DEF from, n
  <2> QED BY <1>5, <2>1, <2>2
\* The pages of the entries.
<1>11. ASSUME NEW i \in 0..FAN - 1
       PROVE  /\ P(i) \in Nat /\ Covers(u, pt, l, P(i)) /\ Index(P(i), l) = i /\ P(i) % z = 0
              /\ P(i + 1) = P(i) + z
  <2>1. P(i) \in Nat /\ Num(P(i), l) = Num(v, l) /\ Index(P(i), l) = i /\ P(i) % z = 0
    BY <1>6, EntryPage
  <2>2. (i + 1) * z = i * z + z /\ i * z \in Nat
    BY <1>2, <1>6
  <2>3. P(i + 1) = P(i) + z
    BY <1>2, <1>6, <2>2
  <2> QED BY <1>1, <2>1, <2>3 DEF Covers
<1>12. v = P(from) + o
  <2> HIDE DEF from, o, z, y, b
  <2>1. from * z \in Nat
    BY <1>4, <1>6
  <2> QED BY <1>2, <1>4, <1>6, <2>1
<1>13. c.size = n * z - o /\ n * z \in Nat /\ n * z >= z
  <2> HIDE DEF from, o, z, y, n
  <2>1. from * z \in Nat /\ K * z \in Nat /\ n * z \in Nat
    BY <1>2, <1>4, <1>6, <1>9
  <2>2. K = from + n
    BY <1>2, <1>9
  <2>3. (from + n) * z = from * z + n * z
    BY <1>2, <1>9
  <2>4. (n - 1) * z \in Nat /\ n * z = (n - 1) * z + z
    BY <1>2, <1>6, <1>9
  <2> QED BY <1>2, <1>4, <1>7, <2>1, <2>2, <2>3, <2>4
<1>14. \A s \in States : Turned(pt, l, Unmap[l - 1], s, turn[s])
  BY <1>3, TurnIs
<1>15. s0 \in I[0] /\ s0 \in States
  <2>1. from \in Slot
    BY <1>4 DEF Slot
  <2>2. s0 \in States
    BY <1>3, <2>1 DEF States
  <2> QED BY <1>9, <2>2
<1>16. ASSUME NEW s \in States, s.i \in from..K - 1, turn[s].m \in Memory,
              turn[s].virt \in Nat, turn[s].virt % z = 0, turn[s].size \in Int,
              turn[s].size >= (K - (s.i + 1)) * z,
              Takes(c.m, r, u, Gone(u, l, v, P(s.i + 1)), l, turn[s].m)
       PROVE  turn[s] \in I[(s.i - from) + 1]
  <2> DEFINE t == turn[s]
  <2>1. t.i = s.i + 1 /\ t = [m |-> t.m, i |-> t.i, virt |-> t.virt, size |-> t.size]
    BY <1>14 DEF Turned
  <2>2. /\ t.m \in Memory /\ t.virt \in Nat /\ t.virt % z = 0 /\ t.size \in Int
        /\ t.size >= (K - t.i) * z /\ Takes(c.m, r, u, Gone(u, l, v, P(t.i)), l, t.m)
    BY <1>16, <2>1
  <2> HIDE DEF t, from, n, z
  <2>3. /\ s.i \in Nat /\ t.i \in 0..FAN /\ K - t.i \in Nat /\ (s.i - from) + 1 \in 0..n
        /\ (s.i - from) + 1 # 0 /\ t.i = from + ((s.i - from) + 1)
    BY <1>2, <1>9, <1>16, <2>1
  <2>4. (K - t.i) * z \in Nat
    BY <1>6, <2>3 DEF z
  <2>5. t.size \in Nat
    BY <2>2, <2>4
  <2>6. t \in [m : Memory, i : 0..FAN, virt : Nat, size : Nat]
    BY <2>1, <2>2, <2>3, <2>5
  <2> HIDE DEF P
  <2>7. Good(t)
    BY <2>2, <2>3, <2>5
  <2> HIDE DEF Good
  <2>8. t \in I[(s.i - from) + 1]
    BY <2>3, <2>6, <2>7
  <2> QED BY <2>8 DEF t
<1>17. turn[s0] \in I[1]
  <2>1. s0.i = from /\ s0.i \in from..K - 1 /\ s0.m = c.m /\ s0.virt = c.virt /\ s0.size = c.size
    BY <1>2, <1>9
  <2>2. (K - (s0.i + 1)) * z = n * z - z /\ (s0.i - from) + 1 = 1
    <3> HIDE DEF from, z, n
    <3>1. K - (s0.i + 1) = n - 1 /\ (s0.i - from) + 1 = 1
      BY <1>2, <1>9, <2>1
    <3> QED BY <1>2, <1>9, <3>1
  <2>3. CASE o = 0
    <3>1. v = P(from) /\ P(from + 1) = P(from) + z /\ P(from) \in Nat
      BY <1>4, <1>11, <1>12, <2>3
    <3>2. s0.virt % z = 0 /\ s0.size >= z
      BY <1>2, <1>5, <1>13, <2>1, <2>3
    <3>3. s0.i = Index(v, l) /\ Tree(s0.m.table, r, u) /\ v % z = 0
      BY <1>1, <2>1, <2>3
    <3>4. /\ Takes(s0.m, r, u, Gone(u, l, v, v + z), l, turn[s0].m)
          /\ turn[s0].virt \in Nat /\ turn[s0].virt % z = 0
          /\ turn[s0].size \in Nat /\ turn[s0].size >= s0.size - z
      <4>1. s0 \in States
        BY <1>15
      <4>2. Covers(u, pt, l, v) /\ pt \in DOMAIN u
        BY <1>1, <1>3
      <4> HIDE DEF s0, I, P, from, n, o, y, b, Good
      <4> QED BY <3>2, <3>3, <4>1, <4>2, TurnAligned
    <3>5. /\ turn[s0].m \in Memory /\ Takes(c.m, r, u, Gone(u, l, v, P(s0.i + 1)), l, turn[s0].m)
      BY <2>1, <3>1, <3>4 DEF Takes
    <3>6. turn[s0].size \in Int /\ turn[s0].size >= (K - (s0.i + 1)) * z
      <4>1. s0.size - z = n * z - z
        BY <1>2, <1>13, <2>1, <2>3
      <4> QED BY <2>2, <3>4, <4>1
    <3> HIDE DEF turn, s0, I
    <3>7. turn[s0] \in I[(s0.i - from) + 1]
      BY <1>15, <1>16, <2>1, <3>4, <3>5, <3>6
    <3> QED BY <2>2, <3>7
  <2>4. CASE o # 0
    <3> DEFINE q == Num(v, l - 1) * z + z
    <3>1. P(from + 1) = q
      <4>1. P(from + 1) = P(from) + z /\ P(from) \in Nat
        BY <1>4, <1>11
      <4>2. v = Num(v, l - 1) * z + o /\ Num(v, l - 1) * z \in Nat
        <5>1. l - 1 \in 0..LEVELS
          BY <1>2
        <5>2. Num(v, l - 1) \in Nat
          BY <5>1, Numbers
        <5> QED BY <5>2, EntryRegions
      <4> HIDE DEF P
      <4> QED BY <1>2, <1>4, <1>12, <4>1, <4>2
    <3>2. s0.virt % z = o /\ s0.size >= z - o
      BY <1>2, <1>4, <1>5, <1>13, <2>1
    <3>3. s0.i = Index(v, l) /\ Tree(s0.m.table, r, u)
      BY <1>1, <2>1
    <3>4. /\ Takes(s0.m, r, u, Gone(u, l, v, q), l, turn[s0].m)
          /\ turn[s0].virt \in Nat /\ turn[s0].virt % z = 0
          /\ turn[s0].size \in Int /\ turn[s0].size = s0.size - (z - o)
      <4>1. s0 \in States
        BY <1>15
      <4>2. Covers(u, pt, l, v) /\ pt \in DOMAIN u /\ Reached(u, l, v)
        BY <1>1, <1>3
      <4>3. v % z # 0 /\ s0.virt % z = v % z /\ s0.size >= z - (v % z)
        BY <2>4, <3>2
      <4> HIDE DEF s0, I, P, from, n, y, b, Good
      <4>4. /\ Takes(s0.m, r, u, Gone(u, l, v, q), l, turn[s0].m)
            /\ turn[s0].virt \in Nat /\ turn[s0].virt % z = 0
            /\ turn[s0].size \in Int /\ turn[s0].size = s0.size - (z - (v % z))
        <5>1. Midway(l, s0, v)
          BY <4>3 DEF Midway
        <5>2. MidwayPast(l, r, u, v, s0, turn[s0])
          <6> HIDE DEF o, z
          <6> QED BY <3>3, <4>1, <4>2, <5>1, TurnMidway
        <5> HIDE DEF turn, o
        <5> QED BY <5>2 DEF MidwayPast
      <4> QED BY <4>4
    <3>5. /\ turn[s0].m \in Memory /\ Takes(c.m, r, u, Gone(u, l, v, P(s0.i + 1)), l, turn[s0].m)
      BY <2>1, <3>1, <3>4 DEF Takes
    <3>6. turn[s0].size \in Int /\ turn[s0].size >= (K - (s0.i + 1)) * z
      <4>1. s0.size - (z - o) = n * z - z
        BY <1>2, <1>4, <1>13, <2>1
      <4> QED BY <1>2, <1>13, <2>2, <3>4, <4>1
    <3> HIDE DEF turn, s0, I
    <3>7. turn[s0] \in I[(s0.i - from) + 1]
      BY <1>15, <1>16, <2>1, <3>4, <3>5, <3>6
    <3> QED BY <2>2, <3>7
  <2> QED BY <2>3, <2>4
<1>18. ASSUME NEW k \in 1..n - 1, NEW s \in I[k]
       PROVE  turn[s] \in I[k + 1]
  <2>1. s \in [m : Memory, i : 0..FAN, virt : Nat, size : Nat] /\ s.i = from + k /\ Good(s)
    <3>1. k \in 0..n /\ k # 0
      BY <1>9
    <3> HIDE DEF Good
    <3> QED BY <1>18, <3>1
  <2> DEFINE i == s.i
             X == Gone(u, l, v, P(i))
             w == Rest(u, X)
             p == P(i)
             Y == Gone(w, l, p, p + z)
  <2>2. i \in from..K - 1 /\ i \in 0..FAN - 1 /\ i \in Slot /\ k \in Nat /\ from <= i
        /\ (i - from) + 1 = k + 1
    <3>1. i = from + k
      BY <2>1
    <3>2. k \in 1..n - 1
      OBVIOUS
    <3>3. from \in Nat /\ n \in Nat /\ K - from = n
      BY <1>9
    <3> HIDE DEF i, n, from
    <3> QED BY <1>a, <3>1, <3>2, <3>3 DEF Slot
  <2>3. s \in States
    BY <2>1, <2>2 DEF States
  <2>4. /\ s.m \in Memory /\ s.virt \in Nat /\ s.size \in Nat
        /\ s.virt % z = 0 /\ s.size >= (K - s.i) * z
        /\ Takes(c.m, r, u, X, l, s.m)
    BY <2>1
  <2> HIDE DEF i
  <2>5. p \in Nat /\ Covers(u, pt, l, p) /\ Index(p, l) = i /\ p % z = 0 /\ P(i + 1) = p + z
    BY <1>11, <2>2
  <2>6. v <= p
    <3>0. \A j \in Nat : j * z \in Nat
      BY <1>6
    <3>1. i * z \in Nat /\ from * z \in Nat /\ (i - from) * z \in Nat
      <4>1. i \in Nat /\ from \in Nat /\ i - from \in Nat
        BY <1>9, <2>2
      <4> DEFINE d == i - from
      <4>2. d \in Nat
        BY <4>1
      <4> HIDE DEF z, d, from, i
      <4>3. i * z \in Nat
        BY <3>0, <4>1
      <4>4. from * z \in Nat
        BY <3>0, <4>1
      <4>5. d * z \in Nat
        BY <3>0, <4>2
      <4> QED BY <4>3, <4>4, <4>5 DEF d
    <3>2. i * z = from * z + (i - from) * z
      <4>1. i \in Int /\ from \in Int /\ z \in Int
        BY <1>b, <1>9, <2>2
      <4> HIDE DEF z, from, i
      <4> QED BY <4>1, Apiece
    <3>3. (i - from) * z >= z
      <4> DEFINE d == k - 1
      <4>1. i - from = d + 1 /\ d \in Nat
        <5>1. i = from + k
          BY <2>1 DEF i
        <5> HIDE DEF i, n, from
        <5> QED BY <1>9, <2>2, <5>1
      <4>2. d * z \in Nat /\ (d + 1) * z = d * z + z
        <5> HIDE DEF d, z
        <5>1. d * z \in Nat
          BY <3>0, <4>1
        <5>2. d \in Int
          BY <4>1
        <5>3. (d + 1) * z = d * z + z
          BY <1>b, <5>2
        <5> QED BY <5>1, <5>3
      <4> HIDE DEF d, z, i, from
      <4>3. (d + 1) * z >= z
        BY <1>b, <4>2
      <4> QED BY <4>1, <4>3
    <3>4. o \in 0..z - 1 /\ z \in Nat /\ b \in Nat /\ v = (b + from * z) + o /\ p = b + i * z
      BY <1>b, <1>4, <1>6, <1>12
    <3> DEFINE A == i * z
               B == from * z
               D == (i - from) * z
    <3>5. A \in Nat /\ B \in Nat /\ D \in Nat /\ A = B + D /\ D >= z
      BY <3>1, <3>2, <3>3
    <3>6. v = (b + B) + o /\ p = b + A
      BY <3>4
    <3> HIDE DEF from, b, z, o, A, B, D, p
    <3> QED BY <3>4, <3>5, <3>6
  <2> HIDE DEF P, p
  <2>7. DOMAIN w = DOMAIN u \ X /\ \A g \in DOMAIN w : w[g] = u[g] /\ First(w, g) = First(u, g)
    BY DEF Rest, First
  <2>8. pt \in DOMAIN w /\ Covers(w, pt, l, p) /\ Tree(s.m.table, r, w)
    <3>1. pt \notin X
      BY <1>2, <1>3 DEF Gone
    <3>2. Tree(s.m.table, r, w)
      BY <2>4 DEF Takes
    <3> HIDE DEF w
    <3> QED BY <1>3, <2>5, <2>7, <3>1, <3>2 DEF Covers
  <2>a. K - s.i \in Nat /\ K - s.i >= 1 /\ (K - s.i) - 1 \in Nat /\ (K - s.i) - 1 = K - (s.i + 1)
    <3>1. s.i \in from..K - 1 /\ from \in Nat
      BY <1>9, <2>2 DEF i
    <3> HIDE DEF from, n, i, z
    <3> QED BY <1>a, <3>1
  <2>9. s.size >= z /\ (K - s.i) * z - z = (K - (s.i + 1)) * z
    <3> DEFINE d == (K - s.i) - 1
    <3>2. d \in Nat /\ K - s.i = d + 1 /\ K - (s.i + 1) = d
      BY <2>a
    <3>3. d * z \in Nat
      BY <1>6, <3>2
    <3> HIDE DEF d, z
    <3>4. (d + 1) * z = d * z + z
      BY <1>b, <3>2
    <3>5. s.size >= (d + 1) * z /\ s.size \in Nat
      BY <2>4, <3>2
    <3> DEFINE D == d * z
               A == (K - s.i) * z
               B == (K - (s.i + 1)) * z
    <3>6. D \in Nat /\ s.size >= D + z /\ A = D + z /\ B = D
      BY <3>2, <3>3, <3>4, <3>5
    <3>7. s.size \in Nat /\ z \in Nat
      BY <1>b, <3>5
    <3> HIDE DEF D, A, B
    <3>8. s.size >= z /\ A - z = B
      <4> HIDE DEF z
      <4> QED BY <3>6, <3>7
    <3> QED BY <3>8 DEF A, B
  <2> HIDE DEF w
  <2>10. /\ Takes(s.m, r, w, Y, l, turn[s].m)
         /\ turn[s].virt \in Nat /\ turn[s].virt % z = 0
         /\ turn[s].size \in Nat /\ turn[s].size >= s.size - z
    BY <1>1, <2>3, <2>4, <2>5, <2>8, <2>9, TurnAligned DEF i
  <2>11. Takes(c.m, r, u, X \cup Y, l, turn[s].m)
    <3>1. l <= l /\ Takes(s.m, r, Rest(u, X), Y, l, turn[s].m)
      BY <1>2, <2>10 DEF w
    <3> HIDE DEF X, Y
    <3> QED BY <1>2, <2>4, <3>1, TakesMore
  <2>12. X \cup Y = Gone(u, l, v, p + z)
    <3>1. \A g \in DOMAIN u : First(u, g) \in Nat
      BY <1>3, FirstPage
    <3>2. X = Gone(u, l, v, p)
      BY DEF p
    <3>3. Gone(u, l, v, p + z) = Gone(u, l, v, p) \cup Gone(u, l, p, p + z)
      <4>1. \A f \in Nat : (v <= f /\ f < p + z) <=> (v <= f /\ f < p) \/ (p <= f /\ f < p + z)
        BY <1>2, <2>5, <2>6
      <4> HIDE DEF z
      <4> QED BY <3>1, <4>1 DEF Gone
    <3>4. Y = Gone(u, l, p, p + z)
      <4>1. \A g \in Gone(u, l, p, p + z) : g \notin X
        <5>1. \A g \in X : First(u, g) < p
          BY <3>2 DEF Gone
        <5> HIDE DEF X
        <5> QED BY <2>5, <3>1, <5>1 DEF Gone
      <4> HIDE DEF X, z
      <4> QED BY <2>7, <4>1 DEF Gone
    <3> QED BY <3>2, <3>3, <3>4
  <2>13. Takes(c.m, r, u, Gone(u, l, v, P(s.i + 1)), l, turn[s].m) /\ turn[s].m \in Memory
    BY <2>5, <2>10, <2>11, <2>12 DEF i, Takes
  <2>14. turn[s].size \in Int /\ turn[s].size >= (K - (s.i + 1)) * z
    <3> DEFINE A == (K - s.i) * z
               D == (K - (s.i + 1)) * z
    <3>1. A \in Int
      <4>1. A \in Nat
        BY <1>6, <2>a
      <4> HIDE DEF A
      <4> QED BY <4>1
    <3>2. s.size >= A /\ A - z = D /\ s.size \in Nat
      BY <2>4, <2>9
    <3> HIDE DEF A, D
    <3>3. turn[s].size >= D /\ turn[s].size \in Int
      <4>1. turn[s].size \in Nat /\ turn[s].size >= s.size - z
        BY <2>10
      <4> HIDE DEF turn, z
      <4> QED BY <1>b, <3>1, <3>2, <4>1
    <3> QED BY <3>3 DEF D
  <2>15. turn[s] \in I[(s.i - from) + 1]
    <3> HIDE DEF turn, I
    <3> QED BY <1>16, <2>2, <2>3, <2>10, <2>13, <2>14 DEF i
  <2> QED BY <2>2, <2>15 DEF i
<1> HIDE DEF turn, s0, I
<1>19. \A k \in 0..n - 1 : \A s \in I[k] : turn[s] \in I[k + 1]
  <2>1. TAKE k \in 0..n - 1
  <2>2. TAKE s \in I[k]
  <2>3. CASE k = 0
    <3>1. s = s0
      BY <1>9, <2>3 DEF I
    <3> QED BY <1>17, <2>3, <3>1
  <2>4. CASE k # 0
    <3>1. k \in 1..n - 1
      BY <1>9, <2>4
    <3> QED BY <1>18, <3>1
  <2> QED BY <2>3, <2>4
<1>20. Loop(turn, s0, n) \in I[n]
  BY <1>9, <1>15, <1>19, LoopKeeps
<1>21. Takes(c.m, r, u, Gone(u, l, v, P(K)), l, Loop(turn, s0, n).m)
  <2> DEFINE s == Loop(turn, s0, n)
  <2>1. s \in I[n] /\ n \in 0..n /\ n # 0 /\ from + n = K
    BY <1>2, <1>9, <1>20
  <2> HIDE DEF s
  <2>2. s.i = K /\ Good(s)
    BY <2>1 DEF I
  <2> QED BY <2>2 DEF s
<1> QED BY <1>10, <1>21

-----------------------------------------------------------------------------
(* pt_unmap on a range up to the end of user space.                        *)

\* __pt_unmap does its work at every level, by induction over the levels.
LEMMA UnmapClears == \A l \in 1..LEVELS : Clears(l, Unmap[l])
<1> DEFINE T == {l \in Nat : l >= 1 /\ l <= LEVELS /\ ~Clears(l, Unmap[l])}
<1>0. LEVELS \in Nat
  BY Sizes
<1>1. SUFFICES ASSUME T # {} PROVE FALSE
  <2>1. SUFFICES ASSUME NEW l \in 1..LEVELS PROVE Clears(l, Unmap[l])
    OBVIOUS
  <2>2. l \in Nat /\ l >= 1 /\ l <= LEVELS
    BY <1>0
  <2> QED BY <1>1, <2>2
<1>2. T \in SUBSET Nat
  OBVIOUS
<1> HIDE DEF T
<1>3. PICK l \in T : \A k \in T : l <= k
  BY <1>1, <1>2, Least
<1>4. l \in Nat /\ l >= 1 /\ l <= LEVELS /\ ~Clears(l, Unmap[l])
  BY <1>3 DEF T
<1>5. ASSUME l # 1 PROVE Clears(l - 1, Unmap[l - 1])
  <2>1. l - 1 \in Nat /\ l - 1 >= 1 /\ l - 1 <= LEVELS
    BY <1>0, <1>4, <1>5
  <2>2. l - 1 \notin T
    <3>1. ~(l <= l - 1)
      BY <1>4
    <3> QED BY <1>3, <3>1
  <2> QED BY <2>1, <2>2 DEF T
<1>6. l \in 1..LEVELS
  BY <1>0, <1>4
<1> QED BY <1>4, <1>5, <1>6, LevelClears

\* The user's half of the pages.
LEMMA Half ==
  /\ END \in Nat /\ END >= 1 /\ END <= Size(LEVELS + 1)
  /\ END = (FAN \div 2) * Size(LEVELS) /\ FAN \div 2 \in 1..FAN
<1> DEFINE K == FAN \div 2
           z == Size(LEVELS)
           y == Size(LEVELS + 1)
<1>1. LEVELS \in 1..LEVELS /\ FAN \in Nat /\ FAN >= 2
  BY Sizes
<1>2. K \in Nat /\ K >= 1 /\ K <= FAN
  BY <1>1
<1>3. z \in Nat /\ z >= 1 /\ y = FAN * z
  BY <1>1, Digits
<1>4. END = z * K
  BY DEF END
<1> HIDE DEF K, z, y
<1>5. z * K = K * z /\ K * z \in Nat
  BY <1>2, <1>3
<1>6. K * z >= z
  <2>1. (K - 1) * z \in Nat /\ K * z = (K - 1) * z + z
    <3>1. K - 1 \in Nat
      BY <1>2
    <3> DEFINE d == K - 1
    <3>2. K = d + 1 /\ d \in Nat
      BY <1>2
    <3> HIDE DEF d
    <3>3. (d + 1) * z = d * z + z /\ d * z \in Nat
      BY <1>3, <3>2
    <3> QED BY <3>2, <3>3 DEF d
  <2> QED BY <1>3, <1>5, <2>1
<1>7. K * z <= FAN * z
  <2> DEFINE d == FAN - K
  <2>1. d \in Nat /\ FAN = K + d
    BY <1>1, <1>2
  <2> HIDE DEF d
  <2>2. (K + d) * z = K * z + d * z /\ d * z \in Nat
    BY <1>2, <1>3, <2>1
  <2> QED BY <1>5, <2>1, <2>2
<1>8. END \in Nat /\ END >= 1 /\ END <= y
  BY <1>3, <1>4, <1>5, <1>6, <1>7
<1> QED BY <1>1, <1>2, <1>4, <1>5, <1>8 DEF K, z, y

\* pt_unmap from some page up to the end of user space.
LEMMA UnmapTakes ==
  ASSUME NEW m \in Memory, NEW r, NEW u, Tree(m.table, r, u),
         NEW begin \in Nat, begin < END, Reached(u, LEVELS, begin)
  PROVE  Takes(m, r, u, Gone(u, LEVELS, begin, END), LEVELS,
               pt_unmap(m, r, begin, END - begin))
<1> DEFINE c == [m |-> m, pt |-> r, virt |-> begin, size |-> END - begin]
           K == FAN \div 2
           z == Size(LEVELS)
           y == Size(LEVELS + 1)
<1>1. LEVELS \in 1..LEVELS /\ END \in Nat /\ END <= y /\ END = K * z /\ K \in 1..FAN /\ LEVELS \in 0..LEVELS
      /\ y \in Nat /\ LEVELS \in Nat /\ y >= 1
  <2>1. y \in Nat /\ y >= 1
    BY Sizes, Digits
  <2> QED BY <2>1, Half, Sizes
<1>2. Places(u) /\ r \in DOMAIN u /\ u[r].lvl = LEVELS
  BY DEF Tree
<1>3. r \in Frame /\ u[r].num = 0
  BY <1>2 DEF Places
<1>4. Num(begin, LEVELS) = 0 /\ begin % y = begin
  <2>1. begin < y
    BY <1>1
  <2>2. begin = 0 * y + begin /\ begin \in 0..y - 1
    BY <1>1, <2>1
  <2>3. \A n \in Nat, k \in 0..y - 1 : Num(n * y + k, LEVELS) = n /\ (n * y + k) % y = k
    BY <1>1, Regions
  <2> HIDE DEF y
  <2> QED BY <2>2, <2>3
<1>5. Covers(u, r, LEVELS, begin)
  BY <1>2, <1>3, <1>4 DEF Covers
<1>6. END - begin \in Nat
  BY <1>1
<1>7. c \in Calls /\ c.m = m /\ c.pt = r /\ c.virt = begin /\ c.size = END - begin
  BY <1>3, <1>6 DEF Calls
<1> HIDE DEF c, K, z, y
<1>8. c.virt % y = begin % y /\ begin % y < K * z /\ c.size = K * z - (begin % y)
  BY <1>1, <1>4, <1>7
<1>9. Tree(c.m.table, r, u) /\ Covers(u, c.pt, LEVELS, begin)
  BY <1>5, <1>7
<1>10. Clears(LEVELS, Unmap[LEVELS])
  BY <1>1, UnmapClears
<1>11. Takes(c.m, r, u, Gone(u, LEVELS, begin, Num(begin, LEVELS) * y + K * z), LEVELS,
             Unmap[LEVELS][c])
  BY <1>1, <1>7, <1>8, <1>9, <1>10 DEF Clears, y, z
<1>12. Num(begin, LEVELS) * y + K * z = END
  BY <1>1, <1>4
<1>13. Unmap[LEVELS][c] = pt_unmap(m, r, begin, END - begin)
  BY DEF pt_unmap, c
<1> QED BY <1>7, <1>11, <1>12, <1>13

-----------------------------------------------------------------------------
(* What an address space's tree is for.                                    *)

\* A page lies in one of the areas S.
In(S, p) == \E a \in S : a.begin <= p /\ p < a.end

\* Areas that have nothing in common.
Apart(S) ==
  /\ \A a \in S : a.begin \in Nat /\ a.end \in Nat /\ a.begin < a.end /\ a.end <= END
  /\ \A a, b \in S : a # b => a.end <= b.begin \/ b.end <= a.begin

\* All pages of the entry that p lies in, of a table of level k, are in one area.
Within(S, k, p) ==
  \A w \in Nat : Num(w, k - 1) = Num(p, k - 1) =>
    \E a \in S : a.begin <= p /\ p < a.end /\ a.begin <= w /\ w < a.end

\* What the tree u is for: its pages are those of the areas S, every table leads to
\* some, and only entries that lie in one area as a whole map large pages.
Serves(u, S) ==
  /\ \A f \in DOMAIN u, p \in Nat : Covers(u, f, 0, p) => In(S, p)
  /\ \A p \in Nat : In(S, p) => \E f \in DOMAIN u : Covers(u, f, 0, p)
  /\ \A g \in DOMAIN u : u[g].lvl \in 1..LEVELS - 1 =>
       \E p \in Nat : In(S, p) /\ Covers(u, g, u[g].lvl, p)
  /\ \A p \in Nat, k \in 2..LEVELS :
       In(S, p) => (\E g \in DOMAIN u : Covers(u, g, k - 1, p)) \/ Within(S, k, p)

\* A frame begins at or before every page it covers.
LEMMA FirstBelow ==
  ASSUME NEW u, Places(u), NEW g, NEW l, NEW p \in Nat, Covers(u, g, l, p)
  PROVE  First(u, g) \in Nat /\ First(u, g) <= p /\ l \in 0..LEVELS
<1>1. g \in DOMAIN u /\ u[g].lvl = l /\ u[g].num = Num(p, l) /\ l \in 0..LEVELS
  BY DEF Covers, Places
<1> DEFINE s == Size(l + 1)
           n == Num(p, l)
<1>2. p = n * s + (p % s) /\ p % s \in 0..s - 1 /\ s \in Nat /\ s >= 1
  BY <1>1, Regions
<1>3. First(u, g) \in Nat
  BY <1>1, FirstPage
<1>4. First(u, g) = n * s
  BY <1>1 DEF First
<1> DEFINE a == n * s
           o == p % s
<1>5. p = a + o /\ o \in 0..s - 1 /\ First(u, g) = a
  BY <1>2, <1>4
<1> HIDE DEF a, o, s
<1> QED BY <1>1, <1>2, <1>3, <1>5

\* The page before one that is not the first of its entry is in that entry too.
LEMMA PageBefore ==
  ASSUME NEW k \in 1..LEVELS, NEW v \in Nat, v % Size(k) # 0
  PROVE  v - 1 \in Nat /\ Num(v - 1, k - 1) = Num(v, k - 1)
<1> DEFINE s == Size(k)
           n == Num(v, k - 1)
           o == v % s
<1>1. s \in Nat /\ s >= 1 /\ v = n * s + o /\ o \in 0..s - 1 /\ o # 0
      /\ \A a \in Nat, b \in 0..s - 1 : a * s + b \in Nat /\ Num(a * s + b, k - 1) = a
  BY EntryRegions
<1>2. n \in Nat
  <2>1. k - 1 \in 0..LEVELS
    BY Sizes
  <2> QED BY <2>1, Numbers
<1> HIDE DEF s, o
<1>3. n * s + (o - 1) \in Nat /\ Num(n * s + (o - 1), k - 1) = n
  <2>1. o - 1 \in 0..s - 1
    BY <1>1
  <2> HIDE DEF n
  <2> QED BY <1>1, <1>2, <2>1
<1>4. v - 1 = n * s + (o - 1)
  <2> DEFINE a == n * s
  <2>1. v = a + o /\ a \in Nat
    <3> HIDE DEF n
    <3> QED BY <1>1, <1>2
  <2> HIDE DEF a
  <2>2. v - 1 = a + (o - 1)
    BY <1>1, <2>1
  <2> QED BY <2>2 DEF a
<1> QED BY <1>3, <1>4

\* pt_unmap may begin where an area ends.
LEMMA EndReached ==
  ASSUME NEW u, Places(u), NEW S, Apart(S), Serves(u, S), NEW a \in S
  PROVE  Reached(u, LEVELS, a.end)
<1> DEFINE v == a.end
<1>1. a.begin \in Nat /\ v \in Nat /\ a.begin < v
  BY DEF Apart
<1>2. SUFFICES ASSUME NEW k \in 2..LEVELS, v % Size(k) # 0
               PROVE  \E g \in DOMAIN u : Covers(u, g, k - 1, v)
  BY DEF Reached
<1>3. k \in 1..LEVELS
  BY Sizes
<1>4. v - 1 \in Nat /\ Num(v - 1, k - 1) = Num(v, k - 1)
  BY <1>1, <1>2, <1>3, PageBefore
<1>5. In(S, v - 1)
  <2>1. a.begin <= v - 1 /\ v - 1 < a.end
    BY <1>1
  <2> QED BY <2>1 DEF In
<1>6. ~Within(S, k, v - 1)
  <2>1. SUFFICES ASSUME NEW b \in S, b.begin <= v - 1, v - 1 < b.end, b.begin <= v, v < b.end
                 PROVE  FALSE
    BY <1>1, <1>4 DEF Within
  <2>2. b.begin \in Nat /\ b.end \in Nat /\ (a # b => a.end <= b.begin \/ b.end <= a.begin)
    BY DEF Apart
  <2> QED BY <1>1, <2>1, <2>2
<1>7. PICK g \in DOMAIN u : Covers(u, g, k - 1, v - 1)
  BY <1>4, <1>5, <1>6 DEF Serves
<1> QED BY <1>4, <1>7 DEF Covers

\* What is left of a tree when everything from the end of an area on is unmapped.
LEMMA CutServes ==
  ASSUME NEW u, Places(u), NEW S, Apart(S), Serves(u, S), NEW begin \in Nat,
         begin = 0 \/ \E a \in S : a.end = begin,
         \A a \in S : a.end <= begin \/ a.begin >= begin
  PROVE  Serves(Rest(u, Gone(u, LEVELS, begin, END)), {a \in S : a.end <= begin})
<1> DEFINE X == Gone(u, LEVELS, begin, END)
           w == Rest(u, X)
           K == {a \in S : a.end <= begin}
<1>0. LEVELS \in Nat /\ LEVELS >= 1 /\ END \in Nat /\ Size(1) = 1
  BY Sizes, Half
<1>1. DOMAIN w = DOMAIN u \ X /\ \A g \in DOMAIN w : w[g] = u[g]
  BY DEF Rest
<1>2. \A f, l, p : Covers(w, f, l, p) <=> Covers(u, f, l, p) /\ f \notin X
  <2> HIDE DEF w, X
  <2> QED BY <1>1 DEF Covers
<1>3. \A a \in S : a.begin \in Nat /\ a.end \in Nat /\ a.begin < a.end /\ a.end <= END
  BY DEF Apart
<1>4. \A g, l : \A p \in Nat : Covers(u, g, l, p) /\ p < begin => g \notin X
  <2>1. TAKE g, l
  <2>2. TAKE p \in Nat
  <2>3. HAVE Covers(u, g, l, p) /\ p < begin
  <2>4. First(u, g) \in Nat /\ First(u, g) <= p
    BY <2>3, FirstBelow
  <2>5. ~(begin <= First(u, g))
    BY <2>3, <2>4
  <2> QED BY <2>5 DEF Gone
\* A frame that is kept is the root or begins before the cut.
<1>5. \A g \in DOMAIN u : g \notin X /\ u[g].lvl < LEVELS /\ First(u, g) < END
                            => First(u, g) < begin
  <2>1. \A g \in DOMAIN u : First(u, g) \in Nat
    BY FirstPage
  <2> QED BY <1>0, <2>1 DEF Gone
<1> HIDE DEF X, w
<1>6. \A p \in Nat : In(K, p) <=> In(S, p) /\ p < begin
  <2>1. TAKE p \in Nat
  <2>2. ASSUME In(K, p) PROVE In(S, p) /\ p < begin
    <3>1. PICK a \in K : a.begin <= p /\ p < a.end
      BY <2>2 DEF In
    <3>2. a \in S /\ a.end <= begin /\ a.end \in Nat
      BY <1>3
    <3>3. p < begin
      BY <3>1, <3>2
    <3> QED BY <3>1, <3>2, <3>3 DEF In
  <2>3. ASSUME In(S, p), p < begin PROVE In(K, p)
    <3>1. PICK a \in S : a.begin <= p /\ p < a.end
      BY <2>3 DEF In
    <3>2. ~(a.begin >= begin)
      BY <1>3, <2>3, <3>1
    <3>3. a \in K
      BY <3>2
    <3> QED BY <3>1, <3>3 DEF In
  <2> QED BY <2>2, <2>3
<1> HIDE DEF K
<1>7. \A f \in DOMAIN w, p \in Nat : Covers(w, f, 0, p) => In(K, p)
  <2>1. TAKE f \in DOMAIN w, p \in Nat
  <2>2. HAVE Covers(w, f, 0, p)
  <2>3. Covers(u, f, 0, p) /\ f \notin X /\ f \in DOMAIN u
    BY <1>2, <2>2 DEF Covers
  <2>4. In(S, p)
    BY <2>3 DEF Serves
  <2>5. p < END
    BY <1>0, <1>3, <2>4 DEF In
  <2>6. First(u, f) = p /\ u[f].lvl = 0
    <3>1. u[f].lvl = 0 /\ u[f].num = p
      BY <2>3, Numbers DEF Covers
    <3> QED BY <1>0, <3>1 DEF First
  <2>7. p < begin
    BY <1>0, <1>5, <2>3, <2>5, <2>6
  <2> QED BY <1>6, <2>4, <2>7
<1>8. \A p \in Nat : In(K, p) => \E f \in DOMAIN w : Covers(w, f, 0, p)
  <2>1. TAKE p \in Nat
  <2>2. HAVE In(K, p)
  <2>3. In(S, p) /\ p < begin
    BY <1>6, <2>2
  <2>4. PICK f \in DOMAIN u : Covers(u, f, 0, p)
    BY <2>3 DEF Serves
  <2>5. Covers(w, f, 0, p)
    BY <1>2, <1>4, <2>3, <2>4
  <2> QED BY <2>5 DEF Covers
<1>9. \A g \in DOMAIN w : w[g].lvl \in 1..LEVELS - 1 =>
        \E p \in Nat : In(K, p) /\ Covers(w, g, w[g].lvl, p)
  <2>1. TAKE g \in DOMAIN w
  <2>2. HAVE w[g].lvl \in 1..LEVELS - 1
  <2> DEFINE l == u[g].lvl
             f == First(u, g)
  <2>3. g \in DOMAIN u /\ g \notin X /\ w[g] = u[g] /\ l \in 1..LEVELS - 1 /\ l \in 0..LEVELS
    BY <1>0, <1>1, <2>2
  <2>4. PICK p \in Nat : In(S, p) /\ Covers(u, g, l, p)
    BY <2>3 DEF Serves
  <2>5. f \in Nat /\ f <= p /\ Covers(u, g, l, f) /\ p < END
    <3>1. p < END
      BY <1>0, <1>3, <2>4 DEF In
    <3> QED BY <2>3, <2>4, <3>1, FirstBelow, FirstPage
  <2>6. f < begin
    <3>1. f < END /\ l < LEVELS
      <4> HIDE DEF f, l
      <4> QED BY <1>0, <2>3, <2>5
    <3> QED BY <1>5, <2>3, <3>1
  <2>7. CASE p < begin
    <3>1. In(K, p)
      BY <1>6, <2>4, <2>7
    <3>2. Covers(w, g, l, p)
      BY <1>2, <2>3, <2>4
    <3> QED BY <2>3, <3>1, <3>2
  <2>8. CASE p >= begin
    <3> DEFINE q == begin - 1
    <3>1. q \in Nat /\ f <= q /\ q <= p /\ begin # 0
      <4> HIDE DEF f
      <4> QED BY <2>5, <2>6, <2>8
    <3>2. PICK a \in S : a.end = begin
      BY <3>1
    <3>3. In(S, q) /\ q < begin
      <4>1. a.begin <= q /\ q < a.end /\ q < begin
        BY <1>3, <3>1, <3>2
      <4> QED BY <4>1 DEF In
    <3> HIDE DEF f, q
    <3>4. Num(f, l) <= Num(q, l) /\ Num(q, l) <= Num(p, l)
      BY <2>3, <2>5, <3>1, Regions
    <3>5. Num(f, l) = Num(p, l) /\ u[g].num = Num(p, l)
      BY <2>4, <2>5 DEF Covers
    <3>6. Num(q, l) = Num(p, l)
      <4>1. Num(q, l) \in Nat /\ Num(p, l) \in Nat
        BY <2>3, <3>1, Numbers
      <4> HIDE DEF l
      <4> QED BY <3>4, <3>5, <4>1
    <3>7. Covers(u, g, l, q)
      BY <2>4, <3>5, <3>6 DEF Covers
    <3>8. Covers(w, g, l, q)
      BY <1>2, <2>3, <3>7
    <3>9. In(K, q)
      BY <1>6, <3>1, <3>3
    <3> QED BY <2>3, <3>1, <3>8, <3>9
  <2> QED BY <2>7, <2>8
<1>10. \A p \in Nat, k \in 2..LEVELS :
         In(K, p) => (\E g \in DOMAIN w : Covers(w, g, k - 1, p)) \/ Within(K, k, p)
  <2>1. TAKE p \in Nat, k \in 2..LEVELS
  <2>2. HAVE In(K, p)
  <2>3. In(S, p) /\ p < begin
    BY <1>6, <2>2
  <2>4. CASE \E g \in DOMAIN u : Covers(u, g, k - 1, p)
    <3>1. PICK g \in DOMAIN u : Covers(u, g, k - 1, p)
      BY <2>4
    <3>2. Covers(w, g, k - 1, p)
      BY <1>2, <1>4, <2>3, <3>1
    <3> QED BY <3>2 DEF Covers
  <2>5. CASE Within(S, k, p)
    <3>1. SUFFICES ASSUME NEW v \in Nat, Num(v, k - 1) = Num(p, k - 1)
                   PROVE  \E a \in K : a.begin <= p /\ p < a.end /\ a.begin <= v /\ v < a.end
      BY DEF Within
    <3>2. PICK a \in S : a.begin <= p /\ p < a.end /\ a.begin <= v /\ v < a.end
      BY <2>5, <3>1 DEF Within
    <3>3. ~(a.begin >= begin)
      BY <1>3, <2>3, <3>2
    <3>4. a \in K
      BY <3>3 DEF K
    <3> QED BY <3>2, <3>4
  <2> QED BY <2>3, <2>4, <2>5 DEF Serves
<1>11. Serves(w, K)
  BY <1>7, <1>8, <1>9, <1>10 DEF Serves
<1> QED BY <1>11 DEF w, X, K

-----------------------------------------------------------------------------
(* pt_map: a turn of its loop.                                             *)

\* What the buddy allocator gives was free.
LEMMA BlockIs ==
  ASSUME NEW m \in Memory, NEW pages, Blocks(m, pages) # {}
  PROVE  /\ Block(m, pages) \in m.avail /\ Block(m, pages) \in Nat
         /\ Run(Block(m, pages), pages) \subseteq m.avail
<1>1. FRAMES \in Nat /\ m.avail \subseteq 0..FRAMES
  BY Sizes DEF Memory
<1> DEFINE T == Blocks(m, pages)
<1>2. T \in SUBSET Nat /\ T # {}
  BY <1>1 DEF Blocks
<1>3. \E f \in T : \A g \in T : f <= g
  <2> HIDE DEF T
  <2> QED BY <1>2, Least
<1>4. Block(m, pages) \in T
  BY <1>3 DEF Block
<1> QED BY <1>2, <1>4 DEF Blocks

\* n is m with pages of its own behind an entry that was absent.
LeafMade(m, pt, i, l, f, n) ==
  \E e \in AnyEntry : /\ e.phys = f /\ (l = 1 \/ e.large)
                       /\ Altered(m, m.avail \ Run(f, Size(l)), pt, i, e, n)

\* n is m with an empty table f behind an entry that was absent.
TableMade(m, pt, i, f, n) ==
  \E e \in AnyEntry :
    /\ e.phys = f /\ ~e.large /\ n.table[pt][i] = e
    /\ n \in Memory /\ n.out = m.out /\ n.avail = m.avail \ {f}
    /\ \A g \in Frame, j \in Slot :
         n.table[g][j] = IF g = pt /\ j = i THEN e
                         ELSE IF g = f THEN None ELSE m.table[g][j]
    /\ \A g \in Frame : g # pt /\ g # f => n.table[g] = m.table[g]

\* NewLeaf makes a leaf.
LEMMA NewLeafIs ==
  ASSUME NEW m \in Memory, NEW pt \in Frame, NEW i \in Slot, NEW l \in 1..LEVELS,
         NEW write \in BOOLEAN, Blocks(m, Size(l)) # {}
  PROVE  LeafMade(m, pt, i, l, Block(m, Size(l)), NewLeaf(m, pt, i, l, write))
<1> DEFINE n == NewLeaf(m, pt, i, l, write)
           f == Block(m, Size(l))
           e == Entry(f, l > 1, write)
           X == m.avail \ Run(f, Size(l))
<1>1. FRAMES \in Nat /\ LEVELS \in Nat /\ m.avail \subseteq 0..FRAMES
  BY Sizes DEF Memory
<1>2. f \in m.avail /\ f \in Nat
  BY BlockIs
<1> HIDE DEF f
<1>3. e \in AnyEntry /\ e.phys = f /\ (l = 1 \/ e.large)
  <2> DEFINE b == l > 1
  <2>1. e = [phys |-> f, large |-> b, write |-> write]
    BY DEF Entry, e
  <2>2. b \in BOOLEAN /\ (l = 1 \/ b)
    BY <1>1
  <2>3. f \in 0..FRAMES
    BY <1>1, <1>2
  <2> HIDE DEF b, e
  <2>4. e \in AnyEntry
    BY <2>1, <2>2, <2>3 DEF AnyEntry
  <2>5. e.phys = f /\ e.large = b
    BY <2>1
  <2> QED BY <2>2, <2>4, <2>5
<1> HIDE DEF e
<1>4. n = Alter(m, X, pt, i, e)
  BY DEF NewLeaf, SetEntry, Grab, Alter, Memory, f, e
<1>5. X \subseteq 0..FRAMES
  BY <1>1
<1>a. e \in AnyEntry
  BY <1>3
<1> HIDE DEF n, X
<1>6. Altered(m, X, pt, i, e, n)
  BY <1>4, <1>5, <1>a, AlterIs
<1>7. LeafMade(m, pt, i, l, f, n)
  BY <1>3, <1>6 DEF LeafMade, X
<1> QED BY <1>7 DEF n, f

\* NewTable makes an empty table.
LEMMA NewTableIs ==
  ASSUME NEW m \in Memory, NEW pt \in Frame, NEW i \in Slot, m.avail \subseteq Frame,
         Blocks(m, 1) # {}, pt \notin m.avail
  PROVE  TableMade(m, pt, i, Block(m, 1), NewTable(m, pt, i))
<1> DEFINE n == NewTable(m, pt, i)
           f == Block(m, 1)
           e == Entry(f, FALSE, TRUE)
           X == m.avail \ Run(f, 1)
           row == [s \in Slot |-> None]
           tab == [m.table EXCEPT ![f] = row]
           k == [m EXCEPT !.table = tab]
<1>1. FRAMES \in Nat /\ LEVELS \in Nat /\ m.avail \subseteq 0..FRAMES
  BY Sizes DEF Memory
<1>2. f \in m.avail /\ f \in Nat /\ f \in Frame
  BY BlockIs
<1> HIDE DEF f
<1>3. e \in AnyEntry /\ e.phys = f /\ ~e.large /\ Present(e)
  <2>1. e = [phys |-> f, large |-> FALSE, write |-> TRUE]
    BY DEF Entry, e
  <2>2. f \in 0..FRAMES /\ f # 0
    BY <1>1, <1>2 DEF Frame
  <2> HIDE DEF e
  <2>3. e \in AnyEntry
    BY <2>1, <2>2 DEF AnyEntry
  <2> QED BY <2>1, <2>2, <2>3 DEF Present
<1> HIDE DEF e
<1>4. row \in [Slot -> AnyEntry] /\ \A s \in Slot : row[s] = None
  BY <1>1 DEF AnyEntry, None
<1> HIDE DEF row
<1>5. m.table \in [Frame -> [Slot -> AnyEntry]]
  BY DEF Memory
<1>6. tab \in [Frame -> [Slot -> AnyEntry]]
      /\ \A g \in Frame : tab[g] = IF g = f THEN row ELSE m.table[g]
  BY <1>2, <1>4, <1>5
<1> HIDE DEF tab
<1>7. k \in Memory /\ k.table = tab /\ k.avail = m.avail /\ k.out = m.out
  BY <1>6 DEF Memory
<1>8. n = Alter(k, X, pt, i, e)
  <2>1. [Grab(m, f, 1) EXCEPT !.table[f] = row] = [[m EXCEPT !.avail = X] EXCEPT !.table = tab]
    BY DEF Grab, Memory, tab
  <2>2. [[m EXCEPT !.avail = X] EXCEPT !.table = tab] = [k EXCEPT !.avail = X]
    BY DEF Memory
  <2>3. n = [[Grab(m, f, 1) EXCEPT !.table[f] = row] EXCEPT !.table[pt][i] = e]
    BY DEF NewTable, SetEntry, f, row, e
  <2>4. n = [[k EXCEPT !.avail = X] EXCEPT !.table[pt][i] = e]
    BY <2>1, <2>2, <2>3
  <2> HIDE DEF k, n, X
  <2>5. [[k EXCEPT !.avail = X] EXCEPT !.table[pt][i] = e] = Alter(k, X, pt, i, e)
    BY <1>7 DEF Alter, Memory
  <2> QED BY <2>4, <2>5
<1>9. X \subseteq 0..FRAMES
  BY <1>1
<1>10. Run(f, 1) = {f}
  <2>1. f + 1 - 1 = f
    BY <1>2
  <2> QED BY <1>2, <2>1 DEF Run
<1>a. e \in AnyEntry
  BY <1>3
<1> HIDE DEF n, X, k
<1>11. /\ n \in Memory /\ n.out = k.out /\ n.avail = X
       /\ \A g \in Frame, j \in Slot :
            n.table[g][j] = IF g = pt /\ j = i THEN e ELSE k.table[g][j]
       /\ \A g \in Frame : g # pt => n.table[g] = k.table[g]
  <2>1. Altered(k, X, pt, i, e, n)
    BY <1>7, <1>8, <1>9, <1>a, AlterIs
  <2> QED BY <2>1 DEF Altered
<1>12. \A g \in Frame, j \in Slot :
         n.table[g][j] = IF g = pt /\ j = i THEN e
                         ELSE IF g = f THEN None ELSE m.table[g][j]
  BY <1>4, <1>6, <1>7, <1>11
<1>13. \A g \in Frame : g # pt /\ g # f => n.table[g] = m.table[g]
  BY <1>6, <1>7, <1>11
<1>14. n.avail = m.avail \ {f} /\ n.out = m.out
  BY <1>7, <1>10, <1>11 DEF X
<1>15. n.table[pt][i] = e
  BY <1>11
<1> QED BY <1>3, <1>11, <1>12, <1>13, <1>14, <1>15 DEF TableMade, n, f

\* The pages of an entry from its first one on.
LEMMA EntryPages ==
  ASSUME NEW l \in 1..LEVELS, NEW v \in Nat, v % Size(l) = 0
  PROVE  \A p \in Nat : Num(p, l - 1) = Num(v, l - 1) <=> v <= p /\ p < v + Size(l)
<1> DEFINE s == Size(l)
           c == Num(v, l - 1)
<1>1. /\ s \in Nat /\ s >= 1
      /\ \A p \in Nat : p % s \in 0..s - 1 /\ p = Num(p, l - 1) * s + (p % s)
      /\ \A a \in Nat, b \in 0..s - 1 : Num(a * s + b, l - 1) = a
  BY EntryRegions
<1>2. c \in Nat
  <2>1. l - 1 \in 0..LEVELS
    BY Sizes
  <2> QED BY <2>1, Numbers
<1>3. v = c * s
  BY NextAligned
<1> HIDE DEF c, s
<1>4. TAKE p \in Nat
<1>5. ASSUME Num(p, l - 1) = c PROVE v <= p /\ p < v + s
  <2>1. p = v + (p % s) /\ p % s \in 0..s - 1
    BY <1>1, <1>3, <1>5
  <2> DEFINE o == p % s
  <2>2. p = v + o /\ o \in 0..s - 1
    BY <2>1
  <2> HIDE DEF o
  <2> QED BY <1>1, <2>2
<1>6. ASSUME v <= p, p < v + s PROVE Num(p, l - 1) = c
  <2> DEFINE o == p - v
  <2>1. o \in 0..s - 1 /\ p = v + o
    BY <1>1, <1>6
  <2> HIDE DEF o
  <2>2. p = c * s + o
    BY <1>3, <2>1
  <2> QED BY <1>1, <1>2, <2>1, <2>2
<1> QED BY <1>5, <1>6 DEF c, s

\* All pages of the entry that p lies in are in the range.
Inside(from, to, k, p) ==
  \A w \in Nat : Num(w, k - 1) = Num(p, k - 1) => from <= w /\ w < to

\* From the memory old and the tree u of r in it, pt_map has made new and w: the pages
\* from "from" up to cur are mapped now, and there are tables for pages up to "to".
Grown(old, r, u, from, to, new, w, cur) ==
  /\ new \in Memory /\ Tree(new.table, r, w)
  /\ new.avail \subseteq old.avail /\ new.avail \cap DOMAIN w = {}
  /\ DOMAIN w = DOMAIN u \cup (old.avail \ new.avail)
  /\ \A f \in DOMAIN u : w[f] = u[f]
  /\ \A g \in Frame \ DOMAIN w : new.table[g] = old.table[g]
  /\ \A f \in DOMAIN w \ DOMAIN u, p \in Nat : Covers(w, f, 0, p) => from <= p /\ p < cur
  /\ \A p \in Nat : from <= p /\ p < cur => \E f \in DOMAIN w : Covers(w, f, 0, p)
  /\ \A g \in DOMAIN w \ DOMAIN u : w[g].lvl # 0 =>
       \E p \in Nat : from <= p /\ p < to /\ Covers(w, g, w[g].lvl, p)
  /\ \A p \in Nat, k \in 2..LEVELS : from <= p /\ p < cur =>
       (\E g \in DOMAIN w : Covers(w, g, k - 1, p)) \/ Inside(from, to, k, p)

\* pt_map adds a table.
LEMMA GrowTable ==
  ASSUME NEW old \in Memory, old.avail \subseteq Frame, NEW r, NEW u, NEW from \in Nat,
         NEW to \in Nat, NEW m, NEW w, NEW cur \in Nat,
         Grown(old, r, u, from, to, m, w, cur), from <= cur, cur < to,
         NEW pt, NEW l \in 2..LEVELS, Covers(w, pt, l, cur),
         ~Present(m.table[pt][Index(cur, l)]), NEW f \in m.avail, NEW n,
         TableMade(m, pt, Index(cur, l), f, n)
  PROVE  \E x : /\ Grown(old, r, u, from, to, n, x, cur)
                /\ Covers(x, n.table[pt][Index(cur, l)].phys, l - 1, cur)
<1> DEFINE i == Index(cur, l)
           x == WithTable(w, f, l - 1, Num(cur, l - 1))
<1>1. /\ m \in Memory /\ Tree(m.table, r, w)
      /\ m.avail \subseteq old.avail /\ m.avail \cap DOMAIN w = {}
      /\ DOMAIN w = DOMAIN u \cup (old.avail \ m.avail)
  BY DEF Grown
<1>2. f \in Frame \ DOMAIN w /\ pt \in DOMAIN w /\ pt # f
  BY <1>1 DEF Covers
<1>3. PICK e \in AnyEntry :
        /\ e.phys = f /\ ~e.large /\ n.table[pt][i] = e
        /\ n \in Memory /\ n.out = m.out /\ n.avail = m.avail \ {f}
        /\ \A g \in Frame, j \in Slot :
             n.table[g][j] = IF g = pt /\ j = i THEN e
                             ELSE IF g = f THEN None ELSE m.table[g][j]
        /\ \A g \in Frame : g # pt /\ g # f => n.table[g] = m.table[g]
  BY DEF TableMade
<1>4. Tree(n.table, r, x)
  <2> DEFINE tab == n.table
             tam == m.table
  <2>1. \A g \in Frame, j \in Slot :
          tab[g][j] = IF g = pt /\ j = Index(cur, l) THEN e
                      ELSE IF g = f THEN None ELSE tam[g][j]
    BY <1>3
  <2>2. Tree(tam, r, w) /\ ~Present(tam[pt][Index(cur, l)])
    BY <1>1
  <2>3. e.phys = f /\ ~e.large
    BY <1>3
  <2> HIDE DEF tab, tam, i
  <2>4. Tree(tab, r, WithTable(w, f, l - 1, Num(cur, l - 1)))
    BY <1>2, <2>1, <2>2, <2>3, AddTable
  <2> QED BY <2>4 DEF tab
<1>5. DOMAIN x = DOMAIN w \cup {f} /\ x[f].lvl = l - 1 /\ x[f].num = Num(cur, l - 1)
      /\ \A g \in DOMAIN w : x[g] = w[g]
  BY <1>2 DEF WithTable
<1> HIDE DEF x, i
<1>6. \A g, k, p : Covers(w, g, k, p) => Covers(x, g, k, p)
  BY <1>5 DEF Covers
<1>7. \A g \in DOMAIN x : \A k, p : Covers(x, g, k, p) /\ g # f => Covers(w, g, k, p)
  BY <1>5 DEF Covers
<1>8. Covers(x, f, l - 1, cur)
  BY <1>5 DEF Covers
<1>9. l - 1 # 0
  BY Sizes
<1>10. /\ n.avail \subseteq old.avail /\ n.avail \cap DOMAIN x = {}
       /\ DOMAIN x = DOMAIN u \cup (old.avail \ n.avail)
  BY <1>1, <1>3, <1>5
<1>11. \A g \in DOMAIN u : x[g] = u[g]
  BY <1>1, <1>5 DEF Grown
<1>12. \A g \in Frame \ DOMAIN x : n.table[g] = old.table[g]
  <2>1. \A g \in Frame \ DOMAIN x : g # pt /\ g # f /\ g \notin DOMAIN w
    BY <1>2, <1>5
  <2> QED BY <1>3, <2>1 DEF Grown
<1>13. \A g \in DOMAIN x \ DOMAIN u, p \in Nat : Covers(x, g, 0, p) => from <= p /\ p < cur
  <2>1. TAKE g \in DOMAIN x \ DOMAIN u, p \in Nat
  <2>2. HAVE Covers(x, g, 0, p)
  <2>3. g # f
    BY <1>5, <1>9, <2>2 DEF Covers
  <2>4. Covers(w, g, 0, p) /\ g \in DOMAIN w \ DOMAIN u
    BY <1>5, <1>7, <2>2, <2>3
  <2> QED BY <2>4 DEF Grown
<1>14. \A p \in Nat : from <= p /\ p < cur => \E g \in DOMAIN x : Covers(x, g, 0, p)
  BY <1>5, <1>6 DEF Grown
<1>15. \A g \in DOMAIN x \ DOMAIN u : x[g].lvl # 0 =>
         \E p \in Nat : from <= p /\ p < to /\ Covers(x, g, x[g].lvl, p)
  <2>1. TAKE g \in DOMAIN x \ DOMAIN u
  <2>2. HAVE x[g].lvl # 0
  <2>3. CASE g = f
    BY <1>5, <1>8, <2>3
  <2>4. CASE g # f
    <3>1. g \in DOMAIN w \ DOMAIN u /\ x[g] = w[g]
      BY <1>5, <2>4
    <3> QED BY <1>6, <2>2, <3>1 DEF Grown
  <2> QED BY <2>3, <2>4
<1>16. \A p \in Nat, k \in 2..LEVELS : from <= p /\ p < cur =>
         (\E g \in DOMAIN x : Covers(x, g, k - 1, p)) \/ Inside(from, to, k, p)
  BY <1>5, <1>6 DEF Grown
<1>17. Grown(old, r, u, from, to, n, x, cur)
  BY <1>3, <1>4, <1>10, <1>11, <1>12, <1>13, <1>14, <1>15, <1>16 DEF Grown
<1> QED BY <1>3, <1>8, <1>17 DEF i

\* pt_map adds a page, or a large one.
LEMMA GrowLeaf ==
  ASSUME NEW old \in Memory, old.avail \subseteq Frame, NEW r, NEW u, NEW from \in Nat,
         NEW to \in Nat, NEW m, NEW w, NEW cur \in Nat,
         Grown(old, r, u, from, to, m, w, cur), from <= cur,
         NEW pt, NEW l \in 1..LEVELS, Covers(w, pt, l, cur),
         ~Present(m.table[pt][Index(cur, l)]), cur % Size(l) = 0, cur + Size(l) <= to,
         NEW f \in Nat, Run(f, Size(l)) \subseteq m.avail, NEW n,
         LeafMade(m, pt, Index(cur, l), l, f, n)
  PROVE  \E x : Grown(old, r, u, from, to, n, x, cur + Size(l))
<1> DEFINE i == Index(cur, l)
           s == Size(l)
           R == Run(f, s)
           x == WithPages(w, f, s, cur)
<1>0. s \in Nat /\ s >= 1 /\ LEVELS \in Nat /\ l \in Nat /\ l \in 0..LEVELS /\ l - 1 \in 0..LEVELS
      /\ Size(1) = 1 /\ (l - 1) + 1 = l
  BY Sizes
<1>1. /\ m \in Memory /\ Tree(m.table, r, w)
      /\ m.avail \subseteq old.avail /\ m.avail \cap DOMAIN w = {}
      /\ DOMAIN w = DOMAIN u \cup (old.avail \ m.avail)
  BY DEF Grown
<1>2. R \subseteq Frame \ DOMAIN w /\ pt \in DOMAIN w
  BY <1>1 DEF Covers
<1>3. PICK e \in AnyEntry : /\ e.phys = f /\ (l = 1 \/ e.large)
                            /\ Altered(m, m.avail \ R, pt, i, e, n)
  BY DEF LeafMade
<1>4. Tree(n.table, r, x)
  <2> DEFINE tab == n.table
             tam == m.table
  <2>1. \A g \in Frame, j \in Slot :
          tab[g][j] = IF g = pt /\ j = Index(cur, l) THEN e ELSE tam[g][j]
    BY <1>3 DEF Altered
  <2>2. Tree(tam, r, w) /\ ~Present(tam[pt][Index(cur, l)])
    BY <1>1
  <2>3. e.phys = f /\ (l = 1 \/ e.large)
    BY <1>3
  <2> HIDE DEF tab, tam, i
  <2>4. Tree(tab, r, WithPages(w, f, Size(l), Num(cur, l - 1) * Size(l)))
    BY <1>2, <2>1, <2>2, <2>3, AddLeaf
  <2>5. Num(cur, l - 1) * Size(l) = cur
    BY NextAligned
  <2> QED BY <2>4, <2>5 DEF tab
<1>5. DOMAIN x = DOMAIN w \cup R
      /\ (\A g \in DOMAIN w : x[g] = w[g])
      /\ \A g \in R : x[g].lvl = 0 /\ x[g].num = cur + (g - f)
  BY <1>2 DEF WithPages
<1>6. \A g, k, p : Covers(w, g, k, p) => Covers(x, g, k, p)
  <2> HIDE DEF x
  <2> QED BY <1>5 DEF Covers
<1>7. \A g, k, p : Covers(x, g, k, p) => Covers(w, g, k, p) \/ (g \in R /\ k = 0)
  <2> HIDE DEF x
  <2> QED BY <1>5 DEF Covers
<1>8. \A g \in R, p \in Nat : Covers(x, g, 0, p) <=> p = cur + (g - f)
  <2>1. \A p \in Nat : Num(p, 0) = p
    BY Numbers
  <2> HIDE DEF x
  <2> QED BY <1>5, <2>1 DEF Covers
<1>9. \A g : g \in R <=> g \in Nat /\ f <= g /\ g < f + s
  <2>1. R = f .. f + s - 1
    BY DEF Run
  <2> HIDE DEF R, s
  <2> QED BY <1>0, <2>1
<1>10. /\ n \in Memory /\ n.out = m.out /\ n.avail = m.avail \ R
       /\ \A g \in Frame : g # pt => n.table[g] = m.table[g]
  BY <1>3 DEF Altered
<1> DEFINE end == cur + s
<1> HIDE DEF x, i, R, s
<1>11. \A p \in Nat : p < end <=> p < cur \/ (cur <= p /\ p < end)
  BY <1>0
<1>12. /\ n.avail \subseteq old.avail /\ n.avail \cap DOMAIN x = {}
       /\ DOMAIN x = DOMAIN u \cup (old.avail \ n.avail)
  <2>1. R \subseteq m.avail
    BY DEF R, s
  <2> QED BY <1>1, <1>5, <1>10, <2>1
<1>13. \A g \in DOMAIN u : x[g] = w[g] /\ w[g] = u[g]
  BY <1>1, <1>5 DEF Grown
<1>14. \A g \in Frame \ DOMAIN x : n.table[g] = old.table[g]
  <2>1. \A g \in Frame \ DOMAIN x : g # pt /\ g \notin DOMAIN w
    BY <1>2, <1>5
  <2> QED BY <1>10, <2>1 DEF Grown
<1>15. \A g \in DOMAIN x \ DOMAIN u, p \in Nat : Covers(x, g, 0, p) => from <= p /\ p < end
  <2>1. TAKE g \in DOMAIN x \ DOMAIN u, p \in Nat
  <2>2. HAVE Covers(x, g, 0, p)
  <2>3. CASE Covers(w, g, 0, p)
    <3>1. g \in DOMAIN w \ DOMAIN u
      BY <2>3 DEF Covers
    <3>2. from <= p /\ p < cur
      BY <2>3, <3>1 DEF Grown
    <3> QED BY <1>0, <3>2
  <2>4. CASE g \in R
    <3>1. p = cur + (g - f) /\ g \in Nat /\ f <= g /\ g < f + s
      BY <1>8, <1>9, <2>2, <2>4
    <3> QED BY <1>0, <3>1
  <2> QED BY <1>7, <2>2, <2>3, <2>4
<1>16. \A p \in Nat : from <= p /\ p < end => \E g \in DOMAIN x : Covers(x, g, 0, p)
  <2>1. TAKE p \in Nat
  <2>2. HAVE from <= p /\ p < end
  <2>3. CASE p < cur
    BY <1>5, <1>6, <2>2, <2>3 DEF Grown
  <2>4. CASE cur <= p
    <3> DEFINE g == f + (p - cur)
    <3>1. g \in Nat /\ f <= g /\ g < f + s /\ p = cur + (g - f)
      BY <1>0, <2>2, <2>4
    <3> HIDE DEF g
    <3>2. g \in R
      BY <1>9, <3>1
    <3>3. Covers(x, g, 0, p)
      BY <1>8, <3>1, <3>2
    <3> QED BY <1>5, <3>2, <3>3
  <2> QED BY <2>3, <2>4
<1>17. \A g \in DOMAIN x \ DOMAIN u : x[g].lvl # 0 =>
         \E p \in Nat : from <= p /\ p < to /\ Covers(x, g, x[g].lvl, p)
  <2>1. TAKE g \in DOMAIN x \ DOMAIN u
  <2>2. HAVE x[g].lvl # 0
  <2>3. g \in DOMAIN w \ DOMAIN u /\ x[g] = w[g]
    BY <1>5, <2>2
  <2> QED BY <1>6, <2>2, <2>3 DEF Grown
<1>18. \A p \in Nat : Num(p, l - 1) = Num(cur, l - 1) <=> cur <= p /\ p < end
  BY EntryPages DEF s
<1>19. ASSUME NEW p \in Nat, cur <= p, p < end, NEW k \in 2..LEVELS
       PROVE  (\E g \in DOMAIN x : Covers(x, g, k - 1, p)) \/ Inside(from, to, k, p)
  <2>1. Num(p, l - 1) = Num(cur, l - 1)
    BY <1>18, <1>19
  <2>2. k \in Nat /\ k - 1 \in 0..LEVELS /\ k >= 2 /\ k <= LEVELS
    BY <1>0
  <2>3. CASE k <= l
    <3>1. SUFFICES ASSUME NEW v \in Nat, Num(v, k - 1) = Num(p, k - 1) PROVE from <= v /\ v < to
      BY DEF Inside
    <3>2. l - 1 \in k - 1..LEVELS
      BY <1>0, <2>2, <2>3
    <3>3. Num(v, l - 1) = Num(p, l - 1)
      BY <2>2, <3>1, <3>2, NumberUp
    <3>4. cur <= v /\ v < end
      BY <1>18, <2>1, <3>3
    <3>5. end <= to
      BY DEF s
    <3> HIDE DEF end
    <3>6. end \in Nat
      BY <1>0 DEF end
    <3> QED BY <3>4, <3>5, <3>6
  <2>4. CASE k > l
    <3>1. k - 1 \in l - 1..LEVELS
      BY <1>0, <2>2, <2>4
    <3>2. Num(p, k - 1) = Num(cur, k - 1)
      BY <1>0, <2>1, <3>1, NumberUp
    <3>3. \E g \in DOMAIN w : Covers(w, g, k - 1, cur)
      <4>1. CASE k - 1 = l
        BY <1>2, <4>1
      <4>2. CASE k - 1 # l
        <5>1. k - 1 \in l + 1..LEVELS
          BY <1>0, <2>2, <2>4, <4>2
        <5>2. Upward(m.table, w)
          BY <1>1 DEF Tree
        <5> QED BY <5>1, <5>2, Ancestor
      <4> QED BY <4>1, <4>2
    <3>4. PICK g \in DOMAIN w : Covers(w, g, k - 1, cur)
      BY <3>3
    <3>5. Covers(w, g, k - 1, p)
      BY <3>2, <3>4 DEF Covers
    <3> QED BY <1>5, <1>6, <3>5
  <2> QED BY <1>0, <2>2, <2>3, <2>4
<1>20. \A p \in Nat, k \in 2..LEVELS : from <= p /\ p < end =>
         (\E g \in DOMAIN x : Covers(x, g, k - 1, p)) \/ Inside(from, to, k, p)
  <2>1. TAKE p \in Nat, k \in 2..LEVELS
  <2>2. HAVE from <= p /\ p < end
  <2>3. CASE p < cur
    BY <1>5, <1>6, <2>2, <2>3 DEF Grown
  <2>4. CASE cur <= p
    BY <1>19, <2>2, <2>4
  <2> QED BY <2>3, <2>4
<1> HIDE DEF end
<1>21. Grown(old, r, u, from, to, n, x, end)
  BY <1>4, <1>10, <1>12, <1>13, <1>14, <1>15, <1>16, <1>17, <1>20 DEF Grown
<1> QED BY <1>21 DEF end, s

\* No page of the range is in the tree u.
Fresh(u, from, to) ==
  \A f \in DOMAIN u, p \in Nat : Covers(u, f, 0, p) => ~(from <= p /\ p < to)

MapStates == [m : Memory, pt : Frame, lvl : 1..LEVELS, virt : Nat, size : Nat]

\* pt_map has come as far as the state s.
Ahead(old, r, u, from, to, s) ==
  /\ s \in MapStates /\ from <= s.virt /\ s.virt + s.size = to
  /\ \E w : /\ Grown(old, r, u, from, to, s.m, w, s.virt)
            /\ s.size # 0 => Covers(w, s.pt, s.lvl, s.virt)

\* A turn goes a level down or past some pages, until it is over.
Further(s, t) ==
  \/ t.size = 0 \/ t.m.out # "ok"
  \/ t.virt = s.virt /\ t.lvl = s.lvl - 1
  \/ t.virt > s.virt /\ t.lvl = LEVELS

\* How a walk ended is not part of what Grown says.
LEMMA GrownOut ==
  ASSUME NEW old, NEW r, NEW u, NEW from, NEW to, NEW m, NEW w, NEW cur,
         Grown(old, r, u, from, to, m, w, cur), NEW out \in {"ok", "fail", "hang"}
  PROVE  Grown(old, r, u, from, to, [m EXCEPT !.out = out], w, cur)
<1> DEFINE n == [m EXCEPT !.out = out]
<1>1. m \in Memory
  BY DEF Grown
<1>2. n \in Memory /\ n.table = m.table /\ n.avail = m.avail
  BY <1>1 DEF Memory
<1> HIDE DEF n
<1>3. Grown(old, r, u, from, to, n, w, cur)
  BY <1>2 DEF Grown
<1> QED BY <1>3 DEF n

\* A turn of pt_map goes on with what it has done so far, and comes further.
LEMMA MapTurnKeeps ==
  ASSUME NEW old \in Memory, old.avail \subseteq Frame, NEW r, NEW u,
         Tree(old.table, r, u), NEW from \in Nat, NEW to \in Nat, to <= END,
         Fresh(u, from, to), NEW write \in BOOLEAN,
         NEW s, Ahead(old, r, u, from, to, s), s.size # 0, s.m.out = "ok"
  PROVE  /\ Ahead(old, r, u, from, to, MapTurn(r, write)[s])
         /\ Further(s, MapTurn(r, write)[s])
<1> DEFINE t == MapTurn(r, write)[s]
           m == s.m
           pt == s.pt
           l == s.lvl
           cur == s.virt
           z == Size(l)
           i == Index(cur, l)
           e == m.table[pt][i]
           tomap == Smaller(s.size, z - (cur % z))
           Past(n) == [m |-> n, pt |-> r, lvl |-> LEVELS, virt |-> cur + tomap,
                       size |-> s.size - tomap]
           Down(n) == [s EXCEPT !.m = n, !.pt = n.table[pt][i].phys, !.lvl = @ - 1]
<1>1. /\ s \in MapStates /\ m \in Memory /\ pt \in Frame /\ l \in 1..LEVELS /\ cur \in Nat
      /\ s.size \in Nat /\ from <= cur /\ cur + s.size = to /\ s.size >= 1
  BY DEF Ahead, MapStates
<1>2. PICK w : Grown(old, r, u, from, to, m, w, cur) /\ Covers(w, pt, l, cur)
  BY DEF Ahead
<1>3. Tree(m.table, r, w) /\ m.avail \subseteq Frame /\ m.avail \cap DOMAIN w = {}
  BY <1>2 DEF Grown
<1>4. LEVELS \in Nat /\ LEVELS >= 1 /\ FRAMES \in Nat /\ z \in Nat /\ z >= 1 /\ Size(1) = 1
      /\ LEVELS \in 1..LEVELS
  BY <1>1, Sizes
<1>5. i \in Slot /\ e \in AnyEntry
  <2>1. i \in Slot
    BY <1>1, Numbers
  <2> HIDE DEF i
  <2> QED BY <1>1, <2>1 DEF Memory
<1>6. t = IF Present(e) THEN IF l = 1 THEN Past(m) ELSE Down(m)
          ELSE IF Leaf(l, cur, tomap) /\ Blocks(m, z) # {}
          THEN Past(NewLeaf(m, pt, i, l, write))
          ELSE IF l = 1 THEN [s EXCEPT !.m.out = "fail"]
          ELSE IF Blocks(m, 1) = {} THEN [s EXCEPT !.m.out = "hang"]
          ELSE Down(NewTable(m, pt, i))
  BY <1>1 DEF MapTurn, MapStates
<1>7. r \in DOMAIN u /\ u[r].lvl = LEVELS /\ u[r].num = 0 /\ r \in Frame
  BY DEF Tree, Places
\* The page the walk is at is not mapped yet.
<1>8. \A f : ~Covers(w, f, 0, cur)
  <2>1. SUFFICES ASSUME NEW f, Covers(w, f, 0, cur) PROVE FALSE
    OBVIOUS
  <2>2. f \in DOMAIN w
    BY <2>1 DEF Covers
  <2>3. CASE f \in DOMAIN u
    <3>1. w[f] = u[f]
      BY <1>2, <2>3 DEF Grown
    <3>2. Covers(u, f, 0, cur)
      BY <2>1, <2>3, <3>1 DEF Covers
    <3>3. ~(from <= cur /\ cur < to)
      BY <1>1, <2>3, <3>2 DEF Fresh
    <3> QED BY <1>1, <3>3
  <2>4. CASE f \notin DOMAIN u
    <3>1. cur < cur
      BY <1>1, <1>2, <2>1, <2>2, <2>4 DEF Grown
    <3> QED BY <1>1, <3>1
  <2> QED BY <2>3, <2>4
<1>9. ~LeafEntry(e, l)
  BY <1>1, <1>2, <1>3, <1>8 DEF Tree, Downward, Covers
<1> HIDE DEF t, e, tomap
<1>10. CASE Present(e)
  <2>1. InnerEntry(e, l) /\ l # 1
    BY <1>9, <1>10 DEF InnerEntry, LeafEntry
  <2>2. Covers(w, e.phys, l - 1, cur)
    <3>1. Downward(m.table, w) /\ pt \in DOMAIN w
      BY <1>2, <1>3 DEF Tree, Covers
    <3>2. InnerEntry(m.table[pt][Index(cur, l)], l)
      BY <2>1 DEF e
    <3>3. Covers(w, m.table[pt][Index(cur, l)].phys, l - 1, cur)
      BY <1>1, <1>2, <3>1, <3>2 DEF Downward
    <3> QED BY <3>3 DEF e
  <2>3. e.phys \in Frame
    BY <1>3, <2>2 DEF Covers, Tree, Places
  <2>4. t = Down(m)
    BY <1>6, <1>10, <2>1
  <2>5. l - 1 \in 1..LEVELS
    BY <1>1, <1>4, <2>1
  <2>6. t \in MapStates /\ t.m = m /\ t.pt = e.phys /\ t.lvl = l - 1 /\ t.virt = cur /\ t.size = s.size
    BY <1>1, <2>3, <2>4, <2>5 DEF MapStates, e
  <2> QED BY <1>1, <1>2, <2>2, <2>6 DEF Ahead, Further, t
<1>11. CASE ~Present(e) /\ Leaf(l, cur, tomap) /\ Blocks(m, z) # {}
  <2> DEFINE n == NewLeaf(m, pt, i, l, write)
             f == Block(m, z)
  <2>1. tomap = z /\ cur % z = 0 /\ z <= s.size
    <3>1. CASE l = 1
      <4>1. z = 1 /\ cur % 1 = 0
        BY <1>1, <1>4, <3>1
      <4> QED BY <1>1, <4>1 DEF tomap, Smaller
    <3>2. CASE l # 1
      <4>1. tomap = z /\ cur % z = 0
        BY <1>11, <3>2 DEF Leaf, CanBeLarge
      <4>2. tomap = Smaller(s.size, z)
        <5>1. z - 0 = z
          BY <1>4
        <5> QED BY <4>1, <5>1 DEF tomap
      <4> HIDE DEF z
      <4> QED BY <1>1, <1>4, <4>1, <4>2 DEF Smaller
    <3> QED BY <3>1, <3>2
  <2>2. f \in Nat /\ Run(f, z) \subseteq m.avail
    BY <1>1, <1>11, BlockIs
  <2>3. LeafMade(m, pt, i, l, f, n)
    BY <1>1, <1>5, <1>11, NewLeafIs
  <2>4. cur + z <= to
    BY <1>1, <1>4, <2>1
  <2> HIDE DEF n, f
  <2>5. PICK x : Grown(old, r, u, from, to, n, x, cur + z)
    <3>1. ~Present(m.table[pt][Index(cur, l)])
      BY <1>11 DEF e
    <3> QED BY <1>1, <1>2, <2>1, <2>2, <2>3, <2>4, <3>1, GrowLeaf
  <2>6. t = Past(n)
    BY <1>6, <1>11 DEF n
  <2>7. n \in Memory
    BY <2>5 DEF Grown
  <2>8. /\ cur + z \in Nat /\ s.size - z \in Nat /\ from <= cur + z
        /\ (cur + z) + (s.size - z) = to /\ cur + z > cur
    <3> HIDE DEF z
    <3> QED BY <1>1, <1>4, <2>1
  <2>9. t \in MapStates /\ t.m = n /\ t.pt = r /\ t.lvl = LEVELS /\ t.virt = cur + z
        /\ t.size = s.size - z
    BY <1>4, <1>7, <2>1, <2>6, <2>7, <2>8 DEF MapStates
  <2>10. s.size - z # 0 => Covers(x, r, LEVELS, cur + z)
    <3>1. HAVE s.size - z # 0
    <3>2. cur + z < Size(LEVELS + 1)
      <4>1. END \in Nat /\ END <= Size(LEVELS + 1) /\ Size(LEVELS + 1) \in Nat
        BY <1>4, Half, Digits
      <4> DEFINE y == Size(LEVELS + 1)
      <4>2. END \in Nat /\ END <= y /\ y \in Nat
        BY <4>1
      <4> HIDE DEF z, y
      <4>3. cur + z < y
        BY <1>1, <1>4, <2>8, <3>1, <4>2
      <4> QED BY <4>3 DEF y
    <3>3. Num(cur + z, LEVELS) = 0
      BY <2>8, <3>2, Numbers
    <3>4. r \in DOMAIN x /\ x[r] = u[r]
      BY <1>7, <2>5 DEF Grown
    <3> QED BY <1>7, <3>3, <3>4 DEF Covers
  <2> HIDE DEF z
  <2> QED BY <2>5, <2>8, <2>9, <2>10 DEF Ahead, Further, t
<1>12. ASSUME NEW out \in {"fail", "hang"}, t = [s EXCEPT !.m.out = out]
       PROVE  Ahead(old, r, u, from, to, t) /\ Further(s, t)
  <2> DEFINE n == [m EXCEPT !.out = out]
  <2>1. Grown(old, r, u, from, to, n, w, cur)
    BY <1>2, GrownOut
  <2>2. n \in Memory /\ n.out = out
    BY <1>1 DEF Memory
  <2>3. t = [s EXCEPT !.m = n]
    BY <1>1, <1>12 DEF MapStates
  <2> HIDE DEF n
  <2>4. t \in MapStates /\ t.m = n /\ t.pt = pt /\ t.lvl = l /\ t.virt = cur /\ t.size = s.size
    BY <1>1, <2>2, <2>3 DEF MapStates
  <2> QED BY <1>1, <1>2, <2>1, <2>2, <2>4 DEF Ahead, Further
<1>13. CASE ~Present(e) /\ ~(Leaf(l, cur, tomap) /\ Blocks(m, z) # {}) /\ (l = 1 \/ Blocks(m, 1) = {})
  <2>1. t = [s EXCEPT !.m.out = "fail"] \/ t = [s EXCEPT !.m.out = "hang"]
    BY <1>6, <1>13
  <2> QED BY <1>12, <2>1 DEF t
<1>14. CASE ~Present(e) /\ ~(Leaf(l, cur, tomap) /\ Blocks(m, z) # {}) /\ ~(l = 1 \/ Blocks(m, 1) = {})
  <2> DEFINE n == NewTable(m, pt, i)
             f == Block(m, 1)
  <2>1. t = Down(n)
    BY <1>6, <1>14
  <2>2. f \in m.avail
    BY <1>1, <1>14, BlockIs
  <2>3. pt \notin m.avail
    BY <1>2, <1>3 DEF Covers
  <2>4. TableMade(m, pt, i, f, n)
    BY <1>1, <1>3, <1>5, <1>14, <2>3, NewTableIs
  <2>5. l \in 2..LEVELS /\ l - 1 \in 1..LEVELS
    BY <1>1, <1>4, <1>14
  <2>6. cur < to
    BY <1>1
  <2> HIDE DEF n, f
  <2>7. PICK x : /\ Grown(old, r, u, from, to, n, x, cur)
                 /\ Covers(x, n.table[pt][i].phys, l - 1, cur)
    <3>1. ~Present(m.table[pt][Index(cur, l)])
      BY <1>14 DEF e
    <3> QED BY <1>1, <1>2, <2>2, <2>4, <2>5, <2>6, <3>1, GrowTable
  <2>8. n \in Memory /\ n.table[pt][i].phys \in Frame
    BY <2>7 DEF Covers, Grown, Tree, Places
  <2>9. t \in MapStates /\ t.m = n /\ t.pt = n.table[pt][i].phys /\ t.lvl = l - 1
        /\ t.virt = cur /\ t.size = s.size
    BY <1>1, <2>1, <2>5, <2>8 DEF MapStates
  <2> QED BY <1>1, <2>7, <2>9 DEF Ahead, Further, t
<1> QED BY <1>10, <1>11, <1>13, <1>14 DEF t

-----------------------------------------------------------------------------
(* pt_map.                                                                 *)

\* After k turns pt_map is over, or this far.
Progress(from, s, k) ==
  \/ s.size = 0 \/ s.m.out # "ok"
  \/ (s.virt - from) * LEVELS + (LEVELS - s.lvl) >= k

\* The progress a turn makes adds up.
LEMMA ProgressKeeps ==
  ASSUME NEW from \in Nat, NEW s \in MapStates, NEW t \in MapStates, NEW k \in Nat,
         from <= s.virt, Progress(from, s, k), s.size # 0, s.m.out = "ok", Further(s, t)
  PROVE  Progress(from, t, k + 1)
<1> DEFINE a == s.virt - from
           b == t.virt - from
           L == LEVELS
<1>1. /\ s.virt \in Nat /\ t.virt \in Nat /\ s.lvl \in 1..L /\ t.lvl \in 1..L
      /\ L \in Nat /\ L >= 1 /\ a \in Nat
  BY Sizes DEF MapStates
<1>2. a * L + (L - s.lvl) >= k
  BY DEF Progress
<1>3. CASE t.size = 0 \/ t.m.out # "ok"
  BY <1>3 DEF Progress
<1>4. CASE t.virt = s.virt /\ t.lvl = s.lvl - 1
  <2> DEFINE A == a * L
  <2>1. A \in Nat
    <3> HIDE DEF a, L
    <3> QED BY <1>1
  <2>2. A + (L - s.lvl) >= k /\ b * L = A /\ t.lvl = s.lvl - 1
    BY <1>2, <1>4
  <2> HIDE DEF A, L, a, b
  <2>3. A + (L - t.lvl) >= k + 1
    BY <1>1, <2>1, <2>2
  <2>4. b * L + (L - t.lvl) >= k + 1
    BY <2>2, <2>3
  <2> QED BY <2>4 DEF Progress, L, b
<1>5. CASE t.virt > s.virt /\ t.lvl = LEVELS
  <2> DEFINE d == b - a - 1
  <2>1. d \in Nat /\ b = (a + d) + 1 /\ t.lvl = L
    BY <1>1, <1>5
  <2> HIDE DEF L, a, b, d
  <2>2. b * L = a * L + d * L + L /\ a * L \in Nat /\ d * L \in Nat
    BY <1>1, <2>1
  <2> DEFINE A == a * L
             B == b * L
             D == d * L
  <2>3. B = (A + D) + L /\ A \in Nat /\ D \in Nat /\ A + (L - s.lvl) >= k
    BY <1>2, <2>2
  <2> HIDE DEF A, B, D
  <2>4. B + (L - t.lvl) >= k + 1
    BY <1>1, <2>1, <2>3
  <2>5. b * L + (L - t.lvl) >= k + 1
    BY <2>4 DEF B
  <2> QED BY <2>5 DEF Progress, b, L
<1> QED BY <1>3, <1>4, <1>5 DEF Further

\* What pt_map makes of a tree that has no page of the range yet.
LEMMA MapGrows ==
  ASSUME NEW old \in Memory, old.avail \subseteq Frame, old.out = "ok", NEW r, NEW u,
         Tree(old.table, r, u), old.avail \cap DOMAIN u = {},
         NEW from \in Nat, NEW to \in Nat, from < to, to <= END,
         Fresh(u, from, to), NEW write \in BOOLEAN
  PROVE  \E w : \E cur \in Nat :
           /\ Grown(old, r, u, from, to, pt_map(old, r, from, to - from, write), w, cur)
           /\ from <= cur /\ cur <= to
           /\ pt_map(old, r, from, to - from, write).out = "ok" => cur = to
<1> DEFINE size == to - from
           s0 == [m |-> old, pt |-> r, lvl |-> LEVELS, virt |-> from, size |-> size]
           turn == MapTurn(r, write)
           n == size * LEVELS
           I == [k \in 0..n |-> {s \in MapStates : Ahead(old, r, u, from, to, s)
                                                     /\ Progress(from, s, k)}]
<1>1. LEVELS \in Nat /\ LEVELS >= 1 /\ size \in Nat /\ size >= 1 /\ LEVELS \in 1..LEVELS
      /\ from + size = to
  BY Sizes
<1>2. n \in Nat
  BY <1>1
<1>3. r \in DOMAIN u /\ u[r].lvl = LEVELS /\ u[r].num = 0 /\ r \in Frame
  BY DEF Tree, Places
<1>4. Grown(old, r, u, from, to, old, u, from)
  <2>1. \A p \in Nat : ~(from <= p /\ p < from)
    OBVIOUS
  <2>2. DOMAIN u = DOMAIN u \cup (old.avail \ old.avail)
    OBVIOUS
  <2> QED BY <2>1, <2>2 DEF Grown
<1>5. Covers(u, r, LEVELS, from)
  <2>1. from < Size(LEVELS + 1)
    <3> DEFINE y == Size(LEVELS + 1)
    <3>1. END \in Nat /\ END <= y /\ y \in Nat
      BY <1>1, Half, Digits
    <3> HIDE DEF y
    <3>2. from < y
      BY <3>1
    <3> QED BY <3>2 DEF y
  <2> QED BY <1>3, <2>1, Numbers DEF Covers
<1>6. s0 \in MapStates /\ Ahead(old, r, u, from, to, s0)
  <2>1. s0 \in MapStates
    BY <1>1, <1>3 DEF MapStates
  <2> HIDE DEF size
  <2> QED BY <1>1, <1>4, <1>5, <2>1 DEF Ahead
<1>7. Progress(from, s0, 0)
  <2>1. (from - from) * LEVELS + (LEVELS - LEVELS) = 0
    BY <1>1
  <2> QED BY <2>1 DEF Progress
<1> HIDE DEF s0, n, turn
<1>8. s0 \in I[0]
  BY <1>2, <1>6, <1>7
<1>9. \A k \in 0..n - 1 : \A s \in I[k] : turn[s] \in I[k + 1]
  <2>1. TAKE k \in 0..n - 1
  <2>2. TAKE s \in I[k]
  <2>3. k \in 0..n /\ k + 1 \in 0..n /\ k \in Nat
    BY <1>2
  <2>4. s \in MapStates /\ Ahead(old, r, u, from, to, s) /\ Progress(from, s, k)
    BY <2>3
  <2>5. CASE s.size = 0 \/ s.m.out # "ok"
    <3>1. turn[s] = s
      BY <2>4, <2>5 DEF turn, MapTurn, MapStates
    <3>2. Progress(from, s, k + 1)
      BY <2>5 DEF Progress
    <3> QED BY <2>3, <2>4, <3>1, <3>2
  <2>6. CASE s.size # 0 /\ s.m.out = "ok"
    <3>1. Ahead(old, r, u, from, to, turn[s]) /\ Further(s, turn[s])
      BY <2>4, <2>6, MapTurnKeeps DEF turn
    <3>2. turn[s] \in MapStates /\ from <= s.virt
      BY <2>4, <3>1 DEF Ahead
    <3>3. Progress(from, turn[s], k + 1)
      BY <2>3, <2>4, <2>6, <3>1, <3>2, ProgressKeeps
    <3> QED BY <2>3, <3>1, <3>2, <3>3
  <2> QED BY <2>5, <2>6
<1> DEFINE e == Loop(turn, s0, n)
<1>10. e \in I[n]
  <2> HIDE DEF I
  <2> QED BY <1>2, <1>8, <1>9, LoopKeeps
<1>11. pt_map(old, r, from, size, write) = e.m
  BY DEF pt_map, s0, n, turn
<1> HIDE DEF e
<1>12. e \in MapStates /\ Ahead(old, r, u, from, to, e) /\ Progress(from, e, n)
  <2>1. n \in 0..n
    BY <1>2
  <2> HIDE DEF n
  <2> QED BY <1>10, <2>1
<1>13. PICK w : Grown(old, r, u, from, to, e.m, w, e.virt)
  BY <1>12 DEF Ahead
<1>14. e.virt \in Nat /\ e.size \in Nat /\ from <= e.virt /\ e.virt + e.size = to /\ e.lvl \in 1..LEVELS
  BY <1>12 DEF Ahead, MapStates
<1>a. e.lvl \in Nat /\ e.lvl >= 1 /\ e.lvl <= LEVELS
  BY <1>1, <1>14
<1>15. e.m.out = "ok" => e.virt = to
  <2>1. SUFFICES ASSUME e.m.out = "ok", e.size # 0 PROVE FALSE
    BY <1>14
  <2> DEFINE a == e.virt - from
             d == size - a - 1
             L == LEVELS
  <2>2. a * L + (L - e.lvl) >= n
    BY <1>12, <2>1 DEF Progress
  <2>3. a \in Nat /\ d \in Nat /\ size = (a + d) + 1 /\ L \in Nat
    BY <1>1, <1>14, <2>1
  <2>4. n = size * L
    BY DEF n
  <2> HIDE DEF a, d, L, size
  <2>5. size * L = a * L + d * L + L /\ a * L \in Nat /\ d * L \in Nat
    BY <2>3
  <2> DEFINE A == a * L
             D == d * L
  <2>7. e.lvl \in Nat /\ e.lvl >= 1
    BY <1>a
  <2>6. n = A + D + L /\ A \in Nat /\ D \in Nat /\ A + (L - e.lvl) >= n
    BY <2>2, <2>4, <2>5
  <2> HIDE DEF A, D
  <2>8. L - e.lvl < L
    BY <2>3, <2>7
  <2> DEFINE x == L - e.lvl
  <2>9. x \in Int /\ x < L /\ A + x >= A + D + L
    BY <2>3, <2>6, <2>7, <2>8
  <2> HIDE DEF x
  <2> QED BY <2>3, <2>6, <2>9
<1>16. e.virt <= to
  BY <1>14
<1> DEFINE new == pt_map(old, r, from, size, write)
           cur == e.virt
<1>17. /\ Grown(old, r, u, from, to, new, w, cur) /\ cur \in Nat
       /\ from <= cur /\ cur <= to /\ (new.out = "ok" => cur = to)
  BY <1>11, <1>13, <1>14, <1>15, <1>16
<1> HIDE DEF cur, new
<1> QED BY <1>17 DEF new

-----------------------------------------------------------------------------
(* Areas and trees.                                                        *)

\* A tree is its tables.
LEMMA TreeSame ==
  ASSUME NEW table, NEW new, NEW r, NEW u, Tree(table, r, u),
         \A f \in DOMAIN u : new[f] = table[f]
  PROVE  Tree(new, r, u)
<1>1. Places(u) /\ Downward(table, u) /\ Upward(table, u) /\ r \in DOMAIN u /\ u[r].lvl = LEVELS
  BY DEF Tree
<1>2. Downward(new, u)
  BY <1>1 DEF Downward
<1>3. Upward(new, u)
  <2>1. \A f \in DOMAIN u, l \in 1..LEVELS - 1, v \in Nat :
          Covers(u, f, l, v) =>
            \E g \in DOMAIN u : LET e == new[g][Index(v, l + 1)]
                                IN /\ Covers(u, g, l + 1, v)
                                   /\ InnerEntry(e, l + 1) /\ e.phys = f
    BY <1>1 DEF Upward
  <2>2. \A f \in DOMAIN u, v \in Nat :
          Covers(u, f, 0, v) =>
            \E g \in DOMAIN u, l \in 1..LEVELS :
               LET e == new[g][Index(v, l)]
               IN Covers(u, g, l, v) /\ LeafEntry(e, l) /\ f = e.phys + (v % Size(l))
    BY <1>1 DEF Upward
  <2> QED BY <2>1, <2>2 DEF Upward
<1> QED BY <1>1, <1>2, <1>3 DEF Tree

\* A range that meets no area has no page.
LEMMA GapFresh ==
  ASSUME NEW u, NEW S, Apart(S), Serves(u, S), NEW from \in Nat, NEW to \in Nat,
         \A a \in S : a.end <= from \/ a.begin >= to
  PROVE  Fresh(u, from, to)
<1>1. SUFFICES ASSUME NEW f \in DOMAIN u, NEW p \in Nat, Covers(u, f, 0, p), from <= p, p < to
               PROVE  FALSE
  BY DEF Fresh
<1>2. PICK a \in S : a.begin <= p /\ p < a.end
  BY <1>1 DEF Serves, In
<1>3. a.begin \in Nat /\ a.end \in Nat
  BY DEF Apart
<1> QED BY <1>1, <1>2, <1>3

\* pt_map has gone through: the new area is served too.
LEMMA MapServes ==
  ASSUME NEW old, NEW r, NEW u, NEW from \in Nat, NEW to \in Nat, NEW new, NEW w,
         Grown(old, r, u, from, to, new, w, to), NEW S, Serves(u, S),
         NEW a, a.begin = from, a.end = to
  PROVE  Serves(w, S \cup {a})
<1> DEFINE K == S \cup {a}
<1>1. \A p : In(K, p) <=> In(S, p) \/ (from <= p /\ p < to)
  BY DEF In
<1>2. \A f \in DOMAIN u : f \in DOMAIN w /\ w[f] = u[f]
  BY DEF Grown
<1>3. \A f, l, p : Covers(u, f, l, p) => Covers(w, f, l, p)
  BY <1>2 DEF Covers
<1>4. \A f \in DOMAIN u : \A l, p : Covers(w, f, l, p) => Covers(u, f, l, p)
  BY <1>2 DEF Covers
<1>5. \A p \in Nat : \A k : Within(S, k, p) => Within(K, k, p)
  BY DEF Within
<1>6. \A p \in Nat : \A k : Inside(from, to, k, p) => Within(K, k, p)
  <2>1. TAKE p \in Nat
  <2>2. TAKE k
  <2>3. HAVE Inside(from, to, k, p)
  <2>4. from <= p /\ p < to
    BY <2>3 DEF Inside
  <2> QED BY <2>3, <2>4 DEF Inside, Within
<1> HIDE DEF K
<1>7. \A f \in DOMAIN w, p \in Nat : Covers(w, f, 0, p) => In(K, p)
  <2>1. TAKE f \in DOMAIN w, p \in Nat
  <2>2. HAVE Covers(w, f, 0, p)
  <2>3. CASE f \in DOMAIN u
    BY <1>1, <1>4, <2>2, <2>3 DEF Serves
  <2>4. CASE f \notin DOMAIN u
    BY <1>1, <2>2, <2>4 DEF Grown
  <2> QED BY <2>3, <2>4
<1>8. \A p \in Nat : In(K, p) => \E f \in DOMAIN w : Covers(w, f, 0, p)
  <2>1. TAKE p \in Nat
  <2>2. HAVE In(K, p)
  <2>3. CASE In(S, p)
    BY <1>2, <1>3, <2>3 DEF Serves
  <2>4. CASE from <= p /\ p < to
    BY <2>4 DEF Grown
  <2> QED BY <1>1, <2>2, <2>3, <2>4
<1>9. \A g \in DOMAIN w : w[g].lvl \in 1..LEVELS - 1 =>
        \E p \in Nat : In(K, p) /\ Covers(w, g, w[g].lvl, p)
  <2>1. TAKE g \in DOMAIN w
  <2>2. HAVE w[g].lvl \in 1..LEVELS - 1
  <2>3. CASE g \in DOMAIN u
    <3>1. w[g] = u[g]
      BY <1>2, <2>3
    <3>2. PICK p \in Nat : In(S, p) /\ Covers(u, g, u[g].lvl, p)
      BY <2>2, <2>3, <3>1 DEF Serves
    <3> QED BY <1>1, <1>3, <3>1, <3>2
  <2>4. CASE g \notin DOMAIN u
    <3>1. w[g].lvl # 0
      BY <2>2, Sizes
    <3>2. PICK p \in Nat : from <= p /\ p < to /\ Covers(w, g, w[g].lvl, p)
      BY <2>4, <3>1 DEF Grown
    <3> QED BY <1>1, <3>2
  <2> QED BY <2>3, <2>4
<1>10. \A p \in Nat, k \in 2..LEVELS :
         In(K, p) => (\E g \in DOMAIN w : Covers(w, g, k - 1, p)) \/ Within(K, k, p)
  <2>1. TAKE p \in Nat, k \in 2..LEVELS
  <2>2. HAVE In(K, p)
  <2>3. CASE In(S, p)
    <3>1. (\E g \in DOMAIN u : Covers(u, g, k - 1, p)) \/ Within(S, k, p)
      BY <2>3 DEF Serves
    <3> QED BY <1>2, <1>3, <1>5, <3>1
  <2>4. CASE from <= p /\ p < to
    <3>1. (\E g \in DOMAIN w : Covers(w, g, k - 1, p)) \/ Inside(from, to, k, p)
      BY <2>4 DEF Grown
    <3> QED BY <1>6, <3>1
  <2> QED BY <1>1, <2>2, <2>3, <2>4
<1>11. Serves(w, K)
  BY <1>7, <1>8, <1>9, <1>10 DEF Serves
<1> QED BY <1>11 DEF K

\* What pt_map has added is what lies behind the last area.
LEMMA AddedIsGone ==
  ASSUME NEW old, NEW r, NEW u, Tree(old.table, r, u), NEW from \in Nat, NEW to \in Nat,
         to <= END, NEW new, NEW w, NEW cur \in Nat, Grown(old, r, u, from, to, new, w, cur),
         cur <= to, NEW S, Apart(S), Serves(u, S), NEW begin \in Nat, begin <= from,
         begin = 0 \/ \E a \in S : a.end = begin, \A a \in S : a.end <= begin
  PROVE  Gone(w, LEVELS, begin, END) = DOMAIN w \ DOMAIN u
<1>0. LEVELS \in Nat /\ LEVELS >= 1 /\ END \in Nat /\ Size(1) = 1
  BY Sizes, Half
<1>1. Places(u) /\ Places(w) /\ r \in DOMAIN u /\ u[r].lvl = LEVELS
  BY DEF Tree, Grown
<1>2. \A f \in DOMAIN u : f \in DOMAIN w /\ w[f] = u[f]
  BY DEF Grown
<1>3. \A f, l, p : Covers(u, f, l, p) => Covers(w, f, l, p)
  BY <1>2 DEF Covers
<1>4. \A a \in S : a.begin \in Nat /\ a.end \in Nat /\ a.begin < a.end /\ a.end <= END
  BY DEF Apart
<1>5. \A p \in Nat : In(S, p) => p < begin
  <2>1. TAKE p \in Nat
  <2>2. HAVE In(S, p)
  <2>3. PICK a \in S : a.begin <= p /\ p < a.end
    BY <2>2 DEF In
  <2>4. a.end \in Nat /\ a.end <= begin
    BY <1>4
  <2> QED BY <2>3, <2>4
<1>6. \A g \in DOMAIN w : First(w, g) \in Nat /\ w[g].lvl \in 0..LEVELS
                          /\ Covers(w, g, w[g].lvl, First(w, g))
  BY <1>1, FirstPage DEF Places
<1>7. ASSUME NEW g \in DOMAIN u PROVE g \notin Gone(w, LEVELS, begin, END)
  <2>1. SUFFICES ASSUME w[g].lvl < LEVELS PROVE First(w, g) < begin
    <3>1. ~(First(w, g) < begin) \/ ~(begin <= First(w, g))
      BY <1>2, <1>6
    <3> QED BY <2>1, <3>1 DEF Gone
  <2>2. First(w, g) = First(u, g) /\ w[g] = u[g] /\ u[g].lvl \in 0..LEVELS
    BY <1>2, <1>6 DEF First
  <2>3. \E p \in Nat : In(S, p) /\ Covers(u, g, u[g].lvl, p)
    <3>1. CASE u[g].lvl = 0
      <4>1. Covers(u, g, 0, First(u, g)) /\ First(u, g) \in Nat
        BY <1>1, <3>1, FirstPage
      <4>2. In(S, First(u, g))
        BY <4>1 DEF Serves
      <4> QED BY <3>1, <4>1, <4>2
    <3>2. CASE u[g].lvl # 0
      <4>1. u[g].lvl \in 1..LEVELS - 1
        BY <1>0, <2>1, <2>2, <3>2
      <4> QED BY <4>1 DEF Serves
    <3> QED BY <3>1, <3>2
  <2>4. PICK p \in Nat : In(S, p) /\ Covers(u, g, u[g].lvl, p)
    BY <2>3
  <2>5. First(u, g) <= p /\ First(u, g) \in Nat /\ p < begin
    BY <1>1, <1>5, <2>4, FirstBelow
  <2> QED BY <2>2, <2>5
<1>8. ASSUME NEW g \in DOMAIN w \ DOMAIN u PROVE g \in Gone(w, LEVELS, begin, END)
  <2> DEFINE l == w[g].lvl
             f == First(w, g)
  <2>1. f \in Nat /\ l \in 0..LEVELS /\ Covers(w, g, l, f)
    BY <1>6
  <2>2. l # LEVELS
    <3>1. SUFFICES ASSUME l = LEVELS PROVE FALSE
      OBVIOUS
    <3>2. w[g].num = 0 /\ w[r].num = 0 /\ w[r].lvl = LEVELS /\ r \in DOMAIN w
      BY <1>1, <1>2, <3>1 DEF Places
    <3>3. g = r
      BY <1>1, <3>1, <3>2 DEF Places
    <3> QED BY <1>1, <3>3
  <2>3. l < LEVELS
    BY <1>0, <2>1, <2>2
  <2>4. CASE l = 0
    <3>1. from <= f /\ f < cur
      BY <2>1, <2>4 DEF Grown
    <3>2. begin <= f /\ f < END
      <4> HIDE DEF f
      <4> QED BY <1>0, <2>1, <3>1
    <3> QED BY <2>3, <3>2 DEF Gone
  <2>5. CASE l # 0
    <3>1. PICK p \in Nat : from <= p /\ p < to /\ Covers(w, g, l, p)
      BY <2>5 DEF Grown
    <3>2. f <= p
      BY <1>1, <3>1, FirstBelow
    <3>3. f < END
      <4> HIDE DEF f
      <4> QED BY <1>0, <2>1, <3>1, <3>2
    <3>4. begin <= f
      <4>1. SUFFICES ASSUME f < begin PROVE FALSE
        <5> HIDE DEF f
        <5> QED BY <2>1
      <4> DEFINE q == begin - 1
                 k == l + 1
      <4>2. q \in Nat /\ f <= q /\ q <= p /\ begin # 0
        <5> HIDE DEF f
        <5> QED BY <2>1, <3>1, <4>1
      <4>3. PICK a \in S : a.end = begin
        BY <4>2
      <4>4. In(S, q)
        <5>1. a.begin <= q /\ q < a.end
          BY <1>4, <4>2, <4>3
        <5> QED BY <5>1 DEF In
      <4>5. k \in 2..LEVELS /\ k - 1 = l
        <5> HIDE DEF l
        <5> QED BY <1>0, <2>1, <2>3, <2>5
      <4> HIDE DEF f, q
      <4>6. Num(q, l) = Num(p, l)
        <5>1. Num(f, l) = Num(p, l)
          BY <2>1, <3>1 DEF Covers
        <5>2. Num(f, l) <= Num(q, l) /\ Num(q, l) <= Num(p, l)
          BY <2>1, <4>2, Regions
        <5>3. Num(q, l) \in Nat /\ Num(p, l) \in Nat
          BY <2>1, <4>2, Numbers
        <5> HIDE DEF l
        <5> QED BY <5>1, <5>2, <5>3
      <4>7. Covers(w, g, l, q)
        BY <3>1, <4>6 DEF Covers
      <4>8. (\E h \in DOMAIN u : Covers(u, h, k - 1, q)) \/ Within(S, k, q)
        <5> HIDE DEF k
        <5> QED BY <4>2, <4>4, <4>5 DEF Serves
      <4>9. CASE \E h \in DOMAIN u : Covers(u, h, k - 1, q)
        <5>1. PICK h \in DOMAIN u : Covers(u, h, l, q)
          BY <4>5, <4>9
        <5>2. h = g
          BY <1>1, <1>3, <4>7, <5>1, OnePlace
        <5> QED BY <5>2
      <4>10. CASE Within(S, k, q)
        <5>1. Num(p, k - 1) = Num(q, k - 1)
          BY <4>5, <4>6
        <5>2. \E b \in S : b.begin <= p /\ p < b.end
          <6> HIDE DEF k
          <6> QED BY <4>10, <5>1 DEF Within
        <5>3. p < begin
          BY <1>5, <5>2 DEF In
        <5> QED BY <3>1, <5>3
      <4> QED BY <4>8, <4>9, <4>10
    <3> QED BY <2>3, <3>3, <3>4 DEF Gone
  <2> QED BY <2>4, <2>5
<1>9. Gone(w, LEVELS, begin, END) \subseteq DOMAIN w
  BY DEF Gone
<1> QED BY <1>7, <1>8, <1>9

-----------------------------------------------------------------------------
(* Lists of areas.                                                         *)

\* mm->vmas: areas in the order of their addresses.
Sorted(s) ==
  /\ s \in Seq(Area)
  /\ \A k \in DOMAIN s : /\ s[k].begin < s[k].end
                         /\ k > 1 => s[k - 1].end <= s[k].begin

\* The areas of a sorted list, one by one.
LEMMA AreaIs ==
  ASSUME NEW s, Sorted(s)
  PROVE  /\ Len(s) \in Nat /\ DOMAIN s = 1..Len(s)
         /\ \A k \in 1..Len(s) : /\ s[k] \in Area /\ s[k].begin < s[k].end
                                 /\ s[k].begin \in Nat /\ s[k].end \in Nat /\ s[k].end <= END
                                 /\ s[k].perm \in Perm
<1>1. Len(s) \in Nat /\ DOMAIN s = 1..Len(s) /\ s \in [1..Len(s) -> Area]
  BY LenProperties DEF Sorted
<1>2. \A k \in 1..Len(s) : s[k] \in Area /\ s[k].begin < s[k].end
  BY <1>1 DEF Sorted
<1>3. \A a \in Area : /\ a.begin \in Nat /\ a.end \in Nat /\ a.end <= END /\ a.perm \in Perm
  BY Half DEF Area, Address
<1> QED BY <1>1, <1>2, <1>3

\* In a sorted list every area ends before the ones behind it begin.
LEMMA SortedOrder ==
  ASSUME NEW s, Sorted(s), NEW j \in 1..Len(s)
  PROVE  \A k \in 1..Len(s) : j < k => s[j].end <= s[k].begin
<1> DEFINE T == {k \in Nat : k \in 1..Len(s) /\ j < k /\ ~(s[j].end <= s[k].begin)}
<1>1. SUFFICES ASSUME T # {} PROVE FALSE
  BY AreaIs
<1>2. T \in SUBSET Nat
  OBVIOUS
<1> HIDE DEF T
<1>3. PICK k \in T : \A i \in T : k <= i
  BY <1>1, <1>2, Least
<1>4. k \in 1..Len(s) /\ j < k /\ ~(s[j].end <= s[k].begin) /\ j \in Nat
  BY <1>3 DEF T
<1>5. Len(s) \in Nat /\ s[k - 1].end <= s[k].begin
  BY <1>4, AreaIs DEF Sorted
<1>6. j # k - 1
  BY <1>4, <1>5
<1>7. k - 1 \in 1..Len(s) /\ k - 1 \in Nat /\ j < k - 1 /\ ~(k <= k - 1)
  BY <1>4, <1>5, <1>6
<1>8. s[j].end <= s[k - 1].begin
  BY <1>3, <1>7 DEF T
<1> QED BY <1>4, <1>5, <1>7, <1>8, AreaIs

\* The areas of a sorted list have nothing in common.
LEMMA SortedApart ==
  ASSUME NEW s, Sorted(s)
  PROVE  Apart(ToSet(s))
<1>1. ToSet(s) = {s[k] : k \in 1..Len(s)}
  BY AreaIs DEF ToSet
<1>2. \A a \in ToSet(s) : a.begin \in Nat /\ a.end \in Nat /\ a.begin < a.end /\ a.end <= END
  BY <1>1, AreaIs
<1>3. ASSUME NEW a \in ToSet(s), NEW b \in ToSet(s), a # b
      PROVE  a.end <= b.begin \/ b.end <= a.begin
  <2>1. PICK j \in 1..Len(s) : a = s[j]
    BY <1>1
  <2>2. PICK k \in 1..Len(s) : b = s[k]
    BY <1>1
  <2>3. j < k \/ k < j
    BY <1>3, <2>1, <2>2
  <2> QED BY <2>1, <2>2, <2>3, SortedOrder
<1> QED BY <1>2, <1>3 DEF Apart

\* Numbers from 1 on without a gap.
LEMMA PrefixIs ==
  ASSUME NEW n \in Nat, NEW T \in SUBSET (1..n), \A j, k \in 1..n : j < k /\ k \in T => j \in T
  PROVE  Cardinality(T) \in 0..n /\ T = 1..Cardinality(T)
<1> DEFINE G == {j \in Nat : j >= 1 /\ j \notin T}
<1>1. n + 1 \in G /\ G \in SUBSET Nat
  OBVIOUS
<1>2. G # {}
  BY <1>1
<1> HIDE DEF G
<1>3. PICK j \in G : \A i \in G : j <= i
  BY <1>1, <1>2, Least
<1>4. j \in Nat /\ j >= 1 /\ j \notin T /\ j <= n + 1
  BY <1>1, <1>3 DEF G
<1>5. \A i \in 1..j - 1 : i \in T
  <2>1. TAKE i \in 1..j - 1
  <2>2. i \in Nat /\ i >= 1 /\ ~(j <= i)
    BY <1>4
  <2>3. i \notin G
    BY <1>3, <2>2
  <2> QED BY <2>2, <2>3 DEF G
<1>6. \A i \in T : i \in 1..j - 1
  <2>1. TAKE i \in T
  <2>2. i \in 1..n /\ i # j
    BY <1>4
  <2>3. ~(j < i)
    <3>1. SUFFICES ASSUME j < i PROVE FALSE
      OBVIOUS
    <3>2. j \in 1..n
      BY <1>4, <2>2, <3>1
    <3> QED BY <1>4, <2>2, <3>1, <3>2
  <2> QED BY <1>4, <2>2, <2>3
<1>7. T = 1..j - 1
  BY <1>5, <1>6
<1>8. Cardinality(1..j - 1) = j - 1
  <2>1. j - 1 \in Int /\ 1 \in Int
    BY <1>4
  <2>2. Cardinality(1..j - 1) = IF 1 > j - 1 THEN 0 ELSE j - 1 - 1 + 1
    BY <2>1, FS_Interval
  <2> QED BY <1>4, <2>2
<1> QED BY <1>4, <1>7, <1>8

\* The areas before a range are the first ones of the list (mm.c, munmap).
LEMMA BeforeIs ==
  ASSUME NEW s, Sorted(s), NEW from \in Nat
  PROVE  /\ Before(s, from) \in 0..Len(s)
         /\ \A k \in 1..Len(s) : s[k].end <= from <=> k <= Before(s, from)
<1> DEFINE T == {k \in DOMAIN s : s[k].end <= from}
<1>1. Len(s) \in Nat /\ DOMAIN s = 1..Len(s)
  BY AreaIs
<1>2. T \in SUBSET (1..Len(s))
  BY <1>1
<1>3. \A j, k \in 1..Len(s) : j < k /\ k \in T => j \in T
  <2>1. TAKE j, k \in 1..Len(s)
  <2>2. HAVE j < k /\ k \in T
  <2>3. s[j].end <= s[k].begin
    BY <2>2, SortedOrder
  <2>4. s[k].end <= from /\ s[k].begin < s[k].end /\ s[k].begin \in Nat /\ s[k].end \in Nat
        /\ s[j].end \in Nat
    BY <2>2, AreaIs
  <2> QED BY <1>1, <2>3, <2>4
<1>4. \A k \in 1..Len(s) : k \in T <=> s[k].end <= from
  BY <1>1
<1>5. Before(s, from) = Cardinality(T)
  BY DEF Before
<1> HIDE DEF T
<1>6. Cardinality(T) \in 0..Len(s) /\ T = 1..Cardinality(T)
  BY <1>1, <1>2, <1>3, PrefixIs
<1> QED BY <1>1, <1>4, <1>5, <1>6

\* The areas behind a range are the last ones of the list (mm.c, mmap and munmap).
LEMMA AfterIs ==
  ASSUME NEW s, Sorted(s), NEW to \in Nat
  PROVE  /\ After(s, to) \in 1..Len(s) + 1
         /\ \A k \in 1..Len(s) : s[k].begin < to <=> k < After(s, to)
<1> DEFINE T == {k \in DOMAIN s : s[k].begin < to}
<1>1. Len(s) \in Nat /\ DOMAIN s = 1..Len(s)
  BY AreaIs
<1>2. T \in SUBSET (1..Len(s))
  BY <1>1
<1>3. \A j, k \in 1..Len(s) : j < k /\ k \in T => j \in T
  <2>1. TAKE j, k \in 1..Len(s)
  <2>2. HAVE j < k /\ k \in T
  <2>3. s[j].end <= s[k].begin
    BY <2>2, SortedOrder
  <2>4. s[k].begin < to /\ s[j].begin < s[j].end /\ s[k].begin \in Nat /\ s[j].end \in Nat
        /\ s[j].begin \in Nat
    BY <2>2, AreaIs
  <2> QED BY <1>1, <2>3, <2>4
<1>4. \A k \in 1..Len(s) : k \in T <=> s[k].begin < to
  BY <1>1
<1>5. After(s, to) = Cardinality(T) + 1
  BY DEF After
<1> HIDE DEF T
<1>6. Cardinality(T) \in 0..Len(s) /\ T = 1..Cardinality(T)
  BY <1>1, <1>2, <1>3, PrefixIs
<1> QED BY <1>1, <1>4, <1>5, <1>6

\* From where pt_unmap begins, in front of a range.
LEMMA GapIs ==
  ASSUME NEW s, Sorted(s), NEW from \in Nat
  PROVE  LET begin == GapBegin(s, Before(s, from))
         IN /\ begin \in Nat /\ begin <= from
            /\ begin = 0 \/ \E a \in ToSet(s) : a.end = begin
            /\ \A a \in ToSet(s) : a.end <= from <=> a.end <= begin
            /\ \A a \in ToSet(s) : a.end <= begin \/ a.begin >= begin
<1> DEFINE B == Before(s, from)
           begin == GapBegin(s, B)
<1>1. B \in 0..Len(s) /\ Len(s) \in Nat /\ \A k \in 1..Len(s) : s[k].end <= from <=> k <= B
  BY BeforeIs, AreaIs
<1>2. ToSet(s) = {s[k] : k \in 1..Len(s)}
  BY AreaIs DEF ToSet
<1> HIDE DEF B
<1>3. CASE B = 0
  <2>1. begin = 0
    BY <1>3 DEF GapBegin
  <2>2. \A k \in 1..Len(s) : ~(s[k].end <= from) /\ s[k].end > 0 /\ s[k].begin >= 0
    BY <1>1, <1>3, AreaIs
  <2>3. \A a \in ToSet(s) : ~(a.end <= from) /\ ~(a.end <= 0) /\ a.begin >= 0
    <3>1. \A k \in 1..Len(s) : ~(s[k].end <= 0)
      BY <2>2, AreaIs
    <3> QED BY <1>2, <2>2, <3>1
  <2> QED BY <2>1, <2>3 DEF B
<1>4. CASE B # 0
  <2>1. begin = s[B].end /\ B \in 1..Len(s)
    BY <1>1, <1>4 DEF GapBegin
  <2>2. begin \in Nat /\ begin <= from
    BY <1>1, <2>1, AreaIs
  <2>3. \E a \in ToSet(s) : a.end = begin
    BY <1>2, <2>1
  <2>4. ASSUME NEW k \in 1..Len(s)
        PROVE  /\ s[k].end <= from <=> s[k].end <= begin
               /\ s[k].end <= begin \/ s[k].begin >= begin
    <3>1. s[k].end \in Nat /\ s[k].begin \in Nat /\ s[k].begin < s[k].end /\ s[B].begin < s[B].end
          /\ s[B].begin \in Nat /\ s[B].end \in Nat
      BY <2>1, AreaIs
    <3>2. CASE k < B
      <4>1. s[k].end <= s[B].begin
        BY <2>1, <3>2, SortedOrder
      <4> QED BY <2>1, <2>2, <3>1, <4>1
    <3>3. CASE k = B
      BY <2>1, <2>2, <3>1, <3>3
    <3>4. CASE B < k
      <4>1. s[B].end <= s[k].begin
        BY <2>1, <3>4, SortedOrder
      <4>2. ~(s[k].end <= from)
        BY <1>1, <3>4
      <4> QED BY <2>1, <2>2, <3>1, <4>1, <4>2
    <3> QED BY <1>1, <3>2, <3>3, <3>4
  <2>5. \A a \in ToSet(s) : /\ a.end <= from <=> a.end <= begin
                            /\ a.end <= begin \/ a.begin >= begin
    BY <1>2, <2>4
  <2> QED BY <2>2, <2>3, <2>5 DEF B
<1> QED BY <1>3, <1>4

\* What munmap leaves when nothing lies behind its range.
LEMMA KeptIs ==
  ASSUME NEW s, Sorted(s), NEW from \in Nat, NEW to \in Nat,
         After(s, to) > Len(s)
  PROVE  /\ Sorted(Kept(s, from, to))
         /\ ToSet(Kept(s, from, to)) = {a \in ToSet(s) : a.end <= from}
         /\ Len(Kept(s, from, to)) <= Len(s)
<1> DEFINE B == Before(s, from)
           n == Len(s)
           q == SubSeq(s, 1, B)
<1>1. B \in 0..n /\ n \in Nat /\ (\A k \in 1..n : s[k].end <= from <=> k <= B)
      /\ After(s, to) \in 1..n + 1
  BY BeforeIs, AfterIs, AreaIs
<1>2. SubSeq(s, After(s, to), n) = << >>
  <2>1. After(s, to) \in Int /\ n \in Int /\ n < After(s, to)
    BY <1>1
  <2> QED BY <2>1, SubSeqEmpty
<1>3. \A k \in 1..B : s[k] \in Area
  BY <1>1, AreaIs
<1> HIDE DEF B, n
<1>4. /\ q \in Seq(Area) /\ Len(q) = IF 1 <= B THEN B - 1 + 1 ELSE 0
      /\ \A i \in 1..B - 1 + 1 : q[i] = s[1 + i - 1]
  <2>1. 1 \in Int /\ B \in Int
    BY <1>1
  <2> QED BY <1>3, <2>1, SubSeqProperties
<1>5. Len(q) = B /\ \A i \in 1..B : q[i] = s[i]
  <2>1. Len(q) = B
    BY <1>1, <1>4
  <2>2. \A i \in 1..B : i \in 1..B - 1 + 1 /\ 1 + i - 1 = i
    BY <1>1
  <2> QED BY <1>4, <2>1, <2>2
<1>6. Kept(s, from, to) = q
  BY <1>2, <1>4, ConcatEmptySeq DEF Kept, B, n
<1>7. DOMAIN q = 1..B
  BY <1>4, <1>5, LenProperties
<1> HIDE DEF q
<1>8. Sorted(q)
  <2>1. ASSUME NEW k \in 1..B
        PROVE  q[k].begin < q[k].end /\ (k > 1 => q[k - 1].end <= q[k].begin)
    <3>1. k \in DOMAIN s
      BY <1>1, AreaIs DEF n
    <3>2. s[k].begin < s[k].end /\ (k > 1 => s[k - 1].end <= s[k].begin)
      BY <3>1 DEF Sorted
    <3>3. k > 1 => k - 1 \in 1..B
      BY <1>1
    <3> QED BY <1>5, <3>2, <3>3
  <2> QED BY <1>4, <1>7, <2>1 DEF Sorted, q
<1>9. ToSet(q) = {a \in ToSet(s) : a.end <= from}
  <2>1. ToSet(q) = {q[k] : k \in 1..B} /\ ToSet(s) = {s[k] : k \in 1..n}
    BY <1>7, AreaIs DEF ToSet, n
  <2>2. ASSUME NEW k \in 1..B PROVE q[k] \in ToSet(s) /\ q[k].end <= from
    <3>1. k \in 1..n /\ k <= B
      BY <1>1
    <3> QED BY <1>1, <1>5, <2>1, <3>1
  <2>3. ASSUME NEW k \in 1..n, s[k].end <= from PROVE s[k] \in ToSet(q)
    <3>1. k \in 1..B
      BY <1>1, <2>3
    <3> QED BY <1>5, <2>1, <3>1
  <2> QED BY <2>1, <2>2, <2>3
<1>10. Len(q) <= n
  BY <1>1, <1>5
<1> QED BY <1>6, <1>8, <1>9, <1>10 DEF n

\* list_add_before: the new area is put in its place.
LEMMA PlaceIs ==
  ASSUME NEW s, Sorted(s), NEW from \in Address, NEW to \in Address, from < to,
         NEW perm \in Perm, ~Overlaps(s, from, to)
  PROVE  LET a == [begin |-> from, end |-> to, perm |-> perm]
             q == Place(s, After(s, to), a)
         IN Sorted(q) /\ ToSet(q) = ToSet(s) \cup {a} /\ Len(q) = Len(s) + 1
            /\ (After(s, to) > Len(s) => q = Append(s, a))
<1> DEFINE a == [begin |-> from, end |-> to, perm |-> perm]
           A == After(s, to)
           n == Len(s)
           q == Place(s, A, a)
           f == SubSeq(s, 1, A - 1)
           g == SubSeq(s, A, n)
<1>0. from \in Nat /\ to \in Nat /\ to <= END
  BY Half DEF Address
<1>1. A \in 1..n + 1 /\ n \in Nat /\ DOMAIN s = 1..n /\ \A k \in 1..n : s[k].begin < to <=> k < A
  BY <1>0, AfterIs, AreaIs
<1>2. \A k \in 1..n : s[k] \in Area /\ s[k].begin \in Nat /\ s[k].end \in Nat /\ s[k].begin < s[k].end
  BY AreaIs
<1>3. \A k \in 1..n : IF k < A THEN s[k].end <= from ELSE to <= s[k].begin
  <2>1. TAKE k \in 1..n
  <2>2. ~(s[k].end > from /\ s[k].begin < to)
    BY <1>1 DEF Overlaps
  <2> QED BY <1>0, <1>1, <1>2, <2>2
<1>4. a \in Area
  BY DEF Area
<1>5. a.begin = from /\ a.end = to
  OBVIOUS
<1>6. q = f \o <<a>> \o g
  BY DEF Place, InsertAt
<1> HIDE DEF a, A, n, q
<1>7. f \in Seq(Area) /\ Len(f) = A - 1 /\ \A i \in 1..A - 1 : f[i] = s[i]
  <2>1. \A k \in 1..A - 1 : k \in 1..n
    BY <1>1
  <2>2. 1 \in Int /\ A - 1 \in Int /\ \A k \in 1..A - 1 : s[k] \in Area
    BY <1>1, <1>2, <2>1
  <2>3. /\ f \in Seq(Area) /\ Len(f) = IF 1 <= A - 1 THEN A - 1 - 1 + 1 ELSE 0
        /\ \A i \in 1..A - 1 - 1 + 1 : f[i] = s[1 + i - 1]
    BY <2>2, SubSeqProperties
  <2>4. Len(f) = A - 1
    BY <1>1, <2>3
  <2>5. \A i \in 1..A - 1 : i \in 1..A - 1 - 1 + 1 /\ 1 + i - 1 = i
    BY <1>1
  <2> QED BY <2>3, <2>4, <2>5
<1>8. g \in Seq(Area) /\ Len(g) = n - A + 1 /\ \A i \in 1..n - A + 1 : g[i] = s[A + i - 1]
  <2>1. \A k \in A..n : k \in 1..n
    BY <1>1
  <2>2. A \in Int /\ n \in Int /\ \A k \in A..n : s[k] \in Area
    BY <1>1, <1>2, <2>1
  <2>3. /\ g \in Seq(Area) /\ Len(g) = IF A <= n THEN n - A + 1 ELSE 0
        /\ \A i \in 1..n - A + 1 : g[i] = s[A + i - 1]
    BY <2>2, SubSeqProperties
  <2>4. Len(g) = n - A + 1
    BY <1>1, <2>3
  <2> QED BY <2>3, <2>4
<1> HIDE DEF f, g
<1> DEFINE h == <<a>>
           fh == f \o h
<1>9. h \in Seq(Area) /\ Len(h) = 1 /\ h[1] = a
  BY <1>4
<1> HIDE DEF h
<1>10. fh \in Seq(Area) /\ Len(fh) = A /\ (\A i \in 1..A - 1 : fh[i] = s[i]) /\ fh[A] = a
  <2>1. /\ fh \in Seq(Area) /\ Len(fh) = Len(f) + Len(h)
        /\ \A i \in 1..Len(f) + Len(h) : fh[i] = IF i <= Len(f) THEN f[i] ELSE h[i - Len(f)]
    BY <1>7, <1>9, ConcatProperties
  <2>2. Len(f) + Len(h) = A /\ Len(f) = A - 1
    BY <1>1, <1>7, <1>9
  <2>3. \A i \in 1..A - 1 : i \in 1..A /\ i <= A - 1
    BY <1>1
  <2>4. A \in 1..A /\ ~(A <= A - 1) /\ A - (A - 1) = 1
    BY <1>1
  <2>5. \A i \in 1..A : fh[i] = IF i <= A - 1 THEN f[i] ELSE h[i - (A - 1)]
    BY <2>1, <2>2
  <2>6. fh[A] = h[A - (A - 1)]
    BY <2>4, <2>5
  <2>7. \A i \in 1..A - 1 : fh[i] = f[i]
    BY <2>3, <2>5
  <2> QED BY <1>7, <1>9, <2>1, <2>2, <2>4, <2>6, <2>7
<1> HIDE DEF fh
<1>11. /\ q \in Seq(Area) /\ Len(q) = n + 1 /\ q[A] = a
       /\ \A i \in 1..A - 1 : q[i] = s[i]
       /\ \A i \in A + 1..n + 1 : q[i] = s[i - 1]
  <2>1. /\ fh \o g \in Seq(Area) /\ Len(fh \o g) = Len(fh) + Len(g)
        /\ \A i \in 1..Len(fh) + Len(g) : (fh \o g)[i] = IF i <= Len(fh) THEN fh[i] ELSE g[i - Len(fh)]
    BY <1>8, <1>10, ConcatProperties
  <2>2. q = fh \o g
    BY <1>6 DEF fh, h
  <2>3. Len(fh) + Len(g) = n + 1 /\ Len(fh) = A
    BY <1>1, <1>8, <1>10
  <2>4. \A i \in 1..n + 1 : q[i] = IF i <= A THEN fh[i] ELSE g[i - A]
    BY <2>1, <2>2, <2>3
  <2>5. A \in 1..n + 1 /\ A <= A
    BY <1>1
  <2>6. \A i \in 1..A - 1 : i \in 1..n + 1 /\ i <= A
    BY <1>1
  <2>7. \A i \in A + 1..n + 1 : i \in 1..n + 1 /\ ~(i <= A) /\ i - A \in 1..n - A + 1 /\ A + (i - A) - 1 = i - 1
    BY <1>1
  <2>8. q[A] = a
    BY <1>10, <2>4, <2>5
  <2>9. \A i \in 1..A - 1 : q[i] = s[i]
    BY <1>10, <2>4, <2>6
  <2>10. \A i \in A + 1..n + 1 : q[i] = s[i - 1]
    <3>1. TAKE i \in A + 1..n + 1
    <3>2. q[i] = g[i - A]
      BY <2>4, <2>7
    <3>3. g[i - A] = s[A + (i - A) - 1]
      BY <1>8, <2>7
    <3> QED BY <2>7, <3>2, <3>3
  <2> QED BY <2>1, <2>2, <2>3, <2>8, <2>9, <2>10
<1>12. DOMAIN q = 1..n + 1
  BY <1>11, LenProperties
<1>13. Sorted(q)
  <2>1. ASSUME NEW k \in 1..n + 1
        PROVE  q[k].begin < q[k].end /\ (k > 1 => q[k - 1].end <= q[k].begin)
    <3>1. CASE k < A
      <4>1. k \in 1..n /\ k \in 1..A - 1 /\ (k > 1 => k - 1 \in 1..A - 1)
        BY <1>1, <3>1
      <4>2. k > 1 => s[k - 1].end <= s[k].begin
        BY <1>1, <4>1 DEF Sorted
      <4> QED BY <1>2, <1>11, <4>1, <4>2
    <3>2. CASE k = A
      <4>1. k > 1 => k - 1 \in 1..A - 1 /\ k - 1 \in 1..n /\ k - 1 < A
        BY <1>1, <3>2
      <4>2. k > 1 => q[k - 1].end <= from
        BY <1>3, <1>11, <4>1
      <4> QED BY <1>5, <1>11, <3>2, <4>2
    <3>3. CASE k = A + 1
      <4>1. k \in A + 1..n + 1 /\ k - 1 = A /\ A \in 1..n /\ ~(A < A)
        BY <1>1, <3>3
      <4>2. q[k] = s[A] /\ q[k - 1] = a
        BY <1>11, <4>1
      <4> QED BY <1>2, <1>3, <1>5, <4>1, <4>2
    <3>4. CASE k > A + 1
      <4>1. k \in A + 1..n + 1 /\ k - 1 \in A + 1..n + 1 /\ k - 1 \in 1..n /\ k - 1 > 1
        BY <1>1, <3>4
      <4>2. q[k] = s[k - 1] /\ q[k - 1] = s[k - 1 - 1]
        BY <1>11, <4>1
      <4>3. s[k - 1 - 1].end <= s[k - 1].begin
        BY <1>1, <4>1 DEF Sorted
      <4> QED BY <1>2, <4>1, <4>2, <4>3
    <3> QED BY <1>1, <3>1, <3>2, <3>3, <3>4
  <2> QED BY <1>11, <1>12, <2>1 DEF Sorted
<1>14. ToSet(q) = ToSet(s) \cup {a}
  <2>1. ToSet(q) = {q[k] : k \in 1..n + 1} /\ ToSet(s) = {s[k] : k \in 1..n}
    BY <1>1, <1>12 DEF ToSet
  <2>2. ASSUME NEW k \in 1..n + 1 PROVE q[k] \in ToSet(s) \cup {a}
    <3>1. CASE k < A
      <4>1. k \in 1..A - 1 /\ k \in 1..n
        BY <1>1, <3>1
      <4> QED BY <1>11, <2>1, <4>1
    <3>2. CASE k = A
      BY <1>11, <3>2
    <3>3. CASE k > A
      <4>1. k \in A + 1..n + 1 /\ k - 1 \in 1..n
        BY <1>1, <3>3
      <4> QED BY <1>11, <2>1, <4>1
    <3> QED BY <1>1, <3>1, <3>2, <3>3
  <2>3. a \in ToSet(q)
    BY <1>1, <1>11, <2>1
  <2>4. ASSUME NEW k \in 1..n PROVE s[k] \in ToSet(q)
    <3>1. CASE k < A
      <4>1. k \in 1..A - 1 /\ k \in 1..n + 1
        BY <1>1, <3>1
      <4> QED BY <1>11, <2>1, <4>1
    <3>2. CASE k >= A
      <4>1. k + 1 \in A + 1..n + 1 /\ k + 1 - 1 = k /\ k + 1 \in 1..n + 1
        BY <1>1, <3>2
      <4> QED BY <1>11, <2>1, <4>1
    <3> QED BY <1>1, <3>1, <3>2
  <2> QED BY <2>1, <2>2, <2>3, <2>4
<1>15. ASSUME A > n PROVE q = Append(s, a)
  <2>1. A = n + 1
    BY <1>1, <1>15
  <2>2. s \in Seq(Area) /\ Append(s, a) \in Seq(Area) /\ Len(Append(s, a)) = n + 1
        /\ Append(s, a)[n + 1] = a /\ \A i \in 1..n : Append(s, a)[i] = s[i]
    BY <1>4, AppendProperties DEF Sorted, n
  <2>3. \A i \in 1..n + 1 : q[i] = Append(s, a)[i]
    <3>1. TAKE i \in 1..n + 1
    <3>2. CASE i = n + 1
      BY <1>11, <2>1, <2>2, <3>2
    <3>3. CASE i # n + 1
      <4>1. i \in 1..n /\ i \in 1..A - 1
        BY <1>1, <2>1, <3>3
      <4> QED BY <1>11, <2>2, <4>1
    <3> QED BY <3>2, <3>3
  <2> QED BY <1>11, <2>2, <2>3, SeqEqual
<1> QED BY <1>11, <1>13, <1>14, <1>15 DEF a, A, n, q

-----------------------------------------------------------------------------
(* munmap and mmap.                                                        *)

\* The memory m with the tree u of r in it.
Own(m, r, u) ==
  /\ m \in Memory /\ m.avail \subseteq Frame /\ m.out = "ok"
  /\ Tree(m.table, r, u) /\ m.avail \cap DOMAIN u = {}

\* The memory n with the tree w of r came from m with u, and nothing else was touched.
Become(m, u, n, w, r) ==
  /\ n \in Memory /\ n.avail \subseteq Frame /\ n.out = "ok"
  /\ Tree(n.table, r, w) /\ n.avail \cap DOMAIN w = {}
  /\ n.avail \cup DOMAIN w = m.avail \cup DOMAIN u
  /\ \A f \in Frame \ (m.avail \cup DOMAIN u) : n.table[f] = m.table[f]

\* What a tree consists of.
LEMMA TreeFrames ==
  ASSUME NEW table, NEW r, NEW u, Tree(table, r, u)
  PROVE  Places(u) /\ DOMAIN u \subseteq Frame /\ r \in Frame /\ u[r].lvl = LEVELS /\ u[r].num = 0
         /\ r \in DOMAIN u
BY DEF Tree, Places

\* Clean changes only frames that are free.
LEMMA CleanIs ==
  ASSUME NEW n \in Memory, NEW k, k = Clean(n)
  PROVE  /\ k \in Memory /\ k.avail = n.avail /\ k.out = n.out
         /\ \A f \in Frame : f \notin n.avail => k.table[f] = n.table[f]
<1>1. n = [table |-> n.table, avail |-> n.avail, out |-> n.out]
      /\ n.table \in [Frame -> [Slot -> AnyEntry]] /\ n.avail \in SUBSET (0..FRAMES)
      /\ n.out \in {"ok", "fail", "hang"}
  BY DEF Memory
<1> DEFINE t == [f \in Frame |-> IF f \in n.avail THEN [s \in Slot |-> None] ELSE n.table[f]]
<1>2. None \in AnyEntry
  BY PagingAssumption DEF None, AnyEntry
<1>3. [s \in Slot |-> None] \in [Slot -> AnyEntry]
  BY <1>2
<1>4. t \in [Frame -> [Slot -> AnyEntry]]
  BY <1>1, <1>3
<1>5. \A f \in Frame : f \notin n.avail => t[f] = n.table[f]
  OBVIOUS
<1>6. k = [n EXCEPT !.table = t]
  BY DEF Clean
<1> HIDE DEF t
<1>7. k = [table |-> t, avail |-> n.avail, out |-> n.out]
  BY <1>1, <1>6
<1> QED BY <1>1, <1>4, <1>5, <1>7 DEF Memory

\* How a walk ended is apart from what it did.
LEMMA OutIs ==
  ASSUME NEW m \in Memory, NEW out \in {"ok", "fail", "hang"}
  PROVE  /\ [m EXCEPT !.out = out] \in Memory
         /\ [m EXCEPT !.out = out].avail = m.avail /\ [m EXCEPT !.out = out].table = m.table
         /\ [m EXCEPT !.out = out].out = out
BY DEF Memory

\* A tree is the rest of a tree that has grown out of it.
LEMMA RestBack ==
  ASSUME NEW u, NEW w, u = [f \in DOMAIN u |-> u[f]], DOMAIN u \subseteq DOMAIN w,
         \A f \in DOMAIN u : w[f] = u[f]
  PROVE  Rest(w, DOMAIN w \ DOMAIN u) = u
<1>1. DOMAIN w \ (DOMAIN w \ DOMAIN u) = DOMAIN u
  OBVIOUS
<1> QED BY <1>1 DEF Rest

\* pt_unmap may begin at the first page.
LEMMA StartReached ==
  ASSUME NEW u
  PROVE  Reached(u, LEVELS, 0)
<1>1. ASSUME NEW j \in 2..LEVELS PROVE 0 % Size(j) = 0
  <2>1. j \in 1..LEVELS
    BY Sizes
  <2>2. Size(j) \in Nat /\ Size(j) >= 1
    BY <2>1, Digits
  <2> DEFINE z == Size(j)
  <2>3. z \in Nat /\ z >= 1
    BY <2>2
  <2> HIDE DEF z
  <2>4. 0 % z = 0
    BY <2>3
  <2> QED BY <2>4 DEF z
<1> QED BY <1>1 DEF Reached

\* What munmap does when no area lies behind its range.
LEMMA UnmappedServes ==
  ASSUME NEW m, NEW x, NEW u, Own(m, root[x], u), NEW s, Sorted(s), Serves(u, ToSet(s)),
         NEW from \in Address, NEW to \in Address, from < to,
         ~Straddles(s, from, to), After(s, to) > Len(s)
  PROVE  \E w : /\ Become(m, u, Unmapped(m, x, s, from, to), w, root[x])
                /\ Serves(w, ToSet(Kept(s, from, to)))
<1> DEFINE r == root[x]
           S == ToSet(s)
           begin == GapBegin(s, Before(s, from))
           X == Gone(u, LEVELS, begin, END)
           n == pt_unmap(m, r, begin, END - begin)
           w == Rest(u, X)
           k == Unmapped(m, x, s, from, to)
<1>1. m \in Memory /\ m.avail \subseteq Frame /\ m.out = "ok" /\ Tree(m.table, r, u)
      /\ m.avail \cap DOMAIN u = {}
  BY DEF Own
<1>2. from \in Nat /\ to \in Nat /\ to <= END /\ END \in Nat
  BY Half DEF Address
<1>3. /\ begin \in Nat /\ begin <= from
      /\ begin = 0 \/ \E a \in S : a.end = begin
      /\ \A a \in S : a.end <= from <=> a.end <= begin
      /\ \A a \in S : a.end <= begin \/ a.begin >= begin
  BY <1>2, GapIs
<1>4. Apart(S) /\ Places(u)
  BY <1>1, SortedApart, TreeFrames
<1>5. begin < END
  BY <1>2, <1>3
<1>6. k = Clean(n)
  BY DEF Unmapped, UnmapGap, GapEnd
<1> HIDE DEF begin, S
<1>7. Reached(u, LEVELS, begin)
  <2>1. CASE begin = 0
    BY <2>1, StartReached
  <2>2. CASE begin # 0
    BY <1>3, <1>4, <2>2, EndReached DEF S
  <2> QED BY <2>1, <2>2
<1>8. Takes(m, r, u, X, LEVELS, n)
  BY <1>1, <1>3, <1>5, <1>7, UnmapTakes
<1> HIDE DEF X, n, k
<1>9. /\ n \in Memory /\ n.out = "ok" /\ n.avail = m.avail \cup X
      /\ X \subseteq DOMAIN u /\ Tree(n.table, r, w)
      /\ \A f \in Frame : f \notin DOMAIN u => n.table[f] = m.table[f]
  BY <1>1, <1>8 DEF Takes
<1>10. /\ k \in Memory /\ k.avail = n.avail /\ k.out = n.out
       /\ \A f \in Frame : f \notin n.avail => k.table[f] = n.table[f]
  BY <1>6, <1>9, CleanIs
<1>11. DOMAIN w = DOMAIN u \ X /\ DOMAIN u \subseteq Frame
  BY <1>1, TreeFrames DEF Rest
<1>12. Become(m, u, k, w, r)
  <2>1. k.avail \subseteq Frame /\ k.avail \cap DOMAIN w = {}
        /\ k.avail \cup DOMAIN w = m.avail \cup DOMAIN u
    BY <1>1, <1>9, <1>10, <1>11
  <2>2. \A f \in DOMAIN w : k.table[f] = n.table[f]
    BY <1>9, <1>10, <1>11, <2>1
  <2>3. Tree(k.table, r, w)
    BY <1>9, <2>2, TreeSame
  <2>4. \A f \in Frame \ (m.avail \cup DOMAIN u) : k.table[f] = m.table[f]
    BY <1>9, <1>10
  <2> HIDE DEF w
  <2> QED BY <1>9, <1>10, <2>1, <2>3, <2>4 DEF Become
<1>13. ToSet(Kept(s, from, to)) = {a \in S : a.end <= begin}
  <2>1. ToSet(Kept(s, from, to)) = {a \in S : a.end <= from}
    BY <1>2, KeptIs DEF S
  <2> QED BY <1>3, <2>1
<1>14. Serves(w, ToSet(Kept(s, from, to)))
  <2>1. Serves(w, {a \in S : a.end <= begin})
    BY <1>3, <1>4, CutServes DEF S, X
  <2> QED BY <1>13, <2>1
<1> QED BY <1>12, <1>14 DEF k

\* What mmap makes: an area and its pages, nothing if the range is taken or memory runs
\* out, or it never comes back.
MapEnds(m, x, u, s, from, to, perm, res) ==
  /\ res = [memory |-> res.memory, vmas |-> res.vmas, ok |-> res.ok]
  /\ res.ok \in BOOLEAN /\ res.memory \in Memory /\ res.memory.avail \subseteq Frame
  /\ res.memory.out \in {"ok", "hang"} /\ (res.ok => res.memory.out = "ok")
  /\ Overlaps(s, from, to) => ~res.ok /\ res.memory = m
  /\ ~res.ok => res.vmas = s
  /\ res.ok => /\ Sorted(res.vmas) /\ Len(res.vmas) = Len(s) + 1
               /\ (After(s, to) > Len(s) =>
                     res.vmas = Append(s, [begin |-> from, end |-> to, perm |-> perm]))
               /\ \E w : /\ Become(m, u, res.memory, w, root[x])
                         /\ Serves(w, ToSet(res.vmas))
                         /\ DOMAIN u \subseteq DOMAIN w /\ \A f \in DOMAIN u : w[f] = u[f]
  /\ ~res.ok /\ res.memory.out = "ok"
       => Become(m, u, res.memory, u, root[x])

\* A memory comes from itself.
LEMMA OwnBecomes ==
  ASSUME NEW m, NEW r, NEW u, Own(m, r, u)
  PROVE  Become(m, u, m, u, r)
BY DEF Own, Become

\* mmap does one of these (mm.c, mmap), if it does not fail below another area.
LEMMA MappedIs ==
  ASSUME NEW m, NEW x, NEW u, Own(m, root[x], u), NEW s, Sorted(s), Serves(u, ToSet(s)),
         NEW from \in Address, NEW to \in Address, from < to, NEW perm \in Perm,
         ~FailsBelow(m, x, s, from, to, perm)
  PROVE  MapEnds(m, x, u, s, from, to, perm, Mapped(m, x, s, from, to, perm))
<1> DEFINE r == root[x]
           S == ToSet(s)
           a == [begin |-> from, end |-> to, perm |-> perm]
           next == After(s, to)
           flag == user_flags(perm)
           new == pt_map(m, r, from, to - from, flag)
           res == Mapped(m, x, s, from, to, perm)
<1>1. m \in Memory /\ m.avail \subseteq Frame /\ m.out = "ok" /\ Tree(m.table, r, u)
      /\ m.avail \cap DOMAIN u = {}
  BY DEF Own
<1>2. from \in Nat /\ to \in Nat /\ to <= END /\ END \in Nat
  BY Half DEF Address
<1>3. Apart(S) /\ Places(u) /\ DOMAIN u \subseteq Frame
  BY <1>1, SortedApart, TreeFrames
<1>4. CASE Overlaps(s, from, to)
  <2>1. res = [memory |-> m, vmas |-> s, ok |-> FALSE]
    BY <1>4 DEF Mapped
  <2>2. Become(m, u, m, u, r)
    BY OwnBecomes
  <2> HIDE DEF res
  <2> QED BY <1>1, <1>4, <2>1, <2>2 DEF MapEnds, res
<1>5. CASE ~Overlaps(s, from, to)
  <2>1. \A b \in S : b.end <= from \/ b.begin >= to
    <3>1. S = {s[k] : k \in DOMAIN s}
      BY DEF ToSet
    <3>2. \A b \in S : b.end \in Nat /\ b.begin \in Nat
      BY <1>3 DEF Apart
    <3>3. \A b \in S : ~(b.end > from /\ b.begin < to)
      BY <1>5, <3>1 DEF Overlaps
    <3> QED BY <1>2, <3>2, <3>3
  <2>2. Fresh(u, from, to)
    BY <1>2, <1>3, <2>1, GapFresh
  <2>3. flag \in BOOLEAN
    BY DEF user_flags
  <2>4. PICK w : \E cur \in Nat :
           /\ Grown(m, r, u, from, to, new, w, cur)
           /\ from <= cur /\ cur <= to
           /\ new.out = "ok" => cur = to
    <3> HIDE DEF flag, r, new
    <3>1. m \in Memory /\ m.avail \subseteq Frame /\ m.out = "ok"
      BY <1>1
    <3>2. Tree(m.table, r, u) /\ m.avail \cap DOMAIN u = {}
      BY <1>1
    <3>3. from \in Nat /\ to \in Nat /\ to <= END
      BY <1>2
    <3>4. \E w : \E cur \in Nat :
            /\ Grown(m, r, u, from, to, pt_map(m, r, from, to - from, flag), w, cur)
            /\ from <= cur /\ cur <= to
            /\ pt_map(m, r, from, to - from, flag).out = "ok" => cur = to
      BY <2>2, <2>3, <3>1, <3>2, <3>3, MapGrows
    <3> QED BY <3>4 DEF new
  <2>5. PICK cur \in Nat : /\ Grown(m, r, u, from, to, new, w, cur)
                           /\ from <= cur /\ cur <= to
                           /\ new.out = "ok" => cur = to
    BY <2>4
  <2>6. res = CASE new.out = "ok" ->
            [memory |-> new, ok |-> TRUE, vmas |-> Place(s, next, a)]
       [] new.out = "fail" ->
            [memory |-> Clean([UndoMap(new, x, s, next) EXCEPT !.out = "ok"]),
             vmas |-> s, ok |-> FALSE]
       [] new.out = "hang" -> [memory |-> new, vmas |-> s, ok |-> FALSE]
    BY <1>5 DEF Mapped
  <2>7. Sorted(Place(s, next, a)) /\ ToSet(Place(s, next, a)) = S \cup {a}
        /\ Len(Place(s, next, a)) = Len(s) + 1
        /\ (next > Len(s) => Place(s, next, a) = Append(s, a))
    BY <1>5, PlaceIs
  <2>8. a.begin = from /\ a.end = to
    OBVIOUS
  <2> HIDE DEF new, res, S
  <2>9. /\ new \in Memory /\ Tree(new.table, r, w)
        /\ new.avail \subseteq m.avail /\ new.avail \cap DOMAIN w = {}
        /\ DOMAIN w = DOMAIN u \cup (m.avail \ new.avail)
        /\ \A f \in DOMAIN u : w[f] = u[f]
        /\ \A g \in Frame \ DOMAIN w : new.table[g] = m.table[g]
    BY <2>5 DEF Grown
  <2>10. new.out \in {"ok", "fail", "hang"} /\ new.avail \subseteq Frame
    BY <1>1, <2>9 DEF Memory
  <2>11. CASE new.out = "ok"
    <3>1. res = [memory |-> new, ok |-> TRUE, vmas |-> Place(s, next, a)]
      BY <2>6, <2>11
    <3>2. Become(m, u, new, w, r)
      BY <1>1, <2>9, <2>10, <2>11 DEF Become
    <3>3. Serves(w, S \cup {a})
      <4> HIDE DEF a
      <4> QED BY <1>2, <2>5, <2>8, <2>11, MapServes DEF S
    <3>4. Serves(w, ToSet(Place(s, next, a)))
      BY <2>7, <3>3
    <3>5. DOMAIN u \subseteq DOMAIN w
      BY <2>9
    <3> DEFINE q == Place(s, next, a)
    <3>6. res.memory = new /\ res.ok = TRUE /\ res.vmas = q
          /\ res = [memory |-> res.memory, vmas |-> res.vmas, ok |-> res.ok]
      BY <3>1
    <3>7. /\ Sorted(q) /\ Len(q) = Len(s) + 1 /\ (After(s, to) > Len(s) => q = Append(s, a))
          /\ Serves(w, ToSet(q))
      BY <2>7, <3>4
    <3> HIDE DEF q, next
    <3>8. \E v : /\ Become(m, u, res.memory, v, root[x])
                 /\ Serves(v, ToSet(res.vmas))
                 /\ DOMAIN u \subseteq DOMAIN v /\ \A f \in DOMAIN u : v[f] = u[f]
      BY <2>9, <3>2, <3>5, <3>6, <3>7
    <3>9. MapEnds(m, x, u, s, from, to, perm, res)
      BY <1>5, <2>9, <2>10, <2>11, <3>6, <3>7, <3>8 DEF MapEnds
    <3> QED BY <3>9 DEF res
  <2>12. CASE new.out = "hang"
    <3>1. res = [memory |-> new, vmas |-> s, ok |-> FALSE]
      BY <2>6, <2>12
    <3>2. res.memory = new /\ res.ok = FALSE /\ res.vmas = s
          /\ res = [memory |-> res.memory, vmas |-> res.vmas, ok |-> res.ok]
      BY <3>1
    <3> HIDE DEF next, a
    <3>3. MapEnds(m, x, u, s, from, to, perm, res)
      BY <1>5, <2>9, <2>10, <2>12, <3>2 DEF MapEnds
    <3> QED BY <3>3 DEF res
  <2>13. CASE new.out = "fail"
    <3> DEFINE undone == UndoMap(new, x, s, next)
               ok == [undone EXCEPT !.out = "ok"]
               k == Clean(ok)
    <3>1. res = [memory |-> k, vmas |-> s, ok |-> FALSE]
      BY <2>6, <2>13
    <3>2. k \in Memory /\ k.avail \subseteq Frame /\ k.out = "ok"
          /\ Become(m, u, k, u, r)
      <4>1. next = Len(s) + 1 /\ next > Len(s) /\ Len(s) \in Nat
        <5>1. next \in 1..Len(s) + 1 /\ Len(s) \in Nat
          BY <1>2, AfterIs, AreaIs
        <5>2. ~(next <= Len(s))
          BY <1>5, <2>13 DEF FailsBelow, new
        <5> QED BY <5>1, <5>2
      <4> DEFINE B == Before(s, from)
                 begin == GapBegin(s, B)
                 X == Gone(w, LEVELS, begin, END)
                 n == pt_unmap(new, r, begin, END - begin)
      <4>2. B = Len(s)
        <5>1. B \in 0..Len(s) /\ \A j \in 1..Len(s) : s[j].end <= from <=> j <= B
          BY <1>2, BeforeIs
        <5>2. \A j \in 1..Len(s) : s[j].begin < to
          BY <1>2, <4>1, AfterIs
        <5>3. \A j \in 1..Len(s) : s[j].end <= from
          <6>1. TAKE j \in 1..Len(s)
          <6>2. s[j].end \in Nat /\ j \in DOMAIN s
            BY AreaIs
          <6>3. ~(s[j].end > from /\ s[j].begin < to)
            BY <1>5, <6>2 DEF Overlaps
          <6> QED BY <1>2, <5>2, <6>2, <6>3
        <5>4. CASE Len(s) = 0
          BY <4>1, <5>1, <5>4
        <5>5. CASE Len(s) # 0
          <6>1. Len(s) \in 1..Len(s)
            BY <4>1, <5>5
          <6>2. Len(s) <= B
            BY <5>1, <5>3, <6>1
          <6> QED BY <4>1, <5>1, <6>2
        <5> QED BY <5>4, <5>5
      <4>3. undone = n
        <5>1. next - 1 = B /\ ~(next <= Len(s))
          BY <4>1, <4>2
        <5> QED BY <5>1 DEF UndoMap
      <4>4. /\ begin \in Nat /\ begin <= from
            /\ begin = 0 \/ \E b \in S : b.end = begin
        BY <1>2, GapIs DEF S
      <4>5. \A b \in S : b.end <= begin
        <5>1. \A b \in S : b.end <= from <=> b.end <= begin
          BY <1>2, GapIs DEF S
        <5>2. \A j \in 1..Len(s) : s[j].end <= from
          BY <1>2, <4>1, <4>2, BeforeIs
        <5>3. S = {s[j] : j \in 1..Len(s)}
          BY AreaIs DEF ToSet, S
        <5> QED BY <5>1, <5>2, <5>3
      <4>6. begin < END
        BY <1>2, <4>4
      <4> HIDE DEF begin, B, next
      <4>7. Reached(u, LEVELS, begin)
        <5>1. CASE begin = 0
          BY <5>1, StartReached
        <5>2. CASE begin # 0
          BY <1>3, <4>4, <5>2, EndReached DEF S
        <5> QED BY <5>1, <5>2
      <4>8. Reached(w, LEVELS, begin)
        <5>1. \A g \in DOMAIN u : g \in DOMAIN w /\ w[g] = u[g]
          BY <2>9
        <5> QED BY <4>7, <5>1 DEF Reached, Covers
      <4>9. X = DOMAIN w \ DOMAIN u
        BY <1>1, <1>2, <1>3, <2>5, <4>4, <4>5, AddedIsGone DEF S
      <4>10. Takes(new, r, w, X, LEVELS, n)
        BY <2>9, <4>4, <4>6, <4>8, UnmapTakes
      <4> HIDE DEF X, n
      <4>11. /\ n \in Memory /\ n.avail = new.avail \cup X /\ Tree(n.table, r, Rest(w, X))
             /\ \A f \in Frame : f \notin DOMAIN w => n.table[f] = new.table[f]
        BY <4>10 DEF Takes
      <4>12. Rest(w, X) = u
        <5>1. u = [f \in DOMAIN u |-> u[f]]
          BY <1>3 DEF Places
        <5>2. DOMAIN u \subseteq DOMAIN w
          BY <2>9
        <5> QED BY <2>9, <4>9, <5>1, <5>2, RestBack
      <4>13. ok \in Memory /\ ok.avail = n.avail /\ ok.table = n.table /\ ok.out = "ok"
        BY <4>3, <4>11, OutIs
      <4> HIDE DEF ok
      <4>14. /\ k \in Memory /\ k.avail = n.avail /\ k.out = "ok"
             /\ \A f \in Frame : f \notin n.avail => k.table[f] = n.table[f]
        BY <4>13, CleanIs
      <4> HIDE DEF k
      <4>15. k.avail \subseteq Frame /\ k.avail \cap DOMAIN u = {}
             /\ k.avail \cup DOMAIN u = m.avail \cup DOMAIN u
        BY <1>1, <1>3, <2>9, <4>9, <4>11, <4>14
      <4>16. Tree(k.table, r, u)
        <5>1. \A f \in DOMAIN u : k.table[f] = n.table[f]
          BY <1>3, <4>14, <4>15
        <5> QED BY <4>11, <4>12, <5>1, TreeSame
      <4>17. \A f \in Frame \ (m.avail \cup DOMAIN u) : k.table[f] = m.table[f]
        BY <1>1, <2>9, <4>9, <4>11, <4>14
      <4>18. Become(m, u, k, u, r)
        BY <4>14, <4>15, <4>16, <4>17 DEF Become
      <4> QED BY <4>14, <4>15, <4>18
    <3> HIDE DEF k, next, a
    <3>3. res.memory = k /\ res.ok = FALSE /\ res.vmas = s
          /\ res = [memory |-> res.memory, vmas |-> res.vmas, ok |-> res.ok]
      BY <3>1
    <3>4. MapEnds(m, x, u, s, from, to, perm, res)
      BY <1>5, <3>2, <3>3 DEF MapEnds
    <3> QED BY <3>4 DEF res
  <2> QED BY <2>10, <2>11, <2>12, <2>13
<1> QED BY <1>4, <1>5

-----------------------------------------------------------------------------
(* The invariant, and the operations that keep it.                         *)

\* The address spaces lv: the tree U[x] of each is for its areas, and every frame that
\* is not free is in one of the trees.
Held(m, rt, vm, lv, U) ==
  /\ m \in Memory /\ m.avail \subseteq Frame /\ m.out = "ok"
  /\ \A x \in lv : Tree(m.table, rt[x], U[x]) /\ Serves(U[x], ToSet(vm[x]))
  /\ \A x, y \in lv : x # y => DOMAIN U[x] \cap DOMAIN U[y] = {}
  /\ \A x \in lv : m.avail \cap DOMAIN U[x] = {}
  /\ \A f \in Frame : f \in m.avail \/ \E x \in lv : f \in DOMAIN U[x]

\* What stays true when a thread hangs.
Base ==
  /\ memory \in Memory /\ memory.avail \subseteq Frame /\ memory.out \in {"ok", "hang"}
  /\ data \in [Frame -> Value]
  /\ live \subseteq Mm
  /\ root \in [Mm -> 0..FRAMES]
  /\ vmas \in [Mm -> Seq(Area)]
  /\ \A x \in Mm : Sorted(vmas[x])

IInv == Base /\ (Up => \E U : Held(memory, root, vmas, live, U))

\* Every address space has a tree of its own.
LEMMA HeldOwn ==
  ASSUME NEW m, NEW rt, NEW vm, NEW lv, NEW U, Held(m, rt, vm, lv, U), NEW x \in lv
  PROVE  Own(m, rt[x], U[x])
BY DEF Held, Own

\* The trees when that of x has become w.
With(U, lv, x, w) == [y \in lv \cup {x} |-> IF y = x THEN w ELSE U[y]]

\* Where one address space has changed and the rest is untouched, all are well again.
LEMMA Exchange ==
  ASSUME NEW m, NEW rt, NEW vm, NEW lv, NEW U, Held(m, rt, vm, lv, U), NEW x \in lv,
         NEW n, NEW w, Become(m, U[x], n, w, rt[x]),
         NEW new, Serves(w, ToSet(new[x])), \A y \in lv : y # x => new[y] = vm[y]
  PROVE  Held(n, rt, new, lv, With(U, lv, x, w))
<1> DEFINE V == With(U, lv, x, w)
<1>1. V[x] = w /\ \A y \in lv : y # x => V[y] = U[y]
  BY DEF With
<1> HIDE DEF V
<1>2. /\ n \in Memory /\ n.avail \subseteq Frame /\ n.out = "ok"
      /\ Tree(n.table, rt[x], w) /\ n.avail \cap DOMAIN w = {}
      /\ n.avail \cup DOMAIN w = m.avail \cup DOMAIN U[x]
      /\ \A f \in Frame \ (m.avail \cup DOMAIN U[x]) : n.table[f] = m.table[f]
  BY DEF Become
<1>3. ASSUME NEW y \in lv, y # x
      PROVE  /\ Tree(n.table, rt[y], U[y]) /\ Serves(U[y], ToSet(new[y]))
             /\ DOMAIN U[y] \cap (m.avail \cup DOMAIN U[x]) = {}
  <2>1. Tree(m.table, rt[y], U[y]) /\ Serves(U[y], ToSet(vm[y]))
    BY DEF Held
  <2>2. DOMAIN U[y] \cap (m.avail \cup DOMAIN U[x]) = {} /\ DOMAIN U[y] \subseteq Frame
    BY <1>3, <2>1, TreeFrames DEF Held
  <2>3. \A f \in DOMAIN U[y] : n.table[f] = m.table[f]
    BY <1>2, <2>2
  <2>4. Tree(n.table, rt[y], U[y])
    BY <2>1, <2>3, TreeSame
  <2>5. new[y] = vm[y]
    BY <1>3
  <2> QED BY <2>1, <2>2, <2>4, <2>5
<1>4. \A y \in lv : Tree(n.table, rt[y], V[y]) /\ Serves(V[y], ToSet(new[y]))
  <2>1. TAKE y \in lv
  <2>2. CASE y = x
    BY <1>1, <1>2, <2>2
  <2>3. CASE y # x
    BY <1>1, <1>3, <2>3
  <2> QED BY <2>2, <2>3
<1>5. \A y, z \in lv : y # z => DOMAIN V[y] \cap DOMAIN V[z] = {}
  <2>1. TAKE y, z \in lv
  <2>2. HAVE y # z
  <2>3. CASE y = x
    BY <1>1, <1>2, <1>3, <2>2, <2>3
  <2>4. CASE z = x
    BY <1>1, <1>2, <1>3, <2>2, <2>4
  <2>5. CASE y # x /\ z # x
    BY <1>1, <2>2, <2>5 DEF Held
  <2> QED BY <2>3, <2>4, <2>5
<1>6. \A y \in lv : n.avail \cap DOMAIN V[y] = {}
  <2>1. TAKE y \in lv
  <2>2. CASE y = x
    BY <1>1, <1>2, <2>2
  <2>3. CASE y # x
    BY <1>1, <1>2, <1>3, <2>3
  <2> QED BY <2>2, <2>3
<1>7. \A f \in Frame : f \in n.avail \/ \E y \in lv : f \in DOMAIN V[y]
  <2>1. TAKE f \in Frame
  <2>2. CASE f \in m.avail \cup DOMAIN U[x]
    BY <1>1, <1>2, <2>2
  <2>3. CASE f \notin m.avail \cup DOMAIN U[x]
    <3>1. PICK y \in lv : f \in DOMAIN U[y]
      BY <2>3 DEF Held
    <3> QED BY <1>1, <2>3, <3>1
  <2> QED BY <2>2, <2>3
<1> QED BY <1>2, <1>4, <1>5, <1>6, <1>7 DEF Held, V

\* The list without areas.
LEMMA EmptySorted == Sorted(<< >>) /\ ToSet(<< >>) = {} /\ << >> \in Seq(Area)
<1>1. << >> \in Seq(Area) /\ DOMAIN << >> = {}
  OBVIOUS
<1> QED BY <1>1 DEF Sorted, ToSet

\* The invariant holds at first.
LEMMA InitHolds == Init => IInv
<1>1. SUFFICES ASSUME Init PROVE IInv
  OBVIOUS
<1>2. None \in AnyEntry
  BY PagingAssumption DEF None, AnyEntry
<1> DEFINE t == [f \in Frame |-> [s \in Slot |-> None]]
<1>3. t \in [Frame -> [Slot -> AnyEntry]]
  BY <1>2
<1>4. Frame \in SUBSET (0..FRAMES) /\ 0 \in 0..FRAMES
  BY Sizes DEF Frame
<1>5. memory = [table |-> t, avail |-> Frame, out |-> "ok"]
  BY <1>1 DEF Init
<1> HIDE DEF t
<1>6. memory \in Memory /\ memory.avail = Frame /\ memory.out = "ok"
  BY <1>3, <1>4, <1>5 DEF Memory
<1>7. Blank \in Value
  BY ValueAssumption DEF Blank
<1>8. /\ data = [f \in Frame |-> Blank] /\ live = {} /\ root = [x \in Mm |-> 0]
      /\ vmas = [x \in Mm |-> <<>>]
  BY <1>1 DEF Init
<1>9. \A x \in Mm : Sorted(vmas[x])
  BY <1>8, EmptySorted
<1>10. Base
  BY <1>4, <1>6, <1>7, <1>8, <1>9, EmptySorted DEF Base
<1>11. Held(memory, root, vmas, live, {})
  BY <1>6, <1>8 DEF Held
<1> QED BY <1>10, <1>11 DEF IInv

\* The tree of a new address space is its root.
RootTree(f) == [g \in {f} |-> [lvl |-> LEVELS, num |-> 0]]

\* The root alone is the tree of an address space without areas.
LEMMA RootServes ==
  ASSUME NEW table, NEW f \in Frame, \A i \in Slot : table[f][i] = None
  PROVE  Tree(table, f, RootTree(f)) /\ Serves(RootTree(f), {})
<1> DEFINE u == RootTree(f)
<1>0. LEVELS \in Nat /\ LEVELS >= 1
  BY Sizes
<1>1. DOMAIN u = {f} /\ u[f] = [lvl |-> LEVELS, num |-> 0] /\ u = [g \in DOMAIN u |-> u[g]]
  BY DEF RootTree
<1> HIDE DEF u
<1>2. u[f].lvl = LEVELS /\ u[f].num = 0
  BY <1>1
<1>3. Places(u)
  <2>1. LEVELS \in 0..LEVELS /\ 0 \in Nat
    BY <1>0
  <2>2. \A g \in DOMAIN u : g = f
    BY <1>1
  <2> QED BY <1>1, <1>2, <2>1, <2>2 DEF Places
<1>4. Downward(table, u)
  <2>1. \A l \in 1..LEVELS, v \in Nat : ~Present(table[f][Index(v, l)])
    <3>1. ~Present(None)
      BY DEF Present, None
    <3> QED BY <3>1, Numbers
  <2> QED BY <1>1, <2>1 DEF Downward, LeafEntry, InnerEntry
<1>5. Upward(table, u)
  <2>1. ~(LEVELS \in 1..LEVELS - 1) /\ LEVELS # 0
    BY <1>0
  <2> QED BY <1>1, <1>2, <2>1 DEF Upward, Covers
<1>6. Serves(u, {})
  <2>1. ~(LEVELS \in 1..LEVELS - 1) /\ LEVELS # 0
    BY <1>0
  <2>2. \A p : ~In({}, p)
    BY DEF In
  <2> QED BY <1>1, <1>2, <2>1, <2>2 DEF Serves, Covers
<1> QED BY <1>1, <1>2, <1>3, <1>4, <1>5, <1>6 DEF Tree, u

\* mm_create takes the frame f for the root.
Rooted(m, f) == [Grab(m, f, 1) EXCEPT !.table[f] = [s \in Slot |-> None]]

\* What mm_create makes of the memory.
LEMMA RootMade ==
  ASSUME NEW m \in Memory, NEW f \in m.avail, f \in Nat, m.avail \subseteq Frame, NEW n,
         n = Rooted(m, f)
  PROVE  /\ n \in Memory /\ n.avail = m.avail \ {f} /\ n.out = m.out
         /\ \A i \in Slot : n.table[f][i] = None
         /\ \A g \in Frame : g # f => n.table[g] = m.table[g]
<1> DEFINE y == Grab(m, f, 1)
           e == [s \in Slot |-> None]
           t == [y.table EXCEPT ![f] = e]
<1>1. Run(f, 1) = {f}
  BY DEF Run
<1>2. y \in Memory /\ y.avail = m.avail \ {f} /\ y.table = m.table /\ y.out = m.out
  BY <1>1 DEF Grab, Memory
<1>3. None \in AnyEntry
  BY PagingAssumption DEF None, AnyEntry
<1>4. e \in [Slot -> AnyEntry] /\ \A i \in Slot : e[i] = None
  BY <1>3
<1> HIDE DEF y, e
<1>5. n = [y EXCEPT !.table = t]
  BY DEF y, e, Rooted
<1>6. y.table \in [Frame -> [Slot -> AnyEntry]] /\ f \in Frame
  BY <1>2 DEF Memory
<1>7. t \in [Frame -> [Slot -> AnyEntry]] /\ t[f] = e /\ \A g \in Frame : g # f => t[g] = y.table[g]
  BY <1>4, <1>6
<1> HIDE DEF t
<1>8. n \in Memory /\ n.avail = y.avail /\ n.out = y.out /\ n.table = t
  BY <1>2, <1>5, <1>7 DEF Memory
<1> QED BY <1>2, <1>4, <1>7, <1>8

\* mm_create keeps the invariant.
LEMMA CreateHolds ==
  ASSUME IInv, NEW x \in Mm, Create(x)
  PROVE  IInv'
<1> DEFINE f == Block(memory, 1)
<1>1. PICK U : Held(memory, root, vmas, live, U)
  BY DEF Create, IInv
<1>2. memory \in Memory /\ memory.avail \subseteq Frame /\ memory.out = "ok"
  BY <1>1 DEF Held
<1>3. Blocks(memory, 1) # {}
  BY DEF Create
<1>4. f \in memory.avail /\ f \in Nat
  BY <1>2, <1>3, BlockIs
<1>7. memory' = [Grab(memory, f, 1) EXCEPT !.table[f] = [s \in Slot |-> None]]
      /\ root' = [root EXCEPT ![x] = f]
      /\ live' = live \cup {x} /\ x \notin live
      /\ vmas' = [vmas EXCEPT ![x] = <<>>] /\ data' = data
  BY DEF Create
<1> HIDE DEF f
<1>8. /\ memory' \in Memory /\ memory'.avail = memory.avail \ {f} /\ memory'.out = "ok"
      /\ \A i \in Slot : memory'.table[f][i] = None
      /\ \A g \in Frame : g # f => memory'.table[g] = memory.table[g]
  <2>1. memory' = [Grab(memory, f, 1) EXCEPT !.table[f] = [s \in Slot |-> None]]
    BY <1>7
  <2> DEFINE n == memory'
             m == memory
  <2>2. m \in Memory /\ f \in m.avail /\ f \in Nat /\ m.avail \subseteq Frame
        /\ n = Rooted(m, f)
    BY <1>2, <1>4, <2>1 DEF Rooted
  <2> HIDE DEF n, m
  <2>3. /\ n \in Memory /\ n.avail = m.avail \ {f} /\ n.out = m.out
        /\ \A i \in Slot : n.table[f][i] = None
        /\ \A g \in Frame : g # f => n.table[g] = m.table[g]
    BY <2>2, RootMade
  <2> QED BY <1>2, <2>3 DEF n, m
<1> DEFINE t == memory'.table
<1>12. memory'.table = t
  OBVIOUS
<1>11. (\A i \in Slot : t[f][i] = None) /\ \A g \in Frame : g # f => t[g] = memory.table[g]
  BY <1>8
<1> HIDE DEF t
<1>13. f \in Frame
  BY <1>2, <1>4
<1>14. Base
  BY DEF IInv
<1>15. root'[x] = f /\ \A y \in Mm : y # x => root'[y] = root[y]
  BY <1>7, <1>14 DEF Base
<1>16. vmas'[x] = <<>> /\ \A y \in Mm : y # x => vmas'[y] = vmas[y]
  BY <1>7, <1>14 DEF Base
<1>17. live \subseteq Mm
  BY <1>14 DEF Base
<1>18. Base'
  <2>1. f \in 0..FRAMES
    BY <1>13, Sizes DEF Frame
  <2>2. root' \in [Mm -> 0..FRAMES]
    BY <1>7, <1>14, <2>1 DEF Base
  <2>3. vmas' \in [Mm -> Seq(Area)] /\ \A y \in Mm : Sorted(vmas'[y])
    BY <1>7, <1>14, <1>16, EmptySorted DEF Base
  <2> QED BY <1>2, <1>7, <1>8, <1>14, <2>2, <2>3 DEF Base
<1> DEFINE V == With(U, live, x, RootTree(f))
<1>19. V[x] = RootTree(f) /\ \A y \in live : V[y] = U[y] /\ y # x
  BY <1>7 DEF With
<1>20. DOMAIN RootTree(f) = {f}
  BY DEF RootTree
<1> HIDE DEF V
<1>21. Tree(t, f, V[x]) /\ Serves(V[x], ToSet(vmas'[x]))
  BY <1>11, <1>13, <1>16, <1>19, RootServes, EmptySorted
<1>22. ASSUME NEW y \in live
       PROVE  /\ Tree(t, root'[y], V[y]) /\ Serves(V[y], ToSet(vmas'[y]))
              /\ DOMAIN V[y] \cap memory.avail = {}
  <2>1. Tree(memory.table, root[y], U[y]) /\ Serves(U[y], ToSet(vmas[y]))
        /\ memory.avail \cap DOMAIN U[y] = {}
    BY <1>1 DEF Held
  <2>2. \A g \in DOMAIN U[y] : t[g] = memory.table[g]
    BY <1>4, <1>11, <2>1, TreeFrames
  <2>3. Tree(t, root[y], U[y])
    BY <2>1, <2>2, TreeSame
  <2>4. y \in Mm /\ y # x
    BY <1>17, <1>19
  <2> QED BY <1>15, <1>16, <1>19, <2>1, <2>3, <2>4
<1>23. \A y \in live' : Tree(t, root'[y], V[y]) /\ Serves(V[y], ToSet(vmas'[y]))
  BY <1>7, <1>15, <1>21, <1>22
<1>24. \A y, z \in live' : y # z => DOMAIN V[y] \cap DOMAIN V[z] = {}
  <2>1. TAKE y, z \in live'
  <2>2. HAVE y # z
  <2>3. CASE y = x
    BY <1>4, <1>7, <1>19, <1>20, <1>22, <2>2, <2>3
  <2>4. CASE z = x
    BY <1>4, <1>7, <1>19, <1>20, <1>22, <2>2, <2>4
  <2>5. CASE y # x /\ z # x
    <3>1. y \in live /\ z \in live
      BY <1>7, <2>5
    <3> QED BY <1>1, <1>19, <2>2, <3>1 DEF Held
  <2> QED BY <2>3, <2>4, <2>5
<1>25. \A y \in live' : memory'.avail \cap DOMAIN V[y] = {}
  <2>1. TAKE y \in live'
  <2>2. CASE y = x
    BY <1>8, <1>19, <1>20, <2>2
  <2>3. CASE y # x
    BY <1>7, <1>8, <1>22, <2>3
  <2> QED BY <2>2, <2>3
<1>26. \A g \in Frame : g \in memory'.avail \/ \E y \in live' : g \in DOMAIN V[y]
  <2>1. TAKE g \in Frame
  <2>2. CASE g = f
    BY <1>7, <1>19, <1>20, <2>2
  <2>3. CASE g # f
    <3>1. g \in memory.avail \/ \E y \in live : g \in DOMAIN U[y]
      BY <1>1 DEF Held
    <3> QED BY <1>7, <1>8, <1>19, <2>3, <3>1
  <2> QED BY <2>2, <2>3
<1>27. Held(memory', root', vmas', live', V)
  <2>1. memory'.avail \subseteq Frame
    BY <1>2, <1>8
  <2> QED BY <1>8, <1>12, <1>23, <1>24, <1>25, <1>26, <2>1 DEF Held
<1> QED BY <1>18, <1>27 DEF IInv

\* What is in frames that are not free stays.
LEMMA BlankedIs ==
  ASSUME NEW d \in [Frame -> Value], NEW m
  PROVE  /\ Blanked(d, m) \in [Frame -> Value]
         /\ \A f \in Frame : f \notin m.avail => Blanked(d, m)[f] = d[f]
<1>1. Blank \in Value
  BY ValueAssumption DEF Blank
<1> QED BY <1>1 DEF Blanked

\* One address space has become another, and the rest is as it was.
LEMMA StepHolds ==
  ASSUME Base, NEW x \in live, NEW areas, Sorted(areas),
         vmas' = [vmas EXCEPT ![x] = areas], live' = live, root' = root,
         memory' \in Memory, memory'.avail \subseteq Frame, memory'.out \in {"ok", "hang"},
         data' \in [Frame -> Value],
         NEW U, Held(memory, root, vmas, live, U),
         memory'.out = "ok" => \E w : /\ Become(memory, U[x], memory', w, root[x])
                                      /\ Serves(w, ToSet(areas))
  PROVE  IInv'
<1>1. x \in Mm
  BY DEF Base
<1>2. vmas'[x] = areas /\ \A y \in Mm : y # x => vmas'[y] = vmas[y]
  BY <1>1 DEF Base
<1>3. Base'
  <2>1. areas \in Seq(Area)
    BY DEF Sorted
  <2>2. vmas' \in [Mm -> Seq(Area)]
    BY <2>1 DEF Base
  <2>3. \A y \in Mm : Sorted(vmas'[y])
    BY <1>2 DEF Base
  <2> QED BY <2>2, <2>3 DEF Base
<1>4. ASSUME Up' PROVE \E V : Held(memory', root', vmas', live', V)
  <2>1. memory'.out = "ok"
    BY <1>4 DEF Up
  <2>2. PICK w : Become(memory, U[x], memory', w, root[x]) /\ Serves(w, ToSet(areas))
    BY <2>1
  <2>3. Serves(w, ToSet(vmas'[x])) /\ \A y \in live : y # x => vmas'[y] = vmas[y]
    BY <1>2, <2>2 DEF Base
  <2>4. Held(memory', root, vmas', live, With(U, live, x, w))
    BY <2>2, <2>3, Exchange
  <2> QED BY <2>4
<1> QED BY <1>3, <1>4 DEF IInv

\* munmap keeps the invariant.
LEMMA MunmapHolds ==
  ASSUME IInv, "munmap" \in Excluded, NEW x \in Mm, NEW from \in Address, NEW to \in Address,
         from < to, Munmap(x, from, to)
  PROVE  IInv'
<1>1. Up /\ x \in live /\ ~Straddles(vmas[x], from, to) /\ After(vmas[x], to) > Len(vmas[x])
      /\ memory' = Unmapped(memory, x, vmas[x], from, to)
      /\ vmas' = [vmas EXCEPT ![x] = Kept(vmas[x], from, to)]
      /\ data' = Blanked(data, memory') /\ live' = live /\ root' = root
  BY DEF Munmap
<1>2. PICK U : Held(memory, root, vmas, live, U)
  BY <1>1 DEF IInv
<1>3. Base /\ Sorted(vmas[x])
  BY DEF IInv, Base
<1>4. Own(memory, root[x], U[x]) /\ Serves(U[x], ToSet(vmas[x]))
  BY <1>1, <1>2, HeldOwn DEF Held
<1>5. PICK w : /\ Become(memory, U[x], memory', w, root[x])
               /\ Serves(w, ToSet(Kept(vmas[x], from, to)))
  BY <1>1, <1>3, <1>4, UnmappedServes
<1>6. from \in Nat /\ to \in Nat
  BY Half DEF Address
<1>7. Sorted(Kept(vmas[x], from, to))
  BY <1>1, <1>3, <1>6, KeptIs
<1>8. memory' \in Memory /\ memory'.avail \subseteq Frame /\ memory'.out = "ok"
  BY <1>5 DEF Become
<1>9. data' \in [Frame -> Value]
  BY <1>1, <1>3, BlankedIs DEF Base
<1> QED BY <1>1, <1>2, <1>3, <1>5, <1>7, <1>8, <1>9, StepHolds

\* mmap keeps the invariant.
LEMMA MmapHolds ==
  ASSUME IInv, "mmap" \in Excluded, NEW x \in Mm, NEW from \in Address, NEW to \in Address,
         from < to, NEW perm \in Perm, Mmap(x, from, to, perm)
  PROVE  IInv'
<1> DEFINE res == Mapped(memory, x, vmas[x], from, to, perm)
<1>1. Up /\ x \in live /\ ~FailsBelow(memory, x, vmas[x], from, to, perm)
      /\ memory' = res.memory /\ vmas' = [vmas EXCEPT ![x] = res.vmas]
      /\ data' = Blanked(data, memory') /\ live' = live /\ root' = root
  BY DEF Mmap
<1>2. PICK U : Held(memory, root, vmas, live, U)
  BY <1>1 DEF IInv
<1>3. Base /\ Sorted(vmas[x])
  BY DEF IInv, Base
<1>4. Own(memory, root[x], U[x]) /\ Serves(U[x], ToSet(vmas[x]))
  BY <1>1, <1>2, HeldOwn DEF Held
<1>5. MapEnds(memory, x, U[x], vmas[x], from, to, perm, res)
  BY <1>1, <1>3, <1>4, MappedIs
<1> HIDE DEF res
<1>6. /\ res.ok \in BOOLEAN /\ res.memory \in Memory /\ res.memory.avail \subseteq Frame
      /\ res.memory.out \in {"ok", "hang"}
      /\ ~res.ok => res.vmas = vmas[x]
      /\ res.ok => /\ Sorted(res.vmas)
                   /\ \E w : /\ Become(memory, U[x], res.memory, w, root[x])
                             /\ Serves(w, ToSet(res.vmas))
      /\ ~res.ok /\ res.memory.out = "ok" => Become(memory, U[x], res.memory, U[x], root[x])
  BY <1>5 DEF MapEnds
<1>7. Sorted(res.vmas)
  BY <1>3, <1>6
<1>8. memory'.out = "ok" => \E w : /\ Become(memory, U[x], memory', w, root[x])
                                   /\ Serves(w, ToSet(res.vmas))
  BY <1>1, <1>4, <1>6
<1>9. data' \in [Frame -> Value]
  BY <1>1, <1>3, BlankedIs DEF Base
<1> QED BY <1>1, <1>2, <1>3, <1>6, <1>7, <1>8, <1>9, StepHolds

\* mset keeps the invariant: it changes contents alone.
LEMMA MsetHolds ==
  ASSUME IInv, NEW x \in Mm, NEW from \in Address, NEW to \in Address, NEW value \in Value,
         Mset(x, from, to, value)
  PROVE  IInv'
<1>1. data' \in [Frame -> Value]
  <2>1. data \in [Frame -> Value]
    BY DEF IInv, Base
  <2> QED BY <2>1 DEF Mset
<1>2. UNCHANGED <<memory, live, root, vmas>>
  BY DEF Mset
<1> QED BY <1>1, <1>2 DEF IInv, Base, Up, Held

\* A step that changes nothing keeps the invariant.
LEMMA StillHolds ==
  ASSUME IInv, UNCHANGED vars
  PROVE  IInv'
BY DEF IInv, Base, Up, vars, Held

\* mm_release: all frames of the address space are free again.
LEMMA ReleaseHolds ==
  ASSUME IInv, NEW x \in Mm, ReleaseMm(x)
  PROVE  IInv'
<1> DEFINE r == root[x]
           n == pt_unmap(memory, r, 0, END)
           g == GiveBack(n, r, 1)
<1>1. /\ Up /\ x \in live /\ memory' = Clean(g) /\ live' = live \ {x}
      /\ vmas' = [vmas EXCEPT ![x] = <<>>] /\ root' = [root EXCEPT ![x] = 0]
      /\ data' = Blanked(data, memory')
  BY DEF ReleaseMm
<1>2. PICK U : Held(memory, root, vmas, live, U)
  BY <1>1 DEF IInv
<1> DEFINE u == U[x]
           S == ToSet(vmas[x])
           X == Gone(u, LEVELS, 0, END)
<1>3. Base /\ Sorted(vmas[x])
  BY DEF IInv, Base
<1>4. /\ memory \in Memory /\ memory.avail \subseteq Frame /\ memory.out = "ok"
      /\ Tree(memory.table, r, u) /\ Serves(u, S) /\ memory.avail \cap DOMAIN u = {}
  BY <1>1, <1>2 DEF Held
<1>5. Apart(S) /\ Places(u) /\ DOMAIN u \subseteq Frame /\ r \in Frame /\ r \in DOMAIN u
      /\ u[r].lvl = LEVELS
  BY <1>3, <1>4, SortedApart, TreeFrames
<1>6. Takes(memory, r, u, X, LEVELS, n)
  <2>1. 0 \in Nat /\ 0 < END /\ END - 0 = END
    BY Half
  <2>2. Reached(u, LEVELS, 0)
    BY StartReached
  <2>3. Takes(memory, r, u, Gone(u, LEVELS, 0, END), LEVELS, pt_unmap(memory, r, 0, END - 0))
    <3> HIDE DEF u, r
    <3> QED BY <1>4, <2>1, <2>2, UnmapTakes
  <2> QED BY <2>1, <2>3
<1> HIDE DEF n, S
<1>7. Serves(Rest(u, X), {})
  <2>1. \A a \in S : a.begin \in Nat /\ a.end \in Nat /\ a.begin < a.end
    BY <1>5 DEF Apart
  <2>2. {a \in S : a.end <= 0} = {} /\ \A a \in S : a.end <= 0 \/ a.begin >= 0
    BY <2>1
  <2>3. 0 \in Nat
    OBVIOUS
  <2>4. Serves(Rest(u, X), {a \in S : a.end <= 0})
    <3> HIDE DEF u
    <3> QED BY <1>4, <1>5, <2>2, <2>3, CutServes
  <2> QED BY <2>2, <2>4
<1> HIDE DEF X, u
<1>8. /\ n \in Memory /\ n.out = "ok" /\ n.avail = memory.avail \cup X
      /\ X \subseteq DOMAIN u /\ Tree(n.table, r, Rest(u, X))
      /\ \A f \in Frame : f \notin DOMAIN u => n.table[f] = memory.table[f]
  BY <1>4, <1>6 DEF Takes
<1>9. DOMAIN Rest(u, X) = {r}
  <2> DEFINE w == Rest(u, X)
  <2>1. Places(w) /\ r \in DOMAIN w /\ w[r].lvl = LEVELS
    BY <1>8 DEF Tree
  <2> HIDE DEF w
  <2>2. \A p : ~In({}, p)
    BY DEF In
  <2>3. ASSUME NEW f \in DOMAIN w PROVE f = r
    <3>1. w[f].lvl \in 0..LEVELS /\ LEVELS \in Nat
      BY <2>1, Sizes DEF Places
    <3>2. w[f].lvl \notin 1..LEVELS - 1
      BY <1>7, <2>2 DEF Serves, w
    <3>3. w[f].lvl # 0
      <4>1. First(w, f) \in Nat /\ Covers(w, f, w[f].lvl, First(w, f))
        BY <2>1, FirstPage
      <4> QED BY <1>7, <2>2, <4>1 DEF Serves, w
    <3>4. w[f].lvl = LEVELS
      BY <3>1, <3>2, <3>3
    <3>5. w[f].num = 0 /\ w[r].num = 0
      BY <2>1, <3>4 DEF Places
    <3> QED BY <2>1, <3>4, <3>5 DEF Places
  <2> QED BY <2>1, <2>3 DEF w
<1>10. X = DOMAIN u \ {r}
  <2>1. DOMAIN Rest(u, X) = DOMAIN u \ X
    BY DEF Rest
  <2> QED BY <1>5, <1>8, <1>9, <2>1
<1>11. Run(r, 1) = {r} /\ r \in 0..FRAMES
  <2>1. r \in Nat /\ r \in 0..FRAMES
    BY <1>5, Sizes DEF Frame
  <2> HIDE DEF r
  <2> QED BY <2>1 DEF Run
<1>12. g \in Memory /\ g.avail = n.avail \cup {r} /\ g.out = "ok" /\ g.table = n.table
  BY <1>8, <1>11 DEF GiveBack, Memory
<1> HIDE DEF g
<1>13. /\ memory' \in Memory /\ memory'.avail = g.avail /\ memory'.out = "ok"
       /\ \A f \in Frame : f \notin g.avail => memory'.table[f] = g.table[f]
  BY <1>1, <1>12, CleanIs
<1>14. memory'.avail = memory.avail \cup DOMAIN u /\ memory'.avail \subseteq Frame
  BY <1>4, <1>5, <1>8, <1>10, <1>12, <1>13
<1> HIDE DEF r
<1>15. live \subseteq Mm /\ \A y \in Mm : y # x => root'[y] = root[y] /\ vmas'[y] = vmas[y]
  BY <1>1, <1>3 DEF Base
<1>16. Base'
  <2>1. 0 \in 0..FRAMES
    BY Sizes
  <2>2. root' \in [Mm -> 0..FRAMES]
    BY <1>1, <1>3, <2>1 DEF Base
  <2>3. vmas' \in [Mm -> Seq(Area)] /\ \A y \in Mm : Sorted(vmas'[y])
    BY <1>1, <1>3, EmptySorted DEF Base
  <2>4. data' \in [Frame -> Value]
    BY <1>1, <1>3, BlankedIs DEF Base
  <2>5. live' \subseteq Mm
    BY <1>1, <1>15
  <2> QED BY <1>13, <1>14, <2>2, <2>3, <2>4, <2>5 DEF Base
<1>17. ASSUME NEW y \in live'
       PROVE  /\ Tree(memory'.table, root'[y], U[y]) /\ Serves(U[y], ToSet(vmas'[y]))
              /\ memory'.avail \cap DOMAIN U[y] = {}
  <2>1. y \in live /\ y # x /\ y \in Mm
    BY <1>1, <1>15
  <2>2. Tree(memory.table, root[y], U[y]) /\ Serves(U[y], ToSet(vmas[y]))
        /\ memory.avail \cap DOMAIN U[y] = {} /\ DOMAIN u \cap DOMAIN U[y] = {}
    BY <1>1, <1>2, <2>1 DEF Held, u
  <2>3. memory'.avail \cap DOMAIN U[y] = {}
    BY <1>14, <2>2
  <2>4. \A f \in DOMAIN U[y] : memory'.table[f] = memory.table[f]
    <3>1. DOMAIN U[y] \subseteq Frame
      BY <2>2, TreeFrames
    <3>2. \A f \in DOMAIN U[y] : f \notin DOMAIN u /\ f \notin g.avail
      BY <1>13, <2>2, <2>3
    <3> QED BY <1>8, <1>12, <1>13, <3>1, <3>2
  <2>5. Tree(memory'.table, root[y], U[y])
    BY <2>2, <2>4, TreeSame
  <2> QED BY <1>15, <2>1, <2>2, <2>3, <2>5
<1>18. \A f \in Frame : f \in memory'.avail \/ \E y \in live' : f \in DOMAIN U[y]
  <2>1. TAKE f \in Frame
  <2>2. f \in memory.avail \/ \E y \in live : f \in DOMAIN U[y]
    BY <1>2 DEF Held
  <2> QED BY <1>1, <1>14, <2>2 DEF u
<1>19. \A y, z \in live' : y # z => DOMAIN U[y] \cap DOMAIN U[z] = {}
  <2>1. live' \subseteq live
    BY <1>1
  <2> QED BY <1>2, <2>1 DEF Held
<1>20. Held(memory', root', vmas', live', U)
  BY <1>13, <1>14, <1>17, <1>18, <1>19 DEF Held
<1> QED BY <1>16, <1>20 DEF IInv

-----------------------------------------------------------------------------
(* mm_copy.                                                                *)

\* The frame of a page that is in an area, and the page of a frame.
LEMMA FrameIs ==
  ASSUME NEW m, m \in Memory, NEW x, NEW u, Tree(m.table, root[x], u), NEW p \in Nat, p < END
  PROVE  /\ FrameOf(m, x, p) # 0 => /\ FrameOf(m, x, p) \in DOMAIN u
                                    /\ Covers(u, FrameOf(m, x, p), 0, p)
         /\ \A f \in DOMAIN u : Covers(u, f, 0, p) => FrameOf(m, x, p) = f
<1>1. m.table \in Tables
  BY DEF Memory, Tables
<1>2. p < Size(LEVELS + 1)
  BY Half, Sizes
<1>3. /\ pt_addr(m.table, root[x], p) # 0 => Covers(u, pt_addr(m.table, root[x], p), 0, p)
      /\ \A f \in DOMAIN u : Covers(u, f, 0, p) => pt_addr(m.table, root[x], p) = f
  BY <1>1, <1>2, AddrFinds
<1> QED BY <1>3 DEF FrameOf, Covers

\* A frame holds one page.
LEMMA OnePage ==
  ASSUME NEW u, NEW f, NEW p \in Nat, NEW q \in Nat, Covers(u, f, 0, p), Covers(u, f, 0, q)
  PROVE  p = q
BY Numbers DEF Covers

\* The tree w of the copy s, and what is in its pages.
CopyTree(U, dst, src, s, w) ==
  /\ Become(memory, U[dst], s.memory, w, root[dst]) /\ Serves(w, ToSet(s.vmas))
  /\ s.ok => \A p \in Nat, g \in DOMAIN w, f \in DOMAIN U[src] :
               Covers(w, g, 0, p) /\ Covers(U[src], f, 0, p) => s.data[g] = data[f]

\* What is true of the copy s, a state of mm_copy's loop.
CopyKeeps(U, dst, src, s) ==
  /\ s \in Copying /\ s.memory.avail \subseteq Frame /\ s.memory.out \in {"ok", "hang"}
  /\ s.ok => s.memory.out = "ok"
  /\ Sorted(s.vmas) /\ Len(s.vmas) <= Len(vmas[src])
  /\ \A i \in 1..Len(s.vmas) : s.vmas[i] = vmas[src][i]
  /\ \A f \in Frame \ (memory.avail \cup DOMAIN U[dst]) : s.data[f] = data[f]
  /\ s.memory.out = "ok" => \E w : CopyTree(U, dst, src, s, w)

\* The copy so far, and no area too many.
CopyAt(U, dst, src, k, s) ==
  CopyKeeps(U, dst, src, s) /\ (s.ok => s.next = k + 1 /\ Len(s.vmas) = k)

\* Two calls on one address space, one after the other.
LEMMA BecomeTrans ==
  ASSUME NEW m, NEW u, NEW n, NEW w, NEW o, NEW v, NEW r,
         Become(m, u, n, w, r), Become(n, w, o, v, r)
  PROVE  Become(m, u, o, v, r)
BY DEF Become

\* A turn of mm_copy's loop maps and fills one area more, or fails.
LEMMA CopyAreaKeeps ==
  ASSUME Base, NEW U, Held(memory, root, vmas, live, U),
         NEW dst \in live, NEW src \in live, dst # src, NEW k \in 0..Len(vmas[src]) - 1,
         NEW s, CopyAt(U, dst, src, k, s), s.ok
  PROVE  CopyAt(U, dst, src, k + 1, CopyArea(dst, src)[s])
<1> DEFINE area == vmas[src][s.next]
           new  == Mapped(s.memory, dst, s.vmas, area.begin, area.end, area.perm)
           pages(f) == {p \in Copied(area) : FrameOf(new.memory, dst, p) = f}
           source(f) == FrameOf(new.memory, src, CHOOSE p \in pages(f) : TRUE)
           d == [f \in Frame |-> IF new.ok /\ pages(f) # {} THEN s.data[source(f)]
                                 ELSE s.data[f]]
           t == CopyArea(dst, src)[s]
           n == Len(vmas[src])
           x == U[src]
           free == memory.avail \cup DOMAIN U[dst]
<1>1. /\ s \in Copying /\ s.memory.avail \subseteq Frame /\ s.memory.out = "ok"
      /\ Sorted(s.vmas) /\ Len(s.vmas) = k /\ s.next = k + 1
      /\ \A i \in 1..k : s.vmas[i] = vmas[src][i]
      /\ \A f \in Frame \ free : s.data[f] = data[f]
      /\ \E w : CopyTree(U, dst, src, s, w)
  BY DEF CopyAt, CopyKeeps
<1>2. /\ s.memory \in Memory /\ s.data \in [Frame -> Value]
      /\ s = [next |-> s.next, memory |-> s.memory, vmas |-> s.vmas, ok |-> s.ok, data |-> s.data]
  BY <1>1 DEF Copying
<1>3. src \in Mm /\ dst \in Mm /\ Sorted(vmas[src]) /\ n \in Nat /\ data \in [Frame -> Value]
  BY AreaIs DEF Base
<1>4. k \in Nat /\ k + 1 \in 1..n
  BY <1>3
<1>5. t = [next |-> s.next + 1, memory |-> new.memory, vmas |-> new.vmas, ok |-> new.ok,
           data |-> d]
  BY <1>1 DEF CopyArea
<1>6. /\ area \in Area /\ area.begin < area.end /\ area.end <= END
      /\ area.begin \in Nat /\ area.end \in Nat /\ area.perm \in Perm
  BY <1>1, <1>3, <1>4, AreaIs
<1>7. area.begin \in Address /\ area.end \in Address
  BY <1>6, Half DEF Address
<1>8. area = [begin |-> area.begin, end |-> area.end, perm |-> area.perm]
  BY <1>6 DEF Area
<1>9. area = vmas[src][k + 1]
  BY <1>1
<1>10. /\ Copied(area) = area.begin .. area.end - 1
  BY DEF Copied
<1> HIDE DEF area
<1>11. \A p : p \in Copied(area) <=> p \in Nat /\ area.begin <= p /\ p < area.end
  BY <1>6, <1>10
<1>12. PICK w : CopyTree(U, dst, src, s, w)
  BY <1>1
<1>13. /\ Become(memory, U[dst], s.memory, w, root[dst]) /\ Serves(w, ToSet(s.vmas))
       /\ \A p \in Nat, g \in DOMAIN w, f \in DOMAIN x :
            Covers(w, g, 0, p) /\ Covers(x, f, 0, p) => s.data[g] = data[f]
  BY <1>12 DEF CopyTree
<1>14. Own(s.memory, root[dst], w)
  BY <1>13 DEF Become, Own
<1>15. DOMAIN s.vmas = 1..k /\ \A i \in 1..k : s.vmas[i].begin \in Nat /\ s.vmas[i].end \in Nat
                                                /\ s.vmas[i].begin < s.vmas[i].end
  BY <1>1, AreaIs
<1>16. \A i \in 1..k : s.vmas[i].end <= area.begin
  <2>1. TAKE i \in 1..k
  <2>2. i \in 1..n /\ i < k + 1
    BY <1>4
  <2>3. vmas[src][i].end <= vmas[src][k + 1].begin
    BY <1>3, <1>4, <2>2, SortedOrder
  <2> QED BY <1>1, <1>9, <2>3
<1>17. After(s.vmas, area.end) > Len(s.vmas)
  <2>1. After(s.vmas, area.end) \in 1..k + 1
        /\ \A i \in 1..k : s.vmas[i].begin < area.end <=> i < After(s.vmas, area.end)
    BY <1>1, <1>6, AfterIs
  <2>2. \A i \in 1..k : s.vmas[i].begin < area.end
    BY <1>6, <1>15, <1>16
  <2>3. CASE k = 0
    BY <1>1, <2>1, <2>3
  <2>4. CASE k # 0
    <3>1. k \in 1..k
      BY <1>4, <2>4
    <3>2. k < After(s.vmas, area.end)
      BY <2>1, <2>2, <3>1
    <3> QED BY <1>1, <3>2
  <2> QED BY <2>3, <2>4
<1>18. ~FailsBelow(s.memory, dst, s.vmas, area.begin, area.end, area.perm)
  <2>1. After(s.vmas, area.end) \in Nat /\ Len(s.vmas) \in Nat
    <3>1. After(s.vmas, area.end) \in 1..Len(s.vmas) + 1
      BY <1>1, <1>6, AfterIs
    <3> QED BY <1>1, <1>4, <3>1
  <2> QED BY <1>17, <2>1 DEF FailsBelow
<1>19. MapEnds(s.memory, dst, w, s.vmas, area.begin, area.end, area.perm, new)
  BY <1>1, <1>6, <1>7, <1>13, <1>14, <1>18, MappedIs
<1> HIDE DEF new, n
<1>20. /\ new.ok \in BOOLEAN /\ new.memory \in Memory /\ new.memory.avail \subseteq Frame
       /\ new.memory.out \in {"ok", "hang"} /\ (new.ok => new.memory.out = "ok")
       /\ ~new.ok => new.vmas = s.vmas
       /\ new.ok => /\ Sorted(new.vmas) /\ new.vmas = Append(s.vmas, area)
                    /\ \E v : /\ Become(s.memory, w, new.memory, v, root[dst])
                              /\ Serves(v, ToSet(new.vmas))
                              /\ DOMAIN w \subseteq DOMAIN v /\ \A f \in DOMAIN w : v[f] = w[f]
       /\ ~new.ok /\ new.memory.out = "ok" => Become(s.memory, w, new.memory, w, root[dst])
  BY <1>8, <1>17, <1>19 DEF MapEnds
<1>21. t.next = k + 2 /\ t.memory = new.memory /\ t.vmas = new.vmas /\ t.ok = new.ok /\ t.data = d
       /\ t = [next |-> t.next, memory |-> t.memory, vmas |-> t.vmas, ok |-> t.ok, data |-> t.data]
  BY <1>1, <1>4, <1>5
<1> HIDE DEF t
<1>22. CASE ~new.ok
  <2>1. d = s.data
    <3>1. d = [f \in Frame |-> s.data[f]]
      BY <1>22
    <3> QED BY <1>2, <3>1
  <2>2. t \in Copying
    BY <1>1, <1>2, <1>4, <1>20, <1>21, <1>22, <2>1 DEF Copying, Sorted
  <2>3. t.memory.out = "ok" => \E v : CopyTree(U, dst, src, t, v)
    <3>1. HAVE t.memory.out = "ok"
    <3>2. Become(memory, U[dst], t.memory, w, root[dst])
      BY <1>13, <1>20, <1>21, <1>22, <3>1, BecomeTrans
    <3>3. Serves(w, ToSet(t.vmas))
      BY <1>13, <1>20, <1>21, <1>22
    <3>4. CopyTree(U, dst, src, t, w)
      BY <1>21, <1>22, <3>2, <3>3 DEF CopyTree
    <3> QED BY <3>4
  <2>4. t.vmas = s.vmas /\ t.data = s.data /\ ~t.ok
    BY <1>20, <1>21, <1>22, <2>1
  <2>5. Len(t.vmas) <= Len(vmas[src]) /\ Sorted(t.vmas)
        /\ \A i \in 1..Len(t.vmas) : t.vmas[i] = vmas[src][i]
    BY <1>1, <1>4, <2>4 DEF n
  <2>6. \A f \in Frame \ (memory.avail \cup DOMAIN U[dst]) : t.data[f] = data[f]
    BY <1>1, <2>4
  <2>7. CopyKeeps(U, dst, src, t)
    BY <1>20, <1>21, <2>2, <2>3, <2>4, <2>5, <2>6 DEF CopyKeeps
  <2> QED BY <2>4, <2>7 DEF CopyAt, t
<1>23. CASE new.ok
  <2>1. PICK v : /\ Become(s.memory, w, new.memory, v, root[dst])
                 /\ Serves(v, ToSet(new.vmas))
                 /\ DOMAIN w \subseteq DOMAIN v /\ \A f \in DOMAIN w : v[f] = w[f]
    BY <1>20, <1>23
  <2>2. Become(memory, U[dst], new.memory, v, root[dst])
    BY <1>13, <2>1, BecomeTrans
  <2>3. /\ new.memory \in Memory /\ Tree(new.memory.table, root[dst], v)
        /\ DOMAIN v \subseteq free /\ DOMAIN v \subseteq Frame /\ Places(v)
        /\ \A f \in Frame \ free : new.memory.table[f] = memory.table[f]
    BY <2>2, TreeFrames DEF Become
  <2>4. /\ Tree(memory.table, root[src], x) /\ Serves(x, ToSet(vmas[src]))
        /\ DOMAIN x \cap free = {} /\ DOMAIN x \subseteq Frame
    BY TreeFrames DEF Held
  <2>5. Tree(new.memory.table, root[src], x)
    <3>1. \A f \in DOMAIN x : new.memory.table[f] = memory.table[f]
      BY <2>3, <2>4
    <3> QED BY <2>4, <3>1, TreeSame
  <2>6. new.vmas \in Seq(Area) /\ Len(new.vmas) = k + 1
        /\ (\A i \in 1..k : new.vmas[i] = s.vmas[i]) /\ new.vmas[k + 1] = area
        /\ ToSet(new.vmas) = ToSet(s.vmas) \cup {area}
    <3>1. s.vmas \in Seq(Area) /\ new.vmas = Append(s.vmas, area)
      BY <1>1, <1>20, <1>23 DEF Sorted
    <3>2. ToSet(Append(s.vmas, area)) = ToSet(s.vmas) \cup {area}
      BY <1>6, <3>1, AppendQueue
    <3> QED BY <1>1, <1>6, <3>1, <3>2, AppendProperties
  <2>7. ASSUME NEW p \in Copied(area)
        PROVE  /\ p \in Nat /\ p < END
               /\ \E f \in DOMAIN x : Covers(x, f, 0, p) /\ FrameOf(new.memory, src, p) = f
    <3>1. p \in Nat /\ p < END /\ area.begin <= p /\ p < area.end
      BY <1>6, <1>11, Half
    <3>2. area \in ToSet(vmas[src])
      BY <1>3, <1>4, <1>9, AreaIs DEF ToSet, n
    <3>3. In(ToSet(vmas[src]), p)
      BY <3>1, <3>2 DEF In
    <3>4. PICK f \in DOMAIN x : Covers(x, f, 0, p)
      BY <2>4, <3>1, <3>3 DEF Serves
    <3>5. FrameOf(new.memory, src, p) = f
      <4> HIDE DEF x
      <4> QED BY <2>3, <2>5, <3>1, <3>4, FrameIs
    <3> QED BY <3>1, <3>4, <3>5
  <2>8. ASSUME NEW f, NEW p \in pages(f), f # 0
        PROVE  f \in DOMAIN v /\ Covers(v, f, 0, p) /\ p \in Nat /\ p \in Copied(area)
    <3>1. p \in Copied(area) /\ FrameOf(new.memory, dst, p) = f
      OBVIOUS
    <3>2. p \in Nat /\ p < END
      BY <2>7, <3>1
    <3> QED BY <2>3, <2>8, <3>1, <3>2, FrameIs
  <2>9. d \in [Frame -> Value]
    <3>1. ASSUME NEW f \in Frame, pages(f) # {} PROVE source(f) \in Frame
      <4> DEFINE q == CHOOSE p \in pages(f) : TRUE
      <4>1. q \in pages(f)
        BY <3>1
      <4>2. q \in Copied(area)
        BY <4>1
      <4> HIDE DEF q
      <4>3. FrameOf(new.memory, src, q) \in Frame
        BY <2>4, <2>7, <4>2
      <4> QED BY <4>3 DEF q
    <3> HIDE DEF pages, source
    <3> QED BY <1>2, <3>1
  <2>10. \A f \in Frame \ free : d[f] = data[f]
    <3>1. TAKE f \in Frame \ free
    <3>2. f # 0
      BY Sizes DEF Frame
    <3>3. pages(f) = {}
      <4>1. \A p \in pages(f) : f \in DOMAIN v
        BY <2>8, <3>2
      <4> QED BY <2>3, <4>1
    <3> HIDE DEF pages, source
    <3> QED BY <1>1, <3>3
  <2>11. \A p \in Nat, g \in DOMAIN v, f \in DOMAIN x :
           Covers(v, g, 0, p) /\ Covers(x, f, 0, p) => d[g] = data[f]
    <3>1. TAKE p \in Nat, g \in DOMAIN v, f \in DOMAIN x
    <3>2. HAVE Covers(v, g, 0, p) /\ Covers(x, f, 0, p)
    <3>3. g \in Frame /\ g # 0 /\ f \in Frame /\ f \notin free
      BY <2>3, <2>4, Sizes DEF Frame
    <3>4. In(ToSet(new.vmas), p)
      BY <2>1, <3>2 DEF Serves
    <3>5. CASE In(ToSet(s.vmas), p)
      <4>1. PICK h \in DOMAIN w : Covers(w, h, 0, p)
        BY <1>13, <3>5 DEF Serves
      <4>2. h \in DOMAIN v /\ Covers(v, h, 0, p)
        BY <2>1, <4>1 DEF Covers
      <4>3. h = g
        BY <2>3, <3>2, <4>2, OnePlace
      <4>4. s.data[g] = data[f]
        BY <1>13, <3>2, <4>1, <4>3
      <4>5. pages(g) = {}
        <5>1. SUFFICES ASSUME NEW q \in pages(g) PROVE FALSE
          BY <4>4
        <5>2. q \in Nat /\ q \in Copied(area) /\ Covers(v, g, 0, q)
          BY <2>8, <3>3
        <5>3. q = p
          BY <3>2, <5>2, OnePage
        <5>4. area.begin <= p
          BY <1>11, <5>2, <5>3
        <5>5. PICK b \in ToSet(s.vmas) : b.begin <= p /\ p < b.end
          BY <3>5 DEF In
        <5>6. PICK i \in 1..k : b = s.vmas[i]
          BY <1>15, <5>5 DEF ToSet
        <5> QED BY <1>6, <1>15, <1>16, <5>4, <5>5, <5>6
      <4> HIDE DEF pages, source
      <4> QED BY <3>3, <4>4, <4>5
    <3>6. CASE ~In(ToSet(s.vmas), p)
      <4>1. area.begin <= p /\ p < area.end
        BY <2>6, <3>4, <3>6 DEF In
      <4>2. p \in Copied(area) /\ p < END
        BY <1>6, <1>11, <4>1, Half
      <4>3. FrameOf(new.memory, dst, p) = g /\ FrameOf(new.memory, src, p) = f
        <5>1. FrameOf(new.memory, dst, p) = g
          BY <2>3, <3>2, <4>2, FrameIs
        <5>2. FrameOf(new.memory, src, p) = f
          <6> HIDE DEF x
          <6> QED BY <2>3, <2>5, <3>2, <4>2, FrameIs
        <5> QED BY <5>1, <5>2
      <4>4. p \in pages(g)
        BY <4>2, <4>3
      <4> DEFINE q == CHOOSE y \in pages(g) : TRUE
      <4>5. q \in pages(g)
        BY <4>4
      <4>6. q \in Nat /\ Covers(v, g, 0, q)
        BY <2>8, <3>3, <4>5
      <4>7. q = p
        <5> HIDE DEF q
        <5> QED BY <3>2, <4>6, OnePage
      <4>8. source(g) = f
        BY <4>3, <4>7
      <4>9. d[g] = s.data[source(g)]
        <5> HIDE DEF pages, source
        <5> QED BY <1>23, <3>3, <4>4
      <4>10. s.data[f] = data[f]
        BY <1>1, <3>3
      <4> HIDE DEF d, source
      <4> QED BY <4>8, <4>9, <4>10
    <3> QED BY <3>5, <3>6
  <2> HIDE DEF d
  <2>12. t \in Copying
    <3>1. t.next \in Nat /\ t.memory \in Memory /\ t.vmas \in Seq(Area) /\ t.ok \in BOOLEAN
          /\ t.data \in [Frame -> Value]
      <4>1. k + 2 \in Nat
        BY <1>4
      <4> QED BY <1>20, <1>21, <2>6, <2>9, <4>1
    <3>2. t = [next |-> t.next, memory |-> t.memory, vmas |-> t.vmas, ok |-> t.ok, data |-> t.data]
      BY <1>21
    <3> QED BY <3>1, <3>2 DEF Copying
  <2>13. CopyTree(U, dst, src, t, v)
    BY <1>21, <1>23, <2>1, <2>2, <2>11 DEF CopyTree
  <2>14. Len(t.vmas) = k + 1 /\ k + 1 <= Len(vmas[src])
    BY <1>4, <1>21, <2>6 DEF n
  <2>15. \A i \in 1..Len(t.vmas) : t.vmas[i] = vmas[src][i]
    <3>1. TAKE i \in 1..Len(t.vmas)
    <3>2. i \in 1..k \/ i = k + 1
      BY <1>4, <2>14
    <3> QED BY <1>1, <1>9, <1>21, <2>6, <3>2
  <2>16. \A f \in Frame \ (memory.avail \cup DOMAIN U[dst]) : t.data[f] = data[f]
    BY <1>21, <2>10
  <2>17. Sorted(t.vmas) /\ t.memory.out \in {"ok", "hang"} /\ t.memory.avail \subseteq Frame
         /\ (t.ok => t.memory.out = "ok") /\ Len(t.vmas) <= Len(vmas[src])
    BY <1>20, <1>21, <1>23, <2>14
  <2>18. CopyKeeps(U, dst, src, t)
    BY <2>12, <2>13, <2>15, <2>16, <2>17 DEF CopyKeeps
  <2>19. t.next = k + 1 + 1 /\ Len(t.vmas) = k + 1
    BY <1>4, <1>21, <2>14
  <2> QED BY <2>18, <2>19 DEF CopyAt, t
<1> QED BY <1>20, <1>22, <1>23

\* How mm_copy's loop ends.
LEMMA CopyLoop ==
  ASSUME Base, NEW U, Held(memory, root, vmas, live, U),
         NEW dst \in live, NEW src \in live, dst # src, vmas[dst] = << >>
  PROVE  CopyAt(U, dst, src, Len(vmas[src]),
                Loop(CopyArea(dst, src),
                     [next |-> 1, memory |-> memory, vmas |-> <<>>, ok |-> TRUE, data |-> data],
                     Len(vmas[src])))
<1> DEFINE n == Len(vmas[src])
           start == [next |-> 1, memory |-> memory, vmas |-> <<>>, ok |-> TRUE, data |-> data]
           turn == CopyArea(dst, src)
           I == [k \in 0..n |-> {s \in Copying : CopyAt(U, dst, src, k, s)}]
<1>1. src \in Mm /\ dst \in Mm /\ Sorted(vmas[src]) /\ n \in Nat
  BY AreaIs DEF Base
<1>2. memory \in Memory /\ memory.avail \subseteq Frame /\ memory.out = "ok"
      /\ Tree(memory.table, root[dst], U[dst]) /\ Serves(U[dst], ToSet(vmas[dst]))
      /\ data \in [Frame -> Value]
  BY DEF Held, Base
<1>3. start \in Copying
  <2>1. 1 \in Nat /\ TRUE \in BOOLEAN
    OBVIOUS
  <2> QED BY <1>2, <2>1, EmptySorted DEF Copying
<1>4. start.next = 1 /\ start.memory = memory /\ start.vmas = <<>> /\ start.ok = TRUE
      /\ start.data = data
  OBVIOUS
<1> HIDE DEF start, n
<1>5. CopyTree(U, dst, src, start, U[dst])
  <2>1. Become(memory, U[dst], memory, U[dst], root[dst])
    BY HeldOwn, OwnBecomes
  <2>2. ToSet(vmas[dst]) = {}
    BY EmptySorted
  <2>3. \A p \in Nat, g \in DOMAIN U[dst] : ~Covers(U[dst], g, 0, p)
    BY <1>2, <2>2 DEF Serves, In
  <2> QED BY <1>2, <1>4, <2>1, <2>2, <2>3, EmptySorted DEF CopyTree
<1>6. CopyAt(U, dst, src, 0, start)
  <2>1. Len(<< >>) = 0 /\ 1..0 = {}
    OBVIOUS
  <2>2. Sorted(start.vmas) /\ Len(start.vmas) = 0
    BY <1>4, <2>1, EmptySorted
  <2>3. start.next = 0 + 1 /\ Len(start.vmas) <= Len(vmas[src])
        /\ \A i \in 1..Len(start.vmas) : start.vmas[i] = vmas[src][i]
    BY <1>1, <1>4, <2>1, <2>2 DEF n
  <2> QED BY <1>2, <1>3, <1>4, <1>5, <2>2, <2>3 DEF CopyAt, CopyKeeps
<1>7. start \in I[0]
  BY <1>1, <1>3, <1>6
<1>8. \A k \in 0..n - 1 : \A s \in I[k] : turn[s] \in I[k + 1]
  <2>1. TAKE k \in 0..n - 1
  <2>2. TAKE s \in I[k]
  <2>3. k \in 0..n /\ k + 1 \in 0..n
    BY <1>1
  <2>4. s \in Copying /\ CopyAt(U, dst, src, k, s)
    BY <2>2, <2>3
  <2>5. CASE s.ok
    <3>1. CopyAt(U, dst, src, k + 1, turn[s])
      BY <2>4, <2>5, CopyAreaKeeps DEF n
    <3>2. turn[s] \in Copying
      BY <3>1 DEF CopyAt, CopyKeeps
    <3> HIDE DEF turn
    <3> QED BY <2>3, <3>1, <3>2
  <2>6. CASE ~s.ok
    <3>1. turn[s] = s
      BY <2>4, <2>6 DEF CopyArea
    <3>2. CopyAt(U, dst, src, k + 1, s)
      BY <2>4, <2>6 DEF CopyAt
    <3> HIDE DEF turn
    <3> QED BY <2>3, <2>4, <3>1, <3>2
  <2> QED BY <2>5, <2>6
<1> HIDE DEF I, turn
<1>9. Loop(turn, start, n) \in I[n]
  BY <1>1, <1>7, <1>8, LoopKeeps
<1>10. n \in 0..n
  BY <1>1
<1>11. CopyAt(U, dst, src, n, Loop(turn, start, n))
  BY <1>9, <1>10 DEF I
<1> QED BY <1>11 DEF n, start, turn

-----------------------------------------------------------------------------
(* The theorems about address spaces.                                      *)

\* How mm_copy ends: hung, with a copy, or with an address space without areas.
CopyEnds(U, dst, src) ==
  \/ memory'.out = "hang"
  \/ \E w : /\ Become(memory, U[dst], memory', w, root[dst])
            /\ Serves(w, ToSet(vmas'[dst]))
            /\ \A f \in DOMAIN U[src] : data'[f] = data[f]
            /\ \/ vmas'[dst] = << >>
               \/ /\ vmas'[dst] = vmas[src]
                  /\ \A p \in Nat, g \in DOMAIN w, f \in DOMAIN U[src] :
                       Covers(w, g, 0, p) /\ Covers(U[src], f, 0, p) => data'[g] = data[f]

\* Nothing is kept of areas that are all unmapped.
LEMMA NothingKept ==
  ASSUME NEW s, Sorted(s)
  PROVE  /\ ~Straddles(s, 0, END) /\ After(s, END) > Len(s)
         /\ Kept(s, 0, END) = << >> /\ Sorted(Kept(s, 0, END))
<1>1. \A k \in 1..Len(s) : /\ s[k].begin \in Nat /\ s[k].end \in Nat /\ s[k].begin < s[k].end
                           /\ s[k].end <= END
  BY AreaIs
<1>2. END \in Nat /\ 0 \in Nat /\ Len(s) \in Nat /\ DOMAIN s = 1..Len(s)
  BY Half, AreaIs
<1>3. After(s, END) > Len(s)
  <2>1. /\ After(s, END) \in 1..Len(s) + 1
        /\ \A k \in 1..Len(s) : s[k].begin < END <=> k < After(s, END)
    BY <1>2, AfterIs
  <2>2. CASE Len(s) = 0
    BY <2>1, <2>2
  <2>3. CASE Len(s) # 0
    <3>1. Len(s) \in 1..Len(s)
      BY <1>2, <2>3
    <3>2. s[Len(s)].begin < END
      BY <1>1, <1>2, <3>1
    <3> QED BY <1>2, <2>1, <3>1, <3>2
  <2> QED BY <2>2, <2>3
<1>4. ~Straddles(s, 0, END)
  BY <1>1, <1>2 DEF Straddles
<1>5. Sorted(Kept(s, 0, END)) /\ ToSet(Kept(s, 0, END)) = {a \in ToSet(s) : a.end <= 0}
  BY <1>2, <1>3, KeptIs
<1>6. ToSet(Kept(s, 0, END)) = {}
  <2>1. \A a \in ToSet(s) : ~(a.end <= 0)
    BY <1>1, <1>2 DEF ToSet
  <2> QED BY <1>5, <2>1
<1>7. Kept(s, 0, END) = << >>
  <2> DEFINE q == Kept(s, 0, END)
  <2>1. q \in Seq(Area) /\ ToSet(q) = {}
    BY <1>5, <1>6 DEF Sorted
  <2> HIDE DEF q
  <2>2. Len(q) \in Nat /\ DOMAIN q = 1..Len(q)
    BY <2>1, LenProperties
  <2>3. Len(q) = 0
    <3>1. SUFFICES ASSUME Len(q) # 0 PROVE FALSE
      OBVIOUS
    <3>2. 1 \in DOMAIN q
      BY <2>2, <3>1
    <3>3. q[1] \in ToSet(q)
      BY <3>2 DEF ToSet
    <3> QED BY <2>1, <3>3
  <2>4. q = << >>
    BY <2>1, <2>3, EmptySeq
  <2> QED BY <2>4 DEF q
<1> QED BY <1>3, <1>4, <1>5, <1>7

\* mm_copy keeps the invariant, and ends in one of these ways.
LEMMA CopyStep ==
  ASSUME IInv, NEW dst \in Mm, NEW src \in Mm, Copy(dst, src),
         NEW U, Held(memory, root, vmas, live, U)
  PROVE  IInv' /\ CopyEnds(U, dst, src)
<1> DEFINE start == [next |-> 1, memory |-> memory, vmas |-> <<>>, ok |-> TRUE, data |-> data]
           copy  == Loop(CopyArea(dst, src), start, Len(vmas[src]))
           end   == IF copy.ok \/ copy.memory.out = "hang" THEN copy
                    ELSE CopyUndo(dst, copy)
<1>1. /\ dst \in live /\ src \in live /\ dst # src /\ vmas[dst] = << >>
      /\ memory' = end.memory /\ vmas' = [vmas EXCEPT ![dst] = end.vmas]
      /\ data' = Blanked(copy.data, end.memory) /\ live' = live /\ root' = root
  BY DEF Copy
<1>2. Base /\ Sorted(vmas[src]) /\ vmas \in [Mm -> Seq(Area)]
  BY DEF IInv, Base
<1>3. CopyAt(U, dst, src, Len(vmas[src]), copy)
  BY <1>1, <1>2, CopyLoop
<1> HIDE DEF copy
<1>4. /\ copy \in Copying /\ copy.memory.avail \subseteq Frame
      /\ copy.memory.out \in {"ok", "hang"} /\ (copy.ok => copy.memory.out = "ok")
      /\ Sorted(copy.vmas) /\ Len(copy.vmas) <= Len(vmas[src])
      /\ \A i \in 1..Len(copy.vmas) : copy.vmas[i] = vmas[src][i]
      /\ \A f \in Frame \ (memory.avail \cup DOMAIN U[dst]) : copy.data[f] = data[f]
      /\ copy.memory.out = "ok" => \E w : CopyTree(U, dst, src, copy, w)
      /\ copy.ok => Len(copy.vmas) = Len(vmas[src])
  BY <1>3 DEF CopyAt, CopyKeeps
<1>5. copy.memory \in Memory /\ copy.data \in [Frame -> Value]
  BY <1>4 DEF Copying
<1>6. \A f \in DOMAIN U[src] : /\ f \in Frame /\ f \notin memory.avail \cup DOMAIN U[dst]
                               /\ copy.data[f] = data[f]
  <2>1. Tree(memory.table, root[src], U[src]) /\ DOMAIN U[src] \cap memory.avail = {}
        /\ DOMAIN U[src] \cap DOMAIN U[dst] = {}
    BY <1>1 DEF Held
  <2> QED BY <1>4, <2>1, TreeFrames
<1>7. vmas'[dst] = end.vmas
  BY <1>1, <1>2
<1>8. \A w : Become(memory, U[dst], memory', w, root[dst]) =>
        /\ \A f \in DOMAIN U[src] : data'[f] = data[f]
        /\ \A g \in DOMAIN w : data'[g] = copy.data[g]
  <2>1. TAKE w
  <2>2. HAVE Become(memory, U[dst], memory', w, root[dst])
  <2>3. /\ memory'.avail \subseteq memory.avail \cup DOMAIN U[dst]
        /\ memory'.avail \cap DOMAIN w = {} /\ Tree(memory'.table, root[dst], w)
    BY <2>2 DEF Become
  <2>4. \A f \in Frame : f \notin memory'.avail => data'[f] = copy.data[f]
    BY <1>1, <1>5, BlankedIs
  <2>5. DOMAIN w \subseteq Frame
    BY <2>3, TreeFrames
  <2> QED BY <1>6, <2>3, <2>4, <2>5
<1>9. data' \in [Frame -> Value]
  BY <1>1, <1>5, BlankedIs
<1>10. CASE copy.memory.out = "hang"
  <2>1. end = copy
    BY <1>10
  <2>2. memory' \in Memory /\ memory'.avail \subseteq Frame /\ memory'.out = "hang"
        /\ Sorted(end.vmas)
    BY <1>1, <1>4, <1>5, <1>10, <2>1
  <2> HIDE DEF end
  <2>3. IInv'
    BY <1>1, <1>2, <1>9, <2>2, StepHolds
  <2> QED BY <2>2, <2>3 DEF CopyEnds
<1>11. CASE copy.ok
  <2>1. end = copy
    BY <1>11
  <2>2. PICK w : CopyTree(U, dst, src, copy, w)
    BY <1>4, <1>11
  <2>3. /\ Become(memory, U[dst], memory', w, root[dst]) /\ Serves(w, ToSet(end.vmas))
        /\ \A p \in Nat, g \in DOMAIN w, f \in DOMAIN U[src] :
             Covers(w, g, 0, p) /\ Covers(U[src], f, 0, p) => copy.data[g] = data[f]
    BY <1>1, <1>11, <2>1, <2>2 DEF CopyTree
  <2>4. memory' \in Memory /\ memory'.avail \subseteq Frame /\ memory'.out = "ok"
        /\ Sorted(end.vmas)
    BY <1>4, <2>1, <2>3 DEF Become
  <2>5. end.vmas = vmas[src]
    <3>1. copy.vmas \in Seq(Area) /\ vmas[src] \in Seq(Area)
      BY <1>2, <1>4 DEF Sorted
    <3> QED BY <1>4, <1>11, <2>1, <3>1, SeqEqual
  <2> HIDE DEF end
  <2>6. IInv'
    BY <1>1, <1>2, <1>9, <2>3, <2>4, StepHolds
  <2>7. \A p \in Nat, g \in DOMAIN w, f \in DOMAIN U[src] :
          Covers(w, g, 0, p) /\ Covers(U[src], f, 0, p) => data'[g] = data[f]
    BY <1>8, <2>3
  <2>8. CopyEnds(U, dst, src)
    BY <1>7, <1>8, <2>3, <2>5, <2>7 DEF CopyEnds
  <2> QED BY <2>6, <2>8
<1>12. CASE ~copy.ok /\ copy.memory.out = "ok"
  <2>1. end = CopyUndo(dst, copy)
    BY <1>12
  <2> DEFINE n == Unmapped(copy.memory, dst, copy.vmas, 0, END)
  <2>2. end.memory = n /\ end.vmas = Kept(copy.vmas, 0, END)
    BY <2>1 DEF CopyUndo
  <2> HIDE DEF end, n
  <2>3. PICK w : CopyTree(U, dst, src, copy, w)
    BY <1>4, <1>12
  <2>4. Become(memory, U[dst], copy.memory, w, root[dst]) /\ Serves(w, ToSet(copy.vmas))
    BY <2>3 DEF CopyTree
  <2>5. Own(copy.memory, root[dst], w)
    BY <2>4 DEF Become, Own
  <2>6. ~Straddles(copy.vmas, 0, END) /\ After(copy.vmas, END) > Len(copy.vmas)
        /\ Kept(copy.vmas, 0, END) = << >> /\ Sorted(Kept(copy.vmas, 0, END))
    BY <1>4, NothingKept
  <2>7. 0 \in Address /\ END \in Address /\ 0 < END
    BY Half DEF Address
  <2>8. PICK v : /\ Become(copy.memory, w, n, v, root[dst])
                 /\ Serves(v, ToSet(Kept(copy.vmas, 0, END)))
    BY <1>4, <2>4, <2>5, <2>6, <2>7, UnmappedServes DEF n
  <2>9. Become(memory, U[dst], memory', v, root[dst]) /\ Serves(v, ToSet(end.vmas))
    BY <1>1, <2>2, <2>4, <2>8, BecomeTrans
  <2>10. memory' \in Memory /\ memory'.avail \subseteq Frame /\ memory'.out = "ok"
         /\ Sorted(end.vmas) /\ end.vmas = << >>
    BY <2>2, <2>6, <2>9 DEF Become
  <2>11. IInv'
    BY <1>1, <1>2, <1>9, <2>9, <2>10, StepHolds
  <2>12. CopyEnds(U, dst, src)
    BY <1>7, <1>8, <2>9, <2>10 DEF CopyEnds
  <2> QED BY <2>11, <2>12
<1> QED BY <1>4, <1>10, <1>11, <1>12

\* Every step keeps the invariant.
LEMMA NextHolds ==
  ASSUME IInv, Excluded = {"munmap", "mmap"}, [Next]_vars
  PROVE  IInv'
<1>1. ASSUME NEW x \in Mm, Create(x) PROVE IInv'
  BY <1>1, CreateHolds
<1>2. ASSUME NEW x \in Mm, ReleaseMm(x) PROVE IInv'
  BY <1>2, ReleaseHolds
<1>3. ASSUME NEW x \in Mm, NEW from \in Address, NEW to \in Address, from < to,
             Munmap(x, from, to)
      PROVE  IInv'
  BY <1>3, MunmapHolds
<1>4. ASSUME NEW x \in Mm, NEW from \in Address, NEW to \in Address, MunmapFails(x, from, to)
      PROVE  IInv'
  BY <1>4, StillHolds DEF MunmapFails
<1>5. ASSUME NEW x \in Mm, NEW from \in Address, NEW to \in Address, from < to,
             NEW perm \in Perm, Mmap(x, from, to, perm)
      PROVE  IInv'
  BY <1>5, MmapHolds
<1>6. ASSUME NEW x \in Mm, NEW from \in Address, NEW to \in Address, NEW value \in Value,
             Mset(x, from, to, value)
      PROVE  IInv'
  BY <1>6, MsetHolds
<1>7. ASSUME NEW x \in Mm, NEW src \in Mm, Copy(x, src) PROVE IInv'
  <2>1. PICK U : Held(memory, root, vmas, live, U)
    BY <1>7 DEF Copy, IInv
  <2> QED BY <1>7, <2>1, CopyStep
<1>8. ASSUME Hung \/ UNCHANGED vars PROVE IInv'
  BY <1>8, StillHolds DEF Hung
<1> QED BY <1>1, <1>2, <1>3, <1>4, <1>5, <1>6, <1>7, <1>8 DEF Next

\* What the invariant says in terms of the walks.

\* To lie in an area of an address space.
LEMMA InAreaIs ==
  ASSUME NEW x
  PROVE  \A p : InArea(x, p) <=> In(ToSet(vmas[x]), p)
BY DEF InArea, In, ToSet

\* With the invariant, pt_addr finds the pages of the areas and no others.
LEMMA MapsAreasHolds == IInv => MapsAreas
<1>1. SUFFICES ASSUME IInv, Up, NEW x \in live, NEW p \in Page
               PROVE  FrameOf(memory, x, p) # 0 <=> InArea(x, p)
  BY DEF MapsAreas
<1>2. PICK U : Held(memory, root, vmas, live, U)
  BY <1>1 DEF IInv
<1>3. memory \in Memory /\ Tree(memory.table, root[x], U[x]) /\ Serves(U[x], ToSet(vmas[x]))
  BY <1>2 DEF Held
<1>4. p \in Nat /\ p < END
  BY Half DEF Page
<1>5. /\ FrameOf(memory, x, p) # 0 => /\ FrameOf(memory, x, p) \in DOMAIN U[x]
                                      /\ Covers(U[x], FrameOf(memory, x, p), 0, p)
      /\ \A f \in DOMAIN U[x] : Covers(U[x], f, 0, p) => FrameOf(memory, x, p) = f
  BY <1>3, <1>4, FrameIs
<1>6. FrameOf(memory, x, p) # 0 => In(ToSet(vmas[x]), p)
  BY <1>3, <1>4, <1>5 DEF Serves
<1>7. In(ToSet(vmas[x]), p) => FrameOf(memory, x, p) # 0
  <2>1. HAVE In(ToSet(vmas[x]), p)
  <2>2. PICK f \in DOMAIN U[x] : Covers(U[x], f, 0, p)
    BY <1>3, <1>4, <2>1 DEF Serves
  <2>3. f # 0
    BY <1>3, Sizes, TreeFrames DEF Frame
  <2> QED BY <1>5, <2>2, <2>3
<1> QED BY <1>6, <1>7, InAreaIs

\* Every table and page of the tree begins in user space.
Low(u) == \A g \in DOMAIN u : u[g].lvl # LEVELS => First(u, g) < END

\* The tree of areas does.
LEMMA ServesLow ==
  ASSUME NEW u, Places(u), NEW S, Apart(S), Serves(u, S)
  PROVE  Low(u)
<1>1. SUFFICES ASSUME NEW f \in DOMAIN u, u[f].lvl # LEVELS PROVE First(u, f) < END
  BY DEF Low
<1> DEFINE l == u[f].lvl
           v == First(u, f)
<1>2. v \in Nat /\ Covers(u, f, l, v) /\ l \in 0..LEVELS
  BY FirstPage DEF Places
<1>3. \A p \in Nat : In(S, p) => p < END
  <2>1. \A a \in S : a.end \in Nat /\ a.end <= END
    BY DEF Apart
  <2>2. END \in Nat
    BY Half
  <2> QED BY <2>1, <2>2 DEF In
<1>4. CASE l = 0
  <2>1. In(S, v)
    BY <1>2, <1>4 DEF Serves
  <2> HIDE DEF v
  <2>2. v < END
    BY <1>2, <1>3, <2>1
  <2> QED BY <2>2 DEF v
<1>5. CASE l # 0
  <2>1. l \in 1..LEVELS - 1
    BY <1>1, <1>2, <1>5, Sizes
  <2>2. PICK p \in Nat : In(S, p) /\ Covers(u, f, l, p)
    BY <2>1 DEF Serves
  <2>3. v <= p
    BY <2>2, FirstBelow
  <2>4. p < END /\ END \in Nat
    BY <1>3, <2>2, Half
  <2> HIDE DEF v
  <2>5. v < END
    BY <1>2, <2>3, <2>4
  <2> QED BY <2>5 DEF v
<1> QED BY <1>4, <1>5

\* A node's frame has the node's place in the tree.
LEMMA NodePlace ==
  ASSUME memory \in Memory, NEW x, NEW u, Tree(memory.table, root[x], u),
         NEW lvl \in 0..LEVELS, NEW n \in Nat,
         lvl = LEVELS => n = 0, lvl # LEVELS => n * Size(lvl + 1) < END,
         NodeFrame(x, lvl, n) # 0
  PROVE  /\ NodeFrame(x, lvl, n) \in DOMAIN u
         /\ u[NodeFrame(x, lvl, n)].lvl = lvl /\ u[NodeFrame(x, lvl, n)].num = n
<1> DEFINE v == n * Size(lvl + 1)
           s == Walk(memory.table, root[x], v, lvl + 1)
           f == NodeFrame(x, lvl, n)
<1>1. memory \in Memory /\ Tree(memory.table, root[x], u) /\ memory.table \in Tables
  BY DEF Memory, Tables
<1>2. LEVELS \in Nat /\ LEVELS >= 1
  BY Sizes
<1>3. root[x] \in DOMAIN u /\ u[root[x]].lvl = LEVELS /\ u[root[x]].num = 0
  BY <1>1, TreeFrames
<1>4. v \in Nat /\ Num(v, lvl) = n
  <2>1. Size(lvl + 1) \in Nat /\ Size(lvl + 1) >= 1 /\ n * Size(lvl + 1) \in Nat
    BY Regions
  <2>2. \A j \in Nat, k \in 0..Size(lvl + 1) - 1 : Num(j * Size(lvl + 1) + k, lvl) = j
    BY Regions
  <2>3. 0 \in 0..Size(lvl + 1) - 1
    BY <2>1
  <2>4. Num(n * Size(lvl + 1) + 0, lvl) = n
    BY <2>2, <2>3
  <2> HIDE DEF v
  <2>5. v \in Nat
    BY <2>1 DEF v
  <2>6. Num(v + 0, lvl) = n /\ v + 0 = v
    BY <2>4, <2>5 DEF v
  <2> QED BY <2>5, <2>6
<1>5. CASE lvl = LEVELS
  BY <1>2, <1>3, <1>5 DEF NodeFrame
<1>6. CASE lvl = 0
  <2>1. f = FrameOf(memory, x, n)
    BY <1>2, <1>6 DEF NodeFrame
  <2>2. n < END
    <3>1. n * Size(1) < END /\ Size(1) = 1
      BY <1>2, <1>6, Sizes
    <3> QED BY <3>1
  <2> HIDE DEF f, s, v
  <2>3. f \in DOMAIN u /\ Covers(u, f, 0, n)
    BY <1>1, <2>1, <2>2, FrameIs DEF f
  <2>4. u[f].lvl = 0 /\ u[f].num = n
    BY <2>3, Numbers DEF Covers
  <2> QED BY <1>6, <2>3, <2>4 DEF f
<1>7. CASE lvl # 0 /\ lvl # LEVELS
  <2>1. f = IF s.lvl = lvl + 1 /\ Inner(s.entry) THEN s.entry.phys ELSE 0
    BY <1>7 DEF NodeFrame
  <2>2. lvl + 1 \in 1..LEVELS /\ lvl \in 1..LEVELS - 1 /\ lvl + 1 > 1 /\ lvl + 1 # 1
        /\ lvl + 1 - 1 = lvl
    BY <1>2, <1>7
  <2>3. v < Size(LEVELS + 1)
    <3>1. v < END
      BY <1>7
    <3> HIDE DEF v
    <3> QED BY <1>2, <1>4, <3>1, Half, Sizes
  <2> HIDE DEF v
  <2>4. \E g \in DOMAIN u : Covers(u, g, s.lvl, v) /\ s.entry = memory.table[g][Index(v, s.lvl)]
    BY <1>1, <1>4, <2>2, <2>3, WalkReads
  <2>5. s.lvl = lvl + 1 /\ Inner(s.entry) /\ f = s.entry.phys
    BY <2>1
  <2> HIDE DEF s, f
  <2>6. PICK g \in DOMAIN u :
          Covers(u, g, lvl + 1, v) /\ s.entry = memory.table[g][Index(v, lvl + 1)]
    BY <2>4, <2>5
  <2>7. InnerEntry(memory.table[g][Index(v, lvl + 1)], lvl + 1)
    BY <2>2, <2>5, <2>6 DEF Inner, InnerEntry
  <2>8. Covers(u, f, lvl, v)
    BY <1>1, <1>4, <2>2, <2>5, <2>6, <2>7 DEF Tree, Downward
  <2> QED BY <1>4, <2>8 DEF Covers, f
<1> QED BY <1>5, <1>6, <1>7

\* Every frame of a tree is the frame of a node.
LEMMA PlaceNode ==
  ASSUME memory \in Memory, NEW x, NEW u, Tree(memory.table, root[x], u), Low(u),
         NEW f \in DOMAIN u
  PROVE  /\ <<u[f].lvl, u[f].num>> \in Node
         /\ NodeFrame(x, u[f].lvl, u[f].num) = f /\ f # 0
<1> DEFINE l == u[f].lvl
           n == u[f].num
           v == First(u, f)
           s == Walk(memory.table, root[x], v, l + 1)
<1>1. memory \in Memory /\ Tree(memory.table, root[x], u) /\ memory.table \in Tables
  BY DEF Memory, Tables
<1>2. LEVELS \in Nat /\ LEVELS >= 1
  BY Sizes
<1>4. Places(u) /\ f \in Frame /\ f # 0 /\ l \in 0..LEVELS /\ n \in Nat
  BY <1>1, TreeFrames, Sizes DEF Places, Frame
<1>5. v \in Nat /\ Covers(u, f, l, v) /\ v = n * Size(l + 1)
  BY <1>4, FirstPage DEF First
<1>7. l # LEVELS => v < END
  BY DEF Low
<1>8. n <= v
  <2> DEFINE z == Size(l + 1)
  <2>1. z \in Nat /\ z >= 1 /\ v = n * z
    BY <1>4, <1>5, Regions
  <2> HIDE DEF z, v, n
  <2>2. n * z >= n
    <3> DEFINE d == z - 1
    <3>1. d \in Nat /\ z = d + 1
      BY <2>1
    <3> HIDE DEF d
    <3>2. n * (d + 1) = n * d + n /\ n * d \in Nat
      BY <1>4, <3>1
    <3> QED BY <1>4, <3>1, <3>2
  <2> QED BY <2>1, <2>2
<1> HIDE DEF v
<1>9. CASE l = LEVELS
  <2>1. n = 0
    BY <1>4, <1>9 DEF Places
  <2>2. <<l, n>> \in Node
    <3> HIDE DEF l, n
    <3>1. <<l, n>> = <<LEVELS, 0>>
      BY <1>9, <2>1
    <3> QED BY <3>1 DEF Node
  <2>3. NodeFrame(x, l, n) = root[x]
    <3> HIDE DEF l, n
    <3> QED BY <1>2, <1>9 DEF NodeFrame
  <2>4. root[x] \in DOMAIN u /\ u[root[x]].lvl = LEVELS /\ u[root[x]].num = 0
    BY <1>1, TreeFrames
  <2>5. root[x] = f
    BY <1>4, <1>9, <2>1, <2>4 DEF Places
  <2> QED BY <1>4, <2>2, <2>3, <2>5
<1>10. CASE l # LEVELS
  <2>1. <<l, n>> \in Node
    <3>1. l \in 0..LEVELS - 1 /\ n < END
      BY <1>2, <1>4, <1>5, <1>7, <1>8, <1>10, Half
    <3>2. n \in Page /\ n * Size(l + 1) < END
      BY <1>4, <1>5, <1>7, <1>10, <3>1, Half DEF Page
    <3> HIDE DEF l, n
    <3>3. n \in {k \in Page : k * Size(l + 1) < END}
      BY <3>2
    <3>4. <<l, n>> \in {l} \X {k \in Page : k * Size(l + 1) < END}
      BY <3>3
    <3> QED BY <3>1, <3>4 DEF Node
  <2>2. CASE l = 0
    <3>1. v = n
      <4>1. v = n * Size(1) /\ Size(1) = 1
        BY <1>5, <2>2, Sizes
      <4> HIDE DEF n
      <4> QED BY <1>4, <4>1
    <3>2. NodeFrame(x, l, n) = FrameOf(memory, x, n)
      BY <1>2, <2>2 DEF NodeFrame
    <3>3. n \in Nat /\ n < END /\ Covers(u, f, 0, n) /\ f \in DOMAIN u
      BY <1>4, <1>5, <1>7, <1>10, <2>2, <3>1
    <3> HIDE DEF n
    <3>4. FrameOf(memory, x, n) = f
      BY <1>1, <3>3, FrameIs
    <3> QED BY <1>4, <2>1, <3>2, <3>4 DEF n
  <2>3. CASE l # 0
    <3>1. l \in 1..LEVELS /\ l + 1 \in 1..LEVELS /\ l + 1 \in l + 1..LEVELS
          /\ l + 1 - 1 = l /\ l + 1 # 1
      BY <1>2, <1>4, <1>10, <2>3
    <3>2. v < Size(LEVELS + 1)
      BY <1>2, <1>5, <1>7, <1>10, Half, Sizes
    <3>3. NodeFrame(x, l, n) =
            IF s.lvl = l + 1 /\ Inner(s.entry) THEN s.entry.phys ELSE 0
      BY <1>5, <1>10, <2>3 DEF NodeFrame
    <3> HIDE DEF l, n
    <3>4. /\ s.lvl \in l + 1..LEVELS
          /\ s.lvl = l + 1 \/ ~InnerEntry(s.entry, s.lvl)
          /\ \E g \in DOMAIN u : Covers(u, g, s.lvl, v) /\ s.entry = memory.table[g][Index(v, s.lvl)]
      BY <1>1, <1>5, <3>1, <3>2, WalkReads
    <3> HIDE DEF s
    <3>5. \A j \in l + 1..LEVELS : \E g \in DOMAIN u :
            Covers(u, g, j, v) /\ InnerEntry(memory.table[g][Index(v, j)], j)
      <4>1. Upward(memory.table, u)
        BY <1>1 DEF Tree
      <4> QED BY <1>5, <3>1, <4>1, Ancestor
    <3>6. InnerEntry(s.entry, s.lvl)
      <4>1. PICK g \in DOMAIN u : Covers(u, g, s.lvl, v) /\ s.entry = memory.table[g][Index(v, s.lvl)]
        BY <3>4
      <4>2. PICK h \in DOMAIN u : Covers(u, h, s.lvl, v) /\ InnerEntry(memory.table[h][Index(v, s.lvl)], s.lvl)
        BY <3>4, <3>5
      <4>3. g = h
        BY <1>4, <4>1, <4>2, OnePlace
      <4> QED BY <4>1, <4>2, <4>3
    <3>7. s.lvl = l + 1 /\ Inner(s.entry)
      BY <3>1, <3>4, <3>6 DEF InnerEntry, Inner
    <3>8. PICK g \in DOMAIN u :
            Covers(u, g, l + 1, v) /\ s.entry = memory.table[g][Index(v, l + 1)]
      BY <3>4, <3>7
    <3>9. Covers(u, s.entry.phys, l, v)
      BY <1>1, <1>5, <3>1, <3>6, <3>7, <3>8 DEF Tree, Downward
    <3>10. s.entry.phys = f
      BY <1>4, <1>5, <3>9, OnePlace
    <3> QED BY <1>4, <2>1, <3>3, <3>7, <3>10 DEF l, n
  <2> QED BY <2>2, <2>3
<1> QED BY <1>9, <1>10

\* What a node is.
LEMMA NodeIs ==
  \A w \in Node : /\ w = <<w[1], w[2]>> /\ w[1] \in 0..LEVELS /\ w[2] \in Nat
                  /\ w[1] = LEVELS => w[2] = 0
                  /\ w[1] # LEVELS => w[2] * Size(w[1] + 1) < END
<1>1. TAKE w \in Node
<1>2. LEVELS \in Nat
  BY Sizes
<1>3. CASE w = <<LEVELS, 0>>
  <2>1. w[1] = LEVELS /\ w[2] = 0
    BY <1>3
  <2> QED BY <1>2, <1>3, <2>1
<1>4. CASE w # <<LEVELS, 0>>
  <2>1. PICK l \in 0..LEVELS - 1 : w \in {l} \X {n \in Page : n * Size(l + 1) < END}
    BY <1>4 DEF Node
  <2>2. w = <<w[1], w[2]>> /\ w[1] = l /\ w[2] \in Page /\ w[2] * Size(l + 1) < END
    BY <2>1
  <2>3. w[2] \in Nat /\ l \in 0..LEVELS /\ l # LEVELS
    BY <1>2, <2>1, <2>2, Half DEF Page
  <2> QED BY <2>2, <2>3
<1> QED BY <1>3, <1>4

\* A table that leads to a page has an entry.
LEMMA TableUsed ==
  ASSUME NEW U, Held(memory, root, vmas, live, U), NEW x \in live, NEW f \in DOMAIN U[x],
         U[x][f].lvl \in 1..LEVELS - 1
  PROVE  NoIdleTable(f)
<1> DEFINE u == U[x]
           l == u[f].lvl
<1>1. Tree(memory.table, root[x], u) /\ Serves(u, ToSet(vmas[x]))
  BY DEF Held
<1>2. l \in 1..LEVELS
  BY Sizes
<1>3. PICK p \in Nat : In(ToSet(vmas[x]), p) /\ Covers(u, f, l, p)
  BY <1>1 DEF Serves
<1>4. PICK g \in DOMAIN u : Covers(u, g, 0, p)
  BY <1>1, <1>3 DEF Serves
<1>5. Index(p, l) \in Slot
  BY <1>2, Numbers
<1> HIDE DEF u, l
<1>6. Present(memory.table[f][Index(p, l)])
  <2>1. CASE InnerEntry(memory.table[f][Index(p, l)], l)
    BY <2>1 DEF InnerEntry
  <2>2. CASE ~InnerEntry(memory.table[f][Index(p, l)], l)
    <3>1. LeafEntry(memory.table[f][Index(p, l)], l)
      BY <1>1, <1>2, <1>3, <1>4, <2>2, NothingBelow
    <3> QED BY <3>1 DEF LeafEntry
  <2> QED BY <2>1, <2>2
<1> QED BY <1>5, <1>6 DEF NoIdleTable

\* The nodes of all address spaces whose place has a frame, and that frame.
At(u) == NodeFrame(u[1], u[2][1], u[2][2])
InUse == {u \in live \X Node : At(u) # 0}

\* They are the frames of the trees, each in one place.
LEMMA NodesOnce ==
  ASSUME memory \in Memory, NEW U,
         \A x \in live : Tree(memory.table, root[x], U[x]) /\ Low(U[x]),
         \A x, y \in live : x # y => DOMAIN U[x] \cap DOMAIN U[y] = {}
  PROVE  /\ \A u, w \in InUse : At(u) = At(w) => u = w
         /\ \A u \in InUse : /\ u[1] \in live /\ At(u) \in DOMAIN U[u[1]]
                             /\ U[u[1]][At(u)].lvl = u[2][1]
         /\ \A x \in live : \A f \in DOMAIN U[x] : \E u \in InUse : At(u) = f
<1>1. ASSUME NEW u \in InUse
      PROVE  /\ u = <<u[1], <<u[2][1], u[2][2]>>>> /\ u[1] \in live
             /\ At(u) \in DOMAIN U[u[1]]
             /\ U[u[1]][At(u)].lvl = u[2][1] /\ U[u[1]][At(u)].num = u[2][2]
  <2>1. PICK x \in live, w \in Node : u = <<x, w>> /\ NodeFrame(x, w[1], w[2]) # 0
    BY DEF InUse, At
  <2>2. PICK l, n : l = w[1] /\ n = w[2]
    OBVIOUS
  <2>3. /\ w = <<l, n>> /\ l \in 0..LEVELS /\ n \in Nat
        /\ l = LEVELS => n = 0
        /\ l # LEVELS => n * Size(l + 1) < END
    BY <2>2, NodeIs
  <2>4. NodeFrame(x, l, n) \in DOMAIN U[x]
        /\ U[x][NodeFrame(x, l, n)].lvl = l /\ U[x][NodeFrame(x, l, n)].num = n
    <3>1. Tree(memory.table, root[x], U[x]) /\ NodeFrame(x, l, n) # 0
      BY <2>1, <2>2
    <3>2. PICK v : v = U[x]
      OBVIOUS
    <3>3. Tree(memory.table, root[x], v)
      BY <3>1, <3>2
    <3>4. NodeFrame(x, l, n) \in DOMAIN v
          /\ v[NodeFrame(x, l, n)].lvl = l /\ v[NodeFrame(x, l, n)].num = n
      BY <2>3, <3>1, <3>3, NodePlace
    <3> QED BY <3>2, <3>4
  <2> QED BY <2>1, <2>3, <2>4 DEF At
<1>2. ASSUME NEW u \in InUse, NEW w \in InUse, At(u) = At(w) PROVE u = w
  <2>1. u[1] \in live /\ At(u) \in DOMAIN U[u[1]] /\ w[1] \in live /\ At(u) \in DOMAIN U[w[1]]
    BY <1>1, <1>2
  <2>2. u[1] = w[1]
    BY <2>1
  <2>3. u[2][1] = w[2][1] /\ u[2][2] = w[2][2]
    BY <1>1, <1>2, <2>2
  <2>4. u = <<u[1], <<u[2][1], u[2][2]>>>> /\ w = <<w[1], <<w[2][1], w[2][2]>>>>
    BY <1>1
  <2> QED BY <2>2, <2>3, <2>4
<1>3. ASSUME NEW x \in live, NEW f \in DOMAIN U[x] PROVE \E u \in InUse : At(u) = f
  <2> DEFINE w == <<U[x][f].lvl, U[x][f].num>>
             u == <<x, w>>
  <2>1. w \in Node /\ NodeFrame(x, U[x][f].lvl, U[x][f].num) = f /\ f # 0
    <3>1. Tree(memory.table, root[x], U[x]) /\ Low(U[x])
      OBVIOUS
    <3> QED BY <3>1, PlaceNode
  <2>2. u[1] = x /\ u[2][1] = U[x][f].lvl /\ u[2][2] = U[x][f].num /\ u \in live \X Node
    BY <2>1
  <2>3. At(u) = f
    BY <2>1, <2>2 DEF At
  <2>4. u \in InUse
    BY <2>1, <2>2, <2>3 DEF InUse
  <2> QED BY <2>3, <2>4
<1> QED BY <1>1, <1>2, <1>3

\* With the invariant, every frame is free or in one place.
LEMMA FramesHold == IInv => FramesOK
<1>1. SUFFICES ASSUME IInv, Up
      PROVE /\ \A u, w \in InUse : At(u) = At(w) => u = w
            /\ {At(u) : u \in InUse} = Frame \ memory.avail
            /\ \A u \in InUse : u[2][1] \in 1..LEVELS - 1 => NoIdleTable(At(u))
  BY DEF FramesOK, InUse, At
<1>2. PICK U : Held(memory, root, vmas, live, U)
  BY <1>1 DEF IInv
<1>3. memory \in Memory
  BY <1>2 DEF Held
<1>4. ASSUME NEW x \in live PROVE Tree(memory.table, root[x], U[x]) /\ Low(U[x])
  <2>1. Tree(memory.table, root[x], U[x]) /\ Serves(U[x], ToSet(vmas[x]))
    BY <1>2 DEF Held
  <2>2. Sorted(vmas[x])
    BY <1>1 DEF IInv, Base
  <2> QED BY <2>1, <2>2, SortedApart, TreeFrames, ServesLow
<1>5. \A x, y \in live : x # y => DOMAIN U[x] \cap DOMAIN U[y] = {}
  BY <1>2 DEF Held
<1>6. /\ \A u, w \in InUse : At(u) = At(w) => u = w
      /\ \A u \in InUse : /\ u[1] \in live /\ At(u) \in DOMAIN U[u[1]]
                          /\ U[u[1]][At(u)].lvl = u[2][1]
      /\ \A x \in live : \A f \in DOMAIN U[x] : \E u \in InUse : At(u) = f
  BY <1>3, <1>4, <1>5, NodesOnce
<1>7. ASSUME NEW u \in InUse PROVE At(u) \in Frame \ memory.avail
  <2>1. u[1] \in live /\ At(u) \in DOMAIN U[u[1]]
    BY <1>6
  <2>2. Tree(memory.table, root[u[1]], U[u[1]]) /\ memory.avail \cap DOMAIN U[u[1]] = {}
    BY <1>2, <2>1 DEF Held
  <2> QED BY <2>1, <2>2, TreeFrames
<1>8. ASSUME NEW f \in Frame \ memory.avail PROVE \E u \in InUse : At(u) = f
  <2>1. PICK x \in live : f \in DOMAIN U[x]
    BY <1>2 DEF Held
  <2> QED BY <1>6, <2>1
<1>9. ASSUME NEW u \in InUse, u[2][1] \in 1..LEVELS - 1 PROVE NoIdleTable(At(u))
  <2>1. u[1] \in live /\ At(u) \in DOMAIN U[u[1]] /\ U[u[1]][At(u)].lvl \in 1..LEVELS - 1
    BY <1>6, <1>9
  <2> QED BY <1>2, <2>1, TableUsed
<1>10. {At(u) : u \in InUse} = Frame \ memory.avail
  BY <1>7, <1>8
<1> QED BY <1>6, <1>9, <1>10

\* The invariant implies WellFormed.
LEMMA WellFormedHolds == IInv => WellFormed
<1>1. SUFFICES ASSUME IInv PROVE WellFormed
  OBVIOUS
<1>2. Base
  BY <1>1 DEF IInv
<1>3. TypeOK
  BY <1>2 DEF TypeOK, Base, Memory, AnyEntry
<1>4. AreasOK
  BY <1>2 DEF AreasOK, Base, Sorted
<1> QED BY <1>1, <1>3, <1>4, FramesHold DEF WellFormed

\* mm_copy's effect.
LEMMA CopyIsFaithful ==
  ASSUME IInv, NEW dst \in Mm, NEW src \in Mm, Copy(dst, src), memory'.out = "ok"
  PROVE  /\ vmas'[dst] \in {vmas[src], <<>>}
         /\ \A p \in Page :
              InArea(src, p) =>
                LET old == FrameOf(memory, src, p)
                    new == pt_addr(memory'.table, root[dst], p)
                IN /\ data'[old] = data[old]
                   /\ vmas'[dst] # <<>> => data'[new] = data[old] /\ new # old
<1>1. PICK U : Held(memory, root, vmas, live, U)
  BY DEF Copy, IInv
<1>2. CopyEnds(U, dst, src) /\ dst \in live /\ src \in live /\ dst # src
  BY <1>1, CopyStep DEF Copy
<1>3. PICK w : /\ Become(memory, U[dst], memory', w, root[dst])
               /\ Serves(w, ToSet(vmas'[dst]))
               /\ \A f \in DOMAIN U[src] : data'[f] = data[f]
               /\ \/ vmas'[dst] = << >>
                  \/ /\ vmas'[dst] = vmas[src]
                     /\ \A p \in Nat, g \in DOMAIN w, f \in DOMAIN U[src] :
                          Covers(w, g, 0, p) /\ Covers(U[src], f, 0, p) => data'[g] = data[f]
  BY <1>2 DEF CopyEnds
<1>4. vmas'[dst] \in {vmas[src], <<>>}
  BY <1>3
<1>5. ASSUME NEW p \in Page, InArea(src, p)
      PROVE  LET old == FrameOf(memory, src, p)
                 new == pt_addr(memory'.table, root[dst], p)
             IN /\ data'[old] = data[old]
                /\ vmas'[dst] # <<>> => data'[new] = data[old] /\ new # old
  <2> DEFINE old == FrameOf(memory, src, p)
             new == pt_addr(memory'.table, root[dst], p)
  <2>1. p \in Nat /\ p < END
    BY Half DEF Page
  <2>2. memory \in Memory /\ Tree(memory.table, root[src], U[src])
        /\ Serves(U[src], ToSet(vmas[src]))
        /\ DOMAIN U[src] \cap (memory.avail \cup DOMAIN U[dst]) = {}
    BY <1>1, <1>2 DEF Held
  <2>3. In(ToSet(vmas[src]), p)
    BY <1>5, InAreaIs
  <2>4. PICK f \in DOMAIN U[src] : Covers(U[src], f, 0, p)
    BY <2>1, <2>2, <2>3 DEF Serves
  <2>5. old = f
    BY <2>1, <2>2, <2>4, FrameIs
  <2>6. data'[old] = data[old]
    BY <1>3, <2>4, <2>5
  <2>7. ASSUME vmas'[dst] # << >> PROVE data'[new] = data[old] /\ new # old
    <3>1. vmas'[dst] = vmas[src]
          /\ \A q \in Nat, g \in DOMAIN w, h \in DOMAIN U[src] :
               Covers(w, g, 0, q) /\ Covers(U[src], h, 0, q) => data'[g] = data[h]
      BY <1>3, <2>7
    <3>2. PICK g \in DOMAIN w : Covers(w, g, 0, p)
      BY <1>3, <2>1, <2>3, <3>1 DEF Serves
    <3> DEFINE m == memory'
    <3>3. m \in Memory /\ Tree(m.table, root[dst], w) /\ DOMAIN w \subseteq memory.avail \cup DOMAIN U[dst]
      BY <1>3 DEF Become
    <3>4. new = FrameOf(m, dst, p)
      BY DEF FrameOf
    <3> HIDE DEF m, new, old
    <3>5. new = g
      BY <2>1, <3>2, <3>3, <3>4, FrameIs
    <3>6. data'[g] = data[f]
      BY <2>1, <2>4, <3>1, <3>2
    <3>7. g # f
      BY <2>2, <3>3
    <3> QED BY <2>5, <3>5, <3>6, <3>7
  <2> QED BY <2>6, <2>7
<1> QED BY <1>4, <1>5

\* IInv holds in every state, where munmap and a failing mmap have no area above
\* their range (mm.c: with one, MunmapNeighbour and the README show what goes wrong).
THEOREM Invariance ==
  ASSUME Excluded = {"munmap", "mmap"}
  PROVE  Spec => []IInv
<1>1. Init => IInv
  BY InitHolds
<1>2. IInv /\ [Next]_vars => IInv'
  BY NextHolds
<1> QED BY <1>1, <1>2, PTL DEF Spec

\* Every frame is free or in one place of one address space's tables (mm.c with
\* paging.c), however large the tables, the memory and the number of address spaces are.
THEOREM TablesOK ==
  ASSUME Excluded = {"munmap", "mmap"}
  PROVE  Spec => []WellFormed
<1>1. IInv => WellFormed
  BY WellFormedHolds
<1>2. Spec => []IInv
  BY Invariance
<1> QED BY <1>1, <1>2, PTL

\* pt_addr finds the pages of the areas and no others (mm.c, paging.c).
THEOREM AreasFound ==
  ASSUME Excluded = {"munmap", "mmap"}
  PROVE  Spec => []MapsAreas
<1>1. IInv => MapsAreas
  BY MapsAreasHolds
<1>2. Spec => []IInv
  BY Invariance
<1> QED BY <1>1, <1>2, PTL

\* mm_copy makes the same areas with the same contents in other frames, or none at
\* all, and leaves the original alone.
THEOREM CopiesOK ==
  ASSUME Excluded = {"munmap", "mmap"}
  PROVE  Spec => CopyFaithful
<1> DEFINE A == \A dst, src \in Mm :
       Copy(dst, src) /\ memory'.out = "ok" =>
         /\ vmas'[dst] \in {vmas[src], <<>>}
         /\ \A p \in Page :
              InArea(src, p) =>
                LET old == FrameOf(memory, src, p)
                    new == pt_addr(memory'.table, root[dst], p)
                IN /\ data'[old] = data[old]
                   /\ vmas'[dst] # <<>> => data'[new] = data[old] /\ new # old
<1>1. IInv => A
  BY CopyIsFaithful
<1>2. IInv /\ [Next]_vars => [A]_vars
  BY <1>1
<1>3. Spec => []IInv
  BY Invariance
<1> HIDE DEF A
<1>4. Spec => [][A]_vars
  BY <1>2, <1>3, PTL DEF Spec
<1> QED BY <1>4 DEF CopyFaithful, A

-----------------------------------------------------------------------------
(* What exec needs of them.                                                *)

\* pt_unmap of all of user space leaves nothing but the root.
LEMMA AllGone ==
  ASSUME NEW table, NEW r, NEW u, Tree(table, r, u), Low(u)
  PROVE  Gone(u, LEVELS, 0, END) = DOMAIN u \ {r}
<1>1. Places(u) /\ r \in DOMAIN u /\ u[r].lvl = LEVELS /\ u[r].num = 0
  BY TreeFrames
<1>2. LEVELS \in Nat
  BY Sizes
<1>3. ASSUME NEW g \in DOMAIN u, g # r PROVE g \in Gone(u, LEVELS, 0, END)
  <2>1. u[g].lvl \in 0..LEVELS /\ First(u, g) \in Nat
    BY <1>1, FirstPage DEF Places
  <2>2. u[g].lvl # LEVELS
    <3>1. SUFFICES ASSUME u[g].lvl = LEVELS PROVE FALSE
      OBVIOUS
    <3>2. u[g].num = 0
      BY <1>1, <3>1 DEF Places
    <3> QED BY <1>1, <1>3, <3>1, <3>2 DEF Places
  <2>3. u[g].lvl < LEVELS /\ 0 <= First(u, g)
    BY <1>2, <2>1, <2>2
  <2>4. First(u, g) < END
    BY <2>2 DEF Low
  <2> QED BY <2>3, <2>4 DEF Gone
<1>4. r \notin Gone(u, LEVELS, 0, END)
  <2>1. ~(u[r].lvl < LEVELS)
    BY <1>1, <1>2
  <2> QED BY <2>1 DEF Gone
<1>5. Gone(u, LEVELS, 0, END) \subseteq DOMAIN u
  BY DEF Gone
<1> QED BY <1>3, <1>4, <1>5

\* mm_release gives back all frames of a tree, and touches no others (mm.c).
LEMMA ReleaseIs ==
  ASSUME NEW m \in Memory, NEW r, NEW u, Tree(m.table, r, u), Low(u), NEW k,
         k = Clean(GiveBack(pt_unmap(m, r, 0, END), r, 1))
  PROVE  /\ k \in Memory /\ k.out = m.out /\ k.avail = m.avail \cup DOMAIN u
         /\ \A f \in Frame : f \notin DOMAIN u /\ f \notin m.avail => k.table[f] = m.table[f]
<1> DEFINE n == pt_unmap(m, r, 0, END)
           g == GiveBack(n, r, 1)
           X == Gone(u, LEVELS, 0, END)
<1>1. Takes(m, r, u, X, LEVELS, n)
  <2>1. 0 \in Nat /\ 0 < END /\ END - 0 = END
    BY Half
  <2>2. Reached(u, LEVELS, 0)
    BY StartReached
  <2>3. Takes(m, r, u, Gone(u, LEVELS, 0, END), LEVELS, pt_unmap(m, r, 0, END - 0))
    BY <2>1, <2>2, UnmapTakes
  <2> QED BY <2>1, <2>3
<1>2. X = DOMAIN u \ {r}
  BY AllGone
<1> HIDE DEF n, X
<1>3. /\ n \in Memory /\ n.out = m.out /\ n.avail = m.avail \cup X
      /\ \A f \in Frame : f \notin DOMAIN u => n.table[f] = m.table[f]
  BY <1>1 DEF Takes
<1>4. r \in Frame /\ r \in DOMAIN u
  BY TreeFrames
<1>5. Run(r, 1) = {r} /\ r \in 0..FRAMES
  <2>1. r \in Nat /\ r \in 0..FRAMES
    BY <1>4, Sizes DEF Frame
  <2> QED BY <2>1 DEF Run
<1>6. g \in Memory /\ g.avail = n.avail \cup {r} /\ g.out = n.out /\ g.table = n.table
  BY <1>3, <1>5 DEF GiveBack, Memory
<1> HIDE DEF g
<1>7. k = Clean(g)
  BY DEF g, n
<1>8. /\ k \in Memory /\ k.avail = g.avail /\ k.out = g.out
      /\ \A f \in Frame : f \notin g.avail => k.table[f] = g.table[f]
  BY <1>6, <1>7, CleanIs
<1>9. k.avail = m.avail \cup DOMAIN u
  BY <1>2, <1>3, <1>4, <1>6, <1>8
<1> QED BY <1>3, <1>6, <1>8, <1>9

\* pt_unmap may begin where an area begins.
LEMMA BeginReached ==
  ASSUME NEW u, Places(u), NEW S, Apart(S), Serves(u, S), NEW a \in S
  PROVE  Reached(u, LEVELS, a.begin)
<1> DEFINE v == a.begin
<1>1. v \in Nat /\ a.end \in Nat /\ v < a.end
  BY DEF Apart
<1>2. SUFFICES ASSUME NEW k \in 2..LEVELS, v % Size(k) # 0
               PROVE  \E g \in DOMAIN u : Covers(u, g, k - 1, v)
  BY DEF Reached
<1>3. k \in 1..LEVELS
  BY Sizes
<1>4. v - 1 \in Nat /\ Num(v - 1, k - 1) = Num(v, k - 1)
  BY <1>1, <1>2, <1>3, PageBefore
<1>5. In(S, v)
  BY <1>1 DEF In
<1>6. ~Within(S, k, v)
  <2>1. SUFFICES ASSUME NEW b \in S, b.begin <= v, v < b.end, b.begin <= v - 1, v - 1 < b.end
                 PROVE  FALSE
    BY <1>1, <1>4 DEF Within
  <2>2. b.begin \in Nat /\ b.end \in Nat /\ (a # b => a.end <= b.begin \/ b.end <= a.begin)
    BY DEF Apart
  <2> QED BY <1>1, <2>1, <2>2
<1> QED BY <1>1, <1>5, <1>6 DEF Serves

\* What is new of a tree that pt_map has made begins in user space too.
LEMMA GrownLow ==
  ASSUME NEW old, NEW r, NEW u, Tree(old.table, r, u), Low(u), NEW from \in Nat, NEW to \in Nat,
         to <= END, NEW new, NEW w, NEW cur \in Nat, cur <= to, Grown(old, r, u, from, to, new, w, cur)
  PROVE  Low(w)
<1>1. SUFFICES ASSUME NEW g \in DOMAIN w, w[g].lvl # LEVELS PROVE First(w, g) < END
  BY DEF Low
<1>2. Places(w) /\ END \in Nat /\ LEVELS \in Nat
  BY Half, Sizes DEF Grown, Tree
<1> DEFINE l == w[g].lvl
           v == First(w, g)
<1>3. v \in Nat /\ Covers(w, g, l, v) /\ l \in 0..LEVELS
  BY <1>2, FirstPage DEF Places
<1>4. CASE g \in DOMAIN u
  <2>1. w[g] = u[g]
    BY <1>4 DEF Grown
  <2> QED BY <1>1, <1>4, <2>1 DEF Low, First
<1>5. CASE g \notin DOMAIN u /\ l = 0
  <2>1. from <= v /\ v < cur
    <3>1. Covers(w, g, 0, v)
      BY <1>3, <1>5
    <3> QED BY <1>3, <1>5, <3>1 DEF Grown
  <2> HIDE DEF v
  <2>2. v < END
    BY <1>2, <1>3, <2>1
  <2> QED BY <2>2 DEF v
<1>6. CASE g \notin DOMAIN u /\ l # 0
  <2>1. PICK p \in Nat : from <= p /\ p < to /\ Covers(w, g, l, p)
    BY <1>6 DEF Grown
  <2>2. v <= p
    BY <1>2, <2>1, FirstBelow
  <2> HIDE DEF v
  <2>3. v < END
    BY <1>2, <1>3, <2>1, <2>2
  <2> QED BY <2>3 DEF v
<1> QED BY <1>4, <1>5, <1>6

\* So does what is left of a tree.
LEMMA RestLow ==
  ASSUME NEW u, Low(u), NEW X
  PROVE  Low(Rest(u, X))
<1>1. \A g \in DOMAIN Rest(u, X) : g \in DOMAIN u /\ Rest(u, X)[g] = u[g]
  BY DEF Rest
<1> QED BY <1>1 DEF Low, First

\* pt_map on a range without areas.
LEMMA GapGrows ==
  ASSUME NEW m, NEW r, NEW u, Own(m, r, u), NEW S, Apart(S), Serves(u, S),
         NEW from \in Nat, NEW to \in Nat, from < to, to <= END,
         \A b \in S : b.end <= from \/ b.begin >= to, NEW write \in BOOLEAN
  PROVE  \E w : \E cur \in Nat :
           /\ Grown(m, r, u, from, to, pt_map(m, r, from, to - from, write), w, cur)
           /\ cur <= to
<1>1. m \in Memory /\ m.avail \subseteq Frame /\ m.out = "ok" /\ Tree(m.table, r, u)
      /\ m.avail \cap DOMAIN u = {}
  BY DEF Own
<1>2. Fresh(u, from, to)
  BY GapFresh
<1> QED BY <1>1, <1>2, MapGrows

\* When memory runs out below another area, mmap unmaps from there on: what is left is
\* a tree, though not that of the areas (mm.c, mmap).
LEMMA FailedBelow ==
  ASSUME NEW m, NEW x, NEW u, Own(m, root[x], u), NEW s, Sorted(s), Serves(u, ToSet(s)),
         NEW from \in Address, NEW to \in Address, from < to, NEW perm \in Perm,
         FailsBelow(m, x, s, from, to, perm)
  PROVE  LET res == Mapped(m, x, s, from, to, perm)
         IN /\ res.vmas = s /\ res.ok = FALSE
            /\ \E w : Become(m, u, res.memory, w, root[x]) /\ Low(w)
<1> DEFINE r == root[x]
           S == ToSet(s)
           next == After(s, to)
           flag == user_flags(perm)
           new == pt_map(m, r, from, to - from, flag)
           begin == s[next].begin
           n == pt_unmap(new, r, begin, END - begin)
           ok == [n EXCEPT !.out = "ok"]
           k == Clean(ok)
           res == Mapped(m, x, s, from, to, perm)
<1>1. m \in Memory /\ m.avail \subseteq Frame /\ m.out = "ok" /\ Tree(m.table, r, u)
      /\ m.avail \cap DOMAIN u = {}
  BY DEF Own
<1>2. from \in Nat /\ to \in Nat /\ to <= END /\ END \in Nat
  BY Half DEF Address
<1>3. Apart(S) /\ Places(u) /\ DOMAIN u \subseteq Frame
  BY <1>1, SortedApart, TreeFrames
<1>4. ~Overlaps(s, from, to) /\ next <= Len(s) /\ new.out = "fail"
  BY DEF FailsBelow
<1>5. next \in 1..Len(s) /\ Len(s) \in Nat
  BY <1>2, <1>4, AfterIs, AreaIs
<1>6. s[next] \in S /\ begin \in Nat /\ begin < END
  <2>1. s[next] \in S
    BY <1>5, AreaIs DEF ToSet
  <2>2. begin \in Nat /\ s[next].end \in Nat /\ s[next].end <= END /\ begin < s[next].end
    BY <1>5, AreaIs
  <2> QED BY <1>2, <2>1, <2>2
<1>7. res = [memory |-> k, vmas |-> s, ok |-> FALSE]
  BY <1>4 DEF Mapped, UndoMap
<1>8. \A b \in S : b.end <= from \/ b.begin >= to
  <2>1. S = {s[j] : j \in DOMAIN s}
    BY DEF ToSet
  <2>2. \A b \in S : b.end \in Nat /\ b.begin \in Nat
    BY <1>3 DEF Apart
  <2>3. \A b \in S : ~(b.end > from /\ b.begin < to)
    BY <1>4, <2>1 DEF Overlaps
  <2> QED BY <1>2, <2>2, <2>3
<1> HIDE DEF S, next
<1>9. flag \in BOOLEAN
  BY DEF user_flags
<1>10. PICK w : \E cur \in Nat : Grown(m, r, u, from, to, new, w, cur) /\ cur <= to
  <2> HIDE DEF r, flag, new, begin, n, ok, k, res
  <2>1. from \in Nat /\ to \in Nat /\ from < to /\ to <= END
    BY <1>2
  <2>2. Own(m, r, u)
    BY DEF r
  <2>3. \E w : \E cur \in Nat :
           /\ Grown(m, r, u, from, to, pt_map(m, r, from, to - from, flag), w, cur)
           /\ cur <= to
    BY <1>3, <1>8, <1>9, <2>1, <2>2, GapGrows DEF S
  <2> QED BY <2>3 DEF new
<1>11. PICK cur \in Nat : Grown(m, r, u, from, to, new, w, cur) /\ cur <= to
  BY <1>10
<1> HIDE DEF new, res
<1>12. Low(w)
  <2>1. Low(u)
    BY <1>3, ServesLow DEF S
  <2> QED BY <1>1, <1>2, <1>11, <2>1, GrownLow
<1>13. /\ new \in Memory /\ Tree(new.table, r, w)
       /\ new.avail \subseteq m.avail /\ new.avail \cap DOMAIN w = {}
       /\ DOMAIN w = DOMAIN u \cup (m.avail \ new.avail)
       /\ \A f \in DOMAIN u : w[f] = u[f]
       /\ \A g \in Frame \ DOMAIN w : new.table[g] = m.table[g]
  BY <1>11 DEF Grown
<1> HIDE DEF begin
<1>14. Reached(w, LEVELS, begin)
  <2>1. Reached(u, LEVELS, begin)
    BY <1>3, <1>6, BeginReached DEF S, begin
  <2>2. \A g \in DOMAIN u : g \in DOMAIN w /\ w[g] = u[g]
    BY <1>13
  <2> QED BY <2>1, <2>2 DEF Reached, Covers
<1> DEFINE X == Gone(w, LEVELS, begin, END)
<1>15. Takes(new, r, w, X, LEVELS, n)
  BY <1>6, <1>13, <1>14, UnmapTakes
<1> HIDE DEF X, n
<1>16. /\ n \in Memory /\ n.avail = new.avail \cup X /\ Tree(n.table, r, Rest(w, X))
       /\ X \subseteq DOMAIN w
       /\ \A f \in Frame : f \notin DOMAIN w => n.table[f] = new.table[f]
  BY <1>15 DEF Takes
<1>17. ok \in Memory /\ ok.avail = n.avail /\ ok.table = n.table /\ ok.out = "ok"
  BY <1>16, OutIs
<1> HIDE DEF ok
<1>18. /\ k \in Memory /\ k.avail = n.avail /\ k.out = "ok"
       /\ \A f \in Frame : f \notin n.avail => k.table[f] = n.table[f]
  BY <1>17, CleanIs
<1> HIDE DEF k
<1>19. DOMAIN Rest(w, X) = DOMAIN w \ X /\ DOMAIN w \subseteq Frame
  BY <1>13, TreeFrames DEF Rest
<1>20. k.avail \subseteq Frame /\ k.avail \cap DOMAIN Rest(w, X) = {}
       /\ k.avail \cup DOMAIN Rest(w, X) = m.avail \cup DOMAIN u
  BY <1>1, <1>3, <1>13, <1>16, <1>18, <1>19
<1>21. Tree(k.table, r, Rest(w, X))
  <2>1. \A f \in DOMAIN Rest(w, X) : k.table[f] = n.table[f]
    BY <1>18, <1>19, <1>20
  <2> QED BY <1>16, <2>1, TreeSame
<1>22. \A f \in Frame \ (m.avail \cup DOMAIN u) : k.table[f] = m.table[f]
  BY <1>1, <1>13, <1>16, <1>18
<1>23. Become(m, u, k, Rest(w, X), r)
  BY <1>18, <1>20, <1>21, <1>22 DEF Become
<1>24. Low(Rest(w, X))
  BY <1>12, RestLow
<1>25. res.vmas = s /\ res.ok = FALSE /\ res.memory = k
  BY <1>7
<1> QED BY <1>23, <1>24, <1>25 DEF res

-----------------------------------------------------------------------------
(* exec: the invariant.                                                    *)

\* What mmap makes, wherever the range is and whatever fails.
LEMMA MappedLow ==
  ASSUME NEW m, NEW x, NEW u, Own(m, root[x], u), NEW s, Sorted(s), Serves(u, ToSet(s)),
         NEW from \in Address, NEW to \in Address, from < to, NEW perm \in Perm
  PROVE  LET res == Mapped(m, x, s, from, to, perm)
         IN /\ res.ok \in BOOLEAN /\ res.memory \in Memory /\ res.memory.out \in {"ok", "hang"}
            /\ ~res.ok => res.vmas = s
            /\ res.ok => /\ res.memory.out = "ok"
                         /\ Sorted(res.vmas) /\ Len(res.vmas) = Len(s) + 1
            /\ res.memory.out = "ok" =>
                 \E w : /\ Become(m, u, res.memory, w, root[x]) /\ Low(w)
                        /\ res.ok => Serves(w, ToSet(res.vmas))
<1> DEFINE res == Mapped(m, x, s, from, to, perm)
<1> HIDE DEF res
<1>1. Low(u)
  <2>1. Tree(m.table, root[x], u)
    BY DEF Own
  <2> QED BY <2>1, SortedApart, TreeFrames, ServesLow
<1>2. CASE FailsBelow(m, x, s, from, to, perm)
  <2>1. res.vmas = s /\ res.ok = FALSE
        /\ \E w : Become(m, u, res.memory, w, root[x]) /\ Low(w)
    BY <1>2, FailedBelow DEF res
  <2>2. res.memory \in Memory /\ res.memory.out = "ok"
    BY <2>1 DEF Become
  <2> QED BY <2>1, <2>2 DEF res
<1>3. CASE ~FailsBelow(m, x, s, from, to, perm)
  <2>1. MapEnds(m, x, u, s, from, to, perm, res)
    BY <1>3, MappedIs DEF res
  <2>2. /\ res.ok \in BOOLEAN /\ res.memory \in Memory /\ res.memory.out \in {"ok", "hang"}
        /\ ~res.ok => res.vmas = s
        /\ res.ok => /\ res.memory.out = "ok"
                     /\ Sorted(res.vmas) /\ Len(res.vmas) = Len(s) + 1
    BY <2>1 DEF MapEnds
  <2>3. CASE res.ok
    <3>1. PICK w : Become(m, u, res.memory, w, root[x]) /\ Serves(w, ToSet(res.vmas))
      BY <2>1, <2>3 DEF MapEnds
    <3>2. Low(w)
      <4>1. Tree(res.memory.table, root[x], w)
        BY <3>1 DEF Become
      <4> QED BY <2>2, <2>3, <3>1, <4>1, SortedApart, TreeFrames, ServesLow
    <3> QED BY <2>2, <3>1, <3>2 DEF res
  <2>4. CASE ~res.ok
    <3>1. res.memory.out = "ok" => Become(m, u, res.memory, u, root[x])
      BY <2>1, <2>4 DEF MapEnds
    <3> QED BY <1>1, <2>2, <2>4, <3>1 DEF res
  <2> QED BY <2>3, <2>4
<1> QED BY <1>2, <1>3

\* The memory m while exec runs: the address spaces lv have trees U, and every frame of
\* 1..n is free, exec's buffer b, or in one place of one tree.
Placed(m, rt, lv, b, n, U) ==
  /\ m \in Memory /\ m.out = "ok"
  /\ \A x \in lv : Tree(m.table, rt[x], U[x]) /\ Low(U[x])
  /\ \A x, y \in lv : x # y => DOMAIN U[x] \cap DOMAIN U[y] = {}
  /\ \A x \in lv : m.avail \cap DOMAIN U[x] = {}
  /\ b # 0 => b \notin m.avail /\ \A x \in lv : b \notin DOMAIN U[x]
  /\ \A f \in Frame : f \in 1..n <=> f \in m.avail \/ f = b \/ \E x \in lv : f \in DOMAIN U[x]

\* Where exec is building the new address space, and its tables are those of its areas.
Building == {"stack", "args", "load", "buffer", "map", "copy"}

\* What exec has at each of its calls.
ExecBase ==
  /\ pc \in Building \cup {"open", "create", "segment_fails", "undo", "switch", "release",
                           "done", "failed", "hang", "kernel"}
  /\ memory \in Memory /\ memory.out \in {"ok", "hang"}
  /\ frames \in Frame
  /\ root \in [Mm -> 0..FRAMES]
  /\ vmas \in [Mm -> Seq(Area)] /\ Sorted(vmas[New])
  /\ file \in Programs /\ header \in 0..file.phnum
  /\ pc \in {"buffer", "map", "copy"} => header # file.phnum
  /\ live = IF pc \in {"open", "create", "failed"} THEN {Old}
            ELSE IF pc = "done" THEN {New} ELSE {Old, New}
  /\ mm = IF pc \in {"release", "done"} THEN New ELSE Old
  /\ cr3 = root[mm]
  /\ regs # << >> <=> pc = "done"
  /\ buffer \in 0..FRAMES
  /\ buffer # 0 => pc \in {"map", "copy", "segment_fails", "hang", "kernel"}
  /\ pc \in {"map", "copy"} => buffer # 0
  /\ 0 \in memory.avail => pc \in {"undo", "failed", "hang"}

ExecInv ==
  /\ ExecBase
  /\ Up => \E U : /\ Placed(memory, root, live, buffer, frames, U)
                  /\ pc \in Building => Serves(U[New], ToSet(vmas[New]))

\* exec begins with the old address space alone.
LEMMA ExecInitHolds == ExecInit => ExecInv
<1>1. SUFFICES ASSUME ExecInit PROVE ExecInv
  OBVIOUS
<1>2. None \in AnyEntry /\ FRAMES \in Nat
  BY PagingAssumption DEF None, AnyEntry
<1>3. /\ memory = [table |-> [f \in Frame |-> [s \in Slot |-> None]], avail |-> 2..frames,
                   out |-> "ok"]
      /\ frames \in Frame /\ frames \in Nat /\ frames >= 1 /\ frames <= FRAMES
      /\ live = {Old} /\ root = [x \in Mm |-> IF x = Old THEN 1 ELSE 0]
      /\ vmas = [x \in Mm |-> << >>] /\ file \in Programs /\ pc = "open" /\ mm = Old /\ cr3 = 1
      /\ header = 0 /\ buffer = 0 /\ regs = << >>
  BY <1>1, <1>2 DEF ExecInit, Frame
<1>4. /\ memory \in Memory /\ memory.out = "ok" /\ memory.avail = 2..frames
      /\ \A f \in Frame : \A i \in Slot : memory.table[f][i] = None
  <2>1. 2..frames \in SUBSET (0..FRAMES)
    BY <1>2, <1>3
  <2>2. [f \in Frame |-> [s \in Slot |-> None]] \in [Frame -> [Slot -> AnyEntry]]
    BY <1>2
  <2> QED BY <1>3, <2>1, <2>2 DEF Memory
<1>5. Old \in Mm /\ New \in Mm /\ Old # New
  BY SpacesAssumption
<1>6. root \in [Mm -> 0..FRAMES] /\ root[Old] = 1 /\ 1 \in Frame
  BY <1>2, <1>3, <1>5 DEF Frame
<1>7. vmas \in [Mm -> Seq(Area)] /\ Sorted(vmas[New])
  BY <1>3, <1>5, EmptySorted
<1>8. file.phnum \in Nat
  BY <1>3, ProgramsAssumption
<1>9. ExecBase
  <2>1. 0 \notin memory.avail /\ 0 \in 0..FRAMES /\ 0 \in 0..file.phnum
    BY <1>2, <1>3, <1>4, <1>8
  <2> QED BY <1>3, <1>4, <1>6, <1>7, <2>1 DEF ExecBase
<1> DEFINE U == [x \in {Old} |-> RootTree(1)]
<1>10. Tree(memory.table, 1, RootTree(1)) /\ Serves(RootTree(1), {})
  BY <1>4, <1>6, RootServes
<1>11. Low(RootTree(1)) /\ DOMAIN RootTree(1) = {1}
  BY DEF Low, RootTree
<1>12. Placed(memory, root, live, buffer, frames, U)
  <2>1. U[Old] = RootTree(1)
    OBVIOUS
  <2> HIDE DEF U
  <2>2. \A x \in live : x = Old
    BY <1>3
  <2>3. \A f \in Frame : f \in 1..frames <=> f \in 2..frames \/ f = 1
    BY <1>2, <1>3 DEF Frame
  <2>4. \A f \in Frame : f # 0
    BY <1>2 DEF Frame
  <2>5. 1 \notin memory.avail /\ Old \in live
    BY <1>3, <1>4
  <2> QED BY <1>3, <1>4, <1>6, <1>10, <1>11, <2>1, <2>2, <2>3, <2>4, <2>5 DEF Placed
<1>13. pc \notin Building
  BY <1>3 DEF Building
<1> QED BY <1>9, <1>12, <1>13 DEF ExecInv

-----------------------------------------------------------------------------
(* exec: what its calls make of the trees.                                 *)

\* mmap, on the new address space alone.
LEMMA PlacedExchange ==
  ASSUME NEW m, NEW rt, NEW lv, NEW b, NEW n, NEW U, Placed(m, rt, lv, b, n, U),
         NEW x \in lv, NEW k, NEW w, Become(m, U[x], k, w, rt[x]), Low(w)
  PROVE  Placed(k, rt, lv, b, n, With(U, lv, x, w))
<1> DEFINE V == With(U, lv, x, w)
<1>1. V[x] = w /\ \A y \in lv : y # x => V[y] = U[y]
  BY DEF With
<1> HIDE DEF V
<1>2. /\ k \in Memory /\ k.avail \subseteq Frame /\ k.out = "ok"
      /\ Tree(k.table, rt[x], w) /\ k.avail \cap DOMAIN w = {}
      /\ k.avail \cup DOMAIN w = m.avail \cup DOMAIN U[x]
      /\ \A f \in Frame \ (m.avail \cup DOMAIN U[x]) : k.table[f] = m.table[f]
  BY DEF Become
<1>3. ASSUME NEW y \in lv, y # x
      PROVE  /\ Tree(k.table, rt[y], U[y]) /\ Low(U[y])
             /\ DOMAIN U[y] \cap (m.avail \cup DOMAIN U[x]) = {}
  <2>1. Tree(m.table, rt[y], U[y]) /\ Low(U[y])
    BY DEF Placed
  <2>2. DOMAIN U[y] \cap (m.avail \cup DOMAIN U[x]) = {} /\ DOMAIN U[y] \subseteq Frame
    BY <1>3, <2>1, TreeFrames DEF Placed
  <2>3. \A f \in DOMAIN U[y] : k.table[f] = m.table[f]
    BY <1>2, <2>2
  <2> QED BY <2>1, <2>2, <2>3, TreeSame
<1>4. \A y \in lv : Tree(k.table, rt[y], V[y]) /\ Low(V[y])
  <2>1. TAKE y \in lv
  <2> QED BY <1>1, <1>2, <1>3
<1>5. \A y, z \in lv : y # z => DOMAIN V[y] \cap DOMAIN V[z] = {}
  <2>1. TAKE y, z \in lv
  <2>2. HAVE y # z
  <2>3. CASE y = x
    BY <1>1, <1>2, <1>3, <2>2, <2>3
  <2>4. CASE z = x
    BY <1>1, <1>2, <1>3, <2>2, <2>4
  <2>5. CASE y # x /\ z # x
    BY <1>1, <2>2, <2>5 DEF Placed
  <2> QED BY <2>3, <2>4, <2>5
<1>6. \A y \in lv : k.avail \cap DOMAIN V[y] = {}
  <2>1. TAKE y \in lv
  <2> QED BY <1>1, <1>2, <1>3
<1>7. b # 0 => b \notin k.avail /\ \A y \in lv : b \notin DOMAIN V[y]
  <2>1. HAVE b # 0
  <2>2. b \notin m.avail /\ \A y \in lv : b \notin DOMAIN U[y]
    BY <2>1 DEF Placed
  <2> QED BY <1>1, <1>2, <2>2
<1>8. ASSUME NEW f \in Frame
      PROVE  f \in 1..n <=> f \in k.avail \/ f = b \/ \E y \in lv : f \in DOMAIN V[y]
  <2>1. f \in 1..n <=> f \in m.avail \/ f = b \/ \E y \in lv : f \in DOMAIN U[y]
    BY DEF Placed
  <2>2. (f \in m.avail \/ \E y \in lv : f \in DOMAIN U[y])
          <=> (f \in k.avail \/ \E y \in lv : f \in DOMAIN V[y])
    BY <1>1, <1>2
  <2> QED BY <2>1, <2>2
<1> QED BY <1>2, <1>4, <1>5, <1>6, <1>7, <1>8 DEF Placed, V

\* mm_release: the frames of one address space are free, the others are as they were.
LEMMA PlacedRelease ==
  ASSUME NEW m, NEW rt, NEW lv, NEW b, NEW n, NEW U, Placed(m, rt, lv, b, n, U),
         NEW x \in lv, NEW k, k = Clean(GiveBack(pt_unmap(m, rt[x], 0, END), rt[x], 1)),
         NEW new, \A y \in lv : y # x => new[y] = rt[y]
  PROVE  Placed(k, new, lv \ {x}, b, n, U)
<1>1. m \in Memory /\ m.out = "ok" /\ Tree(m.table, rt[x], U[x]) /\ Low(U[x])
  BY DEF Placed
<1>2. /\ k \in Memory /\ k.out = m.out /\ k.avail = m.avail \cup DOMAIN U[x]
      /\ \A f \in Frame : f \notin DOMAIN U[x] /\ f \notin m.avail => k.table[f] = m.table[f]
  BY <1>1, ReleaseIs
<1>3. ASSUME NEW y \in lv \ {x}
      PROVE  /\ Tree(k.table, new[y], U[y]) /\ Low(U[y])
             /\ DOMAIN U[y] \cap (m.avail \cup DOMAIN U[x]) = {}
  <2>1. Tree(m.table, rt[y], U[y]) /\ Low(U[y]) /\ new[y] = rt[y]
    BY DEF Placed
  <2>2. DOMAIN U[y] \cap (m.avail \cup DOMAIN U[x]) = {} /\ DOMAIN U[y] \subseteq Frame
    BY <2>1, TreeFrames DEF Placed
  <2>3. \A f \in DOMAIN U[y] : k.table[f] = m.table[f]
    BY <1>2, <2>2
  <2>4. Tree(k.table, rt[y], U[y])
    BY <2>1, <2>3, TreeSame
  <2> QED BY <2>1, <2>2, <2>4
<1>4. b # 0 => b \notin k.avail /\ \A y \in lv \ {x} : b \notin DOMAIN U[y]
  BY <1>2 DEF Placed
<1>5. ASSUME NEW f \in Frame
      PROVE  f \in 1..n <=> f \in k.avail \/ f = b \/ \E y \in lv \ {x} : f \in DOMAIN U[y]
  <2>1. f \in 1..n <=> f \in m.avail \/ f = b \/ \E y \in lv : f \in DOMAIN U[y]
    BY DEF Placed
  <2> QED BY <1>2, <2>1
<1>6. \A y, z \in lv \ {x} : y # z => DOMAIN U[y] \cap DOMAIN U[z] = {}
  BY DEF Placed
<1>7. \A y \in lv \ {x} : k.avail \cap DOMAIN U[y] = {}
  BY <1>2, <1>3
<1> QED BY <1>1, <1>2, <1>3, <1>4, <1>5, <1>6, <1>7 DEF Placed

\* mm_create: a free frame is the root of one address space more.
LEMMA PlacedCreate ==
  ASSUME NEW m, NEW rt, NEW lv, NEW b, NEW n, NEW U, Placed(m, rt, lv, b, n, U),
         m.avail \subseteq Frame, NEW x, x \notin lv, NEW f \in m.avail, f \in Nat,
         NEW k, k = Rooted(m, f), NEW new, new[x] = f, \A y \in lv : new[y] = rt[y]
  PROVE  Placed(k, new, lv \cup {x}, b, n, With(U, lv, x, RootTree(f)))
         /\ k.avail \subseteq Frame /\ Serves(With(U, lv, x, RootTree(f))[x], {})
<1> DEFINE V == With(U, lv, x, RootTree(f))
<1>1. V[x] = RootTree(f) /\ \A y \in lv : V[y] = U[y]
  BY DEF With
<1> HIDE DEF V
<1>2. /\ k \in Memory /\ k.avail = m.avail \ {f} /\ k.out = m.out
      /\ \A i \in Slot : k.table[f][i] = None
      /\ \A g \in Frame : g # f => k.table[g] = m.table[g]
  <2>1. m \in Memory
    BY DEF Placed
  <2> QED BY <2>1, RootMade
<1>3. f \in Frame /\ Tree(k.table, f, RootTree(f)) /\ Serves(RootTree(f), {})
  BY <1>2, RootServes
<1>4. DOMAIN RootTree(f) = {f} /\ Low(RootTree(f))
  BY DEF RootTree, Low
<1>5. ASSUME NEW y \in lv
      PROVE  Tree(k.table, new[y], U[y]) /\ Low(U[y]) /\ f \notin DOMAIN U[y]
  <2>1. Tree(m.table, rt[y], U[y]) /\ Low(U[y]) /\ new[y] = rt[y] /\ f \notin DOMAIN U[y]
    BY DEF Placed
  <2>2. \A g \in DOMAIN U[y] : k.table[g] = m.table[g]
    BY <1>2, <2>1, TreeFrames
  <2>3. Tree(k.table, rt[y], U[y])
    BY <2>1, <2>2, TreeSame
  <2> QED BY <2>1, <2>3
<1>6. \A y \in lv \cup {x} : Tree(k.table, new[y], V[y]) /\ Low(V[y])
  <2>1. TAKE y \in lv \cup {x}
  <2>2. CASE y = x
    BY <1>1, <1>3, <1>4, <2>2
  <2>3. CASE y \in lv
    BY <1>1, <1>5, <2>3
  <2> QED BY <2>2, <2>3
<1>7. \A y, z \in lv \cup {x} : y # z => DOMAIN V[y] \cap DOMAIN V[z] = {}
  <2>1. TAKE y, z \in lv \cup {x}
  <2>2. HAVE y # z
  <2>3. CASE y = x
    BY <1>1, <1>4, <1>5, <2>2, <2>3
  <2>4. CASE z = x
    BY <1>1, <1>4, <1>5, <2>2, <2>4
  <2>5. CASE y \in lv /\ z \in lv
    BY <1>1, <2>2, <2>5 DEF Placed
  <2> QED BY <2>3, <2>4, <2>5
<1>8. \A y \in lv \cup {x} : k.avail \cap DOMAIN V[y] = {}
  <2>1. TAKE y \in lv \cup {x}
  <2>2. CASE y = x
    BY <1>1, <1>2, <1>4, <2>2
  <2>3. CASE y \in lv
    BY <1>1, <1>2, <2>3 DEF Placed
  <2> QED BY <2>2, <2>3
<1>9. b # 0 => b \notin k.avail /\ \A y \in lv \cup {x} : b \notin DOMAIN V[y]
  <2>1. HAVE b # 0
  <2>2. b \notin m.avail /\ \A y \in lv : b \notin DOMAIN U[y]
    BY <2>1 DEF Placed
  <2> QED BY <1>1, <1>2, <1>4, <2>2
<1>10. ASSUME NEW g \in Frame
       PROVE  g \in 1..n <=> g \in k.avail \/ g = b \/ \E y \in lv \cup {x} : g \in DOMAIN V[y]
  <2>1. g \in 1..n <=> g \in m.avail \/ g = b \/ \E y \in lv : g \in DOMAIN U[y]
    BY DEF Placed
  <2>2. (\E y \in lv \cup {x} : g \in DOMAIN V[y]) <=> g = f \/ \E y \in lv : g \in DOMAIN U[y]
    BY <1>1, <1>4
  <2>3. g \in m.avail <=> g \in k.avail \/ g = f
    BY <1>2
  <2> QED BY <2>1, <2>2, <2>3
<1>11. k.out = "ok" /\ k.avail \subseteq Frame
  BY <1>2 DEF Placed
<1> QED BY <1>1, <1>2, <1>3, <1>6, <1>7, <1>8, <1>9, <1>10, <1>11 DEF Placed, V

\* A free frame becomes exec's buffer.
LEMMA PlacedBuffer ==
  ASSUME NEW m, NEW rt, NEW lv, NEW n, NEW U, Placed(m, rt, lv, 0, n, U),
         NEW f \in m.avail, f \in Nat, f # 0, NEW k, k = Grab(m, f, 1)
  PROVE  Placed(k, rt, lv, f, n, U) /\ k.avail \subseteq m.avail
<1>1. Run(f, 1) = {f}
  <2>1. f + 1 - 1 = f
    OBVIOUS
  <2> QED BY <2>1 DEF Run
<1>2. k \in Memory /\ k.out = "ok" /\ k.avail = m.avail \ {f} /\ k.table = m.table
  BY <1>1 DEF Placed, Grab, Memory
<1>3. \A x \in lv : f \notin DOMAIN U[x]
  BY DEF Placed
<1>4. \A g \in Frame : g \in 1..n <=> g \in k.avail \/ g = f \/ \E x \in lv : g \in DOMAIN U[x]
  <2>1. TAKE g \in Frame
  <2>2. g # 0
    BY PagingAssumption DEF Frame
  <2>3. g \in 1..n <=> g \in m.avail \/ g = 0 \/ \E x \in lv : g \in DOMAIN U[x]
    BY DEF Placed
  <2> QED BY <1>2, <2>2, <2>3
<1> QED BY <1>2, <1>3, <1>4 DEF Placed

\* The buffer is given back.
LEMMA PlacedFree ==
  ASSUME NEW m, NEW rt, NEW lv, NEW b \in 0..FRAMES, NEW n, NEW U, Placed(m, rt, lv, b, n, U),
         NEW k, k = GiveBack(m, b, 1)
  PROVE  Placed(k, rt, lv, 0, n, U) /\ k.avail = m.avail \cup {b} /\ k.out = m.out
<1>0. FRAMES \in Nat
  BY PagingAssumption
<1>1. Run(b, 1) = {b}
  <2>1. b + 1 - 1 = b
    BY <1>0
  <2> QED BY <1>0, <2>1 DEF Run
<1>2. k \in Memory /\ k.out = "ok" /\ k.avail = m.avail \cup {b} /\ k.table = m.table /\ m.out = "ok"
  BY <1>1 DEF Placed, GiveBack, Memory
<1>3. ASSUME NEW x \in lv PROVE k.avail \cap DOMAIN U[x] = {}
  <2>1. Tree(m.table, rt[x], U[x])
    BY DEF Placed
  <2>2. 0 \notin DOMAIN U[x]
    BY <1>0, <2>1, TreeFrames DEF Frame
  <2>3. b \notin DOMAIN U[x] /\ m.avail \cap DOMAIN U[x] = {}
    BY <2>2 DEF Placed
  <2> QED BY <1>2, <2>3
<1>4. \A g \in Frame : g \in 1..n <=> g \in k.avail \/ g = 0 \/ \E x \in lv : g \in DOMAIN U[x]
  <2>1. TAKE g \in Frame
  <2>2. g # 0
    BY <1>0 DEF Frame
  <2>3. g \in 1..n <=> g \in m.avail \/ g = b \/ \E x \in lv : g \in DOMAIN U[x]
    BY DEF Placed
  <2> QED BY <1>2, <2>2, <2>3
<1> QED BY <1>2, <1>3, <1>4 DEF Placed

-----------------------------------------------------------------------------
(* exec: mmap in the new address space.                                    *)

\* A step that leaves the address spaces and the buffer alone.
LEMMA ExecStays ==
  ASSUME ExecInv, ExecBase', memory' = memory, live' = live, root' = root, vmas' = vmas,
         frames' = frames, buffer' = buffer, pc' \in Building => pc \in Building
  PROVE  ExecInv'
<1>1. SUFFICES ASSUME Up' PROVE \E U : /\ Placed(memory', root', live', buffer', frames', U)
                                       /\ pc' \in Building => Serves(U[New], ToSet(vmas'[New]))
  BY DEF ExecInv
<1>2. Up
  BY <1>1 DEF Up
<1> QED BY <1>2 DEF ExecInv

\* So does a call that fails, or has nothing to do.
LEMMA GoesHolds ==
  ASSUME ExecInv, NEW next, Goto(next),
         next \in Building \cup {"create", "segment_fails", "undo", "switch", "failed", "kernel"},
         next \in Building => pc \in Building,
         next \in {"buffer", "map", "copy"} => header # file.phnum,
         next \in {"map", "copy"} => buffer # 0,
         buffer # 0 => next \in {"map", "copy", "segment_fails", "kernel"},
         next \in {"create", "failed"} => pc \in {"open", "create"},
         pc \in {"open", "create"} => next \in {"create", "failed"},
         pc \notin {"undo", "failed", "done", "release", "hang"}
  PROVE  ExecInv'
<1>1. /\ pc' = next /\ memory' = memory /\ live' = live /\ root' = root /\ vmas' = vmas
      /\ file' = file /\ frames' = frames /\ header' = header /\ buffer' = buffer
      /\ mm' = mm /\ cr3' = cr3 /\ regs' = regs
  BY DEF Goto, memoryVars, callVars, call, progress, thread
<1>2. ExecBase
  BY DEF ExecInv
<1>3. ExecBase'
  BY <1>1, <1>2 DEF ExecBase, Building
<1>4. pc' \in Building => pc \in Building
  BY <1>1
<1> QED BY <1>1, <1>3, <1>4, ExecStays

\* mmap, in the new address space, as a step of exec.
LEMMA MmapStep ==
  ASSUME ExecInv, pc \in {"stack", "map"}, NEW from \in Nat, NEW to \in Nat, from < to, to <= END,
         NEW perm \in Perm, Mmap(New, from, to, perm), UNCHANGED callVars,
         NEW next, NEW failure,
         \/ pc = "stack" /\ next = "args" /\ failure = "undo"
         \/ pc = "map" /\ next = "copy" /\ failure = "segment_fails",
         pc' = IF memory'.out = "hang" THEN "hang" ELSE IF vmas' # vmas THEN next ELSE failure
  PROVE  ExecInv'
<1> DEFINE s == vmas[New]
           res == Mapped(memory, New, s, from, to, perm)
<1>1. /\ Up /\ memory' = res.memory /\ vmas' = [vmas EXCEPT ![New] = res.vmas]
      /\ live' = live /\ root' = root
  BY DEF Mmap
<1>2. ExecBase /\ s \in Seq(Area) /\ Sorted(s)
  BY SpacesAssumption DEF ExecInv, ExecBase
<1>3. /\ file' = file /\ frames' = frames /\ header' = header /\ buffer' = buffer
      /\ mm' = mm /\ cr3' = cr3 /\ regs' = regs
  BY DEF callVars, call, progress, thread
<1>4. live = {Old, New} /\ New \in live /\ New \in Mm /\ DOMAIN vmas = Mm /\ 0 \notin memory.avail
  BY <1>2, SpacesAssumption DEF ExecBase
<1>5. PICK U : /\ Placed(memory, root, live, buffer, frames, U)
               /\ Serves(U[New], ToSet(s))
  BY <1>1 DEF ExecInv, Building
<1> DEFINE u == U[New]
<1>6. Own(memory, root[New], u)
  <2>1. memory \in Memory /\ memory.avail \subseteq Frame
    BY <1>2, <1>4 DEF ExecBase, Memory, Frame
  <2> QED BY <1>4, <1>5, <2>1 DEF Placed, Own
<1>7. from \in Address /\ to \in Address
  BY Half DEF Address
<1> HIDE DEF u, s, res
<1>8. /\ res.ok \in BOOLEAN /\ res.memory \in Memory /\ res.memory.out \in {"ok", "hang"}
      /\ ~res.ok => res.vmas = s
      /\ res.ok => /\ res.memory.out = "ok"
                   /\ Sorted(res.vmas) /\ Len(res.vmas) = Len(s) + 1
      /\ res.memory.out = "ok" =>
           \E w : /\ Become(memory, u, res.memory, w, root[New]) /\ Low(w)
                  /\ res.ok => Serves(w, ToSet(res.vmas))
  <2>1. Serves(u, ToSet(s))
    BY <1>5 DEF u
  <2> QED BY <1>2, <1>6, <1>7, <2>1, MappedLow DEF res
<1>9. vmas'[New] = res.vmas /\ Sorted(res.vmas)
  BY <1>1, <1>2, <1>4, <1>8
<1>10. vmas' # vmas <=> res.ok
  <2>1. CASE res.ok
    <3>1. Len(s) \in Nat
      BY <1>2
    <3>2. res.vmas # s
      BY <1>8, <2>1, <3>1
    <3> QED BY <1>9, <2>1, <3>2 DEF s
  <2>2. CASE ~res.ok
    <3>1. res.vmas = vmas[New]
      BY <1>8, <2>2 DEF s
    <3>2. vmas' = vmas
      BY <1>1, <1>2, <1>4, <3>1 DEF ExecBase
    <3> QED BY <2>2, <3>2
  <2> QED BY <1>8, <2>1, <2>2
<1>11. vmas' \in [Mm -> Seq(Area)] /\ Sorted(vmas'[New])
  <2>1. res.vmas \in Seq(Area)
    BY <1>9 DEF Sorted
  <2> QED BY <1>1, <1>2, <1>9, <2>1 DEF ExecBase
<1>12. \/ memory'.out = "hang" /\ pc' = "hang"
       \/ memory'.out = "ok" /\ res.ok /\ pc' = next
       \/ memory'.out = "ok" /\ ~res.ok /\ pc' = failure
  BY <1>1, <1>8, <1>10
<1>13. memory'.out = "ok" => memory'.avail \subseteq Frame
  BY <1>1, <1>8 DEF Become
<1>14. ExecBase'
  <2>1. memory' \in Memory /\ memory'.out \in {"ok", "hang"}
    BY <1>1, <1>8
  <2>2. 0 \notin Frame
    BY DEF Frame
  <2>3. live' = {Old, New} /\ mm' = Old /\ regs' = << >>
    BY <1>1, <1>2, <1>3, <1>4 DEF ExecBase
  <2>4. cr3' = root'[mm'] /\ root' \in [Mm -> 0..FRAMES] /\ frames' \in Frame
        /\ buffer' \in 0..FRAMES /\ file' \in Programs /\ header' \in 0..file'.phnum
    BY <1>1, <1>2, <1>3 DEF ExecBase
  <2>5. pc' \in {"args", "undo", "copy", "segment_fails", "hang"}
    BY <1>12
  <2>6. pc' = "copy" => header' # file'.phnum /\ buffer' # 0
    BY <1>2, <1>3, <1>12 DEF ExecBase
  <2>7. buffer' # 0 => pc' \in {"copy", "segment_fails", "hang"}
    BY <1>2, <1>3, <1>12 DEF ExecBase
  <2>8. 0 \in memory'.avail => pc' = "hang"
    BY <1>12, <1>13, <2>2
  <2> QED BY <1>11, <2>1, <2>3, <2>4, <2>5, <2>6, <2>7, <2>8 DEF ExecBase, Building
<1>15. ASSUME Up'
       PROVE  \E V : /\ Placed(memory', root', live', buffer', frames', V)
                     /\ pc' \in Building => Serves(V[New], ToSet(vmas'[New]))
  <2>1. memory'.out = "ok"
    BY <1>12, <1>15 DEF Up
  <2>2. PICK w : /\ Become(memory, u, memory', w, root[New]) /\ Low(w)
                 /\ res.ok => Serves(w, ToSet(res.vmas))
    BY <1>1, <1>8, <2>1
  <2> DEFINE V == With(U, live, New, w)
  <2>3. Placed(memory', root, live, buffer, frames, V)
    BY <1>4, <1>5, <2>2, PlacedExchange DEF u
  <2>4. V[New] = w
    BY <1>4 DEF With
  <2>5. pc' \in Building => res.ok
    BY <1>12, <2>1 DEF Building
  <2> HIDE DEF V
  <2> QED BY <1>1, <1>3, <1>9, <2>2, <2>3, <2>4, <2>5
<1> QED BY <1>14, <1>15 DEF ExecInv

\* What a table of the highest level covers.
LEMMA SpaceIs == SPACE \in Nat /\ END < SPACE
<1> DEFINE z == Size(LEVELS)
           K == FAN \div 2
<1>1. LEVELS \in 1..LEVELS + 1 /\ FAN \in Nat /\ FAN >= 2 /\ z \in Nat /\ z >= 1
  BY Sizes
<1>2. K \in Nat /\ K < FAN
  BY <1>1
<1>3. END = z * K /\ SPACE = z * FAN
  BY DEF END, SPACE
<1> HIDE DEF z, K
<1>4. z * K \in Nat /\ z * FAN \in Nat
  BY <1>1, <1>2
<1>5. z * K + z <= z * FAN
  BY <1>1, <1>2, MultiplesApart
<1> QED BY <1>1, <1>3, <1>4, <1>5

\* mmap of any range, as exec calls it.
LEMMA MapPagesHolds ==
  ASSUME ExecInv, pc \in {"stack", "map"}, NEW from \in Nat, NEW to \in Nat,
         NEW perm \in Perm, NEW next, NEW failure,
         \/ pc = "stack" /\ next = "args" /\ failure = "undo"
         \/ pc = "map" /\ next = "copy" /\ failure = "segment_fails",
         MapPages(from, to, perm, next, failure)
  PROVE  ExecInv'
<1> DEFINE a == from % SPACE
           b == to % SPACE
<1>1. a \in Nat /\ b \in Nat
  BY SpaceIs, Half, InRegion
<1>2. \/ \E x \in {next, failure, "kernel"} : Goto(x)
      \/ /\ a < b /\ b <= END
         /\ Mmap(New, a, b, perm)
         /\ pc' = IF memory'.out = "hang" THEN "hang" ELSE IF vmas' # vmas THEN next ELSE failure
         /\ UNCHANGED callVars
  BY DEF MapPages
<1> HIDE DEF a, b
<1>3. ASSUME NEW x \in {next, failure, "kernel"}, Goto(x) PROVE ExecInv'
  <2>1. ExecBase
    BY DEF ExecInv
  <2> QED BY <1>3, <2>1, GoesHolds DEF ExecBase, Building
<1>4. ASSUME a < b, b <= END, Mmap(New, a, b, perm), UNCHANGED callVars,
             pc' = IF memory'.out = "hang" THEN "hang" ELSE IF vmas' # vmas THEN next ELSE failure
      PROVE  ExecInv'
  BY <1>1, <1>4, MmapStep
<1> QED BY <1>2, <1>3, <1>4

-----------------------------------------------------------------------------
(* exec: the steps up to the last release, and those that fail.            *)

\* Steps of exec that leave the address spaces and the buffer alone.
LEMMA QuietHolds ==
  ASSUME ExecInv, Open \/ CopyArgs \/ Load \/ Loaded \/ CopySegment \/ Switch \/ Ended
  PROVE  ExecInv'
<1>1. ExecBase
  BY DEF ExecInv
<1>2. CASE Open
  <2>1. PICK next \in {"create", "failed"} : Goto(next)
    BY <1>2 DEF Open
  <2>2. pc = "open"
    BY <1>2 DEF Open
  <2> QED BY <1>1, <2>1, <2>2, GoesHolds DEF ExecBase, Building
<1>3. CASE CopyArgs
  <2>1. pc = "args"
    BY <1>3 DEF CopyArgs
  <2>2. CASE Goto("undo")
    BY <1>1, <2>1, <2>2, GoesHolds DEF ExecBase, Building
  <2>3. CASE pc' = "load" /\ UNCHANGED <<memory, live, root, vmas, call, progress, thread>>
    <3>1. ExecBase'
      BY <1>1, <2>1, <2>3 DEF ExecBase, Building, call, progress, thread
    <3> QED BY <2>1, <2>3, <3>1, ExecStays DEF Building, call, progress
  <2> QED BY <1>3, <2>2, <2>3 DEF CopyArgs
<1>4. CASE Load
  <2>1. pc = "load" /\ header # file.phnum
    BY <1>4 DEF Load
  <2>2. ASSUME NEW next \in {"undo", "buffer"}, Goto(next) PROVE ExecInv'
    BY <1>1, <2>1, <2>2, GoesHolds DEF ExecBase, Building
  <2>3. CASE header' = header + 1 /\ UNCHANGED <<memoryVars, pc, call, buffer, done, ctx, thread>>
    <3>1. file \in Programs /\ file.phnum \in Nat
      BY <1>1, ProgramsAssumption DEF ExecBase
    <3>2. header' \in 0..file.phnum
      BY <1>1, <2>1, <2>3, <3>1 DEF ExecBase
    <3>3. ExecBase'
      BY <1>1, <2>1, <2>3, <3>2 DEF ExecBase, Building, call, thread, memoryVars
    <3> QED BY <2>1, <2>3, <3>3, ExecStays DEF Building, call, memoryVars
  <2> QED BY <1>4, <2>2, <2>3 DEF Load
<1>5. CASE Loaded
  <2>1. pc = "load" /\ Goto("switch")
    BY <1>5 DEF Loaded
  <2> QED BY <1>1, <2>1, GoesHolds DEF ExecBase, Building
<1>6. CASE CopySegment
  <2>1. pc = "copy"
    BY <1>6 DEF CopySegment
  <2>2. ASSUME NEW next \in {"segment_fails", "kernel"}, Goto(next) PROVE ExecInv'
    BY <1>1, <2>1, <2>2, GoesHolds DEF ExecBase, Building
  <2>3. CASE UNCHANGED <<memory, live, root, vmas, pc, call, header, buffer, ctx, thread>>
    <3>1. ExecBase'
      BY <1>1, <2>1, <2>3 DEF ExecBase, Building, call, thread
    <3> QED BY <2>1, <2>3, <3>1, ExecStays DEF Building, call
  <2> QED BY <1>6, <2>2, <2>3 DEF CopySegment, Stops
<1>7. CASE Switch
  <2>1. /\ pc = "switch" /\ pc' = "release" /\ mm' = New /\ cr3' = root[New]
        /\ UNCHANGED <<memory, live, root, vmas>>
        /\ frames' = frames /\ file' = file /\ header' = header /\ buffer' = buffer /\ regs' = regs
    BY <1>7 DEF Switch, memoryVars, call, progress
  <2>2. ExecBase'
    BY <1>1, <2>1 DEF ExecBase, Building
  <2> QED BY <2>1, <2>2, ExecStays DEF Building
<1>8. CASE Ended
  <2>1. /\ pc' = pc /\ memory' = memory /\ live' = live /\ root' = root /\ vmas' = vmas
        /\ frames' = frames /\ file' = file /\ header' = header /\ buffer' = buffer
        /\ mm' = mm /\ cr3' = cr3 /\ regs' = regs
    BY <1>8 DEF Ended, execVars, memoryVars, callVars, call, progress, thread
  <2>2. ExecBase'
    BY <1>1, <2>1 DEF ExecBase
  <2> QED BY <2>1, <2>2, ExecStays
<1> QED BY <1>2, <1>3, <1>4, <1>5, <1>6, <1>7, <1>8

\* mm_create makes the new address space, or fails.
LEMMA CreateNewHolds ==
  ASSUME ExecInv, CreateNew
  PROVE  ExecInv'
<1>1. ExecBase /\ pc = "create"
  BY DEF ExecInv, CreateNew
<1>2. CASE Goto("failed")
  BY <1>1, <1>2, GoesHolds DEF ExecBase, Building
<1>3. CASE Create(New) /\ pc' = "stack" /\ UNCHANGED callVars
  <2> DEFINE f == Block(memory, 1)
  <2>1. /\ Up /\ Blocks(memory, 1) # {}
        /\ memory' = Rooted(memory, f) /\ root' = [root EXCEPT ![New] = f]
        /\ live' = live \cup {New} /\ vmas' = [vmas EXCEPT ![New] = << >>]
    BY <1>3 DEF Create, Rooted
  <2>2. /\ file' = file /\ frames' = frames /\ header' = header /\ buffer' = buffer
        /\ mm' = mm /\ cr3' = cr3 /\ regs' = regs
    BY <1>3 DEF callVars, call, progress, thread
  <2>3. /\ memory \in Memory /\ live = {Old} /\ Old \in Mm /\ New \in Mm /\ Old # New
        /\ memory.avail \subseteq Frame
    BY <1>1, SpacesAssumption DEF ExecBase, Memory, Frame
  <2>4. f \in memory.avail /\ f \in Nat /\ f \in Frame
    BY <2>1, <2>3, BlockIs
  <2> HIDE DEF f
  <2>5. PICK U : Placed(memory, root, live, buffer, frames, U)
    BY <2>1 DEF ExecInv
  <2>6. root' \in [Mm -> 0..FRAMES] /\ root'[New] = f /\ root'[Old] = root[Old]
    <3>1. f \in 0..FRAMES
      BY <2>4, Sizes DEF Frame
    <3> QED BY <1>1, <2>1, <2>3, <3>1 DEF ExecBase
  <2>7. vmas' \in [Mm -> Seq(Area)] /\ vmas'[New] = << >>
    BY <1>1, <2>1, <2>3, EmptySorted DEF ExecBase
  <2> DEFINE V == With(U, live, New, RootTree(f))
  <2>8. Placed(memory', root', live \cup {New}, buffer, frames, V)
        /\ memory'.avail \subseteq Frame /\ Serves(V[New], {})
    <3>1. New \notin live /\ \A y \in live : root'[y] = root[y]
      BY <2>3, <2>6
    <3> DEFINE k == memory'
               new == root'
    <3>2. /\ f \in memory.avail /\ f \in Nat /\ k = Rooted(memory, f)
          /\ new[New] = f /\ \A y \in live : new[y] = root[y]
      BY <2>1, <2>4, <2>6, <3>1 DEF f
    <3> HIDE DEF k, new
    <3>3. /\ Placed(k, new, live \cup {New}, buffer, frames, With(U, live, New, RootTree(f)))
          /\ k.avail \subseteq Frame /\ Serves(With(U, live, New, RootTree(f))[New], {})
      BY <2>3, <2>5, <3>1, <3>2, PlacedCreate
    <3> QED BY <3>3 DEF k, new
  <2> HIDE DEF V
  <2>9. memory' \in Memory /\ memory'.out = "ok"
    BY <2>8 DEF Placed
  <2>10. ExecBase'
    <3>1. 0 \notin memory'.avail
      BY <2>8 DEF Frame
    <3>2. live' = {Old, New} /\ mm' = Old /\ cr3' = root'[mm']
      BY <1>1, <2>1, <2>2, <2>3, <2>6 DEF ExecBase
    <3>3. frames' \in Frame /\ file' \in Programs /\ header' \in 0..file'.phnum /\ regs' = << >>
          /\ buffer' = 0 /\ buffer' \in 0..FRAMES
      BY <1>1, <2>2 DEF ExecBase
    <3>4. Sorted(vmas'[New])
      BY <2>7, EmptySorted
    <3> QED BY <1>3, <2>6, <2>7, <2>9, <3>1, <3>2, <3>3, <3>4 DEF ExecBase, Building
  <2>11. Serves(V[New], ToSet(vmas'[New]))
    BY <2>7, <2>8, EmptySorted
  <2>12. Placed(memory', root', live', buffer', frames', V)
    BY <2>1, <2>2, <2>8
  <2> QED BY <2>10, <2>11, <2>12 DEF ExecInv
<1> QED BY <1>2, <1>3 DEF CreateNew

\* A page for segment_map.
LEMMA BufferHolds ==
  ASSUME ExecInv, Buffer
  PROVE  ExecInv'
<1>1. ExecBase /\ pc = "buffer"
  BY DEF ExecInv, Buffer
<1>2. CASE Goto("segment_fails")
  BY <1>1, <1>2, GoesHolds DEF ExecBase, Building
<1>3. CASE memory.avail # {} /\ ~Goto("segment_fails")
  <2>1. /\ buffer' = Block(memory, 1) /\ memory' = Grab(memory, buffer', 1) /\ pc' = "map"
        /\ UNCHANGED <<data, live, root, vmas, call, header, done, ctx, thread>>
    BY <1>3 DEF Buffer
  <2>2. /\ live' = live /\ root' = root /\ vmas' = vmas /\ header' = header
        /\ file' = file /\ frames' = frames /\ mm' = mm /\ cr3' = cr3 /\ regs' = regs
    BY <2>1 DEF call, thread
  <2>3. memory \in Memory /\ buffer = 0 /\ 0 \notin memory.avail
        /\ memory.avail \subseteq 0..FRAMES /\ FRAMES \in Nat
    BY <1>1, Sizes DEF ExecBase, Memory
  <2>4. Blocks(memory, 1) # {}
    <3>1. PICK f \in memory.avail : f \in Nat
      BY <1>3, <2>3
    <3>2. Run(f, 1) = {f} /\ f % 1 = 0
      <4>1. f + 1 - 1 = f
        BY <3>1
      <4> QED BY <3>1, <4>1 DEF Run
    <3> QED BY <3>1, <3>2 DEF Blocks
  <2>5. buffer' \in memory.avail /\ buffer' \in Nat /\ buffer' # 0 /\ buffer' \in 0..FRAMES
    BY <2>1, <2>3, <2>4, BlockIs
  <2>6. memory' \in Memory /\ memory'.out = memory.out /\ memory'.avail \subseteq memory.avail
    BY <2>1, <2>3 DEF Grab, Memory
  <2>7. ExecBase'
    BY <1>1, <2>1, <2>2, <2>3, <2>5, <2>6 DEF ExecBase, Building
  <2>8. ASSUME Up'
        PROVE  \E U : /\ Placed(memory', root', live', buffer', frames', U)
                      /\ pc' \in Building => Serves(U[New], ToSet(vmas'[New]))
    <3>1. PICK U : /\ Placed(memory, root, live, 0, frames, U)
                   /\ Serves(U[New], ToSet(vmas[New]))
      BY <1>1, <2>3, <2>6, <2>8 DEF ExecInv, Up, Building
    <3>2. Placed(memory', root, live, buffer', frames, U)
      BY <2>1, <2>5, <3>1, PlacedBuffer
    <3> QED BY <2>2, <3>1, <3>2
  <2> QED BY <2>7, <2>8 DEF ExecInv
<1> QED BY <1>2, <1>3 DEF Buffer

\* The page of segment_map is given back, when the segment is there and when it failed.
LEMMA FreeBufferHolds ==
  ASSUME ExecInv, SegmentFails \/ FillSegment
  PROVE  ExecInv'
<1>1. ExecBase
  BY DEF ExecInv
<1>2. ASSUME NEW next \in {"segment_fails", "kernel"}, Goto(next), pc = "copy" PROVE ExecInv'
  BY <1>1, <1>2, GoesHolds DEF ExecBase, Building
<1>3. CASE /\ FreeBuffer /\ pc' \in {"undo", "load"} /\ pc \in {"segment_fails", "copy"}
           /\ pc' = "load" => pc = "copy" /\ header' = header + 1
           /\ pc' = "undo" => pc = "segment_fails" /\ header' = header
           /\ live' = live /\ root' = root /\ vmas' = vmas
           /\ call' = call /\ thread' = thread
  <2>1. memory' = GiveBack(memory, buffer, 1) /\ buffer' = 0
    BY <1>3 DEF FreeBuffer
  <2>2. file' = file /\ frames' = frames /\ mm' = mm /\ cr3' = cr3 /\ regs' = regs
    BY <1>3 DEF call, thread
  <2>3. memory \in Memory /\ FRAMES \in Nat /\ buffer \in 0..FRAMES /\ 0 \notin memory.avail
    BY <1>1, <1>3, Sizes DEF ExecBase
  <2>4. Run(buffer, 1) = {buffer}
    <3>1. buffer + 1 - 1 = buffer
      BY <2>3
    <3> QED BY <2>3, <3>1 DEF Run
  <2>5. memory' \in Memory /\ memory'.out = memory.out
        /\ memory'.avail = memory.avail \cup {buffer}
    BY <2>1, <2>3, <2>4 DEF GiveBack, Memory
  <2>6. 0 \in memory'.avail => pc' = "undo"
    BY <1>1, <1>3, <2>3, <2>5 DEF ExecBase
  <2>7. header' \in 0..file.phnum
    <3>1. file.phnum \in Nat /\ header \in 0..file.phnum /\ (pc = "copy" => header # file.phnum)
      BY <1>1, ProgramsAssumption DEF ExecBase
    <3> QED BY <1>3, <3>1
  <2>8. ExecBase'
    BY <1>1, <1>3, <2>1, <2>2, <2>3, <2>5, <2>6, <2>7 DEF ExecBase, Building
  <2>9. ASSUME Up'
        PROVE  \E U : /\ Placed(memory', root', live', buffer', frames', U)
                      /\ pc' \in Building => Serves(U[New], ToSet(vmas'[New]))
    <3>1. PICK U : /\ Placed(memory, root, live, buffer, frames, U)
                   /\ pc \in Building => Serves(U[New], ToSet(vmas[New]))
      BY <2>5, <2>9 DEF ExecInv, Up
    <3>2. Placed(memory', root, live, 0, frames, U)
      BY <2>1, <2>3, <3>1, PlacedFree
    <3>3. pc' \in Building => pc \in Building
      BY <1>3 DEF Building
    <3> QED BY <1>3, <2>1, <2>2, <3>1, <3>2, <3>3
  <2> QED BY <2>8, <2>9 DEF ExecInv
<1>4. CASE SegmentFails
  <2>1. /\ FreeBuffer /\ pc' = "undo" /\ pc = "segment_fails" /\ header' = header
        /\ live' = live /\ root' = root /\ vmas' = vmas /\ call' = call /\ thread' = thread
    BY <1>4 DEF SegmentFails
  <2> QED BY <1>3, <2>1
<1>5. CASE FillSegment
  <2>1. \/ \E next \in {"segment_fails", "kernel"} : Goto(next)
        \/ /\ FreeBuffer /\ pc' = "load" /\ header' = header + 1
           /\ live' = live /\ root' = root /\ vmas' = vmas /\ call' = call /\ thread' = thread
    BY <1>5 DEF FillSegment, Stops
  <2>2. pc = "copy"
    BY <1>5 DEF FillSegment
  <2> QED BY <1>2, <1>3, <2>1, <2>2
<1> QED BY <1>4, <1>5

-----------------------------------------------------------------------------
(* exec: mm_release, and the stack and the segments.                       *)

\* setup_stack and segment_map map whole pages.
LEMMA StackHolds ==
  ASSUME ExecInv, Stack
  PROVE  ExecInv'
<1>1. END \in Nat /\ END - STACK \in Nat
  BY Half, SizeAssumption
<1>2. {"read", "write"} \in Perm
  <2>1. {"write"} \in SUBSET {"write", "execute"} /\ {"read"} \cup {"write"} = {"read", "write"}
    OBVIOUS
  <2> QED BY <2>1, PermissionAssumption
<1>3. pc = "stack" /\ MapPages(END - STACK, END, {"read", "write"}, "args", "undo")
  BY DEF Stack
<1> QED BY <1>1, <1>2, <1>3, MapPagesHolds

\* The segment exec is at.
LEMMA SegmentIs ==
  ASSUME ExecBase, header # file.phnum
  PROVE  /\ Segment \in Segments
         /\ Segment.vaddr \in Nat /\ Segment.memsz \in Nat /\ Segment.filesz \in Nat
<1>1. file \in Programs /\ header \in 0..file.phnum - 1
  BY ProgramsAssumption DEF ExecBase
<1>2. {Segment.vaddr, Segment.memsz, Segment.filesz} \subseteq Number
  BY <1>1, ProgramsAssumption DEF Segment, HeaderAt
<1>3. Number \subseteq Nat
  BY DEF Number
<1>4. Segment \in Segments
  BY <1>1 DEF Segments, Segment, HeaderAt
<1> QED BY <1>2, <1>3, <1>4

\* The pages a segment touches are mapped, from the first to the last.
LEMMA MapSegmentHolds ==
  ASSUME ExecInv, MapSegment
  PROVE  ExecInv'
<1> DEFINE v == Segment.vaddr
           x == Segment.vaddr + Segment.memsz + PAGE_SIZE - 1
           flags == Segment.flags \cap {"write", "execute"}
<1>1. PAGE_SIZE \in Nat /\ PAGE_SIZE >= 1 /\ WORD \in Nat /\ WORD >= 1
  BY SizeAssumption, WordAssumption
<1>2. pc = "map"
      /\ MapPages(v \div PAGE_SIZE, SegmentEnd(Segment), {"read"} \cup flags, "copy", "segment_fails")
  BY DEF MapSegment, segment_flags
<1>3. v \in Nat /\ x \in Nat
  <2>1. ExecBase /\ header # file.phnum
    BY <1>2 DEF ExecInv, ExecBase
  <2> QED BY <1>1, <2>1, SegmentIs
<1>4. {"read"} \cup flags \in Perm
  <2>1. flags \in SUBSET {"write", "execute"}
    OBVIOUS
  <2> HIDE DEF flags
  <2> QED BY <2>1, PermissionAssumption
<1>5. SegmentEnd(Segment) = (x \div PAGE_SIZE) % WORD
  BY DEF SegmentEnd
<1> HIDE DEF v, x, flags
<1>6. v \div PAGE_SIZE \in Nat /\ x \div PAGE_SIZE \in Nat
  BY <1>1, <1>3, InRegion
<1>7. SegmentEnd(Segment) \in Nat
  BY <1>1, <1>5, <1>6, InRegion
<1> QED BY <1>2, <1>4, <1>6, <1>7, MapPagesHolds

\* mm_release of one of the two address spaces.
LEMMA ReleaseStep ==
  ASSUME ExecInv, live = {Old, New}, NEW x \in {Old, New}, ReleaseMm(x), buffer = 0
  PROVE  /\ memory' \in Memory /\ memory'.out = "ok" /\ live' = {Old, New} \ {x}
         /\ root' \in [Mm -> 0..FRAMES] /\ vmas' \in [Mm -> Seq(Area)] /\ Sorted(vmas'[New])
         /\ \A y \in live' : root'[y] = root[y]
         /\ 0 \notin memory.avail => 0 \notin memory'.avail
         /\ \E U : Placed(memory', root', live', 0, frames, U)
<1>1. ExecBase /\ Up /\ Old \in Mm /\ New \in Mm
  BY SpacesAssumption DEF ExecInv, ReleaseMm
<1>2. /\ memory' = Clean(GiveBack(pt_unmap(memory, root[x], 0, END), root[x], 1))
      /\ live' = {Old, New} \ {x} /\ root' = [root EXCEPT ![x] = 0]
      /\ vmas' = [vmas EXCEPT ![x] = << >>]
  BY DEF ReleaseMm
<1>3. PICK U : Placed(memory, root, live, 0, frames, U)
  BY <1>1 DEF ExecInv
<1>4. root' \in [Mm -> 0..FRAMES] /\ \A y \in {Old, New} : y # x => root'[y] = root[y]
  BY <1>1, <1>2, Sizes DEF ExecBase
<1>5. vmas' \in [Mm -> Seq(Area)] /\ Sorted(vmas'[New])
  BY <1>1, <1>2, EmptySorted DEF ExecBase
<1>6. /\ Placed(memory', root', live \ {x}, 0, frames, U)
      /\ memory'.avail = memory.avail \cup DOMAIN U[x] /\ DOMAIN U[x] \subseteq Frame
  <2> DEFINE k == memory'
             new == root'
             m == memory
             rt == root
             lv == live
  <2>1. /\ x \in lv /\ Placed(m, rt, lv, 0, frames, U)
        /\ k = Clean(GiveBack(pt_unmap(m, rt[x], 0, END), rt[x], 1))
        /\ \A y \in lv : y # x => new[y] = rt[y]
    BY <1>2, <1>3, <1>4
  <2> HIDE DEF k, new, m, rt, lv
  <2>2. Placed(k, new, lv \ {x}, 0, frames, U)
    BY <2>1, PlacedRelease
  <2>3. k.avail = m.avail \cup DOMAIN U[x] /\ DOMAIN U[x] \subseteq Frame
    <3>1. PICK u : u = U[x]
      OBVIOUS
    <3>2. m \in Memory /\ Tree(m.table, rt[x], u) /\ Low(u)
      BY <2>1, <3>1 DEF Placed
    <3>3. k.avail = m.avail \cup DOMAIN u /\ DOMAIN u \subseteq Frame
      BY <2>1, <3>2, ReleaseIs, TreeFrames
    <3> QED BY <3>1, <3>3
  <2> QED BY <2>2, <2>3 DEF k, new, m, rt, lv
<1>7. memory' \in Memory /\ memory'.out = "ok"
  BY <1>6 DEF Placed
<1>8. 0 \notin memory.avail => 0 \notin memory'.avail
  BY <1>6 DEF Frame
<1> QED BY <1>2, <1>4, <1>5, <1>6, <1>7, <1>8

\* The end of exec, when it failed and when it succeeded.
LEMMA ReleasesHold ==
  ASSUME ExecInv, Undo \/ ReleaseOld
  PROVE  ExecInv'
<1>1. ExecBase
  BY DEF ExecInv
<1>2. Old # New
  BY SpacesAssumption
<1>3. CASE Undo
  <2>1. /\ pc = "undo" /\ pc' = "failed" /\ ReleaseMm(New)
        /\ file' = file /\ frames' = frames /\ header' = header /\ buffer' = buffer
        /\ mm' = mm /\ cr3' = cr3 /\ regs' = regs
    BY <1>3 DEF Undo, ReleaseNew, callVars, call, progress, thread
  <2>2. live = {Old, New} /\ buffer = 0 /\ mm = Old /\ cr3 = root[Old] /\ regs = << >>
    BY <1>1, <2>1 DEF ExecBase
  <2>3. /\ memory' \in Memory /\ memory'.out = "ok" /\ live' = {Old}
        /\ root' \in [Mm -> 0..FRAMES] /\ vmas' \in [Mm -> Seq(Area)] /\ Sorted(vmas'[New])
        /\ root'[Old] = root[Old]
        /\ \E U : Placed(memory', root', live', 0, frames, U)
    BY <1>2, <2>1, <2>2, ReleaseStep
  <2>4. ExecBase'
    BY <1>1, <2>1, <2>2, <2>3 DEF ExecBase, Building
  <2>5. pc' \notin Building
    BY <2>1 DEF Building
  <2> QED BY <2>1, <2>2, <2>3, <2>4, <2>5 DEF ExecInv
<1>4. CASE ReleaseOld
  <2>1. /\ pc = "release" /\ pc' = "done" /\ ReleaseMm(Old)
        /\ regs' = [rip |-> file.entry, rsp |-> ctx.rsp, rdi |-> ctx.rdi, rsi |-> ctx.rsi]
        /\ file' = file /\ frames' = frames /\ header' = header /\ buffer' = buffer
        /\ mm' = mm /\ cr3' = cr3
    BY <1>4 DEF ReleaseOld, call, progress
  <2>2. live = {Old, New} /\ buffer = 0 /\ mm = New /\ cr3 = root[New] /\ 0 \notin memory.avail
    BY <1>1, <2>1 DEF ExecBase
  <2>3. /\ memory' \in Memory /\ memory'.out = "ok" /\ live' = {New}
        /\ root' \in [Mm -> 0..FRAMES] /\ vmas' \in [Mm -> Seq(Area)] /\ Sorted(vmas'[New])
        /\ root'[New] = root[New] /\ 0 \notin memory'.avail
        /\ \E U : Placed(memory', root', live', 0, frames, U)
    BY <1>2, <2>1, <2>2, ReleaseStep
  <2>4. regs' # << >>
    <3>1. DOMAIN regs' = {"rip", "rsp", "rdi", "rsi"} /\ DOMAIN << >> = {}
      BY <2>1
    <3> QED BY <3>1
  <2>5. ExecBase'
    BY <1>1, <2>1, <2>2, <2>3, <2>4 DEF ExecBase, Building
  <2>6. pc' \notin Building
    BY <2>1 DEF Building
  <2> QED BY <2>1, <2>2, <2>3, <2>5, <2>6 DEF ExecInv
<1> QED BY <1>3, <1>4

\* Every call exec makes keeps the invariant, whether it succeeds or fails.
LEMMA ExecNextHolds == ExecInv /\ [ExecNext]_execVars => ExecInv'
<1>1. SUFFICES ASSUME ExecInv, [ExecNext]_execVars PROVE ExecInv'
  OBVIOUS
<1>2. CASE Open \/ CopyArgs \/ Load \/ Loaded \/ CopySegment \/ Switch \/ Ended
  BY <1>1, <1>2, QuietHolds
<1>3. CASE CreateNew
  BY <1>1, <1>3, CreateNewHolds
<1>4. CASE Stack
  BY <1>1, <1>4, StackHolds
<1>5. CASE Buffer
  BY <1>1, <1>5, BufferHolds
<1>6. CASE MapSegment
  BY <1>1, <1>6, MapSegmentHolds
<1>7. CASE SegmentFails \/ FillSegment
  BY <1>1, <1>7, FreeBufferHolds
<1>8. CASE Undo \/ ReleaseOld
  BY <1>1, <1>8, ReleasesHold
<1>9. CASE UNCHANGED execVars
  <2>1. /\ pc' = pc /\ memory' = memory /\ live' = live /\ root' = root /\ vmas' = vmas
        /\ frames' = frames /\ file' = file /\ header' = header /\ buffer' = buffer
        /\ mm' = mm /\ cr3' = cr3 /\ regs' = regs
    BY <1>9 DEF execVars, memoryVars, callVars, call, progress, thread
  <2>2. ExecBase
    BY <1>1 DEF ExecInv
  <2>3. ExecBase'
    BY <2>1, <2>2 DEF ExecBase
  <2> QED BY <1>1, <2>1, <2>3, ExecStays
<1> QED BY <1>1, <1>2, <1>3, <1>4, <1>5, <1>6, <1>7, <1>8, <1>9 DEF ExecNext

-----------------------------------------------------------------------------
(* exec: what gets above user space.                                       *)

\* Only with a segment that is not inside user space, or is longer in the file than in
\* memory, does exec get to the kernel's half.
KernelInv ==
  /\ done \in Nat
  /\ pc \in {"buffer", "map", "copy"} => Segment.load
  /\ pc = "kernel" => \E s \in Segments : s.load /\ ~Loadable(s)

\* At first exec is at no segment.
LEMMA KernelInitHolds == ExecInit => KernelInv
BY DEF ExecInit, KernelInv

\* A remainder is at most the number.
LEMMA RemainderAtMost ==
  ASSUME NEW v \in Nat, NEW a \in Nat, a >= 1
  PROVE  v % a \in Nat /\ v % a <= v
<1>1. /\ v \div a \in Nat /\ v % a \in 0..a - 1 /\ v = (v \div a) * a + (v % a)
  BY InRegion
<1>2. (v \div a) * a \in Nat
  BY <1>1
<1> DEFINE q == (v \div a) * a
<1> HIDE DEF q
<1>3. v = q + (v % a) /\ q \in Nat
  BY <1>1, <1>2 DEF q
<1> QED BY <1>1, <1>3

\* The page of a byte below the end of p pages, and a byte more.
LEMMA PagesBelow ==
  ASSUME NEW v \in Nat, NEW p \in Nat, v < p * PAGE_SIZE
  PROVE  v \div PAGE_SIZE \in Nat /\ v \div PAGE_SIZE < p
<1>1. PAGE_SIZE \in Nat \ {0} /\ PAGE_SIZE >= 1
  BY SizeAssumption
<1> DEFINE k == v \div PAGE_SIZE
<1>2. k \in Nat /\ k * PAGE_SIZE <= v
  BY <1>1, InRegion
<1> HIDE DEF k
<1>3. SUFFICES ASSUME p <= k PROVE FALSE
  BY <1>2 DEF k
<1>4. PAGE_SIZE * p <= PAGE_SIZE * k
  <2>1. CASE p = k
    <3>1. PAGE_SIZE * p \in Nat
      BY <1>1
    <3> QED BY <2>1, <3>1
  <2>2. CASE p < k
    <3>1. PAGE_SIZE * p + PAGE_SIZE <= PAGE_SIZE * k /\ PAGE_SIZE * p \in Nat
          /\ PAGE_SIZE * k \in Nat
      BY <1>1, <1>2, <2>2, MultiplesApart, MultiplesAligned
    <3> QED BY <1>1, <3>1
  <2> QED BY <1>2, <1>3, <2>1, <2>2
<1>5. PAGE_SIZE * p = p * PAGE_SIZE /\ PAGE_SIZE * k = k * PAGE_SIZE
      /\ p * PAGE_SIZE \in Nat /\ k * PAGE_SIZE \in Nat
  BY <1>1, <1>2
<1> QED BY <1>2, <1>4, <1>5

\* Below the stack's end is user space.
LEMMA BelowIsUser ==
  ASSUME NEW a \in Nat, a < StackEnd
  PROVE  InUserSpace(a)
<1> DEFINE k == a \div PAGE_SIZE
<1>1. END \in Nat /\ SPACE \in Nat /\ SPACE >= 1
  BY Half, SpaceIs
<1>2. k \in Nat /\ k < END
  BY <1>1, PagesBelow DEF StackEnd
<1> HIDE DEF k
<1>3. k % SPACE \in Nat /\ k % SPACE <= k
  BY <1>1, <1>2, RemainderAtMost
<1>4. (a \div PAGE_SIZE) % SPACE < END
  BY <1>1, <1>2, <1>3 DEF k
<1> QED BY <1>4 DEF InUserSpace

\* So no range that ends there reaches the kernel's half.
LEMMA BelowStays ==
  ASSUME NEW a \in Nat, NEW n \in Nat, a + n <= StackEnd
  PROVE  ~ReachesKernel(a, n)
<1>1. StackEnd \in Nat
  BY Half, SizeAssumption DEF StackEnd
<1>2. ASSUME NEW x \in a..a + n - 1 PROVE InUserSpace(x)
  <2>1. x \in Nat /\ x < StackEnd
    BY <1>1
  <2> QED BY <2>1, BelowIsUser
<1> QED BY <1>2 DEF ReachesKernel

\* The pages of a segment inside user space end there.
LEMMA LoadableEnds ==
  ASSUME NEW s, s.vaddr \in Nat, s.memsz \in Nat, Loadable(s)
  PROVE  SegmentEnd(s) % SPACE <= END
<1> DEFINE v == s.vaddr + s.memsz
           x == s.vaddr + s.memsz + PAGE_SIZE - 1
           q == x \div PAGE_SIZE
<1>1. PAGE_SIZE \in Nat /\ PAGE_SIZE >= 1 /\ WORD \in Nat /\ WORD >= 1
      /\ END \in Nat /\ SPACE \in Nat /\ SPACE >= 1
  BY SizeAssumption, WordAssumption, Half, SpaceIs
<1>2. v \in Nat /\ v <= END * PAGE_SIZE /\ x = v + PAGE_SIZE - 1 /\ x \in Nat
  BY <1>1 DEF Loadable, StackEnd
<1>3. SegmentEnd(s) = q % WORD
  BY DEF SegmentEnd
<1> HIDE DEF v, x
<1>4. x < (END + 1) * PAGE_SIZE
  <2> DEFINE c == END * PAGE_SIZE
  <2>1. c \in Nat /\ (END + 1) * PAGE_SIZE = c + PAGE_SIZE /\ v <= c
    BY <1>1, <1>2
  <2> HIDE DEF c
  <2> QED BY <1>1, <1>2, <2>1
<1>5. q \in Nat /\ q <= END
  <2>1. END + 1 \in Nat
    BY <1>1
  <2>2. q \in Nat /\ q < END + 1
    BY <1>2, <1>4, <2>1, PagesBelow
  <2> QED BY <1>1, <2>2
<1> HIDE DEF q
<1>6. q % WORD \in Nat /\ q % WORD <= q
  BY <1>1, <1>5, RemainderAtMost
<1> DEFINE r == q % WORD
<1> HIDE DEF r
<1>7. r \in Nat /\ r <= END
  BY <1>1, <1>5, <1>6 DEF r
<1>8. r % SPACE \in Nat /\ r % SPACE <= r
  BY <1>1, <1>7, RemainderAtMost
<1>9. r % SPACE <= END
  BY <1>1, <1>7, <1>8
<1> QED BY <1>3, <1>9 DEF r

\* The mmap of a segment reaches the kernel's half.
LEMMA MapReaches ==
  ASSUME ExecInv, MapSegment, pc' = "kernel"
  PROVE  ~Loadable(Segment)
<1>1. ExecBase /\ pc = "map" /\ header # file.phnum
  BY DEF ExecInv, ExecBase, MapSegment
<1> DEFINE to == SegmentEnd(Segment)
<1>2. to % SPACE > END
  <2>1. pc' # "copy" /\ pc' # "segment_fails" /\ pc' # "hang"
    OBVIOUS
  <2> HIDE DEF to
  <2> QED BY <2>1 DEF MapSegment, MapPages, Goto, to
<1>3. Loadable(Segment) => to % SPACE <= END
  BY <1>1, SegmentIs, LoadableEnds
<1>4. to % SPACE \in Int
  <2>1. SPACE \in Nat /\ SPACE >= 1 /\ WORD \in Nat /\ WORD >= 1 /\ PAGE_SIZE \in Nat
        /\ PAGE_SIZE >= 1
    BY Half, SpaceIs, SizeAssumption, WordAssumption
  <2> DEFINE x == Segment.vaddr + Segment.memsz + PAGE_SIZE - 1
  <2>2. x \in Nat /\ to = (x \div PAGE_SIZE) % WORD
    BY <1>1, <2>1, SegmentIs DEF SegmentEnd
  <2> HIDE DEF x, to
  <2>3. x \div PAGE_SIZE \in Nat
    BY <2>1, <2>2, InRegion
  <2>4. to \in Nat
    BY <2>1, <2>2, <2>3, InRegion
  <2> QED BY <2>1, <2>4, InRegion
<1> HIDE DEF to
<1>5. END \in Nat
  BY Half
<1> QED BY <1>2, <1>3, <1>4, <1>5

\* What is copied from the file reaches it.
LEMMA CopyReaches ==
  ASSUME ExecInv, done \in Nat, CopySegment, pc' = "kernel"
  PROVE  ~Loadable(Segment)
<1> DEFINE n == Smaller(Segment.filesz - done, PAGE_SIZE)
           addr == Segment.vaddr + done
<1>1. ExecBase /\ pc = "copy" /\ header # file.phnum /\ done < Segment.filesz
  BY DEF ExecInv, ExecBase, CopySegment
<1>2. Segment.vaddr \in Nat /\ Segment.memsz \in Nat /\ Segment.filesz \in Nat
      /\ PAGE_SIZE \in Nat /\ StackEnd \in Nat
  BY <1>1, SegmentIs, SizeAssumption, Half DEF StackEnd
<1>3. ReachesKernel(addr, n)
  <2>1. pc' # "copy" /\ pc' # "segment_fails"
    OBVIOUS
  <2> QED BY <1>1, <2>1 DEF CopySegment, Stops, Goto
<1>4. n \in Nat /\ n <= Segment.filesz - done
  BY <1>1, <1>2 DEF Smaller
<1> HIDE DEF n
<1>5. SUFFICES ASSUME Loadable(Segment) PROVE FALSE
  OBVIOUS
<1>6. addr \in Nat /\ addr + n <= StackEnd
  BY <1>2, <1>4, <1>5 DEF Loadable
<1> HIDE DEF addr
<1> QED BY <1>3, <1>4, <1>6, BelowStays

\* The zeros behind what was copied reach it.
LEMMA FillReaches ==
  ASSUME ExecInv, FillSegment, pc' = "kernel"
  PROVE  ~Loadable(Segment)
<1> DEFINE m == WORD * PAGE_SIZE
           d == Segment.memsz - Segment.filesz
           n == d % m
           addr == Segment.vaddr + done
<1>1. ExecBase /\ pc = "copy" /\ header # file.phnum /\ done = Segment.filesz
  BY DEF ExecInv, ExecBase, FillSegment
<1>2. Segment.vaddr \in Nat /\ Segment.memsz \in Nat /\ Segment.filesz \in Nat
      /\ StackEnd \in Nat
  BY <1>1, SegmentIs, SizeAssumption, Half DEF StackEnd
<1>3. m \in Nat /\ m >= 1
  <2>1. WORD \in Nat \ {0} /\ PAGE_SIZE \in Nat \ {0}
    BY SizeAssumption, WordAssumption
  <2> QED BY <2>1
<1>4. ReachesKernel(addr, n)
  <2>1. pc' # "load" /\ pc' # "segment_fails"
    OBVIOUS
  <2> QED BY <1>1, <2>1 DEF FillSegment, Stops, Goto
<1>5. SUFFICES ASSUME Loadable(Segment) PROVE FALSE
  OBVIOUS
<1>6. d \in Nat
  BY <1>2, <1>5 DEF Loadable
<1> HIDE DEF m
<1>7. n \in Nat /\ n <= d
  <2> HIDE DEF d
  <2> QED BY <1>3, <1>6, RemainderAtMost
<1> HIDE DEF n
<1>8. addr \in Nat /\ addr + n <= StackEnd
  BY <1>1, <1>2, <1>5, <1>7 DEF Loadable
<1> HIDE DEF addr
<1> QED BY <1>4, <1>7, <1>8, BelowStays

\* Every call keeps KernelInv.
LEMMA KernelNextHolds == ExecInv /\ KernelInv /\ [ExecNext]_execVars => KernelInv'
<1>1. SUFFICES ASSUME ExecInv, KernelInv, [ExecNext]_execVars PROVE KernelInv'
  OBVIOUS
<1>2. ExecBase /\ done \in Nat
  BY <1>1 DEF ExecInv, KernelInv
<1>3. file' = file
  BY <1>1 DEF ExecNext, execVars, callVars, call, Goto, Open, CreateNew, Stack, MapPages,
              CopyArgs, Load, Loaded, Buffer, SegmentFails, MapSegment, CopySegment,
              FillSegment, Stops, Undo, Switch, ReleaseOld, Ended
<1>4. Segments' = Segments
  BY <1>3 DEF Segments
<1>5. header' = header => Segment' = Segment
  BY <1>3 DEF Segment, HeaderAt
<1>6. ASSUME done' \in Nat, pc' \notin {"buffer", "map", "copy", "kernel"} PROVE KernelInv'
  BY <1>6 DEF KernelInv
<1>7. ASSUME done' \in Nat, header' = header, pc' \in {"buffer", "map", "copy"}, Segment.load
      PROVE  KernelInv'
  BY <1>5, <1>7 DEF KernelInv
<1>8. ASSUME done' \in Nat, header # file.phnum, Segment.load, ~Loadable(Segment), pc' = "kernel"
      PROVE  KernelInv'
  <2>1. Segment \in Segments
    BY <1>2, <1>8, SegmentIs
  <2>2. Segment \in Segments' /\ Segment.load /\ ~Loadable(Segment)
    BY <1>4, <1>8, <2>1
  <2>3. \E s \in Segments' : s.load /\ ~Loadable(s)'
    BY <2>2 DEF Loadable, StackEnd
  <2> QED BY <1>8, <2>3 DEF KernelInv
<1>9. CASE pc = "kernel"
  <2>1. pc' = pc /\ done' = done /\ header' = header
    BY <1>1, <1>9 DEF ExecNext, execVars, callVars, call, progress, Open, CreateNew, Stack,
              CopyArgs, Load, Loaded, Buffer, SegmentFails, MapSegment, CopySegment,
              FillSegment, Undo, Switch, ReleaseOld, Ended
  <2>2. \E s \in Segments' : s.load /\ ~Loadable(s)'
    BY <1>1, <1>4, <1>9 DEF KernelInv, Loadable, StackEnd
  <2> QED BY <1>2, <1>9, <2>1, <2>2 DEF KernelInv
<1>10. CASE Stack
  <2>1. END % SPACE = END
    <3>1. END \in Nat /\ SPACE \in Nat /\ END < SPACE
      BY Half, SpaceIs
    <3> QED BY <3>1
  <2>2. pc' \in {"args", "undo", "hang"} /\ done' = done
    BY <1>10, <2>1, Half DEF Stack, MapPages, Goto, callVars, progress
  <2> QED BY <1>2, <1>6, <2>2
<1>11. CASE MapSegment
  <2>1. /\ pc' \in {"copy", "segment_fails", "hang", "kernel"} /\ done' = done
        /\ header' = header /\ pc = "map"
    BY <1>11 DEF MapSegment, MapPages, Goto, callVars, progress
  <2>2. Segment.load /\ header # file.phnum
    BY <1>1, <1>2, <2>1 DEF KernelInv, ExecBase
  <2>3. pc' = "kernel" => ~Loadable(Segment)
    BY <1>1, <1>11, MapReaches
  <2> QED BY <1>2, <1>6, <1>7, <1>8, <2>1, <2>2, <2>3
<1>12. CASE CopySegment
  <2> DEFINE n == Smaller(Segment.filesz - done, PAGE_SIZE)
  <2>1. pc = "copy" /\ done < Segment.filesz
    BY <1>12 DEF CopySegment
  <2>2. Segment.load /\ header # file.phnum
    BY <1>1, <1>2, <2>1 DEF KernelInv, ExecBase
  <2>3. n \in Nat
    <3>1. Segment.filesz \in Nat /\ PAGE_SIZE \in Nat
      BY <1>2, <2>2, SegmentIs, SizeAssumption
    <3> QED BY <1>2, <2>1, <3>1 DEF Smaller
  <2> HIDE DEF n
  <2>4. /\ pc' \in {"copy", "segment_fails", "kernel"} /\ header' = header
        /\ done' = done \/ done' = done + n
    BY <1>12, <2>1 DEF CopySegment, Stops, Goto, callVars, progress, n
  <2>5. pc' = "kernel" => ~Loadable(Segment)
    BY <1>1, <1>2, <1>12, CopyReaches
  <2>6. done' \in Nat
    BY <1>2, <2>3, <2>4
  <2> QED BY <1>6, <1>7, <1>8, <2>2, <2>4, <2>5, <2>6
<1>13. CASE FillSegment
  <2>1. pc = "copy"
    BY <1>13 DEF FillSegment
  <2>2. Segment.load /\ header # file.phnum
    BY <1>1, <1>2, <2>1 DEF KernelInv, ExecBase
  <2>3. pc' \in {"load", "segment_fails", "kernel"} /\ (done' = done \/ done' = 0)
    BY <1>13 DEF FillSegment, Stops, Goto, callVars, progress
  <2>4. pc' = "kernel" => ~Loadable(Segment)
    BY <1>1, <1>13, FillReaches
  <2>5. done' \in Nat
    BY <1>2, <2>3
  <2> QED BY <1>6, <1>8, <2>2, <2>3, <2>4, <2>5
<1>14. CASE Load
  <2>1. pc = "load" /\ done' = done
    BY <1>14 DEF Load, Goto, callVars, progress
  <2>2. \/ Goto("undo")
        \/ Segment.load /\ Goto("buffer")
        \/ UNCHANGED <<memoryVars, pc, call, buffer, done, ctx, thread>>
    BY <1>14 DEF Load
  <2>3. ASSUME NEW next, Goto(next) PROVE pc' = next /\ header' = header
    BY <2>3 DEF Goto, callVars, progress
  <2>4. CASE \/ Goto("undo")
             \/ UNCHANGED <<memoryVars, pc, call, buffer, done, ctx, thread>>
    <3>1. pc' \in {"undo", "load"}
      BY <2>1, <2>3, <2>4
    <3> QED BY <1>2, <1>6, <2>1, <3>1
  <2>5. CASE Segment.load /\ Goto("buffer")
    <3>1. pc' = "buffer" /\ header' = header
      BY <2>3, <2>5
    <3> QED BY <1>2, <1>7, <2>1, <2>5, <3>1
  <2> QED BY <2>2, <2>4, <2>5
<1>15. CASE Buffer
  <2>1. pc = "buffer" /\ pc' \in {"map", "segment_fails"} /\ header' = header /\ done' = done
    BY <1>15 DEF Buffer, Goto, callVars, progress
  <2>2. Segment.load
    BY <1>1, <2>1 DEF KernelInv
  <2> QED BY <1>2, <1>6, <1>7, <2>1, <2>2
<1>16. CASE Open \/ CreateNew \/ CopyArgs \/ Loaded \/ SegmentFails \/ Undo \/ Switch \/ ReleaseOld
  <2>1. done' = done /\ pc' \notin {"buffer", "map", "copy", "kernel"}
    BY <1>16 DEF Open, CreateNew, CopyArgs, Loaded, SegmentFails, Undo, Switch, ReleaseOld,
              Goto, callVars, progress
  <2> QED BY <1>2, <1>6, <2>1
<1>17. CASE Ended \/ UNCHANGED execVars
  <2>1. pc' = pc /\ done' = done /\ header' = header
    BY <1>17 DEF Ended, execVars, callVars, progress
  <2>2. CASE pc \in {"buffer", "map", "copy"}
    <3>1. Segment.load
      BY <1>1, <2>2 DEF KernelInv
    <3> QED BY <1>2, <1>7, <2>1, <2>2, <3>1
  <2> QED BY <1>2, <1>6, <1>9, <2>1, <2>2
<1> QED BY <1>1, <1>10, <1>11, <1>12, <1>13, <1>14, <1>15, <1>16, <1>17 DEF ExecNext

-----------------------------------------------------------------------------
(* exec: all or nothing.                                                   *)

\* A set that is numbered by another has as many elements.
LEMMA OneToOne ==
  ASSUME NEW S, NEW T, IsFiniteSet(T), NEW f \in [S -> T],
         \A u, w \in S : f[u] = f[w] => u = w, \A t \in T : \E u \in S : f[u] = t
  PROVE  Cardinality(S) = Cardinality(T)
<1>2. f \in Surjection(S, T)
  BY DEF Surjection
<1>3. f \in Injection(S, T)
  BY DEF Injection, IsInjective
<1>4. Cardinality(S) = Cardinality(T)
  BY <1>2, <1>3, FS_Injection
<1> QED BY <1>4

\* With the invariant, exec does all or nothing.
LEMMA AllOrNothingHolds == ExecInv /\ KernelInv => AllOrNothing
<1>1. SUFFICES ASSUME ExecInv, KernelInv PROVE AllOrNothing
  OBVIOUS
<1>2. ExecBase /\ Old # New
  BY <1>1, SpacesAssumption DEF ExecInv
<1>3. mm \in live /\ cr3 = root[mm]
  BY <1>2 DEF ExecBase
<1>4. pc = "failed" => live = {Old} /\ regs = << >>
  BY <1>2 DEF ExecBase
<1>5. pc = "done" => live = {New} /\ regs # << >>
  BY <1>2 DEF ExecBase
<1> DEFINE used == {At(u) : u \in InUse}
           spare == {buffer} \ {0}
           free == memory.avail \ {0}
<1>6. ASSUME Up
      PROVE  /\ Cardinality(InUse) = Cardinality(used)
             /\ used \cap (free \cup spare) = {}
             /\ free \cap spare = {}
             /\ pc \in {"failed", "done"} => spare = {}
             /\ used \cup free \cup spare = 1..frames
  <2>1. PICK U : Placed(memory, root, live, buffer, frames, U)
    BY <1>1, <1>6 DEF ExecInv
  <2>2. memory \in Memory /\ FRAMES \in Nat /\ frames \in Nat /\ frames <= FRAMES
        /\ memory.avail \subseteq 0..FRAMES /\ buffer \in 0..FRAMES
    BY <1>2, Sizes DEF ExecBase, Memory, Frame
  <2>3. /\ \A u, w \in InUse : At(u) = At(w) => u = w
        /\ \A u \in InUse : u[1] \in live /\ At(u) \in DOMAIN U[u[1]]
        /\ \A x \in live : \A f \in DOMAIN U[x] : \E u \in InUse : At(u) = f
    <3>1. /\ \A x \in live : Tree(memory.table, root[x], U[x]) /\ Low(U[x])
          /\ \A x, y \in live : x # y => DOMAIN U[x] \cap DOMAIN U[y] = {}
      BY <2>1 DEF Placed
    <3> QED BY <2>2, <3>1, NodesOnce
  <2>4. \A x \in live : DOMAIN U[x] \subseteq Frame
    <3>1. TAKE x \in live
    <3>2. Tree(memory.table, root[x], U[x])
      BY <2>1 DEF Placed
    <3> QED BY <3>2, TreeFrames
  <2>5. \A f : f \in used <=> \E x \in live : f \in DOMAIN U[x]
    BY <2>3
  <2>6. Cardinality(InUse) = Cardinality(used)
    <3> DEFINE at == [u \in InUse |-> At(u)]
    <3>1. \A u \in InUse : At(u) \in Frame
      BY <2>3, <2>4
    <3>2. IsFiniteSet(used)
      <4>1. used \in SUBSET Frame
        BY <3>1
      <4>2. IsFiniteSet(Frame)
        BY Sizes, FS_Interval DEF Frame
      <4> HIDE DEF used
      <4> QED BY <4>1, <4>2, FS_Subset
    <3>3. at \in [InUse -> used] /\ \A u, w \in InUse : at[u] = at[w] => u = w
      BY <2>3
    <3>4. \A t \in used : \E u \in InUse : at[u] = t
      OBVIOUS
    <3> HIDE DEF at, used
    <3> QED BY <3>2, <3>3, <3>4, OneToOne
  <2> HIDE DEF used
  <2>7. used \subseteq Frame /\ 0 \notin Frame
    BY <2>4, <2>5 DEF Frame
  <2>8. used \cap (free \cup spare) = {} /\ free \cap spare = {}
    BY <2>1, <2>5 DEF Placed
  <2>9. pc \in {"failed", "done"} => spare = {}
    BY <1>2 DEF ExecBase
  <2>10. \A f \in Frame : f \in 1..frames <=> f \in used \cup free \cup spare
    <3>1. TAKE f \in Frame
    <3>2. f # 0 /\ (f \in 1..frames <=> f \in memory.avail \/ f = buffer \/ f \in used)
      BY <2>1, <2>5, <2>7 DEF Placed
    <3> QED BY <3>2
  <2>11. used \cup free \cup spare \subseteq Frame /\ 1..frames \subseteq Frame
    <3>1. 1..frames \subseteq Frame
      BY <2>2 DEF Frame
    <3>2. free \subseteq Frame /\ spare \subseteq Frame
      BY <2>2 DEF Frame
    <3> QED BY <2>7, <3>1, <3>2
  <2>12. used \cup free \cup spare = 1..frames
    BY <2>10, <2>11
  <2> QED BY <2>6, <2>8, <2>9, <2>12
<1>7. InUse = Used /\ used = {NodeFrame(u[1], u[2][1], u[2][2]) : u \in Used}
  BY DEF InUse, Used, At
<1>8. pc = "kernel" => \E s \in Segments : s.load /\ ~Loadable(s)
  BY <1>1 DEF KernelInv
<1> HIDE DEF used
<1> QED BY <1>3, <1>4, <1>5, <1>6, <1>7, <1>8 DEF AllOrNothing

\* ExecInv and KernelInv hold at every call exec makes, whether it succeeds or fails.
THEOREM ExecInvariance == ExecSpec => [](ExecInv /\ KernelInv)
<1>1. ExecInit => ExecInv /\ KernelInv
  BY ExecInitHolds, KernelInitHolds
<1>2. ExecInv /\ KernelInv /\ [ExecNext]_execVars => (ExecInv /\ KernelInv)'
  BY ExecNextHolds, KernelNextHolds
<1> QED BY <1>1, <1>2, PTL DEF ExecSpec

\* exec does all or nothing, and loses no frame, wherever it fails (exec.c), however
\* large the memory, the tables and the segments are.  An mmap that runs out of memory
\* below another area, and unmaps that too, is included.  Any program is too, up to
\* where exec goes on above user space; if its segments are Loadable it never gets there.
THEOREM ExecOK == ExecSpec => []AllOrNothing
<1>1. ExecInv /\ KernelInv => AllOrNothing
  BY AllOrNothingHolds
<1>2. ExecSpec => [](ExecInv /\ KernelInv)
  BY ExecInvariance
<1> QED BY <1>1, <1>2, PTL
=============================================================================
