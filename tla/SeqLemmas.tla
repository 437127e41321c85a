------------------------------ MODULE SeqLemmas ------------------------------
(***************************************************************************)
(* Facts about queues kept as sequences: what Append, Head and Tail do to  *)
(* the set of elements and to the absence of duplicates; and about numbers *)
(* that are multiples of others.                                           *)
(***************************************************************************)
EXTENDS Integers, Sequences, FiniteSets, SequencesExt, SequenceTheorems,
        FiniteSetTheorems, WellFoundedInduction, TLAPS

\* The empty queue (list_init, src/list.c).
LEMMA EmptyQueue ==
  ASSUME NEW S
  PROVE  /\ << >> \in Seq(S)
         /\ ToSet(<< >>) = {}
         /\ IsInjective(<< >>)
BY DEF ToSet, IsInjective

\* The elements of a queue.
LEMMA QueueElements ==
  ASSUME NEW S, NEW s \in Seq(S)
  PROVE  ToSet(s) \subseteq S
BY DEF ToSet

\* list_add_tail: the queue gains e, and stays free of duplicates if e is new.
LEMMA AppendQueue ==
  ASSUME NEW S, NEW s \in Seq(S), NEW e \in S
  PROVE  /\ Append(s, e) \in Seq(S)
         /\ Append(s, e) # << >>
         /\ ToSet(Append(s, e)) = ToSet(s) \cup {e}
         /\ IsInjective(s) /\ e \notin ToSet(s) => IsInjective(Append(s, e))
<1> DEFINE t == Append(s, e)
<1>1. /\ t \in Seq(S) /\ t # << >> /\ Len(t) = Len(s) + 1
      /\ \A i \in 1..Len(s) : t[i] = s[i]
      /\ t[Len(s) + 1] = e
  BY AppendProperties
<1>2. DOMAIN s = 1..Len(s) /\ DOMAIN t = 1..(Len(s) + 1) /\ Len(s) \in Nat
  BY <1>1
<1> HIDE DEF t
<1>3. ToSet(t) = ToSet(s) \cup {e}
  <2>1. ASSUME NEW x \in ToSet(t) PROVE x \in ToSet(s) \cup {e}
    <3>1. PICK i \in 1..(Len(s) + 1) : x = t[i]
      BY <1>2, <2>1 DEF ToSet
    <3>2. i \in 1..Len(s) \/ i = Len(s) + 1
      BY <1>2
    <3> QED BY <3>1, <3>2, <1>1, <1>2 DEF ToSet
  <2>2. ASSUME NEW x \in ToSet(s) PROVE x \in ToSet(t)
    <3>1. PICK i \in 1..Len(s) : x = s[i]
      BY <1>2, <2>2 DEF ToSet
    <3>2. i \in DOMAIN t /\ x = t[i]
      BY <3>1, <1>1, <1>2
    <3> QED BY <3>2 DEF ToSet
  <2>3. e \in ToSet(t)
    <3>1. Len(s) + 1 \in DOMAIN t
      BY <1>2
    <3> QED BY <3>1, <1>1 DEF ToSet
  <2> QED BY <2>1, <2>2, <2>3
<1>4. ASSUME IsInjective(s), e \notin ToSet(s) PROVE IsInjective(t)
  <2>1. \A i \in 1..Len(s) : s[i] # e
    BY <1>2, <1>4 DEF ToSet
  <2>2. \A i, j \in 1..Len(s) : s[i] = s[j] => i = j
    BY <1>2, <1>4 DEF IsInjective
  <2>3. ASSUME NEW i \in 1..(Len(s) + 1), NEW j \in 1..(Len(s) + 1),
               t[i] = t[j]
        PROVE  i = j
    BY <1>1, <1>2, <2>1, <2>2, <2>3
  <2> QED BY <2>3, <1>2 DEF IsInjective
<1> QED BY <1>1, <1>3, <1>4 DEF t

\* list_del of the first element: it leaves a queue without duplicates.
LEMMA TailQueue ==
  ASSUME NEW S, NEW s \in Seq(S), s # << >>
  PROVE  /\ Head(s) \in S
         /\ Tail(s) \in Seq(S)
         /\ Head(s) \in ToSet(s)
         /\ ToSet(s) = ToSet(Tail(s)) \cup {Head(s)}
         /\ IsInjective(s) => /\ IsInjective(Tail(s))
                              /\ Head(s) \notin ToSet(Tail(s))
<1> DEFINE t == Tail(s)
<1>1. /\ Head(s) \in S /\ t \in Seq(S) /\ Len(t) = Len(s) - 1
      /\ \A i \in 1..Len(t) : t[i] = s[i + 1]
  BY HeadTailProperties
<1>2. /\ DOMAIN s = 1..Len(s) /\ DOMAIN t = 1..Len(t)
      /\ Len(s) \in Nat \ {0} /\ Len(t) \in Nat
  BY <1>1, EmptySeq
<1>3. Head(s) = s[1]
  OBVIOUS
<1> HIDE DEF t
<1>4. Head(s) \in ToSet(s)
  BY <1>2, <1>3 DEF ToSet
<1>5. ASSUME NEW x \in ToSet(s) PROVE x \in ToSet(t) \cup {Head(s)}
  <2>1. PICK i \in 1..Len(s) : x = s[i]
    BY <1>2, <1>5 DEF ToSet
  <2>2. CASE i = 1
    BY <2>1, <2>2, <1>3
  <2>3. CASE i # 1
    <3>1. i - 1 \in DOMAIN t /\ t[i - 1] = x
      BY <2>1, <2>3, <1>1, <1>2
    <3> QED BY <3>1 DEF ToSet
  <2> QED BY <2>2, <2>3
<1>6. ASSUME NEW x \in ToSet(t) PROVE x \in ToSet(s)
  <2>1. PICK i \in 1..Len(t) : x = t[i]
    BY <1>2, <1>6 DEF ToSet
  <2>2. i + 1 \in DOMAIN s /\ s[i + 1] = x
    BY <2>1, <1>1, <1>2
  <2> QED BY <2>2 DEF ToSet
<1>7. ASSUME IsInjective(s)
      PROVE  IsInjective(t) /\ Head(s) \notin ToSet(t)
  <2>1. \A i, j \in 1..Len(s) : s[i] = s[j] => i = j
    BY <1>2, <1>7 DEF IsInjective
  <2>2. ASSUME NEW i \in 1..Len(t), NEW j \in 1..Len(t), t[i] = t[j]
        PROVE  i = j
    <3>1. s[i + 1] = s[j + 1] /\ i + 1 \in 1..Len(s) /\ j + 1 \in 1..Len(s)
      BY <1>1, <1>2, <2>2
    <3>2. i + 1 = j + 1
      BY <3>1, <2>1
    <3> QED BY <3>2
  <2>3. ASSUME NEW i \in 1..Len(t), t[i] = Head(s) PROVE FALSE
    <3>1. s[i + 1] = s[1] /\ i + 1 \in 1..Len(s) /\ 1 \in 1..Len(s)
      BY <1>1, <1>2, <1>3, <2>3
    <3>2. i + 1 = 1
      BY <3>1, <2>1
    <3> QED BY <3>2
  <2> QED BY <2>2, <2>3, <1>2 DEF IsInjective, ToSet
<1> QED BY <1>1, <1>4, <1>5, <1>6, <1>7 DEF t

\* list_del of the entry that is the first: only that one goes, and it is the
\* only one that is equal to it.
LEMMA RemoveHead ==
  ASSUME NEW S, NEW s \in Seq(S), IsInjective(s), NEW i \in DOMAIN s,
         s[i] = Head(s)
  PROVE  /\ s # << >>
         /\ RemoveAt(s, i) = Tail(s)
<1>1. /\ DOMAIN s = 1..Len(s) /\ Len(s) \in Nat \ {0}
      /\ s # << >> /\ Head(s) = s[1] /\ 1 \in DOMAIN s
  BY EmptySeq
<1>2. i = 1
  BY <1>1 DEF IsInjective
<1>3. SubSeq(s, 1, 0) = << >>
  BY <1>1
<1>4. SubSeq(s, 2, Len(s)) = Tail(s)
  BY <1>1
<1>5. Tail(s) \in Seq(S)
  BY <1>1
<1>6. << >> \o Tail(s) = Tail(s)
  BY <1>5
<1> QED BY <1>1, <1>2, <1>3, <1>4, <1>6 DEF RemoveAt

\* list_add_tail to a queue that is not empty leaves its first entry alone.
LEMMA AppendTail ==
  ASSUME NEW S, NEW s \in Seq(S), s # << >>, NEW e \in S
  PROVE  /\ Head(Append(s, e)) = Head(s)
         /\ Tail(Append(s, e)) = Append(Tail(s), e)
<1>1. Len(s) \in Nat \ {0}
  BY EmptySeq
<1> QED BY <1>1

\* The last entry, and what it was appended to.
LEMMA LastQueue ==
  ASSUME NEW S, NEW s \in Seq(S)
  PROVE  /\ s # << >> => /\ Last(s) \in ToSet(s)
                          /\ s = Append(Front(s), Last(s))
         /\ \A e \in S : Last(Append(s, e)) = e /\ Front(Append(s, e)) = s
<1>1. Len(s) \in Nat /\ DOMAIN s = 1..Len(s)
  OBVIOUS
<1>2. ASSUME s # << >>
      PROVE  Last(s) \in ToSet(s) /\ s = Append(Front(s), Last(s))
  <2>1. Len(s) \in DOMAIN s /\ Len(s) - 1 \in Nat
    BY <1>1, <1>2, EmptySeq
  <2>2. Last(s) = s[Len(s)] /\ Last(s) \in S
    BY <2>1 DEF Last
  <2>3. /\ Front(s) \in Seq(S) /\ Len(Front(s)) = Len(s) - 1
        /\ \A i \in 1..(Len(s) - 1) : Front(s)[i] = s[i]
    <3> DEFINE n == Len(s) - 1
    <3>1. n \in 0..Len(s)
      BY <1>1, <2>1
    <3> HIDE DEF n
    <3>2. /\ SubSeq(s, 1, n) \in Seq(S) /\ Len(SubSeq(s, 1, n)) = n
          /\ \A i \in 1..n : SubSeq(s, 1, n)[i] = s[i]
      BY <1>1, <3>1, SubSeqProperties
    <3> QED BY <3>2 DEF Front, n
  <2>4. ASSUME NEW f \in Seq(S), NEW e \in S, f = Front(s), e = Last(s)
        PROVE  Append(f, e) = s
    <3> DEFINE t == Append(f, e)
    <3>1. /\ t \in Seq(S) /\ Len(t) = Len(f) + 1 /\ t[Len(f) + 1] = e
          /\ \A i \in 1..Len(f) : t[i] = f[i]
      BY AppendProperties
    <3> HIDE DEF t
    <3>2. /\ Len(t) = Len(s) /\ t[Len(s)] = s[Len(s)]
          /\ \A i \in 1..(Len(s) - 1) : t[i] = s[i]
      BY <1>1, <2>1, <2>2, <2>3, <2>4, <3>1
    <3>3. t = s
      BY <1>1, <2>1, <3>1, <3>2, SeqEqual
    <3> QED BY <3>3 DEF t
  <2> QED BY <2>1, <2>2, <2>3, <2>4 DEF ToSet
<1>3. ASSUME NEW e \in S
      PROVE  Last(Append(s, e)) = e /\ Front(Append(s, e)) = s
  <2> DEFINE t == Append(s, e)
  <2>1. /\ t \in Seq(S) /\ Len(t) = Len(s) + 1 /\ t[Len(s) + 1] = e
        /\ \A i \in 1..Len(s) : t[i] = s[i]
    BY AppendProperties
  <2>2. Len(t) - 1 = Len(s)
    BY <1>1, <2>1
  <2> HIDE DEF t
  <2>3. /\ SubSeq(t, 1, Len(s)) \in Seq(S)
        /\ Len(SubSeq(t, 1, Len(s))) = Len(s)
        /\ \A i \in 1..Len(s) : SubSeq(t, 1, Len(s))[i] = t[i]
    BY <1>1, <2>1, SubSeqProperties
  <2>4. SubSeq(t, 1, Len(s)) = s
    BY <1>1, <2>1, <2>3, SeqEqual
  <2> QED BY <2>1, <2>2, <2>4 DEF Last, Front, t
<1> QED BY <1>2, <1>3

\* Two queues, one behind the other.
LEMMA ConcatQueue ==
  ASSUME NEW S, NEW s \in Seq(S), NEW t \in Seq(S)
  PROVE  /\ s \o t \in Seq(S)
         /\ ToSet(s \o t) = ToSet(s) \cup ToSet(t)
         /\ IsInjective(s \o t) <=> /\ IsInjective(s) /\ IsInjective(t)
                                    /\ ToSet(s) \cap ToSet(t) = {}
<1> DEFINE u == s \o t
           m == Len(s)
           n == Len(t)
<1>1. /\ u \in Seq(S) /\ Len(u) = m + n
      /\ \A i \in 1..m + n : u[i] = IF i <= m THEN s[i] ELSE t[i - m]
  BY ConcatProperties
<1>2. /\ m \in Nat /\ n \in Nat
      /\ DOMAIN s = 1..m /\ DOMAIN t = 1..n /\ DOMAIN u = 1..m + n
  BY <1>1
<1> HIDE DEF u, m, n
<1>3. /\ \A i \in 1..m : i \in 1..m + n /\ u[i] = s[i]
      /\ \A i \in 1..n : i + m \in 1..m + n /\ u[i + m] = t[i]
      /\ \A i \in 1..m + n :
           i \notin 1..m => i - m \in 1..n /\ u[i] = t[i - m]
      /\ \A i \in 1..m + n : i \in 1..m => u[i] = s[i]
  BY <1>1, <1>2
<1>4. ToSet(u) = ToSet(s) \cup ToSet(t)
  <2>1. ASSUME NEW e \in ToSet(u) PROVE e \in ToSet(s) \cup ToSet(t)
    <3>1. PICK i \in 1..m + n : e = u[i]
      BY <1>2, <2>1 DEF ToSet
    <3> QED BY <3>1, <1>2, <1>3 DEF ToSet
  <2>2. ASSUME NEW e \in ToSet(s) PROVE e \in ToSet(u)
    <3>1. PICK i \in 1..m : e = s[i]
      BY <1>2, <2>2 DEF ToSet
    <3> QED BY <3>1, <1>2, <1>3 DEF ToSet
  <2>3. ASSUME NEW e \in ToSet(t) PROVE e \in ToSet(u)
    <3>1. PICK i \in 1..n : e = t[i]
      BY <1>2, <2>3 DEF ToSet
    <3> QED BY <3>1, <1>2, <1>3 DEF ToSet
  <2> QED BY <2>1, <2>2, <2>3
<1>5. ASSUME IsInjective(u)
      PROVE  IsInjective(s) /\ IsInjective(t) /\ ToSet(s) \cap ToSet(t) = {}
  <2>1. \A i, j \in 1..m + n : u[i] = u[j] => i = j
    BY <1>2, <1>5 DEF IsInjective
  <2>2. \A i, j \in 1..m : s[i] = s[j] => i = j
    BY <2>1, <1>3
  <2>3. \A i, j \in 1..n : t[i] = t[j] => i = j
    <3> SUFFICES ASSUME NEW i \in 1..n, NEW j \in 1..n, t[i] = t[j]
                 PROVE  i = j
      OBVIOUS
    <3>1. i + m = j + m
      BY <2>1, <1>3
    <3> QED BY <3>1, <1>2
  <2>4. \A i \in 1..m, j \in 1..n : s[i] # t[j]
    <3> SUFFICES ASSUME NEW i \in 1..m, NEW j \in 1..n, s[i] = t[j]
                 PROVE  FALSE
      OBVIOUS
    <3>1. i = j + m
      BY <2>1, <1>3
    <3> QED BY <3>1, <1>2
  <2> QED BY <2>2, <2>3, <2>4, <1>2 DEF IsInjective, ToSet
<1>6. ASSUME IsInjective(s), IsInjective(t), ToSet(s) \cap ToSet(t) = {}
      PROVE  IsInjective(u)
  <2>1. /\ \A i, j \in 1..m : s[i] = s[j] => i = j
        /\ \A i, j \in 1..n : t[i] = t[j] => i = j
        /\ \A i \in 1..m, j \in 1..n : s[i] # t[j]
    BY <1>2, <1>6, SMTT(30) DEF IsInjective, ToSet
  <2> SUFFICES ASSUME NEW i \in 1..m + n, NEW j \in 1..m + n, u[i] = u[j]
               PROVE  i = j
    BY <1>2 DEF IsInjective
  <2>2. CASE i \in 1..m /\ j \in 1..m
    BY <2>1, <2>2, <1>3
  <2>3. CASE i \notin 1..m /\ j \notin 1..m
    <3>1. i - m = j - m
      BY <2>1, <2>3, <1>3
    <3> QED BY <3>1, <1>2
  <2>4. CASE i \in 1..m /\ j \notin 1..m
    BY <2>1, <2>4, <1>3
  <2>5. CASE i \notin 1..m /\ j \in 1..m
    BY <2>1, <2>5, <1>3
  <2> QED BY <2>2, <2>3, <2>4, <2>5
<1> QED BY <1>1, <1>4, <1>5, <1>6 DEF u

\* list_add: e is in front, and stays alone if it is new.
LEMMA PrependQueue ==
  ASSUME NEW S, NEW s \in Seq(S), NEW e \in S
  PROVE  /\ <<e>> \o s \in Seq(S)
         /\ <<e>> \o s # << >>
         /\ Len(<<e>> \o s) = Len(s) + 1
         /\ ToSet(<<e>> \o s) = ToSet(s) \cup {e}
         /\ IsInjective(s) /\ e \notin ToSet(s) => IsInjective(<<e>> \o s)
<1> DEFINE q == <<e>>
<1>0. q \in Seq(S)
  OBVIOUS
<1>1. Len(q) = 1 /\ DOMAIN q = {1} /\ q[1] = e /\ q = <<e>>
  OBVIOUS
<1> HIDE DEF q
<1>2. ToSet(q) = {e} /\ IsInjective(q)
  BY <1>1 DEF ToSet, IsInjective
<1>3. Len(q \o s) = Len(s) + 1 /\ q \o s # << >>
  BY <1>0, <1>1, ConcatProperties
<1>4. q \o s \in Seq(S)
  BY <1>0, ConcatProperties
<1>5. ToSet(q \o s) = ToSet(q) \cup ToSet(s)
  BY <1>0, ConcatQueue
<1>6. IsInjective(q) /\ IsInjective(s) /\ ToSet(q) \cap ToSet(s) = {}
        => IsInjective(q \o s)
  BY <1>0, ConcatQueue
<1>7. IsInjective(s) /\ e \notin ToSet(s) => IsInjective(q \o s)
  BY <1>2, <1>6
<1>8. ToSet(q \o s) = ToSet(s) \cup {e}
  BY <1>2, <1>5
<1> QED BY <1>1, <1>3, <1>4, <1>7, <1>8

\* list_del of an entry wherever it is: that one goes, the others stay.
LEMMA RemoveQueue ==
  ASSUME NEW S, NEW s \in Seq(S), IsInjective(s), NEW i \in DOMAIN s
  PROVE  /\ RemoveAt(s, i) \in Seq(S)
         /\ ToSet(RemoveAt(s, i)) = ToSet(s) \ {s[i]}
         /\ IsInjective(RemoveAt(s, i))
<1> DEFINE f == SubSeq(s, 1, i - 1)
           b == SubSeq(s, i + 1, Len(s))
           n == Len(s)
<1>1. n \in Nat /\ DOMAIN s = 1..n /\ i \in 1..n
  OBVIOUS
<1>2. /\ f \in Seq(S) /\ Len(f) = i - 1
      /\ \A k \in 1..i - 1 : f[k] = s[k]
  <2>1. \A k \in 1..i - 1 : s[k] \in S
    BY <1>1
  <2>2. i - 1 \in Int /\ (i - 1) - 1 + 1 = i - 1
    BY <1>1
  <2> HIDE DEF f
  <2>3. /\ f \in Seq(S) /\ Len(f) = IF 1 <= i - 1 THEN (i - 1) - 1 + 1 ELSE 0
        /\ \A k \in 1..(i - 1) - 1 + 1 : f[k] = s[1 + k - 1]
    BY <2>1, <2>2, SubSeqProperties DEF f
  <2> QED BY <2>2, <2>3, <1>1
<1>3. /\ b \in Seq(S) /\ Len(b) = n - i
      /\ \A k \in 1..n - i : b[k] = s[i + k]
  <2>1. \A k \in i + 1..n : s[k] \in S
    BY <1>1
  <2>2. i + 1 \in Int
    BY <1>1
  <2>3. /\ b \in Seq(S) /\ Len(b) = IF i + 1 <= n THEN n - (i + 1) + 1 ELSE 0
        /\ \A k \in 1..n - (i + 1) + 1 : b[k] = s[(i + 1) + k - 1]
    <3> HIDE DEF n
    <3>1. b = SubSeq(s, i + 1, n)
      BY DEF n
    <3> HIDE DEF b
    <3> QED BY <2>1, <2>2, <1>1, <3>1, SubSeqProperties
  <2> HIDE DEF b, n
  <2>4. n - (i + 1) + 1 = n - i /\ (i + 1 > n => n - i = 0)
    BY <1>1
  <2>5. \A k \in 1..n - i : (i + 1) + k - 1 = i + k
    BY <1>1
  <2> QED BY <2>3, <2>4, <2>5, <1>1
<1>4. RemoveAt(s, i) = f \o b
  BY DEF RemoveAt
<1> HIDE DEF f, b, n
<1>5. DOMAIN f = 1..i - 1 /\ DOMAIN b = 1..n - i
  BY <1>1, <1>2, <1>3
<1>6. \A j, k \in 1..n : s[j] = s[k] => j = k
  BY <1>1 DEF IsInjective
<1>7. IsInjective(f)
  <2> SUFFICES ASSUME NEW j \in 1..i - 1, NEW k \in 1..i - 1, f[j] = f[k]
               PROVE  j = k
    BY <1>5 DEF IsInjective
  <2>1. j \in 1..n /\ k \in 1..n
    BY <1>1
  <2> QED BY <2>1, <1>2, <1>6
<1>8. IsInjective(b)
  <2> SUFFICES ASSUME NEW j \in 1..n - i, NEW k \in 1..n - i, b[j] = b[k]
               PROVE  j = k
    BY <1>5 DEF IsInjective
  <2>1. i + j \in 1..n /\ i + k \in 1..n
    BY <1>1
  <2>2. i + j = i + k
    BY <2>1, <1>3, <1>6
  <2> QED BY <2>2, <1>1
<1>9. ToSet(f) \cap ToSet(b) = {}
  <2> SUFFICES ASSUME NEW j \in 1..i - 1, NEW k \in 1..n - i, f[j] = b[k]
               PROVE  FALSE
    BY <1>5 DEF ToSet
  <2>1. j \in 1..n /\ i + k \in 1..n /\ j # i + k
    BY <1>1
  <2> QED BY <2>1, <1>2, <1>3, <1>6
<1>10. ToSet(f) \cup ToSet(b) = ToSet(s) \ {s[i]}
  <2>1. ASSUME NEW j \in 1..i - 1 PROVE f[j] \in ToSet(s) \ {s[i]}
    <3>1. j \in 1..n /\ j # i
      BY <1>1
    <3> QED BY <3>1, <1>1, <1>2, <1>6 DEF ToSet
  <2>2. ASSUME NEW k \in 1..n - i PROVE b[k] \in ToSet(s) \ {s[i]}
    <3>1. i + k \in 1..n /\ i + k # i
      BY <1>1
    <3> QED BY <3>1, <1>1, <1>3, <1>6 DEF ToSet
  <2>3. ASSUME NEW j \in 1..n, s[j] # s[i]
        PROVE  s[j] \in ToSet(f) \cup ToSet(b)
    <3>1. CASE j < i
      <4>1. j \in 1..i - 1
        BY <3>1, <1>1
      <4> QED BY <4>1, <1>2, <1>5 DEF ToSet
    <3>2. CASE j > i
      <4>1. j - i \in 1..n - i /\ i + (j - i) = j
        BY <3>2, <1>1
      <4> QED BY <4>1, <1>3, <1>5 DEF ToSet
    <3>3. j # i
      BY <2>3
    <3> QED BY <3>1, <3>2, <3>3, <1>1
  <2> QED BY <2>1, <2>2, <2>3, <1>1, <1>5 DEF ToSet
<1> QED BY <1>2, <1>3, <1>4, <1>7, <1>8, <1>9, <1>10, ConcatQueue

\* A queue that has as many entries as another one of which it holds no more
\* than the elements, each once, has them all.
LEMMA FullQueue ==
  ASSUME NEW S, NEW s \in Seq(S), NEW t \in Seq(S),
         IsInjective(s), IsInjective(t),
         ToSet(s) \subseteq ToSet(t)
  PROVE  /\ Len(s) <= Len(t)
         /\ Len(s) = Len(t) => ToSet(s) = ToSet(t)
<1>1. ASSUME NEW q \in Seq(S), IsInjective(q)
      PROVE  IsFiniteSet(ToSet(q)) /\ Cardinality(ToSet(q)) = Len(q)
  <2>1. Len(q) \in Nat /\ q \in [1..Len(q) -> S]
    OBVIOUS
  <2>2. q \in [1..Len(q) -> ToSet(q)]
    BY <2>1 DEF ToSet
  <2>3. q \in Surjection(1..Len(q), ToSet(q))
    BY <2>2 DEF Surjection, ToSet
  <2>4. q \in Injection(1..Len(q), ToSet(q))
    BY <2>2, <1>1 DEF Injection, IsInjective
  <2>5. IsFiniteSet(1..Len(q)) /\ Cardinality(1..Len(q)) = Len(q)
    <3>1. \A n \in Nat : IsFiniteSet(1..n) /\ Cardinality(1..n) = n
      BY FS_Interval
    <3> QED BY <2>1, <3>1
  <2> QED BY <2>3, <2>4, <2>5, FS_Surjection
<1>2. /\ IsFiniteSet(ToSet(s)) /\ Cardinality(ToSet(s)) = Len(s)
      /\ IsFiniteSet(ToSet(t)) /\ Cardinality(ToSet(t)) = Len(t)
  BY <1>1
<1> QED BY <1>2, FS_Subset

\* A set of numbers that is not empty has a least one.
LEMMA Least ==
  ASSUME NEW T \in SUBSET Nat, T # {}
  PROVE  \E x \in T : \A y \in T : x <= y
<1>1. PICK x \in T : \A y \in T : <<y, x>> \notin OpToRel(<, Nat)
  BY WFMin, NatLessThanWellFounded
<1>2. \A y \in T : ~(y < x)
  BY <1>1 DEF OpToRel
<1> QED BY <1>2

\* Three queues, one behind the other.
LEMMA ThreeQueues ==
  ASSUME NEW S, NEW s \in Seq(S), NEW t \in Seq(S), NEW u \in Seq(S)
  PROVE  /\ s \o t \o u \in Seq(S)
         /\ ToSet(s \o t \o u) = ToSet(s) \cup ToSet(t) \cup ToSet(u)
         /\ IsInjective(s \o t \o u) <=>
              /\ IsInjective(s) /\ IsInjective(t) /\ IsInjective(u)
              /\ ToSet(s) \cap ToSet(t) = {} /\ ToSet(s) \cap ToSet(u) = {}
              /\ ToSet(t) \cap ToSet(u) = {}
         /\ s \o t \o u = << >> <=> s = << >> /\ t = << >> /\ u = << >>
<1>1. /\ s \o t \in Seq(S) /\ ToSet(s \o t) = ToSet(s) \cup ToSet(t)
      /\ IsInjective(s \o t) <=> /\ IsInjective(s) /\ IsInjective(t)
                                 /\ ToSet(s) \cap ToSet(t) = {}
  BY ConcatQueue
<1>2. /\ s \o t \o u \in Seq(S)
      /\ ToSet(s \o t \o u) = ToSet(s \o t) \cup ToSet(u)
      /\ IsInjective(s \o t \o u) <=> /\ IsInjective(s \o t) /\ IsInjective(u)
                                      /\ ToSet(s \o t) \cap ToSet(u) = {}
  BY <1>1, ConcatQueue
<1>3. Len(s \o t \o u) = Len(s) + Len(t) + Len(u)
  BY <1>1, ConcatProperties
<1>4. \A q \in Seq(S) : Len(q) \in Nat /\ (q = << >> <=> Len(q) = 0)
  BY EmptySeq
<1>5. s \o t \o u = << >> <=> s = << >> /\ t = << >> /\ u = << >>
  BY <1>2, <1>3, <1>4
<1> QED BY <1>1, <1>2, <1>5
-----------------------------------------------------------------------------
(* Numbers.                                                                *)

\* A quotient and a remainder.
LEMMA Division ==
  ASSUME NEW x \in Nat, NEW a \in Nat \ {0}
  PROVE  /\ x \div a \in Nat /\ x % a \in 0..a - 1
         /\ x = a * (x \div a) + (x % a)
         /\ x - (x % a) = a * (x \div a)
OBVIOUS

\* Two multiples of a number are at least that number apart.
LEMMA MultiplesApart ==
  ASSUME NEW a \in Nat \ {0}, NEW p \in Int, NEW q \in Int, p < q
  PROVE  a * p + a <= a * q
<1>1. PICK d \in Nat : q = p + 1 + d
  <2>1. q - p - 1 \in Nat /\ q = p + 1 + (q - p - 1)
    OBVIOUS
  <2> QED BY <2>1
<1>2. a * q = a * p + a + a * d
  BY <1>1
<1>3. a * d \in Nat /\ a * p \in Int
  OBVIOUS
<1> QED BY <1>2, <1>3

\* A multiple has no remainder.
LEMMA MultiplesAligned ==
  ASSUME NEW a \in Nat \ {0}, NEW q \in Nat
  PROVE  a * q \in Nat /\ (a * q) % a = 0 /\ (a * q) \div a = q
<1> DEFINE x == a * q
<1>1. x \in Nat /\ x = a * q
  OBVIOUS
<1> HIDE DEF x
<1> DEFINE k == x \div a
           m == x % a
<1>2. k \in Nat /\ m \in 0..a - 1 /\ x = a * k + m
  BY <1>1, Division
<1>3. x % a = m /\ x \div a = k
  OBVIOUS
<1> HIDE DEF k, m
<1>4. a * k \in Nat /\ a * q \in Nat
  BY <1>2
<1>5. ASSUME k < q PROVE FALSE
  <2>1. a * k + a <= a * q
    BY <1>2, <1>5, MultiplesApart
  <2> QED BY <2>1, <1>1, <1>2, <1>4
<1>6. ASSUME q < k PROVE FALSE
  <2>1. a * q + a <= a * k
    BY <1>2, <1>6, MultiplesApart
  <2> QED BY <2>1, <1>1, <1>2, <1>4
<1>7. k = q
  BY <1>2, <1>5, <1>6
<1>8. m = 0
  BY <1>1, <1>2, <1>4, <1>7
<1> QED BY <1>1, <1>3, <1>7, <1>8 DEF x

\* Multiples are in the order of the quotients.
LEMMA MultiplesOrder ==
  ASSUME NEW a \in Nat \ {0}, NEW p \in Nat, NEW q \in Nat
  PROVE  a * p < a * q <=> p < q
<1>1. a * p \in Nat /\ a * q \in Nat
  BY MultiplesAligned
<1>2. CASE p < q
  <2>1. a * p + a <= a * q
    BY <1>2, MultiplesApart
  <2> QED BY <1>1, <1>2, <2>1
<1>3. CASE q < p
  <2>1. a * q + a <= a * p
    BY <1>3, MultiplesApart
  <2> QED BY <1>1, <1>3, <2>1
<1>4. CASE p = q
  BY <1>1, <1>4
<1> QED BY <1>2, <1>3, <1>4
=============================================================================
