--------------------------------- MODULE Facts ---------------------------------
(* What the proofs need to know of sequences, queues and numbers, whatever is modelled, *)
(* and theorems about the functions on frames and lists of windows (Frames), which are  *)
(* about their values alone and of no state.                                            *)
(*                                                                                      *)
(* There is no induction over the length of a list: a recursive function is shown to    *)
(* exist (StepsExist) and to be right at each place (OneByOne) by the least place at    *)
(* which it would not be (LeastNumber).                                                 *)
EXTENDS Frames, Naturals, Sequences, FiniteSets, SequenceTheorems, FiniteSetTheorems,
        WellFoundedInduction, TLAPS

--------------------------------------------------------------------------------
(* Sequences. *)

LEMMA AppendOne ==
  ASSUME NEW S, NEW s \in Seq(S), NEW e \in S
  PROVE  /\ Append(s, e) \in Seq(S) /\ Append(s, e) # <<>>
         /\ Len(s) \in Nat /\ Len(Append(s, e)) = Len(s) + 1
         /\ Append(s, e)[Len(s) + 1] = e
         /\ \A i \in 1..Len(s) : Append(s, e)[i] = s[i]
  BY AppendProperties, LenProperties

LEMMA HeadTail ==
  ASSUME NEW S, NEW s \in Seq(S), s # <<>>
  PROVE  /\ s[1] \in S /\ Head(s) = s[1] /\ Tail(s) \in Seq(S)
         /\ Len(s) \in Nat \ {0} /\ Len(Tail(s)) = Len(s) - 1
         /\ \A i \in 1..Len(s) - 1 : Tail(s)[i] = s[i + 1]
         /\ Tail(s) = <<>> <=> Len(s) = 1
  <1>1. /\ Head(s) = s[1] /\ Head(s) \in S /\ Tail(s) \in Seq(S)
        /\ Len(s) \in Nat \ {0} /\ Len(Tail(s)) = Len(s) - 1
        /\ \A i \in 1..Len(s) - 1 : Tail(s)[i] = s[i + 1]
    BY HeadTailProperties, LenProperties, EmptySeq
  <1>2. Tail(s) = <<>> <=> Len(Tail(s)) = 0
    BY <1>1, EmptySeq
  <1> QED BY <1>1, <1>2

--------------------------------------------------------------------------------
(* Queues. *)

\* No message of the queue is in S; the last one that is in S is in T.
Lacks(q, S) == \A i \in DOMAIN q : q[i] \notin S
EndsIn(q, S, T) ==
    \E i \in DOMAIN q : q[i] \in T /\ \A j \in DOMAIN q : j > i => q[j] \notin S

LEMMA EmptyQueue == \A S, T : Lacks(<<>>, S) /\ ~EndsIn(<<>>, S, T)
  BY DEF Lacks, EndsIn

LEMMA EndsIsNotLacks ==
  ASSUME NEW q, NEW S, NEW T, T \subseteq S, EndsIn(q, S, T)
  PROVE  ~Lacks(q, S)
  BY DEF Lacks, EndsIn

LEMMA AppendQueue ==
  ASSUME NEW M, NEW q \in Seq(M), NEW m \in M, NEW S, NEW T
  PROVE  /\ Append(q, m) \in Seq(M) /\ Append(q, m) # <<>>
         /\ Lacks(Append(q, m), S) <=> Lacks(q, S) /\ m \notin S
         /\ m \in T => EndsIn(Append(q, m), S, T)
         /\ m \notin S /\ EndsIn(q, S, T) => EndsIn(Append(q, m), S, T)
  <1> DEFINE a == Append(q, m)
  <1>1. /\ Len(q) \in Nat /\ DOMAIN q = 1..Len(q) /\ DOMAIN a = 1..(Len(q) + 1)
        /\ \A i \in 1..Len(q) : a[i] = q[i]
        /\ a[Len(q) + 1] = m
        /\ a \in Seq(M) /\ a # <<>>
    BY AppendProperties, LenProperties
  <1> HIDE DEF a
  <1>2. /\ \A i \in 1..(Len(q) + 1) : i = Len(q) + 1 \/ i \in 1..Len(q)
        /\ \A i \in 1..Len(q) : i \in 1..(Len(q) + 1)
        /\ Len(q) + 1 \in 1..(Len(q) + 1)
        /\ \A i \in 1..(Len(q) + 1) : ~(i > Len(q) + 1)
    BY <1>1
  <1>3. Lacks(a, S) <=> Lacks(q, S) /\ m \notin S
    BY <1>1, <1>2 DEF Lacks
  <1>4. m \in T => EndsIn(a, S, T)
    BY <1>1, <1>2 DEF EndsIn
  <1>5. ASSUME m \notin S, EndsIn(q, S, T) PROVE EndsIn(a, S, T)
    <2>1. PICK i \in DOMAIN q : q[i] \in T /\ \A j \in DOMAIN q : j > i => q[j] \notin S
      BY <1>5 DEF EndsIn
    <2>2. i \in DOMAIN a /\ a[i] \in T /\ \A j \in DOMAIN a : j > i => a[j] \notin S
      BY <1>1, <1>2, <1>5, <2>1
    <2> QED BY <2>2 DEF EndsIn
  <1> QED BY <1>1, <1>3, <1>4, <1>5 DEF a

LEMMA TailQueue ==
  ASSUME NEW M, NEW q \in Seq(M), q # <<>>, NEW S, NEW T
  PROVE  /\ Head(q) \in M /\ Tail(q) \in Seq(M)
         /\ Lacks(q, S) <=> Head(q) \notin S /\ Lacks(Tail(q), S)
         /\ EndsIn(q, S, T) => EndsIn(Tail(q), S, T) \/ (Head(q) \in T /\ Lacks(Tail(q), S))
         /\ EndsIn(Tail(q), S, T) => EndsIn(q, S, T)
  <1> DEFINE a == Tail(q)
  <1>1. /\ Len(q) \in Nat \ {0} /\ DOMAIN q = 1..Len(q) /\ Head(q) = q[1]
        /\ DOMAIN a = 1..(Len(q) - 1)
        /\ \A i \in 1..(Len(q) - 1) : a[i] = q[i + 1]
        /\ Head(q) \in M /\ a \in Seq(M)
    BY HeadTailProperties, LenProperties, EmptySeq
  <1> HIDE DEF a
  <1>2. /\ \A i \in DOMAIN a : i \in Int /\ i + 1 \in DOMAIN q /\ i + 1 > 1 /\ a[i] = q[i + 1]
        /\ \A i \in DOMAIN q : i \in Int /\ (i = 1 \/ (i > 1 /\ i - 1 \in DOMAIN a))
        /\ 1 \in DOMAIN q
    BY <1>1
  <1>3. \A i \in DOMAIN q : i = 1 \/ a[i - 1] = q[i]
    BY <1>2
  <1>4. Lacks(q, S) <=> Head(q) \notin S /\ Lacks(a, S)
    BY <1>1, <1>2, <1>3 DEF Lacks
  <1>5. ASSUME EndsIn(q, S, T) PROVE EndsIn(a, S, T) \/ (Head(q) \in T /\ Lacks(a, S))
    <2>1. PICK i \in DOMAIN q : q[i] \in T /\ \A j \in DOMAIN q : j > i => q[j] \notin S
      BY <1>5 DEF EndsIn
    <2>2. CASE i = 1
      BY <1>1, <1>2, <2>1, <2>2 DEF Lacks
    <2>3. CASE i # 1
      <3>1. i - 1 \in DOMAIN a /\ a[i - 1] \in T
        BY <1>2, <1>3, <2>1, <2>3
      <3>2. \A j \in DOMAIN a : j > i - 1 => a[j] \notin S
        BY <1>2, <2>1
      <3> QED BY <3>1, <3>2 DEF EndsIn
    <2> QED BY <2>2, <2>3
  <1>6. ASSUME EndsIn(a, S, T) PROVE EndsIn(q, S, T)
    <2>1. PICK i \in DOMAIN a : a[i] \in T /\ \A j \in DOMAIN a : j > i => a[j] \notin S
      BY <1>6 DEF EndsIn
    <2>2. i + 1 \in DOMAIN q /\ q[i + 1] \in T
      BY <1>2, <2>1
    <2>3. \A j \in DOMAIN q : j > i + 1 => q[j] \notin S
      <3> SUFFICES ASSUME NEW j \in DOMAIN q, j > i + 1 PROVE q[j] \notin S
        OBVIOUS
      <3>1. j # 1 /\ j - 1 \in DOMAIN a /\ j - 1 > i
        BY <1>2, <2>1
      <3> QED BY <1>3, <2>1, <3>1
    <2> QED BY <2>2, <2>3 DEF EndsIn
  <1> QED BY <1>1, <1>4, <1>5, <1>6 DEF a

LEMMA TwoMessages ==
  ASSUME NEW M, NEW m \in M, NEW n \in M
  PROVE  <<m>> \o <<n>> = <<m, n>>
  <1>1. /\ <<m>> \in Seq(M) /\ <<n>> \in Seq(M) /\ <<m, n>> \in Seq(M)
        /\ Len(<<m>>) = 1 /\ Len(<<m, n>>) = 2
    OBVIOUS
  <1>2. /\ <<m>> \o <<n>> = Append(<<m>>, n)
        /\ Append(<<m>>, n) \in Seq(M) /\ Len(Append(<<m>>, n)) = 2
        /\ Append(<<m>>, n)[1] = <<m>>[1] /\ Append(<<m>>, n)[2] = n
    BY <1>1, AppendIsConcat, AppendProperties
  <1>3. \A i \in 1..Len(<<m, n>>) : <<m, n>>[i] = Append(<<m>>, n)[i]
    <2>1. 1..Len(<<m, n>>) = {1, 2}
      BY <1>1
    <2>2. <<m>>[1] = m /\ <<m, n>>[1] = m /\ <<m, n>>[2] = n
      OBVIOUS
    <2> QED BY <1>2, <2>1, <2>2
  <1>4. Append(<<m>>, n) = <<m, n>>
    BY <1>1, <1>2, <1>3, SeqEqual
  <1> QED BY <1>2, <1>4

\* One or two messages are sent with \o.
LEMMA ConcatQueue ==
  ASSUME NEW M, NEW q \in Seq(M), NEW m \in M, NEW n \in M
  PROVE  /\ q \o <<m>> = Append(q, m)
         /\ q \o <<m, n>> = Append(Append(q, m), n)
         /\ q \o <<>> = q
  <1>1. q \o <<m>> = Append(q, m)
    BY AppendIsConcat
  <1>2. Append(q, m) \o <<n>> = Append(Append(q, m), n)
    BY AppendIsConcat, AppendProperties
  <1>3. (q \o <<m>>) \o <<n>> = q \o (<<m>> \o <<n>>)
    BY ConcatAssociative
  <1>4. <<m>> \o <<n>> = <<m, n>>
    BY TwoMessages
  <1>5. q \o <<>> = q
    BY ConcatEmptySeq
  <1> QED BY <1>1, <1>2, <1>3, <1>4, <1>5

--------------------------------------------------------------------------------
(* Numbers. *)

\* Among numbers there is a least one: what stands for induction here.
LEMMA LeastNumber ==
  ASSUME NEW T, T \subseteq Nat, T # {}
  PROVE  \E x \in T : \A y \in T : x <= y
  <1>1. PICK x \in T : \A y \in T : <<y, x>> \notin OpToRel(<, Nat)
    BY NatLessThanWellFounded, WFMin, Zenon
  <1>2. \A y \in T : ~(y < x)
    <2> TAKE y \in T
    <2>1. <<y, x>> \in Nat \X Nat /\ <<y, x>>[1] = y /\ <<y, x>>[2] = x
      OBVIOUS
    <2>2. y < x => <<y, x>> \in OpToRel(<, Nat)
      BY <2>1 DEF OpToRel
    <2> QED BY <1>1, <2>2
  <1>3. \A y \in T : x <= y
    BY <1>2
  <1> QED BY <1>3

\* How many numbers there are from one to another, and that more of them than there are
\* values to take do not all take different ones.
LEMMA NumbersBetween ==
  ASSUME NEW a \in Nat, NEW k \in Nat
  PROVE  /\ IsFiniteSet(1..k) /\ Cardinality(1..k) = k
         /\ IsFiniteSet(a..(a + k)) /\ Cardinality(a..(a + k)) = k + 1
  <1>1. /\ IsFiniteSet(1..k) /\ Cardinality(1..k) = IF 1 > k THEN 0 ELSE k - 1 + 1
    BY FS_Interval
  <1>2. a + k \in Int
    OBVIOUS
  <1>3. /\ IsFiniteSet(a..(a + k))
        /\ Cardinality(a..(a + k)) = IF a > a + k THEN 0 ELSE (a + k) - a + 1
    BY FS_Interval, <1>2
  <1> QED BY <1>1, <1>3

LEMMA TwoTakeTheSame ==
  ASSUME NEW a \in Nat, NEW k \in Nat, NEW f \in [a..(a + k) -> 1..k]
  PROVE  \E x, y \in a..(a + k) : x # y /\ f[x] = f[y]
  <1>1. Cardinality(1..k) < Cardinality(a..(a + k))
    BY NumbersBetween
  <1> QED BY <1>1, NumbersBetween, FS_PigeonHole, Zenon

--------------------------------------------------------------------------------
(* Recursive functions over numbers, and more of sequences and numbers. *)

\* What a recursion over the first n numbers takes for its values exists, if each step stays
\* within a set.
Steps(n, D) == [1..n -> [D -> D]]
Follow(f, n, base, step) == f[0] = base /\ \A i \in 1..n : f[i] = step[i][f[i - 1]]

LEMMA StepsExist ==
  ASSUME NEW n \in Nat, NEW D, NEW base \in D, NEW step \in Steps(n, D)
  PROVE  \E f \in [0..n -> D] : Follow(f, n, base, step)
  <1> DEFINE Upto(k, f) == f \in [0..k -> D] /\ f[0] = base /\ \A i \in 1..k : f[i] = step[i][f[i - 1]]
             T == {k \in 0..n : ~\E f : Upto(k, f)}
  <1>1. T = {}
    <2> SUFFICES ASSUME T # {} PROVE FALSE
      OBVIOUS
    <2>1. PICK k \in T : \A j \in T : k <= j
      <3>1. T \subseteq Nat
        OBVIOUS
      <3> HIDE DEF T
      <3> QED BY <3>1, LeastNumber
    <2>2. k \in 0..n /\ ~\E f : Upto(k, f)
      BY <2>1
    <2>3. k # 0
      <3> DEFINE e == [i \in 0..0 |-> base]
      <3>1. e \in [0..0 -> D] /\ e[0] = base
        OBVIOUS
      <3>2. Upto(0, e)
        <4> HIDE DEF e
        <4> QED BY <3>1
      <3> HIDE DEF e, Upto
      <3> QED BY <2>2, <3>2
    <2>4. k - 1 \in 0..n /\ ~(k <= k - 1) /\ k \in 1..n /\ 0 \in 0..(k - 1)
      BY <2>2, <2>3
    <2>5. k - 1 \notin T
      <3> HIDE DEF T
      <3> QED BY <2>1, <2>4
    <2>6. PICK f : Upto(k - 1, f)
      <3> HIDE DEF Upto
      <3> QED BY <2>4, <2>5
    <2> DEFINE next == step[k][f[k - 1]]
               h == [i \in 0..k |-> IF i = k THEN next ELSE f[i]]
    <2>7. next \in D
      <3>1. f[k - 1] \in D
        BY <2>4, <2>6
      <3>2. step[k] \in [D -> D]
        BY <2>4 DEF Steps
      <3> QED BY <3>1, <3>2
    <2>8. \A i \in 0..(k - 1) : h[i] = f[i] /\ f[i] \in D
      <3> HIDE DEF next
      <3> QED BY <2>4, <2>6
    <2>9. h[k] = next
      <3> HIDE DEF next
      <3> QED BY <2>4
    <2>10. h \in [0..k -> D]
      <3>1. \A i \in 0..k : i # k => i \in 0..(k - 1)
        BY <2>4
      <3>2. \A i \in 0..k : (IF i = k THEN next ELSE f[i]) \in D
        <4> HIDE DEF next, h
        <4> QED BY <2>7, <2>8, <3>1
      <3> HIDE DEF next
      <3> QED BY <3>2
    <2>11. h[0] = base
      BY <2>4, <2>6, <2>8
    <2>12. \A i \in 1..k : h[i] = step[i][h[i - 1]]
      <3> SUFFICES ASSUME NEW i \in 1..k PROVE h[i] = step[i][h[i - 1]]
        OBVIOUS
      <3>1. i - 1 \in 0..(k - 1) /\ (i # k => i \in 1..(k - 1) /\ i \in 0..(k - 1))
        BY <2>4
      <3>2. h[i - 1] = f[i - 1]
        BY <2>8, <3>1
      <3>3. CASE i = k
        <4> HIDE DEF h
        <4> QED BY <2>9, <3>2, <3>3
      <3>4. CASE i # k
        <4>1. f[i] = step[i][f[i - 1]] /\ h[i] = f[i]
          BY <2>6, <2>8, <3>1, <3>4
        <4> HIDE DEF h
        <4> QED BY <3>2, <4>1
      <3> QED BY <3>3, <3>4
    <2>13. Upto(k, h)
      <3> HIDE DEF h
      <3> QED BY <2>10, <2>11, <2>12
    <2> HIDE DEF Upto, h
    <2> QED BY <2>2, <2>13
  <1>2. n \in 0..n
    OBVIOUS
  <1>3. PICK f : Upto(n, f)
    <2> HIDE DEF Upto
    <2> QED BY <1>1, <1>2
  <1> QED BY <1>3 DEF Follow

\* Induction up to a number: a set that has 0, and with each number the next, has them all.
LEMMA OneByOne ==
  ASSUME NEW n \in Nat, NEW T, T \subseteq 0..n, 0 \in T, \A i \in 1..n : i - 1 \in T => i \in T
  PROVE  T = 0..n
  <1> DEFINE Rest == (0..n) \ T
  <1> SUFFICES ASSUME Rest # {} PROVE FALSE
    OBVIOUS
  <1>1. PICK k \in Rest : \A j \in Rest : k <= j
    <2>1. Rest \subseteq Nat
      OBVIOUS
    <2> HIDE DEF Rest
    <2> QED BY <2>1, LeastNumber
  <1>2. k \in 1..n /\ k - 1 \in 0..n /\ ~(k <= k - 1)
    BY <1>1
  <1>3. k - 1 \in T
    BY <1>1, <1>2
  <1> QED BY <1>1, <1>2, <1>3

LEMMA ExceptLen ==
  ASSUME NEW S, NEW s \in Seq(S), NEW i, NEW e, [s EXCEPT ![i] = e] \in Seq(S)
  PROVE  Len([s EXCEPT ![i] = e]) = Len(s)
  <1> DEFINE t == [s EXCEPT ![i] = e]
  <1>1. t \in Seq(S) /\ DOMAIN t = DOMAIN s
    OBVIOUS
  <1> HIDE DEF t
  <1>2. /\ Len(s) \in Nat /\ DOMAIN s = 1..Len(s)
        /\ Len(t) \in Nat /\ DOMAIN t = 1..Len(t)
    BY <1>1, LenProperties
  <1>3. Len(t) = Len(s)
    BY <1>1, <1>2
  <1> QED BY <1>3 DEF t

\* The queue q without its head, r.
IsTail(q, r) ==
    /\ 1 \in DOMAIN q
    /\ \A j \in DOMAIN q : j \in Nat /\ j >= 1 /\ (j = 1 \/ (j - 1 \in DOMAIN r /\ r[j - 1] = q[j]))
    /\ \A j \in DOMAIN r : j \in Nat /\ j >= 1 /\ j + 1 \in DOMAIN q /\ r[j] = q[j + 1]

LEMMA TailOf ==
  ASSUME NEW M, NEW q \in Seq(M), q # <<>>
  PROVE  IsTail(q, Tail(q)) /\ Head(q) = q[1] /\ q[1] \in M /\ Tail(q) \in Seq(M)
  <1> DEFINE r == Tail(q)
  <1>1. /\ q[1] \in M /\ Head(q) = q[1] /\ r \in Seq(M) /\ Len(q) \in Nat \ {0}
        /\ DOMAIN q = 1..Len(q) /\ DOMAIN r = 1..(Len(q) - 1)
        /\ \A i \in 1..(Len(q) - 1) : r[i] = q[i + 1]
    BY HeadTail, LenProperties
  <1> HIDE DEF r
  <1>2. ASSUME NEW j \in DOMAIN q
        PROVE  j \in Nat /\ j >= 1 /\ (j = 1 \/ (j - 1 \in DOMAIN r /\ r[j - 1] = q[j]))
    <2>1. j \in Nat /\ j >= 1 /\ (j = 1 \/ j - 1 \in DOMAIN r) /\ j - 1 + 1 = j
      BY <1>1
    <2> QED BY <1>1, <2>1
  <1>3. ASSUME NEW j \in DOMAIN r
        PROVE  j \in Nat /\ j >= 1 /\ j + 1 \in DOMAIN q /\ r[j] = q[j + 1]
    BY <1>1
  <1> QED BY <1>1, <1>2, <1>3 DEF IsTail, r

LEMMA Products ==
  ASSUME NEW k \in Nat, NEW l \in Nat, NEW m \in Nat
  PROVE  /\ k * m \in Nat /\ (k + 1) * m = k * m + m /\ (k + l) * m = k * m + l * m
         /\ k <= l => k * m <= l * m
  OBVIOUS

\* The greatest of some numbers that is not above one.
LEMMA GreatestBelow ==
  ASSUME NEW E, E \subseteq Int, NEW e0 \in E, NEW p \in Int, e0 <= p
  PROVE  \E e \in E : e <= p /\ \A d \in E : d <= p => d <= e
  <1> DEFINE gaps == {p - d : d \in {c \in E : c <= p}}
  <1>1. gaps \subseteq Nat /\ gaps # {}
    <2>1. \A d \in E : d \in Int
      OBVIOUS
    <2>2. \A d \in {c \in E : c <= p} : p - d \in Nat
      BY <2>1
    <2>3. p - e0 \in gaps
      OBVIOUS
    <2> QED BY <2>2, <2>3
  <1>2. PICK g \in gaps : \A h \in gaps : g <= h
    <2> HIDE DEF gaps
    <2> QED BY <1>1, LeastNumber
  <1>3. PICK e \in E : e <= p /\ g = p - e
    BY <1>2
  <1>4. ASSUME NEW d \in E, d <= p PROVE d <= e
    <2>1. p - d \in gaps
      BY <1>4
    <2>2. p - e <= p - d
      BY <1>2, <1>3, <2>1
    <2>3. d \in Int /\ e \in Int
      OBVIOUS
    <2> QED BY <2>2, <2>3
  <1> QED BY <1>3, <1>4

\* A number of steps back leads where that many steps forward came from.
LEMMA RoundAndBack ==
  ASSUME NEW n \in Nat \ {0}, NEW p \in 0..(n - 1)
  PROVE  /\ (p + 1) % n \in 0..(n - 1) /\ (p + (n - 1)) % n \in 0..(n - 1)
         /\ (((p + 1) % n) + (n - 1)) % n = p
  <1>1. (p + 1) % n = IF p = n - 1 THEN 0 ELSE p + 1
    <2>1. CASE p = n - 1
      <3>1. p + 1 = n
        BY <2>1
      <3>2. n % n = 0
        OBVIOUS
      <3> QED BY <2>1, <3>1, <3>2
    <2>2. CASE p # n - 1
      <3> DEFINE q == p + 1
      <3>1. q \in 0..(n - 1)
        BY <2>2
      <3> HIDE DEF q
      <3>2. q % n = q
        BY <3>1
      <3> QED BY <2>2, <3>2 DEF q
    <2> QED BY <2>1, <2>2
  <1>2. (p + (n - 1)) % n \in 0..(n - 1)
    <2> DEFINE s == p + (n - 1)
    <2>1. s \in Int
      OBVIOUS
    <2> HIDE DEF s
    <2>2. s % n \in 0..(n - 1)
      BY <2>1
    <2> QED BY <2>2 DEF s
  <1> DEFINE r == (p + 1) % n
  <1>3. r = IF p = n - 1 THEN 0 ELSE p + 1
    BY <1>1
  <1> HIDE DEF r
  <1>4. (r + (n - 1)) % n = p
    <2>1. CASE p = n - 1
      <3>1. r + (n - 1) = p
        BY <1>3, <2>1
      <3>2. p % n = p
        OBVIOUS
      <3> QED BY <3>1, <3>2
    <2>2. CASE p # n - 1
      <3>1. r + (n - 1) = p + n
        BY <1>3, <2>2
      <3>2. (p + n) % n = p
        OBVIOUS
      <3> QED BY <3>1, <3>2
    <2> QED BY <2>1, <2>2
  <1> QED BY <1>1, <1>2, <1>4 DEF r

--------------------------------------------------------------------------------
(* A queue of events that open and close a window. *)

\* The window, which is in this state, is open when the queue has been handled.
WillShow(q, state) ==
    \/ state = "shown" /\ \A j \in DOMAIN q : q[j] # "close"
    \/ \E j \in DOMAIN q : q[j] = "open" /\ \A k \in DOMAIN q : k > j => q[k] # "close"

LEMMA OpensLater ==
  ASSUME NEW S, NEW q \in Seq(S), NEW e \in S, NEW s
  PROVE  /\ Append(q, e) \in Seq(S)
         /\ e = "open" => WillShow(Append(q, e), s)
         /\ e # "close" /\ WillShow(q, s) => WillShow(Append(q, e), s)
  <1> DEFINE r == Append(q, e)
  <1>1. /\ r \in Seq(S) /\ Len(q) \in Nat /\ DOMAIN q = 1..Len(q)
        /\ DOMAIN r = 1..(Len(q) + 1) /\ r[Len(q) + 1] = e
        /\ \A j \in 1..Len(q) : r[j] = q[j]
    BY AppendOne, LenProperties
  <1> HIDE DEF r
  <1>2. /\ Len(q) + 1 \in DOMAIN r /\ \A k \in DOMAIN r : ~(k > Len(q) + 1)
        /\ \A k \in DOMAIN r : k \in DOMAIN q \/ k = Len(q) + 1
        /\ \A j \in DOMAIN q : j \in DOMAIN r
    BY <1>1
  <1>3. e = "open" => WillShow(r, s)
    BY <1>1, <1>2 DEF WillShow
  <1>4. ASSUME e # "close", WillShow(q, s) PROVE WillShow(r, s)
    BY <1>1, <1>2, <1>4 DEF WillShow
  <1> QED BY <1>1, <1>3, <1>4 DEF r

LEMMA OpensStill ==
  ASSUME NEW S, NEW q \in Seq(S), q # <<>>, NEW s, WillShow(q, s)
  PROVE  /\ Tail(q) \in Seq(S)
         /\ WillShow(Tail(q), "shown")
         /\ Head(q) # "open" => WillShow(Tail(q), s)
         /\ Head(q) = "close" => \A z : WillShow(Tail(q), z)
  <1> DEFINE r == Tail(q)
  <1>1. IsTail(q, r) /\ Head(q) = q[1] /\ r \in Seq(S)
    BY TailOf
  <1> HIDE DEF r
  <1>2. ASSUME \A j \in DOMAIN q : q[j] # "close" PROVE \A j \in DOMAIN r : r[j] # "close"
    BY <1>1, <1>2 DEF IsTail
  <1>3. ASSUME NEW j \in DOMAIN q, q[j] = "open", \A k \in DOMAIN q : k > j => q[k] # "close"
        PROVE  IF j = 1 THEN q[1] = "open" /\ \A i \in DOMAIN r : r[i] # "close"
                        ELSE \A z : WillShow(r, z)
    <2>1. CASE j = 1
      <3>1. \A i \in DOMAIN r : i + 1 \in DOMAIN q /\ i + 1 > j /\ r[i] = q[i + 1]
        BY <1>1, <2>1 DEF IsTail
      <3> QED BY <1>3, <2>1, <3>1
    <2>2. CASE j # 1
      <3>1. j - 1 \in DOMAIN r /\ r[j - 1] = "open"
        BY <1>1, <1>3, <2>2 DEF IsTail
      <3>2. \A i \in DOMAIN r : i > j - 1 => i + 1 \in DOMAIN q /\ i + 1 > j /\ r[i] = q[i + 1]
        BY <1>1, SMTT(30) DEF IsTail
      <3>3. \A i \in DOMAIN r : i > j - 1 => r[i] # "close"
        BY <1>3, <3>2
      <3> QED BY <2>2, <3>1, <3>3 DEF WillShow
    <2> QED BY <2>1, <2>2
  <1>4. 1 \in DOMAIN q
    BY <1>1 DEF IsTail
  <1>5. CASE s = "shown" /\ \A j \in DOMAIN q : q[j] # "close"
    BY <1>1, <1>2, <1>4, <1>5 DEF WillShow, r
  <1>6. CASE \E j \in DOMAIN q : q[j] = "open" /\ \A k \in DOMAIN q : k > j => q[k] # "close"
    <2>1. PICK j \in DOMAIN q : q[j] = "open" /\ \A k \in DOMAIN q : k > j => q[k] # "close"
      BY <1>6
    <2>2. CASE j = 1
      BY <1>1, <1>3, <2>1, <2>2 DEF WillShow, r
    <2>3. CASE j # 1
      BY <1>1, <1>3, <2>1, <2>3 DEF r
    <2> QED BY <2>2, <2>3
  <1> QED BY <1>5, <1>6 DEF WillShow

--------------------------------------------------------------------------------
(* What a frame leaves of another (Frames). *)

\* The four parts of a frame around an overlap cover, together, the points of the frame
\* outside the overlap.
LEMMA PartsCoverTheRest ==
    ASSUME NEW f \in Frame, NEW o \in Frame, NEW px \in Int, NEW py \in Int, Overlaps(f, o)
    PROVE  (Covers(f, px, py) /\ ~Covers(o, px, py)) <=>
             \/ Covers(Above(f, o), px, py) \/ Covers(Below(f, o), px, py)
             \/ Covers(LeftOf(f, o), px, py) \/ Covers(RightOf(f, o), px, py)
  BY DEF Frame, Overlaps, Covers, Above, Below, LeftOf, RightOf, Box, OverlapLeft, OverlapTop,
         OverlapRight, OverlapBottom, Larger, Smaller

\* A frame that covers a point has an area, and so does each part that covers one.
LEMMA CoveringIsValid ==
    ASSUME NEW f \in Frame, NEW px \in Int, NEW py \in Int, Covers(f, px, py)
    PROVE  ValidFrame(f)
  BY DEF Frame, Covers, ValidFrame

\* The parts of a frame are frames.
LEMMA PartsAreFrames ==
    ASSUME NEW f \in Frame, NEW o \in Frame
    PROVE  {Above(f, o), Below(f, o), LeftOf(f, o), RightOf(f, o)} \subseteq Frame
  BY DEF Frame, Above, Below, LeftOf, RightOf, Box, OverlapLeft, OverlapTop, OverlapRight,
         OverlapBottom, Larger, Smaller

\* Frames that do not overlap share no point.
LEMMA ApartSharesNothing ==
    ASSUME NEW f \in Frame, NEW o \in Frame, NEW px \in Int, NEW py \in Int, ~Overlaps(f, o)
    PROVE  ~(Covers(f, px, py) /\ Covers(o, px, py))
  BY DEF Frame, Overlaps, Covers, OverlapLeft, OverlapTop, OverlapRight, OverlapBottom,
         Larger, Smaller

\* What subtract_frame leaves of a frame are frames, and they cover exactly the points of
\* the frame that the occluder does not.
THEOREM SubtractFrameExact ==
    ASSUME NEW f \in Frame, NEW o \in Frame, NEW px \in Int, NEW py \in Int
    PROVE  /\ SubtractFrame(f, o) \subseteq Frame
           /\ (Covers(f, px, py) /\ ~Covers(o, px, py)) <=>
                \E g \in SubtractFrame(f, o) : Covers(g, px, py)
<1>1. CASE ~Overlaps(f, o)
  BY <1>1, ApartSharesNothing DEF SubtractFrame
<1>2. CASE Overlaps(f, o)
  <2> DEFINE Parts == {Above(f, o), Below(f, o), LeftOf(f, o), RightOf(f, o)}
  <2>1. SubtractFrame(f, o) = {g \in Parts : ValidFrame(g)}
    BY <1>2 DEF SubtractFrame
  <2>2. Parts \subseteq Frame
    BY PartsAreFrames
  <2>3. (\E g \in Parts : Covers(g, px, py)) <=>
          \E g \in Parts : ValidFrame(g) /\ Covers(g, px, py)
    BY <2>2, CoveringIsValid
  <2>4. (Covers(f, px, py) /\ ~Covers(o, px, py)) <=> \E g \in Parts : Covers(g, px, py)
    BY <1>2, PartsCoverTheRest
  <2> QED
    BY <2>1, <2>2, <2>3, <2>4
<1> QED
  BY <1>1, <1>2

\* One more occluder: what is left of what was left covers exactly the points that were
\* covered and that it does not cover, whatever was left.
THEOREM OneMoreOccluder ==
    ASSUME NEW left \in SUBSET Frame, NEW o \in Frame, NEW px \in Int, NEW py \in Int
    PROVE  (\E g \in UNION {SubtractFrame(f, o) : f \in left} : Covers(g, px, py)) <=>
             ((\E f \in left : Covers(f, px, py)) /\ ~Covers(o, px, py))
<1>1. \A f \in left : (\E g \in SubtractFrame(f, o) : Covers(g, px, py)) <=>
                        (Covers(f, px, py) /\ ~Covers(o, px, py))
  BY SubtractFrameExact
<1> QED
  BY <1>1

--------------------------------------------------------------------------------
(* What is left of a frame behind others, and the windows that are seen (Frames). *)

\* What is left of a frame after each of the occluders.
LEMMA FragmentsStep ==
  ASSUME NEW f \in Frame, NEW occluders \in Seq(Frame)
  PROVE  \E left \in [0..Len(occluders) -> SUBSET Frame] :
           /\ left[0] = {f} /\ Fragments(f, occluders) = left[Len(occluders)]
           /\ \A i \in 1..Len(occluders) :
                left[i] = UNION {SubtractFrame(g, occluders[i]) : g \in left[i - 1]}
  <1> DEFINE n == Len(occluders)
             Cut(S, i) == UNION {SubtractFrame(g, occluders[i]) : g \in S}
             step == [i \in 1..n |-> [S \in SUBSET Frame |-> Cut(S, i)]]
             Is(h) == h = [i \in 0..n |-> IF i = 0 THEN {f} ELSE Cut(h[i - 1], i)]
             left[i \in 0..n] == IF i = 0 THEN {f} ELSE Cut(left[i - 1], i)
  <1>1. n \in Nat /\ \A i \in 1..n : occluders[i] \in Frame
    BY LenProperties, ElementOfSeq
  <1>2. Fragments(f, occluders) = left[n]
    BY DEF Fragments
  <1>3. left = CHOOSE h : Is(h)
    OBVIOUS
  <1> HIDE DEF left, n
  <1>4. \A i \in 1..n : \A S \in SUBSET Frame : Cut(S, i) \in SUBSET Frame
    <2> SUFFICES ASSUME NEW i \in 1..n, NEW S \in SUBSET Frame, NEW g \in S
                 PROVE  SubtractFrame(g, occluders[i]) \subseteq Frame
      OBVIOUS
    <2>1. occluders[i] \in Frame /\ g \in Frame /\ 0 \in Int
      BY <1>1
    <2> QED BY <2>1, SubtractFrameExact
  <1>5. step \in [1..n -> [SUBSET Frame -> SUBSET Frame]]
    <2> HIDE DEF Cut
    <2> QED BY <1>4
  <1>6. \A i \in 1..n : \A S \in SUBSET Frame : step[i][S] = Cut(S, i)
    <2> HIDE DEF Cut
    <2> QED OBVIOUS
  <1>7. PICK h \in [0..n -> SUBSET Frame] : h[0] = {f} /\ \A i \in 1..n : h[i] = step[i][h[i - 1]]
    <2> DEFINE D == SUBSET Frame
               base == {f}
    <2>1. base \in D /\ step \in Steps(n, D)
      BY <1>5 DEF Steps
    <2> HIDE DEF step, D, base
    <2>2. \E h \in [0..n -> D] : Follow(h, n, base, step)
      BY <1>1, <2>1, StepsExist
    <2> QED BY <2>2 DEF D, base, Follow
  <1> HIDE DEF step
  <1>8. \A i \in 1..n : h[i] = Cut(h[i - 1], i)
    <2> SUFFICES ASSUME NEW i \in 1..n PROVE h[i] = Cut(h[i - 1], i)
      OBVIOUS
    <2>1. i - 1 \in 0..n
      BY <1>1
    <2>2. h[i - 1] \in SUBSET Frame
      BY <1>7, <2>1
    <2> HIDE DEF Cut
    <2> QED BY <1>6, <1>7, <2>2
  <1> HIDE DEF Cut
  <1>9. Is(h)
    <2>1. \A i \in 0..n : h[i] = IF i = 0 THEN {f} ELSE Cut(h[i - 1], i)
      <3>1. \A i \in 0..n : i # 0 => i \in 1..n
        BY <1>1
      <3> QED BY <1>7, <1>8, <3>1
    <2>2. h = [i \in 0..n |-> h[i]]
      BY <1>7
    <2> QED BY <2>1, <2>2
  <1>10. Is(left)
    <2> HIDE DEF Is
    <2> QED BY <1>3, <1>9
  <1> HIDE DEF Is
  <1>11. left[0] = {f} /\ \A i \in 1..n : left[i] = Cut(left[i - 1], i)
    <2>1. left = [i \in 0..n |-> IF i = 0 THEN {f} ELSE Cut(left[i - 1], i)]
      BY <1>10 DEF Is
    <2>2. 0 \in 0..n /\ \A i \in 1..n : i \in 0..n /\ i # 0
      BY <1>1
    <2>3. \A i \in 0..n : left[i] = IF i = 0 THEN {f} ELSE Cut(left[i - 1], i)
      BY <2>1
    <2> QED BY <2>2, <2>3
  <1> DEFINE T == {i \in 0..n : left[i] \in SUBSET Frame}
  <1>12. T = 0..n
    <2>1. 0 \in T
      BY <1>1, <1>11
    <2>2. \A i \in 1..n : i - 1 \in T => i \in T
      <3> SUFFICES ASSUME NEW i \in 1..n, i - 1 \in T PROVE i \in T
        OBVIOUS
      <3>1. left[i - 1] \in SUBSET Frame /\ i \in 0..n
        BY <1>1
      <3>2. left[i] \in SUBSET Frame
        BY <1>4, <1>11, <3>1
      <3> QED BY <3>1, <3>2
    <2>3. T \subseteq 0..n
      OBVIOUS
    <2> HIDE DEF T
    <2> QED BY <1>1, <2>1, <2>2, <2>3, OneByOne
  <1>13. left \in [0..n -> SUBSET Frame]
    <2>1. \A i \in 0..n : left[i] \in SUBSET Frame
      BY <1>12
    <2>2. left = [i \in 0..n |-> left[i]]
      BY <1>10 DEF Is
    <2> HIDE DEF T
    <2> QED BY <2>1, <2>2
  <1> QED BY <1>2, <1>11, <1>13 DEF n, Cut

\* visible_windows asks whether anything is left: what is left of a frame is points that no
\* occluder covers, all of them.
LEMMA FragmentsExact ==
  ASSUME NEW f \in Frame, ValidFrame(f), NEW occluders \in Seq(Frame)
  PROVE  (Fragments(f, occluders) # {}) <=>
           \E px, py \in Int : /\ Covers(f, px, py)
                               /\ \A i \in 1..Len(occluders) : ~Covers(occluders[i], px, py)
  <1> DEFINE n == Len(occluders)
             Open(px, py, k) == Covers(f, px, py) /\ \A i \in 1..k : ~Covers(occluders[i], px, py)
  <1>1. n \in Nat /\ \A i \in 1..n : occluders[i] \in Frame
    BY LenProperties, ElementOfSeq
  <1>2. PICK left \in [0..n -> SUBSET Frame] :
          /\ left[0] = {f} /\ Fragments(f, occluders) = left[n]
          /\ \A i \in 1..n : left[i] = UNION {SubtractFrame(g, occluders[i]) : g \in left[i - 1]}
    BY FragmentsStep
  <1> HIDE DEF n
  <1>3. ASSUME NEW px \in Int, NEW py \in Int
        PROVE  (\E g \in left[n] : Covers(g, px, py)) <=> Open(px, py, n)
    <2> DEFINE T == {k \in 0..n : (\E g \in left[k] : Covers(g, px, py)) <=> Open(px, py, k)}
    <2>1. 0 \in T
      BY <1>1, <1>2
    <2>2. ASSUME NEW k \in 1..n, k - 1 \in T PROVE k \in T
      <3>1. k - 1 \in 0..n /\ k \in 0..n /\ k \in 1..k
        BY <1>1
      <3>2. (\E g \in left[k - 1] : Covers(g, px, py)) <=> Open(px, py, k - 1)
        BY <2>2
      <3>3. left[k - 1] \in SUBSET Frame /\ occluders[k] \in Frame
            /\ left[k] = UNION {SubtractFrame(g, occluders[k]) : g \in left[k - 1]}
        BY <1>1, <1>2, <3>1
      <3>4. (\E g \in left[k] : Covers(g, px, py)) <=>
              (\E g \in left[k - 1] : Covers(g, px, py)) /\ ~Covers(occluders[k], px, py)
        BY <3>3, OneMoreOccluder
      <3>5. Open(px, py, k) <=> Open(px, py, k - 1) /\ ~Covers(occluders[k], px, py)
        <4>1. \A i \in 1..k : i # k => i \in 1..(k - 1)
          BY <1>1
        <4>2. \A i \in 1..(k - 1) : i \in 1..k
          BY <1>1
        <4> QED BY <3>1, <4>1, <4>2
      <3> HIDE DEF Open
      <3> QED BY <3>1, <3>2, <3>4, <3>5
    <2>3. T \subseteq 0..n
      OBVIOUS
    <2>4. T = 0..n
      <3> HIDE DEF T
      <3> QED BY <1>1, <2>1, <2>2, <2>3, OneByOne
    <2>5. n \in T
      BY <1>1, <2>4
    <2> HIDE DEF Open
    <2> QED BY <2>5
  <1>4. \A g \in left[n] : g \in Frame /\ ValidFrame(g)
    <2> DEFINE T == {k \in 0..n : \A g \in left[k] : ValidFrame(g)}
    <2>1. 0 \in T
      BY <1>1, <1>2
    <2>2. ASSUME NEW k \in 1..n, k - 1 \in T PROVE k \in T
      <3>1. k - 1 \in 0..n /\ k \in 0..n
        BY <1>1
      <3>2. \A g \in left[k - 1] : ValidFrame(g)
        BY <2>2
      <3>3. ASSUME NEW e \in left[k] PROVE ValidFrame(e)
        <4>1. PICK g \in left[k - 1] : e \in SubtractFrame(g, occluders[k])
          BY <1>2
        <4>2. ValidFrame(g)
          BY <3>2
        <4> QED BY <4>1, <4>2 DEF SubtractFrame
      <3> QED BY <3>1, <3>3
    <2>3. T \subseteq 0..n
      OBVIOUS
    <2>4. T = 0..n
      <3> HIDE DEF T
      <3> QED BY <1>1, <2>1, <2>2, <2>3, OneByOne
    <2>5. n \in T /\ left[n] \in SUBSET Frame
      BY <1>1, <1>2, <2>4
    <2> QED BY <2>5
  <1>5. ASSUME NEW g \in left[n] PROVE \E px, py \in Int : Open(px, py, n)
    <2>1. g \in Frame /\ ValidFrame(g)
      BY <1>4
    <2>2. g.x \in Int /\ g.y \in Int /\ Covers(g, g.x, g.y)
      BY <2>1 DEF Frame, ValidFrame, Covers
    <2> HIDE DEF Open
    <2> QED BY <1>3, <2>2
  <1>6. ASSUME NEW px \in Int, NEW py \in Int, Open(px, py, n) PROVE left[n] # {}
    <2> HIDE DEF Open
    <2> QED BY <1>3, <1>6
  <1>7. (left[n] # {}) <=> \E px, py \in Int : Open(px, py, n)
    <2> HIDE DEF Open
    <2> QED BY <1>5, <1>6
  <1> QED BY <1>2, <1>7 DEF n

\* A sequence of the windows at some places, in their order: at tells which place each has.
TakenAtPlaces(taken, windows, places, at) ==
  /\ at \in [1..Len(taken) -> places]
  /\ \A i \in 1..Len(taken) : taken[i] = windows[at[i]]
  /\ \A i, j \in 1..Len(taken) : i < j => at[i] < at[j]
  /\ \A p \in places : \E i \in 1..Len(taken) : at[i] = p

LEMMA OneMoreTaken ==
  ASSUME NEW S, NEW taken \in Seq(S), NEW windows, NEW at, NEW k \in Nat, windows[k] \in S,
         NEW places, places \subseteq 1..(k - 1), TakenAtPlaces(taken, windows, places, at)
  PROVE  /\ Append(taken, windows[k]) \in Seq(S)
         /\ \E a1 : TakenAtPlaces(Append(taken, windows[k]), windows, places \cup {k}, a1)
  <1> DEFINE new == Append(taken, windows[k])
             n == Len(taken)
             a1 == [i \in 1..(n + 1) |-> IF i = n + 1 THEN k ELSE at[i]]
  <1>1. /\ n \in Nat /\ new \in Seq(S) /\ Len(new) = n + 1 /\ new[n + 1] = windows[k]
        /\ \A i \in 1..n : new[i] = taken[i]
    BY LenProperties, AppendProperties
  <1> HIDE DEF new, n
  <1>2. \A i \in 1..(n + 1) : i = n + 1 \/ i \in 1..n
    BY <1>1
  <1>3. n + 1 \in 1..(n + 1) /\ \A i \in 1..n : i \in 1..(n + 1) /\ i # n + 1
    BY <1>1
  <1>4. at \in [1..n -> places] /\ \A i \in 1..n : at[i] \in places /\ at[i] \in Nat /\ at[i] < k
    <2>1. at \in [1..n -> places]
      BY DEF TakenAtPlaces, n
    <2>2. \A p \in places : p \in Nat /\ p < k
      OBVIOUS
    <2> QED BY <2>1, <2>2
  <1>5. a1[n + 1] = k /\ \A i \in 1..n : a1[i] = at[i]
    BY <1>3
  <1>6. a1 \in [1..(n + 1) -> places \cup {k}]
    BY <1>2, <1>4
  <1> HIDE DEF a1
  <1>7. \A i \in 1..(n + 1) : new[i] = windows[a1[i]]
    BY <1>1, <1>2, <1>5 DEF TakenAtPlaces, n
  <1>8. ASSUME NEW i \in 1..(n + 1), NEW j \in 1..(n + 1), i < j PROVE a1[i] < a1[j]
    <2>1. i \in 1..n
      BY <1>1, <1>8
    <2>2. CASE j = n + 1
      BY <1>4, <1>5, <2>1, <2>2
    <2>3. CASE j \in 1..n
      BY <1>5, <1>8, <2>1, <2>3 DEF TakenAtPlaces, n
    <2> QED BY <1>2, <2>2, <2>3
  <1>9. \A p \in places \cup {k} : \E i \in 1..(n + 1) : a1[i] = p
    <2> SUFFICES ASSUME NEW p \in places, p # k PROVE \E i \in 1..(n + 1) : a1[i] = p
      BY <1>3, <1>5
    <2>1. PICK i \in 1..n : at[i] = p
      BY DEF TakenAtPlaces, n
    <2> QED BY <1>3, <1>5, <2>1
  <1>10. TakenAtPlaces(new, windows, places \cup {k}, a1)
    BY <1>1, <1>6, <1>7, <1>8, <1>9 DEF TakenAtPlaces
  <1> QED BY <1>1, <1>10 DEF new

LEMMA AtPlacesFacts ==
  ASSUME NEW S, NEW windows \in Seq(S), NEW places, places \subseteq 1..Len(windows)
  PROVE  /\ AtPlaces(windows, places) \in Seq(S)
         /\ \E at : TakenAtPlaces(AtPlaces(windows, places), windows, places, at)
  <1> DEFINE n == Len(windows)
             D == Seq(S)
             Add(s, i) == IF i \in places THEN Append(s, windows[i]) ELSE s
             step == [i \in 1..n |-> [s \in D |-> Add(s, i)]]
             Is(h) == h = [i \in 0..n |-> IF i = 0 THEN <<>> ELSE Add(h[i - 1], i)]
             taken[i \in 0..n] == IF i = 0 THEN <<>> ELSE Add(taken[i - 1], i)
  <1>1. n \in Nat /\ \A i \in 1..n : windows[i] \in S
    BY LenProperties, ElementOfSeq
  <1>2. AtPlaces(windows, places) = taken[n]
    BY DEF AtPlaces
  <1>3. taken = CHOOSE h : Is(h)
    OBVIOUS
  <1> HIDE DEF taken, n
  <1>4. \A i \in 1..n : \A s \in D : Add(s, i) \in D
    BY <1>1, AppendProperties
  <1>5. <<>> \in D
    BY EmptySeq
  <1> HIDE DEF Add, D
  <1>6. step \in Steps(n, D) /\ \A i \in 1..n : \A s \in D : step[i][s] = Add(s, i)
    BY <1>4 DEF Steps
  <1> HIDE DEF step
  <1>7. PICK h \in [0..n -> D] : Follow(h, n, <<>>, step)
    <2> DEFINE base == <<>>
    <2>1. base \in D
      BY <1>5
    <2> HIDE DEF base
    <2>2. \E h \in [0..n -> D] : Follow(h, n, base, step)
      BY <1>1, <1>6, <2>1, StepsExist
    <2> QED BY <2>2 DEF base
  <1>8. h[0] = <<>> /\ \A i \in 1..n : h[i] = Add(h[i - 1], i)
    <2>1. \A i \in 1..n : i - 1 \in 0..n
      BY <1>1
    <2> QED BY <1>6, <1>7, <2>1 DEF Follow
  <1>9. Is(h)
    <2>1. \A i \in 0..n : h[i] = IF i = 0 THEN <<>> ELSE Add(h[i - 1], i)
      <3>1. \A i \in 0..n : i # 0 => i \in 1..n
        BY <1>1
      <3> QED BY <1>8, <3>1
    <2>2. h = [i \in 0..n |-> h[i]]
      BY <1>7
    <2> QED BY <2>1, <2>2
  <1>10. Is(taken)
    <2> HIDE DEF Is
    <2> QED BY <1>3, <1>9
  <1>11. taken[0] = <<>> /\ \A i \in 1..n : taken[i] = Add(taken[i - 1], i)
    <2>1. taken = [i \in 0..n |-> IF i = 0 THEN <<>> ELSE Add(taken[i - 1], i)]
      BY <1>10
    <2>2. 0 \in 0..n /\ \A i \in 1..n : i \in 0..n /\ i # 0
      BY <1>1
    <2>3. \A i \in 0..n : taken[i] = IF i = 0 THEN <<>> ELSE Add(taken[i - 1], i)
      BY <2>1
    <2> QED BY <2>2, <2>3
  <1> DEFINE upto(k) == places \cap 1..k
             Good(k) == taken[k] \in Seq(S) /\ \E at : TakenAtPlaces(taken[k], windows, upto(k), at)
             T == {k \in 0..n : Good(k)}
  <1>12. Good(0)
    <2>1. taken[0] = <<>> /\ taken[0] \in Seq(S) /\ Len(taken[0]) = 0
      BY <1>11, EmptySeq
    <2>2. upto(0) = {}
      OBVIOUS
    <2>3. TakenAtPlaces(taken[0], windows, upto(0), [i \in 1..0 |-> 0])
      <3> DEFINE at == [i \in 1..0 |-> 0]
      <3>1. at \in [1..0 -> {}] /\ 1..0 = {}
        OBVIOUS
      <3> HIDE DEF at
      <3>2. TakenAtPlaces(taken[0], windows, upto(0), at)
        BY <2>1, <2>2, <3>1 DEF TakenAtPlaces
      <3> QED BY <3>2 DEF at
    <2> QED BY <2>1, <2>3
  <1>13. ASSUME NEW k \in 1..n, Good(k - 1) PROVE Good(k)
    <2>1. PICK at : TakenAtPlaces(taken[k - 1], windows, upto(k - 1), at)
      BY <1>13
    <2>2. k \in Nat /\ windows[k] \in S /\ taken[k - 1] \in Seq(S)
      BY <1>1, <1>13
    <2>3. taken[k] = Add(taken[k - 1], k)
      BY <1>11
    <2>4. CASE k \notin places
      <3>1. taken[k] = taken[k - 1]
        BY <2>3, <2>4 DEF Add
      <3>2. upto(k) = upto(k - 1)
        BY <1>1, <2>4
      <3> HIDE DEF upto
      <3> QED BY <2>1, <2>2, <3>1, <3>2
    <2>5. CASE k \in places
      <3>1. taken[k] = Append(taken[k - 1], windows[k])
        BY <2>3, <2>5 DEF Add
      <3>2. upto(k) = upto(k - 1) \cup {k}
        BY <1>1, <2>5
      <3>3. upto(k - 1) \subseteq 1..(k - 1)
        OBVIOUS
      <3> HIDE DEF upto
      <3>4. /\ Append(taken[k - 1], windows[k]) \in Seq(S)
            /\ \E a1 : TakenAtPlaces(Append(taken[k - 1], windows[k]), windows, upto(k - 1) \cup {k}, a1)
        BY <2>1, <2>2, <3>3, OneMoreTaken
      <3> QED BY <3>1, <3>2, <3>4
    <2> QED BY <2>4, <2>5
  <1>14. T = 0..n
    <2>1. T \subseteq 0..n
      OBVIOUS
    <2>2. 0 \in T
      <3> HIDE DEF Good
      <3> QED BY <1>1, <1>12
    <2>3. \A k \in 1..n : k - 1 \in T => k \in T
      <3>1. \A k \in 1..n : k \in 0..n
        BY <1>1
      <3> HIDE DEF Good
      <3> QED BY <1>13, <3>1
    <2> HIDE DEF T
    <2> QED BY <1>1, <2>1, <2>2, <2>3, OneByOne
  <1>15. Good(n)
    <2>1. n \in 0..n
      BY <1>1
    <2> HIDE DEF Good
    <2> QED BY <1>14, <2>1
  <1>16. upto(n) = places
    BY DEF n
  <1> HIDE DEF upto
  <1> QED BY <1>2, <1>15, <1>16

\* The places of the windows of which a point can be seen, up to one.
ShownPlaces(windows, k) ==
  {i \in 1..k : \E px, py \in Int :
                  /\ Covers(windows[i].frame, px, py)
                  /\ \A j \in 1..(i - 1) : ~Covers(windows[j].frame, px, py)}

\* A window that is not behind those that are seen is not behind any.
LEMMA BehindTheSeen ==
  ASSUME NEW windows, NEW k \in Nat, NEW px \in Int, NEW py \in Int
  PROVE  (\A p \in ShownPlaces(windows, k) : ~Covers(windows[p].frame, px, py)) <=>
           (\A j \in 1..k : ~Covers(windows[j].frame, px, py))
  <1> DEFINE cov(j) == Covers(windows[j].frame, px, py)
             C == {j \in 1..k : cov(j)}
  <1>1. ASSUME C # {} PROVE \E p \in ShownPlaces(windows, k) : cov(p)
    <2>1. C \subseteq Nat
      OBVIOUS
    <2>2. PICK p \in C : \A j \in C : p <= j
      <3> HIDE DEF C
      <3> QED BY <1>1, <2>1, LeastNumber
    <2>3. p \in 1..k /\ cov(p)
      BY <2>2
    <2>4. \A j \in 1..(p - 1) : j \in 1..k /\ ~(p <= j)
      BY <2>3
    <2>5. \A j \in 1..(p - 1) : ~cov(j)
      BY <2>2, <2>4
    <2>6. p \in ShownPlaces(windows, k)
      BY <2>3, <2>5 DEF ShownPlaces
    <2> QED BY <2>3, <2>6
  <1>2. ShownPlaces(windows, k) \subseteq 1..k
    BY DEF ShownPlaces
  <1> HIDE DEF cov
  <1>3. (\A p \in ShownPlaces(windows, k) : ~cov(p)) <=> (\A j \in 1..k : ~cov(j))
    BY <1>1, <1>2
  <1> QED BY <1>3 DEF cov

\* One more window: whether anything is left of it behind those that are seen.
LEMMA OneMoreSeen ==
  ASSUME NEW windows \in Seq(DesktopWindow), NEW k \in 1..Len(windows)
  PROVE  ShownPlaces(windows, k) =
           IF /\ ValidFrame(windows[k].frame)
              /\ Fragments(windows[k].frame, FramesOf(AtPlaces(windows, ShownPlaces(windows, k - 1)))) # {}
           THEN ShownPlaces(windows, k - 1) \cup {k} ELSE ShownPlaces(windows, k - 1)
  <1> DEFINE places == ShownPlaces(windows, k - 1)
             front == AtPlaces(windows, places)
             f == windows[k].frame
             frames == FramesOf(front)
  <1>1. Len(windows) \in Nat /\ \A i \in 1..Len(windows) : windows[i] \in DesktopWindow
    BY LenProperties, ElementOfSeq
  <1>2. k \in Nat /\ k - 1 \in Nat /\ k \in 1..k /\ f \in Frame
    BY <1>1 DEF DesktopWindow
  <1>3. places \subseteq 1..(k - 1) /\ places \subseteq 1..Len(windows)
    BY <1>1 DEF ShownPlaces
  <1>4. front \in Seq(DesktopWindow) /\ \E at : TakenAtPlaces(front, windows, places, at)
    <2> HIDE DEF places
    <2> QED BY <1>3, AtPlacesFacts
  <1>5. PICK at : TakenAtPlaces(front, windows, places, at)
    BY <1>4
  <1> HIDE DEF front, places, f
  <1>6. frames \in Seq(Frame) /\ Len(frames) = Len(front)
        /\ \A i \in 1..Len(front) : frames[i] = windows[at[i]].frame
    <2>1. Len(front) \in Nat /\ DOMAIN front = 1..Len(front)
          /\ \A i \in 1..Len(front) : front[i] \in DesktopWindow
      BY <1>4, LenProperties, ElementOfSeq
    <2>2. \A i \in 1..Len(front) : front[i].frame \in Frame
      BY <2>1 DEF DesktopWindow
    <2>3. frames = [i \in 1..Len(front) |-> front[i].frame]
      BY <2>1 DEF FramesOf
    <2> DEFINE n == Len(front)
    <2>4. frames \in Seq(Frame) /\ Len(frames) = n
      <3> HIDE DEF n, frames
      <3>1. frames = [i \in 1..n |-> front[i].frame]
        BY <2>3 DEF n
      <3>2. n \in Nat /\ \A i \in 1..n : front[i].frame \in Frame
        BY <2>1, <2>2 DEF n
      <3>3. frames \in [1..n -> Frame]
        BY <3>1, <3>2
      <3>4. frames \in Seq(Frame)
        BY <3>2, <3>3, SeqDef
      <3> QED BY <3>2, <3>3, <3>4, LenProperties
    <2>5. \A i \in 1..Len(front) : front[i] = windows[at[i]]
      BY <1>5 DEF TakenAtPlaces
    <2> HIDE DEF frames
    <2> QED BY <2>3, <2>4, <2>5
  <1> HIDE DEF frames
  <1>7. ASSUME NEW px \in Int, NEW py \in Int
        PROVE  (\A i \in 1..Len(frames) : ~Covers(frames[i], px, py)) <=>
                 (\A j \in 1..(k - 1) : ~Covers(windows[j].frame, px, py))
    <2> DEFINE cov(j) == Covers(windows[j].frame, px, py)
    <2>1. (\A i \in 1..Len(frames) : ~Covers(frames[i], px, py)) <=>
            (\A i \in 1..Len(front) : ~cov(at[i]))
      BY <1>6
    <2>2. \A i \in 1..Len(front) : at[i] \in places
      BY <1>5 DEF TakenAtPlaces
    <2>3. \A p \in places : \E i \in 1..Len(front) : at[i] = p
      BY <1>5 DEF TakenAtPlaces
    <2>4. (\A p \in places : ~cov(p)) <=> (\A j \in 1..(k - 1) : ~cov(j))
      BY <1>2, BehindTheSeen DEF places
    <2> HIDE DEF cov
    <2>5. (\A i \in 1..Len(front) : ~cov(at[i])) <=> (\A p \in places : ~cov(p))
      BY <2>2, <2>3
    <2>6. (\A i \in 1..Len(frames) : ~Covers(frames[i], px, py)) <=> (\A j \in 1..(k - 1) : ~cov(j))
      BY <2>1, <2>4, <2>5
    <2> QED BY <2>6 DEF cov
  <1> DEFINE isShown == \E px, py \in Int :
               Covers(f, px, py) /\ \A j \in 1..(k - 1) : ~Covers(windows[j].frame, px, py)
  <1>8. ValidFrame(f) => (Fragments(f, frames) # {} <=> isShown)
    <2> SUFFICES ASSUME ValidFrame(f) PROVE Fragments(f, frames) # {} <=> isShown
      OBVIOUS
    <2>1. Fragments(f, frames) # {} <=>
            \E px, py \in Int : Covers(f, px, py) /\ \A i \in 1..Len(frames) : ~Covers(frames[i], px, py)
      BY <1>2, <1>6, FragmentsExact
    <2> QED BY <1>7, <2>1
  <1>9. isShown => ValidFrame(f)
    BY <1>2, CoveringIsValid
  <1>10. (ValidFrame(f) /\ Fragments(f, frames) # {}) <=> isShown
    <2> HIDE DEF isShown
    <2> QED BY <1>8, <1>9
  <1>11. ShownPlaces(windows, k) = IF isShown THEN places \cup {k} ELSE places
    <2> DEFINE seen(i) == \E px, py \in Int :
                 /\ Covers(windows[i].frame, px, py)
                 /\ \A j \in 1..(i - 1) : ~Covers(windows[j].frame, px, py)
    <2>1. isShown <=> seen(k)
      BY DEF f
    <2>2. ShownPlaces(windows, k) = {i \in 1..k : seen(i)} /\ places = {i \in 1..(k - 1) : seen(i)}
      BY DEF ShownPlaces, places
    <2>3. \A i : i \in 1..k <=> (i = k \/ i \in 1..(k - 1))
      BY <1>2
    <2> HIDE DEF seen, isShown
    <2> QED BY <2>1, <2>2, <2>3
  <1> HIDE DEF isShown
  <1> QED BY <1>10, <1>11 DEF f, frames, front, places

\* The places visible_windows keeps are those of the windows of which a point can be seen.
LEMMA SeenPlacesExact ==
  ASSUME NEW windows \in Seq(DesktopWindow)
  PROVE  SeenPlaces(windows) = ShownPlaces(windows, Len(windows))
  <1> DEFINE n == Len(windows)
             D == SUBSET (1..n)
             Keep(s, i) == IF /\ ValidFrame(windows[i].frame)
                              /\ Fragments(windows[i].frame, FramesOf(AtPlaces(windows, s))) # {}
                           THEN s \cup {i} ELSE s
             Is(h) == h = [i \in 0..n |-> IF i = 0 THEN {} ELSE Keep(h[i - 1], i)]
             seen[i \in 0..n] == IF i = 0 THEN {} ELSE Keep(seen[i - 1], i)
             h == [i \in 0..n |-> ShownPlaces(windows, i)]
  <1>1. n \in Nat
    BY LenProperties
  <1>2. SeenPlaces(windows) = seen[n]
    BY DEF SeenPlaces
  <1>3. seen = CHOOSE g : Is(g)
    OBVIOUS
  <1>4. \A i \in 1..n : ShownPlaces(windows, i) = Keep(ShownPlaces(windows, i - 1), i)
    BY OneMoreSeen
  <1>5. ShownPlaces(windows, 0) = {}
    BY DEF ShownPlaces
  <1> HIDE DEF seen, n, Keep
  <1>6. Is(h)
    <2>1. \A i \in 0..n : i # 0 => i \in 1..n /\ i - 1 \in 0..n
      BY <1>1
    <2>2. \A i \in 0..n : h[i] = ShownPlaces(windows, i)
      OBVIOUS
    <2>3. \A i \in 0..n : h[i] = IF i = 0 THEN {} ELSE Keep(h[i - 1], i)
      <3> HIDE DEF h
      <3> QED BY <1>4, <1>5, <2>1, <2>2
    <2>4. h = [i \in 0..n |-> h[i]]
      OBVIOUS
    <2> HIDE DEF h
    <2> QED BY <2>3, <2>4
  <1>7. Is(seen)
    <2> HIDE DEF Is, h
    <2> QED BY <1>3, <1>6
  <1>8. seen[0] = {} /\ \A i \in 1..n : seen[i] = Keep(seen[i - 1], i)
    <2>1. seen = [i \in 0..n |-> IF i = 0 THEN {} ELSE Keep(seen[i - 1], i)]
      BY <1>7
    <2>2. 0 \in 0..n /\ \A i \in 1..n : i \in 0..n /\ i # 0
      BY <1>1
    <2>3. \A i \in 0..n : seen[i] = IF i = 0 THEN {} ELSE Keep(seen[i - 1], i)
      BY <2>1
    <2> QED BY <2>2, <2>3
  <1> DEFINE T == {i \in 0..n : seen[i] = ShownPlaces(windows, i)}
  <1>9. T = 0..n
    <2>1. T \subseteq 0..n
      OBVIOUS
    <2>2. 0 \in T
      <3>1. 0 \in 0..n
        BY <1>1
      <3>2. seen[0] = ShownPlaces(windows, 0)
        <4> HIDE DEF Is, h
        <4> QED BY <1>5, <1>8
      <3> HIDE DEF Is, h
      <3> QED BY <3>1, <3>2
    <2>3. \A i \in 1..n : i - 1 \in T => i \in T
      <3>1. \A i \in 1..n : i \in 0..n
        BY <1>1
      <3> QED BY <1>4, <1>8, <3>1
    <2> HIDE DEF T
    <2> QED BY <1>1, <2>1, <2>2, <2>3, OneByOne
  <1>10. n \in T
    BY <1>1, <1>9
  <1> QED BY <1>2, <1>10 DEF n

LEMMA FirstAtIs ==
  ASSUME NEW windows, NEW places, places \subseteq Nat, NEW i \in places,
         \A j \in places : i <= j
  PROVE  FirstAt(windows, places) = <<windows[i]>>
  <1> DEFINE first(k) == k \in places /\ \A j \in places : k <= j
  <1>1. \A k : first(k) <=> k = i
    <2>1. first(i)
      OBVIOUS
    <2>2. ASSUME NEW k, first(k) PROVE k = i
      <3>1. k \in Nat /\ i \in Nat
        BY <2>2
      <3>2. k <= i /\ i <= k
        BY <2>2
      <3> QED BY <3>1, <3>2
    <2> HIDE DEF first
    <2> QED BY <2>1, <2>2
  <1>2. (CHOOSE k \in places : \A j \in places : k <= j) = i
    <2>1. (CHOOSE k : first(k)) = (CHOOSE k : k = i)
      <3> HIDE DEF first
      <3> QED BY <1>1
    <2> QED BY <2>1
  <1> QED BY <1>2 DEF FirstAt

LEMMA FirstAtOne ==
  ASSUME NEW windows, NEW places, places \subseteq Nat, places # {}
  PROVE  \E i \in places : FirstAt(windows, places) = <<windows[i]>> /\ \A j \in places : i <= j
  BY LeastNumber, FirstAtIs

\* The left and right edges of the windows, and the upper and lower ones.
XEdges(windows) == {windows[i].frame.x : i \in DOMAIN windows}
                     \cup {windows[i].frame.x + windows[i].frame.w : i \in DOMAIN windows}
YEdges(windows) == {windows[i].frame.y : i \in DOMAIN windows}
                     \cup {windows[i].frame.y + windows[i].frame.h : i \in DOMAIN windows}

\* A point that a window covers can be moved to a corner, and the same windows cover it.
LEMMA CornersSuffice ==
  ASSUME NEW windows \in Seq(DesktopWindow), NEW px \in Int, NEW py \in Int,
         NEW k \in DOMAIN windows, Covers(windows[k].frame, px, py)
  PROVE  \E ex \in XEdges(windows), ey \in YEdges(windows) :
           \A i \in DOMAIN windows :
             Covers(windows[i].frame, ex, ey) <=> Covers(windows[i].frame, px, py)
  <1> DEFINE X == XEdges(windows)
             Y == YEdges(windows)
             F(i) == windows[i].frame
  <1>1. \A i \in DOMAIN windows : F(i) \in Frame
    <2>1. \A i \in DOMAIN windows : windows[i] \in DesktopWindow
      BY LenProperties, ElementOfSeq
    <2> QED BY <2>1 DEF DesktopWindow
  <1>2. \A i \in DOMAIN windows :
          /\ F(i).x \in Int /\ F(i).y \in Int /\ F(i).w \in Int /\ F(i).h \in Int
          /\ F(i).x + F(i).w \in Int /\ F(i).y + F(i).h \in Int
    BY <1>1 DEF Frame
  <1>3. \A i \in DOMAIN windows : /\ F(i).x \in X /\ F(i).x + F(i).w \in X
                                  /\ F(i).y \in Y /\ F(i).y + F(i).h \in Y
    BY DEF XEdges, YEdges
  <1>4. X \subseteq Int /\ Y \subseteq Int
    BY <1>2 DEF XEdges, YEdges
  <1>5. F(k).x <= px /\ F(k).y <= py
    BY <1>2 DEF Covers
  <1> HIDE DEF X, Y, F
  <1>6. PICK ex \in X : ex <= px /\ \A d \in X : d <= px => d <= ex
    <2> DEFINE e0 == F(k).x
    <2>1. e0 \in X /\ e0 <= px
      BY <1>3, <1>5
    <2> HIDE DEF e0
    <2> QED BY <1>4, <2>1, GreatestBelow
  <1>7. PICK ey \in Y : ey <= py /\ \A d \in Y : d <= py => d <= ey
    <2> DEFINE e0 == F(k).y
    <2>1. e0 \in Y /\ e0 <= py
      BY <1>3, <1>5
    <2> HIDE DEF e0
    <2> QED BY <1>4, <2>1, GreatestBelow
  <1>8. ASSUME NEW i \in DOMAIN windows PROVE Covers(F(i), ex, ey) <=> Covers(F(i), px, py)
    <2> DEFINE l == F(i).x
               r == F(i).x + F(i).w
               t == F(i).y
               low == F(i).y + F(i).h
    <2>1. l \in Int /\ r \in Int /\ t \in Int /\ low \in Int /\ ex \in Int /\ ey \in Int
      BY <1>2, <1>4, <1>6, <1>7
    <2>2. (l <= px => l <= ex) /\ (r <= px => r <= ex) /\ (t <= py => t <= ey) /\ (low <= py => low <= ey)
      BY <1>3, <1>6, <1>7
    <2>3. Covers(F(i), ex, ey) <=> ex >= l /\ ex < r /\ ey >= t /\ ey < low
      BY DEF Covers
    <2>4. Covers(F(i), px, py) <=> px >= l /\ px < r /\ py >= t /\ py < low
      BY DEF Covers
    <2> HIDE DEF l, r, t, low
    <2> QED BY <1>6, <1>7, <2>1, <2>2, <2>3, <2>4
  <1> QED BY <1>6, <1>7, <1>8 DEF X, Y, F

DistinctIds(windows) ==
  \A i, j \in DOMAIN windows : i # j => windows[i].id # windows[j].id

\* The same, said of the windows.
From(taken, windows, places, at) ==
  /\ \A i \in DOMAIN taken : /\ at[i] \in places /\ at[i] \in DOMAIN windows
                              /\ at[i] \in Nat /\ taken[i] = windows[at[i]]
  /\ \A i, j \in DOMAIN taken : i < j => at[i] < at[j]
  /\ \A p \in places : \E i \in DOMAIN taken : at[i] = p

LEMMA TakenFrom ==
  ASSUME NEW windows \in Seq(DesktopWindow), NEW places \in SUBSET (1..Len(windows)),
         NEW taken \in Seq(DesktopWindow), NEW at, TakenAtPlaces(taken, windows, places, at)
  PROVE  From(taken, windows, places, at)
  <1>1. DOMAIN taken = 1..Len(taken) /\ DOMAIN windows = 1..Len(windows) /\ Len(windows) \in Nat
    BY LenProperties
  <1>2. \A p \in places : p \in DOMAIN windows /\ p \in Nat
    BY <1>1
  <1>3. \A i \in DOMAIN taken : at[i] \in places
    BY <1>1 DEF TakenAtPlaces
  <1>4. /\ \A i \in DOMAIN taken : taken[i] = windows[at[i]]
        /\ \A i, j \in DOMAIN taken : i < j => at[i] < at[j]
        /\ \A p \in places : \E i \in DOMAIN taken : at[i] = p
    BY <1>1 DEF TakenAtPlaces
  <1> QED BY <1>2, <1>3, <1>4 DEF From

\* The windows at some places are windows, each once, in their order.
LEMMA AtPlacesInOrder ==
  ASSUME NEW windows \in Seq(DesktopWindow), NEW places, places \subseteq 1..Len(windows)
  PROVE  LET taken == AtPlaces(windows, places) IN
         /\ taken \in Seq(DesktopWindow) /\ InOrder(taken, windows)
         /\ {taken[i] : i \in DOMAIN taken} = {windows[i] : i \in places}
         /\ DistinctIds(windows) => DistinctIds(taken)
  <1> DEFINE taken == AtPlaces(windows, places)
  <1>1. taken \in Seq(DesktopWindow) /\ \E at : TakenAtPlaces(taken, windows, places, at)
    BY AtPlacesFacts
  <1>2. PICK at : TakenAtPlaces(taken, windows, places, at)
    BY <1>1
  <1> HIDE DEF taken
  <1>3. DOMAIN taken = 1..Len(taken) /\ DOMAIN windows = 1..Len(windows) /\ Len(taken) \in Nat
        /\ Len(windows) \in Nat
    BY <1>1, LenProperties
  <1>4. /\ \A i \in DOMAIN taken : at[i] \in places /\ at[i] \in DOMAIN windows
                                   /\ at[i] \in Nat /\ taken[i] = windows[at[i]]
        /\ \A i, j \in DOMAIN taken : i < j => at[i] < at[j]
        /\ \A p \in places : \E i \in DOMAIN taken : at[i] = p
    <2>1. From(taken, windows, places, at)
      BY <1>1, <1>2, TakenFrom
    <2> QED BY <2>1 DEF From
  <1>5. InOrder(taken, windows)
    <2> SUFFICES ASSUME NEW i \in DOMAIN taken, NEW j \in DOMAIN taken, i < j
                 PROVE  \E k, l \in DOMAIN windows :
                          k < l /\ windows[k] = taken[i] /\ windows[l] = taken[j]
      BY DEF InOrder
    <2> QED BY <1>4
  <1>6. {taken[i] : i \in DOMAIN taken} = {windows[i] : i \in places}
    BY <1>4
  <1>7. ASSUME DistinctIds(windows) PROVE DistinctIds(taken)
    <2> SUFFICES ASSUME NEW i \in DOMAIN taken, NEW j \in DOMAIN taken, i # j
                 PROVE  taken[i].id # taken[j].id
      BY DEF DistinctIds
    <2>1. i \in Nat /\ j \in Nat
      BY <1>3
    <2>2. i < j \/ j < i
      BY <2>1
    <2>3. at[i] # at[j]
      BY <1>4, <2>2
    <2>4. windows[at[i]].id # windows[at[j]].id
      BY <1>4, <1>7, <2>3 DEF DistinctIds
    <2> QED BY <1>4, <2>4
  <1> QED BY <1>1, <1>5, <1>6, <1>7 DEF taken

LEMMA ShownAreThere ==
  ASSUME NEW windows, NEW k
  PROVE  ShownPlaces(windows, k) \subseteq 1..k
  BY DEF ShownPlaces

\* visible_windows: the windows of which a point can be seen, each once, in their order.
LEMMA VisibleWindowsExact ==
  ASSUME NEW windows \in Seq(DesktopWindow)
  PROVE  LET listed0 == VisibleWindows(windows) IN
         /\ listed0 \in Seq(DesktopWindow) /\ InOrder(listed0, windows)
         /\ {listed0[i] : i \in DOMAIN listed0} = {windows[i] : i \in ShownPlaces(windows, Len(windows))}
         /\ DistinctIds(windows) => DistinctIds(listed0)
  <1> DEFINE places == ShownPlaces(windows, Len(windows))
  <1>1. VisibleWindows(windows) = AtPlaces(windows, places)
    BY SeenPlacesExact DEF VisibleWindows
  <1>2. places \subseteq 1..Len(windows)
    BY ShownAreThere
  <1> HIDE DEF places
  <1>3. LET taken == AtPlaces(windows, places) IN
         /\ taken \in Seq(DesktopWindow) /\ InOrder(taken, windows)
         /\ {taken[i] : i \in DOMAIN taken} = {windows[i] : i \in places}
         /\ DistinctIds(windows) => DistinctIds(taken)
    BY <1>2, AtPlacesInOrder
  <1> QED BY <1>1, <1>3 DEF places

\* At most one window is seen at a point.
LEMMA OneIsSeen ==
  ASSUME NEW windows \in Seq(DesktopWindow), NEW px, NEW py, NEW k \in SeenAt(windows, px, py)
  PROVE  SeenAt(windows, px, py) = {k}
  <1> DEFINE S == SeenAt(windows, px, py)
  <1>1. \A i \in S : /\ i \in 1..Len(windows) /\ Covers(windows[i].frame, px, py)
                     /\ \A j \in 1..(i - 1) : ~Covers(windows[j].frame, px, py)
    BY LenProperties DEF SeenAt
  <1>2. Len(windows) \in Nat
    BY LenProperties
  <1> HIDE DEF S
  <1>3. ASSUME NEW i \in S, NEW j \in S PROVE ~(i < j)
    <2> SUFFICES ASSUME i < j PROVE FALSE
      OBVIOUS
    <2>1. i \in 1..(j - 1)
      BY <1>1, <1>2
    <2> QED BY <1>1, <2>1
  <1>4. ASSUME NEW i \in S PROVE i = k
    <2>1. k \in S
      BY DEF S
    <2>2. ~(i < k) /\ ~(k < i)
      BY <1>3, <2>1
    <2>3. i \in Nat /\ k \in Nat
      BY <1>1, <1>2, <2>1
    <2> QED BY <2>2, <2>3
  <1> QED BY <1>4 DEF S

\* The window that is found under the cursor among those of which a point can be seen is
\* the one that is seen there.
LEMMA CursorFindsTheSeen ==
  ASSUME NEW windows \in Seq(DesktopWindow), NEW px \in Int, NEW py \in Int
  PROVE  WindowAtCursor(VisibleWindows(windows), px, py) =
           IF SeenAt(windows, px, py) = {} THEN <<>>
           ELSE <<windows[CHOOSE i \in SeenAt(windows, px, py) : TRUE]>>
  <1> DEFINE places == ShownPlaces(windows, Len(windows))
             taken == VisibleWindows(windows)
             C == {i \in DOMAIN taken : Covers(taken[i].frame, px, py)}
             S == SeenAt(windows, px, py)
             cov(j) == Covers(windows[j].frame, px, py)
  <1>1. taken = AtPlaces(windows, places)
    BY SeenPlacesExact DEF VisibleWindows
  <1>2. places \subseteq 1..Len(windows)
    BY ShownAreThere
  <1> HIDE DEF places, taken
  <1>3. taken \in Seq(DesktopWindow) /\ \E at : TakenAtPlaces(taken, windows, places, at)
    BY <1>1, <1>2, AtPlacesFacts
  <1>4. PICK at : TakenAtPlaces(taken, windows, places, at)
    BY <1>3
  <1>5. DOMAIN taken = 1..Len(taken) /\ DOMAIN windows = 1..Len(windows) /\ Len(taken) \in Nat
        /\ Len(windows) \in Nat
    BY <1>3, LenProperties
  <1>6. /\ \A i \in DOMAIN taken : at[i] \in places /\ at[i] \in DOMAIN windows
                                   /\ at[i] \in Nat /\ taken[i] = windows[at[i]]
        /\ \A i, j \in DOMAIN taken : i < j => at[i] < at[j]
        /\ \A p \in places : \E i \in DOMAIN taken : at[i] = p
    <2>1. From(taken, windows, places, at)
      BY <1>2, <1>3, <1>4, TakenFrom
    <2> QED BY <2>1 DEF From
  <1>7. WindowAtCursor(taken, px, py) = FirstAt(taken, C)
    BY DEF WindowAtCursor
  <1>8. C \subseteq Nat /\ \A i \in C : i \in DOMAIN taken /\ cov(at[i])
    BY <1>5, <1>6
  <1>9. \A i \in DOMAIN taken : cov(at[i]) => i \in C
    BY <1>6
  <1> HIDE DEF C
  <1>10. S \subseteq places
    BY <1>5 DEF SeenAt, ShownPlaces, places
  <1>11. CASE S = {}
    <2>1. C = {}
      <3> SUFFICES ASSUME C # {} PROVE FALSE
        OBVIOUS
      <3>1. PICK i \in C : TRUE
        OBVIOUS
      <3> DEFINE all == {j \in 1..Len(windows) : cov(j)}
      <3>2. at[i] \in all
        BY <1>5, <1>6, <1>8
      <3>3. all \subseteq Nat
        OBVIOUS
      <3>4. PICK k \in all : \A j \in all : k <= j
        <4> HIDE DEF all
        <4> QED BY <3>2, <3>3, LeastNumber
      <3>5. k \in Nat /\ k \in DOMAIN windows /\ cov(k)
        BY <1>5, <3>4
      <3>6. \A j \in 1..(k - 1) : j \in 1..Len(windows) /\ ~(k <= j)
        BY <1>5, <3>5
      <3>7. \A j \in 1..(k - 1) : ~cov(j)
        BY <3>4, <3>6
      <3>8. k \in S
        BY <3>5, <3>7 DEF SeenAt
      <3> QED BY <1>11, <3>8
    <2> QED BY <1>7, <1>11, <2>1 DEF FirstAt, taken
  <1>12. CASE S # {}
    <2>1. PICK k \in S : TRUE
      BY <1>12
    <2>2. S = {k}
      BY <2>1, OneIsSeen
    <2>3. (CHOOSE i \in S : TRUE) = k
      BY <2>2
    <2>4. cov(k) /\ k \in DOMAIN windows /\ \A j \in 1..(k - 1) : ~cov(j)
      BY <2>1 DEF SeenAt
    <2>5. PICK i \in DOMAIN taken : at[i] = k
      BY <1>6, <1>10
    <2>6. i \in C
      BY <1>9, <2>4, <2>5
    <2>7. ASSUME NEW j \in C PROVE i <= j
      <3>0. i \in Nat /\ j \in Nat
        BY <1>8, <2>6
      <3> SUFFICES ASSUME j < i PROVE FALSE
        BY <3>0
      <3>1. at[j] < k /\ at[j] \in DOMAIN windows /\ cov(at[j])
        BY <1>6, <1>8, <2>5
      <3>2. at[j] \in 1..(k - 1)
        BY <1>5, <2>4, <3>1
      <3> QED BY <2>4, <3>1, <3>2
    <2> HIDE DEF S, cov
    <2>8. FirstAt(taken, C) = <<taken[i]>>
      BY <1>8, <2>6, <2>7, FirstAtIs
    <2>9. taken[i] = windows[k]
      BY <1>6, <2>5
    <2>10. WindowAtCursor(taken, px, py) = <<windows[CHOOSE j \in S : TRUE]>>
      BY <1>7, <2>3, <2>8, <2>9
    <2> QED BY <1>12, <2>10 DEF S, taken
  <1> QED BY <1>11, <1>12

--------------------------------------------------------------------------------
(* The next window and the one before (Frames). *)

LEMMA FirstAtAlone ==
  ASSUME NEW windows, NEW i \in Nat
  PROVE  FirstAt(windows, {i}) = <<windows[i]>>
  <1> DEFINE D == {i}
  <1>1. D \subseteq Nat /\ i \in D /\ \A j \in D : i <= j
    OBVIOUS
  <1> HIDE DEF D
  <1>2. FirstAt(windows, D) = <<windows[i]>>
    BY <1>1, FirstAtIs
  <1> QED BY <1>2 DEF D

\* The window after or before one that is there.
LEMMA CycleFrom ==
  ASSUME NEW windows \in Seq(DesktopWindow), DistinctIds(windows), NEW i \in DOMAIN windows,
         NEW forward \in BOOLEAN
  PROVE  CycleWindow(windows, windows[i].id, forward) =
           <<windows[IF forward THEN (i % Len(windows)) + 1
                     ELSE IF i = 1 THEN Len(windows) ELSE i - 1]>>
  <1> DEFINE n == Len(windows)
             alike == {k \in 1..n : windows[k].id = windows[i].id}
             first(k) == k \in alike /\ \A j \in alike : k <= j
             C == CHOOSE k \in alike : \A j \in alike : k <= j
             next == IF alike = {} THEN (IF forward THEN 1 ELSE n)
                     ELSE LET k == C IN IF forward THEN (k % n) + 1 ELSE IF k = 1 THEN n ELSE k - 1
  <1>1. n \in Nat /\ DOMAIN windows = 1..n /\ i \in 1..n /\ n # 0
    BY LenProperties
  <1>2. CycleWindow(windows, windows[i].id, forward) = IF n = 0 THEN <<>> ELSE <<windows[next]>>
    BY DEF CycleWindow
  <1>3. alike = {i}
    BY <1>1 DEF DistinctIds
  <1>4. C = i
    <2>1. \A k : first(k) <=> k = i
      BY <1>1, <1>3
    <2>2. (CHOOSE k : first(k)) = (CHOOSE k : k = i)
      <3> HIDE DEF first
      <3> QED BY <2>1
    <2> QED BY <2>2
  <1> HIDE DEF C, alike, n
  <1>5. alike # {}
    BY <1>3
  <1> QED BY <1>1, <1>2, <1>4, <1>5 DEF n

\* It is one of the windows, if there are any.
LEMMA CycleStays ==
  ASSUME NEW windows \in Seq(DesktopWindow), NEW id, NEW forward \in BOOLEAN
  PROVE  \/ CycleWindow(windows, id, forward) = <<>>
         \/ \E i \in DOMAIN windows : CycleWindow(windows, id, forward) = <<windows[i]>>
  <1> DEFINE n == Len(windows)
             alike == {k \in 1..n : windows[k].id = id}
             C == CHOOSE k \in alike : \A j \in alike : k <= j
             next == IF alike = {} THEN (IF forward THEN 1 ELSE n)
                     ELSE LET k == C IN IF forward THEN (k % n) + 1 ELSE IF k = 1 THEN n ELSE k - 1
  <1>1. n \in Nat /\ DOMAIN windows = 1..n
    BY LenProperties
  <1>2. CycleWindow(windows, id, forward) = IF n = 0 THEN <<>> ELSE <<windows[next]>>
    BY DEF CycleWindow
  <1>3. alike # {} => C \in alike
    <2>1. alike \subseteq Nat
      OBVIOUS
    <2> HIDE DEF alike
    <2> QED BY <2>1, LeastNumber
  <1>4. alike # {} => C \in 1..n
    BY <1>3
  <1> HIDE DEF C, alike, n
  <1>5. n # 0 => next \in 1..n
    <2> SUFFICES ASSUME n # 0 PROVE next \in 1..n
      OBVIOUS
    <2>1. \A k \in 1..n : (k % n) + 1 \in 1..n
      <3> SUFFICES ASSUME NEW k \in 1..n PROVE (k % n) + 1 \in 1..n
        OBVIOUS
      <3>1. k % n \in 0..(n - 1)
        BY <1>1
      <3> QED BY <1>1, <3>1
    <2>2. CASE alike = {}
      BY <1>1, <2>2
    <2>3. CASE alike # {}
      <3> DEFINE m == (C % n) + 1
      <3>1. m \in 1..n /\ C \in 1..n
        BY <1>4, <2>1, <2>3
      <3> HIDE DEF m
      <3>2. next = IF forward THEN m ELSE IF C = 1 THEN n ELSE C - 1
        BY <2>3 DEF m
      <3> HIDE DEF next
      <3> QED BY <1>1, <3>1, <3>2
    <2> QED BY <2>2, <2>3
  <1> HIDE DEF next
  <1> QED BY <1>1, <1>2, <1>5

\* The arrow keys lead to the next window and back.
LEMMA CycleBack ==
  ASSUME NEW windows \in Seq(DesktopWindow), DistinctIds(windows), NEW i \in DOMAIN windows
  PROVE  CycleWindow(windows, CycleWindow(windows, windows[i].id, TRUE)[1].id, FALSE) = <<windows[i]>>
  <1> DEFINE n == Len(windows)
             k == (i % n) + 1
  <1>1. n \in Nat /\ DOMAIN windows = 1..n /\ i \in 1..n
    BY LenProperties
  <1>2. CycleWindow(windows, windows[i].id, TRUE) = <<windows[k]>>
    BY CycleFrom
  <1>3. k = IF i = n THEN 1 ELSE i + 1
    <2>1. n \in Nat \ {0} /\ i \in 1..n
      BY <1>1
    <2> HIDE DEF n
    <2>2. i = n => i % n = 0
      BY <2>1
    <2>3. i # n => i % n = i
      BY <2>1
    <2> QED BY <2>1, <2>2, <2>3
  <1>4. k \in DOMAIN windows
    <2> HIDE DEF n, k
    <2> QED BY <1>1, <1>3
  <1>5. i = IF k = 1 THEN n ELSE k - 1
    <2> HIDE DEF n, k
    <2> QED BY <1>1, <1>3
  <1> HIDE DEF k
  <1>6. CycleWindow(windows, windows[k].id, FALSE) = <<windows[IF k = 1 THEN n ELSE k - 1]>>
    BY <1>4, CycleFrom
  <1>7. CycleWindow(windows, windows[i].id, TRUE)[1] = windows[k]
    <2> DEFINE w == windows[k]
               c == CycleWindow(windows, windows[i].id, TRUE)
    <2>1. c = <<w>>
      BY <1>2
    <2> HIDE DEF w, c
    <2>2. c[1] = w
      BY <2>1
    <2> QED BY <2>2 DEF w, c
  <1> HIDE DEF n
  <1> QED BY <1>5, <1>6, <1>7

\* At most one of the windows.
OneOf(found, windows) == found = <<>> \/ \E i \in DOMAIN windows : found = <<windows[i]>>

LEMMA FirstIsOne ==
  ASSUME NEW S, NEW windows \in Seq(S), NEW places, places \subseteq DOMAIN windows
  PROVE  OneOf(FirstAt(windows, places), windows)
  <1>1. DOMAIN windows = 1..Len(windows) /\ Len(windows) \in Nat
    BY LenProperties
  <1>2. places \subseteq Nat
    BY <1>1
  <1>3. CASE places = {}
    BY <1>3 DEF FirstAt, OneOf
  <1>4. CASE places # {}
    <2>1. PICK i \in places : FirstAt(windows, places) = <<windows[i]>>
      BY <1>2, <1>4, FirstAtOne
    <2> QED BY <2>1 DEF OneOf
  <1> QED BY <1>3, <1>4

LEMMA AtCursorIsOne ==
  ASSUME NEW S, NEW windows \in Seq(S), NEW px, NEW py
  PROVE  OneOf(WindowAtCursor(windows, px, py), windows)
  <1> DEFINE places == {i \in DOMAIN windows : Covers(windows[i].frame, px, py)}
  <1>1. places \subseteq DOMAIN windows
    OBVIOUS
  <1>2. WindowAtCursor(windows, px, py) = FirstAt(windows, places)
    BY DEF WindowAtCursor
  <1> HIDE DEF places
  <1> QED BY <1>1, <1>2, FirstIsOne
================================================================================
