-------------------------- MODULE LinkedListLemmas --------------------------
(***************************************************************************)
(* What the operations on lists do, for the proofs about the kernel module *)
(* and about the helper.                                                   *)
(***************************************************************************)
EXTENDS LinkedLists, SequenceTheorems, TLAPS

(***************************************************************************)
(* What the list operations do, position by position.                      *)
(***************************************************************************)

\* list_add_tail keeps every entry where it is and adds one at the end.
LEMMA AppendFacts ==
  ASSUME NEW S, NEW s \in Seq(S), NEW e \in S
  PROVE  /\ Append(s, e) \in Seq(S)
         /\ Len(Append(s, e)) = Len(s) + 1
         /\ \A i \in 1..Len(s) : Append(s, e)[i] = s[i]
         /\ Append(s, e)[Len(s) + 1] = e
  BY AppendProperties, SMTT(30)

\* list_del of the first entry moves every other one forward by one.
LEMMA TailFacts ==
  ASSUME NEW S, NEW s \in Seq(S), s # <<>>
  PROVE  /\ Head(s) \in S /\ Head(s) = s[1]
         /\ Len(s) \in Nat /\ Len(s) >= 1
         /\ Tail(s) \in Seq(S)
         /\ Len(Tail(s)) = Len(s) - 1
         /\ \A i \in 1..(Len(s) - 1) : Tail(s)[i] = s[i + 1]
  BY HeadTailProperties, EmptySeq, SMTT(30)

\* list_del of the i-th entry keeps the others, in their order.
LEMMA DelAtFacts ==
  ASSUME NEW S, NEW s \in Seq(S), NEW i \in 1..Len(s)
  PROVE  /\ DelAt(s, i) \in Seq(S)
         /\ Len(DelAt(s, i)) = Len(s) - 1
         /\ \A j \in 1..(Len(s) - 1) :
              DelAt(s, i)[j] = IF j < i THEN s[j] ELSE s[j + 1]
<1> DEFINE A == SubSeq(s, 1, i - 1)
           B == SubSeq(s, i + 1, Len(s))
           C == A \o B
<1>1. Len(s) \in Nat /\ i \in Nat /\ 1 <= i /\ i <= Len(s)
  OBVIOUS
<1>2. A \in Seq(S) /\ Len(A) = i - 1 /\ \A j \in 1..(i - 1) : A[j] = s[j]
  BY <1>1, SubSeqProperties, SMTT(30)
<1>3. /\ B \in Seq(S) /\ Len(B) = Len(s) - i
      /\ \A j \in 1..(Len(s) - i) : B[j] = s[i + j]
  BY <1>1, SubSeqProperties, SMTT(30)
<1>4. DelAt(s, i) = C
  BY SMTT(30) DEF DelAt
<1> HIDE DEF A, B
<1>5. /\ C \in Seq(S)
      /\ Len(C) = Len(A) + Len(B)
      /\ \A j \in 1..(Len(A) + Len(B)) :
           C[j] = IF j <= Len(A) THEN A[j] ELSE B[j - Len(A)]
  BY <1>2, <1>3, ConcatProperties, ZenonT(60)
<1> HIDE DEF C
<1>6. Len(C) = Len(s) - 1
  BY <1>1, <1>2, <1>3, <1>5, SMTT(30)
<1>7. ASSUME NEW j \in 1..(Len(s) - 1)
      PROVE  C[j] = IF j < i THEN s[j] ELSE s[j + 1]
  <2>1. CASE j < i
    BY <2>1, <1>1, <1>2, <1>3, <1>5, SMTT(30)
  <2>2. CASE j >= i
    <3>1. C[j] = B[j - (i - 1)]
      <4>1. j \in 1..(Len(A) + Len(B)) /\ ~(j <= Len(A))
        BY <2>2, <1>1, <1>2, <1>3, SMTT(30)
      <4>2. C[j] = B[j - Len(A)]
        BY <4>1, <1>5, SMTT(30)
      <4> QED
        BY <4>2, <1>2, SMTT(30)
    <3>2. j - (i - 1) \in 1..(Len(s) - i) /\ i + (j - (i - 1)) = j + 1
      BY <2>2, <1>1, SMTT(30)
    <3>3. C[j] = s[j + 1]
      BY <3>1, <3>2, <1>3, SMTT(30)
    <3> QED
      BY <2>2, <3>3, <1>1, SMTT(30)
  <2> QED
    BY <2>1, <2>2, <1>1, SMTT(30)
<1> QED
  BY <1>4, <1>5, <1>6, <1>7, SMTT(30)

\* The same for the sets of entries, in lists without duplicates.
LEMMA AppendSet ==
  ASSUME NEW S, NEW s \in Seq(S), NEW e \in S, IsInjective(s), e \notin Range(s)
  PROVE  /\ Append(s, e) \in Seq(S)
         /\ IsInjective(Append(s, e))
         /\ Range(Append(s, e)) = Range(s) \cup {e}
<1> DEFINE a == Append(s, e)
<1>1. /\ Len(s) \in Nat /\ DOMAIN s = 1..Len(s)
      /\ a \in Seq(S) /\ Len(a) = Len(s) + 1
      /\ \A i \in 1..Len(s) : a[i] = s[i]
      /\ a[Len(s) + 1] = e
  BY AppendFacts, LenProperties, SMTT(30)
<1>2. DOMAIN a = 1..(Len(s) + 1)
  BY <1>1, LenProperties, SMTT(30)
<1> HIDE DEF a
<1>3. \A i \in 1..Len(s) : s[i] # e
  BY <1>1, SMTT(30) DEF Range
<1>4. IsInjective(a)
  BY <1>1, <1>2, <1>3, SMTT(30) DEF IsInjective
<1>5. Range(a) = Range(s) \cup {e}
  BY <1>1, <1>2, SMTT(30) DEF Range
<1> QED
  BY <1>1, <1>4, <1>5, SMTT(30) DEF a

\* kgpu_read takes the first entry of a list away.
LEMMA TailSet ==
  ASSUME NEW S, NEW s \in Seq(S), s # <<>>, IsInjective(s)
  PROVE  /\ Head(s) \in S /\ Head(s) \in Range(s)
         /\ Tail(s) \in Seq(S)
         /\ IsInjective(Tail(s))
         /\ Range(Tail(s)) = Range(s) \ {Head(s)}
<1> DEFINE b == Tail(s)
<1>1. /\ Len(s) \in Nat /\ Len(s) >= 1 /\ DOMAIN s = 1..Len(s)
      /\ Head(s) \in S /\ Head(s) = s[1]
      /\ b \in Seq(S) /\ Len(b) = Len(s) - 1
      /\ \A i \in 1..(Len(s) - 1) : b[i] = s[i + 1]
  BY TailFacts, LenProperties, SMTT(30)
<1>2. DOMAIN b = 1..(Len(s) - 1)
  BY <1>1, LenProperties, SMTT(30)
<1> HIDE DEF b
<1>3. IsInjective(b)
  <2> SUFFICES ASSUME NEW i \in 1..(Len(s) - 1), NEW j \in 1..(Len(s) - 1),
                      b[i] = b[j]
               PROVE  i = j
    BY <1>2, SMTT(30) DEF IsInjective
  <2>1. i + 1 \in 1..Len(s) /\ j + 1 \in 1..Len(s) /\ s[i + 1] = s[j + 1]
    BY <1>1, SMTT(30)
  <2>2. i + 1 = j + 1
    BY <1>1, <2>1, SMTT(30) DEF IsInjective
  <2> QED
    BY <2>2, SMTT(30)
<1>4. ASSUME NEW x \in Range(b) PROVE x \in Range(s) \ {s[1]}
  <2>1. PICK i \in 1..(Len(s) - 1) : b[i] = x
    BY <1>2, SMTT(30) DEF Range
  <2>2. i + 1 \in 1..Len(s) /\ 1 \in 1..Len(s) /\ i + 1 # 1 /\ s[i + 1] = x
    BY <1>1, <2>1, SMTT(30)
  <2>3. x # s[1]
    BY <1>1, <2>2, SMTT(30) DEF IsInjective
  <2> QED
    BY <1>1, <2>2, <2>3, SMTT(30) DEF Range
<1>5. ASSUME NEW x \in Range(s) \ {s[1]} PROVE x \in Range(b)
  <2>1. PICK i \in 1..Len(s) : s[i] = x
    BY <1>1, SMTT(30) DEF Range
  <2>2. i - 1 \in 1..(Len(s) - 1) /\ (i - 1) + 1 = i
    BY <1>1, <2>1, SMTT(30)
  <2>3. b[i - 1] = x
    BY <1>1, <2>1, <2>2, SMTT(30)
  <2> QED
    BY <1>2, <2>2, <2>3, SMTT(30) DEF Range
<1>6. s[1] \in Range(s)
  BY <1>1, SMTT(30) DEF Range
<1>7. Range(b) = Range(s) \ {s[1]}
  BY <1>4, <1>5, SMTT(30)
<1> QED
  BY <1>1, <1>3, <1>6, <1>7, SMTT(30) DEF b

\* find_request takes the entry it finds out of a list.
LEMMA DelAtSet ==
  ASSUME NEW S, NEW s \in Seq(S), NEW i \in 1..Len(s), IsInjective(s)
  PROVE  /\ s[i] \in S /\ s[i] \in Range(s)
         /\ DelAt(s, i) \in Seq(S)
         /\ IsInjective(DelAt(s, i))
         /\ Range(DelAt(s, i)) = Range(s) \ {s[i]}
<1> DEFINE b == DelAt(s, i)
<1>1. /\ Len(s) \in Nat /\ DOMAIN s = 1..Len(s) /\ s \in [1..Len(s) -> S]
      /\ b \in Seq(S) /\ Len(b) = Len(s) - 1
      /\ \A j \in 1..(Len(s) - 1) : b[j] = IF j < i THEN s[j] ELSE s[j + 1]
  BY DelAtFacts, LenProperties, SMTT(30)
<1>2. DOMAIN b = 1..(Len(s) - 1)
  BY <1>1, LenProperties, SMTT(30)
<1> HIDE DEF b
<1>3. IsInjective(b)
  <2> DEFINE p(j) == IF j < i THEN j ELSE j + 1
  <2>1. \A j \in 1..(Len(s) - 1) : p(j) \in 1..Len(s) /\ b[j] = s[p(j)]
    BY <1>1, SMTT(30)
  <2>2. \A j, k \in 1..(Len(s) - 1) : p(j) = p(k) => j = k
    BY <1>1, SMTT(30)
  <2> HIDE DEF p
  <2> SUFFICES ASSUME NEW j \in 1..(Len(s) - 1), NEW k \in 1..(Len(s) - 1),
                      b[j] = b[k]
               PROVE  j = k
    BY <1>2, SMTT(30) DEF IsInjective
  <2>3. s[p(j)] = s[p(k)] /\ p(j) \in DOMAIN s /\ p(k) \in DOMAIN s
    BY <1>1, <2>1, SMTT(30)
  <2>4. p(j) = p(k)
    BY <2>3, SMTT(30) DEF IsInjective
  <2> QED
    BY <2>2, <2>4, SMTT(30)
<1>4. \A x \in Range(b) : x \in Range(s) \ {s[i]}
  BY <1>1, <1>2, SMTT(30) DEF Range, IsInjective
<1>5. ASSUME NEW x \in Range(s) \ {s[i]} PROVE x \in Range(b)
  <2>1. PICK j \in 1..Len(s) : s[j] = x
    BY <1>1, SMTT(30) DEF Range
  <2>2. CASE j < i
    <3>1. j \in 1..(Len(s) - 1) /\ b[j] = x
      BY <1>1, <2>1, <2>2, SMTT(30)
    <3> QED
      BY <1>2, <3>1, SMTT(30) DEF Range
  <2>3. CASE j > i
    <3>1. j - 1 \in 1..(Len(s) - 1) /\ ~(j - 1 < i) /\ (j - 1) + 1 = j
      BY <1>1, <2>1, <2>3, SMTT(30)
    <3>2. b[j - 1] = x
      BY <1>1, <2>1, <3>1, SMTT(30)
    <3> QED
      BY <1>2, <3>1, <3>2, SMTT(30) DEF Range
  <2>4. j # i
    BY <2>1, SMTT(30)
  <2> QED
    BY <2>2, <2>3, <2>4, SMTT(30)
<1> QED
  BY <1>1, <1>3, <1>4, <1>5, ZenonT(60) DEF b, Range

\* list_del of an entry of a list without duplicates.
LEMMA ListDelSet ==
  ASSUME NEW S, NEW s \in Seq(S), NEW e \in Range(s), IsInjective(s)
  PROVE  /\ list_del(s, e) \in Seq(S)
         /\ IsInjective(list_del(s, e))
         /\ Range(list_del(s, e)) = Range(s) \ {e}
<1> DEFINE i == CHOOSE i \in DOMAIN s : s[i] = e
<1>1. i \in DOMAIN s /\ s[i] = e
  BY Zenon DEF Range
<1>2. i \in 1..Len(s)
  BY <1>1, LenProperties, SMTT(30)
<1>3. list_del(s, e) = DelAt(s, i)
  BY Zenon DEF list_del
<1> HIDE DEF i
<1> QED
  BY <1>1, <1>2, <1>3, DelAtSet, SMTT(30)

\* list_add_tail adds an entry, duplicate or not.
LEMMA AppendRange ==
  ASSUME NEW S, NEW s \in Seq(S), NEW e \in S
  PROVE  Append(s, e) \in Seq(S) /\ Range(Append(s, e)) = Range(s) \cup {e}
<1> DEFINE a == Append(s, e)
<1>1. /\ Len(s) \in Nat /\ DOMAIN s = 1..Len(s)
      /\ a \in Seq(S) /\ Len(a) = Len(s) + 1
      /\ \A i \in 1..Len(s) : a[i] = s[i]
      /\ a[Len(s) + 1] = e
  BY AppendFacts, LenProperties, SMTT(30)
<1>2. DOMAIN a = 1..(Len(s) + 1)
  BY <1>1, LenProperties, SMTT(30)
<1> HIDE DEF a
<1>3. Range(a) = Range(s) \cup {e}
  BY <1>1, <1>2, SMTT(30) DEF Range
<1> QED
  BY <1>1, <1>3, Zenon DEF a

\* The first entry goes, and nothing else appears.
LEMMA TailRange ==
  ASSUME NEW S, NEW s \in Seq(S), s # <<>>
  PROVE  Tail(s) \in Seq(S) /\ Range(Tail(s)) \subseteq Range(s)
<1> DEFINE b == Tail(s)
<1>1. /\ Len(s) \in Nat /\ Len(s) >= 1 /\ DOMAIN s = 1..Len(s)
      /\ b \in Seq(S) /\ Len(b) = Len(s) - 1
      /\ \A i \in 1..(Len(s) - 1) : b[i] = s[i + 1]
  BY TailFacts, LenProperties, SMTT(30)
<1>2. DOMAIN b = 1..(Len(s) - 1)
  BY <1>1, LenProperties, SMTT(30)
<1> HIDE DEF b
<1>3. ASSUME NEW x \in Range(b) PROVE x \in Range(s)
  <2>1. PICK i \in 1..(Len(s) - 1) : b[i] = x
    BY <1>2, SMTT(30) DEF Range
  <2>2. i + 1 \in 1..Len(s) /\ s[i + 1] = x
    BY <1>1, <2>1, SMTT(30)
  <2> QED
    BY <1>1, <2>2, SMTT(30) DEF Range
<1> QED
  BY <1>1, <1>3, Zenon DEF b

\* The empty list has no entries, so no duplicates.
LEMMA EmptyList == IsInjective(<<>>) /\ Range(<<>>) = {}
  BY SMTT(30) DEF IsInjective, Range

\* What a table says of each entry of a list.
Mapped(f, s) == [i \in DOMAIN s |-> f[s[i]]]

Values(f, S) == { f[x] : x \in S }

\* It is a list as long as the other.
LEMMA MappedFacts ==
  ASSUME NEW S, NEW f, NEW s \in Seq(S)
  PROVE  /\ Mapped(f, s) \in Seq(Values(f, S)) /\ Len(Mapped(f, s)) = Len(s)
<1> DEFINE m == Mapped(f, s)
           T == Values(f, S)
<1>1. Len(s) \in Nat /\ DOMAIN s = 1..Len(s) /\ \A i \in 1..Len(s) : s[i] \in S
  BY LenProperties, SMT
<1>2. m = [i \in 1..Len(s) |-> f[s[i]]] /\ \A i \in 1..Len(s) : f[s[i]] \in T
  BY <1>1, Zenon DEF Mapped, Values
<1> HIDE DEF m, T
<1>3. m \in [1..Len(s) -> T]
  BY <1>2, Zenon
<1>4. m \in Seq(T)
  BY <1>1, <1>3, SeqDef, SMT
<1>5. Len(m) = Len(s)
  BY <1>1, <1>3, <1>4, LenProperties, SMT
<1> QED
  BY <1>4, <1>5, Zenon DEF m, T

\* That of an empty list is empty.
LEMMA MappedEmpty == \A f : Mapped(f, <<>>) = <<>>
<1> TAKE f
<1> DEFINE m == Mapped(f, <<>>)
<1>1. <<>> \in Seq({}) /\ Len(<<>>) = 0
  BY SMT
<1>2. m \in Seq(Values(f, {})) /\ Len(m) = 0
  BY <1>1, MappedFacts, Zenon
<1> HIDE DEF m
<1>3. m = <<>>
  BY <1>2, EmptySeq, Zenon
<1> QED
  BY <1>3, Zenon DEF m

\* list_add_tail and list_del on the one are the same on the other.
LEMMA MappedAppend ==
  ASSUME NEW S, NEW f, NEW s \in Seq(S), NEW e \in S
  PROVE  Mapped(f, Append(s, e)) = Append(Mapped(f, s), f[e])
<1> DEFINE T == Values(f, S)
           m == Mapped(f, s)
           b == Append(s, e)
           n == Mapped(f, b)
           a == Append(m, f[e])
<1>1. /\ m \in Seq(T) /\ Len(m) = Len(s)
      /\ \A i \in 1..Len(s) : m[i] = f[s[i]]
  <2>1. DOMAIN s = 1..Len(s)
    BY LenProperties, Zenon
  <2>2. \A i \in 1..Len(s) : m[i] = f[s[i]]
    BY <2>1, Zenon DEF Mapped
  <2> QED
    BY <2>2, MappedFacts, Zenon
<1>2. /\ b \in Seq(S) /\ Len(b) = Len(s) + 1
      /\ \A i \in 1..Len(s) : b[i] = s[i]
      /\ b[Len(s) + 1] = e
  BY AppendFacts, SMT
<1> HIDE DEF b
<1>3. /\ n \in Seq(T) /\ Len(n) = Len(b)
      /\ \A i \in 1..Len(b) : n[i] = f[b[i]]
  <2>1. DOMAIN b = 1..Len(b)
    BY <1>2, LenProperties, Zenon
  <2>2. \A i \in 1..Len(b) : n[i] = f[b[i]]
    BY <2>1, Zenon DEF Mapped
  <2> QED
    BY <1>2, <2>2, MappedFacts, Zenon
<1>4. f[e] \in T
  BY Zenon DEF Values
<1> HIDE DEF m, n, T
<1>5. /\ a \in Seq(T) /\ Len(a) = Len(m) + 1
      /\ \A i \in 1..Len(m) : a[i] = m[i]
      /\ a[Len(m) + 1] = f[e]
  BY <1>1, <1>4, AppendFacts, SMT
<1> HIDE DEF a
<1>6. ASSUME NEW i \in 1..Len(n) PROVE n[i] = a[i]
  <2>1. i \in 1..Len(s) \/ i = Len(s) + 1
    <3>1. Len(n) = Len(s) + 1 /\ Len(s) \in Nat
      BY <1>2, <1>3, LenProperties, Zenon
    <3> QED
      BY <3>1, SMT
  <2>2. n[i] = f[b[i]]
    BY <1>3, Zenon
  <2> QED
    BY <1>1, <1>2, <1>5, <2>1, <2>2, Zenon
<1>7. Len(n) = Len(a)
  BY <1>1, <1>2, <1>3, <1>5, Zenon
<1>8. n = a
  BY <1>3, <1>5, <1>6, <1>7, SeqEqual, Zenon
<1> QED
  BY <1>8, Zenon DEF m, n, a, b

LEMMA MappedDelAt ==
  ASSUME NEW S, NEW f, NEW s \in Seq(S), NEW i \in 1..Len(s)
  PROVE  Mapped(f, DelAt(s, i)) = DelAt(Mapped(f, s), i)
<1> DEFINE T == Values(f, S)
           m == Mapped(f, s)
           b == DelAt(s, i)
           n == Mapped(f, b)
           d == DelAt(m, i)
<1>1. /\ m \in Seq(T) /\ Len(m) = Len(s)
      /\ \A j \in 1..Len(s) : m[j] = f[s[j]]
  <2>1. DOMAIN s = 1..Len(s)
    BY LenProperties, Zenon
  <2>2. \A j \in 1..Len(s) : m[j] = f[s[j]]
    BY <2>1, Zenon DEF Mapped
  <2> QED
    BY <2>2, MappedFacts, Zenon
<1>2. /\ b \in Seq(S) /\ Len(b) = Len(s) - 1
      /\ \A j \in 1..(Len(s) - 1) : b[j] = IF j < i THEN s[j] ELSE s[j + 1]
  BY DelAtFacts, Zenon
<1> HIDE DEF b
<1>3. /\ n \in Seq(T) /\ Len(n) = Len(b)
      /\ \A j \in 1..Len(b) : n[j] = f[b[j]]
  <2>1. DOMAIN b = 1..Len(b)
    BY <1>2, LenProperties, Zenon
  <2>2. \A j \in 1..Len(b) : n[j] = f[b[j]]
    BY <2>1, Zenon DEF Mapped
  <2> QED
    BY <1>2, <2>2, MappedFacts, Zenon
<1> HIDE DEF m, n, T
<1>4. /\ d \in Seq(T) /\ Len(d) = Len(m) - 1
      /\ \A j \in 1..(Len(m) - 1) : d[j] = IF j < i THEN m[j] ELSE m[j + 1]
  <2>1. i \in 1..Len(m)
    BY <1>1, Zenon
  <2> QED
    BY <1>1, <2>1, DelAtFacts, Zenon
<1> HIDE DEF d
<1>5. ASSUME NEW j \in 1..Len(n) PROVE n[j] = d[j]
  <2>1. Len(s) \in Nat /\ Len(n) = Len(s) - 1
    BY <1>2, <1>3, LenProperties, Zenon
  <2>2. j \in 1..(Len(s) - 1) /\ j \in 1..Len(s) /\ j + 1 \in 1..Len(s)
    BY <2>1, SMT
  <2>3. n[j] = f[b[j]] /\ b[j] = IF j < i THEN s[j] ELSE s[j + 1]
    BY <1>2, <1>3, <2>2, Zenon
  <2>4. d[j] = IF j < i THEN m[j] ELSE m[j + 1]
    BY <1>1, <1>4, <2>2, Zenon
  <2>5. m[j] = f[s[j]] /\ m[j + 1] = f[s[j + 1]]
    BY <1>1, <2>2, Zenon
  <2> QED
    BY <2>3, <2>4, <2>5, Zenon
<1>6. Len(n) = Len(d)
  BY <1>1, <1>2, <1>3, <1>4, Zenon
<1>7. n = d
  BY <1>3, <1>4, <1>5, <1>6, SeqEqual, Zenon
<1> QED
  BY <1>7, Zenon DEF m, n, b, d

=============================================================================
