-------------------------- MODULE BufferTextProofs --------------------------
(***************************************************************************)
(* Proofs about what the readers make of a text, for texts of any length,  *)
(* any registry, any servers and any words.                                *)
(***************************************************************************)
EXTENDS BufferText, StageParseProofs, SequenceTheorems

-----------------------------------------------------------------------------
(* Sequences and numbers. *)

\* An inserted element makes a sequence one longer.
LEMMA InsertAtFacts ==
    ASSUME NEW S, NEW s \in Seq(S), NEW n \in 1..(Len(s) + 1), NEW e \in S
    PROVE  InsertAt(s, n, e) \in Seq(S) /\ Len(InsertAt(s, n, e)) = Len(s) + 1
<1> DEFINE A == SubSeq(s, 1, n - 1)
           B == SubSeq(s, n, Len(s))
<1>1. A \in Seq(S) /\ Len(A) = n - 1
  OBVIOUS
<1>2. B \in Seq(S) /\ Len(B) = Len(s) - n + 1
  OBVIOUS
<1>3. <<e>> \in Seq(S) /\ Len(<<e>>) = 1
  OBVIOUS
<1> HIDE DEF A, B
<1>4. A \o <<e>> \in Seq(S) /\ Len(A \o <<e>>) = n
  BY <1>1, <1>3, ConcatProperties
<1>5. (A \o <<e>>) \o B \in Seq(S) /\ Len((A \o <<e>>) \o B) = Len(s) + 1
  <2>1. Len(s) \in Nat /\ n \in Nat
    OBVIOUS
  <2>2. n + (Len(s) - n + 1) = Len(s) + 1
    BY <2>1
  <2> DEFINE C == A \o <<e>>
  <2>3. C \in Seq(S) /\ Len(C) = n
    BY <1>4
  <2> HIDE DEF C
  <2>4. C \o B \in Seq(S) /\ Len(C \o B) = Len(C) + Len(B)
    BY <1>2, <2>3, ConcatProperties
  <2> QED
    BY <1>2, <2>2, <2>3, <2>4 DEF C
<1> QED
  BY <1>5 DEF InsertAt, A, B

\* A removed element makes it one shorter, and adds none.
LEMMA RemoveAtFacts ==
    ASSUME NEW S, NEW s \in Seq(S), NEW n \in 1..Len(s)
    PROVE  /\ RemoveAt(s, n) \in Seq(S) /\ Len(RemoveAt(s, n)) = Len(s) - 1
           /\ ToSet(RemoveAt(s, n)) \subseteq ToSet(s)
<1> DEFINE A == SubSeq(s, 1, n - 1)
           B == SubSeq(s, n + 1, Len(s))
           T == ToSet(s)
<1>1. s \in Seq(T)
  <2>1. s \in [1..Len(s) -> T] /\ Len(s) \in Nat
    BY DEF ToSet
  <2> QED
    BY <2>1, SeqDef
<1>2. A \in Seq(S) /\ A \in Seq(T) /\ Len(A) = n - 1
  <2> HIDE DEF T
  <2> QED
    BY <1>1
<1>3. B \in Seq(S) /\ B \in Seq(T) /\ Len(B) = Len(s) - n
  <2> HIDE DEF T
  <2> QED
    BY <1>1
<1> HIDE DEF A, B
<1>4. A \o B \in Seq(S) /\ Len(A \o B) = Len(s) - 1
  <2>1. Len(s) \in Nat /\ n \in Nat
    OBVIOUS
  <2>2. (n - 1) + (Len(s) - n) = Len(s) - 1
    BY <2>1
  <2>3. A \o B \in Seq(S)
    BY <1>2, <1>3, ConcatProperties
  <2>4. Len(A \o B) = Len(A) + Len(B)
    BY <1>2, <1>3, ConcatProperties
  <2>5. Len(A) + Len(B) = Len(s) - 1
    BY <1>2, <1>3, <2>2
  <2> QED
    BY <2>3, <2>4, <2>5
<1>5. A \o B \in Seq(T)
  BY <1>2, <1>3, ConcatProperties
<1>6. \A i \in 1..Len(A \o B) : (A \o B)[i] \in T
  BY <1>5, ElementOfSeq
<1>7. DOMAIN (A \o B) = 1..Len(A \o B)
  BY <1>5, LenProperties
<1>8. ToSet(A \o B) \subseteq T
  BY <1>6, <1>7 DEF ToSet
<1> QED
  BY <1>4, <1>8 DEF RemoveAt, A, B

\* Induction up to a number.
LEMMA CountingUp ==
    ASSUME NEW n \in Nat, NEW T, 0 \in T, \A k \in 1..n : k - 1 \in T => k \in T
    PROVE  \A k \in 0..n : k \in T
<1> DEFINE Bad == {k \in 0..n : k \notin T}
<1> SUFFICES ASSUME Bad # {} PROVE FALSE
  OBVIOUS
<1>1. Bad \subseteq Nat
  OBVIOUS
<1>2. PICK k \in Bad : \A j \in Bad : k <= j
  <2> HIDE DEF Bad
  <2> QED
    BY <1>1, LeastNumber
<1>3. k \in 1..n /\ k - 1 \in 0..n /\ ~(k <= k - 1)
  BY <1>2
<1> QED
  BY <1>2, <1>3

\* A sequence grows to its full length one element at a time.
LEMMA PrefixGrows ==
    ASSUME NEW S, NEW s \in Seq(S)
    PROVE  /\ Len(s) \in Nat
           /\ SubSeq(s, 1, 0) = << >> /\ SubSeq(s, 1, Len(s)) = s
           /\ \A k \in 1..Len(s) :
                /\ SubSeq(s, 1, k - 1) \in Seq(S)
                /\ SubSeq(s, 1, k) = Append(SubSeq(s, 1, k - 1), s[k])
<1>1. Len(s) \in Nat
  OBVIOUS
<1>2. SubSeq(s, 1, 0) = << >>
  BY SubSeqEmpty
<1>3. SubSeq(s, 1, Len(s)) = s
  BY SubSeqFull
<1>4. ASSUME NEW k \in 1..Len(s)
      PROVE  /\ SubSeq(s, 1, k - 1) \in Seq(S)
             /\ SubSeq(s, 1, k) = Append(SubSeq(s, 1, k - 1), s[k])
  <2>1. SubSeq(s, 1, k - 1) \in Seq(S) /\ s[k] \in S
    BY <1>1
  <2>2. SubSeq(s, 1, k) = SubSeq(s, 1, k - 1) \o <<s[k]>>
    BY <1>1, SubSeqRecursiveSecond
  <2> QED
    BY <2>1, <2>2, AppendIsConcat
<1> QED
  BY <1>1, <1>2, <1>3, <1>4

\* The recursion of FlattenSeq, up to an element.
FlatUpTo(m, ss, f) ==
    f = [i \in 1..m |-> IF i = 1 THEN ss[i] ELSE f[i - 1] \o ss[i]]

LEMMA FlatDefined ==
    ASSUME NEW ss, NEW m \in Nat
    PROVE  \E f : FlatUpTo(m, ss, f)
<1> DEFINE Bad == {k \in Nat : ~ \E f : FlatUpTo(k, ss, f)}
<1> SUFFICES ASSUME Bad # {} PROVE FALSE
  OBVIOUS
<1>1. PICK k \in Bad : \A j \in Bad : k <= j
  BY LeastNumber
<1>2. CASE k = 0
  <2> DEFINE f == [i \in 1..0 |-> << >>]
  <2>1. f = [i \in 1..0 |-> IF i = 1 THEN ss[i] ELSE f[i - 1] \o ss[i]]
    OBVIOUS
  <2> HIDE DEF f
  <2> QED
    BY <1>2, <2>1 DEF FlatUpTo
<1>3. CASE k # 0
  <2>1. k - 1 \in Nat /\ k - 1 \notin Bad
    BY <1>1, <1>3
  <2>2. PICK g : FlatUpTo(k - 1, ss, g)
    BY <2>1
  <2> DEFINE f == [i \in 1..k |-> IF i < k THEN g[i]
                                  ELSE IF k = 1 THEN ss[k] ELSE g[k - 1] \o ss[k]]
  <2>3. \A i \in 1..(k - 1) : g[i] = IF i = 1 THEN ss[i] ELSE g[i - 1] \o ss[i]
    BY <2>2 DEF FlatUpTo
  <2>4. \A i \in 1..k : i < k => i \in 1..(k - 1)
    BY <2>1
  <2>5. \A i \in 1..k : i # 1 => i - 1 \in 1..k /\ i - 1 < k
    BY <2>1
  <2>6. \A i \in 1..k : i < k \/ i = k
    BY <2>1
  <2>7. \A i \in 1..k : f[i] = IF i = 1 THEN ss[i] ELSE f[i - 1] \o ss[i]
    <3> SUFFICES ASSUME NEW i \in 1..k
                 PROVE  f[i] = IF i = 1 THEN ss[i] ELSE f[i - 1] \o ss[i]
      OBVIOUS
    <3>1. i # 1 => f[i - 1] = g[i - 1]
      BY <2>5
    <3>2. i < k => f[i] = g[i]
      OBVIOUS
    <3>3. ~(i < k) => f[i] = IF k = 1 THEN ss[k] ELSE g[k - 1] \o ss[k]
      OBVIOUS
    <3> HIDE DEF f
    <3>4. CASE i < k
      BY <2>3, <2>4, <3>1, <3>2, <3>4
    <3>5. CASE i = k
      <4>1. ~(i < k)
        BY <3>5
      <4> QED
        BY <3>1, <3>3, <3>5, <4>1
    <3> QED
      BY <2>6, <3>4, <3>5
  <2>8. f = [i \in 1..k |-> f[i]]
    OBVIOUS
  <2>9. f = [i \in 1..k |-> IF i = 1 THEN ss[i] ELSE f[i - 1] \o ss[i]]
    <3> HIDE DEF f
    <3> QED
      BY <2>7, <2>8
  <2> HIDE DEF f
  <2> QED
    BY <2>9 DEF FlatUpTo
<1> QED
  BY <1>2, <1>3

\* What is concatenated up to each element.
FlatStates(ss, f) ==
    /\ f[1] = ss[1]
    /\ \A i \in 2..Len(ss) : f[i] = f[i - 1] \o ss[i]
    /\ FlattenSeq(ss) = f[Len(ss)]

LEMMA FlatRun ==
    ASSUME NEW S, NEW ss \in Seq(S), ss # << >>
    PROVE  \E f : FlatStates(ss, f)
<1> DEFINE f == CHOOSE f : FlatUpTo(Len(ss), ss, f)
<1>1. Len(ss) \in Nat /\ Len(ss) # 0
  OBVIOUS
<1>2. FlatUpTo(Len(ss), ss, f)
  BY <1>1, FlatDefined
<1>3. FlattenSeq(ss) = f[Len(ss)]
  BY <1>1 DEF FlattenSeq, FlatUpTo
<1> HIDE DEF f
<1>4. \A i \in 1..Len(ss) : f[i] = IF i = 1 THEN ss[i] ELSE f[i - 1] \o ss[i]
  BY <1>2 DEF FlatUpTo
<1>5. 1 \in 1..Len(ss) /\ \A i \in 2..Len(ss) : i \in 1..Len(ss) /\ i # 1
  BY <1>1
<1>6. f[1] = ss[1] /\ \A i \in 2..Len(ss) : f[i] = f[i - 1] \o ss[i]
  BY <1>4, <1>5
<1> QED
  BY <1>3, <1>6 DEF FlatStates

LEMMA FlattenEmpty == FlattenSeq(<< >>) = << >>
BY DEF FlattenSeq

\* Flattening is concatenation.
LEMMA FlattenAppend ==
    ASSUME NEW T, NEW ss \in Seq(Seq(T)), NEW t \in Seq(T)
    PROVE  FlattenSeq(Append(ss, t)) = FlattenSeq(ss) \o t
<1> DEFINE tt == Append(ss, t)
           n == Len(ss)
<1>1. /\ n \in Nat /\ tt \in Seq(Seq(T)) /\ tt # << >> /\ Len(tt) = n + 1
      /\ tt[n + 1] = t /\ \A i \in 1..n : tt[i] = ss[i]
  BY AppendProperties, LenProperties
<1> HIDE DEF tt
<1>2. PICK g : FlatStates(tt, g)
  BY <1>1, FlatRun
<1>3. CASE ss = << >>
  <2>1. n = 0
    BY <1>3
  <2>2. FlattenSeq(tt) = t
    BY <1>1, <1>2, <2>1 DEF FlatStates
  <2>3. FlattenSeq(ss) = << >>
    BY <1>3, FlattenEmpty
  <2> QED
    BY <2>2, <2>3 DEF tt
<1>4. CASE ss # << >>
  <2>1. PICK f : FlatStates(ss, f)
    BY <1>4, FlatRun
  <2>2. n # 0
    BY <1>4
  <2> DEFINE Bad == {i \in 1..n : f[i] # g[i]}
  <2>3. Bad = {}
    <3> SUFFICES ASSUME Bad # {} PROVE FALSE
      OBVIOUS
    <3>1. PICK i \in Bad : \A j \in Bad : i <= j
      <4>1. Bad \subseteq Nat
        OBVIOUS
      <4> HIDE DEF Bad
      <4> QED
        BY <4>1, LeastNumber
    <3>2. i # 1
      BY <1>1, <1>2, <2>1, <2>2, <3>1 DEF FlatStates
    <3>3. i - 1 \in 1..n /\ i \in 2..n /\ i \in 2..(n + 1)
      BY <1>1, <3>1, <3>2
    <3>4. f[i - 1] = g[i - 1]
      BY <3>1, <3>3
    <3>5. f[i] = f[i - 1] \o ss[i] /\ g[i] = g[i - 1] \o tt[i]
      BY <1>1, <1>2, <2>1, <3>3 DEF FlatStates
    <3> QED
      BY <1>1, <3>1, <3>3, <3>4, <3>5
  <2>4. f[n] = g[n]
    <3>1. n \in 1..n
      BY <1>1, <2>2
    <3> HIDE DEF n
    <3> QED
      BY <2>3, <3>1
  <2>5. g[n + 1] = g[n] \o t
    <3>1. n + 1 \in 2..Len(tt) /\ (n + 1) - 1 = n
      BY <1>1, <2>2
    <3>2. g[n + 1] = g[(n + 1) - 1] \o tt[n + 1]
      BY <1>2, <3>1 DEF FlatStates
    <3> QED
      BY <1>1, <3>1, <3>2
  <2> QED
    BY <1>1, <1>2, <2>1, <2>4, <2>5 DEF FlatStates, tt
<1> QED
  BY <1>3, <1>4

LEMMA FlattenType ==
    ASSUME NEW T, NEW ss \in Seq(Seq(T))
    PROVE  FlattenSeq(ss) \in Seq(T)
<1> DEFINE F(k) == FlattenSeq(SubSeq(ss, 1, k))
           Good == {k \in Nat : F(k) \in Seq(T)}
<1>1. Len(ss) \in Nat /\ Len(ss) \in 0..Len(ss)
  OBVIOUS
<1>2. F(0) \in Seq(T)
  <2>1. F(0) = << >>
    BY PrefixGrows, FlattenEmpty
  <2> HIDE DEF F
  <2> QED
    BY <2>1, EmptySeq
<1>3. ASSUME NEW k \in 1..Len(ss), F(k - 1) \in Seq(T)
      PROVE  F(k) \in Seq(T)
  <2>1. ss[k] \in Seq(T) /\ SubSeq(ss, 1, k - 1) \in Seq(Seq(T))
    BY PrefixGrows, ElementOfSeq
  <2>2. F(k) = F(k - 1) \o ss[k]
    BY <2>1, PrefixGrows, FlattenAppend
  <2> HIDE DEF F
  <2> QED
    BY <1>3, <2>1, <2>2, ConcatProperties
<1>4. F(Len(ss)) = FlattenSeq(ss)
  BY PrefixGrows
<1> HIDE DEF F
<1>5. F(Len(ss)) \in Seq(T)
  <2>1. 0 \in Good /\ \A k \in 1..Len(ss) : k - 1 \in Good => k \in Good
    BY <1>1, <1>2, <1>3
  <2> HIDE DEF Good
  <2>2. Len(ss) \in Good
    BY <1>1, <2>1, CountingUp
  <2> QED
    BY <2>2 DEF Good
<1> QED
  BY <1>1, <1>4, <1>5

\* The elements of a concatenation.
LEMMA ToSetConcat ==
    ASSUME NEW T, NEW s \in Seq(T), NEW t \in Seq(T)
    PROVE  ToSet(s \o t) = ToSet(s) \cup ToSet(t)
<1>1. /\ DOMAIN s = 1..Len(s) /\ DOMAIN t = 1..Len(t)
      /\ Len(s) \in Nat /\ Len(t) \in Nat
  BY LenProperties
<1>2. /\ s \o t \in Seq(T) /\ Len(s \o t) = Len(s) + Len(t)
      /\ \A i \in 1..(Len(s) + Len(t)) :
            (s \o t)[i] = IF i <= Len(s) THEN s[i] ELSE t[i - Len(s)]
  BY ConcatProperties
<1>3. DOMAIN (s \o t) = 1..(Len(s) + Len(t))
  BY <1>2, LenProperties
<1>4. ASSUME NEW i \in 1..Len(s)
      PROVE  s[i] = (s \o t)[i] /\ i \in 1..(Len(s) + Len(t))
  BY <1>1, <1>2
<1>5. ASSUME NEW i \in 1..Len(t)
      PROVE  /\ t[i] = (s \o t)[Len(s) + i]
             /\ Len(s) + i \in 1..(Len(s) + Len(t))
  BY <1>1, <1>2
<1>6. ASSUME NEW i \in 1..(Len(s) + Len(t))
      PROVE  (s \o t)[i] \in ToSet(s) \cup ToSet(t)
  <2>1. CASE i <= Len(s)
    <3>1. i \in 1..Len(s)
      BY <1>1, <2>1
    <3> QED
      BY <1>1, <1>4, <3>1 DEF ToSet
  <2>2. CASE ~(i <= Len(s))
    <3>1. i - Len(s) \in 1..Len(t)
      BY <1>1, <2>2
    <3>2. (s \o t)[i] = t[i - Len(s)]
      BY <1>2, <2>2
    <3> QED
      BY <1>1, <3>1, <3>2 DEF ToSet
  <2> QED
    BY <2>1, <2>2
<1> DEFINE st == s \o t
<1>7. ToSet(st) \subseteq ToSet(s) \cup ToSet(t)
  BY <1>3, <1>6 DEF ToSet
<1>8. ToSet(s) \subseteq ToSet(st)
  <2> HIDE DEF st
  <2>1. \A i \in DOMAIN s : \E j \in DOMAIN st : s[i] = st[j]
    BY <1>1, <1>3, <1>4 DEF st
  <2> QED
    BY <2>1 DEF ToSet
<1>9. ToSet(t) \subseteq ToSet(st)
  <2> HIDE DEF st
  <2>1. \A i \in DOMAIN t : \E j \in DOMAIN st : t[i] = st[j]
    BY <1>1, <1>3, <1>5 DEF st
  <2> QED
    BY <2>1 DEF ToSet
<1> QED
  BY <1>7, <1>8, <1>9

LEMMA FlattenRange ==
    ASSUME NEW T, NEW ss \in Seq(Seq(T))
    PROVE  ToSet(FlattenSeq(ss)) = UNION {ToSet(ss[i]) : i \in DOMAIN ss}
<1> DEFINE F(k) == FlattenSeq(SubSeq(ss, 1, k))
           U(k) == UNION {ToSet(ss[i]) : i \in 1..k}
           Good == {k \in Nat : ToSet(F(k)) = U(k)}
<1>1. Len(ss) \in Nat /\ Len(ss) \in 0..Len(ss) /\ DOMAIN ss = 1..Len(ss)
  BY LenProperties
<1>2. ToSet(F(0)) = U(0)
  <2>1. F(0) = << >>
    BY PrefixGrows, FlattenEmpty
  <2>2. ToSet(<< >>) = {}
    BY DEF ToSet
  <2>3. U(0) = {}
    OBVIOUS
  <2> HIDE DEF F, U
  <2> QED
    BY <2>1, <2>2, <2>3
<1>3. ASSUME NEW k \in 1..Len(ss), ToSet(F(k - 1)) = U(k - 1)
      PROVE  ToSet(F(k)) = U(k)
  <2>1. ss[k] \in Seq(T) /\ SubSeq(ss, 1, k - 1) \in Seq(Seq(T))
    BY PrefixGrows, ElementOfSeq
  <2>2. F(k) = F(k - 1) \o ss[k] /\ F(k - 1) \in Seq(T)
    BY <2>1, PrefixGrows, FlattenAppend, FlattenType
  <2>3. U(k) = U(k - 1) \cup ToSet(ss[k])
    <3>1. 1..k = (1..(k - 1)) \cup {k}
      BY <1>1
    <3> QED
      BY <3>1
  <2> HIDE DEF F, U
  <2>4. ToSet(F(k - 1) \o ss[k]) = ToSet(F(k - 1)) \cup ToSet(ss[k])
    BY <2>1, <2>2, ToSetConcat
  <2> QED
    BY <1>3, <2>2, <2>3, <2>4
<1>4. F(Len(ss)) = FlattenSeq(ss)
  BY PrefixGrows
<1>5. U(Len(ss)) = UNION {ToSet(ss[i]) : i \in DOMAIN ss}
  BY <1>1
<1> HIDE DEF F, U
<1>6. ToSet(F(Len(ss))) = U(Len(ss))
  <2>1. 0 \in Good /\ \A k \in 1..Len(ss) : k - 1 \in Good => k \in Good
    BY <1>1, <1>2, <1>3
  <2> HIDE DEF Good
  <2>2. Len(ss) \in Good
    BY <1>1, <2>1, CountingUp
  <2> QED
    BY <2>2 DEF Good
<1> QED
  BY <1>1, <1>4, <1>5, <1>6

\* What ElementsAt takes out.
LEMMA ElementsAtRange ==
    ASSUME NEW S, NEW s \in Seq(S), NEW places
    PROVE  /\ ElementsAt(s, places) \in Seq(S)
           /\ ToSet(ElementsAt(s, places)) = {s[i] : i \in DOMAIN s \cap places}
<1> DEFINE e(i) == IF i \in places THEN <<s[i]>> ELSE << >>
           ss == [i \in DOMAIN s |-> e(i)]
<1>1. DOMAIN s = 1..Len(s) /\ Len(s) \in Nat
  BY LenProperties
<1>2. \A i \in 1..Len(s) : e(i) \in Seq(S)
  OBVIOUS
<1>3. ss \in Seq(Seq(S)) /\ DOMAIN ss = DOMAIN s
  <2>1. ss \in [1..Len(s) -> Seq(S)]
    <3> HIDE DEF e
    <3> QED
      BY <1>1, <1>2
  <2> QED
    BY <1>1, <2>1, SeqDef
<1>4. \A i \in DOMAIN s : ToSet(ss[i]) = IF i \in places THEN {s[i]} ELSE {}
  BY DEF ToSet
<1>5. ElementsAt(s, places) = FlattenSeq(ss)
  BY DEF ElementsAt
<1> HIDE DEF ss
<1>6. ToSet(FlattenSeq(ss)) = UNION {ToSet(ss[i]) : i \in DOMAIN s}
  BY <1>3, FlattenRange
<1>7. UNION {ToSet(ss[i]) : i \in DOMAIN s} = {s[i] : i \in DOMAIN s \cap places}
  BY <1>4
<1> QED
  BY <1>3, <1>5, <1>6, <1>7, FlattenType

\* The least and the greatest of some numbers.
LEMMA MinFacts ==
    ASSUME NEW T, T \subseteq Nat, T # {}
    PROVE  Min(T) \in T /\ \A y \in T : Min(T) <= y
<1>1. \E x \in T : \A y \in T : x <= y
  BY LeastNumber
<1> QED
  BY <1>1, Zenon DEF Min

LEMMA MaxFacts ==
    ASSUME NEW n \in Nat, NEW T, T \subseteq 0..n, T # {}
    PROVE  Max(T) \in T /\ \A y \in T : Max(T) >= y
<1> DEFINE U == {n - x : x \in T}
<1>1. \A x \in T : x \in Nat /\ n - x \in Nat
  OBVIOUS
<1>2. U \subseteq Nat /\ U # {}
  BY <1>1
<1>3. PICK u \in U : \A v \in U : u <= v
  <2> HIDE DEF U
  <2> QED
    BY <1>2, LeastNumber
<1>4. PICK x \in T : u = n - x
  BY <1>3
<1>5. \A y \in T : x >= y
  <2> SUFFICES ASSUME NEW y \in T
               PROVE  x >= y
    OBVIOUS
  <2>1. n - y \in U
    OBVIOUS
  <2>2. n - x <= n - y /\ x \in Nat /\ y \in Nat
    <3> HIDE DEF U
    <3> QED
      BY <1>1, <1>3, <1>4, <2>1
  <2> QED
    BY <2>2
<1>6. \E z \in T : \A y \in T : z >= y
  BY <1>5
<1> QED
  BY <1>6, Zenon DEF Max

\* Words between the ends of lines are kept in their order.
LEMMA BreaksAppend ==
    ASSUME NEW S, NEW C \in Seq(S), NEW w \in S
    PROVE  WithoutBreaks(Append(C, w)) =
                WithoutBreaks(C) \o IF w = NewLine THEN << >> ELSE <<w>>
<1> DEFINE D == Append(C, w)
           n == Len(C)
           cc == [i \in DOMAIN C |-> IF C[i] # NewLine THEN <<C[i]>> ELSE << >>]
           dd == [i \in DOMAIN D |-> IF D[i] # NewLine THEN <<D[i]>> ELSE << >>]
           e == IF w = NewLine THEN << >> ELSE <<w>>
<1>1. /\ n \in Nat /\ D \in Seq(S) /\ Len(D) = n + 1 /\ D[n + 1] = w
      /\ DOMAIN C = 1..n /\ DOMAIN D = 1..(n + 1)
      /\ \A i \in 1..n : D[i] = C[i] /\ C[i] \in S
  BY AppendProperties, LenProperties
<1>2. WithoutBreaks(C) = FlattenSeq(cc)
  <2>1. cc = [i \in DOMAIN C |->
                IF i \in {j \in DOMAIN C : C[j] # NewLine} THEN <<C[i]>>
                ELSE << >>]
    OBVIOUS
  <2> QED
    BY <2>1 DEF WithoutBreaks, ElementsAt
<1>3. WithoutBreaks(D) = FlattenSeq(dd)
  <2> HIDE DEF D
  <2>1. dd = [i \in DOMAIN D |->
                IF i \in {j \in DOMAIN D : D[j] # NewLine} THEN <<D[i]>>
                ELSE << >>]
    OBVIOUS
  <2> QED
    BY <2>1 DEF WithoutBreaks, ElementsAt
<1> HIDE DEF D
<1>4. e \in Seq(S)
  OBVIOUS
<1>5. cc \in Seq(Seq(S)) /\ Len(cc) = n /\ \A i \in 1..n :
            cc[i] = IF C[i] # NewLine THEN <<C[i]>> ELSE << >>
  <2>1. \A i \in 1..n : (IF C[i] # NewLine THEN <<C[i]>> ELSE << >>) \in Seq(S)
    BY <1>1
  <2>2. cc \in [1..n -> Seq(S)]
    BY <1>1, <2>1
  <2> QED
    BY <1>1, <2>2, SeqDef
<1>6. dd \in Seq(Seq(S)) /\ Len(dd) = n + 1 /\ \A i \in 1..(n + 1) :
            dd[i] = IF D[i] # NewLine THEN <<D[i]>> ELSE << >>
  <2>1. \A i \in 1..(n + 1) : (IF D[i] # NewLine THEN <<D[i]>> ELSE << >>) \in Seq(S)
    BY <1>1, ElementOfSeq
  <2>2. dd \in [1..(n + 1) -> Seq(S)]
    BY <1>1, <2>1
  <2> QED
    BY <1>1, <2>2, SeqDef
<1> HIDE DEF cc, dd, e
<1>7. dd = Append(cc, e)
  <2>1. /\ Append(cc, e) \in Seq(Seq(S)) /\ Len(Append(cc, e)) = n + 1
        /\ \A i \in 1..n : Append(cc, e)[i] = cc[i]
        /\ Append(cc, e)[n + 1] = e
    BY <1>4, <1>5, AppendProperties
  <2>2. ASSUME NEW i \in 1..(n + 1)
        PROVE  dd[i] = Append(cc, e)[i]
    <3>1. CASE i = n + 1
      BY <1>1, <1>6, <2>1, <3>1 DEF e
    <3>2. CASE i # n + 1
      <4>1. i \in 1..n
        BY <1>1, <3>2
      <4> QED
        BY <1>1, <1>5, <1>6, <2>1, <4>1
    <3> QED
      BY <3>1, <3>2
  <2> QED
    BY <1>6, <2>1, <2>2, SeqEqual
<1>8. FlattenSeq(dd) = FlattenSeq(cc) \o e
  BY <1>4, <1>5, <1>7, FlattenAppend
<1> QED
  BY <1>2, <1>3, <1>8 DEF D, e

LEMMA BreaksType ==
    ASSUME NEW S, NEW C \in Seq(S)
    PROVE  /\ WithoutBreaks(C) \in Seq(S)
           /\ ToSet(WithoutBreaks(C)) = ToSet(C) \ {NewLine}
<1>1. WithoutBreaks(C) \in Seq(S)
  BY ElementsAtRange DEF WithoutBreaks
<1> DEFINE P == {i \in DOMAIN C : C[i] # NewLine}
<1>2. ToSet(WithoutBreaks(C)) = {C[i] : i \in DOMAIN C \cap P}
  BY ElementsAtRange DEF WithoutBreaks
<1> QED
  BY <1>1, <1>2 DEF ToSet

LEMMA BreaksConcat ==
    ASSUME NEW S, NEW C \in Seq(S), NEW D \in Seq(S)
    PROVE  WithoutBreaks(C \o D) = WithoutBreaks(C) \o WithoutBreaks(D)
<1> DEFINE pre(k) == SubSeq(D, 1, k)
           ok(k) == WithoutBreaks(C \o pre(k)) = WithoutBreaks(C) \o WithoutBreaks(pre(k))
           Good == {k \in Nat : ok(k)}
<1>1. Len(D) \in Nat /\ Len(D) \in 0..Len(D)
  OBVIOUS
<1>2. ok(0)
  <2>1. pre(0) = << >>
    BY PrefixGrows
  <2>2. WithoutBreaks(<< >>) = << >>
    BY FlattenEmpty DEF WithoutBreaks, ElementsAt
  <2> HIDE DEF pre
  <2>3. C \o << >> = C
    BY ConcatEmptySeq
  <2>4. WithoutBreaks(C) \o << >> = WithoutBreaks(C)
    BY BreaksType, ConcatEmptySeq
  <2> QED
    BY <2>1, <2>2, <2>3, <2>4
<1>3. ASSUME NEW k \in 1..Len(D), ok(k - 1)
      PROVE  ok(k)
  <2> DEFINE p == pre(k - 1)
             w == D[k]
             e == IF w = NewLine THEN << >> ELSE <<w>>
  <2>1. p \in Seq(S) /\ w \in S /\ pre(k) = Append(p, w)
    BY PrefixGrows, ElementOfSeq
  <2>2. WithoutBreaks(C \o p) = WithoutBreaks(C) \o WithoutBreaks(p)
    BY <1>3
  <2> HIDE DEF pre, w
  <2>3. e \in Seq(S)
    BY <2>1
  <2> HIDE DEF p
  <2>4. C \o Append(p, w) = Append(C \o p, w)
    BY <2>1
  <2>5. C \o p \in Seq(S)
    BY <2>1, ConcatProperties
  <2>6. WithoutBreaks(Append(C \o p, w)) = WithoutBreaks(C \o p) \o e
    <3> DEFINE Cp == C \o p
    <3> HIDE DEF Cp
    <3>1. WithoutBreaks(Append(Cp, w)) = WithoutBreaks(Cp) \o e
      BY <2>1, <2>5, BreaksAppend DEF Cp
    <3> QED
      BY <3>1 DEF Cp
  <2>7. WithoutBreaks(Append(p, w)) = WithoutBreaks(p) \o e
    BY <2>1, BreaksAppend
  <2>8. WithoutBreaks(C) \in Seq(S) /\ WithoutBreaks(p) \in Seq(S)
    BY <2>1, BreaksType
  <2> HIDE DEF e
  <2>9. (WithoutBreaks(C) \o WithoutBreaks(p)) \o e
          = WithoutBreaks(C) \o (WithoutBreaks(p) \o e)
    <3> DEFINE c == WithoutBreaks(C)
               q == WithoutBreaks(p)
    <3>1. c \in Seq(S) /\ q \in Seq(S) /\ e \in Seq(S)
      BY <2>3, <2>8
    <3> HIDE DEF c, q
    <3>2. (c \o q) \o e = c \o (q \o e)
      BY <3>1
    <3> QED
      BY <3>2 DEF c, q
  <2>10. WithoutBreaks(C \o pre(k)) = WithoutBreaks(C) \o WithoutBreaks(pre(k))
    BY <2>1, <2>2, <2>4, <2>6, <2>7, <2>9
  <2> QED
    BY <2>10
<1>4. pre(Len(D)) = D
  BY PrefixGrows
<1>5. ok(Len(D))
  <2> HIDE DEF ok
  <2>1. 0 \in Good /\ \A k \in 1..Len(D) : k - 1 \in Good => k \in Good
    BY <1>1, <1>2, <1>3
  <2> HIDE DEF Good
  <2>2. Len(D) \in Good
    BY <1>1, <2>1, CountingUp
  <2> QED
    BY <2>2 DEF Good
<1> HIDE DEF pre
<1> QED
  BY <1>4, <1>5

\* Where there are no ends of lines, nothing is left out.
LEMMA BreaksNone ==
    ASSUME NEW S, NEW C \in Seq(S), NewLine \notin ToSet(C)
    PROVE  WithoutBreaks(C) = C
<1> DEFINE pre(k) == SubSeq(C, 1, k)
           ok(k) == WithoutBreaks(pre(k)) = pre(k)
           Good == {k \in Nat : ok(k)}
<1>1. Len(C) \in Nat /\ Len(C) \in 0..Len(C) /\ DOMAIN C = 1..Len(C)
  OBVIOUS
<1>2. ok(0)
  <2>1. pre(0) = << >>
    BY PrefixGrows
  <2>2. WithoutBreaks(<< >>) = << >>
    BY FlattenEmpty DEF WithoutBreaks, ElementsAt
  <2> HIDE DEF pre
  <2> QED
    BY <2>1, <2>2
<1>3. ASSUME NEW k \in 1..Len(C), ok(k - 1)
      PROVE  ok(k)
  <2> DEFINE p == pre(k - 1)
             w == C[k]
  <2>1. p \in Seq(S) /\ w \in S /\ pre(k) = Append(p, w)
    BY PrefixGrows, ElementOfSeq
  <2>2. WithoutBreaks(p) = p
    BY <1>3
  <2>3. w # NewLine
    BY <1>1 DEF ToSet
  <2> HIDE DEF pre, w, p
  <2>4. WithoutBreaks(Append(p, w)) = p \o <<w>>
    BY <2>1, <2>2, <2>3, BreaksAppend
  <2>5. Append(p, w) = p \o <<w>>
    BY <2>1, AppendIsConcat
  <2> QED
    BY <2>1, <2>4, <2>5
<1>4. pre(Len(C)) = C
  BY PrefixGrows
<1>5. ok(Len(C))
  <2> HIDE DEF ok
  <2>1. 0 \in Good /\ \A k \in 1..Len(C) : k - 1 \in Good => k \in Good
    BY <1>1, <1>2, <1>3
  <2> HIDE DEF Good
  <2>2. Len(C) \in Good
    BY <1>1, <2>1, CountingUp
  <2> QED
    BY <2>2 DEF Good
<1> HIDE DEF pre
<1> QED
  BY <1>4, <1>5

-----------------------------------------------------------------------------
(* The text and the cursor. *)

\* TypeOK without what follows from it by the types of the two parsers.
TextOK ==
    /\ lines \in Seq(Lines) /\ Room(lines) /\ lines # << >>
    /\ cursor \in Cursor /\ cursor.line <= Len(lines)

LEMMA RegistryType == \A l \in DOMAIN Registry : Registry[l] \in Uris
  BY RegistryAssumption

LEMMA LinesType ==
    ASSUME TextOK
    PROVE  lines \in Seq(Line)
  BY LineAssumption DEF TextOK

\* The editor keeps the text and the cursor together.
LEMMA EditorKeepsText ==
    ASSUME TextOK, [Next]_vars
    PROVE  TextOK'
<1>1. /\ lines \in Seq(Lines) /\ lines # << >> /\ Len(lines) \in Nat
      /\ cursor \in Cursor /\ cursor.line \in 1..Len(lines)
  BY DEF TextOK, Cursor
<1>2. MaxLines \in Nat /\ FewLines \in Nat /\ FewLines <= MaxLines
  BY MaxAssumption
<1>3. ASSUME NEW l \in Lines, Type(l)
      PROVE  TextOK'
  <2>1. PICK n \in 0..Len(lines) :
          /\ lines' = InsertAt(lines, n + 1, l)
          /\ cursor' = [line |-> n + 1, behind |-> TRUE]
    BY <1>3 DEF Type
  <2>2. lines' \in Seq(Lines) /\ Len(lines') = Len(lines) + 1
    <3>1. n + 1 \in 1..(Len(lines) + 1)
      BY <1>1
    <3> QED
      BY <1>1, <2>1, <3>1, InsertAtFacts
  <2>3. Room(lines')
    BY <1>3 DEF Type
  <2>4. Len(lines') <= MaxLines
    BY <1>2, <2>2, <2>3 DEF Room
  <2>5. lines' # << >>
    BY <1>1, <2>2
  <2>6. n + 1 \in 1..MaxLines /\ n + 1 <= Len(lines')
    BY <1>1, <1>2, <2>2, <2>4
  <2>7. cursor' \in Cursor /\ cursor'.line <= Len(lines')
    BY <2>1, <2>6 DEF Cursor
  <2> QED
    BY <2>2, <2>3, <2>5, <2>7 DEF TextOK
<1>4. CASE Erase
  <2>1. /\ Len(lines) > 1 /\ lines' = RemoveAt(lines, cursor.line)
        /\ cursor' = [line |-> 1, behind |-> FALSE]
    BY <1>4 DEF Erase
  <2>2. /\ lines' \in Seq(Lines) /\ Len(lines') = Len(lines) - 1
        /\ ToSet(lines') \subseteq ToSet(lines)
    BY <1>1, <2>1, RemoveAtFacts
  <2>3. Room(lines)
    BY DEF TextOK
  <2>4. Room(lines')
    <3>1. CASE ToSet(lines) \subseteq Frame
      BY <1>1, <1>2, <2>2, <2>3, <3>1 DEF Room
    <3>2. CASE ~(ToSet(lines) \subseteq Frame)
      <4>1. Len(lines') <= FewLines
        BY <1>1, <1>2, <2>2, <2>3, <3>2 DEF Room
      <4> QED
        BY <1>1, <1>2, <2>2, <4>1 DEF Room
    <3> QED
      BY <3>1, <3>2
  <2>5. lines' # << >>
    <3>1. Len(lines') \in Nat /\ Len(lines') # 0
      BY <1>1, <2>1, <2>2
    <3> QED
      BY <2>2, <3>1, EmptySeq
  <2>6. 1 \in 1..MaxLines /\ 1 <= Len(lines')
    <3>1. cursor.line \in 1..MaxLines
      BY <1>1 DEF Cursor
    <3> QED
      BY <1>1, <1>2, <2>1, <2>2, <3>1
  <2>7. cursor' \in Cursor /\ cursor'.line <= Len(lines')
    BY <2>1, <2>6 DEF Cursor
  <2> QED
    BY <2>2, <2>4, <2>5, <2>7 DEF TextOK
<1>5. CASE Move
  <2>1. PICK n \in DOMAIN lines, b \in BOOLEAN : cursor' = [line |-> n, behind |-> b]
    BY <1>5 DEF Move
  <2>2. lines' = lines
    BY <1>5 DEF Move
  <2>3. Len(lines) <= MaxLines
    BY <1>1, <1>2 DEF TextOK, Room
  <2>4. n \in 1..Len(lines)
    BY <1>1
  <2>5. cursor' \in Cursor /\ cursor'.line <= Len(lines')
    BY <1>1, <1>2, <2>1, <2>2, <2>3, <2>4 DEF Cursor
  <2> QED
    BY <2>2, <2>5 DEF TextOK, Room
<1>6. CASE UNCHANGED vars
  BY <1>6 DEF TextOK, vars, Room
<1> QED
  BY <1>3, <1>4, <1>5, <1>6 DEF Next

\* The text is one that the editor can have.
LEMMA TextCorrect == Spec => []TextOK
<1>1. Init => TextOK
  <2> SUFFICES ASSUME Init
               PROVE  TextOK
    OBVIOUS
  <2>1. PICK l \in Lines : lines = <<l>>
    BY DEF Init
  <2>2. cursor = [line |-> 1, behind |-> TRUE]
    BY DEF Init
  <2>3. MaxLines \in Nat /\ FewLines \in 1..MaxLines
    BY MaxAssumption
  <2>4. lines \in Seq(Lines) /\ Len(lines) = 1 /\ lines # << >>
    BY <2>1
  <2>5. Room(lines)
    BY <2>3, <2>4 DEF Room
  <2>6. cursor \in Cursor /\ cursor.line <= Len(lines)
    BY <2>2, <2>3, <2>4 DEF Cursor
  <2> QED
    BY <2>4, <2>5, <2>6 DEF TextOK
<1>2. TextOK /\ [Next]_vars => TextOK'
  BY EditorKeepsText
<1> QED
  BY <1>1, <1>2, PTL DEF Spec

LEMMA TextGivesType ==
    ASSUME TextOK
    PROVE  TypeOK
<1>1. lines \in Seq(Line)
  BY LinesType
<1>2. Run.stages \in Seq(Stage)
  BY <1>1, RegistryType, ParseQueriesType DEF Run, ParseResult
<1>3. Prior \in Seq(Stage)
  BY <1>1, RegistryType, PriorStagesType DEF Prior
<1> QED
  BY <1>2, <1>3 DEF TypeOK, TextOK

\* Whatever is typed and erased, a run and a completion find stages in the
\* text, and the cursor is in it.
THEOREM TypeCorrect == Spec => []TypeOK
<1>1. TextOK => TypeOK
  BY TextGivesType
<1> QED
  BY <1>1, TextCorrect, PTL

-----------------------------------------------------------------------------
(* The stages of a run. *)

\* What a line adds to the stage it is in.
Body(l) == IF l.kind \in {"header", "text"} THEN l.text ELSE << >>

\* What lines h to e add to it.
Segment(text, h, e) == [n \in 1..(e - h + 1) |-> Body(text[h + n - 1])]

\* No stage begins behind line h, up to line e.
Alone(text, h, e) == \A g \in (h + 1)..e : ~Header(text[g])

LEMMA SegmentGrows ==
    ASSUME NEW text \in Seq(Line), NEW h \in 1..Len(text), NEW e \in h..Len(text)
    PROVE  /\ Segment(text, h, e) \in Seq(Text)
           /\ FlattenSeq(Segment(text, h, e)) \in Text
           /\ FlattenSeq(Segment(text, h, h)) = Body(text[h])
           /\ e # h => FlattenSeq(Segment(text, h, e)) =
                          FlattenSeq(Segment(text, h, e - 1)) \o Body(text[e])
<1>1. Len(text) \in Nat /\ h \in Nat /\ e \in Nat /\ h <= e /\ e <= Len(text) /\ 1 <= h
  OBVIOUS
<1>2. \A l \in Line : Body(l) \in Text
  BY DEF Body, Line, Text
<1>3. ASSUME NEW m \in h..Len(text)
      PROVE  /\ Segment(text, h, m) \in Seq(Text)
             /\ Len(Segment(text, h, m)) = m - h + 1
             /\ FlattenSeq(Segment(text, h, m)) \in Text
  <2> DEFINE k == m - h + 1
  <2>1. k \in Nat /\ \A n \in 1..k : h + n - 1 \in 1..Len(text)
    BY <1>1
  <2>2. \A n \in 1..k : Body(text[h + n - 1]) \in Text
    BY <1>2, <2>1, ElementOfSeq
  <2> DEFINE b(n) == Body(text[h + n - 1])
             s == [n \in 1..k |-> b(n)]
  <2>3. Segment(text, h, m) = s
    BY DEF Segment
  <2> HIDE DEF b, k
  <2>4. s \in [1..k -> Text]
    BY <2>2 DEF b
  <2>5. s \in Seq(Text) /\ Len(s) = k
    BY <2>1, <2>4, SeqDef
  <2>6. FlattenSeq(s) \in Text
    BY <2>5, FlattenType DEF Text
  <2> QED
    BY <2>3, <2>5, <2>6 DEF k
<1>4. FlattenSeq(Segment(text, h, h)) = Body(text[h])
  <2> DEFINE s == Segment(text, h, h)
             t == Body(text[h])
  <2>1. s = [n \in 1..1 |-> Body(text[h + n - 1])]
    BY <1>1 DEF Segment
  <2>2. s[1] = t /\ Len(s) = 1 /\ s \in Seq(Text)
    BY <1>1, <1>3, <2>1
  <2> HIDE DEF s, t
  <2>3. s # << >>
    <3>1. Len(s) = 1
      BY <2>2
    <3>2. s = << >> => Len(s) = 0
      BY EmptySeq
    <3> QED
      BY <3>1, <3>2
  <2>4. \E f : FlatStates(s, f)
    BY <2>2, <2>3, FlatRun
  <2> QED
    BY <2>2, <2>4 DEF FlatStates, s, t
<1>5. ASSUME e # h
      PROVE  FlattenSeq(Segment(text, h, e)) =
                FlattenSeq(Segment(text, h, e - 1)) \o Body(text[e])
  <2> DEFINE s == Segment(text, h, e - 1)
             t == Body(text[e])
             a == Append(s, t)
             n == e - h
  <2>1. e - 1 \in h..Len(text) /\ n \in Nat /\ (e - 1) - h + 1 = n /\ e - h + 1 = n + 1
    BY <1>1, <1>5
  <2>2. s \in Seq(Text) /\ Len(s) = n
    BY <1>3, <2>1
  <2>3. t \in Text
    BY <1>1, <1>2, ElementOfSeq
  <2>4. Segment(text, h, e) \in Seq(Text) /\ Len(Segment(text, h, e)) = n + 1
    BY <1>1, <1>3, <2>1
  <2>5. \A i \in 1..n : s[i] = Body(text[h + i - 1])
    BY <2>1 DEF Segment
  <2>6. \A i \in 1..(n + 1) : Segment(text, h, e)[i] = Body(text[h + i - 1])
    BY <2>1 DEF Segment
  <2>7. h + (n + 1) - 1 = e
    BY <1>1, <2>1
  <2> HIDE DEF s, t, n
  <2>8. /\ a \in Seq(Text) /\ Len(a) = n + 1 /\ a[n + 1] = t
        /\ \A i \in 1..n : a[i] = s[i]
    BY <2>2, <2>3, AppendProperties
  <2>9. ASSUME NEW i \in 1..(n + 1)
        PROVE  Segment(text, h, e)[i] = a[i]
    <3> HIDE DEF a
    <3>1. CASE i = n + 1
      BY <2>6, <2>7, <2>8, <3>1 DEF t
    <3>2. CASE i # n + 1
      <4>1. i \in 1..n
        BY <2>1, <3>2
      <4> QED
        BY <2>5, <2>6, <2>8, <4>1
    <3> QED
      BY <3>1, <3>2
  <2> HIDE DEF a
  <2>10. Segment(text, h, e) = a
    BY <2>4, <2>8, <2>9, SeqEqual
  <2>11. FlattenSeq(a) = FlattenSeq(s) \o t
    BY <2>2, <2>3, FlattenAppend DEF Text, a
  <2> QED
    BY <2>10, <2>11 DEF s, t
<1> QED
  BY <1>1, <1>3, <1>4, <1>5

LEMMA AloneRank ==
    ASSUME NEW text, NEW h \in Nat, NEW e \in Nat, h <= e, Alone(text, h, e)
    PROVE  Rank(text, e) = Rank(text, h)
<1>1. HeadersTo(text, e) = HeadersTo(text, h)
  BY DEF HeadersTo, Alone
<1> QED
  BY <1>1 DEF Rank

\* A run can take the first n lines.
Takes(text, conns, n) ==
    \A k \in 1..n :
        /\ text[k].kind = "text" => HeadersTo(text, k) # {}
        /\ Header(text[k]) => ParseQuery(text[k], conns)

\* What it makes of them: the stage of header h is what stands from there up
\* to the next header.
InSegments(text, conns, n, stages) ==
    \A h \in HeadersTo(text, n) : \A e \in h..n :
        (Alone(text, h, e) /\ (e = n \/ Header(text[e + 1]))) =>
            stages[Rank(text, h)] =
                [conn |-> conns[text[h].label],
                 line |-> FlattenSeq(Segment(text, h, e))]

Segmented(text, conns, n, parsed) ==
    /\ parsed.ok <=> Takes(text, conns, n)
    /\ parsed.ok =>
        /\ Len(parsed.stages) = Rank(text, n)
        /\ InSegments(text, conns, n, parsed.stages)

LEMMA TakesStep ==
    ASSUME NEW text, NEW conns, NEW n \in Nat \ {0}
    PROVE  Takes(text, conns, n) <=>
            /\ Takes(text, conns, n - 1)
            /\ text[n].kind = "text" => HeadersTo(text, n) # {}
            /\ Header(text[n]) => ParseQuery(text[n], conns)
<1>1. 1..n = (1..(n - 1)) \cup {n}
  OBVIOUS
<1> QED
  BY <1>1 DEF Takes

\* A line that is no header changes the stage it is in.
LEMMA SegmentsOfText ==
    ASSUME NEW text \in Seq(Line), NEW n \in 1..Len(text), NEW conns,
           ~Header(text[n]),
           NEW old \in Seq(Stage), NEW new,
           Len(old) = Rank(text, n - 1),
           InSegments(text, conns, n - 1, old),
           \A i \in 1..Len(old) :
              new[i] = IF i = Len(old)
                       THEN [conn |-> old[i].conn,
                             line |-> old[i].line \o Body(text[n])]
                       ELSE old[i]
    PROVE  InSegments(text, conns, n, new)
<1>1. n \in Nat /\ n - 1 \in Nat /\ n # 0 /\ Len(text) \in Nat /\ n <= Len(text)
  OBVIOUS
<1> SUFFICES ASSUME NEW h \in HeadersTo(text, n), NEW e \in h..n,
                    Alone(text, h, e), e = n \/ Header(text[e + 1])
             PROVE  new[Rank(text, h)] =
                        [conn |-> conns[text[h].label],
                         line |-> FlattenSeq(Segment(text, h, e))]
  BY DEF InSegments
<1>2. h \in Nat /\ 1 <= h /\ h <= n - 1 /\ Header(text[h]) /\ h \in HeadersTo(text, n - 1)
  BY <1>1 DEF HeadersTo
<1>3. e \in Nat /\ h <= e /\ e <= n
  BY <1>1, <1>2
<1>4. /\ Rank(text, h) \in Nat /\ Rank(text, h) # 0
      /\ Rank(text, h) <= Rank(text, n - 1)
  <2>1. 0 \in Nat /\ 0 <= h /\ 0 < h
    BY <1>2
  <2>2. Rank(text, 0) = 0 /\ Rank(text, h) \in Nat
    BY <1>2, RankStep
  <2>3. Rank(text, 0) < Rank(text, h)
    BY <1>2, <2>1, RankGrows
  <2>4. Rank(text, h) <= Rank(text, n - 1)
    BY <1>1, <1>2, RankGrows
  <2> QED
    BY <2>2, <2>3, <2>4
<1>5. Len(old) \in Nat /\ Rank(text, h) \in 1..Len(old)
  BY <1>4
<1>6. CASE e = n
  <2>1. Alone(text, h, n - 1)
    BY <1>1, <1>2, <1>6 DEF Alone
  <2>2. Rank(text, h) = Len(old)
    BY <1>1, <1>2, <2>1, AloneRank
  <2>3. old[Rank(text, h)] = [conn |-> conns[text[h].label],
                              line |-> FlattenSeq(Segment(text, h, n - 1))]
    <3>1. n - 1 \in h..(n - 1)
      BY <1>1, <1>2
    <3> QED
      BY <1>2, <2>1, <3>1 DEF InSegments
  <2>4. new[Rank(text, h)] =
            [conn |-> old[Rank(text, h)].conn,
             line |-> old[Rank(text, h)].line \o Body(text[n])]
    BY <1>5, <2>2
  <2>5. FlattenSeq(Segment(text, h, n)) =
            FlattenSeq(Segment(text, h, n - 1)) \o Body(text[n])
    <3>1. h \in 1..Len(text) /\ n \in h..Len(text) /\ n # h
      BY <1>1, <1>2
    <3> QED
      BY <3>1, SegmentGrows
  <2>6. /\ old[Rank(text, h)].conn = conns[text[h].label]
        /\ old[Rank(text, h)].line = FlattenSeq(Segment(text, h, n - 1))
    BY <2>3
  <2> QED
    BY <1>6, <2>4, <2>5, <2>6
<1>7. CASE e # n
  <2>1. Header(text[e + 1]) /\ e + 1 # n
    BY <1>7
  <2>2. e + 1 \in Nat /\ e + 1 <= n - 1 /\ e \in h..(n - 1) /\ h < e + 1 /\ h <= e + 1
    BY <1>1, <1>2, <1>3, <1>7, <2>1
  <2>3. Rank(text, h) < Rank(text, e + 1)
    BY <1>2, <2>1, <2>2, RankGrows
  <2>4. Rank(text, e + 1) <= Rank(text, n - 1)
    BY <1>1, <2>2, RankGrows
  <2>5. Rank(text, e + 1) \in Nat
    BY <2>2, RankStep
  <2>6. Rank(text, h) # Len(old)
    BY <1>4, <1>5, <2>3, <2>4, <2>5
  <2>7. new[Rank(text, h)] = old[Rank(text, h)]
    BY <1>5, <2>6
  <2> QED
    BY <1>2, <2>1, <2>2, <2>7 DEF InSegments
<1> QED
  BY <1>6, <1>7

\* A header begins a stage of its own and leaves the others.
LEMMA SegmentsOfHeader ==
    ASSUME NEW text \in Seq(Line), NEW n \in 1..Len(text), NEW conns,
           Header(text[n]),
           NEW old \in Seq(Stage), NEW new,
           Len(old) = Rank(text, n - 1),
           InSegments(text, conns, n - 1, old),
           \A i \in 1..Len(old) : new[i] = old[i],
           new[Len(old) + 1] = [conn |-> conns[text[n].label],
                                line |-> text[n].text]
    PROVE  InSegments(text, conns, n, new)
<1>1. n \in Nat /\ n - 1 \in Nat /\ n # 0 /\ Len(text) \in Nat /\ n <= Len(text)
  OBVIOUS
<1> SUFFICES ASSUME NEW h \in HeadersTo(text, n), NEW e \in h..n,
                    Alone(text, h, e), e = n \/ Header(text[e + 1])
             PROVE  new[Rank(text, h)] =
                        [conn |-> conns[text[h].label],
                         line |-> FlattenSeq(Segment(text, h, e))]
  BY DEF InSegments
<1>2. /\ h \in Nat /\ 1 <= h /\ h <= n /\ Header(text[h])
      /\ e \in Nat /\ h <= e /\ e <= n
  BY <1>1 DEF HeadersTo
<1>3. CASE h = n
  <2>1. e = n
    BY <1>2, <1>3
  <2>2. Rank(text, n) = Len(old) + 1
    BY <1>1, RankStep
  <2>3. FlattenSeq(Segment(text, n, n)) = Body(text[n])
    <3>1. n \in n..Len(text)
      BY <1>1
    <3> QED
      BY <3>1, SegmentGrows
  <2>4. Body(text[n]) = text[n].text
    BY DEF Body, Header
  <2> QED
    BY <1>3, <2>1, <2>2, <2>3, <2>4
<1>4. CASE h # n
  <2>1. h <= n - 1 /\ h \in HeadersTo(text, n - 1)
    BY <1>1, <1>2, <1>4 DEF HeadersTo
  <2>2. e # n
    BY <1>1, <1>2, <1>4 DEF Alone
  <2>3. e \in h..(n - 1) /\ (e = n - 1 \/ Header(text[e + 1]))
    BY <1>1, <1>2, <2>2
  <2>4. Rank(text, h) \in 1..Len(old)
    <3>1. 0 \in Nat /\ 0 <= h /\ 0 < h
      BY <1>2
    <3>2. Rank(text, 0) = 0 /\ Rank(text, h) \in Nat /\ Rank(text, n - 1) \in Nat
      BY <1>1, <1>2, RankStep
    <3>3. Rank(text, 0) < Rank(text, h)
      BY <1>2, <3>1, RankGrows
    <3>4. Rank(text, h) <= Rank(text, n - 1)
      BY <1>1, <1>2, <2>1, RankGrows
    <3> QED
      BY <3>2, <3>3, <3>4
  <2> QED
    BY <2>1, <2>3, <2>4 DEF InSegments
<1> QED
  BY <1>3, <1>4

\* A line keeps the parser to the segments of the text.
LEMMA SegmentedStep ==
    ASSUME NEW text \in Seq(Line), NEW n \in 1..Len(text), NEW conns,
           NEW parsed \in ParseResult,
           Segmented(text, conns, n - 1, parsed)
    PROVE  Segmented(text, conns, n, ParseLine(parsed, text[n], conns))
<1> DEFINE l == text[n]
           old == parsed.stages
<1>1. /\ l \in Line /\ l.text \in Text
      /\ l.kind \in {"header", "text", "comment", "blank"}
      /\ n \in Nat \ {0} /\ n - 1 \in Nat /\ n # 0
  BY ElementOfSeq DEF Line
<1>2. parsed.ok \in BOOLEAN /\ old \in Seq(Stage)
  BY DEF ParseResult
<1>3. parsed.ok <=> Takes(text, conns, n - 1)
  BY DEF Segmented
<1>4. Takes(text, conns, n) <=>
            /\ Takes(text, conns, n - 1)
            /\ l.kind = "text" => HeadersTo(text, n) # {}
            /\ Header(l) => ParseQuery(l, conns)
  BY <1>1, TakesStep
<1>5. parsed.ok =>
        /\ Len(old) = Rank(text, n - 1)
        /\ InSegments(text, conns, n - 1, old)
  BY DEF Segmented
<1>6. CASE ~parsed.ok
  <2>1. ParseLine(parsed, l, conns) = parsed
    BY <1>6 DEF ParseLine
  <2> QED
    BY <1>3, <1>4, <1>6, <2>1 DEF Segmented
<1>7. CASE parsed.ok /\ l.kind \in {"comment", "blank"}
  <2>1. ParseLine(parsed, l, conns) = parsed
    BY <1>7 DEF ParseLine, Sanitized
  <2>2. ~Header(l) /\ l.kind # "text" /\ Body(l) = << >>
    BY <1>7 DEF Header, Body
  <2>3. Rank(text, n) = Rank(text, n - 1)
    BY <1>1, <2>2, RankStep
  <2>4. \A i \in 1..Len(old) :
            old[i] = IF i = Len(old) THEN [conn |-> old[i].conn,
                                           line |-> old[i].line \o Body(l)]
                     ELSE old[i]
    <3> SUFFICES ASSUME NEW i \in 1..Len(old)
                 PROVE  old[i] = [conn |-> old[i].conn,
                                  line |-> old[i].line \o Body(l)]
      OBVIOUS
    <3>1. old[i] \in Stage
      BY <1>2, ElementOfSeq
    <3> DEFINE s == old[i]
    <3>2. s \in Stage
      BY <3>1
    <3> HIDE DEF s
    <3>3. s.line \o << >> = s.line
      BY <3>2, ConcatEmptySeq DEF Stage, Text
    <3>4. s = [conn |-> s.conn, line |-> s.line]
      BY <3>2 DEF Stage
    <3> QED
      BY <2>2, <3>3, <3>4 DEF s
  <2> HIDE DEF old
  <2>5. InSegments(text, conns, n, old)
    BY <1>2, <1>5, <1>7, <2>2, <2>4, SegmentsOfText
  <2> QED
    BY <1>3, <1>4, <1>5, <1>7, <2>1, <2>2, <2>3, <2>5 DEF Segmented, old
<1>8. CASE parsed.ok /\ l.kind = "text" /\ old # << >>
  <2> DEFINE new == Extend(old, l.text)
             k == Len(old)
  <2>1. ~Header(l) /\ Sanitized(l) /\ Body(l) = l.text
    BY <1>8 DEF Header, Sanitized, Body
  <2>2. ParseLine(parsed, l, conns) = [parsed EXCEPT !.stages = Extend(@, l.text)]
    BY <1>8, <2>1 DEF ParseLine
  <2>3. /\ [parsed EXCEPT !.stages = Extend(@, l.text)].stages = new
        /\ [parsed EXCEPT !.stages = Extend(@, l.text)].ok = parsed.ok
    BY DEF ParseResult
  <2>4. Rank(text, n) = Rank(text, n - 1)
    BY <1>1, <2>1, RankStep
  <2>5. k \in Nat /\ k # 0
    BY <1>2, <1>8
  <2>6. Len(new) = k /\ \A i \in 1..k :
            new[i] = IF i = k THEN [old[k] EXCEPT !.line = @ \o l.text] ELSE old[i]
    BY <1>2, <2>5 DEF Extend
  <2>7. [old[k] EXCEPT !.line = @ \o l.text]
            = [conn |-> old[k].conn, line |-> old[k].line \o l.text]
    <3> DEFINE s == old[k]
    <3>1. s \in Stage
      BY <1>2, <2>5, ElementOfSeq
    <3> HIDE DEF s
    <3> QED
      BY <3>1, StageExcept DEF s
  <2>8. \A i \in 1..k :
            new[i] = IF i = k THEN [conn |-> old[i].conn,
                                    line |-> old[i].line \o Body(l)]
                     ELSE old[i]
    <3> HIDE DEF new
    <3> QED
      BY <2>1, <2>6, <2>7
  <2> HIDE DEF new, old
  <2>9. InSegments(text, conns, n, new)
    BY <1>2, <1>5, <1>8, <2>1, <2>8, SegmentsOfText
  <2>10. HeadersTo(text, n) # {}
    <3>1. HeadersTo(text, n) = {} => Rank(text, n) = 0
      BY FS_EmptySet DEF Rank
    <3> QED
      BY <1>5, <1>8, <2>4, <2>5, <3>1
  <2> QED
    BY <1>3, <1>4, <1>5, <1>8, <2>1, <2>2, <2>3, <2>4, <2>6, <2>9, <2>10
    DEF Segmented
<1>9. CASE parsed.ok /\ l.kind = "text" /\ old = << >>
  <2>1. ~Header(l) /\ Sanitized(l) /\ ~ParseQuery(l, conns)
    BY <1>9 DEF Header, Sanitized, ParseQuery
  <2>2. ParseLine(parsed, l, conns) = Refused
    BY <1>9, <2>1 DEF ParseLine
  <2>3. Rank(text, n) = 0
    <3>1. Rank(text, n) = Rank(text, n - 1)
      BY <1>1, <2>1, RankStep
    <3>2. Len(old) = 0
      BY <1>9
    <3> QED
      BY <1>5, <1>9, <3>1, <3>2
  <2>4. HeadersTo(text, n) = {}
    <3>1. IsFiniteSet(HeadersTo(text, n))
      BY <1>1, RankStep
    <3> QED
      BY <2>3, <3>1, FS_EmptySet DEF Rank
  <2> QED
    BY <1>4, <1>9, <2>2, <2>4 DEF Segmented, Refused
<1>10. CASE parsed.ok /\ l.kind = "header"
  <2>1. Header(l) /\ Sanitized(l) /\ l.kind # "text"
    BY <1>10 DEF Header, Sanitized
  <2>2. CASE ~ParseQuery(l, conns)
    <3>1. ParseLine(parsed, l, conns) = Refused
      BY <1>10, <2>1, <2>2 DEF ParseLine
    <3> QED
      BY <1>4, <2>1, <2>2, <3>1 DEF Segmented, Refused
  <2>3. CASE ParseQuery(l, conns)
    <3> DEFINE stage == [conn |-> conns[l.label], line |-> l.text]
               new == Append(old, stage)
               k == Len(old)
    <3>1. ParseLine(parsed, l, conns) = [parsed EXCEPT !.stages = Append(@, stage)]
      BY <1>10, <2>1, <2>3 DEF ParseLine
    <3> HIDE DEF stage
    <3>2. /\ [parsed EXCEPT !.stages = Append(@, stage)].stages = new
          /\ [parsed EXCEPT !.stages = Append(@, stage)].ok = parsed.ok
      BY DEF ParseResult
    <3>3. Rank(text, n) = Rank(text, n - 1) + 1
      BY <1>1, <2>1, RankStep
    <3>4. Len(new) = k + 1 /\ new[k + 1] = stage /\ \A i \in 1..k : new[i] = old[i]
      BY <1>2
    <3> HIDE DEF new, old
    <3>5. InSegments(text, conns, n, new)
      <4>1. new[Len(old) + 1] = [conn |-> conns[text[n].label],
                                 line |-> text[n].text]
        BY <3>4 DEF stage
      <4> QED
        BY <1>2, <1>5, <1>10, <2>1, <3>4, <4>1, SegmentsOfHeader
    <3> QED
      BY <1>3, <1>4, <1>5, <1>10, <2>1, <2>3, <3>1, <3>2, <3>3, <3>4, <3>5
      DEF Segmented
  <2> QED
    BY <2>2, <2>3
<1> HIDE DEF l, old
<1> QED
  BY <1>1, <1>2, <1>6, <1>7, <1>8, <1>9, <1>10 DEF l

\* The stages of a run are the segments of its text.
LEMMA RunSegmented ==
    ASSUME NEW text \in Seq(Line), NEW registry,
           \A l \in DOMAIN registry : registry[l] \in Uris
    PROVE  Segmented(text, ConnMap(registry), Len(text),
                     ParseQueries(text, registry))
<1> DEFINE conns == ConnMap(registry)
<1>1. PICK f : ParseStates(text, registry, f)
  BY ParseRun
<1> DEFINE Good == {n \in Nat : Segmented(text, conns, n, f[n])}
<1> HIDE DEF conns
<1>2. Len(text) \in Nat /\ Len(text) \in 0..Len(text)
  OBVIOUS
<1>3. 0 \in Good
  <2>1. f[0].ok /\ f[0].stages = << >>
    BY <1>1 DEF ParseStates, NoStages
  <2>2. Takes(text, conns, 0)
    BY DEF Takes
  <2>3. Rank(text, 0) = 0
    BY RankStep
  <2>4. HeadersTo(text, 0) = {}
    BY DEF HeadersTo
  <2>5. Len(<< >>) = 0
    BY EmptySeq
  <2> QED
    BY <2>1, <2>2, <2>3, <2>4, <2>5 DEF Segmented, InSegments
<1>4. \A n \in 1..Len(text) : n - 1 \in Good => n \in Good
  <2> SUFFICES ASSUME NEW n \in 1..Len(text), n - 1 \in Good
               PROVE  Segmented(text, conns, n, f[n])
    BY <1>2
  <2>1. n - 1 \in 0..Len(text)
    BY <1>2
  <2>2. f[n] = ParseLine(f[n - 1], text[n], conns) /\ f[n - 1] \in ParseResult
    BY <1>1, <2>1 DEF ParseStates, conns
  <2> QED
    BY <2>2, SegmentedStep
<1>5. Len(text) \in Good
  <2> HIDE DEF Good
  <2> QED
    BY <1>2, <1>3, <1>4, CountingUp
<1>6. ParseQueries(text, registry) = f[Len(text)]
  BY <1>1 DEF ParseStates
<1> QED
  BY <1>5, <1>6 DEF conns

LEMMA TextIsSegmented ==
    ASSUME TextOK
    PROVE  StagesAreSegments
<1> DEFINE heads == {n \in DOMAIN lines : Header(lines[n])}
           next(h) == Min({n \in heads \cup {Len(lines) + 1} : n > h})
           conns == ConnMap(Registry)
           last == Len(lines)
           texts(h) ==
             [n \in 1..(next(h) - h) |->
                LET l == lines[h + n - 1]
                IN  IF l.kind \in {"header", "text"} THEN l.text ELSE << >>]
<1>1. lines \in Seq(Line) /\ last \in Nat /\ DOMAIN lines = 1..last
  BY LinesType
<1>2. Segmented(lines, conns, last, Run)
  BY <1>1, RegistryType, RunSegmented DEF Run
<1>3. heads = HeadersTo(lines, last)
  BY <1>1 DEF HeadersTo
<1>4. Run.ok <=> /\ \A n \in DOMAIN lines : lines[n].kind = "text" =>
                        \E h \in heads : h < n
                 /\ \A h \in heads : ParseQuery(lines[h], conns)
  <2>1. ASSUME NEW n \in 1..last, lines[n].kind = "text"
        PROVE  HeadersTo(lines, n) # {} <=> \E h \in heads : h < n
    <3>1. ~Header(lines[n])
      BY <2>1 DEF Header
    <3> QED
      BY <1>1, <1>3, <3>1 DEF HeadersTo
  <2>2. Takes(lines, conns, last) <=>
            /\ \A n \in 1..last : lines[n].kind = "text" => HeadersTo(lines, n) # {}
            /\ \A n \in 1..last : Header(lines[n]) => ParseQuery(lines[n], conns)
    BY DEF Takes
  <2>3. (\A n \in 1..last : Header(lines[n]) => ParseQuery(lines[n], conns))
            <=> \A h \in heads : ParseQuery(lines[h], conns)
    BY <1>3 DEF HeadersTo
  <2>4. Run.ok <=> Takes(lines, conns, last)
    BY <1>2 DEF Segmented
  <2> HIDE DEF heads, last, conns
  <2> QED
    BY <1>1, <2>1, <2>2, <2>3, <2>4
<1>5. ASSUME Run.ok
      PROVE  /\ Len(Run.stages) = Cardinality(heads)
             /\ \A h \in heads :
                    Run.stages[Cardinality({g \in heads : g <= h})] =
                        [conn |-> conns[lines[h].label],
                         line |-> FlattenSeq(texts(h))]
  <2>1. Len(Run.stages) = Cardinality(heads)
    BY <1>2, <1>3, <1>5 DEF Segmented, Rank
  <2>2. ASSUME NEW h \in heads
        PROVE  Run.stages[Cardinality({g \in heads : g <= h})] =
                        [conn |-> conns[lines[h].label],
                         line |-> FlattenSeq(texts(h))]
    <3> DEFINE T == {n \in heads \cup {last + 1} : n > h}
               e == Min(T) - 1
    <3>1. h \in Nat /\ 1 <= h /\ h <= last
      BY <1>1
    <3>2. T \subseteq Nat /\ last + 1 \in T
      BY <1>1, <3>1
    <3>3. Min(T) \in T /\ \A y \in T : Min(T) <= y
      <4> HIDE DEF T
      <4> QED
        BY <3>2, MinFacts
    <3>4. Min(T) \in Nat /\ h < Min(T) /\ Min(T) <= last + 1
      BY <1>1, <3>2, <3>3
    <3>5. e \in h..last /\ Min(T) = e + 1
      <4> HIDE DEF T
      <4> QED
        BY <1>1, <3>1, <3>4
    <3>6. e = last \/ Header(lines[e + 1])
      BY <3>3, <3>5
    <3>7. Alone(lines, h, e)
      <4> SUFFICES ASSUME NEW g \in (h + 1)..e, Header(lines[g])
                   PROVE  FALSE
        BY DEF Alone
      <4>1. g \in 1..last /\ g > h /\ ~(e + 1 <= g)
        BY <1>1, <3>1, <3>5
      <4>2. g \in T
        BY <1>1, <4>1
      <4> QED
        BY <3>3, <3>5, <4>1, <4>2
    <3>8. {g \in heads : g <= h} = HeadersTo(lines, h)
      BY <1>1, <3>1 DEF HeadersTo
    <3>9. texts(h) = Segment(lines, h, e)
      <4>1. next(h) = Min(T)
        OBVIOUS
      <4>2. next(h) - h = e - h + 1
        <5> HIDE DEF T, next, e
        <5> QED
          BY <3>1, <3>4, <3>5, <4>1
      <4> HIDE DEF next, e
      <4> QED
        BY <4>2 DEF Segment, Body
    <3>10. h \in HeadersTo(lines, last)
      BY <1>3
    <3> HIDE DEF e, T, texts, heads, last, conns
    <3>11. InSegments(lines, conns, last, Run.stages)
      BY <1>2, <1>5 DEF Segmented
    <3>12. Run.stages[Rank(lines, h)] =
                [conn |-> conns[lines[h].label],
                 line |-> FlattenSeq(Segment(lines, h, e))]
      BY <3>5, <3>6, <3>7, <3>10, <3>11 DEF InSegments
    <3> QED
      BY <3>8, <3>9, <3>12 DEF Rank
  <2> QED
    BY <2>1, <2>2
<1> QED
  BY <1>4, <1>5 DEF StagesAreSegments

-----------------------------------------------------------------------------
(* The stages that are probed. *)

LEMMA AlignedText ==
    ASSUME TextOK, Aligned(lines)
    PROVE  \A n \in DOMAIN lines : Header(lines[n]) => ~lines[n].indented
  BY DEF Aligned

\* What a completion probes is the beginning of what a run would run, word
\* for word, for any text that both take.
LEMMA TextProbesPrefix ==
    ASSUME TextOK
    PROVE  ProbesWhatARunWouldRun
<1> SUFFICES ASSUME Run.ok, Aligned(lines)
             PROVE  /\ Len(Prior) <= Len(Run.stages)
                    /\ Prior = SubSeq(Run.stages, 1, Len(Prior))
  BY DEF ProbesWhatARunWouldRun, Regular
<1> DEFINE c == Rank(lines, cursor.line)
<1>1. lines \in Seq(Line) /\ cursor.line \in 1..Len(lines)
  BY LinesType DEF TextOK, Cursor
<1>2. c \in Nat
  BY <1>1, RankStep
<1>3. /\ Len(Prior) = IF c = 0 THEN 0 ELSE c - 1
      /\ c <= Len(Run.stages)
      /\ Prior = SubSeq(Run.stages, 1, IF c = 0 THEN 0 ELSE c - 1)
  BY <1>1, AlignedText, RegistryType, PriorOfRun DEF Run, Prior
<1>4. Len(Run.stages) \in Nat
  BY TextGivesType DEF TypeOK
<1> HIDE DEF c
<1> QED
  BY <1>2, <1>3, <1>4

\* The headers before the cursor, unless it is on the brink of one, are those
\* up to its line.
LEMMA HeadersUpToCursor ==
    ASSUME TextOK, Aligned(lines)
    PROVE  /\ HeadersBefore(lines, cursor) =
                HeadersTo(lines, IF cursor.behind THEN cursor.line
                                 ELSE cursor.line - 1)
           /\ StageIndex = Rank(lines, IF cursor.behind THEN cursor.line
                                       ELSE cursor.line - 1)
<1> DEFINE m == IF cursor.behind THEN cursor.line ELSE cursor.line - 1
<1>1. lines \in Seq(Line) /\ cursor.line \in 1..Len(lines) /\ cursor.behind \in BOOLEAN
  BY LinesType DEF TextOK, Cursor
<1>2. m \in 0..Len(lines)
  BY <1>1
<1>3. Before(lines, cursor) = SubSeq(lines, 1, m)
  BY DEF Before
<1> HIDE DEF m
<1>4. DOMAIN Before(lines, cursor) = 1..m
  BY <1>1, <1>2, <1>3
<1>5. \A n \in 1..m : BufferHeader(lines[n]) <=> Header(lines[n])
  BY <1>1, <1>2 DEF Aligned, BufferHeader
<1>6. HeadersBefore(lines, cursor) = HeadersTo(lines, m)
  BY <1>4, <1>5 DEF HeadersBefore, HeadersTo
<1> QED
  BY <1>6 DEF m, StageIndex, Rank

\* The probe stops right before the stage that the classifier is in.
LEMMA TextStopsProbe ==
    ASSUME TextOK
    PROVE  ProbeStopsBeforeCursor
<1> SUFFICES ASSUME Run.ok, Aligned(lines), ~OnBrink, StageIndex > 0
             PROVE  Len(Prior) = StageIndex - 1
  BY DEF ProbeStopsBeforeCursor, Regular
<1> DEFINE k == cursor.line
<1>1. lines \in Seq(Line) /\ k \in 1..Len(lines) /\ cursor.behind \in BOOLEAN
  BY LinesType DEF TextOK, Cursor
<1>2. StageIndex = Rank(lines, IF cursor.behind THEN k ELSE k - 1)
  BY HeadersUpToCursor
<1>3. StageIndex = Rank(lines, k)
  <2>1. CASE cursor.behind
    BY <1>2, <2>1
  <2>2. CASE ~cursor.behind
    <3>1. ~Header(lines[k])
      BY <1>1, <2>2 DEF OnBrink, BufferHeader, Aligned
    <3>2. k \in Nat /\ k # 0
      BY <1>1
    <3> HIDE DEF k
    <3>3. Rank(lines, k) = Rank(lines, k - 1)
      BY <3>1, <3>2, RankStep
    <3> QED
      BY <1>2, <2>2, <3>3
  <2> QED
    BY <1>1, <2>1, <2>2
<1>4. Len(Prior) = IF Rank(lines, k) = 0 THEN 0 ELSE Rank(lines, k) - 1
  BY <1>1, AlignedText, RegistryType, PriorOfRun DEF Run, Prior
<1>5. Rank(lines, k) \in Nat
  BY <1>1, RankStep
<1> HIDE DEF k
<1> QED
  BY <1>3, <1>4, <1>5

-----------------------------------------------------------------------------
(* Schemas. *)

\* The table of a row, of the columns of all rows with its database and table.
TableOf(rows, q) ==
    [name |-> q.table,
     columns |-> {rows[i].column : i \in
        {j \in {k \in DOMAIN rows : rows[k].database = q.database} :
            rows[j].table = q.table}}]

LEMMA ToSetInSeq ==
    ASSUME NEW S, NEW s \in Seq(S)
    PROVE  s \in Seq(ToSet(s))
<1>1. s \in [1..Len(s) -> ToSet(s)] /\ Len(s) \in Nat
  BY DEF ToSet
<1> QED
  BY <1>1, SeqDef

\* An SQL schema has the databases and tables of the rows, and no others.
LEMMA SqlSchema ==
    ASSUME NEW rows, rows \in Seq(ToSet(rows))
    PROVE  LET schema == BuildSqlDatabases(rows)
               R == ToSet(rows)
           IN  /\ NamesOf(schema) \subseteq {r.database : r \in R}
               /\ Tables(schema) \in Seq({TableOf(rows, q) : q \in R})
               /\ \A r \in R : \E t \in ToSet(Tables(schema)) : t.name = r.table
<1> DEFINE R == ToSet(rows)
           of(d) == {i \in DOMAIN rows : rows[i].database = d}
           like(q) == {i \in of(q.database) : rows[i].table = q.table}
           table(q) == [name |-> q.table, columns |-> {rows[i].column : i \in like(q)}]
           firstOf(d) == {i \in of(d) : \A j \in like(rows[i]) : i <= j}
           rowsOf(d) == ElementsAt(rows, firstOf(d))
           database(q) == [name |-> q.database, tables |-> MapSeq(table, rowsOf(q.database))]
           first == {i \in DOMAIN rows : \A j \in of(rows[i].database) : i <= j}
           firsts == ElementsAt(rows, first)
           schema == BuildSqlDatabases(rows)
           T == {TableOf(rows, q) : q \in R}
           tt == [i \in DOMAIN firsts |-> MapSeq(table, rowsOf(firsts[i].database))]
<1>1. DOMAIN rows = 1..Len(rows) /\ Len(rows) \in Nat
  BY LenProperties
<1>2. \A i \in DOMAIN rows : rows[i] \in R
  BY DEF ToSet
<1>3. schema = [i \in DOMAIN firsts |-> database(firsts[i])]
  BY DEF BuildSqlDatabases, MapSeq
<1>4. firsts \in Seq(R) /\ ToSet(firsts) = {rows[i] : i \in DOMAIN rows \cap first}
  BY ElementsAtRange
<1>5. \A d : /\ rowsOf(d) \in Seq(R)
             /\ ToSet(rowsOf(d)) = {rows[i] : i \in DOMAIN rows \cap firstOf(d)}
  BY ElementsAtRange
<1>6. \A q : table(q) = TableOf(rows, q)
  BY DEF TableOf
<1> HIDE DEF firsts, rowsOf
<1>7. \A d : MapSeq(table, rowsOf(d)) = [i \in DOMAIN rowsOf(d) |-> TableOf(rows, rowsOf(d)[i])]
  BY <1>6 DEF MapSeq
<1> DEFINE M(d) == [i \in DOMAIN rowsOf(d) |-> TableOf(rows, rowsOf(d)[i])]
           mm == [i \in DOMAIN firsts |-> M(firsts[i].database)]
<1>8. \A q : database(q) = [name |-> q.database, tables |-> M(q.database)]
  BY <1>7
<1> HIDE DEF database, table, M
<1>9. \A i \in DOMAIN firsts : /\ schema[i].name = firsts[i].database
                              /\ schema[i].tables = M(firsts[i].database)
  <2> HIDE DEF schema
  <2> QED
    BY <1>3, <1>8
<1>10. DOMAIN schema = DOMAIN firsts
  <2> HIDE DEF schema
  <2> QED
    BY <1>3
<1>11. Tables(schema) = FlattenSeq(mm)
  <2> HIDE DEF schema
  <2>1. MapSeq(LAMBDA d : d.tables, schema) = [i \in DOMAIN schema |-> schema[i].tables]
    BY DEF MapSeq
  <2>2. MapSeq(LAMBDA d : d.tables, schema) = mm
    BY <1>9, <1>10, <2>1
  <2> QED
    BY <2>2 DEF Tables
<1> HIDE DEF schema
<1>12. ASSUME NEW d
       PROVE  M(d) \in Seq(T) /\ ToSet(M(d)) = {TableOf(rows, q) : q \in ToSet(rowsOf(d))}
  <2> DEFINE s == rowsOf(d)
  <2>1. s \in Seq(R) /\ DOMAIN s = 1..Len(s) /\ Len(s) \in Nat
    BY <1>5, LenProperties
  <2> HIDE DEF s
  <2>2. M(d) = [i \in 1..Len(s) |-> TableOf(rows, s[i])]
    BY <2>1 DEF M, s
  <2>3. M(d) \in [1..Len(s) -> T] /\ DOMAIN M(d) = 1..Len(s)
    BY <2>1, <2>2, ElementOfSeq
  <2>4. M(d) \in Seq(T)
    BY <2>1, <2>3, SeqDef
  <2>5. ToSet(M(d)) = {TableOf(rows, q) : q \in ToSet(s)}
    BY <2>1, <2>2, <2>3 DEF ToSet
  <2> QED
    BY <2>4, <2>5 DEF s
<1>13. mm \in Seq(Seq(T)) /\ DOMAIN mm = DOMAIN firsts
  <2>1. DOMAIN firsts = 1..Len(firsts) /\ Len(firsts) \in Nat
    BY <1>4, LenProperties
  <2>2. mm \in [1..Len(firsts) -> Seq(T)]
    <3> HIDE DEF T
    <3> QED
      BY <1>12, <2>1
  <2> QED
    BY <2>1, <2>2, SeqDef
<1>14. \A i \in DOMAIN firsts : mm[i] = M(firsts[i].database)
  OBVIOUS
<1> HIDE DEF mm, T
<1>15. Tables(schema) \in Seq(T)
  BY <1>11, <1>13, FlattenType
<1>16. ToSet(Tables(schema)) = UNION {ToSet(mm[i]) : i \in DOMAIN firsts}
  BY <1>11, <1>13, FlattenRange
<1>17. NamesOf(schema) \subseteq {r.database : r \in R}
  <2>1. \A i \in DOMAIN firsts : firsts[i] \in R
    BY <1>4, LenProperties
  <2> HIDE DEF R
  <2> QED
    BY <1>9, <1>10, <2>1 DEF NamesOf, ToSet
<1>18. ASSUME NEW r \in R
       PROVE  \E t \in ToSet(Tables(schema)) : t.name = r.table
  <2> DEFINE d == r.database
  <2>1. PICK k \in DOMAIN rows : rows[k] = r
    BY DEF ToSet
  <2>2. PICK n \in of(d) : \A j \in of(d) : n <= j
    <3>1. of(d) \subseteq Nat /\ k \in of(d)
      BY <1>1, <2>1
    <3> HIDE DEF of
    <3> QED
      BY <3>1, LeastNumber
  <2>3. rows[n] \in ToSet(firsts) /\ rows[n].database = d
    BY <1>4, <2>2
  <2>4. PICK i \in DOMAIN firsts : firsts[i].database = d
    BY <2>3 DEF ToSet
  <2>5. PICK m \in like(r) : \A j \in like(r) : m <= j
    <3>1. like(r) \subseteq Nat /\ k \in like(r)
      BY <1>1, <2>1
    <3> HIDE DEF like
    <3> QED
      BY <3>1, LeastNumber
  <2>6. rows[m].database = d /\ rows[m].table = r.table /\ m \in DOMAIN rows
    BY <2>5
  <2>7. like(rows[m]) = like(r)
    BY <2>6
  <2>8. m \in firstOf(d)
    <3>1. m \in of(d)
      BY <2>6
    <3> HIDE DEF like, of
    <3> QED
      BY <2>5, <2>7, <3>1
  <2>9. rows[m] \in ToSet(rowsOf(d))
    <3> HIDE DEF firstOf
    <3> QED
      BY <1>5, <2>6, <2>8
  <2>10. TableOf(rows, rows[m]) \in ToSet(mm[i])
    BY <1>12, <1>14, <2>4, <2>9
  <2>11. TableOf(rows, rows[m]).name = r.table
    BY <2>6 DEF TableOf
  <2> QED
    BY <1>16, <2>10, <2>11
<1> QED
  BY <1>15, <1>17, <1>18 DEF schema, T

LEMMA ToSetType ==
    ASSUME NEW S, NEW s \in Seq(S)
    PROVE  ToSet(s) \subseteq S
BY DEF ToSet

\* The tables of a schema are those of its databases.
LEMMA TablesRange ==
    ASSUME NEW schema, schema \in Seq(ToSet(schema)),
           \A d \in ToSet(schema) : d.tables \in Seq(ToSet(d.tables))
    PROVE  /\ Tables(schema) \in Seq(ToSet(Tables(schema)))
           /\ ToSet(Tables(schema)) = UNION {ToSet(d.tables) : d \in ToSet(schema)}
<1> DEFINE T == UNION {ToSet(d.tables) : d \in ToSet(schema)}
           mm == [i \in DOMAIN schema |-> schema[i].tables]
<1>1. DOMAIN schema = 1..Len(schema) /\ Len(schema) \in Nat
  BY LenProperties
<1>2. Tables(schema) = FlattenSeq(mm)
  BY DEF Tables, MapSeq
<1>3. ASSUME NEW i \in DOMAIN schema
      PROVE  schema[i].tables \in Seq(T) /\ schema[i] \in ToSet(schema)
  <2>1. schema[i] \in ToSet(schema)
    BY DEF ToSet
  <2>2. ToSet(schema[i].tables) \subseteq T
    BY <2>1
  <2> HIDE DEF T
  <2>3. schema[i].tables \in Seq(ToSet(schema[i].tables))
    BY <2>1
  <2> QED
    BY <2>1, <2>2, <2>3, SeqMonotonic
<1>4. mm \in Seq(Seq(T)) /\ DOMAIN mm = DOMAIN schema
  <2> HIDE DEF T
  <2>1. mm \in [1..Len(schema) -> Seq(T)]
    BY <1>1, <1>3
  <2> QED
    BY <1>1, <2>1, SeqDef
<1>5. \A i \in DOMAIN schema : mm[i] = schema[i].tables
  OBVIOUS
<1> HIDE DEF mm, T
<1>6. Tables(schema) \in Seq(T)
  BY <1>2, <1>4, FlattenType
<1>7. ToSet(Tables(schema)) = UNION {ToSet(mm[i]) : i \in DOMAIN schema}
  BY <1>2, <1>4, FlattenRange
<1>8. UNION {ToSet(mm[i]) : i \in DOMAIN schema} = T
  BY <1>5 DEF T, ToSet
<1> QED
  BY <1>6, <1>7, <1>8, ToSetInSeq DEF T

\* A cache of nothing has nothing.
LEMMA NoSchemaIsEmpty ==
    /\ NamesOf(NoSchema) = {} /\ Tables(NoSchema) = << >>
    /\ ToSet(NoSchema) = {} /\ ToSet(Tables(NoSchema)) = {}
<1>1. ToSet(<< >>) = {}
  BY DEF ToSet
<1>2. Tables(<< >>) = << >>
  BY FlattenEmpty DEF Tables, MapSeq
<1> QED
  BY <1>1, <1>2 DEF NoSchema, NamesOf

\* The columns of a row's table are those of all rows of it.
LEMMA TableOfColumns ==
    ASSUME NEW rows, NEW q
    PROVE  /\ TableOf(rows, q).name = q.table
           /\ TableOf(rows, q).columns =
                {r.column : r \in {s \in {t \in ToSet(rows) : t.table = q.table} :
                                    s.database = q.database}}
BY DEF TableOf, ToSet

\* What is in the schema of an SQL server.
LEMMA SqlServerSchema ==
    ASSUME NEW type \in SqlTypes, NEW server, server.rows \in Seq(ToSet(server.rows))
    PROVE  LET schema == IntrospectSchema(type, server)
               R == ToSet(server.rows)
           IN  /\ NamesOf(schema) \subseteq {r.database : r \in R}
               /\ Tables(schema) \in Seq({TableOf(server.rows, q) : q \in R})
               /\ server.up =>
                    \A r \in R : \E t \in ToSet(Tables(schema)) : t.name = r.table
<1>1. IntrospectSchema(type, server) = ScanInformationSchema(server)
  BY DEF IntrospectSchema, SqlTypes
<1>2. CASE server.up
  BY <1>1, <1>2, SqlSchema DEF ScanInformationSchema
<1>3. CASE ~server.up
  <2>1. IntrospectSchema(type, server) = NoSchema
    BY <1>1, <1>3 DEF ScanInformationSchema
  <2> QED
    BY <1>3, <2>1, NoSchemaIsEmpty, EmptySeq
<1> QED
  BY <1>2, <1>3

\* Columns are looked up in a table of the name, if there is one.
LEMMA ColumnsOfFirst ==
    ASSUME NEW schema, NEW T, Tables(schema) \in Seq(T), NEW name
    PROVE  IF \E t \in ToSet(Tables(schema)) : t.name = name
           THEN \E t \in ToSet(Tables(schema)) :
                    t.name = name /\ ColumnsOf(schema, name) = t.columns
           ELSE ColumnsOf(schema, name) = {}
<1> DEFINE s == Tables(schema)
           I == {i \in 1..Len(s) : s[i].name = name}
           n == SelectInSeq(s, LAMBDA t : t.name = name)
<1>1. Len(s) \in Nat /\ DOMAIN s = 1..Len(s)
  BY LenProperties
<1>2. n = IF I # {} THEN Min(I) ELSE 0
  BY DEF SelectInSeq
<1>3. ColumnsOf(schema, name) = IF n = 0 THEN {} ELSE s[n].columns
  BY DEF ColumnsOf
<1> HIDE DEF s, n
<1>4. (\E t \in ToSet(s) : t.name = name) <=> I # {}
  BY <1>1 DEF ToSet
<1>5. CASE I # {}
  <2>1. n \in I
    <3>1. I \subseteq Nat
      OBVIOUS
    <3> HIDE DEF I
    <3> QED
      BY <1>2, <1>5, <3>1, MinFacts
  <2>2. n # 0 /\ s[n].name = name /\ s[n] \in ToSet(s)
    BY <1>1, <2>1 DEF ToSet
  <2> QED
    BY <1>3, <1>4, <1>5, <2>2 DEF s
<1>6. CASE I = {}
  <2>1. n = 0
    BY <1>2, <1>6
  <2> QED
    BY <1>3, <1>4, <1>6, <2>1 DEF s
<1> QED
  BY <1>5, <1>6

\* All columns that are offered of an SQL schema are of one of its rows.
LEMMA SqlColumnsServed ==
    ASSUME NEW rows, NEW schema,
           Tables(schema) \in Seq({TableOf(rows, q) : q \in ToSet(rows)}),
           NEW aliases, NEW qualifier
    PROVE  SqlColumns(schema, aliases, qualifier) \subseteq {r.column : r \in ToSet(rows)}
<1> DEFINE C == {r.column : r \in ToSet(rows)}
           T == {TableOf(rows, q) : q \in ToSet(rows)}
<1>1. \A t \in ToSet(Tables(schema)) : t.columns \subseteq C
  <2>1. \A q : TableOf(rows, q).columns \subseteq C
    BY TableOfColumns
  <2>2. \A t \in T : t.columns \subseteq C
    BY <2>1
  <2>3. Tables(schema) \in Seq(T)
    OBVIOUS
  <2> HIDE DEF T
  <2>4. ToSet(Tables(schema)) \subseteq T
    BY <2>3, ToSetType
  <2> QED
    BY <2>2, <2>4
<1>2. AllColumns(schema) \subseteq C
  BY <1>1 DEF AllColumns
<1>3. \A name : ColumnsOf(schema, name) \subseteq C
  <2> SUFFICES ASSUME NEW name
               PROVE  ColumnsOf(schema, name) \subseteq C
    OBVIOUS
  <2> HIDE DEF C
  <2> QED
    BY <1>1, ColumnsOfFirst
<1> HIDE DEF C
<1> QED
  BY <1>2, <1>3 DEF SqlColumns, C

\* A MongoDB schema has the user databases with all their collections, and
\* is empty if any of them failed to be listed.
LEMMA MongoSchema ==
    ASSUME NEW server, server.databases \in Seq(ToSet(server.databases)),
           \A d \in ToSet(server.databases) :
                d.collections \in Seq(ToSet(d.collections))
    PROVE  LET schema == IntrospectSchema("mongo", server)
               all    == ToSet(server.databases)
               users  == {d \in all : d.name \notin SystemMongoDatabases}
           IN  IF server.up /\ \A d \in users : d.listed
               THEN /\ schema \in Seq(ToSet(schema))
                    /\ ToSet(schema) = {[name |-> d.name,
                                         tables |-> MongoCollections(d)] : d \in users}
               ELSE schema = NoSchema
<1> DEFINE all == server.databases
           D == ToSet(all)
           schema == IntrospectSchema("mongo", server)
           users == {d \in D : d.name \notin SystemMongoDatabases}
           P == {i \in DOMAIN all : all[i].name \notin SystemMongoDatabases}
           us == ElementsAt(all, P)
           entry(d) == [name |-> d.name, tables |-> MongoCollections(d)]
<1>1. schema = IF server.up /\ \A d \in ToSet(us) : d.listed
               THEN [i \in DOMAIN us |-> entry(us[i])] ELSE NoSchema
  BY DEF IntrospectSchema, IntrospectMongo, MapSeq
<1>2. us \in Seq(D) /\ ToSet(us) = {all[i] : i \in DOMAIN all \cap P}
  BY ElementsAtRange
<1>3. {all[i] : i \in DOMAIN all \cap P} = users
  BY DEF ToSet
<1> HIDE DEF us
<1>4. CASE server.up /\ \A d \in users : d.listed
  <2>1. schema = [i \in DOMAIN us |-> entry(us[i])]
    BY <1>1, <1>2, <1>3, <1>4
  <2>2. DOMAIN us = 1..Len(us) /\ Len(us) \in Nat
    BY <1>2, LenProperties
  <2> DEFINE s == [i \in DOMAIN us |-> entry(us[i])]
  <2>3. ToSet(s) = {entry(d) : d \in ToSet(us)}
    <3> HIDE DEF entry
    <3> QED
      BY DEF ToSet
  <2>4. s \in [1..Len(us) -> ToSet(s)]
    <3> HIDE DEF entry
    <3> QED
      BY <2>2 DEF ToSet
  <2> HIDE DEF s
  <2>5. s \in Seq(ToSet(s))
    BY <2>2, <2>4, SeqDef
  <2> HIDE DEF schema
  <2> QED
    BY <1>2, <1>3, <1>4, <2>1, <2>3, <2>5 DEF s, schema
<1>5. CASE ~(server.up /\ \A d \in users : d.listed)
  BY <1>1, <1>2, <1>3, <1>5
<1> QED
  BY <1>4, <1>5

LEMMA CollectionTables ==
    ASSUME NEW d, d.collections \in Seq(ToSet(d.collections))
    PROVE  /\ MongoCollections(d) \in Seq(ToSet(MongoCollections(d)))
           /\ NamesOf(MongoCollections(d)) = NamesOf(d.collections)
           /\ \A t \in ToSet(MongoCollections(d)) : \E c \in ToSet(d.collections) :
                t.columns \subseteq UNION ToSet(c.documents)
<1> DEFINE cs == d.collections
           m == MongoCollections(d)
<1>1. DOMAIN cs = 1..Len(cs) /\ Len(cs) \in Nat
  BY LenProperties
<1>2. m = [i \in DOMAIN cs |-> MongoCollection(cs[i])]
  BY DEF MongoCollections, MapSeq
<1>3. \A c : /\ MongoCollection(c).name = c.name
             /\ MongoCollection(c).columns \subseteq UNION ToSet(c.documents)
  BY DEF MongoCollection, SampleMongoFields, ToSet
<1> HIDE DEF cs, m
<1>4. DOMAIN m = DOMAIN cs /\ \A i \in DOMAIN cs : m[i] = MongoCollection(cs[i])
  BY <1>2
<1>5. m \in [1..Len(cs) -> ToSet(m)]
  BY <1>1, <1>2, <1>4 DEF ToSet
<1>6. m \in Seq(ToSet(m))
  BY <1>1, <1>5, SeqDef
<1>7. NamesOf(m) = NamesOf(cs)
  BY <1>3, <1>4 DEF NamesOf, ToSet
<1>8. \A t \in ToSet(m) : \E c \in ToSet(cs) :
                t.columns \subseteq UNION ToSet(c.documents)
  BY <1>3, <1>4 DEF ToSet
<1> QED
  BY <1>6, <1>7, <1>8 DEF cs, m

\* All that is in a MongoDB schema is on its server.
LEMMA MongoServed ==
    ASSUME NEW server, server.databases \in Seq(ToSet(server.databases)),
           \A d \in ToSet(server.databases) :
                d.collections \in Seq(ToSet(d.collections))
    PROVE  LET schema == IntrospectSchema("mongo", server)
               colls == UNION {ToSet(d.collections) : d \in ToSet(server.databases)}
           IN  /\ NamesOf(schema) \subseteq NamesOf(server.databases)
               /\ \A q : CollectionsOf(schema, q) \subseteq {c.name : c \in colls}
               /\ AllColumns(schema) \subseteq
                    UNION {UNION ToSet(c.documents) : c \in colls}
<1> DEFINE D == ToSet(server.databases)
           schema == IntrospectSchema("mongo", server)
           users == {d \in D : d.name \notin SystemMongoDatabases}
           colls == UNION {ToSet(d.collections) : d \in D}
           fields == UNION {UNION ToSet(c.documents) : c \in colls}
           entry(d) == [name |-> d.name, tables |-> MongoCollections(d)]
<1>1. \A d \in D :
        /\ MongoCollections(d) \in Seq(ToSet(MongoCollections(d)))
        /\ NamesOf(MongoCollections(d)) \subseteq {c.name : c \in colls}
        /\ \A t \in ToSet(MongoCollections(d)) : t.columns \subseteq fields
  <2> SUFFICES ASSUME NEW d \in D
               PROVE  /\ MongoCollections(d) \in Seq(ToSet(MongoCollections(d)))
                      /\ NamesOf(MongoCollections(d)) \subseteq {c.name : c \in colls}
                      /\ \A t \in ToSet(MongoCollections(d)) : t.columns \subseteq fields
    OBVIOUS
  <2>1. ToSet(d.collections) \subseteq colls
    OBVIOUS
  <2>2. \A c \in ToSet(d.collections) : UNION ToSet(c.documents) \subseteq fields
    BY <2>1
  <2>3. d.collections \in Seq(ToSet(d.collections))
    OBVIOUS
  <2> HIDE DEF fields, colls
  <2>4. /\ MongoCollections(d) \in Seq(ToSet(MongoCollections(d)))
        /\ NamesOf(MongoCollections(d)) = NamesOf(d.collections)
        /\ \A t \in ToSet(MongoCollections(d)) : \E c \in ToSet(d.collections) :
                t.columns \subseteq UNION ToSet(c.documents)
    BY <2>3, CollectionTables
  <2>5. NamesOf(d.collections) \subseteq {c.name : c \in colls}
    BY <2>1 DEF NamesOf
  <2> QED
    BY <2>2, <2>4, <2>5
<1>2. CASE schema = NoSchema
  <2> HIDE DEF schema, colls, fields
  <2>1. \A q : CollectionsOf(schema, q) = {}
    BY <1>2, NoSchemaIsEmpty DEF CollectionsOf
  <2>2. AllColumns(schema) = {} /\ NamesOf(schema) = {}
    BY <1>2, NoSchemaIsEmpty DEF AllColumns
  <2> QED
    BY <2>1, <2>2 DEF schema, colls, fields
<1>3. CASE schema # NoSchema
  <2>1. schema \in Seq(ToSet(schema)) /\ ToSet(schema) = {entry(d) : d \in users}
    BY <1>3, MongoSchema
  <2> HIDE DEF schema, fields, colls
  <2>2. \A e \in ToSet(schema) : \E d \in D : e.name = d.name /\ e.tables = MongoCollections(d)
    BY <2>1
  <2> HIDE DEF D
  <2>3. NamesOf(schema) \subseteq NamesOf(server.databases)
    BY <2>2 DEF NamesOf, D
  <2>4. \A q : CollectionsOf(schema, q) \subseteq {c.name : c \in colls}
    BY <1>1, <2>2 DEF CollectionsOf
  <2>5. ToSet(Tables(schema)) = UNION {ToSet(e.tables) : e \in ToSet(schema)}
    <3>1. \A e \in ToSet(schema) : e.tables \in Seq(ToSet(e.tables))
      BY <1>1, <2>2
    <3> QED
      BY <2>1, <3>1, TablesRange
  <2>6. AllColumns(schema) \subseteq fields
    BY <1>1, <2>2, <2>5 DEF AllColumns
  <2> QED
    BY <2>3, <2>4, <2>6 DEF schema, fields, colls, D
<1> QED
  BY <1>2, <1>3

-----------------------------------------------------------------------------
(* The words before the cursor. *)

RawWords == Words \cup {Hole, NewLine, Slashes}

LEMMA WordsOfType ==
    ASSUME NEW l \in Line
    PROVE  /\ WordsOf(l) \in Seq(RawWords)
           /\ l.kind # "comment" /\ ~(Header(l) /\ l.indented) => WordsOf(l) = l.text
           /\ ToSet(WordsOf(l)) \subseteq ToSet(l.text) \cup {Slashes, RawHeader}
           /\ ~(Header(l) /\ l.indented) =>
                ToSet(WordsOf(l)) \subseteq ToSet(l.text) \cup {Slashes}
<1>1. l.text \in Seq(RawWords)
  <2>1. l.text \in Seq(Words \cup {Hole})
    BY DEF Line, Text
  <2> QED
    BY <2>1, SeqMonotonic DEF RawWords
<1>2. ASSUME NEW w \in RawWords
      PROVE  /\ <<w>> \o l.text \in Seq(RawWords)
             /\ ToSet(<<w>> \o l.text) = {w} \cup ToSet(l.text)
  <2>1. <<w>> \in Seq(RawWords) /\ ToSet(<<w>>) = {w}
    BY DEF ToSet
  <2>2. <<w>> \o l.text \in Seq(RawWords)
    BY <1>1, <2>1
  <2>3. ToSet(<<w>> \o l.text) = ToSet(<<w>>) \cup ToSet(l.text)
    <3> DEFINE u == <<w>>
    <3>1. u \in Seq(RawWords)
      BY <2>1
    <3> HIDE DEF u
    <3>2. ToSet(u \o l.text) = ToSet(u) \cup ToSet(l.text)
      BY <1>1, <3>1, ToSetConcat
    <3> QED
      BY <3>2 DEF u
  <2> QED
    BY <2>1, <2>2, <2>3
<1>3. Slashes \in RawWords /\ RawHeader \in RawWords
  BY WordAssumption DEF RawWords, RawHeader
<1> QED
  BY <1>1, <1>2, <1>3 DEF WordsOf, Header

\* The words of some lines, an end of line before each.
Spread(text) == MapSeq(LAMBDA l : <<NewLine>> \o WordsOf(l), text)

LEMMA SpreadFacts ==
    ASSUME NEW text \in Seq(Line)
    PROVE  /\ Spread(text) \in Seq(Seq(RawWords)) /\ Len(Spread(text)) = Len(text)
           /\ \A i \in 1..Len(text) : Spread(text)[i] = <<NewLine>> \o WordsOf(text[i])
           /\ ToSet(FlattenSeq(Spread(text))) \subseteq
                {NewLine} \cup UNION {ToSet(WordsOf(text[i])) : i \in DOMAIN text}
           /\ text # << >> => /\ FlattenSeq(Spread(text)) # << >>
                              /\ FlattenSeq(Spread(text))[1] = NewLine
<1> DEFINE ss == Spread(text)
           n == Len(text)
<1>1. DOMAIN text = 1..n /\ n \in Nat
  BY LenProperties
<1>2. ss = [i \in 1..n |-> <<NewLine>> \o WordsOf(text[i])]
  BY <1>1 DEF Spread, MapSeq
<1>3. <<NewLine>> \in Seq(RawWords) /\ ToSet(<<NewLine>>) = {NewLine} /\ Len(<<NewLine>>) = 1
  BY DEF RawWords, ToSet
<1>4. ASSUME NEW i \in 1..n
      PROVE  /\ <<NewLine>> \o WordsOf(text[i]) \in Seq(RawWords)
             /\ ToSet(<<NewLine>> \o WordsOf(text[i])) = {NewLine} \cup ToSet(WordsOf(text[i]))
             /\ Len(<<NewLine>> \o WordsOf(text[i])) # 0
             /\ (<<NewLine>> \o WordsOf(text[i]))[1] = NewLine
  <2> DEFINE w == WordsOf(text[i])
  <2>1. w \in Seq(RawWords)
    BY WordsOfType, ElementOfSeq
  <2> HIDE DEF w
  <2>2. <<NewLine>> \o w \in Seq(RawWords)
    BY <1>3, <2>1
  <2>4. ToSet(<<NewLine>> \o w) = ToSet(<<NewLine>>) \cup ToSet(w)
    <3> DEFINE u == <<NewLine>>
    <3>1. u \in Seq(RawWords)
      BY <1>3
    <3> HIDE DEF u
    <3>2. ToSet(u \o w) = ToSet(u) \cup ToSet(w)
      BY <2>1, <3>1, ToSetConcat
    <3> QED
      BY <3>2 DEF u
  <2>3. Len(<<NewLine>> \o w) # 0 /\ (<<NewLine>> \o w)[1] = NewLine
    BY <1>3, <2>1
  <2> QED
    BY <1>3, <2>2, <2>3, <2>4 DEF w
<1> HIDE DEF ss
<1>5. ss \in Seq(Seq(RawWords)) /\ Len(ss) = n /\ DOMAIN ss = 1..n
  <2>1. ss \in [1..n -> Seq(RawWords)]
    BY <1>2, <1>4
  <2> QED
    BY <1>1, <2>1, SeqDef
<1>6. \A i \in 1..n : ss[i] = <<NewLine>> \o WordsOf(text[i])
  BY <1>2
<1>7. ToSet(FlattenSeq(ss)) \subseteq
            {NewLine} \cup UNION {ToSet(WordsOf(text[i])) : i \in DOMAIN text}
  <2>1. ToSet(FlattenSeq(ss)) = UNION {ToSet(ss[i]) : i \in DOMAIN ss}
    BY <1>5, FlattenRange
  <2>2. \A i \in 1..n : ToSet(ss[i]) = {NewLine} \cup ToSet(WordsOf(text[i]))
    BY <1>4, <1>6
  <2> QED
    BY <1>1, <1>5, <2>1, <2>2
<1>8. ASSUME text # << >>
      PROVE  FlattenSeq(ss) # << >> /\ FlattenSeq(ss)[1] = NewLine
  <2> DEFINE F(k) == FlattenSeq(SubSeq(ss, 1, k))
             ok(k) == F(k) \in Seq(RawWords) /\ Len(F(k)) # 0 /\ F(k)[1] = NewLine
             Good == {k \in Nat : k # 0 => ok(k)}
  <2>1. n # 0
    BY <1>8
  <2>2. 0 \in Good
    OBVIOUS
  <2>3. ASSUME NEW k \in 1..n, k - 1 \in Good
        PROVE  k \in Good
    <3> DEFINE a == F(k - 1)
               b == ss[k]
    <3>1. SubSeq(ss, 1, k - 1) \in Seq(Seq(RawWords))
      BY <1>5, PrefixGrows
    <3>2. b \in Seq(RawWords) /\ Len(b) # 0 /\ b[1] = NewLine
      BY <1>4, <1>6
    <3>3. a \in Seq(RawWords)
      BY <3>1, FlattenType
    <3>4. F(k) = a \o b
      <4>1. SubSeq(ss, 1, k) = Append(SubSeq(ss, 1, k - 1), b)
        BY <1>5, PrefixGrows
      <4> HIDE DEF b
      <4> QED
        BY <3>1, <3>2, <4>1, FlattenAppend
    <3>5. k - 1 = 0 => a = << >>
      BY <1>5, PrefixGrows, FlattenEmpty
    <3>6. k - 1 # 0 => Len(a) # 0 /\ a[1] = NewLine
      BY <1>1, <2>3
    <3> HIDE DEF F, a, b
    <3>7. a \o b \in Seq(RawWords)
      BY <3>2, <3>3
    <3>8. Len(a \o b) # 0 /\ (a \o b)[1] = NewLine
      <4>1. CASE k - 1 = 0
        BY <3>2, <3>5, <4>1
      <4>2. CASE k - 1 # 0
        BY <3>2, <3>3, <3>6, <4>2
      <4> QED
        BY <4>1, <4>2
    <3>9. ok(k)
      BY <3>4, <3>7, <3>8
    <3> HIDE DEF ok
    <3> QED
      BY <1>1, <3>9
  <2>4. n \in Good
    <3>1. 0 \in Good /\ \A k \in 1..n : k - 1 \in Good => k \in Good
      BY <2>2, <2>3
    <3>2. n \in 0..n
      BY <1>1
    <3> HIDE DEF Good, n
    <3> QED
      BY <1>1, <3>1, <3>2, CountingUp
  <2>5. F(n) = FlattenSeq(ss)
    BY <1>5, PrefixGrows
  <2> HIDE DEF F
  <2>6. FlattenSeq(ss)[1] = NewLine /\ Len(FlattenSeq(ss)) # 0
    BY <2>1, <2>4, <2>5
  <2>7. FlattenSeq(ss) = << >> => Len(FlattenSeq(ss)) = 0
    BY EmptySeq
  <2> QED
    BY <2>6, <2>7
<1> QED
  BY <1>5, <1>6, <1>7, <1>8 DEF ss

\* What is read of some lines, but for the end of line before the first.
LEMMA ContentFacts ==
    ASSUME NEW text \in Seq(Line), text # << >>, NEW c
    PROVE  /\ Content(text, c) \in Seq(RawWords)
           /\ <<NewLine>> \o Content(text, c) =
                FlattenSeq(Spread(text)) \o IF c.behind THEN << >> ELSE <<NewLine>>
           /\ ToSet(Content(text, c)) \subseteq
                {NewLine} \cup UNION {ToSet(WordsOf(text[i])) : i \in DOMAIN text}
<1> DEFINE a == FlattenSeq(Spread(text))
           b == IF c.behind THEN << >> ELSE <<NewLine>>
           t == Tail(a)
<1>1. a \in Seq(RawWords) /\ a # << >> /\ a[1] = NewLine
  BY SpreadFacts, FlattenType
<1>2. b \in Seq(RawWords) /\ ToSet(b) \subseteq {NewLine}
  <2>1. <<NewLine>> \in Seq(RawWords) /\ ToSet(<<NewLine>>) = {NewLine}
    BY DEF RawWords, ToSet
  <2>2. << >> \in Seq(RawWords) /\ ToSet(<< >>) = {}
    BY DEF ToSet
  <2> QED
    BY <2>1, <2>2
<1>3. Content(text, c) = t \o b
  BY DEF Content, Spread
<1>4. ToSet(a) \subseteq {NewLine} \cup UNION {ToSet(WordsOf(text[i])) : i \in DOMAIN text}
  BY SpreadFacts
<1>5. <<NewLine>> \in Seq(RawWords)
  BY DEF RawWords
<1> HIDE DEF a, b
<1>6. t \in Seq(RawWords) /\ a = <<NewLine>> \o t
  BY <1>1
<1> HIDE DEF t
<1>7. t \o b \in Seq(RawWords)
  BY <1>2, <1>6
<1>8. <<NewLine>> \o (t \o b) = (<<NewLine>> \o t) \o b
  BY <1>2, <1>5, <1>6
<1>9. ToSet(a) = ToSet(<<NewLine>>) \cup ToSet(t)
  <2> DEFINE first == <<NewLine>>
  <2>1. first \in Seq(RawWords) /\ a = first \o t
    BY <1>5, <1>6
  <2> HIDE DEF first
  <2>2. ToSet(first \o t) = ToSet(first) \cup ToSet(t)
    BY <1>6, <2>1, ToSetConcat
  <2> QED
    BY <2>1, <2>2 DEF first
<1>10. ToSet(t \o b) = ToSet(t) \cup ToSet(b)
  BY <1>2, <1>6, ToSetConcat
<1> QED
  BY <1>2, <1>3, <1>4, <1>6, <1>7, <1>8, <1>9, <1>10 DEF a, b

-----------------------------------------------------------------------------
(* The last significant keyword. *)

LEMMA PlaceOfFacts ==
    ASSUME NEW S, NEW words \in Seq(S), NEW kw
    PROVE  /\ PlaceOf(kw, words) \in 0..Len(words)
           /\ PlaceOf(kw, words) # 0 => words[PlaceOf(kw, words)] = kw
           /\ \A m \in 1..Len(words) :
                (words[m] = kw /\ \A i \in (m + 1)..Len(words) : ~Occurs(kw, words[i]))
                    => PlaceOf(kw, words) = m
<1> DEFINE I == {i \in 1..Len(words) : Occurs(kw, words[i])}
           n == SelectLastInSeq(words, LAMBDA w : Occurs(kw, w))
<1>1. n = IF I # {} THEN Max(I) ELSE 0
  BY DEF SelectLastInSeq
<1>2. Len(words) \in Nat /\ I \subseteq 0..Len(words)
  OBVIOUS
<1>3. I # {} => n \in I /\ \A i \in I : n >= i
  <2> HIDE DEF I, n
  <2> QED
    BY <1>1, <1>2, MaxFacts
<1>4. PlaceOf(kw, words) = IF n > 0 /\ words[n] = kw THEN n ELSE 0
  BY DEF PlaceOf
<1> HIDE DEF n
<1>5. n \in 0..Len(words)
  BY <1>1, <1>2, <1>3
<1>6. ASSUME NEW m \in 1..Len(words), words[m] = kw,
             \A i \in (m + 1)..Len(words) : ~Occurs(kw, words[i])
      PROVE  PlaceOf(kw, words) = m
  <2>1. m \in I
    BY <1>6 DEF Occurs
  <2>2. n \in I /\ n >= m
    BY <1>3, <2>1
  <2>3. ~(n > m)
    <3> SUFFICES ASSUME n > m PROVE FALSE
      OBVIOUS
    <3>1. n \in (m + 1)..Len(words)
      BY <1>2, <2>2
    <3> QED
      BY <1>6, <2>2, <3>1
  <2>4. n = m /\ n > 0
    BY <1>2, <2>2, <2>3
  <2> QED
    BY <1>4, <1>6, <2>4
<1> QED
  BY <1>2, <1>4, <1>5, <1>6

LEMMA PlaceOfPhraseFacts ==
    ASSUME NEW S, NEW words \in Seq(S), NEW first, NEW kw
    PROVE  /\ PlaceOfPhrase(first, kw, words) \in 0..Len(words)
           /\ PlaceOfPhrase(first, kw, words) # 0 =>
                words[PlaceOfPhrase(first, kw, words)] = kw
<1> DEFINE P == {n \in 2..Len(words) :
                    words[n - 1] = first /\ Occurs(kw, words[n])}
           n == Max(P \cup {0})
<1>1. Len(words) \in Nat /\ P \cup {0} \subseteq 0..Len(words)
  OBVIOUS
<1>2. n \in P \cup {0}
  <2>1. P \cup {0} # {}
    OBVIOUS
  <2> HIDE DEF P
  <2> QED
    BY <1>1, <2>1, MaxFacts
<1>3. PlaceOfPhrase(first, kw, words) = IF n > 0 /\ words[n] = kw THEN n ELSE 0
  BY DEF PlaceOfPhrase
<1> HIDE DEF n
<1>4. n \in 0..Len(words)
  BY <1>1, <1>2
<1> QED
  BY <1>1, <1>3, <1>4

\* Where the classifier finds a keyword.
KeywordPlace(kw, words) ==
    Max({PlaceOf(kw, words),
         CASE kw = "from" -> PlaceOfPhrase("delete", kw, words)
           [] kw = "into" -> PlaceOfPhrase("insert", kw, words)
           [] OTHER -> 0})

LEMMA KeywordPlaceFacts ==
    ASSUME NEW S, NEW words \in Seq(S), NEW kw
    PROVE  /\ KeywordPlace(kw, words) \in 0..Len(words)
           /\ KeywordPlace(kw, words) >= PlaceOf(kw, words)
           /\ KeywordPlace(kw, words) # 0 => words[KeywordPlace(kw, words)] = kw
<1> DEFINE p == PlaceOf(kw, words)
           q == CASE kw = "from" -> PlaceOfPhrase("delete", kw, words)
                  [] kw = "into" -> PlaceOfPhrase("insert", kw, words)
                  [] OTHER -> 0
           T == {p, q}
           n == KeywordPlace(kw, words)
<1>1. Len(words) \in Nat
  OBVIOUS
<1>2. p \in 0..Len(words) /\ (p # 0 => words[p] = kw)
  BY PlaceOfFacts
<1>3. q \in 0..Len(words) /\ (q # 0 => words[q] = kw)
  BY <1>1, PlaceOfPhraseFacts
<1>4. n = Max(T)
  BY DEF KeywordPlace
<1> HIDE DEF p, q
<1>5. T \subseteq 0..Len(words) /\ T # {} /\ p \in T
  BY <1>2, <1>3
<1> HIDE DEF n
<1>6. n \in T /\ \A i \in T : n >= i
  <2> HIDE DEF T
  <2> QED
    BY <1>1, <1>4, <1>5, MaxFacts
<1>7. n = p \/ n = q
  BY <1>6
<1>8. n >= p
  BY <1>5, <1>6
<1> QED
  BY <1>2, <1>3, <1>7, <1>8 DEF n, p

\* It is the one that is found last.
LEMMA KeywordIsLast ==
    ASSUME NEW S, NEW words \in Seq(S)
    PROVE  LET k == LastSignificantSqlKeyword(words)
           IN  \/ /\ k = "" /\ k \notin SignificantKeywords
                  /\ \A kw \in SignificantKeywords : KeywordPlace(kw, words) = 0
               \/ /\ k \in SignificantKeywords /\ KeywordPlace(k, words) # 0
                  /\ \A kw \in SignificantKeywords :
                        KeywordPlace(kw, words) <= KeywordPlace(k, words)
<1> DEFINE T == {KeywordPlace(kw, words) : kw \in SignificantKeywords}
           last == Max(T)
           k == LastSignificantSqlKeyword(words)
<1>1. Len(words) \in Nat /\ T \subseteq 0..Len(words)
  BY KeywordPlaceFacts
<1>2. T # {}
  BY DEF SignificantKeywords, TableKeywords
<1>3. k = IF last = 0 THEN ""
          ELSE CHOOSE kw \in SignificantKeywords : KeywordPlace(kw, words) = last
  BY DEF LastSignificantSqlKeyword, KeywordPlace
<1>4. last \in T /\ \A i \in T : last >= i
  <2> HIDE DEF T
  <2> QED
    BY <1>1, <1>2, MaxFacts
<1>5. "" \notin SignificantKeywords
  BY DEF SignificantKeywords, TableKeywords, ColumnKeywords
<1> HIDE DEF last, k
<1>6. CASE last = 0
  <2>1. ASSUME NEW kw \in SignificantKeywords
        PROVE  KeywordPlace(kw, words) = 0
    <3>1. 0 >= KeywordPlace(kw, words)
      BY <1>4, <1>6
    <3>2. KeywordPlace(kw, words) \in 0..Len(words)
      BY KeywordPlaceFacts
    <3> QED
      BY <1>1, <3>1, <3>2
  <2> QED
    BY <1>3, <1>5, <1>6, <2>1 DEF k
<1>7. CASE last # 0
  <2>1. \E kw \in SignificantKeywords : KeywordPlace(kw, words) = last
    BY <1>4
  <2>2. k \in SignificantKeywords /\ KeywordPlace(k, words) = last
    <3> HIDE DEF T
    <3> QED
      BY <1>3, <1>7, <2>1, Zenon
  <2>3. ASSUME NEW kw \in SignificantKeywords
        PROVE  KeywordPlace(kw, words) <= last
    <3>1. last >= KeywordPlace(kw, words)
      BY <1>4
    <3>2. KeywordPlace(kw, words) \in 0..Len(words) /\ last \in 0..Len(words)
      BY <1>1, <1>4, KeywordPlaceFacts
    <3> QED
      BY <1>1, <3>1, <3>2
  <2> QED
    BY <1>7, <2>2, <2>3 DEF k
<1> QED
  BY <1>6, <1>7

-----------------------------------------------------------------------------
(* The stage of the cursor. *)

LEMMA HeadersBeforeFacts ==
    ASSUME TextOK
    PROVE  LET m == IF cursor.behind THEN cursor.line ELSE cursor.line - 1
               heads == HeadersBefore(lines, cursor)
               h == Max(heads)
           IN  /\ m \in 0..Len(lines) /\ Before(lines, cursor) = SubSeq(lines, 1, m)
               /\ heads = {n \in 1..m : BufferHeader(lines[n])}
               /\ IsFiniteSet(heads) /\ (StageIndex = 0 <=> heads = {}) /\ StageIndex \in Nat
               /\ heads # {} => /\ h \in 1..m /\ BufferHeader(lines[h])
                                /\ \A n \in (h + 1)..m : ~BufferHeader(lines[n])
<1> DEFINE m == IF cursor.behind THEN cursor.line ELSE cursor.line - 1
           heads == HeadersBefore(lines, cursor)
           h == Max(heads)
<1>1. /\ lines \in Seq(Line) /\ cursor.line \in 1..Len(lines)
      /\ cursor.behind \in BOOLEAN /\ Len(lines) \in Nat
  BY LinesType DEF TextOK, Cursor
<1>2. m \in 0..Len(lines) /\ Before(lines, cursor) = SubSeq(lines, 1, m)
  BY <1>1 DEF Before
<1> HIDE DEF m
<1>3. DOMAIN Before(lines, cursor) = 1..m
  BY <1>1, <1>2
<1>4. heads = {n \in 1..m : BufferHeader(lines[n])}
  BY <1>3 DEF HeadersBefore
<1> HIDE DEF heads
<1>5. IsFiniteSet(heads)
  <2> DEFINE T == 1..m
  <2>1. IsFiniteSet(T)
    BY <1>1, <1>2, FS_Interval
  <2>2. heads \subseteq T
    BY <1>4
  <2> HIDE DEF T
  <2> QED
    BY <2>1, <2>2, FS_Subset
<1>6. (StageIndex = 0 <=> heads = {}) /\ StageIndex \in Nat
  BY <1>5, FS_EmptySet, FS_CardinalityType DEF StageIndex, heads
<1>7. ASSUME heads # {}
      PROVE  /\ h \in 1..m /\ BufferHeader(lines[h])
             /\ \A n \in (h + 1)..m : ~BufferHeader(lines[n])
  <2>1. heads \subseteq 0..m /\ m \in Nat
    BY <1>1, <1>2, <1>4
  <2>2. h \in heads /\ \A n \in heads : h >= n
    BY <1>7, <2>1, MaxFacts
  <2> HIDE DEF h
  <2>3. h \in Nat
    BY <2>1, <2>2
  <2>4. ASSUME NEW n \in (h + 1)..m, BufferHeader(lines[n])
        PROVE  FALSE
    <3>1. n \in 1..m /\ n \in Nat /\ n > h
      BY <2>1, <2>3
    <3>2. n \in heads
      BY <1>4, <2>4, <3>1
    <3> QED
      BY <2>2, <2>3, <3>1, <3>2
  <2> QED
    BY <1>4, <2>2, <2>4
<1> QED
  BY <1>2, <1>4, <1>5, <1>6, <1>7 DEF heads, m

\* What a run makes of the stage that the cursor is in.
LEMMA StageOfCursor ==
    ASSUME TextOK, Regular, StageIndex > 0
    PROVE  LET h == Max(HeadersBefore(lines, cursor))
           IN  /\ lines[h].label \in DOMAIN ConnMap(Registry)
               /\ SchemeOf[ConnMap(Registry)[lines[h].label]] # Unknown
               /\ Run.stages[StageIndex].conn = ConnMap(Registry)[lines[h].label]
               /\ StageIndex = Rank(lines, h)
<1> DEFINE m == IF cursor.behind THEN cursor.line ELSE cursor.line - 1
           h == Max(HeadersBefore(lines, cursor))
           heads == {n \in DOMAIN lines : Header(lines[n])}
<1>1. lines \in Seq(Line) /\ Len(lines) \in Nat /\ DOMAIN lines = 1..Len(lines)
  BY LinesType
<1>2. /\ m \in 0..Len(lines) /\ h \in 1..m /\ BufferHeader(lines[h])
      /\ \A n \in (h + 1)..m : ~BufferHeader(lines[n])
  BY HeadersBeforeFacts
<1>3. StageIndex = Rank(lines, m)
  BY HeadersUpToCursor DEF Regular
<1> HIDE DEF m, h
<1>4. h \in Nat /\ m \in Nat /\ h <= m /\ h \in 1..Len(lines)
  BY <1>1, <1>2
<1>5. Alone(lines, h, m)
  <2> SUFFICES ASSUME NEW g \in (h + 1)..m, Header(lines[g])
               PROVE  FALSE
    BY DEF Alone
  <2>1. g \in DOMAIN lines
    BY <1>1, <1>4, <1>2
  <2> QED
    BY <1>2, <2>1 DEF Regular, Aligned, BufferHeader
<1>6. StageIndex = Rank(lines, h)
  BY <1>3, <1>4, <1>5, AloneRank
<1>7. h \in heads
  BY <1>1, <1>2, <1>4 DEF BufferHeader
<1>8. ParseQuery(lines[h], ConnMap(Registry))
  <2>1. StagesAreSegments
    BY TextIsSegmented
  <2>2. Run.ok
    BY DEF Regular
  <2> QED
    BY <1>7, <2>1, <2>2 DEF StagesAreSegments
<1>9. {g \in heads : g <= h} = HeadersTo(lines, h)
  BY <1>1, <1>4 DEF HeadersTo
<1>10. Run.stages[StageIndex].conn = ConnMap(Registry)[lines[h].label]
  <2>1. StagesAreSegments
    BY TextIsSegmented
  <2>2. Run.ok
    BY DEF Regular
  <2>3. \A g \in heads : \E t :
            Run.stages[Cardinality({i \in heads : i <= g})] =
                [conn |-> ConnMap(Registry)[lines[g].label], line |-> t]
    BY <2>1, <2>2, Zenon DEF StagesAreSegments
  <2> HIDE DEF heads
  <2>4. PICK t : Run.stages[Cardinality({i \in heads : i <= h})] =
                [conn |-> ConnMap(Registry)[lines[h].label], line |-> t]
    BY <1>7, <2>3
  <2> QED
    BY <1>6, <1>9, <2>4 DEF Rank
<1> QED
  BY <1>6, <1>8, <1>10 DEF ParseQuery, h

\* The classification of a cursor in a stage.
LEMMA ClassInStage ==
    ASSUME ~OpensHeader(lines, cursor), HeadersBefore(lines, cursor) # {}
    PROVE  LET label == lines[Max(HeadersBefore(lines, cursor))].label
               type == TypeOfLabel(label, ConnMap(Registry))
               words == StageContent(lines, cursor)
               prefix == WordPrefixAt(lines, cursor)
           IN  /\ Class.context = ContextIn(type, words, prefix)
               /\ Class.label = label
               /\ Class.prefix = prefix
               /\ Class.aliases = IF type \in SqlTypes /\ ~InJqPlaceholder(words)
                                  THEN ExtractSqlAliases(words) ELSE << >>
BY DEF Class, ClassifyContext

\* What is read before the cursor stands in the lines of its stage.
LEMMA StageContentFacts ==
    ASSUME TextOK, HeadersBefore(lines, cursor) # {}
    PROVE  LET m == IF cursor.behind THEN cursor.line ELSE cursor.line - 1
               h == Max(HeadersBefore(lines, cursor))
               text == SubSeq(lines, h, m)
               words == StageContent(lines, cursor)
           IN  /\ h \in 1..m /\ m \in 1..Len(lines)
               /\ text \in Seq(Line) /\ text # << >> /\ Len(text) = m - h + 1
               /\ \A i \in 1..(m - h + 1) : text[i] = lines[h + i - 1]
               /\ words = Content(text, cursor)
               /\ words \in Seq(RawWords)
               /\ ToSet(words) \subseteq
                    {NewLine} \cup UNION {ToSet(WordsOf(lines[i])) : i \in h..m}
<1> DEFINE m == IF cursor.behind THEN cursor.line ELSE cursor.line - 1
           h == Max(HeadersBefore(lines, cursor))
           text == SubSeq(lines, h, m)
           words == StageContent(lines, cursor)
           before == Before(lines, cursor)
           I == {i \in 1..Len(before) : BufferHeader(before[i])}
           head == SelectLastInSeq(before, BufferHeader)
<1>1. lines \in Seq(Line) /\ Len(lines) \in Nat
  BY LinesType
<1>2. m \in 0..Len(lines) /\ h \in 1..m /\ before = SubSeq(lines, 1, m)
  BY HeadersBeforeFacts
<1>3. HeadersBefore(lines, cursor) = {n \in 1..m : BufferHeader(lines[n])}
  BY HeadersBeforeFacts
<1>4. head = IF I # {} THEN Max(I) ELSE 0
  BY DEF SelectLastInSeq
<1> HIDE DEF m, h, before, head
<1>5. before \in Seq(Line) /\ Len(before) = m /\ \A i \in 1..m : before[i] = lines[i]
  BY <1>1, <1>2
<1>6. I = HeadersBefore(lines, cursor)
  BY <1>3, <1>5
<1> HIDE DEF I
<1>7. head = h
  BY <1>4, <1>6 DEF h
<1>8. /\ text \in Seq(Line) /\ Len(text) = m - h + 1
      /\ \A i \in 1..(m - h + 1) : text[i] = lines[h + i - 1]
  BY <1>1, <1>2
<1>9. SubSeq(before, h, m) = text
  <2>1. /\ SubSeq(before, h, m) \in Seq(Line) /\ Len(SubSeq(before, h, m)) = m - h + 1
        /\ \A i \in 1..(m - h + 1) : SubSeq(before, h, m)[i] = before[h + i - 1]
    BY <1>1, <1>2, <1>5
  <2>2. \A i \in 1..(m - h + 1) : h + i - 1 \in 1..m
    BY <1>1, <1>2
  <2> HIDE DEF text
  <2>3. \A i \in 1..(m - h + 1) : SubSeq(before, h, m)[i] = text[i]
    BY <1>5, <1>8, <2>1, <2>2
  <2> QED
    BY <1>8, <2>1, <2>3, SeqEqual
<1>10. words = Content(text, cursor)
  BY <1>5, <1>7, <1>9 DEF StageContent, before, head
<1>11. text # << >>
  <2>1. Len(text) # 0
    BY <1>1, <1>2, <1>8
  <2>2. text = << >> => Len(text) = 0
    BY EmptySeq
  <2> QED
    BY <2>1, <2>2
<1> HIDE DEF text, words
<1>12. /\ words \in Seq(RawWords)
       /\ ToSet(words) \subseteq
            {NewLine} \cup UNION {ToSet(WordsOf(text[i])) : i \in DOMAIN text}
  BY <1>8, <1>10, <1>11, ContentFacts
<1>13. ToSet(words) \subseteq
            {NewLine} \cup UNION {ToSet(WordsOf(lines[i])) : i \in h..m}
  <2>1. ASSUME NEW i \in DOMAIN text
        PROVE  \E j \in h..m : text[i] = lines[j]
    <3>1. i \in 1..(m - h + 1)
      BY <1>8, <2>1
    <3>2. h + i - 1 \in h..m
      BY <1>1, <1>2, <3>1
    <3> QED
      BY <1>8, <3>1, <3>2
  <2> QED
    BY <1>12, <2>1
<1>14. m \in 1..Len(lines)
  BY <1>1, <1>2
<1> QED
  BY <1>2, <1>8, <1>10, <1>11, <1>12, <1>13, <1>14 DEF m, h, text, words

-----------------------------------------------------------------------------
(* What is offered in a stage. *)

\* The last word of a kind is among the words.
LastOf(K, words) == SelectLastInSeq(words, LAMBDA w : w \in K)

LEMMA LastOfFacts ==
    ASSUME NEW S, NEW words \in Seq(S), NEW K
    PROVE  LET n == LastOf(K, words)
           IN  /\ n \in 0..Len(words)
               /\ n # 0 => words[n] \in K
               /\ \A i \in 1..Len(words) : i > n => words[i] \notin K
<1> DEFINE I == {i \in 1..Len(words) : words[i] \in K}
           n == LastOf(K, words)
<1>1. n = IF I # {} THEN Max(I) ELSE 0
  BY DEF LastOf, SelectLastInSeq
<1>2. I \subseteq 0..Len(words) /\ Len(words) \in Nat
  OBVIOUS
<1>3. I # {} => Max(I) \in I /\ \A i \in I : Max(I) >= i
  BY <1>2, MaxFacts
<1> HIDE DEF n
<1>4. ASSUME I = {}
      PROVE  /\ n \in 0..Len(words)
             /\ n # 0 => words[n] \in K
             /\ \A i \in 1..Len(words) : i > n => words[i] \notin K
  BY <1>1, <1>2, <1>4
<1>5. ASSUME I # {}
      PROVE  /\ n \in 0..Len(words)
             /\ n # 0 => words[n] \in K
             /\ \A i \in 1..Len(words) : i > n => words[i] \notin K
  <2>1. n \in I /\ \A i \in I : n >= i
    BY <1>1, <1>3, <1>5
  <2>2. \A i \in 1..Len(words) : i > n => i \notin I
    BY <1>2, <2>1
  <2> QED
    BY <1>2, <2>1, <2>2
<1> QED
  BY <1>4, <1>5 DEF n

LEMMA SuggestServed ==
    ASSUME NEW kind, NEW names, NEW N, names \subseteq N, NEW prefix
    PROVE  Suggest(kind, names, prefix) \subseteq {[kind |-> kind, text |-> n] : n \in N}
BY DEF Suggest

\* The cursor is in a stage that a run would send somewhere.
CursorInStage ==
    Regular /\ StageIndex > 0 /\ ~OpensHeader(lines, cursor)

\* The classifier and the run have the same connection in mind.
LEMMA StageClass ==
    ASSUME TextOK, CursorInStage
    PROVE  LET conn  == Run.stages[StageIndex].conn
               words == StageContent(lines, cursor)
           IN  /\ conn \in Uris /\ words \in Seq(RawWords)
               /\ TypeOfLabel(Class.label, ConnMap(Registry)) = SchemeOf[conn]
               /\ Class.context = ContextIn(SchemeOf[conn], words, Class.prefix)
               /\ SchemeOf[conn] # "jq" =>
                    Class.label \in DOMAIN Registry /\ Registry[Class.label] = conn
               /\ Class.aliases =
                    IF SchemeOf[conn] \in SqlTypes /\ ~InJqPlaceholder(words)
                    THEN ExtractSqlAliases(words) ELSE << >>
<1> DEFINE h     == Max(HeadersBefore(lines, cursor))
           label == lines[h].label
           conns == ConnMap(Registry)
           conn  == Run.stages[StageIndex].conn
           words == StageContent(lines, cursor)
<1>1. HeadersBefore(lines, cursor) # {}
  BY HeadersBeforeFacts DEF CursorInStage
<1>2. label \in DOMAIN conns /\ conn = conns[label]
  BY StageOfCursor DEF CursorInStage
<1>3. /\ Class.context = ContextIn(TypeOfLabel(label, conns), words, Class.prefix)
      /\ Class.label = label
      /\ Class.aliases = IF TypeOfLabel(label, conns) \in SqlTypes /\ ~InJqPlaceholder(words)
                         THEN ExtractSqlAliases(words) ELSE << >>
  BY <1>1, ClassInStage DEF CursorInStage
<1>4. words \in Seq(RawWords)
  BY <1>1, StageContentFacts
<1> HIDE DEF words, label, conn, h
<1>5. TypeOfLabel(label, conns) = SchemeOf[conn]
  BY <1>2 DEF TypeOfLabel
<1>6. conn \in Uris
  BY <1>2, RegistryAssumption, UriAssumption DEF ConnMap
<1>7. SchemeOf[conn] # "jq" => label \in DOMAIN Registry /\ Registry[label] = conn
  BY <1>2, UriAssumption DEF ConnMap
<1> QED
  BY <1>3, <1>4, <1>5, <1>6, <1>7 DEF words, conn

\* A placeholder that the classifier sees stands in the text.
LEMMA PlaceholderInText ==
    ASSUME TextOK, Aligned(lines), HeadersBefore(lines, cursor) # {},
           InJqPlaceholder(StageContent(lines, cursor))
    PROVE  OpenedInStage
<1> DEFINE m == IF cursor.behind THEN cursor.line ELSE cursor.line - 1
           h == Max(HeadersBefore(lines, cursor))
           words == StageContent(lines, cursor)
<1>1. /\ h \in 1..m /\ m \in 1..Len(lines) /\ words \in Seq(RawWords)
      /\ ToSet(words) \subseteq
            {NewLine} \cup UNION {ToSet(WordsOf(lines[i])) : i \in h..m}
  BY StageContentFacts
<1>2. lines \in Seq(Line) /\ Len(lines) \in Nat
  BY LinesType
<1> HIDE DEF m, h, words
<1>3. OpenBraces \in ToSet(words)
  <2> DEFINE n == LastOf({OpenBraces, Hole}, words)
  <2>1. n > 0 /\ words[n] = OpenBraces
    BY DEF InJqPlaceholder, LastOf, words
  <2>2. n \in 0..Len(words)
    BY <1>1, LastOfFacts
  <2> HIDE DEF n
  <2> QED
    BY <1>1, <2>1, <2>2 DEF ToSet
<1>4. OpenBraces # NewLine /\ OpenBraces # Slashes
  BY DEF OpenBraces, NewLine, Slashes
<1>5. PICK i \in h..m : OpenBraces \in ToSet(WordsOf(lines[i]))
  BY <1>1, <1>3, <1>4
<1>6. i \in DOMAIN lines /\ lines[i] \in Line
  BY <1>1, <1>2, ElementOfSeq
<1>7. ~(Header(lines[i]) /\ lines[i].indented)
  BY <1>6 DEF Aligned
<1>8. OpenBraces \in ToSet(lines[i].text)
  BY <1>4, <1>5, <1>6, <1>7, WordsOfType
<1>9. Before(lines, cursor) = SubSeq(lines, 1, m) /\ m \in 0..Len(lines)
  BY HeadersBeforeFacts DEF m
<1>10. Len(Before(lines, cursor)) = m /\ Before(lines, cursor)[i] = lines[i]
  BY <1>1, <1>2, <1>9
<1>11. i \in Max(HeadersBefore(lines, cursor))..Len(Before(lines, cursor))
  BY <1>10 DEF h
<1> QED
  BY <1>8, <1>10, <1>11 DEF OpenedInStage

LEMMA ClassifySqlRange ==
    ASSUME NEW S, NEW words \in Seq(S), NEW prefix
    PROVE  ClassifySql(words, prefix) \in {"sql_column", "sql_keyword", "sql_table"}
<1> DEFINE k == LastSignificantSqlKeyword(words)
<1>1. k = "" \/ k \in SignificantKeywords
  BY KeywordIsLast
<1> HIDE DEF k
<1>2. k = "" \/ k \in TableKeywords \/ k \in ColumnKeywords
  BY <1>1 DEF SignificantKeywords
<1> QED
  BY <1>2 DEF ClassifySql, k

LEMMA OffersServed ==
    ASSUME TextOK, CursorInStage
    PROVE  LET conn == Run.stages[StageIndex].conn
           IN  Offers \subseteq
                Served(conn) \cup Catalog[SchemeOf[conn]] \cup
                (IF OpenedInStage THEN Catalog["jq"] ELSE {})
<1> DEFINE conn   == Run.stages[StageIndex].conn
           type   == SchemeOf[conn]
           words  == StageContent(lines, cursor)
           prefix == Class.prefix
           server == Servers[conn]
           schema == SchemaOf(Class.label, Registry)
           p      == ToComplete(prefix)
           q      == Qualifier(prefix)
           Goal   == Served(conn) \cup Catalog[type] \cup
                        (IF OpenedInStage THEN Catalog["jq"] ELSE {})
<1>1. /\ conn \in Uris /\ words \in Seq(RawWords)
      /\ TypeOfLabel(Class.label, ConnMap(Registry)) = type
      /\ Class.context = ContextIn(type, words, prefix)
      /\ type # "jq" => Class.label \in DOMAIN Registry /\ Registry[Class.label] = conn
  BY StageClass
<1>2. HeadersBefore(lines, cursor) # {}
  BY HeadersBeforeFacts DEF CursorInStage
<1>3. InJqPlaceholder(words) => OpenedInStage
  BY <1>2, PlaceholderInText DEF CursorInStage, Regular
<1>4. \A t, kinds : Builtin(t, kinds, p) \subseteq Catalog[t]
  BY DEF Builtin
<1>5. /\ conn \in DOMAIN Servers <=> type \in SqlTypes \cup {"mongo"}
      /\ type \in SqlTypes => server.rows \in Seq(ToSet(server.rows))
      /\ type = "mongo" =>
            /\ server.databases \in Seq(ToSet(server.databases))
            /\ \A d \in ToSet(server.databases) : d.collections \in Seq(ToSet(d.collections))
  BY <1>1, ServerAssumption DEF SqlTypes
<1>6. type \in SqlTypes \cup {"mongo"} => schema = IntrospectSchema(type, server)
  BY <1>1, <1>5 DEF SchemaOf, SqlTypes
<1>7. Offers = ComputeSuggestions(Class, Registry)
  BY DEF Offers
<1> HIDE DEF conn, type, words, prefix, server, schema, p, q
<1>8. ASSUME InJqPlaceholder(words) \/ type = "jq"
      PROVE  Offers \subseteq Goal
  <2>1. Class.context = "jq_placeholder"
    BY <1>1, <1>8 DEF ContextIn
  <2>2. Offers \subseteq Catalog["jq"]
    BY <1>4, <1>7, <2>1 DEF ComputeSuggestions, p, prefix
  <2> QED
    BY <1>3, <1>8, <2>2
<1>9. ASSUME ~(InJqPlaceholder(words) \/ type = "jq") /\ type \in SqlTypes
      PROVE  Offers \subseteq Goal
  <2>1. Class.context \in {"sql_column", "sql_keyword", "sql_table"}
    BY <1>1, <1>9, ClassifySqlRange DEF ContextIn, SqlTypes
  <2>2. CASE Class.context = "sql_keyword"
    BY <1>1, <1>4, <1>7, <2>2 DEF ComputeSuggestions, p, prefix
  <2> DEFINE R == ToSet(server.rows)
             named(kind, names) == {[kind |-> kind, text |-> n] : n \in names}
  <2>3. /\ NamesOf(schema) \subseteq {r.database : r \in R}
        /\ Tables(schema) \in Seq({TableOf(server.rows, r) : r \in R})
    BY <1>5, <1>6, <1>9, SqlServerSchema
  <2>4. Served(conn) = named("database", {r.database : r \in R}) \cup
                       named("table", {r.table : r \in R}) \cup
                       named("column", {r.column : r \in R})
    <3>1. SchemeOf[conn] \in SqlTypes
      BY <1>9 DEF type
    <3>2. SchemeOf[conn] # "mongo"
      BY <3>1 DEF SqlTypes
    <3> QED
      BY <3>1, <3>2 DEF Served, server
  <2>5. NamesOf(Tables(schema)) \subseteq {r.table : r \in R}
    <3>1. \A t \in {TableOf(server.rows, r) : r \in R} : t.name \in {r.table : r \in R}
      BY TableOfColumns
    <3> QED
      BY <2>3, <3>1, ToSetType DEF NamesOf
  <2>6. SqlColumns(schema, Class.aliases, q) \subseteq {r.column : r \in R}
    BY <2>3, SqlColumnsServed
  <2> HIDE DEF R
  <2>7. CASE Class.context = "sql_table"
    <3>1. Offers = Suggest("database", NamesOf(schema), p) \cup
                   Suggest("table", NamesOf(Tables(schema)), p)
      BY <1>7, <2>7 DEF ComputeSuggestions, FromSchema, p, prefix, schema
    <3>2. Suggest("database", NamesOf(schema), p)
            \subseteq named("database", {r.database : r \in R})
      BY <2>3, SuggestServed
    <3>3. Suggest("table", NamesOf(Tables(schema)), p)
            \subseteq named("table", {r.table : r \in R})
      BY <2>5, SuggestServed
    <3> QED
      BY <2>4, <3>1, <3>2, <3>3
  <2>8. CASE Class.context = "sql_column"
    <3>1. Offers = Suggest("column", SqlColumns(schema, Class.aliases, q), p)
      BY <1>7, <2>8 DEF ComputeSuggestions, FromSchema, p, q, prefix, schema
    <3>2. Suggest("column", SqlColumns(schema, Class.aliases, q), p)
            \subseteq named("column", {r.column : r \in R})
      BY <2>6, SuggestServed
    <3> QED
      BY <2>4, <3>1, <3>2
  <2> QED
    BY <2>1, <2>2, <2>7, <2>8
<1>10. ASSUME ~(InJqPlaceholder(words) \/ type = "jq") /\ type = "mongo"
      PROVE  Offers \subseteq Goal
  <2>1. Class.context = ClassifyMongo(words)
    BY <1>1, <1>10 DEF ContextIn, SqlTypes
  <2>2. ClassifyMongo(words) \in {"mongo_database", "mongo_collection",
                                  "mongo_operation", "mongo_field", "unknown"}
    BY DEF ClassifyMongo
  <2>3. CASE Class.context = "mongo_operation"
    BY <1>4, <1>7, <1>10, <2>3 DEF ComputeSuggestions, p, prefix
  <2>4. CASE Class.context = "unknown"
    BY <1>7, <2>4 DEF ComputeSuggestions
  <2> DEFINE named(kind, names) == {[kind |-> kind, text |-> n] : n \in names}
             colls == UNION {ToSet(d.collections) : d \in ToSet(server.databases)}
             fields == UNION {UNION ToSet(c.documents) : c \in colls}
  <2>5. /\ NamesOf(schema) \subseteq NamesOf(server.databases)
        /\ CollectionsOf(schema, q) \subseteq {c.name : c \in colls}
        /\ AllColumns(schema) \subseteq fields
    BY <1>5, <1>6, <1>10, MongoServed
  <2>6. Served(conn) = named("database", NamesOf(server.databases)) \cup
                       named("mongo_collection", {c.name : c \in colls}) \cup
                       named("mongo_field", fields)
    BY <1>10 DEF Served, type, server, SqlTypes
  <2> HIDE DEF colls, fields
  <2>7. CASE Class.context = "mongo_database"
    <3>1. Offers = Suggest("database", NamesOf(schema), p)
      BY <1>7, <2>7 DEF ComputeSuggestions, FromSchema, p, prefix, schema
    <3>2. Suggest("database", NamesOf(schema), p)
            \subseteq named("database", NamesOf(server.databases))
      BY <2>5, SuggestServed
    <3> QED
      BY <2>6, <3>1, <3>2
  <2>8. CASE Class.context = "mongo_collection"
    <3>1. Offers = Suggest("mongo_collection", CollectionsOf(schema, q), p)
      BY <1>7, <2>8 DEF ComputeSuggestions, FromSchema, p, q, prefix, schema
    <3>2. Suggest("mongo_collection", CollectionsOf(schema, q), p)
            \subseteq named("mongo_collection", {c.name : c \in colls})
      BY <2>5, SuggestServed
    <3> QED
      BY <2>6, <3>1, <3>2
  <2>9. CASE Class.context = "mongo_field"
    <3>1. Offers = Suggest("mongo_field", AllColumns(schema), p)
      BY <1>7, <2>9 DEF ComputeSuggestions, FromSchema, p, prefix, schema
    <3>2. Suggest("mongo_field", AllColumns(schema), p)
            \subseteq named("mongo_field", fields)
      BY <2>5, SuggestServed
    <3> QED
      BY <2>6, <3>1, <3>2
  <2> QED
    BY <2>1, <2>2, <2>3, <2>4, <2>7, <2>8, <2>9
<1>11. ASSUME ~(InJqPlaceholder(words) \/ type = "jq"), type \notin SqlTypes, type # "mongo"
       PROVE  Offers \subseteq Goal
  <2>1. Class.context = IF type = "redis" THEN "redis_command" ELSE "unknown"
    BY <1>1, <1>11 DEF ContextIn
  <2>2. CASE type = "redis"
    BY <1>4, <1>7, <2>1, <2>2 DEF ComputeSuggestions, p, prefix
  <2>3. CASE type # "redis"
    BY <1>7, <2>1, <2>3 DEF ComputeSuggestions
  <2> QED
    BY <2>2, <2>3
<1> QED
  BY <1>8, <1>9, <1>10, <1>11 DEF conn, type

LEMMA TextOffersWhatIsServed ==
    ASSUME TextOK
    PROVE  OffersAreOfTheStage
BY OffersServed DEF OffersAreOfTheStage, CursorInStage

-----------------------------------------------------------------------------
(* The collections of a MongoDB database. *)

LEMMA CollectionsComplete ==
    ASSUME NEW server, server.databases \in Seq(ToSet(server.databases)),
           \A d \in ToSet(server.databases) :
                d.collections \in Seq(ToSet(d.collections)),
           NEW q, Len(q) = 2
    PROVE  CollectionsOf(IntrospectSchema("mongo", server), q) =
            IF server.up /\ \A d \in ToSet(server.databases) :
                                d.listed \/ d.name \in SystemMongoDatabases
            THEN UNION {NamesOf(d.collections) :
                          d \in {e \in ToSet(server.databases) :
                                    /\ e.name = q[2]
                                    /\ e.name \notin SystemMongoDatabases}}
            ELSE {}
<1> DEFINE D == ToSet(server.databases)
           schema == IntrospectSchema("mongo", server)
           users == {d \in D : d.name \notin SystemMongoDatabases}
           entry(d) == [name |-> d.name, tables |-> MongoCollections(d)]
           named == {e \in D : e.name = q[2] /\ e.name \notin SystemMongoDatabases}
           listed == \A d \in D : d.listed \/ d.name \in SystemMongoDatabases
<1>1. CollectionsOf(schema, q) =
        UNION {NamesOf(e.tables) : e \in {f \in ToSet(schema) : f.name = q[2]}}
  BY DEF CollectionsOf
<1>2. IF server.up /\ \A d \in users : d.listed
      THEN ToSet(schema) = {entry(d) : d \in users}
      ELSE schema = NoSchema
  BY MongoSchema
<1>3. listed <=> \A d \in users : d.listed
  OBVIOUS
<1>4. \A d \in D : NamesOf(MongoCollections(d)) = NamesOf(d.collections)
  BY CollectionTables
<1> HIDE DEF schema, listed
<1>5. ASSUME server.up, listed
      PROVE  CollectionsOf(schema, q) = UNION {NamesOf(d.collections) : d \in named}
  <2>1. ToSet(schema) = {entry(d) : d \in users}
    BY <1>2, <1>3, <1>5
  <2>2. {NamesOf(e.tables) : e \in {f \in ToSet(schema) : f.name = q[2]}}
            = {NamesOf(d.collections) : d \in named}
    <3>1. \A e \in ToSet(schema) : e.name = q[2] =>
            \E d \in named : NamesOf(e.tables) = NamesOf(d.collections)
      BY <1>4, <2>1
    <3>2. \A d \in named : \E e \in ToSet(schema) :
            e.name = q[2] /\ NamesOf(e.tables) = NamesOf(d.collections)
      <4> SUFFICES ASSUME NEW d \in named
                   PROVE  \E e \in ToSet(schema) :
                            e.name = q[2] /\ NamesOf(e.tables) = NamesOf(d.collections)
        OBVIOUS
      <4>1. entry(d) \in ToSet(schema)
        BY <2>1
      <4> QED
        BY <1>4, <4>1
    <3> HIDE DEF named
    <3> QED
      BY <3>1, <3>2
  <2> QED
    BY <1>1, <2>2
<1>6. ASSUME ~(server.up /\ listed)
      PROVE  CollectionsOf(schema, q) = {}
  BY <1>1, <1>2, <1>3, <1>6, NoSchemaIsEmpty
<1> QED
  BY <1>5, <1>6 DEF schema, listed

\* Nothing typed restricts nothing.
LEMMA SuggestsAll ==
    ASSUME NEW kind, NEW names
    PROVE  {o.text : o \in Suggest(kind, names, "")} = names
<1> DEFINE nothing == ""
           S == Suggest(kind, names, nothing)
<1>1. \A n : Completes(nothing, n)
  BY Zenon DEF Completes
<1> HIDE DEF nothing
<1>2. S = {[kind |-> kind, text |-> n] : n \in names}
  BY <1>1 DEF Suggest
<1>3. \A o \in S : o.text \in names
  BY <1>2
<1>4. \A n \in names : \E o \in S : o.text = n
  <2> SUFFICES ASSUME NEW n \in names
               PROVE  \E o \in S : o.text = n
    OBVIOUS
  <2>1. [kind |-> kind, text |-> n] \in S
    BY <1>2
  <2> QED
    BY <2>1
<1> HIDE DEF S
<1>5. {o.text : o \in S} = names
  BY <1>3, <1>4
<1> QED
  BY <1>5, Zenon DEF S, nothing

\* The qualifier of a path is all of it but its last name.
LEMMA QualifierFacts ==
    ASSUME NEW path \in Seq(STRING), Len(path) > 0
    PROVE  LET q == Qualifier(path)
           IN  /\ q \in Seq(STRING) /\ Len(q) = Len(path) - 1
               /\ \A i \in 1..(Len(path) - 1) : q[i] = path[i]
<1> DEFINE n == Len(path) - 1
<1>1. path # << >>
  BY EmptySeq
<1>2. Qualifier(path) = SubSeq(path, 1, n)
  BY <1>1 DEF Qualifier, Front
<1>3. n \in 0..Len(path)
  OBVIOUS
<1> HIDE DEF n
<1>4. /\ SubSeq(path, 1, n) \in Seq(STRING) /\ Len(SubSeq(path, 1, n)) = n
      /\ \A i \in 1..n : SubSeq(path, 1, n)[i] = path[i]
  BY <1>3
<1> QED
  BY <1>2, <1>4 DEF n

\* A word that is typed is a path of names.
LEMMA PrefixType ==
    ASSUME TextOK
    PROVE  Class.prefix \in Seq(STRING)
<1>1. \A w : PartsOf(w) \in Seq(STRING)
  BY WordsAssumption, EmptySeq DEF PartsOf
<1>2. WordPrefixAt(lines, cursor) \in Seq(STRING)
  BY <1>1, EmptySeq DEF WordPrefixAt
<1> QED
  BY <1>2, EmptySeq DEF Class, ClassifyContext, NoClass

\* In a MongoDB stage the classifier has a MongoDB server in mind.
LEMMA MongoClass ==
    ASSUME TextOK, Class.context = "mongo_collection"
    PROVE  /\ Class.label \in DOMAIN Registry
           /\ SchemeOf[Registry[Class.label]] = "mongo"
           /\ Registry[Class.label] \in DOMAIN Servers
<1> DEFINE h     == Max(HeadersBefore(lines, cursor))
           label == lines[h].label
           conns == ConnMap(Registry)
           type  == TypeOfLabel(label, conns)
           words == StageContent(lines, cursor)
<1>1. ~OpensHeader(lines, cursor) /\ HeadersBefore(lines, cursor) # {}
  BY DEF Class, ClassifyContext, NoClass
<1>2. Class.context = ContextIn(type, words, Class.prefix) /\ Class.label = label
  BY <1>1, ClassInStage
<1>3. words \in Seq(RawWords)
  BY <1>1, StageContentFacts
<1> HIDE DEF words, label, h
<1>4. type = "mongo"
  <2>1. type \in SqlTypes => Class.context # "mongo_collection"
    BY <1>2, <1>3, ClassifySqlRange DEF ContextIn, SqlTypes
  <2>2. InJqPlaceholder(words) \/ type = "jq" => Class.context # "mongo_collection"
    BY <1>2 DEF ContextIn
  <2>3. type \notin SqlTypes /\ ~(InJqPlaceholder(words) \/ type = "jq") /\ type # "mongo"
            => Class.context \in {"redis_command", "unknown"}
    <3> HIDE DEF type
    <3> QED
      BY <1>2 DEF ContextIn
  <2> QED
    BY <2>1, <2>2, <2>3
<1>5. label \in DOMAIN conns /\ SchemeOf[conns[label]] = "mongo"
  BY <1>4 DEF TypeOfLabel, Unknown
<1>6. /\ label \in DOMAIN Registry /\ Registry[label] = conns[label]
      /\ Registry[label] \in Uris
  BY <1>5, UriAssumption, RegistryAssumption DEF ConnMap
<1> QED
  BY <1>2, <1>5, <1>6, ServerAssumption

LEMMA CollectionsOffered ==
    ASSUME TextOK, Class.context = "mongo_collection", Len(Class.prefix) = 3,
           NEW nothing, ToComplete(Class.prefix) = nothing,
           \A kind, names : {o.text : o \in Suggest(kind, names, nothing)} = names
    PROVE  LET path   == Class.prefix
               server == Servers[Registry[Class.label]]
           IN  {o.text : o \in Offers} =
                    IF server.up /\ \A d \in ToSet(server.databases) :
                            d.listed \/ d.name \in SystemMongoDatabases
                    THEN UNION {NamesOf(d.collections) :
                              d \in {e \in ToSet(server.databases) :
                                    /\ e.name = path[2]
                                    /\ e.name \notin SystemMongoDatabases}}
                    ELSE {}
<1> DEFINE path   == Class.prefix
           uri    == Registry[Class.label]
           server == Servers[uri]
           schema == SchemaOf(Class.label, Registry)
           q      == Qualifier(path)
           C      == CollectionsOf(schema, q)
<1>1. Class.label \in DOMAIN Registry /\ SchemeOf[uri] = "mongo" /\ uri \in DOMAIN Servers
  BY MongoClass
<1>2. path \in Seq(STRING) /\ Len(path) = 3
  BY PrefixType
<1>3. schema = IntrospectSchema("mongo", server)
  BY <1>1 DEF SchemaOf
<1>4. Offers = Suggest("mongo_collection", C, nothing)
  BY DEF Offers, ComputeSuggestions, FromSchema
<1>5. {o.text : o \in Offers} = C
  BY <1>4
<1>6. Len(q) = 2 /\ q[2] = path[2]
  <2> HIDE DEF path
  <2> DEFINE n == Len(path)
  <2>1. n > 0 /\ n = 3
    BY <1>2
  <2>2. Len(q) = n - 1 /\ \A i \in 1..(n - 1) : q[i] = path[i]
    BY <1>2, <2>1, QualifierFacts
  <2> HIDE DEF q, n
  <2> QED
    BY <2>1, <2>2
<1> HIDE DEF path
<1>7. /\ server.databases \in Seq(ToSet(server.databases))
      /\ \A d \in ToSet(server.databases) : d.collections \in Seq(ToSet(d.collections))
  BY <1>1, ServerAssumption DEF SqlTypes
<1> HIDE DEF server, schema, q
<1>8. C = IF server.up /\ \A d \in ToSet(server.databases) :
                                d.listed \/ d.name \in SystemMongoDatabases
          THEN UNION {NamesOf(d.collections) :
                          d \in {e \in ToSet(server.databases) :
                                    /\ e.name = q[2]
                                    /\ e.name \notin SystemMongoDatabases}}
          ELSE {}
  BY <1>3, <1>6, <1>7, CollectionsComplete
<1> QED
  BY <1>5, <1>6, <1>8 DEF server, path

LEMMA TextListsCollections ==
    ASSUME TextOK
    PROVE  EveryCollectionIsOffered
BY SuggestsAll, CollectionsOffered, Zenon DEF EveryCollectionIsOffered

-----------------------------------------------------------------------------
(* What the classifier sees of an SQL stage, and what a run would send of  *)
(* it.                                                                     *)

LEMMA BreaksOfBreak ==
    ASSUME NEW S, NewLine \in S
    PROVE  WithoutBreaks(<<NewLine>>) = << >> /\ WithoutBreaks(<< >>) = << >>
<1>1. << >> \in Seq(S) /\ ToSet(<< >>) = {}
  BY DEF ToSet
<1>2. WithoutBreaks(<< >>) = << >>
  BY <1>1, BreaksNone
<1>3. Append(<< >>, NewLine) = <<NewLine>>
  OBVIOUS
<1>4. WithoutBreaks(Append(<< >>, NewLine)) = WithoutBreaks(<< >>) \o << >>
  BY <1>1, BreaksAppend
<1> QED
  BY <1>2, <1>3, <1>4

LEMMA WordsAreNoBreaks ==
    ASSUME NEW l \in Line
    PROVE  Body(l) \in Seq(RawWords) /\ NewLine \notin ToSet(Body(l))
<1>1. Body(l) \in Text
  BY DEF Body, Line, Text
<1>2. Body(l) \in Seq(Words \cup {Hole})
  BY <1>1 DEF Text
<1>3. Body(l) \in Seq(RawWords)
  BY <1>2, SeqMonotonic DEF RawWords
<1>4. ToSet(Body(l)) \subseteq Words \cup {Hole}
  BY <1>2, ToSetType
<1> QED
  BY <1>3, <1>4, WordsAssumption

\* Without comments and ends of lines it sees what a run sends.
LEMMA BreaksOfContent ==
    ASSUME NEW text \in Seq(Line), text # << >>, NEW c,
           \A i \in 1..Len(text) : /\ text[i].kind # "comment"
                                   /\ ~(Header(text[i]) /\ text[i].indented)
    PROVE  WithoutBreaks(Content(text, c)) =
            FlattenSeq([i \in 1..Len(text) |-> Body(text[i])])
<1> DEFINE n  == Len(text)
           ss == Spread(text)
           bs == [i \in 1..n |-> Body(text[i])]
           w(i) == WordsOf(text[i])
           C  == Content(text, c)
           b  == IF c.behind THEN << >> ELSE <<NewLine>>
<1>1. n \in Nat
  OBVIOUS
<1>2. /\ ss \in Seq(Seq(RawWords)) /\ Len(ss) = n
      /\ \A i \in 1..n : ss[i] = <<NewLine>> \o w(i)
  BY SpreadFacts
<1>3. ASSUME NEW i \in 1..n
      PROVE  /\ w(i) = Body(text[i]) /\ Body(text[i]) \in Seq(RawWords)
             /\ NewLine \notin ToSet(Body(text[i]))
  <2>1. text[i] \in Line
    BY ElementOfSeq
  <2>2. w(i) = text[i].text
    BY <2>1, WordsOfType
  <2>3. Body(text[i]) = text[i].text
    BY <2>1 DEF Body, Line
  <2> QED
    BY <2>1, <2>2, <2>3, WordsAreNoBreaks
<1>4. bs \in Seq(Seq(RawWords)) /\ Len(bs) = n /\ \A i \in 1..n : bs[i] = Body(text[i])
  <2>1. bs \in [1..n -> Seq(RawWords)]
    BY <1>3
  <2> QED
    BY <1>1, <2>1, SeqDef
<1>5. NewLine \in RawWords /\ <<NewLine>> \in Seq(RawWords) /\ << >> \in Seq(RawWords)
  BY DEF RawWords
<1>6. WithoutBreaks(<<NewLine>>) = << >> /\ WithoutBreaks(<< >>) = << >>
  BY <1>5, BreaksOfBreak
<1> HIDE DEF n, ss, bs, w
<1>7. ASSUME NEW i \in 1..n
      PROVE  WithoutBreaks(ss[i]) = bs[i]
  <2>1. bs[i] \in Seq(RawWords) /\ NewLine \notin ToSet(bs[i]) /\ ss[i] = <<NewLine>> \o bs[i]
    BY <1>2, <1>3, <1>4
  <2>2. WithoutBreaks(bs[i]) = bs[i]
    BY <2>1, BreaksNone
  <2>3. WithoutBreaks(<<NewLine>> \o bs[i]) =
            WithoutBreaks(<<NewLine>>) \o WithoutBreaks(bs[i])
    BY <1>5, <2>1, BreaksConcat
  <2>4. << >> \o bs[i] = bs[i]
    BY <2>1
  <2> QED
    BY <1>6, <2>1, <2>2, <2>3, <2>4
<1>8. WithoutBreaks(FlattenSeq(ss)) = FlattenSeq(bs)
  <2> DEFINE F(k) == FlattenSeq(SubSeq(ss, 1, k))
             G(k) == FlattenSeq(SubSeq(bs, 1, k))
             Good == {k \in Nat : WithoutBreaks(F(k)) = G(k)}
  <2>1. 0 \in Good
    <3>1. SubSeq(ss, 1, 0) = << >> /\ SubSeq(bs, 1, 0) = << >>
      BY <1>2, <1>4, PrefixGrows
    <3> QED
      BY <1>6, <3>1, FlattenEmpty
  <2>2. ASSUME NEW k \in 1..n, k - 1 \in Good
        PROVE  k \in Good
    <3> DEFINE sp == SubSeq(ss, 1, k - 1)
               bp == SubSeq(bs, 1, k - 1)
    <3>1. sp \in Seq(Seq(RawWords)) /\ SubSeq(ss, 1, k) = Append(sp, ss[k])
      BY <1>2, PrefixGrows
    <3>2. bp \in Seq(Seq(RawWords)) /\ SubSeq(bs, 1, k) = Append(bp, bs[k])
      BY <1>4, PrefixGrows
    <3>3. WithoutBreaks(FlattenSeq(sp)) = FlattenSeq(bp)
      BY <2>2
    <3> HIDE DEF sp, bp
    <3>4. ss[k] \in Seq(RawWords) /\ bs[k] \in Seq(RawWords)
      BY <1>1, <1>2, <1>4, ElementOfSeq
    <3>5. F(k) = FlattenSeq(sp) \o ss[k] /\ G(k) = FlattenSeq(bp) \o bs[k]
      BY <3>1, <3>2, <3>4, FlattenAppend
    <3>6. FlattenSeq(sp) \in Seq(RawWords)
      BY <3>1, FlattenType
    <3>7. WithoutBreaks(FlattenSeq(sp) \o ss[k]) =
            WithoutBreaks(FlattenSeq(sp)) \o WithoutBreaks(ss[k])
      BY <3>4, <3>6, BreaksConcat
    <3>8. k \in Nat
      BY <1>1
    <3> HIDE DEF F, G
    <3> QED
      BY <1>7, <3>3, <3>5, <3>7, <3>8
  <2> HIDE DEF Good
  <2>3. n \in Good
    <3>1. n \in 0..n
      BY <1>1
    <3> QED
      BY <1>1, <2>1, <2>2, <3>1, CountingUp
  <2>4. F(n) = FlattenSeq(ss) /\ G(n) = FlattenSeq(bs)
    BY <1>2, <1>4, PrefixGrows
  <2> HIDE DEF F, G
  <2> QED
    BY <2>3, <2>4 DEF Good
<1>9. C \in Seq(RawWords) /\ <<NewLine>> \o C = FlattenSeq(ss) \o b
  BY ContentFacts DEF ss
<1> HIDE DEF C, b
<1>10. FlattenSeq(ss) \in Seq(RawWords) /\ FlattenSeq(bs) \in Seq(RawWords)
  BY <1>2, <1>4, FlattenType
<1>11. b \in Seq(RawWords) /\ WithoutBreaks(b) = << >>
  BY <1>5, <1>6 DEF b
<1>12. WithoutBreaks(<<NewLine>> \o C) = WithoutBreaks(<<NewLine>>) \o WithoutBreaks(C)
  BY <1>5, <1>9, BreaksConcat
<1>13. WithoutBreaks(FlattenSeq(ss) \o b) = FlattenSeq(bs) \o << >>
  <2> DEFINE x == FlattenSeq(ss)
  <2>1. x \in Seq(RawWords)
    BY <1>10
  <2> HIDE DEF x
  <2>2. WithoutBreaks(x \o b) = WithoutBreaks(x) \o WithoutBreaks(b)
    BY <1>11, <2>1, BreaksConcat
  <2> QED
    BY <1>8, <1>11, <2>2 DEF x
<1>14. WithoutBreaks(C) \in Seq(RawWords)
  BY <1>9, BreaksType
<1>15. << >> \o WithoutBreaks(C) = WithoutBreaks(C)
  BY <1>14
<1>16. FlattenSeq(bs) \o << >> = FlattenSeq(bs)
  BY <1>10
<1> QED
  BY <1>6, <1>9, <1>12, <1>13, <1>15, <1>16 DEF C, bs, n

\* The last stage so far is the one that the classifier finds.
LEMMA LastStageSoFar ==
    ASSUME TextOK, SoFar.ok, SoFar.stages # << >>, Aligned(Before(lines, cursor))
    PROVE  LET m == IF cursor.behind THEN cursor.line ELSE cursor.line - 1
               h == Max(HeadersBefore(lines, cursor))
               conns == ConnMap(Registry)
           IN  /\ HeadersBefore(lines, cursor) # {}
               /\ lines[h].label \in DOMAIN conns
               /\ Last(SoFar.stages).conn = conns[lines[h].label]
               /\ Sent = FlattenSeq(Segment(lines, h, m))
               /\ \A i \in 1..m : ~(Header(lines[i]) /\ lines[i].indented)
<1> DEFINE m == IF cursor.behind THEN cursor.line ELSE cursor.line - 1
           heads == HeadersBefore(lines, cursor)
           h == Max(heads)
           conns == ConnMap(Registry)
           text == Before(lines, cursor)
           stages == SoFar.stages
<1>1. lines \in Seq(Line) /\ Len(lines) \in Nat
  BY LinesType
<1>2. /\ m \in 0..Len(lines) /\ text = SubSeq(lines, 1, m)
      /\ heads = {n \in 1..m : BufferHeader(lines[n])}
      /\ heads # {} => /\ h \in 1..m /\ BufferHeader(lines[h])
                       /\ \A n \in (h + 1)..m : ~BufferHeader(lines[n])
  BY HeadersBeforeFacts
<1> HIDE DEF m, text, heads, h
<1>3. text \in Seq(Line) /\ Len(text) = m /\ \A i \in 1..m : text[i] = lines[i]
  BY <1>1, <1>2
<1>4. Segmented(text, conns, m, SoFar)
  BY <1>3, RegistryType, RunSegmented DEF SoFar, text
<1>5. \A i \in 1..m : ~(Header(lines[i]) /\ lines[i].indented)
  BY <1>3 DEF Aligned, text
<1>6. Takes(text, conns, m) /\ Len(stages) = Rank(text, m) /\ InSegments(text, conns, m, stages)
  BY <1>4 DEF Segmented
<1> HIDE DEF conns
<1>7. HeadersTo(text, m) = heads
  BY <1>2, <1>3, <1>5 DEF HeadersTo, BufferHeader
<1>8. heads # {}
  <2>1. SUFFICES ASSUME heads = {}
                 PROVE  FALSE
    OBVIOUS
  <2>2. Len(stages) = 0
    BY <1>6, <1>7, <2>1, FS_EmptySet DEF Rank
  <2>3. SoFar \in ParseResult
    BY <1>3, RegistryType, ParseQueriesType DEF SoFar, text
  <2>4. stages \in Seq(Stage)
    BY <2>3 DEF ParseResult
  <2> QED
    BY <2>2, <2>4, EmptySeq
<1>9. /\ h \in heads /\ h \in Nat /\ m \in Nat /\ h \in 1..m /\ h <= m
      /\ Header(text[h]) /\ text[h] = lines[h]
  BY <1>1, <1>2, <1>3, <1>8 DEF BufferHeader
<1>10. Alone(text, h, m)
  BY <1>2, <1>3, <1>5, <1>8, <1>9 DEF Alone, BufferHeader
<1>11. Rank(text, m) = Rank(text, h)
  BY <1>9, <1>10, AloneRank
<1>12. Last(stages) = [conn |-> conns[text[h].label], line |-> FlattenSeq(Segment(text, h, m))]
  <2>1. m \in h..m
    BY <1>9
  <2>2. stages[Rank(text, h)] =
            [conn |-> conns[text[h].label], line |-> FlattenSeq(Segment(text, h, m))]
    BY <1>6, <1>7, <1>9, <1>10, <2>1 DEF InSegments
  <2> QED
    BY <1>6, <1>11, <2>2 DEF Last
<1>13. Segment(text, h, m) = Segment(lines, h, m)
  <2>1. \A n \in 1..(m - h + 1) : h + n - 1 \in 1..m
    BY <1>9
  <2> QED
    BY <1>3, <2>1 DEF Segment
<1>14. lines[h].label \in DOMAIN conns
  BY <1>6, <1>9 DEF Takes, ParseQuery
<1>15. Sent = Last(stages).line
  BY DEF Sent
<1> QED
  BY <1>5, <1>8, <1>9, <1>12, <1>13, <1>14, <1>15 DEF m, heads, h, conns

\* In an SQL stage of no comments and placeholders.
LEMMA PlainSqlFacts ==
    ASSUME TextOK, InPlainSql
    PROVE  LET words == StageContent(lines, cursor)
               uri == Last(SoFar.stages).conn
           IN  /\ words \in Seq(RawWords)
               /\ WithoutBreaks(words) = Sent /\ Sent \in Seq(RawWords)
               /\ SchemeOf[uri] \in SqlTypes /\ uri \in DOMAIN Servers
               /\ Class.context = ClassifySql(words, Class.prefix)
               /\ Class.aliases = ExtractSqlAliases(words)
               /\ Class.label \in DOMAIN Registry /\ Registry[Class.label] = uri
<1> DEFINE m == IF cursor.behind THEN cursor.line ELSE cursor.line - 1
           h == Max(HeadersBefore(lines, cursor))
           conns == ConnMap(Registry)
           text == SubSeq(lines, h, m)
           words == StageContent(lines, cursor)
           uri == Last(SoFar.stages).conn
           label == lines[h].label
           type == TypeOfLabel(label, conns)
<1>1. /\ HeadersBefore(lines, cursor) # {} /\ label \in DOMAIN conns
      /\ uri = conns[label] /\ Sent = FlattenSeq(Segment(lines, h, m))
      /\ \A i \in 1..m : ~(Header(lines[i]) /\ lines[i].indented)
  BY LastStageSoFar DEF InPlainSql
<1>2. /\ h \in 1..m /\ m \in 1..Len(lines)
      /\ text \in Seq(Line) /\ text # << >> /\ Len(text) = m - h + 1
      /\ \A i \in 1..(m - h + 1) : text[i] = lines[h + i - 1]
      /\ words = Content(text, cursor) /\ words \in Seq(RawWords)
  BY <1>1, StageContentFacts
<1>3. SchemeOf[uri] \in SqlTypes
  BY DEF InPlainSql, TypeOf
<1>4. \A i \in h..m : lines[i].kind # "comment"
  <2> DEFINE before == Before(lines, cursor)
  <2>1. lines \in Seq(Line) /\ before = SubSeq(lines, 1, m) /\ m \in 0..Len(lines)
    BY LinesType, HeadersBeforeFacts
  <2> HIDE DEF before, m
  <2>2. Len(before) = m /\ \A i \in 1..m : before[i] = lines[i]
    BY <2>1
  <2>3. \A i \in h..Len(before) : before[i].kind # "comment"
    BY DEF InPlainSql, before
  <2> HIDE DEF h
  <2> QED
    BY <1>2, <2>2, <2>3
<1>5. /\ Class.context = ContextIn(type, words, Class.prefix)
      /\ Class.label = label
      /\ Class.aliases = IF type \in SqlTypes /\ ~InJqPlaceholder(words)
                         THEN ExtractSqlAliases(words) ELSE << >>
  BY <1>1, ClassInStage DEF InPlainSql
<1>6. type = SchemeOf[uri]
  BY <1>1 DEF TypeOfLabel
<1> HIDE DEF m, h, text, words, uri, label, type
<1>7. h \in Nat /\ m \in Nat /\ \A i \in 1..(m - h + 1) : h + i - 1 \in h..m /\ h + i - 1 \in 1..m
  BY <1>2, LinesType
<1>8. WithoutBreaks(words) = Sent
  <2>1. \A i \in 1..Len(text) : /\ text[i].kind # "comment"
                                /\ ~(Header(text[i]) /\ text[i].indented)
    BY <1>1, <1>2, <1>4, <1>7
  <2>2. WithoutBreaks(Content(text, cursor)) =
            FlattenSeq([i \in 1..Len(text) |-> Body(text[i])])
    BY <1>2, <2>1, BreaksOfContent
  <2>3. [i \in 1..Len(text) |-> Body(text[i])] = Segment(lines, h, m)
    BY <1>2 DEF Segment
  <2> QED
    BY <1>1, <1>2, <2>2, <2>3
<1>9. Sent \in Seq(RawWords) /\ ToSet(Sent) = ToSet(words) \ {NewLine}
  BY <1>2, <1>8, BreaksType
<1>10. ~InJqPlaceholder(words)
  <2> SUFFICES ASSUME InJqPlaceholder(words)
               PROVE  FALSE
    OBVIOUS
  <2> DEFINE n == LastOf({OpenBraces, Hole}, words)
  <2>1. n > 0 /\ words[n] = OpenBraces
    BY DEF InJqPlaceholder, LastOf
  <2>2. n \in 0..Len(words)
    BY <1>2, LastOfFacts
  <2> HIDE DEF n
  <2>3. OpenBraces \in ToSet(words)
    BY <1>2, <2>1, <2>2 DEF ToSet
  <2>4. OpenBraces # NewLine
    BY DEF OpenBraces, NewLine
  <2>5. ToSet(Sent) \cap {Hole, OpenBraces} = {}
    BY DEF InPlainSql
  <2> QED
    BY <1>9, <2>3, <2>4, <2>5
<1>11. type # "jq"
  BY <1>3, <1>6 DEF SqlTypes
<1>12. Class.context = ClassifySql(words, Class.prefix) /\ Class.aliases = ExtractSqlAliases(words)
  BY <1>3, <1>5, <1>6, <1>10, <1>11 DEF ContextIn, SqlTypes
<1>13. label \in DOMAIN Registry /\ Registry[label] = uri /\ uri \in Uris
  BY <1>1, <1>6, <1>11, UriAssumption, RegistryAssumption DEF ConnMap
<1> QED
  BY <1>2, <1>3, <1>5, <1>8, <1>9, <1>12, <1>13, ServerAssumption DEF words, uri

-----------------------------------------------------------------------------
(* The columns behind an alias. *)

\* The columns of a name are those of one of the tables of that name.
LEMMA ColumnsOfTable ==
    ASSUME NEW type \in SqlTypes, NEW server, server.up,
           server.rows \in Seq(ToSet(server.rows)), NEW name
    PROVE  LET table == {r \in ToSet(server.rows) : r.table = name}
               columns(d) == {r.column : r \in {s \in table : s.database = d}}
           IN  ColumnsOf(IntrospectSchema(type, server), name) \in
                    IF table = {} THEN {{}} ELSE {columns(r.database) : r \in table}
<1> DEFINE rows == server.rows
           R == ToSet(rows)
           T == {TableOf(rows, r) : r \in R}
           schema == IntrospectSchema(type, server)
           table == {r \in R : r.table = name}
           columns(d) == {r.column : r \in {s \in table : s.database = d}}
           C == ColumnsOf(schema, name)
<1>1. /\ Tables(schema) \in Seq(T)
      /\ \A r \in R : \E t \in ToSet(Tables(schema)) : t.name = r.table
  BY SqlServerSchema
<1>2. \A r \in R : TableOf(rows, r).name = r.table
  BY TableOfColumns
<1>3. \A r \in table : TableOf(rows, r).columns = columns(r.database)
  BY TableOfColumns
<1> HIDE DEF schema
<1>4. IF \E t \in ToSet(Tables(schema)) : t.name = name
      THEN \E t \in ToSet(Tables(schema)) : t.name = name /\ C = t.columns
      ELSE C = {}
  BY <1>1, ColumnsOfFirst
<1>5. ToSet(Tables(schema)) \subseteq T
  BY <1>1, ToSetType
<1> HIDE DEF R, C, columns
<1>6. ASSUME table = {}
      PROVE  C = {}
  BY <1>2, <1>4, <1>5, <1>6
<1>7. ASSUME table # {}
      PROVE  \E r \in table : C = columns(r.database)
  <2>1. \E t \in ToSet(Tables(schema)) : t.name = name
    BY <1>1, <1>7
  <2>2. PICK t \in ToSet(Tables(schema)) : t.name = name /\ C = t.columns
    BY <1>4, <2>1
  <2>3. PICK r \in R : t = TableOf(rows, r)
    BY <1>5, <2>2
  <2>4. r \in table
    BY <1>2, <2>2, <2>3
  <2> QED
    BY <1>3, <2>2, <2>3, <2>4
<1> HIDE DEF table
<1>8. C \in IF table = {} THEN {{}} ELSE {columns(r.database) : r \in table}
  BY <1>6, <1>7
<1> QED
  BY <1>8 DEF C, schema, table, columns, R

LEMMA ColumnsOffered ==
    ASSUME TextOK, InPlainSql, Servers[Last(SoFar.stages).conn].up,
           Len(Class.prefix) = 2, Qualifier(Class.prefix)[1] \in DOMAIN Class.aliases,
           NEW nothing, ToComplete(Class.prefix) = nothing,
           \A kind, names : {o.text : o \in Suggest(kind, names, nothing)} = names
    PROVE  LET q     == Qualifier(Class.prefix)
               rows  == ToSet(Servers[Last(SoFar.stages).conn].rows)
               table == {r \in rows : r.table = Class.aliases[q[1]]}
               columns(d) == {r.column : r \in {s \in table : s.database = d}}
           IN  {o.text : o \in Offers} \in
                IF table = {} THEN {{}}
                ELSE {columns(r.database) : r \in table}
<1> DEFINE q      == Qualifier(Class.prefix)
           uri    == Last(SoFar.stages).conn
           server == Servers[uri]
           type   == SchemeOf[uri]
           name   == Class.aliases[q[1]]
           schema == SchemaOf(Class.label, Registry)
           words  == StageContent(lines, cursor)
           table == {r \in ToSet(server.rows) : r.table = name}
           columns(d) == {r.column : r \in {s \in table : s.database = d}}
<1>1. /\ type \in SqlTypes /\ uri \in DOMAIN Servers
      /\ Class.context = ClassifySql(words, Class.prefix)
      /\ Class.aliases = ExtractSqlAliases(words)
      /\ Class.label \in DOMAIN Registry /\ Registry[Class.label] = uri
  BY PlainSqlFacts
<1>2. /\ server.up /\ q[1] \in DOMAIN Class.aliases
      /\ \A kind, names : {o.text : o \in Suggest(kind, names, nothing)} = names
      /\ ToComplete(Class.prefix) = nothing
  OBVIOUS
<1>3. server.rows \in Seq(ToSet(server.rows))
  BY <1>1, ServerAssumption
<1> HIDE DEF uri, server
<1>4. Len(q) = 1 /\ q[1] = Class.prefix[1] /\ Len(Class.prefix) = 2
  <2> DEFINE path == Class.prefix
             n == Len(path)
  <2>1. path \in Seq(STRING) /\ n > 0 /\ n = 2
    BY PrefixType
  <2> HIDE DEF path
  <2>2. Len(q) = n - 1 /\ \A i \in 1..(n - 1) : q[i] = path[i]
    <3>1. Len(Qualifier(path)) = n - 1 /\ \A i \in 1..(n - 1) : Qualifier(path)[i] = path[i]
      BY <2>1, QualifierFacts
    <3> QED
      BY <3>1 DEF path
  <2> HIDE DEF q, n
  <2>3. Len(q) = 1 /\ q[1] = path[1] /\ n = 2
    BY <2>1, <2>2
  <2> QED
    BY <2>3 DEF path, n
<1>5. schema = IntrospectSchema(type, server)
  BY <1>1 DEF SchemaOf, server
<1> HIDE DEF q, type, words, schema
<1>6. Class.context = "sql_column"
  BY <1>1, <1>2, <1>4 DEF ClassifySql
<1>7. SqlColumns(schema, Class.aliases, q) = ColumnsOf(schema, name)
  <2>1. q # << >>
    <3>1. Len(<< >>) = 0
      BY EmptySeq
    <3>2. Len(q) # 0
      BY <1>4
    <3> QED
      BY <3>1, <3>2, Zenon
  <2> QED
    BY <1>2, <1>4, <2>1 DEF SqlColumns
<1>8. Offers = Suggest("column", SqlColumns(schema, Class.aliases, q), nothing)
  BY <1>2, <1>6 DEF Offers, ComputeSuggestions, FromSchema, q, schema
<1>9. {o.text : o \in Offers} = ColumnsOf(schema, name)
  BY <1>2, <1>7, <1>8
<1>10. ColumnsOf(schema, name) \in
            IF table = {} THEN {{}} ELSE {columns(r.database) : r \in table}
  BY <1>1, <1>2, <1>3, <1>5, ColumnsOfTable
<1> QED
  BY <1>9, <1>10 DEF q, uri, server

LEMMA TextKeepsTablesApart ==
    ASSUME TextOK
    PROVE  ColumnsAreOfOneTable
BY SuggestsAll, ColumnsOffered, Zenon DEF ColumnsAreOfOneTable

-----------------------------------------------------------------------------
(* The paths of a placeholder. *)

\* A path is told by the keys of its places alone.
LEMMA PathKeys ==
    ASSUME NEW p, NEW q, DOMAIN p = DOMAIN q, \A i \in DOMAIN p : p[i].key = q[i].key
    PROVE  JqPath(p) = JqPath(q)
<1> DEFINE step(k) == IF k = "" THEN "[]" ELSE k
<1>1. /\ JqPath(p) = [i \in DOMAIN p |-> step(p[i].key)]
      /\ JqPath(q) = [i \in DOMAIN q |-> step(q[i].key)]
  BY Zenon DEF JqPath
<1> HIDE DEF step
<1> QED
  BY <1>1

\* Of an array there is a first element, whose path is that of any other.
LEMMA FirstElement ==
    ASSUME NEW u \in Uris, NEW p \in Payloads[u], Len(p) \in {1, 2}, p[1].index = 0
    PROVE  JqPath(p) \in ExtractJqPaths(Payloads[u])
<1> DEFINE Place == [key : STRING, index : Nat]
           n == Len(p)
           q == [p EXCEPT ![n].index = 0]
<1>1. p \in Seq(Place) /\ n \in Nat /\ n \in {1, 2}
  BY PayloadAssumption
<1>2. DOMAIN p = 1..n
  BY <1>1
<1>3. p # << >> /\ q \in Payloads[u]
  <2>1. p # << >>
    BY <1>1, EmptySeq
  <2>2. Last(p) = p[n] /\ p[n] \in Place
    <3>1. n \in 1..n
      BY <1>1
    <3>2. p[n] \in Place
      <4> HIDE DEF Place
      <4> QED
        BY <1>1, <3>1, ElementOfSeq
    <3> QED
      BY <3>2 DEF Last
  <2>3. 0 \in 0..Last(p).index
    BY <2>2
  <2> QED
    BY <2>1, <2>3, PayloadAssumption
<1>4. \A i \in 1..n : p[i] \in Place
  BY <1>1, ElementOfSeq
<1>5. /\ DOMAIN q = 1..n
      /\ \A i \in 1..n : q[i].key = p[i].key /\ q[i].index = 0
  <2>1. DOMAIN q = 1..n /\ \A i \in 1..n : q[i] = IF i = n THEN [p[n] EXCEPT !.index = 0] ELSE p[i]
    BY <1>2
  <2> HIDE DEF q
  <2>2. n \in 1..n /\ [p[n] EXCEPT !.index = 0] = [key |-> p[n].key, index |-> 0]
    BY <1>1, <1>4
  <2>3. \A i \in 1..n : i # n => i = 1
    <3> HIDE DEF n
    <3> QED
      BY <1>1
  <2> QED
    BY <2>1, <2>2, <2>3
<1> HIDE DEF q
<1>6. JqPath(q) = JqPath(p)
  BY <1>2, <1>5, PathKeys
<1>7. q # << >>
  <2>1. 1 \in DOMAIN q
    BY <1>1, <1>5
  <2> QED
    BY <2>1
<1>8. \A i \in DOMAIN q : q[i].index < ArraySample
  BY <1>5, ArrayAssumption
<1>9. JqPath(q) \in ExtractJqPaths(Payloads[u])
  BY <1>3, <1>7, <1>8 DEF ExtractJqPaths
<1> QED
  BY <1>6, <1>9

\* The last word that is read is the last of the last line.
LEMMA LastOfContent ==
    ASSUME NEW text \in Seq(Line), text # << >>, NEW c, c.behind,
           NEW w, w = WordsOf(text[Len(text)]), w # << >>
    PROVE  LET C == Content(text, c)
           IN  C \in Seq(RawWords) /\ Len(C) \in Nat /\ Len(C) > 0 /\ C[Len(C)] = w[Len(w)]
<1> DEFINE n  == Len(text)
           ss == Spread(text)
           pre == SubSeq(ss, 1, n - 1)
           F  == FlattenSeq(pre)
           C  == Content(text, c)
<1>1. n \in Nat /\ n # 0 /\ n \in 1..n
  BY EmptySeq
<1>2. /\ ss \in Seq(Seq(RawWords)) /\ Len(ss) = n
      /\ \A i \in 1..n : ss[i] = <<NewLine>> \o WordsOf(text[i])
  BY SpreadFacts
<1>3. text[n] \in Line
  BY <1>1, ElementOfSeq
<1>4. w \in Seq(RawWords) /\ Len(w) \in Nat /\ Len(w) > 0
  <2>1. w \in Seq(RawWords)
    BY <1>3, WordsOfType
  <2> QED
    BY <2>1, EmptySeq
<1>5. C \in Seq(RawWords) /\ <<NewLine>> \o C = FlattenSeq(ss) \o << >>
  BY ContentFacts
<1> HIDE DEF n, ss, C
<1>6. /\ pre \in Seq(Seq(RawWords)) /\ ss = Append(pre, ss[n])
  BY <1>1, <1>2, PrefixGrows
<1>7. NewLine \in RawWords
  BY DEF RawWords
<1>8. ss[n] = <<NewLine>> \o w /\ ss[n] \in Seq(RawWords)
  BY <1>1, <1>2, <1>4, <1>7 DEF n
<1> HIDE DEF pre
<1>9. FlattenSeq(ss) = F \o (<<NewLine>> \o w) /\ F \in Seq(RawWords)
  <2> DEFINE v == ss[n]
  <2>1. v \in Seq(RawWords) /\ v = <<NewLine>> \o w /\ ss = Append(pre, v)
    BY <1>6, <1>8
  <2> HIDE DEF v
  <2>2. FlattenSeq(Append(pre, v)) = F \o v
    BY <1>6, <2>1, FlattenAppend
  <2>3. F \in Seq(RawWords)
    BY <1>6, FlattenType
  <2> QED
    BY <2>1, <2>2, <2>3
<1> HIDE DEF F
<1> DEFINE f == Len(F)
           k == Len(w)
           W == F \o (<<NewLine>> \o w)
<1>10. W \in Seq(RawWords) /\ Len(W) = f + 1 + k /\ f \in Nat /\ W[f + 1 + k] = w[k]
  <2>1. <<NewLine>> \o w \in Seq(RawWords) /\ Len(<<NewLine>> \o w) = 1 + k
        /\ (<<NewLine>> \o w)[1 + k] = w[k]
    BY <1>4, <1>7
  <2> QED
    BY <1>4, <1>9, <2>1
<1>11. <<NewLine>> \o C = W
  <2>1. W \o << >> = W
    BY <1>10
  <2> QED
    BY <1>5, <1>9, <2>1
<1> HIDE DEF W
<1>12. Len(C) \in Nat /\ Len(<<NewLine>> \o C) = 1 + Len(C)
  BY <1>5, <1>7
<1>13. Len(C) = f + k
  BY <1>4, <1>10, <1>11, <1>12
<1>14. f + k \in 1..Len(C) /\ (<<NewLine>> \o C)[1 + (f + k)] = C[f + k]
  <2>1. f + k \in 1..Len(C)
    BY <1>4, <1>10, <1>12, <1>13
  <2> QED
    BY <1>5, <1>7, <2>1
<1>15. C[f + k] = w[k]
  BY <1>4, <1>10, <1>11, <1>14
<1> QED
  BY <1>4, <1>5, <1>10, <1>12, <1>13, <1>15 DEF C

\* Nothing stands behind the last open placeholder, if it is the last word
\* that is read or if there is none.
LEMMA NothingTyped ==
    ASSUME TextOK, Aligned(lines), HeadersBefore(lines, cursor) # {},
           LET typed == lines[cursor.line].text
           IN  \/ ~Opened
               \/ cursor.behind /\ typed # << >> /\ Last(typed) = OpenBraces
    PROVE  NothingTypedInPlaceholder(Content(Before(lines, cursor), cursor))
<1> DEFINE m == IF cursor.behind THEN cursor.line ELSE cursor.line - 1
           text == Before(lines, cursor)
           C == Content(text, cursor)
           n == LastOf({OpenBraces, Hole}, C)
           typed == lines[cursor.line].text
<1>1. lines \in Seq(Line) /\ Len(lines) \in Nat /\ cursor.line \in 1..Len(lines)
  BY LinesType DEF TextOK, Cursor
<1>2. /\ m \in 0..Len(lines) /\ text = SubSeq(lines, 1, m)
      /\ HeadersBefore(lines, cursor) = {i \in 1..m : BufferHeader(lines[i])}
  BY HeadersBeforeFacts
<1>3. cursor.behind => m = cursor.line
  OBVIOUS
<1>4. (n = 0 \/ C[n] = Hole \/ n = Len(C)) => NothingTypedInPlaceholder(C)
  BY DEF NothingTypedInPlaceholder, LastOf
<1>5. ~Opened \/ (cursor.behind /\ typed # << >> /\ Last(typed) = OpenBraces)
  OBVIOUS
<1> HIDE DEF m, text, n
<1>6. m \in 1..m /\ m \in Nat
  BY <1>1, <1>2
<1>7. text \in Seq(Line) /\ Len(text) = m /\ \A i \in 1..m : text[i] = lines[i]
  BY <1>1, <1>2
<1>8. text # << >>
  BY <1>6, <1>7, EmptySeq
<1>9. /\ C \in Seq(RawWords)
      /\ ToSet(C) \subseteq {NewLine} \cup UNION {ToSet(WordsOf(text[i])) : i \in DOMAIN text}
  BY <1>7, <1>8, ContentFacts
<1> HIDE DEF C
<1>10. /\ n \in 0..Len(C)
       /\ n # 0 => C[n] \in {OpenBraces, Hole}
       /\ \A i \in 1..Len(C) : i > n => C[i] \notin {OpenBraces, Hole}
  BY <1>9, LastOfFacts DEF n
<1>11. ASSUME ~Opened
       PROVE  n = 0 \/ C[n] = Hole
  <2> SUFFICES ASSUME n # 0, C[n] = OpenBraces
               PROVE  FALSE
    BY <1>10
  <2>1. OpenBraces \in ToSet(C)
    BY <1>9, <1>10 DEF ToSet
  <2>2. OpenBraces # NewLine /\ OpenBraces # Slashes
    BY DEF OpenBraces, NewLine, Slashes
  <2>3. PICK i \in DOMAIN text : OpenBraces \in ToSet(WordsOf(text[i]))
    BY <1>9, <2>1, <2>2
  <2>4. i \in DOMAIN lines /\ text[i] = lines[i] /\ lines[i] \in Line
    BY <1>1, <1>2, <1>7, ElementOfSeq
  <2>5. ~(Header(lines[i]) /\ lines[i].indented)
    BY <2>4 DEF Aligned
  <2>6. OpenBraces \in ToSet(lines[i].text)
    BY <2>2, <2>3, <2>4, <2>5, WordsOfType
  <2> QED
    BY <1>11, <2>4, <2>6 DEF Opened
<1>12. ASSUME cursor.behind, typed # << >>, Last(typed) = OpenBraces
       PROVE  n = Len(C)
  <2> DEFINE l == lines[cursor.line]
             w == WordsOf(l)
  <2>1. l \in Line /\ l = text[Len(text)] /\ ~(Header(l) /\ l.indented)
    BY <1>1, <1>3, <1>6, <1>7, <1>12, ElementOfSeq DEF Aligned
  <2>2. typed \in Seq(Words \cup {Hole})
    BY <2>1 DEF Line, Text
  <2> DEFINE k == Len(typed)
  <2>3. k \in Nat /\ k \in 1..k /\ typed[k] = OpenBraces
    BY <1>12, <2>2, EmptySeq DEF Last
  <2>4. w = typed \/ w = <<Slashes>> \o typed
    BY <2>1 DEF WordsOf
  <2> HIDE DEF typed, w, l
  <2>5. w # << >> /\ w[Len(w)] = OpenBraces
    <3>1. CASE w = typed
      BY <1>12, <2>3, <3>1
    <3>2. CASE w = <<Slashes>> \o typed
      <4> DEFINE u == <<Slashes>> \o typed
      <4>1. Len(u) = 1 + k /\ u[1 + k] = typed[k]
        BY <2>2, <2>3
      <4> HIDE DEF u
      <4>2. u # << >>
        BY <2>3, <4>1, EmptySeq
      <4> QED
        BY <2>3, <3>2, <4>1, <4>2 DEF u
    <3> QED
      BY <2>4, <3>1, <3>2
  <2>6. w = WordsOf(text[Len(text)])
    BY <2>1 DEF w
  <2>7. Len(C) \in Nat /\ Len(C) > 0 /\ C[Len(C)] = OpenBraces
    BY <1>7, <1>8, <1>12, <2>5, <2>6, LastOfContent DEF C
  <2>8. Len(C) \in 1..Len(C)
    BY <2>7
  <2> QED
    BY <1>10, <2>7, <2>8
<1> QED
  BY <1>4, <1>5, <1>11, <1>12 DEF C, text

LEMMA TextLeadsSomewhere ==
    ASSUME TextOK
    PROVE  PathsAreOfTheStageBefore
<1> DEFINE typed  == lines[cursor.line].text
           fresh  == \/ ~Opened
                     \/ cursor.behind /\ typed # << >> /\ Last(typed) = OpenBraces
           uri    == Run.stages[StageIndex - 1].conn
           result == Payloads[uri]
           top(p) == \/ Len(p) = 1 /\ p[1].index = 0
                     \/ Len(p) = 2 /\ p[1].key = "" /\ p[1].index = 0
           Goal == IF StageIndex = 1 THEN PathOffers = {}
                   ELSE /\ PathOffers \subseteq {JqPath(p) : p \in result}
                        /\ \A p \in result : top(p) => JqPath(p) \in PathOffers
<1>1. (Regular /\ ~OnBrink /\ fresh /\ Class.context = "jq_placeholder" => Goal)
        => PathsAreOfTheStageBefore
  BY Zenon DEF PathsAreOfTheStageBefore
<1>2. \A p : top(p) => Len(p) \in {1, 2} /\ p[1].index = 0
  BY Zenon
<1> HIDE DEF top
<1>3. ASSUME Regular, ~OnBrink, fresh, Class.context = "jq_placeholder"
      PROVE  Goal
  <2>1. ~OpensHeader(lines, cursor) /\ HeadersBefore(lines, cursor) # {}
    <3> DEFINE start == "stage_start"
    <3>1. start # "jq_placeholder"
      OBVIOUS
    <3>2. NoClass.context = start
      BY Zenon DEF NoClass
    <3>3. OpensHeader(lines, cursor) => Class = NoClass
      BY DEF Class, ClassifyContext
    <3>4. HeadersBefore(lines, cursor) = {} /\ ~OpensHeader(lines, cursor)
            => Class = [NoClass EXCEPT !.prefix = WordPrefixAt(lines, cursor)]
      BY DEF Class, ClassifyContext
    <3>5. \A x : [NoClass EXCEPT !.prefix = x].context = start
      BY DEF NoClass
    <3> HIDE DEF start
    <3> QED
      BY <1>3, <3>1, <3>2, <3>3, <3>4, <3>5
  <2>2. StageIndex \in Nat /\ StageIndex > 0
    BY <2>1, HeadersBeforeFacts
  <2>3. /\ Len(Prior) = StageIndex - 1
        /\ Prior = SubSeq(Run.stages, 1, Len(Prior))
        /\ Prior \in Seq(Stage)
    <3>1. ProbeStopsBeforeCursor /\ ProbesWhatARunWouldRun /\ TypeOK
      BY TextStopsProbe, TextProbesPrefix, TextGivesType
    <3> QED
      BY <1>3, <2>2, <3>1 DEF ProbeStopsBeforeCursor, ProbesWhatARunWouldRun, TypeOK
  <2>4. NothingTypedInPlaceholder(Content(Before(lines, cursor), cursor))
    BY <1>3, <2>1, NothingTyped DEF Regular
  <2>5. PathOffers = ExtractJqPaths(ProbedPlaces(Prior))
    BY <1>3, <2>4 DEF PathOffers, JqPathsFor, Prior
  <2>6. CASE StageIndex = 1
    <3>1. Prior = << >>
      BY <2>3, <2>6, EmptySeq
    <3>2. PathOffers = {}
      BY <2>5, <3>1 DEF ProbedPlaces, ExtractJqPaths
    <3> QED
      BY <2>6, <3>2
  <2>7. CASE StageIndex # 1
    <3> DEFINE k == StageIndex - 1
    <3>1. k \in Nat /\ k \in 1..k /\ Len(Prior) = k
      BY <2>2, <2>3, <2>7
    <3> HIDE DEF k
    <3>2. Prior # << >>
      BY <3>1, EmptySeq
    <3>3. Last(Prior) = Run.stages[k] /\ Prior[k] \in Stage
      <4>1. Run.stages \in Seq(Stage) /\ k <= Len(Run.stages)
        <5>1. ProbesWhatARunWouldRun /\ TypeOK
          BY TextProbesPrefix, TextGivesType
        <5> QED
          BY <1>3, <3>1, <5>1 DEF ProbesWhatARunWouldRun, TypeOK
      <4>2. SubSeq(Run.stages, 1, k)[k] = Run.stages[k]
        BY <3>1, <4>1
      <4> QED
        BY <2>3, <3>1, <4>2 DEF Last
    <3>4. uri = Last(Prior).conn
      BY <3>3 DEF k
    <3>5. Last(Prior) \in Stage
      BY <3>1, <3>3 DEF Last
    <3>6. uri \in Uris
      BY <3>4, <3>5 DEF Stage
    <3> HIDE DEF uri
    <3>7. ProbedPlaces(Prior) = result
      BY <3>2, <3>4 DEF ProbedPlaces
    <3>8. PathOffers \subseteq {JqPath(p) : p \in result}
      BY <2>5, <3>7 DEF ExtractJqPaths
    <3>9. \A p \in result : top(p) => JqPath(p) \in PathOffers
      BY <1>2, <2>5, <3>6, <3>7, FirstElement
    <3> QED
      BY <2>7, <3>8, <3>9
  <2> QED
    BY <2>6, <2>7
<1> HIDE DEF Goal
<1> QED
  BY <1>1, <1>3

-----------------------------------------------------------------------------
(* The context of an SQL stage. *)

\* What stands behind a word still does so when ends of lines are left out.
LEMMA BreakPlace ==
    ASSUME NEW S, NEW C \in Seq(S), NEW n \in 1..Len(WithoutBreaks(C))
    PROVE  LET D == WithoutBreaks(C)
           IN  \E p \in 1..Len(C) :
                /\ C[p] = D[n]
                /\ \A i \in (p + 1)..Len(C) :
                    C[i] = NewLine \/ \E j \in (n + 1)..Len(D) : C[i] = D[j]
<1> DEFINE P(k) == SubSeq(C, 1, k)
           D(k) == WithoutBreaks(P(k))
           Kept(k, a) ==
             \E p \in 1..k :
                /\ C[p] = D(k)[a]
                /\ \A i \in (p + 1)..k :
                    C[i] = NewLine \/ \E j \in (a + 1)..Len(D(k)) : C[i] = D(k)[j]
           Good == {k \in Nat : \A a \in 1..Len(D(k)) : Kept(k, a)}
<1>1. Len(C) \in Nat
  OBVIOUS
<1>2. 0 \in Good
  <2>1. P(0) = << >>
    BY PrefixGrows
  <2>2. << >> \in Seq(S) /\ ToSet(<< >>) = {}
    BY DEF ToSet
  <2>3. WithoutBreaks(<< >>) = << >>
    BY <2>2, BreaksNone
  <2>4. Len(D(0)) = 0
    BY <2>1, <2>3, EmptySeq
  <2> HIDE DEF D, Kept
  <2> QED
    BY <2>4
<1>3. ASSUME NEW k \in 1..Len(C), k - 1 \in Good
      PROVE  k \in Good
  <2> DEFINE w == C[k]
             old == D(k - 1)
             new == D(k)
             l == k - 1
  <2>1. k \in Nat /\ l \in Nat /\ k = l + 1 /\ w \in S
    BY <1>1, ElementOfSeq
  <2>2. P(l) \in Seq(S) /\ P(k) = Append(P(l), w)
    BY PrefixGrows
  <2>3. new = old \o IF w = NewLine THEN << >> ELSE <<w>>
    BY <2>1, <2>2, BreaksAppend
  <2>4. old \in Seq(S)
    BY <2>2, BreaksType
  <2>5. \A a \in 1..Len(old) : \E p \in 1..l :
            /\ C[p] = old[a]
            /\ \A i \in (p + 1)..l :
                C[i] = NewLine \/ \E j \in (a + 1)..Len(old) : C[i] = old[j]
    BY <1>3
  <2> DEFINE m == Len(old)
  <2>6. m \in Nat
    BY <2>4
  <2> HIDE DEF P, D, old, new, l, w
  <2>7. CASE w = NewLine
    <3>1. new = old
      BY <2>3, <2>4, <2>7
    <3> SUFFICES ASSUME NEW a \in 1..m
                 PROVE  \E p \in 1..k :
                          /\ C[p] = new[a]
                          /\ \A i \in (p + 1)..k : C[i] = NewLine \/
                                \E j \in (a + 1)..Len(new) : C[i] = new[j]
      BY <2>1, <3>1 DEF new
    <3>2. PICK p \in 1..l :
            /\ C[p] = old[a]
            /\ \A i \in (p + 1)..l :
                C[i] = NewLine \/ \E j \in (a + 1)..Len(old) : C[i] = old[j]
      BY <2>5
    <3>3. p \in 1..k
      BY <2>1
    <3>4. \A i \in (p + 1)..k : i \in (p + 1)..l \/ i = k
      BY <2>1
    <3>5. C[k] = NewLine
      BY <2>7 DEF w
    <3> QED
      BY <3>1, <3>2, <3>3, <3>4, <3>5
  <2>8. CASE w # NewLine
    <3>1. /\ new = old \o <<w>> /\ Len(new) = m + 1 /\ new[m + 1] = w
          /\ \A a \in 1..m : new[a] = old[a]
      <4>1. new = old \o <<w>>
        BY <2>3, <2>8
      <4>2. Len(old \o <<w>>) = m + 1 /\ (old \o <<w>>)[m + 1] = w
        BY <2>1, <2>4
      <4>3. \A a \in 1..m : (old \o <<w>>)[a] = old[a]
        BY <2>1, <2>4
      <4> QED
        BY <4>1, <4>2, <4>3
    <3> HIDE DEF m
    <3> SUFFICES ASSUME NEW a \in 1..Len(new)
                 PROVE  \E p \in 1..k :
                          /\ C[p] = new[a]
                          /\ \A i \in (p + 1)..k : C[i] = NewLine \/
                                \E j \in (a + 1)..Len(new) : C[i] = new[j]
      BY <2>1 DEF new
    <3>2. C[k] = w /\ k \in 1..k
      BY <2>1 DEF w
    <3>3. CASE a = m + 1
      <4>1. C[k] = new[a] /\ \A i \in (k + 1)..k : FALSE
        BY <2>1, <3>1, <3>2, <3>3
      <4> QED
        BY <3>2, <4>1
    <3>4. CASE a # m + 1
      <4>1. a \in 1..m
        BY <2>6, <3>1, <3>4
      <4>2. PICK p \in 1..l :
              /\ C[p] = old[a]
              /\ \A i \in (p + 1)..l :
                  C[i] = NewLine \/ \E j \in (a + 1)..m : C[i] = old[j]
        BY <2>5, <4>1 DEF m
      <4>3. p \in 1..k /\ C[p] = new[a]
        BY <2>1, <3>1, <4>1, <4>2
      <4>4. ASSUME NEW i \in (p + 1)..k
            PROVE  C[i] = NewLine \/ \E j \in (a + 1)..Len(new) : C[i] = new[j]
        <5>1. CASE i = k
          <6>1. m + 1 \in (a + 1)..Len(new)
            BY <2>6, <3>1, <4>1
          <6> QED
            BY <3>1, <3>2, <5>1, <6>1
        <5>2. CASE i # k
          <6>1. i \in (p + 1)..l
            BY <2>1, <5>2
          <6>2. ASSUME NEW j \in (a + 1)..m
                PROVE  j \in (a + 1)..Len(new) /\ new[j] = old[j]
            <7>1. j \in 1..m
              BY <2>6, <4>1
            <7>2. j \in (a + 1)..(m + 1)
              BY <2>6, <4>1
            <7> QED
              BY <3>1, <7>1, <7>2
          <6> QED
            BY <4>2, <6>1, <6>2
        <5> QED
          BY <5>1, <5>2
      <4> QED
        BY <4>3, <4>4
    <3> QED
      BY <3>3, <3>4
  <2> QED
    BY <2>7, <2>8
<1> HIDE DEF Good
<1>4. Len(C) \in Good
  <2>1. Len(C) \in 0..Len(C)
    BY <1>1
  <2> DEFINE c == Len(C)
  <2>2. c \in Nat /\ c \in 0..c /\ \A k \in 1..c : k - 1 \in Good => k \in Good
    BY <1>1, <1>3, <2>1
  <2> HIDE DEF c
  <2>3. c \in Good
    BY <1>2, <2>2, CountingUp
  <2> QED
    BY <2>3 DEF c
<1>5. P(Len(C)) = C
  BY PrefixGrows
<1> HIDE DEF P
<1>6. D(Len(C)) = WithoutBreaks(C)
  BY <1>5
<1> HIDE DEF D
<1>7. Kept(Len(C), n)
  BY <1>4, <1>6 DEF Good
<1> QED
  BY <1>6, <1>7

\* A classification that is not by an alias is by the last keyword.
LEMMA ContextOfKeyword ==
    ASSUME NEW S, NEW words \in Seq(S), NEW prefix, Len(prefix) # 2
    PROVE  ClassifySql(words, prefix) = SqlContext(LastSignificantSqlKeyword(words))
<1> DEFINE nothing == ""
           k == LastSignificantSqlKeyword(words)
<1>1. ClassifySql(words, prefix) =
        CASE k = nothing -> "sql_keyword"
          [] k \in TableKeywords -> "sql_table"
          [] k \in ColumnKeywords -> "sql_column"
  BY Zenon DEF ClassifySql
<1>2. (k = nothing /\ k \notin SignificantKeywords) \/ k \in SignificantKeywords
  BY KeywordIsLast, Zenon
<1>3. nothing \notin SignificantKeywords
  BY Zenon DEF SignificantKeywords, TableKeywords, ColumnKeywords
<1> HIDE DEF nothing, k
<1>4. k \in SignificantKeywords <=> k \in TableKeywords \/ k \in ColumnKeywords
  BY DEF SignificantKeywords
<1>5. ~(k \in TableKeywords /\ k \in ColumnKeywords)
  BY DEF TableKeywords, ColumnKeywords
<1>6. ClassifySql(words, prefix) = SqlContext(k)
  BY <1>1, <1>2, <1>3, <1>4, <1>5 DEF SqlContext
<1> QED
  BY <1>6 DEF k

\* Ends of lines do not matter to it, nor do other words, unless a word that
\* contains it comes behind it.
LEMMA LastKeywordFound ==
    ASSUME NEW words \in Seq(RawWords),
           ~Hidden(LastKeyword(WithoutBreaks(words)), WithoutBreaks(words))
    PROVE  LastSignificantSqlKeyword(words) = LastKeyword(WithoutBreaks(words))
<1> DEFINE nothing == ""
           D == WithoutBreaks(words)
           n == LastOf(SignificantKeywords, D)
           K == LastKeyword(D)
           k == LastSignificantSqlKeyword(words)
<1>1. D \in Seq(RawWords) /\ ToSet(D) = ToSet(words) \ {NewLine}
  BY BreaksType
<1>2. /\ n \in 0..Len(D)
      /\ n # 0 => D[n] \in SignificantKeywords
      /\ \A i \in 1..Len(D) : i > n => D[i] \notin SignificantKeywords
  BY <1>1, LastOfFacts
<1>3. K = IF n = 0 THEN nothing ELSE D[n]
  BY Zenon DEF LastKeyword, LastOf
<1>4. \/ /\ k = nothing /\ k \notin SignificantKeywords
         /\ \A kw \in SignificantKeywords : KeywordPlace(kw, words) = 0
      \/ /\ k \in SignificantKeywords /\ KeywordPlace(k, words) # 0
         /\ \A kw \in SignificantKeywords :
                KeywordPlace(kw, words) <= KeywordPlace(k, words)
  BY KeywordIsLast, Zenon
<1>5. NewLine \notin SignificantKeywords
  BY DEF NewLine, SignificantKeywords, TableKeywords, ColumnKeywords
<1> HIDE DEF nothing, n, k
<1>6. Len(words) \in Nat /\ Len(D) \in Nat
  BY <1>1
<1>7. \A kw : /\ KeywordPlace(kw, words) \in 0..Len(words)
              /\ KeywordPlace(kw, words) >= PlaceOf(kw, words)
              /\ KeywordPlace(kw, words) # 0 => words[KeywordPlace(kw, words)] = kw
  BY KeywordPlaceFacts
<1>8. CASE n = 0
  <2>1. ASSUME k \in SignificantKeywords, KeywordPlace(k, words) # 0
        PROVE  FALSE
    <3>1. k \in ToSet(words)
      BY <1>6, <1>7, <2>1 DEF ToSet
    <3>2. k \in ToSet(D)
      BY <1>1, <1>5, <2>1, <3>1
    <3>3. PICK i \in 1..Len(D) : k = D[i]
      BY <1>1, <3>2 DEF ToSet
    <3> HIDE DEF D
    <3> QED
      BY <1>2, <1>8, <2>1, <3>3
  <2> QED
    BY <1>3, <1>4, <1>8, <2>1 DEF k
<1>9. CASE n # 0
  <2>1. n \in 1..Len(D) /\ n \in Nat /\ K = D[n] /\ K \in SignificantKeywords
    BY <1>2, <1>3, <1>6, <1>9
  <2>2. \A m \in (n + 1)..Len(D) : ~Occurs(K, D[m])
    <3> DEFINE e == LastOf({K}, D)
    <3>1. ~\E m \in (e + 1)..Len(D) : Occurs(K, D[m])
      <4>1. SelectLastInSeq(D, LAMBDA w : w = K) = e
        BY DEF LastOf, SelectLastInSeq
      <4> QED
        BY <4>1, Zenon DEF Hidden
    <3>2. /\ e \in 0..Len(D)
          /\ e # 0 => D[e] \in {K}
          /\ \A i \in 1..Len(D) : i > e => D[i] \notin {K}
      BY <1>1, LastOfFacts
    <3> HIDE DEF e, D, K
    <3>3. e >= n
      BY <1>6, <2>1, <3>2
    <3>4. e <= n
      BY <1>2, <1>6, <2>1, <3>2, <3>3
    <3>5. e = n
      BY <1>6, <2>1, <3>2, <3>3, <3>4
    <3> QED
      BY <3>1, <3>5
  <2>3. PICK p \in 1..Len(words) :
            /\ words[p] = D[n]
            /\ \A i \in (p + 1)..Len(words) :
                words[i] = NewLine \/ \E j \in (n + 1)..Len(D) : words[i] = D[j]
    BY <2>1, BreakPlace
  <2> HIDE DEF D, K
  <2>4. PlaceOf(K, words) = p
    <3>1. ~Occurs(K, NewLine)
      BY <1>5, <2>1, WordsAssumption DEF Occurs
    <3>2. \A i \in (p + 1)..Len(words) : ~Occurs(K, words[i])
      BY <2>2, <2>3, <3>1
    <3> QED
      BY <2>1, <2>3, <3>2, PlaceOfFacts
  <2>5. ASSUME NEW kw \in SignificantKeywords, KeywordPlace(kw, words) > p
        PROVE  FALSE
    <3> DEFINE q == KeywordPlace(kw, words)
    <3>1. q \in (p + 1)..Len(words) /\ q # 0 /\ words[q] = kw
      BY <1>6, <1>7, <2>5
    <3> HIDE DEF q
    <3>2. PICK j \in (n + 1)..Len(D) : kw = D[j]
      BY <1>5, <2>3, <3>1
    <3>3. j \in 1..Len(D) /\ j > n
      BY <1>6, <2>1
    <3> QED
      BY <1>2, <3>2, <3>3
  <2> DEFINE a == KeywordPlace(K, words)
             b == KeywordPlace(k, words)
  <2>6. a \in Nat /\ a >= p /\ p \in Nat /\ p # 0
    BY <1>6, <1>7, <2>4
  <2>7. k \in SignificantKeywords /\ a <= b /\ b \in Nat /\ words[b] = k
    BY <1>4, <1>6, <1>7, <2>1, <2>6
  <2>8. b = p
    <3>1. ~(b > p)
      BY <2>5, <2>7
    <3> HIDE DEF a, b
    <3> QED
      BY <2>6, <2>7, <3>1
  <2> HIDE DEF a, b
  <2> QED
    BY <2>1, <2>3, <2>7, <2>8 DEF k, K, D
<1> QED
  BY <1>8, <1>9

LEMMA TextDecidesContext ==
    ASSUME TextOK
    PROVE  ContextIsOfTheLastKeyword
<1> SUFFICES ASSUME InPlainSql, ~Qualified, ~Hidden(LastKeyword(Sent), Sent)
             PROVE  Class.context = SqlContext(LastKeyword(Sent))
  BY DEF ContextIsOfTheLastKeyword
<1> DEFINE words == StageContent(lines, cursor)
<1>1. /\ words \in Seq(RawWords) /\ WithoutBreaks(words) = Sent
      /\ Class.context = ClassifySql(words, Class.prefix)
  BY PlainSqlFacts
<1> HIDE DEF words
<1>2. Len(Class.prefix) # 2
  <2> DEFINE n == Len(Class.prefix)
  <2>1. ~(n > 1)
    BY DEF Qualified
  <2> HIDE DEF n
  <2>2. n # 2
    BY <2>1
  <2> QED
    BY <2>2 DEF n
<1>3. LastSignificantSqlKeyword(words) = LastKeyword(Sent)
  BY <1>1, LastKeywordFound
<1> QED
  BY <1>1, <1>2, <1>3, ContextOfKeyword

-----------------------------------------------------------------------------
(* The aliases. *)

NoAliases == [next |-> 1, aliases |-> << >>]

\* The recursion of ExtractSqlAliases, up to a word.
AliasUpTo(m, words, f) ==
    f = [n \in 0..m |-> IF n = 0 THEN NoAliases
                        ELSE AliasStep(words, f[n - 1], n)]

LEMMA AliasDefined ==
    ASSUME NEW words, NEW m \in Nat
    PROVE  \E f : AliasUpTo(m, words, f)
<1> DEFINE Bad == {k \in Nat : ~ \E f : AliasUpTo(k, words, f)}
<1> SUFFICES ASSUME Bad # {}
             PROVE  FALSE
  OBVIOUS
<1>1. PICK k \in Bad : \A j \in Bad : k <= j
  BY LeastNumber
<1>2. CASE k = 0
  <2> DEFINE f == [n \in 0..0 |-> NoAliases]
  <2>1. f = [n \in 0..0 |-> IF n = 0 THEN NoAliases ELSE AliasStep(words, f[n - 1], n)]
    OBVIOUS
  <2> HIDE DEF f
  <2> QED
    BY <1>2, <2>1 DEF AliasUpTo
<1>3. CASE k # 0
  <2>1. k - 1 \in Nat /\ k - 1 \notin Bad
    BY <1>1, <1>3
  <2>2. PICK g : AliasUpTo(k - 1, words, g)
    BY <2>1
  <2> DEFINE f == [n \in 0..k |-> IF n = k THEN AliasStep(words, g[k - 1], k) ELSE g[n]]
  <2>3. \A n \in 0..(k - 1) :
            g[n] = IF n = 0 THEN NoAliases ELSE AliasStep(words, g[n - 1], n)
    BY <2>2 DEF AliasUpTo
  <2>4. \A n \in 0..k : n # k => n \in 0..(k - 1)
    BY <2>1
  <2>5. \A n \in 0..k : n # 0 => n - 1 \in 0..k /\ n - 1 # k
    BY <2>1
  <2>6. \A n \in 0..k :
            f[n] = IF n = 0 THEN NoAliases ELSE AliasStep(words, f[n - 1], n)
    BY <1>3, <2>3, <2>4, <2>5
  <2>7. f = [n \in 0..k |-> f[n]]
    OBVIOUS
  <2>8. f = [n \in 0..k |-> IF n = 0 THEN NoAliases ELSE AliasStep(words, f[n - 1], n)]
    <3> HIDE DEF f
    <3> QED
      BY <2>6, <2>7
  <2> HIDE DEF f
  <2> QED
    BY <2>8 DEF AliasUpTo
<1> QED
  BY <1>2, <1>3

\* What the search for aliases has found, word by word.
AliasStates(words, f) ==
    /\ f[0].next = 1
    /\ \A n \in 1..Len(words) : f[n] = AliasStep(words, f[n - 1], n)

LEMMA AliasRun ==
    ASSUME NEW S, NEW content, WithoutBreaks(content) \in Seq(S)
    PROVE  LET words == WithoutBreaks(content)
           IN  \E f : /\ AliasStates(words, f)
                      /\ ExtractSqlAliases(content) = f[Len(words)].aliases
<1> DEFINE words == WithoutBreaks(content)
           n == Len(words)
           f == CHOOSE f : AliasUpTo(n, words, f)
<1>1. n \in Nat
  OBVIOUS
<1>2. AliasUpTo(n, words, f)
  BY <1>1, AliasDefined
<1>3. ExtractSqlAliases(content) = f[n].aliases
  BY DEF ExtractSqlAliases, AliasUpTo, NoAliases
<1> HIDE DEF f, n
<1>4. \A k \in 0..n : f[k] = IF k = 0 THEN NoAliases ELSE AliasStep(words, f[k - 1], k)
  BY <1>2 DEF AliasUpTo
<1>5. f[0].next = 1
  BY <1>1, <1>4 DEF NoAliases
<1>6. \A k \in 1..n : f[k] = AliasStep(words, f[k - 1], k)
  <2>1. \A k \in 1..n : k \in 0..n /\ k # 0
    BY <1>1
  <2> HIDE DEF words
  <2> QED
    BY <1>4, <2>1
<1> QED
  BY <1>3, <1>5, <1>6 DEF AliasStates, n

-----------------------------------------------------------------------------
(* The definitions of aliases in the words that a run would send. *)

FromAt(words, n) == words[n] \in {"from", "join"}
AliasAt(words, n) == IF words[n + 2] = "as" THEN n + 3 ELSE n + 2
AliasOf(words, n) == PartsOf(words[AliasAt(words, n)])[1]
Defines(words, n) ==
    /\ n \in 1..(Len(words) - 2)
    /\ FromAt(words, n) /\ Len(PartsOf(words[n + 1])) = 1
    /\ AliasAt(words, n) \in DOMAIN words
    /\ PartsOf(words[AliasAt(words, n)]) # << >>
    /\ AliasOf(words, n) \notin SqlKeywords

\* They are the matches of the search that are not discarded.
LEMMA DefinitionsMatch ==
    ASSUME NEW S, NEW words \in Seq(S), NEW n \in 1..Len(words)
    PROVE  LET place == AliasPlace(words, n)
           IN  /\ place # 0 => FromAt(words, n) /\ place \in {n + 2, n + 3}
               /\ Defines(words, n) => place = AliasAt(words, n)
               /\ (place # 0 /\ PartsOf(words[place])[1] \notin SqlKeywords)
                    => Defines(words, n) /\ place = AliasAt(words, n)
<1> DEFINE place == AliasPlace(words, n)
           id(i) == i \in DOMAIN words /\ PartsOf(words[i]) # << >>
           match == /\ FromAt(words, n)
                    /\ id(n + 1) /\ Len(PartsOf(words[n + 1])) = 1 /\ id(n + 2)
           as == words[n + 2] = "as"
<1>1. place = IF match THEN IF as /\ id(n + 3) THEN n + 3 ELSE n + 2 ELSE 0
  BY DEF AliasPlace, FromAt
<1>2. DOMAIN words = 1..Len(words) /\ Len(words) \in Nat /\ n \in Nat /\ 1 <= n
  OBVIOUS
<1>3. as => PartsOf(words[n + 2]) = <<"as">> /\ <<"as">> # << >> /\ <<"as">>[1] = "as"
  BY WordsAssumption DEF PartsOf
<1>4. "as" \in SqlKeywords
  BY DEF SqlKeywords
<1>5. AliasAt(words, n) = IF as THEN n + 3 ELSE n + 2
  BY DEF AliasAt
<1>6. place # 0 => FromAt(words, n) /\ place \in {n + 2, n + 3}
  <2> HIDE DEF match, as, id
  <2> QED
    BY <1>1 DEF match
<1>7. ASSUME Defines(words, n)
      PROVE  place = AliasAt(words, n)
  <2>1. /\ n + 2 \in DOMAIN words /\ n + 1 \in DOMAIN words
    BY <1>2, <1>7 DEF Defines
  <2>2. PartsOf(words[n + 1]) # << >>
    <3> DEFINE parts == PartsOf(words[n + 1])
    <3>1. Len(parts) = 1
      BY <1>7 DEF Defines
    <3> HIDE DEF parts
    <3>2. parts = << >> => Len(parts) = 0
      BY EmptySeq
    <3> QED
      BY <3>1, <3>2 DEF parts
  <2>3. id(AliasAt(words, n))
    BY <1>7 DEF Defines
  <2>4. id(n + 2)
    BY <1>3, <1>5, <2>1, <2>3
  <2>5. match
    BY <1>7, <2>1, <2>2, <2>4 DEF Defines
  <2> HIDE DEF match, as, id, place
  <2>6. CASE as
    <3>1. AliasAt(words, n) = n + 3
      BY <1>5, <2>6
    <3>2. id(n + 3)
      BY <2>3, <3>1
    <3> QED
      BY <1>1, <2>5, <2>6, <3>1, <3>2
  <2>7. CASE ~as
    BY <1>1, <1>5, <2>5, <2>7
  <2> QED
    BY <2>6, <2>7
<1>8. ASSUME place # 0, PartsOf(words[place])[1] \notin SqlKeywords
      PROVE  Defines(words, n) /\ place = AliasAt(words, n)
  <2>1. match
    BY <1>1, <1>8
  <2>2. n \in 1..(Len(words) - 2)
    BY <1>2, <2>1
  <2>3. as => id(n + 3)
    <3> SUFFICES ASSUME as, ~id(n + 3)
                 PROVE  FALSE
      OBVIOUS
    <3> HIDE DEF match, id
    <3>1. place = n + 2
      BY <1>1, <2>1
    <3> HIDE DEF place
    <3> QED
      BY <1>3, <1>4, <1>8, <3>1
  <2>4. place = AliasAt(words, n)
    <3> HIDE DEF match, id, as, place
    <3>1. CASE as
      BY <1>1, <1>5, <2>1, <2>3, <3>1
    <3>2. CASE ~as
      BY <1>1, <1>5, <2>1, <3>2
    <3> QED
      BY <3>1, <3>2
  <2>5. id(place)
    <3>1. id(n + 2)
      BY <2>1
    <3> HIDE DEF match, id, as
    <3> QED
      BY <1>1, <2>1, <2>3, <3>1
  <2> HIDE DEF place, as
  <2> QED
    BY <1>8, <2>1, <2>2, <2>4, <2>5 DEF Defines, AliasOf
<1> QED
  BY <1>6, <1>7, <1>8

\* The search is past no word that it has not looked at but by a match.
LEMMA NextFacts ==
    ASSUME NEW S, NEW words \in Seq(S), NEW f, AliasStates(words, f),
           NEW n \in 0..Len(words)
    PROVE  /\ f[n].next \in Nat
           /\ f[n].next = 1 \/ \E m \in 1..n : FromAt(words, m) /\ f[n].next <= m + 4
<1> DEFINE ok(k) == /\ f[k].next \in Nat
                    /\ f[k].next = 1 \/ \E m \in 1..k : FromAt(words, m) /\ f[k].next <= m + 4
           Good == {k \in Nat : ok(k)}
<1>1. Len(words) \in Nat
  OBVIOUS
<1>2. 0 \in Good
  BY DEF AliasStates
<1>3. ASSUME NEW k \in 1..Len(words), k - 1 \in Good
      PROVE  k \in Good
  <2> DEFINE l == k - 1
             place == AliasPlace(words, k)
  <2>1. k \in Nat /\ l \in Nat /\ k = l + 1
    BY <1>1
  <2>2. ok(l)
    BY <1>3
  <2>3. f[k] = AliasStep(words, f[l], k)
    BY DEF AliasStates
  <2>4. place # 0 => FromAt(words, k) /\ place \in {k + 2, k + 3}
    BY DefinitionsMatch
  <2> HIDE DEF l, place
  <2>5. CASE k < f[l].next \/ place = 0
    <3>1. f[k] = f[l]
      BY <2>3, <2>5 DEF AliasStep, place
    <3>2. \A m \in 1..l : m \in 1..k
      BY <2>1
    <3> QED
      BY <2>1, <2>2, <3>1, <3>2
  <2>6. CASE ~(k < f[l].next \/ place = 0)
    <3>1. f[k].next = place + 1
      BY <2>3, <2>6 DEF AliasStep, place
    <3>2. FromAt(words, k) /\ place \in {k + 2, k + 3}
      BY <2>4, <2>6
    <3>3. k \in 1..k /\ place + 1 <= k + 4 /\ place + 1 \in Nat
      BY <2>1, <3>2
    <3> QED
      BY <2>1, <3>1, <3>2, <3>3
  <2> QED
    BY <2>5, <2>6
<1>4. n \in Good
  <2> HIDE DEF Good
  <2> DEFINE c == Len(words)
  <2>1. c \in Nat /\ n \in 0..c /\ \A k \in 1..c : k - 1 \in Good => k \in Good
    BY <1>1, <1>3
  <2> HIDE DEF c
  <2> QED
    BY <1>2, <2>1, CountingUp
<1> QED
  BY <1>4

\* An alias is kept once it is found, unless it is defined again.
LEMMA AliasStays ==
    ASSUME NEW S, NEW words \in Seq(S), NEW f, AliasStates(words, f),
           NEW n \in 1..Len(words), NEW a, NEW t,
           a \in DOMAIN f[n].aliases, f[n].aliases[a] = t,
           \A m \in 1..Len(words) : Defines(words, m) /\ m > n => AliasOf(words, m) # a
    PROVE  LET c == Len(words)
           IN  a \in DOMAIN f[c].aliases /\ f[c].aliases[a] = t
<1> DEFINE c == Len(words)
           ok(k) == a \in DOMAIN f[k].aliases /\ f[k].aliases[a] = t
           Good == {k \in Nat : k >= n => ok(k)}
<1>1. c \in Nat /\ n \in Nat /\ 1 <= n /\ n <= c
  OBVIOUS
<1>2. 0 \in Good
  BY <1>1
<1>3. ASSUME NEW k \in 1..c, k - 1 \in Good
      PROVE  k \in Good
  <2> DEFINE l == k - 1
             place == AliasPlace(words, k)
             new == PartsOf(words[place])[1]
             old == f[l].aliases
  <2>1. k \in Nat /\ l \in Nat /\ k = l + 1
    BY <1>1
  <2>2. f[k] = AliasStep(words, f[l], k)
    BY DEF AliasStates
  <2>3. CASE k <= n
    BY <1>1, <2>1, <2>3
  <2>4. CASE k > n
    <3>1. l >= n
      BY <1>1, <2>1, <2>4
    <3>2. ok(l)
      BY <1>3, <3>1
    <3>3. place # 0 /\ new \notin SqlKeywords => new # a
      <4> SUFFICES ASSUME place # 0, new \notin SqlKeywords
                   PROVE  new # a
        OBVIOUS
      <4>1. Defines(words, k) /\ place = AliasAt(words, k)
        BY DefinitionsMatch
      <4> QED
        BY <2>4, <4>1 DEF AliasOf
    <3>4. f[k].aliases =
            IF k < f[l].next \/ place = 0 \/ new \in SqlKeywords THEN old
            ELSE [b \in DOMAIN old \cup {new} |->
                    IF b = new THEN words[k + 1] ELSE old[b]]
      BY <2>2 DEF AliasStep
    <3> HIDE DEF l, place, new
    <3>5. ok(k)
      BY <3>2, <3>3, <3>4
    <3> HIDE DEF ok
    <3> QED
      BY <2>1, <3>5
  <2> QED
    BY <1>1, <2>1, <2>3, <2>4
<1>4. c \in Good
  <2> HIDE DEF Good
  <2>1. c \in 0..c
    BY <1>1
  <2> HIDE DEF c
  <2> QED
    BY <1>1, <1>2, <1>3, <2>1, CountingUp
<1> QED
  BY <1>1, <1>4

LEMMA AliasFound ==
    ASSUME NEW S, NEW content, WithoutBreaks(content) \in Seq(S),
           NEW n, Defines(WithoutBreaks(content), n),
           \A m \in (n - 3)..(n - 1) \cap DOMAIN WithoutBreaks(content) :
                ~FromAt(WithoutBreaks(content), m),
           \A m \in 1..Len(WithoutBreaks(content)) :
                Defines(WithoutBreaks(content), m) /\ m > n =>
                    AliasOf(WithoutBreaks(content), m) # AliasOf(WithoutBreaks(content), n)
    PROVE  LET words == WithoutBreaks(content)
               aliases == ExtractSqlAliases(content)
           IN  /\ AliasOf(words, n) \in DOMAIN aliases
               /\ aliases[AliasOf(words, n)] = words[n + 1]
<1> DEFINE words == WithoutBreaks(content)
           c == Len(words)
           place == AliasPlace(words, n)
           a == AliasOf(words, n)
<1>1. PICK f : AliasStates(words, f) /\ ExtractSqlAliases(content) = f[c].aliases
  BY AliasRun
<1>2. /\ words \in Seq(S) /\ Defines(words, n)
      /\ \A m \in (n - 3)..(n - 1) \cap DOMAIN words : ~FromAt(words, m)
      /\ \A m \in 1..c : Defines(words, m) /\ m > n => AliasOf(words, m) # a
  OBVIOUS
<1> HIDE DEF words
<1>3. c \in Nat /\ DOMAIN words = 1..c
  BY <1>2
<1>4. n \in 1..(c - 2)
  BY <1>2 DEF Defines
<1> HIDE DEF c
<1>5. n \in Nat /\ n \in 1..c /\ n - 1 \in Nat /\ n - 1 \in 0..c
  BY <1>3, <1>4
<1>6. place = AliasAt(words, n) /\ place \in {n + 2, n + 3}
  <2>1. place = AliasAt(words, n)
    BY <1>2, <1>5, DefinitionsMatch DEF c
  <2> QED
    BY <2>1 DEF AliasAt
<1>7. PartsOf(words[place])[1] = a /\ a \notin SqlKeywords
  BY <1>2, <1>6 DEF Defines, AliasOf
<1> HIDE DEF place, a
<1>8. ~(n < f[n - 1].next)
  <2>1. /\ f[n - 1].next \in Nat
        /\ f[n - 1].next = 1 \/ \E m \in 1..(n - 1) :
                FromAt(words, m) /\ f[n - 1].next <= m + 4
    BY <1>1, <1>2, <1>5, NextFacts DEF c
  <2>2. ASSUME NEW m \in 1..(n - 1), FromAt(words, m), f[n - 1].next <= m + 4
        PROVE  f[n - 1].next <= n
    <3>1. m \notin (n - 3)..(n - 1)
      <4>1. m \in DOMAIN words
        BY <1>3, <1>5
      <4> QED
        BY <1>2, <2>2, <4>1
    <3> DEFINE x == f[n - 1].next
    <3>2. m + 4 <= n /\ m \in Nat
      BY <1>5, <3>1
    <3> QED
      BY <1>5, <2>1, <2>2, <3>2
  <2> DEFINE x == f[n - 1].next
  <2>3. x \in Nat /\ (x = 1 \/ x <= n)
    BY <2>1, <2>2
  <2>4. 1 <= n
    BY <1>5
  <2> HIDE DEF x
  <2>5. ~(n < x)
    BY <1>5, <2>3, <2>4
  <2> QED
    BY <2>5 DEF x
<1>9. f[n] = AliasStep(words, f[n - 1], n)
  BY <1>1, <1>5 DEF AliasStates, c
<1>10. place # 0
  BY <1>5, <1>6
<1>11. f[n].aliases = [b \in DOMAIN f[n - 1].aliases \cup {a} |->
                            IF b = a THEN words[n + 1] ELSE f[n - 1].aliases[b]]
  BY <1>7, <1>8, <1>9, <1>10 DEF AliasStep, place
<1>12. a \in DOMAIN f[n].aliases /\ f[n].aliases[a] = words[n + 1]
  BY <1>11
<1>13. a \in DOMAIN f[c].aliases /\ f[c].aliases[a] = words[n + 1]
  BY <1>1, <1>2, <1>5, <1>12, AliasStays DEF c
<1> QED
  BY <1>1, <1>13 DEF a, words

LEMMA TextKeepsAliases ==
    ASSUME TextOK
    PROVE  AliasesAreKept
<1> DEFINE words == StageContent(lines, cursor)
           clear(n) == \A m \in (n - 3)..(n - 1) \cap DOMAIN Sent : ~FromAt(Sent, m)
           last(n) == \A m \in 1..Len(Sent) : Defines(Sent, m) /\ m > n =>
                            AliasOf(Sent, m) # AliasOf(Sent, n)
<1>1. ASSUME InPlainSql, NEW n, Defines(Sent, n), clear(n), last(n)
      PROVE  /\ AliasOf(Sent, n) \in DOMAIN Class.aliases
             /\ Class.aliases[AliasOf(Sent, n)] = Sent[n + 1]
  <2>1. /\ WithoutBreaks(words) = Sent /\ Sent \in Seq(RawWords)
        /\ Class.aliases = ExtractSqlAliases(words)
    BY <1>1, PlainSqlFacts
  <2> HIDE DEF words
  <2> QED
    BY <1>1, <2>1, AliasFound
<1> DEFINE defs == {n \in 1..(Len(Sent) - 2) :
                /\ FromAt(Sent, n) /\ Len(PartsOf(Sent[n + 1])) = 1
                /\ AliasAt(Sent, n) \in DOMAIN Sent
                /\ PartsOf(Sent[AliasAt(Sent, n)]) # << >>
                /\ AliasOf(Sent, n) \notin SqlKeywords}
<1>2. AliasesAreKept <=>
        (InPlainSql =>
            \A n \in defs :
                (/\ clear(n)
                 /\ \A m \in defs : m > n => AliasOf(Sent, m) # AliasOf(Sent, n)) =>
                    /\ AliasOf(Sent, n) \in DOMAIN Class.aliases
                    /\ Class.aliases[AliasOf(Sent, n)] = Sent[n + 1])
  BY Zenon DEF AliasesAreKept, FromAt, AliasAt, AliasOf
<1>3. \A n : n \in defs <=> Defines(Sent, n)
  BY DEF Defines
<1>4. \A n \in defs :
        (\A m \in defs : m > n => AliasOf(Sent, m) # AliasOf(Sent, n)) => last(n)
  BY <1>3
<1> HIDE DEF defs, clear, last
<1> QED
  BY <1>1, <1>2, <1>3, <1>4

-----------------------------------------------------------------------------
(* What holds of every text under the editor. *)

\* Whatever the text, a run takes it exactly when each line has a stage to
\* go to, and then its stages are the texts from header to header.
THEOREM SegmentsOfRun == Spec => []StagesAreSegments
<1>1. TextOK => StagesAreSegments
  BY TextIsSegmented
<1> QED
  BY <1>1, TextCorrect, PTL

\* What a completion probes is the beginning of what a run would run, word
\* for word, for any text that both take.
THEOREM ProbesPrefixOfRun == Spec => []ProbesWhatARunWouldRun
<1>1. TextOK => ProbesWhatARunWouldRun
  BY TextProbesPrefix
<1> QED
  BY <1>1, TextCorrect, PTL

\* The probe stops right before the stage that the classifier is in.
THEOREM ProbeStops == Spec => []ProbeStopsBeforeCursor
<1>1. TextOK => ProbeStopsBeforeCursor
  BY TextStopsProbe
<1> QED
  BY <1>1, TextCorrect, PTL

\* What is offered in a stage is built in for its type or is on the server
\* that a run would send the stage to, whatever is on the servers, and jq
\* operators come only behind a placeholder of that stage; a first stage with a
\* placeholder is left out.
THEOREM OffersFit == Spec => []OffersAreOfTheStage
<1>1. TextOK => OffersAreOfTheStage
  BY TextOffersWhatIsServed
<1> QED
  BY <1>1, TextCorrect, PTL

\* Behind the name of a MongoDB database all its collections are offered, and
\* no others, whatever could be sampled of them.
THEOREM CollectionsListed == Spec => []EveryCollectionIsOffered
<1>1. TextOK => EveryCollectionIsOffered
  BY TextListsCollections
<1> QED
  BY <1>1, TextCorrect, PTL

\* Behind an alias the columns of one table are offered, however many
\* databases have tables of its name.
THEOREM TablesKeptApart == Spec => []ColumnsAreOfOneTable
<1>1. TextOK => ColumnsAreOfOneTable
  BY TextKeepsTablesApart
<1> QED
  BY <1>1, TextCorrect, PTL

\* The paths in a placeholder are of the result of the stage before, with all
\* that is at the top of it, for values of any depth.
THEOREM PathsOfPrior == Spec => []PathsAreOfTheStageBefore
<1>1. TextOK => PathsAreOfTheStageBefore
  BY TextLeadsSomewhere
<1> QED
  BY <1>1, TextCorrect, PTL

\* The last keyword that a run would send decides what is offered, on however
\* many lines and between whatever words it stands.
THEOREM ContextByKeyword == Spec => []ContextIsOfTheLastKeyword
<1>1. TextOK => ContextIsOfTheLastKeyword
  BY TextDecidesContext
<1> QED
  BY <1>1, TextCorrect, PTL

\* Of each alias that a run would send, the last definition is known, however
\* many there are.
THEOREM AliasesKnown == Spec => []AliasesAreKept
<1>1. TextOK => AliasesAreKept
  BY TextKeepsAliases
<1> QED
  BY <1>1, TextCorrect, PTL
=============================================================================
