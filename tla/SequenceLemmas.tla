--------------------------- MODULE SequenceLemmas ---------------------------
(***************************************************************************)
(* What the operations on sequences that the state machines use do to the  *)
(* elements of a sequence; and the induction that the folds of the codec   *)
(* need.  The provers take no theorem with an operator for a parameter, so *)
(* induction is had from the smallest element of a set of numbers, and a   *)
(* recursive function from the union of its finite parts.                  *)
(***************************************************************************)
EXTENDS Integers, SequencesExt, SequenceTheorems, FiniteSetTheorems, WellFoundedInduction, TLAPS

LEMMA RemoveAtType ==
  ASSUME NEW S, NEW s \in Seq(S), NEW k \in DOMAIN s
  PROVE  RemoveAt(s, k) \in Seq(S)
<1>1. Len(s) \in Nat /\ DOMAIN s = 1 .. Len(s) /\ k \in Int
  BY LenProperties
<1>2. \A i \in 1 .. Len(s) : s[i] \in S
  BY ElementOfSeq
<1>3. SubSeq(s, 1, k - 1) \in Seq(S)
  <2>1. \A i \in 1 .. k - 1 : s[i] \in S
    BY <1>1, <1>2
  <2> QED BY <2>1, <1>1, SubSeqProperties
<1>4. SubSeq(s, k + 1, Len(s)) \in Seq(S)
  <2>1. \A i \in k + 1 .. Len(s) : s[i] \in S
    BY <1>1, <1>2
  <2> QED BY <2>1, <1>1, SubSeqProperties
<1> QED BY <1>3, <1>4, ConcatProperties DEF RemoveAt

LEMMA ReplaceType ==
  ASSUME NEW S, NEW s \in Seq(S), NEW k \in DOMAIN s, NEW e \in S
  PROVE  [s EXCEPT ![k] = e] \in Seq(S)
BY LenProperties, ExceptSeq

LEMMA ElementType ==
  ASSUME NEW S, NEW s \in Seq(S), NEW k \in DOMAIN s
  PROVE  s[k] \in S
BY LenProperties, ElementOfSeq

LEMMA FunctionIsSeq ==
  ASSUME NEW S, NEW n \in Nat, NEW f \in [1 .. n -> S]
  PROVE  f \in Seq(S)
BY SeqDef

\* The elements before the k-th keep their place, those after it move up by one.
LEMMA RemoveAtElements ==
  ASSUME NEW S, NEW s \in Seq(S), NEW k \in DOMAIN s
  PROVE  /\ DOMAIN RemoveAt(s, k) = 1 .. Len(s) - 1
         /\ \A j \in 1 .. Len(s) - 1 :
              RemoveAt(s, k)[j] = IF j < k THEN s[j] ELSE s[j + 1]
<1> DEFINE front == SubSeq(s, 1, k - 1)
           back  == SubSeq(s, k + 1, Len(s))
<1>1. /\ Len(s) \in Nat /\ DOMAIN s = 1 .. Len(s)
      /\ k \in 1 .. Len(s)
  BY LenProperties
<1>2. \A j \in 1 .. Len(s) : s[j] \in S
  BY ElementOfSeq
<1>3. /\ front \in Seq(S) /\ Len(front) = k - 1
      /\ \A j \in 1 .. k - 1 : front[j] = s[j]
  <2>1. \A j \in 1 .. k - 1 : s[j] \in S
    BY <1>1, <1>2
  <2>2. /\ front \in Seq(S)
        /\ Len(front) = IF 1 <= k - 1 THEN (k - 1) - 1 + 1 ELSE 0
        /\ \A j \in 1 .. (k - 1) - 1 + 1 : front[j] = s[1 + j - 1]
    BY <2>1, <1>1, SubSeqProperties
  <2> HIDE DEF front
  <2> QED BY <2>2, <1>1
<1>4. /\ back \in Seq(S) /\ Len(back) = Len(s) - k
      /\ \A j \in 1 .. Len(s) - k : back[j] = s[k + j]
  <2>1. \A j \in k + 1 .. Len(s) : s[j] \in S
    BY <1>1, <1>2
  <2>2. /\ back \in Seq(S)
        /\ Len(back) = IF k + 1 <= Len(s) THEN Len(s) - (k + 1) + 1 ELSE 0
        /\ \A j \in 1 .. Len(s) - (k + 1) + 1 : back[j] = s[(k + 1) + j - 1]
    BY <2>1, <1>1, SubSeqProperties
  <2> HIDE DEF back
  <2>3. Len(back) = Len(s) - k
    <3>1. CASE k + 1 <= Len(s)
      BY <2>2, <1>1, <3>1
    <3>2. CASE ~(k + 1 <= Len(s))
      <4>1. Len(back) = 0
        BY <2>2, <3>2
      <4>2. k = Len(s)
        BY <1>1, <3>2
      <4> QED BY <1>1, <4>1, <4>2
    <3> QED BY <3>1, <3>2
  <2>4. ASSUME NEW j \in 1 .. Len(s) - k PROVE back[j] = s[k + j]
    <3>1. j \in 1 .. Len(s) - (k + 1) + 1 /\ (k + 1) + j - 1 = k + j
      BY <1>1
    <3> QED BY <3>1, <2>2
  <2> QED BY <2>2, <2>3, <2>4
<1>5. RemoveAt(s, k) = front \o back
  BY DEF RemoveAt
<1> HIDE DEF front, back
<1> DEFINE t == front \o back
<1>6. /\ t \in Seq(S)
      /\ Len(t) = Len(front) + Len(back)
      /\ \A j \in 1 .. Len(front) + Len(back) :
           t[j] = IF j <= Len(front) THEN front[j] ELSE back[j - Len(front)]
  BY <1>3, <1>4, ConcatProperties
<1> HIDE DEF t
<1>7. DOMAIN t = 1 .. Len(t)
  BY <1>6, LenProperties
<1>8. Len(t) = Len(s) - 1
  BY <1>1, <1>3, <1>4, <1>6
<1>9. ASSUME NEW j \in 1 .. Len(s) - 1
      PROVE  t[j] = IF j < k THEN s[j] ELSE s[j + 1]
  <2>1. j \in 1 .. Len(front) + Len(back)
    BY <1>1, <1>3, <1>4
  <2>2. CASE j < k
    <3>1. j <= Len(front) /\ j \in 1 .. k - 1
      BY <1>1, <1>3, <2>2
    <3>2. t[j] = front[j]
      BY <1>6, <2>1, <3>1
    <3>3. front[j] = s[j]
      BY <1>3, <3>1
    <3> QED BY <2>2, <3>2, <3>3
  <2>3. CASE ~(j < k)
    <3>1. /\ ~(j <= Len(front)) /\ j - Len(front) = j + 1 - k
          /\ j + 1 - k \in 1 .. Len(s) - k /\ k + (j + 1 - k) = j + 1
      BY <1>1, <1>3, <2>3
    <3>2. t[j] = back[j - Len(front)]
      BY <1>6, <2>1, <3>1
    <3>3. back[j + 1 - k] = s[j + 1]
      BY <1>4, <3>1
    <3> QED BY <2>3, <3>1, <3>2, <3>3
  <2> QED BY <2>2, <2>3
<1>10. DOMAIN t = 1 .. Len(s) - 1
  BY <1>7, <1>8
<1>11. RemoveAt(s, k) = t
  BY <1>5 DEF t
<1> QED BY <1>9, <1>10, <1>11

LEMMA RemoveAtKeeps ==
  ASSUME NEW S, NEW s \in Seq(S), NEW k \in DOMAIN s, NEW i \in DOMAIN s, i # k
  PROVE  \E j \in DOMAIN RemoveAt(s, k) : RemoveAt(s, k)[j] = s[i]
<1>1. /\ Len(s) \in Nat /\ DOMAIN s = 1 .. Len(s)
      /\ k \in 1 .. Len(s) /\ i \in 1 .. Len(s)
  BY LenProperties
<1>2. CASE i < k
  <2>1. i \in 1 .. Len(s) - 1
    BY <1>1, <1>2
  <2> QED BY <1>2, <2>1, RemoveAtElements
<1>3. CASE i > k
  <2>1. i - 1 \in 1 .. Len(s) - 1 /\ ~(i - 1 < k) /\ (i - 1) + 1 = i
    BY <1>1, <1>3
  <2>2. RemoveAt(s, k)[i - 1] = s[i]
    BY <2>1, RemoveAtElements
  <2> QED BY <2>1, <2>2, RemoveAtElements
<1> QED BY <1>1, <1>2, <1>3

\* A sequence is determined by what Append makes of it.
LEMMA AppendNewInjective ==
  ASSUME NEW S, NEW s \in Seq(S), NEW x \in S, NEW y \in S,
         Append(s, x) = Append(s, y)
  PROVE  x = y
<1>1. Append(s, x)[Len(s) + 1] = x /\ Append(s, y)[Len(s) + 1] = y
  BY AppendProperties
<1> QED BY <1>1

LEMMA AppendLonger ==
  ASSUME NEW S, NEW s \in Seq(S), NEW x \in S, NEW y \in S, NEW z \in S
  PROVE  /\ Append(s, x) # s
         /\ Append(s, x) # <<>>
         /\ Append(Append(s, y), z) # Append(s, x)
<1>1. /\ Append(s, x) \in Seq(S) /\ Len(Append(s, x)) = Len(s) + 1
      /\ Append(s, y) \in Seq(S) /\ Len(Append(s, y)) = Len(s) + 1
  BY AppendProperties
<1>2. Len(Append(Append(s, y), z)) = Len(Append(s, y)) + 1
  BY <1>1, AppendProperties
<1>3. Len(s) \in Nat /\ Len(<<>>) = 0
  BY LenProperties, EmptySeq
<1> QED BY <1>1, <1>2, <1>3

-----------------------------------------------------------------------------
(* Queues, in which an element occurs once                                 *)

LEMMA LeaveQueue ==
  ASSUME NEW S, NEW s \in Seq(S), IsInjective(s), NEW k \in DOMAIN s
  PROVE  /\ IsInjective(RemoveAt(s, k))
         /\ Range(RemoveAt(s, k)) = Range(s) \ {s[k]}
         /\ k # 1 => RemoveAt(s, k) # <<>> /\ Head(RemoveAt(s, k)) = Head(s)
<1> DEFINE t       == RemoveAt(s, k)
           from(j) == IF j < k THEN j ELSE j + 1
<1>1. /\ Len(s) \in Nat /\ DOMAIN s = 1 .. Len(s) /\ k \in 1 .. Len(s)
      /\ \A i, j \in 1 .. Len(s) : s[i] = s[j] => i = j
  BY LenProperties DEF IsInjective
<1>2. /\ DOMAIN t = 1 .. Len(s) - 1
      /\ \A j \in 1 .. Len(s) - 1 : t[j] = IF j < k THEN s[j] ELSE s[j + 1]
  BY RemoveAtElements
<1>3. t \in Seq(S)
  BY RemoveAtType
<1> HIDE DEF t
<1>4. ASSUME NEW j \in 1 .. Len(s) - 1
      PROVE  from(j) \in 1 .. Len(s) /\ from(j) # k /\ t[j] = s[from(j)]
  <2>1. CASE j < k
    <3>1. from(j) = j /\ j \in 1 .. Len(s) /\ j # k
      BY <1>1, <2>1
    <3>2. t[j] = s[j]
      BY <1>2, <2>1
    <3> QED BY <3>1, <3>2
  <2>2. CASE ~(j < k)
    <3>1. from(j) = j + 1 /\ j + 1 \in 1 .. Len(s) /\ j + 1 # k
      BY <1>1, <2>2
    <3>2. t[j] = s[j + 1]
      BY <1>2, <2>2
    <3> QED BY <3>1, <3>2
  <2> QED BY <2>1, <2>2
<1>5. \A i, j \in 1 .. Len(s) - 1 : from(i) = from(j) => i = j
  BY <1>1
<1> HIDE DEF from
<1>6. IsInjective(t)
  <2> SUFFICES ASSUME NEW i \in 1 .. Len(s) - 1, NEW j \in 1 .. Len(s) - 1, t[i] = t[j]
               PROVE  i = j
    BY <1>2 DEF IsInjective
  <2>1. from(i) = from(j)
    BY <1>1, <1>4
  <2> QED BY <1>5, <2>1
<1>7. Range(t) = Range(s) \ {s[k]}
  <2>1. \A j \in DOMAIN t : t[j] \in Range(s) /\ t[j] # s[k]
    BY <1>1, <1>2, <1>4 DEF Range
  <2>2. \A i \in DOMAIN s : i # k => s[i] \in Range(t)
    BY <1>3, RemoveAtKeeps DEF Range, t
  <2> QED BY <2>1, <2>2 DEF Range
<1>8. ASSUME k # 1
      PROVE  t # <<>> /\ Head(t) = Head(s)
  <2>1. 1 \in 1 .. Len(s) - 1 /\ 1 < k
    BY <1>1, <1>8
  <2>2. t[1] = s[1]
    BY <1>2, <2>1
  <2>3. t # <<>> /\ s # <<>>
    BY <1>1, <1>2, <2>1
  <2>4. Head(t) = t[1] /\ Head(s) = s[1]
    BY <1>3, <2>3, HeadTailProperties
  <2> QED BY <2>2, <2>3, <2>4
<1>9. IsInjective(t) /\ Range(t) = Range(s) \ {s[k]} /\ (k # 1 => t # <<>> /\ Head(t) = Head(s))
  BY <1>6, <1>7, <1>8
<1> QED BY <1>9 DEF t

LEMMA JoinQueue ==
  ASSUME NEW S, NEW s \in Seq(S), IsInjective(s), NEW e \in S, e \notin Range(s)
  PROVE  /\ Append(s, e) \in Seq(S)
         /\ IsInjective(Append(s, e))
         /\ Range(Append(s, e)) = Range(s) \cup {e}
         /\ Append(s, e) # <<>>
         /\ s # <<>> => Head(Append(s, e)) = Head(s)
<1> DEFINE t == Append(s, e)
<1>1. /\ Len(s) \in Nat /\ DOMAIN s = 1 .. Len(s)
      /\ \A i, j \in 1 .. Len(s) : s[i] = s[j] => i = j
  BY LenProperties DEF IsInjective
<1>2. /\ t \in Seq(S) /\ Len(t) = Len(s) + 1
      /\ \A j \in 1 .. Len(s) : t[j] = s[j]
      /\ t[Len(s) + 1] = e
  BY AppendProperties, <1>1
<1>3. DOMAIN t = 1 .. Len(s) + 1
  BY <1>2, LenProperties
<1> HIDE DEF t
<1>4. \A j \in 1 .. Len(s) : s[j] # e
  BY <1>1 DEF Range
<1>5. IsInjective(t)
  <2> SUFFICES ASSUME NEW i \in 1 .. Len(s) + 1, NEW j \in 1 .. Len(s) + 1, t[i] = t[j]
               PROVE  i = j
    BY <1>3 DEF IsInjective
  <2>1. CASE i \in 1 .. Len(s) /\ j \in 1 .. Len(s)
    BY <1>1, <1>2, <2>1
  <2>2. CASE i = Len(s) + 1 /\ j \in 1 .. Len(s)
    BY <1>2, <1>4, <2>2
  <2>3. CASE i \in 1 .. Len(s) /\ j = Len(s) + 1
    BY <1>2, <1>4, <2>3
  <2>4. CASE i = Len(s) + 1 /\ j = Len(s) + 1
    BY <2>4
  <2> QED BY <1>1, <2>1, <2>2, <2>3, <2>4
<1>6. Range(t) = Range(s) \cup {e}
  <2>1. \A j \in 1 .. Len(s) + 1 : t[j] \in Range(s) \cup {e}
    <3> TAKE j \in 1 .. Len(s) + 1
    <3>1. CASE j \in 1 .. Len(s)
      BY <1>1, <1>2, <3>1 DEF Range
    <3>2. CASE j = Len(s) + 1
      BY <1>2, <3>2
    <3> QED BY <1>1, <3>1, <3>2
  <2>2. \A j \in 1 .. Len(s) : s[j] \in Range(t)
    <3> TAKE j \in 1 .. Len(s)
    <3>1. j \in DOMAIN t
      BY <1>1, <1>3
    <3> QED BY <1>2, <3>1 DEF Range
  <2>3. e \in Range(t)
    <3>1. Len(s) + 1 \in DOMAIN t
      BY <1>1, <1>3
    <3> QED BY <1>2, <3>1 DEF Range
  <2> QED BY <1>1, <1>3, <2>1, <2>2, <2>3 DEF Range
<1>7. t # <<>>
  BY <1>1, <1>2
<1>8. ASSUME s # <<>>
      PROVE  Head(t) = Head(s)
  <2>1. Head(t) = t[1] /\ Head(s) = s[1]
    BY <1>2, <1>7, <1>8, HeadTailProperties
  <2>2. 1 \in 1 .. Len(s)
    BY <1>1, <1>8, EmptySeq
  <2> QED BY <1>2, <2>1, <2>2
<1> QED BY <1>2, <1>5, <1>6, <1>7, <1>8 DEF t

LEMMA DomainOfSeq ==
  ASSUME NEW S, NEW q \in Seq(S)
  PROVE  /\ Len(q) \in Nat /\ DOMAIN q = 1 .. Len(q)
         /\ \A k \in DOMAIN q : k \in Nat /\ k >= 1 /\ k <= Len(q) /\ q[k] \in S
BY LenProperties, ElementOfSeq

LEMMA AppendElements ==
  ASSUME NEW S, NEW q \in Seq(S), NEW e \in S
  PROVE  /\ Append(q, e) \in Seq(S)
         /\ Len(Append(q, e)) = Len(q) + 1
         /\ \A k \in DOMAIN q : k \in DOMAIN Append(q, e) /\ Append(q, e)[k] = q[k]
         /\ \A k \in DOMAIN Append(q, e) :
              k \in DOMAIN q \/ (k = Len(q) + 1 /\ Append(q, e)[k] = e)
         /\ Len(q) + 1 \in DOMAIN Append(q, e) /\ Append(q, e)[Len(q) + 1] = e
<1>1. /\ Append(q, e) \in Seq(S) /\ Len(Append(q, e)) = Len(q) + 1
      /\ \A i \in 1 .. Len(q) : Append(q, e)[i] = q[i]
      /\ Append(q, e)[Len(q) + 1] = e
  BY AppendProperties
<1>2. Len(q) \in Nat /\ DOMAIN q = 1 .. Len(q)
      /\ DOMAIN Append(q, e) = 1 .. Len(q) + 1
  BY <1>1, LenProperties
<1> QED BY <1>1, <1>2

LEMMA TailElements ==
  ASSUME NEW S, NEW q \in Seq(S), q # <<>>
  PROVE  /\ Tail(q) \in Seq(S)
         /\ 1 \in DOMAIN q /\ Head(q) = q[1] /\ Head(q) \in S
         /\ \A k \in DOMAIN Tail(q) : k + 1 \in DOMAIN q /\ Tail(q)[k] = q[k + 1]
         /\ \A k \in DOMAIN q : k # 1 => k - 1 \in DOMAIN Tail(q)
<1>1. /\ Head(q) \in S /\ Tail(q) \in Seq(S) /\ Head(q) = q[1]
      /\ Len(Tail(q)) = Len(q) - 1
      /\ \A i \in 1 .. Len(Tail(q)) : Tail(q)[i] = q[i + 1]
  BY HeadTailProperties
<1>2. Len(q) \in Nat /\ Len(q) # 0 /\ DOMAIN q = 1 .. Len(q)
      /\ DOMAIN Tail(q) = 1 .. Len(q) - 1
  BY <1>1, LenProperties, EmptySeq
<1> QED BY <1>1, <1>2

LEMMA TailQueue ==
  ASSUME NEW S, NEW q \in Seq(S), q # <<>>, IsInjective(q)
  PROVE  /\ Tail(q) \in Seq(S)
         /\ IsInjective(Tail(q))
         /\ Range(Tail(q)) = Range(q) \ {Head(q)}
<1>1. /\ Tail(q) \in Seq(S)
      /\ 1 \in DOMAIN q /\ Head(q) = q[1]
      /\ \A k \in DOMAIN Tail(q) : k + 1 \in DOMAIN q /\ Tail(q)[k] = q[k + 1]
      /\ \A k \in DOMAIN q : k # 1 => k - 1 \in DOMAIN Tail(q)
  BY TailElements
<1>2. /\ \A k \in DOMAIN q : k \in Nat /\ k >= 1
      /\ \A k \in DOMAIN Tail(q) : k \in Nat /\ k >= 1
  BY <1>1, DomainOfSeq
<1>3. \A i, j \in DOMAIN q : q[i] = q[j] => i = j
  BY DEF IsInjective
<1>4. IsInjective(Tail(q))
  BY <1>1, <1>2, <1>3 DEF IsInjective
<1>5. ASSUME NEW k \in DOMAIN Tail(q) PROVE Tail(q)[k] \in Range(q) \ {Head(q)}
  <2>1. k + 1 \in DOMAIN q /\ k + 1 # 1
    BY <1>1, <1>2
  <2> QED BY <1>1, <1>3, <2>1 DEF Range
<1>6. ASSUME NEW k \in DOMAIN q, q[k] # Head(q) PROVE q[k] \in Range(Tail(q))
  <2>1. k - 1 \in DOMAIN Tail(q) /\ k - 1 + 1 = k
    BY <1>1, <1>2, <1>6
  <2> QED BY <1>1, <2>1 DEF Range
<1>7. Range(Tail(q)) \subseteq Range(q) \ {Head(q)}
  BY <1>5 DEF Range
<1>8. Range(q) \ {Head(q)} \subseteq Range(Tail(q))
  BY <1>6 DEF Range
<1> QED BY <1>1, <1>4, <1>7, <1>8

LEMMA ConcatAppend ==
  ASSUME NEW S, NEW q \in Seq(S), NEW r \in Seq(S), NEW e \in S
  PROVE  q \o Append(r, e) = Append(q \o r, e)
<1>1. Append(r, e) = r \o <<e>> /\ <<e>> \in Seq(S) /\ q \o r \in Seq(S)
  BY AppendIsConcat, ConcatProperties, IsASeq
<1>2. Append(q \o r, e) = (q \o r) \o <<e>>
  BY <1>1, AppendIsConcat
<1> QED BY <1>1, <1>2, ConcatAssociative

LEMMA ConcatElements ==
  ASSUME NEW S, NEW q \in Seq(S), NEW r \in Seq(S)
  PROVE  /\ q \o r \in Seq(S)
         /\ \A k \in DOMAIN q : k \in DOMAIN (q \o r) /\ (q \o r)[k] = q[k]
         /\ \A k \in DOMAIN r : /\ Len(q) + k \in DOMAIN (q \o r) \ DOMAIN q
                                /\ (q \o r)[Len(q) + k] = r[k]
         /\ \A k \in DOMAIN (q \o r) \ DOMAIN q :
              /\ k - Len(q) \in DOMAIN r /\ (q \o r)[k] = r[k - Len(q)]
<1>1. /\ q \o r \in Seq(S)
      /\ Len(q \o r) = Len(q) + Len(r)
      /\ \A i \in 1 .. Len(q) + Len(r) :
           (q \o r)[i] = IF i <= Len(q) THEN q[i] ELSE r[i - Len(q)]
  BY ConcatProperties
<1>2. /\ Len(q) \in Nat /\ Len(r) \in Nat
      /\ DOMAIN q = 1 .. Len(q) /\ DOMAIN r = 1 .. Len(r)
      /\ DOMAIN (q \o r) = 1 .. Len(q) + Len(r)
  BY <1>1, LenProperties
<1>3. ASSUME NEW k \in DOMAIN q
      PROVE  k \in DOMAIN (q \o r) /\ (q \o r)[k] = q[k]
  BY <1>1, <1>2
<1>4. ASSUME NEW k \in DOMAIN r
      PROVE  /\ Len(q) + k \in DOMAIN (q \o r) \ DOMAIN q
             /\ (q \o r)[Len(q) + k] = r[k]
  <2>1. Len(q) + k \in 1 .. Len(q) + Len(r) /\ ~(Len(q) + k <= Len(q))
        /\ Len(q) + k - Len(q) = k
    BY <1>2
  <2>2. (q \o r)[Len(q) + k] = r[Len(q) + k - Len(q)]
    BY <1>1, <2>1
  <2> QED BY <1>2, <2>1, <2>2
<1>5. ASSUME NEW k \in DOMAIN (q \o r) \ DOMAIN q
      PROVE  k - Len(q) \in DOMAIN r /\ (q \o r)[k] = r[k - Len(q)]
  <2>1. k \in 1 .. Len(q) + Len(r) /\ ~(k <= Len(q)) /\ k - Len(q) \in 1 .. Len(r)
    BY <1>2
  <2> QED BY <1>1, <1>2, <2>1
<1> QED BY <1>1, <1>3, <1>4, <1>5

\* Moving the head of r to the end of q leaves the two together as they were.
LEMMA ConcatMoveHead ==
  ASSUME NEW S, NEW q \in Seq(S), NEW r \in Seq(S), r # <<>>
  PROVE  Append(q, Head(r)) \o Tail(r) = q \o r
<1> DEFINE first == <<Head(r)>>
<1>1. /\ Head(r) \in S /\ Head(r) = r[1] /\ Tail(r) \in Seq(S)
      /\ Len(Tail(r)) = Len(r) - 1
      /\ \A i \in 1 .. Len(Tail(r)) : Tail(r)[i] = r[i + 1]
  BY HeadTailProperties
<1>2. first \in Seq(S) /\ Len(first) = 1 /\ first[1] = r[1]
  BY <1>1
<1>3. Append(q, Head(r)) = q \o first
  BY <1>1, AppendIsConcat
<1> DEFINE rest == Tail(r)
<1> HIDE DEF first
<1>4. Len(r) \in Nat /\ Len(r) >= 1
  BY LenProperties, EmptySeq
<1>5. /\ first \o Tail(r) \in Seq(S)
      /\ Len(first \o Tail(r)) = Len(r)
      /\ \A i \in 1 .. Len(r) :
           (first \o Tail(r))[i] = IF i <= 1 THEN first[i] ELSE Tail(r)[i - 1]
  <2>1. Len(first) + Len(Tail(r)) = Len(r)
    BY <1>1, <1>2, <1>4
  <2>2. /\ first \o Tail(r) \in Seq(S)
        /\ Len(first \o Tail(r)) = Len(first) + Len(Tail(r))
        /\ \A i \in 1 .. Len(first) + Len(Tail(r)) :
             (first \o Tail(r))[i] = IF i <= Len(first) THEN first[i]
                                    ELSE Tail(r)[i - Len(first)]
    <3>1. rest \in Seq(S)
      BY <1>1
    <3> HIDE DEF rest
    <3>2. /\ first \o rest \in Seq(S)
          /\ Len(first \o rest) = Len(first) + Len(rest)
          /\ \A i \in 1 .. Len(first) + Len(rest) :
               (first \o rest)[i] = IF i <= Len(first) THEN first[i]
                                    ELSE rest[i - Len(first)]
      BY <1>2, <3>1, ConcatProperties
    <3> QED BY <3>2 DEF rest
  <2> QED BY <1>2, <2>1, <2>2
<1>6. ASSUME NEW i \in 1 .. Len(r) PROVE (first \o Tail(r))[i] = r[i]
  <2>1. CASE i = 1
    BY <1>2, <1>5, <2>1
  <2>2. CASE i # 1
    <3>1. i - 1 \in 1 .. Len(Tail(r)) /\ ~(i <= 1) /\ i - 1 + 1 = i
      BY <1>1, <1>4, <2>2
    <3>2. Tail(r)[i - 1] = r[i]
      BY <1>1, <3>1
    <3> QED BY <1>5, <3>1, <3>2
  <2> QED BY <2>1, <2>2
<1>7. first \o Tail(r) = r
  BY <1>4, <1>5, <1>6, SeqEqual
<1>8. (q \o first) \o Tail(r) = q \o (first \o Tail(r))
  <2>1. rest \in Seq(S)
    BY <1>1
  <2> HIDE DEF rest
  <2>2. (q \o first) \o rest = q \o (first \o rest)
    BY <1>2, <2>1, ConcatAssociative
  <2> QED BY <2>2 DEF rest
<1> QED BY <1>3, <1>7, <1>8

\* The head of two sequences in a row is that of the first.
LEMMA ConcatHeadTail ==
  ASSUME NEW T, NEW q \in Seq(T), NEW r \in Seq(T), q # <<>>
  PROVE  /\ q \o r \in Seq(T) /\ q \o r # <<>>
         /\ Head(q \o r) = Head(q) /\ Tail(q \o r) = Tail(q) \o r
<1>1. /\ <<>> \in Seq(T) /\ Tail(q) \in Seq(T) /\ Head(q) \in T
      /\ <<Head(q)>> \in Seq(T) /\ Append(<<>>, Head(q)) = <<Head(q)>>
  BY EmptySeq, TailElements, IsASeq
<1>2. Append(<<>>, Head(q)) \o Tail(q) = <<>> \o q
  BY <1>1, ConcatMoveHead
<1>3. q = <<Head(q)>> \o Tail(q)
  BY <1>1, <1>2, ConcatEmptySeq
<1> DEFINE h == Head(q)
           u == Tail(q) \o r
           v == <<h>> \o u
<1>4. u \in Seq(T) /\ h \in T /\ <<h>> \in Seq(T) /\ Len(<<h>>) = 1 /\ <<h>>[1] = h
  BY <1>1, ConcatProperties
<1>5. q \o r = v
  BY <1>1, <1>3, ConcatAssociative
<1> HIDE DEF u
<1>6. /\ v \in Seq(T) /\ Len(v) = 1 + Len(u) /\ Len(u) \in Nat
      /\ \A i \in 1 .. 1 + Len(u) : v[i] = IF i <= 1 THEN <<h>>[i] ELSE u[i - 1]
  BY <1>4, ConcatProperties, LenProperties
<1> HIDE DEF v
<1>7. v # <<>> /\ Head(v) = v[1] /\ v[1] = h
  BY <1>4, <1>6
<1>8. /\ Tail(v) \in Seq(T) /\ Len(Tail(v)) = Len(u)
      /\ \A i \in 1 .. Len(u) : Tail(v)[i] = u[i]
  <2>1. /\ Tail(v) \in Seq(T) /\ Len(Tail(v)) = Len(v) - 1
        /\ \A i \in 1 .. Len(Tail(v)) : Tail(v)[i] = v[i + 1]
    BY <1>6, <1>7, HeadTailProperties
  <2>2. Len(Tail(v)) = Len(u)
    BY <1>6, <2>1
  <2>3. ASSUME NEW i \in 1 .. Len(u) PROVE Tail(v)[i] = u[i]
    <3>1. i + 1 \in 1 .. 1 + Len(u) /\ ~(i + 1 <= 1) /\ i + 1 - 1 = i
      BY <1>6
    <3>2. Tail(v)[i] = v[i + 1]
      BY <2>1, <2>2
    <3> QED BY <1>6, <3>1, <3>2
  <2> QED BY <2>1, <2>2, <2>3
<1>9. Tail(v) = u
  BY <1>4, <1>8, SeqEqual
<1> QED BY <1>5, <1>6, <1>7, <1>9 DEF u

\* Induction over the natural numbers: a counterexample has a first one.
LEMMA SmallestOf ==
  ASSUME NEW T, T \subseteq Nat, T # {}
  PROVE  \E n \in T : \A m \in T : n <= m
<1> DEFINE R == {ss \in Nat \X Nat : ss[1] < ss[2]}
<1>1. IsWellFoundedOn(R, Nat)
  BY NatLessThanWellFounded DEF OpToRel
<1>2. PICK n \in T : \A m \in T : ~(<<m, n>> \in R)
  <2> HIDE DEF R
  <2> QED BY <1>1, WFMin
<1>3. \A m \in T : m \in Nat /\ n \in Nat /\ ~(m < n)
  BY <1>2
<1>4. \A m \in T : n <= m
  BY <1>3
<1> QED BY <1>4

LEMMA LargestOf ==
  ASSUME NEW n \in Nat, NEW T \in SUBSET (1 .. n), T # {}
  PROVE  Max(T) \in T
<1> DEFINE U == {k \in Nat : n - k \in T}
<1>1. \A x \in T : x \in Nat /\ n - x \in Nat /\ n - (n - x) = x
  OBVIOUS
<1>2. U # {}
  <2>1. PICK x \in T : TRUE
    OBVIOUS
  <2>2. n - x \in U
    BY <1>1
  <2> QED BY <2>2
<1>3. PICK k \in U : \A m \in U : k <= m
  BY <1>2, SmallestOf
<1>4. n - k \in T
  OBVIOUS
<1>5. \A y \in T : n - k >= y
  <2> TAKE y \in T
  <2>1. n - y \in U
    BY <1>1
  <2>2. k <= n - y /\ k \in Nat
    BY <1>3, <2>1
  <2> QED BY <1>1, <2>2
<1>6. \E x \in T : \A y \in T : x >= y
  BY <1>4, <1>5
<1> HIDE DEF U
<1> QED BY <1>6 DEF Max

LEMMA MaxOf ==
  ASSUME NEW j \in Nat, j # 0
  PROVE  Max(1 .. j) = j
<1>1. j \in 1 .. j /\ \A x \in 1 .. j : j >= x
  OBVIOUS
<1>2. \A x \in 1 .. j : (\A y \in 1 .. j : x >= y) => x = j
  BY <1>1
<1> QED BY <1>1, <1>2 DEF Max

\* g does what is asked of a recursive function, on the part D of its domain.
Recurses(g, D, stop, first, next, step) ==
  \A x \in D : g[x] = IF x \in stop THEN first[x] ELSE step[<<x, g[next[x]]>>]

(* A recursive function exists, when a rank falls with every recursive     *)
(* call; CHOOSE in the definition of a fold then finds it.                 *)
LEMMA Recursion ==
  ASSUME NEW S, NEW X, NEW stop,
         NEW rank \in [S -> Nat], NEW next \in [S -> S],
         NEW first \in [S -> X], NEW step \in [S \X X -> X],
         \A x \in S \ stop : rank[next[x]] < rank[x]
  PROVE  \E g \in [S -> X] : Recurses(g, S, stop, first, next, step)
<1> DEFINE Below(n) == {x \in S : rank[x] < n}
           Parts(n) == {h \in [Below(n) -> X] : Recurses(h, Below(n), stop, first, next, step)}
           T == {n \in Nat : Parts(n) = {}}
<1>0. \A x \in S : rank[x] \in Nat /\ next[x] \in S
  OBVIOUS
<1>1. Parts(0) # {}
  <2>1. Below(0) = {}
    BY <1>0
  <2>2. [x \in Below(0) |-> first[x]] \in Parts(0)
    BY <2>1 DEF Recurses
  <2> QED BY <2>2
<1>2. ASSUME NEW n \in Nat, Parts(n) # {}
      PROVE  Parts(n + 1) # {}
  <2>1. PICK h \in [Below(n) -> X] : Recurses(h, Below(n), stop, first, next, step)
    BY <1>2
  <2> DEFINE k == [x \in Below(n + 1) |->
                     IF x \in stop THEN first[x] ELSE step[<<x, h[next[x]]>>]]
  <2>2. \A x \in Below(n + 1) : x \notin stop => next[x] \in Below(n)
    BY <1>0
  <2>3. \A x \in Below(n) : x \in Below(n + 1)
    BY <1>0
  <2>4. \A x \in Below(n) : k[x] = h[x]
    BY <2>1, <2>3 DEF Recurses
  <2>5. k \in [Below(n + 1) -> X]
    <3>1. ASSUME NEW x \in Below(n + 1), x \notin stop PROVE step[<<x, h[next[x]]>>] \in X
      BY <2>1, <2>2, <3>1
    <3> QED BY <3>1
  <2>6. \A x \in Below(n + 1) :
          k[x] = IF x \in stop THEN first[x] ELSE step[<<x, k[next[x]]>>]
    BY <2>2, <2>4
  <2>7. k \in Parts(n + 1)
    BY <2>5, <2>6 DEF Recurses
  <2> QED BY <2>7
<1>3. \A n \in Nat : Parts(n) # {}
  <2> HIDE DEF Parts
  <2>1. SUFFICES ASSUME T # {} PROVE FALSE
    OBVIOUS
  <2>2. PICK n \in T : \A m \in T : n <= m
    BY <2>1, SmallestOf
  <2>3. n # 0
    BY <1>1, <2>2
  <2>4. n - 1 \in Nat /\ n - 1 \notin T
    BY <2>2, <2>3
  <2>5. Parts(n - 1 + 1) # {}
    BY <1>2, <2>4
  <2> QED BY <2>2, <2>5
<1>4. ASSUME NEW n \in Nat, NEW m \in Nat, NEW h \in Parts(n), NEW k \in Parts(m),
             NEW x \in Below(n) \cap Below(m)
      PROVE  h[x] = k[x]
  <2> DEFINE U == {r \in Nat : \E y \in Below(n) \cap Below(m) : rank[y] = r /\ h[y] # k[y]}
  <2>1. SUFFICES ASSUME U # {} PROVE FALSE
    BY <1>0
  <2>2. PICK r \in U : \A q \in U : r <= q
    BY <2>1, SmallestOf
  <2>3. PICK y \in Below(n) \cap Below(m) : rank[y] = r /\ h[y] # k[y]
    BY <2>2
  <2>4. /\ h[y] = IF y \in stop THEN first[y] ELSE step[<<y, h[next[y]]>>]
        /\ k[y] = IF y \in stop THEN first[y] ELSE step[<<y, k[next[y]]>>]
    BY DEF Recurses
  <2>5. y \notin stop /\ h[next[y]] # k[next[y]]
    BY <2>3, <2>4
  <2>6. rank[next[y]] < rank[y] /\ next[y] \in Below(n) \cap Below(m)
    BY <1>0, <2>5
  <2>7. rank[next[y]] \in U
    BY <1>0, <2>5, <2>6
  <2> QED BY <1>0, <2>2, <2>3, <2>6, <2>7
<1> DEFINE part(n) == CHOOSE h \in Parts(n) : TRUE
           g == [x \in S |-> part(rank[x] + 1)[x]]
<1>5. \A n \in Nat : part(n) \in Parts(n)
  <2> HIDE DEF Parts
  <2> QED BY <1>3
<1>6. \A n \in Nat : part(n) \in [Below(n) -> X] /\ Recurses(part(n), Below(n), stop, first, next, step)
  BY <1>5
<1> HIDE DEF part
<1>7. \A n \in Nat : \A x \in Below(n) : g[x] = part(n)[x]
  <2> TAKE n \in Nat
  <2> TAKE x \in Below(n)
  <2>1. rank[x] + 1 \in Nat /\ x \in Below(rank[x] + 1)
    BY <1>0
  <2> HIDE DEF Parts, Below
  <2>2. part(rank[x] + 1)[x] = part(n)[x]
    BY <1>4, <1>5, <2>1
  <2>3. x \in S
    BY DEF Below
  <2> QED BY <2>2, <2>3
<1>8. g \in [S -> X]
  <2>1. ASSUME NEW x \in S PROVE part(rank[x] + 1)[x] \in X
    <3>1. rank[x] + 1 \in Nat /\ x \in Below(rank[x] + 1)
      BY <1>0
    <3> QED BY <1>6, <3>1
  <2> QED BY <2>1
<1>9. Recurses(g, S, stop, first, next, step)
  <2>1. SUFFICES ASSUME NEW x \in S
                 PROVE  g[x] = IF x \in stop THEN first[x] ELSE step[<<x, g[next[x]]>>]
    BY DEF Recurses
  <2> DEFINE n == rank[x] + 1
  <2>2. n \in Nat /\ x \in Below(n)
    BY <1>0
  <2>3. part(n)[x] = IF x \in stop THEN first[x] ELSE step[<<x, part(n)[next[x]]>>]
    BY <1>6, <2>2 DEF Recurses
  <2>4. x \notin stop => next[x] \in Below(n)
    BY <1>0
  <2> HIDE DEF g, n, Below
  <2> QED BY <1>7, <2>2, <2>3, <2>4
<1> HIDE DEF g
<1> QED BY <1>8, <1>9

LEMMA MinOf ==
  ASSUME NEW i \in Int, NEW j \in Int, i <= j
  PROVE  Min(i .. j) = i
<1>1. i \in i .. j /\ \A x \in i .. j : i <= x
  OBVIOUS
<1>2. \A x \in i .. j : (\A y \in i .. j : x <= y) => x = i
  BY <1>1
<1> QED BY <1>1, <1>2 DEF Min

\* The elements of two sequences, one after the other
LEMMA ConcatParts ==
  ASSUME NEW S, NEW a \in Seq(S), NEW b \in Seq(S)
  PROVE  /\ a \o b \in Seq(S) /\ Len(a \o b) = Len(a) + Len(b)
         /\ \A j \in 1 .. Len(a) : (a \o b)[j] = a[j]
         /\ \A j \in 1 .. Len(b) : (a \o b)[Len(a) + j] = b[j]
OBVIOUS

\* u[i] is the first i sequences of q, one after the other.
Joins(q, u, S) ==
  /\ u \in [0 .. Len(q) -> Seq(S)]
  /\ u[0] = <<>>
  /\ \A i \in 1 .. Len(q) : u[i] = u[i - 1] \o q[i]

LEMMA FlattenJoins ==
  ASSUME NEW S, NEW q \in Seq(Seq(S))
  PROVE  \E u : Joins(q, u, S) /\ FlattenSeq(q) = u[Len(q)]
<1> DEFINE n == Len(q)
           D == 1 .. n
           rank == [i \in D |-> i]
           next == [i \in D |-> IF i = 1 THEN i ELSE i - 1]
           first == [i \in D |-> q[i]]
           step == [x \in D \X Seq(S) |-> x[2] \o q[x[1]]]
           body(g) == [i \in D |-> IF i = 1 THEN q[i] ELSE g[i - 1] \o q[i]]
<1>1. n \in Nat /\ \A i \in D : q[i] \in Seq(S)
  BY LenProperties, ElementOfSeq
<1>2. CASE n = 0
  <2>1. q = <<>> /\ FlattenSeq(q) = <<>>
    <3>1. q = <<>>
      BY <1>2, EmptySeq
    <3>2. FlattenSeq(q) = q
      BY <1>2 DEF FlattenSeq
    <3> QED BY <3>1, <3>2
  <2>2. [i \in 0 .. 0 |-> <<>>] \in [0 .. 0 -> Seq(S)]
    OBVIOUS
  <2>3. Joins(q, [i \in 0 .. 0 |-> <<>>], S)
    BY <1>2, <2>2 DEF Joins
  <2> QED BY <1>2, <2>1, <2>3
<1>3. CASE n # 0
  <2>1. rank \in [D -> Nat] /\ first \in [D -> Seq(S)]
    BY <1>1
  <2>2. next \in [D -> D] /\ \A i \in D \ {1} : rank[next[i]] < rank[i]
    BY <1>1
  <2>3. step \in [D \X Seq(S) -> Seq(S)]
    <3>1. \A i \in D, s \in Seq(S) : s \o q[i] \in Seq(S)
      BY <1>1, ConcatProperties
    <3> HIDE DEF D
    <3> QED BY <3>1
  <2>4. PICK g \in [D -> Seq(S)] : Recurses(g, D, {1}, first, next, step)
    <3> HIDE DEF D, rank, next, first, step
    <3> QED BY <2>1, <2>2, <2>3, Recursion
  <2>5. g = body(g)
    <3>1. ASSUME NEW i \in D
          PROVE  g[i] = IF i = 1 THEN q[i] ELSE g[i - 1] \o q[i]
      <4>1. g[i] = IF i \in {1} THEN first[i] ELSE step[<<i, g[next[i]]>>]
        BY <2>4 DEF Recurses
      <4>2. CASE i = 1
        BY <4>1, <4>2
      <4>3. CASE i # 1
        <5>1. next[i] = i - 1 /\ i - 1 \in D
          BY <1>1, <4>3
        <5>2. step[<<i, g[i - 1]>>] = g[i - 1] \o q[i]
          BY <2>4, <5>1
        <5> HIDE DEF next, first, step, D
        <5> QED BY <4>1, <4>3, <5>1, <5>2
      <4> QED BY <4>2, <4>3
    <3> QED BY <2>4, <3>1
  <2> DEFINE f == CHOOSE h : h = body(h)
  <2>6. f = body(f)
    <3> HIDE DEF body
    <3> QED BY <2>5
  <2>7. FlattenSeq(q) = f[n]
    BY <1>3 DEF FlattenSeq
  <2> HIDE DEF f
  <2>8. f[1] = q[1] /\ \A i \in 2 .. n : f[i] = f[i - 1] \o q[i]
    <3>1. \A i \in D : f[i] = IF i = 1 THEN q[i] ELSE f[i - 1] \o q[i]
      BY <2>6
    <3>2. 1 \in D /\ \A i \in 2 .. n : i \in D /\ i # 1
      BY <1>1, <1>3
    <3> HIDE DEF D
    <3> QED BY <3>1, <3>2
  <2>9. \A i \in D : f[i] \in Seq(S)
    <3> DEFINE T == {i \in D : f[i] \notin Seq(S)}
    <3>1. SUFFICES ASSUME T # {} PROVE FALSE
      OBVIOUS
    <3>2. PICK i \in D : f[i] \notin Seq(S) /\ \A j \in D : f[j] \notin Seq(S) => i <= j
      <4>1. T \subseteq Nat
        BY <1>1
      <4>2. PICK i \in T : \A j \in T : i <= j
        BY <3>1, <4>1, SmallestOf
      <4> QED BY <4>2
    <3>3. i # 1
      BY <1>1, <2>8, <3>2
    <3>4. i - 1 \in D /\ ~(i <= i - 1) /\ i \in 2 .. n
      BY <1>1, <3>2, <3>3
    <3>5. f[i - 1] \in Seq(S)
      BY <3>2, <3>4
    <3>6. f[i] = f[i - 1] \o q[i] /\ q[i] \in Seq(S)
      BY <1>1, <2>8, <3>4
    <3>7. f[i] \in Seq(S)
      BY <3>5, <3>6, ConcatProperties
    <3> QED BY <3>2, <3>7
  <2> DEFINE u == [i \in 0 .. n |-> IF i = 0 THEN <<>> ELSE f[i]]
  <2>10. u[0] = <<>> /\ \A i \in D : u[i] = f[i]
    BY <1>1
  <2>11. u \in [0 .. n -> Seq(S)]
    <3>1. \A i \in 0 .. n : i = 0 \/ i \in D
      BY <1>1
    <3> QED BY <2>9, <2>10, <3>1
  <2> HIDE DEF u
  <2>12. ASSUME NEW i \in D PROVE u[i] = u[i - 1] \o q[i]
    <3>1. CASE i = 1
      <4>1. u[i] = q[i] /\ u[i - 1] = <<>> /\ q[i] \in Seq(S)
        BY <1>1, <2>8, <2>10, <3>1
      <4> QED BY <4>1, ConcatEmptySeq
    <3>2. CASE i # 1
      <4>1. i - 1 \in D /\ i \in 2 .. n
        BY <1>1, <3>2
      <4> QED BY <2>8, <2>10, <4>1
    <3> QED BY <3>1, <3>2
  <2>13. Joins(q, u, S)
    BY <2>10, <2>11, <2>12 DEF Joins
  <2>14. u[n] = f[n]
    BY <1>1, <1>3, <2>10
  <2> QED BY <2>7, <2>13, <2>14
<1> QED BY <1>2, <1>3

LEMMA JoinsUnique ==
  ASSUME NEW S, NEW q \in Seq(Seq(S)), NEW u, Joins(q, u, S), NEW w, Joins(q, w, S)
  PROVE  u[Len(q)] = w[Len(q)]
<1> DEFINE n == Len(q)
           T == {i \in 0 .. n : u[i] # w[i]}
<1>0. n \in Nat
  BY LenProperties
<1>1. SUFFICES ASSUME T # {} PROVE FALSE
  BY <1>0
<1>2. PICK i \in 0 .. n : u[i] # w[i] /\ \A j \in 0 .. n : u[j] # w[j] => i <= j
  <2>1. T \subseteq Nat
    BY <1>0
  <2>2. PICK i \in T : \A j \in T : i <= j
    BY <1>1, <2>1, SmallestOf
  <2> QED BY <2>2
<1>3. i # 0
  BY <1>2 DEF Joins
<1>4. i \in 1 .. n /\ i - 1 \in 0 .. n /\ ~(i <= i - 1)
  BY <1>0, <1>2, <1>3
<1>5. u[i - 1] = w[i - 1]
  BY <1>2, <1>4
<1>6. u[i] = u[i - 1] \o q[i] /\ w[i] = w[i - 1] \o q[i]
  BY <1>4 DEF Joins
<1> QED BY <1>2, <1>5, <1>6

LEMMA FlattenEmpty == FlattenSeq(<<>>) = <<>>
BY DEF FlattenSeq

LEMMA FlattenType ==
  ASSUME NEW S, NEW q \in Seq(Seq(S))
  PROVE  FlattenSeq(q) \in Seq(S)
<1>1. PICK u : Joins(q, u, S) /\ FlattenSeq(q) = u[Len(q)]
  BY FlattenJoins
<1>2. Len(q) \in 0 .. Len(q)
  BY LenProperties
<1> QED BY <1>1, <1>2 DEF Joins

LEMMA FlattenAppend ==
  ASSUME NEW S, NEW q \in Seq(Seq(S)), NEW s \in Seq(S)
  PROVE  FlattenSeq(Append(q, s)) = FlattenSeq(q) \o s
<1> DEFINE n == Len(q)
           r == Append(q, s)
<1>0. n \in Nat
  BY LenProperties
<1>1. PICK u : Joins(q, u, S) /\ FlattenSeq(q) = u[n]
  BY FlattenJoins
<1>2. r \in Seq(Seq(S)) /\ Len(r) = n + 1 /\ r[n + 1] = s /\ \A i \in 1 .. n : r[i] = q[i]
  OBVIOUS
<1> DEFINE w == [i \in 0 .. n + 1 |-> IF i = n + 1 THEN u[n] \o s ELSE u[i]]
<1>3. w[n + 1] = u[n] \o s /\ \A i \in 0 .. n : w[i] = u[i]
  BY <1>0
<1>4. \A i \in 0 .. n : u[i] \in Seq(S)
  BY <1>1 DEF Joins
<1>5. u[n] \o s \in Seq(S)
  BY <1>0, <1>4, ConcatProperties
<1>6. w \in [0 .. n + 1 -> Seq(S)]
  BY <1>4, <1>5
<1> HIDE DEF w, r
<1>7. Joins(r, w, S)
  <2>1. ASSUME NEW i \in 1 .. n + 1 PROVE w[i] = w[i - 1] \o r[i]
    <3>1. CASE i = n + 1
      <4>1. i - 1 = n /\ n \in 0 .. n
        BY <1>0, <3>1
      <4> QED BY <1>2, <1>3, <3>1, <4>1
    <3>2. CASE i # n + 1
      <4>1. i \in 1 .. n /\ i - 1 \in 0 .. n /\ i \in 0 .. n
        BY <1>0, <3>2
      <4> QED BY <1>1, <1>2, <1>3, <4>1 DEF Joins
    <3> QED BY <3>1, <3>2
  <2>2. w[0] = <<>>
    <3>1. 0 \in 0 .. n
      BY <1>0
    <3> QED BY <1>1, <1>3, <3>1 DEF Joins
  <2> QED BY <1>2, <1>6, <2>1, <2>2 DEF Joins
<1>8. PICK v : Joins(r, v, S) /\ FlattenSeq(r) = v[Len(r)]
  BY <1>2, FlattenJoins
<1>9. v[Len(r)] = w[Len(r)]
  BY <1>2, <1>7, <1>8, JoinsUnique
<1> QED BY <1>1, <1>2, <1>3, <1>8, <1>9 DEF r

LEMMA Associative ==
  ASSUME NEW S, NEW a \in Seq(S), NEW b \in Seq(S), NEW c \in Seq(S)
  PROVE  (a \o b) \o c = a \o (b \o c)
BY ConcatAssociative

LEMMA FlattenHead ==
  ASSUME NEW S, NEW q \in Seq(Seq(S)), q # <<>>
  PROVE  FlattenSeq(q) = Head(q) \o FlattenSeq(Tail(q))
<1> DEFINE r == Tail(q)
           n == Len(r)
<1>1. /\ Head(q) \in Seq(S) /\ r \in Seq(Seq(S)) /\ n = Len(q) - 1
      /\ \A i \in 1 .. n : r[i] = q[i + 1]
      /\ Head(q) = q[1]
  BY HeadTailProperties
<1>0. n \in Nat /\ Len(q) = n + 1
  BY <1>1, LenProperties
<1>2. PICK u : Joins(r, u, S) /\ FlattenSeq(r) = u[n]
  BY <1>1, FlattenJoins
<1>3. PICK h \in Seq(S) : h = Head(q)
  BY <1>1
<1> DEFINE w == [i \in 0 .. n + 1 |-> IF i = 0 THEN <<>> ELSE h \o u[i - 1]]
<1>4. w[0] = <<>> /\ \A i \in 1 .. n + 1 : w[i] = h \o u[i - 1]
  <2>1. n \in Nat
    BY <1>0
  <2> HIDE DEF n, r
  <2>2. 0 \in 0 .. n + 1 /\ \A i \in 1 .. n + 1 : i \in 0 .. n + 1 /\ i # 0
    BY <2>1
  <2> QED BY <2>2
<1>5. \A i \in 0 .. n : u[i] \in Seq(S)
  BY <1>2 DEF Joins
<1>6. \A i \in 1 .. n + 1 : w[i] \in Seq(S)
  <2> TAKE i \in 1 .. n + 1
  <2>1. i - 1 \in 0 .. n
    BY <1>0
  <2>2. h \o u[i - 1] \in Seq(S)
    BY <1>5, <2>1, ConcatProperties
  <2> QED BY <1>4, <2>2
<1>7. w \in [0 .. n + 1 -> Seq(S)]
  <2>1. \A i \in 0 .. n + 1 : i = 0 \/ i \in 1 .. n + 1
    BY <1>0
  <2>2. <<>> \in Seq(S)
    OBVIOUS
  <2>3. \A i \in 0 .. n + 1 : w[i] \in Seq(S)
    <3> HIDE DEF w
    <3> QED BY <1>4, <1>6, <2>1, <2>2
  <2> QED BY <2>3
<1> HIDE DEF w, r
<1>8. Joins(q, w, S)
  <2>1. ASSUME NEW i \in 1 .. n + 1 PROVE w[i] = w[i - 1] \o q[i]
    <3>1. CASE i = 1
      <4>3. 1 \in 1 .. n + 1 /\ 1 - 1 = 0
        BY <1>0
      <4>1. w[1] = h \o <<>> /\ w[0] = <<>>
        BY <1>2, <1>4, <4>3 DEF Joins
      <4>2. h \o <<>> = h /\ <<>> \o h = h
        BY ConcatEmptySeq
      <4> QED BY <1>1, <1>3, <3>1, <4>1, <4>2, <4>3
    <3>2. CASE i # 1
      <4>1. i - 1 \in 1 .. n /\ (i - 1) - 1 \in 0 .. n /\ i - 1 \in 1 .. n + 1
            /\ (i - 1) + 1 = i
        BY <1>0, <3>2
      <4>2. u[i - 1] = u[(i - 1) - 1] \o q[i]
        BY <1>1, <1>2, <4>1 DEF Joins, n
      <4>3. w[i] = h \o u[i - 1] /\ w[i - 1] = h \o u[(i - 1) - 1]
        BY <1>4, <4>1
      <4>4. q[i] \in Seq(S)
        BY <1>0, ElementOfSeq
      <4>6. u[(i - 1) - 1] \in Seq(S)
        BY <1>5, <4>1
      <4>5. (h \o u[(i - 1) - 1]) \o q[i] = h \o (u[(i - 1) - 1] \o q[i])
        <5>1. PICK x \in Seq(S), y \in Seq(S) : x = u[(i - 1) - 1] /\ y = q[i]
          BY <4>4, <4>6
        <5>2. (h \o x) \o y = h \o (x \o y)
          BY Associative, SMTT(60)
        <5> QED BY <5>1, <5>2
      <4> QED BY <4>2, <4>3, <4>5
    <3> QED BY <3>1, <3>2
  <2> QED BY <1>0, <1>4, <1>7, <2>1 DEF Joins
<1>9. PICK v : Joins(q, v, S) /\ FlattenSeq(q) = v[Len(q)]
  BY FlattenJoins
<1>10. v[Len(q)] = w[Len(q)]
  BY <1>8, <1>9, JoinsUnique
<1>11. w[n + 1] = h \o u[n]
  <2>1. n + 1 \in 1 .. n + 1 /\ (n + 1) - 1 = n
    BY <1>0
  <2> QED BY <1>4, <2>1
<1> QED BY <1>0, <1>2, <1>3, <1>9, <1>10, <1>11 DEF r

\* What is behind the first n elements of a sequence
LEMMA Behind ==
  ASSUME NEW S, NEW s \in Seq(S), NEW n \in 0 .. Len(s)
  PROVE  /\ SubSeq(s, n + 1, Len(s)) \in Seq(S)
         /\ Len(SubSeq(s, n + 1, Len(s))) = Len(s) - n
         /\ \A j \in 1 .. Len(s) - n : SubSeq(s, n + 1, Len(s))[j] = s[n + j]
<1>1. Len(s) \in Nat /\ n \in Nat /\ n <= Len(s)
  BY LenProperties
<1>2. \A j \in n + 1 .. Len(s) : s[j] \in S
  <2>1. \A j \in n + 1 .. Len(s) : j \in 1 .. Len(s)
    BY <1>1
  <2> QED BY <2>1, ElementOfSeq
<1> DEFINE t == SubSeq(s, n + 1, Len(s))
<1>3. /\ t \in Seq(S)
      /\ Len(t) = IF n + 1 <= Len(s) THEN Len(s) - (n + 1) + 1 ELSE 0
      /\ \A j \in 1 .. Len(s) - (n + 1) + 1 : t[j] = s[n + 1 + j - 1]
  BY <1>1, <1>2, SubSeqProperties
<1> HIDE DEF t
<1>4. Len(t) = Len(s) - n /\ Len(s) - (n + 1) + 1 = Len(s) - n
  BY <1>1, <1>3
<1>5. \A j \in 1 .. Len(s) - n : n + 1 + j - 1 = n + j
  BY <1>1
<1> QED BY <1>3, <1>4, <1>5 DEF t

LEMMA Split ==
  ASSUME NEW S, NEW s \in Seq(S), NEW n \in 0 .. Len(s)
  PROVE  SubSeq(s, 1, n) \in Seq(S) /\ SubSeq(s, 1, n) \o SubSeq(s, n + 1, Len(s)) = s
<1>1. Len(s) \in Nat /\ n \in Nat /\ n <= Len(s)
  BY LenProperties
<1>2. \A j \in 1 .. n : s[j] \in S
  BY <1>1, ElementOfSeq
<1>3. SubSeq(s, 1, n) \in Seq(S)
  BY <1>1, <1>2, SubSeqProperties
<1>4. SubSeq(s, 1, n) \o SubSeq(s, n + 1, Len(s)) = SubSeq(s, 1, Len(s))
  <2>1. 1 \in 1 .. Len(s) + 1 /\ n \in 1 - 1 .. Len(s) /\ Len(s) \in n .. Len(s)
    BY <1>1
  <2> QED BY <2>1, ConcatAdjacentSubSeq
<1> QED BY <1>3, <1>4, SubSeqFull

\* Taking n elements, and m of those behind them, is taking n + m.
LEMMA BehindBehind ==
  ASSUME NEW S, NEW s \in Seq(S), NEW n \in 0 .. Len(s), NEW m \in 0 .. Len(s) - n,
         NEW t, t = SubSeq(s, n + 1, Len(s))
  PROVE  SubSeq(t, m + 1, Len(t)) = SubSeq(s, n + m + 1, Len(s))
<1>1. Len(s) \in Nat /\ n \in Nat /\ m \in Nat /\ n + m \in 0 .. Len(s) /\ m \in 0 .. Len(s) - n
      /\ n <= Len(s)
  BY LenProperties
<1>2. t \in Seq(S) /\ Len(t) = Len(s) - n /\ \A j \in 1 .. Len(s) - n : t[j] = s[n + j]
  BY Behind
<1> DEFINE a == SubSeq(t, m + 1, Len(t))
           b == SubSeq(s, n + m + 1, Len(s))
<1>3. a \in Seq(S) /\ Len(a) = Len(t) - m /\ \A j \in 1 .. Len(t) - m : a[j] = t[m + j]
  <2>1. m \in 0 .. Len(t)
    BY <1>1, <1>2
  <2> QED BY <1>2, <2>1, Behind
<1>4. PICK k \in 0 .. Len(s) : k = n + m
  BY <1>1
<1>5. b \in Seq(S) /\ Len(b) = Len(s) - k /\ \A j \in 1 .. Len(s) - k : b[j] = s[k + j]
  BY <1>4, Behind
<1> HIDE DEF a, b
<1>6. Len(a) = Len(b) /\ Len(t) - m = Len(s) - k
  BY <1>1, <1>2, <1>3, <1>4, <1>5
<1>7. ASSUME NEW j \in 1 .. Len(a) PROVE a[j] = b[j]
  <2>1. /\ j \in 1 .. Len(t) - m /\ j \in 1 .. Len(s) - k /\ m + j \in 1 .. Len(s) - n
        /\ n + (m + j) = k + j
    BY <1>1, <1>2, <1>3, <1>4, <1>6
  <2>2. a[j] = t[m + j] /\ t[m + j] = s[n + (m + j)] /\ b[j] = s[k + j]
    BY <1>2, <1>3, <1>5, <2>1
  <2> QED BY <2>1, <2>2
<1>8. a = b
  BY <1>3, <1>5, <1>6, <1>7, SeqEqual
<1> QED BY <1>8 DEF a, b

LEMMA CancelLeft ==
  ASSUME NEW S, NEW a \in Seq(S), NEW b \in Seq(S), NEW c \in Seq(S), a \o b = a \o c
  PROVE  b = c
<1>1. Len(a) \in Nat /\ Len(b) \in Nat /\ Len(c) \in Nat
  BY LenProperties
<1>2. Len(b) = Len(c)
  <2>1. Len(a) + Len(b) = Len(a) + Len(c)
    BY ConcatParts
  <2> QED BY <1>1, <2>1
<1>3. \A j \in 1 .. Len(b) : b[j] = c[j]
  <2>1. \A j \in 1 .. Len(b) : (a \o b)[Len(a) + j] = b[j] /\ (a \o c)[Len(a) + j] = c[j]
    BY <1>2, ConcatParts
  <2> QED BY <2>1
<1> QED BY <1>2, <1>3, SeqEqual
=============================================================================
