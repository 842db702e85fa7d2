----------------------------- MODULE CodecProofs -----------------------------
(***************************************************************************)
(* The two pure parts of the codec.  Framing: however the bytes of a       *)
(* stream are cut into chunks, the packets decoded are those encoded, for  *)
(* packets of any length.  Matching: Subscription.matches() answers what   *)
(* the protocol says, for patterns and topics over any set of levels.      *)
(***************************************************************************)
EXTENDS Framing, TopicMatch, SequenceLemmas

(***************************************************************************)
(* Framing.  A length on the wire is a sequence of digits, of which only   *)
(* the last is below Base: it has one end, and the number that             *)
(* decode_variable_integer makes of it is the one that was encoded.        *)
(***************************************************************************)

Bytes == 0 .. 2 * Base - 1

LEMMA Division ==
  ASSUME NEW n \in Nat
  PROVE  /\ n \div Base \in Nat
         /\ n % Base \in 0 .. Base - 1
         /\ n = (n % Base) + Base * (n \div Base)
         /\ n >= Base => n \div Base < n
<1>1. n \div Base \in Nat /\ n % Base \in 0 .. Base - 1
  BY FramingAssumption
<1>2. n = (n % Base) + Base * (n \div Base)
  BY FramingAssumption
<1>3. n >= Base => n \div Base < n
  BY FramingAssumption, <1>1, <1>2
<1> QED BY <1>1, <1>2, <1>3

LEMMA Digit ==
  ASSUME NEW d \in 0 .. Base - 1
  PROVE  d % Base = d /\ (d + Base) % Base = d /\ d \in Bytes /\ d + Base \in Bytes
<1>1. d % Base = d
  BY FramingAssumption
<1>2. (d + Base) % Base = d
  BY FramingAssumption
<1>3. d \in Bytes /\ d + Base \in Bytes
  BY FramingAssumption DEF Bytes
<1> QED BY <1>1, <1>2, <1>3

\* The loop of encode_variable_integer ends.
LEMMA VariableIntegerDef ==
  /\ VariableInteger \in [Nat -> Seq(Bytes)]
  /\ \A n \in Nat :
       VariableInteger[n] = IF n < Base THEN <<n>>
                            ELSE <<(n % Base) + Base>> \o VariableInteger[n \div Base]
<1> DEFINE stop == 0 .. Base - 1
           rank == [n \in Nat |-> n]
           next == [n \in Nat |-> n \div Base]
           first == [n \in Nat |-> IF n \in Bytes THEN <<n>> ELSE <<>>]
           step == [x \in Nat \X Seq(Bytes) |-> <<(x[1] % Base) + Base>> \o x[2]]
<1>0. Base \in Nat /\ Base > 1
  BY FramingAssumption
<1>1. next \in [Nat -> Nat]
  BY Division
<1>2. first \in [Nat -> Seq(Bytes)]
  OBVIOUS
<1>3. step \in [Nat \X Seq(Bytes) -> Seq(Bytes)]
  <2>1. ASSUME NEW n \in Nat, NEW s \in Seq(Bytes)
        PROVE  <<(n % Base) + Base>> \o s \in Seq(Bytes)
    <3>1. (n % Base) + Base \in Bytes
      BY Division, Digit
    <3>2. <<(n % Base) + Base>> \in Seq(Bytes)
      BY <3>1
    <3> QED BY <3>2, ConcatProperties
  <2> QED BY <2>1
<1>4. rank \in [Nat -> Nat]
  OBVIOUS
<1>5. \A n \in Nat \ stop : rank[next[n]] < rank[n]
  BY <1>0, Division
<1>6. PICK g \in [Nat -> Seq(Bytes)] : Recurses(g, Nat, stop, first, next, step)
  <2> HIDE DEF stop, rank, next, first, step
  <2> QED BY <1>1, <1>2, <1>3, <1>4, <1>5, Recursion
<1> DEFINE body(f) == [n \in Nat |-> IF n < Base THEN <<n>>
                                     ELSE <<(n % Base) + Base>> \o f[n \div Base]]
<1>7. ASSUME NEW n \in Nat
      PROVE  g[n] = IF n < Base THEN <<n>> ELSE <<(n % Base) + Base>> \o g[n \div Base]
  <2>1. g[n] = IF n \in stop THEN first[n] ELSE step[<<n, g[next[n]]>>]
    BY <1>6 DEF Recurses
  <2>2. CASE n < Base
    <3>1. n \in stop /\ n \in Bytes
      BY <1>0, <2>2 DEF Bytes
    <3> QED BY <2>1, <2>2, <3>1
  <2>3. CASE ~(n < Base)
    <3>1. n \notin stop /\ next[n] = n \div Base /\ n \div Base \in Nat
      BY <1>0, <2>3, Division
    <3>2. g[n \div Base] \in Seq(Bytes)
      BY <1>6, <3>1
    <3>3. step[<<n, g[n \div Base]>>] = <<(n % Base) + Base>> \o g[n \div Base]
      BY <3>2
    <3> HIDE DEF stop, next, first, step
    <3> QED BY <2>1, <2>3, <3>1, <3>3
  <2> QED BY <2>2, <2>3
<1>8. g = body(g)
  BY <1>6, <1>7
<1>9. VariableInteger = body(VariableInteger)
  <2>1. VariableInteger = CHOOSE f : f = body(f)
    BY DEF VariableInteger
  <2> HIDE DEF body
  <2> QED BY <1>8, <2>1
<1>10. \A n \in Nat :
         VariableInteger[n] = IF n < Base THEN <<n>>
                              ELSE <<(n % Base) + Base>> \o VariableInteger[n \div Base]
  BY <1>9
<1>11. \A n \in Nat : VariableInteger[n] \in Seq(Bytes)
  <2> DEFINE T == {n \in Nat : VariableInteger[n] \notin Seq(Bytes)}
  <2>1. SUFFICES ASSUME T # {} PROVE FALSE
    OBVIOUS
  <2>2. PICK n \in Nat : /\ VariableInteger[n] \notin Seq(Bytes)
                         /\ \A m \in Nat : VariableInteger[m] \notin Seq(Bytes) => n <= m
    <3>1. PICK n \in T : \A m \in T : n <= m
      BY <2>1, SmallestOf
    <3> QED BY <3>1
  <2> HIDE DEF T
  <2>3. CASE n < Base
    <3>1. VariableInteger[n] = <<n>> /\ n \in Bytes
      <4>1. n \in 0 .. Base - 1
        BY <1>0, <2>3
      <4> QED BY <1>10, <2>3, <4>1, Digit
    <3> QED BY <2>2, <3>1
  <2>4. CASE ~(n < Base)
    <3>0. n >= Base
      BY <1>0, <2>4
    <3>1. n \div Base \in Nat /\ n \div Base < n /\ n % Base \in 0 .. Base - 1
      BY <3>0, Division
    <3>5. (n % Base) + Base \in Bytes
      BY <3>1, Digit
    <3>2. VariableInteger[n \div Base] \in Seq(Bytes)
      <4>1. PICK m \in Nat : m = n \div Base
        BY <3>1
      <4>2. ~(n <= m)
        BY <3>1, <4>1
      <4> QED BY <2>2, <4>1, <4>2
    <3>3. <<(n % Base) + Base>> \in Seq(Bytes)
      BY <3>5
    <3>6. VariableInteger[n] = <<(n % Base) + Base>> \o VariableInteger[n \div Base]
      BY <1>10, <2>4
    <3>4. VariableInteger[n] \in Seq(Bytes)
      BY <3>2, <3>3, <3>6, ConcatProperties
    <3> QED BY <2>2, <3>4
  <2> QED BY <2>3, <2>4
<1>12. VariableInteger \in [Nat -> Seq(Bytes)]
  <2> HIDE DEF body
  <2>1. VariableInteger = [n \in Nat |-> VariableInteger[n]]
    BY <1>9 DEF body
  <2> QED BY <1>11, <2>1
<1> QED BY <1>10, <1>12

\* What decode_variable_integer makes of the bytes s
Number(s) == FoldRight(LAMBDA byte, v : (byte % Base) + Base * v, s, 0)

\* v[j] is the value of the bytes from the j-th on.
Digits(s, v) ==
  /\ v \in [1 .. Len(s) + 1 -> Nat]
  /\ v[Len(s) + 1] = 0
  /\ \A j \in 1 .. Len(s) : v[j] = (s[j] % Base) + Base * v[j + 1]

LEMMA NumberDigits ==
  ASSUME NEW s \in Seq(Bytes)
  PROVE  \E v : Digits(s, v) /\ Number(s) = v[1]
<1> DEFINE n == Len(s)
           S == SUBSET (1 .. n)
           min(T) == CHOOSE x \in T : \A y \in T : x <= y
           rank == [T \in S |-> Cardinality(T)]
           next == [T \in S |-> IF T = {} THEN T ELSE T \ {Min(T)}]
           first == [T \in S |-> 0]
           step == [x \in S \X Nat |-> IF x[1] = {} THEN 0
                                       ELSE (s[Min(x[1])] % Base) + Base * x[2]]
           body(g) == [T \in S |-> IF T = {} THEN 0
                                   ELSE (s[Min(T)] % Base) + Base * g[T \ {Min(T)}]]
<1>0. n \in Nat /\ Base \in Nat
  BY FramingAssumption, LenProperties
<1>1. \A T \in S : T # {} => Min(T) \in T
  <2>1. ASSUME NEW T \in S, T # {} PROVE Min(T) \in T
    <3>1. \E x \in T : \A y \in T : x <= y
      <4>1. T \subseteq Nat
        BY <1>0
      <4> QED BY <2>1, <4>1, SmallestOf
    <3> QED BY <3>1 DEF Min
  <2> QED BY <2>1
<1>2. ASSUME NEW T \in S
      PROVE  /\ IsFiniteSet(T) /\ Cardinality(T) \in Nat
             /\ T # {} => Cardinality(T \ {Min(T)}) < Cardinality(T)
  <2>1. IsFiniteSet(1 .. n)
    BY <1>0, FS_Interval
  <2>2. IsFiniteSet(T) /\ Cardinality(T) \in Nat
    BY <2>1, FS_Subset, FS_CardinalityType
  <2>3. T # {} => Cardinality(T \ {Min(T)}) = Cardinality(T) - 1
    BY <1>1, <2>2, FS_RemoveElement
  <2> QED BY <2>2, <2>3
<1>3. rank \in [S -> Nat] /\ next \in [S -> S] /\ first \in [S -> Nat]
  BY <1>2
<1>4. \A T \in S, x \in Nat : T # {} => (s[Min(T)] % Base) + Base * x \in Nat
  <2>1. SUFFICES ASSUME NEW T \in S, NEW x \in Nat, T # {}
                 PROVE  (s[Min(T)] % Base) + Base * x \in Nat
    OBVIOUS
  <2>2. s[Min(T)] \in Bytes
    BY <1>1, <2>1, ElementOfSeq
  <2>3. s[Min(T)] \in Nat
    BY <1>0, <2>2 DEF Bytes
  <2>4. s[Min(T)] % Base \in Nat
    <3>1. PICK b \in Nat : b = s[Min(T)]
      BY <2>3
    <3>2. b % Base \in 0 .. Base - 1
      BY Division
    <3> QED BY <1>0, <3>1, <3>2
  <2>5. Base * x \in Nat
    BY <1>0
  <2> QED BY <2>4, <2>5
<1>5. step \in [S \X Nat -> Nat]
  BY <1>4
<1>6. \A T \in S \ {{}} : rank[next[T]] < rank[T]
  BY <1>2, <1>3
<1>7. PICK g \in [S -> Nat] : Recurses(g, S, {{}}, first, next, step)
  <2> HIDE DEF S, rank, next, first, step
  <2> QED BY <1>3, <1>5, <1>6, Recursion
<1>8. g = body(g)
  <2>1. ASSUME NEW T \in S
        PROVE  g[T] = IF T = {} THEN 0
                      ELSE (s[Min(T)] % Base) + Base * g[T \ {Min(T)}]
    <3>1. g[T] = IF T \in {{}} THEN first[T] ELSE step[<<T, g[next[T]]>>]
      BY <1>7 DEF Recurses
    <3>2. CASE T = {}
      BY <3>1, <3>2
    <3>3. CASE T # {}
      <4>1. next[T] = T \ {Min(T)} /\ T \ {Min(T)} \in S
        BY <3>3
      <4>2. g[T \ {Min(T)}] \in Nat
        BY <1>7, <4>1
      <4>3. step[<<T, g[T \ {Min(T)}]>>] = (s[Min(T)] % Base) + Base * g[T \ {Min(T)}]
        BY <3>3, <4>2
      <4> HIDE DEF S, next, first, step
      <4> QED BY <3>1, <3>3, <4>1, <4>3
    <3> QED BY <3>2, <3>3
  <2> QED BY <1>7, <2>1
<1> DEFINE iter == CHOOSE h : h = body(h)
<1>9. iter = body(iter)
  <2> HIDE DEF body
  <2> QED BY <1>8
<1>10. Number(s) = iter[1 .. n]
  <2>1. DOMAIN s = 1 .. n
    BY LenProperties
  <2> QED BY <2>1 DEF Number, FoldRight, MapThenFoldSet
<1> HIDE DEF iter
<1>11. iter[{}] = 0
  BY <1>9
<1>12. ASSUME NEW j \in 1 .. n
       PROVE  iter[j .. n] = (s[j] % Base) + Base * iter[j + 1 .. n]
  <2>1. j .. n \in S /\ j .. n # {} /\ (j .. n) \ {j} = j + 1 .. n
    BY <1>0
  <2>2. Min(j .. n) = j
    BY <1>0, MinOf
  <2>3. iter[j .. n] = (s[Min(j .. n)] % Base) + Base * iter[(j .. n) \ {Min(j .. n)}]
    BY <1>9, <2>1
  <2> QED BY <2>1, <2>2, <2>3
<1>13. iter[n + 1 .. n] = 0
  <2>1. n + 1 .. n = {}
    BY <1>0
  <2> QED BY <1>11, <2>1
<1>14. \A j \in 1 .. n + 1 : iter[j .. n] \in Nat
  <2> DEFINE T == {m \in Nat : \E j \in 1 .. n + 1 : m = n + 1 - j /\ iter[j .. n] \notin Nat}
  <2>1. SUFFICES ASSUME T # {} PROVE FALSE
    <3>1. \A j \in 1 .. n + 1 : n + 1 - j \in Nat
      BY <1>0
    <3>2. \A j \in 1 .. n + 1 : iter[j .. n] \notin Nat => n + 1 - j \in T
      BY <3>1
    <3> QED BY <3>2
  <2>2. PICK m \in T : \A k \in T : m <= k
    BY <2>1, SmallestOf
  <2>3. PICK j \in 1 .. n + 1 : m = n + 1 - j /\ iter[j .. n] \notin Nat
    BY <2>2
  <2>4. j # n + 1
    BY <1>13, <2>3
  <2>5. j \in 1 .. n /\ j + 1 \in 1 .. n + 1 /\ m - 1 \in Nat /\ m - 1 = n + 1 - (j + 1)
    BY <1>0, <2>3, <2>4
  <2>6. iter[j + 1 .. n] \in Nat
    <3>1. m \in Nat /\ ~(m <= m - 1)
      BY <2>2
    <3>2. m - 1 \notin T
      <4> HIDE DEF T
      <4> QED BY <2>2, <3>1
    <3> QED BY <2>5, <3>2
  <2>7. PICK b \in Nat : b = s[j]
    <3>1. s[j] \in Bytes
      BY <2>5, ElementOfSeq
    <3> QED BY <1>0, <3>1 DEF Bytes
  <2>8. b % Base \in Nat
    <3>1. b % Base \in 0 .. Base - 1
      BY Division
    <3> QED BY <1>0, <3>1
  <2>9. (b % Base) + Base * iter[j + 1 .. n] \in Nat
    <3>1. Base * iter[j + 1 .. n] \in Nat
      BY <1>0, <2>6
    <3> QED BY <2>8, <3>1
  <2> QED BY <1>12, <2>3, <2>5, <2>7, <2>9
<1> DEFINE v == [j \in 1 .. n + 1 |-> iter[j .. n]]
<1>15. Digits(s, v)
  <2>1. v \in [1 .. n + 1 -> Nat]
    BY <1>14
  <2>2. v[n + 1] = 0
    BY <1>0, <1>13
  <2>3. ASSUME NEW j \in 1 .. n
        PROVE  v[j] = (s[j] % Base) + Base * v[j + 1]
    <3>1. v[j] = iter[j .. n] /\ v[j + 1] = iter[j + 1 .. n]
      BY <1>0
    <3> QED BY <1>12, <3>1
  <2> QED BY <2>1, <2>2, <2>3 DEF Digits
<1>16. v[1] = iter[1 .. n]
  BY <1>0
<1> QED BY <1>10, <1>15, <1>16

LEMMA DigitsUnique ==
  ASSUME NEW s \in Seq(Bytes), NEW v, Digits(s, v), NEW w, Digits(s, w)
  PROVE  v[1] = w[1]
<1> DEFINE n == Len(s)
           T == {m \in Nat : \E j \in 1 .. n + 1 : m = n + 1 - j /\ v[j] # w[j]}
<1>0. n \in Nat
  BY LenProperties
<1>1. SUFFICES ASSUME T # {} PROVE FALSE
  BY <1>0
<1>2. PICK m \in T : \A k \in T : m <= k
  BY <1>1, SmallestOf
<1>3. PICK j \in 1 .. n + 1 : m = n + 1 - j /\ v[j] # w[j]
  BY <1>2
<1>4. j # n + 1
  BY <1>3 DEF Digits
<1>5. j \in 1 .. n /\ j + 1 \in 1 .. n + 1 /\ m - 1 \in Nat /\ m - 1 = n + 1 - (j + 1)
  BY <1>0, <1>3, <1>4
<1>6. v[j + 1] # w[j + 1]
  BY <1>3, <1>5 DEF Digits
<1>7. m - 1 \in T
  BY <1>5, <1>6
<1>8. m \in Nat /\ ~(m <= m - 1)
  BY <1>2
<1> HIDE DEF T
<1> QED BY <1>2, <1>7, <1>8

LEMMA NumberEmpty == Number(<<>>) = 0
<1>1. <<>> \in Seq(Bytes) /\ Len(<<>>) = 0
  OBVIOUS
<1>2. PICK v : Digits(<<>>, v) /\ Number(<<>>) = v[1]
  BY <1>1, NumberDigits
<1> QED BY <1>1, <1>2 DEF Digits

\* The first byte is the lowest digit.
LEMMA NumberHead ==
  ASSUME NEW b \in Bytes, NEW s \in Seq(Bytes)
  PROVE  /\ Number(s) \in Nat
         /\ Number(<<b>> \o s) = (b % Base) + Base * Number(s)
<1> DEFINE t == <<b>> \o s
<1>1. PICK v : Digits(s, v) /\ Number(s) = v[1]
  BY NumberDigits
<1>0. Len(s) \in Nat
  BY LenProperties
<1>2. /\ t \in Seq(Bytes) /\ Len(t) = Len(s) + 1 /\ t[1] = b
      /\ \A j \in 1 .. Len(s) : t[j + 1] = s[j]
  OBVIOUS
<1>3. v[1] \in Nat
  BY <1>0, <1>1 DEF Digits
<1> DEFINE w == [j \in 1 .. Len(s) + 2 |-> IF j = 1 THEN (b % Base) + Base * v[1]
                                          ELSE v[j - 1]]
<1>4. w[1] = (b % Base) + Base * v[1]
  BY <1>0
<1>5. w[1] \in Nat
  <2>0. Base \in Nat
    BY FramingAssumption
  <2>1. b \in Nat
    BY <2>0 DEF Bytes
  <2>2. b % Base \in 0 .. Base - 1
    BY <2>1, Division
  <2>3. Base * v[1] \in Nat
    BY <2>0, <1>3
  <2> QED BY <1>4, <2>0, <2>2, <2>3
<1>6. \A j \in 2 .. Len(s) + 2 : w[j] = v[j - 1]
  BY <1>0
<1>7. w \in [1 .. Len(s) + 2 -> Nat]
  <2>1. \A j \in 2 .. Len(s) + 2 : v[j - 1] \in Nat
    BY <1>0, <1>1 DEF Digits
  <2>2. \A j \in 1 .. Len(s) + 2 : j = 1 \/ j \in 2 .. Len(s) + 2
    BY <1>0
  <2> QED BY <1>4, <1>5, <1>6, <2>1, <2>2
<1> HIDE DEF t, w
<1>8. Digits(t, w)
  <2>1. w[Len(t) + 1] = 0
    BY <1>0, <1>1, <1>2, <1>6 DEF Digits
  <2>2. ASSUME NEW j \in 1 .. Len(t)
        PROVE  w[j] = (t[j] % Base) + Base * w[j + 1]
    <3>1. CASE j = 1
      <4>1. w[2] = v[1]
        BY <1>0, <1>6
      <4> QED BY <1>2, <1>4, <3>1, <4>1
    <3>2. CASE j # 1
      <4>1. PICK k \in 1 .. Len(s) : j = k + 1
        <5>1. j - 1 \in 1 .. Len(s) /\ j = (j - 1) + 1
          BY <1>0, <1>2, <3>2
        <5> QED BY <5>1
      <4>2. w[j] = v[k] /\ w[j + 1] = v[k + 1] /\ t[j] = s[k]
        BY <1>0, <1>2, <1>6, <4>1
      <4>3. v[k] = (s[k] % Base) + Base * v[k + 1]
        BY <1>1 DEF Digits
      <4> QED BY <4>2, <4>3
    <3> QED BY <3>1, <3>2
  <2>3. Len(s) + 2 = Len(t) + 1
    BY <1>0, <1>2
  <2> QED BY <1>7, <2>1, <2>2, <2>3 DEF Digits
<1>9. PICK u : Digits(t, u) /\ Number(t) = u[1]
  BY <1>2, NumberDigits
<1>10. u[1] = w[1]
  BY <1>2, <1>8, <1>9, DigitsUnique
<1> QED BY <1>1, <1>3, <1>4, <1>9, <1>10 DEF t

\* s is a length of n as the protocol has it: only its last byte is below Base.
IsLength(s, n) ==
  /\ s \in Seq(Bytes)
  /\ Len(s) >= 1
  /\ s[Len(s)] < Base
  /\ \A j \in 1 .. Len(s) - 1 : s[j] >= Base
  /\ Number(s) = n

LEMMA OneByte ==
  ASSUME NEW b \in Bytes
  PROVE  Number(<<b>>) = b % Base
<1>1. <<b>> = <<b>> \o <<>> /\ <<>> \in Seq(Bytes)
  OBVIOUS
<1>2. Number(<<b>> \o <<>>) = (b % Base) + Base * Number(<<>>)
  BY <1>1, NumberHead
<1>3. Base \in Nat
  BY FramingAssumption
<1>4. b % Base \in Nat
  <2>1. b \in Nat
    BY <1>3 DEF Bytes
  <2>2. b % Base \in 0 .. Base - 1
    BY <2>1, Division
  <2> QED BY <1>3, <2>2
<1>5. Base * 0 = 0
  BY <1>3
<1> QED BY <1>1, <1>2, <1>4, <1>5, NumberEmpty

LEMMA VariableIntegerIsLength == \A n \in Nat : IsLength(VariableInteger[n], n)
<1> DEFINE T == {n \in Nat : ~IsLength(VariableInteger[n], n)}
<1>0. Base \in Nat /\ Base > 1
  BY FramingAssumption
<1>1. SUFFICES ASSUME T # {} PROVE FALSE
  OBVIOUS
<1>2. PICK n \in Nat : /\ ~IsLength(VariableInteger[n], n)
                       /\ \A m \in Nat : ~IsLength(VariableInteger[m], m) => n <= m
  <2>1. PICK n \in T : \A m \in T : n <= m
    BY <1>1, SmallestOf
  <2> QED BY <2>1
<1> HIDE DEF T
<1>3. CASE n < Base
  <2>1. n \in 0 .. Base - 1
    BY <1>0, <1>3
  <2>2. n \in Bytes /\ n % Base = n
    BY <2>1, Digit
  <2>3. VariableInteger[n] = <<n>>
    BY <1>3, VariableIntegerDef
  <2>4. Number(<<n>>) = n
    BY <2>2, OneByte
  <2>5. <<n>> \in Seq(Bytes) /\ Len(<<n>>) = 1 /\ <<n>>[1] = n
    BY <2>2
  <2>6. IsLength(<<n>>, n)
    BY <1>3, <2>4, <2>5 DEF IsLength
  <2> QED BY <1>2, <2>3, <2>6
<1>4. CASE ~(n < Base)
  <2>1. PICK m \in Nat : m = n \div Base
    BY Division
  <2>2. PICK d \in 0 .. Base - 1 : d = n % Base
    BY Division
  <2>3. n = d + Base * m /\ m < n
    <3>1. n >= Base
      BY <1>0, <1>4
    <3> QED BY <3>1, <2>1, <2>2, Division
  <2> DEFINE s == VariableInteger[m]
  <2>4. IsLength(s, m)
    <3>1. ~(n <= m)
      BY <2>3
    <3> QED BY <1>2, <3>1
  <2>5. d + Base \in Bytes /\ (d + Base) % Base = d
    BY <2>2, Digit
  <2>6. VariableInteger[n] = <<d + Base>> \o s
    BY <1>4, <2>1, <2>2, VariableIntegerDef
  <2> HIDE DEF s
  <2>7. Number(<<d + Base>> \o s) = d + Base * m
    BY <2>4, <2>5, NumberHead DEF IsLength
  <2> DEFINE t == <<d + Base>> \o s
  <2>8. /\ t \in Seq(Bytes) /\ Len(t) = Len(s) + 1 /\ t[1] = d + Base
        /\ \A j \in 1 .. Len(s) : t[j + 1] = s[j]
        /\ Len(s) \in Nat
    BY <2>4, <2>5 DEF IsLength
  <2>10. Number(t) = n
    BY <2>3, <2>7
  <2> HIDE DEF t
  <2>9. IsLength(t, n)
    <3>1. t[Len(t)] < Base /\ Len(t) >= 1
      BY <2>4, <2>8 DEF IsLength
    <3>2. ASSUME NEW j \in 1 .. Len(t) - 1 PROVE t[j] >= Base
      <4>1. CASE j = 1
        BY <1>0, <2>2, <2>8, <4>1
      <4>2. CASE j # 1
        <5>1. j - 1 \in 1 .. Len(s) - 1 /\ j = (j - 1) + 1 /\ j - 1 \in 1 .. Len(s)
          BY <2>8, <4>2
        <5>2. t[j] = s[j - 1]
          BY <2>8, <5>1
        <5> QED BY <2>4, <5>1, <5>2 DEF IsLength
      <4> QED BY <4>1, <4>2
    <3> QED BY <2>8, <2>10, <3>1, <3>2 DEF IsLength
  <2> QED BY <1>2, <2>6, <2>9 DEF t
<1> QED BY <1>3, <1>4

\* The bytes that a decoder finds at the head of data that begins with a length
LEMMA LengthFound ==
  ASSUME NEW n \in Nat, NEW s, IsLength(s, n), NEW data \in Seq(Bytes),
         Len(s) <= Len(data), \A j \in 1 .. Len(s) : data[j] = s[j]
  PROVE  IntegerLengths(data) = {Len(s)} /\ Value(data, Len(s)) = n
<1>0. Base \in Nat /\ s \in Seq(Bytes) /\ Len(s) \in Nat /\ Len(data) \in Nat
      /\ DOMAIN data = 1 .. Len(data) /\ Len(s) >= 1
  BY FramingAssumption, LenProperties DEF IsLength
<1>1. Len(s) \in IntegerLengths(data)
  <2>1. Len(s) \in DOMAIN data /\ data[Len(s)] < Base
    BY <1>0 DEF IsLength
  <2>2. \A j \in 1 .. Len(s) - 1 : data[j] >= Base
    BY <1>0 DEF IsLength
  <2> QED BY <2>1, <2>2 DEF IntegerLengths
<1>2. ASSUME NEW k \in IntegerLengths(data), k # Len(s) PROVE FALSE
  <2>1. k \in 1 .. Len(data) /\ data[k] < Base /\ \A j \in 1 .. k - 1 : data[j] >= Base
    BY <1>0 DEF IntegerLengths
  <2>2. \A j \in 1 .. Len(data) : data[j] \in Nat
    BY <1>0, ElementOfSeq DEF Bytes
  <2>3. CASE k < Len(s)
    <3>1. k \in 1 .. Len(s) - 1 /\ k \in 1 .. Len(s)
      BY <1>0, <2>1, <2>3
    <3>2. data[k] >= Base
      BY <3>1 DEF IsLength
    <3> QED BY <1>0, <2>1, <2>2, <3>2
  <2>4. CASE k > Len(s)
    <3>1. Len(s) \in 1 .. k - 1 /\ Len(s) \in 1 .. Len(data)
      BY <1>0, <2>1, <2>4
    <3>2. data[Len(s)] < Base /\ data[Len(s)] >= Base
      BY <1>0, <2>1, <3>1 DEF IsLength
    <3> QED BY <1>0, <2>2, <3>1, <3>2
  <2> QED BY <1>0, <1>2, <2>1, <2>3, <2>4
<1>3. SubSeq(data, 1, Len(s)) = s
  <2>1. \A j \in 1 .. Len(s) : data[j] \in Bytes
    BY <1>0, ElementOfSeq
  <2>2. /\ SubSeq(data, 1, Len(s)) \in Seq(Bytes)
        /\ Len(SubSeq(data, 1, Len(s))) = Len(s)
        /\ \A j \in 1 .. Len(s) : SubSeq(data, 1, Len(s))[j] = data[j]
    BY <1>0, <2>1
  <2> QED BY <1>0, <2>2, SeqEqual
<1>4. Value(data, Len(s)) = Number(s)
  BY <1>3 DEF Value, Number
<1> QED BY <1>1, <1>2, <1>4 DEF IsLength

Length(p) == VariableInteger[Len(p.body)]

LEMMA EncodeElements ==
  ASSUME NEW p \in Packets
  PROVE  /\ p.header \in Bytes /\ p.body \in Seq(Bytes) /\ Len(p.body) \in Nat
         /\ p = [header |-> p.header, body |-> p.body]
         /\ IsLength(Length(p), Len(p.body)) /\ Len(Length(p)) \in Nat \ {0}
         /\ Encode(p) \in Seq(Bytes)
         /\ Len(Encode(p)) = 1 + Len(Length(p)) + Len(p.body)
         /\ Encode(p)[1] = p.header
         /\ \A j \in 1 .. Len(Length(p)) : Encode(p)[1 + j] = Length(p)[j]
         /\ \A j \in 1 .. Len(p.body) : Encode(p)[1 + Len(Length(p)) + j] = p.body[j]
<1>1. p \in [header : Bytes, body : Seq(Bytes)]
  BY FramingAssumption DEF Bytes
<1>2. p.header \in Bytes /\ p.body \in Seq(Bytes) /\ Len(p.body) \in Nat
  BY <1>1
<1>3. p = [header |-> p.header, body |-> p.body]
  BY <1>1
<1>4. IsLength(Length(p), Len(p.body))
  BY <1>2, VariableIntegerIsLength DEF Length
<1>5. PICK s : s = Length(p)
  OBVIOUS
<1>6. PICK b : b = p.body
  OBVIOUS
<1>7. PICK h : h = p.header
  OBVIOUS
<1>8. s \in Seq(Bytes) /\ Len(s) \in Nat /\ Len(s) >= 1
  BY <1>4, <1>5 DEF IsLength
<1>9. Encode(p) = <<h>> \o s \o b
  BY <1>5, <1>6, <1>7 DEF Encode, Length
<1>10. h \in Bytes /\ b \in Seq(Bytes) /\ Len(b) \in Nat
  BY <1>2, <1>6, <1>7
<1>11. /\ <<h>> \o s \in Seq(Bytes)
       /\ Len(<<h>> \o s) = 1 + Len(s)
       /\ (<<h>> \o s)[1] = h
       /\ \A j \in 1 .. Len(s) : (<<h>> \o s)[1 + j] = s[j]
  BY <1>8, <1>10
<1>12. PICK f : f = <<h>> \o s
  OBVIOUS
<1>13. /\ f \o b \in Seq(Bytes)
       /\ Len(f \o b) = Len(f) + Len(b)
       /\ \A j \in 1 .. Len(f) : (f \o b)[j] = f[j]
       /\ \A j \in 1 .. Len(b) : (f \o b)[Len(f) + j] = b[j]
  BY <1>10, <1>11, <1>12
<1>14. \A j \in 1 .. Len(s) : (f \o b)[1 + j] = s[j]
  <2>1. \A j \in 1 .. Len(s) : 1 + j \in 1 .. Len(f)
    BY <1>8, <1>11, <1>12
  <2> QED BY <1>11, <1>12, <1>13, <2>1
<1>15. (f \o b)[1] = h
  BY <1>8, <1>11, <1>12, <1>13
<1> QED BY <1>2, <1>3, <1>4, <1>5, <1>6, <1>7, <1>8, <1>9, <1>11, <1>12, <1>13, <1>14, <1>15

\* Where the head of data is the length of p, that is what is found there.
LEMMA HeadOfPacket ==
  ASSUME NEW p \in Packets, NEW data \in Seq(Bytes), NEW rest \in Seq(Bytes),
         Len(rest) = Len(data) - 1, \A j \in 1 .. Len(rest) : rest[j] = data[j + 1],
         1 + Len(Length(p)) <= Len(data),
         \A j \in 1 .. 1 + Len(Length(p)) : data[j] = Encode(p)[j]
  PROVE  IntegerLengths(rest) = {Len(Length(p))} /\ Value(rest, Len(Length(p))) = Len(p.body)
<1>1. PICK s : s = Length(p)
  OBVIOUS
<1>2. IsLength(s, Len(p.body)) /\ Len(s) \in Nat /\ Len(p.body) \in Nat
      /\ \A j \in 1 .. Len(s) : Encode(p)[1 + j] = s[j]
  BY <1>1, EncodeElements
<1>3. Len(s) <= Len(rest) /\ Len(data) \in Nat /\ Len(rest) \in Nat
  BY <1>1, <1>2, LenProperties
<1>4. ASSUME NEW j \in 1 .. Len(s) PROVE rest[j] = s[j]
  <2>1. j \in 1 .. Len(rest) /\ j + 1 \in 1 .. 1 + Len(s) /\ 1 + j = j + 1
    BY <1>2, <1>3
  <2>2. rest[j] = data[j + 1] /\ data[j + 1] = Encode(p)[j + 1]
    BY <1>1, <2>1
  <2> QED BY <1>2, <2>1, <2>2
<1> QED BY <1>1, <1>2, <1>3, <1>4, LengthFound

\* What is decoded from data that begins like a packet is that packet, whole.
LEMMA DecodesWhole ==
  ASSUME NEW p \in Packets, NEW v \in Seq(Bytes), NEW w \in Seq(Bytes), NEW r \in Seq(Bytes),
         v \o w = Encode(p) \o r, NEW d \in Decodable(v)
  PROVE  d.packet = p /\ d.size = Len(Encode(p)) /\ d.size <= Len(v)
<1> DEFINE s == Length(p)
           n == Len(p.body)
           data == v \o w
           rest == Tail(data)
           t == Tail(v)
           c == Encode(p)
<1>1. /\ s \in Seq(Bytes) /\ Len(s) \in Nat \ {0} /\ n \in Nat /\ p.body \in Seq(Bytes)
      /\ p = [header |-> p.header, body |-> p.body]
      /\ c \in Seq(Bytes) /\ Len(c) = 1 + Len(s) + n /\ c[1] = p.header
      /\ \A j \in 1 .. Len(s) : c[1 + j] = s[j]
      /\ \A j \in 1 .. n : c[1 + Len(s) + j] = p.body[j]
  BY EncodeElements DEF IsLength
<1> HIDE DEF s, n, c
<1>2. Len(v) >= 2 /\ Len(v) \in Nat /\ Len(w) \in Nat /\ Len(r) \in Nat
  BY LenProperties DEF Decodable
<1>3. PICK k \in IntegerLengths(t) :
        /\ Len(t) >= k + Value(t, k)
        /\ d = [packet |-> [header |-> v[1], body |-> SubSeq(t, k + 1, k + Value(t, k))],
                size |-> 1 + k + Value(t, k)]
  BY <1>2 DEF Decodable
<1>4. /\ data \in Seq(Bytes) /\ Len(data) = Len(v) + Len(w)
      /\ \A j \in 1 .. Len(v) : data[j] = v[j]
  BY <1>2, ConcatParts
<1>5. /\ Len(data) = Len(c) + Len(r)
      /\ \A j \in 1 .. Len(c) : data[j] = c[j]
  <2>1. data = c \o r
    BY DEF c
  <2>2. Len(c \o r) = Len(c) + Len(r) /\ \A j \in 1 .. Len(c) : (c \o r)[j] = c[j]
    BY <1>1, ConcatParts, ZenonT(30)
  <2> HIDE DEF data
  <2> QED BY <2>1, <2>2
<1> HIDE DEF data
<1>6. /\ rest \in Seq(Bytes) /\ Len(rest) = Len(data) - 1
      /\ \A j \in 1 .. Len(rest) : rest[j] = data[j + 1]
  <2>1. data # <<>>
    BY <1>2, <1>4
  <2> QED BY <1>4, <2>1, HeadTailProperties
<1>7. /\ t \in Seq(Bytes) /\ Len(t) = Len(v) - 1
      /\ \A j \in 1 .. Len(t) : t[j] = v[j + 1]
  <2>1. v # <<>>
    BY <1>2
  <2> QED BY <2>1, HeadTailProperties
<1> HIDE DEF rest, t
<1>8. IntegerLengths(rest) = {Len(s)}
  <2>1. 1 + Len(s) <= Len(data) /\ \A j \in 1 .. 1 + Len(s) : data[j] = c[j]
    BY <1>1, <1>2, <1>5
  <2> QED BY <1>4, <1>6, <2>1, HeadOfPacket DEF s, c
<1>9. \A j \in 1 .. Len(t) : t[j] = rest[j] /\ j \in 1 .. Len(rest)
  <2> TAKE j \in 1 .. Len(t)
  <2>1. j + 1 \in 1 .. Len(v) /\ j \in 1 .. Len(rest)
    BY <1>2, <1>4, <1>6, <1>7
  <2> QED BY <1>4, <1>6, <1>7, <2>1
<1>10. k = Len(s) /\ k \in 1 .. Len(t)
  <2>1. k \in 1 .. Len(t) /\ t[k] < Base /\ \A j \in 1 .. k - 1 : t[j] >= Base
    BY <1>7, LenProperties DEF IntegerLengths
  <2>2. \A j \in 1 .. k - 1 : j \in 1 .. Len(t)
    BY <1>2, <1>7, <2>1
  <2>3. k \in DOMAIN rest /\ rest[k] < Base /\ \A j \in 1 .. k - 1 : rest[j] >= Base
    BY <1>6, <1>9, <2>1, <2>2, LenProperties
  <2>4. k \in IntegerLengths(rest)
    BY <2>3 DEF IntegerLengths
  <2> QED BY <1>8, <2>1, <2>4
<1>11. Value(t, k) = n
  <2>1. 1 + Len(s) <= Len(v)
    BY <1>1, <1>2, <1>7, <1>10
  <2>2. \A j \in 1 .. 1 + Len(s) : v[j] = c[j]
    <3> TAKE j \in 1 .. 1 + Len(s)
    <3>1. j \in 1 .. Len(v) /\ j \in 1 .. Len(c)
      BY <1>1, <1>2, <2>1
    <3> QED BY <1>4, <1>5, <3>1
  <2> QED BY <1>7, <1>10, <2>1, <2>2, HeadOfPacket DEF s, n, c
<1>12. d.size = 1 + Len(s) + n /\ 1 + Len(s) + n <= Len(v)
  BY <1>1, <1>2, <1>3, <1>7, <1>10, <1>11
<1>13. v[1] = p.header
  <2>1. 1 \in 1 .. Len(v) /\ 1 \in 1 .. Len(c)
    BY <1>1, <1>2
  <2> QED BY <1>1, <1>4, <1>5, <2>1
<1>15. k = Len(s) /\ k \in Nat /\ n \in Nat /\ Len(t) \in Nat /\ k + n <= Len(t)
       /\ Len(t) + 1 = Len(v) /\ Len(c) = 1 + Len(s) + n
  BY <1>1, <1>2, <1>3, <1>7, <1>10, <1>11
<1>14. SubSeq(t, k + 1, k + n) = p.body
  <2> DEFINE b == SubSeq(t, k + 1, k + n)
  <2>1. \A j \in k + 1 .. k + n : t[j] \in Bytes
    <3> TAKE j \in k + 1 .. k + n
    <3>1. j \in 1 .. Len(t)
      BY <1>15
    <3> QED BY <1>7, <3>1, ElementOfSeq
  <2>2. b \in Seq(Bytes) /\ Len(b) = n /\ \A j \in 1 .. n : b[j] = t[k + j]
    <3>1. /\ b \in Seq(Bytes)
          /\ Len(b) = IF k + 1 <= k + n THEN k + n - (k + 1) + 1 ELSE 0
          /\ \A j \in 1 .. k + n - (k + 1) + 1 : b[j] = t[k + 1 + j - 1]
      BY <1>15, <2>1, SubSeqProperties
    <3> HIDE DEF b
    <3>2. k + n - (k + 1) + 1 = n /\ \A j \in 1 .. n : k + 1 + j - 1 = k + j
      BY <1>15
    <3>3. Len(b) = n
      BY <1>15, <3>1
    <3> QED BY <3>1, <3>2, <3>3
  <2>3. \A j \in 1 .. n : t[k + j] = p.body[j]
    <3> TAKE j \in 1 .. n
    <3>1. k + j \in 1 .. Len(t) /\ k + j + 1 \in 1 .. Len(v) /\ 1 + Len(s) + j \in 1 .. Len(c)
          /\ k + j + 1 = 1 + Len(s) + j
      BY <1>15
    <3>2. t[k + j] = v[k + j + 1]
      BY <1>7, <3>1
    <3>3. v[k + j + 1] = data[k + j + 1]
      BY <1>4, <3>1
    <3>4. data[1 + Len(s) + j] = c[1 + Len(s) + j]
      BY <1>5, <3>1
    <3>5. c[1 + Len(s) + j] = p.body[j]
      BY <1>1
    <3> QED BY <3>1, <3>2, <3>3, <3>4, <3>5
  <2> HIDE DEF b
  <2>4. Len(p.body) = n
    BY DEF n
  <2>6. \A j \in 1 .. Len(b) : b[j] = p.body[j]
    BY <2>2, <2>3
  <2>7. p.body \in Seq(Bytes)
    BY <1>1
  <2>5. b = p.body
    BY <2>2, <2>4, <2>6, <2>7, SeqEqual
  <2> QED BY <2>5 DEF b
<1> QED BY <1>1, <1>3, <1>11, <1>12, <1>13, <1>14 DEF c

\* The bytes of the packets q, one after the other
Encoded(q) == [k \in DOMAIN q |-> Encode(q[k])]

Stream(q)  == FlattenSeq(Encoded(q))

\* Between two chunks the buffer holds nothing that can be decoded.
NothingDecodable ==
  phase = "reading" /\ ~torn => Decodable(in_buffer) = {} /\ ~UnknownType(in_buffer)

(* The invariant of the framing: what is buffered, then what is on the     *)
(* wire, is the stream of the packets that are not handled yet; and the    *)
(* view is an offset into the buffer.                                      *)
FramingInv ==
  /\ sent \in Seq(Packets) /\ handled \in Seq(Packets)
  /\ wire \in Seq(Bytes) /\ in_buffer \in Seq(Bytes)
  /\ view \in 0 .. Len(in_buffer)
  /\ phase = "reading" => view = 0
  /\ ChunksDoNotMatter
  /\ NothingDecodable

LEMMA EncodedType ==
  ASSUME NEW q \in Seq(Packets)
  PROVE  Encoded(q) \in Seq(Seq(Bytes)) /\ Len(Encoded(q)) = Len(q)
         /\ \A k \in 1 .. Len(q) : Encoded(q)[k] = Encode(q[k])
<1>1. Len(q) \in Nat /\ DOMAIN q = 1 .. Len(q) /\ \A k \in 1 .. Len(q) : q[k] \in Packets
  BY LenProperties, ElementOfSeq
<1>2. \A k \in 1 .. Len(q) : Encode(q[k]) \in Seq(Bytes)
  BY <1>1, EncodeElements
<1>3. Encoded(q) \in [1 .. Len(q) -> Seq(Bytes)]
  BY <1>1, <1>2 DEF Encoded
<1>4. \A k \in 1 .. Len(q) : Encoded(q)[k] = Encode(q[k])
  BY <1>1 DEF Encoded
<1> HIDE DEF Encoded
<1>5. Encoded(q) \in Seq(Seq(Bytes))
  BY <1>1, <1>3, FunctionIsSeq
<1>6. Len(Encoded(q)) = Len(q)
  BY <1>1, <1>3, <1>5, LenProperties
<1> QED BY <1>4, <1>5, <1>6

LEMMA StreamType ==
  ASSUME NEW q \in Seq(Packets)
  PROVE  Stream(q) \in Seq(Bytes)
BY EncodedType, FlattenType DEF Stream

LEMMA StreamEmpty == Stream(<<>>) = <<>>
<1>1. Encoded(<<>>) = <<>>
  <2>1. <<>> \in Seq(Packets) /\ Len(<<>>) = 0
    OBVIOUS
  <2>2. Encoded(<<>>) \in Seq(Seq(Bytes)) /\ Len(Encoded(<<>>)) = 0
    BY <2>1, EncodedType
  <2> QED BY <2>2, EmptySeq
<1> QED BY <1>1, FlattenEmpty DEF Stream

LEMMA StreamAppend ==
  ASSUME NEW q \in Seq(Packets), NEW p \in Packets
  PROVE  Stream(Append(q, p)) = Stream(q) \o Encode(p)
<1> DEFINE r == Append(q, p)
           e == Append(Encoded(q), Encode(p))
<1>1. /\ r \in Seq(Packets) /\ Len(r) = Len(q) + 1 /\ r[Len(q) + 1] = p
      /\ \A k \in 1 .. Len(q) : r[k] = q[k]
      /\ Len(q) \in Nat
  OBVIOUS
<1>2. /\ Encoded(q) \in Seq(Seq(Bytes)) /\ Len(Encoded(q)) = Len(q)
      /\ \A k \in 1 .. Len(q) : Encoded(q)[k] = Encode(q[k])
  BY EncodedType
<1>3. Encode(p) \in Seq(Bytes)
  BY EncodeElements
<1> HIDE DEF r
<1>4. /\ Encoded(r) \in Seq(Seq(Bytes)) /\ Len(Encoded(r)) = Len(q) + 1
      /\ \A k \in 1 .. Len(q) + 1 : Encoded(r)[k] = Encode(r[k])
  BY <1>1, EncodedType
<1>5. /\ e \in Seq(Seq(Bytes)) /\ Len(e) = Len(q) + 1 /\ e[Len(q) + 1] = Encode(p)
      /\ \A k \in 1 .. Len(q) : e[k] = Encode(q[k])
  BY <1>2, <1>3
<1> HIDE DEF e
<1>6. \A k \in 1 .. Len(q) + 1 : Encoded(r)[k] = e[k]
  <2> TAKE k \in 1 .. Len(q) + 1
  <2>1. k = Len(q) + 1 \/ k \in 1 .. Len(q)
    BY <1>1
  <2> QED BY <1>1, <1>4, <1>5, <2>1
<1>7. Encoded(r) = e
  BY <1>4, <1>5, <1>6, SeqEqual
<1> QED BY <1>2, <1>3, <1>7, FlattenAppend DEF Stream, r, e

LEMMA StreamHead ==
  ASSUME NEW q \in Seq(Packets), q # <<>>
  PROVE  /\ Head(q) \in Packets /\ Tail(q) \in Seq(Packets)
         /\ Stream(q) = Encode(Head(q)) \o Stream(Tail(q))
<1> DEFINE r == Tail(q)
           e == Encoded(q)
<1>1. /\ Head(q) \in Packets /\ Head(q) = q[1] /\ r \in Seq(Packets)
      /\ Len(r) = Len(q) - 1 /\ \A k \in 1 .. Len(r) : r[k] = q[k + 1]
      /\ Len(q) \in Nat \ {0}
  BY HeadTailProperties, EmptySeq
<1>2. /\ e \in Seq(Seq(Bytes)) /\ Len(e) = Len(q)
      /\ \A k \in 1 .. Len(q) : e[k] = Encode(q[k])
  BY EncodedType
<1> HIDE DEF r, e
<1>3. /\ Encoded(r) \in Seq(Seq(Bytes)) /\ Len(Encoded(r)) = Len(r)
      /\ \A k \in 1 .. Len(r) : Encoded(r)[k] = Encode(r[k])
  BY <1>1, EncodedType
<1>4. e # <<>>
  BY <1>1, <1>2
<1>5. /\ Tail(e) \in Seq(Seq(Bytes)) /\ Len(Tail(e)) = Len(e) - 1
      /\ \A k \in 1 .. Len(Tail(e)) : Tail(e)[k] = e[k + 1]
      /\ Head(e) = e[1]
  BY <1>2, <1>4, HeadTailProperties
<1>6. Head(e) = Encode(Head(q))
  <2>1. 1 \in 1 .. Len(q)
    BY <1>1
  <2> QED BY <1>1, <1>2, <1>5, <2>1
<1>7. Len(Tail(e)) = Len(r) /\ Len(r) \in Nat
  BY <1>1, <1>2, <1>5
<1>8. \A k \in 1 .. Len(r) : Encoded(r)[k] = Tail(e)[k]
  <2> TAKE k \in 1 .. Len(r)
  <2>1. k + 1 \in 1 .. Len(q)
    BY <1>1
  <2> QED BY <1>1, <1>2, <1>3, <1>5, <1>7, <2>1
<1>9. Encoded(r) = Tail(e)
  BY <1>3, <1>5, <1>7, <1>8, SeqEqual
<1>10. FlattenSeq(e) = Head(e) \o FlattenSeq(Tail(e))
  BY <1>2, <1>4, FlattenHead
<1> QED BY <1>1, <1>6, <1>9, <1>10 DEF Stream, r, e

LEMMA ValueType ==
  ASSUME NEW t \in Seq(Bytes), NEW k \in IntegerLengths(t)
  PROVE  Value(t, k) \in Nat /\ k \in 1 .. Len(t)
<1>1. k \in 1 .. Len(t) /\ Len(t) \in Nat
  BY LenProperties DEF IntegerLengths
<1>2. \A j \in 1 .. k : t[j] \in Bytes
  BY <1>1, ElementOfSeq
<1>3. SubSeq(t, 1, k) \in Seq(Bytes)
  BY <1>1, <1>2, SubSeqProperties
<1>4. Value(t, k) = Number(SubSeq(t, 1, k))
  BY DEF Value, Number
<1>5. PICK s \in Seq(Bytes) : s = SubSeq(t, 1, k)
  BY <1>3
<1>6. Number(s) \in Nat
  <2>1. 0 \in Bytes
    BY FramingAssumption DEF Bytes
  <2> QED BY <1>5, <2>1, NumberHead
<1> QED BY <1>1, <1>4, <1>5, <1>6

LEMMA SizeFits ==
  ASSUME NEW v \in Seq(Bytes), NEW d \in Decodable(v)
  PROVE  d.size \in 1 .. Len(v)
<1> DEFINE t == Tail(v)
<1>1. Len(v) >= 2 /\ Len(v) \in Nat
  BY LenProperties DEF Decodable
<1>2. PICK k \in IntegerLengths(t) :
        Len(t) >= k + Value(t, k) /\ d.size = 1 + k + Value(t, k)
  BY <1>1 DEF Decodable
<1>3. t \in Seq(Bytes) /\ Len(t) = Len(v) - 1
  <2>1. v # <<>>
    BY <1>1
  <2> QED BY <2>1, HeadTailProperties
<1> HIDE DEF t
<1>4. Value(t, k) \in Nat /\ k \in 1 .. Len(t)
  BY <1>3, ValueType
<1> QED BY <1>1, <1>2, <1>3, <1>4

LEMMA AssociativeBytes ==
  ASSUME NEW a \in Seq(Bytes), NEW b \in Seq(Bytes), NEW c \in Seq(Bytes)
  PROVE  (a \o b) \o c = a \o (b \o c)
BY ConcatAssociative

\* What is left when a packet at the head of v is taken off
LEMMA PacketTaken ==
  ASSUME NEW v \in Seq(Bytes), NEW w \in Seq(Bytes), NEW c \in Seq(Bytes), NEW r \in Seq(Bytes),
         v \o w = c \o r, Len(c) <= Len(v)
  PROVE  SubSeq(v, Len(c) + 1, Len(v)) \o w = r
<1>1. Len(c) \in 0 .. Len(v) /\ Len(c) \in Nat /\ Len(v) \in Nat
  BY LenProperties
<1>2. PICK t \in Seq(Bytes) : t = SubSeq(v, Len(c) + 1, Len(v))
  BY <1>1, Behind
<1>3. PICK f \in Seq(Bytes) : f = SubSeq(v, 1, Len(c)) /\ f \o t = v
  BY <1>1, <1>2, Split
<1>4. f = c
  <2>1. Len(f) = Len(c) /\ \A j \in 1 .. Len(c) : f[j] = v[j]
    BY <1>1, <1>3
  <2>2. \A j \in 1 .. Len(c) : v[j] = (v \o w)[j] /\ (c \o r)[j] = c[j]
    <3>1. \A j \in 1 .. Len(c) : j \in 1 .. Len(v)
      BY <1>1
    <3> QED BY <3>1, ConcatParts
  <2>3. \A j \in 1 .. Len(f) : f[j] = c[j]
    BY <2>1, <2>2
  <2> QED BY <1>3, <2>1, <2>3, SeqEqual
<1>5. c \o (t \o w) = c \o r
  <2>1. (c \o t) \o w = c \o (t \o w)
    BY <1>2, AssociativeBytes, ZenonT(30)
  <2> QED BY <1>3, <1>4, <2>1
<1>6. t \o w \in Seq(Bytes)
  BY <1>2, ConcatProperties
<1>7. PICK x \in Seq(Bytes) : x = t \o w
  BY <1>6
<1>8. x = r
  BY <1>5, <1>7, CancelLeft
<1> QED BY <1>2, <1>7, <1>8

LEMMA ViewType ==
  ASSUME in_buffer \in Seq(Bytes), view \in 0 .. Len(in_buffer)
  PROVE  View \in Seq(Bytes) /\ Len(View) = Len(in_buffer) - view
BY Behind DEF View

LEMMA PrefixUnhandled ==
  ASSUME sent \in Seq(Packets), handled \in Seq(Packets), IsPrefix(handled, sent)
  PROVE  /\ Len(handled) \in 0 .. Len(sent) /\ Unhandled \in Seq(Packets)
         /\ Len(Unhandled) = Len(sent) - Len(handled)
         /\ \A j \in 1 .. Len(sent) - Len(handled) : Unhandled[j] = sent[Len(handled) + j]
<1>1. Len(handled) \in 0 .. Len(sent)
  BY LenProperties DEF IsPrefix
<1> QED BY <1>1, Behind DEF Unhandled

LEMMA InitFraming == Init => FramingInv
<1> SUFFICES ASSUME Init PROVE FramingInv
  OBVIOUS
<1>1. /\ sent = <<>> /\ handled = <<>> /\ wire = <<>> /\ in_buffer = <<>> /\ view = 0
      /\ phase = "reading" /\ torn = FALSE
  BY DEF Init
<1>2. View = <<>> /\ Unhandled = <<>>
  BY <1>1 DEF View, Unhandled
<1>3. ChunksDoNotMatter
  <2>1. IsPrefix(handled, sent)
    BY <1>1 DEF IsPrefix
  <2>2. Stream(Unhandled) = View \o wire
    BY <1>1, <1>2, StreamEmpty
  <2> QED BY <1>1, <2>1, <2>2 DEF ChunksDoNotMatter, Stream, Encoded
<1>4. NothingDecodable
  BY <1>1 DEF NothingDecodable, Decodable, UnknownType
<1> QED BY <1>1, <1>3, <1>4 DEF FramingInv

LEMMA SendPacketKeeps ==
  ASSUME FramingInv, NEW p \in Packets, SendPacket(p)
  PROVE  FramingInv'
<1>1. /\ sent \in Seq(Packets) /\ sent' = Append(sent, p) /\ wire' = wire \o Encode(p)
      /\ UNCHANGED <<in_buffer, view, handled, phase, torn>> /\ phase # "failed"
      /\ handled \in Seq(Packets) /\ wire \in Seq(Bytes)
  BY DEF FramingInv, SendPacket
<1>2. Encode(p) \in Seq(Bytes)
  BY EncodeElements
<1>3. sent' \in Seq(Packets) /\ wire' \in Seq(Bytes)
  BY <1>1, <1>2, ConcatProperties
<1>4. View' = View /\ View \in Seq(Bytes)
  BY <1>1, ViewType DEF View, FramingInv
<1>5. ASSUME ~torn'
      PROVE  IsPrefix(handled', sent') /\ Stream(Unhandled') = View' \o wire'
  <2>1. IsPrefix(handled, sent) /\ Stream(Unhandled) = View \o wire
    BY <1>1, <1>5 DEF FramingInv, ChunksDoNotMatter, Stream, Encoded
  <2>2. /\ Len(handled) \in 0 .. Len(sent) /\ Unhandled \in Seq(Packets)
        /\ Len(Unhandled) = Len(sent) - Len(handled)
        /\ \A j \in 1 .. Len(sent) - Len(handled) : Unhandled[j] = sent[Len(handled) + j]
    BY <1>1, <2>1, PrefixUnhandled
  <2>3. PICK n \in 0 .. Len(sent) : n = Len(handled)
    BY <2>2
  <2>4. PICK s : s = sent' 
    OBVIOUS
  <2>5. s \in Seq(Packets) /\ Len(s) = Len(sent) + 1 /\ s[Len(sent) + 1] = p
        /\ Len(sent) \in Nat /\ \A j \in 1 .. Len(sent) : s[j] = sent[j]
    BY <1>1, <2>4
  <2>6. IsPrefix(handled', sent')
    <3>1. SubSeq(s, 1, n) = SubSeq(sent, 1, n)
      <4>1. \A j \in 1 .. n : s[j] = sent[j] /\ sent[j] \in Packets
        BY <1>1, <2>3, <2>5, ElementOfSeq
      <4>2. /\ SubSeq(s, 1, n) \in Seq(Packets) /\ SubSeq(sent, 1, n) \in Seq(Packets)
            /\ Len(SubSeq(s, 1, n)) = n /\ Len(SubSeq(sent, 1, n)) = n
            /\ \A j \in 1 .. n : SubSeq(s, 1, n)[j] = s[j] /\ SubSeq(sent, 1, n)[j] = sent[j]
        BY <1>1, <2>3, <2>5, <4>1
      <4> QED BY <4>1, <4>2, SeqEqual
    <3>2. Len(handled) <= Len(s)
      BY <2>3, <2>5
    <3> QED BY <1>1, <2>1, <2>3, <2>4, <3>1, <3>2 DEF IsPrefix
  <2>7. Unhandled' = Append(Unhandled, p)
    <3> DEFINE a == SubSeq(s, n + 1, Len(s))
               b == Append(Unhandled, p)
    <3>1. n \in 0 .. Len(s) /\ n \in Nat /\ n <= Len(sent)
      BY <2>3, <2>5
    <3>2. a \in Seq(Packets) /\ Len(a) = Len(s) - n /\ \A j \in 1 .. Len(s) - n : a[j] = s[n + j]
      BY <2>5, <3>1, Behind
    <3>3. /\ b \in Seq(Packets) /\ Len(b) = Len(sent) - n + 1 /\ b[Len(sent) - n + 1] = p
          /\ \A j \in 1 .. Len(sent) - n : b[j] = Unhandled[j]
      <4>1. PICK u \in Seq(Packets) : u = Unhandled
        BY <2>2
      <4>2. /\ Append(u, p) \in Seq(Packets) /\ Len(Append(u, p)) = Len(u) + 1
            /\ Append(u, p)[Len(u) + 1] = p
            /\ \A j \in 1 .. Len(u) : Append(u, p)[j] = u[j]
        OBVIOUS
      <4>3. Len(u) = Len(sent) - n
        BY <2>2, <2>3, <4>1
      <4> QED BY <4>1, <4>2, <4>3
    <3> HIDE DEF a, b
    <3>4. Len(a) = Len(b)
      BY <2>5, <3>1, <3>2, <3>3
    <3>5. ASSUME NEW j \in 1 .. Len(a) PROVE a[j] = b[j]
      <4>1. CASE j = Len(sent) - n + 1
        <5>1. n + j = Len(sent) + 1 /\ j \in 1 .. Len(s) - n
          BY <2>5, <3>1, <3>2, <4>1
        <5>2. a[j] = s[n + j] /\ b[j] = p
          BY <3>2, <3>3, <4>1, <5>1
        <5> QED BY <2>5, <5>1, <5>2
      <4>2. CASE j # Len(sent) - n + 1
        <5>4. j \in 1 .. Len(sent) + 1 - n /\ Len(s) - n = Len(sent) + 1 - n
          BY <2>5, <3>1, <3>2
        <5>1. j \in 1 .. Len(sent) - n /\ j \in 1 .. Len(s) - n /\ n + j \in 1 .. Len(sent)
          <6>1. Len(sent) \in Nat /\ n \in Nat /\ n <= Len(sent)
            BY <2>5, <3>1
          <6> QED BY <4>2, <5>4, <6>1
        <5>2. a[j] = s[n + j] /\ s[n + j] = sent[n + j] /\ b[j] = Unhandled[j]
          BY <2>5, <3>2, <3>3, <5>1
        <5>3. Unhandled[j] = sent[n + j]
          BY <2>2, <2>3, <5>1
        <5> QED BY <5>2, <5>3
      <4> QED BY <4>1, <4>2
    <3>6. a = b
      BY <3>2, <3>3, <3>4, <3>5, SeqEqual
    <3>7. Unhandled' = a
      BY <1>1, <2>3, <2>4 DEF Unhandled, a
    <3> QED BY <3>6, <3>7 DEF b
  <2>8. Stream(Append(Unhandled, p)) = Stream(Unhandled) \o Encode(p)
    BY <2>2, StreamAppend
  <2>9. (View \o wire) \o Encode(p) = View \o (wire \o Encode(p))
    <3>1. PICK x \in Seq(Bytes), y \in Seq(Bytes), z \in Seq(Bytes) :
            x = View /\ y = wire /\ z = Encode(p)
      BY <1>1, <1>2, <1>4
    <3>2. (x \o y) \o z = x \o (y \o z)
      BY <3>1, AssociativeBytes
    <3> QED BY <3>1, <3>2
  <2> QED BY <1>1, <1>4, <2>1, <2>6, <2>7, <2>8, <2>9
<1>6. ChunksDoNotMatter'
  BY <1>1, <1>5 DEF ChunksDoNotMatter, Stream, Encoded
<1>7. NothingDecodable'
  BY <1>1 DEF FramingInv, NothingDecodable
<1> QED BY <1>1, <1>3, <1>6, <1>7 DEF FramingInv

LEMMA FeedBytesKeeps ==
  ASSUME FramingInv, NEW n \in 1 .. Len(wire), FeedBytes(n)
  PROVE  FramingInv'
<1>1. /\ in_buffer' = in_buffer \o SubSeq(wire, 1, n)
      /\ wire' = SubSeq(wire, n + 1, Len(wire))
      /\ view = 0 /\ view' = 0 /\ phase' = "decoding"
      /\ UNCHANGED <<sent, handled, torn>>
      /\ wire \in Seq(Bytes) /\ in_buffer \in Seq(Bytes)
      /\ sent \in Seq(Packets) /\ handled \in Seq(Packets)
  BY DEF FramingInv, FeedBytes
<1>2. n \in 0 .. Len(wire)
  BY <1>1, LenProperties
<1>31. PICK f \in Seq(Bytes) : f = SubSeq(wire, 1, n)
  BY <1>1, <1>2, Split
<1>32. PICK t \in Seq(Bytes) : t = SubSeq(wire, n + 1, Len(wire))
  BY <1>1, <1>2, Behind
<1>3. /\ f \in Seq(Bytes) /\ t \in Seq(Bytes) /\ f = SubSeq(wire, 1, n)
      /\ t = SubSeq(wire, n + 1, Len(wire)) /\ f \o t = wire
  BY <1>1, <1>2, <1>31, <1>32, Split
<1>4. PICK b \in Seq(Bytes) : b = in_buffer
  BY <1>1
<1>5. b \o f \in Seq(Bytes) /\ (b \o f) \o t = b \o (f \o t)
  <2>1. b \o f \in Seq(Bytes)
    BY <1>3, <1>4, ConcatProperties
  <2>2. (b \o f) \o t = b \o (f \o t)
    BY <1>3, <1>4, AssociativeBytes
  <2> QED BY <2>1, <2>2
<1>6. View = b
  <2>1. 0 + 1 = 1
    OBVIOUS
  <2> QED BY <1>1, <1>4, <2>1, SubSeqFull DEF View
<1>7. View' = b \o f
  <2>1. View' = SubSeq(b \o f, 1, Len(b \o f))
    BY <1>1, <1>3, <1>4 DEF View
  <2> QED BY <1>5, <2>1, SubSeqFull
<1>8. View' \o wire' = View \o wire
  BY <1>1, <1>3, <1>5, <1>6, <1>7
<1>9. in_buffer' \in Seq(Bytes) /\ wire' \in Seq(Bytes) /\ view' \in 0 .. Len(in_buffer')
  <2>1. Len(b \o f) \in Nat
    BY <1>5, LenProperties
  <2> QED BY <1>1, <1>3, <1>4, <1>5, <2>1
<1>10. ChunksDoNotMatter'
  <2>1. Unhandled' = Unhandled
    BY <1>1 DEF Unhandled
  <2>2. ~torn => IsPrefix(handled, sent) /\ Stream(Unhandled) = View \o wire
    BY DEF FramingInv, ChunksDoNotMatter, Stream, Encoded
  <2>3. ~torn' => IsPrefix(handled', sent') /\ Stream(Unhandled') = View' \o wire'
    BY <1>1, <1>8, <2>1, <2>2
  <2> QED BY <1>1, <2>3 DEF ChunksDoNotMatter, Stream, Encoded
<1>11. NothingDecodable'
  BY <1>1 DEF NothingDecodable
<1> QED BY <1>1, <1>9, <1>10, <1>11 DEF FramingInv

(* As long as no stream was torn, what is decoded is the first packet that *)
(* is not handled.                                                         *)
LEMMA HeadDecoded ==
  ASSUME FramingInv, ~torn, NEW d \in Decodable(View)
  PROVE  /\ Unhandled # <<>> /\ Unhandled \in Seq(Packets)
         /\ d.packet = Head(Unhandled)
         /\ d.packet \in Packets
         /\ d.size = Len(Encode(d.packet)) /\ d.size <= Len(View)
         /\ View \o wire = Encode(d.packet) \o Stream(Tail(Unhandled))
<1>1. /\ Stream(Unhandled) = View \o wire
      /\ Unhandled \in Seq(Packets)
      /\ View \in Seq(Bytes) /\ wire \in Seq(Bytes)
  BY PrefixUnhandled, ViewType DEF FramingInv, ChunksDoNotMatter, Stream, Encoded
<1>2. PICK u \in Seq(Packets) : u = Unhandled
  BY <1>1
<1>3. PICK v \in Seq(Bytes) : v = View
  BY <1>1
<1>4. PICK w \in Seq(Bytes) : w = wire
  BY <1>1
<1>5. d \in Decodable(v) /\ Stream(u) = v \o w
  BY <1>1, <1>2, <1>3, <1>4
<1>6. u # <<>>
  <2>1. SUFFICES ASSUME u = <<>> PROVE FALSE
    OBVIOUS
  <2>2. v \o w = <<>>
    BY <1>5, <2>1, StreamEmpty
  <2>3. Len(v) = 0
    <3>1. Len(v) + Len(w) = 0 /\ Len(v) \in Nat /\ Len(w) \in Nat
      BY <2>2, ConcatParts, LenProperties
    <3> QED BY <3>1
  <2> QED BY <1>5, <2>3 DEF Decodable
<1>7. Head(u) \in Packets /\ Tail(u) \in Seq(Packets)
      /\ Stream(u) = Encode(Head(u)) \o Stream(Tail(u))
  BY <1>6, StreamHead
<1>8. PICK r \in Seq(Bytes) : r = Stream(Tail(u))
  BY <1>7, StreamType
<1>9. v \o w = Encode(Head(u)) \o r
  BY <1>5, <1>7, <1>8
<1>10. d.packet = Head(u) /\ d.size = Len(Encode(Head(u))) /\ d.size <= Len(v)
  BY <1>5, <1>7, <1>9, DecodesWhole
<1> QED BY <1>2, <1>3, <1>4, <1>6, <1>7, <1>8, <1>9, <1>10

LEMMA HandlesNext ==
  ASSUME sent \in Seq(Packets), handled \in Seq(Packets), IsPrefix(handled, sent),
         Unhandled # <<>>, UNCHANGED sent, handled' = Append(handled, Head(Unhandled))
  PROVE  IsPrefix(handled', sent') /\ Unhandled' = Tail(Unhandled)
<1>1. /\ Len(handled) \in 0 .. Len(sent) /\ Unhandled \in Seq(Packets)
      /\ Len(Unhandled) = Len(sent) - Len(handled)
      /\ \A j \in 1 .. Len(sent) - Len(handled) : Unhandled[j] = sent[Len(handled) + j]
  BY PrefixUnhandled
<1>2. PICK n \in Nat : n = Len(handled) /\ n <= Len(sent) /\ Len(sent) \in Nat
  BY <1>1, LenProperties
<1>3. PICK u \in Seq(Packets) : u = Unhandled
  BY <1>1
<1>4. Len(u) \in Nat \ {0} /\ Head(u) = u[1] /\ Head(u) \in Packets
  BY <1>3, EmptySeq, HeadTailProperties
<1>5. n + 1 <= Len(sent) /\ Len(u) = Len(sent) - n
  BY <1>1, <1>2, <1>3, <1>4
<1>6. Head(u) = sent[n + 1]
  <2>1. 1 \in 1 .. Len(sent) - n
    BY <1>2, <1>5
  <2> QED BY <1>1, <1>2, <1>3, <1>4, <2>1
<1>7. PICK h : h = Append(handled, Head(u))
  OBVIOUS
<1>8. /\ h \in Seq(Packets) /\ Len(h) = n + 1 /\ h[n + 1] = Head(u)
      /\ \A j \in 1 .. n : h[j] = handled[j]
  BY <1>2, <1>4, <1>7
<1>9. \A j \in 1 .. n : handled[j] = sent[j]
  <2>1. SubSeq(handled, 1, n) = SubSeq(sent, 1, n)
    BY <1>2 DEF IsPrefix
  <2>2. \A j \in 1 .. n : handled[j] \in Packets /\ sent[j] \in Packets
    BY <1>2, ElementOfSeq
  <2>3. \A j \in 1 .. n : SubSeq(handled, 1, n)[j] = handled[j] /\ SubSeq(sent, 1, n)[j] = sent[j]
    BY <1>2, <2>2
  <2> QED BY <2>1, <2>3
<1>10. IsPrefix(h, sent)
  <2>1. SubSeq(h, 1, Len(h)) = h
    BY <1>8, SubSeqFull
  <2>2. \A j \in 1 .. n + 1 : sent[j] \in Packets
    BY <1>2, <1>5, ElementOfSeq
  <2>3. /\ SubSeq(sent, 1, n + 1) \in Seq(Packets) /\ Len(SubSeq(sent, 1, n + 1)) = n + 1
        /\ \A j \in 1 .. n + 1 : SubSeq(sent, 1, n + 1)[j] = sent[j]
    BY <1>2, <2>2
  <2>4. \A j \in 1 .. n + 1 : h[j] = sent[j]
    <3> TAKE j \in 1 .. n + 1
    <3>1. j = n + 1 \/ j \in 1 .. n
      BY <1>2
    <3> QED BY <1>6, <1>8, <1>9, <3>1
  <2>5. h = SubSeq(sent, 1, n + 1)
    BY <1>8, <2>3, <2>4, SeqEqual
  <2> QED BY <1>5, <1>8, <2>1, <2>5 DEF IsPrefix
<1>11. Unhandled' = Tail(u)
  <2>1. Unhandled' = SubSeq(sent, (n + 1) + 1, Len(sent))
    BY <1>3, <1>7, <1>8 DEF Unhandled
  <2>2. u = SubSeq(sent, n + 1, Len(sent))
    BY <1>2, <1>3 DEF Unhandled
  <2>3. SubSeq(u, 1 + 1, Len(u)) = SubSeq(sent, n + 1 + 1, Len(sent))
    <3>1. n \in 0 .. Len(sent) /\ 1 \in 0 .. Len(sent) - n
      BY <1>2, <1>5
    <3> QED BY <2>2, <3>1, BehindBehind
  <2>4. Tail(u) = SubSeq(u, 2, Len(u))
    BY <1>4, TailIsSubSeq
  <2>5. 1 + 1 = 2
    OBVIOUS
  <2> QED BY <2>1, <2>3, <2>4, <2>5
<1> QED BY <1>3, <1>7, <1>10, <1>11

LEMMA DecodePacketKeeps ==
  ASSUME FramingInv, DecodePacket
  PROVE  FramingInv'
<1>1. /\ UNCHANGED <<sent, wire, in_buffer, torn>> /\ phase = "decoding" /\ phase' # "reading"
      /\ sent \in Seq(Packets) /\ handled \in Seq(Packets)
      /\ wire \in Seq(Bytes) /\ in_buffer \in Seq(Bytes)
      /\ view \in 0 .. Len(in_buffer) /\ Len(in_buffer) \in Nat
  BY LenProperties DEF FramingInv, DecodePacket
<1>2. PICK d \in Decodable(View) :
        \/ /\ d.packet \in Valid
           /\ handled' = Append(handled, d.packet)
           /\ view' = view + d.size
           /\ phase' = "decoding"
        \/ /\ d.packet \notin Valid
           /\ phase' = "failed"
           /\ UNCHANGED <<handled, view>>
  BY <1>1 DEF DecodePacket
<1>3. PICK v \in Seq(Bytes) : v = View /\ Len(v) = Len(in_buffer) - view
  BY <1>1, ViewType
<1>4. d.size \in 1 .. Len(v)
  BY <1>3, SizeFits
<1>5. handled' \in Seq(Packets) /\ view' \in 0 .. Len(in_buffer')
  <2>1. CASE d.packet \in Valid /\ handled' = Append(handled, d.packet) /\ view' = view + d.size
    <3>1. d.packet \in Packets
      BY <2>1, FramingAssumption
    <3>2. handled' \in Seq(Packets)
      BY <1>1, <2>1, <3>1
    <3>3. view' \in 0 .. Len(in_buffer')
      BY <1>1, <1>3, <1>4, <2>1
    <3> QED BY <3>2, <3>3
  <2>2. CASE UNCHANGED <<handled, view>>
    BY <1>1, <2>2
  <2> QED BY <1>2, <2>1, <2>2
<1>6. ASSUME ~torn
      PROVE  /\ IsPrefix(handled', sent')
             /\ Stream(Unhandled') = View' \o wire'
             /\ phase' = "failed" => Head(Unhandled') \notin Valid
  <2>1. /\ Unhandled # <<>> /\ Unhandled \in Seq(Packets)
        /\ d.packet = Head(Unhandled)
        /\ d.packet \in Packets
        /\ d.size = Len(Encode(d.packet)) /\ d.size <= Len(View)
        /\ View \o wire = Encode(d.packet) \o Stream(Tail(Unhandled))
    BY <1>6, HeadDecoded
  <2>2. IsPrefix(handled, sent) /\ Stream(Unhandled) = View \o wire
    BY <1>6 DEF FramingInv, ChunksDoNotMatter, Stream, Encoded
  <2>3. CASE d.packet \in Valid /\ handled' = Append(handled, d.packet) /\ view' = view + d.size
             /\ phase' = "decoding"
    <3>1. IsPrefix(handled', sent') /\ Unhandled' = Tail(Unhandled)
      BY <1>1, <2>1, <2>2, <2>3, HandlesNext
    <3>2. PICK c \in Seq(Bytes) : c = Encode(d.packet)
      BY <2>1, EncodeElements
    <3>3. PICK r \in Seq(Bytes) : r = Stream(Tail(Unhandled))
      BY <2>1, StreamHead, StreamType
    <3>4. PICK w \in Seq(Bytes) : w = wire
      BY <1>1
    <3>5. SubSeq(v, Len(c) + 1, Len(v)) \o w = r
      <4>1. v \o w = c \o r /\ Len(c) <= Len(v)
        BY <1>3, <2>1, <3>2, <3>3, <3>4
      <4> QED BY <4>1, PacketTaken
    <3>6. View' = SubSeq(v, Len(c) + 1, Len(v))
      <4>1. PICK m \in 0 .. Len(in_buffer) - view : m = Len(c)
        BY <1>3, <1>4, <2>1, <3>2
      <4>2. v = SubSeq(in_buffer, view + 1, Len(in_buffer))
        BY <1>3 DEF View
      <4>3. SubSeq(v, m + 1, Len(v)) = SubSeq(in_buffer, view + m + 1, Len(in_buffer))
        BY <1>1, <4>2, BehindBehind
      <4>4. View' = SubSeq(in_buffer, view + m + 1, Len(in_buffer))
        BY <1>1, <2>1, <2>3, <3>2, <4>1 DEF View
      <4> QED BY <4>1, <4>3, <4>4
    <3> QED BY <1>1, <2>3, <3>1, <3>3, <3>4, <3>5, <3>6
  <2>4. CASE d.packet \notin Valid /\ phase' = "failed" /\ UNCHANGED <<handled, view>>
    <3>1. View' = View /\ Unhandled' = Unhandled
      BY <1>1, <2>4 DEF View, Unhandled
    <3> QED BY <1>1, <2>1, <2>2, <2>4, <3>1
  <2> QED BY <1>2, <2>3, <2>4
<1>7. ChunksDoNotMatter'
  BY <1>1, <1>6 DEF ChunksDoNotMatter, Stream, Encoded
<1>8. NothingDecodable'
  BY <1>1 DEF NothingDecodable
<1> QED BY <1>1, <1>5, <1>7, <1>8 DEF FramingInv

LEMMA RefuseTypeKeeps ==
  ASSUME FramingInv, RefuseType
  PROVE  FramingInv'
<1>1. /\ UNCHANGED <<sent, wire, in_buffer, view, handled, torn>> /\ phase' = "failed"
      /\ phase = "decoding" /\ UnknownType(View)
      /\ sent \in Seq(Packets) /\ handled \in Seq(Packets) /\ wire \in Seq(Bytes)
      /\ View \in Seq(Bytes)
  BY ViewType DEF FramingInv, RefuseType
<1>2. View' = View /\ Unhandled' = Unhandled
  BY <1>1 DEF View, Unhandled
<1>3. ASSUME ~torn
      PROVE  Head(Unhandled) \notin Valid
  <2>1. Unhandled \in Seq(Packets) /\ Stream(Unhandled) = View \o wire
    BY <1>1, <1>3, PrefixUnhandled DEF FramingInv, ChunksDoNotMatter, Stream, Encoded
  <2>2. PICK v \in Seq(Bytes) : v = View
    BY <1>1
  <2>3. PICK w \in Seq(Bytes) : w = wire
    BY <1>1
  <2>4. Len(v) >= 2 /\ Len(v) \in Nat /\ Len(w) \in Nat /\ v[1] \notin Headers
    BY <1>1, <2>2, LenProperties DEF UnknownType
  <2>5. Len(v \o w) = Len(v) + Len(w) /\ (v \o w)[1] = v[1]
    BY <2>4, ConcatParts
  <2>6. Unhandled # <<>>
    <3>1. Len(<<>>) = 0
      OBVIOUS
    <3> QED BY <2>1, <2>2, <2>3, <2>4, <2>5, <3>1, StreamEmpty
  <2>7. PICK p \in Packets : p = Head(Unhandled)
    BY <2>1, <2>6, StreamHead
  <2>8. PICK r \in Seq(Bytes) : r = Stream(Tail(Unhandled))
    BY <2>1, <2>6, StreamHead, StreamType
  <2>15. PICK c \in Seq(Bytes) : c = Encode(p)
    BY EncodeElements
  <2>16. Len(c) = 1 + Len(Length(p)) + Len(p.body) /\ c[1] = p.header
    BY <2>15, EncodeElements
  <2>17. Len(c) >= 1
    <3>1. PICK a \in Nat : a = Len(Length(p))
      BY EncodeElements
    <3>2. PICK b \in Nat : b = Len(p.body)
      BY EncodeElements
    <3>3. Len(c) = 1 + a + b
      BY <2>16, <3>1, <3>2
    <3> QED BY <3>3
  <2>9. Len(c) \in Nat /\ 1 \in 1 .. Len(c)
    BY <2>17, LenProperties
  <2>10. v \o w = c \o r
    BY <2>1, <2>2, <2>3, <2>6, <2>7, <2>8, <2>15, StreamHead
  <2>11. (c \o r)[1] = c[1]
    BY <2>9, ConcatParts
  <2>12. p.header \notin Headers
    BY <2>4, <2>5, <2>16, <2>10, <2>11
  <2> QED BY <2>7, <2>12, FramingAssumption
<1>4. ChunksDoNotMatter'
  BY <1>1, <1>2, <1>3 DEF FramingInv, ChunksDoNotMatter
<1>5. NothingDecodable'
  BY <1>1 DEF NothingDecodable
<1> QED BY <1>1, <1>4, <1>5 DEF FramingInv

LEMMA EndOfDataKeeps ==
  ASSUME FramingInv, EndOfData
  PROVE  FramingInv'
<1>1. /\ in_buffer' = View /\ view' = 0 /\ phase' = "reading" /\ Decodable(View) = {}
      /\ ~UnknownType(View)
      /\ UNCHANGED <<sent, wire, handled, torn>>
      /\ sent \in Seq(Packets) /\ handled \in Seq(Packets) /\ wire \in Seq(Bytes)
      /\ View \in Seq(Bytes)
  BY ViewType DEF FramingInv, EndOfData
<1>2. PICK v \in Seq(Bytes) : v = View
  BY <1>1
<1>3. View' = v
  <2>1. View' = SubSeq(v, 1, Len(v))
    BY <1>1, <1>2 DEF View
  <2> QED BY <2>1, SubSeqFull
<1>4. Len(v) \in Nat
  BY LenProperties
<1>5. ChunksDoNotMatter'
  <2>1. Unhandled' = Unhandled
    BY <1>1 DEF Unhandled
  <2> QED BY <1>1, <1>2, <1>3, <2>1 DEF FramingInv, ChunksDoNotMatter
<1>6. NothingDecodable'
  BY <1>1, <1>2 DEF NothingDecodable
<1> QED BY <1>1, <1>2, <1>4, <1>5, <1>6 DEF FramingInv

LEMMA ReconnectKeeps ==
  ASSUME FramingInv, Reconnect
  PROVE  FramingInv'
<1>1. /\ sent' = <<>> /\ wire' = <<>> /\ handled' = <<>> /\ phase = "reading"
      /\ UNCHANGED <<in_buffer, view, phase>>
      /\ torn' = (torn \/ in_buffer # <<>>)
      /\ in_buffer \in Seq(Bytes) /\ view = 0 /\ view \in 0 .. Len(in_buffer)
  BY DEF FramingInv, Reconnect
<1>2. ASSUME ~torn'
      PROVE  /\ IsPrefix(handled', sent') /\ Stream(Unhandled') = View' \o wire'
  <2>1. in_buffer' = <<>>
    BY <1>1, <1>2
  <2>2. View' = <<>> /\ Unhandled' = <<>>
    BY <1>1, <2>1 DEF View, Unhandled
  <2>3. IsPrefix(handled', sent')
    BY <1>1 DEF IsPrefix
  <2> QED BY <1>1, <2>2, <2>3, StreamEmpty
<1>3. ChunksDoNotMatter'
  BY <1>1, <1>2 DEF ChunksDoNotMatter, Stream, Encoded
<1>4. NothingDecodable'
  BY <1>1 DEF FramingInv, NothingDecodable
<1> QED BY <1>1, <1>3, <1>4 DEF FramingInv

LEMMA FramingKept == FramingInv /\ [Next]_vars => FramingInv'
<1> SUFFICES ASSUME FramingInv, [Next]_vars PROVE FramingInv'
  OBVIOUS
<1>1. CASE \E p \in Packets : SendPacket(p)
  BY <1>1, SendPacketKeeps
<1>2. CASE \E n \in 1 .. Len(wire) : FeedBytes(n)
  BY <1>2, FeedBytesKeeps
<1>3. CASE DecodePacket
  BY <1>3, DecodePacketKeeps
<1>4. CASE EndOfData
  BY <1>4, EndOfDataKeeps
<1>7. CASE RefuseType
  BY <1>7, RefuseTypeKeeps
<1>5. CASE Reconnect
  BY <1>5, ReconnectKeeps
<1>6. CASE UNCHANGED vars
  BY <1>6 DEF vars, FramingInv, ChunksDoNotMatter, NothingDecodable, View, Unhandled
<1> QED BY <1>1, <1>2, <1>3, <1>4, <1>5, <1>6, <1>7 DEF Next, Receive

(* However the bytes are cut into chunks, the packets handled are those    *)
(* sent, in their order, nothing is lost between the buffer and the wire,  *)
(* and only a packet the state machine rejects stops it (feed_bytes(),     *)
(* decode_packet()).                                                       *)
THEOREM ChunkingDoesNotMatter == Spec => []ChunksDoNotMatter
<1>1. FramingInv => ChunksDoNotMatter
  BY DEF FramingInv
<1> QED BY <1>1, InitFraming, FramingKept, PTL DEF Spec

(* A packet at the head of v is decoded.                                   *)
LEMMA WholeDecodes ==
  ASSUME NEW p \in Packets, NEW v \in Seq(Bytes), Len(Encode(p)) <= Len(v),
         \A j \in 1 .. Len(Encode(p)) : v[j] = Encode(p)[j]
  PROVE  Decodable(v) # {} \/ UnknownType(v)
<1> SUFFICES ASSUME ~UnknownType(v) PROVE Decodable(v) # {}
  OBVIOUS
<1> DEFINE c == Encode(p)
           t == Tail(v)
           s == Length(p)
           n == Len(p.body)
<1>1. Len(s) \in Nat \ {0} /\ n \in Nat /\ Len(c) = 1 + Len(s) + n
  BY EncodeElements
<1> HIDE DEF s, n, c
<1>2. Len(v) \in Nat /\ Len(v) >= 2 /\ Len(c) <= Len(v)
  BY <1>1, LenProperties DEF c
<1>3. t \in Seq(Bytes) /\ Len(t) = Len(v) - 1 /\ \A j \in 1 .. Len(t) : t[j] = v[j + 1]
  <2>1. v # <<>>
    BY <1>2
  <2> QED BY <2>1, HeadTailProperties
<1> HIDE DEF t
<1>4. IntegerLengths(t) = {Len(s)} /\ Value(t, Len(s)) = n
  <2>1. 1 + Len(s) <= Len(v)
    BY <1>1, <1>2
  <2>2. \A j \in 1 .. 1 + Len(s) : v[j] = c[j]
    <3> TAKE j \in 1 .. 1 + Len(s)
    <3>1. j \in 1 .. Len(c)
      BY <1>1
    <3> QED BY <3>1 DEF c
  <2> QED BY <1>3, <2>1, <2>2, HeadOfPacket DEF s, n, c
<1>5. Len(t) >= Len(s) + Value(t, Len(s))
  BY <1>1, <1>2, <1>3, <1>4
<1>6. Len(s) \in {l \in IntegerLengths(t) : Len(t) >= l + Value(t, l)}
  BY <1>4, <1>5
<1> DEFINE K == {l \in IntegerLengths(t) : Len(t) >= l + Value(t, l)}
           d(k) == [packet |-> [header |-> v[1], body |-> SubSeq(t, k + 1, k + Value(t, k))],
                    size |-> 1 + k + Value(t, k)]
<1>7. Decodable(v) = {d(k) : k \in K}
  <2>1. ~(Len(v) < 2 \/ UnknownType(v))
    BY <1>2
  <2> QED BY <2>1, Zenon DEF Decodable, t
<1>8. Len(s) \in K
  BY <1>6
<1> HIDE DEF K, d
<1> QED BY <1>7, <1>8

(* So nothing is left to decode only when less than a packet is left.      *)
LEMMA LessThanPacketKept ==
  ASSUME FramingInv
  PROVE  NothingWholeIsKept
<1> SUFFICES ASSUME phase = "reading", ~torn, Unhandled # <<>>,
                    ~(Len(in_buffer) < Len(Encode(Head(Unhandled))))
             PROVE  FALSE
  BY DEF NothingWholeIsKept
<1>1. /\ Stream(Unhandled) = View \o wire /\ Unhandled \in Seq(Packets)
      /\ in_buffer \in Seq(Bytes) /\ view = 0 /\ wire \in Seq(Bytes)
      /\ Decodable(in_buffer) = {} /\ ~UnknownType(in_buffer)
  BY PrefixUnhandled DEF FramingInv, ChunksDoNotMatter, NothingDecodable, Stream, Encoded
<1>2. PICK v \in Seq(Bytes) : v = in_buffer
  BY <1>1
<1>3. View = v
  BY <1>1, <1>2, SubSeqFull DEF View
<1>4. PICK w \in Seq(Bytes) : w = wire
  BY <1>1
<1>5. PICK p \in Packets : p = Head(Unhandled)
  BY <1>1, StreamHead
<1>6. PICK r \in Seq(Bytes) : r = Stream(Tail(Unhandled))
  BY <1>1, StreamHead, StreamType
<1>7. PICK c \in Seq(Bytes) : c = Encode(p)
  BY EncodeElements
<1>8. v \o w = c \o r
  BY <1>1, <1>3, <1>4, <1>5, <1>6, <1>7, StreamHead
<1>9. Len(v) \in Nat /\ Len(c) \in Nat /\ Len(c) <= Len(v)
  BY <1>2, <1>5, <1>7, LenProperties
<1>10. \A j \in 1 .. Len(c) : v[j] = c[j]
  <2> TAKE j \in 1 .. Len(c)
  <2>1. j \in 1 .. Len(v)
    BY <1>9
  <2>2. (v \o w)[j] = v[j] /\ (c \o r)[j] = c[j]
    BY <2>1, ConcatParts
  <2> QED BY <1>8, <2>2
<1> QED BY <1>1, <1>2, <1>7, <1>9, <1>10, WholeDecodes

(* When feed_bytes() returns, every packet whose last byte has arrived is  *)
(* handled.                                                                *)
THEOREM WholePacketsHandled == Spec => []NothingWholeIsKept
<1> QED BY LessThanPacketKept, InitFraming, FramingKept, PTL DEF Spec

(***************************************************************************)
(* Matching.                                                               *)
(***************************************************************************)

\* Patterns and topics of at least one level, which is what str.split returns
Filters == LevelSeqs(Levels \cup {"+", "#"} \cup Malformed)
Topics  == LevelSeqs(Levels)

(* The invariant of the loop: the levels before its position are matched,  *)
(* none of them by a "#", and a position past the first was not reached    *)
(* through a wildcard in the place of a reserved level.                    *)
LevelsMatched ==
  /\ i \in Nat \ {0}
  /\ i <= Longest + 1
  /\ \A j \in 1 .. i - 1 :
       /\ j <= Len(pattern) /\ j <= Len(topic)
       /\ pattern[j] # "#"
       /\ pattern[j] \in {"+", topic[j]}
  /\ i > 1 /\ pattern[1] = "+" => topic[1] \notin Reserved

MatchInv ==
  /\ result \in {"none", "made", "running", "match", "no match"}
  /\ result \in {"none", "made"} => i = 1
  /\ max_qos \in 0 .. 2
  /\ result # "none" => pattern \in Filters /\ ValidPattern(pattern)
  /\ result = "running" =>
       topic \in Topics /\ qos \in 0 .. 2 /\ qos <= max_qos /\ LevelsMatched
  /\ MatchesAsStandard

(* A sequence of levels has a length, and is a function on the positions   *)
(* up to it.                                                               *)
LEMMA LevelSeqsFact ==
  ASSUME NEW S, NEW s \in LevelSeqs(S)
  PROVE  /\ Len(s) \in Nat \ {0}
         /\ DOMAIN s = 1 .. Len(s)
         /\ \A k \in 1 .. Len(s) : s[k] \in S
<1>1. PICK n \in 1 .. MaxLevels : s \in [1 .. n -> S]
  BY DEF LevelSeqs
<1>2. n \in Nat \ {0}
  BY LevelsAssumption
<1>3. s \in Seq(S)
  BY <1>1, <1>2
<1>4. Len(s) = n
  BY <1>1, <1>2, <1>3
<1> QED
  BY <1>1, <1>2, <1>4

(* What the iterations start from: Longest bounds both lengths, and is one *)
(* of them.                                                                *)
LEMMA LoopFacts ==
  ASSUME MatchInv, result = "running"
  PROVE  /\ Len(pattern) \in Nat \ {0} /\ Len(topic) \in Nat \ {0}
         /\ Len(pattern) <= Longest /\ Len(topic) <= Longest
         /\ Longest \in {Len(pattern), Len(topic)}
         /\ i \in Nat \ {0} /\ i <= Longest + 1
         /\ \A j \in 1 .. Len(topic) : topic[j] \notin {"+", "#", "none"}
         /\ \A j \in 1 .. Len(pattern) : pattern[j] # "none"
         /\ \A j \in 1 .. Len(pattern) : pattern[j] = "#" => j = Len(pattern)
<1>1. /\ pattern \in Filters /\ ValidPattern(pattern)
      /\ topic \in Topics
      /\ i \in Nat \ {0} /\ i <= Longest + 1
  BY DEF MatchInv, LevelsMatched
<1>2. /\ Len(pattern) \in Nat \ {0} /\ DOMAIN pattern = 1 .. Len(pattern)
      /\ \A j \in 1 .. Len(pattern) : pattern[j] \in Levels \cup {"+", "#"} \cup Malformed
  BY <1>1, LevelSeqsFact DEF Filters
<1>3. /\ Len(topic) \in Nat \ {0}
      /\ \A j \in 1 .. Len(topic) : topic[j] \in Levels
  BY <1>1, LevelSeqsFact DEF Topics
<1>4. \A j \in 1 .. Len(topic) : topic[j] \notin {"+", "#", "none"}
  BY <1>3, LevelsAssumption
<1>5. \A j \in 1 .. Len(pattern) : pattern[j] # "none"
  BY <1>2, LevelsAssumption
<1>6. \A j \in 1 .. Len(pattern) : pattern[j] = "#" => j = Len(pattern)
  BY <1>1, <1>2 DEF ValidPattern
<1>7. /\ Len(pattern) <= Longest /\ Len(topic) <= Longest
      /\ Longest \in {Len(pattern), Len(topic)}
  BY <1>2, <1>3 DEF Longest
<1> QED
  BY <1>1, <1>2, <1>3, <1>4, <1>5, <1>6, <1>7

\* A "#" that is reached as a wildcard makes the pattern match.
LEMMA HashMatches ==
  ASSUME MatchInv, result = "running", i <= Longest,
         WildcardAllowed, Level(pattern, i) = "#"
  PROVE  MatchesStandard(pattern, topic)
<1> DEFINE m == Len(pattern)
           n == Len(topic)
<1>1. /\ m \in Nat \ {0} /\ n \in Nat \ {0} /\ i \in Nat \ {0}
      /\ \A j \in 1 .. m : pattern[j] = "#" => j = m
  BY LoopFacts
<1>2. /\ \A j \in 1 .. i - 1 : /\ j <= n
                               /\ pattern[j] # "#"
                               /\ pattern[j] \in {"+", topic[j]}
      /\ i > 1 /\ pattern[1] = "+" => topic[1] \notin Reserved
  BY DEF MatchInv, LevelsMatched
<1>3. i = m /\ pattern[m] = "#"
  BY <1>1 DEF Level
<1>4. pattern[1] \in {"+", "#"} => topic[1] \notin Reserved
  BY <1>1, <1>2 DEF WildcardAllowed
<1>5. m - 1 <= n
  BY <1>1, <1>2, <1>3
<1> QED
  BY <1>1, <1>2, <1>3, <1>4, <1>5 DEF MatchesStandard

\* A level that is passed is matched by its own.
LEMMA PassedMatches ==
  ASSUME MatchInv, result = "running", i <= Longest,
         \/ WildcardAllowed /\ Level(pattern, i) = "+" /\ Level(topic, i) # "none"
         \/ Level(pattern, i) = Level(topic, i)
  PROVE  /\ i <= Len(pattern) /\ i <= Len(topic)
         /\ pattern[i] # "#"
         /\ pattern[i] \in {"+", topic[i]}
         /\ pattern[1] = "+" => topic[1] \notin Reserved
<1>1. /\ Len(pattern) \in Nat \ {0} /\ Len(topic) \in Nat \ {0} /\ i \in Nat \ {0}
      /\ Longest \in {Len(pattern), Len(topic)}
      /\ \A j \in 1 .. Len(topic) : topic[j] \notin {"+", "#", "none"}
      /\ \A j \in 1 .. Len(pattern) : pattern[j] # "none"
  BY LoopFacts
<1>2. i <= Len(pattern) /\ i <= Len(topic)
  BY <1>1 DEF Level
<1>3. /\ pattern[i] # "#"
      /\ pattern[i] \in {"+", topic[i]}
      /\ pattern[i] = "+" => WildcardAllowed
  BY <1>1, <1>2 DEF Level
<1>4. i > 1 /\ pattern[1] = "+" => topic[1] \notin Reserved
  BY DEF MatchInv, LevelsMatched
<1> QED
  BY <1>1, <1>2, <1>3, <1>4 DEF WildcardAllowed

\* A level that differs, and is under no wildcard, makes the pattern not match.
LEMMA DifferentDoesNotMatch ==
  ASSUME MatchInv, result = "running", i <= Longest,
         ~(WildcardAllowed /\ \/ Level(pattern, i) = "#"
                              \/ Level(pattern, i) = "+" /\ Level(topic, i) # "none"),
         Level(pattern, i) # Level(topic, i)
  PROVE  ~MatchesStandard(pattern, topic)
<1> DEFINE m == Len(pattern)
           n == Len(topic)
<1>1. /\ m \in Nat \ {0} /\ n \in Nat \ {0} /\ i \in Nat \ {0}
      /\ Longest \in {m, n}
      /\ \A j \in 1 .. n : topic[j] \notin {"+", "#", "none"}
      /\ \A j \in 1 .. m : pattern[j] = "#" => j = m
  BY LoopFacts
<1>2. \A j \in 1 .. i - 1 : j <= m /\ j <= n /\ pattern[j] # "#"
  BY DEF MatchInv, LevelsMatched
<1> SUFFICES ASSUME MatchesStandard(pattern, topic)
             PROVE  FALSE
  OBVIOUS
<1>3. /\ pattern[1] \in {"+", "#"} => topic[1] \notin Reserved
      /\ pattern[m] = "#" => /\ m - 1 <= n
                             /\ \A j \in 1 .. m - 1 : pattern[j] \in {"+", topic[j]}
      /\ pattern[m] # "#" => /\ m = n
                             /\ \A j \in 1 .. m : pattern[j] \in {"+", topic[j]}
  BY DEF MatchesStandard
<1>4. CASE i > m
  <2>1. pattern[m] # "#"
    BY <1>1, <1>2, <1>4
  <2> QED
    BY <1>1, <1>3, <1>4, <2>1
<1>5. CASE i <= m /\ pattern[i] = "#"
  <2>1. ~WildcardAllowed
    BY <1>5 DEF Level
  <2> QED
    BY <1>1, <1>3, <1>5, <2>1 DEF WildcardAllowed
<1>6. CASE i <= m /\ pattern[i] # "#"
  <2>1. i <= n /\ pattern[i] \in {"+", topic[i]}
    BY <1>1, <1>3, <1>6
  <2>2. pattern[i] = "+" /\ topic[i] # "none" /\ ~WildcardAllowed
    BY <1>1, <1>6, <2>1 DEF Level
  <2> QED
    BY <1>1, <1>3, <2>2 DEF WildcardAllowed
<1> QED
  BY <1>1, <1>4, <1>5, <1>6

\* A pattern whose levels are all passed matches.
LEMMA EndMatches ==
  ASSUME MatchInv, result = "running", i > Longest
  PROVE  MatchesStandard(pattern, topic)
<1> DEFINE m == Len(pattern)
           n == Len(topic)
<1>1. /\ m \in Nat \ {0} /\ n \in Nat \ {0} /\ i = Longest + 1
      /\ m <= Longest /\ n <= Longest /\ Longest \in {m, n}
  BY LoopFacts
<1>2. /\ \A j \in 1 .. i - 1 : /\ j <= m /\ j <= n
                               /\ pattern[j] # "#"
                               /\ pattern[j] \in {"+", topic[j]}
      /\ i > 1 /\ pattern[1] = "+" => topic[1] \notin Reserved
  BY DEF MatchInv, LevelsMatched
<1>3. m = n /\ m = i - 1
  BY <1>1, <1>2
<1> QED
  BY <1>1, <1>2, <1>3 DEF MatchesStandard

\* A pattern that is accepted is made into a subscription.
LEMMA MakeKeepsInv ==
  ASSUME MatchInv, NEW p \in Filters, NEW q \in QoSLevels, MakeSubscription(p, q)
  PROVE  MatchInv'
<1>1. q \in 0 .. 2
  BY LevelsAssumption
<1> QED
  BY <1>1 DEF MakeSubscription, MatchInv, MatchesAsStandard

\* The loop starts at the first level, unless the message's QoS is too high.
LEMMA BeginKeepsInv ==
  ASSUME MatchInv, NEW t \in Topics, NEW q \in QoSLevels, BeginMatch(t, q)
  PROVE  MatchInv'
<1>1. q \in Int /\ max_qos \in Int /\ q \in 0 .. 2
  <2>1. q \in 0 .. 2
    BY LevelsAssumption
  <2>2. max_qos \in 0 .. 2
    BY DEF MatchInv
  <2> QED
    BY <2>1, <2>2
<1>2. i' = 1 /\ topic' = t /\ qos' = q /\ UNCHANGED <<pattern, max_qos>>
  BY DEF BeginMatch, MatchInv
<1>3. pattern \in Filters /\ ValidPattern(pattern)
  BY DEF BeginMatch, MatchInv
<1>4. LevelsMatched'
  <2>1. Len(pattern) \in Nat /\ Len(t) \in Nat
    BY <1>3, LevelSeqsFact DEF Filters, Topics
  <2>2. Longest' \in Nat
    BY <1>2, <2>1 DEF Longest
  <2>3. i' \in Nat \ {0} /\ i' <= Longest' + 1 /\ ~(i' > 1)
    <3>1. \A n \in Nat : 1 <= n + 1
      OBVIOUS
    <3>2. 1 \in Nat \ {0} /\ ~(1 > 1)
      OBVIOUS
    <3> QED
      BY <1>2, <2>2, <3>1, <3>2
  <2>4. \A j \in 1 .. i' - 1 : FALSE
    BY <1>2
  <2> QED
    BY <2>3, <2>4 DEF LevelsMatched
<1>5. CASE q > max_qos
  <2>1. ~(q <= max_qos)
    BY <1>1, <1>5
  <2>2. result' = "no match"
    BY <1>5 DEF BeginMatch
  <2> QED
    BY <1>2, <1>3, <2>1, <2>2 DEF MatchInv, MatchesAsStandard
<1>6. CASE ~(q > max_qos)
  <2>1. q <= max_qos
    BY <1>1, <1>6
  <2>2. result' = "running"
    BY <1>6 DEF BeginMatch
  <2> QED
    BY <1>1, <1>2, <1>3, <1>4, <2>1, <2>2 DEF MatchInv, MatchesAsStandard
<1> QED
  BY <1>5, <1>6

\* An iteration of the loop, or its end, keeps the invariant.
LEMMA LoopKeepsInv ==
  ASSUME MatchInv, CompareLevel \/ EndOfLevels
  PROVE  MatchInv'
<1>1. /\ result = "running" /\ i \in Nat \ {0}
      /\ pattern \in Filters /\ ValidPattern(pattern) /\ topic \in Topics
      /\ max_qos \in 0 .. 2 /\ qos \in 0 .. 2 /\ qos <= max_qos /\ LevelsMatched
      /\ UNCHANGED <<pattern, max_qos, topic, qos>>
  BY DEF MatchInv, CompareLevel, EndOfLevels, LevelsMatched
<1>2. CASE EndOfLevels
  <2>1. MatchesStandard(pattern, topic) /\ result' = "match"
    BY <1>2, EndMatches, LoopFacts DEF EndOfLevels
  <2> QED
    BY <1>1, <2>1 DEF MatchInv, MatchesAsStandard
<1>3. CASE CompareLevel /\ result' = "match"
  <2>1. MatchesStandard(pattern, topic)
    BY <1>1, <1>3, HashMatches DEF CompareLevel
  <2> QED
    BY <1>1, <1>3, <2>1 DEF MatchInv, MatchesAsStandard
<1>4. CASE CompareLevel /\ result' = "no match"
  <2>1. ~MatchesStandard(pattern, topic)
    BY <1>1, <1>4, DifferentDoesNotMatch DEF CompareLevel
  <2> QED
    BY <1>1, <1>4, <2>1 DEF MatchInv, MatchesAsStandard
<1>5. CASE CompareLevel /\ result' = "running"
  <2>1. /\ i <= Longest /\ i' = i + 1
        /\ i <= Len(pattern) /\ i <= Len(topic)
        /\ pattern[i] # "#" /\ pattern[i] \in {"+", topic[i]}
        /\ pattern[1] = "+" => topic[1] \notin Reserved
    BY <1>1, <1>5, PassedMatches DEF CompareLevel
  <2>2. LevelsMatched'
    <3>1. Longest' = Longest /\ Longest \in Nat
      BY <1>1, LoopFacts DEF Longest
    <3>2. \A j \in 1 .. i - 1 : /\ j <= Len(pattern) /\ j <= Len(topic)
                                /\ pattern[j] # "#"
                                /\ pattern[j] \in {"+", topic[j]}
      BY <1>1 DEF LevelsMatched
    <3>3. \A j \in 1 .. i : j \in 1 .. i - 1 \/ j = i
      BY <1>1
    <3>4. i' - 1 = i /\ i' \in Nat \ {0} /\ i' <= Longest + 1
      BY <1>1, <2>1, <3>1
    <3> QED
      BY <1>1, <2>1, <3>1, <3>2, <3>3, <3>4 DEF LevelsMatched
  <2> QED
    BY <1>1, <1>5, <2>2 DEF MatchInv, MatchesAsStandard
<1> QED
  BY <1>1, <1>2, <1>3, <1>4, <1>5 DEF CompareLevel

(* For every pattern that the class accepts and every topic, over any set  *)
(* of levels, matches() answers what the protocol says.                    *)
THEOREM MatchCorrect == MatchSpec => []MatchesAsStandard
<1>1. MatchInit => MatchInv
  BY DEF MatchInit, MatchInv, MatchesAsStandard
<1>2. MatchInv /\ [MatchNext]_matchVars => MatchInv'
  <2> SUFFICES ASSUME MatchInv, [MatchNext]_matchVars
               PROVE  MatchInv'
    OBVIOUS
  <2>1. CASE UNCHANGED matchVars
    BY <2>1 DEF matchVars, MatchInv, LevelsMatched, Longest, MatchesAsStandard
  <2>2. CASE MatchNext
    BY <2>2, MakeKeepsInv, BeginKeepsInv, LoopKeepsInv DEF MatchNext, Filters, Topics
  <2> QED
    BY <2>1, <2>2
<1>3. MatchInv => MatchesAsStandard
  BY DEF MatchInv
<1> QED
  BY <1>1, <1>2, <1>3, PTL DEF MatchSpec
=============================================================================
