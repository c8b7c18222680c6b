---------------------------- MODULE Common_proofs ----------------------------
(***************************************************************************)
(* What hostap's support code does to data, for data of any length: what it  *)
(* prints, escapes or writes in hexadecimal is read back, and so are names,  *)
(* addresses and ranges; the links of a list stay a list; and a dump has all *)
(* bytes.  And times, however long, add up.                                  *)
(***************************************************************************)
EXTENDS CommonMC, SequenceTheorems, FiniteSetTheorems, TLAPS

-----------------------------------------------------------------------------
(* Induction, and what recursive functions compute.  The provers have no
   predicates to induct over, and take a recursive function for any value that
   its equation has: both are lemmas about sets. *)

\* The numbers up to n are finitely many.
LEMMA SegmentFinite == ASSUME NEW n \in Nat PROVE IsFiniteSet(1..n)
<1> QED
  BY FS_Interval, 1 \in Int, n \in Int

\* Numbers up to len have a least one: the sets up to each of them are well founded.
LEMMA LeastOf ==
  ASSUME NEW len \in Nat, NEW T \in SUBSET (1..len), T # {}
  PROVE  \E m \in T : \A k \in T : m <= k
<1> DEFINE Segments == {1..k : k \in T}
<1>1. Segments \subseteq FiniteSubsetsOf(1..len) /\ IsFiniteSet(1..len)
  <2>1. \A k \in T : 1..k \in SUBSET (1..len) /\ IsFiniteSet(1..k)
    BY SegmentFinite
  <2> QED
    BY <2>1, SegmentFinite DEF FiniteSubsetsOf
<1>2. Segments # {}
  BY DEF Segments
<1>3. IsWellFoundedOn(StrictSubsetOrdering(1..len), FiniteSubsetsOf(1..len))
  BY FS_StrictSubsetOrderingWellFounded
<1> HIDE DEF Segments
<1>4. PICK U \in Segments : \A V \in Segments : ~(<<V, U>> \in StrictSubsetOrdering(1..len))
  BY <1>1, <1>2, <1>3, WFMin
<1>5. PICK m \in T : U = 1..m
  BY <1>4 DEF Segments
<1>6. ASSUME NEW k \in T, k < m PROVE FALSE
  <2>1. 1..k \in SUBSET (1..len) /\ 1..m \in SUBSET (1..len) /\ 1..k \subseteq 1..m /\ 1..k # 1..m
    BY <1>6
  <2> QED
    BY <1>4, <1>5, <2>1 DEF StrictSubsetOrdering, Segments
<1> QED
  BY <1>6

\* Induction, over a set as the provers have no predicates to induct over.
LEMMA Induct ==
  ASSUME NEW P, 0 \in P, \A n \in Nat : n \in P => n + 1 \in P
  PROVE  Nat \subseteq P
<1> SUFFICES ASSUME NEW n \in Nat, n \notin P PROVE FALSE
  OBVIOUS
<1> DEFINE T == {k \in 1..n : k \notin P}
<1>1. T \in SUBSET (1..n) /\ n \in T
  OBVIOUS
<1>2. PICK m \in T : \A k \in T : m <= k
  <2> HIDE DEF T
  <2> QED
    BY <1>1, LeastOf
<1>3. m - 1 \in Nat /\ m - 1 \in P /\ m = (m - 1) + 1
  BY <1>2
<1> QED
  BY <1>2, <1>3

\* Induction over sequences, by their lengths.
LEMMA InductSeq ==
  ASSUME NEW S, NEW P, <<>> \in P,
         \A s \in Seq(S) : \A e \in S : s \in P => Append(s, e) \in P
  PROVE  Seq(S) \subseteq P
<1> DEFINE Lens == {n \in Nat : \A s \in Seq(S) : Len(s) = n => s \in P}
<1>1. 0 \in Lens
  BY EmptySeq
<1>2. ASSUME NEW n \in Nat, n \in Lens PROVE n + 1 \in Lens
  <2>1. ASSUME NEW s \in Seq(S), Len(s) = n + 1 PROVE s \in P
    <3>1. s # <<>>
      BY <2>1, EmptySeq
    <3>2. PICK t \in Seq(S), e \in S : s = Append(t, e)
      BY <3>1, SequenceEmptyOrAppend
    <3>3. Len(t) = n
      BY <2>1, <3>2
    <3> QED
      BY <1>2, <3>2, <3>3
  <2> QED
    BY <2>1
<1>3. Nat \subseteq Lens
  <2> HIDE DEF Lens
  <2> QED BY <1>1, <1>2, Induct
<1> QED
  BY <1>3

\* The functions whose values are made from init by len steps.
Iterated(A, init, len, step) ==
    {g \in [0..len -> A] : g[0] = init /\ \A n \in 1..len : g[n] = step[n][g[n - 1]]}

\* There is one: what a recursive function of the model computes has a value.
LEMMA Iterate ==
  ASSUME NEW A, NEW init \in A, NEW len \in Nat, NEW step \in [1..len -> [A -> A]]
  PROVE  Iterated(A, init, len, step) # {}
<1> DEFINE P == {k \in Nat : k <= len => \E g \in [0..k -> A] :
                    g[0] = init /\ \A n \in 1..k : g[n] = step[n][g[n - 1]]}
<1>1. 0 \in P
  <2> DEFINE g == [n \in 0..0 |-> init]
  <2>1. g \in [0..0 -> A] /\ g[0] = init /\ \A n \in 1..0 : g[n] = step[n][g[n - 1]]
    OBVIOUS
  <2> QED BY <2>1
<1>2. ASSUME NEW k \in Nat, k \in P PROVE k + 1 \in P
  <2>1. SUFFICES ASSUME k + 1 <= len
                 PROVE \E g \in [0..(k+1) -> A] :
                    g[0] = init /\ \A n \in 1..(k+1) : g[n] = step[n][g[n - 1]]
    OBVIOUS
  <2>2. PICK h \in [0..k -> A] : h[0] = init /\ \A n \in 1..k : h[n] = step[n][h[n - 1]]
    BY <1>2, <2>1
  <2> DEFINE g == [n \in 0..(k+1) |-> IF n <= k THEN h[n] ELSE step[n][h[k]]]
  <2>3. h[k] \in A /\ k + 1 \in 1..len
    BY <2>1
  <2>4. step[k + 1] \in [A -> A]
    BY <2>3
  <2>5. g \in [0..(k+1) -> A]
    BY <2>3, <2>4
  <2>6. \A n \in 1..(k+1) : g[n] = step[n][g[n - 1]]
    BY <2>2
  <2>7. g[0] = init
    BY <2>2
  <2> QED BY <2>5, <2>6, <2>7
<1>3. Nat \subseteq P
  <2> HIDE DEF P
  <2> QED BY <1>1, <1>2, Induct
<1> QED
  BY <1>3 DEF Iterated

\* FlattenSeq() appends one sequence after the other.
LEMMA FlatPrefix ==
  ASSUME NEW S, NEW ss \in Seq(Seq(S))
  PROVE  \E f \in [0..Len(ss) -> Seq(S)] :
            /\ f[0] = <<>> /\ \A n \in 1..Len(ss) : f[n] = f[n - 1] \o ss[n]
            /\ FlattenSeq(ss) = f[Len(ss)]
<1> DEFINE len == Len(ss)
           step == [n \in 1..len |-> [t \in Seq(S) |-> t \o ss[n]]]
           body(h) == [i \in 1..len |-> IF i = 1 THEN ss[i] ELSE h[i - 1] \o ss[i]]
           fl == CHOOSE h : h = body(h)
<1>1. len \in Nat /\ \A n \in 1..len : ss[n] \in Seq(S)
  BY LenProperties, ElementOfSeq
<1>2. step \in [1..len -> [Seq(S) -> Seq(S)]]
  BY <1>1, ConcatProperties
<1>3. PICK f \in [0..len -> Seq(S)] : f[0] = <<>> /\ \A n \in 1..len : f[n] = step[n][f[n - 1]]
  <2> DEFINE A == Seq(S)
             init == <<>>
  <2>1. init \in A /\ len \in Nat /\ step \in [1..len -> [A -> A]]
    BY <1>1, <1>2, EmptySeq
  <2> HIDE DEF step, len, A, init
  <2>2. Iterated(A, init, len, step) # {}
    BY <2>1, Iterate
  <2> QED
    BY <2>2 DEF A, init, Iterated
<1>4. \A n \in 1..len : f[n - 1] \in Seq(S) /\ f[n] = f[n - 1] \o ss[n]
  <2> TAKE n \in 1..len
  <2>1. n - 1 \in 0..len
    BY <1>1
  <2> HIDE DEF len
  <2> QED
    BY <1>3, <2>1
<1>5. len # 0 => f[1] = ss[1]
  <2> HAVE len # 0
  <2>1. 1 \in 1..len /\ 1 - 1 = 0
    BY <1>1
  <2> HIDE DEF step, len
  <2>2. f[1] = f[0] \o ss[1] /\ f[0] = <<>> /\ ss[1] \in Seq(S)
    BY <1>1, <1>3, <1>4, <2>1
  <2> QED
    BY <2>2, ConcatEmptySeq
<1> DEFINE h == [i \in 1..len |-> f[i]]
<1>6. h = body(h)
  <2>1. \A i \in 1..len : i # 1 => i - 1 \in 1..len
    BY <1>1
  <2>2. ASSUME NEW i \in 1..len PROVE h[i] = IF i = 1 THEN ss[i] ELSE h[i - 1] \o ss[i]
    <3> HIDE DEF step, len
    <3>1. CASE i = 1
      BY <1>1, <1>5, <3>1
    <3>2. CASE i # 1
      <4>1. i - 1 \in 1..len /\ f[i] = f[i - 1] \o ss[i]
        BY <1>4, <2>1, <3>2
      <4> QED
        BY <3>2, <4>1
    <3> QED
      BY <3>1, <3>2
  <2> HIDE DEF step, len
  <2> QED
    BY <2>2
<1>7. fl = body(fl)
  <2> HIDE DEF h, body
  <2> QED
    BY <1>6
<1>8. \A i \in 1..len : fl[i] = IF i = 1 THEN ss[i] ELSE fl[i - 1] \o ss[i]
  <2> HIDE DEF fl, len
  <2> QED
    BY <1>7
<1> DEFINE P == {n \in Nat : n \in 1..len => fl[n] = f[n]}
<1>9. 0 \in P
  OBVIOUS
<1>10. ASSUME NEW n \in Nat, n \in P PROVE n + 1 \in P
  <2>1. SUFFICES ASSUME n + 1 \in 1..len PROVE fl[n + 1] = f[n + 1]
    OBVIOUS
  <2>2. CASE n = 0
    <3> HIDE DEF fl, len
    <3>1. 1 \in 1..len /\ len # 0 /\ n + 1 = 1
      BY <1>1, <2>1, <2>2
    <3> QED
      BY <1>5, <1>8, <3>1
  <2>3. CASE n # 0
    <3>1. n \in 1..len /\ (n + 1) - 1 = n /\ n + 1 # 1
      BY <1>1, <2>1, <2>3
    <3>2. fl[n] = f[n]
      BY <1>10, <3>1
    <3> HIDE DEF fl, len
    <3>3. fl[n + 1] = fl[(n + 1) - 1] \o ss[n + 1]
      BY <1>8, <2>1, <3>1
    <3>4. f[n + 1] = f[(n + 1) - 1] \o ss[n + 1]
      BY <1>4, <2>1
    <3> QED
      BY <3>1, <3>2, <3>3, <3>4
  <2> QED
    BY <2>2, <2>3
<1>11. Nat \subseteq P
  <2> HIDE DEF P
  <2> QED
    BY <1>9, <1>10, Induct
<1>12. FlattenSeq(ss) = f[len]
  <2>1. CASE len = 0
    <3>1. ss = <<>>
      BY <2>1, EmptySeq
    <3> QED
      BY <1>3, <2>1, <3>1 DEF FlattenSeq
  <2>2. CASE len # 0
    <3>1. FlattenSeq(ss) = fl[len]
      BY <2>2 DEF FlattenSeq
    <3>2. len \in 1..len /\ len \in Nat
      BY <1>1, <2>2
    <3>3. len \in P
      BY <1>11, <3>2
    <3> QED
      BY <3>1, <3>2, <3>3
  <2> QED
    BY <2>1, <2>2
<1> HIDE DEF len, step
<1> QED
  BY <1>3, <1>4, <1>12 DEF len

\* Sequences of a set, one after the other, are a sequence of it.
LEMMA FlatType ==
  ASSUME NEW S, NEW ss \in Seq(Seq(S))
  PROVE  FlattenSeq(ss) \in Seq(S)
<1>1. Len(ss) \in 0..Len(ss)
  BY LenProperties
<1>2. \E f \in [0..Len(ss) -> Seq(S)] : FlattenSeq(ss) = f[Len(ss)]
  BY FlatPrefix
<1> QED
  BY <1>1, <1>2

\* One more sequence is one more at the end.
LEMMA FlatAppend ==
  ASSUME NEW S, NEW ss \in Seq(Seq(S)), NEW s \in Seq(S)
  PROVE  FlattenSeq(Append(ss, s)) = FlattenSeq(ss) \o s
<1> DEFINE len == Len(ss)
           tt == Append(ss, s)
<1>1. /\ tt \in Seq(Seq(S)) /\ Len(tt) = len + 1 /\ len \in Nat /\ tt[len + 1] = s
      /\ \A n \in 1..len : tt[n] = ss[n]
  <2>1. len \in Nat
    BY LenProperties
  <2>2. tt \in Seq(Seq(S)) /\ Len(tt) = len + 1
    BY AppendProperties
  <2>3. tt[len + 1] = s
    BY AppendProperties
  <2>4. \A n \in 1..len : tt[n] = ss[n]
    BY AppendProperties
  <2> QED
    BY <2>1, <2>2, <2>3, <2>4
<1>2. PICK f \in [0..len -> Seq(S)] :
            /\ f[0] = <<>> /\ \A n \in 1..len : f[n] = f[n - 1] \o ss[n]
            /\ FlattenSeq(ss) = f[len]
  BY FlatPrefix
<1>3. PICK g \in [0..(len + 1) -> Seq(S)] :
            /\ g[0] = <<>> /\ \A n \in 1..(len + 1) : g[n] = g[n - 1] \o tt[n]
            /\ FlattenSeq(tt) = g[len + 1]
  <2> HIDE DEF tt, len
  <2>1. Len(tt) = len + 1 /\ tt \in Seq(Seq(S))
    BY <1>1
  <2>2. \E g \in [0..Len(tt) -> Seq(S)] :
            /\ g[0] = <<>> /\ \A n \in 1..Len(tt) : g[n] = g[n - 1] \o tt[n]
            /\ FlattenSeq(tt) = g[Len(tt)]
    BY <2>1, FlatPrefix
  <2> QED
    BY <2>1, <2>2
<1> HIDE DEF tt, len
<1> DEFINE P == {n \in Nat : n <= len => f[n] = g[n]}
<1>4. 0 \in P
  BY <1>2, <1>3
<1>5. ASSUME NEW n \in Nat, n \in P PROVE n + 1 \in P
  <2>1. SUFFICES ASSUME n + 1 <= len PROVE f[n + 1] = g[n + 1]
    OBVIOUS
  <2>2. n + 1 \in 1..len /\ n + 1 \in 1..(len + 1) /\ (n + 1) - 1 = n /\ n <= len
    BY <1>1, <2>1
  <2>3. f[n] = g[n]
    BY <1>5, <2>2
  <2> QED
    BY <1>1, <1>2, <1>3, <2>2, <2>3
<1>6. Nat \subseteq P
  <2> HIDE DEF P
  <2> QED
    BY <1>4, <1>5, Induct
<1>7. f[len] = g[len] /\ len + 1 \in 1..(len + 1) /\ (len + 1) - 1 = len
  BY <1>1, <1>6
<1> QED
  BY <1>1, <1>2, <1>3, <1>7 DEF tt

\* What each element of d is written as, one after the other.
Joined(F, d) == FlattenSeq([n \in DOMAIN d |-> F[d[n]]])

\* The text of one more element is behind the text of the others.
LEMMA JoinedFacts ==
  ASSUME NEW S, NEW T, NEW F \in [S -> Seq(T)]
  PROVE  /\ Joined(F, <<>>) = <<>>
         /\ \A d \in Seq(S) : Joined(F, d) \in Seq(T)
         /\ \A d \in Seq(S), b \in S : Joined(F, Append(d, b)) = Joined(F, d) \o F[b]
<1>1. Joined(F, <<>>) = <<>>
  <2>1. [n \in DOMAIN <<>> |-> F[<<>>[n]]] = <<>>
    OBVIOUS
  <2> QED
    BY <2>1 DEF Joined, FlattenSeq
<1>2. ASSUME NEW d \in Seq(S) PROVE [n \in DOMAIN d |-> F[d[n]]] \in Seq(Seq(T))
  <2>1. Len(d) \in Nat /\ DOMAIN d = 1..Len(d) /\ \A n \in 1..Len(d) : F[d[n]] \in Seq(T)
    BY LenProperties, ElementOfSeq
  <2> QED
    BY <2>1
<1>3. ASSUME NEW d \in Seq(S), NEW b \in S
      PROVE  [n \in DOMAIN Append(d, b) |-> F[Append(d, b)[n]]]
                = Append([n \in DOMAIN d |-> F[d[n]]], F[b])
  <2> DEFINE m == [n \in DOMAIN d |-> F[d[n]]]
  <2>1. /\ Len(d) \in Nat /\ DOMAIN d = 1..Len(d)
        /\ Append(d, b) \in Seq(S) /\ DOMAIN Append(d, b) = 1..(Len(d) + 1)
        /\ Append(d, b)[Len(d) + 1] = b
        /\ \A n \in 1..Len(d) : Append(d, b)[n] = d[n]
    BY AppendProperties, LenProperties
  <2>2. m \in Seq(Seq(T)) /\ Len(m) = Len(d) /\ F[b] \in Seq(T)
    BY <1>2, <2>1
  <2>3. \A n \in 1..Len(d) : m[n] = F[d[n]]
    BY <2>1
  <2> HIDE DEF m
  <2>4. /\ DOMAIN Append(m, F[b]) = 1..(Len(d) + 1) /\ Append(m, F[b])[Len(d) + 1] = F[b]
        /\ \A n \in 1..Len(d) : Append(m, F[b])[n] = m[n]
        /\ Append(m, F[b]) \in [1..(Len(d) + 1) -> Seq(T)]
    <3>1. \A e \in Seq(T) :
            /\ Append(m, e) \in Seq(Seq(T)) /\ Len(Append(m, e)) = Len(m) + 1
            /\ Append(m, e)[Len(m) + 1] = e /\ \A n \in 1..Len(m) : Append(m, e)[n] = m[n]
      BY <2>2, AppendProperties
    <3>2. \A t \in Seq(Seq(T)) : t \in [1..Len(t) -> Seq(T)] /\ DOMAIN t = 1..Len(t)
      BY LenProperties
    <3> QED
      BY <2>2, <3>1, <3>2
  <2>5. \A n \in 1..(Len(d) + 1) : n = Len(d) + 1 \/ n \in 1..Len(d)
    BY <2>1
  <2>6. \A n \in 1..(Len(d) + 1) : F[Append(d, b)[n]] = Append(m, F[b])[n]
    BY <2>1, <2>3, <2>4, <2>5
  <2> QED
    BY <2>1, <2>4, <2>6 DEF m
<1> QED
  BY <1>1, <1>2, <1>3, FlatType, FlatAppend DEF Joined

-----------------------------------------------------------------------------
(* Digits. *)

\* Min() of a set of two.
LEMMA MinOfTwo ==
  ASSUME NEW m \in Int, NEW n \in Int
  PROVE  Min({m, n}) = IF m <= n THEN m ELSE n
<1> DEFINE k == IF m <= n THEN m ELSE n
<1>1. k \in {m, n} /\ \A i \in {m, n} : k <= i
  OBVIOUS
<1>2. \A j \in {m, n} : (\A i \in {m, n} : j <= i) => j = k
  OBVIOUS
<1> HIDE DEF k
<1> QED
  BY <1>1, <1>2 DEF Min, k

\* os_strlcpy() and the others that cut leave what fits as it is.
LEMMA CutFacts ==
  ASSUME NEW S, NEW s \in Seq(S), NEW n \in Int
  PROVE  /\ n >= Len(s) => Cut(s, n) = s
         /\ n <= Len(s) => Cut(s, n) = SubSeq(s, 1, n)
<1>1. Len(s) \in Int /\ SubSeq(s, 1, Len(s)) = s
  BY LenProperties, SubSeqFull
<1>2. Min({n, Len(s)}) = IF n <= Len(s) THEN n ELSE Len(s)
  BY <1>1, MinOfTwo
<1>3. Cut(s, n) = SubSeq(s, 1, IF n <= Len(s) THEN n ELSE Len(s))
  BY <1>2 DEF Cut
<1>4. n >= Len(s) => (IF n <= Len(s) THEN n ELSE Len(s)) = Len(s)
  <2> DEFINE len == Len(s)
  <2>1. len \in Int
    BY LenProperties
  <2> HIDE DEF len
  <2>2. n >= len => (IF n <= len THEN n ELSE len) = len
    BY <2>1
  <2> QED
    BY <2>2 DEF len
<1>5. n <= Len(s) => (IF n <= Len(s) THEN n ELSE Len(s)) = n
  OBVIOUS
<1> QED
  BY <1>1, <1>3, <1>4, <1>5

\* The first n elements.
LEMMA PrefixFacts ==
  ASSUME NEW S, NEW s \in Seq(S), NEW n \in 0..Len(s)
  PROVE  /\ SubSeq(s, 1, n) \in Seq(S) /\ Len(SubSeq(s, 1, n)) = n
         /\ \A i \in 1..n : SubSeq(s, 1, n)[i] = s[i]
         /\ IsPrefix(SubSeq(s, 1, n), s)
<1>1. Len(s) \in Nat /\ n \in Nat /\ n <= Len(s) /\ \A i \in 1..n : s[i] \in S
  BY LenProperties, ElementOfSeq
<1> DEFINE t == SubSeq(s, 1, n)
<1>2. t \in Seq(S) /\ Len(t) = n /\ \A i \in 1..n : t[i] = s[i]
  <2>1. t \in Seq(S) /\ Len(t) = (IF 1 <= n THEN n - 1 + 1 ELSE 0)
        /\ \A i \in 1..(n - 1 + 1) : t[i] = s[1 + i - 1]
    BY <1>1, 1 \in Int, n \in Int, SubSeqProperties
  <2> HIDE DEF t
  <2> QED
    BY <1>1, <2>1
<1>3. SubSeq(t, 1, Len(t)) = t
  BY <1>2, SubSeqFull
<1> QED
  BY <1>1, <1>2, <1>3 DEF IsPrefix

-----------------------------------------------------------------------------
\* Bytes are numbers.
LEMMA ByteIsNumber == \A b \in Byte : b \in Nat /\ b >= 0 /\ ~(b < 0)
BY DEF Byte

\* The digits that are written: 0-9 and a-f.
HexChars == (48..57) \cup (97..102)

\* hex2num() reads a digit as what it was written from (common.c:14-24).
LEMMA DigitRead == \A n \in 0..15 : Digit(n) \in HexChars /\ hex2num(Digit(n)) = n
BY DEF Digit, HexChars, hex2num

\* A byte is written as two digits, the higher half first.
LEMMA HexOfByte ==
  ASSUME NEW b \in Byte
  PROVE  /\ Hex(b) \in Seq(HexChars) /\ Len(Hex(b)) = 2
         /\ Hex(b)[1] = Digit(b \div 16) /\ Hex(b)[2] = Digit(b % 16)
         /\ b \div 16 \in 0..15 /\ b % 16 \in 0..15 /\ 16 * (b \div 16) + (b % 16) = b
<1>1. b \div 16 \in 0..15 /\ b % 16 \in 0..15 /\ 16 * (b \div 16) + (b % 16) = b
  BY DEF Byte
<1>2. Digit(b \div 16) \in HexChars /\ Digit(b % 16) \in HexChars
  BY <1>1, DigitRead
<1> QED
  BY <1>1, <1>2 DEF Hex

\* And hex2byte() reads it back (common.c:27-40).
LEMMA HexByteRead ==
  ASSUME NEW s, NEW p \in Nat, NEW b \in Byte, p \in DOMAIN s, p + 1 \in DOMAIN s,
         s[p] = Digit(b \div 16), s[p + 1] = Digit(b % 16)
  PROVE  hex2byte(s, p) = b
<1>1. At(s, p) = Digit(b \div 16) /\ At(s, p + 1) = Digit(b % 16)
  BY DEF At
<1>2. hex2num(At(s, p)) = b \div 16 /\ hex2num(At(s, p + 1)) = b % 16
  BY <1>1, HexOfByte, DigitRead
<1> DEFINE hi == b \div 16
           lo == b % 16
<1>3. hi \in 0..15 /\ lo \in 0..15 /\ 16 * hi + lo = b
  BY HexOfByte
<1> HIDE DEF hi, lo
<1> QED
  BY <1>2, <1>3 DEF hex2byte, hi, lo

\* All of d in hexadecimal.
HexText(d) == FlattenSeq([n \in DOMAIN d |-> Hex(d[n])])

\* The places of byte n in a text of k characters for each.
LEMMA HexTextFacts ==
  ASSUME NEW d \in Seq(Byte)
  PROVE  /\ HexText(d) \in Seq(HexChars) /\ Len(HexText(d)) = 2 * Len(d)
         /\ \A n \in 1..Len(d) :
                /\ HexText(d)[2 * n - 1] = Digit(d[n] \div 16)
                /\ HexText(d)[2 * n] = Digit(d[n] % 16)
<1> DEFINE F == [b \in Byte |-> Hex(b)]
           P == {e \in Seq(Byte) :
                    /\ HexText(e) \in Seq(HexChars) /\ Len(HexText(e)) = 2 * Len(e)
                    /\ \A n \in 1..Len(e) :
                        /\ HexText(e)[2 * n - 1] = Digit(e[n] \div 16)
                        /\ HexText(e)[2 * n] = Digit(e[n] % 16)}
<1>1. F \in [Byte -> Seq(HexChars)]
  BY HexOfByte
<1>2. \A e \in Seq(Byte) : HexText(e) = Joined(F, e)
  <2> TAKE e \in Seq(Byte)
  <2>1. \A n \in DOMAIN e : e[n] \in Byte
    BY LenProperties, ElementOfSeq
  <2>2. [n \in DOMAIN e |-> Hex(e[n])] = [n \in DOMAIN e |-> F[e[n]]]
    BY <2>1
  <2> QED
    BY <2>2 DEF HexText, Joined
<1>3. /\ Joined(F, <<>>) = <<>>
      /\ \A e \in Seq(Byte) : Joined(F, e) \in Seq(HexChars)
      /\ \A e \in Seq(Byte), b \in Byte : Joined(F, Append(e, b)) = Joined(F, e) \o F[b]
  <2> HIDE DEF F
  <2> QED
    BY <1>1, JoinedFacts
<1>4. <<>> \in P
  <2>1. HexText(<<>>) = <<>> /\ <<>> \in Seq(Byte) /\ Len(<<>>) = 0
    BY <1>2, <1>3, EmptySeq
  <2>2. <<>> \in Seq(HexChars)
    BY EmptySeq
  <2>3. Len(HexText(<<>>)) = 2 * Len(<<>>)
    BY <2>1
  <2>4. \A n \in 1..Len(<<>>) : /\ HexText(<<>>)[2 * n - 1] = Digit(<<>>[n] \div 16)
                                /\ HexText(<<>>)[2 * n] = Digit(<<>>[n] % 16)
    BY <2>1
  <2>5. HexText(<<>>) \in Seq(HexChars)
    BY <2>1, <2>2
  <2> QED
    BY <2>1, <2>3, <2>4, <2>5
<1>5. ASSUME NEW e \in Seq(Byte), NEW b \in Byte, e \in P PROVE Append(e, b) \in P
  <2> DEFINE t == HexText(e)
             u == HexText(Append(e, b))
             k == Len(e)
  <2>1. /\ Append(e, b) \in Seq(Byte) /\ Len(Append(e, b)) = k + 1 /\ k \in Nat
        /\ Append(e, b)[k + 1] = b /\ \A n \in 1..k : Append(e, b)[n] = e[n]
    BY AppendProperties, LenProperties
  <2>2. u = t \o Hex(b)
    BY <1>2, <1>3, <2>1
  <2>3. /\ t \in Seq(HexChars) /\ Len(t) = 2 * k
        /\ \A n \in 1..k : t[2 * n - 1] = Digit(e[n] \div 16) /\ t[2 * n] = Digit(e[n] % 16)
    BY <1>5
  <2> HIDE DEF t, u, k
  <2>4. /\ u \in Seq(HexChars) /\ Len(u) = 2 * k + 2
        /\ \A i \in 1..(2 * k) : u[i] = t[i]
        /\ u[2 * k + 1] = Hex(b)[1] /\ u[2 * k + 2] = Hex(b)[2]
    <3> DEFINE h == Hex(b)
    <3>1. h \in Seq(HexChars) /\ Len(h) = 2
      BY HexOfByte
    <3> HIDE DEF h
    <3>2. u = t \o h
      BY <2>2 DEF h
    <3>3. /\ u \in Seq(HexChars) /\ Len(u) = 2 * k + 2
          /\ \A i \in 1..(2 * k + 2) : u[i] = IF i <= 2 * k THEN t[i] ELSE h[i - 2 * k]
      <4>1. /\ t \o h \in Seq(HexChars) /\ Len(t \o h) = Len(t) + Len(h)
            /\ \A i \in 1..(Len(t) + Len(h)) :
                    (t \o h)[i] = IF i <= Len(t) THEN t[i] ELSE h[i - Len(t)]
        BY <2>3, <3>1, ConcatProperties
      <4> QED
        BY <2>3, <3>1, <3>2, <4>1
    <3>4. u[2 * k + 1] = h[(2 * k + 1) - 2 * k] /\ u[2 * k + 2] = h[(2 * k + 2) - 2 * k]
      <4>1. /\ 2 * k + 1 \in 1..(2 * k + 2) /\ ~(2 * k + 1 <= 2 * k)
            /\ 2 * k + 2 \in 1..(2 * k + 2) /\ ~(2 * k + 2 <= 2 * k)
        BY <2>1
      <4> QED
        BY <3>3, <4>1
    <3>5. (2 * k + 1) - 2 * k = 1 /\ (2 * k + 2) - 2 * k = 2
      BY <2>1
    <3>6. \A i \in 1..(2 * k) : u[i] = t[i]
      BY <2>1, <3>3
    <3> QED
      BY <3>3, <3>4, <3>5, <3>6 DEF h
  <2>5. \A n \in 1..(k + 1) : \/ n = k + 1
                              \/ n \in 1..k /\ 2 * n - 1 \in 1..(2 * k) /\ 2 * n \in 1..(2 * k)
    BY <2>1
  <2>6. \A n \in 1..(k + 1) : /\ u[2 * n - 1] = Digit(Append(e, b)[n] \div 16)
                              /\ u[2 * n] = Digit(Append(e, b)[n] % 16)
    <3> TAKE n \in 1..(k + 1)
    <3>1. CASE n = k + 1
      <4>1. 2 * n - 1 = 2 * k + 1 /\ 2 * n = 2 * k + 2
        BY <2>1, <3>1
      <4> QED
        BY <2>1, <2>4, <3>1, <4>1, HexOfByte
    <3>2. CASE n \in 1..k
      <4>1. 2 * n - 1 \in 1..(2 * k) /\ 2 * n \in 1..(2 * k)
        BY <2>1, <3>2
      <4> QED
        BY <2>1, <2>3, <2>4, <3>2, <4>1
    <3> QED
      BY <2>5, <3>1, <3>2
  <2> QED
    <3>1. HexText(Append(e, b)) \in Seq(HexChars)
      BY <2>4 DEF u
    <3>2. Len(HexText(Append(e, b))) = 2 * Len(Append(e, b))
      BY <2>1, <2>4 DEF u
    <3>3. \A n \in 1..Len(Append(e, b)) :
            /\ HexText(Append(e, b))[2 * n - 1] = Digit(Append(e, b)[n] \div 16)
            /\ HexText(Append(e, b))[2 * n] = Digit(Append(e, b)[n] % 16)
      BY <2>1, <2>6 DEF u
    <3> QED
      BY <2>1, <3>1, <3>2, <3>3
<1>6. Seq(Byte) \subseteq P
  <2> HIDE DEF P
  <2> QED
    BY <1>4, <1>5, InductSeq
<1> QED
  BY <1>6

\* k bytes are read from the first 2 * k characters.
LEMMA HexRead ==
  ASSUME NEW d \in Seq(Byte), NEW k \in 0..Len(d), NEW s,
         \A n \in 1..k : hex2byte(s, 2 * n - 1) = d[n]
  PROVE  hexstr2bin(s, k) = SubSeq(d, 1, k)
<1>1. Len(d) \in Nat /\ \A n \in 1..k : d[n] \in Byte
  BY LenProperties, ElementOfSeq
<1> DEFINE bin == [n \in 1..k |-> hex2byte(s, 2 * n - 1)]
<1>2. \A n \in 1..k : bin[n] = d[n] /\ ~(bin[n] < 0)
  <2>1. \A n \in 1..k : bin[n] = d[n]
    OBVIOUS
  <2> HIDE DEF bin
  <2>2. ASSUME NEW n \in 1..k PROVE ~(bin[n] < 0)
    <3>1. bin[n] \in 0..255
      BY <1>1, <2>1 DEF Byte
    <3>2. \A x \in 0..255 : ~(x < 0)
      OBVIOUS
    <3> QED
      BY <3>1, <3>2
  <2> QED
    BY <2>1, <2>2
<1>3. bin \in Seq(Byte) /\ Len(bin) = k
  <2>1. bin = [n \in 1..k |-> d[n]]
    OBVIOUS
  <2>2. k \in Nat
    BY <1>1
  <2> HIDE DEF bin
  <2> QED
    BY <1>1, <2>1, <2>2
<1>4. bin = SubSeq(d, 1, k)
  <2>1. SubSeq(d, 1, k) \in Seq(Byte) /\ Len(SubSeq(d, 1, k)) = k
        /\ \A n \in 1..k : SubSeq(d, 1, k)[n] = d[n]
    BY PrefixFacts
  <2> HIDE DEF bin
  <2> QED
    BY <1>2, <1>3, <2>1, SeqEqual
<1>5. hexstr2bin(s, k) = bin
  BY <1>2 DEF hexstr2bin
<1> QED
  BY <1>4, <1>5

\* The first 2 * k characters of the text of d, with anything behind them.
LEMMA HexPrefixRead ==
  ASSUME NEW d \in Seq(Byte), NEW k \in 0..Len(d), NEW s \in Seq(Nat), Len(s) >= 2 * k,
         \A i \in 1..(2 * k) : s[i] = HexText(d)[i]
  PROVE  hexstr2bin(s, k) = SubSeq(d, 1, k)
<1>1. ASSUME NEW n \in 1..k PROVE hex2byte(s, 2 * n - 1) = d[n]
  <2>1. Len(d) \in Nat /\ n \in 1..Len(d) /\ d[n] \in Byte /\ Len(s) \in Nat /\ DOMAIN s = 1..Len(s)
    BY LenProperties, ElementOfSeq
  <2>2. /\ 2 * n - 1 \in 1..(2 * k) /\ 2 * n \in 1..(2 * k) /\ 2 * n - 1 \in Nat
        /\ (2 * n - 1) + 1 = 2 * n /\ 2 * n - 1 \in DOMAIN s /\ 2 * n \in DOMAIN s
    BY <2>1
  <2>3. s[2 * n - 1] = Digit(d[n] \div 16) /\ s[2 * n] = Digit(d[n] % 16)
    BY <2>1, <2>2, HexTextFacts
  <2> QED
    BY <2>1, <2>2, <2>3, HexByteRead
<1> QED
  BY <1>1, HexRead

-----------------------------------------------------------------------------
(* Printed text. *)

\* The characters that are printed as they are.
Printable == 32..126

\* An escape is one to four printable characters (common.c:466-512).
LEMMA EscapedType ==
  ASSUME NEW b \in Byte
  PROVE  Escaped(b) \in Seq(Printable) /\ Len(Escaped(b)) \in 1..4
<1>1. CASE b \in DOMAIN Letter
  <2>1. Escaped(b) = <<Backslash, Letter[b]>>
    BY <1>1 DEF Escaped
  <2>2. Backslash \in Printable /\ Letter[b] \in Printable
    BY <1>1 DEF Letter, Backslash, Quote, Printable
  <2> QED
    BY <2>1, <2>2
<1>2. CASE b \notin DOMAIN Letter /\ b \in 32..126
  <2>1. Escaped(b) = <<b>>
    BY <1>2 DEF Escaped
  <2> QED
    BY <1>2, <2>1 DEF Printable
<1>3. CASE b \notin DOMAIN Letter /\ b \notin 32..126
  <2> DEFINE h == Hex(b)
             x == <<Backslash, LetterX>>
  <2>1. Escaped(b) = x \o h
    BY <1>3 DEF Escaped
  <2>2. h \in Seq(Printable) /\ Len(h) = 2
    <3>1. HexChars \subseteq Printable
      BY DEF HexChars, Printable
    <3> QED
      BY <3>1, HexOfByte, SeqMonotonic
  <2>3. x \in Seq(Printable) /\ Len(x) = 2
    BY DEF Backslash, LetterX, Printable
  <2> HIDE DEF h, x
  <2>4. x \o h \in Seq(Printable) /\ Len(x \o h) = Len(x) + Len(h)
    BY <2>2, <2>3, ConcatProperties
  <2> QED
    BY <2>1, <2>2, <2>3, <2>4
<1> QED
  BY <1>1, <1>2, <1>3

\* An escaped byte is read as that byte, whatever follows.
LEMMA UnitRead ==
  ASSUME NEW b \in Byte, NEW t \in Seq(Nat), NEW p \in Nat \ {0},
         p + Len(Escaped(b)) - 1 <= Len(t),
         \A i \in 1..Len(Escaped(b)) : t[p + i - 1] = Escaped(b)[i]
  PROVE  Unit(t, p) = [out |-> <<b>>, used |-> Len(Escaped(b))]
<1> DEFINE u == Escaped(b)
<1>1. Len(t) \in Nat /\ DOMAIN t = 1..Len(t) /\ u \in Seq(Printable) /\ Len(u) \in 1..4
  BY LenProperties, EscapedType
<1>2. \A i \in 1..Len(u) : p + i - 1 \in DOMAIN t /\ At(t, p + i - 1) = u[i]
  <2> HIDE DEF u
  <2>1. \A i \in 1..Len(u) : p + i - 1 \in 1..Len(t)
    BY <1>1 DEF u
  <2> QED
    BY <1>1, <2>1 DEF At, u
<1>3. t[p] = u[1]
  <2>1. p + 1 - 1 = p /\ t[p + 1 - 1] = u[1]
    <3> HIDE DEF u
    <3>1. 1 \in 1..Len(u)
      <4>1. \A l \in 1..4 : 1 \in 1..l
        OBVIOUS
      <4> QED
        BY <1>1, <4>1
    <3>2. \A i \in 1..Len(u) : t[p + i - 1] = u[i]
      BY DEF u
    <3> QED
      BY <3>1, <3>2
  <2> QED
    BY <2>1
<1>4. CASE b \in DOMAIN Letter
  <2>1. u = <<Backslash, Letter[b]>>
    BY <1>4 DEF Escaped
  <2>2. t[p] = Backslash
    BY <1>3, <2>1
  <2>3. At(t, p + 1) = Letter[b]
    <3>1. 2 \in 1..Len(u) /\ p + 2 - 1 = p + 1 /\ u[2] = Letter[b]
      BY <2>1
    <3> HIDE DEF u
    <3> QED
      BY <1>2, <3>1
  <2>4. \A e \in DOMAIN Letter : Letter[e] = Letter[b] => e = b
    BY <1>4 DEF Letter, Quote, Backslash
  <2>5. (CHOOSE e \in DOMAIN Letter : Letter[e] = At(t, p + 1)) = b
    BY <1>4, <2>3, <2>4
  <2>6. \E e \in DOMAIN Letter : Letter[e] = At(t, p + 1)
    BY <1>4, <2>3
  <2>7. Unit(t, p) = [out |-> <<CHOOSE e \in DOMAIN Letter : Letter[e] = At(t, p + 1)>>,
                      used |-> 2]
    BY <2>2, <2>6 DEF Unit
  <2>8. Len(u) = 2
    BY <2>1
  <2> QED
    BY <2>5, <2>7, <2>8
<1>5. CASE b \notin DOMAIN Letter /\ b \in 32..126
  <2>1. u = <<b>>
    BY <1>5 DEF Escaped
  <2>2. t[p] = b /\ b # Backslash /\ Len(u) = 1
    BY <1>3, <1>5, <2>1 DEF Letter, Backslash
  <2>3. Unit(t, p) = [out |-> <<t[p]>>, used |-> 1]
    BY <2>2 DEF Unit
  <2> QED
    BY <2>2, <2>3
<1>6. CASE b \notin DOMAIN Letter /\ b \notin 32..126
  <2> DEFINE h == Hex(b)
             x == <<Backslash, LetterX>>
  <2>1. u = x \o h
    BY <1>6 DEF Escaped
  <2>2. h \in Seq(Nat) /\ Len(h) = 2 /\ h[1] = Digit(b \div 16) /\ h[2] = Digit(b % 16)
    <3>1. HexChars \subseteq Nat
      BY DEF HexChars
    <3> QED
      BY <3>1, HexOfByte, SeqMonotonic
  <2>3. x \in Seq(Nat) /\ Len(x) = 2 /\ x[1] = Backslash /\ x[2] = LetterX
    BY DEF Backslash, LetterX
  <2> HIDE DEF h, x
  <2>4. /\ Len(x \o h) = Len(x) + Len(h)
        /\ \A i \in 1..(Len(x) + Len(h)) :
            (x \o h)[i] = IF i <= Len(x) THEN x[i] ELSE h[i - Len(x)]
    BY <2>2, <2>3, ConcatProperties
  <2>5. Len(u) = 4 /\ u[1] = Backslash /\ u[2] = LetterX
        /\ u[3] = Digit(b \div 16) /\ u[4] = Digit(b % 16)
    <3>1. Len(x) + Len(h) = 4
      BY <2>2, <2>3
    <3>2. \A i \in 1..4 : u[i] = IF i <= 2 THEN x[i] ELSE h[i - 2]
      BY <2>1, <2>3, <2>4, <3>1
    <3>3. u[1] = x[1] /\ u[2] = x[2] /\ u[3] = h[3 - 2] /\ u[4] = h[4 - 2]
      BY <3>2
    <3> QED
      BY <2>1, <2>2, <2>3, <2>4, <3>1, <3>3
  <2> HIDE DEF u
  <2>6. t[p] = Backslash /\ At(t, p + 1) = LetterX
    <3>1. 2 \in 1..Len(u) /\ p + 2 - 1 = p + 1
      BY <2>5
    <3> QED
      BY <1>2, <1>3, <2>5, <3>1
  <2>7. hex2byte(t, p + 2) = b
    <3>1. p + 2 \in DOMAIN t /\ p + 2 \in Nat /\ (p + 2) + 1 \in DOMAIN t
          /\ p + 3 - 1 = p + 2 /\ p + 4 - 1 = (p + 2) + 1 /\ 3 \in 1..Len(u) /\ 4 \in 1..Len(u)
      BY <1>1, <2>5 DEF u
    <3>2. t[p + 2] = u[3] /\ t[(p + 2) + 1] = u[4]
      BY <3>1 DEF u
    <3> QED
      BY <2>5, <3>1, <3>2, HexByteRead
  <2>8. ~\E e \in DOMAIN Letter : Letter[e] = LetterX
    <3>1. ASSUME NEW e \in {Quote, Backslash, 27, 10, 13, 9}
          PROVE  Letter[e] \in {Quote, Backslash, 101, 110, 114, 116}
      BY <3>1 DEF Letter, Quote, Backslash
    <3>2. LetterX \notin {Quote, Backslash, 101, 110, 114, 116}
      BY DEF LetterX, Quote, Backslash
    <3>3. DOMAIN Letter = {Quote, Backslash, 27, 10, 13, 9}
      BY DEF Letter
    <3> QED
      BY <3>1, <3>2, <3>3
  <2>9. b >= 0
    BY DEF Byte
  <2>10. Unit(t, p) = [out |-> <<hex2byte(t, p + 2)>>, used |-> 4]
    BY <2>6, <2>7, <2>8, <2>9 DEF Unit
  <2> QED
    BY <2>5, <2>7, <2>10 DEF u
<1> QED
  BY <1>4, <1>5, <1>6

-----------------------------------------------------------------------------
\* What each byte is printed as.
EscapeOf == [b \in Byte |-> Escaped(b)]

\* All of d as it is printed where there is room.
Plain(d) == Joined(EscapeOf, d)

\* The text of one more byte is behind the text of the others.
LEMMA PlainFacts ==
  /\ Plain(<<>>) = <<>>
  /\ \A d \in Seq(Byte) : Plain(d) \in Seq(Printable)
  /\ \A d \in Seq(Byte), b \in Byte : Plain(Append(d, b)) = Plain(d) \o Escaped(b)
<1>1. EscapeOf \in [Byte -> Seq(Printable)]
  BY EscapedType DEF EscapeOf
<1>2. \A b \in Byte : EscapeOf[b] = Escaped(b)
  BY DEF EscapeOf
<1>3. /\ Joined(EscapeOf, <<>>) = <<>>
      /\ \A d \in Seq(Byte) : Joined(EscapeOf, d) \in Seq(Printable)
      /\ \A d \in Seq(Byte), b \in Byte :
            Joined(EscapeOf, Append(d, b)) = Joined(EscapeOf, d) \o EscapeOf[b]
  BY <1>1, JoinedFacts
<1> QED
  BY <1>2, <1>3 DEF Plain

\* The first n + 1 elements are the first n and one more.
LEMMA PrefixGrows ==
  ASSUME NEW S, NEW s \in Seq(S), NEW n \in 1..Len(s)
  PROVE  /\ SubSeq(s, 1, n - 1) \in Seq(S) /\ s[n] \in S /\ n - 1 \in 0..Len(s) /\ n \in 0..Len(s)
         /\ SubSeq(s, 1, n) = Append(SubSeq(s, 1, n - 1), s[n])
<1>1. Len(s) \in Nat /\ n - 1 \in 0..Len(s) /\ n \in 0..Len(s) /\ s[n] \in S
  BY LenProperties, ElementOfSeq
<1> DEFINE t == SubSeq(s, 1, n - 1)
           u == SubSeq(s, 1, n)
<1>2. t \in Seq(S) /\ Len(t) = n - 1 /\ \A i \in 1..(n - 1) : t[i] = s[i]
  BY <1>1, PrefixFacts
<1>3. u \in Seq(S) /\ Len(u) = n /\ \A i \in 1..n : u[i] = s[i]
  BY <1>1, PrefixFacts
<1> HIDE DEF t, u
<1>4. /\ Append(t, s[n]) \in Seq(S) /\ Len(Append(t, s[n])) = Len(t) + 1
      /\ \A i \in 1..Len(t) : Append(t, s[n])[i] = t[i]
      /\ Append(t, s[n])[Len(t) + 1] = s[n]
  BY <1>1, <1>2, AppendProperties
<1>5. \A i \in 1..n : i = n \/ i \in 1..(n - 1)
  OBVIOUS
<1>6. Len(t) + 1 = n
  BY <1>1, <1>2
<1>7. u = Append(t, s[n])
  BY <1>2, <1>3, <1>4, <1>5, <1>6, SeqEqual
<1> QED
  BY <1>1, <1>2, <1>7 DEF t, u

\* What is printed of d is all of a prefix, which is d unless there was no room left.
LEMMA PlainPrefix ==
  ASSUME NEW d \in Seq(Byte), NEW n \in 1..Len(d)
  PROVE  /\ Plain(SubSeq(d, 1, n - 1)) \in Seq(Printable)
         /\ Plain(SubSeq(d, 1, n)) = Plain(SubSeq(d, 1, n - 1)) \o Escaped(d[n])
         /\ Len(Plain(SubSeq(d, 1, n))) = Len(Plain(SubSeq(d, 1, n - 1))) + Len(Escaped(d[n]))
<1>1. /\ SubSeq(d, 1, n - 1) \in Seq(Byte) /\ d[n] \in Byte
      /\ SubSeq(d, 1, n) = Append(SubSeq(d, 1, n - 1), d[n])
  BY PrefixGrows
<1>2. /\ Plain(SubSeq(d, 1, n - 1)) \in Seq(Printable)
      /\ Plain(SubSeq(d, 1, n)) = Plain(SubSeq(d, 1, n - 1)) \o Escaped(d[n])
  BY <1>1, PlainFacts
<1>3. Escaped(d[n]) \in Seq(Printable)
  BY <1>1, EscapedType
<1> QED
  BY <1>2, <1>3, ConcatProperties

\* One to four characters for each byte.
LEMMA PlainLength ==
  ASSUME NEW d \in Seq(Byte), NEW k \in 0..Len(d)
  PROVE  Len(Plain(SubSeq(d, 1, k))) \in k..(4 * k)
<1> DEFINE P == {n \in Nat : n <= Len(d) => Len(Plain(SubSeq(d, 1, n))) \in n..(4 * n)}
<1>1. Len(d) \in Nat
  BY LenProperties
<1>2. 0 \in P
  <2>1. SubSeq(d, 1, 0) = <<>>
    BY SubSeqEmpty
  <2>2. Len(Plain(SubSeq(d, 1, 0))) = 0
    BY <2>1, PlainFacts, EmptySeq
  <2> QED
    BY <2>2
<1>3. ASSUME NEW n \in Nat, n \in P PROVE n + 1 \in P
  <2>1. SUFFICES ASSUME n + 1 <= Len(d)
                 PROVE  Len(Plain(SubSeq(d, 1, n + 1))) \in (n + 1)..(4 * (n + 1))
    OBVIOUS
  <2>2. n + 1 \in 1..Len(d) /\ (n + 1) - 1 = n /\ n <= Len(d)
    BY <1>1, <2>1
  <2>3. Len(Plain(SubSeq(d, 1, n))) \in n..(4 * n)
    BY <1>3, <2>2
  <2>4. Len(Plain(SubSeq(d, 1, n + 1)))
            = Len(Plain(SubSeq(d, 1, (n + 1) - 1))) + Len(Escaped(d[n + 1]))
    BY <2>2, PlainPrefix
  <2>5. Len(Escaped(d[n + 1])) \in 1..4
    BY <2>2, ElementOfSeq, EscapedType
  <2> DEFINE a == Len(Plain(SubSeq(d, 1, n)))
             e == Len(Escaped(d[n + 1]))
  <2>6. a \in n..(4 * n) /\ e \in 1..4 /\ Len(Plain(SubSeq(d, 1, n + 1))) = a + e
    BY <2>2, <2>3, <2>4, <2>5
  <2>7. a + e \in (n + 1)..(4 * (n + 1))
    <3> HIDE DEF a, e
    <3> QED
      BY <2>6
  <2> QED
    BY <2>6, <2>7
<1>4. Nat \subseteq P
  <2> HIDE DEF P
  <2> QED
    BY <1>2, <1>3, Induct
<1> QED
  BY <1>1, <1>4

-----------------------------------------------------------------------------
(* Functions that are computed step by step. *)

\* Two functions that take the same steps from the same start.
SameSteps(f, g, len) ==
    f[0] = g[0] /\ \A n \in 1..len : f[n - 1] = g[n - 1] => f[n] = g[n]

\* They have the same values.
LEMMA SameValues ==
  ASSUME NEW len \in Nat, NEW f, NEW g, SameSteps(f, g, len)
  PROVE  \A n \in 0..len : f[n] = g[n]
<1> DEFINE P == {n \in Nat : n <= len => f[n] = g[n]}
<1>1. 0 \in P
  BY DEF SameSteps
<1>2. ASSUME NEW n \in Nat, n \in P PROVE n + 1 \in P
  <2>1. n + 1 <= len => n + 1 \in 1..len /\ (n + 1) - 1 = n /\ n <= len
    OBVIOUS
  <2> QED
    BY <1>2, <2>1 DEF SameSteps
<1>3. Nat \subseteq P
  <2> HIDE DEF P
  <2> QED
    BY <1>1, <1>2, Induct
<1> QED
  BY <1>3

\* What begins a sequence begins a longer one.
LEMMA PrefixOfAppend ==
  ASSUME NEW S, NEW s \in Seq(S), NEW e \in S, NEW n \in 0..Len(s)
  PROVE  SubSeq(Append(s, e), 1, n) = SubSeq(s, 1, n)
<1> DEFINE t == Append(s, e)
<1>1. /\ Len(s) \in Nat /\ t \in Seq(S) /\ Len(t) = Len(s) + 1
      /\ \A i \in 1..Len(s) : t[i] = s[i]
  BY LenProperties, AppendProperties
<1>2. n \in 0..Len(t) /\ \A i \in 1..n : i \in 1..Len(s)
  BY <1>1
<1>3. /\ SubSeq(s, 1, n) \in Seq(S) /\ Len(SubSeq(s, 1, n)) = n
      /\ \A i \in 1..n : SubSeq(s, 1, n)[i] = s[i]
  BY PrefixFacts
<1> HIDE DEF t
<1>4. /\ SubSeq(t, 1, n) \in Seq(S) /\ Len(SubSeq(t, 1, n)) = n
      /\ \A i \in 1..n : SubSeq(t, 1, n)[i] = t[i]
  BY <1>1, <1>2, PrefixFacts
<1>5. SubSeq(t, 1, n) = SubSeq(s, 1, n)
  BY <1>1, <1>2, <1>3, <1>4, SeqEqual
<1> QED
  BY <1>5 DEF t

\* Where the n-th element of d stands in the text.
Placed(F, d, n) ==
    LET before == Len(Joined(F, SubSeq(d, 1, n - 1)))
        b == F[d[n]]
    IN  /\ before \in Nat /\ before + Len(b) <= Len(Joined(F, d))
        /\ Len(Joined(F, SubSeq(d, 1, n))) = before + Len(b)
        /\ \A i \in 1..Len(b) : Joined(F, d)[before + i] = b[i]

\* Every element has its place in the text, behind those before it.
LEMMA JoinedPlace ==
  ASSUME NEW S, NEW T, NEW F \in [S -> Seq(T)], NEW d \in Seq(S), NEW n \in 1..Len(d)
  PROVE  Placed(F, d, n)
<1> DEFINE before(e, k) == Len(Joined(F, SubSeq(e, 1, k - 1)))
           P == {e \in Seq(S) : \A k \in 1..Len(e) : Placed(F, e, k)}
<1>1. /\ Joined(F, <<>>) = <<>>
      /\ \A e \in Seq(S) : Joined(F, e) \in Seq(T) /\ Len(Joined(F, e)) \in Nat
      /\ \A e \in Seq(S), c \in S : Joined(F, Append(e, c)) = Joined(F, e) \o F[c]
  <2> HIDE DEF P
  <2>1. /\ Joined(F, <<>>) = <<>>
        /\ \A e \in Seq(S) : Joined(F, e) \in Seq(T)
        /\ \A e \in Seq(S), c \in S : Joined(F, Append(e, c)) = Joined(F, e) \o F[c]
    BY JoinedFacts
  <2>2. \A e \in Seq(S) : Len(Joined(F, e)) \in Nat
    <3> TAKE e \in Seq(S)
    <3>1. Joined(F, e) \in Seq(T)
      BY <2>1
    <3> QED
      BY <3>1, LenProperties
  <2> QED
    BY <2>1, <2>2
<1>2. <<>> \in P
  <2>1. Len(<<>>) = 0 /\ <<>> \in Seq(S)
    BY EmptySeq
  <2>2. \A k \in 1..Len(<<>>) : Placed(F, <<>>, k)
    BY <2>1
  <2> QED
    BY <2>1, <2>2
<1>3. ASSUME NEW e \in Seq(S), NEW c \in S, e \in P PROVE Append(e, c) \in P
  <2> DEFINE u == Append(e, c)
             len == Len(e)
             t == Joined(F, e)
             f == F[c]
  <2>1. /\ u \in Seq(S) /\ Len(u) = len + 1 /\ len \in Nat /\ u[len + 1] = c
        /\ \A i \in 1..len : u[i] = e[i]
    BY AppendProperties, LenProperties
  <2>2. Joined(F, u) = t \o f /\ t \in Seq(T) /\ f \in Seq(T) /\ Len(t) \in Nat /\ Len(f) \in Nat
    <3>1. \A x \in Seq(T) : Len(x) \in Nat
      BY LenProperties
    <3> QED
      BY <1>1, <3>1
  <2>3. /\ Len(t \o f) = Len(t) + Len(f)
        /\ \A i \in 1..(Len(t) + Len(f)) : (t \o f)[i] = IF i <= Len(t) THEN t[i] ELSE f[i - Len(t)]
    <3> HIDE DEF t, f
    <3> QED
      BY <2>2, ConcatProperties
  <2>4. SubSeq(u, 1, len) = e /\ \A k \in 0..len : SubSeq(u, 1, k) = SubSeq(e, 1, k)
    <3>1. \A k \in 0..len : SubSeq(u, 1, k) = SubSeq(e, 1, k)
      BY PrefixOfAppend
    <3>2. SubSeq(e, 1, len) = e
      BY SubSeqFull
    <3> QED
      BY <2>1, <3>1, <3>2
  <2>5. Placed(F, u, len + 1)
    <3>1. (len + 1) - 1 = len
      BY <2>1
    <3>2. before(u, len + 1) = Len(t)
      BY <2>4, <3>1
    <3>3. SubSeq(u, 1, len + 1) = u
      BY <2>1, SubSeqFull
    <3>4. \A i \in 1..Len(f) : (t \o f)[Len(t) + i] = f[i]
      <4> HIDE DEF t, f
      <4> TAKE i \in 1..Len(f)
      <4>1. /\ Len(t) + i \in 1..(Len(t) + Len(f)) /\ ~(Len(t) + i <= Len(t))
            /\ (Len(t) + i) - Len(t) = i
        BY <2>2
      <4> QED
        BY <2>3, <4>1
    <3> HIDE DEF u, t, f, len, before
    <3>5. F[u[len + 1]] = f
      BY <2>1 DEF f
    <3>6. before(u, len + 1) \in Nat
      BY <2>2, <3>2
    <3>7. before(u, len + 1) + Len(F[u[len + 1]]) <= Len(Joined(F, u))
      BY <2>2, <2>3, <3>2, <3>5
    <3>8. Len(Joined(F, SubSeq(u, 1, len + 1))) = before(u, len + 1) + Len(F[u[len + 1]])
      BY <2>2, <2>3, <3>2, <3>3, <3>5
    <3>9. \A i \in 1..Len(F[u[len + 1]]) :
            Joined(F, u)[before(u, len + 1) + i] = F[u[len + 1]][i]
      BY <2>2, <3>2, <3>4, <3>5
    <3> QED
      BY <3>6, <3>7, <3>8, <3>9 DEF Placed, before
  <2>6. ASSUME NEW k \in 1..len PROVE Placed(F, u, k)
    <3>1. k \in 0..len /\ k - 1 \in 0..len /\ u[k] = e[k]
      BY <2>1
    <3>2. SubSeq(u, 1, k) = SubSeq(e, 1, k) /\ SubSeq(u, 1, k - 1) = SubSeq(e, 1, k - 1)
      BY <2>4, <3>1
    <3>3. Placed(F, e, k)
      BY <1>3
    <3>4. before(u, k) = before(e, k) /\ F[u[k]] = F[e[k]]
      BY <3>1, <3>2
    <3>5. Len(F[e[k]]) \in Nat
      <4>1. e[k] \in S
        BY ElementOfSeq
      <4> QED
        BY <4>1, LenProperties
    <3> DEFINE a == before(e, k)
               g == F[e[k]]
    <3>6. /\ a \in Nat /\ a + Len(g) <= Len(t) /\ Len(g) \in Nat
          /\ \A i \in 1..Len(g) : t[a + i] = g[i]
      BY <3>3, <3>5 DEF Placed
    <3>7. Len(Joined(F, SubSeq(u, 1, k))) = a + Len(g)
      BY <3>2, <3>3 DEF Placed
    <3> HIDE DEF u, t, f, len, before, a, g
    <3>8. a + Len(g) <= Len(t \o f)
      BY <2>2, <2>3, <3>6
    <3>9. \A i \in 1..Len(g) : (t \o f)[a + i] = g[i]
      <4> TAKE i \in 1..Len(g)
      <4>1. a + i \in 1..(Len(t) + Len(f)) /\ a + i <= Len(t)
        BY <2>2, <3>6
      <4> QED
        BY <2>3, <3>6, <4>1
    <3>10. before(u, k) = a /\ F[u[k]] = g
      BY <3>4 DEF a, g
    <3> QED
      BY <2>2, <3>6, <3>7, <3>8, <3>9, <3>10 DEF Placed, before
  <2>7. \A k \in 1..Len(u) : k = len + 1 \/ k \in 1..len
    BY <2>1
  <2>8. \A k \in 1..Len(u) : Placed(F, u, k)
    <3> HIDE DEF u, len
    <3> QED
      BY <2>5, <2>6, <2>7
  <2> QED
    BY <2>1, <2>8
<1>4. Seq(S) \subseteq P
  <2> HIDE DEF P
  <2> QED
    BY <1>2, <1>3, InductSeq
<1> QED
  BY <1>4

-----------------------------------------------------------------------------
(* printf_encode() and printf_decode(). *)

\* What is printed of d is all of a prefix, which ends where there is no room for
\* the longest byte and the end.
LEMMA EncodePrefix ==
  ASSUME NEW d \in Seq(Byte), NEW maxlen \in Nat
  PROVE  \E k \in 0..Len(d) :
            /\ printf_encode(maxlen, d) = Plain(SubSeq(d, 1, k))
            /\ k = Len(d) \/ Len(Plain(SubSeq(d, 1, k))) + 4 >= maxlen
            /\ k # 0 => Len(Plain(SubSeq(d, 1, k))) < maxlen
<1> DEFINE len == Len(d)
           grow(n, t) == IF Len(t) + 4 >= maxlen THEN t ELSE t \o Escaped(d[n])
           A == Seq(Printable)
           init == <<>>
           step == [n \in 1..len |-> [t \in A |-> grow(n, t)]]
           body(h) == [n \in 0..len |-> IF n = 0 THEN <<>> ELSE
                        LET txt == h[n - 1]
                        IN  IF Len(txt) + 4 >= maxlen THEN txt ELSE txt \o Escaped(d[n])]
           written == CHOOSE h : h = body(h)
<1>1. len \in Nat /\ init \in A /\ \A n \in 1..len : d[n] \in Byte
  BY LenProperties, ElementOfSeq, EmptySeq
<1>2. step \in [1..len -> [A -> A]]
  <2>1. ASSUME NEW n \in 1..len, NEW t \in A PROVE grow(n, t) \in A
    <3>1. Escaped(d[n]) \in Seq(Printable)
      BY <1>1, EscapedType
    <3>2. t \o Escaped(d[n]) \in Seq(Printable)
      BY <3>1, ConcatProperties
    <3> QED
      BY <3>2
  <2> HIDE DEF grow, A, len
  <2> QED
    BY <2>1
<1>3. PICK g \in [0..len -> A] : g[0] = init /\ \A n \in 1..len : g[n] = step[n][g[n - 1]]
  <2> HIDE DEF len, A, init, step
  <2>1. Iterated(A, init, len, step) # {}
    BY <1>1, <1>2, Iterate
  <2> QED
    BY <2>1 DEF Iterated
<1>4. \A n \in 1..len : g[n] = grow(n, g[n - 1])
  <2> TAKE n \in 1..len
  <2>1. n - 1 \in 0..len
    BY <1>1
  <2> HIDE DEF len, A, grow
  <2>2. step[n][g[n - 1]] = grow(n, g[n - 1])
    BY <1>3, <2>1
  <2> QED
    BY <1>3, <2>2
<1>5. g = body(g)
  <2>1. ASSUME NEW n \in 0..len
        PROVE  g[n] = IF n = 0 THEN <<>> ELSE grow(n, g[n - 1])
    <3> HIDE DEF grow
    <3>1. n = 0 \/ n \in 1..len
      BY <1>1
    <3> QED
      BY <1>3, <1>4, <3>1
  <2>2. g = [n \in 0..len |-> g[n]]
    BY <1>3
  <2>3. [n \in 0..len |-> g[n]] = [n \in 0..len |-> IF n = 0 THEN <<>> ELSE grow(n, g[n - 1])]
    <3> HIDE DEF grow, len
    <3> QED
      BY <2>1
  <2> QED
    BY <2>2, <2>3
<1>6. written = body(written)
  <2> HIDE DEF body
  <2> QED
    BY <1>5
<1>7. written[0] = <<>> /\ \A n \in 1..len : written[n] = grow(n, written[n - 1])
  <2>1. \A n \in 0..len : written[n] = IF n = 0 THEN <<>> ELSE grow(n, written[n - 1])
    <3> HIDE DEF written
    <3> QED
      BY <1>6
  <2>2. 0 \in 0..len /\ \A n \in 1..len : n \in 0..len /\ n # 0
    BY <1>1
  <2> HIDE DEF written, grow, len
  <2> QED
    BY <2>1, <2>2
<1>8. printf_encode(maxlen, d) = written[len]
  BY DEF printf_encode
<1> DEFINE pre(k) == Plain(SubSeq(d, 1, k))
           Is(n, k) == /\ written[n] = pre(k)
                       /\ k = n \/ Len(pre(k)) + 4 >= maxlen
                       /\ k # 0 => Len(pre(k)) < maxlen
           P == {n \in Nat : n <= len => \E k \in 0..n : Is(n, k)}
<1>9. 0 \in P
  <2>1. SubSeq(d, 1, 0) = <<>>
    BY SubSeqEmpty
  <2>2. Is(0, 0)
    <3> HIDE DEF written
    <3> QED
      BY <1>7, <2>1, PlainFacts
  <2> HIDE DEF Is
  <2> QED
    BY <2>2
<1>10. ASSUME NEW n \in Nat, n \in P PROVE n + 1 \in P
  <2>1. SUFFICES ASSUME n + 1 <= len PROVE \E k \in 0..(n + 1) : Is(n + 1, k)
    OBVIOUS
  <2>2. PICK k \in 0..n : Is(n, k)
    <3> HIDE DEF Is
    <3> QED
      BY <1>1, <1>10, <2>1
  <2>3. n + 1 \in 1..len /\ (n + 1) - 1 = n /\ k \in 0..(n + 1)
    BY <1>1, <2>1
  <2>4. written[n + 1] = grow(n + 1, written[n])
    <3> HIDE DEF written, grow
    <3> QED
      BY <1>7, <2>3
  <2>5. CASE Len(pre(k)) + 4 >= maxlen
    <3>1. Is(n + 1, k)
      <4> HIDE DEF written, pre
      <4> QED
        BY <2>2, <2>4, <2>5
    <3> HIDE DEF Is
    <3> QED
      BY <2>3, <3>1
  <2>6. CASE ~(Len(pre(k)) + 4 >= maxlen)
    <3>1. k = n
      BY <2>2, <2>6
    <3>2. pre(n + 1) = pre(n) \o Escaped(d[n + 1])
          /\ Len(pre(n + 1)) = Len(pre(n)) + Len(Escaped(d[n + 1])) /\ pre(n) \in Seq(Printable)
      BY <2>3, PlainPrefix
    <3>3. Len(Escaped(d[n + 1])) \in 1..4 /\ Len(pre(n)) \in Nat
      BY <1>1, <2>3, <3>2, EscapedType, LenProperties
    <3>4. Is(n + 1, n + 1)
      <4> HIDE DEF written, pre
      <4>1. written[n + 1] = pre(n + 1)
        BY <2>2, <2>4, <2>6, <3>1, <3>2
      <4>2. Len(pre(n + 1)) < maxlen
        <5>1. \A i \in Nat, j \in 1..4 : ~(i + 4 >= maxlen) => i + j < maxlen
          OBVIOUS
        <5> QED
          BY <2>6, <3>1, <3>2, <3>3, <5>1
      <4> QED
        BY <4>1, <4>2
    <3> HIDE DEF Is
    <3> QED
      BY <3>4
  <2> QED
    BY <2>5, <2>6
<1>11. Nat \subseteq P
  <2> HIDE DEF P
  <2> QED
    BY <1>9, <1>10, Induct
<1>12. PICK k \in 0..len : Is(len, k)
  <2> HIDE DEF Is
  <2> QED
    BY <1>1, <1>11
<1> QED
  BY <1>8, <1>12

\* The places of escaped bytes.
LEMMA PlainPlace ==
  ASSUME NEW d \in Seq(Byte), NEW n \in 1..Len(d)
  PROVE  LET before == Len(Plain(SubSeq(d, 1, n - 1)))
             b == Escaped(d[n])
         IN  /\ before \in Nat /\ before + Len(b) <= Len(Plain(d))
             /\ Len(Plain(SubSeq(d, 1, n))) = before + Len(b)
             /\ \A i \in 1..Len(b) : Plain(d)[before + i] = b[i]
<1>1. EscapeOf \in [Byte -> Seq(Printable)]
  BY EscapedType DEF EscapeOf
<1>2. EscapeOf[d[n]] = Escaped(d[n])
  BY ElementOfSeq DEF EscapeOf
<1>3. Placed(EscapeOf, d, n)
  BY <1>1, JoinedPlace
<1> QED
  BY <1>2, <1>3 DEF Plain, Placed

\* Printable text is read as what it was printed from.
LEMMA DecodePlain ==
  ASSUME NEW e \in Seq(Byte), NEW maxlen \in Nat, maxlen > Len(e)
  PROVE  printf_decode(maxlen, Plain(e)) = e
<1> DEFINE t == Plain(e)
           len == Len(t)
           last == Len(e)
           pos(m) == Len(Plain(SubSeq(e, 1, m))) + 1
           stage(m) == [p |-> pos(m), buf |-> SubSeq(e, 1, m)]
           g == [n \in 0..len |-> IF n <= last THEN stage(n) ELSE stage(last)]
           body(h) == [n \in 0..len |-> IF n = 0 THEN [p |-> 1, buf |-> <<>>]
                                        ELSE DecodeTurn(maxlen, t, h[n - 1])]
           read == CHOOSE h : h = body(h)
<1>1. /\ last \in Nat /\ t \in Seq(Printable) /\ t \in Seq(Nat) /\ len \in Nat /\ last <= len
      /\ SubSeq(e, 1, last) = e
  <2>1. last \in Nat /\ t \in Seq(Printable) /\ len \in Nat
    BY LenProperties, PlainFacts
  <2>2. Printable \subseteq Nat
    BY DEF Printable
  <2>3. t \in Seq(Nat)
    BY <2>1, <2>2, SeqMonotonic
  <2>4. SubSeq(e, 1, last) = e
    BY SubSeqFull
  <2>5. Len(Plain(SubSeq(e, 1, last))) \in last..(4 * last)
    BY <2>1, PlainLength
  <2>6. len \in last..(4 * last)
    BY <2>4, <2>5
  <2> QED
    BY <2>1, <2>3, <2>4, <2>6
<1>2. stage(0) = [p |-> 1, buf |-> <<>>]
  <2>1. SubSeq(e, 1, 0) = <<>>
    BY SubSeqEmpty
  <2>2. Len(Plain(<<>>)) = 0
    BY PlainFacts, EmptySeq
  <2>3. pos(0) = 1
    <3>1. Len(Plain(SubSeq(e, 1, 0))) = 0
      BY <2>1, <2>2
    <3> QED
      BY <3>1
  <2> QED
    BY <2>1, <2>3
<1>3. ASSUME NEW m \in 1..last PROVE DecodeTurn(maxlen, t, stage(m - 1)) = stage(m)
  <2> DEFINE b == e[m]
             w == Escaped(b)
             a == Len(Plain(SubSeq(e, 1, m - 1)))
             x == SubSeq(e, 1, m - 1)
  <2>1. /\ a \in Nat /\ a + Len(w) <= len /\ Len(Plain(SubSeq(e, 1, m))) = a + Len(w)
        /\ \A i \in 1..Len(w) : t[a + i] = w[i]
    <3>1. m \in 1..Len(e)
      OBVIOUS
    <3> QED
      BY <3>1, PlainPlace
  <2>2. b \in Byte /\ Len(w) \in 1..4 /\ x \in Seq(Byte) /\ SubSeq(e, 1, m) = Append(x, b)
    BY ElementOfSeq, EscapedType, PrefixGrows
  <2>3. Len(x) = m - 1
    <3>1. m - 1 \in 0..last
      BY <1>1
    <3> QED
      BY <3>1, PrefixFacts
  <2> HIDE DEF t, len, last, b, w, a, x
  <2>4. Unit(t, a + 1) = [out |-> <<b>>, used |-> Len(w)]
    <3>1. a + 1 \in Nat \ {0} /\ (a + 1) + Len(w) - 1 <= Len(t)
      BY <2>1, <2>2 DEF len
    <3>2. \A i \in 1..Len(w) : t[(a + 1) + i - 1] = w[i]
      <4> TAKE i \in 1..Len(w)
      <4>1. (a + 1) + i - 1 = a + i
        BY <2>1, <2>2
      <4> QED
        BY <2>1, <4>1
    <3> QED
      BY <1>1, <2>2, <3>1, <3>2, UnitRead DEF w
  <2>5. stage(m - 1) = [p |-> a + 1, buf |-> x]
    BY DEF a, x
  <2>6. ~(a + 1 > Len(t)) /\ ~(Len(x) + 1 >= maxlen)
    <3>1. a + 1 <= len
      <4>1. \A i \in Nat, j \in 1..4 : i + j <= len => i + 1 <= len
        BY <1>1
      <4> QED
        BY <2>1, <2>2, <4>1
    <3>2. m - 1 + 1 < maxlen
      BY <1>1 DEF last
    <3> QED
      BY <1>1, <2>1, <2>3, <3>1, <3>2 DEF len
  <2>7. DecodeTurn(maxlen, t, stage(m - 1)) = [p |-> a + 1 + Len(w), buf |-> x \o <<b>>]
    <3> DEFINE was == stage(m - 1)
    <3>1. was.p = a + 1 /\ was.buf = x
      BY <2>5
    <3> HIDE DEF was, stage
    <3>2. DecodeTurn(maxlen, t, was) = [p |-> was.p + Unit(t, was.p).used,
                                        buf |-> was.buf \o Unit(t, was.p).out]
      BY <2>6, <3>1 DEF DecodeTurn
    <3>3. Unit(t, was.p).used = Len(w) /\ Unit(t, was.p).out = <<b>>
      BY <2>4, <3>1
    <3> QED
      BY <3>1, <3>2, <3>3 DEF was
  <2>8. x \o <<b>> = SubSeq(e, 1, m)
    BY <2>2, AppendIsConcat
  <2>9. a + 1 + Len(w) = pos(m)
    <3>1. \A i \in Nat, j \in 1..4 : i + 1 + j = i + j + 1
      OBVIOUS
    <3>2. pos(m) = a + Len(w) + 1
      BY <2>1
    <3> QED
      BY <2>1, <2>2, <3>1, <3>2
  <2> QED
    BY <2>7, <2>8, <2>9
<1>4. DecodeTurn(maxlen, t, stage(last)) = stage(last)
  <2>1. pos(last) > len
    <3>1. pos(last) = len + 1
      BY <1>1
    <3> QED
      BY <1>1, <3>1
  <2> HIDE DEF pos, t
  <2> QED
    BY <2>1 DEF DecodeTurn
<1>5. /\ g[0] = [p |-> 1, buf |-> <<>>]
      /\ \A n \in 1..len : g[n] = DecodeTurn(maxlen, t, g[n - 1])
      /\ g[len] = stage(last)
  <2> HIDE DEF stage, t, len, last
  <2>1. 0 \in 0..len /\ len \in 0..len /\ 0 <= last
    BY <1>1
  <2>2. g[0] = [p |-> 1, buf |-> <<>>]
    BY <1>2, <2>1
  <2>3. g[len] = stage(last)
    <3>1. CASE len <= last
      BY <1>1, <2>1, <3>1
    <3>2. CASE ~(len <= last)
      BY <2>1, <3>2
    <3> QED
      BY <3>1, <3>2
  <2>4. ASSUME NEW n \in 1..len PROVE g[n] = DecodeTurn(maxlen, t, g[n - 1])
    <3>1. n \in 0..len /\ n - 1 \in 0..len
      BY <1>1
    <3>2. CASE n <= last
      <4>1. n \in 1..last /\ n - 1 <= last
        BY <1>1, <3>2
      <4>2. g[n] = stage(n) /\ g[n - 1] = stage(n - 1)
        BY <3>1, <3>2, <4>1
      <4> QED
        BY <1>3, <4>1, <4>2
    <3>3. CASE ~(n <= last)
      <4>1. n - 1 = last \/ ~(n - 1 <= last)
        BY <1>1, <3>3
      <4>2. g[n] = stage(last) /\ g[n - 1] = stage(last)
        BY <3>1, <3>3, <4>1
      <4> QED
        BY <1>4, <4>2
    <3> QED
      BY <3>2, <3>3
  <2> QED
    BY <2>2, <2>3, <2>4
<1>6. g = body(g)
  <2> HIDE DEF stage, t, len, last
  <2>1. \A n \in 0..len : g[n] = IF n = 0 THEN [p |-> 1, buf |-> <<>>]
                                 ELSE DecodeTurn(maxlen, t, g[n - 1])
    <3> HIDE DEF g
    <3>1. \A n \in 0..len : n = 0 \/ n \in 1..len
      BY <1>1
    <3> QED
      BY <1>5, <3>1
  <2>2. g = [n \in 0..len |-> g[n]]
    OBVIOUS
  <2> HIDE DEF g
  <2> QED
    BY <2>1, <2>2
<1>7. read = body(read)
  <2> HIDE DEF body, g
  <2> QED
    BY <1>6
<1>8. /\ read[0] = [p |-> 1, buf |-> <<>>]
      /\ \A n \in 1..len : read[n] = DecodeTurn(maxlen, t, read[n - 1])
  <2> HIDE DEF read, t, len
  <2>1. \A n \in 0..len : read[n] = IF n = 0 THEN [p |-> 1, buf |-> <<>>]
                                    ELSE DecodeTurn(maxlen, t, read[n - 1])
    BY <1>7
  <2>2. 0 \in 0..len /\ \A n \in 1..len : n \in 0..len /\ n # 0
    BY <1>1
  <2> QED
    BY <2>1, <2>2
<1>9. \A n \in 0..len : read[n] = g[n]
  <2> HIDE DEF read, g, t, len
  <2>1. SameSteps(read, g, len)
    BY <1>5, <1>8 DEF SameSteps
  <2>2. len \in Nat
    BY <1>1
  <2> QED
    BY <2>1, <2>2, SameValues
<1>10. read[len] = stage(last)
  <2> HIDE DEF read, g, t, len, stage
  <2> QED
    BY <1>1, <1>5, <1>9
<1>11. printf_decode(maxlen, t) = read[len].buf
  BY DEF printf_decode
<1> QED
  BY <1>1, <1>10, <1>11

-----------------------------------------------------------------------------
(* Strings of the configuration. *)

\* A part of a sequence, character by character.
LEMMA RestFacts ==
  ASSUME NEW S, NEW s \in Seq(S), NEW m \in 0..Len(s)
  PROVE  /\ SubSeq(s, m + 1, Len(s)) \in Seq(S) /\ Len(SubSeq(s, m + 1, Len(s))) = Len(s) - m
         /\ \A i \in 1..(Len(s) - m) : SubSeq(s, m + 1, Len(s))[i] = s[m + i]
<1> DEFINE k == m + 1
           n == Len(s)
<1>1. n \in Nat /\ m \in Nat /\ m <= n /\ k \in Int /\ n \in Int
  BY LenProperties
<1>2. \A i \in k..n : s[i] \in S
  <2>1. \A i \in k..n : i \in 1..Len(s)
    BY <1>1
  <2> QED
    BY <2>1, ElementOfSeq
<1> HIDE DEF k, n
<1>3. /\ SubSeq(s, k, n) \in Seq(S)
      /\ Len(SubSeq(s, k, n)) = IF k <= n THEN n - k + 1 ELSE 0
      /\ \A i \in 1..(n - k + 1) : SubSeq(s, k, n)[i] = s[k + i - 1]
  BY <1>1, <1>2, SubSeqProperties
<1>4. /\ (IF k <= n THEN n - k + 1 ELSE 0) = n - m /\ n - k + 1 = n - m
      /\ \A i \in 1..(n - m) : k + i - 1 = m + i
  BY <1>1 DEF k
<1>5. /\ SubSeq(s, k, n) \in Seq(S) /\ Len(SubSeq(s, k, n)) = n - m
      /\ \A i \in 1..(n - m) : SubSeq(s, k, n)[i] = s[m + i]
  BY <1>3, <1>4
<1> QED
  BY <1>5 DEF k, n

\* A text in quotes.
LEMMA WrappedFacts ==
  ASSUME NEW S, NEW a \in S, NEW c \in S, NEW s \in Seq(S)
  PROVE  /\ Wrapped(a, s, c) \in Seq(S) /\ Len(Wrapped(a, s, c)) = Len(s) + 2
         /\ Wrapped(a, s, c)[1] = a /\ Wrapped(a, s, c)[Len(s) + 2] = c
         /\ \A i \in 1..Len(s) : Wrapped(a, s, c)[i + 1] = s[i]
<1> DEFINE before == <<a>>
           after == <<c>>
           b == before \o s
           w == b \o after
<1>1. /\ before \in Seq(S) /\ Len(before) = 1 /\ before[1] = a
      /\ after \in Seq(S) /\ Len(after) = 1 /\ after[1] = c /\ Len(s) \in Nat
  BY LenProperties
<1> HIDE DEF before, after
<1>2. /\ b \in Seq(S) /\ Len(b) = Len(s) + 1
      /\ \A i \in 1..(Len(s) + 1) : b[i] = IF i <= 1 THEN before[i] ELSE s[i - 1]
  <2>1. /\ b \in Seq(S) /\ Len(b) = Len(before) + Len(s)
        /\ \A i \in 1..(Len(before) + Len(s)) :
            b[i] = IF i <= Len(before) THEN before[i] ELSE s[i - Len(before)]
    BY <1>1, ConcatProperties
  <2>2. Len(before) + Len(s) = Len(s) + 1
    BY <1>1
  <2> HIDE DEF b
  <2> QED
    BY <1>1, <2>1, <2>2
<1> HIDE DEF b
<1>3. /\ w \in Seq(S) /\ Len(w) = Len(s) + 2
      /\ \A i \in 1..(Len(s) + 2) : w[i] = IF i <= Len(s) + 1 THEN b[i] ELSE after[i - (Len(s) + 1)]
  <2>1. /\ w \in Seq(S) /\ Len(w) = Len(b) + Len(after)
        /\ \A i \in 1..(Len(b) + Len(after)) :
            w[i] = IF i <= Len(b) THEN b[i] ELSE after[i - Len(b)]
    BY <1>1, <1>2, ConcatProperties
  <2>2. Len(b) + Len(after) = Len(s) + 2
    BY <1>1, <1>2
  <2> HIDE DEF w
  <2> QED
    BY <1>1, <1>2, <2>1, <2>2
<1>4. w[1] = a
  <2>1. 1 \in 1..(Len(s) + 2) /\ 1 <= Len(s) + 1 /\ 1 \in 1..(Len(s) + 1) /\ 1 <= 1
    BY <1>1
  <2> HIDE DEF w
  <2> QED
    BY <1>1, <1>2, <1>3, <2>1
<1>5. w[Len(s) + 2] = c
  <2>1. /\ Len(s) + 2 \in 1..(Len(s) + 2) /\ ~(Len(s) + 2 <= Len(s) + 1)
        /\ (Len(s) + 2) - (Len(s) + 1) = 1
    BY <1>1
  <2> HIDE DEF w
  <2> QED
    BY <1>1, <1>3, <2>1
<1>6. \A i \in 1..Len(s) : w[i + 1] = s[i]
  <2> TAKE i \in 1..Len(s)
  <2>1. /\ i + 1 \in 1..(Len(s) + 2) /\ i + 1 <= Len(s) + 1 /\ i + 1 \in 1..(Len(s) + 1)
        /\ ~(i + 1 <= 1) /\ (i + 1) - 1 = i
    BY <1>1
  <2> HIDE DEF w
  <2> QED
    BY <1>2, <1>3, <2>1
<1>7. Wrapped(a, s, c) = w
  BY DEF Wrapped, w, b, before, after
<1> HIDE DEF w
<1> QED
  BY <1>3, <1>4, <1>5, <1>6, <1>7

\* The text between the quotes.
LEMMA UnquotedText ==
  ASSUME NEW S, NEW t \in Seq(S), NEW v \in Seq(S), Len(v) = Len(t) + 1,
         \A i \in 1..Len(t) : v[i] = t[i], v[Len(t) + 1] = Quote
  PROVE  Unquoted(v) = t
<1>1. Len(t) \in Nat /\ Len(t) \in 0..Len(v) /\ Len(v) - 1 = Len(t) /\ v # <<>>
  BY LenProperties, EmptySeq
<1>2. Last(v) = Quote
  BY DEF Last
<1>3. Front(v) = SubSeq(v, 1, Len(t))
  BY <1>1 DEF Front
<1>4. /\ SubSeq(v, 1, Len(t)) \in Seq(S) /\ Len(SubSeq(v, 1, Len(t))) = Len(t)
      /\ \A i \in 1..Len(t) : SubSeq(v, 1, Len(t))[i] = v[i]
  BY <1>1, PrefixFacts
<1>5. SubSeq(v, 1, Len(t)) = t
  BY <1>4, SeqEqual
<1> QED
  BY <1>1, <1>2, <1>3, <1>5 DEF Unquoted

\* P"..." is read as what printf_decode() makes of the text in the quotes.
LEMMA PrintedString ==
  ASSUME NEW t \in Seq(Printable)
  PROVE  wpa_config_parse_string(<<LetterP>> \o Wrapped(Quote, t, Quote))
            = printf_decode(Len(t) + 1, t)
<1> DEFINE before == <<LetterP>>
           w == Wrapped(Quote, t, Quote)
           value == before \o w
           len == Len(t)
           v == SubSeq(value, 3, Len(value))
<1>1. t \in Seq(Nat) /\ len \in Nat /\ Quote \in Nat
  <2>1. Printable \subseteq Nat
    BY DEF Printable
  <2> QED
    BY <2>1, SeqMonotonic, LenProperties DEF Quote
<1>2. /\ w \in Seq(Nat) /\ Len(w) = len + 2 /\ w[1] = Quote /\ w[len + 2] = Quote
      /\ \A i \in 1..len : w[i + 1] = t[i]
  <2> DEFINE A == Nat
             q == Quote
  <2>1. q \in A /\ t \in Seq(A)
    BY <1>1
  <2> HIDE DEF A, q
  <2>2. /\ Wrapped(q, t, q) \in Seq(A) /\ Len(Wrapped(q, t, q)) = Len(t) + 2
        /\ Wrapped(q, t, q)[1] = q /\ Wrapped(q, t, q)[Len(t) + 2] = q
        /\ \A i \in 1..Len(t) : Wrapped(q, t, q)[i + 1] = t[i]
    BY <2>1, WrappedFacts
  <2> QED
    BY <2>2 DEF A, q
<1>3. before \in Seq(Nat) /\ Len(before) = 1 /\ before[1] = LetterP
  BY DEF LetterP
<1> HIDE DEF w, before
<1>4. /\ value \in Seq(Nat) /\ Len(value) = len + 3 /\ DOMAIN value = 1..(len + 3)
      /\ \A i \in 1..(len + 3) : value[i] = IF i <= 1 THEN before[i] ELSE w[i - 1]
  <2>1. /\ value \in Seq(Nat) /\ Len(value) = Len(before) + Len(w)
        /\ \A i \in 1..(Len(before) + Len(w)) :
            value[i] = IF i <= Len(before) THEN before[i] ELSE w[i - Len(before)]
    BY <1>2, <1>3, ConcatProperties
  <2>2. Len(before) + Len(w) = len + 3
    BY <1>1, <1>2, <1>3
  <2> HIDE DEF value, len
  <2>3. DOMAIN value = 1..Len(value)
    BY <2>1, LenProperties
  <2> QED
    BY <1>3, <2>1, <2>2, <2>3
<1> HIDE DEF value, len
<1>5. value[1] = LetterP /\ value[2] = Quote /\ \A i \in 1..len : value[i + 2] = t[i]
  <2>1. 1 \in 1..(len + 3) /\ 1 <= 1 /\ 2 \in 1..(len + 3) /\ ~(2 <= 1) /\ 2 - 1 = 1
    BY <1>1
  <2>2. \A i \in 1..len : /\ i + 2 \in 1..(len + 3) /\ ~(i + 2 <= 1) /\ (i + 2) - 1 = i + 1
    BY <1>1
  <2>3. value[1] = LetterP
    BY <1>3, <1>4, <2>1
  <2>4. value[2] = Quote
    BY <1>2, <1>4, <2>1
  <2>5. \A i \in 1..len : value[i + 2] = t[i]
    BY <1>2, <1>4, <2>2
  <2> QED
    BY <2>3, <2>4, <2>5
<1>6. value[len + 3] = Quote
  <2>1. len + 3 \in 1..(len + 3) /\ ~(len + 3 <= 1) /\ (len + 3) - 1 = len + 2
    BY <1>1
  <2> QED
    BY <1>2, <1>4, <2>1
<1>7. v \in Seq(Nat) /\ Len(v) = len + 1 /\ \A i \in 1..(len + 1) : v[i] = value[i + 2]
  <2> DEFINE rest == SubSeq(value, 2 + 1, Len(value))
  <2>1. 2 \in 0..Len(value) /\ Len(value) - 2 = len + 1
    BY <1>1, <1>4
  <2>2. /\ rest \in Seq(Nat) /\ Len(rest) = Len(value) - 2
        /\ \A i \in 1..(Len(value) - 2) : rest[i] = value[2 + i]
    BY <1>4, <2>1, RestFacts
  <2>3. \A i \in 1..(len + 1) : 2 + i = i + 2
    BY <1>1
  <2>4. v = rest
    OBVIOUS
  <2> HIDE DEF rest, v
  <2> QED
    BY <2>1, <2>2, <2>3, <2>4
<1> HIDE DEF v
<1>8. Unquoted(v) = t
  <2>1. \A i \in 1..len : v[i] = t[i]
    <3>1. \A i \in 1..len : i \in 1..(len + 1)
      BY <1>1
    <3> QED
      BY <1>5, <1>7, <3>1
  <2>2. v[len + 1] = Quote
    <3>1. len + 1 \in 1..(len + 1) /\ (len + 1) + 2 = len + 3
      BY <1>1
    <3> QED
      BY <1>6, <1>7, <3>1
  <2> QED
    BY <1>1, <1>7, <2>1, <2>2, UnquotedText DEF len
<1>9. At(value, 1) = LetterP /\ At(value, 2) = Quote /\ LetterP # Quote
  <2>1. 1 \in 1..(len + 3) /\ 2 \in 1..(len + 3)
    BY <1>1
  <2> QED
    BY <1>4, <1>5, <2>1 DEF At, LetterP, Quote
<1>10. t # Fail
  <2>1. t = Fail => Len(t) = 1 /\ t[1] = -1
    BY DEF Fail
  <2>2. Len(t) = 1 => t[1] \in Printable
    <3>1. Len(t) = 1 => 1 \in 1..Len(t)
      OBVIOUS
    <3> QED
      BY <3>1, ElementOfSeq
  <2>3. -1 \notin Printable
    BY DEF Printable
  <2> QED
    BY <2>1, <2>2, <2>3
<1>11. wpa_config_parse_string(value) = printf_decode(Len(t) + 1, t)
  BY <1>8, <1>9, <1>10 DEF wpa_config_parse_string, v
<1> QED
  BY <1>11 DEF value, before, w

\* Hexadecimal text is read as the bytes it was written from.
LEMMA HexString ==
  ASSUME NEW d \in Seq(Byte)
  PROVE  wpa_config_parse_string(HexText(d)) = d
<1> DEFINE t == HexText(d)
           len == Len(d)
<1>1. t \in Seq(HexChars) /\ Len(t) = 2 * len /\ len \in Nat
  BY HexTextFacts, LenProperties
<1>2. t \in Seq(Nat)
  <2>1. HexChars \subseteq Nat
    BY DEF HexChars
  <2> QED
    BY <1>1, <2>1, SeqMonotonic
<1>3. At(t, 1) # Quote /\ At(t, 1) # LetterP
  <2>1. 1 \in DOMAIN t => t[1] \in HexChars
    BY <1>1, LenProperties, ElementOfSeq
  <2> HIDE DEF t
  <2> QED
    BY <2>1 DEF At, HexChars, Quote, LetterP
<1>4. hexstr2bin(t, len) = SubSeq(d, 1, len) /\ SubSeq(d, 1, len) = d
  <2>1. len \in 0..Len(d) /\ Len(t) >= 2 * len
    BY <1>1
  <2> QED
    BY <1>2, <2>1, HexPrefixRead, SubSeqFull
<1>5. (Len(t) % 2) # 1 /\ Len(t) \div 2 = len
  <2> HIDE DEF t, len
  <2>1. \A n \in Nat : ((2 * n) % 2) # 1 /\ (2 * n) \div 2 = n
    OBVIOUS
  <2> QED
    BY <1>1, <2>1
<1> HIDE DEF t, len
<1>6. wpa_config_parse_string(t) = hexstr2bin(t, Len(t) \div 2)
  BY <1>3, <1>5 DEF wpa_config_parse_string
<1> QED
  BY <1>4, <1>5, <1>6 DEF t

\* What the function says it has written is an even part of the text of d.
LEMMA HexWritten ==
  ASSUME NEW d \in Seq(Byte), NEW room \in Nat \ {0}
  PROVE  LET hex == wpa_snprintf_hex(d, room)
         IN  /\ IsPrefix(hexstr2bin(SubSeq(hex.text, 1, hex.ret), hex.ret \div 2), d)
             /\ room > 2 * Len(d) => hex.text = HexText(d)
<1> DEFINE t == HexText(d)
           len == Len(d)
           hex == wpa_snprintf_hex(d, room)
           fits == 2 * ((room - 1) \div 2)
<1>1. t \in Seq(Nat) /\ Len(t) = 2 * len /\ len \in Nat /\ Len(t) \in Nat
  <2>1. HexChars \subseteq Nat
    BY DEF HexChars
  <2> QED
    BY <2>1, SeqMonotonic, HexTextFacts, LenProperties
<1>2. hex = [text |-> Cut(t, room - 1), ret |-> IF Len(t) < room THEN Len(t) ELSE fits]
  BY DEF wpa_snprintf_hex, HexText
<1>3. SubSeq(d, 1, len) = d /\ SubSeq(t, 1, Len(t)) = t
  BY <1>1, SubSeqFull
<1> HIDE DEF t, hex
<1>4. CASE Len(t) < room
  <2>1. room - 1 \in Int /\ room - 1 >= Len(t)
    BY <1>1, <1>4
  <2>2. hex.text = t /\ hex.ret = Len(t)
    BY <1>1, <1>2, <1>4, <2>1, CutFacts
  <2>3. Len(t) \div 2 = len /\ len \in 0..Len(d) /\ Len(t) >= 2 * len
    BY <1>1
  <2>4. hexstr2bin(t, len) = d
    BY <1>1, <1>3, <2>3, HexPrefixRead DEF t
  <2>5. IsPrefix(d, d)
    BY <1>3, <1>1 DEF IsPrefix
  <2> QED
    BY <1>3, <2>2, <2>3, <2>4, <2>5 DEF hex, t
<1>5. CASE ~(Len(t) < room)
  <2> DEFINE k == (room - 1) \div 2
             u == Cut(t, room - 1)
             x == SubSeq(u, 1, 2 * k)
  <2>1. room - 1 \in Nat /\ room - 1 <= Len(t) /\ room - 1 \in 0..Len(t) /\ room - 1 \in Int
    BY <1>1, <1>5
  <2>2. k \in 0..len /\ 2 * k <= room - 1 /\ (2 * k) \div 2 = k /\ k \in Nat
    <3>1. \A r \in Nat : r \div 2 \in Nat /\ 2 * (r \div 2) <= r
      OBVIOUS
    <3>2. k \in Nat /\ 2 * k <= room - 1
      BY <2>1, <3>1
    <3> HIDE DEF k
    <3>3. \A n \in Nat : (2 * n) \div 2 = n
      OBVIOUS
    <3> QED
      BY <1>1, <2>1, <3>2, <3>3
  <2> HIDE DEF k
  <2>3. u = SubSeq(t, 1, room - 1)
    BY <1>1, <2>1, CutFacts
  <2>4. u \in Seq(Nat) /\ Len(u) = room - 1 /\ \A i \in 1..(room - 1) : u[i] = t[i]
    BY <1>1, <2>1, <2>3, PrefixFacts
  <2> HIDE DEF u
  <2>5. x \in Seq(Nat) /\ Len(x) = 2 * k /\ \A i \in 1..(2 * k) : x[i] = u[i]
    <3>1. 2 * k \in 0..Len(u)
      BY <2>2, <2>4
    <3> QED
      BY <2>4, <3>1, PrefixFacts
  <2>6. \A i \in 1..(2 * k) : x[i] = t[i]
    <3>1. \A i \in 1..(2 * k) : i \in 1..(room - 1)
      BY <2>1, <2>2
    <3> QED
      BY <2>4, <2>5, <3>1
  <2> HIDE DEF x
  <2>7. hexstr2bin(x, k) = SubSeq(d, 1, k)
    <3>1. Len(x) >= 2 * k
      BY <2>2, <2>5
    <3> QED
      BY <2>2, <2>5, <2>6, <3>1, HexPrefixRead DEF len, t
  <2>8. IsPrefix(SubSeq(d, 1, k), d)
    BY <2>2, PrefixFacts DEF len
  <2>9. hex.text = u /\ hex.ret = 2 * k
    BY <1>2, <1>5 DEF u, k
  <2>10. ~(room > 2 * Len(d))
    BY <1>1, <1>5
  <2> QED
    BY <2>2, <2>7, <2>8, <2>9, <2>10 DEF hex, x
<1> QED
  BY <1>4, <1>5

\* Printed text holds only printable characters.
LEMMA PrintableText ==
  ASSUME NEW t \in Seq(Printable)
  PROVE  ~has_newline(t) /\ ~is_hex(t) /\ ~has_ctrl_char(t)
<1>1. \A i \in DOMAIN t : t[i] \in Printable
  BY LenProperties, ElementOfSeq
<1>2. \A c \in Printable : c \notin {10, 13} /\ c \in 32..126 /\ ~(c < 32) /\ c # 127
  BY DEF Printable
<1>3. ~has_newline(t)
  BY <1>1, <1>2 DEF has_newline
<1>4. \A c \in Range(t) : c \in Printable
  BY <1>1 DEF Range
<1>5. ~is_hex(t)
  BY <1>2, <1>4 DEF is_hex
<1>6. ~has_ctrl_char(t)
  BY <1>2, <1>4 DEF has_ctrl_char
<1> QED
  BY <1>3, <1>5, <1>6

\* In a buffer of 4 for each byte and 1 there is room for all of them.
LEMMA EncodeWhole ==
  ASSUME NEW d \in Seq(Byte), NEW maxlen \in Nat, maxlen > 4 * Len(d)
  PROVE  printf_encode(maxlen, d) = Plain(d)
<1> DEFINE len == Len(d)
<1>1. PICK k \in 0..len : /\ printf_encode(maxlen, d) = Plain(SubSeq(d, 1, k))
                          /\ k = len \/ Len(Plain(SubSeq(d, 1, k))) + 4 >= maxlen
  BY EncodePrefix
<1>2. Len(Plain(SubSeq(d, 1, k))) \in k..(4 * k) /\ len \in Nat
  BY PlainLength, LenProperties
<1>3. k = len
  <2> DEFINE l == Len(Plain(SubSeq(d, 1, k)))
  <2> HIDE DEF l, len
  <2>1. l \in k..(4 * k) /\ len \in Nat
    BY <1>2 DEF l
  <2>2. k = len \/ l + 4 >= maxlen
    BY <1>1 DEF l
  <2>3. maxlen > 4 * len
    BY DEF len
  <2> QED
    BY <2>1, <2>2, <2>3
<1>4. SubSeq(d, 1, len) = d
  BY SubSeqFull
<1> QED
  BY <1>1, <1>3, <1>4

\* All that is said of printed and hexadecimal text, of any data.
LEMMA PrintedRead ==
  ASSUME data \in Seq(Byte)
  PROVE  PrintedIsReadBack
<1> DEFINE len == Len(data)
           max == 4 * MaxData + 1
<1>1. len \in Nat /\ MaxData \in Nat /\ SSID_MAX_LEN \in Nat /\ ETH_ALEN \in Nat
  BY LenProperties, CommonMCAssumption, CommonAssumption
<1>2. ASSUME NEW room \in 1..max
      PROVE  LET txt == printf_encode(room, data)
                 read == printf_decode(Len(txt) + 2, txt)
                 hex == wpa_snprintf_hex(data, room)
             IN  /\ Len(txt) < room \/ txt = <<>>
                 /\ ~has_newline(txt) /\ ~is_hex(txt) /\ ~has_ctrl_char(txt)
                 /\ IsPrefix(read, data)
                 /\ room > 4 * Len(data) => read = data
                 /\ wpa_config_parse_string(<<LetterP>> \o Wrapped(Quote, txt, Quote)) = read
                 /\ IsPrefix(hexstr2bin(SubSeq(hex.text, 1, hex.ret), hex.ret \div 2), data)
                 /\ room > 2 * Len(data) => wpa_config_parse_string(hex.text) = data
  <2> DEFINE txt == printf_encode(room, data)
             read == printf_decode(Len(txt) + 2, txt)
             hex == wpa_snprintf_hex(data, room)
  <2>1. room \in Nat \ {0} /\ room \in Nat
    BY <1>1
  <2>2. PICK k \in 0..len : /\ txt = Plain(SubSeq(data, 1, k))
                            /\ k = len \/ Len(txt) + 4 >= room
                            /\ k # 0 => Len(txt) < room
    BY <2>1, EncodePrefix
  <2> DEFINE e == SubSeq(data, 1, k)
  <2>3. e \in Seq(Byte) /\ Len(e) = k /\ IsPrefix(e, data) /\ k \in Nat
    BY <1>1, PrefixFacts
  <2>4. txt = Plain(e)
    BY <2>2
  <2> HIDE DEF txt, e, len, max
  <2>5. txt \in Seq(Printable) /\ Len(txt) \in Nat
    BY <2>3, <2>4, PlainFacts, LenProperties
  <2>6. Len(txt) >= k
    <3>1. k \in 0..Len(data)
      BY DEF len
    <3>2. Len(Plain(SubSeq(data, 1, k))) \in k..(4 * k)
      BY <3>1, PlainLength
    <3> QED
      BY <2>3, <2>4, <3>2 DEF e
  <2>7. read = e /\ printf_decode(Len(txt) + 1, txt) = e
    <3>1. /\ Len(txt) + 2 \in Nat /\ Len(txt) + 2 > Len(e)
          /\ Len(txt) + 1 \in Nat /\ Len(txt) + 1 > Len(e)
      BY <2>3, <2>5, <2>6
    <3> QED
      BY <2>3, <2>4, <3>1, DecodePlain
  <2>8. Len(txt) < room \/ txt = <<>>
    <3>1. k = 0 => txt = <<>>
      <4>1. SubSeq(data, 1, 0) = <<>>
        BY SubSeqEmpty
      <4> QED
        BY <2>4, <4>1, PlainFacts DEF e
    <3> QED
      BY <2>2, <3>1
  <2>9. ~has_newline(txt) /\ ~is_hex(txt) /\ ~has_ctrl_char(txt)
    BY <2>5, PrintableText
  <2>10. IsPrefix(read, data)
    BY <2>3, <2>7
  <2>11. room > 4 * Len(data) => read = data
    <3> HAVE room > 4 * Len(data)
    <3>1. txt = Plain(data)
      BY <2>1, EncodeWhole DEF txt
    <3>2. Len(data) \in 0..Len(data) /\ SubSeq(data, 1, Len(data)) = data
      BY <1>1, SubSeqFull DEF len
    <3>3. Len(Plain(SubSeq(data, 1, Len(data)))) \in Len(data)..(4 * Len(data))
      BY <3>2, PlainLength
    <3>4. Len(txt) \in Len(data)..(4 * Len(data))
      BY <3>1, <3>2, <3>3
    <3>5. Len(txt) + 2 \in Nat /\ Len(txt) + 2 > Len(data)
      BY <1>1, <2>5, <3>4 DEF len
    <3> QED
      BY <3>1, <3>5, DecodePlain
  <2>12. wpa_config_parse_string(<<LetterP>> \o Wrapped(Quote, txt, Quote)) = read
    BY <2>5, <2>7, PrintedString
  <2>13. /\ IsPrefix(hexstr2bin(SubSeq(hex.text, 1, hex.ret), hex.ret \div 2), data)
         /\ room > 2 * Len(data) => hex.text = HexText(data)
    BY <2>1, HexWritten
  <2>14. room > 2 * Len(data) => wpa_config_parse_string(hex.text) = data
    <3> HIDE DEF hex
    <3> QED
      BY <2>13, HexString
  <2> HIDE DEF read, hex
  <2> QED
    BY <2>8, <2>9, <2>10, <2>11, <2>12, <2>13, <2>14 DEF txt, read, hex
<1>3. Len(data) <= SSID_MAX_LEN =>
        printf_decode(4 * Len(data) + 1, wpa_ssid_txt(data)) = data
  <2> HAVE Len(data) <= SSID_MAX_LEN
  <2> DEFINE room == SSID_MAX_LEN * 4 + 1
             size == 4 * Len(data) + 1
  <2>1. room \in Nat /\ room > 4 * Len(data) /\ size \in Nat /\ size > Len(data)
    BY <1>1
  <2> HIDE DEF room, size
  <2>2. printf_encode(room, data) = Plain(data)
    BY <2>1, EncodeWhole
  <2>3. printf_decode(size, Plain(data)) = data
    BY <2>1, DecodePlain
  <2> QED
    BY <2>2, <2>3 DEF wpa_ssid_txt, room, size
<1> QED
  BY <1>2, <1>3 DEF PrintedIsReadBack

-----------------------------------------------------------------------------
(* Escaped text. *)

\* What is written behind a backslash.
Doubled == {Backslash, Apostrophe}

\* What each byte is escaped as.
ApostropheOf == [b \in Byte |-> IF b \in Doubled THEN <<Backslash, b>> ELSE <<b>>]

\* All of d as it is escaped where there is room.
EscapeText(d) == Joined(ApostropheOf, d)

\* An escape is one or two bytes (common.c:1106-1141).
LEMMA ApostropheType ==
  /\ ApostropheOf \in [Byte -> Seq(Byte)]
  /\ \A b \in Byte : /\ b \in Doubled =>
                        /\ Len(ApostropheOf[b]) = 2
                        /\ ApostropheOf[b][1] = Backslash /\ ApostropheOf[b][2] = b
                     /\ b \notin Doubled => Len(ApostropheOf[b]) = 1 /\ ApostropheOf[b][1] = b
<1>1. ASSUME NEW b \in Byte
      PROVE  /\ ApostropheOf[b] \in Seq(Byte)
             /\ b \in Doubled => /\ Len(ApostropheOf[b]) = 2
                                 /\ ApostropheOf[b][1] = Backslash /\ ApostropheOf[b][2] = b
             /\ b \notin Doubled => Len(ApostropheOf[b]) = 1 /\ ApostropheOf[b][1] = b
  <2>1. CASE b \in Doubled
    <3>1. ApostropheOf[b] = <<Backslash, b>>
      BY <2>1 DEF ApostropheOf
    <3>2. <<Backslash, b>> \in Seq(Byte)
      BY DEF Backslash, Byte
    <3> QED
      BY <2>1, <3>1, <3>2
  <2>2. CASE b \notin Doubled
    <3>1. ApostropheOf[b] = <<b>>
      BY <2>2 DEF ApostropheOf
    <3> QED
      BY <2>2, <3>1
  <2> QED
    BY <2>1, <2>2
<1> QED
  BY <1>1 DEF ApostropheOf

\* One or two bytes for each, which never become fewer.
LEMMA EscapeLength ==
  ASSUME NEW d \in Seq(Byte)
  PROVE  EscapeText(d) \in Seq(Byte) /\ Len(EscapeText(d)) \in Len(d)..(2 * Len(d))
<1> DEFINE P == {e \in Seq(Byte) : Len(EscapeText(e)) \in Len(e)..(2 * Len(e))}
<1>1. /\ EscapeText(<<>>) = <<>>
      /\ \A e \in Seq(Byte) : EscapeText(e) \in Seq(Byte)
      /\ \A e \in Seq(Byte), b \in Byte :
            EscapeText(Append(e, b)) = EscapeText(e) \o ApostropheOf[b]
  <2>1. ApostropheOf \in [Byte -> Seq(Byte)]
    BY ApostropheType
  <2>2. /\ Joined(ApostropheOf, <<>>) = <<>>
        /\ \A e \in Seq(Byte) : Joined(ApostropheOf, e) \in Seq(Byte)
        /\ \A e \in Seq(Byte), b \in Byte :
              Joined(ApostropheOf, Append(e, b)) = Joined(ApostropheOf, e) \o ApostropheOf[b]
    BY <2>1, JoinedFacts
  <2> QED
    BY <2>2 DEF EscapeText
<1>2. <<>> \in P
  <2>1. <<>> \in Seq(Byte) /\ Len(<<>>) = 0
    BY EmptySeq
  <2>2. Len(EscapeText(<<>>)) \in Len(<<>>)..(2 * Len(<<>>))
    BY <1>1, <2>1
  <2> QED
    BY <2>1, <2>2
<1>3. ASSUME NEW e \in Seq(Byte), NEW b \in Byte, e \in P PROVE Append(e, b) \in P
  <2> DEFINE t == EscapeText(e)
             w == ApostropheOf[b]
             n == Len(e)
  <2>1. Append(e, b) \in Seq(Byte) /\ Len(Append(e, b)) = n + 1 /\ n \in Nat
    BY AppendProperties, LenProperties
  <2>2. t \in Seq(Byte) /\ w \in Seq(Byte) /\ Len(w) \in 1..2 /\ Len(t) \in n..(2 * n)
    BY <1>1, <1>3, ApostropheType
  <2> HIDE DEF t, w, n
  <2>3. Len(t \o w) = Len(t) + Len(w)
    BY <2>2, ConcatProperties
  <2>4. Len(t) + Len(w) \in (n + 1)..(2 * (n + 1))
    <3>1. \A i \in n..(2 * n), j \in 1..2 : i + j \in (n + 1)..(2 * (n + 1))
      BY <2>1
    <3> QED
      BY <2>2, <3>1
  <2>5. EscapeText(Append(e, b)) = t \o w
    BY <1>1 DEF t, w
  <2>6. Len(EscapeText(Append(e, b))) \in Len(Append(e, b))..(2 * Len(Append(e, b)))
    BY <2>1, <2>3, <2>4, <2>5
  <2> QED
    BY <2>1, <2>6
<1>4. Seq(Byte) \subseteq P
  <2> HIDE DEF P
  <2> QED
    BY <1>2, <1>3, InductSeq
<1> QED
  BY <1>1, <1>4

\* utf8_escape() writes all of the text, or nothing.
LEMMA EscapeWritten ==
  ASSUME NEW d \in Seq(Byte), NEW room
  PROVE  utf8_escape(d, room) = IF Len(EscapeText(d)) > room THEN <<>> ELSE EscapeText(d)
<1>1. \A n \in DOMAIN d : d[n] \in Byte
  BY LenProperties, ElementOfSeq
<1>2. [n \in DOMAIN d |-> ApostropheOf[d[n]]]
        = [n \in DOMAIN d |-> IF d[n] \in {Backslash, Apostrophe} THEN <<Backslash, d[n]>>
                              ELSE <<d[n]>>]
  BY <1>1 DEF ApostropheOf, Doubled
<1> QED
  BY <1>2 DEF utf8_escape, EscapeText, Joined

\* Escaped text is read wherever it begins, up to its end or an apostrophe.
LEMMA UnescapeRead ==
  ASSUME NEW d \in Seq(Byte), NEW t \in Seq(Byte), NEW o \in Nat, NEW room \in Nat,
         o + Len(EscapeText(d)) <= Len(t),
         \A i \in 1..Len(EscapeText(d)) : t[o + i] = EscapeText(d)[i],
         (IF At(t, 1) = Apostrophe THEN 2 ELSE 1) = o + 1,
         o + Len(EscapeText(d)) < Len(t) => t[o + Len(EscapeText(d)) + 1] = Apostrophe
  PROVE  utf8_unescape(t, room) =
            IF Len(d) < room \/ (Len(d) = room /\ Len(t) = o + Len(EscapeText(d)))
            THEN d ELSE <<>>
<1> DEFINE w == EscapeText(d)
           len == Len(t)
           all == Len(d)
           last == IF all <= room THEN all ELSE room
           pos(m) == o + Len(EscapeText(SubSeq(d, 1, m))) + 1
           stage(m) == [p |-> pos(m), outp |-> SubSeq(d, 1, m)]
           done == UnescapeTurn(t, room, stage(last))
           whole == all < room \/ (all = room /\ len = o + Len(w))
           res == IF whole THEN d ELSE <<>>
           g == [n \in 0..len |-> IF n <= last THEN stage(n) ELSE done]
           init == [p |-> IF At(t, 1) = Apostrophe THEN 2 ELSE 1, outp |-> <<>>]
           body(h) == [n \in 0..len |->
                        IF n = 0 THEN [p |-> IF At(t, 1) = Apostrophe THEN 2 ELSE 1, outp |-> <<>>]
                        ELSE UnescapeTurn(t, room, h[n - 1])]
           read == CHOOSE h : h = body(h)
<1>1. /\ all \in Nat /\ len \in Nat /\ w \in Seq(Byte) /\ Len(w) \in all..(2 * all)
      /\ SubSeq(d, 1, all) = d /\ DOMAIN t = 1..len
  BY LenProperties, EscapeLength, SubSeqFull
<1>2. last \in Nat /\ last <= all /\ last <= room /\ last <= len
  <2> HIDE DEF w, all, len
  <2>1. o + Len(w) <= len
    BY DEF w, len
  <2> QED
    BY <1>1, <2>1
<1>3. stage(0) = init
  <2>1. SubSeq(d, 1, 0) = <<>>
    BY SubSeqEmpty
  <2>2. EscapeText(<<>>) = <<>>
    BY ApostropheType, JoinedFacts DEF EscapeText
  <2>3. Len(EscapeText(SubSeq(d, 1, 0))) = 0
    BY <2>1, <2>2, EmptySeq
  <2>4. pos(0) = o + 1
    BY <2>3
  <2>5. pos(0) = IF At(t, 1) = Apostrophe THEN 2 ELSE 1
    BY <2>4
  <2> HIDE DEF pos
  <2> QED
    BY <2>1, <2>5
<1>4. ASSUME NEW m \in 1..last PROVE UnescapeTurn(t, room, stage(m - 1)) = stage(m)
  <2> DEFINE b == d[m]
             v == ApostropheOf[b]
             a == Len(EscapeText(SubSeq(d, 1, m - 1)))
             x == SubSeq(d, 1, m - 1)
             p == o + a + 1
  <2>1. m \in 1..all /\ m \in 1..Len(d) /\ m - 1 \in 0..all /\ m - 1 < room
    <3> HIDE DEF all
    <3>1. m \in 1..all
      BY <1>1, <1>2
    <3>2. m - 1 \in 0..all /\ m - 1 < room
      BY <1>1, <1>2, <3>1
    <3> QED
      BY <3>1, <3>2 DEF all
  <2>2. Placed(ApostropheOf, d, m)
    BY <2>1, ApostropheType, JoinedPlace
  <2>3. /\ a \in Nat /\ a + Len(v) <= Len(w)
        /\ Len(EscapeText(SubSeq(d, 1, m))) = a + Len(v) /\ \A i \in 1..Len(v) : w[a + i] = v[i]
    BY <2>2 DEF Placed, EscapeText
  <2>4. b \in Byte /\ x \in Seq(Byte) /\ Len(x) = m - 1 /\ SubSeq(d, 1, m) = Append(x, b)
    BY <2>1, ElementOfSeq, PrefixGrows, PrefixFacts
  <2>5. pos(m) = o + (a + Len(v)) + 1 /\ stage(m - 1) = [p |-> p, outp |-> x]
    BY <2>3
  <2>6. o + Len(w) <= len /\ \A i \in 1..Len(w) : t[o + i] = w[i]
    OBVIOUS
  <2> HIDE DEF w, len, all, last, b, v, a, x
  <2>7. ASSUME NEW i \in 1..Len(v) PROVE o + a + i \in 1..len /\ t[o + a + i] = v[i]
    <3>1. a + i \in 1..Len(w) /\ o + (a + i) = o + a + i /\ o + a + i \in 1..len
      BY <1>1, <2>3, <2>6
    <3> QED
      BY <2>3, <2>6, <3>1
  <2>8. Len(x) < room /\ ~(Len(x) >= room)
    BY <2>1, <2>4
  <2> DEFINE was == stage(m - 1)
  <2>9. was.p = p /\ was.outp = x
    BY <2>5
  <2> HIDE DEF was, stage, pos, p
  <2>10. CASE b \in Doubled
    <3>1. Len(v) = 2 /\ v[1] = Backslash /\ v[2] = b
      BY <2>4, <2>10, ApostropheType DEF v
    <3>2. p \in 1..len /\ t[p] = Backslash /\ p + 1 \in 1..len /\ t[p + 1] = b
      <4>1. o + a + 1 \in 1..len /\ t[o + a + 1] = v[1]
        BY <2>7, <3>1
      <4>2. o + a + 2 \in 1..len /\ t[o + a + 2] = v[2]
        BY <2>7, <3>1
      <4>3. p + 1 = o + a + 2
        BY <2>3 DEF p
      <4> QED
        BY <3>1, <4>1, <4>2, <4>3 DEF p
    <3>3. ~(p > len) /\ p # len
      BY <1>1, <3>2
    <3>4. Backslash # Apostrophe
      BY DEF Backslash, Apostrophe
    <3>5. UnescapeTurn(t, room, was) = [p |-> p + 2, outp |-> Append(x, b)]
      BY <2>8, <2>9, <3>2, <3>3, <3>4 DEF UnescapeTurn, len
    <3>6. p + 2 = pos(m)
      BY <2>3, <2>5, <3>1 DEF p
    <3> QED
      BY <2>4, <3>5, <3>6 DEF was, stage
  <2>11. CASE b \notin Doubled
    <3>1. Len(v) = 1 /\ v[1] = b
      BY <2>4, <2>11, ApostropheType DEF v
    <3>2. p \in 1..len /\ t[p] = b
      <4>1. o + a + 1 \in 1..len /\ t[o + a + 1] = v[1]
        BY <2>7, <3>1
      <4> QED
        BY <3>1, <4>1 DEF p
    <3>3. ~(p > len)
      BY <1>1, <3>2
    <3>4. b # Backslash /\ b # Apostrophe
      BY <2>11 DEF Doubled
    <3>5. UnescapeTurn(t, room, was) = [p |-> p + 1, outp |-> Append(x, b)]
      BY <2>8, <2>9, <3>2, <3>3, <3>4 DEF UnescapeTurn, len
    <3>6. p + 1 = pos(m)
      BY <2>3, <2>5, <3>1 DEF p
    <3> QED
      BY <2>4, <3>5, <3>6 DEF was, stage
  <2> QED
    BY <2>10, <2>11
\* What is left to read when everything that is kept has been read.
<1>5. /\ UnescapeTurn(t, room, done) = done /\ (last < len => done.outp = res)
      /\ (last = len => stage(last).outp = res)
  <2> DEFINE x == SubSeq(d, 1, last)
             p == pos(last)
             was == stage(last)
  <2>1. was.p = p /\ was.outp = x /\ Len(x) = last
    <3>1. last \in 0..Len(d)
      BY <1>1, <1>2
    <3> HIDE DEF last
    <3> QED
      BY <3>1, PrefixFacts
  <2>2. all <= room => last = all /\ x = d /\ p = o + Len(w) + 1
    <3> HAVE all <= room
    <3>1. last = all
      OBVIOUS
    <3> HIDE DEF last
    <3>2. x = d
      BY <1>1, <3>1
    <3> QED
      BY <3>1, <3>2
  <2>3. ASSUME all > room
        PROVE  last = room /\ p <= len /\ res = <<>>
    <3>1. last = room
      BY <1>1, <2>3
    <3>2. room + 1 \in 1..Len(d) /\ (room + 1) - 1 = room
      BY <1>1, <2>3
    <3>3. Placed(ApostropheOf, d, room + 1)
      BY <3>2, ApostropheType, JoinedPlace
    <3>4. /\ Len(EscapeText(SubSeq(d, 1, room))) \in Nat
          /\ Len(EscapeText(SubSeq(d, 1, room))) + Len(ApostropheOf[d[room + 1]]) <= Len(w)
      BY <3>2, <3>3 DEF Placed, EscapeText
    <3>5. Len(ApostropheOf[d[room + 1]]) \in 1..2
      BY <3>2, ElementOfSeq, ApostropheType
    <3>6. o + Len(w) <= len
      OBVIOUS
    <3> HIDE DEF last, w, len
    <3>7. p <= len
      <4> DEFINE i == Len(EscapeText(SubSeq(d, 1, room)))
                 j == Len(ApostropheOf[d[room + 1]])
      <4>1. p = o + i + 1
        BY <3>1
      <4>2. i \in Nat /\ j \in 1..2 /\ i + j <= Len(w) /\ Len(w) \in Nat
        <5>1. j \in 1..2
          BY <3>5
        <5>2. i \in Nat /\ i + j <= Len(w)
          BY <3>4
        <5>3. Len(w) \in Nat
          BY <1>1, LenProperties
        <5> QED
          BY <5>1, <5>2, <5>3
      <4> HIDE DEF i, j, p
      <4> QED
        BY <1>1, <3>6, <4>1, <4>2
    <3> HIDE DEF all
    <3>8. ~whole
      BY <1>1, <2>3
    <3> QED
      BY <3>1, <3>7, <3>8
  <2>4. o + Len(w) <= len /\ (o + Len(w) < len => t[o + Len(w) + 1] = Apostrophe)
    OBVIOUS
  <2>5. \A z : UnescapeTurn(t, room, [p |-> len + 1, outp |-> z]) = [p |-> len + 1, outp |-> z]
    <3>1. len + 1 > Len(t)
      BY <1>1
    <3> QED
      BY <3>1 DEF UnescapeTurn
  <2> HIDE DEF w, len, all, last, stage, pos, x, p, was
  \* There was room for all, and all has been read.
  <2>6. CASE all <= room /\ len = o + Len(w)
    <3>1. p > len /\ whole
      BY <1>1, <2>2, <2>6
    <3>2. UnescapeTurn(t, room, was) = was
      BY <2>1, <3>1 DEF UnescapeTurn, len
    <3> QED
      BY <2>1, <2>2, <2>6, <3>1, <3>2 DEF was
  <2>7. CASE all <= room /\ len # o + Len(w)
    <3>1. p <= len /\ ~(p > len) /\ t[p] = Apostrophe /\ last < len
      BY <1>1, <2>2, <2>4, <2>7
    <3>2. CASE all < room
      <4>1. ~(Len(x) >= room) /\ whole
        BY <1>1, <2>1, <2>2, <3>2
      <4>2. UnescapeTurn(t, room, was) = [p |-> len + 1, outp |-> d]
        BY <2>1, <2>2, <2>7, <3>1, <4>1 DEF UnescapeTurn, len
      <4> QED
        BY <1>1, <2>5, <3>1, <4>1, <4>2 DEF was
    <3>3. CASE all = room
      <4>1. Len(x) >= room /\ ~whole
        BY <1>1, <2>1, <2>2, <2>7, <3>3
      <4>2. UnescapeTurn(t, room, was) = [p |-> len + 1, outp |-> <<>>]
        BY <2>1, <3>1, <4>1 DEF UnescapeTurn, len
      <4> QED
        BY <1>1, <2>5, <3>1, <4>1, <4>2 DEF was
    <3> QED
      BY <1>1, <2>7, <3>2, <3>3
  <2>8. CASE all > room
    <3>1. last = room /\ p <= len /\ ~(p > len) /\ Len(x) >= room /\ res = <<>>
      <4>1. last = room /\ p <= len /\ res = <<>>
        BY <2>3, <2>8
      <4>2. p \in Nat
        <5>1. SubSeq(d, 1, last) \in Seq(Byte)
          BY <1>1, <1>2, PrefixFacts DEF all
        <5>2. Len(EscapeText(SubSeq(d, 1, last))) \in Nat
          BY <5>1, EscapeLength, LenProperties
        <5> QED
          BY <5>2 DEF p, pos
      <4> QED
        BY <1>1, <2>1, <4>1, <4>2
    <3>2. UnescapeTurn(t, room, was) = [p |-> len + 1, outp |-> <<>>]
      BY <2>1, <3>1 DEF UnescapeTurn, len
    <3>3. last < len
      BY <1>1, <2>4, <2>8, <3>1
    <3> HIDE DEF res
    <3> QED
      BY <1>1, <2>5, <3>1, <3>2, <3>3 DEF was
  <2> QED
    BY <1>1, <2>6, <2>7, <2>8
<1>6. /\ g[0] = init /\ g[len].outp = res
      /\ \A n \in 1..len : g[n] = UnescapeTurn(t, room, g[n - 1])
  <2> HIDE DEF stage, len, last, done, init, res
  <2>1. 0 \in 0..len /\ len \in 0..len /\ 0 <= last /\ (len <= last => len = last)
    BY <1>1, <1>2
  <2>2. g[0] = init
    BY <1>3, <2>1
  <2>3. g[len].outp = res
    <3>1. CASE len <= last
      <4>1. g[len] = stage(last)
        BY <2>1, <3>1
      <4> QED
        BY <1>5, <2>1, <3>1, <4>1
    <3>2. CASE ~(len <= last)
      <4>1. g[len] = done /\ last < len
        BY <1>1, <1>2, <2>1, <3>2
      <4> QED
        BY <1>5, <4>1
    <3> QED
      BY <3>1, <3>2
  <2>4. ASSUME NEW n \in 1..len PROVE g[n] = UnescapeTurn(t, room, g[n - 1])
    <3>1. n \in 0..len /\ n - 1 \in 0..len
      BY <1>1
    <3>2. CASE n <= last
      <4>1. n \in 1..last /\ n - 1 <= last
        BY <1>1, <1>2, <3>2
      <4>2. g[n] = stage(n) /\ g[n - 1] = stage(n - 1)
        BY <3>1, <3>2, <4>1
      <4> QED
        BY <1>4, <4>1, <4>2
    <3>3. CASE n - 1 = last
      <4>1. ~(n <= last) /\ n - 1 <= last
        BY <1>1, <1>2, <3>3
      <4>2. g[n] = done /\ g[n - 1] = stage(last)
        BY <3>1, <3>3, <4>1
      <4> QED
        BY <4>2 DEF done
    <3>4. CASE ~(n <= last) /\ n - 1 # last
      <4>1. ~(n - 1 <= last)
        BY <1>1, <1>2, <3>4
      <4>2. g[n] = done /\ g[n - 1] = done
        BY <3>1, <3>4, <4>1
      <4> QED
        BY <1>5, <4>2
    <3> QED
      BY <3>2, <3>3, <3>4
  <2> QED
    BY <2>2, <2>3, <2>4
<1>7. g = body(g)
  <2> HIDE DEF len
  <2>1. \A n \in 0..len : g[n] = IF n = 0 THEN init ELSE UnescapeTurn(t, room, g[n - 1])
    <3> HIDE DEF g, init
    <3>1. \A n \in 0..len : n = 0 \/ n \in 1..len
      BY <1>1
    <3> QED
      BY <1>6, <3>1
  <2>2. g = [n \in 0..len |-> g[n]]
    <3> HIDE DEF stage, done, last
    <3> QED
      OBVIOUS
  <2> HIDE DEF g
  <2> QED
    BY <2>1, <2>2
<1>8. read = body(read)
  <2> HIDE DEF body, g
  <2> QED
    BY <1>7
<1>9. read[0] = init /\ \A n \in 1..len : read[n] = UnescapeTurn(t, room, read[n - 1])
  <2> HIDE DEF read, len
  <2>1. \A n \in 0..len : read[n] = IF n = 0 THEN init ELSE UnescapeTurn(t, room, read[n - 1])
    BY <1>8
  <2>2. 0 \in 0..len /\ \A n \in 1..len : n \in 0..len /\ n # 0
    BY <1>1
  <2> HIDE DEF init
  <2> QED
    BY <2>1, <2>2
<1>10. \A n \in 0..len : read[n] = g[n]
  <2> HIDE DEF read, g, len, init
  <2>1. SameSteps(read, g, len)
    BY <1>6, <1>9 DEF SameSteps
  <2>2. len \in Nat
    BY <1>1
  <2> QED
    BY <2>1, <2>2, SameValues
<1>11. read[len].outp = res
  <2> HIDE DEF read, g, len, res
  <2>1. len \in 0..len
    BY <1>1
  <2> QED
    BY <1>6, <1>10, <2>1
<1>12. utf8_unescape(t, room) = read[len].outp
  BY DEF utf8_unescape
<1> HIDE DEF read
<1> QED
  BY <1>11, <1>12

\* No escaped text begins with an apostrophe.
LEMMA EscapeStart ==
  ASSUME NEW d \in Seq(Byte)
  PROVE  At(EscapeText(d), 1) # Apostrophe
<1> DEFINE w == EscapeText(d)
<1>1. Len(d) \in Nat /\ w \in Seq(Byte) /\ DOMAIN w = 1..Len(w) /\ Len(w) \in Len(d)..(2 * Len(d))
  BY LenProperties, EscapeLength
<1>2. CASE Len(d) = 0
  <2>1. Len(w) = 0
    BY <1>1, <1>2
  <2> HIDE DEF w
  <2>2. At(w, 1) = 0
    BY <1>1, <2>1 DEF At
  <2> QED
    BY <2>2 DEF Apostrophe, w
<1>3. CASE Len(d) # 0
  <2>1. 1 \in 1..Len(d) /\ 1 - 1 = 0
    BY <1>1, <1>3
  <2>2. Placed(ApostropheOf, d, 1) /\ d[1] \in Byte
    BY <2>1, ApostropheType, JoinedPlace, ElementOfSeq
  <2>3. SubSeq(d, 1, 0) = <<>> /\ Joined(ApostropheOf, <<>>) = <<>>
    BY SubSeqEmpty, ApostropheType, JoinedFacts
  <2>4. Len(Joined(ApostropheOf, SubSeq(d, 1, 0))) = 0
    BY <2>3, EmptySeq
  <2> DEFINE v == ApostropheOf[d[1]]
  <2>5. \A i \in 1..Len(v) : w[0 + i] = v[i]
    BY <2>1, <2>2, <2>4 DEF Placed, EscapeText
  <2>6. Len(v) \in 1..2 /\ v[1] # Apostrophe
    BY <2>2, ApostropheType DEF Doubled, Backslash, Apostrophe
  <2> HIDE DEF v, w
  <2>7. 1 \in 1..Len(v) /\ 0 + 1 = 1
    BY <2>6
  <2>8. w[1] = v[1]
    BY <2>5, <2>7
  <2>9. 1 \in DOMAIN w
    <3>1. \A n \in Nat : \A l \in n..(2 * n) : n # 0 => 1 \in 1..l
      OBVIOUS
    <3> QED
      BY <1>1, <1>3, <3>1
  <2>10. At(w, 1) = w[1]
    BY <2>9 DEF At
  <2> QED
    BY <2>6, <2>8, <2>10 DEF w
<1> QED
  BY <1>2, <1>3

\* All that is said of escaped text, of any data.
LEMMA EscapedRead ==
  ASSUME data \in Seq(Byte)
  PROVE  EscapedIsReadBack
<1> DEFINE w == EscapeText(data)
           all == utf8_escape(data, 2 * Len(data))
           len == Len(data)
<1>1. /\ len \in Nat /\ w \in Seq(Byte) /\ Len(w) \in len..(2 * len) /\ Len(w) \in Nat
      /\ MaxData \in Nat
  BY LenProperties, EscapeLength, CommonMCAssumption
<1>2. all = w
  <2>1. ~(Len(w) > 2 * len)
    BY <1>1
  <2> QED
    BY <2>1, EscapeWritten
<1>3. ASSUME NEW room \in 0..(2 * MaxData)
      PROVE  /\ utf8_escape(data, room) = IF Len(all) <= room THEN all ELSE <<>>
             /\ utf8_unescape(all, room) = IF Len(data) <= room THEN data ELSE <<>>
             /\ room > Len(data) =>
                    utf8_unescape(Wrapped(Apostrophe, all, Apostrophe), room) = data
  <2>1. room \in Nat
    BY <1>1
  <2> HIDE DEF all
  <2>2. utf8_escape(data, room) = IF Len(all) <= room THEN all ELSE <<>>
    <3>1. utf8_escape(data, room) = IF Len(w) > room THEN <<>> ELSE w
      BY EscapeWritten
    <3>2. Len(w) > room <=> ~(Len(w) <= room)
      <4> HIDE DEF w
      <4> QED
        BY <1>1, <2>1
    <3> QED
      BY <1>2, <3>1, <3>2
  <2>3. utf8_unescape(all, room) = IF Len(data) <= room THEN data ELSE <<>>
    <3>1. At(w, 1) # Apostrophe
      BY EscapeStart
    <3> DEFINE o == 0
    <3>2. /\ o \in Nat /\ o + Len(EscapeText(data)) = Len(w)
          /\ \A i \in 1..Len(EscapeText(data)) : o + i = i
      BY <1>1
    <3>3. (IF At(w, 1) = Apostrophe THEN 2 ELSE 1) = o + 1
      BY <3>1
    <3>4. /\ o + Len(EscapeText(data)) <= Len(w)
          /\ ~(o + Len(EscapeText(data)) < Len(w))
          /\ \A i \in 1..Len(EscapeText(data)) : w[o + i] = EscapeText(data)[i]
      BY <1>1, <3>2
    <3> DEFINE t == w
    <3> HIDE DEF o, t
    <3>5. utf8_unescape(t, room)
            = IF Len(data) < room \/ (Len(data) = room /\ Len(t) = o + Len(EscapeText(data)))
              THEN data ELSE <<>>
      <4>1. t \in Seq(Byte) /\ o \in Nat
        BY <1>1, <3>2 DEF t
      <4>2. /\ o + Len(EscapeText(data)) <= Len(t)
            /\ \A i \in 1..Len(EscapeText(data)) : t[o + i] = EscapeText(data)[i]
            /\ (IF At(t, 1) = Apostrophe THEN 2 ELSE 1) = o + 1
            /\ o + Len(EscapeText(data)) < Len(t) => t[o + Len(EscapeText(data)) + 1] = Apostrophe
        BY <3>3, <3>4 DEF t
      <4> QED
        BY <2>1, <4>1, <4>2, UnescapeRead
    <3>6. Len(data) <= room <=> Len(data) < room \/ Len(data) = room
      BY <1>1, <2>1
    <3> QED
      BY <1>2, <3>2, <3>5, <3>6 DEF t
  <2>4. ASSUME room > Len(data)
        PROVE  utf8_unescape(Wrapped(Apostrophe, all, Apostrophe), room) = data
    <3> DEFINE a == Apostrophe
               t == Wrapped(a, w, a)
               o == 1
    <3>1. a \in Byte
      BY DEF Apostrophe, Byte
    <3> HIDE DEF a, w
    <3>2. /\ t \in Seq(Byte) /\ Len(t) = Len(w) + 2 /\ t[1] = a /\ t[Len(w) + 2] = a
          /\ \A i \in 1..Len(w) : t[i + 1] = w[i]
      BY <1>1, <3>1, WrappedFacts
    <3> HIDE DEF t
    <3>3. At(t, 1) = Apostrophe
      <4>1. DOMAIN t = 1..Len(t)
        BY <3>2, LenProperties
      <4>2. 1 \in DOMAIN t
        BY <1>1, <3>2, <4>1
      <4> QED
        BY <3>2, <4>2 DEF At, a
    <3>4. /\ o + Len(w) <= Len(t) /\ o \in Nat
          /\ \A i \in 1..Len(w) : t[o + i] = w[i]
          /\ (IF At(t, 1) = Apostrophe THEN 2 ELSE 1) = o + 1
          /\ o + Len(w) < Len(t) => t[o + Len(w) + 1] = Apostrophe
      <4>1. o + Len(w) <= Len(t) /\ o \in Nat /\ o + Len(w) + 1 = Len(w) + 2
        BY <1>1, <3>2
      <4>2. \A i \in 1..Len(w) : t[o + i] = w[i]
        <5>1. \A i \in 1..Len(w) : o + i = i + 1
          BY <1>1
        <5> QED
          BY <3>2, <5>1
      <4>3. t[o + Len(w) + 1] = Apostrophe
        BY <3>2, <4>1 DEF a
      <4> QED
        BY <3>3, <4>1, <4>2, <4>3
    <3> HIDE DEF o
    <3>5. utf8_unescape(t, room)
            = IF Len(data) < room \/ (Len(data) = room /\ Len(t) = o + Len(EscapeText(data)))
              THEN data ELSE <<>>
      BY <2>1, <3>2, <3>4, UnescapeRead DEF w
    <3>6. Len(data) < room
      BY <1>1, <2>1, <2>4
    <3> QED
      BY <1>2, <3>5, <3>6 DEF t, a
  <2> QED
    BY <2>2, <2>3, <2>4
<1> QED
  BY <1>3 DEF EscapedIsReadBack

-----------------------------------------------------------------------------
(* Lists.                                                                    *)

\* What is put on a list; the list itself is 0.
Items == Nat \ {0}

\* No item is twice on the list.
Distinct(s) == s \in Seq(Items) /\ \A i, j \in 1..Len(s) : s[i] = s[j] => i = j

\* The items by their places; the list itself is before the first and behind the last.
LEMMA AtFacts ==
  ASSUME NEW S, NEW s \in Seq(S)
  PROVE  /\ At(s, 0) = 0 /\ At(s, Len(s) + 1) = 0
         /\ \A j \in 1..Len(s) : At(s, j) = s[j] /\ s[j] \in S
<1>1. DOMAIN s = 1..Len(s) /\ Len(s) \in Nat /\ \A j \in 1..Len(s) : s[j] \in S
  BY LenProperties, ElementOfSeq
<1>2. 0 \notin 1..Len(s) /\ Len(s) + 1 \notin 1..Len(s)
  BY <1>1
<1> QED
  BY <1>1, <1>2 DEF At

\* Different places have different items.
LEMMA AtApart ==
  ASSUME NEW s, Distinct(s), NEW j \in 0..(Len(s) + 1), NEW k \in 0..(Len(s) + 1),
         At(s, j) = At(s, k), j \in 1..Len(s) \/ k \in 1..Len(s)
  PROVE  j = k
<1>1. /\ Len(s) \in Nat /\ At(s, 0) = 0 /\ At(s, Len(s) + 1) = 0
      /\ \A i \in 1..Len(s) : At(s, i) = s[i] /\ s[i] # 0
  BY AtFacts, LenProperties DEF Distinct, Items
<1>2. /\ j = 0 \/ j = Len(s) + 1 \/ j \in 1..Len(s)
      /\ k = 0 \/ k = Len(s) + 1 \/ k \in 1..Len(s)
  BY <1>1
<1>3. j \in 1..Len(s) /\ k \in 1..Len(s)
  BY <1>1, <1>2
<1> QED
  BY <1>1, <1>3 DEF Distinct

\* An item more, behind the i-th.
LEMMA InsertFacts ==
  ASSUME NEW s \in Seq(Items), NEW i \in 0..Len(s), NEW n \in Items
  PROVE  LET t == InsertAt(s, i + 1, n)
         IN  /\ t \in Seq(Items) /\ Len(t) = Len(s) + 1
             /\ \A j \in 0..i : At(t, j) = At(s, j)
             /\ At(t, i + 1) = n
             /\ \A j \in (i + 1)..(Len(s) + 1) : At(t, j + 1) = At(s, j)
<1> DEFINE a == SubSeq(s, 1, i)
           c == SubSeq(s, i + 1, Len(s))
           m == <<n>>
           b == a \o m
           t == b \o c
           len == Len(s)
<1>1. InsertAt(s, i + 1, n) = t
  <2>1. (i + 1) - 1 = i
    OBVIOUS
  <2> QED
    BY <2>1 DEF InsertAt
<1>2. len \in Nat /\ i \in Nat /\ i <= len /\ DOMAIN s = 1..len
  BY LenProperties
<1>3. a \in Seq(Items) /\ Len(a) = i /\ \A j \in 1..i : a[j] = s[j]
  BY PrefixFacts
<1>4. c \in Seq(Items) /\ Len(c) = len - i /\ \A j \in 1..(len - i) : c[j] = s[i + j]
  BY RestFacts
<1>5. m \in Seq(Items) /\ Len(m) = 1 /\ m[1] = n
  OBVIOUS
<1> HIDE DEF a, c, m, len
<1>6. /\ b \in Seq(Items) /\ Len(b) = i + 1
      /\ \A j \in 1..(i + 1) : b[j] = IF j <= i THEN a[j] ELSE m[j - i]
  <2>1. /\ b \in Seq(Items) /\ Len(b) = Len(a) + Len(m)
        /\ \A j \in 1..(Len(a) + Len(m)) : b[j] = IF j <= Len(a) THEN a[j] ELSE m[j - Len(a)]
    BY <1>3, <1>5, ConcatProperties
  <2> HIDE DEF b
  <2> QED
    BY <1>3, <1>5, <2>1
<1> HIDE DEF b
<1>7. /\ t \in Seq(Items) /\ Len(t) = len + 1
      /\ \A j \in 1..(len + 1) : t[j] = IF j <= i + 1 THEN b[j] ELSE c[j - (i + 1)]
  <2>1. /\ t \in Seq(Items) /\ Len(t) = Len(b) + Len(c)
        /\ \A j \in 1..(Len(b) + Len(c)) : t[j] = IF j <= Len(b) THEN b[j] ELSE c[j - Len(b)]
    BY <1>4, <1>6, ConcatProperties
  <2>2. Len(b) + Len(c) = len + 1
    BY <1>2, <1>4, <1>6
  <2> HIDE DEF t
  <2> QED
    BY <1>6, <2>1, <2>2
<1> HIDE DEF t
<1>8. DOMAIN t = 1..(len + 1)
  BY <1>7, LenProperties
<1>9. \A j \in 0..i : At(t, j) = At(s, j)
  <2> TAKE j \in 0..i
  <2>1. CASE j = 0
    BY <2>1, <1>2, <1>8 DEF At
  <2>2. CASE j # 0
    <3>1. /\ j \in 1..i /\ j \in 1..(i + 1) /\ j \in 1..(len + 1) /\ j \in 1..len
          /\ j <= i + 1 /\ j <= i
      BY <1>2, <2>2
    <3>2. t[j] = s[j]
      BY <1>3, <1>6, <1>7, <3>1
    <3> QED
      BY <1>2, <1>8, <3>1, <3>2 DEF At
  <2> QED
    BY <2>1, <2>2
<1>10. At(t, i + 1) = n
  <2>1. /\ i + 1 \in 1..(len + 1) /\ i + 1 <= i + 1 /\ i + 1 \in 1..(i + 1)
        /\ ~(i + 1 <= i) /\ (i + 1) - i = 1
    BY <1>2
  <2>2. t[i + 1] = n
    BY <1>5, <1>6, <1>7, <2>1
  <2> QED
    BY <1>8, <2>1, <2>2 DEF At
<1>11. \A j \in (i + 1)..(len + 1) : At(t, j + 1) = At(s, j)
  <2> TAKE j \in (i + 1)..(len + 1)
  <2>1. CASE j = len + 1
    <3>1. j + 1 \notin 1..(len + 1) /\ j \notin 1..len
      BY <1>2, <2>1
    <3> QED
      BY <1>2, <1>8, <3>1 DEF At
  <2>2. CASE j # len + 1
    <3>1. /\ j + 1 \in 1..(len + 1) /\ j \in 1..len /\ ~(j + 1 <= i + 1)
          /\ (j + 1) - (i + 1) \in 1..(len - i) /\ i + ((j + 1) - (i + 1)) = j
      BY <1>2, <2>2
    <3>2. t[j + 1] = s[j]
      BY <1>4, <1>7, <3>1
    <3> QED
      BY <1>2, <1>8, <3>1, <3>2 DEF At
  <2> QED
    BY <2>1, <2>2
<1> QED
  BY <1>1, <1>7, <1>9, <1>10, <1>11 DEF len

\* To insert at an end is to put the item before all others, or behind them.
LEMMA InsertAtEnds ==
  ASSUME NEW s \in Seq(Items), NEW n \in Items
  PROVE  /\ <<n>> \o s = InsertAt(s, 0 + 1, n)
         /\ Append(s, n) = InsertAt(s, Len(s) + 1, n)
<1>1. Len(s) \in Nat /\ SubSeq(s, 1, Len(s)) = s /\ SubSeq(s, 1, 0) = <<>>
      /\ SubSeq(s, Len(s) + 1, Len(s)) = <<>>
  BY LenProperties, SubSeqFull, SubSeqEmpty
<1> DEFINE m == <<n>>
<1>2. m \in Seq(Items)
  OBVIOUS
<1> HIDE DEF m
<1>3. <<>> \o m = m /\ s \o m \in Seq(Items) /\ (s \o m) \o <<>> = s \o m /\ Append(s, n) = s \o m
  <2>1. s \o m \in Seq(Items)
    BY <1>2, ConcatProperties
  <2>2. (s \o m) \o <<>> = s \o m /\ <<>> \o m = m
    BY <1>2, <2>1, ConcatEmptySeq
  <2> QED
    BY <2>1, <2>2, AppendIsConcat DEF m
<1>4. InsertAt(s, 1, n) = m \o s
  <2>1. InsertAt(s, 1, n) = (SubSeq(s, 1, 0) \o m) \o SubSeq(s, 1, Len(s))
    BY DEF InsertAt, m
  <2> QED
    BY <1>1, <1>3, <2>1
<1>5. InsertAt(s, Len(s) + 1, n) = (s \o m) \o <<>>
  <2>1. (Len(s) + 1) - 1 = Len(s)
    BY <1>1
  <2>2. InsertAt(s, Len(s) + 1, n)
            = (SubSeq(s, 1, (Len(s) + 1) - 1) \o m) \o SubSeq(s, Len(s) + 1, Len(s))
    BY DEF InsertAt, m
  <2> QED
    BY <1>1, <2>1, <2>2
<1> QED
  BY <1>3, <1>4, <1>5 DEF m

\* An item less, which was the i-th.
LEMMA RemoveFacts ==
  ASSUME NEW s \in Seq(Items), NEW i \in 1..Len(s)
  PROVE  LET t == RemoveAt(s, i)
         IN  /\ t \in Seq(Items) /\ Len(t) = Len(s) - 1
             /\ \A j \in 0..(i - 1) : At(t, j) = At(s, j)
             /\ \A j \in i..Len(s) : At(t, j) = At(s, j + 1)
<1> DEFINE a == SubSeq(s, 1, i - 1)
           c == SubSeq(s, i + 1, Len(s))
           t == a \o c
           len == Len(s)
           k == i - 1
<1>1. RemoveAt(s, i) = t
  BY DEF RemoveAt
<1>2. len \in Nat /\ i \in 1..len /\ DOMAIN s = 1..len /\ k \in 0..len /\ i = k + 1
  BY LenProperties
<1>3. a \in Seq(Items) /\ Len(a) = k /\ \A j \in 1..k : a[j] = s[j]
  BY <1>2, PrefixFacts
<1>4. c \in Seq(Items) /\ Len(c) = len - i /\ \A j \in 1..(len - i) : c[j] = s[i + j]
  <2>1. i \in 0..Len(s)
    BY <1>2
  <2> QED
    BY <2>1, RestFacts
<1> HIDE DEF a, c, len, k
<1>5. /\ t \in Seq(Items) /\ Len(t) = len - 1
      /\ \A j \in 1..(len - 1) : t[j] = IF j <= k THEN a[j] ELSE c[j - k]
  <2>1. /\ t \in Seq(Items) /\ Len(t) = Len(a) + Len(c)
        /\ \A j \in 1..(Len(a) + Len(c)) : t[j] = IF j <= Len(a) THEN a[j] ELSE c[j - Len(a)]
    BY <1>3, <1>4, ConcatProperties
  <2>2. Len(a) + Len(c) = len - 1
    BY <1>2, <1>3, <1>4
  <2> HIDE DEF t
  <2> QED
    BY <1>3, <2>1, <2>2
<1> HIDE DEF t
<1>6. DOMAIN t = 1..(len - 1)
  BY <1>5, LenProperties
<1>7. \A j \in 0..k : At(t, j) = At(s, j)
  <2> TAKE j \in 0..k
  <2>1. CASE j = 0
    BY <2>1, <1>2, <1>6 DEF At
  <2>2. CASE j # 0
    <3>1. j \in 1..k /\ j \in 1..(len - 1) /\ j <= k /\ j \in 1..len
      BY <1>2, <2>2
    <3>2. t[j] = s[j]
      BY <1>3, <1>5, <3>1
    <3> QED
      BY <1>2, <1>6, <3>1, <3>2 DEF At
  <2> QED
    BY <2>1, <2>2
<1>8. \A j \in i..len : At(t, j) = At(s, j + 1)
  <2> TAKE j \in i..len
  <2>1. CASE j = len
    <3>1. j \notin 1..(len - 1) /\ j + 1 \notin 1..len
      BY <1>2, <2>1
    <3> QED
      BY <1>2, <1>6, <3>1 DEF At
  <2>2. CASE j # len
    <3>1. /\ j \in 1..(len - 1) /\ j + 1 \in 1..len /\ ~(j <= k)
          /\ j - k \in 1..(len - i) /\ i + (j - k) = j + 1
      BY <1>2, <2>2
    <3>2. t[j] = s[j + 1]
      BY <1>4, <1>5, <3>1
    <3> QED
      BY <1>2, <1>6, <3>1, <3>2 DEF At
  <2> QED
    BY <2>1, <2>2
<1> QED
  BY <1>1, <1>5, <1>7, <1>8 DEF len, k

\* Every item has a place in both functions, and they lead from each item of the
\* list to the next one and back, from and to the list itself.
LinkedAs(l, s, n) ==
    /\ Distinct(s) /\ \A j \in 1..Len(s) : s[j] <= n
    /\ DOMAIN l.next = DOMAIN l.prev /\ DOMAIN l.next \subseteq 0..n
    /\ 0 \in DOMAIN l.next /\ \A j \in 1..Len(s) : s[j] \in DOMAIN l.next
    /\ \A j \in 0..Len(s) : /\ l.next[At(s, j)] = At(s, j + 1)
                            /\ l.prev[At(s, j + 1)] = At(s, j)

\* A new item behind the i-th, or behind the list itself.
LEMMA AddKeeps ==
  ASSUME NEW l, NEW s, NEW n \in Nat, LinkedAs(l, s, n), NEW i \in 0..Len(s)
  PROVE  LinkedAs(dl_list_add(l, At(s, i), n + 1), InsertAt(s, i + 1, n + 1), n + 1)
<1> DEFINE len == Len(s)
           item == n + 1
           list == At(s, i)
           after == At(s, i + 1)
           t == InsertAt(s, i + 1, item)
           with(f, x, y) == [z \in DOMAIN f \cup {x} |-> IF z = x THEN y ELSE f[z]]
           next == with(with(l.next, item, after), list, item)
           prev == with(with(l.prev, item, list), after, item)
           D == DOMAIN l.next
           E == D \cup {item}
<1>1. /\ Distinct(s) /\ s \in Seq(Items) /\ len \in Nat /\ i \in 0..len
      /\ DOMAIN l.prev = D /\ D \subseteq 0..n /\ 0 \in D
      /\ \A j \in 0..len : l.next[At(s, j)] = At(s, j + 1) /\ l.prev[At(s, j + 1)] = At(s, j)
  BY LenProperties DEF LinkedAs, Distinct
<1>2. \A j \in 1..len : s[j] \in Items /\ s[j] <= n /\ s[j] \in D
  BY ElementOfSeq DEF LinkedAs, Distinct
<1>3. At(s, 0) = 0 /\ At(s, len + 1) = 0 /\ \A j \in 1..len : At(s, j) = s[j]
  BY <1>1, AtFacts
<1>4. \A j \in 0..(len + 1) : At(s, j) \in D /\ At(s, j) # item
  <2> HIDE DEF len, D, item
  <2>1. item \notin D
    BY <1>1 DEF item
  <2>2. \A j \in 0..(len + 1) : j = 0 \/ j = len + 1 \/ j \in 1..len
    BY <1>1
  <2> QED
    BY <1>1, <1>2, <1>3, <2>1, <2>2
<1>5. item \in Items /\ item \notin D /\ list \in D /\ after \in D /\ list # item /\ after # item
  <2>1. i \in 0..(len + 1) /\ i + 1 \in 0..(len + 1)
    BY <1>1
  <2>2. item \in Items
    BY DEF Items
  <2> HIDE DEF len, item, D
  <2>3. item \notin D
    BY <1>1 DEF item
  <2> QED
    BY <1>4, <2>1, <2>2, <2>3
<1>6. dl_list_add(l, list, item) = [next |-> next, prev |-> prev]
  <2>1. l.next[list] = after
    BY <1>1
  <2> QED
    BY <2>1 DEF dl_list_add
<1>7. /\ t \in Seq(Items) /\ Len(t) = len + 1
      /\ \A j \in 0..i : At(t, j) = At(s, j)
      /\ At(t, i + 1) = item
      /\ \A j \in (i + 1)..(len + 1) : At(t, j + 1) = At(s, j)
  BY <1>1, <1>5, InsertFacts
<1>8. DOMAIN next = E /\ DOMAIN prev = E
  <2> HIDE DEF list, after, item, D
  <2>1. DOMAIN next = (D \cup {item}) \cup {list} /\ DOMAIN prev = (D \cup {item}) \cup {after}
    BY <1>1 DEF D
  <2> QED
    BY <1>5, <2>1
<1>9. next[list] = item /\ next[item] = after
      /\ \A z \in D : z # list => next[z] = l.next[z]
  <2> DEFINE g == with(l.next, item, after)
  <2>1. DOMAIN g = E /\ g[item] = after /\ \A z \in D : g[z] = l.next[z]
    BY <1>5
  <2> HIDE DEF g, list, after, item
  <2>2. next = [z \in E \cup {list} |-> IF z = list THEN item ELSE g[z]]
    BY <2>1 DEF g
  <2> HIDE DEF next, D
  <2> QED
    BY <1>5, <2>1, <2>2
<1>10. prev[after] = item /\ prev[item] = list
       /\ \A z \in D : z # after => prev[z] = l.prev[z]
  <2> DEFINE g == with(l.prev, item, list)
  <2>1. DOMAIN g = E /\ g[item] = list /\ \A z \in D : g[z] = l.prev[z]
    BY <1>1, <1>5
  <2> HIDE DEF g, list, after, item
  <2>2. prev = [z \in E \cup {after} |-> IF z = after THEN item ELSE g[z]]
    BY <2>1 DEF g
  <2> HIDE DEF prev, D
  <2> QED
    BY <1>5, <2>1, <2>2
<1> HIDE DEF t, next, prev, D, len, item
<1>11. \A j, k \in 0..(len + 1) : At(s, j) = At(s, k) /\ (j \in 1..len \/ k \in 1..len) => j = k
  BY <1>1, AtApart DEF len
<1>12. ASSUME NEW j \in 0..(len + 1)
       PROVE  next[At(t, j)] = At(t, j + 1) /\ prev[At(t, j + 1)] = At(t, j)
  <2>1. CASE j < i
    <3>1. /\ j \in 0..i /\ j + 1 \in 0..i /\ j \in 0..len
          /\ j \in 0..(len + 1) /\ j + 1 \in 0..(len + 1)
          /\ j + 1 \in 1..len /\ i \in 1..len /\ i \in 0..(len + 1) /\ i + 1 \in 0..(len + 1)
          /\ j # i /\ j + 1 # i + 1
      BY <1>1, <2>1
    <3>2. At(t, j) = At(s, j) /\ At(t, j + 1) = At(s, j + 1)
      BY <1>7, <3>1
    <3>3. At(s, j) # list /\ At(s, j + 1) # after
      BY <1>11, <3>1
    <3> QED
      BY <1>1, <1>4, <1>9, <1>10, <3>1, <3>2, <3>3
  <2>2. CASE j = i
    <3>1. At(t, j) = list /\ At(t, j + 1) = item
      BY <1>1, <1>7, <2>2
    <3> QED
      BY <1>9, <1>10, <3>1
  <2>3. CASE j = i + 1
    <3>1. j \in (i + 1)..(len + 1)
      BY <1>1, <2>3
    <3>2. At(t, j) = item /\ At(t, j + 1) = after
      BY <1>7, <2>3, <3>1
    <3> QED
      BY <1>9, <1>10, <3>2
  <2>4. CASE j > i + 1
    <3> DEFINE k == j - 1
    <3>1. /\ k \in (i + 1)..(len + 1) /\ k + 1 = j /\ j \in (i + 1)..(len + 1)
          /\ k \in 0..(len + 1) /\ k \in 1..len /\ k \in 0..len /\ i \in 0..(len + 1)
          /\ i + 1 \in 0..(len + 1) /\ i + 1 \in 1..len /\ j \in 0..(len + 1) /\ k # i /\ j # i + 1
      BY <1>1, <2>4
    <3> HIDE DEF k
    <3>2. At(t, k + 1) = At(s, k) /\ At(t, j + 1) = At(s, j)
      BY <1>7, <3>1
    <3>3. At(s, k) # list /\ At(s, j) # after
      BY <1>11, <3>1
    <3>4. l.next[At(s, k)] = At(s, k + 1) /\ l.prev[At(s, k + 1)] = At(s, k)
      BY <1>1, <3>1
    <3>5. At(s, k) \in D /\ At(s, j) \in D
      BY <1>4, <3>1
    <3>6. next[At(s, k)] = l.next[At(s, k)] /\ prev[At(s, j)] = l.prev[At(s, j)]
      BY <1>9, <1>10, <3>3, <3>5
    <3> QED
      BY <3>1, <3>2, <3>4, <3>6
  <2> QED
    BY <1>1, <2>1, <2>2, <2>3, <2>4
<1>13. \A j \in 1..(len + 1) :
            \/ j = i + 1 /\ t[j] = item
            \/ \E k \in 1..len : t[j] = s[k] /\ (j = k \/ j = k + 1) /\ (j = k => k <= i)
                                             /\ (j = k + 1 => k > i)
  <2> TAKE j \in 1..(len + 1)
  <2>1. At(t, j) = t[j]
    <3>1. j \in 1..Len(t)
      BY <1>7
    <3> QED
      BY <1>7, <3>1, AtFacts
  <2>2. CASE j <= i
    <3>1. j \in 0..i /\ j \in 1..len
      BY <1>1, <2>2
    <3>2. t[j] = s[j]
      BY <1>3, <1>7, <2>1, <3>1
    <3>3. j # j + 1
      OBVIOUS
    <3> QED
      BY <2>2, <3>1, <3>2, <3>3
  <2>3. CASE j = i + 1
    BY <1>7, <2>1, <2>3
  <2>4. CASE j > i + 1
    <3> DEFINE k == j - 1
    <3>1. k \in (i + 1)..(len + 1) /\ k + 1 = j /\ k \in 1..len /\ k > i /\ j # k
      BY <1>1, <2>4
    <3> HIDE DEF k
    <3>2. t[j] = s[k]
      BY <1>3, <1>7, <2>1, <3>1
    <3> QED
      BY <3>1, <3>2
  <2> QED
    BY <1>1, <2>2, <2>3, <2>4
<1>14. \A j \in 1..(len + 1) : t[j] \in E /\ t[j] <= item
  <2>1. \A k \in 1..len : s[k] \in D /\ s[k] <= item
    <3>1. \A k \in 1..len : s[k] <= n /\ s[k] \in Nat
      BY <1>2 DEF Items
    <3> QED
      BY <1>2, <3>1 DEF item
  <2>2. item <= item
    BY DEF item
  <2> QED
    BY <1>13, <2>1, <2>2
<1>15. Distinct(t)
  <2>1. ASSUME NEW j \in 1..(len + 1), NEW k \in 1..(len + 1), t[j] = t[k] PROVE j = k
    <3>1. \A m \in 1..len : s[m] # item
      BY <1>2, <1>5
    <3>2. \A m, o \in 1..len : s[m] = s[o] => m = o
      BY <1>1 DEF Distinct, len
    <3>3. CASE j = i + 1 /\ t[j] = item
      BY <1>13, <2>1, <3>1, <3>3
    <3>4. CASE k = i + 1 /\ t[k] = item
      BY <1>13, <2>1, <3>1, <3>4
    <3>5. CASE ~(j = i + 1 /\ t[j] = item) /\ ~(k = i + 1 /\ t[k] = item)
      <4>1. PICK m \in 1..len : t[j] = s[m] /\ (j = m \/ j = m + 1) /\ (j = m => m <= i)
                                            /\ (j = m + 1 => m > i)
        BY <1>13, <3>5
      <4>2. PICK o \in 1..len : t[k] = s[o] /\ (k = o \/ k = o + 1) /\ (k = o => o <= i)
                                            /\ (k = o + 1 => o > i)
        BY <1>13, <3>5
      <4>3. m = o
        BY <2>1, <3>2, <4>1, <4>2
      <4> QED
        BY <1>1, <4>1, <4>2, <4>3
    <3> QED
      BY <3>3, <3>4, <3>5
  <2> QED
    BY <1>7, <2>1 DEF Distinct
<1>16. E \subseteq 0..item /\ 0 \in E
  BY <1>1 DEF item
<1> DEFINE new == [next |-> next, prev |-> prev]
<1>17. new.next = next /\ new.prev = prev
  OBVIOUS
<1> HIDE DEF new
<1>18. \A j \in 0..Len(t) : /\ new.next[At(t, j)] = At(t, j + 1)
                            /\ new.prev[At(t, j + 1)] = At(t, j)
  BY <1>7, <1>12, <1>17
<1>19. LinkedAs(new, t, item)
  BY <1>7, <1>8, <1>14, <1>15, <1>16, <1>17, <1>18 DEF LinkedAs
<1> QED
  BY <1>6, <1>19 DEF new, t, item

\* The i-th item is taken out.
LEMMA DelKeeps ==
  ASSUME NEW l, NEW s, NEW n \in Nat, LinkedAs(l, s, n), NEW i \in 1..Len(s)
  PROVE  LinkedAs(dl_list_del(l, s[i]), RemoveAt(s, i), n + 1)
<1> DEFINE len == Len(s)
           item == s[i]
           before == At(s, i - 1)
           after == At(s, i + 1)
           t == RemoveAt(s, i)
           next == [l.next EXCEPT ![before] = after, ![item] = None]
           prev == [l.prev EXCEPT ![after] = before, ![item] = None]
           D == DOMAIN l.next
<1>1. /\ Distinct(s) /\ s \in Seq(Items) /\ len \in Nat /\ i \in 1..len
      /\ DOMAIN l.prev = D /\ D \subseteq 0..n /\ 0 \in D
      /\ \A j \in 0..len : l.next[At(s, j)] = At(s, j + 1) /\ l.prev[At(s, j + 1)] = At(s, j)
  BY LenProperties DEF LinkedAs, Distinct
<1>2. \A j \in 1..len : s[j] \in Items /\ s[j] <= n /\ s[j] \in D
  BY ElementOfSeq DEF LinkedAs, Distinct
<1>3. At(s, 0) = 0 /\ At(s, len + 1) = 0 /\ \A j \in 1..len : At(s, j) = s[j]
  BY <1>1, AtFacts
<1>4. \A j \in 0..(len + 1) : At(s, j) \in D
  <2> HIDE DEF len, D
  <2>1. \A j \in 0..(len + 1) : j = 0 \/ j = len + 1 \/ j \in 1..len
    BY <1>1
  <2> QED
    BY <1>1, <1>2, <1>3, <2>1
<1>5. At(s, i) = item /\ before \in D /\ after \in D /\ item \in D
  <2>1. i - 1 \in 0..(len + 1) /\ i + 1 \in 0..(len + 1)
    BY <1>1
  <2> QED
    BY <1>1, <1>2, <1>3, <1>4, <2>1
<1>6. dl_list_del(l, item) = [next |-> next, prev |-> prev]
  <2>1. i - 1 \in 0..len /\ i \in 0..len /\ (i - 1) + 1 = i
    BY <1>1
  <2>2. l.next[item] = after /\ l.prev[item] = before
    BY <1>1, <1>5, <2>1
  <2> QED
    BY <2>2 DEF dl_list_del
<1>7. /\ t \in Seq(Items) /\ Len(t) = len - 1
      /\ \A j \in 0..(i - 1) : At(t, j) = At(s, j)
      /\ \A j \in i..len : At(t, j) = At(s, j + 1)
  BY <1>1, RemoveFacts
<1>8. DOMAIN next = D /\ DOMAIN prev = D
  BY <1>1
<1> HIDE DEF item, before, after
<1>9. \A z \in D : z # item => next[z] = IF z = before THEN after ELSE l.next[z]
  BY <1>1
<1>10. \A z \in D : z # item => prev[z] = IF z = after THEN before ELSE l.prev[z]
  BY <1>1
<1> HIDE DEF t, next, prev, D, len
<1>11. \A j, k \in 0..(len + 1) : At(s, j) = At(s, k) /\ (j \in 1..len \/ k \in 1..len) => j = k
  BY <1>1, AtApart DEF len
<1>12. ASSUME NEW j \in 0..(len - 1)
       PROVE  next[At(t, j)] = At(t, j + 1) /\ prev[At(t, j + 1)] = At(t, j)
  <2>1. CASE j < i - 1
    <3>1. /\ j \in 0..(i - 1) /\ j + 1 \in 0..(i - 1) /\ j \in 0..len
          /\ j \in 0..(len + 1) /\ j + 1 \in 0..(len + 1) /\ i \in 0..(len + 1)
          /\ i - 1 \in 0..(len + 1) /\ i + 1 \in 0..(len + 1)
          /\ i \in 1..len /\ i - 1 \in 1..len /\ j + 1 \in 1..len
          /\ j # i /\ j + 1 # i /\ j # i - 1 /\ j + 1 # i + 1
      BY <1>1, <2>1
    <3>2. At(t, j) = At(s, j) /\ At(t, j + 1) = At(s, j + 1)
      BY <1>7, <3>1
    <3>3. At(s, j) # item /\ At(s, j + 1) # item
      BY <1>5, <1>11, <3>1
    <3>4. At(s, j) # before /\ At(s, j + 1) # after
      BY <1>11, <3>1 DEF before, after
    <3>5. At(s, j) \in D /\ At(s, j + 1) \in D
      BY <1>4, <3>1
    <3> QED
      BY <1>1, <1>9, <1>10, <3>1, <3>2, <3>3, <3>4, <3>5
  <2>2. CASE j = i - 1
    <3>1. /\ j \in 0..(i - 1) /\ j + 1 \in i..len /\ (j + 1) + 1 = i + 1
          /\ i - 1 \in 0..(len + 1) /\ i + 1 \in 0..(len + 1) /\ i \in 0..(len + 1)
          /\ i \in 1..len /\ i - 1 # i /\ i + 1 # i
      BY <1>1, <2>2
    <3>2. At(t, j) = before /\ At(t, j + 1) = after
      BY <1>7, <2>2, <3>1 DEF before, after
    <3>3. before # item /\ after # item
      BY <1>5, <1>11, <3>1 DEF before, after
    <3> QED
      BY <1>5, <1>9, <1>10, <3>2, <3>3
  <2>3. CASE j > i - 1
    <3> DEFINE k == j + 1
    <3>1. /\ j \in i..len /\ k \in i..len /\ k \in 0..len
          /\ k \in 0..(len + 1) /\ k + 1 \in 0..(len + 1) /\ i \in 0..(len + 1)
          /\ i - 1 \in 0..(len + 1) /\ i + 1 \in 0..(len + 1)
          /\ i \in 1..len /\ k \in 1..len /\ i + 1 \in 1..len
          /\ k # i /\ k + 1 # i /\ k # i - 1 /\ k + 1 # i + 1
      BY <1>1, <2>3
    <3>2. At(t, j) = At(s, k) /\ At(t, k) = At(s, k + 1)
      BY <1>7, <3>1
    <3> HIDE DEF k
    <3>3. At(s, k) # item /\ At(s, k + 1) # item
      BY <1>5, <1>11, <3>1
    <3>4. At(s, k) # before /\ At(s, k + 1) # after
      BY <1>11, <3>1 DEF before, after
    <3>5. At(s, k) \in D /\ At(s, k + 1) \in D
      BY <1>4, <3>1
    <3>6. next[At(t, j)] = At(t, k) /\ prev[At(t, k)] = At(t, j)
      BY <1>1, <1>9, <1>10, <3>1, <3>2, <3>3, <3>4, <3>5
    <3> QED
      BY <3>6 DEF k
  <2> QED
    BY <1>1, <2>1, <2>2, <2>3
<1>13. \A j \in 1..(len - 1) :
            \E k \in 1..len : t[j] = s[k] /\ (j < i => k = j) /\ (j >= i => k = j + 1)
  <2> TAKE j \in 1..(len - 1)
  <2>1. At(t, j) = t[j]
    <3>1. j \in 1..Len(t)
      BY <1>7
    <3> QED
      BY <1>7, <3>1, AtFacts
  <2>2. CASE j < i
    <3>1. j \in 0..(i - 1) /\ j \in 1..len /\ ~(j >= i)
      BY <1>1, <2>2
    <3>2. t[j] = s[j]
      BY <1>3, <1>7, <2>1, <3>1
    <3> QED
      BY <3>1, <3>2
  <2>3. CASE j >= i
    <3>1. j \in i..len /\ j + 1 \in 1..len /\ ~(j < i)
      BY <1>1, <2>3
    <3>2. t[j] = s[j + 1]
      BY <1>3, <1>7, <2>1, <3>1
    <3> QED
      BY <3>1, <3>2
  <2> QED
    BY <1>1, <2>2, <2>3
<1>14. \A j \in 1..(len - 1) : t[j] \in D /\ t[j] <= n + 1
  <2>1. \A k \in 1..len : s[k] \in D /\ s[k] <= n + 1
    <3>1. \A k \in 1..len : s[k] <= n /\ s[k] \in Nat
      BY <1>2 DEF Items
    <3> QED
      BY <1>2, <3>1
  <2> QED
    BY <1>13, <2>1
<1>15. Distinct(t)
  <2>1. ASSUME NEW j \in 1..(len - 1), NEW k \in 1..(len - 1), t[j] = t[k] PROVE j = k
    <3>1. \A m, o \in 1..len : s[m] = s[o] => m = o
      BY <1>1 DEF Distinct, len
    <3>2. PICK m \in 1..len : t[j] = s[m] /\ (j < i => m = j) /\ (j >= i => m = j + 1)
      BY <1>13
    <3>3. PICK o \in 1..len : t[k] = s[o] /\ (k < i => o = k) /\ (k >= i => o = k + 1)
      BY <1>13
    <3>4. m = o
      BY <2>1, <3>1, <3>2, <3>3
    <3> QED
      BY <1>1, <3>2, <3>3, <3>4
  <2> QED
    BY <1>7, <2>1 DEF Distinct
<1>16. D \subseteq 0..(n + 1) /\ 0 \in D
  BY <1>1
<1> DEFINE new == [next |-> next, prev |-> prev]
<1>17. new.next = next /\ new.prev = prev
  OBVIOUS
<1> HIDE DEF new
<1>18. \A j \in 0..Len(t) : /\ new.next[At(t, j)] = At(t, j + 1)
                            /\ new.prev[At(t, j + 1)] = At(t, j)
  BY <1>7, <1>12, <1>17
<1>19. LinkedAs(new, t, n + 1)
  BY <1>7, <1>8, <1>14, <1>15, <1>16, <1>17, <1>18 DEF LinkedAs
<1> QED
  BY <1>6, <1>19 DEF new, t, item

\* The items from the list on, until it is there again.
LEMMA WalkFacts ==
  ASSUME NEW f, NEW s, Distinct(s), Cardinality(DOMAIN f) \in Nat,
         Len(s) + 1 <= Cardinality(DOMAIN f),
         \A j \in 0..Len(s) : f[At(s, j)] = At(s, j + 1)
  PROVE  Walk(f) = s
<1> DEFINE len == Len(s)
           most == Cardinality(DOMAIN f)
           body(h) == [n \in 0..most |-> IF n = 0 THEN 0 ELSE f[h[n - 1]]]
           pos == CHOOSE h : h = body(h)
           Is(k) == \E h : h[0] = 0 /\ \A n \in 1..k : h[n] = f[h[n - 1]]
           P == {k \in Nat : Is(k)}
<1>1. /\ len \in Nat /\ most \in Nat /\ s \in Seq(Items) /\ At(s, 0) = 0 /\ At(s, len + 1) = 0
      /\ \A j \in 1..len : At(s, j) = s[j] /\ s[j] # 0
  BY AtFacts, LenProperties DEF Distinct, Items
<1>2. 0 \in P
  <2> DEFINE h == [n \in 0..0 |-> 0]
  <2>1. h[0] = 0 /\ \A n \in 1..0 : h[n] = f[h[n - 1]]
    OBVIOUS
  <2> QED
    BY <2>1
<1>3. ASSUME NEW k \in Nat, k \in P PROVE k + 1 \in P
  <2>1. PICK h : h[0] = 0 /\ \A n \in 1..k : h[n] = f[h[n - 1]]
    BY <1>3
  <2> DEFINE g == [n \in 0..(k + 1) |-> IF n <= k THEN h[n] ELSE f[h[k]]]
  <2>2. g[0] = 0 /\ \A n \in 1..(k + 1) : g[n] = f[g[n - 1]]
    BY <2>1
  <2> HIDE DEF g
  <2> QED
    BY <2>2
<1>4. Nat \subseteq P
  <2> HIDE DEF P
  <2> QED
    BY <1>2, <1>3, Induct
<1>5. PICK h : h[0] = 0 /\ \A n \in 1..most : h[n] = f[h[n - 1]]
  BY <1>1, <1>4
<1> DEFINE g == [n \in 0..most |-> h[n]]
<1>6. g = body(g)
  <2>1. ASSUME NEW n \in 0..most PROVE g[n] = IF n = 0 THEN 0 ELSE f[g[n - 1]]
    <3>1. n # 0 => n \in 1..most /\ n - 1 \in 0..most
      BY <1>1
    <3> HIDE DEF most
    <3> QED
      BY <1>5, <3>1
  <2> HIDE DEF most
  <2> QED
    BY <2>1
<1>7. pos = body(pos)
  <2> HIDE DEF body, g
  <2> QED
    BY <1>6
<1>8. pos[0] = 0 /\ \A n \in 1..most : pos[n] = f[pos[n - 1]]
  <2> HIDE DEF pos, most
  <2>1. \A n \in 0..most : pos[n] = IF n = 0 THEN 0 ELSE f[pos[n - 1]]
    BY <1>7
  <2>2. 0 \in 0..most /\ \A n \in 1..most : n \in 0..most /\ n # 0
    BY <1>1
  <2> QED
    BY <2>1, <2>2
<1> HIDE DEF pos, most, len
<1> DEFINE c == [n \in 0..(len + 1) |-> At(s, n)]
<1>9. \A n \in 0..(len + 1) : pos[n] = At(s, n)
  <2>1. c[0] = 0 /\ \A n \in 1..(len + 1) : c[n] = f[c[n - 1]]
    <3>1. \A n \in 1..(len + 1) : n - 1 \in 0..len /\ n - 1 \in 0..(len + 1) /\ n \in 0..(len + 1)
                                  /\ (n - 1) + 1 = n
      BY <1>1
    <3>2. \A j \in 0..len : f[At(s, j)] = At(s, j + 1)
      BY DEF len
    <3>3. 0 \in 0..(len + 1)
      BY <1>1
    <3> QED
      BY <1>1, <3>1, <3>2, <3>3
  <2>2. \A n \in 1..(len + 1) : n \in 1..most
    BY <1>1 DEF len, most
  <2> HIDE DEF c
  <2>3. SameSteps(pos, c, len + 1)
    BY <1>8, <2>1, <2>2 DEF SameSteps
  <2>4. \A n \in 0..(len + 1) : pos[n] = c[n]
    <3>1. len + 1 \in Nat
      BY <1>1
    <3> QED
      BY <2>3, <3>1, SameValues
  <2> QED
    BY <2>4 DEF c
<1> DEFINE last == CHOOSE n \in 1..most : pos[n] = 0 /\ \A k \in 1..(n - 1) : pos[k] # 0
<1>10. last = len + 1
  <2>1. len + 1 \in 1..most /\ len + 1 \in 0..(len + 1) /\ (len + 1) - 1 = len
        /\ \A k \in 1..len : k \in 0..(len + 1)
    BY <1>1 DEF len, most
  <2>2. pos[len + 1] = 0 /\ \A k \in 1..len : pos[k] # 0
    BY <1>1, <1>9, <2>1
  <2>3. ASSUME NEW n \in 1..most, pos[n] = 0, \A k \in 1..(n - 1) : pos[k] # 0
        PROVE  n = len + 1
    <3>1. n < len + 1 => n \in 1..len
      BY <1>1
    <3>2. n > len + 1 => len + 1 \in 1..(n - 1)
      BY <1>1
    <3>3. n < len + 1 \/ n > len + 1 \/ n = len + 1
      BY <1>1
    <3> QED
      BY <2>2, <2>3, <3>1, <3>2, <3>3
  <2> QED
    BY <2>1, <2>2, <2>3
<1>11. [n \in 1..(last - 1) |-> pos[n]] = s
  <2> HIDE DEF last
  <2>1. last - 1 = len
    BY <1>1, <1>10
  <2>2. \A n \in 1..len : pos[n] = s[n]
    <3>1. \A n \in 1..len : n \in 0..(len + 1)
      BY <1>1
    <3> QED
      BY <1>1, <1>9, <3>1
  <2>3. s = [n \in 1..len |-> s[n]]
    BY <1>1, LenProperties DEF len
  <2> QED
    BY <2>1, <2>2, <2>3
<1> QED
  BY <1>11 DEF Walk, pos, most, last

\* There is a place in next for every item, and one for the list.
LEMMA PlacesEnough ==
  ASSUME NEW l, NEW s, NEW n \in Nat, LinkedAs(l, s, n)
  PROVE  /\ Cardinality(DOMAIN l.next) \in Nat
         /\ Len(s) + 1 <= Cardinality(DOMAIN l.next)
<1> DEFINE D == DOMAIN l.next
           len == Len(s)
           f == [j \in 0..len |-> At(s, j)]
<1>1. /\ Distinct(s) /\ s \in Seq(Items) /\ len \in Nat /\ D \subseteq 0..n /\ 0 \in D
      /\ \A j \in 1..len : s[j] \in D
  BY LenProperties DEF LinkedAs, Distinct
<1>2. IsFiniteSet(0..n) /\ IsFiniteSet(0..len) /\ Cardinality(0..len) = len + 1
  <2>1. 0 \in Int /\ n \in Int /\ len \in Int /\ ~(0 > len) /\ len - 0 + 1 = len + 1
    BY <1>1
  <2> HIDE DEF len
  <2> QED
    BY <2>1, FS_Interval
<1>3. IsFiniteSet(D) /\ Cardinality(D) \in Nat
  <2> HIDE DEF D
  <2> QED
    BY <1>1, <1>2, FS_Subset, FS_CardinalityType
<1>4. \A j \in 0..len : At(s, j) \in D
  <2>1. \A j \in 0..len : j = 0 \/ j \in 1..len
    BY <1>1
  <2> HIDE DEF D
  <2> QED
    BY <1>1, <2>1, AtFacts
<1>5. ASSUME NEW j \in 0..len, NEW k \in 0..len, At(s, j) = At(s, k) PROVE j = k
  <2>1. /\ j \in 0..(len + 1) /\ k \in 0..(len + 1)
        /\ j = 0 \/ j \in 1..len
        /\ k = 0 \/ k \in 1..len
    BY <1>1
  <2> QED
    BY <1>1, <1>5, <2>1, AtApart
<1>6. f \in Injection(0..len, D)
  <2> HIDE DEF D, len
  <2>1. f \in [0..len -> D]
    BY <1>4
  <2>2. \A j, k \in 0..len : f[j] = f[k] => j = k
    BY <1>5
  <2> HIDE DEF f
  <2> QED
    BY <2>1, <2>2 DEF Injection, IsInjective
<1>7. Cardinality(0..len) <= Cardinality(D)
  <2> HIDE DEF f, D, len
  <2> QED
    BY <1>3, <1>6, FS_Injection
<1> QED
  BY <1>2, <1>3, <1>7

\* A list whose links are right is its items, from both of its ends.
LEMMA LinkedIsList ==
  ASSUME NEW l, NEW s, NEW n \in Nat, LinkedAs(l, s, n)
  PROVE  /\ dl_list_for_each(l) = s /\ dl_list_for_each_reverse(l) = Reverse(s)
         /\ dl_list_len(l) = Len(s) /\ (dl_list_empty(l) <=> s = <<>>)
<1> DEFINE len == Len(s)
           r == Reverse(s)
<1>1. /\ Distinct(s) /\ s \in Seq(Items) /\ len \in Nat /\ DOMAIN l.prev = DOMAIN l.next
      /\ \A j \in 0..len : l.next[At(s, j)] = At(s, j + 1) /\ l.prev[At(s, j + 1)] = At(s, j)
  BY LenProperties DEF LinkedAs, Distinct
<1>2. /\ Cardinality(DOMAIN l.next) \in Nat /\ Len(s) + 1 <= Cardinality(DOMAIN l.next)
      /\ Cardinality(DOMAIN l.prev) \in Nat /\ Len(s) + 1 <= Cardinality(DOMAIN l.prev)
  BY <1>1, PlacesEnough
<1>3. At(s, 0) = 0 /\ At(s, len + 1) = 0 /\ \A j \in 1..len : At(s, j) = s[j] /\ s[j] \in Items
  BY <1>1, AtFacts
<1>4. Walk(l.next) = s
  BY <1>1, <1>2, WalkFacts
<1>5. r \in Seq(Items) /\ Len(r) = len /\ \A j \in 1..len : r[j] = s[(len - j) + 1]
  <2>1. \A j \in 1..len : (len - j) + 1 \in 1..len
    BY <1>1
  <2>2. r = [j \in 1..len |-> s[(len - j) + 1]]
    BY DEF Reverse
  <2>3. \A j \in 1..len : s[(len - j) + 1] \in Items
    BY <1>3, <2>1
  <2> HIDE DEF r, len
  <2> QED
    BY <1>1, <2>2, <2>3
<1> HIDE DEF r, len
<1>6. \A j \in 0..(len + 1) : At(r, j) = At(s, (len + 1) - j)
  <2> TAKE j \in 0..(len + 1)
  <2>1. At(r, 0) = 0 /\ At(r, len + 1) = 0 /\ \A k \in 1..len : At(r, k) = r[k]
    BY <1>5, AtFacts
  <2>2. CASE j = 0
    <3>1. (len + 1) - j = len + 1
      BY <1>1, <2>2
    <3> QED
      BY <1>3, <2>1, <2>2, <3>1
  <2>3. CASE j = len + 1
    <3>1. (len + 1) - j = 0
      BY <1>1, <2>3
    <3> QED
      BY <1>3, <2>1, <2>3, <3>1
  <2>4. CASE j \in 1..len
    <3>1. (len + 1) - j = (len - j) + 1 /\ (len - j) + 1 \in 1..len
      BY <1>1, <2>4
    <3> QED
      BY <1>3, <1>5, <2>1, <2>4, <3>1
  <2> QED
    BY <1>1, <2>2, <2>3, <2>4
<1>7. Distinct(r)
  <2>1. ASSUME NEW j \in 1..len, NEW k \in 1..len, r[j] = r[k] PROVE j = k
    <3>1. (len - j) + 1 \in 1..len /\ (len - k) + 1 \in 1..len
      BY <1>1
    <3>2. s[(len - j) + 1] = s[(len - k) + 1]
      BY <1>5, <2>1
    <3>3. (len - j) + 1 = (len - k) + 1
      BY <1>1, <3>1, <3>2 DEF Distinct, len
    <3> QED
      BY <1>1, <3>3
  <2> QED
    BY <1>5, <2>1 DEF Distinct
<1>8. \A j \in 0..Len(r) : l.prev[At(r, j)] = At(r, j + 1)
  <2> TAKE j \in 0..Len(r)
  <2>1. /\ j \in 0..len /\ j \in 0..(len + 1) /\ j + 1 \in 0..(len + 1)
        /\ len - j \in 0..len /\ (len + 1) - j = (len - j) + 1 /\ (len + 1) - (j + 1) = len - j
    BY <1>1, <1>5
  <2>2. At(r, j) = At(s, (len - j) + 1) /\ At(r, j + 1) = At(s, len - j)
    BY <1>6, <2>1
  <2> QED
    BY <1>1, <2>1, <2>2
<1>9. Walk(l.prev) = r
  <2>1. Len(r) + 1 <= Cardinality(DOMAIN l.prev)
    BY <1>2, <1>5 DEF len
  <2> QED
    BY <1>2, <1>7, <1>8, <2>1, WalkFacts
<1>10. l.next[0] = 0 <=> s = <<>>
  <2>1. 0 \in 0..len /\ 0 + 1 = 1
    BY <1>1
  <2>2. l.next[0] = At(s, 1)
    BY <1>1, <1>3, <2>1
  <2>3. CASE len = 0
    BY <1>1, <1>3, <2>2, <2>3, EmptySeq DEF len
  <2>4. CASE len # 0
    <3>1. 1 \in 1..len
      BY <1>1, <2>4
    <3>2. At(s, 1) # 0
      BY <1>3, <3>1 DEF Items
    <3> QED
      BY <2>2, <2>4, <3>2, EmptySeq DEF len
  <2> QED
    BY <2>3, <2>4
<1> QED
  BY <1>4, <1>9, <1>10 DEF dl_list_for_each, dl_list_for_each_reverse, dl_list_len,
                           dl_list_empty, r

\* One more step keeps the links right.
LEMMA ListStepKeeps ==
  ASSUME NEW n \in Nat, NEW before, LinkedAs(before.l, before.items, n)
  PROVE  LinkedAs(ListStep(n + 1, before).l, ListStep(n + 1, before).items, n + 1)
<1> DEFINE l == before.l
           s == before.items
           k == n + 1
           has == n \in Range(s)
           at == CHOOSE i \in DOMAIN s : s[i] = n
           len == Len(s)
<1>1. /\ s \in Seq(Items) /\ len \in Nat /\ DOMAIN s = 1..len /\ k \in Items /\ k - 1 = n
      /\ At(s, 0) = 0 /\ At(s, len + 1) = 0
  BY AtFacts, LenProperties DEF LinkedAs, Distinct, Items
<1>2. has => at \in 1..len /\ s[at] = n /\ At(s, at) = n /\ at \in 0..len
  <2> HAVE has
  <2>1. \E i \in DOMAIN s : s[i] = n
    BY DEF Range
  <2>2. at \in DOMAIN s /\ s[at] = n
    BY <2>1
  <2> HIDE DEF at
  <2> QED
    BY <1>1, <2>2 DEF At
<1> DEFINE after == ListStep(k, before)
           Good(m) == LinkedAs(m.l, m.items, k)
           tail == [l |-> dl_list_add_tail(l, 0, k), items |-> Append(s, k)]
           behind == [l |-> dl_list_add(l, n, k), items |-> InsertAt(s, at + 1, k)]
           del == [l |-> dl_list_del(l, n), items |-> RemoveAt(s, at)]
           head == [l |-> dl_list_add(l, 0, k), items |-> <<k>> \o s]
<1>3. after = CASE Listed(k) = "tail" -> tail
                [] Listed(k) = "behind" /\ has -> behind
                [] Listed(k) = "del" /\ has -> del
                [] Listed(k) = "head" -> head
                [] OTHER -> before
  <2>1. (n + 1) - 1 = n
    OBVIOUS
  <2> QED
    BY <2>1 DEF ListStep
<1> HIDE DEF has, at, after, tail, behind, del, head, k, len
<1>4. Good(tail)
  <2>1. len \in 0..len
    BY <1>1
  <2>2. l.prev[0] = At(s, len)
    BY <1>1, <2>1 DEF LinkedAs, len
  <2>3. LinkedAs(dl_list_add(l, At(s, len), k), InsertAt(s, len + 1, k), k)
    BY <2>1, AddKeeps DEF k, len
  <2>4. Append(s, k) = InsertAt(s, len + 1, k)
    BY <1>1, InsertAtEnds DEF len
  <2> QED
    BY <2>2, <2>3, <2>4 DEF tail, dl_list_add_tail
<1>5. has => Good(behind)
  <2> HAVE has
  <2>1. LinkedAs(dl_list_add(l, At(s, at), k), InsertAt(s, at + 1, k), k)
    BY <1>2, AddKeeps DEF k, len
  <2> QED
    BY <1>2, <2>1 DEF behind
<1>6. has => Good(del)
  <2> HAVE has
  <2>1. LinkedAs(dl_list_del(l, s[at]), RemoveAt(s, at), k)
    BY <1>2, DelKeeps DEF k, len
  <2> QED
    BY <1>2, <2>1 DEF del
<1>7. Good(head)
  <2>1. 0 \in 0..len
    BY <1>1
  <2>2. LinkedAs(dl_list_add(l, At(s, 0), k), InsertAt(s, 0 + 1, k), k)
    BY <2>1, AddKeeps DEF k, len
  <2> QED
    BY <1>1, <2>2, InsertAtEnds DEF head
<1>8. Good(before)
  <2>1. \A j \in 1..Len(s) : s[j] \in Nat
    BY <1>1, ElementOfSeq DEF Items
  <2>2. \A i \in Nat : i <= n => i <= n + 1
    OBVIOUS
  <2>3. 0..n \subseteq 0..(n + 1)
    OBVIOUS
  <2> QED
    BY <2>1, <2>2, <2>3 DEF LinkedAs, k
<1>9. Good(after)
  <2> HIDE DEF Good
  <2> QED
    BY <1>3, <1>4, <1>5, <1>6, <1>7, <1>8
<1> QED
  BY <1>9 DEF after, k

\* All that is said of links, after any steps of ListStep().
LEMMA LinksFacts ==
  ASSUME Len(data) \in Nat
  PROVE  LinksAreLists
<1> DEFINE len == Len(data)
           init == [l |-> dl_list_init, items |-> <<>>]
           body(h) == [n \in 0..len |->
                        IF n = 0 THEN [l |-> dl_list_init, items |-> <<>>]
                        ELSE ListStep(n, h[n - 1])]
           after == CHOOSE h : h = body(h)
           Is(k) == \E h : h[0] = init /\ \A n \in 1..k : h[n] = ListStep(n, h[n - 1])
           P == {k \in Nat : Is(k)}
<1>1. len \in Nat
  OBVIOUS
<1>2. 0 \in P
  <2> DEFINE h == [n \in 0..0 |-> init]
  <2>1. h[0] = init /\ \A n \in 1..0 : h[n] = ListStep(n, h[n - 1])
    OBVIOUS
  <2> QED
    BY <2>1
<1>3. ASSUME NEW k \in Nat, k \in P PROVE k + 1 \in P
  <2> HIDE DEF init
  <2>1. PICK h : h[0] = init /\ \A n \in 1..k : h[n] = ListStep(n, h[n - 1])
    BY <1>3
  <2> DEFINE g == [n \in 0..(k + 1) |-> IF n <= k THEN h[n] ELSE ListStep(k + 1, h[k])]
  <2>2. g[0] = init
    BY <2>1
  <2>3. ASSUME NEW n \in 1..(k + 1) PROVE g[n] = ListStep(n, g[n - 1])
    <3>1. CASE n = k + 1
      <4>1. n - 1 = k /\ k \in 0..(k + 1) /\ n \in 0..(k + 1) /\ ~(n <= k) /\ k <= k
        BY <3>1
      <4> QED
        BY <3>1, <4>1
    <3>2. CASE n # k + 1
      <4>1. n - 1 \in 0..(k + 1) /\ n \in 0..(k + 1) /\ n <= k /\ n - 1 <= k /\ n \in 1..k
        BY <3>2
      <4> QED
        BY <2>1, <4>1
    <3> QED
      BY <3>1, <3>2
  <2> HIDE DEF g
  <2> QED
    BY <2>2, <2>3
<1>4. Nat \subseteq P
  <2> HIDE DEF P
  <2> QED
    BY <1>2, <1>3, Induct
<1>5. PICK h : h[0] = init /\ \A n \in 1..len : h[n] = ListStep(n, h[n - 1])
  <2> HIDE DEF init
  <2> QED
    BY <1>1, <1>4
<1> DEFINE g == [n \in 0..len |-> h[n]]
<1>6. g = body(g)
  <2>1. ASSUME NEW n \in 0..len PROVE g[n] = IF n = 0 THEN init ELSE ListStep(n, g[n - 1])
    <3>1. n # 0 => n \in 1..len /\ n - 1 \in 0..len
      BY <1>1
    <3> HIDE DEF len, init
    <3> QED
      BY <1>5, <3>1
  <2> HIDE DEF len
  <2> QED
    BY <2>1
<1>7. after = body(after)
  <2> HIDE DEF body, g
  <2> QED
    BY <1>6
<1>8. after[0] = init /\ \A n \in 1..len : after[n] = ListStep(n, after[n - 1])
  <2> HIDE DEF after, len
  <2>1. \A n \in 0..len : after[n] = IF n = 0 THEN init ELSE ListStep(n, after[n - 1])
    BY <1>7
  <2>2. 0 \in 0..len /\ \A n \in 1..len : n \in 0..len /\ n # 0
    BY <1>1
  <2> HIDE DEF init
  <2> QED
    BY <2>1, <2>2
<1> HIDE DEF after, len
<1>9. LinkedAs(init.l, init.items, 0)
  <2> DEFINE l == dl_list_init
             s == <<>>
  <2>1. /\ s \in Seq(Items) /\ Len(s) = 0 /\ At(s, 0) = 0 /\ At(s, 0 + 1) = 0
    BY EmptySeq DEF At
  <2>2. l.next = [i \in {0} |-> 0] /\ l.prev = [i \in {0} |-> 0]
    BY DEF dl_list_init
  <2> HIDE DEF l, s
  <2>3. Distinct(s)
    BY <2>1 DEF Distinct
  <2>4. \A j \in 0..Len(s) : l.next[At(s, j)] = At(s, j + 1) /\ l.prev[At(s, j + 1)] = At(s, j)
    BY <2>1, <2>2
  <2>5. /\ DOMAIN l.next = DOMAIN l.prev /\ DOMAIN l.next \subseteq 0..0 /\ 0 \in DOMAIN l.next
        /\ \A j \in 1..Len(s) : s[j] \in DOMAIN l.next /\ s[j] <= 0
    BY <2>1, <2>2
  <2>6. LinkedAs(l, s, 0)
    BY <2>3, <2>4, <2>5 DEF LinkedAs
  <2> QED
    BY <2>6 DEF l, s
<1> DEFINE Q == {n \in Nat : n <= len => LinkedAs(after[n].l, after[n].items, n)}
<1>10. 0 \in Q
  BY <1>8, <1>9
<1>11. ASSUME NEW n \in Nat, n \in Q PROVE n + 1 \in Q
  <2>1. SUFFICES ASSUME n + 1 <= len
                 PROVE  LinkedAs(after[n + 1].l, after[n + 1].items, n + 1)
    OBVIOUS
  <2>2. n + 1 \in 1..len /\ (n + 1) - 1 = n /\ n <= len
    BY <1>1, <2>1
  <2>3. after[n + 1] = ListStep(n + 1, after[n])
    BY <1>8, <2>2
  <2>4. LinkedAs(after[n].l, after[n].items, n)
    BY <1>11, <2>2
  <2> QED
    BY <2>3, <2>4, ListStepKeeps
<1>12. Nat \subseteq Q
  <2> HIDE DEF Q
  <2> QED
    BY <1>10, <1>11, Induct
<1>13. LinkedAs(after[len].l, after[len].items, len)
  BY <1>1, <1>12
<1>14. Linked = after[len]
  BY DEF Linked, after, len
<1> QED
  BY <1>1, <1>13, <1>14, LinkedIsList DEF LinksAreLists

-----------------------------------------------------------------------------
(* What is printed.                                                          *)

\* A product of numbers grows with them.
LEMMA Product ==
  ASSUME NEW a \in Nat, NEW b \in Nat, a <= b, NEW c \in Nat
  PROVE  a * c \in Nat /\ b * c \in Nat /\ a * c <= b * c
<1> DEFINE e == b - a
<1>1. e \in Nat /\ b = a + e
  OBVIOUS
<1> HIDE DEF e
<1>2. e * c \in Nat /\ a * c \in Nat /\ b * c \in Nat
  BY <1>1
<1>3. b * c = a * c + e * c
  BY <1>1
<1> QED
  BY <1>2, <1>3

\* The k-th line begins within the buffer, and the lines before it are full.
LEMMA LineBounds ==
  ASSUME NEW len \in Nat, NEW L \in Nat \ {0}, NEW N, N = (len + L - 1) \div L
  PROVE  /\ N \in Nat /\ N * L \in Nat /\ len <= N * L
         /\ \A k \in 1..N : /\ (k - 1) * L \in Nat /\ k * L \in Nat
                            /\ k * L = (k - 1) * L + L /\ (k - 1) * L < len
                            /\ k < N => k * L < len
<1> DEFINE b == len + L - 1
<1>1. b \in Nat
  OBVIOUS
<1> HIDE DEF b
<1>2. N = b \div L
  BY DEF b
<1>3. N \in Nat /\ L * N <= b /\ b < L * N + L
  BY <1>1, <1>2
<1>4. N * L \in Nat /\ N * L = L * N
  BY <1>3
<1>5. len <= N * L
  BY <1>3, <1>4 DEF b
<1>6. ASSUME NEW k \in 1..N
      PROVE  /\ (k - 1) * L \in Nat /\ k * L \in Nat /\ k * L = (k - 1) * L + L
             /\ (k - 1) * L < len
  <2>1. k - 1 \in Nat /\ k \in Nat /\ k <= N /\ k = (k - 1) + 1
    BY <1>3
  <2>2. (k - 1) * L \in Nat /\ k * L \in Nat /\ k * L <= N * L
    BY <1>3, <2>1, Product
  <2>3. k * L = (k - 1) * L + L
    <3> DEFINE j == k - 1
    <3>1. j \in Nat /\ k = j + 1
      BY <2>1
    <3> HIDE DEF j
    <3>2. k * L = j * L + L
      BY <3>1
    <3> QED
      BY <3>2 DEF j
  <2>4. (k - 1) * L < len
    <3> DEFINE x == (k - 1) * L
               y == k * L
               z == N * L
    <3> HIDE DEF x, y, z
    <3>1. x \in Nat /\ y = x + L /\ y <= z /\ z <= b
      BY <1>3, <1>4, <2>2, <2>3 DEF x, y, z
    <3>2. z <= len + L - 1
      BY <3>1 DEF b
    <3>3. z \in Nat
      BY <1>4 DEF z
    <3>4. x \in Nat /\ x + L <= z
      BY <3>1
    <3>5. len \in Nat /\ L \in Nat
      OBVIOUS
    <3>6. x < len
      BY <3>2, <3>3, <3>4, <3>5
    <3> QED
      BY <3>6 DEF x
  <2> QED
    BY <2>2, <2>3, <2>4
<1>7. ASSUME NEW k \in 1..N, k < N PROVE k * L < len
  <2>1. k + 1 \in 1..N /\ (k + 1) - 1 = k
    BY <1>3, <1>7
  <2>2. ((k + 1) - 1) * L < len
    BY <1>6, <2>1
  <2> QED
    BY <2>1, <2>2
<1> QED
  BY <1>3, <1>4, <1>5, <1>6, <1>7

\* The bytes of the k-th line.
LineOf(buf, k) == SubSeq(buf, (k - 1) * line_len + 1, Min({k * line_len, Len(buf)}))

\* The lines have all bytes, and the columns their width (wpa_debug.c:472-490).
LEMMA DumpedLines ==
  ASSUME NEW buf \in Seq(Byte)
  PROVE  LET lines == DumpLines(buf)
         IN  /\ Len(lines) \in Nat /\ DOMAIN lines = 1..Len(lines)
             /\ FlattenSeq([n \in DOMAIN lines |-> lines[n].bytes]) = buf
             /\ \A n \in DOMAIN lines :
                    /\ n < Len(lines) => Len(lines[n].bytes) = line_len
                    /\ 4 * Len(lines[n].bytes) + lines[n].blanks = 4 * line_len
                    /\ \A i \in DOMAIN lines[n].chars : lines[n].chars[i] \in 32..126
<1> DEFINE len == Len(buf)
           L == line_len
           N == (len + L - 1) \div L
           end(k) == IF k * L <= len THEN k * L ELSE len
           line(k) == LineOf(buf, k)
           lines == DumpLines(buf)
           texts == [k \in 1..N |-> line(k)]
<1>1. len \in Nat /\ L \in Nat \ {0} /\ L \in Nat
  BY LenProperties, SupportAssumption
<1> HIDE DEF L, len
<1>2. /\ N \in Nat /\ N * L \in Nat /\ len <= N * L
      /\ \A k \in 1..N : /\ (k - 1) * L \in Nat /\ k * L \in Nat
                         /\ k * L = (k - 1) * L + L /\ (k - 1) * L < len
                         /\ k < N => k * L < len
  BY <1>1, LineBounds
<1> HIDE DEF N
<1>3. lines = [k \in 1..N |-> DumpLine(line(k))]
  BY DEF DumpLines, LineOf, N, L, len
<1>4. \A k \in 1..N : line(k) = SubSeq(buf, (k - 1) * L + 1, end(k))
  <2> TAKE k \in 1..N
  <2>1. k * L \in Int /\ len \in Int
    BY <1>1, <1>2
  <2>2. Min({k * L, len}) = end(k)
    BY <2>1, MinOfTwo
  <2> QED
    BY <2>2 DEF LineOf, L, len
<1>5. ASSUME NEW k \in 1..N
      PROVE  /\ end(k) \in ((k - 1) * L)..len /\ end(k) \in Nat
             /\ line(k) \in Seq(Byte) /\ Len(line(k)) = end(k) - (k - 1) * L
             /\ k < N => Len(line(k)) = L
  <2> DEFINE x == (k - 1) * L
             y == k * L
             z == end(k)
  <2>1. x \in Nat /\ y = x + L /\ x < len /\ (k < N => y < len)
    BY <1>2
  <2>2. z = IF y <= len THEN y ELSE len
    OBVIOUS
  <2>3. line(k) = SubSeq(buf, x + 1, z)
    BY <1>4
  <2> HIDE DEF x, y, z, line
  <2>4. z \in x..len /\ z \in Nat /\ x + 1 <= z /\ (k < N => z = x + L)
    BY <1>1, <2>1, <2>2
  <2>5. \A i \in (x + 1)..z : buf[i] \in Byte
    <3>1. \A i \in (x + 1)..z : i \in 1..Len(buf)
      BY <1>1, <2>1, <2>4 DEF len
    <3> QED
      BY <3>1, ElementOfSeq
  <2>6. SubSeq(buf, x + 1, z) \in Seq(Byte) /\ Len(SubSeq(buf, x + 1, z)) = z - x
    <3> DEFINE m == x + 1
    <3>1. m \in Int /\ z \in Int /\ m <= z /\ z - m + 1 = z - x
      BY <2>1, <2>4
    <3>2. \A i \in m..z : buf[i] \in Byte
      BY <2>5
    <3> HIDE DEF m
    <3>3. /\ SubSeq(buf, m, z) \in Seq(Byte)
          /\ Len(SubSeq(buf, m, z)) = IF m <= z THEN z - m + 1 ELSE 0
      BY <3>1, <3>2, SubSeqProperties
    <3> QED
      BY <3>1, <3>3 DEF m
  <2>7. k < N => z - x = L
    BY <1>1, <2>1, <2>4
  <2> QED
    BY <2>3, <2>4, <2>6, <2>7 DEF x, z
<1>6. texts \in Seq(Seq(Byte)) /\ Len(texts) = N /\ \A k \in 1..N : texts[k] = line(k)
  <2>1. \A k \in 1..N : line(k) \in Seq(Byte)
    BY <1>5
  <2> HIDE DEF line
  <2> QED
    BY <1>2, <2>1
<1>7. PICK f \in [0..N -> Seq(Byte)] :
            /\ f[0] = <<>> /\ \A k \in 1..N : f[k] = f[k - 1] \o texts[k]
            /\ FlattenSeq(texts) = f[N]
  <2> HIDE DEF texts
  <2>1. \E f \in [0..Len(texts) -> Seq(Byte)] :
            /\ f[0] = <<>> /\ \A n \in 1..Len(texts) : f[n] = f[n - 1] \o texts[n]
            /\ FlattenSeq(texts) = f[Len(texts)]
    BY <1>6, FlatPrefix
  <2> QED
    BY <1>6, <2>1
<1> DEFINE P == {k \in Nat : k <= N => f[k] = SubSeq(buf, 1, end(k))}
<1>8. 0 \in P
  <2>1. 0 * L = 0 /\ 0 <= len
    BY <1>1
  <2>2. end(0) = 0
    BY <2>1
  <2>3. SubSeq(buf, 1, 0) = <<>>
    BY SubSeqEmpty
  <2> HIDE DEF end
  <2> QED
    BY <1>7, <2>2, <2>3
<1>9. ASSUME NEW k \in Nat, k \in P PROVE k + 1 \in P
  <2>1. SUFFICES ASSUME k + 1 <= N PROVE f[k + 1] = SubSeq(buf, 1, end(k + 1))
    OBVIOUS
  <2>2. k + 1 \in 1..N /\ (k + 1) - 1 = k /\ k <= N
    BY <1>2, <2>1
  <2>3. f[k] = SubSeq(buf, 1, end(k))
    BY <1>9, <2>2
  <2>4. f[k + 1] = f[k] \o line(k + 1)
    <3> HIDE DEF line, texts
    <3> QED
      BY <1>6, <1>7, <2>2
  <2>5. k * L \in Nat /\ k * L < len /\ end(k + 1) \in (k * L)..len
    <3>1. ((k + 1) - 1) * L \in Nat /\ ((k + 1) - 1) * L < len
      BY <1>2, <2>2
    <3>2. end(k + 1) \in (((k + 1) - 1) * L)..len
      BY <1>5, <2>2
    <3> HIDE DEF end
    <3> QED
      BY <2>2, <3>1, <3>2
  <2>6. end(k) = k * L
    BY <1>1, <2>5
  <2>7. line(k + 1) = SubSeq(buf, k * L + 1, end(k + 1))
    <3>1. line(k + 1) = SubSeq(buf, ((k + 1) - 1) * L + 1, end(k + 1))
      BY <1>4, <2>2
    <3> HIDE DEF line, end
    <3> QED
      BY <2>2, <3>1
  <2> DEFINE x == k * L
             z == end(k + 1)
  <2>8. /\ x \in Nat /\ x < len /\ z \in x..len
        /\ f[k + 1] = SubSeq(buf, 1, x) \o SubSeq(buf, x + 1, z)
    BY <2>3, <2>4, <2>5, <2>6, <2>7
  <2> HIDE DEF x, z, line, end
  <2>9. SubSeq(buf, 1, x) \o SubSeq(buf, x + 1, z) = SubSeq(buf, 1, z)
    <3> DEFINE m == 1
    <3>1. m \in 1..(Len(buf) + 1) /\ x \in (m - 1)..Len(buf) /\ z \in x..Len(buf)
      BY <1>1, <2>8 DEF len
    <3> HIDE DEF m
    <3>2. SubSeq(buf, m, x) \o SubSeq(buf, x + 1, z) = SubSeq(buf, m, z)
      BY <3>1, ConcatAdjacentSubSeq
    <3> QED
      BY <3>2 DEF m
  <2> QED
    BY <2>8, <2>9 DEF z
<1>10. Nat \subseteq P
  <2> HIDE DEF P
  <2> QED
    BY <1>8, <1>9, Induct
<1>11. FlattenSeq(texts) = buf
  <2>1. end(N) = len
    BY <1>1, <1>2
  <2>2. f[N] = SubSeq(buf, 1, end(N))
    <3> HIDE DEF end
    <3> QED
      BY <1>2, <1>10
  <2>3. SubSeq(buf, 1, len) = buf
    BY SubSeqFull DEF len
  <2> HIDE DEF end
  <2> QED
    BY <1>7, <2>1, <2>2, <2>3
<1> HIDE DEF lines
<1>12. DOMAIN lines = 1..N /\ Len(lines) = N /\ \A n \in 1..N : lines[n] = DumpLine(line(n))
  <2> HIDE DEF line
  <2> QED
    BY <1>2, <1>3
<1>13. \A n \in 1..N : /\ lines[n].bytes = line(n)
                       /\ lines[n].chars = [i \in DOMAIN line(n) |-> Shown(line(n)[i])]
                       /\ lines[n].blanks = 4 * (line_len - Len(line(n)))
  <2> HIDE DEF line
  <2> QED
    BY <1>12 DEF DumpLine
<1>14. FlattenSeq([n \in DOMAIN lines |-> lines[n].bytes]) = buf
  <2>1. [n \in DOMAIN lines |-> lines[n].bytes] = texts
    <3> HIDE DEF line
    <3> QED
      BY <1>12, <1>13
  <2> QED
    BY <1>11, <2>1
<1>15. ASSUME NEW n \in 1..N
       PROVE  /\ n < N => Len(lines[n].bytes) = line_len
              /\ 4 * Len(lines[n].bytes) + lines[n].blanks = 4 * line_len
              /\ \A i \in DOMAIN lines[n].chars : lines[n].chars[i] \in 32..126
  <2>1. Len(line(n)) \in Nat /\ (n < N => Len(line(n)) = L)
    <3>1. line(n) \in Seq(Byte) /\ (n < N => Len(line(n)) = L)
      BY <1>5
    <3> HIDE DEF line
    <3> QED
      BY <3>1, LenProperties
  <2>2. \A b : Shown(b) \in 32..126
    BY DEF Shown
  <2> DEFINE k == Len(line(n))
  <2>3. k \in Nat /\ lines[n].blanks = 4 * (line_len - k) /\ lines[n].bytes = line(n)
    BY <1>13, <2>1
  <2> HIDE DEF k, line
  <2>4. 4 * k + 4 * (line_len - k) = 4 * line_len
    BY <1>1, <2>3 DEF L
  <2>5. 4 * Len(lines[n].bytes) + lines[n].blanks = 4 * line_len
    BY <2>3, <2>4 DEF k
  <2>6. \A i \in DOMAIN lines[n].chars : lines[n].chars[i] \in 32..126
    <3> DEFINE c == lines[n].chars
               t == line(n)
    <3>1. c = [i \in DOMAIN t |-> Shown(t[i])]
      BY <1>13
    <3> HIDE DEF c, t
    <3>2. \A i \in DOMAIN c : c[i] = Shown(t[i])
      BY <3>1
    <3>3. \A i \in DOMAIN c : c[i] \in 32..126
      BY <3>2, <2>2
    <3> QED
      BY <3>3 DEF c
  <2> QED
    BY <2>1, <2>3, <2>5, <2>6 DEF L, k
<1> QED
  BY <1>2, <1>12, <1>14, <1>15 DEF lines

\* One sequence, or none, one after the other.
LEMMA OneFlat ==
  ASSUME NEW S, NEW s \in Seq(S)
  PROVE  FlattenSeq(<<s>>) = s /\ FlattenSeq(<<>>) = <<>>
<1> DEFINE A == Seq(S)
<1>1. FlattenSeq(<<>>) = <<>>
  BY DEF FlattenSeq
<1>2. <<>> \in Seq(A) /\ Append(<<>>, s) = <<s>>
  <2> HIDE DEF A
  <2> QED
    OBVIOUS
<1>3. FlattenSeq(Append(<<>>, s)) = FlattenSeq(<<>>) \o s
  BY <1>2, FlatAppend
<1>4. <<>> \o s = s
  BY ConcatEmptySeq
<1> QED
  BY <1>1, <1>2, <1>3, <1>4

\* The bytes of a message.
LEMMA BytesOfOne ==
  ASSUME NEW s \in Seq(Byte), NEW word
  PROVE  /\ BytesOf(<<[word |-> word, bytes |-> s]>>) = s
         /\ BytesOf(<<>>) = <<>>
<1> DEFINE r == [word |-> word, bytes |-> s]
<1>1. r.bytes = s
  OBVIOUS
<1> HIDE DEF r
<1>2. [n \in DOMAIN <<r>> |-> <<r>>[n].bytes] = <<s>>
  BY <1>1
<1>3. [n \in DOMAIN <<>> |-> <<>>[n].bytes] = <<>>
  OBVIOUS
<1> DEFINE B == Byte
<1>4. FlattenSeq(<<s>>) = s /\ FlattenSeq(<<>>) = <<>>
  BY OneFlat
<1> QED
  BY <1>2, <1>3, <1>4 DEF BytesOf, r

\* No buffer is the one that is missing.
LEMMA NotMissing == ASSUME NEW s \in Seq(Byte) PROVE s # Missing
<1> SUFFICES ASSUME s = Missing PROVE FALSE
  OBVIOUS
<1>1. Len(s) = 1 /\ s[1] = -1
  BY DEF Missing, Fail
<1>2. s[1] \in Byte
  BY <1>1, ElementOfSeq
<1> QED
  BY <1>1, <1>2 DEF Byte

\* What _wpa_hexdump() prints of a buffer that is there, and of one that is missing.
LEMMA HexdumpFacts ==
  ASSUME NEW d \in Levels, NEW level \in Levels, NEW show \in BOOLEAN, NEW s \in Seq(Byte)
  PROVE  /\ BytesOf(_wpa_hexdump(d, level, s, show))
                = IF level >= d /\ show THEN s ELSE <<>>
         /\ BytesOf(_wpa_hexdump(d, level, Missing, show)) = <<>>
<1>1. s # Missing /\ <<>> \in Seq(Byte)
  BY NotMissing
<1>2. /\ \A w : BytesOf(<<[word |-> w, bytes |-> s]>>) = s
      /\ \A w : BytesOf(<<[word |-> w, bytes |-> <<>>]>>) = <<>>
      /\ BytesOf(<<>>) = <<>>
  BY <1>1, BytesOfOne
<1>3. CASE ~(level >= d)
  BY <1>2, <1>3 DEF _wpa_hexdump, wpa_printf
<1>4. CASE level >= d /\ show
  BY <1>1, <1>2, <1>4 DEF _wpa_hexdump, wpa_printf
<1>5. CASE level >= d /\ ~show
  BY <1>1, <1>2, <1>5 DEF _wpa_hexdump, wpa_printf
<1> QED
  BY <1>3, <1>4, <1>5

\* And what _wpa_hexdump_ascii() prints of them.
LEMMA AsciiFacts ==
  ASSUME NEW d \in Levels, NEW level \in Levels, NEW show \in BOOLEAN, NEW s \in Seq(Byte)
  PROVE  /\ LinesOf(_wpa_hexdump_ascii(d, level, s, show))
                = IF level >= d /\ show THEN DumpLines(s) ELSE <<>>
         /\ LinesOf(_wpa_hexdump_ascii(d, level, Missing, show)) = <<>>
<1>1. s # Missing
  BY NotMissing
<1> DEFINE l == DumpLines(s)
<1> HIDE DEF l
<1>2. /\ \A w, x : LinesOf(<<[word |-> w, lines |-> x]>>) = x
      /\ LinesOf(<<>>) = <<>>
  BY DEF LinesOf
<1>3. CASE ~(level >= d)
  BY <1>2, <1>3 DEF _wpa_hexdump_ascii, wpa_printf
<1>4. CASE level >= d /\ show
  BY <1>1, <1>2, <1>4 DEF _wpa_hexdump_ascii, wpa_printf, l
<1>5. CASE level >= d /\ ~show
  BY <1>1, <1>2, <1>5 DEF _wpa_hexdump_ascii, wpa_printf
<1> QED
  BY <1>3, <1>4, <1>5

\* All that is said of dumps, of any data.
LEMMA BuffersDumped ==
  ASSUME data \in Seq(Byte)
  PROVE  BuffersAreDumped
<1> SUFFICES ASSUME NEW d \in Levels, NEW level \in Levels, NEW show \in BOOLEAN
             PROVE
        LET all == IF level >= d THEN data ELSE <<>>
            key == wpa_hexdump_key(d, show, level, data)
            ascii == LinesOf(wpa_hexdump_ascii_key(d, show, level, data))
        IN  /\ BytesOf(wpa_hexdump(d, level, data)) = all
            /\ BytesOf(LinesOf(wpa_hexdump_ascii(d, level, data))) = all
            /\ BytesOf(key) = (IF show THEN all ELSE <<>>) /\ BytesOf(ascii) = BytesOf(key)
            /\ \A n \in DOMAIN ascii :
                /\ n < Len(ascii) => Len(ascii[n].bytes) = line_len
                /\ 4 * Len(ascii[n].bytes) + ascii[n].blanks = 4 * line_len
                /\ \A i \in DOMAIN ascii[n].chars : ascii[n].chars[i] \in 32..126
            /\ BytesOf(wpa_hexdump(d, level, Missing)) = <<>>
            /\ LinesOf(wpa_hexdump_ascii(d, level, Missing)) = <<>>
  BY DEF BuffersAreDumped
<1> DEFINE all == IF level >= d THEN data ELSE <<>>
           key == wpa_hexdump_key(d, show, level, data)
           dumped == DumpLines(data)
           ascii == LinesOf(wpa_hexdump_ascii_key(d, show, level, data))
           good(lines) ==
                \A n \in DOMAIN lines :
                    /\ n < Len(lines) => Len(lines[n].bytes) = line_len
                    /\ 4 * Len(lines[n].bytes) + lines[n].blanks = 4 * line_len
                    /\ \A i \in DOMAIN lines[n].chars : lines[n].chars[i] \in 32..126
<1>1. BytesOf(dumped) = data /\ good(dumped)
  BY DumpedLines DEF BytesOf
<1>2. BytesOf(<<>>) = <<>> /\ good(<<>>)
  <2>1. BytesOf(<<>>) = <<>>
    BY EmptySeq, BytesOfOne
  <2> QED
    BY <2>1
<1>3. /\ BytesOf(wpa_hexdump(d, level, data)) = all
      /\ BytesOf(wpa_hexdump(d, level, Missing)) = <<>>
  BY HexdumpFacts DEF wpa_hexdump
<1>4. BytesOf(key) = (IF show THEN all ELSE <<>>)
  BY HexdumpFacts DEF wpa_hexdump_key
<1>5. /\ LinesOf(wpa_hexdump_ascii(d, level, data)) = IF level >= d THEN dumped ELSE <<>>
      /\ LinesOf(wpa_hexdump_ascii(d, level, Missing)) = <<>>
  BY AsciiFacts DEF wpa_hexdump_ascii
<1>6. ascii = IF level >= d /\ show THEN dumped ELSE <<>>
  BY AsciiFacts DEF wpa_hexdump_ascii_key
<1>7. BytesOf(ascii) = BytesOf(key) /\ good(ascii)
  <2> HIDE DEF dumped, ascii, key, good
  <2> QED
    BY <1>1, <1>2, <1>4, <1>6
<1>8. BytesOf(LinesOf(wpa_hexdump_ascii(d, level, data))) = all
  <2> HIDE DEF dumped
  <2> QED
    BY <1>1, <1>2, <1>5
<1> QED
  BY <1>3, <1>4, <1>5, <1>7, <1>8

\* A message is one of two kinds, and each has its type.
LEMMA MessagesHanded == MessagesAreHanded
<1> SUFFICES ASSUME NEW d \in Levels, NEW level \in Levels, NEW cb \in BOOLEAN
             PROVE
        LET printed == {wpa_msg(d, level, cb, <<>>, data), wpa_msg_global(d, level, cb, data),
                        wpa_msg_no_global(d, level, cb, data),
                        wpa_msg_global_only(d, level, cb, data)}
            handed == {wpa_msg_ctrl(cb), wpa_msg_global_ctrl(cb)}
            logged == hostapd_logger(d, cb, data)
        IN  /\ \A m \in printed : m.out # <<>> <=> level >= d
            /\ \A m \in handed : m.out = <<>>
            /\ \A m \in printed \cup handed : cb <=> Len(m.cb) = 1
            /\ MSG_DEBUG >= d => Len(logged.out) + Len(logged.cb) = 1
  BY DEF MessagesAreHanded
<1>1. \A out, type : /\ Message(out, cb, type).out = out
                     /\ cb <=> Len(Message(out, cb, type).cb) = 1
                     /\ Len(Message(out, cb, type).cb) = IF cb THEN 1 ELSE 0
  BY DEF Message
<1>2. ASSUME NEW l \in Levels, NEW what
      PROVE  /\ wpa_printf(d, l, what) # <<>> <=> l >= d
             /\ l >= d => Len(wpa_printf(d, l, what)) = 1
  BY DEF wpa_printf
<1>3. MSG_DEBUG \in Levels
  BY DEF MSG_DEBUG, Levels
<1>4. ASSUME NEW m \in {wpa_msg(d, level, cb, <<>>, data), wpa_msg_global(d, level, cb, data),
                        wpa_msg_no_global(d, level, cb, data),
                        wpa_msg_global_only(d, level, cb, data)}
      PROVE  (m.out # <<>> <=> level >= d) /\ (cb <=> Len(m.cb) = 1)
  <2>1. PICK what, type : m = Message(wpa_printf(d, level, what), cb, type)
    BY DEF wpa_msg, wpa_msg_global, wpa_msg_no_global, wpa_msg_global_only
  <2>2. wpa_printf(d, level, what) # <<>> <=> level >= d
    BY <1>2
  <2>3. m.out = wpa_printf(d, level, what) /\ (cb <=> Len(m.cb) = 1)
    BY <1>1, <2>1
  <2> QED
    BY <2>2, <2>3
<1>5. ASSUME NEW m \in {wpa_msg_ctrl(cb), wpa_msg_global_ctrl(cb)}
      PROVE  m.out = <<>> /\ (cb <=> Len(m.cb) = 1)
  <2>1. PICK type : m = Message(<<>>, cb, type)
    BY DEF wpa_msg_ctrl, wpa_msg_global_ctrl
  <2> QED
    BY <1>1, <2>1
<1>6. ASSUME MSG_DEBUG >= d
      PROVE  Len(hostapd_logger(d, cb, data).out) + Len(hostapd_logger(d, cb, data).cb) = 1
  <2>1. Len(wpa_printf(d, MSG_DEBUG, data)) = 1
    BY <1>2, <1>3, <1>6
  <2> DEFINE p == wpa_printf(d, MSG_DEBUG, data)
             out == IF cb THEN <<>> ELSE p
             m == Message(out, cb, "LOGGER")
  <2> HIDE DEF p
  <2>4. hostapd_logger(d, cb, data) = m
    BY DEF hostapd_logger, p
  <2>5. m.out = out /\ Len(m.cb) = IF cb THEN 0 + 1 ELSE 0
    BY <1>1
  <2>6. Len(out) = IF cb THEN 0 ELSE 1
    BY <2>1 DEF p
  <2> HIDE DEF m, out
  <2> DEFINE a == Len(out)
             b == Len(m.cb)
  <2>7. a = (IF cb THEN 0 ELSE 1) /\ b = IF cb THEN 1 ELSE 0
    BY <2>5, <2>6
  <2> HIDE DEF a, b
  <2>8. a + b = 1
    BY <2>7
  <2> QED
    BY <2>4, <2>5, <2>8 DEF a, b
<1> QED
  BY <1>4, <1>5, <1>6

\* No two levels have one name.
LEMMA NamesOfLevels == \A level \in Levels : str_to_debug_level(debug_level_str(level)) = level
<1> TAKE level \in Levels
<1>1. DOMAIN LevelNames = 1..6
  BY DEF LevelNames
<1>2. level + 1 \in 1..6 /\ (level + 1) - 1 = level
  BY DEF Levels
<1>3. \A m, n \in 1..6 : LevelNames[m] = LevelNames[n] => m = n
  BY DEF LevelNames
<1> DEFINE s == LevelNames[level + 1]
<1>4. s \in Range(LevelNames) /\ debug_level_str(level) = s
  BY <1>1, <1>2 DEF debug_level_str, Range
<1>5. (CHOOSE n \in DOMAIN LevelNames : LevelNames[n] = s) = level + 1
  BY <1>1, <1>2, <1>3
<1> QED
  BY <1>2, <1>4, <1>5 DEF str_to_debug_level

\* All that is said of what is printed, of any data.
LEMMA DumpsFacts == ASSUME data \in Seq(Byte) PROVE DumpsAreWhole
BY BuffersDumped, MessagesHanded, NamesOfLevels DEF DumpsAreWhole

-----------------------------------------------------------------------------
(* Names.                                                                    *)

\* The place of the first c is where nothing before it is c.
LEMMA FindPlace ==
  ASSUME NEW s, Len(s) \in Nat, NEW p \in Nat, NEW c, NEW m \in Nat, p <= m, m <= Len(s) + 1,
         m <= Len(s) => s[m] = c, \A i \in p..(m - 1) : s[i] # c
  PROVE  Find(s, p, c) = m
<1> DEFINE T == {n \in p..Len(s) : s[n] = c} \cup {Len(s) + 1}
<1>1. m \in T
  OBVIOUS
<1>2. ASSUME NEW n \in T PROVE m <= n /\ n \in Nat
  <2>1. CASE n = Len(s) + 1
    BY <2>1
  <2>2. CASE n \in p..Len(s) /\ s[n] = c
    <3>1. n \in Nat /\ p <= n
      BY <2>2
    <3>2. ~(n < m)
      <4>1. n < m => n \in p..(m - 1)
        BY <3>1
      <4> QED
        BY <2>2, <4>1
    <3> QED
      BY <3>1, <3>2
  <2> QED
    BY <2>1, <2>2
<1>3. \A n \in T : (\A k \in T : n <= k) => n = m
  BY <1>1, <1>2
<1>4. Find(s, p, c) = Min(T)
  BY DEF Find
<1> HIDE DEF T
<1> QED
  BY <1>1, <1>2, <1>3, <1>4 DEF Min

\* A text and what follows it.
LEMMA HeadFacts ==
  ASSUME NEW S, NEW t \in Seq(S), NEW rest \in Seq(S)
  PROVE  /\ t \o rest \in Seq(S) /\ Len(t) \in Nat /\ Len(t \o rest) \in Nat
         /\ Len(t) <= Len(t \o rest) /\ Cut(t \o rest, Len(t)) = t
         /\ \A i \in 1..Len(t) : (t \o rest)[i] = t[i]
         /\ (rest = <<>> => Len(t \o rest) = Len(t))
         /\ (rest # <<>> => Len(t) + 1 <= Len(t \o rest) /\ (t \o rest)[Len(t) + 1] = rest[1])
<1> DEFINE b == t \o rest
           n == Len(t)
           m == Len(rest)
<1>1. n \in Nat /\ m \in Nat
  BY LenProperties
<1>2. /\ b \in Seq(S) /\ Len(b) = n + m
      /\ \A i \in 1..(n + m) : b[i] = IF i <= n THEN t[i] ELSE rest[i - n]
  BY ConcatProperties
<1>3. rest = <<>> => m = 0
  OBVIOUS
<1>4. rest # <<>> => m # 0
  BY EmptySeq
<1> HIDE DEF b, n, m
<1>5. \A i \in 1..n : b[i] = t[i]
  <2>1. \A i \in 1..n : i \in 1..(n + m) /\ i <= n
    BY <1>1
  <2> QED
    BY <1>2, <2>1
<1>6. m # 0 => b[n + 1] = rest[1]
  <2>1. m # 0 => n + 1 \in 1..(n + m) /\ ~(n + 1 <= n) /\ (n + 1) - n = 1
    BY <1>1
  <2> QED
    BY <1>2, <2>1
<1>7. n \in 0..Len(b) /\ n <= Len(b) /\ Len(b) \in Nat /\ (m = 0 => Len(b) = n)
      /\ (m # 0 => n + 1 <= Len(b))
  BY <1>1, <1>2
<1>8. Cut(b, n) = SubSeq(b, 1, n)
  BY <1>1, <1>2, <1>7, CutFacts
<1>9. /\ SubSeq(b, 1, n) \in Seq(S) /\ Len(SubSeq(b, 1, n)) = n
      /\ \A i \in 1..n : SubSeq(b, 1, n)[i] = b[i]
  BY <1>2, <1>7, PrefixFacts
<1>10. SubSeq(b, 1, n) = t
  <2> DEFINE u == SubSeq(b, 1, n)
  <2>1. u \in Seq(S) /\ Len(u) = Len(t) /\ \A i \in 1..Len(t) : u[i] = t[i]
    BY <1>5, <1>9 DEF n
  <2> HIDE DEF u
  <2>2. u = t
    BY <2>1, SeqEqual
  <2> QED
    BY <2>2 DEF u
<1> QED
  BY <1>1, <1>2, <1>3, <1>4, <1>5, <1>6, <1>7, <1>8, <1>10 DEF b, n

\* What ssid_parse() answers when it has read a name.
LEMMA NameOrFail ==
  ASSUME NEW d \in Seq(Byte), NEW buf, NEW end,
         end = IF At(buf, 1) = Quote THEN Find(buf, 2, Quote) ELSE Find(buf, 1, Blank) - 1,
         wpa_config_parse_string(Cut(buf, end)) = d
  PROVE  ssid_parse(buf) = IF Len(d) \in 1..SSID_MAX_LEN THEN d ELSE Fail
<1>1. d # Fail
  BY NotMissing DEF Missing
<1>2. Len(d) \in Nat /\ (Len(d) = 0 <=> d = <<>>) /\ SSID_MAX_LEN \in Nat
  BY LenProperties, EmptySeq, CommonAssumption
<1>3. ssid_parse(buf) = IF d = Fail \/ d = <<>> \/ Len(d) > SSID_MAX_LEN THEN Fail ELSE d
  BY DEF ssid_parse
<1> DEFINE n == Len(d)
<1> HIDE DEF n
<1>4. n \in 1..SSID_MAX_LEN <=> ~(n = 0 \/ n > SSID_MAX_LEN)
  BY <1>2 DEF n
<1> QED
  BY <1>1, <1>2, <1>3, <1>4 DEF n

\* A name in hexadecimal is its bytes (common.c:609-686).
LEMMA HexName ==
  ASSUME NEW d \in Seq(Byte), NEW rest \in Seq(Nat), rest = <<>> \/ rest[1] = Blank
  PROVE  ssid_parse(HexText(d) \o rest) = IF Len(d) \in 1..SSID_MAX_LEN THEN d ELSE Fail
<1> DEFINE t == HexText(d)
           b == t \o rest
           n == Len(t)
<1>1. t \in Seq(HexChars) /\ t \in Seq(Nat)
  <2>1. HexChars \subseteq Nat
    BY DEF HexChars
  <2> QED
    BY <2>1, HexTextFacts, SeqMonotonic
<1>2. \A i \in 1..n : t[i] \in HexChars
  BY <1>1, ElementOfSeq
<1>3. wpa_config_parse_string(t) = d
  BY HexString
<1> HIDE DEF t
<1>4. /\ b \in Seq(Nat) /\ n \in Nat /\ Len(b) \in Nat /\ n <= Len(b) /\ Cut(b, n) = t
      /\ \A i \in 1..n : b[i] = t[i]
      /\ (rest = <<>> => Len(b) = n)
      /\ (rest # <<>> => n + 1 <= Len(b) /\ b[n + 1] = rest[1])
  BY <1>1, HeadFacts
<1> HIDE DEF b, n
<1>5. \A i \in 1..n : b[i] # Blank /\ b[i] # Quote
  <2>1. \A c \in HexChars : c # Blank /\ c # Quote
    BY DEF HexChars, Blank, Quote
  <2>2. \A i \in 1..n : b[i] \in HexChars
    BY <1>2, <1>4 DEF n
  <2> QED
    BY <2>1, <2>2
<1>6. n + 1 <= Len(b) => b[n + 1] = Blank
  BY <1>4
<1>7. Find(b, 1, Blank) = n + 1
  <2> DEFINE m == n + 1
  <2>1. m \in Nat /\ 1 <= m /\ m <= Len(b) + 1 /\ m - 1 = n
    BY <1>4
  <2>2. \A i \in 1..(m - 1) : b[i] # Blank
    BY <1>5, <2>1
  <2>3. m <= Len(b) => b[m] = Blank
    BY <1>6
  <2> HIDE DEF m
  <2>4. Find(b, 1, Blank) = m
    BY <1>4, <2>1, <2>2, <2>3, 1 \in Nat, FindPlace
  <2> QED
    BY <2>4 DEF m
<1>8. At(b, 1) # Quote
  <2>1. 1 \in 1..n \/ 1 = n + 1
    BY <1>4
  <2>2. DOMAIN b = 1..Len(b)
    BY <1>4, LenProperties
  <2>3. Blank # Quote /\ 0 # Quote
    BY DEF Blank, Quote
  <2> QED
    BY <1>4, <1>5, <1>6, <2>1, <2>2, <2>3 DEF At
<1>9. (n + 1) - 1 = n
  BY <1>4
<1> DEFINE end == IF At(b, 1) = Quote THEN Find(b, 2, Quote) ELSE Find(b, 1, Blank) - 1
<1>10. end = n
  BY <1>7, <1>8, <1>9
<1>11. wpa_config_parse_string(Cut(b, end)) = d
  BY <1>3, <1>4, <1>10
<1> HIDE DEF end
<1>12. ssid_parse(b) = IF Len(d) \in 1..SSID_MAX_LEN THEN d ELSE Fail
  BY <1>11, NameOrFail DEF end
<1> QED
  BY <1>12 DEF b, t

\* A name in quotes is what is between them.
LEMMA QuotedName ==
  ASSUME NEW d \in Seq(Byte), NEW rest \in Seq(Nat), \A i \in 1..Len(d) : d[i] # Quote
  PROVE  ssid_parse(Wrapped(Quote, d, Quote) \o rest)
            = IF Len(d) \in 1..SSID_MAX_LEN THEN d ELSE Fail
<1> DEFINE t == Wrapped(Quote, d, Quote)
           b == t \o rest
           n == Len(d)
           v == Tail(t)
<1>1. d \in Seq(Nat) /\ n \in Nat /\ Quote \in Nat
  <2>1. Byte \subseteq Nat
    BY DEF Byte
  <2> QED
    BY <2>1, SeqMonotonic, LenProperties DEF Quote
<1>2. /\ t \in Seq(Nat) /\ Len(t) = n + 2 /\ t[1] = Quote /\ t[n + 2] = Quote
      /\ \A i \in 1..n : t[i + 1] = d[i]
  <2> DEFINE A == Nat
             q == Quote
  <2>1. q \in A /\ d \in Seq(A)
    BY <1>1
  <2> HIDE DEF A, q
  <2>2. /\ Wrapped(q, d, q) \in Seq(A) /\ Len(Wrapped(q, d, q)) = Len(d) + 2
        /\ Wrapped(q, d, q)[1] = q /\ Wrapped(q, d, q)[Len(d) + 2] = q
        /\ \A i \in 1..Len(d) : Wrapped(q, d, q)[i + 1] = d[i]
    BY <2>1, WrappedFacts
  <2> QED
    BY <2>2 DEF A, q
<1> HIDE DEF t, n
<1>3. v \in Seq(Nat) /\ Len(v) = n + 1 /\ \A i \in 1..(n + 1) : v[i] = t[i + 1]
  <2>1. t # <<>>
    <3>1. Len(t) # 0
      BY <1>1, <1>2
    <3> QED
      BY <3>1
  <2>2. v \in Seq(Nat) /\ Len(v) = Len(t) - 1 /\ \A i \in 1..Len(v) : v[i] = t[i + 1]
    BY <1>2, <2>1, HeadTailProperties
  <2>3. Len(t) - 1 = n + 1
    BY <1>1, <1>2
  <2> HIDE DEF v
  <2> QED
    BY <2>2, <2>3
<1>4. At(t, 1) = Quote
  <2>1. DOMAIN t = 1..(n + 2)
    BY <1>2, LenProperties
  <2> QED
    BY <1>1, <1>2, <2>1 DEF At
<1>5. wpa_config_parse_string(t) = Unquoted(v)
  BY <1>4 DEF wpa_config_parse_string
<1> HIDE DEF v
<1>6. Unquoted(v) = d
  <2>1. \A i \in 1..n : v[i] = d[i]
    <3>1. \A i \in 1..n : i \in 1..(n + 1)
      BY <1>1
    <3> QED
      BY <1>2, <1>3, <3>1
  <2>2. v[n + 1] = Quote
    <3>1. n + 1 \in 1..(n + 1) /\ (n + 1) + 1 = n + 2
      BY <1>1
    <3> QED
      BY <1>2, <1>3, <3>1
  <2> QED
    BY <1>1, <1>3, <2>1, <2>2, UnquotedText DEF n
<1>7. /\ b \in Seq(Nat) /\ Len(b) \in Nat /\ n + 2 <= Len(b) /\ Cut(b, n + 2) = t
      /\ \A i \in 1..(n + 2) : b[i] = t[i]
  <2>1. /\ b \in Seq(Nat) /\ Len(b) \in Nat /\ Len(t) <= Len(b) /\ Cut(b, Len(t)) = t
        /\ \A i \in 1..Len(t) : b[i] = t[i]
    BY <1>2, HeadFacts
  <2> HIDE DEF b
  <2> QED
    BY <1>2, <2>1
<1> HIDE DEF b
<1>8. At(b, 1) = Quote
  <2>1. DOMAIN b = 1..Len(b)
    BY <1>7, LenProperties
  <2>2. 1 \in 1..Len(b) /\ 1 \in 1..(n + 2)
    BY <1>1, <1>7
  <2> QED
    BY <1>2, <1>7, <2>1, <2>2 DEF At
<1>9. Find(b, 2, Quote) = n + 2
  <2> DEFINE m == n + 2
  <2>1. m \in Nat /\ 2 <= m /\ m <= Len(b) + 1 /\ m \in 1..(n + 2)
    BY <1>1, <1>7
  <2>2. \A i \in 2..(m - 1) : b[i] # Quote
    <3> TAKE i \in 2..(m - 1)
    <3>1. i - 1 \in 1..n /\ (i - 1) + 1 = i /\ i \in 1..(n + 2)
      BY <1>1
    <3>2. t[i] = d[i - 1]
      BY <1>2, <3>1
    <3> QED
      BY <1>7, <3>1, <3>2 DEF n
  <2>3. b[m] = Quote
    BY <1>2, <1>7, <2>1
  <2> HIDE DEF m
  <2>4. Find(b, 2, Quote) = m
    BY <1>7, <2>1, <2>2, <2>3, 2 \in Nat, FindPlace
  <2> QED
    BY <2>4 DEF m
<1> DEFINE end == IF At(b, 1) = Quote THEN Find(b, 2, Quote) ELSE Find(b, 1, Blank) - 1
<1>10. end = n + 2
  BY <1>8, <1>9
<1>11. wpa_config_parse_string(Cut(b, end)) = d
  BY <1>5, <1>6, <1>7, <1>10
<1> HIDE DEF end
<1>12. ssid_parse(b) = IF Len(d) \in 1..SSID_MAX_LEN THEN d ELSE Fail
  BY <1>11, NameOrFail DEF end
<1> QED
  BY <1>12 DEF b, t

\* All that is said of names, of any data.
LEMMA NameRead ==
  ASSUME data \in Seq(Byte)
  PROVE  NameIsReadBack
<1> DEFINE expected == IF Len(data) \in 1..SSID_MAX_LEN THEN data ELSE Fail
           hex == wpa_snprintf_hex(data, 2 * Len(data) + 1).text
<1>1. hex = HexText(data)
  <2> DEFINE room == 2 * Len(data) + 1
  <2>1. room \in Nat \ {0} /\ room > 2 * Len(data)
    <3>1. Len(data) \in Nat
      BY LenProperties
    <3> QED
      BY <3>1
  <2> HIDE DEF room
  <2>2. wpa_snprintf_hex(data, room).text = HexText(data)
    BY <2>1, HexWritten
  <2> QED
    BY <2>2 DEF room
<1> HIDE DEF hex
<1>2. ASSUME NEW rest \in {<<>>, <<Blank, Quote, 97>>}
      PROVE  /\ ssid_parse(hex \o rest) = expected
             /\ {0, Quote} \cap Range(data) = {} =>
                    ssid_parse(Wrapped(Quote, data, Quote) \o rest) = expected
  <2>1. rest \in Seq(Nat) /\ (rest = <<>> \/ rest[1] = Blank)
    <3>1. <<>> \in Seq(Nat)
      BY EmptySeq
    <3>2. Blank \in Nat /\ Quote \in Nat /\ 97 \in Nat
      BY DEF Blank, Quote
    <3>3. <<Blank, Quote, 97>> \in Seq(Nat) /\ <<Blank, Quote, 97>>[1] = Blank
      BY <3>2
    <3> QED
      BY <3>1, <3>3
  <2>2. ssid_parse(hex \o rest) = expected
    BY <1>1, <2>1, HexName
  <2>3. ASSUME {0, Quote} \cap Range(data) = {}
        PROVE  ssid_parse(Wrapped(Quote, data, Quote) \o rest) = expected
    <3>1. \A i \in 1..Len(data) : data[i] \in Range(data)
      BY LenProperties DEF Range
    <3>2. \A i \in 1..Len(data) : data[i] # Quote
      BY <2>3, <3>1
    <3> QED
      BY <2>1, <3>2, QuotedName
  <2> QED
    BY <2>2, <2>3
<1> QED
  BY <1>2 DEF NameIsReadBack, hex

-----------------------------------------------------------------------------
(* Times.                                                                    *)

\* A product is as far from zero as one of its factors.
LEMMA Scale ==
  ASSUME NEW m \in Nat, NEW x \in Int, NEW y \in Int
  PROVE  /\ m * x \in Int /\ m * (x - 1) = m * x - m /\ m * (x - y) = m * x - m * y
         /\ x <= -1 => m * x <= -m
         /\ x = 0 => m * x = 0
         /\ x >= 1 => m * x >= m
OBVIOUS

\* A second has a number of microseconds.
LEMMA MillionIsNatural == Million \in Nat
BY Z3 DEF Million

\* Of any two times and any limit (os.h:69-108).
THEOREM TimesAlwaysAddUp == TimesAddUp([sec : Int, usec : 0..(Million - 1)], Nat)
<1> SUFFICES ASSUME NEW c \in [sec : Int, usec : 0..(Million - 1)],
                    NEW d \in [sec : Int, usec : 0..(Million - 1)]
             PROVE  LET age == os_reltime_sub(c, d)
                        micros == Million * (c.sec - d.sec) + c.usec - d.usec
                    IN  /\ age.usec \in 0..(Million - 1)
                        /\ Million * age.sec + age.usec = micros
                        /\ os_reltime_before(c, d) <=> micros < 0
                        /\ \A n \in Nat :
                            os_reltime_expired(c, d, n) <=> micros > Million * n
  BY DEF TimesAddUp
<1> DEFINE s == c.sec
           t == d.sec
           u == c.usec
           v == d.usec
           age == os_reltime_sub(c, d)
<1>1. /\ Million \in Nat /\ s \in Int /\ t \in Int
      /\ u \in Nat /\ u < Million /\ v \in Nat /\ v < Million
  <2>1. Million \in Nat
    BY MillionIsNatural
  <2> HIDE DEF Million
  <2>2. s \in Int /\ t \in Int /\ u \in 0..(Million - 1) /\ v \in 0..(Million - 1)
    OBVIOUS
  <2> HIDE DEF s, t, u, v
  <2> QED
    BY <2>1, <2>2
<1>2. /\ age.sec = s - t - IF u < v THEN 1 ELSE 0
      /\ age.usec = u - v + IF u < v THEN Million ELSE 0
  BY DEF os_reltime_sub
<1>3. os_reltime_before(c, d) <=> s < t \/ (s = t /\ u < v)
  BY DEF os_reltime_before
<1>4. \A n \in Nat : os_reltime_expired(c, d, n) <=> age.sec > n \/ (age.sec = n /\ age.usec > 0)
  BY DEF os_reltime_expired
<1> HIDE DEF s, t, u, v, age, Million
<1> DEFINE micros == Million * (s - t) + u - v
<1>5. age.sec \in Int /\ age.usec \in 0..(Million - 1) /\ Million * age.sec + age.usec = micros
  <2>1. CASE u < v
    <3>1. age.sec = (s - t) - 1 /\ age.usec = u - v + Million /\ s - t \in Int
      BY <1>1, <1>2, <2>1
    <3>2. Million * age.sec = Million * (s - t) - Million /\ Million * (s - t) \in Int
      BY <1>1, <3>1, Scale
    <3> QED
      BY <1>1, <2>1, <3>1, <3>2
  <2>2. CASE ~(u < v)
    <3>1. age.sec = s - t /\ age.usec = u - v /\ s - t \in Int
      BY <1>1, <1>2, <2>2
    <3>2. Million * (s - t) \in Int
      BY <1>1, <3>1, Scale
    <3> QED
      BY <1>1, <2>2, <3>1, <3>2
  <2> QED
    BY <2>1, <2>2
<1>6. os_reltime_before(c, d) <=> micros < 0
  <2> DEFINE x == s - t
             z == Million * x
  <2>1. /\ x \in Int /\ (s < t <=> x <= -1) /\ (s = t <=> x = 0) /\ (x <= -1 \/ x = 0 \/ x >= 1)
    BY <1>1
  <2> HIDE DEF x
  <2>2. z \in Int /\ (x <= -1 => z <= -Million) /\ (x = 0 => z = 0) /\ (x >= 1 => z >= Million)
    BY <1>1, <2>1, Scale
  <2>3. micros = z + u - v
    BY DEF x
  <2> HIDE DEF z, micros
  <2> QED
    BY <1>1, <1>3, <2>1, <2>2, <2>3
<1>7. ASSUME NEW n \in Nat
      PROVE  os_reltime_expired(c, d, n) <=> micros > Million * n
  <2> DEFINE a == age.sec
             w == age.usec
             x == a - n
             z == Million * x
  <2>1. /\ a \in Int /\ x \in Int /\ w \in Nat /\ w < Million
        /\ (a > n <=> x >= 1) /\ (a = n <=> x = 0) /\ (x <= -1 \/ x = 0 \/ x >= 1)
    BY <1>1, <1>5
  <2>2. z = Million * a - Million * n /\ Million * a \in Int /\ Million * n \in Int
    BY <1>1, <2>1, Scale
  <2>3. micros = Million * a + w
    BY <1>5
  <2> HIDE DEF x
  <2>4. z \in Int /\ (x <= -1 => z <= -Million) /\ (x = 0 => z = 0) /\ (x >= 1 => z >= Million)
    BY <1>1, <2>1, Scale
  <2> DEFINE p == Million * a
             q == Million * n
  <2>5. z = p - q /\ p \in Int /\ q \in Int /\ micros = p + w
    BY <2>2, <2>3
  <2>6. os_reltime_expired(c, d, n) <=> a > n \/ (a = n /\ w > 0)
    BY <1>4
  <2> HIDE DEF a, w, z, micros, p, q
  <2>7. os_reltime_expired(c, d, n) <=> micros > q
    BY <1>1, <2>1, <2>4, <2>5, <2>6
  <2> QED
    BY <2>7 DEF q
<1> QED
  BY <1>5, <1>6, <1>7 DEF s, t, u, v, age

-----------------------------------------------------------------------------
(* Addresses.                                                                *)

\* A byte of an address, behind a colon.
ColonHex == [b \in Byte |-> <<Colon>> \o Hex(b)]

\* It is three characters.
LEMMA ColonHexFacts ==
  /\ ColonHex \in [Byte -> Seq(Nat)]
  /\ \A b \in Byte :
        /\ Len(ColonHex[b]) = 3 /\ ColonHex[b][1] = Colon
        /\ ColonHex[b][2] = Digit(b \div 16) /\ ColonHex[b][3] = Digit(b % 16)
<1>1. ASSUME NEW b \in Byte
      PROVE  ColonHex[b] = <<Colon, Digit(b \div 16), Digit(b % 16)>> /\ ColonHex[b] \in Seq(Nat)
  <2>1. Digit(b \div 16) \in Nat /\ Digit(b % 16) \in Nat /\ Colon \in Nat
    <3>1. HexChars \subseteq Nat
      BY DEF HexChars
    <3>2. Digit(b \div 16) \in HexChars /\ Digit(b % 16) \in HexChars
      BY HexOfByte, DigitRead
    <3> QED
      BY <3>1, <3>2 DEF Colon
  <2>2. ColonHex[b] = <<Colon>> \o <<Digit(b \div 16), Digit(b % 16)>>
    BY DEF ColonHex, Hex
  <2> DEFINE x == Digit(b \div 16)
             y == Digit(b % 16)
  <2> HIDE DEF x, y
  <2>3. ASSUME NEW c \in Nat, NEW i \in Nat, NEW j \in Nat
        PROVE  <<c>> \o <<i, j>> = <<c, i, j>>
    <3>1. <<c>> \in Seq(Nat) /\ <<i, j>> \in Seq(Nat) /\ <<c, i, j>> \in Seq(Nat)
      OBVIOUS
    <3>2. Len(<<c>>) = 1 /\ Len(<<i, j>>) = 2 /\ Len(<<c, i, j>>) = 3
      OBVIOUS
    <3>3. /\ Len(<<c>> \o <<i, j>>) = 3 /\ <<c>> \o <<i, j>> \in Seq(Nat)
          /\ \A k \in 1..3 : (<<c>> \o <<i, j>>)[k] = IF k <= 1 THEN <<c>>[k] ELSE <<i, j>>[k - 1]
      BY <3>1, <3>2, ConcatProperties
    <3>4. \A k \in 1..3 : (<<c>> \o <<i, j>>)[k] = <<c, i, j>>[k]
      BY <3>3
    <3> QED
      BY <3>1, <3>2, <3>3, <3>4, SeqEqual
  <2>6. \A c, i, j \in Nat : <<c, i, j>> \in Seq(Nat)
    OBVIOUS
  <2>4. Colon \in Nat /\ x \in Nat /\ y \in Nat
    BY <2>1 DEF x, y
  <2> HIDE DEF Colon
  <2>5. ColonHex[b] = <<Colon, x, y>> /\ <<Colon, x, y>> \in Seq(Nat)
    BY <2>2, <2>3, <2>4, <2>6 DEF x, y
  <2> QED
    BY <2>5 DEF x, y
<1>2. ColonHex \in [Byte -> Seq(Nat)]
  <2>1. ColonHex = [b \in Byte |-> ColonHex[b]]
    BY DEF ColonHex
  <2> QED
    BY <1>1, <2>1
<1>3. \A x, y, z : /\ Len(<<x, y, z>>) = 3 /\ <<x, y, z>>[1] = x
                  /\ <<x, y, z>>[2] = y /\ <<x, y, z>>[3] = z
  OBVIOUS
<1>4. ASSUME NEW b \in Byte
      PROVE  /\ Len(ColonHex[b]) = 3 /\ ColonHex[b][1] = Colon
             /\ ColonHex[b][2] = Digit(b \div 16) /\ ColonHex[b][3] = Digit(b % 16)
  <2> DEFINE h == ColonHex[b]
             x == Digit(b \div 16)
             y == Digit(b % 16)
  <2>1. h = <<Colon, x, y>>
    BY <1>1
  <2> HIDE DEF h, x, y
  <2>2. Len(h) = 3 /\ h[1] = Colon /\ h[2] = x /\ h[3] = y
    BY <1>3, <2>1
  <2> QED
    BY <2>2 DEF h, x, y
<1> QED
  BY <1>2, <1>4

\* Three characters for each byte.
LEMMA ThreeForEach ==
  ASSUME NEW d \in Seq(Byte)
  PROVE  Len(Joined(ColonHex, d)) = 3 * Len(d) /\ Joined(ColonHex, d) \in Seq(Nat)
<1> DEFINE P == {e \in Seq(Byte) : Len(Joined(ColonHex, e)) = 3 * Len(e)}
<1>1. /\ Joined(ColonHex, <<>>) = <<>>
      /\ \A e \in Seq(Byte) : Joined(ColonHex, e) \in Seq(Nat)
      /\ \A e \in Seq(Byte), b \in Byte :
            Joined(ColonHex, Append(e, b)) = Joined(ColonHex, e) \o ColonHex[b]
  BY ColonHexFacts, JoinedFacts
<1>2. <<>> \in P
  BY <1>1, EmptySeq
<1>3. ASSUME NEW e \in Seq(Byte), NEW b \in Byte, e \in P PROVE Append(e, b) \in P
  <2> DEFINE t == Joined(ColonHex, e)
             h == ColonHex[b]
  <2>1. t \in Seq(Nat) /\ h \in Seq(Nat) /\ Len(h) = 3 /\ Len(t) = 3 * Len(e)
    BY <1>1, <1>3, ColonHexFacts
  <2>2. Append(e, b) \in Seq(Byte) /\ Len(Append(e, b)) = Len(e) + 1 /\ Len(e) \in Nat
    BY AppendProperties, LenProperties
  <2>3. Joined(ColonHex, Append(e, b)) = t \o h
    BY <1>1
  <2> HIDE DEF t, h
  <2>4. Len(t \o h) = Len(t) + Len(h)
    BY <2>1, ConcatProperties
  <2>5. Len(t \o h) = 3 * (Len(e) + 1)
    BY <2>1, <2>2, <2>4
  <2> QED
    BY <2>2, <2>3, <2>5
<1>4. Seq(Byte) \subseteq P
  <2> HIDE DEF P
  <2> QED
    BY <1>2, <1>3, InductSeq
<1> QED
  BY <1>1, <1>4

\* The digits of byte n of an address are at 3 * n - 2, and a colon behind them.
LEMMA MacTextFacts ==
  ASSUME NEW addr \in Seq(Byte), Len(addr) = ETH_ALEN
  PROVE  /\ MacText(addr) \in Seq(Nat) /\ Len(MacText(addr)) = 3 * ETH_ALEN - 1
         /\ \A n \in 1..ETH_ALEN :
                /\ MacText(addr)[3 * n - 2] = Digit(addr[n] \div 16)
                /\ MacText(addr)[3 * n - 1] = Digit(addr[n] % 16)
                /\ n < ETH_ALEN => MacText(addr)[3 * n] = Colon
<1> DEFINE t == Joined(ColonHex, addr)
           m == MacText(addr)
<1>1. ETH_ALEN \in Nat /\ ETH_ALEN >= 1
  BY CommonAssumption
<1>2. t \in Seq(Nat) /\ Len(t) = 3 * ETH_ALEN
  BY ThreeForEach
<1>3. m = Tail(t)
  <2>1. \A n \in DOMAIN addr : addr[n] \in Byte
    BY LenProperties, ElementOfSeq
  <2>2. [n \in DOMAIN addr |-> <<Colon>> \o Hex(addr[n])]
        = [n \in DOMAIN addr |-> ColonHex[addr[n]]]
    BY <2>1 DEF ColonHex
  <2> QED
    BY <2>2 DEF MacText, Joined
<1>4. ASSUME NEW n \in 1..ETH_ALEN
      PROVE  /\ t[3 * n - 2] = Colon /\ t[3 * n - 1] = Digit(addr[n] \div 16)
             /\ t[3 * n] = Digit(addr[n] % 16)
  <2> DEFINE x == SubSeq(addr, 1, n - 1)
             c == ColonHex[addr[n]]
  <2>1. n - 1 \in 0..Len(addr) /\ n \in 1..Len(addr) /\ addr[n] \in Byte
    BY <1>1, ElementOfSeq
  <2>2. x \in Seq(Byte) /\ Len(x) = n - 1
    BY <2>1, PrefixFacts
  <2>3. Len(Joined(ColonHex, x)) = 3 * (n - 1)
    <3> HIDE DEF x
    <3> QED
      BY <2>2, ThreeForEach
  <2>4. Len(c) = 3 /\ c[1] = Colon /\ c[2] = Digit(addr[n] \div 16) /\ c[3] = Digit(addr[n] % 16)
    BY <2>1, ColonHexFacts
  <2>5. Placed(ColonHex, addr, n)
    BY <2>1, ColonHexFacts, JoinedPlace
  <2>6. \A i \in 1..Len(c) : t[3 * (n - 1) + i] = c[i]
    BY <2>3, <2>5 DEF Placed
  <2> HIDE DEF t, c
  <2>7. 3 * (n - 1) + 1 = 3 * n - 2 /\ 3 * (n - 1) + 2 = 3 * n - 1 /\ 3 * (n - 1) + 3 = 3 * n
    BY <1>1
  <2>8. t[3 * (n - 1) + 1] = c[1] /\ t[3 * (n - 1) + 2] = c[2] /\ t[3 * (n - 1) + 3] = c[3]
    BY <2>4, <2>6
  <2> QED
    BY <2>4, <2>7, <2>8
<1> HIDE DEF t
<1>5. t # <<>>
  BY <1>1, <1>2, EmptySeq
<1>6. /\ Tail(t) \in Seq(Nat) /\ Len(Tail(t)) = 3 * ETH_ALEN - 1
      /\ \A i \in 1..(3 * ETH_ALEN - 1) : Tail(t)[i] = t[i + 1]
  BY <1>2, <1>5, HeadTailProperties
<1> HIDE DEF m
<1>7. \A i \in 1..(3 * ETH_ALEN - 1) : m[i] = t[i + 1]
  BY <1>3, <1>6
<1>8. ASSUME NEW n \in 1..ETH_ALEN
      PROVE  /\ m[3 * n - 2] = Digit(addr[n] \div 16) /\ m[3 * n - 1] = Digit(addr[n] % 16)
             /\ n < ETH_ALEN => m[3 * n] = Colon
  <2>1. /\ 3 * n - 2 \in 1..(3 * ETH_ALEN - 1) /\ (3 * n - 2) + 1 = 3 * n - 1
        /\ 3 * n - 1 \in 1..(3 * ETH_ALEN - 1) /\ (3 * n - 1) + 1 = 3 * n
    BY <1>1
  <2>2. m[3 * n - 2] = t[3 * n - 1] /\ m[3 * n - 1] = t[3 * n]
    BY <1>7, <2>1
  <2>3. ASSUME n < ETH_ALEN PROVE m[3 * n] = Colon
    <3>1. 3 * n \in 1..(3 * ETH_ALEN - 1) /\ n + 1 \in 1..ETH_ALEN /\ 3 * n + 1 = 3 * (n + 1) - 2
      BY <1>1, <2>3
    <3>2. m[3 * n] = t[3 * n + 1]
      BY <1>7, <3>1
    <3>3. t[3 * (n + 1) - 2] = Colon
      BY <1>4, <3>1
    <3> QED
      BY <3>1, <3>2, <3>3
  <2> QED
    BY <1>4, <2>2, <2>3
<1>9. m \in Seq(Nat) /\ Len(m) = 3 * ETH_ALEN - 1
  BY <1>3, <1>6
<1> QED
  BY <1>8, <1>9 DEF m

\* An address is read wherever its text stands.
LEMMA ParseMac ==
  ASSUME NEW addr \in Seq(Byte), Len(addr) = ETH_ALEN, NEW s, NEW p \in Nat,
         \A i \in 1..(3 * ETH_ALEN - 1) : p + i - 1 \in DOMAIN s /\ s[p + i - 1] = MacText(addr)[i]
  PROVE  hwaddr_parse(s, p) = [addr |-> addr, next |-> p + 3 * ETH_ALEN - 1]
<1>1. ETH_ALEN \in Nat /\ ETH_ALEN >= 1
  BY CommonAssumption
<1> DEFINE m == MacText(addr)
<1>2. \A n \in 1..ETH_ALEN : /\ m[3 * n - 2] = Digit(addr[n] \div 16)
                             /\ m[3 * n - 1] = Digit(addr[n] % 16)
                             /\ n < ETH_ALEN => m[3 * n] = Colon
  BY MacTextFacts
<1> HIDE DEF m
<1>3. ASSUME NEW n \in 1..ETH_ALEN
      PROVE  /\ hex2byte(s, p + 3 * (n - 1)) = addr[n] /\ addr[n] \in Byte
             /\ n < ETH_ALEN => At(s, p + 3 * (n - 1) + 2) = Colon
  <2> DEFINE q == p + 3 * (n - 1)
  <2>1. /\ 3 * n - 2 \in 1..(3 * ETH_ALEN - 1) /\ p + (3 * n - 2) - 1 = q
        /\ 3 * n - 1 \in 1..(3 * ETH_ALEN - 1) /\ p + (3 * n - 1) - 1 = q + 1
        /\ n < ETH_ALEN => 3 * n \in 1..(3 * ETH_ALEN - 1) /\ p + 3 * n - 1 = q + 2
        /\ q \in Nat
    BY <1>1
  <2>2. addr[n] \in Byte
    BY ElementOfSeq
  <2> HIDE DEF q
  <2>3. /\ q \in DOMAIN s /\ s[q] = m[3 * n - 2]
        /\ q + 1 \in DOMAIN s /\ s[q + 1] = m[3 * n - 1]
        /\ n < ETH_ALEN => q + 2 \in DOMAIN s /\ s[q + 2] = m[3 * n]
    <3>1. \A i \in 1..(3 * ETH_ALEN - 1) : p + i - 1 \in DOMAIN s /\ s[p + i - 1] = m[i]
      BY DEF m
    <3>2. q \in DOMAIN s /\ s[q] = m[3 * n - 2]
      BY <2>1, <3>1
    <3>3. q + 1 \in DOMAIN s /\ s[q + 1] = m[3 * n - 1]
      BY <2>1, <3>1
    <3>4. n < ETH_ALEN => q + 2 \in DOMAIN s /\ s[q + 2] = m[3 * n]
      BY <2>1, <3>1
    <3> QED
      BY <3>2, <3>3, <3>4
  <2>4. hex2byte(s, q) = addr[n]
    BY <1>2, <2>1, <2>2, <2>3, HexByteRead
  <2>5. n < ETH_ALEN => At(s, q + 2) = Colon
    BY <1>2, <2>3 DEF At
  <2> QED
    BY <2>2, <2>4, <2>5 DEF q
<1>4. \A n \in 1..ETH_ALEN : hex2byte(s, p + 3 * (n - 1)) >= 0
  BY <1>3, ByteIsNumber
<1>5. [n \in 1..ETH_ALEN |-> hex2byte(s, p + 3 * (n - 1))] = addr
  <2>1. addr = [n \in 1..ETH_ALEN |-> addr[n]]
    BY LenProperties
  <2> QED
    BY <1>3, <2>1
<1> QED
  BY <1>3, <1>4, <1>5 DEF hwaddr_parse

\* What is read is no failure.
LEMMA NotFail == ASSUME NEW a \in Seq(Byte) PROVE a # Fail
<1>1. a = <<-1>> => Len(a) = 1 /\ a[1] = -1
  OBVIOUS
<1>2. Len(a) = 1 => a[1] \in Byte
  BY ElementOfSeq
<1>3. -1 \notin Byte
  BY DEF Byte
<1> QED
  BY <1>1, <1>2, <1>3 DEF Fail

\* An address and its mask are read from the text of both, and the mask is one of
\* all ones when there is nothing behind the address (common.c:69-129, 200-227).
LEMMA MaskRead ==
  ASSUME NEW addr \in Seq(Byte), NEW mask \in Seq(Byte), Len(addr) = ETH_ALEN, Len(mask) = ETH_ALEN
  PROVE  LET txt == hwaddr_mask_txt(6 * ETH_ALEN, addr, mask)
         IN  /\ hwaddr_masked_aton(txt, TRUE) = <<addr, mask>>
             /\ hwaddr_masked_aton(txt, FALSE) = <<Fail, Fail>> <=> mask # NoMask
<1> DEFINE a == MacText(addr)
           m == MacText(mask)
           k == 3 * ETH_ALEN - 1
           both == a \o <<Slash>> \o m
           txt == hwaddr_mask_txt(6 * ETH_ALEN, addr, mask)
<1>1. ETH_ALEN \in Nat /\ ETH_ALEN >= 1 /\ k \in Nat /\ k >= 2
  BY CommonAssumption
<1>2. a \in Seq(Nat) /\ Len(a) = k /\ m \in Seq(Nat) /\ Len(m) = k
  BY MacTextFacts
<1>3. addr # Fail /\ mask # Fail
  BY NotFail
<1>4. CASE mask = NoMask
  <2>1. txt = a
    <3>1. ~(k >= 6 * ETH_ALEN)
      BY <1>1
    <3> HIDE DEF a, k
    <3> QED
      BY <1>2, <1>4, <3>1 DEF hwaddr_mask_txt, a
  <2>2. hwaddr_parse(a, 1) = [addr |-> addr, next |-> k + 1]
    <3>1. \A i \in 1..k : 1 + i - 1 \in DOMAIN a /\ a[1 + i - 1] = a[i]
      <4> HIDE DEF a, k
      <4>1. \A i \in 1..k : 1 + i - 1 = i
        BY <1>1
      <4> QED
        BY <1>2, <4>1, LenProperties
    <3>2. hwaddr_parse(a, 1) = [addr |-> addr, next |-> 1 + 3 * ETH_ALEN - 1]
      BY <3>1, ParseMac
    <3>3. 1 + 3 * ETH_ALEN - 1 = k + 1
      BY <1>1
    <3> QED
      BY <3>2, <3>3
  <2>3. At(a, k + 1) = 0
    <3> HIDE DEF a, k
    <3>1. k + 1 \notin DOMAIN a
      BY <1>1, <1>2, LenProperties
    <3> QED
      BY <3>1 DEF At
  <2> HIDE DEF a, k
  <2>4. \A maskable \in BOOLEAN : hwaddr_masked_aton(a, maskable) = <<addr, NoMask>>
    BY <1>3, <2>2, <2>3 DEF hwaddr_masked_aton
  <2>5. <<addr, NoMask>> # <<Fail, Fail>>
    BY <1>3
  <2> QED
    BY <1>4, <2>1, <2>4, <2>5
<1>5. CASE mask # NoMask
  <2>1. /\ both \in Seq(Nat) /\ Len(both) = 2 * k + 1 /\ both[k + 1] = Slash
        /\ \A i \in 1..k : both[i] = a[i] /\ both[k + 1 + i] = m[i]
    <3> HIDE DEF a, m, k
    <3>1. Slash \in Nat
      BY DEF Slash
    <3> HIDE DEF Slash
    <3> DEFINE s == <<Slash>>
               t == a \o s
    <3>2. s \in Seq(Nat) /\ Len(s) = 1 /\ s[1] = Slash
      BY <3>1
    <3> HIDE DEF s
    <3>3. /\ t \in Seq(Nat) /\ Len(t) = k + 1
          /\ \A i \in 1..(k + 1) : t[i] = IF i <= k THEN a[i] ELSE s[i - k]
      <4>1. /\ a \o s \in Seq(Nat) /\ Len(a \o s) = Len(a) + Len(s)
            /\ \A i \in 1..(Len(a) + Len(s)) :
                (a \o s)[i] = IF i <= Len(a) THEN a[i] ELSE s[i - Len(a)]
        BY <1>2, <3>2, ConcatProperties
      <4> QED
        BY <1>2, <3>2, <4>1
    <3>4. t[k + 1] = Slash /\ \A i \in 1..k : t[i] = a[i]
      <4>1. k + 1 \in 1..(k + 1) /\ ~(k + 1 <= k) /\ (k + 1) - k = 1
        BY <1>1
      <4>2. \A i \in 1..k : i \in 1..(k + 1) /\ i <= k
        BY <1>1
      <4>3. t[k + 1] = Slash
        BY <3>2, <3>3, <4>1
      <4> QED
        BY <3>3, <4>2, <4>3
    <3> HIDE DEF t
    <3>5. /\ t \o m \in Seq(Nat) /\ Len(t \o m) = 2 * k + 1
          /\ \A i \in 1..(2 * k + 1) : (t \o m)[i] = IF i <= k + 1 THEN t[i] ELSE m[i - (k + 1)]
      <4>1. /\ t \o m \in Seq(Nat) /\ Len(t \o m) = Len(t) + Len(m)
            /\ \A i \in 1..(Len(t) + Len(m)) :
                (t \o m)[i] = IF i <= Len(t) THEN t[i] ELSE m[i - Len(t)]
        BY <1>2, <3>3, ConcatProperties
      <4>2. Len(t) + Len(m) = 2 * k + 1
        BY <1>1, <1>2, <3>3
      <4> QED
        BY <3>3, <4>1, <4>2
    <3>6. both = t \o m
      BY DEF t, s
    <3>7. k + 1 \in 1..(2 * k + 1) /\ k + 1 <= k + 1
      BY <1>1
    <3>8. ASSUME NEW i \in 1..k
          PROVE  /\ i \in 1..(2 * k + 1) /\ i <= k + 1
                 /\ k + 1 + i \in 1..(2 * k + 1) /\ ~(k + 1 + i <= k + 1)
                 /\ (k + 1 + i) - (k + 1) = i
      BY <1>1
    <3> HIDE DEF both
    <3>9. both[k + 1] = Slash
      BY <3>4, <3>5, <3>6, <3>7
    <3>10. \A i \in 1..k : both[i] = a[i]
      BY <3>4, <3>5, <3>6, <3>8
    <3>11. \A i \in 1..k : both[k + 1 + i] = m[i]
      BY <3>5, <3>6, <3>8
    <3> QED
      BY <3>5, <3>6, <3>9, <3>10, <3>11
  <2>2. DOMAIN both = 1..(2 * k + 1)
    <3> HIDE DEF both, k
    <3> QED
      BY <2>1, LenProperties
  <2>3. txt = both
    <3>1. ~(2 * k + 1 >= 6 * ETH_ALEN)
      BY <1>1
    <3> HIDE DEF k
    <3> QED
      BY <1>5, <2>1, <3>1 DEF hwaddr_mask_txt
  <2>4. hwaddr_parse(both, 1) = [addr |-> addr, next |-> k + 1]
    <3>1. \A i \in 1..k : 1 + i - 1 \in DOMAIN both /\ both[1 + i - 1] = a[i]
      <4> HIDE DEF a, k, both, m
      <4>1. \A i \in 1..k : 1 + i - 1 = i /\ i \in 1..(2 * k + 1)
        BY <1>1
      <4> QED
        BY <2>1, <2>2, <4>1
    <3> HIDE DEF both
    <3>2. hwaddr_parse(both, 1) = [addr |-> addr, next |-> 1 + 3 * ETH_ALEN - 1]
      BY <3>1, ParseMac
    <3>3. 1 + 3 * ETH_ALEN - 1 = k + 1
      BY <1>1
    <3> QED
      BY <3>2, <3>3
  <2>5. hwaddr_parse(both, (k + 1) + 1).addr = mask
    <3> DEFINE p == (k + 1) + 1
    <3>1. \A i \in 1..k : p + i - 1 \in DOMAIN both /\ both[p + i - 1] = m[i]
      <4> HIDE DEF a, k, both, m
      <4>1. \A i \in 1..k : p + i - 1 = k + 1 + i /\ k + 1 + i \in 1..(2 * k + 1)
        BY <1>1
      <4> HIDE DEF p
      <4> QED
        BY <2>1, <2>2, <4>1
    <3>2. p \in Nat
      BY <1>1
    <3> HIDE DEF both, p
    <3>3. hwaddr_parse(both, p) = [addr |-> mask, next |-> p + 3 * ETH_ALEN - 1]
      BY <3>1, <3>2, ParseMac
    <3> QED
      BY <3>3 DEF p
  <2>6. At(both, k + 1) = Slash /\ Slash \notin White \cup {0}
    <3>1. Slash \notin White \cup {0}
      BY DEF Slash, White, Blank
    <3>2. k + 1 \in 1..(2 * k + 1)
      BY <1>1
    <3> HIDE DEF both, k
    <3> QED
      BY <2>1, <2>2, <3>1, <3>2 DEF At
  <2> HIDE DEF both, k
  <2>7. hwaddr_masked_aton(both, TRUE) = <<addr, mask>>
    BY <1>3, <2>4, <2>5, <2>6 DEF hwaddr_masked_aton
  <2>8. hwaddr_masked_aton(both, FALSE) = <<Fail, Fail>>
    BY <1>3, <2>4, <2>6 DEF hwaddr_masked_aton
  <2> QED
    BY <1>5, <2>3, <2>7, <2>8
<1> QED
  BY <1>4, <1>5

\* What begins a byte is a digit, and so no separator.
LEMMA DigitIsRead ==
  ASSUME NEW s \in Seq(Nat), NEW p \in Nat, hex2byte(s, p) >= 0
  PROVE  p \in 1..Len(s) /\ s[p] \notin Separators /\ At(s, p) = s[p]
         /\ hex2byte(s, p) \in Byte
<1> DEFINE c == At(s, p)
           d == At(s, p + 1)
           Digits == (48..57) \cup (97..102) \cup (65..70)
<1>1. c \in Nat /\ d \in Nat
  BY ElementOfSeq DEF At
<1>2. \A n \in Nat : /\ n \in Digits => hex2num(n) \in 0..15
                     /\ n \notin Digits => hex2num(n) = -1
  BY DEF hex2num
<1>3. c \in Digits /\ d \in Digits
  <2>1. ~(hex2num(c) < 0) /\ ~(hex2num(d) < 0)
    <3>1. hex2num(c) < 0 \/ hex2num(d) < 0 => hex2byte(s, p) = -1
      BY DEF hex2byte
    <3>2. ~(-1 >= 0)
      OBVIOUS
    <3> QED
      BY <3>1, <3>2
  <2>2. -1 < 0
    OBVIOUS
  <2> HIDE DEF c, d, Digits
  <2> QED
    BY <1>1, <1>2, <2>1, <2>2
<1>4. hex2byte(s, p) = 16 * hex2num(c) + hex2num(d)
  <2>1. \A n \in 0..15 : ~(n < 0)
    OBVIOUS
  <2>2. hex2num(c) \in 0..15 /\ hex2num(d) \in 0..15
    BY <1>1, <1>2, <1>3
  <2> HIDE DEF Digits
  <2> QED
    BY <2>1, <2>2 DEF hex2byte
<1>5. \A i, j \in 0..15 : 16 * i + j \in 0..255
  OBVIOUS
<1>6. hex2byte(s, p) \in Byte
  <2> HIDE DEF c, d, Digits
  <2> QED
    BY <1>1, <1>2, <1>3, <1>4, <1>5 DEF Byte
<1>7. c # 0 /\ c \notin Separators
  <2>1. \A n \in Digits : n # 0 /\ n # 58 /\ n # 46 /\ n # 45
    OBVIOUS
  <2> HIDE DEF c, Digits
  <2> QED
    BY <1>3, <2>1 DEF Separators, Colon
<1>8. p \in DOMAIN s /\ c = s[p]
  BY <1>7 DEF At
<1>9. p \in 1..Len(s)
  BY <1>8, LenProperties
<1> QED
  BY <1>6, <1>7, <1>8, <1>9

\* Separators from p on are skipped: here none, or one.
SkipOf(s, p) == CHOOSE q \in p..(Len(s) + 1) :
                    /\ \A r \in p..(q - 1) : s[r] \in Separators
                    /\ At(s, q) \notin Separators

\* The place behind them, where there is one.
LEMMA SkipFacts ==
  ASSUME NEW s \in Seq(Nat), NEW p \in Nat, NEW q \in p..(p + 1), q <= Len(s),
         At(s, q) \notin Separators, q # p => s[p] \in Separators, At(s, p) = s[p]
  PROVE  SkipOf(s, p) = q
<1>1. Len(s) \in Nat /\ q \in p..(Len(s) + 1) /\ (q = p \/ q = p + 1)
  BY LenProperties
<1>2. \A r \in p..(q - 1) : s[r] \in Separators
  <2>1. \A r \in p..(q - 1) : r = p /\ q # p
    BY <1>1
  <2> QED
    BY <2>1
<1>3. ASSUME NEW x \in p..(Len(s) + 1), \A r \in p..(x - 1) : s[r] \in Separators,
             At(s, x) \notin Separators
      PROVE  x = q
  <2>1. ~(x > q)
    <3>1. x > q => q \in p..(x - 1)
      BY <1>1
    <3>2. At(s, q) = s[q]
      <4>1. q = p \/ q \in 1..Len(s)
        BY <1>1
      <4>2. q \in 1..Len(s) => q \in DOMAIN s
        BY LenProperties
      <4> QED
        BY <4>1, <4>2 DEF At
    <3> QED
      BY <1>3, <3>1, <3>2
  <2>2. ~(x < q)
    <3>1. x < q => x = p /\ q # p
      BY <1>1
    <3> QED
      BY <1>3, <3>1
  <2> QED
    BY <1>1, <2>1, <2>2
<1> DEFINE Good(x) == /\ \A r \in p..(x - 1) : s[r] \in Separators
                      /\ At(s, x) \notin Separators
<1>4. Good(q) /\ \A x \in p..(Len(s) + 1) : Good(x) => x = q
  BY <1>2, <1>3
<1>5. SkipOf(s, p) = CHOOSE x \in p..(Len(s) + 1) : Good(x)
  BY DEF SkipOf
<1> HIDE DEF Good
<1> QED
  BY <1>1, <1>4, <1>5

\* Where each byte of an address may stand.
PlacesOf(s, g) ==
    /\ g[1] = 1
    /\ \A n \in 1..ETH_ALEN : g[n] \in Nat /\ hex2byte(s, g[n]) >= 0
    /\ \A n \in 1..ETH_ALEN : n # 1 =>
        \/ g[n] = g[n - 1] + 2
        \/ g[n] = g[n - 1] + 3 /\ s[g[n - 1] + 2] \in Separators

\* hwaddr_aton2() reads bytes that follow one another, or have one separator between.
LEMMA AnyFormatRead ==
  ASSUME NEW s \in Seq(Nat), NEW g \in [1..ETH_ALEN -> Nat], PlacesOf(s, g)
  PROVE  hwaddr_aton2(s) = [n \in 1..ETH_ALEN |-> hex2byte(s, g[n])]
<1> DEFINE body(h) == [n \in 1..ETH_ALEN |->
                        IF n = 1 THEN SkipOf(s, 1)
                        ELSE IF hex2byte(s, h[n - 1]) < 0 THEN h[n - 1]
                        ELSE SkipOf(s, h[n - 1] + 2)]
           place == CHOOSE h : h = body(h)
<1>1. ETH_ALEN \in Nat /\ ETH_ALEN >= 1
  BY CommonAssumption
<1>2. ASSUME NEW n \in 1..ETH_ALEN
      PROVE  /\ g[n] \in 1..Len(s) /\ At(s, g[n]) \notin Separators /\ At(s, g[n]) = s[g[n]]
             /\ ~(hex2byte(s, g[n]) < 0)
  <2>1. g[n] \in Nat /\ hex2byte(s, g[n]) >= 0
    BY DEF PlacesOf
  <2>2. /\ g[n] \in 1..Len(s) /\ s[g[n]] \notin Separators /\ At(s, g[n]) = s[g[n]]
        /\ hex2byte(s, g[n]) \in Byte
    BY <2>1, DigitIsRead
  <2> QED
    BY <2>2, ByteIsNumber
<1>3. SkipOf(s, 1) = g[1]
  <2>1. 1 \in 1..ETH_ALEN /\ g[1] = 1
    BY <1>1 DEF PlacesOf
  <2>2. 1 \in 1..(1 + 1) /\ 1 <= Len(s)
    BY <1>2, <2>1
  <2> QED
    BY <1>2, <2>1, <2>2, SkipFacts
<1>4. ASSUME NEW n \in 1..ETH_ALEN, n # 1 PROVE SkipOf(s, g[n - 1] + 2) = g[n]
  <2> DEFINE p == g[n - 1] + 2
             q == g[n]
  <2>1. n - 1 \in 1..ETH_ALEN
    BY <1>1, <1>4
  <2>2. g[n - 1] \in Nat /\ p \in Nat
    BY <2>1
  <2>3. q = p \/ (q = p + 1 /\ s[p] \in Separators)
    <3>1. \/ q = g[n - 1] + 2
          \/ q = g[n - 1] + 3 /\ s[g[n - 1] + 2] \in Separators
      BY <1>4 DEF PlacesOf
    <3> QED
      BY <2>2, <3>1
  <2>4. q \in 1..Len(s) /\ At(s, q) \notin Separators /\ At(s, q) = s[q]
    BY <1>2
  <2>5. At(s, p) = s[p]
    <3>1. Len(s) \in Nat /\ DOMAIN s = 1..Len(s)
      BY LenProperties
    <3>2. p \in 1..Len(s)
      <4> HIDE DEF q
      <4>1. g[n - 1] >= 1
        BY <1>2, <2>1
      <4> QED
        BY <2>2, <2>3, <2>4, <3>1, <4>1
    <3> QED
      BY <3>1, <3>2 DEF At
  <2>6. q \in p..(p + 1) /\ q <= Len(s)
    BY <2>2, <2>3, <2>4
  <2>7. q # p => s[p] \in Separators
    BY <2>3
  <2> HIDE DEF p, q
  <2>8. SkipOf(s, p) = q
    BY <2>2, <2>4, <2>5, <2>6, <2>7, SkipFacts
  <2> QED
    BY <2>8 DEF p, q
<1>5. g = body(g)
  <2>1. \A n \in 1..ETH_ALEN : n # 1 => n - 1 \in 1..ETH_ALEN
    BY <1>1
  <2>2. \A n \in 1..ETH_ALEN : g[n] = IF n = 1 THEN SkipOf(s, 1)
                                      ELSE IF hex2byte(s, g[n - 1]) < 0 THEN g[n - 1]
                                      ELSE SkipOf(s, g[n - 1] + 2)
    BY <1>2, <1>3, <1>4, <2>1
  <2>3. g = [n \in 1..ETH_ALEN |-> g[n]]
    OBVIOUS
  <2> QED
    BY <2>2, <2>3
<1>6. place = body(place)
  <2> HIDE DEF body
  <2> QED
    BY <1>5
<1>7. \A n \in 1..ETH_ALEN : place[n] = IF n = 1 THEN SkipOf(s, 1)
                                        ELSE IF hex2byte(s, place[n - 1]) < 0 THEN place[n - 1]
                                        ELSE SkipOf(s, place[n - 1] + 2)
  <2> HIDE DEF place
  <2> QED
    BY <1>6
<1>8. \A n \in 1..ETH_ALEN : place[n] = g[n]
  <2> HIDE DEF place, body
  <2> DEFINE P == {k \in Nat : k \in 1..ETH_ALEN => place[k] = g[k]}
  <2>1. 0 \in P
    OBVIOUS
  <2>2. ASSUME NEW k \in Nat, k \in P PROVE k + 1 \in P
    <3>1. SUFFICES ASSUME k + 1 \in 1..ETH_ALEN PROVE place[k + 1] = g[k + 1]
      OBVIOUS
    <3>2. CASE k = 0
      BY <1>3, <1>7, <3>1, <3>2
    <3>3. CASE k # 0
      <4>1. k \in 1..ETH_ALEN /\ (k + 1) - 1 = k /\ k + 1 # 1
        BY <1>1, <3>1, <3>3
      <4>2. place[k] = g[k]
        BY <2>2, <4>1
      <4>3. place[k + 1] = SkipOf(s, g[k] + 2)
        BY <1>2, <1>7, <3>1, <4>1, <4>2
      <4>4. SkipOf(s, g[k] + 2) = g[k + 1]
        BY <1>4, <3>1, <4>1
      <4> QED
        BY <4>3, <4>4
    <3> QED
      BY <3>2, <3>3
  <2>3. Nat \subseteq P
    <3> HIDE DEF P
    <3> QED
      BY <2>1, <2>2, Induct
  <2> QED
    BY <1>1, <2>3
<1>9. hwaddr_aton2(s) = LET addr == [n \in 1..ETH_ALEN |-> hex2byte(s, place[n])]
                        IN  IF \E n \in 1..ETH_ALEN : addr[n] < 0 THEN Fail ELSE addr
  BY DEF hwaddr_aton2, SkipOf
<1>10. [n \in 1..ETH_ALEN |-> hex2byte(s, place[n])] = [n \in 1..ETH_ALEN |-> hex2byte(s, g[n])]
  <2> HIDE DEF place
  <2> QED
    BY <1>8
<1> HIDE DEF place
<1> QED
  BY <1>2, <1>9, <1>10

\* The two formats with a name are read as they are by their own functions, and
\* the address before a mask is the address (common.c:42-197).
LEMMA FormatsRead ==
  ASSUME NEW s \in Seq(Nat)
  PROVE  /\ hwaddr_aton(s) # Fail => hwaddr_aton2(s) = hwaddr_aton(s)
         /\ hwaddr_compact_aton(s) # Fail => hwaddr_aton2(s) = hwaddr_compact_aton(s)
<1>1. ETH_ALEN \in Nat /\ ETH_ALEN >= 1
  BY CommonAssumption
<1>2. ASSUME hwaddr_aton(s) # Fail PROVE hwaddr_aton2(s) = hwaddr_aton(s)
  <2> DEFINE g == [n \in 1..ETH_ALEN |-> 1 + 3 * (n - 1)]
  <2>1. \A n \in 1..ETH_ALEN : /\ hex2byte(s, 1 + 3 * (n - 1)) >= 0
                               /\ n < ETH_ALEN => At(s, 1 + 3 * (n - 1) + 2) = Colon
    BY <1>2 DEF hwaddr_aton, hwaddr_parse
  <2>2. hwaddr_aton(s) = [n \in 1..ETH_ALEN |-> hex2byte(s, 1 + 3 * (n - 1))]
    BY <2>1 DEF hwaddr_aton, hwaddr_parse
  <2>3. g \in [1..ETH_ALEN -> Nat]
    BY <1>1
  <2>4. g[1] = 1
    BY <1>1
  <2>5. ASSUME NEW n \in 1..ETH_ALEN, n # 1
        PROVE  g[n] = g[n - 1] + 3 /\ s[g[n - 1] + 2] \in Separators
    <3>1. n - 1 \in 1..ETH_ALEN /\ n - 1 < ETH_ALEN
      BY <1>1, <2>5
    <3>2. g[n] = g[n - 1] + 3
      BY <1>1, <3>1
    <3>3. At(s, g[n - 1] + 2) = Colon
      BY <2>1, <3>1
    <3>4. Colon # 0 /\ Colon \in Separators
      BY DEF Colon, Separators
    <3> QED
      BY <3>2, <3>3, <3>4 DEF At
  <2>6. PlacesOf(s, g)
    <3>1. \A n \in 1..ETH_ALEN : g[n] \in Nat /\ hex2byte(s, g[n]) >= 0
      BY <2>1, <2>3
    <3> HIDE DEF g
    <3> QED
      BY <2>4, <2>5, <3>1 DEF PlacesOf
  <2>7. [n \in 1..ETH_ALEN |-> hex2byte(s, g[n])] = hwaddr_aton(s)
    BY <2>2
  <2> HIDE DEF g
  <2> QED
    BY <2>3, <2>6, <2>7, AnyFormatRead
<1>3. ASSUME hwaddr_compact_aton(s) # Fail PROVE hwaddr_aton2(s) = hwaddr_compact_aton(s)
  <2> DEFINE g == [n \in 1..ETH_ALEN |-> 2 * n - 1]
             bin == [n \in 1..ETH_ALEN |-> hex2byte(s, 2 * n - 1)]
  <2>1. (\A n \in 1..ETH_ALEN : ~(bin[n] < 0)) /\ hwaddr_compact_aton(s) = bin
    BY <1>3 DEF hwaddr_compact_aton, hexstr2bin
  <2>2. \A n \in 1..ETH_ALEN : hex2byte(s, 2 * n - 1) >= 0
    <3>1. ASSUME NEW n \in 1..ETH_ALEN PROVE hex2byte(s, 2 * n - 1) \in Int
      <4> DEFINE p == 2 * n - 1
      <4>1. At(s, p) \in Nat /\ At(s, p + 1) \in Nat
        BY ElementOfSeq DEF At
      <4>2. \A c \in Nat : hex2num(c) \in Int
        BY DEF hex2num
      <4> HIDE DEF p
      <4>3. hex2num(At(s, p)) \in Int /\ hex2num(At(s, p + 1)) \in Int
        BY <4>1, <4>2
      <4>4. hex2byte(s, p) \in Int
        BY <4>3 DEF hex2byte
      <4> QED
        BY <4>4 DEF p
    <3>2. \A n \in 1..ETH_ALEN : ~(hex2byte(s, 2 * n - 1) < 0)
      BY <2>1
    <3> QED
      BY <3>1, <3>2
  <2>3. g \in [1..ETH_ALEN -> Nat]
    BY <1>1
  <2>4. g[1] = 1
    BY <1>1
  <2>5. ASSUME NEW n \in 1..ETH_ALEN, n # 1 PROVE g[n] = g[n - 1] + 2
    <3>1. n - 1 \in 1..ETH_ALEN
      BY <1>1, <2>5
    <3> QED
      BY <1>1, <3>1
  <2>6. PlacesOf(s, g)
    <3>1. \A n \in 1..ETH_ALEN : g[n] \in Nat /\ hex2byte(s, g[n]) >= 0
      BY <2>2, <2>3
    <3> HIDE DEF g
    <3> QED
      BY <2>4, <2>5, <3>1 DEF PlacesOf
  <2>7. [n \in 1..ETH_ALEN |-> hex2byte(s, g[n])] = hwaddr_compact_aton(s)
    BY <2>1
  <2> HIDE DEF g
  <2> QED
    BY <2>3, <2>6, <2>7, AnyFormatRead
<1> QED
  BY <1>2, <1>3

\* All that is said of addresses, of any data and text.
LEMMA AddressesRead ==
  ASSUME data \in Seq(Byte), text \in Seq(Nat)
  PROVE  AddressFormatsAgree
<1>1. \A aton \in {hwaddr_aton(text), hwaddr_compact_aton(text)} :
        aton # Fail => hwaddr_aton2(text) = aton
  BY FormatsRead
<1>2. LET masked == hwaddr_masked_aton(text, TRUE)
      IN  masked # <<Fail, Fail>> => masked[1] = hwaddr_aton(text)
  BY DEF hwaddr_masked_aton, hwaddr_aton
<1>3. ASSUME Len(data) = 2 * ETH_ALEN
      PROVE  LET addr == SubSeq(data, 1, ETH_ALEN)
                 mask == SubSeq(data, ETH_ALEN + 1, 2 * ETH_ALEN)
                 txt == hwaddr_mask_txt(6 * ETH_ALEN, addr, mask)
             IN  /\ hwaddr_masked_aton(txt, TRUE) = <<addr, mask>>
                 /\ hwaddr_masked_aton(txt, FALSE) = <<Fail, Fail>> <=> mask # NoMask
  <2> DEFINE addr == SubSeq(data, 1, ETH_ALEN)
             mask == SubSeq(data, ETH_ALEN + 1, 2 * ETH_ALEN)
  <2>1. ETH_ALEN \in Nat
    BY CommonAssumption
  <2>2. ETH_ALEN \in 0..Len(data)
    BY <1>3, <2>1
  <2>3. addr \in Seq(Byte) /\ Len(addr) = ETH_ALEN
    BY <2>2, PrefixFacts
  <2>4. mask \in Seq(Byte) /\ Len(mask) = ETH_ALEN
    <3>1. /\ SubSeq(data, ETH_ALEN + 1, Len(data)) \in Seq(Byte)
          /\ Len(SubSeq(data, ETH_ALEN + 1, Len(data))) = Len(data) - ETH_ALEN
      BY <2>2, RestFacts
    <3>2. Len(data) - ETH_ALEN = ETH_ALEN
      BY <1>3, <2>1
    <3> QED
      BY <1>3, <3>1, <3>2
  <2> HIDE DEF addr, mask
  <2>5. LET txt == hwaddr_mask_txt(6 * ETH_ALEN, addr, mask)
        IN  /\ hwaddr_masked_aton(txt, TRUE) = <<addr, mask>>
            /\ hwaddr_masked_aton(txt, FALSE) = <<Fail, Fail>> <=> mask # NoMask
    BY <2>3, <2>4, MaskRead
  <2> QED
    BY <2>5 DEF addr, mask
<1> QED
  BY <1>1, <1>2, <1>3 DEF AddressFormatsAgree

-----------------------------------------------------------------------------
(* Ranges.                                                                   *)

\* Where no c is before m, the first c is not before m either.
LEMMA FindBehind ==
  ASSUME NEW s, Len(s) \in Nat, NEW p \in Nat \ {0}, NEW c, NEW m \in Nat, p <= m, m <= Len(s) + 1,
         \A i \in p..(m - 1) : s[i] # c
  PROVE  Find(s, p, c) \in Nat /\ ~(Find(s, p, c) < m)
<1> DEFINE T == {n \in p..Len(s) : s[n] = c} \cup {Len(s) + 1}
           len == Len(s) + 1
<1>1. T \in SUBSET (1..len) /\ T # {} /\ len \in Nat
  OBVIOUS
<1>2. ASSUME NEW n \in T PROVE ~(n < m)
  <2>1. CASE n = Len(s) + 1
    BY <2>1
  <2>2. CASE n \in p..Len(s) /\ s[n] = c
    <3>1. n < m => n \in p..(m - 1)
      BY <2>2
    <3> QED
      BY <2>2, <3>1
  <2> QED
    BY <2>1, <2>2
<1>3. Find(s, p, c) = Min(T)
  BY DEF Find
<1> HIDE DEF T, len
<1>4. \E n \in T : \A k \in T : n <= k
  BY <1>1, LeastOf
<1>5. Min(T) \in T
  BY <1>4 DEF Min
<1>6. Min(T) \in Nat
  <2>1. \A n \in 1..len : n \in Nat
    BY <1>1
  <2>2. \A n \in T : n \in 1..len
    BY <1>1
  <2> QED
    BY <1>5, <2>1, <2>2
<1> QED
  BY <1>2, <1>3, <1>5, <1>6

\* A range, and whether it is the first.
Listing == [first : BOOLEAN, min : Byte, max : Byte]

\* What it is written as: a comma unless it is the first, and one number or two.
RangeText ==
    [e \in Listing |-> (IF e.first THEN <<>> ELSE <<Comma>>)
                       \o (IF e.min = e.max THEN <<e.min>> ELSE <<e.min, Dash, e.max>>)]

\* The places in it: c of the comma are before the numbers.
RangeTextOf(w, e) ==
    LET c == IF e.first THEN 0 ELSE 1
    IN  /\ w \in Seq(Int)
        /\ ~e.first => w[1] = Comma
        /\ w[c + 1] = e.min /\ Len(w) = c + (IF e.min = e.max THEN 1 ELSE 3)
        /\ e.min # e.max => w[c + 2] = Dash /\ w[c + 3] = e.max

\* All of it has its place.
LEMMA RangeTextFacts ==
  /\ RangeText \in [Listing -> Seq(Int)]
  /\ \A e \in Listing : RangeTextOf(RangeText[e], e) /\ Len(RangeText[e]) \in 1..4
<1>1. ASSUME NEW e \in Listing
      PROVE  RangeTextOf(RangeText[e], e) /\ Len(RangeText[e]) \in 1..4 /\ RangeText[e] \in Seq(Int)
  <2> DEFINE x == e.min
             y == e.max
             a == IF e.first THEN <<>> ELSE <<Comma>>
             b == IF x = y THEN <<x>> ELSE <<x, Dash, y>>
             c == IF e.first THEN 0 ELSE 1
             k == IF x = y THEN 1 ELSE 3
             w == RangeText[e]
  <2>1. x \in Int /\ y \in Int /\ Comma \in Int /\ Dash \in Int
    BY DEF Listing, Byte, Comma, Dash
  <2>2. w = a \o b
    BY DEF RangeText
  <2> HIDE DEF x, y
  <2>3. a \in Seq(Int) /\ Len(a) = c /\ (~e.first => a[1] = Comma)
    <3>1. <<>> \in Seq(Int) /\ Len(<<>>) = 0
      BY EmptySeq
    <3>2. <<Comma>> \in Seq(Int) /\ Len(<<Comma>>) = 1 /\ <<Comma>>[1] = Comma
      BY <2>1
    <3> QED
      BY <3>1, <3>2
  <2>4. /\ b \in Seq(Int) /\ Len(b) = k /\ b[1] = x
        /\ x # y => b[2] = Dash /\ b[3] = y
    <3> HIDE DEF Dash
    <3>1. CASE x = y
      BY <2>1, <3>1
    <3>2. CASE x # y
      BY <2>1, <3>2
    <3> QED
      BY <3>1, <3>2
  <2>5. c \in {0, 1} /\ k \in {1, 3} /\ (~e.first <=> c = 1) /\ (x # y <=> k = 3)
    OBVIOUS
  <2> HIDE DEF a, b, c, k
  <2>6. /\ a \o b \in Seq(Int) /\ Len(a \o b) = c + k
        /\ \A i \in 1..(c + k) : (a \o b)[i] = IF i <= c THEN a[i] ELSE b[i - c]
    BY <2>3, <2>4, ConcatProperties
  <2>7. c = 1 => (a \o b)[1] = Comma
    BY <2>3, <2>5, <2>6
  <2>8. \A i \in 1..k : (a \o b)[c + i] = b[i]
    <3>1. \A i \in 1..k : c + i \in 1..(c + k) /\ ~(c + i <= c) /\ (c + i) - c = i
      BY <2>5
    <3> QED
      BY <2>6, <3>1
  <2>9. (a \o b)[c + 1] = x /\ (k = 3 => (a \o b)[c + 2] = Dash /\ (a \o b)[c + 3] = y)
    <3>1. 1 \in 1..k /\ (k = 3 => 2 \in 1..k /\ 3 \in 1..k)
      BY <2>5
    <3> QED
      BY <2>4, <2>5, <2>8, <3>1
  <2> HIDE DEF w
  <2>10. /\ w \in Seq(Int) /\ Len(w) = c + k /\ w[c + 1] = x /\ (c = 1 => w[1] = Comma)
         /\ k = 3 => w[c + 2] = Dash /\ w[c + 3] = y
    BY <2>2, <2>6, <2>7, <2>9
  <2>11. Len(w) \in 1..4
    BY <2>5, <2>10
  <2>12. RangeTextOf(w, e)
    BY <2>5, <2>10 DEF RangeTextOf, c, k, x, y
  <2> QED
    BY <2>10, <2>11, <2>12 DEF w
<1>2. RangeText = [e \in Listing |-> RangeText[e]]
  BY DEF RangeText
<1>3. RangeText \in [Listing -> Seq(Int)]
  BY <1>1, <1>2
<1> QED
  BY <1>1, <1>3

\* One character at least for each.
LEMMA RangesLength ==
  ASSUME NEW d \in Seq(Listing)
  PROVE  /\ Joined(RangeText, d) \in Seq(Int) /\ Len(Joined(RangeText, d)) \in Nat
         /\ Len(d) <= Len(Joined(RangeText, d))
<1> DEFINE P == {e \in Seq(Listing) : Len(e) <= Len(Joined(RangeText, e))}
<1>1. /\ Joined(RangeText, <<>>) = <<>>
      /\ \A e \in Seq(Listing) : Joined(RangeText, e) \in Seq(Int)
      /\ \A e \in Seq(Listing), b \in Listing :
            Joined(RangeText, Append(e, b)) = Joined(RangeText, e) \o RangeText[b]
  BY RangeTextFacts, JoinedFacts
<1>2. <<>> \in P
  BY <1>1, EmptySeq
<1>3. ASSUME NEW e \in Seq(Listing), NEW b \in Listing, e \in P PROVE Append(e, b) \in P
  <2> DEFINE t == Joined(RangeText, e)
             h == RangeText[b]
  <2>1. t \in Seq(Int) /\ h \in Seq(Int) /\ Len(h) \in 1..4 /\ Len(e) <= Len(t)
    BY <1>1, <1>3, RangeTextFacts
  <2>2. Append(e, b) \in Seq(Listing) /\ Len(Append(e, b)) = Len(e) + 1 /\ Len(e) \in Nat
    BY AppendProperties, LenProperties
  <2>3. Joined(RangeText, Append(e, b)) = t \o h
    BY <1>1
  <2> HIDE DEF t, h
  <2>4. Len(t \o h) = Len(t) + Len(h) /\ Len(t) \in Nat
    BY <2>1, ConcatProperties, LenProperties
  <2>5. Len(e) + 1 <= Len(t \o h)
    <3>1. \A i, j \in Nat, k \in 1..4 : i <= j => i + 1 <= j + k
      OBVIOUS
    <3> QED
      BY <2>1, <2>2, <2>4, <3>1
  <2> QED
    BY <2>2, <2>3, <2>5
<1>4. Seq(Listing) \subseteq P
  <2> HIDE DEF P
  <2> QED
    BY <1>2, <1>3, InductSeq
<1>5. Joined(RangeText, d) \in Seq(Int)
  BY <1>1
<1> QED
  BY <1>4, <1>5, LenProperties

\* The numbers at p, up to the comma at m or the end of the text.
RangeAt(t, p, x, y, m) ==
    /\ p \in Nat \ {0} /\ m \in Nat /\ m = p + (IF x = y THEN 1 ELSE 3) /\ m <= Len(t) + 1
    /\ t[p] = x
    /\ x # y => t[p + 1] = Dash /\ t[p + 2] = y
    /\ m <= Len(t) => t[m] = Comma

\* What one turn makes of them.
RangeIsAt(t, was, x, y, m) ==
    RangeTurn(t, was) = [p |-> m + 1, range |-> Append(was.range, [min |-> x, max |-> y])]

\* One turn reads the numbers at its place.
LEMMA RangeTurnRead ==
  ASSUME NEW t \in Seq(Int), NEW x \in Byte, NEW y \in Byte, NEW m, NEW was,
         RangeAt(t, was.p, x, y, m)
  PROVE  RangeIsAt(t, was, x, y, m)
<1> DEFINE p == was.p
<1>1. /\ p \in Nat \ {0} /\ m \in Nat /\ m = p + (IF x = y THEN 1 ELSE 3) /\ m <= Len(t) + 1
      /\ t[p] = x /\ (x # y => t[p + 1] = Dash /\ t[p + 2] = y)
      /\ m <= Len(t) => t[m] = Comma
  BY DEF RangeAt
<1> HIDE DEF p
<1>2. Len(t) \in Nat /\ p < m /\ p <= Len(t)
  <2>1. Len(t) \in Nat
    BY LenProperties
  <2> QED
    BY <1>1, <2>1
<1>3. \A b \in Byte : b # Comma /\ b # Dash
  <2>1. Comma < 0 /\ Dash < 0
    BY DEF Comma, Dash
  <2> QED
    BY <2>1, ByteIsNumber
<1>4. Comma # Dash
  BY DEF Comma, Dash
<1>5. \A i \in p..(m - 1) : t[i] # Comma
  <2>1. \A i \in p..(m - 1) : i = p \/ (x # y /\ (i = p + 1 \/ i = p + 2))
    BY <1>1
  <2> QED
    BY <1>1, <1>3, <1>4, <2>1
<1>6. Find(t, p, Comma) = m
  BY <1>1, <1>2, <1>5, FindPlace
<1>7. ~(p > Len(t))
  BY <1>1, <1>2
<1>8. CASE x = y
  <2>1. m = p + 1
    BY <1>1, <1>8
  <2>2. \A i \in p..(m - 1) : t[i] # Dash
    <3>1. \A i \in p..(m - 1) : i = p
      BY <1>1, <2>1
    <3> QED
      BY <1>1, <1>3, <3>1
  <2>3. ~(Find(t, p, Dash) < m)
    BY <1>1, <1>2, <2>2, FindBehind
  <2> QED
    BY <1>1, <1>6, <1>7, <1>8, <2>3 DEF RangeTurn, RangeIsAt, p
<1>9. CASE x # y
  <2> DEFINE q == p + 1
  <2>1. q \in Nat /\ p <= q /\ q <= Len(t) + 1 /\ q < m /\ q + 1 = p + 2
    BY <1>1, <1>2, <1>9
  <2>2. t[q] = Dash /\ t[q + 1] = y
    BY <1>1, <1>9, <2>1
  <2>3. \A i \in p..(q - 1) : t[i] # Dash
    <3>1. \A i \in p..(q - 1) : i = p
      BY <1>1
    <3> QED
      BY <1>1, <1>3, <3>1
  <2> HIDE DEF q
  <2>4. Find(t, p, Dash) = q
    BY <1>1, <1>2, <2>1, <2>2, <2>3, FindPlace
  <2> QED
    BY <1>1, <1>6, <1>7, <2>1, <2>2, <2>4 DEF RangeTurn, RangeIsAt, p
<1> QED
  BY <1>8, <1>9

\* What is read after m ranges, and where.
RangeStage(d, list, m) ==
    [p |-> IF m = 0 THEN 1 ELSE Len(Joined(RangeText, SubSeq(d, 1, m))) + 2,
     range |-> SubSeq(list, 1, m)]

\* Each turn comes to the next one.
LEMMA RangeStageFollows ==
  ASSUME NEW d \in Seq(Listing), NEW m \in 1..Len(d),
         \A n \in 1..Len(d) : d[n].first <=> n = 1
  PROVE  LET t == Joined(RangeText, d)
             list == [n \in 1..Len(d) |-> [min |-> d[n].min, max |-> d[n].max]]
         IN  RangeTurn(t, RangeStage(d, list, m - 1)) = RangeStage(d, list, m)
<1> DEFINE t == Joined(RangeText, d)
           k == Len(d)
           R == [min : Byte, max : Byte]
           list == [n \in 1..k |-> [min |-> d[n].min, max |-> d[n].max]]
           e == d[m]
           w == RangeText[e]
           x == e.min
           y == e.max
           c == IF m = 1 THEN 0 ELSE 1
           a == Len(Joined(RangeText, SubSeq(d, 1, m - 1)))
           p == a + c + 1
           q == a + Len(w) + 1
           r == SubSeq(list, 1, m - 1)
<1>1. k \in Nat /\ \A n \in 1..k : d[n] \in Listing
  BY LenProperties, ElementOfSeq
<1>2. t \in Seq(Int) /\ Len(t) \in Nat
  BY RangesLength
<1>3. x \in Byte /\ y \in Byte /\ (e.first <=> m = 1)
  BY <1>1 DEF Listing
<1>4. RangeTextOf(w, e) /\ Len(w) \in 1..4
  BY <1>1, RangeTextFacts
<1>5. /\ a \in Nat /\ a + Len(w) <= Len(t)
      /\ Len(Joined(RangeText, SubSeq(d, 1, m))) = a + Len(w)
      /\ \A i \in 1..Len(w) : t[a + i] = w[i]
  <2>1. Placed(RangeText, d, m)
    BY RangeTextFacts, JoinedPlace
  <2> QED
    BY <2>1 DEF Placed
<1>6. /\ c \in {0, 1} /\ (c = 0 <=> m = 1) /\ Len(w) = c + (IF x = y THEN 1 ELSE 3)
      /\ w[c + 1] = x /\ (x # y => w[c + 2] = Dash /\ w[c + 3] = y)
  BY <1>3, <1>4 DEF RangeTextOf
<1>7. m # k => t[q] = Comma
  <2>1. SUFFICES ASSUME m # k PROVE t[q] = Comma
    OBVIOUS
  <2> DEFINE v == RangeText[d[m + 1]]
             z == Len(Joined(RangeText, SubSeq(d, 1, (m + 1) - 1)))
  <2>2. m + 1 \in 1..k /\ m + 1 # 1 /\ (m + 1) - 1 = m
    BY <1>1, <2>1
  <2>3. ~d[m + 1].first /\ d[m + 1] \in Listing
    BY <1>1, <2>2
  <2>4. v[1] = Comma /\ Len(v) \in 1..4
    BY <2>3, RangeTextFacts DEF RangeTextOf
  <2>5. z = a + Len(w) /\ \A i \in 1..Len(v) : t[z + i] = v[i]
    <3>1. Placed(RangeText, d, m + 1)
      BY <2>2, RangeTextFacts, JoinedPlace
    <3>2. z = a + Len(w)
      BY <1>5, <2>2
    <3> QED
      BY <3>1, <3>2 DEF Placed
  <2> HIDE DEF v, z, t
  <2>6. 1 \in 1..Len(v)
    BY <2>4
  <2>7. t[z + 1] = Comma
    BY <2>4, <2>5, <2>6
  <2> QED
    BY <2>5, <2>7
<1>8. m = k => a + Len(w) = Len(t)
  <2>1. SubSeq(d, 1, k) = d
    BY SubSeqFull
  <2> QED
    BY <1>5, <2>1
<1>9. r \in Seq(R) /\ SubSeq(list, 1, m) = Append(r, [min |-> x, max |-> y])
  <2>1. \A n \in 1..k : [min |-> d[n].min, max |-> d[n].max] \in R
    BY <1>1 DEF Listing
  <2>2. list \in Seq(R) /\ Len(list) = k
    <3> HIDE DEF R
    <3> QED
      BY <1>1, <2>1
  <2>3. list[m] = [min |-> x, max |-> y] /\ m \in 1..Len(list)
    BY <2>2
  <2> HIDE DEF list
  <2>4. SubSeq(list, 1, m) = Append(SubSeq(list, 1, m - 1), list[m])
    BY <2>2, <2>3, PrefixGrows
  <2>5. m - 1 \in 0..Len(list)
    BY <1>1, <2>2
  <2>6. SubSeq(list, 1, m - 1) \in Seq(R)
    BY <2>2, <2>5, PrefixFacts
  <2> QED
    BY <2>3, <2>4, <2>6
<1>10. RangeStage(d, list, m - 1) = [p |-> p, range |-> r]
  <2>1. m = 1 => a = 0 /\ m - 1 = 0
    <3>1. m = 1 => m - 1 = 0
      OBVIOUS
    <3>2. SubSeq(d, 1, 0) = <<>>
      BY SubSeqEmpty
    <3>3. Joined(RangeText, <<>>) = <<>>
      BY RangeTextFacts, JoinedFacts
    <3>4. Len(<<>>) = 0
      BY EmptySeq
    <3> QED
      BY <3>1, <3>2, <3>3, <3>4
  <2>2. m # 1 => m - 1 # 0
    BY <1>1
  <2>3. p = IF m = 1 THEN 1 ELSE a + 2
    <3> HIDE DEF a
    <3> QED
      BY <1>5, <2>1
  <2>4. (IF m - 1 = 0 THEN 1 ELSE a + 2) = p
    <3> HIDE DEF a, p
    <3> QED
      BY <2>1, <2>2, <2>3
  <2> HIDE DEF p
  <2> QED
    BY <2>4 DEF RangeStage
<1>11. RangeStage(d, list, m) = [p |-> q + 1, range |-> SubSeq(list, 1, m)]
  <2>1. m # 0 /\ (a + Len(w)) + 2 = q + 1
    <3> HIDE DEF a, w
    <3> QED
      BY <1>4, <1>5
  <2> HIDE DEF q
  <2> QED
    BY <1>5, <2>1 DEF RangeStage
<1> HIDE DEF t, k, list, e, w, x, y, c, a, r, R
<1>12. RangeTurn(t, [p |-> p, range |-> r])
            = [p |-> q + 1, range |-> Append(r, [min |-> x, max |-> y])]
  <2>1. Len(w) \in 1..4
    BY <1>4
  <2>2. p \in Nat \ {0} /\ q \in Nat /\ q = p + (IF x = y THEN 1 ELSE 3)
    BY <1>5, <1>6
  <2>3. c + 1 \in 1..Len(w) /\ a + (c + 1) = p
    BY <1>5, <1>6, <2>1
  <2>4. t[p] = x
    BY <1>5, <1>6, <2>3
  <2>5. x # y => t[p + 1] = Dash /\ t[p + 2] = y
    <3>1. SUFFICES ASSUME x # y PROVE t[p + 1] = Dash /\ t[p + 2] = y
      OBVIOUS
    <3>2. /\ c + 2 \in 1..Len(w) /\ a + (c + 2) = p + 1
          /\ c + 3 \in 1..Len(w) /\ a + (c + 3) = p + 2
      BY <1>5, <1>6, <3>1
    <3>3. t[a + (c + 2)] = w[c + 2] /\ t[a + (c + 3)] = w[c + 3]
      BY <1>5, <3>2
    <3> QED
      BY <1>6, <3>1, <3>2, <3>3
  <2>6. q <= Len(t) + 1
    BY <1>2, <1>5, <2>1
  <2>7. q <= Len(t) => t[q] = Comma
    <3>1. m = k => q = Len(t) + 1
      BY <1>8
    <3>2. m = k => ~(q <= Len(t))
      BY <1>2, <3>1
    <3> QED
      BY <1>7, <3>2
  <2>8. RangeAt(t, p, x, y, q)
    <3> HIDE DEF p, q
    <3> QED
      BY <2>2, <2>4, <2>5, <2>6, <2>7 DEF RangeAt
  <2> DEFINE was == [p |-> p, range |-> r]
  <2>9. was.p = p /\ was.range = r
    OBVIOUS
  <2> HIDE DEF p, q, was
  <2>10. RangeIsAt(t, was, x, y, q)
    <3>1. RangeAt(t, was.p, x, y, q)
      BY <2>8, <2>9
    <3>2. t \in Seq(Int) /\ x \in Byte /\ y \in Byte
      BY <1>2, <1>3
    <3> QED
      BY ONLY <3>1, <3>2, RangeTurnRead
  <2> QED
    BY <2>9, <2>10 DEF was, RangeIsAt
<1>13. RangeTurn(t, RangeStage(d, list, m - 1)) = RangeStage(d, list, m)
  BY <1>9, <1>10, <1>11, <1>12
<1> QED
  BY <1>13 DEF t, list, k

\* A list of ranges is read as what it was written from.
LEMMA RangesWritten ==
  ASSUME NEW d \in Seq(Listing), \A n \in 1..Len(d) : d[n].first <=> n = 1
  PROVE  LET list == [n \in 1..Len(d) |-> [min |-> d[n].min, max |-> d[n].max]]
         IN  /\ freq_range_list_str(list) = Joined(RangeText, d)
             /\ freq_range_list_parse(Joined(RangeText, d)) = list
<1> DEFINE k == Len(d)
           list == [n \in 1..k |-> [min |-> d[n].min, max |-> d[n].max]]
           t == Joined(RangeText, d)
           len == Len(t)
           start == [p |-> 1, range |-> <<>>]
           stage(m) == RangeStage(d, list, m)
           g == [n \in 0..len |-> IF n <= k THEN stage(n) ELSE stage(k)]
           body(h) == [n \in 0..len |-> IF n = 0 THEN [p |-> 1, range |-> <<>>]
                                        ELSE RangeTurn(t, h[n - 1])]
           read == CHOOSE h : h = body(h)
<1>1. k \in Nat /\ len \in Nat /\ k <= len /\ DOMAIN d = 1..k /\ \A n \in 1..k : d[n] \in Listing
  BY LenProperties, ElementOfSeq, RangesLength
<1>2. freq_range_list_str(list) = t
  <2> DEFINE piece(n) == (IF n = 1 THEN <<>> ELSE <<Comma>>)
                         \o (IF list[n].min = list[n].max THEN <<list[n].min>>
                             ELSE <<list[n].min, Dash, list[n].max>>)
  <2>1. ASSUME NEW n \in 1..k PROVE piece(n) = RangeText[d[n]]
    <3>1. list[n].min = d[n].min /\ list[n].max = d[n].max /\ (d[n].first <=> n = 1)
      OBVIOUS
    <3>2. d[n] \in Listing
      BY <1>1
    <3> HIDE DEF list, k
    <3> QED
      BY <3>1, <3>2 DEF RangeText
  <2>2. DOMAIN list = 1..k
    OBVIOUS
  <2>3. [n \in DOMAIN list |-> piece(n)] = [n \in DOMAIN d |-> RangeText[d[n]]]
    <3> HIDE DEF piece, list, k
    <3> QED
      BY <1>1, <2>1, <2>2
  <2>4. freq_range_list_str(list) = FlattenSeq([n \in DOMAIN list |-> piece(n)])
    <3> HIDE DEF list
    <3> QED
      BY DEF freq_range_list_str
  <2> HIDE DEF piece, list
  <2> QED
    BY <2>3, <2>4 DEF Joined
<1>3. list \in Seq([min : Byte, max : Byte]) /\ Len(list) = k
  <2> DEFINE R == [min : Byte, max : Byte]
  <2>1. \A n \in 1..k : [min |-> d[n].min, max |-> d[n].max] \in R
    BY <1>1 DEF Listing
  <2> HIDE DEF R, k
  <2>2. list \in Seq(R) /\ Len(list) = k
    BY <1>1, <2>1
  <2> QED
    BY <2>2 DEF R
<1>4. stage(0) = start
  <2>1. SubSeq(list, 1, 0) = <<>>
    BY SubSeqEmpty
  <2> HIDE DEF list
  <2> QED
    BY <2>1 DEF RangeStage
<1>5. \A m \in 1..k : RangeTurn(t, stage(m - 1)) = stage(m)
  BY RangeStageFollows
<1>6. RangeTurn(t, stage(k)) = stage(k)
  <2> DEFINE was == stage(k)
  <2>1. was.p > len
    <3>1. SubSeq(d, 1, k) = d
      BY SubSeqFull
    <3>2. was.p = IF k = 0 THEN 1 ELSE len + 2
      <4> HIDE DEF list
      <4> QED
        BY <3>1 DEF RangeStage
    <3>3. k = 0 => len = 0
      <4>1. k = 0 => d = <<>>
        BY EmptySeq
      <4>2. Joined(RangeText, <<>>) = <<>> /\ Len(<<>>) = 0
        BY RangeTextFacts, JoinedFacts, EmptySeq
      <4> QED
        BY <4>1, <4>2
    <3> HIDE DEF was, len, k
    <3> QED
      BY <1>1, <3>2, <3>3
  <2> HIDE DEF was
  <2>2. RangeTurn(t, was) = was
    <3> HIDE DEF t
    <3> QED
      BY <2>1 DEF RangeTurn, len
  <2> QED
    BY <2>2 DEF was
<1>7. stage(k).range = list
  <2>1. SubSeq(list, 1, k) = list
    <3> HIDE DEF list
    <3> QED
      BY <1>3, SubSeqFull
  <2> HIDE DEF list
  <2> QED
    BY <2>1 DEF RangeStage
<1> HIDE DEF stage, t, len, k, list
<1>8. /\ g[0] = start /\ g[len] = stage(k)
      /\ \A n \in 1..len : g[n] = RangeTurn(t, g[n - 1])
  <2>1. 0 \in 0..len /\ len \in 0..len /\ 0 <= k
    BY <1>1
  <2>2. g[0] = start
    BY <1>4, <2>1
  <2>3. g[len] = stage(k)
    <3>1. CASE len <= k
      <4>1. len = k
        BY <1>1, <3>1
      <4> QED
        BY <2>1, <3>1, <4>1
    <3>2. CASE ~(len <= k)
      BY <2>1, <3>2
    <3> QED
      BY <3>1, <3>2
  <2>4. ASSUME NEW n \in 1..len PROVE g[n] = RangeTurn(t, g[n - 1])
    <3>1. n \in 0..len /\ n - 1 \in 0..len
      BY <1>1
    <3>2. CASE n <= k
      <4>1. n \in 1..k /\ n - 1 <= k
        BY <1>1, <3>2
      <4>2. g[n] = stage(n) /\ g[n - 1] = stage(n - 1)
        BY <3>1, <3>2, <4>1
      <4> QED
        BY <1>5, <4>1, <4>2
    <3>3. CASE ~(n <= k)
      <4>1. n - 1 = k \/ ~(n - 1 <= k)
        BY <1>1, <3>3
      <4>2. g[n] = stage(k) /\ g[n - 1] = stage(k)
        BY <3>1, <3>3, <4>1
      <4> QED
        BY <1>6, <4>2
    <3> QED
      BY <3>2, <3>3
  <2> QED
    BY <2>2, <2>3, <2>4
<1>9. g = body(g)
  <2>1. \A n \in 0..len : g[n] = IF n = 0 THEN start ELSE RangeTurn(t, g[n - 1])
    <3> HIDE DEF g, start
    <3>1. \A n \in 0..len : n = 0 \/ n \in 1..len
      BY <1>1
    <3> QED
      BY <1>8, <3>1
  <2>2. g = [n \in 0..len |-> g[n]]
    OBVIOUS
  <2> HIDE DEF g
  <2> QED
    BY <2>1, <2>2
<1>10. read = body(read)
  <2> HIDE DEF body, g
  <2> QED
    BY <1>9
<1>11. /\ read[0] = start
       /\ \A n \in 1..len : read[n] = RangeTurn(t, read[n - 1])
  <2> HIDE DEF read
  <2>1. \A n \in 0..len : read[n] = IF n = 0 THEN start ELSE RangeTurn(t, read[n - 1])
    BY <1>10
  <2>2. 0 \in 0..len /\ \A n \in 1..len : n \in 0..len /\ n # 0
    BY <1>1
  <2> HIDE DEF start
  <2> QED
    BY <2>1, <2>2
<1>12. \A n \in 0..len : read[n] = g[n]
  <2> HIDE DEF read, g, start
  <2>1. SameSteps(read, g, len)
    BY <1>8, <1>11 DEF SameSteps
  <2> QED
    BY <1>1, <2>1, SameValues
<1>13. read[len] = stage(k)
  <2> HIDE DEF read, g
  <2> QED
    BY <1>1, <1>8, <1>12
<1>14. freq_range_list_parse(t) = read[len].range
  BY DEF freq_range_list_parse, len
<1>15. freq_range_list_parse(t) = list
  <2> HIDE DEF read
  <2> QED
    BY <1>7, <1>13, <1>14
<1> QED
  BY <1>2, <1>15 DEF list, t, k

\* The ranges that any data stands for.
LEMMA RangesRead ==
  ASSUME data \in Seq(Byte)
  PROVE  RangesAreReadBack
<1> DEFINE k == Len(data) \div 2
           d == [n \in 1..k |-> [first |-> n = 1, min |-> data[2 * n - 1], max |-> data[2 * n]]]
<1>1. k \in Nat /\ Len(data) \in Nat /\ 2 * k <= Len(data)
  BY LenProperties
<1> HIDE DEF k
<1>2. \A n \in 1..k : data[2 * n - 1] \in Byte /\ data[2 * n] \in Byte
  <2>1. \A n \in 1..k : 2 * n - 1 \in 1..Len(data) /\ 2 * n \in 1..Len(data)
    BY <1>1
  <2> QED
    BY <2>1, ElementOfSeq
<1>3. d \in Seq(Listing) /\ Len(d) = k
  <2>1. \A n \in 1..k : [first |-> n = 1, min |-> data[2 * n - 1], max |-> data[2 * n]] \in Listing
    BY <1>2 DEF Listing
  <2> QED
    BY <1>1, <2>1
<1>4. \A n \in 1..k : (d[n].first <=> n = 1) /\ d[n].min = data[2 * n - 1] /\ d[n].max = data[2 * n]
  OBVIOUS
<1> HIDE DEF d
<1>5. [n \in 1..Len(d) |-> [min |-> d[n].min, max |-> d[n].max]] = Ranges
  BY <1>3, <1>4 DEF Ranges, k
<1> QED
  BY <1>3, <1>4, <1>5, RangesWritten DEF RangesAreReadBack

-----------------------------------------------------------------------------
(* The theorems. *)

\* What the steps of the module keep: the data is bytes, and the text has no zero.
Typed == data \in Seq(Byte) /\ text \in Seq(Nat)

\* The data is always bytes, each of them one of Bytes.
THEOREM DataIsTyped == Spec => []Typed
<1>1. Init => Typed
  BY EmptySeq DEF Init, Typed
<1>2. Typed /\ [Next]_vars => Typed'
  <2> SUFFICES ASSUME Typed, [Next]_vars PROVE Typed'
    OBVIOUS
  <2>1. ASSUME NEW b \in Bytes, AppendByte(b) PROVE Typed'
    <3>1. b \in Byte
      BY CommonMCAssumption
    <3>2. Append(data, b) \in Seq(Byte)
      BY <3>1, AppendProperties DEF Typed
    <3> QED
      BY <2>1, <3>2 DEF AppendByte, Typed
  <2>2. ASSUME NEW c \in Chars, AppendChar(c) PROVE Typed'
    <3>1. c \in Nat
      BY CommonMCAssumption
    <3>2. Append(text, c) \in Seq(Nat)
      BY <3>1, AppendProperties DEF Typed
    <3> QED
      BY <2>2, <3>2 DEF AppendChar, Typed
  <2>3. CASE UNCHANGED vars
    BY <2>3 DEF vars, Typed
  <2> QED
    BY <2>1, <2>2, <2>3 DEF Next
<1> QED
  BY <1>1, <1>2, PTL DEF Spec

\* Whatever is printed, escaped or written in hexadecimal is read back, and so are
\* names, addresses and ranges, for data of any length, any room, any longest name and
\* addresses of any length (common.c:42-227, 466-686, 1059-1221).
THEOREM DataIsReadBack == Spec => []EncodedIsReadBack
<1>1. Typed => EncodedIsReadBack
  BY PrintedRead, EscapedRead, NameRead, AddressesRead, RangesRead DEF Typed, EncodedIsReadBack
<1> QED
  BY <1>1, DataIsTyped, PTL

\* The links of a list are the items in order from both ends, whatever has been put
\* in and taken out, of a list of any length (list.h:22-75).
THEOREM ListsAreLinked == Spec => []LinksAreLists
<1>1. Typed => LinksAreLists
  BY LinksFacts, LenProperties DEF Typed
<1> QED
  BY <1>1, DataIsTyped, PTL

\* A dump shows every byte once, on lines of any length, no key unless keys are to be
\* shown, and a message is printed or handed on (wpa_debug.c:251-510, 593-812).
THEOREM DumpsShowAll == Spec => []DumpsAreWhole
<1>1. Typed => DumpsAreWhole
  BY DumpsFacts DEF Typed
<1> QED
  BY <1>1, DataIsTyped, PTL
=============================================================================
