--------------------------- MODULE WordEditsProofs ---------------------------
(* Proofs about WordEdits, for words of any length. *)
EXTENDS WordEdits, WellFoundedInduction, SequenceTheorems, TLAPS

-----------------------------------------------------------------------------
(* Induction and recursion up to a number.                                  *)

LEMMA NatMin ==
  ASSUME NEW T, T \subseteq Nat, T # {}
  PROVE  \E x \in T : \A y \in T : x <= y
<1>1. PICK x \in T : \A y \in T : ~ (<<y, x>> \in OpToRel(<, Nat))
  BY NatLessThanWellFounded, WFMin, Zenon
<1>2. \A y \in T : ~(y < x)
  BY <1>1, Zenon DEF OpToRel
<1> QED BY <1>2, SMT

LEMMA Induction ==
  ASSUME NEW n \in Nat, NEW T, 0 \in T,
         \A i \in 0 .. n - 1 : i \in T => i + 1 \in T
  PROVE  \A i \in 0 .. n : i \in T
<1> SUFFICES ASSUME NEW j \in 0 .. n, j \notin T PROVE FALSE
  OBVIOUS
<1> DEFINE Bad == {i \in 0 .. n : i \notin T}
<1>0. Bad \subseteq Nat /\ Bad # {}
  OBVIOUS
<1>1. PICK x \in Bad : \A y \in Bad : x <= y
  <2> HIDE DEF Bad
  <2> QED BY <1>0, NatMin
<1>2. x \in 1 .. n
  BY <1>1
<1>3. x - 1 \in T
  BY <1>1, <1>2
<1> QED BY <1>1, <1>2, <1>3

(* What is defined by a step from each number to the next is a function.    *)
Solution(a, b, c, G) ==
  CHOOSE f : f = [i \in a .. b |-> IF i = a THEN c ELSE G[<<i, f[i - 1]>>]]

IsRun(f, a, b, S, c, G) ==
  /\ f \in [a .. b -> S]
  /\ f[a] = c
  /\ \A i \in a + 1 .. b : f[i] = G[<<i, f[i - 1]>>]

LEMMA Recursion ==
  ASSUME NEW a \in Nat, NEW b \in Nat, a <= b, NEW S, NEW c \in S,
         NEW G \in [(a + 1 .. b) \X S -> S]
  PROVE  IsRun(Solution(a, b, c, G), a, b, S, c, G)
<1> DEFINE Upto(k, f) == f[a] = c /\ \A i \in a + 1 .. a + k : f[i] = G[<<i, f[i - 1]>>]
           T == {k \in 0 .. b - a : \E f \in [a .. a + k -> S] : Upto(k, f)}
<1>1. 0 \in T
  <2> DEFINE f == [i \in a .. a |-> c]
  <2>1. f \in [a .. a + 0 -> S]
    OBVIOUS
  <2>2. Upto(0, f)
    OBVIOUS
  <2>3. 0 \in 0 .. b - a
    OBVIOUS
  <2> QED BY <2>1, <2>2, <2>3, Zenon
<1>2. ASSUME NEW k \in 0 .. (b - a) - 1, k \in T PROVE k + 1 \in T
  <2>1. PICK f \in [a .. a + k -> S] : Upto(k, f)
    BY <1>2
  <2> DEFINE n == a + (k + 1)
             x == G[<<n, f[a + k]>>]
             g == [i \in a .. n |-> IF i = n THEN x ELSE f[i]]
  <2>2. <<n, f[a + k]>> \in (a + 1 .. b) \X S
    BY <2>1
  <2>3. x \in S
    BY <2>2
  <2>4. g \in [a .. n -> S]
    <3> HIDE DEF x
    <3> QED BY <2>1, <2>3
  <2>5. g[a] = c
    BY <2>1
  <2>6. ASSUME NEW i \in a + 1 .. n PROVE g[i] = G[<<i, g[i - 1]>>]
    <3>1. CASE i = n
      <4>1. g[i] = x
        BY <3>1
      <4>2. g[i - 1] = f[a + k]
        BY <3>1
      <4> QED BY <3>1, <4>1, <4>2
    <3>2. CASE i # n
      <4>1. i \in a + 1 .. a + k /\ g[i] = f[i] /\ g[i - 1] = f[i - 1]
        BY <3>2
      <4> QED BY <2>1, <4>1
    <3> QED BY <3>1, <3>2
  <2>7. Upto(k + 1, g)
    <3> HIDE DEF g
    <3> QED BY <2>5, <2>6
  <2>8. k + 1 \in 0 .. b - a
    OBVIOUS
  <2> HIDE DEF g, Upto
  <2> QED BY <2>4, <2>7, <2>8
<1>3. b - a \in T
  <2>1. b - a \in Nat /\ b - a \in 0 .. b - a
    OBVIOUS
  <2> HIDE DEF T
  <2> QED BY <1>1, <1>2, <2>1, Induction
<1>4. PICK f \in [a .. b -> S] : Upto(b - a, f)
  <2>1. a + (b - a) = b
    OBVIOUS
  <2> QED BY <1>3, <2>1
<1> DEFINE Eq(u) == u = [i \in a .. b |-> IF i = a THEN c ELSE G[<<i, u[i - 1]>>]]
<1>5. Eq(f)
  <2>1. ASSUME NEW i \in a .. b PROVE f[i] = IF i = a THEN c ELSE G[<<i, f[i - 1]>>]
    BY <1>4
  <2>2. f = [i \in a .. b |-> f[i]]
    OBVIOUS
  <2> QED BY <2>1, <2>2
<1> DEFINE u == Solution(a, b, c, G)
<1>6. Eq(u)
  <2> HIDE DEF Eq
  <2>1. u = CHOOSE v : Eq(v)
    BY Zenon DEF Solution, Eq
  <2> QED BY <1>5, <2>1
<1> HIDE DEF u
<1>7. u[a] = c
  BY <1>6
<1>8. \A i \in a + 1 .. b : u[i] = G[<<i, u[i - 1]>>]
  BY <1>6
<1>9. u \in [a .. b -> S]
  <2> DEFINE V == {k \in 0 .. b - a : u[a + k] \in S}
  <2>1. 0 \in V
    BY <1>7
  <2>2. ASSUME NEW k \in 0 .. (b - a) - 1, k \in V PROVE k + 1 \in V
    <3>1. a + (k + 1) \in a + 1 .. b /\ a + (k + 1) - 1 = a + k
      OBVIOUS
    <3>2. <<a + (k + 1), u[a + k]>> \in (a + 1 .. b) \X S
      BY <2>2, <3>1
    <3>3. u[a + (k + 1)] = G[<<a + (k + 1), u[a + k]>>]
      BY <1>8, <3>1
    <3> QED BY <3>2, <3>3
  <2>3. \A k \in 0 .. b - a : k \in V
    <3>1. b - a \in Nat
      OBVIOUS
    <3> HIDE DEF V
    <3> QED BY <2>1, <2>2, <3>1, Induction
  <2>4. \A i \in a .. b : u[i] \in S
    <3> SUFFICES ASSUME NEW i \in a .. b PROVE u[i] \in S
      OBVIOUS
    <3>1. i - a \in 0 .. b - a /\ a + (i - a) = i
      OBVIOUS
    <3> QED BY <2>3, <3>1
  <2> QED BY <1>6, <2>4
<1> QED BY <1>7, <1>8, <1>9 DEF u, IsRun

-----------------------------------------------------------------------------
(* Copying.                                                                 *)

CState == [out : Word, sstate : Style, dstate : Style]
Elem == Char \cup Style

LEMMA CopyType ==
  ASSUME NEW c \in CState, NEW x \in Elem, NEW sor \in Style, NEW sand \in Style
  PROVE  Copy(c, x, sor, sand) \in CState
<1> DEFINE e == (c.sstate \cap sand) \cup sor
<1>1. e \in Style
  BY DEF Style, CState
<1>2. CASE IsCode(x)
  <2>1. x \in Style
    BY <1>2 DEF IsCode, Elem
  <2> QED BY <1>2, <2>1 DEF Copy, CState
<1>3. CASE ~IsCode(x)
  <2> HIDE DEF e
  <2>1. <<x>> \in Word /\ <<e, x>> \in Word
    BY <1>1 DEF Word, Elem
  <2> DEFINE y == IF c.dstate = e THEN <<x>> ELSE <<e, x>>
  <2>2. y \in Word /\ c.out \in Word
    BY <2>1 DEF CState
  <2>3. Copy(c, x, sor, sand) = [c EXCEPT !.out = c.out \o y, !.dstate = e]
    BY <1>3 DEF Copy, e
  <2>4. c.out \o y \in Word
    <3> HIDE DEF y
    <3> QED BY <2>2 DEF Word
  <2> QED BY <1>1, <2>3, <2>4 DEF CState
<1> QED BY <1>2, <1>3

CopyFcn(c, w, first, last) ==
  CHOOSE u : u = [i \in first - 1 .. last |->
                    IF i = first - 1 THEN c ELSE Copy(u[i - 1], w[i], Plain, Attribute)]

LEMMA CopyRangeIs ==
  ASSUME NEW c, NEW w, NEW first, NEW last
  PROVE  CopyRange(c, w, first, last) =
           IF last < first THEN c ELSE CopyFcn(c, w, first, last)[last]
BY Zenon DEF CopyRange, CopyFcn

LEMMA CopyFcnStep ==
  ASSUME NEW c \in CState, NEW w \in Word,
         NEW first \in Nat \ {0}, NEW last \in Nat, first - 1 <= last, last <= Len(w)
  PROVE  /\ CopyFcn(c, w, first, last) \in [first - 1 .. last -> CState]
         /\ CopyFcn(c, w, first, last)[first - 1] = c
         /\ \A i \in first .. last :
              CopyFcn(c, w, first, last)[i] =
                Copy(CopyFcn(c, w, first, last)[i - 1], w[i], Plain, Attribute)
<1> DEFINE a == first - 1
           G == [p \in (a + 1 .. last) \X CState |-> Copy(p[2], w[p[1]], Plain, Attribute)]
<1>0. a \in Nat /\ a <= last
  OBVIOUS
<1>1. \A i \in first .. last : w[i] \in Elem
  BY DEF Word, Elem
<1>2. Plain \in Style /\ Attribute \in Style
  BY DEF Plain, Style
<1>3. G \in [(a + 1 .. last) \X CState -> CState]
  BY <1>1, <1>2, CopyType
<1> DEFINE f == Solution(a, last, c, G)
<1>4. IsRun(f, a, last, CState, c, G)
  <2> HIDE DEF G, a
  <2> QED BY <1>0, <1>3, Recursion
<1> DEFINE Eq(u) == u = [i \in first - 1 .. last |->
                           IF i = first - 1 THEN c ELSE Copy(u[i - 1], w[i], Plain, Attribute)]
<1> HIDE DEF f
<1>5. \A i \in first .. last : f[i] = Copy(f[i - 1], w[i], Plain, Attribute)
  <2> SUFFICES ASSUME NEW i \in first .. last
               PROVE  f[i] = Copy(f[i - 1], w[i], Plain, Attribute)
    OBVIOUS
  <2>1. <<i, f[i - 1]>> \in (a + 1 .. last) \X CState
    BY <1>4 DEF IsRun
  <2>2. f[i] = G[<<i, f[i - 1]>>]
    <3> HIDE DEF G
    <3> QED BY <1>4 DEF IsRun
  <2> QED BY <2>1, <2>2
<1>6. Eq(f)
  <2>1. f = [i \in first - 1 .. last |-> f[i]]
    BY <1>4 DEF IsRun
  <2>2. \A i \in first - 1 .. last :
          f[i] = IF i = first - 1 THEN c ELSE Copy(f[i - 1], w[i], Plain, Attribute)
    BY <1>4, <1>5 DEF IsRun
  <2> QED BY <2>1, <2>2
<1> DEFINE u == CopyFcn(c, w, first, last)
<1>7. Eq(u)
  <2> HIDE DEF Eq
  <2>1. u = CHOOSE v : Eq(v)
    BY Zenon DEF CopyFcn, Eq
  <2> QED BY <1>6, <2>1
<1> HIDE DEF u
<1>8. u[first - 1] = c /\ \A i \in first .. last : u[i] = Copy(u[i - 1], w[i], Plain, Attribute)
  BY <1>7
<1>9. u \in [first - 1 .. last -> CState]
  <2> DEFINE V == {k \in 0 .. last - a : u[a + k] \in CState}
  <2>1. 0 \in V
    BY <1>8
  <2>2. ASSUME NEW k \in 0 .. (last - a) - 1, k \in V PROVE k + 1 \in V
    <3>1. a + (k + 1) \in first .. last /\ a + (k + 1) - 1 = a + k
      OBVIOUS
    <3>2. u[a + (k + 1)] = Copy(u[a + k], w[a + (k + 1)], Plain, Attribute)
      BY <1>8, <3>1
    <3>3. u[a + (k + 1)] \in CState
      BY <1>1, <1>2, <2>2, <3>1, <3>2, CopyType
    <3> QED BY <3>3
  <2>3. \A k \in 0 .. last - a : k \in V
    <3>1. last - a \in Nat
      OBVIOUS
    <3> HIDE DEF V
    <3> QED BY <2>1, <2>2, <3>1, Induction
  <2>4. \A i \in first - 1 .. last : u[i] \in CState
    <3> SUFFICES ASSUME NEW i \in first - 1 .. last PROVE u[i] \in CState
      OBVIOUS
    <3>1. i - a \in 0 .. last - a /\ a + (i - a) = i
      OBVIOUS
    <3> QED BY <2>3, <3>1
  <2> QED BY <1>7, <2>4
<1> QED BY <1>8, <1>9 DEF u

(* CopyRange copies one element more than up to the element before.         *)
LEMMA CopyRangeStep ==
  ASSUME NEW c \in CState, NEW w \in Word,
         NEW first \in Nat \ {0}, NEW last \in Nat, first - 1 <= last, last <= Len(w)
  PROVE  /\ CopyRange(c, w, first, last) \in CState
         /\ last = first - 1 => CopyRange(c, w, first, last) = c
         /\ last >= first =>
              CopyRange(c, w, first, last) =
                Copy(CopyRange(c, w, first, last - 1), w[last], Plain, Attribute)
<1> DEFINE a == first - 1
           u == CopyFcn(c, w, first, last)
<1>1. CASE last = first - 1
  <2>1. CopyRange(c, w, first, last) = c
    BY <1>1, CopyRangeIs
  <2> QED BY <1>1, <2>1
<1>2. CASE last >= first
  <2> DEFINE v == CopyFcn(c, w, first, last - 1)
             V == {k \in 0 .. (last - 1) - a : u[a + k] = v[a + k]}
  <2>1. /\ u \in [first - 1 .. last -> CState] /\ u[first - 1] = c
        /\ \A i \in first .. last : u[i] = Copy(u[i - 1], w[i], Plain, Attribute)
    BY CopyFcnStep
  <2>2. /\ v \in [first - 1 .. last - 1 -> CState] /\ v[first - 1] = c
        /\ \A i \in first .. last - 1 : v[i] = Copy(v[i - 1], w[i], Plain, Attribute)
    <3> DEFINE l == last - 1
    <3>1. l \in Nat /\ first - 1 <= l /\ l <= Len(w)
      BY <1>2 DEF Word
    <3> HIDE DEF l
    <3>2. /\ CopyFcn(c, w, first, l) \in [first - 1 .. l -> CState]
          /\ CopyFcn(c, w, first, l)[first - 1] = c
          /\ \A i \in first .. l : CopyFcn(c, w, first, l)[i] =
                Copy(CopyFcn(c, w, first, l)[i - 1], w[i], Plain, Attribute)
      BY <3>1, CopyFcnStep
    <3> QED BY <3>2 DEF l
  <2> HIDE DEF u, v
  <2>3. 0 \in V
    BY <1>2, <2>1, <2>2
  <2>4. ASSUME NEW k \in 0 .. ((last - 1) - a) - 1, k \in V PROVE k + 1 \in V
    <3>1. /\ a + (k + 1) \in first .. last - 1 /\ a + (k + 1) \in first .. last
          /\ a + (k + 1) - 1 = a + k
      OBVIOUS
    <3>2. u[a + (k + 1)] = Copy(u[a + k], w[a + (k + 1)], Plain, Attribute)
      BY <2>1, <3>1
    <3>3. v[a + (k + 1)] = Copy(v[a + k], w[a + (k + 1)], Plain, Attribute)
      BY <2>2, <3>1
    <3> QED BY <2>4, <3>1, <3>2, <3>3
  <2>5. (last - 1) - a \in V
    <3>1. (last - 1) - a \in Nat /\ (last - 1) - a \in 0 .. (last - 1) - a
      BY <1>2
    <3> HIDE DEF V
    <3> QED BY <2>3, <2>4, <3>1, Induction
  <2>6. u[last - 1] = v[last - 1]
    <3>1. a + ((last - 1) - a) = last - 1
      OBVIOUS
    <3> QED BY <2>5, <3>1
  <2>7. CopyRange(c, w, first, last) = u[last]
    BY <1>2, CopyRangeIs DEF u
  <2>8. CopyRange(c, w, first, last - 1) = v[last - 1]
    <3>1. CASE last - 1 < first
      <4>1. last - 1 = first - 1 /\ v[last - 1] = c
        BY <1>2, <2>2, <3>1
      <4> QED BY <3>1, <4>1, CopyRangeIs
    <3>2. CASE ~(last - 1 < first)
      BY <3>2, CopyRangeIs DEF v
    <3> QED BY <3>1, <3>2
  <2>9. u[last] = Copy(u[last - 1], w[last], Plain, Attribute) /\ u[last] \in CState
    BY <1>2, <2>1
  <2> QED BY <1>2, <2>6, <2>7, <2>8, <2>9
<1> QED BY <1>1, <1>2

-----------------------------------------------------------------------------
(* Reading.                                                                 *)

RState == [style : Style, chars : Seq(Char \X Style)]
Unread(style) == [style |-> style, chars |-> <<>>]

LEMMA ReadType ==
  ASSUME NEW r \in RState, NEW x \in Elem
  PROVE  Read(r, x) \in RState
<1>1. CASE IsCode(x)
  <2>1. x \in Style
    BY <1>1 DEF IsCode, Elem
  <2> QED BY <1>1, <2>1 DEF Read, RState
<1>2. CASE ~IsCode(x)
  <2>1. <<x, r.style>> \in Char \X Style /\ r.chars \in Seq(Char \X Style)
    BY <1>2 DEF IsCode, RState
  <2>2. Append(r.chars, <<x, r.style>>) \in Seq(Char \X Style)
    BY <2>1
  <2> QED BY <1>2, <2>2 DEF Read, RState
<1> QED BY <1>1, <1>2

ReadFcn(w, style) ==
  CHOOSE u : u = [i \in 0 .. Len(w) |->
                    IF i = 0 THEN [style |-> style, chars |-> <<>>] ELSE Read(u[i - 1], w[i])]

LEMMA ReadFcnStep ==
  ASSUME NEW w \in Word, NEW style \in Style
  PROVE  /\ ReadFcn(w, style) \in [0 .. Len(w) -> RState]
         /\ ReadFcn(w, style)[0] = Unread(style)
         /\ \A i \in 1 .. Len(w) :
              ReadFcn(w, style)[i] = Read(ReadFcn(w, style)[i - 1], w[i])
         /\ Reading(w, style) = ReadFcn(w, style)[Len(w)]
<1> DEFINE n == Len(w)
           c == Unread(style)
           G == [p \in (0 + 1 .. n) \X RState |-> Read(p[2], w[p[1]])]
           f == Solution(0, n, c, G)
<1>0. n \in Nat /\ 0 <= n /\ \A i \in 1 .. n : w[i] \in Elem
  BY DEF Word, Elem
<1>1. c \in RState
  BY DEF RState, Unread
<1>2. G \in [(0 + 1 .. n) \X RState -> RState]
  BY <1>0, ReadType
<1>3. IsRun(f, 0, n, RState, c, G)
  <2> HIDE DEF G, c, n
  <2> QED BY <1>0, <1>1, <1>2, Recursion
<1> HIDE DEF f
<1>4. \A i \in 1 .. n : f[i] = Read(f[i - 1], w[i])
  <2> SUFFICES ASSUME NEW i \in 1 .. n PROVE f[i] = Read(f[i - 1], w[i])
    OBVIOUS
  <2>1. <<i, f[i - 1]>> \in (0 + 1 .. n) \X RState
    BY <1>0, <1>3 DEF IsRun
  <2>2. f[i] = G[<<i, f[i - 1]>>]
    <3> HIDE DEF G
    <3> QED BY <1>3 DEF IsRun
  <2> QED BY <2>1, <2>2
<1> DEFINE Eq(u) == u = [i \in 0 .. Len(w) |->
                IF i = 0 THEN [style |-> style, chars |-> <<>>] ELSE Read(u[i - 1], w[i])]
<1>5. Eq(f)
  <2>1. f = [i \in 0 .. n |-> f[i]]
    BY <1>3 DEF IsRun
  <2>2. \A i \in 0 .. n : f[i] = IF i = 0 THEN c ELSE Read(f[i - 1], w[i])
    <3> HIDE DEF c
    <3> QED BY <1>0, <1>3, <1>4 DEF IsRun
  <2> QED BY <2>1, <2>2 DEF Unread
<1> DEFINE u == ReadFcn(w, style)
<1>6. Eq(u)
  <2> HIDE DEF Eq
  <2>1. u = CHOOSE v : Eq(v)
    BY Zenon DEF ReadFcn, Eq
  <2> QED BY <1>5, <2>1
<1>7. Reading(w, style) = u[Len(w)]
  BY Zenon DEF Reading, ReadFcn
<1> HIDE DEF u
<1>8. u[0] = Unread(style) /\ \A i \in 1 .. n : u[i] = Read(u[i - 1], w[i])
  BY <1>0, <1>6 DEF Unread
<1>9. u \in [0 .. n -> RState]
  <2> DEFINE V == {k \in 0 .. n : u[k] \in RState}
  <2>1. 0 \in V
    BY <1>0, <1>1, <1>8
  <2>2. ASSUME NEW k \in 0 .. n - 1, k \in V PROVE k + 1 \in V
    <3>1. k + 1 \in 1 .. n /\ (k + 1) - 1 = k
      BY <1>0
    <3>2. u[k + 1] = Read(u[k], w[k + 1])
      BY <1>8, <3>1
    <3>3. u[k + 1] \in RState
      BY <1>0, <2>2, <3>1, <3>2, ReadType
    <3> QED BY <3>1, <3>3
  <2>3. \A k \in 0 .. n : k \in V
    <3> HIDE DEF V, n
    <3> QED BY <1>0, <2>1, <2>2, Induction
  <2> QED BY <1>6, <2>3
<1> QED BY <1>7, <1>8, <1>9 DEF u

(* Two words with the same beginning read the same so far.                  *)
LEMMA ReadingOfSame ==
  ASSUME NEW u \in Word, NEW w \in Word, NEW style \in Style,
         NEW n \in Nat, n <= Len(u), n <= Len(w), \A i \in 1 .. n : u[i] = w[i]
  PROVE  ReadFcn(u, style)[n] = ReadFcn(w, style)[n]
<1> DEFINE f == ReadFcn(u, style)
           g == ReadFcn(w, style)
           V == {k \in 0 .. n : f[k] = g[k]}
<1>1. f[0] = g[0]
  BY ReadFcnStep
<1>2. \A i \in 1 .. n : f[i] = Read(f[i - 1], u[i]) /\ g[i] = Read(g[i - 1], w[i])
  <2>1. \A i \in 1 .. n : i \in 1 .. Len(u) /\ i \in 1 .. Len(w)
    BY DEF Word
  <2> QED BY <2>1, ReadFcnStep
<1> HIDE DEF f, g
<1>3. 0 \in V
  BY <1>1
<1>4. ASSUME NEW k \in 0 .. n - 1, k \in V PROVE k + 1 \in V
  <2>1. k + 1 \in 1 .. n /\ (k + 1) - 1 = k
    OBVIOUS
  <2> QED BY <1>2, <1>4, <2>1
<1>5. n \in V
  <2>1. n \in 0 .. n
    OBVIOUS
  <2> HIDE DEF V
  <2> QED BY <1>3, <1>4, <2>1, Induction
<1> QED BY <1>5 DEF f, g

LEMMA PrefixType ==
  ASSUME NEW w \in Word, NEW n \in 0 .. Len(w)
  PROVE  /\ SubSeq(w, 1, n) \in Word /\ Len(SubSeq(w, 1, n)) = n
         /\ \A i \in 1 .. n : SubSeq(w, 1, n)[i] = w[i]
<1>1. n \in Nat /\ Len(w) \in Nat
  BY DEF Word
<1>2. \A i \in 1 .. n : w[i] \in Char \cup Style
  BY <1>1 DEF Word
<1> QED BY <1>1, <1>2 DEF Word

LEMMA ReadingOfPrefix ==
  ASSUME NEW w \in Word, NEW style \in Style, NEW n \in 0 .. Len(w)
  PROVE  Reading(SubSeq(w, 1, n), style) = ReadFcn(w, style)[n]
<1> DEFINE u == SubSeq(w, 1, n)
<1>1. u \in Word /\ Len(u) = n /\ \A i \in 1 .. n : u[i] = w[i]
  BY PrefixType
<1>2. n \in Nat /\ n <= Len(w)
  BY DEF Word
<1> HIDE DEF u
<1>3. ReadFcn(u, style)[n] = ReadFcn(w, style)[n]
  BY <1>1, <1>2, ReadingOfSame
<1>4. Reading(u, style) = ReadFcn(u, style)[n]
  BY <1>1, ReadFcnStep
<1> QED BY <1>3, <1>4 DEF u

LEMMA ReadingType ==
  ASSUME NEW w \in Word, NEW style \in Style
  PROVE  Reading(w, style) \in RState
<1>1. Len(w) \in 0 .. Len(w)
  BY DEF Word
<1> QED BY <1>1, ReadFcnStep

LEMMA ReadingEmpty ==
  ASSUME NEW style \in Style
  PROVE  <<>> \in Word /\ Reading(<<>>, style) = Unread(style)
<1>1. <<>> \in Word /\ Len(<<>>) = 0
  BY DEF Word
<1> QED BY <1>1, ReadFcnStep

LEMMA ReadingAppend ==
  ASSUME NEW w \in Word, NEW style \in Style, NEW x \in Elem
  PROVE  Append(w, x) \in Word /\ Reading(Append(w, x), style) = Read(Reading(w, style), x)
<1> DEFINE u == Append(w, x)
           n == Len(w)
<1>1. /\ u \in Word /\ Len(u) = n + 1 /\ u[n + 1] = x /\ n \in Nat
      /\ \A i \in 1 .. n : u[i] = w[i]
  BY DEF Word, Elem
<1> HIDE DEF u
<1>2. ReadFcn(u, style)[n] = ReadFcn(w, style)[n]
  <2>1. n <= Len(u) /\ n <= Len(w)
    BY <1>1
  <2> QED BY <1>1, <2>1, ReadingOfSame
<1>3. ReadFcn(w, style)[n] = Reading(w, style)
  BY ReadFcnStep
<1>4. Reading(u, style) = ReadFcn(u, style)[n + 1]
  BY <1>1, ReadFcnStep
<1>5. ReadFcn(u, style)[n + 1] = Read(ReadFcn(u, style)[n], x)
  <2>1. n + 1 \in 1 .. Len(u) /\ (n + 1) - 1 = n
    BY <1>1
  <2> QED BY <1>1, <2>1, ReadFcnStep
<1> QED BY <1>1, <1>2, <1>3, <1>4, <1>5 DEF u

(* copy(NULL, ...) finds the style that reading finds.                      *)
LEMMA StyleAtStep ==
  ASSUME NEW w \in Word, NEW n \in 1 .. Len(w)
  PROVE  StyleAt(w, n + 1) = IF IsCode(w[n]) THEN w[n] ELSE StyleAt(w, n)
<1> DEFINE codes(o) == {i \in DOMAIN w : i < o /\ IsCode(w[i])}
           last(o) == CHOOSE i \in codes(o) : \A j \in codes(o) : j <= i
<1>0. DOMAIN w = 1 .. Len(w) /\ Len(w) \in Nat
  BY DEF Word
<1>1. \A o : StyleAt(w, o) = IF codes(o) = {} THEN Plain ELSE w[last(o)]
  BY DEF StyleAt
<1>2. CASE IsCode(w[n])
  <2>1. n \in codes(n + 1) /\ \A j \in codes(n + 1) : j <= n
    BY <1>0, <1>2
  <2>2. \A i \in codes(n + 1) : i \in Int
    BY <1>0
  <2>3. last(n + 1) = n
    <3> HIDE DEF codes
    <3> DEFINE P(i) == i \in codes(n + 1) /\ \A j \in codes(n + 1) : j <= i
               m == CHOOSE i : P(i)
    <3>1. P(n)
      BY <2>1
    <3>2. P(m)
      <4> HIDE DEF P
      <4> QED BY <3>1
    <3>3. m = last(n + 1)
      BY Zenon DEF P
    <3>4. m = n
      <4> HIDE DEF m
      <4> QED BY <1>0, <2>1, <2>2, <3>2
    <3> QED BY <3>3, <3>4
  <2> QED BY <1>1, <1>2, <2>1, <2>3
<1>3. CASE ~IsCode(w[n])
  <2>1. codes(n + 1) = codes(n)
    BY <1>0, <1>3
  <2> HIDE DEF codes
  <2>2. last(n + 1) = last(n)
    BY <2>1
  <2> QED BY <1>1, <1>3, <2>1, <2>2
<1> QED BY <1>2, <1>3

LEMMA StyleAtIs ==
  ASSUME NEW w \in Word, NEW n \in 0 .. Len(w)
  PROVE  StyleAt(w, n + 1) = ReadFcn(w, Plain)[n].style
<1> DEFINE f == ReadFcn(w, Plain)
           V == {k \in 0 .. n : StyleAt(w, k + 1) = f[k].style}
<1>0. n \in Nat /\ Len(w) \in Nat /\ DOMAIN w = 1 .. Len(w) /\ Plain \in Style
  BY DEF Word, Plain, Style
<1>a. /\ f \in [0 .. Len(w) -> RState] /\ f[0] = Unread(Plain)
      /\ \A i \in 1 .. Len(w) : f[i] = Read(f[i - 1], w[i])
  <2> SUFFICES /\ ReadFcn(w, Plain) \in [0 .. Len(w) -> RState]
               /\ ReadFcn(w, Plain)[0] = Unread(Plain)
               /\ \A i \in 1 .. Len(w) : ReadFcn(w, Plain)[i] = Read(ReadFcn(w, Plain)[i - 1], w[i])
    BY DEF f
  <2> QED BY <1>0, ReadFcnStep
<1> HIDE DEF f
<1>1. 0 \in V
  <2>1. StyleAt(w, 0 + 1) = Plain
    <3>1. {i \in DOMAIN w : i < 1 /\ IsCode(w[i])} = {}
      BY <1>0
    <3> QED BY <3>1 DEF StyleAt
  <2>2. f[0].style = Plain
    BY <1>a DEF Unread
  <2> QED BY <1>0, <2>1, <2>2
<1>2. ASSUME NEW k \in 0 .. n - 1, k \in V PROVE k + 1 \in V
  <2>1. k + 1 \in 1 .. Len(w) /\ (k + 1) - 1 = k
    BY <1>0
  <2>2. f[k + 1] = Read(f[k], w[k + 1]) /\ f[k] \in RState
    BY <1>0, <1>a, <2>1
  <2>3. \A r \in RState : \A x : Read(r, x).style = IF IsCode(x) THEN x ELSE r.style
    BY DEF Read, RState
  <2>4. f[k + 1].style = IF IsCode(w[k + 1]) THEN w[k + 1] ELSE f[k].style
    BY <2>2, <2>3
  <2>5. StyleAt(w, (k + 1) + 1) = IF IsCode(w[k + 1]) THEN w[k + 1] ELSE StyleAt(w, k + 1)
    BY <2>1, StyleAtStep
  <2> QED BY <1>0, <1>2, <2>1, <2>4, <2>5
<1>3. n \in V
  <2>1. n \in 0 .. n
    BY <1>0
  <2> HIDE DEF V
  <2> QED BY <1>0, <1>1, <1>2, <2>1, Induction
<1> QED BY <1>3 DEF f

-----------------------------------------------------------------------------
(* What one step of copying does to the characters of the destination.      *)

LEMMA ReadCases ==
  ASSUME NEW r \in RState, NEW x \in Elem
  PROVE  /\ IsCode(x) => x \in Style /\ Read(r, x).style = x /\ Read(r, x).chars = r.chars
         /\ ~IsCode(x) => /\ x \in Char /\ Read(r, x).style = r.style
                          /\ Read(r, x).chars = Append(r.chars, <<x, r.style>>)
BY DEF Read, RState, IsCode, Elem

LEMMA StyleAtEnd ==
  ASSUME NEW w \in Word
  PROVE  StyleAt(w, Len(w) + 1) = Reading(w, Plain).style
<1>1. Len(w) \in 0 .. Len(w) /\ Plain \in Style
  BY DEF Word, Plain, Style
<1> QED BY <1>1, StyleAtIs, ReadFcnStep

LEMMA StyleAtSame ==
  ASSUME NEW w \in Word, NEW x \in Elem, NEW i \in 1 .. Len(w) + 1
  PROVE  StyleAt(Append(w, x), i) = StyleAt(w, i)
<1> DEFINE u == Append(w, x)
           n == i - 1
<1>1. /\ u \in Word /\ Plain \in Style /\ n \in Nat /\ n <= Len(u) /\ n <= Len(w)
      /\ \A j \in 1 .. n : u[j] = w[j]
      /\ n \in 0 .. Len(u) /\ n \in 0 .. Len(w) /\ n + 1 = i
  BY DEF Word, Elem, Plain, Style
<1> HIDE DEF u, n
<1>2. ReadFcn(u, Plain)[n] = ReadFcn(w, Plain)[n]
  BY <1>1, ReadingOfSame
<1>3. StyleAt(u, n + 1) = ReadFcn(u, Plain)[n].style
  BY <1>1, StyleAtIs
<1>4. StyleAt(w, n + 1) = ReadFcn(w, Plain)[n].style
  BY <1>1, StyleAtIs
<1> QED BY <1>1, <1>2, <1>3, <1>4 DEF u

(* A code that is followed by a character and changes the style has effect. *)
LEMMA CanonicalAppend ==
  ASSUME NEW w \in Word, Canonical(w), NEW x \in Char
  PROVE  Canonical(Append(w, x))
<1> DEFINE u == Append(w, x)
<1>1. /\ Len(u) = Len(w) + 1 /\ Len(w) \in Nat /\ u[Len(w) + 1] = x
      /\ \A j \in 1 .. Len(w) : u[j] = w[j]
      /\ DOMAIN u = 1 .. Len(w) + 1 /\ DOMAIN w = 1 .. Len(w) /\ x \in Elem
  BY DEF Word, Elem
<1>2. \A i \in 1 .. Len(w) : StyleAt(u, i) = StyleAt(w, i)
  BY <1>1, StyleAtSame
<1> HIDE DEF u
<1>3. ~IsCode(x)
  BY DEF IsCode
<1>4. \A i \in 1 .. Len(w) :
        IsCode(w[i]) => i < Len(w) /\ ~IsCode(w[i + 1]) /\ StyleAt(w, i) # w[i]
  BY <1>1 DEF Canonical
<1>5. ASSUME NEW i \in DOMAIN u, IsCode(u[i])
      PROVE  i < Len(u) /\ ~IsCode(u[i + 1]) /\ StyleAt(u, i) # u[i]
  <2>1. i \in 1 .. Len(w) /\ u[i] = w[i]
    BY <1>1, <1>3, <1>5
  <2>2. i < Len(w) /\ i + 1 \in 1 .. Len(w)
    BY <1>1, <1>4, <1>5, <2>1
  <2>3. u[i + 1] = w[i + 1]
    BY <1>1, <2>2
  <2> QED BY <1>1, <1>2, <1>4, <1>5, <2>1, <2>2, <2>3
<1>6. Canonical(u)
  BY <1>5 DEF Canonical
<1> QED BY <1>6 DEF u

LEMMA CanonicalAppendCode ==
  ASSUME NEW w \in Word, Canonical(w), NEW x \in Char,
         NEW e \in Style, Reading(w, Plain).style # e
  PROVE  Canonical(Append(Append(w, e), x))
<1> DEFINE v == Append(w, e)
           u == Append(v, x)
           n == Len(w)
<1>1. /\ v \in Word /\ x \in Elem /\ e \in Elem
      /\ n \in Nat /\ Len(v) = n + 1 /\ v[n + 1] = e /\ \A j \in 1 .. n : v[j] = w[j]
  BY DEF Word, Elem
<1>2. \A i \in 1 .. n + 1 : StyleAt(v, i) = StyleAt(w, i)
  BY <1>1, StyleAtSame
<1> HIDE DEF v
<1>3. /\ Len(u) = n + 2 /\ u[n + 2] = x /\ u[n + 1] = e /\ \A j \in 1 .. n : u[j] = w[j]
      /\ DOMAIN u = 1 .. n + 2 /\ DOMAIN w = 1 .. n
  BY <1>1 DEF Word, Elem
<1>4. \A i \in 1 .. n + 1 : StyleAt(u, i) = StyleAt(w, i)
  <2>1. \A i \in 1 .. n + 1 : StyleAt(u, i) = StyleAt(v, i)
    BY <1>1, StyleAtSame
  <2> QED BY <1>2, <2>1
<1>5. StyleAt(w, n + 1) # e
  BY StyleAtEnd
<1> HIDE DEF u, n
<1>6. ~IsCode(x)
  BY DEF IsCode
<1>7. \A i \in 1 .. n :
        IsCode(w[i]) => i < n /\ ~IsCode(w[i + 1]) /\ StyleAt(w, i) # w[i]
  BY <1>3 DEF Canonical, n
<1>8. ASSUME NEW i \in DOMAIN u, IsCode(u[i])
      PROVE  i < Len(u) /\ ~IsCode(u[i + 1]) /\ StyleAt(u, i) # u[i]
  <2>1. CASE i = n + 1
    <3>1. u[i] = e /\ u[i + 1] = x /\ StyleAt(u, i) = StyleAt(w, n + 1)
      BY <1>1, <1>3, <1>4, <2>1
    <3> QED BY <1>1, <1>3, <1>5, <1>6, <2>1, <3>1
  <2>2. CASE i # n + 1
    <3>1. i \in 1 .. n /\ u[i] = w[i]
      BY <1>1, <1>3, <1>6, <1>8, <2>2
    <3>2. i < n /\ i + 1 \in 1 .. n
      BY <1>1, <1>7, <1>8, <3>1
    <3>3. u[i + 1] = w[i + 1]
      BY <1>3, <3>2
    <3>4. StyleAt(u, i) = StyleAt(w, i)
      BY <1>1, <1>4, <3>1
    <3> QED BY <1>1, <1>3, <1>7, <1>8, <3>1, <3>2, <3>3, <3>4
  <2> QED BY <2>1, <2>2
<1>9. Canonical(u)
  BY <1>8 DEF Canonical
<1> QED BY <1>9 DEF u, v

(* The destination of a copy is a word without codes that have no effect,   *)
(* and its style is the one its last code gave.                             *)
Coherent(c) ==
  /\ c \in CState
  /\ Reading(c.out, Plain).style = c.dstate
  /\ Canonical(c.out)

Effect(c, sor, sand) == (c.sstate \cap sand) \cup sor

LEMMA CopyCode ==
  ASSUME NEW c, Coherent(c), NEW x \in Elem, IsCode(x), NEW sor \in Style, NEW sand \in Style
  PROVE  /\ Coherent(Copy(c, x, sor, sand))
         /\ Copy(c, x, sor, sand) = [c EXCEPT !.sstate = x]
<1>1. Copy(c, x, sor, sand) = [c EXCEPT !.sstate = x] /\ c \in CState
  BY DEF Copy, Coherent
<1>2. Copy(c, x, sor, sand) \in CState
  BY CopyType DEF Coherent
<1>3. [c EXCEPT !.sstate = x].out = c.out /\ [c EXCEPT !.sstate = x].dstate = c.dstate
  BY <1>1 DEF CState
<1> QED BY <1>1, <1>2, <1>3 DEF Coherent

(* From c to d the character x was written with the style e.                *)
Wrote(c, d, x, e) ==
  /\ Coherent(d)
  /\ d.sstate = c.sstate /\ d.dstate = e
  /\ Reading(d.out, Plain).chars = Append(Reading(c.out, Plain).chars, <<x, e>>)
  /\ Len(d.out) = Len(c.out) + (IF c.dstate = e THEN 1 ELSE 2)
  /\ d.out[Len(d.out)] = x
  /\ \A i \in 1 .. Len(c.out) : d.out[i] = c.out[i]

LEMMA CopyChar ==
  ASSUME NEW c, Coherent(c), NEW x \in Elem, ~IsCode(x), NEW sor \in Style, NEW sand \in Style
  PROVE  Wrote(c, Copy(c, x, sor, sand), x, Effect(c, sor, sand))
<1> DEFINE d == Copy(c, x, sor, sand)
           e == Effect(c, sor, sand)
           w == c.out
           r == Reading(w, Plain)
<1>1. /\ c \in CState /\ w \in Word /\ r.style = c.dstate /\ Canonical(w) /\ d \in CState
      /\ Plain \in Style /\ e \in Style /\ e \in Elem /\ x \in Char
  BY CopyType DEF Coherent, CState, Plain, Style, Effect, Elem, IsCode
<1>2. r \in RState
  BY <1>1, ReadingType
<1>3. CASE c.dstate = e
  <2>1. d = [c EXCEPT !.out = w \o <<x>>, !.dstate = e]
    BY <1>3 DEF Copy, Effect
  <2>2. w \o <<x>> = Append(w, x)
    BY <1>1 DEF Word, Elem
  <2>3. d.out = Append(w, x) /\ d.sstate = c.sstate /\ d.dstate = e
    BY <1>1, <2>1, <2>2 DEF CState
  <2>4. Reading(d.out, Plain) = Read(r, x)
    BY <1>1, <2>3, ReadingAppend
  <2>5. Reading(d.out, Plain).style = e /\ Reading(d.out, Plain).chars = Append(r.chars, <<x, e>>)
    BY <1>1, <1>2, <1>3, <2>4, ReadCases
  <2>6. Canonical(d.out)
    BY <1>1, <2>3, CanonicalAppend
  <2>7. Coherent(d)
    BY <1>1, <2>3, <2>5, <2>6 DEF Coherent
  <2>8. /\ Len(d.out) = Len(w) + 1 /\ d.out[Len(d.out)] = x
        /\ \A i \in 1 .. Len(w) : d.out[i] = w[i]
    BY <1>1, <2>3 DEF Word, Elem
  <2> QED BY <1>3, <2>3, <2>5, <2>7, <2>8 DEF Wrote
<1>4. CASE c.dstate # e
  <2> DEFINE v == Append(w, e)
  <2>1. d = [c EXCEPT !.out = w \o <<e, x>>, !.dstate = e]
    BY <1>4 DEF Copy, Effect
  <2>2. w \o <<e, x>> = Append(v, x)
    BY <1>1 DEF Word, Elem
  <2>3. d.out = Append(v, x) /\ d.sstate = c.sstate /\ d.dstate = e
    BY <1>1, <2>1, <2>2 DEF CState
  <2>4. v \in Word /\ Reading(v, Plain) = Read(r, e)
    BY <1>1, ReadingAppend
  <2>5. Reading(v, Plain).style = e /\ Reading(v, Plain).chars = r.chars
    <3>1. IsCode(e)
      BY <1>1, CharAssumption DEF IsCode
    <3> QED BY <1>1, <1>2, <2>4, <3>1, ReadCases
  <2>6. Reading(d.out, Plain) = Read(Reading(v, Plain), x)
    <3> HIDE DEF v
    <3> QED BY <1>1, <2>3, <2>4, ReadingAppend
  <2>7. Reading(d.out, Plain).style = e /\ Reading(d.out, Plain).chars = Append(r.chars, <<x, e>>)
    <3>1. Reading(v, Plain) \in RState
      BY <1>1, <2>4, ReadingType
    <3> QED BY <1>1, <2>5, <2>6, <3>1, ReadCases
  <2>8. Canonical(d.out)
    BY <1>1, <1>4, <2>3, CanonicalAppendCode
  <2>9. Coherent(d)
    BY <1>1, <2>3, <2>7, <2>8 DEF Coherent
  <2>10. /\ Len(d.out) = Len(w) + 2 /\ d.out[Len(d.out)] = x
         /\ \A i \in 1 .. Len(w) : d.out[i] = w[i]
    BY <1>1, <2>3 DEF Word, Elem
  <2> QED BY <1>4, <2>3, <2>7, <2>9, <2>10 DEF Wrote
<1> QED BY <1>3, <1>4

-----------------------------------------------------------------------------
(* What copying a range does.                                               *)

(* t goes on where s ends.                                                  *)
Extends(s, t) ==
  /\ Len(s) <= Len(t)
  /\ \A i \in 1 .. Len(s) : t[i] = s[i]

(* q is p and what t adds to s.                                             *)
Adds(p, q, s, t) ==
  /\ Extends(s, t)
  /\ q = p \o SubSeq(t, Len(s) + 1, Len(t))

LEMMA ExtendsSelf ==
  ASSUME NEW S, NEW s \in Seq(S)
  PROVE  Extends(s, s)
BY DEF Extends

LEMMA ExtendsAppend ==
  ASSUME NEW S, NEW s \in Seq(S), NEW t \in Seq(S), Extends(s, t), NEW x \in S
  PROVE  Extends(s, Append(t, x))
<1>1. Len(s) \in Nat /\ Len(t) \in Nat
  OBVIOUS
<1>2. Len(Append(t, x)) = Len(t) + 1 /\ \A i \in 1 .. Len(t) : Append(t, x)[i] = t[i]
  OBVIOUS
<1> DEFINE u == Append(t, x)
<1> HIDE DEF u
<1>3. Extends(s, u)
  BY <1>1, <1>2 DEF Extends, u
<1> QED BY <1>3 DEF u

LEMMA ExtendsTransitive ==
  ASSUME NEW s, NEW t, NEW u, Len(s) \in Nat, Len(t) \in Nat, Len(u) \in Nat,
         Extends(s, t), Extends(t, u)
  PROVE  Extends(s, u)
BY DEF Extends

LEMMA AddsSelf ==
  ASSUME NEW S, NEW p \in Seq(S), NEW s \in Seq(S)
  PROVE  Adds(p, p, s, s)
<1>1. Len(s) \in Nat
  OBVIOUS
<1>2. SubSeq(s, Len(s) + 1, Len(s)) = <<>>
  BY <1>1, SubSeqEmpty
<1>3. p \o <<>> = p
  BY ConcatEmptySeq
<1> QED BY <1>2, <1>3, ExtendsSelf DEF Adds

AppendsBehind(p, q, x) == Append(p \o q, x) = p \o Append(q, x)

LEMMA AppendToConcat ==
  ASSUME NEW S, NEW p \in Seq(S), NEW q \in Seq(S), NEW x \in S
  PROVE  AppendsBehind(p, q, x)
<1> DEFINE h == <<x>>
<1>1. h \in Seq(S) /\ p \o q \in Seq(S)
  BY ConcatProperties
<1>2. Append(p \o q, x) = (p \o q) \o h /\ Append(q, x) = q \o h
  BY <1>1, AppendIsConcat
<1> HIDE DEF h
<1>3. (p \o q) \o h = p \o (q \o h)
  BY <1>1, ConcatAssociative
<1> QED BY <1>2, <1>3 DEF AppendsBehind

LEMMA AddsAppend ==
  ASSUME NEW S, NEW p \in Seq(S), NEW q \in Seq(S), NEW s \in Seq(S), NEW t \in Seq(S),
         Adds(p, q, s, t), NEW x \in S
  PROVE  Adds(p, Append(q, x), s, Append(t, x))
<1> DEFINE u == Append(t, x)
           n == Len(t)
           m == Len(s) + 1
           old == SubSeq(t, m, n)
           more == SubSeq(u, m, n)
<1>1. /\ u \in Seq(S) /\ Len(u) = n + 1 /\ u[n + 1] = x /\ \A i \in 1 .. n : u[i] = t[i]
      /\ n \in Nat /\ Len(s) \in Nat /\ Len(s) <= n /\ m \in Nat \ {0} /\ m <= n + 1
      /\ Extends(s, t)
  BY AppendProperties DEF Adds, Extends
<1> HIDE DEF u, n, m
<1>2. \A i \in m .. n : t[i] \in S /\ u[i] \in S /\ i \in 1 .. n
  BY <1>1 DEF n
<1>3. /\ old \in Seq(S) /\ Len(old) = (IF m <= n THEN n - m + 1 ELSE 0)
      /\ \A i \in 1 .. n - m + 1 : old[i] = t[m + i - 1]
  BY <1>1, <1>2, SubSeqProperties
<1>4. /\ more \in Seq(S) /\ Len(more) = (IF m <= n THEN n - m + 1 ELSE 0)
      /\ \A i \in 1 .. n - m + 1 : more[i] = u[m + i - 1]
  BY <1>1, <1>2, SubSeqProperties
<1>5. more = old
  <2> HIDE DEF old, more
  <2>1. \A i \in 1 .. n - m + 1 : m + i - 1 \in 1 .. n
    BY <1>1
  <2>2. \A i \in 1 .. Len(more) : i \in 1 .. n - m + 1
    BY <1>1, <1>4
  <2>3. \A i \in 1 .. Len(more) : more[i] = old[i]
    BY <1>1, <1>3, <1>4, <2>1, <2>2
  <2>4. Len(more) = Len(old)
    BY <1>3, <1>4
  <2> QED BY <1>3, <1>4, <2>3, <2>4, SeqEqual
<1>6. SubSeq(u, m, n + 1) = Append(old, x)
  <2>1. SubSeq(u, m, n + 1) = more \o <<x>>
    <3>1. CASE m = n + 1
      <4>1. more = <<>>
        BY <1>1, <3>1, SubSeqEmpty
      <4>2. SubSeq(u, m, n + 1) = <<x>>
        <5>1. m \in 1 .. Len(u) /\ n + 1 \in m .. Len(u) /\ (n + 1) - 1 = n
          BY <1>1, <3>1
        <5>2. SubSeq(u, m, n + 1) = SubSeq(u, m, (n + 1) - 1) \o <<u[n + 1]>>
          BY <1>1, <5>1, SubSeqRecursiveSecond
        <5>3. <<>> \o <<x>> = <<x>>
          BY ConcatEmptySeq
        <5> QED BY <1>1, <4>1, <5>1, <5>2, <5>3
      <4>3. <<>> \o <<x>> = <<x>>
        BY ConcatEmptySeq
      <4> QED BY <4>1, <4>2, <4>3
    <3>2. CASE m # n + 1
      <4>1. m \in 1 .. Len(u) /\ n + 1 \in m .. Len(u) /\ (n + 1) - 1 = n
        BY <1>1, <3>2
      <4>2. SubSeq(u, m, n + 1) = SubSeq(u, m, (n + 1) - 1) \o <<u[n + 1]>>
        BY <1>1, <4>1, SubSeqRecursiveSecond
      <4> QED BY <1>1, <4>1, <4>2
    <3> QED BY <3>1, <3>2
  <2> HIDE DEF old, more
  <2>2. Append(old, x) = old \o <<x>>
    BY <1>3, AppendIsConcat
  <2> QED BY <1>5, <2>1, <2>2
<1>7. q = p \o old
  BY DEF Adds, m, n
<1> HIDE DEF old, more
<1>8. Append(q, x) = p \o Append(old, x)
  <2>1. AppendsBehind(p, old, x)
    BY <1>3, AppendToConcat
  <2> QED BY <1>7, <2>1, Zenon DEF AppendsBehind
<1>9. Extends(s, u)
  BY <1>1, ExtendsAppend DEF u
<1>10. Append(q, x) = p \o SubSeq(u, Len(s) + 1, Len(u))
  BY <1>1, <1>6, <1>8 DEF m
<1>11. Adds(p, Append(q, x), s, u)
  BY <1>9, <1>10 DEF Adds
<1> QED BY <1>11 DEF u

(* A code is still to be written before the next character. *)
Pending(c) == IF c.sstate = c.dstate THEN 0 ELSE 1

Written(c) == Reading(c.out, Plain).chars

(* From c to d the source was read from r0 to r, in k elements: the         *)
(* characters read were written, after those that were there.               *)
Follows(c, d, r0, r, k) ==
  /\ Coherent(d)
  /\ d.sstate = r.style
  /\ Adds(Written(c), Written(d), r0.chars, r.chars)
  /\ Extends(c.out, d.out)
  /\ Len(d.out) + Pending(d) <= Len(c.out) + Pending(c) + k

LEMMA CoherentType ==
  ASSUME NEW c, Coherent(c)
  PROVE  /\ c \in CState /\ c.out \in Word /\ c.sstate \in Style /\ c.dstate \in Style
         /\ Written(c) \in Seq(Char \X Style)
         /\ Len(c.out) \in Nat /\ Pending(c) \in 0 .. 1
<1>1. c \in CState /\ c.out \in Word /\ c.sstate \in Style /\ c.dstate \in Style
  BY DEF Coherent, CState
<1>2. Reading(c.out, Plain) \in RState
  BY <1>1, ReadingType DEF Plain, Style
<1>3. Written(c) \in Seq(Char \X Style)
  BY <1>2 DEF Written, RState
<1>4. Len(c.out) \in Nat /\ Pending(c) \in 0 .. 1
  BY <1>1 DEF Word, Pending
<1> QED BY <1>1, <1>3, <1>4

LEMMA FollowsStep ==
  ASSUME NEW c, Coherent(c), NEW d, NEW r0 \in RState, NEW r \in RState, NEW k \in Nat,
         Follows(c, d, r0, r, k), NEW x \in Elem
  PROVE  Follows(c, Copy(d, x, Plain, Attribute), r0, Read(r, x), k + 1)
<1> DEFINE f == Copy(d, x, Plain, Attribute)
           q == Read(r, x)
<1>1. /\ Coherent(d) /\ d.sstate = r.style
      /\ Adds(Written(c), Written(d), r0.chars, r.chars)
      /\ Extends(c.out, d.out)
      /\ Len(d.out) + Pending(d) <= Len(c.out) + Pending(c) + k
  BY DEF Follows
<1>2. Plain \in Style /\ Attribute \in Style
  BY DEF Plain, Style
<1>3. CASE IsCode(x)
  <2>1. Coherent(f) /\ f = [d EXCEPT !.sstate = x]
    BY <1>1, <1>2, <1>3, CopyCode
  <2>2. f.out = d.out /\ f.sstate = x /\ f.dstate = d.dstate
    BY <1>1, <2>1, CoherentType DEF CState
  <2>3. q.style = x /\ q.chars = r.chars
    BY <1>3, ReadCases
  <2> HIDE DEF f, q
  <2>4. Len(f.out) + Pending(f) <= Len(c.out) + Pending(c) + (k + 1)
    <3>1. Pending(f) \in 0 .. 1 /\ Pending(d) \in 0 .. 1 /\ Pending(c) \in 0 .. 1
          /\ Len(d.out) \in Nat /\ Len(c.out) \in Nat
      BY <1>1, <2>1, CoherentType
    <3> QED BY <1>1, <2>2, <3>1
  <2>5. Written(f) = Written(d)
    BY <2>2 DEF Written
  <2>6. Follows(c, f, r0, q, k + 1)
    BY <1>1, <2>1, <2>2, <2>3, <2>4, <2>5 DEF Follows
  <2> QED BY <2>6 DEF f, q
<1>4. CASE ~IsCode(x)
  <2> DEFINE y == <<x, d.sstate>>
             n == IF d.dstate = d.sstate THEN 1 ELSE 2
  <2>1. Effect(d, Plain, Attribute) = d.sstate
    BY <1>1, CoherentType DEF Effect, Plain, Style
  <2>2. /\ Coherent(f) /\ f.sstate = d.sstate /\ f.dstate = d.sstate
        /\ Written(f) = Append(Written(d), y)
        /\ Len(f.out) = Len(d.out) + n
        /\ \A i \in 1 .. Len(d.out) : f.out[i] = d.out[i]
    <3>1. Wrote(d, f, x, Effect(d, Plain, Attribute))
      BY <1>1, <1>2, <1>4, CopyChar
    <3> HIDE DEF f
    <3> QED BY <2>1, <3>1 DEF Wrote, Written
  <2>3. x \in Char /\ q.style = r.style /\ q.chars = Append(r.chars, y) /\ y \in Char \X Style
    <3>1. x \in Char /\ q.style = r.style /\ q.chars = Append(r.chars, <<x, r.style>>)
      BY <1>4, ReadCases
    <3> QED BY <1>1, <3>1, CoherentType
  <2> HIDE DEF f, q, y
  <2>4. Adds(Written(c), Written(f), r0.chars, q.chars)
    <3>1. r0.chars \in Seq(Char \X Style) /\ r.chars \in Seq(Char \X Style)
      BY DEF RState
    <3>2. Written(c) \in Seq(Char \X Style) /\ Written(d) \in Seq(Char \X Style)
      BY <1>1, CoherentType
    <3>3. Adds(Written(c), Append(Written(d), y), r0.chars, Append(r.chars, y))
      BY <1>1, <2>3, <3>1, <3>2, AddsAppend
    <3> QED BY <2>2, <2>3, <3>3
  <2>5. /\ Len(d.out) \in Nat /\ Len(c.out) \in Nat /\ Len(f.out) \in Nat
        /\ c.out \in Word /\ d.out \in Word /\ f.out \in Word
        /\ Pending(d) \in 0 .. 1 /\ Pending(c) \in 0 .. 1
    BY <1>1, <2>2, CoherentType
  <2>6. Len(f.out) + Pending(f) <= Len(c.out) + Pending(c) + (k + 1)
    <3>1. Pending(f) = 0
      BY <2>2 DEF Pending
    <3>2. n = 1 + Pending(d)
      BY DEF Pending
    <3> HIDE DEF n
    <3> QED BY SMTT(40), <1>1, <2>2, <2>5, <3>1, <3>2
  <2>7. Extends(c.out, f.out)
    <3>1. Extends(d.out, f.out)
      <4>1. Len(d.out) <= Len(f.out)
        <5>1. n \in 1 .. 2
          OBVIOUS
        <5> HIDE DEF n
        <5> QED BY <2>2, <2>5, <5>1
      <4> QED BY <2>2, <4>1 DEF Extends
    <3> QED BY <1>1, <2>5, <3>1, ExtendsTransitive
  <2>8. Follows(c, f, r0, q, k + 1)
    BY <1>1, <2>2, <2>3, <2>4, <2>6, <2>7 DEF Follows
  <2> QED BY <2>8 DEF f, q
<1> QED BY <1>3, <1>4

LEMMA FollowsSelf ==
  ASSUME NEW c, Coherent(c), NEW r \in RState, c.sstate = r.style
  PROVE  Follows(c, c, r, r, 0)
<1>1. r.chars \in Seq(Char \X Style)
  BY DEF RState
<1>2. /\ c.out \in Word /\ Written(c) \in Seq(Char \X Style)
      /\ Len(c.out) \in Nat /\ Pending(c) \in 0 .. 1
  BY CoherentType
<1>3. Adds(Written(c), Written(c), r.chars, r.chars)
  BY <1>1, <1>2, AddsSelf
<1>4. Extends(c.out, c.out)
  BY <1>2, ExtendsSelf DEF Word
<1>5. Len(c.out) + Pending(c) <= Len(c.out) + Pending(c) + 0
  BY <1>2
<1> QED BY <1>3, <1>4, <1>5 DEF Follows

LEMMA CopyRangeFrom ==
  ASSUME NEW c \in CState, NEW w \in Word, NEW a \in 0 .. Len(w)
  PROVE  /\ CopyRange(c, w, a + 1, a) = c
         /\ \A k \in 0 .. (Len(w) - a) - 1 :
              CopyRange(c, w, a + 1, a + (k + 1)) =
                Copy(CopyRange(c, w, a + 1, a + k), w[a + (k + 1)], Plain, Attribute)
<1> DEFINE m == a + 1
<1>1. m \in Nat \ {0} /\ a \in Nat /\ Len(w) \in Nat /\ a = m - 1 /\ m - 1 <= a /\ a <= Len(w)
  BY DEF Word
<1> HIDE DEF m
<1>2. CopyRange(c, w, m, a) = c
  BY <1>1, CopyRangeStep
<1>3. ASSUME NEW k \in 0 .. (Len(w) - a) - 1
      PROVE  CopyRange(c, w, m, a + (k + 1)) =
               Copy(CopyRange(c, w, m, a + k), w[a + (k + 1)], Plain, Attribute)
  <2> DEFINE l == a + (k + 1)
  <2>1. l \in Nat /\ m - 1 <= l /\ l <= Len(w) /\ l >= m /\ l - 1 = a + k
    BY <1>1
  <2> HIDE DEF l
  <2>2. CopyRange(c, w, m, l) = Copy(CopyRange(c, w, m, l - 1), w[l], Plain, Attribute)
    BY <1>1, <2>1, CopyRangeStep
  <2> QED BY <2>1, <2>2 DEF l
<1> QED BY <1>2, <1>3 DEF m

LEMMA CopyRangeFollows ==
  ASSUME NEW c, Coherent(c), NEW w \in Word, NEW style \in Style,
         NEW a \in 0 .. Len(w), NEW b \in a .. Len(w),
         c.sstate = ReadFcn(w, style)[a].style
  PROVE  Follows(c, CopyRange(c, w, a + 1, b),
                 ReadFcn(w, style)[a], ReadFcn(w, style)[b], b - a)
<1> DEFINE R == ReadFcn(w, style)
           n == b - a
           d(k) == CopyRange(c, w, a + 1, a + k)
           F(k) == Follows(c, d(k), R[a], R[a + k], k)
           V == {k \in 0 .. n : F(k)}
<1>1. /\ a \in Nat /\ n \in Nat /\ c \in CState /\ a + n = b
      /\ Len(w) \in Nat /\ a + 1 \in Nat \ {0}
  BY CoherentType DEF Word
<1>2. /\ R \in [0 .. Len(w) -> RState]
      /\ \A i \in 1 .. Len(w) : R[i] = Read(R[i - 1], w[i])
  BY ReadFcnStep
<1>3. \A i \in 1 .. Len(w) : w[i] \in Elem
  BY DEF Word, Elem
<1>4. 0 \in V
  <2>1. d(0) = c
    <3>1. a + 0 = a
      BY <1>1
    <3> QED BY <1>1, <3>1, CopyRangeFrom
  <2> HIDE DEF R, d
  <2>2. R[a] \in RState
    BY <1>2
  <2>3. R[a + 0] = R[a]
    BY <1>1
  <2>4. Follows(c, c, R[a], R[a], 0)
    BY <2>2, FollowsSelf DEF R
  <2>5. 0 \in 0 .. n
    BY <1>1
  <2> HIDE DEF n
  <2> QED BY <2>1, <2>3, <2>4, <2>5
<1>5. ASSUME NEW k \in 0 .. n - 1, k \in V PROVE k + 1 \in V
  <2> DEFINE l == a + (k + 1)
  <2>1. /\ l \in 1 .. Len(w) /\ l - 1 = a + k /\ a + k \in 0 .. Len(w)
        /\ k \in Nat /\ k + 1 \in 0 .. n /\ k \in 0 .. n /\ k \in 0 .. (Len(w) - a) - 1
    BY <1>1
  <2>2. d(k + 1) = Copy(d(k), w[l], Plain, Attribute)
    BY <1>1, <2>1, CopyRangeFrom
  <2> HIDE DEF R, l, n
  <2>3. R[l] = Read(R[a + k], w[l]) /\ R[a] \in RState /\ R[a + k] \in RState
    BY <1>2, <2>1
  <2>4. Follows(c, d(k), R[a], R[a + k], k)
    BY <1>5
  <2>5. w[l] \in Elem
    BY <1>3, <2>1
  <2> HIDE DEF d
  <2>6. Follows(c, d(k + 1), R[a], R[l], k + 1)
    BY <2>1, <2>2, <2>3, <2>4, <2>5, FollowsStep
  <2> QED BY <2>1, <2>6 DEF l
<1>6. n \in V
  <2>1. n \in 0 .. n
    BY <1>1
  <2> HIDE DEF V, n
  <2> QED BY <1>1, <1>4, <1>5, <2>1, Induction
<1>7. Follows(c, d(n), R[a], R[a + n], n)
  BY <1>6
<1> HIDE DEF R, d
<1>8. Follows(c, d(n), R[a], R[b], n)
  BY <1>1, <1>7
<1>9. d(n) = CopyRange(c, w, a + 1, b)
  BY <1>1 DEF d
<1> QED BY <1>8, <1>9 DEF R

-----------------------------------------------------------------------------
(* The three copies the operations are made of: the beginning of a word,    *)
(* its rest from an offset, and all of another word.                        *)

Begun == State(Plain, Plain)

LEMMA BegunCoherent ==
  /\ Coherent(Begun) /\ Begun.out = <<>> /\ Begun.sstate = Plain
  /\ Written(Begun) = <<>> /\ Pending(Begun) = 0 /\ Len(Begun.out) = 0
<1>1. Plain \in Style /\ Begun = [out |-> <<>>, sstate |-> Plain, dstate |-> Plain]
  BY DEF Begun, State, Plain, Style
<1>2. <<>> \in Word /\ Reading(<<>>, Plain) = Unread(Plain)
  BY <1>1, ReadingEmpty
<1>3. Canonical(<<>>)
  BY DEF Canonical
<1>4. Begun \in CState
  BY <1>1, <1>2 DEF CState
<1>5. Reading(Begun.out, Plain).style = Plain /\ Written(Begun) = <<>>
  BY <1>1, <1>2 DEF Unread, Written
<1> QED BY <1>1, <1>3, <1>4, <1>5 DEF Coherent, Pending

LEMMA AddsToNothing ==
  ASSUME NEW S, NEW p \in Seq(S), NEW q, NEW t \in Seq(S), Adds(p, q, <<>>, t)
  PROVE  q = p \o t
<1>1. Len(<<>>) + 1 = 1
  OBVIOUS
<1>2. SubSeq(t, 1, Len(t)) = t
  BY SubSeqFull
<1> QED BY <1>1, <1>2 DEF Adds

LEMMA CopyAll ==
  ASSUME NEW c, Coherent(c), NEW w \in Word, NEW b \in 0 .. Len(w)
  PROVE  LET d == CopyRange(c, w, 1, b)
             r == ReadFcn(w, c.sstate)[b]
         IN  /\ Coherent(d) /\ d.sstate = r.style
             /\ Written(d) = Written(c) \o r.chars
             /\ Extends(c.out, d.out)
             /\ Len(d.out) + Pending(d) <= Len(c.out) + Pending(c) + b
<1> DEFINE s == c.sstate
           R == ReadFcn(w, s)
           d == CopyRange(c, w, 0 + 1, b)
<1>1. /\ s \in Style /\ Len(w) \in Nat /\ b \in Nat /\ Written(c) \in Seq(Char \X Style)
  BY CoherentType DEF Word
<1>2. 0 \in 0 .. Len(w) /\ b \in 0 .. Len(w)
  BY <1>1
<1>3. R[0] = Unread(s) /\ R[b] \in RState
  BY <1>1, ReadFcnStep
<1> HIDE DEF R, s
<1>4. R[0].style = s /\ R[0].chars = <<>> /\ R[b].chars \in Seq(Char \X Style)
  BY <1>3 DEF Unread, RState
<1>5. Follows(c, d, R[0], R[b], b - 0)
  <2>1. c.sstate = ReadFcn(w, s)[0].style
    BY <1>4 DEF R, s
  <2> HIDE DEF d
  <2> QED BY <1>1, <1>2, <2>1, CopyRangeFollows DEF d, R
<1> HIDE DEF d
<1>6. Written(d) = Written(c) \o R[b].chars
  <2>1. Adds(Written(c), Written(d), <<>>, R[b].chars)
    BY <1>4, <1>5 DEF Follows
  <2> QED BY <1>1, <1>4, <2>1, AddsToNothing
<1>7. b - 0 = b
  BY <1>1
<1>8. /\ Coherent(d) /\ d.sstate = R[b].style /\ Extends(c.out, d.out)
      /\ Len(d.out) + Pending(d) <= Len(c.out) + Pending(c) + b
  BY <1>5, <1>7 DEF Follows
<1>9. d = CopyRange(c, w, 1, b)
  <2>1. 0 + 1 = 1
    OBVIOUS
  <2> QED BY <2>1, Zenon DEF d
<1> QED BY <1>6, <1>8, <1>9 DEF R, s

(* The state of a copy whose source style is set.                           *)
LEMMA SetSource ==
  ASSUME NEW c, Coherent(c), NEW style \in Style
  PROVE  LET d == [c EXCEPT !.sstate = style]
         IN  /\ Coherent(d) /\ d.sstate = style /\ d.out = c.out /\ Written(d) = Written(c)
             /\ (c.sstate = style => Pending(d) = Pending(c))
<1>1. c \in CState
  BY CoherentType
<1> DEFINE d == [c EXCEPT !.sstate = style]
<1>2. d \in CState /\ d.out = c.out /\ d.dstate = c.dstate /\ d.sstate = style
  BY <1>1 DEF CState
<1> HIDE DEF d
<1>3. Coherent(d) /\ Written(d) = Written(c)
  BY <1>2 DEF Coherent, Written
<1>4. c.sstate = style => Pending(d) = Pending(c)
  BY <1>2 DEF Pending
<1> QED BY <1>2, <1>3, <1>4 DEF d

(* The characters before an offset and after it.                            *)
LEMMA Offset ==
  ASSUME NEW w \in Word, NEW a \in 0 .. Len(w)
  PROVE  LET r == ReadFcn(w, Plain)[a]
         IN  /\ StyleAt(w, a + 1) = r.style
             /\ Styled(SubSeq(w, 1, a)) = r.chars
             /\ r \in RState
             /\ Extends(r.chars, Styled(w))
<1> DEFINE R == ReadFcn(w, Plain)
           n == Len(w)
<1>1. Plain \in Style /\ n \in Nat /\ n \in 0 .. n /\ n \in a .. n
  BY DEF Plain, Style, Word
<1>2. R[a] \in RState /\ R[n] = Reading(w, Plain)
  BY <1>1, ReadFcnStep
<1>3. Extends(R[a].chars, R[n].chars)
  <2> DEFINE c == [Begun EXCEPT !.sstate = R[a].style]
  <2>1. R[a].style \in Style
    BY <1>2 DEF RState
  <2>2. Coherent(c) /\ c.sstate = R[a].style
    <3> HIDE DEF R
    <3> QED BY <2>1, BegunCoherent, SetSource
  <2> HIDE DEF c
  <2>3. Follows(c, CopyRange(c, w, a + 1, n), R[a], R[n], n - a)
    BY <1>1, <2>2, CopyRangeFollows
  <2> QED BY <2>3 DEF Follows, Adds
<1>4. StyleAt(w, a + 1) = R[a].style
  BY StyleAtIs
<1>5. Reading(SubSeq(w, 1, a), Plain) = R[a]
  BY <1>1, ReadingOfPrefix
<1> QED BY <1>2, <1>3, <1>4, <1>5 DEF Styled, StyledFrom

StyledChar == Char \X Style

LEMMA StyledType ==
  ASSUME NEW w \in Word, NEW style \in Style
  PROVE  StyledFrom(w, style) \in Seq(StyledChar)
BY ReadingType DEF StyledFrom, RState, StyledChar

LEMMA BeforeAfter ==
  ASSUME NEW w \in Word, NEW o \in Offsets(w)
  PROVE  LET r == ReadFcn(w, Plain)[o - 1]
         IN  /\ o - 1 \in 0 .. Len(w)
             /\ r \in RState /\ StyleAt(w, o) = r.style
             /\ CharsBefore(w, o) = Len(r.chars) /\ Len(r.chars) \in Nat
             /\ Before(w, o) = r.chars
             /\ Before(w, o) \in Seq(StyledChar)
             /\ After(w, o) \in Seq(StyledChar)
             /\ Styled(w) = Before(w, o) \o After(w, o)
             /\ CharsBefore(w, o) <= Len(Styled(w))
<1> DEFINE a == o - 1
           r == ReadFcn(w, Plain)[a]
           s == Styled(w)
<1>1. a \in 0 .. Len(w) /\ a + 1 = o /\ o - 1 = a
  BY DEF Offsets, Word
<1> HIDE DEF a
<1>2. StyleAt(w, a + 1) = r.style /\ Styled(SubSeq(w, 1, a)) = r.chars /\ r \in RState
      /\ Extends(r.chars, s)
  BY <1>1, Offset
<1>3. s \in Seq(StyledChar) /\ r.chars \in Seq(StyledChar)
  BY <1>2, StyledType DEF Styled, RState, StyledChar, Plain, Style
<1> HIDE DEF r, s
<1>4. CharsBefore(w, o) = Len(r.chars)
  BY <1>1, <1>2 DEF CharsBefore
<1> DEFINE m == Len(r.chars)
<1>5. m \in Nat /\ Len(s) \in Nat /\ m <= Len(s) /\ \A i \in 1 .. m : s[i] = r.chars[i]
  BY <1>2, <1>3 DEF Extends
<1>6. SubSeq(s, 1, m) = r.chars
  <2> DEFINE t == SubSeq(s, 1, m)
  <2>1. \A i \in 1 .. m : s[i] \in StyledChar
    BY <1>3, <1>5
  <2>2. 1 \in Int /\ m \in Int
    BY <1>5
  <2> HIDE DEF m
  <2>3. /\ t \in Seq(StyledChar) /\ Len(t) = (IF 1 <= m THEN m - 1 + 1 ELSE 0)
        /\ \A i \in 1 .. m - 1 + 1 : t[i] = s[1 + i - 1]
    BY <2>1, <2>2, SubSeqProperties
  <2> HIDE DEF t
  <2>4. Len(t) = m
    BY <1>5, <2>3
  <2>5. \A i \in 1 .. Len(t) : t[i] = r.chars[i]
    BY <1>5, <2>3, <2>4
  <2>6. Len(t) = Len(r.chars)
    BY <2>4 DEF m
  <2> QED BY <1>3, <2>3, <2>5, <2>6, SeqEqual DEF t
<1>7. SubSeq(s, m + 1, Len(s)) \in Seq(StyledChar)
  <2>1. \A i \in m + 1 .. Len(s) : s[i] \in StyledChar
    BY <1>3, <1>5
  <2> QED BY <1>5, <2>1, SubSeqProperties
<1>8. SubSeq(s, 1, m) \o SubSeq(s, m + 1, Len(s)) = s
  <2>1. /\ 1 \in 1 .. Len(s) + 1 /\ m \in 1 - 1 .. Len(s) /\ Len(s) \in m .. Len(s)
    BY <1>5
  <2>2. SubSeq(s, 1, m) \o SubSeq(s, m + 1, Len(s)) = SubSeq(s, 1, Len(s))
    BY <1>3, <2>1, ConcatAdjacentSubSeq
  <2> QED BY <1>3, <2>2, SubSeqFull
<1>9. Before(w, o) = r.chars /\ After(w, o) = SubSeq(s, m + 1, Len(s))
  BY <1>4, <1>6 DEF Before, After, s
<1> HIDE DEF m
<1>10. s = Before(w, o) \o After(w, o)
  BY <1>6, <1>8, <1>9
<1> QED BY <1>1, <1>2, <1>3, <1>4, <1>5, <1>7, <1>9, <1>10 DEF r, s, m

LEMMA CopyBefore ==
  ASSUME NEW w \in Word, NEW o \in Offsets(w)
  PROVE  LET d == CopyRange(Begun, w, 1, o - 1)
         IN  /\ Coherent(d) /\ d.sstate = StyleAt(w, o)
             /\ Written(d) = Before(w, o)
             /\ Len(d.out) + Pending(d) <= o - 1
<1> DEFINE a == o - 1
           d == CopyRange(Begun, w, 1, a)
           r == ReadFcn(w, Plain)[a]
<1>1. /\ a \in 0 .. Len(w) /\ r \in RState /\ StyleAt(w, o) = r.style /\ Before(w, o) = r.chars
  BY BeforeAfter
<1>2. a \in Nat
  BY <1>1
<1> HIDE DEF a
<1>3. /\ Coherent(d) /\ d.sstate = r.style
      /\ Written(d) = Written(Begun) \o r.chars
      /\ Len(d.out) + Pending(d) <= Len(Begun.out) + Pending(Begun) + a
  BY <1>1, BegunCoherent, CopyAll
<1>4. <<>> \o r.chars = r.chars
  BY <1>1, ConcatEmptySeq DEF RState
<1> HIDE DEF d, r
<1>5. Written(d) = r.chars
  BY <1>3, <1>4, BegunCoherent
<1>6. Len(d.out) + Pending(d) <= a
  BY <1>2, <1>3, BegunCoherent
<1> QED BY <1>1, <1>3, <1>5, <1>6 DEF d, a

LEMMA CopyAfter ==
  ASSUME NEW c, Coherent(c), NEW w \in Word, NEW o \in Offsets(w), c.sstate = StyleAt(w, o)
  PROVE  LET d == CopyRange(c, w, o, Len(w))
         IN  /\ Coherent(d)
             /\ Written(d) = Written(c) \o After(w, o)
             /\ Extends(c.out, d.out)
             /\ Len(d.out) <= Len(c.out) + Pending(c) + (Len(w) - (o - 1))
<1> DEFINE a == o - 1
           n == Len(w)
           R == ReadFcn(w, Plain)
           d == CopyRange(c, w, a + 1, n)
<1>1. /\ a \in 0 .. n /\ StyleAt(w, o) = R[a].style /\ CharsBefore(w, o) = Len(R[a].chars)
  BY BeforeAfter
<1>2. /\ n \in Nat /\ n \in a .. n /\ Plain \in Style /\ a + 1 = o
  BY <1>1 DEF Word, Plain, Style, Offsets
<1> HIDE DEF a, R
<1>3. R[n] = Reading(w, Plain)
  BY <1>2, ReadFcnStep DEF R
<1>4. Follows(c, d, R[a], R[n], n - a)
  <2>1. c.sstate = ReadFcn(w, Plain)[a].style
    BY <1>1 DEF R
  <2> HIDE DEF d
  <2> QED BY <1>1, <1>2, <2>1, CopyRangeFollows DEF d, R
<1> HIDE DEF d
<1>5. Written(d) = Written(c) \o After(w, o)
  BY <1>1, <1>3, <1>4 DEF Follows, Adds, After, Styled, StyledFrom
<1>6. Len(d.out) <= Len(c.out) + Pending(c) + (n - a)
  <2>1. /\ Coherent(d) /\ Len(d.out) + Pending(d) <= Len(c.out) + Pending(c) + (n - a)
    BY <1>4 DEF Follows
  <2>2. Len(d.out) \in Nat /\ Pending(d) \in 0 .. 1 /\ Len(c.out) \in Nat /\ Pending(c) \in 0 .. 1
    BY <2>1, CoherentType
  <2> QED BY <1>1, <1>2, <2>1, <2>2
<1>7. d = CopyRange(c, w, o, n)
  BY <1>2 DEF d
<1> HIDE DEF n
<1>8. Coherent(d) /\ Extends(c.out, d.out)
  BY <1>4 DEF Follows
<1> QED BY <1>5, <1>6, <1>7, <1>8 DEF a, n

-----------------------------------------------------------------------------
(* Deleting.                                                                *)

LEMMA Deleted ==
  ASSUME NEW w \in Word, NEW first \in Offsets(w), NEW next \in Offsets(w), first <= next
  PROVE  LET r == DeleteFromWord(w, first, next)
         IN  /\ r \in Word
             /\ Styled(r) = Before(w, first) \o After(w, next)
             /\ Canonical(r)
             /\ Len(r) <= Len(w)
<1> DEFINE before == CopyRange(Begun, w, 1, first - 1)
           c == [before EXCEPT !.sstate = StyleAt(w, next)]
           d == CopyRange(c, w, next, Len(w))
<1>1. first \in 1 .. Len(w) + 1 /\ next \in 1 .. Len(w) + 1 /\ Len(w) \in Nat
  BY DEF Offsets, Word
<1>2. DeleteFromWord(w, first, next) = d.out
  <2>1. (IF next > first THEN next ELSE first) = next /\ ~(first > Len(w) + 1)
    BY <1>1
  <2> QED BY <2>1 DEF DeleteFromWord, Begun
<1>3. /\ Coherent(before) /\ before.sstate = StyleAt(w, first)
      /\ Written(before) = Before(w, first)
      /\ Len(before.out) + Pending(before) <= first - 1
  BY CopyBefore
<1>4. StyleAt(w, next) \in Style
  BY BeforeAfter DEF RState
<1> HIDE DEF before
<1>5. /\ Coherent(c) /\ c.sstate = StyleAt(w, next) /\ c.out = before.out
      /\ Written(c) = Written(before)
      /\ (before.sstate = StyleAt(w, next) => Pending(c) = Pending(before))
  BY <1>3, <1>4, SetSource
<1> HIDE DEF c
<1>6. /\ Coherent(d) /\ Written(d) = Written(c) \o After(w, next)
      /\ Len(d.out) <= Len(c.out) + Pending(c) + (Len(w) - (next - 1))
  BY <1>5, CopyAfter
<1> HIDE DEF d
<1>7. Len(d.out) <= Len(w)
  <2>1. /\ Len(d.out) \in Nat /\ Pending(c) \in 0 .. 1 /\ Pending(before) \in 0 .. 1
        /\ Len(before.out) \in Nat
    BY <1>3, <1>5, <1>6, CoherentType
  <2>2. Len(before.out) + Pending(c) <= next - 1
    <3>1. CASE first = next
      BY <1>3, <1>5, <3>1
    <3>2. CASE first # next
      BY <1>1, <1>3, <2>1, <3>2
    <3> QED BY <3>1, <3>2
  <2> DEFINE e == Len(d.out)
             b == Len(before.out)
             p == Pending(c)
  <2>3. /\ e \in Nat /\ b \in Nat /\ p \in 0 .. 1 /\ b + p <= next - 1
        /\ e <= b + p + (Len(w) - (next - 1)) /\ next \in Nat /\ Len(w) \in Nat
    BY <1>1, <1>5, <1>6, <2>1, <2>2
  <2> HIDE DEF e, b, p
  <2>4. e <= Len(w)
    BY <2>3
  <2> QED BY <2>4 DEF e
<1>8. d.out \in Word /\ Canonical(d.out)
  BY <1>6, CoherentType DEF Coherent
<1>9. Styled(d.out) = Before(w, first) \o After(w, next)
  BY <1>3, <1>5, <1>6 DEF Written, Styled, StyledFrom
<1> QED BY <1>2, <1>7, <1>8, <1>9

-----------------------------------------------------------------------------
(* Inserting.                                                               *)

LEMMA Inserted ==
  ASSUME NEW w \in Word, NEW ins \in Word, NEW o \in Offsets(w), NEW style \in Style
  PROVE  LET r == InsertIntoWord(w, ins, o, style)
         IN  /\ r.word \in Word
             /\ Styled(r.word) = Before(w, o) \o StyledFrom(ins, style) \o After(w, o)
             /\ CharsBefore(r.word, r.stop) = CharsBefore(w, o) + Len(StyledFrom(ins, style))
             /\ r.stop \in Offsets(r.word)
             /\ Canonical(r.word)
             /\ Len(r.word) <= Len(w) + Len(ins) + 2
<1> DEFINE before == CopyRange(Begun, w, 1, o - 1)
           b1 == [before EXCEPT !.sstate = style]
           inside == CopyRange(b1, ins, 1, Len(ins))
           i1 == [inside EXCEPT !.sstate = StyleAt(w, o)]
           d == CopyRange(i1, w, o, Len(w))
           r == InsertIntoWord(w, ins, o, style)
           t == StyledFrom(ins, style)
<1>1. o \in 1 .. Len(w) + 1 /\ Len(w) \in Nat /\ Len(ins) \in Nat /\ Len(ins) \in 0 .. Len(ins)
  BY DEF Offsets, Word
<1>2. r = [word |-> d.out, stop |-> Len(inside.out) + 1]
  BY Zenon DEF InsertIntoWord, Begun
<1>3. /\ Coherent(before) /\ Written(before) = Before(w, o)
      /\ Len(before.out) + Pending(before) <= o - 1
  BY CopyBefore
<1>4. StyleAt(w, o) \in Style
  BY BeforeAfter DEF RState
<1> HIDE DEF before
<1>5. Coherent(b1) /\ b1.sstate = style /\ b1.out = before.out /\ Written(b1) = Written(before)
  BY <1>3, SetSource
<1> HIDE DEF b1
<1>6. /\ Coherent(inside)
      /\ Written(inside) = Written(b1) \o ReadFcn(ins, style)[Len(ins)].chars
      /\ Len(inside.out) + Pending(inside) <= Len(b1.out) + Pending(b1) + Len(ins)
  BY <1>1, <1>5, CopyAll
<1>7. ReadFcn(ins, style)[Len(ins)].chars = t
  BY ReadFcnStep DEF StyledFrom
<1> HIDE DEF inside, t
<1>8. Coherent(i1) /\ i1.sstate = StyleAt(w, o) /\ i1.out = inside.out
      /\ Written(i1) = Written(inside)
  BY <1>4, <1>6, SetSource
<1> HIDE DEF i1
<1>9. /\ Coherent(d) /\ Written(d) = Written(i1) \o After(w, o)
      /\ Extends(i1.out, d.out)
      /\ Len(d.out) <= Len(i1.out) + Pending(i1) + (Len(w) - (o - 1))
  BY <1>8, CopyAfter
<1> HIDE DEF d
<1>10. d.out \in Word /\ Canonical(d.out)
  BY <1>9, CoherentType DEF Coherent
<1>11. Written(inside) = Before(w, o) \o t
  BY <1>3, <1>5, <1>6, <1>7
<1>12. Styled(d.out) = Before(w, o) \o t \o After(w, o)
  BY <1>8, <1>9, <1>11 DEF Written, Styled, StyledFrom
<1>13. Len(d.out) <= Len(w) + Len(ins) + 2
  <2>1. /\ Len(d.out) \in Nat /\ Pending(i1) \in 0 .. 1 /\ Pending(inside) \in 0 .. 1
        /\ Pending(b1) \in 0 .. 1 /\ Pending(before) \in 0 .. 1
        /\ Len(before.out) \in Nat /\ Len(inside.out) \in Nat
    BY <1>3, <1>5, <1>6, <1>8, <1>9, CoherentType
  <2>2. Len(inside.out) <= o + Len(ins)
    <3> DEFINE a == Len(before.out)
               b == Len(inside.out)
               p == Pending(b1)
               q == Pending(inside)
    <3>1. /\ a \in Nat /\ b \in Nat /\ p \in 0 .. 1 /\ q \in 0 .. 1 /\ o \in Nat /\ Len(ins) \in Nat
          /\ a + Pending(before) <= o - 1 /\ Pending(before) \in 0 .. 1
          /\ b + q <= a + p + Len(ins)
      BY <1>1, <1>3, <1>5, <1>6, <2>1
    <3> HIDE DEF a, b, p, q
    <3>2. b <= o + Len(ins)
      BY <3>1
    <3> QED BY <3>2 DEF b
  <2> DEFINE e == Len(d.out)
             i == Len(inside.out)
             p == Pending(i1)
             k == Len(w) - (o - 1)
  <2>3. /\ e \in Nat /\ i \in Nat /\ p \in 0 .. 1 /\ i <= o + Len(ins)
        /\ e <= i + p + k /\ k = Len(w) - (o - 1)
        /\ o \in Nat /\ Len(ins) \in Nat /\ Len(w) \in Nat
    BY <1>1, <1>8, <1>9, <2>1, <2>2
  <2> HIDE DEF e, i, p, k
  <2>4. e <= Len(w) + Len(ins) + 2
    BY <2>3
  <2> QED BY <2>4 DEF e
<1>14. CharsBefore(d.out, Len(inside.out) + 1) = CharsBefore(w, o) + Len(t)
  <2> DEFINE n == Len(inside.out)
             u == d.out
  <2>1. inside.out \in Word /\ n \in Nat /\ Len(u) \in Nat /\ u \in Word
    BY <1>6, <1>10, CoherentType DEF Word
  <2>2. n <= Len(u) /\ \A i \in 1 .. n : u[i] = inside.out[i]
    BY <1>8, <1>9 DEF Extends
  <2>3. SubSeq(u, 1, n) = inside.out
    <3> HIDE DEF n, u
    <3>1. n \in 0 .. Len(u)
      BY <2>1, <2>2
    <3>2. /\ SubSeq(u, 1, n) \in Word /\ Len(SubSeq(u, 1, n)) = n
          /\ \A i \in 1 .. n : SubSeq(u, 1, n)[i] = u[i]
      BY <2>1, <3>1, PrefixType
    <3>3. SubSeq(u, 1, n) \in Seq(Char \cup Style) /\ inside.out \in Seq(Char \cup Style)
      BY <2>1, <3>2 DEF Word
    <3>4. Len(SubSeq(u, 1, n)) = Len(inside.out)
      BY <3>2 DEF n
    <3>5. \A i \in 1 .. Len(SubSeq(u, 1, n)) : SubSeq(u, 1, n)[i] = inside.out[i]
      BY <2>2, <3>2
    <3> QED BY <3>3, <3>4, <3>5, SeqEqual
  <2>4. (n + 1) - 1 = n
    BY <2>1
  <2>5. CharsBefore(u, n + 1) = Len(Styled(inside.out))
    <3> HIDE DEF n
    <3> QED BY <2>3, <2>4 DEF CharsBefore
  <2>6. Styled(inside.out) = Before(w, o) \o t
    BY <1>11 DEF Written, Styled, StyledFrom
  <2>7. Before(w, o) \in Seq(StyledChar) /\ t \in Seq(StyledChar)
        /\ Len(Before(w, o)) = CharsBefore(w, o)
    BY BeforeAfter, StyledType DEF t
  <2>8. Len(Before(w, o) \o t) = Len(Before(w, o)) + Len(t)
    BY <2>7, ConcatProperties
  <2> QED BY <2>5, <2>6, <2>7, <2>8
<1>15. Len(inside.out) + 1 \in Offsets(d.out)
  <2>1. Len(inside.out) \in Nat /\ Len(d.out) \in Nat
    BY <1>6, <1>9, CoherentType
  <2>2. Len(inside.out) <= Len(d.out)
    BY <1>8, <1>9 DEF Extends
  <2> QED BY <2>1, <2>2 DEF Offsets
<1> QED BY <1>2, <1>10, <1>12, <1>13, <1>14, <1>15 DEF t

LEMMA Literals ==
  ASSUME NEW S, NEW x \in S, NEW y \in S
  PROVE  Append(<<>>, x) = <<x>> /\ Append(<<x>>, y) = <<x, y>>
<1>1. Append(<<>>, x) = <<x>>
  <2>1. <<>> \o <<x>> = <<x>>
    BY ConcatEmptySeq
  <2>2. Append(<<>>, x) = <<>> \o <<x>>
    BY AppendIsConcat
  <2> QED BY <2>1, <2>2
<1>2. Append(<<x>>, y) = <<x, y>>
  <2> DEFINE h == <<x>>
             u == Append(h, y)
             v == <<x, y>>
  <2>1. v \in Seq(S) /\ Len(v) = 2 /\ v[1] = x /\ v[2] = y
    OBVIOUS
  <2>2. h \in Seq(S) /\ Len(h) = 1 /\ h[1] = x
    OBVIOUS
  <2> HIDE DEF h, v
  <2>5. /\ u \in Seq(S) /\ Len(u) = Len(h) + 1 /\ u[Len(h) + 1] = y
        /\ \A i \in 1 .. Len(h) : u[i] = h[i]
    <3>1. h \in Seq(S) /\ y \in S
      BY <2>2
    <3> QED BY <3>1, AppendProperties
  <2> HIDE DEF u
  <2>3. u \in Seq(S) /\ Len(u) = 2 /\ u[1] = x /\ u[2] = y
    BY <2>2, <2>5
  <2>4. \A i \in 1 .. Len(u) : u[i] = v[i]
    BY <2>1, <2>3
  <2> QED BY <2>1, <2>3, <2>4, SeqEqual DEF h, u, v
<1> QED BY <1>1, <1>2

(* A code adds no character.                                                *)
LEMMA AppendCode ==
  ASSUME NEW w \in Word, NEW style \in Style, NEW x \in Style
  PROVE  /\ Append(w, x) \in Word
         /\ Reading(Append(w, x), style).style = x
         /\ Reading(Append(w, x), style).chars = Reading(w, style).chars
<1> DEFINE r == Reading(w, style)
<1>1. x \in Elem /\ IsCode(x)
  BY CharAssumption DEF Elem, IsCode
<1>2. r \in RState /\ Append(w, x) \in Word /\ Reading(Append(w, x), style) = Read(r, x)
  BY <1>1, ReadingType, ReadingAppend
<1> HIDE DEF r
<1>3. Read(r, x).style = x /\ Read(r, x).chars = r.chars
  BY <1>1, <1>2, ReadCases
<1> QED BY <1>2, <1>3 DEF r

(* What is written for a style hint, and taken back, adds none.             *)
LEMMA HintRead ==
  ASSUME NEW hint \in Style, NEW style \in Style
  PROVE  /\ StylePrime(hint) \in Word /\ Len(StylePrime(hint)) \in 1 .. 2
         /\ Reading(StylePrime(hint), style) = Unread(Plain)
<1>1. Plain \in Style /\ <<>> \in Word /\ Reading(<<>>, style).chars = <<>>
  BY ReadingEmpty DEF Plain, Style, Unread
<1>2. ASSUME NEW w \in Word, Reading(w, style).chars = <<>>
      PROVE  Append(w, Plain) \in Word /\ Reading(Append(w, Plain), style) = Unread(Plain)
  <2> DEFINE q == Reading(Append(w, Plain), style)
  <2>1. Append(w, Plain) \in Word /\ q.style = Plain /\ q.chars = <<>>
    BY <1>1, <1>2, AppendCode
  <2>2. q \in RState
    BY <2>1, ReadingType
  <2> HIDE DEF q
  <2>3. q = Unread(Plain)
    BY <2>1, <2>2 DEF RState, Unread
  <2> QED BY <2>1, <2>3 DEF q
<1>3. CASE hint = Plain
  <2>1. Append(<<>>, Plain) = <<Plain>>
    BY <1>1, Literals
  <2>2. StylePrime(hint) = <<Plain>> /\ Len(<<Plain>>) = 1
    BY <1>3 DEF StylePrime
  <2> DEFINE p == <<Plain>>
  <2> HIDE DEF p
  <2>3. p \in Word /\ Reading(p, style) = Unread(Plain)
    BY <1>1, <1>2, <2>1 DEF p
  <2> QED BY <2>2, <2>3 DEF p
<1>4. CASE hint # Plain
  <2>1. Append(<<>>, hint) = <<hint>> /\ Append(<<hint>>, Plain) = <<hint, Plain>>
    BY <1>1, Literals
  <2> DEFINE h == <<hint>>
             p == <<hint, Plain>>
  <2>2. StylePrime(hint) = p /\ Len(p) = 2
    BY <1>4 DEF StylePrime
  <2> HIDE DEF h, p
  <2>3. h \in Word /\ Reading(h, style).chars = <<>>
    <3>1. /\ Append(<<>>, hint) \in Word
          /\ Reading(Append(<<>>, hint), style).chars = Reading(<<>>, style).chars
      BY <1>1, AppendCode
    <3> QED BY <1>1, <2>1, <3>1 DEF h
  <2>4. p \in Word /\ Reading(p, style) = Unread(Plain)
    BY <1>2, <2>1, <2>3 DEF h, p
  <2> QED BY <2>2, <2>4
<1> QED BY <1>3, <1>4

(* One character is inserted, whether a new word was begun for it or not.   *)
LEMMA OneChar ==
  ASSUME NEW c \in Char, NEW hint \in Style, NEW ins \in {<<c>>, StylePrime(hint) \o <<c>>}
  PROVE  ins \in Word /\ Len(StyledFrom(ins, hint)) = 1 /\ Len(ins) \in 1 .. 3
<1>1. c \in Elem /\ ~IsCode(c)
  BY DEF Elem, IsCode
<1>2. ASSUME NEW w \in Word, Reading(w, hint).chars = <<>>, Len(w) \in 0 .. 2
      PROVE  LET u == w \o <<c>>
             IN  u \in Word /\ Len(StyledFrom(u, hint)) = 1 /\ Len(u) \in 1 .. 3
  <2> DEFINE r == Reading(w, hint)
             u == Append(w, c)
  <2>1. r \in RState /\ u \in Word /\ Reading(u, hint) = Read(r, c)
    BY <1>1, ReadingType, ReadingAppend
  <2>2. w \o <<c>> = u /\ Len(u) = Len(w) + 1
    BY <1>1, AppendIsConcat, AppendProperties DEF Word, Elem
  <2>3. Reading(u, hint).chars = Append(<<>>, <<c, r.style>>)
    <3>1. r.chars = <<>>
      BY <1>2
    <3> HIDE DEF r, u
    <3>2. Read(r, c).chars = Append(r.chars, <<c, r.style>>)
      BY <1>1, <2>1, ReadCases
    <3> QED BY <2>1, <3>1, <3>2
  <2>4. Len(Append(<<>>, <<c, r.style>>)) = 1
    OBVIOUS
  <2> HIDE DEF r, u
  <2>5. Len(u) \in 1 .. 3
    BY <1>2, <2>2
  <2> QED BY <2>1, <2>2, <2>3, <2>4, <2>5 DEF StyledFrom
<1>3. <<>> \in Word /\ Reading(<<>>, hint).chars = <<>> /\ Len(<<>>) \in 0 .. 2
  BY ReadingEmpty DEF Unread
<1>4. <<>> \o <<c>> = <<c>>
  BY ConcatEmptySeq
<1>5. CASE ins = <<c>>
  BY <1>2, <1>3, <1>4, <1>5
<1>6. CASE ins = StylePrime(hint) \o <<c>>
  <2> DEFINE p == StylePrime(hint)
  <2>1. p \in Word /\ Reading(p, hint).chars = <<>> /\ Len(p) \in 0 .. 2
    BY HintRead DEF Unread
  <2> HIDE DEF p
  <2> QED BY <1>2, <1>6, <2>1 DEF p
<1> QED BY <1>5, <1>6

-----------------------------------------------------------------------------
(* Splitting and joining.                                                   *)

(* f is q with p in front of it.                                            *)
Prefixed(f, p, q) == f.style = q.style /\ f.chars = p \o q.chars

LEMMA PrefixedRead ==
  ASSUME NEW f \in RState, NEW q \in RState, NEW p \in Seq(StyledChar), Prefixed(f, p, q),
         NEW x \in Elem
  PROVE  Prefixed(Read(f, x), p, Read(q, x))
<1>1. f.style = q.style /\ f.chars = p \o q.chars
  BY DEF Prefixed
<1>2. CASE IsCode(x)
  <2> DEFINE g == Read(f, x)
             h == Read(q, x)
  <2>1. g.style = x /\ g.chars = f.chars
    BY <1>2, ReadCases
  <2>2. h.style = x /\ h.chars = q.chars
    BY <1>2, ReadCases
  <2> HIDE DEF g, h
  <2>3. g.style = h.style /\ g.chars = p \o h.chars
    BY <1>1, <2>1, <2>2, Zenon
  <2> QED BY <2>3, Zenon DEF Prefixed, g, h
<1>3. CASE ~IsCode(x)
  <2> DEFINE y == <<x, q.style>>
             t == q.chars
  <2>1. x \in Char /\ Read(f, x).style = Read(q, x).style
        /\ Read(f, x).chars = Append(p \o t, y) /\ Read(q, x).chars = Append(t, y)
    <3>1. /\ x \in Char /\ Read(f, x).style = f.style
          /\ Read(f, x).chars = Append(f.chars, <<x, f.style>>)
      BY <1>3, ReadCases
    <3>2. /\ Read(q, x).style = q.style
          /\ Read(q, x).chars = Append(q.chars, <<x, q.style>>)
      BY <1>3, ReadCases
    <3> QED BY <1>1, <3>1, <3>2
  <2>2. y \in StyledChar /\ t \in Seq(StyledChar)
    BY <2>1 DEF RState, StyledChar
  <2> HIDE DEF y, t
  <2>3. Append(p \o t, y) = p \o Append(t, y)
    <3>1. AppendsBehind(p, t, y)
      BY <2>2, AppendToConcat
    <3> QED BY <3>1, Zenon DEF AppendsBehind
  <2> QED BY <2>1, <2>3 DEF Prefixed
<1> QED BY <1>2, <1>3

LEMMA ReadingConcat ==
  ASSUME NEW u \in Word, NEW v \in Word, NEW style \in Style
  PROVE  LET r == Reading(u, style)
             q == Reading(v, r.style)
         IN  u \o v \in Word /\ Reading(u \o v, style).chars = r.chars \o q.chars
<1> DEFINE w == u \o v
           r == Reading(u, style)
           F == ReadFcn(w, style)
           Q == ReadFcn(v, r.style)
           m == Len(u)
           n == Len(v)
           V == {k \in 0 .. n : Prefixed(F[m + k], r.chars, Q[k])}
<1>1. /\ w \in Word /\ Len(w) = m + n /\ m \in Nat /\ n \in Nat
      /\ \A i \in 1 .. m : w[i] = u[i]
      /\ \A k \in 1 .. n : w[m + k] = v[k]
      /\ \A k \in 1 .. n : v[k] \in Elem
  <2>1. m \in Nat /\ n \in Nat /\ \A k \in 1 .. n : v[k] \in Elem
    BY DEF Word, Elem
  <2>2. /\ w \in Seq(Char \cup Style) /\ Len(w) = m + n
        /\ \A i \in 1 .. m + n : w[i] = IF i <= m THEN u[i] ELSE v[i - m]
    BY ConcatProperties DEF Word
  <2> HIDE DEF w, m, n
  <2>3. \A i \in 1 .. m : w[i] = u[i]
    BY <2>1, <2>2
  <2>4. ASSUME NEW k \in 1 .. n PROVE w[m + k] = v[k]
    <3>1. m + k \in 1 .. m + n /\ ~(m + k <= m) /\ (m + k) - m = k
      BY <2>1
    <3> QED BY <2>2, <3>1
  <2> QED BY <2>1, <2>2, <2>3, <2>4 DEF Word
<1>2. r \in RState /\ r.style \in Style /\ r.chars \in Seq(StyledChar)
  BY ReadingType DEF RState, StyledChar
<1> HIDE DEF w
<1>3. /\ F \in [0 .. Len(w) -> RState]
      /\ \A i \in 1 .. Len(w) : F[i] = Read(F[i - 1], w[i])
      /\ Reading(w, style) = F[Len(w)]
  BY <1>1, ReadFcnStep
<1>4. F[m] = r
  <2>1. m <= Len(u) /\ m <= Len(w)
    BY <1>1
  <2>2. F[m] = ReadFcn(u, style)[m]
    BY <1>1, <2>1, ReadingOfSame
  <2> QED BY <2>2, ReadFcnStep
<1> HIDE DEF r, F
<1>5. /\ Q \in [0 .. n -> RState] /\ Q[0] = Unread(r.style)
      /\ \A i \in 1 .. n : Q[i] = Read(Q[i - 1], v[i])
      /\ Reading(v, r.style) = Q[n]
  BY <1>2, ReadFcnStep
<1> HIDE DEF Q, m, n
<1>6. 0 \in V
  <2>1. Q[0].style = r.style /\ Q[0].chars = <<>> /\ m + 0 = m /\ 0 \in 0 .. n
    BY <1>1, <1>5 DEF Unread
  <2>2. r.chars \o <<>> = r.chars
    BY <1>2, ConcatEmptySeq
  <2>3. Prefixed(F[m + 0], r.chars, Q[0])
    BY <1>4, <2>1, <2>2 DEF Prefixed
  <2> QED BY <2>1, <2>3
<1>7. ASSUME NEW k \in 0 .. n - 1, k \in V PROVE k + 1 \in V
  <2> DEFINE x == v[k + 1]
             f == F[m + k]
             q == Q[k]
             l == m + (k + 1)
  <2>1. /\ k + 1 \in 1 .. n /\ k + 1 \in 0 .. n /\ (k + 1) - 1 = k /\ k \in 0 .. n
        /\ l \in 1 .. Len(w) /\ l - 1 = m + k /\ m + k \in 0 .. Len(w)
    BY <1>1
  <2>2. Q[k + 1] = Read(q, x) /\ q \in RState /\ x \in Elem
    BY <1>1, <1>5, <2>1
  <2>3. w[l] = x
    BY <1>1, <2>1
  <2>4. F[l] = Read(f, x) /\ f \in RState
    BY <1>3, <2>1, <2>3
  <2>5. Prefixed(f, r.chars, q)
    BY <1>7
  <2> HIDE DEF x, f, q, l
  <2>6. Prefixed(F[l], r.chars, Q[k + 1])
    BY <1>2, <2>2, <2>4, <2>5, PrefixedRead
  <2> QED BY <2>1, <2>6 DEF l
<1>8. n \in V
  <2>1. n \in 0 .. n
    BY <1>1
  <2> HIDE DEF V
  <2> QED BY <1>1, <1>6, <1>7, <2>1, Induction
<1>9. Reading(w, style).chars = r.chars \o Q[n].chars
  BY <1>1, <1>3, <1>8 DEF Prefixed
<1> QED BY <1>1, <1>5, <1>9 DEF w, r

(* Before the first character and after the last there is nothing.          *)
LEMMA Ends ==
  ASSUME NEW w \in Word
  PROVE  /\ 1 \in Offsets(w) /\ Len(w) + 1 \in Offsets(w)
         /\ Before(w, 1) = <<>> /\ After(w, 1) = Styled(w)
         /\ Before(w, Len(w) + 1) = Styled(w) /\ After(w, Len(w) + 1) = <<>>
<1> DEFINE n == Len(w)
           s == Styled(w)
<1>1. n \in Nat /\ 1 \in Offsets(w) /\ n + 1 \in Offsets(w) /\ Plain \in Style
      /\ 1 - 1 = 0 /\ (n + 1) - 1 = n
  BY DEF Word, Offsets, Plain, Style
<1>2. ReadFcn(w, Plain)[0] = Unread(Plain) /\ ReadFcn(w, Plain)[n].chars = s
  BY <1>1, ReadFcnStep DEF Styled, StyledFrom
<1> HIDE DEF n, s
<1>3. Before(w, 1) = <<>>
  BY <1>1, <1>2, BeforeAfter DEF Unread
<1>4. Before(w, n + 1) = s
  BY <1>1, <1>2, BeforeAfter
<1>5. /\ After(w, 1) \in Seq(StyledChar) /\ After(w, n + 1) \in Seq(StyledChar)
      /\ s = Before(w, 1) \o After(w, 1) /\ s = Before(w, n + 1) \o After(w, n + 1)
      /\ s \in Seq(StyledChar)
  BY <1>1, BeforeAfter, StyledType DEF s, Styled
<1>6. After(w, 1) = s
  BY <1>3, <1>5, ConcatEmptySeq
<1>7. After(w, n + 1) = <<>>
  BY <1>4, <1>5, ConcatEqualIffEmpty
<1> QED BY <1>1, <1>3, <1>4, <1>6, <1>7 DEF n, s

(* The style hint in front of a new word leaves its characters alone.       *)
LEMMA Hinted ==
  ASSUME NEW w \in Word, NEW hint \in Style
  PROVE  StylePrime(hint) \o w \in Word /\ Styled(StylePrime(hint) \o w) = Styled(w)
<1> DEFINE p == StylePrime(hint)
           r == Reading(p, Plain)
<1>1. Plain \in Style
  BY DEF Plain, Style
<1>2. p \in Word /\ r = Unread(Plain)
  BY <1>1, HintRead
<1> HIDE DEF p
<1>3. p \o w \in Word /\ Reading(p \o w, Plain).chars = r.chars \o Reading(w, r.style).chars
  BY <1>1, <1>2, ReadingConcat
<1>5. r.style = Plain /\ r.chars = <<>>
  BY <1>2 DEF Unread
<1>4. <<>> \o Reading(w, Plain).chars = Reading(w, Plain).chars
  BY <1>1, StyledType, ConcatEmptySeq DEF StyledFrom
<1> HIDE DEF r
<1> QED BY <1>3, <1>4, <1>5 DEF p, Styled, StyledFrom

LEMMA Joined ==
  ASSUME NEW w \in Word, NEW o \in Offsets(w), NEW hint \in Style
  PROVE  LET left  == DeleteFromWord(w, o, Len(w) + 1)
             right == StylePrime(hint) \o DeleteFromWord(w, 1, o)
         IN  Styled(InsertIntoWord(right, left, 1, Plain).word) = Styled(w)
<1> DEFINE left  == DeleteFromWord(w, o, Len(w) + 1)
           tail  == DeleteFromWord(w, 1, o)
           right == StylePrime(hint) \o tail
<1>1. 1 \in Offsets(w) /\ Len(w) + 1 \in Offsets(w) /\ 1 <= o /\ o <= Len(w) + 1
      /\ Plain \in Style
  BY Ends DEF Offsets, Plain, Style
<1>2. /\ Before(w, o) \in Seq(StyledChar) /\ After(w, o) \in Seq(StyledChar)
      /\ Styled(w) = Before(w, o) \o After(w, o)
  BY BeforeAfter
<1>3. left \in Word /\ Styled(left) = Before(w, o)
  <2>1. left \in Word /\ Styled(left) = Before(w, o) \o <<>>
    BY <1>1, Deleted, Ends
  <2> QED BY <1>2, <2>1, ConcatEmptySeq
<1>4. tail \in Word /\ Styled(tail) = After(w, o)
  <2>1. tail \in Word /\ Styled(tail) = <<>> \o After(w, o)
    BY <1>1, Deleted, Ends
  <2> QED BY <1>2, <2>1, ConcatEmptySeq
<1> HIDE DEF left, tail
<1>5. right \in Word /\ Styled(right) = After(w, o)
  BY <1>4, Hinted
<1> HIDE DEF right
<1>6. 1 \in Offsets(right) /\ Before(right, 1) = <<>> /\ After(right, 1) = Styled(right)
  BY <1>5, Ends
<1>7. Styled(InsertIntoWord(right, left, 1, Plain).word) =
        Before(right, 1) \o StyledFrom(left, Plain) \o After(right, 1)
  BY <1>1, <1>3, <1>5, <1>6, Inserted
<1>8. <<>> \o Before(w, o) = Before(w, o)
  BY <1>2, ConcatEmptySeq
<1>9. Styled(InsertIntoWord(right, left, 1, Plain).word) = Styled(w)
  BY <1>2, <1>3, <1>5, <1>6, <1>7, <1>8 DEF Styled
<1> QED BY <1>9 DEF left, right, tail

-----------------------------------------------------------------------------
(* Applying a style.                                                        *)

ApplyFcn(w, sor, sand, first, next) ==
  CHOOSE u : u = [i \in 0 .. Len(w) |->
                    IF i = 0 THEN State(Plain, Plain)
                    ELSE IF first <= i /\ i < next THEN Copy(u[i - 1], w[i], sor, sand)
                    ELSE Copy(u[i - 1], w[i], Plain, Attribute)]

LEMMA ApplyIs ==
  ASSUME NEW w, NEW sor, NEW sand, NEW first, NEW next, NEW cursor
  PROVE  LET u == ApplyFcn(w, sor, sand, first, next)
         IN  ApplyStyleToWord(w, sor, sand, first, next, cursor) =
               [word |-> u[Len(w)].out,
                cursor |-> IF cursor \notin 1 .. Len(w) + 1 THEN 1
                           ELSE IF cursor > Len(w) THEN Len(u[Len(w)].out) + 1
                           ELSE IF IsCode(w[cursor]) THEN Len(u[cursor].out) + 1
                           ELSE Len(u[cursor].out)]
BY Zenon DEF ApplyStyleToWord, ApplyFcn

(* The masks that the element i is copied with. *)
OrAt(sor, first, next, i) == IF first <= i /\ i < next THEN sor ELSE Plain
AndAt(sand, first, next, i) == IF first <= i /\ i < next THEN sand ELSE Attribute

LEMMA MaskType ==
  ASSUME NEW sor \in Style, NEW sand \in Style, NEW first, NEW next, NEW i
  PROVE  OrAt(sor, first, next, i) \in Style /\ AndAt(sand, first, next, i) \in Style
BY DEF OrAt, AndAt, Plain, Style

IsApply(u, w, sor, sand, first, next) ==
  /\ u \in [0 .. Len(w) -> CState]
  /\ u[0] = Begun
  /\ \A i \in 1 .. Len(w) :
       u[i] = Copy(u[i - 1], w[i], OrAt(sor, first, next, i), AndAt(sand, first, next, i))

LEMMA ApplyFcnStep ==
  ASSUME NEW w \in Word, NEW sor \in Style, NEW sand \in Style, NEW first, NEW next
  PROVE  IsApply(ApplyFcn(w, sor, sand, first, next), w, sor, sand, first, next)
<1> DEFINE n == Len(w)
           step(c, i) == Copy(c, w[i], OrAt(sor, first, next, i), AndAt(sand, first, next, i))
           G == [p \in (0 + 1 .. n) \X CState |-> step(p[2], p[1])]
           f == Solution(0, n, Begun, G)
<1>0. n \in Nat /\ 0 <= n /\ \A i \in 1 .. n : w[i] \in Elem
  BY DEF Word, Elem
<1>1. Begun \in CState
  BY BegunCoherent, CoherentType
<1>2. \A c \in CState, i \in 1 .. n : step(c, i) \in CState
  BY <1>0, MaskType, CopyType
<1>3. G \in [(0 + 1 .. n) \X CState -> CState]
  <2> HIDE DEF step
  <2> QED BY <1>2
<1>4. IsRun(f, 0, n, CState, Begun, G)
  <2> HIDE DEF G, n
  <2> QED BY <1>0, <1>1, <1>3, Recursion
<1> HIDE DEF f
<1>5. \A i \in 1 .. n : f[i] = step(f[i - 1], i)
  <2> SUFFICES ASSUME NEW i \in 1 .. n PROVE f[i] = step(f[i - 1], i)
    OBVIOUS
  <2>1. <<i, f[i - 1]>> \in (0 + 1 .. n) \X CState
    BY <1>0, <1>4 DEF IsRun
  <2>2. f[i] = G[<<i, f[i - 1]>>]
    <3> HIDE DEF G
    <3> QED BY <1>4 DEF IsRun
  <2> HIDE DEF step
  <2> QED BY <2>1, <2>2
<1> DEFINE sel(c, i) == IF first <= i /\ i < next THEN Copy(c, w[i], sor, sand)
                        ELSE Copy(c, w[i], Plain, Attribute)
           Eq(u) == u = [i \in 0 .. Len(w) |-> IF i = 0 THEN Begun ELSE sel(u[i - 1], i)]
<1>6. \A c, i : sel(c, i) = step(c, i)
  BY DEF OrAt, AndAt
<1> HIDE DEF step, sel
<1>7. Eq(f)
  <2>1. f = [i \in 0 .. n |-> f[i]]
    BY <1>4 DEF IsRun
  <2>2. \A i \in 0 .. n : f[i] = IF i = 0 THEN Begun ELSE sel(f[i - 1], i)
    BY <1>0, <1>4, <1>5, <1>6 DEF IsRun
  <2> QED BY <2>1, <2>2
<1> DEFINE u == ApplyFcn(w, sor, sand, first, next)
<1>8. Eq(u)
  <2> HIDE DEF Eq
  <2>1. u = CHOOSE v : Eq(v)
    BY Zenon DEF ApplyFcn, Eq, Begun, sel
  <2> QED BY <1>7, <2>1
<1> HIDE DEF u
<1>9. u[0] = Begun /\ \A i \in 1 .. n : u[i] = step(u[i - 1], i)
  BY <1>0, <1>6, <1>8
<1>10. u \in [0 .. n -> CState]
  <2> DEFINE V == {k \in 0 .. n : u[k] \in CState}
  <2>1. 0 \in V
    BY <1>0, <1>1, <1>9
  <2>2. ASSUME NEW k \in 0 .. n - 1, k \in V PROVE k + 1 \in V
    <3>1. k + 1 \in 1 .. n /\ (k + 1) - 1 = k /\ k + 1 \in 0 .. n
      BY <1>0
    <3>2. u[k + 1] = step(u[k], k + 1)
      BY <1>9, <3>1
    <3>3. u[k + 1] \in CState
      BY <1>2, <2>2, <3>1, <3>2
    <3> QED BY <3>1, <3>3
  <2>3. \A k \in 0 .. n : k \in V
    <3> HIDE DEF V, n
    <3> QED BY <1>0, <2>1, <2>2, Induction
  <2> QED BY <1>8, <2>3
<1> QED BY <1>9, <1>10 DEF u, step, IsApply

(* Further on more has been read.                                           *)
LEMMA ReadFurther ==
  ASSUME NEW w \in Word, NEW a \in 0 .. Len(w), NEW b \in a .. Len(w)
  PROVE  /\ ReadFcn(w, Plain)[a] \in RState /\ ReadFcn(w, Plain)[b] \in RState
         /\ Extends(ReadFcn(w, Plain)[a].chars, ReadFcn(w, Plain)[b].chars)
<1> DEFINE R == ReadFcn(w, Plain)
           c == [Begun EXCEPT !.sstate = R[a].style]
<1>1. Plain \in Style /\ a \in 0 .. Len(w) /\ b \in 0 .. Len(w)
  BY DEF Plain, Style, Word
<1>2. R[a] \in RState /\ R[b] \in RState
  BY <1>1, ReadFcnStep
<1>3. Coherent(c) /\ c.sstate = R[a].style
  <2>1. R[a].style \in Style
    BY <1>2 DEF RState
  <2> HIDE DEF R
  <2> QED BY <2>1, BegunCoherent, SetSource
<1> HIDE DEF c
<1>4. Follows(c, CopyRange(c, w, a + 1, b), R[a], R[b], b - a)
  BY <1>1, <1>3, CopyRangeFollows
<1> QED BY <1>2, <1>4 DEF Follows, Adds

PendingFor(c, sor, sand) == IF c.dstate = Effect(c, sor, sand) THEN 0 ELSE 1

LEMMA ApplyLength ==
  ASSUME NEW d, Coherent(d), NEW x \in Elem, NEW sor \in Style, NEW sand \in Style
  PROVE  LET f == Copy(d, x, sor, sand)
         IN  /\ Coherent(f)
             /\ Extends(d.out, f.out)
             /\ PendingFor(f, sor, sand) \in 0 .. 1 /\ PendingFor(d, sor, sand) \in 0 .. 1
             /\ Len(f.out) + PendingFor(f, sor, sand) <=
                  Len(d.out) + PendingFor(d, sor, sand) + 1
<1> DEFINE f == Copy(d, x, sor, sand)
           e == Effect(d, sor, sand)
<1>1. PendingFor(f, sor, sand) \in 0 .. 1 /\ PendingFor(d, sor, sand) \in 0 .. 1
  BY DEF PendingFor
<1>2. d \in CState /\ d.out \in Word /\ Len(d.out) \in Nat
  BY CoherentType
<1>3. CASE IsCode(x)
  <2>1. Coherent(f) /\ f = [d EXCEPT !.sstate = x]
    BY <1>3, CopyCode
  <2>2. f.out = d.out
    BY <1>2, <2>1 DEF CState
  <2> HIDE DEF f
  <2>3. Extends(d.out, f.out)
    BY <1>2, <2>2, ExtendsSelf DEF Word
  <2> QED BY <1>1, <1>2, <2>1, <2>2, <2>3 DEF f
<1>4. CASE ~IsCode(x)
  <2> DEFINE m == IF d.dstate = e THEN 1 ELSE 2
  <2>1. Wrote(d, f, x, e)
    BY <1>4, CopyChar
  <2> HIDE DEF f
  <2>2. /\ Coherent(f) /\ f.sstate = d.sstate /\ f.dstate = e
        /\ Len(f.out) = Len(d.out) + m
        /\ \A i \in 1 .. Len(d.out) : f.out[i] = d.out[i]
    <3> HIDE DEF e
    <3> QED BY <2>1 DEF Wrote
  <2>3. m = 1 + PendingFor(d, sor, sand)
    BY DEF PendingFor
  <2>4. PendingFor(f, sor, sand) = 0
    BY <2>2 DEF PendingFor, Effect
  <2> HIDE DEF m, e
  <2>5. Extends(d.out, f.out)
    <3>1. Len(d.out) <= Len(f.out)
      BY <1>1, <1>2, <2>2, <2>3
    <3> QED BY <2>2, <3>1 DEF Extends
  <2> QED BY <1>1, <1>2, <2>2, <2>3, <2>4, <2>5 DEF f
<1> QED BY <1>3, <1>4

(* The character at i counts as before an offset exactly if it is.          *)
LEMMA Counted ==
  ASSUME NEW w \in Word, NEW o \in Offsets(w), NEW i \in 1 .. Len(w), ~IsCode(w[i])
  PROVE  LET R == ReadFcn(w, Plain)
         IN  /\ R[i - 1] \in RState /\ R[i] \in RState
             /\ R[i].style = R[i - 1].style
             /\ R[i].chars = Append(R[i - 1].chars, <<w[i], R[i - 1].style>>)
             /\ Len(R[i].chars) = Len(R[i - 1].chars) + 1 /\ Len(R[i - 1].chars) \in Nat
             /\ w[i] \in Char
             /\ o <= i <=> CharsBefore(w, o) < Len(R[i].chars)
<1> DEFINE R == ReadFcn(w, Plain)
           a == o - 1
           b == i - 1
<1>1. /\ Plain \in Style /\ w[i] \in Elem /\ Len(w) \in Nat
      /\ b \in 0 .. Len(w) /\ i \in 0 .. Len(w) /\ i \in b .. Len(w)
  BY DEF Plain, Style, Word, Elem
<1>2. /\ R[i] = Read(R[b], w[i]) /\ R[b] \in RState /\ R[i] \in RState
  BY <1>1, ReadFcnStep
<1>3. a \in 0 .. Len(w) /\ CharsBefore(w, o) = Len(R[a].chars)
  BY BeforeAfter
<1>4. \A x \in 0 .. Len(w) : \A y \in x .. Len(w) :
        Len(R[x].chars) <= Len(R[y].chars)
  <2> SUFFICES ASSUME NEW x \in 0 .. Len(w), NEW y \in x .. Len(w)
               PROVE  Len(R[x].chars) <= Len(R[y].chars)
    OBVIOUS
  <2> QED BY ReadFurther DEF Extends
<1>5. \A x \in 0 .. Len(w) : R[x].chars \in Seq(StyledChar)
  <2>1. \A x \in 0 .. Len(w) : R[x] \in RState
    BY <1>1, ReadFcnStep
  <2> HIDE DEF R
  <2> QED BY <2>1 DEF RState, StyledChar
<1> HIDE DEF R, b
<1>6. /\ w[i] \in Char /\ R[i].style = R[b].style
      /\ R[i].chars = Append(R[b].chars, <<w[i], R[b].style>>)
  <2> DEFINE x == w[i]
             r == R[b]
  <2>1. x \in Elem /\ ~IsCode(x) /\ r \in RState
    BY <1>1, <1>2
  <2> HIDE DEF x, r
  <2>2. x \in Char /\ Read(r, x).style = r.style /\ Read(r, x).chars = Append(r.chars, <<x, r.style>>)
    BY <2>1, ReadCases
  <2> QED BY <1>2, <2>2 DEF x, r
<1>7. <<w[i], R[b].style>> \in StyledChar
  BY <1>2, <1>6 DEF RState, StyledChar
<1>8. Len(R[i].chars) = Len(R[b].chars) + 1 /\ Len(R[b].chars) \in Nat
  <2> DEFINE s == R[b].chars
             y == <<w[i], R[b].style>>
  <2>1. s \in Seq(StyledChar) /\ y \in StyledChar /\ R[i].chars = Append(s, y)
    BY <1>1, <1>5, <1>6, <1>7
  <2> HIDE DEF s, y
  <2>2. Len(R[i].chars) = Len(s) + 1 /\ Len(s) \in Nat
    BY <2>1
  <2> QED BY <2>2 DEF s
<1>9. o <= i <=> CharsBefore(w, o) < Len(R[i].chars)
  <2>1. Len(R[a].chars) \in Nat
    <3>1. R[a].chars \in Seq(StyledChar)
      BY <1>3, <1>5
    <3> QED BY <3>1
  <2>2. CASE o <= i
    <3>1. b \in a .. Len(w)
      BY <1>1, <1>3, <2>2 DEF b, Offsets
    <3>2. Len(R[a].chars) <= Len(R[b].chars)
      BY <1>3, <1>4, <3>1
    <3> QED BY <1>3, <1>8, <2>1, <2>2, <3>2
  <2>3. CASE ~(o <= i)
    <3>1. a \in i .. Len(w)
      BY <1>1, <1>3, <2>3 DEF Offsets
    <3>2. Len(R[i].chars) <= Len(R[a].chars)
      BY <1>1, <1>4, <3>1
    <3> QED BY <1>3, <1>8, <2>1, <2>3, <3>2
  <2> QED BY <2>2, <2>3
<1> QED BY <1>2, <1>6, <1>8, <1>9 DEF R, b

(* The characters a style is applied to are those between two counts.       *)
Restyled(x, i, sor, sand, a, b) ==
  IF a < i /\ i <= b THEN <<x[1], (x[2] \cap sand) \cup sor>> ELSE x

Restyles(p, s, sor, sand, a, b) ==
  /\ Len(p) = Len(s)
  /\ \A i \in 1 .. Len(s) : p[i] = Restyled(s[i], i, sor, sand, a, b)

LEMMA RestylesAppend ==
  ASSUME NEW S, NEW p \in Seq(S), NEW s \in Seq(S), NEW sor, NEW sand, NEW a, NEW b,
         Restyles(p, s, sor, sand, a, b), NEW x \in S, NEW y \in S,
         y = Restyled(x, Len(s) + 1, sor, sand, a, b)
  PROVE  Restyles(Append(p, y), Append(s, x), sor, sand, a, b)
<1> DEFINE q == Append(p, y)
           t == Append(s, x)
           n == Len(s)
<1>1. /\ n \in Nat /\ Len(p) = n /\ Len(q) = n + 1 /\ Len(t) = n + 1
      /\ q[n + 1] = y /\ t[n + 1] = x
      /\ \A i \in 1 .. n : q[i] = p[i] /\ t[i] = s[i] /\ p[i] = Restyled(s[i], i, sor, sand, a, b)
  <2>1. Len(p) = Len(s) /\ \A i \in 1 .. Len(s) : p[i] = Restyled(s[i], i, sor, sand, a, b)
    BY DEF Restyles
  <2>2. /\ Len(q) = Len(p) + 1 /\ q[Len(p) + 1] = y /\ \A i \in 1 .. Len(p) : q[i] = p[i]
    BY AppendProperties
  <2>3. /\ Len(t) = Len(s) + 1 /\ t[Len(s) + 1] = x /\ \A i \in 1 .. Len(s) : t[i] = s[i]
    BY AppendProperties
  <2>4. Len(s) \in Nat
    OBVIOUS
  <2> HIDE DEF q, t
  <2> QED BY <2>1, <2>2, <2>3, <2>4
<1>2. y = Restyled(x, n + 1, sor, sand, a, b)
  OBVIOUS
<1> HIDE DEF q, t, n
<1>3. ASSUME NEW i \in 1 .. Len(t) PROVE q[i] = Restyled(t[i], i, sor, sand, a, b)
  <2>1. CASE i = n + 1
    BY <1>1, <1>2, <2>1
  <2>2. CASE i # n + 1
    <3>1. i \in 1 .. n
      BY <1>1, <2>2
    <3> QED BY <1>1, <3>1
  <2> QED BY <2>1, <2>2
<1>4. Restyles(q, t, sor, sand, a, b)
  BY <1>1, <1>3 DEF Restyles
<1> QED BY <1>4 DEF q, t

LEMMA AppliedChars ==
  ASSUME NEW w \in Word, NEW sor \in Style, NEW sand \in Style,
         NEW first \in Offsets(w), NEW next \in Offsets(w), first <= next, NEW k \in 0 .. Len(w)
  PROVE  LET c == ApplyFcn(w, sor, sand, first, next)[k]
             r == ReadFcn(w, Plain)[k]
         IN  /\ Coherent(c) /\ c.sstate = r.style /\ r \in RState
             /\ Restyles(Written(c), r.chars, sor, sand, CharsBefore(w, first), CharsBefore(w, next))
<1> DEFINE u == ApplyFcn(w, sor, sand, first, next)
           R == ReadFcn(w, Plain)
           a == CharsBefore(w, first)
           b == CharsBefore(w, next)
           n == Len(w)
           P(i) == /\ Coherent(u[i]) /\ u[i].sstate = R[i].style
                   /\ Restyles(Written(u[i]), R[i].chars, sor, sand, a, b)
           V == {i \in 0 .. n : P(i)}
<1>1. Plain \in Style /\ n \in Nat /\ \A i \in 1 .. n : w[i] \in Elem
  BY DEF Plain, Style, Word, Elem
<1>2. /\ R \in [0 .. n -> RState] /\ R[0] = Unread(Plain)
      /\ \A i \in 1 .. n : R[i] = Read(R[i - 1], w[i])
  BY <1>1, ReadFcnStep
<1>3. /\ u[0] = Begun
      /\ \A i \in 1 .. n : u[i] = Copy(u[i - 1], w[i], OrAt(sor, first, next, i), AndAt(sand, first, next, i))
  BY ApplyFcnStep DEF IsApply
<1>4. \A i \in 1 .. n : ~IsCode(w[i]) =>
        /\ R[i].style = R[i - 1].style
        /\ R[i].chars = Append(R[i - 1].chars, <<w[i], R[i - 1].style>>)
        /\ w[i] \in Char
        /\ Len(R[i].chars) = Len(R[i - 1].chars) + 1 /\ Len(R[i - 1].chars) \in Nat
        /\ (first <= i <=> a < Len(R[i].chars))
        /\ (next <= i <=> b < Len(R[i].chars))
  BY Counted
<1>5. a \in Nat /\ b \in Nat
  BY BeforeAfter
<1>6. first \in Int /\ next \in Int
  BY DEF Offsets
<1> HIDE DEF u, R, a, b, n
<1>7. 0 \in V
  <2>1. Coherent(u[0]) /\ u[0].sstate = R[0].style /\ Written(u[0]) = <<>> /\ R[0].chars = <<>>
    BY <1>2, <1>3, BegunCoherent DEF Unread
  <2>2. Restyles(<<>>, <<>>, sor, sand, a, b)
    BY DEF Restyles
  <2> QED BY <1>1, <2>1, <2>2
<1>8. ASSUME NEW i \in 0 .. n - 1, i \in V PROVE i + 1 \in V
  <2> DEFINE j == i + 1
             x == w[j]
             c == u[i]
             d == u[j]
             r == R[i]
             q == R[j]
             so == OrAt(sor, first, next, j)
             sa == AndAt(sand, first, next, j)
  <2>1. j \in 1 .. n /\ j \in 0 .. n /\ j - 1 = i /\ i \in 0 .. n
    BY <1>1
  <2>2. /\ x \in Elem /\ r \in RState /\ q = Read(r, x) /\ so \in Style /\ sa \in Style
        /\ d = Copy(c, x, so, sa)
    BY <1>1, <1>2, <1>3, <2>1, MaskType
  <2>3. Coherent(c) /\ c.sstate = r.style /\ Restyles(Written(c), r.chars, sor, sand, a, b)
    BY <1>8
  <2>4. c \in CState /\ c.sstate \in Style /\ Written(c) \in Seq(StyledChar) /\ r.chars \in Seq(StyledChar)
    BY <2>2, <2>3, CoherentType DEF RState, StyledChar
  <2>5. ~IsCode(x) =>
          /\ q.style = r.style /\ q.chars = Append(r.chars, <<x, r.style>>) /\ x \in Char
          /\ Len(q.chars) = Len(r.chars) + 1 /\ Len(r.chars) \in Nat
          /\ (first <= j <=> a < Len(q.chars))
          /\ (next <= j <=> b < Len(q.chars))
    BY <1>4, <2>1
  <2>6. (so = IF first <= j /\ j < next THEN sor ELSE Plain)
        /\ (sa = IF first <= j /\ j < next THEN sand ELSE Attribute)
    BY DEF OrAt, AndAt
  <2>7. j \in Int
    BY <2>1
  <2> HIDE DEF x, c, d, r, q, so, sa, j
  <2>8. CASE IsCode(x)
    <3>1. Coherent(d) /\ d = [c EXCEPT !.sstate = x]
      BY <2>2, <2>3, <2>8, CopyCode
    <3>2. d.out = c.out /\ d.sstate = x
      BY <2>4, <3>1 DEF CState
    <3>3. Written(d) = Written(c)
      BY <3>2 DEF Written
    <3>4. q.style = x /\ q.chars = r.chars
      BY <2>2, <2>8, ReadCases
    <3>5. P(j)
      BY <2>3, <3>1, <3>2, <3>3, <3>4 DEF d, q
    <3> QED BY <2>1, <3>5 DEF j
  <2>9. CASE ~IsCode(x)
    <3> DEFINE e == Effect(c, so, sa)
               y == <<x, r.style>>
               z == <<x, e>>
    <3>1. Wrote(c, d, x, e)
      BY <2>2, <2>3, <2>9, CopyChar
    <3>2. Coherent(d) /\ d.sstate = c.sstate /\ Written(d) = Append(Written(c), z)
      BY <3>1 DEF Wrote, Written
    <3>3. y \in StyledChar /\ z \in StyledChar
      <4>1. e \in Style /\ r.style \in Style
        BY <2>2, <2>3, <2>4 DEF Effect, Style
      <4> HIDE DEF e
      <4> QED BY <2>5, <2>9, <4>1 DEF StyledChar
    <3>4. z = Restyled(y, Len(r.chars) + 1, sor, sand, a, b)
      <4>1. CASE first <= j /\ j < next
        <5>1. a < Len(r.chars) + 1 /\ Len(r.chars) + 1 <= b
          BY <1>5, <1>6, <2>5, <2>7, <2>9, <4>1
        <5>2. e = (r.style \cap sand) \cup sor
          BY <2>3, <2>6, <4>1 DEF Effect
        <5> QED BY <5>1, <5>2 DEF Restyled
      <4>2. CASE ~(first <= j /\ j < next)
        <5>1. ~(a < Len(r.chars) + 1 /\ Len(r.chars) + 1 <= b)
          BY <1>5, <1>6, <2>5, <2>7, <2>9, <4>2
        <5>2. e = r.style
          BY <2>3, <2>4, <2>6, <4>2 DEF Effect, Plain, Style
        <5> QED BY <5>1, <5>2 DEF Restyled
      <4> QED BY <4>1, <4>2
    <3> HIDE DEF e, y, z
    <3>5. Restyles(Append(Written(c), z), Append(r.chars, y), sor, sand, a, b)
      BY <2>3, <2>4, <3>3, <3>4, RestylesAppend
    <3>6. P(j)
      BY <2>3, <2>5, <2>9, <3>2, <3>5 DEF d, q, y
    <3> QED BY <2>1, <3>6 DEF j
  <2> QED BY <2>8, <2>9
<1>9. k \in V
  <2> HIDE DEF V
  <2>1. k \in 0 .. n
    BY DEF n
  <2> QED BY <1>1, <1>7, <1>8, <2>1, Induction
<1>10. P(k) /\ R[k] \in RState
  BY <1>2, <1>9
<1> QED BY <1>10 DEF u, R, a, b

(* Each change of the masks may cost one code.                              *)
Changes(first, next, i) == IF i < first THEN 0 ELSE IF i < next THEN 1 ELSE 2

LEMMA AppliedLength ==
  ASSUME NEW w \in Word, NEW sor \in Style, NEW sand \in Style,
         NEW first \in Offsets(w), NEW next \in Offsets(w), first <= next
  PROVE  Len(ApplyFcn(w, sor, sand, first, next)[Len(w)].out) <= Len(w) + 2
<1> DEFINE u == ApplyFcn(w, sor, sand, first, next)
           n == Len(w)
           so(i) == OrAt(sor, first, next, i)
           sa(i) == AndAt(sand, first, next, i)
           P(i) == Len(u[i].out) + PendingFor(u[i], so(i), sa(i)) <= i + Changes(first, next, i)
           V == {i \in 0 .. n : P(i)}
<1>1. n \in Nat /\ (\A i \in 1 .. n : w[i] \in Elem) /\ first \in Nat \ {0} /\ next \in Nat \ {0}
  BY DEF Word, Elem, Offsets
<1>2. /\ u[0] = Begun
      /\ \A i \in 1 .. n : u[i] = Copy(u[i - 1], w[i], so(i), sa(i))
  BY ApplyFcnStep DEF IsApply
<1>3. \A i \in 0 .. n : Coherent(u[i])
  BY AppliedChars
<1>4. \A i : so(i) \in Style /\ sa(i) \in Style
  BY MaskType
<1> HIDE DEF u, n
<1>5. 0 \in V
  <2>1. so(0) = Plain /\ sa(0) = Attribute /\ Changes(first, next, 0) = 0
    BY <1>1 DEF OrAt, AndAt, Changes
  <2>2. Begun.dstate = Effect(Begun, Plain, Attribute)
    BY DEF Begun, State, Effect, Plain
  <2>3. PendingFor(u[0], so(0), sa(0)) = 0
    BY <1>2, <2>1, <2>2 DEF PendingFor
  <2>4. Len(u[0].out) = 0 /\ 0 \in 0 .. n
    BY <1>1, <1>2, BegunCoherent
  <2> HIDE DEF so, sa
  <2> QED BY <2>1, <2>3, <2>4
<1>6. ASSUME NEW i \in 0 .. n - 1, i \in V PROVE i + 1 \in V
  <2> DEFINE j == i + 1
             d == u[i]
             f == u[j]
             sj == so(j)
             aj == sa(j)
  <2>1. j \in 1 .. n /\ j \in 0 .. n /\ j - 1 = i /\ i \in 0 .. n /\ i \in Nat /\ j = i + 1
    BY <1>1
  <2>2. f = Copy(d, w[j], sj, aj) /\ w[j] \in Elem /\ sj \in Style /\ aj \in Style /\ Coherent(d)
    BY <1>1, <1>2, <1>3, <1>4, <2>1
  <2>3. Len(d.out) + PendingFor(d, so(i), sa(i)) <= i + Changes(first, next, i)
    BY <1>6
  <2>4. \/ Changes(first, next, j) = Changes(first, next, i) /\ so(i) = so(j) /\ sa(i) = sa(j)
        \/ Changes(first, next, j) >= Changes(first, next, i) + 1
    BY <1>1, <2>1 DEF Changes, OrAt, AndAt
  <2>5. Changes(first, next, i) \in 0 .. 2 /\ Changes(first, next, j) \in 0 .. 2
    BY DEF Changes
  <2>6. PendingFor(d, so(i), sa(i)) \in 0 .. 1
    BY DEF PendingFor
  <2> HIDE DEF f, d, sj, aj, j
  <2>7. /\ PendingFor(d, sj, aj) \in 0 .. 1 /\ PendingFor(f, sj, aj) \in 0 .. 1
        /\ Len(f.out) + PendingFor(f, sj, aj) <= Len(d.out) + PendingFor(d, sj, aj) + 1
        /\ Coherent(f)
    BY <2>2, ApplyLength
  <2>8. Len(d.out) \in Nat /\ Len(f.out) \in Nat
    BY <2>2, <2>7, CoherentType
  <2>9. Len(d.out) + PendingFor(d, sj, aj) <= i + Changes(first, next, j)
    <3>1. CASE Changes(first, next, j) = Changes(first, next, i) /\ so(i) = so(j) /\ sa(i) = sa(j)
      <4>1. PendingFor(d, sj, aj) = PendingFor(d, so(i), sa(i))
        BY <3>1 DEF sj, aj
      <4> HIDE DEF so, sa
      <4> QED BY <2>3, <3>1, <4>1
    <3>2. CASE Changes(first, next, j) >= Changes(first, next, i) + 1
      <4> HIDE DEF so, sa
      <4> QED BY <2>1, <2>3, <2>5, <2>6, <2>7, <2>8, <3>2
    <3> QED BY <2>4, <3>1, <3>2
  <2>10. Len(f.out) + PendingFor(f, sj, aj) <= j + Changes(first, next, j)
    BY SMTT(40), <2>1, <2>5, <2>7, <2>8, <2>9
  <2> QED BY <2>1, <2>10 DEF f, sj, aj, j
<1>7. P(n)
  <2>1. n \in 0 .. n
    BY <1>1
  <2>2. n \in V
    <3> HIDE DEF V
    <3> QED BY <1>1, <1>5, <1>6, <2>1, Induction
  <2> QED BY <2>2
<1>8. PendingFor(u[n], so(n), sa(n)) \in 0 .. 1 /\ Changes(first, next, n) \in 0 .. 2
  BY DEF PendingFor, Changes
<1>9. Len(u[n].out) \in Nat
  <2>1. n \in 0 .. n
    BY <1>1
  <2> QED BY <1>3, <2>1, CoherentType
<1> HIDE DEF so, sa
<1>10. Len(u[n].out) <= n + 2
  BY <1>1, <1>7, <1>8, <1>9
<1> QED BY <1>10 DEF u, n

LEMMA AppliedExtends ==
  ASSUME NEW w \in Word, NEW sor \in Style, NEW sand \in Style,
         NEW first \in Offsets(w), NEW next \in Offsets(w), first <= next, NEW k \in 0 .. Len(w)
  PROVE  LET u == ApplyFcn(w, sor, sand, first, next)
         IN  Extends(u[k].out, u[Len(w)].out)
<1> DEFINE u == ApplyFcn(w, sor, sand, first, next)
           n == Len(w)
           V == {i \in 0 .. n - k : Extends(u[k].out, u[k + i].out)}
<1>1. n \in Nat /\ k \in Nat /\ n - k \in Nat /\ (\A i \in 1 .. n : w[i] \in Elem) /\ k \in 0 .. n
  BY DEF Word, Elem
<1>2. \A i \in 1 .. n : u[i] = Copy(u[i - 1], w[i], OrAt(sor, first, next, i), AndAt(sand, first, next, i))
  BY ApplyFcnStep DEF IsApply
<1>3. \A i \in 0 .. n : Coherent(u[i])
  BY AppliedChars
<1>4. \A i \in 0 .. n : u[i].out \in Word /\ Len(u[i].out) \in Nat
  BY <1>3, CoherentType
<1> HIDE DEF u, n
<1>5. 0 \in V
  <2>1. Extends(u[k].out, u[k].out) /\ k + 0 = k /\ 0 \in 0 .. n - k
    BY <1>1, <1>4, ExtendsSelf DEF Word
  <2> QED BY <2>1
<1>6. ASSUME NEW i \in 0 .. (n - k) - 1, i \in V PROVE i + 1 \in V
  <2> DEFINE j == k + (i + 1)
             so == OrAt(sor, first, next, j)
             sa == AndAt(sand, first, next, j)
  <2>1. j \in 1 .. n /\ j \in 0 .. n /\ j - 1 = k + i /\ k + i \in 0 .. n /\ i + 1 \in 0 .. n - k
    BY <1>1
  <2>2. u[j] = Copy(u[k + i], w[j], so, sa) /\ w[j] \in Elem /\ so \in Style /\ sa \in Style
    BY <1>1, <1>2, <2>1, MaskType
  <2>3. Coherent(u[k + i]) /\ Extends(u[k].out, u[k + i].out)
    BY <1>3, <1>6, <2>1
  <2> HIDE DEF j, so, sa
  <2>4. Extends(u[k + i].out, u[j].out)
    BY <2>2, <2>3, ApplyLength
  <2>5. Extends(u[k].out, u[j].out)
    BY <1>1, <1>4, <2>1, <2>3, <2>4, ExtendsTransitive
  <2> QED BY <2>1, <2>5 DEF j
<1>7. n - k \in V
  <2>1. n - k \in 0 .. n - k
    BY <1>1
  <2> HIDE DEF V
  <2> QED BY <1>1, <1>5, <1>6, <2>1, Induction
<1>8. k + (n - k) = n
  BY <1>1
<1> QED BY <1>7, <1>8 DEF u, n

(* Where a copy ended, so many characters are before the offset.            *)
LEMMA CountedWritten ==
  ASSUME NEW c, Coherent(c), NEW u \in Word, Extends(c.out, u)
  PROVE  CharsBefore(u, Len(c.out) + 1) = Len(Written(c))
<1> DEFINE n == Len(c.out)
           v == c.out
<1>1. v \in Word /\ n \in Nat /\ Len(u) \in Nat /\ n <= Len(u) /\ \A i \in 1 .. n : u[i] = v[i]
  BY CoherentType DEF Extends, Word
<1>2. Len(v) = n
  OBVIOUS
<1> HIDE DEF n, v
<1>3. n \in 0 .. Len(u) /\ (n + 1) - 1 = n
  BY <1>1
<1>4. /\ SubSeq(u, 1, n) \in Word /\ Len(SubSeq(u, 1, n)) = n
      /\ \A i \in 1 .. n : SubSeq(u, 1, n)[i] = u[i]
  BY <1>3, PrefixType
<1>5. SubSeq(u, 1, n) = v
  BY <1>1, <1>2, <1>4, SeqEqual DEF Word
<1>6. CharsBefore(u, n + 1) = Len(Styled(v))
  BY <1>3, <1>5 DEF CharsBefore
<1> QED BY <1>6 DEF Written, Styled, StyledFrom, n, v

LEMMA CountedLast ==
  ASSUME NEW c, Coherent(c), Len(c.out) > 0, c.out[Len(c.out)] \in Char,
         NEW u \in Word, Extends(c.out, u)
  PROVE  CharsBefore(u, Len(c.out)) = Len(Written(c)) - 1
<1> DEFINE v == c.out
           n == Len(v)
           x == v[n]
           F == ReadFcn(v, Plain)
           r == F[n - 1]
<1>1. v \in Word /\ n \in Nat /\ Len(u) \in Nat /\ n <= Len(u) /\ (\A i \in 1 .. n : u[i] = v[i])
      /\ n > 0 /\ Plain \in Style
  BY CoherentType DEF Extends, Word, Plain, Style
<1>2. x \in Elem /\ ~IsCode(x)
  BY DEF Elem, IsCode
<1>3. n - 1 \in 0 .. n /\ n \in 1 .. n /\ n \in 1 .. Len(u) + 1 /\ n - 1 \in Nat
      /\ n - 1 <= n /\ n - 1 <= Len(u) /\ (\A i \in 1 .. n - 1 : u[i] = v[i])
  BY <1>1
<1>4. F[n] = Read(r, x) /\ r \in RState /\ Reading(v, Plain) = F[n]
  <2>1. /\ F \in [0 .. n -> RState]
        /\ \A i \in 1 .. n : F[i] = Read(F[i - 1], v[i])
        /\ Reading(v, Plain) = F[n]
    BY <1>1, ReadFcnStep
  <2> HIDE DEF F, v, n
  <2> QED BY <1>3, <2>1 DEF r, x
<1> HIDE DEF F, x, v
<1>5. Written(c) = Append(r.chars, <<x, r.style>>) /\ x \in Char
  <2> HIDE DEF r
  <2>1. Read(r, x).chars = Append(r.chars, <<x, r.style>>) /\ x \in Char
    BY <1>2, <1>4, ReadCases
  <2> QED BY <1>4, <2>1 DEF Written, v
<1> HIDE DEF r
<1>6. Len(Written(c)) = Len(r.chars) + 1 /\ Len(r.chars) \in Nat
  <2> DEFINE s == r.chars
             y == <<x, r.style>>
  <2>1. s \in Seq(StyledChar) /\ y \in StyledChar /\ Written(c) = Append(s, y)
    BY <1>4, <1>5 DEF RState, StyledChar
  <2> HIDE DEF s, y
  <2>2. Len(Written(c)) = Len(s) + 1 /\ Len(s) \in Nat
    BY <2>1
  <2> QED BY <2>2 DEF s
<1>7. ReadFcn(u, Plain)[n - 1] = r
  <2>1. ReadFcn(u, Plain)[n - 1] = ReadFcn(v, Plain)[n - 1]
    BY <1>1, <1>3, ReadingOfSame
  <2> QED BY <2>1 DEF r, F
<1>8. CharsBefore(u, n) = Len(r.chars)
  <2>1. n \in Offsets(u)
    BY <1>3 DEF Offsets
  <2>2. CharsBefore(u, n) = Len(ReadFcn(u, Plain)[n - 1].chars)
    BY <2>1, BeforeAfter
  <2> QED BY <1>7, <2>2
<1>9. CharsBefore(u, n) = Len(Written(c)) - 1
  BY <1>6, <1>8
<1> QED BY <1>9 DEF n, v

LEMMA Applied ==
  ASSUME NEW w \in Word, NEW sor \in Style, NEW sand \in Style,
         NEW first \in Offsets(w), NEW next \in Offsets(w), first <= next,
         NEW cursor \in Offsets(w)
  PROVE  LET r == ApplyStyleToWord(w, sor, sand, first, next, cursor)
         IN  /\ r.word \in Word
             /\ Len(r.word) <= Len(w) + 2
             /\ Restyles(Styled(r.word), Styled(w), sor, sand,
                         CharsBefore(w, first), CharsBefore(w, next))
             /\ CharsBefore(r.word, r.cursor) = CharsBefore(w, cursor)
<1> DEFINE u == ApplyFcn(w, sor, sand, first, next)
           R == ReadFcn(w, Plain)
           n == Len(w)
           d == u[n]
           a == CharsBefore(w, first)
           b == CharsBefore(w, next)
           moved == IF cursor > n THEN Len(d.out) + 1
                    ELSE IF IsCode(w[cursor]) THEN Len(u[cursor].out) + 1
                    ELSE Len(u[cursor].out)
           r == ApplyStyleToWord(w, sor, sand, first, next, cursor)
<1>1. /\ n \in Nat /\ cursor \in 1 .. n + 1 /\ n \in 0 .. n /\ Plain \in Style
      /\ \A i \in 1 .. n : w[i] \in Elem
  BY DEF Word, Offsets, Plain, Style, Elem
<1>2. r = [word |-> d.out, cursor |-> moved]
  <2> DEFINE full == IF cursor \notin 1 .. n + 1 THEN 1
                     ELSE IF cursor > n THEN Len(u[n].out) + 1
                     ELSE IF IsCode(w[cursor]) THEN Len(u[cursor].out) + 1
                     ELSE Len(u[cursor].out)
  <2>1. r = [word |-> u[n].out, cursor |-> full]
    BY ApplyIs
  <2>2. full = moved
    BY <1>1
  <2> HIDE DEF full, moved, u, r
  <2> QED BY <2>1, <2>2
<1>3. \A k \in 0 .. n : /\ Coherent(u[k]) /\ R[k] \in RState
                        /\ Restyles(Written(u[k]), R[k].chars, sor, sand, a, b)
                        /\ Extends(u[k].out, d.out)
  BY AppliedChars, AppliedExtends
<1>4. Len(d.out) <= n + 2
  BY AppliedLength
<1>5. R[n].chars = Styled(w)
  BY <1>1, ReadFcnStep DEF Styled, StyledFrom
<1>6. \A i \in 1 .. n : u[i] = Copy(u[i - 1], w[i], OrAt(sor, first, next, i), AndAt(sand, first, next, i))
  BY ApplyFcnStep DEF IsApply
<1>7. CharsBefore(w, cursor) = Len(R[cursor - 1].chars)
  BY BeforeAfter
<1>8. \A i \in 1 .. n : R[i] = Read(R[i - 1], w[i])
  BY <1>1, ReadFcnStep
<1>9. cursor \in 1 .. n /\ ~IsCode(w[cursor]) =>
        Len(R[cursor].chars) = Len(R[cursor - 1].chars) + 1 /\ Len(R[cursor - 1].chars) \in Nat
  BY Counted
<1> HIDE DEF R, a, b
<1>10. d.out \in Word /\ Coherent(d)
  BY <1>1, <1>3, CoherentType
<1>11. Restyles(Styled(d.out), Styled(w), sor, sand, a, b)
  BY <1>1, <1>3, <1>5 DEF Written, Styled, StyledFrom
<1>12. \A k \in 0 .. n : Len(Written(u[k])) = Len(R[k].chars)
  BY <1>3 DEF Restyles
<1> HIDE DEF u, n
<1>13. \A k \in 0 .. n : CharsBefore(d.out, Len(u[k].out) + 1) = Len(R[k].chars)
  BY <1>3, <1>10, <1>12, CountedWritten
<1>14. CharsBefore(d.out, moved) = CharsBefore(w, cursor)
  <2>1. CASE cursor > n
    <3>1. cursor - 1 = n
      BY <1>1, <2>1
    <3> QED BY <1>1, <1>7, <1>13, <2>1, <3>1
  <2>2. CASE cursor <= n /\ IsCode(w[cursor])
    <3>1. cursor \in 1 .. n /\ cursor \in 0 .. n /\ cursor - 1 \in 0 .. n
      BY <1>1, <2>2
    <3>2. R[cursor].chars = R[cursor - 1].chars
      <4> DEFINE x == w[cursor]
                 q == R[cursor - 1]
      <4>1. x \in Elem /\ IsCode(x) /\ q \in RState /\ R[cursor] = Read(q, x)
        BY <1>1, <1>3, <1>8, <2>2, <3>1
      <4> HIDE DEF x, q
      <4>2. R[cursor].chars = q.chars
        BY <4>1, ReadCases
      <4> QED BY <4>2 DEF q
    <3>3. moved = Len(u[cursor].out) + 1
      BY <1>1, <2>2
    <3> HIDE DEF moved
    <3> QED BY <1>7, <1>13, <3>1, <3>2, <3>3
  <2>3. CASE cursor <= n /\ ~IsCode(w[cursor])
    <3> DEFINE x == w[cursor]
               c == u[cursor]
               p == u[cursor - 1]
               so == OrAt(sor, first, next, cursor)
               sa == AndAt(sand, first, next, cursor)
    <3>1. cursor \in 1 .. n /\ cursor \in 0 .. n /\ cursor - 1 \in 0 .. n
      BY <1>1, <2>3
    <3>2. /\ x \in Elem /\ ~IsCode(x) /\ so \in Style /\ sa \in Style
          /\ c = Copy(p, x, so, sa) /\ Coherent(p) /\ Coherent(c) /\ Extends(c.out, d.out)
      BY <1>1, <1>3, <1>6, <2>3, <3>1, MaskType
    <3>3. moved = Len(c.out)
      BY <1>1, <2>3
    <3>4. Len(Written(c)) = Len(R[cursor].chars)
      BY <1>12, <3>1
    <3> HIDE DEF x, c, p, so, sa, moved, d
    <3>5. Wrote(p, c, x, Effect(p, so, sa))
      BY <3>2, CopyChar
    <3>6. Len(c.out) > 0 /\ c.out[Len(c.out)] \in Char
      <4>1. c.out[Len(c.out)] = x /\ x \in Char
        BY <3>2, <3>5 DEF Wrote, IsCode
      <4> DEFINE m == IF p.dstate = Effect(p, so, sa) THEN 1 ELSE 2
      <4>2. Len(c.out) = Len(p.out) + m
        BY <3>5 DEF Wrote
      <4>3. m \in 1 .. 2
        OBVIOUS
      <4>4. Len(p.out) \in Nat
        BY <3>2, CoherentType
      <4> HIDE DEF m
      <4> QED BY <4>1, <4>2, <4>3, <4>4
    <3>7. CharsBefore(d.out, Len(c.out)) = Len(Written(c)) - 1
      BY <1>10, <3>2, <3>6, CountedLast
    <3> QED BY <1>7, <1>9, <2>3, <3>1, <3>3, <3>4, <3>7
  <2> QED BY <1>1, <2>1, <2>2, <2>3
<1> HIDE DEF d, moved
<1> QED BY <1>2, <1>4, <1>10, <1>11, <1>14 DEF a, b, n

-----------------------------------------------------------------------------
(* Stepping over characters.                                                *)

LEMMA OnlyCodes ==
  ASSUME NEW w \in Word, NEW a \in 0 .. Len(w), NEW b \in a .. Len(w),
         \A i \in a + 1 .. b : IsCode(w[i])
  PROVE  ReadFcn(w, Plain)[b].chars = ReadFcn(w, Plain)[a].chars
<1> DEFINE R == ReadFcn(w, Plain)
           n == Len(w)
           V == {k \in 0 .. b - a : R[a + k].chars = R[a].chars}
<1>1. n \in Nat /\ a \in Nat /\ b \in Nat /\ b - a \in Nat /\ Plain \in Style
      /\ a <= n /\ b <= n /\ a <= b /\ \A i \in 1 .. n : w[i] \in Elem
  BY DEF Word, Plain, Style, Elem
<1>2. R \in [0 .. n -> RState] /\ \A i \in 1 .. n : R[i] = Read(R[i - 1], w[i])
  BY <1>1, ReadFcnStep
<1> HIDE DEF R, n
<1>3. 0 \in V
  <2>1. a + 0 = a /\ 0 \in 0 .. b - a
    BY <1>1
  <2> QED BY <2>1
<1>4. ASSUME NEW k \in 0 .. (b - a) - 1, k \in V PROVE k + 1 \in V
  <2> DEFINE j == a + (k + 1)
             x == w[j]
             r == R[a + k]
  <2>1. j \in 1 .. n /\ j \in a + 1 .. b /\ j - 1 = a + k /\ a + k \in 0 .. n /\ k + 1 \in 0 .. b - a
    BY <1>1
  <2>2. R[j] = Read(r, x) /\ r \in RState /\ x \in Elem /\ IsCode(x) /\ r.chars = R[a].chars
    BY <1>1, <1>2, <1>4, <2>1
  <2> HIDE DEF x, r, j
  <2>3. R[j].chars = r.chars
    BY <2>2, ReadCases
  <2> QED BY <2>1, <2>2, <2>3 DEF j
<1>5. b - a \in V
  <2>1. b - a \in 0 .. b - a
    BY <1>1
  <2> HIDE DEF V
  <2> QED BY <1>1, <1>3, <1>4, <2>1, Induction
<1>6. a + (b - a) = b
  BY <1>1
<1> QED BY <1>5, <1>6 DEF R

LEMMA NatMax ==
  ASSUME NEW n \in Nat, NEW T, T \subseteq 0 .. n, T # {}
  PROVE  \E x \in T : \A y \in T : y <= x
<1> DEFINE U == {n - x : x \in T}
<1>1. ASSUME NEW x \in T PROVE n - x \in Nat /\ x \in Nat
  <2>1. x \in 0 .. n
    OBVIOUS
  <2> QED BY <2>1
<1>2. U \subseteq Nat
  BY <1>1
<1>3. U # {}
  <2>1. PICK x : x \in T
    OBVIOUS
  <2>2. n - x \in U
    BY <2>1
  <2> QED BY <2>2
<1>4. PICK z \in U : \A y \in U : z <= y
  <2> HIDE DEF U
  <2> QED BY <1>2, <1>3, NatMin
<1>5. PICK x \in T : z = n - x
  BY <1>4
<1>6. ASSUME NEW y \in T PROVE y <= x
  <2>1. n - y \in U
    OBVIOUS
  <2>2. n - x <= n - y
    BY <1>4, <1>5, <2>1
  <2> QED BY <1>1, <1>5, <2>2
<1> QED BY <1>5, <1>6

(* The next character is the first one at or behind the offset.             *)
LEMMA NextIs ==
  ASSUME NEW w \in Word, NEW o \in Offsets(w)
  PROVE  LET n == NextCharInWord(w, o)
         IN  \/ n = 0 /\ \A i \in o .. Len(w) : IsCode(w[i])
             \/ /\ n - 1 \in o .. Len(w) /\ ~IsCode(w[n - 1])
                /\ \A i \in o .. n - 2 : IsCode(w[i])
<1> DEFINE chars == {i \in o .. Len(w) : ~IsCode(w[i])}
           m == CHOOSE i \in chars : \A j \in chars : i <= j
<1>1. o \in Nat /\ Len(w) \in Nat /\ o >= 1
  BY DEF Offsets, Word
<1>2. NextCharInWord(w, o) = IF chars = {} THEN 0 ELSE m + 1
  BY Zenon DEF NextCharInWord
<1>3. CASE chars = {}
  BY <1>2, <1>3
<1>4. CASE chars # {}
  <2>1. chars \subseteq Nat
    BY <1>1
  <2>2. \E i \in chars : \A j \in chars : i <= j
    <3> HIDE DEF chars
    <3> QED BY <1>4, <2>1, NatMin
  <2>3. m \in chars /\ \A j \in chars : m <= j
    <3> HIDE DEF chars
    <3> QED BY <2>2
  <2> HIDE DEF m
  <2>4. /\ m \in o .. Len(w) /\ ~IsCode(w[m]) /\ \A j \in chars : m <= j
    BY <2>3
  <2>5. (m + 1) - 1 = m /\ (m + 1) - 2 = m - 1 /\ m \in Nat
    BY <1>1, <2>4
  <2>6. \A i \in o .. m - 1 : IsCode(w[i])
    BY <1>1, <2>4, <2>5
  <2> QED BY <1>2, <1>4, <2>4, <2>5, <2>6
<1> QED BY <1>3, <1>4

(* The previous character is the last one before the offset; the codes in   *)
(* front of it are stepped over, too.                                       *)
LEMMA PrevIs ==
  ASSUME NEW w \in Word, NEW o \in Offsets(w)
  PROVE  LET p == PrevCharInWord(w, o)
         IN  \/ p = 0 /\ \A i \in 1 .. o - 1 : IsCode(w[i])
             \/ /\ p \in 1 .. o - 1
                /\ p = 1 \/ ~IsCode(w[p - 1])
                /\ \E m \in p .. o - 1 :
                     /\ ~IsCode(w[m])
                     /\ \A i \in m + 1 .. o - 1 : IsCode(w[i])
                     /\ \A i \in p .. m - 1 : IsCode(w[i])
<1> DEFINE chars == {i \in 1 .. o - 1 : ~IsCode(w[i])}
           m == CHOOSE i \in chars : \A j \in chars : j <= i
           free == {k \in 1 .. m : \A i \in k .. m - 1 : IsCode(w[i])}
           l == CHOOSE k \in free : \A j \in free : k <= j
<1>1. o \in Nat /\ Len(w) \in Nat /\ o >= 1
  BY DEF Offsets, Word
<1>2. PrevCharInWord(w, o) = IF chars = {} THEN 0 ELSE l
  BY Zenon DEF PrevCharInWord
<1>3. CASE chars = {}
  BY <1>2, <1>3
<1>4. CASE chars # {}
  <2>1. chars \subseteq 0 .. o
    BY <1>1
  <2>2. \E i \in chars : \A j \in chars : j <= i
    <3> HIDE DEF chars
    <3> QED BY <1>1, <1>4, <2>1, NatMax
  <2>3. m \in chars /\ \A j \in chars : j <= m
    <3> HIDE DEF chars
    <3> QED BY <2>2
  <2> HIDE DEF m
  <2>4. m \in 1 .. o - 1 /\ ~IsCode(w[m]) /\ \A j \in chars : j <= m
    BY <2>3
  <2>5. m \in free /\ free \subseteq Nat
    BY <2>4
  <2>6. \E k \in free : \A j \in free : k <= j
    <3> HIDE DEF free
    <3>1. free # {}
      BY <2>5
    <3> QED BY <2>5, <3>1, NatMin
  <2>7. l \in free /\ \A j \in free : l <= j
    <3> HIDE DEF free
    <3> QED BY <2>6
  <2> HIDE DEF l
  <2>8. l \in 1 .. m /\ (\A i \in l .. m - 1 : IsCode(w[i])) /\ \A j \in free : l <= j
    BY <2>7
  <2>9. l = 1 \/ ~IsCode(w[l - 1])
    <3> SUFFICES ASSUME l # 1, IsCode(w[l - 1]) PROVE FALSE
      OBVIOUS
    <3>1. l - 1 \in 1 .. m
      BY <2>4, <2>8
    <3>2. \A i \in l - 1 .. m - 1 : IsCode(w[i])
      <4> SUFFICES ASSUME NEW i \in l - 1 .. m - 1 PROVE IsCode(w[i])
        OBVIOUS
      <4>1. i = l - 1 \/ i \in l .. m - 1
        BY <2>4, <2>8
      <4> QED BY <2>8, <4>1
    <3>3. l - 1 \in free
      BY <3>1, <3>2
    <3>4. l <= l - 1
      BY <2>8, <3>3
    <3> QED BY <2>8, <3>4
  <2>10. \A i \in m + 1 .. o - 1 : IsCode(w[i])
    BY <1>1, <2>4
  <2>11. l \in 1 .. o - 1 /\ m \in l .. o - 1
    BY <1>1, <2>4, <2>8
  <2> QED BY <1>2, <1>4, <2>4, <2>8, <2>9, <2>10, <2>11
<1> QED BY <1>3, <1>4

(* Codes between two offsets make no difference to the count.               *)
LEMMA NoneBetween ==
  ASSUME NEW w \in Word, NEW o \in Offsets(w), NEW n \in Offsets(w), o <= n,
         \A i \in o .. n - 1 : IsCode(w[i])
  PROVE  CharsBefore(w, n) = CharsBefore(w, o)
<1> DEFINE a == o - 1
           b == n - 1
<1>1. a \in 0 .. Len(w) /\ b \in a .. Len(w) /\ a + 1 = o
  BY DEF Offsets, Word
<1>2. /\ CharsBefore(w, o) = Len(ReadFcn(w, Plain)[a].chars)
      /\ CharsBefore(w, n) = Len(ReadFcn(w, Plain)[b].chars)
  BY BeforeAfter
<1>3. \A i \in a + 1 .. b : IsCode(w[i])
  BY <1>1
<1> HIDE DEF a, b
<1>4. ReadFcn(w, Plain)[b].chars = ReadFcn(w, Plain)[a].chars
  BY <1>1, <1>3, OnlyCodes
<1> QED BY <1>2, <1>4

LEMMA OneBetween ==
  ASSUME NEW w \in Word, NEW o \in Offsets(w), NEW n \in Offsets(w),
         NEW m \in o .. n - 1, ~IsCode(w[m]),
         \A i \in o .. m - 1 : IsCode(w[i]),
         \A i \in m + 1 .. n - 1 : IsCode(w[i])
  PROVE  CharsBefore(w, n) = CharsBefore(w, o) + 1
<1> DEFINE k == m + 1
           R == ReadFcn(w, Plain)
<1>1. /\ m \in Offsets(w) /\ k \in Offsets(w) /\ o <= m /\ k <= n
      /\ m \in 1 .. Len(w) /\ k - 1 = m
  BY DEF Offsets, Word
<1>2. CharsBefore(w, m) = Len(R[m - 1].chars) /\ CharsBefore(w, k) = Len(R[k - 1].chars)
  BY <1>1, BeforeAfter
<1>3. Len(R[m].chars) = Len(R[m - 1].chars) + 1
  BY <1>1, Counted
<1>4. CharsBefore(w, m) = CharsBefore(w, o)
  BY <1>1, NoneBetween
<1>5. CharsBefore(w, n) = CharsBefore(w, k)
  BY <1>1, NoneBetween
<1> HIDE DEF k, R
<1> QED BY <1>1, <1>2, <1>3, <1>4, <1>5

LEMMA CharsBeforeRange ==
  ASSUME NEW w \in Word, NEW o \in Offsets(w)
  PROVE  /\ CharsBefore(w, o) \in Nat /\ Len(Styled(w)) \in Nat
         /\ CharsBefore(w, o) <= Len(Styled(w))
         /\ CharsBefore(w, 1) = 0
         /\ CharsBefore(w, Len(w) + 1) = Len(Styled(w))
<1>1. CharsBefore(w, o) \in Nat /\ CharsBefore(w, o) <= Len(Styled(w))
  BY BeforeAfter
<1>2. Plain \in Style /\ Len(w) \in Nat /\ 1 - 1 = 0 /\ (Len(w) + 1) - 1 = Len(w)
  BY DEF Plain, Style, Word
<1>3. Len(Styled(w)) \in Nat
  <2>1. Styled(w) \in Seq(StyledChar)
    BY <1>2, StyledType DEF Styled
  <2> QED BY <2>1
<1>4. CharsBefore(w, 1) = 0
  <2>1. Before(w, 1) = <<>> /\ 1 \in Offsets(w)
    BY Ends
  <2>2. CharsBefore(w, 1) = Len(Before(w, 1))
    BY <2>1, BeforeAfter
  <2>3. Len(<<>>) = 0
    OBVIOUS
  <2> QED BY <2>1, <2>2, <2>3
<1>5. CharsBefore(w, Len(w) + 1) = Len(Styled(w))
  <2>1. Before(w, Len(w) + 1) = Styled(w) /\ Len(w) + 1 \in Offsets(w)
    BY Ends
  <2>2. CharsBefore(w, Len(w) + 1) = Len(Before(w, Len(w) + 1))
    BY <2>1, BeforeAfter
  <2> QED BY <2>1, <2>2
<1> QED BY <1>1, <1>3, <1>4, <1>5

LEMMA NextSteps ==
  ASSUME NEW w \in Word, NEW o \in Offsets(w)
  PROVE  LET n == NextCharInWord(w, o)
         IN  \/ n = 0 /\ CharsBefore(w, o) = Len(Styled(w))
             \/ /\ n # 0 /\ n \in Offsets(w)
                /\ CharsBefore(w, n) = CharsBefore(w, o) + 1
<1> DEFINE n == NextCharInWord(w, o)
           e == Len(w) + 1
<1>1. /\ o \in 1 .. Len(w) + 1 /\ Len(w) \in Nat
      /\ e \in Offsets(w) /\ o <= e /\ e - 1 = Len(w)
  BY DEF Offsets, Word
<1>2. \/ n = 0 /\ \A i \in o .. Len(w) : IsCode(w[i])
      \/ /\ n - 1 \in o .. Len(w) /\ ~IsCode(w[n - 1])
         /\ \A i \in o .. n - 2 : IsCode(w[i])
  BY NextIs
<1>3. n = 0 \/ n \in Nat
  <2> DEFINE chars == {i \in o .. Len(w) : ~IsCode(w[i])}
             m == CHOOSE i \in chars : \A j \in chars : i <= j
  <2>1. n = IF chars = {} THEN 0 ELSE m + 1
    BY Zenon DEF NextCharInWord
  <2>2. CASE chars = {}
    BY <2>1, <2>2
  <2>3. CASE chars # {}
    <3>1. \E i \in chars : \A j \in chars : i <= j
      <4>1. chars \subseteq Nat
        BY <1>1
      <4> HIDE DEF chars
      <4> QED BY <2>3, <4>1, NatMin
    <3>2. m \in chars
      <4> HIDE DEF chars
      <4> QED BY <3>1
    <3>3. m \in Nat
      <4> HIDE DEF m
      <4> QED BY <1>1, <3>2
    <3> HIDE DEF m, chars
    <3> QED BY <2>1, <2>3, <3>3
  <2> QED BY <2>2, <2>3
<1> HIDE DEF n
<1>4. CASE n = 0 /\ \A i \in o .. Len(w) : IsCode(w[i])
  <2>1. CharsBefore(w, e) = CharsBefore(w, o)
    <3> HIDE DEF e
    <3> QED BY <1>1, <1>4, NoneBetween
  <2> QED BY <1>4, <2>1, CharsBeforeRange DEF n
<1>5. CASE /\ n - 1 \in o .. Len(w) /\ ~IsCode(w[n - 1])
           /\ \A i \in o .. n - 2 : IsCode(w[i])
  <2> DEFINE m == n - 1
  <2>1. /\ n # 0 /\ n \in Offsets(w) /\ m \in o .. n - 1 /\ ~IsCode(w[m])
        /\ (\A i \in o .. m - 1 : IsCode(w[i])) /\ \A i \in m + 1 .. n - 1 : IsCode(w[i])
    BY <1>1, <1>3, <1>5 DEF Offsets
  <2> HIDE DEF m
  <2>2. CharsBefore(w, n) = CharsBefore(w, o) + 1
    BY <2>1, OneBetween
  <2> QED BY <2>1, <2>2 DEF n
<1> QED BY <1>2, <1>4, <1>5

LEMMA PrevSteps ==
  ASSUME NEW w \in Word, NEW o \in Offsets(w)
  PROVE  LET p == PrevCharInWord(w, o)
         IN  \/ p = 0 /\ CharsBefore(w, o) = 0
             \/ /\ p # 0 /\ p \in Offsets(w)
                /\ p = 1 \/ ~IsCode(w[p - 1])
                /\ CharsBefore(w, p) = CharsBefore(w, o) - 1
                /\ CharsBefore(w, o) # 0
<1> DEFINE p == PrevCharInWord(w, o)
<1>1. o \in 1 .. Len(w) + 1 /\ Len(w) \in Nat /\ 1 <= o /\ 1 \in Offsets(w)
  BY DEF Offsets, Word
<1>2. \/ p = 0 /\ \A i \in 1 .. o - 1 : IsCode(w[i])
      \/ /\ p \in 1 .. o - 1
         /\ p = 1 \/ ~IsCode(w[p - 1])
         /\ \E m \in p .. o - 1 :
              /\ ~IsCode(w[m])
              /\ \A i \in m + 1 .. o - 1 : IsCode(w[i])
              /\ \A i \in p .. m - 1 : IsCode(w[i])
  BY PrevIs
<1> HIDE DEF p
<1>3. CASE p = 0 /\ \A i \in 1 .. o - 1 : IsCode(w[i])
  <2>1. CharsBefore(w, o) = CharsBefore(w, 1)
    BY <1>1, <1>3, NoneBetween
  <2> QED BY <1>3, <2>1, CharsBeforeRange DEF p
<1>4. CASE /\ p \in 1 .. o - 1
           /\ p = 1 \/ ~IsCode(w[p - 1])
           /\ \E m \in p .. o - 1 :
                /\ ~IsCode(w[m])
                /\ \A i \in m + 1 .. o - 1 : IsCode(w[i])
                /\ \A i \in p .. m - 1 : IsCode(w[i])
  <2>1. p # 0 /\ p \in Offsets(w)
    BY <1>1, <1>4 DEF Offsets
  <2>2. CharsBefore(w, o) = CharsBefore(w, p) + 1
    BY <1>4, <2>1, OneBetween
  <2>3. CharsBefore(w, p) \in Nat
    BY <2>1, CharsBeforeRange
  <2> QED BY <1>4, <2>1, <2>2, <2>3 DEF p
<1> QED BY <1>2, <1>3, <1>4

LEMMA Stepped ==
  ASSUME NEW w \in Word, NEW o \in Offsets(w)
  PROVE  LET n == NextCharInWord(w, o)
             p == PrevCharInWord(w, o)
         IN  /\ n = 0 <=> CharsBefore(w, o) = Len(Styled(w))
             /\ p = 0 <=> CharsBefore(w, o) = 0
             /\ n # 0 => /\ CharsBefore(w, n) = CharsBefore(w, o) + 1
                         /\ CharsBefore(w, PrevCharInWord(w, n)) = CharsBefore(w, o)
             /\ p # 0 => /\ CharsBefore(w, p) = CharsBefore(w, o) - 1
                         /\ p = 1 \/ ~IsCode(w[p - 1])
<1> DEFINE n == NextCharInWord(w, o)
           p == PrevCharInWord(w, o)
           q == PrevCharInWord(w, n)
           c == CharsBefore(w, o)
           size == Len(Styled(w))
<1>1. c \in Nat /\ size \in Nat /\ c <= size
  BY CharsBeforeRange
<1>2. \/ n = 0 /\ c = size
      \/ n # 0 /\ n \in Offsets(w) /\ CharsBefore(w, n) = c + 1
  BY NextSteps
<1>3. \/ p = 0 /\ c = 0
      \/ /\ p # 0 /\ (p = 1 \/ ~IsCode(w[p - 1]))
         /\ CharsBefore(w, p) = c - 1 /\ c # 0
  BY PrevSteps
<1> HIDE DEF n, p, c, size
<1>4. n # 0 => n \in Offsets(w) /\ CharsBefore(w, n) = c + 1 /\ c + 1 <= size
  <2>1. n # 0 => CharsBefore(w, n) <= size
    BY <1>2, CharsBeforeRange DEF size
  <2> QED BY <1>2, <2>1
<1>5. n # 0 => CharsBefore(w, q) = c
  <2> SUFFICES ASSUME n # 0 PROVE CharsBefore(w, q) = c
    OBVIOUS
  <2>1. \/ q = 0 /\ CharsBefore(w, n) = 0
        \/ CharsBefore(w, q) = CharsBefore(w, n) - 1
    BY <1>4, PrevSteps
  <2> HIDE DEF q
  <2> QED BY <1>1, <1>4, <2>1
<1>6. n = 0 <=> c = size
  BY <1>1, <1>2, <1>4
<1> QED BY <1>1, <1>3, <1>4, <1>5, <1>6 DEF n, p, q, c, size

-----------------------------------------------------------------------------
(* Offsets that have nothing to do with the word.                           *)

(* Whatever is deleted, a word is left: of an offset behind the end nothing *)
(* is read.                                                                 *)
LEMMA DeletedType ==
  ASSUME NEW w \in Word, NEW first \in Nat \ {0}, NEW next \in Nat
  PROVE  DeleteFromWord(w, first, next) \in Word
<1> DEFINE n == Len(w)
           before == CopyRange(Begun, w, 1, first - 1)
           resume == IF next > first THEN next ELSE first
           c == [before EXCEPT !.sstate = StyleAt(w, resume)]
<1>1. n \in Nat /\ Begun \in CState
  BY BegunCoherent, CoherentType DEF Word
<1>2. CASE first > n + 1
  <2>1. DeleteFromWord(w, first, next) = CopyRange(Begun, w, 1, n).out
    BY <1>2, Zenon DEF DeleteFromWord, Begun, n
  <2>2. CopyRange(Begun, w, 1, n) \in CState
    BY <1>1, CopyRangeStep
  <2> QED BY <2>1, <2>2 DEF CState
<1>3. CASE ~(first > n + 1)
  <2>1. DeleteFromWord(w, first, next) = CopyRange(c, w, resume, n).out
    BY <1>3, Zenon DEF DeleteFromWord, Begun, n
  <2>2. CASE resume <= n + 1
    <3>1. first \in Offsets(w) /\ resume \in Offsets(w) /\ first <= resume
      BY <1>1, <1>3, <2>2 DEF Offsets
    <3>2. DeleteFromWord(w, first, next) = DeleteFromWord(w, first, resume)
      BY DEF DeleteFromWord
    <3> HIDE DEF resume
    <3> QED BY <3>1, <3>2, Deleted
  <2>3. CASE ~(resume <= n + 1)
    <3>1. n < resume
      BY <1>1, <2>3
    <3> HIDE DEF resume, n
    <3>2. CopyRange(c, w, resume, n) = c
      BY <3>1 DEF CopyRange
    <3>3. before \in CState
      <4>1. first - 1 \in Nat /\ first - 1 <= Len(w)
        BY <1>1, <1>3 DEF n
      <4> QED BY <1>1, <4>1, CopyRangeStep
    <3> HIDE DEF before
    <3>4. c.out = before.out
      BY <3>3 DEF CState
    <3> QED BY <2>1, <3>2, <3>3, <3>4 DEF CState
  <2> QED BY <2>2, <2>3
<1> QED BY <1>2, <1>3

(* The same for a style, and the cursor is at least moved to an offset.     *)
LEMMA AppliedType ==
  ASSUME NEW w \in Word, NEW sor \in Style, NEW sand \in Style,
         NEW first, NEW next, NEW cursor
  PROVE  LET r == ApplyStyleToWord(w, sor, sand, first, next, cursor)
         IN  r.word \in Word /\ r.cursor \in Nat \ {0}
<1> DEFINE u == ApplyFcn(w, sor, sand, first, next)
           n == Len(w)
           r == ApplyStyleToWord(w, sor, sand, first, next, cursor)
           moved == IF cursor \notin 1 .. n + 1 THEN 1
                    ELSE IF cursor > n THEN Len(u[n].out) + 1
                    ELSE IF IsCode(w[cursor]) THEN Len(u[cursor].out) + 1
                    ELSE Len(u[cursor].out)
<1>1. r = [word |-> u[n].out, cursor |-> moved]
  BY ApplyIs
<1>2. n \in Nat /\ \A i \in 1 .. n : w[i] \in Elem
  BY DEF Word, Elem
<1>3. /\ \A i \in 0 .. n : u[i] \in CState
      /\ \A i \in 1 .. n :
           u[i] = Copy(u[i - 1], w[i], OrAt(sor, first, next, i), AndAt(sand, first, next, i))
  BY ApplyFcnStep DEF IsApply
<1> HIDE DEF u, r
<1>4. \A i \in 0 .. n : u[i].out \in Word /\ Len(u[i].out) \in Nat
  BY <1>3 DEF CState, Word
<1>5. ASSUME NEW i \in 1 .. n, ~IsCode(w[i]) PROVE Len(u[i].out) >= 1
  <2> DEFINE e == (u[i - 1].sstate \cap AndAt(sand, first, next, i)) \cup OrAt(sor, first, next, i)
             c == u[i - 1]
             x == w[i]
             y == IF c.dstate = e THEN <<x>> ELSE <<e, x>>
  <2>1. i - 1 \in 0 .. n
    BY <1>2
  <2>2. c \in CState /\ c.out \in Word /\ x \in Elem /\ e \in Style
    <3>1. c \in CState /\ x \in Elem
      BY <1>2, <1>3, <2>1
    <3>2. OrAt(sor, first, next, i) \in Style
      BY MaskType
    <3> QED BY <3>1, <3>2 DEF CState, Style
  <2>3. u[i] = [c EXCEPT !.out = c.out \o y, !.dstate = e]
    BY <1>3, <1>5 DEF Copy
  <2> HIDE DEF c, e, x
  <2>4. u[i].out = c.out \o y
    BY <2>2, <2>3 DEF CState
  <2>5. y \in Word /\ Len(y) >= 1
    <3>1. <<x>> \in Word /\ Len(<<x>>) = 1 /\ <<e, x>> \in Word /\ Len(<<e, x>>) = 2
      BY <2>2 DEF Word, Elem
    <3> QED BY <3>1
  <2> HIDE DEF y
  <2>6. Len(c.out \o y) = Len(c.out) + Len(y) /\ Len(c.out) \in Nat /\ Len(y) \in Nat
    BY <2>2, <2>5 DEF Word
  <2> QED BY <2>4, <2>5, <2>6
<1>6. moved \in Nat \ {0}
  <2>1. CASE cursor \notin 1 .. n + 1
    BY <2>1
  <2>2. CASE cursor \in 1 .. n + 1 /\ cursor > n
    <3>1. n \in 0 .. n
      BY <1>2
    <3>2. Len(u[n].out) + 1 \in Nat \ {0}
      BY <1>4, <3>1
    <3> QED BY <2>2, <3>2
  <2>3. CASE cursor \in 1 .. n + 1 /\ ~(cursor > n)
    <3>1. cursor \in 1 .. n /\ cursor \in 0 .. n
      BY <1>2, <2>3
    <3>2. Len(u[cursor].out) \in Nat
      BY <1>4, <3>1
    <3> QED BY <1>5, <2>3, <3>1, <3>2
  <2> QED BY <2>1, <2>2, <2>3
<1> HIDE DEF moved
<1>7. n \in 0 .. n
  BY <1>2
<1> QED BY <1>1, <1>4, <1>6, <1>7 DEF r

(* A step leads to an offset, or to none.                                   *)
LEMMA StepType ==
  ASSUME NEW w, Len(w) \in Nat, NEW o \in Nat
  PROVE  NextCharInWord(w, o) \in Nat /\ PrevCharInWord(w, o) \in Nat
<1>1. NextCharInWord(w, o) \in Nat
  <2> DEFINE chars == {i \in o .. Len(w) : ~IsCode(w[i])}
             m == CHOOSE i \in chars : \A j \in chars : i <= j
  <2>1. NextCharInWord(w, o) = IF chars = {} THEN 0 ELSE m + 1
    BY Zenon DEF NextCharInWord
  <2>2. chars \subseteq Nat
    OBVIOUS
  <2> HIDE DEF chars
  <2>3. chars # {} => \E i \in chars : \A j \in chars : i <= j
    BY <2>2, NatMin
  <2>4. chars # {} => m \in chars
    BY <2>3
  <2> HIDE DEF m
  <2>5. chars # {} => m \in Nat
    BY <2>2, <2>4
  <2> QED BY <2>1, <2>5
<1>2. PrevCharInWord(w, o) \in Nat
  <2> DEFINE chars == {i \in 1 .. o - 1 : ~IsCode(w[i])}
             m == CHOOSE i \in chars : \A j \in chars : j <= i
             free == {k \in 1 .. m : \A i \in k .. m - 1 : IsCode(w[i])}
             l == CHOOSE k \in free : \A j \in free : k <= j
  <2>1. PrevCharInWord(w, o) = IF chars = {} THEN 0 ELSE l
    BY Zenon DEF PrevCharInWord
  <2>2. chars \subseteq 0 .. o /\ chars \subseteq 1 .. o
    OBVIOUS
  <2>3. chars # {} => m \in chars
    <3> HIDE DEF chars
    <3>1. chars # {} => \E i \in chars : \A j \in chars : j <= i
      BY <2>2, NatMax
    <3> QED BY <3>1
  <2> HIDE DEF chars, m
  <2>4. chars # {} => m \in free
    <3> SUFFICES ASSUME chars # {} PROVE m \in free
      OBVIOUS
    <3>1. m \in 1 .. o
      BY <2>2, <2>3
    <3>2. m \in 1 .. m /\ \A i \in m .. m - 1 : FALSE
      BY <3>1
    <3> QED BY <3>2
  <2>5. free \subseteq Nat
    OBVIOUS
  <2> HIDE DEF free
  <2>6. chars # {} => \E k \in free : \A j \in free : k <= j
    <3>1. chars # {} => free # {}
      BY <2>4
    <3> QED BY <2>5, <3>1, NatMin
  <2>7. chars # {} => l \in free
    BY <2>6
  <2> HIDE DEF l
  <2>8. chars # {} => l \in Nat
    BY <2>5, <2>7
  <2> QED BY <2>1, <2>8
<1> QED BY <1>1, <1>2

(* Back over a character, and the codes before it, and forward again.       *)
LEMMA BackAndForth ==
  ASSUME NEW w \in Word, NEW o \in Offsets(w), PrevCharInWord(w, o) # 0
  PROVE  NextCharInWord(w, PrevCharInWord(w, o)) \in Offsets(w)
<1> DEFINE p == PrevCharInWord(w, o)
           n == NextCharInWord(w, p)
<1>1. o \in 1 .. Len(w) + 1 /\ Len(w) \in Nat
  BY DEF Offsets, Word
<1>2. /\ p \in 1 .. o - 1
      /\ \E m \in p .. o - 1 : ~IsCode(w[m])
  BY PrevIs
<1> HIDE DEF p
<1>3. p \in Offsets(w)
  BY <1>1, <1>2 DEF Offsets
<1>4. \/ n = 0 /\ \A i \in p .. Len(w) : IsCode(w[i])
      \/ n - 1 \in p .. Len(w)
  BY <1>3, NextIs
<1>5. ~ \A i \in p .. Len(w) : IsCode(w[i])
  BY <1>1, <1>2
<1>6. n \in Nat
  BY <1>1, <1>2, StepType DEF p
<1> HIDE DEF n
<1>7. n \in Offsets(w)
  BY <1>1, <1>2, <1>4, <1>5, <1>6 DEF Offsets
<1> QED BY <1>7 DEF n, p

-----------------------------------------------------------------------------
(* The text of a word: its characters without their styles.                 *)

Firsts(s) == [i \in DOMAIN s |-> s[i][1]]

LEMMA FirstsIs ==
  ASSUME NEW s \in Seq(StyledChar)
  PROVE  /\ Firsts(s) \in Seq(Char) /\ Len(Firsts(s)) = Len(s) /\ Len(s) \in Nat
         /\ \A i \in 1 .. Len(s) : Firsts(s)[i] = s[i][1]
<1>1. Len(s) \in Nat /\ DOMAIN s = 1 .. Len(s) /\ \A i \in 1 .. Len(s) : s[i] \in Char \X Style
  BY DEF StyledChar
<1>2. \A i \in 1 .. Len(s) : s[i][1] \in Char
  BY <1>1
<1> DEFINE f == Firsts(s)
           n == Len(s)
<1>3. f = [i \in 1 .. n |-> s[i][1]]
  BY <1>1 DEF Firsts
<1> HIDE DEF f, n
<1>4. f \in [1 .. n -> Char] /\ \A i \in 1 .. n : f[i] = s[i][1]
  BY <1>2, <1>3 DEF n
<1>5. f \in Seq(Char) /\ Len(f) = n
  BY <1>1, <1>4, SeqDef DEF n
<1> QED BY <1>1, <1>4, <1>5 DEF f, n

LEMMA FirstsEmpty == Firsts(<<>>) = <<>>
<1>1. <<>> \in Seq(StyledChar) /\ Len(<<>>) = 0
  OBVIOUS
<1>2. Firsts(<<>>) \in Seq(Char) /\ Len(Firsts(<<>>)) = 0
  BY <1>1, FirstsIs
<1> QED BY <1>2, EmptySeq

LEMMA FirstsConcat ==
  ASSUME NEW s \in Seq(StyledChar), NEW t \in Seq(StyledChar)
  PROVE  Firsts(s \o t) = Firsts(s) \o Firsts(t)
<1> DEFINE u == s \o t
           p == Firsts(s)
           q == Firsts(t)
           f == Firsts(u)
<1>1. /\ u \in Seq(StyledChar) /\ Len(u) = Len(s) + Len(t)
      /\ \A i \in 1 .. Len(s) + Len(t) : u[i] = IF i <= Len(s) THEN s[i] ELSE t[i - Len(s)]
  BY ConcatProperties
<1>2. /\ p \in Seq(Char) /\ Len(p) = Len(s) /\ Len(s) \in Nat
      /\ \A i \in 1 .. Len(s) : p[i] = s[i][1]
  BY FirstsIs
<1>3. /\ q \in Seq(Char) /\ Len(q) = Len(t) /\ Len(t) \in Nat
      /\ \A i \in 1 .. Len(t) : q[i] = t[i][1]
  BY FirstsIs
<1>4. /\ f \in Seq(Char) /\ Len(f) = Len(s) + Len(t)
      /\ \A i \in 1 .. Len(s) + Len(t) : f[i] = u[i][1]
  <2> HIDE DEF u
  <2>1. f \in Seq(Char) /\ Len(f) = Len(u) /\ \A i \in 1 .. Len(u) : f[i] = u[i][1]
    BY <1>1, FirstsIs
  <2> QED BY <1>1, <2>1
<1> HIDE DEF u, p, q, f
<1>5. /\ p \o q \in Seq(Char) /\ Len(p \o q) = Len(p) + Len(q)
      /\ \A i \in 1 .. Len(p) + Len(q) : (p \o q)[i] = IF i <= Len(p) THEN p[i] ELSE q[i - Len(p)]
  <2>1. p \in Seq(Char) /\ q \in Seq(Char)
    BY <1>2, <1>3
  <2> QED BY <2>1, ConcatProperties
<1>6. ASSUME NEW i \in 1 .. Len(f) PROVE f[i] = (p \o q)[i]
  <2>1. i \in 1 .. Len(s) + Len(t)
    BY <1>4
  <2>2. CASE i <= Len(s)
    <3>1. i \in 1 .. Len(s)
      BY <1>2, <2>1, <2>2
    <3>2. u[i] = s[i] /\ (p \o q)[i] = p[i] /\ f[i] = u[i][1]
      BY <1>1, <1>2, <1>3, <1>4, <1>5, <2>1, <2>2
    <3> QED BY <1>2, <3>1, <3>2
  <2>3. CASE ~(i <= Len(s))
    <3> DEFINE j == i - Len(s)
    <3>1. j \in 1 .. Len(t)
      BY <1>2, <1>3, <2>1, <2>3
    <3>2. u[i] = t[j] /\ (p \o q)[i] = q[j] /\ f[i] = u[i][1]
      BY <1>1, <1>2, <1>3, <1>4, <1>5, <2>1, <2>3
    <3> HIDE DEF j
    <3> QED BY <1>3, <3>1, <3>2
  <2> QED BY <2>2, <2>3
<1>7. Len(f) = Len(p \o q)
  BY <1>2, <1>3, <1>4, <1>5
<1>8. f = p \o q
  BY <1>4, <1>5, <1>6, <1>7, SeqEqual
<1> QED BY <1>8 DEF f, p, q, u

TextFcn(w) ==
  CHOOSE u : u = [i \in 0 .. Len(w) |->
                    IF i = 0 THEN <<>>
                    ELSE IF IsCode(w[i]) THEN u[i - 1] ELSE Append(u[i - 1], w[i])]

(* One element more is read. *)
LEMMA TextRead ==
  ASSUME NEW w \in Word, NEW style \in Style, NEW i \in 1 .. Len(w)
  PROVE  Firsts(ReadFcn(w, style)[i].chars) =
           IF IsCode(w[i]) THEN Firsts(ReadFcn(w, style)[i - 1].chars)
           ELSE Append(Firsts(ReadFcn(w, style)[i - 1].chars), w[i])
<1> DEFINE n == Len(w)
           R == ReadFcn(w, style)
           f == [k \in 0 .. n |-> Firsts(R[k].chars)]
<1>1. /\ n \in Nat /\ R \in [0 .. n -> RState] /\ R[0] = Unread(style)
      /\ \A k \in 1 .. n : R[k] = Read(R[k - 1], w[k]) /\ w[k] \in Elem
      /\ Reading(w, style) = R[n]
  BY ReadFcnStep DEF Word, Elem
<1> HIDE DEF R
<1>3. f[i] = IF IsCode(w[i]) THEN f[i - 1] ELSE Append(f[i - 1], w[i])
  <2> DEFINE r == R[i - 1]
             x == w[i]
  <2>1. /\ r \in RState /\ R[i] = Read(r, x) /\ x \in Elem
        /\ f[i] = Firsts(R[i].chars) /\ f[i - 1] = Firsts(r.chars)
    BY <1>1
  <2> HIDE DEF r, x, f
  <2>2. r.chars \in Seq(StyledChar) /\ r.style \in Style
    BY <2>1 DEF RState, StyledChar
  <2>3. CASE IsCode(x)
    BY <2>1, <2>3, ReadCases DEF x
  <2>4. CASE ~IsCode(x)
    <3> DEFINE y == <<x, r.style>>
               h == <<y>>
    <3>1. y \in StyledChar /\ y[1] = x
      BY <2>1, <2>2, <2>4 DEF StyledChar, Elem, IsCode
    <3>2. R[i].chars = Append(r.chars, y)
      BY <2>1, <2>4, ReadCases
    <3> HIDE DEF y
    <3>3. h \in Seq(StyledChar) /\ Len(h) = 1 /\ h[1] = y
      BY <3>1
    <3>4. Append(r.chars, y) = r.chars \o h
      BY <2>2, <3>1, AppendIsConcat
    <3> HIDE DEF h
    <3>5. Firsts(r.chars \o h) = Firsts(r.chars) \o Firsts(h)
      BY <2>2, <3>3, FirstsConcat
    <3>6. Firsts(h) = <<x>>
      <4> DEFINE g == Firsts(h)
                 k == <<x>>
      <4>1. g \in Seq(Char) /\ Len(g) = 1 /\ g[1] = x
        <5>1. 1 \in 1 .. Len(h)
          BY <3>3
        <5> QED BY <3>1, <3>3, <5>1, FirstsIs
      <4> HIDE DEF g
      <4>2. x \in Char
        BY <2>1, <2>4 DEF Elem, IsCode
      <4>3. k \in Seq(Char) /\ Len(k) = 1 /\ k[1] = x
        BY <4>2
      <4> HIDE DEF k
      <4>4. \A j \in 1 .. Len(g) : g[j] = k[j]
        <5>1. \A j \in 1 .. Len(g) : j = 1
          BY <4>1
        <5> QED BY <4>1, <4>3, <5>1
      <4>5. g = k
        BY <4>1, <4>3, <4>4, SeqEqual
      <4> QED BY <4>5 DEF g, k
    <3>7. Append(Firsts(r.chars), x) = Firsts(r.chars) \o <<x>>
      <4>1. x \in Char
        BY <2>1, <2>4 DEF Elem, IsCode
      <4>2. Firsts(r.chars) \in Seq(Char)
        BY <2>2, FirstsIs
      <4> QED BY <4>1, <4>2, AppendIsConcat
    <3> QED BY <2>1, <2>4, <3>2, <3>4, <3>5, <3>6, <3>7 DEF x
  <2> QED BY <2>3, <2>4
<1>4. i \in 0 .. n /\ i - 1 \in 0 .. n
  BY <1>1
<1> QED BY <1>3, <1>4 DEF R

(* getwordtext reads the characters, whatever their styles.                 *)
LEMMA TextIs ==
  ASSUME NEW w \in Word, NEW style \in Style
  PROVE  GetWordText(w) = Firsts(StyledFrom(w, style))
<1> DEFINE n == Len(w)
           R == ReadFcn(w, style)
           f == [i \in 0 .. n |-> Firsts(R[i].chars)]
           Eq(u) == u = [i \in 0 .. Len(w) |->
                    IF i = 0 THEN <<>>
                    ELSE IF IsCode(w[i]) THEN u[i - 1] ELSE Append(u[i - 1], w[i])]
<1>1. /\ n \in Nat /\ R \in [0 .. n -> RState] /\ R[0] = Unread(style)
      /\ \A i \in 1 .. n : R[i] = Read(R[i - 1], w[i]) /\ w[i] \in Elem
      /\ Reading(w, style) = R[n]
  BY ReadFcnStep DEF Word, Elem
<1> HIDE DEF R
<1>2. f[0] = <<>>
  BY <1>1, FirstsEmpty DEF Unread
<1>3. ASSUME NEW i \in 1 .. n
      PROVE  f[i] = IF IsCode(w[i]) THEN f[i - 1] ELSE Append(f[i - 1], w[i])
  <2>1. i \in 0 .. n /\ i - 1 \in 0 .. n
    BY <1>1
  <2> QED BY <2>1, TextRead DEF R
<1>4. Eq(f)
  <2>1. \A i \in 0 .. n : f[i] = IF i = 0 THEN <<>>
                    ELSE IF IsCode(w[i]) THEN f[i - 1] ELSE Append(f[i - 1], w[i])
    <3> HIDE DEF f
    <3>1. \A i \in 0 .. n : i # 0 => i \in 1 .. n
      BY <1>1
    <3> QED BY <1>2, <1>3, <3>1
  <2>2. f = [i \in 0 .. n |-> f[i]]
    OBVIOUS
  <2> HIDE DEF f
  <2> QED BY <2>1, <2>2
<1> DEFINE u == TextFcn(w)
<1>5. Eq(u)
  <2> HIDE DEF Eq, f
  <2>1. u = CHOOSE v : Eq(v)
    BY Zenon DEF TextFcn, Eq
  <2> QED BY <1>4, <2>1
<1> DEFINE V == {k \in 0 .. n : u[k] = f[k]}
<1>6. GetWordText(w) = u[n]
  BY Zenon DEF GetWordText, TextFcn
<1>7. f[n] = Firsts(StyledFrom(w, style))
  <2>1. n \in 0 .. n
    BY <1>1
  <2> QED BY <1>1, <2>1 DEF StyledFrom
<1> HIDE DEF u, f
<1>8. /\ u[0] = <<>>
      /\ \A i \in 1 .. n : u[i] = IF IsCode(w[i]) THEN u[i - 1] ELSE Append(u[i - 1], w[i])
  <2>1. 0 \in 0 .. n /\ \A i \in 1 .. n : i \in 0 .. n /\ i # 0
    BY <1>1
  <2>2. \A i \in 0 .. n : u[i] = IF i = 0 THEN <<>>
               ELSE IF IsCode(w[i]) THEN u[i - 1] ELSE Append(u[i - 1], w[i])
    BY <1>5, Zenon
  <2> HIDE DEF n, Eq
  <2> QED BY <2>1, <2>2
<1>9. 0 \in V
  BY <1>1, <1>2, <1>8
<1>10. ASSUME NEW k \in 0 .. n - 1, k \in V PROVE k + 1 \in V
  <2>1. k + 1 \in 1 .. n /\ (k + 1) - 1 = k /\ k + 1 \in 0 .. n
    BY <1>1
  <2>2. u[k] = f[k]
    BY <1>10
  <2>3. u[k + 1] = IF IsCode(w[k + 1]) THEN u[k] ELSE Append(u[k], w[k + 1])
    BY <1>8, <2>1
  <2>4. f[k + 1] = IF IsCode(w[k + 1]) THEN f[k] ELSE Append(f[k], w[k + 1])
    BY <1>3, <2>1
  <2> QED BY <2>1, <2>2, <2>3, <2>4
<1>11. n \in V
  <2>1. n \in 0 .. n
    BY <1>1
  <2> HIDE DEF V, n
  <2> QED BY <1>1, <1>9, <1>10, <2>1, Induction DEF n
<1> QED BY <1>6, <1>7, <1>11

(* The text on either side of an offset.                                    *)
TextTo(w, o) == GetWordText(SubSeq(w, 1, o - 1))
TextFrom(w, o) == Firsts(After(w, o))

LEMMA TextType ==
  ASSUME NEW w \in Word
  PROVE  GetWordText(w) = Firsts(Styled(w)) /\ GetWordText(w) \in Seq(Char)
<1>1. Plain \in Style
  BY DEF Plain, Style
<1>2. GetWordText(w) = Firsts(Styled(w)) /\ Styled(w) \in Seq(StyledChar)
  BY <1>1, TextIs, StyledType DEF Styled
<1> QED BY <1>2, FirstsIs

LEMMA TextAround ==
  ASSUME NEW w \in Word, NEW o \in Offsets(w)
  PROVE  /\ TextTo(w, o) = Firsts(Before(w, o))
         /\ TextTo(w, o) \in Seq(Char) /\ TextFrom(w, o) \in Seq(Char)
         /\ GetWordText(w) = TextTo(w, o) \o TextFrom(w, o)
<1> DEFINE a == o - 1
           r == ReadFcn(w, Plain)[a]
           u == SubSeq(w, 1, a)
<1>1. /\ a \in 0 .. Len(w) /\ Before(w, o) = r.chars
      /\ Before(w, o) \in Seq(StyledChar) /\ After(w, o) \in Seq(StyledChar)
      /\ Styled(w) = Before(w, o) \o After(w, o)
  BY BeforeAfter
<1>2. u \in Word /\ Styled(u) = r.chars
  <2> HIDE DEF a
  <2> QED BY <1>1, PrefixType, Offset
<1>3. TextTo(w, o) = GetWordText(u)
  BY DEF TextTo
<1> HIDE DEF u, r
<1>4. TextTo(w, o) = Firsts(Before(w, o))
  BY <1>1, <1>2, <1>3, TextType
<1>5. Firsts(Before(w, o) \o After(w, o)) = Firsts(Before(w, o)) \o Firsts(After(w, o))
  BY <1>1, FirstsConcat
<1>6. Firsts(Before(w, o)) \in Seq(Char) /\ Firsts(After(w, o)) \in Seq(Char)
  BY <1>1, FirstsIs
<1> QED BY <1>1, <1>4, <1>5, <1>6, TextType DEF TextFrom

(* The text up to an offset, and up to the next one.                        *)
LEMMA TextOn ==
  ASSUME NEW w \in Word, NEW o \in 1 .. Len(w)
  PROVE  TextTo(w, o + 1) =
           IF IsCode(w[o]) THEN TextTo(w, o) ELSE Append(TextTo(w, o), w[o])
<1>1. Plain \in Style
  BY DEF Plain, Style
<1>2. o \in Offsets(w) /\ o + 1 \in Offsets(w) /\ (o + 1) - 1 = o
  BY Offset DEF Word, Offsets
<1>3. /\ TextTo(w, o) = Firsts(ReadFcn(w, Plain)[o - 1].chars)
      /\ TextTo(w, o + 1) = Firsts(ReadFcn(w, Plain)[o].chars)
  BY <1>2, TextAround, BeforeAfter
<1> QED BY <1>1, <1>3, TextRead

LEMMA TextEnds ==
  ASSUME NEW w \in Word
  PROVE  /\ TextTo(w, 1) = <<>> /\ TextFrom(w, 1) = GetWordText(w)
         /\ TextTo(w, Len(w) + 1) = GetWordText(w) /\ TextFrom(w, Len(w) + 1) = <<>>
<1>1. /\ 1 \in Offsets(w) /\ Len(w) + 1 \in Offsets(w)
      /\ Before(w, 1) = <<>> /\ After(w, 1) = Styled(w)
      /\ Before(w, Len(w) + 1) = Styled(w) /\ After(w, Len(w) + 1) = <<>>
  BY Ends
<1>2. TextTo(w, 1) = Firsts(<<>>) /\ TextTo(w, Len(w) + 1) = Firsts(Styled(w))
  BY <1>1, TextAround
<1> QED BY <1>1, <1>2, TextType, FirstsEmpty DEF TextFrom

LEMMA TextDeleted ==
  ASSUME NEW w \in Word, NEW first \in Offsets(w), NEW next \in Offsets(w), first <= next
  PROVE  GetWordText(DeleteFromWord(w, first, next)) = TextTo(w, first) \o TextFrom(w, next)
<1> DEFINE r == DeleteFromWord(w, first, next)
<1>1. r \in Word /\ Styled(r) = Before(w, first) \o After(w, next)
  BY Deleted
<1> HIDE DEF r
<1>2. Before(w, first) \in Seq(StyledChar) /\ After(w, next) \in Seq(StyledChar)
  BY BeforeAfter
<1>3. GetWordText(r) = Firsts(Before(w, first)) \o Firsts(After(w, next))
  BY <1>1, <1>2, TextType, FirstsConcat
<1> QED BY <1>3, TextAround DEF TextFrom, r

(* The halves of a word that is cut in two.                                 *)
LEMMA TextCut ==
  ASSUME NEW w \in Word, NEW o \in Offsets(w)
  PROVE  /\ GetWordText(DeleteFromWord(w, o, Len(w) + 1)) = TextTo(w, o)
         /\ GetWordText(DeleteFromWord(w, 1, o)) = TextFrom(w, o)
<1>1. 1 \in Offsets(w) /\ Len(w) + 1 \in Offsets(w) /\ 1 <= o /\ o <= Len(w) + 1
  BY Ends DEF Offsets
<1>2. TextTo(w, o) \in Seq(Char) /\ TextFrom(w, o) \in Seq(Char)
  BY TextAround
<1>3. GetWordText(DeleteFromWord(w, o, Len(w) + 1)) = TextTo(w, o) \o <<>>
  BY <1>1, TextDeleted, TextEnds
<1>4. GetWordText(DeleteFromWord(w, 1, o)) = <<>> \o TextFrom(w, o)
  BY <1>1, TextDeleted, TextEnds
<1>5. TextTo(w, o) \o <<>> = TextTo(w, o) /\ <<>> \o TextFrom(w, o) = TextFrom(w, o)
  BY <1>2, ConcatEmptySeq
<1> QED BY <1>3, <1>4, <1>5

LEMMA TextPrimed ==
  ASSUME NEW w \in Word, NEW hint \in Style
  PROVE  /\ StylePrime(hint) \o w \in Word
         /\ GetWordText(StylePrime(hint) \o w) = GetWordText(w)
<1>1. StylePrime(hint) \o w \in Word /\ Styled(StylePrime(hint) \o w) = Styled(w)
  BY Hinted
<1> QED BY <1>1, TextType

LEMMA TextInserted ==
  ASSUME NEW w \in Word, NEW ins \in Word, NEW o \in Offsets(w), NEW style \in Style
  PROVE  LET r == InsertIntoWord(w, ins, o, style)
         IN  /\ TextTo(r.word, r.stop) = TextTo(w, o) \o GetWordText(ins)
             /\ GetWordText(r.word) = (TextTo(w, o) \o GetWordText(ins)) \o TextFrom(w, o)
<1> DEFINE r == InsertIntoWord(w, ins, o, style)
           v == r.word
           b == Before(w, o)
           a == After(w, o)
           i == StyledFrom(ins, style)
           bi == b \o i
<1>1. /\ v \in Word /\ Styled(v) = b \o i \o a
      /\ CharsBefore(v, r.stop) = CharsBefore(w, o) + Len(i)
      /\ r.stop \in Offsets(v)
  BY Inserted
<1>2. b \in Seq(StyledChar) /\ a \in Seq(StyledChar) /\ CharsBefore(w, o) = Len(b)
  BY BeforeAfter
<1>3. i \in Seq(StyledChar)
  BY StyledType
<1> DEFINE stop == r.stop
<1> HIDE DEF r, b, a, i, v, stop
<1>4. /\ bi \in Seq(StyledChar) /\ Len(bi) = Len(b) + Len(i) /\ Len(bi) \in Nat
      /\ Styled(v) = bi \o a
  <2>1. bi \in Seq(StyledChar) /\ Len(bi) = Len(b) + Len(i)
    BY <1>2, <1>3, ConcatProperties
  <2> QED BY <1>1, <2>1
<1>5. Firsts(bi) = Firsts(b) \o Firsts(i)
  BY <1>2, <1>3, FirstsConcat
<1>6. Firsts(bi \o a) = Firsts(bi) \o Firsts(a)
  <2> HIDE DEF bi
  <2> QED BY <1>2, <1>4, FirstsConcat
<1>7. Before(v, stop) = bi
  <2> HIDE DEF bi
  <2>1. Before(v, stop) = SubSeq(bi \o a, 1, Len(bi))
    BY <1>1, <1>2, <1>4 DEF Before, stop
  <2> QED BY <1>2, <1>4, <2>1, SubSeqOfConcat1
<1> HIDE DEF bi
<1>8. Firsts(b) = TextTo(w, o) /\ Firsts(i) = GetWordText(ins) /\ Firsts(a) = TextFrom(w, o)
  BY TextAround, TextIs DEF b, i, a, TextFrom
<1>9. GetWordText(v) = (Firsts(b) \o Firsts(i)) \o Firsts(a)
  BY <1>1, <1>4, <1>5, <1>6, TextType
<1>10. TextTo(v, stop) = Firsts(b) \o Firsts(i)
  BY <1>1, <1>5, <1>7, TextAround DEF stop
<1> QED BY <1>8, <1>9, <1>10 DEF v, r, stop

(* Beyond the end of a word nothing is deleted, or everything.              *)
LEMMA TextBeyond ==
  ASSUME NEW w \in Word, NEW o \in Nat, o > Len(w) + 1, NEW next
  PROVE  /\ GetWordText(DeleteFromWord(w, o, next)) = GetWordText(w)
         /\ DeleteFromWord(w, 1, o) = <<>>
<1> DEFINE d == CopyRange(Begun, w, 1, Len(w))
<1>1. Len(w) \in Nat /\ Len(w) \in 0 .. Len(w) /\ 1 \in Offsets(w) /\ Len(w) + 1 \in Offsets(w)
  BY DEF Word, Offsets
<1>2. DeleteFromWord(w, o, next) = d.out
  BY DEF DeleteFromWord, Begun
<1>3. Coherent(d) /\ Written(d) = Before(w, Len(w) + 1)
  <2>1. (Len(w) + 1) - 1 = Len(w)
    BY <1>1
  <2> QED BY <1>1, <2>1, CopyBefore
<1> HIDE DEF d
<1>4. d.out \in Word /\ Styled(d.out) = Styled(w)
  BY <1>3, CoherentType, Ends DEF Written, Styled, StyledFrom
<1>5. GetWordText(d.out) = GetWordText(w)
  BY <1>4, TextType
<1> DEFINE b == CopyRange(Begun, w, 1, 0)
           c == [b EXCEPT !.sstate = StyleAt(w, o)]
<1>6. DeleteFromWord(w, 1, o) = CopyRange(c, w, o, Len(w)).out
  <2>1. ~(1 > Len(w) + 1) /\ o > 1 /\ 1 - 1 = 0
    BY <1>1
  <2> QED BY <2>1, Zenon DEF DeleteFromWord, Begun
<1>7. b = Begun
  <2>1. 0 < 1
    OBVIOUS
  <2> QED BY <2>1, Zenon DEF CopyRange
<1>8. c.out = <<>>
  BY <1>7 DEF Begun, State
<1> HIDE DEF c
<1>9. CopyRange(c, w, o, Len(w)) = c
  <2>1. Len(w) < o
    BY <1>1
  <2> QED BY <2>1, Zenon DEF CopyRange
<1> QED BY <1>2, <1>5, <1>6, <1>8, <1>9

(* In a word in which every code has an effect, copying changes nothing,    *)
(* but a code is written only with the character behind it.                 *)
Verbatim(d, w, i) ==
  /\ Len(d.out) = IF i >= 1 /\ IsCode(w[i]) THEN i - 1 ELSE i
  /\ d.dstate = StyleAt(w, Len(d.out) + 1)
  /\ \A j \in 1 .. Len(d.out) : d.out[j] = w[j]

LEMMA VerbatimStep ==
  ASSUME NEW w \in Word, Canonical(w), NEW i \in 1 .. Len(w),
         NEW d, Coherent(d), d.sstate = StyleAt(w, i), Verbatim(d, w, i - 1)
  PROVE  Verbatim(Copy(d, w[i], Plain, Attribute), w, i)
<1> DEFINE x == w[i]
           e == Copy(d, x, Plain, Attribute)
<1>1. /\ i \in Nat /\ i >= 1 /\ Len(w) \in Nat /\ x \in Elem /\ Plain \in Style /\ Attribute \in Style
      /\ d \in CState /\ d.out \in Word /\ Len(d.out) \in Nat /\ d.sstate \in Style
      /\ DOMAIN w = 1 .. Len(w)
  BY CoherentType DEF Word, Elem, Plain, Style
<1>2. i - 1 >= 1 => i - 1 \in DOMAIN w /\ (i - 1) + 1 = i
  BY <1>1
<1> SUFFICES Verbatim(e, w, i)
  OBVIOUS
<1>3. CASE IsCode(x)
  <2>1. e = [d EXCEPT !.sstate = x]
    BY <1>1, <1>3, CopyCode
  <2>2. e.out = d.out /\ e.dstate = d.dstate
    BY <1>1, <2>1 DEF CState
  <2>3. ~(i - 1 >= 1 /\ IsCode(w[i - 1]))
    BY <1>2, <1>3 DEF Canonical
  <2>4. Len(d.out) = i - 1
    BY <2>3 DEF Verbatim
  <2> HIDE DEF e
  <2> QED BY <1>1, <1>3, <2>2, <2>4 DEF Verbatim
<1>4. CASE ~IsCode(x)
  <2>1. Effect(d, Plain, Attribute) = d.sstate
    BY <1>1 DEF Effect, Plain, Style
  <2>2. Wrote(d, e, x, d.sstate)
    BY <1>1, <1>4, <2>1, CopyChar
  <2>3. StyleAt(w, i + 1) = StyleAt(w, i)
    BY <1>4, StyleAtStep
  <2> HIDE DEF e
  <2>4. /\ e.dstate = d.sstate /\ e.out[Len(e.out)] = x
        /\ Len(e.out) = Len(d.out) + (IF d.dstate = d.sstate THEN 1 ELSE 2)
        /\ \A j \in 1 .. Len(d.out) : e.out[j] = d.out[j]
    BY <2>2 DEF Wrote
  <2>5. CASE i - 1 >= 1 /\ IsCode(w[i - 1])
    <3>1. Len(d.out) = i - 2 /\ d.dstate = StyleAt(w, i - 1)
      <4>1. Len(d.out) = (i - 1) - 1 /\ d.dstate = StyleAt(w, Len(d.out) + 1)
        BY <2>5 DEF Verbatim
      <4>2. (i - 1) - 1 = i - 2 /\ (i - 2) + 1 = i - 1
        BY <1>1
      <4> QED BY <4>1, <4>2
    <3>2. StyleAt(w, i - 1) # w[i - 1] /\ StyleAt(w, i) = w[i - 1]
      <4>1. i - 1 \in 1 .. Len(w) /\ (i - 1) + 1 = i
        BY <1>1, <2>5
      <4>2. StyleAt(w, (i - 1) + 1) = w[i - 1]
        BY <2>5, <4>1, StyleAtStep
      <4> QED BY <1>2, <2>5, <4>1, <4>2 DEF Canonical
    <3>3. Len(e.out) = i
      BY <1>1, <2>4, <3>1, <3>2
    <3>4. e.out[i - 1] = w[i - 1]
      <4> DEFINE u == d.out
      <4>1. e.out = u \o <<d.sstate, x>>
        <5>1. d.dstate # (d.sstate \cap Attribute) \cup Plain
          BY <2>1, <3>1, <3>2 DEF Effect
        <5>2. (d.sstate \cap Attribute) \cup Plain = d.sstate
          BY <2>1 DEF Effect
        <5>3. e.out = (u \o (IF d.dstate = (d.sstate \cap Attribute) \cup Plain
                              THEN <<x>> ELSE <<(d.sstate \cap Attribute) \cup Plain, x>>))
          BY <1>1, <1>4 DEF Copy, e, CState
        <5> QED BY <5>1, <5>2, <5>3
      <4>2. u \in Seq(Elem) /\ <<d.sstate, x>> \in Seq(Elem) /\ Len(u) + 1 = i - 1
        BY <1>1, <3>1 DEF Word, Elem
      <4> HIDE DEF u
      <4>3. (u \o <<d.sstate, x>>)[Len(u) + 1] = d.sstate
        BY <4>2
      <4> QED BY <3>2, <4>1, <4>2, <4>3
    <3>5. \A j \in 1 .. i : j = i \/ j = i - 1 \/ j \in 1 .. Len(d.out)
      BY <1>1, <3>1
    <3>6. \A j \in 1 .. Len(e.out) : e.out[j] = w[j]
      BY <2>4, <3>3, <3>4, <3>5 DEF Verbatim
    <3> QED BY <1>1, <1>4, <2>3, <2>4, <3>3, <3>6 DEF Verbatim
  <2>6. CASE ~(i - 1 >= 1 /\ IsCode(w[i - 1]))
    <3>1. Len(d.out) = i - 1 /\ d.dstate = StyleAt(w, i)
      <4>1. Len(d.out) = i - 1 /\ d.dstate = StyleAt(w, Len(d.out) + 1)
        BY <2>6 DEF Verbatim
      <4>2. (i - 1) + 1 = i
        BY <1>1
      <4> QED BY <4>1, <4>2
    <3>2. Len(e.out) = i
      BY <1>1, <2>4, <3>1
    <3>3. \A j \in 1 .. i : j = i \/ j \in 1 .. Len(d.out)
      BY <1>1, <3>1
    <3>4. \A j \in 1 .. Len(e.out) : e.out[j] = w[j]
      BY <2>4, <3>2, <3>3 DEF Verbatim
    <3> QED BY <1>1, <1>4, <2>3, <2>4, <3>2, <3>4 DEF Verbatim
  <2> QED BY <2>5, <2>6
<1> QED BY <1>3, <1>4

LEMMA CopiedVerbatim ==
  ASSUME NEW w \in Word, Canonical(w), NEW n \in 0 .. Len(w)
  PROVE  Verbatim(CopyRange(Begun, w, 1, n), w, n)
<1> DEFINE d(i) == CopyRange(Begun, w, 1, i)
           V == {i \in 0 .. n : Verbatim(d(i), w, i)}
<1>1. n \in Nat /\ Len(w) \in Nat /\ Begun \in CState
  BY BegunCoherent, CoherentType DEF Word
<1>2. 0 \in V
  <2>1. d(0) = Begun
    <3>1. 0 < 1
      OBVIOUS
    <3> QED BY <3>1, Zenon DEF CopyRange
  <2> HIDE DEF d
  <2>2. Begun.dstate = Plain /\ Len(Begun.out) = 0
    BY BegunCoherent DEF Begun, State
  <2>3. StyleAt(w, 0 + 1) = Plain
    <3>1. {i \in DOMAIN w : i < 0 + 1 /\ IsCode(w[i])} = {}
      BY <1>1 DEF Word
    <3> QED BY <3>1, Zenon DEF StyleAt
  <2>4. Verbatim(Begun, w, 0)
    BY <2>2, <2>3 DEF Verbatim
  <2> QED BY <1>1, <2>1, <2>4
<1>3. ASSUME NEW i \in 0 .. n - 1, i \in V PROVE i + 1 \in V
  <2>1. i + 1 \in 1 .. Len(w) /\ (i + 1) - 1 = i /\ i + 1 \in 0 .. n /\ i + 1 \in Nat /\ 1 - 1 <= i + 1
        /\ i + 1 \in Offsets(w) /\ i + 1 >= 1 /\ 1 \in Nat \ {0} /\ i + 1 <= Len(w)
    BY <1>1 DEF Offsets
  <2>2. d(i + 1) = Copy(d(i), w[i + 1], Plain, Attribute)
    <3>1. d(i + 1) = Copy(CopyRange(Begun, w, 1, (i + 1) - 1), w[i + 1], Plain, Attribute)
      BY <1>1, <2>1, CopyRangeStep
    <3> QED BY <2>1, <3>1
  <2>3. Coherent(d(i)) /\ d(i).sstate = StyleAt(w, i + 1)
    <3>1. Coherent(CopyRange(Begun, w, 1, (i + 1) - 1))
          /\ CopyRange(Begun, w, 1, (i + 1) - 1).sstate = StyleAt(w, i + 1)
      BY <2>1, CopyBefore
    <3> QED BY <2>1, <3>1
  <2> HIDE DEF d
  <2>4. Verbatim(d(i), w, (i + 1) - 1)
    BY <1>3, <2>1
  <2>5. Verbatim(d(i + 1), w, i + 1)
    BY <2>1, <2>2, <2>3, <2>4, VerbatimStep
  <2> QED BY <2>1, <2>5
<1>4. n \in V
  <2>1. n \in 0 .. n
    BY <1>1
  <2> HIDE DEF V
  <2> QED BY <1>1, <1>2, <1>3, <2>1, Induction
<1> QED BY <1>4

(* What is left of such a word reads up to an offset as the word does.      *)
LEMMA TextKept ==
  ASSUME NEW w \in Word, Canonical(w), NEW o \in Offsets(w), NEW a \in 1 .. o
  PROVE  LET left == DeleteFromWord(w, o, Len(w) + 1)
         IN  TextTo(w, a) = IF a \in Offsets(left) THEN TextTo(left, a) ELSE GetWordText(left)
<1> DEFINE n == o - 1
           before == CopyRange(Begun, w, 1, n)
           left == DeleteFromWord(w, o, Len(w) + 1)
           k == Len(before.out)
<1>1. /\ n \in 0 .. Len(w) /\ Len(w) \in Nat /\ o \in Nat /\ a \in Nat /\ a >= 1 /\ a <= n + 1
      /\ n + 1 = o /\ o <= Len(w) + 1
  BY DEF Offsets, Word
<1>2. Verbatim(before, w, n) /\ Coherent(before)
  BY <1>1, CopiedVerbatim, CopyBefore
<1>3. left = before.out
  <2> DEFINE m == Len(w) + 1
             c == [before EXCEPT !.sstate = StyleAt(w, m)]
  <2>1. (IF m > o THEN m ELSE o) = m /\ ~(o > Len(w) + 1) /\ Len(w) < m
    BY <1>1
  <2> HIDE DEF m
  <2>2. left = CopyRange(c, w, m, Len(w)).out
    BY <2>1, Zenon DEF DeleteFromWord, Begun, m
  <2>3. CopyRange(c, w, m, Len(w)) = c
    BY <2>1, Zenon DEF CopyRange
  <2>4. c.out = before.out
    BY <1>2, CoherentType DEF CState
  <2> QED BY <2>2, <2>3, <2>4
<1>4. left \in Word /\ Len(left) = k /\ k \in Nat
  BY <1>2, <1>3, CoherentType
<1>5. /\ k = IF n >= 1 /\ IsCode(w[n]) THEN n - 1 ELSE n
      /\ \A j \in 1 .. k : left[j] = w[j]
  BY <1>2, <1>3 DEF Verbatim
<1> HIDE DEF before, left, k, n
<1>6. CASE a \in Offsets(left)
  <2> DEFINE b == a - 1
  <2>1. b \in 0 .. Len(left) /\ b \in 0 .. Len(w) /\ b <= k
    BY <1>1, <1>4, <1>5, <1>6 DEF Offsets
  <2> HIDE DEF b
  <2>2. SubSeq(left, 1, b) = SubSeq(w, 1, b)
    <3> DEFINE p == SubSeq(left, 1, b)
               q == SubSeq(w, 1, b)
    <3>1. p \in Word /\ Len(p) = b /\ \A j \in 1 .. b : p[j] = left[j]
      BY <1>4, <2>1, PrefixType
    <3>2. q \in Word /\ Len(q) = b /\ \A j \in 1 .. b : q[j] = w[j]
      BY <2>1, PrefixType
    <3> HIDE DEF p, q
    <3>3. \A j \in 1 .. b : j \in 1 .. k
      BY <1>1, <1>4, <2>1
    <3>4. \A j \in 1 .. Len(p) : p[j] = q[j]
      BY <1>5, <3>1, <3>2, <3>3
    <3>5. p = q
      BY <3>1, <3>2, <3>4, SeqEqual DEF Word
    <3> QED BY <3>5 DEF p, q
  <2> QED BY <1>6, <2>2 DEF TextTo, b, left
<1>7. CASE a \notin Offsets(left)
  <2>1. a = o
    BY <1>1, <1>4, <1>5, <1>7 DEF Offsets
  <2>2. GetWordText(left) = TextTo(w, o)
    BY TextCut DEF left
  <2> QED BY <1>7, <2>1, <2>2 DEF left
<1> QED BY <1>6, <1>7

-----------------------------------------------------------------------------
(* The theorems.                                                            *)

LEMMA Tabs ==
  ASSUME NEW t \in StyleTab
  PROVE  t[1] \in Style /\ t[2] \in Style
BY DEF StyleTab, Style, Plain

TypeInv == word \in Word

(* The word is a string of characters and codes whatever is done to it.     *)
THEOREM TypeCorrect == Spec => []TypeInv
<1>1. Init => TypeInv
  BY DEF Init, TypeInv, Word
<1>2. TypeInv /\ [Next]_word => TypeInv'
  <2> SUFFICES ASSUME word \in Word, [Next]_word PROVE word' \in Word
    BY DEF TypeInv
  <2>1. CASE Insert
    <3>1. PICK c \in Char, o \in Offsets(word), hint \in Style :
            word' = InsertIntoWord(word, <<c>>, o, hint).word
      BY <2>1 DEF Insert
    <3>2. <<c>> \in Word
      BY OneChar
    <3> QED BY <3>1, <3>2, Inserted
  <2>2. CASE Delete
    BY <2>2, Deleted DEF Delete
  <2>3. CASE ApplyStyle
    <3>1. PICK first \in Offsets(word), next \in Offsets(word), t \in StyleTab :
            /\ first <= next
            /\ word' = ApplyStyleToWord(word, t[1], t[2], first, next, 1).word
      BY <2>3 DEF ApplyStyle
    <3>2. t[1] \in Style /\ t[2] \in Style /\ 1 \in Offsets(word)
      BY Tabs, Ends
    <3> QED BY <3>1, <3>2, Applied
  <2>4. CASE Split
    <3>1. PICK o \in Offsets(word), hint \in Style :
            word' = StylePrime(hint) \o DeleteFromWord(word, 1, o)
      BY <2>4 DEF Split
    <3>2. 1 \in Offsets(word) /\ 1 <= o
      BY Ends DEF Offsets
    <3>3. DeleteFromWord(word, 1, o) \in Word
      BY <3>2, Deleted
    <3> QED BY <3>1, <3>3, Hinted
  <2>5. CASE UNCHANGED word
    BY <2>5
  <2> QED BY <2>1, <2>2, <2>3, <2>4, <2>5 DEF Next
<1> QED BY <1>1, <1>2, PTL DEF Spec

(* However long the word and however many codes it holds, what is inserted  *)
(* goes where the cursor is and no other character changes its style.       *)
THEOREM InsertCorrect == Spec => []InsertIsExact
<1>1. TypeInv => InsertIsExact
  <2> HAVE TypeInv
  <2>0. word \in Word
    BY DEF TypeInv
  <2> SUFFICES ASSUME NEW c \in Char, NEW o \in Offsets(word), NEW hint \in Style,
                      NEW ins \in {<<c>>, StylePrime(hint) \o <<c>>}
               PROVE  LET r == InsertIntoWord(word, ins, o, hint)
                      IN  /\ Styled(r.word) =
                               Before(word, o) \o StyledFrom(ins, hint) \o After(word, o)
                          /\ CharsBefore(r.word, r.stop) = CharsBefore(word, o) + 1
                          /\ Canonical(r.word)
    BY Zenon DEF InsertIsExact
  <2>1. ins \in Word /\ Len(StyledFrom(ins, hint)) = 1
    BY OneChar
  <2> DEFINE r == InsertIntoWord(word, ins, o, hint)
             t == StyledFrom(ins, hint)
  <2>2. /\ Styled(r.word) = Before(word, o) \o t \o After(word, o)
        /\ CharsBefore(r.word, r.stop) = CharsBefore(word, o) + Len(t)
        /\ Canonical(r.word)
    BY <2>0, <2>1, Inserted
  <2>3. Len(t) = 1
    BY <2>1
  <2> HIDE DEF r, t
  <2>4. CharsBefore(r.word, r.stop) = CharsBefore(word, o) + 1
    BY <2>2, <2>3
  <2> QED BY <2>2, <2>4, Zenon DEF r, t
<1> QED BY <1>1, TypeCorrect, PTL

(* Deleting between any two offsets of any word takes away the characters   *)
(* between them and leaves the others their styles.                         *)
THEOREM DeleteCorrect == Spec => []DeleteIsExact
<1>1. TypeInv => DeleteIsExact
  <2> HAVE TypeInv
  <2>0. word \in Word
    BY DEF TypeInv
  <2> SUFFICES ASSUME NEW first \in Offsets(word), NEW next \in Offsets(word), first <= next
               PROVE  LET r == DeleteFromWord(word, first, next)
                      IN  /\ Styled(r) = Before(word, first) \o After(word, next)
                          /\ Canonical(r)
    BY Zenon DEF DeleteIsExact
  <2> QED BY <2>0, Deleted
<1> QED BY <1>1, TypeCorrect, PTL

(* Any word that is cut in two at any offset is whole again when the halves *)
(* are joined, whatever style hint the second one was given.                *)
THEOREM SplitCorrect == Spec => []SplitJoins
<1>1. TypeInv => SplitJoins
  <2> HAVE TypeInv
  <2>0. word \in Word
    BY DEF TypeInv
  <2> QED BY <2>0, Joined, Zenon DEF SplitJoins
<1> QED BY <1>1, TypeCorrect, PTL

(* A style goes to the selected characters of any word and to no others,    *)
(* and the cursor stays between the same two characters.                    *)
THEOREM ApplyCorrect == Spec => []ApplyIsExact
<1>1. TypeInv => ApplyIsExact
  <2> HAVE TypeInv
  <2>0. word \in Word
    BY DEF TypeInv
  <2> SUFFICES ASSUME NEW first \in Offsets(word), NEW next \in Offsets(word),
                      NEW cursor \in Offsets(word), NEW t \in StyleTab, first <= next
               PROVE  LET r == ApplyStyleToWord(word, t[1], t[2], first, next, cursor)
                          a == CharsBefore(word, first)
                          b == CharsBefore(word, next)
                      IN  /\ Styled(r.word) =
                               [i \in 1 .. Size |->
                                  IF a < i /\ i <= b
                                    THEN <<Styled(word)[i][1],
                                           (Styled(word)[i][2] \cap t[2]) \cup t[1]>>
                                    ELSE Styled(word)[i]]
                          /\ CharsBefore(r.word, r.cursor) = CharsBefore(word, cursor)
    BY Zenon DEF ApplyIsExact
  <2> DEFINE r == ApplyStyleToWord(word, t[1], t[2], first, next, cursor)
             a == CharsBefore(word, first)
             b == CharsBefore(word, next)
             s == Styled(word)
             p == Styled(r.word)
  <2>1. t[1] \in Style /\ t[2] \in Style /\ Plain \in Style
    BY Tabs DEF Plain, Style
  <2>2. /\ r.word \in Word
        /\ Restyles(p, s, t[1], t[2], a, b)
        /\ CharsBefore(r.word, r.cursor) = CharsBefore(word, cursor)
    BY <2>0, <2>1, Applied
  <2>3. p \in Seq(StyledChar)
    <3> HIDE DEF r
    <3> QED BY <2>1, <2>2, StyledType DEF Styled
  <2>4. Size = Len(s)
    BY DEF Size
  <2> HIDE DEF p, s, a, b
  <2>5. p = [i \in 1 .. Len(p) |-> p[i]]
    BY <2>3, SeqDef
  <2>6. p = [i \in 1 .. Len(s) |-> Restyled(s[i], i, t[1], t[2], a, b)]
    BY <2>2, <2>5, Zenon DEF Restyles
  <2>7. p = [i \in 1 .. Size |-> IF a < i /\ i <= b
                                   THEN <<s[i][1], (s[i][2] \cap t[2]) \cup t[1]>>
                                   ELSE s[i]]
    BY <2>4, <2>6, Zenon DEF Restyled
  <2> QED BY <2>2, <2>7 DEF p, s, a, b
<1> QED BY <1>1, TypeCorrect, PTL

(* No operation makes a word longer than word.c has room for.               *)
THEOREM BuffersCorrect == Spec => []BuffersSuffice
<1>1. TypeInv => BuffersSuffice
  <2> HAVE TypeInv
  <2>0. word \in Word
    BY DEF TypeInv
  <2>1. ASSUME NEW first \in Offsets(word), NEW next \in Offsets(word), first <= next
        PROVE  Len(DeleteFromWord(word, first, next)) <= Len(word)
    BY <2>0, <2>1, Deleted
  <2>2. ASSUME NEW first \in Offsets(word), NEW next \in Offsets(word), first <= next,
               NEW t \in StyleTab
        PROVE  Len(ApplyStyleToWord(word, t[1], t[2], first, next, 1).word) <= Len(word) + 2
    <3>1. t[1] \in Style /\ t[2] \in Style /\ 1 \in Offsets(word)
      BY <2>0, Tabs, Ends
    <3> QED BY <2>0, <2>2, <3>1, Applied
  <2>3. ASSUME NEW c \in Char, NEW o \in Offsets(word), NEW hint \in Style,
               NEW ins \in {<<c>>, word}
        PROVE  Len(InsertIntoWord(word, ins, o, hint).word) <= Len(word) + Len(ins) + 7
    <3>1. ins \in Word
      BY <2>0, <2>3, OneChar
    <3> DEFINE r == InsertIntoWord(word, ins, o, hint)
    <3>2. r.word \in Word /\ Len(r.word) <= Len(word) + Len(ins) + 2
      BY <2>0, <3>1, Inserted
    <3>3. Len(r.word) \in Nat /\ Len(word) \in Nat /\ Len(ins) \in Nat
      <4> HIDE DEF r
      <4> QED BY <2>0, <3>1, <3>2 DEF Word
    <3> HIDE DEF r
    <3>4. Len(r.word) <= Len(word) + Len(ins) + 7
      BY <3>2, <3>3
    <3> QED BY <3>4 DEF r
  <2> QED BY <2>1, <2>2, <2>3, Zenon DEF BuffersSuffice
<1> QED BY <1>1, TypeCorrect, PTL

(* Next and previous step over one character of any word and stop at its    *)
(* ends only.                                                               *)
THEOREM StepsCorrect == Spec => []StepsOverOneChar
<1>1. TypeInv => StepsOverOneChar
  <2> HAVE TypeInv
  <2>0. word \in Word
    BY DEF TypeInv
  <2> QED BY <2>0, Stepped, Zenon DEF StepsOverOneChar, Size
<1> QED BY <1>1, TypeCorrect, PTL
=============================================================================
