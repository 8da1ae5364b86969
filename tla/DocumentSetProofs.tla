-------------------------- MODULE DocumentSetProofs --------------------------
(* Theorems about DocumentSet, for any documents and any names.             *)
EXTENDS DocumentSet, TLAPS

USE NameAssumption, DocAssumption, SuffixAssumption

(* The fields of a set, as methods hand them on. *)
Fields ==
  [list : Seq(Doc), byname : [Name -> Doc \cup {NoDoc}],
   docname : [Doc -> Name \cup {NoName}], current : Doc \cup {NoDoc}, Document : Doc]

(* IndexConsistent and ListedOnce of a record; and nothing in the list is   *)
(* without a name.                                                          *)
Consistent(s) ==
  /\ s \in Fields
  /\ \A n \in Name, d \in Doc :
       s.byname[n] = d <=> d \in ToSet(s.list) /\ s.docname[d] = n
  /\ \A d \in ToSet(s.list) : s.docname[d] \in Name
  /\ IsInjective(s.list)

Open(s) == s.current = s.Document /\ s.Document \in ToSet(s.list)

(* The set on the file can be loaded. *)
FileLoads ==
  /\ file \in [names : Seq(Name), current : Nat]
  /\ IsInjective(file.names)
  /\ file.names # <<>> => file.current \in DOMAIN file.names

IInv ==
  /\ Consistent(This)
  /\ Open(This)
  /\ FileLoads
  /\ importing \in Name \cup {NoName}
  /\ importing # NoName => Suffixed[importing] # NoName
  /\ generation \in {0, 1}

-----------------------------------------------------------------------------
(* Sequences.                                                               *)

LEMMA ConcatElements ==
  ASSUME NEW S, NEW a \in Seq(S), NEW b \in Seq(S)
  PROVE  /\ a \o b \in Seq(S) /\ Len(a \o b) = Len(a) + Len(b)
         /\ \A i \in 1 .. Len(a) + Len(b) :
              (a \o b)[i] = IF i <= Len(a) THEN a[i] ELSE b[i - Len(a)]
  OBVIOUS

LEMMA AppendElements ==
  ASSUME NEW S, NEW s \in Seq(S), NEW e \in S
  PROVE  /\ Append(s, e) \in Seq(S)
         /\ ToSet(Append(s, e)) = ToSet(s) \cup {e}
         /\ IsInjective(s) /\ e \notin ToSet(s) => IsInjective(Append(s, e))
<1> DEFINE t == Append(s, e)
<1>1. /\ t \in Seq(S)
      /\ DOMAIN t = 1 .. Len(s) + 1
      /\ \A i \in 1 .. Len(s) : t[i] = s[i]
      /\ t[Len(s) + 1] = e
      /\ DOMAIN s = 1 .. Len(s)
      /\ Len(s) \in Nat
  OBVIOUS
<1> HIDE DEF t
<1>2. DOMAIN t = DOMAIN s \cup {Len(s) + 1}
  BY <1>1
<1>3. ToSet(t) = ToSet(s) \cup {e}
  BY <1>1, <1>2 DEF ToSet
<1>4. ASSUME IsInjective(s), e \notin ToSet(s)
      PROVE  IsInjective(t)
  BY <1>1, <1>2, <1>4 DEF IsInjective, ToSet
<1> QED
  BY <1>1, <1>3, <1>4 DEF t

LEMMA RemoveElements ==
  ASSUME NEW S, NEW s \in Seq(S), NEW k \in 1 .. Len(s)
  PROVE  /\ RemoveAt(s, k) \in Seq(S)
         /\ Len(RemoveAt(s, k)) = Len(s) - 1
         /\ \A i \in 1 .. Len(s) - 1 :
              RemoveAt(s, k)[i] = IF i < k THEN s[i] ELSE s[i + 1]
         /\ IsInjective(s) => /\ IsInjective(RemoveAt(s, k))
                              /\ ToSet(RemoveAt(s, k)) = ToSet(s) \ {s[k]}
<1> DEFINE t == RemoveAt(s, k)
<1>1. /\ t \in Seq(S)
      /\ Len(t) = Len(s) - 1
      /\ \A i \in 1 .. Len(s) - 1 : t[i] = IF i < k THEN s[i] ELSE s[i + 1]
  <2> DEFINE a == SubSeq(s, 1, k - 1)
             b == SubSeq(s, k + 1, Len(s))
  <2>1. /\ a \in Seq(S) /\ Len(a) = k - 1
        /\ \A i \in 1 .. k - 1 : a[i] = s[i]
    OBVIOUS
  <2>2. /\ b \in Seq(S) /\ Len(b) = Len(s) - k
        /\ \A i \in 1 .. Len(s) - k : b[i] = s[i + k]
    OBVIOUS
  <2>3. t = a \o b
    BY DEF RemoveAt
  <2> HIDE DEF a, b, t
  <2>4. /\ t \in Seq(S) /\ Len(t) = Len(a) + Len(b)
        /\ \A i \in 1 .. Len(a) + Len(b) : t[i] = IF i <= Len(a) THEN a[i] ELSE b[i - Len(a)]
    <3>1. a \in Seq(S) /\ b \in Seq(S)
      BY <2>1, <2>2
    <3> HIDE DEF t
    <3> QED
      BY ONLY <3>1, <2>3, ConcatElements
  <2> Len(s) \in Nat /\ k \in Nat /\ Len(a) = k - 1 /\ Len(a) + Len(b) = Len(s) - 1
    BY <2>1, <2>2
  <2>5. ASSUME NEW i \in 1 .. Len(s) - 1
        PROVE  t[i] = IF i < k THEN s[i] ELSE s[i + 1]
    <3>1. CASE i < k
      <4>1. i <= Len(a) /\ i \in 1 .. k - 1 /\ i \in 1 .. Len(a) + Len(b)
        BY <3>1, <2>1
      <4>2. t[i] = a[i] /\ a[i] = s[i]
        BY <4>1, <2>1, <2>4
      <4> QED
        BY <3>1, <4>2
    <3>2. CASE i >= k
      <4>1. i - (k - 1) \in 1 .. Len(s) - k /\ (i - (k - 1)) + k = i + 1
        BY <3>2
      <4>2. t[i] = b[i - (k - 1)]
        <5>1. i \in 1 .. Len(a) + Len(b) /\ ~(i <= Len(a)) /\ i - Len(a) = i - (k - 1)
          BY <3>2
        <5> QED
          BY ONLY <5>1, <2>4
      <4>3. b[i - (k - 1)] = s[i + 1]
        BY <4>1, <2>2
      <4> QED
        BY <3>2, <4>2, <4>3
    <3> QED
      BY <3>1, <3>2
  <2> QED
    BY <2>4, <2>5
<1>2. DOMAIN s = 1 .. Len(s) /\ DOMAIN t = 1 .. Len(s) - 1 /\ Len(s) \in Nat
  BY <1>1
<1> HIDE DEF t
<1>3. ASSUME IsInjective(s)
      PROVE  IsInjective(t)
  <2> SUFFICES ASSUME NEW i \in 1 .. Len(s) - 1, NEW j \in 1 .. Len(s) - 1, t[i] = t[j]
               PROVE  i = j
    BY <1>2 DEF IsInjective
  <2> DEFINE from(l) == IF l < k THEN l ELSE l + 1
  <2>1. /\ from(i) \in 1 .. Len(s) /\ t[i] = s[from(i)]
        /\ from(j) \in 1 .. Len(s) /\ t[j] = s[from(j)]
    BY <1>1, <1>2
  <2>2. from(i) = from(j)
    BY <2>1, <1>2, <1>3 DEF IsInjective
  <2> QED
    BY <2>2, <1>2
<1>4. ASSUME IsInjective(s)
      PROVE  ToSet(t) = ToSet(s) \ {s[k]}
  <2>1. ASSUME NEW x \in ToSet(t)
        PROVE  x \in ToSet(s) \ {s[k]}
    <3> PICK i \in 1 .. Len(s) - 1 : x = t[i]
      BY <1>2 DEF ToSet
    <3>1. CASE i < k
      <4>1. x = s[i] /\ i \in 1 .. Len(s) /\ i # k
        BY <3>1, <1>1, <1>2
      <4> QED
        BY <4>1, <1>2, <1>4 DEF ToSet, IsInjective
    <3>2. CASE i >= k
      <4>1. x = s[i + 1] /\ i + 1 \in 1 .. Len(s) /\ i + 1 # k
        BY <3>2, <1>1, <1>2
      <4> QED
        BY <4>1, <1>2, <1>4 DEF ToSet, IsInjective
    <3> QED
      BY <3>1, <3>2, <1>2
  <2>2. ASSUME NEW x \in ToSet(s), x # s[k]
        PROVE  x \in ToSet(t)
    <3> PICK i \in 1 .. Len(s) : x = s[i]
      BY <1>2 DEF ToSet
    <3>1. CASE i < k
      <4>1. i \in 1 .. Len(s) - 1 /\ t[i] = x
        BY <3>1, <1>1, <1>2
      <4> QED
        BY <4>1, <1>2 DEF ToSet
    <3>2. CASE i > k
      <4>1. i - 1 \in 1 .. Len(s) - 1 /\ ~(i - 1 < k) /\ (i - 1) + 1 = i
        BY <3>2, <1>2
      <4>2. t[i - 1] = x
        BY <4>1, <1>1
      <4> QED
        BY <4>1, <4>2, <1>2 DEF ToSet
    <3> QED
      BY <2>2, <3>1, <3>2, <1>2
  <2> QED
    BY <2>1, <2>2
<1> QED
  BY <1>1, <1>3, <1>4 DEF t

LEMMA InsertElements ==
  ASSUME NEW S, NEW s \in Seq(S), NEW e \in S, NEW k \in 1 .. Len(s) + 1
  PROVE  /\ InsertAt(s, k, e) \in Seq(S)
         /\ ToSet(InsertAt(s, k, e)) = ToSet(s) \cup {e}
         /\ IsInjective(s) /\ e \notin ToSet(s) => IsInjective(InsertAt(s, k, e))
<1> DEFINE t == InsertAt(s, k, e)
<1>1. /\ t \in Seq(S)
      /\ Len(t) = Len(s) + 1
      /\ \A i \in 1 .. Len(s) + 1 :
           t[i] = IF i < k THEN s[i] ELSE IF i = k THEN e ELSE s[i - 1]
  <2> DEFINE a == SubSeq(s, 1, k - 1)
             b == SubSeq(s, k, Len(s))
  <2>1. /\ a \in Seq(S) /\ Len(a) = k - 1
        /\ \A i \in 1 .. k - 1 : a[i] = s[i]
    OBVIOUS
  <2>2. /\ b \in Seq(S) /\ Len(b) = Len(s) - k + 1
        /\ \A i \in 1 .. Len(s) - k + 1 : b[i] = s[i + k - 1]
    OBVIOUS
  <2>3. t = a \o <<e>> \o b
    BY DEF InsertAt
  <2> HIDE DEF a, b, t
  <2> DEFINE c == Append(a, e)
  <2>4. /\ c \in Seq(S) /\ Len(c) = k
        /\ \A i \in 1 .. k : c[i] = IF i < k THEN s[i] ELSE e
    <3>1. /\ c \in Seq(S) /\ Len(c) = Len(a) + 1
          /\ \A i \in 1 .. Len(a) + 1 : c[i] = IF i = Len(a) + 1 THEN e ELSE a[i]
      BY ONLY <2>1, e \in S
    <3> HIDE DEF c
    <3> QED
      BY ONLY <2>1, <3>1, k \in 1 .. Len(s) + 1, Len(s) \in Nat
  <2>5. t = c \o b
    BY <2>1, <2>3
  <2> HIDE DEF c
  <2>6. /\ t \in Seq(S) /\ Len(t) = Len(s) + 1
        /\ \A i \in 1 .. Len(s) + 1 : t[i] = IF i <= k THEN c[i] ELSE b[i - k]
    <3>1. /\ t \in Seq(S) /\ Len(t) = Len(c) + Len(b)
          /\ \A i \in 1 .. Len(c) + Len(b) : t[i] = IF i <= Len(c) THEN c[i] ELSE b[i - Len(c)]
      BY ONLY <2>2, <2>4, <2>5, ConcatElements
    <3>2. Len(c) = k /\ Len(c) + Len(b) = Len(s) + 1
      BY ONLY <2>2, <2>4, k \in 1 .. Len(s) + 1, Len(s) \in Nat
    <3> QED
      BY ONLY <3>1, <3>2
  <2>7. ASSUME NEW i \in 1 .. Len(s) + 1
        PROVE  t[i] = IF i < k THEN s[i] ELSE IF i = k THEN e ELSE s[i - 1]
    <3>1. CASE i <= k
      BY <3>1, <2>4, <2>6
    <3>2. CASE i > k
      <4>1. i - k \in 1 .. Len(s) - k + 1 /\ (i - k) + k - 1 = i - 1
        BY <3>2
      <4>2. t[i] = b[i - k]
        BY <3>2, <2>6
      <4> QED
        BY <3>2, <4>1, <4>2, <2>2
    <3> QED
      BY <3>1, <3>2
  <2> QED
    BY <2>6, <2>7
<1>2. DOMAIN s = 1 .. Len(s) /\ DOMAIN t = 1 .. Len(s) + 1 /\ Len(s) \in Nat
  BY <1>1
<1> HIDE DEF t
<1>3. ASSUME NEW i \in 1 .. Len(s) + 1, i # k
      PROVE  \E j \in 1 .. Len(s) : t[i] = s[j] /\ j = IF i < k THEN i ELSE i - 1
  BY <1>1, <1>2, <1>3
<1>4. t[k] = e
  BY <1>1, <1>2
<1>5. ToSet(t) = ToSet(s) \cup {e}
  <2>1. ASSUME NEW i \in 1 .. Len(s)
        PROVE  s[i] \in ToSet(t)
    <3>1. CASE i < k
      <4>1. i \in 1 .. Len(s) + 1 /\ t[i] = s[i]
        BY <3>1, <1>1, <1>2
      <4> QED
        BY <4>1, <1>2 DEF ToSet
    <3>2. CASE i >= k
      <4>1. i + 1 \in 1 .. Len(s) + 1 /\ t[i + 1] = s[i]
        BY <3>2, <1>1, <1>2
      <4> QED
        BY <4>1, <1>2 DEF ToSet
    <3> QED
      BY <3>1, <3>2, <1>2
  <2>2. e \in ToSet(t)
    BY <1>2, <1>4 DEF ToSet
  <2>3. ASSUME NEW i \in 1 .. Len(s) + 1
        PROVE  t[i] \in ToSet(s) \cup {e}
    BY <1>2, <1>3, <1>4 DEF ToSet
  <2>4. ToSet(t) \subseteq ToSet(s) \cup {e}
    BY <1>2, <2>3 DEF ToSet
  <2>5. ToSet(s) \subseteq ToSet(t)
    BY <1>2, <2>1 DEF ToSet
  <2> QED
    BY <2>2, <2>4, <2>5
<1>6. ASSUME IsInjective(s), e \notin ToSet(s)
      PROVE  IsInjective(t)
  <2> SUFFICES ASSUME NEW i \in 1 .. Len(s) + 1, NEW j \in 1 .. Len(s) + 1, t[i] = t[j]
               PROVE  i = j
    BY <1>2 DEF IsInjective
  <2>1. \A l \in 1 .. Len(s) : s[l] # e
    BY <1>2, <1>6 DEF ToSet
  <2>2. CASE i = k \/ j = k
    BY <2>1, <2>2, <1>3, <1>4
  <2>3. CASE i # k /\ j # k
    BY <2>3, <1>2, <1>3, <1>6 DEF IsInjective
  <2> QED
    BY <2>2, <2>3
<1> QED
  BY <1>1, <1>5, <1>6 DEF t
-----------------------------------------------------------------------------
(* The methods of a set.                                                    *)

(* A name that finds nothing belongs to no document of the list.            *)
LEMMA FreeName ==
  ASSUME NEW s, Consistent(s), NEW n \in Name, s.byname[n] = NoDoc
  PROVE  /\ \A d \in ToSet(s.list) : s.docname[d] # n
         /\ Positions(s, n) = {}
<1>1. \A d \in ToSet(s.list) : d \in Doc
  BY DEF Consistent, Fields, ToSet
<1>2. \A d \in ToSet(s.list) : s.docname[d] # n
  BY <1>1 DEF Consistent
<1>3. \A i \in DOMAIN s.list : s.list[i] \in ToSet(s.list)
  BY DEF ToSet
<1> QED
  BY <1>2, <1>3 DEF Positions

(* So findDocument never has to repair the set.                             *)
LEMMA FindChangesNothing ==
  ASSUME NEW s, Consistent(s), NEW n \in Name
  PROVE  FindDocument(s, n) = s
  BY FreeName DEF FindDocument

LEMMA SetCurrentOpens ==
  ASSUME NEW s, Consistent(s), s.list # <<>>, NEW n \in Name
  PROVE  LET t == SetCurrent(s, n)
         IN  /\ Consistent(t) /\ Open(t)
             /\ t.list = s.list /\ t.docname = s.docname
             /\ s.byname[n] # NoDoc => t.Document = s.byname[n]
<1> DEFINE d == IF s.byname[n] # NoDoc THEN s.byname[n] ELSE s.list[1]
<1>1. s \in Fields
  BY DEF Consistent
<1>2. s.list \in Seq(Doc) /\ s.byname[n] \in Doc \cup {NoDoc}
  BY <1>1 DEF Fields
<1>3. s.list[1] \in ToSet(s.list)
  <2>1. 1 \in DOMAIN s.list
    BY <1>2
  <2> QED
    BY <2>1 DEF ToSet
<1>4. d \in ToSet(s.list)
  BY <1>2, <1>3 DEF Consistent
<1>5. d \in Doc
  BY <1>2, <1>4 DEF ToSet
<1>6. SetCurrent(s, n) = [s EXCEPT !.current = d, !.Document = d]
  BY DEF SetCurrent
<1> HIDE DEF d
<1> DEFINE t == [s EXCEPT !.current = d, !.Document = d]
<1>7. /\ t \in Fields /\ t.list = s.list /\ t.byname = s.byname /\ t.docname = s.docname
      /\ t.current = d /\ t.Document = d
  BY <1>1, <1>5 DEF Fields
<1> HIDE DEF t
<1>8. Consistent(t) /\ Open(t)
  BY <1>4, <1>7 DEF Consistent, Open
<1> QED
  BY <1>6, <1>7, <1>8 DEF d, t

(* Adding under a free name: at the end, and selected if nothing was.       *)
Added(s, d, n, t) ==
  /\ t.list = Append(s.list, d) /\ t.byname[n] = d
  /\ ToSet(t.list) = ToSet(s.list) \cup {d}
  /\ t.docname = [s.docname EXCEPT ![d] = n]
  /\ t.Document \in {d, s.Document}

LEMMA AddConsistent ==
  ASSUME NEW s, Consistent(s), s.current = NoDoc \/ Open(s),
         NEW n \in Name, s.byname[n] = NoDoc, NEW d \in Doc, d \notin ToSet(s.list)
  PROVE  LET t == AddDocument(s, d, n)
         IN  Consistent(t) /\ Open(t) /\ Added(s, d, n, t)
<1> DEFINE t == [s EXCEPT !.docname[d] = n]
           a == [t EXCEPT !.list = Append(s.list, d), !.byname[n] = d]
<1>1. s \in Fields /\ IsInjective(s.list)
  BY DEF Consistent
<1>2. /\ s.list \in Seq(Doc) /\ s.byname \in [Name -> Doc \cup {NoDoc}]
      /\ s.docname \in [Doc -> Name \cup {NoName}]
  BY <1>1 DEF Fields
<1>3. \A i \in DOMAIN s.list : s.list[i] \in Doc /\ s.list[i] # d /\ s.docname[s.list[i]] # n
  BY <1>2, FreeName DEF ToSet
<1>4. /\ t \in Fields /\ t.list = s.list /\ t.docname = [s.docname EXCEPT ![d] = n]
      /\ t.byname = s.byname /\ t.current = s.current /\ t.Document = s.Document
  BY <1>1, <1>2 DEF Fields
<1>5. Positions(t, n) = {}
  BY <1>2, <1>3, <1>4 DEF Positions
<1>9. AddDocument(s, d, n) =
        IF a.current = NoDoc \/ a.docname[a.current] = n THEN SetCurrent(a, n) ELSE a
  BY <1>4, <1>5 DEF AddDocument
<1> HIDE DEF t
<1>6. /\ a \in Fields /\ a.list = Append(s.list, d) /\ a.current = s.current
      /\ a.byname = [s.byname EXCEPT ![n] = d] /\ a.docname = [s.docname EXCEPT ![d] = n]
      /\ a.Document = s.Document
  <2>1. Append(s.list, d) \in Seq(Doc) /\ [s.byname EXCEPT ![n] = d] \in [Name -> Doc \cup {NoDoc}]
    BY <1>2
  <2> QED
    BY <1>4, <2>1 DEF Fields
<1> HIDE DEF a
<1>7. ToSet(a.list) = ToSet(s.list) \cup {d} /\ IsInjective(a.list)
  <2>1. /\ ToSet(Append(s.list, d)) = ToSet(s.list) \cup {d}
        /\ IsInjective(Append(s.list, d))
    BY <1>1, <1>2, AppendElements
  <2> QED
    BY <1>6, <2>1
<1>8. Consistent(a)
  <2>1. ASSUME NEW m \in Name, NEW e \in Doc
        PROVE  a.byname[m] = e <=> e \in ToSet(a.list) /\ a.docname[e] = m
    <3>1. s.byname[m] = e <=> e \in ToSet(s.list) /\ s.docname[e] = m
      BY DEF Consistent
    <3>2. e \in ToSet(s.list) => s.docname[e] # n /\ e # d
      BY FreeName
    <3> QED
      BY <1>2, <1>6, <1>7, <3>1, <3>2
  <2>2. \A e \in ToSet(a.list) : a.docname[e] \in Name
    BY <1>2, <1>6, <1>7 DEF Consistent
  <2> QED
    BY <1>6, <1>7, <2>1, <2>2 DEF Consistent
<1>10. a.list # <<>> /\ a.byname[n] = d
  <2>1. a.list # <<>>
    <3>1. Append(s.list, d) # <<>>
      BY ONLY <1>2, d \in Doc
    <3> QED
      BY ONLY <3>1, <1>6
  <2>2. a.byname[n] = d
    BY ONLY <1>2, <1>6, n \in Name
  <2> QED
    BY <2>1, <2>2
<1>11. CASE a.current = NoDoc \/ a.docname[a.current] = n
  <2>1. SetCurrent(a, n).byname = a.byname
    BY <1>6 DEF SetCurrent, Fields
  <2>2. /\ Consistent(SetCurrent(a, n)) /\ Open(SetCurrent(a, n))
        /\ SetCurrent(a, n).list = a.list /\ SetCurrent(a, n).docname = a.docname
        /\ SetCurrent(a, n).Document = d
    BY <1>8, <1>10, SetCurrentOpens
  <2> QED
    BY <1>6, <1>7, <1>9, <1>10, <1>11, <2>1, <2>2 DEF Added
<1>12. CASE ~(a.current = NoDoc \/ a.docname[a.current] = n)
  <2>1. Open(a)
    BY <1>6, <1>7, <1>12 DEF Open
  <2> QED
    BY <1>6, <1>7, <1>8, <1>9, <1>10, <1>12, <2>1 DEF Added
<1> QED
  BY <1>11, <1>12

(* A document of the list is found at its place, by its name.               *)
LEMMA FirstPosition ==
  ASSUME NEW s, Consistent(s), NEW d \in ToSet(s.list)
  PROVE  LET k == First(Positions(s, s.docname[d]))
         IN  k \in 1 .. Len(s.list) /\ s.list[k] = d
<1> DEFINE n == s.docname[d]
<1>1. s.list \in Seq(Doc) /\ n \in Name /\ IsInjective(s.list)
  BY DEF Consistent, Fields
<1>2. DOMAIN s.list = 1 .. Len(s.list) /\ Len(s.list) \in Nat
  BY <1>1
<1>3. PICK k \in DOMAIN s.list : s.list[k] = d
  BY DEF ToSet
<1>4. ASSUME NEW i \in Positions(s, n)
      PROVE  i = k
  <2>1. i \in DOMAIN s.list /\ s.docname[s.list[i]] = n
    BY DEF Positions
  <2>2. s.list[i] \in ToSet(s.list) /\ s.list[i] \in Doc /\ d \in Doc
    BY <1>1, <1>2, <1>3, <2>1 DEF ToSet
  <2>3. s.byname[n] = s.list[i] /\ s.byname[n] = d
    BY <1>1, <2>1, <2>2 DEF Consistent
  <2> QED
    BY <1>1, <1>3, <2>1, <2>3 DEF IsInjective
<1>5. Positions(s, n) = {k}
  BY <1>3, <1>4 DEF Positions
<1>6. First({k}) = k
  BY <1>2 DEF First
<1> QED
  BY <1>2, <1>3, <1>5, <1>6

LEMMA MoveConsistent ==
  ASSUME NEW s, Consistent(s), Open(s), NEW target \in DOMAIN s.list
  PROVE  LET t == MoveDocumentIndexTo(s, s.docname[s.Document], target)
         IN  /\ Consistent(t) /\ Open(t) /\ ToSet(t.list) = ToSet(s.list)
             /\ t.byname = s.byname /\ t.docname = s.docname /\ t.Document = s.Document
<1> DEFINE d == s.Document
           k == First(Positions(s, s.docname[d]))
           cut == RemoveAt(s.list, k)
           new == InsertAt(cut, target, d)
           t == [s EXCEPT !.list = new]
<1>1. s \in Fields /\ s.list \in Seq(Doc) /\ IsInjective(s.list) /\ d \in Doc
  BY DEF Consistent, Fields
<1>2. d \in ToSet(s.list) /\ k \in 1 .. Len(s.list) /\ s.list[k] = d
  BY FirstPosition DEF Open
<1>3. MoveDocumentIndexTo(s, s.docname[s.Document], target) = t
  BY <1>2 DEF MoveDocumentIndexTo
<1> HIDE DEF k
<1>4. /\ cut \in Seq(Doc) /\ Len(cut) = Len(s.list) - 1 /\ IsInjective(cut)
      /\ ToSet(cut) = ToSet(s.list) \ {d}
  BY <1>1, <1>2, RemoveElements, SMTT(30)
<1> HIDE DEF cut
<1>5. target \in 1 .. Len(cut) + 1
  BY <1>1, <1>4
<1> HIDE DEF d
<1>6. new \in Seq(Doc) /\ ToSet(new) = ToSet(s.list) /\ IsInjective(new)
  <2>1. d \in Doc /\ d \notin ToSet(cut) /\ ToSet(cut) \cup {d} = ToSet(s.list)
    BY <1>1, <1>2, <1>4
  <2>2. /\ new \in Seq(Doc) /\ ToSet(new) = ToSet(cut) \cup {d}
        /\ IsInjective(cut) /\ d \notin ToSet(cut) => IsInjective(new)
    BY <1>4, <1>5, <2>1, InsertElements
  <2> QED
    BY <1>4, <2>1, <2>2
<1> HIDE DEF new
<1>7. /\ t \in Fields /\ t.list = new /\ t.byname = s.byname /\ t.docname = s.docname
      /\ t.current = s.current /\ t.Document = s.Document
  BY <1>1, <1>6 DEF Fields
<1> HIDE DEF t
<1>8. Consistent(t) /\ Open(t)
  BY <1>6, <1>7 DEF Consistent, Open
<1> QED
  BY <1>3, <1>6, <1>7, <1>8

(* The selected document goes, its successor or else the last follows it.   *)
Deleted(s, t) ==
  \E k \in 1 .. Len(s.list) :
    /\ s.list[k] = s.Document
    /\ t.list = RemoveAt(s.list, k)
    /\ t.docname = s.docname
    /\ t.Document = t.list[IF k < Len(s.list) THEN k ELSE k - 1]

LEMMA DeleteConsistent ==
  ASSUME NEW s, Consistent(s), Open(s), Len(s.list) > 1
  PROVE  LET t == DeleteDocument(s, s.docname[s.Document])
         IN  /\ Consistent(t) /\ Open(t)
             /\ ToSet(t.list) = ToSet(s.list) \ {s.Document} /\ t.list # <<>>
             /\ Deleted(s, t)
<1> DEFINE d == s.Document
           n == s.docname[d]
           k == First(Positions(s, n))
           cut == RemoveAt(s.list, k)
           rest == [s EXCEPT !.list = cut, !.byname[n] = NoDoc]
           next == IF k <= Len(rest.list) THEN k ELSE Len(rest.list)
<1>1. /\ s \in Fields /\ s.list \in Seq(Doc) /\ IsInjective(s.list) /\ d \in Doc
      /\ s.byname \in [Name -> Doc \cup {NoDoc}]
  BY DEF Consistent, Fields
<1>2. d \in ToSet(s.list) /\ k \in 1 .. Len(s.list) /\ s.list[k] = d /\ n \in Name
  BY FirstPosition DEF Open, Consistent
<1>3. DeleteDocument(s, n) = SetCurrent(rest, s.docname[rest.list[next]])
  BY <1>2 DEF DeleteDocument
<1> HIDE DEF k, n
<1>4. /\ cut \in Seq(Doc) /\ Len(cut) = Len(s.list) - 1 /\ IsInjective(cut)
      /\ ToSet(cut) = ToSet(s.list) \ {d}
  BY <1>1, <1>2, RemoveElements
<1> HIDE DEF cut
<1>5. /\ rest \in Fields /\ rest.list = cut /\ rest.byname = [s.byname EXCEPT ![n] = NoDoc]
      /\ rest.docname = s.docname
  BY <1>1, <1>4 DEF Fields
<1>6. next \in 1 .. Len(cut) /\ cut # <<>>
  BY <1>1, <1>2, <1>4, <1>5
<1> HIDE DEF next, rest
<1>7. Consistent(rest)
  <2>1. ASSUME NEW m \in Name, NEW e \in Doc
        PROVE  rest.byname[m] = e <=> e \in ToSet(cut) /\ s.docname[e] = m
    <3>1. s.byname[m] = e <=> e \in ToSet(s.list) /\ s.docname[e] = m
      BY DEF Consistent
    <3>2. s.byname[n] = d /\ s.docname[d] = n
      BY <1>1, <1>2 DEF Consistent, n
    <3>3. CASE m = n
      BY <1>1, <1>2, <1>4, <1>5, <3>1, <3>2, <3>3
    <3>4. CASE m # n
      BY <1>1, <1>2, <1>4, <1>5, <3>1, <3>2, <3>4
    <3> QED
      BY <3>3, <3>4
  <2>2. \A e \in ToSet(cut) : s.docname[e] \in Name
    BY <1>4 DEF Consistent
  <2> QED
    BY <1>4, <1>5, <2>1, <2>2 DEF Consistent
<1> DEFINE e == cut[next]
<1>8. e \in ToSet(cut) /\ s.docname[e] \in Name /\ rest.byname[s.docname[e]] = e /\ e # NoDoc
  <2>1. e \in ToSet(cut)
    BY <1>4, <1>6 DEF ToSet
  <2>2. e \in Doc
    BY <2>1, <1>4, <1>1 DEF ToSet
  <2> QED
    BY <1>5, <1>7, <2>1, <2>2 DEF Consistent
<1> DEFINE t == SetCurrent(rest, s.docname[e])
<1>9. /\ Consistent(t) /\ Open(t) /\ t.list = cut
      /\ t.docname = s.docname /\ t.Document = e
  BY <1>5, <1>6, <1>7, <1>8, SetCurrentOpens
<1>10. t = DeleteDocument(s, n)
  BY <1>3, <1>5
<1> HIDE DEF t
<1>11. Deleted(s, t)
  <2>1. next = IF k < Len(s.list) THEN k ELSE k - 1
    BY <1>1, <1>2, <1>4, <1>5 DEF next
  <2> QED
    BY <1>2, <1>9, <2>1 DEF Deleted, cut
<1> QED
  BY <1>4, <1>6, <1>9, <1>10, <1>11 DEF n, d

LEMMA RenameConsistent ==
  ASSUME NEW s, Consistent(s), Open(s), NEW new \in Name, s.byname[new] = NoDoc
  PROVE  LET t == RenameDocument(s, s.docname[s.Document], new)
         IN  /\ Consistent(t) /\ Open(t) /\ t.list = s.list
             /\ t.docname = [s.docname EXCEPT ![s.Document] = new] /\ t.Document = s.Document
<1> DEFINE d == s.Document
           old == s.docname[d]
           index == [s.byname EXCEPT ![old] = NoDoc, ![new] = d]
           t == [s EXCEPT !.byname = index, !.docname[d] = new]
<1>1. /\ s \in Fields /\ s.list \in Seq(Doc) /\ d \in Doc
      /\ s.byname \in [Name -> Doc \cup {NoDoc}] /\ s.docname \in [Doc -> Name \cup {NoName}]
  BY DEF Consistent, Fields
<1>2. d \in ToSet(s.list) /\ old \in Name /\ s.byname[old] = d /\ old # new
  BY <1>1 DEF Open, Consistent
<1>3. RenameDocument(s, old, new) = t
  BY <1>2 DEF RenameDocument
<1>4. index \in [Name -> Doc \cup {NoDoc}]
  BY <1>1
<1>5. \A m \in Name : index[m] = IF m = new THEN d ELSE IF m = old THEN NoDoc ELSE s.byname[m]
  BY <1>1, <1>2
<1> HIDE DEF index, old
<1>6. /\ t \in Fields /\ t.list = s.list /\ t.byname = index
      /\ t.docname = [s.docname EXCEPT ![d] = new]
      /\ t.current = s.current /\ t.Document = d
  BY <1>1, <1>4 DEF Fields
<1> HIDE DEF t
<1>7. ASSUME NEW m \in Name, NEW e \in Doc
      PROVE  t.byname[m] = e <=> e \in ToSet(s.list) /\ t.docname[e] = m
  <2>1. s.byname[m] = e <=> e \in ToSet(s.list) /\ s.docname[e] = m
    BY DEF Consistent
  <2>2. s.docname[d] = old /\ (e \in ToSet(s.list) => s.docname[e] # new)
    BY FreeName DEF old
  <2>3. s.docname[e] = old /\ e \in ToSet(s.list) => e = d
    BY <1>2 DEF Consistent
  <2>4. CASE e = d
    BY <1>1, <1>2, <1>5, <1>6, <2>1, <2>2, <2>4
  <2>5. CASE e # d
    BY <1>1, <1>2, <1>5, <1>6, <2>1, <2>2, <2>3, <2>5
  <2> QED
    BY <2>4, <2>5
<1>8. \A e \in ToSet(s.list) : t.docname[e] \in Name
  BY <1>1, <1>6 DEF Consistent
<1>9. Consistent(t) /\ Open(t)
  BY <1>6, <1>7, <1>8 DEF Consistent, Open, d
<1> QED
  BY <1>3, <1>6, <1>9 DEF old, d

-----------------------------------------------------------------------------
(* Whole sets.                                                              *)

LEMMA ResetConsistent ==
  ASSUME NEW d \in Doc, NEW outside \in Doc
  PROVE  LET s == AddDocument(EmptySet(outside), d, Main)
         IN  Consistent(s) /\ Open(s)
<1> DEFINE e == EmptySet(outside)
<1>1. /\ e \in Fields /\ e.list = <<>> /\ e.current = NoDoc
      /\ e.byname = [n \in Name |-> NoDoc]
  BY DEF EmptySet, Fields
<1> HIDE DEF e
<1>2. ToSet(e.list) = {} /\ IsInjective(e.list)
  BY <1>1 DEF ToSet, IsInjective
<1>3. Consistent(e)
  BY <1>1, <1>2 DEF Consistent
<1>4. Main \in Name /\ e.byname[Main] = NoDoc /\ d \notin ToSet(e.list)
  BY <1>1, <1>2
<1> QED
  BY <1>1, <1>3, <1>4, AddConsistent DEF e

LEMMA LoadedConsistent ==
  ASSUME FileLoads, file.names # <<>>,
         NEW docs \in [DOMAIN file.names -> Doc], IsInjective(docs)
  PROVE  Consistent(Loaded(docs)) /\ Open(Loaded(docs))
<1> DEFINE names == file.names
           at(n) == CHOOSE i \in DOMAIN docs :
                      names[i] = n /\ \A j \in DOMAIN docs : names[j] = n => j <= i
           place(d) == CHOOSE i \in DOMAIN docs : docs[i] = d
           s == Loaded(docs)
<1>1. /\ names \in Seq(Name) /\ IsInjective(names)
      /\ DOMAIN docs = 1 .. Len(names) /\ DOMAIN names = 1 .. Len(names) /\ Len(names) \in Nat
      /\ file.current \in DOMAIN docs
  BY DEF FileLoads
<1>2. docs \in Seq(Doc)
  BY <1>1
<1>3. ASSUME NEW i \in DOMAIN docs
      PROVE  at(names[i]) = i /\ place(docs[i]) = i
  <2>1. \A j \in DOMAIN docs : names[j] = names[i] => j = i
    BY <1>1 DEF IsInjective
  <2>2. \A j \in DOMAIN docs : docs[j] = docs[i] => j = i
    BY DEF IsInjective
  <2>3. i \in Nat
    BY <1>1
  <2> QED
    BY <2>1, <2>2, <2>3
<1>4. /\ s.list = docs
      /\ s.byname = [n \in Name |-> IF n \in ToSet(names) THEN docs[at(n)] ELSE NoDoc]
      /\ s.docname = [d \in Doc |-> IF \E i \in DOMAIN docs : docs[i] = d
                                      THEN names[place(d)] ELSE NoName]
      /\ s.current = docs[file.current] /\ s.Document = docs[file.current]
      /\ s = [list |-> s.list, byname |-> s.byname, docname |-> s.docname,
              current |-> s.current, Document |-> s.Document]
  BY DEF Loaded
<1> HIDE DEF s, at, place
<1>5. ToSet(docs) = {docs[i] : i \in DOMAIN docs} /\ ToSet(names) = {names[i] : i \in DOMAIN docs}
  BY <1>1 DEF ToSet
<1>6. ASSUME NEW n \in Name
      PROVE  /\ s.byname[n] \in Doc \cup {NoDoc}
             /\ \A i \in DOMAIN docs : names[i] = n => s.byname[n] = docs[i]
             /\ s.byname[n] # NoDoc => \E i \in DOMAIN docs : names[i] = n
  <2>1. CASE n \in ToSet(names)
    <3>1. PICK i \in DOMAIN docs : names[i] = n
      BY <2>1, <1>5
    <3>2. s.byname[n] = docs[i]
      BY <2>1, <3>1, <1>3, <1>4
    <3> QED
      BY <3>1, <3>2, <1>1 DEF IsInjective
  <2>2. CASE n \notin ToSet(names)
    BY <2>2, <1>4, <1>5
  <2> QED
    BY <2>1, <2>2
<1>7. ASSUME NEW d \in Doc
      PROVE  /\ s.docname[d] \in Name \cup {NoName}
             /\ \A i \in DOMAIN docs : docs[i] = d => s.docname[d] = names[i]
  <2>1. CASE \E i \in DOMAIN docs : docs[i] = d
    <3>1. PICK i \in DOMAIN docs : docs[i] = d
      BY <2>1
    <3>2. s.docname[d] = names[i] /\ names[i] \in Name
      BY <2>1, <3>1, <1>1, <1>3, <1>4
    <3> QED
      BY <3>1, <3>2, <1>3
  <2>2. CASE ~ \E i \in DOMAIN docs : docs[i] = d
    BY <2>2, <1>4
  <2> QED
    BY <2>1, <2>2
<1>8. s \in Fields
  <2>1. s.byname \in [Name -> Doc \cup {NoDoc}]
    BY <1>4, <1>6
  <2>2. s.docname \in [Doc -> Name \cup {NoName}]
    BY <1>4, <1>7
  <2>3. s.list \in Seq(Doc) /\ s.current \in Doc \cup {NoDoc} /\ s.Document \in Doc
    BY <1>1, <1>2, <1>4
  <2> QED
    BY <2>1, <2>2, <2>3, <1>4 DEF Fields
<1>9. ASSUME NEW n \in Name, NEW d \in Doc
      PROVE  s.byname[n] = d <=> d \in ToSet(s.list) /\ s.docname[d] = n
  <2>1. ASSUME s.byname[n] = d
        PROVE  d \in ToSet(docs) /\ s.docname[d] = n
    <3>1. PICK i \in DOMAIN docs : names[i] = n
      BY <2>1, <1>6
    <3>2. docs[i] = d
      BY <2>1, <3>1, <1>6
    <3> QED
      BY <3>1, <3>2, <1>5, <1>7
  <2>2. ASSUME d \in ToSet(docs), s.docname[d] = n
        PROVE  s.byname[n] = d
    <3>1. PICK i \in DOMAIN docs : docs[i] = d
      BY <2>2, <1>5
    <3>2. names[i] = n
      BY <2>2, <3>1, <1>7
    <3> QED
      BY <3>1, <3>2, <1>6
  <2> QED
    BY <2>1, <2>2, <1>4
<1>10. ASSUME NEW d \in ToSet(s.list)
       PROVE  s.docname[d] \in Name
  <2>1. PICK i \in DOMAIN docs : docs[i] = d
    BY <1>4, <1>5
  <2>2. d \in Doc /\ names[i] \in Name
    BY <2>1, <1>1
  <2> QED
    BY <2>1, <2>2, <1>7
<1>11. Open(s)
  BY <1>1, <1>4, <1>5 DEF Open
<1> QED
  BY <1>4, <1>8, <1>9, <1>10, <1>11 DEF Consistent, s

(* The names saved are distinct, and the position saved is one of the list. *)
LEMMA SavedLoads ==
  ASSUME Consistent(This), Open(This), Save
  PROVE  FileLoads'
<1> DEFINE names == [i \in DOMAIN list |-> docname[list[i]]]
           k == First(Positions(This, docname[current]))
<1>1. /\ This.list = list /\ This.byname = byname /\ This.docname = docname
      /\ This.current = current /\ This.Document = Document
  BY DEF This
<1>2. list \in Seq(Doc) /\ IsInjective(list) /\ current \in ToSet(list)
  BY <1>1 DEF Consistent, Fields, Open
<1>3. DOMAIN list = 1 .. Len(list) /\ Len(list) \in Nat
  BY <1>2
<1>4. k \in 1 .. Len(list)
  BY <1>1, <1>2, FirstPosition
<1>5. ASSUME NEW i \in DOMAIN list
      PROVE  /\ docname[list[i]] \in Name
             /\ byname[docname[list[i]]] = list[i]
  <2>1. list[i] \in ToSet(list) /\ list[i] \in Doc
    BY <1>2 DEF ToSet
  <2> QED
    BY <2>1, <1>1 DEF Consistent
<1>6. names \in Seq(Name) /\ DOMAIN names = DOMAIN list
  BY <1>3, <1>5
<1>7. IsInjective(names)
  <2> SUFFICES ASSUME NEW i \in DOMAIN list, NEW j \in DOMAIN list,
                      docname[list[i]] = docname[list[j]]
               PROVE  i = j
    BY <1>6 DEF IsInjective
  <2>1. list[i] = list[j]
    BY <1>5
  <2> QED
    BY <2>1, <1>2 DEF IsInjective
<1>8. file' = [names |-> names, current |-> k]
  BY DEF Save
<1> HIDE DEF names, k
<1> QED
  BY <1>3, <1>4, <1>6, <1>7, <1>8 DEF FileLoads

-----------------------------------------------------------------------------
(* Steps.                                                                   *)

(* What a command leaves of the documents, as OthersStay has it. *)
Leaves(S) == Docs \ {Document} \subseteq S /\ S # {}

LEMMA FieldsOfThis ==
  /\ This.list = list /\ This.byname = byname /\ This.docname = docname
  /\ This.current = current /\ This.Document = Document
  BY DEF This

LEMMA BecomesThis ==
  ASSUME NEW s, Consistent(s), Open(s), Becomes(s), Leaves(ToSet(s.list))
  PROVE  Consistent(This)' /\ Open(This)' /\ Leaves(Docs')
<1>1. s \in Fields
  BY DEF Consistent
<1>2. s = [list |-> s.list, byname |-> s.byname, docname |-> s.docname,
           current |-> s.current, Document |-> s.Document]
  BY <1>1 DEF Fields
<1>3. This' = s
  BY <1>2 DEF Becomes, This
<1>4. Docs' = ToSet(s.list)
  BY DEF Becomes, Docs
<1>5. Consistent(This') /\ Open(This')
  BY <1>3
<1> QED
  BY <1>4, <1>5 DEF Consistent, Open

(* A set with one more document, or with another one selected.              *)
LEMMA AddLeaves ==
  ASSUME Consistent(This), Open(This), NEW n \in Name, byname[n] = NoDoc, NEW d \in New
  PROVE  LET t == AddDocument(This, d, n)
         IN  /\ Consistent(t) /\ Open(t) /\ Leaves(ToSet(t.list)) /\ t.list # <<>>
             /\ LET u == SetCurrent(t, n)
                IN  Consistent(u) /\ Open(u) /\ Leaves(ToSet(u.list))
<1> DEFINE t == AddDocument(This, d, n)
           u == SetCurrent(t, n)
<1>1. d \in Doc /\ d \notin ToSet(This.list) /\ This.byname[n] = NoDoc
  BY FieldsOfThis DEF New, Docs
<1>2. /\ Consistent(t) /\ Open(t) /\ t.list = Append(list, d)
      /\ ToSet(t.list) = Docs \cup {d}
  <2>1. This.current = NoDoc \/ Open(This)
    OBVIOUS
  <2>2. Consistent(t) /\ Open(t) /\ Added(This, d, n, t)
    BY <1>1, <2>1, AddConsistent
  <2> QED
    BY <2>2, FieldsOfThis DEF Added, Docs
<1> HIDE DEF t
<1>3. t.list # <<>>
  BY <1>2, FieldsOfThis DEF Consistent, Fields
<1>4. Consistent(u) /\ Open(u) /\ u.list = t.list
  BY <1>2, <1>3, SetCurrentOpens
<1> QED
  BY <1>2, <1>3, <1>4 DEF Leaves, t

LEMMA EnsuredLeaves ==
  ASSUME Consistent(This), Open(This), NEW n \in Name, NEW s \in Ensured(n)
  PROVE  Consistent(s) /\ Open(s) /\ Leaves(ToSet(s.list)) /\ s.list # <<>>
<1>1. FindDocument(This, n) = This
  BY FindChangesNothing
<1>2. \/ s = This
      \/ byname[n] = NoDoc /\ \E d \in New : s = AddDocument(This, d, n)
  BY <1>1, FieldsOfThis DEF Ensured
<1>3. Document \in Docs
  BY FieldsOfThis DEF Open, Docs
<1>4. CASE s = This
  BY <1>3, <1>4, FieldsOfThis DEF Leaves, Docs, ToSet
<1>5. CASE byname[n] = NoDoc /\ \E d \in New : s = AddDocument(This, d, n)
  BY <1>5, AddLeaves
<1> QED
  BY <1>2, <1>4, <1>5

LEMMA AddStep ==
  ASSUME IInv, NEW n \in Name, byname[n] = NoDoc,
         \E d \in New : Becomes(SetCurrent(AddDocument(This, d, n), n))
  PROVE  Consistent(This)' /\ Open(This)' /\ Leaves(Docs')
<1>1. PICK d \in New : Becomes(SetCurrent(AddDocument(This, d, n), n))
  OBVIOUS
<1>2. LET u == SetCurrent(AddDocument(This, d, n), n)
      IN  Consistent(u) /\ Open(u) /\ Leaves(ToSet(u.list))
  BY AddLeaves DEF IInv
<1> QED
  BY <1>1, <1>2, BecomesThis

LEMMA SelectionName ==
  ASSUME Consistent(This), Open(This)
  PROVE  /\ docname[Document] \in Name /\ byname[docname[Document]] = Document
         /\ Document \in Docs /\ Document \in Doc /\ list # <<>>
<1>1. Document \in Docs /\ Document \in Doc
  BY FieldsOfThis DEF Open, Docs, Consistent, Fields
<1>2. list # <<>>
  BY <1>1 DEF Docs, ToSet
<1> QED
  BY <1>1, <1>2, FieldsOfThis DEF Consistent, Docs

LEMMA StayingPut ==
  ASSUME IInv, UNCHANGED <<list, byname, docname, current, Document>>
  PROVE  Consistent(This)' /\ Open(This)' /\ Leaves(Docs')
<1>1. This' = This /\ Docs' = Docs
  BY DEF This, Docs
<1>2. Consistent(This') /\ Open(This')
  BY <1>1 DEF IInv
<1>3. Leaves(Docs)
  BY SelectionName DEF IInv, Leaves
<1> QED
  BY <1>1, <1>2, <1>3 DEF Consistent, Open

LEMMA ScrapbookStep ==
  ASSUME IInv, NEW n \in Name, PasteToScrapbook(n)
  PROVE  Consistent(This)' /\ Open(This)' /\ Leaves(Docs')
<1>1. PICK s \in Ensured(n) : Becomes(SetCurrent(SetCurrent(s, n), docname[Document]))
  BY DEF PasteToScrapbook
<1>2. Consistent(s) /\ Open(s) /\ Leaves(ToSet(s.list)) /\ s.list # <<>>
  BY EnsuredLeaves DEF IInv
<1> DEFINE t == SetCurrent(s, n)
           u == SetCurrent(t, docname[Document])
<1>3. Consistent(t) /\ t.list = s.list
  BY <1>2, SetCurrentOpens
<1> HIDE DEF t
<1>4. docname[Document] \in Name
  BY SelectionName DEF IInv
<1>5. Consistent(u) /\ Open(u) /\ u.list = t.list
  BY <1>2, <1>3, <1>4, SetCurrentOpens
<1>6. Becomes(u)
  BY <1>1 DEF t
<1> HIDE DEF u
<1> QED
  BY <1>2, <1>3, <1>5, <1>6, BecomesThis

LEMMA ChangeStep ==
  ASSUME IInv, NEW n \in Name, ChangeDocument(n)
  PROVE  Consistent(This)' /\ Open(This)' /\ Leaves(Docs')
<1>1. FindDocument(This, n) = This
  BY FindChangesNothing DEF IInv
<1>2. CASE byname[n] = NoDoc
  BY <1>1, <1>2, FieldsOfThis, StayingPut DEF ChangeDocument, Becomes
<1>3. CASE byname[n] # NoDoc
  <2>1. Becomes(SetCurrent(This, n))
    BY <1>1, <1>3, FieldsOfThis DEF ChangeDocument
  <2>2. LET t == SetCurrent(This, n)
        IN  Consistent(t) /\ Open(t) /\ t.list = list
    BY SelectionName, SetCurrentOpens, FieldsOfThis DEF IInv
  <2>3. Leaves(Docs)
    BY SelectionName DEF IInv, Leaves
  <2> QED
    BY <2>1, <2>2, <2>3, BecomesThis DEF Docs
<1> QED
  BY <1>2, <1>3

LEMMA MoveStep ==
  ASSUME IInv, NEW i \in 1 .. MaxDocs, Move(i)
  PROVE  Consistent(This)' /\ Open(This)' /\ Leaves(Docs')
<1> DEFINE t == MoveDocumentIndexTo(This, docname[Document], i)
<1>1. Becomes(t) /\ i \in DOMAIN This.list
  BY FieldsOfThis DEF Move
<1>2. Consistent(t) /\ Open(t) /\ ToSet(t.list) = Docs
  BY <1>1, MoveConsistent, FieldsOfThis DEF IInv, Docs
<1>3. Leaves(Docs)
  BY SelectionName DEF IInv, Leaves
<1> HIDE DEF t
<1> QED
  BY <1>1, <1>2, <1>3, BecomesThis

LEMMA RenameStep ==
  ASSUME IInv, NEW n \in Name, Rename(n)
  PROVE  Consistent(This)' /\ Open(This)' /\ Leaves(Docs')
<1> DEFINE t == RenameDocument(This, docname[Document], n)
<1>1. Becomes(t) /\ This.byname[n] = NoDoc
  BY FieldsOfThis DEF Rename
<1>2. Consistent(t) /\ Open(t) /\ t.list = list
  BY <1>1, RenameConsistent, FieldsOfThis DEF IInv
<1>3. Leaves(Docs)
  BY SelectionName DEF IInv, Leaves
<1> HIDE DEF t
<1> QED
  BY <1>1, <1>2, <1>3, BecomesThis DEF Docs

LEMMA DeleteStep ==
  ASSUME IInv, Delete
  PROVE  Consistent(This)' /\ Open(This)' /\ Leaves(Docs')
<1> DEFINE t == DeleteDocument(This, docname[Document])
<1>1. Becomes(t) /\ Len(This.list) > 1
  BY FieldsOfThis DEF Delete
<1>2. Consistent(t) /\ Open(t) /\ ToSet(t.list) = Docs \ {Document}
  BY <1>1, DeleteConsistent, FieldsOfThis DEF IInv, Docs
<1> HIDE DEF t
<1>3. t.Document \in ToSet(t.list)
  BY <1>2 DEF Open
<1> QED
  BY <1>1, <1>2, <1>3, BecomesThis DEF Leaves

-----------------------------------------------------------------------------
(* The invariant.                                                           *)

LEMMA OutsideStep ==
  ASSUME IInv, NEW s, Consistent(s), Open(s), Becomes(s)
  PROVE  Consistent(This)' /\ Open(This)'
<1>1. s \in Fields
  BY DEF Consistent
<1>2. This' = [list |-> s.list, byname |-> s.byname, docname |-> s.docname,
               current |-> s.current, Document |-> s.Document]
  BY DEF Becomes, This
<1>3. This' = s
  BY <1>1, <1>2 DEF Fields
<1>4. Consistent(This') /\ Open(This')
  BY <1>3
<1> QED
  BY <1>4 DEF Consistent, Open

LEMMA Initial == Init => IInv
<1> SUFFICES ASSUME Init PROVE IInv
  OBVIOUS
<1>1. PICK d \in Doc, outside \in Doc :
        LET s == AddDocument(EmptySet(outside), d, Main)
        IN  /\ list = s.list /\ byname = s.byname /\ docname = s.docname
            /\ current = s.current /\ Document = s.Document
  BY DEF Init
<1> DEFINE s == AddDocument(EmptySet(outside), d, Main)
<1>2. Consistent(s) /\ Open(s)
  BY ResetConsistent
<1>3. This = [list |-> s.list, byname |-> s.byname, docname |-> s.docname,
              current |-> s.current, Document |-> s.Document]
  BY <1>1 DEF This
<1> HIDE DEF s
<1>4. This = s
  BY <1>2, <1>3 DEF Consistent, Fields
<1>5. FileLoads
  BY DEF Init, FileLoads, IsInjective
<1> QED
  BY <1>2, <1>4, <1>5 DEF Init, IInv

(* What every step shows: the set stays consistent and one of its documents *)
(* selected, and within one set a command takes the selected document out   *)
(* at most.                                                                 *)
Kept == /\ Consistent(This)' /\ Open(This)' /\ FileLoads'
        /\ generation' = generation => Leaves(Docs')

LEMMA SameFile == ASSUME FileLoads, UNCHANGED file PROVE FileLoads'
  BY DEF FileLoads

LEMMA StepKeeps ==
  ASSUME IInv, [Next]_vars
  PROVE  Kept
<1>1. FileLoads /\ generation \in {0, 1}
  BY DEF IInv
<1>2. ASSUME NEW n \in Name, AddBlankDocument(n)
      PROVE  Kept
  BY <1>1, <1>2, AddStep, SameFile DEF AddBlankDocument, Same, Kept
<1>3. ASSUME NEW n \in Name, Import(n)
      PROVE  Kept
  <2>1. CASE byname[n] = NoDoc
    BY <1>1, <1>3, <2>1, AddStep, SameFile DEF Import, Kept
  <2>2. CASE byname[n] # NoDoc
    BY <1>1, <1>3, <2>2, StayingPut, SameFile DEF Import, Kept
  <2> QED
    BY <2>1, <2>2
<1>4. ASSUME NEW n \in Name, GetUserDictionaryDocument(n)
      PROVE  Kept
  <2>1. PICK s \in Ensured(n) : Becomes(s)
    BY <1>4 DEF GetUserDictionaryDocument
  <2>2. Consistent(This)' /\ Open(This)' /\ Leaves(Docs')
    BY <2>1, EnsuredLeaves, BecomesThis DEF IInv
  <2> QED
    BY <1>1, <1>4, <2>2, SameFile DEF GetUserDictionaryDocument, Same, Kept
<1>5. ASSUME NEW n \in Name, PasteToScrapbook(n)
      PROVE  Kept
  BY <1>1, <1>5, ScrapbookStep, SameFile DEF PasteToScrapbook, Same, Kept
<1>6. ASSUME NEW n \in Name, ChangeDocument(n)
      PROVE  Kept
  <2>1. UNCHANGED <<file, generation>>
    BY <1>6 DEF ChangeDocument, Same
  <2> QED
    BY <1>1, <1>6, <2>1, ChangeStep, SameFile DEF Kept
<1>7. ASSUME NEW n \in Name, Rename(n)
      PROVE  Kept
  BY <1>1, <1>7, RenameStep, SameFile DEF Rename, Same, Kept
<1>8. ASSUME NEW i \in 1 .. MaxDocs, Move(i)
      PROVE  Kept
  BY <1>1, <1>8, MoveStep, SameFile DEF Move, Same, Kept
<1>9. CASE TryVariant
  <2> DEFINE n == Suffixed[importing]
  <2>1. n \in Name
    BY <1>9 DEF TryVariant, IInv
  <2>2. CASE byname[n] = NoDoc
    BY <1>1, <1>9, <2>1, <2>2, AddStep, SameFile DEF TryVariant, Kept
  <2>3. CASE byname[n] # NoDoc
    BY <1>1, <1>9, <2>1, <2>3, StayingPut, SameFile DEF TryVariant, Kept
  <2> QED
    BY <2>2, <2>3
<1>10. CASE Delete
  BY <1>1, <1>10, DeleteStep, SameFile DEF Delete, Same, Kept
<1>11. CASE ResetDocumentSet
  <2>1. Consistent(This)' /\ Open(This)'
    BY <1>11, ResetConsistent, OutsideStep DEF ResetDocumentSet
  <2> QED
    BY <1>1, <1>11, <2>1, SameFile DEF ResetDocumentSet, Kept
<1>12. CASE Save
  <2>1. FileLoads'
    BY <1>12, SavedLoads DEF IInv
  <2>2. Consistent(This)' /\ Open(This)' /\ Leaves(Docs')
    BY <1>12, StayingPut DEF Save
  <2> QED
    BY <2>1, <2>2 DEF Kept
<1>13. CASE Load
  <2>1. PICK docs \in [DOMAIN file.names -> Doc] : IsInjective(docs) /\ Becomes(Loaded(docs))
    BY <1>13 DEF Load
  <2>2. Consistent(Loaded(docs)) /\ Open(Loaded(docs))
    BY <1>1, <1>13, <2>1, LoadedConsistent DEF Load
  <2>3. Consistent(This)' /\ Open(This)'
    BY <2>1, <2>2, OutsideStep
  <2> QED
    BY <1>1, <1>13, <2>3, SameFile DEF Load, Kept
<1>14. CASE UNCHANGED vars
  BY <1>1, <1>14, StayingPut, SameFile DEF vars, Kept
<1> QED
  BY <1>2, <1>3, <1>4, <1>5, <1>6, <1>7, <1>8, <1>9, <1>10, <1>11, <1>12, <1>13, <1>14
  DEF Next

(* The rest of the invariant: an import that looks for a free variant of a  *)
(* name has one to look at.                                                 *)
LEMMA StepImports ==
  ASSUME IInv, [Next]_vars
  PROVE  /\ importing' \in Name \cup {NoName}
         /\ importing' # NoName => Suffixed[importing'] # NoName
         /\ generation' \in {0, 1}
<1> DEFINE Goal == /\ importing' \in Name \cup {NoName}
                   /\ importing' # NoName => Suffixed[importing'] # NoName
                   /\ generation' \in {0, 1}
<1>1. /\ importing \in Name \cup {NoName} /\ generation \in {0, 1}
      /\ importing # NoName => Suffixed[importing] # NoName
  BY DEF IInv
<1>2. ASSUME NEW n \in Name, Import(n)
      PROVE  Goal
  BY <1>1, <1>2 DEF Import
<1>3. CASE TryVariant
  BY <1>1, <1>3 DEF TryVariant
<1>4. CASE ResetDocumentSet \/ Load
  BY <1>1, <1>4 DEF ResetDocumentSet, Load
<1>5. CASE UNCHANGED <<importing, generation>>
  BY <1>1, <1>5
<1>6. ASSUME NEW n \in Name,
             \/ AddBlankDocument(n) \/ GetUserDictionaryDocument(n) \/ PasteToScrapbook(n)
             \/ ChangeDocument(n) \/ Rename(n)
      PROVE  UNCHANGED <<importing, generation>>
  BY <1>6 DEF AddBlankDocument, GetUserDictionaryDocument, PasteToScrapbook,
              ChangeDocument, Rename, Same
<1>7. ASSUME NEW i \in 1 .. MaxDocs, Move(i)
      PROVE  UNCHANGED <<importing, generation>>
  BY <1>7 DEF Move, Same
<1>8. ASSUME Delete \/ Save \/ UNCHANGED vars
      PROVE  UNCHANGED <<importing, generation>>
  BY <1>8 DEF Delete, Save, Same, vars
<1> QED
  BY <1>2, <1>3, <1>4, <1>5, <1>6, <1>7, <1>8 DEF Next

LEMMA Invariance == Spec => []IInv
<1>1. Init => IInv
  BY Initial
<1>2. IInv /\ [Next]_vars => IInv'
  <2> SUFFICES ASSUME IInv, [Next]_vars PROVE IInv'
    OBVIOUS
  <2>1. Kept
    BY StepKeeps
  <2>2. /\ importing' \in Name \cup {NoName} /\ generation' \in {0, 1}
        /\ importing' # NoName => Suffixed[importing'] # NoName
    BY StepImports
  <2> QED
    BY <2>1, <2>2 DEF IInv, Kept
<1> QED
  BY <1>1, <1>2, PTL DEF Spec

-----------------------------------------------------------------------------
(* The list of names that a set implements.                                 *)

Names(s) == [i \in DOMAIN s.list |-> s.docname[s.list[i]]]

TheNames == [i \in DOMAIN list |-> docname[list[i]]]
Selected == docname[Document]

LEMMA SequenceIsFunction ==
  ASSUME NEW S, NEW s \in Seq(S)
  PROVE  s = [i \in 1 .. Len(s) |-> s[i]]
  OBVIOUS

LEMMA RemoveValues ==
  ASSUME NEW S, NEW s \in Seq(S), NEW k \in 1 .. Len(s), NEW t, t = RemoveAt(s, k)
  PROVE  /\ t \in Seq(S) /\ Len(t) = Len(s) - 1
         /\ \A i \in 1 .. Len(s) - 1 : t[i] = IF i < k THEN s[i] ELSE s[i + 1]
  BY RemoveElements

LEMMA NamesFind ==
  ASSUME NEW s, Consistent(s), NEW e \in ToSet(s.list)
  PROVE  e \in Doc /\ s.docname[e] \in Name /\ s.byname[s.docname[e]] = e
<1>1. e \in Doc
  BY DEF Consistent, Fields, ToSet
<1> QED
  BY <1>1 DEF Consistent

LEMMA NamesOfSet ==
  ASSUME NEW s, Consistent(s)
  PROVE  /\ Names(s) \in Seq(Name) /\ Len(Names(s)) = Len(s.list)
         /\ DL!Distinct(Names(s))
         /\ \A n \in Name : n \in DL!NamesOf(Names(s)) <=> s.byname[n] # NoDoc
         /\ Open(s) => DL!Valid(Names(s), s.docname[s.Document])
<1>1. s.list \in Seq(Doc) /\ IsInjective(s.list)
  BY DEF Consistent, Fields
<1>2. DOMAIN s.list = 1 .. Len(s.list) /\ Len(s.list) \in Nat
  BY <1>1
<1>3. ASSUME NEW i \in DOMAIN s.list
      PROVE  /\ s.list[i] \in ToSet(s.list) /\ s.docname[s.list[i]] \in Name
             /\ s.byname[s.docname[s.list[i]]] = s.list[i]
  <2>1. s.list[i] \in ToSet(s.list)
    BY DEF ToSet
  <2> QED
    BY <2>1, NamesFind
<1>4. /\ Names(s) \in Seq(Name) /\ Len(Names(s)) = Len(s.list)
      /\ DOMAIN Names(s) = DOMAIN s.list
      /\ \A i \in DOMAIN s.list : Names(s)[i] = s.docname[s.list[i]]
  BY <1>2, <1>3 DEF Names
<1>5. DL!Distinct(Names(s))
  <2> SUFFICES ASSUME NEW i \in DOMAIN s.list, NEW j \in DOMAIN s.list,
                      s.docname[s.list[i]] = s.docname[s.list[j]]
               PROVE  i = j
    BY <1>4 DEF DL!Distinct
  <2>1. s.list[i] = s.list[j]
    BY <1>3
  <2> QED
    BY <2>1, <1>1 DEF IsInjective
<1>6. ASSUME NEW e \in ToSet(s.list)
      PROVE  s.docname[e] \in DL!NamesOf(Names(s))
  <2>1. PICK i \in DOMAIN s.list : s.list[i] = e
    BY DEF ToSet
  <2> QED
    BY <2>1, <1>4 DEF DL!NamesOf
<1>7. ASSUME NEW n \in Name
      PROVE  n \in DL!NamesOf(Names(s)) <=> s.byname[n] # NoDoc
  <2>1. ASSUME n \in DL!NamesOf(Names(s))
        PROVE  s.byname[n] # NoDoc
    <3>1. PICK i \in DOMAIN s.list : s.docname[s.list[i]] = n
      BY <2>1, <1>4 DEF DL!NamesOf
    <3>2. s.list[i] \in Doc
      BY <1>3, NamesFind
    <3> QED
      BY <3>1, <3>2, <1>3
  <2>2. ASSUME s.byname[n] # NoDoc
        PROVE  n \in DL!NamesOf(Names(s))
    <3>1. s.byname[n] \in Doc
      BY <2>2 DEF Consistent, Fields
    <3>2. s.byname[n] \in ToSet(s.list) /\ s.docname[s.byname[n]] = n
      BY <3>1 DEF Consistent
    <3> QED
      BY <3>2, <1>6
  <2> QED
    BY <2>1, <2>2
<1>8. Open(s) => DL!Valid(Names(s), s.docname[s.Document])
  BY <1>4, <1>5, <1>6 DEF Open, DL!Valid
<1> QED
  BY <1>4, <1>5, <1>7, <1>8

LEMMA NamesNow ==
  ASSUME IInv
  PROVE  /\ TheNames = Names(This) /\ DL!Valid(TheNames, Selected)
         /\ \A n \in Name : n \in DL!NamesOf(TheNames) <=> byname[n] # NoDoc
<1>1. TheNames = Names(This)
  BY FieldsOfThis DEF TheNames, Names
<1>2. Consistent(This) /\ Open(This)
  BY DEF IInv
<1> QED
  BY <1>1, <1>2, NamesOfSet, FieldsOfThis DEF Selected

LEMMA NamesNext ==
  ASSUME NEW s, Becomes(s)
  PROVE  TheNames' = Names(s) /\ Selected' = s.docname[s.Document]
  BY DEF Becomes, TheNames, Selected, Names

LEMMA SelectedName ==
  ASSUME NEW s, Consistent(s), s.list # <<>>, NEW n \in Name, s.byname[n] # NoDoc
  PROVE  LET t == SetCurrent(s, n)
         IN  Names(t) = Names(s) /\ t.docname[t.Document] = n
<1> DEFINE t == SetCurrent(s, n)
<1>1. t.list = s.list /\ t.docname = s.docname /\ t.Document = s.byname[n]
  BY SetCurrentOpens
<1>2. s.byname[n] \in Doc
  BY DEF Consistent, Fields
<1>3. s.docname[s.byname[n]] = n
  BY <1>2 DEF Consistent
<1> HIDE DEF t
<1> QED
  BY <1>1, <1>3 DEF Names, t

LEMMA AddNames ==
  ASSUME Consistent(This), Open(This), NEW n \in Name, byname[n] = NoDoc, NEW d \in New
  PROVE  LET t == AddDocument(This, d, n)
         IN  /\ Consistent(t) /\ Open(t) /\ t.list # <<>> /\ t.byname[n] # NoDoc
             /\ Names(t) = Append(TheNames, n)
             /\ t.docname[t.Document] \in {n, Selected}
             /\ Document \in ToSet(t.list) /\ t.docname[Document] = Selected
<1> DEFINE t == AddDocument(This, d, n)
<1>1. d \in Doc /\ d \notin ToSet(list) /\ This.byname[n] = NoDoc
  BY FieldsOfThis DEF New, Docs
<1>2. Consistent(t) /\ Open(t) /\ Added(This, d, n, t) /\ t.list # <<>>
  <2>1. This.current = NoDoc \/ Open(This)
    OBVIOUS
  <2>2. d \notin ToSet(This.list)
    BY <1>1, FieldsOfThis
  <2> QED
    BY <1>1, <2>1, <2>2, AddConsistent, AddLeaves
<1> HIDE DEF t
<1>3. /\ t.list = Append(list, d) /\ t.byname[n] = d /\ ToSet(t.list) = ToSet(list) \cup {d}
      /\ t.docname = [docname EXCEPT ![d] = n] /\ t.Document \in {d, Document}
  BY <1>2, FieldsOfThis DEF Added
<1>4. /\ docname \in [Doc -> Name \cup {NoName}] /\ list \in Seq(Doc)
      /\ Document \in ToSet(list) /\ Document \in Doc
  BY FieldsOfThis DEF Consistent, Fields, Open
<1>5. Document # d /\ t.docname[Document] = Selected /\ t.docname[d] = n
  BY <1>1, <1>3, <1>4 DEF Selected
<1>6. Names(t) = Append(TheNames, n)
  <2>1. /\ DOMAIN list = 1 .. Len(list) /\ Len(list) \in Nat
        /\ DOMAIN t.list = 1 .. Len(list) + 1
        /\ \A i \in 1 .. Len(list) : t.list[i] = list[i]
        /\ t.list[Len(list) + 1] = d
    BY <1>1, <1>3, <1>4
  <2>2. \A i \in 1 .. Len(list) : list[i] \in Doc /\ list[i] # d
    BY <2>1, <1>1, <1>4 DEF ToSet
  <2>3. \A i \in 1 .. Len(list) : t.docname[t.list[i]] = docname[list[i]]
    BY <2>1, <2>2, <1>3, <1>4
  <2>4. Names(t) = [i \in 1 .. Len(list) + 1 |->
                      IF i = Len(list) + 1 THEN n ELSE docname[list[i]]]
    BY <2>1, <2>3, <1>5 DEF Names
  <2>5. TheNames = [i \in 1 .. Len(list) |-> docname[list[i]]]
    BY <2>1 DEF TheNames
  <2>6. TheNames \in Seq(Name) /\ Len(TheNames) = Len(list)
    BY NamesOfSet, FieldsOfThis DEF TheNames, Names
  <2>7. /\ Append(TheNames, n) \in Seq(Name)
        /\ Len(Append(TheNames, n)) = Len(list) + 1
        /\ \A i \in 1 .. Len(list) + 1 : Append(TheNames, n)[i] =
             IF i = Len(list) + 1 THEN n ELSE TheNames[i]
    BY <2>1, <2>6
  <2>8. Append(TheNames, n) = [i \in 1 .. Len(list) + 1 |-> Append(TheNames, n)[i]]
    BY ONLY <2>7, SequenceIsFunction
  <2>9. \A i \in 1 .. Len(list) + 1 : i # Len(list) + 1 => TheNames[i] = docname[list[i]]
    BY <2>1, <2>5
  <2> HIDE DEF TheNames
  <2> QED
    BY <2>1, <2>4, <2>7, <2>8, <2>9
<1> QED
  BY <1>1, <1>2, <1>3, <1>4, <1>5, <1>6 DEF t

(* Steps of the list of names.                                              *)
LEMMA NamesAdd ==
  ASSUME IInv, NEW n \in Name, byname[n] = NoDoc,
         TheNames' = Append(TheNames, n), Selected' \in {n, Selected}
  PROVE  DL!Add
<1>1. n \in Name \ DL!NamesOf(TheNames)
  BY NamesNow
<1> QED
  BY <1>1 DEF DL!Add, TheNames, Selected

LEMMA NamesSelect ==
  ASSUME IInv, TheNames' = TheNames, Selected' \in DL!NamesOf(TheNames)
  PROVE  DL!Select
  BY DEF DL!Select, TheNames, Selected

LEMMA AddRefines ==
  ASSUME IInv, NEW n \in Name, byname[n] = NoDoc,
         \E d \in New : Becomes(SetCurrent(AddDocument(This, d, n), n))
  PROVE  DL!Add
<1>1. PICK d \in New : Becomes(SetCurrent(AddDocument(This, d, n), n))
  OBVIOUS
<1> DEFINE t == AddDocument(This, d, n)
           u == SetCurrent(t, n)
<1>2. Consistent(t) /\ t.list # <<>> /\ t.byname[n] # NoDoc /\ Names(t) = Append(TheNames, n)
  BY AddNames DEF IInv
<1> HIDE DEF t
<1>3. Names(u) = Names(t) /\ u.docname[u.Document] = n
  BY <1>2, SelectedName
<1>4. Becomes(u)
  BY <1>1 DEF t
<1> HIDE DEF u
<1>5. TheNames' = Append(TheNames, n) /\ Selected' = n
  BY <1>2, <1>3, <1>4, NamesNext
<1> QED
  BY <1>5, NamesAdd

(* A set in which the document of a name was found or made.                 *)
LEMMA EnsuredNames ==
  ASSUME IInv, NEW n \in Name, NEW s \in Ensured(n)
  PROVE  /\ Consistent(s) /\ s.list # <<>>
         /\ Document \in ToSet(s.list) /\ s.docname[Document] = Selected
         /\ \/ s = This
            \/ /\ byname[n] = NoDoc /\ Names(s) = Append(TheNames, n)
               /\ s.docname[s.Document] \in {n, Selected}
<1>1. FindDocument(This, n) = This
  BY FindChangesNothing DEF IInv
<1>2. \/ s = This
      \/ byname[n] = NoDoc /\ \E d \in New : s = AddDocument(This, d, n)
  BY <1>1, FieldsOfThis DEF Ensured
<1>3. CASE s = This
  BY <1>3, SelectionName, FieldsOfThis DEF IInv, Selected, Docs
<1>4. CASE byname[n] = NoDoc /\ \E d \in New : s = AddDocument(This, d, n)
  BY <1>4, AddNames DEF IInv
<1> QED
  BY <1>2, <1>3, <1>4

LEMMA DictionaryRefines ==
  ASSUME IInv, NEW n \in Name, NEW s \in Ensured(n), Becomes(s)
  PROVE  DL!Add \/ DL!Select
<1>1. TheNames' = Names(s) /\ Selected' = s.docname[s.Document]
  BY NamesNext
<1>2. CASE s = This
  BY <1>1, <1>2, NamesNow, NamesSelect, FieldsOfThis DEF Selected, DL!Valid
<1>3. CASE /\ byname[n] = NoDoc /\ Names(s) = Append(TheNames, n)
           /\ s.docname[s.Document] \in {n, Selected}
  BY <1>1, <1>3, NamesAdd
<1> QED
  BY <1>2, <1>3, EnsuredNames

LEMMA ScrapbookRefines ==
  ASSUME IInv, NEW n \in Name, PasteToScrapbook(n)
  PROVE  DL!Add \/ DL!Select
<1>1. PICK s \in Ensured(n) : Becomes(SetCurrent(SetCurrent(s, n), Selected))
  BY DEF PasteToScrapbook, Selected
<1> DEFINE t == SetCurrent(s, n)
           u == SetCurrent(t, Selected)
<1>2. /\ Consistent(s) /\ s.list # <<>>
      /\ Document \in ToSet(s.list) /\ s.docname[Document] = Selected
  BY EnsuredNames
<1>3. Consistent(t) /\ t.list = s.list /\ t.docname = s.docname
  BY <1>2, SetCurrentOpens
<1> HIDE DEF t
<1>4. Selected \in Name /\ t.byname[Selected] # NoDoc /\ Names(t) = Names(s)
  <2>1. Document \in Doc /\ Selected \in Name /\ t.byname[Selected] = Document
    BY <1>2, <1>3, NamesFind
  <2> QED
    BY <2>1, <1>3 DEF Names
<1>5. Names(u) = Names(s) /\ u.docname[u.Document] = Selected
  BY <1>2, <1>3, <1>4, SelectedName
<1>6. Becomes(u)
  BY <1>1 DEF t
<1> HIDE DEF u
<1>7. TheNames' = Names(s) /\ Selected' = Selected
  BY <1>5, <1>6, NamesNext
<1>8. CASE s = This
  BY <1>7, <1>8, NamesNow, NamesSelect DEF DL!Valid
<1>9. CASE byname[n] = NoDoc /\ Names(s) = Append(TheNames, n)
  BY <1>7, <1>9, NamesAdd
<1> QED
  BY <1>8, <1>9, EnsuredNames

LEMMA ChangeRefines ==
  ASSUME IInv, NEW n \in Name, ChangeDocument(n)
  PROVE  DL!Select
<1>1. FindDocument(This, n) = This
  BY FindChangesNothing DEF IInv
<1>2. CASE byname[n] = NoDoc
  <2>1. Becomes(This)
    BY <1>1, <1>2, FieldsOfThis DEF ChangeDocument
  <2> QED
    BY <2>1, NamesNext, NamesNow, NamesSelect, FieldsOfThis DEF Selected, DL!Valid
<1>3. CASE byname[n] # NoDoc
  <2>1. Becomes(SetCurrent(This, n))
    BY <1>1, <1>3, FieldsOfThis DEF ChangeDocument
  <2> DEFINE t == SetCurrent(This, n)
  <2>2. Names(t) = Names(This) /\ t.docname[t.Document] = n
    BY <1>3, SelectedName, SelectionName, FieldsOfThis DEF IInv
  <2> HIDE DEF t
  <2>3. TheNames' = TheNames /\ Selected' = n
    BY <2>1, <2>2, NamesNext, NamesNow DEF t
  <2> QED
    BY <1>3, <2>3, NamesNow, NamesSelect
<1> QED
  BY <1>2, <1>3

LEMMA MoveRefines ==
  ASSUME IInv, NEW i \in 1 .. MaxDocs, Move(i)
  PROVE  DL!Reorder
<1> DEFINE t == MoveDocumentIndexTo(This, docname[Document], i)
<1>1. Becomes(t) /\ i \in DOMAIN This.list
  BY FieldsOfThis DEF Move
<1>2. /\ Consistent(t) /\ Open(t)
      /\ t.byname = byname /\ t.docname = docname /\ t.Document = Document
  BY <1>1, MoveConsistent, FieldsOfThis DEF IInv
<1> HIDE DEF t
<1>3. TheNames' = Names(t) /\ Selected' = Selected
  BY <1>1, <1>2, NamesNext DEF Selected
<1>4. DL!Valid(Names(t), Selected)
  BY <1>2, NamesOfSet DEF Selected
<1>5. DL!NamesOf(Names(t)) = DL!NamesOf(TheNames)
  <2>1. \A n \in Name : n \in DL!NamesOf(Names(t)) <=> n \in DL!NamesOf(TheNames)
    BY <1>2, NamesOfSet, NamesNow
  <2>2. DL!NamesOf(Names(t)) \subseteq Name /\ DL!NamesOf(TheNames) \subseteq Name
    BY <1>4, NamesNow DEF DL!Valid, DL!NamesOf
  <2> QED
    BY <2>1, <2>2
<1> QED
  BY <1>3, <1>4, <1>5 DEF DL!Reorder, TheNames, Selected

LEMMA RenameRefines ==
  ASSUME IInv, NEW n \in Name, Rename(n)
  PROVE  DL!Rename
<1> DEFINE t == RenameDocument(This, docname[Document], n)
<1>1. Becomes(t) /\ byname[n] = NoDoc
  BY DEF Rename
<1>2. t.list = list /\ t.docname = [docname EXCEPT ![Document] = n] /\ t.Document = Document
  BY <1>1, RenameConsistent, FieldsOfThis DEF IInv
<1> HIDE DEF t
<1>3. /\ Document \in Doc /\ list \in Seq(Doc) /\ IsInjective(list)
      /\ docname \in [Doc -> Name \cup {NoName}] /\ Document \in ToSet(list)
  BY FieldsOfThis DEF IInv, Consistent, Fields, Open
<1>4. PICK k \in DOMAIN list : list[k] = Document
  BY <1>3 DEF ToSet
<1>5. TheNames' = [i \in DOMAIN list |-> t.docname[list[i]]] /\ Selected' = t.docname[Document]
  <2>1. TheNames' = Names(t) /\ Selected' = t.docname[t.Document]
    BY <1>1, NamesNext
  <2>2. Names(t) = [i \in DOMAIN list |-> t.docname[list[i]]]
    BY <1>2 DEF Names
  <2> QED
    BY <1>2, <2>1, <2>2
<1>6. Selected' = n
  BY <1>2, <1>3, <1>5
<1>7. TheNames' = [TheNames EXCEPT ![k] = n]
  <2>1. \A i \in DOMAIN list : list[i] \in Doc /\ (i # k => list[i] # Document)
    BY <1>3, <1>4 DEF IsInjective
  <2>2. \A i \in DOMAIN list : t.docname[list[i]] = IF i = k THEN n ELSE docname[list[i]]
    BY <1>2, <1>3, <1>4, <2>1
  <2> QED
    BY <1>4, <1>5, <2>2 DEF TheNames
<1>8. k \in DOMAIN TheNames /\ TheNames[k] = Selected
  BY <1>4 DEF TheNames, Selected
<1>9. n \in Name \ DL!NamesOf(TheNames)
  BY <1>1, NamesNow
<1> QED
  BY <1>6, <1>7, <1>8, <1>9 DEF DL!Rename, TheNames, Selected

LEMMA DeleteRefines ==
  ASSUME IInv, Delete
  PROVE  DL!Remove
<1> DEFINE t == DeleteDocument(This, docname[Document])
<1>1. Becomes(t) /\ Len(list) > 1
  BY DEF Delete
<1>2. Consistent(t) /\ Deleted(This, t)
  BY <1>1, DeleteConsistent, FieldsOfThis DEF IInv
<1> HIDE DEF t
<1>3. PICK k \in 1 .. Len(list) :
        /\ list[k] = Document /\ t.list = RemoveAt(list, k) /\ t.docname = docname
        /\ t.Document = t.list[IF k < Len(list) THEN k ELSE k - 1]
  BY <1>2, FieldsOfThis DEF Deleted
<1>4. list \in Seq(Doc) /\ DOMAIN list = 1 .. Len(list) /\ Len(list) \in Nat
  BY FieldsOfThis DEF IInv, Consistent, Fields
<1>5. /\ Len(t.list) = Len(list) - 1
      /\ \A i \in 1 .. Len(list) - 1 : t.list[i] = IF i < k THEN list[i] ELSE list[i + 1]
  BY ONLY <1>3, <1>4, RemoveValues, ZenonT(60)
<1>6. /\ TheNames \in Seq(Name) /\ Len(TheNames) = Len(list)
      /\ \A i \in 1 .. Len(list) : TheNames[i] = docname[list[i]]
  <2>1. TheNames \in Seq(Name) /\ Len(TheNames) = Len(list)
    BY NamesOfSet, NamesNow, FieldsOfThis DEF IInv
  <2> QED
    BY <2>1, <1>4 DEF TheNames
<1>7. /\ Names(t) \in Seq(Name) /\ Len(Names(t)) = Len(list) - 1
      /\ \A i \in 1 .. Len(list) - 1 : Names(t)[i] = docname[t.list[i]]
  <2>1. Names(t) \in Seq(Name) /\ Len(Names(t)) = Len(list) - 1 /\ t.list \in Seq(Doc)
    BY <1>2, <1>5, NamesOfSet DEF Consistent, Fields
  <2> QED
    BY <2>1, <1>3, <1>5 DEF Names
<1> HIDE DEF Names
<1>8. Names(t) = RemoveAt(TheNames, k)
  <2>1. /\ RemoveAt(TheNames, k) \in Seq(Name) /\ Len(RemoveAt(TheNames, k)) = Len(list) - 1
        /\ \A i \in 1 .. Len(list) - 1 :
             RemoveAt(TheNames, k)[i] = IF i < k THEN TheNames[i] ELSE TheNames[i + 1]
    <3>1. k \in 1 .. Len(TheNames) /\ TheNames \in Seq(Name) /\ Len(TheNames) = Len(list)
      BY <1>6
    <3>2. /\ RemoveAt(TheNames, k) \in Seq(Name)
          /\ Len(RemoveAt(TheNames, k)) = Len(TheNames) - 1
          /\ \A i \in 1 .. Len(TheNames) - 1 :
               RemoveAt(TheNames, k)[i] = IF i < k THEN TheNames[i] ELSE TheNames[i + 1]
      BY ONLY <3>1, RemoveValues, SMTT(60)
    <3> QED
      BY ONLY <3>1, <3>2
  <2>2. \A i \in 1 .. Len(list) - 1 : i \in 1 .. Len(list) /\ i + 1 \in 1 .. Len(list)
    BY <1>4
  <2>3. ASSUME NEW i \in 1 .. Len(list) - 1
        PROVE  Names(t)[i] = RemoveAt(TheNames, k)[i]
    <3>1. i \in 1 .. Len(list) /\ i + 1 \in 1 .. Len(list)
      BY <2>2
    <3> DEFINE j == IF i < k THEN i ELSE i + 1
    <3>2. t.list[i] = list[j] /\ RemoveAt(TheNames, k)[i] = TheNames[j]
      BY <1>5, <2>1
    <3>3. TheNames[j] = docname[list[j]]
      BY <3>1, <1>6
    <3>4. Names(t)[i] = docname[t.list[i]]
      BY <1>7
    <3> HIDE DEF j
    <3> QED
      BY <3>2, <3>3, <3>4
  <2>4. /\ Names(t) = [i \in 1 .. Len(list) - 1 |-> Names(t)[i]]
        /\ RemoveAt(TheNames, k) = [i \in 1 .. Len(list) - 1 |-> RemoveAt(TheNames, k)[i]]
    BY ONLY <1>7, <2>1, SequenceIsFunction
  <2> QED
    BY ONLY <2>3, <2>4
<1>9. t.docname[t.Document] = IF k < Len(list) THEN TheNames[k + 1] ELSE TheNames[k - 1]
  <2>1. CASE k < Len(list)
    <3>1. k \in 1 .. Len(list) - 1 /\ k + 1 \in 1 .. Len(list)
      BY <2>1, <1>4
    <3>2. t.Document = list[k + 1]
      BY <2>1, <3>1, <1>3, <1>5
    <3> QED
      BY <2>1, <3>1, <3>2, <1>3, <1>6
  <2>2. CASE ~(k < Len(list))
    <3>1. k - 1 \in 1 .. Len(list) - 1 /\ k - 1 < k /\ k - 1 \in 1 .. Len(list)
      BY <2>2, <1>1, <1>4
    <3>2. t.Document = list[k - 1]
      BY <2>2, <3>1, <1>3, <1>5
    <3> QED
      BY <2>2, <3>1, <3>2, <1>3, <1>6
  <2> QED
    BY <2>1, <2>2
<1>10. /\ TheNames' = SubSeq(TheNames, 1, k - 1) \o SubSeq(TheNames, k + 1, Len(TheNames))
       /\ Selected' = IF k < Len(TheNames) THEN TheNames[k + 1] ELSE TheNames[k - 1]
  BY <1>1, <1>6, <1>8, <1>9, NamesNext DEF RemoveAt
<1>11. k \in DOMAIN TheNames /\ TheNames[k] = Selected /\ Len(TheNames) > 1
  BY <1>1, <1>3, <1>6 DEF Selected
<1> QED
  BY <1>10, <1>11 DEF DL!Remove, TheNames, Selected

LEMMA ReplaceRefines ==
  ASSUME IInv, NEW s, Consistent(s), Open(s), Becomes(s), generation' = 1 - generation
  PROVE  DL!Replace
<1>1. DL!Valid(TheNames', Selected')
  BY NamesOfSet, NamesNext
<1>2. generation' # generation
  BY DEF IInv
<1> QED
  BY <1>1, <1>2 DEF DL!Replace, TheNames, Selected

LEMMA StepRefines ==
  ASSUME IInv, [Next]_vars
  PROVE  [DL!Next]_(DL!vars)
<1>1. ASSUME NEW n \in Name, AddBlankDocument(n)
      PROVE  DL!Next
  BY <1>1, AddRefines DEF AddBlankDocument, Same, DL!Next, DL!Keep
<1>2. ASSUME UNCHANGED <<list, byname, docname, current, Document, generation>>
      PROVE  UNCHANGED DL!vars
  BY <1>2 DEF DL!vars
<1>3. ASSUME NEW n \in Name, Import(n)
      PROVE  [DL!Next]_(DL!vars)
  <2>1. CASE byname[n] = NoDoc
    BY <1>3, <2>1, AddRefines DEF Import, DL!Next, DL!Keep
  <2>2. CASE byname[n] # NoDoc
    BY <1>2, <1>3, <2>2 DEF Import
  <2> QED
    BY <2>1, <2>2
<1>4. ASSUME NEW n \in Name, GetUserDictionaryDocument(n)
      PROVE  DL!Next
  BY <1>4, DictionaryRefines DEF GetUserDictionaryDocument, Same, DL!Next, DL!Keep
<1>5. ASSUME NEW n \in Name, PasteToScrapbook(n)
      PROVE  DL!Next
  BY <1>5, ScrapbookRefines DEF PasteToScrapbook, Same, DL!Next, DL!Keep
<1>6. ASSUME NEW n \in Name, ChangeDocument(n)
      PROVE  DL!Next
  <2>1. generation' = generation
    BY <1>6 DEF ChangeDocument, Same
  <2> QED
    BY <1>6, <2>1, ChangeRefines DEF DL!Next, DL!Keep
<1>7. ASSUME NEW n \in Name, Rename(n)
      PROVE  DL!Next
  BY <1>7, RenameRefines DEF Rename, Same, DL!Next, DL!Keep
<1>8. ASSUME NEW i \in 1 .. MaxDocs, Move(i)
      PROVE  DL!Next
  BY <1>8, MoveRefines DEF Move, Same, DL!Next, DL!Keep
<1>9. CASE TryVariant
  <2> DEFINE n == Suffixed[importing]
  <2>1. n \in Name
    BY <1>9 DEF TryVariant, IInv
  <2>2. CASE byname[n] = NoDoc
    BY <1>9, <2>1, <2>2, AddRefines DEF TryVariant, DL!Next, DL!Keep
  <2>3. CASE byname[n] # NoDoc
    BY <1>2, <1>9, <2>3 DEF TryVariant
  <2> QED
    BY <2>2, <2>3
<1>10. CASE Delete
  BY <1>10, DeleteRefines DEF Delete, Same, DL!Next, DL!Keep
<1>11. CASE ResetDocumentSet
  <2>1. PICK d \in Doc, outside \in Doc : Becomes(AddDocument(EmptySet(outside), d, Main))
    BY <1>11 DEF ResetDocumentSet
  <2>2. LET s == AddDocument(EmptySet(outside), d, Main)
        IN  Consistent(s) /\ Open(s)
    BY ResetConsistent
  <2>3. generation' = 1 - generation
    BY <1>11 DEF ResetDocumentSet
  <2> QED
    BY <2>1, <2>2, <2>3, ReplaceRefines DEF DL!Next
<1>12. CASE Load
  <2>1. PICK docs \in [DOMAIN file.names -> Doc] : IsInjective(docs) /\ Becomes(Loaded(docs))
    BY <1>12 DEF Load
  <2>2. Consistent(Loaded(docs)) /\ Open(Loaded(docs))
    BY <1>12, <2>1, LoadedConsistent DEF Load, IInv
  <2>3. generation' = 1 - generation
    BY <1>12 DEF Load
  <2> QED
    BY <2>1, <2>2, <2>3, ReplaceRefines DEF DL!Next
<1>13. CASE Save \/ UNCHANGED vars
  BY <1>2, <1>13 DEF Save, vars
<1> QED
  BY <1>1, <1>3, <1>4, <1>5, <1>6, <1>7, <1>8, <1>9, <1>10, <1>11, <1>12, <1>13 DEF Next

-----------------------------------------------------------------------------
(* Theorems.                                                                *)

(* Every field of a set holds what it should; the global Document, and      *)
(* DocumentSet.current, which may be nil only while a set is being made.    *)
THEOREM TypeCorrect == Spec => []TypeOK
<1>1. IInv => TypeOK
  BY FieldsOfThis DEF IInv, TypeOK, Consistent, Fields, FileLoads
<1> QED
  BY <1>1, Invariance, PTL

(* The string keys of DocumentSet.documents find exactly the documents of   *)
(* its array part, each under its own name, whatever the user does with     *)
(* any number of documents.                                                 *)
THEOREM IndexAgrees == Spec => []IndexConsistent
<1>1. IInv => IndexConsistent
  BY FieldsOfThis DEF IInv, Consistent, IndexConsistent, Docs
<1> QED
  BY <1>1, Invariance, PTL

(* No document is listed twice. *)
THEOREM NoneTwice == Spec => []ListedOnce
<1>1. IInv => ListedOnce
  BY FieldsOfThis DEF IInv, Consistent, ListedOnce
<1> QED
  BY <1>1, Invariance, PTL

(* The document being edited is the selected one and one of the list: after *)
(* deleting, renaming, loading or leaving the scrapbook, the global         *)
(* Document is never one that was removed.                                  *)
THEOREM SelectionOpen == Spec => []SelectedIsOpen
<1>1. IInv => SelectedIsOpen
  BY FieldsOfThis DEF IInv, Open, SelectedIsOpen, Docs
<1> QED
  BY <1>1, Invariance, PTL

(* A command takes the selected document away at most, and only if another  *)
(* stays; importing, the scrapbook and the user dictionary take none.       *)
THEOREM OthersKept == Spec => OthersStay
<1>1. IInv /\ [Next]_vars =>
        [generation' = generation => Docs \ {Document} \subseteq Docs' /\ Docs' # {}]_vars
  BY StepKeeps DEF Kept, Leaves
<1> QED
  BY <1>1, Invariance, PTL DEF Spec, OthersStay

(* The document set behaves as a list of distinct names with one selected:  *)
(* every command adds one name at the end, reorders, renames or removes the *)
(* selected one (its successor is selected then), selects, or replaces the  *)
(* whole list.                                                              *)
THEOREM Refinement == Spec => ImplementsDocumentList
<1>1. Init => DL!Init
  BY Initial, NamesNow DEF DL!Init, TheNames, Selected
<1>2. IInv /\ [Next]_vars => [DL!Next]_(DL!vars)
  BY StepRefines
<1> QED
  BY <1>1, <1>2, Invariance, PTL DEF Spec, ImplementsDocumentList, DL!Spec
=============================================================================
