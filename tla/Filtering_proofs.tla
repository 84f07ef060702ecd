-------------------------- MODULE Filtering_proofs --------------------------
(***************************************************************************)
(* What the loops of Filtering compute, and lists as sets: the lemmas that *)
(* the proofs about services with lists have in common.                    *)
(***************************************************************************)
EXTENDS Filtering, FiniteSetTheorems, WellFoundedInduction, TLAPS

-----------------------------------------------------------------------------
(***************************************************************************)
(* Lists.  Induction over a set of numbers: the counterexample would have  *)
(* a least element.                                                        *)
(***************************************************************************)
LEMMA SetInduction ==
  ASSUME NEW T, 0 \in T, \A n \in Nat : n \in T => n + 1 \in T
  PROVE  Nat \subseteq T
<1> SUFFICES ASSUME Nat \ T # {} PROVE FALSE
  OBVIOUS
<1>1. PICK m \in Nat \ T : \A n \in Nat \ T : ~(<<n, m>> \in OpToRel(<, Nat))
  <2>1. Nat \ T \subseteq Nat
    OBVIOUS
  <2> QED
    BY <2>1, NatLessThanWellFounded, WFMin, Zenon
<1>2. m # 0
  OBVIOUS
<1>3. PICK n \in Nat : n + 1 = m /\ n < m
  BY <1>2
<1>4. n \notin T
  BY <1>3
<1>5. <<n, m>> \notin OpToRel(<, Nat)
  BY <1>1, <1>4
<1>6. ~(n < m)
  BY <1>5, Zenon DEF OpToRel
<1> QED
  BY <1>3, <1>6

(* A function that satisfies the recursion of Kept up to n.                *)
KeepsUpTo(f, s, out, n) ==
    /\ f[0] = << >>
    /\ \A i \in 1..n : f[i] = IF s[i] \in out THEN f[i - 1] ELSE Append(f[i - 1], s[i])

LEMMA KeptExists ==
  ASSUME NEW s, NEW out, Len(s) \in Nat
  PROVE  \E f : KeepsUpTo(f, s, out, Len(s)) /\ f = [i \in 0..Len(s) |-> f[i]]
<1> DEFINE T == {n \in Nat : \E f : KeepsUpTo(f, s, out, n) /\ f = [i \in 0..n |-> f[i]]}
<1>1. 0 \in T
  <2>1. PICK f : f = [i \in 0..0 |-> << >>]
    OBVIOUS
  <2>2. KeepsUpTo(f, s, out, 0) /\ f = [i \in 0..0 |-> f[i]]
    BY <2>1 DEF KeepsUpTo
  <2> QED
    BY <2>2
<1>2. ASSUME NEW n \in Nat, n \in T PROVE n + 1 \in T
  <2>1. PICK f : KeepsUpTo(f, s, out, n) /\ f = [i \in 0..n |-> f[i]]
    BY <1>2
  <2>2. PICK v : v = IF s[n + 1] \in out THEN f[n] ELSE Append(f[n], s[n + 1])
    OBVIOUS
  <2>3. PICK g : g = [i \in 0..(n + 1) |-> IF i = n + 1 THEN v ELSE f[i]]
    OBVIOUS
  <2>4. g[n + 1] = v /\ \A i \in 0..n : g[i] = f[i]
    BY <2>3
  <2>5. KeepsUpTo(g, s, out, n + 1)
    <3>1. g[0] = << >>
      BY <2>1, <2>4 DEF KeepsUpTo
    <3>2. ASSUME NEW i \in 1..(n + 1)
          PROVE  g[i] = IF s[i] \in out THEN g[i - 1] ELSE Append(g[i - 1], s[i])
      <4>1. CASE i = n + 1
        <5>1. i - 1 = n /\ g[i - 1] = f[n]
          BY <4>1, <2>4
        <5> QED
          BY <4>1, <5>1, <2>2, <2>4
      <4>2. CASE i \in 1..n
        <5>1. i - 1 \in 0..n /\ g[i - 1] = f[i - 1] /\ g[i] = f[i]
          BY <4>2, <2>4
        <5> QED
          BY <4>2, <5>1, <2>1 DEF KeepsUpTo
      <4> QED
        BY <4>1, <4>2
    <3> QED
      BY <3>1, <3>2 DEF KeepsUpTo
  <2>6. g = [i \in 0..(n + 1) |-> g[i]]
    BY <2>3
  <2> QED
    BY <2>5, <2>6
<1>3. Len(s) \in T
  <2> HIDE DEF T
  <2> QED
    BY <1>1, <1>2, SetInduction
<1> QED
  BY <1>3

LEMMA KeptUnfolds ==
  ASSUME NEW s, NEW out, Len(s) \in Nat
  PROVE  KeepsUpTo(KeptUpTo(s, out), s, out, Len(s))
<1>1. PICK g : KeepsUpTo(g, s, out, Len(s)) /\ g = [i \in 0..Len(s) |-> g[i]]
  BY KeptExists
<1>2. g = [i \in 0..Len(s) |-> IF i = 0 THEN << >>
                               ELSE IF s[i] \in out THEN g[i - 1] ELSE Append(g[i - 1], s[i])]
  <2>1. \A i \in 0..Len(s) : i # 0 => i \in 1..Len(s)
    OBVIOUS
  <2> QED
    BY <1>1, <2>1 DEF KeepsUpTo
<1>3. KeptUpTo(s, out) =
        [i \in 0..Len(s) |-> IF i = 0 THEN << >>
                             ELSE IF s[i] \in out THEN KeptUpTo(s, out)[i - 1]
                             ELSE Append(KeptUpTo(s, out)[i - 1], s[i])]
  BY <1>2, Zenon DEF KeptUpTo
<1>4. PICK f : f = KeptUpTo(s, out)
  OBVIOUS
<1>5. f = [i \in 0..Len(s) |-> IF i = 0 THEN << >>
                               ELSE IF s[i] \in out THEN f[i - 1] ELSE Append(f[i - 1], s[i])]
  BY <1>3, <1>4, Zenon
<1>6. KeepsUpTo(f, s, out, Len(s))
  <2>1. 0 \in 0..Len(s) /\ f[0] = << >>
    BY <1>5
  <2>2. ASSUME NEW i \in 1..Len(s)
        PROVE  f[i] = IF s[i] \in out THEN f[i - 1] ELSE Append(f[i - 1], s[i])
    <3>1. i \in 0..Len(s) /\ i # 0
      OBVIOUS
    <3> QED
      BY <3>1, <1>5
  <2> QED
    BY <2>1, <2>2 DEF KeepsUpTo
<1> QED
  BY <1>4, <1>6

Contains(s, x) == \E i \in 1..Len(s) : s[i] = x

(* What is kept are the elements that are not left out.                    *)
LEMMA KeptElements ==
  ASSUME NEW S, NEW s \in Seq(S), NEW out
  PROVE  /\ Kept(s, out) \in Seq(S)
         /\ \A x : Contains(Kept(s, out), x) <=> (x \notin out /\ Contains(s, x))
<1>1. PICK f, len : f = KeptUpTo(s, out) /\ len = Len(s)
  OBVIOUS
<1>2. len \in Nat /\ KeepsUpTo(f, s, out, len)
  BY <1>1, KeptUnfolds
<1> DEFINE Good(n) == /\ f[n] \in Seq(S)
                      /\ \A x : (\E i \in 1..Len(f[n]) : f[n][i] = x)
                                   <=> (x \notin out /\ \E i \in 1..n : s[i] = x)
           T == {n \in Nat : n <= len => Good(n)}
<1>3. 0 \in T
  <2>1. f[0] = << >> /\ f[0] \in Seq(S) /\ Len(f[0]) = 0
    BY <1>2 DEF KeepsUpTo
  <2>2. 1..Len(f[0]) = {} /\ 1..0 = {}
    BY <2>1
  <2>3. Good(0)
    BY <2>1, <2>2, Zenon
  <2> HIDE DEF Good
  <2> QED
    BY <2>3
<1>4. ASSUME NEW n \in Nat, n \in T PROVE n + 1 \in T
  <2> SUFFICES ASSUME n + 1 <= len PROVE Good(n + 1)
    OBVIOUS
  <2>1. Good(n) /\ n + 1 \in 1..len
    BY <1>2, <1>4
  <2>2. f[n + 1] = IF s[n + 1] \in out THEN f[n] ELSE Append(f[n], s[n + 1])
    <3>1. (n + 1) - 1 = n
      OBVIOUS
    <3> QED
      BY <2>1, <1>2, <3>1 DEF KeepsUpTo
  <2>3. PICK a, b, e : a = f[n] /\ b = f[n + 1] /\ e = s[n + 1]
    OBVIOUS
  <2>4. e \in S /\ a \in Seq(S) /\ Len(a) \in Nat /\ b = IF e \in out THEN a ELSE Append(a, e)
    BY <1>1, <2>1, <2>2, <2>3
  <2>5. \A x : (\E i \in 1..(n + 1) : s[i] = x) <=> (x = e \/ \E i \in 1..n : s[i] = x)
    BY <2>3
  <2>6. \A x : (\E i \in 1..Len(a) : a[i] = x) <=> (x \notin out /\ \E i \in 1..n : s[i] = x)
    BY <2>1, <2>3
  <2>7. \A x : (\E i \in 1..Len(b) : b[i] = x) <=> (x \notin out /\ \E i \in 1..(n + 1) : s[i] = x)
    <3>1. CASE e \in out
      BY <3>1, <2>4, <2>5, <2>6
    <3>2. CASE e \notin out
      <4>1. /\ Len(b) = Len(a) + 1 /\ b[Len(a) + 1] = e
            /\ \A i \in 1..Len(a) : b[i] = a[i]
        BY <3>2, <2>4
      <4>2. \A x : (\E i \in 1..Len(b) : b[i] = x) <=> (x = e \/ \E i \in 1..Len(a) : a[i] = x)
        BY <4>1, <2>4
      <4> QED
        BY <3>2, <4>2, <2>5, <2>6
    <3> QED
      BY <3>1, <3>2
  <2>8. b \in Seq(S)
    BY <2>4
  <2> QED
    BY <2>3, <2>7, <2>8
<1>5. len \in T
  <2> HIDE DEF T
  <2> QED
    BY <1>2, <1>3, <1>4, SetInduction
<1>6. Kept(s, out) = f[len]
  BY <1>1 DEF Kept
<1> QED
  BY <1>1, <1>2, <1>5, <1>6 DEF Contains

-----------------------------------------------------------------------------
(***************************************************************************)
(* Lists as sets.                                                          *)
(***************************************************************************)
LEMMA ElementsOf ==
  ASSUME NEW S, NEW s \in Seq(S)
  PROVE  /\ Elements(s) \subseteq S /\ IsFiniteSet(Elements(s)) /\ Cardinality(Elements(s)) \in Nat
         /\ \A x : x \in Elements(s) <=> Contains(s, x)
<1>1. DOMAIN s = 1..Len(s) /\ Len(s) \in Nat
  OBVIOUS
<1>2. IsFiniteSet(1..Len(s))
  BY <1>1, FS_Interval
<1>3. PICK g : g = [i \in 1..Len(s) |-> s[i]]
  OBVIOUS
<1>4. g \in Surjection(1..Len(s), Elements(s))
  BY <1>1, <1>3 DEF Surjection, Elements
<1>5. IsFiniteSet(Elements(s))
  BY <1>2, <1>4, FS_Surjection
<1>6. Cardinality(Elements(s)) \in Nat
  BY <1>5, FS_CardinalityType
<1>7. Elements(s) \subseteq S /\ \A x : x \in Elements(s) <=> Contains(s, x)
  BY <1>1 DEF Elements, Contains
<1> QED
  BY <1>5, <1>6, <1>7

LEMMA ElementsAppend ==
  ASSUME NEW S, NEW s \in Seq(S), NEW e \in S
  PROVE  /\ Elements(Append(s, e)) = Elements(s) \cup {e}
         /\ Cardinality(Elements(Append(s, e))) <= Cardinality(Elements(s)) + 1
         /\ Append(s, e) \in Seq(S) /\ Len(Append(s, e)) = Len(s) + 1
<1>1. PICK t : t = Append(s, e)
  OBVIOUS
<1>2. /\ DOMAIN s = 1..Len(s) /\ Len(s) \in Nat /\ DOMAIN t = 1..(Len(s) + 1)
      /\ t[Len(s) + 1] = e /\ \A i \in 1..Len(s) : t[i] = s[i]
      /\ t \in Seq(S) /\ Len(t) = Len(s) + 1
  BY <1>1
<1>3. {t[i] : i \in 1..(Len(s) + 1)} = {s[i] : i \in 1..Len(s)} \cup {e}
  BY <1>2
<1>4. Elements(t) = Elements(s) \cup {e}
  BY <1>2, <1>3 DEF Elements
<1>5. IsFiniteSet(Elements(s)) /\ Cardinality(Elements(s)) \in Nat
  BY ElementsOf
<1>6. Cardinality(Elements(s) \cup {e}) =
        IF e \in Elements(s) THEN Cardinality(Elements(s)) ELSE Cardinality(Elements(s)) + 1
  BY <1>5, FS_AddElement
<1>7. Cardinality(Elements(t)) <= Cardinality(Elements(s)) + 1
  BY <1>4, <1>5, <1>6
<1> QED
  BY <1>1, <1>2, <1>4, <1>7

LEMMA ElementsTail ==
  ASSUME NEW S, NEW s \in Seq(S), s # << >>
  PROVE  /\ Elements(s) = Elements(Tail(s)) \cup {Head(s)} /\ Tail(s) \in Seq(S) /\ Head(s) \in S
         /\ Cardinality(Elements(Tail(s))) <= Cardinality(Elements(s))
<1>1. PICK t, x : t = Tail(s) /\ x = Head(s)
  OBVIOUS
<1>2. /\ DOMAIN s = 1..Len(s) /\ Len(s) \in Nat \ {0} /\ DOMAIN t = 1..(Len(s) - 1)
      /\ x = s[1] /\ \A i \in 1..(Len(s) - 1) : t[i] = s[i + 1]
      /\ t \in Seq(S) /\ x \in S
  BY <1>1
<1>3. ASSUME NEW y, y \in Elements(s) PROVE y \in Elements(t) \cup {x}
  <2>1. PICK i \in 1..Len(s) : y = s[i]
    BY <1>2, <1>3 DEF Elements
  <2>2. CASE i = 1
    BY <1>2, <2>1, <2>2
  <2>3. CASE i # 1
    <3>1. i - 1 \in 1..(Len(s) - 1) /\ t[i - 1] = y
      BY <1>2, <2>1, <2>3
    <3> QED
      BY <1>2, <3>1 DEF Elements
  <2> QED
    BY <2>2, <2>3
<1>4. Elements(t) \cup {x} \subseteq Elements(s)
  BY <1>2 DEF Elements
<1>5. Elements(s) = Elements(t) \cup {x}
  BY <1>3, <1>4
<1>6. IsFiniteSet(Elements(s)) /\ Elements(t) \subseteq Elements(s)
  BY <1>5, ElementsOf
<1>7. Cardinality(Elements(t)) <= Cardinality(Elements(s))
  BY <1>6, FS_Subset
<1> QED
  BY <1>1, <1>2, <1>5, <1>7

LEMMA ElementsAlone ==
  ASSUME NEW S, NEW e \in S
  PROVE  Elements(<<e>>) = {e} /\ Cardinality(Elements(<<e>>)) = 1 /\ <<e>> \in Seq(S)
<1>1. <<e>> \in Seq(S) /\ DOMAIN <<e>> = {1} /\ <<e>>[1] = e
  OBVIOUS
<1>2. Elements(<<e>>) = {e}
  BY <1>1 DEF Elements
<1>3. Cardinality({e}) = 1
  BY FS_Singleton
<1> QED
  BY <1>1, <1>2, <1>3

(* A function that satisfies the recursion of Inserted up to n.            *)
InsertsUpTo(f, rows, s, n) ==
    /\ f[0] = rows
    /\ \A i \in 1..n : f[i] = IF s[i] \in Elements(f[i - 1]) THEN f[i - 1]
                              ELSE Append(f[i - 1], s[i])

LEMMA InsertedExists ==
  ASSUME NEW rows, NEW s, Len(s) \in Nat
  PROVE  \E f : InsertsUpTo(f, rows, s, Len(s)) /\ f = [i \in 0..Len(s) |-> f[i]]
<1> DEFINE T == {n \in Nat : \E f : InsertsUpTo(f, rows, s, n) /\ f = [i \in 0..n |-> f[i]]}
<1>1. 0 \in T
  <2>1. PICK f : f = [i \in 0..0 |-> rows]
    OBVIOUS
  <2>2. InsertsUpTo(f, rows, s, 0) /\ f = [i \in 0..0 |-> f[i]]
    BY <2>1 DEF InsertsUpTo
  <2> QED
    BY <2>2
<1>2. ASSUME NEW n \in Nat, n \in T PROVE n + 1 \in T
  <2>1. PICK f : InsertsUpTo(f, rows, s, n) /\ f = [i \in 0..n |-> f[i]]
    BY <1>2
  <2>2. PICK v : v = IF s[n + 1] \in Elements(f[n]) THEN f[n] ELSE Append(f[n], s[n + 1])
    OBVIOUS
  <2>3. PICK g : g = [i \in 0..(n + 1) |-> IF i = n + 1 THEN v ELSE f[i]]
    OBVIOUS
  <2>4. g[n + 1] = v /\ \A i \in 0..n : g[i] = f[i]
    BY <2>3
  <2>5. InsertsUpTo(g, rows, s, n + 1)
    <3>1. g[0] = rows
      BY <2>1, <2>4 DEF InsertsUpTo
    <3>2. ASSUME NEW i \in 1..(n + 1)
          PROVE  g[i] = IF s[i] \in Elements(g[i - 1]) THEN g[i - 1] ELSE Append(g[i - 1], s[i])
      <4>1. CASE i = n + 1
        <5>1. i - 1 = n /\ g[i - 1] = f[n]
          BY <4>1, <2>4
        <5> QED
          BY <4>1, <5>1, <2>2, <2>4
      <4>2. CASE i \in 1..n
        <5>1. i - 1 \in 0..n /\ g[i - 1] = f[i - 1] /\ g[i] = f[i]
          BY <4>2, <2>4
        <5> QED
          BY <4>2, <5>1, <2>1 DEF InsertsUpTo
      <4> QED
        BY <4>1, <4>2
    <3> QED
      BY <3>1, <3>2 DEF InsertsUpTo
  <2>6. g = [i \in 0..(n + 1) |-> g[i]]
    BY <2>3
  <2> QED
    BY <2>5, <2>6
<1>3. Len(s) \in T
  <2> HIDE DEF T
  <2> QED
    BY <1>1, <1>2, SetInduction
<1> QED
  BY <1>3

LEMMA InsertedUnfolds ==
  ASSUME NEW rows, NEW s, Len(s) \in Nat
  PROVE  InsertsUpTo(InsertedUpTo(rows, s), rows, s, Len(s))
<1>1. PICK g : InsertsUpTo(g, rows, s, Len(s)) /\ g = [i \in 0..Len(s) |-> g[i]]
  BY InsertedExists
<1>2. g = [i \in 0..Len(s) |-> IF i = 0 THEN rows
                               ELSE IF s[i] \in Elements(g[i - 1]) THEN g[i - 1]
                               ELSE Append(g[i - 1], s[i])]
  <2>1. \A i \in 0..Len(s) : i # 0 => i \in 1..Len(s)
    OBVIOUS
  <2> QED
    BY <1>1, <2>1 DEF InsertsUpTo
<1>3. InsertedUpTo(rows, s) =
        [i \in 0..Len(s) |-> IF i = 0 THEN rows
                             ELSE IF s[i] \in Elements(InsertedUpTo(rows, s)[i - 1])
                             THEN InsertedUpTo(rows, s)[i - 1]
                             ELSE Append(InsertedUpTo(rows, s)[i - 1], s[i])]
  BY <1>2, Zenon DEF InsertedUpTo
<1>4. PICK f : f = InsertedUpTo(rows, s)
  OBVIOUS
<1>5. f = [i \in 0..Len(s) |-> IF i = 0 THEN rows
                               ELSE IF s[i] \in Elements(f[i - 1]) THEN f[i - 1]
                               ELSE Append(f[i - 1], s[i])]
  BY <1>3, <1>4, Zenon
<1>6. InsertsUpTo(f, rows, s, Len(s))
  <2>1. 0 \in 0..Len(s) /\ f[0] = rows
    BY <1>5
  <2>2. ASSUME NEW i \in 1..Len(s)
        PROVE  f[i] = IF s[i] \in Elements(f[i - 1]) THEN f[i - 1] ELSE Append(f[i - 1], s[i])
    <3>1. i \in 0..Len(s) /\ i # 0
      OBVIOUS
    <3> QED
      BY <3>1, <1>5
  <2> QED
    BY <2>1, <2>2 DEF InsertsUpTo
<1> QED
  BY <1>4, <1>6

(* What is there after an insertion is what was there and what was         *)
(* inserted, and the table grows by no less than its set of members.       *)
LEMMA InsertedElements ==
  ASSUME NEW S, NEW rows \in Seq(S), NEW s \in Seq(S)
  PROVE  LET t == Inserted(rows, s)
         IN  /\ t \in Seq(S) /\ Elements(t) = Elements(rows) \cup Elements(s)
             /\ Len(rows) <= Len(t)
             /\ Cardinality(Elements(t)) - Cardinality(Elements(rows)) <= Len(t) - Len(rows)
<1>1. PICK f, len : f = InsertedUpTo(rows, s) /\ len = Len(s)
  OBVIOUS
<1>2. len \in Nat /\ InsertsUpTo(f, rows, s, len)
  BY <1>1, InsertedUnfolds
<1> DEFINE Good(n) == /\ f[n] \in Seq(S)
                      /\ Elements(f[n]) = Elements(rows) \cup {s[i] : i \in 1..n}
                      /\ Len(rows) <= Len(f[n])
                      /\ Cardinality(Elements(f[n])) - Cardinality(Elements(rows))
                            <= Len(f[n]) - Len(rows)
           T == {n \in Nat : n <= len => Good(n)}
<1>3. 0 \in T
  <2>1. f[0] = rows /\ f[0] \in Seq(S)
    BY <1>2 DEF InsertsUpTo
  <2>2. {s[i] : i \in 1..0} = {}
    OBVIOUS
  <2>3. Cardinality(Elements(rows)) \in Nat /\ Len(rows) \in Nat
    BY ElementsOf
  <2>4. Good(0)
    BY <2>1, <2>2, <2>3
  <2> HIDE DEF Good
  <2> QED
    BY <2>4
<1>4. ASSUME NEW n \in Nat, n \in T PROVE n + 1 \in T
  <2> SUFFICES ASSUME n + 1 <= len PROVE Good(n + 1)
    OBVIOUS
  <2>1. Good(n) /\ n + 1 \in 1..len
    BY <1>2, <1>4
  <2>2. f[n + 1] = IF s[n + 1] \in Elements(f[n]) THEN f[n] ELSE Append(f[n], s[n + 1])
    <3>1. (n + 1) - 1 = n
      OBVIOUS
    <3> QED
      BY <2>1, <1>2, <3>1 DEF InsertsUpTo
  <2>3. PICK a, b, e : a = f[n] /\ b = f[n + 1] /\ e = s[n + 1]
    OBVIOUS
  <2>4. e \in S /\ a \in Seq(S)
    BY <1>1, <2>1, <2>3
  <2>5. {s[i] : i \in 1..(n + 1)} = {s[i] : i \in 1..n} \cup {e}
    BY <2>3
  <2>6. PICK U : U = {s[i] : i \in 1..n}
    OBVIOUS
  <2>7. /\ Elements(a) = Elements(rows) \cup U /\ Len(rows) <= Len(a)
        /\ Cardinality(Elements(a)) - Cardinality(Elements(rows)) <= Len(a) - Len(rows)
    BY <2>1, <2>3, <2>6
  <2>8. /\ Cardinality(Elements(rows)) \in Nat /\ Len(rows) \in Nat
        /\ Cardinality(Elements(a)) \in Nat /\ Len(a) \in Nat
    BY <2>4, ElementsOf
  <2>9. /\ b \in Seq(S) /\ Elements(b) = Elements(rows) \cup (U \cup {e})
        /\ Len(rows) <= Len(b)
        /\ Cardinality(Elements(b)) - Cardinality(Elements(rows)) <= Len(b) - Len(rows)
    <3>1. CASE e \in Elements(a)
      BY <2>2, <2>3, <2>4, <2>7, <3>1
    <3>2. CASE e \notin Elements(a)
      <4>1. b = Append(a, e)
        BY <2>2, <2>3, <3>2
      <4>2. /\ Elements(b) = Elements(a) \cup {e} /\ b \in Seq(S) /\ Len(b) = Len(a) + 1
            /\ Cardinality(Elements(b)) <= Cardinality(Elements(a)) + 1
        BY <2>4, <4>1, ElementsAppend
      <4>3. Cardinality(Elements(b)) \in Nat
        BY <4>2, ElementsOf
      <4>4. Len(rows) <= Len(b)
            /\ Cardinality(Elements(b)) - Cardinality(Elements(rows)) <= Len(b) - Len(rows)
        BY <2>7, <2>8, <4>2, <4>3
      <4> QED
        BY <2>7, <4>2, <4>4
    <3> QED
      BY <3>1, <3>2
  <2> QED
    BY <2>3, <2>5, <2>6, <2>9
<1>5. len \in T
  <2> HIDE DEF T
  <2> QED
    BY <1>2, <1>3, <1>4, SetInduction
<1>6. Inserted(rows, s) = f[len]
  BY <1>1 DEF Inserted
<1>7. {s[i] : i \in 1..len} = Elements(s)
  BY <1>1 DEF Elements
<1>8. Good(len)
  BY <1>2, <1>5
<1>9. PICK t : t = Inserted(rows, s)
  OBVIOUS
<1>10. /\ t \in Seq(S) /\ Elements(t) = Elements(rows) \cup Elements(s)
       /\ Len(rows) <= Len(t)
       /\ Cardinality(Elements(t)) - Cardinality(Elements(rows)) <= Len(t) - Len(rows)
  BY <1>6, <1>7, <1>8, <1>9
<1> QED
  BY <1>9, <1>10

(* Lists without repetitions.                                              *)
Unrepeated(s) == \A i, j \in 1..Len(s) : s[i] = s[j] => i = j

LEMMA UnrepeatedAppend ==
  ASSUME NEW S, NEW s \in Seq(S), NEW e \in S, Unrepeated(s), e \notin Elements(s)
  PROVE  Unrepeated(Append(s, e))
<1>1. PICK t : t = Append(s, e)
  OBVIOUS
<1>2. /\ DOMAIN s = 1..Len(s) /\ Len(s) \in Nat /\ Len(t) = Len(s) + 1
      /\ t[Len(s) + 1] = e /\ \A i \in 1..Len(s) : t[i] = s[i]
  BY <1>1
<1>3. \A i \in 1..Len(s) : s[i] # e
  BY <1>2 DEF Elements
<1>4. ASSUME NEW i \in 1..(Len(s) + 1), NEW j \in 1..(Len(s) + 1), t[i] = t[j] PROVE i = j
  <2>1. CASE i = Len(s) + 1 /\ j = Len(s) + 1
    BY <2>1
  <2>2. CASE i = Len(s) + 1 /\ j \in 1..Len(s)
    BY <1>2, <1>3, <1>4, <2>2
  <2>3. CASE i \in 1..Len(s) /\ j = Len(s) + 1
    BY <1>2, <1>3, <1>4, <2>3
  <2>4. CASE i \in 1..Len(s) /\ j \in 1..Len(s)
    BY <1>2, <1>4, <2>4 DEF Unrepeated
  <2> QED
    BY <1>2, <2>1, <2>2, <2>3, <2>4
<1> QED
  BY <1>1, <1>2, <1>4 DEF Unrepeated

LEMMA UnrepeatedTail ==
  ASSUME NEW S, NEW s \in Seq(S), s # << >>, Unrepeated(s)
  PROVE  Unrepeated(Tail(s)) /\ Len(Tail(s)) = Len(s) - 1 /\ Tail(s) \in Seq(S)
<1>1. PICK t : t = Tail(s)
  OBVIOUS
<1>2. /\ Len(s) \in Nat \ {0} /\ Len(t) = Len(s) - 1 /\ t \in Seq(S)
      /\ \A i \in 1..(Len(s) - 1) : t[i] = s[i + 1]
  BY <1>1
<1>3. ASSUME NEW i \in 1..(Len(s) - 1), NEW j \in 1..(Len(s) - 1), t[i] = t[j] PROVE i = j
  <2>1. i + 1 \in 1..Len(s) /\ j + 1 \in 1..Len(s) /\ s[i + 1] = s[j + 1]
    BY <1>2, <1>3
  <2>2. i + 1 = j + 1
    BY <2>1 DEF Unrepeated
  <2> QED
    BY <2>2
<1> QED
  BY <1>1, <1>2, <1>3 DEF Unrepeated

(* Taking one member out of a list without repetitions.                    *)
LEMMA KeptWithout ==
  ASSUME NEW S, NEW s \in Seq(S), NEW x, Unrepeated(s), x \in Elements(s)
  PROVE  /\ Kept(s, {x}) \in Seq(S) /\ Unrepeated(Kept(s, {x}))
         /\ Elements(Kept(s, {x})) = Elements(s) \ {x}
         /\ Len(Kept(s, {x})) = Len(s) - 1
<1>1. PICK f, len, out : f = KeptUpTo(s, out) /\ len = Len(s) /\ out = {x}
  OBVIOUS
<1>2. len \in Nat /\ KeepsUpTo(f, s, out, len)
  BY <1>1, KeptUnfolds
<1>3. PICK m \in 1..len : s[m] = x
  BY <1>1 DEF Elements
<1>4. \A i \in 1..len : s[i] = x <=> i = m
  BY <1>1, <1>3 DEF Unrepeated
<1> DEFINE Good(n) == /\ f[n] \in Seq(S) /\ Unrepeated(f[n])
                      /\ Elements(f[n]) = {s[i] : i \in (1..n) \ {m}}
                      /\ Len(f[n]) = IF n < m THEN n ELSE n - 1
           T == {n \in Nat : n <= len => Good(n)}
<1>5. 0 \in T
  <2>1. f[0] = << >> /\ f[0] \in Seq(S) /\ Len(f[0]) = 0 /\ Elements(f[0]) = {}
    BY <1>2 DEF KeepsUpTo, Elements
  <2>2. {s[i] : i \in (1..0) \ {m}} = {}
    OBVIOUS
  <2>3. Good(0)
    BY <1>3, <2>1, <2>2 DEF Unrepeated
  <2> HIDE DEF Good
  <2> QED
    BY <2>3
<1>6. ASSUME NEW n \in Nat, n \in T PROVE n + 1 \in T
  <2> SUFFICES ASSUME n + 1 <= len PROVE Good(n + 1)
    OBVIOUS
  <2>1. Good(n) /\ n + 1 \in 1..len
    BY <1>2, <1>6
  <2>2. f[n + 1] = IF s[n + 1] \in out THEN f[n] ELSE Append(f[n], s[n + 1])
    <3>1. (n + 1) - 1 = n
      OBVIOUS
    <3> QED
      BY <2>1, <1>2, <3>1 DEF KeepsUpTo
  <2>3. PICK a, b, e, U : a = f[n] /\ b = f[n + 1] /\ e = s[n + 1] /\ U = {s[i] : i \in (1..n) \ {m}}
    OBVIOUS
  <2>4. /\ e \in S /\ a \in Seq(S) /\ Unrepeated(a) /\ Elements(a) = U
        /\ Len(a) = IF n < m THEN n ELSE n - 1
    <3>1. e \in S
      BY <1>1, <2>1, <2>3
    <3>2. /\ f[n] \in Seq(S) /\ Unrepeated(f[n]) /\ Elements(f[n]) = {s[i] : i \in (1..n) \ {m}}
          /\ Len(f[n]) = IF n < m THEN n ELSE n - 1
      BY <2>1
    <3> QED
      BY <2>3, <3>1, <3>2
  <2>5. CASE n + 1 = m
    <3>1. b = a
      BY <1>1, <1>3, <2>2, <2>3, <2>5
    <3>2. {s[i] : i \in (1..(n + 1)) \ {m}} = U
      BY <2>3, <2>5
    <3>3. Len(b) = IF n + 1 < m THEN n + 1 ELSE (n + 1) - 1
      BY <2>4, <2>5, <3>1
    <3> QED
      BY <2>3, <2>4, <3>1, <3>2, <3>3
  <2>6. CASE n + 1 # m
    <3>1. e # x
      BY <1>4, <2>1, <2>3, <2>6
    <3>2. b = Append(a, e)
      BY <1>1, <2>2, <2>3, <3>1
    <3>3. {s[i] : i \in (1..(n + 1)) \ {m}} = U \cup {e}
      BY <2>3, <2>6
    <3>4. e \notin U
      <4>1. \A i \in 1..n : i \in 1..len /\ i # n + 1
        BY <1>2, <2>1
      <4>2. \A i \in 1..n : s[i] # s[n + 1]
        BY <1>1, <2>1, <4>1 DEF Unrepeated
      <4> QED
        BY <2>3, <4>2
    <3>5. Elements(b) = Elements(a) \cup {e} /\ b \in Seq(S) /\ Len(b) = Len(a) + 1
      BY <2>4, <3>2, ElementsAppend
    <3>6. Unrepeated(b)
      BY <2>4, <3>2, <3>4, UnrepeatedAppend
    <3>7. Len(b) = IF n + 1 < m THEN n + 1 ELSE (n + 1) - 1
      BY <1>3, <2>4, <2>6, <3>5
    <3> QED
      BY <2>3, <2>4, <3>3, <3>5, <3>6, <3>7
  <2> QED
    BY <2>5, <2>6
<1>7. len \in T
  <2> HIDE DEF T
  <2> QED
    BY <1>2, <1>5, <1>6, SetInduction
<1>8. Good(len)
  BY <1>2, <1>7
<1>9. PICK t : t = Kept(s, out) /\ t = f[len]
  BY <1>1 DEF Kept
<1>10. {s[i] : i \in (1..len) \ {m}} = Elements(s) \ {x}
  BY <1>1, <1>4 DEF Elements
<1>11. /\ t \in Seq(S) /\ Unrepeated(t) /\ Elements(t) = Elements(s) \ {x} /\ Len(t) = len - 1
  BY <1>3, <1>8, <1>9, <1>10
<1> QED
  BY <1>1, <1>9, <1>11
=============================================================================
