----------------------------- MODULE ListProofs -----------------------------
(* What the operators of Lists, and those of Sequences, do to the elements   *)
(* of a list.                                                                *)
EXTENDS Lists, WellFoundedInduction, TLAPS

\* The least number of a set: what the inductions below rest on.
LEMMA NatMin ==
  ASSUME NEW T, T \subseteq Nat, T # {}
  PROVE  \E m \in T : \A k \in T : m <= k
<1>1. PICK m \in T : \A k \in T : ~(<<k, m>> \in OpToRel(<, Nat))
  BY NatLessThanWellFounded, WFMin
<1>2. OpToRel(<, Nat) = {ss \in Nat \X Nat : ss[1] < ss[2]}
  BY Zenon DEF OpToRel
<1>3. \A k \in T : ~(k < m) BY <1>1, <1>2
<1> QED BY <1>3

\* A set of numbers with 0 and every successor up to n has all numbers up to n.
LEMMA UpTo ==
  ASSUME NEW n \in Nat, NEW T, 0 \in T, \A i \in 1..n : i - 1 \in T => i \in T
  PROVE  \A i \in 0..n : i \in T
<1> DEFINE U == {i \in 0..n : i \notin T}
<1> SUFFICES ASSUME U # {} PROVE FALSE OBVIOUS
<1> HIDE DEF U
<1>1. PICK m \in U : \A k \in U : m <= k
  <2>1. U \subseteq Nat BY DEF U
  <2> QED BY <2>1, NatMin
<1>2. m \in 0..n /\ m \notin T BY DEF U
<1>3. m \in 1..n /\ m - 1 \in 0..n /\ ~(m <= m - 1) BY <1>2
<1>4. m - 1 \in T BY <1>1, <1>3 DEF U
<1> QED BY <1>2, <1>3, <1>4

-----------------------------------------------------------------------------
\* The recursive function FirstKept is what its equation says.
LEMMA FirstKeptDef ==
  ASSUME NEW s, Len(s) \in Nat, NEW kept
  PROVE  FirstKept(s, kept) =
           [i \in 0..Len(s) |->
              IF i = 0 THEN <<>>
              ELSE IF s[i] \in kept THEN Append(FirstKept(s, kept)[i - 1], s[i])
                                    ELSE FirstKept(s, kept)[i - 1]]
<1> DEFINE Eqn(f, n) ==
             f = [i \in 0..n |->
                    IF i = 0 THEN <<>>
                    ELSE IF s[i] \in kept THEN Append(f[i - 1], s[i]) ELSE f[i - 1]]
           T == {n \in Nat : \E f : Eqn(f, n)}
<1>1. 0 \in T
  <2>1. Eqn([i \in 0..0 |-> <<>>], 0) OBVIOUS
  <2> QED BY <2>1
<1>2. ASSUME NEW n \in 1..Len(s), n - 1 \in T PROVE n \in T
  <2>1. PICK f : Eqn(f, n - 1) BY <1>2
  <2> DEFINE last == IF s[n] \in kept THEN Append(f[n - 1], s[n]) ELSE f[n - 1]
             g == [i \in 0..n |-> IF i = n THEN last ELSE f[i]]
  <2>2. \A i \in 0..(n - 1) : g[i] = f[i] OBVIOUS
  <2>3. g[n] = last OBVIOUS
  <2>4. \A i \in 0..n : g[i] = IF i = 0 THEN <<>>
                               ELSE IF s[i] \in kept THEN Append(g[i - 1], s[i]) ELSE g[i - 1]
    <3> SUFFICES ASSUME NEW i \in 0..n
                 PROVE  g[i] = IF i = 0 THEN <<>>
                               ELSE IF s[i] \in kept THEN Append(g[i - 1], s[i]) ELSE g[i - 1]
      OBVIOUS
    <3>1. CASE i = n BY <2>2, <2>3, <3>1
    <3>2. CASE i # n
      <4>1. i \in 0..(n - 1) BY <3>2
      <4>2. f[i] = IF i = 0 THEN <<>>
                   ELSE IF s[i] \in kept THEN Append(f[i - 1], s[i]) ELSE f[i - 1]
        BY <2>1, <4>1
      <4>3. i = 0 \/ i - 1 \in 0..(n - 1) BY <4>1
      <4> QED BY <2>2, <4>1, <4>2, <4>3
    <3> QED BY <3>1, <3>2
  <2> HIDE DEF last
  <2>5. Eqn(g, n) BY <2>4
  <2> HIDE DEF Eqn, g
  <2>6. n \in Nat OBVIOUS
  <2> QED BY <2>5, <2>6
<1> HIDE DEF T
<1>3. Len(s) \in T
  <2>1. \A i \in 0..Len(s) : i \in T BY <1>1, <1>2, UpTo
  <2> QED BY <2>1
<1>4. \E f : Eqn(f, Len(s)) BY <1>3 DEF T
<1>5. FirstKept(s, kept) = CHOOSE f : Eqn(f, Len(s)) BY Zenon DEF FirstKept
<1> HIDE DEF Eqn
<1>6. Eqn(FirstKept(s, kept), Len(s)) BY <1>4, <1>5, Zenon
<1> QED BY <1>6 DEF Eqn

\* Filter keeps what is in kept, once if it was there once, and nothing else.
LEMMA FilterFacts ==
  ASSUME NEW S, NEW s \in Seq(S), NEW kept
  PROVE  /\ Filter(s, kept) \in Seq(S \cap kept)
         /\ \A x : InSeq(x, Filter(s, kept)) <=> InSeq(x, s) /\ x \in kept
         /\ \A x : Once(x, s) => Once(x, Filter(s, kept))
<1> DEFINE f == FirstKept(s, kept)
           Has(x, n) == \E i \in 1..n : s[i] = x
           Good(n) == /\ f[n] \in Seq(S \cap kept)
                      /\ \A x : InSeq(x, f[n]) <=> Has(x, n) /\ x \in kept
                      /\ \A x : Once(x, s) => Once(x, f[n])
           T == {n \in Nat : Good(n)}
<1>1. \A i \in 0..Len(s) : f[i] = IF i = 0 THEN <<>>
                                  ELSE IF s[i] \in kept THEN Append(f[i - 1], s[i]) ELSE f[i - 1]
  <2>1. Len(s) \in Nat OBVIOUS
  <2>2. f = [i \in 0..Len(s) |->
               IF i = 0 THEN <<>>
               ELSE IF s[i] \in kept THEN Append(f[i - 1], s[i]) ELSE f[i - 1]]
    BY <2>1, FirstKeptDef
  <2> HIDE DEF f
  <2> QED BY <2>2
<1> HIDE DEF f
<1>2. 0 \in T
  <2>1. f[0] = <<>> BY <1>1
  <2>2. 1..0 = {} /\ Len(<<>>) = 0 OBVIOUS
  <2>3. f[0] \in Seq(S \cap kept) BY <2>1
  <2>4. \A x : ~InSeq(x, f[0]) /\ ~Has(x, 0) /\ Once(x, f[0]) BY <2>1, <2>2 DEF InSeq, Once
  <2> QED BY <2>3, <2>4
<1>3. ASSUME NEW n \in 1..Len(s), n - 1 \in T PROVE n \in T
  <2>1. Good(n - 1) BY <1>3
  <2>2. n \in 0..Len(s) /\ n # 0 /\ s[n] \in S OBVIOUS
  <2>3. \A x : Has(x, n) <=> Has(x, n - 1) \/ s[n] = x
    <3>1. \A i \in Int : i \in 1..n <=> i \in 1..(n - 1) \/ i = n OBVIOUS
    <3> QED BY <3>1
  <2>4. CASE s[n] \notin kept
    <3>1. f[n] = f[n - 1] BY <1>1, <2>2, <2>4
    <3> QED BY <2>1, <2>3, <2>4, <3>1
  <2>5. CASE s[n] \in kept
    <3> DEFINE g == f[n - 1]
    <3>1. f[n] = Append(g, s[n]) BY <1>1, <2>2, <2>5
    <3>2. g \in Seq(S \cap kept) BY <2>1
    <3>3. \A x : InSeq(x, g) <=> Has(x, n - 1) /\ x \in kept BY <2>1
    <3>4. \A x : Once(x, s) => Once(x, g) BY <2>1
    <3> HIDE DEF g
    <3>5. f[n] \in Seq(S \cap kept) BY <2>2, <2>5, <3>1, <3>2
    <3>6. /\ Len(f[n]) = Len(g) + 1 /\ f[n][Len(g) + 1] = s[n]
          /\ \A i \in 1..Len(g) : f[n][i] = g[i]
      BY <3>1, <3>2
    <3>7. \A i \in Int : i \in 1..(Len(g) + 1) <=> i \in 1..Len(g) \/ i = Len(g) + 1
      BY <3>2
    <3>8. \A x : InSeq(x, f[n]) <=> InSeq(x, g) \/ s[n] = x
      BY <3>2, <3>6, <3>7 DEF InSeq
    <3>9. \A x : InSeq(x, f[n]) <=> Has(x, n) /\ x \in kept
      BY <2>3, <2>5, <3>3, <3>8
    <3>10. ASSUME NEW x, Once(x, s) PROVE Once(x, f[n])
      <4>1. Once(x, g) BY <3>4, <3>10
      <4>2. CASE x # s[n]
        BY <3>2, <3>6, <3>7, <4>1, <4>2 DEF Once
      <4>3. CASE x = s[n]
        <5>1. ~Has(x, n - 1) BY <3>10, <4>3 DEF Once
        <5>2. ~InSeq(x, g) BY <3>3, <5>1
        <5> QED BY <3>2, <3>6, <3>7, <5>2 DEF Once, InSeq
      <4> QED BY <4>2, <4>3
    <3> QED BY <3>5, <3>9, <3>10
  <2> QED BY <2>4, <2>5
<1> HIDE DEF T
<1>4. Len(s) \in T
  <2>1. Len(s) \in Nat OBVIOUS
  <2>2. \A i \in 0..Len(s) : i \in T BY <1>2, <1>3, <2>1, UpTo
  <2> QED BY <2>1, <2>2
<1>5. Good(Len(s)) BY <1>4 DEF T
<1>6. f[Len(s)] = Filter(s, kept) BY DEF Filter, f
<1> QED BY <1>5, <1>6 DEF InSeq

\* Append and Tail.
LEMMA AppendFacts ==
  ASSUME NEW S, NEW s \in Seq(S), NEW y \in S
  PROVE  /\ Append(s, y) \in Seq(S)
         /\ \A x : InSeq(x, Append(s, y)) <=> InSeq(x, s) \/ x = y
         /\ \A x : Once(x, s) /\ (x = y => ~InSeq(x, s)) => Once(x, Append(s, y))
<1> DEFINE t == Append(s, y)
<1>1. t \in Seq(S) OBVIOUS
<1>2. /\ Len(t) = Len(s) + 1 /\ t[Len(s) + 1] = y
      /\ \A i \in 1..Len(s) : t[i] = s[i]
  OBVIOUS
<1>3. \A i \in Int : i \in 1..(Len(s) + 1) <=> i \in 1..Len(s) \/ i = Len(s) + 1 OBVIOUS
<1> HIDE DEF t
<1>4. \A x : InSeq(x, t) <=> InSeq(x, s) \/ x = y BY <1>2, <1>3 DEF InSeq
<1>5. \A x : Once(x, s) /\ (x = y => ~InSeq(x, s)) => Once(x, t)
  BY <1>2, <1>3 DEF Once, InSeq
<1> QED BY <1>1, <1>4, <1>5 DEF t

LEMMA TailFacts ==
  ASSUME NEW S, NEW s \in Seq(S), s # <<>>
  PROVE  /\ Tail(s) \in Seq(S) /\ Head(s) \in S /\ InSeq(Head(s), s)
         /\ \A x : InSeq(x, Tail(s)) => InSeq(x, s)
         /\ \A x : InSeq(x, s) => InSeq(x, Tail(s)) \/ x = Head(s)
         /\ \A x : Once(x, s) => Once(x, Tail(s)) /\ ~(x = Head(s) /\ InSeq(x, Tail(s)))
<1> DEFINE t == Tail(s)
<1>1. t \in Seq(S) /\ Head(s) \in S /\ Head(s) = s[1] /\ Len(s) \in Nat \ {0} OBVIOUS
<1>2. Len(t) = Len(s) - 1 /\ \A i \in 1..Len(t) : t[i] = s[i + 1] OBVIOUS
<1> HIDE DEF t
<1>3. \A i \in 1..Len(t) : i + 1 \in 1..Len(s) /\ i + 1 # 1 BY <1>1, <1>2
<1>4. \A i \in 1..Len(s) : i = 1 \/ (i - 1 \in 1..Len(t) /\ t[i - 1] = s[i])
  <2> SUFFICES ASSUME NEW i \in 1..Len(s), i # 1 PROVE i - 1 \in 1..Len(t) /\ t[i - 1] = s[i]
    OBVIOUS
  <2>1. i - 1 \in 1..Len(t) BY <1>1, <1>2
  <2>2. (i - 1) + 1 = i OBVIOUS
  <2> QED BY <1>2, <2>1, <2>2
<1>5. InSeq(Head(s), s) BY <1>1 DEF InSeq
<1>6. \A x : InSeq(x, t) => InSeq(x, s) BY <1>2, <1>3 DEF InSeq
<1>7. \A x : InSeq(x, s) => InSeq(x, t) \/ x = Head(s) BY <1>1, <1>4 DEF InSeq
<1>8. ASSUME NEW x, Once(x, s) PROVE Once(x, t) /\ ~(x = Head(s) /\ InSeq(x, t))
  <2>1. Once(x, t)
    <3> SUFFICES ASSUME NEW i \in 1..Len(t), NEW j \in 1..Len(t), t[i] = x, t[j] = x PROVE i = j
      BY DEF Once
    <3>1. i + 1 = j + 1 BY <1>2, <1>3, <1>8 DEF Once
    <3> QED BY <3>1
  <2>2. ~(x = Head(s) /\ InSeq(x, t))
    <3> SUFFICES ASSUME x = s[1], NEW i \in 1..Len(t), t[i] = x PROVE FALSE
      BY <1>1 DEF InSeq
    <3>1. 1 \in 1..Len(s) BY <1>1
    <3> QED BY <1>2, <1>3, <1>8, <3>1 DEF Once
  <2> QED BY <2>1, <2>2
<1> QED BY <1>1, <1>5, <1>6, <1>7, <1>8 DEF t

LEMMA LongTail ==
  ASSUME NEW S, NEW s \in Seq(S), Len(s) > 1
  PROVE  Tail(s) # <<>>
<1>1. ASSUME NEW t \in Seq(S), Len(t) > 0 PROVE t # <<>> BY <1>1
<1>2. Tail(s) \in Seq(S) /\ Len(Tail(s)) = Len(s) - 1 OBVIOUS
<1>3. Len(s) - 1 > 0 OBVIOUS
<1> QED BY <1>1, <1>2, <1>3

LEMMA ConcatFacts ==
  ASSUME NEW S, NEW s \in Seq(S), NEW t \in Seq(S)
  PROVE  /\ s \o t \in Seq(S)
         /\ \A x : InSeq(x, s \o t) <=> InSeq(x, s) \/ InSeq(x, t)
         /\ \A x : Once(x, s) /\ Once(x, t) /\ ~(InSeq(x, s) /\ InSeq(x, t)) => Once(x, s \o t)
<1> DEFINE u == s \o t
<1>1. /\ u \in Seq(S) /\ Len(s) \in Nat /\ Len(t) \in Nat /\ Len(u) = Len(s) + Len(t)
      /\ \A i \in 1..Len(s) : u[i] = s[i]
      /\ \A i \in 1..Len(t) : u[Len(s) + i] = t[i]
  OBVIOUS
<1> HIDE DEF u
<1>2. \A i \in 1..Len(t) : Len(s) + i \in 1..Len(u) BY <1>1
<1>3. \A i \in 1..Len(s) : i \in 1..Len(u) BY <1>1
<1>4. \A i \in 1..Len(u) : \/ i \in 1..Len(s) /\ u[i] = s[i]
                           \/ i - Len(s) \in 1..Len(t) /\ u[i] = t[i - Len(s)]
  <2> SUFFICES ASSUME NEW i \in 1..Len(u), i \notin 1..Len(s)
               PROVE  i - Len(s) \in 1..Len(t) /\ u[i] = t[i - Len(s)]
    BY <1>1
  <2>1. i - Len(s) \in 1..Len(t) BY <1>1
  <2>2. Len(s) + (i - Len(s)) = i BY <1>1
  <2> QED BY <1>1, <2>1, <2>2
<1>5. \A x : InSeq(x, u) <=> InSeq(x, s) \/ InSeq(x, t)
  <2>1. ASSUME NEW x, InSeq(x, u) PROVE InSeq(x, s) \/ InSeq(x, t)
    BY <1>4, <2>1 DEF InSeq
  <2>2. ASSUME NEW x, InSeq(x, s) PROVE InSeq(x, u) BY <1>1, <1>3, <2>2 DEF InSeq
  <2>3. ASSUME NEW x, InSeq(x, t) PROVE InSeq(x, u) BY <1>1, <1>2, <2>3 DEF InSeq
  <2> QED BY <2>1, <2>2, <2>3
<1>6. ASSUME NEW x, Once(x, s), Once(x, t), ~(InSeq(x, s) /\ InSeq(x, t)) PROVE Once(x, u)
  <2> SUFFICES ASSUME NEW i \in 1..Len(u), NEW j \in 1..Len(u), u[i] = x, u[j] = x PROVE i = j
    BY DEF Once
  <2>1. CASE i \in 1..Len(s) /\ u[i] = s[i] /\ j \in 1..Len(s) /\ u[j] = s[j]
    BY <1>6, <2>1 DEF Once
  <2>2. CASE /\ i - Len(s) \in 1..Len(t) /\ u[i] = t[i - Len(s)]
             /\ j - Len(s) \in 1..Len(t) /\ u[j] = t[j - Len(s)]
    <3>1. i - Len(s) = j - Len(s) BY <1>6, <2>2 DEF Once
    <3> QED BY <1>1, <3>1
  <2>3. ~(InSeq(x, s) /\ InSeq(x, t)) BY <1>6
  <2> QED BY <1>4, <2>1, <2>2, <2>3 DEF InSeq
<1> QED BY <1>1, <1>5, <1>6 DEF u
=============================================================================
