---------------------------- MODULE InstallerProofs ----------------------------
(***************************************************************************)
(* What TLAPS proves of Installer for any services, GPU devices, hosts and *)
(* selections of roles, and any number of invocations, failures and kills: *)
(* what is on disk, when what a service runs may be exchanged, what a      *)
(* completed operation leaves, and how exact a rollback is.                *)
(***************************************************************************)
EXTENDS Installer, WellFoundedInduction, TLAPS

(***************************************************************************)
(* Plans.                                                                  *)
(***************************************************************************)

\* A set of naturals that is not empty has a least member.
LEMMA LeastNatural ==
    ASSUME NEW T, T \subseteq Nat, T # {}
    PROVE  \E m \in T : \A n \in T : m <= n
<1>. DEFINE less == {p \in Nat \X Nat : p[1] < p[2]}
<1>1. IsWellFoundedOn(less, Nat)
  BY NatLessThanWellFounded DEF OpToRel
<1>. HIDE DEF less
<1>2. PICK m \in T : \A n \in T : ~ (<<n, m>> \in less)
  BY <1>1, WFMin
<1>3. ASSUME NEW n \in T PROVE m <= n
  <2>1. <<n, m>> \notin less /\ n \in Nat /\ m \in Nat
    BY <1>2
  <2>2. ~(n < m)
    BY <2>1 DEF less
  <2>. QED
    BY <2>1, <2>2
<1>. QED
  BY <1>2, <1>3

\* Induction, over a set of naturals.
LEMMA EveryNatural ==
    ASSUME NEW S, 0 \in S, \A n \in Nat : n \in S => n + 1 \in S
    PROVE  Nat \subseteq S
<1>. SUFFICES ASSUME Nat \ S # {} PROVE FALSE
  OBVIOUS
<1>1. PICK m \in Nat \ S : \A n \in Nat \ S : m <= n
  BY LeastNatural
<1>2. m # 0 /\ m - 1 \in Nat /\ m - 1 \notin Nat \ S
  BY <1>1
<1>3. m - 1 + 1 = m
  BY <1>1
<1>. QED
  BY <1>1, <1>2, <1>3

\* s is in f, from the place after b on.
Occurs(f, s, b) ==
    b \in Nat /\ b + Len(s) <= Len(f) /\ \A k \in 1..Len(s) : f[b + k] = s[k]

\* f is made of the first n sequences of ss and nothing else.
MadeOf(f, ss, n) ==
    /\ \A i \in 1..n : \E b \in Nat : Occurs(f, ss[i], b)
    /\ \A p \in 1..Len(f) : \E i \in 1..n, b \in Nat :
          Occurs(f, ss[i], b) /\ p \in (b + 1)..(b + Len(ss[i]))

\* A sequence more.
LEMMA MadeOfMore ==
    ASSUME NEW X, NEW ss \in Seq(Seq(X)), NEW n \in Nat, n + 1 <= Len(ss),
           NEW f \in Seq(X), MadeOf(f, ss, n)
    PROVE  f \o ss[n + 1] \in Seq(X) /\ MadeOf(f \o ss[n + 1], ss, n + 1)
<1>. DEFINE s == ss[n + 1]
            g == f \o s
<1>1. s \in Seq(X)
  OBVIOUS
<1>. HIDE DEF s
<1>2. /\ g \in Seq(X) /\ Len(g) = Len(f) + Len(s)
      /\ \A k \in 1..Len(f) : g[k] = f[k]
      /\ \A k \in 1..Len(s) : g[Len(f) + k] = s[k]
      /\ Len(f) \in Nat /\ Len(s) \in Nat
  BY <1>1
<1>. HIDE DEF g
<1>3. \A i \in 1..n : ss[i] \in Seq(X) /\ Len(ss[i]) \in Nat
  OBVIOUS
<1>4. ASSUME NEW i \in 1..n, NEW b \in Nat, Occurs(f, ss[i], b)
      PROVE  Occurs(g, ss[i], b)
  <2>1. b \in Nat /\ b + Len(ss[i]) <= Len(f) /\ \A k \in 1..Len(ss[i]) : f[b + k] = ss[i][k]
    BY <1>4 DEF Occurs
  <2>2. Len(ss[i]) \in Nat
    BY <1>3
  <2>3. b + Len(ss[i]) <= Len(g)
    <3>1. Len(g) = Len(f) + Len(s) /\ Len(f) \in Nat /\ Len(s) \in Nat
      BY <1>2
    <3>2. b + Len(ss[i]) <= Len(f)
      BY <2>1
    <3>. QED
      BY <2>2, <3>1, <3>2
  <2>4. ASSUME NEW k \in 1..Len(ss[i]) PROVE g[b + k] = ss[i][k]
    <3>1. b + k \in 1..Len(f)
      <4>1. Len(f) \in Nat /\ b + Len(ss[i]) <= Len(f)
        BY <1>2, <2>1
      <4>. QED
        BY <2>2, <4>1
    <3>. QED
      BY <1>2, <2>1, <3>1
  <2>. QED
    BY <2>1, <2>3, <2>4 DEF Occurs
<1>5. Occurs(g, ss[n + 1], Len(f))
  BY <1>2 DEF Occurs, s
<1>6. \A i \in 1..(n + 1) : \E b \in Nat : Occurs(g, ss[i], b)
  <2>1. \A i \in 1..(n + 1) : i \in 1..n \/ i = n + 1
    OBVIOUS
  <2>. QED
    BY <1>2, <1>4, <1>5, <2>1 DEF MadeOf
<1>7. ASSUME NEW p \in 1..Len(g)
      PROVE  \E i \in 1..(n + 1), b \in Nat :
                Occurs(g, ss[i], b) /\ p \in (b + 1)..(b + Len(ss[i]))
  <2>1. CASE p <= Len(f)
    <3>1. PICK i \in 1..n, b \in Nat :
             Occurs(f, ss[i], b) /\ p \in (b + 1)..(b + Len(ss[i]))
      BY <1>2, <2>1 DEF MadeOf
    <3>. QED
      BY <1>4, <3>1
  <2>2. CASE p > Len(f)
    <3>1. p \in (Len(f) + 1)..(Len(f) + Len(ss[n + 1]))
      BY <1>2, <2>2 DEF s
    <3>. QED
      BY <1>2, <1>5, <3>1
  <2>. QED
    BY <1>2, <2>1, <2>2
<1>. QED
  BY <1>2, <1>6, <1>7 DEF MadeOf, g, s

\* f is FlattenSeq's function, as far as n.
Flattens(f, ss, n) ==
    /\ DOMAIN f = 1..n
    /\ \A i \in 1..n : f[i] = IF i = 1 THEN ss[i] ELSE f[i - 1] \o ss[i]

\* Such a function can be carried on.
LEMMA FlattensOneMore ==
    ASSUME NEW ss, NEW n \in Nat, NEW f, Flattens(f, ss, n)
    PROVE  \E g : Flattens(g, ss, n + 1)
<1>. DEFINE g == [i \in 1..(n + 1) |->
                    IF i <= n THEN f[i] ELSE IF i = 1 THEN ss[i] ELSE f[i - 1] \o ss[i]]
<1>1. ASSUME NEW i \in 1..n
      PROVE  g[i] = f[i] /\ (f[i] = IF i = 1 THEN ss[i] ELSE f[i - 1] \o ss[i])
  <2>1. i \in 1..(n + 1) /\ i <= n
    OBVIOUS
  <2>2. g[i] = f[i]
    BY <2>1
  <2>3. f[i] = IF i = 1 THEN ss[i] ELSE f[i - 1] \o ss[i]
    BY DEF Flattens
  <2>. QED
    BY <2>2, <2>3
<1>2. ASSUME NEW i \in 1..(n + 1), i = n + 1
      PROVE  g[i] = IF i = 1 THEN ss[i] ELSE f[i - 1] \o ss[i]
  <2>1. ~(i <= n)
    BY <1>2
  <2>. QED
    BY <2>1
<1>3. DOMAIN g = 1..(n + 1)
  OBVIOUS
<1>. HIDE DEF g
<1>4. ASSUME NEW i \in 1..(n + 1)
      PROVE  g[i] = IF i = 1 THEN ss[i] ELSE g[i - 1] \o ss[i]
  <2>1. CASE i = 1
    BY <1>1, <1>2, <2>1
  <2>2. CASE i # 1
    <3>1. i - 1 \in 1..n
      BY <2>2
    <3>2. g[i - 1] = f[i - 1]
      BY <1>1, <3>1
    <3>3. g[i] = f[i - 1] \o ss[i]
      <4>1. CASE i \in 1..n
        BY <1>1, <2>2, <4>1
      <4>2. CASE i = n + 1
        BY <1>2, <2>2, <4>2
      <4>3. i \in 1..n \/ i = n + 1
        OBVIOUS
      <4>. QED
        BY <4>1, <4>2, <4>3
    <3>. QED
      BY <2>2, <3>2, <3>3
  <2>. QED
    BY <2>1, <2>2
<1>. QED
  BY <1>3, <1>4 DEF Flattens

\* As far as one likes.
LEMMA FlattensExists ==
    ASSUME NEW ss, NEW m \in Nat PROVE \E f : Flattens(f, ss, m)
<1>. DEFINE S == {n \in Nat : \E f : Flattens(f, ss, n)}
<1>1. 0 \in S
  <2>1. Flattens([i \in 1..0 |-> 0], ss, 0)
    BY DEF Flattens
  <2>. QED
    BY <2>1
<1>2. ASSUME NEW n \in Nat, n \in S PROVE n + 1 \in S
  BY <1>2, FlattensOneMore
<1>. HIDE DEF S
<1>3. m \in S
  BY <1>1, <1>2, EveryNatural
<1>. QED
  BY <1>3 DEF S

\* FlattenSeq puts the sequences one after another.
LEMMA FlattenSeqIs ==
    ASSUME NEW X, NEW ss \in Seq(Seq(X))
    PROVE  FlattenSeq(ss) \in Seq(X) /\ MadeOf(FlattenSeq(ss), ss, Len(ss))
<1>1. CASE Len(ss) = 0
  <2>1. FlattenSeq(ss) = <<>>
    BY <1>1 DEF FlattenSeq
  <2>. QED
    BY <1>1, <2>1 DEF MadeOf
<1>2. CASE Len(ss) # 0
  <2>. DEFINE Flatten(f) == f = [i \in 1..Len(ss) |-> IF i = 1 THEN ss[i] ELSE f[i - 1] \o ss[i]]
  <2>1. FlattenSeq(ss) = (CHOOSE f : Flatten(f))[Len(ss)]
    BY <1>2 DEF FlattenSeq
  <2>2. PICK m \in Nat : m = Len(ss)
    OBVIOUS
  <2>3. \E f : Flatten(f)
    <3>1. PICK f : Flattens(f, ss, m)
      BY FlattensExists
    <3>. DEFINE g == [i \in 1..m |-> f[i]]
    <3>2. ASSUME NEW i \in 1..m
          PROVE  f[i] = IF i = 1 THEN ss[i] ELSE g[i - 1] \o ss[i]
      <4>1. CASE i = 1
        BY <3>1, <4>1 DEF Flattens
      <4>2. CASE i # 1
        <5>1. i - 1 \in 1..m
          BY <4>2
        <5>. QED
          BY <3>1, <4>2, <5>1 DEF Flattens
      <4>. QED
        BY <4>1, <4>2
    <3>3. g = [i \in 1..m |-> IF i = 1 THEN ss[i] ELSE g[i - 1] \o ss[i]]
      BY <3>2
    <3>. HIDE DEF g
    <3>4. Flatten(g)
      BY <2>2, <3>3
    <3>. QED
      BY <3>4
  <2>. DEFINE f == CHOOSE h : Flatten(h)
  <2>4. Flatten(f)
    BY <2>3
  <2>. HIDE DEF f
  <2>5. \A i \in 1..m : f[i] = IF i = 1 THEN ss[i] ELSE f[i - 1] \o ss[i]
    BY <2>2, <2>4
  <2>. HIDE DEF Flatten
  <2>. DEFINE T == {n \in Nat : n + 1 <= m =>
                       f[n + 1] \in Seq(X) /\ MadeOf(f[n + 1], ss, n + 1)}
  <2>6. 0 \in T
    <3>1. f[1] = ss[1] /\ ss[1] \in Seq(X) /\ 1 <= m
      BY <1>2, <2>2, <2>5
    <3>2. <<>> \in Seq(X) /\ MadeOf(<<>>, ss, 0) /\ <<>> \o ss[1] = ss[1]
      BY <3>1 DEF MadeOf
    <3>3. ss[1] \in Seq(X) /\ MadeOf(ss[1], ss, 1)
      <4>1. 0 \in Nat /\ 0 + 1 = 1 /\ 0 + 1 <= Len(ss)
        BY <2>2, <3>1
      <4>. QED
        BY <3>2, <4>1, MadeOfMore
    <3>. QED
      BY <3>1, <3>3
  <2>7. ASSUME NEW n \in Nat, n \in T PROVE n + 1 \in T
    <3>. SUFFICES ASSUME n + 1 + 1 <= m
                  PROVE  f[n + 1 + 1] \in Seq(X) /\ MadeOf(f[n + 1 + 1], ss, n + 1 + 1)
      OBVIOUS
    <3>1. f[n + 1] \in Seq(X) /\ MadeOf(f[n + 1], ss, n + 1)
      BY <2>7
    <3>2. PICK k \in Nat : k = n + 1
      OBVIOUS
    <3>3. f[k + 1] = f[k] \o ss[k + 1]
      <4>1. PICK j \in 1..m : j = k + 1
        BY <3>2
      <4>2. j # 1 /\ j - 1 = k
        BY <3>2, <4>1
      <4>3. f[j] = f[j - 1] \o ss[j]
        BY <2>5, <4>2
      <4>. QED
        BY <4>1, <4>2, <4>3
    <3>. QED
      BY <2>2, <3>1, <3>2, <3>3, MadeOfMore
  <2>. HIDE DEF T
  <2>8. Nat \subseteq T
    BY <2>6, <2>7, EveryNatural
  <2>9. m - 1 \in Nat /\ m - 1 + 1 = m
    BY <1>2, <2>2
  <2>10. f[m] \in Seq(X) /\ MadeOf(f[m], ss, m)
    <3>1. PICK n \in Nat : n = m - 1
      BY <2>9
    <3>2. n + 1 = m /\ n \in T
      BY <2>8, <2>9, <3>1
    <3>3. n + 1 <= m => f[n + 1] \in Seq(X) /\ MadeOf(f[n + 1], ss, n + 1)
      BY <3>2 DEF T
    <3>. QED
      BY <3>2, <3>3
  <2>. QED
    BY <2>1, <2>2, <2>10 DEF f
<1>. QED
  BY <1>1, <1>2

\* A function from the first naturals is a sequence.
LEMMA FunctionIsSeq ==
    ASSUME NEW X, NEW n \in Nat, NEW f, f = [i \in 1..n |-> f[i]], \A i \in 1..n : f[i] \in X
    PROVE  f \in Seq(X) /\ Len(f) = n /\ DOMAIN f = 1..n
<1>1. f \in [1..n -> X]
  OBVIOUS
<1>. QED
  BY <1>1

\* What FlattenSeq contains.
LEMMA FlattenContains ==
    ASSUME NEW X, NEW ss \in Seq(Seq(X))
    PROVE  /\ FlattenSeq(ss) \in Seq(X)
           /\ \A x : x \in ToSet(FlattenSeq(ss)) <=> \E i \in 1..Len(ss) : x \in ToSet(ss[i])
<1>. DEFINE f == FlattenSeq(ss)
<1>1. f \in Seq(X) /\ MadeOf(f, ss, Len(ss))
  BY FlattenSeqIs
<1>. HIDE DEF f
<1>2. \A i \in 1..Len(ss) : ss[i] \in Seq(X)
  OBVIOUS
<1>3. ASSUME NEW i \in 1..Len(ss), NEW x \in ToSet(ss[i]) PROVE x \in ToSet(f)
  <2>1. PICK k \in 1..Len(ss[i]) : x = ss[i][k]
    <3>1. PICK s \in Seq(X) : s = ss[i]
      BY <1>2
    <3>2. \E k \in DOMAIN s : x = s[k]
      BY <1>3, <3>1 DEF ToSet
    <3>3. DOMAIN s = 1..Len(s)
      OBVIOUS
    <3>. QED
      BY <3>1, <3>2, <3>3
  <2>2. PICK b \in Nat : Occurs(f, ss[i], b)
    BY <1>1 DEF MadeOf
  <2>3. b + k \in 1..Len(f) /\ f[b + k] = x
    BY <1>1, <1>2, <2>1, <2>2 DEF Occurs
  <2>. QED
    BY <1>1, <2>3 DEF ToSet
<1>4. ASSUME NEW x \in ToSet(f) PROVE \E i \in 1..Len(ss) : x \in ToSet(ss[i])
  <2>1. PICK p \in 1..Len(f) : x = f[p]
    BY <1>1 DEF ToSet
  <2>2. PICK i \in 1..Len(ss), b \in Nat :
           Occurs(f, ss[i], b) /\ p \in (b + 1)..(b + Len(ss[i]))
    BY <1>1 DEF MadeOf
  <2>3. PICK k \in 1..Len(ss[i]) : p = b + k
    <3>1. Len(ss[i]) \in Nat
      BY <1>2
    <3>2. p - b \in 1..Len(ss[i]) /\ p = b + (p - b)
      BY <2>2, <3>1
    <3>. QED
      BY <3>2
  <2>4. x = ss[i][k]
    BY <2>1, <2>2, <2>3 DEF Occurs
  <2>. QED
    BY <1>2, <2>3, <2>4 DEF ToSet
<1>. QED
  BY <1>1, <1>3, <1>4 DEF f

\* What one step after another contains.
LEMMA ConcatContains ==
    ASSUME NEW X, NEW s \in Seq(X), NEW t \in Seq(X)
    PROVE  s \o t \in Seq(X) /\ ToSet(s \o t) = ToSet(s) \cup ToSet(t)
<1>. DEFINE c == s \o t
<1>1. /\ c \in Seq(X) /\ Len(c) = Len(s) + Len(t) /\ Len(s) \in Nat /\ Len(t) \in Nat
      /\ \A i \in 1..Len(s) : c[i] = s[i]
      /\ \A i \in 1..Len(t) : c[Len(s) + i] = t[i]
  OBVIOUS
<1>. HIDE DEF c
<1>2. ASSUME NEW x \in ToSet(s) \cup ToSet(t) PROVE x \in ToSet(c)
  <2>1. CASE x \in ToSet(s)
    <3>1. PICK i \in 1..Len(s) : x = s[i]
      BY <2>1 DEF ToSet
    <3>2. i \in 1..Len(c) /\ c[i] = x
      BY <1>1, <3>1
    <3>. QED
      BY <1>1, <3>2 DEF ToSet
  <2>2. CASE x \in ToSet(t)
    <3>1. PICK i \in 1..Len(t) : x = t[i]
      BY <2>2 DEF ToSet
    <3>2. Len(s) + i \in 1..Len(c) /\ c[Len(s) + i] = x
      BY <1>1, <3>1
    <3>. QED
      BY <1>1, <3>2 DEF ToSet
  <2>. QED
    BY <1>2, <2>1, <2>2
<1>3. ASSUME NEW x \in ToSet(c) PROVE x \in ToSet(s) \cup ToSet(t)
  <2>1. PICK i \in 1..Len(c) : x = c[i]
    BY <1>1, <1>3 DEF ToSet
  <2>2. CASE i <= Len(s)
    <3>1. i \in 1..Len(s) /\ x = s[i]
      BY <1>1, <2>1, <2>2
    <3>. QED
      BY <3>1 DEF ToSet
  <2>3. CASE i > Len(s)
    <3>1. PICK k \in 1..Len(t) : i = Len(s) + k
      <4>1. i - Len(s) \in 1..Len(t) /\ i = Len(s) + (i - Len(s))
        BY <1>1, <2>3
      <4>. QED
        BY <4>1
    <3>2. x = t[k]
      BY <1>1, <2>1, <3>1
    <3>. QED
      BY <3>1, <3>2 DEF ToSet
  <2>. QED
    BY <1>1, <2>2, <2>3
<1>. QED
  BY <1>1, <1>2, <1>3 DEF c

\* The members that a loop does not skip.
LEMMA ThoseIs ==
    ASSUME NEW X, NEW s \in Seq(X), NEW S
    PROVE  Those(s, S) \in Seq(X) /\ ToSet(Those(s, S)) = ToSet(s) \cap S
<1>. DEFINE ss == [i \in DOMAIN s |-> IF s[i] \in S THEN <<s[i]>> ELSE <<>>]
<1>1. PICK n \in Nat : n = Len(s) /\ DOMAIN s = 1..n /\ \A i \in 1..n : s[i] \in X
  OBVIOUS
<1>2. ASSUME NEW i \in 1..n
      PROVE  ss[i] \in Seq(X) /\ \A x : x \in ToSet(ss[i]) <=> x = s[i] /\ s[i] \in S
  <2>1. CASE s[i] \in S
    <3>1. ss[i] = <<s[i]>>
      BY <1>1, <2>1
    <3>. QED
      BY <1>1, <2>1, <3>1 DEF ToSet
  <2>2. CASE s[i] \notin S
    <3>1. ss[i] = <<>>
      BY <1>1, <2>2
    <3>2. \A x : x \notin ToSet(<<>>)
      BY DEF ToSet
    <3>. HIDE DEF ss
    <3>. QED
      BY <2>2, <3>1, <3>2
  <2>. QED
    BY <2>1, <2>2
<1>3. ss = [i \in 1..n |-> ss[i]]
  BY <1>1
<1>. HIDE DEF ss
<1>4. ss \in Seq(Seq(X)) /\ Len(ss) = n
  BY <1>2, <1>3, FunctionIsSeq
<1>5. /\ FlattenSeq(ss) \in Seq(X)
      /\ \A x : x \in ToSet(FlattenSeq(ss)) <=> \E i \in 1..n : x \in ToSet(ss[i])
  BY <1>4, FlattenContains
<1>6. \A x : x \in ToSet(s) <=> \E i \in 1..n : x = s[i]
  BY <1>1 DEF ToSet
<1>7. ASSUME NEW x PROVE x \in ToSet(FlattenSeq(ss)) <=> x \in ToSet(s) /\ x \in S
  <2>1. x \in ToSet(FlattenSeq(ss)) <=> \E i \in 1..n : x = s[i] /\ s[i] \in S
    BY <1>2, <1>5
  <2>. QED
    BY <1>6, <2>1
<1>. QED
  BY <1>5, <1>7 DEF Those, ss

\* The same, from the last to the first.
LEMMA ReverseIs ==
    ASSUME NEW X, NEW s \in Seq(X)
    PROVE  Reverse(s) \in Seq(X) /\ ToSet(Reverse(s)) = ToSet(s)
<1>. DEFINE r == Reverse(s)
<1>1. r \in Seq(X) /\ Len(r) = Len(s) /\ \A i \in 1..Len(s) : r[i] = s[Len(s) - i + 1]
  BY DEF Reverse
<1>. HIDE DEF r
<1>2. \A i \in 1..Len(s) : Len(s) - i + 1 \in 1..Len(s)
  OBVIOUS
<1>3. ASSUME NEW x \in ToSet(s) PROVE x \in ToSet(r)
  <2>1. PICK i \in 1..Len(s) : x = s[i]
    BY DEF ToSet
  <2>2. PICK j \in 1..Len(s) : j = Len(s) - i + 1
    BY <1>2
  <2>3. Len(s) - j + 1 = i
    BY <2>2
  <2>4. r[j] = x
    BY <1>1, <2>1, <2>3
  <2>. QED
    BY <1>1, <2>4 DEF ToSet
<1>4. ASSUME NEW x \in ToSet(r) PROVE x \in ToSet(s)
  <2>1. PICK i \in 1..Len(s) : x = r[i]
    BY <1>1 DEF ToSet
  <2>2. PICK j \in 1..Len(s) : j = Len(s) - i + 1
    BY <1>1, <1>2, <2>1
  <2>3. x = s[j]
    BY <1>1, <2>1, <2>2
  <2>. QED
    BY <2>3 DEF ToSet
<1>. QED
  BY <1>1, <1>3, <1>4 DEF r

\* The steps there are.
Op == {"account", "gpu", "query", "capture", "publish", "reload", "enable", "start",
       "stop", "restore", "enablement", "activity",
       "inspect", "reset-failed", "disable", "remove", "verify"}
PlanStep == [op : Op, arg : Role \cup Artifact \cup {"le0x", "systemd"}]

\* One step for each member.
LEMMA StepsAre ==
    ASSUME NEW op \in Op, NEW s \in Seq(Role \cup Artifact)
    PROVE  Steps(op, s) \in Seq(PlanStep) /\ ToSet(Steps(op, s)) = {Step(op, x) : x \in ToSet(s)}
<1>1. /\ Len(s) \in Nat /\ DOMAIN s = 1..Len(s)
      /\ \A i \in 1..Len(s) : s[i] \in Role \cup Artifact
  OBVIOUS
<1>2. \A i \in 1..Len(s) : Step(op, s[i]) \in PlanStep
  BY <1>1 DEF PlanStep, Step
<1>. DEFINE p == Steps(op, s)
<1>3. p = [i \in 1..Len(s) |-> Step(op, s[i])]
  BY <1>1 DEF Steps
<1>. HIDE DEF p
<1>4. p \in Seq(PlanStep) /\ DOMAIN p = 1..Len(s)
  BY <1>1, <1>2, <1>3, FunctionIsSeq
<1>5. ToSet(p) = {Step(op, x) : x \in ToSet(s)}
  BY <1>1, <1>3 DEF ToSet
<1>. QED
  BY <1>4, <1>5 DEF p

\* The artifacts of the roles.
LEMMA ArtifactsAre ==
    ASSUME NEW roles \in Seq(Role)
    PROVE  /\ Artifacts(roles) \in Seq(Artifact)
           /\ ToSet(Artifacts(roles)) = ToSet(roles) \X {"binary", "unit", "config"}
<1>. DEFINE ss == [i \in DOMAIN roles |-> [j \in DOMAIN Kinds |-> <<roles[i], Kinds[j]>>]]
<1>1. /\ Len(roles) \in Nat /\ DOMAIN roles = 1..Len(roles)
      /\ \A i \in 1..Len(roles) : roles[i] \in Role
  OBVIOUS
<1>2. DOMAIN Kinds = 1..3 /\ Kinds[1] = "binary" /\ Kinds[2] = "unit" /\ Kinds[3] = "config"
  BY DEF Kinds
<1>3. ASSUME NEW i \in 1..Len(roles)
      PROVE  ss[i] \in Seq(Artifact) /\ ToSet(ss[i]) = {roles[i]} \X {"binary", "unit", "config"}
  <2>1. ss[i] = [j \in 1..3 |-> <<roles[i], Kinds[j]>>]
    BY <1>1, <1>2
  <2>2. \A j \in 1..3 : j = 1 \/ j = 2 \/ j = 3
    OBVIOUS
  <2>3. \A j \in 1..3 : ss[i][j] = <<roles[i], Kinds[j]>> /\ ss[i][j] \in Artifact
    BY <1>1, <1>2, <2>1, <2>2 DEF Artifact
  <2>4. ss[i] \in Seq(Artifact) /\ DOMAIN ss[i] = 1..3
    <3>1. ss[i] = [j \in 1..3 |-> ss[i][j]]
      BY <2>1
    <3>. HIDE DEF ss
    <3>. QED
      BY <2>3, <3>1, FunctionIsSeq
  <2>5. /\ ss[i][1] = <<roles[i], "binary">> /\ ss[i][2] = <<roles[i], "unit">>
        /\ ss[i][3] = <<roles[i], "config">>
    BY <1>2, <2>3
  <2>. HIDE DEF ss
  <2>6. ToSet(ss[i]) = {ss[i][1], ss[i][2], ss[i][3]}
    BY <2>2, <2>4 DEF ToSet
  <2>. QED
    BY <2>4, <2>5, <2>6
<1>4. ss = [i \in 1..Len(roles) |-> ss[i]]
  BY <1>1
<1>. HIDE DEF ss
<1>5. ss \in Seq(Seq(Artifact)) /\ Len(ss) = Len(roles)
  BY <1>1, <1>3, <1>4, FunctionIsSeq
<1>6. /\ FlattenSeq(ss) \in Seq(Artifact)
      /\ \A x : x \in ToSet(FlattenSeq(ss)) <=> \E i \in 1..Len(roles) : x \in ToSet(ss[i])
  BY <1>5, FlattenContains
<1>7. \A r : r \in ToSet(roles) <=> \E i \in 1..Len(roles) : r = roles[i]
  BY <1>1 DEF ToSet
<1>8. \A x : x \in ToSet(FlattenSeq(ss)) <=> x \in ToSet(roles) \X {"binary", "unit", "config"}
  BY <1>3, <1>6, <1>7
<1>. QED
  BY <1>6, <1>8 DEF Artifacts, ss

\* The order of an Install (prerequisites and copies, artifacts, reload, services)
\* and of an Uninstall (services and artifacts, reload, verification).
Rank(s) ==
    IF s.op = "publish" THEN 1 ELSE IF s.op = "reload" THEN 2
    ELSE IF s.op \in {"enable", "start", "verify"} THEN 3 ELSE 0
Ranked(s) == \A i, j \in 1..Len(s) : i < j => Rank(s[i]) <= Rank(s[j])

\* A plan of the steps S.
IsPlan(s, S) == s \in Seq(PlanStep) /\ ToSet(s) = S /\ Ranked(s)

\* What is left of a plan when its first step is done.
LEMMA TailIs ==
    ASSUME NEW s \in Seq(PlanStep), s # <<>>, Ranked(s)
    PROVE  /\ Head(s) \in PlanStep /\ IsPlan(Tail(s), ToSet(Tail(s)))
           /\ ToSet(s) = {Head(s)} \cup ToSet(Tail(s))
           /\ \A x \in ToSet(s) : Rank(Head(s)) <= Rank(x)
<1>1. /\ Len(s) \in Nat \ {0} /\ Head(s) = s[1] /\ Head(s) \in PlanStep
      /\ Tail(s) \in Seq(PlanStep) /\ Len(Tail(s)) = Len(s) - 1
      /\ \A i \in 1..(Len(s) - 1) : Tail(s)[i] = s[i + 1]
  OBVIOUS
<1>2. \A x : x \in ToSet(s) <=> \E i \in 1..Len(s) : x = s[i]
  BY DEF ToSet
<1>. DEFINE t == Tail(s)
<1>. HIDE DEF t
<1>3. \A x : x \in ToSet(t) <=> \E i \in 1..(Len(s) - 1) : x = t[i]
  <2>1. t \in Seq(PlanStep) /\ Len(t) = Len(s) - 1
    BY <1>1 DEF t
  <2>2. DOMAIN t = 1..(Len(s) - 1)
    BY <2>1
  <2>. QED
    BY <2>2 DEF ToSet
<1>4. ASSUME NEW x \in ToSet(s) PROVE x = s[1] \/ x \in ToSet(t)
  <2>1. PICK i \in 1..Len(s) : x = s[i]
    BY <1>2
  <2>2. CASE i # 1
    <3>1. PICK j \in 1..(Len(s) - 1) : i = j + 1
      <4>1. i - 1 \in 1..(Len(s) - 1) /\ i = i - 1 + 1
        BY <1>1, <2>2
      <4>. QED
        BY <4>1
    <3>2. x = t[j]
      BY <1>1, <2>1, <3>1 DEF t
    <3>. QED
      BY <1>3, <3>2
  <2>. QED
    BY <2>1, <2>2
<1>5. ASSUME NEW x \in ToSet(t) PROVE x \in ToSet(s)
  <2>1. PICK j \in 1..(Len(s) - 1) : x = t[j]
    BY <1>3
  <2>2. j + 1 \in 1..Len(s) /\ x = s[j + 1]
    BY <1>1, <2>1 DEF t
  <2>. QED
    BY <1>2, <2>2
<1>6. s[1] \in ToSet(s)
  BY <1>1, <1>2
<1>7. ASSUME NEW x \in ToSet(s) PROVE Rank(s[1]) <= Rank(x)
  <2>1. PICK i \in 1..Len(s) : x = s[i]
    BY <1>2
  <2>2. CASE i = 1
    BY <2>1, <2>2 DEF Rank
  <2>3. CASE i # 1
    BY <1>1, <2>1, <2>3 DEF Ranked
  <2>. QED
    BY <2>2, <2>3
<1>8. Ranked(t)
  <2>. SUFFICES ASSUME NEW i \in 1..(Len(s) - 1), NEW j \in 1..(Len(s) - 1), i < j
                PROVE  Rank(t[i]) <= Rank(t[j])
    BY <1>1 DEF Ranked, t
  <2>1. PICK k \in 1..Len(s), l \in 1..Len(s) : k = i + 1 /\ l = j + 1 /\ k < l
    BY <1>1
  <2>2. t[i] = s[k] /\ t[j] = s[l]
    BY <1>1, <2>1 DEF t
  <2>. QED
    BY <2>1, <2>2 DEF Ranked
<1>. QED
  BY <1>1, <1>4, <1>5, <1>6, <1>7, <1>8 DEF IsPlan, t

\* One plan after another.
LEMMA PlanConcat ==
    ASSUME NEW s, NEW t, NEW S, NEW T, IsPlan(s, S), IsPlan(t, T),
           \A x \in S, y \in T : Rank(x) <= Rank(y)
    PROVE  IsPlan(s \o t, S \cup T)
<1>. DEFINE c == s \o t
<1>1. c \in Seq(PlanStep) /\ ToSet(c) = S \cup T
  BY ConcatContains DEF IsPlan
<1>2. /\ Len(c) = Len(s) + Len(t) /\ Len(s) \in Nat /\ Len(t) \in Nat
      /\ \A i \in 1..Len(s) : c[i] = s[i]
      /\ \A i \in 1..Len(t) : c[Len(s) + i] = t[i]
  BY DEF IsPlan
<1>. HIDE DEF c
<1>3. Ranked(c)
  <2>. SUFFICES ASSUME NEW i \in 1..Len(c), NEW j \in 1..Len(c), i < j
                PROVE  Rank(c[i]) <= Rank(c[j])
    BY DEF Ranked
  <2>1. CASE j <= Len(s)
    <3>1. i \in 1..Len(s) /\ j \in 1..Len(s)
      BY <1>2, <2>1
    <3>. QED
      BY <1>2, <3>1 DEF IsPlan, Ranked
  <2>2. CASE i > Len(s)
    <3>1. PICK k \in 1..Len(t), l \in 1..Len(t) : i = Len(s) + k /\ j = Len(s) + l
      <4>1. /\ i - Len(s) \in 1..Len(t) /\ i = Len(s) + (i - Len(s))
            /\ j - Len(s) \in 1..Len(t) /\ j = Len(s) + (j - Len(s))
        BY <1>2, <2>2
      <4>. QED
        BY <4>1
    <3>2. k < l /\ c[i] = t[k] /\ c[j] = t[l]
      BY <1>2, <3>1
    <3>. QED
      BY <3>2 DEF IsPlan, Ranked
  <2>3. CASE i <= Len(s) /\ j > Len(s)
    <3>1. PICK l \in 1..Len(t) : j = Len(s) + l
      <4>1. j - Len(s) \in 1..Len(t) /\ j = Len(s) + (j - Len(s))
        BY <1>2, <2>3
      <4>. QED
        BY <4>1
    <3>2. i \in 1..Len(s) /\ c[i] = s[i] /\ c[j] = t[l]
      BY <1>2, <2>3, <3>1
    <3>3. c[i] \in S /\ c[j] \in T
      BY <3>2 DEF IsPlan, ToSet
    <3>. QED
      BY <3>3
  <2>. QED
    BY <1>2, <2>1, <2>2, <2>3
<1>. QED
  BY <1>1, <1>3 DEF IsPlan, c

\* Steps of one kind, in any order.
LEMMA PlanOfRank ==
    ASSUME NEW s \in Seq(PlanStep), NEW n \in Int, \A x \in ToSet(s) : Rank(x) = n
    PROVE  IsPlan(s, ToSet(s))
<1>1. \A i \in 1..Len(s) : s[i] \in ToSet(s)
  BY DEF ToSet
<1>. QED
  BY <1>1 DEF IsPlan, Ranked

\* A step for each member.
ForEach(op, S) == {Step(op, x) : x \in S}

\* One kind of step for each member.
LEMMA PlanSteps ==
    ASSUME NEW op \in Op, NEW s \in Seq(Role \cup Artifact)
    PROVE  IsPlan(Steps(op, s), ForEach(op, ToSet(s)))
<1>. DEFINE p == Steps(op, s)
<1>1. p \in Seq(PlanStep) /\ ToSet(p) = {Step(op, x) : x \in ToSet(s)}
  BY StepsAre
<1>. HIDE DEF p
<1>2. PICK n \in Int : n = Rank([op |-> op])
  BY DEF Rank
<1>3. \A x \in ToSet(p) : Rank(x) = n
  BY <1>1, <1>2 DEF Rank, Step
<1>4. IsPlan(p, ToSet(p))
  BY <1>1, <1>3, PlanOfRank
<1>5. ToSet(p) = ForEach(op, ToSet(s))
  BY <1>1 DEF ForEach
<1>. QED
  BY <1>4, <1>5 DEF p

\* A step is one of those of a plan.
LEMMA StepIs ==
    ASSUME NEW op \in Op, NEW x \in Role \cup Artifact \cup {"le0x", "systemd"}
    PROVE  Step(op, x) \in PlanStep /\ Step(op, x).op = op /\ Step(op, x).arg = x
BY DEF Step, PlanStep

\* One step.
LEMMA PlanOne == ASSUME NEW s \in PlanStep PROVE IsPlan(<<s>>, {s})
BY DEF IsPlan, Ranked, ToSet

\* A plan, or nothing.
LEMMA PlanIf ==
    ASSUME NEW c \in BOOLEAN, NEW s, NEW S, IsPlan(s, S)
    PROVE  IsPlan(IF c THEN s ELSE <<>>, IF c THEN S ELSE {})
<1>1. IsPlan(<<>>, {})
  BY DEF IsPlan, Ranked, ToSet
<1>2. CASE c
  BY <1>2
<1>3. CASE ~c
  BY <1>1, <1>3
<1>. QED
  BY <1>2, <1>3

\* The steps of an Install.
InstallSteps(R, enable, begin) ==
    {Step("account", "le0x")} \cup (IF "agent" \in R THEN {Step("gpu", "le0x")} ELSE {})
    \cup (IF enable THEN ForEach("query", R) ELSE {})
    \cup ForEach("capture", R \X {"binary", "unit", "config"})
    \cup ForEach("publish", R \X {"binary", "unit", "config"})
    \cup {Step("reload", "systemd")}
    \cup (IF enable THEN ForEach("enable", R) ELSE {})
    \cup (IF begin THEN ForEach("start", R) ELSE {})

\* The services, last.
LEMMA EnableAndStartIs ==
    ASSUME NEW roles \in Seq(Role), NEW enable \in BOOLEAN, NEW begin \in BOOLEAN
    PROVE  IsPlan(EnableAndStart(roles, enable, begin),
                  (IF enable THEN ForEach("enable", ToSet(roles)) ELSE {}) \cup
                  (IF begin THEN ForEach("start", ToSet(roles)) ELSE {}))
<1>. DEFINE ss == [i \in DOMAIN roles |->
                     (IF enable THEN <<Step("enable", roles[i])>> ELSE <<>>)
                     \o (IF begin THEN <<Step("start", roles[i])>> ELSE <<>>)]
            S == (IF enable THEN ForEach("enable", ToSet(roles)) ELSE {}) \cup
                 (IF begin THEN ForEach("start", ToSet(roles)) ELSE {})
<1>1. PICK n \in Nat : n = Len(roles) /\ DOMAIN roles = 1..n /\ \A i \in 1..n : roles[i] \in Role
  OBVIOUS
<1>2. ASSUME NEW i \in 1..n
      PROVE  /\ ss[i] \in Seq(PlanStep)
             /\ \A x : x \in ToSet(ss[i]) <=> \/ enable /\ x = Step("enable", roles[i])
                                              \/ begin /\ x = Step("start", roles[i])
  <2>. DEFINE p == Step("enable", roles[i])
              q == Step("start", roles[i])
              e == IF enable THEN <<p>> ELSE <<>>
              b == IF begin THEN <<q>> ELSE <<>>
  <2>1. p \in PlanStep /\ q \in PlanStep
    <3>1. roles[i] \in Role \cup Artifact \cup {"le0x", "systemd"}
      BY <1>1
    <3>2. "enable" \in Op /\ "start" \in Op
      BY DEF Op
    <3>3. p \in PlanStep
      BY <3>1, <3>2, StepIs
    <3>4. q \in PlanStep
      BY <3>1, <3>2, StepIs
    <3>. QED
      BY <3>3, <3>4
  <2>2. ss[i] = e \o b
    BY <1>1
  <2>. HIDE DEF p, q, ss
  <2>3. IsPlan(e, IF enable THEN {p} ELSE {}) /\ IsPlan(b, IF begin THEN {q} ELSE {})
    BY <2>1, PlanOne, PlanIf
  <2>. HIDE DEF e, b
  <2>4. /\ e \o b \in Seq(PlanStep)
        /\ ToSet(e \o b) = (IF enable THEN {p} ELSE {}) \cup (IF begin THEN {q} ELSE {})
    BY <2>3, ConcatContains DEF IsPlan
  <2>. QED
    BY <2>2, <2>4 DEF p, q
<1>3. ss = [i \in 1..n |-> ss[i]]
  BY <1>1
<1>. HIDE DEF ss
<1>4. ss \in Seq(Seq(PlanStep)) /\ Len(ss) = n
  BY <1>2, <1>3, FunctionIsSeq
<1>5. /\ FlattenSeq(ss) \in Seq(PlanStep)
      /\ \A x : x \in ToSet(FlattenSeq(ss)) <=> \E i \in 1..n : x \in ToSet(ss[i])
  BY <1>4, FlattenContains
<1>6. \A r : r \in ToSet(roles) <=> \E i \in 1..n : r = roles[i]
  BY <1>1 DEF ToSet
<1>7. ASSUME NEW x PROVE x \in ToSet(FlattenSeq(ss)) <=> x \in S
  <2>1. ASSUME NEW i \in 1..n
        PROVE  x \in ToSet(ss[i]) <=> \/ enable /\ x = Step("enable", roles[i])
                                      \/ begin /\ x = Step("start", roles[i])
    BY <1>2
  <2>2. x \in S <=> \E r \in ToSet(roles) : \/ enable /\ x = Step("enable", r)
                                            \/ begin /\ x = Step("start", r)
    BY DEF ForEach
  <2>3. x \in S <=> \E i \in 1..n : x \in ToSet(ss[i])
    BY <1>6, <2>1, <2>2
  <2>. QED
    BY <1>5, <2>3
<1>8. \A x \in S : Rank(x) = 3
  BY DEF Rank, Step, ForEach
<1>. HIDE DEF S
<1>9. ToSet(FlattenSeq(ss)) = S
  BY <1>7
<1>10. IsPlan(FlattenSeq(ss), S)
  BY <1>5, <1>8, <1>9, PlanOfRank
<1>. QED
  BY <1>10 DEF EnableAndStart, ss, S

\* An Install, in its order.
LEMMA InstallPlanIs ==
    ASSUME NEW roles \in Seq(Role), NEW enable \in BOOLEAN, NEW begin \in BOOLEAN
    PROVE  IsPlan(InstallPlan(roles, enable, begin), InstallSteps(ToSet(roles), enable, begin))
<1>. DEFINE R == ToSet(roles)
            A == R \X {"binary", "unit", "config"}
<1>1. roles \in Seq(Role \cup Artifact)
  OBVIOUS
<1>2. PICK as \in Seq(Role \cup Artifact) : as = Artifacts(roles) /\ ToSet(as) = A
  <2>1. PICK as \in Seq(Artifact) : as = Artifacts(roles) /\ ToSet(as) = A
    BY ArtifactsAre
  <2>2. as \in Seq(Role \cup Artifact)
    <3>1. /\ Len(as) \in Nat /\ as = [i \in 1..Len(as) |-> as[i]]
          /\ \A i \in 1..Len(as) : as[i] \in Role \cup Artifact
      BY <2>1
    <3>. QED
      BY <3>1, FunctionIsSeq
  <2>. QED
    BY <2>1, <2>2
<1>3. /\ IsPlan(Steps("query", roles), ForEach("query", R))
      /\ IsPlan(Steps("capture", as), ForEach("capture", A))
      /\ IsPlan(Steps("publish", as), ForEach("publish", A))
  <2>1. "query" \in Op /\ "capture" \in Op /\ "publish" \in Op
    BY DEF Op
  <2>2. IsPlan(Steps("query", roles), ForEach("query", R))
    BY <1>1, <2>1, PlanSteps
  <2>3. IsPlan(Steps("capture", as), ForEach("capture", A))
    BY <1>2, <2>1, PlanSteps
  <2>4. IsPlan(Steps("publish", as), ForEach("publish", A))
    BY <1>2, <2>1, PlanSteps
  <2>. QED
    BY <2>2, <2>3, <2>4
<1>. HIDE DEF A, R
<1>. DEFINE settle == Step("account", "le0x")
            gpu == Step("gpu", "le0x")
            reload == Step("reload", "systemd")
            queries == ForEach("query", R)
            captures == ForEach("capture", A)
            publishes == ForEach("publish", A)
            services == (IF enable THEN ForEach("enable", R) ELSE {}) \cup
                        (IF begin THEN ForEach("start", R) ELSE {})
            sys == <<reload>>
            ends == EnableAndStart(roles, enable, begin)
            asked == Steps("query", roles)
            kept == Steps("capture", as)
            put == Steps("publish", as)
<1>4. settle \in PlanStep /\ gpu \in PlanStep /\ reload \in PlanStep
  <2>1. "account" \in Op /\ "gpu" \in Op /\ "reload" \in Op
    BY DEF Op
  <2>2. settle \in PlanStep
    BY <2>1, StepIs
  <2>3. gpu \in PlanStep
    BY <2>1, StepIs
  <2>4. reload \in PlanStep
    BY <2>1, StepIs
  <2>. QED
    BY <2>2, <2>3, <2>4
<1>5. IsPlan(asked, queries) /\ IsPlan(kept, captures) /\ IsPlan(put, publishes)
  BY <1>3
<1>6. IsPlan(ends, services)
  BY EnableAndStartIs DEF R
<1>7. /\ Rank(settle) = 0 /\ Rank(gpu) = 0 /\ Rank(reload) = 2
      /\ \A x \in queries \cup captures : Rank(x) = 0
      /\ \A x \in publishes : Rank(x) = 1
      /\ \A x \in services : Rank(x) = 3
  BY DEF Rank, Step, ForEach
<1>8. InstallPlan(roles, enable, begin)
         = (<<settle>> \o (IF "agent" \in R THEN <<gpu>> ELSE <<>>))
           \o (IF enable THEN asked ELSE <<>>)
           \o (kept \o put) \o sys \o ends
  BY <1>2 DEF InstallPlan, Prerequisites, Publication, R
<1>9. InstallSteps(R, enable, begin)
         = ({settle} \cup (IF "agent" \in R THEN {gpu} ELSE {}))
           \cup (IF enable THEN queries ELSE {})
           \cup (captures \cup publishes) \cup {reload} \cup services
  BY DEF InstallSteps, A
<1>10. IsPlan(sys, {reload})
  <2>. HIDE DEF reload
  <2>. QED
    BY <1>4, PlanOne
<1>. HIDE DEF settle, gpu, reload, queries, captures, publishes, services,
              sys, ends, asked, kept, put
<1>11. IsPlan(<<settle>>, {settle}) /\ IsPlan(<<gpu>>, {gpu})
  BY <1>4, PlanOne
<1>. DEFINE p1 == <<settle>> \o (IF "agent" \in R THEN <<gpu>> ELSE <<>>)
            S1 == {settle} \cup (IF "agent" \in R THEN {gpu} ELSE {})
            p2 == IF enable THEN asked ELSE <<>>
            S2 == IF enable THEN queries ELSE {}
            p3 == kept \o put
            S3 == captures \cup publishes
<1>12. IsPlan(p1, S1)
  <2>1. CASE "agent" \in R
    <3>1. p1 = <<settle>> \o <<gpu>> /\ S1 = {settle} \cup {gpu}
      BY <2>1
    <3>2. \A x \in {settle}, y \in {gpu} : Rank(x) <= Rank(y)
      BY <1>7
    <3>3. IsPlan(<<settle>> \o <<gpu>>, {settle} \cup {gpu})
      BY <1>11, <3>2, PlanConcat
    <3>. QED
      BY <3>1, <3>3
  <2>2. CASE "agent" \notin R
    <3>1. p1 = <<settle>> \o <<>> /\ S1 = {settle}
      BY <2>2
    <3>2. <<settle>> \o <<>> = <<settle>>
      <4>1. <<settle>> \in Seq(PlanStep)
        BY <1>4
      <4>. QED
        BY <4>1
    <3>. QED
      BY <1>11, <3>1, <3>2
  <2>. QED
    BY <2>1, <2>2
<1>13. IsPlan(p2, S2)
  BY <1>5, PlanIf
<1>14. IsPlan(p3, S3)
  <2>1. \A x \in captures, y \in publishes : Rank(x) <= Rank(y)
    BY <1>7
  <2>. QED
    BY <1>5, <2>1, PlanConcat
<1>15. /\ \A x \in S1 \cup S2 : Rank(x) = 0
       /\ \A x \in S3 : Rank(x) \in {0, 1}
  BY <1>7
<1>16. /\ InstallPlan(roles, enable, begin) = p1 \o p2 \o p3 \o sys \o ends
       /\ InstallSteps(R, enable, begin) = S1 \cup S2 \cup S3 \cup {reload} \cup services
  BY <1>8, <1>9
<1>. HIDE DEF p1, p2, p3, S1, S2, S3
<1>17. IsPlan(p1 \o p2, S1 \cup S2)
  <2>1. \A x \in S1, y \in S2 : Rank(x) <= Rank(y)
    BY <1>15
  <2>. QED
    BY <1>12, <1>13, <2>1, PlanConcat
<1>18. IsPlan(p1 \o p2 \o p3, S1 \cup S2 \cup S3)
  <2>1. \A x \in S1 \cup S2, y \in S3 : Rank(x) <= Rank(y)
    BY <1>15
  <2>. QED
    BY <1>14, <1>17, <2>1, PlanConcat
<1>19. IsPlan(p1 \o p2 \o p3 \o sys, S1 \cup S2 \cup S3 \cup {reload})
  <2>1. \A x \in S1 \cup S2 \cup S3, y \in {reload} : Rank(x) <= Rank(y)
    BY <1>7, <1>15
  <2>. QED
    BY <1>10, <1>18, <2>1, PlanConcat
<1>20. IsPlan(p1 \o p2 \o p3 \o sys \o ends, S1 \cup S2 \cup S3 \cup {reload} \cup services)
  <2>1. \A x \in S1 \cup S2 \cup S3 \cup {reload}, y \in services : Rank(x) <= Rank(y)
    BY <1>7, <1>15
  <2>. QED
    BY <1>6, <1>19, <2>1, PlanConcat
<1>. QED
  BY <1>16, <1>20 DEF R

\* What comes right before what, in an Uninstall.
After(x, y) ==
    /\ y.op = "stop" => x = Step("inspect", y.arg)
    /\ y.op = "reset-failed" => x = Step("stop", y.arg)
    /\ y.op = "disable" => x = Step("reset-failed", y.arg)
    /\ y.op = "remove" => \/ x.op = "disable" /\ x.arg = y.arg[1]
                          \/ x.op = "remove" /\ x.arg[1] = y.arg[1]
Follows(s) == \A i \in 1..(Len(s) - 1) : After(s[i], s[i + 1])

Infrastructure(R) == R \X {"unit", "binary"}
UninstallSteps(R) ==
    ForEach("inspect", R) \cup ForEach("stop", R) \cup ForEach("reset-failed", R)
    \cup ForEach("disable", R) \cup ForEach("remove", Infrastructure(R))
    \cup {Step("reload", "systemd")} \cup ForEach("verify", R)

\* What is left follows as well.
LEMMA FollowsTail ==
    ASSUME NEW s \in Seq(PlanStep), s # <<>>, Follows(s)
    PROVE  Follows(Tail(s)) /\ (Tail(s) # <<>> => After(Head(s), Head(Tail(s))))
<1>. DEFINE t == Tail(s)
<1>1. /\ Len(s) \in Nat \ {0} /\ Head(s) = s[1] /\ t \in Seq(PlanStep) /\ Len(t) = Len(s) - 1
      /\ \A i \in 1..(Len(s) - 1) : t[i] = s[i + 1]
  OBVIOUS
<1>. HIDE DEF t
<1>4. t # <<>> => Len(t) # 0 /\ Head(t) = t[1]
  BY <1>1
<1>2. ASSUME NEW i \in 1..(Len(t) - 1) PROVE After(t[i], t[i + 1])
  <2>1. PICK j \in 1..(Len(s) - 1) : j = i + 1
    BY <1>1
  <2>2. t[i] = s[j] /\ t[j] = s[j + 1]
    BY <1>1, <2>1
  <2>. QED
    BY <2>1, <2>2 DEF Follows
<1>3. ASSUME t # <<>> PROVE After(s[1], t[1])
  <2>1. 1 \in 1..(Len(s) - 1)
    BY <1>1, <1>3, <1>4
  <2>2. t[1] = s[2] /\ 1 + 1 = 2
    BY <1>1, <2>1
  <2>. QED
    BY <2>1, <2>2 DEF Follows
<1>. QED
  BY <1>1, <1>2, <1>3, <1>4 DEF Follows, t

\* An Uninstall, in its order.
LEMMA UninstallPlanIs ==
    ASSUME NEW roles \in Seq(Role)
    PROVE  /\ IsPlan(UninstallPlan(roles), UninstallSteps(ToSet(roles)))
           /\ Follows(UninstallPlan(roles))
           /\ UninstallPlan(roles)[1].op \in {"inspect", "reload"}
<1>. DEFINE ss == [i \in DOMAIN roles |->
                     <<Step("inspect", roles[i]), Step("stop", roles[i]),
                       Step("reset-failed", roles[i]), Step("disable", roles[i]),
                       Step("remove", <<roles[i], "unit">>),
                       Step("remove", <<roles[i], "binary">>)>>]
            f == FlattenSeq(ss)
            R == ToSet(roles)
            S == ForEach("inspect", R) \cup ForEach("stop", R) \cup ForEach("reset-failed", R)
                 \cup ForEach("disable", R) \cup ForEach("remove", Infrastructure(R))
<1>1. PICK n \in Nat : n = Len(roles) /\ DOMAIN roles = 1..n /\ \A i \in 1..n : roles[i] \in Role
  OBVIOUS
<1>2. ASSUME NEW i \in 1..n
      PROVE  /\ ss[i] \in Seq(PlanStep) /\ Len(ss[i]) = 6
             /\ ss[i][1] = Step("inspect", roles[i]) /\ ss[i][2] = Step("stop", roles[i])
             /\ ss[i][3] = Step("reset-failed", roles[i]) /\ ss[i][4] = Step("disable", roles[i])
             /\ ss[i][5] = Step("remove", <<roles[i], "unit">>)
             /\ ss[i][6] = Step("remove", <<roles[i], "binary">>)
  <2>1. /\ roles[i] \in Role \cup Artifact \cup {"le0x", "systemd"}
        /\ <<roles[i], "unit">> \in Role \cup Artifact \cup {"le0x", "systemd"}
        /\ <<roles[i], "binary">> \in Role \cup Artifact \cup {"le0x", "systemd"}
    BY <1>1 DEF Artifact
  <2>2. {"inspect", "stop", "reset-failed", "disable", "remove"} \subseteq Op
    BY DEF Op
  <2>3. Step("inspect", roles[i]) \in PlanStep
    BY <2>1, <2>2, StepIs
  <2>4. Step("stop", roles[i]) \in PlanStep
    BY <2>1, <2>2, StepIs
  <2>5. Step("reset-failed", roles[i]) \in PlanStep
    BY <2>1, <2>2, StepIs
  <2>6. Step("disable", roles[i]) \in PlanStep
    BY <2>1, <2>2, StepIs
  <2>7. Step("remove", <<roles[i], "unit">>) \in PlanStep
    BY <2>1, <2>2, StepIs
  <2>8. Step("remove", <<roles[i], "binary">>) \in PlanStep
    BY <2>1, <2>2, StepIs
  <2>9. ss[i] = <<Step("inspect", roles[i]), Step("stop", roles[i]),
                  Step("reset-failed", roles[i]), Step("disable", roles[i]),
                  Step("remove", <<roles[i], "unit">>), Step("remove", <<roles[i], "binary">>)>>
    BY <1>1
  <2>. HIDE DEF ss
  <2>. QED
    BY <2>3, <2>4, <2>5, <2>6, <2>7, <2>8, <2>9
<1>3. ss = [i \in 1..n |-> ss[i]]
  BY <1>1
<1>. HIDE DEF ss
<1>0. \A i \in 1..n : ss[i] \in Seq(PlanStep) /\ Len(ss[i]) = 6 /\ DOMAIN ss[i] = 1..6
  <2>. TAKE i \in 1..n
  <2>1. PICK s \in Seq(PlanStep) : s = ss[i] /\ Len(s) = 6
    BY <1>2
  <2>2. DOMAIN s = 1..6
    BY <2>1
  <2>. QED
    BY <2>1, <2>2
<1>4. ss \in Seq(Seq(PlanStep)) /\ Len(ss) = n
  BY <1>3, <1>0, FunctionIsSeq
<1>5. /\ f \in Seq(PlanStep) /\ MadeOf(f, ss, n)
      /\ \A x : x \in ToSet(f) <=> \E i \in 1..n : x \in ToSet(ss[i])
  BY <1>4, FlattenContains, FlattenSeqIs
<1>. HIDE DEF f
<1>6. \A r : r \in R <=> \E i \in 1..n : r = roles[i]
  BY <1>1 DEF ToSet
<1>7. ASSUME NEW i \in 1..n
      PROVE  \A x : x \in ToSet(ss[i]) <=>
                \/ x = Step("inspect", roles[i]) \/ x = Step("stop", roles[i])
                \/ x = Step("reset-failed", roles[i]) \/ x = Step("disable", roles[i])
                \/ x = Step("remove", <<roles[i], "unit">>)
                \/ x = Step("remove", <<roles[i], "binary">>)
  <2>1. DOMAIN ss[i] = 1..6
    BY <1>0
  <2>2. \A x : x \in ToSet(ss[i]) <=> \E k \in 1..6 : x = ss[i][k]
    BY <2>1 DEF ToSet
  <2>3. \A k : k \in 1..6 <=> k = 1 \/ k = 2 \/ k = 3 \/ k = 4 \/ k = 5 \/ k = 6
    OBVIOUS
  <2>4. \A x : x \in ToSet(ss[i]) <=>
                \/ x = ss[i][1] \/ x = ss[i][2] \/ x = ss[i][3]
                \/ x = ss[i][4] \/ x = ss[i][5] \/ x = ss[i][6]
    BY <2>2, <2>3
  <2>5. /\ ss[i][1] = Step("inspect", roles[i]) /\ ss[i][2] = Step("stop", roles[i])
        /\ ss[i][3] = Step("reset-failed", roles[i]) /\ ss[i][4] = Step("disable", roles[i])
        /\ ss[i][5] = Step("remove", <<roles[i], "unit">>)
        /\ ss[i][6] = Step("remove", <<roles[i], "binary">>)
    BY <1>2
  <2>. QED
    BY <2>4, <2>5
<1>8. ASSUME NEW x PROVE x \in ToSet(f) <=> x \in S
  <2>1. x \in S <=> \E r \in R :
                \/ x = Step("inspect", r) \/ x = Step("stop", r)
                \/ x = Step("reset-failed", r) \/ x = Step("disable", r)
                \/ x = Step("remove", <<r, "unit">>) \/ x = Step("remove", <<r, "binary">>)
    <3>1. x \in ForEach("remove", Infrastructure(R)) <=>
             \E r \in R : x = Step("remove", <<r, "unit">>) \/ x = Step("remove", <<r, "binary">>)
      <4>1. \A a : a \in Infrastructure(R) <=>
                     \E r \in R : a = <<r, "unit">> \/ a = <<r, "binary">>
        BY DEF Infrastructure
      <4>. QED
        BY <4>1 DEF ForEach
    <3>2. x \in ForEach("inspect", R) <=> \E r \in R : x = Step("inspect", r)
      BY DEF ForEach
    <3>3. x \in ForEach("stop", R) <=> \E r \in R : x = Step("stop", r)
      BY DEF ForEach
    <3>4. x \in ForEach("reset-failed", R) <=> \E r \in R : x = Step("reset-failed", r)
      BY DEF ForEach
    <3>5. x \in ForEach("disable", R) <=> \E r \in R : x = Step("disable", r)
      BY DEF ForEach
    <3>. QED
      BY <3>1, <3>2, <3>3, <3>4, <3>5
  <2>2. x \in S <=> \E i \in 1..n : x \in ToSet(ss[i])
    <3>1. \A i \in 1..n : x \in ToSet(ss[i]) <=>
                \/ x = Step("inspect", roles[i]) \/ x = Step("stop", roles[i])
                \/ x = Step("reset-failed", roles[i]) \/ x = Step("disable", roles[i])
                \/ x = Step("remove", <<roles[i], "unit">>)
                \/ x = Step("remove", <<roles[i], "binary">>)
      BY <1>7
    <3>. HIDE DEF S
    <3>. QED
      BY <1>6, <2>1, <3>1
  <2>. QED
    BY <1>5, <2>2
<1>9. \A x \in S : Rank(x) = 0
  BY DEF Rank, Step, ForEach
<1>10. IsPlan(f, S)
  <2>. HIDE DEF S
  <2>1. ToSet(f) = S
    BY <1>8
  <2>. QED
    BY <1>5, <1>9, <2>1, PlanOfRank
<1>11. ASSUME NEW p \in 1..(Len(f) - 1) PROVE After(f[p], f[p + 1])
  <2>1. PICK q \in 1..Len(f) : q = p + 1
    BY <1>5
  <2>2. PICK i \in 1..n, b \in Nat : Occurs(f, ss[i], b) /\ q \in (b + 1)..(b + Len(ss[i]))
    BY <1>5 DEF MadeOf
  <2>3. PICK k \in 1..6 : q = b + k
    <3>1. q - b \in 1..6 /\ q = b + (q - b)
      <4>1. Len(ss[i]) = 6
        BY <1>0
      <4>. QED
        BY <2>2, <4>1
    <3>. QED
      BY <3>1
  <2>4. f[q] = ss[i][k] /\ Len(ss[i]) = 6
    BY <1>0, <2>2, <2>3 DEF Occurs
  <2>5. CASE k = 1
    <3>1. f[q].op = "inspect"
      <4>1. ss[i][1] = Step("inspect", roles[i])
        BY <1>2
      <4>2. f[q] = Step("inspect", roles[i])
        BY <2>4, <2>5, <4>1
      <4>. QED
        BY <4>2 DEF Step
    <3>. QED
      BY <2>1, <3>1 DEF After
  <2>6. CASE k # 1
    <3>1. PICK j \in 1..5 : k = j + 1 /\ p = b + j
      <4>1. k - 1 \in 1..5 /\ k = k - 1 + 1 /\ p = b + (k - 1)
        BY <2>1, <2>3, <2>6
      <4>. QED
        BY <4>1
    <3>2. f[p] = ss[i][j]
      <4>1. j \in 1..Len(ss[i])
        BY <2>4
      <4>. QED
        BY <2>2, <3>1, <4>1 DEF Occurs
    <3>3. j = 1 \/ j = 2 \/ j = 3 \/ j = 4 \/ j = 5
      OBVIOUS
    <3>4. \/ ss[i][j] = Step("inspect", roles[i]) /\ ss[i][k] = Step("stop", roles[i])
          \/ ss[i][j] = Step("stop", roles[i]) /\ ss[i][k] = Step("reset-failed", roles[i])
          \/ ss[i][j] = Step("reset-failed", roles[i]) /\ ss[i][k] = Step("disable", roles[i])
          \/ ss[i][j] = Step("disable", roles[i]) /\ ss[i][k] = Step("remove", <<roles[i], "unit">>)
          \/ /\ ss[i][j] = Step("remove", <<roles[i], "unit">>)
             /\ ss[i][k] = Step("remove", <<roles[i], "binary">>)
      BY <1>2, <3>1, <3>3, SMTT(30)
    <3>5. After(ss[i][j], ss[i][k])
      BY <3>4 DEF After, Step
    <3>. QED
      BY <2>1, <2>4, <3>2, <3>5
  <2>. QED
    BY <2>5, <2>6
<1>12. Follows(f)
  BY <1>11 DEF Follows
<1>. DEFINE reload == Step("reload", "systemd")
            seen == Steps("verify", roles)
            V == ForEach("verify", R)
<1>13. IsPlan(<<reload>>, {reload}) /\ Rank(reload) = 2 /\ reload.op = "reload"
  <2>1. "reload" \in Op
    BY DEF Op
  <2>2. reload \in PlanStep
    BY <2>1, StepIs
  <2>3. Rank(reload) = 2 /\ reload.op = "reload"
    BY DEF Rank, Step
  <2>. HIDE DEF reload
  <2>. QED
    BY <2>2, <2>3, PlanOne
<1>14. IsPlan(seen, V) /\ \A x \in V : Rank(x) = 3 /\ x.op = "verify"
  <2>1. "verify" \in Op
    BY DEF Op
  <2>2. roles \in Seq(Role \cup Artifact)
    OBVIOUS
  <2>3. IsPlan(seen, V)
    BY <2>1, <2>2, PlanSteps
  <2>4. \A x \in V : Rank(x) = 3 /\ x.op = "verify"
    BY DEF Rank, Step, ForEach
  <2>. QED
    BY <2>3, <2>4
<1>. HIDE DEF S, V, reload, seen
<1>15. IsPlan(f \o <<reload>>, S \cup {reload})
  <2>1. \A x \in S, y \in {reload} : Rank(x) <= Rank(y)
    BY <1>9, <1>13
  <2>. QED
    BY <1>10, <1>13, <2>1, PlanConcat
<1>16. IsPlan(f \o <<reload>> \o seen, S \cup {reload} \cup V)
  <2>1. \A x \in S \cup {reload}, y \in V : Rank(x) <= Rank(y)
    BY <1>9, <1>13, <1>14
  <2>. QED
    BY <1>14, <1>15, <2>1, PlanConcat
<1>17. /\ Follows(f \o <<reload>> \o seen)
       /\ (f \o <<reload>> \o seen)[1].op \in {"inspect", "reload"}
  <2>. DEFINE g == f \o <<reload>> \o seen
  <2>1. /\ Len(g) = Len(f) + 1 + Len(seen) /\ Len(f) \in Nat /\ Len(seen) \in Nat
        /\ \A i \in 1..Len(f) : g[i] = f[i]
        /\ g[Len(f) + 1] = reload
        /\ \A i \in 1..Len(seen) : g[Len(f) + 1 + i] = seen[i]
    <3>1. f \in Seq(PlanStep) /\ seen \in Seq(PlanStep) /\ reload \in PlanStep
      BY <1>5, <1>13, <1>14 DEF IsPlan, ToSet
    <3>. QED
      BY <3>1
  <2>. HIDE DEF g
  <2>2. \A i \in 1..Len(seen) : seen[i].op = "verify"
    BY <1>14 DEF IsPlan, ToSet
  <2>3. ASSUME NEW p \in 1..(Len(g) - 1) PROVE After(g[p], g[p + 1])
    <3>1. CASE p + 1 <= Len(f)
      <4>1. p \in 1..(Len(f) - 1) /\ g[p] = f[p] /\ g[p + 1] = f[p + 1]
        BY <2>1, <3>1
      <4>. QED
        BY <1>11, <4>1
    <3>2. CASE p = Len(f)
      BY <1>13, <2>1, <3>2 DEF After
    <3>3. CASE p > Len(f)
      <4>1. PICK i \in 1..Len(seen) : p + 1 = Len(f) + 1 + i
        <5>1. p - Len(f) \in 1..Len(seen) /\ p + 1 = Len(f) + 1 + (p - Len(f))
          BY <2>1, <3>3
        <5>. QED
          BY <5>1
      <4>2. g[p + 1].op = "verify"
        BY <2>1, <2>2, <4>1
      <4>. QED
        BY <4>2 DEF After
    <3>. QED
      BY <2>1, <3>1, <3>2, <3>3
  <2>4. Follows(g)
    BY <2>3 DEF Follows
  <2>5. CASE Len(f) = 0
    BY <1>13, <2>1, <2>4, <2>5 DEF g
  <2>6. CASE Len(f) # 0
    <3>1. PICK i \in 1..n, b \in Nat : Occurs(f, ss[i], b) /\ 1 \in (b + 1)..(b + Len(ss[i]))
      BY <2>1, <2>6, <1>5 DEF MadeOf
    <3>2. b = 0 /\ 1 \in 1..Len(ss[i])
      BY <3>1, <1>0
    <3>3. f[1] = ss[i][1]
      BY <3>1, <3>2 DEF Occurs
    <3>4. f[1].op = "inspect"
      <4>1. ss[i][1] = Step("inspect", roles[i])
        BY <1>2
      <4>. QED
        BY <3>3, <4>1 DEF Step
    <3>5. g[1] = f[1]
      BY <2>1, <2>6
    <3>. QED
      BY <2>4, <3>4, <3>5 DEF g
  <2>. QED
    BY <2>5, <2>6
<1>18. UninstallPlan(roles) = f \o <<reload>> \o seen
  BY DEF UninstallPlan, f, ss, reload, seen
<1>19. UninstallSteps(ToSet(roles)) = S \cup {reload} \cup V
  BY DEF UninstallSteps, S, V, reload
<1>. QED
  BY <1>16, <1>17, <1>18, <1>19

\* A rollback's loop, from the last to the first, over those that it concerns.
LEMMA LoopIs ==
    ASSUME NEW op \in Op, NEW s \in Seq(Role \cup Artifact), NEW S, S \subseteq ToSet(s)
    PROVE  IsPlan(Steps(op, Those(Reverse(s), S)), ForEach(op, S))
<1>1. Reverse(s) \in Seq(Role \cup Artifact) /\ ToSet(Reverse(s)) = ToSet(s)
  BY ReverseIs
<1>2. /\ Those(Reverse(s), S) \in Seq(Role \cup Artifact)
      /\ ToSet(Those(Reverse(s), S)) = ToSet(Reverse(s)) \cap S
  BY <1>1, ThoseIs
<1>3. ToSet(Those(Reverse(s), S)) = S
  BY <1>1, <1>2
<1>. QED
  BY <1>2, <1>3, PlanSteps

(***************************************************************************)
(* The invariant: types, and what the steps still to do are.               *)
(***************************************************************************)

OwnArtifacts(t) == ToSet(t.roles) \X {"binary", "unit", "config"}

\* The step x belongs to phase p of the transaction t.
Fits(p, t, x) ==
    \/ /\ p = "install"
       /\ \/ x.op \in {"account", "gpu", "reload"}
          \/ x.op \in {"query", "enable", "start"} /\ x.arg \in ToSet(t.roles)
          \/ x.op \in {"capture", "publish"} /\ x.arg \in OwnArtifacts(t)
    \/ p = "stopping" /\ x.op = "stop" /\ x.arg \in t.startTried /\ ~t.before[x.arg].active
    \/ p = "restoring" /\ x.op = "restore" /\ x.arg \in t.published
    \/ p = "enablement" /\ x.op = "enablement" /\ x.arg \in t.enableTried
    \/ p = "activity" /\ x.op = "activity" /\ x.arg \in t.startTried
    \/ /\ p = "uninstall"
       /\ \/ x.op = "reload"
          \/ /\ x.op \in {"inspect", "stop", "reset-failed", "disable", "verify"}
             /\ x.arg \in ToSet(t.roles)
          \/ x.op = "remove" /\ x.arg \in Infrastructure(ToSet(t.roles))

\* t has the fields of a transaction.
IsRecord(t) ==
    t = [roles |-> t.roles, enable |-> t.enable, begin |-> t.begin,
         before |-> t.before, original |-> t.original,
         published |-> t.published, failed |-> t.failed,
         enableTried |-> t.enableTried, startTried |-> t.startTried,
         withheld |-> t.withheld, incomplete |-> t.incomplete, reloadOK |-> t.reloadOK,
         view |-> t.view]

HostIn ==
    /\ file \in [Artifact -> Content] /\ settled \in [Artifact -> Content]
    /\ start \in [Artifact -> Content]
    /\ copies \subseteq (1..MaxRun) \X Artifact \X (Content \ {Absent})
    /\ svc \in [Role -> Service]
    /\ account = [exists |-> account.exists, groups |-> account.groups]
    /\ account.exists \in BOOLEAN /\ account.groups \subseteq {d.group : d \in Devices}
    /\ run \in 0..MaxRun /\ faults \in 0..MaxFaults /\ phase \in Phase

TransactionIn(t) ==
    /\ IsRecord(t)
    /\ t.roles \in Seq(Role) /\ t.enable \in BOOLEAN /\ t.begin \in BOOLEAN
    /\ DOMAIN t.before \subseteq ToSet(t.roles)
    /\ \A r \in DOMAIN t.before : t.before[r] \in Service
    /\ DOMAIN t.original \subseteq OwnArtifacts(t)
    /\ \A a \in DOMAIN t.original : t.original[a] \in Content
    /\ t.published \subseteq DOMAIN t.original /\ t.failed \subseteq t.published
    /\ t.enableTried \subseteq DOMAIN t.before /\ t.startTried \subseteq DOMAIN t.before
    /\ t.withheld \in BOOLEAN /\ t.incomplete \in BOOLEAN /\ t.reloadOK \in BOOLEAN

TodoIn ==
    /\ todo \in Seq(PlanStep) /\ Ranked(todo)
    /\ \A x \in ToSet(todo) : Fits(phase, txn, x)
    /\ phase = "idle" => todo = <<>>
    /\ phase # "idle" => run # 0
    /\ phase = "install" => (txn.begin => txn.enable)

Pending(op, arg) == Step(op, arg) \in ToSet(todo)

\* What an Install does when it is the turn of the services it has asked about and
\* of the artifacts it has captured.
Foreseen ==
    phase = "install" =>
        /\ \A r \in ToSet(txn.roles) :
              Pending("enable", r) \/ Pending("start", r) =>
                  r \in DOMAIN txn.before \/ Pending("query", r)
        /\ \A a \in OwnArtifacts(txn) :
              Pending("publish", a) => a \in DOMAIN txn.original \/ Pending("capture", a)

TypeInv == HostIn /\ TransactionIn(txn) /\ TodoIn /\ Foreseen

InTransaction == phase \notin {"idle", "uninstall"}

\* Nothing is changed before everything is captured.
Untouched ==
    phase = "install" /\ (\E x \in ToSet(todo) : Rank(x) = 0) =>
        /\ file = start /\ txn.published = {}
        /\ txn.enableTried = {} /\ txn.startTried = {}

\* What a transaction has captured and what it has changed.
Captured ==
    InTransaction =>
        /\ \A a \in DOMAIN txn.original :
              /\ txn.original[a] = start[a]
              /\ start[a] = Absent \/ <<run, a, start[a]>> \in copies
        /\ \A a \in Artifact :
              \/ file[a] = start[a]
              \/ /\ a \in DOMAIN txn.original
                 /\ \/ a \in txn.published
                    \/ start[a] = Absent /\ a[2] = "config" /\ file[a] = Default

\* What this invocation found is not older than what is settled, or is copied.
Base ==
    IF InTransaction
    THEN \A a \in Artifact :
            \/ settled[a] \in {Absent, start[a]}
            \/ \E n \in 1..(run - 1) : <<n, a, settled[a]>> \in copies
    ELSE OriginalsSurvive

NoLaterCopy == \A c \in copies : c[1] <= run

Restored ==
    /\ phase \in {"restoring", "enablement", "activity"} =>
          \/ txn.withheld
          \/ \A a \in txn.published :
                file[a] = start[a] \/ a \in txn.failed \/ Pending("restore", a)
    /\ phase = "activity" => AllRestored
    /\ phase = "install" => ~txn.withheld /\ txn.failed = {} /\ txn.reloadOK /\ ~txn.incomplete

OriginalsInv == Untouched /\ Captured /\ Base /\ NoLaterCopy /\ Restored

\* A service the transaction started stays as it is until it has been stopped.
StoppedFirst ==
    /\ phase = "stopping" =>
          \/ txn.withheld
          \/ \A r \in txn.startTried :
                txn.before[r].active \/ ~svc[r].active \/ Pending("stop", r)
    /\ phase = "restoring" =>
          /\ ~txn.withheld
          /\ \A r \in txn.startTried : txn.before[r].active \/ ~svc[r].active

\* What was read of r last is what systemd says, failures apart.
Viewed(r) ==
    /\ txn.view \in Service /\ txn.view.enabled = svc[r].enabled
    /\ svc[r].active => txn.view.active

\* Each service is at rest when its unit and its binary are next to go.
AtRest ==
    phase = "uninstall" =>
        /\ Follows(todo)
        /\ todo # <<>> =>
              /\ Head(todo).op \in {"stop", "reset-failed", "disable"} => Viewed(Arg)
              /\ Head(todo).op = "remove" => ~svc[Arg[1]].active /\ ~svc[Arg[1]].enabled

Gone == [enabled |-> FALSE, active |-> FALSE, failed |-> FALSE, loaded |-> Absent]

\* What an Uninstall has done so far stays done.
Removed ==
    phase = "uninstall" =>
        /\ \A a \in Infrastructure(ToSet(txn.roles)) : file[a] = Absent \/ Pending("remove", a)
        /\ \A r \in ToSet(txn.roles) :
              \/ Pending("verify", r)
              \/ svc[r] = Gone /\ \A x \in ToSet(todo) : x.op = "verify"

RestInv == StoppedFirst /\ AtRest /\ Removed

\* What an Install has done so far stays done.
Current ==
    phase = "install" =>
        /\ \A r \in ToSet(txn.roles) :
              /\ file[<<r, "binary">>] = Version \/ Pending("publish", <<r, "binary">>)
              /\ file[<<r, "unit">>] = Version \/ Pending("publish", <<r, "unit">>)
              /\ file[<<r, "config">>] # Absent \/ Pending("publish", <<r, "config">>)
              /\ svc[r].loaded = Version \/ \E x \in ToSet(todo) : x.op = "reload"
              /\ txn.enable => svc[r].enabled \/ Pending("enable", r)
              /\ txn.begin => svc[r].active \/ svc[r].failed \/ Pending("start", r)
        /\ "agent" \in ToSet(txn.roles) =>
              (\A d \in Devices : Reaches(account.groups, d)) \/ Pending("gpu", "le0x")

\* A service that runs has its unit, and had it before the transaction unless the
\* transaction has started it.
UnitsOfRunning == \A r \in Role : svc[r].active => Unit(file, r) # Absent
StartedHere(r) == r \in txn.startTried /\ ~txn.before[r].active
RunsItsUnit ==
    /\ UnitsOfRunning
    /\ InTransaction =>
          /\ \A r \in Role : svc[r].active => Unit(start, r) # Absent \/ StartedHere(r)
          /\ \A r \in DOMAIN txn.before : txn.before[r].active => Unit(start, r) # Absent

\* The services, and how far they are from what was found.
Given ==
    InTransaction =>
        /\ \A r \in DOMAIN txn.before :
              /\ \/ svc[r].enabled = txn.before[r].enabled
                 \/ /\ r \in txn.enableTried
                    /\ \/ phase \in {"install", "stopping", "restoring"}
                       \/ phase = "enablement" /\ Pending("enablement", r)
                       \/ txn.incomplete
              /\ txn.before[r].active => svc[r].active \/ svc[r].failed
              /\ ~txn.before[r].active =>
                    \/ ~svc[r].active
                    \/ /\ r \in txn.startTried
                       /\ phase # "activity" \/ Pending("activity", r) \/ txn.incomplete
        /\ phase \in {"enablement", "activity"} /\ AllRestored /\ txn.published # {} =>
              \A r \in ToSet(txn.roles) : svc[r].loaded \in {Absent, Unit(file, r)}

ExactInv == RunsItsUnit /\ Given

\* A transaction a field of which is written.
LEMMA TxnWith ==
    ASSUME NEW t, IsRecord(t), NEW v
    PROVE  /\ [t EXCEPT !.before = v] = [roles |-> t.roles, enable |-> t.enable, begin |-> t.begin,
                before |-> v, original |-> t.original,
                published |-> t.published, failed |-> t.failed,
                enableTried |-> t.enableTried, startTried |-> t.startTried,
                withheld |-> t.withheld, incomplete |-> t.incomplete,
                reloadOK |-> t.reloadOK, view |-> t.view]
           /\ [t EXCEPT !.original = v] = [roles |-> t.roles, enable |-> t.enable, begin |-> t.begin,
                before |-> t.before, original |-> v,
                published |-> t.published, failed |-> t.failed,
                enableTried |-> t.enableTried, startTried |-> t.startTried,
                withheld |-> t.withheld, incomplete |-> t.incomplete,
                reloadOK |-> t.reloadOK, view |-> t.view]
           /\ [t EXCEPT !.published = v] = [roles |-> t.roles, enable |-> t.enable, begin |-> t.begin,
                before |-> t.before, original |-> t.original,
                published |-> v, failed |-> t.failed,
                enableTried |-> t.enableTried, startTried |-> t.startTried,
                withheld |-> t.withheld, incomplete |-> t.incomplete,
                reloadOK |-> t.reloadOK, view |-> t.view]
           /\ [t EXCEPT !.failed = v] = [roles |-> t.roles, enable |-> t.enable, begin |-> t.begin,
                before |-> t.before, original |-> t.original,
                published |-> t.published, failed |-> v,
                enableTried |-> t.enableTried, startTried |-> t.startTried,
                withheld |-> t.withheld, incomplete |-> t.incomplete,
                reloadOK |-> t.reloadOK, view |-> t.view]
           /\ [t EXCEPT !.enableTried = v] = [roles |-> t.roles, enable |-> t.enable, begin |-> t.begin,
                before |-> t.before, original |-> t.original,
                published |-> t.published, failed |-> t.failed,
                enableTried |-> v, startTried |-> t.startTried,
                withheld |-> t.withheld, incomplete |-> t.incomplete,
                reloadOK |-> t.reloadOK, view |-> t.view]
           /\ [t EXCEPT !.startTried = v] = [roles |-> t.roles, enable |-> t.enable, begin |-> t.begin,
                before |-> t.before, original |-> t.original,
                published |-> t.published, failed |-> t.failed,
                enableTried |-> t.enableTried, startTried |-> v,
                withheld |-> t.withheld, incomplete |-> t.incomplete,
                reloadOK |-> t.reloadOK, view |-> t.view]
           /\ [t EXCEPT !.withheld = v] = [roles |-> t.roles, enable |-> t.enable, begin |-> t.begin,
                before |-> t.before, original |-> t.original,
                published |-> t.published, failed |-> t.failed,
                enableTried |-> t.enableTried, startTried |-> t.startTried,
                withheld |-> v, incomplete |-> t.incomplete,
                reloadOK |-> t.reloadOK, view |-> t.view]
           /\ [t EXCEPT !.incomplete = v] = [roles |-> t.roles, enable |-> t.enable, begin |-> t.begin,
                before |-> t.before, original |-> t.original,
                published |-> t.published, failed |-> t.failed,
                enableTried |-> t.enableTried, startTried |-> t.startTried,
                withheld |-> t.withheld, incomplete |-> v,
                reloadOK |-> t.reloadOK, view |-> t.view]
           /\ [t EXCEPT !.reloadOK = v] = [roles |-> t.roles, enable |-> t.enable, begin |-> t.begin,
                before |-> t.before, original |-> t.original,
                published |-> t.published, failed |-> t.failed,
                enableTried |-> t.enableTried, startTried |-> t.startTried,
                withheld |-> t.withheld, incomplete |-> t.incomplete,
                reloadOK |-> v, view |-> t.view]
           /\ [t EXCEPT !.view = v] = [roles |-> t.roles, enable |-> t.enable, begin |-> t.begin,
                before |-> t.before, original |-> t.original,
                published |-> t.published, failed |-> t.failed,
                enableTried |-> t.enableTried, startTried |-> t.startTried,
                withheld |-> t.withheld, incomplete |-> t.incomplete,
                reloadOK |-> t.reloadOK, view |-> v]
  BY DEF IsRecord

\* What a transaction found of its services is written.
LEMMA TxnWithBefore ==
    ASSUME NEW t, IsRecord(t), NEW v
    PROVE  [t EXCEPT !.before = v]
         = [roles |-> t.roles, enable |-> t.enable, begin |-> t.begin,
            before |-> v, original |-> t.original,
            published |-> t.published, failed |-> t.failed,
            enableTried |-> t.enableTried, startTried |-> t.startTried,
            withheld |-> t.withheld, incomplete |-> t.incomplete,
            reloadOK |-> t.reloadOK, view |-> t.view]
  BY DEF IsRecord

\* What it captured is written.
LEMMA TxnWithOriginal ==
    ASSUME NEW t, IsRecord(t), NEW v
    PROVE  [t EXCEPT !.original = v]
         = [roles |-> t.roles, enable |-> t.enable, begin |-> t.begin,
            before |-> t.before, original |-> v,
            published |-> t.published, failed |-> t.failed,
            enableTried |-> t.enableTried, startTried |-> t.startTried,
            withheld |-> t.withheld, incomplete |-> t.incomplete,
            reloadOK |-> t.reloadOK, view |-> t.view]
  BY DEF IsRecord

\* A service a field of which is written.
LEMMA ServiceWith ==
    ASSUME NEW s, s = [enabled |-> s.enabled, active |-> s.active,
                       failed |-> s.failed, loaded |-> s.loaded], NEW v
    PROVE  /\ [s EXCEPT !.enabled = v]
                = [enabled |-> v, active |-> s.active, failed |-> s.failed, loaded |-> s.loaded]
           /\ [s EXCEPT !.active = v]
                = [enabled |-> s.enabled, active |-> v, failed |-> s.failed, loaded |-> s.loaded]
           /\ [s EXCEPT !.failed = v]
                = [enabled |-> s.enabled, active |-> s.active, failed |-> v, loaded |-> s.loaded]
           /\ [s EXCEPT !.loaded = v]
                = [enabled |-> s.enabled, active |-> s.active, failed |-> s.failed, loaded |-> v]
OBVIOUS

\* A service several fields of which are written.
LEMMA ServiceWithMore ==
    ASSUME NEW s, s = [enabled |-> s.enabled, active |-> s.active,
                       failed |-> s.failed, loaded |-> s.loaded], NEW v
    PROVE  /\ [s EXCEPT !.enabled = TRUE, !.loaded = v]
                = [enabled |-> TRUE, active |-> s.active, failed |-> s.failed, loaded |-> v]
           /\ [s EXCEPT !.enabled = FALSE, !.loaded = v]
                = [enabled |-> FALSE, active |-> s.active, failed |-> s.failed, loaded |-> v]
           /\ [s EXCEPT !.active = TRUE, !.failed = FALSE, !.loaded = v]
                = [enabled |-> s.enabled, active |-> TRUE, failed |-> FALSE, loaded |-> v]
           /\ [s EXCEPT !.active = FALSE, !.failed = TRUE]
                = [enabled |-> s.enabled, active |-> FALSE, failed |-> TRUE, loaded |-> s.loaded]
<1>1. [s EXCEPT !.enabled = TRUE, !.loaded = v]
         = [enabled |-> TRUE, active |-> s.active, failed |-> s.failed, loaded |-> v]
  <2>. DEFINE u == [s EXCEPT !.enabled = TRUE]
  <2>1. [s EXCEPT !.enabled = TRUE, !.loaded = v] = [u EXCEPT !.loaded = v]
    OBVIOUS
  <2>2. u = [enabled |-> TRUE, active |-> s.active, failed |-> s.failed, loaded |-> s.loaded]
    BY ServiceWith
  <2>. HIDE DEF u
  <2>3. u = [enabled |-> u.enabled, active |-> u.active, failed |-> u.failed, loaded |-> u.loaded]
    BY <2>2
  <2>4. [u EXCEPT !.loaded = v] = [enabled |-> u.enabled, active |-> u.active, failed |-> u.failed, loaded |-> v]
    BY <2>3, ServiceWith
  <2>. QED
    BY <2>1, <2>2, <2>4
<1>2. [s EXCEPT !.enabled = FALSE, !.loaded = v]
         = [enabled |-> FALSE, active |-> s.active, failed |-> s.failed, loaded |-> v]
  <2>. DEFINE u == [s EXCEPT !.enabled = FALSE]
  <2>1. [s EXCEPT !.enabled = FALSE, !.loaded = v] = [u EXCEPT !.loaded = v]
    OBVIOUS
  <2>2. u = [enabled |-> FALSE, active |-> s.active, failed |-> s.failed, loaded |-> s.loaded]
    BY ServiceWith
  <2>. HIDE DEF u
  <2>3. u = [enabled |-> u.enabled, active |-> u.active, failed |-> u.failed, loaded |-> u.loaded]
    BY <2>2
  <2>4. [u EXCEPT !.loaded = v] = [enabled |-> u.enabled, active |-> u.active, failed |-> u.failed, loaded |-> v]
    BY <2>3, ServiceWith
  <2>. QED
    BY <2>1, <2>2, <2>4
<1>3. [s EXCEPT !.active = TRUE, !.failed = FALSE, !.loaded = v]
         = [enabled |-> s.enabled, active |-> TRUE, failed |-> FALSE, loaded |-> v]
  <2>. DEFINE u == [s EXCEPT !.active = TRUE]
              w == [u EXCEPT !.failed = FALSE]
  <2>1. [s EXCEPT !.active = TRUE, !.failed = FALSE, !.loaded = v] = [w EXCEPT !.loaded = v]
    OBVIOUS
  <2>2. u = [enabled |-> s.enabled, active |-> TRUE, failed |-> s.failed, loaded |-> s.loaded]
    BY ServiceWith
  <2>. HIDE DEF u
  <2>3. u = [enabled |-> u.enabled, active |-> u.active, failed |-> u.failed, loaded |-> u.loaded]
    BY <2>2
  <2>4. w = [enabled |-> u.enabled, active |-> u.active, failed |-> FALSE, loaded |-> u.loaded]
    BY <2>3, ServiceWith
  <2>. HIDE DEF w
  <2>5. w = [enabled |-> w.enabled, active |-> w.active, failed |-> w.failed, loaded |-> w.loaded]
    BY <2>4
  <2>6. [w EXCEPT !.loaded = v] = [enabled |-> w.enabled, active |-> w.active, failed |-> w.failed, loaded |-> v]
    BY <2>5, ServiceWith
  <2>. QED
    BY <2>1, <2>2, <2>4, <2>6
<1>4. [s EXCEPT !.active = FALSE, !.failed = TRUE]
         = [enabled |-> s.enabled, active |-> FALSE, failed |-> TRUE, loaded |-> s.loaded]
  <2>. DEFINE u == [s EXCEPT !.active = FALSE]
  <2>1. [s EXCEPT !.active = FALSE, !.failed = TRUE] = [u EXCEPT !.failed = TRUE]
    OBVIOUS
  <2>2. u = [enabled |-> s.enabled, active |-> FALSE, failed |-> s.failed, loaded |-> s.loaded]
    BY ServiceWith
  <2>. HIDE DEF u
  <2>3. u = [enabled |-> u.enabled, active |-> u.active, failed |-> u.failed, loaded |-> u.loaded]
    BY <2>2
  <2>4. [u EXCEPT !.failed = TRUE] = [enabled |-> u.enabled, active |-> u.active, failed |-> TRUE, loaded |-> u.loaded]
    BY <2>3, ServiceWith
  <2>. QED
    BY <2>1, <2>2, <2>4
<1>. QED
  BY <1>1, <1>2, <1>3, <1>4

\* What one systemctl call may do.
LEMMA EffectIs ==
    ASSUME svc \in [Role -> Service], file \in [Artifact -> Content],
           NEW r \in Role, NEW op, Effect(op, r)
    PROVE  /\ svc' \in [Role -> Service]
           /\ \A q \in Role : q # r => svc'[q] = svc[q]
           /\ op = "enable" => /\ svc'[r].enabled /\ svc'[r].loaded = Known(r)
                               /\ svc'[r].active = svc[r].active
                               /\ svc'[r].failed = svc[r].failed
           /\ op = "start" => /\ svc'[r].active /\ ~svc'[r].failed /\ svc'[r].loaded = Known(r)
                              /\ svc'[r].enabled = svc[r].enabled
           /\ op = "stop" => /\ ~svc'[r].active /\ svc'[r].enabled = svc[r].enabled
                             /\ svc'[r].failed = svc[r].failed /\ svc'[r].loaded = svc[r].loaded
           /\ op = "reset-failed" => /\ ~svc'[r].failed /\ svc'[r].active = svc[r].active
                                     /\ svc'[r].enabled = svc[r].enabled
                                     /\ svc'[r].loaded = svc[r].loaded
           /\ op = "disable" => /\ ~svc'[r].enabled /\ svc'[r].active = svc[r].active
                                /\ svc'[r].failed = svc[r].failed
                                /\ svc'[r].loaded \in {svc[r].loaded, Absent}
<1>1. Known(r) \in Content /\ Absent \in Content
  BY InstallerAssumption DEF Known, Unit, Artifact, Service, Content, Absent
<1>2. /\ svc[r] = [enabled |-> svc[r].enabled, active |-> svc[r].active,
                   failed |-> svc[r].failed, loaded |-> svc[r].loaded]
      /\ svc[r].enabled \in BOOLEAN /\ svc[r].active \in BOOLEAN /\ svc[r].failed \in BOOLEAN
      /\ svc[r].loaded \in Content
  BY DEF Service
<1>3. \A s \in Service : Set(r, s) =>
         /\ svc' \in [Role -> Service] /\ svc'[r] = s /\ \A q \in Role : q # r => svc'[q] = svc[q]
  BY DEF Set
<1>4. CASE op = "enable"
  <2>1. PICK s : Set(r, s) /\ s = [enabled |-> TRUE, active |-> svc[r].active,
                                   failed |-> svc[r].failed, loaded |-> Known(r)]
    BY <1>2, <1>4, ServiceWithMore DEF Effect
  <2>2. s \in Service
    BY <1>1, <1>2, <2>1 DEF Service
  <2>. QED
    BY <1>3, <1>4, <2>1, <2>2
<1>5. CASE op = "start"
  <2>1. PICK s : Set(r, s) /\ s = [enabled |-> svc[r].enabled, active |-> TRUE,
                                   failed |-> FALSE, loaded |-> Known(r)]
    BY <1>2, <1>5, ServiceWithMore DEF Effect
  <2>2. s \in Service
    BY <1>1, <1>2, <2>1 DEF Service
  <2>. QED
    BY <1>3, <1>5, <2>1, <2>2
<1>6. CASE op = "stop"
  <2>1. PICK s : Set(r, s) /\ s = [enabled |-> svc[r].enabled, active |-> FALSE,
                                   failed |-> svc[r].failed, loaded |-> svc[r].loaded]
    BY <1>2, <1>6 DEF Effect
  <2>2. s \in Service
    BY <1>1, <1>2, <2>1 DEF Service
  <2>. QED
    BY <1>3, <1>6, <2>1, <2>2
<1>7. CASE op = "reset-failed"
  <2>1. PICK s : Set(r, s) /\ s = [enabled |-> svc[r].enabled, active |-> svc[r].active,
                                   failed |-> FALSE, loaded |-> svc[r].loaded]
    BY <1>2, <1>7 DEF Effect
  <2>2. s \in Service
    BY <1>1, <1>2, <2>1 DEF Service
  <2>. QED
    BY <1>3, <1>7, <2>1, <2>2
<1>8. CASE op = "disable"
  <2>1. PICK l \in {svc[r].loaded, Absent} :
           Set(r, [enabled |-> FALSE, active |-> svc[r].active,
                   failed |-> svc[r].failed, loaded |-> l])
    <3>1. \/ Set(r, [svc[r] EXCEPT !.enabled = FALSE])
          \/ Set(r, [svc[r] EXCEPT !.enabled = FALSE, !.loaded = Absent])
      BY <1>8 DEF Effect
    <3>2. [svc[r] EXCEPT !.enabled = FALSE]
             = [enabled |-> FALSE, active |-> svc[r].active,
                failed |-> svc[r].failed, loaded |-> svc[r].loaded]
      BY <1>2, ServiceWith
    <3>3. [svc[r] EXCEPT !.enabled = FALSE, !.loaded = Absent]
             = [enabled |-> FALSE, active |-> svc[r].active,
                failed |-> svc[r].failed, loaded |-> Absent]
      BY <1>2, ServiceWithMore
    <3>. QED
      BY <3>1, <3>2, <3>3
  <2>. DEFINE s == [enabled |-> FALSE, active |-> svc[r].active,
                    failed |-> svc[r].failed, loaded |-> l]
  <2>2. s \in Service
    BY <1>1, <1>2, <2>1 DEF Service
  <2>3. /\ Set(r, s) /\ s.enabled = FALSE /\ s.active = svc[r].active
        /\ s.failed = svc[r].failed /\ s.loaded = l
    BY <2>1
  <2>. HIDE DEF s
  <2>4. /\ svc' \in [Role -> Service] /\ svc'[r] = s
        /\ \A q \in Role : q # r => svc'[q] = svc[q]
    BY <1>3, <2>2, <2>3
  <2>. QED
    BY <1>8, <2>3, <2>4
<1>. QED
  BY <1>4, <1>5, <1>6, <1>7, <1>8 DEF Effect

\* A sequence of a set is one of a larger set.
LEMMA WiderSeq ==
    ASSUME NEW X, NEW Y, X \subseteq Y, NEW s \in Seq(X) PROVE s \in Seq(Y)
<1>1. /\ Len(s) \in Nat /\ s = [i \in 1..Len(s) |-> s[i]]
      /\ \A i \in 1..Len(s) : s[i] \in Y
  OBVIOUS
<1>. QED
  BY <1>1, FunctionIsSeq

\* What a systemctl call may do: what it is for, when it succeeds, and that or
\* nothing when it does not.
LEMMA SystemctlIs ==
    ASSUME HostIn, NEW r \in Role, NEW op, NEW ok \in BOOLEAN, Systemctl(op, r, ok)
    PROVE  /\ svc' \in [Role -> Service] /\ faults' \in 0..MaxFaults
           /\ ok => Effect(op, r) /\ Accepted(op, r)
           /\ (Effect(op, r) /\ Accepted(op, r)) \/ svc' = svc
<1>1. faults' \in 0..MaxFaults
  BY InstallerAssumption DEF Systemctl, Fault, NoFault, HostIn
<1>2. /\ ok => Effect(op, r) /\ Accepted(op, r)
      /\ (Effect(op, r) /\ Accepted(op, r)) \/ svc' = svc
  BY DEF Systemctl
<1>3. Effect(op, r) => svc' \in [Role -> Service]
  BY EffectIs DEF HostIn
<1>. QED
  BY <1>1, <1>2, <1>3 DEF HostIn

\* What systemd holds when it has been reloaded.
LEMMA ReloadedIs ==
    ASSUME HostIn
    PROVE  /\ Reloaded \in [Role -> Service]
           /\ \A r \in Role :
                 /\ Reloaded[r].enabled = svc[r].enabled /\ Reloaded[r].active = svc[r].active
                 /\ Reloaded[r].failed = svc[r].failed
                 /\ \/ Reloaded[r].loaded = Unit(file, r)
                    \/ /\ Unit(file, r) = Absent /\ svc[r].active
                       /\ Reloaded[r].loaded = svc[r].loaded
<1>1. ASSUME NEW r \in Role
      PROVE  /\ Reloaded[r] \in Service
             /\ Reloaded[r].enabled = svc[r].enabled /\ Reloaded[r].active = svc[r].active
             /\ Reloaded[r].failed = svc[r].failed
             /\ \/ Reloaded[r].loaded = Unit(file, r)
                \/ /\ Unit(file, r) = Absent /\ svc[r].active
                   /\ Reloaded[r].loaded = svc[r].loaded
  <2>1. /\ svc[r] = [enabled |-> svc[r].enabled, active |-> svc[r].active,
                     failed |-> svc[r].failed, loaded |-> svc[r].loaded]
        /\ svc[r].enabled \in BOOLEAN /\ svc[r].active \in BOOLEAN /\ svc[r].failed \in BOOLEAN
        /\ svc[r].loaded \in Content
    BY DEF Service, HostIn
  <2>2. Unit(file, r) \in Content
    BY DEF Unit, HostIn, Artifact
  <2>3. PICK l : l = IF Unit(file, r) = Absent /\ svc[r].active THEN svc[r].loaded
                     ELSE Unit(file, r)
    OBVIOUS
  <2>4. Reloaded[r] = [svc[r] EXCEPT !.loaded = l]
    BY <2>3 DEF Reloaded
  <2>5. Reloaded[r] = [enabled |-> svc[r].enabled, active |-> svc[r].active,
                       failed |-> svc[r].failed, loaded |-> l]
    BY <2>1, <2>4, ServiceWith
  <2>6. l \in Content
    BY <2>1, <2>2, <2>3
  <2>7. Reloaded[r] \in Service
    BY <2>1, <2>5, <2>6 DEF Service
  <2>. QED
    BY <2>3, <2>5, <2>7
<1>2. Reloaded = [r \in Role |-> Reloaded[r]]
  BY DEF Reloaded
<1>. QED
  BY <1>1, <1>2

\* What daemon-reload may do.
LEMMA DaemonReloadIs ==
    ASSUME HostIn, NEW ok \in BOOLEAN, DaemonReload(ok)
    PROVE  /\ svc' \in [Role -> Service] /\ faults' \in 0..MaxFaults
           /\ ok => svc' = Reloaded
           /\ svc' = Reloaded \/ svc' = svc
<1>1. faults' \in 0..MaxFaults
  BY InstallerAssumption DEF DaemonReload, Fault, NoFault, HostIn
<1>2. /\ ok => svc' = Reloaded
      /\ svc' = Reloaded \/ svc' = svc
  BY DEF DaemonReload
<1>. QED
  BY <1>1, <1>2, ReloadedIs DEF HostIn

\* A step that fits in a transaction fits in what the transaction becomes.
LEMMA FitsStill ==
    ASSUME NEW p, NEW t, NEW u, NEW x, Fits(p, t, x), u.roles = t.roles,
           p # "install" => /\ u.before = t.before /\ u.published = t.published
                            /\ u.enableTried = t.enableTried /\ u.startTried = t.startTried
    PROVE  Fits(p, u, x)
<1>1. CASE p = "install"
  BY <1>1 DEF Fits, OwnArtifacts
<1>2. CASE p # "install"
  BY <1>2 DEF Fits
<1>. QED
  BY <1>1, <1>2

\* The next step.
LEMMA NextStep ==
    ASSUME TypeInv, todo # <<>>
    PROVE  /\ Head(todo) \in ToSet(todo) /\ Head(todo) \in PlanStep
           /\ Fits(phase, txn, Head(todo))
           /\ IsPlan(Tail(todo), ToSet(Tail(todo)))
           /\ ToSet(todo) = {Head(todo)} \cup ToSet(Tail(todo))
           /\ \A x \in ToSet(todo) : Rank(Head(todo)) <= Rank(x)
BY TailIs DEF TypeInv, TodoIn

\* The types when a step is done and the next one comes.
LEMMA TypeContinue ==
    ASSUME TypeInv, todo # <<>>, Continue, HostIn', TransactionIn(txn'),
           txn'.roles = txn.roles, txn'.enable = txn.enable, txn'.begin = txn.begin,
           phase # "install" =>
              /\ txn'.before = txn.before /\ txn'.published = txn.published
              /\ txn'.enableTried = txn.enableTried /\ txn'.startTried = txn.startTried,
           DOMAIN txn.before \subseteq DOMAIN txn'.before,
           DOMAIN txn.original \subseteq DOMAIN txn'.original,
           phase = "install" /\ Head(todo).op = "query" => Arg \in DOMAIN txn'.before,
           phase = "install" /\ Head(todo).op = "capture" => Arg \in DOMAIN txn'.original
    PROVE  TypeInv'
<1>1. /\ phase' = phase /\ todo' = Tail(todo) /\ phase # "idle"
      /\ todo' \in Seq(PlanStep) /\ Ranked(todo')
      /\ ToSet(todo) = {Head(todo)} \cup ToSet(todo')
  BY NextStep DEF Continue, TypeInv, TodoIn, IsPlan
<1>2. TodoIn'
  <2>1. \A x \in ToSet(todo') : Fits(phase', txn', x)
    <3>1. \A x \in ToSet(todo') : Fits(phase, txn, x)
      BY <1>1 DEF TypeInv, TodoIn
    <3>. QED
      BY <1>1, <3>1, FitsStill
  <2>. QED
    BY <1>1, <2>1 DEF TypeInv, TodoIn, Continue
<1>3. Foreseen'
  <2>. SUFFICES ASSUME phase = "install"
                PROVE  /\ \A r \in ToSet(txn.roles) :
                             Step("enable", r) \in ToSet(todo') \/ Step("start", r) \in ToSet(todo') =>
                                r \in DOMAIN txn'.before \/ Step("query", r) \in ToSet(todo')
                       /\ \A a \in OwnArtifacts(txn) :
                             Step("publish", a) \in ToSet(todo') =>
                                a \in DOMAIN txn'.original \/ Step("capture", a) \in ToSet(todo')
    BY <1>1 DEF Foreseen, Pending, OwnArtifacts
  <2>1. \A r : Step("query", r) = Head(todo) => r \in DOMAIN txn'.before
    BY DEF Step, Arg
  <2>2. \A a : Step("capture", a) = Head(todo) => a \in DOMAIN txn'.original
    BY DEF Step, Arg
  <2>3. ASSUME NEW r \in ToSet(txn.roles),
               Step("enable", r) \in ToSet(todo') \/ Step("start", r) \in ToSet(todo')
        PROVE  r \in DOMAIN txn'.before \/ Step("query", r) \in ToSet(todo')
    <3>1. r \in DOMAIN txn.before \/ Step("query", r) \in ToSet(todo)
      BY <1>1, <2>3 DEF TypeInv, Foreseen, Pending
    <3>. QED
      BY <1>1, <2>1, <3>1
  <2>4. ASSUME NEW a \in OwnArtifacts(txn), Step("publish", a) \in ToSet(todo')
        PROVE  a \in DOMAIN txn'.original \/ Step("capture", a) \in ToSet(todo')
    <3>1. a \in DOMAIN txn.original \/ Step("capture", a) \in ToSet(todo)
      BY <1>1, <2>4 DEF TypeInv, Foreseen, Pending
    <3>. QED
      BY <1>1, <2>2, <3>1
  <2>. QED
    BY <2>3, <2>4
<1>. QED
  BY <1>2, <1>3 DEF TypeInv

\* The types when a phase begins.
LEMMA TypePlan ==
    ASSUME HostIn', TransactionIn(txn'), NEW S, IsPlan(todo', S), phase' # "install",
           phase' # "idle", run' # 0, \A x \in S : Fits(phase', txn', x)
    PROVE  TypeInv'
<1>1. TodoIn'
  BY DEF TodoIn, IsPlan
<1>2. Foreseen'
  BY DEF Foreseen
<1>. QED
  BY <1>1, <1>2 DEF TypeInv

\* The types when the program ends.
LEMMA TypeFinish ==
    ASSUME HostIn', TransactionIn(txn'), phase' = "idle", todo' = <<>>
    PROVE  TypeInv'
<1>1. TodoIn'
  BY DEF TodoIn, Ranked, ToSet
<1>2. Foreseen'
  BY DEF Foreseen
<1>. QED
  BY <1>1, <1>2 DEF TypeInv

\* A step that writes no transaction.
LEMMA TypeContinueSame ==
    ASSUME TypeInv, todo # <<>>, Continue, HostIn', txn' = txn,
           phase = "install" => Head(todo).op \notin {"query", "capture"}
    PROVE  TypeInv'
<1>1. TransactionIn(txn')
  BY DEF TypeInv
<1>. QED
  BY <1>1, TypeContinue

\* A refusal: only this invocation's copies may go.
LEMMA TypeRefuse ==
    ASSUME TypeInv, Refuse, faults' \in 0..MaxFaults,
           account' = [exists |-> account'.exists, groups |-> account'.groups],
           account'.exists \in BOOLEAN, account'.groups \subseteq {d.group : d \in Devices}
    PROVE  TypeInv'
<1>1. copies' \subseteq copies
  BY DEF Refuse, CleanupBackups
<1>2. HostIn'
  BY <1>1 DEF TypeInv, HostIn, Refuse, Finish, history, Phase
<1>3. TransactionIn(txn') /\ phase' = "idle" /\ todo' = <<>>
  BY DEF TypeInv, Refuse, Finish
<1>. QED
  BY <1>2, <1>3, TypeFinish

\* The failures stay within their bound.
LEMMA FaultIs == ASSUME HostIn, Fault \/ NoFault PROVE faults' \in 0..MaxFaults
BY InstallerAssumption DEF HostIn, Fault, NoFault

\* The account is there.
LEMMA TypeEnsureServiceAccount ==
    ASSUME TypeInv, EnsureServiceAccount PROVE TypeInv'
<1>1. /\ phase = "install" /\ todo # <<>> /\ Head(todo).op = "account" /\ HostIn
      /\ account = [exists |-> account.exists, groups |-> account.groups]
      /\ account.exists \in BOOLEAN /\ account.groups \subseteq {d.group : d \in Devices}
  BY DEF EnsureServiceAccount, At, TypeInv, HostIn
<1>2. faults' \in 0..MaxFaults
  BY <1>1, FaultIs DEF EnsureServiceAccount
<1>3. account' = account \/ account' = [account EXCEPT !.exists = TRUE]
  BY DEF EnsureServiceAccount
<1>4. /\ account' = [exists |-> account'.exists, groups |-> account'.groups]
      /\ account'.exists \in BOOLEAN /\ account'.groups \subseteq {d.group : d \in Devices}
  BY <1>1, <1>3
<1>5. CASE Continue /\ UNCHANGED <<file, copies, svc, txn>>
  <2>1. HostIn'
    BY <1>1, <1>2, <1>4, <1>5 DEF HostIn, Continue, history
  <2>. QED
    BY <1>1, <1>5, <2>1, TypeContinueSame
<1>6. CASE Refuse
  BY <1>2, <1>4, <1>6, TypeRefuse
<1>. QED
  BY <1>5, <1>6 DEF EnsureServiceAccount

\* The account is in the groups that it lacked.
LEMMA TypeEnsureGPUAccess ==
    ASSUME TypeInv, EnsureGPUAccess PROVE TypeInv'
<1>1. /\ phase = "install" /\ todo # <<>> /\ Head(todo).op = "gpu" /\ HostIn
      /\ account = [exists |-> account.exists, groups |-> account.groups]
      /\ account.exists \in BOOLEAN /\ account.groups \subseteq {d.group : d \in Devices}
  BY DEF EnsureGPUAccess, At, TypeInv, HostIn
<1>2. faults' \in 0..MaxFaults
  BY <1>1, FaultIs DEF EnsureGPUAccess
<1>3. \/ account' = account
      \/ account' = [account EXCEPT !.groups = account.groups \cup {d.group : d \in Lacking}]
  BY DEF EnsureGPUAccess
<1>4. {d.group : d \in Lacking} \subseteq {d.group : d \in Devices}
  BY DEF Lacking
<1>5. /\ account' = [exists |-> account'.exists, groups |-> account'.groups]
      /\ account'.exists \in BOOLEAN /\ account'.groups \subseteq {d.group : d \in Devices}
  <2>. DEFINE more == {d.group : d \in Lacking}
              all == {d.group : d \in Devices}
  <2>1. /\ account.groups \subseteq all /\ more \subseteq all
        /\ account' = account \/ account' = [account EXCEPT !.groups = account.groups \cup more]
    BY <1>1, <1>3, <1>4
  <2>. HIDE DEF more, all
  <2>2. /\ account' = [exists |-> account'.exists, groups |-> account'.groups]
        /\ account'.exists \in BOOLEAN /\ account'.groups \subseteq all
    BY <1>1, <2>1
  <2>. QED
    BY <2>2 DEF all
<1>6. CASE Continue /\ UNCHANGED <<file, copies, svc, txn>>
  <2>1. HostIn'
    BY <1>1, <1>2, <1>5, <1>6 DEF HostIn, Continue, history
  <2>. QED
    BY <1>1, <1>6, <2>1, TypeContinueSame
<1>7. CASE Refuse
  BY <1>2, <1>5, <1>7, TypeRefuse
<1>. QED
  BY <1>6, <1>7 DEF EnsureGPUAccess

\* A service is looked at.
LEMMA TypeQueryService ==
    ASSUME TypeInv, QueryService PROVE TypeInv'
<1>1. phase = "install" /\ todo # <<>> /\ Head(todo).op = "query" /\ HostIn
  BY DEF QueryService, At, TypeInv
<1>2. faults' \in 0..MaxFaults
  BY <1>1, FaultIs DEF QueryService
<1>3. ASSUME txn' = [txn EXCEPT !.before = Noted(txn.before, Arg, svc[Arg])],
             Continue, UNCHANGED host
      PROVE  TypeInv'
  <2>1. HostIn'
    BY <1>1, <1>2, <1>3 DEF HostIn, Continue, history, host
  <2>2. Arg \in ToSet(txn.roles)
    BY <1>1, NextStep DEF Fits, Arg
  <2>3. Arg \in Role
    BY <2>2 DEF TypeInv, TransactionIn, ToSet
  <2>4. PICK b : b = Noted(txn.before, Arg, svc[Arg])
    OBVIOUS
  <2>5. /\ DOMAIN b = DOMAIN txn.before \cup {Arg}
        /\ \A r \in DOMAIN txn.before : b[r] = txn.before[r]
        /\ Arg \notin DOMAIN txn.before => b[Arg] = svc[Arg]
    BY <2>4 DEF Noted
  <2>6. txn' = [txn EXCEPT !.before = b] /\ IsRecord(txn)
    BY <1>3, <2>4 DEF TypeInv, TransactionIn
  <2>7. txn' = [roles |-> txn.roles, enable |-> txn.enable, begin |-> txn.begin,
                before |-> b, original |-> txn.original,
                published |-> txn.published, failed |-> txn.failed,
                enableTried |-> txn.enableTried, startTried |-> txn.startTried,
                withheld |-> txn.withheld, incomplete |-> txn.incomplete,
                reloadOK |-> txn.reloadOK, view |-> txn.view]
    BY <2>6, TxnWithBefore
  <2>8. svc[Arg] \in Service
    BY <1>1, <2>3 DEF HostIn
  <2>9. \A r \in DOMAIN b : b[r] \in Service
    BY <2>5, <2>8 DEF TypeInv, TransactionIn
  <2>10. TransactionIn(txn')
    BY <2>2, <2>5, <2>7, <2>9 DEF TypeInv, TransactionIn, IsRecord, OwnArtifacts
  <2>. QED
    BY <1>1, <1>3, <2>1, <2>5, <2>7, <2>10, TypeContinue
<1>4. CASE Refuse /\ UNCHANGED account
  BY <1>1, <1>2, <1>4, TypeRefuse DEF HostIn
<1>. QED
  BY <1>3, <1>4 DEF QueryService

\* An artifact is captured.
LEMMA TypeCaptureArtifact ==
    ASSUME TypeInv, CaptureArtifact PROVE TypeInv'
<1>1. phase = "install" /\ todo # <<>> /\ Head(todo).op = "capture" /\ HostIn
  BY DEF CaptureArtifact, At, TypeInv
<1>2. faults' \in 0..MaxFaults
  BY <1>1, FaultIs DEF CaptureArtifact
<1>3. ASSUME txn' = [txn EXCEPT !.original = Noted(txn.original, Arg, file[Arg])],
             copies' = copies \cup {<<run, Arg, c>> : c \in {file[Arg]} \ {Absent}},
             Continue, UNCHANGED <<file, svc, account>>
      PROVE  TypeInv'
  <2>1. Arg \in OwnArtifacts(txn)
    BY <1>1, NextStep DEF Fits, Arg
  <2>2. Arg \in Artifact /\ file[Arg] \in Content
    BY <1>1, <2>1 DEF TypeInv, TransactionIn, OwnArtifacts, ToSet, Artifact, HostIn
  <2>3. run \in 1..MaxRun
    BY <1>1 DEF TypeInv, TodoIn, HostIn
  <2>4. copies' \subseteq (1..MaxRun) \X Artifact \X (Content \ {Absent})
    BY <1>1, <1>3, <2>2, <2>3 DEF HostIn
  <2>5. HostIn'
    BY <1>1, <1>2, <1>3, <2>4 DEF HostIn, Continue, history
  <2>6. PICK o : o = Noted(txn.original, Arg, file[Arg])
    OBVIOUS
  <2>7. /\ DOMAIN o = DOMAIN txn.original \cup {Arg}
        /\ \A a \in DOMAIN txn.original : o[a] = txn.original[a]
        /\ Arg \notin DOMAIN txn.original => o[Arg] = file[Arg]
    BY <2>6 DEF Noted
  <2>8. txn' = [txn EXCEPT !.original = o] /\ IsRecord(txn)
    BY <1>3, <2>6 DEF TypeInv, TransactionIn
  <2>9. txn' = [roles |-> txn.roles, enable |-> txn.enable, begin |-> txn.begin,
                before |-> txn.before, original |-> o,
                published |-> txn.published, failed |-> txn.failed,
                enableTried |-> txn.enableTried, startTried |-> txn.startTried,
                withheld |-> txn.withheld, incomplete |-> txn.incomplete,
                reloadOK |-> txn.reloadOK, view |-> txn.view]
    BY <2>8, TxnWithOriginal
  <2>10. \A a \in DOMAIN o : o[a] \in Content
    BY <2>2, <2>7 DEF TypeInv, TransactionIn
  <2>11. TransactionIn(txn')
    BY <2>1, <2>7, <2>9, <2>10 DEF TypeInv, TransactionIn, IsRecord, OwnArtifacts
  <2>. QED
    BY <1>1, <1>3, <2>5, <2>7, <2>9, <2>11, TypeContinue
<1>4. CASE Refuse /\ UNCHANGED account
  BY <1>1, <1>2, <1>4, TypeRefuse DEF HostIn
<1>. QED
  BY <1>3, <1>4 DEF CaptureArtifact

\* The roles of a transaction, among the arguments of steps.
LEMMA RolesAre ==
    ASSUME NEW t, TransactionIn(t)
    PROVE  t.roles \in Seq(Role \cup Artifact) /\ ToSet(t.roles) \subseteq Role
<1>1. /\ Len(t.roles) \in Nat /\ t.roles = [i \in 1..Len(t.roles) |-> t.roles[i]]
      /\ \A i \in 1..Len(t.roles) : t.roles[i] \in Role
  BY DEF TransactionIn
<1>2. t.roles \in Seq(Role \cup Artifact)
  <2>1. \A i \in 1..Len(t.roles) : t.roles[i] \in Role \cup Artifact
    BY <1>1
  <2>. QED
    BY <1>1, <2>1, FunctionIsSeq
<1>3. ToSet(t.roles) \subseteq Role
  BY DEF TransactionIn, ToSet
<1>. QED
  BY <1>2, <1>3

\* A rollback begins with the services that the transaction started.
LEMMA StopPlanIs ==
    ASSUME NEW t, TransactionIn(t)
    PROVE  IsPlan(StopPlan(t), ForEach("stop", {r \in t.startTried : ~t.before[r].active}))
<1>. DEFINE S == {r \in t.startTried : ~t.before[r].active}
<1>1. S \subseteq ToSet(t.roles) /\ t.roles \in Seq(Role \cup Artifact)
  BY RolesAre DEF TransactionIn
<1>2. StopPlan(t) = Steps("stop", Those(Reverse(t.roles), S))
  BY DEF StopPlan
<1>3. "stop" \in Op
  BY DEF Op
<1>. HIDE DEF S
<1>4. IsPlan(Steps("stop", Those(Reverse(t.roles), S)), ForEach("stop", S))
  BY <1>1, <1>3, LoopIs
<1>. QED
  BY <1>2, <1>4 DEF S

\* The types when a rollback begins.
LEMMA TypeRollBack ==
    ASSUME TypeInv, phase = "install", HostIn', NEW t, TransactionIn(t), RollBack(t)
    PROVE  TypeInv'
<1>. DEFINE S == {r \in t.startTried : ~t.before[r].active}
<1>1. /\ txn' = t /\ phase' = "stopping" /\ todo' = StopPlan(t) /\ run' # 0
  BY DEF RollBack, TypeInv, TodoIn
<1>2. IsPlan(todo', ForEach("stop", S))
  BY <1>1, StopPlanIs
<1>3. \A x \in ForEach("stop", S) : Fits("stopping", t, x)
  BY DEF ForEach, Step, Fits
<1>. HIDE DEF S
<1>. QED
  BY <1>1, <1>2, <1>3, TypePlan

\* The types after a step that goes on or rolls back.
LEMMA TypeGoOn ==
    ASSUME TypeInv, phase = "install", todo # <<>>, Head(todo).op \notin {"query", "capture"},
           HostIn', NEW t, TransactionIn(t), NEW ok \in BOOLEAN, ContinueOrRollBack(ok, t),
           t.roles = txn.roles, t.enable = txn.enable, t.begin = txn.begin,
           t.before = txn.before, t.original = txn.original
    PROVE  TypeInv'
<1>1. CASE ok
  <2>1. txn' = t /\ Continue
    BY <1>1 DEF ContinueOrRollBack
  <2>. QED
    BY <2>1, TypeContinue
<1>2. CASE ~ok
  BY <1>2, TypeRollBack DEF ContinueOrRollBack
<1>. QED
  BY <1>1, <1>2

\* u is t but for one field.
Others(t, u, field) ==
    /\ field = "roles" \/ u.roles = t.roles
    /\ field = "enable" \/ u.enable = t.enable
    /\ field = "begin" \/ u.begin = t.begin
    /\ field = "before" \/ u.before = t.before
    /\ field = "original" \/ u.original = t.original
    /\ field = "published" \/ u.published = t.published
    /\ field = "failed" \/ u.failed = t.failed
    /\ field = "enableTried" \/ u.enableTried = t.enableTried
    /\ field = "startTried" \/ u.startTried = t.startTried
    /\ field = "withheld" \/ u.withheld = t.withheld
    /\ field = "incomplete" \/ u.incomplete = t.incomplete
    /\ field = "reloadOK" \/ u.reloadOK = t.reloadOK
    /\ field = "view" \/ u.view = t.view

\* The transaction of a step that marks what it has written or tried.
LEMMA MarkIs ==
    ASSUME NEW t, TransactionIn(t), NEW x
    PROVE  /\ x \in DOMAIN t.original => LET u == [t EXCEPT !.published = t.published \cup {x}]
              IN  TransactionIn(u) /\ u.published = t.published \cup {x} /\ Others(t, u, "published")
           /\ x \in t.published => LET u == [t EXCEPT !.failed = t.failed \cup {x}]
              IN  TransactionIn(u) /\ u.failed = t.failed \cup {x} /\ Others(t, u, "failed")
           /\ x \in DOMAIN t.before => LET u == [t EXCEPT !.enableTried = t.enableTried \cup {x}]
              IN  TransactionIn(u) /\ u.enableTried = t.enableTried \cup {x} /\ Others(t, u, "enableTried")
           /\ x \in DOMAIN t.before => LET u == [t EXCEPT !.startTried = t.startTried \cup {x}]
              IN  TransactionIn(u) /\ u.startTried = t.startTried \cup {x} /\ Others(t, u, "startTried")
<1>0. IsRecord(t)
  BY DEF TransactionIn
<1>1. ASSUME x \in DOMAIN t.original, NEW u, u = [t EXCEPT !.published = t.published \cup {x}]
      PROVE  TransactionIn(u) /\ u.published = t.published \cup {x} /\ Others(t, u, "published")
  <2>1. u = [roles |-> t.roles, enable |-> t.enable, begin |-> t.begin,
             before |-> t.before, original |-> t.original,
             published |-> t.published \cup {x}, failed |-> t.failed,
             enableTried |-> t.enableTried, startTried |-> t.startTried,
             withheld |-> t.withheld, incomplete |-> t.incomplete,
             reloadOK |-> t.reloadOK, view |-> t.view]
    BY <1>0, <1>1, TxnWith
  <2>2. /\ IsRecord(u) /\ u.published = t.published \cup {x}
        /\ u.roles = t.roles /\ u.enable = t.enable /\ u.begin = t.begin
        /\ u.before = t.before /\ u.original = t.original /\ u.failed = t.failed
        /\ u.enableTried = t.enableTried /\ u.startTried = t.startTried /\ u.withheld = t.withheld
        /\ u.incomplete = t.incomplete /\ u.reloadOK = t.reloadOK /\ u.view = t.view
    BY <2>1 DEF IsRecord
  <2>3. TransactionIn(u)
    BY <1>1, <2>2 DEF TransactionIn, OwnArtifacts
  <2>. QED
    BY <2>2, <2>3 DEF Others
<1>2. ASSUME x \in t.published, NEW u, u = [t EXCEPT !.failed = t.failed \cup {x}]
      PROVE  TransactionIn(u) /\ u.failed = t.failed \cup {x} /\ Others(t, u, "failed")
  <2>1. u = [roles |-> t.roles, enable |-> t.enable, begin |-> t.begin,
             before |-> t.before, original |-> t.original,
             published |-> t.published, failed |-> t.failed \cup {x},
             enableTried |-> t.enableTried, startTried |-> t.startTried,
             withheld |-> t.withheld, incomplete |-> t.incomplete,
             reloadOK |-> t.reloadOK, view |-> t.view]
    BY <1>0, <1>2, TxnWith
  <2>2. /\ IsRecord(u) /\ u.failed = t.failed \cup {x}
        /\ u.roles = t.roles /\ u.enable = t.enable /\ u.begin = t.begin
        /\ u.before = t.before /\ u.original = t.original /\ u.published = t.published
        /\ u.enableTried = t.enableTried /\ u.startTried = t.startTried /\ u.withheld = t.withheld
        /\ u.incomplete = t.incomplete /\ u.reloadOK = t.reloadOK /\ u.view = t.view
    BY <2>1 DEF IsRecord
  <2>3. TransactionIn(u)
    BY <1>2, <2>2 DEF TransactionIn, OwnArtifacts
  <2>. QED
    BY <2>2, <2>3 DEF Others
<1>3. ASSUME x \in DOMAIN t.before, NEW u, u = [t EXCEPT !.enableTried = t.enableTried \cup {x}]
      PROVE  TransactionIn(u) /\ u.enableTried = t.enableTried \cup {x} /\ Others(t, u, "enableTried")
  <2>1. u = [roles |-> t.roles, enable |-> t.enable, begin |-> t.begin,
             before |-> t.before, original |-> t.original,
             published |-> t.published, failed |-> t.failed,
             enableTried |-> t.enableTried \cup {x}, startTried |-> t.startTried,
             withheld |-> t.withheld, incomplete |-> t.incomplete,
             reloadOK |-> t.reloadOK, view |-> t.view]
    BY <1>0, <1>3, TxnWith
  <2>2. /\ IsRecord(u) /\ u.enableTried = t.enableTried \cup {x}
        /\ u.roles = t.roles /\ u.enable = t.enable /\ u.begin = t.begin
        /\ u.before = t.before /\ u.original = t.original /\ u.published = t.published
        /\ u.failed = t.failed /\ u.startTried = t.startTried /\ u.withheld = t.withheld
        /\ u.incomplete = t.incomplete /\ u.reloadOK = t.reloadOK /\ u.view = t.view
    BY <2>1 DEF IsRecord
  <2>3. TransactionIn(u)
    BY <1>3, <2>2 DEF TransactionIn, OwnArtifacts
  <2>. QED
    BY <2>2, <2>3 DEF Others
<1>4. ASSUME x \in DOMAIN t.before, NEW u, u = [t EXCEPT !.startTried = t.startTried \cup {x}]
      PROVE  TransactionIn(u) /\ u.startTried = t.startTried \cup {x} /\ Others(t, u, "startTried")
  <2>1. u = [roles |-> t.roles, enable |-> t.enable, begin |-> t.begin,
             before |-> t.before, original |-> t.original,
             published |-> t.published, failed |-> t.failed,
             enableTried |-> t.enableTried, startTried |-> t.startTried \cup {x},
             withheld |-> t.withheld, incomplete |-> t.incomplete,
             reloadOK |-> t.reloadOK, view |-> t.view]
    BY <1>0, <1>4, TxnWith
  <2>2. /\ IsRecord(u) /\ u.startTried = t.startTried \cup {x}
        /\ u.roles = t.roles /\ u.enable = t.enable /\ u.begin = t.begin
        /\ u.before = t.before /\ u.original = t.original /\ u.published = t.published
        /\ u.failed = t.failed /\ u.enableTried = t.enableTried /\ u.withheld = t.withheld
        /\ u.incomplete = t.incomplete /\ u.reloadOK = t.reloadOK /\ u.view = t.view
    BY <2>1 DEF IsRecord
  <2>3. TransactionIn(u)
    BY <1>4, <2>2 DEF TransactionIn, OwnArtifacts
  <2>. QED
    BY <2>2, <2>3 DEF Others
<1>. QED
  BY <1>1, <1>2, <1>3, <1>4

\* The transaction of a step that notes how it went.
LEMMA NoteIs ==
    ASSUME NEW t, TransactionIn(t), NEW b \in BOOLEAN, NEW v
    PROVE  /\ LET u == [t EXCEPT !.withheld = b]
              IN  TransactionIn(u) /\ u.withheld = b /\ Others(t, u, "withheld")
           /\ LET u == [t EXCEPT !.incomplete = b]
              IN  TransactionIn(u) /\ u.incomplete = b /\ Others(t, u, "incomplete")
           /\ LET u == [t EXCEPT !.reloadOK = b]
              IN  TransactionIn(u) /\ u.reloadOK = b /\ Others(t, u, "reloadOK")
           /\ LET u == [t EXCEPT !.view = v]
              IN  TransactionIn(u) /\ u.view = v /\ Others(t, u, "view")
<1>0. IsRecord(t)
  BY DEF TransactionIn
<1>1. ASSUME NEW u, u = [t EXCEPT !.withheld = b]
      PROVE  TransactionIn(u) /\ u.withheld = b /\ Others(t, u, "withheld")
  <2>1. u = [roles |-> t.roles, enable |-> t.enable, begin |-> t.begin,
             before |-> t.before, original |-> t.original,
             published |-> t.published, failed |-> t.failed,
             enableTried |-> t.enableTried, startTried |-> t.startTried,
             withheld |-> b, incomplete |-> t.incomplete,
             reloadOK |-> t.reloadOK, view |-> t.view]
    BY <1>0, <1>1, TxnWith
  <2>2. /\ IsRecord(u) /\ u.withheld = b
        /\ u.roles = t.roles /\ u.enable = t.enable /\ u.begin = t.begin
        /\ u.before = t.before /\ u.original = t.original /\ u.published = t.published
        /\ u.failed = t.failed /\ u.enableTried = t.enableTried /\ u.startTried = t.startTried
        /\ u.incomplete = t.incomplete /\ u.reloadOK = t.reloadOK /\ u.view = t.view
    BY <2>1 DEF IsRecord
  <2>3. TransactionIn(u)
    BY <1>1, <2>2 DEF TransactionIn, OwnArtifacts
  <2>. QED
    BY <2>2, <2>3 DEF Others
<1>2. ASSUME NEW u, u = [t EXCEPT !.incomplete = b]
      PROVE  TransactionIn(u) /\ u.incomplete = b /\ Others(t, u, "incomplete")
  <2>1. u = [roles |-> t.roles, enable |-> t.enable, begin |-> t.begin,
             before |-> t.before, original |-> t.original,
             published |-> t.published, failed |-> t.failed,
             enableTried |-> t.enableTried, startTried |-> t.startTried,
             withheld |-> t.withheld, incomplete |-> b,
             reloadOK |-> t.reloadOK, view |-> t.view]
    BY <1>0, <1>2, TxnWith
  <2>2. /\ IsRecord(u) /\ u.incomplete = b
        /\ u.roles = t.roles /\ u.enable = t.enable /\ u.begin = t.begin
        /\ u.before = t.before /\ u.original = t.original /\ u.published = t.published
        /\ u.failed = t.failed /\ u.enableTried = t.enableTried /\ u.startTried = t.startTried
        /\ u.withheld = t.withheld /\ u.reloadOK = t.reloadOK /\ u.view = t.view
    BY <2>1 DEF IsRecord
  <2>3. TransactionIn(u)
    BY <1>2, <2>2 DEF TransactionIn, OwnArtifacts
  <2>. QED
    BY <2>2, <2>3 DEF Others
<1>3. ASSUME NEW u, u = [t EXCEPT !.reloadOK = b]
      PROVE  TransactionIn(u) /\ u.reloadOK = b /\ Others(t, u, "reloadOK")
  <2>1. u = [roles |-> t.roles, enable |-> t.enable, begin |-> t.begin,
             before |-> t.before, original |-> t.original,
             published |-> t.published, failed |-> t.failed,
             enableTried |-> t.enableTried, startTried |-> t.startTried,
             withheld |-> t.withheld, incomplete |-> t.incomplete,
             reloadOK |-> b, view |-> t.view]
    BY <1>0, <1>3, TxnWith
  <2>2. /\ IsRecord(u) /\ u.reloadOK = b
        /\ u.roles = t.roles /\ u.enable = t.enable /\ u.begin = t.begin
        /\ u.before = t.before /\ u.original = t.original /\ u.published = t.published
        /\ u.failed = t.failed /\ u.enableTried = t.enableTried /\ u.startTried = t.startTried
        /\ u.withheld = t.withheld /\ u.incomplete = t.incomplete /\ u.view = t.view
    BY <2>1 DEF IsRecord
  <2>3. TransactionIn(u)
    BY <1>3, <2>2 DEF TransactionIn, OwnArtifacts
  <2>. QED
    BY <2>2, <2>3 DEF Others
<1>4. ASSUME NEW u, u = [t EXCEPT !.view = v]
      PROVE  TransactionIn(u) /\ u.view = v /\ Others(t, u, "view")
  <2>1. u = [roles |-> t.roles, enable |-> t.enable, begin |-> t.begin,
             before |-> t.before, original |-> t.original,
             published |-> t.published, failed |-> t.failed,
             enableTried |-> t.enableTried, startTried |-> t.startTried,
             withheld |-> t.withheld, incomplete |-> t.incomplete,
             reloadOK |-> t.reloadOK, view |-> v]
    BY <1>0, <1>4, TxnWith
  <2>2. /\ IsRecord(u) /\ u.view = v
        /\ u.roles = t.roles /\ u.enable = t.enable /\ u.begin = t.begin
        /\ u.before = t.before /\ u.original = t.original /\ u.published = t.published
        /\ u.failed = t.failed /\ u.enableTried = t.enableTried /\ u.startTried = t.startTried
        /\ u.withheld = t.withheld /\ u.incomplete = t.incomplete /\ u.reloadOK = t.reloadOK
    BY <2>1 DEF IsRecord
  <2>3. TransactionIn(u)
    BY <1>4, <2>2 DEF TransactionIn, OwnArtifacts
  <2>. QED
    BY <2>2, <2>3 DEF Others
<1>. QED
  BY <1>1, <1>2, <1>3, <1>4

\* What is published has been captured.
LEMMA PublishedIsCaptured ==
    ASSUME TypeInv, At("install", "publish")
    PROVE  /\ Arg \in DOMAIN txn.original /\ Arg \in OwnArtifacts(txn) /\ Arg \in Artifact
           /\ Head(todo) = Step("publish", Arg) /\ Rank(Head(todo)) = 1
<1>1. /\ phase = "install" /\ todo # <<>> /\ Head(todo).op = "publish"
      /\ Head(todo) \in ToSet(todo) /\ Head(todo) \in PlanStep /\ Fits(phase, txn, Head(todo))
      /\ \A x \in ToSet(todo) : Rank(Head(todo)) <= Rank(x)
  BY NextStep DEF At
<1>2. Head(todo) = Step("publish", Arg) /\ Rank(Head(todo)) = 1
  BY <1>1 DEF PlanStep, Step, Arg, Rank
<1>3. Arg \in OwnArtifacts(txn)
  BY <1>1 DEF Fits, Arg
<1>4. Arg \in Artifact
  BY <1>3, RolesAre DEF TypeInv, OwnArtifacts, Artifact
<1>5. ~ Pending("capture", Arg)
  <2>1. Rank(Step("capture", Arg)) = 0
    BY DEF Rank, Step
  <2>. QED
    BY <1>1, <1>2, <2>1 DEF Pending
<1>6. Arg \in DOMAIN txn.original
  BY <1>1, <1>2, <1>3, <1>5 DEF TypeInv, Foreseen, Pending
<1>. QED
  BY <1>2, <1>3, <1>4, <1>6

\* Services are looked at before they are enabled or started.
LEMMA TriedIsQueried ==
    ASSUME TypeInv, At("install", "enable") \/ At("install", "start")
    PROVE  Arg \in DOMAIN txn.before /\ Arg \in Role /\ Rank(Head(todo)) = 3
<1>1. /\ phase = "install" /\ todo # <<>> /\ Head(todo).op \in {"enable", "start"}
      /\ Head(todo) \in ToSet(todo) /\ Head(todo) \in PlanStep /\ Fits(phase, txn, Head(todo))
      /\ \A x \in ToSet(todo) : Rank(Head(todo)) <= Rank(x)
  BY NextStep DEF At
<1>2. /\ Head(todo) = Step("enable", Arg) \/ Head(todo) = Step("start", Arg)
      /\ Rank(Head(todo)) = 3
  BY <1>1 DEF PlanStep, Step, Arg, Rank
<1>3. Arg \in ToSet(txn.roles)
  BY <1>1 DEF Fits, Arg
<1>4. ~ Pending("query", Arg)
  <2>1. Rank(Step("query", Arg)) = 0
    BY DEF Rank, Step
  <2>. QED
    BY <1>1, <1>2, <2>1 DEF Pending
<1>5. Arg \in DOMAIN txn.before
  BY <1>1, <1>2, <1>3, <1>4 DEF TypeInv, Foreseen, Pending
<1>. QED
  BY <1>2, <1>3, <1>5, RolesAre DEF TypeInv

\* A binary or a unit is replaced.
LEMMA TypeReplaceFile ==
    ASSUME TypeInv, ReplaceFile PROVE TypeInv'
<1>. DEFINE t == [txn EXCEPT !.published = txn.published \cup {Arg}]
<1>1. /\ phase = "install" /\ todo # <<>> /\ Head(todo).op \notin {"query", "capture"} /\ HostIn
      /\ TransactionIn(txn) /\ At("install", "publish")
  BY DEF ReplaceFile, At, TypeInv
<1>2. Arg \in DOMAIN txn.original /\ Arg \in Artifact
  BY <1>1, PublishedIsCaptured
<1>3. TransactionIn(t) /\ Others(txn, t, "published")
  BY <1>1, <1>2, MarkIs
<1>4. faults' \in 0..MaxFaults
  BY <1>1, FaultIs DEF ReplaceFile
<1>5. Version \in Content
  BY <1>1, InstallerAssumption DEF Version, Content, HostIn
<1>6. file' \in [Artifact -> Content]
  BY <1>1, <1>5 DEF ReplaceFile, HostIn
<1>7. \/ ContinueOrRollBack(TRUE, t) \/ RollBack(t) \/ RollBack(txn)
  BY DEF ReplaceFile
<1>8. HostIn'
  <2>1. UNCHANGED <<copies, svc, account, run, settled, start>> /\ phase' \in Phase
    BY <1>1, <1>7 DEF ReplaceFile, ContinueOrRollBack, Continue, RollBack, history, Phase
  <2>. QED
    BY <1>1, <1>4, <1>6, <2>1 DEF HostIn
<1>9. t.roles = txn.roles /\ t.enable = txn.enable /\ t.begin = txn.begin
      /\ t.before = txn.before /\ t.original = txn.original
  BY <1>3 DEF Others
<1>. HIDE DEF t
<1>10. CASE ContinueOrRollBack(TRUE, t)
  BY <1>1, <1>3, <1>8, <1>9, <1>10, TypeGoOn
<1>11. CASE RollBack(t)
  BY <1>1, <1>3, <1>8, <1>11, TypeRollBack
<1>12. CASE RollBack(txn)
  BY <1>1, <1>8, <1>12, TypeRollBack
<1>. QED
  BY <1>7, <1>10, <1>11, <1>12

\* A configuration is created, or stays.
LEMMA TypeCreatePreservedFile ==
    ASSUME TypeInv, CreatePreservedFile PROVE TypeInv'
<1>. DEFINE t == [txn EXCEPT !.published = txn.published \cup {Arg}]
<1>1. /\ phase = "install" /\ todo # <<>> /\ Head(todo).op \notin {"query", "capture"} /\ HostIn
      /\ TransactionIn(txn) /\ At("install", "publish")
  BY DEF CreatePreservedFile, At, TypeInv
<1>2. Arg \in DOMAIN txn.original /\ Arg \in Artifact
  BY <1>1, PublishedIsCaptured
<1>3. TransactionIn(t) /\ Others(txn, t, "published")
  BY <1>1, <1>2, MarkIs
<1>4. faults' \in 0..MaxFaults
  BY <1>1, FaultIs DEF CreatePreservedFile
<1>5. Default \in Content
  BY <1>1, InstallerAssumption DEF Default, Content, HostIn
<1>6. file' \in [Artifact -> Content]
  BY <1>1, <1>5 DEF CreatePreservedFile, HostIn
<1>7. \/ Continue /\ txn' = txn
      \/ ContinueOrRollBack(TRUE, t) \/ RollBack(t) \/ RollBack(txn)
  BY DEF CreatePreservedFile
<1>8. HostIn'
  <2>1. UNCHANGED <<copies, svc, account, run, settled, start>> /\ phase' \in Phase
    BY <1>1, <1>7 DEF CreatePreservedFile, ContinueOrRollBack, Continue, RollBack, history, Phase
  <2>. QED
    BY <1>1, <1>4, <1>6, <2>1 DEF HostIn
<1>9. t.roles = txn.roles /\ t.enable = txn.enable /\ t.begin = txn.begin
      /\ t.before = txn.before /\ t.original = txn.original
  BY <1>3 DEF Others
<1>. HIDE DEF t
<1>10. CASE ContinueOrRollBack(TRUE, t)
  BY <1>1, <1>3, <1>8, <1>9, <1>10, TypeGoOn
<1>11. CASE RollBack(t)
  BY <1>1, <1>3, <1>8, <1>11, TypeRollBack
<1>12. CASE RollBack(txn)
  BY <1>1, <1>8, <1>12, TypeRollBack
<1>13. CASE Continue /\ txn' = txn
  BY <1>1, <1>8, <1>13, TypeContinueSame
<1>. QED
  BY <1>7, <1>10, <1>11, <1>12, <1>13

\* systemd is reloaded.
LEMMA TypeReloadUnits ==
    ASSUME TypeInv, ReloadUnits PROVE TypeInv'
<1>1. /\ phase = "install" /\ todo # <<>> /\ Head(todo).op \notin {"query", "capture"} /\ HostIn
      /\ TransactionIn(txn)
  BY DEF ReloadUnits, At, TypeInv
<1>2. PICK ok \in BOOLEAN : DaemonReload(ok) /\ ContinueOrRollBack(ok, txn)
  BY DEF ReloadUnits
<1>3. svc' \in [Role -> Service] /\ faults' \in 0..MaxFaults
  BY <1>1, <1>2, DaemonReloadIs
<1>4. HostIn'
  <2>1. UNCHANGED <<file, copies, account, run, settled, start>> /\ phase' \in Phase
    BY <1>1, <1>2 DEF ReloadUnits, ContinueOrRollBack, Continue, RollBack, history, Phase
  <2>. QED
    BY <1>1, <1>3, <2>1 DEF HostIn
<1>. QED
  BY <1>1, <1>2, <1>4, TypeGoOn

\* A service is enabled.
LEMMA TypeEnableService ==
    ASSUME TypeInv, EnableService PROVE TypeInv'
<1>. DEFINE t == [txn EXCEPT !.enableTried = txn.enableTried \cup {Arg}]
<1>1. /\ phase = "install" /\ todo # <<>> /\ Head(todo).op \notin {"query", "capture"} /\ HostIn
      /\ TransactionIn(txn) /\ At("install", "enable")
  BY DEF EnableService, At, TypeInv
<1>2. Arg \in DOMAIN txn.before /\ Arg \in Role
  BY <1>1, TriedIsQueried
<1>3. TransactionIn(t) /\ Others(txn, t, "enableTried")
  BY <1>1, <1>2, MarkIs
<1>4. PICK ok \in BOOLEAN : Systemctl("enable", Arg, ok) /\ ContinueOrRollBack(ok, t)
  BY DEF EnableService
<1>5. svc' \in [Role -> Service] /\ faults' \in 0..MaxFaults
  BY <1>1, <1>2, <1>4, SystemctlIs
<1>6. HostIn'
  <2>1. UNCHANGED <<file, copies, account, run, settled, start>> /\ phase' \in Phase
    BY <1>1, <1>4 DEF EnableService, ContinueOrRollBack, Continue, RollBack, history, Phase
  <2>. QED
    BY <1>1, <1>5, <2>1 DEF HostIn
<1>7. t.roles = txn.roles /\ t.enable = txn.enable /\ t.begin = txn.begin
      /\ t.before = txn.before /\ t.original = txn.original
  BY <1>3 DEF Others
<1>. HIDE DEF t
<1>. QED
  BY <1>1, <1>3, <1>4, <1>6, <1>7, TypeGoOn

\* A service is started.
LEMMA TypeStartService ==
    ASSUME TypeInv, StartService PROVE TypeInv'
<1>. DEFINE t == [txn EXCEPT !.startTried = txn.startTried \cup {Arg}]
<1>1. /\ phase = "install" /\ todo # <<>> /\ Head(todo).op \notin {"query", "capture"} /\ HostIn
      /\ TransactionIn(txn) /\ At("install", "start")
  BY DEF StartService, At, TypeInv
<1>2. Arg \in DOMAIN txn.before /\ Arg \in Role
  BY <1>1, TriedIsQueried
<1>3. TransactionIn(t) /\ Others(txn, t, "startTried")
  BY <1>1, <1>2, MarkIs
<1>4. PICK ok \in BOOLEAN : Systemctl("start", Arg, ok) /\ ContinueOrRollBack(ok, t)
  BY DEF StartService
<1>5. svc' \in [Role -> Service] /\ faults' \in 0..MaxFaults
  BY <1>1, <1>2, <1>4, SystemctlIs
<1>6. HostIn'
  <2>1. UNCHANGED <<file, copies, account, run, settled, start>> /\ phase' \in Phase
    BY <1>1, <1>4 DEF StartService, ContinueOrRollBack, Continue, RollBack, history, Phase
  <2>. QED
    BY <1>1, <1>5, <2>1 DEF HostIn
<1>7. t.roles = txn.roles /\ t.enable = txn.enable /\ t.begin = txn.begin
      /\ t.before = txn.before /\ t.original = txn.original
  BY <1>3 DEF Others
<1>. HIDE DEF t
<1>. QED
  BY <1>1, <1>3, <1>4, <1>6, <1>7, TypeGoOn

\* An Install is committed.
LEMMA TypeCommit ==
    ASSUME TypeInv, Commit PROVE TypeInv'
<1>1. HostIn /\ TransactionIn(txn) /\ txn' = txn /\ phase' = "idle" /\ todo' = <<>>
  BY DEF TypeInv, Commit, Finish
<1>2. copies' \subseteq copies
  BY DEF Commit, CleanupBackups
<1>3. settled' \in [Artifact -> Content]
  BY <1>1 DEF Commit, HostIn
<1>4. HostIn'
  BY <1>1, <1>2, <1>3 DEF HostIn, Commit, Finish, Phase
<1>. QED
  BY <1>1, <1>4, TypeFinish

\* A step of a rollback that calls systemctl and notes how that went.
LEMMA TypeRestoring ==
    ASSUME TypeInv, todo # <<>>, phase # "install", Continue, UNCHANGED <<file, copies, account>>,
           svc' \in [Role -> Service], faults' \in 0..MaxFaults,
           TransactionIn(txn'), txn'.roles = txn.roles, txn'.enable = txn.enable,
           txn'.begin = txn.begin, txn'.before = txn.before, txn'.original = txn.original,
           txn'.published = txn.published, txn'.enableTried = txn.enableTried,
           txn'.startTried = txn.startTried
    PROVE  TypeInv'
<1>1. HostIn'
  BY DEF TypeInv, HostIn, Continue, history
<1>. QED
  BY <1>1, TypeContinue

\* A service that was started is stopped.
LEMMA TypeStopStarted ==
    ASSUME TypeInv, StopStarted PROVE TypeInv'
<1>1. /\ phase = "stopping" /\ todo # <<>> /\ HostIn /\ TransactionIn(txn)
      /\ Fits(phase, txn, Head(todo)) /\ Continue /\ UNCHANGED <<file, copies, account>>
  BY NextStep DEF StopStarted, At, TypeInv
<1>2. Arg \in Role
  BY <1>1, RolesAre DEF Fits, TransactionIn, Arg
<1>3. PICK ok \in BOOLEAN : /\ Systemctl("stop", Arg, ok)
                            /\ txn' = [txn EXCEPT !.withheld = txn.withheld \/ ~ok]
  BY DEF StopStarted
<1>4. PICK b \in BOOLEAN : b = (txn.withheld \/ ~ok)
  OBVIOUS
<1>5. TransactionIn(txn') /\ Others(txn, txn', "withheld")
  BY <1>1, <1>3, <1>4, NoteIs
<1>6. svc' \in [Role -> Service] /\ faults' \in 0..MaxFaults
  BY <1>1, <1>2, <1>3, SystemctlIs
<1>. QED
  BY <1>1, <1>5, <1>6, TypeRestoring DEF Others

\* The roles whose enablement is to be restored.
LEMMA EnablementPlanIs ==
    ASSUME TransactionIn(txn)
    PROVE  IsPlan(EnablementPlan, ForEach("enablement", txn.enableTried))
<1>1. txn.enableTried \subseteq ToSet(txn.roles) /\ txn.roles \in Seq(Role \cup Artifact)
  BY RolesAre DEF TransactionIn
<1>2. "enablement" \in Op
  BY DEF Op
<1>. QED
  BY <1>1, <1>2, LoopIs DEF EnablementPlan

\* What was not stopped keeps its artifacts.
LEMMA TypeWithholdArtifacts ==
    ASSUME TypeInv, WithholdArtifacts PROVE TypeInv'
<1>1. /\ TransactionIn(txn) /\ txn' = txn /\ phase' = "enablement" /\ todo' = EnablementPlan
      /\ phase = "stopping" /\ run' # 0
  BY DEF TypeInv, WithholdArtifacts, Done, TodoIn
<1>2. HostIn'
  BY DEF TypeInv, WithholdArtifacts, HostIn, host, history, Phase
<1>3. IsPlan(todo', ForEach("enablement", txn.enableTried))
  BY <1>1, EnablementPlanIs
<1>4. \A x \in ForEach("enablement", txn.enableTried) : Fits("enablement", txn, x)
  BY DEF ForEach, Step, Fits
<1>. QED
  BY <1>1, <1>2, <1>3, <1>4, TypePlan

\* The published artifacts are to be restored.
LEMMA TypeRestoreArtifacts ==
    ASSUME TypeInv, RestoreArtifacts PROVE TypeInv'
<1>. DEFINE as == Artifacts(txn.roles)
<1>1. /\ TransactionIn(txn) /\ txn' = txn /\ phase' = "restoring" /\ run' # 0
      /\ todo' = Steps("restore", Those(Reverse(as), txn.published))
  BY DEF TypeInv, RestoreArtifacts, Done, TodoIn
<1>2. HostIn'
  BY DEF TypeInv, RestoreArtifacts, HostIn, host, history, Phase
<1>3. as \in Seq(Artifact) /\ ToSet(as) = OwnArtifacts(txn)
  BY <1>1, ArtifactsAre DEF TransactionIn, OwnArtifacts
<1>. HIDE DEF as
<1>4. as \in Seq(Role \cup Artifact)
  <2>1. as \in Seq(Artifact) /\ Artifact \subseteq Role \cup Artifact
    BY <1>3
  <2>. QED
    BY <2>1, WiderSeq
<1>5. txn.published \subseteq ToSet(as)
  BY <1>1, <1>3 DEF TransactionIn
<1>6. "restore" \in Op
  BY DEF Op
<1>7. IsPlan(todo', ForEach("restore", txn.published))
  BY <1>1, <1>4, <1>5, <1>6, LoopIs
<1>8. \A x \in ForEach("restore", txn.published) : Fits("restoring", txn, x)
  BY DEF ForEach, Step, Fits
<1>. QED
  BY <1>1, <1>2, <1>7, <1>8, TypePlan

\* An artifact is restored.
LEMMA TypeRestoreArtifact ==
    ASSUME TypeInv, RestoreArtifact PROVE TypeInv'
<1>1. /\ phase = "restoring" /\ todo # <<>> /\ HostIn /\ TransactionIn(txn)
      /\ Fits(phase, txn, Head(todo)) /\ Continue /\ UNCHANGED <<copies, svc, account>>
  BY NextStep DEF RestoreArtifact, At, TypeInv
<1>2. Arg \in txn.published
  BY <1>1 DEF Fits, Arg
<1>3. Arg \in Artifact /\ txn.original[Arg] \in Content
  BY <1>1, <1>2, RolesAre DEF TransactionIn, OwnArtifacts, Artifact
<1>4. faults' \in 0..MaxFaults
  BY <1>1, FaultIs DEF RestoreArtifact
<1>5. file' \in [Artifact -> Content]
  BY <1>1, <1>3 DEF RestoreArtifact, HostIn
<1>6. HostIn'
  BY <1>1, <1>4, <1>5 DEF HostIn, Continue, history
<1>7. CASE txn' = txn
  BY <1>1, <1>6, <1>7, TypeContinueSame
<1>8. CASE txn' = [txn EXCEPT !.failed = txn.failed \cup {Arg}]
  <2>1. TransactionIn(txn') /\ Others(txn, txn', "failed")
    BY <1>1, <1>2, <1>8, MarkIs
  <2>. QED
    BY <1>1, <1>6, <2>1, TypeContinue DEF Others
<1>. QED
  BY <1>7, <1>8 DEF RestoreArtifact

\* systemd is reloaded after a restoration.
LEMMA TypeReloadRestored ==
    ASSUME TypeInv, ReloadRestored PROVE TypeInv'
<1>1. /\ HostIn /\ TransactionIn(txn) /\ phase' = "enablement" /\ todo' = EnablementPlan
      /\ phase = "restoring" /\ run' # 0 /\ UNCHANGED <<file, copies, account, run, history>>
  BY DEF TypeInv, ReloadRestored, Done, TodoIn
<1>2. /\ svc' \in [Role -> Service] /\ faults' \in 0..MaxFaults
      /\ TransactionIn(txn') /\ txn'.enableTried = txn.enableTried
  <2>1. CASE txn.published = {}
    BY <1>1, <2>1 DEF ReloadRestored, NoFault, HostIn
  <2>2. CASE txn.published # {}
    <3>1. PICK ok \in BOOLEAN : DaemonReload(ok) /\ txn' = [txn EXCEPT !.reloadOK = ok]
      BY <2>2 DEF ReloadRestored
    <3>2. TransactionIn(txn') /\ Others(txn, txn', "reloadOK")
      BY <1>1, <3>1, NoteIs
    <3>. QED
      BY <1>1, <3>1, <3>2, DaemonReloadIs DEF Others
  <2>. QED
    BY <2>1, <2>2
<1>3. HostIn'
  BY <1>1, <1>2 DEF HostIn, history, Phase
<1>4. IsPlan(todo', ForEach("enablement", txn.enableTried))
  BY <1>1, EnablementPlanIs
<1>5. \A x \in ForEach("enablement", txn.enableTried) : Fits("enablement", txn', x)
  BY <1>2 DEF ForEach, Step, Fits
<1>. QED
  BY <1>1, <1>2, <1>3, <1>4, <1>5, TypePlan

\* A service is enabled or not, as it was.
LEMMA TypeRestoreEnablement ==
    ASSUME TypeInv, RestoreEnablement PROVE TypeInv'
<1>1. /\ phase = "enablement" /\ todo # <<>> /\ HostIn /\ TransactionIn(txn)
      /\ Fits(phase, txn, Head(todo)) /\ Continue /\ UNCHANGED <<file, copies, account>>
  BY NextStep DEF RestoreEnablement, At, TypeInv
<1>2. Arg \in Role
  BY <1>1, RolesAre DEF Fits, TransactionIn, Arg
<1>3. PICK ok \in BOOLEAN :
         /\ Systemctl(IF txn.before[Arg].enabled THEN "enable" ELSE "disable", Arg, ok)
         /\ txn' = [txn EXCEPT !.incomplete = txn.incomplete \/ ~ok]
  BY DEF RestoreEnablement
<1>4. PICK b \in BOOLEAN : b = (txn.incomplete \/ ~ok)
  OBVIOUS
<1>5. TransactionIn(txn') /\ Others(txn, txn', "incomplete")
  BY <1>1, <1>3, <1>4, NoteIs
<1>6. svc' \in [Role -> Service] /\ faults' \in 0..MaxFaults
  BY <1>1, <1>2, <1>3, SystemctlIs
<1>. QED
  BY <1>1, <1>5, <1>6, TypeRestoring DEF Others

\* The services that were started are to be as they were.
LEMMA TypeRestoreActiveStates ==
    ASSUME TypeInv, RestoreActiveStates PROVE TypeInv'
<1>1. /\ TransactionIn(txn) /\ txn' = txn /\ phase' = "activity" /\ run' # 0
      /\ todo' = Steps("activity", Those(Reverse(txn.roles), txn.startTried))
  BY DEF TypeInv, RestoreActiveStates, Done, TodoIn
<1>2. HostIn'
  BY DEF TypeInv, RestoreActiveStates, HostIn, host, history, Phase
<1>3. txn.startTried \subseteq ToSet(txn.roles) /\ txn.roles \in Seq(Role \cup Artifact)
  BY <1>1, RolesAre DEF TransactionIn
<1>4. "activity" \in Op
  BY DEF Op
<1>5. IsPlan(todo', ForEach("activity", txn.startTried))
  BY <1>1, <1>3, <1>4, LoopIs
<1>6. \A x \in ForEach("activity", txn.startTried) : Fits("activity", txn, x)
  BY DEF ForEach, Step, Fits
<1>. QED
  BY <1>1, <1>2, <1>5, <1>6, TypePlan

\* A service runs or not, as it did.
LEMMA TypeRestoreActiveState ==
    ASSUME TypeInv, RestoreActiveState PROVE TypeInv'
<1>1. /\ phase = "activity" /\ todo # <<>> /\ HostIn /\ TransactionIn(txn)
      /\ Fits(phase, txn, Head(todo)) /\ Continue /\ UNCHANGED <<file, copies, account>>
  BY NextStep DEF RestoreActiveState, At, TypeInv
<1>2. Arg \in Role
  BY <1>1, RolesAre DEF Fits, TransactionIn, Arg
<1>3. PICK ok \in BOOLEAN :
         /\ Systemctl(IF txn.before[Arg].active THEN "start" ELSE "stop", Arg, ok)
         /\ txn' = [txn EXCEPT !.incomplete = txn.incomplete \/ ~ok]
  BY DEF RestoreActiveState
<1>4. PICK b \in BOOLEAN : b = (txn.incomplete \/ ~ok)
  OBVIOUS
<1>5. TransactionIn(txn') /\ Others(txn, txn', "incomplete")
  BY <1>1, <1>3, <1>4, NoteIs
<1>6. svc' \in [Role -> Service] /\ faults' \in 0..MaxFaults
  BY <1>1, <1>2, <1>3, SystemctlIs
<1>. QED
  BY <1>1, <1>5, <1>6, TypeRestoring DEF Others

\* The rollback ends.
LEMMA TypeEnd ==
    ASSUME TypeInv, EndIncomplete \/ EndRolledBack PROVE TypeInv'
<1>1. /\ HostIn /\ TransactionIn(txn) /\ txn' = txn /\ phase' = "idle" /\ todo' = <<>>
      /\ UNCHANGED <<file, svc, account, run, faults, history>>
  BY DEF TypeInv, EndIncomplete, EndRolledBack, Finish, host
<1>2. copies' \subseteq copies
  BY DEF EndIncomplete, EndRolledBack, CleanupBackups, host
<1>3. HostIn'
  BY <1>1, <1>2 DEF HostIn, history, Phase
<1>. QED
  BY <1>1, <1>3, TypeFinish

\* A step of an Uninstall.
LEMMA TypeUninstalling ==
    ASSUME TypeInv, phase = "uninstall", todo # <<>>, Continue \/ Fail,
           UNCHANGED <<file, copies, account>>,
           svc' \in [Role -> Service], faults' \in 0..MaxFaults,
           TransactionIn(txn'), Others(txn, txn', "view")
    PROVE  TypeInv'
<1>1. HostIn'
  BY DEF TypeInv, HostIn, Continue, Fail, Finish, history, Phase
<1>2. CASE Continue
  BY <1>1, <1>2, TypeContinue DEF Others
<1>3. CASE Fail
  BY <1>1, <1>3, TypeFinish DEF Fail, Finish
<1>. QED
  BY <1>2, <1>3

\* What an Uninstall step is about.
LEMMA RemovedIs ==
    ASSUME TypeInv, phase = "uninstall", todo # <<>>
    PROVE  /\ Head(todo).op \in {"inspect", "stop", "reset-failed", "disable", "verify"} =>
                 Arg \in Role /\ Arg \in ToSet(txn.roles)
           /\ Head(todo).op = "remove" =>
                 /\ Arg \in Artifact /\ Arg \in Infrastructure(ToSet(txn.roles))
                 /\ Arg[1] \in Role
<1>1. Fits(phase, txn, Head(todo)) /\ TransactionIn(txn)
  BY NextStep DEF TypeInv
<1>2. ToSet(txn.roles) \subseteq Role
  BY <1>1, RolesAre
<1>3. ASSUME Head(todo).op = "remove"
      PROVE  /\ Arg \in Artifact /\ Arg \in Infrastructure(ToSet(txn.roles))
             /\ Arg[1] \in Role
  <2>1. Arg \in Infrastructure(ToSet(txn.roles))
    BY <1>1, <1>3 DEF Fits, Arg
  <2>. QED
    BY <1>2, <2>1 DEF Infrastructure, Artifact
<1>4. ASSUME Head(todo).op \in {"inspect", "stop", "reset-failed", "disable", "verify"}
      PROVE  Arg \in Role /\ Arg \in ToSet(txn.roles)
  <2>1. Arg \in ToSet(txn.roles)
    BY <1>1, <1>4 DEF Fits, Arg
  <2>. QED
    BY <1>2, <2>1
<1>. QED
  BY <1>3, <1>4

\* A transaction that does not change is as it was.
LEMMA OthersSame == ASSUME NEW t PROVE Others(t, t, "view")
BY DEF Others

\* A service is looked at before it is removed.
LEMMA TypeInspectService ==
    ASSUME TypeInv, InspectService PROVE TypeInv'
<1>1. /\ phase = "uninstall" /\ todo # <<>> /\ HostIn /\ TransactionIn(txn)
      /\ UNCHANGED <<file, copies, account, svc>>
      /\ txn' = [txn EXCEPT !.view = svc'[Arg]]
  BY DEF InspectService, At, TypeInv, View
<1>2. TransactionIn(txn') /\ Others(txn, txn', "view")
  BY <1>1, NoteIs
<1>3. faults' \in 0..MaxFaults /\ svc' \in [Role -> Service]
  BY <1>1, FaultIs DEF InspectService, HostIn
<1>4. Continue \/ Fail
  BY DEF InspectService, Proceed
<1>. QED
  BY <1>1, <1>2, <1>3, <1>4, TypeUninstalling

\* A service comes to rest, by a call or because it is there.
LEMMA TypeConverge ==
    ASSUME TypeInv, NEW op, op \in {"stop", "reset-failed", "disable"}, NEW needed, NEW reached,
           Converge(op, needed, reached)
    PROVE  TypeInv'
<1>1. /\ phase = "uninstall" /\ todo # <<>> /\ Head(todo).op = op /\ HostIn /\ TransactionIn(txn)
      /\ UNCHANGED <<file, copies, account>>
  BY DEF Converge, At, TypeInv
<1>2. Arg \in Role
  BY <1>1, RemovedIs
<1>3. CASE needed
  <2>1. PICK ok \in BOOLEAN :
           Systemctl(op, Arg, ok) /\ View /\ Proceed(ok /\ txn'.view \in reached)
    BY <1>3 DEF Converge
  <2>2. svc' \in [Role -> Service] /\ faults' \in 0..MaxFaults
    BY <1>1, <1>2, <2>1, SystemctlIs
  <2>3. TransactionIn(txn') /\ Others(txn, txn', "view")
    BY <1>1, <2>1, NoteIs DEF View
  <2>4. Continue \/ Fail
    BY <2>1 DEF Proceed
  <2>. QED
    BY <1>1, <2>2, <2>3, <2>4, TypeUninstalling
<1>4. CASE ~needed
  <2>1. UNCHANGED svc /\ NoFault /\ UNCHANGED txn /\ Proceed(txn.view \in reached)
    BY <1>4 DEF Converge
  <2>2. svc' \in [Role -> Service] /\ faults' \in 0..MaxFaults
    BY <1>1, <2>1 DEF HostIn, NoFault
  <2>3. TransactionIn(txn') /\ Others(txn, txn', "view")
    BY <1>1, <2>1, OthersSame
  <2>4. Continue \/ Fail
    BY <2>1 DEF Proceed
  <2>. QED
    BY <1>1, <2>2, <2>3, <2>4, TypeUninstalling
<1>. QED
  BY <1>3, <1>4

\* A unit or a binary is removed.
LEMMA TypeRemoveInfrastructure ==
    ASSUME TypeInv, RemoveInfrastructure PROVE TypeInv'
<1>1. /\ phase = "uninstall" /\ todo # <<>> /\ Head(todo).op = "remove" /\ HostIn
      /\ TransactionIn(txn) /\ UNCHANGED <<copies, svc, account, txn, start>>
  BY DEF RemoveInfrastructure, At, TypeInv
<1>2. Arg \in Artifact
  BY <1>1, RemovedIs
<1>3. Absent \in Content
  BY InstallerAssumption DEF Absent, Content
<1>4. file' \in [Artifact -> Content] /\ settled' \in [Artifact -> Content]
  BY <1>1, <1>3 DEF RemoveInfrastructure, HostIn
<1>5. faults' \in 0..MaxFaults
  BY <1>1, FaultIs DEF RemoveInfrastructure
<1>6. \/ todo' = Tail(todo) /\ UNCHANGED <<run, phase, outcome>>
      \/ Finish("failed")
  BY DEF RemoveInfrastructure
<1>7. HostIn'
  BY <1>1, <1>4, <1>5, <1>6 DEF HostIn, Finish, Phase
<1>8. CASE Finish("failed")
  BY <1>1, <1>7, <1>8, TypeFinish DEF Finish
<1>9. CASE todo' = Tail(todo) /\ UNCHANGED <<run, phase, outcome>>
  <2>1. IsPlan(todo', ToSet(todo')) /\ ToSet(todo') \subseteq ToSet(todo)
    BY <1>1, <1>9, NextStep
  <2>2. /\ \A x \in ToSet(todo') : Fits(phase', txn', x)
        /\ phase' = "uninstall" /\ run' # 0 /\ TransactionIn(txn')
    BY <1>1, <1>9, <2>1 DEF TypeInv, TodoIn
  <2>. QED
    BY <1>7, <2>1, <2>2, TypePlan
<1>. QED
  BY <1>6, <1>8, <1>9

\* systemd is reloaded when the units are gone.
LEMMA TypeReloadRemoved ==
    ASSUME TypeInv, ReloadRemoved PROVE TypeInv'
<1>1. /\ phase = "uninstall" /\ todo # <<>> /\ HostIn /\ TransactionIn(txn)
      /\ UNCHANGED <<file, copies, account, txn>>
  BY DEF ReloadRemoved, At, TypeInv
<1>2. PICK ok \in BOOLEAN : DaemonReload(ok) /\ Proceed(ok)
  BY DEF ReloadRemoved
<1>3. svc' \in [Role -> Service] /\ faults' \in 0..MaxFaults
  BY <1>1, <1>2, DaemonReloadIs
<1>4. TransactionIn(txn') /\ Others(txn, txn', "view")
  BY <1>1, OthersSame
<1>5. Continue \/ Fail
  BY <1>2 DEF Proceed
<1>. QED
  BY <1>1, <1>3, <1>4, <1>5, TypeUninstalling

\* What is left is looked at.
LEMMA TypeVerifyRemoved ==
    ASSUME TypeInv, VerifyRemoved PROVE TypeInv'
<1>1. /\ phase = "uninstall" /\ todo # <<>> /\ HostIn /\ TransactionIn(txn)
      /\ UNCHANGED <<file, copies, account, svc, txn>>
  BY DEF VerifyRemoved, At, TypeInv, host
<1>2. svc' \in [Role -> Service] /\ faults' \in 0..MaxFaults
  BY <1>1, FaultIs DEF VerifyRemoved, HostIn
<1>3. TransactionIn(txn') /\ Others(txn, txn', "view")
  BY <1>1, OthersSame
<1>4. Continue \/ Fail
  BY DEF VerifyRemoved, Proceed
<1>. QED
  BY <1>1, <1>2, <1>3, <1>4, TypeUninstalling

\* The steps of an Install fit.
LEMMA InstallFits ==
    ASSUME NEW roles \in Seq(Role), NEW enable \in BOOLEAN, NEW begin \in BOOLEAN,
           NEW t, t.roles = roles, NEW x \in InstallSteps(ToSet(roles), enable, begin)
    PROVE  Fits("install", t, x)
<1>1. \/ x.op \in {"account", "gpu", "reload"}
      \/ x.op \in {"query", "enable", "start"} /\ x.arg \in ToSet(roles)
      \/ x.op \in {"capture", "publish"} /\ x.arg \in ToSet(roles) \X {"binary", "unit", "config"}
  BY DEF InstallSteps, ForEach, Step
<1>. QED
  BY <1>1 DEF Fits, OwnArtifacts

\* The transaction that an invocation begins with.
LEMMA TransactionIs ==
    ASSUME NEW roles \in Seq(Role), NEW enable \in BOOLEAN, NEW begin \in BOOLEAN
    PROVE  /\ TransactionIn(Transaction(roles, enable, begin))
           /\ Transaction(roles, enable, begin).roles = roles
           /\ Transaction(roles, enable, begin).enable = enable
           /\ Transaction(roles, enable, begin).begin = begin
<1>. DEFINE t == Transaction(roles, enable, begin)
<1>1. /\ IsRecord(t) /\ t.roles = roles /\ t.enable = enable /\ t.begin = begin
      /\ t.before = <<>> /\ t.original = <<>>
      /\ t.published = {} /\ t.failed = {} /\ t.enableTried = {} /\ t.startTried = {}
      /\ t.withheld = FALSE /\ t.incomplete = FALSE /\ t.reloadOK = TRUE
  BY DEF Transaction, IsRecord
<1>. HIDE DEF t
<1>2. DOMAIN t.before = {} /\ DOMAIN t.original = {}
  BY <1>1
<1>. QED
  BY <1>1, <1>2 DEF TransactionIn, t

\* An Install begins.
LEMMA TypeInstall ==
    ASSUME TypeInv, NEW roles \in Selections, NEW enable \in BOOLEAN, NEW begin \in BOOLEAN,
           Install(roles, enable, begin)
    PROVE  TypeInv'
<1>. DEFINE t == Transaction(roles, enable, begin)
            S == InstallSteps(ToSet(roles), enable, begin)
<1>1. roles \in Seq(Role)
  BY InstallerAssumption
<1>2. /\ phase = "idle" /\ run < MaxRun /\ run' = run + 1 /\ phase' = "install"
      /\ todo' = InstallPlan(roles, enable, begin) /\ txn' = t /\ start' = file
      /\ UNCHANGED <<host, faults, settled>> /\ (begin => enable)
  BY DEF Install, Invoke
<1>3. TransactionIn(t) /\ t.roles = roles /\ t.enable = enable /\ t.begin = begin
  BY <1>1, TransactionIs
<1>4. IsPlan(todo', S)
  BY <1>1, <1>2, InstallPlanIs
<1>5. run' \in 0..MaxRun /\ run' # 0
  BY <1>2, InstallerAssumption DEF TypeInv, HostIn
<1>6. HostIn'
  BY <1>2, <1>5 DEF TypeInv, HostIn, host, Phase
<1>. HIDE DEF t
<1>7. TodoIn'
  <2>1. \A x \in S : Fits("install", t, x)
    BY <1>1, <1>3, InstallFits
  <2>. HIDE DEF S
  <2>2. todo' \in Seq(PlanStep) /\ Ranked(todo') /\ ToSet(todo') = S
    BY <1>4 DEF IsPlan
  <2>3. \A x \in ToSet(todo') : Fits(phase', txn', x)
    BY <1>2, <2>1, <2>2
  <2>4. txn'.begin => txn'.enable
    BY <1>2, <1>3
  <2>. QED
    BY <1>2, <1>5, <2>2, <2>3, <2>4 DEF TodoIn
<1>8. Foreseen'
  <2>1. ToSet(todo') = S
    BY <1>4 DEF IsPlan
  <2>2. ASSUME NEW r \in ToSet(roles), Step("enable", r) \in S \/ Step("start", r) \in S
        PROVE  Step("query", r) \in S
    <3>1. enable
      BY <1>2, <2>2 DEF InstallSteps, ForEach, Step
    <3>. QED
      BY <3>1 DEF InstallSteps, ForEach
  <2>3. ASSUME NEW a \in ToSet(roles) \X {"binary", "unit", "config"}
        PROVE  Step("capture", a) \in S
    BY DEF InstallSteps, ForEach
  <2>. HIDE DEF S
  <2>. QED
    BY <1>2, <1>3, <2>1, <2>2, <2>3 DEF Foreseen, Pending, OwnArtifacts
<1>. QED
  BY <1>2, <1>3, <1>6, <1>7, <1>8 DEF TypeInv

\* An Uninstall begins.
LEMMA TypeUninstall ==
    ASSUME TypeInv, NEW roles \in Selections, Uninstall(roles)
    PROVE  TypeInv'
<1>. DEFINE t == Transaction(roles, FALSE, FALSE)
            S == UninstallSteps(ToSet(roles))
<1>1. roles \in Seq(Role)
  BY InstallerAssumption
<1>2. /\ phase = "idle" /\ run < MaxRun /\ run' = run + 1 /\ phase' = "uninstall"
      /\ todo' = UninstallPlan(roles) /\ txn' = t /\ start' = file
      /\ UNCHANGED <<host, faults, settled>>
  BY DEF Uninstall, Invoke
<1>3. TransactionIn(t) /\ t.roles = roles
  BY <1>1, TransactionIs
<1>4. IsPlan(todo', S)
  BY <1>1, <1>2, UninstallPlanIs
<1>5. run' \in 0..MaxRun /\ run' # 0
  BY <1>2, InstallerAssumption DEF TypeInv, HostIn
<1>6. HostIn'
  BY <1>2, <1>5 DEF TypeInv, HostIn, host, Phase
<1>. HIDE DEF t
<1>7. ASSUME NEW x \in S PROVE Fits("uninstall", t, x)
  <2>1. \/ x.op = "reload"
        \/ /\ x.op \in {"inspect", "stop", "reset-failed", "disable", "verify"}
           /\ x.arg \in ToSet(roles)
        \/ x.op = "remove" /\ x.arg \in Infrastructure(ToSet(roles))
    BY DEF UninstallSteps, ForEach, Step
  <2>. QED
    BY <1>3, <2>1 DEF Fits
<1>. HIDE DEF S
<1>. QED
  BY <1>2, <1>3, <1>4, <1>5, <1>6, <1>7, TypePlan

\* The program ends, or is killed.
LEMMA TypeStopped ==
    ASSUME TypeInv, EndUninstalled \/ Kill PROVE TypeInv'
<1>1. /\ HostIn /\ TransactionIn(txn) /\ txn' = txn /\ phase' = "idle" /\ todo' = <<>>
      /\ UNCHANGED <<host, run, history>>
  BY DEF TypeInv, EndUninstalled, Kill, Finish
<1>2. faults' \in 0..MaxFaults
  BY <1>1, FaultIs DEF EndUninstalled, Kill, NoFault
<1>3. HostIn'
  BY <1>1, <1>2 DEF HostIn, history, host, Phase
<1>. QED
  BY <1>1, <1>3, TypeFinish

\* A service that fails.
LEMMA FailsIs ==
    ASSUME HostIn, ServiceFails
    PROVE  \E r \in Role :
              /\ svc[r].active /\ svc' \in [Role -> Service]
              /\ \A q \in Role : q # r => svc'[q] = svc[q]
              /\ ~svc'[r].active /\ svc'[r].failed /\ svc'[r].enabled = svc[r].enabled
              /\ svc'[r].loaded = svc[r].loaded
<1>1. PICK r \in Role : svc[r].active /\ Set(r, [svc[r] EXCEPT !.active = FALSE, !.failed = TRUE])
  BY DEF ServiceFails
<1>2. /\ svc[r] = [enabled |-> svc[r].enabled, active |-> svc[r].active,
                   failed |-> svc[r].failed, loaded |-> svc[r].loaded]
      /\ svc[r].enabled \in BOOLEAN /\ svc[r].loaded \in Content
  BY DEF HostIn, Service
<1>3. PICK s : /\ Set(r, s)
               /\ s = [enabled |-> svc[r].enabled, active |-> FALSE,
                       failed |-> TRUE, loaded |-> svc[r].loaded]
  BY <1>1, <1>2, ServiceWithMore
<1>4. s \in Service
  BY <1>2, <1>3 DEF Service
<1>5. svc' \in [Role -> Service] /\ svc'[r] = s /\ \A q \in Role : q # r => svc'[q] = svc[q]
  BY <1>3, <1>4 DEF Set, HostIn
<1>. QED
  BY <1>1, <1>3, <1>5

\* A step that leaves the program alone.
LEMMA TypeElsewhere ==
    ASSUME TypeInv, HostIn', UNCHANGED <<phase, todo, txn, run>>
    PROVE  TypeInv'
BY DEF TypeInv, TodoIn, Foreseen, Pending

\* A service fails.
LEMMA TypeServiceFails ==
    ASSUME TypeInv, ServiceFails PROVE TypeInv'
<1>1. svc' \in [Role -> Service]
  BY FailsIs DEF TypeInv
<1>2. HostIn'
  BY <1>1 DEF TypeInv, HostIn, ServiceFails, history
<1>. QED
  BY <1>2, TypeElsewhere DEF ServiceFails

\* The operator edits a configuration.
LEMMA TypeEditConfiguration ==
    ASSUME TypeInv, EditConfiguration PROVE TypeInv'
<1>1. PICK r \in Role : /\ file' = [file EXCEPT ![<<r, "config">>] = Edited]
                        /\ settled' = [settled EXCEPT ![<<r, "config">>] = Edited]
  BY DEF EditConfiguration
<1>2. Edited \in Content
  BY InstallerAssumption DEF EditConfiguration, TypeInv, HostIn, Edited, Content
<1>3. file' \in [Artifact -> Content] /\ settled' \in [Artifact -> Content]
  BY <1>1, <1>2 DEF TypeInv, HostIn
<1>4. HostIn'
  BY <1>3 DEF TypeInv, HostIn, EditConfiguration
<1>. QED
  BY <1>4, TypeElsewhere DEF EditConfiguration

\* The types at the beginning.
LEMMA TypeInit == Init => TypeInv
<1>. SUFFICES ASSUME Init PROVE TypeInv
  OBVIOUS
<1>1. PICK h \in InitHost : file = h.file /\ svc = h.svc /\ account = h.account
  BY DEF Init
<1>2. /\ file \in [Artifact -> Content] /\ svc \in [Role -> Service]
      /\ account = [exists |-> account.exists, groups |-> account.groups]
      /\ account.exists \in BOOLEAN /\ account.groups \subseteq {d.group : d \in Devices}
  <2>. DEFINE all == {d.group : d \in Devices}
  <2>1. /\ file \in [Artifact -> Content] /\ svc \in [Role -> Service]
        /\ account \in [exists : BOOLEAN, groups : SUBSET all]
    BY <1>1, InstallerAssumption
  <2>. HIDE DEF all
  <2>2. /\ account = [exists |-> account.exists, groups |-> account.groups]
        /\ account.exists \in BOOLEAN /\ account.groups \subseteq all
    BY <2>1
  <2>. QED
    BY <2>1, <2>2 DEF all
<1>3. HostIn
  BY <1>2, InstallerAssumption DEF Init, HostIn, Phase
<1>4. <<>> \in Seq(Role) /\ FALSE \in BOOLEAN
  OBVIOUS
<1>5. TransactionIn(txn)
  BY <1>4, TransactionIs DEF Init
<1>6. TodoIn
  BY DEF Init, TodoIn, Ranked, ToSet
<1>7. Foreseen
  BY DEF Init, Foreseen
<1>. QED
  BY <1>3, <1>5, <1>6, <1>7 DEF TypeInv

\* Every step keeps the types.
LEMMA TypeNext == TypeInv /\ [Next]_vars => TypeInv'
<1>. SUFFICES ASSUME TypeInv, [Next]_vars PROVE TypeInv'
  OBVIOUS
<1>1. CASE \E roles \in Selections, enable, begin \in BOOLEAN : Install(roles, enable, begin)
  BY <1>1, TypeInstall
<1>2. CASE \E roles \in Selections : Uninstall(roles)
  BY <1>2, TypeUninstall
<1>3. CASE RunInstall
  BY <1>3, TypeEnsureServiceAccount, TypeEnsureGPUAccess, TypeQueryService, TypeCaptureArtifact,
     TypeReplaceFile, TypeCreatePreservedFile, TypeReloadUnits, TypeEnableService,
     TypeStartService, TypeCommit DEF RunInstall
<1>4. CASE Rollback
  BY <1>4, TypeStopStarted, TypeWithholdArtifacts, TypeRestoreArtifacts, TypeRestoreArtifact,
     TypeReloadRestored, TypeRestoreEnablement, TypeRestoreActiveStates, TypeRestoreActiveState,
     TypeEnd DEF Rollback
<1>5. CASE RunUninstall
  <2>1. CASE StopService \/ ResetFailed \/ DisableService
    <3>1. CASE StopService
      BY <3>1, TypeConverge DEF StopService
    <3>2. CASE ResetFailed
      BY <3>2, TypeConverge DEF ResetFailed
    <3>3. CASE DisableService
      BY <3>3, TypeConverge DEF DisableService
    <3>. QED
      BY <2>1, <3>1, <3>2, <3>3
  <2>. QED
    BY <1>5, <2>1, TypeInspectService, TypeRemoveInfrastructure, TypeReloadRemoved,
       TypeVerifyRemoved, TypeStopped DEF RunUninstall
<1>6. CASE Kill
  BY <1>6, TypeStopped
<1>7. CASE ServiceFails
  BY <1>7, TypeServiceFails
<1>8. CASE EditConfiguration
  BY <1>8, TypeEditConfiguration
<1>9. CASE UNCHANGED vars
  <2>1. HostIn'
    BY <1>9 DEF TypeInv, HostIn, vars, host, history
  <2>. QED
    BY <1>9, <2>1, TypeElsewhere DEF vars
<1>. QED
  BY <1>1, <1>2, <1>3, <1>4, <1>5, <1>6, <1>7, <1>8, <1>9 DEF Next

\* What the runs check of the types follows.
LEMMA TypesAreChecked == TypeInv => InstallerTypeOK
BY DEF TypeInv, HostIn, TransactionIn, TodoIn, InstallerTypeOK

\* The types, at every step of any invocation on any host.
THEOREM InstallerTypesAlways == Spec => []InstallerTypeOK
<1>1. TypeInv /\ [Next]_vars => TypeInv'
  BY TypeNext
<1>. QED
  BY TypeInit, TypesAreChecked, <1>1, PTL DEF Spec

(***************************************************************************)
(* What is on disk.                                                        *)
(***************************************************************************)

\* An Untouched host, of which everything that is found is captured, and in which
\* everything that is changed can be put back, keeps the originals.
LEMMA OriginalsSurviveNow ==
    ASSUME TypeInv, OriginalsInv PROVE OriginalsSurvive
<1>1. CASE ~InTransaction
  BY <1>1 DEF OriginalsInv, Base
<1>2. ASSUME InTransaction, NEW a \in Artifact
      PROVE  \/ settled[a] \in {Absent, file[a]}
             \/ \E n \in 1..MaxRun : <<n, a, settled[a]>> \in copies
  <2>1. run \in 1..MaxRun
    BY <1>2, InstallerAssumption DEF InTransaction, TypeInv, TodoIn, HostIn
  <2>2. \/ settled[a] \in {Absent, start[a]}
        \/ \E n \in 1..(run - 1) : <<n, a, settled[a]>> \in copies
    BY <1>2 DEF OriginalsInv, Base
  <2>3. \A n \in 1..(run - 1) : n \in 1..MaxRun
    BY <2>1, InstallerAssumption
  <2>4. \/ file[a] = start[a]
        \/ start[a] = Absent \/ <<run, a, start[a]>> \in copies
    BY <1>2 DEF OriginalsInv, Captured
  <2>. QED
    BY <2>1, <2>2, <2>3, <2>4
<1>. QED
  BY <1>1, <1>2 DEF OriginalsSurvive

\* The program ends and has removed nothing.
LEMMA OriginalsEnd ==
    ASSUME TypeInv, OriginalsInv, phase' = "idle", UNCHANGED <<file, copies, settled, run>>
    PROVE  OriginalsInv'
<1>1. OriginalsSurvive'
  BY OriginalsSurviveNow DEF OriginalsSurvive
<1>. QED
  BY <1>1 DEF OriginalsInv, Untouched, Captured, Base, NoLaterCopy, Restored, InTransaction

\* The program ends and has removed copies of its own.
LEMMA OriginalsCleaned ==
    ASSUME TypeInv, OriginalsInv, NEW kept, CleanupBackups(kept), phase' = "idle", UNCHANGED run,
           InTransaction,
           \A a \in Artifact :
              \/ settled'[a] \in {Absent, file'[a]}
              \/ settled'[a] = settled[a] /\ settled[a] # start[a]
    PROVE  OriginalsInv'
<1>1. copies' \subseteq copies /\ \A c \in copies : c[1] # run => c \in copies'
  BY DEF CleanupBackups, Own
<1>2. run \in 1..MaxRun
  BY InstallerAssumption DEF InTransaction, TypeInv, TodoIn, HostIn
<1>3. ASSUME NEW a \in Artifact
      PROVE  \/ settled'[a] \in {Absent, file'[a]}
             \/ \E n \in 1..MaxRun : <<n, a, settled'[a]>> \in copies'
  <2>1. CASE settled'[a] \in {Absent, file'[a]}
    BY <2>1
  <2>2. CASE settled'[a] = settled[a] /\ settled[a] \notin {Absent, start[a]}
    <3>1. PICK n \in 1..(run - 1) : <<n, a, settled[a]>> \in copies
      BY <2>2 DEF OriginalsInv, Base
    <3>2. n \in 1..MaxRun /\ n # run
      BY <1>2, <3>1, InstallerAssumption
    <3>3. <<n, a, settled[a]>> \in copies'
      BY <1>1, <3>1, <3>2
    <3>. QED
      BY <2>2, <3>2, <3>3
  <2>. QED
    BY <2>1, <2>2
<1>4. OriginalsSurvive'
  BY <1>3 DEF OriginalsSurvive
<1>. QED
  BY <1>1, <1>4 DEF OriginalsInv, Untouched, Captured, Base, NoLaterCopy, Restored, InTransaction

\* A refusal comes before anything is changed.
LEMMA OriginalsRefuse ==
    ASSUME TypeInv, OriginalsInv, Refuse, phase = "install", todo # <<>>, Rank(Head(todo)) = 0
    PROVE  OriginalsInv'
<1>1. PICK kept \in Kept : CleanupBackups(kept)
  BY DEF Refuse
<1>2. phase' = "idle" /\ UNCHANGED <<file, start, settled, run>>
  BY DEF Refuse, Finish, history
<1>3. file = start
  BY NextStep DEF OriginalsInv, Untouched
<1>4. InTransaction
  BY DEF InTransaction
<1>. QED
  BY <1>1, <1>2, <1>3, <1>4, OriginalsCleaned

\* A step that changes no file.
LEMMA OriginalsContinue ==
    ASSUME TypeInv, TypeInv', OriginalsInv, todo # <<>>, Continue, UNCHANGED <<file, copies>>,
           txn'.original = txn.original, txn'.published = txn.published,
           txn'.failed = txn.failed, txn'.reloadOK = txn.reloadOK,
           phase # "stopping" => txn'.withheld = txn.withheld,
           phase = "install" =>
              /\ txn'.incomplete = txn.incomplete
              /\ \/ Rank(Head(todo)) # 0
                 \/ txn'.enableTried = txn.enableTried /\ txn'.startTried = txn.startTried,
           Head(todo).op # "restore"
    PROVE  OriginalsInv'
<1>1. /\ phase' = phase /\ UNCHANGED <<run, start, settled>> /\ todo' = Tail(todo)
      /\ ToSet(todo') \subseteq ToSet(todo) /\ Head(todo) \in ToSet(todo)
      /\ ToSet(todo) = {Head(todo)} \cup ToSet(todo')
      /\ \A x \in ToSet(todo) : Rank(Head(todo)) <= Rank(x)
  BY NextStep DEF Continue, history
<1>2. Untouched'
  <2>. SUFFICES ASSUME phase = "install", NEW x \in ToSet(todo'), Rank(x) = 0
                PROVE  /\ file = start /\ txn.published = {}
                       /\ txn'.enableTried = {} /\ txn'.startTried = {}
    BY <1>1 DEF Untouched
  <2>1. Rank(Head(todo)) = 0
    <3>1. Rank(Head(todo)) <= 0 /\ Rank(Head(todo)) \in 0..3
      BY <1>1 DEF Rank
    <3>. QED
      BY <3>1
  <2>. QED
    BY <1>1, <2>1 DEF OriginalsInv, Untouched
<1>3. Captured' /\ Base' /\ NoLaterCopy'
  BY <1>1 DEF OriginalsInv, Captured, Base, NoLaterCopy, InTransaction, OriginalsSurvive
<1>4. Restored'
  <2>1. \A a : Step("restore", a) \in ToSet(todo) => Step("restore", a) \in ToSet(todo')
    BY <1>1 DEF Step
  <2>. QED
    BY <1>1, <2>1 DEF OriginalsInv, Restored, Pending, AllRestored
<1>. QED
  BY <1>2, <1>3, <1>4 DEF OriginalsInv

\* A rollback begins.
LEMMA OriginalsRollBack ==
    ASSUME OriginalsInv, phase = "install", NEW t, RollBack(t), UNCHANGED copies, Captured'
    PROVE  OriginalsInv'
<1>1. phase' = "stopping" /\ UNCHANGED <<run, start, settled>>
  BY DEF RollBack, history
<1>. QED
  BY <1>1 DEF OriginalsInv, Untouched, Base, NoLaterCopy, Restored, InTransaction

\* What is captured and changed when neither changes.
LEMMA CapturedStill ==
    ASSUME Captured, UNCHANGED <<file, copies, start, run>>, InTransaction,
           txn'.original = txn.original, txn'.published = txn.published
    PROVE  Captured'
BY DEF Captured, InTransaction

\* The steps of an Install that look and prepare.
LEMMA OriginalsPrepare ==
    ASSUME TypeInv, TypeInv', OriginalsInv,
           EnsureServiceAccount \/ EnsureGPUAccess \/ QueryService
    PROVE  OriginalsInv'
<1>1. /\ phase = "install" /\ todo # <<>> /\ Head(todo).op \in {"account", "gpu", "query"}
      /\ TransactionIn(txn)
  BY DEF EnsureServiceAccount, EnsureGPUAccess, QueryService, At, TypeInv
<1>2. Rank(Head(todo)) = 0 /\ Head(todo).op # "restore"
  BY <1>1 DEF Rank
<1>3. CASE Refuse
  BY <1>1, <1>2, <1>3, OriginalsRefuse
<1>4. CASE Continue /\ UNCHANGED <<file, copies, txn>>
  BY <1>1, <1>2, <1>4, OriginalsContinue
<1>5. CASE Continue /\ QueryService /\ UNCHANGED host /\ ~Refuse
  <2>1. PICK b : txn' = [txn EXCEPT !.before = b]
    BY <1>5 DEF QueryService
  <2>2. txn' = [roles |-> txn.roles, enable |-> txn.enable, begin |-> txn.begin,
                before |-> b, original |-> txn.original,
                published |-> txn.published, failed |-> txn.failed,
                enableTried |-> txn.enableTried, startTried |-> txn.startTried,
                withheld |-> txn.withheld, incomplete |-> txn.incomplete,
                reloadOK |-> txn.reloadOK, view |-> txn.view]
    BY <1>1, <2>1, TxnWithBefore DEF TransactionIn
  <2>3. /\ txn'.original = txn.original /\ txn'.published = txn.published
        /\ txn'.failed = txn.failed /\ txn'.reloadOK = txn.reloadOK
        /\ txn'.withheld = txn.withheld /\ txn'.incomplete = txn.incomplete
        /\ txn'.enableTried = txn.enableTried /\ txn'.startTried = txn.startTried
    BY <2>2
  <2>. QED
    BY <1>1, <1>2, <1>5, <2>3, OriginalsContinue DEF host
<1>. QED
  BY <1>3, <1>4, <1>5 DEF EnsureServiceAccount, EnsureGPUAccess, QueryService

\* An artifact is captured.
LEMMA OriginalsCapture ==
    ASSUME TypeInv, TypeInv', OriginalsInv, CaptureArtifact PROVE OriginalsInv'
<1>1. phase = "install" /\ todo # <<>> /\ Head(todo).op = "capture" /\ TransactionIn(txn)
  BY DEF CaptureArtifact, At, TypeInv
<1>2. Rank(Head(todo)) = 0 /\ Head(todo).op # "restore"
  BY <1>1 DEF Rank
<1>3. CASE Refuse
  BY <1>1, <1>2, <1>3, OriginalsRefuse
<1>4. ASSUME txn' = [txn EXCEPT !.original = Noted(txn.original, Arg, file[Arg])],
             copies' = copies \cup {<<run, Arg, c>> : c \in {file[Arg]} \ {Absent}},
             Continue, UNCHANGED <<file, svc, account>>
      PROVE  OriginalsInv'
  <2>1. PICK o : o = Noted(txn.original, Arg, file[Arg])
    OBVIOUS
  <2>2. txn' = [roles |-> txn.roles, enable |-> txn.enable, begin |-> txn.begin,
                before |-> txn.before, original |-> o,
                published |-> txn.published, failed |-> txn.failed,
                enableTried |-> txn.enableTried, startTried |-> txn.startTried,
                withheld |-> txn.withheld, incomplete |-> txn.incomplete,
                reloadOK |-> txn.reloadOK, view |-> txn.view]
    BY <1>1, <1>4, <2>1, TxnWithOriginal DEF TransactionIn
  <2>3. /\ txn'.original = o /\ txn'.published = txn.published
        /\ txn'.failed = txn.failed /\ txn'.reloadOK = txn.reloadOK
        /\ txn'.withheld = txn.withheld /\ txn'.incomplete = txn.incomplete
        /\ txn'.enableTried = txn.enableTried /\ txn'.startTried = txn.startTried
    BY <2>2
  <2>4. /\ DOMAIN o = DOMAIN txn.original \cup {Arg}
        /\ \A a \in DOMAIN txn.original : o[a] = txn.original[a]
        /\ Arg \notin DOMAIN txn.original => o[Arg] = file[Arg]
    BY <2>1 DEF Noted
  <2>5. /\ file = start /\ txn.published = {}
        /\ txn.enableTried = {} /\ txn.startTried = {}
    BY <1>1, <1>2, NextStep DEF OriginalsInv, Untouched
  <2>6. /\ phase' = "install" /\ UNCHANGED <<run, start, settled>>
    BY <1>1, <1>4 DEF Continue, history
  <2>7. Untouched'
    BY <1>4, <2>3, <2>5, <2>6 DEF Untouched
  <2>8. /\ copies \subseteq copies'
        /\ \A c \in copies' : c \in copies \/ c = <<run, Arg, file[Arg]>>
        /\ file[Arg] # Absent => <<run, Arg, file[Arg]>> \in copies'
    BY <1>4
  <2>9. Captured'
    <3>1. ASSUME NEW a \in DOMAIN o
          PROVE  o[a] = start[a] /\ (start[a] = Absent \/ <<run, a, start[a]>> \in copies')
      <4>1. CASE a \in DOMAIN txn.original
        <5>1. /\ txn.original[a] = start[a]
              /\ start[a] = Absent \/ <<run, a, start[a]>> \in copies
          BY <1>1, <4>1 DEF OriginalsInv, Captured, InTransaction
        <5>. QED
          BY <2>4, <2>8, <4>1, <5>1
      <4>2. CASE a \notin DOMAIN txn.original
        BY <2>4, <2>5, <2>8, <4>2
      <4>. QED
        BY <4>1, <4>2
    <3>. QED
      BY <1>4, <2>3, <2>5, <2>6, <3>1 DEF Captured
  <2>10. Base' /\ NoLaterCopy'
    <3>1. Base'
      BY <1>1, <2>6, <2>8 DEF OriginalsInv, Base, InTransaction
    <3>2. NoLaterCopy'
      <4>1. run \in Nat
        BY DEF TypeInv, HostIn
      <4>. QED
        BY <2>6, <2>8, <4>1 DEF OriginalsInv, NoLaterCopy
    <3>. QED
      BY <3>1, <3>2
  <2>11. Restored'
    BY <1>1, <2>3, <2>6 DEF OriginalsInv, Restored
  <2>. QED
    BY <2>7, <2>9, <2>10, <2>11 DEF OriginalsInv
<1>. QED
  BY <1>3, <1>4 DEF CaptureArtifact

\* A step that publishes an artifact, or fails to: what it changes is captured, and
\* marked or a configuration where there was none.
LEMMA OriginalsPublish ==
    ASSUME TypeInv, TypeInv', OriginalsInv, ReplaceFile \/ CreatePreservedFile
    PROVE  OriginalsInv'
<1>. DEFINE t == [txn EXCEPT !.published = txn.published \cup {Arg}]
<1>1. At("install", "publish") /\ phase = "install" /\ todo # <<>> /\ TransactionIn(txn)
  BY DEF ReplaceFile, CreatePreservedFile, At, TypeInv
<1>2. /\ Arg \in DOMAIN txn.original /\ Arg \in Artifact
      /\ Head(todo) = Step("publish", Arg) /\ Rank(Head(todo)) = 1
  BY <1>1, PublishedIsCaptured
<1>3. TransactionIn(t) /\ Others(txn, t, "published") /\ t.published = txn.published \cup {Arg}
  BY <1>1, <1>2, MarkIs
<1>4. /\ t.original = txn.original /\ t.failed = txn.failed /\ t.withheld = txn.withheld
      /\ t.reloadOK = txn.reloadOK /\ t.incomplete = txn.incomplete
      /\ t.enableTried = txn.enableTried /\ t.startTried = txn.startTried
  BY <1>3 DEF Others
<1>. HIDE DEF t
<1>5. /\ UNCHANGED <<copies, run, start, settled>> /\ file \in [Artifact -> Content]
      /\ InTransaction /\ InTransaction'
  BY <1>1 DEF ReplaceFile, CreatePreservedFile, ContinueOrRollBack, Continue, RollBack, history,
              TypeInv, HostIn, InTransaction
<1>6. /\ file' \in [Artifact -> Content]
      /\ \A a \in Artifact : a # Arg => file'[a] = file[a]
  BY <1>2, <1>5 DEF ReplaceFile, CreatePreservedFile, TypeInv, HostIn
<1>7. \/ txn' = t
      \/ txn' = txn /\ file' = file
      \/ /\ txn' = txn /\ Arg[2] = "config" /\ file[Arg] = Absent /\ file'[Arg] = Default
  BY <1>2, <1>5 DEF ReplaceFile, CreatePreservedFile, ContinueOrRollBack, RollBack, t
<1>8. Captured'
  <2>1. /\ \A a \in DOMAIN txn.original :
              /\ txn.original[a] = start[a]
              /\ start[a] = Absent \/ <<run, a, start[a]>> \in copies
        /\ \A a \in Artifact :
              \/ file[a] = start[a]
              \/ /\ a \in DOMAIN txn.original
                 /\ \/ a \in txn.published
                    \/ start[a] = Absent /\ a[2] = "config" /\ file[a] = Default
    BY <1>5 DEF OriginalsInv, Captured
  <2>2. CASE txn' = t
    BY <1>2, <1>3, <1>4, <1>5, <1>6, <2>1, <2>2 DEF Captured
  <2>3. CASE txn' = txn /\ file' = file
    BY <1>5, <2>1, <2>3 DEF Captured
  <2>4. CASE txn' = txn /\ Arg[2] = "config" /\ file[Arg] = Absent /\ file'[Arg] = Default
    <3>1. Absent # Default
      BY DEF Absent, Default
    <3>2. ASSUME NEW a \in Artifact
          PROVE  \/ file'[a] = start[a]
                 \/ /\ a \in DOMAIN txn.original
                    /\ \/ a \in txn.published
                       \/ start[a] = Absent /\ a[2] = "config" /\ file'[a] = Default
      <4>1. CASE a = Arg
        BY <1>2, <2>1, <2>4, <3>1, <4>1
      <4>2. CASE a # Arg
        BY <1>6, <2>1, <4>2
      <4>. QED
        BY <4>1, <4>2
    <3>. QED
      BY <1>5, <2>1, <2>4, <3>2 DEF Captured
  <2>. QED
    BY <1>7, <2>2, <2>3, <2>4
<1>9. CASE RollBack(t) \/ RollBack(txn)
  BY <1>1, <1>5, <1>8, <1>9, OriginalsRollBack
<1>10. CASE Continue
  <2>1. /\ phase' = "install" /\ ToSet(todo') \subseteq ToSet(todo)
        /\ \A x \in ToSet(todo) : Rank(Head(todo)) <= Rank(x)
    BY <1>1, <1>10, NextStep DEF Continue
  <2>2. Untouched'
    <3>1. \A x \in ToSet(todo') : Rank(x) # 0
      BY <1>2, <2>1
    <3>. QED
      BY <3>1 DEF Untouched
  <2>3. Base' /\ NoLaterCopy'
    BY <1>5 DEF OriginalsInv, Base, NoLaterCopy
  <2>4. Restored'
    BY <1>1, <1>4, <1>7, <2>1 DEF OriginalsInv, Restored
  <2>. QED
    BY <1>8, <2>2, <2>3, <2>4 DEF OriginalsInv
<1>11. Continue \/ RollBack(t) \/ RollBack(txn)
  BY DEF ReplaceFile, CreatePreservedFile, ContinueOrRollBack, t
<1>. QED
  BY <1>9, <1>10, <1>11

\* A step that goes on or rolls back, and changes no file.
LEMMA OriginalsGoOn ==
    ASSUME TypeInv, TypeInv', OriginalsInv, phase = "install", todo # <<>>,
           Head(todo).op \in {"reload", "enable", "start"},
           UNCHANGED <<file, copies>>, NEW t, NEW ok \in BOOLEAN, ContinueOrRollBack(ok, t),
           t.original = txn.original, t.published = txn.published, t.failed = txn.failed,
           t.withheld = txn.withheld, t.reloadOK = txn.reloadOK, t.incomplete = txn.incomplete
    PROVE  OriginalsInv'
<1>1. Rank(Head(todo)) # 0 /\ Head(todo).op # "restore" /\ InTransaction
  BY DEF Rank, InTransaction
<1>2. CASE ok
  BY <1>1, <1>2, OriginalsContinue DEF ContinueOrRollBack
<1>3. CASE ~ok
  <2>1. RollBack(t)
    BY <1>3 DEF ContinueOrRollBack
  <2>2. Captured'
    <3>1. txn' = t /\ UNCHANGED <<start, run>>
      BY <2>1 DEF RollBack, history
    <3>. QED
      BY <1>1, <3>1, CapturedStill DEF OriginalsInv
  <2>. QED
    BY <2>1, <2>2, OriginalsRollBack
<1>. QED
  BY <1>2, <1>3

\* systemd is reloaded, services are enabled and started.
LEMMA OriginalsServices ==
    ASSUME TypeInv, TypeInv', OriginalsInv, ReloadUnits \/ EnableService \/ StartService
    PROVE  OriginalsInv'
<1>1. phase = "install" /\ todo # <<>> /\ TransactionIn(txn) /\ UNCHANGED <<file, copies>>
  BY DEF ReloadUnits, EnableService, StartService, At, TypeInv
<1>2. CASE ReloadUnits
  <2>1. PICK ok \in BOOLEAN : ContinueOrRollBack(ok, txn)
    BY <1>2 DEF ReloadUnits
  <2>2. Head(todo).op = "reload"
    BY <1>2 DEF ReloadUnits, At
  <2>. QED
    BY <1>1, <2>1, <2>2, OriginalsGoOn
<1>3. CASE EnableService
  <2>. DEFINE t == [txn EXCEPT !.enableTried = txn.enableTried \cup {Arg}]
  <2>1. PICK ok \in BOOLEAN : ContinueOrRollBack(ok, t)
    BY <1>3 DEF EnableService
  <2>2. Head(todo).op = "enable" /\ Arg \in DOMAIN txn.before
    BY <1>3, TriedIsQueried DEF EnableService, At
  <2>3. Others(txn, t, "enableTried")
    BY <1>1, <2>2, MarkIs
  <2>4. /\ t.original = txn.original /\ t.published = txn.published /\ t.failed = txn.failed
        /\ t.withheld = txn.withheld /\ t.reloadOK = txn.reloadOK
        /\ t.incomplete = txn.incomplete
    BY <2>3 DEF Others
  <2>. HIDE DEF t
  <2>. QED
    BY <1>1, <2>1, <2>2, <2>4, OriginalsGoOn
<1>4. CASE StartService
  <2>. DEFINE t == [txn EXCEPT !.startTried = txn.startTried \cup {Arg}]
  <2>1. PICK ok \in BOOLEAN : ContinueOrRollBack(ok, t)
    BY <1>4 DEF StartService
  <2>2. Head(todo).op = "start" /\ Arg \in DOMAIN txn.before
    BY <1>4, TriedIsQueried DEF StartService, At
  <2>3. Others(txn, t, "startTried")
    BY <1>1, <2>2, MarkIs
  <2>4. /\ t.original = txn.original /\ t.published = txn.published /\ t.failed = txn.failed
        /\ t.withheld = txn.withheld /\ t.reloadOK = txn.reloadOK
        /\ t.incomplete = txn.incomplete
    BY <2>3 DEF Others
  <2>. HIDE DEF t
  <2>. QED
    BY <1>1, <2>1, <2>2, <2>4, OriginalsGoOn
<1>. QED
  BY <1>2, <1>3, <1>4

\* A commit settles the roles it installed, and leaves the others as they were found.
LEMMA OriginalsCommit ==
    ASSUME TypeInv, OriginalsInv, Commit PROVE OriginalsInv'
<1>1. PICK kept : CleanupBackups(kept)
  BY DEF Commit
<1>2. /\ phase' = "idle" /\ UNCHANGED <<file, run>> /\ InTransaction /\ TransactionIn(txn)
      /\ \A a \in Artifact :
            settled'[a] = IF a[1] \in ToSet(txn.roles) THEN file[a] ELSE settled[a]
  BY DEF Commit, Finish, Done, InTransaction, TypeInv
<1>3. \A a \in Artifact :
         \/ settled'[a] \in {Absent, file'[a]}
         \/ settled'[a] = settled[a] /\ settled[a] # start[a]
  <2>. TAKE a \in Artifact
  <2>1. CASE a[1] \in ToSet(txn.roles)
    BY <1>2, <2>1
  <2>2. CASE a[1] \notin ToSet(txn.roles)
    <3>1. a \notin DOMAIN txn.original
      BY <1>2, <2>2 DEF TransactionIn, OwnArtifacts
    <3>2. file[a] = start[a]
      BY <1>2, <3>1 DEF OriginalsInv, Captured
    <3>. QED
      BY <1>2, <2>2, <3>2
  <2>. QED
    BY <2>1, <2>2
<1>. QED
  BY <1>1, <1>2, <1>3, OriginalsCleaned

\* A service is stopped, enabled, disabled or started on the way back.
LEMMA OriginalsRestoreServices ==
    ASSUME TypeInv, TypeInv', OriginalsInv,
           StopStarted \/ RestoreEnablement \/ RestoreActiveState
    PROVE  OriginalsInv'
<1>1. /\ todo # <<>> /\ TransactionIn(txn) /\ UNCHANGED <<file, copies>> /\ Continue
      /\ phase # "install" /\ Head(todo).op # "restore"
      /\ (RestoreEnablement \/ RestoreActiveState) => phase # "stopping"
  BY DEF StopStarted, RestoreEnablement, RestoreActiveState, At, TypeInv
<1>2. \/ phase = "stopping" /\ Others(txn, txn', "withheld")
      \/ Others(txn, txn', "incomplete")
  <2>1. CASE StopStarted
    <3>1. PICK ok \in BOOLEAN : txn' = [txn EXCEPT !.withheld = txn.withheld \/ ~ok]
      BY <2>1 DEF StopStarted
    <3>2. PICK b \in BOOLEAN : b = (txn.withheld \/ ~ok)
      OBVIOUS
    <3>. QED
      BY <1>1, <2>1, <3>1, <3>2, NoteIs DEF StopStarted, At
  <2>2. CASE RestoreEnablement \/ RestoreActiveState
    <3>1. PICK ok \in BOOLEAN : txn' = [txn EXCEPT !.incomplete = txn.incomplete \/ ~ok]
      BY <2>2 DEF RestoreEnablement, RestoreActiveState
    <3>2. PICK b \in BOOLEAN : b = (txn.incomplete \/ ~ok)
      OBVIOUS
    <3>. QED
      BY <1>1, <3>1, <3>2, NoteIs
  <2>. QED
    BY <2>1, <2>2
<1>3. /\ txn'.original = txn.original /\ txn'.published = txn.published
      /\ txn'.failed = txn.failed /\ txn'.reloadOK = txn.reloadOK
      /\ phase # "stopping" => txn'.withheld = txn.withheld
  BY <1>2 DEF Others
<1>. QED
  BY <1>1, <1>3, OriginalsContinue

\* The rollback goes on to its next part.
LEMMA OriginalsNextPart ==
    ASSUME TypeInv, TypeInv', OriginalsInv,
           WithholdArtifacts \/ RestoreArtifacts \/ ReloadRestored \/ RestoreActiveStates
    PROVE  OriginalsInv'
<1>1. /\ UNCHANGED <<file, copies, run, start, settled>> /\ InTransaction /\ InTransaction'
      /\ phase' \notin {"install", "stopping"} /\ TransactionIn(txn)
  BY DEF WithholdArtifacts, RestoreArtifacts, ReloadRestored, RestoreActiveStates, host, history,
         InTransaction, Done, TypeInv
<1>2. \/ txn' = txn
      \/ ReloadRestored /\ Others(txn, txn', "reloadOK")
  <2>1. CASE ReloadRestored /\ txn.published # {}
    <3>1. PICK ok \in BOOLEAN : txn' = [txn EXCEPT !.reloadOK = ok]
      BY <2>1 DEF ReloadRestored
    <3>. QED
      BY <1>1, <2>1, <3>1, NoteIs
  <2>2. CASE ReloadRestored /\ txn.published = {}
    BY <2>2 DEF ReloadRestored
  <2>3. CASE WithholdArtifacts \/ RestoreArtifacts \/ RestoreActiveStates
    BY <2>3 DEF WithholdArtifacts, RestoreArtifacts, RestoreActiveStates
  <2>. QED
    BY <2>1, <2>2, <2>3
<1>3. /\ txn'.original = txn.original /\ txn'.published = txn.published
      /\ txn'.failed = txn.failed /\ txn'.withheld = txn.withheld
  BY <1>2 DEF Others
<1>4. Untouched' /\ Captured' /\ Base' /\ NoLaterCopy'
  BY <1>1, <1>3, CapturedStill DEF OriginalsInv, Untouched, Base, NoLaterCopy
<1>5. Restored'
  <2>1. CASE WithholdArtifacts
    BY <1>1, <1>3, <2>1 DEF WithholdArtifacts, Restored
  <2>2. CASE RestoreArtifacts
    <3>. DEFINE as == Artifacts(txn.roles)
    <3>1. /\ phase' = "restoring"
          /\ todo' = Steps("restore", Those(Reverse(as), txn.published))
      BY <2>2 DEF RestoreArtifacts
    <3>2. as \in Seq(Artifact) /\ ToSet(as) = OwnArtifacts(txn)
      BY <1>1, ArtifactsAre DEF TransactionIn, OwnArtifacts
    <3>. HIDE DEF as
    <3>3. as \in Seq(Role \cup Artifact) /\ txn.published \subseteq ToSet(as)
      <4>1. as \in Seq(Artifact) /\ Artifact \subseteq Role \cup Artifact
        BY <3>2
      <4>2. as \in Seq(Role \cup Artifact)
        BY <4>1, WiderSeq
      <4>. QED
        BY <1>1, <3>2, <4>2 DEF TransactionIn
    <3>4. "restore" \in Op
      BY DEF Op
    <3>5. IsPlan(todo', ForEach("restore", txn.published))
      BY <3>1, <3>3, <3>4, LoopIs
    <3>6. \A a \in txn.published : Step("restore", a) \in ToSet(todo')
      BY <3>5 DEF IsPlan, ForEach
    <3>. QED
      BY <1>3, <3>1, <3>6 DEF Restored, Pending
  <2>3. CASE ReloadRestored
    <3>1. /\ phase = "restoring" /\ todo = <<>> /\ phase' = "enablement"
      BY <2>3 DEF ReloadRestored, Done
    <3>2. \A a : ~ Pending("restore", a)
      BY <3>1 DEF Pending, ToSet
    <3>. QED
      BY <1>1, <1>3, <3>1, <3>2 DEF OriginalsInv, Restored
  <2>4. CASE RestoreActiveStates
    <3>1. /\ phase = "enablement" /\ todo = <<>> /\ phase' = "activity" /\ txn' = txn /\ AllRestored
      BY <2>4 DEF RestoreActiveStates, Done
    <3>2. \A a : ~ Pending("restore", a)
      BY <3>1 DEF Pending, ToSet
    <3>. QED
      BY <1>1, <3>1, <3>2 DEF OriginalsInv, Restored, AllRestored
  <2>. QED
    BY <2>1, <2>2, <2>3, <2>4
<1>. QED
  BY <1>4, <1>5 DEF OriginalsInv

\* An artifact is put back as it was found.
LEMMA OriginalsRestoreArtifact ==
    ASSUME TypeInv, TypeInv', OriginalsInv, RestoreArtifact PROVE OriginalsInv'
<1>1. /\ phase = "restoring" /\ todo # <<>> /\ TransactionIn(txn) /\ InTransaction
      /\ Head(todo).op = "restore" /\ Head(todo) \in PlanStep
      /\ Fits(phase, txn, Head(todo)) /\ Continue /\ UNCHANGED copies
      /\ ToSet(todo) = {Head(todo)} \cup ToSet(todo') /\ file \in [Artifact -> Content]
  BY NextStep DEF RestoreArtifact, At, TypeInv, Continue, InTransaction, HostIn
<1>2. Arg \in txn.published /\ Head(todo) = Step("restore", Arg)
  BY <1>1 DEF Fits, Arg, PlanStep, Step
<1>3. Arg \in DOMAIN txn.original /\ txn.original[Arg] = start[Arg] /\ Arg \in Artifact
  BY <1>1, <1>2, RolesAre DEF TransactionIn, OriginalsInv, Captured, OwnArtifacts, Artifact
<1>4. phase' = phase /\ UNCHANGED <<run, start, settled>>
  BY <1>1 DEF Continue, history
<1>5. \/ /\ txn' = txn
         /\ file' = [file EXCEPT ![Arg] = start[Arg]]
      \/ /\ txn' = [txn EXCEPT !.failed = txn.failed \cup {Arg}]
         /\ (file' = file) \/ (file' = [file EXCEPT ![Arg] = start[Arg]])
  BY <1>3 DEF RestoreArtifact
<1>6. /\ txn'.original = txn.original /\ txn'.published = txn.published
      /\ txn'.withheld = txn.withheld
      /\ \/ txn'.failed = txn.failed /\ file'[Arg] = start[Arg]
         \/ txn'.failed = txn.failed \cup {Arg}
  <2>1. CASE txn' = txn /\ file' = [file EXCEPT ![Arg] = start[Arg]]
    BY <1>1, <1>3, <2>1
  <2>2. CASE txn' = [txn EXCEPT !.failed = txn.failed \cup {Arg}]
    BY <1>1, <1>2, <2>2, MarkIs DEF Others
  <2>. QED
    BY <1>5, <2>1, <2>2
<1>7. \A a \in Artifact : file'[a] = file[a] \/ (a = Arg /\ file'[a] = start[a])
  BY <1>1, <1>3, <1>5
<1>8. Untouched' /\ Base' /\ NoLaterCopy'
  BY <1>1, <1>4 DEF OriginalsInv, Untouched, Base, NoLaterCopy, InTransaction
<1>9. Captured'
  BY <1>1, <1>4, <1>6, <1>7 DEF OriginalsInv, Captured, InTransaction
<1>10. Restored'
  <2>1. \A a : Step("restore", a) \in ToSet(todo) => a = Arg \/ Step("restore", a) \in ToSet(todo')
    BY <1>1, <1>2 DEF Step
  <2>2. txn.published \subseteq Artifact
    BY <1>1, RolesAre DEF TransactionIn, OwnArtifacts, Artifact
  <2>3. \/ txn.withheld
        \/ \A a \in txn.published :
              file[a] = start[a] \/ a \in txn.failed \/ Step("restore", a) \in ToSet(todo)
    BY <1>1 DEF OriginalsInv, Restored, Pending
  <2>4. \/ txn'.withheld
        \/ \A a \in txn'.published :
              file'[a] = start[a] \/ a \in txn'.failed \/ Step("restore", a) \in ToSet(todo')
    BY <1>6, <1>7, <2>1, <2>2, <2>3
  <2>. QED
    BY <1>1, <1>4, <2>4 DEF Restored, Pending
<1>. QED
  BY <1>8, <1>9, <1>10 DEF OriginalsInv

\* A transaction that has done nothing yet.
LEMMA FreshIs ==
    ASSUME NEW roles, NEW enable, NEW begin
    PROVE  LET t == Transaction(roles, enable, begin)
           IN  /\ t.roles = roles /\ t.enable = enable /\ t.begin = begin
               /\ DOMAIN t.before = {} /\ DOMAIN t.original = {}
               /\ t.published = {} /\ t.failed = {} /\ t.enableTried = {} /\ t.startTried = {}
               /\ ~t.withheld /\ ~t.incomplete /\ t.reloadOK
<1>. DEFINE t == Transaction(roles, enable, begin)
<1>1. /\ t.roles = roles /\ t.enable = enable /\ t.begin = begin
      /\ t.before = <<>> /\ t.original = <<>>
      /\ t.published = {} /\ t.failed = {} /\ t.enableTried = {} /\ t.startTried = {}
      /\ t.withheld = FALSE /\ t.incomplete = FALSE /\ t.reloadOK = TRUE
  BY DEF Transaction
<1>. HIDE DEF t
<1>2. DOMAIN t.before = {} /\ DOMAIN t.original = {}
  BY <1>1
<1>. QED
  BY <1>1, <1>2 DEF t

\* An invocation begins: what it finds is what is settled, or there are copies.
LEMMA OriginalsBegin ==
    ASSUME TypeInv, OriginalsInv, NEW p \in {"install", "uninstall"}, NEW plan,
           NEW roles, NEW enable, NEW begin, Invoke(p, plan, Transaction(roles, enable, begin))
    PROVE  OriginalsInv'
<1>1. /\ phase = "idle" /\ run' = run + 1 /\ phase' = p /\ start' = file
      /\ txn' = Transaction(roles, enable, begin) /\ UNCHANGED <<file, copies, settled>>
  BY DEF Invoke, host
<1>2. /\ run \in Nat /\ copies \subseteq (1..MaxRun) \X Artifact \X (Content \ {Absent})
      /\ MaxRun \in Nat
  BY InstallerAssumption DEF TypeInv, HostIn
<1>3. OriginalsSurvive /\ NoLaterCopy
  BY <1>1 DEF OriginalsInv, Base, InTransaction
<1>4. Untouched' /\ Captured' /\ Restored'
  <2>1. /\ DOMAIN txn'.original = {} /\ txn'.published = {} /\ txn'.failed = {}
        /\ txn'.enableTried = {} /\ txn'.startTried = {}
        /\ ~txn'.withheld /\ ~txn'.incomplete /\ txn'.reloadOK
    BY <1>1, FreshIs
  <2>. QED
    BY <1>1, <2>1 DEF Untouched, Captured, Restored
<1>5. NoLaterCopy'
  <2>1. \A c \in copies : c[1] \in Nat
    BY <1>2
  <2>. QED
    BY <1>1, <1>2, <1>3, <2>1 DEF NoLaterCopy
<1>6. ASSUME NEW a \in Artifact
      PROVE  \/ settled[a] \in {Absent, file[a]}
             \/ \E n \in 1..(run' - 1) : <<n, a, settled[a]>> \in copies
  <2>1. CASE settled[a] \in {Absent, file[a]}
    BY <2>1
  <2>2. CASE settled[a] \notin {Absent, file[a]}
    <3>1. PICK n \in 1..MaxRun : <<n, a, settled[a]>> \in copies
      BY <1>3, <2>2 DEF OriginalsSurvive
    <3>2. n <= run
      BY <1>3, <3>1 DEF NoLaterCopy
    <3>3. n \in 1..(run' - 1)
      BY <1>1, <1>2, <3>1, <3>2
    <3>. QED
      BY <3>1, <3>3
  <2>. QED
    BY <2>1, <2>2
<1>7. OriginalsSurvive'
  BY <1>1, <1>3 DEF OriginalsSurvive
<1>8. Base'
  BY <1>1, <1>6, <1>7 DEF Base
<1>. QED
  BY <1>4, <1>5, <1>8 DEF OriginalsInv

\* An Uninstall settles each artifact that it removes.
LEMMA OriginalsUninstall ==
    ASSUME TypeInv, OriginalsInv, RunUninstall PROVE OriginalsInv'
<1>1. /\ phase = "uninstall" /\ phase' \in {"uninstall", "idle"} /\ UNCHANGED <<copies, run>>
      /\ UNCHANGED <<file, settled>> \/ RemoveInfrastructure
  <2>1. CASE Continue \/ Fail
    BY <2>1 DEF RunUninstall, InspectService, StopService, ResetFailed, DisableService, Converge,
                ReloadRemoved, VerifyRemoved, EndUninstalled, RemoveInfrastructure,
                At, Done, Continue, Fail, Finish, host, history
  <2>2. CASE EndUninstalled
    BY <2>2 DEF EndUninstalled, Done, Finish, host, history
  <2>3. CASE RemoveInfrastructure
    BY <2>3 DEF RemoveInfrastructure, At, Finish
  <2>4. RemoveInfrastructure \/ EndUninstalled \/ Continue \/ Fail
    BY DEF RunUninstall, InspectService, StopService, ResetFailed, DisableService, Converge,
           ReloadRemoved, VerifyRemoved, Proceed
  <2>. QED
    BY <2>1, <2>2, <2>3, <2>4
<1>2. OriginalsSurvive
  BY <1>1 DEF OriginalsInv, Base, InTransaction
<1>3. OriginalsSurvive'
  <2>1. CASE UNCHANGED <<file, settled>>
    BY <1>1, <1>2, <2>1 DEF OriginalsSurvive
  <2>2. CASE RemoveInfrastructure
    <3>1. \/ /\ file' = [file EXCEPT ![Arg] = Absent]
             /\ settled' = [settled EXCEPT ![Arg] = Absent]
          \/ UNCHANGED <<file, settled>>
      BY <2>2 DEF RemoveInfrastructure
    <3>2. file \in [Artifact -> Content] /\ settled \in [Artifact -> Content]
      BY DEF TypeInv, HostIn
    <3>3. \A a \in Artifact : settled'[a] = Absent \/ (settled'[a] = settled[a] /\ file'[a] = file[a])
      BY <3>1, <3>2
    <3>. QED
      BY <1>1, <1>2, <3>3 DEF OriginalsSurvive
  <2>. QED
    BY <1>1, <2>1, <2>2
<1>. QED
  BY <1>1, <1>3 DEF OriginalsInv, Untouched, Captured, Base, NoLaterCopy, Restored, InTransaction

\* A rollback ends, and has put back everything if it removes its copies.
LEMMA OriginalsEndRollback ==
    ASSUME TypeInv, OriginalsInv, EndIncomplete \/ EndRolledBack PROVE OriginalsInv'
<1>1. CASE EndIncomplete
  <2>1. phase' = "idle" /\ UNCHANGED <<file, copies, settled, run>>
    BY <1>1 DEF EndIncomplete, Finish, host, history
  <2>. QED
    BY <2>1, OriginalsEnd
<1>2. CASE EndRolledBack
  <2>1. PICK kept : CleanupBackups(kept)
    BY <1>2 DEF EndRolledBack
  <2>2. /\ phase = "activity" /\ todo = <<>> /\ phase' = "idle" /\ UNCHANGED <<file, settled, run>>
        /\ InTransaction
    BY <1>2 DEF EndRolledBack, Done, Finish, history, InTransaction
  <2>3. \A a \in txn.published : file[a] = start[a]
    <3>1. \A a : ~ Pending("restore", a)
      BY <2>2 DEF Pending, ToSet
    <3>. QED
      BY <2>2, <3>1 DEF OriginalsInv, Restored, AllRestored
  <2>4. \A a \in Artifact : file[a] = start[a] \/ start[a] = Absent
    BY <2>2, <2>3 DEF OriginalsInv, Captured
  <2>5. \A a \in Artifact :
           \/ settled'[a] \in {Absent, file'[a]}
           \/ settled'[a] = settled[a] /\ settled[a] # start[a]
    BY <2>2, <2>4
  <2>. QED
    BY <2>1, <2>2, <2>5, OriginalsCleaned
<1>. QED
  BY <1>1, <1>2

\* What happens beside the program: services fail, and when no program runs the
\* operator fills in a configuration.
LEMMA OriginalsBeside ==
    ASSUME TypeInv, OriginalsInv, ServiceFails \/ EditConfiguration PROVE OriginalsInv'
<1>1. CASE ServiceFails
  BY <1>1 DEF ServiceFails, history, OriginalsInv, Untouched, Captured, Base, NoLaterCopy,
              Restored, InTransaction, OriginalsSurvive, Pending, AllRestored
<1>2. CASE EditConfiguration
  <2>1. /\ phase = "idle" /\ UNCHANGED <<phase, copies, run>>
        /\ \E a \in Artifact : /\ file' = [file EXCEPT ![a] = Edited]
                               /\ settled' = [settled EXCEPT ![a] = Edited]
    BY <1>2 DEF EditConfiguration, Artifact
  <2>2. file \in [Artifact -> Content] /\ settled \in [Artifact -> Content]
    BY DEF TypeInv, HostIn
  <2>3. OriginalsSurvive /\ NoLaterCopy
    BY <2>1 DEF OriginalsInv, Base, InTransaction
  <2>4. OriginalsSurvive'
    BY <2>1, <2>2, <2>3 DEF OriginalsSurvive
  <2>. QED
    BY <2>1, <2>3, <2>4 DEF OriginalsInv, Untouched, Captured, Base, NoLaterCopy, Restored,
                            InTransaction
<1>. QED
  BY <1>1, <1>2

\* Before the first invocation nothing is to be put back.
LEMMA OriginalsInit == Init => OriginalsInv
<1>. SUFFICES ASSUME Init PROVE OriginalsInv
  OBVIOUS
<1>. USE DEF Init, InTransaction
<1>1. OriginalsSurvive
  BY DEF OriginalsSurvive
<1>. QED
  BY <1>1 DEF OriginalsInv, Untouched, Captured, Base, NoLaterCopy, Restored

\* Every step keeps what it needs to put the host back.
LEMMA OriginalsNext == TypeInv /\ TypeInv' /\ OriginalsInv /\ [Next]_vars => OriginalsInv'
<1>. SUFFICES ASSUME TypeInv, TypeInv', OriginalsInv, [Next]_vars PROVE OriginalsInv'
  OBVIOUS
<1>1. CASE \E roles \in Selections, enable, begin \in BOOLEAN : Install(roles, enable, begin)
  BY <1>1, OriginalsBegin DEF Install
<1>2. CASE \E roles \in Selections : Uninstall(roles)
  BY <1>2, OriginalsBegin DEF Uninstall
<1>3. CASE RunInstall
  BY <1>3, OriginalsPrepare, OriginalsCapture, OriginalsPublish, OriginalsServices,
     OriginalsCommit DEF RunInstall
<1>4. CASE Rollback
  BY <1>4, OriginalsRestoreServices, OriginalsNextPart, OriginalsRestoreArtifact,
     OriginalsEndRollback DEF Rollback
<1>5. CASE RunUninstall
  BY <1>5, OriginalsUninstall
<1>6. CASE Kill
  <2>1. phase' = "idle" /\ UNCHANGED <<file, copies, settled, run>>
    BY <1>6 DEF Kill, Finish, host, history
  <2>. QED
    BY <2>1, OriginalsEnd
<1>7. CASE ServiceFails \/ EditConfiguration
  BY <1>7, OriginalsBeside
<1>8. CASE UNCHANGED vars
  BY <1>8 DEF vars, host, history, OriginalsInv, Untouched, Captured, Base, NoLaterCopy, Restored,
              InTransaction, OriginalsSurvive, Pending, AllRestored
<1>. QED
  BY <1>1, <1>2, <1>3, <1>4, <1>5, <1>6, <1>7, <1>8 DEF Next

\* Whatever fails, and wherever the program is killed, the artifacts of the last
\* complete operation are on disk, in place or as rollback copies
\* (install_linux.go, captureOriginal before replaceFrom, and cleanupBackups only
\* when nothing was changed, everything is put back or the operation is complete).
THEOREM OriginalsAlwaysSurvive == Spec => []OriginalsSurvive
<1>1. Init => TypeInv /\ OriginalsInv
  BY TypeInit, OriginalsInit
<1>2. TypeInv /\ OriginalsInv /\ [Next]_vars => (TypeInv /\ OriginalsInv)'
  BY TypeNext, OriginalsNext
<1>3. TypeInv /\ OriginalsInv => OriginalsSurvive
  BY OriginalsSurviveNow
<1>. QED
  BY <1>1, <1>2, <1>3, PTL DEF Spec

(***************************************************************************)
(* What is at rest, and what is removed.                                   *)
(***************************************************************************)

\* Elsewhere nothing is stopped first.
LEMMA RestElsewhere ==
    ASSUME phase' \notin {"stopping", "restoring", "uninstall"} PROVE RestInv'
BY DEF RestInv, StoppedFirst, AtRest, Removed

\* A step of an Install goes on, ends, or begins to roll back.
LEMMA InstallLeads ==
    ASSUME RunInstall
    PROVE  /\ phase = "install"
           /\ outcome' \in {outcome, "refused", "installed", "cleanup failed"}
           /\ \/ phase' \in {"install", "idle"}
              \/ phase' = "stopping" /\ todo' = StopPlan(txn')
<1>1. CASE EnsureServiceAccount \/ EnsureGPUAccess \/ QueryService \/ CaptureArtifact
  <2>1. Continue \/ Refuse
    BY <1>1 DEF EnsureServiceAccount, EnsureGPUAccess, QueryService, CaptureArtifact
  <2>2. phase = "install"
    BY <1>1 DEF EnsureServiceAccount, EnsureGPUAccess, QueryService, CaptureArtifact, At
  <2>. QED
    BY <2>1, <2>2 DEF Continue, Refuse, Finish
<1>2. CASE ReplaceFile \/ CreatePreservedFile \/ ReloadUnits \/ EnableService \/ StartService
  <2>1. Continue \/ \E t : RollBack(t)
    BY <1>2 DEF ReplaceFile, CreatePreservedFile, ReloadUnits, EnableService, StartService,
                ContinueOrRollBack
  <2>2. phase = "install"
    BY <1>2 DEF ReplaceFile, CreatePreservedFile, ReloadUnits, EnableService, StartService, At
  <2>. QED
    BY <2>1, <2>2 DEF Continue, RollBack
<1>3. CASE Commit
  BY <1>3 DEF Commit, Done, Finish
<1>. QED
  BY <1>1, <1>2, <1>3 DEF RunInstall

\* A rollback that begins has every service it started to stop.
LEMMA RestInstall ==
    ASSUME TypeInv', RunInstall PROVE RestInv'
<1>1. CASE phase' \in {"install", "idle"}
  BY <1>1, RestElsewhere
<1>2. CASE phase' = "stopping" /\ todo' = StopPlan(txn')
  <2>1. TransactionIn(txn')
    BY DEF TypeInv
  <2>2. IsPlan(StopPlan(txn'), ForEach("stop", {r \in txn'.startTried : ~txn'.before[r].active}))
    BY <2>1, StopPlanIs
  <2>3. \A r \in txn'.startTried :
           txn'.before[r].active \/ Step("stop", r) \in ToSet(todo')
    BY <1>2, <2>2 DEF IsPlan, ForEach
  <2>. QED
    BY <1>2, <2>3 DEF RestInv, StoppedFirst, AtRest, Removed, Pending
<1>. QED
  BY <1>1, <1>2, InstallLeads

\* A service that was started is stopped, or its artifacts are withheld.
LEMMA RestStopStarted ==
    ASSUME TypeInv, RestInv, StopStarted PROVE RestInv'
<1>1. /\ phase = "stopping" /\ phase' = phase /\ todo # <<>> /\ HostIn /\ TransactionIn(txn)
      /\ todo' = Tail(todo) /\ Head(todo).op = "stop"
  BY DEF StopStarted, At, Continue, TypeInv
<1>2. PICK ok \in BOOLEAN : /\ Systemctl("stop", Arg, ok)
                            /\ txn' = [txn EXCEPT !.withheld = txn.withheld \/ ~ok]
  BY DEF StopStarted
<1>3. PICK b \in BOOLEAN : b = (txn.withheld \/ ~ok)
  OBVIOUS
<1>4. Others(txn, txn', "withheld") /\ txn'.withheld = b
  BY <1>1, <1>2, <1>3, NoteIs
<1>5. /\ Head(todo) \in PlanStep /\ Fits(phase, txn, Head(todo))
      /\ ToSet(todo) = {Head(todo)} \cup ToSet(todo')
  BY <1>1, NextStep
<1>6. Arg \in txn.startTried /\ txn.startTried \subseteq Role /\ Head(todo) = Step("stop", Arg)
  BY <1>1, <1>5, RolesAre DEF Fits, TransactionIn, Arg, PlanStep, Step
<1>7. ok => /\ ~svc'[Arg].active
            /\ \A q \in Role : q # Arg => svc'[q] = svc[q]
  <2>1. ok => Effect("stop", Arg)
    BY <1>1, <1>2, <1>6, SystemctlIs
  <2>. QED
    BY <1>1, <1>6, <2>1, EffectIs DEF HostIn
<1>8. \A r : Step("stop", r) \in ToSet(todo) => r = Arg \/ Step("stop", r) \in ToSet(todo')
  BY <1>5, <1>6 DEF Step
<1>9. \/ txn'.withheld
      \/ \A r \in txn.startTried :
            txn.before[r].active \/ ~svc'[r].active \/ Step("stop", r) \in ToSet(todo')
  <2>1. CASE b
    BY <1>4, <2>1
  <2>2. CASE ~b
    BY <1>1, <1>3, <1>6, <1>7, <1>8, <2>2 DEF RestInv, StoppedFirst, Pending
  <2>. QED
    BY <2>1, <2>2
<1>. QED
  BY <1>1, <1>4, <1>9 DEF RestInv, StoppedFirst, AtRest, Removed, Pending, Others

\* The rest of a rollback begins when everything that could be stopped is, and
\* leaves it so until the artifacts are back.
LEMMA RestRollback ==
    ASSUME TypeInv, RestInv, Rollback PROVE RestInv'
<1>1. CASE StopStarted
  BY <1>1, RestStopStarted
<1>2. CASE RestoreArtifacts
  <2>1. phase = "stopping" /\ todo = <<>> /\ phase' = "restoring" /\ ~txn.withheld
        /\ UNCHANGED <<svc, txn>>
    BY <1>2 DEF RestoreArtifacts, Done, host
  <2>2. \A r : ~ Pending("stop", r)
    BY <2>1 DEF Pending, ToSet
  <2>. QED
    BY <2>1, <2>2 DEF RestInv, StoppedFirst, AtRest, Removed
<1>3. CASE RestoreArtifact
  <2>1. /\ phase = "restoring" /\ todo # <<>> /\ phase' = phase /\ UNCHANGED svc
        /\ TransactionIn(txn)
    BY <1>3 DEF RestoreArtifact, At, Continue, TypeInv
  <2>2. txn' = txn \/ txn' = [txn EXCEPT !.failed = txn.failed \cup {Arg}]
    BY <1>3 DEF RestoreArtifact
  <2>3. Arg \in txn.published
    BY <1>3, <2>1, NextStep DEF Fits, RestoreArtifact, At, Arg
  <2>4. Others(txn, txn', "failed")
    <3>1. CASE txn' = txn
      BY <3>1 DEF Others
    <3>2. CASE txn' = [txn EXCEPT !.failed = txn.failed \cup {Arg}]
      BY <2>1, <2>3, <3>2, MarkIs
    <3>. QED
      BY <2>2, <3>1, <3>2
  <2>. QED
    BY <2>1, <2>4 DEF RestInv, StoppedFirst, AtRest, Removed, Others
<1>4. CASE WithholdArtifacts \/ ReloadRestored \/ RestoreEnablement \/ RestoreActiveStates
           \/ RestoreActiveState \/ EndIncomplete \/ EndRolledBack
  <2>1. phase' \notin {"stopping", "restoring", "uninstall"}
    BY <1>4 DEF WithholdArtifacts, ReloadRestored, RestoreEnablement, RestoreActiveStates,
                RestoreActiveState, EndIncomplete, EndRolledBack, At, Continue, Finish
  <2>. QED
    BY <2>1, RestElsewhere
<1>. QED
  BY <1>1, <1>2, <1>3, <1>4 DEF Rollback

\* How a step of an Uninstall leads to the next.
LEMMA UninstallLeads ==
    ASSUME TypeInv, RunUninstall
    PROVE  /\ phase = "uninstall" /\ outcome' \in {outcome, "failed", "uninstalled"}
           /\ \/ phase' = "idle"
              \/ phase' = "uninstall" /\ todo # <<>> /\ todo' = Tail(todo) /\ ~EndUninstalled
<1>1. CASE RemoveInfrastructure
  BY <1>1 DEF RemoveInfrastructure, At, Finish, EndUninstalled, Done
<1>2. CASE EndUninstalled
  BY <1>2 DEF EndUninstalled, Done, Finish
<1>3. CASE InspectService \/ StopService \/ ResetFailed \/ DisableService \/ ReloadRemoved
           \/ VerifyRemoved
  <2>1. Continue \/ Fail
    BY <1>3 DEF InspectService, StopService, ResetFailed, DisableService, Converge, ReloadRemoved,
                VerifyRemoved, Proceed
  <2>2. phase = "uninstall" /\ todo # <<>>
    BY <1>3 DEF InspectService, StopService, ResetFailed, DisableService, Converge, ReloadRemoved,
                VerifyRemoved, At
  <2>. QED
    BY <2>1, <2>2 DEF Continue, Fail, Finish, EndUninstalled, Done
<1>. QED
  BY <1>1, <1>2, <1>3 DEF RunUninstall

\* An Uninstall that has just begun has everything to remove.
LEMMA RestUninstall ==
    ASSUME NEW roles \in Selections, Uninstall(roles) PROVE RestInv'
<1>1. /\ phase' = "uninstall" /\ todo' = UninstallPlan(roles)
      /\ txn' = Transaction(roles, FALSE, FALSE)
  BY DEF Uninstall, Invoke
<1>2. txn'.roles = roles /\ roles \in Seq(Role)
  BY <1>1, InstallerAssumption DEF Transaction
<1>3. /\ IsPlan(todo', UninstallSteps(ToSet(roles))) /\ Follows(todo')
      /\ todo'[1].op \in {"inspect", "reload"}
  BY <1>1, <1>2, UninstallPlanIs
<1>4. todo' # <<>> => Head(todo').op \in {"inspect", "reload"}
  <2>1. todo' \in Seq(PlanStep)
    BY <1>3 DEF IsPlan
  <2>2. todo' # <<>> => Head(todo') = todo'[1]
    BY <2>1
  <2>. QED
    BY <1>3, <2>2
<1>5. AtRest'
  BY <1>3, <1>4 DEF AtRest
<1>6. Removed'
  <2>1. \A a \in Infrastructure(ToSet(roles)) : Step("remove", a) \in ToSet(todo')
    BY <1>3 DEF IsPlan, UninstallSteps, ForEach
  <2>2. \A r \in ToSet(roles) : Step("verify", r) \in ToSet(todo')
    BY <1>3 DEF IsPlan, UninstallSteps, ForEach
  <2>. QED
    BY <1>1, <1>2, <2>1, <2>2 DEF Removed, Pending
<1>. QED
  BY <1>1, <1>5, <1>6 DEF RestInv, StoppedFirst

\* What was read last is what systemd says, from the step that inspects a service
\* to the one that disables it.
LEMMA ViewIs ==
    ASSUME TypeInv, RestInv, RunUninstall, phase' = "uninstall", todo # <<>>,
           Head(todo).op \in {"inspect", "stop", "reset-failed", "disable"}
    PROVE  /\ txn' = txn \/ txn' = [txn EXCEPT !.view = svc'[Arg]]
           /\ UNCHANGED file /\ svc' \in [Role -> Service] /\ TransactionIn(txn)
           /\ Arg \in Role
           /\ txn'.view \in Service /\ txn'.view.enabled = svc'[Arg].enabled
           /\ svc'[Arg].active => txn'.view.active
           /\ Head(todo).op = "disable" => ~txn'.view.active /\ ~txn'.view.enabled
           /\ txn'.roles = txn.roles
<1>1. /\ phase = "uninstall" /\ HostIn /\ TransactionIn(txn) /\ Arg \in Role
      /\ phase' # "idle"
  BY UninstallLeads, RemovedIs DEF TypeInv
<1>2. CASE InspectService
  <2>1. UNCHANGED <<file, svc>> /\ txn' = [txn EXCEPT !.view = svc'[Arg]]
        /\ Head(todo).op = "inspect"
    BY <1>2 DEF InspectService, View, At
  <2>2. Others(txn, txn', "view") /\ txn'.view = svc'[Arg]
    BY <1>1, <2>1, NoteIs
  <2>3. svc'[Arg] \in Service /\ svc' \in [Role -> Service]
    BY <1>1, <2>1 DEF HostIn
  <2>. QED
    BY <1>1, <2>1, <2>2, <2>3 DEF Others
<1>3. ASSUME NEW op, op # "inspect", NEW needed, NEW reached, Converge(op, needed, reached),
             reached \subseteq Service, op = "disable" => \A v \in reached : ~v.active /\ ~v.enabled
      PROVE  /\ txn' = txn \/ txn' = [txn EXCEPT !.view = svc'[Arg]]
             /\ UNCHANGED file /\ svc' \in [Role -> Service]
             /\ txn'.view \in Service /\ txn'.view.enabled = svc'[Arg].enabled
             /\ svc'[Arg].active => txn'.view.active
             /\ Head(todo).op = "disable" => ~txn'.view.active /\ ~txn'.view.enabled
             /\ txn'.roles = txn.roles
  <2>1. /\ Head(todo).op = op /\ UNCHANGED file
        /\ txn'.view \in reached
    <3>1. ~Fail
      BY <1>1 DEF Fail, Finish
    <3>2. Head(todo).op = op /\ UNCHANGED file
      BY <1>3 DEF Converge, At
    <3>3. CASE needed
      <4>1. PICK ok \in BOOLEAN : Proceed(ok /\ txn'.view \in reached)
        BY <1>3, <3>3 DEF Converge
      <4>. QED
        BY <3>1, <3>2, <4>1 DEF Proceed
    <3>4. CASE ~needed
      <4>1. UNCHANGED txn /\ Proceed(txn.view \in reached)
        BY <1>3, <3>4 DEF Converge
      <4>. QED
        BY <3>1, <3>2, <4>1 DEF Proceed
    <3>. QED
      BY <3>2, <3>3, <3>4
  <2>2. CASE needed
    <3>1. PICK ok \in BOOLEAN : Systemctl(op, Arg, ok) /\ txn' = [txn EXCEPT !.view = svc'[Arg]]
      BY <1>3, <2>2 DEF Converge, View
    <3>2. svc' \in [Role -> Service]
      BY <1>1, <3>1, SystemctlIs
    <3>3. Others(txn, txn', "view") /\ txn'.view = svc'[Arg]
      BY <1>1, <3>1, NoteIs
    <3>. QED
      BY <1>1, <1>3, <2>1, <3>1, <3>2, <3>3 DEF Others
  <2>3. CASE ~needed
    <3>1. UNCHANGED <<svc, txn>>
      BY <1>3, <2>3 DEF Converge
    <3>2. op \in {"stop", "reset-failed", "disable"} => Viewed(Arg)
      BY <1>1, <2>1 DEF RestInv, AtRest
    <3>3. Head(todo).op \in {"stop", "reset-failed", "disable"}
      BY <1>3, <2>1
    <3>. QED
      BY <1>1, <1>3, <2>1, <3>1, <3>2, <3>3 DEF Viewed, HostIn
  <2>. QED
    BY <2>2, <2>3
<1>4. CASE StopService
  <2>1. PICK R : R = {v \in Service : ~v.active} /\ R \subseteq Service
    OBVIOUS
  <2>2. Converge("stop", txn.view.active, R)
    BY <1>4, <2>1 DEF StopService
  <2>. QED
    BY <1>1, <1>3, <2>1, <2>2
<1>5. CASE ResetFailed
  <2>1. PICK R : R = {v \in Service : ~v.failed} /\ R \subseteq Service
    OBVIOUS
  <2>2. Converge("reset-failed", txn.view.failed, R)
    BY <1>5, <2>1 DEF ResetFailed
  <2>. QED
    BY <1>1, <1>3, <2>1, <2>2
<1>6. CASE DisableService
  <2>1. PICK R : R = {v \in Service : ~v.active /\ ~v.enabled} /\ R \subseteq Service
    OBVIOUS
  <2>2. Converge("disable", txn.view.enabled, R)
    BY <1>6, <2>1 DEF DisableService
  <2>3. \A v \in R : ~v.active /\ ~v.enabled
    BY <2>1
  <2>. QED
    BY <1>1, <1>3, <2>1, <2>2, <2>3
<1>7. ~RemoveInfrastructure /\ ~ReloadRemoved /\ ~VerifyRemoved /\ ~EndUninstalled
  BY DEF RemoveInfrastructure, ReloadRemoved, VerifyRemoved, EndUninstalled, At, Done
<1>. QED
  BY <1>2, <1>4, <1>5, <1>6, <1>7 DEF RunUninstall

\* The next service that is stopped, reset or disabled has been read, and the next
\* whose unit or binary is removed has been found at rest.
LEMMA AtRestNext ==
    ASSUME TypeInv, RestInv, RunUninstall, phase' = "uninstall" PROVE AtRest'
<1>1. /\ phase = "uninstall" /\ todo # <<>> /\ todo' = Tail(todo) /\ todo \in Seq(PlanStep)
      /\ Follows(todo) /\ ~EndUninstalled
  BY UninstallLeads DEF TypeInv, TodoIn, RestInv, AtRest
<1>2. Follows(todo') /\ (todo' # <<>> => After(Head(todo), Head(todo')))
  BY <1>1, FollowsTail
<1>3. ASSUME todo' # <<>>, NEW y, y = Head(todo')
      PROVE  /\ y.op \in {"stop", "reset-failed", "disable"} =>
                   /\ txn'.view \in Service /\ txn'.view.enabled = svc'[y.arg].enabled
                   /\ svc'[y.arg].active => txn'.view.active
             /\ y.op = "remove" => ~svc'[y.arg[1]].active /\ ~svc'[y.arg[1]].enabled
  <2>1. After(Head(todo), y)
    BY <1>2, <1>3
  <2>2. CASE y.op \in {"stop", "reset-failed", "disable"}
    <3>1. Head(todo).op \in {"inspect", "stop", "reset-failed"} /\ y.arg = Arg
      BY <2>1, <2>2 DEF After, Step, Arg
    <3>. QED
      BY <1>1, <2>2, <3>1, ViewIs
  <2>3. CASE y.op = "remove"
    <3>1. CASE Head(todo).op = "disable" /\ Arg = y.arg[1]
      <4>1. svc' \in [Role -> Service] /\ Arg \in Role
        BY <1>1, <3>1, ViewIs
      <4>. QED
        BY <1>1, <2>3, <3>1, <4>1, ViewIs
    <3>2. CASE Head(todo).op = "remove" /\ Arg[1] = y.arg[1]
      <4>1. RemoveInfrastructure
        BY <1>1, <3>2 DEF RunUninstall, InspectService, StopService, ResetFailed, DisableService,
                          Converge, ReloadRemoved, VerifyRemoved, At
      <4>2. UNCHANGED svc
        BY <4>1 DEF RemoveInfrastructure
      <4>. QED
        BY <1>1, <2>3, <3>2, <4>2 DEF RestInv, AtRest
    <3>. QED
      BY <2>1, <2>3, <3>1, <3>2 DEF After, Arg
  <2>. QED
    BY <2>2, <2>3
<1>. QED
  BY <1>2, <1>3 DEF AtRest, Viewed, Arg

\* What is removed and what is verified.
LEMMA RemovedNext ==
    ASSUME TypeInv, RestInv, RunUninstall, phase' = "uninstall" PROVE Removed'
<1>1. /\ phase = "uninstall" /\ todo # <<>> /\ todo' = Tail(todo) /\ ~EndUninstalled
      /\ Head(todo) \in PlanStep /\ Fits(phase, txn, Head(todo)) /\ HostIn
      /\ ToSet(todo) = {Head(todo)} \cup ToSet(todo') /\ TransactionIn(txn)
      /\ \A x \in ToSet(todo) : Rank(Head(todo)) <= Rank(x)
      /\ \A x \in ToSet(todo) : Fits(phase, txn, x)
  BY UninstallLeads, NextStep DEF TypeInv, TodoIn
<1>2. /\ \A a \in Infrastructure(ToSet(txn.roles)) :
            file[a] = Absent \/ Step("remove", a) \in ToSet(todo)
      /\ \A r \in ToSet(txn.roles) :
            \/ Step("verify", r) \in ToSet(todo)
            \/ svc[r] = Gone /\ \A x \in ToSet(todo) : x.op = "verify"
  BY <1>1 DEF RestInv, Removed, Pending
<1>3. Head(todo) = Step(Head(todo).op, Arg)
  BY <1>1 DEF PlanStep, Step, Arg
<1>4. \A op, x : Step(op, x) \in ToSet(todo) =>
                    \/ Step(op, x) \in ToSet(todo')
                    \/ Head(todo).op = op /\ Arg = x
  BY <1>1 DEF Step, Arg
<1>5. \A r \in ToSet(txn.roles) :
          Head(todo).op # "verify" => Step("verify", r) \in ToSet(todo')
  BY <1>1, <1>2, <1>4
<1>6. CASE Head(todo).op \in {"inspect", "stop", "reset-failed", "disable"}
  <2>1. UNCHANGED file /\ txn'.roles = txn.roles
    BY <1>1, <1>6, ViewIs
  <2>. QED
    BY <1>1, <1>2, <1>4, <1>5, <1>6, <2>1 DEF Removed, Pending
<1>7. CASE RemoveInfrastructure
  <2>1. /\ file' = [file EXCEPT ![Arg] = Absent] /\ UNCHANGED txn /\ Head(todo).op = "remove"
    BY <1>7 DEF RemoveInfrastructure, At, Finish
  <2>2. ASSUME NEW a \in Infrastructure(ToSet(txn.roles))
        PROVE  file'[a] = Absent \/ Step("remove", a) \in ToSet(todo')
    <3>1. Infrastructure(ToSet(txn.roles)) \subseteq Artifact /\ file \in [Artifact -> Content]
      BY <1>1, RolesAre DEF Infrastructure, Artifact, HostIn
    <3>. QED
      BY <1>2, <1>4, <2>1, <3>1
  <2>. QED
    BY <1>1, <1>5, <2>1, <2>2 DEF Removed, Pending
<1>8. CASE ReloadRemoved
  <2>1. UNCHANGED <<file, txn>> /\ Head(todo).op = "reload"
    BY <1>8 DEF ReloadRemoved, At
  <2>. QED
    BY <1>1, <1>2, <1>4, <1>5, <2>1 DEF Removed, Pending
<1>9. CASE VerifyRemoved
  <2>1. UNCHANGED <<file, svc, txn>> /\ Head(todo).op = "verify"
    BY <1>9 DEF VerifyRemoved, At, host
  <2>2. svc[Arg] = Gone
    <3>1. Arg \in Role /\ svc[Arg] \in Service
      BY <1>1, <2>1, RemovedIs DEF HostIn
    <3>2. ~Fail
      BY DEF Fail, Finish
    <3>3. PICK s : s = svc[Arg] /\ s \in Service
      BY <3>1
    <3>4. ~s.active /\ ~s.enabled /\ s.loaded = Absent /\ ~s.failed
      BY <1>9, <3>2, <3>3 DEF VerifyRemoved, Proceed
    <3>5. s = [enabled |-> s.enabled, active |-> s.active, failed |-> s.failed,
               loaded |-> s.loaded]
          /\ s.enabled \in BOOLEAN /\ s.active \in BOOLEAN /\ s.failed \in BOOLEAN
      BY <3>3 DEF Service
    <3>6. s.enabled = FALSE /\ s.active = FALSE /\ s.failed = FALSE
      BY <3>4, <3>5
    <3>7. s = Gone
      BY <3>4, <3>5, <3>6 DEF Gone
    <3>. QED
      BY <3>3, <3>7
  <2>3. \A x \in ToSet(todo') : x.op = "verify"
    <3>. TAKE x \in ToSet(todo')
    <3>1. Rank(Head(todo)) = 3 /\ Rank(Head(todo)) <= Rank(x) /\ Fits("uninstall", txn, x)
      BY <1>1, <2>1 DEF Rank
    <3>2. x.op \in {"enable", "start", "verify"}
      BY <3>1 DEF Rank
    <3>. QED
      BY <3>1, <3>2 DEF Fits
  <2>4. \A r \in ToSet(txn.roles) : Step("verify", r) \in ToSet(todo') \/ svc[r] = Gone
    BY <1>2, <1>4, <2>2
  <2>5. \A a \in Infrastructure(ToSet(txn.roles)) :
            file[a] = Absent \/ Step("remove", a) \in ToSet(todo')
    BY <1>2, <1>4, <2>1
  <2>. QED
    BY <2>1, <2>3, <2>4, <2>5 DEF Removed, Pending
<1>10. \/ Head(todo).op \in {"inspect", "stop", "reset-failed", "disable"}
       \/ RemoveInfrastructure \/ ReloadRemoved \/ VerifyRemoved
  BY <1>1 DEF RunUninstall, InspectService, StopService, ResetFailed, DisableService, Converge, At
<1>. QED
  BY <1>6, <1>7, <1>8, <1>9, <1>10

\* A service that fails is no less at rest.
LEMMA RestServiceFails ==
    ASSUME TypeInv, RestInv, ServiceFails PROVE RestInv'
<1>1. PICK r \in Role :
              /\ svc[r].active /\ svc' \in [Role -> Service]
              /\ \A q \in Role : q # r => svc'[q] = svc[q]
              /\ ~svc'[r].active /\ svc'[r].failed /\ svc'[r].enabled = svc[r].enabled
              /\ svc'[r].loaded = svc[r].loaded
  BY FailsIs DEF TypeInv
<1>2. UNCHANGED <<file, phase, todo, txn>>
  BY DEF ServiceFails
<1>3. \A q \in Role : /\ svc'[q].active => svc[q].active
                      /\ svc'[q].enabled = svc[q].enabled
                      /\ svc[q] = Gone => svc'[q] = svc[q]
  BY <1>1 DEF Gone
<1>4. TransactionIn(txn) /\ ToSet(txn.roles) \subseteq Role
  BY RolesAre DEF TypeInv
<1>5. StoppedFirst'
  <2>1. txn.startTried \subseteq Role
    BY <1>4 DEF TransactionIn
  <2>. QED
    BY <1>2, <1>3, <2>1 DEF RestInv, StoppedFirst, Pending
<1>6. AtRest'
  <2>1. CASE phase = "uninstall" /\ todo # <<>>
    <3>1. /\ Head(todo).op \in {"stop", "reset-failed", "disable"} => Arg \in Role
          /\ Head(todo).op = "remove" => Arg[1] \in Role
      BY <2>1, RemovedIs
    <3>. QED
      BY <1>2, <1>3, <2>1, <3>1 DEF RestInv, AtRest, Viewed, Arg
  <2>2. CASE ~(phase = "uninstall" /\ todo # <<>>)
    BY <1>2, <2>2 DEF RestInv, AtRest
  <2>. QED
    BY <2>1, <2>2
<1>7. Removed'
  BY <1>2, <1>3, <1>4 DEF RestInv, Removed, Pending
<1>. QED
  BY <1>5, <1>6, <1>7 DEF RestInv

\* Every step leaves at rest what is, until its artifacts are replaced or removed.
LEMMA RestNext == TypeInv /\ TypeInv' /\ RestInv /\ [Next]_vars => RestInv'
<1>. SUFFICES ASSUME TypeInv, TypeInv', RestInv, [Next]_vars PROVE RestInv'
  OBVIOUS
<1>1. CASE \E roles \in Selections, enable, begin \in BOOLEAN : Install(roles, enable, begin)
  <2>1. phase' = "install"
    BY <1>1 DEF Install, Invoke
  <2>. QED
    BY <2>1, RestElsewhere
<1>2. CASE \E roles \in Selections : Uninstall(roles)
  BY <1>2, RestUninstall
<1>3. CASE RunInstall
  BY <1>3, RestInstall
<1>4. CASE Rollback
  BY <1>4, RestRollback
<1>5. CASE RunUninstall
  <2>1. CASE phase' = "uninstall"
    BY <1>5, <2>1, AtRestNext, RemovedNext DEF RestInv, StoppedFirst
  <2>2. CASE phase' # "uninstall"
    BY <1>5, <2>2, UninstallLeads, RestElsewhere
  <2>. QED
    BY <2>1, <2>2
<1>6. CASE Kill \/ EditConfiguration
  <2>1. phase' = "idle"
    BY <1>6 DEF Kill, Finish, EditConfiguration
  <2>. QED
    BY <2>1, RestElsewhere
<1>7. CASE ServiceFails
  BY <1>7, RestServiceFails
<1>8. CASE UNCHANGED vars
  BY <1>8 DEF vars, host, RestInv, StoppedFirst, AtRest, Removed, Pending, Viewed, Arg
<1>. QED
  BY <1>1, <1>2, <1>3, <1>4, <1>5, <1>6, <1>7, <1>8 DEF Next

\* What keeps the types and what is at rest holds always.
LEMMA RestAlways == Spec => [](TypeInv /\ RestInv)
<1>1. Init => TypeInv /\ RestInv
  <2>. SUFFICES ASSUME Init PROVE TypeInv /\ RestInv
    OBVIOUS
  <2>. QED
    BY TypeInit DEF Init, RestInv, StoppedFirst, AtRest, Removed
<1>2. TypeInv /\ RestInv /\ [Next]_vars => (TypeInv /\ RestInv)'
  BY TypeNext, RestNext
<1>. QED
  BY <1>1, <1>2, PTL DEF Spec

\* Which step changes a file while a rollback restores and while an Uninstall runs.
LEMMA FileChanges ==
    ASSUME TypeInv, [Next]_vars, phase \in {"restoring", "uninstall"}, file' # file
    PROVE  \/ phase = "restoring" /\ RestoreArtifact
           \/ phase = "uninstall" /\ RemoveInfrastructure
<1>1. ~(\E roles \in Selections, enable, begin \in BOOLEAN : Install(roles, enable, begin))
      /\ ~(\E roles \in Selections : Uninstall(roles))
      /\ ~Kill /\ ~ServiceFails /\ ~EditConfiguration /\ ~(UNCHANGED vars)
  BY DEF Install, Uninstall, Invoke, Kill, ServiceFails, EditConfiguration, vars, host
<1>2. ~RunInstall
  BY InstallLeads
<1>3. CASE Rollback
  BY <1>3 DEF Rollback, StopStarted, WithholdArtifacts, RestoreArtifacts, RestoreArtifact,
              ReloadRestored, RestoreEnablement, RestoreActiveStates, RestoreActiveState,
              EndIncomplete, EndRolledBack, At, host
<1>4. CASE RunUninstall
  <2>1. phase = "uninstall"
    BY <1>4, UninstallLeads
  <2>. QED
    BY <1>4, <2>1 DEF RunUninstall, InspectService, StopService, ResetFailed, DisableService,
                      Converge, ReloadRemoved, VerifyRemoved, EndUninstalled, host
<1>. QED
  BY <1>1, <1>2, <1>3, <1>4 DEF Next

\* No artifact is put back under a service that the transaction started and could not
\* stop, nor removed under one that runs or would be started at boot (rollback's first
\* loop, and Uninstall's, which stops and disables each service before its unit goes).
THEOREM ReplacedAtRestAlways == Spec => ReplacedAtRest
<1>. DEFINE A == /\ phase = "restoring" /\ file' # file =>
                      \A r \in txn.startTried : txn.before[r].active \/ ~svc[r].active
                 /\ phase = "uninstall" =>
                      \A a \in Artifact :
                         file'[a] # file[a] => ~svc[a[1]].active /\ ~svc[a[1]].enabled
<1>1. TypeInv /\ RestInv /\ [Next]_vars => A
  <2>. SUFFICES ASSUME TypeInv, RestInv, [Next]_vars PROVE A
    OBVIOUS
  <2>1. ASSUME phase = "restoring", file' # file
        PROVE  \A r \in txn.startTried : txn.before[r].active \/ ~svc[r].active
    BY <2>1 DEF RestInv, StoppedFirst
  <2>2. ASSUME phase = "uninstall", NEW a \in Artifact, file'[a] # file[a]
        PROVE  ~svc[a[1]].active /\ ~svc[a[1]].enabled
    <3>1. RemoveInfrastructure
      BY <2>2, FileChanges
    <3>2. /\ todo # <<>> /\ Head(todo).op = "remove" /\ file \in [Artifact -> Content]
          /\ \/ file' = [file EXCEPT ![Arg] = Absent]
             \/ file' = file
      BY <3>1 DEF RemoveInfrastructure, At, TypeInv, HostIn
    <3>3. a = Arg
      BY <2>2, <3>2
    <3>. QED
      BY <2>2, <3>2, <3>3 DEF RestInv, AtRest
  <2>. QED
    BY <2>1, <2>2
<1>2. TypeInv /\ RestInv /\ [Next]_vars => [A]_vars
  BY <1>1
<1>. QED
  BY <1>2, RestAlways, PTL DEF Spec, ReplacedAtRest

\* Which step completes an Uninstall.
LEMMA UninstalledBy ==
    ASSUME TypeInv, [Next]_vars, Ends("uninstalled") PROVE EndUninstalled
<1>1. ~(\E roles \in Selections, enable, begin \in BOOLEAN : Install(roles, enable, begin))
      /\ ~(\E roles \in Selections : Uninstall(roles))
      /\ ~Kill /\ ~ServiceFails /\ ~EditConfiguration /\ ~(UNCHANGED vars)
  BY DEF Install, Uninstall, Invoke, Kill, Finish, ServiceFails, EditConfiguration, vars, Ends
<1>2. ~RunInstall
  BY InstallLeads DEF Ends
<1>3. ~Rollback
  BY DEF Rollback, StopStarted, WithholdArtifacts, RestoreArtifacts, RestoreArtifact,
         ReloadRestored, RestoreEnablement, RestoreActiveStates, RestoreActiveState,
         EndIncomplete, EndRolledBack, Continue, Finish, Ends
<1>4. CASE RunUninstall /\ ~EndUninstalled
  <2>1. Continue \/ Fail \/ RemoveInfrastructure
    BY <1>4 DEF RunUninstall, InspectService, StopService, ResetFailed, DisableService, Converge,
                ReloadRemoved, VerifyRemoved, Proceed
  <2>. QED
    BY <2>1 DEF Continue, Fail, RemoveInfrastructure, Finish, Ends
<1>. QED
  BY <1>1, <1>2, <1>3, <1>4 DEF Next

\* A completed Uninstall leaves no unit, no binary and no service state, however often it
\* was interrupted before (Uninstall, install_linux.go: its last loop reads every state
\* again).
THEOREM UninstallAlwaysLeavesNothing == Spec => UninstallLeavesNothing
<1>. DEFINE A == Ends("uninstalled") =>
                    \A r \in ToSet(txn.roles) :
                       /\ file'[<<r, "binary">>] = Absent /\ Unit(file', r) = Absent
                       /\ svc'[r] = [enabled |-> FALSE, active |-> FALSE, failed |-> FALSE,
                                     loaded |-> Absent]
<1>1. TypeInv /\ RestInv /\ [Next]_vars => A
  <2>. SUFFICES ASSUME TypeInv, RestInv, [Next]_vars, Ends("uninstalled"),
                       NEW r \in ToSet(txn.roles)
                PROVE  /\ file'[<<r, "binary">>] = Absent /\ Unit(file', r) = Absent
                       /\ svc'[r] = Gone
    BY DEF Gone
  <2>1. phase = "uninstall" /\ todo = <<>> /\ UNCHANGED <<file, svc>>
    BY UninstalledBy DEF EndUninstalled, Done, host
  <2>2. \A op, x : ~ Pending(op, x)
    BY <2>1 DEF Pending, ToSet
  <2>3. <<r, "binary">> \in Infrastructure(ToSet(txn.roles))
        /\ <<r, "unit">> \in Infrastructure(ToSet(txn.roles))
    BY DEF Infrastructure
  <2>. QED
    BY <2>1, <2>2, <2>3 DEF RestInv, Removed, Unit
<1>2. TypeInv /\ RestInv /\ [Next]_vars => [A]_vars
  BY <1>1
<1>. QED
  BY <1>2, RestAlways, PTL DEF Spec, UninstallLeavesNothing

(***************************************************************************)
(* One version of everything.                                              *)
(***************************************************************************)

\* A step of an Install that loses nothing and does what it is for.
LEMMA CurrentStep ==
    ASSUME TypeInv, Current, phase = "install", phase' = "install", todo # <<>>,
           todo' = Tail(todo), run' = run,
           txn'.roles = txn.roles, txn'.enable = txn.enable, txn'.begin = txn.begin,
           \A a \in Artifact :
              /\ file[a] = Version => file'[a] = Version
              /\ file[a] # Absent => file'[a] # Absent,
           Head(todo).op = "publish" =>
              IF Arg[2] = "config" THEN file'[Arg] # Absent ELSE file'[Arg] = Version,
           \A r \in Role :
              /\ svc[r].loaded = Version => svc'[r].loaded = Version
              /\ svc[r].enabled => svc'[r].enabled
              /\ svc[r].active \/ svc[r].failed => svc'[r].active \/ svc'[r].failed,
           Head(todo).op = "reload" => \A r \in ToSet(txn.roles) : svc'[r].loaded = Version,
           Head(todo).op = "enable" => svc'[Arg].enabled,
           Head(todo).op = "start" => svc'[Arg].active \/ svc'[Arg].failed,
           \A d \in Devices : Reaches(account.groups, d) => Reaches(account'.groups, d),
           Head(todo).op = "gpu" => \A d \in Devices : Reaches(account'.groups, d)
    PROVE  Current'
<1>1. /\ Head(todo) \in PlanStep /\ ToSet(todo) = {Head(todo)} \cup ToSet(todo')
      /\ ToSet(txn.roles) \subseteq Role /\ run \in Nat
  BY NextStep, RolesAre DEF TypeInv, HostIn
<1>2. \A op, x : Step(op, x) \in ToSet(todo) =>
                    Step(op, x) \in ToSet(todo') \/ (Head(todo).op = op /\ Arg = x)
  BY <1>1 DEF Step, Arg
<1>3. ASSUME NEW r \in ToSet(txn.roles)
      PROVE  /\ \/ file'[<<r, "binary">>] = Version
                \/ Step("publish", <<r, "binary">>) \in ToSet(todo')
             /\ \/ file'[<<r, "unit">>] = Version
                \/ Step("publish", <<r, "unit">>) \in ToSet(todo')
             /\ \/ file'[<<r, "config">>] # Absent
                \/ Step("publish", <<r, "config">>) \in ToSet(todo')
  <2>1. /\ <<r, "binary">> \in Artifact /\ <<r, "unit">> \in Artifact
        /\ <<r, "config">> \in Artifact
    BY <1>1 DEF Artifact
  <2>2. /\ file[<<r, "binary">>] = Version \/ Step("publish", <<r, "binary">>) \in ToSet(todo)
        /\ file[<<r, "unit">>] = Version \/ Step("publish", <<r, "unit">>) \in ToSet(todo)
        /\ file[<<r, "config">>] # Absent \/ Step("publish", <<r, "config">>) \in ToSet(todo)
    BY DEF Current, Pending
  <2>. QED
    BY <1>2, <2>1, <2>2
<1>4. ASSUME NEW r \in ToSet(txn.roles)
      PROVE  /\ svc'[r].loaded = Version \/ \E x \in ToSet(todo') : x.op = "reload"
             /\ txn.enable => svc'[r].enabled \/ Step("enable", r) \in ToSet(todo')
             /\ txn.begin => \/ svc'[r].active \/ svc'[r].failed
                             \/ Step("start", r) \in ToSet(todo')
  <2>1. /\ svc[r].loaded = Version \/ \E x \in ToSet(todo) : x.op = "reload"
        /\ txn.enable => svc[r].enabled \/ Step("enable", r) \in ToSet(todo)
        /\ txn.begin => \/ svc[r].active \/ svc[r].failed
                        \/ Step("start", r) \in ToSet(todo)
    BY DEF Current, Pending
  <2>2. svc'[r].loaded = Version \/ \E x \in ToSet(todo') : x.op = "reload"
    BY <1>1, <2>1
  <2>3. txn.enable => svc'[r].enabled \/ Step("enable", r) \in ToSet(todo')
    BY <1>1, <1>2, <2>1
  <2>4. txn.begin => \/ svc'[r].active \/ svc'[r].failed
                     \/ Step("start", r) \in ToSet(todo')
    BY <1>1, <1>2, <2>1
  <2>. QED
    BY <2>2, <2>3, <2>4
<1>5. "agent" \in ToSet(txn.roles) =>
         (\A d \in Devices : Reaches(account'.groups, d)) \/ Step("gpu", "le0x") \in ToSet(todo')
  BY <1>2 DEF Current, Pending
<1>. QED
  BY <1>3, <1>4, <1>5 DEF Current, Pending, Version

\* The steps that look, and prepare the account.
LEMMA CurrentPrepare ==
    ASSUME TypeInv, Current, phase' = "install",
           EnsureServiceAccount \/ EnsureGPUAccess \/ QueryService \/ CaptureArtifact
    PROVE  Current'
<1>1. /\ phase = "install" /\ todo # <<>> /\ TransactionIn(txn) /\ HostIn
      /\ Head(todo).op \in {"account", "gpu", "query", "capture"}
  BY DEF EnsureServiceAccount, EnsureGPUAccess, QueryService, CaptureArtifact, At, TypeInv
<1>2. ~Refuse
  BY DEF Refuse, Finish
<1>3. Continue /\ UNCHANGED <<file, svc>>
  BY <1>2 DEF EnsureServiceAccount, EnsureGPUAccess, QueryService, CaptureArtifact, host
<1>4. txn'.roles = txn.roles /\ txn'.enable = txn.enable /\ txn'.begin = txn.begin
  <2>1. CASE txn' = txn
    BY <2>1
  <2>2. ASSUME NEW b, txn' = [txn EXCEPT !.before = b] \/ txn' = [txn EXCEPT !.original = b]
        PROVE  txn'.roles = txn.roles /\ txn'.enable = txn.enable /\ txn'.begin = txn.begin
    BY <1>1, <2>2 DEF TransactionIn, IsRecord
  <2>3. \/ txn' = txn
        \/ \E b : txn' = [txn EXCEPT !.before = b]
        \/ \E b : txn' = [txn EXCEPT !.original = b]
    BY <1>2 DEF EnsureServiceAccount, EnsureGPUAccess, QueryService, CaptureArtifact
  <2>. QED
    BY <2>1, <2>2, <2>3
<1>5. /\ \A d \in Devices : Reaches(account.groups, d) => Reaches(account'.groups, d)
      /\ Head(todo).op = "gpu" => \A d \in Devices : Reaches(account'.groups, d)
  <2>0. account = [exists |-> account.exists, groups |-> account.groups]
    BY <1>1 DEF HostIn
  <2>1. CASE EnsureGPUAccess
    <3>1. /\ GPUAccess
          /\ account' = [account EXCEPT !.groups = account.groups \cup {d.group : d \in Lacking}]
      BY <1>2, <2>1 DEF EnsureGPUAccess
    <3>2. PICK g : g = account.groups \cup {d.group : d \in Lacking}
      OBVIOUS
    <3>3. account'.groups = g
      BY <2>0, <3>1, <3>2
    <3>4. account.groups \subseteq g /\ \A d \in Lacking : d.group \in g
      BY <3>2
    <3>. QED
      BY <3>1, <3>3, <3>4 DEF GPUAccess, Lacking, Reaches
  <2>2. CASE EnsureServiceAccount
    <3>1. account' = [account EXCEPT !.exists = TRUE] /\ Head(todo).op = "account"
      BY <1>2, <2>2 DEF EnsureServiceAccount, At
    <3>2. account'.groups = account.groups
      BY <2>0, <3>1
    <3>. QED
      BY <3>1, <3>2
  <2>3. CASE QueryService \/ CaptureArtifact
    BY <1>2, <2>3 DEF QueryService, CaptureArtifact, host, At
  <2>. QED
    BY <2>1, <2>2, <2>3
<1>6. todo' = Tail(todo) /\ run' = run
  BY <1>3 DEF Continue
<1>. QED
  BY <1>1, <1>3, <1>4, <1>5, <1>6, CurrentStep

\* The steps that publish the artifacts.
LEMMA CurrentPublish ==
    ASSUME TypeInv, Current, phase' = "install", ReplaceFile \/ CreatePreservedFile
    PROVE  Current'
<1>. DEFINE t == [txn EXCEPT !.published = txn.published \cup {Arg}]
<1>1. /\ phase = "install" /\ todo # <<>> /\ TransactionIn(txn) /\ HostIn
      /\ Head(todo).op = "publish" /\ At("install", "publish")
  BY DEF ReplaceFile, CreatePreservedFile, At, TypeInv
<1>2. Arg \in DOMAIN txn.original /\ Arg \in Artifact
  BY <1>1, PublishedIsCaptured
<1>3. Others(txn, t, "published")
  BY <1>1, <1>2, MarkIs
<1>4. t.roles = txn.roles /\ t.enable = txn.enable /\ t.begin = txn.begin
  BY <1>3 DEF Others
<1>. HIDE DEF t
<1>5. ~RollBack(t) /\ ~RollBack(txn)
  BY DEF RollBack
<1>6. /\ Continue /\ UNCHANGED <<svc, account>>
      /\ txn' = txn \/ txn' = t
      /\ \/ Arg[2] # "config" /\ file' = [file EXCEPT ![Arg] = Version]
         \/ Arg[2] = "config" /\ file[Arg] # Absent /\ file' = file
         \/ Arg[2] = "config" /\ file[Arg] = Absent /\ file' = [file EXCEPT ![Arg] = Default]
  BY <1>5 DEF ReplaceFile, CreatePreservedFile, ContinueOrRollBack, t
<1>7. todo' = Tail(todo) /\ run' = run
  BY <1>6 DEF Continue
<1>8. txn'.roles = txn.roles /\ txn'.enable = txn.enable /\ txn'.begin = txn.begin
  BY <1>4, <1>6
<1>9. /\ \A a \in Artifact :
            /\ file[a] = Version => file'[a] = Version
            /\ file[a] # Absent => file'[a] # Absent
      /\ IF Arg[2] = "config" THEN file'[Arg] # Absent ELSE file'[Arg] = Version
  <2>1. file \in [Artifact -> Content] /\ Default # Absent /\ Version # Absent
    BY <1>1 DEF HostIn, Default, Absent, Version
  <2>2. file[Arg] = Version => file[Arg] # Absent
    BY <2>1
  <2>. QED
    BY <1>2, <1>6, <2>1, <2>2
<1>. QED
  BY <1>1, <1>6, <1>7, <1>8, <1>9, CurrentStep

\* systemd holds the units of this version once it is reloaded: all are published.
LEMMA CurrentReload ==
    ASSUME TypeInv, Current, phase' = "install", ReloadUnits PROVE Current'
<1>1. /\ phase = "install" /\ todo # <<>> /\ TransactionIn(txn) /\ HostIn
      /\ Head(todo).op = "reload" /\ UNCHANGED <<file, account>>
  BY DEF ReloadUnits, At, TypeInv
<1>2. PICK ok \in BOOLEAN : DaemonReload(ok) /\ ContinueOrRollBack(ok, txn)
  BY DEF ReloadUnits
<1>3. ok /\ Continue /\ txn' = txn
  BY <1>2 DEF ContinueOrRollBack, RollBack
<1>4. svc' = Reloaded
  BY <1>1, <1>2, <1>3, DaemonReloadIs
<1>5. /\ \A x \in ToSet(todo) : Rank(Head(todo)) <= Rank(x)
      /\ ToSet(txn.roles) \subseteq Role
  BY <1>1, NextStep, RolesAre
<1>6. ASSUME NEW r \in ToSet(txn.roles) PROVE Unit(file, r) = Version
  <2>1. Rank(Head(todo)) = 2 /\ Rank(Step("publish", <<r, "unit">>)) = 1
    BY <1>1 DEF Rank, Step
  <2>2. Step("publish", <<r, "unit">>) \notin ToSet(todo)
    <3>1. ~ (2 <= 1)
      OBVIOUS
    <3>. QED
      BY <1>5, <2>1, <3>1
  <2>. QED
    BY <1>1, <2>2 DEF Current, Pending, Unit
<1>7. \A r \in ToSet(txn.roles) : svc'[r].loaded = Version
  <2>1. Version # Absent
    BY <1>1 DEF Version, Absent, HostIn
  <2>. QED
    BY <1>1, <1>4, <1>5, <1>6, <2>1, ReloadedIs
<1>8. \A r \in Role :
         /\ svc[r].enabled => svc'[r].enabled
         /\ svc[r].active \/ svc[r].failed => svc'[r].active \/ svc'[r].failed
  BY <1>1, <1>4, ReloadedIs
<1>9. Current'
  <2>1. /\ ToSet(todo) = {Head(todo)} \cup ToSet(todo') /\ run' = run /\ todo' = Tail(todo)
        /\ phase' = phase
    BY <1>1, <1>3, NextStep DEF Continue
  <2>2. \A op, x : op # "reload" /\ Step(op, x) \in ToSet(todo) => Step(op, x) \in ToSet(todo')
    BY <1>1, <2>1 DEF Step
  <2>. QED
    BY <1>1, <1>3, <1>5, <1>7, <1>8, <2>1, <2>2 DEF Current, Pending, Version
<1>. QED
  BY <1>9

\* The services are enabled and started with the units of this version.
LEMMA CurrentServices ==
    ASSUME TypeInv, Current, phase' = "install", EnableService \/ StartService
    PROVE  Current'
<1>1. /\ phase = "install" /\ todo # <<>> /\ TransactionIn(txn) /\ HostIn
      /\ At("install", "enable") \/ At("install", "start")
      /\ UNCHANGED <<file, account>>
  BY DEF EnableService, StartService, At, TypeInv
<1>2. Arg \in DOMAIN txn.before /\ Arg \in Role /\ Rank(Head(todo)) = 3
  BY <1>1, TriedIsQueried
<1>3. PICK op \in {"enable", "start"} :
         /\ Head(todo).op = op /\ Effect(op, Arg) /\ Continue
         /\ txn'.roles = txn.roles /\ txn'.enable = txn.enable /\ txn'.begin = txn.begin
  <2>1. CASE EnableService
    <3>. DEFINE t == [txn EXCEPT !.enableTried = txn.enableTried \cup {Arg}]
    <3>1. PICK ok \in BOOLEAN : Systemctl("enable", Arg, ok) /\ ContinueOrRollBack(ok, t)
      BY <2>1 DEF EnableService
    <3>2. t.roles = txn.roles /\ t.enable = txn.enable /\ t.begin = txn.begin
      BY <1>1, <1>2, MarkIs DEF Others
    <3>. HIDE DEF t
    <3>3. ok /\ Continue /\ txn' = t
      BY <3>1 DEF ContinueOrRollBack, RollBack
    <3>4. Effect("enable", Arg)
      BY <1>1, <1>2, <3>1, <3>3, SystemctlIs
    <3>. QED
      BY <2>1, <3>2, <3>3, <3>4 DEF EnableService, At
  <2>2. CASE StartService
    <3>. DEFINE t == [txn EXCEPT !.startTried = txn.startTried \cup {Arg}]
    <3>1. PICK ok \in BOOLEAN : Systemctl("start", Arg, ok) /\ ContinueOrRollBack(ok, t)
      BY <2>2 DEF StartService
    <3>2. t.roles = txn.roles /\ t.enable = txn.enable /\ t.begin = txn.begin
      BY <1>1, <1>2, MarkIs DEF Others
    <3>. HIDE DEF t
    <3>3. ok /\ Continue /\ txn' = t
      BY <3>1 DEF ContinueOrRollBack, RollBack
    <3>4. Effect("start", Arg)
      BY <1>1, <1>2, <3>1, <3>3, SystemctlIs
    <3>. QED
      BY <2>2, <3>2, <3>3, <3>4 DEF StartService, At
  <2>. QED
    BY <2>1, <2>2
<1>4. /\ Head(todo) \in ToSet(todo) /\ \A x \in ToSet(todo) : Rank(Head(todo)) <= Rank(x)
      /\ Fits(phase, txn, Head(todo))
  BY <1>1, NextStep
<1>5. Arg \in ToSet(txn.roles)
  BY <1>1, <1>3, <1>4 DEF Fits, Arg
<1>6. svc[Arg].loaded = Version
  <2>1. ASSUME NEW x \in ToSet(todo), x.op = "reload" PROVE FALSE
    <3>1. Rank(x) = 2
      BY <2>1 DEF Rank
    <3>2. ~ (3 <= 2)
      OBVIOUS
    <3>. QED
      BY <1>2, <1>4, <3>1, <3>2
  <2>. QED
    BY <1>1, <1>5, <2>1 DEF Current
<1>7. Known(Arg) = Version
  <2>1. Version # Absent
    BY <1>1 DEF Version, Absent, HostIn
  <2>. QED
    BY <1>6, <2>1 DEF Known
<1>8. /\ \A q \in Role : q # Arg => svc'[q] = svc[q]
      /\ svc'[Arg].loaded = Version
      /\ op = "enable" => /\ svc'[Arg].enabled /\ svc'[Arg].active = svc[Arg].active
                          /\ svc'[Arg].failed = svc[Arg].failed
      /\ op = "start" => svc'[Arg].active /\ svc'[Arg].enabled = svc[Arg].enabled
  BY <1>1, <1>2, <1>3, <1>7, EffectIs DEF HostIn
<1>9. /\ \A r \in Role :
            /\ svc[r].loaded = Version => svc'[r].loaded = Version
            /\ svc[r].enabled => svc'[r].enabled
            /\ svc[r].active \/ svc[r].failed => svc'[r].active \/ svc'[r].failed
      /\ Head(todo).op = "enable" => svc'[Arg].enabled
      /\ Head(todo).op = "start" => svc'[Arg].active \/ svc'[Arg].failed
      /\ Head(todo).op \notin {"publish", "reload", "gpu"}
  BY <1>3, <1>8
<1>10. todo' = Tail(todo) /\ run' = run
  BY <1>3 DEF Continue
<1>. QED
  BY <1>1, <1>3, <1>9, <1>10, CurrentStep

\* An Install has everything to do when it begins.
LEMMA CurrentInstall ==
    ASSUME NEW roles \in Selections, NEW enable \in BOOLEAN, NEW begin \in BOOLEAN,
           Install(roles, enable, begin)
    PROVE  Current'
<1>. DEFINE S == InstallSteps(ToSet(roles), enable, begin)
<1>1. /\ todo' = InstallPlan(roles, enable, begin) /\ txn' = Transaction(roles, enable, begin)
      /\ roles \in Seq(Role)
  BY InstallerAssumption DEF Install, Invoke
<1>2. txn'.roles = roles /\ txn'.enable = enable /\ txn'.begin = begin
  BY <1>1, FreshIs
<1>3. ToSet(todo') = S
  BY <1>1, InstallPlanIs DEF IsPlan
<1>4. /\ \A r \in ToSet(roles) :
            /\ Step("publish", <<r, "binary">>) \in S /\ Step("publish", <<r, "unit">>) \in S
            /\ Step("publish", <<r, "config">>) \in S
            /\ enable => Step("enable", r) \in S
            /\ begin => Step("start", r) \in S
      /\ "agent" \in ToSet(roles) => Step("gpu", "le0x") \in S
      /\ Step("reload", "systemd") \in S /\ Step("reload", "systemd").op = "reload"
  BY DEF InstallSteps, ForEach, Step
<1>. HIDE DEF S
<1>. QED
  BY <1>2, <1>3, <1>4 DEF Current, Pending

\* Every step of an Install keeps what it has done.
LEMMA CurrentNext == TypeInv /\ Current /\ [Next]_vars => Current'
<1>. SUFFICES ASSUME TypeInv, Current, [Next]_vars, phase' = "install" PROVE Current'
  BY DEF Current
<1>1. CASE \E roles \in Selections, enable, begin \in BOOLEAN : Install(roles, enable, begin)
  BY <1>1, CurrentInstall
<1>2. CASE RunInstall
  <2>1. ~Commit
    BY DEF Commit, Finish
  <2>. QED
    BY <1>2, <2>1, CurrentPrepare, CurrentPublish, CurrentReload, CurrentServices DEF RunInstall
<1>3. CASE ServiceFails
  <2>1. PICK r \in Role :
              /\ svc[r].active /\ svc' \in [Role -> Service]
              /\ \A q \in Role : q # r => svc'[q] = svc[q]
              /\ ~svc'[r].active /\ svc'[r].failed /\ svc'[r].enabled = svc[r].enabled
              /\ svc'[r].loaded = svc[r].loaded
    BY <1>3, FailsIs DEF TypeInv
  <2>2. UNCHANGED <<file, account, run, phase, todo, txn>>
    BY <1>3 DEF ServiceFails
  <2>3. ToSet(txn.roles) \subseteq Role
    BY RolesAre DEF TypeInv
  <2>. QED
    BY <2>1, <2>2, <2>3 DEF Current, Pending, Version
<1>4. CASE UNCHANGED vars
  BY <1>4 DEF vars, host, Current, Pending, Version
<1>5. ~(\E roles \in Selections : Uninstall(roles)) /\ ~Kill /\ ~EditConfiguration
  BY DEF Uninstall, Invoke, Kill, Finish, EditConfiguration
<1>6. ~Rollback
  BY DEF Rollback, StopStarted, WithholdArtifacts, RestoreArtifacts, RestoreArtifact,
         ReloadRestored, RestoreEnablement, RestoreActiveStates, RestoreActiveState,
         EndIncomplete, EndRolledBack, Continue, Finish, At, Done
<1>7. ~RunUninstall
  BY UninstallLeads
<1>. QED
  BY <1>1, <1>2, <1>3, <1>4, <1>5, <1>6, <1>7 DEF Next

\* A completed Install installed one version of everything, systemd holds the units it
\* installed when it enables and starts them, and the Agent reaches the GPUs (Install:
\* publishes, reloads, then enables and starts; ensureGPUAccess comes first).
THEOREM InstalledIsAlwaysOneVersion == Spec => InstalledIsOneVersion
<1>. DEFINE A == Ends("installed") =>
          \A r \in ToSet(txn.roles) :
              /\ file'[<<r, "binary">>] = Version /\ Unit(file', r) = Version
              /\ file'[<<r, "config">>] # Absent
              /\ svc'[r].loaded = Version
              /\ txn.enable => svc'[r].enabled
              /\ txn.begin => svc'[r].active \/ svc'[r].failed
              /\ r = "agent" => \A d \in Devices : Reaches(account.groups, d)
<1>1. TypeInv /\ Current /\ [Next]_vars => A
  <2>. SUFFICES ASSUME TypeInv, Current, [Next]_vars, Ends("installed") PROVE A
    OBVIOUS
  <2>1. ~(\E roles \in Selections, enable, begin \in BOOLEAN : Install(roles, enable, begin))
        /\ ~(\E roles \in Selections : Uninstall(roles))
        /\ ~Kill /\ ~ServiceFails /\ ~EditConfiguration /\ ~(UNCHANGED vars)
    BY DEF Install, Uninstall, Invoke, Kill, Finish, ServiceFails, EditConfiguration, vars, Ends
  <2>2. ~Rollback
    BY DEF Rollback, StopStarted, WithholdArtifacts, RestoreArtifacts, RestoreArtifact,
           ReloadRestored, RestoreEnablement, RestoreActiveStates, RestoreActiveState,
           EndIncomplete, EndRolledBack, Continue, Finish, Ends
  <2>3. ~RunUninstall
    BY UninstallLeads DEF Ends
  <2>4. CASE RunInstall
    <3>1. CASE Commit
      <4>1. phase = "install" /\ todo = <<>> /\ UNCHANGED <<file, svc>>
        BY <3>1 DEF Commit, Done
      <4>2. ToSet(todo) = {}
        BY <4>1 DEF ToSet
      <4>. QED
        BY <4>1, <4>2 DEF Current, Pending, Unit
    <3>2. CASE EnsureServiceAccount \/ EnsureGPUAccess \/ QueryService \/ CaptureArtifact
      <4>1. Continue \/ Refuse
        BY <3>2 DEF EnsureServiceAccount, EnsureGPUAccess, QueryService, CaptureArtifact
      <4>. QED
        BY <4>1 DEF Continue, Refuse, Finish, Ends
    <3>3. CASE ReplaceFile \/ CreatePreservedFile \/ ReloadUnits \/ EnableService \/ StartService
      <4>1. Continue \/ \E t : RollBack(t)
        BY <3>3 DEF ReplaceFile, CreatePreservedFile, ReloadUnits, EnableService, StartService,
                    ContinueOrRollBack
      <4>. QED
        BY <4>1 DEF Continue, RollBack, Ends
    <3>. QED
      BY <2>4, <3>1, <3>2, <3>3 DEF RunInstall
  <2>. QED
    BY <2>1, <2>2, <2>3, <2>4 DEF Next
<1>2. TypeInv /\ Current /\ [Next]_vars => [A]_vars
  BY <1>1
<1>3. Init => TypeInv /\ Current
  BY TypeInit DEF Init, Current
<1>4. TypeInv /\ Current /\ [Next]_vars => (TypeInv /\ Current)'
  BY TypeNext, CurrentNext
<1>. QED
  BY <1>2, <1>3, <1>4, PTL DEF Spec, InstalledIsOneVersion

(***************************************************************************)
(* What a rollback puts back.                                              *)
(***************************************************************************)
Early == {"install", "stopping", "restoring"}

\* A step before enablement is put back: a service that it enables or disables is
\* marked, and so is one that it starts, which has its unit.
LEMMA ExactEarly ==
    ASSUME TypeInv, TypeInv', ExactInv, phase \in Early, phase' \in Early, start' = start,
           txn'.before = txn.before, txn.enableTried \subseteq txn'.enableTried,
           txn.startTried \subseteq txn'.startTried,
           \A r \in Role : svc'[r].enabled = svc[r].enabled \/ r \in txn'.enableTried,
           \A r \in Role : svc'[r].active => svc[r].active \/ r \in txn'.startTried,
           \A r \in DOMAIN txn.before :
              txn.before[r].active /\ (svc[r].active \/ svc[r].failed) =>
                 svc'[r].active \/ svc'[r].failed,
           UnitsOfRunning'
    PROVE  ExactInv'
<1>1. InTransaction /\ InTransaction' /\ phase' \notin {"enablement", "activity"}
  BY DEF InTransaction, Early
<1>2. /\ txn'.startTried \subseteq DOMAIN txn.before /\ DOMAIN txn.before \subseteq Role
      /\ txn.enableTried \subseteq DOMAIN txn.before
  BY RolesAre DEF TypeInv, TransactionIn
<1>3. /\ \A r \in Role : svc[r].active => \/ Unit(start, r) # Absent
                                          \/ r \in txn.startTried /\ ~txn.before[r].active
      /\ \A r \in DOMAIN txn.before : txn.before[r].active => Unit(start, r) # Absent
  BY <1>1 DEF ExactInv, RunsItsUnit, StartedHere
<1>4. RunsItsUnit'
  <2>1. \A r \in Role : svc'[r].active => \/ Unit(start, r) # Absent
                                          \/ r \in txn'.startTried /\ ~txn.before[r].active
    BY <1>2, <1>3
  <2>. QED
    BY <1>1, <1>3, <2>1 DEF RunsItsUnit, StartedHere
<1>5. ASSUME NEW r \in DOMAIN txn.before
      PROVE  /\ svc'[r].enabled = txn.before[r].enabled \/ r \in txn'.enableTried
             /\ txn.before[r].active => svc'[r].active \/ svc'[r].failed
             /\ ~txn.before[r].active => ~svc'[r].active \/ r \in txn'.startTried
  <2>1. /\ svc[r].enabled = txn.before[r].enabled \/ r \in txn.enableTried
        /\ txn.before[r].active => svc[r].active \/ svc[r].failed
        /\ ~txn.before[r].active => ~svc[r].active \/ r \in txn.startTried
    BY <1>1 DEF ExactInv, Given
  <2>2. r \in Role
    BY <1>2
  <2>. QED
    BY <2>1, <2>2
<1>6. Given'
  BY <1>1, <1>5 DEF Given, Early
<1>. QED
  BY <1>4, <1>6 DEF ExactInv

\* Outside a transaction only the services that run have their units.
LEMMA ExactOutside ==
    ASSUME ~InTransaction', UnitsOfRunning' PROVE ExactInv'
BY DEF ExactInv, RunsItsUnit, Given

\* What runs has its unit when no more runs and no unit goes.
LEMMA UnitsStill ==
    ASSUME UnitsOfRunning,
           \A r \in Role : /\ svc'[r].active => svc[r].active
                           /\ Unit(file, r) # Absent => Unit(file', r) # Absent
    PROVE  UnitsOfRunning'
BY DEF UnitsOfRunning

\* The steps of an Install that look and prepare.
LEMMA ExactPrepare ==
    ASSUME TypeInv, TypeInv', OriginalsInv, ExactInv,
           EnsureServiceAccount \/ EnsureGPUAccess \/ QueryService \/ CaptureArtifact
    PROVE  ExactInv'
<1>1. /\ phase = "install" /\ todo # <<>> /\ TransactionIn(txn) /\ HostIn
      /\ Head(todo).op \in {"account", "gpu", "query", "capture"}
      /\ UNCHANGED <<file, svc>>
  BY DEF EnsureServiceAccount, EnsureGPUAccess, QueryService, CaptureArtifact, At, TypeInv, host,
         Refuse
<1>2. UnitsOfRunning'
  BY <1>1 DEF ExactInv, RunsItsUnit, UnitsOfRunning
<1>3. CASE Refuse
  <2>1. ~InTransaction'
    BY <1>3 DEF Refuse, Finish, InTransaction
  <2>. QED
    BY <1>2, <2>1, ExactOutside
<1>4. CASE Continue /\ ~QueryService
  <2>1. phase' = phase /\ start' = start
    BY <1>4 DEF Continue, history
  <2>2. \/ txn' = txn
        \/ \E o : txn' = [txn EXCEPT !.original = o]
        \/ Refuse
    BY <1>1, <1>4 DEF EnsureServiceAccount, EnsureGPUAccess, CaptureArtifact
  <2>3. /\ txn'.before = txn.before /\ txn'.enableTried = txn.enableTried
        /\ txn'.startTried = txn.startTried
    <3>1. ASSUME NEW o, txn' = [txn EXCEPT !.original = o]
          PROVE  /\ txn'.before = txn.before /\ txn'.enableTried = txn.enableTried
                 /\ txn'.startTried = txn.startTried
      BY <1>1, <3>1 DEF TransactionIn, IsRecord
    <3>2. ~Refuse
      BY <1>1, <2>1 DEF Refuse, Finish
    <3>. QED
      BY <2>2, <3>1, <3>2
  <2>4. phase \in Early /\ phase' \in Early
    BY <1>1, <2>1 DEF Early
  <2>. QED
    BY <1>1, <1>2, <2>1, <2>3, <2>4, ExactEarly
<1>5. CASE Continue /\ QueryService
  <2>1. phase' = phase /\ start' = start
    BY <1>5 DEF Continue, history
  <2>2. txn' = [txn EXCEPT !.before = Noted(txn.before, Arg, svc[Arg])]
    BY <1>1, <1>5, <2>1 DEF QueryService, Refuse, Finish
  <2>3. PICK b : b = Noted(txn.before, Arg, svc[Arg])
    OBVIOUS
  <2>4. txn' = [roles |-> txn.roles, enable |-> txn.enable, begin |-> txn.begin,
                before |-> b, original |-> txn.original,
                published |-> txn.published, failed |-> txn.failed,
                enableTried |-> txn.enableTried, startTried |-> txn.startTried,
                withheld |-> txn.withheld, incomplete |-> txn.incomplete,
                reloadOK |-> txn.reloadOK, view |-> txn.view]
    BY <1>1, <2>2, <2>3, TxnWithBefore DEF TransactionIn
  <2>5. /\ txn'.before = b /\ txn'.enableTried = txn.enableTried
        /\ txn'.startTried = txn.startTried
    BY <2>4
  <2>6. /\ DOMAIN b = DOMAIN txn.before \cup {Arg}
        /\ \A r \in DOMAIN txn.before : b[r] = txn.before[r]
        /\ Arg \notin DOMAIN txn.before => b[Arg] = svc[Arg]
    BY <2>3 DEF Noted
  <2>7. txn.enableTried = {} /\ txn.startTried = {}
    <3>1. Rank(Head(todo)) = 0 /\ Head(todo) \in ToSet(todo)
      BY <1>1, NextStep DEF Rank
    <3>. QED
      BY <1>1, <3>1 DEF OriginalsInv, Untouched
  <2>8. Arg \in Role
    <3>1. Fits(phase, txn, Head(todo)) /\ Head(todo).op = "query"
      BY <1>1, <1>5, NextStep DEF QueryService, At
    <3>. QED
      BY <1>1, <3>1, RolesAre DEF Fits, Arg
  <2>9. InTransaction /\ InTransaction' /\ phase' = "install"
    BY <1>1, <2>1 DEF InTransaction
  <2>10. RunsItsUnit'
    <3>1. \A r \in Role : svc[r].active => Unit(start, r) # Absent
      BY <2>7, <2>9 DEF ExactInv, RunsItsUnit, StartedHere
    <3>2. \A r \in DOMAIN b : b[r].active => Unit(start, r) # Absent
      BY <2>6, <2>8, <2>9, <3>1 DEF ExactInv, RunsItsUnit
    <3>. QED
      BY <1>1, <1>2, <2>1, <2>5, <3>1, <3>2 DEF RunsItsUnit
  <2>11. Given'
    <3>1. ASSUME NEW r \in DOMAIN b
          PROVE  /\ svc[r].enabled = b[r].enabled
                 /\ b[r].active => svc[r].active \/ svc[r].failed
                 /\ ~b[r].active => ~svc[r].active
      <4>1. CASE r \in DOMAIN txn.before
        BY <2>6, <2>7, <2>9, <4>1 DEF ExactInv, Given
      <4>2. CASE r \notin DOMAIN txn.before
        BY <2>6, <4>2
      <4>. QED
        BY <4>1, <4>2
    <3>. QED
      BY <1>1, <2>5, <2>9, <3>1 DEF Given
  <2>. QED
    BY <2>10, <2>11 DEF ExactInv
<1>. QED
  BY <1>3, <1>4, <1>5 DEF EnsureServiceAccount, EnsureGPUAccess, QueryService, CaptureArtifact

\* The steps of an Install that change the host.
LEMMA ExactChange ==
    ASSUME TypeInv, TypeInv', OriginalsInv, Current, ExactInv,
           ReplaceFile \/ CreatePreservedFile \/ ReloadUnits \/ EnableService \/ StartService
    PROVE  ExactInv'
<1>1. /\ phase = "install" /\ todo # <<>> /\ TransactionIn(txn) /\ HostIn
      /\ start' = start /\ phase' \in {"install", "stopping"}
  <2>1. Continue \/ \E t : RollBack(t)
    BY DEF ReplaceFile, CreatePreservedFile, ReloadUnits, EnableService, StartService,
           ContinueOrRollBack
  <2>2. phase = "install" /\ todo # <<>>
    BY DEF ReplaceFile, CreatePreservedFile, ReloadUnits, EnableService, StartService, At
  <2>. QED
    BY <2>1, <2>2 DEF Continue, RollBack, history, TypeInv
<1>2. phase \in Early /\ phase' \in Early
  BY <1>1 DEF Early
<1>3. UnitsOfRunning
  BY DEF ExactInv, RunsItsUnit
<1>4. CASE ReplaceFile \/ CreatePreservedFile
  <2>. DEFINE t == [txn EXCEPT !.published = txn.published \cup {Arg}]
  <2>1. Arg \in DOMAIN txn.original /\ Arg \in Artifact
    BY <1>4, PublishedIsCaptured DEF ReplaceFile, CreatePreservedFile
  <2>2. Others(txn, t, "published")
    BY <1>1, <2>1, MarkIs
  <2>3. /\ t.before = txn.before /\ t.enableTried = txn.enableTried
        /\ t.startTried = txn.startTried
    BY <2>2 DEF Others
  <2>. HIDE DEF t
  <2>4. txn' = txn \/ txn' = t
    BY <1>4 DEF ReplaceFile, CreatePreservedFile, ContinueOrRollBack, RollBack, t
  <2>5. /\ UNCHANGED svc
        /\ \/ file' = file
           \/ file' = [file EXCEPT ![Arg] = Version]
           \/ file' = [file EXCEPT ![Arg] = Default]
    BY <1>4 DEF ReplaceFile, CreatePreservedFile
  <2>6. UnitsOfRunning'
    <3>1. Version # Absent /\ Default # Absent /\ file \in [Artifact -> Content]
      BY <1>1 DEF HostIn, Version, Default, Absent
    <3>2. \A a \in Artifact : file[a] # Absent => file'[a] # Absent
      BY <2>1, <2>5, <3>1
    <3>3. \A r \in Role : Unit(file, r) # Absent => Unit(file', r) # Absent
      BY <3>2 DEF Unit, Artifact
    <3>. QED
      BY <1>3, <2>5, <3>3, UnitsStill
  <2>. QED
    BY <1>1, <1>2, <2>3, <2>4, <2>5, <2>6, ExactEarly
<1>5. CASE ReloadUnits
  <2>1. PICK ok \in BOOLEAN : DaemonReload(ok) /\ ContinueOrRollBack(ok, txn)
    BY <1>5 DEF ReloadUnits
  <2>2. txn' = txn /\ UNCHANGED file
    BY <1>5, <2>1 DEF ContinueOrRollBack, RollBack, ReloadUnits
  <2>3. svc' = Reloaded \/ svc' = svc
    BY <1>1, <2>1, DaemonReloadIs
  <2>4. \A r \in Role : /\ svc'[r].enabled = svc[r].enabled
                        /\ svc'[r].active = svc[r].active /\ svc'[r].failed = svc[r].failed
    BY <1>1, <2>3, ReloadedIs
  <2>5. DOMAIN txn.before \subseteq Role
    BY <1>1, RolesAre DEF TransactionIn
  <2>6. UnitsOfRunning'
    BY <1>3, <2>2, <2>4, UnitsStill
  <2>. QED
    BY <1>1, <1>2, <2>2, <2>4, <2>5, <2>6, ExactEarly
<1>6. CASE EnableService
  <2>. DEFINE t == [txn EXCEPT !.enableTried = txn.enableTried \cup {Arg}]
  <2>1. PICK ok \in BOOLEAN : Systemctl("enable", Arg, ok) /\ ContinueOrRollBack(ok, t)
    BY <1>6 DEF EnableService
  <2>2. Arg \in DOMAIN txn.before /\ Arg \in Role
    BY <1>6, TriedIsQueried DEF EnableService
  <2>3. Others(txn, t, "enableTried") /\ t.enableTried = txn.enableTried \cup {Arg}
    BY <1>1, <2>2, MarkIs
  <2>. HIDE DEF t
  <2>4. txn' = t /\ UNCHANGED file
    BY <1>6, <2>1 DEF ContinueOrRollBack, RollBack, EnableService
  <2>5. \A r \in Role : /\ svc'[r].enabled = svc[r].enabled \/ r = Arg
                        /\ svc'[r].active = svc[r].active /\ svc'[r].failed = svc[r].failed
    <3>1. Effect("enable", Arg) \/ svc' = svc
      BY <1>1, <2>1, <2>2, SystemctlIs
    <3>. QED
      BY <1>1, <2>2, <3>1, EffectIs DEF HostIn
  <2>6. DOMAIN txn.before \subseteq Role
    BY <1>1, RolesAre DEF TransactionIn
  <2>7. UnitsOfRunning'
    BY <1>3, <2>4, <2>5, UnitsStill
  <2>8. /\ txn'.before = txn.before /\ txn.enableTried \subseteq txn'.enableTried
        /\ Arg \in txn'.enableTried /\ txn.startTried \subseteq txn'.startTried
    BY <2>3, <2>4 DEF Others
  <2>. QED
    BY <1>1, <1>2, <2>5, <2>6, <2>7, <2>8, ExactEarly
<1>7. CASE StartService
  <2>. DEFINE t == [txn EXCEPT !.startTried = txn.startTried \cup {Arg}]
  <2>1. PICK ok \in BOOLEAN : Systemctl("start", Arg, ok) /\ ContinueOrRollBack(ok, t)
    BY <1>7 DEF StartService
  <2>2. Arg \in DOMAIN txn.before /\ Arg \in Role /\ Rank(Head(todo)) = 3
    BY <1>7, TriedIsQueried DEF StartService
  <2>3. Others(txn, t, "startTried") /\ t.startTried = txn.startTried \cup {Arg}
    BY <1>1, <2>2, MarkIs
  <2>. HIDE DEF t
  <2>4. txn' = t /\ UNCHANGED file
    BY <1>7, <2>1 DEF ContinueOrRollBack, RollBack, StartService
  <2>5. \A r \in Role : /\ svc'[r].enabled = svc[r].enabled
                        /\ r # Arg => svc'[r] = svc[r]
                        /\ r = Arg => svc'[r] = svc[r] \/ svc'[r].active
    <3>1. Effect("start", Arg) \/ svc' = svc
      BY <1>1, <2>1, <2>2, SystemctlIs
    <3>. QED
      BY <1>1, <2>2, <3>1, EffectIs DEF HostIn
  <2>6. DOMAIN txn.before \subseteq Role /\ DOMAIN txn.before \subseteq ToSet(txn.roles)
    BY <1>1, RolesAre DEF TransactionIn
  <2>7. Unit(file, Arg) # Absent
    <3>1. Rank(Step("publish", <<Arg, "unit">>)) = 1
          /\ \A x \in ToSet(todo) : Rank(Head(todo)) <= Rank(x)
      BY <1>1, NextStep DEF Rank, Step
    <3>2. Step("publish", <<Arg, "unit">>) \notin ToSet(todo)
      <4>1. ~ (3 <= 1)
        OBVIOUS
      <4>. QED
        BY <2>2, <3>1, <4>1
    <3>3. Unit(file, Arg) = Version
      BY <1>1, <2>2, <2>6, <3>2 DEF Current, Pending, Unit
    <3>. QED
      BY <1>1, <3>3 DEF HostIn, Version, Absent
  <2>8. UnitsOfRunning'
    BY <1>3, <2>4, <2>5, <2>7 DEF UnitsOfRunning
  <2>9. /\ txn'.before = txn.before /\ txn.enableTried \subseteq txn'.enableTried
        /\ Arg \in txn'.startTried /\ txn.startTried \subseteq txn'.startTried
    BY <2>3, <2>4 DEF Others
  <2>. QED
    BY <1>1, <1>2, <2>5, <2>6, <2>8, <2>9, ExactEarly
<1>. QED
  BY <1>4, <1>5, <1>6, <1>7

\* The steps of a rollback up to the artifacts.
LEMMA ExactStopAndRestore ==
    ASSUME TypeInv, TypeInv', OriginalsInv, RestInv, ExactInv,
           StopStarted \/ RestoreArtifacts \/ RestoreArtifact
    PROVE  ExactInv'
<1>1. /\ TransactionIn(txn) /\ HostIn /\ UnitsOfRunning /\ DOMAIN txn.before \subseteq Role
      /\ DOMAIN txn.before \subseteq ToSet(txn.roles)
  BY RolesAre DEF TypeInv, ExactInv, RunsItsUnit, TransactionIn
<1>2. CASE StopStarted
  <2>1. /\ phase = "stopping" /\ todo # <<>> /\ Head(todo).op = "stop" /\ phase' = phase
        /\ UNCHANGED <<file, start>>
    BY <1>2 DEF StopStarted, At, Continue, history
  <2>2. PICK ok \in BOOLEAN : /\ Systemctl("stop", Arg, ok)
                              /\ txn' = [txn EXCEPT !.withheld = txn.withheld \/ ~ok]
    BY <1>2 DEF StopStarted
  <2>3. PICK b \in BOOLEAN : b = (txn.withheld \/ ~ok)
    OBVIOUS
  <2>4. Others(txn, txn', "withheld")
    BY <1>1, <2>2, <2>3, NoteIs
  <2>5. Arg \in txn.startTried /\ ~txn.before[Arg].active /\ Arg \in Role
    <3>1. Fits(phase, txn, Head(todo))
      BY <2>1, NextStep
    <3>. QED
      BY <1>1, <2>1, <3>1 DEF Fits, Arg, TransactionIn
  <2>6. \A r \in Role : /\ svc'[r].enabled = svc[r].enabled
                        /\ r # Arg => svc'[r] = svc[r]
                        /\ svc'[r].active => svc[r].active
    <3>1. Effect("stop", Arg) \/ svc' = svc
      BY <1>1, <2>2, <2>5, SystemctlIs
    <3>. QED
      BY <1>1, <2>5, <3>1, EffectIs DEF HostIn
  <2>7. UnitsOfRunning'
    BY <1>1, <2>1, <2>6, UnitsStill
  <2>8. phase \in Early /\ phase' \in Early
    BY <2>1 DEF Early
  <2>9. txn'.before = txn.before /\ txn'.enableTried = txn.enableTried
        /\ txn'.startTried = txn.startTried
    BY <2>4 DEF Others
  <2>. QED
    BY <1>1, <2>1, <2>5, <2>6, <2>7, <2>8, <2>9, ExactEarly
<1>3. CASE RestoreArtifacts
  <2>1. /\ phase = "stopping" /\ phase' = "restoring" /\ UNCHANGED <<file, svc, txn, start>>
    BY <1>3 DEF RestoreArtifacts, Done, host, history
  <2>2. UnitsOfRunning' /\ phase \in Early /\ phase' \in Early
    BY <1>1, <2>1 DEF UnitsOfRunning, Early
  <2>. QED
    BY <2>1, <2>2, ExactEarly
<1>4. CASE RestoreArtifact
  <2>1. /\ phase = "restoring" /\ todo # <<>> /\ Head(todo).op = "restore" /\ phase' = phase
        /\ UNCHANGED <<svc, start>>
    BY <1>4 DEF RestoreArtifact, At, Continue, history
  <2>2. Arg \in txn.published
    BY <2>1, NextStep DEF Fits, Arg
  <2>3. txn.original[Arg] = start[Arg] /\ Arg \in Artifact
    BY <1>1, <2>1, <2>2, RolesAre DEF TransactionIn, OriginalsInv, Captured, InTransaction,
                                      OwnArtifacts, Artifact
  <2>4. Others(txn, txn', "failed")
    <3>1. CASE txn' = txn
      BY <3>1 DEF Others
    <3>2. CASE txn' = [txn EXCEPT !.failed = txn.failed \cup {Arg}]
      BY <1>1, <2>2, <3>2, MarkIs
    <3>. QED
      BY <1>4, <3>1, <3>2 DEF RestoreArtifact
  <2>5. \A a \in Artifact : file'[a] \in {file[a], start[a]}
    <3>1. file' = file \/ file' = [file EXCEPT ![Arg] = start[Arg]]
      BY <1>4, <2>3 DEF RestoreArtifact
    <3>2. file \in [Artifact -> Content]
      BY <1>1 DEF HostIn
    <3>. QED
      BY <2>3, <3>1, <3>2
  <2>6. \A r \in Role : svc[r].active => Unit(start, r) # Absent
    <3>1. \A r \in Role : svc[r].active => \/ Unit(start, r) # Absent
                                           \/ r \in txn.startTried /\ ~txn.before[r].active
      BY <2>1 DEF ExactInv, RunsItsUnit, StartedHere, InTransaction
    <3>2. \A r \in txn.startTried : txn.before[r].active \/ ~svc[r].active
      BY <2>1 DEF RestInv, StoppedFirst
    <3>. QED
      BY <3>1, <3>2
  <2>7. UnitsOfRunning'
    <3>1. ASSUME NEW r \in Role, svc'[r].active PROVE Unit(file', r) # Absent
      <4>1. svc[r].active /\ Unit(file, r) # Absent /\ Unit(start, r) # Absent
        BY <1>1, <2>1, <2>6, <3>1 DEF UnitsOfRunning
      <4>2. <<r, "unit">> \in Artifact
        BY DEF Artifact
      <4>. QED
        BY <2>5, <4>1, <4>2 DEF Unit
    <3>. QED
      BY <3>1 DEF UnitsOfRunning
  <2>8. phase \in Early /\ phase' \in Early
    BY <2>1 DEF Early
  <2>9. txn'.before = txn.before /\ txn'.enableTried = txn.enableTried
        /\ txn'.startTried = txn.startTried
    BY <2>4 DEF Others
  <2>. QED
    BY <2>1, <2>7, <2>8, <2>9, ExactEarly
<1>. QED
  BY <1>2, <1>3, <1>4

\* The units are as they were found when everything is put back.
LEMMA UnitPutBack ==
    ASSUME TypeInv, OriginalsInv, phase \in {"enablement", "activity"}, AllRestored, NEW r \in Role
    PROVE  Unit(file, r) = Unit(start, r)
<1>1. <<r, "unit">> \in Artifact /\ <<r, "unit">>[2] # "config" /\ InTransaction
  BY DEF Artifact, InTransaction
<1>2. ~ Pending("restore", <<r, "unit">>)
  <2>1. ASSUME Step("restore", <<r, "unit">>) \in ToSet(todo) PROVE FALSE
    <3>1. Fits(phase, txn, Step("restore", <<r, "unit">>))
      BY <2>1 DEF TypeInv, TodoIn
    <3>. QED
      BY <3>1 DEF Fits, Step
  <2>. QED
    BY <2>1 DEF Pending
<1>3. CASE <<r, "unit">> \in txn.published
  BY <1>2, <1>3 DEF OriginalsInv, Restored, AllRestored, Unit
<1>4. CASE <<r, "unit">> \notin txn.published
  BY <1>1, <1>4 DEF OriginalsInv, Captured, Unit
<1>. QED
  BY <1>3, <1>4

\* A step after the artifacts starts only what ran before.
LEMMA ExactLate ==
    ASSUME TypeInv, ExactInv, InTransaction, InTransaction', start' = start,
           txn'.before = txn.before, txn'.startTried = txn.startTried,
           \A r \in Role : svc'[r].active =>
              svc[r].active \/ (r \in DOMAIN txn.before /\ txn.before[r].active),
           UnitsOfRunning', Given'
    PROVE  ExactInv'
<1>1. /\ \A r \in Role : svc[r].active => \/ Unit(start, r) # Absent
                                          \/ r \in txn.startTried /\ ~txn.before[r].active
      /\ \A r \in DOMAIN txn.before : txn.before[r].active => Unit(start, r) # Absent
  BY DEF ExactInv, RunsItsUnit, StartedHere
<1>2. \A r \in Role : svc'[r].active => \/ Unit(start, r) # Absent
                                        \/ r \in txn.startTried /\ ~txn.before[r].active
  BY <1>1
<1>. QED
  BY <1>1, <1>2 DEF ExactInv, RunsItsUnit, StartedHere

\* Enablement comes after the artifacts, put back or not.
LEMMA ExactArtifacts ==
    ASSUME TypeInv, TypeInv', OriginalsInv, ExactInv, WithholdArtifacts \/ ReloadRestored
    PROVE  ExactInv'
<1>1. /\ TransactionIn(txn) /\ HostIn /\ UnitsOfRunning /\ DOMAIN txn.before \subseteq Role
      /\ ToSet(txn.roles) \subseteq Role
  BY RolesAre DEF TypeInv, ExactInv, RunsItsUnit, TransactionIn
<1>2. /\ phase \in {"stopping", "restoring"} /\ phase' = "enablement" /\ todo' = EnablementPlan
      /\ UNCHANGED <<file, start>> /\ InTransaction /\ InTransaction'
  BY DEF WithholdArtifacts, ReloadRestored, Done, host, history, InTransaction
<1>3. /\ svc' = svc \/ svc' = Reloaded
      /\ txn' = txn \/ Others(txn, txn', "reloadOK")
      /\ AllRestored' /\ txn'.published # {} => svc' = Reloaded
  <2>1. CASE WithholdArtifacts
    <3>1. txn.withheld /\ UNCHANGED <<svc, txn>>
      BY <2>1 DEF WithholdArtifacts, host
    <3>. QED
      BY <3>1 DEF AllRestored
  <2>2. CASE ReloadRestored /\ txn.published = {}
    BY <2>2 DEF ReloadRestored
  <2>3. CASE ReloadRestored /\ txn.published # {}
    <3>1. PICK ok \in BOOLEAN : DaemonReload(ok) /\ txn' = [txn EXCEPT !.reloadOK = ok]
      BY <2>3 DEF ReloadRestored
    <3>2. Others(txn, txn', "reloadOK") /\ txn'.reloadOK = ok
      BY <1>1, <3>1, NoteIs
    <3>3. (ok => svc' = Reloaded) /\ (svc' = Reloaded \/ svc' = svc)
      BY <1>1, <3>1, DaemonReloadIs
    <3>. QED
      BY <3>2, <3>3 DEF AllRestored
  <2>. QED
    BY <2>1, <2>2, <2>3
<1>4. /\ txn'.before = txn.before /\ txn'.enableTried = txn.enableTried
      /\ txn'.startTried = txn.startTried /\ txn'.roles = txn.roles
  BY <1>3 DEF Others
<1>5. \A r \in Role : /\ svc'[r].enabled = svc[r].enabled /\ svc'[r].active = svc[r].active
                      /\ svc'[r].failed = svc[r].failed
  BY <1>1, <1>3, ReloadedIs
<1>6. UnitsOfRunning'
  BY <1>1, <1>2, <1>5, UnitsStill
<1>7. \A r \in txn.enableTried : Step("enablement", r) \in ToSet(todo')
  BY <1>1, <1>2, EnablementPlanIs DEF IsPlan, ForEach
<1>8. ASSUME NEW r \in DOMAIN txn.before
      PROVE  /\ \/ svc'[r].enabled = txn.before[r].enabled
                \/ r \in txn.enableTried /\ Step("enablement", r) \in ToSet(todo')
             /\ txn.before[r].active => svc'[r].active \/ svc'[r].failed
             /\ ~txn.before[r].active => ~svc'[r].active \/ r \in txn.startTried
  BY <1>1, <1>2, <1>5, <1>7 DEF ExactInv, Given
<1>9. ASSUME AllRestored', txn'.published # {}, NEW r \in ToSet(txn.roles)
      PROVE  svc'[r].loaded \in {Absent, Unit(file, r)}
  <2>1. svc'[r] = Reloaded[r] /\ r \in Role
    BY <1>1, <1>3, <1>9
  <2>2. svc[r].active => Unit(file, r) # Absent
    BY <1>1, <2>1 DEF UnitsOfRunning
  <2>. QED
    BY <1>1, <2>1, <2>2, ReloadedIs
<1>10. Given'
  BY <1>2, <1>4, <1>8, <1>9 DEF Given, Pending
<1>. QED
  BY <1>2, <1>4, <1>5, <1>6, <1>10, ExactLate

\* Enablement is put back, service after service.
LEMMA ExactEnablement ==
    ASSUME TypeInv, TypeInv', ExactInv, RestoreEnablement PROVE ExactInv'
<1>1. /\ TransactionIn(txn) /\ HostIn /\ UnitsOfRunning /\ DOMAIN txn.before \subseteq Role
      /\ ToSet(txn.roles) \subseteq Role
  BY RolesAre DEF TypeInv, ExactInv, RunsItsUnit, TransactionIn
<1>2. /\ phase = "enablement" /\ todo # <<>> /\ Head(todo).op = "enablement" /\ phase' = phase
      /\ UNCHANGED <<file, start>> /\ todo' = Tail(todo) /\ InTransaction /\ InTransaction'
  BY DEF RestoreEnablement, At, Continue, history, InTransaction
<1>3. Arg \in txn.enableTried /\ Arg \in DOMAIN txn.before /\ Arg \in Role
      /\ ToSet(todo) = {Head(todo)} \cup ToSet(todo') /\ Head(todo) = Step("enablement", Arg)
  <2>1. Fits(phase, txn, Head(todo)) /\ Head(todo) \in PlanStep
        /\ ToSet(todo) = {Head(todo)} \cup ToSet(todo')
    BY <1>2, NextStep
  <2>. QED
    BY <1>1, <1>2, <2>1 DEF Fits, Arg, TransactionIn, PlanStep, Step
<1>4. PICK ok \in BOOLEAN :
         /\ Systemctl(IF txn.before[Arg].enabled THEN "enable" ELSE "disable", Arg, ok)
         /\ txn' = [txn EXCEPT !.incomplete = txn.incomplete \/ ~ok]
  BY DEF RestoreEnablement
<1>5. PICK b \in BOOLEAN : b = (txn.incomplete \/ ~ok)
  OBVIOUS
<1>6. Others(txn, txn', "incomplete") /\ txn'.incomplete = b
  BY <1>1, <1>4, <1>5, NoteIs
<1>7. PICK op \in {"enable", "disable"} :
         /\ Systemctl(op, Arg, ok)
         /\ (op = "enable") <=> txn.before[Arg].enabled
  BY <1>4
<1>8. txn.before[Arg].enabled \in BOOLEAN
  BY <1>1, <1>3 DEF TransactionIn, Service
<1>9. /\ Effect(op, Arg) \/ svc' = svc
      /\ ok => Effect(op, Arg)
      /\ svc' \in [Role -> Service]
  BY <1>1, <1>3, <1>7, SystemctlIs
<1>10. /\ \A r \in Role : /\ r # Arg => svc'[r] = svc[r]
                          /\ svc'[r].active = svc[r].active /\ svc'[r].failed = svc[r].failed
       /\ ok => svc'[Arg].enabled = txn.before[Arg].enabled
       /\ svc'[Arg].loaded \in {svc[Arg].loaded, Known(Arg), Absent}
  <2>1. CASE svc' = svc /\ ~ok
    BY <2>1
  <2>2. CASE Effect("enable", Arg) /\ op = "enable"
    <3>1. svc'[Arg].enabled = TRUE
      BY <1>1, <1>3, <1>9, <2>2, EffectIs DEF HostIn, Service
    <3>2. txn.before[Arg].enabled = TRUE
      BY <1>7, <1>8, <2>2
    <3>. QED
      BY <1>1, <1>3, <2>2, <3>1, <3>2, EffectIs DEF HostIn
  <2>3. CASE Effect("disable", Arg) /\ op = "disable"
    <3>1. svc'[Arg].enabled = FALSE
      BY <1>1, <1>3, <1>9, <2>3, EffectIs DEF HostIn, Service
    <3>2. txn.before[Arg].enabled = FALSE
      BY <1>7, <1>8, <2>3
    <3>. QED
      BY <1>1, <1>3, <2>3, <3>1, <3>2, EffectIs DEF HostIn
  <2>. QED
    BY <1>7, <1>9, <2>1, <2>2, <2>3
<1>11. UnitsOfRunning'
  BY <1>1, <1>2, <1>10, UnitsStill
<1>12. /\ txn'.before = txn.before /\ txn'.enableTried = txn.enableTried
       /\ txn'.startTried = txn.startTried /\ txn'.roles = txn.roles
       /\ txn'.published = txn.published
       /\ AllRestored' => AllRestored
  BY <1>6 DEF Others, AllRestored
<1>13. \A r : Step("enablement", r) \in ToSet(todo) =>
                 r = Arg \/ Step("enablement", r) \in ToSet(todo')
  BY <1>3 DEF Step
<1>14. (txn.incomplete => txn'.incomplete) /\ (~ok => txn'.incomplete)
  BY <1>5, <1>6
<1>15. ASSUME NEW r \in DOMAIN txn.before
       PROVE  /\ \/ svc'[r].enabled = txn.before[r].enabled
                 \/ r \in txn.enableTried /\ Step("enablement", r) \in ToSet(todo')
                 \/ r \in txn.enableTried /\ txn'.incomplete
              /\ txn.before[r].active => svc'[r].active \/ svc'[r].failed
              /\ ~txn.before[r].active => ~svc'[r].active \/ r \in txn.startTried
  <2>1. /\ \/ svc[r].enabled = txn.before[r].enabled
           \/ r \in txn.enableTried /\ Step("enablement", r) \in ToSet(todo)
           \/ r \in txn.enableTried /\ txn.incomplete
        /\ txn.before[r].active => svc[r].active \/ svc[r].failed
        /\ ~txn.before[r].active => ~svc[r].active \/ r \in txn.startTried
    BY <1>2 DEF ExactInv, Given, Pending
  <2>2. CASE r = Arg
    BY <1>3, <1>10, <1>14, <2>1, <2>2
  <2>3. CASE r # Arg
    BY <1>1, <1>10, <1>13, <1>14, <2>1, <2>3
  <2>. QED
    BY <2>2, <2>3
<1>16. ASSUME AllRestored', txn'.published # {}, NEW r \in ToSet(txn.roles)
       PROVE  svc'[r].loaded \in {Absent, Unit(file, r)}
  <2>1. svc[r].loaded \in {Absent, Unit(file, r)} /\ r \in Role
    BY <1>1, <1>2, <1>12, <1>16 DEF ExactInv, Given
  <2>2. Known(r) \in {Absent, Unit(file, r)}
    BY <2>1 DEF Known
  <2>. QED
    BY <1>10, <2>1, <2>2
<1>17. Given'
  BY <1>2, <1>12, <1>15, <1>16 DEF Given, Pending
<1>. QED
  BY <1>1, <1>2, <1>10, <1>11, <1>12, <1>17, ExactLate

\* Activity comes last, once everything else is put back.
LEMMA ExactActivity ==
    ASSUME TypeInv, TypeInv', OriginalsInv, ExactInv, RestoreActiveStates \/ RestoreActiveState
    PROVE  ExactInv'
<1>1. /\ TransactionIn(txn) /\ HostIn /\ UnitsOfRunning /\ DOMAIN txn.before \subseteq Role
      /\ ToSet(txn.roles) \subseteq Role /\ txn.startTried \subseteq DOMAIN txn.before
  BY RolesAre DEF TypeInv, ExactInv, RunsItsUnit, TransactionIn
<1>2. CASE RestoreActiveStates
  <2>1. /\ phase = "enablement" /\ todo = <<>> /\ phase' = "activity"
        /\ todo' = Steps("activity", Those(Reverse(txn.roles), txn.startTried))
        /\ UNCHANGED <<file, svc, txn, start>> /\ InTransaction /\ InTransaction'
    BY <1>2 DEF RestoreActiveStates, Done, host, history, InTransaction
  <2>2. \A r : ~ Pending("enablement", r)
    BY <2>1 DEF Pending, ToSet
  <2>3. \A r \in txn.startTried : Step("activity", r) \in ToSet(todo')
    <3>1. "activity" \in Op
      BY DEF Op
    <3>2. txn.roles \in Seq(Role \cup Artifact) /\ txn.startTried \subseteq ToSet(txn.roles)
      BY <1>1, RolesAre DEF TransactionIn
    <3>3. IsPlan(todo', ForEach("activity", txn.startTried))
      BY <2>1, <3>1, <3>2, LoopIs
    <3>. QED
      BY <3>3 DEF IsPlan, ForEach
  <2>4. ASSUME NEW r \in DOMAIN txn.before
        PROVE  /\ \/ svc[r].enabled = txn.before[r].enabled
                  \/ r \in txn.enableTried /\ txn.incomplete
               /\ txn.before[r].active => svc[r].active \/ svc[r].failed
               /\ ~txn.before[r].active =>
                     ~svc[r].active \/ (r \in txn.startTried /\ Step("activity", r) \in ToSet(todo'))
    BY <2>1, <2>2, <2>3 DEF ExactInv, Given
  <2>5. AllRestored /\ txn.published # {} =>
              \A r \in ToSet(txn.roles) : svc[r].loaded \in {Absent, Unit(file, r)}
    BY <2>1 DEF ExactInv, Given
  <2>6. Given'
    BY <2>1, <2>4, <2>5 DEF Given, Pending, AllRestored
  <2>7. UnitsOfRunning'
    BY <1>1, <2>1 DEF UnitsOfRunning
  <2>. QED
    BY <2>1, <2>6, <2>7, ExactLate
<1>3. CASE RestoreActiveState
  <2>1. /\ phase = "activity" /\ todo # <<>> /\ Head(todo).op = "activity" /\ phase' = phase
        /\ UNCHANGED <<file, start>> /\ todo' = Tail(todo) /\ InTransaction /\ InTransaction'
    BY <1>3 DEF RestoreActiveState, At, Continue, history, InTransaction
  <2>2. Arg \in txn.startTried /\ Arg \in DOMAIN txn.before /\ Arg \in Role
        /\ ToSet(todo) = {Head(todo)} \cup ToSet(todo') /\ Head(todo) = Step("activity", Arg)
    <3>1. Fits(phase, txn, Head(todo)) /\ Head(todo) \in PlanStep
          /\ ToSet(todo) = {Head(todo)} \cup ToSet(todo')
      BY <2>1, NextStep
    <3>. QED
      BY <1>1, <2>1, <3>1 DEF Fits, Arg, PlanStep, Step
  <2>3. PICK ok \in BOOLEAN :
           /\ Systemctl(IF txn.before[Arg].active THEN "start" ELSE "stop", Arg, ok)
           /\ txn' = [txn EXCEPT !.incomplete = txn.incomplete \/ ~ok]
    BY <1>3 DEF RestoreActiveState
  <2>4. PICK b \in BOOLEAN : b = (txn.incomplete \/ ~ok)
    OBVIOUS
  <2>5. Others(txn, txn', "incomplete") /\ txn'.incomplete = b
    BY <1>1, <2>3, <2>4, NoteIs
  <2>6. PICK op \in {"start", "stop"} :
           /\ Systemctl(op, Arg, ok)
           /\ (op = "start") <=> txn.before[Arg].active
    BY <2>3
  <2>7. /\ Effect(op, Arg) \/ svc' = svc
        /\ ok => Effect(op, Arg)
    BY <1>1, <2>2, <2>6, SystemctlIs
  <2>8. /\ \A r \in Role : r # Arg => svc'[r] = svc[r]
        /\ svc'[Arg].enabled = svc[Arg].enabled
        /\ svc'[Arg].active => svc[Arg].active \/ txn.before[Arg].active
        /\ txn.before[Arg].active => svc' = svc \/ svc'[Arg].active
        /\ ok /\ ~txn.before[Arg].active => ~svc'[Arg].active
        /\ svc'[Arg].loaded \in {svc[Arg].loaded, Known(Arg)}
    BY <1>1, <2>2, <2>6, <2>7, EffectIs DEF HostIn
  <2>9. /\ txn'.before = txn.before /\ txn'.enableTried = txn.enableTried
        /\ txn'.startTried = txn.startTried /\ txn'.roles = txn.roles
        /\ txn'.published = txn.published
        /\ AllRestored' => AllRestored
    BY <2>5 DEF Others, AllRestored
  <2>10. UnitsOfRunning'
    <3>1. AllRestored
      BY <2>1 DEF OriginalsInv, Restored
    <3>2. Unit(file, Arg) = Unit(start, Arg)
      BY <2>1, <2>2, <3>1, UnitPutBack
    <3>3. txn.before[Arg].active => Unit(start, Arg) # Absent
      BY <2>1, <2>2 DEF ExactInv, RunsItsUnit
    <3>4. ASSUME NEW r \in Role, svc'[r].active PROVE Unit(file', r) # Absent
      <4>1. CASE svc[r].active
        BY <1>1, <2>1, <4>1 DEF UnitsOfRunning
      <4>2. CASE ~svc[r].active
        <5>1. r = Arg /\ txn.before[Arg].active
          BY <2>8, <3>4, <4>2
        <5>. QED
          BY <2>1, <3>2, <3>3, <5>1
      <4>. QED
        BY <4>1, <4>2
    <3>. QED
      BY <3>4 DEF UnitsOfRunning
  <2>11. \A r : Step("activity", r) \in ToSet(todo) =>
                   r = Arg \/ Step("activity", r) \in ToSet(todo')
    BY <2>2 DEF Step
  <2>12. (txn.incomplete => txn'.incomplete) /\ (~ok => txn'.incomplete)
    BY <2>4, <2>5
  <2>13. ASSUME NEW r \in DOMAIN txn.before
         PROVE  /\ \/ svc'[r].enabled = txn.before[r].enabled
                   \/ r \in txn.enableTried /\ txn'.incomplete
                /\ txn.before[r].active => svc'[r].active \/ svc'[r].failed
                /\ ~txn.before[r].active =>
                      \/ ~svc'[r].active
                      \/ /\ r \in txn.startTried
                         /\ Step("activity", r) \in ToSet(todo') \/ txn'.incomplete
    <3>1. /\ \/ svc[r].enabled = txn.before[r].enabled
             \/ r \in txn.enableTried /\ txn.incomplete
          /\ txn.before[r].active => svc[r].active \/ svc[r].failed
          /\ ~txn.before[r].active =>
                \/ ~svc[r].active
                \/ /\ r \in txn.startTried
                   /\ Step("activity", r) \in ToSet(todo) \/ txn.incomplete
      BY <2>1 DEF ExactInv, Given, Pending
    <3>2. CASE r = Arg
      BY <2>2, <2>8, <2>12, <3>1, <3>2
    <3>3. CASE r # Arg
      BY <1>1, <2>8, <2>11, <2>12, <3>1, <3>3
    <3>. QED
      BY <3>2, <3>3
  <2>14. ASSUME AllRestored', txn'.published # {}, NEW r \in ToSet(txn.roles)
         PROVE  svc'[r].loaded \in {Absent, Unit(file, r)}
    <3>1. svc[r].loaded \in {Absent, Unit(file, r)} /\ r \in Role
      BY <1>1, <2>1, <2>9, <2>14 DEF ExactInv, Given
    <3>2. Known(r) \in {Absent, Unit(file, r)}
      BY <3>1 DEF Known
    <3>. QED
      BY <2>8, <3>1, <3>2
  <2>15. Given'
    BY <2>1, <2>9, <2>13, <2>14 DEF Given, Pending
  <2>16. \A r \in Role : svc'[r].active =>
            svc[r].active \/ (r \in DOMAIN txn.before /\ txn.before[r].active)
    BY <2>2, <2>8
  <2>. QED
    BY <2>1, <2>9, <2>10, <2>15, <2>16, ExactLate
<1>. QED
  BY <1>2, <1>3

\* A service that fails was running, and has failed.
LEMMA ExactServiceFails ==
    ASSUME TypeInv, ExactInv, ServiceFails PROVE ExactInv'
<1>1. PICK r \in Role :
              /\ svc[r].active /\ svc' \in [Role -> Service]
              /\ \A q \in Role : q # r => svc'[q] = svc[q]
              /\ ~svc'[r].active /\ svc'[r].failed /\ svc'[r].enabled = svc[r].enabled
              /\ svc'[r].loaded = svc[r].loaded
  BY FailsIs DEF TypeInv
<1>2. UNCHANGED <<file, phase, todo, txn, start>>
  BY DEF ServiceFails, history
<1>3. DOMAIN txn.before \subseteq Role /\ ToSet(txn.roles) \subseteq Role
  BY RolesAre DEF TypeInv, TransactionIn
<1>4. \A q \in Role : /\ svc'[q].active => svc[q].active
                      /\ svc[q].active \/ svc[q].failed => svc'[q].active \/ svc'[q].failed
                      /\ svc'[q].enabled = svc[q].enabled /\ svc'[q].loaded = svc[q].loaded
  BY <1>1
<1>5. RunsItsUnit'
  BY <1>2, <1>3, <1>4 DEF ExactInv, RunsItsUnit, UnitsOfRunning, StartedHere, InTransaction
<1>6. Given'
  <2>. SUFFICES ASSUME InTransaction PROVE Given'
    BY <1>2 DEF Given, InTransaction
  <2>1. ASSUME NEW q \in DOMAIN txn.before
        PROVE  /\ \/ svc'[q].enabled = txn.before[q].enabled
                  \/ /\ q \in txn.enableTried
                     /\ \/ phase \in {"install", "stopping", "restoring"}
                        \/ phase = "enablement" /\ Pending("enablement", q)
                        \/ txn.incomplete
               /\ txn.before[q].active => svc'[q].active \/ svc'[q].failed
               /\ ~txn.before[q].active =>
                     \/ ~svc'[q].active
                     \/ /\ q \in txn.startTried
                        /\ phase # "activity" \/ Pending("activity", q) \/ txn.incomplete
    BY <1>3, <1>4 DEF ExactInv, Given
  <2>2. phase \in {"enablement", "activity"} /\ AllRestored /\ txn.published # {} =>
              \A q \in ToSet(txn.roles) : svc'[q].loaded \in {Absent, Unit(file, q)}
    BY <1>3, <1>4 DEF ExactInv, Given
  <2>. QED
    BY <1>2, <2>1, <2>2 DEF Given, Pending, AllRestored
<1>. QED
  BY <1>5, <1>6 DEF ExactInv

\* An Uninstall removes no unit of a service that runs.
LEMMA ExactUninstall ==
    ASSUME TypeInv, RestInv, ExactInv, RunUninstall PROVE ExactInv'
<1>1. /\ phase = "uninstall" /\ HostIn /\ UnitsOfRunning /\ ~InTransaction'
  BY UninstallLeads DEF TypeInv, ExactInv, RunsItsUnit, InTransaction
<1>2. CASE InspectService \/ VerifyRemoved \/ EndUninstalled
  <2>1. UNCHANGED <<file, svc>>
    BY <1>2 DEF InspectService, VerifyRemoved, EndUninstalled, host
  <2>. QED
    BY <1>1, <2>1, UnitsStill, ExactOutside
<1>3. CASE ReloadRemoved
  <2>1. PICK ok \in BOOLEAN : DaemonReload(ok) /\ UNCHANGED file
    BY <1>3 DEF ReloadRemoved
  <2>2. \A r \in Role : svc'[r].active = svc[r].active
    BY <1>1, <2>1, DaemonReloadIs, ReloadedIs
  <2>. QED
    BY <1>1, <2>1, <2>2, UnitsStill, ExactOutside
<1>4. ASSUME NEW op \in {"stop", "reset-failed", "disable"}, NEW needed, NEW reached,
             Converge(op, needed, reached)
      PROVE  ExactInv'
  <2>1. UNCHANGED file /\ Arg \in Role
    BY <1>1, <1>4, RemovedIs DEF Converge, At
  <2>2. UNCHANGED svc \/ \E ok \in BOOLEAN : Systemctl(op, Arg, ok)
    BY <1>4 DEF Converge
  <2>3. Effect(op, Arg) \/ svc' = svc
    BY <1>1, <2>1, <2>2, SystemctlIs
  <2>4. \A r \in Role : svc'[r].active => svc[r].active
    BY <1>1, <2>1, <2>3, EffectIs DEF HostIn
  <2>. QED
    BY <1>1, <2>1, <2>4, UnitsStill, ExactOutside
<1>5. CASE RemoveInfrastructure
  <2>1. /\ todo # <<>> /\ Head(todo).op = "remove" /\ UNCHANGED svc
        /\ file' = [file EXCEPT ![Arg] = Absent] \/ file' = file
    BY <1>5 DEF RemoveInfrastructure, At
  <2>2. ~svc[Arg[1]].active
    BY <1>1, <2>1 DEF RestInv, AtRest
  <2>3. ASSUME NEW r \in Role, svc'[r].active PROVE Unit(file', r) # Absent
    <3>1. svc[r].active /\ Unit(file, r) # Absent
      BY <1>1, <2>1, <2>3 DEF UnitsOfRunning
    <3>2. <<r, "unit">> # Arg
      BY <2>2, <3>1
    <3>3. <<r, "unit">> \in Artifact /\ file \in [Artifact -> Content]
      BY <1>1 DEF Artifact, HostIn
    <3>. QED
      BY <2>1, <3>1, <3>2, <3>3 DEF Unit
  <2>. QED
    BY <1>1, <2>3, ExactOutside DEF UnitsOfRunning
<1>. QED
  BY <1>2, <1>3, <1>4, <1>5 DEF RunUninstall, StopService, ResetFailed, DisableService

\* An invocation begins.
LEMMA ExactBegin ==
    ASSUME TypeInv, ExactInv, NEW p \in {"install", "uninstall"}, NEW plan,
           NEW roles, NEW enable, NEW begin, Invoke(p, plan, Transaction(roles, enable, begin))
    PROVE  ExactInv'
<1>1. /\ phase' = p /\ start' = file /\ txn' = Transaction(roles, enable, begin)
      /\ UNCHANGED <<file, svc>> /\ UnitsOfRunning
  BY DEF Invoke, host, ExactInv, RunsItsUnit
<1>2. DOMAIN txn'.before = {}
  BY <1>1, FreshIs
<1>3. RunsItsUnit'
  BY <1>1, <1>2 DEF RunsItsUnit, UnitsOfRunning
<1>4. Given'
  BY <1>1, <1>2 DEF Given
<1>. QED
  BY <1>3, <1>4 DEF ExactInv

\* The program ends, or the operator fills in a configuration when none runs.
LEMMA ExactEnds ==
    ASSUME TypeInv, ExactInv,
           Commit \/ EndIncomplete \/ EndRolledBack \/ Kill \/ EditConfiguration
    PROVE  ExactInv'
<1>1. ~InTransaction' /\ UNCHANGED svc /\ UnitsOfRunning
  BY DEF Commit, EndIncomplete, EndRolledBack, Kill, EditConfiguration, Finish, host, InTransaction,
         ExactInv, RunsItsUnit
<1>2. \A r \in Role : Unit(file, r) # Absent => Unit(file', r) # Absent
  <2>1. CASE EditConfiguration
    <3>1. PICK r \in Role : file' = [file EXCEPT ![<<r, "config">>] = Edited]
      BY <2>1 DEF EditConfiguration
    <3>2. file \in [Artifact -> Content]
      BY DEF TypeInv, HostIn
    <3>3. \A q \in Role : <<q, "unit">> \in Artifact /\ <<q, "unit">> # <<r, "config">>
      BY DEF Artifact
    <3>. QED
      BY <3>1, <3>2, <3>3 DEF Unit
  <2>2. CASE Commit \/ EndIncomplete \/ EndRolledBack \/ Kill
    BY <2>2 DEF Commit, EndIncomplete, EndRolledBack, Kill, host
  <2>. QED
    BY <2>1, <2>2
<1>. QED
  BY <1>1, <1>2, UnitsStill, ExactOutside

\* Every step of a transaction keeps what its rollback needs to be exact.
LEMMA ExactNext ==
    ASSUME TypeInv, TypeInv', OriginalsInv, RestInv, Current, ExactInv, [Next]_vars
    PROVE  ExactInv'
<1>1. CASE \E roles \in Selections, enable, begin \in BOOLEAN : Install(roles, enable, begin)
  BY <1>1, ExactBegin DEF Install
<1>2. CASE \E roles \in Selections : Uninstall(roles)
  BY <1>2, ExactBegin DEF Uninstall
<1>3. CASE RunInstall
  BY <1>3, ExactPrepare, ExactChange, ExactEnds DEF RunInstall
<1>4. CASE Rollback
  BY <1>4, ExactStopAndRestore, ExactArtifacts, ExactEnablement, ExactActivity, ExactEnds
     DEF Rollback
<1>5. CASE RunUninstall
  BY <1>5, ExactUninstall
<1>6. CASE Kill \/ EditConfiguration
  BY <1>6, ExactEnds
<1>7. CASE ServiceFails
  BY <1>7, ExactServiceFails
<1>8. CASE UNCHANGED vars
  BY <1>8 DEF vars, host, history, ExactInv, RunsItsUnit, UnitsOfRunning, StartedHere, Given,
              InTransaction, Pending, AllRestored
<1>. QED
  BY <1>1, <1>2, <1>3, <1>4, <1>5, <1>6, <1>7, <1>8 DEF Next

\* Which step ends a rollback that says it is complete.
LEMMA RolledBackBy ==
    ASSUME TypeInv, [Next]_vars, Ends("rolled back")
    PROVE  EndRolledBack /\ CleanupBackups({})
<1>1. ~(\E roles \in Selections, enable, begin \in BOOLEAN : Install(roles, enable, begin))
      /\ ~(\E roles \in Selections : Uninstall(roles))
      /\ ~Kill /\ ~ServiceFails /\ ~EditConfiguration /\ ~(UNCHANGED vars)
  BY DEF Install, Uninstall, Invoke, Kill, Finish, ServiceFails, EditConfiguration, vars, Ends
<1>2. ~RunInstall /\ ~RunUninstall
  BY InstallLeads, UninstallLeads DEF Ends
<1>3. CASE Rollback
  <2>1. EndRolledBack
    BY <1>3 DEF Rollback, StopStarted, WithholdArtifacts, RestoreArtifacts, RestoreArtifact,
                ReloadRestored, RestoreEnablement, RestoreActiveStates, RestoreActiveState,
                EndIncomplete, Continue, Finish, Ends
  <2>2. PICK kept : /\ CleanupBackups(kept)
                    /\ \/ kept = {} /\ outcome' = "rolled back"
                       \/ outcome' = "incomplete"
    BY <2>1 DEF EndRolledBack, Finish
  <2>3. kept = {}
    BY <2>2 DEF Ends
  <2>. QED
    BY <2>1, <2>2, <2>3
<1>. QED
  BY <1>1, <1>2, <1>3 DEF Next

\* Nothing is pending when the plan is done.
LEMMA NothingPending == ASSUME todo = <<>> PROVE \A op, x : ~ Pending(op, x)
<1>1. ToSet(todo) = {}
  BY DEF ToSet
<1>. QED
  BY <1>1 DEF Pending

\* The whole invariant.
LEMMA ExactAlways ==
    RunningHaveUnits => (Spec => [](TypeInv /\ OriginalsInv /\ RestInv /\ Current /\ ExactInv))
<1>. SUFFICES ASSUME RunningHaveUnits
              PROVE  Spec => [](TypeInv /\ OriginalsInv /\ RestInv /\ Current /\ ExactInv)
  OBVIOUS
<1>1. Init => ExactInv
  <2>. SUFFICES ASSUME Init PROVE ExactInv
    OBVIOUS
  <2>1. \A r \in Role : svc[r].active => Unit(file, r) # Absent
    BY DEF Init, RunningHaveUnits
  <2>. QED
    BY <2>1 DEF Init, ExactInv, RunsItsUnit, UnitsOfRunning, Given, InTransaction
<1>2. Init => TypeInv /\ OriginalsInv /\ RestInv /\ Current
  <2>. SUFFICES ASSUME Init PROVE RestInv /\ Current
    BY TypeInit, OriginalsInit
  <2>. QED
    BY DEF Init, RestInv, StoppedFirst, AtRest, Removed, Current
<1>3. TypeInv /\ OriginalsInv /\ RestInv /\ Current /\ ExactInv /\ [Next]_vars
         => (TypeInv /\ OriginalsInv /\ RestInv /\ Current /\ ExactInv)'
  BY TypeNext, OriginalsNext, RestNext, CurrentNext, ExactNext
<1>. QED
  BY <1>1, <1>2, <1>3, PTL DEF Spec

\* An Install that fails and reports no more than its cause left the host as it found it,
\* where no service ran without a unit when the installer first came: the artifacts, what
\* systemd holds of them, enablement and activity, and no copies (installTransaction's
\* rollback; a configuration whose temporary name could not be removed is the exception,
\* see CreatePreservedFile).
THEOREM RollbackIsAlwaysExact == RunningHaveUnits => (Spec => RollbackIsExact)
<1>. SUFFICES ASSUME RunningHaveUnits PROVE Spec => RollbackIsExact
  OBVIOUS
<1>. DEFINE A == Ends("rolled back") =>
          /\ \A a \in DOMAIN txn.original :
                \/ file'[a] = start[a]
                \/ a[2] = "config" /\ a \notin txn.published /\ file'[a] = Default
          /\ \A r \in DOMAIN txn.before :
                LET was == txn.before[r]
                    is == svc'[r]
                IN  /\ is.enabled = was.enabled
                    /\ IF was.active THEN is.active \/ is.failed ELSE ~is.active
          /\ txn.published # {} =>
                \A r \in ToSet(txn.roles) : svc'[r].loaded \in {Absent, Unit(file', r)}
          /\ \A c \in copies' : c[1] # run
            I == TypeInv /\ OriginalsInv /\ RestInv /\ Current /\ ExactInv
<1>1. I /\ [Next]_vars => A
  <2>. SUFFICES ASSUME TypeInv, OriginalsInv, ExactInv, [Next]_vars, Ends("rolled back") PROVE A
    OBVIOUS
  <2>1. EndRolledBack /\ CleanupBackups({})
    BY RolledBackBy
  <2>2. /\ phase = "activity" /\ todo = <<>> /\ ~txn.incomplete /\ UNCHANGED <<file, svc>>
        /\ InTransaction
    BY <2>1 DEF EndRolledBack, Done, InTransaction
  <2>3. AllRestored /\ \A op, x : ~ Pending(op, x)
    <3>1. AllRestored
      BY <2>2 DEF OriginalsInv, Restored
    <3>2. \A op, x : ~ Pending(op, x)
      BY <2>2, NothingPending
    <3>. QED
      BY <3>1, <3>2
  <2>4. \A a \in DOMAIN txn.original :
           \/ file'[a] = start[a]
           \/ a[2] = "config" /\ a \notin txn.published /\ file'[a] = Default
    <3>1. DOMAIN txn.original \subseteq Artifact
      BY RolesAre DEF TypeInv, TransactionIn, OwnArtifacts, Artifact
    <3>2. \A a \in txn.published : file[a] = start[a]
      BY <2>2, <2>3 DEF OriginalsInv, Restored, AllRestored
    <3>. QED
      BY <2>2, <3>1, <3>2 DEF OriginalsInv, Captured
  <2>5. ASSUME NEW r \in DOMAIN txn.before
        PROVE  /\ svc'[r].enabled = txn.before[r].enabled
               /\ IF txn.before[r].active THEN svc'[r].active \/ svc'[r].failed
                  ELSE ~svc'[r].active
    BY <2>2, <2>3 DEF ExactInv, Given
  <2>6. txn.published # {} =>
           \A r \in ToSet(txn.roles) : svc'[r].loaded \in {Absent, Unit(file', r)}
    BY <2>2, <2>3 DEF ExactInv, Given, Unit
  <2>7. \A c \in copies' : c[1] # run
    BY <2>1 DEF CleanupBackups, Own
  <2>. QED
    BY <2>4, <2>5, <2>6, <2>7
<1>2. I /\ [Next]_vars => [A]_vars
  BY <1>1
<1>3. Spec => []I
  BY ExactAlways
<1>. QED
  BY <1>2, <1>3, PTL DEF Spec, RollbackIsExact
=============================================================================
