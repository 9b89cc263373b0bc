--------------------------- MODULE HostConfigProofs ---------------------------
(***************************************************************************)
(* Theorems about HostConfig: for any directories, links, hosts, word size *)
(* and number of commands, what the VM is rendered from exposes nothing of *)
(* the host's configuration and has sizes that mean what they say, and     *)
(* what the commands have reported as done is in the file.                 *)
(***************************************************************************)
EXTENDS HostConfig, WellFoundedInduction, SequenceTheorems, TLAPS

(* A product that the check of parseSize lets through does not wrap.       *)
LEMMA NoWrap ==
  ASSUME NEW s \in Size, Parses(s)
  PROVE  Bytes(s) = s.n * s.unit
<1>1. Word \in Nat /\ Word > 0 /\ s.n \in Nat /\ s.unit \in Nat /\ s.unit > 0
  <2>1. Word \in Nat \ {0} /\ Unit \subseteq Nat \ {0}
    BY SizeAssumption
  <2>2. s.n \in Nat /\ s.unit \in Unit
    BY DEF Size
  <2>3. s.unit \in Nat \ {0}
    BY <2>1, <2>2
  <2> QED
    BY <2>1, <2>2, <2>3
<1> DEFINE q == MaxUint \div s.unit
<1>2. q \in Nat /\ s.n <= q
  BY <1>1 DEF Parses, MaxUint
<1>3. q * s.unit <= MaxUint
  BY <1>1 DEF MaxUint
<1>4. s.n * s.unit <= q * s.unit
  BY <1>1, <1>2
<1>5. s.n * s.unit \in Nat /\ s.n * s.unit < Word
  BY <1>1, <1>2, <1>3, <1>4 DEF MaxUint
<1>6. \A x \in Nat : x < Word => x % Word = x
  BY <1>1
<1> QED
  BY <1>5, <1>6 DEF Bytes

-----------------------------------------------------------------------------
(* Numbers                                                                  *)

LEMMA Least ==
  ASSUME NEW T, T \subseteq Nat, T # {}
  PROVE  \E x \in T : \A y \in T : x <= y
<1>1. IsWellFoundedOn(OpToRel(<, Nat), Nat)
  BY NatLessThanWellFounded
<1>2. PICK x \in T : \A y \in T : <<y, x>> \notin OpToRel(<, Nat)
  BY <1>1, WFMin
<1>3. \A y \in T : ~(y < x)
  BY <1>2 DEF OpToRel
<1> QED
  BY <1>3

\* A set that has k and with a number the next one, up to n.
LEMMA UpTo ==
  ASSUME NEW k \in Nat, NEW n \in Nat, NEW S, k \in S,
         \A i \in k .. n - 1 : i \in S => i + 1 \in S
  PROVE  k .. n \subseteq S
<1> DEFINE T == (k .. n) \ S
<1> SUFFICES ASSUME T # {} PROVE FALSE
  OBVIOUS
<1>1. T \subseteq Nat
  OBVIOUS
<1>2. PICK x \in T : \A y \in T : x <= y
  <2> HIDE DEF T
  <2> QED
    BY <1>1, Least
<1>3. x \in k .. n /\ x \notin S
  BY <1>2
<1>4. x - 1 \in k .. n - 1
  BY <1>3
<1>5. x - 1 \in S
  BY <1>2, <1>4
<1>6. (x - 1) + 1 \in S
  BY <1>4, <1>5
<1> QED
  BY <1>3, <1>6

LEMMA Greatest ==
  ASSUME NEW n \in Nat, NEW I, I \subseteq 0 .. n, I # {}
  PROVE  \E i \in I : \A j \in I : j <= i
<1> DEFINE T == {n - i : i \in I}
<1>0. \A i \in I : i \in Nat /\ i <= n
  OBVIOUS
<1>1. T \subseteq Nat /\ T # {}
  <2>1. \A i \in I : n - i \in Nat
    BY <1>0
  <2> QED
    BY <2>1
<1>2. PICK x \in T : \A y \in T : x <= y
  <2> HIDE DEF T
  <2> QED
    BY <1>1, Least
<1>3. PICK i \in I : x = n - i
  BY <1>2
<1>4. \A j \in I : n - i <= n - j
  BY <1>2, <1>3
<1>5. \A j \in I : j <= i
  BY <1>0, <1>4
<1> QED
  BY <1>5

-----------------------------------------------------------------------------
(* Paths                                                                    *)

Names == Seq(Name)

LEMMA PathTypes ==
  /\ <<>> \in Dir /\ <<>> \in Names
  /\ ConfigArg \in Names /\ Shared \subseteq Names
  /\ \A p \in Names : Follow(p) \in Names
<1>1. <<>> \in Names
  BY EmptySeq DEF Names
<1>2. \A p \in DOMAIN Link : Link[p] \in Names
  BY PathAssumption DEF Names
<1> QED
  BY <1>1, <1>2, PathAssumption DEF Names, Follow

LEMMA OneNameMore ==
  ASSUME NEW q \in Names, NEW n \in Name
  PROVE  /\ Append(q, n) \in Names /\ Len(Append(q, n)) = Len(q) + 1 /\ Len(q) \in Nat
         /\ Append(q, n)[Len(q) + 1] = n
         /\ \A i \in 1 .. Len(q) : Append(q, n)[i] = q[i]
  BY AppendProperties, LenProperties DEF Names

\* The first i names of a path.
LEMMA FirstNames ==
  ASSUME NEW q \in Names, NEW i \in 0 .. Len(q)
  PROVE  /\ SubSeq(q, 1, i) \in Names /\ Len(SubSeq(q, 1, i)) = i
         /\ \A j \in 1 .. i : SubSeq(q, 1, i)[j] = q[j]
<1>1. Len(q) \in Nat /\ i \in Nat /\ \A j \in 1 .. i : q[j] \in Name
  <2>1. Len(q) \in Nat
    BY LenProperties DEF Names
  <2>2. \A j \in 1 .. Len(q) : q[j] \in Name
    BY ElementOfSeq DEF Names
  <2> QED
    BY <2>1, <2>2
<1>2. /\ SubSeq(q, 1, i) \in Seq(Name)
      /\ Len(SubSeq(q, 1, i)) = IF 1 <= i THEN i - 1 + 1 ELSE 0
      /\ \A j \in 1 .. i - 1 + 1 : SubSeq(q, 1, i)[j] = q[1 + j - 1]
  BY <1>1, SubSeqProperties
<1> QED
  BY <1>1, <1>2 DEF Names

LEMMA SamePath ==
  ASSUME NEW q \in Names, NEW r \in Names, Len(q) = Len(r),
         \A i \in 1 .. Len(q) : q[i] = r[i]
  PROVE  q = r
  BY SeqEqual DEF Names

LEMMA AppendRegroups ==
  ASSUME NEW q \in Names, NEW r \in Names, NEW n \in Name
  PROVE  Append(q \o r, n) = q \o (r \o <<n>>)
<1> DEFINE u == <<n>>
<1>1. q \in Seq(Name) /\ r \in Seq(Name) /\ u \in Seq(Name) /\ q \o r \in Seq(Name)
  BY ConcatProperties DEF Names
<1>2. Append(q \o r, n) = (q \o r) \o u
  BY <1>1, AppendIsConcat
<1> HIDE DEF u
<1>3. (q \o r) \o u = q \o (r \o u)
  BY <1>1, ConcatAssociative
<1> QED
  BY <1>2, <1>3 DEF u

\* t is where the system has been on path.
Walks(path, t) ==
  t = [i \in 0 .. Len(path) |-> IF i = 0 THEN <<>>
                                ELSE Follow(Append(t[i - 1], path[i]))]

LEMMA TrailWalks ==
  ASSUME NEW path \in Names
  PROVE  /\ Len(path) \in Nat /\ \A i \in 1 .. Len(path) : path[i] \in Name
         /\ Trail(path) \in [0 .. Len(path) -> Names]
         /\ Trail(path)[0] = <<>>
         /\ \A i \in 1 .. Len(path) :
              Trail(path)[i] = Follow(Append(Trail(path)[i - 1], path[i]))
<1>1. Len(path) \in Nat /\ \A i \in 1 .. Len(path) : path[i] \in Name
  BY LenProperties, ElementOfSeq DEF Names
<1> DEFINE n == Len(path)
           W(k, t) == /\ t \in [0 .. k -> Names] /\ t[0] = <<>>
                      /\ \A i \in 1 .. k : t[i] = Follow(Append(t[i - 1], path[i]))
           S == {k \in Nat : \E t : W(k, t)}
<1>2. 0 \in S
  <2>1. W(0, [i \in 0 .. 0 |-> <<>>])
    BY PathTypes
  <2> QED
    BY <2>1
<1>3. ASSUME NEW k \in 0 .. n - 1, k \in S PROVE k + 1 \in S
  <2>1. PICK t : W(k, t)
    BY <1>3
  <2> DEFINE v == Follow(Append(t[k], path[k + 1]))
             u == [i \in 0 .. k + 1 |-> IF i <= k THEN t[i] ELSE v]
  <2>2. k \in Nat /\ k + 1 \in 1 .. n /\ t[k] \in Names
    BY <1>1, <2>1
  <2>3. v \in Names
    BY <1>1, <2>2, OneNameMore, PathTypes
  <2> HIDE DEF v
  <2>4. u \in [0 .. k + 1 -> Names] /\ u[0] = <<>>
    BY <2>1, <2>2, <2>3
  <2>5. ASSUME NEW i \in 1 .. k + 1
        PROVE  u[i] = Follow(Append(u[i - 1], path[i]))
    <3>1. i \in Nat /\ i - 1 \in 0 .. k /\ u[i - 1] = t[i - 1]
      BY <2>2
    <3>2. CASE i <= k
      <4>1. i \in 1 .. k /\ u[i] = t[i]
        BY <3>1, <3>2
      <4> QED
        BY <2>1, <3>1, <4>1
    <3>3. CASE ~(i <= k)
      <4>1. i = k + 1 /\ u[i] = v /\ i - 1 = k
        BY <2>2, <3>1, <3>3
      <4> QED
        BY <3>1, <4>1 DEF v
    <3> QED
      BY <3>2, <3>3
  <2>6. W(k + 1, u)
    BY <2>4, <2>5
  <2>7. k + 1 \in Nat
    BY <2>2
  <2> HIDE DEF W
  <2> QED
    BY <2>6, <2>7
<1>4. n \in S
  <2> HIDE DEF S
  <2>1. 0 .. n \subseteq S
    BY <1>1, <1>2, <1>3, UpTo
  <2> QED
    BY <1>1, <2>1
<1>5. PICK t : W(n, t)
  BY <1>4
<1>6. Walks(path, t)
  <2>1. t = [i \in 0 .. n |-> t[i]]
    BY <1>5
  <2>2. \A i \in 0 .. n : t[i] = IF i = 0 THEN <<>> ELSE Follow(Append(t[i - 1], path[i]))
    <3> SUFFICES ASSUME NEW i \in 0 .. n
                 PROVE  t[i] = IF i = 0 THEN <<>> ELSE Follow(Append(t[i - 1], path[i]))
      OBVIOUS
    <3>1. CASE i = 0
      BY <1>5, <3>1
    <3>2. CASE i # 0
      <4>1. i \in 1 .. n
        BY <1>1, <3>2
      <4> QED
        BY <1>5, <3>2, <4>1
    <3> QED
      BY <3>1, <3>2
  <2> QED
    BY <2>1, <2>2 DEF Walks
<1>7. Trail(path) = CHOOSE f : Walks(path, f)
  BY DEF Trail, Walks
<1>8. Walks(path, Trail(path))
  BY <1>6, <1>7
<1> DEFINE f == Trail(path)
<1> HIDE DEF f
<1>9. f[0] = <<>> /\ \A i \in 1 .. n : f[i] = Follow(Append(f[i - 1], path[i]))
  <2>1. f = [i \in 0 .. n |-> IF i = 0 THEN <<>> ELSE Follow(Append(f[i - 1], path[i]))]
    BY <1>8 DEF Walks, f
  <2>2. \A i \in 0 .. n : f[i] = IF i = 0 THEN <<>> ELSE Follow(Append(f[i - 1], path[i]))
    BY <2>1
  <2> QED
    BY <1>1, <2>2
<1>10. f \in [0 .. n -> Names]
  <2> DEFINE R == {k \in 0 .. n : f[k] \in Names}
  <2>1. 0 \in R
    BY <1>1, <1>9, PathTypes
  <2>2. ASSUME NEW k \in 0 .. n - 1, k \in R PROVE k + 1 \in R
    <3>1. k + 1 \in 1 .. n /\ f[k] \in Names
      BY <1>1, <2>2
    <3>2. f[k + 1] = Follow(Append(f[k], path[k + 1]))
      BY <1>1, <1>9, <3>1
    <3>3. f[k + 1] \in Names
      BY <1>1, <3>1, <3>2, OneNameMore, PathTypes
    <3> QED
      BY <1>1, <3>1, <3>3
  <2> HIDE DEF R
  <2>3. 0 .. n \subseteq R
    BY <1>1, <2>1, <2>2, UpTo
  <2>4. \A k \in 0 .. n : f[k] \in Names
    BY <2>3 DEF R
  <2>5. f = [i \in 0 .. n |-> f[i]]
    BY <1>8 DEF Walks, f
  <2> QED
    BY <2>4, <2>5
<1> QED
  BY <1>1, <1>9, <1>10 DEF f

\* The paths on which no link is.
Physical(q) == \A i \in 1 .. Len(q) : SubSeq(q, 1, i) \notin DOMAIN Link

\* No link is on the path that the system arrives at.
LEMMA RealIsPhysical ==
  ASSUME NEW path \in Names
  PROVE  Real(path) \in Names /\ Physical(Real(path))
<1> DEFINE f == Trail(path)
           n == Len(path)
           S == {i \in 0 .. n : Physical(f[i])}
<1>1. /\ n \in Nat /\ \A i \in 1 .. n : path[i] \in Name
      /\ f \in [0 .. n -> Names] /\ f[0] = <<>>
      /\ \A i \in 1 .. n : f[i] = Follow(Append(f[i - 1], path[i]))
  BY TrailWalks
<1>2. Real(path) = f[n]
  BY DEF Real
<1> HIDE DEF f, n
<1>3. 0 \in S
  <2>1. Physical(<<>>)
    BY EmptySeq DEF Physical
  <2> QED
    BY <1>1, <2>1
<1>4. ASSUME NEW i \in 0 .. n - 1, i \in S PROVE i + 1 \in S
  <2> DEFINE q == f[i]
             a == Append(q, path[i + 1])
  <2>1. /\ i + 1 \in 1 .. n /\ i + 1 \in 0 .. n /\ f[i + 1] = Follow(a)
        /\ q \in Names /\ path[i + 1] \in Name /\ Physical(q)
    <3>1. i + 1 \in 1 .. n /\ i + 1 \in 0 .. n /\ i \in 0 .. n /\ (i + 1) - 1 = i
      BY <1>1
    <3> QED
      BY <1>1, <1>4, <3>1
  <2> HIDE DEF q
  <2>2. /\ a \in Names /\ Len(a) = Len(q) + 1 /\ Len(q) \in Nat
        /\ \A j \in 1 .. Len(q) : a[j] = q[j]
    BY <2>1, OneNameMore
  <2> HIDE DEF a
  <2>3. CASE a \in DOMAIN Link
    <3>1. Physical(Link[a])
      BY <2>3, PathAssumption DEF Physical
    <3> QED
      BY <2>1, <2>3, <3>1 DEF Follow
  <2>4. CASE a \notin DOMAIN Link
    <3>1. ASSUME NEW j \in 1 .. Len(a) PROVE SubSeq(a, 1, j) \notin DOMAIN Link
      <4>1. CASE j <= Len(q)
        <5>1. j \in 1 .. Len(q) /\ j \in 0 .. Len(q) /\ j \in 0 .. Len(a)
          BY <2>2, <4>1
        <5>2. /\ SubSeq(a, 1, j) \in Names /\ Len(SubSeq(a, 1, j)) = j
              /\ \A k \in 1 .. j : SubSeq(a, 1, j)[k] = a[k]
          BY <2>2, <5>1, FirstNames
        <5>3. /\ SubSeq(q, 1, j) \in Names /\ Len(SubSeq(q, 1, j)) = j
              /\ \A k \in 1 .. j : SubSeq(q, 1, j)[k] = q[k]
          BY <2>1, <5>1, FirstNames
        <5>4. \A k \in 1 .. j : a[k] = q[k]
          BY <2>2, <4>1
        <5>5. SubSeq(a, 1, j) = SubSeq(q, 1, j)
          BY <5>2, <5>3, <5>4, SamePath
        <5> QED
          BY <2>1, <5>1, <5>5 DEF Physical
      <4>2. CASE ~(j <= Len(q))
        <5>1. j = Len(a)
          BY <2>2, <4>2
        <5>2. SubSeq(a, 1, Len(a)) = a
          BY <2>2, SubSeqFull DEF Names
        <5> QED
          BY <2>4, <5>1, <5>2
      <4> QED
        BY <4>1, <4>2
    <3>2. Physical(a)
      BY <3>1 DEF Physical
    <3> QED
      BY <2>1, <2>4, <3>2 DEF Follow
  <2> QED
    BY <2>3, <2>4
<1> HIDE DEF S
<1>5. 0 .. n \subseteq S
  BY <1>1, <1>3, <1>4, UpTo
<1>6. n \in 0 .. n
  BY <1>1
<1> QED
  BY <1>1, <1>2, <1>5, <1>6 DEF S

\* Nor is one met on the way along such a path.
LEMMA PhysicalIsReal ==
  ASSUME NEW q \in Names, Physical(q)
  PROVE  Real(q) = q /\ ~Dangles(q)
<1> DEFINE f == Trail(q)
           n == Len(q)
           S == {i \in 0 .. n : f[i] = SubSeq(q, 1, i)}
<1>1. /\ n \in Nat /\ \A i \in 1 .. n : q[i] \in Name
      /\ f \in [0 .. n -> Names] /\ f[0] = <<>>
      /\ \A i \in 1 .. n : f[i] = Follow(Append(f[i - 1], q[i]))
  BY TrailWalks
<1>2. ASSUME NEW i \in 0 .. n - 1
      PROVE  /\ i + 1 \in 1 .. n
             /\ Append(SubSeq(q, 1, i), q[i + 1]) = SubSeq(q, 1, i + 1)
             /\ SubSeq(q, 1, i + 1) \notin DOMAIN Link
  <2>1. i \in Nat /\ i \in 0 .. n /\ i + 1 \in 0 .. n /\ i + 1 \in 1 .. n
    BY <1>1
  <2> DEFINE s == SubSeq(q, 1, i)
             t == SubSeq(q, 1, i + 1)
  <2>2. s \in Names /\ Len(s) = i /\ \A k \in 1 .. i : s[k] = q[k]
    BY <2>1, FirstNames
  <2>3. t \in Names /\ Len(t) = i + 1 /\ \A k \in 1 .. i + 1 : t[k] = q[k]
    BY <2>1, FirstNames
  <2>4. t \notin DOMAIN Link
    BY <2>1 DEF Physical
  <2> HIDE DEF s, t
  <2> DEFINE a == Append(s, q[i + 1])
  <2>5. /\ a \in Names /\ Len(a) = i + 1 /\ a[i + 1] = q[i + 1]
        /\ \A k \in 1 .. i : a[k] = s[k]
    BY <1>1, <2>1, <2>2, OneNameMore
  <2> HIDE DEF a
  <2>6. ASSUME NEW k \in 1 .. i + 1 PROVE a[k] = t[k]
    <3>1. CASE k = i + 1
      BY <2>3, <2>5, <3>1
    <3>2. CASE k # i + 1
      <4>1. k \in 1 .. i
        BY <2>1, <3>2
      <4> QED
        BY <2>2, <2>3, <2>5, <4>1
    <3> QED
      BY <3>1, <3>2
  <2>7. a = t
    BY <2>3, <2>5, <2>6, SamePath
  <2> QED
    BY <2>1, <2>4, <2>7 DEF a, s, t
<1>3. SubSeq(q, 1, n) = q
  BY SubSeqFull DEF Names
<1>4. Real(q) = f[n]
  BY DEF Real
<1>5. Dangles(q) =>
        \E i \in 1 .. n : Append(f[i - 1], q[i]) \in DOMAIN Link
  BY DEF Dangles
<1> HIDE DEF f, n
<1>6. 0 \in S
  <2>1. SubSeq(q, 1, 0) = <<>>
    BY SubSeqEmpty
  <2>2. f[0] = SubSeq(q, 1, 0)
    BY <1>1, <2>1, Zenon
  <2>3. 0 \in 0 .. n
    BY <1>1
  <2> QED
    BY <2>2, <2>3, Zenon
<1>7. ASSUME NEW i \in 0 .. n - 1, i \in S PROVE i + 1 \in S
  <2>1. i + 1 \in 1 .. n /\ i + 1 \in 0 .. n /\ (i + 1) - 1 = i
    BY <1>1
  <2>2. f[i + 1] = Follow(Append(f[i], q[i + 1])) /\ f[i] = SubSeq(q, 1, i)
    BY <1>1, <1>7, <2>1
  <2>3. f[i + 1] = SubSeq(q, 1, i + 1)
    BY <1>2, <2>2 DEF Follow
  <2> QED
    BY <2>1, <2>3
<1> HIDE DEF S
<1>8. 0 .. n \subseteq S
  BY <1>1, <1>6, <1>7, UpTo
<1>9. \A i \in 0 .. n : f[i] = SubSeq(q, 1, i)
  BY <1>8 DEF S
<1>10. Real(q) = q
  BY <1>1, <1>3, <1>4, <1>9
<1>11. ASSUME NEW i \in 1 .. n PROVE Append(f[i - 1], q[i]) \notin DOMAIN Link
  <2>1. i - 1 \in 0 .. n - 1 /\ i - 1 \in 0 .. n /\ (i - 1) + 1 = i
    BY <1>1
  <2>2. Append(SubSeq(q, 1, i - 1), q[(i - 1) + 1]) \notin DOMAIN Link
    BY <1>2, <2>1
  <2> QED
    BY <1>9, <2>1, <2>2
<1> QED
  BY <1>5, <1>10, <1>11

(* CanonicalizeExisting: resolving the longest prefix that exists leaves    *)
(* nothing to resolve, so that the path is where the system arrives, unless *)
(* a link on it leads to what does not exist.                               *)
THEOREM CanonicalIsReal ==
  ASSUME NEW path \in Seq(Name), ~Dangles(path)
  PROVE  CanonicalizeExisting(path) = Real(path)
<1> DEFINE f == Trail(path)
           n == Len(path)
           E == {i \in 0 .. n : f[i] \in Dir}
           k == CHOOSE i \in E : \A j \in E : j <= i
           S == {i \in k .. n : f[i] = f[k] \o SubSeq(path, k + 1, i)}
<1>0. path \in Names
  BY DEF Names
<1>1. /\ n \in Nat /\ \A i \in 1 .. n : path[i] \in Name
      /\ f \in [0 .. n -> Names] /\ f[0] = <<>>
      /\ \A i \in 1 .. n : f[i] = Follow(Append(f[i - 1], path[i]))
  BY <1>0, TrailWalks
<1>2. \A i \in 1 .. n : Append(f[i - 1], path[i]) \in DOMAIN Link => f[i] \in Dir
  BY DEF Dangles
<1>3. /\ CanonicalizeExisting(path) = f[k] \o SubSeq(path, k + 1, n)
      /\ Real(path) = f[n]
  BY DEF CanonicalizeExisting, Real
<1> HIDE DEF f, n
<1>4. k \in E /\ \A j \in E : j <= k
  <2>1. E \subseteq 0 .. n /\ 0 \in E
    BY <1>1, PathTypes
  <2> HIDE DEF E
  <2>2. \E i \in E : \A j \in E : j <= i
    BY <1>1, <2>1, Greatest
  <2> QED
    BY <2>2
<1> HIDE DEF k
<1>5. /\ k \in Nat /\ k \in 0 .. n /\ f[k] \in Names
      /\ \A i \in k + 1 .. n : f[i] \notin Dir
  <2>1. k \in Nat /\ k \in 0 .. n
    BY <1>1, <1>4
  <2>2. ASSUME NEW i \in k + 1 .. n, f[i] \in Dir PROVE FALSE
    <3>1. i \in 0 .. n /\ i > k
      BY <1>1, <2>1
    <3> QED
      BY <1>4, <2>1, <2>2, <3>1
  <2> QED
    BY <1>1, <2>1, <2>2
<1> HIDE DEF E
<1>6. k \in S
  <2>1. SubSeq(path, k + 1, k) = <<>>
    BY <1>5, SubSeqEmpty
  <2>2. f[k] \o <<>> = f[k]
    BY <1>5, ConcatEmptySeq DEF Names
  <2>3. f[k] = f[k] \o SubSeq(path, k + 1, k)
    BY <2>1, <2>2, Zenon
  <2>4. k \in k .. n
    BY <1>1, <1>5
  <2> QED
    BY <2>3, <2>4, Zenon
<1>7. ASSUME NEW i \in k .. n - 1, i \in S PROVE i + 1 \in S
  <2> DEFINE s == SubSeq(path, k + 1, i)
  <2>1. /\ i \in Nat /\ i + 1 \in k .. n /\ i + 1 \in 1 .. n /\ i + 1 \in k + 1 .. n
        /\ (i + 1) - 1 = i /\ k + 1 \in 1 .. n
    BY <1>1, <1>5
  <2>2. s \in Names
    <3>1. \A j \in k + 1 .. i : path[j] \in Name
      BY <1>1, <1>5, <2>1
    <3> QED
      BY <1>5, <2>1, <3>1, SubSeqProperties DEF Names
  <2>3. SubSeq(path, k + 1, i + 1) = s \o <<path[i + 1]>>
    <3>1. SubSeq(path, k + 1, i + 1) = SubSeq(path, k + 1, (i + 1) - 1) \o <<path[i + 1]>>
      BY <1>0, <2>1, SubSeqRecursiveSecond DEF Names, n
    <3> QED
      BY <2>1, <3>1
  <2>4. f[i] = f[k] \o s
    BY <1>7
  <2> HIDE DEF s
  <2>5. path[i + 1] \in Name
    BY <1>1, <1>5, <2>1
  <2>6. f[i + 1] = Append(f[i], path[i + 1])
    <3>1. f[i + 1] = Follow(Append(f[i], path[i + 1]))
      BY <1>1, <2>1
    <3>2. Append(f[i], path[i + 1]) \notin DOMAIN Link
      BY <1>2, <1>5, <2>1
    <3> QED
      BY <3>1, <3>2 DEF Follow
  <2>7. Append(f[k] \o s, path[i + 1]) = f[k] \o (s \o <<path[i + 1]>>)
    BY <1>5, <2>2, <2>5, AppendRegroups
  <2>8. f[i + 1] = f[k] \o SubSeq(path, k + 1, i + 1)
    BY <2>3, <2>4, <2>6, <2>7
  <2> QED
    BY <2>1, <2>8
<1> HIDE DEF S
<1>8. k .. n \subseteq S
  BY <1>1, <1>5, <1>6, <1>7, UpTo
<1>9. n \in k .. n
  BY <1>1, <1>5
<1> QED
  BY <1>3, <1>8, <1>9 DEF S

LEMMA OwnPaths ==
  /\ Path \in Names /\ ProfilesDir \in Names /\ SSHDir \in Names
  /\ ~Dangles(ConfigArg) => CanonicalizeExisting(Path) = Real(ConfigArg)
<1>1. Path \in Names
  <2> DEFINE path == ConfigArg
             f == Trail(path)
             n == Len(path)
             E == {i \in 0 .. n : f[i] \in Dir}
             k == CHOOSE i \in E : \A j \in E : j <= i
  <2>1. /\ n \in Nat /\ \A i \in 1 .. n : path[i] \in Name
        /\ f \in [0 .. n -> Names] /\ f[0] = <<>>
    BY PathTypes, TrailWalks
  <2>2. Path = f[k] \o SubSeq(path, k + 1, n)
    BY DEF CanonicalizeExisting, Path
  <2> HIDE DEF f, n
  <2>3. k \in E
    <3>1. E \subseteq 0 .. n /\ 0 \in E
      BY <2>1, PathTypes
    <3> HIDE DEF E
    <3>2. \E i \in E : \A j \in E : j <= i
      BY <2>1, <3>1, Greatest
    <3> QED
      BY <3>2
  <2> HIDE DEF k
  <2>4. k \in Nat /\ k \in 0 .. n /\ f[k] \in Names
    BY <2>1, <2>3
  <2>5. SubSeq(path, k + 1, n) \in Names
    <3>1. \A j \in k + 1 .. n : path[j] \in Name
      BY <2>1, <2>4
    <3> QED
      BY <2>1, <2>4, <3>1, SubSeqProperties DEF Names
  <2> QED
    BY <2>2, <2>4, <2>5, ConcatProperties DEF Names
<1>2. Front(Path) \in Names
  <2>1. Path \in Seq(Name) /\ Path # <<>>
    BY <1>1, PathAssumption DEF Names
  <2>2. Len(Path) \in Nat \ {0}
    BY <2>1, EmptySeq
  <2>3. Len(Path) - 1 \in 0 .. Len(Path)
    BY <2>2
  <2>4. SubSeq(Path, 1, Len(Path) - 1) \in Names
    BY <1>1, <2>3, FirstNames
  <2> QED
    BY <2>4 DEF Front
<1>3. ProfilesDir \in Names /\ SSHDir \in Names
  <2>1. "profiles" \in Name /\ "ssh" \in Name
    BY PathAssumption
  <2> QED
    BY <1>2, <2>1, OneNameMore DEF ProfilesDir, SSHDir
<1>4. ASSUME ~Dangles(ConfigArg) PROVE CanonicalizeExisting(Path) = Real(ConfigArg)
  <2>1. Path = Real(ConfigArg)
    BY <1>4, PathTypes, CanonicalIsReal DEF Path, Names
  <2>2. Physical(Path)
    BY <2>1, PathTypes, RealIsPhysical
  <2>3. Real(Path) = Path /\ ~Dangles(Path)
    BY <1>1, <2>2, PhysicalIsReal
  <2>4. CanonicalizeExisting(Path) = Real(Path)
    BY <1>1, <2>3, CanonicalIsReal DEF Names
  <2> QED
    BY <2>1, <2>3, <2>4
<1> QED
  BY <1>1, <1>3, <1>4

-----------------------------------------------------------------------------
(* Types *)

LEMMA DefaultType == Default \in Config /\ Nothing \in Changed /\ Idle \in Process
<1>1. Default \in Config
  BY SizeAssumption DEF Default, Config, Size, Shared
<1>2. Nothing \in Changed
  BY DEF Nothing, Changed
<1> QED
  BY <1>1, <1>2 DEF Idle, Process, Empty, Command

LEMMA LoadedType == ASSUME TypeOK PROVE Loaded \in Config
  BY DefaultType DEF TypeOK, Loaded, Empty

LEMMA PromiseType ==
  ASSUME promised \in Changed, NEW w \in Changed PROVE Promise(w) \in Changed
  BY DEF Promise, Changed

(* What the editor, `allow` and `mount` make of a config is a config.      *)
LEMMA ConfigChanges ==
  ASSUME NEW c \in Config
  PROVE  /\ \A m \in SUBSET Shared : [c EXCEPT !.mounts = m] \in Config
         /\ \A d \in SUBSET Entry : [c EXCEPT !.domains = d] \in Config
         /\ \A s, d \in Size : [c EXCEPT !.swap = s, !.disk = d] \in Config
         /\ [c EXCEPT !.sane = FALSE] \in Config
<1>1. \A s, d \in Size : [c EXCEPT !.swap = s, !.disk = d] \in Config
  BY DEF Config
<1> QED
  BY <1>1 DEF Config

LEMMA TypeInit == Init => TypeOK
<1> SUFFICES ASSUME Init PROVE TypeOK
  OBVIOUS
<1>1. cli \in [Proc -> Process] /\ promised \in Changed
  BY DefaultType DEF Init
<1>2. /\ commands \in 0 .. MaxCommands /\ edits \in 0 .. MaxEdits
      /\ faults \in 0 .. MaxFaults
  BY CountAssumption DEF Init
<1> QED
  BY <1>1, <1>2 DEF Init, TypeOK, Empty

(* The actions that change nothing but the record of one process.          *)
LEMMA OneProcess ==
  ASSUME TypeOK, NEW p \in Proc, NEW r \in Process,
         cli' = [cli EXCEPT ![p] = r]
  PROVE  cli' \in [Proc -> Process]
  BY DEF TypeOK

LEMMA EditType == ASSUME TypeOK, EditConfig PROVE TypeOK'
<1>1. file' \in SUBSET Config /\ \A c, d \in file' : c = d
  <2>1. CASE \E m \in EditedMounts : file' = {[Loaded EXCEPT !.mounts = m]}
    <3>1. \A m \in EditedMounts : m \in SUBSET Shared
      BY DEF Shared
    <3> QED
      BY <2>1, <3>1, LoadedType, ConfigChanges
  <2>2. CASE \E d \in EditedDomains : file' = {[Loaded EXCEPT !.domains = d]}
    BY <2>2, LoadedType, ConfigChanges, DomainAssumption
  <2>3. CASE \E s \in EditedSizes :
               file' = {[Loaded EXCEPT !.swap = s.swap, !.disk = s.disk]}
    <3>1. PICK s \in EditedSizes :
            file' = {[Loaded EXCEPT !.swap = s.swap, !.disk = s.disk]}
      BY <2>3
    <3>2. s.swap \in Size /\ s.disk \in Size
      BY SizeAssumption DEF Size
    <3>3. [Loaded EXCEPT !.swap = s.swap, !.disk = s.disk] \in Config
      BY <3>2, LoadedType, ConfigChanges
    <3> QED
      BY <3>1, <3>3
  <2>4. CASE file' = {[Loaded EXCEPT !.sane = FALSE]}
    BY <2>4, LoadedType, ConfigChanges
  <2> QED
    BY <2>1, <2>2, <2>3, <2>4 DEF EditConfig
<1>2. promised' \in Changed /\ UNCHANGED <<cli, rendered, commands, faults>>
  BY DefaultType DEF EditConfig
<1>3. raced' \in BOOLEAN
  BY DEF EditConfig, TypeOK
<1>4. edits' \in 0 .. MaxEdits
  <2>1. edits < MaxEdits /\ edits' = edits + 1
    BY DEF EditConfig
  <2>2. edits \in 0 .. MaxEdits
    BY DEF TypeOK
  <2> QED
    BY <2>1, <2>2, CountAssumption
<1> QED
  BY <1>1, <1>2, <1>3, <1>4 DEF TypeOK

LEMMA BeginType ==
  ASSUME TypeOK, NEW p \in Proc, NEW c \in Command, Begin(p, c) PROVE TypeOK'
<1>1. cli' \in [Proc -> Process]
  <2>1. [Idle EXCEPT !.pc = c, !.cmd = c, !.cfg = Loaded, !.seen = file]
          \in Process
    BY LoadedType, DefaultType DEF Idle, Process, TypeOK
  <2> QED
    BY <2>1 DEF Begin, TypeOK
<1>2. commands' \in 0 .. MaxCommands
  BY CountAssumption DEF Begin, TypeOK
<1> QED
  BY <1>1, <1>2 DEF Begin, TypeOK

LEMMA EntryType == \A h \in Host : NormalizeDomain(h) \in Entry
  BY DEF NormalizeDomain, Entry

\* Config c does what w asks for.
Keeps(c, w) ==
  /\ \A m \in w.mounts : Covered(c.mounts, m)
  /\ \A h \in w.hosts : \A below \in Host :
       Below(below, h) => Matched(c.domains \union BaseEntry, below)
Grows(c, d) == c.mounts \subseteq d.mounts /\ c.domains \subseteq d.domains

LEMMA PrefixElements ==
  ASSUME NEW a \in Seq(STRING), NEW b \in Seq(STRING)
  PROVE  IsPrefix(a, b) <=> Len(a) <= Len(b) /\ \A i \in 1 .. Len(a) : a[i] = b[i]
<1>1. Len(a) \in Nat /\ Len(b) \in Nat
  OBVIOUS
<1>2. SubSeq(a, 1, Len(a)) = [i \in 1 .. Len(a) |-> a[i]]
  BY <1>1
<1>3. Len(a) <= Len(b) => SubSeq(b, 1, Len(a)) = [i \in 1 .. Len(a) |-> b[i]]
  BY <1>1
<1> QED
  BY <1>1, <1>2, <1>3 DEF IsPrefix

LEMMA PrefixTransitive ==
  ASSUME NEW a \in Host, NEW b \in Host, NEW c \in Host, Below(a, b), Below(b, c)
  PROVE  Below(a, c)
<1>1. a \in Seq(STRING) /\ b \in Seq(STRING) /\ c \in Seq(STRING)
  BY DomainAssumption
<1>2. /\ Len(b) <= Len(a) /\ \A i \in 1 .. Len(b) : b[i] = a[i]
      /\ Len(c) <= Len(b) /\ \A i \in 1 .. Len(c) : c[i] = b[i]
  BY <1>1, PrefixElements DEF Below
<1>3. Len(c) <= Len(a) /\ \A i \in 1 .. Len(c) : c[i] = a[i]
  BY <1>1, <1>2
<1> QED
  BY <1>1, <1>3, PrefixElements DEF Below

(* A host whose normal form is covered is matched, and all below it.       *)
LEMMA CoveredIsMatched ==
  ASSUME NEW c \in Config, NEW guest \in {{}, BaseEntry}, NEW h \in Host,
         AlreadyCovered(c.domains \union guest, NormalizeDomain(h)),
         NEW below \in Host, Below(below, h)
  PROVE  Matched(c.domains \union BaseEntry, below)
<1>1. PICK e \in c.domains \union guest :
        e = NormalizeDomain(h) \/ (e.sub /\ Below(h, e.host))
  BY DEF AlreadyCovered, NormalizeDomain
<1>2. e \in c.domains \union BaseEntry /\ e.host \in Host
  BY DomainAssumption DEF Config, Entry
<1>3. e.sub /\ Below(below, e.host)
  BY <1>1, <1>2, PrefixTransitive DEF NormalizeDomain
<1> QED
  BY <1>2, <1>3 DEF Matched

\* What `allow` and `mount` do: a is reported at once, and w is on its way to
\* the file as part of config c, unless the command gives up.
Outcome(p, a, c, w) ==
  /\ Reports(p, a) /\ Keeps(cli[p].cfg, a)
  /\ \/ Change(p, c, w) /\ Grows(cli[p].cfg, c) /\ Keeps(c, w)
     \/ GiveUp(p)

LEMMA AllowKeeps ==
  ASSUME TypeOK, NEW p \in Proc, Allow(p)
  PROVE  \E a \in Changed, c \in Config, w \in Changed :
           Outcome(p, a, c, w) /\ c.mounts = cli[p].cfg.mounts
<1>1. PICK asked \in (SUBSET Host) \ {{}}, guest \in {{}, BaseEntry} :
       LET known == cli[p].cfg.domains \union guest
           pending == {h \in asked : ~AlreadyCovered(known, NormalizeDomain(h))}
       IN  /\ Reports(p, [Nothing EXCEPT !.hosts = asked \ pending])
           /\ \E chosen \in SUBSET pending :
                LET c == [cli[p].cfg EXCEPT !.domains = @ \union
                            {NormalizeDomain(h) : h \in chosen}]
                IN  IF chosen # {} /\ Validate(c)
                    THEN Change(p, c, [Nothing EXCEPT !.hosts = chosen])
                    ELSE GiveUp(p)
  BY DEF Allow, Candidates, GuestAllowed, Confirmed
<1> DEFINE pending == {h \in asked : ~AlreadyCovered(
                         cli[p].cfg.domains \union guest, NormalizeDomain(h))}
<1>2. PICK chosen \in SUBSET pending :
        \/ Change(p, [cli[p].cfg EXCEPT !.domains = @ \union
                        {NormalizeDomain(h) : h \in chosen}],
                  [Nothing EXCEPT !.hosts = chosen])
        \/ GiveUp(p)
  BY <1>1
<1> DEFINE cfg == cli[p].cfg
           c == [cfg EXCEPT !.domains = @ \union {NormalizeDomain(h) : h \in chosen}]
           a == [Nothing EXCEPT !.hosts = asked \ pending]
           w == [Nothing EXCEPT !.hosts = chosen]
<1>3. cfg \in Config
  BY DEF TypeOK, Process
<1>4. {NormalizeDomain(h) : h \in chosen} \subseteq Entry
  BY EntryType
<1>5. /\ c \in Config /\ c.mounts = cfg.mounts
      /\ c.domains = cfg.domains \union {NormalizeDomain(h) : h \in chosen}
  BY <1>3, <1>4 DEF Config
<1>6. /\ a \in Changed /\ a.mounts = {} /\ a.hosts = asked \ pending
      /\ w \in Changed /\ w.mounts = {} /\ w.hosts = chosen
  BY DEF Nothing, Changed
<1>7. Grows(cfg, c)
  BY <1>5 DEF Grows
<1>8. ASSUME NEW h \in asked \ pending, NEW below \in Host, Below(below, h)
      PROVE  Matched(cfg.domains \union BaseEntry, below)
  <2>1. h \in Host /\ AlreadyCovered(cfg.domains \union guest, NormalizeDomain(h))
    BY <1>8
  <2> HIDE DEF cfg
  <2> QED
    BY <1>3, <1>8, <2>1, CoveredIsMatched
<1>9. ASSUME NEW h \in chosen, NEW below \in Host, Below(below, h)
      PROVE  Matched(c.domains \union BaseEntry, below)
  <2>1. NormalizeDomain(h) \in c.domains
    BY <1>5
  <2> HIDE DEF c
  <2> QED
    BY <1>9, <2>1 DEF Matched, NormalizeDomain
<1>10. Reports(p, a) /\ (Change(p, c, w) \/ GiveUp(p))
  BY <1>1, <1>2
<1> HIDE DEF c, a, w, cfg, pending
<1>11. Keeps(cfg, a)
  BY <1>6, <1>8 DEF Keeps
<1>12. Keeps(c, w)
  BY <1>6, <1>9 DEF Keeps
<1>13. Outcome(p, a, c, w)
  BY <1>7, <1>10, <1>11, <1>12 DEF Outcome, cfg
<1> QED
  BY <1>5, <1>6, <1>13 DEF cfg

LEMMA NothingKept == \A c : Keeps(c, Nothing)
  BY DEF Keeps, Nothing

LEMMA MountKeeps ==
  ASSUME TypeOK, NEW p \in Proc, Mount(p)
  PROVE  \E a \in Changed, c \in Config, w \in Changed :
           Outcome(p, a, c, w) /\ (Guarded(c) \/ GiveUp(p))
<1>1. PICK m \in MountArg :
        LET c == [cli[p].cfg EXCEPT !.mounts = @ \union {m}]
            w == [Nothing EXCEPT !.mounts = {m}]
        IN  \/ GiveUp(p) /\ Reports(p, Nothing)
            \/ Covered(cli[p].cfg.mounts, m) /\ GiveUp(p) /\ Reports(p, w)
            \/ Guarded(c) /\ Change(p, c, w) /\ Reports(p, Nothing)
  BY DEF Mount
<1> DEFINE c == [cli[p].cfg EXCEPT !.mounts = @ \union {m}]
           w == [Nothing EXCEPT !.mounts = {m}]
<1>2. /\ c \in Config /\ c.mounts = cli[p].cfg.mounts \union {m}
      /\ c.domains = cli[p].cfg.domains
  BY DEF TypeOK, Process, Config, Shared
<1>3. w \in Changed /\ w.mounts = {m} /\ w.hosts = {}
  BY DEF Nothing, Changed
<1>4. \/ GiveUp(p) /\ Reports(p, Nothing)
      \/ Covered(cli[p].cfg.mounts, m) /\ GiveUp(p) /\ Reports(p, w)
      \/ Guarded(c) /\ Change(p, c, w) /\ Reports(p, Nothing)
  BY <1>1
<1> HIDE DEF c, w
<1>5. Grows(cli[p].cfg, c) /\ Keeps(c, w)
  BY <1>2, <1>3 DEF Grows, Keeps, Covered, Under
<1>6. Covered(cli[p].cfg.mounts, m) => Keeps(cli[p].cfg, w)
  BY <1>3 DEF Keeps
<1>7. CASE Covered(cli[p].cfg.mounts, m) /\ GiveUp(p) /\ Reports(p, w)
  <2>1. Outcome(p, w, c, w)
    BY <1>6, <1>7 DEF Outcome
  <2> QED
    BY <1>2, <1>3, <1>7, <2>1
<1>8. CASE /\ GiveUp(p) \/ (Guarded(c) /\ Change(p, c, w))
           /\ Reports(p, Nothing)
  <2>1. Outcome(p, Nothing, c, w)
    BY <1>5, <1>8, NothingKept DEF Outcome
  <2> QED
    BY <1>2, <1>3, <1>8, <2>1, DefaultType
<1> QED
  BY <1>4, <1>7, <1>8

LEMMA OutcomeType ==
  ASSUME TypeOK, NEW p \in Proc, NEW a \in Changed, NEW c \in Config, NEW w \in Changed,
         Outcome(p, a, c, w)
  PROVE  cli' \in [Proc -> Process] /\ promised' \in Changed /\ raced' \in BOOLEAN
<1>1. cli[p] \in Process /\ promised \in Changed /\ raced \in BOOLEAN
  BY DEF TypeOK
<1>2. promised' \in Changed /\ raced' \in BOOLEAN
  BY <1>1, PromiseType DEF Outcome, Reports
<1>3. CASE Change(p, c, w)
  <2>1. [cli[p] EXCEPT !.pc = "save", !.cfg = c, !.wants = w] \in Process
    BY <1>1 DEF Process
  <2>2. cli' = [cli EXCEPT ![p] =
                  [cli[p] EXCEPT !.pc = "save", !.cfg = c, !.wants = w]]
    BY <1>3 DEF Change, TypeOK
  <2> QED
    BY <1>2, <2>1, <2>2, OneProcess
<1>4. CASE GiveUp(p)
  BY <1>2, <1>4, DefaultType DEF GiveUp, TypeOK
<1> QED
  BY <1>3, <1>4 DEF Outcome

LEMMA StepType == ASSUME TypeOK, NEW p \in Proc, Step(p) PROVE TypeOK'
<1>0. cli[p] \in Process /\ cli[p].cfg \in Config
  BY DEF TypeOK, Process
<1>1. CASE Render(p)
  BY <1>0, <1>1, DefaultType DEF Render, TypeOK
<1>2. CASE Allow(p)
  <2>1. UNCHANGED <<file, rendered, commands, edits, faults>>
    BY <1>2 DEF Allow
  <2>2. cli' \in [Proc -> Process] /\ promised' \in Changed /\ raced' \in BOOLEAN
    BY <1>2, AllowKeeps, OutcomeType
  <2> QED
    BY <2>1, <2>2 DEF TypeOK
<1>3. CASE Mount(p)
  <2>1. UNCHANGED <<file, rendered, commands, edits, faults>>
    BY <1>3 DEF Mount
  <2>2. cli' \in [Proc -> Process] /\ promised' \in Changed /\ raced' \in BOOLEAN
    BY <1>3, MountKeeps, OutcomeType
  <2> QED
    BY <2>1, <2>2 DEF TypeOK
<1>4. CASE Truncate(p)
  <2>1. cli' \in [Proc -> Process]
    <3>1. [cli[p] EXCEPT !.pc = "write"] \in Process
      BY <1>0 DEF Process
    <3> QED
      BY <1>4, <3>1 DEF Truncate, TypeOK
  <2> QED
    BY <1>4, <2>1 DEF Truncate, TypeOK, Empty
<1>5. CASE Write(p)
  <2>1. cli' \in [Proc -> Process]
    <3>1. [cli[p] EXCEPT !.pc = "run"] \in Process
      BY <1>0 DEF Process, Command
    <3> QED
      BY <1>5, <3>1, DefaultType DEF Write, TypeOK
  <2>2. promised' \in Changed
    BY <1>0, <1>5, PromiseType DEF Write, TypeOK, Process
  <2> QED
    BY <1>0, <1>5, <2>1, <2>2 DEF Write, TypeOK
<1>6. CASE SaveFails(p)
  <2>1. faults' \in 0 .. MaxFaults
    BY <1>6, CountAssumption DEF SaveFails, TypeOK
  <2> QED
    BY <1>6, <2>1, DefaultType DEF SaveFails, GiveUp, TypeOK
<1> QED
  BY <1>1, <1>2, <1>3, <1>4, <1>5, <1>6 DEF Step

LEMMA TypeStep == TypeOK /\ [Next]_vars => TypeOK'
<1> SUFFICES ASSUME TypeOK, [Next]_vars PROVE TypeOK'
  OBVIOUS
<1>1. ASSUME NEW p \in Proc, Interrupt(p) PROVE TypeOK'
  <2>1. faults' \in 0 .. MaxFaults
    BY <1>1, CountAssumption DEF Interrupt, TypeOK
  <2> QED
    BY <1>1, <2>1, DefaultType DEF Interrupt, GiveUp, TypeOK
<1>2. CASE UNCHANGED vars
  BY <1>2 DEF vars, TypeOK
<1> QED
  BY <1>1, <1>2, EditType, BeginType, StepType DEF Next

-----------------------------------------------------------------------------
(* A config passes the guards when it is loaded, and again when `mount` has *)
(* changed it; whoever edits the file meanwhile, what is rendered passed.   *)
Acting(p) == cli[p].pc # "idle"

GuardInv ==
  /\ \A p \in Proc : Acting(p) => Guarded(cli[p].cfg)
  /\ \A c \in rendered : Guarded(c) /\ Validate(c)

HostInv == TypeOK /\ GuardInv

LEMMA GuardsAreOfMounts ==
  \A c, d : c.mounts = d.mounts /\ Guarded(c) => Guarded(d)
  BY DEF Guarded

LEMMA GuardStep == HostInv /\ [Next]_vars => GuardInv'
<1> SUFFICES ASSUME TypeOK, GuardInv, [Next]_vars PROVE GuardInv'
  BY DEF HostInv
<1> USE DEF Acting
<1>0. cli \in [Proc -> Process]
  BY DEF TypeOK
<1>1. CASE EditConfig
  BY <1>1 DEF EditConfig, GuardInv
<1>2. ASSUME NEW p \in Proc, NEW c \in Command, Begin(p, c) PROVE GuardInv'
  BY <1>0, <1>2 DEF Begin, GuardInv, Idle
<1>3. ASSUME NEW p \in Proc, GiveUp(p), UNCHANGED rendered PROVE GuardInv'
  BY <1>0, <1>3 DEF GiveUp, GuardInv, Idle
<1>4. ASSUME NEW p \in Proc, Render(p) PROVE GuardInv'
  BY <1>0, <1>4 DEF Render, GuardInv, Idle, At
<1>5. ASSUME NEW p \in Proc, Truncate(p) \/ Write(p) PROVE GuardInv'
  <2>1. Guarded(cli[p].cfg) /\ UNCHANGED rendered
    BY <1>5 DEF Truncate, Write, GuardInv, At
  <2>2. \A q \in Proc \ {p} : cli'[q] = cli[q]
    BY <1>0, <1>5 DEF Truncate, Write
  <2>3. cli'[p].pc # "idle" => cli'[p].cfg = cli[p].cfg
    BY <1>0, <1>5 DEF Truncate, Write, Idle, Process
  <2> QED
    BY <2>1, <2>2, <2>3 DEF GuardInv
<1>6. ASSUME NEW p \in Proc, NEW a, NEW c \in Config, NEW w \in Changed,
             Outcome(p, a, c, w), Guarded(c) \/ GiveUp(p), UNCHANGED rendered
      PROVE  GuardInv'
  <2>1. CASE GiveUp(p)
    BY <1>3, <1>6, <2>1
  <2>2. CASE Guarded(c) /\ Change(p, c, w)
    <3>1. \A q \in Proc \ {p} : cli'[q] = cli[q]
      BY <1>0, <2>2 DEF Change
    <3>2. cli'[p].cfg = c
      BY <1>0, <2>2 DEF Change, Process
    <3> QED
      BY <1>6, <2>2, <3>1, <3>2 DEF GuardInv
  <2> QED
    BY <1>6, <2>1, <2>2 DEF Outcome
<1>7. ASSUME NEW p \in Proc, Allow(p) PROVE GuardInv'
  <2>1. Guarded(cli[p].cfg) /\ UNCHANGED rendered
    BY <1>7 DEF Allow, At, GuardInv
  <2> QED
    BY <1>6, <1>7, <2>1, AllowKeeps, GuardsAreOfMounts
<1>8. ASSUME NEW p \in Proc, Mount(p) PROVE GuardInv'
  <2>1. UNCHANGED rendered
    BY <1>8 DEF Mount
  <2> QED
    BY <1>6, <1>8, <2>1, MountKeeps
<1>10. ASSUME NEW p \in Proc, Interrupt(p) \/ SaveFails(p) PROVE GuardInv'
  BY <1>3, <1>10 DEF Interrupt, SaveFails
<1>9. CASE UNCHANGED vars
  BY <1>9 DEF vars, GuardInv
<1> QED
  BY <1>1, <1>2, <1>4, <1>5, <1>7, <1>8, <1>9, <1>10 DEF Next, Step

LEMMA Invariance == Spec => []HostInv
<1>1. Init => HostInv
  BY TypeInit DEF Init, HostInv, GuardInv, Acting, Idle
<1>2. HostInv /\ [Next]_vars => HostInv'
  BY TypeStep, GuardStep DEF HostInv
<1> QED
  BY <1>1, <1>2, PTL DEF Spec

(* A mount that the guards pass leads neither to the config nor to, into or *)
(* from above the two directories, as far as the guards can see.            *)
LEMMA GuardedIsHidden ==
  ASSUME NEW c \in Config, Guarded(c) PROVE Hides(c)
<1>1. ASSUME NEW m \in c.mounts, ~Dangles(m)
      PROVE  Real(m) \in Canonical(c.mounts)
  <2>1. m \in Seq(Name)
    BY PathTypes DEF Config, Names
  <2>2. CanonicalizeExisting(m) = Real(m)
    BY <1>1, <2>1, CanonicalIsReal
  <2> QED
    BY <2>2 DEF Canonical
<1>2. ASSUME NEW m \in c.mounts, ExposesConfig(m), ~Unseen(m, ConfigArg) PROVE FALSE
  <2>1. /\ Real(m) \in Canonical(c.mounts) /\ Real(m) # <<>>
        /\ CanonicalizeExisting(Path) = Real(ConfigArg)
    BY <1>1, <1>2, OwnPaths DEF Unseen
  <2> QED
    BY <1>2, <2>1 DEF Guarded, MountsExclude, Covered, Under, ExposesConfig
<1>3. ASSUME NEW m \in c.mounts, NEW d \in {ProfilesDir, SSHDir},
             ExposesTree(m, d), ~Unseen(m, d)
      PROVE  FALSE
  <2>1. d \in Seq(Name) /\ ~Dangles(d)
    BY <1>3, OwnPaths DEF Unseen, Names
  <2>2. /\ Real(m) \in Canonical(c.mounts) /\ Real(m) # <<>> /\ Real(d) # <<>>
        /\ CanonicalizeExisting(d) = Real(d) /\ MountsExcludeTree(c.mounts, d)
    BY <1>1, <1>3, <2>1, CanonicalIsReal DEF Unseen, Guarded
  <2> QED
    BY <1>3, <2>2 DEF MountsExcludeTree, MountsExclude, Covered, Under, ExposesTree
<1> QED
  BY <1>2, <1>3 DEF Hides

-----------------------------------------------------------------------------
(* The file, the processes and the history keep their types.               *)
THEOREM TypeCorrect == Spec => []TypeOK
<1>1. HostInv => TypeOK
  BY DEF HostInv
<1> QED
  BY <1>1, Invariance, PTL

(* Whatever the user's editor and any number of commands do to the file     *)
(* between a command's load and its write or render, no shared directory    *)
(* really leads to the config, the profiles or the keys, by whatever links, *)
(* but for the root and for links that lead to nothing yet (loadConfig,     *)
(* newMountCmd, MountsExclude, MountsExcludeTree).                          *)
THEOREM NothingIsExposed == Spec => []NothingExposed
<1>1. ASSUME HostInv PROVE NothingExposed
  <2>1. ASSUME NEW p \in Proc, At(p, "save") \/ At(p, "write") PROVE Hides(cli[p].cfg)
    <3>1. cli[p].cfg \in Config /\ Guarded(cli[p].cfg)
      BY <1>1, <2>1 DEF HostInv, GuardInv, Acting, At, TypeOK, Process
    <3> QED
      BY <3>1, GuardedIsHidden
  <2>2. ASSUME NEW c \in rendered PROVE Hides(c)
    BY <1>1, <2>2, GuardedIsHidden DEF HostInv, GuardInv, TypeOK
  <2> QED
    BY <2>1, <2>2 DEF NothingExposed
<1> QED
  BY <1>1, Invariance, PTL

(* For integers of any width and any units, the sizes of a rendered config  *)
(* are the numbers the user wrote: swap fits the disk and the guest's       *)
(* signed arithmetic (parseSize, Validate).                                 *)
THEOREM SizesAreReal == Spec => []SizesFit
<1>1. ASSUME HostInv PROVE SizesFit
  <2> SUFFICES ASSUME NEW c \in rendered
               PROVE  LET swap == c.swap.n * c.swap.unit
                          disk == c.disk.n * c.disk.unit
                      IN  /\ swap < disk /\ swap <= MaxInt
                          /\ swap = 0 \/ swap >= MinSwap
    BY DEF SizesFit
  <2>1. Validate(c) /\ c.swap \in Size /\ c.disk \in Size
    BY <1>1 DEF HostInv, GuardInv, TypeOK, Config
  <2>2. /\ Bytes(c.swap) = c.swap.n * c.swap.unit
        /\ Bytes(c.disk) = c.disk.n * c.disk.unit
    BY <2>1, NoWrap DEF Validate
  <2> QED
    BY <2>1, <2>2 DEF Validate
<1> QED
  BY <1>1, Invariance, PTL

-----------------------------------------------------------------------------
(* What the commands report is in the file.                                *)

\* What a process that read f has loaded.
LoadOf(f) == IF f = Empty THEN Default ELSE CHOOSE c \in f : TRUE

\* A command works on the file it has seen, and what it is to write does what
\* it is about to report.
Working ==
  \A p \in Proc :
    /\ At(p, "allow") \/ At(p, "mount") => cli[p].cfg = LoadOf(cli[p].seen)
    /\ At(p, "save") \/ At(p, "write")
         => /\ Grows(LoadOf(cli[p].seen), cli[p].cfg)
            /\ Keeps(cli[p].cfg, cli[p].wants)

\* As long as nobody met another writer there is only one, and what it is to
\* write, or what the file holds when there is none, keeps every promise.
Promising ==
  ~raced =>
    /\ \A p, q \in Proc : At(p, "write") /\ At(q, "write") => p = q
    /\ \A p \in Proc : At(p, "write") => Keeps(cli[p].cfg, promised)
    /\ (~\E p \in Proc : At(p, "write")) => Keeps(Loaded, promised)

HostAll == HostInv /\ Working /\ Promising

(* Adding to a config takes nothing from it that was asked for.            *)
LEMMA Monotone ==
  ASSUME NEW c, NEW d, NEW w, Grows(c, d), Keeps(c, w) PROVE Keeps(d, w)
  BY DEF Grows, Keeps, Covered, Matched

LEMMA Together ==
  ASSUME NEW c, NEW w, Keeps(c, promised), Keeps(c, w) PROVE Keeps(c, Promise(w))
  BY DEF Keeps, Promise

LEMMA LoadedIs == Loaded = LoadOf(file)
  BY DEF Loaded, LoadOf

LEMMA OutcomeKept ==
  ASSUME HostAll, NEW p \in Proc, NEW a \in Changed, NEW c \in Config, NEW w \in Changed,
         Outcome(p, a, c, w), At(p, "allow") \/ At(p, "mount"), file' = file
  PROVE  Working' /\ Promising'
<1>0. /\ TypeOK /\ cli \in [Proc -> Process] /\ cli[p] \in Process
      /\ ~At(p, "write") /\ cli[p].cfg = LoadOf(cli[p].seen)
  BY DEF HostAll, HostInv, TypeOK, Working, At
<1>1. \A q \in Proc \ {p} : cli'[q] = cli[q]
  BY <1>0 DEF Outcome, Change, GiveUp
<1>2. Loaded' = Loaded
  BY DEF Loaded
<1>3. \A q \in Proc \ {p} : \A pc : At(q, pc)' <=> At(q, pc)
  BY <1>1 DEF At
<1>4. ASSUME Change(p, c, w), Grows(cli[p].cfg, c), Keeps(c, w)
      PROVE  Working' /\ ~At(p, "write")'
  <2>1. /\ cli'[p].pc = "save" /\ cli'[p].cfg = c /\ cli'[p].wants = w
        /\ cli'[p].seen = cli[p].seen
    BY <1>0, <1>4 DEF Change, Process
  <2>2. Grows(LoadOf(cli'[p].seen), cli'[p].cfg) /\ Keeps(cli'[p].cfg, cli'[p].wants)
    BY <1>0, <1>4, <2>1
  <2>3. ~(cli'[p].pc \in {"allow", "mount"})
    BY <2>1
  <2>4. Working'
    BY <1>1, <2>2, <2>3 DEF HostAll, Working, At
  <2> QED
    BY <2>1, <2>4 DEF At
<1>5. ASSUME GiveUp(p) PROVE Working' /\ ~At(p, "write")'
  <2>1. cli'[p].pc = "idle"
    BY <1>0, <1>5 DEF GiveUp, Idle
  <2> QED
    BY <1>1, <2>1 DEF HostAll, Working, At
<1>6. Working' /\ ~At(p, "write")'
  BY <1>4, <1>5 DEF Outcome
<1>7. Promising'
  <2> SUFFICES ASSUME ~raced' PROVE Promising'
    BY DEF Promising
  <2>1. /\ promised' = Promise(a) /\ ~raced /\ (a = Nothing \/ ~Stale(p))
        /\ Keeps(cli[p].cfg, a)
    BY DEF Outcome, Reports
  <2>2. ~At(p, "write")'
    BY <1>6
  <2>3. \A q \in Proc : At(q, "write")' <=> At(q, "write")
    BY <1>0, <1>3, <2>2
  <2>4. ASSUME NEW q \in Proc, At(q, "write")'
        PROVE  Keeps(cli'[q].cfg, promised')
    <3>1. q \in Proc \ {p} /\ At(q, "write") /\ cli'[q] = cli[q]
      BY <1>0, <1>1, <2>2, <2>3, <2>4
    <3>2. a = Nothing
      BY <2>1, <3>1 DEF Stale
    <3>3. Keeps(cli[q].cfg, promised) /\ Keeps(cli[q].cfg, a)
      BY <2>1, <3>1, <3>2, NothingKept DEF HostAll, Promising
    <3> QED
      BY <2>1, <3>1, <3>3, Together
  <2>5. ASSUME ~\E q \in Proc : At(q, "write")' PROVE Keeps(Loaded, promised')
    <3>1. Keeps(Loaded, promised)
      BY <2>1, <2>3, <2>5 DEF HostAll, Promising
    <3>2. Keeps(Loaded, a)
      <4>1. CASE a = Nothing
        BY <4>1, NothingKept
      <4>2. CASE ~Stale(p)
        <5>1. Loaded = cli[p].cfg
          BY <1>0, <4>2, LoadedIs DEF Stale
        <5> QED
          BY <2>1, <5>1
      <4> QED
        BY <2>1, <4>1, <4>2
    <3> QED
      BY <2>1, <3>1, <3>2, Together
  <2>6. \A q, o \in Proc : At(q, "write")' /\ At(o, "write")' => q = o
    BY <2>1, <2>3 DEF HostAll, Promising
  <2> QED
    BY <1>2, <2>4, <2>5, <2>6 DEF Promising
<1> QED
  BY <1>6, <1>7

(* A process begins, renders or dies before it has opened the file.        *)
LEMMA AsideKept ==
  ASSUME HostAll, NEW p \in Proc, ~At(p, "write"), file' = file, promised' = promised,
         raced' = raced, NEW n \in Process, cli' = [cli EXCEPT ![p] = n],
         n.pc \in {"idle", "run"} \/ (n.pc \in {"allow", "mount"} /\ n.cfg = LoadOf(n.seen))
  PROVE  Working' /\ Promising'
<1>1. cli'[p] = n /\ \A q \in Proc \ {p} : cli'[q] = cli[q]
  BY DEF HostAll, HostInv, TypeOK
<1>2. Loaded' = Loaded
  BY DEF Loaded
<1>3. Working'
  BY <1>1 DEF HostAll, Working, At
<1>4. \A q \in Proc : At(q, "write")' <=> At(q, "write")
  BY <1>1 DEF At
<1>5. \A q \in Proc : At(q, "write") => q # p /\ cli'[q] = cli[q]
  BY <1>1
<1>6. Promising'
  BY <1>2, <1>4, <1>5 DEF HostAll, Promising
<1> QED
  BY <1>3, <1>6

LEMMA TruncateKept ==
  ASSUME HostAll, NEW p \in Proc, Truncate(p) PROVE Working' /\ Promising'
<1>0. cli \in [Proc -> Process] /\ cli[p] \in Process
  BY DEF HostAll, HostInv, TypeOK
<1>1. /\ \A q \in Proc \ {p} : cli'[q] = cli[q]
      /\ cli'[p].pc = "write" /\ cli'[p].cfg = cli[p].cfg /\ cli'[p].seen = cli[p].seen
      /\ cli'[p].wants = cli[p].wants /\ promised' = promised
      /\ At(p, "save") /\ raced' = (raced \/ Stale(p))
  BY <1>0 DEF Truncate, Process
<1>2. Working'
  BY <1>1 DEF HostAll, Working, At
<1>3. Promising'
  <2> SUFFICES ASSUME ~raced' PROVE Promising'
    BY DEF Promising
  <2>1. ~raced /\ file = cli[p].seen /\ ~\E q \in Proc \ {p} : At(q, "write")
    BY <1>1 DEF Stale
  <2>2. ~At(p, "write")
    BY <1>1 DEF At
  <2>3. Keeps(LoadOf(cli[p].seen), promised)
    BY <2>1, <2>2, LoadedIs DEF HostAll, Promising
  <2>4. Keeps(cli[p].cfg, promised)
    BY <1>1, <2>3, Monotone DEF HostAll, Working
  <2>5. \A q \in Proc : At(q, "write")' <=> q = p
    BY <1>1, <2>1 DEF At
  <2> QED
    BY <1>1, <2>4, <2>5 DEF Promising
<1> QED
  BY <1>2, <1>3

LEMMA WriteKept ==
  ASSUME HostAll, NEW p \in Proc, Write(p) PROVE Working' /\ Promising'
<1>0. cli \in [Proc -> Process] /\ cli[p] \in Process
  BY DEF HostAll, HostInv, TypeOK
<1>1. /\ \A q \in Proc \ {p} : cli'[q] = cli[q]
      /\ At(p, "write") /\ file' = {cli[p].cfg} /\ promised' = Promise(cli[p].wants)
      /\ raced' = raced
  BY <1>0 DEF Write
<1>2. cli'[p].pc \in {"run", "idle"}
  BY <1>0 DEF Write, Process, Idle
<1>3. Working'
  BY <1>1, <1>2 DEF HostAll, Working, At
<1>4. Promising'
  <2> SUFFICES ASSUME ~raced PROVE Promising'
    BY <1>1 DEF Promising
  <2>1. /\ Keeps(cli[p].cfg, promised) /\ Keeps(cli[p].cfg, cli[p].wants)
        /\ \A q \in Proc : At(q, "write") => q = p
    BY <1>1 DEF HostAll, Promising, Working
  <2>2. Keeps(cli[p].cfg, promised')
    BY <1>1, <2>1, Together
  <2>3. ~\E q \in Proc : At(q, "write")'
    BY <1>1, <1>2, <2>1 DEF At
  <2>4. Loaded' = cli[p].cfg
    BY <1>1 DEF Loaded, Empty
  <2> QED
    BY <2>2, <2>3, <2>4 DEF Promising
<1> QED
  BY <1>3, <1>4

LEMMA PromiseStep == HostAll /\ [Next]_vars => Working' /\ Promising'
<1> SUFFICES ASSUME HostAll, [Next]_vars PROVE Working' /\ Promising'
  OBVIOUS
<1>0. TypeOK /\ cli \in [Proc -> Process]
  BY DEF HostAll, HostInv, TypeOK
<1>1. CASE EditConfig
  <2>1. cli' = cli /\ promised' = Nothing
    BY <1>1 DEF EditConfig
  <2>2. raced' = (raced \/ \E p \in Proc : At(p, "write"))
    BY <1>1 DEF EditConfig
  <2>3. Working'
    BY <2>1 DEF HostAll, Working, At
  <2>4. Promising'
    BY <2>1, <2>2, NothingKept DEF Promising, At
  <2> QED
    BY <2>3, <2>4
<1>2. ASSUME NEW p \in Proc, NEW c \in Command, Begin(p, c) PROVE Working' /\ Promising'
  <2>1. file' = file /\ promised' = promised /\ raced' = raced /\ ~At(p, "write")
    BY <1>2 DEF Begin, At
  <2>2. CASE Guarded(Loaded)
    <3> DEFINE n == [Idle EXCEPT !.pc = c, !.cmd = c, !.cfg = Loaded, !.seen = file]
    <3>1. n \in Process /\ n.pc = c /\ n.cfg = Loaded /\ n.seen = file
      BY <1>0, LoadedType, DefaultType DEF Idle, Process, TypeOK
    <3>2. cli' = [cli EXCEPT ![p] = n]
      BY <1>2, <2>2 DEF Begin
    <3> HIDE DEF n
    <3>3. n.pc \in {"idle", "run"} \/ (n.pc \in {"allow", "mount"} /\ n.cfg = LoadOf(n.seen))
      BY <3>1, LoadedIs DEF Command
    <3> QED
      BY <2>1, <3>1, <3>2, <3>3, AsideKept
  <2>3. CASE ~Guarded(Loaded)
    <3>1. cli' = cli /\ Loaded' = Loaded
      BY <1>2, <2>1, <2>3 DEF Begin, Loaded
    <3> QED
      BY <2>1, <3>1 DEF HostAll, Working, Promising, At
  <2> QED
    BY <2>2, <2>3
<1>3. ASSUME NEW p \in Proc, Interrupt(p) \/ SaveFails(p) PROVE Working' /\ Promising'
  <2>1. /\ cli' = [cli EXCEPT ![p] = Idle] /\ file' = file /\ promised' = promised
        /\ raced' = (raced \/ At(p, "write"))
    BY <1>3 DEF Interrupt, SaveFails, GiveUp
  <2>2. CASE At(p, "write")
    <3>1. raced' /\ cli'[p] = Idle /\ \A q \in Proc \ {p} : cli'[q] = cli[q]
      BY <1>0, <2>1, <2>2
    <3> QED
      BY <3>1 DEF HostAll, Working, Promising, At, Idle
  <2>3. CASE ~At(p, "write")
    <3>1. raced' = raced
      BY <1>0, <2>1, <2>3 DEF TypeOK
    <3> QED
      BY <2>1, <2>3, <3>1, DefaultType, AsideKept DEF Idle
  <2> QED
    BY <2>2, <2>3
<1>4. ASSUME NEW p \in Proc, Render(p) PROVE Working' /\ Promising'
  BY <1>4, DefaultType, AsideKept DEF Render, At, Idle
<1>5. ASSUME NEW p \in Proc, Allow(p) \/ Mount(p) PROVE Working' /\ Promising'
  <2>1. file' = file /\ (At(p, "allow") \/ At(p, "mount"))
    BY <1>5 DEF Allow, Mount
  <2> QED
    BY <1>0, <1>5, <2>1, AllowKeeps, MountKeeps, OutcomeKept
<1>6. CASE UNCHANGED vars
  BY <1>6 DEF vars, HostAll, Working, Promising, At, Loaded
<1> QED
  BY <1>1, <1>2, <1>3, <1>4, <1>5, <1>6, TruncateKept, WriteKept DEF Next, Step

(* However many commands and edits there are, what `allow` and `mount` have *)
(* reported since the last edit is in the file, unless one met another      *)
(* writer, died while writing or could not write.                           *)
THEOREM PromisesAreKept == Spec => []PromisesKept
<1>1. Init => HostAll
  <2> SUFFICES ASSUME Init PROVE HostAll
    OBVIOUS
  <2>1. HostInv
    BY TypeInit DEF Init, HostInv, GuardInv, Acting, Idle
  <2>2. Working /\ Promising
    BY NothingKept DEF Init, Working, Promising, At, Idle
  <2> QED
    BY <2>1, <2>2 DEF HostAll
<1>2. HostAll /\ [Next]_vars => HostAll'
  BY TypeStep, GuardStep, PromiseStep DEF HostAll, HostInv
<1>3. HostAll => PromisesKept
  BY DEF HostAll, Promising, PromisesKept, Keeps
<1> QED
  BY <1>1, <1>2, <1>3, PTL DEF Spec
=============================================================================
