---------------------------- MODULE VaultTreeProofs ----------------------------
(***************************************************************************)
(* Proofs about VaultTree: what a vault holds in its caches and which of   *)
(* its files are open stay true to the disk, for every tree of folders and *)
(* files, every set of names, threads and paths, through every create,     *)
(* remove, rename and replacement, refused removals and crashes, while     *)
(* other threads look up and list folders.  "Calm" names the meetings of   *)
(* the two that are left out: with each the code goes wrong.               *)
(*                                                                         *)
(* The disk of the proofs is a parameter d, so that what holds before and  *)
(* after a step is the same statement about two disks.  Paths are of any   *)
(* length: what is said of all of them goes by the shortest path for which *)
(* it fails (NoBadPath).                                                   *)
(***************************************************************************)
EXTENDS VaultTree, FiniteSetTheorems, SequenceTheorems, WellFoundedInduction, TLAPS

-------------------------------------------------------------------------------
(* Paths: induction along them, prefixes.                                  *)

StoredNames == [iv : Folders, name : Names]
StoredPaths == Seq(StoredNames)

\* A set of numbers that is not empty has a least one.
LEMMA LeastNumber ==
    ASSUME NEW T, T \subseteq Nat, T # {} PROVE \E m \in T : \A n \in T : m <= n
<1>1. IsWellFoundedOn(OpToRel(<, Nat), Nat)
  BY NatLessThanWellFounded
<1>2. PICK m \in T : \A n \in T : <<n, m>> \notin OpToRel(<, Nat)
  BY <1>1, WFMin
<1>3. \A n \in T : ~(n < m)
  BY <1>2 DEF OpToRel
<1> QED BY <1>3

\* Induction along paths: what fails for no path at its end fails for none.
LEMMA NoBadPath ==
    ASSUME NEW B, B \subseteq StoredPaths, <<>> \notin B,
           \A q \in StoredPaths, x \in StoredNames : Append(q, x) \in B => q \in B
    PROVE  B = {}
<1> SUFFICES ASSUME B # {} PROVE FALSE
  OBVIOUS
<1> DEFINE T == {Len(q) : q \in B}
<1>1. T \subseteq Nat /\ T # {}
  <2>1. \A q \in B : Len(q) \in Nat
    BY LenProperties DEF StoredPaths
  <2>2. PICK b \in B : TRUE
    OBVIOUS
  <2>3. Len(b) \in T
    OBVIOUS
  <2>4. T \subseteq Nat
    BY <2>1
  <2> HIDE DEF T
  <2> QED BY <2>3, <2>4
<1>2. PICK m \in T : \A n \in T : m <= n
  BY <1>1, LeastNumber
<1>3. PICK p \in B : Len(p) = m
  BY <1>2
<1>4. PICK q \in StoredPaths, x \in StoredNames : p = Append(q, x)
  BY <1>3, SequenceEmptyOrAppend DEF StoredPaths
<1>5. Len(p) = Len(q) + 1 /\ Len(q) \in Nat
  BY <1>4, AppendProperties, LenProperties DEF StoredPaths
<1>6. q \in B
  BY <1>4
<1>7. m <= Len(q)
  BY <1>2, <1>6
<1> QED BY <1>3, <1>5, <1>7

LEMMA AppendFacts ==
    ASSUME NEW q \in StoredPaths, NEW x \in StoredNames
    PROVE  /\ Append(q, x) \in StoredPaths /\ Append(q, x) # <<>>
           /\ Len(q) \in Nat /\ Len(Append(q, x)) = Len(q) + 1
           /\ Append(q, x)[Len(q) + 1] = x
           /\ Append(q, x)[Len(Append(q, x))] = x
           /\ \A i \in 1..Len(q) : Append(q, x)[i] = q[i]
           /\ Up(Append(q, x)) = q
<1>1. /\ Append(q, x) \in StoredPaths /\ Append(q, x) # <<>>
      /\ Len(q) \in Nat /\ Len(Append(q, x)) = Len(q) + 1
      /\ Append(q, x)[Len(q) + 1] = x
      /\ \A i \in 1..Len(q) : Append(q, x)[i] = q[i]
  BY AppendProperties, LenProperties DEF StoredPaths
<1> DEFINE a == Append(q, x)
           u == SubSeq(a, 1, Len(q))
<1>2. Len(a) - 1 = Len(q) /\ Up(a) = u
  BY <1>1 DEF Up
<1>3. \A i \in 1..Len(q) : a[i] \in StoredNames
  BY <1>1, ElementOfSeq DEF StoredPaths
<1>4. /\ u \in Seq(StoredNames) /\ Len(u) = Len(q)
      /\ \A i \in 1..Len(q) : u[i] = a[i]
  <2>1. /\ u \in Seq(StoredNames)
        /\ Len(u) = IF 1 <= Len(q) THEN Len(q) - 1 + 1 ELSE 0
        /\ \A i \in 1..(Len(q) - 1 + 1) : u[i] = a[1 + i - 1]
    <3>1. Len(q) \in Int /\ 1 \in Int
      BY <1>1
    <3> HIDE DEF a
    <3> QED BY <1>3, <3>1, SubSeqProperties
  <2> HIDE DEF u, a
  <2> QED BY <2>1, <1>1
<1>5. u = q
  <2> HIDE DEF u
  <2> QED BY <1>1, <1>4, SeqEqual DEF StoredPaths
<1> QED BY <1>1, <1>2, <1>5

LEMMA LastOfPath ==
    ASSUME NEW p \in StoredPaths, p # <<>>
    PROVE  /\ Up(p) \in StoredPaths /\ p[Len(p)] \in StoredNames
           /\ p = Append(Up(p), p[Len(p)])
<1>1. PICK q \in StoredPaths, x \in StoredNames : p = Append(q, x)
  BY SequenceEmptyOrAppend DEF StoredPaths
<1> QED BY <1>1, AppendFacts

LEMMA ConcatFacts ==
    ASSUME NEW s \in StoredPaths, NEW r \in StoredPaths
    PROVE  /\ s \o r \in StoredPaths
           /\ Len(s) \in Nat /\ Len(r) \in Nat /\ Len(s \o r) = Len(s) + Len(r)
           /\ \A i \in 1..Len(s) : (s \o r)[i] = s[i]
           /\ \A i \in 1..Len(r) : (s \o r)[Len(s) + i] = r[i]
           /\ s \o <<>> = s /\ <<>> \in StoredPaths
<1>1. /\ s \o r \in StoredPaths
      /\ Len(s) \in Nat /\ Len(r) \in Nat /\ Len(s \o r) = Len(s) + Len(r)
      /\ \A i \in 1 .. Len(s) + Len(r) : (s \o r)[i] = IF i <= Len(s) THEN s[i] ELSE r[i - Len(s)]
  BY ConcatProperties, LenProperties DEF StoredPaths
<1>2. s \o <<>> = s /\ <<>> \in StoredPaths
  BY ConcatEmptySeq, EmptySeq DEF StoredPaths
<1>3. \A i \in 1..Len(s) : (s \o r)[i] = s[i]
  BY <1>1
<1>4. \A i \in 1..Len(r) : (s \o r)[Len(s) + i] = r[i]
  <2> TAKE i \in 1..Len(r)
  <2>1. Len(s) + i \in 1..Len(s) + Len(r) /\ ~(Len(s) + i <= Len(s)) /\ Len(s) + i - Len(s) = i
    BY <1>1
  <2> QED BY <1>1, <2>1
<1> QED BY <1>1, <1>2, <1>3, <1>4

LEMMA ConcatAppend ==
    ASSUME NEW s \in StoredPaths, NEW r \in StoredPaths, NEW x \in StoredNames
    PROVE  s \o Append(r, x) = Append(s \o r, x)
<1>1. <<x>> \in StoredPaths
  BY DEF StoredPaths
<1>2. Append(r, x) = r \o <<x>> /\ Append(s \o r, x) = (s \o r) \o <<x>>
  BY AppendIsConcat, ConcatFacts DEF StoredPaths
<1>3. (s \o r) \o <<x>> = s \o (r \o <<x>>)
  BY <1>1, ConcatAssociative DEF StoredPaths
<1> QED BY <1>2, <1>3

LEMMA CancelPrefix ==
    ASSUME NEW s \in StoredPaths, NEW r \in StoredPaths, NEW q \in StoredPaths, s \o r = s \o q
    PROVE  r = q
<1>1. /\ Len(s) \in Nat /\ Len(r) \in Nat /\ Len(q) \in Nat
      /\ Len(s \o r) = Len(s) + Len(r) /\ Len(s \o q) = Len(s) + Len(q)
      /\ \A i \in 1..Len(r) : (s \o r)[Len(s) + i] = r[i]
      /\ \A i \in 1..Len(q) : (s \o q)[Len(s) + i] = q[i]
  BY ConcatFacts
<1>2. Len(r) = Len(q) /\ \A i \in 1..Len(r) : r[i] = q[i]
  BY <1>1
<1> QED BY <1>2, SeqEqual DEF StoredPaths

\* What starts with s is s and something behind it.
LEMMA PrefixIsConcat ==
    ASSUME NEW s \in StoredPaths, NEW q \in StoredPaths
    PROVE  /\ StartsWith(q, s) => \E r \in StoredPaths : q = s \o r
           /\ \A r \in StoredPaths : StartsWith(s \o r, s)
<1>1. ASSUME StartsWith(q, s) PROVE \E r \in StoredPaths : q = s \o r
  <2> DEFINE r == SubSeq(q, Len(s) + 1, Len(q))
  <2>1. Len(s) \in Nat /\ Len(q) \in Nat /\ Len(s) <= Len(q) /\ SubSeq(q, 1, Len(s)) = s
    BY <1>1, LenProperties DEF StartsWith, StoredPaths
  <2>2. SubSeq(q, 1, Len(s)) \o r = SubSeq(q, 1, Len(q))
    <3>1. 1 \in 1..Len(q) + 1 /\ Len(s) \in 1 - 1..Len(q) /\ Len(q) \in Len(s)..Len(q)
      BY <2>1
    <3> QED BY <3>1, ConcatAdjacentSubSeq DEF StoredPaths
  <2>3. SubSeq(q, 1, Len(q)) = q
    BY SubSeqFull DEF StoredPaths
  <2>4. r \in StoredPaths
    <3>1. \A i \in Len(s) + 1..Len(q) : q[i] \in StoredNames
      BY <2>1, ElementOfSeq DEF StoredPaths
    <3>2. Len(s) + 1 \in Int /\ Len(q) \in Int
      BY <2>1
    <3> QED BY <3>1, <3>2, SubSeqProperties DEF StoredPaths
  <2> QED BY <2>1, <2>2, <2>3, <2>4
<1>2. ASSUME NEW r \in StoredPaths PROVE StartsWith(s \o r, s)
  <2> DEFINE c == s \o r
             u == SubSeq(c, 1, Len(s))
  <2>1. /\ c \in StoredPaths /\ Len(s) \in Nat /\ Len(r) \in Nat /\ Len(c) = Len(s) + Len(r)
        /\ \A i \in 1..Len(s) : c[i] = s[i]
    BY ConcatFacts
  <2>2. \A i \in 1..Len(s) : c[i] \in StoredNames
    BY <2>1, ElementOfSeq DEF StoredPaths
  <2>3. /\ u \in Seq(StoredNames)
        /\ Len(u) = IF 1 <= Len(s) THEN Len(s) - 1 + 1 ELSE 0
        /\ \A i \in 1..(Len(s) - 1 + 1) : u[i] = c[1 + i - 1]
    <3>1. Len(s) \in Int /\ 1 \in Int
      BY <2>1
    <3> HIDE DEF c
    <3> QED BY <2>2, <3>1, SubSeqProperties
  <2>4. u = s
    <3> HIDE DEF u, c
    <3>1. Len(u) = Len(s) /\ \A i \in 1..Len(s) : u[i] = s[i]
      BY <2>1, <2>3
    <3> QED BY <2>3, <3>1, SeqEqual DEF StoredPaths
  <2>5. Len(s) <= Len(c)
    <3> HIDE DEF c
    <3> QED BY <2>1
  <2> QED BY <2>4, <2>5 DEF StartsWith
<1> QED BY <1>1, <1>2

LEMMA PrefixAppend ==
    ASSUME NEW s \in StoredPaths, NEW q \in StoredPaths, NEW x \in StoredNames
    PROVE  StartsWith(Append(q, x), s) <=> StartsWith(q, s) \/ Append(q, x) = s
<1>1. ASSUME StartsWith(Append(q, x), s) PROVE StartsWith(q, s) \/ Append(q, x) = s
  <2>1. PICK r \in StoredPaths : Append(q, x) = s \o r
    BY <1>1, PrefixIsConcat, AppendFacts
  <2>2. CASE r = <<>>
    BY <2>1, <2>2, ConcatFacts
  <2>3. CASE r # <<>>
    <3>1. PICK w \in StoredPaths, y \in StoredNames : r = Append(w, y)
      BY <2>3, LastOfPath
    <3>2. Append(q, x) = Append(s \o w, y) /\ s \o w \in StoredPaths
      <4>1. s \o w \in StoredPaths
        BY <3>1, ConcatFacts
      <4>2. s \o Append(w, y) = Append(s \o w, y)
        BY <3>1, ConcatAppend
      <4> QED BY <2>1, <3>1, <4>1, <4>2
    <3>3. q = s \o w
      <4>1. \A u, v \in StoredPaths : Append(u, x) = Append(v, y) => u = v
        BY AppendInjective DEF StoredPaths
      <4> QED BY <3>2, <4>1
    <3> QED BY <3>3, PrefixIsConcat
  <2> QED BY <2>2, <2>3
<1>2. ASSUME StartsWith(q, s) PROVE StartsWith(Append(q, x), s)
  <2>1. PICK r \in StoredPaths : q = s \o r
    BY <1>2, PrefixIsConcat
  <2>2. Append(q, x) = s \o Append(r, x) /\ Append(r, x) \in StoredPaths
    BY <2>1, ConcatAppend, AppendFacts
  <2> QED BY <2>2, PrefixIsConcat, AppendFacts
<1>3. ASSUME Append(q, x) = s PROVE StartsWith(Append(q, x), s)
  <2>1. s = s \o <<>> /\ <<>> \in StoredPaths
    BY ConcatFacts
  <2>2. StartsWith(s \o <<>>, s)
    BY <2>1, PrefixIsConcat
  <2> QED BY <1>3, <2>1, <2>2
<1> QED BY <1>1, <1>2, <1>3

LEMMA RebaseFacts ==
    ASSUME NEW s \in StoredPaths, NEW t \in StoredPaths
    PROVE  /\ \A r \in StoredPaths : Rebase(s \o r, s, t) = t \o r
           /\ \A q \in StoredPaths : ~StartsWith(q, s) => Rebase(q, s, t) = q
           /\ \A q \in StoredPaths : Rebase(q, s, t) \in StoredPaths
           /\ \A q, p \in StoredPaths : StartsWith(q, s) /\ StartsWith(p, s)
                  /\ Rebase(q, s, t) = Rebase(p, s, t) => q = p
<1>1. ASSUME NEW r \in StoredPaths PROVE Rebase(s \o r, s, t) = t \o r
  <2> DEFINE c == s \o r
             u == SubSeq(c, Len(s) + 1, Len(c))
  <2>1. /\ c \in StoredPaths /\ Len(s) \in Nat /\ Len(r) \in Nat /\ Len(c) = Len(s) + Len(r)
        /\ \A i \in 1..Len(r) : c[Len(s) + i] = r[i]
    BY ConcatFacts
  <2>2. \A i \in Len(s) + 1..Len(c) : c[i] \in StoredNames
    <3> HIDE DEF c
    <3> QED BY <2>1, ElementOfSeq DEF StoredPaths
  <2>3. /\ u \in Seq(StoredNames)
        /\ Len(u) = IF Len(s) + 1 <= Len(c) THEN Len(c) - (Len(s) + 1) + 1 ELSE 0
        /\ \A i \in 1..(Len(c) - (Len(s) + 1) + 1) : u[i] = c[Len(s) + 1 + i - 1]
    <3> HIDE DEF c
    <3>1. Len(s) + 1 \in Int /\ Len(c) \in Int
      BY <2>1
    <3> QED BY <2>2, <3>1, SubSeqProperties
  <2>4. u = r
    <3> HIDE DEF u, c
    <3>1. Len(u) = Len(r)
      BY <2>1, <2>3
    <3>2. \A i \in 1..Len(r) : u[i] = r[i]
      <4> TAKE i \in 1..Len(r)
      <4>1. i \in 1..(Len(c) - (Len(s) + 1) + 1) /\ Len(s) + 1 + i - 1 = Len(s) + i
        BY <2>1
      <4> QED BY <2>1, <2>3, <4>1
    <3> QED BY <2>3, <3>1, <3>2, SeqEqual DEF StoredPaths
  <2>5. StartsWith(c, s)
    BY PrefixIsConcat
  <2> QED BY <2>4, <2>5 DEF Rebase
<1>2. ASSUME NEW q \in StoredPaths, ~StartsWith(q, s) PROVE Rebase(q, s, t) = q
  BY <1>2 DEF Rebase
<1>3. ASSUME NEW q \in StoredPaths PROVE Rebase(q, s, t) \in StoredPaths
  <2>1. CASE StartsWith(q, s)
    <3>1. PICK r \in StoredPaths : q = s \o r
      BY <2>1, PrefixIsConcat
    <3>2. Rebase(q, s, t) = t \o r
      BY <3>1, <1>1
    <3> QED BY <3>2, ConcatFacts
  <2>2. CASE ~StartsWith(q, s)
    BY <2>2, <1>2
  <2> QED BY <2>1, <2>2
<1>4. ASSUME NEW q \in StoredPaths, NEW p \in StoredPaths, StartsWith(q, s), StartsWith(p, s),
             Rebase(q, s, t) = Rebase(p, s, t)
      PROVE  q = p
  <2>1. PICK r \in StoredPaths : q = s \o r
    BY <1>4, PrefixIsConcat
  <2>2. PICK w \in StoredPaths : p = s \o w
    BY <1>4, PrefixIsConcat
  <2>3. t \o r = t \o w
    BY <1>4, <2>1, <2>2, <1>1
  <2>4. r = w
    BY <2>3, CancelPrefix
  <2> QED BY <2>1, <2>2, <2>4
<1> QED BY <1>1, <1>2, <1>3, <1>4

-------------------------------------------------------------------------------
(* What is at a path of a disk.                                            *)

\* Child and NodeAt of any disk.
ChildIn(d, folder, stored) ==
    LET here == {n \in DOMAIN d : d[n].in = folder /\ d[n].iv = stored.iv
                                                   /\ d[n].name = stored.name}
    IN  IF here = {} THEN None ELSE CHOOSE n \in here : TRUE

NodeIn(d, path) ==
    LET walk[k \in 0..Len(path)] ==
            IF k = 0 THEN Root ELSE ChildIn(d, walk[k - 1], path[k])
    IN  walk[Len(path)]

LEMMA NodeAtIsNodeIn ==
    \A path : NodeAt(path) = NodeIn(disk, path) /\ NodeAt(path)' = NodeIn(disk', path)
BY DEF NodeAt, NodeIn, Child, ChildIn

IsWalk(d, path, n, f) ==
    f = [k \in 0..n |-> IF k = 0 THEN Root ELSE ChildIn(d, f[k - 1], path[k])]

LEMMA WalkExists ==
    ASSUME NEW d, NEW path, NEW n \in Nat PROVE \E f : IsWalk(d, path, n, f)
<1> DEFINE T == {m \in Nat : ~\E f : IsWalk(d, path, m, f)}
<1> SUFFICES ASSUME T # {} PROVE FALSE
  OBVIOUS
<1>1. PICK m \in T : \A i \in T : m <= i
  <2>1. T \subseteq Nat
    OBVIOUS
  <2> HIDE DEF T
  <2> QED BY <2>1, LeastNumber
<1>2. CASE m = 0
  <2> DEFINE f == [k \in 0..0 |-> Root]
  <2>1. f = [k \in 0..0 |-> IF k = 0 THEN Root ELSE ChildIn(d, f[k - 1], path[k])]
    OBVIOUS
  <2>2. IsWalk(d, path, 0, f)
    BY <2>1 DEF IsWalk
  <2>3. \E g : IsWalk(d, path, 0, g)
    BY <2>2
  <2> QED BY <1>1, <1>2, <2>3
<1>3. CASE m # 0
  <2>1. m \in Nat /\ m - 1 \in Nat /\ m - 1 \notin T
    BY <1>1, <1>3
  <2>2. PICK f : IsWalk(d, path, m - 1, f)
    BY <2>1
  <2> DEFINE g == [k \in 0..m |-> IF k = m THEN ChildIn(d, f[m - 1], path[m]) ELSE f[k]]
  <2>3. ASSUME NEW k \in 0..m
        PROVE  g[k] = IF k = 0 THEN Root ELSE ChildIn(d, g[k - 1], path[k])
    <3>1. CASE k = m
      <4>1. m - 1 \in 0..m /\ m - 1 # m
        BY <2>1
      <4>2. g[k - 1] = f[m - 1]
        BY <3>1, <4>1
      <4> QED BY <1>3, <3>1, <4>2
    <3>2. CASE k # m
      <4>1. k \in 0..(m - 1) /\ (k # 0 => k - 1 \in 0..m /\ k - 1 # m)
        BY <2>1, <3>2
      <4>2. f[k] = IF k = 0 THEN Root ELSE ChildIn(d, f[k - 1], path[k])
        BY <2>2, <4>1 DEF IsWalk
      <4>3. g[k] = f[k] /\ (k # 0 => g[k - 1] = f[k - 1])
        BY <3>2, <4>1
      <4> QED BY <4>2, <4>3
    <3> QED BY <3>1, <3>2
  <2>4. g = [k \in 0..m |-> IF k = 0 THEN Root ELSE ChildIn(d, g[k - 1], path[k])]
    <3>1. g = [k \in 0..m |-> g[k]]
      OBVIOUS
    <3> HIDE DEF g
    <3> QED BY <2>3, <3>1
  <2>5. \E h : IsWalk(d, path, m, h)
    BY <2>4 DEF IsWalk
  <2> QED BY <1>1, <2>5
<1> QED BY <1>2, <1>3

\* Two walks along the same names come to the same.
LEMMA WalkUnique ==
    ASSUME NEW d, NEW p, NEW q, NEW n \in Nat, NEW m \in Nat, n <= m, NEW f, NEW g,
           IsWalk(d, p, n, f), IsWalk(d, q, m, g), \A i \in 1..n : p[i] = q[i]
    PROVE  f[n] = g[n]
<1> DEFINE T == {i \in 0..n : f[i] # g[i]}
<1>1. ASSUME T # {} PROVE FALSE
  <2>1. T \subseteq Nat
    OBVIOUS
  <2>2. PICK j \in T : \A i \in T : j <= i
    <3> HIDE DEF T
    <3> QED BY <1>1, <2>1, LeastNumber
  <2>3. j \in 0..n /\ j \in 0..m /\ f[j] # g[j]
    BY <2>2
  <2>4. f[j] = IF j = 0 THEN Root ELSE ChildIn(d, f[j - 1], p[j])
    BY <2>3 DEF IsWalk
  <2>5. g[j] = IF j = 0 THEN Root ELSE ChildIn(d, g[j - 1], q[j])
    BY <2>3 DEF IsWalk
  <2>6. j # 0
    BY <2>3, <2>4, <2>5
  <2>7. j - 1 \in 0..n /\ j \in 1..n /\ ~(j <= j - 1)
    BY <2>3, <2>6
  <2>8. f[j - 1] = g[j - 1]
    BY <2>2, <2>7
  <2> QED BY <2>3, <2>4, <2>5, <2>7, <2>8
<1>2. n \in 0..n
  OBVIOUS
<1> QED BY <1>1, <1>2

LEMMA NodeInIsWalk ==
    ASSUME NEW d, NEW path, Len(path) \in Nat
    PROVE  \E f : IsWalk(d, path, Len(path), f) /\ NodeIn(d, path) = f[Len(path)]
<1> DEFINE w == CHOOSE f : f = [k \in 0..Len(path) |->
                                   IF k = 0 THEN Root ELSE ChildIn(d, f[k - 1], path[k])]
<1>1. \E f : f = [k \in 0..Len(path) |-> IF k = 0 THEN Root ELSE ChildIn(d, f[k - 1], path[k])]
  <2>1. PICK f : IsWalk(d, path, Len(path), f)
    BY WalkExists
  <2> QED BY <2>1 DEF IsWalk
<1>2. w = [k \in 0..Len(path) |-> IF k = 0 THEN Root ELSE ChildIn(d, w[k - 1], path[k])]
  BY <1>1
<1>3. NodeIn(d, path) = w[Len(path)]
  BY DEF NodeIn
<1> HIDE DEF w
<1> QED BY <1>2, <1>3 DEF IsWalk

LEMMA NodeOfNoPath == \A d : NodeIn(d, <<>>) = Root
<1> TAKE d
<1>1. Len(<<>>) = 0
  OBVIOUS
<1>2. PICK f : IsWalk(d, <<>>, 0, f) /\ NodeIn(d, <<>>) = f[0]
  BY <1>1, NodeInIsWalk
<1>3. 0 \in 0..0
  OBVIOUS
<1> QED BY <1>2, <1>3 DEF IsWalk

LEMMA NodeOfAppend ==
    ASSUME NEW d, NEW q \in StoredPaths, NEW x \in StoredNames
    PROVE  NodeIn(d, Append(q, x)) = ChildIn(d, NodeIn(d, q), x)
<1> DEFINE p == Append(q, x)
           n == Len(q)
<1>1. n \in Nat /\ Len(p) = n + 1 /\ p[n + 1] = x /\ \A i \in 1..n : q[i] = p[i]
  BY AppendFacts
<1> HIDE DEF p, n
<1>2. PICK f : IsWalk(d, q, n, f) /\ NodeIn(d, q) = f[n]
  BY <1>1, NodeInIsWalk DEF n
<1>3. PICK g : IsWalk(d, p, n + 1, g) /\ NodeIn(d, p) = g[n + 1]
  BY <1>1, NodeInIsWalk
<1>4. f[n] = g[n]
  <2>1. n + 1 \in Nat /\ n <= n + 1
    BY <1>1
  <2> QED BY <1>1, <1>2, <1>3, <2>1, WalkUnique
<1>5. g[n + 1] = ChildIn(d, g[n], p[n + 1])
  <2>1. n + 1 \in 0..(n + 1) /\ n + 1 # 0 /\ n + 1 - 1 = n
    BY <1>1
  <2>2. \A k \in 0..(n + 1) : g[k] = IF k = 0 THEN Root ELSE ChildIn(d, g[k - 1], p[k])
    BY <1>3 DEF IsWalk
  <2>3. PICK k \in 0..(n + 1) : k = n + 1
    BY <2>1
  <2>4. k - 1 = n /\ k # 0
    BY <1>1, <2>3
  <2>5. g[k] = ChildIn(d, g[k - 1], p[k])
    BY <2>2, <2>4
  <2> QED BY <2>3, <2>4, <2>5
<1> QED BY <1>1, <1>2, <1>3, <1>4, <1>5 DEF p

-------------------------------------------------------------------------------
(* The same in a vault: a name leads to one thing.                         *)

LEMMA VaultFacts ==
    ASSUME NEW d, IsVault(d)
    PROVE  /\ None \notin DOMAIN d /\ Root \notin DOMAIN d /\ None # Root
           /\ DOMAIN d \subseteq Folders \cup Files
           /\ \A n \in DOMAIN d : /\ d[n] \in [in : Folders, iv : Folders, name : Names]
                                  /\ d[n].in \in Folders /\ d[n].iv \in Folders /\ d[n].name \in Names
                                  /\ d[n].in \in DOMAIN d \cup {Root} /\ d[n].iv = d[n].in
                                  /\ d[n].in # None
BY TreeAssumption DEF IsVault

LEMMA ChildFacts ==
    ASSUME NEW d, IsVault(d), NEW folder, NEW x \in StoredNames
    PROVE  /\ ChildIn(d, folder, x) \in DOMAIN d \cup {None}
           /\ \A n \in DOMAIN d : ChildIn(d, folder, x) = n <=>
                  d[n].in = folder /\ d[n].iv = x.iv /\ d[n].name = x.name
<1> DEFINE here == {n \in DOMAIN d : d[n].in = folder /\ d[n].iv = x.iv /\ d[n].name = x.name}
<1>1. ChildIn(d, folder, x) = IF here = {} THEN None ELSE CHOOSE n \in here : TRUE
  BY DEF ChildIn
<1>2. here # {} => ChildIn(d, folder, x) \in here
  BY <1>1
<1>3. \A n, m \in here : n = m
  BY DEF IsVault
<1>4. here = {} => ChildIn(d, folder, x) = None
  BY <1>1
<1> QED BY <1>2, <1>3, <1>4, VaultFacts

LEMMA NodeFacts ==
    ASSUME NEW d, IsVault(d)
    PROVE  /\ NodeIn(d, <<>>) = Root
           /\ \A q \in StoredPaths : NodeIn(d, q) \in DOMAIN d \cup {Root, None}
           /\ \A q \in StoredPaths, x \in StoredNames :
                  /\ NodeIn(d, Append(q, x)) \in DOMAIN d \cup {None}
                  /\ \A n \in DOMAIN d : NodeIn(d, Append(q, x)) = n <=>
                         d[n].in = NodeIn(d, q) /\ d[n].iv = x.iv /\ d[n].name = x.name
<1>1. NodeIn(d, <<>>) = Root
  BY NodeOfNoPath
<1>2. \A q \in StoredPaths, x \in StoredNames :
          /\ NodeIn(d, Append(q, x)) \in DOMAIN d \cup {None}
          /\ \A n \in DOMAIN d : NodeIn(d, Append(q, x)) = n <=>
                 d[n].in = NodeIn(d, q) /\ d[n].iv = x.iv /\ d[n].name = x.name
  <2> TAKE q \in StoredPaths, x \in StoredNames
  <2>1. NodeIn(d, Append(q, x)) = ChildIn(d, NodeIn(d, q), x)
    BY NodeOfAppend
  <2> QED BY <2>1, ChildFacts
<1>3. ASSUME NEW q \in StoredPaths PROVE NodeIn(d, q) \in DOMAIN d \cup {Root, None}
  <2>1. CASE q = <<>>
    BY <1>1, <2>1
  <2>2. CASE q # <<>>
    <3>1. PICK r \in StoredPaths, x \in StoredNames : q = Append(r, x)
      BY <2>2, LastOfPath
    <3> QED BY <1>2, <3>1
  <2> QED BY <2>1, <2>2
<1> QED BY <1>1, <1>2, <1>3

\* Only one path leads to a thing.
LEMMA OnePath ==
    ASSUME NEW d, IsVault(d), NEW p \in StoredPaths, NEW q \in StoredPaths,
           NodeIn(d, p) = NodeIn(d, q), NodeIn(d, p) # None
    PROVE  p = q
<1> DEFINE B == {r \in StoredPaths : NodeIn(d, r) # None /\
                     \E s \in StoredPaths : NodeIn(d, s) = NodeIn(d, r) /\ s # r}
<1>1. <<>> \notin B
  <2>1. ASSUME NEW s \in StoredPaths, s # <<>> PROVE NodeIn(d, s) # Root
    <3>1. PICK r \in StoredPaths, x \in StoredNames : s = Append(r, x)
      BY <2>1, LastOfPath
    <3> QED BY <3>1, NodeFacts, VaultFacts
  <2> QED BY <2>1, NodeFacts
<1>2. ASSUME NEW r \in StoredPaths, NEW x \in StoredNames, Append(r, x) \in B PROVE r \in B
  <2>1. PICK s \in StoredPaths : NodeIn(d, s) = NodeIn(d, Append(r, x)) /\ s # Append(r, x)
    BY <1>2
  <2>2. NodeIn(d, Append(r, x)) \in DOMAIN d
    BY <1>2, NodeFacts
  <2>3. s # <<>>
    BY <2>1, <2>2, NodeFacts, VaultFacts
  <2>4. PICK w \in StoredPaths, y \in StoredNames : s = Append(w, y)
    BY <2>3, LastOfPath
  <2> DEFINE n == NodeIn(d, Append(r, x))
  <2>5. d[n].in = NodeIn(d, r) /\ d[n].iv = x.iv /\ d[n].name = x.name
    BY <2>2, NodeFacts
  <2>6. d[n].in = NodeIn(d, w) /\ d[n].iv = y.iv /\ d[n].name = y.name
    BY <2>1, <2>2, <2>4, NodeFacts
  <2>7. x = y
    <3>1. x.iv = y.iv /\ x.name = y.name
      BY <2>5, <2>6
    <3> QED BY <3>1 DEF StoredNames
  <2>8. w # r
    BY <2>1, <2>4, <2>7
  <2>9. NodeIn(d, r) # None
    BY <2>2, <2>5, VaultFacts
  <2> HIDE DEF n
  <2> QED BY <2>5, <2>6, <2>8, <2>9
<1>3. B = {}
  <2>1. B \subseteq StoredPaths
    OBVIOUS
  <2> HIDE DEF B
  <2> QED BY <1>1, <1>2, <2>1, NoBadPath
<1> QED BY <1>3

\* Below nothing, and below what has nothing in it, there is nothing.
LEMMA NothingBelow ==
    ASSUME NEW d, IsVault(d), NEW s \in StoredPaths, NEW q \in StoredPaths,
           StartsWith(q, s), q # s,
           \A n \in DOMAIN d : d[n].in # NodeIn(d, s)
    PROVE  NodeIn(d, q) = None
<1> DEFINE B == {r \in StoredPaths : r # <<>> /\ NodeIn(d, s \o r) # None}
<1>1. ASSUME NEW r \in StoredPaths, NEW x \in StoredNames, Append(r, x) \in B PROVE r \in B
  <2>1. s \o Append(r, x) = Append(s \o r, x) /\ s \o r \in StoredPaths
    <3>1. s \o r \in StoredPaths
      BY ConcatFacts
    <3>2. s \o Append(r, x) = Append(s \o r, x)
      BY ConcatAppend
    <3> QED BY <3>1, <3>2
  <2> DEFINE n == NodeIn(d, Append(s \o r, x))
  <2>2. n \in DOMAIN d /\ d[n].in = NodeIn(d, s \o r)
    <3>1. n # None
      BY <1>1, <2>1
    <3>2. \A e \in StoredPaths : /\ NodeIn(d, Append(e, x)) \in DOMAIN d \cup {None}
                                 /\ \A m \in DOMAIN d : NodeIn(d, Append(e, x)) = m => d[m].in = NodeIn(d, e)
      BY NodeFacts
    <3> QED BY <2>1, <3>1, <3>2
  <2> HIDE DEF n
  <2>3. r # <<>>
    BY <2>2, ConcatFacts
  <2>4. NodeIn(d, s \o r) # None
    BY <2>2, VaultFacts
  <2> QED BY <2>3, <2>4
<1>2. B = {}
  <2>1. B \subseteq StoredPaths /\ <<>> \notin B
    OBVIOUS
  <2> HIDE DEF B
  <2> QED BY <1>1, <2>1, NoBadPath
<1>3. PICK r \in StoredPaths : q = s \o r
  BY PrefixIsConcat
<1>4. r # <<>>
  BY <1>3, ConcatFacts
<1> QED BY <1>2, <1>3, <1>4

LEMMA NothingBelowNothing ==
    ASSUME NEW d, IsVault(d), NEW s \in StoredPaths, NEW q \in StoredPaths,
           StartsWith(q, s), NodeIn(d, s) = None
    PROVE  NodeIn(d, q) = None
BY NothingBelow, VaultFacts

\* A path to a thing leads through folders.
LEMMA FoldersAbove ==
    ASSUME NEW d, IsVault(d), NEW q \in StoredPaths, NEW x \in StoredNames,
           NodeIn(d, Append(q, x)) # None
    PROVE  NodeIn(d, q) \in Folders /\ x.iv = NodeIn(d, q)
<1>1. NodeIn(d, Append(q, x)) \in DOMAIN d
  BY NodeFacts
<1> QED BY <1>1, NodeFacts, VaultFacts

-------------------------------------------------------------------------------
(* The disk after a thing was made, removed or moved.                      *)

Childless(d, n) == \A m \in DOMAIN d : d[m].in # n

Put(d, f, x) == [in |-> NodeIn(d, f), iv |-> x.iv, name |-> x.name]

\* In the folder at f is place for the stored name x, beside what is in "but".
Fits(d, f, x, but) ==
    /\ NodeIn(d, f) \in Folders /\ x.iv = NodeIn(d, f)
    /\ \A m \in DOMAIN d \ but : d[m].in = NodeIn(d, f) => Fold(d[m].name) # Fold(x.name)

LEMMA PutFacts ==
    ASSUME NEW d, IsVault(d), NEW f \in StoredPaths, NEW x \in StoredNames, NEW but,
           Fits(d, f, x, but)
    PROVE  /\ Put(d, f, x) \in [in : Folders, iv : Folders, name : Names]
           /\ Put(d, f, x).in = NodeIn(d, f) /\ Put(d, f, x).iv = NodeIn(d, f)
           /\ Put(d, f, x).iv = x.iv /\ Put(d, f, x).name = x.name
           /\ NodeIn(d, f) \in DOMAIN d \cup {Root} /\ NodeIn(d, f) # None
<1>1. NodeIn(d, f) \in Folders /\ x.iv = NodeIn(d, f) /\ x.name \in Names
  BY DEF Fits, StoredNames
<1>2. NodeIn(d, f) # None
  BY <1>1, TreeAssumption
<1> QED BY <1>1, <1>2, NodeFacts DEF Put

\* m is called y in the folder at q.
Named(d, q, y, m) ==
    m \in DOMAIN d /\ d[m].in = NodeIn(d, q) /\ d[m].iv = y.iv /\ d[m].name = y.name

LEMMA NamedFacts ==
    ASSUME NEW d, IsVault(d), NEW q \in StoredPaths, NEW y \in StoredNames
    PROVE  /\ NodeIn(d, Append(q, y)) \in DOMAIN d \cup {None} /\ None \notin DOMAIN d
           /\ \A m : Named(d, q, y, m) <=> m \in DOMAIN d /\ NodeIn(d, Append(q, y)) = m
BY NodeFacts, VaultFacts DEF Named

\* Two disks that agree on what is called y in the folders at q and p show the
\* same one name further.
LEMMA SameBelow ==
    ASSUME NEW d, IsVault(d), NEW e, IsVault(e), NEW q \in StoredPaths, NEW p \in StoredPaths,
           NEW y \in StoredNames, \A m : Named(d, q, y, m) <=> Named(e, p, y, m)
    PROVE  NodeIn(d, Append(q, y)) = NodeIn(e, Append(p, y))
<1>1. /\ NodeIn(d, Append(q, y)) \in DOMAIN d \cup {None} /\ None \notin DOMAIN d
      /\ \A m : Named(d, q, y, m) <=> m \in DOMAIN d /\ NodeIn(d, Append(q, y)) = m
  BY NamedFacts
<1>2. /\ NodeIn(e, Append(p, y)) \in DOMAIN e \cup {None} /\ None \notin DOMAIN e
      /\ \A m : Named(e, p, y, m) <=> m \in DOMAIN e /\ NodeIn(e, Append(p, y)) = m
  BY NamedFacts
<1> QED BY <1>1, <1>2

\* On e there is also n, called x in the folder at f.
More(d, e, n, f, x) ==
    /\ DOMAIN e = DOMAIN d \cup {n} /\ e[n] = Put(d, f, x) /\ n \notin DOMAIN d
    /\ \A m \in DOMAIN d : e[m] = d[m]
    /\ IsVault(e) /\ Childless(e, n)
    /\ NodeIn(e, Append(f, x)) = n
    /\ \A q \in StoredPaths : q # Append(f, x) => NodeIn(e, q) = NodeIn(d, q)
    /\ NodeIn(d, Append(f, x)) = None

LEMMA Made ==
    ASSUME NEW d, IsVault(d), NEW n \in (Folders \cup Files) \ {Root}, n \notin DOMAIN d,
           NEW f \in StoredPaths, NEW x \in StoredNames, Fits(d, f, x, {}),
           NEW e, e = With(d, n, Put(d, f, x))
    PROVE  More(d, e, n, f, x)
<1>1. /\ DOMAIN e = DOMAIN d \cup {n} /\ e[n] = Put(d, f, x)
      /\ \A m \in DOMAIN d : e[m] = d[m] /\ m # n
  BY DEF With
<1>2. e \in [DOMAIN e -> [in : Folders, iv : Folders, name : Names]]
  <2>1. e = [m \in DOMAIN e |-> e[m]]
    BY DEF With
  <2> QED BY <1>1, <2>1, PutFacts, VaultFacts
<1>3. IsVault(e)
  <2>1. \A m \in DOMAIN e : e[m].in \in DOMAIN e \cup {Root} /\ e[m].iv = e[m].in
    BY <1>1, PutFacts, VaultFacts
  <2>2. ASSUME NEW m \in DOMAIN e, NEW k \in DOMAIN e, e[m].in = e[k].in,
               Fold(e[m].name) = Fold(e[k].name)
        PROVE  m = k
    <3>1. \A i \in DOMAIN d : d[i].in = NodeIn(d, f) => Fold(d[i].name) # Fold(x.name)
      BY DEF Fits
    <3>2. \A i, j \in DOMAIN d : d[i].in = d[j].in /\ Fold(d[i].name) = Fold(d[j].name) => i = j
      BY DEF IsVault
    <3> QED BY <1>1, <2>2, <3>1, <3>2, PutFacts
  <2>3. DOMAIN e \subseteq (Folders \cup Files) \ {Root}
    BY <1>1 DEF IsVault
  <2> QED BY <1>2, <2>1, <2>2, <2>3 DEF IsVault
<1>4. Childless(e, n)
  <2>1. NodeIn(d, f) # n
    BY PutFacts
  <2>2. \A m \in DOMAIN d : d[m].in # n
    BY VaultFacts
  <2> QED BY <1>1, <2>1, <2>2, PutFacts DEF Childless
<1> DEFINE t == Append(f, x)
<1>5. NodeIn(d, t) = None
  <2>1. NodeIn(d, t) \in DOMAIN d \cup {None}
    BY NodeFacts
  <2>2. \A m \in DOMAIN d : NodeIn(d, t) = m => d[m].in = NodeIn(d, f) /\ d[m].name = x.name
    BY NodeFacts
  <2> HIDE DEF t
  <2> QED BY <2>1, <2>2 DEF Fits
\* Along any path that does not lead through t, both disks show the same.
<1> DEFINE B == {q \in StoredPaths : ~StartsWith(q, t) /\ NodeIn(e, q) # NodeIn(d, q)}
<1>6. ASSUME NEW q \in StoredPaths, NEW y \in StoredNames, Append(q, y) \in B PROVE q \in B
  <2>1. ~StartsWith(Append(q, y), t) /\ NodeIn(e, Append(q, y)) # NodeIn(d, Append(q, y))
    BY <1>6
  <2>2. ~StartsWith(q, t) /\ Append(q, y) # t
    BY <2>1, PrefixAppend, AppendFacts
  <2> SUFFICES ASSUME NodeIn(e, q) = NodeIn(d, q) PROVE FALSE
    BY <2>2
  <2>4. ASSUME e[n].in = NodeIn(e, q), e[n].iv = y.iv, e[n].name = y.name PROVE FALSE
    <3>1. NodeIn(d, q) = NodeIn(d, f) /\ NodeIn(d, f) # None
      BY <1>1, <2>4, PutFacts
    <3>2. q = f
      BY <3>1, OnePath
    <3>3. y = x
      <4>1. y.iv = x.iv /\ y.name = x.name
        BY <1>1, <2>4, PutFacts
      <4> QED BY <4>1 DEF StoredNames
    <3> QED BY <2>2, <3>2, <3>3
  <2>5. \A m : Named(d, q, y, m) <=> Named(e, q, y, m)
    BY <1>1, <2>4 DEF Named
  <2>6. NodeIn(d, Append(q, y)) = NodeIn(e, Append(q, y))
    BY <1>3, <2>5, SameBelow
  <2> QED BY <2>1, <2>6
<1>7. B = {}
  <2>1. B \subseteq StoredPaths
    OBVIOUS
  <2>2. <<>> \notin B
    BY <1>3, NodeFacts
  <2> HIDE DEF B
  <2> QED BY <1>6, <2>1, <2>2, NoBadPath
<1>8. t \in StoredPaths /\ ~StartsWith(f, t)
  <2>1. t \in StoredPaths /\ Len(t) = Len(f) + 1 /\ Len(f) \in Nat
    BY AppendFacts
  <2> HIDE DEF t
  <2> QED BY <2>1 DEF StartsWith
<1>9. NodeIn(e, t) = n
  <2>1. NodeIn(e, f) = NodeIn(d, f)
    BY <1>7, <1>8
  <2>2. n \in DOMAIN e /\ e[n].in = NodeIn(e, f) /\ e[n].iv = x.iv /\ e[n].name = x.name
    BY <1>1, <2>1, PutFacts
  <2> QED BY <1>3, <2>2, NodeFacts
<1>10. ASSUME NEW q \in StoredPaths, q # t PROVE NodeIn(e, q) = NodeIn(d, q)
  <2>1. CASE ~StartsWith(q, t)
    BY <1>7, <2>1
  <2>2. CASE StartsWith(q, t)
    <3>1. NodeIn(d, q) = None
      BY <1>5, <1>8, <2>2, NothingBelowNothing
    <3>2. NodeIn(e, q) = None
      <4>1. \A m \in DOMAIN e : e[m].in # NodeIn(e, t)
        BY <1>4, <1>9 DEF Childless
      <4> HIDE DEF t
      <4> QED BY <1>3, <1>8, <1>10, <2>2, <4>1, NothingBelow
    <3> QED BY <3>1, <3>2
  <2> QED BY <2>1, <2>2
<1> QED BY <1>1, <1>3, <1>4, <1>5, <1>9, <1>10 DEF More

\* On e there is no n.
Less(d, e, n) ==
    /\ DOMAIN e = DOMAIN d \ {n}
    /\ \A m \in DOMAIN e : e[m] = d[m]
    /\ IsVault(e)
    /\ \A q \in StoredPaths : NodeIn(e, q) = IF NodeIn(d, q) = n THEN None ELSE NodeIn(d, q)

LEMMA Dropped ==
    ASSUME NEW d, IsVault(d), NEW n \in DOMAIN d, Childless(d, n), NEW e, e = Without(d, {n})
    PROVE  Less(d, e, n)
<1>1. DOMAIN e = DOMAIN d \ {n} /\ \A m \in DOMAIN e : e[m] = d[m]
  BY DEF Without
<1>2. IsVault(e)
  <2>1. \A m \in DOMAIN e : e[m].in \in DOMAIN e \cup {Root} /\ e[m].iv = e[m].in
    BY <1>1, VaultFacts DEF Childless
  <2>2. e \in [DOMAIN e -> [in : Folders, iv : Folders, name : Names]]
    <3>1. e = [m \in DOMAIN e |-> e[m]]
      BY DEF Without
    <3> QED BY <1>1, <3>1, VaultFacts
  <2>3. \A i, j \in DOMAIN e : e[i].in = e[j].in /\ Fold(e[i].name) = Fold(e[j].name) => i = j
    BY <1>1 DEF IsVault
  <2> QED BY <1>1, <2>1, <2>2, <2>3 DEF IsVault
<1> DEFINE Right(q) == NodeIn(e, q) = IF NodeIn(d, q) = n THEN None ELSE NodeIn(d, q)
           B == {q \in StoredPaths : ~Right(q)}
<1>3. ASSUME NEW q \in StoredPaths, NEW y \in StoredNames, Append(q, y) \in B PROVE q \in B
  <2> SUFFICES ASSUME Right(q) PROVE Right(Append(q, y))
    BY <1>3
  <2> DEFINE a == NodeIn(d, Append(q, y))
             b == NodeIn(e, Append(q, y))
  <2>1. a \in DOMAIN d \cup {None} /\ b \in DOMAIN e \cup {None}
    BY <1>2, NodeFacts
  <2>2. \A m \in DOMAIN d : a = m <=> d[m].in = NodeIn(d, q) /\ d[m].iv = y.iv /\ d[m].name = y.name
    BY NodeFacts
  <2>3. \A m \in DOMAIN e : b = m <=> e[m].in = NodeIn(e, q) /\ e[m].iv = y.iv /\ e[m].name = y.name
    BY <1>2, NodeFacts
  <2>4. \A m \in DOMAIN d : d[m].in # n /\ d[m].in # None
    BY VaultFacts DEF Childless
  <2>5. None \notin DOMAIN d
    BY VaultFacts
  <2> HIDE DEF a, b
  <2>6. \A m \in DOMAIN e : b = m <=> a = m
    BY <1>1, <2>2, <2>3, <2>4
  <2> QED BY <1>1, <2>1, <2>5, <2>6 DEF a, b
<1>4. B = {}
  <2>1. B \subseteq StoredPaths
    OBVIOUS
  <2>2. <<>> \notin B
    BY <1>2, NodeFacts, VaultFacts
  <2> HIDE DEF B
  <2> QED BY <1>3, <2>1, <2>2, NoBadPath
<1> QED BY <1>1, <1>2, <1>4 DEF Less

\* Of a move the places it is about: n, at s, goes to where is room for it.
Moving(d, n, s, f, x) ==
    /\ IsVault(d) /\ n \in DOMAIN d /\ NodeIn(d, s) = n
    /\ Fits(d, f, x, {n})
    /\ ~StartsWith(Append(f, x), s)
    /\ NodeIn(d, Append(f, x)) = None

MoveTo(d, n, f, x) == [d EXCEPT ![n] = Put(d, f, x)]

LEMMA MovedVault ==
    ASSUME NEW d, NEW n, NEW s \in StoredPaths, NEW f \in StoredPaths, NEW x \in StoredNames,
           Moving(d, n, s, f, x),
           NEW e, e = MoveTo(d, n, f, x)
    PROVE  /\ DOMAIN e = DOMAIN d /\ e[n] = Put(d, f, x)
           /\ \A m \in DOMAIN d : m # n => e[m] = d[m]
           /\ IsVault(e)
<1>1. IsVault(d) /\ n \in DOMAIN d /\ Fits(d, f, x, {n})
  BY DEF Moving
<1>2. /\ DOMAIN e = DOMAIN d /\ e[n] = Put(d, f, x)
      /\ \A m \in DOMAIN d : m # n => e[m] = d[m]
  BY <1>1 DEF MoveTo
<1>3. e \in [DOMAIN e -> [in : Folders, iv : Folders, name : Names]]
  <2>1. d \in [DOMAIN d -> [in : Folders, iv : Folders, name : Names]] /\ e = [m \in DOMAIN d |-> e[m]]
    BY <1>1 DEF IsVault, MoveTo
  <2>2. Put(d, f, x) \in [in : Folders, iv : Folders, name : Names]
    BY <1>1, PutFacts
  <2> QED BY <1>2, <2>1, <2>2
<1>4. \A m \in DOMAIN e : e[m].in \in DOMAIN e \cup {Root} /\ e[m].iv = e[m].in
  BY <1>1, <1>2, PutFacts, VaultFacts
<1>5. ASSUME NEW m \in DOMAIN e, NEW k \in DOMAIN e, e[m].in = e[k].in,
             Fold(e[m].name) = Fold(e[k].name)
      PROVE  m = k
  <2>1. \A i \in DOMAIN d : i # n /\ d[i].in = NodeIn(d, f) => Fold(d[i].name) # Fold(x.name)
    BY <1>1 DEF Fits
  <2>2. \A i, j \in DOMAIN d : d[i].in = d[j].in /\ Fold(d[i].name) = Fold(d[j].name) => i = j
    BY <1>1 DEF IsVault
  <2>3. e[n].in = NodeIn(d, f) /\ e[n].name = x.name
    BY <1>1, <1>2, PutFacts
  <2> QED BY <1>2, <1>5, <2>1, <2>2, <2>3
<1>6. DOMAIN e \subseteq (Folders \cup Files) \ {Root}
  BY <1>1, <1>2 DEF IsVault
<1> QED BY <1>2, <1>3, <1>4, <1>5, <1>6 DEF IsVault

\* What was below s is now below the x in f, everything else is where it was.
PathsMoved(d, e, n, s, f, x) ==
    /\ \A q \in StoredPaths : StartsWith(q, s) => NodeIn(e, q) = None
    /\ \A q \in StoredPaths : ~StartsWith(q, s) /\ ~StartsWith(q, Append(f, x))
                                 => NodeIn(e, q) = NodeIn(d, q)
    /\ \A r \in StoredPaths : NodeIn(e, Append(f, x) \o r) = NodeIn(d, s \o r)

LEMMA MovedPaths ==
    ASSUME NEW d, NEW n, NEW s \in StoredPaths, NEW f \in StoredPaths, NEW x \in StoredNames,
           Moving(d, n, s, f, x),
           NEW e, e = MoveTo(d, n, f, x)
    PROVE  PathsMoved(d, e, n, s, f, x)
<1> DEFINE t == Append(f, x)
<1>1. /\ IsVault(d) /\ n \in DOMAIN d /\ NodeIn(d, s) = n /\ Fits(d, f, x, {n})
      /\ ~StartsWith(t, s) /\ NodeIn(d, t) = None
  BY DEF Moving
<1>2. /\ DOMAIN e = DOMAIN d /\ e[n] = Put(d, f, x)
      /\ \A m \in DOMAIN d : m # n => e[m] = d[m]
      /\ IsVault(e)
  BY MovedVault
<1>3. /\ e[n].in = NodeIn(d, f) /\ e[n].iv = x.iv /\ e[n].name = x.name
      /\ NodeIn(d, f) # None
  BY <1>1, <1>2, PutFacts
<1>4. t \in StoredPaths /\ ~StartsWith(f, t) /\ ~StartsWith(f, s)
  <2>1. t \in StoredPaths /\ Len(t) = Len(f) + 1 /\ Len(f) \in Nat
    BY AppendFacts
  <2>2. ~StartsWith(f, s)
    BY <1>1, PrefixAppend
  <2> HIDE DEF t
  <2> QED BY <2>1, <2>2 DEF StartsWith
<1>5. NodeIn(d, <<>>) = Root /\ NodeIn(e, <<>>) = Root /\ Root \notin DOMAIN d
  BY <1>1, <1>2, NodeFacts, VaultFacts
\* Away from s and t nothing changes.
<1> DEFINE B == {q \in StoredPaths : ~StartsWith(q, s) /\ ~StartsWith(q, t)
                                     /\ NodeIn(e, q) # NodeIn(d, q)}
<1>6. ASSUME NEW q \in StoredPaths, NEW y \in StoredNames, Append(q, y) \in B PROVE q \in B
  <2>1. /\ ~StartsWith(Append(q, y), s) /\ ~StartsWith(Append(q, y), t)
        /\ NodeIn(e, Append(q, y)) # NodeIn(d, Append(q, y))
    BY <1>6
  <2>2. ~StartsWith(q, s) /\ Append(q, y) # s
    BY <2>1, PrefixAppend
  <2>3. ~StartsWith(q, t) /\ Append(q, y) # t
    BY <1>4, <2>1, PrefixAppend
  <2> SUFFICES ASSUME NodeIn(e, q) = NodeIn(d, q) PROVE FALSE
    BY <2>2, <2>3
  <2>4. ASSUME e[n].in = NodeIn(e, q), e[n].iv = y.iv, e[n].name = y.name PROVE FALSE
    <3>1. q = f
      BY <1>1, <1>3, <2>4, OnePath
    <3>2. y.iv = x.iv /\ y.name = x.name
      BY <1>3, <2>4
    <3>3. y = x
      BY <3>2 DEF StoredNames
    <3> QED BY <2>3, <3>1, <3>3
  <2>5. ASSUME d[n].in = NodeIn(d, q), d[n].iv = y.iv, d[n].name = y.name PROVE FALSE
    <3>1. NodeIn(d, Append(q, y)) = n
      BY <1>1, <2>5, NodeFacts
    <3>2. n # None /\ Append(q, y) \in StoredPaths
      BY <1>1, VaultFacts, AppendFacts
    <3>3. Append(q, y) = s
      BY <1>1, <3>1, <3>2, OnePath
    <3> QED BY <2>2, <3>3
  <2>6. NodeIn(d, Append(q, y)) = NodeIn(e, Append(q, y))
    <3>1. \A m : Named(d, q, y, m) <=> Named(e, q, y, m)
      BY <1>1, <1>2, <2>4, <2>5 DEF Named
    <3> QED BY <1>1, <1>2, <3>1, SameBelow
  <2> QED BY <2>1, <2>6
<1>7. B = {}
  <2>1. B \subseteq StoredPaths
    OBVIOUS
  <2>2. <<>> \notin B
    BY <1>5
  <2> HIDE DEF B
  <2> QED BY <1>6, <2>1, <2>2, NoBadPath
\* What was below s is below t.
<1> DEFINE C == {r \in StoredPaths : NodeIn(e, t \o r) # NodeIn(d, s \o r)}
<1>8. <<>> \notin C
  <2>1. NodeIn(e, f) = NodeIn(d, f)
    BY <1>4, <1>7
  <2>2. Named(e, f, x, n)
    BY <1>1, <1>2, <1>3, <2>1 DEF Named
  <2>3. NodeIn(e, t) = n
    BY <1>2, <2>2, NamedFacts
  <2>4. t \o <<>> = t /\ s \o <<>> = s
    BY <1>4, ConcatFacts
  <2> QED BY <1>1, <2>3, <2>4
<1>9. ASSUME NEW r \in StoredPaths, NEW y \in StoredNames, Append(r, y) \in C PROVE r \in C
  <2>1. /\ t \o Append(r, y) = Append(t \o r, y) /\ t \o r \in StoredPaths
        /\ s \o Append(r, y) = Append(s \o r, y) /\ s \o r \in StoredPaths
    <3>1. t \o r \in StoredPaths /\ s \o r \in StoredPaths
      BY <1>4, ConcatFacts
    <3>2. t \o Append(r, y) = Append(t \o r, y)
      BY <1>4, ConcatAppend
    <3>3. s \o Append(r, y) = Append(s \o r, y)
      BY ConcatAppend
    <3> QED BY <3>1, <3>2, <3>3
  <2>2. NodeIn(e, Append(t \o r, y)) # NodeIn(d, Append(s \o r, y))
    BY <1>9, <2>1
  <2> SUFFICES ASSUME NodeIn(e, t \o r) = NodeIn(d, s \o r) PROVE FALSE
    BY DEF C
  <2>3. ASSUME e[n].in = NodeIn(e, t \o r) PROVE FALSE
    <3>1. f = s \o r
      BY <1>1, <1>3, <2>1, <2>3, OnePath
    <3>2. StartsWith(f, s)
      BY <3>1, PrefixIsConcat
    <3> QED BY <1>4, <3>2
  <2>4. ASSUME d[n].in = NodeIn(d, s \o r), d[n].iv = y.iv, d[n].name = y.name PROVE FALSE
    <3>1. NodeIn(d, Append(s \o r, y)) = n
      BY <1>1, <2>1, <2>4, NodeFacts
    <3>2. n # None /\ Append(s \o r, y) \in StoredPaths
      BY <1>1, <2>1, VaultFacts, AppendFacts
    <3>3. Append(s \o r, y) = s
      BY <1>1, <3>1, <3>2, OnePath
    <3>4. s \o Append(r, y) = s \o <<>>
      BY <2>1, <3>3, ConcatFacts
    <3>5. Append(r, y) = <<>>
      BY <3>4, CancelPrefix, AppendFacts, ConcatFacts
    <3> QED BY <3>5, AppendFacts
  <2>5. NodeIn(d, Append(s \o r, y)) = NodeIn(e, Append(t \o r, y))
    <3>1. \A m : Named(d, s \o r, y, m) <=> Named(e, t \o r, y, m)
      BY <1>1, <1>2, <2>3, <2>4 DEF Named
    <3> HIDE DEF t
    <3> QED BY <1>1, <1>2, <2>1, <3>1, SameBelow
  <2> QED BY <2>2, <2>5
<1>10. C = {}
  <2>1. C \subseteq StoredPaths
    OBVIOUS
  <2> HIDE DEF C
  <2> QED BY <1>8, <1>9, <2>1, NoBadPath
\* Nothing is left at s.
<1>11. s # <<>>
  BY <1>1, <1>5
<1>12. PICK g \in StoredPaths, y \in StoredNames : s = Append(g, y)
  BY <1>11, LastOfPath
<1>13. NodeIn(e, s) = None
  <2>1. NodeIn(e, s) \in DOMAIN e \cup {None}
    BY <1>2, <1>12, NodeFacts
  <2> SUFFICES ASSUME NEW m \in DOMAIN e, NodeIn(e, s) = m PROVE FALSE
    BY <2>1
  <2>2. e[m].in = NodeIn(e, g) /\ e[m].iv = y.iv /\ e[m].name = y.name
    <3>1. Named(e, g, y, m)
      BY <1>2, <1>12, NamedFacts
    <3> QED BY <3>1 DEF Named
  <2>3. ~StartsWith(g, s)
    <3>1. Len(s) = Len(g) + 1 /\ Len(g) \in Nat
      BY <1>12, AppendFacts
    <3> QED BY <3>1 DEF StartsWith
  <2>4. CASE m = n
    <3>1. NodeIn(e, t) = n
      BY <1>1, <1>4, <1>10, ConcatFacts
    <3>2. s = t
      BY <1>1, <1>2, <1>4, <2>4, <3>1, OnePath, VaultFacts
    <3>3. StartsWith(t, s)
      <4>1. StartsWith(s \o <<>>, s) /\ s \o <<>> = s
        BY PrefixIsConcat, ConcatFacts
      <4> QED BY <3>2, <4>1
    <3> QED BY <1>1, <3>3
  <2>5. CASE m # n /\ ~StartsWith(g, t)
    <3>1. NodeIn(e, g) = NodeIn(d, g)
      BY <1>7, <2>3, <2>5
    <3>2. m \in DOMAIN d /\ d[m].in = NodeIn(d, g) /\ d[m].iv = y.iv /\ d[m].name = y.name
      BY <1>2, <2>2, <2>5, <3>1
    <3>3. NodeIn(d, s) = m
      BY <1>1, <1>12, <3>2, NodeFacts
    <3> QED BY <1>1, <2>5, <3>3
  <2>6. CASE StartsWith(g, t)
    <3>1. StartsWith(s, t)
      BY <1>4, <1>12, <2>6, PrefixAppend
    <3>2. NodeIn(d, s) = None
      BY <1>1, <1>4, <3>1, NothingBelowNothing
    <3> QED BY <1>1, <3>2, VaultFacts
  <2> QED BY <2>4, <2>5, <2>6
<1>14. \A q \in StoredPaths : StartsWith(q, s) => NodeIn(e, q) = None
  BY <1>2, <1>13, NothingBelowNothing
<1>15. \A q \in StoredPaths : ~StartsWith(q, s) /\ ~StartsWith(q, t) => NodeIn(e, q) = NodeIn(d, q)
  BY <1>7
<1>16. \A r \in StoredPaths : NodeIn(e, t \o r) = NodeIn(d, s \o r)
  BY <1>10
<1> QED BY <1>14, <1>15, <1>16 DEF PathsMoved

\* In short: what was at a path is at the path that Rebase makes of it.
Shifted(d, e, n, s, f, x) ==
    /\ DOMAIN e = DOMAIN d /\ e[n] = Put(d, f, x)
    /\ \A m \in DOMAIN d : m # n => e[m] = d[m]
    /\ IsVault(e)
    /\ \A q \in StoredPaths : StartsWith(q, s) => NodeIn(e, q) = None
    /\ \A q \in StoredPaths : NodeIn(d, q) # None
          => NodeIn(e, Rebase(q, s, Append(f, x))) = NodeIn(d, q)
    /\ NodeIn(e, Append(f, x)) = n /\ NodeIn(e, f) = NodeIn(d, f)
    /\ ~StartsWith(f, s)

LEMMA Moved ==
    ASSUME NEW d, NEW n, NEW s \in StoredPaths, NEW f \in StoredPaths, NEW x \in StoredNames,
           Moving(d, n, s, f, x),
           NEW e, e = MoveTo(d, n, f, x)
    PROVE  Shifted(d, e, n, s, f, x)
<1> DEFINE t == Append(f, x)
<1>1. IsVault(d) /\ n \in DOMAIN d /\ NodeIn(d, s) = n /\ NodeIn(d, t) = None
  BY DEF Moving
<1>2. t \in StoredPaths
  BY AppendFacts
<1>3. /\ \A q \in StoredPaths : StartsWith(q, s) => NodeIn(e, q) = None
      /\ \A q \in StoredPaths : ~StartsWith(q, s) /\ ~StartsWith(q, t)
                                   => NodeIn(e, q) = NodeIn(d, q)
      /\ \A r \in StoredPaths : NodeIn(e, t \o r) = NodeIn(d, s \o r)
  <2>1. PathsMoved(d, e, n, s, f, x)
    BY MovedPaths
  <2>2. t = Append(f, x)
    BY DEF t
  <2> HIDE DEF t
  <2> QED BY <2>1, <2>2 DEF PathsMoved
<1> HIDE DEF t
<1>4. ASSUME NEW q \in StoredPaths, NodeIn(d, q) # None
      PROVE  NodeIn(e, Rebase(q, s, t)) = NodeIn(d, q)
  <2>1. CASE StartsWith(q, s)
    <3>1. PICK r \in StoredPaths : q = s \o r
      BY <2>1, PrefixIsConcat
    <3>2. Rebase(s \o r, s, t) = t \o r
      BY <1>2, RebaseFacts
    <3> QED BY <1>3, <3>1, <3>2
  <2>2. CASE ~StartsWith(q, s)
    <3>1. ~StartsWith(q, t)
      BY <1>1, <1>2, <1>4, NothingBelowNothing
    <3>2. Rebase(q, s, t) = q
      BY <1>2, <2>2, RebaseFacts
    <3> QED BY <1>3, <2>2, <3>1, <3>2
  <2> QED BY <2>1, <2>2
<1>5. NodeIn(e, t) = n
  <2>1. t \o <<>> = t /\ s \o <<>> = s /\ <<>> \in StoredPaths
    BY <1>2, ConcatFacts
  <2> QED BY <1>1, <1>3, <2>1
<1>6. ~StartsWith(f, s) /\ NodeIn(d, f) # None
  <2>1. ~StartsWith(t, s) /\ NodeIn(d, f) \in Folders
    BY DEF Moving, Fits, t
  <2> QED BY <2>1, PrefixAppend, TreeAssumption DEF t
<1>7. NodeIn(e, f) = NodeIn(d, f)
  <2>1. Rebase(f, s, t) = f
    BY <1>2, <1>6, RebaseFacts
  <2> QED BY <1>4, <1>6, <2>1
<1>8. /\ DOMAIN e = DOMAIN d /\ e[n] = Put(d, f, x)
      /\ \A m \in DOMAIN d : m # n => e[m] = d[m]
      /\ IsVault(e)
  BY MovedVault
<1>9. t = Append(f, x)
  BY DEF t
<1> QED BY <1>3, <1>4, <1>5, <1>6, <1>7, <1>8, <1>9 DEF Shifted

-------------------------------------------------------------------------------
(* What the cache of folders says, and the lookups that add to it.         *)

EntryOf(d, n) == [name |-> d[n].name, dir |-> n \in Folders]
Kids(d, folder) == {EntryOf(d, n) : n \in {m \in DOMAIN d : d[m].in = folder}}

AllEntries == [name : Names, dir : BOOLEAN]
Dirs == [iv : Folders, index : [built : BOOLEAN, entries : SUBSET AllEntries]]

SidecarsTrue(d, sc) == \A n \in DOMAIN d : d[n].name \in Long => d[n] \in sc

\* The folder remembered at p is the one that is now at "now", and its index has
\* what is in it, but for the names on which work is pending.
DirTrue(d, dir, p, now, pend) ==
    /\ NodeIn(d, now) \in Folders /\ dir.iv = NodeIn(d, now)
    /\ dir.index.built =>
          \A e \in dir.index.entries \cup Kids(d, dir.iv) :
             <<p, Fold(e.name)>> \notin pend => e \in dir.index.entries /\ e \in Kids(d, dir.iv)

\* While what was at s is on its way to t, folders are remembered where they
\* were; those at "gone" are not there any more.
CacheTrue(d, c, s, t, pend, gone) ==
    /\ DOMAIN c \subseteq StoredPaths /\ c \in [DOMAIN c -> Dirs]
    /\ \A p \in DOMAIN c \ gone : DirTrue(d, c[p], p, Rebase(p, s, t), pend)

\* Where there is something, nothing is on its way or gone.
Settled(d, s, t, gone) ==
    \A q \in StoredPaths : NodeIn(d, q) # None => q \notin gone /\ Rebase(q, s, t) = q

LEMMA KidsFacts ==
    ASSUME NEW d, IsVault(d), NEW folder
    PROVE  /\ Kids(d, folder) \subseteq AllEntries
           /\ \A e : e \in Kids(d, folder) <=> \E n \in DOMAIN d : d[n].in = folder /\ e = EntryOf(d, n)
           /\ \A n : EntryOf(d, n).name = d[n].name
           /\ \A n : EntryOf(d, n).dir <=> n \in Folders
           /\ \A e, g \in Kids(d, folder) : Fold(e.name) = Fold(g.name) => e = g
<1>1. \A n \in DOMAIN d : EntryOf(d, n) \in AllEntries
  BY VaultFacts DEF EntryOf, AllEntries
<1>2. /\ \A n : EntryOf(d, n).name = d[n].name
      /\ \A n : EntryOf(d, n).dir <=> n \in Folders
  BY DEF EntryOf
<1>3. \A e : e \in Kids(d, folder) <=> \E n \in DOMAIN d : d[n].in = folder /\ e = EntryOf(d, n)
  BY DEF Kids
<1>4. \A e, g \in Kids(d, folder) : Fold(e.name) = Fold(g.name) => e = g
  BY <1>2, <1>3 DEF IsVault
<1> QED BY <1>1, <1>2, <1>3, <1>4

\* Every thing of a vault can be read: listings are complete.
LEMMA EntriesAreKids ==
    ASSUME IsVault(disk), SidecarsTrue(disk, sidecars), NEW folder
    PROVE  Entries(folder, folder) = Kids(disk, folder)
<1>1. {m \in DOMAIN disk : disk[m].in = folder /\ Readable(m, folder)}
        = {m \in DOMAIN disk : disk[m].in = folder}
  BY VaultFacts DEF Readable, SidecarsTrue
<1> QED BY <1>1 DEF Entries, Kids, EntryOf

LEMMA RebaseSame == \A q, s \in StoredPaths : Rebase(q, s, s) = q
<1> TAKE q, s \in StoredPaths
<1>1. CASE StartsWith(q, s)
  <2>1. PICK r \in StoredPaths : q = s \o r
    BY <1>1, PrefixIsConcat
  <2>2. Rebase(s \o r, s, s) = s \o r
    BY RebaseFacts
  <2> QED BY <2>1, <2>2
<1>2. CASE ~StartsWith(q, s)
  BY <1>2, RebaseFacts
<1> QED BY <1>1, <1>2

LEMMA SettledIdle ==
    ASSUME NEW d PROVE Settled(d, <<>>, <<>>, {})
<1>1. <<>> \in StoredPaths
  BY ConcatFacts, EmptySeq DEF StoredPaths
<1> QED BY <1>1, RebaseSame DEF Settled

LEMMA DirAtTrue ==
    ASSUME IsVault(disk), NEW c, NEW s, NEW t, NEW pend, NEW gone,
           CacheTrue(disk, c, s, t, pend, gone), Settled(disk, s, t, gone),
           NEW p \in StoredPaths
    PROVE  CacheTrue(disk, DirAt(c, p), s, t, pend, gone)
<1>1. CASE p \in DOMAIN c \/ NodeAt(p) \notin Folders
  BY <1>1 DEF DirAt
<1>2. CASE p \notin DOMAIN c /\ NodeAt(p) \in Folders
  <2> DEFINE new == [iv |-> NodeIn(disk, p), index |-> NoIndex]
             e == With(c, p, new)
  <2>1. NodeAt(p) = NodeIn(disk, p) /\ NodeIn(disk, p) \in Folders
    BY <1>2, NodeAtIsNodeIn
  <2>2. DirAt(c, p) = e
    BY <1>2, <2>1 DEF DirAt
  <2>3. new \in Dirs /\ new.iv = NodeIn(disk, p) /\ ~new.index.built
    BY <2>1 DEF Dirs, NoIndex
  <2> HIDE DEF new
  <2>4. /\ DOMAIN e = DOMAIN c \cup {p} /\ e[p] = new
        /\ \A q \in DOMAIN c : e[q] = c[q]
        /\ e = [q \in DOMAIN e |-> e[q]]
    BY <1>2 DEF With
  <2> HIDE DEF e
  <2>5. DOMAIN e \subseteq StoredPaths /\ e \in [DOMAIN e -> Dirs]
    BY <2>3, <2>4 DEF CacheTrue
  <2>6. DirTrue(disk, e[p], p, Rebase(p, s, t), pend)
    <3>1. NodeIn(disk, p) # None
      BY <2>1, TreeAssumption
    <3>2. Rebase(p, s, t) = p
      BY <3>1 DEF Settled
    <3> QED BY <2>1, <2>3, <2>4, <3>2 DEF DirTrue
  <2>7. \A q \in DOMAIN e \ gone : DirTrue(disk, e[q], q, Rebase(q, s, t), pend)
    BY <2>4, <2>6 DEF CacheTrue
  <2> QED BY <2>2, <2>5, <2>7 DEF CacheTrue
<1> QED BY <1>1, <1>2

LEMMA IndexedTrue ==
    ASSUME IsVault(disk), SidecarsTrue(disk, sidecars), NEW c, NEW s, NEW t, NEW pend, NEW gone,
           CacheTrue(disk, c, s, t, pend, gone), Settled(disk, s, t, gone),
           NEW p \in StoredPaths
    PROVE  /\ CacheTrue(disk, Indexed(c, p), s, t, pend, gone)
           /\ DOMAIN Indexed(c, p) = DOMAIN c
           /\ p \in DOMAIN c /\ NodeAt(p) \in Folders => Indexed(c, p)[p].index.built
<1>1. CASE p \notin DOMAIN c \/ NodeAt(p) \notin Folders
  BY <1>1 DEF Indexed
<1>2. CASE p \in DOMAIN c /\ NodeAt(p) \in Folders /\ c[p].index.built
  BY <1>2 DEF Indexed
<1>3. CASE p \in DOMAIN c /\ NodeAt(p) \in Folders /\ ~c[p].index.built
  <2>1. NodeAt(p) = NodeIn(disk, p) /\ NodeIn(disk, p) \in Folders /\ NodeIn(disk, p) # None
    BY <1>3, NodeAtIsNodeIn, TreeAssumption
  <2>2. p \notin gone /\ Rebase(p, s, t) = p
    BY <2>1 DEF Settled
  <2>3. c[p].iv = NodeIn(disk, p) /\ c[p] \in Dirs
    BY <1>3, <2>2 DEF CacheTrue, DirTrue
  <2> DEFINE new == [c[p] EXCEPT !.index = Index(Entries(NodeAt(p), c[p].iv))]
             e == [c EXCEPT ![p] = new]
  <2>4. Entries(NodeAt(p), c[p].iv) = Kids(disk, c[p].iv)
    BY <2>1, <2>3, EntriesAreKids
  <2>5. Kids(disk, c[p].iv) \subseteq AllEntries
    BY KidsFacts
  <2>6. Indexed(c, p) = e
    BY <1>3 DEF Indexed
  <2>7. /\ new \in Dirs /\ new.iv = c[p].iv
        /\ new.index.built /\ new.index.entries = Kids(disk, c[p].iv)
    BY <2>3, <2>4, <2>5 DEF Dirs, Index
  <2> HIDE DEF new
  <2>8. /\ DOMAIN e = DOMAIN c /\ e[p] = new
        /\ \A q \in DOMAIN c : q # p => e[q] = c[q]
        /\ e = [q \in DOMAIN e |-> e[q]]
    BY <1>3 DEF CacheTrue
  <2> HIDE DEF e
  <2>9. DOMAIN e \subseteq StoredPaths /\ e \in [DOMAIN e -> Dirs]
    BY <2>7, <2>8 DEF CacheTrue
  <2>10. DirTrue(disk, e[p], p, Rebase(p, s, t), pend)
    BY <2>1, <2>2, <2>3, <2>7, <2>8 DEF DirTrue
  <2>11. \A q \in DOMAIN e \ gone : DirTrue(disk, e[q], q, Rebase(q, s, t), pend)
    BY <2>8, <2>10 DEF CacheTrue
  <2>12. CacheTrue(disk, e, s, t, pend, gone)
    BY <2>9, <2>11 DEF CacheTrue
  <2> QED BY <2>6, <2>7, <2>8, <2>12
<1> QED BY <1>1, <1>2, <1>3

IsAlong(exact, cache, parts, n, f) ==
    f = [k \in 0..n |->
            IF k = 0 THEN [cache |-> cache, path |-> <<>>, ok |-> TRUE]
            ELSE IF f[k - 1].ok THEN Further(exact, f[k - 1], parts[k]) ELSE f[k - 1]]

LEMMA AlongExists ==
    ASSUME NEW exact, NEW cache, NEW parts, NEW n \in Nat
    PROVE  \E f : IsAlong(exact, cache, parts, n, f)
<1> DEFINE T == {m \in Nat : ~\E f : IsAlong(exact, cache, parts, m, f)}
           first == [cache |-> cache, path |-> <<>>, ok |-> TRUE]
           next(w, k) == IF w.ok THEN Further(exact, w, parts[k]) ELSE w
<1> SUFFICES ASSUME T # {} PROVE FALSE
  OBVIOUS
<1>1. PICK m \in T : \A i \in T : m <= i
  <2>1. T \subseteq Nat
    OBVIOUS
  <2> HIDE DEF T
  <2> QED BY <2>1, LeastNumber
<1>2. CASE m = 0
  <2> DEFINE f == [k \in 0..0 |-> first]
  <2>1. f = [k \in 0..0 |-> IF k = 0 THEN first ELSE next(f[k - 1], k)]
    <3> HIDE DEF first, next
    <3> QED OBVIOUS
  <2>2. IsAlong(exact, cache, parts, 0, f)
    BY <2>1 DEF IsAlong
  <2>3. \E g : IsAlong(exact, cache, parts, 0, g)
    BY <2>2
  <2> QED BY <1>1, <1>2, <2>3
<1>3. CASE m # 0
  <2>1. m \in Nat /\ m - 1 \in Nat /\ m - 1 \notin T
    BY <1>1, <1>3
  <2>2. PICK f : IsAlong(exact, cache, parts, m - 1, f)
    BY <2>1
  <2>3. \A k \in 0..(m - 1) : f[k] = IF k = 0 THEN first ELSE next(f[k - 1], k)
    BY <2>2 DEF IsAlong
  <2> DEFINE g == [k \in 0..m |-> IF k = m THEN next(f[m - 1], m) ELSE f[k]]
  <2> HIDE DEF first, next
  <2>4. ASSUME NEW k \in 0..m
        PROVE  g[k] = IF k = 0 THEN first ELSE next(g[k - 1], k)
    <3>1. CASE k = m
      <4>1. m - 1 \in 0..m /\ m - 1 # m
        BY <2>1
      <4>2. g[k - 1] = f[m - 1]
        BY <3>1, <4>1
      <4> QED BY <1>3, <3>1, <4>2
    <3>2. CASE k # m
      <4>1. k \in 0..(m - 1) /\ (k # 0 => k - 1 \in 0..m /\ k - 1 # m)
        BY <2>1, <3>2
      <4>2. f[k] = IF k = 0 THEN first ELSE next(f[k - 1], k)
        BY <2>3, <4>1
      <4>3. g[k] = f[k] /\ (k # 0 => g[k - 1] = f[k - 1])
        BY <3>2, <4>1
      <4> QED BY <4>2, <4>3
    <3> QED BY <3>1, <3>2
  <2>5. g = [k \in 0..m |-> IF k = 0 THEN first ELSE next(g[k - 1], k)]
    <3>1. g = [k \in 0..m |-> g[k]]
      OBVIOUS
    <3> HIDE DEF g
    <3> QED BY <2>4, <3>1
  <2>6. \E h : IsAlong(exact, cache, parts, m, h)
    BY <2>5 DEF IsAlong, first, next
  <2> QED BY <1>1, <2>6
<1> QED BY <1>2, <1>3

\* Every step of a lookup leaves the cache true and is at a path.
LEMMA AlongTrue ==
    ASSUME IsVault(disk), SidecarsTrue(disk, sidecars), NEW c, NEW s, NEW t, NEW pend, NEW gone,
           CacheTrue(disk, c, s, t, pend, gone), Settled(disk, s, t, gone),
           NEW exact \in BOOLEAN, NEW parts \in Seq(Names)
    PROVE  /\ CacheTrue(disk, Along(exact, c, parts).cache, s, t, pend, gone)
           /\ Along(exact, c, parts).path \in StoredPaths
<1> DEFINE Fine(w) == CacheTrue(disk, w.cache, s, t, pend, gone) /\ w.path \in StoredPaths
           n == Len(parts)
           first == [cache |-> c, path |-> <<>>, ok |-> TRUE]
           walk == CHOOSE f : f = [k \in 0..Len(parts) |->
                      IF k = 0 THEN [cache |-> c, path |-> <<>>, ok |-> TRUE]
                      ELSE IF f[k - 1].ok THEN Further(exact, f[k - 1], parts[k]) ELSE f[k - 1]]
<1>1. n \in Nat
  BY LenProperties
<1>2. walk = [k \in 0..Len(parts) |->
                 IF k = 0 THEN [cache |-> c, path |-> <<>>, ok |-> TRUE]
                 ELSE IF walk[k - 1].ok THEN Further(exact, walk[k - 1], parts[k]) ELSE walk[k - 1]]
  <2>1. PICK f : IsAlong(exact, c, parts, Len(parts), f)
    BY <1>1, AlongExists
  <2> QED BY <2>1 DEF IsAlong
<1>3. Along(exact, c, parts) = walk[n]
  BY DEF Along
<1> HIDE DEF walk
<1>4. \A k \in 0..n : walk[k] = IF k = 0 THEN first
                                ELSE IF walk[k - 1].ok THEN Further(exact, walk[k - 1], parts[k]) ELSE walk[k - 1]
  BY <1>2
<1>5. Fine(first)
  BY EmptySeq DEF StoredPaths
<1>6. ASSUME NEW w, Fine(w), NEW name \in Names PROVE Fine(Further(exact, w, name))
  <2> DEFINE a == DirAt(w.cache, w.path)
             b == Indexed(a, w.path)
  <2>1. CacheTrue(disk, a, s, t, pend, gone)
    BY <1>6, DirAtTrue
  <2>2. CacheTrue(disk, b, s, t, pend, gone)
    <3> HIDE DEF a
    <3> QED BY <1>6, <2>1, IndexedTrue
  <2>3. ASSUME NEW e, CacheTrue(disk, e, s, t, pend, gone), NEW x \in Names, w.path \in DOMAIN e
        PROVE  Fine(FoundAt(e, w.path, x))
    <3>1. [iv |-> e[w.path].iv, name |-> x] \in StoredNames
      BY <2>3 DEF CacheTrue, Dirs, StoredNames
    <3>2. Append(w.path, [iv |-> e[w.path].iv, name |-> x]) \in StoredPaths
      BY <1>6, <3>1, AppendFacts
    <3> QED BY <2>3, <3>2 DEF FoundAt, StoredPath
  <2>4. ASSUME NEW e, CacheTrue(disk, e, s, t, pend, gone) PROVE Fine(NotFound(e))
    BY <2>4, EmptySeq DEF NotFound, StoredPaths
  <2> HIDE DEF a, b, Fine
  <2>5. Fine(Exactly(a, w.path, name))
    BY <2>1, <2>3, <2>4 DEF Exactly
  <2>6. Fine(ByIndex(b, w.path, name))
    <3> DEFINE found == IF w.path \in DOMAIN b THEN Found(b, w.path, name) ELSE {}
    <3>1. CASE found = {}
      BY <2>2, <2>4, <3>1 DEF ByIndex
    <3>2. CASE found # {}
      <4>1. w.path \in DOMAIN b /\ (CHOOSE e \in found : TRUE) \in b[w.path].index.entries
        BY <3>2 DEF Found
      <4>2. (CHOOSE e \in found : TRUE).name \in Names
        BY <2>2, <4>1 DEF CacheTrue, Dirs, AllEntries
      <4>3. Fine(FoundAt(b, w.path, (CHOOSE e \in found : TRUE).name))
        <5> HIDE DEF found
        <5> QED BY <2>2, <2>3, <4>1, <4>2
      <4> QED BY <3>2, <4>3 DEF ByIndex
    <3> QED BY <3>1, <3>2
  <2> QED BY <2>5, <2>6 DEF Further, a, b
<1> HIDE DEF Fine, first
<1> DEFINE T == {k \in 0..n : ~Fine(walk[k])}
<1>7. T = {}
  <2> SUFFICES ASSUME T # {} PROVE FALSE
    OBVIOUS
  <2>1. PICK m \in T : \A i \in T : m <= i
    <3>1. T \subseteq Nat
      BY <1>1
    <3> HIDE DEF T
    <3> QED BY <3>1, LeastNumber
  <2>2. m # 0
    BY <1>4, <1>5
  <2>3. m - 1 \in 0..n /\ m \in 1..n /\ m - 1 \notin T
    BY <1>1, <2>1, <2>2
  <2>4. parts[m] \in Names
    BY <2>3, ElementOfSeq
  <2>5. Fine(walk[m - 1])
    BY <2>3
  <2>6. Fine(walk[m])
    BY <1>4, <1>6, <2>2, <2>3, <2>4, <2>5
  <2> QED BY <2>1, <2>6
<1> QED BY <1>1, <1>3, <1>7 DEF Fine

LEMMA LookupTrue ==
    ASSUME IsVault(disk), SidecarsTrue(disk, sidecars), NEW c, NEW s, NEW t, NEW pend, NEW gone,
           CacheTrue(disk, c, s, t, pend, gone), Settled(disk, s, t, gone),
           NEW parts \in Seq(Names)
    PROVE  /\ CacheTrue(disk, Lookup(c, parts).cache, s, t, pend, gone)
           /\ Lookup(c, parts).path \in StoredPaths
<1> DEFINE direct == Along(TRUE, c, parts)
<1>1. CacheTrue(disk, direct.cache, s, t, pend, gone) /\ direct.path \in StoredPaths
  BY AlongTrue
<1> HIDE DEF direct
<1>2. /\ CacheTrue(disk, Along(FALSE, direct.cache, parts).cache, s, t, pend, gone)
      /\ Along(FALSE, direct.cache, parts).path \in StoredPaths
  BY <1>1, AlongTrue
<1> QED BY <1>1, <1>2 DEF Lookup, direct

-------------------------------------------------------------------------------
(* Between changes, Parent and find answer what is on the disk.            *)

\* What p, found for a name, says is true.
FoundTrue(p, name) ==
    /\ CacheTrue(disk, p.cache, <<>>, <<>>, {}, {})
    /\ p.path \in StoredPaths
    /\ ~p.ok => p.found = {}
    /\ p.ok => /\ p.path \in DOMAIN p.cache
               /\ NodeIn(disk, p.path) \in Folders
               /\ p.cache[p.path].iv = NodeIn(disk, p.path)
               /\ \A e : e \in p.found <=> e \in Kids(disk, NodeIn(disk, p.path))
                                           /\ Fold(e.name) = Fold(name)

LEMMA ParentTrue ==
    ASSUME IsVault(disk), SidecarsTrue(disk, sidecars), NEW c,
           CacheTrue(disk, c, <<>>, <<>>, {}, {}),
           NEW parts \in Seq(Names), parts # <<>>
    PROVE  FoundTrue(Parent(c, parts), parts[Len(parts)])
<1> DEFINE at == Lookup(c, SubSeq(parts, 1, Len(parts) - 1))
           name == parts[Len(parts)]
           b == IF at.ok THEN Indexed(DirAt(at.cache, at.path), at.path) ELSE at.cache
           p == FindIn(at.ok, b, at.path, name)
<1>1. SubSeq(parts, 1, Len(parts) - 1) \in Seq(Names)
  <2>1. Len(parts) \in Nat /\ Len(parts) - 1 \in Int /\ 1 \in Int
    BY LenProperties
  <2>2. \A i \in 1..(Len(parts) - 1) : parts[i] \in Names
    BY <2>1, ElementOfSeq
  <2> QED BY <2>1, <2>2, SubSeqProperties
<1>2. Settled(disk, <<>>, <<>>, {}) /\ <<>> \in StoredPaths
  BY SettledIdle, EmptySeq DEF StoredPaths
<1>3. CacheTrue(disk, at.cache, <<>>, <<>>, {}, {}) /\ at.path \in StoredPaths
  BY <1>1, <1>2, LookupTrue
<1>4. Parent(c, parts) = p
  BY DEF Parent, FindAt
<1> HIDE DEF at
<1> DEFINE a == DirAt(at.cache, at.path)
<1>5. CacheTrue(disk, a, <<>>, <<>>, {}, {})
  BY <1>2, <1>3, DirAtTrue
<1> HIDE DEF a
<1>6. /\ CacheTrue(disk, Indexed(a, at.path), <<>>, <<>>, {}, {})
      /\ DOMAIN Indexed(a, at.path) = DOMAIN a
      /\ at.path \in DOMAIN a /\ NodeAt(at.path) \in Folders => Indexed(a, at.path)[at.path].index.built
  BY <1>2, <1>3, <1>5, IndexedTrue
<1>7. CacheTrue(disk, b, <<>>, <<>>, {}, {})
  BY <1>3, <1>6 DEF a
<1>8. at.ok /\ at.path \in DOMAIN b /\ NodeAt(at.path) \in Folders => b[at.path].index.built
  BY <1>6 DEF a
<1> HIDE DEF b, name
<1> DEFINE there == at.ok /\ at.path \in DOMAIN b /\ NodeAt(at.path) \in Folders
<1>9. /\ p.cache = b /\ p.path = at.path /\ (p.ok <=> there)
      /\ (there => p.found = Found(b, at.path, name)) /\ (~there => p.found = {})
  BY DEF FindIn
<1> HIDE DEF p
<1>10. ASSUME there
       PROVE  /\ NodeIn(disk, at.path) \in Folders /\ b[at.path].iv = NodeIn(disk, at.path)
              /\ \A e : e \in Found(b, at.path, name) <=>
                     e \in Kids(disk, NodeIn(disk, at.path)) /\ Fold(e.name) = Fold(name)
  <2>1. Rebase(at.path, <<>>, <<>>) = at.path
    BY <1>2, <1>3, RebaseSame
  <2>2. DirTrue(disk, b[at.path], at.path, at.path, {})
    BY <1>7, <1>10, <2>1 DEF CacheTrue
  <2> QED BY <1>8, <1>10, <2>2 DEF DirTrue, Found
<1> QED BY <1>3, <1>4, <1>7, <1>9, <1>10 DEF FoundTrue, name

-------------------------------------------------------------------------------
(* The open files.                                                         *)

OpenFiles == [node : Files, path : StoredPaths]

\* While what was at s is on its way to t, files are remembered where they
\* were; those at "drop" are about to be forgotten.  A file has one ContentFile.
FilesTrue(d, fl, op, drop, s, t) ==
    /\ DOMAIN fl \subseteq StoredPaths /\ IsFiniteSet(DOMAIN op)
    /\ \A o \in DOMAIN op : op[o] \in OpenFiles
    /\ \A o, k \in DOMAIN op : op[o].node = op[k].node => o = k
    /\ \A q \in DOMAIN fl \ drop :
          /\ fl[q] \in DOMAIN op /\ op[fl[q]].path = q
          /\ NodeIn(d, Rebase(q, s, t)) = op[fl[q]].node
    /\ \A o \in DOMAIN op : op[o].node \in DOMAIN d =>
          /\ NodeIn(d, Rebase(op[o].path, s, t)) = op[o].node
          /\ op[o].path \notin drop => op[o].path \in DOMAIN fl /\ fl[op[o].path] = o

\* The same while nothing is on its way.
LEMMA FilesSettled ==
    ASSUME NEW d, NEW fl, NEW op, NEW drop
    PROVE  FilesTrue(d, fl, op, drop, <<>>, <<>>) <=>
              /\ DOMAIN fl \subseteq StoredPaths /\ IsFiniteSet(DOMAIN op)
              /\ \A o \in DOMAIN op : op[o] \in OpenFiles
              /\ \A o, k \in DOMAIN op : op[o].node = op[k].node => o = k
              /\ \A q \in DOMAIN fl \ drop :
                    fl[q] \in DOMAIN op /\ op[fl[q]].path = q /\ NodeIn(d, q) = op[fl[q]].node
              /\ \A o \in DOMAIN op : op[o].node \in DOMAIN d =>
                    /\ NodeIn(d, op[o].path) = op[o].node
                    /\ op[o].path \notin drop => op[o].path \in DOMAIN fl /\ fl[op[o].path] = o
<1>1. <<>> \in StoredPaths
  BY EmptySeq DEF StoredPaths
<1>2. \A q \in StoredPaths : Rebase(q, <<>>, <<>>) = q
  BY <1>1, RebaseSame
<1>3. \A o \in DOMAIN op : op[o] \in OpenFiles => op[o].path \in StoredPaths
  BY DEF OpenFiles
<1> QED BY <1>2, <1>3 DEF FilesTrue

LEMMA FilesWeaker ==
    ASSUME NEW d, NEW fl, NEW op, NEW drop, NEW more, drop \subseteq more, NEW s, NEW t,
           FilesTrue(d, fl, op, drop, s, t)
    PROVE  FilesTrue(d, fl, op, more, s, t)
BY DEF FilesTrue

\* Some number is not used yet.
LEMMA NewFileIsNew ==
    ASSUME NEW op, IsFiniteSet(DOMAIN op)
    PROVE  \E o \in 1..Cardinality(DOMAIN op) + 1 : o \notin DOMAIN op
<1> DEFINE c == Cardinality(DOMAIN op)
<1>1. c \in Nat
  BY FS_CardinalityType
<1>2. SUFFICES ASSUME 1..c + 1 \subseteq DOMAIN op PROVE FALSE
  OBVIOUS
<1>3. Cardinality(1..c + 1) = c + 1
  <2>1. c + 1 \in Int /\ 1 \in Int /\ 1 <= c + 1
    BY <1>1
  <2>2. Cardinality(1..c + 1) = (c + 1) - 1 + 1
    BY <2>1, FS_Interval
  <2> QED BY <1>1, <2>2
<1>4. Cardinality(1..c + 1) <= c
  BY <1>2, FS_Subset
<1> QED BY <1>1, <1>3, <1>4

LEMMA NewFileFacts ==
    IsFiniteSet(DOMAIN opened) => NewFile \notin DOMAIN opened
BY NewFileIsNew DEF NewFile

LEMMA FilesMade ==
    ASSUME NEW d, IsVault(d), NEW fl, NEW op, FilesTrue(d, fl, op, {}, <<>>, <<>>),
           NEW e, NEW n, NEW f, NEW x, More(d, e, n, f, x), \A o \in DOMAIN op : op[o].node # n
    PROVE  FilesTrue(e, fl, op, {}, <<>>, <<>>)
<1> DEFINE t == Append(f, x)
<1>1. \A o \in DOMAIN op : op[o].node # None /\ op[o].path \in StoredPaths
  BY TreeAssumption DEF FilesTrue, OpenFiles
<1>2. /\ DOMAIN e = DOMAIN d \cup {n} /\ NodeIn(d, t) = None
      /\ \A q \in StoredPaths : q # t => NodeIn(e, q) = NodeIn(d, q)
  BY DEF More
<1> HIDE DEF t
<1> QED BY <1>1, <1>2, FilesSettled

\* Without the folder n, or without the file n, which is then to be forgotten.
LEMMA FilesDropped ==
    ASSUME NEW d, IsVault(d), NEW fl, NEW op, NEW drop, FilesTrue(d, fl, op, drop, <<>>, <<>>),
           NEW e, NEW n \in DOMAIN d, Less(d, e, n), NEW t \in StoredPaths, NodeIn(d, t) = n
    PROVE  FilesTrue(e, fl, op, IF n \in Folders THEN drop ELSE drop \cup {t}, <<>>, <<>>)
<1> DEFINE more == IF n \in Folders THEN drop ELSE drop \cup {t}
<1>0. /\ DOMAIN e = DOMAIN d \ {n}
      /\ \A q \in StoredPaths : NodeIn(e, q) = IF NodeIn(d, q) = n THEN None ELSE NodeIn(d, q)
  BY DEF Less
<1> USE <1>0
<1>1. \A o \in DOMAIN op : op[o].node \notin Folders /\ op[o].path \in StoredPaths
  BY TreeAssumption DEF FilesTrue, OpenFiles
<1>2. ASSUME NEW q \in DOMAIN fl \ more PROVE NodeIn(d, q) = op[fl[q]].node /\ NodeIn(d, q) # n
  <2>1. NodeIn(d, q) = op[fl[q]].node /\ fl[q] \in DOMAIN op /\ q \in StoredPaths
    BY <1>2, FilesSettled
  <2>2. n \notin Folders => NodeIn(d, q) # n
    BY <1>2, <2>1, OnePath, VaultFacts
  <2> QED BY <1>1, <2>1, <2>2
<1>3. drop \subseteq more
  OBVIOUS
<1>4. \A q \in DOMAIN fl \ more :
         fl[q] \in DOMAIN op /\ op[fl[q]].path = q /\ NodeIn(e, q) = op[fl[q]].node
  BY <1>2, <1>3, FilesSettled
<1>5. \A o \in DOMAIN op : op[o].node \in DOMAIN e =>
         /\ NodeIn(e, op[o].path) = op[o].node
         /\ op[o].path \notin more => op[o].path \in DOMAIN fl /\ fl[op[o].path] = o
  BY <1>1, <1>3, FilesSettled
<1> HIDE DEF more
<1>6. /\ DOMAIN fl \subseteq StoredPaths /\ IsFiniteSet(DOMAIN op)
      /\ \A o \in DOMAIN op : op[o] \in OpenFiles
      /\ \A o, k \in DOMAIN op : op[o].node = op[k].node => o = k
  BY DEF FilesTrue
<1>7. FilesTrue(e, fl, op, more, <<>>, <<>>)
  BY <1>4, <1>5, <1>6, FilesSettled
<1> QED BY <1>7 DEF more

\* What was at s is at t now; no file is remembered at t.
LEMMA FilesMoved ==
    ASSUME NEW d, IsVault(d), NEW fl, NEW op, NEW s, NEW f \in StoredPaths, NEW x \in StoredNames,
           FilesTrue(d, fl, op, {Append(f, x)}, <<>>, <<>>), Append(f, x) \notin DOMAIN fl,
           NodeIn(d, Append(f, x)) = None,
           NEW n, NEW e, Shifted(d, e, n, s, f, x)
    PROVE  FilesTrue(e, fl, op, {}, s, Append(f, x))
<1> DEFINE t == Append(f, x)
<1>0. /\ t \in StoredPaths /\ FilesTrue(d, fl, op, {t}, <<>>, <<>>) /\ t \notin DOMAIN fl
      /\ NodeIn(d, t) = None /\ DOMAIN e = DOMAIN d
      /\ \A q \in StoredPaths : NodeIn(d, q) # None => NodeIn(e, Rebase(q, s, t)) = NodeIn(d, q)
  BY AppendFacts DEF Shifted
<1> HIDE DEF t
<1> USE <1>0
<1>1. \A o \in DOMAIN op : op[o].node # None /\ op[o].path \in StoredPaths
  BY TreeAssumption DEF FilesTrue, OpenFiles
<1>2. /\ DOMAIN fl \subseteq StoredPaths /\ IsFiniteSet(DOMAIN op)
      /\ \A o \in DOMAIN op : op[o] \in OpenFiles
      /\ \A o, k \in DOMAIN op : op[o].node = op[k].node => o = k
  BY DEF FilesTrue
<1>3. \A q \in DOMAIN fl : fl[q] \in DOMAIN op /\ op[fl[q]].path = q /\ NodeIn(d, q) = op[fl[q]].node
  BY FilesSettled
<1>4. \A o \in DOMAIN op : op[o].node \in DOMAIN d =>
         /\ NodeIn(d, op[o].path) = op[o].node
         /\ op[o].path \notin {t} => op[o].path \in DOMAIN fl /\ fl[op[o].path] = o
  BY FilesSettled
<1>5. \A o \in DOMAIN op : op[o].node \in DOMAIN d => op[o].path # t
  BY <1>1, <1>4
<1>6. \A q \in DOMAIN fl : NodeIn(e, Rebase(q, s, t)) = op[fl[q]].node
  BY <1>1, <1>2, <1>3
<1>7. \A o \in DOMAIN op : op[o].node \in DOMAIN d => NodeIn(e, Rebase(op[o].path, s, t)) = op[o].node
  BY <1>1, <1>4
<1>8. FilesTrue(e, fl, op, {}, s, t)
  BY <1>2, <1>3, <1>4, <1>5, <1>6, <1>7 DEF FilesTrue
<1> QED BY <1>8 DEF t

LEMMA FilesForgotten ==
    ASSUME NEW d, IsVault(d), NEW fl, NEW op, NEW p \in StoredPaths,
           FilesTrue(d, fl, op, {p}, <<>>, <<>>)
    PROVE  /\ FilesTrue(d, Without(fl, {p}), op, {p}, <<>>, <<>>)
           /\ NodeIn(d, p) = None => FilesTrue(d, Without(fl, {p}), op, {}, <<>>, <<>>)
<1> DEFINE g == Without(fl, {p})
<1>1. DOMAIN g = DOMAIN fl \ {p} /\ \A q \in DOMAIN g : g[q] = fl[q]
  BY DEF Without
<1> HIDE DEF g
<1>2. FilesTrue(d, g, op, {p}, <<>>, <<>>)
  BY <1>1 DEF FilesTrue
<1>3. ASSUME NodeIn(d, p) = None PROVE FilesTrue(d, g, op, {}, <<>>, <<>>)
  <2>1. \A o \in DOMAIN op : op[o].node # None
    BY TreeAssumption DEF FilesTrue, OpenFiles
  <2> QED BY <1>1, <1>2, <1>3, <2>1, FilesSettled
<1> QED BY <1>2, <1>3 DEF g

LEMMA FilesClosed ==
    ASSUME NEW d, NEW fl, NEW op, NEW drop, NEW s, NEW t, FilesTrue(d, fl, op, drop, s, t), NEW o
    PROVE  FilesTrue(d, Without(fl, {p \in DOMAIN fl : fl[p] = o}), Without(op, {o}), drop, s, t)
<1> DEFINE g == Without(fl, {p \in DOMAIN fl : fl[p] = o})
           u == Without(op, {o})
<1>1. /\ DOMAIN g = {p \in DOMAIN fl : fl[p] # o} /\ \A q \in DOMAIN g : g[q] = fl[q]
      /\ DOMAIN u = DOMAIN op \ {o} /\ \A k \in DOMAIN u : u[k] = op[k]
  BY DEF Without
<1> HIDE DEF g, u
<1>2. IsFiniteSet(DOMAIN u)
  BY <1>1, FS_Subset DEF FilesTrue
<1>3. FilesTrue(d, g, u, drop, s, t)
  BY <1>1, <1>2 DEF FilesTrue
<1> QED BY <1>3 DEF g, u

\* A file nobody had open is remembered at its path.
LEMMA FilesRemembered ==
    ASSUME NEW d, IsVault(d), NEW fl, NEW op, FilesTrue(d, fl, op, {}, <<>>, <<>>),
           NEW p \in StoredPaths, NEW n \in Files, NodeIn(d, p) = n,
           \A k \in DOMAIN op : op[k].node # n, NEW o, o \notin DOMAIN op
    PROVE  FilesTrue(d, With(fl, p, o), With(op, o, [node |-> n, path |-> p]), {}, <<>>, <<>>)
<1> DEFINE g == With(fl, p, o)
           new == [node |-> n, path |-> p]
           u == With(op, o, new)
<1>1. new \in OpenFiles /\ new.node = n /\ new.path = p
  BY DEF OpenFiles
<1> HIDE DEF new
<1>2. /\ DOMAIN g = DOMAIN fl \cup {p} /\ g[p] = o /\ \A q \in DOMAIN fl : q # p => g[q] = fl[q]
      /\ DOMAIN u = DOMAIN op \cup {o} /\ u[o] = new
      /\ \A k \in DOMAIN op : k # o /\ u[k] = op[k]
  BY DEF With
<1> HIDE DEF g, u
<1>3. IsFiniteSet(DOMAIN u)
  BY <1>2, FS_AddElement DEF FilesTrue
<1>4. /\ DOMAIN fl \subseteq StoredPaths
      /\ \A k \in DOMAIN op : op[k] \in OpenFiles
      /\ \A k, l \in DOMAIN op : op[k].node = op[l].node => k = l
      /\ \A q \in DOMAIN fl : fl[q] \in DOMAIN op /\ op[fl[q]].path = q /\ NodeIn(d, q) = op[fl[q]].node
      /\ \A k \in DOMAIN op : op[k].node \in DOMAIN d =>
            NodeIn(d, op[k].path) = op[k].node /\ op[k].path \in DOMAIN fl /\ fl[op[k].path] = k
  BY FilesSettled
<1>5. DOMAIN g \subseteq StoredPaths /\ \A k \in DOMAIN u : u[k] \in OpenFiles
  BY <1>1, <1>2, <1>4
<1>6. \A k, l \in DOMAIN u : u[k].node = u[l].node => k = l
  BY <1>1, <1>2, <1>4
<1>7. ASSUME NEW q \in DOMAIN g
      PROVE  g[q] \in DOMAIN u /\ u[g[q]].path = q /\ NodeIn(d, q) = u[g[q]].node
  <2>1. CASE q = p
    BY <1>1, <1>2, <2>1
  <2>2. CASE q # p
    BY <1>2, <1>4, <2>2
  <2> QED BY <2>1, <2>2
<1>8. ASSUME NEW k \in DOMAIN u, u[k].node \in DOMAIN d
      PROVE  NodeIn(d, u[k].path) = u[k].node /\ u[k].path \in DOMAIN g /\ g[u[k].path] = k
  <2>1. CASE k = o
    BY <1>1, <1>2, <2>1
  <2>2. CASE k # o
    <3>1. k \in DOMAIN op /\ u[k] = op[k]
      BY <1>2, <2>2
    <3>2. NodeIn(d, op[k].path) = op[k].node /\ op[k].path \in DOMAIN fl /\ fl[op[k].path] = k
      BY <1>4, <1>8, <3>1
    <3>3. op[k].path # p
      BY <3>1, <3>2
    <3> QED BY <1>2, <3>1, <3>2, <3>3
  <2> QED BY <2>1, <2>2
<1>9. FilesTrue(d, g, u, {}, <<>>, <<>>)
  BY <1>3, <1>5, <1>6, <1>7, <1>8, FilesSettled
<1> QED BY <1>9 DEF g, u, new

\* What MoveKeys keeps: everything, where Rebase says; what moved goes first.
LEMMA MoveKeysFacts ==
    ASSUME NEW fl, DOMAIN fl \subseteq StoredPaths, NEW s \in StoredPaths, NEW t \in StoredPaths
    PROVE  /\ \A q \in DOMAIN fl : Rebase(q, s, t) \in DOMAIN MoveKeys(fl, s, t)
           /\ \A k \in DOMAIN MoveKeys(fl, s, t) :
                 \E q \in DOMAIN fl : k = Rebase(q, s, t) /\ MoveKeys(fl, s, t)[k] = fl[q]
<1> DEFINE moved == {k \in DOMAIN fl : StartsWith(k, s)}
           rest  == DOMAIN fl \ moved
           all   == {Rebase(m, s, t) : m \in moved} \cup rest
           g     == MoveKeys(fl, s, t)
           is(m, k) == m \in moved /\ Rebase(m, s, t) = k
<1>1. g = [k \in all |-> IF \E m \in moved : Rebase(m, s, t) = k
                         THEN fl[CHOOSE m \in moved : Rebase(m, s, t) = k] ELSE fl[k]]
  BY DEF MoveKeys
<1>2. \A q \in rest : Rebase(q, s, t) = q
  BY RebaseFacts
<1>3. all = {Rebase(q, s, t) : q \in DOMAIN fl}
  BY <1>2
<1>4. ASSUME NEW k \in all PROVE \E q \in DOMAIN fl : k = Rebase(q, s, t) /\ g[k] = fl[q]
  <2>1. CASE \E m \in moved : Rebase(m, s, t) = k
    <3>1. PICK m : m = CHOOSE i \in moved : Rebase(i, s, t) = k
      OBVIOUS
    <3>2. m \in moved /\ Rebase(m, s, t) = k
      BY <2>1, <3>1
    <3>3. g[k] = fl[m]
      BY <1>1, <2>1, <3>1
    <3> QED BY <3>2, <3>3
  <2>2. CASE ~\E m \in moved : Rebase(m, s, t) = k
    <3>1. k \in rest /\ g[k] = fl[k]
      BY <1>1, <2>2
    <3> QED BY <1>2, <3>1
  <2> QED BY <2>1, <2>2
<1>5. DOMAIN g = all /\ g = [k \in all |-> g[k]]
  BY <1>1
<1> HIDE DEF g, all
<1> QED BY <1>3, <1>4, <1>5 DEF g

LEMMA MoveKeysFunction ==
    ASSUME NEW fl, NEW s, NEW t
    PROVE  MoveKeys(fl, s, t) = [k \in DOMAIN MoveKeys(fl, s, t) |-> MoveKeys(fl, s, t)[k]]
BY DEF MoveKeys

PathsRebased(fl, op, u, s, t) ==
    u = [o \in DOMAIN op |->
            [op[o] EXCEPT !.path =
                IF @ \in DOMAIN fl /\ fl[@] = o THEN Rebase(@, s, t) ELSE @]]

\* The files that moved are found where they are now, and know it.
LEMMA FilesRebased ==
    ASSUME NEW d, NEW fl, NEW op, NEW s \in StoredPaths, NEW t \in StoredPaths,
           FilesTrue(d, fl, op, {}, s, t), \A q \in DOMAIN fl : ~StartsWith(q, t),
           NEW u, PathsRebased(fl, op, u, s, t)
    PROVE  FilesTrue(d, MoveKeys(fl, s, t), u, {}, <<>>, <<>>)
<1> DEFINE g == MoveKeys(fl, s, t)
<1>1. /\ DOMAIN fl \subseteq StoredPaths /\ IsFiniteSet(DOMAIN op)
      /\ \A k \in DOMAIN op : op[k] \in OpenFiles
      /\ \A k, l \in DOMAIN op : op[k].node = op[l].node => k = l
      /\ \A q \in DOMAIN fl : fl[q] \in DOMAIN op /\ op[fl[q]].path = q
                              /\ NodeIn(d, Rebase(q, s, t)) = op[fl[q]].node
      /\ \A k \in DOMAIN op : op[k].node \in DOMAIN d =>
            /\ NodeIn(d, Rebase(op[k].path, s, t)) = op[k].node
            /\ op[k].path \in DOMAIN fl /\ fl[op[k].path] = k
  BY DEF FilesTrue
<1>2. /\ \A q \in DOMAIN fl : Rebase(q, s, t) \in DOMAIN g
      /\ \A k \in DOMAIN g : \E q \in DOMAIN fl : k = Rebase(q, s, t) /\ g[k] = fl[q]
  <2>1. DOMAIN fl \subseteq StoredPaths
    BY <1>1
  <2> QED BY <2>1, MoveKeysFacts
<1> HIDE DEF g
<1>3. \A q, p \in DOMAIN fl : Rebase(q, s, t) = Rebase(p, s, t) => q = p
  <2> SUFFICES ASSUME NEW q \in DOMAIN fl, NEW p \in DOMAIN fl, Rebase(q, s, t) = Rebase(p, s, t)
               PROVE  q = p
    OBVIOUS
  <2>1. q \in StoredPaths /\ p \in StoredPaths /\ ~StartsWith(q, t) /\ ~StartsWith(p, t)
    BY <1>1
  <2>2. \A k \in StoredPaths : StartsWith(k, s) => StartsWith(Rebase(k, s, t), t)
    <3> TAKE k \in StoredPaths
    <3> HAVE StartsWith(k, s)
    <3>1. PICK r \in StoredPaths : k = s \o r
      BY PrefixIsConcat
    <3>2. Rebase(k, s, t) = t \o r
      BY <3>1, RebaseFacts
    <3> QED BY <3>2, PrefixIsConcat
  <2>3. \A k \in StoredPaths : ~StartsWith(k, s) => Rebase(k, s, t) = k
    BY RebaseFacts
  <2>4. CASE StartsWith(q, s) /\ StartsWith(p, s)
    BY <2>1, <2>4, RebaseFacts
  <2> QED BY <2>1, <2>2, <2>3, <2>4
<1>4. \A q \in StoredPaths : Rebase(q, s, t) \in StoredPaths
  BY RebaseFacts
<1>5. \A k \in DOMAIN op : op[k].path \in StoredPaths /\ op[k].node \in Files
  BY <1>1 DEF OpenFiles
<1>d. DOMAIN u = DOMAIN op
  BY DEF PathsRebased
<1>6. ASSUME NEW k \in DOMAIN op
      PROVE  /\ u[k] \in OpenFiles /\ u[k].node = op[k].node
             /\ op[k].path \in DOMAIN fl /\ fl[op[k].path] = k => u[k].path = Rebase(op[k].path, s, t)
  <2>1. op[k] \in OpenFiles
    BY <1>1
  <2>2. \A q \in StoredPaths : LET v == [op[k] EXCEPT !.path = q]
                               IN  v \in OpenFiles /\ v.node = op[k].node /\ v.path = q
    BY <2>1 DEF OpenFiles
  <2> DEFINE q == IF op[k].path \in DOMAIN fl /\ fl[op[k].path] = k
                  THEN Rebase(op[k].path, s, t) ELSE op[k].path
  <2>3. u[k] = [op[k] EXCEPT !.path = q]
    BY DEF PathsRebased
  <2>4. q \in StoredPaths
    BY <1>4, <1>5
  <2>5. op[k].path \in DOMAIN fl /\ fl[op[k].path] = k => q = Rebase(op[k].path, s, t)
    OBVIOUS
  <2> HIDE DEF q
  <2> QED BY <2>2, <2>3, <2>4, <2>5
<1>7. DOMAIN g \subseteq StoredPaths
  BY <1>1, <1>2, <1>4
<1>8. ASSUME NEW k \in DOMAIN g
      PROVE  g[k] \in DOMAIN u /\ u[g[k]].path = k /\ NodeIn(d, k) = u[g[k]].node
  <2>1. PICK q \in DOMAIN fl : k = Rebase(q, s, t) /\ g[k] = fl[q]
    BY <1>2
  <2> QED BY <1>1, <1>6, <1>d, <2>1
<1>9. ASSUME NEW k \in DOMAIN u, u[k].node \in DOMAIN d
      PROVE  NodeIn(d, u[k].path) = u[k].node /\ u[k].path \in DOMAIN g /\ g[u[k].path] = k
  <2>1. /\ op[k].path \in DOMAIN fl /\ fl[op[k].path] = k
        /\ NodeIn(d, Rebase(op[k].path, s, t)) = op[k].node
        /\ u[k].path = Rebase(op[k].path, s, t) /\ u[k].node = op[k].node
    BY <1>1, <1>6, <1>9, <1>d
  <2>2. u[k].path \in DOMAIN g
    BY <1>2, <2>1
  <2>3. PICK q \in DOMAIN fl : u[k].path = Rebase(q, s, t) /\ g[u[k].path] = fl[q]
    BY <1>2, <2>2
  <2>4. q = op[k].path
    BY <1>3, <2>1, <2>3
  <2> QED BY <2>1, <2>2, <2>3, <2>4
<1>10. FilesTrue(d, g, u, {}, <<>>, <<>>)
  <2>1. IsFiniteSet(DOMAIN u) /\ \A k \in DOMAIN u : u[k] \in OpenFiles
    BY <1>1, <1>6, <1>d
  <2>2. \A k, l \in DOMAIN u : u[k].node = u[l].node => k = l
    BY <1>1, <1>6, <1>d
  <2> QED BY <1>7, <1>8, <1>9, <2>1, <2>2, FilesSettled
<1> QED BY <1>10 DEF g

-------------------------------------------------------------------------------
(* The cache of folders, from step to step.                                *)

LEMMA CacheWeaker ==
    ASSUME NEW d, NEW c, NEW s, NEW t, NEW pend, NEW more, NEW gone, pend \subseteq more,
           CacheTrue(d, c, s, t, pend, gone)
    PROVE  CacheTrue(d, c, s, t, more, gone)
<1>1. \A dir, p, now : DirTrue(d, dir, p, now, pend) => DirTrue(d, dir, p, now, more)
  BY DEF DirTrue
<1> QED BY <1>1 DEF CacheTrue

\* While nothing moves.
LEMMA CacheSettled ==
    ASSUME NEW d, NEW c, NEW pend, NEW gone
    PROVE  CacheTrue(d, c, <<>>, <<>>, pend, gone) <=>
              /\ DOMAIN c \subseteq StoredPaths /\ c \in [DOMAIN c -> Dirs]
              /\ \A p \in DOMAIN c \ gone : DirTrue(d, c[p], p, p, pend)
<1>1. <<>> \in StoredPaths
  BY EmptySeq DEF StoredPaths
<1>2. \A q \in StoredPaths : Rebase(q, <<>>, <<>>) = q
  BY <1>1, RebaseSame
<1> QED BY <1>2 DEF CacheTrue

\* The kids of a folder on two disks that agree but for the thing n.
SameBut(d, e, n) ==
    /\ \A m : m # n => (m \in DOMAIN d <=> m \in DOMAIN e)
    /\ \A m \in DOMAIN d : m # n => e[m] = d[m]

LEMMA OtherKids ==
    ASSUME NEW d, NEW e, NEW n, NEW folder, SameBut(d, e, n)
    PROVE  \A g : g \in Kids(e, folder) <=>
              \/ \E m \in DOMAIN d : m # n /\ d[m].in = folder /\ g = EntryOf(d, m)
              \/ n \in DOMAIN e /\ e[n].in = folder /\ g = EntryOf(e, n)
<1>1. \A g : g \in Kids(e, folder) <=> \E m \in DOMAIN e : e[m].in = folder /\ g = EntryOf(e, m)
  BY DEF Kids
<1>2. \A m \in DOMAIN d : m # n => EntryOf(e, m) = EntryOf(d, m)
  BY DEF EntryOf, SameBut
<1> QED BY <1>1, <1>2 DEF SameBut

LEMMA CacheMade ==
    ASSUME NEW d, IsVault(d), NEW c, CacheTrue(d, c, <<>>, <<>>, {}, {}),
           NEW f \in StoredPaths, NEW x \in StoredNames, NEW n,
           NEW e, More(d, e, n, f, x)
    PROVE  CacheTrue(e, c, <<>>, <<>>, {<<f, Fold(x.name)>>}, {})
<1> DEFINE pend == {<<f, Fold(x.name)>>}
<1>0. /\ DOMAIN e = DOMAIN d \cup {n} /\ n \notin DOMAIN d /\ e[n] = Put(d, f, x)
      /\ \A m \in DOMAIN d : e[m] = d[m]
      /\ \A q \in StoredPaths : q # Append(f, x) => NodeIn(e, q) = NodeIn(d, q)
      /\ NodeIn(d, Append(f, x)) = None
  BY DEF More
<1> USE <1>0
<1>s. SameBut(d, e, n)
  BY DEF SameBut
<1>1. ASSUME NEW p \in DOMAIN c PROVE DirTrue(e, c[p], p, p, pend)
  <2>1. DirTrue(d, c[p], p, p, {}) /\ p \in StoredPaths
    BY CacheSettled
  <2>2. NodeIn(d, p) \in Folders /\ c[p].iv = NodeIn(d, p) /\ NodeIn(d, p) # None
    BY <2>1, TreeAssumption DEF DirTrue
  <2>3. NodeIn(e, p) = NodeIn(d, p)
    BY <2>1, <2>2
  <2>4. ASSUME c[p].index.built, NEW g \in c[p].index.entries \cup Kids(e, c[p].iv),
               <<p, Fold(g.name)>> \notin pend
        PROVE  g \in c[p].index.entries /\ g \in Kids(e, c[p].iv)
    <3>1. \A h \in c[p].index.entries \cup Kids(d, c[p].iv) :
             h \in c[p].index.entries /\ h \in Kids(d, c[p].iv)
      BY <2>1, <2>4 DEF DirTrue
    <3>2. \A h : h \in Kids(d, c[p].iv) <=> \E m \in DOMAIN d : d[m].in = c[p].iv /\ h = EntryOf(d, m)
      BY DEF Kids
    <3>3. \A h : h \in Kids(e, c[p].iv) <=>
              \/ \E m \in DOMAIN d : m # n /\ d[m].in = c[p].iv /\ h = EntryOf(d, m)
              \/ n \in DOMAIN e /\ e[n].in = c[p].iv /\ h = EntryOf(e, n)
      BY <1>s, OtherKids
    <3>4. e[n].in = c[p].iv /\ g = EntryOf(e, n) => <<p, Fold(g.name)>> = <<f, Fold(x.name)>>
      <4>1. e[n].in = NodeIn(d, f) /\ EntryOf(e, n).name = x.name
        BY DEF Put, EntryOf
      <4>2. e[n].in = c[p].iv => p = f
        BY <2>1, <2>2, <4>1, OnePath
      <4> QED BY <4>1, <4>2
    <3> QED BY <2>4, <3>1, <3>2, <3>3, <3>4
  <2> QED BY <2>2, <2>3, <2>4 DEF DirTrue
<1> QED BY <1>1, CacheSettled

\* n, called x in the folder at f, is gone.
LEMMA CacheDropped ==
    ASSUME NEW d, IsVault(d), NEW c, NEW old, CacheTrue(d, c, <<>>, <<>>, old, {}),
           NEW f \in StoredPaths, NEW x \in StoredNames, NEW n \in DOMAIN d,
           NodeIn(d, Append(f, x)) = n,
           NEW e, Less(d, e, n)
    PROVE  CacheTrue(e, c, <<>>, <<>>, old \cup {<<f, Fold(x.name)>>},
                     IF n \in Folders THEN {Append(f, x)} ELSE {})
<1> DEFINE pend == old \cup {<<f, Fold(x.name)>>}
           gone == IF n \in Folders THEN {Append(f, x)} ELSE {}
<1>u. /\ DOMAIN e = DOMAIN d \ {n} /\ \A m \in DOMAIN e : e[m] = d[m]
      /\ \A q \in StoredPaths : NodeIn(e, q) = IF NodeIn(d, q) = n THEN None ELSE NodeIn(d, q)
  BY DEF Less
<1> USE <1>u
<1>0. /\ d[n].in = NodeIn(d, f) /\ d[n].name = x.name
      /\ Append(f, x) \in StoredPaths /\ n # None
  BY NodeFacts, AppendFacts, VaultFacts
<1>s. SameBut(d, e, n)
  BY DEF SameBut
<1>1. ASSUME NEW p \in DOMAIN c \ gone PROVE DirTrue(e, c[p], p, p, pend)
  <2>1. DirTrue(d, c[p], p, p, old) /\ p \in StoredPaths
    BY CacheSettled
  <2>2. NodeIn(d, p) \in Folders /\ c[p].iv = NodeIn(d, p) /\ NodeIn(d, p) # None
    BY <2>1, TreeAssumption DEF DirTrue
  <2>3. NodeIn(d, p) # n
    <3>1. NodeIn(d, p) = n => p = Append(f, x)
      BY <1>0, <2>1, OnePath
    <3> QED BY <1>1, <2>2, <3>1
  <2>4. NodeIn(e, p) = NodeIn(d, p)
    BY <2>1, <2>3
  <2>5. ASSUME c[p].index.built, NEW g \in c[p].index.entries \cup Kids(e, c[p].iv),
               <<p, Fold(g.name)>> \notin pend
        PROVE  g \in c[p].index.entries /\ g \in Kids(e, c[p].iv)
    <3>1. \A h \in c[p].index.entries \cup Kids(d, c[p].iv) : <<p, Fold(h.name)>> \notin old =>
             h \in c[p].index.entries /\ h \in Kids(d, c[p].iv)
      BY <2>1, <2>5 DEF DirTrue
    <3>2. \A h : h \in Kids(d, c[p].iv) <=> \E m \in DOMAIN d : d[m].in = c[p].iv /\ h = EntryOf(d, m)
      BY DEF Kids
    <3>3. \A h : h \in Kids(e, c[p].iv) <=>
              \/ \E m \in DOMAIN d : m # n /\ d[m].in = c[p].iv /\ h = EntryOf(d, m)
              \/ n \in DOMAIN e /\ e[n].in = c[p].iv /\ h = EntryOf(e, n)
      BY <1>s, OtherKids
    <3>4. d[n].in = c[p].iv /\ g = EntryOf(d, n) => <<p, Fold(g.name)>> = <<f, Fold(x.name)>>
      <4>1. EntryOf(d, n).name = x.name
        BY <1>0 DEF EntryOf
      <4>2. d[n].in = c[p].iv => p = f
        BY <1>0, <2>1, <2>2, OnePath
      <4> QED BY <4>1, <4>2
    <3>5. <<p, Fold(g.name)>> \notin old /\ <<p, Fold(g.name)>> # <<f, Fold(x.name)>>
      BY <2>5
    <3> HIDE DEF pend
    <3>6. g \in c[p].index.entries /\ g \in Kids(d, c[p].iv)
      BY <2>5, <3>1, <3>2, <3>3, <3>5
    <3> QED BY <3>2, <3>3, <3>4, <3>5, <3>6
  <2> QED BY <2>2, <2>4, <2>5 DEF DirTrue
<1> QED BY <1>1, CacheSettled

\* n, called x in the folder at f, is called y in the folder at p now.
LEMMA CacheMoved ==
    ASSUME NEW d, IsVault(d), NEW c, NEW old, CacheTrue(d, c, <<>>, <<>>, old, {}),
           NEW f \in StoredPaths, NEW x \in StoredNames, NEW p \in StoredPaths, NEW y \in StoredNames,
           NEW n \in DOMAIN d, NodeIn(d, Append(f, x)) = n,
           NEW e, Shifted(d, e, n, Append(f, x), p, y)
    PROVE  CacheTrue(e, c, Append(f, x), Append(p, y),
                     old \cup {<<f, Fold(x.name)>>, <<p, Fold(y.name)>>}, {})
<1> DEFINE pend == old \cup {<<f, Fold(x.name)>>, <<p, Fold(y.name)>>}
           s == Append(f, x)
           t == Append(p, y)
<1>u. /\ DOMAIN e = DOMAIN d /\ e[n] = Put(d, p, y) /\ \A m \in DOMAIN d : m # n => e[m] = d[m]
      /\ \A q \in StoredPaths : NodeIn(d, q) # None => NodeIn(e, Rebase(q, s, t)) = NodeIn(d, q)
  BY DEF Shifted
<1> USE <1>u
<1>0. d[n].in = NodeIn(d, f) /\ d[n].name = x.name
  BY NodeFacts
<1>s. SameBut(d, e, n)
  BY DEF SameBut
<1>1. ASSUME NEW q \in DOMAIN c PROVE DirTrue(e, c[q], q, Rebase(q, s, t), pend)
  <2>1. DirTrue(d, c[q], q, q, old) /\ q \in StoredPaths
    BY CacheSettled
  <2>2. NodeIn(d, q) \in Folders /\ c[q].iv = NodeIn(d, q) /\ NodeIn(d, q) # None
    BY <2>1, TreeAssumption DEF DirTrue
  <2>4. NodeIn(e, Rebase(q, s, t)) = NodeIn(d, q)
    BY <2>1, <2>2
  <2>5. ASSUME c[q].index.built, NEW g \in c[q].index.entries \cup Kids(e, c[q].iv),
               <<q, Fold(g.name)>> \notin pend
        PROVE  g \in c[q].index.entries /\ g \in Kids(e, c[q].iv)
    <3>1. \A h \in c[q].index.entries \cup Kids(d, c[q].iv) : <<q, Fold(h.name)>> \notin old =>
             h \in c[q].index.entries /\ h \in Kids(d, c[q].iv)
      BY <2>1, <2>5 DEF DirTrue
    <3>2. \A h : h \in Kids(d, c[q].iv) <=> \E m \in DOMAIN d : d[m].in = c[q].iv /\ h = EntryOf(d, m)
      BY DEF Kids
    <3>3. \A h : h \in Kids(e, c[q].iv) <=>
              \/ \E m \in DOMAIN d : m # n /\ d[m].in = c[q].iv /\ h = EntryOf(d, m)
              \/ n \in DOMAIN e /\ e[n].in = c[q].iv /\ h = EntryOf(e, n)
      BY <1>s, OtherKids
    <3>4. d[n].in = c[q].iv /\ g = EntryOf(d, n) => <<q, Fold(g.name)>> = <<f, Fold(x.name)>>
      <4>1. EntryOf(d, n).name = x.name
        BY <1>0 DEF EntryOf
      <4>2. d[n].in = c[q].iv => q = f
        BY <1>0, <2>1, <2>2, OnePath
      <4> QED BY <4>1, <4>2
    <3>5. e[n].in = c[q].iv /\ g = EntryOf(e, n) => <<q, Fold(g.name)>> = <<p, Fold(y.name)>>
      <4>1. EntryOf(e, n).name = y.name /\ e[n].in = NodeIn(d, p)
        BY DEF EntryOf, Put
      <4>2. e[n].in = c[q].iv => q = p
        BY <2>1, <2>2, <4>1, OnePath
      <4> QED BY <4>1, <4>2
    <3>6. /\ <<q, Fold(g.name)>> \notin old /\ <<q, Fold(g.name)>> # <<f, Fold(x.name)>>
          /\ <<q, Fold(g.name)>> # <<p, Fold(y.name)>>
      BY <2>5
    <3> HIDE DEF pend
    <3>7. g \in c[q].index.entries /\ g \in Kids(d, c[q].iv)
      BY <2>5, <3>1, <3>2, <3>3, <3>5, <3>6
    <3> QED BY <3>2, <3>3, <3>4, <3>6, <3>7
  <2> QED BY <2>2, <2>4, <2>5 DEF DirTrue
<1>2. DOMAIN c \subseteq StoredPaths /\ c \in [DOMAIN c -> Dirs]
  BY DEF CacheTrue
<1> QED BY <1>1, <1>2 DEF CacheTrue

\* A new folder is remembered with its empty index.
LEMMA CacheKept ==
    ASSUME NEW d, IsVault(d), NEW c, NEW pend, CacheTrue(d, c, <<>>, <<>>, pend, {}),
           NEW t \in StoredPaths, NEW n \in Folders, NodeIn(d, t) = n, Childless(d, n)
    PROVE  CacheTrue(d, With(c, t, [iv |-> n, index |-> Index({})]), <<>>, <<>>, pend, {})
<1> DEFINE new == [iv |-> n, index |-> Index({})]
           e == With(c, t, new)
<1>1. new \in Dirs /\ new.iv = n /\ new.index.built /\ new.index.entries = {}
  BY DEF Dirs, Index
<1> HIDE DEF new
<1>2. /\ DOMAIN e = DOMAIN c \cup {t} /\ e[t] = new /\ \A q \in DOMAIN c : q # t => e[q] = c[q]
      /\ e = [q \in DOMAIN e |-> e[q]]
  BY DEF With
<1> HIDE DEF e
<1>3. DOMAIN e \subseteq StoredPaths /\ e \in [DOMAIN e -> Dirs]
  <2>1. DOMAIN c \subseteq StoredPaths /\ c \in [DOMAIN c -> Dirs]
    BY DEF CacheTrue
  <2>2. \A q \in DOMAIN e : e[q] \in Dirs
    BY <1>1, <1>2, <2>1
  <2> QED BY <1>2, <2>1, <2>2
<1>4. Kids(d, n) = {}
  BY DEF Kids, Childless
<1>5. DirTrue(d, e[t], t, t, pend)
  BY <1>1, <1>2, <1>4 DEF DirTrue
<1>6. \A q \in DOMAIN e : DirTrue(d, e[q], q, q, pend)
  BY <1>2, <1>5, CacheSettled
<1>7. CacheTrue(d, e, <<>>, <<>>, pend, {})
  BY <1>3, <1>6, CacheSettled
<1> QED BY <1>7 DEF e, new

LEMMA CacheForgotten ==
    ASSUME NEW d, NEW c, NEW pend, NEW t \in StoredPaths, CacheTrue(d, c, <<>>, <<>>, pend, {t}),
           NEW keys, t \in keys
    PROVE  CacheTrue(d, Without(c, keys \cap DOMAIN c), <<>>, <<>>, pend, {})
<1> DEFINE e == Without(c, keys \cap DOMAIN c)
<1>1. DOMAIN e = DOMAIN c \ keys /\ e = [q \in DOMAIN e |-> c[q]]
  BY DEF Without
<1>2. \A q \in DOMAIN e : e[q] = c[q]
  BY <1>1
<1> HIDE DEF e
<1>3. /\ DOMAIN c \subseteq StoredPaths /\ c \in [DOMAIN c -> Dirs]
      /\ \A p \in DOMAIN c \ {t} : DirTrue(d, c[p], p, p, pend)
  BY CacheSettled
<1>4. DOMAIN e \subseteq StoredPaths /\ e \in [DOMAIN e -> Dirs]
  BY <1>1, <1>3
<1>5. \A q \in DOMAIN e : DirTrue(d, e[q], q, q, pend)
  BY <1>1, <1>2, <1>3
<1>6. CacheTrue(d, e, <<>>, <<>>, pend, {})
  BY <1>4, <1>5, CacheSettled
<1> QED BY <1>6 DEF e

\* The folders that moved are remembered where they are now.
LEMMA CacheRebased ==
    ASSUME NEW d, NEW c, NEW s \in StoredPaths, NEW t \in StoredPaths, CacheTrue(d, c, s, t, {}, {})
    PROVE  CacheTrue(d, MoveKeys(c, s, t), <<>>, <<>>, {}, {})
<1> DEFINE e == MoveKeys(c, s, t)
<1>1. DOMAIN c \subseteq StoredPaths /\ c \in [DOMAIN c -> Dirs]
  BY DEF CacheTrue
<1>2. \A k \in DOMAIN e : \E q \in DOMAIN c : k = Rebase(q, s, t) /\ e[k] = c[q]
  BY <1>1, MoveKeysFacts
<1>3. e = [k \in DOMAIN e |-> e[k]]
  BY MoveKeysFunction
<1> HIDE DEF e
<1>4. ASSUME NEW k \in DOMAIN e
      PROVE  k \in StoredPaths /\ e[k] \in Dirs /\ DirTrue(d, e[k], k, k, {})
  <2>1. PICK q \in DOMAIN c : k = Rebase(q, s, t) /\ e[k] = c[q]
    BY <1>2
  <2>2. q \in StoredPaths /\ c[q] \in Dirs /\ DirTrue(d, c[q], q, k, {})
    BY <1>1, <2>1 DEF CacheTrue
  <2>3. k \in StoredPaths
    BY <2>1, <2>2, RebaseFacts
  <2> QED BY <2>1, <2>2, <2>3 DEF DirTrue
<1>5. DOMAIN e \subseteq StoredPaths /\ e \in [DOMAIN e -> Dirs]
  BY <1>3, <1>4
<1>6. CacheTrue(d, e, <<>>, <<>>, {}, {})
  BY <1>4, <1>5, CacheSettled
<1> QED BY <1>6 DEF e

\* What index_insert and index_remove make of the cache: "adds" is the entry
\* inserted, if any.
Reindexed(c, p, name, adds) ==
    IF p \notin DOMAIN c \/ ~c[p].index.built THEN c
    ELSE [c EXCEPT ![p].index.entries = {e \in @ : Fold(e.name) # Fold(name)} \cup adds]

LEMMA ReindexedFacts ==
    ASSUME NEW c, c \in [DOMAIN c -> Dirs], NEW p, NEW name, NEW adds, adds \subseteq AllEntries
    PROVE  /\ DOMAIN Reindexed(c, p, name, adds) = DOMAIN c
           /\ Reindexed(c, p, name, adds) \in [DOMAIN c -> Dirs]
           /\ \A q \in DOMAIN c :
                 /\ Reindexed(c, p, name, adds)[q].iv = c[q].iv
                 /\ Reindexed(c, p, name, adds)[q].index.built <=> c[q].index.built
                 /\ q # p => Reindexed(c, p, name, adds)[q] = c[q]
                 /\ q = p /\ c[q].index.built => \A g : g \in Reindexed(c, p, name, adds)[q].index.entries
                       <=> (g \in adds \/ (g \in c[q].index.entries /\ Fold(g.name) # Fold(name)))
<1>1. CASE p \notin DOMAIN c \/ ~c[p].index.built
  BY <1>1 DEF Reindexed
<1>2. CASE p \in DOMAIN c /\ c[p].index.built
  <2> DEFINE kept == {e \in c[p].index.entries : Fold(e.name) # Fold(name)} \cup adds
             new == [c[p] EXCEPT !.index.entries = kept]
             r == [c EXCEPT ![p] = new]
  <2>1. Reindexed(c, p, name, adds) = r
    BY <1>2 DEF Reindexed
  <2>2. c[p] \in Dirs
    BY <1>2
  <2>3. kept \subseteq AllEntries
    BY <2>2 DEF Dirs
  <2>4. \A g : g \in kept <=> (g \in adds \/ (g \in c[p].index.entries /\ Fold(g.name) # Fold(name)))
    OBVIOUS
  <2> HIDE DEF kept
  <2>5. new \in Dirs /\ new.iv = c[p].iv /\ (new.index.built <=> c[p].index.built) /\ new.index.entries = kept
    BY <2>2, <2>3 DEF Dirs
  <2> HIDE DEF new
  <2>6. DOMAIN r = DOMAIN c /\ r \in [DOMAIN c -> Dirs] /\ r[p] = new /\ \A q \in DOMAIN c : q # p => r[q] = c[q]
    BY <1>2, <2>5
  <2> HIDE DEF r
  <2>7. \A q \in DOMAIN c :
           /\ r[q].iv = c[q].iv /\ (r[q].index.built <=> c[q].index.built)
           /\ q # p => r[q] = c[q]
           /\ q = p /\ c[q].index.built => \A g : g \in r[q].index.entries
                 <=> (g \in adds \/ (g \in c[q].index.entries /\ Fold(g.name) # Fold(name)))
    BY <2>4, <2>5, <2>6
  <2> QED BY <2>1, <2>6, <2>7
<1> QED BY <1>1, <1>2

\* A name is reindexed: pending or with the truth about it.
LEMMA CacheReindexed ==
    ASSUME NEW d, NEW c, NEW s, NEW t, NEW pend, CacheTrue(d, c, s, t, pend, {}),
           NEW p \in StoredPaths, NEW name, NEW adds, adds \subseteq AllEntries,
           \A e \in adds : Fold(e.name) = Fold(name),
           NEW rest,
           \A a \in pend : a \in rest \/ a = <<p, Fold(name)>>,
           \/ <<p, Fold(name)>> \in rest
           \/ /\ Rebase(p, s, t) = p
              /\ \A g : Fold(g.name) = Fold(name) => (g \in Kids(d, NodeIn(d, p)) <=> g \in adds)
    PROVE  CacheTrue(d, Reindexed(c, p, name, adds), s, t, rest, {})
<1> DEFINE r == Reindexed(c, p, name, adds)
<1>1. DOMAIN c \subseteq StoredPaths /\ c \in [DOMAIN c -> Dirs]
  BY DEF CacheTrue
<1>2. /\ DOMAIN r = DOMAIN c /\ r \in [DOMAIN c -> Dirs]
      /\ \A q \in DOMAIN c :
            /\ r[q].iv = c[q].iv /\ (r[q].index.built <=> c[q].index.built)
            /\ q # p => r[q] = c[q]
            /\ q = p /\ c[q].index.built => \A g : g \in r[q].index.entries
                 <=> (g \in adds \/ (g \in c[q].index.entries /\ Fold(g.name) # Fold(name)))
  BY <1>1, ReindexedFacts
<1> HIDE DEF r
<1>3. ASSUME NEW q \in DOMAIN c PROVE DirTrue(d, r[q], q, Rebase(q, s, t), rest)
  <2>1. DirTrue(d, c[q], q, Rebase(q, s, t), pend)
    BY DEF CacheTrue
  <2>2. NodeIn(d, Rebase(q, s, t)) \in Folders /\ r[q].iv = NodeIn(d, Rebase(q, s, t)) /\ r[q].iv = c[q].iv
    BY <1>2, <2>1 DEF DirTrue
  <2>3. ASSUME r[q].index.built, NEW g \in r[q].index.entries \cup Kids(d, r[q].iv),
               <<q, Fold(g.name)>> \notin rest
        PROVE  g \in r[q].index.entries /\ g \in Kids(d, r[q].iv)
    <3>1. \A h \in c[q].index.entries \cup Kids(d, c[q].iv) : <<q, Fold(h.name)>> \notin pend =>
             h \in c[q].index.entries /\ h \in Kids(d, c[q].iv)
      BY <1>2, <2>1, <2>3 DEF DirTrue
    <3>2. CASE q # p
      <4>1. <<q, Fold(g.name)>> \notin pend
        BY <2>3, <3>2
      <4> QED BY <1>2, <2>2, <2>3, <3>1, <3>2, <4>1
    <3>3. CASE q = p /\ Fold(g.name) # Fold(name)
      <4>1. <<q, Fold(g.name)>> \notin pend
        BY <2>3, <3>3
      <4>2. g \notin adds
        BY <3>3
      <4>3. g \in r[q].index.entries <=> g \in c[q].index.entries
        BY <1>2, <2>3, <3>3, <4>2
      <4> QED BY <2>2, <2>3, <3>1, <4>1, <4>3
    <3>4. CASE q = p /\ Fold(g.name) = Fold(name)
      <4>1. Rebase(p, s, t) = p /\ (g \in Kids(d, NodeIn(d, p)) <=> g \in adds)
        BY <2>3, <3>4
      <4>2. r[q].iv = NodeIn(d, p)
        BY <2>2, <3>4, <4>1
      <4>3. g \in r[q].index.entries <=> g \in adds
        BY <1>2, <2>3, <3>4
      <4> QED BY <2>3, <4>1, <4>2, <4>3
    <3> QED BY <3>2, <3>3, <3>4
  <2> QED BY <2>2, <2>3 DEF DirTrue
<1>4. DOMAIN r \subseteq StoredPaths /\ r \in [DOMAIN r -> Dirs]
  BY <1>1, <1>2
<1>5. \A q \in DOMAIN r : DirTrue(d, r[q], q, Rebase(q, s, t), rest)
  BY <1>2, <1>3
<1>6. CacheTrue(d, r, s, t, rest, {})
  BY <1>4, <1>5 DEF CacheTrue
<1> QED BY <1>6 DEF r

-------------------------------------------------------------------------------
(* What is left to do, as a sequence of steps.                             *)

Kinds == {"sidecar", "unsidecar", "create", "unlink", "move", "index", "unindex", "keepDir",
          "remember", "forget", "dropFile", "moveDirs", "moveFiles"}

Steps == [do : Kinds, node : Folders \cup Files, path : StoredPaths]
         \cup [do : Kinds, path : StoredPaths]
         \cup [do : Kinds, path : StoredPaths, entry : AllEntries]
         \cup [do : Kinds, path : StoredPaths, to : StoredPaths]

LEMMA FirstAndRest ==
    ASSUME NEW a \in Steps, NEW rest \in Seq(Steps)
    PROVE  /\ <<a>> \in Seq(Steps) /\ <<a>> \o rest \in Seq(Steps) /\ <<a>> \o rest # <<>>
           /\ Head(<<a>> \o rest) = a /\ Tail(<<a>> \o rest) = rest
<1> DEFINE w == <<a>> \o rest
<1>1. <<a>> \in Seq(Steps) /\ Len(<<a>>) = 1 /\ <<a>>[1] = a
  OBVIOUS
<1>2. Len(rest) \in Nat
  BY LenProperties
<1>3. /\ w \in Seq(Steps) /\ Len(w) = 1 + Len(rest)
      /\ \A i \in 1..Len(<<a>>) + Len(rest) :
            w[i] = IF i <= Len(<<a>>) THEN <<a>>[i] ELSE rest[i - Len(<<a>>)]
  BY <1>1, ConcatProperties
<1>4. w # <<>>
  BY <1>2, <1>3, EmptySeq
<1>5. Head(w) = a
  <2>1. w[1] = a
    BY <1>1, <1>2, <1>3
  <2> HIDE DEF w
  <2> QED BY <1>3, <1>4, <2>1, HeadTailProperties
<1>6. Tail(w) = rest
  <2>1. Tail(w) \in Seq(Steps) /\ Len(Tail(w)) = Len(w) - 1 /\ \A i \in 1..Len(Tail(w)) : Tail(w)[i] = w[i + 1]
    <3> HIDE DEF w
    <3> QED BY <1>3, <1>4, HeadTailProperties
  <2>2. Len(Tail(w)) = Len(rest)
    BY <1>2, <1>3, <2>1
  <2>3. ASSUME NEW i \in 1..Len(rest) PROVE Tail(w)[i] = rest[i]
    <3>1. i + 1 \in 1..Len(<<a>>) + Len(rest) /\ ~(i + 1 <= Len(<<a>>)) /\ (i + 1) - Len(<<a>>) = i
      BY <1>1, <1>2
    <3> HIDE DEF w
    <3> QED BY <1>3, <2>1, <2>2, <3>1
  <2> HIDE DEF w
  <2> QED BY <2>1, <2>2, <2>3, SeqEqual
<1> QED BY <1>1, <1>3, <1>4, <1>5, <1>6

LEMMA StepTypes ==
    /\ \A what \in Kinds, n \in Folders \cup Files, p \in StoredPaths :
          [do |-> what, node |-> n, path |-> p] \in Steps
    /\ \A what \in Kinds, p \in StoredPaths : [do |-> what, path |-> p] \in Steps
    /\ \A what \in Kinds, p \in StoredPaths, e \in AllEntries :
          [do |-> what, path |-> p, entry |-> e] \in Steps
    /\ \A what \in Kinds, p, q \in StoredPaths : [do |-> what, path |-> p, to |-> q] \in Steps
BY DEF Steps

LEMMA TodoTypes ==
    /\ \A what \in Kinds, n \in Folders \cup Files, p \in StoredPaths :
          /\ Links(what, n, p) \in Seq(Steps)
          /\ \A rest \in Seq(Steps) : Links(what, n, p) \o rest \in Seq(Steps)
    /\ \A what \in Kinds, p \in StoredPaths :
          /\ OnPath(what, p) \in Seq(Steps)
          /\ \A rest \in Seq(Steps) : OnPath(what, p) \o rest \in Seq(Steps)
    /\ \A what \in Kinds, p \in StoredPaths, e \in AllEntries :
          /\ OnIndex(what, p, e) \in Seq(Steps)
          /\ \A rest \in Seq(Steps) : OnIndex(what, p, e) \o rest \in Seq(Steps)
    /\ \A what \in Kinds, p, q \in StoredPaths :
          /\ Moves(what, p, q) \in Seq(Steps)
          /\ \A rest \in Seq(Steps) : Moves(what, p, q) \o rest \in Seq(Steps)
<1>5. \A a \in Steps : <<a>> \in Seq(Steps) /\ \A rest \in Seq(Steps) : <<a>> \o rest \in Seq(Steps)
  BY FirstAndRest
<1> QED BY <1>5, StepTypes DEF Links, OnPath, OnIndex, Moves

LEMMA LongTypes ==
    ASSUME NEW name, NEW steps \in Seq(Steps), NEW rest \in Seq(Steps)
    PROVE  /\ IfLong(name, steps) \in Seq(Steps) /\ IfLong(name, steps) \o rest \in Seq(Steps)
           /\ name \in Long => IfLong(name, steps) = steps
           /\ name \notin Long => IfLong(name, steps) \o rest = rest
<1>1. <<>> \in Seq(Steps) /\ <<>> \o rest = rest
  BY EmptySeq, ConcatEmptySeq
<1>2. CASE name \in Long
  <2>1. steps \o rest \in Seq(Steps)
    BY ConcatProperties
  <2> QED BY <1>2, <2>1 DEF IfLong
<1>3. CASE name \notin Long
  BY <1>1, <1>3 DEF IfLong
<1> QED BY <1>2, <1>3

LEMMA NextStep ==
    ASSUME NEW a \in Steps, NEW rest \in Seq(Steps), job = <<a>> \o rest, Continue
    PROVE  /\ UNCHANGED <<held, left>>
           /\ \/ Gone(a)
              \/ job' = rest /\ (OnDisk(a) \/ Reindex(a) \/ OnDirs(a) \/ OnFiles(a))
<1>1. Head(job) = a /\ Tail(job) = rest
  BY FirstAndRest
<1> QED BY <1>1 DEF Continue

-------------------------------------------------------------------------------
(* Each kind of step.                                                      *)

LEMMA DoSidecar ==
    ASSUME NEW p \in StoredPaths, NEW rest \in Seq(Steps), job = OnPath("sidecar", p) \o rest, Continue
    PROVE  /\ job' = rest /\ sidecars' = sidecars \cup {At(p)}
           /\ UNCHANGED <<disk, dirs, files, opened, held, left>>
<1> DEFINE a == [do |-> "sidecar", path |-> p]
<1>0. a \in Steps
  BY StepTypes DEF Kinds
<1>1. a \in Steps /\ job = <<a>> \o rest
  BY <1>0 DEF OnPath
<1>2. a.do = "sidecar" /\ a.path = p
  OBVIOUS
<1> HIDE DEF a
<1> QED BY <1>1, <1>2, NextStep DEF Gone, OnDisk, Reindex, OnDirs, OnFiles

LEMMA DoUnsidecar ==
    ASSUME NEW p \in StoredPaths, NEW rest \in Seq(Steps), job = OnPath("unsidecar", p) \o rest, Continue
    PROVE  /\ job' = rest /\ sidecars' = sidecars \ {At(p)}
           /\ UNCHANGED <<disk, dirs, files, opened, held, left>>
<1> DEFINE a == [do |-> "unsidecar", path |-> p]
<1>0. a \in Steps
  BY StepTypes DEF Kinds
<1>1. a \in Steps /\ job = <<a>> \o rest
  BY <1>0 DEF OnPath
<1>2. a.do = "unsidecar" /\ a.path = p
  OBVIOUS
<1> HIDE DEF a
<1> QED BY <1>1, <1>2, NextStep DEF Gone, OnDisk, Reindex, OnDirs, OnFiles

LEMMA DoCreate ==
    ASSUME NEW n \in Folders \cup Files, NEW p \in StoredPaths, NEW rest \in Seq(Steps),
           job = Links("create", n, p) \o rest, Continue
    PROVE  /\ job' = rest /\ disk' = With(disk, n, At(p))
           /\ UNCHANGED <<sidecars, dirs, files, opened, held, left>>
<1> DEFINE a == [do |-> "create", node |-> n, path |-> p]
<1>0. a \in Steps
  BY StepTypes DEF Kinds
<1>1. a \in Steps /\ job = <<a>> \o rest
  BY <1>0 DEF Links
<1>2. a.do = "create" /\ a.path = p /\ a.node = n
  OBVIOUS
<1> HIDE DEF a
<1> QED BY <1>1, <1>2, NextStep DEF Gone, OnDisk, Reindex, OnDirs, OnFiles

\* Refused, or done.
LEMMA DoUnlink ==
    ASSUME NEW p \in StoredPaths, NEW rest \in Seq(Steps), job = OnPath("unlink", p) \o rest, Continue
    PROVE  /\ UNCHANGED <<dirs, files, opened, held, left>>
           /\ \/ job' = Idle /\ UNCHANGED <<disk, sidecars>>
              \/ /\ job' = rest
                 /\ disk' = Without(disk, Inside(NodeAt(p)))
                 /\ sidecars' = {s \in sidecars : s.in \notin Inside(NodeAt(p))}
<1> DEFINE a == [do |-> "unlink", path |-> p]
<1>0. a \in Steps
  BY StepTypes DEF Kinds
<1>1. a \in Steps /\ job = <<a>> \o rest
  BY <1>0 DEF OnPath
<1>2. a.do = "unlink" /\ a.path = p
  OBVIOUS
<1> HIDE DEF a
<1>3. /\ UNCHANGED <<held, left>>
      /\ \/ Gone(a)
         \/ job' = rest /\ (OnDisk(a) \/ Reindex(a) \/ OnDirs(a) \/ OnFiles(a))
  BY <1>1, NextStep
<1>4. ~Reindex(a) /\ ~OnDirs(a) /\ ~OnFiles(a)
  BY <1>2 DEF Reindex, OnDirs, OnFiles
<1>5. Gone(a) => job' = Idle /\ UNCHANGED <<disk, sidecars, dirs, files, opened>>
  BY DEF Gone
<1>6. OnDisk(a) => /\ UNCHANGED <<dirs, files, opened>>
                   /\ disk' = Without(disk, Inside(NodeAt(p)))
                   /\ sidecars' = {s \in sidecars : s.in \notin Inside(NodeAt(p))}
  BY <1>2 DEF OnDisk
<1> QED BY <1>3, <1>4, <1>5, <1>6

LEMMA DoMove ==
    ASSUME NEW p \in StoredPaths, NEW q \in StoredPaths, NEW rest \in Seq(Steps),
           job = Moves("move", p, q) \o rest, Continue, NodeAt(p) # None, "move" \notin Faults
    PROVE  /\ job' = rest
           /\ disk' = [Without(disk, {NodeAt(q)}) EXCEPT ![NodeAt(p)] = At(q)]
           /\ UNCHANGED <<sidecars, dirs, files, opened, held, left>>
<1> DEFINE a == [do |-> "move", path |-> p, to |-> q]
<1>0. a \in Steps
  BY StepTypes DEF Kinds
<1>1. a \in Steps /\ job = <<a>> \o rest
  BY <1>0 DEF Moves
<1>2. a.do = "move" /\ a.path = p /\ a.to = q
  OBVIOUS
<1> HIDE DEF a
<1>3. /\ UNCHANGED <<held, left>>
      /\ \/ Gone(a)
         \/ job' = rest /\ (OnDisk(a) \/ Reindex(a) \/ OnDirs(a) \/ OnFiles(a))
  BY <1>1, NextStep
<1>4. ~Reindex(a) /\ ~OnDirs(a) /\ ~OnFiles(a) /\ ~Gone(a)
  BY <1>2 DEF Reindex, OnDirs, OnFiles, Gone
<1>5. OnDisk(a) => /\ disk' = [Without(disk, {NodeAt(q)}) EXCEPT ![NodeAt(p)] = At(q)]
                   /\ UNCHANGED <<sidecars, dirs, files, opened>>
  BY <1>2 DEF OnDisk
<1> QED BY <1>3, <1>4, <1>5

LEMMA DoReindex ==
    ASSUME NEW what \in {"index", "unindex"}, NEW p \in StoredPaths, NEW e \in AllEntries,
           NEW rest \in Seq(Steps), job = OnIndex(what, p, e) \o rest, Continue
    PROVE  /\ job' = rest
           /\ dirs' = Reindexed(dirs, p, e.name, IF what = "index" THEN {e} ELSE {})
           /\ UNCHANGED <<disk, sidecars, files, opened, held, left>>
<1> DEFINE a == [do |-> what, path |-> p, entry |-> e]
<1>0. a \in Steps
  BY StepTypes DEF Kinds
<1>1. a \in Steps /\ job = <<a>> \o rest
  BY <1>0 DEF OnIndex
<1>2. a.do = what /\ a.path = p /\ a.entry = e
  OBVIOUS
<1> HIDE DEF a
<1>3. /\ UNCHANGED <<held, left>>
      /\ \/ Gone(a)
         \/ job' = rest /\ (OnDisk(a) \/ Reindex(a) \/ OnDirs(a) \/ OnFiles(a))
  BY <1>1, NextStep
<1>4. ~Gone(a) /\ ~OnDisk(a) /\ ~OnDirs(a) /\ ~OnFiles(a)
  BY <1>2 DEF OnDisk, OnDirs, OnFiles, Gone
<1>5. Reindex(a) => /\ dirs' = Reindexed(dirs, p, e.name, IF what = "index" THEN {e} ELSE {})
                    /\ UNCHANGED <<disk, sidecars, files, opened>>
  BY <1>2 DEF Reindex, Reindexed
<1> QED BY <1>3, <1>4, <1>5

LEMMA DoKeep ==
    ASSUME NEW n \in Folders \cup Files, NEW p \in StoredPaths, NEW rest \in Seq(Steps),
           job = Links(IF n \in Folders THEN "keepDir" ELSE "remember", n, p) \o rest, Continue
    PROVE  /\ job' = rest /\ UNCHANGED <<disk, sidecars, held, left>>
           /\ n \in Folders => /\ dirs' = With(dirs, p, [iv |-> n, index |-> Index({})])
                               /\ UNCHANGED <<files, opened>>
           /\ n \notin Folders => Remember(n, p) /\ UNCHANGED dirs
<1> DEFINE a == [do |-> IF n \in Folders THEN "keepDir" ELSE "remember", node |-> n, path |-> p]
<1>0. a \in Steps
  BY StepTypes DEF Kinds
<1>1. a \in Steps /\ job = <<a>> \o rest
  BY <1>0 DEF Links
<1>2. /\ a.do = (IF n \in Folders THEN "keepDir" ELSE "remember") /\ a.path = p /\ a.node = n
  OBVIOUS
<1> HIDE DEF a
<1>3. /\ UNCHANGED <<held, left>>
      /\ \/ Gone(a)
         \/ job' = rest /\ (OnDisk(a) \/ Reindex(a) \/ OnDirs(a) \/ OnFiles(a))
  BY <1>1, NextStep
<1>4. ~Gone(a) /\ ~OnDisk(a) /\ ~Reindex(a)
  BY <1>2 DEF OnDisk, Reindex, Gone
<1>5. OnDirs(a) => /\ n \in Folders /\ dirs' = With(dirs, p, [iv |-> n, index |-> Index({})])
                   /\ UNCHANGED <<disk, sidecars, files, opened>>
  BY <1>2 DEF OnDirs
<1>6. OnFiles(a) => n \notin Folders /\ Remember(n, p) /\ UNCHANGED <<disk, sidecars, dirs>>
  BY <1>2 DEF OnFiles
<1> QED BY <1>3, <1>4, <1>5, <1>6

LEMMA DoForget ==
    ASSUME NEW p \in StoredPaths, NEW rest \in Seq(Steps), job = OnPath("forget", p) \o rest, Continue
    PROVE  job' = rest /\ dirs' = Forget(p) /\ UNCHANGED <<disk, sidecars, files, opened, held, left>>
<1> DEFINE a == [do |-> "forget", path |-> p]
<1>0. a \in Steps
  BY StepTypes DEF Kinds
<1>1. a \in Steps /\ job = <<a>> \o rest
  BY <1>0 DEF OnPath
<1>2. a.do = "forget" /\ a.path = p
  OBVIOUS
<1> HIDE DEF a
<1> QED BY <1>1, <1>2, NextStep DEF Gone, OnDisk, Reindex, OnDirs, OnFiles

LEMMA DoDropFile ==
    ASSUME NEW p \in StoredPaths, NEW rest \in Seq(Steps), job = OnPath("dropFile", p) \o rest, Continue
    PROVE  /\ job' = rest /\ files' = Without(files, {p})
           /\ UNCHANGED <<disk, sidecars, dirs, opened, held, left>>
<1> DEFINE a == [do |-> "dropFile", path |-> p]
<1>0. a \in Steps
  BY StepTypes DEF Kinds
<1>1. a \in Steps /\ job = <<a>> \o rest
  BY <1>0 DEF OnPath
<1>2. a.do = "dropFile" /\ a.path = p
  OBVIOUS
<1> HIDE DEF a
<1> QED BY <1>1, <1>2, NextStep DEF Gone, OnDisk, Reindex, OnDirs, OnFiles

LEMMA DoMoveDirs ==
    ASSUME NEW p \in StoredPaths, NEW q \in StoredPaths, NEW rest \in Seq(Steps),
           job = Moves("moveDirs", p, q) \o rest, Continue
    PROVE  /\ job' = rest /\ dirs' = MoveKeys(dirs, p, q)
           /\ UNCHANGED <<disk, sidecars, files, opened, held, left>>
<1> DEFINE a == [do |-> "moveDirs", path |-> p, to |-> q]
<1>0. a \in Steps
  BY StepTypes DEF Kinds
<1>1. a \in Steps /\ job = <<a>> \o rest
  BY <1>0 DEF Moves
<1>2. a.do = "moveDirs" /\ a.path = p /\ a.to = q
  OBVIOUS
<1> HIDE DEF a
<1> QED BY <1>1, <1>2, NextStep DEF Gone, OnDisk, Reindex, OnDirs, OnFiles

LEMMA DoMoveFiles ==
    ASSUME NEW p \in StoredPaths, NEW q \in StoredPaths, job = Moves("moveFiles", p, q), Continue
    PROVE  /\ job' = Idle /\ files' = MoveKeys(files, p, q)
           /\ PathsRebased(files, opened, opened', p, q)
           /\ UNCHANGED <<disk, sidecars, dirs, held, left>>
<1> DEFINE a == [do |-> "moveFiles", path |-> p, to |-> q]
<1>0. a \in Steps
  BY StepTypes DEF Kinds
<1>1. a \in Steps /\ <<>> \in Seq(Steps)
  BY <1>0, EmptySeq
<1>2. a.do = "moveFiles" /\ a.path = p /\ a.to = q /\ job = <<a>>
  BY DEF Moves
<1>3. job = <<a>> \o <<>>
  <2>1. <<a>> \in Seq(Steps)
    BY <1>1, FirstAndRest
  <2> QED BY <1>2, <2>1, ConcatEmptySeq
<1> HIDE DEF a
<1>4. /\ UNCHANGED <<held, left>>
      /\ \/ Gone(a)
         \/ job' = <<>> /\ (OnDisk(a) \/ Reindex(a) \/ OnDirs(a) \/ OnFiles(a))
  BY <1>1, <1>3, NextStep
<1>5. ~Gone(a) /\ ~OnDisk(a) /\ ~Reindex(a) /\ ~OnDirs(a)
  BY <1>2 DEF OnDisk, Reindex, Gone, OnDirs
<1>6. OnFiles(a) => /\ files' = MoveKeys(files, p, q)
                    /\ PathsRebased(files, opened, opened', p, q)
                    /\ UNCHANGED <<disk, sidecars, dirs>>
  BY <1>2 DEF OnFiles, PathsRebased
<1> QED BY <1>4, <1>5, <1>6 DEF Idle

-------------------------------------------------------------------------------
(* The changes, stage by stage.  To... is what is left to do from a step    *)
(* on, At... what is true when that step is next.                          *)

Entry(x, n) == [name |-> x.name, dir |-> n \in Folders]

\* A new thing n at the name x in the folder at f.
ToIndex(f, x, n)  == OnIndex("index", f, Entry(x, n))
ToKeep(f, x, n)   == Links(IF n \in Folders THEN "keepDir" ELSE "remember", n, Append(f, x))
                     \o ToIndex(f, x, n)
ToCreate(f, x, n) == Links("create", n, Append(f, x)) \o ToKeep(f, x, n)

\* The thing n at the name x in the folder at f goes.
ToUnindex(f, x, n)   == OnIndex("unindex", f, Entry(x, n))
ToUnsidecar(f, x, n) == IfLong(x.name, OnPath("unsidecar", Append(f, x))) \o ToUnindex(f, x, n)
ToForget(f, x, n)    == OnPath(IF n \in Folders THEN "forget" ELSE "dropFile", Append(f, x))
                        \o ToUnsidecar(f, x, n)
ToUnlink(f, x, n)    == OnPath("unlink", Append(f, x)) \o ToForget(f, x, n)

\* A rename: n, called x in the folder at f, shall be y in the folder at p;
\* "old" removes from the index what is called so already.
Renamings == [f : StoredPaths, x : StoredNames, p : StoredPaths, y : StoredNames,
              n : Folders \cup Files, old : Seq(Steps)]
From(r) == Append(r.f, r.x)
To(r)   == Append(r.p, r.y)

ToMoveFiles(r)       == Moves("moveFiles", From(r), To(r))
ToMoveDirs(r)        == Moves("moveDirs", From(r), To(r)) \o ToMoveFiles(r)
ToIndexNew(r)        == OnIndex("index", r.p, Entry(r.y, r.n)) \o ToMoveDirs(r)
ToUnindexOld(r)      == r.old \o ToIndexNew(r)
ToUnindexSource(r)   == OnIndex("unindex", r.f, Entry(r.x, r.n)) \o ToUnindexOld(r)
ToUnsidecarSource(r) == IfLong(r.x.name, OnPath("unsidecar", From(r))) \o ToUnindexSource(r)
ToMove(r)            == Moves("move", From(r), To(r)) \o ToUnsidecarSource(r)
ToSidecarNew(r)      == IfLong(r.y.name, OnPath("sidecar", To(r))) \o ToMove(r)
ToDropOld(r, z)      == OnPath("dropFile", Append(r.p, z)) \o ToSidecarNew(r)
ToUnsidecarOld(r, z) == IfLong(z.name, OnPath("unsidecar", Append(r.p, z))) \o ToDropOld(r, z)
ToUnlinkOld(r, z)    == OnPath("unlink", Append(r.p, z)) \o ToUnsidecarOld(r, z)

NotOpen(op, n) == \A o \in DOMAIN op : op[o].node # n
Bare(fl, t)    == \A q \in DOMAIN fl : ~StartsWith(q, t)

IsAt(f, x, n) == n \in DOMAIN disk /\ NodeIn(disk, Append(f, x)) = n

Planned(f, x, n) ==
    /\ n \in (Folders \cup Files) \ {Root} /\ n \notin DOMAIN disk
    /\ Fits(disk, f, x, {}) /\ NotOpen(opened, n)

AtSidecar(f, x, n) == Planned(f, x, n) /\ job = OnPath("sidecar", Append(f, x)) \o ToCreate(f, x, n)
AtCreate(f, x, n)  == /\ Planned(f, x, n) /\ (x.name \in Long => Put(disk, f, x) \in sidecars)
                      /\ job = ToCreate(f, x, n)
AtKeep(f, x, n)    == /\ IsAt(f, x, n) /\ Childless(disk, n) /\ NotOpen(opened, n)
                      /\ job = ToKeep(f, x, n)
AtIndex(f, x, n)   == IsAt(f, x, n) /\ job = ToIndex(f, x, n)

AtUnlink(f, x, n)    == IsAt(f, x, n) /\ Childless(disk, n) /\ job = ToUnlink(f, x, n)
AtForget(f, x, n)    == Fits(disk, f, x, {}) /\ job = ToForget(f, x, n)
AtUnsidecar(f, x, n) == /\ Fits(disk, f, x, {})
                        /\ job = OnPath("unsidecar", Append(f, x)) \o ToUnindex(f, x, n)
AtUnindex(f, x, n)   == Fits(disk, f, x, {}) /\ job = ToUnindex(f, x, n)

\* The rename can take place: at most a file is in the way, of another file.
Ready(d, r) ==
    /\ r.n \in DOMAIN d /\ NodeIn(d, From(r)) = r.n
    /\ ~StartsWith(To(r), From(r))
    /\ NodeIn(d, To(r)) # None => {r.n, NodeIn(d, To(r))} \subseteq Files
    /\ Fits(d, r.p, r.y, {r.n, NodeIn(d, To(r))})

\* Its last steps are about the name that is reindexed.
OldFits(r) ==
    \/ r.old = <<>>
    \/ \E e \in AllEntries : Fold(e.name) = Fold(r.y.name) /\ r.old = OnIndex("unindex", r.p, e)

AtUnlinkOld(r, z) ==
    /\ OldFits(r) /\ Ready(Without(disk, {NodeIn(disk, Append(r.p, z))}), r)
    /\ NodeIn(disk, Append(r.p, z)) \in Files \cap DOMAIN disk
    /\ NodeIn(disk, To(r)) = None /\ Fold(z.name) = Fold(r.y.name)
    /\ job = ToUnlinkOld(r, z)
AtUnsidecarOld(r, z) ==
    /\ OldFits(r) /\ Ready(disk, r)
    /\ NodeIn(disk, Append(r.p, z)) = None /\ NodeIn(disk, To(r)) = None
    /\ job = OnPath("unsidecar", Append(r.p, z)) \o ToDropOld(r, z)
AtDropOld(r, z) ==
    /\ OldFits(r) /\ Ready(disk, r)
    /\ z = r.y \/ (NodeIn(disk, Append(r.p, z)) = None /\ NodeIn(disk, To(r)) = None)
    /\ job = ToDropOld(r, z)
AtSidecarNew(r) ==
    /\ OldFits(r) /\ Ready(disk, r) /\ Bare(files, To(r))
    /\ job = OnPath("sidecar", To(r)) \o ToMove(r)
AtMove(r) ==
    /\ OldFits(r) /\ Ready(disk, r) /\ Bare(files, To(r))
    /\ r.y.name \in Long => Put(disk, r.p, r.y) \in sidecars
    /\ job = ToMove(r)

\* The thing has moved.
Arrived(r) ==
    /\ OldFits(r) /\ Bare(files, To(r))
    /\ \A q \in StoredPaths : StartsWith(q, From(r)) => NodeIn(disk, q) = None
    /\ IsAt(r.p, r.y, r.n) /\ ~StartsWith(r.p, From(r))
    /\ NodeIn(disk, r.f) \in Folders /\ r.x.iv = NodeIn(disk, r.f)
    /\ \/ <<r.f, Fold(r.x.name)>> = <<r.p, Fold(r.y.name)>>
       \/ Fits(disk, r.f, r.x, {})

AtUnsidecarSource(r) == /\ Arrived(r)
                        /\ job = OnPath("unsidecar", From(r)) \o ToUnindexSource(r)
AtUnindexSource(r)   == Arrived(r) /\ job = ToUnindexSource(r)
AtUnindexOld(r)      == Arrived(r) /\ r.old # <<>> /\ job = ToUnindexOld(r)
AtIndexNew(r)        == Arrived(r) /\ job = ToIndexNew(r)
AtMoveDirs(r)        == Arrived(r) /\ job = ToMoveDirs(r)
AtMoveFiles(r)       == Arrived(r) /\ job = ToMoveFiles(r)

-------------------------------------------------------------------------------
(* The invariant.                                                          *)

\* The caches say what is true but for what the stage of the change names.
Sound(s, t, pend, gone, drop, a, b) ==
    /\ CacheTrue(disk, dirs, s, t, pend, gone) /\ Settled(disk, s, t, gone)
    /\ FilesTrue(disk, files, opened, drop, a, b)

Name(f, x) == <<f, Fold(x.name)>>

OneStage(f, x, n) ==
    \/ /\ Sound(<<>>, <<>>, {}, {}, {}, <<>>, <<>>)
       /\ AtSidecar(f, x, n) \/ AtCreate(f, x, n) \/ AtUnlink(f, x, n)
    \/ /\ Sound(<<>>, <<>>, {Name(f, x)}, {}, {}, <<>>, <<>>)
       /\ AtKeep(f, x, n) \/ AtIndex(f, x, n) \/ AtUnsidecar(f, x, n) \/ AtUnindex(f, x, n)
    \/ /\ IF n \in Folders THEN Sound(<<>>, <<>>, {Name(f, x)}, {Append(f, x)}, {}, <<>>, <<>>)
                           ELSE Sound(<<>>, <<>>, {Name(f, x)}, {}, {Append(f, x)}, <<>>, <<>>)
       /\ AtForget(f, x, n)

ClearStage(r, z) ==
    \/ Sound(<<>>, <<>>, {}, {}, {}, <<>>, <<>>) /\ AtUnlinkOld(r, z)
    \/ /\ Sound(<<>>, <<>>, {Name(r.p, r.y)}, {}, {Append(r.p, z)}, <<>>, <<>>)
       /\ AtUnsidecarOld(r, z) \/ AtDropOld(r, z)

MoveStage(r) ==
    \/ /\ Sound(<<>>, <<>>, {Name(r.p, r.y)}, {}, {To(r)}, <<>>, <<>>)
       /\ AtSidecarNew(r) \/ AtMove(r)
    \/ /\ Sound(From(r), To(r), {Name(r.p, r.y), Name(r.f, r.x)}, {}, {}, From(r), To(r))
       /\ AtUnsidecarSource(r) \/ AtUnindexSource(r)
    \/ /\ Sound(From(r), To(r), {Name(r.p, r.y)}, {}, {}, From(r), To(r))
       /\ AtUnindexOld(r) \/ AtIndexNew(r)
    \/ Sound(From(r), To(r), {}, {}, {}, From(r), To(r)) /\ AtMoveDirs(r)
    \/ Sound(<<>>, <<>>, {}, {}, {}, From(r), To(r)) /\ AtMoveFiles(r)

Quiet == job = Idle /\ Sound(<<>>, <<>>, {}, {}, {}, <<>>, <<>>)

Working ==
    \/ Quiet
    \/ \E f \in StoredPaths, x \in StoredNames, n \in Folders \cup Files : OneStage(f, x, n)
    \/ \E r \in Renamings, z \in StoredNames : ClearStage(r, z)
    \/ \E r \in Renamings : MoveStage(r)

\* The disk is always a vault all of whose names can be read.
Steady == IsVault(disk) /\ SidecarsTrue(disk, sidecars)

\* An IV that was read is its folder's, and what was taken for the folder at a
\* path is, if there is one by now.
HeldTrue ==
    /\ held = [u \in Threads |-> held[u]]
    /\ \A u \in Threads :
          /\ held[u].kind \in {"item", "iv", "dir"} => held[u].path \in StoredPaths
          /\ held[u].kind = "iv" => /\ held[u].iv \in Folders
                                    /\ held[u].iv = NodeIn(disk, held[u].path)
          /\ held[u].kind = "dir" /\ NodeIn(disk, held[u].path) \in Folders
                => NodeIn(disk, held[u].path) = held[u].iv

IInv == Steady /\ Working /\ HeldTrue

-------------------------------------------------------------------------------
(* Facts for the steps.                                                    *)

LEMMA AtIsPut ==
    ASSUME NEW f \in StoredPaths, NEW x \in StoredNames
    PROVE  At(Append(f, x)) = Put(disk, f, x)
<1>1. Up(Append(f, x)) = f /\ Append(f, x)[Len(Append(f, x))] = x
  BY AppendFacts
<1>2. NodeAt(f) = NodeIn(disk, f)
  BY NodeAtIsNodeIn
<1> QED BY <1>1, <1>2 DEF At, Put

LEMMA InsideChildless ==
    ASSUME NEW n \in DOMAIN disk, Childless(disk, n)
    PROVE  Inside(n) = {n}
BY DEF Inside, Childless

LEMMA EntryTypes ==
    \A x \in StoredNames : \A n : Entry(x, n) \in AllEntries /\ Entry(x, n).name = x.name
BY DEF Entry, AllEntries, StoredNames

LEMMA OneTypes ==
    ASSUME NEW f \in StoredPaths, NEW x \in StoredNames, NEW n \in Folders \cup Files
    PROVE  /\ ToIndex(f, x, n) \in Seq(Steps) /\ ToKeep(f, x, n) \in Seq(Steps)
           /\ ToCreate(f, x, n) \in Seq(Steps)
           /\ ToUnindex(f, x, n) \in Seq(Steps) /\ ToUnsidecar(f, x, n) \in Seq(Steps)
           /\ ToForget(f, x, n) \in Seq(Steps) /\ ToUnlink(f, x, n) \in Seq(Steps)
<1>1. Append(f, x) \in StoredPaths /\ Entry(x, n) \in AllEntries
  BY AppendFacts, EntryTypes
<1>2. ToIndex(f, x, n) \in Seq(Steps) /\ ToUnindex(f, x, n) \in Seq(Steps)
  BY <1>1, TodoTypes DEF ToIndex, ToUnindex, Kinds
<1>3. ToKeep(f, x, n) \in Seq(Steps)
  <2>1. PICK what \in Kinds : what = IF n \in Folders THEN "keepDir" ELSE "remember"
    BY DEF Kinds
  <2>2. Links(what, n, Append(f, x)) \o ToIndex(f, x, n) \in Seq(Steps)
    BY <1>1, <1>2, TodoTypes
  <2> QED BY <2>1, <2>2 DEF ToKeep
<1>4. ToCreate(f, x, n) \in Seq(Steps)
  BY <1>1, <1>3, TodoTypes DEF ToCreate, Kinds
<1>5. ToUnsidecar(f, x, n) \in Seq(Steps)
  <2>1. OnPath("unsidecar", Append(f, x)) \in Seq(Steps)
    BY <1>1, TodoTypes DEF Kinds
  <2> QED BY <1>2, <2>1, LongTypes DEF ToUnsidecar
<1>6. ToForget(f, x, n) \in Seq(Steps)
  <2> DEFINE what == IF n \in Folders THEN "forget" ELSE "dropFile"
  <2>1. what \in Kinds
    BY DEF Kinds
  <2>2. ToForget(f, x, n) = OnPath(what, Append(f, x)) \o ToUnsidecar(f, x, n)
    BY DEF ToForget
  <2> HIDE DEF what
  <2> QED BY <1>1, <1>5, <2>1, <2>2, TodoTypes
<1>7. ToUnlink(f, x, n) \in Seq(Steps)
  BY <1>1, <1>6, TodoTypes DEF ToUnlink, Kinds
<1> QED BY <1>2, <1>3, <1>4, <1>5, <1>6, <1>7

LEMMA RenamingFacts ==
    ASSUME NEW r \in Renamings
    PROVE  /\ r.f \in StoredPaths /\ r.x \in StoredNames /\ r.p \in StoredPaths /\ r.y \in StoredNames
           /\ r.n \in Folders \cup Files /\ r.old \in Seq(Steps)
           /\ From(r) \in StoredPaths /\ To(r) \in StoredPaths
           /\ From(r) = Append(r.f, r.x) /\ To(r) = Append(r.p, r.y)
<1>1. /\ r.f \in StoredPaths /\ r.x \in StoredNames /\ r.p \in StoredPaths /\ r.y \in StoredNames
      /\ r.n \in Folders \cup Files /\ r.old \in Seq(Steps)
  BY DEF Renamings
<1> QED BY <1>1, AppendFacts DEF From, To

LEMMA RenameTypes ==
    ASSUME NEW r \in Renamings, NEW z \in StoredNames
    PROVE  /\ ToMoveFiles(r) \in Seq(Steps) /\ ToMoveDirs(r) \in Seq(Steps)
           /\ ToIndexNew(r) \in Seq(Steps) /\ ToUnindexOld(r) \in Seq(Steps)
           /\ ToUnindexSource(r) \in Seq(Steps) /\ ToUnsidecarSource(r) \in Seq(Steps)
           /\ ToMove(r) \in Seq(Steps) /\ ToSidecarNew(r) \in Seq(Steps)
           /\ ToDropOld(r, z) \in Seq(Steps) /\ ToUnsidecarOld(r, z) \in Seq(Steps)
           /\ ToUnlinkOld(r, z) \in Seq(Steps)
<1>1. /\ r.f \in StoredPaths /\ r.p \in StoredPaths /\ r.old \in Seq(Steps)
      /\ From(r) \in StoredPaths /\ To(r) \in StoredPaths
      /\ Append(r.p, z) \in StoredPaths
      /\ Entry(r.x, r.n) \in AllEntries /\ Entry(r.y, r.n) \in AllEntries
  BY RenamingFacts, AppendFacts, EntryTypes
<1>2. ToMoveFiles(r) \in Seq(Steps)
  BY <1>1, TodoTypes DEF ToMoveFiles, Kinds
<1>3. ToMoveDirs(r) \in Seq(Steps)
  BY <1>1, <1>2, TodoTypes DEF ToMoveDirs, Kinds
<1>4. ToIndexNew(r) \in Seq(Steps)
  BY <1>1, <1>3, TodoTypes DEF ToIndexNew, Kinds
<1>5. ToUnindexOld(r) \in Seq(Steps)
  BY <1>1, <1>4, ConcatProperties DEF ToUnindexOld
<1>6. ToUnindexSource(r) \in Seq(Steps)
  BY <1>1, <1>5, TodoTypes DEF ToUnindexSource, Kinds
<1>7. ToUnsidecarSource(r) \in Seq(Steps)
  <2>1. OnPath("unsidecar", From(r)) \in Seq(Steps)
    BY <1>1, TodoTypes DEF Kinds
  <2> QED BY <1>6, <2>1, LongTypes DEF ToUnsidecarSource
<1>8. ToMove(r) \in Seq(Steps)
  BY <1>1, <1>7, TodoTypes DEF ToMove, Kinds
<1>9. ToSidecarNew(r) \in Seq(Steps)
  <2>1. OnPath("sidecar", To(r)) \in Seq(Steps)
    BY <1>1, TodoTypes DEF Kinds
  <2> QED BY <1>8, <2>1, LongTypes DEF ToSidecarNew
<1>10. ToDropOld(r, z) \in Seq(Steps)
  BY <1>1, <1>9, TodoTypes DEF ToDropOld, Kinds
<1>11. ToUnsidecarOld(r, z) \in Seq(Steps)
  <2>1. OnPath("unsidecar", Append(r.p, z)) \in Seq(Steps)
    BY <1>1, TodoTypes DEF Kinds
  <2> QED BY <1>10, <2>1, LongTypes DEF ToUnsidecarOld
<1>12. ToUnlinkOld(r, z) \in Seq(Steps)
  BY <1>1, <1>11, TodoTypes DEF ToUnlinkOld, Kinds
<1> QED BY <1>2, <1>3, <1>4, <1>5, <1>6, <1>7, <1>8, <1>9, <1>10, <1>11, <1>12

\* The last step of a change.
LEMMA LastReindex ==
    ASSUME NEW what \in {"index", "unindex"}, NEW p \in StoredPaths, NEW e \in AllEntries,
           job = OnIndex(what, p, e), Continue
    PROVE  /\ job' = Idle
           /\ dirs' = Reindexed(dirs, p, e.name, IF what = "index" THEN {e} ELSE {})
           /\ UNCHANGED <<disk, sidecars, files, opened, held, left>>
<1>1. OnIndex(what, p, e) \in Seq(Steps) /\ <<>> \in Seq(Steps)
  BY TodoTypes, EmptySeq DEF Kinds
<1>2. job = OnIndex(what, p, e) \o <<>>
  BY <1>1, ConcatEmptySeq
<1> QED BY <1>1, <1>2, DoReindex DEF Idle

LEMMA SettledStill ==
    /\ Settled(disk, <<>>, <<>>, {}) /\ Settled(disk', <<>>, <<>>, {})
    /\ <<>> \in StoredPaths
BY SettledIdle, EmptySeq DEF StoredPaths

\* The sidecar of a name nothing has is not missed.
LEMMA SidecarsLess ==
    ASSUME IsVault(disk), NEW sc, SidecarsTrue(disk, sc), NEW f \in StoredPaths, NEW x \in StoredNames,
           NodeIn(disk, Append(f, x)) = None
    PROVE  SidecarsTrue(disk, sc \ {At(Append(f, x))})
<1>1. \A m \in DOMAIN disk : disk[m] # Put(disk, f, x)
  <2>1. \A m \in DOMAIN disk : NodeIn(disk, Append(f, x)) = m <=>
           disk[m].in = NodeIn(disk, f) /\ disk[m].iv = x.iv /\ disk[m].name = x.name
    BY NodeFacts
  <2>2. None \notin DOMAIN disk
    BY VaultFacts
  <2> QED BY <2>1, <2>2 DEF Put
<1> QED BY <1>1, AtIsPut DEF SidecarsTrue

\* Room for a name says nothing is called so.
LEMMA FitsFree ==
    ASSUME NEW d, IsVault(d), NEW f \in StoredPaths, NEW x \in StoredNames, Fits(d, f, x, {})
    PROVE  /\ NodeIn(d, Append(f, x)) = None
           /\ \A g : Fold(g.name) = Fold(x.name) => g \notin Kids(d, NodeIn(d, f))
<1>1. \A m \in DOMAIN d : d[m].in = NodeIn(d, f) => Fold(d[m].name) # Fold(x.name)
  BY DEF Fits
<1>2. NodeIn(d, Append(f, x)) \in DOMAIN d \cup {None}
  BY NodeFacts
<1>3. \A m \in DOMAIN d : NodeIn(d, Append(f, x)) = m => d[m].in = NodeIn(d, f) /\ d[m].name = x.name
  BY NodeFacts
<1>4. \A g : g \in Kids(d, NodeIn(d, f)) <=> \E m \in DOMAIN d : d[m].in = NodeIn(d, f) /\ g = EntryOf(d, m)
  BY DEF Kids
<1>5. \A m : EntryOf(d, m).name = d[m].name
  BY DEF EntryOf
<1> QED BY <1>1, <1>2, <1>3, <1>4, <1>5

\* The one entry of a name is that of the thing there.
LEMMA EntryThere ==
    ASSUME NEW d, IsVault(d), NEW f \in StoredPaths, NEW x \in StoredNames, NEW n \in DOMAIN d,
           NodeIn(d, Append(f, x)) = n
    PROVE  \A g : Fold(g.name) = Fold(x.name) => (g \in Kids(d, NodeIn(d, f)) <=> g \in {Entry(x, n)})
<1>1. d[n].in = NodeIn(d, f) /\ d[n].name = x.name
  BY NodeFacts
<1>2. EntryOf(d, n) = Entry(x, n)
  BY <1>1 DEF EntryOf, Entry
<1>3. Entry(x, n) \in Kids(d, NodeIn(d, f)) /\ Entry(x, n).name = x.name
  BY <1>1, <1>2 DEF Kids, Entry
<1>4. \A e, g \in Kids(d, NodeIn(d, f)) : Fold(e.name) = Fold(g.name) => e = g
  BY KidsFacts
<1> QED BY <1>3, <1>4

-------------------------------------------------------------------------------
(* Creating and removing, step by step.                                    *)

LEMMA StepSidecar ==
    ASSUME Steady, NEW f \in StoredPaths, NEW x \in StoredNames, NEW n \in Folders \cup Files,
           Sound(<<>>, <<>>, {}, {}, {}, <<>>, <<>>), AtSidecar(f, x, n), Continue
    PROVE  Steady' /\ Sound(<<>>, <<>>, {}, {}, {}, <<>>, <<>>)' /\ AtCreate(f, x, n)'
<1>1. Append(f, x) \in StoredPaths /\ ToCreate(f, x, n) \in Seq(Steps)
  BY AppendFacts, OneTypes
<1>2. /\ job' = ToCreate(f, x, n) /\ sidecars' = sidecars \cup {Put(disk, f, x)}
      /\ UNCHANGED <<disk, dirs, files, opened>>
  BY <1>1, DoSidecar, AtIsPut DEF AtSidecar
<1>3. Steady'
  BY <1>2 DEF Steady, SidecarsTrue
<1>4. AtCreate(f, x, n)'
  BY <1>2 DEF AtSidecar, AtCreate, Planned
<1> QED BY <1>2, <1>3, <1>4 DEF Sound

\* What "create" does to the disk.
LEMMA CreateFacts ==
    ASSUME Steady, NEW f \in StoredPaths, NEW x \in StoredNames, NEW n \in Folders \cup Files,
           AtCreate(f, x, n), Continue
    PROVE  /\ job' = ToKeep(f, x, n) /\ UNCHANGED <<sidecars, dirs, files, opened>>
           /\ More(disk, disk', n, f, x)
<1>1. Append(f, x) \in StoredPaths /\ ToKeep(f, x, n) \in Seq(Steps)
  BY AppendFacts, OneTypes
<1>2. /\ job' = ToKeep(f, x, n) /\ disk' = With(disk, n, Put(disk, f, x))
      /\ UNCHANGED <<sidecars, dirs, files, opened>>
  BY <1>1, DoCreate, AtIsPut DEF AtCreate, ToCreate
<1>3. n \in (Folders \cup Files) \ {Root} /\ n \notin DOMAIN disk /\ Fits(disk, f, x, {}) /\ IsVault(disk)
  BY DEF AtCreate, Planned, Steady
<1>4. More(disk, disk', n, f, x)
  BY <1>2, <1>3, Made
<1> QED BY <1>2, <1>4

LEMMA StepCreate ==
    ASSUME Steady, NEW f \in StoredPaths, NEW x \in StoredNames, NEW n \in Folders \cup Files,
           Sound(<<>>, <<>>, {}, {}, {}, <<>>, <<>>), AtCreate(f, x, n), Continue
    PROVE  Steady' /\ Sound(<<>>, <<>>, {Name(f, x)}, {}, {}, <<>>, <<>>)' /\ AtKeep(f, x, n)'
<1>0. /\ job' = ToKeep(f, x, n) /\ UNCHANGED <<sidecars, dirs, files, opened>>
      /\ More(disk, disk', n, f, x)
  BY CreateFacts
<1>1. /\ job' = ToKeep(f, x, n) /\ UNCHANGED <<sidecars, dirs, files, opened>>
      /\ DOMAIN disk' = DOMAIN disk \cup {n} /\ disk'[n] = Put(disk, f, x)
      /\ \A m \in DOMAIN disk : disk'[m] = disk[m]
      /\ IsVault(disk') /\ Childless(disk', n) /\ NodeIn(disk', Append(f, x)) = n
  BY <1>0 DEF More
<1>2. NotOpen(opened, n) /\ IsVault(disk) /\ Append(f, x) \in StoredPaths
  BY AppendFacts DEF AtCreate, Planned, Steady
<1>3. CacheTrue(disk', dirs', <<>>, <<>>, {Name(f, x)}, {})
  BY <1>0, <1>2, CacheMade DEF Sound, Name
<1>4. FilesTrue(disk', files', opened', {}, <<>>, <<>>)
  <2>1. \A o \in DOMAIN opened : opened[o].node # n
    BY <1>2 DEF NotOpen
  <2> QED BY <1>0, <1>2, <2>1, FilesMade DEF Sound
<1>5. SidecarsTrue(disk', sidecars')
  <2>1. x.name \in Long => Put(disk, f, x) \in sidecars
    BY DEF AtCreate
  <2>2. Put(disk, f, x).name = x.name
    BY DEF Put
  <2> QED BY <1>1, <2>1, <2>2 DEF SidecarsTrue, Steady
<1>6. AtKeep(f, x, n)'
  BY <1>1, <1>2 DEF AtKeep, IsAt
<1> QED BY <1>1, <1>3, <1>4, <1>5, <1>6, SettledStill DEF Steady, Sound

LEMMA StepKeep ==
    ASSUME Steady, NEW f \in StoredPaths, NEW x \in StoredNames, NEW n \in Folders \cup Files,
           Sound(<<>>, <<>>, {Name(f, x)}, {}, {}, <<>>, <<>>), AtKeep(f, x, n), Continue
    PROVE  Steady' /\ Sound(<<>>, <<>>, {Name(f, x)}, {}, {}, <<>>, <<>>)' /\ AtIndex(f, x, n)'
<1> DEFINE t == Append(f, x)
<1>1. t \in StoredPaths /\ ToIndex(f, x, n) \in Seq(Steps)
  BY AppendFacts, OneTypes
<1>2. /\ job' = ToIndex(f, x, n) /\ UNCHANGED <<disk, sidecars>>
      /\ n \in Folders => /\ dirs' = With(dirs, t, [iv |-> n, index |-> Index({})])
                          /\ UNCHANGED <<files, opened>>
      /\ n \notin Folders => Remember(n, t) /\ UNCHANGED dirs
  BY <1>1, DoKeep DEF AtKeep, ToKeep
<1>3. NodeIn(disk, t) = n /\ Childless(disk, n) /\ n \in DOMAIN disk /\ NotOpen(opened, n)
  BY DEF AtKeep, IsAt
<1> HIDE DEF t
<1>4. CacheTrue(disk', dirs', <<>>, <<>>, {Name(f, x)}, {})
  <2>1. CASE n \in Folders
    BY <1>1, <1>2, <1>3, <2>1, CacheKept DEF Sound, Steady
  <2>2. CASE n \notin Folders
    BY <1>2, <2>2 DEF Sound
  <2> QED BY <2>1, <2>2
<1>5. FilesTrue(disk', files', opened', {}, <<>>, <<>>)
  <2>1. CASE n \in Folders
    BY <1>2, <2>1 DEF Sound
  <2>2. CASE n \notin Folders
    <3>1. /\ n \in Files /\ \A o \in DOMAIN opened : opened[o].node # n
          /\ FilesTrue(disk, files, opened, {}, <<>>, <<>>) /\ IsVault(disk)
      BY <1>3, <2>2 DEF NotOpen, Sound, Steady
    <3>2. NewFile \notin DOMAIN opened
      BY <3>1, NewFileFacts DEF FilesTrue
    <3>3. files' = With(files, t, NewFile) /\ opened' = With(opened, NewFile, [node |-> n, path |-> t])
      BY <1>2, <2>2 DEF Remember
    <3> HIDE DEF NewFile
    <3>4. PICK o : o = NewFile
      OBVIOUS
    <3>5. FilesTrue(disk, With(files, t, o), With(opened, o, [node |-> n, path |-> t]), {}, <<>>, <<>>)
      BY <1>1, <1>3, <3>1, <3>2, <3>4, FilesRemembered
    <3> QED BY <1>2, <3>3, <3>4, <3>5
  <2> QED BY <2>1, <2>2
<1>6. AtIndex(f, x, n)'
  BY <1>2, <1>3 DEF AtIndex, IsAt, t
<1> QED BY <1>2, <1>4, <1>5, <1>6, SettledStill DEF Steady, Sound

LEMMA StepIndex ==
    ASSUME Steady, NEW f \in StoredPaths, NEW x \in StoredNames, NEW n \in Folders \cup Files,
           Sound(<<>>, <<>>, {Name(f, x)}, {}, {}, <<>>, <<>>), AtIndex(f, x, n), Continue
    PROVE  Steady' /\ Quiet'
<1>1. Entry(x, n) \in AllEntries /\ Entry(x, n).name = x.name
  BY EntryTypes
<1>2. /\ job' = Idle /\ dirs' = Reindexed(dirs, f, x.name, {Entry(x, n)})
      /\ UNCHANGED <<disk, sidecars, files, opened>>
  BY <1>1, LastReindex DEF AtIndex, ToIndex
<1>3. \A g : Fold(g.name) = Fold(x.name) => (g \in Kids(disk, NodeIn(disk, f)) <=> g \in {Entry(x, n)})
  BY EntryThere DEF AtIndex, IsAt, Steady
<1>4. Rebase(f, <<>>, <<>>) = f
  BY SettledStill, RebaseSame
<1>5. CacheTrue(disk, Reindexed(dirs, f, x.name, {Entry(x, n)}), <<>>, <<>>, {}, {})
  <2>1. CacheTrue(disk, dirs, <<>>, <<>>, {Name(f, x)}, {})
    BY DEF Sound
  <2>2. \A a \in {Name(f, x)} : a \in {} \/ a = <<f, Fold(x.name)>>
    BY DEF Name
  <2> QED BY <1>1, <1>3, <1>4, <2>1, <2>2, CacheReindexed
<1> QED BY <1>2, <1>5, SettledStill DEF Steady, Sound, Quiet

-------------------------------------------------------------------------------
\* What "unlink" does to the disk, if it is done.
LEMMA UnlinkFacts ==
    ASSUME Steady, NEW f \in StoredPaths, NEW x \in StoredNames, NEW n,
           IsAt(f, x, n), Childless(disk, n), NEW rest \in Seq(Steps),
           job = OnPath("unlink", Append(f, x)) \o rest, Continue
    PROVE  /\ UNCHANGED <<dirs, files, opened>>
           /\ \/ job' = Idle /\ UNCHANGED <<disk, sidecars>>
              \/ /\ job' = rest /\ disk' = Without(disk, {n})
                 /\ Steady'
                 /\ Less(disk, disk', n)
<1>1. n \in DOMAIN disk /\ NodeIn(disk, Append(f, x)) = n /\ IsVault(disk) /\ Append(f, x) \in StoredPaths
  BY AppendFacts DEF IsAt, Steady
<1>2. NodeAt(Append(f, x)) = n /\ Inside(n) = {n}
  BY <1>1, NodeAtIsNodeIn, InsideChildless
<1>3. /\ UNCHANGED <<dirs, files, opened>>
      /\ \/ job' = Idle /\ UNCHANGED <<disk, sidecars>>
         \/ /\ job' = rest /\ disk' = Without(disk, {n})
            /\ sidecars' = {s \in sidecars : s.in \notin {n}}
  BY <1>1, <1>2, DoUnlink
<1>4. ASSUME disk' = Without(disk, {n}), sidecars' = {s \in sidecars : s.in \notin {n}}
      PROVE  Steady' /\ Less(disk, disk', n)
  <2>1. Less(disk, disk', n)
    BY <1>1, <1>4, Dropped
  <2>2. SidecarsTrue(disk', sidecars')
    BY <1>4, <2>1 DEF SidecarsTrue, Steady, Childless, Less
  <2> QED BY <2>1, <2>2 DEF Steady, Less
<1> QED BY <1>3, <1>4

\* Nothing is left of the name of what is gone.
LEMMA FitsAfter ==
    ASSUME NEW d, IsVault(d), NEW f \in StoredPaths, NEW x \in StoredNames, NEW n \in DOMAIN d,
           NodeIn(d, Append(f, x)) = n, NEW e, Less(d, e, n)
    PROVE  Fits(e, f, x, {}) /\ NodeIn(e, Append(f, x)) = None
<1>0. /\ DOMAIN e = DOMAIN d \ {n} /\ \A m \in DOMAIN e : e[m] = d[m]
      /\ \A q \in StoredPaths : NodeIn(e, q) = IF NodeIn(d, q) = n THEN None ELSE NodeIn(d, q)
  BY DEF Less
<1> USE <1>0
<1>1. d[n].in = NodeIn(d, f) /\ d[n].name = x.name /\ Append(f, x) \in StoredPaths /\ n # None
  BY NodeFacts, AppendFacts, VaultFacts
<1>2. NodeIn(d, f) \in Folders /\ x.iv = NodeIn(d, f)
  BY <1>1, FoldersAbove
<1>3. NodeIn(d, f) # n
  <2>1. NodeIn(d, f) = n => f = Append(f, x)
    BY <1>1, OnePath
  <2> QED BY <2>1, AppendFacts
<1>4. NodeIn(e, f) = NodeIn(d, f)
  BY <1>3
<1>5. \A m \in DOMAIN e : e[m].in = NodeIn(e, f) => Fold(e[m].name) # Fold(x.name)
  <2>1. \A i, j \in DOMAIN d : d[i].in = d[j].in /\ Fold(d[i].name) = Fold(d[j].name) => i = j
    BY DEF IsVault
  <2> QED BY <1>1, <1>4, <2>1
<1> QED BY <1>1, <1>2, <1>4, <1>5 DEF Fits

LEMMA StepUnlink ==
    ASSUME Steady, NEW f \in StoredPaths, NEW x \in StoredNames, NEW n \in Folders \cup Files,
           Sound(<<>>, <<>>, {}, {}, {}, <<>>, <<>>), AtUnlink(f, x, n), Continue
    PROVE  Steady' /\ (Quiet' \/ OneStage(f, x, n)')
<1> DEFINE t == Append(f, x)
<1>1. t \in StoredPaths /\ ToForget(f, x, n) \in Seq(Steps)
  BY AppendFacts, OneTypes
<1>2. IsAt(f, x, n) /\ Childless(disk, n) /\ job = OnPath("unlink", t) \o ToForget(f, x, n)
  BY DEF AtUnlink, ToUnlink
<1>3. /\ UNCHANGED <<dirs, files, opened>>
      /\ \/ job' = Idle /\ UNCHANGED <<disk, sidecars>>
         \/ /\ job' = ToForget(f, x, n) /\ disk' = Without(disk, {n})
            /\ Steady'
            /\ Less(disk, disk', n)
  BY <1>1, <1>2, UnlinkFacts
<1>4. CASE job' = Idle /\ UNCHANGED <<disk, sidecars>>
  BY <1>3, <1>4, SettledStill DEF Steady, Sound, Quiet
<1>5. CASE job' # Idle \/ ~UNCHANGED <<disk, sidecars>>
  <2>1. /\ job' = ToForget(f, x, n) /\ Steady'
        /\ Less(disk, disk', n)
    BY <1>3, <1>5
  <2>2. IsVault(disk) /\ n \in DOMAIN disk /\ NodeIn(disk, t) = n
    BY <1>2 DEF Steady, IsAt
  <2>3. Fits(disk', f, x, {}) /\ NodeIn(disk', t) = None
    BY <2>1, <2>2, FitsAfter
  <2>4. CacheTrue(disk', dirs', <<>>, <<>>, {Name(f, x)}, IF n \in Folders THEN {t} ELSE {})
    <3>1. CacheTrue(disk', dirs, <<>>, <<>>, {} \cup {<<f, Fold(x.name)>>}, IF n \in Folders THEN {t} ELSE {})
      BY <2>1, <2>2, CacheDropped DEF Sound
    <3>2. {} \cup {<<f, Fold(x.name)>>} = {Name(f, x)}
      BY DEF Name
    <3> QED BY <1>3, <3>1, <3>2
  <2>5. FilesTrue(disk', files', opened', IF n \in Folders THEN {} ELSE {} \cup {t}, <<>>, <<>>)
    <3> HIDE DEF t
    <3> QED BY <1>1, <1>3, <2>1, <2>2, FilesDropped DEF Sound
  <2>6. Settled(disk', <<>>, <<>>, {t}) /\ Settled(disk', <<>>, <<>>, {})
    <3> HIDE DEF t
    <3> QED BY <2>3, SettledStill DEF Settled
  <2>7. AtForget(f, x, n)'
    BY <2>1, <2>3 DEF AtForget
  <2>8. IF n \in Folders THEN Sound(<<>>, <<>>, {Name(f, x)}, {t}, {}, <<>>, <<>>)'
                         ELSE Sound(<<>>, <<>>, {Name(f, x)}, {}, {t}, <<>>, <<>>)'
    <3>1. CASE n \in Folders
      BY <2>4, <2>5, <2>6, <3>1 DEF Sound
    <3>2. CASE n \notin Folders
      <4>1. {} \cup {t} = {t}
        OBVIOUS
      <4> QED BY <2>4, <2>5, <2>6, <3>2, <4>1 DEF Sound
    <3> QED BY <3>1, <3>2
  <2>9. OneStage(f, x, n)'
    BY <2>7, <2>8 DEF OneStage
  <2> QED BY <2>1, <2>9
<1> QED BY <1>4, <1>5

LEMMA StepForget ==
    ASSUME Steady, NEW f \in StoredPaths, NEW x \in StoredNames, NEW n \in Folders \cup Files,
           IF n \in Folders THEN Sound(<<>>, <<>>, {Name(f, x)}, {Append(f, x)}, {}, <<>>, <<>>)
                            ELSE Sound(<<>>, <<>>, {Name(f, x)}, {}, {Append(f, x)}, <<>>, <<>>),
           AtForget(f, x, n), Continue
    PROVE  Steady' /\ OneStage(f, x, n)'
<1> DEFINE t == Append(f, x)
<1>1. t \in StoredPaths /\ ToUnsidecar(f, x, n) \in Seq(Steps) /\ ToUnindex(f, x, n) \in Seq(Steps)
  BY AppendFacts, OneTypes
<1>2. Fits(disk, f, x, {}) /\ NodeIn(disk, t) = None /\ IsVault(disk)
  BY FitsFree DEF AtForget, Steady
<1>3. /\ job' = ToUnsidecar(f, x, n) /\ UNCHANGED <<disk, sidecars>>
      /\ Sound(<<>>, <<>>, {Name(f, x)}, {}, {}, <<>>, <<>>)'
  <2>1. CASE n \in Folders
    <3>1. job = OnPath("forget", t) \o ToUnsidecar(f, x, n)
      BY <2>1 DEF AtForget, ToForget
    <3>2. /\ job' = ToUnsidecar(f, x, n) /\ dirs' = Forget(t)
          /\ UNCHANGED <<disk, sidecars, files, opened>>
      BY <1>1, <3>1, DoForget
    <3>3. Sound(<<>>, <<>>, {Name(f, x)}, {t}, {}, <<>>, <<>>)
      BY <2>1
    <3>4. Forget(t) = Without(dirs, {q \in StoredPaths : StartsWith(q, t)} \cap DOMAIN dirs)
      <4>1. DOMAIN dirs \subseteq StoredPaths
        BY <3>3 DEF Sound, CacheTrue
      <4>2. {p \in DOMAIN dirs : StartsWith(p, t)} = {q \in StoredPaths : StartsWith(q, t)} \cap DOMAIN dirs
        BY <4>1
      <4> QED BY <4>2 DEF Forget
    <3>5. t \in {q \in StoredPaths : StartsWith(q, t)}
      <4>1. t \o <<>> = t /\ <<>> \in StoredPaths
        BY <1>1, ConcatFacts
      <4> HIDE DEF t
      <4> QED BY <1>1, <4>1, PrefixIsConcat
    <3>6. CacheTrue(disk, Forget(t), <<>>, <<>>, {Name(f, x)}, {})
      <4>1. CacheTrue(disk, dirs, <<>>, <<>>, {Name(f, x)}, {t})
        BY <3>3 DEF Sound
      <4> DEFINE keys == {q \in StoredPaths : StartsWith(q, t)}
      <4>2. t \in keys /\ Forget(t) = Without(dirs, keys \cap DOMAIN dirs)
        BY <3>4, <3>5
      <4> HIDE DEF t, keys
      <4> QED BY <1>1, <4>1, <4>2, CacheForgotten
    <3> QED BY <3>2, <3>3, <3>6, SettledStill DEF Sound
  <2>2. CASE n \notin Folders
    <3>1. job = OnPath("dropFile", t) \o ToUnsidecar(f, x, n)
      BY <2>2 DEF AtForget, ToForget
    <3>2. /\ job' = ToUnsidecar(f, x, n) /\ files' = Without(files, {t})
          /\ UNCHANGED <<disk, sidecars, dirs, opened>>
      BY <1>1, <3>1, DoDropFile
    <3>3. Sound(<<>>, <<>>, {Name(f, x)}, {}, {t}, <<>>, <<>>)
      BY <2>2
    <3>4. FilesTrue(disk, Without(files, {t}), opened, {}, <<>>, <<>>)
      BY <1>1, <1>2, <3>3, FilesForgotten DEF Sound
    <3> QED BY <3>2, <3>3, <3>4, SettledStill DEF Sound
  <2> QED BY <2>1, <2>2
<1>4. AtUnsidecar(f, x, n)' \/ AtUnindex(f, x, n)'
  <2>1. OnPath("unsidecar", t) \in Seq(Steps)
    BY <1>1, TodoTypes DEF Kinds
  <2>2. \/ job' = OnPath("unsidecar", t) \o ToUnindex(f, x, n)
        \/ job' = ToUnindex(f, x, n)
    BY <1>1, <1>3, <2>1, LongTypes DEF ToUnsidecar
  <2> QED BY <1>2, <1>3, <2>2 DEF AtUnsidecar, AtUnindex
<1>5. Steady'
  BY <1>3 DEF Steady
<1> QED BY <1>3, <1>4, <1>5 DEF OneStage

LEMMA StepUnsidecar ==
    ASSUME Steady, NEW f \in StoredPaths, NEW x \in StoredNames, NEW n \in Folders \cup Files,
           Sound(<<>>, <<>>, {Name(f, x)}, {}, {}, <<>>, <<>>), AtUnsidecar(f, x, n), Continue
    PROVE  Steady' /\ Sound(<<>>, <<>>, {Name(f, x)}, {}, {}, <<>>, <<>>)' /\ AtUnindex(f, x, n)'
<1>1. Append(f, x) \in StoredPaths /\ ToUnindex(f, x, n) \in Seq(Steps)
  BY AppendFacts, OneTypes
<1>2. /\ job' = ToUnindex(f, x, n) /\ sidecars' = sidecars \ {At(Append(f, x))}
      /\ UNCHANGED <<disk, dirs, files, opened>>
  BY <1>1, DoUnsidecar DEF AtUnsidecar
<1>3. NodeIn(disk, Append(f, x)) = None
  BY FitsFree DEF AtUnsidecar, Steady
<1>4. SidecarsTrue(disk, sidecars \ {At(Append(f, x))})
  BY <1>3, SidecarsLess DEF Steady
<1>5. Steady'
  BY <1>2, <1>4 DEF Steady
<1>6. AtUnindex(f, x, n)'
  BY <1>2 DEF AtUnsidecar, AtUnindex
<1> QED BY <1>2, <1>5, <1>6 DEF Sound

LEMMA StepUnindex ==
    ASSUME Steady, NEW f \in StoredPaths, NEW x \in StoredNames, NEW n \in Folders \cup Files,
           Sound(<<>>, <<>>, {Name(f, x)}, {}, {}, <<>>, <<>>), AtUnindex(f, x, n), Continue
    PROVE  Steady' /\ Quiet'
<1>1. Entry(x, n) \in AllEntries /\ Entry(x, n).name = x.name
  BY EntryTypes
<1>2. /\ job' = Idle /\ dirs' = Reindexed(dirs, f, x.name, {})
      /\ UNCHANGED <<disk, sidecars, files, opened>>
  BY <1>1, LastReindex DEF AtUnindex, ToUnindex
<1>3. \A g : Fold(g.name) = Fold(x.name) => (g \in Kids(disk, NodeIn(disk, f)) <=> g \in {})
  BY FitsFree DEF AtUnindex, Steady
<1>4. Rebase(f, <<>>, <<>>) = f
  BY SettledStill, RebaseSame
<1>5. CacheTrue(disk, Reindexed(dirs, f, x.name, {}), <<>>, <<>>, {}, {})
  <2>1. CacheTrue(disk, dirs, <<>>, <<>>, {Name(f, x)}, {})
    BY DEF Sound
  <2>2. \A a \in {Name(f, x)} : a \in {} \/ a = <<f, Fold(x.name)>>
    BY DEF Name
  <2> QED BY <1>3, <1>4, <2>1, <2>2, CacheReindexed
<1> QED BY <1>2, <1>5, SettledStill DEF Steady, Sound, Quiet

-------------------------------------------------------------------------------
(* Renaming, step by step.                                                 *)

\* The disk without what is in the way is ready for the move.
LEMMA ReadyFacts ==
    ASSUME NEW d, IsVault(d), NEW r \in Renamings, Ready(d, r),
           NEW k, k = NodeIn(d, To(r)), NEW e, e = Without(d, {k})
    PROVE  /\ k = None => e = d
           /\ k # None => k \in Files \cap DOMAIN d /\ k # r.n /\ Less(d, e, k)
           /\ IsVault(e) /\ DOMAIN e = DOMAIN d \ {k}
           /\ NodeIn(e, To(r)) = None
           /\ Moving(e, r.n, From(r), r.p, r.y)
           /\ Put(e, r.p, r.y) = Put(d, r.p, r.y)
<1> DEFINE s == From(r)
           t == To(r)
           f == r.p
           x == r.y
           n == r.n
<1>1. /\ s \in StoredPaths /\ t \in StoredPaths /\ f \in StoredPaths /\ x \in StoredNames
      /\ t = Append(f, x)
  BY RenamingFacts
<1>2. /\ n \in DOMAIN d /\ NodeIn(d, s) = n /\ ~StartsWith(t, s)
      /\ k # None => {n, k} \subseteq Files
      /\ Fits(d, f, x, {n, k})
      /\ k = NodeIn(d, t)
  BY DEF Ready
<1> HIDE DEF s, t, f, x, n
<1>3. k \in DOMAIN d \cup {None} /\ None \notin DOMAIN d
  BY <1>1, <1>2, NodeFacts, VaultFacts
<1>4. ASSUME k = None PROVE e = d
  <2>1. DOMAIN d \ {k} = DOMAIN d
    BY <1>3, <1>4
  <2>2. d = [m \in DOMAIN d |-> d[m]]
    BY DEF IsVault
  <2> QED BY <2>1, <2>2 DEF Without
<1>5. k # n
  <2>1. k = n => t = s
    BY <1>1, <1>2, <1>3, OnePath
  <2>2. StartsWith(s, s)
    <3>1. s \o <<>> = s /\ <<>> \in StoredPaths
      BY <1>1, ConcatFacts
    <3> QED BY <1>1, <3>1, PrefixIsConcat
  <2> QED BY <1>2, <2>1, <2>2
<1>6. ASSUME k # None PROVE k \in Files \cap DOMAIN d /\ Less(d, e, k)
  <2>1. k \in DOMAIN d /\ k \in Files /\ k \notin Folders
    BY <1>2, <1>3, <1>6, TreeAssumption
  <2>2. Childless(d, k)
    BY <2>1, VaultFacts DEF Childless
  <2>3. Less(d, e, k)
    BY <2>1, <2>2, Dropped
  <2> QED BY <2>1, <2>3
<1>7. IsVault(e) /\ DOMAIN e = DOMAIN d \ {k} /\ \A m \in DOMAIN e : e[m] = d[m]
  BY <1>3, <1>4, <1>6 DEF Less
<1>8. \A q \in StoredPaths : NodeIn(e, q) = IF NodeIn(d, q) = k THEN None ELSE NodeIn(d, q)
  BY <1>4, <1>6 DEF Less
<1>9. NodeIn(e, t) = None /\ NodeIn(e, s) = n
  BY <1>1, <1>2, <1>5, <1>8
<1>10. NodeIn(e, f) = NodeIn(d, f) /\ NodeIn(d, f) \in Folders
  <2>1. NodeIn(d, f) \in Folders
    BY <1>2 DEF Fits
  <2>2. k \notin Folders
    BY <1>2, TreeAssumption
  <2> QED BY <1>1, <1>8, <2>1, <2>2
<1>11. Fits(e, f, x, {n})
  BY <1>2, <1>7, <1>10 DEF Fits
<1>12. Moving(e, n, s, f, x)
  BY <1>1, <1>2, <1>5, <1>7, <1>9, <1>11 DEF Moving
<1>13. Put(e, f, x) = Put(d, f, x)
  BY <1>10 DEF Put
<1> QED BY <1>4, <1>5, <1>6, <1>7, <1>9, <1>12, <1>13 DEF s, t, f, x, n

\* The thing has moved from d to e, and with it what is below it.
Arrives(d, e, r) ==
    /\ IsVault(e) /\ DOMAIN e = DOMAIN d \ {NodeIn(d, To(r))}
    /\ \A m \in DOMAIN e : m # r.n => e[m] = d[m]
    /\ r.n \in DOMAIN e /\ e[r.n] = Put(d, r.p, r.y)
    /\ \A q \in StoredPaths : StartsWith(q, From(r)) => NodeIn(e, q) = None
    /\ NodeIn(e, To(r)) = r.n /\ ~StartsWith(r.p, From(r))
    /\ NodeIn(e, r.f) \in Folders /\ r.x.iv = NodeIn(e, r.f)
    /\ \/ <<r.f, Fold(r.x.name)>> = <<r.p, Fold(r.y.name)>>
       \/ Fits(e, r.f, r.x, {})

LEMMA ReadyMoves ==
    ASSUME NEW d, IsVault(d), NEW r \in Renamings, Ready(d, r),
           NEW k, k = NodeIn(d, To(r)),
           NEW e, e = [Without(d, {k}) EXCEPT ![r.n] = Put(d, r.p, r.y)]
    PROVE  /\ Arrives(d, e, r)
           /\ \A c : CacheTrue(d, c, <<>>, <<>>, {Name(r.p, r.y)}, {})
                => CacheTrue(e, c, From(r), To(r), {Name(r.p, r.y), Name(r.f, r.x)}, {})
           /\ \A fl, op : FilesTrue(d, fl, op, {To(r)}, <<>>, <<>>) /\ Bare(fl, To(r))
                => FilesTrue(e, fl, op, {}, From(r), To(r))
<1> DEFINE s == From(r)
           t == To(r)
           n == r.n
           g == Without(d, {k})
<1>1. /\ r.f \in StoredPaths /\ r.x \in StoredNames /\ r.p \in StoredPaths /\ r.y \in StoredNames
      /\ s \in StoredPaths /\ t \in StoredPaths /\ s = Append(r.f, r.x) /\ t = Append(r.p, r.y)
  BY RenamingFacts
<1>2. /\ k = None => g = d
      /\ k # None => k \in Files \cap DOMAIN d /\ k # n /\ Less(d, g, k)
      /\ IsVault(g) /\ DOMAIN g = DOMAIN d \ {k}
      /\ NodeIn(g, t) = None
      /\ Moving(g, n, s, r.p, r.y)
      /\ Put(g, r.p, r.y) = Put(d, r.p, r.y)
  BY ReadyFacts
<1>3. e = MoveTo(g, n, r.p, r.y)
  BY <1>2 DEF MoveTo
<1>4. n \in DOMAIN d /\ NodeIn(d, s) = n
  BY DEF Ready
<1> HIDE DEF s, t, n, g
<1>5. Shifted(g, e, n, s, r.p, r.y)
  BY <1>1, <1>2, <1>3, Moved
<1>6. n \in DOMAIN g /\ NodeIn(g, s) = n
  BY <1>2 DEF Moving
<1>7. \A m \in DOMAIN g : g[m] = d[m]
  BY <1>2 DEF Less
<1>8. ASSUME NEW q \in StoredPaths, NodeIn(d, q) \in Folders PROVE NodeIn(g, q) = NodeIn(d, q)
  BY <1>2, <1>8, TreeAssumption DEF Less
<1>9. NodeIn(d, r.f) \in Folders /\ r.x.iv = NodeIn(d, r.f) /\ NodeIn(d, r.f) # None
  <2>1. NodeIn(d, Append(r.f, r.x)) # None
    BY <1>1, <1>4, VaultFacts
  <2> QED BY <1>1, <2>1, FoldersAbove, TreeAssumption
<1>10. ~StartsWith(r.f, s)
  <2>1. Len(r.f) \in Nat /\ Len(s) = Len(r.f) + 1
    BY <1>1, AppendFacts
  <2> QED BY <2>1 DEF StartsWith
<1>11. NodeIn(e, r.f) = NodeIn(d, r.f)
  <2>1. NodeIn(g, r.f) = NodeIn(d, r.f)
    BY <1>1, <1>8, <1>9
  <2>2. Rebase(r.f, s, t) = r.f
    BY <1>1, <1>10, RebaseFacts
  <2>3. \A q \in StoredPaths : NodeIn(g, q) # None => NodeIn(e, Rebase(q, s, t)) = NodeIn(g, q)
    BY <1>1, <1>5 DEF Shifted
  <2> QED BY <1>1, <1>9, <2>1, <2>2, <2>3
<1>12. /\ IsVault(e) /\ DOMAIN e = DOMAIN g /\ e[n] = Put(g, r.p, r.y)
       /\ \A m \in DOMAIN g : m # n => e[m] = g[m]
       /\ \A q \in StoredPaths : StartsWith(q, s) => NodeIn(e, q) = None
       /\ NodeIn(e, t) = n /\ ~StartsWith(r.p, s)
  BY <1>1, <1>5 DEF Shifted
<1>13. \/ <<r.f, Fold(r.x.name)>> = <<r.p, Fold(r.y.name)>>
       \/ Fits(e, r.f, r.x, {})
  <2> SUFFICES ASSUME <<r.f, Fold(r.x.name)>> # <<r.p, Fold(r.y.name)>>
               PROVE  Fits(e, r.f, r.x, {})
    OBVIOUS
  <2>1. d[n].in = NodeIn(d, r.f) /\ d[n].name = r.x.name
    BY <1>1, <1>4, NodeFacts
  <2>2. ASSUME NEW m \in DOMAIN e, e[m].in = NodeIn(e, r.f), Fold(e[m].name) = Fold(r.x.name)
        PROVE  FALSE
    <3>1. CASE m # n
      <4>1. m \in DOMAIN d /\ e[m] = d[m]
        BY <1>2, <1>7, <1>12, <2>2, <3>1
      <4>2. \A i, j \in DOMAIN d : d[i].in = d[j].in /\ Fold(d[i].name) = Fold(d[j].name) => i = j
        BY DEF IsVault
      <4> QED BY <1>4, <1>11, <2>1, <2>2, <3>1, <4>1, <4>2
    <3>2. CASE m = n
      <4>1. NodeIn(d, r.p) = NodeIn(d, r.f) /\ Fold(r.y.name) = Fold(r.x.name)
        <5>1. e[m] = Put(d, r.p, r.y)
          BY <1>2, <1>12, <3>2
        <5>2. Put(d, r.p, r.y).in = NodeIn(d, r.p) /\ Put(d, r.p, r.y).name = r.y.name
          BY DEF Put
        <5> QED BY <1>11, <2>2, <5>1, <5>2
      <4>2. r.p = r.f
        BY <1>1, <1>9, <4>1, OnePath
      <4> QED BY <4>1, <4>2
    <3> QED BY <3>1, <3>2
  <2> QED BY <1>9, <1>11, <2>2 DEF Fits
<1>14. Arrives(d, e, r)
  BY <1>2, <1>6, <1>7, <1>9, <1>11, <1>12, <1>13 DEF Arrives, s, t, n
<1>15. ASSUME NEW c, CacheTrue(d, c, <<>>, <<>>, {Name(r.p, r.y)}, {})
       PROVE  CacheTrue(e, c, s, t, {Name(r.p, r.y), Name(r.f, r.x)}, {})
  <2> DEFINE pend == {Name(r.p, r.y)}
  <2>1. CacheTrue(g, c, <<>>, <<>>, pend, {})
    <3>1. CASE k = None
      BY <1>2, <1>15, <3>1
    <3>2. CASE k # None
      <4>1. CacheTrue(g, c, <<>>, <<>>, pend \cup {<<r.p, Fold(r.y.name)>>},
                      IF k \in Folders THEN {Append(r.p, r.y)} ELSE {})
        <5>1. k \in DOMAIN d /\ Less(d, g, k) /\ NodeIn(d, Append(r.p, r.y)) = k
          BY <1>1, <1>2, <3>2 DEF t
        <5> HIDE DEF pend
        <5>2. CacheTrue(d, c, <<>>, <<>>, pend, {})
          BY <1>15 DEF pend
        <5> QED BY <1>1, <5>1, <5>2, CacheDropped
      <4>2. k \notin Folders
        BY <1>2, <3>2, TreeAssumption
      <4>3. pend \cup {<<r.p, Fold(r.y.name)>>} = pend
        BY DEF Name
      <4> QED BY <4>1, <4>2, <4>3
    <3> QED BY <3>1, <3>2
  <2>2. CacheTrue(e, c, Append(r.f, r.x), Append(r.p, r.y),
                  pend \cup {<<r.f, Fold(r.x.name)>>, <<r.p, Fold(r.y.name)>>}, {})
    <3>1. Shifted(g, e, n, Append(r.f, r.x), r.p, r.y) /\ NodeIn(g, Append(r.f, r.x)) = n
      BY <1>1, <1>5, <1>6
    <3> HIDE DEF pend
    <3> QED BY <1>1, <1>2, <1>6, <2>1, <3>1, CacheMoved
  <2>3. pend \cup {<<r.f, Fold(r.x.name)>>, <<r.p, Fold(r.y.name)>>} = {Name(r.p, r.y), Name(r.f, r.x)}
    BY DEF Name
  <2> QED BY <1>1, <2>2, <2>3
<1>16. ASSUME NEW fl, NEW op, FilesTrue(d, fl, op, {t}, <<>>, <<>>), Bare(fl, t)
       PROVE  FilesTrue(e, fl, op, {}, s, t)
  <2>1. FilesTrue(g, fl, op, {t}, <<>>, <<>>)
    <3>1. CASE k = None
      BY <1>2, <1>16, <3>1
    <3>2. CASE k # None
      <4>1. k \in DOMAIN d /\ Less(d, g, k) /\ NodeIn(d, t) = k /\ k \notin Folders
        BY <1>2, <3>2, TreeAssumption DEF t
      <4>2. FilesTrue(g, fl, op, IF k \in Folders THEN {t} ELSE {t} \cup {t}, <<>>, <<>>)
        BY <1>1, <1>16, <4>1, FilesDropped
      <4>3. {t} \cup {t} = {t}
        OBVIOUS
      <4> QED BY <4>1, <4>2, <4>3
    <3> QED BY <3>1, <3>2
  <2>2. t \notin DOMAIN fl
    <3>1. StartsWith(t, t)
      <4>1. t \o <<>> = t /\ <<>> \in StoredPaths
        BY <1>1, ConcatFacts
      <4> QED BY <1>1, <4>1, PrefixIsConcat
    <3> QED BY <1>16, <3>1 DEF Bare
  <2>3. FilesTrue(g, fl, op, {Append(r.p, r.y)}, <<>>, <<>>) /\ NodeIn(g, Append(r.p, r.y)) = None
        /\ Append(r.p, r.y) \notin DOMAIN fl
    BY <1>1, <1>2, <2>1, <2>2
  <2>4. FilesTrue(e, fl, op, {}, s, Append(r.p, r.y))
    BY <1>1, <1>2, <1>5, <2>3, FilesMoved
  <2> QED BY <1>1, <2>4
<1> QED BY <1>14, <1>15, <1>16 DEF s, t

\* Where nothing is left below s, nothing is on its way from there.
LEMMA SettledAway ==
    ASSUME NEW d, NEW s \in StoredPaths, NEW t \in StoredPaths,
           \A q \in StoredPaths : StartsWith(q, s) => NodeIn(d, q) = None
    PROVE  Settled(d, s, t, {})
BY RebaseFacts DEF Settled

LEMMA StepUnlinkOld ==
    ASSUME Steady, NEW r \in Renamings, NEW z \in StoredNames,
           Sound(<<>>, <<>>, {}, {}, {}, <<>>, <<>>), AtUnlinkOld(r, z), Continue
    PROVE  Steady' /\ (Quiet' \/ ClearStage(r, z)')
<1> DEFINE u == Append(r.p, z)
           k == NodeIn(disk, u)
<1>1. /\ u \in StoredPaths /\ r.p \in StoredPaths
      /\ ToUnsidecarOld(r, z) \in Seq(Steps) /\ ToDropOld(r, z) \in Seq(Steps)
      /\ To(r) \in StoredPaths
  BY AppendFacts, RenamingFacts, RenameTypes
<1>2. /\ OldFits(r) /\ Ready(Without(disk, {k}), r)
      /\ k \in Files /\ k \in DOMAIN disk
      /\ NodeIn(disk, To(r)) = None /\ Fold(z.name) = Fold(r.y.name)
      /\ job = OnPath("unlink", u) \o ToUnsidecarOld(r, z)
  BY DEF AtUnlinkOld, ToUnlinkOld
<1>3. IsVault(disk) /\ k \notin Folders /\ k # None
  BY <1>2, TreeAssumption DEF Steady
<1>4. Childless(disk, k)
  BY <1>3, VaultFacts DEF Childless
<1>5. /\ UNCHANGED <<dirs, files, opened>>
      /\ \/ job' = Idle /\ UNCHANGED <<disk, sidecars>>
         \/ /\ job' = ToUnsidecarOld(r, z) /\ disk' = Without(disk, {k})
            /\ Steady' /\ Less(disk, disk', k)
  <2>1. IsAt(r.p, z, k)
    BY <1>2 DEF IsAt
  <2> HIDE DEF k
  <2> QED BY <1>1, <1>2, <1>4, <2>1, UnlinkFacts
<1>6. CASE job' = Idle /\ UNCHANGED <<disk, sidecars>>
  BY <1>5, <1>6, SettledStill DEF Steady, Sound, Quiet
<1>7. CASE job' # Idle \/ ~UNCHANGED <<disk, sidecars>>
  <2>1. job' = ToUnsidecarOld(r, z) /\ disk' = Without(disk, {k}) /\ Steady' /\ Less(disk, disk', k)
    BY <1>5, <1>7
  <2>2. NodeIn(disk', u) = None /\ NodeIn(disk', To(r)) = None
    BY <1>1, <1>2, <1>3, <2>1 DEF Less
  <2>3. CacheTrue(disk', dirs', <<>>, <<>>, {Name(r.p, r.y)}, {})
    <3> HIDE DEF k
    <3>0. NodeIn(disk, Append(r.p, z)) = k
      BY DEF k
    <3>1. CacheTrue(disk', dirs, <<>>, <<>>, {} \cup {<<r.p, Fold(z.name)>>},
                    IF k \in Folders THEN {Append(r.p, z)} ELSE {})
      BY <1>1, <1>2, <1>3, <2>1, <3>0, CacheDropped DEF Sound
    <3>2. {} \cup {<<r.p, Fold(z.name)>>} = {Name(r.p, r.y)}
      BY <1>2 DEF Name
    <3> QED BY <1>3, <1>5, <3>1, <3>2
  <2>4. FilesTrue(disk', files', opened', {u}, <<>>, <<>>)
    <3>0. NodeIn(disk, u) = k
      OBVIOUS
    <3> HIDE DEF k, u
    <3>1. FilesTrue(disk', files, opened, IF k \in Folders THEN {} ELSE {} \cup {u}, <<>>, <<>>)
      BY <1>1, <1>2, <1>3, <2>1, <3>0, FilesDropped DEF Sound
    <3>2. {} \cup {u} = {u}
      OBVIOUS
    <3> QED BY <1>3, <1>5, <3>1, <3>2
  <2>5. Sound(<<>>, <<>>, {Name(r.p, r.y)}, {}, {u}, <<>>, <<>>)'
    BY <2>3, <2>4, SettledStill DEF Sound
  <2>6. AtUnsidecarOld(r, z)' \/ AtDropOld(r, z)'
    <3>1. OnPath("unsidecar", u) \in Seq(Steps)
      BY <1>1, TodoTypes DEF Kinds
    <3>2. \/ job' = OnPath("unsidecar", u) \o ToDropOld(r, z)
          \/ job' = ToDropOld(r, z)
      BY <1>1, <2>1, <3>1, LongTypes DEF ToUnsidecarOld
    <3>3. Ready(disk', r)
      BY <1>2, <2>1
    <3> QED BY <1>2, <2>2, <3>2, <3>3 DEF AtUnsidecarOld, AtDropOld
  <2> QED BY <2>1, <2>5, <2>6 DEF ClearStage
<1> QED BY <1>6, <1>7

LEMMA StepUnsidecarOld ==
    ASSUME Steady, NEW r \in Renamings, NEW z \in StoredNames, NEW drop,
           Sound(<<>>, <<>>, {Name(r.p, r.y)}, {}, drop, <<>>, <<>>), AtUnsidecarOld(r, z), Continue
    PROVE  /\ Steady' /\ Sound(<<>>, <<>>, {Name(r.p, r.y)}, {}, drop, <<>>, <<>>)'
           /\ AtDropOld(r, z)'
<1>1. Append(r.p, z) \in StoredPaths /\ ToDropOld(r, z) \in Seq(Steps) /\ r.p \in StoredPaths
  BY AppendFacts, RenamingFacts, RenameTypes
<1>2. /\ job' = ToDropOld(r, z) /\ sidecars' = sidecars \ {At(Append(r.p, z))}
      /\ UNCHANGED <<disk, dirs, files, opened>>
  BY <1>1, DoUnsidecar DEF AtUnsidecarOld
<1>3. SidecarsTrue(disk, sidecars \ {At(Append(r.p, z))})
  BY <1>1, SidecarsLess DEF Steady, AtUnsidecarOld
<1>4. Steady'
  BY <1>2, <1>3 DEF Steady
<1>5. AtDropOld(r, z)'
  BY <1>2 DEF AtUnsidecarOld, AtDropOld
<1> QED BY <1>2, <1>4, <1>5 DEF Sound

\* No file is open below what is no folder, or only the file that is there.
LEMMA BareFiles ==
    ASSUME NEW d, IsVault(d), NEW fl, NEW op, NEW drop, FilesTrue(d, fl, op, drop, <<>>, <<>>),
           NEW t \in StoredPaths, NodeIn(d, t) \in Files \cup {None},
           NodeIn(d, t) # None => t \notin DOMAIN fl, drop \cap DOMAIN fl = {}
    PROVE  Bare(fl, t)
<1> SUFFICES ASSUME NEW q \in DOMAIN fl, StartsWith(q, t) PROVE FALSE
  BY DEF Bare
<1>1. q \in StoredPaths /\ NodeIn(d, q) \in Files /\ NodeIn(d, q) # None
  <2>1. q \in DOMAIN fl \ drop
    OBVIOUS
  <2>2. q \in StoredPaths /\ fl[q] \in DOMAIN op /\ NodeIn(d, q) = op[fl[q]].node
    BY <2>1, FilesSettled
  <2>3. \A o \in DOMAIN op : op[o].node \in Files
    BY DEF FilesTrue, OpenFiles
  <2> QED BY <2>2, <2>3, TreeAssumption
<1>2. CASE NodeIn(d, t) = None
  BY <1>1, <1>2, NothingBelowNothing
<1>3. CASE NodeIn(d, t) # None
  <2>1. q # t
    BY <1>3
  <2>2. \A m \in DOMAIN d : d[m].in # NodeIn(d, t)
    BY <1>3, VaultFacts, TreeAssumption
  <2> QED BY <1>1, <2>1, <2>2, NothingBelow
<1> QED BY <1>2, <1>3

LEMMA StepDropOld ==
    ASSUME Steady, NEW r \in Renamings, NEW z \in StoredNames,
           Sound(<<>>, <<>>, {Name(r.p, r.y)}, {}, {Append(r.p, z)}, <<>>, <<>>), AtDropOld(r, z), Continue
    PROVE  Steady' /\ MoveStage(r)'
<1> DEFINE u == Append(r.p, z)
           t == To(r)
<1>1. /\ u \in StoredPaths /\ t \in StoredPaths /\ ToSidecarNew(r) \in Seq(Steps)
      /\ t = Append(r.p, r.y)
  BY AppendFacts, RenamingFacts, RenameTypes
<1>2. /\ OldFits(r) /\ Ready(disk, r) /\ IsVault(disk)
      /\ z = r.y \/ (NodeIn(disk, u) = None /\ NodeIn(disk, t) = None)
      /\ job = OnPath("dropFile", u) \o ToSidecarNew(r)
  BY DEF AtDropOld, ToDropOld, Steady
<1>3. /\ job' = ToSidecarNew(r) /\ files' = Without(files, {u})
      /\ UNCHANGED <<disk, sidecars, dirs, opened>>
  BY <1>1, <1>2, DoDropFile
<1>4. DOMAIN files' = DOMAIN files \ {u}
  BY <1>3 DEF Without
<1> HIDE DEF u, t
<1>5. /\ FilesTrue(disk, files', opened, {u}, <<>>, <<>>)
      /\ NodeIn(disk, u) = None => FilesTrue(disk, files', opened, {}, <<>>, <<>>)
  <2>1. FilesTrue(disk, files, opened, {u}, <<>>, <<>>)
    BY DEF Sound, u
  <2> QED BY <1>1, <1>2, <1>3, <2>1, FilesForgotten
<1>6. FilesTrue(disk, files', opened, {t}, <<>>, <<>>)
  <2>1. CASE z = r.y
    <3>1. u = t
      BY <1>1, <2>1 DEF u
    <3> QED BY <1>5, <3>1
  <2>2. CASE NodeIn(disk, u) = None
    BY <1>5, <2>2, FilesWeaker
  <2> QED BY <1>2, <2>1, <2>2
<1>7. NodeIn(disk, t) \in Files \cup {None}
  BY <1>2 DEF Ready, t
<1>8. Bare(files', t)
  <2>1. CASE z = r.y
    <3>1. u = t
      BY <1>1, <2>1 DEF u
    <3>2. PICK fl : fl = files'
      OBVIOUS
    <3>3. t \notin DOMAIN fl /\ {t} \cap DOMAIN fl = {}
      BY <1>4, <3>1, <3>2
    <3>4. FilesTrue(disk, fl, opened, {t}, <<>>, <<>>)
      BY <1>6, <3>2
    <3>5. Bare(fl, t)
      BY <1>1, <1>2, <1>7, <3>3, <3>4, BareFiles
    <3> QED BY <3>2, <3>5
  <2>2. CASE NodeIn(disk, u) = None /\ NodeIn(disk, t) = None
    BY <1>1, <1>2, <1>4, <1>5, <1>7, <2>2, BareFiles
  <2> QED BY <1>2, <2>1, <2>2
<1>9. CacheTrue(disk, dirs, <<>>, <<>>, {Name(r.p, r.y)}, {})
  BY DEF Sound
<1>10. Sound(<<>>, <<>>, {Name(r.p, r.y)}, {}, {t}, <<>>, <<>>)'
  BY <1>3, <1>6, <1>9, SettledStill DEF Sound
<1>11. AtSidecarNew(r)' \/ AtMove(r)'
  <2>1. /\ OnPath("sidecar", t) \in Seq(Steps) /\ ToMove(r) \in Seq(Steps) /\ r.y \in StoredNames
    BY <1>1, RenamingFacts, RenameTypes, TodoTypes DEF Kinds
  <2>2. \/ job' = OnPath("sidecar", t) \o ToMove(r)
        \/ r.y.name \notin Long /\ job' = ToMove(r)
    BY <1>3, <2>1, LongTypes DEF ToSidecarNew, t
  <2> QED BY <1>2, <1>3, <1>8, <2>2 DEF AtSidecarNew, AtMove, t
<1> QED BY <1>3, <1>10, <1>11 DEF Steady, MoveStage, t

LEMMA StepSidecarNew ==
    ASSUME Steady, NEW r \in Renamings, NEW drop,
           Sound(<<>>, <<>>, {Name(r.p, r.y)}, {}, drop, <<>>, <<>>), AtSidecarNew(r), Continue
    PROVE  Steady' /\ Sound(<<>>, <<>>, {Name(r.p, r.y)}, {}, drop, <<>>, <<>>)' /\ AtMove(r)'
<1>1. /\ To(r) \in StoredPaths /\ ToMove(r) \in Seq(Steps) /\ r.p \in StoredPaths /\ r.y \in StoredNames
      /\ To(r) = Append(r.p, r.y)
  BY RenamingFacts, RenameTypes
<1>2. At(To(r)) = Put(disk, r.p, r.y)
  BY <1>1, AtIsPut
<1>3. /\ job' = ToMove(r) /\ sidecars' = sidecars \cup {Put(disk, r.p, r.y)}
      /\ UNCHANGED <<disk, dirs, files, opened>>
  BY <1>1, <1>2, DoSidecar DEF AtSidecarNew
<1>4. Steady'
  BY <1>3 DEF Steady, SidecarsTrue
<1>5. AtMove(r)'
  BY <1>3 DEF AtSidecarNew, AtMove
<1> QED BY <1>3, <1>4, <1>5 DEF Sound

\* What "move" does to the disk.
LEMMA MoveFacts ==
    ASSUME Steady, "move" \notin Faults, NEW r \in Renamings, AtMove(r), Continue
    PROVE  /\ job' = ToUnsidecarSource(r) /\ UNCHANGED <<sidecars, dirs, files, opened>>
           /\ disk' = [Without(disk, {NodeIn(disk, To(r))}) EXCEPT ![r.n] = Put(disk, r.p, r.y)]
<1>1. /\ From(r) \in StoredPaths /\ To(r) \in StoredPaths /\ ToUnsidecarSource(r) \in Seq(Steps)
      /\ r.p \in StoredPaths /\ r.y \in StoredNames /\ To(r) = Append(r.p, r.y)
  BY RenamingFacts, RenameTypes
<1>2. At(To(r)) = Put(disk, r.p, r.y) /\ NodeAt(To(r)) = NodeIn(disk, To(r))
  BY <1>1, AtIsPut, NodeAtIsNodeIn
<1>3. NodeAt(From(r)) = r.n /\ r.n # None
  BY NodeAtIsNodeIn, VaultFacts DEF AtMove, Ready, Steady
<1>4. job = Moves("move", From(r), To(r)) \o ToUnsidecarSource(r)
  BY DEF AtMove, ToMove
<1>5. /\ job' = ToUnsidecarSource(r)
      /\ disk' = [Without(disk, {NodeAt(To(r))}) EXCEPT ![NodeAt(From(r))] = At(To(r))]
      /\ UNCHANGED <<sidecars, dirs, files, opened>>
  BY <1>1, <1>3, <1>4, DoMove
<1> QED BY <1>2, <1>3, <1>5

LEMMA StepMove ==
    ASSUME Steady, "move" \notin Faults, NEW r \in Renamings,
           Sound(<<>>, <<>>, {Name(r.p, r.y)}, {}, {To(r)}, <<>>, <<>>), AtMove(r), Continue
    PROVE  Steady' /\ MoveStage(r)'
<1>1. /\ job' = ToUnsidecarSource(r) /\ UNCHANGED <<sidecars, dirs, files, opened>>
      /\ disk' = [Without(disk, {NodeIn(disk, To(r))}) EXCEPT ![r.n] = Put(disk, r.p, r.y)]
  BY MoveFacts
<1>2. /\ IsVault(disk) /\ Ready(disk, r) /\ Bare(files, To(r)) /\ OldFits(r)
      /\ r.y.name \in Long => Put(disk, r.p, r.y) \in sidecars
  BY DEF AtMove, Steady
<1>3. PICK e : e = disk'
  OBVIOUS
<1>4. e = [Without(disk, {NodeIn(disk, To(r))}) EXCEPT ![r.n] = Put(disk, r.p, r.y)]
  BY <1>1, <1>3
<1>5. /\ Arrives(disk, e, r)
      /\ \A c : CacheTrue(disk, c, <<>>, <<>>, {Name(r.p, r.y)}, {})
           => CacheTrue(e, c, From(r), To(r), {Name(r.p, r.y), Name(r.f, r.x)}, {})
      /\ \A fl, op : FilesTrue(disk, fl, op, {To(r)}, <<>>, <<>>) /\ Bare(fl, To(r))
           => FilesTrue(e, fl, op, {}, From(r), To(r))
  BY <1>2, <1>4, ReadyMoves
<1>6. From(r) \in StoredPaths /\ To(r) \in StoredPaths
  BY RenamingFacts
<1>7. Sound(From(r), To(r), {Name(r.p, r.y), Name(r.f, r.x)}, {}, {}, From(r), To(r))'
  <2>1. CacheTrue(disk', dirs', From(r), To(r), {Name(r.p, r.y), Name(r.f, r.x)}, {})
    BY <1>1, <1>3, <1>5 DEF Sound
  <2>2. FilesTrue(disk', files', opened', {}, From(r), To(r))
    BY <1>1, <1>2, <1>3, <1>5 DEF Sound
  <2>3. Settled(disk', From(r), To(r), {})
    <3>1. \A q \in StoredPaths : StartsWith(q, From(r)) => NodeIn(e, q) = None
      BY <1>5 DEF Arrives
    <3> QED BY <1>3, <1>6, <3>1, SettledAway
  <2> QED BY <2>1, <2>2, <2>3 DEF Sound
<1>8. Steady'
  <2>1. /\ IsVault(e) /\ DOMAIN e \subseteq DOMAIN disk
        /\ \A m \in DOMAIN e : m # r.n => e[m] = disk[m]
        /\ e[r.n] = Put(disk, r.p, r.y)
    BY <1>5 DEF Arrives
  <2>2. Put(disk, r.p, r.y).name = r.y.name
    BY DEF Put
  <2>3. SidecarsTrue(e, sidecars)
    BY <1>2, <2>1, <2>2 DEF SidecarsTrue, Steady
  <2> QED BY <1>1, <1>3, <2>1, <2>3 DEF Steady
<1>9. Arrived(r)'
  BY <1>1, <1>2, <1>3, <1>5 DEF Arrives, Arrived, IsAt, To
<1>10. AtUnsidecarSource(r)' \/ AtUnindexSource(r)'
  <2>1. r.x \in StoredNames /\ r.y \in StoredNames
    BY RenamingFacts
  <2>2. OnPath("unsidecar", From(r)) \in Seq(Steps) /\ ToUnindexSource(r) \in Seq(Steps)
    BY <1>6, <2>1, RenameTypes, TodoTypes DEF Kinds
  <2>3. \/ job' = OnPath("unsidecar", From(r)) \o ToUnindexSource(r)
        \/ job' = ToUnindexSource(r)
    BY <1>1, <2>2, LongTypes DEF ToUnsidecarSource
  <2> QED BY <1>9, <2>3 DEF AtUnsidecarSource, AtUnindexSource
<1> QED BY <1>7, <1>8, <1>10 DEF MoveStage

-------------------------------------------------------------------------------
(* After the move.                                                         *)

LEMMA PrefixSelf == \A s \in StoredPaths : StartsWith(s, s)
<1> TAKE s \in StoredPaths
<1>1. s \o <<>> = s /\ <<>> \in StoredPaths
  BY ConcatFacts
<1> QED BY <1>1, PrefixIsConcat

\* The settled part of what "Sound" says stays while the disk does.
LEMMA SoundIndexed ==
    ASSUME NEW s, NEW t, NEW pend, NEW rest, NEW p, NEW name, NEW adds,
           Sound(s, t, pend, {}, {}, s, t),
           dirs' = Reindexed(dirs, p, name, adds), UNCHANGED <<disk, files, opened>>,
           CacheTrue(disk, Reindexed(dirs, p, name, adds), s, t, rest, {})
    PROVE  Sound(s, t, rest, {}, {}, s, t)'
BY DEF Sound

LEMMA StepUnsidecarSource ==
    ASSUME Steady, NEW r \in Renamings, NEW pend,
           Sound(From(r), To(r), pend, {}, {}, From(r), To(r)),
           AtUnsidecarSource(r), Continue
    PROVE  Steady' /\ Sound(From(r), To(r), pend, {}, {}, From(r), To(r))' /\ AtUnindexSource(r)'
<1>1. /\ From(r) \in StoredPaths /\ ToUnindexSource(r) \in Seq(Steps)
      /\ r.f \in StoredPaths /\ r.x \in StoredNames /\ From(r) = Append(r.f, r.x)
  BY RenamingFacts, RenameTypes
<1>2. /\ job' = ToUnindexSource(r) /\ sidecars' = sidecars \ {At(From(r))}
      /\ UNCHANGED <<disk, dirs, files, opened>>
  BY <1>1, DoUnsidecar DEF AtUnsidecarSource
<1>3. NodeIn(disk, Append(r.f, r.x)) = None
  BY <1>1, PrefixSelf DEF AtUnsidecarSource, Arrived
<1>4. SidecarsTrue(disk, sidecars \ {At(From(r))})
  BY <1>1, <1>3, SidecarsLess DEF Steady
<1>5. Steady'
  BY <1>2, <1>4 DEF Steady
<1>6. AtUnindexSource(r)'
  BY <1>2 DEF AtUnsidecarSource, AtUnindexSource, Arrived, IsAt
<1> QED BY <1>2, <1>5, <1>6 DEF Sound

LEMMA StepUnindexSource ==
    ASSUME Steady, NEW r \in Renamings,
           Sound(From(r), To(r), {Name(r.p, r.y), Name(r.f, r.x)}, {}, {}, From(r), To(r)),
           AtUnindexSource(r), Continue
    PROVE  /\ Steady' /\ Sound(From(r), To(r), {Name(r.p, r.y)}, {}, {}, From(r), To(r))'
           /\ AtUnindexOld(r)' \/ AtIndexNew(r)'
<1>1. /\ r.f \in StoredPaths /\ r.x \in StoredNames /\ ToUnindexOld(r) \in Seq(Steps)
      /\ ToIndexNew(r) \in Seq(Steps)
      /\ From(r) \in StoredPaths /\ To(r) \in StoredPaths /\ From(r) = Append(r.f, r.x)
      /\ Entry(r.x, r.n) \in AllEntries /\ Entry(r.x, r.n).name = r.x.name
  BY RenamingFacts, RenameTypes, EntryTypes
<1>2. job = OnIndex("unindex", r.f, Entry(r.x, r.n)) \o ToUnindexOld(r)
  BY DEF AtUnindexSource, ToUnindexSource
<1>3. /\ job' = ToUnindexOld(r) /\ dirs' = Reindexed(dirs, r.f, r.x.name, {})
      /\ UNCHANGED <<disk, sidecars, files, opened>>
  BY <1>1, <1>2, DoReindex
<1>4. Rebase(r.f, From(r), To(r)) = r.f
  <2>1. Len(r.f) \in Nat /\ Len(From(r)) = Len(r.f) + 1
    BY <1>1, AppendFacts
  <2>2. ~StartsWith(r.f, From(r))
    BY <2>1 DEF StartsWith
  <2> QED BY <1>1, <2>2, RebaseFacts
<1>5. \/ <<r.f, Fold(r.x.name)>> \in {Name(r.p, r.y)}
      \/ /\ Rebase(r.f, From(r), To(r)) = r.f
         /\ \A g : Fold(g.name) = Fold(r.x.name) => (g \in Kids(disk, NodeIn(disk, r.f)) <=> g \in {})
  <2>1. CASE <<r.f, Fold(r.x.name)>> = <<r.p, Fold(r.y.name)>>
    BY <2>1 DEF Name
  <2>2. CASE Fits(disk, r.f, r.x, {})
    BY <1>1, <1>4, <2>2, FitsFree DEF Steady
  <2> QED BY <2>1, <2>2 DEF AtUnindexSource, Arrived
<1>6. CacheTrue(disk, Reindexed(dirs, r.f, r.x.name, {}), From(r), To(r), {Name(r.p, r.y)}, {})
  <2>1. CacheTrue(disk, dirs, From(r), To(r), {Name(r.p, r.y), Name(r.f, r.x)}, {})
    BY DEF Sound
  <2>2. \A a \in {Name(r.p, r.y), Name(r.f, r.x)} :
           a \in {Name(r.p, r.y)} \/ a = <<r.f, Fold(r.x.name)>>
    BY DEF Name
  <2> QED BY <1>1, <1>5, <2>1, <2>2, CacheReindexed
<1>7. Sound(From(r), To(r), {Name(r.p, r.y)}, {}, {}, From(r), To(r))'
  BY <1>3, <1>6, SoundIndexed
<1>8. AtUnindexOld(r)' \/ AtIndexNew(r)'
  <2>1. r.old = <<>> => ToUnindexOld(r) = ToIndexNew(r)
    BY <1>1, ConcatEmptySeq DEF ToUnindexOld
  <2> QED BY <1>3, <2>1 DEF AtUnindexSource, AtUnindexOld, AtIndexNew, Arrived, IsAt
<1> QED BY <1>3, <1>7, <1>8 DEF Steady

LEMMA StepUnindexOld ==
    ASSUME Steady, NEW r \in Renamings,
           Sound(From(r), To(r), {Name(r.p, r.y)}, {}, {}, From(r), To(r)),
           AtUnindexOld(r), Continue
    PROVE  /\ Steady' /\ Sound(From(r), To(r), {Name(r.p, r.y)}, {}, {}, From(r), To(r))'
           /\ AtIndexNew(r)'
<1>1. r.p \in StoredPaths /\ ToIndexNew(r) \in Seq(Steps)
  BY RenamingFacts, RenameTypes
<1>2. PICK e \in AllEntries : Fold(e.name) = Fold(r.y.name) /\ r.old = OnIndex("unindex", r.p, e)
  BY DEF AtUnindexOld, Arrived, OldFits
<1>3. job = OnIndex("unindex", r.p, e) \o ToIndexNew(r)
  BY <1>2 DEF AtUnindexOld, ToUnindexOld
<1>4. /\ job' = ToIndexNew(r) /\ dirs' = Reindexed(dirs, r.p, e.name, {})
      /\ UNCHANGED <<disk, sidecars, files, opened>>
  BY <1>1, <1>3, DoReindex
<1>5. CacheTrue(disk, Reindexed(dirs, r.p, e.name, {}), From(r), To(r), {Name(r.p, r.y)}, {})
  <2>1. CacheTrue(disk, dirs, From(r), To(r), {Name(r.p, r.y)}, {})
    BY DEF Sound
  <2>2. <<r.p, Fold(e.name)>> \in {Name(r.p, r.y)}
    BY <1>2 DEF Name
  <2> QED BY <1>1, <2>1, <2>2, CacheReindexed
<1>6. Sound(From(r), To(r), {Name(r.p, r.y)}, {}, {}, From(r), To(r))'
  BY <1>4, <1>5, SoundIndexed
<1>7. AtIndexNew(r)'
  BY <1>4 DEF AtUnindexOld, AtIndexNew, Arrived, IsAt
<1> QED BY <1>4, <1>6, <1>7 DEF Steady

LEMMA StepIndexNew ==
    ASSUME Steady, NEW r \in Renamings,
           Sound(From(r), To(r), {Name(r.p, r.y)}, {}, {}, From(r), To(r)),
           AtIndexNew(r), Continue
    PROVE  Steady' /\ Sound(From(r), To(r), {}, {}, {}, From(r), To(r))' /\ AtMoveDirs(r)'
<1>1. /\ r.p \in StoredPaths /\ r.y \in StoredNames /\ ToMoveDirs(r) \in Seq(Steps)
      /\ From(r) \in StoredPaths /\ To(r) \in StoredPaths /\ To(r) = Append(r.p, r.y)
      /\ Entry(r.y, r.n) \in AllEntries /\ Entry(r.y, r.n).name = r.y.name
  BY RenamingFacts, RenameTypes, EntryTypes
<1>2. job = OnIndex("index", r.p, Entry(r.y, r.n)) \o ToMoveDirs(r)
  BY DEF AtIndexNew, ToIndexNew
<1>3. /\ job' = ToMoveDirs(r) /\ dirs' = Reindexed(dirs, r.p, r.y.name, {Entry(r.y, r.n)})
      /\ UNCHANGED <<disk, sidecars, files, opened>>
  BY <1>1, <1>2, DoReindex
<1>4. CacheTrue(disk, Reindexed(dirs, r.p, r.y.name, {Entry(r.y, r.n)}), From(r), To(r), {}, {})
  <2>1. CacheTrue(disk, dirs, From(r), To(r), {Name(r.p, r.y)}, {})
    BY DEF Sound
  <2>2. \A a \in {Name(r.p, r.y)} : a \in {} \/ a = <<r.p, Fold(r.y.name)>>
    BY DEF Name
  <2>3. Rebase(r.p, From(r), To(r)) = r.p
    BY <1>1, RebaseFacts DEF AtIndexNew, Arrived
  <2>4. \A g : Fold(g.name) = Fold(r.y.name)
           => (g \in Kids(disk, NodeIn(disk, r.p)) <=> g \in {Entry(r.y, r.n)})
    <3>1. r.n \in DOMAIN disk /\ NodeIn(disk, Append(r.p, r.y)) = r.n
      BY DEF AtIndexNew, Arrived, IsAt
    <3> QED BY <1>1, <3>1, EntryThere DEF Steady
  <2>5. {Entry(r.y, r.n)} \subseteq AllEntries
        /\ \A e \in {Entry(r.y, r.n)} : Fold(e.name) = Fold(r.y.name)
    BY <1>1
  <2> QED BY <1>1, <2>1, <2>2, <2>3, <2>4, <2>5, CacheReindexed
<1>5. Sound(From(r), To(r), {}, {}, {}, From(r), To(r))'
  BY <1>3, <1>4, SoundIndexed
<1>6. AtMoveDirs(r)'
  BY <1>3 DEF AtIndexNew, AtMoveDirs, Arrived, IsAt
<1> QED BY <1>3, <1>5, <1>6 DEF Steady

LEMMA StepMoveDirs ==
    ASSUME Steady, NEW r \in Renamings,
           Sound(From(r), To(r), {}, {}, {}, From(r), To(r)), AtMoveDirs(r), Continue
    PROVE  Steady' /\ Sound(<<>>, <<>>, {}, {}, {}, From(r), To(r))' /\ AtMoveFiles(r)'
<1>1. From(r) \in StoredPaths /\ To(r) \in StoredPaths /\ ToMoveFiles(r) \in Seq(Steps)
  BY RenamingFacts, RenameTypes
<1>2. /\ job' = ToMoveFiles(r) /\ dirs' = MoveKeys(dirs, From(r), To(r))
      /\ UNCHANGED <<disk, sidecars, files, opened>>
  BY <1>1, DoMoveDirs DEF AtMoveDirs, ToMoveDirs
<1>3. CacheTrue(disk, MoveKeys(dirs, From(r), To(r)), <<>>, <<>>, {}, {})
  BY <1>1, CacheRebased DEF Sound
<1>4. Sound(<<>>, <<>>, {}, {}, {}, From(r), To(r))'
  BY <1>2, <1>3, SettledStill DEF Sound
<1>5. AtMoveFiles(r)'
  BY <1>2 DEF AtMoveDirs, AtMoveFiles, Arrived, IsAt
<1> QED BY <1>2, <1>4, <1>5 DEF Steady

LEMMA StepMoveFiles ==
    ASSUME Steady, NEW r \in Renamings,
           Sound(<<>>, <<>>, {}, {}, {}, From(r), To(r)), AtMoveFiles(r), Continue
    PROVE  Steady' /\ Quiet'
<1>1. From(r) \in StoredPaths /\ To(r) \in StoredPaths
  BY RenamingFacts
<1>2. /\ job' = Idle /\ files' = MoveKeys(files, From(r), To(r))
      /\ PathsRebased(files, opened, opened', From(r), To(r))
      /\ UNCHANGED <<disk, sidecars, dirs>>
  BY <1>1, DoMoveFiles DEF AtMoveFiles, ToMoveFiles
<1>3. PICK u : u = opened'
  OBVIOUS
<1>4. FilesTrue(disk, MoveKeys(files, From(r), To(r)), u, {}, <<>>, <<>>)
  <2>1. FilesTrue(disk, files, opened, {}, From(r), To(r))
    BY DEF Sound
  <2>2. \A q \in DOMAIN files : ~StartsWith(q, To(r))
    BY DEF AtMoveFiles, Arrived, Bare
  <2>3. PathsRebased(files, opened, u, From(r), To(r))
    BY <1>2, <1>3
  <2> QED BY <1>1, <2>1, <2>2, <2>3, FilesRebased
<1>5. Sound(<<>>, <<>>, {}, {}, {}, <<>>, <<>>)'
  BY <1>2, <1>3, <1>4, SettledStill DEF Sound
<1> QED BY <1>2, <1>5 DEF Steady, Quiet

-------------------------------------------------------------------------------
(* The changes as a whole.                                                 *)

\* What is left to do is not nothing, and begins with the step "what".
Begins(steps, what) == steps # Idle /\ Head(steps).do = what

\* The step that is next does not touch what is stored.
Tidying == \E what : Begins(job, what) /\ what \notin {"create", "unlink", "move"}

LEMMA Todo ==
    /\ \A what \in Kinds, n \in Folders \cup Files, p \in StoredPaths, rest \in Seq(Steps) :
          Begins(Links(what, n, p) \o rest, what)
    /\ \A what \in Kinds, p \in StoredPaths, rest \in Seq(Steps) :
          Begins(OnPath(what, p) \o rest, what)
    /\ \A what \in Kinds, p \in StoredPaths, e \in AllEntries :
          /\ Begins(OnIndex(what, p, e), what)
          /\ \A rest \in Seq(Steps) : Begins(OnIndex(what, p, e) \o rest, what)
    /\ \A what \in Kinds, p, q \in StoredPaths :
          /\ Begins(Moves(what, p, q), what)
          /\ \A rest \in Seq(Steps) : Begins(Moves(what, p, q) \o rest, what)
<1>1. \A a : Begins(<<a>>, a.do)
  BY DEF Begins, Idle
<1>2. \A a \in Steps, rest \in Seq(Steps) : Begins(<<a>> \o rest, a.do)
  BY FirstAndRest DEF Begins, Idle
<1>3. /\ \A what \in Kinds, n \in Folders \cup Files, p \in StoredPaths, rest \in Seq(Steps) :
           Begins(Links(what, n, p) \o rest, what)
      /\ \A what \in Kinds, p \in StoredPaths, rest \in Seq(Steps) :
           Begins(OnPath(what, p) \o rest, what)
  <2>1. ASSUME NEW what \in Kinds, NEW n \in Folders \cup Files, NEW p \in StoredPaths,
               NEW rest \in Seq(Steps)
        PROVE  Begins(Links(what, n, p) \o rest, what)
    <3> DEFINE a == [do |-> what, node |-> n, path |-> p]
    <3>1. a \in Steps /\ a.do = what /\ Links(what, n, p) = <<a>>
      BY StepTypes DEF Links
    <3> HIDE DEF a
    <3> QED BY <1>2, <3>1
  <2>2. ASSUME NEW what \in Kinds, NEW p \in StoredPaths, NEW rest \in Seq(Steps)
        PROVE  Begins(OnPath(what, p) \o rest, what)
    <3> DEFINE a == [do |-> what, path |-> p]
    <3>1. a \in Steps /\ a.do = what /\ OnPath(what, p) = <<a>>
      BY StepTypes DEF OnPath
    <3> HIDE DEF a
    <3> QED BY <1>2, <3>1
  <2> QED BY <2>1, <2>2
<1>4. ASSUME NEW what \in Kinds, NEW p \in StoredPaths, NEW e \in AllEntries
      PROVE  /\ Begins(OnIndex(what, p, e), what)
             /\ \A rest \in Seq(Steps) : Begins(OnIndex(what, p, e) \o rest, what)
  <2> DEFINE a == [do |-> what, path |-> p, entry |-> e]
  <2>1. a \in Steps /\ a.do = what /\ OnIndex(what, p, e) = <<a>>
    BY StepTypes DEF OnIndex
  <2> HIDE DEF a
  <2> QED BY <1>1, <1>2, <2>1
<1>5. ASSUME NEW what \in Kinds, NEW p \in StoredPaths, NEW q \in StoredPaths
      PROVE  /\ Begins(Moves(what, p, q), what)
             /\ \A rest \in Seq(Steps) : Begins(Moves(what, p, q) \o rest, what)
  <2> DEFINE a == [do |-> what, path |-> p, to |-> q]
  <2>1. a \in Steps /\ a.do = what /\ Moves(what, p, q) = <<a>>
    BY StepTypes DEF Moves
  <2> HIDE DEF a
  <2> QED BY <1>1, <1>2, <2>1
<1> QED BY <1>3, <1>4, <1>5

LEMMA Begun ==
    /\ Tidying => job # Idle
    /\ \A what : Begins(job, what) => job # Idle
    /\ \A what : Begins(job, what) /\ what \notin {"create", "unlink", "move"} => Tidying
BY DEF Tidying, Begins

LEMMA OneBusy ==
    ASSUME NEW f \in StoredPaths, NEW x \in StoredNames, NEW n \in Folders \cup Files,
           OneStage(f, x, n)
    PROVE  job # Idle /\ (AtCreate(f, x, n) \/ AtUnlink(f, x, n) \/ Tidying)
<1>1. /\ Append(f, x) \in StoredPaths /\ Entry(x, n) \in AllEntries
      /\ ToIndex(f, x, n) \in Seq(Steps) /\ ToKeep(f, x, n) \in Seq(Steps)
      /\ ToCreate(f, x, n) \in Seq(Steps) /\ ToUnindex(f, x, n) \in Seq(Steps)
      /\ ToUnsidecar(f, x, n) \in Seq(Steps) /\ ToForget(f, x, n) \in Seq(Steps)
  BY AppendFacts, EntryTypes, OneTypes
<1>2. {"sidecar", "unsidecar", "create", "unlink", "index", "unindex", "keepDir",
       "remember", "forget", "dropFile"} \subseteq Kinds
  BY DEF Kinds
<1>3. AtSidecar(f, x, n) => Begins(job, "sidecar")
  BY <1>1, <1>2, Todo DEF AtSidecar
<1>4. AtCreate(f, x, n) => Begins(job, "create")
  BY <1>1, <1>2, Todo DEF AtCreate, ToCreate
<1>5. AtUnlink(f, x, n) => Begins(job, "unlink")
  BY <1>1, <1>2, Todo DEF AtUnlink, ToUnlink
<1>6. AtKeep(f, x, n) => Tidying
  <2>1. PICK what \in {"keepDir", "remember"} : what = IF n \in Folders THEN "keepDir" ELSE "remember"
    OBVIOUS
  <2>2. AtKeep(f, x, n) => job = Links(what, n, Append(f, x)) \o ToIndex(f, x, n)
    BY <2>1 DEF AtKeep, ToKeep
  <2>3. AtKeep(f, x, n) => Begins(job, what)
    BY <1>1, <1>2, <2>2, Todo
  <2> QED BY <2>3, Begun
<1>7. AtIndex(f, x, n) => Begins(job, "index")
  BY <1>1, <1>2, Todo DEF AtIndex, ToIndex
<1>8. AtUnsidecar(f, x, n) => Begins(job, "unsidecar")
  BY <1>1, <1>2, Todo DEF AtUnsidecar
<1>9. AtUnindex(f, x, n) => Begins(job, "unindex")
  BY <1>1, <1>2, Todo DEF AtUnindex, ToUnindex
<1>10. AtForget(f, x, n) => Tidying
  <2>1. PICK what \in {"forget", "dropFile"} : what = IF n \in Folders THEN "forget" ELSE "dropFile"
    OBVIOUS
  <2>2. AtForget(f, x, n) => job = OnPath(what, Append(f, x)) \o ToUnsidecar(f, x, n)
    BY <2>1 DEF AtForget, ToForget
  <2>3. AtForget(f, x, n) => Begins(job, what)
    BY <1>1, <1>2, <2>2, Todo
  <2> QED BY <2>3, Begun
<1> QED BY <1>3, <1>4, <1>5, <1>6, <1>7, <1>8, <1>9, <1>10, Begun DEF OneStage

LEMMA ClearBusy ==
    ASSUME NEW r \in Renamings, NEW z \in StoredNames, ClearStage(r, z)
    PROVE  job # Idle /\ (AtUnlinkOld(r, z) \/ Tidying)
<1>1. /\ Append(r.p, z) \in StoredPaths
      /\ ToUnsidecarOld(r, z) \in Seq(Steps) /\ ToDropOld(r, z) \in Seq(Steps)
      /\ ToSidecarNew(r) \in Seq(Steps)
  BY RenamingFacts, AppendFacts, RenameTypes
<1>2. {"unlink", "unsidecar", "dropFile"} \subseteq Kinds
  BY DEF Kinds
<1>3. AtUnlinkOld(r, z) => Begins(job, "unlink")
  BY <1>1, <1>2, Todo DEF AtUnlinkOld, ToUnlinkOld
<1>4. AtUnsidecarOld(r, z) => Begins(job, "unsidecar")
  BY <1>1, <1>2, Todo DEF AtUnsidecarOld
<1>5. AtDropOld(r, z) => Begins(job, "dropFile")
  BY <1>1, <1>2, Todo DEF AtDropOld, ToDropOld
<1> QED BY <1>3, <1>4, <1>5, Begun DEF ClearStage

LEMMA MoveBusy ==
    ASSUME NEW r \in Renamings, MoveStage(r)
    PROVE  job # Idle /\ (AtMove(r) \/ Tidying)
<1>1. /\ From(r) \in StoredPaths /\ To(r) \in StoredPaths /\ r.f \in StoredPaths /\ r.p \in StoredPaths
      /\ Entry(r.x, r.n) \in AllEntries /\ Entry(r.y, r.n) \in AllEntries /\ r.y \in StoredNames
  BY RenamingFacts, EntryTypes
<1>2. /\ ToMoveFiles(r) \in Seq(Steps) /\ ToMoveDirs(r) \in Seq(Steps)
      /\ ToIndexNew(r) \in Seq(Steps) /\ ToUnindexOld(r) \in Seq(Steps)
      /\ ToUnindexSource(r) \in Seq(Steps) /\ ToUnsidecarSource(r) \in Seq(Steps)
      /\ ToMove(r) \in Seq(Steps)
  BY <1>1, RenameTypes
<1>3. {"sidecar", "move", "unsidecar", "unindex", "index", "moveDirs", "moveFiles"} \subseteq Kinds
  BY DEF Kinds
<1>4. AtSidecarNew(r) => Begins(job, "sidecar")
  BY <1>1, <1>2, <1>3, Todo DEF AtSidecarNew
<1>5. AtMove(r) => Begins(job, "move")
  BY <1>1, <1>2, <1>3, Todo DEF AtMove, ToMove
<1>6. AtUnsidecarSource(r) => Begins(job, "unsidecar")
  BY <1>1, <1>2, <1>3, Todo DEF AtUnsidecarSource
<1>7. AtUnindexSource(r) => Begins(job, "unindex")
  BY <1>1, <1>2, <1>3, Todo DEF AtUnindexSource, ToUnindexSource
<1>8. AtUnindexOld(r) => Begins(job, "unindex")
  <2> SUFFICES ASSUME AtUnindexOld(r) PROVE Begins(job, "unindex")
    OBVIOUS
  <2>1. PICK e \in AllEntries : r.old = OnIndex("unindex", r.p, e)
    BY DEF AtUnindexOld, Arrived, OldFits
  <2>2. job = OnIndex("unindex", r.p, e) \o ToIndexNew(r)
    BY <2>1 DEF AtUnindexOld, ToUnindexOld
  <2> QED BY <1>1, <1>2, <1>3, <2>2, Todo
<1>9. AtIndexNew(r) => Begins(job, "index")
  BY <1>1, <1>2, <1>3, Todo DEF AtIndexNew, ToIndexNew
<1>10. AtMoveDirs(r) => Begins(job, "moveDirs")
  BY <1>1, <1>2, <1>3, Todo DEF AtMoveDirs, ToMoveDirs
<1>11. AtMoveFiles(r) => Begins(job, "moveFiles")
  BY <1>1, <1>3, Todo DEF AtMoveFiles, ToMoveFiles
<1> QED BY <1>4, <1>5, <1>6, <1>7, <1>8, <1>9, <1>10, <1>11, Begun DEF MoveStage

\* When nothing is at work, the caches are right.
LEMMA IdleIsQuiet == Working /\ job = Idle => Quiet
BY OneBusy, ClearBusy, MoveBusy DEF Working

\* One more step of a change.
LEMMA OneContinues ==
    ASSUME Steady, NEW f \in StoredPaths, NEW x \in StoredNames, NEW n \in Folders \cup Files,
           OneStage(f, x, n), Continue
    PROVE  Steady' /\ (Quiet' \/ OneStage(f, x, n)')
<1>1. ASSUME Sound(<<>>, <<>>, {}, {}, {}, <<>>, <<>>), AtSidecar(f, x, n)
      PROVE  Steady' /\ OneStage(f, x, n)'
  BY <1>1, StepSidecar DEF OneStage
<1>2. ASSUME Sound(<<>>, <<>>, {}, {}, {}, <<>>, <<>>), AtCreate(f, x, n)
      PROVE  Steady' /\ OneStage(f, x, n)'
  BY <1>2, StepCreate DEF OneStage
<1>3. ASSUME Sound(<<>>, <<>>, {}, {}, {}, <<>>, <<>>), AtUnlink(f, x, n)
      PROVE  Steady' /\ (Quiet' \/ OneStage(f, x, n)')
  BY <1>3, StepUnlink
<1>4. ASSUME Sound(<<>>, <<>>, {Name(f, x)}, {}, {}, <<>>, <<>>), AtKeep(f, x, n)
      PROVE  Steady' /\ OneStage(f, x, n)'
  BY <1>4, StepKeep DEF OneStage
<1>5. ASSUME Sound(<<>>, <<>>, {Name(f, x)}, {}, {}, <<>>, <<>>), AtIndex(f, x, n)
      PROVE  Steady' /\ Quiet'
  BY <1>5, StepIndex
<1>6. ASSUME Sound(<<>>, <<>>, {Name(f, x)}, {}, {}, <<>>, <<>>), AtUnsidecar(f, x, n)
      PROVE  Steady' /\ OneStage(f, x, n)'
  BY <1>6, StepUnsidecar DEF OneStage
<1>7. ASSUME Sound(<<>>, <<>>, {Name(f, x)}, {}, {}, <<>>, <<>>), AtUnindex(f, x, n)
      PROVE  Steady' /\ Quiet'
  BY <1>7, StepUnindex
<1>8. ASSUME IF n \in Folders THEN Sound(<<>>, <<>>, {Name(f, x)}, {Append(f, x)}, {}, <<>>, <<>>)
                              ELSE Sound(<<>>, <<>>, {Name(f, x)}, {}, {Append(f, x)}, <<>>, <<>>),
             AtForget(f, x, n)
      PROVE  Steady' /\ OneStage(f, x, n)'
  BY <1>8, StepForget
<1> QED BY <1>1, <1>2, <1>3, <1>4, <1>5, <1>6, <1>7, <1>8 DEF OneStage

LEMMA ClearContinues ==
    ASSUME Steady, NEW r \in Renamings, NEW z \in StoredNames, ClearStage(r, z), Continue
    PROVE  Steady' /\ (Quiet' \/ ClearStage(r, z)' \/ MoveStage(r)')
<1>1. ASSUME Sound(<<>>, <<>>, {}, {}, {}, <<>>, <<>>), AtUnlinkOld(r, z)
      PROVE  Steady' /\ (Quiet' \/ ClearStage(r, z)')
  BY <1>1, StepUnlinkOld
<1>2. ASSUME Sound(<<>>, <<>>, {Name(r.p, r.y)}, {}, {Append(r.p, z)}, <<>>, <<>>), AtUnsidecarOld(r, z)
      PROVE  Steady' /\ ClearStage(r, z)'
  BY <1>2, StepUnsidecarOld DEF ClearStage
<1>3. ASSUME Sound(<<>>, <<>>, {Name(r.p, r.y)}, {}, {Append(r.p, z)}, <<>>, <<>>), AtDropOld(r, z)
      PROVE  Steady' /\ MoveStage(r)'
  BY <1>3, StepDropOld
<1> QED BY <1>1, <1>2, <1>3 DEF ClearStage

LEMMA MoveContinues ==
    ASSUME Steady, "move" \notin Faults, NEW r \in Renamings, MoveStage(r), Continue
    PROVE  Steady' /\ (Quiet' \/ MoveStage(r)')
<1> DEFINE s == From(r)
           t == To(r)
           y == Name(r.p, r.y)
           x == Name(r.f, r.x)
<1>1. ASSUME Sound(<<>>, <<>>, {y}, {}, {t}, <<>>, <<>>), AtSidecarNew(r)
      PROVE  Steady' /\ MoveStage(r)'
  BY <1>1, StepSidecarNew DEF MoveStage
<1>2. ASSUME Sound(<<>>, <<>>, {y}, {}, {t}, <<>>, <<>>), AtMove(r)
      PROVE  Steady' /\ MoveStage(r)'
  BY <1>2, StepMove
<1>3. ASSUME Sound(s, t, {y, x}, {}, {}, s, t), AtUnsidecarSource(r)
      PROVE  Steady' /\ MoveStage(r)'
  BY <1>3, StepUnsidecarSource DEF MoveStage
<1>4. ASSUME Sound(s, t, {y, x}, {}, {}, s, t), AtUnindexSource(r)
      PROVE  Steady' /\ MoveStage(r)'
  BY <1>4, StepUnindexSource DEF MoveStage
<1>5. ASSUME Sound(s, t, {y}, {}, {}, s, t), AtUnindexOld(r)
      PROVE  Steady' /\ MoveStage(r)'
  BY <1>5, StepUnindexOld DEF MoveStage
<1>6. ASSUME Sound(s, t, {y}, {}, {}, s, t), AtIndexNew(r)
      PROVE  Steady' /\ MoveStage(r)'
  BY <1>6, StepIndexNew DEF MoveStage
<1>7. ASSUME Sound(s, t, {}, {}, {}, s, t), AtMoveDirs(r)
      PROVE  Steady' /\ MoveStage(r)'
  BY <1>7, StepMoveDirs DEF MoveStage
<1>8. ASSUME Sound(<<>>, <<>>, {}, {}, {}, s, t), AtMoveFiles(r)
      PROVE  Steady' /\ Quiet'
  BY <1>8, StepMoveFiles
<1> QED BY <1>1, <1>2, <1>3, <1>4, <1>5, <1>6, <1>7, <1>8 DEF MoveStage

LEMMA WorkContinues ==
    ASSUME Steady, Working, "move" \notin Faults, Continue
    PROVE  Steady' /\ Working'
<1>1. CASE Quiet
  BY <1>1 DEF Quiet, Continue
<1>2. ASSUME NEW f \in StoredPaths, NEW x \in StoredNames, NEW n \in Folders \cup Files,
             OneStage(f, x, n)
      PROVE  Steady' /\ Working'
  BY <1>2, OneContinues DEF Working
<1>3. ASSUME NEW r \in Renamings, NEW z \in StoredNames, ClearStage(r, z)
      PROVE  Steady' /\ Working'
  BY <1>3, ClearContinues DEF Working
<1>4. ASSUME NEW r \in Renamings, MoveStage(r)
      PROVE  Steady' /\ Working'
  BY <1>4, MoveContinues DEF Working
<1> QED BY <1>1, <1>2, <1>3, <1>4 DEF Working

-------------------------------------------------------------------------------
(* What threads hold while a change goes on.                               *)

\* No folder goes from, moves from or comes to where a thread is between two
\* steps of what it reads, no file is looked up or opened during a change, and
\* a move is never refused.
Calm == Overlap = {} /\ "move" \notin Faults

\* The steps of a change leave alone what threads hold, and its paths: a folder
\* whose IV was read stays, and what was taken may only be gone.
HeldKept ==
    \A u \in Threads :
       /\ held[u].kind = "iv" => NodeIn(disk', held[u].path) = NodeIn(disk, held[u].path)
       /\ held[u].kind = "dir" /\ NodeIn(disk', held[u].path) \in Folders
             => NodeIn(disk', held[u].path) = NodeIn(disk, held[u].path)

LEMMA StillKept == UNCHANGED disk => HeldKept
BY DEF HeldKept

LEMMA TidyingStill ==
    ASSUME Tidying, Continue PROVE UNCHANGED disk
<1>1. PICK step : step = Head(job)
  OBVIOUS
<1>2. step.do \notin {"create", "unlink", "move"}
  BY <1>1 DEF Tidying, Begins
<1>3. Gone(step) \/ OnDisk(step) \/ Reindex(step) \/ OnDirs(step) \/ OnFiles(step)
  BY <1>1 DEF Continue
<1> QED BY <1>2, <1>3 DEF Gone, OnDisk, Reindex, OnDirs, OnFiles

\* What the steps on the disk wait for.
LEMMA CreateAway ==
    ASSUME Calm, NEW n \in Folders \cup Files, NEW p \in StoredPaths, NEW rest \in Seq(Steps),
           job = Links("create", n, p) \o rest, Continue
    PROVE  Away("dir", p)
<1> DEFINE a == [do |-> "create", path |-> p, node |-> n]
<1>0. a \in Steps
  BY StepTypes DEF Kinds
<1>1. a \in Steps /\ job = <<a>> \o rest
  BY <1>0 DEF Links
<1>2. a.do = "create" /\ a.path = p
  OBVIOUS
<1> HIDE DEF a
<1> QED BY <1>1, <1>2, NextStep DEF Gone, OnDisk, Reindex, OnDirs, OnFiles, MayMove, Calm

LEMMA UnlinkAway ==
    ASSUME Calm, NEW p \in StoredPaths, NEW rest \in Seq(Steps), job = OnPath("unlink", p) \o rest, Continue
    PROVE  UNCHANGED disk \/ Away("iv", p)
<1> DEFINE a == [do |-> "unlink", path |-> p]
<1>0. a \in Steps
  BY StepTypes DEF Kinds
<1>1. a \in Steps /\ job = <<a>> \o rest
  BY <1>0 DEF OnPath
<1>2. a.do = "unlink" /\ a.path = p
  OBVIOUS
<1> HIDE DEF a
<1> QED BY <1>1, <1>2, NextStep DEF Gone, OnDisk, Reindex, OnDirs, OnFiles, MayGo, Calm

LEMMA MoveAway ==
    ASSUME Calm, NEW p \in StoredPaths, NEW q \in StoredPaths, NEW rest \in Seq(Steps),
           job = Moves("move", p, q) \o rest, Continue
    PROVE  UNCHANGED disk \/ (Away("iv", p) /\ Away("dir", p) /\ Away("dir", q))
<1> DEFINE a == [do |-> "move", path |-> p, to |-> q]
<1>0. a \in Steps
  BY StepTypes DEF Kinds
<1>1. a \in Steps /\ job = <<a>> \o rest
  BY <1>0 DEF Moves
<1>2. a.do = "move" /\ a.path = p /\ a.to = q
  OBVIOUS
<1> HIDE DEF a
<1> QED BY <1>1, <1>2, NextStep DEF Gone, OnDisk, Reindex, OnDirs, OnFiles, MayGo, MayMove, Calm

LEMMA CreateKeepsHeld ==
    ASSUME Steady, HeldTrue, Calm, NEW f \in StoredPaths, NEW x \in StoredNames,
           NEW n \in Folders \cup Files, AtCreate(f, x, n), Continue
    PROVE  HeldKept
<1>1. Append(f, x) \in StoredPaths /\ ToKeep(f, x, n) \in Seq(Steps)
  BY AppendFacts, OneTypes
<1>2. Away("dir", Append(f, x))
  BY <1>1, CreateAway DEF AtCreate, ToCreate
<1>3. /\ NodeIn(disk, Append(f, x)) = None
      /\ \A q \in StoredPaths : q # Append(f, x) => NodeIn(disk', q) = NodeIn(disk, q)
  BY CreateFacts DEF More
<1> SUFFICES ASSUME NEW u \in Threads, held[u].kind \in {"iv", "dir"}
             PROVE  NodeIn(disk', held[u].path) = NodeIn(disk, held[u].path)
  BY DEF HeldKept
<1>4. held[u].path \in StoredPaths
  BY DEF HeldTrue
<1>5. CASE held[u].kind = "iv"
  BY <1>3, <1>4, <1>5, TreeAssumption DEF HeldTrue
<1>6. CASE held[u].kind = "dir"
  BY <1>1, <1>2, <1>3, <1>4, <1>6, PrefixSelf DEF Away
<1> QED BY <1>5, <1>6

\* Something empty goes; nobody has just read its IV.
LEMMA LessKeepsHeld ==
    ASSUME Steady, HeldTrue, NEW p \in StoredPaths, NEW n \in DOMAIN disk, NodeIn(disk, p) = n,
           Less(disk, disk', n), n \in Files \/ Away("iv", p)
    PROVE  HeldKept
<1>1. /\ \A q \in StoredPaths : NodeIn(disk', q) = IF NodeIn(disk, q) = n THEN None ELSE NodeIn(disk, q)
      /\ IsVault(disk) /\ n # None /\ None \notin Folders
  BY VaultFacts, TreeAssumption DEF Less, Steady
<1>2. ASSUME NEW u \in Threads, held[u].kind = "iv"
      PROVE  NodeIn(disk', held[u].path) = NodeIn(disk, held[u].path)
  <2>1. /\ held[u].path \in StoredPaths /\ NodeIn(disk, held[u].path) \in Folders
    BY <1>2 DEF HeldTrue
  <2>2. NodeIn(disk, held[u].path) # n
    <3> SUFFICES ASSUME NodeIn(disk, held[u].path) = n PROVE FALSE
      OBVIOUS
    <3>1. held[u].path = p
      BY <1>1, <2>1, OnePath
    <3>2. Away("iv", p)
      BY <2>1, TreeAssumption
    <3> QED BY <1>2, <3>1, <3>2, PrefixSelf DEF Away
  <2> QED BY <1>1, <2>1, <2>2
<1>3. ASSUME NEW u \in Threads, held[u].kind = "dir", NodeIn(disk', held[u].path) \in Folders
      PROVE  NodeIn(disk', held[u].path) = NodeIn(disk, held[u].path)
  BY <1>1, <1>3 DEF HeldTrue
<1> QED BY <1>2, <1>3 DEF HeldKept

LEMMA UnlinkKeepsHeld ==
    ASSUME Steady, HeldTrue, Calm, NEW f \in StoredPaths, NEW x \in StoredNames,
           NEW n \in Folders \cup Files, AtUnlink(f, x, n), Continue
    PROVE  HeldKept
<1>1. Append(f, x) \in StoredPaths /\ ToForget(f, x, n) \in Seq(Steps)
  BY AppendFacts, OneTypes
<1>2. /\ IsAt(f, x, n) /\ Childless(disk, n)
      /\ job = OnPath("unlink", Append(f, x)) \o ToForget(f, x, n)
  BY DEF AtUnlink, ToUnlink
<1>3. UNCHANGED disk \/ Away("iv", Append(f, x))
  BY <1>1, <1>2, UnlinkAway
<1>4. UNCHANGED disk \/ Less(disk, disk', n)
  BY <1>1, <1>2, UnlinkFacts
<1> QED BY <1>1, <1>2, <1>3, <1>4, StillKept, LessKeepsHeld DEF IsAt

LEMMA UnlinkOldKeepsHeld ==
    ASSUME Steady, HeldTrue, Calm, NEW r \in Renamings, NEW z \in StoredNames, AtUnlinkOld(r, z), Continue
    PROVE  HeldKept
<1>1. PICK k : k = NodeIn(disk, Append(r.p, z))
  OBVIOUS
<1>2. /\ k \in Files /\ k \in DOMAIN disk
      /\ job = OnPath("unlink", Append(r.p, z)) \o ToUnsidecarOld(r, z)
  BY <1>1 DEF AtUnlinkOld, ToUnlinkOld
<1>3. IsAt(r.p, z, k)
  BY <1>1, <1>2 DEF IsAt
<1>4. Childless(disk, k)
  BY <1>2, TreeAssumption, VaultFacts DEF Childless, Steady
<1>5. ToUnsidecarOld(r, z) \in Seq(Steps) /\ r.p \in StoredPaths /\ Append(r.p, z) \in StoredPaths
  BY RenameTypes, RenamingFacts, AppendFacts
<1>6. UNCHANGED disk \/ Less(disk, disk', k)
  BY <1>2, <1>3, <1>4, <1>5, UnlinkFacts
<1> QED BY <1>1, <1>2, <1>5, <1>6, StillKept, LessKeepsHeld

\* Away from where it was and comes to, a move changes nothing.
Replaced(d, r) == [Without(d, {NodeIn(d, To(r))}) EXCEPT ![r.n] = Put(d, r.p, r.y)]

LEMMA ReadyAway ==
    ASSUME NEW d, IsVault(d), NEW r \in Renamings, Ready(d, r),
           NEW e, e = Replaced(d, r), NEW q \in StoredPaths, ~StartsWith(q, From(r))
    PROVE  /\ ~StartsWith(q, To(r)) => NodeIn(e, q) = NodeIn(d, q)
           /\ NodeIn(d, q) \in Folders => ~StartsWith(q, To(r))
<1> DEFINE s == From(r)
           t == To(r)
           n == r.n
           k == NodeIn(d, t)
           g == Without(d, {k})
<1>1. /\ r.p \in StoredPaths /\ r.y \in StoredNames
      /\ s \in StoredPaths /\ t \in StoredPaths /\ t = Append(r.p, r.y)
  BY RenamingFacts
<1>2. /\ k = None => g = d
      /\ k # None => k \in Files \cap DOMAIN d /\ k # n /\ Less(d, g, k)
      /\ IsVault(g) /\ DOMAIN g = DOMAIN d \ {k}
      /\ NodeIn(g, t) = None
      /\ Moving(g, n, s, r.p, r.y)
      /\ Put(g, r.p, r.y) = Put(d, r.p, r.y)
  BY ReadyFacts
<1>3. e = MoveTo(g, n, r.p, r.y)
  BY <1>2 DEF MoveTo, Replaced
<1>4. ~StartsWith(q, s) /\ k = NodeIn(d, t)
  OBVIOUS
<1> HIDE DEF s, t, n, k, g
<1>5. ~StartsWith(q, t) => NodeIn(e, q) = NodeIn(g, q)
  <2>1. PathsMoved(g, e, n, s, r.p, r.y)
    BY <1>1, <1>2, <1>3, MovedPaths
  <2> QED BY <1>1, <1>4, <2>1 DEF PathsMoved
<1>6. NodeIn(d, q) # k => NodeIn(g, q) = NodeIn(d, q)
  BY <1>2 DEF Less
<1>7. ~StartsWith(q, t) /\ k # None => NodeIn(d, q) # k
  BY <1>1, <1>4, OnePath, PrefixSelf
<1>8. ~StartsWith(q, t) => NodeIn(g, q) = NodeIn(d, q)
  BY <1>2, <1>6, <1>7
<1>9. NodeIn(d, q) \in Folders => ~StartsWith(q, t)
  <2> SUFFICES ASSUME NodeIn(d, q) \in Folders, StartsWith(q, t) PROVE FALSE
    OBVIOUS
  <2>1. NodeIn(g, q) = NodeIn(d, q)
    BY <1>2, <1>6, TreeAssumption
  <2>2. NodeIn(g, q) = None
    BY <1>1, <1>2, NothingBelowNothing
  <2> QED BY <2>1, <2>2, TreeAssumption
<1> QED BY <1>5, <1>8, <1>9 DEF t

LEMMA MoveKeepsHeld ==
    ASSUME Steady, HeldTrue, Calm, NEW r \in Renamings, AtMove(r), Continue
    PROVE  HeldKept
<1>1. /\ From(r) \in StoredPaths /\ To(r) \in StoredPaths /\ ToUnsidecarSource(r) \in Seq(Steps)
  BY RenamingFacts, RenameTypes
<1>2. UNCHANGED disk \/ (Away("iv", From(r)) /\ Away("dir", From(r)) /\ Away("dir", To(r)))
  BY <1>1, MoveAway DEF AtMove, ToMove
<1>3. PICK e : e = disk'
  OBVIOUS
<1>5. IsVault(disk) /\ Ready(disk, r) /\ e = Replaced(disk, r)
  BY <1>3, MoveFacts DEF AtMove, Steady, Calm, Replaced
<1>6. \A q \in StoredPaths : ~StartsWith(q, From(r)) =>
         /\ ~StartsWith(q, To(r)) => NodeIn(e, q) = NodeIn(disk, q)
         /\ NodeIn(disk, q) \in Folders => ~StartsWith(q, To(r))
  BY <1>5, ReadyAway
<1>7. CASE Away("iv", From(r)) /\ Away("dir", From(r)) /\ Away("dir", To(r))
  <2> SUFFICES ASSUME NEW u \in Threads, held[u].kind \in {"iv", "dir"}
               PROVE  NodeIn(disk', held[u].path) = NodeIn(disk, held[u].path)
    BY DEF HeldKept
  <2>1. held[u].path \in StoredPaths /\ ~StartsWith(held[u].path, From(r))
    BY <1>7 DEF HeldTrue, Away
  <2>2. held[u].kind = "iv" => NodeIn(disk, held[u].path) \in Folders
    BY DEF HeldTrue
  <2>3. held[u].kind = "dir" => ~StartsWith(held[u].path, To(r))
    BY <1>7 DEF Away
  <2> QED BY <1>3, <1>6, <2>1, <2>2, <2>3
<1> QED BY <1>2, <1>7, StillKept

LEMMA WorkKeepsHeld ==
    ASSUME Steady, Working, HeldTrue, Calm, Continue PROVE HeldKept
<1>1. ASSUME NEW f \in StoredPaths, NEW x \in StoredNames, NEW n \in Folders \cup Files,
             OneStage(f, x, n)
      PROVE  HeldKept
  BY <1>1, OneBusy, TidyingStill, StillKept, CreateKeepsHeld, UnlinkKeepsHeld
<1>2. ASSUME NEW r \in Renamings, NEW z \in StoredNames, ClearStage(r, z) PROVE HeldKept
  BY <1>2, ClearBusy, TidyingStill, StillKept, UnlinkOldKeepsHeld
<1>3. ASSUME NEW r \in Renamings, MoveStage(r) PROVE HeldKept
  BY <1>3, MoveBusy, TidyingStill, StillKept, MoveKeepsHeld
<1>4. ~Quiet
  BY DEF Quiet, Continue
<1> QED BY <1>1, <1>2, <1>3, <1>4 DEF Working

-------------------------------------------------------------------------------
(* The calls.                                                              *)

\* A call begins with what its lookups found.
LEMMA StartSound ==
    ASSUME Steady, Quiet, NEW c, CacheTrue(disk, c, <<>>, <<>>, {}, {}), NEW todo, Starts(c, todo)
    PROVE  /\ Steady' /\ job' = todo /\ Sound(<<>>, <<>>, {}, {}, {}, <<>>, <<>>)'
           /\ UNCHANGED <<disk, sidecars, files, opened, held>>
BY DEF Starts, Quiet, Sound, Steady

LEMMA StartNothing ==
    ASSUME Steady, Quiet, NEW c, CacheTrue(disk, c, <<>>, <<>>, {}, {}), Starts(c, <<>>)
    PROVE  Steady' /\ Working'
BY StartSound DEF Quiet, Working, Idle

\* The stored name of what is called "name" in the folder p was found in.
Called(p, name) == [iv |-> p.cache[p.path].iv, name |-> name]

LEMMA CalledFacts ==
    ASSUME NEW p, NEW any, FoundTrue(p, any), p.ok, NEW name \in Names
    PROVE  /\ p.path \in StoredPaths /\ NodeIn(disk, p.path) \in Folders
           /\ Called(p, name) \in StoredNames /\ Called(p, name).name = name
           /\ Called(p, name).iv = NodeIn(disk, p.path)
           /\ StoredPath(p.cache, p.path, name) = Append(p.path, Called(p, name))
           /\ Append(p.path, Called(p, name)) \in StoredPaths
<1>1. /\ p.path \in StoredPaths /\ NodeIn(disk, p.path) \in Folders
      /\ p.cache[p.path].iv = NodeIn(disk, p.path)
  BY DEF FoundTrue
<1>2. Called(p, name) \in StoredNames
  BY <1>1 DEF Called, StoredNames
<1>3. StoredPath(p.cache, p.path, name) = Append(p.path, Called(p, name))
  BY DEF StoredPath, Called
<1> QED BY <1>1, <1>2, <1>3, AppendFacts DEF Called

\* What has the name looked for, whatever its case, is the one entry found.
LEMMA FoundOnly ==
    ASSUME IsVault(disk), NEW p, NEW name, FoundTrue(p, name), p.ok,
           NEW m \in DOMAIN disk, disk[m].in = NodeIn(disk, p.path), Fold(disk[m].name) = Fold(name)
    PROVE  EntryOf(disk, m) \in p.found /\ \A e \in p.found : e = EntryOf(disk, m)
<1>1. \A e : e \in p.found <=> e \in Kids(disk, NodeIn(disk, p.path)) /\ Fold(e.name) = Fold(name)
  BY DEF FoundTrue
<1>2. EntryOf(disk, m) \in Kids(disk, NodeIn(disk, p.path)) /\ EntryOf(disk, m).name = disk[m].name
  BY KidsFacts
<1>3. \A e, g \in Kids(disk, NodeIn(disk, p.path)) : Fold(e.name) = Fold(g.name) => e = g
  BY KidsFacts
<1> QED BY <1>1, <1>2, <1>3

\* An entry found is that of a thing on the disk.
LEMMA FoundThere ==
    ASSUME IsVault(disk), NEW p, NEW name, FoundTrue(p, name), NEW e \in p.found
    PROVE  /\ p.ok /\ e \in AllEntries /\ e.name \in Names /\ Fold(e.name) = Fold(name)
           /\ \E n \in DOMAIN disk :
                 /\ IsAt(p.path, Called(p, e.name), n)
                 /\ e = EntryOf(disk, n) /\ e = Entry(Called(p, e.name), n)
                 /\ e.dir <=> n \in Folders
                 /\ disk[n].in = NodeIn(disk, p.path)
<1>1. p.ok
  BY DEF FoundTrue
<1>2. /\ e \in Kids(disk, NodeIn(disk, p.path)) /\ Fold(e.name) = Fold(name)
  BY <1>1 DEF FoundTrue
<1>3. PICK n \in DOMAIN disk : disk[n].in = NodeIn(disk, p.path) /\ e = EntryOf(disk, n)
  BY <1>2, KidsFacts
<1>4. e \in AllEntries /\ e.name \in Names /\ e.name = disk[n].name /\ (e.dir <=> n \in Folders)
  <2>1. e \in AllEntries
    BY <1>2, KidsFacts
  <2> QED BY <1>3, <2>1, KidsFacts DEF AllEntries
<1>5. /\ Called(p, e.name) \in StoredNames /\ Called(p, e.name).name = e.name
      /\ Called(p, e.name).iv = NodeIn(disk, p.path) /\ p.path \in StoredPaths
  BY <1>1, <1>4, CalledFacts
<1>6. IsAt(p.path, Called(p, e.name), n)
  <2>1. disk[n].iv = disk[n].in
    BY VaultFacts
  <2> QED BY <1>3, <1>4, <1>5, <2>1, NodeFacts DEF IsAt
<1>7. e = Entry(Called(p, e.name), n)
  BY <1>3, <1>4, <1>5 DEF Entry, EntryOf
<1> QED BY <1>1, <1>2, <1>3, <1>4, <1>6, <1>7

\* A name nothing has fits.
LEMMA NotFoundFits ==
    ASSUME IsVault(disk), NEW p, NEW name \in Names, FoundTrue(p, name), p.ok, p.found = {}
    PROVE  Fits(disk, p.path, Called(p, name), {})
<1>1. \A m \in DOMAIN disk : disk[m].in = NodeIn(disk, p.path) => Fold(disk[m].name) # Fold(name)
  BY FoundOnly
<1> QED BY <1>1, CalledFacts DEF Fits

Regroup(a, b, c) == (a \o b) \o c = a \o (b \o c)

LEMMA Reorder3 ==
    ASSUME NEW a \in Seq(Steps), NEW b \in Seq(Steps), NEW c \in Seq(Steps)
    PROVE  Regroup(a, b, c)
BY ConcatAssociative DEF Regroup

Regroups(a, b, c, d) == ((a \o b) \o c) \o d = a \o (b \o (c \o d))

LEMMA Reorder4 ==
    ASSUME NEW a \in Seq(Steps), NEW b \in Seq(Steps), NEW c \in Seq(Steps), NEW d \in Seq(Steps)
    PROVE  Regroups(a, b, c, d)
<1>1. PICK u \in Seq(Steps) : u = a \o b
  BY ConcatProperties
<1>2. PICK w \in Seq(Steps) : w = c \o d
  BY ConcatProperties
<1>3. Regroup(u, c, d) /\ Regroup(a, b, w)
  BY Reorder3
<1> QED BY <1>1, <1>2, <1>3 DEF Regroups, Regroup

\* Creating a file or a folder.
LEMMA CreateStarts ==
    ASSUME Steady, Quiet, NEW p, NEW name \in Names, FoundTrue(p, name),
           NEW pool, NEW keep, NEW dir,
           \/ pool = Files /\ keep = "remember" /\ dir = FALSE
           \/ pool = Folders /\ keep = "keepDir" /\ dir = TRUE,
           Creates(p, name, pool, keep, dir)
    PROVE  Steady' /\ Working'
<1> DEFINE path == StoredPath(p.cache, p.path, name)
<1>0. PICK n : n = (CHOOSE k \in Fresh(pool) : TRUE)
  OBVIOUS
<1> DEFINE todo == IfLong(name, OnPath("sidecar", path)) \o Links("create", n, path)
                   \o Links(keep, n, path)
                   \o OnIndex("index", p.path, [name |-> name, dir |-> dir])
           x    == Called(p, name)
<1>1. /\ n \in Fresh(pool)
      /\ Starts(p.cache, IF ~p.ok \/ p.found # {} \/ NodeAt(path) # None THEN <<>> ELSE todo)
  BY <1>0 DEF Creates
<1>2. /\ n \in pool /\ n \in (Folders \cup Files) \ {Root} /\ n \notin DOMAIN disk /\ NotOpen(opened, n)
  BY <1>1 DEF Fresh, NotOpen
<1>3. IsVault(disk) /\ CacheTrue(disk, p.cache, <<>>, <<>>, {}, {})
  BY DEF Steady, FoundTrue
<1>4. CASE ~p.ok \/ p.found # {} \/ NodeAt(path) # None
  <2>1. Starts(p.cache, <<>>)
    BY <1>1, <1>4
  <2> QED BY <1>3, <2>1, StartNothing
<1>5. CASE p.ok /\ p.found = {} /\ NodeAt(path) = None
  <2>1. /\ p.path \in StoredPaths /\ x \in StoredNames /\ x.name = name
        /\ path = Append(p.path, x) /\ path \in StoredPaths
    BY <1>5, CalledFacts
  <2>2. Fits(disk, p.path, x, {})
    BY <1>3, <1>5, NotFoundFits
  <2>3. Starts(p.cache, todo)
    BY <1>1, <1>5
  <2>4. Entry(x, n) = [name |-> name, dir |-> dir] /\ Entry(x, n) \in AllEntries
        /\ keep = IF n \in Folders THEN "keepDir" ELSE "remember"
    <3>1. \/ dir = TRUE /\ n \in Folders
          \/ dir = FALSE /\ n \notin Folders
      BY <1>2, TreeAssumption
    <3>2. keep = IF n \in Folders THEN "keepDir" ELSE "remember"
      BY <1>2, TreeAssumption
    <3>3. Entry(x, n) = [name |-> name, dir |-> dir]
      <4>1. x.name = name
        BY <2>1
      <4> HIDE DEF x
      <4>2. CASE dir = TRUE /\ n \in Folders
        <5>1. (n \in Folders) = TRUE
          BY <4>2
        <5> QED BY <4>1, <4>2, <5>1, Zenon DEF Entry
      <4>3. CASE dir = FALSE /\ n \notin Folders
        <5>1. (n \in Folders) = FALSE
          BY <4>3
        <5> QED BY <4>1, <4>3, <5>1, Zenon DEF Entry
      <4> QED BY <3>1, <4>2, <4>3
    <3> QED BY <2>1, <3>2, <3>3, EntryTypes
  <2> HIDE DEF path, x
  <2>5. todo = IfLong(x.name, OnPath("sidecar", path)) \o ToCreate(p.path, x, n)
    <3> DEFINE make == Links("create", n, path)
               kept == Links(keep, n, path)
               last == OnIndex("index", p.path, Entry(x, n))
               side == OnPath("sidecar", path)
    <3>1. make \in Seq(Steps) /\ last \in Seq(Steps) /\ side \in Seq(Steps)
      BY <1>2, <2>1, <2>4, TodoTypes DEF Kinds
    <3>2. kept \in Seq(Steps)
      <4>1. keep \in Kinds
        BY <2>4 DEF Kinds
      <4> QED BY <1>2, <2>1, <4>1, TodoTypes
    <3>3. IfLong(x.name, side) \in Seq(Steps)
      BY <3>1, LongTypes
    <3>4. ToCreate(p.path, x, n) = make \o (kept \o last)
      BY <2>1, <2>4 DEF ToCreate, ToKeep, ToIndex
    <3>5. todo = ((IfLong(x.name, side) \o make) \o kept) \o last
      BY <2>1, <2>4
    <3> HIDE DEF make, kept, last, side, todo
    <3>6. ((IfLong(x.name, side) \o make) \o kept) \o last
             = IfLong(x.name, side) \o (make \o (kept \o last))
      <4>1. Regroups(IfLong(x.name, side), make, kept, last)
        BY <3>1, <3>2, <3>3, Reorder4
      <4> QED BY <4>1 DEF Regroups
    <3> QED BY <3>4, <3>5, <3>6 DEF side
  <2> HIDE DEF todo
  <2>6. /\ Steady' /\ job' = todo /\ Sound(<<>>, <<>>, {}, {}, {}, <<>>, <<>>)'
        /\ UNCHANGED <<disk, sidecars, files, opened, held>>
    BY <1>3, <2>3, StartSound
  <2>7. ToCreate(p.path, x, n) \in Seq(Steps) /\ OnPath("sidecar", path) \in Seq(Steps)
    BY <1>2, <2>1, OneTypes, TodoTypes DEF Kinds
  <2>8. Planned(p.path, x, n)'
    BY <1>2, <2>2, <2>6 DEF Planned
  <2>9. AtSidecar(p.path, x, n)' \/ AtCreate(p.path, x, n)'
    <3>1. CASE x.name \in Long
      BY <2>1, <2>5, <2>6, <2>7, <2>8, <3>1, LongTypes DEF AtSidecar
    <3>2. CASE x.name \notin Long
      BY <2>5, <2>6, <2>7, <2>8, <3>2, LongTypes DEF AtCreate
    <3> QED BY <3>1, <3>2
  <2>10. OneStage(p.path, x, n)'
    BY <2>6, <2>9 DEF OneStage
  <2> QED BY <1>2, <2>1, <2>6, <2>10 DEF Working
<1> QED BY <1>4, <1>5

\* A folder that can be removed is empty.
LEMMA EmptyFolder ==
    ASSUME Steady, NEW c, CacheTrue(disk, c, <<>>, <<>>, {}, {}), NEW path \in StoredPaths,
           IsEmptyDir(c, path)
    PROVE  Childless(disk, NodeIn(disk, path))
<1>1. path \in DOMAIN c /\ NodeAt(path) = NodeIn(disk, path)
      /\ Entries(NodeAt(path), c[path].iv) = {}
  BY NodeAtIsNodeIn DEF IsEmptyDir
<1>2. c[path].iv = NodeIn(disk, path)
  BY <1>1, CacheSettled DEF DirTrue
<1>3. Kids(disk, NodeIn(disk, path)) = {}
  BY <1>1, <1>2, EntriesAreKids DEF Steady
<1> QED BY <1>3 DEF Kids, Childless

LEMMA RemoveStarts ==
    ASSUME Steady, Quiet, NEW p, NEW name \in Names, FoundTrue(p, name), NEW e \in p.found,
           RemovesAt(p, e, StoredPath(p.cache, p.path, e.name))
    PROVE  Steady' /\ Working'
<1> DEFINE x    == Called(p, e.name)
           path == Append(p.path, x)
           c    == IF e.dir THEN DirAt(p.cache, path) ELSE p.cache
<1>1. IsVault(disk) /\ CacheTrue(disk, p.cache, <<>>, <<>>, {}, {}) /\ p.path \in StoredPaths
  BY DEF Steady, FoundTrue
<1>2. /\ p.ok /\ e \in AllEntries /\ e.name \in Names /\ Fold(e.name) = Fold(name)
      /\ \E n \in DOMAIN disk :
            /\ IsAt(p.path, Called(p, e.name), n)
            /\ e = EntryOf(disk, n) /\ e = Entry(Called(p, e.name), n)
            /\ e.dir <=> n \in Folders
            /\ disk[n].in = NodeIn(disk, p.path)
  BY <1>1, FoundThere
<1>3. PICK n \in DOMAIN disk : IsAt(p.path, x, n) /\ e = Entry(x, n) /\ (e.dir <=> n \in Folders)
  BY <1>2
<1>4. /\ x \in StoredNames /\ x.name = e.name /\ path \in StoredPaths
      /\ StoredPath(p.cache, p.path, e.name) = path
  BY <1>2, CalledFacts
<1>5. Removes(p, e, path, c)
  BY <1>4 DEF RemovesAt
<1>6. n \in Folders \cup Files
  BY <1>1, VaultFacts
<1> HIDE DEF x, path
<1>7. CacheTrue(disk, c, <<>>, <<>>, {}, {})
  BY <1>1, <1>4, DirAtTrue, SettledIdle
<1> HIDE DEF c
<1> DEFINE after == IfLong(e.name, OnPath("unsidecar", path)) \o OnIndex("unindex", p.path, e)
           todo(what) == OnPath("unlink", path) \o OnPath(what, path) \o after
<1>8. Starts(c, IF ~e.dir THEN todo("dropFile")
                ELSE IF IsEmptyDir(c, path) THEN todo("forget") ELSE <<>>)
  BY <1>5 DEF Removes
<1>9. CASE e.dir /\ ~IsEmptyDir(c, path)
  <2>1. Starts(c, <<>>)
    BY <1>8, <1>9
  <2> QED BY <1>7, <2>1, StartNothing
<1>10. CASE ~e.dir \/ IsEmptyDir(c, path)
  <2>1. PICK what \in Kinds : what = IF n \in Folders THEN "forget" ELSE "dropFile"
    BY DEF Kinds
  <2>2. Starts(c, todo(what))
    BY <1>3, <1>8, <1>10, <2>1
  <2>3. after = ToUnsidecar(p.path, x, n)
    BY <1>3, <1>4 DEF ToUnsidecar, ToUnindex, path
  <2>4. after \in Seq(Steps) /\ OnPath("unlink", path) \in Seq(Steps) /\ OnPath(what, path) \in Seq(Steps)
    <3>1. ToUnsidecar(p.path, x, n) \in Seq(Steps)
      BY <1>1, <1>4, <1>6, OneTypes
    <3>2. OnPath("unlink", path) \in Seq(Steps) /\ OnPath(what, path) \in Seq(Steps)
      BY <1>4, TodoTypes DEF Kinds
    <3> QED BY <2>3, <3>1, <3>2
  <2> HIDE DEF after
  <2>5. todo(what) = ToUnlink(p.path, x, n)
    <3>1. todo(what) = OnPath("unlink", path) \o (OnPath(what, path) \o after)
      BY <2>4, Reorder3 DEF Regroup
    <3> QED BY <2>1, <2>3, <3>1 DEF ToUnlink, ToForget, path
  <2> HIDE DEF todo
  <2>6. /\ Steady' /\ job' = todo(what) /\ Sound(<<>>, <<>>, {}, {}, {}, <<>>, <<>>)'
        /\ UNCHANGED <<disk, sidecars, files, opened, held>>
    BY <1>7, <2>2, StartSound
  <2>7. Childless(disk, n)
    <3>1. CASE e.dir
      <4>1. NodeIn(disk, path) = n
        BY <1>3 DEF IsAt, path
      <4> QED BY <1>4, <1>7, <1>10, <3>1, <4>1, EmptyFolder
    <3>2. CASE ~e.dir
      BY <1>1, <1>3, <3>2, VaultFacts DEF Childless
    <3> QED BY <3>1, <3>2
  <2>8. AtUnlink(p.path, x, n)'
    BY <1>3, <2>5, <2>6, <2>7 DEF AtUnlink, IsAt
  <2>9. OneStage(p.path, x, n)'
    BY <2>6, <2>8 DEF OneStage
  <2> QED BY <1>1, <1>4, <1>6, <2>6, <2>9 DEF Working
<1> QED BY <1>9, <1>10

-------------------------------------------------------------------------------
(* A rename begins.                                                        *)

Lines(a, b, c, d, e, g, h, i, j) ==
    (((((((a \o b) \o c) \o d) \o e) \o g) \o h) \o i) \o j
        = a \o (b \o (c \o (d \o (e \o (g \o (h \o (i \o j)))))))

LEMMA ReorderAll ==
    ASSUME NEW a \in Seq(Steps), NEW b \in Seq(Steps), NEW c \in Seq(Steps), NEW d \in Seq(Steps),
           NEW e \in Seq(Steps), NEW g \in Seq(Steps), NEW h \in Seq(Steps), NEW i \in Seq(Steps),
           NEW j \in Seq(Steps)
    PROVE  Lines(a, b, c, d, e, g, h, i, j)
<1> DEFINE l1 == a \o b
           l2 == l1 \o c
           l3 == l2 \o d
           l4 == l3 \o e
           l5 == l4 \o g
           l6 == l5 \o h
           r1 == i \o j
           r2 == h \o r1
           r3 == g \o r2
           r4 == e \o r3
           r5 == d \o r4
           r6 == c \o r5
<1>1. l1 \in Seq(Steps)
  BY ConcatProperties
<1> HIDE DEF l1
<1>2. l2 \in Seq(Steps)
  BY <1>1, ConcatProperties
<1> HIDE DEF l2
<1>3. l3 \in Seq(Steps)
  BY <1>2, ConcatProperties
<1> HIDE DEF l3
<1>4. l4 \in Seq(Steps)
  BY <1>3, ConcatProperties
<1> HIDE DEF l4
<1>5. l5 \in Seq(Steps)
  BY <1>4, ConcatProperties
<1> HIDE DEF l5
<1>6. l6 \in Seq(Steps)
  BY <1>5, ConcatProperties
<1> HIDE DEF l6
<1>7. r1 \in Seq(Steps)
  BY ConcatProperties
<1> HIDE DEF r1
<1>8. r2 \in Seq(Steps)
  BY <1>7, ConcatProperties
<1> HIDE DEF r2
<1>9. r3 \in Seq(Steps)
  BY <1>8, ConcatProperties
<1> HIDE DEF r3
<1>10. r4 \in Seq(Steps)
  BY <1>9, ConcatProperties
<1> HIDE DEF r4
<1>11. r5 \in Seq(Steps)
  BY <1>10, ConcatProperties
<1> HIDE DEF r5
<1>12. r6 \in Seq(Steps)
  BY <1>11, ConcatProperties
<1> HIDE DEF r6
<1>13. (l6 \o i) \o j = l6 \o r1
  <2>1. Regroup(l6, i, j)
    BY <1>6, Reorder3
  <2> QED BY <2>1 DEF Regroup, r1
<1>14. l6 \o r1 = l5 \o r2
  <2>1. Regroup(l5, h, r1)
    BY <1>5, <1>7, Reorder3
  <2> QED BY <2>1 DEF Regroup, l6, r2
<1>15. l5 \o r2 = l4 \o r3
  <2>1. Regroup(l4, g, r2)
    BY <1>4, <1>8, Reorder3
  <2> QED BY <2>1 DEF Regroup, l5, r3
<1>16. l4 \o r3 = l3 \o r4
  <2>1. Regroup(l3, e, r3)
    BY <1>3, <1>9, Reorder3
  <2> QED BY <2>1 DEF Regroup, l4, r4
<1>17. l3 \o r4 = l2 \o r5
  <2>1. Regroup(l2, d, r4)
    BY <1>2, <1>10, Reorder3
  <2> QED BY <2>1 DEF Regroup, l3, r5
<1>18. l2 \o r5 = l1 \o r6
  <2>1. Regroup(l1, c, r5)
    BY <1>1, <1>11, Reorder3
  <2> QED BY <2>1 DEF Regroup, l2, r6
<1>19. l1 \o r6 = a \o (b \o r6)
  <2>1. Regroup(a, b, r6)
    BY <1>12, Reorder3
  <2> QED BY <2>1 DEF Regroup, l1
<1>20. (l6 \o i) \o j = a \o (b \o r6)
  BY <1>13, <1>14, <1>15, <1>16, <1>17, <1>18, <1>19
<1> QED BY <1>20 DEF Lines, l1, l2, l3, l4, l5, l6, r1, r2, r3, r4, r5, r6

\* The source and the place a rename asked for have been found: what is known
\* of them.
Asked(r, f, source, p, name) ==
    /\ r \in Renamings
    /\ r.f = f.path /\ r.x = Called(f, source.name) /\ r.p = p.path /\ r.y = Called(p, name)
    /\ r.n \in DOMAIN disk /\ NodeIn(disk, From(r)) = r.n
    /\ source = Entry(r.x, r.n) /\ (source.dir <=> r.n \in Folders)
    /\ r.old = IF p.found = {} THEN <<>>
               ELSE OnIndex("unindex", p.path, CHOOSE e \in p.found : TRUE)
    /\ OldFits(r)

LEMMA SourceFound ==
    ASSUME Steady, NEW f, NEW any, FoundTrue(f, any), NEW source \in f.found,
           NEW p, NEW name \in Names, FoundTrue(p, name), p.ok
    PROVE  \E r : Asked(r, f, source, p, name)
<1> DEFINE x == Called(f, source.name)
           y == Called(p, name)
           target == CHOOSE e \in p.found : TRUE
           old == IF p.found = {} THEN <<>> ELSE OnIndex("unindex", p.path, target)
<1>1. IsVault(disk)
  BY DEF Steady
<1>2. /\ f.ok /\ source \in AllEntries /\ source.name \in Names
      /\ \E n \in DOMAIN disk :
            /\ IsAt(f.path, Called(f, source.name), n)
            /\ source = EntryOf(disk, n) /\ source = Entry(Called(f, source.name), n)
            /\ source.dir <=> n \in Folders
            /\ disk[n].in = NodeIn(disk, f.path)
  BY <1>1, FoundThere
<1>3. PICK n \in DOMAIN disk : /\ IsAt(f.path, x, n) /\ source = Entry(x, n)
                               /\ source.dir <=> n \in Folders
  BY <1>2
<1>4. x \in StoredNames /\ f.path \in StoredPaths
  BY <1>2, CalledFacts
<1>5. y \in StoredNames /\ p.path \in StoredPaths /\ y.name = name
  BY CalledFacts
<1>6. p.found # {} => target \in p.found
  OBVIOUS
<1> HIDE DEF target
<1>7. p.found # {} => target \in AllEntries /\ Fold(target.name) = Fold(name)
  BY <1>1, <1>6, FoundThere
<1>8. old \in Seq(Steps)
  <2>1. OnIndex("unindex", p.path, target) \in Seq(Steps) \/ p.found = {}
    BY <1>5, <1>7, TodoTypes DEF Kinds
  <2> QED BY <2>1, EmptySeq
<1> HIDE DEF x, y
<1> DEFINE r == [f |-> f.path, x |-> x, p |-> p.path, y |-> y, n |-> n, old |-> old]
<1>9. n \in Folders \cup Files
  BY <1>1, VaultFacts
<1>10. r \in Renamings
  BY <1>4, <1>5, <1>8, <1>9 DEF Renamings
<1>11. r.f = f.path /\ r.x = x /\ r.p = p.path /\ r.y = y /\ r.n = n /\ r.old = old
  OBVIOUS
<1> HIDE DEF r
<1>12. From(r) = Append(f.path, x)
  BY <1>11 DEF From
<1>13. OldFits(r)
  <2>1. CASE p.found = {}
    BY <1>11, <2>1 DEF OldFits
  <2>2. CASE p.found # {}
    BY <1>5, <1>7, <1>11, <2>2 DEF OldFits
  <2> QED BY <2>1, <2>2
<1>14. Asked(r, f, source, p, name)
  BY <1>3, <1>10, <1>11, <1>12, <1>13 DEF Asked, IsAt, x, y, target
<1> QED BY <1>14

\* A folder can't go into itself, and nothing can go below a file.
LEMMA NotIntoItself ==
    ASSUME Steady, NEW f, NEW source, NEW p, NEW name \in Names, FoundTrue(p, name), p.ok,
           NEW r, Asked(r, f, source, p, name),
           ~(source.dir /\ StartsWith(p.path, From(r))), To(r) # From(r)
    PROVE  ~StartsWith(To(r), From(r))
<1>1. /\ From(r) \in StoredPaths /\ r.p \in StoredPaths /\ r.y \in StoredNames
      /\ To(r) = Append(r.p, r.y) /\ r.p = p.path /\ IsVault(disk)
      /\ r.n \in DOMAIN disk /\ NodeIn(disk, From(r)) = r.n
      /\ source.dir <=> r.n \in Folders
  BY RenamingFacts DEF Asked, Steady
<1>2. ~StartsWith(r.p, From(r))
  <2> SUFFICES ASSUME StartsWith(r.p, From(r)) PROVE FALSE
    OBVIOUS
  <2>1. r.n \notin Folders
    BY <1>1
  <2>2. NodeIn(disk, r.p) \in Folders
    BY <1>1, CalledFacts
  <2>3. r.p # From(r) /\ NodeIn(disk, r.p) # None
    BY <1>1, <2>1, <2>2, TreeAssumption
  <2>4. \A m \in DOMAIN disk : disk[m].in # NodeIn(disk, From(r))
    BY <1>1, <2>1, VaultFacts
  <2> QED BY <1>1, <2>3, <2>4, NothingBelow
<1> QED BY <1>1, <1>2, PrefixAppend

\* What of the target is known: a thing of the new name is the one entry found.
LEMMA TargetFound ==
    ASSUME Steady, NEW p, NEW name \in Names, FoundTrue(p, name), p.ok,
           NEW target, p.found # {} => target \in p.found
    PROVE  /\ \A m \in DOMAIN disk : disk[m].in = NodeIn(disk, p.path) /\ Fold(disk[m].name) = Fold(name)
                 => /\ p.found # {}
                    /\ NodeIn(disk, Append(p.path, Called(p, target.name))) = m
           /\ p.found # {} =>
                 /\ target.name \in Names /\ Fold(target.name) = Fold(name)
                 /\ NodeIn(disk, Append(p.path, Called(p, target.name))) \in DOMAIN disk
                 /\ target.dir <=> NodeIn(disk, Append(p.path, Called(p, target.name))) \in Folders
           /\ NodeIn(disk, Append(p.path, Called(p, name))) # None
                 => p.found # {} /\ target.name = name
<1>1. IsVault(disk) /\ p.path \in StoredPaths /\ Called(p, name) \in StoredNames
      /\ Called(p, name).name = name
  BY CalledFacts DEF Steady
<1>2. ASSUME p.found # {}
      PROVE  /\ target.name \in Names /\ Fold(target.name) = Fold(name)
             /\ \E n \in DOMAIN disk : /\ NodeIn(disk, Append(p.path, Called(p, target.name))) = n
                                       /\ target = EntryOf(disk, n)
                                       /\ target.dir <=> n \in Folders
                                       /\ disk[n].in = NodeIn(disk, p.path)
  <2>1. target \in p.found
    BY <1>2
  <2>2. /\ target.name \in Names /\ Fold(target.name) = Fold(name)
        /\ \E n \in DOMAIN disk : /\ IsAt(p.path, Called(p, target.name), n)
                                  /\ target = EntryOf(disk, n) /\ target = Entry(Called(p, target.name), n)
                                  /\ target.dir <=> n \in Folders
                                  /\ disk[n].in = NodeIn(disk, p.path)
    BY <1>1, <2>1, FoundThere
  <2> QED BY <2>2 DEF IsAt
<1>3. ASSUME NEW m \in DOMAIN disk, disk[m].in = NodeIn(disk, p.path), Fold(disk[m].name) = Fold(name)
      PROVE  /\ p.found # {} /\ target.name = disk[m].name
             /\ NodeIn(disk, Append(p.path, Called(p, target.name))) = m
  <2>1. EntryOf(disk, m) \in p.found /\ \A e \in p.found : e = EntryOf(disk, m)
    BY <1>1, <1>3, FoundOnly
  <2>2. target = EntryOf(disk, m) /\ target.name = disk[m].name
    BY <2>1 DEF EntryOf
  <2>3. /\ Called(p, target.name) \in StoredNames /\ Called(p, target.name).name = target.name
        /\ Called(p, target.name).iv = NodeIn(disk, p.path)
    BY <1>2, <2>1, CalledFacts
  <2>4. disk[m].iv = disk[m].in
    BY <1>1, VaultFacts
  <2> QED BY <1>1, <1>3, <2>1, <2>2, <2>3, <2>4, NodeFacts
<1>4. ASSUME NodeIn(disk, Append(p.path, Called(p, name))) # None
      PROVE  p.found # {} /\ target.name = name
  <2>1. PICK k : k = NodeIn(disk, Append(p.path, Called(p, name)))
    OBVIOUS
  <2>2. k \in DOMAIN disk
    BY <1>1, <1>4, <2>1, NodeFacts
  <2>3. disk[k].in = NodeIn(disk, p.path) /\ disk[k].name = name
    BY <1>1, <2>1, <2>2, NodeFacts
  <2> QED BY <1>3, <2>2, <2>3
<1> QED BY <1>2, <1>3, <1>4

-------------------------------------------------------------------------------
(* Nothing in the way: on to the move.                                     *)

LEMMA MoveBegins ==
    ASSUME Steady, NEW r \in Renamings, OldFits(r), Ready(disk, r), NodeIn(disk, To(r)) = None,
           Sound(<<>>, <<>>, {}, {}, {}, <<>>, <<>>)', UNCHANGED <<disk, files>>,
           job' = ToSidecarNew(r)
    PROVE  MoveStage(r)'
<1>1. /\ To(r) \in StoredPaths /\ ToMove(r) \in Seq(Steps) /\ r.y \in StoredNames
      /\ OnPath("sidecar", To(r)) \in Seq(Steps)
  BY RenamingFacts, RenameTypes, TodoTypes DEF Kinds
<1>2. /\ CacheTrue(disk', dirs', <<>>, <<>>, {}, {}) /\ Settled(disk', <<>>, <<>>, {})
      /\ FilesTrue(disk', files', opened', {}, <<>>, <<>>)
  BY DEF Sound
<1>3. CacheTrue(disk', dirs', <<>>, <<>>, {Name(r.p, r.y)}, {})
  BY <1>2, CacheWeaker
<1>4. FilesTrue(disk', files', opened', {To(r)}, <<>>, <<>>)
  BY <1>2, FilesWeaker
<1>5. Sound(<<>>, <<>>, {Name(r.p, r.y)}, {}, {To(r)}, <<>>, <<>>)'
  BY <1>2, <1>3, <1>4 DEF Sound
<1>6. Bare(files, To(r))
  <2>1. PICK op : op = opened'
    OBVIOUS
  <2>2. FilesTrue(disk, files, op, {}, <<>>, <<>>)
    BY <1>2, <2>1
  <2>3. IsVault(disk) /\ {} \cap DOMAIN files = {}
    BY DEF Steady
  <2> QED BY <1>1, <2>2, <2>3, BareFiles
<1>7. \/ job' = OnPath("sidecar", To(r)) \o ToMove(r)
      \/ r.y.name \notin Long /\ job' = ToMove(r)
  BY <1>1, LongTypes DEF ToSidecarNew
<1>8. AtSidecarNew(r)' \/ AtMove(r)'
  BY <1>6, <1>7 DEF AtSidecarNew, AtMove
<1> QED BY <1>5, <1>8 DEF MoveStage

\* The file in the way has the very name: the move replaces it.
LEMMA DropBegins ==
    ASSUME NEW r \in Renamings, OldFits(r), Ready(disk, r),
           Sound(<<>>, <<>>, {}, {}, {}, <<>>, <<>>)', UNCHANGED disk, job' = ToDropOld(r, r.y)
    PROVE  ClearStage(r, r.y)'
<1>1. /\ CacheTrue(disk', dirs', <<>>, <<>>, {}, {}) /\ Settled(disk', <<>>, <<>>, {})
      /\ FilesTrue(disk', files', opened', {}, <<>>, <<>>)
  BY DEF Sound
<1>2. CacheTrue(disk', dirs', <<>>, <<>>, {Name(r.p, r.y)}, {})
  BY <1>1, CacheWeaker
<1>3. FilesTrue(disk', files', opened', {Append(r.p, r.y)}, <<>>, <<>>)
  BY <1>1, FilesWeaker
<1>4. Sound(<<>>, <<>>, {Name(r.p, r.y)}, {}, {Append(r.p, r.y)}, <<>>, <<>>)'
  BY <1>1, <1>2, <1>3 DEF Sound
<1>5. AtDropOld(r, r.y)'
  BY DEF AtDropOld
<1> QED BY <1>4, <1>5 DEF ClearStage

\* What a rename has to do, once it has cleared the way.
LEMMA RenameTodo ==
    ASSUME NEW r \in Renamings, NEW clears \in Seq(Steps)
    PROVE  clears \o IfLong(r.y.name, OnPath("sidecar", To(r)))
             \o Moves("move", From(r), To(r))
             \o IfLong(r.x.name, OnPath("unsidecar", From(r)))
             \o OnIndex("unindex", r.f, Entry(r.x, r.n))
             \o r.old
             \o OnIndex("index", r.p, Entry(r.y, r.n))
             \o Moves("moveDirs", From(r), To(r)) \o Moves("moveFiles", From(r), To(r))
           = clears \o ToSidecarNew(r)
<1>1. /\ From(r) \in StoredPaths /\ To(r) \in StoredPaths /\ r.f \in StoredPaths /\ r.p \in StoredPaths
      /\ Entry(r.x, r.n) \in AllEntries /\ Entry(r.y, r.n) \in AllEntries /\ r.old \in Seq(Steps)
  BY RenamingFacts, EntryTypes
<1>2. /\ OnPath("sidecar", To(r)) \in Seq(Steps) /\ OnPath("unsidecar", From(r)) \in Seq(Steps)
      /\ Moves("move", From(r), To(r)) \in Seq(Steps)
      /\ Moves("moveDirs", From(r), To(r)) \in Seq(Steps)
      /\ Moves("moveFiles", From(r), To(r)) \in Seq(Steps)
      /\ OnIndex("unindex", r.f, Entry(r.x, r.n)) \in Seq(Steps)
      /\ OnIndex("index", r.p, Entry(r.y, r.n)) \in Seq(Steps)
  BY <1>1, TodoTypes DEF Kinds
<1>3. /\ IfLong(r.y.name, OnPath("sidecar", To(r))) \in Seq(Steps)
      /\ IfLong(r.x.name, OnPath("unsidecar", From(r))) \in Seq(Steps)
  BY <1>2, LongTypes
<1>4. Lines(clears, IfLong(r.y.name, OnPath("sidecar", To(r))), Moves("move", From(r), To(r)),
            IfLong(r.x.name, OnPath("unsidecar", From(r))),
            OnIndex("unindex", r.f, Entry(r.x, r.n)), r.old,
            OnIndex("index", r.p, Entry(r.y, r.n)),
            Moves("moveDirs", From(r), To(r)), Moves("moveFiles", From(r), To(r)))
  BY <1>1, <1>2, <1>3, ReorderAll
<1> QED BY <1>4 DEF Lines, ToSidecarNew, ToMove, ToUnsidecarSource, ToUnindexSource, ToUnindexOld,
                    ToIndexNew, ToMoveDirs, ToMoveFiles

LEMMA RenameStarts ==
    ASSUME Steady, Quiet, NEW f, NEW any, FoundTrue(f, any), NEW source \in f.found,
           NEW p, NEW name \in Names, FoundTrue(p, name), NEW replace,
           Renames(f, source, StoredPath(f.cache, f.path, source.name), p, name,
                   StoredPath(p.cache, p.path, name), replace)
    PROVE  Steady' /\ Working'
<1> DEFINE sPath    == StoredPath(f.cache, f.path, source.name)
           tPath    == StoredPath(p.cache, p.path, name)
<1>0. PICK target : target = (CHOOSE e \in p.found : TRUE)
  OBVIOUS
<1> DEFINE existing == StoredPath(p.cache, p.path, target.name)
           other    == p.found # {} /\ existing # sPath
           clears   == IF ~other THEN <<>>
                       ELSE (IF existing = tPath THEN <<>>
                             ELSE OnPath("unlink", existing)
                                  \o IfLong(target.name, OnPath("unsidecar", existing)))
                            \o OnPath("dropFile", existing)
           refused  == \/ ~p.ok
                       \/ source.dir /\ StartsWith(p.path, sPath)
                       \/ tPath = sPath
                       \/ other /\ (~replace \/ target.dir \/ source.dir)
           todo     == clears \o IfLong(name, OnPath("sidecar", tPath))
                 \o Moves("move", sPath, tPath)
                 \o IfLong(source.name, OnPath("unsidecar", sPath))
                 \o OnIndex("unindex", f.path, source)
                 \o (IF p.found = {} THEN <<>> ELSE OnIndex("unindex", p.path, target))
                 \o OnIndex("index", p.path, [name |-> name, dir |-> source.dir])
                 \o Moves("moveDirs", sPath, tPath) \o Moves("moveFiles", sPath, tPath)
<1>1. Starts(p.cache, IF refused THEN <<>> ELSE todo)
  BY <1>0 DEF Renames
<1>2. IsVault(disk) /\ CacheTrue(disk, p.cache, <<>>, <<>>, {}, {})
  BY DEF Steady, FoundTrue
<1>3. CASE refused
  <2>1. Starts(p.cache, <<>>)
    BY <1>1, <1>3
  <2> QED BY <1>2, <2>1, StartNothing
<1>4. CASE ~refused
  <2>1. /\ p.ok /\ ~(source.dir /\ StartsWith(p.path, sPath)) /\ tPath # sPath
        /\ other => ~target.dir /\ ~source.dir
    BY <1>4
  <2>2. PICK r : Asked(r, f, source, p, name)
    BY <2>1, SourceFound
  <2>3. /\ r \in Renamings /\ r.f = f.path /\ r.p = p.path /\ r.n \in DOMAIN disk
        /\ r.x = Called(f, source.name) /\ r.y = Called(p, name)
        /\ NodeIn(disk, From(r)) = r.n /\ OldFits(r)
        /\ source = Entry(r.x, r.n) /\ (source.dir <=> r.n \in Folders)
        /\ r.old = IF p.found = {} THEN <<>> ELSE OnIndex("unindex", p.path, target)
    BY <1>0, <2>2 DEF Asked
  <2>4. sPath = From(r) /\ tPath = To(r)
    BY <2>3 DEF StoredPath, Called, From, To
  <2>5. ~StartsWith(To(r), From(r))
    BY <2>1, <2>2, <2>4, NotIntoItself
  <2>6. /\ \A m \in DOMAIN disk : disk[m].in = NodeIn(disk, r.p) /\ Fold(disk[m].name) = Fold(name)
              => p.found # {} /\ NodeIn(disk, Append(r.p, Called(p, target.name))) = m
        /\ p.found # {} =>
              /\ target.name \in Names /\ Fold(target.name) = Fold(name)
              /\ NodeIn(disk, Append(r.p, Called(p, target.name))) \in DOMAIN disk
              /\ target.dir <=> NodeIn(disk, Append(r.p, Called(p, target.name))) \in Folders
        /\ NodeIn(disk, To(r)) # None => p.found # {} /\ target.name = name
    <3>1. p.found # {} => target \in p.found
      BY <1>0
    <3>2. To(r) = Append(p.path, Called(p, name)) /\ r.p = p.path
      BY <2>3 DEF To
    <3> QED BY <2>1, <3>1, <3>2, TargetFound
  <2>7. /\ r.f \in StoredPaths /\ r.x \in StoredNames /\ r.p \in StoredPaths /\ r.y \in StoredNames
        /\ From(r) \in StoredPaths /\ To(r) \in StoredPaths /\ To(r) = Append(r.p, r.y)
        /\ NodeIn(disk, r.p) \in Folders /\ r.y.iv = NodeIn(disk, r.p) /\ r.y.name = name
    BY <2>1, <2>3, RenamingFacts, CalledFacts
  <2>8. r.x.name = source.name
    BY <2>3 DEF Called
  <2>9. Entry(r.y, r.n) = [name |-> name, dir |-> source.dir]
    <3>1. source.dir = (r.n \in Folders)
      BY <2>3, Zenon DEF Entry
    <3> QED BY <2>7, <3>1 DEF Entry
  <2> DEFINE z == Called(p, target.name)
             u == Append(r.p, z)
             k == NodeIn(disk, u)
  <2>10. existing = u
    BY <2>3 DEF StoredPath, Called
  <2>11. p.found # {} => z \in StoredNames /\ u \in StoredPaths /\ z.name = target.name
    BY <2>1, <2>3, <2>6, CalledFacts
  <2>12. todo = clears \o IfLong(r.y.name, OnPath("sidecar", To(r)))
             \o Moves("move", From(r), To(r))
             \o IfLong(r.x.name, OnPath("unsidecar", From(r)))
             \o OnIndex("unindex", r.f, Entry(r.x, r.n))
             \o r.old
             \o OnIndex("index", r.p, Entry(r.y, r.n))
             \o Moves("moveDirs", From(r), To(r)) \o Moves("moveFiles", From(r), To(r))
    BY <2>3, <2>4, <2>7, <2>8, <2>9
  <2>13. Starts(p.cache, todo)
    BY <1>1, <1>4
  <2>14. IsVault(disk) /\ {r.n} \subseteq Folders \cup Files /\ None \notin DOMAIN disk
    BY <1>2, <2>3, VaultFacts
  <2> HIDE DEF todo
  <2>15. /\ Steady' /\ job' = todo /\ Sound(<<>>, <<>>, {}, {}, {}, <<>>, <<>>)'
         /\ UNCHANGED <<disk, sidecars, files, opened, held>>
    BY <1>2, <2>13, StartSound
  <2>16. clears \in Seq(Steps) => job' = clears \o ToSidecarNew(r)
    <3> SUFFICES ASSUME clears \in Seq(Steps) PROVE job' = clears \o ToSidecarNew(r)
      OBVIOUS
    <3>1. PICK c \in Seq(Steps) : c = clears
      OBVIOUS
    <3> HIDE DEF clears
    <3> QED BY <2>3, <2>12, <2>15, <3>1, RenameTodo
  <2>17. ToSidecarNew(r) \in Seq(Steps)
    BY <2>3, <2>7, RenameTypes
  <2> HIDE DEF sPath, tPath, z
  <2>18. CASE ~other
    <3>1. job' = ToSidecarNew(r)
      <4>1. clears = <<>> /\ clears \in Seq(Steps)
        BY <2>18, EmptySeq
      <4> HIDE DEF clears
      <4> QED BY <2>16, <2>17, <4>1, ConcatEmptySeq
    <3>2. NodeIn(disk, To(r)) = None
      <4> SUFFICES ASSUME NodeIn(disk, To(r)) # None PROVE FALSE
        OBVIOUS
      <4>1. existing = tPath
        BY <2>6 DEF tPath
      <4> QED BY <2>1, <2>6, <2>18, <4>1
    <3>3. Ready(disk, r)
      <4>1. \A m \in DOMAIN disk \ {r.n, None} :
               disk[m].in = NodeIn(disk, r.p) => Fold(disk[m].name) # Fold(r.y.name)
        <5> SUFFICES ASSUME NEW m \in DOMAIN disk, m # r.n, disk[m].in = NodeIn(disk, r.p),
                            Fold(disk[m].name) = Fold(name)
                     PROVE  FALSE
          BY <2>7
        <5>1. p.found # {} /\ k = m
          BY <2>6 DEF z
        <5>2. u = From(r)
          BY <2>4, <2>10, <2>18, <5>1
        <5> QED BY <2>3, <5>1, <5>2
      <4> QED BY <2>3, <2>5, <2>7, <3>2, <4>1 DEF Ready, Fits
    <3>4. MoveStage(r)'
      BY <2>3, <2>15, <3>1, <3>2, <3>3, MoveBegins
    <3> QED BY <2>3, <2>15, <3>4 DEF Working
  <2>19. CASE other
    <3>1. /\ p.found # {} /\ u # From(r) /\ k \in DOMAIN disk /\ Fold(z.name) = Fold(name)
          /\ k \notin Folders /\ r.n \notin Folders /\ z \in StoredNames /\ u \in StoredPaths
      BY <2>1, <2>3, <2>4, <2>6, <2>10, <2>11, <2>19 DEF z
    <3>2. k \in Files /\ r.n \in Files /\ k # None
      BY <2>14, <3>1, VaultFacts
    <3>3. k # r.n
      BY <2>3, <2>7, <2>14, <3>1, <3>2, OnePath
    <3>4. OnPath("unlink", u) \in Seq(Steps) /\ OnPath("unsidecar", u) \in Seq(Steps)
          /\ OnPath("dropFile", u) \in Seq(Steps)
      BY <3>1, TodoTypes DEF Kinds
    <3>5. CASE existing = tPath
      <4>1. z = r.y
        <5>1. Append(r.p, z) = Append(r.p, r.y)
          BY <2>4, <2>7, <2>10, <3>5
        <5>2. Append(r.p, z)[Len(r.p) + 1] = z /\ Append(r.p, r.y)[Len(r.p) + 1] = r.y
          BY <2>7, <3>1, AppendFacts
        <5> QED BY <5>1, <5>2
      <4>2. job' = ToDropOld(r, r.y)
        <5>1. clears = OnPath("dropFile", u)
          <6>1. clears = <<>> \o OnPath("dropFile", u)
            BY <2>10, <2>19, <3>5
          <6> HIDE DEF clears
          <6> QED BY <3>4, <6>1, ConcatEmptySeq
        <5> HIDE DEF clears
        <5>2. job' = OnPath("dropFile", u) \o ToSidecarNew(r)
          BY <2>16, <3>4, <5>1
        <5> QED BY <4>1, <5>2 DEF ToDropOld
      <4>3. Ready(disk, r)
        <5>1. NodeIn(disk, To(r)) = k
          BY <2>7, <4>1
        <5>2. \A m \in DOMAIN disk \ {r.n, k} :
                 disk[m].in = NodeIn(disk, r.p) => Fold(disk[m].name) # Fold(r.y.name)
          BY <2>6, <2>7 DEF z
        <5> HIDE DEF k
        <5> QED BY <2>3, <2>5, <2>7, <3>2, <5>1, <5>2 DEF Ready, Fits
      <4>4. ClearStage(r, r.y)'
        BY <2>3, <2>15, <4>2, <4>3, DropBegins
      <4> QED BY <2>3, <2>7, <2>15, <4>4 DEF Working
    <3>6. CASE existing # tPath
      <4>1. NodeIn(disk, To(r)) = None
        <5> SUFFICES ASSUME NodeIn(disk, To(r)) # None PROVE FALSE
          OBVIOUS
        <5>1. existing = tPath
          BY <2>6 DEF tPath
        <5> QED BY <3>6, <5>1
      <4>2. job' = ToUnlinkOld(r, z)
        <5>1. clears = (OnPath("unlink", u) \o IfLong(z.name, OnPath("unsidecar", u)))
                       \o OnPath("dropFile", u)
          BY <2>10, <2>11, <2>19, <3>1, <3>6
        <5>2. IfLong(z.name, OnPath("unsidecar", u)) \in Seq(Steps)
          BY <3>4, LongTypes
        <5>3. clears \in Seq(Steps)
          <6> HIDE DEF clears, u
          <6> QED BY <3>4, <5>1, <5>2, ConcatProperties
        <5> HIDE DEF clears, u
        <5>4. Regroups(OnPath("unlink", u), IfLong(z.name, OnPath("unsidecar", u)),
                       OnPath("dropFile", u), ToSidecarNew(r))
          BY <2>17, <3>4, <5>2, Reorder4
        <5> QED BY <2>16, <5>1, <5>3, <5>4 DEF Regroups, ToUnlinkOld, ToUnsidecarOld, ToDropOld, u
      <4>3. Ready(Without(disk, {k}), r)
        <5>1. PICK d : d = Without(disk, {k})
          OBVIOUS
        <5>2. Less(disk, d, k)
          <6>1. Childless(disk, k)
            BY <2>14, <3>1, VaultFacts DEF Childless
          <6> HIDE DEF k
          <6> QED BY <2>14, <3>1, <5>1, <6>1, Dropped
        <5> HIDE DEF k
        <5>3. /\ DOMAIN d = DOMAIN disk \ {k} /\ \A m \in DOMAIN d : d[m] = disk[m]
              /\ \A q \in StoredPaths : NodeIn(d, q) = IF NodeIn(disk, q) = k THEN None ELSE NodeIn(disk, q)
          BY <5>2 DEF Less
        <5>4. /\ NodeIn(d, From(r)) = r.n /\ NodeIn(d, To(r)) = None
              /\ NodeIn(d, r.p) = NodeIn(disk, r.p) /\ r.n \in DOMAIN d
          BY <2>3, <2>7, <3>1, <3>3, <4>1, <5>3
        <5>5. \A m \in DOMAIN d \ {r.n, None} :
                 d[m].in = NodeIn(d, r.p) => Fold(d[m].name) # Fold(r.y.name)
          BY <2>6, <2>7, <5>3, <5>4 DEF k, u, z
        <5>6. Ready(d, r)
          BY <2>3, <2>5, <2>7, <5>4, <5>5 DEF Ready, Fits
        <5> QED BY <5>1, <5>6
      <4>4. AtUnlinkOld(r, z)'
        BY <2>3, <2>7, <2>15, <3>1, <3>2, <4>1, <4>2, <4>3 DEF AtUnlinkOld
      <4>5. ClearStage(r, z)'
        BY <2>15, <4>4 DEF ClearStage
      <4> QED BY <2>3, <2>15, <3>1, <4>5 DEF Working
    <3> QED BY <3>5, <3>6
  <2> QED BY <2>18, <2>19
<1> QED BY <1>3, <1>4

-------------------------------------------------------------------------------
(* What happens beside the steps of a change.                              *)

\* What leaves the disk and the work alone and keeps the caches true.
Bystander ==
    /\ UNCHANGED <<disk, sidecars, job>>
    /\ \A s, t, pend, gone, drop, a, b :
          Sound(s, t, pend, gone, drop, a, b) => Sound(s, t, pend, gone, drop, a, b)'
    /\ \A n : NotOpen(opened, n) => NotOpen(opened', n)
    /\ \A t : Bare(files, t) => Bare(files', t)

LEMMA BesideOne ==
    ASSUME Bystander, NEW f \in StoredPaths, NEW x \in StoredNames, NEW n \in Folders \cup Files,
           OneStage(f, x, n)
    PROVE  OneStage(f, x, n)'
<1>1. UNCHANGED <<disk, sidecars, job>> /\ \A k : NotOpen(opened, k) => NotOpen(opened', k)
  BY DEF Bystander
<1>2. /\ AtSidecar(f, x, n) => AtSidecar(f, x, n)'
      /\ AtCreate(f, x, n) => AtCreate(f, x, n)'
  BY <1>1 DEF AtSidecar, AtCreate, Planned
<1>3. /\ AtKeep(f, x, n) => AtKeep(f, x, n)'
      /\ AtIndex(f, x, n) => AtIndex(f, x, n)'
      /\ AtUnlink(f, x, n) => AtUnlink(f, x, n)'
  BY <1>1 DEF AtKeep, AtIndex, AtUnlink, IsAt
<1>4. /\ AtForget(f, x, n) => AtForget(f, x, n)'
      /\ AtUnsidecar(f, x, n) => AtUnsidecar(f, x, n)'
      /\ AtUnindex(f, x, n) => AtUnindex(f, x, n)'
  BY <1>1 DEF AtForget, AtUnsidecar, AtUnindex
<1>5. /\ Sound(<<>>, <<>>, {}, {}, {}, <<>>, <<>>) => Sound(<<>>, <<>>, {}, {}, {}, <<>>, <<>>)'
      /\ Sound(<<>>, <<>>, {Name(f, x)}, {}, {}, <<>>, <<>>)
            => Sound(<<>>, <<>>, {Name(f, x)}, {}, {}, <<>>, <<>>)'
      /\ Sound(<<>>, <<>>, {Name(f, x)}, {Append(f, x)}, {}, <<>>, <<>>)
            => Sound(<<>>, <<>>, {Name(f, x)}, {Append(f, x)}, {}, <<>>, <<>>)'
      /\ Sound(<<>>, <<>>, {Name(f, x)}, {}, {Append(f, x)}, <<>>, <<>>)
            => Sound(<<>>, <<>>, {Name(f, x)}, {}, {Append(f, x)}, <<>>, <<>>)'
  BY DEF Bystander
<1> QED BY <1>2, <1>3, <1>4, <1>5 DEF OneStage

LEMMA BesideClear ==
    ASSUME Bystander, NEW r \in Renamings, NEW z \in StoredNames, ClearStage(r, z)
    PROVE  ClearStage(r, z)'
<1>1. UNCHANGED <<disk, job>>
  BY DEF Bystander
<1>2. /\ AtUnlinkOld(r, z) => AtUnlinkOld(r, z)'
      /\ AtUnsidecarOld(r, z) => AtUnsidecarOld(r, z)'
      /\ AtDropOld(r, z) => AtDropOld(r, z)'
  BY <1>1 DEF AtUnlinkOld, AtUnsidecarOld, AtDropOld
<1>3. /\ Sound(<<>>, <<>>, {}, {}, {}, <<>>, <<>>) => Sound(<<>>, <<>>, {}, {}, {}, <<>>, <<>>)'
      /\ Sound(<<>>, <<>>, {Name(r.p, r.y)}, {}, {Append(r.p, z)}, <<>>, <<>>)
            => Sound(<<>>, <<>>, {Name(r.p, r.y)}, {}, {Append(r.p, z)}, <<>>, <<>>)'
  BY DEF Bystander
<1> QED BY <1>2, <1>3 DEF ClearStage

LEMMA BesideMove ==
    ASSUME Bystander, NEW r \in Renamings, MoveStage(r)
    PROVE  MoveStage(r)'
<1>1. UNCHANGED <<disk, sidecars, job>> /\ (Bare(files, To(r)) => Bare(files', To(r)))
  BY DEF Bystander
<1>2. /\ AtSidecarNew(r) => AtSidecarNew(r)'
      /\ AtMove(r) => AtMove(r)'
  BY <1>1 DEF AtSidecarNew, AtMove
<1>3. Arrived(r) => Arrived(r)'
  BY <1>1 DEF Arrived, IsAt
<1>4. /\ AtUnsidecarSource(r) => AtUnsidecarSource(r)'
      /\ AtUnindexSource(r) => AtUnindexSource(r)'
      /\ AtUnindexOld(r) => AtUnindexOld(r)'
      /\ AtIndexNew(r) => AtIndexNew(r)'
      /\ AtMoveDirs(r) => AtMoveDirs(r)'
      /\ AtMoveFiles(r) => AtMoveFiles(r)'
  BY <1>1, <1>3 DEF AtUnsidecarSource, AtUnindexSource, AtUnindexOld, AtIndexNew, AtMoveDirs, AtMoveFiles
<1> DEFINE s == From(r)
           t == To(r)
           y == Name(r.p, r.y)
           x == Name(r.f, r.x)
<1>5. /\ Sound(<<>>, <<>>, {y}, {}, {t}, <<>>, <<>>) => Sound(<<>>, <<>>, {y}, {}, {t}, <<>>, <<>>)'
      /\ Sound(s, t, {y, x}, {}, {}, s, t) => Sound(s, t, {y, x}, {}, {}, s, t)'
      /\ Sound(s, t, {y}, {}, {}, s, t) => Sound(s, t, {y}, {}, {}, s, t)'
      /\ Sound(s, t, {}, {}, {}, s, t) => Sound(s, t, {}, {}, {}, s, t)'
      /\ Sound(<<>>, <<>>, {}, {}, {}, s, t) => Sound(<<>>, <<>>, {}, {}, {}, s, t)'
  BY DEF Bystander
<1> QED BY <1>2, <1>4, <1>5 DEF MoveStage

LEMMA Beside ==
    ASSUME Steady, Working, Bystander PROVE Steady' /\ Working'
<1>1. Steady'
  BY DEF Steady, Bystander
<1>2. Quiet => Quiet'
  <2>1. /\ job' = job
        /\ Sound(<<>>, <<>>, {}, {}, {}, <<>>, <<>>) => Sound(<<>>, <<>>, {}, {}, {}, <<>>, <<>>)'
    BY DEF Bystander
  <2> QED BY <2>1 DEF Quiet
<1> QED BY <1>1, <1>2, BesideOne, BesideClear, BesideMove DEF Working

\* Only the folders are remembered anew.
LEMMA NewDirsBeside ==
    ASSUME UNCHANGED <<disk, sidecars, job, files, opened>>,
           \A s, t, pend, gone : CacheTrue(disk, dirs, s, t, pend, gone) /\ Settled(disk, s, t, gone)
                => CacheTrue(disk, dirs', s, t, pend, gone)
    PROVE  Bystander
BY DEF Bystander, Sound, NotOpen, Bare

LEMMA CloseBeside ==
    ASSUME NEW o, CloseFile(o)
    PROVE  Bystander /\ held' = held
<1>1. /\ UNCHANGED <<disk, sidecars, dirs, job, held>>
      /\ opened' = Without(opened, {o})
      /\ files' = Without(files, {p \in DOMAIN files : files[p] = o})
  BY DEF CloseFile
<1>2. ASSUME NEW s, NEW t, NEW pend, NEW gone, NEW drop, NEW a, NEW b,
             Sound(s, t, pend, gone, drop, a, b)
      PROVE  Sound(s, t, pend, gone, drop, a, b)'
  <2>1. FilesTrue(disk, files', opened', drop, a, b)
    BY <1>1, <1>2, FilesClosed DEF Sound
  <2> QED BY <1>1, <1>2, <2>1 DEF Sound
<1>3. \A n : NotOpen(opened, n) => NotOpen(opened', n)
  BY <1>1 DEF NotOpen, Without
<1>4. \A t : Bare(files, t) => Bare(files', t)
  BY <1>1 DEF Bare, Without
<1> QED BY <1>1, <1>2, <1>3, <1>4 DEF Bystander

-------------------------------------------------------------------------------
(* The other actions keep the invariant, and it holds in the beginning.    *)

\* Opened again, a vault has nothing in its caches.
LEMMA OpenedAgain ==
    ASSUME NEW d, IsVault(d)
    PROVE  /\ CacheTrue(d, NewDirs, <<>>, <<>>, {}, {}) /\ Settled(d, <<>>, <<>>, {})
           /\ FilesTrue(d, <<>>, <<>>, {}, <<>>, <<>>)
<1>1. <<>> \in StoredPaths /\ NodeIn(d, <<>>) = Root /\ Root \in Folders
  BY EmptySeq, NodeFacts, TreeAssumption DEF StoredPaths
<1> DEFINE new == [iv |-> Root, index |-> NoIndex]
<1>2. new \in Dirs /\ new.iv = Root /\ ~new.index.built
  BY <1>1 DEF Dirs, NoIndex
<1>3. NewDirs = [path \in {<<>>} |-> new]
  BY DEF NewDirs
<1> HIDE DEF new
<1>4. DOMAIN NewDirs = {<<>>} /\ NewDirs \in [{<<>>} -> Dirs] /\ NewDirs[<<>>] = new
  BY <1>2, <1>3
<1>5. DirTrue(d, new, <<>>, <<>>, {})
  BY <1>1, <1>2 DEF DirTrue
<1>6. CacheTrue(d, NewDirs, <<>>, <<>>, {}, {})
  BY <1>1, <1>4, <1>5, CacheSettled
<1>7. DOMAIN <<>> = {}
  OBVIOUS
<1>8. IsFiniteSet({})
  BY FS_EmptySet
<1>9. FilesTrue(d, <<>>, <<>>, {}, <<>>, <<>>)
  BY <1>7, <1>8 DEF FilesTrue
<1> QED BY <1>6, <1>9, SettledIdle

LEMMA InitHolds == Init => IInv
<1> SUFFICES ASSUME Init PROVE IInv
  OBVIOUS
<1>1. IsVault(disk)
  BY DisksAssumption DEF Init
<1>2. SidecarsTrue(disk, sidecars)
  BY DEF Init, SidecarsTrue
<1>3. Quiet
  BY <1>1, OpenedAgain DEF Init, Quiet, Sound
<1>4. HeldTrue
  BY DEF Init, HeldTrue, Nothing
<1> QED BY <1>1, <1>2, <1>3, <1>4 DEF IInv, Steady, Working

LEMMA RestartHolds ==
    ASSUME IInv, Restart PROVE IInv'
<1>1. /\ dirs' = NewDirs /\ files' = <<>> /\ opened' = <<>> /\ job' = Idle
      /\ held' = [t \in Threads |-> Nothing] /\ UNCHANGED <<disk, sidecars>>
  BY DEF Restart
<1>2. IsVault(disk) /\ SidecarsTrue(disk, sidecars)
  BY DEF IInv, Steady
<1>3. Quiet'
  BY <1>1, <1>2, OpenedAgain DEF Quiet, Sound
<1>4. HeldTrue'
  BY <1>1 DEF HeldTrue, Nothing
<1> QED BY <1>1, <1>2, <1>3, <1>4 DEF IInv, Steady, Working

LEMMA HeldStill ==
    ASSUME HeldTrue, UNCHANGED <<disk, held>> PROVE HeldTrue'
BY DEF HeldTrue

\* A thread takes or gives back what it holds.
LEMMA HeldChanged ==
    ASSUME HeldTrue, NEW t \in Threads, NEW new, held' = [held EXCEPT ![t] = new],
           UNCHANGED disk,
           new.kind \in {"item", "iv", "dir"} => new.path \in StoredPaths,
           new.kind = "iv" => new.iv \in Folders /\ new.iv = NodeIn(disk, new.path),
           new.kind = "dir" /\ NodeIn(disk, new.path) \in Folders => NodeIn(disk, new.path) = new.iv
    PROVE  HeldTrue'
<1>1. held = [u \in Threads |-> held[u]]
  BY DEF HeldTrue
<1>2. /\ held' = [u \in Threads |-> held'[u]] /\ held'[t] = new
      /\ \A u \in Threads : u # t => held'[u] = held[u]
  BY <1>1
<1> QED BY <1>2 DEF HeldTrue

LEMMA ContinueHolds ==
    ASSUME IInv, Calm, Continue PROVE IInv'
<1>1. Steady' /\ Working'
  BY WorkContinues DEF IInv, Calm
<1>2. HeldTrue /\ held' = held /\ HeldKept
  BY WorkKeepsHeld DEF IInv, Continue
<1>3. HeldTrue'
  BY <1>2 DEF HeldTrue, HeldKept
<1> QED BY <1>1, <1>3 DEF IInv

\* A call starts while no change is under way.
LEMMA MayStartFacts ==
    ASSUME IInv, NEW kind, MayStart(kind)
    PROVE  /\ Steady /\ Quiet /\ HeldTrue
           /\ CacheTrue(disk, dirs, <<>>, <<>>, {}, {})
BY IdleIsQuiet DEF IInv, MayStart, Quiet, Sound

LEMMA CallHolds ==
    ASSUME HeldTrue, UNCHANGED <<disk, held>>, Steady', Working'
    PROVE  IInv'
BY HeldStill DEF IInv

LEMMA PartsFacts ==
    ASSUME NEW parts \in Paths
    PROVE  parts \in Seq(Names) /\ parts # <<>> /\ parts[Len(parts)] \in Names
<1>1. parts \in Seq(Names) /\ parts # <<>>
  BY TreeAssumption
<1>2. Len(parts) \in 1..Len(parts)
  BY <1>1, LenProperties, EmptySeq
<1> QED BY <1>1, <1>2, ElementOfSeq

LEMMA CreateHolds ==
    ASSUME IInv, Calm, NEW parts \in Paths, CreateFile(parts) \/ CreateDir(parts)
    PROVE  IInv'
<1> DEFINE name == parts[Len(parts)]
<1>1. MayStart("createFile") \/ MayStart("createDir")
  BY DEF CreateFile, CreateDir
<1>2. /\ Steady /\ Quiet /\ HeldTrue
      /\ CacheTrue(disk, dirs, <<>>, <<>>, {}, {})
  BY <1>1, MayStartFacts
<1>3. name \in Names /\ parts \in Seq(Names) /\ parts # <<>>
  BY PartsFacts
<1>4. PICK p : p = Parent(dirs, parts)
  OBVIOUS
<1>5. FoundTrue(p, name)
  BY <1>2, <1>3, <1>4, ParentTrue DEF Steady
<1>6. \/ Creates(p, name, Files, "remember", FALSE)
      \/ Creates(p, name, Folders, "keepDir", TRUE)
  BY <1>4 DEF CreateFile, CreateDir
<1>7. UNCHANGED <<disk, held>>
  BY <1>6 DEF Creates, Starts
<1> HIDE DEF name
<1>8. Steady' /\ Working'
  BY <1>2, <1>3, <1>5, <1>6, CreateStarts
<1> QED BY <1>2, <1>7, <1>8, CallHolds

LEMMA RemoveHolds ==
    ASSUME IInv, Calm, NEW parts \in Paths, Remove(parts)
    PROVE  IInv'
<1> DEFINE name == parts[Len(parts)]
<1>1. MayStart("remove")
  BY DEF Remove
<1>2. /\ Steady /\ Quiet /\ HeldTrue
      /\ CacheTrue(disk, dirs, <<>>, <<>>, {}, {})
  BY <1>1, MayStartFacts
<1>3. name \in Names /\ parts \in Seq(Names) /\ parts # <<>>
  BY PartsFacts
<1>4. PICK p : p = Parent(dirs, parts)
  OBVIOUS
<1>5. FoundTrue(p, name)
  BY <1>2, <1>3, <1>4, ParentTrue DEF Steady
<1>6. \/ p.found = {} /\ Starts(p.cache, <<>>)
      \/ \E e \in p.found : RemovesAt(p, e, StoredPath(p.cache, p.path, e.name))
  BY <1>4 DEF Remove
<1> HIDE DEF name
<1>7. CASE Starts(p.cache, <<>>)
  <2>1. CacheTrue(disk, p.cache, <<>>, <<>>, {}, {})
    BY <1>5 DEF FoundTrue
  <2>2. UNCHANGED <<disk, held>>
    BY <1>7 DEF Starts
  <2> QED BY <1>2, <1>7, <2>1, <2>2, StartNothing, CallHolds
<1>8. ASSUME NEW e \in p.found, RemovesAt(p, e, StoredPath(p.cache, p.path, e.name))
      PROVE  IInv'
  <2>1. UNCHANGED <<disk, held>>
    BY <1>8 DEF RemovesAt, Removes, Starts
  <2>2. Steady' /\ Working'
    BY <1>2, <1>3, <1>5, <1>8, RemoveStarts
  <2> QED BY <1>2, <2>1, <2>2, CallHolds
<1> QED BY <1>6, <1>7, <1>8

LEMMA RenameHolds ==
    ASSUME IInv, Calm, NEW from \in Paths, NEW to \in Paths, NEW replace, Rename(from, to, replace)
    PROVE  IInv'
<1> DEFINE any == from[Len(from)]
           name == to[Len(to)]
<1>1. MayStart("rename")
  BY DEF Rename
<1>2. /\ Steady /\ Quiet /\ HeldTrue
      /\ CacheTrue(disk, dirs, <<>>, <<>>, {}, {})
  BY <1>1, MayStartFacts
<1>3. name \in Names /\ from \in Seq(Names) /\ from # <<>> /\ to \in Seq(Names) /\ to # <<>>
  BY PartsFacts
<1>4. PICK f : f = Parent(dirs, from)
  OBVIOUS
<1>5. FoundTrue(f, any)
  BY <1>2, <1>3, <1>4, ParentTrue DEF Steady
<1>6. CacheTrue(disk, f.cache, <<>>, <<>>, {}, {})
  BY <1>5 DEF FoundTrue
<1>7. PICK p : p = Parent(f.cache, to)
  OBVIOUS
<1>8. FoundTrue(p, name)
  BY <1>2, <1>3, <1>6, <1>7, ParentTrue DEF Steady
<1>9. \/ f.found = {} /\ Starts(f.cache, <<>>)
      \/ \E source \in f.found :
            Renames(f, source, StoredPath(f.cache, f.path, source.name),
                    p, to[Len(to)], StoredPath(p.cache, p.path, to[Len(to)]), replace)
  BY <1>4, <1>7 DEF Rename
<1>10. CASE Starts(f.cache, <<>>)
  <2>1. UNCHANGED <<disk, held>>
    BY <1>10 DEF Starts
  <2> QED BY <1>2, <1>6, <1>10, <2>1, StartNothing, CallHolds
<1>11. ASSUME NEW source \in f.found,
              Renames(f, source, StoredPath(f.cache, f.path, source.name),
                      p, name, StoredPath(p.cache, p.path, name), replace)
       PROVE  IInv'
  <2> HIDE DEF any, name
  <2>1. UNCHANGED <<disk, held>>
    BY <1>11 DEF Renames, Starts
  <2>2. Steady' /\ Working'
    BY <1>2, <1>3, <1>5, <1>8, <1>11, RenameStarts
  <2> QED BY <1>2, <2>1, <2>2, CallHolds
<1> QED BY <1>9, <1>10, <1>11

-------------------------------------------------------------------------------
(* Threads that read, at whatever step a change is.                        *)

\* Whatever a change is at, the remembered folders are true but for what it
\* names.
LEMMA WorkingDirs ==
    ASSUME Working
    PROVE  \E a, b, pend, gone : CacheTrue(disk, dirs, a, b, pend, gone) /\ Settled(disk, a, b, gone)
BY DEF Working, Quiet, OneStage, ClearStage, MoveStage, Sound

LEMMA BystanderHolds ==
    ASSUME IInv, Bystander, HeldTrue' PROVE IInv'
<1>1. Steady' /\ Working'
  BY Beside DEF IInv
<1> QED BY <1>1 DEF IInv

LEMMA ReaderBeside ==
    ASSUME UNCHANGED <<disk, sidecars, dirs, files, opened, job>> PROVE Bystander
BY DEF Bystander, Sound, NotOpen, Bare

\* Where a way leads to is a stored path.
LEMMA WayFacts ==
    ASSUME IInv, NEW parts \in Paths
    PROVE  Way(parts).path \in StoredPaths
<1>1. IsVault(disk) /\ SidecarsTrue(disk, sidecars) /\ parts \in Seq(Names)
  BY PartsFacts DEF IInv, Steady
<1>2. PICK a, b, pend, gone : CacheTrue(disk, dirs, a, b, pend, gone) /\ Settled(disk, a, b, gone)
  BY WorkingDirs DEF IInv
<1> QED BY <1>1, <1>2, AlongTrue DEF Way

LEMMA LookupFileHolds ==
    ASSUME IInv, NEW t \in Threads, NEW parts \in Paths, LookupFile(t, parts)
    PROVE  IInv'
<1>1. PICK path : path = Way(parts).path
  OBVIOUS
<1> DEFINE new == [kind |-> "item", path |-> path, iv |-> None]
<1>2. /\ held' = [held EXCEPT ![t] = new]
      /\ UNCHANGED <<disk, sidecars, dirs, files, opened, job>>
  BY <1>1 DEF LookupFile, Takes
<1>3. new.kind = "item" /\ new.path \in StoredPaths
  BY <1>1, WayFacts
<1> HIDE DEF new
<1>4. HeldTrue'
  BY <1>2, <1>3, HeldChanged DEF IInv
<1> QED BY <1>2, <1>4, ReaderBeside, BystanderHolds

LEMMA ReadIvHolds ==
    ASSUME IInv, NEW t \in Threads, NEW parts \in Paths, ReadIv(t, parts)
    PROVE  IInv'
<1>1. PICK path : path = Way(parts).path
  OBVIOUS
<1> DEFINE new == [kind |-> "iv", path |-> path, iv |-> NodeAt(path)]
<1>2. /\ held' = [held EXCEPT ![t] = new] /\ NodeAt(path) \in Folders
      /\ UNCHANGED <<disk, sidecars, dirs, files, opened, job>>
  BY <1>1 DEF ReadIv, Takes
<1>3. path \in StoredPaths
  BY <1>1, WayFacts
<1>4. /\ new.kind = "iv" /\ new.path \in StoredPaths /\ new.iv \in Folders
      /\ new.iv = NodeIn(disk, new.path)
  BY <1>2, <1>3, NodeAtIsNodeIn
<1> HIDE DEF new
<1>5. HeldTrue'
  BY <1>2, <1>4, HeldChanged DEF IInv
<1> QED BY <1>2, <1>5, ReaderBeside, BystanderHolds

\* What is remembered for the folder at a path is that folder's.
LEMMA TakeDirHolds ==
    ASSUME IInv, NEW t \in Threads, NEW path \in DOMAIN dirs, TakeDir(t, path)
    PROVE  IInv'
<1> DEFINE new == [kind |-> "dir", path |-> path, iv |-> dirs[path].iv]
<1>1. /\ held' = [held EXCEPT ![t] = new]
      /\ UNCHANGED <<disk, sidecars, dirs, files, opened, job>>
  BY DEF TakeDir, Takes
<1>2. PICK a, b, pend, gone : CacheTrue(disk, dirs, a, b, pend, gone) /\ Settled(disk, a, b, gone)
  BY WorkingDirs DEF IInv
<1>3. path \in StoredPaths
  BY <1>2 DEF CacheTrue
<1>4. NodeIn(disk, path) \in Folders => NodeIn(disk, path) = dirs[path].iv
  <2> SUFFICES ASSUME NodeIn(disk, path) \in Folders PROVE NodeIn(disk, path) = dirs[path].iv
    OBVIOUS
  <2>1. path \notin gone /\ Rebase(path, a, b) = path
    BY <1>2, <1>3, TreeAssumption DEF Settled
  <2> QED BY <1>2, <2>1 DEF CacheTrue, DirTrue
<1>5. /\ new.kind = "dir" /\ new.path = path /\ new.iv = dirs[path].iv
  OBVIOUS
<1> HIDE DEF new
<1>6. HeldTrue'
  BY <1>1, <1>3, <1>4, <1>5, HeldChanged DEF IInv
<1> QED BY <1>1, <1>6, ReaderBeside, BystanderHolds

LEMMA LetGoHeld ==
    ASSUME HeldTrue, NEW t \in Threads, LetsGo(t), UNCHANGED disk
    PROVE  HeldTrue'
<1>1. Nothing.kind \notin {"item", "iv", "dir"} /\ held' = [held EXCEPT ![t] = Nothing]
  BY DEF Nothing, LetsGo
<1> HIDE DEF Nothing
<1> QED BY <1>1, HeldChanged

\* An index filled with what the folder itself holds is true, wherever the
\* folder is on its way to.
LEMMA FilledTrue ==
    ASSUME IsVault(disk), SidecarsTrue(disk, sidecars), NEW c, NEW s, NEW t, NEW pend, NEW gone,
           CacheTrue(disk, c, s, t, pend, gone), NEW path, NEW iv, NodeAt(path) = iv
    PROVE  CacheTrue(disk, Filled(c, path, iv), s, t, pend, gone)
<1> DEFINE e == Filled(c, path, iv)
           new(p) == [c[p] EXCEPT !.index = Index(Entries(NodeAt(path), iv))]
<1>1. Entries(NodeAt(path), iv) = Kids(disk, iv) /\ Kids(disk, iv) \subseteq AllEntries
  BY EntriesAreKids, KidsFacts
<1>2. DOMAIN c \subseteq StoredPaths /\ c \in [DOMAIN c -> Dirs]
      /\ \A p \in DOMAIN c \ gone : DirTrue(disk, c[p], p, Rebase(p, s, t), pend)
  BY DEF CacheTrue
<1>3. ASSUME NEW p \in DOMAIN c
      PROVE  /\ new(p) \in Dirs /\ new(p).iv = c[p].iv
             /\ new(p).index.built /\ new(p).index.entries = Kids(disk, iv)
  BY <1>1, <1>2 DEF Dirs, Index
<1>4. /\ DOMAIN e = DOMAIN c /\ e = [p \in DOMAIN c |-> e[p]]
      /\ \A p \in DOMAIN c : e[p] = c[p] \/ (c[p].iv = iv /\ e[p] = new(p))
  <2> HIDE DEF new
  <2>1. e = [p \in DOMAIN c |-> IF c[p].iv # iv \/ c[p].index.built THEN c[p] ELSE new(p)]
    BY DEF Filled, new
  <2> HIDE DEF e
  <2> QED BY <2>1
<1> HIDE DEF e, new
<1>5. ASSUME NEW p \in DOMAIN c
      PROVE  e[p] \in Dirs /\ (p \notin gone => DirTrue(disk, e[p], p, Rebase(p, s, t), pend))
  <2>1. CASE e[p] = c[p]
    BY <1>2, <2>1
  <2>2. CASE c[p].iv = iv /\ e[p] = new(p)
    BY <1>2, <1>3, <2>2 DEF DirTrue
  <2> QED BY <1>4, <2>1, <2>2
<1>6. DOMAIN e \subseteq StoredPaths /\ e \in [DOMAIN e -> Dirs]
  BY <1>2, <1>4, <1>5
<1>7. \A p \in DOMAIN e \ gone : DirTrue(disk, e[p], p, Rebase(p, s, t), pend)
  BY <1>4, <1>5
<1> QED BY <1>6, <1>7 DEF CacheTrue, e

\* What was taken for the folder at a path is filled with what that folder holds.
LEMMA UseDirHolds ==
    ASSUME IInv, NEW t \in Threads, UseDir(t) PROVE IInv'
<1> DEFINE path == held[t].path
           iv == held[t].iv
<1>1. /\ held[t].kind = "dir" /\ LetsGo(t)
      /\ UNCHANGED <<disk, sidecars, files, opened, job>>
      /\ \/ UNCHANGED dirs
         \/ NodeAt(path) \in Folders /\ dirs' = Filled(dirs, path, iv)
  BY DEF UseDir
<1>2. HeldTrue /\ IsVault(disk) /\ SidecarsTrue(disk, sidecars)
  BY DEF IInv, Steady
<1>3. HeldTrue'
  BY <1>1, <1>2, LetGoHeld
<1>4. CASE UNCHANGED dirs
  BY <1>1, <1>3, <1>4, ReaderBeside, BystanderHolds
<1>5. CASE NodeAt(path) \in Folders /\ dirs' = Filled(dirs, path, iv)
  <2>1. NodeAt(path) = iv
    BY <1>1, <1>2, <1>5, NodeAtIsNodeIn DEF HeldTrue
  <2> HIDE DEF path, iv
  <2>2. \A a, b, pend, gone : CacheTrue(disk, dirs, a, b, pend, gone)
           => CacheTrue(disk, dirs', a, b, pend, gone)
    BY <1>2, <1>5, <2>1, FilledTrue
  <2>3. Bystander
    BY <1>1, <2>2, NewDirsBeside
  <2> QED BY <1>3, <2>3, BystanderHolds
<1> QED BY <1>1, <1>4, <1>5

\* The IV kept is the one the folder has.
LEMMA KeepIvHolds ==
    ASSUME IInv, NEW t \in Threads, KeepIv(t) PROVE IInv'
<1>1. /\ held[t].kind = "iv" /\ LetsGo(t)
      /\ dirs' = IF held[t].path \in DOMAIN dirs THEN dirs
                 ELSE With(dirs, held[t].path, [iv |-> held[t].iv, index |-> NoIndex])
      /\ UNCHANGED <<disk, sidecars, files, opened, job>>
  BY DEF KeepIv
<1>2. HeldTrue /\ IsVault(disk)
  BY DEF IInv, Steady
<1>3. /\ held[t].path \in StoredPaths /\ held[t].iv \in Folders
      /\ held[t].iv = NodeAt(held[t].path)
  BY <1>1, <1>2, NodeAtIsNodeIn DEF HeldTrue
<1>4. dirs' = DirAt(dirs, held[t].path)
  BY <1>1, <1>3 DEF DirAt
<1>5. ASSUME NEW a, NEW b, NEW pend, NEW gone,
             CacheTrue(disk, dirs, a, b, pend, gone), Settled(disk, a, b, gone)
      PROVE  CacheTrue(disk, dirs', a, b, pend, gone)
  BY <1>2, <1>3, <1>4, <1>5, DirAtTrue
<1>6. Bystander
  BY <1>1, <1>5, NewDirsBeside
<1>7. HeldTrue'
  BY <1>1, <1>2, LetGoHeld
<1> QED BY <1>6, <1>7, BystanderHolds

\* A file that is not remembered is not open either.
LEMMA OpenFileHolds ==
    ASSUME IInv, Calm, NEW t \in Threads, OpenFile(t) PROVE IInv'
<1> DEFINE path == held[t].path
           n == NodeAt(path)
<1>1. /\ held[t].kind = "item" /\ job = Idle /\ LetsGo(t)
      /\ UNCHANGED <<disk, sidecars, dirs, job>>
      /\ \/ UNCHANGED <<files, opened>>
         \/ path \notin DOMAIN files /\ n \in Files /\ Remember(n, path)
  BY DEF OpenFile, MayOpen, Calm, Remembered
<1>2. HeldTrue /\ Steady /\ Quiet
  BY <1>1, IdleIsQuiet DEF IInv
<1>3. HeldTrue'
  BY <1>1, <1>2, LetGoHeld
<1>4. path \in StoredPaths /\ n = NodeIn(disk, path)
  BY <1>1, <1>2, NodeAtIsNodeIn DEF HeldTrue
<1>5. /\ FilesTrue(disk, files, opened, {}, <<>>, <<>>) /\ IsVault(disk)
      /\ CacheTrue(disk, dirs, <<>>, <<>>, {}, {}) /\ Settled(disk, <<>>, <<>>, {})
  BY <1>2 DEF Quiet, Sound, Steady
<1>6. FilesTrue(disk, files', opened', {}, <<>>, <<>>)
  <2>1. CASE UNCHANGED <<files, opened>>
    BY <1>5, <2>1
  <2>2. CASE path \notin DOMAIN files /\ n \in Files /\ Remember(n, path)
    <3>1. PICK q \in StoredPaths : q = path
      BY <1>4
    <3>2. PICK m \in Files : m = n
      BY <2>2
    <3> HIDE DEF path, n
    <3>3. NodeIn(disk, q) = m /\ m \in DOMAIN disk /\ m # None
      <4>1. NodeIn(disk, q) = m
        BY <1>4, <3>1, <3>2
      <4>2. m \in DOMAIN disk \cup {Root, None}
        BY <1>5, <4>1, NodeFacts
      <4> QED BY <4>1, <4>2, TreeAssumption
    <3>4. \A k \in DOMAIN opened : opened[k].node # m
      <4> SUFFICES ASSUME NEW k \in DOMAIN opened, opened[k].node = m PROVE FALSE
        OBVIOUS
      <4>1. /\ NodeIn(disk, opened[k].path) = m /\ opened[k].path \in DOMAIN files
            /\ DOMAIN files \subseteq StoredPaths
        BY <1>5, <3>3, FilesSettled
      <4>2. opened[k].path = q
        BY <1>5, <3>3, <4>1, OnePath
      <4> QED BY <2>2, <3>1, <4>1, <4>2
    <3>5. NewFile \notin DOMAIN opened
      BY <1>5, NewFileFacts DEF FilesTrue
    <3>6. files' = With(files, q, NewFile) /\ opened' = With(opened, NewFile, [node |-> m, path |-> q])
      BY <2>2, <3>1, <3>2 DEF Remember
    <3> HIDE DEF NewFile
    <3>7. PICK o : o = NewFile
      OBVIOUS
    <3>8. FilesTrue(disk, With(files, q, o), With(opened, o, [node |-> m, path |-> q]), {}, <<>>, <<>>)
      BY <1>5, <3>3, <3>4, <3>5, <3>7, FilesRemembered
    <3> QED BY <1>1, <3>6, <3>7, <3>8
  <2> QED BY <1>1, <2>1, <2>2
<1>7. Quiet'
  BY <1>1, <1>5, <1>6 DEF Quiet, Sound
<1> QED BY <1>1, <1>2, <1>3, <1>7 DEF IInv, Steady, Working

-------------------------------------------------------------------------------
(* The invariant holds, and what it says.                                  *)

LEMMA StillHolds ==
    ASSUME IInv, Bystander, UNCHANGED held PROVE IInv'
<1>1. HeldTrue'
  BY HeldStill DEF IInv, Bystander
<1> QED BY <1>1, BystanderHolds

LEMMA StutterBeside ==
    ASSUME UNCHANGED vars PROVE Bystander /\ UNCHANGED held
BY DEF vars, Bystander, Sound, NotOpen, Bare

\* Every step keeps the invariant.
LEMMA NextHolds ==
    ASSUME IInv, Calm, [Next]_vars PROVE IInv'
<1>1. ASSUME NEW parts \in Paths, CreateFile(parts) \/ CreateDir(parts) PROVE IInv'
  BY <1>1, CreateHolds
<1>2. ASSUME NEW parts \in Paths, Remove(parts) PROVE IInv'
  BY <1>2, RemoveHolds
<1>3. ASSUME NEW parts \in Paths, NEW to \in Paths, NEW replace \in BOOLEAN,
             Rename(parts, to, replace)
      PROVE  IInv'
  BY <1>3, RenameHolds
<1>4. ASSUME NEW t \in Threads, NEW path \in DOMAIN dirs, TakeDir(t, path) PROVE IInv'
  BY <1>4, TakeDirHolds
<1>5. ASSUME NEW parts \in Paths, NEW t \in Threads, LookupFile(t, parts) PROVE IInv'
  BY <1>5, LookupFileHolds
<1>6. ASSUME NEW parts \in Paths, NEW t \in Threads, ReadIv(t, parts) PROVE IInv'
  BY <1>6, ReadIvHolds
<1>7. ASSUME NEW t \in Threads, OpenFile(t) \/ UseDir(t) PROVE IInv'
  BY <1>7, OpenFileHolds, UseDirHolds
<1>8. ASSUME NEW t \in Threads, KeepIv(t) PROVE IInv'
  BY <1>8, KeepIvHolds
<1>9. CASE Continue
  BY <1>9, ContinueHolds
<1>10. ASSUME NEW o \in DOMAIN opened, CloseFile(o) PROVE IInv'
  BY <1>10, CloseBeside, StillHolds
<1>11. CASE Restart
  BY <1>11, RestartHolds
<1>12. CASE UNCHANGED vars
  BY <1>12, StutterBeside, StillHolds
<1> QED
  BY <1>1, <1>2, <1>3, <1>4, <1>5, <1>6, <1>7, <1>8, <1>9, <1>10, <1>11, <1>12 DEF Next

\* The inductive invariant, whatever the names, folders, files, threads,
\* faults and changes are.
THEOREM TreeInvariant ==
    ASSUME Calm PROVE Spec => []IInv
<1>1. Init => IInv
  BY InitHolds
<1>2. IInv /\ [Next]_vars => IInv'
  BY NextHolds
<1> QED BY <1>1, <1>2, PTL DEF Spec

\* Whatever a change is at, the open files are true but for what it names.
LEMMA WorkingFiles ==
    ASSUME Working PROVE \E drop, a, b : FilesTrue(disk, files, opened, drop, a, b)
BY DEF Working, Quiet, OneStage, ClearStage, MoveStage, Sound

\* "All handles to the same file must share one instance" (content.rs:167):
\* where no file is looked up or opened during a change (Calm), no file is open
\* in two ContentFiles, at any step of any change, after any crash.
THEOREM FileIsOne ==
    ASSUME Calm PROVE Spec => []OneFile
<1>1. IInv => OneFile
  BY WorkingFiles DEF IInv, FilesTrue, OneFile
<1>2. Spec => []IInv
  BY TreeInvariant
<1> QED BY <1>1, <1>2, PTL

\* Between changes the caches are what the disk says (vault.rs:8, 138, 445):
\* IVs, indexes and remembered files survive every create, remove, rename and
\* replacement, refused removals and crashes, while other threads read
\* folders.  Calm keeps a change from moving or making a folder where a thread
\* is between two steps of reading one: there it is false (run tree_gap).
THEOREM CachesStayTrue ==
    ASSUME Calm PROVE Spec => []CachesTrue
<1>1. ASSUME IInv, job = Idle PROVE CachesTrue
  <2>1. /\ IsVault(disk) /\ SidecarsTrue(disk, sidecars)
        /\ CacheTrue(disk, dirs, <<>>, <<>>, {}, {})
        /\ FilesTrue(disk, files, opened, {}, <<>>, <<>>)
    BY <1>1, IdleIsQuiet DEF IInv, Steady, Quiet, Sound
  <2>2. ASSUME NEW p \in DOMAIN dirs, NodeAt(p) \in Folders
        PROVE  /\ dirs[p].iv = NodeAt(p)
               /\ dirs[p].index.built => dirs[p].index.entries = Entries(NodeAt(p), dirs[p].iv)
    <3>1. DirTrue(disk, dirs[p], p, p, {})
      BY <2>1, CacheSettled
    <3>2. dirs[p].iv = NodeAt(p)
      BY <3>1, NodeAtIsNodeIn DEF DirTrue
    <3>3. Entries(NodeAt(p), dirs[p].iv) = Kids(disk, dirs[p].iv)
      BY <2>1, <3>2, EntriesAreKids
    <3>4. dirs[p].index.built => dirs[p].index.entries = Kids(disk, dirs[p].iv)
      BY <3>1 DEF DirTrue
    <3> QED BY <3>2, <3>3, <3>4
  <2>3. ASSUME NEW p \in DOMAIN files PROVE opened[files[p]].node = NodeAt(p)
    BY <2>1, FilesSettled, NodeAtIsNodeIn
  <2> QED BY <2>2, <2>3 DEF CachesTrue
<1>2. IInv => CachesTrue
  BY <1>1 DEF CachesTrue
<1>3. Spec => []IInv
  BY TreeInvariant
<1> QED BY <1>2, <1>3, PTL

\* Between changes an open file that is still there knows its stored path
\* (ContentFile::path), after every rename of it and of the folders around it.
THEOREM PathStaysTrue ==
    ASSUME Calm PROVE Spec => []PathTrue
<1>1. ASSUME IInv, job = Idle PROVE PathTrue
  <2>1. FilesTrue(disk, files, opened, {}, <<>>, <<>>)
    BY <1>1, IdleIsQuiet DEF IInv, Quiet, Sound
  <2> QED BY <2>1, FilesSettled, NodeAtIsNodeIn DEF PathTrue
<1>2. IInv => PathTrue
  BY <1>1 DEF PathTrue
<1>3. Spec => []IInv
  BY TreeInvariant
<1> QED BY <1>2, <1>3, PTL

-------------------------------------------------------------------------------
(* What the drive shows is a tree of names, and every step of the vault is *)
(* one of the tree or none.                                                *)

\* The tree of names on a disk all of which can be read.
Shown(d) == [n \in DOMAIN d |-> [in |-> d[n].in, name |-> d[n].name]]

LEMMA ShownFacts ==
    ASSUME NEW d
    PROVE  /\ DOMAIN Shown(d) = DOMAIN d
           /\ \A n \in DOMAIN d : Shown(d)[n].in = d[n].in /\ Shown(d)[n].name = d[n].name
BY DEF Shown

LEMMA AllIsVisible ==
    /\ Steady => Visible = Shown(disk)
    /\ Steady' => Visible' = Shown(disk')
<1>1. ASSUME Steady PROVE Visible = Shown(disk)
  <2>1. \A n \in DOMAIN disk : Readable(n, disk[n].in) /\ disk[n].in \in DOMAIN disk \cup {Root}
    BY <1>1 DEF Steady, SidecarsTrue, Readable, IsVault
  <2>2. {n \in DOMAIN disk : Readable(n, disk[n].in)} = DOMAIN disk
    BY <2>1
  <2> QED BY <2>1, <2>2 DEF Visible, Shown
<1>2. ASSUME Steady' PROVE Visible' = Shown(disk')
  <2>1. \A n \in DOMAIN disk' : Readable(n, disk[n].in)' /\ disk'[n].in \in DOMAIN disk' \cup {Root}
    BY <1>2 DEF Steady, SidecarsTrue, Readable, IsVault
  <2>2. {n \in DOMAIN disk' : Readable(n, disk[n].in)'} = DOMAIN disk'
    BY <2>1
  <2> QED BY <2>1, <2>2 DEF Visible, Shown
<1> QED BY <1>1, <1>2

LEMMA PrefixChain ==
    ASSUME NEW p \in StoredPaths, NEW q \in StoredPaths, NEW u \in StoredPaths,
           StartsWith(p, q), StartsWith(q, u)
    PROVE  StartsWith(p, u)
<1>1. PICK r \in StoredPaths : p = q \o r
  BY PrefixIsConcat
<1>2. PICK w \in StoredPaths : q = u \o w
  BY PrefixIsConcat
<1>3. (u \o w) \o r = u \o (w \o r)
  BY ConcatAssociative DEF StoredPaths
<1>4. w \o r \in StoredPaths
  BY ConcatFacts
<1>5. StartsWith(u \o (w \o r), u)
  BY <1>4, PrefixIsConcat
<1> QED BY <1>1, <1>2, <1>3, <1>5

\* A folder whose path does not lead through s is apart from what is at s.
LEMMA IsApart ==
    ASSUME Steady, NEW s \in StoredPaths, NEW p \in StoredPaths, NEW n \in DOMAIN disk,
           NodeIn(disk, s) = n, NodeIn(disk, p) \in Folders, ~StartsWith(p, s)
    PROVE  Drive!Apart(n, NodeIn(disk, p))
<1> DEFINE above == {NodeIn(disk, q) : q \in {u \in StoredPaths : StartsWith(p, u)}}
<1>1. IsVault(disk) /\ Visible = Shown(disk)
  BY AllIsVisible DEF Steady
<1>2. NodeIn(disk, p) # None /\ n # None /\ Root \notin DOMAIN disk
  BY <1>1, TreeAssumption, VaultFacts
<1>3. NodeIn(disk, p) \in above
  BY PrefixSelf
<1>4. ASSUME NEW q \in StoredPaths, StartsWith(p, q)
      PROVE  /\ NodeIn(disk, q) \in DOMAIN disk \cup {Root} /\ NodeIn(disk, q) # n
             /\ NodeIn(disk, q) # Root
                   => disk[NodeIn(disk, q)].in \in above
  <2>1. NodeIn(disk, q) # None
    BY <1>1, <1>2, <1>4, NothingBelowNothing
  <2>2. NodeIn(disk, q) \in DOMAIN disk \cup {Root}
    BY <1>1, <2>1, NodeFacts
  <2>3. NodeIn(disk, q) # n
    BY <1>1, <1>2, <1>4, OnePath
  <2>4. ASSUME NodeIn(disk, q) # Root PROVE disk[NodeIn(disk, q)].in \in above
    <3>1. q # <<>>
      BY <1>1, <2>4, NodeFacts
    <3>2. PICK u \in StoredPaths, x \in StoredNames : q = Append(u, x)
      BY <3>1, LastOfPath
    <3>3. StartsWith(q, u)
      BY <3>2, PrefixSelf, PrefixAppend
    <3>4. StartsWith(p, u)
      BY <1>4, <3>3, PrefixChain
    <3>5. disk[NodeIn(disk, q)].in = NodeIn(disk, u)
      BY <1>1, <2>2, <2>4, <3>2, NodeFacts
    <3> QED BY <3>4, <3>5
  <2> QED BY <2>2, <2>3, <2>4
<1>5. /\ above \in SUBSET (DOMAIN disk \cup {Root}) /\ n \notin above
      /\ \A m \in above \ {Root} : disk[m].in \in above
  BY <1>4
<1> HIDE DEF above
<1>6. \A m \in above \ {Root} : Visible[m].in \in above
  BY <1>1, <1>5, ShownFacts
<1>7. Drive!There = DOMAIN disk \cup {Root}
  BY <1>1, ShownFacts DEF Drive!There
<1> QED BY <1>3, <1>5, <1>6, <1>7 DEF Drive!Apart

\* The tree u is t with n at another or a new place, without what is "gone".
Placed(t, u, n, folder, name, gone) ==
    u = [m \in (DOMAIN t \ gone) \cup {n} |->
            IF m = n THEN [in |-> folder, name |-> name] ELSE t[m]]

LEMMA ShownPlace ==
    ASSUME NEW d, NEW e, NEW n, NEW gone, NEW folder, NEW name,
           DOMAIN e = (DOMAIN d \ gone) \cup {n}, e[n].in = folder, e[n].name = name,
           \A m \in DOMAIN e : m # n => e[m] = d[m]
    PROVE  Placed(Shown(d), Shown(e), n, folder, name, gone)
<1>1. \A m \in DOMAIN e : m # n => m \in DOMAIN d
  OBVIOUS
<1> QED BY <1>1 DEF Shown, Placed

\* A name that fits is free on the drive.
LEMMA FitsIsFree ==
    ASSUME Steady, NEW f \in StoredPaths, NEW x \in StoredNames, NEW but, Fits(disk, f, x, but)
    PROVE  Drive!Free(NodeIn(disk, f), x.name, but)
<1>1. Visible = Shown(disk)
  BY AllIsVisible
<1> QED BY <1>1, ShownFacts DEF Drive!Free, Fits

LEMMA CreateIsCreate ==
    ASSUME Steady, Steady', NEW f \in StoredPaths, NEW x \in StoredNames, NEW n \in Folders \cup Files,
           AtCreate(f, x, n), Continue
    PROVE  Drive!Next
<1> DEFINE folder == NodeIn(disk, f)
<1>1. More(disk, disk', n, f, x)
  BY CreateFacts
<1>2. /\ n \in (Folders \cup Files) \ {Root} /\ n \notin DOMAIN disk /\ Fits(disk, f, x, {})
      /\ IsVault(disk)
  BY DEF AtCreate, Planned, Steady
<1>3. /\ folder \in Folders /\ folder \in DOMAIN disk \cup {Root}
      /\ Put(disk, f, x).in = folder /\ Put(disk, f, x).name = x.name /\ x.name \in Names
  BY <1>2, PutFacts DEF Fits, StoredNames
<1>4. Visible = Shown(disk) /\ Visible' = Shown(disk') /\ DOMAIN Visible = DOMAIN disk
  BY AllIsVisible, ShownFacts
<1>5. PICK e : e = disk'
  OBVIOUS
<1>6. /\ DOMAIN e = (DOMAIN disk \ {}) \cup {n} /\ e[n].in = folder /\ e[n].name = x.name
      /\ \A m \in DOMAIN e : m # n => e[m] = disk[m]
  BY <1>1, <1>3, <1>5 DEF More
<1>7. Drive!Free(folder, x.name, {})
  BY <1>2, FitsIsFree
<1> HIDE DEF folder
<1>8. Placed(Shown(disk), Shown(e), n, folder, x.name, {})
  BY <1>6, ShownPlace
<1>9. Drive!Place(n, folder, x.name, {})
  BY <1>4, <1>5, <1>8 DEF Drive!Place, Placed
<1>10. Drive!Create(n, folder, x.name)
  BY <1>2, <1>3, <1>4, <1>7, <1>9 DEF Drive!Create, Drive!There
<1> QED BY <1>2, <1>3, <1>4, <1>10 DEF Drive!Next, Drive!There

\* An unlink that is not refused removes something empty from the drive.
LEMMA LessIsRemove ==
    ASSUME Steady, Steady', NEW n \in DOMAIN disk, Childless(disk, n), disk' = Without(disk, {n})
    PROVE  Drive!Next
<1>1. Visible = Shown(disk) /\ Visible' = Shown(disk') /\ DOMAIN Visible = DOMAIN disk
  BY AllIsVisible, ShownFacts
<1>2. PICK e : e = disk'
  OBVIOUS
<1>3. Shown(e) = [m \in DOMAIN Shown(disk) \ {n} |-> Shown(disk)[m]]
  BY <1>2 DEF Shown, Without
<1>4. \A m \in DOMAIN Visible : Visible[m].in # n
  BY <1>1, ShownFacts DEF Childless
<1>5. Drive!Remove(n)
  BY <1>1, <1>2, <1>3, <1>4 DEF Drive!Remove
<1> QED BY <1>1, <1>5 DEF Drive!Next

LEMMA UnlinkIsRemove ==
    ASSUME Steady, Steady', NEW f \in StoredPaths, NEW x \in StoredNames, NEW n \in Folders \cup Files,
           AtUnlink(f, x, n), Continue
    PROVE  Drive!Next \/ UNCHANGED disk
<1>1. IsAt(f, x, n) /\ Childless(disk, n) /\ job = OnPath("unlink", Append(f, x)) \o ToForget(f, x, n)
  BY DEF AtUnlink, ToUnlink
<1>2. ToForget(f, x, n) \in Seq(Steps)
  BY OneTypes
<1>3. UNCHANGED disk \/ disk' = Without(disk, {n})
  BY <1>1, <1>2, UnlinkFacts
<1>4. n \in DOMAIN disk
  BY <1>1 DEF IsAt
<1> QED BY <1>1, <1>3, <1>4, LessIsRemove

\* So does the one of a file that is to be replaced and whose name differs.
LEMMA UnlinkOldIsRemove ==
    ASSUME Steady, Steady', NEW r \in Renamings, NEW z \in StoredNames, AtUnlinkOld(r, z), Continue
    PROVE  Drive!Next \/ UNCHANGED disk
<1>1. PICK k : k = NodeIn(disk, Append(r.p, z))
  OBVIOUS
<1>2. /\ k \in Files /\ k \in DOMAIN disk
      /\ job = OnPath("unlink", Append(r.p, z)) \o ToUnsidecarOld(r, z)
  BY <1>1 DEF AtUnlinkOld, ToUnlinkOld
<1>3. IsAt(r.p, z, k)
  BY <1>1, <1>2 DEF IsAt
<1>4. Childless(disk, k)
  BY <1>2, TreeAssumption, VaultFacts DEF Childless, Steady
<1>5. ToUnsidecarOld(r, z) \in Seq(Steps) /\ r.p \in StoredPaths
  BY RenameTypes, RenamingFacts
<1>6. UNCHANGED disk \/ disk' = Without(disk, {k})
  BY <1>2, <1>3, <1>4, <1>5, UnlinkFacts
<1> QED BY <1>2, <1>4, <1>6, LessIsRemove

\* A move renames on the drive, or replaces a file by another one.
LEMMA MoveIsRename ==
    ASSUME Steady, Steady', "move" \notin Faults, NEW r \in Renamings, AtMove(r), Continue
    PROVE  Drive!Next
<1>1. PICK k : k = NodeIn(disk, To(r))
  OBVIOUS
<1>2. PICK e : e = disk'
  OBVIOUS
<1>3. IsVault(disk) /\ Ready(disk, r) /\ e = [Without(disk, {k}) EXCEPT ![r.n] = Put(disk, r.p, r.y)]
  BY <1>1, <1>2, MoveFacts DEF AtMove, Steady
<1> DEFINE folder == NodeIn(disk, r.p)
           n == r.n
           name == r.y.name
<1>4. /\ n \in DOMAIN disk /\ NodeIn(disk, From(r)) = n /\ ~StartsWith(To(r), From(r))
      /\ k # None => {n, k} \subseteq Files
      /\ Fits(disk, r.p, r.y, {n, k})
  BY <1>1, <1>3 DEF Ready
<1>5. /\ r.p \in StoredPaths /\ r.y \in StoredNames /\ name \in Names
      /\ From(r) \in StoredPaths /\ To(r) \in StoredPaths /\ To(r) = Append(r.p, r.y)
  BY RenamingFacts DEF StoredNames
<1>6. /\ folder \in Folders /\ folder \in DOMAIN disk \cup {Root}
      /\ Put(disk, r.p, r.y).in = folder /\ Put(disk, r.p, r.y).name = name
  <2>1. PICK but : but = {r.n, k}
    OBVIOUS
  <2>2. Fits(disk, r.p, r.y, but)
    BY <1>4, <2>1
  <2>3. /\ folder \in DOMAIN disk \cup {Root}
        /\ Put(disk, r.p, r.y).in = folder /\ Put(disk, r.p, r.y).name = name
    BY <1>3, <1>5, <2>2, PutFacts
  <2>4. folder \in Folders
    BY <2>2 DEF Fits
  <2> QED BY <2>3, <2>4
<1>7. /\ k \in DOMAIN disk \cup {None} /\ None \notin DOMAIN disk /\ k # n
      /\ k \in DOMAIN disk => disk[k].in = folder /\ disk[k].name = name
  <2>1. k \in DOMAIN disk \cup {None} /\ None \notin DOMAIN disk
    BY <1>1, <1>3, <1>5, NodeFacts, VaultFacts
  <2>2. k \in DOMAIN disk => disk[k].in = folder /\ disk[k].name = name
    BY <1>1, <1>3, <1>5, NodeFacts
  <2>3. k # n
    BY <1>1, <1>3, <1>4, <1>5, <2>1, OnePath, PrefixSelf
  <2> QED BY <2>1, <2>2, <2>3
<1>8. ~StartsWith(r.p, From(r))
  BY <1>4, <1>5, PrefixAppend
<1>9. Drive!Apart(n, folder)
  BY <1>4, <1>5, <1>6, <1>8, IsApart
<1>10. Drive!Free(folder, name, {n, k})
  BY <1>4, <1>5, FitsIsFree
<1>11. Visible = Shown(disk) /\ Visible' = Shown(disk') /\ DOMAIN Visible = DOMAIN disk
  BY AllIsVisible, ShownFacts
<1>12. /\ DOMAIN e = (DOMAIN disk \ {k}) \cup {n} /\ e[n].in = folder /\ e[n].name = name
       /\ \A m \in DOMAIN e : m # n => e[m] = disk[m]
  <2>1. n \in DOMAIN Without(disk, {k}) /\ DOMAIN Without(disk, {k}) = DOMAIN disk \ {k}
    BY <1>4, <1>7 DEF Without
  <2>2. \A m \in DOMAIN disk \ {k} : Without(disk, {k})[m] = disk[m]
    BY DEF Without
  <2>3. e[n] = Put(disk, r.p, r.y) /\ DOMAIN e = DOMAIN disk \ {k}
    BY <1>3, <2>1
  <2>4. \A m \in DOMAIN e : m # n => e[m] = disk[m]
    BY <1>3, <2>1, <2>2
  <2> QED BY <1>6, <2>1, <2>3, <2>4
<1> HIDE DEF folder, n, name
<1>13. Placed(Shown(disk), Shown(e), n, folder, name, {k})
  BY <1>12, ShownPlace
<1>14. Drive!Place(n, folder, name, {k})
  BY <1>2, <1>11, <1>13 DEF Drive!Place, Placed
<1>15. CASE k = None
  <2>1. Drive!Place(n, folder, name, {})
    <3>1. DOMAIN Visible \ {k} = DOMAIN Visible \ {}
      BY <1>7, <1>11, <1>15
    <3> QED BY <1>14, <3>1 DEF Drive!Place
  <2>2. Drive!Free(folder, name, {n})
    BY <1>7, <1>10, <1>11, <1>15 DEF Drive!Free
  <2>3. Drive!Rename(n, folder, name)
    BY <1>6, <1>9, <1>11, <2>1, <2>2 DEF Drive!Rename, Drive!There
  <2> QED BY <1>4, <1>5, <1>6, <1>11, <2>3 DEF Drive!Next, Drive!There
<1>16. CASE k # None
  <2>1. /\ k \in DOMAIN Visible /\ {n, k} \subseteq Files /\ k # n
        /\ Visible[k].in = folder /\ Visible[k].name = name
    BY <1>4, <1>7, <1>11, <1>16, ShownFacts
  <2>2. Drive!Replace(n, k)
    BY <1>5, <1>14, <2>1 DEF Drive!Replace
  <2> QED BY <1>4, <1>11, <2>1, <2>2 DEF Drive!Next
<1> QED BY <1>15, <1>16

\* Only the steps of a change touch what is stored.
LEMMA OthersStill ==
    ASSUME [Next]_vars, ~Continue PROVE UNCHANGED disk
<1>1. ASSUME NEW parts \in Paths, CreateFile(parts) \/ CreateDir(parts) \/ Remove(parts)
      PROVE  UNCHANGED disk
  BY <1>1 DEF CreateFile, CreateDir, Creates, Remove, RemovesAt, Removes, Starts
<1>2. ASSUME NEW parts \in Paths, NEW to \in Paths, NEW replace \in BOOLEAN,
             Rename(parts, to, replace)
      PROVE  UNCHANGED disk
  <2>1. \A cache, todo : Starts(cache, todo) => UNCHANGED disk
    BY DEF Starts
  <2>2. PICK f : f = Parent(dirs, parts)
    OBVIOUS
  <2>3. PICK p : p = Parent(f.cache, to)
    OBVIOUS
  <2>4. \/ f.found = {} /\ Starts(f.cache, <<>>)
        \/ \E source \in f.found :
              Renames(f, source, StoredPath(f.cache, f.path, source.name),
                      p, to[Len(to)], StoredPath(p.cache, p.path, to[Len(to)]), replace)
    BY <1>2, <2>2, <2>3 DEF Rename
  <2>5. \A source, sPath, name, tPath :
           Renames(f, source, sPath, p, name, tPath, replace) => UNCHANGED disk
    BY <2>1 DEF Renames
  <2> QED BY <2>1, <2>4, <2>5
<1>3. ASSUME NEW parts \in Paths, NEW t \in Threads,
             LookupFile(t, parts) \/ ReadIv(t, parts)
      PROVE  UNCHANGED disk
  BY <1>3 DEF LookupFile, ReadIv
<1>4. ASSUME NEW t \in Threads, \/ UseDir(t) \/ KeepIv(t) \/ OpenFile(t)
                               \/ \E path \in DOMAIN dirs : TakeDir(t, path)
      PROVE  UNCHANGED disk
  BY <1>4 DEF UseDir, KeepIv, OpenFile, TakeDir
<1>5. ASSUME NEW o \in DOMAIN opened, CloseFile(o) PROVE UNCHANGED disk
  BY <1>5 DEF CloseFile
<1>6. Restart \/ UNCHANGED vars => UNCHANGED disk
  BY DEF Restart, vars
<1> QED BY <1>1, <1>2, <1>3, <1>4, <1>5, <1>6 DEF Next

LEMMA StepIsDrives ==
    ASSUME IInv, Calm, [Next]_vars PROVE [Drive!Next]_Visible
<1>1. Steady /\ Steady' /\ Working
  BY NextHolds DEF IInv
<1>2. UNCHANGED disk => UNCHANGED Visible
  BY <1>1, AllIsVisible
<1>3. CASE ~Continue
  BY <1>2, <1>3, OthersStill
<1>4. CASE Continue
  <2>1. ASSUME NEW f \in StoredPaths, NEW x \in StoredNames, NEW n \in Folders \cup Files,
               OneStage(f, x, n)
        PROVE  Drive!Next \/ UNCHANGED disk
    BY <1>1, <1>4, <2>1, OneBusy, TidyingStill, CreateIsCreate, UnlinkIsRemove
  <2>2. ASSUME NEW r \in Renamings, NEW z \in StoredNames, ClearStage(r, z)
        PROVE  Drive!Next \/ UNCHANGED disk
    BY <1>1, <1>4, <2>2, ClearBusy, TidyingStill, UnlinkOldIsRemove
  <2>3. ASSUME NEW r \in Renamings, MoveStage(r) PROVE Drive!Next \/ UNCHANGED disk
    BY <1>1, <1>4, <2>3, MoveBusy, TidyingStill, MoveIsRename DEF Calm
  <2>4. ~Quiet
    BY <1>4 DEF Quiet, Continue
  <2> QED BY <1>1, <1>2, <2>1, <2>2, <2>3, <2>4 DEF Working
<1> QED BY <1>3, <1>4

\* What a drive shows is a tree of names at every step: names stay unique but
\* for their case, renames lose nothing and make no folder part of itself, only
\* what is empty is removed, and a crash between any two disk steps leaves the
\* tree before or after a call, or a rename's target removed before it is
\* replaced.  All this under Calm, for a stale index can hide a name.
THEOREM VaultIsDrive ==
    ASSUME Calm PROVE Spec => DriveSpec
<1>1. Init => Drive!Init
  <2> SUFFICES ASSUME Init PROVE Drive!Init
    OBVIOUS
  <2>1. IsVault(disk) /\ Visible = Shown(disk)
    BY InitHolds, AllIsVisible DEF IInv, Steady
  <2> QED BY <2>1, ShownFacts DEF Drive!Init, Drive!There, Drive!Free, IsVault
<1>2. Init => IInv
  BY InitHolds
<1>3. IInv /\ [Next]_vars => IInv' /\ [Drive!Next]_Visible
  BY NextHolds, StepIsDrives
<1> QED BY <1>1, <1>2, <1>3, PTL DEF Spec, DriveSpec, Drive!Spec
===============================================================================
