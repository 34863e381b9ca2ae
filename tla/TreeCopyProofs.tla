----------------------------- MODULE TreeCopyProofs -----------------------------
(***************************************************************************)
(* A job that ends well leaves two equal trees, proved for every folder,   *)
(* whatever the user does meanwhile (native/vault2/src/tree.rs).           *)
(***************************************************************************)
EXTENDS Drives, FiniteSetTheorems, SequenceTheorems, WellFoundedInduction, TLAPS

-------------------------------------------------------------------------------
(* Sequences, and the least of some numbers.                               *)

\* A set of numbers that is not empty has a least one.
LEMMA LeastNatural ==
    ASSUME NEW T, T \subseteq Nat, T # {} PROVE \E m \in T : \A n \in T : m <= n
<1>1. IsWellFoundedOn(OpToRel(<, Nat), Nat)
  BY NatLessThanWellFounded
<1>2. PICK m \in T : \A n \in T : <<n, m>> \notin OpToRel(<, Nat)
  BY <1>1, WFMin
<1>3. \A n \in T : ~(n < m)
  BY <1>2 DEF OpToRel
<1> QED BY <1>3

\* SetToSeq gives every element of a finite set.
LEMMA SeqOfSet ==
    ASSUME NEW S, IsFiniteSet(S)
    PROVE  /\ SetToSeq(S) \in Seq(S)
           /\ \A x \in S : \E i \in 1..Len(SetToSeq(S)) : SetToSeq(S)[i] = x
<1> DEFINE n == Cardinality(S)
<1>1. n \in Nat /\ ExistsBijection(1..n, S)
  BY FS_CardinalityType
<1>2. \E f \in [1..n -> S] : IsInjective(f)
  BY <1>1 DEF ExistsBijection, Bijection, Injection
<1>3. SetToSeq(S) \in [1..n -> S] /\ IsInjective(SetToSeq(S))
  BY <1>2 DEF SetToSeq
<1>4. SetToSeq(S) \in Surjection(1..n, S)
  <2>1. IsFiniteSet(1..n) /\ Cardinality(1..n) = n
    BY <1>1, FS_Interval
  <2>2. SetToSeq(S) \in Injection(1..n, S)
    BY <1>3 DEF Injection
  <2> QED BY <2>1, <2>2, FS_Injection
<1> QED BY <1>1, <1>3, <1>4, IsASeq, LenProperties DEF Surjection

\* The folder of a path is its Front.
LEMMA FrontFacts ==
    ASSUME NEW p \in AllPaths
    PROVE  /\ Front(p) \in Seq(Names) /\ Len(p) \in Nat /\ Len(p) > 0
           /\ Len(Front(p)) = Len(p) - 1
<1>1. p \in Seq(Names) /\ Len(p) \in Nat /\ Len(p) > 0 /\ DOMAIN p = 1..Len(p)
  BY LenProperties, EmptySeq DEF AllPaths
<1>2. \A i \in 1..(Len(p) - 1) : p[i] \in Names
  BY <1>1, ElementOfSeq
<1>3. Len(p) - 1 \in Int /\ 1 \in Int
  BY <1>1
<1>4. /\ SubSeq(p, 1, Len(p) - 1) \in Seq(Names)
      /\ Len(SubSeq(p, 1, Len(p) - 1)) = IF 1 <= Len(p) - 1 THEN Len(p) - 1 - 1 + 1 ELSE 0
  BY <1>2, <1>3, SubSeqProperties
<1> QED BY <1>1, <1>4 DEF Front

LEMMA UnderIsFront ==
    ASSUME NEW d \in Seq(Names), NEW p \in AllPaths PROVE Under(d, p) <=> Front(p) = d
<1>1. Len(p) \in Nat /\ Len(p) > 0 /\ Len(d) \in Nat /\ Len(Front(p)) = Len(p) - 1
  BY FrontFacts, LenProperties
<1>2. SubSeq(d, 1, Len(d)) = d
  BY SubSeqFull
<1>3. IsPrefix(d, p) <=> Len(d) <= Len(p) /\ d = SubSeq(p, 1, Len(d))
  BY <1>2 DEF IsPrefix
<1>4. CASE Len(p) = Len(d) + 1
  <2>1. Front(p) = SubSeq(p, 1, Len(d)) /\ Len(d) <= Len(p)
    BY <1>1, <1>4 DEF Front
  <2> QED BY <1>3, <1>4, <2>1 DEF Under
<1>5. CASE Len(p) # Len(d) + 1
  BY <1>1, <1>5 DEF Under
<1> QED BY <1>4, <1>5

LEMMA ChildrenFacts ==
    ASSUME NEW tree, IsTree(tree), NEW d \in Seq(Names)
    PROVE  /\ Children(tree, d) = {p \in DOMAIN tree : Front(p) = d}
           /\ IsFiniteSet(Children(tree, d)) /\ Children(tree, d) \subseteq AllPaths
           /\ SetToSeq(Children(tree, d)) \in Seq(AllPaths)
           /\ \A i \in 1..Len(SetToSeq(Children(tree, d))) :
                  SetToSeq(Children(tree, d))[i] \in Children(tree, d)
           /\ \A p \in Children(tree, d) :
                  \E i \in 1..Len(SetToSeq(Children(tree, d))) : SetToSeq(Children(tree, d))[i] = p
<1>1. Children(tree, d) = {p \in DOMAIN tree : Front(p) = d}
  BY UnderIsFront DEF IsTree, Children
<1>2. IsFiniteSet(Children(tree, d)) /\ Children(tree, d) \subseteq AllPaths
  BY <1>1, FS_Subset DEF IsTree
<1> DEFINE S == Children(tree, d)
           s == SetToSeq(S)
<1> HIDE DEF S
<1>3. /\ s \in Seq(S) /\ \A x \in S : \E i \in 1..Len(s) : s[i] = x
  BY <1>2, SeqOfSet DEF S
<1>4. s \in Seq(AllPaths)
  <2>1. \A T : S \subseteq T => Seq(S) \subseteq Seq(T)
    BY SeqMonotonic
  <2> QED BY <1>2, <1>3, <2>1 DEF S
<1>5. \A i \in 1..Len(s) : s[i] \in S
  BY <1>3, ElementOfSeq
<1> QED BY <1>1, <1>2, <1>3, <1>4, <1>5 DEF S

-------------------------------------------------------------------------------
(* The inductive invariant. *)

In(x, s) == \E i \in 1..Len(s) : s[i] = x

\* The folders of paths that the copy has already.
HasFolder(tree, p) == Front(p) # <<>> => Front(p) \in DOMAIN tree /\ tree[Front(p)] = Dir

Walks == [job : {"none", "import", "export"},
          phase : {"idle", "scan", "copy", "verify", "failed", "ok"},
          todo : Seq(AllPaths), at : AllPaths \cup {NoPath}, offset : Nat, touched : BOOLEAN]

TypesTrue == walk \in Walks /\ IsTree(source) /\ IsTree(copy)

\* The file that is open is in both trees, and no folder.
OpenTrue ==
    walk.phase \in {"scan", "copy", "verify"} /\ walk.at # NoPath =>
        /\ walk.at \in DOMAIN source /\ source[walk.at].kind # "dir"
        /\ walk.at \in DOMAIN copy /\ copy[walk.at].kind # "dir"

\* What is still to be copied has its folder in the copy.
FoldersTrue == walk.phase = "copy" => \A p : In(p, walk.todo) => HasFolder(copy, p)

\* Both trees have the same at p.
Equal(p) ==
    /\ p \in DOMAIN source /\ p \in DOMAIN copy /\ source[p] = copy[p]
    /\ source[p].kind = "dir" => SameCount(p)

\* While the user leaves the folder alone: the chunks that were read of the open
\* file agree, and everything in the folders that are done is done, or open, or
\* still to be compared.
ChunksTrue ==
    walk.at # NoPath =>
        /\ source[walk.at].kind = copy[walk.at].kind
        /\ Len(source[walk.at].data) = Len(copy[walk.at].data)
        /\ walk.offset <= Len(source[walk.at].data)
        /\ \A i \in 1..walk.offset : source[walk.at].data[i] = copy[walk.at].data[i]

Complete(done) ==
    /\ done \subseteq DOMAIN Plain
    /\ \A p \in done : Equal(p)
    /\ \A p \in DOMAIN Plain :
          Front(p) = <<>> \/ Front(p) \in done => p \in done \/ p = walk.at \/ In(p, walk.todo)

ComparedTrue ==
    walk.phase = "verify" /\ ~walk.touched =>
        SameCount(<<>>) /\ ChunksTrue /\ \E done \in SUBSET DOMAIN Plain : Complete(done)

CopyInv == TypesTrue /\ OpenTrue /\ FoldersTrue /\ ComparedTrue /\ CopyExact

-------------------------------------------------------------------------------
(* Trees and lists of paths. *)

\* An entry of a folder that is there, in the place of none or of a file.
LEMMA PutTree ==
    ASSUME NEW tree, IsTree(tree), NEW p \in AllPaths, HasFolder(tree, p),
           p \in DOMAIN tree => tree[p].kind # "dir",
           NEW e \in [kind : {"dir", "file", "link"}, data : Seq(Nat)],
           e.kind = "dir" => e = Dir
    PROVE  IsTree(Put(tree, p, e))
<1> DEFINE new == Put(tree, p, e)
<1>1. /\ DOMAIN new = DOMAIN tree \cup {p} /\ new[p] = e
      /\ \A q \in DOMAIN tree : q # p => new[q] = tree[q]
      /\ new = [q \in DOMAIN new |-> new[q]]
  BY DEF Put
<1>2. Dir.kind = "dir"
  BY DEF Dir
<1>3. \A q \in DOMAIN tree \cup {p} :
          Front(q) # <<>> => Front(q) # p /\ Front(q) \in DOMAIN tree /\ tree[Front(q)] = Dir
  BY <1>2 DEF IsTree, HasFolder
<1>4. IsFiniteSet(DOMAIN new) /\ DOMAIN new \subseteq AllPaths
  BY <1>1, FS_AddElement DEF IsTree
<1> HIDE DEF new
<1>5. new \in [DOMAIN new -> [kind : {"dir", "file", "link"}, data : Seq(Nat)]]
  BY <1>1 DEF IsTree
<1>6. \A q \in DOMAIN new : new[q].kind = "dir" => new[q] = Dir
  BY <1>1 DEF IsTree
<1>7. \A q \in DOMAIN new : Front(q) # <<>> => Front(q) \in DOMAIN new /\ new[Front(q)] = Dir
  BY <1>1, <1>3
<1> QED BY <1>4, <1>5, <1>6, <1>7 DEF IsTree, new

\* A tree without one of its files.
LEMMA DropTree ==
    ASSUME NEW tree, IsTree(tree), NEW p \in DOMAIN tree, tree[p].kind # "dir"
    PROVE  IsTree([q \in DOMAIN tree \ {p} |-> tree[q]])
<1> DEFINE new == [q \in DOMAIN tree \ {p} |-> tree[q]]
<1>1. DOMAIN new = DOMAIN tree \ {p} /\ \A q \in DOMAIN new : new[q] = tree[q]
  OBVIOUS
<1>2. IsFiniteSet(DOMAIN new)
  BY <1>1, FS_Subset DEF IsTree
<1>3. \A q \in DOMAIN new : Front(q) # <<>> => Front(q) \in DOMAIN new
  BY <1>1 DEF IsTree, Dir
<1> QED BY <1>1, <1>2, <1>3 DEF IsTree

\* The paths that are left when one is taken, and when a folder is entered.
LEMMA Rest ==
    ASSUME NEW todo \in Seq(AllPaths), todo # <<>>
    PROVE  /\ Head(todo) \in AllPaths /\ In(Head(todo), todo) /\ Tail(todo) \in Seq(AllPaths)
           /\ \A p : In(p, Tail(todo)) => In(p, todo)
           /\ \A p : In(p, todo) => p = Head(todo) \/ In(p, Tail(todo))
<1>1. Len(todo) \in Nat /\ Len(todo) > 0 /\ Head(todo) = todo[1]
  BY LenProperties, EmptySeq
<1>2. /\ Head(todo) \in AllPaths /\ Tail(todo) \in Seq(AllPaths) /\ Len(Tail(todo)) = Len(todo) - 1
      /\ \A i \in 1..Len(Tail(todo)) : Tail(todo)[i] = todo[i + 1]
  BY HeadTailProperties
<1>3. \A i \in 1..Len(todo) : i = 1 \/ (i - 1 \in 1..Len(Tail(todo)) /\ Tail(todo)[i - 1] = todo[i])
  BY <1>1, <1>2
<1>4. \A p : In(p, Tail(todo)) => In(p, todo)
  BY <1>1, <1>2 DEF In
<1>5. \A p : In(p, todo) => p = Head(todo) \/ In(p, Tail(todo))
  BY <1>1, <1>3 DEF In
<1> QED BY <1>1, <1>2, <1>4, <1>5 DEF In

LEMMA Entered ==
    ASSUME NEW tree, IsTree(tree), NEW d \in Seq(Names), NEW rest \in Seq(AllPaths)
    PROVE  /\ SetToSeq(Children(tree, d)) \o rest \in Seq(AllPaths)
           /\ \A p : In(p, SetToSeq(Children(tree, d)) \o rest) <=>
                         (p \in DOMAIN tree /\ Front(p) = d) \/ In(p, rest)
<1> DEFINE s == SetToSeq(Children(tree, d))
<1>1. /\ s \in Seq(AllPaths) /\ \A i \in 1..Len(s) : s[i] \in Children(tree, d)
      /\ \A p \in Children(tree, d) : \E i \in 1..Len(s) : s[i] = p
      /\ Children(tree, d) = {p \in DOMAIN tree : Front(p) = d}
  BY ChildrenFacts
<1> HIDE DEF s
<1>2. /\ s \o rest \in Seq(AllPaths) /\ Len(s \o rest) = Len(s) + Len(rest)
      /\ Len(s) \in Nat /\ Len(rest) \in Nat
      /\ \A i \in 1..Len(s) + Len(rest) :
            (s \o rest)[i] = IF i <= Len(s) THEN s[i] ELSE rest[i - Len(s)]
  BY <1>1, ConcatProperties, LenProperties
<1>3. \A p : In(p, s \o rest) => p \in Children(tree, d) \/ In(p, rest)
  <2> SUFFICES ASSUME NEW i \in 1..Len(s) + Len(rest)
               PROVE  (s \o rest)[i] \in Children(tree, d) \/ In((s \o rest)[i], rest)
    BY <1>2 DEF In
  <2>1. CASE i <= Len(s)
    BY <1>1, <1>2, <2>1
  <2>2. CASE i > Len(s)
    <3>1. i - Len(s) \in 1..Len(rest) /\ (s \o rest)[i] = rest[i - Len(s)]
      BY <1>2, <2>2
    <3> QED BY <3>1 DEF In
  <2> QED BY <1>2, <2>1, <2>2
<1>4. \A p \in Children(tree, d) : In(p, s \o rest)
  <2> SUFFICES ASSUME NEW i \in 1..Len(s) PROVE In(s[i], s \o rest)
    BY <1>1
  <2>1. i \in 1..Len(s) + Len(rest) /\ (s \o rest)[i] = s[i]
    BY <1>2
  <2> QED BY <1>2, <2>1 DEF In
<1>5. \A p : In(p, rest) => In(p, s \o rest)
  <2> SUFFICES ASSUME NEW i \in 1..Len(rest) PROVE In(rest[i], s \o rest)
    BY DEF In
  <2>1. i + Len(s) \in 1..Len(s) + Len(rest) /\ (s \o rest)[i + Len(s)] = rest[i]
    BY <1>2
  <2> QED BY <1>2, <2>1 DEF In
<1> QED BY <1>1, <1>2, <1>3, <1>4, <1>5 DEF s

LEMMA NothingIn == \A p : ~In(p, <<>>)
  BY DEF In

\* What holds of the paths in the topmost folder, and in a folder of which it
\* holds, holds of all paths of a tree.
LEMMA TreeInduction ==
    ASSUME NEW tree, IsTree(tree), NEW good,
           \A p \in DOMAIN tree : Front(p) = <<>> \/ Front(p) \in good => p \in good
    PROVE  DOMAIN tree \subseteq good
<1> SUFFICES ASSUME DOMAIN tree \ good # {} PROVE FALSE
  OBVIOUS
<1>1. \A p \in DOMAIN tree :
          /\ Len(p) \in Nat /\ Len(Front(p)) = Len(p) - 1
          /\ Front(p) # <<>> => Front(p) \in DOMAIN tree
  BY FrontFacts DEF IsTree
<1> DEFINE T == {Len(p) : p \in DOMAIN tree \ good}
<1>2. T \subseteq Nat
  BY <1>1
<1>3. T # {}
  OBVIOUS
<1>4. PICK m \in T : \A n \in T : m <= n
  BY <1>2, <1>3, LeastNatural
<1>5. PICK p \in DOMAIN tree \ good : Len(p) = m
  BY <1>4
<1>6. Front(p) # <<>> /\ Front(p) \in DOMAIN tree \ good
  BY <1>1, <1>5
<1>7. Len(Front(p)) \in T /\ Len(Front(p)) = m - 1 /\ m \in Nat
  BY <1>1, <1>2, <1>5, <1>6
<1> HIDE DEF T
<1> QED BY <1>4, <1>7

\* Trees are equal if one has all the other has, in folders of the same size.
LEMMA SameTrees ==
    ASSUME NEW a, NEW b, IsTree(a), IsTree(b),
           \A p \in DOMAIN a : p \in DOMAIN b /\ a[p] = b[p],
           \A d : d = <<>> \/ (d \in DOMAIN a /\ a[d].kind = "dir") =>
                     Cardinality(Children(a, d)) = Cardinality(Children(b, d))
    PROVE  a = b
<1>1. ASSUME NEW p \in DOMAIN b, Front(p) = <<>> \/ Front(p) \in DOMAIN a
      PROVE  p \in DOMAIN a
  <2> DEFINE d == Front(p)
  <2>1. p \in AllPaths /\ d \in Seq(Names)
    BY FrontFacts DEF IsTree
  <2>2. d = <<>> \/ (d \in DOMAIN a /\ a[d].kind = "dir")
    BY <1>1 DEF IsTree, Dir
  <2>3. Cardinality(Children(a, d)) = Cardinality(Children(b, d))
    BY <2>2
  <2>4. /\ Children(a, d) = {q \in DOMAIN a : Front(q) = d}
        /\ Children(b, d) = {q \in DOMAIN b : Front(q) = d} /\ IsFiniteSet(Children(b, d))
    BY <2>1, ChildrenFacts
  <2>5. Children(a, d) \in SUBSET Children(b, d)
    BY <2>4
  <2>6. Children(b, d) = Children(a, d)
    BY <2>3, <2>4, <2>5, FS_Subset
  <2> QED BY <2>4, <2>6
<1>2. DOMAIN b \subseteq DOMAIN a
  BY <1>1, TreeInduction
<1>3. a = [p \in DOMAIN a |-> a[p]] /\ b = [p \in DOMAIN b |-> b[p]]
  BY DEF IsTree
<1> QED BY <1>2, <1>3

-------------------------------------------------------------------------------
(* The steps. *)

LEMMA SamePlain ==
    ASSUME UNCHANGED <<source, copy>>, walk'.job = walk.job
    PROVE  /\ Plain' = Plain /\ SameCount(<<>>)' = SameCount(<<>>)
           /\ \A p : Equal(p)' <=> Equal(p)
  BY DEF Plain, SameCount, Equal, Children

LEMMA PlainTree == TypesTrue => IsTree(Plain) /\ (Plain = source \/ Plain = copy)
  BY DEF Plain, TypesTrue

\* A walk that fails, or ends the copy of a tree that is not compared.
LEMMA Fails ==
    ASSUME CopyInv, Goes("failed"), UNCHANGED <<source, copy>> PROVE CopyInv'
<1>1. walk' \in Walks /\ walk'.phase = "failed"
  BY DEF CopyInv, TypesTrue, Walks, Goes
<1> QED BY <1>1 DEF CopyInv, TypesTrue, OpenTrue, FoldersTrue, ComparedTrue, CopyExact

LEMMA BeginKeeps ==
    ASSUME CopyInv, NEW job \in {"import", "export"}, Begin(job) PROVE CopyInv'
<1>1. <<>> \in Seq(AllPaths) /\ 0 \in Nat
  BY EmptySeq
<1>2. walk' = [NoWalk EXCEPT !.job = job, !.phase = "scan"] /\ UNCHANGED <<source, copy>>
  BY DEF Begin
<1>3. walk' \in Walks /\ walk'.phase = "scan" /\ walk'.at = NoPath
  BY <1>1, <1>2 DEF Walks, NoWalk
<1> QED BY <1>2, <1>3 DEF CopyInv, TypesTrue, OpenTrue, FoldersTrue, ComparedTrue, CopyExact

LEMMA ScanKeeps ==
    ASSUME CopyInv, Scan PROVE CopyInv'
<1>1. CASE Goes("failed")
  BY <1>1, Fails DEF Scan
<1>2. CASE walk' = [walk EXCEPT !.phase = "copy", !.todo = SetToSeq(Children(source, <<>>))]
  <2>1. /\ walk \in Walks /\ IsTree(source) /\ UNCHANGED <<source, copy>> /\ walk.phase = "scan"
        /\ <<>> \in Seq(Names)
    BY EmptySeq DEF Scan, CopyInv, TypesTrue
  <2> DEFINE todo == SetToSeq(Children(source, <<>>))
  <2>a. /\ todo \in Seq(AllPaths) /\ \A i \in 1..Len(todo) : todo[i] \in Children(source, <<>>)
        /\ Children(source, <<>>) = {p \in DOMAIN source : Front(p) = <<>>}
    BY <2>1, ChildrenFacts
  <2> HIDE DEF todo
  <2>2. todo \in Seq(AllPaths) /\ \A p : In(p, todo) => Front(p) = <<>>
    BY <2>a DEF In
  <2>3. walk' \in Walks /\ walk'.phase = "copy" /\ walk'.todo = todo /\ walk'.at = walk.at
    BY <1>2, <2>1, <2>2 DEF Walks, todo
  <2> QED BY <2>1, <2>2, <2>3
          DEF CopyInv, TypesTrue, OpenTrue, FoldersTrue, HasFolder, ComparedTrue, CopyExact
<1> QED BY <1>1, <1>2 DEF Scan, Goes

LEMMA CopyEntryKeeps ==
    ASSUME CopyInv, CopyEntry PROVE CopyInv'
<1>1. /\ walk \in Walks /\ walk.todo \in Seq(AllPaths) /\ IsTree(source) /\ IsTree(copy)
      /\ walk.phase = "copy" /\ walk.at = NoPath /\ walk.todo # <<>> /\ UNCHANGED source
  BY DEF CopyEntry, CopyInv, TypesTrue, Walks
<1>2. /\ Entry \in AllPaths /\ Tail(walk.todo) \in Seq(AllPaths)
      /\ HasFolder(copy, Entry) /\ \A p : In(p, Tail(walk.todo)) => HasFolder(copy, p)
  BY <1>1, Rest DEF Entry, CopyInv, FoldersTrue
<1>3. CASE Goes("failed") /\ UNCHANGED copy
  BY <1>1, <1>3, Fails
<1>4. CASE /\ Entry \in DOMAIN source /\ Entry \notin DOMAIN copy /\ source[Entry].kind = "dir"
           /\ Enters(Entry, source) /\ copy' = Put(copy, Entry, Dir)
  <2>1. Dir \in [kind : {"dir", "file", "link"}, data : Seq(Nat)]
    BY EmptySeq DEF Dir
  <2>2. IsTree(copy')
    BY <1>1, <1>2, <1>4, <2>1, PutTree
  <2> DEFINE todo == SetToSeq(Children(source, Entry)) \o Tail(walk.todo)
  <2>3. /\ todo \in Seq(AllPaths)
        /\ \A p : In(p, todo) => Front(p) = Entry \/ In(p, Tail(walk.todo))
    BY <1>1, <1>2, Entered DEF AllPaths
  <2> HIDE DEF todo
  <2>4. walk' \in Walks /\ walk'.phase = "copy" /\ walk'.todo = todo /\ walk'.at = NoPath
    BY <1>1, <1>4, <2>3 DEF Walks, Enters, todo
  <2>5. /\ copy'[Entry] = Dir /\ Entry \in DOMAIN copy'
        /\ \A q \in DOMAIN copy : q \in DOMAIN copy' /\ copy'[q] = copy[q]
    BY <1>4 DEF Put
  <2>6. \A p : In(p, todo) => HasFolder(copy', p)
    BY <1>2, <2>3, <2>5 DEF HasFolder
  <2> QED BY <1>1, <2>2, <2>4, <2>6
          DEF CopyInv, TypesTrue, OpenTrue, FoldersTrue, ComparedTrue, CopyExact
<1>5. CASE /\ Entry \in DOMAIN source /\ Entry \notin DOMAIN copy /\ source[Entry].kind # "dir"
           /\ OpensFile /\ copy' = Put(copy, Entry, File(<<>>))
  <2>1. File(<<>>) \in [kind : {"dir", "file", "link"}, data : Seq(Nat)] /\ File(<<>>).kind = "file"
    BY EmptySeq DEF File
  <2>2. IsTree(copy')
    BY <1>1, <1>2, <1>5, <2>1, PutTree
  <2>3. /\ walk' \in Walks /\ walk'.phase = "copy" /\ walk'.todo = Tail(walk.todo)
        /\ walk'.at = Entry
    BY <1>1, <1>2, <1>5 DEF Walks, OpensFile
  <2>4. /\ copy'[Entry] = File(<<>>) /\ Entry \in DOMAIN copy'
        /\ \A q \in DOMAIN copy : q \in DOMAIN copy' /\ copy'[q] = copy[q]
    BY <1>5 DEF Put
  <2>5. \A p : In(p, Tail(walk.todo)) => HasFolder(copy', p)
    BY <1>2, <2>4 DEF HasFolder
  <2> QED BY <1>1, <1>5, <2>1, <2>2, <2>3, <2>4, <2>5
          DEF CopyInv, TypesTrue, OpenTrue, FoldersTrue, ComparedTrue, CopyExact
<1> QED BY <1>3, <1>4, <1>5 DEF CopyEntry

LEMMA CopyChunkKeeps ==
    ASSUME CopyInv, NEW cancelled, CopyChunk(cancelled) PROVE CopyInv'
<1> DEFINE at   == walk.at
           data == source[at].data
<1>1. /\ walk \in Walks /\ IsTree(source) /\ IsTree(copy) /\ UNCHANGED source
      /\ walk.phase = "copy" /\ at \in AllPaths /\ walk.offset \in Nat
      /\ at \in DOMAIN source /\ source[at].kind # "dir"
      /\ at \in DOMAIN copy /\ copy[at].kind # "dir"
      /\ \A p : In(p, walk.todo) => HasFolder(copy, p)
  BY DEF CopyChunk, CopyInv, TypesTrue, OpenTrue, FoldersTrue, Walks
<1>2. CASE FileDone /\ UNCHANGED copy
  <2>1. walk' \in Walks /\ walk'.phase = "copy" /\ walk'.at = NoPath /\ walk'.todo = walk.todo
    BY <1>1, <1>2 DEF FileDone, Walks
  <2> QED BY <1>1, <1>2, <2>1
          DEF CopyInv, TypesTrue, OpenTrue, FoldersTrue, ComparedTrue, CopyExact
<1>3. CASE /\ walk.offset < Len(data)
           /\ copy' = [copy EXCEPT ![at].data = Append(copy[at].data, data[walk.offset + 1])]
           /\ walk' = [walk EXCEPT !.offset = walk.offset + 1,
                                   !.phase = IF cancelled THEN "failed" ELSE walk.phase]
  <2>1. data \in Seq(Nat) /\ copy[at].data \in Seq(Nat)
        /\ copy[at] \in [kind : {"dir", "file", "link"}, data : Seq(Nat)]
    BY <1>1 DEF IsTree
  <2>2. data[walk.offset + 1] \in Nat
    <3>1. walk.offset + 1 \in 1..Len(data)
      BY <1>1, <1>3, <2>1, LenProperties
    <3> QED BY <2>1, <3>1, ElementOfSeq
  <2> DEFINE longer == Append(copy[at].data, data[walk.offset + 1])
             entry  == [kind |-> copy[at].kind, data |-> longer]
  <2>3. longer \in Seq(Nat)
    BY <2>1, <2>2, AppendProperties
  <2> HIDE DEF longer
  <2>4. entry \in [kind : {"dir", "file", "link"}, data : Seq(Nat)] /\ entry.kind = copy[at].kind
    BY <2>1, <2>3
  <2>5. copy' = Put(copy, at, entry)
    <3>1. copy = [q \in DOMAIN copy |-> copy[q]]
      BY <1>1 DEF IsTree
    <3>2. [copy[at] EXCEPT !.data = longer] = entry
      <4>1. DOMAIN copy[at] = {"kind", "data"}
        BY <2>1
      <4> QED BY <4>1
    <3>3. copy' = [copy EXCEPT ![at] = entry]
      BY <1>3, <3>2 DEF longer
    <3> QED BY <1>1, <3>1, <3>3 DEF Put
  <2>6. HasFolder(copy, at)
    BY <1>1 DEF IsTree, HasFolder
  <2>7. IsTree(copy')
    BY <1>1, <2>4, <2>5, <2>6, PutTree
  <2>8. /\ DOMAIN copy' = DOMAIN copy /\ copy'[at].kind # "dir"
        /\ \A q \in DOMAIN copy : q # at => copy'[q] = copy[q]
    BY <1>1, <2>4, <2>5 DEF Put
  <2>9. \A p : In(p, walk.todo) => HasFolder(copy', p)
    BY <1>1, <2>8 DEF HasFolder, Dir
  <2>10. /\ walk' \in Walks /\ walk'.phase \in {"copy", "failed"} /\ walk'.at = at
         /\ walk'.todo = walk.todo
    <3>1. walk' = [walk EXCEPT !.offset = walk.offset + 1,
                               !.phase = IF cancelled THEN "failed" ELSE walk.phase]
      BY <1>3
    <3>2. /\ walk.offset + 1 \in Nat
          /\ (IF cancelled THEN "failed" ELSE walk.phase) \in {"copy", "failed"}
      BY <1>1
    <3> QED BY <1>1, <3>1, <3>2 DEF Walks
  <2> QED BY <1>1, <2>7, <2>8, <2>9, <2>10
          DEF CopyInv, TypesTrue, OpenTrue, FoldersTrue, ComparedTrue, CopyExact
<1> QED BY <1>1, <1>2, <1>3, LenProperties DEF CopyChunk, IsTree

LEMMA CopiedKeeps ==
    ASSUME CopyInv, Copied PROVE CopyInv'
<1> DEFINE todo == SetToSeq(Children(Plain, <<>>))
<1>1. /\ walk \in Walks /\ walk.phase = "copy" /\ walk.at = NoPath /\ UNCHANGED <<source, copy>>
      /\ IsTree(Plain) /\ <<>> \in Seq(Names)
  BY PlainTree, EmptySeq DEF CopyInv, TypesTrue, Copied, AtEnd
<1>2. /\ todo \in Seq(AllPaths)
      /\ \A p \in DOMAIN Plain : Front(p) = <<>> => \E i \in 1..Len(todo) : todo[i] = p
  <2>1. /\ todo \in Seq(AllPaths)
        /\ \A p \in Children(Plain, <<>>) : \E i \in 1..Len(todo) : todo[i] = p
        /\ Children(Plain, <<>>) = {p \in DOMAIN Plain : Front(p) = <<>>}
    BY <1>1, ChildrenFacts
  <2> HIDE DEF todo
  <2> QED BY <2>1
<1>3. walk' = [walk EXCEPT !.phase = IF SameCount(<<>>) THEN "verify" ELSE "failed",
                           !.todo = todo, !.touched = FALSE]
  BY DEF Copied
<1> HIDE DEF todo
<1>4. /\ walk' \in Walks /\ walk'.phase = (IF SameCount(<<>>) THEN "verify" ELSE "failed")
      /\ walk'.todo = todo /\ walk'.at = NoPath /\ walk'.job = walk.job
  BY <1>1, <1>2, <1>3 DEF Walks
<1>5. ASSUME SameCount(<<>>) PROVE ComparedTrue'
  <2>1. Plain' = Plain /\ SameCount(<<>>)'
    BY <1>1, <1>4, <1>5, SamePlain
  <2>2. Complete({})'
    BY <1>2, <1>4, <2>1 DEF Complete, In
  <2> QED BY <1>4, <2>1, <2>2 DEF ComparedTrue, ChunksTrue
<1> QED BY <1>1, <1>4, <1>5
        DEF CopyInv, TypesTrue, OpenTrue, FoldersTrue, ComparedTrue, CopyExact

LEMMA VerifyEntryKeeps ==
    ASSUME CopyInv, VerifyEntry PROVE CopyInv'
<1>1. /\ walk \in Walks /\ walk.todo \in Seq(AllPaths) /\ UNCHANGED <<source, copy>>
      /\ walk.phase = "verify" /\ walk.at = NoPath /\ walk.todo # <<>>
      /\ IsTree(source) /\ IsTree(copy) /\ IsTree(Plain) /\ (Plain = source \/ Plain = copy)
  BY PlainTree DEF VerifyEntry, CopyInv, TypesTrue, Walks
<1>2. /\ Entry \in AllPaths /\ Tail(walk.todo) \in Seq(AllPaths)
      /\ \A p : In(p, walk.todo) => p = Entry \/ In(p, Tail(walk.todo))
  BY <1>1, Rest DEF Entry
<1>3. NoPath \notin AllPaths
  BY PathsAssumption
<1>4. CASE Goes("failed")
  BY <1>1, <1>4, Fails
<1>5. CASE /\ Entry \in DOMAIN source /\ Entry \in DOMAIN copy
           /\ source[Entry].kind = copy[Entry].kind /\ source[Entry].kind = "dir"
           /\ SameCount(Entry) /\ Enters(Entry, Plain)
  <2> DEFINE todo == SetToSeq(Children(Plain, Entry)) \o Tail(walk.todo)
  <2>1. /\ todo \in Seq(AllPaths)
        /\ \A p : In(p, todo) <=> (p \in DOMAIN Plain /\ Front(p) = Entry) \/ In(p, Tail(walk.todo))
    BY <1>1, <1>2, Entered DEF AllPaths
  <2> HIDE DEF todo
  <2>2. /\ walk' \in Walks /\ walk'.phase = "verify" /\ walk'.todo = todo /\ walk'.at = NoPath
        /\ walk'.job = walk.job /\ walk'.touched = walk.touched
    BY <1>1, <1>5, <2>1 DEF Walks, Enters, todo
  <2>3. Equal(Entry) /\ Entry \in DOMAIN Plain
    BY <1>1, <1>5 DEF Equal, IsTree
  <2>4. ASSUME ~walk.touched PROVE ComparedTrue'
    <3>1. PICK done \in SUBSET DOMAIN Plain : Complete(done)
      BY <1>1, <2>4 DEF CopyInv, ComparedTrue
    <3>2. Plain' = Plain /\ (\A p : Equal(p)' <=> Equal(p)) /\ SameCount(<<>>)'
      BY <1>1, <2>2, <2>4, SamePlain DEF CopyInv, ComparedTrue
    <3>3. \A p \in DOMAIN Plain : p # NoPath
      BY <1>1, <1>3 DEF IsTree
    <3>4. \A p \in DOMAIN Plain : Front(p) = <<>> \/ Front(p) \in done \cup {Entry}
                                    => p \in done \cup {Entry} \/ In(p, todo)
      BY <1>1, <1>2, <2>1, <3>1, <3>3 DEF Complete
    <3>5. PICK more : more = done \cup {Entry}
      OBVIOUS
    <3>6. more \subseteq DOMAIN Plain /\ Complete(more)'
      BY <2>2, <2>3, <3>1, <3>2, <3>4, <3>5 DEF Complete
    <3> QED BY <2>2, <3>2, <3>6 DEF ComparedTrue, ChunksTrue
  <2> QED BY <1>1, <2>2, <2>4
          DEF CopyInv, TypesTrue, OpenTrue, FoldersTrue, ComparedTrue, CopyExact
<1>6. CASE /\ Entry \in DOMAIN source /\ Entry \in DOMAIN copy
           /\ source[Entry].kind = copy[Entry].kind /\ source[Entry].kind # "dir"
           /\ Len(source[Entry].data) = Len(copy[Entry].data) /\ OpensFile
  <2>1. /\ walk' \in Walks /\ walk'.phase = "verify" /\ walk'.todo = Tail(walk.todo)
        /\ walk'.at = Entry /\ walk'.offset = 0
        /\ walk'.job = walk.job /\ walk'.touched = walk.touched
    BY <1>1, <1>2, <1>6 DEF Walks, OpensFile
  <2>2. ASSUME ~walk.touched PROVE ComparedTrue'
    <3>1. PICK done \in SUBSET DOMAIN Plain : Complete(done)
      BY <1>1, <2>2 DEF CopyInv, ComparedTrue
    <3>2. Plain' = Plain /\ (\A p : Equal(p)' <=> Equal(p)) /\ SameCount(<<>>)'
      BY <1>1, <2>1, <2>2, SamePlain DEF CopyInv, ComparedTrue
    <3>3. \A p \in DOMAIN Plain : p # NoPath
      BY <1>1, <1>3 DEF IsTree
    <3>4. Complete(done)'
      BY <1>1, <1>2, <2>1, <3>1, <3>2, <3>3 DEF Complete
    <3>5. ChunksTrue'
      <4>1. Len(source[Entry].data) \in Nat
        BY <1>1, <1>6, LenProperties DEF IsTree
      <4> QED BY <1>1, <1>6, <2>1, <4>1 DEF ChunksTrue
    <3> QED BY <3>2, <3>4, <3>5 DEF ComparedTrue
  <2> QED BY <1>1, <1>6, <2>1, <2>2
          DEF CopyInv, TypesTrue, OpenTrue, FoldersTrue, ComparedTrue, CopyExact
<1> QED BY <1>4, <1>5, <1>6 DEF VerifyEntry

LEMMA VerifyChunkKeeps ==
    ASSUME CopyInv, NEW cancelled, VerifyChunk(cancelled) PROVE CopyInv'
<1> DEFINE s == source[walk.at].data
           c == copy[walk.at].data
<1>1. /\ walk \in Walks /\ IsTree(source) /\ IsTree(copy) /\ UNCHANGED <<source, copy>>
      /\ walk.phase = "verify" /\ walk.at \in AllPaths /\ walk.offset \in Nat
      /\ walk.at \in DOMAIN source /\ source[walk.at].kind # "dir"
      /\ walk.at \in DOMAIN copy /\ copy[walk.at].kind # "dir"
      /\ walk.at # NoPath
  BY PathsAssumption DEF VerifyChunk, CopyInv, TypesTrue, OpenTrue, Walks
<1>2. /\ source[walk.at] \in [kind : {"dir", "file", "link"}, data : Seq(Nat)]
      /\ copy[walk.at] \in [kind : {"dir", "file", "link"}, data : Seq(Nat)]
      /\ s \in Seq(Nat) /\ c \in Seq(Nat) /\ Len(s) \in Nat /\ Len(c) \in Nat
  BY <1>1, LenProperties DEF IsTree
<1>3. CASE Goes("failed")
  BY <1>1, <1>3, Fails
<1>4. CASE Chunk(s) = Chunk(c) /\ Chunk(s) = <<>> /\ FileDone
  <2>1. /\ walk' \in Walks /\ walk'.phase = "verify" /\ walk'.at = NoPath
        /\ walk'.todo = walk.todo /\ walk'.job = walk.job /\ walk'.touched = walk.touched
    BY <1>1, <1>4 DEF Walks, FileDone
  <2>2. ASSUME ~walk.touched PROVE ComparedTrue'
    <3>1. /\ ChunksTrue /\ SameCount(<<>>)
          /\ \E done \in SUBSET DOMAIN Plain : Complete(done)
      BY <1>1, <2>2 DEF CopyInv, ComparedTrue
    <3>2. PICK done \in SUBSET DOMAIN Plain : Complete(done)
      BY <3>1
    <3>3. Plain' = Plain /\ (\A p : Equal(p)' <=> Equal(p)) /\ SameCount(<<>>)'
      BY <1>1, <2>1, <3>1, SamePlain
    <3>4. ~(walk.offset < Len(s))
      BY <1>4 DEF Chunk
    <3>5. s = c
      <4>1. Len(s) = Len(c) /\ \A i \in 1..Len(s) : s[i] = c[i]
        BY <1>1, <1>2, <3>1, <3>4 DEF ChunksTrue
      <4> QED BY <1>2, <4>1, SeqEqual
    <3>6. Equal(walk.at) /\ walk.at \in DOMAIN Plain
      BY <1>1, <1>2, <3>1, <3>5 DEF Equal, ChunksTrue, Plain
    <3>7. PICK more : more = done \cup {walk.at}
      OBVIOUS
    <3>8. more \subseteq DOMAIN Plain /\ Complete(more)'
      <4>1. \A p \in DOMAIN Plain : Front(p) = walk.at => FALSE
        BY <1>1, PlainTree, EmptySeq DEF CopyInv, TypesTrue, IsTree, Dir, AllPaths
      <4>2. \A p \in DOMAIN Plain : Front(p) = <<>> \/ Front(p) \in done \cup {walk.at}
                => p \in done \cup {walk.at} \/ In(p, walk.todo)
        BY <3>2, <4>1 DEF Complete
      <4> QED BY <2>1, <3>2, <3>3, <3>6, <3>7, <4>2 DEF Complete
    <3> QED BY <2>1, <3>3, <3>8 DEF ComparedTrue, ChunksTrue
  <2> QED BY <1>1, <2>1, <2>2
          DEF CopyInv, TypesTrue, OpenTrue, FoldersTrue, ComparedTrue, CopyExact
<1>5. CASE /\ Chunk(s) = Chunk(c) /\ Chunk(s) # <<>>
           /\ walk' = [walk EXCEPT !.offset = walk.offset + 1,
                                   !.phase = IF cancelled THEN "failed" ELSE walk.phase]
  <2>1. walk.offset < Len(s) /\ walk.offset < Len(c) /\ s[walk.offset + 1] = c[walk.offset + 1]
    BY <1>5 DEF Chunk
  <2>2. /\ walk' \in Walks /\ walk'.phase \in {"verify", "failed"} /\ walk'.at = walk.at
        /\ walk'.offset = walk.offset + 1
        /\ walk'.todo = walk.todo /\ walk'.job = walk.job /\ walk'.touched = walk.touched
    <3>1. /\ walk.offset + 1 \in Nat
          /\ (IF cancelled THEN "failed" ELSE walk.phase) \in {"verify", "failed"}
      BY <1>1
    <3> QED BY <1>1, <1>5, <3>1 DEF Walks
  <2>3. ASSUME ~walk.touched PROVE ComparedTrue'
    <3>1. /\ ChunksTrue /\ SameCount(<<>>)
          /\ \E done \in SUBSET DOMAIN Plain : Complete(done)
      BY <1>1, <2>3 DEF CopyInv, ComparedTrue
    <3>2. Plain' = Plain /\ (\A p : Equal(p)' <=> Equal(p)) /\ SameCount(<<>>)'
      BY <1>1, <2>2, <3>1, SamePlain
    <3>3. ChunksTrue'
      <4>1. \A i \in 1..(walk.offset + 1) : s[i] = c[i]
        BY <1>1, <2>1, <3>1 DEF ChunksTrue
      <4>2. walk.offset + 1 <= Len(s)
        BY <1>1, <1>2, <2>1
      <4> QED BY <1>1, <2>2, <3>1, <4>1, <4>2 DEF ChunksTrue
    <3>4. PICK done \in SUBSET DOMAIN Plain : Complete(done)
      BY <3>1
    <3>5. Complete(done)'
      BY <2>2, <3>2, <3>4 DEF Complete
    <3> QED BY <3>2, <3>3, <3>5 DEF ComparedTrue
  <2> QED BY <1>1, <2>2, <2>3
          DEF CopyInv, TypesTrue, OpenTrue, FoldersTrue, ComparedTrue, CopyExact
<1> QED BY <1>3, <1>4, <1>5 DEF VerifyChunk

LEMMA VerifiedKeeps ==
    ASSUME CopyInv, Verified PROVE CopyInv'
<1>1. /\ walk \in Walks /\ walk.phase = "verify" /\ walk.at = NoPath /\ walk.todo = <<>>
      /\ UNCHANGED <<source, copy>> /\ IsTree(source) /\ IsTree(copy) /\ IsTree(Plain)
  BY PlainTree DEF CopyInv, TypesTrue, Verified, AtEnd
<1>2. walk' \in Walks /\ walk'.phase = "ok" /\ walk'.touched = walk.touched
  BY <1>1 DEF Verified, Goes, Walks
<1>3. ASSUME ~walk.touched PROVE copy = source
  <2>1. SameCount(<<>>) /\ \E done \in SUBSET DOMAIN Plain : Complete(done)
    BY <1>1, <1>3 DEF CopyInv, ComparedTrue
  <2>2. PICK done \in SUBSET DOMAIN Plain : Complete(done)
    BY <2>1
  <2>3. \A p \in DOMAIN Plain : p # NoPath /\ ~In(p, walk.todo)
    BY <1>1, PathsAssumption, NothingIn DEF IsTree
  <2>4. DOMAIN Plain \subseteq done
    BY <1>1, <2>2, <2>3, TreeInduction DEF Complete
  <2>5. \A p \in DOMAIN Plain : Equal(p)
    BY <2>2, <2>4 DEF Complete
  <2>6. CASE Plain = source
    BY <1>1, <2>1, <2>5, <2>6, SameTrees DEF Equal, SameCount
  <2>7. CASE Plain = copy
    BY <1>1, <2>1, <2>5, <2>7, SameTrees DEF Equal, SameCount
  <2> QED BY <2>6, <2>7 DEF Plain
<1> QED BY <1>1, <1>2, <1>3
        DEF CopyInv, TypesTrue, OpenTrue, FoldersTrue, ComparedTrue, CopyExact

\* What the user changes is no folder, and the open file stays a file.
LEMMA ChangedKeeps ==
    ASSUME CopyInv, NEW tree, IsTree(tree), walk.phase \in {"copy", "verify"}, Changed(tree),
           \A p \in DOMAIN Plain : Plain[p] = Dir => p \in DOMAIN tree /\ tree[p] = Dir,
           walk.at \in DOMAIN Plain /\ Plain[walk.at].kind # "dir"
              => walk.at \in DOMAIN tree /\ tree[walk.at].kind # "dir"
    PROVE  CopyInv'
<1>1. /\ walk' \in Walks /\ walk'.touched = TRUE /\ walk'.phase = walk.phase
      /\ walk'.at = walk.at /\ walk'.todo = walk.todo
  BY DEF CopyInv, TypesTrue, Walks, Changed
<1>2. CASE walk.job = "import"
  BY <1>1, <1>2
     DEF CopyInv, TypesTrue, OpenTrue, FoldersTrue, ComparedTrue, CopyExact, Changed, Plain
<1>3. CASE walk.job # "import"
  BY <1>1, <1>3
     DEF CopyInv, TypesTrue, OpenTrue, FoldersTrue, HasFolder, ComparedTrue, CopyExact, Changed,
         Plain
<1> QED BY <1>2, <1>3

LEMMA UserKeeps ==
    ASSUME CopyInv, UserStep PROVE CopyInv'
<1>1. IsTree(Plain)
  BY PlainTree DEF CopyInv
<1>2. ASSUME NEW p \in Paths, Delete(p) PROVE CopyInv'
  <2> DEFINE tree == [q \in DOMAIN Plain \ {p} |-> Plain[q]]
  <2>1. /\ p \in DOMAIN Plain /\ Plain[p].kind # "dir" /\ p # walk.at /\ Changed(tree)
        /\ walk.phase \in {"copy", "verify"}
    BY <1>2 DEF Delete, IsFile
  <2>2. IsTree(tree)
    BY <1>1, <2>1, DropTree
  <2>3. DOMAIN tree = DOMAIN Plain \ {p} /\ \A q \in DOMAIN tree : tree[q] = Plain[q]
    OBVIOUS
  <2> HIDE DEF tree
  <2> QED BY <2>1, <2>2, <2>3, ChangedKeeps DEF Dir
<1>3. ASSUME NEW p \in Paths, NEW data \in Contents, Edit(p, data) PROVE CopyInv'
  <2> DEFINE tree == Put(Plain, p, File(data))
  <2>1. /\ p \in AllPaths /\ data \in Seq(Nat)
        /\ File(data) \in [kind : {"dir", "file", "link"}, data : Seq(Nat)]
        /\ File(data).kind = "file"
    BY PathsAssumption DEF File
  <2>2. /\ Changed(tree) /\ walk.phase \in {"copy", "verify"}
        /\ p \in DOMAIN Plain => Plain[p].kind # "dir"
        /\ HasFolder(Plain, p)
    BY <1>1, <1>3 DEF Edit, IsFile, IsFolder, HasFolder, IsTree
  <2>3. IsTree(tree)
    BY <1>1, <2>1, <2>2, PutTree
  <2>4. /\ DOMAIN tree = DOMAIN Plain \cup {p} /\ tree[p] = File(data)
        /\ \A q \in DOMAIN Plain : q # p => tree[q] = Plain[q]
    BY DEF Put
  <2> HIDE DEF tree
  <2>5. \A q \in DOMAIN Plain : Plain[q] = Dir => q \in DOMAIN tree /\ tree[q] = Dir
    BY <2>2, <2>4 DEF Dir
  <2>6. walk.at \in DOMAIN Plain /\ Plain[walk.at].kind # "dir"
           => walk.at \in DOMAIN tree /\ tree[walk.at].kind # "dir"
    BY <2>1, <2>4
  <2> QED BY <2>2, <2>3, <2>5, <2>6, ChangedKeeps
<1> QED BY <1>2, <1>3 DEF UserStep

-------------------------------------------------------------------------------
(* The job in the helper. *)

LEMMA CopyInit == Init => CopyInv
<1> SUFFICES ASSUME Init PROVE CopyInv
  OBVIOUS
<1>1. IsTree(source) /\ copy = <<>> /\ walk = NoWalk
  BY PlansAssumption DEF Init, SoundPlan
<1>2. IsTree(copy)
  BY <1>1, FS_EmptySet, EmptySeq DEF IsTree
<1>3. walk \in Walks
  BY <1>1, EmptySeq DEF Walks, NoWalk
<1> QED BY <1>1, <1>2, <1>3
        DEF CopyInv, TypesTrue, OpenTrue, FoldersTrue, ComparedTrue, CopyExact, NoWalk

LEMMA StepKeeps ==
    ASSUME CopyInv, NEW cancelled, Step(cancelled) PROVE CopyInv'
  BY ScanKeeps, CopiedKeeps, VerifiedKeeps, CopyEntryKeeps, VerifyEntryKeeps, CopyChunkKeeps,
     VerifyChunkKeeps DEF Step

LEMMA SameCopy ==
    ASSUME CopyInv, UNCHANGED copyVars PROVE CopyInv'
<1>1. source' = source /\ copy' = copy /\ walk' = walk
  BY DEF copyVars
<1>2. TypesTrue' /\ OpenTrue' /\ FoldersTrue' /\ CopyExact'
  BY <1>1 DEF CopyInv, TypesTrue, OpenTrue, FoldersTrue, HasFolder, CopyExact
<1>3. SameCount(<<>>)' = SameCount(<<>>) /\ ChunksTrue' = ChunksTrue /\ Plain' = Plain
  BY <1>1, SamePlain DEF ChunksTrue
<1>4. \A done : Complete(done)' <=> Complete(done)
  BY <1>1, <1>3, SamePlain DEF Complete
<1>5. ComparedTrue'
  BY <1>1, <1>3, <1>4 DEF CopyInv, ComparedTrue
<1> QED BY <1>2, <1>5 DEF CopyInv

LEMMA CopyNext ==
    ASSUME CopyInv, [Next]_vars PROVE CopyInv'
<1>1. CASE User
  BY <1>1, UserKeeps DEF User
<1>2. ASSUME NEW id \in DOMAIN req, BeginJob(id) PROVE CopyInv'
  BY <1>2, BeginKeeps DEF BeginJob
<1>3. ASSUME NEW id \in DOMAIN req, WorkOn(id) PROVE CopyInv'
  BY <1>3, StepKeeps, SameCopy DEF WorkOn
<1>4. CASE UNCHANGED copyVars
  BY <1>4, SameCopy
<1>5. ASSUME NEW id \in DOMAIN req, RequestStep(id) PROVE CopyInv'
  BY <1>2, <1>3, <1>4, <1>5
     DEF RequestStep, Start, Answer, MountRefused, Mount, KeepThread, MountReady, MountFails,
         MountTimesOut, Join, Unmount, NoOpenFiles, InUse, TakeThread, AskToClose, Closed,
         NotClosed, quiet
<1>6. ASSUME NEW d \in DOMAIN drive, DriveStep(d) \/ IsEjected(d) PROVE UNCHANGED copyVars
  BY <1>6 DEF DriveStep, Serve, ServeFails, Closes, Ended, Tell, IsEjected, Leaves, quiet
<1>7. CASE (\E v \in queue : UnmountNext(v)) \/ Exit \/ StdinCloses \/ Programs \/ UNCHANGED vars
  BY <1>4, <1>7 DEF UnmountNext, Exit, StdinCloses, Programs, vars, quiet
<1>8. ASSUME NEW id \in Ids, Receive(id) \/ Cancel(id) PROVE UNCHANGED copyVars
  BY <1>8 DEF Receive, Cancel, quiet
<1> QED BY <1>1, <1>4, <1>5, <1>6, <1>7, <1>8 DEF Next, ThreadStep

\* Whatever the user changes while a folder is copied, a job that ends well has
\* compared all of it, so that the two trees are equal unless the user went on
\* during the comparison (verify, tree.rs:151-262).
THEOREM CopiesAreExact == Spec => []CopyExact
<1>1. Init => CopyInv
  BY CopyInit
<1>2. CopyInv /\ [Next]_vars => CopyInv'
  BY CopyNext
<1>3. CopyInv => CopyExact
  BY DEF CopyInv
<1> QED BY <1>1, <1>2, <1>3, PTL DEF Spec
=================================================================================
