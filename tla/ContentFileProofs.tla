--------------------------- MODULE ContentFileProofs ---------------------------
(***************************************************************************)
(* Proofs about ContentFile, for every block size, overhead, header and    *)
(* longest file: its types hold; while no write fails under a process that *)
(* goes on, what an open file keeps in memory of its length and its id is  *)
(* what is stored, and its calls do to the sealed blocks what ByteFile     *)
(* says of plain bytes.                                                    *)
(***************************************************************************)
EXTENDS ContentFile, SequenceTheorems, TLAPS

-------------------------------------------------------------------------------
(* Arithmetic. *)

(* Products of natural numbers are natural. *)
LEMMA Product == \A m, n \in Nat : m * n \in Nat
OBVIOUS

(* What block a position is in, and where. *)
LEMMA Division ==
    \A n \in Nat : /\ n \div Block \in Nat /\ n % Block \in Nat /\ n % Block < Block
                   /\ n = Block * (n \div Block) + (n % Block)
BY SizesAssumption

(* The constants are numbers, and blocks come after the header. *)
LEMMA Sizes ==
    /\ Block \in Nat \ {0} /\ Overhead \in Nat \ {0} /\ Header \in Nat \ {0}
    /\ MaxLen \in Nat /\ StoredBlock \in Nat \ {0}
    /\ \A i \in Nat : Offset(i) \in Nat /\ Offset(i) >= Header
<1>1. StoredBlock \in Nat \ {0}
  BY SizesAssumption DEF StoredBlock
<1>2. \A i \in Nat : i * StoredBlock \in Nat
  BY <1>1, Product
<1> QED BY <1>1, <1>2, SizesAssumption DEF Offset

(* The stored length of a file of n bytes: none for an empty one, at least the
   header for any other. *)
LEMMA StoredLengths ==
    ASSUME NEW n \in Nat
    PROVE  /\ StoredLen(n) \in Nat
           /\ n = 0 => StoredLen(n) = 0
           /\ n # 0 => StoredLen(n) >= Header
<1>1. (n \div Block) * StoredBlock \in Nat
  BY Division, Sizes, Product
<1> QED BY <1>1, Division, Sizes, SMTT(30) DEF StoredLen

(* plain_len gives a length for any stored length. *)
LEMMA PlainLengths ==
    ASSUME NEW n \in Nat
    PROVE  PlainLen(n) \in Nat
<1>1. CASE n <= Header
  BY <1>1 DEF PlainLen
<1>2. CASE n > Header
  <2> DEFINE body == n - Header
  <2>1. body \in Nat
    BY <1>2, Sizes
  <2>2. body \div StoredBlock \in Nat /\ body % StoredBlock \in Nat
    BY <2>1, Sizes
  <2>3. (body \div StoredBlock) * Block \in Nat
    BY <2>2, Sizes, Product
  <2> QED BY <1>2, <2>2, <2>3, Sizes DEF PlainLen, Larger
<1> QED BY <1>1, <1>2, Sizes

(* The length read back from a stored file is the one it was written with:
   plain_len undoes stored_len (content.rs), for every block size, overhead
   and header, and at the seams of blocks, too. *)
THEOREM LengthsAgree ==
    ASSUME NEW n \in Nat
    PROVE  PlainLen(StoredLen(n)) = n
<1> DEFINE q == n \div Block
           r == n % Block
           tail == IF r > 0 THEN r + Overhead ELSE 0
           body == q * StoredBlock + tail
<1>1. q \in Nat /\ r \in Nat /\ r < Block /\ n = Block * q + r
  BY Division
<1>2. tail \in Nat /\ tail < StoredBlock
  BY <1>1, Sizes DEF StoredBlock
<1>3. q * StoredBlock \in Nat /\ body \in Nat
  BY <1>1, <1>2, Sizes, Product
<1>4. body \div StoredBlock = q /\ body % StoredBlock = tail
  BY <1>1, <1>2, <1>3, Sizes
<1>5. CASE n = 0
  BY <1>5, Sizes DEF StoredLen, PlainLen
<1>6. CASE n # 0
  <2>1. body > 0
    <3>1. CASE r > 0
      BY <3>1, <1>1, <1>3, Sizes
    <3>2. CASE r = 0
      <4>1. q # 0
        BY <1>1, <1>6, <3>2, Sizes
      <4>2. q * StoredBlock >= StoredBlock
        BY <4>1, <1>1, Sizes
      <4> QED BY <4>2, <1>2, <1>3, Sizes
    <3> QED BY <3>1, <3>2, <1>1
  <2>2. StoredLen(n) = Header + body
    BY <1>6, <1>3, <1>1, Sizes DEF StoredLen
  <2>3. PlainLen(StoredLen(n)) = q * Block + Larger(tail - Overhead, 0)
    <3> HIDE DEF body, tail
    <3>1. ~(Header + body <= Header) /\ (Header + body) - Header = body
      BY <2>1, <1>3, Sizes
    <3> QED BY <3>1, <2>2, <1>4 DEF PlainLen
  <2>4. Larger(tail - Overhead, 0) = r
    BY <1>1, Sizes DEF Larger
  <2> QED BY <2>3, <2>4, <1>1, Sizes
<1> QED BY <1>5, <1>6

(* Positions of blocks: the last of n blocks from "first" on. *)
LEMMA LastBlock ==
    ASSUME NEW first \in Nat, NEW last \in Nat, first <= last
    PROVE  Offset(last) = Offset(first) + (last - first) * StoredBlock
<1>1. last * StoredBlock = first * StoredBlock + (last - first) * StoredBlock
  BY Sizes
<1>2. first * StoredBlock \in Nat /\ (last - first) * StoredBlock \in Nat
  <2>1. last - first \in Nat
    OBVIOUS
  <2> QED BY <2>1, Sizes, Product
<1> QED BY <1>1, <1>2, Sizes DEF Offset

(* Later positions are in later blocks. *)
LEMMA BlockOrder ==
    ASSUME NEW a \in Nat, NEW b \in Nat, a <= b
    PROVE  a \div Block \in Nat /\ b \div Block \in Nat /\ a \div Block <= b \div Block
BY Sizes

(* Equal intervals have equal ends. *)
LEMMA Intervals == \A a, b \in Nat : 1..a = 1..b => a = b
<1> SUFFICES ASSUME NEW a \in Nat, NEW b \in Nat, 1..a = 1..b, a # b PROVE FALSE
  OBVIOUS
<1>1. a \in 1..a <=> a \in 1..b
  OBVIOUS
<1>2. b \in 1..a <=> b \in 1..b
  OBVIOUS
<1> QED BY <1>1, <1>2

(* Rows of bytes built one by one are sequences. *)
LEMMA Rows ==
    ASSUME NEW n \in Int, NEW f, f = [k \in 1..n |-> f[k]]
    PROVE  /\ f \in Seq({f[k] : k \in 1..n})
           /\ Len(f) \in Nat
           /\ n \in Nat => Len(f) = n
<1> DEFINE S == {f[k] : k \in 1..n}
           m == IF n < 0 THEN 0 ELSE n
<1>1. m \in Nat /\ 1..m = 1..n
  OBVIOUS
<1>2. f \in [1..m -> S]
  BY <1>1
<1>3. f \in Seq(S)
  BY <1>1, <1>2, SeqDef, SMTT(30)
<1>4. Len(f) \in Nat /\ DOMAIN f = 1..Len(f)
  BY <1>3, LenProperties
<1>5. DOMAIN f = 1..m
  BY <1>2
<1>6. Len(f) = m
  BY <1>1, <1>4, <1>5, Intervals
<1>7. n \in Nat => Len(f) = n
  BY <1>6
<1>8. f \in Seq({f[k] : k \in 1..n})
  BY <1>3, Zenon
<1> QED BY <1>4, <1>7, <1>8, Zenon

-------------------------------------------------------------------------------
(* What the steps of a call make of the file and of memory. *)

(* The parts a step relies on. *)
Shape(d) == {"len", "id", "blocks"} \subseteq DOMAIN d /\ d.len \in Nat
Fields(s) == /\ {"disk", "id", "len", "res"} \subseteq DOMAIN s
             /\ Shape(s.disk) /\ s.len \in Nat
Same(s) == s.len = s.disk.len /\ s.id = s.disk.id
Good(s) == Fields(s) /\ (s.res # "failed" => Same(s))

(* ensure_header: a new header is a new id and length in memory too. *)
LEMMA EnsureHeaderGood ==
    ASSUME NEW s, Good(s), NEW cut, cut.bytes \in Nat
    PROVE  /\ Good(EnsureHeader(s, cut))
           /\ s.res # "ok" => EnsureHeader(s, cut) = s
<1>1. CASE s.res # "ok" \/ s.id # NoId
  BY <1>1 DEF EnsureHeader
<1>2. CASE s.res = "ok" /\ s.id = NoId /\ cut.step = "header"
  <2> DEFINE n == Larger(s.disk.len, cut.bytes)
             e == [[s EXCEPT !.disk.len = n] EXCEPT !.res = "failed"]
  <2>1. EnsureHeader(s, cut) = e
    BY <1>2 DEF EnsureHeader, Fails
  <2>2. n \in Nat
    BY DEF Larger, Good, Fields, Shape
  <2> HIDE DEF n
  <2>3. Fields(e) /\ e.res = "failed"
    BY <2>2 DEF Good, Fields, Shape
  <2> QED BY <1>2, <2>1, <2>3 DEF Good
<1>3. CASE s.res = "ok" /\ s.id = NoId /\ cut.step # "header"
  <2> DEFINE id == FreshId(s.disk)
             e  == [s EXCEPT !.disk.len = Larger(@, Header), !.disk.id = id,
                             !.id = id, !.len = Larger(@, Header)]
  <2> HIDE DEF id
  <2>1. EnsureHeader(s, cut) = e
    BY <1>3 DEF EnsureHeader, id
  <2>2. Fields(e) /\ Same(e)
    BY <1>3, Sizes DEF Good, Fields, Shape, Same, Larger
  <2> QED BY <1>3, <2>1, <2>2 DEF Good
<1> QED BY <1>1, <1>2, <1>3

(* What writing blocks does to the length and the id of the file. *)
LEMMA PutShape ==
    ASSUME NEW d, Shape(d), NEW first \in Nat, NEW out, NEW n \in Nat
    PROVE  /\ Shape(Put(d, first, out, n))
           /\ Put(d, first, out, n).id = d.id
           /\ n # 0 => Put(d, first, out, n).len = Larger(d.len, Offset(first) + n)
<1>1. Offset(first) + n \in Nat
  BY Sizes
<1> QED BY <1>1 DEF Put, Shape, Larger

(* The bytes of sealed blocks that are written together. *)
Total(out) == (Len(out) - 1) * StoredBlock + Len(out[Len(out)]) + Overhead

Sealable(out) == Len(out) \in Nat \ {0} /\ Len(out[Len(out)]) \in Nat

(* Writing blocks fails, or leaves the id and makes the file at least as long
   as their end; memory stays as it is. *)
LEMMA WriteBlocksFields ==
    ASSUME NEW s, Fields(s), NEW step, NEW cut, cut.bytes \in Nat, NEW first \in Nat, NEW out,
           Sealable(out)
    PROVE  LET w == WriteBlocks(s, step, cut, first, out)
           IN  /\ Fields(w)
               /\ \/ w.res = "failed"
                  \/ /\ w.res = s.res /\ w.id = s.id /\ w.len = s.len /\ w.disk.id = s.disk.id
                     /\ w.disk.len = Larger(s.disk.len, Offset(first) + Total(out))
<1> DEFINE w == WriteBlocks(s, step, cut, first, out)
           part == Smaller(cut.bytes, Total(out) - 1)
<1>1. Total(out) \in Nat \ {0}
  <2>1. Len(out) - 1 \in Nat /\ Len(out[Len(out)]) \in Nat
    BY DEF Sealable
  <2>2. (Len(out) - 1) * StoredBlock \in Nat
    BY <2>1, Sizes, Product
  <2>3. \A x, y \in Nat : x + y + Overhead \in Nat \ {0}
    BY Sizes
  <2> QED BY <2>1, <2>2, <2>3 DEF Total
<1>2. part \in Nat
  BY <1>1 DEF Smaller
<1>3. CASE cut.step = step
  <2> DEFINE d == Put(s.disk, first, out, part)
  <2>1. w = [[s EXCEPT !.disk = d] EXCEPT !.res = "failed"]
    BY <1>3 DEF WriteBlocks, Fails, Total, Fields
  <2>2. Shape(d)
    BY <1>2, PutShape DEF Fields
  <2> HIDE DEF d
  <2> QED BY <2>1, <2>2 DEF Fields
<1>4. CASE cut.step # step
  <2> DEFINE d == Put(s.disk, first, out, Total(out))
  <2>1. w = [s EXCEPT !.disk = d]
    BY <1>4 DEF WriteBlocks, Total, Fields
  <2>2. Shape(d) /\ d.id = s.disk.id /\ d.len = Larger(s.disk.len, Offset(first) + Total(out))
    BY <1>1, PutShape DEF Fields
  <2> HIDE DEF d
  <2> QED BY <2>1, <2>2 DEF Fields
<1> QED BY <1>3, <1>4

(* So does cutting or growing the file, which then has that length. *)
LEMMA ResizeToFields ==
    ASSUME NEW s, Fields(s), NEW step, NEW cut, NEW n \in Nat
    PROVE  LET w == ResizeTo(s, step, cut, n)
           IN  /\ Fields(w)
               /\ s.res # "ok" => w = s
               /\ s.res = "ok" =>
                    \/ w.res = "failed"
                    \/ /\ w.res = "ok" /\ w.id = s.id /\ w.len = s.len /\ w.disk.len = n
                       /\ w.disk.id = IF n < Header THEN NoId ELSE s.disk.id
<1> DEFINE w == ResizeTo(s, step, cut, n)
<1>1. CASE s.res # "ok"
  BY <1>1 DEF ResizeTo
<1>2. CASE s.res = "ok" /\ cut.step = step
  BY <1>2 DEF ResizeTo, Fails, Fields
<1>3. CASE s.res = "ok" /\ cut.step # step
  <2> DEFINE d == Resize(s.disk, n)
  <2>1. w = [s EXCEPT !.disk = d]
    BY <1>3 DEF ResizeTo, Fields
  <2>2. Shape(d) /\ d.len = n /\ d.id = IF n < Header THEN NoId ELSE s.disk.id
    BY DEF Resize, Shape
  <2> HIDE DEF d
  <2> QED BY <1>3, <2>1, <2>2 DEF Fields
<1> QED BY <1>1, <1>2, <1>3

-------------------------------------------------------------------------------
(* The calls. *)

(* An open file's length is a number. *)
LEMMA SizeType == \A s : s.len \in Nat => Size(s) \in Nat
BY PlainLengths DEF Size

(* Before it grows, the file loses what is behind its last block. *)
LEMMA DropStrayGood ==
    ASSUME NEW s, Good(s), s.res = "ok", NEW cut
    PROVE  LET w == DropStray(s, cut)
           IN  /\ Fields(w)
               /\ w.res = "failed" \/ (w.res = "ok" /\ w.id = s.id /\ w.disk.id = s.id)
<1> DEFINE exact == Larger(Header, StoredLen(Size(s)))
           w == ResizeTo(s, "exact", cut, exact)
<1>1. exact \in Nat /\ ~(exact < Header)
  BY SizeType, StoredLengths, Sizes DEF Good, Fields, Larger
<1>2. Fields(s) /\ s.id = s.disk.id
  BY DEF Good, Same
<1>3. CASE s.len # exact
  <2>1. DropStray(s, cut) = w
    BY <1>3 DEF DropStray
  <2> HIDE DEF exact
  <2>2. Fields(w) /\ (w.res = "failed" \/ (w.res = "ok" /\ w.id = s.id /\ w.disk.id = s.disk.id))
    BY <1>1, <1>2, ResizeToFields
  <2> QED BY <1>2, <2>1, <2>2
<1>4. CASE s.len = exact
  BY <1>2, <1>4 DEF DropStray
<1> QED BY <1>3, <1>4

(* grow, for any length but 0. *)
LEMMA GrowGood ==
    ASSUME NEW s0, Good(s0), NEW len \in Nat \ {0}, NEW cut, cut.bytes \in Nat
    PROVE  Good(Grow(s0, len, cut))
<1> DEFINE s       == EnsureHeader(s0, cut)
           size    == Size(s)
           partial == size % Block
           index   == size \div Block
           old     == Open(s.disk.blocks[index], s.id, partial)
           grown   == Smaller(len - index * Block, Block)
           out     == <<old \o Zeros(grown - partial)>>
           padded  == IF s.res # "ok" THEN s
                      ELSE IF partial > 0 THEN
                        IF Corrupt(old) THEN Fails(s, "corrupt")
                        ELSE WriteBlocks(s, "pad", cut, index, out)
                      ELSE DropStray(s, cut)
           done    == ResizeTo(padded, "extend", cut, StoredLen(len))
<1>0. Grow(s0, len, cut) = IF done.res = "ok" THEN [done EXCEPT !.len = StoredLen(len)] ELSE done
  BY DEF Grow
<1>1. Good(s)
  BY EnsureHeaderGood
<1>2. size \in Nat /\ partial \in Nat /\ index \in Nat
  <2>1. size \in Nat
    BY <1>1, SizeType DEF Good, Fields
  <2> HIDE DEF size
  <2> QED BY <2>1, Division
<1>3. Fields(s) /\ (s.res # "failed" => Same(s))
  BY <1>1 DEF Good
<1>4. /\ Fields(padded)
      /\ padded.res = "ok" => padded.id = padded.disk.id
      /\ padded.res # "ok" => Good(padded)
  <2>1. CASE s.res # "ok"
    BY <2>1, <1>1, <1>3
  <2>2. CASE s.res = "ok" /\ partial > 0 /\ Corrupt(old)
    <3>1. padded = [s EXCEPT !.res = "corrupt"]
      BY <2>2 DEF Fails
    <3>2. Same(s) /\ Fields(s)
      BY <1>3, <2>2
    <3> HIDE DEF s, padded
    <3> QED BY <3>1, <3>2 DEF Fields, Good, Same
  <2>3. CASE s.res = "ok" /\ partial > 0 /\ ~Corrupt(old)
    <3> DEFINE w == WriteBlocks(s, "pad", cut, index, out)
    <3>1. padded = w
      BY <2>3
    <3>2. Len(out) = 1 /\ Len(out[Len(out)]) \in Nat
      <4> DEFINE zeros == Zeros(grown - partial)
                 A == {old[k] : k \in 1..partial}
                 B == {zeros[k] : k \in 1..(grown - partial)}
      <4>1. old \in Seq(A)
        <5>1. old = [k \in 1..partial |-> old[k]]
          BY DEF Open
        <5> HIDE DEF old, partial
        <5> QED BY <5>1, <1>2, Rows
      <4>2. grown - partial \in Int
        <5>1. index * Block \in Int
          BY <1>2, Sizes, Product
        <5>2. grown \in Int
          BY <5>1, Sizes DEF Smaller
        <5> HIDE DEF grown, partial
        <5> QED BY <5>2, <1>2
      <4>3. zeros \in Seq(B)
        <5>1. zeros = [k \in 1..(grown - partial) |-> zeros[k]]
          BY DEF Zeros
        <5> HIDE DEF zeros, grown, partial
        <5> QED BY <5>1, <4>2, Rows
      <4>4. Len(old \o zeros) \in Nat
        <5> HIDE DEF old, zeros, A, B
        <5>1. old \in Seq(A \cup B) /\ zeros \in Seq(A \cup B)
          BY <4>1, <4>3, SeqMonotonic
        <5> QED BY <5>1, ConcatProperties, LenProperties
      <4> HIDE DEF old, zeros
      <4> QED BY <4>4
    <3> HIDE DEF s, index, out, partial, size, old, grown, padded, done
    <3>3. index \in Nat /\ Sealable(out) /\ Fields(s)
      BY <1>2, <1>3, <3>2 DEF Sealable
    <3>4. /\ Fields(w)
          /\ w.res = "failed" \/ (w.res = s.res /\ w.id = s.id /\ w.disk.id = s.disk.id)
      BY <3>3, WriteBlocksFields
    <3>5. s.id = s.disk.id
      BY <1>3, <2>3 DEF Same
    <3> HIDE DEF w
    <3> QED BY <2>3, <3>1, <3>4, <3>5 DEF Good
  <2>4. CASE s.res = "ok" /\ ~(partial > 0)
    <3>1. padded = DropStray(s, cut)
      BY <2>4
    <3> HIDE DEF s
    <3>2. /\ Fields(DropStray(s, cut))
          /\ \/ DropStray(s, cut).res = "failed"
             \/ /\ DropStray(s, cut).res = "ok" /\ DropStray(s, cut).id = s.id
                /\ DropStray(s, cut).disk.id = s.id
      BY <1>1, <2>4, DropStrayGood
    <3> HIDE DEF padded
    <3> QED BY <3>1, <3>2 DEF Good
  <2> QED BY <2>1, <2>2, <2>3, <2>4
<1> HIDE DEF padded
<1>5. StoredLen(len) \in Nat /\ ~(StoredLen(len) < Header)
  BY StoredLengths, Sizes
<1>6. /\ Fields(done)
      /\ padded.res # "ok" => done = padded
      /\ padded.res = "ok" => \/ done.res = "failed"
                              \/ /\ done.res = "ok" /\ done.id = padded.id
                                 /\ done.disk.len = StoredLen(len)
                                 /\ done.disk.id = padded.disk.id
  BY <1>4, <1>5, ResizeToFields
<1> HIDE DEF done
<1>7. CASE done.res = "ok"
  <2>1. done.id = done.disk.id /\ done.disk.len = StoredLen(len)
    BY <1>4, <1>6, <1>7
  <2>2. Good([done EXCEPT !.len = StoredLen(len)])
    BY <1>5, <1>6, <2>1 DEF Good, Fields, Same
  <2> QED BY <1>0, <1>7, <2>2
<1>8. CASE done.res # "ok"
  <2>1. Good(done)
    BY <1>4, <1>6, <1>8 DEF Good
  <2> QED BY <1>0, <1>8, <2>1
<1> QED BY <1>7, <1>8

(* write_locked keeps memory in step with the file. *)
LEMMA WriteLockedGood ==
    ASSUME NEW s0, Good(s0), NEW offset \in Nat, NEW data \in Seq(Nat), data # <<>>,
           NEW cut, cut.bytes \in Nat
    PROVE  Good(WriteLocked(s0, offset, data, cut))
<1> DEFINE g     == IF offset > Size(s0) THEN Grow(s0, offset, cut) ELSE s0
           s     == EnsureHeader(g, cut)
           first == offset \div Block
           last  == (offset + Len(data) - 1) \div Block
           out   == [k \in 1..last - first + 1 |-> Patched(s, first + k - 1, offset, data)]
           end   == Offset(last) + Len(out[Len(out)]) + Overhead
           done  == WriteBlocks(s, "data", cut, first, out)
<1>0. WriteLocked(s0, offset, data, cut) =
        IF s.res # "ok" THEN s
        ELSE IF \E k \in DOMAIN out : Corrupt(out[k]) THEN Fails(s, "corrupt")
        ELSE IF done.res # "ok" THEN done
        ELSE [done EXCEPT !.len = Larger(@, end)]
  BY DEF WriteLocked
<1>1. Good(s)
  <2>1. CASE offset > Size(s0)
    <3>1. offset # 0
      BY <2>1, SizeType DEF Good, Fields
    <3>2. Good(g)
      BY <2>1, <3>1, GrowGood
    <3> HIDE DEF g
    <3> QED BY <3>2, EnsureHeaderGood
  <2>2. CASE ~(offset > Size(s0))
    BY <2>2, EnsureHeaderGood
  <2> QED BY <2>1, <2>2
<1> HIDE DEF s
<1>2. Len(data) \in Nat \ {0}
  BY EmptySeq
<1>3. first \in Nat /\ last \in Nat /\ first <= last
  <2>1. offset + Len(data) - 1 \in Nat /\ offset <= offset + Len(data) - 1
    BY <1>2
  <2> QED BY <2>1, BlockOrder
<1>4. Sealable(out) /\ Len(out) = last - first + 1
  <2>1. last - first + 1 \in Nat \ {0}
    BY <1>3
  <2>2. \A k \in 1..last - first + 1 : Len(out[k]) \in Nat
    <3> TAKE k \in 1..last - first + 1
    <3> DEFINE index  == first + k - 1
               start  == index * Block
               oldLen == Smaller(Larger(Size(s) - start, 0), Block)
               to     == Smaller(offset + Len(data), start + Block) - start
               n      == Larger(oldLen, to)
               p      == Patched(s, index, offset, data)
    <3>1. start \in Int
      <4>1. index \in Nat
        BY <1>3
      <4> QED BY <4>1, Sizes, Product
    <3>2. Size(s) \in Nat
      BY <1>1, SizeType DEF Good, Fields
    <3> HIDE DEF start
    <3>3. oldLen \in Int /\ to \in Int
      BY <1>2, <3>1, <3>2, Sizes DEF Smaller, Larger
    <3>4. n \in Int
      BY <3>3 DEF Larger
    <3>5. p = [i \in 1..n |-> p[i]]
      BY DEF Patched, start
    <3> HIDE DEF p, n
    <3>6. Len(p) \in Nat
      BY <3>4, <3>5, Rows
    <3> QED BY <3>6 DEF p
  <2>3. Len(out) = last - first + 1
    <3>1. out = [k \in 1..last - first + 1 |-> out[k]]
      OBVIOUS
    <3> HIDE DEF out, first, last
    <3> QED BY <2>1, <3>1, Rows
  <2> HIDE DEF out, first, last
  <2> QED BY <2>1, <2>2, <2>3 DEF Sealable
<1> HIDE DEF first, last, out
<1>5. Fields(s) /\ (s.res # "failed" => Same(s))
  BY <1>1 DEF Good
<1>6. /\ Fields(done)
      /\ \/ done.res = "failed"
         \/ /\ done.res = s.res /\ done.id = s.id /\ done.len = s.len /\ done.disk.id = s.disk.id
            /\ done.disk.len = Larger(s.disk.len, Offset(first) + Total(out))
  BY <1>3, <1>4, <1>5, WriteBlocksFields
<1> HIDE DEF done
<1>7. end = Offset(first) + Total(out) /\ end \in Nat
  <2>1. Offset(last) = Offset(first) + (last - first) * StoredBlock
    BY <1>3, LastBlock
  <2>2. Total(out) = (last - first) * StoredBlock + Len(out[Len(out)]) + Overhead
    <3>1. Len(out) - 1 = last - first
      BY <1>3, <1>4
    <3> QED BY <3>1 DEF Total
  <2>3. (last - first) * StoredBlock \in Nat
    <3>1. last - first \in Nat
      BY <1>3
    <3> QED BY <3>1, Sizes, Product
  <2>4. \A a, x, y \in Nat : /\ (a + x) + y + Overhead = a + (x + y + Overhead)
                             /\ (a + x) + y + Overhead \in Nat
    BY Sizes
  <2>5. Offset(first) \in Nat /\ Len(out[Len(out)]) \in Nat
    BY <1>3, <1>4, Sizes DEF Sealable
  <2> DEFINE a == Offset(first)
             x == (last - first) * StoredBlock
             y == Len(out[Len(out)])
  <2>6. a \in Nat /\ x \in Nat /\ y \in Nat
    BY <2>3, <2>5
  <2>7. end = (a + x) + y + Overhead /\ Offset(first) + Total(out) = a + (x + y + Overhead)
    BY <2>1, <2>2, Zenon
  <2> HIDE DEF a, x, y, end
  <2> QED BY <2>4, <2>6, <2>7
<1>8. CASE s.res # "ok"
  BY <1>0, <1>1, <1>8
<1>9. CASE s.res = "ok"
  <2>1. Good(Fails(s, "corrupt"))
    BY <1>5, <1>9 DEF Good, Fields, Same, Fails
  <2>2. done.res # "ok" => Good(done)
    BY <1>6, <1>9 DEF Good
  <2>3. done.res = "ok" => Good([done EXCEPT !.len = Larger(@, end)])
    <3> SUFFICES ASSUME done.res = "ok" PROVE Good([done EXCEPT !.len = Larger(@, end)])
      OBVIOUS
    <3> DEFINE w == [done EXCEPT !.len = Larger(@, end)]
    <3> HIDE DEF end
    <3>1. w.id = w.disk.id /\ w.len = w.disk.len
      BY <1>5, <1>6, <1>7, <1>9 DEF Fields, Same
    <3>2. Fields(w)
      BY <1>6, <1>7 DEF Fields, Larger
    <3> HIDE DEF w
    <3> QED BY <3>1, <3>2 DEF w, Good, Same
  <2> QED BY <1>0, <1>9, <2>1, <2>2, <2>3
<1> QED BY <1>8, <1>9

(* set_len to something shorter does, too. *)
LEMMA ShrinkGood ==
    ASSUME NEW s, Good(s), s.res = "ok", NEW len \in Nat, NEW cut, cut.bytes \in Nat
    PROVE  Good(Shrink(s, len, cut))
<1> DEFINE index  == len \div Block
           keep   == len % Block
           old    == Open(s.disk.blocks[index], s.id, Smaller(Size(s) - index * Block, Block))
           out    == <<SubSeq(old, 1, keep)>>
           w      == WriteBlocks(s, "reseal", cut, index, out)
           sealed == IF keep = 0 THEN s ELSE IF Corrupt(old) THEN Fails(s, "corrupt") ELSE w
           done   == ResizeTo(sealed, "cut", cut, StoredLen(len))
           kept   == [done EXCEPT !.len = StoredLen(len), !.id = IdAfter(@, len)]
<1>0. Shrink(s, len, cut) = IF done.res # "ok" THEN done ELSE kept
  BY DEF Shrink
<1>1. index \in Nat /\ keep \in Nat
  BY Division
<1>2. Sealable(out)
  <2> DEFINE A == {old[k] : k \in 1..keep}
  <2> HIDE DEF old
  <2>1. \A i \in 1..keep : old[i] \in A
    OBVIOUS
  <2> HIDE DEF keep, A
  <2>2. SubSeq(old, 1, keep) \in Seq(A)
    BY <1>1, <2>1, SubSeqProperties
  <2>3. Len(SubSeq(old, 1, keep)) \in Nat
    BY <2>2, LenProperties
  <2> DEFINE block == SubSeq(old, 1, keep)
  <2>4. Len(block) \in Nat
    BY <2>3
  <2> HIDE DEF block
  <2>5. Sealable(<<block>>)
    <3>1. Len(<<block>>) = 1 /\ <<block>>[1] = block
      OBVIOUS
    <3> QED BY <2>4, <3>1 DEF Sealable
  <2> QED BY <2>5 DEF block
<1>3. Fields(s) /\ Same(s)
  BY DEF Good
<1> HIDE DEF index, out
<1>4. /\ Fields(w)
      /\ w.res = "failed" \/ (w.res = s.res /\ w.id = s.id /\ w.disk.id = s.disk.id)
  BY <1>1, <1>2, <1>3, WriteBlocksFields
<1> HIDE DEF w
<1>5. /\ Fields(sealed)
      /\ sealed.res = "ok" => sealed.id = sealed.disk.id
      /\ sealed.res # "ok" => Good(sealed)
  <2>1. CASE keep = 0
    BY <2>1, <1>3 DEF Same
  <2>2. CASE keep # 0 /\ Corrupt(old)
    <3>1. sealed = [s EXCEPT !.res = "corrupt"]
      BY <2>2 DEF Fails
    <3> HIDE DEF sealed
    <3> QED BY <3>1, <1>3 DEF Fields, Good, Same
  <2>3. CASE keep # 0 /\ ~Corrupt(old)
    BY <2>3, <1>3, <1>4 DEF Same, Good
  <2> QED BY <2>1, <2>2, <2>3
<1> HIDE DEF sealed
<1>6. StoredLen(len) \in Nat /\ (StoredLen(len) < Header <=> len = 0)
  BY StoredLengths, Sizes
<1>7. /\ Fields(done)
      /\ sealed.res # "ok" => done = sealed
      /\ sealed.res = "ok" => \/ done.res = "failed"
                              \/ /\ done.res = "ok" /\ done.id = sealed.id
                                 /\ done.disk.len = StoredLen(len)
                                 /\ done.disk.id = IF len = 0 THEN NoId ELSE sealed.disk.id
  BY <1>5, <1>6, ResizeToFields
<1> HIDE DEF done
<1>8. CASE done.res = "ok"
  <2>1. done.disk.len = StoredLen(len) /\ done.disk.id = IdAfter(done.id, len)
    BY <1>5, <1>7, <1>8 DEF IdAfter
  <2>2. Good(kept)
    BY <1>6, <1>7, <2>1 DEF Good, Fields, Same
  <2> QED BY <1>0, <1>8, <2>2
<1>9. CASE done.res # "ok"
  <2>1. Good(done)
    BY <1>5, <1>7, <1>9 DEF Good
  <2> QED BY <1>0, <1>9, <2>1
<1> QED BY <1>8, <1>9

-------------------------------------------------------------------------------
(* Lengths and positions, as numbers of blocks and a rest.                 *)

(* Blocks lie behind one another. *)
LEMMA OffsetOrder ==
    ASSUME NEW i \in Nat, NEW j \in Nat, i < j
    PROVE  Offset(i) + StoredBlock <= Offset(j)
<1>1. Offset(j) = Offset(i) + (j - i) * StoredBlock
  BY LastBlock
<1>2. \A n \in Nat \ {0} : n * StoredBlock >= StoredBlock /\ n * StoredBlock \in Nat
  BY Sizes
<1>3. j - i \in Nat \ {0} /\ Offset(i) \in Nat /\ StoredBlock \in Nat
  BY Sizes
<1>4. (j - i) * StoredBlock >= StoredBlock /\ (j - i) * StoredBlock \in Nat
  BY <1>2, <1>3
<1> QED BY <1>1, <1>3, <1>4

(* A stored length ends in some block, or in the header. *)
LEMMA StoredPlace ==
    ASSUME NEW n \in Nat, n >= Header
    PROVE  \E i \in Nat, r \in Nat : r < StoredBlock /\ n = Offset(i) + r
<1> DEFINE body == n - Header
           i == body \div StoredBlock
           r == body % StoredBlock
<1>1. body \in Nat /\ n = Header + body
  BY Sizes
<1> HIDE DEF body
<1>2. i \in Nat /\ r \in Nat /\ r < StoredBlock /\ body = StoredBlock * i + r
  BY <1>1, Sizes
<1>3. StoredBlock * i = i * StoredBlock /\ i * StoredBlock \in Nat
  BY <1>2, Sizes, Product
<1>4. n = Offset(i) + r
  BY <1>1, <1>2, <1>3, Sizes DEF Offset
<1> QED BY <1>2, <1>4

(* The plaintext of a stored length that ends r bytes into block i. *)
LEMMA PlainAt ==
    ASSUME NEW i \in Nat, NEW r \in Nat, r < StoredBlock
    PROVE  PlainLen(Offset(i) + r) = i * Block + Larger(r - Overhead, 0)
<1> DEFINE body == i * StoredBlock + r
<1>1. i * StoredBlock \in Nat /\ body \in Nat /\ i * Block \in Nat
  BY Sizes, Product
<1>2. body \div StoredBlock = i /\ body % StoredBlock = r
  BY <1>1, Sizes
<1>3. Offset(i) + r = Header + body
  BY <1>1, Sizes DEF Offset
<1>4. CASE body = 0
  <2>1. r = 0 /\ i * StoredBlock = 0
    BY <1>1, <1>4
  <2>2. i = 0
    BY <2>1, Sizes
  <2>3. PlainLen(Header) = 0 /\ 0 * Block = 0 /\ Larger(0 - Overhead, 0) = 0
    BY Sizes DEF PlainLen, Larger
  <2> QED BY <1>3, <1>4, <2>1, <2>2, <2>3, Sizes
<1>5. CASE body # 0
  <2> HIDE DEF body
  <2>1. ~(Header + body <= Header) /\ (Header + body) - Header = body
    BY <1>1, <1>5, Sizes
  <2> QED BY <1>2, <1>3, <2>1 DEF PlainLen
<1> QED BY <1>4, <1>5

(* Longer files are stored longer, and the other way round. *)
LEMMA PlainGrows ==
    ASSUME NEW m \in Nat, NEW n \in Nat, m <= n
    PROVE  PlainLen(m) <= PlainLen(n)
<1>1. CASE m < Header
  BY <1>1, PlainLengths, Sizes DEF PlainLen
<1>2. CASE m >= Header
  <2>1. PICK i \in Nat, r \in Nat : r < StoredBlock /\ m = Offset(i) + r
    BY <1>2, StoredPlace
  <2>2. n >= Header
    BY <1>2, Sizes
  <2>3. PICK j \in Nat, t \in Nat : t < StoredBlock /\ n = Offset(j) + t
    BY <2>2, StoredPlace
  <2>4. /\ PlainLen(m) = i * Block + Larger(r - Overhead, 0)
        /\ PlainLen(n) = j * Block + Larger(t - Overhead, 0)
    BY <2>1, <2>3, PlainAt
  <2>5. /\ Offset(i) \in Nat /\ Offset(j) \in Nat /\ i * Block \in Nat /\ j * Block \in Nat
        /\ StoredBlock = Block + Overhead
    BY Sizes, Product DEF StoredBlock
  <2>6. i <= j
    <3> SUFFICES ASSUME j < i PROVE FALSE
      OBVIOUS
    <3>1. Offset(j) + StoredBlock <= Offset(i)
      BY OffsetOrder
    <3> QED BY <2>1, <2>3, <2>5, <3>1, Sizes
  <2>7. CASE i = j
    BY <2>1, <2>3, <2>4, <2>5, <2>7, Sizes DEF Larger
  <2>8. CASE i < j
    <3>1. i * Block + Block <= j * Block
      <4>1. \A k \in Nat \ {0} : k * Block >= Block /\ k * Block \in Nat
        BY Sizes
      <4>2. j - i \in Nat \ {0} /\ j * Block = i * Block + (j - i) * Block
        BY <2>8, Sizes
      <4>3. (j - i) * Block >= Block /\ (j - i) * Block \in Nat
        BY <4>1, <4>2
      <4> QED BY <2>5, <4>2, <4>3, Sizes
    <3>2. Larger(r - Overhead, 0) <= Block /\ Larger(r - Overhead, 0) \in Nat /\ Larger(t - Overhead, 0) \in Nat
      BY <2>1, <2>3, <2>5, Sizes DEF Larger
    <3> QED BY <2>4, <2>5, <3>1, <3>2, Sizes
  <2> QED BY <2>6, <2>7, <2>8
<1> QED BY <1>1, <1>2, Sizes

(* The length of the longer of two stored files. *)
LEMMA PlainLarger ==
    ASSUME NEW m \in Nat, NEW n \in Nat
    PROVE  /\ Larger(m, n) \in Nat
           /\ PlainLen(Larger(m, n)) = Larger(PlainLen(m), PlainLen(n))
<1>1. CASE m < n
  BY <1>1, PlainGrows, PlainLengths DEF Larger
<1>2. CASE ~(m < n)
  BY <1>2, PlainGrows, PlainLengths DEF Larger
<1> QED BY <1>1, <1>2

(* The stored length of a file whose last block is i, with k bytes in it. *)
LEMMA StoredAt ==
    ASSUME NEW i \in Nat, NEW k \in 1..Block
    PROVE  /\ i * Block + k \in Nat \ {0}
           /\ StoredLen(i * Block + k) = Offset(i) + k + Overhead
<1> DEFINE n == i * Block + k
<1>1. i * Block \in Nat /\ n \in Nat \ {0} /\ k \in Nat
  BY Sizes, Product
<1>2. CASE k < Block
  <2>1. n \div Block = i /\ n % Block = k
    BY <1>1, <1>2, Sizes
  <2>2. i * StoredBlock \in Nat
    BY Sizes, Product
  <2> HIDE DEF n
  <2> QED BY <1>1, <2>1, <2>2, Sizes DEF StoredLen, Offset, n
<1>3. CASE k = Block
  <2>1. (i + 1) * Block = i * Block + Block
    BY Sizes
  <2>2. n = (i + 1) * Block
    BY <1>3, <2>1
  <2>3. n \div Block = i + 1 /\ n % Block = 0
    BY <2>2, Sizes
  <2>4. (i + 1) * StoredBlock = i * StoredBlock + StoredBlock /\ i * StoredBlock \in Nat
    BY Sizes, Product
  <2> HIDE DEF n
  <2> QED BY <1>1, <1>3, <2>3, <2>4, Sizes DEF StoredLen, Offset, StoredBlock, n
<1> QED BY <1>2, <1>3, Sizes

(* Every length but 0 has a last block. *)
LEMMA LastPlace ==
    ASSUME NEW n \in Nat \ {0}
    PROVE  \E i \in Nat, k \in 1..Block : n = i * Block + k
<1> DEFINE i == (n - 1) \div Block
           r == (n - 1) % Block
<1>1. n - 1 \in Nat
  OBVIOUS
<1>2. i \in Nat /\ r \in Nat /\ r < Block /\ n - 1 = Block * i + r
  BY <1>1, Division
<1> HIDE DEF i, r
<1>3. Block * i = i * Block /\ i * Block \in Nat
  BY <1>2, Sizes, Product
<1>4. r + 1 \in 1..Block /\ n = i * Block + (r + 1)
  BY <1>2, <1>3, Sizes
<1> QED BY <1>2, <1>4

LEMMA StoredGrows ==
    ASSUME NEW m \in Nat, NEW n \in Nat, m <= n
    PROVE  StoredLen(m) <= StoredLen(n)
<1>1. StoredLen(m) \in Nat /\ StoredLen(n) \in Nat
  BY StoredLengths
<1>2. PlainLen(StoredLen(m)) = m /\ PlainLen(StoredLen(n)) = n
  BY LengthsAgree
<1>3. CASE StoredLen(n) < StoredLen(m)
  <2>1. n <= m
    BY <1>1, <1>2, <1>3, PlainGrows
  <2>2. m = n
    BY <2>1
  <2> QED BY <1>1, <1>3, <2>2
<1> QED BY <1>1, <1>3
(* Blocks begin one block after the other, and every position is in one. *)
LEMMA BlockStarts ==
    /\ \A i \in Nat : i * Block \in Nat
    /\ \A i, j \in Nat : i < j => i * Block + Block <= j * Block
    /\ \A n \in Nat : /\ n \div Block \in Nat /\ (n \div Block) * Block <= n
                      /\ n < (n \div Block) * Block + Block
                      /\ n = (n \div Block) * Block + (n % Block)
<1>1. \A i \in Nat : i * Block \in Nat
  BY Sizes, Product
<1>2. ASSUME NEW i \in Nat, NEW j \in Nat, i < j PROVE i * Block + Block <= j * Block
  <2>1. \A k \in Nat \ {0} : k * Block >= Block /\ k * Block \in Nat
    BY Sizes
  <2>2. j - i \in Nat \ {0} /\ j * Block = i * Block + (j - i) * Block
    BY <1>2, Sizes
  <2>3. (j - i) * Block >= Block /\ (j - i) * Block \in Nat
    BY <2>1, <2>2
  <2> QED BY <1>1, <2>2, <2>3, Sizes
<1>3. ASSUME NEW n \in Nat
      PROVE  /\ n \div Block \in Nat /\ (n \div Block) * Block <= n
             /\ n < (n \div Block) * Block + Block
             /\ n = (n \div Block) * Block + (n % Block)
  <2> DEFINE q == n \div Block
             r == n % Block
  <2>1. q \in Nat /\ r \in Nat /\ r < Block /\ n = Block * q + r
    BY Division
  <2> HIDE DEF q, r
  <2>2. Block * q = q * Block /\ q * Block \in Nat
    BY <2>1, Sizes, Product
  <2>3. q \in Nat /\ q * Block <= n /\ n < q * Block + Block /\ n = q * Block + r
    BY <2>1, <2>2, Sizes
  <2> QED BY <2>3 DEF q, r
<1> QED BY <1>1, <1>2, <1>3

(* The block a position is in is the one that begins before it and ends after it. *)
LEMMA BlockOf ==
    ASSUME NEW i \in Nat, NEW n \in Nat, i * Block <= n, n < i * Block + Block
    PROVE  n \div Block = i
<1> DEFINE q == n \div Block
<1>1. q \in Nat /\ q * Block <= n /\ n < q * Block + Block
  BY BlockStarts
<1> HIDE DEF q
<1>2. ~(q < i) /\ ~(i < q)
  <2>1. i * Block \in Nat /\ q * Block \in Nat
    BY <1>1, BlockStarts
  <2>2. q < i => q * Block + Block <= i * Block
    BY <1>1, BlockStarts
  <2>3. i < q => i * Block + Block <= q * Block
    BY <1>1, BlockStarts
  <2> QED BY <1>1, <2>1, <2>2, <2>3, Sizes
<1> QED BY <1>1, <1>2 DEF q

-------------------------------------------------------------------------------
(* The types. *)

Limit   == StoredLen(MaxLen)
Written == {0} \cup UNION {{d[k] : k \in DOMAIN d} : d \in Data}
Plains  == UNION {[1..n -> Written] : n \in 1..Block}
Disks   == [len : 0..Limit, id : Ids \cup {NoId}, blocks : [0..Last -> StoredBlocks]]
Calls   == [disk : Disks, id : Ids \cup {NoId}, len : 0..Limit,
            res : {"ok", "corrupt", "failed"}]

(* Nothing is behind the end of the file, and a file without header is empty. *)
Holes(d) == \A i \in 0..Last : Offset(i) >= d.len => d.blocks[i] = Hole
Sound(s) == /\ s \in Calls /\ s.id = s.disk.id /\ Holes(s.disk)
            /\ s.id = NoId => s.len < Header /\ s.disk.len < Header

LEMMA Limits ==
    /\ Limit \in Nat /\ Last \in Nat
    /\ \A n \in 0..MaxLen : StoredLen(n) \in 0..Limit
    /\ \A n \in 0..Limit : PlainLen(n) \in 0..MaxLen
    /\ MaxLen # 0 => Header <= Limit
<1>1. Limit \in Nat /\ (MaxLen # 0 => Header <= Limit) /\ PlainLen(Limit) = MaxLen
  BY StoredLengths, LengthsAgree, Sizes DEF Limit
<1>2. Last \in Nat
  BY Division, Sizes DEF Last
<1>3. \A n \in 0..MaxLen : StoredLen(n) \in 0..Limit
  BY StoredLengths, StoredGrows, Sizes, <1>1 DEF Limit
<1>4. \A n \in 0..Limit : PlainLen(n) \in 0..MaxLen
  BY PlainLengths, PlainGrows, Sizes, <1>1
<1> QED BY <1>1, <1>2, <1>3, <1>4

LEMMA PlainTypes ==
    /\ StoredBlocks = {Hole, Torn} \cup {Seal(id, p) : id \in Ids, p \in Plains}
    /\ \A p \in Plains : /\ Len(p) \in 1..Block /\ p \in [1..Len(p) -> Written]
                         /\ p \in Seq(Written)
    /\ \A n \in 1..Block : [1..n -> Written] \subseteq Plains
<1>1. StoredBlocks = {Hole, Torn} \cup {Seal(id, p) : id \in Ids, p \in Plains}
  BY DEF StoredBlocks, Plains, Written
<1>2. ASSUME NEW p \in Plains
      PROVE  Len(p) \in 1..Block /\ p \in [1..Len(p) -> Written] /\ p \in Seq(Written)
  <2>1. PICK n \in 1..Block : p \in [1..n -> Written]
    BY DEF Plains
  <2>2. n \in Nat
    BY Sizes
  <2>3. p \in Seq(Written)
    BY <2>1, <2>2, IsASeq
  <2>4. Len(p) = n
    BY <2>1, <2>2, <2>3, Intervals, LenProperties
  <2> QED BY <2>1, <2>3, <2>4
<1> QED BY <1>1, <1>2 DEF Plains

(* What opening a stored block gives: so many bytes that were written once, or that
   cannot be read. *)
LEMMA OpenTypes ==
    ASSUME NEW block \in StoredBlocks, NEW id, NEW n \in Nat
    PROVE  /\ Open(block, id, n) \in [1..n -> Written \cup {Bad}]
           /\ block = Hole => \A k \in 1..n : Open(block, id, n)[k] = 0
<1>1. \A k \in 1..n : Open(block, id, n)[k] \in Written \cup {Bad}
  <2> SUFFICES ASSUME NEW k \in 1..n PROVE Open(block, id, n)[k] \in Written \cup {Bad}
    OBVIOUS
  <2>1. CASE block.kind = "hole"
    BY <2>1 DEF Open, Written
  <2>2. CASE block.kind = "sealed" /\ block.id = id /\ Len(block.plain) = n
    <3>1. Open(block, id, n)[k] = block.plain[k]
      BY <2>2 DEF Open
    <3>2. PICK i \in Ids, p \in Plains : block = Seal(i, p)
      BY <2>2, PlainTypes DEF Hole, Torn
    <3>3. block.plain = p
      BY <3>2 DEF Seal
    <3> QED BY <2>2, <3>1, <3>3, PlainTypes
  <2>3. CASE ~(block.kind = "hole") /\ ~(block.kind = "sealed" /\ block.id = id /\ Len(block.plain) = n)
    BY <2>3 DEF Open
  <2> QED BY <2>1, <2>2, <2>3
<1>2. Open(block, id, n) = [k \in 1..n |-> Open(block, id, n)[k]]
  BY DEF Open
<1>3. block = Hole => \A k \in 1..n : Open(block, id, n)[k] = 0
  BY DEF Open, Hole
<1> QED BY <1>1, <1>2, <1>3

(* A sealed block opens with its id and length. *)
LEMMA OpenSealed ==
    ASSUME NEW id, NEW p \in Plains
    PROVE  Open(Seal(id, p), id, Len(p)) = p
<1>1. Open(Seal(id, p), id, Len(p)) = [k \in 1..Len(p) |-> p[k]]
  BY DEF Open, Seal
<1> QED BY <1>1, PlainTypes

LEMMA NotCorrupt ==
    ASSUME NEW n \in Nat, NEW p \in [1..n -> Written \cup {Bad}], ~Corrupt(p)
    PROVE  p \in [1..n -> Written]
BY DEF Corrupt

-------------------------------------------------------------------------------
(* What the disk steps keep. *)

(* A row of sealed blocks from block "first" on that ends within the longest file. *)
Fits(first, out) == /\ first \in Nat /\ Len(out) \in Nat \ {0} /\ DOMAIN out = 1..Len(out)
                    /\ \A k \in 1..Len(out) : out[k] \in Plains
                    /\ Offset(first) + Total(out) <= Limit

LEMMA TotalType ==
    ASSUME NEW first, NEW out, Fits(first, out)
    PROVE  /\ Total(out) \in Nat \ {0} /\ Len(out[Len(out)]) \in 1..Block
           /\ Sealable(out)
<1>1. Len(out) \in 1..Len(out) /\ Len(out) - 1 \in Nat
  BY DEF Fits
<1>2. Len(out[Len(out)]) \in 1..Block
  BY <1>1, PlainTypes DEF Fits
<1>3. (Len(out) - 1) * StoredBlock \in Nat
  BY <1>1, Sizes, Product
<1>4. \A x \in Nat, y \in 1..Block : x + y + Overhead \in Nat \ {0}
  BY Sizes
<1>5. Total(out) \in Nat \ {0}
  BY <1>2, <1>3, <1>4 DEF Total
<1>6. Sealable(out)
  <2>1. Len(out[Len(out)]) \in Nat
    BY <1>2, Sizes, SMTT(30)
  <2> QED BY <2>1 DEF Sealable, Fits
<1> QED BY <1>2, <1>5, <1>6

(* The three sorts of stored blocks. *)
LEMMA BlockTypes ==
    /\ Hole \in StoredBlocks /\ Torn \in StoredBlocks
    /\ \A id \in Ids, p \in Plains : Seal(id, p) \in StoredBlocks
<1> HIDE DEF Hole, Torn, Seal
<1> QED BY PlainTypes

LEMMA PutSound ==
    ASSUME NEW d \in Disks, Holes(d), d.id # NoId, NEW first, NEW out, Fits(first, out),
           NEW n \in 0..Total(out)
    PROVE  /\ Put(d, first, out, n) \in Disks /\ Holes(Put(d, first, out, n))
           /\ Put(d, first, out, n).id = d.id
           /\ d.len <= Put(d, first, out, n).len
<1> DEFINE p == Put(d, first, out, n)
           start(i) == (i - first) * StoredBlock
           stop(i)  == start(i) + Len(out[i - first + 1]) + Overhead
           new(i) == IF i - first + 1 \notin DOMAIN out \/ n <= start(i) THEN d.blocks[i]
                     ELSE IF n >= stop(i) THEN Seal(d.id, out[i - first + 1]) ELSE Torn
<1>1. /\ d.len \in 0..Limit /\ d.id \in Ids /\ d.blocks \in [0..Last -> StoredBlocks]
      /\ DOMAIN d = {"len", "id", "blocks"} /\ d = [len |-> d.len, id |-> d.id, blocks |-> d.blocks]
  BY DEF Disks
<1>2. /\ p.len = IF n = 0 THEN d.len ELSE Larger(d.len, Offset(first) + n)
      /\ p.id = d.id /\ p.blocks = [i \in 0..Last |-> new(i)]
      /\ p = [len |-> p.len, id |-> p.id, blocks |-> p.blocks]
  <2> DEFINE len == IF n = 0 THEN d.len ELSE Larger(d.len, Offset(first) + n)
             blocks == [i \in 0..Last |-> new(i)]
  <2>1. p = [d EXCEPT !.len = len, !.blocks = blocks]
    BY DEF Put
  <2> HIDE DEF len, blocks, p
  <2>2. p = [len |-> len, id |-> d.id, blocks |-> blocks]
    BY <1>1, <2>1
  <2>3. p.len = len /\ p.id = d.id /\ p.blocks = blocks
    BY <2>2
  <2>4. p = [len |-> p.len, id |-> p.id, blocks |-> p.blocks]
    BY <2>2, <2>3
  <2> QED BY <2>3, <2>4 DEF len, blocks
<1>3. /\ Offset(first) \in Nat /\ Total(out) \in Nat /\ n \in Nat /\ Limit \in Nat
      /\ Offset(first) + Total(out) <= Limit /\ first \in Nat
  <2>1. Total(out) \in Nat /\ Limit \in Nat /\ first \in Nat /\ Offset(first) + Total(out) <= Limit
    BY TotalType, Limits DEF Fits
  <2>2. Offset(first) \in Nat
    BY <2>1, Sizes
  <2>3. n \in Nat
    BY <2>1
  <2> QED BY <2>1, <2>2, <2>3
<1>4. p.len \in 0..Limit /\ d.len <= p.len /\ (n # 0 => Offset(first) + n <= p.len)
  BY <1>1, <1>2, <1>3 DEF Larger
<1>5. ASSUME NEW i \in 0..Last PROVE new(i) \in StoredBlocks
  <2>1. CASE new(i) = d.blocks[i]
    BY <1>1, <2>1
  <2>2. CASE new(i) = Torn
    BY <2>2, BlockTypes
  <2>3. CASE i - first + 1 \in DOMAIN out /\ new(i) = Seal(d.id, out[i - first + 1])
    <3>1. out[i - first + 1] \in Plains
      BY <2>3 DEF Fits
    <3> HIDE DEF new
    <3> QED BY <1>1, <2>3, <3>1, BlockTypes
  <2> QED BY <2>1, <2>2, <2>3
<1>6. ASSUME NEW i \in 0..Last, Offset(i) >= p.len PROVE new(i) = Hole
  <2>1. i \in Nat /\ Offset(i) \in Nat
    BY Limits, Sizes
  <2>2. d.blocks[i] = Hole
    BY <1>1, <1>4, <1>6, <2>1 DEF Holes
  <2>3. CASE i - first + 1 \notin DOMAIN out
    BY <2>2, <2>3
  <2>4. CASE i - first + 1 \in DOMAIN out
    <3>1. first <= i
      BY <1>3, <2>1, <2>4 DEF Fits
    <3>2. Offset(i) = Offset(first) + start(i)
      BY <1>3, <2>1, <3>1, LastBlock
    <3>3. start(i) \in Nat
      BY <1>3, <2>1, <3>1, Sizes, Product
    <3>4. n <= start(i)
      <4> HIDE DEF start, p
      <4> QED BY <1>1, <1>3, <1>4, <1>6, <2>1, <3>2, <3>3
    <3> QED BY <2>2, <3>4
  <2> QED BY <2>3, <2>4
<1> HIDE DEF new
<1>7. p \in Disks
  <2>1. p.blocks \in [0..Last -> StoredBlocks] /\ p.id \in Ids
    BY <1>1, <1>2, <1>5
  <2> HIDE DEF p
  <2> QED BY <1>2, <1>4, <2>1 DEF Disks
<1>8. Holes(p)
  BY <1>2, <1>6 DEF Holes
<1> QED BY <1>2, <1>4, <1>7, <1>8

LEMMA ResizeSound ==
    ASSUME NEW d \in Disks, NEW n \in 0..Limit
    PROVE  /\ Resize(d, n) \in Disks /\ Holes(Resize(d, n))
           /\ Resize(d, n).len = n /\ Resize(d, n).id = IF n < Header THEN NoId ELSE d.id
<1> DEFINE r == Resize(d, n)
           new(i) == IF Offset(i) >= n THEN Hole
                     ELSE IF d.blocks[i].kind = "sealed" /\ Len(d.blocks[i].plain) + Overhead > n - Offset(i)
                     THEN Torn ELSE d.blocks[i]
<1>1. d.id \in Ids \cup {NoId} /\ d.blocks \in [0..Last -> StoredBlocks]
  BY DEF Disks
<1>2. r = [len |-> n, id |-> IF n < Header THEN NoId ELSE d.id, blocks |-> [i \in 0..Last |-> new(i)]]
  BY DEF Resize
<1>3. ASSUME NEW i \in 0..Last PROVE new(i) \in StoredBlocks
  <2>1. new(i) \in {Hole, Torn, d.blocks[i]}
    OBVIOUS
  <2> HIDE DEF new
  <2> QED BY <1>1, <2>1, BlockTypes
<1>4. ASSUME NEW i \in 0..Last, Offset(i) >= n PROVE new(i) = Hole
  BY <1>4
<1> HIDE DEF new, r
<1>5. r \in Disks
  BY <1>1, <1>2, <1>3 DEF Disks
<1>6. Holes(r)
  BY <1>2, <1>4 DEF Holes
<1> QED BY <1>2, <1>5, <1>6 DEF r

(* A call's record and its parts. *)
LEMMA CallParts ==
    ASSUME NEW s, Sound(s)
    PROVE  /\ s = [disk |-> s.disk, id |-> s.id, len |-> s.len, res |-> s.res]
           /\ s.disk \in Disks /\ s.id \in Ids \cup {NoId} /\ s.len \in 0..Limit
           /\ s.res \in {"ok", "corrupt", "failed"} /\ s.len \in Nat
           /\ s.id = s.disk.id /\ Holes(s.disk)
           /\ s.disk.len \in 0..Limit /\ s.disk.blocks \in [0..Last -> StoredBlocks]
           /\ Size(s) \in 0..MaxLen
           /\ s.id = NoId => s.len < Header /\ s.disk.len < Header
<1>1. s \in Calls /\ s.disk \in Disks /\ s.len \in 0..Limit
  BY DEF Sound, Calls
<1>2. s.len \in Nat
  BY <1>1, Limits
<1>3. Size(s) \in 0..MaxLen
  BY <1>1, Limits DEF Size
<1> QED BY <1>1, <1>2, <1>3 DEF Sound, Calls, Disks

LEMMA CallMade ==
    ASSUME NEW d \in Disks, Holes(d), NEW n \in 0..Limit, NEW res \in {"ok", "corrupt", "failed"},
           d.id = NoId => n < Header /\ d.len < Header
    PROVE  Sound([disk |-> d, id |-> d.id, len |-> n, res |-> res])
<1>1. d.id \in Ids \cup {NoId}
  BY DEF Disks
<1> QED BY <1>1 DEF Sound, Calls

LEMMA FailsSound ==
    ASSUME NEW s, Sound(s), NEW why \in {"corrupt", "failed"}
    PROVE  /\ Sound(Fails(s, why)) /\ Fails(s, why).res = why
           /\ Fails(s, why).id = s.id /\ Fails(s, why).len = s.len /\ Fails(s, why).disk = s.disk
<1> DEFINE f == [disk |-> s.disk, id |-> s.disk.id, len |-> s.len, res |-> why]
<1>1. Fails(s, why) = f
  BY CallParts DEF Fails
<1>2. Sound(f)
  BY CallParts, CallMade
<1> QED BY <1>1, <1>2, CallParts

LEMMA WriteBlocksSound ==
    ASSUME NEW s, Sound(s), s.res = "ok", s.id # NoId, NEW step, NEW cut, cut.bytes \in Nat,
           NEW first, NEW out, Fits(first, out)
    PROVE  LET w == WriteBlocks(s, step, cut, first, out)
           IN  /\ Sound(w) /\ w.id = s.id /\ w.len = s.len /\ w.res \in {"ok", "failed"}
               /\ w.res = "ok" => w.disk = Put(s.disk, first, out, Total(out))
               /\ w.res = "failed" => \E n \in 0..Total(out) :
                                         n < Total(out) /\ w.disk = Put(s.disk, first, out, n)
<1> DEFINE w == WriteBlocks(s, step, cut, first, out)
           part == Smaller(cut.bytes, Total(out) - 1)
<1>1. Total(out) \in Nat \ {0}
  BY TotalType
<1>2. part \in 0..Total(out) /\ part < Total(out) /\ Total(out) \in 0..Total(out)
  BY <1>1 DEF Smaller
<1>3. s.disk \in Disks /\ Holes(s.disk) /\ s.disk.id # NoId /\ s.len \in 0..Limit /\ s.id = s.disk.id
  BY CallParts
<1> HIDE DEF part
<1>4. ASSUME NEW n \in 0..Total(out), NEW res \in {"ok", "failed"}
      PROVE  LET p == Put(s.disk, first, out, n)
             IN  /\ Sound([disk |-> p, id |-> s.id, len |-> s.len, res |-> res])
  <2> DEFINE p == Put(s.disk, first, out, n)
  <2>1. p \in Disks /\ Holes(p) /\ p.id = s.disk.id
    BY <1>3, PutSound
  <2> HIDE DEF p
  <2>2. Sound([disk |-> p, id |-> p.id, len |-> s.len, res |-> res])
    BY <1>3, <2>1, CallMade
  <2> QED BY <1>3, <2>1, <2>2 DEF p
<1>5. CASE cut.step = step
  <2> DEFINE d == Put(s.disk, first, out, part)
             f == [disk |-> d, id |-> s.id, len |-> s.len, res |-> "failed"]
  <2>1. w = [[s EXCEPT !.disk = d] EXCEPT !.res = "failed"]
    BY <1>5, CallParts DEF WriteBlocks, Fails, Total, part
  <2>2. Sound(f)
    BY <1>2, <1>4
  <2> HIDE DEF w, d
  <2>3. w = f
    <3>1. [s EXCEPT !.disk = d] = [disk |-> d, id |-> s.id, len |-> s.len, res |-> s.res]
      BY CallParts
    <3> QED BY <2>1, <3>1
  <2>4. f.id = s.id /\ f.len = s.len /\ f.disk = d /\ f.res = "failed"
    OBVIOUS
  <2> HIDE DEF f
  <2> QED BY <1>2, <2>2, <2>3, <2>4 DEF w, d
<1>6. CASE cut.step # step
  <2> DEFINE d == Put(s.disk, first, out, Total(out))
             f == [disk |-> d, id |-> s.id, len |-> s.len, res |-> "ok"]
  <2>1. w = [s EXCEPT !.disk = d]
    BY <1>6, CallParts DEF WriteBlocks, Total
  <2>2. Sound(f)
    BY <1>2, <1>4
  <2> HIDE DEF w, d
  <2>3. w = f
    BY <2>1, CallParts
  <2>4. f.id = s.id /\ f.len = s.len /\ f.disk = d /\ f.res = "ok"
    OBVIOUS
  <2> HIDE DEF f
  <2> QED BY <2>2, <2>3, <2>4 DEF w, d
<1> QED BY <1>5, <1>6

LEMMA ResizeToSound ==
    ASSUME NEW s, Sound(s), s.id # NoId, NEW step, NEW cut, NEW n \in 0..Limit, n >= Header
    PROVE  LET w == ResizeTo(s, step, cut, n)
           IN  /\ Sound(w) /\ w.id = s.id /\ w.len = s.len
               /\ s.res # "ok" => w = s
               /\ s.res = "ok" => \/ w.res = "failed" /\ w.disk = s.disk
                                  \/ w.res = "ok" /\ w.disk = Resize(s.disk, n)
<1> DEFINE w == ResizeTo(s, step, cut, n)
<1>1. CASE s.res # "ok"
  BY <1>1 DEF ResizeTo
<1>2. CASE s.res = "ok" /\ cut.step = step
  BY <1>2, FailsSound DEF ResizeTo
<1>3. CASE s.res = "ok" /\ cut.step # step
  <2> DEFINE d == Resize(s.disk, n)
             f == [disk |-> d, id |-> s.id, len |-> s.len, res |-> "ok"]
  <2>1. w = f
    BY <1>3, CallParts DEF ResizeTo
  <2>2. ~(n < Header)
    BY Limits, Sizes
  <2>3. s.disk \in Disks /\ s.id = s.disk.id /\ s.len \in 0..Limit
    BY CallParts
  <2>4. d \in Disks /\ Holes(d) /\ d.id = s.id
    BY <2>2, <2>3, ResizeSound
  <2> HIDE DEF d
  <2>5. Sound([disk |-> d, id |-> d.id, len |-> s.len, res |-> "ok"])
    BY <2>3, <2>4, CallMade
  <2>6. Sound(f)
    BY <2>4, <2>5
  <2>7. f.id = s.id /\ f.len = s.len /\ f.disk = d /\ f.res = "ok"
    OBVIOUS
  <2> HIDE DEF f
  <2> QED BY <1>3, <2>1, <2>6, <2>7 DEF d
<1> QED BY <1>1, <1>2, <1>3

(* Without a header there are no blocks, so every id is fresh. *)
LEMMA FreshIdType ==
    ASSUME NEW d \in Disks, Holes(d), d.len < Header
    PROVE  FreshId(d) \in Ids
<1>1. \A i \in 0..Last : Offset(i) >= d.len
  <2> SUFFICES ASSUME NEW i \in 0..Last PROVE Offset(i) >= d.len
    OBVIOUS
  <2>1. i \in Nat /\ d.len \in 0..Limit
    BY Limits DEF Disks
  <2>2. Offset(i) \in Nat /\ Offset(i) >= Header
    BY <2>1, Sizes
  <2> QED BY <2>1, <2>2, Sizes, Limits
<1>2. \A i \in 0..Last : d.blocks[i].id = NoId
  BY <1>1 DEF Holes, Hole
<1>3. PICK id \in Ids : TRUE
  BY FaultsAssumption
<1>4. \A i \in 0..Last : d.blocks[i].id # id
  BY <1>2, <1>3, FaultsAssumption
<1> QED BY <1>4 DEF FreshId

(* A longer file has no new block. *)
LEMMA HoldsLonger ==
    ASSUME NEW d \in Disks, Holes(d), NEW n \in Nat, d.len <= n, NEW id
    PROVE  Holes([len |-> n, id |-> id, blocks |-> d.blocks])
<1> SUFFICES ASSUME NEW i \in 0..Last, Offset(i) >= n PROVE d.blocks[i] = Hole
  BY DEF Holes
<1>1. i \in Nat /\ d.len \in 0..Limit
  BY Limits DEF Disks
<1>2. Offset(i) >= d.len
  <2>1. Offset(i) \in Nat
    BY <1>1, Sizes
  <2> QED BY <1>1, <2>1, Limits
<1> QED BY <1>2 DEF Holes

LEMMA EnsureHeaderSound ==
    ASSUME NEW s, Sound(s), NEW cut, cut.bytes \in Nat, cut.step = "header" => cut.bytes < Header,
           MaxLen # 0
    PROVE  LET e == EnsureHeader(s, cut)
           IN  /\ Sound(e)
               /\ s.res # "ok" => e = s
               /\ s.res = "ok" => e.res \in {"ok", "failed"}
               /\ e.res = "ok" => e.id # NoId
               /\ s.id # NoId => e = s
               /\ e.disk.blocks = s.disk.blocks /\ Size(e) = Size(s)
<1>1. CASE s.res # "ok" \/ s.id # NoId
  BY <1>1 DEF EnsureHeader
<1> DEFINE d == s.disk
<1>2. /\ s = [disk |-> d, id |-> d.id, len |-> s.len, res |-> s.res] /\ s.id = d.id
      /\ d = [len |-> d.len, id |-> d.id, blocks |-> d.blocks]
      /\ d.len \in 0..Limit /\ d.blocks \in [0..Last -> StoredBlocks] /\ d \in Disks /\ Holes(d)
      /\ s.len \in 0..Limit
  <2>1. d \in Disks /\ s.id = d.id
    BY CallParts
  <2>2. d = [len |-> d.len, id |-> d.id, blocks |-> d.blocks]
    BY <2>1 DEF Disks
  <2> HIDE DEF d
  <2> QED BY <2>1, <2>2, CallParts DEF d
<1>3. s.id = NoId => d.len < Header /\ s.len < Header
  BY CallParts
<1>4. Header \in 0..Limit /\ Header \in Nat
  BY Limits, Sizes
<1> HIDE DEF d
<1>5. CASE s.res = "ok" /\ s.id = NoId /\ cut.step = "header"
  <2> DEFINE n == Larger(d.len, cut.bytes)
             f == [len |-> n, id |-> NoId, blocks |-> d.blocks]
             e == [disk |-> f, id |-> f.id, len |-> s.len, res |-> "failed"]
  <2>1. n \in 0..Limit /\ n < Header /\ d.len <= n
    <3>1. d.len < Header /\ d.len \in Nat /\ Limit \in Nat /\ Header <= Limit
      BY <1>2, <1>3, <1>4, <1>5, Limits
    <3>2. cut.bytes \in Nat /\ cut.bytes < Header
      BY <1>5
    <3> QED BY <1>4, <3>1, <3>2 DEF Larger
  <2> HIDE DEF n
  <2>2. EnsureHeader(s, cut) = e
    <3>1. EnsureHeader(s, cut) = [[s EXCEPT !.disk.len = n] EXCEPT !.res = "failed"]
      BY <1>5 DEF EnsureHeader, Fails, n, d
    <3> QED BY <1>2, <1>5, <3>1 DEF d
  <2>3. f \in Disks
    BY <1>2, <2>1 DEF Disks
  <2>4. Holes(f)
    BY <1>2, <2>1, HoldsLonger
  <2>5. f.id = NoId /\ f.len = n /\ f.blocks = d.blocks
    OBVIOUS
  <2> HIDE DEF f
  <2>6. Sound(e)
    BY <1>2, <1>3, <1>5, <2>1, <2>3, <2>4, <2>5, CallMade
  <2>7. Size(e) = Size(s) /\ e.disk.blocks = s.disk.blocks /\ e.res = "failed"
    BY <2>5 DEF Size, d
  <2> HIDE DEF e
  <2> QED BY <1>5, <2>2, <2>6, <2>7
<1>6. CASE s.res = "ok" /\ s.id = NoId /\ cut.step # "header"
  <2> DEFINE id == FreshId(d)
             f == [len |-> Header, id |-> id, blocks |-> d.blocks]
             e == [disk |-> f, id |-> f.id, len |-> Header, res |-> "ok"]
  <2>1. id \in Ids /\ id # NoId
    BY <1>2, <1>3, <1>6, FreshIdType, FaultsAssumption
  <2> HIDE DEF id
  <2>2. Larger(d.len, Header) = Header /\ Larger(s.len, Header) = Header
    BY <1>2, <1>3, <1>4, <1>6, Limits DEF Larger
  <2>3. EnsureHeader(s, cut) = e
    <3>1. EnsureHeader(s, cut) = [s EXCEPT !.disk.len = Larger(@, Header), !.disk.id = id,
                                           !.id = id, !.len = Larger(@, Header)]
      BY <1>6 DEF EnsureHeader, id, d
    <3> QED BY <1>2, <1>6, <2>2, <3>1 DEF d
  <2>4. f \in Disks
    BY <1>2, <1>4, <2>1 DEF Disks
  <2>5. Holes(f)
    BY <1>2, <1>3, <1>4, <1>6, HoldsLonger
  <2>6. f.id = id /\ f.blocks = d.blocks
    OBVIOUS
  <2> HIDE DEF f
  <2>7. Sound(e)
    BY <1>4, <2>1, <2>4, <2>5, <2>6, CallMade
  <2>8. Size(e) = Size(s)
    BY <1>2, <1>3, <1>4, <1>6, Limits DEF Size, PlainLen
  <2>9. e.disk.blocks = s.disk.blocks /\ e.res = "ok" /\ e.id # NoId
    BY <2>1, <2>6 DEF d
  <2> HIDE DEF e
  <2> QED BY <1>6, <2>3, <2>7, <2>8, <2>9
<1> QED BY <1>1, <1>5, <1>6, CallParts

-------------------------------------------------------------------------------
(* The calls keep their types. *)

(* Sealed blocks that end within the longest file fit. *)
LEMMA PlainsFit ==
    ASSUME NEW first \in Nat, NEW last \in Nat, first <= last, NEW out,
           Len(out) = last - first + 1, DOMAIN out = 1..Len(out),
           \A k \in 1..Len(out) : out[k] \in Plains,
           last * Block + Len(out[Len(out)]) <= MaxLen
    PROVE  /\ Fits(first, out)
           /\ Offset(first) + Total(out) = StoredLen(last * Block + Len(out[Len(out)]))
           /\ Offset(first) + Total(out) = Offset(last) + Len(out[Len(out)]) + Overhead
<1> DEFINE k == Len(out[Len(out)])
<1>1. Len(out) \in Nat \ {0} /\ Len(out) \in 1..Len(out) /\ Len(out) - 1 = last - first
  OBVIOUS
<1>2. k \in 1..Block
  BY <1>1, PlainTypes
<1> HIDE DEF k
<1>3. last * Block + k \in Nat \ {0} /\ StoredLen(last * Block + k) = Offset(last) + k + Overhead
  BY <1>2, StoredAt
<1>4. Offset(last) = Offset(first) + (last - first) * StoredBlock
  BY LastBlock
<1>5. /\ (last - first) * StoredBlock \in Nat /\ Offset(first) \in Nat /\ Offset(last) \in Nat
      /\ k \in Nat /\ Overhead \in Nat
  <2>1. last - first \in Nat
    OBVIOUS
  <2>2. (last - first) * StoredBlock \in Nat
    BY <2>1, Sizes, Product
  <2>3. Offset(first) \in Nat /\ Offset(last) \in Nat
    BY Sizes
  <2> QED BY <1>2, <2>2, <2>3, Sizes
<1>6. Total(out) = (last - first) * StoredBlock + k + Overhead
  BY <1>1 DEF Total, k
<1>7. Offset(first) + Total(out) = Offset(last) + k + Overhead
  BY <1>4, <1>5, <1>6
<1>8. last * Block + k <= MaxLen
  BY DEF k
<1>9. StoredLen(last * Block + k) \in 0..Limit
  <2>1. last * Block + k \in 0..MaxLen
    BY <1>3, <1>8, Sizes
  <2> HIDE DEF k
  <2> QED BY <2>1, Limits
<1>10. Offset(first) + Total(out) <= Limit
  BY <1>3, <1>7, <1>9, Limits
<1> QED BY <1>1, <1>3, <1>7, <1>10 DEF Fits, k

(* Bytes with zeros behind them. *)
LEMMA Padded ==
    ASSUME NEW a \in Nat, NEW b \in Nat, NEW p \in [1..a -> Written]
    PROVE  /\ p \o Zeros(b) \in [1..a + b -> Written]
           /\ \A k \in 1..a + b : (p \o Zeros(b))[k] = IF k <= a THEN p[k] ELSE 0
<1>1. p \in Seq(Written) /\ Len(p) = a
  <2>1. p \in Seq(Written)
    BY IsASeq
  <2>2. DOMAIN p = 1..Len(p) /\ Len(p) \in Nat
    BY <2>1, LenProperties
  <2> QED BY <2>1, <2>2, Intervals
<1>2. Zeros(b) \in Seq(Written) /\ Len(Zeros(b)) = b
  <2>1. Zeros(b) \in [1..b -> Written]
    BY DEF Zeros, Written
  <2>2. Zeros(b) \in Seq(Written)
    BY <2>1, IsASeq
  <2>3. DOMAIN Zeros(b) = 1..Len(Zeros(b)) /\ Len(Zeros(b)) \in Nat
    BY <2>2, LenProperties
  <2>4. DOMAIN Zeros(b) = 1..b
    BY <2>1
  <2> QED BY <2>2, <2>3, <2>4, Intervals
<1>3. p \o Zeros(b) \in Seq(Written) /\ Len(p \o Zeros(b)) = a + b
  BY <1>1, <1>2, ConcatProperties
<1>4. \A k \in 1..a + b : (p \o Zeros(b))[k] = IF k <= a THEN p[k] ELSE Zeros(b)[k - a]
  BY <1>1, <1>2, ConcatProperties
<1>5. \A k \in 1..a + b : ~(k <= a) => Zeros(b)[k - a] = 0
  BY DEF Zeros
<1>6. DOMAIN (p \o Zeros(b)) = 1..a + b
  BY <1>3, LenProperties
<1>7. \A k \in 1..a + b : (p \o Zeros(b))[k] \in Written
  <2> SUFFICES ASSUME NEW k \in 1..a + b PROVE (p \o Zeros(b))[k] \in Written
    OBVIOUS
  <2>1. CASE k <= a
    <3>1. k \in 1..a
      BY <2>1
    <3> QED BY <1>4, <2>1, <3>1
  <2>2. CASE ~(k <= a)
    <3>1. 0 \in Written
      BY DEF Written
    <3> QED BY <1>4, <1>5, <2>2, <3>1
  <2> QED BY <2>1, <2>2
<1>8. p \o Zeros(b) \in [1..a + b -> Written]
  BY <1>3, <1>6, <1>7, LenProperties
<1> QED BY <1>4, <1>5, <1>8

(* A row of one block. *)
LEMMA OneBlock ==
    ASSUME NEW index \in Nat, NEW p \in Plains, index * Block + Len(p) <= MaxLen
    PROVE  /\ Fits(index, <<p>>) /\ Total(<<p>>) = Len(p) + Overhead
           /\ Offset(index) + Total(<<p>>) = StoredLen(index * Block + Len(p))
<1> DEFINE out == <<p>>
<1>1. Len(out) = 1 /\ DOMAIN out = 1..Len(out) /\ out[1] = p /\ out[Len(out)] = p
  OBVIOUS
<1>2. Len(p) \in Nat
  BY PlainTypes
<1> HIDE DEF out
<1>3. \A k \in 1..Len(out) : out[k] \in Plains
  BY <1>1
<1>4. Fits(index, out) /\ Offset(index) + Total(out) = StoredLen(index * Block + Len(p))
  <2>1. Len(out) = index - index + 1
    BY <1>1
  <2>2. index * Block + Len(out[Len(out)]) <= MaxLen /\ index <= index /\ DOMAIN out = 1..Len(out)
    BY <1>1
  <2>3. /\ Fits(index, out)
        /\ Offset(index) + Total(out) = StoredLen(index * Block + Len(out[Len(out)]))
    BY <1>3, <2>1, <2>2, PlainsFit
  <2> QED BY <1>1, <2>3
<1>5. Total(out) = Len(p) + Overhead
  <2>1. (1 - 1) * StoredBlock = 0
    BY Sizes
  <2> QED BY <1>1, <1>2, <2>1, Sizes DEF Total
<1> QED BY <1>4, <1>5 DEF out

(* The block that grow fills up and its zeros. *)
LEMMA GrowBlock ==
    ASSUME NEW size \in 0..MaxLen, NEW len \in 0..MaxLen, size < len
    PROVE  LET index == size \div Block
               partial == size % Block
               grown == Smaller(len - index * Block, Block)
           IN  /\ index \in 0..Last /\ partial \in 0..Block - 1 /\ index * Block \in Nat
               /\ size = index * Block + partial
               /\ grown \in 1..Block /\ partial < grown /\ grown - partial \in Nat
               /\ index * Block + grown <= len /\ index * Block + grown <= MaxLen
               /\ partial + (grown - partial) = grown
<1> DEFINE index == size \div Block
           partial == size % Block
<1>1. size \in Nat /\ len \in Nat /\ MaxLen \in Nat /\ size <= MaxLen
  BY Sizes
<1>2. /\ index \in Nat /\ partial \in Nat /\ partial < Block /\ index * Block \in Nat
      /\ size = index * Block + partial
  BY <1>1, Division, BlockStarts
<1>3. index <= Last /\ Last \in Nat
  BY <1>1, BlockOrder, Limits DEF Last
<1> HIDE DEF index, partial
<1> QED BY <1>1, <1>2, <1>3, Sizes DEF Smaller, index, partial

(* How long a row is. *)
LEMMA RowLength ==
    ASSUME NEW n \in Nat, NEW S, NEW p \in [1..n -> S]
    PROVE  p \in Seq(S) /\ Len(p) = n
<1>1. p \in Seq(S)
  BY IsASeq
<1>2. DOMAIN p = 1..Len(p) /\ Len(p) \in Nat
  BY <1>1, LenProperties
<1> QED BY <1>1, <1>2, Intervals

LEMMA DropStraySound ==
    ASSUME NEW s, Sound(s), s.res = "ok", s.id # NoId, NEW cut, MaxLen # 0
    PROVE  LET w == DropStray(s, cut)
           IN  /\ Sound(w) /\ w.id = s.id /\ w.len = s.len
<1> DEFINE exact == Larger(Header, StoredLen(Size(s)))
<1>1. exact \in 0..Limit /\ exact >= Header
  <2>1. StoredLen(Size(s)) \in 0..Limit
    BY CallParts, Limits
  <2> QED BY <2>1, Limits, Sizes DEF Larger
<1> HIDE DEF exact
<1>2. CASE s.len # exact
  BY <1>1, <1>2, ResizeToSound DEF DropStray, exact
<1>3. CASE s.len = exact
  BY <1>3 DEF DropStray, exact
<1> QED BY <1>2, <1>3

(* What grow makes of the last block: its bytes with zeros behind them, or nothing when
   they cannot be read. *)
LEMMA PaddedSound ==
    ASSUME NEW s, Sound(s), s.res = "ok", s.id # NoId, NEW len \in 0..MaxLen, Size(s) < len,
           NEW cut, cut.bytes \in Nat, Size(s) % Block > 0
    PROVE  LET size    == Size(s)
               partial == size % Block
               index   == size \div Block
               old     == Open(s.disk.blocks[index], s.id, partial)
               grown   == Smaller(len - index * Block, Block)
               out     == <<old \o Zeros(grown - partial)>>
           IN  ~Corrupt(old) => /\ Fits(index, out)
                                /\ Offset(index) + Total(out) = StoredLen(index * Block + grown)
                                /\ old \in [1..partial -> Written]
                                /\ old \o Zeros(grown - partial) \in [1..grown -> Written]
                                /\ old \o Zeros(grown - partial) \in Plains
<1> DEFINE size    == Size(s)
           partial == size % Block
           index   == size \div Block
           old     == Open(s.disk.blocks[index], s.id, partial)
           grown   == Smaller(len - index * Block, Block)
           new     == old \o Zeros(grown - partial)
<1> SUFFICES ASSUME ~Corrupt(old)
             PROVE  /\ Fits(index, <<new>>)
                    /\ Offset(index) + Total(<<new>>) = StoredLen(index * Block + grown)
                    /\ old \in [1..partial -> Written]
                    /\ new \in [1..grown -> Written] /\ new \in Plains
  OBVIOUS
<1>1. size \in 0..MaxLen /\ s.disk.blocks \in [0..Last -> StoredBlocks]
  BY CallParts
<1>2. /\ index \in 0..Last /\ partial \in 0..Block - 1 /\ grown \in 1..Block /\ partial < grown
      /\ grown - partial \in Nat /\ index * Block + grown <= MaxLen
      /\ partial + (grown - partial) = grown
  BY <1>1, GrowBlock
<1>3. partial \in Nat /\ index \in Nat
  BY <1>2, Sizes, Limits
<1>4. s.disk.blocks[index] \in StoredBlocks
  BY <1>1, <1>2
<1> HIDE DEF size, partial, index, grown
<1>5. old \in [1..partial -> Written]
  <2>1. old \in [1..partial -> Written \cup {Bad}]
    BY <1>3, <1>4, OpenTypes
  <2> HIDE DEF old
  <2> QED BY <1>3, <2>1, NotCorrupt
<1> HIDE DEF old
<1>6. new \in [1..grown -> Written]
  BY <1>2, <1>3, <1>5, Padded
<1> HIDE DEF new
<1>7. new \in Plains
  BY <1>2, <1>6, PlainTypes
<1>8. Len(new) = grown
  BY <1>2, <1>6, <1>7, PlainTypes, RowLength
<1> QED BY <1>2, <1>3, <1>5, <1>6, <1>7, <1>8, OneBlock

LEMMA GrowSound ==
    ASSUME NEW s0, Sound(s0), s0.res = "ok", NEW len \in 0..MaxLen, Size(s0) < len,
           NEW cut, cut.bytes \in Nat, cut.step = "header" => cut.bytes < Header
    PROVE  LET g == Grow(s0, len, cut)
           IN  /\ Sound(g)
               /\ g.res = "ok" => g.id # NoId /\ Size(g) = len
<1> DEFINE s       == EnsureHeader(s0, cut)
           size    == Size(s)
           partial == size % Block
           index   == size \div Block
           old     == Open(s.disk.blocks[index], s.id, partial)
           grown   == Smaller(len - index * Block, Block)
           out     == <<old \o Zeros(grown - partial)>>
           padded  == IF s.res # "ok" THEN s
                      ELSE IF partial > 0 THEN
                        IF Corrupt(old) THEN Fails(s, "corrupt")
                        ELSE WriteBlocks(s, "pad", cut, index, out)
                      ELSE DropStray(s, cut)
           done    == ResizeTo(padded, "extend", cut, StoredLen(len))
           g       == IF done.res = "ok" THEN [done EXCEPT !.len = StoredLen(len)] ELSE done
<1>0. Grow(s0, len, cut) = g
  BY DEF Grow
<1>1. Size(s0) \in 0..MaxLen /\ MaxLen # 0 /\ len # 0 /\ MaxLen \in Nat
  BY CallParts, Sizes
<1>2. /\ Sound(s) /\ s.res \in {"ok", "failed"} /\ (s.res = "ok" => s.id # NoId) /\ size = Size(s0)
  BY <1>1, EnsureHeaderSound
<1> HIDE DEF s
<1>3. CASE s.res # "ok"
  <2>1. done = s
    BY <1>3 DEF ResizeTo
  <2> QED BY <1>0, <1>2, <1>3, <2>1
<1>4. CASE s.res = "ok"
  <2>1. Sound(padded) /\ padded.id = s.id
    <3>1. CASE partial > 0 /\ Corrupt(old)
      BY <1>2, <1>4, <3>1, FailsSound
    <3>2. CASE partial > 0 /\ ~Corrupt(old)
      <4>1. Fits(index, out)
        BY <1>2, <1>4, <3>2, PaddedSound
      <4>2. padded = WriteBlocks(s, "pad", cut, index, out)
        BY <1>4, <3>2
      <4> HIDE DEF index, out
      <4> QED BY <1>2, <1>4, <4>1, <4>2, WriteBlocksSound
    <3>3. CASE ~(partial > 0)
      <4>1. padded = DropStray(s, cut)
        BY <1>4, <3>3
      <4>2. Sound(DropStray(s, cut)) /\ DropStray(s, cut).id = s.id
        BY <1>1, <1>2, <1>4, DropStraySound
      <4> HIDE DEF padded
      <4> QED BY <4>1, <4>2
    <3> QED BY <3>1, <3>2, <3>3
  <2> HIDE DEF padded
  <2>2. StoredLen(len) \in 0..Limit /\ StoredLen(len) >= Header /\ PlainLen(StoredLen(len)) = len
    BY <1>1, Limits, StoredLengths, LengthsAgree
  <2>3. Sound(done) /\ done.id = s.id
    BY <1>2, <1>4, <2>1, <2>2, ResizeToSound
  <2> HIDE DEF done
  <2>4. CASE done.res # "ok"
    BY <1>0, <2>3, <2>4
  <2>5. CASE done.res = "ok"
    <3> DEFINE f == [disk |-> done.disk, id |-> done.disk.id, len |-> StoredLen(len), res |-> "ok"]
    <3>1. g = f
      BY <2>3, <2>5, CallParts
    <3>2. done.disk \in Disks /\ Holes(done.disk) /\ done.id = done.disk.id
      BY <2>3, CallParts
    <3>3. done.disk.id # NoId
      BY <1>2, <1>4, <2>3, <3>2
    <3>4. Sound(f)
      BY <2>2, <3>2, <3>3, CallMade
    <3>5. Size(f) = len /\ f.id # NoId
      BY <2>2, <3>3 DEF Size
    <3> HIDE DEF f
    <3> QED BY <1>0, <3>1, <3>4, <3>5
  <2> QED BY <2>4, <2>5
<1> QED BY <1>2, <1>3, <1>4

(* Where a write's data begins and ends in one of the blocks it touches. *)
LEMMA PatchPlaces ==
    ASSUME NEW offset \in Nat, NEW n \in Nat \ {0}, NEW size \in Nat,
           NEW index \in (offset \div Block)..((offset + n - 1) \div Block)
    PROVE  LET start  == index * Block
               oldLen == Smaller(Larger(size - start, 0), Block)
               from   == Larger(offset, start) - start
               to     == Smaller(offset + n, start + Block) - start
           IN  /\ index \in Nat /\ start \in Nat /\ oldLen \in 0..Block
               /\ from \in 0..Block - 1 /\ to \in 1..Block /\ from < to
               /\ Larger(oldLen, to) \in 1..Block
               /\ offset <= size => from <= oldLen
               /\ \A m \in Nat : size <= m /\ offset + n <= m => start + Larger(oldLen, to) <= m
               /\ \A k \in Int : from < k /\ k <= to => start + k - offset \in 1..n
               /\ start < offset + n /\ offset < start + Block
<1> DEFINE first == offset \div Block
           last  == (offset + n - 1) \div Block
           start == index * Block
<1>1. offset + n - 1 \in Nat
  OBVIOUS
<1>2. first \in Nat /\ last \in Nat
  BY <1>1, BlockStarts
<1>3. index \in Nat /\ first <= index /\ index <= last
  BY <1>2
<1>4. /\ first * Block \in Nat /\ last * Block \in Nat /\ start \in Nat
      /\ first * Block + Block > offset /\ last * Block <= offset + n - 1
  BY <1>1, <1>2, <1>3, BlockStarts
<1>5. start <= last * Block /\ first * Block <= start
  <2>1. first < index => first * Block + Block <= start
    BY <1>2, <1>3, BlockStarts
  <2>2. index < last => start + Block <= last * Block
    BY <1>2, <1>3, BlockStarts
  <2> QED BY <1>2, <1>3, <1>4, <2>1, <2>2, Sizes
<1>6. start < offset + n /\ offset < start + Block
  BY <1>4, <1>5, Sizes
<1> HIDE DEF first, last, start
<1>7. /\ start \in Nat /\ index \in Nat /\ Block \in Nat \ {0}
  BY <1>3, <1>4, Sizes
<1> DEFINE oldLen == Smaller(Larger(size - start, 0), Block)
           from   == Larger(offset, start) - start
           to     == Smaller(offset + n, start + Block) - start
<1>8. /\ oldLen \in 0..Block /\ from \in 0..Block - 1 /\ to \in 1..Block /\ from < to
      /\ Larger(oldLen, to) \in 1..Block
  BY <1>6, <1>7 DEF Smaller, Larger
<1>9. offset <= size => from <= oldLen
  BY <1>6, <1>7 DEF Smaller, Larger
<1>10. \A m \in Nat : size <= m /\ offset + n <= m => start + Larger(oldLen, to) <= m
  BY <1>6, <1>7 DEF Smaller, Larger
<1>11. \A k \in Int : from < k /\ k <= to => start + k - offset \in 1..n
  BY <1>6, <1>7 DEF Smaller, Larger
<1> QED BY <1>6, <1>7, <1>8, <1>9, <1>10, <1>11 DEF start

(* A block with a write's data in it, unless it cannot be read. *)
LEMMA PatchedTypes ==
    ASSUME NEW s, Sound(s), NEW offset \in Nat, offset <= Size(s), NEW data \in Seq(Written),
           data # <<>>, offset + Len(data) <= MaxLen,
           NEW index \in (offset \div Block)..((offset + Len(data) - 1) \div Block)
    PROVE  LET p == Patched(s, index, offset, data)
           IN  /\ index \in 0..Last
               /\ ~Corrupt(p) => p \in Plains /\ index * Block + Len(p) <= MaxLen
<1> DEFINE start  == index * Block
           oldLen == Smaller(Larger(Size(s) - start, 0), Block)
           from   == Larger(offset, start) - start
           to     == Smaller(offset + Len(data), start + Block) - start
           old    == Open(s.disk.blocks[index], s.id, oldLen)
           n      == Larger(oldLen, to)
           p      == Patched(s, index, offset, data)
<1>1. /\ Size(s) \in 0..MaxLen /\ MaxLen \in Nat /\ Size(s) \in Nat
      /\ Len(data) \in Nat \ {0} /\ s.disk.blocks \in [0..Last -> StoredBlocks]
  <2>1. Len(data) \in Nat \ {0}
    BY EmptySeq
  <2> QED BY <2>1, CallParts, Sizes
<1>2. /\ index \in Nat /\ start \in Nat /\ oldLen \in 0..Block
      /\ from \in 0..Block - 1 /\ to \in 1..Block /\ from < to
      /\ n \in 1..Block /\ from <= oldLen /\ start + n <= MaxLen
      /\ \A k \in Int : from < k /\ k <= to => start + k - offset \in 1..Len(data)
      /\ start < offset + Len(data)
  <2>1. /\ index \in Nat /\ start \in Nat /\ oldLen \in 0..Block
        /\ from \in 0..Block - 1 /\ to \in 1..Block /\ from < to
        /\ n \in 1..Block
        /\ offset <= Size(s) => from <= oldLen
        /\ \A m \in Nat : Size(s) <= m /\ offset + Len(data) <= m => start + n <= m
        /\ \A k \in Int : from < k /\ k <= to => start + k - offset \in 1..Len(data)
        /\ start < offset + Len(data)
    BY <1>1, PatchPlaces
  <2> HIDE DEF start, oldLen, from, to, n
  <2>2. start + n <= MaxLen
    BY <1>1, <2>1
  <2> QED BY <2>1, <2>2
<1>3. index \in 0..Last
  <2>1. index <= (offset + Len(data) - 1) \div Block /\ offset + Len(data) - 1 \in Nat
    BY <1>1, <1>2
  <2>2. (offset + Len(data) - 1) \div Block <= Last /\ (offset + Len(data) - 1) \div Block \in Nat
    BY <1>1, <2>1, BlockOrder DEF Last
  <2> QED BY <1>2, <2>1, <2>2, Limits
<1>4. oldLen \in Nat /\ n \in Nat /\ to \in Nat /\ from \in Nat
  <2> HIDE DEF oldLen, n, from, to
  <2> QED BY <1>2, Sizes
<1>5. old \in [1..oldLen -> Written \cup {Bad}]
  BY <1>1, <1>3, <1>4, OpenTypes
<1>6. p = [k \in 1..n |-> IF from < k /\ k <= to THEN data[start + k - offset]
                          ELSE IF Corrupt(old) THEN Bad ELSE old[k]]
  BY DEF Patched
<1> HIDE DEF start, oldLen, from, to, old, p
<1>7. n = oldLen \/ n = to
  BY DEF Larger
<1>8. p \in [1..n -> Written \cup {Bad}]
  <2> SUFFICES ASSUME NEW k \in 1..n
               PROVE  (IF from < k /\ k <= to THEN data[start + k - offset]
                       ELSE IF Corrupt(old) THEN Bad ELSE old[k]) \in Written \cup {Bad}
    BY <1>6
  <2>1. CASE from < k /\ k <= to
    <3>1. start + k - offset \in 1..Len(data)
      BY <1>2, <1>4, <2>1
    <3> QED BY <2>1, <3>1
  <2>2. CASE ~(from < k /\ k <= to) /\ Corrupt(old)
    BY <2>2
  <2>3. CASE ~(from < k /\ k <= to) /\ ~Corrupt(old)
    <3>1. k \in 1..oldLen
      BY <1>2, <1>4, <1>7, <2>3
    <3> QED BY <1>5, <2>3, <3>1
  <2> QED BY <2>1, <2>2, <2>3
<1> HIDE DEF n
<1>9. ASSUME ~Corrupt(p) PROVE p \in Plains /\ index * Block + Len(p) <= MaxLen
  <2>1. p \in [1..n -> Written]
    BY <1>4, <1>8, <1>9, NotCorrupt
  <2>2. Len(p) = n
    BY <1>4, <2>1, RowLength
  <2> QED BY <1>2, <2>1, <2>2, PlainTypes DEF start
<1> QED BY <1>3, <1>9 DEF p

(* The blocks of a write whose old bytes can be read follow one another and fit. *)
LEMMA PatchesFit ==
    ASSUME NEW s, Sound(s), NEW offset \in Nat, offset <= Size(s), NEW data \in Seq(Written),
           data # <<>>, offset + Len(data) <= MaxLen
    PROVE  LET first == offset \div Block
               last  == (offset + Len(data) - 1) \div Block
               out   == [k \in 1..last - first + 1 |-> Patched(s, first + k - 1, offset, data)]
           IN  /\ first \in Nat /\ last \in Nat /\ first <= last
               /\ Len(out) = last - first + 1 /\ DOMAIN out = 1..Len(out) /\ Len(out) \in 1..Len(out)
               /\ (~\E k \in DOMAIN out : Corrupt(out[k])) =>
                     /\ Fits(first, out)
                     /\ last * Block + Len(out[Len(out)]) <= MaxLen
                     /\ Offset(last) + Len(out[Len(out)]) + Overhead \in 0..Limit
<1> DEFINE first == offset \div Block
           last  == (offset + Len(data) - 1) \div Block
           out   == [k \in 1..last - first + 1 |-> Patched(s, first + k - 1, offset, data)]
           end   == Offset(last) + Len(out[Len(out)]) + Overhead
<1>1. /\ Len(data) \in Nat \ {0} /\ MaxLen \in Nat /\ offset + Len(data) - 1 \in Nat
  <2>1. Len(data) \in Nat \ {0}
    BY EmptySeq
  <2> QED BY <2>1, Sizes
<1>2. first \in Nat /\ last \in Nat /\ first <= last
  <2>1. offset \in Nat /\ offset <= offset + Len(data) - 1
    BY <1>1
  <2> QED BY <1>1, <2>1, BlockOrder
<1>3. Len(out) = last - first + 1 /\ DOMAIN out = 1..Len(out) /\ Len(out) \in 1..Len(out)
  <2> HIDE DEF first, last
  <2>1. last - first + 1 \in Nat \ {0}
    BY <1>2
  <2> HIDE DEF out
  <2>2. out = [k \in 1..last - first + 1 |-> Patched(s, first + k - 1, offset, data)]
    BY DEF out
  <2>3. Len(out) = last - first + 1
    BY <2>1, <2>2, Rows
  <2> QED BY <2>1, <2>2, <2>3
<1>4. ASSUME ~\E k \in DOMAIN out : Corrupt(out[k])
      PROVE  /\ Fits(first, out) /\ last * Block + Len(out[Len(out)]) <= MaxLen
             /\ end \in 0..Limit
  <2> HIDE DEF first, last
  <2>3. ASSUME NEW k \in 1..Len(out)
        PROVE  out[k] \in Plains /\ (first + k - 1) * Block + Len(out[k]) <= MaxLen
    <3>1. first + k - 1 \in first..last /\ out[k] = Patched(s, first + k - 1, offset, data)
      BY <1>2, <1>3
    <3>2. ~Corrupt(Patched(s, first + k - 1, offset, data))
      BY <1>3, <1>4, <3>1
    <3> HIDE DEF out
    <3> QED BY <3>1, <3>2, PatchedTypes DEF first, last
  <2> HIDE DEF out
  <2>4. last * Block + Len(out[Len(out)]) <= MaxLen
    <3>1. first + Len(out) - 1 = last
      BY <1>2, <1>3
    <3> QED BY <1>3, <2>3, <3>1
  <2>5. /\ Fits(first, out)
        /\ end = StoredLen(last * Block + Len(out[Len(out)]))
    <3>1. \A k \in 1..Len(out) : out[k] \in Plains
      BY <2>3
    <3>2. /\ Fits(first, out)
          /\ Offset(first) + Total(out) = StoredLen(last * Block + Len(out[Len(out)]))
          /\ Offset(first) + Total(out) = end
      BY <1>2, <1>3, <2>4, <3>1, PlainsFit
    <3> QED BY <3>2
  <2>6. Len(out[Len(out)]) \in 1..Block
    BY <2>5, TotalType
  <2>7. end \in 0..Limit
    <3>1. last * Block + Len(out[Len(out)]) \in 0..MaxLen
      <4>1. last * Block + Len(out[Len(out)]) \in Nat \ {0}
        BY <1>2, <2>6, StoredAt
      <4> QED BY <2>4, <4>1, Sizes
    <3> HIDE DEF end
    <3> QED BY <2>5, <3>1, Limits
  <2> QED BY <2>4, <2>5, <2>7
<1> QED BY <1>2, <1>3, <1>4

LEMMA WriteLockedSound ==
    ASSUME NEW s0, Sound(s0), s0.res = "ok", NEW offset \in Nat, NEW data \in Seq(Written),
           data # <<>>, offset + Len(data) <= MaxLen,
           NEW cut, cut.bytes \in Nat, cut.step = "header" => cut.bytes < Header
    PROVE  Sound(WriteLocked(s0, offset, data, cut))
<1> DEFINE g     == IF offset > Size(s0) THEN Grow(s0, offset, cut) ELSE s0
           s     == EnsureHeader(g, cut)
           first == offset \div Block
           last  == (offset + Len(data) - 1) \div Block
           out   == [k \in 1..last - first + 1 |-> Patched(s, first + k - 1, offset, data)]
           done  == WriteBlocks(s, "data", cut, first, out)
           end   == Offset(last) + Len(out[Len(out)]) + Overhead
           w     == IF s.res # "ok" THEN s
                    ELSE IF \E k \in DOMAIN out : Corrupt(out[k]) THEN Fails(s, "corrupt")
                    ELSE IF done.res # "ok" THEN done
                    ELSE [done EXCEPT !.len = Larger(@, end)]
<1>0. WriteLocked(s0, offset, data, cut) = w
  BY DEF WriteLocked
<1>1. /\ Len(data) \in Nat \ {0} /\ MaxLen \in Nat /\ MaxLen # 0 /\ Size(s0) \in 0..MaxLen
      /\ offset \in 0..MaxLen /\ offset + Len(data) - 1 \in Nat
  <2>1. Len(data) \in Nat \ {0}
    BY EmptySeq
  <2> QED BY <2>1, CallParts, Sizes
<1>2. Sound(g) /\ (g.res = "ok" => offset <= Size(g) /\ Size(g) \in 0..MaxLen)
  <2>1. CASE offset > Size(s0)
    BY <1>1, <2>1, GrowSound
  <2>2. CASE ~(offset > Size(s0))
    BY <1>1, <2>2
  <2> QED BY <2>1, <2>2
<1> HIDE DEF g
<1>3. /\ Sound(s) /\ (s.res = "ok" => s.id # NoId /\ offset <= Size(s))
  <2>1. Sound(s) /\ (s.res = "ok" => s.id # NoId) /\ Size(s) = Size(g) /\ (g.res # "ok" => s = g)
    BY <1>1, <1>2, EnsureHeaderSound
  <2> QED BY <1>2, <2>1
<1> HIDE DEF s
<1>4. CASE s.res # "ok"
  BY <1>0, <1>3, <1>4
<1>5. CASE s.res = "ok" /\ \E k \in DOMAIN out : Corrupt(out[k])
  <2>1. w = Fails(s, "corrupt")
    BY <1>5
  <2> HIDE DEF w
  <2> QED BY <1>0, <1>3, <2>1, FailsSound
<1>6. CASE s.res = "ok" /\ ~\E k \in DOMAIN out : Corrupt(out[k])
  <2>1. Fits(first, out) /\ end \in 0..Limit
    BY <1>3, <1>6, PatchesFit, ZenonT(60)
  <2> HIDE DEF first, last, out
  <2> HIDE DEF end
  <2>8. Sound(done) /\ done.id = s.id
    BY <1>3, <1>6, <2>1, WriteBlocksSound
  <2> HIDE DEF done
  <2>9. CASE done.res # "ok"
    BY <1>0, <1>6, <2>8, <2>9
  <2>10. CASE done.res = "ok"
    <3> DEFINE n == Larger(done.len, end)
               f == [disk |-> done.disk, id |-> done.disk.id, len |-> n, res |-> "ok"]
    <3>1. w = f
      BY <1>6, <2>8, <2>10, CallParts
    <3>2. done.disk \in Disks /\ Holes(done.disk) /\ done.id = done.disk.id /\ done.len \in 0..Limit
      BY <2>8, CallParts
    <3>3. n \in 0..Limit
      BY <2>1, <3>2 DEF Larger
    <3>4. done.disk.id # NoId
      BY <1>3, <1>6, <2>8, <3>2
    <3> HIDE DEF n
    <3>5. Sound(f)
      BY <3>2, <3>3, <3>4, CallMade
    <3> HIDE DEF f, w
    <3> QED BY <1>0, <3>1, <3>5
  <2> QED BY <2>9, <2>10
<1> QED BY <1>4, <1>5, <1>6

(* The beginning of a block that stays when the file is cut. *)
LEMMA ShrinkBlock ==
    ASSUME NEW s, Sound(s), NEW len \in 0..MaxLen, len < Size(s), len % Block # 0
    PROVE  LET index == len \div Block
               keep  == len % Block
               old   == Open(s.disk.blocks[index], s.id, Smaller(Size(s) - index * Block, Block))
           IN  /\ index \in 0..Last /\ len = index * Block + keep /\ keep \in 1..Block - 1
               /\ keep < Smaller(Size(s) - index * Block, Block)
               /\ Smaller(Size(s) - index * Block, Block) \in 1..Block
               /\ ~Corrupt(old) => /\ SubSeq(old, 1, keep) \in Plains /\ Len(SubSeq(old, 1, keep)) = keep
                                   /\ \A k \in 1..keep : SubSeq(old, 1, keep)[k] = old[k]
<1> DEFINE index == len \div Block
           keep  == len % Block
           n     == Smaller(Size(s) - index * Block, Block)
           old   == Open(s.disk.blocks[index], s.id, n)
<1>1. Size(s) \in 0..MaxLen /\ s.disk.blocks \in [0..Last -> StoredBlocks] /\ MaxLen \in Nat
  BY CallParts, Sizes
<1>2. len \in Nat /\ len <= MaxLen
  BY <1>1
<1>3. /\ index \in Nat /\ keep \in Nat /\ keep < Block /\ keep # 0 /\ index * Block \in Nat
      /\ len = index * Block + keep
  BY <1>2, Division, BlockStarts
<1>4. index <= Last /\ Last \in Nat
  BY <1>1, <1>2, BlockOrder, Limits DEF Last
<1> HIDE DEF index, keep
<1>5. /\ index \in 0..Last /\ keep \in 1..Block - 1 /\ n \in 1..Block /\ keep < n
  <2> DEFINE size == Size(s)
             start == index * Block
  <2>1. size \in Nat /\ start \in Nat /\ start + keep < size /\ keep \in Nat /\ Block \in Nat
    BY <1>1, <1>3, Sizes
  <2> HIDE DEF size, start
  <2>2. LET m == Smaller(size - start, Block) IN m \in 1..Block /\ keep < m
    BY <1>3, <2>1 DEF Smaller
  <2>3. keep \in 1..Block - 1
    BY <1>3, <2>1
  <2> QED BY <1>3, <1>4, <2>2, <2>3 DEF size, start
<1> HIDE DEF n
<1>6. n \in Nat
  BY <1>5, Sizes
<1>7. old \in [1..n -> Written \cup {Bad}]
  BY <1>1, <1>5, <1>6, OpenTypes
<1> HIDE DEF old
<1>8. ASSUME ~Corrupt(old)
      PROVE  /\ SubSeq(old, 1, keep) \in Plains /\ Len(SubSeq(old, 1, keep)) = keep
             /\ \A k \in 1..keep : SubSeq(old, 1, keep)[k] = old[k]
  <2>1. old \in [1..n -> Written]
    BY <1>6, <1>7, <1>8, NotCorrupt
  <2>2. old \in Seq(Written) /\ Len(old) = n
    BY <1>6, <2>1, RowLength
  <2>3. /\ SubSeq(old, 1, keep) \in Seq(Written) /\ Len(SubSeq(old, 1, keep)) = keep
        /\ \A k \in 1..keep : SubSeq(old, 1, keep)[k] = old[k]
    <3>1. 1 \in 1..Len(old) + 1 /\ keep \in 1 - 1..Len(old)
      BY <1>3, <1>5, <1>6, <2>2
    <3>2. /\ SubSeq(old, 1, keep) \in Seq(Written) /\ Len(SubSeq(old, 1, keep)) = keep - 1 + 1
          /\ \A k \in 1..keep - 1 + 1 : SubSeq(old, 1, keep)[k] = old[1 + k - 1]
      BY <2>2, <3>1, SubSeqProperties
    <3> QED BY <1>3, <3>2
  <2>4. SubSeq(old, 1, keep) \in [1..keep -> Written]
    BY <2>3, LenProperties
  <2>5. keep \in 1..Block
    BY <1>5, Sizes
  <2> QED BY <2>3, <2>4, <2>5, PlainTypes
<1> QED BY <1>3, <1>5, <1>8 DEF old, n, keep, index

LEMMA ShrinkSound ==
    ASSUME NEW s, Sound(s), s.res = "ok", NEW len \in 0..MaxLen, len < Size(s),
           NEW cut, cut.bytes \in Nat
    PROVE  Sound(Shrink(s, len, cut))
<1> DEFINE index  == len \div Block
           keep   == len % Block
           old    == Open(s.disk.blocks[index], s.id, Smaller(Size(s) - index * Block, Block))
           part   == SubSeq(old, 1, keep)
           sealed == IF keep = 0 THEN s
                     ELSE IF Corrupt(old) THEN Fails(s, "corrupt")
                     ELSE WriteBlocks(s, "reseal", cut, index, <<part>>)
           done   == ResizeTo(sealed, "cut", cut, StoredLen(len))
           r      == IF done.res # "ok" THEN done
                     ELSE [done EXCEPT !.len = StoredLen(len), !.id = IdAfter(@, len)]
<1>0. Shrink(s, len, cut) = r
  BY DEF Shrink
<1>1. len \in Nat /\ Size(s) \in 0..MaxLen /\ MaxLen \in Nat
  BY CallParts, Sizes
<1>2. s.id # NoId
  BY <1>1, CallParts, Sizes DEF Size, PlainLen
<1>3. Sound(sealed) /\ sealed.id = s.id
  <2>1. CASE keep = 0
    BY <2>1
  <2>2. CASE keep # 0 /\ Corrupt(old)
    BY <2>2, FailsSound
  <2>3. CASE keep # 0 /\ ~Corrupt(old)
    <3>1. index \in 0..Last /\ len = index * Block + keep /\ part \in Plains /\ Len(part) = keep
      BY <2>3, ShrinkBlock
    <3>2. sealed = WriteBlocks(s, "reseal", cut, index, <<part>>)
      BY <2>3
    <3> HIDE DEF index, part, keep, sealed
    <3>3. index \in Nat /\ index * Block + Len(part) <= MaxLen
      BY <1>1, <3>1, Limits
    <3>4. Fits(index, <<part>>)
      BY <3>1, <3>3, OneBlock
    <3> QED BY <1>2, <3>2, <3>4, WriteBlocksSound
  <2> QED BY <2>1, <2>2, <2>3
<1> HIDE DEF sealed
<1>4. CASE len # 0
  <2>1. StoredLen(len) \in 0..Limit /\ StoredLen(len) >= Header
    BY <1>1, <1>4, Limits, StoredLengths
  <2>2. Sound(done) /\ done.id = s.id
    BY <1>2, <1>3, <2>1, ResizeToSound
  <2> HIDE DEF done
  <2>3. CASE done.res # "ok"
    BY <1>0, <2>2, <2>3
  <2>4. CASE done.res = "ok"
    <3> DEFINE f == [disk |-> done.disk, id |-> done.disk.id, len |-> StoredLen(len), res |-> "ok"]
    <3>1. r = f
      <4>1. done = [disk |-> done.disk, id |-> done.disk.id, len |-> done.len, res |-> "ok"]
        BY <2>2, <2>4, CallParts
      <4>2. r = [done EXCEPT !.len = StoredLen(len), !.id = done.id]
        BY <1>4, <2>4 DEF IdAfter
      <4>3. done.id = done.disk.id
        BY <2>2, CallParts
      <4> QED BY <4>1, <4>2, <4>3
    <3>2. done.disk \in Disks /\ Holes(done.disk) /\ done.disk.id # NoId
      BY <1>2, <2>2, CallParts
    <3>3. Sound(f)
      BY <2>1, <3>2, CallMade
    <3> HIDE DEF f, r
    <3> QED BY <1>0, <3>1, <3>3
  <2> QED BY <2>3, <2>4
<1>5. CASE len = 0
  <2>1. StoredLen(len) = 0 /\ 0 \in 0..Limit /\ 0 < Header
    BY <1>5, StoredLengths, Limits, Sizes
  <2>2. CASE sealed.res # "ok"
    BY <1>0, <1>3, <2>2 DEF ResizeTo
  <2>3. CASE sealed.res = "ok" /\ cut.step = "cut"
    <3>1. done = Fails(sealed, "failed")
      BY <2>3 DEF ResizeTo
    <3>2. Sound(done) /\ done.res # "ok"
      BY <1>3, <3>1, FailsSound
    <3> HIDE DEF done
    <3> QED BY <1>0, <3>2
  <2>4. CASE sealed.res = "ok" /\ cut.step # "cut"
    <3> DEFINE d == Resize(sealed.disk, 0)
               f == [disk |-> d, id |-> d.id, len |-> 0, res |-> "ok"]
    <3>1. sealed.disk \in Disks /\ sealed = [disk |-> sealed.disk, id |-> sealed.id, len |-> sealed.len, res |-> sealed.res]
      BY <1>3, CallParts
    <3>2. d \in Disks /\ Holes(d) /\ d.len = 0 /\ d.id = NoId
      BY <2>1, <3>1, ResizeSound
    <3>3. done = [sealed EXCEPT !.disk = d]
      BY <2>1, <2>4 DEF ResizeTo
    <3> HIDE DEF d, done
    <3>4. done = [disk |-> d, id |-> sealed.id, len |-> sealed.len, res |-> "ok"]
      BY <2>4, <3>1, <3>3
    <3>5. r = f
      BY <1>5, <2>1, <3>2, <3>4 DEF IdAfter
    <3>6. Sound(f)
      BY <2>1, <3>2, CallMade
    <3> HIDE DEF f, r
    <3> QED BY <1>0, <3>5, <3>6
  <2> QED BY <2>2, <2>3, <2>4
<1> QED BY <1>4, <1>5
-------------------------------------------------------------------------------
(* The theorem. *)

(* What a call stops after is a number of bytes. *)
LEMMA CutBytes ==
    /\ NoCut.bytes \in Nat
    /\ \A cut \in Cuts(DataCuts \cup GrowCuts) \cup Cuts(GrowCuts) \cup Cuts(ShrinkCuts) :
          cut.bytes \in Nat
<1>1. {0, 1, Overhead + 1, StoredBlock, StoredBlock + 1, StoredBlock + Overhead + 1} \subseteq Nat
  BY Sizes
<1>2. \A step : \A cut \in BlockCuts(step) : cut.bytes \in Nat
  BY <1>1 DEF BlockCuts
<1>3. \A cut \in HeaderCuts : cut.bytes \in Nat
  BY Sizes DEF HeaderCuts
<1>4. \A cut \in DataCuts \cup GrowCuts \cup ShrinkCuts : cut.bytes \in Nat
  BY <1>1, <1>2 DEF DataCuts, GrowCuts, ShrinkCuts
<1>5. NoCut.bytes \in Nat
  BY DEF NoCut
<1> QED BY <1>3, <1>4, <1>5 DEF Cuts

(* MemoryTrue, with what is needed to keep it: the stored file has a length. *)
MemoryInv == MemoryTrue /\ Shape(disk)

(* A call begins with memory in step with the file. *)
LEMMA StartGood ==
    ASSUME MemoryInv
    PROVE  Good(Start) /\ Start.res = "ok"
BY DEF MemoryInv, MemoryTrue, Shape, Start, Good, Fields, Same

(* A call whose steps are good leaves memory and file in step, unless a write
   fails and the process goes on. *)
LEMMA EndsKeeps ==
    ASSUME "error" \notin Faults, NEW s, Good(s), NEW cut, Ends(s, cut)
    PROVE  MemoryInv'
<1>1. disk' = s.disk /\ Shape(s.disk)
  BY DEF Ends, Good, Fields
<1>2. CASE mem' = Opened(s.disk)
  BY <1>1, <1>2 DEF MemoryInv, MemoryTrue, Opened, Shape
<1>3. CASE s.res # "failed" /\ mem' = [id |-> s.id, len |-> s.len, writable |-> TRUE]
  BY <1>1, <1>3 DEF MemoryInv, MemoryTrue, Good, Same, Shape
<1> QED BY <1>2, <1>3 DEF Ends

(* A call that only answers changes nothing. *)
LEMMA AnswersKeeps ==
    ASSUME MemoryInv, NEW why, Answers(why)
    PROVE  MemoryInv'
BY DEF MemoryInv, MemoryTrue, Shape, Answers

(* write_at and, with it, append. *)
LEMMA WriteAtKeeps ==
    ASSUME "error" \notin Faults, MemoryInv, NEW offset \in Nat, NEW data \in Seq(Nat), data # <<>>,
           NEW cut, cut.bytes \in Nat, WriteAt(offset, data, cut)
    PROVE  MemoryInv'
<1>1. Good(WriteLocked(Start, offset, data, cut))
  BY StartGood, WriteLockedGood
<1> QED BY <1>1, EndsKeeps, AnswersKeeps DEF WriteAt

(* set_len, to more or to less. *)
LEMMA SetLenKeeps ==
    ASSUME "error" \notin Faults, MemoryInv, NEW len \in Nat,
           NEW cut, cut.bytes \in Nat, SetLen(len, cut)
    PROVE  MemoryInv'
<1>1. CASE len > Size(Start)
  <2>1. len # 0
    BY <1>1, StartGood, SizeType DEF Good, Fields
  <2>2. Good(Grow(Start, len, cut))
    BY <2>1, StartGood, GrowGood
  <2> QED BY <1>1, <2>2, EndsKeeps, AnswersKeeps DEF SetLen
<1>2. CASE ~(len > Size(Start))
  <2>1. Good(Shrink(Start, len, cut))
    BY StartGood, ShrinkGood
  <2> QED BY <1>2, <2>1, EndsKeeps, AnswersKeeps DEF SetLen
<1> QED BY <1>1, <1>2

(* write_within writes the part that fits. *)
LEMMA WriteWithinKeeps ==
    ASSUME "error" \notin Faults, MemoryInv, NEW offset \in Nat, NEW data \in Data,
           WriteWithin(offset, data)
    PROVE  MemoryInv'
<1> DEFINE fits == Smaller(Len(data), Size(Start) - offset)
           part == SubSeq(data, 1, fits)
<1>1. CASE fits <= 0
  BY <1>1, AnswersKeeps DEF WriteWithin
<1>2. CASE ~(fits <= 0)
  <2>1. data \in Seq(Nat) /\ Len(data) \in Nat
    BY DataAssumption, LenProperties
  <2>2. Size(Start) \in Nat
    BY StartGood, SizeType DEF Good, Fields
  <2>3. fits \in Nat \ {0} /\ fits <= Len(data)
    BY <1>2, <2>1, <2>2 DEF Smaller
  <2>4. WriteAt(offset, part, NoCut)
    BY <1>2 DEF WriteWithin
  <2> HIDE DEF fits
  <2>5. \A i \in 1..fits : data[i] \in Nat
    BY <2>1, <2>3, ElementOfSeq
  <2>6. part \in Seq(Nat) /\ Len(part) = fits
    BY <2>3, <2>5, SubSeqProperties
  <2>7. part # <<>>
    BY <2>3, <2>6, EmptySeq
  <2> HIDE DEF part
  <2> QED BY <2>4, <2>6, <2>7, CutBytes, WriteAtKeeps
<1> QED BY <1>1, <1>2

(* Every step of the file keeps the invariant. *)
LEMMA StepKeeps ==
    ASSUME "error" \notin Faults, MemoryInv, [Next]_vars
    PROVE  MemoryInv'
<1>1. ASSUME NEW offset \in 0..MaxLen, NEW data \in Data,
             NEW cut \in Cuts(DataCuts \cup GrowCuts), WriteAt(offset, data, cut)
      PROVE  MemoryInv'
  <2>1. offset \in Nat
    OBVIOUS
  <2>2. cut.bytes \in Nat
    BY CutBytes
  <2>3. data \in Seq(Nat) /\ data # <<>>
    BY DataAssumption
  <2> QED BY <1>1, <2>1, <2>2, <2>3, WriteAtKeeps
<1>2. ASSUME NEW offset \in 0..MaxLen, NEW data \in Data, WriteWithin(offset, data)
      PROVE  MemoryInv'
  BY <1>2, WriteWithinKeeps
<1>3. ASSUME NEW data \in Data, AppendData(data)
      PROVE  MemoryInv'
  <2>1. Size(Start) \in Nat
    BY StartGood, SizeType DEF Good, Fields
  <2>2. data \in Seq(Nat) /\ data # <<>>
    BY DataAssumption
  <2> QED BY <1>3, <2>1, <2>2, CutBytes, WriteAtKeeps DEF AppendData
<1>4. ASSUME NEW len \in 0..MaxLen + 1,
             NEW cut \in Cuts(IF len > Size(mem) THEN GrowCuts ELSE ShrinkCuts), SetLen(len, cut)
      PROVE  MemoryInv'
  <2>1. cut.bytes \in Nat
    <3>1. CASE len > Size(mem)
      BY <3>1, CutBytes
    <3>2. CASE ~(len > Size(mem))
      BY <3>2, CutBytes
    <3> QED BY <3>1, <3>2
  <2> QED BY <1>4, <2>1, SetLenKeeps
<1>5. ASSUME Reopen PROVE MemoryInv'
  BY <1>5 DEF MemoryInv, MemoryTrue, Shape, Reopen, Opened
<1>6. ASSUME NEW value \in BOOLEAN, SetReadOnly(value) PROVE MemoryInv'
  BY <1>6 DEF MemoryInv, MemoryTrue, Shape, SetReadOnly
<1>7. CASE UNCHANGED vars
  BY <1>7 DEF MemoryInv, MemoryTrue, Shape, vars
<1> QED BY <1>1, <1>2, <1>3, <1>4, <1>5, <1>6, <1>7 DEF Next

(* While the process lives and no write fails, and whenever it ends half-way
   through a call and the file is opened again, the open file's length and id
   are the stored ones (State of content.rs), for every block size. *)
THEOREM MemoryAgrees ==
    ASSUME "error" \notin Faults
    PROVE  Spec => []MemoryTrue
<1>1. Init => MemoryInv
  BY DEF Init, MemoryInv, MemoryTrue, Shape
<1>2. MemoryInv /\ [Next]_vars => MemoryInv'
  BY StepKeeps
<1>3. MemoryInv => MemoryTrue
  BY DEF MemoryInv
<1> QED BY <1>1, <1>2, <1>3, PTL DEF Spec

-------------------------------------------------------------------------------
(* The types, from call to call. *)

(* What a call begins with, and the rest of the state. *)
TypeInv == /\ Sound(Start) /\ mem.writable \in BOOLEAN /\ readonly \in BOOLEAN
           /\ mem = [id |-> mem.id, len |-> mem.len, writable |-> mem.writable]
           /\ result \in {"ok", "denied", "too_large", "corrupt", "failed"}

(* Only a header stops within itself. *)
LEMMA HeaderBytes ==
    /\ NoCut.step # "header"
    /\ \A cut \in Cuts(DataCuts \cup GrowCuts) \cup Cuts(GrowCuts) \cup Cuts(ShrinkCuts) :
          cut.step = "header" => cut.bytes < Header
<1>1. \A cut \in HeaderCuts : cut.bytes < Header
  <2> SUFFICES ASSUME NEW n \in 0..Header - 1 PROVE n < Header
    BY DEF HeaderCuts
  <2> QED BY Sizes
<1>2. \A step : step # "header" => \A cut \in BlockCuts(step) : cut.step # "header"
  BY DEF BlockCuts
<1>3. \A cut \in DataCuts : cut.step # "header"
  BY <1>2 DEF DataCuts
<1>4. \A cut \in GrowCuts : cut.step # "header"
  BY <1>2 DEF GrowCuts
<1>5. \A cut \in ShrinkCuts : cut.step # "header"
  BY <1>2 DEF ShrinkCuts
<1>6. NoCut.step # "header"
  BY DEF NoCut
<1> QED BY <1>1, <1>3, <1>4, <1>5, <1>6 DEF Cuts

LEMMA StartSound ==
    ASSUME TypeInv
    PROVE  Sound(Start) /\ Start.res = "ok" /\ Size(Start) \in 0..MaxLen /\ Size(Start) = Size(mem)
BY CallParts DEF TypeInv, Start, Size

(* Whether the call answers or the process ends. *)
LEMMA EndsTypes ==
    ASSUME TypeInv, NEW s, Sound(s), NEW cut, Ends(s, cut)
    PROVE  TypeInv'
<1>1. /\ s.disk \in Disks /\ Holes(s.disk) /\ s.id = s.disk.id /\ s.len \in 0..Limit
      /\ s.disk.len \in 0..Limit /\ s.res \in {"ok", "corrupt", "failed"}
      /\ (s.id = NoId => s.len < Header /\ s.disk.len < Header)
  BY CallParts
<1>2. disk' = s.disk /\ result' = s.res /\ readonly' = readonly
  BY DEF Ends
<1>3. CASE mem' = [id |-> s.id, len |-> s.len, writable |-> TRUE]
  <2> DEFINE f == [disk |-> s.disk, id |-> s.disk.id, len |-> s.len, res |-> "ok"]
  <2>1. Sound(f)
    BY <1>1, CallMade
  <2>2. Start' = f
    BY <1>1, <1>2, <1>3 DEF Start
  <2> HIDE DEF f
  <2>3. Sound(Start)'
    <3>1. Sound(Start') <=> Sound(Start)'
      BY DEF Sound, Calls, Disks, Holes
    <3> QED BY <2>1, <2>2, <3>1
  <2> QED BY <1>1, <1>2, <1>3, <2>3 DEF TypeInv
<1>4. CASE mem' = Opened(s.disk)
  <2> DEFINE f == [disk |-> s.disk, id |-> s.disk.id, len |-> s.disk.len, res |-> "ok"]
  <2>1. Sound(f)
    BY <1>1, CallMade
  <2>2. Start' = f
    BY <1>1, <1>2, <1>4 DEF Start, Opened
  <2> HIDE DEF f
  <2>3. Sound(Start)'
    <3>1. Sound(Start') <=> Sound(Start)'
      BY DEF Sound, Calls, Disks, Holes
    <3> QED BY <2>1, <2>2, <3>1
  <2> QED BY <1>1, <1>2, <1>4, <2>3 DEF TypeInv, Opened
<1> QED BY <1>3, <1>4 DEF Ends

LEMMA AnswersTypes ==
    ASSUME TypeInv, NEW why \in {"ok", "denied", "too_large"}, Answers(why)
    PROVE  TypeInv'
<1>1. Start' = Start
  BY DEF Answers, Start
<1>2. Sound(Start') <=> Sound(Start)'
  BY DEF Sound, Calls, Disks, Holes
<1> QED BY <1>1, <1>2 DEF TypeInv, Answers

LEMMA WriteAtTypes ==
    ASSUME TypeInv, NEW offset \in Nat, NEW data \in Seq(Written), data # <<>>,
           NEW cut, cut.bytes \in Nat, cut.step = "header" => cut.bytes < Header,
           WriteAt(offset, data, cut)
    PROVE  TypeInv'
<1>1. CASE TooLarge(offset + Len(data)) \/ ~Writable
  BY <1>1, AnswersTypes DEF WriteAt
<1>2. CASE ~TooLarge(offset + Len(data)) /\ Writable
  <2>1. offset + Len(data) <= MaxLen
    <3>1. Len(data) \in Nat
      BY LenProperties
    <3> QED BY <1>2, <3>1, Sizes DEF TooLarge
  <2>2. Sound(WriteLocked(Start, offset, data, cut))
    BY <2>1, StartSound, WriteLockedSound
  <2>3. Ends(WriteLocked(Start, offset, data, cut), cut)
    BY <1>2 DEF WriteAt
  <2> QED BY <2>2, <2>3, EndsTypes
<1> QED BY <1>1, <1>2

(* What is written is a row of bytes that are written. *)
LEMMA DataTypes ==
    ASSUME NEW data \in Data
    PROVE  data \in Seq(Written) /\ data # <<>> /\ Len(data) \in Nat \ {0}
<1>1. data \in Seq(Nat) /\ data # <<>>
  BY DataAssumption
<1>2. data \in [1..Len(data) -> Nat] /\ Len(data) \in Nat \ {0}
  BY <1>1, LenProperties, EmptySeq
<1>3. \A k \in 1..Len(data) : data[k] \in Written
  <2> SUFFICES ASSUME NEW k \in 1..Len(data) PROVE data[k] \in Written
    OBVIOUS
  <2>1. k \in DOMAIN data
    BY <1>2
  <2>2. data[k] \in {data[j] : j \in DOMAIN data}
    BY <2>1
  <2> QED BY <2>2 DEF Written
<1>4. data \in [1..Len(data) -> Written]
  BY <1>2, <1>3
<1> QED BY <1>1, <1>2, <1>4, RowLength

(* The part of the data that fits is some, and is written. *)
LEMMA PartTypes ==
    ASSUME NEW data \in Data, NEW fits \in 1..Len(data)
    PROVE  /\ SubSeq(data, 1, fits) \in Seq(Written) /\ SubSeq(data, 1, fits) # <<>>
           /\ Len(SubSeq(data, 1, fits)) = fits
<1>1. fits \in Nat \ {0} /\ fits <= Len(data) /\ data \in Seq(Written)
  BY DataTypes
<1>2. \A i \in 1..fits : data[i] \in Written
  BY <1>1, ElementOfSeq, DataTypes
<1>3. SubSeq(data, 1, fits) \in Seq(Written) /\ Len(SubSeq(data, 1, fits)) = fits
  BY <1>1, <1>2, SubSeqProperties
<1> QED BY <1>1, <1>3, EmptySeq

LEMMA StepTypes ==
    ASSUME TypeInv, [Next]_vars
    PROVE  TypeInv'
<1>1. ASSUME NEW offset \in 0..MaxLen, NEW data \in Data,
             NEW cut \in Cuts(DataCuts \cup GrowCuts), WriteAt(offset, data, cut)
      PROVE  TypeInv'
  <2>1. offset \in Nat
    BY Sizes
  <2>2. cut.bytes \in Nat /\ (cut.step = "header" => cut.bytes < Header)
    BY CutBytes, HeaderBytes
  <2> QED BY <1>1, <2>1, <2>2, DataTypes, WriteAtTypes
<1>2. ASSUME NEW offset \in 0..MaxLen, NEW data \in Data, WriteWithin(offset, data)
      PROVE  TypeInv'
  <2> DEFINE fits == Smaller(Len(data), Size(Start) - offset)
             part == SubSeq(data, 1, fits)
  <2>1. CASE fits <= 0
    BY <1>2, <2>1, AnswersTypes DEF WriteWithin
  <2>2. CASE ~(fits <= 0)
    <3>1. fits \in 1..Len(data) /\ offset \in Nat
      <4>1. Len(data) \in Nat \ {0} /\ Size(Start) - offset \in Int /\ offset \in Nat
        BY DataTypes, StartSound, Sizes
      <4> QED BY <2>2, <4>1 DEF Smaller
    <3>2. WriteAt(offset, part, NoCut)
      BY <1>2, <2>2 DEF WriteWithin
    <3> HIDE DEF fits
    <3>3. part \in Seq(Written) /\ part # <<>>
      BY <3>1, PartTypes
    <3> HIDE DEF part
    <3> QED BY <3>1, <3>2, <3>3, CutBytes, HeaderBytes, WriteAtTypes
  <2> QED BY <2>1, <2>2
<1>3. ASSUME NEW data \in Data, AppendData(data)
      PROVE  TypeInv'
  <2>1. Size(Start) \in Nat
    BY StartSound, Sizes
  <2> QED BY <1>3, <2>1, DataTypes, CutBytes, HeaderBytes, WriteAtTypes DEF AppendData
<1>4. ASSUME NEW len \in 0..MaxLen + 1,
             NEW cut \in Cuts(IF len > Size(mem) THEN GrowCuts ELSE ShrinkCuts), SetLen(len, cut)
      PROVE  TypeInv'
  <2>1. cut.bytes \in Nat /\ (cut.step = "header" => cut.bytes < Header)
    <3>1. CASE len > Size(mem)
      BY <3>1, CutBytes, HeaderBytes
    <3>2. CASE ~(len > Size(mem))
      BY <3>2, CutBytes, HeaderBytes
    <3> QED BY <3>1, <3>2
  <2>2. CASE TooLarge(len) \/ len = Size(Start) \/ ~Writable
    BY <1>4, <2>2, AnswersTypes DEF SetLen
  <2>3. CASE ~TooLarge(len) /\ len # Size(Start) /\ Writable
    <3> DEFINE s == IF len > Size(Start) THEN Grow(Start, len, cut) ELSE Shrink(Start, len, cut)
    <3>1. CASE len > Size(Start)
      <4>1. Size(Start) < len /\ len \in 0..MaxLen
        BY <1>4, <2>3, <3>1, StartSound, Sizes DEF TooLarge
      <4> QED BY <2>1, <3>1, <4>1, StartSound, GrowSound, EndsTypes, <1>4, <2>3 DEF SetLen
    <3>2. CASE ~(len > Size(Start))
      <4>1. len < Size(Start) /\ len \in 0..MaxLen
        BY <1>4, <2>3, <3>2, StartSound, Sizes DEF TooLarge
      <4> QED BY <2>1, <3>2, <4>1, StartSound, ShrinkSound, EndsTypes, <1>4, <2>3 DEF SetLen
    <3> QED BY <3>1, <3>2
  <2> QED BY <2>2, <2>3
<1>5. ASSUME Reopen PROVE TypeInv'
  <2> DEFINE f == [disk |-> disk, id |-> disk.id, len |-> disk.len, res |-> "ok"]
  <2>1. /\ disk \in Disks /\ Holes(disk) /\ disk.len \in 0..Limit
        /\ mem.id = disk.id /\ (disk.id = NoId => disk.len < Header)
    BY StartSound, CallParts DEF Start
  <2>2. Sound(f)
    BY <2>1, CallMade
  <2>3. Start' = f
    BY <1>5 DEF Reopen, Opened, Start
  <2> HIDE DEF f
  <2>4. Sound(Start') <=> Sound(Start)'
    BY DEF Sound, Calls, Disks, Holes
  <2> QED BY <1>5, <2>2, <2>3, <2>4 DEF TypeInv, Reopen, Opened
<1>6. ASSUME NEW value \in BOOLEAN, SetReadOnly(value) PROVE TypeInv'
  <2>1. Start' = Start
    BY <1>6 DEF SetReadOnly, Start
  <2>2. Sound(Start') <=> Sound(Start)'
    BY DEF Sound, Calls, Disks, Holes
  <2> QED BY <1>6, <2>1, <2>2 DEF TypeInv, SetReadOnly
<1>7. CASE UNCHANGED vars
  <2>1. Start' = Start
    BY <1>7 DEF vars, Start
  <2>2. Sound(Start') <=> Sound(Start)'
    BY DEF Sound, Calls, Disks, Holes
  <2> QED BY <1>7, <2>1, <2>2 DEF TypeInv, vars
<1> QED BY <1>1, <1>2, <1>3, <1>4, <1>5, <1>6, <1>7 DEF Next

LEMMA TypeInvInit == Init => TypeInv
<1> SUFFICES ASSUME Init PROVE TypeInv
  OBVIOUS
<1> DEFINE d == [len |-> 0, id |-> NoId, blocks |-> [i \in 0..Last |-> Hole]]
           f == [disk |-> d, id |-> d.id, len |-> 0, res |-> "ok"]
<1>1. 0 \in 0..Limit /\ 0 < Header
  BY Limits, Sizes
<1>2. d \in Disks /\ Holes(d)
  BY <1>1, BlockTypes DEF Disks, Holes
<1>3. d.id = NoId /\ d.len = 0
  OBVIOUS
<1> HIDE DEF d
<1>4. Sound(f)
  BY <1>1, <1>2, <1>3, CallMade
<1>5. Start = f
  BY <1>3 DEF Init, Start, d
<1> HIDE DEF f
<1> QED BY <1>4, <1>5 DEF Init, TypeInv

(* Whatever calls fail or are cut short, the stored file stays within the longest one,
   holds headers, sealed, torn and missing blocks only, and what the open file keeps of
   it are lengths and ids a file can have (content.rs). *)
THEOREM TypesHold == Spec => []TypeOK
<1>1. TypeInv => TypeOK
  <2> SUFFICES ASSUME TypeInv PROVE TypeOK
    OBVIOUS
  <2>1. /\ disk \in Disks /\ mem.id \in Ids \cup {NoId} /\ mem.len \in 0..Limit
    BY StartSound, CallParts DEF Start
  <2>2. disk.len \in 0..Limit /\ disk.id \in Ids \cup {NoId} /\ disk.blocks \in [0..Last -> StoredBlocks]
    BY <2>1 DEF Disks
  <2> QED BY <2>1, <2>2 DEF TypeInv, TypeOK, Limit
<1>2. TypeInv /\ [Next]_vars => TypeInv'
  BY StepTypes
<1> QED BY <1>1, <1>2, TypeInvInit, PTL DEF Spec

-------------------------------------------------------------------------------
(* The bytes of a stored file, as they can be read. *)

RowLen(size, j) == Smaller(size - j * Block, Block)
Row(d, j)       == Open(d.blocks[j], d.id, RowLen(Size(d), j))
View(d) == [i \in 0..MaxLen - 1 |-> IF i < Size(d) THEN Row(d, i \div Block)[(i % Block) + 1] ELSE 0]

(* The block and the place in it of a byte of the file. *)
LEMMA Places ==
    ASSUME NEW size \in 0..MaxLen, NEW i \in Nat, i < size
    PROVE  LET j == i \div Block
           IN  /\ j \in 0..Last /\ j \in Nat /\ j * Block <= i /\ j * Block < size /\ i < j * Block + Block
               /\ i \in 0..MaxLen - 1 /\ j * Block \in Nat
               /\ i = j * Block + (i % Block) /\ i % Block \in Nat /\ i % Block < Block
               /\ (i % Block) + 1 \in 1..RowLen(size, j) /\ RowLen(size, j) \in 1..Block
<1> DEFINE j == i \div Block
           r == i % Block
<1>1. size \in Nat /\ MaxLen \in Nat /\ size <= MaxLen
  BY Sizes
<1>2. /\ j \in Nat /\ j * Block \in Nat /\ j * Block <= i /\ i < j * Block + Block
      /\ i = j * Block + r /\ r \in Nat /\ r < Block
  BY Division, BlockStarts
<1>3. j <= Last /\ Last \in Nat
  BY <1>1, <1>2, BlockOrder, Limits DEF Last
<1> DEFINE start == j * Block
<1>4. start \in Nat /\ start <= i /\ i = start + r
  BY <1>2
<1> HIDE DEF j, r
<1>5. r + 1 \in 1..RowLen(size, j) /\ RowLen(size, j) \in 1..Block
  <2> HIDE DEF start
  <2>1. LET m == Smaller(size - start, Block) IN r + 1 \in 1..m /\ m \in 1..Block
    BY <1>1, <1>2, <1>4, Sizes DEF Smaller
  <2> QED BY <2>1 DEF RowLen, start
<1> QED BY <1>1, <1>2, <1>3, <1>5 DEF j, r

(* A file reads the same where its rows are the same. *)
LEMMA SameRows ==
    ASSUME NEW d \in Disks, NEW e \in Disks, NEW i \in 0..MaxLen - 1, i < Size(e),
           i < Size(d), Row(e, i \div Block) = Row(d, i \div Block)
    PROVE  View(e)[i] = View(d)[i]
BY DEF View

LEMMA DiskParts ==
    ASSUME NEW d \in Disks
    PROVE  /\ d.len \in 0..Limit /\ d.len \in Nat /\ d.id \in Ids \cup {NoId}
           /\ d.blocks \in [0..Last -> StoredBlocks] /\ Size(d) \in 0..MaxLen /\ Size(d) \in Nat
<1>1. d.len \in 0..Limit
  BY DEF Disks
<1>2. Size(d) \in 0..MaxLen
  BY <1>1, Limits DEF Size
<1> QED BY <1>1, <1>2, Limits, Sizes DEF Disks

(* Blocks outside the ones that are written keep their length when the file gets
   longer by the written ones only. *)
LEMMA OutsideLengths ==
    ASSUME NEW size \in Nat, NEW new \in Nat, NEW first \in Nat, NEW last \in Nat, first <= last,
           first * Block <= size, size <= new, new = size \/ new <= last * Block + Block,
           NEW j \in Nat, ~(first <= j /\ j <= last), j * Block < new
    PROVE  j * Block < size /\ RowLen(new, j) = RowLen(size, j)
<1>1. j * Block \in Nat /\ first * Block \in Nat /\ last * Block \in Nat
  BY BlockStarts
<1>2. CASE j < first
  <2>1. j * Block + Block <= first * Block
    BY <1>2, BlockStarts
  <2> DEFINE start == j * Block
             from  == first * Block
  <2>2. start \in Nat /\ from \in Nat /\ start + Block <= from /\ from <= size
    BY <1>1, <2>1
  <2> HIDE DEF start, from
  <2>3. start < size /\ Smaller(new - start, Block) = Smaller(size - start, Block)
    BY <2>2, Sizes DEF Smaller
  <2> QED BY <2>3 DEF RowLen, start
<1>3. CASE last < j
  <2>1. last * Block + Block <= j * Block
    BY <1>3, BlockStarts
  <2>2. new = size
    BY <1>1, <2>1, Sizes
  <2> QED BY <2>2
<1> QED BY <1>2, <1>3

(* How long a file is once sealed blocks, or a part of them, are written. *)
LEMMA PutSize ==
    ASSUME NEW d \in Disks, Holes(d), d.id # NoId, NEW first \in Nat, NEW last \in Nat, first <= last,
           NEW out, Fits(first, out), Len(out) = last - first + 1,
           last * Block + Len(out[Len(out)]) <= MaxLen,
           NEW n \in 0..Total(out)
    PROVE  LET p == Put(d, first, out, n)
               end == last * Block + Len(out[Len(out)])
           IN  /\ Size(d) <= Size(p) /\ Size(p) <= Larger(Size(d), end)
               /\ n = Total(out) => Size(p) = Larger(Size(d), end)
               /\ end \in Nat \ {0} /\ end <= last * Block + Block
<1> DEFINE p == Put(d, first, out, n)
           end == last * Block + Len(out[Len(out)])
<1>1. \A k \in 1..Len(out) : out[k] \in Plains
  BY DEF Fits
<1>2. Offset(first) + Total(out) = StoredLen(end) /\ DOMAIN out = 1..Len(out)
  BY <1>1, PlainsFit DEF Fits
<1>3. /\ Len(out[Len(out)]) \in 1..Block /\ Total(out) \in Nat \ {0} /\ last * Block \in Nat
  BY TotalType, BlockStarts
<1>4. end \in Nat \ {0} /\ end <= last * Block + Block
  <2> DEFINE k == Len(out[Len(out)])
             start == last * Block
  <2>1. k \in 1..Block /\ start \in Nat
    BY <1>3
  <2> HIDE DEF k, start
  <2>2. start + k \in Nat \ {0} /\ start + k <= start + Block
    BY <2>1, Sizes
  <2> QED BY <2>2 DEF k, start
<1>5. Offset(first) \in Nat /\ n \in Nat /\ n <= Total(out)
  BY <1>3, Sizes
<1> HIDE DEF end
<1>6. PlainLen(Offset(first) + Total(out)) = end
  BY <1>2, <1>4, LengthsAgree
<1>7. PlainLen(Offset(first) + n) <= end /\ PlainLen(Offset(first) + n) \in Nat
  <2>1. /\ Offset(first) + n \in Nat /\ Offset(first) + Total(out) \in Nat
        /\ Offset(first) + n <= Offset(first) + Total(out)
    BY <1>3, <1>5, SMTT(30)
  <2>2. PlainLen(Offset(first) + n) <= PlainLen(Offset(first) + Total(out))
    BY <2>1, PlainGrows
  <2> QED BY <1>6, <2>1, <2>2, PlainLengths
<1>8. d.len \in Nat /\ Size(d) \in Nat /\ Size(d) = PlainLen(d.len)
  BY DiskParts DEF Size
<1>9. CASE n = 0
  <2>1. p.len = d.len
    BY <1>9 DEF Put, Disks
  <2> QED BY <1>3, <1>4, <1>8, <1>9, <2>1 DEF Size, Larger, end
<1>10. CASE n # 0
  <2>1. p.len = Larger(d.len, Offset(first) + n)
    BY <1>10 DEF Put, Disks
  <2>2. Size(p) = Larger(Size(d), PlainLen(Offset(first) + n))
    <3>1. Offset(first) + n \in Nat
      BY <1>5
    <3>2. PlainLen(Larger(d.len, Offset(first) + n)) = Larger(PlainLen(d.len), PlainLen(Offset(first) + n))
      BY <1>8, <3>1, PlainLarger
    <3> HIDE DEF p
    <3> QED BY <1>8, <2>1, <3>2 DEF Size
  <2> HIDE DEF p
  <2>3. Size(d) <= Size(p) /\ Size(p) <= Larger(Size(d), end)
    BY <1>4, <1>7, <1>8, <2>2 DEF Larger
  <2>4. n = Total(out) => Size(p) = Larger(Size(d), end)
    BY <1>6, <2>2
  <2> QED BY <1>4, <2>3, <2>4 DEF p, end
<1> QED BY <1>9, <1>10

(* The blocks outside the ones that are written read as before, however much of these
   has been written. *)
LEMMA PutOutside ==
    ASSUME NEW d \in Disks, Holes(d), d.id # NoId, NEW first \in Nat, NEW last \in Nat, first <= last,
           NEW out, Fits(first, out), Len(out) = last - first + 1,
           last * Block + Len(out[Len(out)]) <= MaxLen, first * Block <= Size(d),
           NEW n \in 0..Total(out), NEW i \in 0..MaxLen - 1, i < Size(Put(d, first, out, n)),
           i \div Block \notin first..last
    PROVE  View(Put(d, first, out, n))[i] = View(d)[i] /\ i < Size(d)
<1> DEFINE p == Put(d, first, out, n)
           j == i \div Block
<1>1. p \in Disks /\ p.id = d.id
  BY PutSound
<1>2. Size(d) \in Nat /\ Size(p) \in 0..MaxLen /\ Size(p) \in Nat /\ i \in Nat
  BY <1>1, DiskParts
<1>3. /\ j \in 0..Last /\ j \in Nat /\ j * Block < Size(p) /\ j * Block \in Nat
      /\ i = j * Block + (i % Block) /\ (i % Block) + 1 \in 1..RowLen(Size(p), j) /\ i % Block \in Nat
  BY <1>2, Places
<1>4. Size(d) <= Size(p) /\ (Size(p) = Size(d) \/ Size(p) <= last * Block + Block)
  <2> DEFINE end == last * Block + Len(out[Len(out)])
  <2>1. /\ Size(d) <= Size(p) /\ Size(p) <= Larger(Size(d), end)
        /\ end \in Nat \ {0} /\ end <= last * Block + Block
    BY PutSize
  <2>2. last * Block + Block \in Nat
    BY BlockStarts, Sizes
  <2> HIDE DEF end, p
  <2> QED BY <1>2, <2>1, <2>2 DEF Larger
<1>5. p.blocks[j] = d.blocks[j]
  <2>1. p.blocks[j] = IF j - first + 1 \notin DOMAIN out \/ n <= (j - first) * StoredBlock THEN d.blocks[j]
                      ELSE IF n >= (j - first) * StoredBlock + Len(out[j - first + 1]) + Overhead
                      THEN Seal(d.id, out[j - first + 1]) ELSE Torn
    <3> HIDE DEF j
    <3> QED BY <1>3 DEF Put, Disks
  <2>2. DOMAIN out = 1..Len(out)
    BY DEF Fits
  <2>3. j - first + 1 \notin DOMAIN out
    <3>1. ~(first <= j /\ j <= last)
      BY <1>3
    <3> HIDE DEF j
    <3> QED BY <1>3, <2>2, <3>1
  <2> QED BY <2>1, <2>3
<1> HIDE DEF p
<1>6. j * Block < Size(d) /\ RowLen(Size(p), j) = RowLen(Size(d), j)
  <2>1. ~(first <= j /\ j <= last)
    BY <1>3
  <2> DEFINE size == Size(d)
             new  == Size(p)
  <2>2. /\ size \in Nat /\ new \in Nat /\ first * Block <= size /\ size <= new
        /\ new = size \/ new <= last * Block + Block
        /\ j \in Nat /\ j * Block < new
    BY <1>2, <1>3, <1>4
  <2> HIDE DEF j, size, new
  <2>3. j * Block < size /\ RowLen(new, j) = RowLen(size, j)
    BY <2>1, <2>2, OutsideLengths
  <2> QED BY <2>3 DEF size, new
<1>7. i < Size(d)
  <2> DEFINE start == j * Block
             r == i % Block
             size == Size(d)
  <2>1. /\ r + 1 \in 1..Smaller(size - start, Block) /\ start \in Nat /\ r \in Nat /\ i = start + r
        /\ size \in Nat
    BY <1>2, <1>3, <1>6 DEF RowLen
  <2> HIDE DEF start, r, size
  <2>2. i < size
    <3>1. Block \in Nat /\ size - start \in Int /\ r + 1 \in Int
      BY <2>1, Sizes
    <3>2. r + 1 <= size - start
      BY <2>1, <3>1 DEF Smaller
    <3>3. start + r < size
      BY <2>1, <3>2
    <3> QED BY <2>1, <3>3
  <2> QED BY <2>2 DEF size
<1>8. Row(p, j) = Row(d, j)
  BY <1>1, <1>5, <1>6 DEF Row
<1> QED BY <1>1, <1>7, <1>8, SameRows DEF p

(* The blocks that were written whole are the sealed ones. *)
LEMMA PutInside ==
    ASSUME NEW d \in Disks, Holes(d), d.id # NoId, NEW first \in Nat, NEW last \in Nat, first <= last,
           NEW out, Fits(first, out), Len(out) = last - first + 1,
           NEW j \in first..last, j \in 0..Last,
           Len(out[j - first + 1]) = RowLen(Size(Put(d, first, out, Total(out))), j)
    PROVE  Row(Put(d, first, out, Total(out)), j) = out[j - first + 1]
<1> DEFINE n == Total(out)
           p == Put(d, first, out, n)
           k == j - first + 1
           start == (j - first) * StoredBlock
<1>1. p.id = d.id /\ n \in Nat
  <2>1. n \in Nat \ {0}
    BY TotalType
  <2>2. n \in 0..n
    BY <2>1
  <2> QED BY <2>1, <2>2, PutSound
<1>2. k \in 1..Len(out) /\ DOMAIN out = 1..Len(out) /\ j - first \in Nat /\ k = (j - first) + 1
  BY DEF Fits
<1>3. out[k] \in Plains /\ Len(out[k]) \in 1..Block
  BY <1>2, PlainTypes DEF Fits
<1>4. start \in Nat /\ StoredBlock = Block + Overhead
  BY <1>2, Sizes, Product DEF StoredBlock
<1>5. start + Len(out[k]) + Overhead <= n
  <2> DEFINE m == Len(out) - 1
  <2>1. m \in Nat /\ j - first <= m /\ m * StoredBlock \in Nat
    <3>1. m \in Nat /\ j - first <= m
      BY <1>2
    <3> QED BY <3>1, Sizes, Product
  <2>2. Len(out[Len(out)]) \in 1..Block
    BY TotalType
  <2>3. n = m * StoredBlock + Len(out[Len(out)]) + Overhead
    BY DEF Total
  <2>4. CASE j - first = m
    <3>1. k = Len(out)
      BY <1>2, <2>4
    <3> DEFINE len1 == Len(out[k])
    <3>2. n = start + len1 + Overhead /\ len1 \in 1..Block
      BY <1>3, <2>3, <2>4, <3>1
    <3> HIDE DEF n, start, len1
    <3>3. start + len1 + Overhead <= n
      BY <1>4, <3>2, Sizes
    <3> QED BY <3>3 DEF len1
  <2>5. CASE j - first < m
    <3>1. m * StoredBlock >= start + StoredBlock
      <4>1. Offset(j - first) + StoredBlock <= Offset(m)
        BY <1>2, <2>1, <2>5, OffsetOrder
      <4> HIDE DEF m
      <4> QED BY <1>4, <2>1, <4>1, Sizes DEF Offset
    <3> DEFINE body == m * StoredBlock
               last1 == Len(out[Len(out)])
               len1 == Len(out[k])
    <3>2. body \in Nat /\ last1 \in 1..Block /\ len1 \in 1..Block /\ body >= start + StoredBlock
      BY <1>3, <2>1, <2>2, <3>1
    <3>3. n = body + last1 + Overhead
      BY <2>3
    <3> HIDE DEF body, last1, len1, start, n
    <3>4. start + len1 + Overhead <= n
      BY <1>4, <3>2, <3>3, Sizes
    <3> QED BY <3>4 DEF len1
  <2> QED BY <2>1, <2>4, <2>5
<1>6. p.blocks[j] = Seal(d.id, out[k])
  <2>1. p.blocks[j] = IF k \notin DOMAIN out \/ n <= start THEN d.blocks[j]
                      ELSE IF n >= start + Len(out[k]) + Overhead THEN Seal(d.id, out[k]) ELSE Torn
    BY DEF Put, Disks
  <2> DEFINE len1 == Len(out[k])
  <2>2. len1 \in 1..Block /\ start + len1 + Overhead <= n
    BY <1>3, <1>5
  <2> HIDE DEF len1, start, n, k, p
  <2>3. ~(n <= start) /\ n >= start + len1 + Overhead
    BY <1>1, <1>4, <2>2, Sizes
  <2> QED BY <1>2, <2>1, <2>3 DEF len1
<1> HIDE DEF k, n, start
<1>7. RowLen(Size(p), j) = Len(out[k])
  BY DEF n, k
<1> HIDE DEF p
<1>8. Row(p, j) = Open(Seal(d.id, out[k]), d.id, Len(out[k]))
  BY <1>1, <1>6, <1>7 DEF Row
<1> QED BY <1>3, <1>8, OpenSealed DEF p, n, k

(* A file that is cut or grown reads as its blocks do when opened with the new length. *)
LEMMA ResizeRows ==
    ASSUME NEW d \in Disks, d.id # NoId, NEW len \in 1..MaxLen
    PROVE  LET e == Resize(d, StoredLen(len))
           IN  /\ e \in Disks /\ e.id = d.id /\ Size(e) = len
               /\ \A j \in 0..Last : j * Block < len =>
                     Row(e, j) = Open(d.blocks[j], d.id, RowLen(len, j))
<1> DEFINE n == StoredLen(len)
           e == Resize(d, n)
<1>1. len \in 0..MaxLen /\ len \in Nat /\ len # 0
  BY Sizes
<1>2. n \in 0..Limit /\ n \in Nat /\ n >= Header /\ PlainLen(n) = len
  BY <1>1, StoredLengths, Limits, LengthsAgree
<1> HIDE DEF n
<1>3. e \in Disks /\ e.len = n /\ e.id = d.id
  <2>1. e \in Disks /\ e.len = n /\ e.id = IF n < Header THEN NoId ELSE d.id
    BY <1>2, ResizeSound
  <2> HIDE DEF e
  <2> QED BY <1>2, <2>1, Sizes
<1>4. Size(e) = len
  BY <1>2, <1>3 DEF Size
<1>5. ASSUME NEW j \in 0..Last, j * Block < len
      PROVE  Row(e, j) = Open(d.blocks[j], d.id, RowLen(len, j))
  <2> DEFINE m == RowLen(len, j)
             b == d.blocks[j]
  <2>1. j \in Nat /\ j * Block \in Nat
    BY Limits, BlockStarts
  <2>2. m \in 1..Block /\ j * Block + m <= len
    <3> DEFINE start == j * Block
    <3>1. start \in Nat /\ start < len
      BY <1>5, <2>1
    <3> HIDE DEF start
    <3>2. LET k == Smaller(len - start, Block) IN k \in 1..Block /\ start + k <= len
      BY <1>1, <3>1, Sizes DEF Smaller
    <3> QED BY <3>2 DEF RowLen, start
  <2> HIDE DEF m
  <2>3. /\ j * Block + m \in Nat \ {0}
        /\ StoredLen(j * Block + m) = Offset(j) + m + Overhead
    BY <2>1, <2>2, StoredAt
  <2>4. Offset(j) + m + Overhead <= n /\ Offset(j) \in Nat /\ m \in Nat
    <3>1. StoredLen(j * Block + m) <= StoredLen(len)
      BY <1>1, <2>2, <2>3, StoredGrows
    <3> QED BY <2>1, <2>2, <2>3, <3>1, Sizes DEF n
  <2>5. b \in StoredBlocks
    BY DEF Disks
  <2>6. e.blocks[j] = IF Offset(j) >= n THEN Hole
                      ELSE IF b.kind = "sealed" /\ Len(b.plain) + Overhead > n - Offset(j) THEN Torn
                      ELSE b
    BY DEF Resize
  <2> HIDE DEF e, b
  <2>7. ~(Offset(j) >= n)
    BY <1>2, <2>4, Sizes
  <2>8. Row(e, j) = Open(e.blocks[j], d.id, m)
    BY <1>3, <1>4 DEF Row, m
  <2>9. CASE ~(b.kind = "sealed" /\ Len(b.plain) + Overhead > n - Offset(j))
    BY <2>6, <2>7, <2>8, <2>9 DEF b, m
  <2>10. CASE b.kind = "sealed" /\ Len(b.plain) + Overhead > n - Offset(j)
    <3>1. PICK id \in Ids, p \in Plains : b = Seal(id, p)
      BY <2>5, <2>10, PlainTypes DEF Hole, Torn
    <3>2. b.plain = p /\ Len(p) \in Nat
      BY <3>1, PlainTypes, Sizes DEF Seal
    <3>3. Len(b.plain) # m
      <4> DEFINE o == Offset(j)
                 k == Len(b.plain)
      <4>1. o \in Nat /\ o + m + Overhead <= n /\ k \in Nat /\ k + Overhead > n - o
        BY <2>4, <2>10, <3>2
      <4> HIDE DEF o, k
      <4>2. k # m
        BY <1>2, <2>4, <4>1, Sizes
      <4> QED BY <4>2 DEF k
    <3>4. Open(b, d.id, m) = [k \in 1..m |-> Bad]
      BY <2>10, <3>3 DEF Open
    <3>5. Open(Torn, d.id, m) = [k \in 1..m |-> Bad]
      BY DEF Open, Torn
    <3> QED BY <2>6, <2>7, <2>8, <2>10, <3>4, <3>5 DEF b, m
  <2> QED BY <2>9, <2>10
<1> QED BY <1>3, <1>4, <1>5 DEF n

LEMMA ViewEqual ==
    ASSUME NEW d, NEW e, \A i \in 0..MaxLen - 1 : View(e)[i] = View(d)[i]
    PROVE  View(e) = View(d)
BY DEF View

(* A file without blocks reads as nothing. *)
LEMMA ViewEmpty ==
    ASSUME NEW d \in Disks, Size(d) = 0
    PROVE  View(d) = [i \in 0..MaxLen - 1 |-> 0]
<1>1. \A i \in 0..MaxLen - 1 : ~(i < Size(d))
  BY Sizes
<1> QED BY <1>1 DEF View

(* ensure_header: a header changes no byte. *)
LEMMA EnsureView ==
    ASSUME NEW s, Sound(s), NEW cut, cut.bytes \in Nat, cut.step = "header" => cut.bytes < Header,
           MaxLen # 0
    PROVE  /\ Size(EnsureHeader(s, cut).disk) = Size(s.disk)
           /\ View(EnsureHeader(s, cut).disk) = View(s.disk)
<1> DEFINE e == EnsureHeader(s, cut)
<1>1. CASE s.res # "ok" \/ s.id # NoId
  BY <1>1, EnsureHeaderSound
<1>2. CASE s.res = "ok" /\ s.id = NoId
  <2>1. s.disk.len < Header /\ s.disk \in Disks
    BY <1>2, CallParts
  <2>2. Sound(e)
    BY EnsureHeaderSound
  <2>3. e.disk \in Disks /\ e.disk.len \in Nat /\ s.disk.len \in Nat
    BY <2>1, <2>2, CallParts, DiskParts
  <2>4. e.disk.len <= Header
    <3>1. CASE cut.step = "header"
      <4>1. e.disk.len = Larger(s.disk.len, cut.bytes)
        BY <1>2, <2>1, <3>1, CallParts DEF EnsureHeader, Fails, Disks
      <4> HIDE DEF e
      <4> QED BY <2>1, <2>3, <3>1, <4>1, Sizes DEF Larger
    <3>2. CASE cut.step # "header"
      <4> DEFINE id == FreshId(s.disk)
      <4> HIDE DEF id
      <4>0. e = [s EXCEPT !.disk.len = Larger(@, Header), !.disk.id = id,
                          !.id = id, !.len = Larger(@, Header)]
        BY <1>2, <3>2 DEF EnsureHeader, id
      <4>1. e.disk.len = Larger(s.disk.len, Header)
        <5>1. s = [disk |-> s.disk, id |-> s.id, len |-> s.len, res |-> s.res]
          BY CallParts
        <5>2. s.disk = [len |-> s.disk.len, id |-> s.disk.id, blocks |-> s.disk.blocks]
          BY <2>1 DEF Disks
        <5> HIDE DEF e
        <5> QED BY <4>0, <5>1, <5>2
      <4> HIDE DEF e
      <4> QED BY <2>1, <2>3, <4>1, Sizes DEF Larger
    <3> QED BY <3>1, <3>2
  <2> HIDE DEF e
  <2>5. Size(e.disk) = 0 /\ Size(s.disk) = 0
    BY <2>1, <2>3, <2>4, Sizes DEF Size, PlainLen
  <2> QED BY <2>1, <2>3, <2>5, ViewEmpty DEF e
<1> QED BY <1>1, <1>2

(* The file as grow leaves it before it gets its length: nothing is behind its last
   block, and this one is full unless it ends the new file. *)
Padding(p, len) ==
    /\ Size(p) <= len
    /\ Size(p) < len => \A j \in 0..Last : j * Block < Size(p) => j * Block + Block <= Size(p)
    /\ \A j \in 0..Last : Size(p) <= j * Block => p.blocks[j] = Hole

LEMMA ExtendView ==
    ASSUME NEW p \in Disks, p.id # NoId, NEW len \in 1..MaxLen, Padding(p, len)
    PROVE  Size(Resize(p, StoredLen(len))) = len /\ View(Resize(p, StoredLen(len))) = View(p)
<1> DEFINE e == Resize(p, StoredLen(len))
<1>1. /\ e \in Disks /\ e.id = p.id /\ Size(e) = len
      /\ \A j \in 0..Last : j * Block < len => Row(e, j) = Open(p.blocks[j], p.id, RowLen(len, j))
  BY ResizeRows
<1> HIDE DEF e
<1>2. Size(p) \in 0..MaxLen /\ len \in 0..MaxLen /\ Size(p) \in Nat /\ len \in Nat /\ Size(p) <= len
  BY DiskParts, Sizes DEF Padding
<1>3. ASSUME NEW i \in 0..MaxLen - 1 PROVE View(e)[i] = View(p)[i]
  <2> DEFINE j == i \div Block
             k == (i % Block) + 1
             m == Size(p)
  <2>1. i \in Nat
    BY Sizes
  <2>2. View(e)[i] = IF i < len THEN Row(e, j)[k] ELSE 0
    BY <1>1 DEF View
  <2>3. View(p)[i] = IF i < m THEN Row(p, j)[k] ELSE 0
    BY DEF View
  <2>4. CASE ~(i < len)
    <3>1. ~(i < m)
      BY <1>2, <2>1, <2>4
    <3> QED BY <2>2, <2>3, <2>4, <3>1
  <2>5. CASE i < len
    <3>1. /\ j \in 0..Last /\ j \in Nat /\ j * Block <= i /\ j * Block < len /\ i < j * Block + Block
          /\ j * Block \in Nat /\ k \in 1..RowLen(len, j) /\ RowLen(len, j) \in 1..Block
      BY <1>2, <2>1, <2>5, Places
    <3> DEFINE start == j * Block
    <3>2. start \in Nat /\ start <= i /\ start < len /\ i < start + Block /\ RowLen(len, j) = Smaller(len - start, Block)
      BY <3>1 DEF RowLen
    <3>3. Row(e, j) = Open(p.blocks[j], p.id, RowLen(len, j))
      BY <1>1, <3>1
    <3>4. CASE start < m
      <4>1. m = len \/ start + Block <= m
        BY <1>2, <3>1, <3>4 DEF Padding
      <4> HIDE DEF m, start, j
      <4>2. i < m /\ Smaller(len - start, Block) = Smaller(m - start, Block)
        <5>1. m \in Nat /\ m <= len /\ len \in Nat /\ Block \in Nat
          BY <1>2, Sizes DEF m
        <5> QED BY <2>1, <2>5, <3>2, <4>1, <5>1 DEF Smaller
      <4>3. RowLen(len, j) = RowLen(m, j)
        BY <3>2, <4>2 DEF RowLen, start
      <4>4. Row(e, j) = Row(p, j)
        BY <3>3, <4>3 DEF Row, m
      <4> QED BY <2>2, <2>3, <2>5, <4>2, <4>4
    <3>5. CASE ~(start < m)
      <4>1. m <= start /\ ~(i < m)
        <5> HIDE DEF start, m
        <5>1. m \in Nat
          BY <1>2 DEF m
        <5> QED BY <2>1, <3>2, <3>5, <5>1
      <4>2. p.blocks[j] = Hole
        BY <3>1, <4>1 DEF Padding
      <4>3. RowLen(len, j) \in Nat
        BY <3>1, Sizes
      <4>4. Open(Hole, p.id, RowLen(len, j))[k] = 0
        BY <3>1, <4>3, OpenTypes, BlockTypes
      <4> QED BY <2>2, <2>3, <2>5, <3>3, <4>1, <4>2, <4>4
    <3> QED BY <3>4, <3>5
  <2> QED BY <2>4, <2>5
<1> QED BY <1>1, <1>3, ViewEqual DEF e

(* A good call's length is the stored one until it fails. *)
LEMMA GoodSize ==
    ASSUME NEW s, Good(s), s.res # "failed"
    PROVE  s.len = s.disk.len /\ Size(s) = Size(s.disk)
BY DEF Good, Same, Size

(* One sealed block that is written, whole or in part: the others read as before, and when it
   is whole and as long as the file wants it, it reads as what was written. *)
LEMMA PutOne ==
    ASSUME NEW d \in Disks, Holes(d), d.id # NoId, NEW index \in 0..Last, NEW q \in Plains,
           index * Block + Len(q) <= MaxLen, index * Block <= Size(d), NEW n \in 0..Total(<<q>>)
    PROVE  LET p == Put(d, index, <<q>>, n)
               end == index * Block + Len(q)
           IN  /\ p \in Disks /\ Holes(p) /\ p.id = d.id
               /\ Size(d) <= Size(p) /\ Size(p) <= Larger(Size(d), end)
               /\ \A i \in 0..MaxLen - 1 :
                     i < Size(p) /\ i \div Block # index => View(p)[i] = View(d)[i]
               /\ n = Total(<<q>>) => /\ Size(p) = Larger(Size(d), end)
                                      /\ Len(q) = RowLen(Size(p), index) => Row(p, index) = q
<1> DEFINE out == <<q>>
           p == Put(d, index, out, n)
<1>1. index \in Nat
  BY Limits
<1>2. Fits(index, out)
  BY <1>1, OneBlock
<1>3. /\ Len(out) = 1 /\ out[1] = q
  OBVIOUS
<1> HIDE DEF out
<1>4. ASSUME NEW last \in Nat, last = index
      PROVE  /\ index <= last /\ Len(out) = last - index + 1 /\ out[Len(out)] = q
             /\ last * Block + Len(out[Len(out)]) <= MaxLen
             /\ last - index + 1 = 1 /\ index..last = {index}
  BY <1>1, <1>3, <1>4
<1>5. ASSUME NEW last \in Nat, last = index
      PROVE  /\ Size(d) <= Size(p) /\ Size(p) <= Larger(Size(d), last * Block + Len(out[Len(out)]))
             /\ n = Total(out) => Size(p) = Larger(Size(d), last * Block + Len(out[Len(out)]))
  <2>1. /\ index <= last /\ Len(out) = last - index + 1
        /\ last * Block + Len(out[Len(out)]) <= MaxLen /\ n \in 0..Total(out)
    BY <1>4, <1>5 DEF out
  <2> QED BY <1>1, <1>2, <2>1, PutSize
<1>6. ASSUME NEW last \in Nat, last = index, NEW i \in 0..MaxLen - 1, i < Size(p), i \div Block # index
      PROVE  View(p)[i] = View(d)[i]
  <2>1. /\ index <= last /\ Len(out) = last - index + 1
        /\ last * Block + Len(out[Len(out)]) <= MaxLen /\ n \in 0..Total(out)
        /\ i \div Block \notin index..last
    BY <1>4, <1>6 DEF out
  <2>2. index * Block <= Size(d) /\ i < Size(Put(d, index, out, n))
    BY <1>6
  <2> HIDE DEF p
  <2>3. View(Put(d, index, out, n))[i] = View(d)[i]
    BY <1>1, <1>2, <2>1, <2>2, PutOutside, SMTT(40)
  <2> QED BY <2>3 DEF p
<1>7. ASSUME NEW last \in Nat, last = index, n = Total(out), Len(q) = RowLen(Size(p), index)
      PROVE  Row(p, index) = q
  <2>1. /\ index <= last /\ Len(out) = last - index + 1 /\ index \in index..last
        /\ out[index - index + 1] = q /\ Len(out[index - index + 1]) = RowLen(Size(Put(d, index, out, Total(out))), index)
    BY <1>1, <1>3, <1>4, <1>7
  <2>2. Row(Put(d, index, out, Total(out)), index) = out[index - index + 1]
    BY <1>1, <1>2, <2>1, PutInside
  <2> QED BY <1>7, <2>1, <2>2
<1>8. p \in Disks /\ Holes(p) /\ p.id = d.id
  BY <1>2, PutSound DEF out
<1>9. /\ Size(d) <= Size(p) /\ Size(p) <= Larger(Size(d), index * Block + Len(q))
      /\ n = Total(out) => Size(p) = Larger(Size(d), index * Block + Len(q))
  BY <1>1, <1>4, <1>5
<1>10. \A i \in 0..MaxLen - 1 : i < Size(p) /\ i \div Block # index => View(p)[i] = View(d)[i]
  BY <1>1, <1>6
<1>11. n = Total(out) /\ Len(q) = RowLen(Size(p), index) => Row(p, index) = q
  BY <1>1, <1>7
<1> HIDE DEF p
<1> QED BY <1>8, <1>9, <1>10, <1>11 DEF out, p

LEMMA PutWhole ==
    ASSUME NEW d \in Disks, Holes(d), d.id # NoId, NEW index \in 0..Last, NEW q \in Plains,
           index * Block + Len(q) <= MaxLen, index * Block <= Size(d)
    PROVE  LET p == Put(d, index, <<q>>, Total(<<q>>))
           IN  /\ p \in Disks /\ Holes(p) /\ p.id = d.id
               /\ Size(p) = Larger(Size(d), index * Block + Len(q))
               /\ Len(q) = RowLen(Size(p), index) => Row(p, index) = q
               /\ \A i \in 0..MaxLen - 1 :
                     i < Size(p) /\ i \div Block # index => View(p)[i] = View(d)[i]
<1>1. Fits(index, <<q>>)
  BY Limits, OneBlock
<1>2. Total(<<q>>) \in 0..Total(<<q>>)
  <2>1. Total(<<q>>) \in Nat \ {0}
    BY <1>1, TotalType
  <2> QED BY <2>1
<1>3. ASSUME NEW n, n = Total(<<q>>)
      PROVE  LET p == Put(d, index, <<q>>, n)
             IN  /\ p \in Disks /\ Holes(p) /\ p.id = d.id
                 /\ Size(p) = Larger(Size(d), index * Block + Len(q))
                 /\ Len(q) = RowLen(Size(p), index) => Row(p, index) = q
                 /\ \A i \in 0..MaxLen - 1 :
                       i < Size(p) /\ i \div Block # index => View(p)[i] = View(d)[i]
  <2>1. n \in 0..Total(<<q>>)
    BY <1>2, <1>3
  <2> DEFINE p == Put(d, index, <<q>>, n)
  <2>2. p \in Disks /\ Holes(p) /\ p.id = d.id
    BY <2>1, PutOne
  <2>3. \A i \in 0..MaxLen - 1 : i < Size(p) /\ i \div Block # index => View(p)[i] = View(d)[i]
    BY <2>1, PutOne
  <2>4. Size(p) = Larger(Size(d), index * Block + Len(q))
    BY <1>3, <2>1, PutOne
  <2>5. Len(q) = RowLen(Size(p), index) => Row(p, index) = q
    BY <1>3, <2>1, PutOne
  <2> HIDE DEF p
  <2> QED BY <2>2, <2>3, <2>4, <2>5 DEF p
<1> QED BY <1>3

(* grow, when the last block is partly filled: it is sealed again with zeros behind its
   bytes. *)
LEMMA PadView ==
    ASSUME NEW s, Sound(s), Good(s), s.res = "ok", s.id # NoId, NEW len \in 0..MaxLen, Size(s) < len,
           NEW cut, cut.bytes \in Nat, Size(s) % Block > 0,
           ~Corrupt(Open(s.disk.blocks[Size(s) \div Block], s.id, Size(s) % Block))
    PROVE  LET size    == Size(s)
               partial == size % Block
               index   == size \div Block
               old     == Open(s.disk.blocks[index], s.id, partial)
               grown   == Smaller(len - index * Block, Block)
               out     == <<old \o Zeros(grown - partial)>>
               p       == Put(s.disk, index, out, Total(out))
           IN  p \in Disks /\ Padding(p, len) /\ View(p) = View(s.disk) /\ size < Size(p)
<1> DEFINE d       == s.disk
           size    == Size(s)
           partial == size % Block
           index   == size \div Block
           old     == Open(d.blocks[index], s.id, partial)
           grown   == Smaller(len - index * Block, Block)
           new     == old \o Zeros(grown - partial)
           out     == <<new>>
           end     == index * Block + grown
           p       == Put(d, index, out, Total(out))
<1>1. /\ d \in Disks /\ Holes(d) /\ d.id # NoId /\ s.id = d.id /\ size \in 0..MaxLen /\ size \in Nat
      /\ d.len \in Nat /\ Size(d) = size /\ len \in Nat /\ MaxLen \in Nat
  <2>1. d \in Disks /\ Holes(d) /\ d.id # NoId /\ s.id = d.id /\ size \in 0..MaxLen
    BY CallParts
  <2>2. Size(d) = size
    BY GoodSize
  <2> QED BY <2>1, <2>2, DiskParts, Sizes
<1>2. /\ Fits(index, out) /\ Offset(index) + Total(out) = StoredLen(end)
      /\ old \in [1..partial -> Written] /\ new \in [1..grown -> Written] /\ new \in Plains
  BY PaddedSound
<1>3. /\ index \in 0..Last /\ partial \in 0..Block - 1 /\ index * Block \in Nat
      /\ size = index * Block + partial
      /\ grown \in 1..Block /\ partial < grown /\ grown - partial \in Nat
      /\ end <= len /\ end <= MaxLen /\ partial + (grown - partial) = grown
  BY <1>1, GrowBlock
<1>4. grown = Block \/ end = len
  <2> DEFINE start == index * Block
  <2>1. start \in Nat
    BY <1>3
  <2>2. grown = Smaller(len - start, Block) /\ end = start + grown
    OBVIOUS
  <2> HIDE DEF start, grown, end
  <2> QED BY <1>1, <2>1, <2>2, Sizes DEF Smaller
<1>5. index \in Nat /\ grown \in Nat /\ partial \in Nat /\ Block \in Nat
  BY <1>3, Limits, Sizes
<1>6. Len(new) = grown
  <2> HIDE DEF new, grown
  <2> QED BY <1>2, <1>5, RowLength
<1>8. partial > 0 /\ end > size /\ end \in Nat
  <2> DEFINE start == index * Block
  <2>1. start \in Nat /\ size = start + partial /\ end = start + grown /\ partial > 0
    BY <1>3
  <2> HIDE DEF start, partial, grown, size, end
  <2> QED BY <1>3, <1>5, <2>1
<1>9. \A k \in 1..grown : new[k] = IF k <= partial THEN old[k] ELSE 0
  <2> HIDE DEF old, grown, partial
  <2>1. \A k \in 1..partial + (grown - partial) : new[k] = IF k <= partial THEN old[k] ELSE 0
    BY <1>2, <1>3, <1>5, Padded
  <2> QED BY <1>3, <2>1
<1> HIDE DEF size, partial, index, old, grown, new, out, end, d
<1>10. Total(out) \in 0..Total(out) /\ Total(out) \in Nat
  BY <1>2, TotalType
<1>11. /\ p \in Disks /\ Holes(p) /\ p.id = d.id /\ Size(p) = Larger(Size(d), end)
       /\ Len(new) = RowLen(Size(p), index) => Row(p, index) = new
       /\ \A i \in 0..MaxLen - 1 : i < Size(p) /\ i \div Block # index => View(p)[i] = View(d)[i]
  <2>1. index * Block + Len(new) <= MaxLen /\ index * Block <= Size(d) /\ end = index * Block + Len(new)
    BY <1>1, <1>3, <1>5, <1>6 DEF end
  <2>2. /\ d \in Disks /\ Holes(d) /\ d.id # NoId /\ index \in 0..Last /\ new \in Plains
        /\ Total(<<new>>) \in 0..Total(<<new>>)
    BY <1>1, <1>2, <1>3, <1>10 DEF out
  <2> DEFINE e == Put(d, index, <<new>>, Total(<<new>>))
  <2>3. /\ e \in Disks /\ Holes(e) /\ e.id = d.id /\ Size(e) = Larger(Size(d), index * Block + Len(new))
        /\ Len(new) = RowLen(Size(e), index) => Row(e, index) = new
        /\ \A i \in 0..MaxLen - 1 : i < Size(e) /\ i \div Block # index => View(e)[i] = View(d)[i]
    BY <2>1, <2>2, PutWhole
  <2>4. p = e
    BY DEF out
  <2> HIDE DEF p, e
  <2> QED BY <2>1, <2>3, <2>4
<1>13. Size(p) = end
  <2> HIDE DEF p
  <2> QED BY <1>1, <1>8, <1>11 DEF Larger
<1>14. RowLen(end, index) = grown
  <2> DEFINE start == index * Block
  <2>1. start \in Nat /\ end = start + grown
    BY <1>3 DEF end
  <2> HIDE DEF start
  <2>2. Smaller(end - start, Block) = grown
    BY <1>3, <1>5, <2>1 DEF Smaller
  <2> QED BY <2>2 DEF RowLen, start
<1>15. Row(p, index) = new
  BY <1>6, <1>11, <1>13, <1>14
<1>16. Row(d, index) = old
  <2> DEFINE start == index * Block
  <2>1. start \in Nat /\ size = start + partial
    BY <1>3
  <2> HIDE DEF start
  <2>2. Smaller(size - start, Block) = partial
    BY <1>3, <1>5, <2>1 DEF Smaller
  <2>3. RowLen(Size(d), index) = partial
    BY <1>1, <2>2 DEF RowLen, start
  <2> QED BY <1>1, <2>3 DEF Row, old
<1>17. ASSUME NEW i \in 0..MaxLen - 1 PROVE View(p)[i] = View(d)[i]
  <2> DEFINE j == i \div Block
             k == (i % Block) + 1
  <2>1. i \in Nat
    BY Sizes
  <2>2. View(p)[i] = IF i < end THEN Row(p, j)[k] ELSE 0
    BY <1>13 DEF View
  <2>3. View(d)[i] = IF i < size THEN Row(d, j)[k] ELSE 0
    BY <1>1 DEF View
  <2>4. CASE ~(i < end)
    <3>1. ~(i < size)
      BY <1>1, <1>8, <2>1, <2>4
    <3> QED BY <2>2, <2>3, <2>4, <3>1
  <2>5. CASE i < end /\ j # index
    BY <1>11, <1>13, <2>5
  <2>6. CASE i < end /\ j = index
    <3>1. k \in 1..RowLen(end, j) /\ i = j * Block + (i % Block) /\ i % Block \in Nat
      <4>1. end \in 0..MaxLen
        BY <1>3, <1>8, Sizes
      <4> QED BY <2>1, <2>6, <4>1, Places
    <3>2. k \in 1..grown
      BY <1>14, <2>6, <3>1
    <3>3. i < size <=> k <= partial
      <4> DEFINE start == index * Block
                 r == i % Block
      <4>1. start \in Nat /\ r \in Nat /\ i = start + r /\ k = r + 1 /\ size = start + partial
        BY <1>3, <2>6, <3>1
      <4> HIDE DEF start, r, k
      <4> QED BY <1>5, <4>1
    <3>4. View(p)[i] = new[k]
      BY <1>15, <2>2, <2>6
    <3>5. View(d)[i] = IF i < size THEN old[k] ELSE 0
      BY <1>16, <2>3, <2>6
    <3> QED BY <1>9, <3>2, <3>3, <3>4, <3>5
  <2> QED BY <2>4, <2>5, <2>6
<1>18. Padding(p, len)
  <2>1. Size(p) <= len
    BY <1>3, <1>13
  <2>2. ASSUME Size(p) < len, NEW j \in 0..Last, j * Block < Size(p)
        PROVE  j * Block + Block <= Size(p)
    <3>1. end = index * Block + Block
      BY <1>4, <1>13, <1>8, <2>2 DEF end
    <3>2. j \in Nat /\ j * Block \in Nat /\ index * Block \in Nat
      BY Limits, BlockStarts, <1>3, SMTT(30)
    <3>3. j <= index
      <4> SUFFICES ASSUME index < j PROVE FALSE
        BY <1>5, <3>2
      <4>1. index * Block + Block <= j * Block
        BY <1>5, <3>2, BlockStarts
      <4> QED BY <1>13, <2>2, <3>1, <3>2, <4>1, <1>5
    <3>4. j < index => j * Block + Block <= index * Block
      BY <1>5, <3>2, BlockStarts
    <3> QED BY <1>5, <1>13, <3>1, <3>2, <3>3, <3>4
  <2>3. p.len = StoredLen(end)
    <3>1. p.len = Larger(d.len, StoredLen(end))
      <4>1. p.len = IF Total(out) = 0 THEN d.len ELSE Larger(d.len, Offset(index) + Total(out))
        BY <1>1 DEF Put, Disks
      <4>2. Total(out) # 0
        BY <1>2, TotalType
      <4> QED BY <1>2, <4>1, <4>2
    <3>2. StoredLen(end) \in Nat /\ PlainLen(StoredLen(end)) = end
      BY <1>8, StoredLengths, LengthsAgree
    <3>3. d.len < StoredLen(end)
      <4> SUFFICES ASSUME StoredLen(end) <= d.len PROVE FALSE
        BY <1>1, <3>2
      <4>1. PlainLen(StoredLen(end)) <= PlainLen(d.len)
        BY <1>1, <3>2, PlainGrows
      <4>2. end <= size
        BY <1>1, <3>2, <4>1 DEF Size
      <4> QED BY <1>1, <1>8, <4>2
    <3> HIDE DEF p
    <3> QED BY <1>1, <3>1, <3>2, <3>3 DEF Larger
  <2>4. ASSUME NEW j \in 0..Last, Size(p) <= j * Block
        PROVE  p.blocks[j] = Hole
    <3>1. j \in Nat /\ j * Block \in Nat /\ index * Block \in Nat
      BY Limits, BlockStarts, <1>3, SMTT(30)
    <3>2. index < j
      <4> SUFFICES ASSUME j <= index PROVE FALSE
        BY <1>5, <3>1
      <4>1. j < index => j * Block + Block <= index * Block
        BY <1>5, <3>1, BlockStarts
      <4>2. j * Block <= index * Block
        BY <1>5, <3>1, <4>1
      <4>3. end > index * Block
        BY <1>3, <1>5 DEF end
      <4> QED BY <1>8, <1>13, <2>4, <3>1, <4>2, <4>3
    <3>3. Offset(index) + StoredBlock <= Offset(j)
      BY <1>5, <3>1, <3>2, OffsetOrder
    <3>4. StoredLen(end) = Offset(index) + grown + Overhead
      BY <1>3, <1>5, StoredAt DEF end
    <3>5. Offset(j) >= p.len
      <4>1. Offset(index) \in Nat /\ Offset(j) \in Nat /\ StoredBlock = Block + Overhead /\ Overhead \in Nat
        BY <1>5, <3>1, Sizes DEF StoredBlock
      <4> HIDE DEF p
      <4> QED BY <1>3, <1>5, <2>3, <3>3, <3>4, <4>1
    <3> QED BY <1>11, <3>5 DEF Holes
  <2> QED BY <2>1, <2>2, <2>4 DEF Padding
<1>19. size < Size(p)
  BY <1>8, <1>13
<1>20. View(p) = View(d)
  BY <1>17, ViewEqual
<1> QED BY <1>11, <1>18, <1>19, <1>20 DEF size, partial, index, old, grown, new, out, d

(* grow, when the last block is full: what is behind it is dropped. *)
LEMMA StrayView ==
    ASSUME NEW s, Sound(s), Good(s), s.res = "ok", s.id # NoId, NEW len \in 0..MaxLen, Size(s) < len,
           NEW cut, ~(Size(s) % Block > 0)
    PROVE  LET w == DropStray(s, cut)
           IN  /\ w.res \in {"ok", "failed"} /\ w.disk \in Disks
               /\ Size(w.disk) = Size(s) /\ View(w.disk) = View(s.disk)
               /\ w.res = "ok" => Padding(w.disk, len)
<1> DEFINE d     == s.disk
           size  == Size(s)
           q     == size \div Block
           exact == Larger(Header, StoredLen(size))
           w     == DropStray(s, cut)
<1>1. /\ d \in Disks /\ Holes(d) /\ d.id # NoId /\ size \in 0..MaxLen /\ size \in Nat
      /\ d.len \in Nat /\ Size(d) = size /\ len \in Nat /\ MaxLen \in Nat /\ s.len = d.len
      /\ s.len \in 0..Limit
  <2>1. d \in Disks /\ Holes(d) /\ d.id # NoId /\ size \in 0..MaxLen /\ s.len \in 0..Limit
    BY CallParts
  <2>2. Size(d) = size /\ s.len = d.len
    BY GoodSize
  <2> QED BY <2>1, <2>2, DiskParts, Sizes
<1>2. q \in Nat /\ q * Block \in Nat /\ size = q * Block /\ size % Block = 0
  <2>1. size % Block = 0
    BY <1>1, Division
  <2> QED BY <1>1, <2>1, Division, BlockStarts
<1>3. exact = Offset(q) /\ exact \in Nat
  <2>1. Offset(q) \in Nat /\ Offset(q) >= Header
    BY <1>2, Sizes
  <2>2. CASE size = 0
    <3>1. q = 0
      BY <1>2, <2>2, Sizes
    <3>2. Offset(0) = Header
      BY Sizes DEF Offset
    <3>3. StoredLen(size) = 0
      BY <2>2 DEF StoredLen
    <3> QED BY <3>1, <3>2, <3>3, Sizes DEF Larger
  <2>3. CASE size # 0
    <3>1. StoredLen(size) = Header + q * StoredBlock + 0
      BY <1>2, <2>3 DEF StoredLen
    <3>2. q * StoredBlock \in Nat
      BY <1>2, Sizes, Product
    <3>3. StoredLen(size) = Offset(q)
      BY <3>1, <3>2, Sizes DEF Offset
    <3> HIDE DEF size
    <3> QED BY <2>1, <3>3, Sizes DEF Larger
  <2> QED BY <2>2, <2>3
<1>4. exact \in 0..Limit /\ ~(exact < Header)
  <2>1. StoredLen(size) \in 0..Limit /\ MaxLen # 0
    BY <1>1, Limits
  <2> HIDE DEF size
  <2> QED BY <2>1, Limits, Sizes DEF Larger
<1> HIDE DEF size, q, exact, d
<1>5. ASSUME NEW e \in Disks, Size(e) = size, e.len = exact, Holes(e) PROVE Padding(e, len)
  <2>1. Size(e) <= len
    BY <1>1, <1>5 DEF size
  <2>2. ASSUME NEW j \in 0..Last, j * Block < Size(e) PROVE j * Block + Block <= Size(e)
    <3>1. j \in Nat /\ j * Block \in Nat
      BY Limits, BlockStarts
    <3>2. q <= j => FALSE
      <4> SUFFICES ASSUME q <= j PROVE FALSE
        OBVIOUS
      <4>1. q < j => q * Block + Block <= j * Block
        BY <1>2, <3>1, BlockStarts
      <4> QED BY <1>2, <1>5, <2>2, <3>1, <4>1, Sizes
    <3>3. j < q
      BY <1>2, <3>1, <3>2
    <3> QED BY <1>2, <1>5, <3>1, <3>3, BlockStarts
  <2>3. ASSUME NEW j \in 0..Last, Size(e) <= j * Block PROVE e.blocks[j] = Hole
    <3>1. j \in Nat /\ j * Block \in Nat
      BY Limits, BlockStarts
    <3>2. q <= j
      <4> SUFFICES ASSUME j < q PROVE FALSE
        BY <1>2, <3>1
      <4>1. j * Block + Block <= q * Block
        BY <1>2, <3>1, BlockStarts
      <4> QED BY <1>2, <1>5, <2>3, <3>1, <4>1, Sizes
    <3>3. Offset(q) <= Offset(j)
      <4>1. q < j => Offset(q) + StoredBlock <= Offset(j)
        BY <1>2, <3>1, OffsetOrder
      <4>2. Offset(q) \in Nat /\ Offset(j) \in Nat
        BY <1>2, <3>1, Sizes
      <4> QED BY <1>2, <3>1, <3>2, <4>1, <4>2, Sizes
    <3> QED BY <1>3, <1>5, <3>3 DEF Holes
  <2> QED BY <2>1, <2>2, <2>3 DEF Padding
<1>6. CASE s.len = exact
  <2>1. w = s
    BY <1>6 DEF DropStray, exact, size
  <2> HIDE DEF w
  <2> QED BY <1>1, <1>5, <1>6, <2>1 DEF w, d, size
<1>7. CASE s.len # exact
  <2>1. w = ResizeTo(s, "exact", cut, exact)
    BY <1>7 DEF DropStray, exact, size
  <2>2. \/ w.res = "failed" /\ w.disk = d
        \/ w.res = "ok" /\ w.disk = Resize(d, exact)
    <3>1. exact >= Header
      BY <1>3, <1>4, Sizes
    <3> HIDE DEF w
    <3> QED BY <1>4, <2>1, <3>1, ResizeToSound DEF d
  <2> DEFINE e == Resize(d, exact)
  <2>3. e \in Disks /\ Holes(e) /\ e.len = exact
    BY <1>1, <1>4, ResizeSound
  <2>4. Size(e) = size /\ View(e) = View(d)
    <3>1. CASE size = 0
      <4>1. exact = Header
        BY <3>1, Sizes DEF exact, Larger, StoredLen
      <4> HIDE DEF e
      <4>2. Size(e) = 0
        BY <2>3, <4>1, Sizes DEF Size, PlainLen
      <4> QED BY <1>1, <2>3, <3>1, <4>2, ViewEmpty
    <3>2. CASE size # 0
      <4>1. exact = StoredLen(size) /\ size \in 1..MaxLen
        <5>1. StoredLen(size) \in Nat /\ StoredLen(size) >= Header
          BY <1>1, <3>2, StoredLengths
        <5> QED BY <1>1, <3>2, <5>1, Sizes DEF exact, Larger
      <4>2. /\ e.id = d.id /\ Size(e) = size
            /\ \A j \in 0..Last : j * Block < size => Row(e, j) = Open(d.blocks[j], d.id, RowLen(size, j))
        <5>1. e = Resize(d, StoredLen(size))
          BY <4>1
        <5> HIDE DEF e
        <5> QED BY <1>1, <4>1, <5>1, ResizeRows
      <4> HIDE DEF e
      <4>3. ASSUME NEW i \in 0..MaxLen - 1 PROVE View(e)[i] = View(d)[i]
        <5>1. CASE i < size
          <6>1. i \in Nat
            BY Sizes
          <6>2. (i \div Block) \in 0..Last /\ (i \div Block) * Block < size
            BY <1>1, <5>1, <6>1, Places
          <6>3. Row(e, i \div Block) = Row(d, i \div Block)
            BY <1>1, <4>2, <6>2 DEF Row
          <6> QED BY <1>1, <2>3, <4>2, <5>1, <6>3, SameRows
        <5>2. CASE ~(i < size)
          BY <1>1, <4>2, <5>2 DEF View
        <5> QED BY <5>1, <5>2
      <4> QED BY <4>2, <4>3, ViewEqual
    <3> QED BY <3>1, <3>2
  <2> HIDE DEF e, w
  <2>5. CASE w.res = "failed" /\ w.disk = d
    BY <1>1, <2>5 DEF w, d, size
  <2>6. CASE w.res = "ok" /\ w.disk = e
    BY <1>5, <2>3, <2>4, <2>6 DEF w, d, size
  <2> QED BY <2>2, <2>5, <2>6 DEF e
<1> QED BY <1>6, <1>7

(* What a call that stops half-way may have harmed: no byte outside the blocks from
   "first" to "last". *)
Harmless(d, e, first, last) ==
    \A i \in 0..MaxLen - 1 :
        i < Size(e) /\ i \div Block \notin first..last => View(e)[i] = View(d)[i]

LEMMA GrowView ==
    ASSUME NEW s0, Sound(s0), Good(s0), s0.res = "ok", NEW len \in 0..MaxLen, Size(s0) < len,
           NEW cut, cut.bytes \in Nat, cut.step = "header" => cut.bytes < Header
    PROVE  LET g == Grow(s0, len, cut)
               d == s0.disk
           IN  /\ g.res = "ok" => Size(g.disk) = len /\ View(g.disk) = View(d)
               /\ Size(d) <= Size(g.disk) /\ Size(g.disk) <= len
               /\ Harmless(d, g.disk, Size(d) \div Block, Size(d) \div Block)
<1> DEFINE d       == s0.disk
           s       == EnsureHeader(s0, cut)
           size    == Size(s)
           partial == size % Block
           index   == size \div Block
           old     == Open(s.disk.blocks[index], s.id, partial)
           grown   == Smaller(len - index * Block, Block)
           out     == <<old \o Zeros(grown - partial)>>
           padded  == IF s.res # "ok" THEN s
                      ELSE IF partial > 0 THEN
                        IF Corrupt(old) THEN Fails(s, "corrupt")
                        ELSE WriteBlocks(s, "pad", cut, index, out)
                      ELSE DropStray(s, cut)
           done    == ResizeTo(padded, "extend", cut, StoredLen(len))
           g       == IF done.res = "ok" THEN [done EXCEPT !.len = StoredLen(len)] ELSE done
           Right(x) == /\ x.res = "ok" => Size(x.disk) = len /\ View(x.disk) = View(d)
                       /\ Size(d) <= Size(x.disk) /\ Size(x.disk) <= len
                       /\ Harmless(d, x.disk, Size(d) \div Block, Size(d) \div Block)
<1>0. Grow(s0, len, cut) = g
  BY DEF Grow
<1>1. /\ Size(s0) \in 0..MaxLen /\ MaxLen # 0 /\ MaxLen \in Nat /\ d \in Disks /\ len \in 1..MaxLen
      /\ Size(d) = Size(s0) /\ Size(d) \in Nat /\ len \in Nat
  <2>1. Size(s0) \in 0..MaxLen /\ d \in Disks
    BY CallParts
  <2>2. Size(d) = Size(s0)
    BY GoodSize
  <2> QED BY <2>1, <2>2, Sizes
<1>2. /\ Sound(s) /\ s.res \in {"ok", "failed"} /\ (s.res = "ok" => s.id # NoId) /\ size = Size(s0)
      /\ Good(s) /\ Size(s.disk) = Size(d) /\ View(s.disk) = View(d) /\ s.disk \in Disks
  <2>1. /\ Sound(s) /\ s.res \in {"ok", "failed"} /\ (s.res = "ok" => s.id # NoId) /\ size = Size(s0)
    BY <1>1, EnsureHeaderSound
  <2>2. Good(s)
    BY EnsureHeaderGood
  <2>3. Size(s.disk) = Size(d) /\ View(s.disk) = View(d)
    BY <1>1, EnsureView
  <2> QED BY <2>1, <2>2, <2>3, CallParts
<1> HIDE DEF s, d
<1>3. ASSUME NEW x, Size(x.disk) = Size(d), View(x.disk) = View(d), x.res # "ok" PROVE Right(x)
  BY <1>1, <1>3 DEF Harmless, d
<1>4. CASE s.res # "ok"
  <2>1. g = s
    BY <1>4 DEF ResizeTo
  <2> HIDE DEF g
  <2> QED BY <1>0, <1>2, <1>3, <1>4, <2>1 DEF d
<1>5. ASSUME NEW p \in Disks, Padding(p, len), View(p) = View(d), Size(d) <= Size(p), p.id # NoId,
             NEW x, x.res \in {"ok", "failed"}, x.res = "failed" => x.disk = p,
             x.res = "ok" => x.disk = Resize(p, StoredLen(len))
      PROVE  Right(x)
  <2>1. Size(Resize(p, StoredLen(len))) = len /\ View(Resize(p, StoredLen(len))) = View(p)
    BY <1>1, <1>5, ExtendView
  <2>2. CASE x.res = "ok"
    BY <1>1, <1>5, <2>1, <2>2 DEF Harmless, d
  <2>3. CASE x.res = "failed"
    BY <1>1, <1>5, <2>3 DEF Harmless, Padding, d
  <2> QED BY <1>5, <2>2, <2>3
<1>6. ASSUME Sound(padded), padded.res = "ok", padded.disk \in Disks, Padding(padded.disk, len),
             View(padded.disk) = View(d), Size(d) <= Size(padded.disk), padded.disk.id # NoId
      PROVE  Right(g)
  <2> HIDE DEF padded
  <2>1. CASE cut.step = "extend"
    <3>1. g.res = "failed" /\ g.disk = padded.disk
      BY <1>6, <2>1 DEF ResizeTo, Fails
    <3> HIDE DEF g, Right
    <3> QED BY <1>5, <1>6, <3>1
  <2>2. CASE cut.step # "extend"
    <3>1. done = [padded EXCEPT !.disk = Resize(padded.disk, StoredLen(len))]
      BY <1>6, <2>2 DEF ResizeTo
    <3>2. g.res = "ok" /\ g.disk = Resize(padded.disk, StoredLen(len))
      <4>1. padded = [disk |-> padded.disk, id |-> padded.id, len |-> padded.len, res |-> "ok"]
        BY <1>6, CallParts
      <4>2. done = [disk |-> Resize(padded.disk, StoredLen(len)), id |-> padded.id, len |-> padded.len,
                    res |-> "ok"]
        BY <3>1, <4>1
      <4> HIDE DEF done
      <4> QED BY <4>2
    <3> HIDE DEF g, Right
    <3> QED BY <1>5, <1>6, <3>2
  <2> QED BY <2>1, <2>2
<1>7. CASE s.res = "ok" /\ partial > 0 /\ Corrupt(old)
  <2>1. padded = Fails(s, "corrupt")
    BY <1>7
  <2>2. padded.res = "corrupt" /\ padded.disk = s.disk
    BY <1>2, <2>1, FailsSound
  <2> HIDE DEF padded
  <2>3. g = padded
    BY <2>2 DEF ResizeTo
  <2> HIDE DEF g, Right
  <2>4. Right(g)
    BY <1>2, <1>3, <2>2, <2>3
  <2> QED BY <1>0, <2>4 DEF Right, d
<1>8. CASE s.res = "ok" /\ partial > 0 /\ ~Corrupt(old)
  <2> DEFINE new == old \o Zeros(grown - partial)
             p == Put(s.disk, index, out, Total(out))
  <2>1. Fits(index, out) /\ new \in [1..grown -> Written] /\ new \in Plains
    BY <1>1, <1>2, <1>8, PaddedSound
  <2>2. padded = WriteBlocks(s, "pad", cut, index, out)
    BY <1>8
  <2>3. p \in Disks /\ Padding(p, len) /\ View(p) = View(s.disk) /\ size < Size(p)
    BY <1>1, <1>2, <1>8, PadView
  <2>4. size = Size(s.disk) /\ size \in 0..MaxLen /\ size = Size(d) /\ s.disk.id # NoId /\ Holes(s.disk)
    BY <1>1, <1>2, <1>8, GoodSize, CallParts
  <2>5. /\ index \in 0..Last /\ index * Block \in Nat /\ index * Block <= size /\ grown \in 1..Block
        /\ index * Block + grown <= len /\ index * Block + grown <= MaxLen
    <3>1. size < len /\ len \in 0..MaxLen
      BY <1>1, <1>2
    <3>2. size = index * Block + partial /\ partial \in 0..Block - 1 /\ index * Block \in Nat
      BY <2>4, <3>1, GrowBlock
    <3>3. index * Block <= size
      BY <3>2
    <3> QED BY <2>4, <3>1, <3>3, GrowBlock
  <2>6. Len(new) = grown
    <3>1. grown \in Nat
      BY <2>5, Sizes
    <3> HIDE DEF new, grown
    <3> QED BY <2>1, <3>1, RowLength
  <2>7. /\ Sound(padded) /\ padded.id = s.id /\ padded.res \in {"ok", "failed"}
        /\ padded.res = "ok" => padded.disk = p
        /\ padded.res = "failed" => \E n \in 0..Total(out) : padded.disk = Put(s.disk, index, out, n)
    <3> HIDE DEF padded, out, index, size, partial, old, grown
    <3> QED BY <1>2, <1>8, <2>1, <2>2, WriteBlocksSound
  <2>8. CASE padded.res = "ok"
    <3>1. padded.disk \in Disks /\ padded.disk.id # NoId
      BY <1>2, <1>8, <2>7, CallParts
    <3>2. Padding(padded.disk, len) /\ View(padded.disk) = View(d) /\ Size(d) <= Size(padded.disk)
      <4>1. Size(p) \in Nat
        BY <2>3, DiskParts
      <4> HIDE DEF p, padded, size
      <4> QED BY <1>1, <1>2, <2>3, <2>4, <2>7, <2>8, <4>1
    <3>3. Right(g)
      <4> HIDE DEF padded, g, Right
      <4> QED BY <1>6, <2>7, <2>8, <3>1, <3>2
    <3> HIDE DEF g
    <3> QED BY <1>0, <3>3 DEF d
  <2>9. CASE padded.res = "failed"
    <3> HIDE DEF padded
    <3>1. g = padded
      BY <2>9 DEF ResizeTo
    <3>2. PICK n \in 0..Total(out) : padded.disk = Put(s.disk, index, <<new>>, n)
      BY <2>7, <2>9
    <3> HIDE DEF new, index, grown, size
    <3>3. index * Block + Len(new) <= MaxLen /\ index * Block <= Size(s.disk) /\ index * Block + Len(new) <= len
          /\ n \in 0..Total(<<new>>)
      BY <2>4, <2>5, <2>6 DEF new
    <3>4. /\ Size(s.disk) <= Size(padded.disk)
          /\ Size(padded.disk) <= Larger(Size(s.disk), index * Block + Len(new))
          /\ \A i \in 0..MaxLen - 1 :
                i < Size(padded.disk) /\ i \div Block # index => View(padded.disk)[i] = View(s.disk)[i]
      BY <1>2, <2>1, <2>4, <2>5, <3>2, <3>3, PutOne
    <3>5. Size(padded.disk) <= len
      <4>1. Size(padded.disk) \in Nat
        BY <2>7, CallParts, DiskParts
      <4>2. index * Block + Len(new) \in Nat
        <5>1. Len(new) \in Nat
          BY <2>1, PlainTypes, Sizes
        <5>2. index * Block \in Nat
          BY <2>5
        <5> QED BY <5>1, <5>2
      <4> DEFINE a == Size(s.disk)
                 b == index * Block + Len(new)
                 c == Size(padded.disk)
      <4>3. a \in Nat /\ b \in Nat /\ c \in Nat /\ a <= len /\ b <= len /\ c <= Larger(a, b)
        <5>1. a \in Nat /\ a < len
          BY <1>1, <1>2
        <5> QED BY <1>1, <3>3, <3>4, <4>1, <4>2, <5>1
      <4> HIDE DEF a, b, c
      <4>4. c <= len
        BY <1>1, <4>3 DEF Larger
      <4> QED BY <4>4 DEF c
    <3>6. index = Size(d) \div Block
      BY <2>4 DEF index
    <3>7. Harmless(d, padded.disk, index, index)
      BY <1>2, <3>4 DEF Harmless
    <3>8. Right(padded)
      BY <1>2, <2>9, <3>4, <3>5, <3>6, <3>7
    <3> HIDE DEF g
    <3> QED BY <1>0, <3>1, <3>8 DEF d
  <2> QED BY <2>7, <2>8, <2>9
<1>9. CASE s.res = "ok" /\ ~(partial > 0)
  <2>1. padded = DropStray(s, cut)
    BY <1>9
  <2>2. size < len
    BY <1>1, <1>2
  <2>3. /\ padded.res \in {"ok", "failed"} /\ padded.disk \in Disks
        /\ Size(padded.disk) = size /\ View(padded.disk) = View(s.disk)
        /\ padded.res = "ok" => Padding(padded.disk, len)
    <3> HIDE DEF padded
    <3> QED BY <1>1, <1>2, <1>9, <2>1, <2>2, StrayView
  <2>4. Sound(padded) /\ padded.id = s.id
    <3> HIDE DEF padded
    <3> QED BY <1>1, <1>2, <1>9, <2>1, DropStraySound
  <2>5. padded.disk.id # NoId /\ size = Size(d) /\ size \in Nat
    <3> HIDE DEF padded
    <3> QED BY <1>1, <1>2, <1>9, <2>4, CallParts
  <2> HIDE DEF padded
  <2>6. CASE padded.res = "ok"
    <3>1. Right(g)
      <4> HIDE DEF g, Right
      <4> QED BY <1>1, <1>2, <1>6, <2>3, <2>4, <2>5, <2>6
    <3> HIDE DEF g
    <3> QED BY <1>0, <3>1 DEF d
  <2>7. CASE padded.res = "failed"
    <3>1. g = padded
      BY <2>7 DEF ResizeTo
    <3> HIDE DEF g, Right
    <3>2. Right(g)
      BY <1>2, <1>3, <2>3, <2>5, <2>7, <3>1
    <3> QED BY <1>0, <3>2 DEF Right, d
  <2> QED BY <2>3, <2>6, <2>7
<1> QED BY <1>2, <1>4, <1>7, <1>8, <1>9

(* How long a written block is: as long as the new file wants it. *)
LEMMA PatchLengths ==
    ASSUME NEW offset \in Nat, NEW n \in Nat \ {0}, NEW size \in Nat,
           NEW index \in (offset \div Block)..((offset + n - 1) \div Block)
    PROVE  LET start  == index * Block
               oldLen == Smaller(Larger(size - start, 0), Block)
               to     == Smaller(offset + n, start + Block) - start
           IN  /\ RowLen(Larger(size, offset + n), index) = Larger(oldLen, to)
               /\ start < size => oldLen = RowLen(size, index)
               /\ index = (offset + n - 1) \div Block =>
                     Larger(size, start + Larger(oldLen, to)) = Larger(size, offset + n)
<1> DEFINE start == index * Block
           end == offset + n
           oldLen == Smaller(Larger(size - start, 0), Block)
           to     == Smaller(end, start + Block) - start
<1>1. start \in Nat /\ start < end /\ Block \in Nat \ {0} /\ end \in Nat
  BY PatchPlaces, Sizes
<1>2. index = (end - 1) \div Block => end <= start + Block
  <2>1. end - 1 \in Nat
    BY <1>1
  <2>2. end - 1 < ((end - 1) \div Block) * Block + Block
    BY <2>1, BlockStarts
  <2>3. index = (end - 1) \div Block => end - 1 < start + Block
    BY <2>2
  <2> QED BY <1>1, <2>3
<1> HIDE DEF start, end
<1>3. Smaller(Larger(size, end) - start, Block) = Larger(oldLen, to)
  BY <1>1 DEF Smaller, Larger
<1>4. start < size => oldLen = Smaller(size - start, Block)
  BY <1>1 DEF Smaller, Larger
<1>5. end <= start + Block => Larger(size, start + Larger(oldLen, to)) = Larger(size, end)
  BY <1>1 DEF Smaller, Larger
<1> QED BY <1>2, <1>3, <1>4, <1>5 DEF RowLen, start, end

(* The data's place in a block, and the old bytes'. *)
LEMMA DataPlace ==
    ASSUME NEW start \in Nat, NEW offset \in Nat, NEW n \in Nat \ {0}, NEW r \in Nat, r < Block,
           start < offset + n, offset < start + Block
    PROVE  (/\ Larger(offset, start) - start < r + 1
            /\ r + 1 <= Smaller(offset + n, start + Block) - start)
              <=> start + r - offset + 1 \in 1..n
BY Sizes DEF Smaller, Larger

LEMMA OldPlace ==
    ASSUME NEW size \in Nat, NEW start \in Nat, NEW r \in Nat,
           r + 1 <= Smaller(Larger(size - start, 0), Block)
    PROVE  start < size /\ start + r < size
BY Sizes DEF Smaller, Larger

(* What a written block holds, byte by byte. *)
LEMMA PatchedBytes ==
    ASSUME NEW s, Sound(s), NEW offset \in Nat, offset <= Size(s), NEW data \in Seq(Written),
           data # <<>>, offset + Len(data) <= MaxLen, Size(s) = Size(s.disk),
           NEW i \in 0..MaxLen - 1, i < Larger(Size(s), offset + Len(data)),
           i \div Block \in (offset \div Block)..((offset + Len(data) - 1) \div Block),
           ~Corrupt(Patched(s, i \div Block, offset, data))
    PROVE  Patched(s, i \div Block, offset, data)[(i % Block) + 1]
              = IF i - offset + 1 \in DOMAIN data THEN data[i - offset + 1] ELSE View(s.disk)[i]
<1> DEFINE index  == i \div Block
           start  == index * Block
           size   == Size(s)
           end    == offset + Len(data)
           oldLen == Smaller(Larger(size - start, 0), Block)
           from   == Larger(offset, start) - start
           to     == Smaller(end, start + Block) - start
           old    == Open(s.disk.blocks[index], s.id, oldLen)
           n      == Larger(oldLen, to)
           p      == Patched(s, index, offset, data)
           r      == i % Block
           k      == r + 1
<1>1. /\ size \in 0..MaxLen /\ size \in Nat /\ MaxLen \in Nat /\ i \in Nat /\ s.disk \in Disks
      /\ Len(data) \in Nat \ {0} /\ DOMAIN data = 1..Len(data) /\ s.id = s.disk.id /\ end \in Nat
  <2>1. Len(data) \in Nat \ {0} /\ DOMAIN data = 1..Len(data)
    BY EmptySeq, LenProperties
  <2> QED BY <2>1, CallParts, Sizes
<1>2. Larger(size, end) \in 0..MaxLen /\ i < Larger(size, end)
  BY <1>1 DEF Larger
<1>3. /\ index \in 0..Last /\ index \in Nat /\ start \in Nat /\ i = start + r /\ r \in Nat
      /\ k \in 1..RowLen(Larger(size, end), index)
  <2> HIDE DEF size, end
  <2> QED BY <1>1, <1>2, Places
<1>4. /\ RowLen(Larger(size, end), index) = n
      /\ start < size => oldLen = RowLen(size, index)
  BY <1>1, PatchLengths, SMTT(30)
<1>5. /\ oldLen \in 0..Block /\ from \in 0..Block - 1 /\ to \in 1..Block /\ from < to
      /\ offset <= size => from <= oldLen
      /\ \A m \in Int : from < m /\ m <= to => start + m - offset \in 1..Len(data)
      /\ start < end /\ offset < start + Block
  BY <1>1, PatchPlaces
<1>6. p = [m \in 1..n |-> IF from < m /\ m <= to THEN data[start + m - offset]
                          ELSE IF Corrupt(old) THEN Bad ELSE old[m]]
  BY DEF Patched
<1>7. k \in 1..n
  BY <1>3, <1>4
<1>8. from < k /\ k <= to <=> i - offset + 1 \in DOMAIN data
  <2>1. r < Block /\ r \in Nat
    BY <1>1, Division
  <2>2. start + r - offset + 1 = i - offset + 1
    <3> HIDE DEF start, r
    <3> QED BY <1>1, <1>3
  <2>3. from < r + 1 /\ r + 1 <= to <=> start + r - offset + 1 \in 1..Len(data)
    <3> HIDE DEF start, r
    <3> QED BY <1>1, <1>3, <1>5, <2>1, DataPlace
  <2> QED BY <1>1, <2>2, <2>3
<1>9. start + k - offset = i - offset + 1
  <2> HIDE DEF start, r
  <2> QED BY <1>1, <1>3, SMTT(30)
<1> HIDE DEF index, size, end, oldLen, from, to, old, n, p
<1>10. CASE from < k /\ k <= to
  <2>1. p[k] = data[start + k - offset]
    BY <1>6, <1>7, <1>10
  <2> QED BY <1>8, <1>9, <1>10, <2>1 DEF p, index
<1>11. CASE ~(from < k /\ k <= to)
  <2>1. p[k] = IF Corrupt(old) THEN Bad ELSE old[k]
    BY <1>6, <1>7, <1>11
  <2>2. DOMAIN p = 1..n
    BY <1>6
  <2>3. ~Corrupt(old) /\ p[k] = old[k]
    <3>1. ~Corrupt(p)
      BY DEF p, index
    <3>2. p[k] # Bad
      BY <1>7, <2>2, <3>1 DEF Corrupt
    <3> QED BY <2>1, <3>2
  <2>4. k <= oldLen
    <3>1. offset <= size /\ oldLen \in Nat /\ to \in Nat /\ from \in Nat /\ k \in Nat
      <4>1. offset <= size
        BY DEF size
      <4>2. k \in Nat
        BY <1>3
      <4> HIDE DEF k
      <4> QED BY <1>5, <4>1, <4>2, Sizes
    <3>2. n = oldLen \/ n = to
      BY DEF n, Larger
    <3> HIDE DEF k
    <3> QED BY <1>5, <1>7, <1>11, <3>1, <3>2
  <2>5. start < size /\ i < size
    <3>1. r + 1 <= Smaller(Larger(size - start, 0), Block)
      BY <2>4 DEF oldLen
    <3> HIDE DEF start, r
    <3>2. start < size /\ start + r < size
      BY <1>1, <1>3, <3>1, OldPlace
    <3> QED BY <1>3, <3>2
  <2>6. old = Row(s.disk, index)
    <3>1. oldLen = RowLen(size, index) /\ size = Size(s.disk)
      BY <1>4, <2>5 DEF size
    <3> QED BY <1>1, <3>1 DEF old, Row
  <2>7. View(s.disk)[i] = old[k]
    BY <2>5, <2>6 DEF View, index, size
  <2> QED BY <1>8, <1>11, <2>3, <2>7 DEF p, index
<1> QED BY <1>10, <1>11

(* Sealed blocks on their way into a file: before all of them are there they
   change the bytes of their own blocks only; then the file is as long, and
   reads, as they say. *)
Placed(d, first, last, out, n, target) ==
    LET p == Put(d, first, out, n)
    IN  /\ p \in Disks /\ Size(d) <= Size(p) /\ Size(p) <= target
        /\ Harmless(d, p, first, last)
        /\ n = Total(out) =>
              /\ Size(p) = target
              /\ \A i \in 0..MaxLen - 1 : \A j \in first..last :
                    j = i \div Block /\ i < target => View(p)[i] = out[j - first + 1][(i % Block) + 1]

LEMMA PlacedView ==
    ASSUME NEW d \in Disks, Holes(d), d.id # NoId, NEW first \in Nat, NEW last \in Nat, first <= last,
           NEW out, Fits(first, out), Len(out) = last - first + 1,
           last * Block + Len(out[Len(out)]) <= MaxLen, first * Block <= Size(d),
           NEW target, target = Larger(Size(d), last * Block + Len(out[Len(out)])),
           \A j \in first..last : j \in 0..Last /\ Len(out[j - first + 1]) = RowLen(target, j),
           NEW n \in 0..Total(out)
    PROVE  Placed(d, first, last, out, n, target)
<1>0. PICK p : p = Put(d, first, out, n)
  OBVIOUS
<1>1. p \in Disks
  BY <1>0, PutSound
<1>2. /\ Size(d) <= Size(p) /\ Size(p) <= target
      /\ n = Total(out) => Size(p) = target
  BY <1>0, PutSize
<1>3. Harmless(d, p, first, last)
  <2> SUFFICES ASSUME NEW i \in 0..MaxLen - 1, i < Size(p), i \div Block \notin first..last
               PROVE  View(p)[i] = View(d)[i]
    BY DEF Harmless
  <2>1. i < Size(Put(d, first, out, n))
    BY <1>0
  <2> QED BY <1>0, <2>1, PutOutside
<1>4. ASSUME n = Total(out), NEW i \in 0..MaxLen - 1, NEW j \in first..last, j = i \div Block, i < target
      PROVE  View(p)[i] = out[j - first + 1][(i % Block) + 1]
  <2>1. Size(Put(d, first, out, Total(out))) = target
    BY <1>0, <1>2, <1>4
  <2>2. j \in 0..Last /\ Len(out[j - first + 1]) = RowLen(Size(Put(d, first, out, Total(out))), j)
    BY <2>1
  <2>3. Row(Put(d, first, out, Total(out)), j) = out[j - first + 1]
    BY <2>2, PutInside
  <2>4. Row(p, j) = out[j - first + 1]
    BY <1>0, <1>4, <2>3
  <2>5. View(p)[i] = Row(p, i \div Block)[(i % Block) + 1]
    BY <1>2, <1>4 DEF View
  <2> QED BY <1>4, <2>4, <2>5
<1> QED BY <1>0, <1>1, <1>2, <1>3, <1>4 DEF Placed

(* A written block is as long as the new file wants it; with the last one the
   file is as long as the write makes it. *)
LEMMA PatchedRow ==
    ASSUME NEW s, Sound(s), NEW offset \in Nat, offset <= Size(s), NEW data \in Seq(Written),
           data # <<>>, offset + Len(data) <= MaxLen,
           NEW first, first = offset \div Block, NEW last, last = (offset + Len(data) - 1) \div Block,
           NEW j \in first..last, NEW target, target = Larger(Size(s), offset + Len(data)),
           NEW new, new = Patched(s, j, offset, data), ~Corrupt(new)
    PROVE  /\ j \in 0..Last /\ Len(new) = RowLen(target, j)
           /\ j = last => Larger(Size(s), j * Block + Len(new)) = target
<1> DEFINE size   == Size(s)
           start  == j * Block
           oldLen == Smaller(Larger(size - start, 0), Block)
           to     == Smaller(offset + Len(data), start + Block) - start
<1>1. Len(data) \in Nat \ {0} /\ size \in Nat
  <2>1. Len(data) \in Nat \ {0}
    BY EmptySeq, LenProperties
  <2>2. size \in 0..MaxLen
    BY CallParts
  <2> QED BY <2>1, <2>2, Sizes
<1>2. /\ RowLen(target, j) = Larger(oldLen, to)
      /\ Larger(oldLen, to) \in 1..Block
      /\ j = last => Larger(size, start + Larger(oldLen, to)) = target
  <2> DEFINE n == Len(data)
             end == offset + n
  <2>1. n \in Nat \ {0} /\ j \in (offset \div Block)..((offset + n - 1) \div Block)
    BY <1>1
  <2>2. start \in Nat /\ start < end /\ Larger(oldLen, to) \in 1..Block
    <3> HIDE DEF n
    <3> QED BY <1>1, <2>1, PatchPlaces
  <2>3. end \in Nat /\ end - 1 \in Nat /\ Block \in Nat \ {0}
    <3> HIDE DEF n
    <3> QED BY <2>1, Sizes
  <2>4. j = last => end <= start + Block
    <3>1. end - 1 < ((end - 1) \div Block) * Block + Block
      <4> HIDE DEF end
      <4> QED BY <2>3, BlockStarts
    <3>2. last = (end - 1) \div Block
      OBVIOUS
    <3>3. j = last => end - 1 < start + Block
      <4> HIDE DEF end
      <4> QED BY <3>1, <3>2
    <3> HIDE DEF end, start
    <3> QED BY <2>2, <2>3, <3>3
  <2>5. target = Larger(size, end) /\ to = Smaller(end, start + Block) - start
    OBVIOUS
  <2> HIDE DEF start, end, size, n, to
  <2>6. Smaller(target - start, Block) = Larger(oldLen, to)
    BY <1>1, <2>2, <2>3, <2>5 DEF Smaller, Larger
  <2>7. end <= start + Block => Larger(size, start + Larger(oldLen, to)) = target
    BY <1>1, <2>2, <2>3, <2>5 DEF Smaller, Larger
  <2>8. RowLen(target, j) = Smaller(target - start, Block)
    BY DEF RowLen, start
  <2> QED BY <2>2, <2>4, <2>6, <2>7, <2>8
<1>3. j \in 0..Last /\ new \in Plains
  BY PatchedTypes
<1>4. DOMAIN new = 1..Larger(oldLen, to)
  BY DEF Patched
<1>5. new \in [1..Len(new) -> Written] /\ Len(new) \in 1..Block
  BY <1>3, PlainTypes
<1> HIDE DEF oldLen, to, start, size
<1>6. Larger(oldLen, to) \in Nat /\ Len(new) \in Nat
  <2>1. \A x : x \in 1..Block => x \in Nat
    BY Sizes
  <2> QED BY <1>2, <1>5, <2>1
<1>7. 1..Larger(oldLen, to) = 1..Len(new)
  BY <1>4, <1>5
<1>8. Len(new) = Larger(oldLen, to)
  BY <1>6, <1>7, Intervals
<1> QED BY <1>2, <1>3, <1>8 DEF start, size

(* The blocks of a write, once they have reached the file. *)
LEMMA PatchedView ==
    ASSUME NEW s, Sound(s), s.id # NoId, NEW offset \in Nat, offset <= Size(s), NEW data \in Seq(Written),
           data # <<>>, offset + Len(data) <= MaxLen, Size(s) = Size(s.disk)
    PROVE  LET first == offset \div Block
               last  == (offset + Len(data) - 1) \div Block
               end   == offset + Len(data)
               out   == [k \in 1..last - first + 1 |-> Patched(s, first + k - 1, offset, data)]
           IN  (~\E k \in DOMAIN out : Corrupt(out[k])) => \A n \in 0..Total(out) :
                  LET p == Put(s.disk, first, out, n)
                  IN  /\ p \in Disks /\ Size(s) <= Size(p) /\ Size(p) <= Larger(Size(s), end)
                      /\ Harmless(s.disk, p, first, last)
                      /\ n = Total(out) =>
                            /\ Size(p) = Larger(Size(s), end)
                            /\ \A i \in 0..MaxLen - 1 :
                                  View(p)[i] = IF i - offset + 1 \in DOMAIN data THEN data[i - offset + 1]
                                               ELSE View(s.disk)[i]
<1> DEFINE first == offset \div Block
           last  == (offset + Len(data) - 1) \div Block
           end   == offset + Len(data)
           out   == [k \in 1..last - first + 1 |-> Patched(s, first + k - 1, offset, data)]
           d     == s.disk
           size  == Size(s)
           target == Larger(size, end)
<1> SUFFICES ASSUME ~\E k \in DOMAIN out : Corrupt(out[k]), NEW n \in 0..Total(out),
                    NEW p, p = Put(d, first, out, n)
             PROVE  /\ p \in Disks /\ size <= Size(p) /\ Size(p) <= target
                    /\ Harmless(d, p, first, last)
                    /\ n = Total(out) =>
                          /\ Size(p) = target
                          /\ \A i \in 0..MaxLen - 1 :
                                View(p)[i] = IF i - offset + 1 \in DOMAIN data THEN data[i - offset + 1]
                                             ELSE View(d)[i]
  OBVIOUS
<1>1. /\ size \in 0..MaxLen /\ size \in Nat /\ MaxLen \in Nat /\ d \in Disks /\ Holes(d) /\ d.id # NoId
      /\ Len(data) \in Nat \ {0} /\ DOMAIN data = 1..Len(data) /\ s.id = d.id
      /\ end \in Nat /\ end - 1 \in Nat /\ end <= MaxLen /\ size = Size(d) /\ offset <= end - 1
  <2>1. Len(data) \in Nat \ {0} /\ DOMAIN data = 1..Len(data)
    BY EmptySeq, LenProperties
  <2>2. d \in Disks /\ Holes(d) /\ d.id # NoId /\ s.id = d.id /\ size \in 0..MaxLen
    BY CallParts
  <2> QED BY <2>1, <2>2, Sizes
<1>2. /\ first \in Nat /\ last \in Nat /\ first <= last
      /\ Len(out) = last - first + 1 /\ DOMAIN out = 1..Len(out) /\ Len(out) \in 1..Len(out)
      /\ Fits(first, out) /\ last * Block + Len(out[Len(out)]) <= MaxLen
  BY PatchesFit, ZenonT(60)
<1>3. first * Block <= Size(d)
  <2>1. first * Block \in Nat /\ first * Block <= offset
    BY BlockStarts
  <2>2. \A a \in Nat : a <= offset => a <= Size(d)
    BY <1>1
  <2> QED BY <2>1, <2>2
<1>4. \A j \in first..last :
         /\ j \in 0..Last /\ out[j - first + 1] = Patched(s, j, offset, data)
         /\ ~Corrupt(Patched(s, j, offset, data)) /\ j \in Nat
         /\ Len(out[j - first + 1]) = RowLen(target, j)
         /\ j = last => Larger(size, j * Block + Len(out[j - first + 1])) = target
  <2> SUFFICES ASSUME NEW j \in first..last
               PROVE  /\ j \in 0..Last /\ out[j - first + 1] = Patched(s, j, offset, data)
                      /\ ~Corrupt(Patched(s, j, offset, data)) /\ j \in Nat
                      /\ Len(out[j - first + 1]) = RowLen(target, j)
                      /\ j = last => Larger(size, j * Block + Len(out[j - first + 1])) = target
    OBVIOUS
  <2>1. j \in Nat /\ j - first + 1 \in 1..Len(out) /\ first + (j - first + 1) - 1 = j
    <3> HIDE DEF first, last, out
    <3> QED BY <1>2
  <2>2. out[j - first + 1] = Patched(s, j, offset, data)
    <3> HIDE DEF first, last
    <3> QED BY <1>2, <2>1
  <2>3. ~Corrupt(Patched(s, j, offset, data))
    <3> HIDE DEF first, last, out
    <3> QED BY <1>2, <2>1, <2>2
  <2>4. PICK new : new = Patched(s, j, offset, data)
    OBVIOUS
  <2>5. /\ j \in 0..Last /\ Len(new) = RowLen(target, j)
        /\ j = last => Larger(size, j * Block + Len(new)) = target
    BY <2>3, <2>4, PatchedRow
  <2> HIDE DEF first, last, out, size, target
  <2> QED BY <2>1, <2>2, <2>3, <2>4, <2>5
<1>5. target = Larger(Size(d), last * Block + Len(out[Len(out)]))
  <2>1. last \in first..last /\ last - first + 1 = Len(out)
    <3> HIDE DEF first, last, out
    <3> QED BY <1>2
  <2> HIDE DEF first, last, end, size, target, out
  <2> QED BY <1>1, <1>4, <2>1
<1> HIDE DEF first, last, end, out, d, size, target
<1>6. /\ p \in Disks /\ Size(d) <= Size(p) /\ Size(p) <= target
      /\ Harmless(d, p, first, last)
      /\ n = Total(out) =>
            /\ Size(p) = target
            /\ \A i \in 0..MaxLen - 1 : \A j \in first..last :
                  j = i \div Block /\ i < target => View(p)[i] = out[j - first + 1][(i % Block) + 1]
  <2>1. \A j \in first..last : j \in 0..Last /\ Len(out[j - first + 1]) = RowLen(target, j)
    BY <1>4
  <2>2. d \in Disks /\ Holes(d) /\ d.id # NoId
    BY <1>1
  <2>3. first \in Nat /\ last \in Nat /\ first <= last /\ Fits(first, out) /\ Len(out) = last - first + 1
    BY <1>2
  <2>4. last * Block + Len(out[Len(out)]) <= MaxLen
    BY <1>2
  <2>5. Placed(d, first, last, out, n, target)
    BY <1>3, <1>5, <2>1, <2>2, <2>3, <2>4, PlacedView
  <2> QED BY <2>5 DEF Placed
<1>7. ASSUME n = Total(out), NEW i \in 0..MaxLen - 1
      PROVE  View(p)[i] = IF i - offset + 1 \in DOMAIN data THEN data[i - offset + 1] ELSE View(d)[i]
  <2> DEFINE j == i \div Block
  <2>1. i \in Nat /\ Size(p) = target /\ target \in Nat
    BY <1>1, <1>6, <1>7, Sizes DEF target, Larger
  <2>2. i - offset + 1 \in DOMAIN data <=> offset <= i /\ i <= end - 1
    BY <1>1, <2>1, SMTT(30) DEF end
  <2>3. CASE ~(i < target)
    <3>1. ~(i < size) /\ ~(i <= end - 1)
      BY <1>1, <2>1, <2>3 DEF Larger, target
    <3>2. View(p)[i] = 0
      BY <2>1, <2>3 DEF View
    <3>3. View(d)[i] = 0
      BY <1>1, <3>1 DEF View
    <3> QED BY <2>2, <3>1, <3>2, <3>3
  <2>4. CASE i < target /\ j \notin first..last
    <3>1. View(p)[i] = View(d)[i]
      BY <1>6, <2>1, <2>4 DEF Harmless
    <3>2. ~(offset <= i /\ i <= end - 1)
      <4> SUFFICES ASSUME offset <= i, i <= end - 1 PROVE j \in first..last
        BY <2>4
      <4>1. offset \div Block <= i \div Block /\ i \div Block \in Nat
        BY <2>1, BlockOrder
      <4>2. i \div Block <= (end - 1) \div Block
        BY <1>1, <2>1, BlockOrder
      <4>3. first = offset \div Block /\ last = (end - 1) \div Block
        BY DEF first, last, end
      <4> HIDE DEF j
      <4>4. first <= j /\ j <= last /\ j \in Nat
        BY <4>1, <4>2, <4>3 DEF j
      <4> QED BY <1>2, <4>4
    <3> QED BY <2>2, <3>1, <3>2
  <2>5. CASE i < target /\ j \in first..last
    <3>1. View(p)[i] = out[j - first + 1][(i % Block) + 1]
      BY <1>6, <1>7, <2>5
    <3>2. out[j - first + 1] = Patched(s, j, offset, data) /\ ~Corrupt(Patched(s, j, offset, data))
      BY <1>4, <2>5
    <3>3. Patched(s, j, offset, data)[(i % Block) + 1]
             = IF i - offset + 1 \in DOMAIN data THEN data[i - offset + 1] ELSE View(d)[i]
      <4>1. /\ i < Larger(Size(s), offset + Len(data))
            /\ j \in (offset \div Block)..((offset + Len(data) - 1) \div Block)
        BY <2>5 DEF target, size, end, first, last
      <4>2. Size(s) = Size(s.disk) /\ ~Corrupt(Patched(s, j, offset, data))
        BY <3>2
      <4> QED BY <4>1, <4>2, PatchedBytes DEF d
    <3> QED BY <3>1, <3>2, <3>3
  <2> QED BY <2>3, <2>4, <2>5
<1> QED BY <1>1, <1>6, <1>7

(* What is harmless for a row of blocks is so for a longer one. *)
LEMMA HarmlessWider ==
    ASSUME NEW d, NEW e, NEW a \in Int, NEW b \in Int, NEW first \in Int, NEW last \in Int, first <= a, b <= last,
           Harmless(d, e, a, b)
    PROVE  Harmless(d, e, first, last)
<1> SUFFICES ASSUME NEW i \in 0..MaxLen - 1, i < Size(e), i \div Block \notin first..last
             PROVE  View(e)[i] = View(d)[i]
  BY DEF Harmless
<1>1. i \div Block \notin a..b
  OBVIOUS
<1> QED BY <1>1 DEF Harmless

(* What a write may do to the file d until it is through, and what it has done then. *)
Writing(d, e, offset, data) ==
    LET end == offset + Len(data)
    IN  /\ Size(d) <= Size(e) /\ Size(e) <= Larger(Size(d), end)
        /\ Harmless(d, e, Smaller(offset, Size(d)) \div Block, (end - 1) \div Block)

Wrote(d, e, offset, data) ==
    /\ Size(e) = Larger(Size(d), offset + Len(data))
    /\ \A i \in 0..MaxLen - 1 :
          View(e)[i] = IF i - offset + 1 \in DOMAIN data THEN data[i - offset + 1] ELSE View(d)[i]

(* Where a write begins and ends. *)
LEMMA WritePlaces ==
    ASSUME NEW size \in Nat, NEW offset \in Nat, NEW n \in Nat \ {0}
    PROVE  LET start == Smaller(offset, size) \div Block
               first == offset \div Block
               last  == (offset + n - 1) \div Block
           IN  /\ start \in Int /\ first \in Int /\ last \in Int
               /\ start <= first /\ first <= last
               /\ size < offset => start <= size \div Block /\ size \div Block <= last
               /\ size \div Block \in Int
<1> DEFINE low == Smaller(offset, size)
           high == offset + n - 1
<1>1. low \in Nat /\ high \in Nat /\ low <= offset /\ offset <= high /\ low <= size
      /\ (size < offset => size <= high)
  BY DEF Smaller
<1> HIDE DEF low, high
<1>2. /\ low \div Block \in Int /\ offset \div Block \in Int /\ high \div Block \in Int /\ size \div Block \in Int
  BY <1>1, Division
<1>3. low \div Block <= offset \div Block /\ offset \div Block <= high \div Block
      /\ low \div Block <= size \div Block
      /\ (size < offset => size \div Block <= high \div Block)
  BY <1>1, BlockOrder
<1> QED BY <1>2, <1>3 DEF low, high

(* write_locked does to the bytes what a write of plain bytes does; until it is
   through only bytes of the blocks it is about have changed. *)
LEMMA WriteView ==
    ASSUME NEW s0, Sound(s0), Good(s0), s0.res = "ok", NEW offset \in Nat, NEW data \in Seq(Written),
           data # <<>>, offset + Len(data) <= MaxLen,
           NEW cut, cut.bytes \in Nat, cut.step = "header" => cut.bytes < Header
    PROVE  LET w == WriteLocked(s0, offset, data, cut)
           IN  /\ Writing(s0.disk, w.disk, offset, data)
               /\ w.res = "ok" => Wrote(s0.disk, w.disk, offset, data)
<1> DEFINE d     == s0.disk
           size  == Size(d)
           g     == IF offset > Size(s0) THEN Grow(s0, offset, cut) ELSE s0
           s     == EnsureHeader(g, cut)
           first == offset \div Block
           last  == (offset + Len(data) - 1) \div Block
           start == Smaller(offset, size) \div Block
           end   == offset + Len(data)
           out   == [k \in 1..last - first + 1 |-> Patched(s, first + k - 1, offset, data)]
           done  == WriteBlocks(s, "data", cut, first, out)
           w     == IF s.res # "ok" THEN s
                    ELSE IF \E k \in DOMAIN out : Corrupt(out[k]) THEN Fails(s, "corrupt")
                    ELSE IF done.res # "ok" THEN done
                    ELSE [done EXCEPT !.len = Larger(@, Offset(last) + Len(out[Len(out)]) + Overhead)]
<1>0. WriteLocked(s0, offset, data, cut) = w
  BY DEF WriteLocked
<1>1. /\ Len(data) \in Nat \ {0} /\ MaxLen \in Nat /\ MaxLen # 0 /\ Size(s0) = size /\ size \in 0..MaxLen
      /\ offset \in 0..MaxLen /\ size \in Nat /\ d \in Disks
  <2>1. Len(data) \in Nat \ {0}
    BY EmptySeq
  <2>2. Size(s0) = size
    BY GoodSize
  <2> QED BY <2>1, <2>2, CallParts, Sizes
<1>2. /\ start \in Int /\ first \in Int /\ last \in Int /\ start <= first /\ first <= last
      /\ size < offset => start <= size \div Block /\ size \div Block <= last
      /\ size \div Block \in Int
  <2> HIDE DEF size
  <2> QED BY <1>1, WritePlaces
<1>3. /\ Sound(g) /\ Good(g) /\ Size(d) <= Size(g.disk) /\ Size(g.disk) <= Larger(size, offset)
      /\ Harmless(d, g.disk, start, last)
      /\ g.res = "ok" => Size(g.disk) = Larger(size, offset) /\ View(g.disk) = View(d)
  <2>1. CASE offset > Size(s0)
    <3>1. Sound(g)
      BY <1>1, <2>1, GrowSound
    <3>2. Good(g)
      <4>1. offset \in Nat \ {0}
        BY <1>1, <2>1
      <4> QED BY <2>1, <4>1, GrowGood
    <3>3. /\ g.res = "ok" => Size(g.disk) = offset /\ View(g.disk) = View(d)
          /\ Size(d) <= Size(g.disk) /\ Size(g.disk) <= offset
          /\ Harmless(d, g.disk, Size(d) \div Block, Size(d) \div Block)
      BY <1>1, <2>1, GrowView
    <3> HIDE DEF g, d, last, start
    <3>4. Harmless(d, g.disk, start, last)
      BY <1>1, <1>2, <2>1, <3>3, HarmlessWider
    <3>5. Larger(size, offset) = offset
      BY <1>1, <2>1 DEF Larger
    <3> QED BY <3>1, <3>2, <3>3, <3>4, <3>5
  <2>2. CASE ~(offset > Size(s0))
    <3>1. g = s0
      BY <2>2
    <3>2. Larger(size, offset) = size
      BY <1>1, <2>2 DEF Larger
    <3>3. Harmless(d, d, start, last)
      BY DEF Harmless
    <3> QED BY <1>1, <3>1, <3>2, <3>3
  <2> QED BY <2>1, <2>2
<1> HIDE DEF g
<1>4. /\ Sound(s) /\ Good(s) /\ Size(d) <= Size(s.disk) /\ Size(s.disk) <= Larger(size, offset)
      /\ Harmless(d, s.disk, start, last)
      /\ s.res = "ok" => /\ Size(s.disk) = Larger(size, offset) /\ View(s.disk) = View(d)
                         /\ s.id # NoId /\ Size(s) = Size(s.disk) /\ offset <= Size(s)
  <2>1. Sound(s) /\ (s.res = "ok" => s.id # NoId) /\ (g.res # "ok" => s = g) /\ Good(s)
    BY <1>1, <1>3, EnsureHeaderSound, EnsureHeaderGood
  <2>2. Size(s.disk) = Size(g.disk) /\ View(s.disk) = View(g.disk)
    BY <1>1, <1>3, EnsureView
  <2>3. Harmless(d, s.disk, start, last)
    BY <1>3, <2>2 DEF Harmless
  <2>4. s.res = "ok" => g.res = "ok"
    BY <2>1
  <2>5. s.res = "ok" => Size(s) = Size(s.disk)
    BY <2>1, GoodSize
  <2>6. offset <= Larger(size, offset)
    BY <1>1 DEF Larger
  <2> HIDE DEF s, d, size, start, last
  <2> QED BY <1>3, <2>1, <2>2, <2>3, <2>4, <2>5, <2>6 DEF size
<1> HIDE DEF s
<1>5. Larger(size, offset) <= Larger(size, end) /\ Larger(Larger(size, offset), end) = Larger(size, end)
      /\ Larger(size, offset) \in Nat /\ end - 1 = offset + Len(data) - 1
  BY <1>1 DEF Larger
<1>6. ASSUME w.disk = s.disk, w.res # "ok"
      PROVE  Writing(d, w.disk, offset, data)
  <2>1. Size(d) <= Size(s.disk) /\ Size(s.disk) <= Larger(Size(d), end)
    <3>1. Size(s.disk) \in Nat
      BY <1>4, CallParts, DiskParts
    <3>2. Larger(size, end) \in Nat
      BY <1>1 DEF Larger
    <3> HIDE DEF end, d
    <3> QED BY <1>4, <1>5, <3>1, <3>2
  <2> QED BY <1>4, <1>6, <2>1 DEF Writing
<1>7. CASE s.res # "ok"
  <2>1. w = s
    BY <1>7
  <2> HIDE DEF w
  <2> QED BY <1>0, <1>6, <1>7, <2>1
<1>8. CASE s.res = "ok" /\ \E k \in DOMAIN out : Corrupt(out[k])
  <2>1. w = Fails(s, "corrupt")
    BY <1>8
  <2>2. w.disk = s.disk /\ w.res = "corrupt"
    <3>1. Fails(s, "corrupt").disk = s.disk /\ Fails(s, "corrupt").res = "corrupt"
      BY <1>4, CallParts DEF Fails
    <3> HIDE DEF w
    <3> QED BY <2>1, <3>1
  <2> HIDE DEF w
  <2> QED BY <1>0, <1>6, <2>2
<1>9. CASE s.res = "ok" /\ ~\E k \in DOMAIN out : Corrupt(out[k])
  <2>1. Fits(first, out) /\ (end - 1) \div Block = last
    BY <1>4, <1>5, <1>9, PatchesFit
  <2>2. \A n \in 0..Total(out) :
           LET p == Put(s.disk, first, out, n)
           IN  /\ p \in Disks /\ Size(s) <= Size(p) /\ Size(p) <= Larger(Size(s), end)
               /\ Harmless(s.disk, p, first, last)
               /\ n = Total(out) =>
                     /\ Size(p) = Larger(Size(s), end)
                     /\ \A i \in 0..MaxLen - 1 :
                           View(p)[i] = IF i - offset + 1 \in DOMAIN data THEN data[i - offset + 1]
                                        ELSE View(s.disk)[i]
    BY <1>4, <1>9, PatchedView
  <2> HIDE DEF out, first, last
  <2>3. /\ Sound(done) /\ done.res \in {"ok", "failed"}
        /\ done.res = "ok" => done.disk = Put(s.disk, first, out, Total(out))
        /\ done.res = "failed" => \E n \in 0..Total(out) : done.disk = Put(s.disk, first, out, n)
    BY <1>4, <1>9, <2>1, WriteBlocksSound
  <2>4. PICK n \in 0..Total(out) : /\ done.disk = Put(s.disk, first, out, n)
                                   /\ done.res = "ok" => n = Total(out)
    <3>1. Total(out) \in Nat \ {0}
      BY <2>1, TotalType
    <3>2. Total(out) \in 0..Total(out)
      BY <3>1
    <3> QED BY <2>3, <3>2
  <2>5. w.disk = done.disk /\ w.res = done.res
    <3> HIDE DEF done
    <3>1. [done EXCEPT !.len = Larger(@, Offset(last) + Len(out[Len(out)]) + Overhead)].disk = done.disk
          /\ [done EXCEPT !.len = Larger(@, Offset(last) + Len(out[Len(out)]) + Overhead)].res = done.res
      BY <2>3, CallParts
    <3> QED BY <1>9, <3>1
  <2> HIDE DEF done, w
  <2>6. PICK p : p = w.disk
    OBVIOUS
  <2>7. /\ p \in Disks /\ Size(s) <= Size(p) /\ Size(p) <= Larger(Size(s), end)
        /\ Harmless(s.disk, p, first, last)
        /\ w.res = "ok" =>
              /\ Size(p) = Larger(Size(s), end)
              /\ \A i \in 0..MaxLen - 1 :
                    View(p)[i] = IF i - offset + 1 \in DOMAIN data THEN data[i - offset + 1]
                                 ELSE View(s.disk)[i]
    BY <2>2, <2>4, <2>5, <2>6
  <2>8. Size(s) = Larger(size, offset) /\ View(s.disk) = View(d)
    BY <1>4, <1>9
  <2>9. Size(d) <= Size(p) /\ Size(p) <= Larger(Size(d), end)
    <3>1. Size(p) \in Nat /\ Size(d) \in Nat
      BY <2>7, <1>1, DiskParts
    <3>2. Size(d) <= Larger(size, offset)
      BY <1>1 DEF Larger
    <3> HIDE DEF end, d
    <3> QED BY <1>5, <2>7, <2>8, <3>1, <3>2
  <2>10. Harmless(d, p, start, last)
    <3>1. Harmless(d, p, first, last)
      BY <2>7, <2>8 DEF Harmless
    <3>2. last <= last
      BY <1>2
    <3> HIDE DEF start, d
    <3> QED BY <1>2, <3>1, <3>2, HarmlessWider
  <2>11. Writing(d, p, offset, data)
    BY <2>1, <2>9, <2>10 DEF Writing
  <2>12. w.res = "ok" => Wrote(d, p, offset, data)
    BY <1>5, <2>7, <2>8 DEF Wrote
  <2> QED BY <1>0, <2>6, <2>11, <2>12
<1> QED BY <1>7, <1>8, <1>9

(* One block that is written whole is stored sealed. *)
LEMMA SealedPut ==
    ASSUME NEW d \in Disks, NEW index \in 0..Last, NEW q \in Plains, index * Block + Len(q) <= MaxLen
    PROVE  Put(d, index, <<q>>, Total(<<q>>)).blocks[index] = Seal(d.id, q)
<1> DEFINE out == <<q>>
           n   == Total(out)
           p   == Put(d, index, out, n)
<1>1. index \in Nat /\ Len(q) \in 1..Block
  BY Limits, PlainTypes
<1>2. n = Len(q) + Overhead
  BY <1>1, OneBlock
<1>3. index - index + 1 = 1 /\ (index - index) * StoredBlock = 0 /\ out[1] = q /\ 1 \in DOMAIN out
  <2>1. index - index = 0 /\ 0 * StoredBlock = 0
    BY <1>1, Sizes
  <2> QED BY <2>1
<1> HIDE DEF n, out
<1>4. p.blocks[index] = IF index - index + 1 \notin DOMAIN out \/ n <= (index - index) * StoredBlock
                        THEN d.blocks[index]
                        ELSE IF n >= (index - index) * StoredBlock + Len(out[index - index + 1]) + Overhead
                        THEN Seal(d.id, out[index - index + 1]) ELSE Torn
  BY DEF Put, Disks
<1> DEFINE k == Len(q)
<1>5. ~(n <= 0) /\ n >= 0 + k + Overhead
  <2>1. k \in 1..Block /\ n = k + Overhead
    BY <1>1, <1>2
  <2> HIDE DEF k
  <2> QED BY <2>1, Sizes
<1> HIDE DEF p
<1> QED BY <1>3, <1>4, <1>5 DEF p, n, out

(* A file that is cut: full blocks read as before, the last one as what is stored of it. *)
LEMMA CutView ==
    ASSUME NEW p \in Disks, p.id # NoId, NEW len \in 1..MaxLen, len <= Size(p), NEW i \in 0..MaxLen - 1
    PROVE  LET e == Resize(p, StoredLen(len))
               j == i \div Block
           IN  /\ Size(e) = len
               /\ ~(i < len) => View(e)[i] = 0
               /\ i < len => /\ j \in 0..Last /\ j * Block < len
                             /\ View(e)[i] = Open(p.blocks[j], p.id, RowLen(len, j))[(i % Block) + 1]
               /\ i < len /\ j * Block + Block <= len => View(e)[i] = View(p)[i]
<1> DEFINE e == Resize(p, StoredLen(len))
           j == i \div Block
           size == Size(p)
<1>1. /\ e \in Disks /\ e.id = p.id /\ Size(e) = len
      /\ \A m \in 0..Last : m * Block < len => Row(e, m) = Open(p.blocks[m], p.id, RowLen(len, m))
  BY ResizeRows
<1> HIDE DEF e
<1>2. size \in Nat /\ len \in Nat /\ len <= size /\ size \in 0..MaxLen /\ i \in Nat /\ len \in 0..MaxLen
  BY DiskParts, Sizes
<1>3. ASSUME ~(i < len) PROVE View(e)[i] = 0
  BY <1>1, <1>3 DEF View
<1>4. ASSUME i < len
      PROVE  /\ j \in 0..Last /\ j * Block < len /\ j * Block \in Nat
             /\ View(e)[i] = Row(e, j)[(i % Block) + 1] /\ View(p)[i] = Row(p, j)[(i % Block) + 1]
             /\ Row(e, j) = Open(p.blocks[j], p.id, RowLen(len, j))
  <2>1. j \in 0..Last /\ j * Block < len /\ j * Block \in Nat
    BY <1>2, <1>4, Places
  <2>2. View(e)[i] = Row(e, j)[(i % Block) + 1]
    BY <1>1, <1>4 DEF View
  <2>3. View(p)[i] = Row(p, j)[(i % Block) + 1]
    <3>1. i < Size(p)
      <4> HIDE DEF j
      <4> QED BY <1>2, <1>4
    <3> QED BY <3>1 DEF View
  <2>4. Row(e, j) = Open(p.blocks[j], p.id, RowLen(len, j))
    <3> HIDE DEF j
    <3> QED BY <1>1, <2>1
  <2> QED BY <2>1, <2>2, <2>3, <2>4
<1>5. ASSUME i < len, j * Block + Block <= len
      PROVE  View(e)[i] = View(p)[i]
  <2> DEFINE start == j * Block
  <2>1. start \in Nat /\ start + Block <= len
    BY <1>4, <1>5
  <2> HIDE DEF start, size
  <2>2. Smaller(len - start, Block) = Block /\ Smaller(size - start, Block) = Block
    BY <1>2, <2>1, Sizes DEF Smaller
  <2>3. RowLen(len, j) = RowLen(Size(p), j)
    BY <2>2 DEF RowLen, start, size
  <2> QED BY <1>4, <1>5, <2>3 DEF Row
<1> QED BY <1>1, <1>3, <1>4, <1>5 DEF e

(* What a cut to len may do to the file d until it is through, and what it has done then. *)
Cutting(d, e, len) ==
    /\ len <= Size(e) /\ Size(e) <= Size(d)
    /\ Harmless(d, e, len \div Block, len \div Block)

Shortened(d, e, len) ==
    /\ Size(e) = len
    /\ \A i \in 0..MaxLen - 1 : View(e)[i] = IF i < len THEN View(d)[i] ELSE 0

(* The last block, sealed again with the bytes that stay: until the file is cut the bytes of
   the others are as before, and after the cut all that stay. *)
LEMMA ResealView ==
    ASSUME NEW d \in Disks, Holes(d), d.id # NoId, NEW len \in 1..MaxLen, len < Size(d), len % Block # 0,
           NEW q \in Plains, Len(q) = len % Block,
           \A k \in 1..len % Block : q[k] = Row(d, len \div Block)[k],
           len \div Block \in 0..Last, len = (len \div Block) * Block + (len % Block)
    PROVE  /\ \A n \in 0..Total(<<q>>) : Cutting(d, Put(d, len \div Block, <<q>>, n), len)
           /\ Shortened(d, Resize(Put(d, len \div Block, <<q>>, Total(<<q>>)), StoredLen(len)), len)
<1> DEFINE index == len \div Block
           start == index * Block
           keep  == len % Block
           size  == Size(d)
           p(n)  == Put(d, index, <<q>>, n)
           e     == Resize(p(Total(<<q>>)), StoredLen(len))
<1>1. /\ size \in Nat /\ len \in Nat /\ len < size /\ start \in Nat /\ keep \in Nat /\ keep < Block
      /\ len = start + keep /\ len <= MaxLen /\ Block \in Nat /\ keep \in 1..Block
  <2>1. size \in Nat
    BY DiskParts
  <2>2. len \in Nat /\ Block \in Nat
    BY Sizes
  <2>3. start \in Nat
    BY Limits, BlockStarts
  <2>4. keep \in Nat /\ keep < Block
    BY <2>2, Division
  <2>5. len = start + keep
    OBVIOUS
  <2> HIDE DEF start, keep, size
  <2>6. keep # 0
    BY DEF keep
  <2>7. len < size
    BY DEF size
  <2> QED BY <2>1, <2>2, <2>3, <2>4, <2>5, <2>6, <2>7
<1>2. Len(q) = keep /\ start + Len(q) <= MaxLen /\ start <= Size(d) /\ Larger(Size(d), start + Len(q)) = Size(d)
  <2>1. Len(q) = keep
    OBVIOUS
  <2> HIDE DEF start, keep
  <2>2. start + keep <= MaxLen /\ start <= size /\ Larger(size, start + keep) = size
    <3> HIDE DEF size
    <3> QED BY <1>1 DEF Larger
  <2> QED BY <2>1, <2>2
<1>3. ASSUME NEW n \in 0..Total(<<q>>)
      PROVE  /\ p(n) \in Disks /\ p(n).id = d.id /\ Size(p(n)) = Size(d)
             /\ \A i \in 0..MaxLen - 1 : i < Size(p(n)) /\ i \div Block # index => View(p(n))[i] = View(d)[i]
  <2>1. index * Block + Len(q) <= MaxLen /\ index * Block <= Size(d)
    BY <1>2
  <2>2. /\ p(n) \in Disks /\ p(n).id = d.id
        /\ Size(d) <= Size(p(n)) /\ Size(p(n)) <= Larger(Size(d), index * Block + Len(q))
        /\ \A i \in 0..MaxLen - 1 : i < Size(p(n)) /\ i \div Block # index => View(p(n))[i] = View(d)[i]
    <3> HIDE DEF index
    <3>1. index \in 0..Last
      BY DEF index
    <3> QED BY <2>1, <3>1, PutOne
  <2> HIDE DEF p
  <2>3. Size(p(n)) \in Nat /\ Size(d) \in Nat
    BY <2>2, DiskParts
  <2>4. Size(p(n)) = Size(d)
    <3> HIDE DEF index
    <3>1. Size(p(n)) <= Size(d)
      BY <1>2, <2>2
    <3> QED BY <2>2, <2>3, <3>1
  <2> QED BY <2>2, <2>4
<1> DEFINE whole == p(Total(<<q>>))
<1>4. whole \in Disks /\ whole.id = d.id /\ Size(whole) = Size(d) /\ whole.blocks[index] = Seal(d.id, q)
      /\ \A i \in 0..MaxLen - 1 : i < Size(whole) /\ i \div Block # index => View(whole)[i] = View(d)[i]
  <2>1. Total(<<q>>) \in 0..Total(<<q>>)
    <3>1. index \in Nat /\ index * Block + Len(q) <= MaxLen
      BY <1>2, Limits
    <3>2. Total(<<q>>) = Len(q) + Overhead /\ Len(q) \in Nat
      <4> HIDE DEF index
      <4> QED BY <3>1, OneBlock, PlainTypes
    <3>3. Total(<<q>>) \in Nat
      <4> DEFINE m == Len(q)
                 t == Total(<<q>>)
      <4>1. t = m + Overhead /\ m \in Nat
        BY <3>2
      <4> HIDE DEF m, t
      <4>2. t \in Nat
        BY <4>1, Sizes
      <4> QED BY <4>2 DEF t
    <3> QED BY <3>3
  <2>2. whole.blocks[index] = Seal(d.id, q)
    <3>1. index \in 0..Last /\ index * Block + Len(q) <= MaxLen
      BY <1>2
    <3> HIDE DEF index
    <3> QED BY <3>1, SealedPut
  <2> HIDE DEF p
  <2> QED BY <1>3, <2>1, <2>2
<1>5. ASSUME NEW n \in 0..Total(<<q>>) PROVE Cutting(d, p(n), len)
  <2> HIDE DEF p
  <2>1. len <= Size(p(n)) /\ Size(p(n)) <= Size(d)
    BY <1>1, <1>3
  <2>2. Harmless(d, p(n), index, index)
    <3> HIDE DEF index
    <3>1. \A m : m \notin index..index => m # index
      <4>1. index \in index..index
        BY Limits DEF index
      <4> QED BY <4>1
    <3> QED BY <1>3, <3>1 DEF Harmless
  <2> QED BY <2>1, <2>2 DEF Cutting
<1> HIDE DEF p
<1>6. Shortened(d, e, len)
  <2>1. e = Resize(whole, StoredLen(len))
    OBVIOUS
  <2> HIDE DEF e, whole
  <2>2. ASSUME NEW i \in 0..MaxLen - 1
        PROVE  View(e)[i] = IF i < len THEN View(d)[i] ELSE 0
    <3> DEFINE j == i \div Block
    <3>1. /\ Size(e) = len
          /\ ~(i < len) => View(e)[i] = 0
          /\ i < len => /\ j \in 0..Last /\ j * Block < len
                        /\ View(e)[i] = Open(whole.blocks[j], whole.id, RowLen(len, j))[(i % Block) + 1]
          /\ i < len /\ j * Block + Block <= len => View(e)[i] = View(whole)[i]
      <4>1. len <= Size(whole) /\ whole.id # NoId
        BY <1>1, <1>4
      <4> QED BY <1>4, <2>1, <4>1, CutView
    <3>2. CASE i < len /\ j = index
      <4>1. RowLen(len, index) = keep
        <5> HIDE DEF keep, index
        <5> QED BY <1>1 DEF RowLen, Smaller, start
      <4>2. Open(whole.blocks[j], whole.id, RowLen(len, j)) = q
        <5> HIDE DEF j, index, keep
        <5> QED BY <1>2, <1>4, <3>2, <4>1, OpenSealed
      <4>3. (i % Block) + 1 \in 1..keep
        <5>1. i = j * Block + (i % Block) /\ i % Block \in Nat /\ i \in Nat
          BY BlockStarts, Division
        <5>2. i % Block < keep
          <6> DEFINE r == i % Block
          <6>1. i = start + r /\ r \in Nat
            BY <3>2, <5>1
          <6> HIDE DEF r, start, keep
          <6> QED BY <1>1, <3>2, <6>1 DEF r
        <5> HIDE DEF keep
        <5> QED BY <1>1, <5>1, <5>2
      <4>4. View(d)[i] = Row(d, index)[(i % Block) + 1]
        <5>1. i < Size(d)
          <6> HIDE DEF size
          <6>1. i \in Nat /\ i < size
            BY <1>1, <3>2
          <6> QED BY <6>1 DEF size
        <5> QED BY <3>2, <5>1 DEF View
      <4>5. q[(i % Block) + 1] = Row(d, index)[(i % Block) + 1]
        BY <4>3
      <4> HIDE DEF j, index, keep
      <4> QED BY <3>1, <3>2, <4>2, <4>4, <4>5
    <3>3. CASE i < len /\ j # index
      <4>1. j * Block + Block <= len
        <5>1. j \in Nat /\ index \in Nat /\ j <= index
          <6>1. i \in Nat /\ i <= len
            BY <1>1, <3>3
          <6> QED BY <1>1, <6>1, BlockOrder, Division
        <5>2. j * Block + Block <= start
          <6> HIDE DEF j, index
          <6>1. j < index
            BY <3>3, <5>1
          <6> QED BY <5>1, <6>1, BlockStarts DEF start
        <5>3. j * Block \in Nat
          <6> HIDE DEF j
          <6> QED BY <5>1, BlockStarts
        <5> DEFINE a == j * Block
        <5> HIDE DEF a, start, keep
        <5>4. a + Block <= start /\ a \in Nat
          BY <5>2, <5>3 DEF a
        <5>5. a + Block <= len
          BY <1>1, <5>4
        <5> QED BY <5>5 DEF a
      <4>2. View(whole)[i] = View(d)[i]
        <5>1. i < Size(whole)
          BY <1>1, <1>4, <3>3
        <5> HIDE DEF j, index
        <5> QED BY <1>4, <3>3, <5>1 DEF j
      <4> QED BY <3>1, <3>3, <4>1, <4>2
    <3> QED BY <3>1, <3>2, <3>3
  <2>3. Size(e) = len
    <3>1. len <= Size(whole) /\ whole.id # NoId /\ 0 \in 0..MaxLen - 1
      <4>1. 0 \in 0..MaxLen - 1
        BY Sizes
      <4> QED BY <1>1, <1>4, <4>1
    <3> QED BY <1>4, <2>1, <3>1, CutView
  <2> QED BY <2>2, <2>3 DEF Shortened
<1> QED BY <1>5, <1>6 DEF p

(* set_len to something shorter: until it is through only bytes of the block at
   the new end may have changed; then the file is its own beginning. *)
LEMMA ShrinkView ==
    ASSUME NEW s, Sound(s), Good(s), s.res = "ok", NEW len \in 0..MaxLen, len < Size(s),
           NEW cut, cut.bytes \in Nat
    PROVE  LET w == Shrink(s, len, cut)
           IN  IF w.res = "ok" THEN Shortened(s.disk, w.disk, len) ELSE Cutting(s.disk, w.disk, len)
<1> DEFINE d      == s.disk
           index  == len \div Block
           keep   == len % Block
           old    == Open(d.blocks[index], s.id, Smaller(Size(s) - index * Block, Block))
           part   == SubSeq(old, 1, keep)
           sealed == IF keep = 0 THEN s
                     ELSE IF Corrupt(old) THEN Fails(s, "corrupt")
                     ELSE WriteBlocks(s, "reseal", cut, index, <<part>>)
           done   == ResizeTo(sealed, "cut", cut, StoredLen(len))
           w      == IF done.res # "ok" THEN done
                     ELSE [done EXCEPT !.len = StoredLen(len), !.id = IdAfter(@, len)]
<1>0. Shrink(s, len, cut) = w
  BY DEF Shrink
<1>1. /\ d \in Disks /\ Holes(d) /\ s.id = d.id /\ Size(s) = Size(d) /\ Size(d) \in Nat
      /\ len \in Nat /\ MaxLen \in Nat /\ len < Size(d) /\ StoredLen(len) \in 0..Limit
      /\ s.id # NoId
  <2>1. s.id # NoId
    BY CallParts, Sizes DEF Size, PlainLen
  <2>2. d \in Disks /\ Holes(d) /\ s.id = d.id
    BY CallParts
  <2>3. Size(s) = Size(d)
    BY GoodSize
  <2>4. Size(d) \in Nat
    BY <2>2, DiskParts
  <2>5. len \in Nat /\ MaxLen \in Nat /\ StoredLen(len) \in 0..Limit
    BY Sizes, Limits
  <2> QED BY <2>1, <2>2, <2>3, <2>4, <2>5
<1>2. Cutting(d, d, len)
  BY <1>1 DEF Cutting, Harmless
<1>3. /\ sealed = [disk |-> sealed.disk, id |-> sealed.id, len |-> sealed.len, res |-> sealed.res]
      /\ Cutting(d, sealed.disk, len)
      /\ sealed.res = "ok" => Shortened(d, Resize(sealed.disk, StoredLen(len)), len)
  <2>1. CASE keep = 0
    <3>1. sealed = s
      BY <2>1
    <3>2. Shortened(d, Resize(d, StoredLen(len)), len)
      <4> DEFINE e == Resize(d, StoredLen(len))
      <4>1. CASE len = 0
        <5>1. e \in Disks /\ e.len = 0
          BY <1>1, <4>1, ResizeSound, StoredLengths
        <5> HIDE DEF e
        <5>2. Size(e) = 0
          BY <5>1, Sizes DEF Size, PlainLen
        <5>3. View(e) = [i \in 0..MaxLen - 1 |-> 0]
          BY <5>1, <5>2, ViewEmpty
        <5>4. \A i \in 0..MaxLen - 1 : ~(i < len)
          BY <4>1
        <5> QED BY <4>1, <5>2, <5>3, <5>4 DEF Shortened, e
      <4>2. CASE len # 0
        <5>1. len \in 1..MaxLen /\ len <= Size(d) /\ d.id # NoId
          BY <1>1, <4>2
        <5>2. ASSUME NEW i \in 0..MaxLen - 1
              PROVE  View(e)[i] = IF i < len THEN View(d)[i] ELSE 0
          <6> DEFINE j == i \div Block
          <6>1. /\ ~(i < len) => View(e)[i] = 0
                /\ i < len => j * Block < len
                /\ i < len /\ j * Block + Block <= len => View(e)[i] = View(d)[i]
            BY <1>1, <5>1, CutView
          <6>2. ASSUME i < len PROVE j * Block + Block <= len
            <7>1. j \in Nat /\ index \in Nat /\ len = index * Block
              <8>1. index \in Nat /\ len = index * Block + keep
                BY <1>1, BlockStarts
              <8>2. index * Block \in Nat
                BY <8>1, BlockStarts
              <8>3. len = index * Block
                <9> DEFINE a == index * Block
                <9> HIDE DEF a, keep
                <9>1. len = a
                  BY <2>1, <8>1, <8>2 DEF a
                <9> QED BY <9>1 DEF a
              <8> QED BY <8>1, <8>3, Division
            <7>2. j < index
              <8>1. j * Block < index * Block
                BY <6>1, <6>2, <7>1
              <8>2. index < j => index * Block + Block <= j * Block
                BY <7>1, BlockStarts
              <8>3. j * Block \in Nat /\ index * Block \in Nat
                BY <7>1, BlockStarts
              <8> DEFINE a == j * Block
                         b == index * Block
              <8>4. a \in Nat /\ b \in Nat /\ a < b /\ (index < j => b + Block <= a) /\ (index = j => a = b)
                BY <8>1, <8>2, <8>3
              <8> HIDE DEF a, b, j, index
              <8> QED BY <7>1, <8>4, Sizes
            <7>3. j * Block + Block <= index * Block
              <8> HIDE DEF j, index
              <8> QED BY <7>1, <7>2, BlockStarts
            <7> QED BY <7>1, <7>3
          <6> QED BY <6>1, <6>2
        <5>3. Size(e) = len
          <6>1. 0 \in 0..MaxLen - 1
            BY <1>1, <5>1
          <6> QED BY <1>1, <5>1, <6>1, CutView
        <5> QED BY <5>2, <5>3 DEF Shortened
      <4> QED BY <4>1, <4>2
    <3> QED BY <1>2, <3>1, <3>2, CallParts
  <2>2. CASE keep # 0 /\ Corrupt(old)
    <3>1. sealed = Fails(s, "corrupt")
      BY <2>2
    <3>2. Fails(s, "corrupt") = [disk |-> d, id |-> s.id, len |-> s.len, res |-> "corrupt"]
      BY CallParts DEF Fails
    <3> HIDE DEF sealed
    <3> QED BY <1>2, <3>1, <3>2
  <2>3. CASE keep # 0 /\ ~Corrupt(old)
    <3>1. /\ index \in 0..Last /\ len = index * Block + keep /\ part \in Plains /\ Len(part) = keep
          /\ \A k \in 1..keep : part[k] = old[k]
      BY <2>3, ShrinkBlock
    <3>2. sealed = WriteBlocks(s, "reseal", cut, index, <<part>>)
      BY <2>3
    <3>3. index \in Nat /\ index * Block + Len(part) <= MaxLen
      <4> HIDE DEF index, part, keep, sealed
      <4> QED BY <1>1, <3>1, Limits
    <3>4. Fits(index, <<part>>)
      <4> HIDE DEF index, part, keep, sealed
      <4> QED BY <3>1, <3>3, OneBlock
    <3>5. old = Row(d, index)
      BY <1>1 DEF Row, RowLen
    <3>6. /\ \A n \in 0..Total(<<part>>) : Cutting(d, Put(d, index, <<part>>, n), len)
          /\ Shortened(d, Resize(Put(d, index, <<part>>, Total(<<part>>)), StoredLen(len)), len)
      <4>1. \A k \in 1..len % Block : part[k] = Row(d, len \div Block)[k]
        BY <3>1, <3>5
      <4>2. len \in 1..MaxLen /\ len % Block # 0
        <5>1. len # 0
          BY <2>3, Sizes
        <5> QED BY <1>1, <2>3, <5>1
      <4>3. Len(part) = len % Block /\ part \in Plains /\ len \div Block \in 0..Last
            /\ len = (len \div Block) * Block + (len % Block)
        BY <3>1
      <4> HIDE DEF part
      <4> QED BY <1>1, <4>1, <4>2, <4>3, ResealView
    <3> HIDE DEF index, part, keep, sealed, old
    <3>7. /\ Sound(sealed) /\ sealed.res \in {"ok", "failed"}
          /\ sealed.res = "ok" => sealed.disk = Put(d, index, <<part>>, Total(<<part>>))
          /\ sealed.res = "failed" => \E n \in 0..Total(<<part>>) : sealed.disk = Put(d, index, <<part>>, n)
      BY <1>1, <3>2, <3>4, WriteBlocksSound
    <3>8. Total(<<part>>) \in 0..Total(<<part>>)
      <4>1. Total(<<part>>) \in Nat \ {0}
        BY <3>4, TotalType
      <4> QED BY <4>1
    <3>9. Cutting(d, sealed.disk, len)
      BY <3>6, <3>7, <3>8
    <3> QED BY <3>6, <3>7, <3>9, CallParts
  <2> QED BY <2>1, <2>2, <2>3
<1> HIDE DEF sealed, d
<1>4. \/ done.res # "ok" /\ done.disk = sealed.disk /\ w = done
      \/ done.res = "ok" /\ sealed.res = "ok" /\ w.res = "ok" /\ w.disk = Resize(sealed.disk, StoredLen(len))
  <2>1. CASE sealed.res # "ok"
    BY <2>1 DEF ResizeTo
  <2>2. CASE sealed.res = "ok" /\ cut.step = "cut"
    <3>1. done = Fails(sealed, "failed")
      BY <2>2 DEF ResizeTo
    <3>2. Fails(sealed, "failed") = [disk |-> sealed.disk, id |-> sealed.id, len |-> sealed.len, res |-> "failed"]
      BY <1>3 DEF Fails
    <3>3. done.res = "failed" /\ done.disk = sealed.disk
      <4> HIDE DEF done
      <4> QED BY <3>1, <3>2
    <3> HIDE DEF done
    <3> QED BY <3>3
  <2>3. CASE sealed.res = "ok" /\ cut.step # "cut"
    <3> DEFINE e == Resize(sealed.disk, StoredLen(len))
    <3>1. done = [sealed EXCEPT !.disk = e]
      BY <2>3 DEF ResizeTo
    <3> HIDE DEF e, done
    <3>2. done = [disk |-> e, id |-> sealed.id, len |-> sealed.len, res |-> "ok"]
      BY <1>3, <2>3, <3>1
    <3>3. w = [disk |-> e, id |-> IdAfter(sealed.id, len), len |-> StoredLen(len), res |-> "ok"]
      BY <3>2
    <3> HIDE DEF w
    <3> QED BY <2>3, <3>2, <3>3 DEF e
  <2> QED BY <2>1, <2>2, <2>3
<1> HIDE DEF w, done
<1> QED BY <1>0, <1>3, <1>4 DEF d

-------------------------------------------------------------------------------
(* The bytes a program reads, from call to call. *)

(* An open file in step with its stored file reads as that is stored. *)
LEMMA Mapped ==
    ASSUME NEW d \in Disks, NEW m, m.len = d.len, m.id = d.id
    PROVE  /\ Size(m) = Size(d)
           /\ [i \in 0..MaxLen - 1 |->
                 IF i < Size(m)
                 THEN Open(d.blocks[i \div Block], m.id,
                           Smaller(Size(m) - (i \div Block) * Block, Block))[(i % Block) + 1]
                 ELSE 0] = View(d)
<1>1. Size(m) = Size(d)
  BY DEF Size
<1> QED BY <1>1 DEF View, Row, RowLen

(* The file's bytes and length before and after a step. *)
Reads(d) == /\ Contents = View(d) /\ Size(mem) = Size(d) /\ Size(d) \in 0..MaxLen /\ d \in Disks

LEMMA ReadsNow ==
    ASSUME TypeInv, MemoryTrue
    PROVE  Reads(disk)
<1>1. disk \in Disks
  BY StartSound, CallParts DEF Start
<1>2. mem.len = disk.len /\ mem.id = disk.id
  BY DEF MemoryTrue
<1> QED BY <1>1, <1>2, Mapped, DiskParts DEF Reads, Contents, Read

LEMMA ReadsNext ==
    ASSUME TypeInv', MemoryTrue'
    PROVE  Contents' = View(disk') /\ Size(mem') = Size(disk') /\ Size(disk') \in 0..MaxLen /\ disk' \in Disks
<1>1. disk' \in Disks
  <2>1. Sound(Start)' <=> Sound(Start')
    BY DEF Sound, Calls, Disks, Holes
  <2>2. Sound(Start') /\ Start'.disk = disk'
    BY <2>1 DEF TypeInv, Start
  <2> QED BY <2>2, CallParts
<1>2. mem'.len = disk'.len /\ mem'.id = disk'.id
  BY DEF MemoryTrue
<1>3. Contents' = [i \in 0..MaxLen - 1 |->
                     IF i < Size(mem')
                     THEN Open(disk'.blocks[i \div Block], mem'.id,
                               Smaller(Size(mem') - (i \div Block) * Block, Block))[(i % Block) + 1]
                     ELSE 0]
  BY DEF Contents, Read, Size, Open, Smaller, PlainLen, StoredBlock, Larger
<1> QED BY <1>1, <1>2, <1>3, Mapped, DiskParts

(* A step of the file of bytes, in terms of the stored file. *)
BytesStep(old, new, res) ==
    \/ \E offset \in 0..MaxLen, data \in Data :
          /\ offset + Len(data) <= MaxLen \/ res # "ok"
          /\ IF res = "ok" THEN Wrote(old, new, offset, data) ELSE Writing(old, new, offset, data)
    \/ \E len \in 0..MaxLen :
          IF res = "ok"
          THEN Shortened(old, new, len)
          ELSE /\ Smaller(Size(old), len) <= Size(new) /\ Size(new) <= Larger(Size(old), len)
               /\ Harmless(old, new, Smaller(len, Size(old)) \div Block, Smaller(len, Size(old)) \div Block)

LEMMA StepMaps ==
    ASSUME Contents = View(disk), Contents' = View(disk'), Size(mem) = Size(disk), Size(mem') = Size(disk'),
           Size(disk) \in 0..MaxLen, Size(disk') \in 0..MaxLen, BytesStep(disk, disk', result')
    PROVE  Bytes!Next
<1>1. (Size(mem))' = Size(mem')
  BY DEF Size, PlainLen, StoredBlock, Larger
<1>2. Size(disk) \in Nat /\ Size(disk') \in Nat /\ MaxLen \in Nat
  BY Sizes
<1>3. ASSUME NEW offset \in 0..MaxLen, NEW data \in Data, offset + Len(data) <= MaxLen, result' = "ok",
             Wrote(disk, disk', offset, data)
      PROVE  Bytes!Write(offset, data)
  <2>1. Contents' = [i \in 0..MaxLen - 1 |-> IF i - offset + 1 \in DOMAIN data THEN data[i - offset + 1]
                                            ELSE View(disk)[i]]
    BY <1>3 DEF Wrote, View
  <2>2. Size(mem') = Larger(Size(mem), offset + Len(data))
    BY <1>3 DEF Wrote
  <2> QED BY <1>1, <1>3, <2>1, <2>2 DEF Bytes!Write, Bytes!Larger, Bytes!Positions, Larger
<1>4. ASSUME NEW offset \in 0..MaxLen, NEW data \in Data, result' # "ok", Writing(disk, disk', offset, data)
      PROVE  Bytes!FailedWrite(offset, data)
  <2> DEFINE size == Size(disk)
             end  == offset + Len(data)
  <2>1. Len(data) \in Nat /\ offset \in Nat /\ end \in Nat
    BY DataTypes, Sizes
  <2>2. Smaller(size, Larger(size, end)) = size /\ Larger(size, Larger(size, end)) = Larger(size, end)
    <3> HIDE DEF size, end
    <3> QED BY <1>2, <2>1 DEF size, Smaller, Larger
  <2> QED BY <1>1, <1>4, <2>2 DEF Bytes!FailedWrite, Bytes!Fail, Bytes!Larger, Bytes!Smaller, Bytes!Positions,
                                  Writing, Harmless, Larger, Smaller
<1>5. ASSUME NEW len \in 0..MaxLen, result' = "ok", Shortened(disk, disk', len)
      PROVE  Bytes!SetLen(len)
  <2>1. Contents' = [i \in 0..MaxLen - 1 |-> IF i < len THEN View(disk)[i] ELSE 0]
    BY <1>5 DEF Shortened, View
  <2> QED BY <1>1, <1>5, <2>1 DEF Bytes!SetLen, Bytes!Positions, Shortened
<1>6. ASSUME NEW len \in 0..MaxLen, result' # "ok",
             Smaller(Size(disk), len) <= Size(disk'), Size(disk') <= Larger(Size(disk), len),
             Harmless(disk, disk', Smaller(len, Size(disk)) \div Block, Smaller(len, Size(disk)) \div Block)
      PROVE  Bytes!FailedSetLen(len)
  BY <1>1, <1>6 DEF Bytes!FailedSetLen, Bytes!Fail, Bytes!Larger, Bytes!Smaller, Bytes!Positions,
                    Harmless, Larger, Smaller
<1> QED BY <1>3, <1>4, <1>5, <1>6 DEF BytesStep, Bytes!Next

(* An answer that changes nothing sets the length there is, or fails to set one. *)
LEMMA AnswersMap ==
    ASSUME disk \in Disks, NEW why, Answers(why)
    PROVE  BytesStep(disk, disk', result')
<1>1. disk' = disk /\ result' = why /\ Size(disk) \in 0..MaxLen /\ Size(disk) \in Nat
  BY DiskParts DEF Answers
<1>2. Shortened(disk, disk, Size(disk))
  BY DEF Shortened, View
<1>3. /\ Smaller(Size(disk), Size(disk)) <= Size(disk) /\ Size(disk) <= Larger(Size(disk), Size(disk))
      /\ \A a : Harmless(disk, disk, a, a)
  BY <1>1 DEF Smaller, Larger, Harmless
<1> QED BY <1>1, <1>2, <1>3 DEF BytesStep

(* write_at and, with it, append and write_within. *)
LEMMA WriteAtMaps ==
    ASSUME TypeInv, MemoryInv, NEW offset \in 0..MaxLen, NEW data \in Data,
           NEW cut, cut.bytes \in Nat, cut.step = "header" => cut.bytes < Header,
           WriteAt(offset, data, cut)
    PROVE  BytesStep(disk, disk', result')
<1>1. disk \in Disks /\ Start.disk = disk
  BY StartSound, CallParts DEF Start
<1>2. CASE TooLarge(offset + Len(data)) \/ ~Writable
  BY <1>1, <1>2, AnswersMap DEF WriteAt
<1>3. CASE ~TooLarge(offset + Len(data)) /\ Writable
  <2> DEFINE w == WriteLocked(Start, offset, data, cut)
  <2>1. offset + Len(data) <= MaxLen /\ offset \in Nat
    BY <1>3, DataTypes, Sizes DEF TooLarge
  <2>2. /\ Writing(Start.disk, w.disk, offset, data)
        /\ w.res = "ok" => Wrote(Start.disk, w.disk, offset, data)
    BY <2>1, DataTypes, StartSound, StartGood, WriteView
  <2>3. disk' = w.disk /\ result' = w.res
    BY <1>3 DEF WriteAt, Ends
  <2> HIDE DEF w
  <2>4. /\ Writing(disk, disk', offset, data)
        /\ result' = "ok" => Wrote(disk, disk', offset, data)
    BY <1>1, <2>2, <2>3
  <2> QED BY <2>1, <2>4 DEF BytesStep
<1> QED BY <1>2, <1>3

(* set_len, to more, to less and to what it is. *)
LEMMA SetLenMaps ==
    ASSUME TypeInv, MemoryInv, NEW len \in 0..MaxLen + 1,
           NEW cut, cut.bytes \in Nat, cut.step = "header" => cut.bytes < Header,
           SetLen(len, cut)
    PROVE  BytesStep(disk, disk', result')
<1>1. disk \in Disks /\ Start.disk = disk /\ Size(disk) \in Nat /\ Size(Start) = Size(disk)
      /\ Size(disk) \in 0..MaxLen
  <2>1. disk \in Disks /\ Start.disk = disk
    BY StartSound, CallParts DEF Start
  <2>2. Size(Start) = Size(disk)
    BY <2>1, StartGood, GoodSize
  <2> QED BY <2>1, <2>2, DiskParts, Sizes
<1>2. CASE TooLarge(len) \/ len = Size(Start) \/ ~Writable
  BY <1>1, <1>2, AnswersMap DEF SetLen
<1> SUFFICES ASSUME ~TooLarge(len), len # Size(Start), Writable PROVE BytesStep(disk, disk', result')
  BY <1>2
<1>3. len \in 0..MaxLen /\ len \in Nat
  BY Sizes DEF TooLarge
<1>4. CASE Size(Start) < len
  <2> DEFINE g == Grow(Start, len, cut)
  <2>1. /\ g.res = "ok" => Size(g.disk) = len /\ View(g.disk) = View(Start.disk)
        /\ Size(Start.disk) <= Size(g.disk) /\ Size(g.disk) <= len
        /\ Harmless(Start.disk, g.disk, Size(Start.disk) \div Block, Size(Start.disk) \div Block)
    BY <1>1, <1>3, <1>4, StartSound, StartGood, GrowView
  <2>2. disk' = g.disk /\ result' = g.res
    BY <1>1, <1>3, <1>4 DEF SetLen, Ends
  <2> HIDE DEF g
  <2>3. /\ result' = "ok" => Size(disk') = len /\ View(disk') = View(disk)
        /\ Size(disk) <= Size(disk') /\ Size(disk') <= len
        /\ Harmless(disk, disk', Size(disk) \div Block, Size(disk) \div Block)
    BY <1>1, <1>3, <2>1, <2>2
  <2>4. result' = "ok" => Shortened(disk, disk', len)
    <3>1. \A i \in 0..MaxLen - 1 : ~(i < len) => View(disk)[i] = 0
      <4> SUFFICES ASSUME NEW i \in 0..MaxLen - 1, ~(i < len) PROVE View(disk)[i] = 0
        OBVIOUS
      <4>1. ~(i < Size(disk))
        BY <1>1, <1>3, <1>4
      <4> QED BY <4>1 DEF View
    <3> QED BY <2>3, <3>1 DEF Shortened
  <2>5. Smaller(Size(disk), len) = Size(disk) /\ Larger(Size(disk), len) = len /\ Smaller(len, Size(disk)) = Size(disk)
    BY <1>1, <1>3, <1>4 DEF Smaller, Larger
  <2> QED BY <1>3, <2>3, <2>4, <2>5 DEF BytesStep
<1>5. CASE ~(Size(Start) < len)
  <2> DEFINE w == Shrink(Start, len, cut)
  <2>1. len < Size(Start)
    BY <1>1, <1>3, <1>5
  <2>2. IF w.res = "ok" THEN Shortened(Start.disk, w.disk, len) ELSE Cutting(Start.disk, w.disk, len)
    BY <1>1, <1>3, <2>1, StartSound, StartGood, ShrinkView
  <2>3. disk' = w.disk /\ result' = w.res
    BY <1>1, <1>3, <1>5, <2>1 DEF SetLen, Ends
  <2> HIDE DEF w
  <2>4. IF result' = "ok" THEN Shortened(disk, disk', len) ELSE Cutting(disk, disk', len)
    BY <1>1, <1>3, <2>2, <2>3
  <2>5. Smaller(Size(disk), len) = len /\ Larger(Size(disk), len) = Size(disk) /\ Smaller(len, Size(disk)) = len
    BY <1>1, <1>3, <2>1 DEF Smaller, Larger
  <2> QED BY <1>3, <2>4, <2>5 DEF BytesStep, Cutting
<1> QED BY <1>4, <1>5

(* Every step of the file is one of the file of bytes, or leaves those as they are. *)
LEMMA StepIsBytes ==
    ASSUME "error" \notin Faults, TypeInv, MemoryInv, [Next]_vars
    PROVE  [Bytes!Next]_(Bytes!vars)
<1>1. TypeInv' /\ MemoryInv'
  BY StepTypes, StepKeeps
<1>2. Contents = View(disk) /\ Size(mem) = Size(disk) /\ Size(disk) \in 0..MaxLen /\ disk \in Disks
  BY ReadsNow DEF MemoryInv, Reads
<1>3. Contents' = View(disk') /\ Size(mem') = Size(disk') /\ Size(disk') \in 0..MaxLen
  <2>1. MemoryTrue'
    BY <1>1 DEF MemoryInv
  <2> QED BY <1>1, <2>1, ReadsNext
<1>4. ASSUME BytesStep(disk, disk', result') PROVE Bytes!Next
  BY <1>2, <1>3, <1>4, StepMaps
<1>5. ASSUME disk' = disk, result' = result PROVE UNCHANGED Bytes!vars
  <2>1. Contents' = Contents /\ Size(mem') = Size(mem)
    BY <1>2, <1>3, <1>5
  <2>2. (Size(mem))' = Size(mem')
    BY DEF Size, PlainLen, StoredBlock, Larger
  <2> QED BY <1>5, <2>1, <2>2 DEF Bytes!vars
<1>6. ASSUME NEW offset \in 0..MaxLen, NEW data \in Data,
             NEW cut \in Cuts(DataCuts \cup GrowCuts), WriteAt(offset, data, cut)
      PROVE  BytesStep(disk, disk', result')
  <2>1. cut.bytes \in Nat /\ (cut.step = "header" => cut.bytes < Header)
    BY CutBytes, HeaderBytes
  <2> QED BY <1>6, <2>1, WriteAtMaps
<1>7. ASSUME NEW offset \in 0..MaxLen, NEW data \in Data, WriteWithin(offset, data)
      PROVE  BytesStep(disk, disk', result')
  <2> DEFINE fits == Smaller(Len(data), Size(Start) - offset)
             part == SubSeq(data, 1, fits)
  <2>1. CASE fits <= 0
    BY <1>2, <1>7, <2>1, AnswersMap DEF WriteWithin
  <2>2. CASE ~(fits <= 0)
    <3>1. fits \in 1..Len(data)
      <4>1. Len(data) \in Nat \ {0} /\ Size(Start) - offset \in Int /\ offset \in Nat
        BY DataTypes, StartSound, Sizes
      <4> QED BY <2>2, <4>1 DEF Smaller
    <3>2. WriteAt(offset, part, NoCut)
      BY <1>7, <2>2 DEF WriteWithin
    <3> HIDE DEF fits
    <3>3. part \in Data
      BY <3>1, PartsAssumption
    <3> HIDE DEF part
    <3> QED BY <3>2, <3>3, CutBytes, HeaderBytes, WriteAtMaps
  <2> QED BY <2>1, <2>2
<1>8. ASSUME NEW data \in Data, AppendData(data)
      PROVE  BytesStep(disk, disk', result')
  <2>1. Size(Start) \in 0..MaxLen
    BY StartSound
  <2> QED BY <1>8, <2>1, CutBytes, HeaderBytes, WriteAtMaps DEF AppendData
<1>9. ASSUME NEW len \in 0..MaxLen + 1,
             NEW cut \in Cuts(IF len > Size(mem) THEN GrowCuts ELSE ShrinkCuts), SetLen(len, cut)
      PROVE  BytesStep(disk, disk', result')
  <2>1. cut.bytes \in Nat /\ (cut.step = "header" => cut.bytes < Header)
    <3>1. CASE len > Size(mem)
      BY <3>1, CutBytes, HeaderBytes
    <3>2. CASE ~(len > Size(mem))
      BY <3>2, CutBytes, HeaderBytes
    <3> QED BY <3>1, <3>2
  <2> QED BY <1>9, <2>1, SetLenMaps
<1>10. CASE Reopen \/ (\E value \in BOOLEAN : SetReadOnly(value)) \/ UNCHANGED vars
  BY <1>5, <1>10 DEF Reopen, SetReadOnly, vars
<1>11. CASE BytesStep(disk, disk', result')
  BY <1>4, <1>11
<1> QED BY <1>6, <1>7, <1>8, <1>9, <1>10, <1>11 DEF Next

(* While no write fails under a process that goes on, every call of content.rs
   does to the encrypted blocks what it would do to plain bytes, and a call that
   ends half-way harms at most the blocks it was about: for every block size,
   overhead and longest file, whatever is written. *)
THEOREM BlocksAreBytes ==
    ASSUME "error" \notin Faults
    PROVE  Spec => ByteSpec
<1>1. Init => Bytes!Init
  <2> SUFFICES ASSUME Init PROVE Bytes!Init
    OBVIOUS
  <2>1. Size(mem) = 0
    BY Sizes DEF Init, Size, PlainLen
  <2>2. Contents = [i \in 0..MaxLen - 1 |-> 0]
    <3>1. \A i \in 0..MaxLen - 1 : ~(i < Size(mem))
      BY <2>1
    <3> QED BY <3>1 DEF Contents
  <2> QED BY <2>1, <2>2 DEF Init, Bytes!Init, Bytes!Positions
<1>2. Init => MemoryInv
  BY DEF Init, MemoryInv, MemoryTrue, Shape
<1>3. TypeInv /\ MemoryInv /\ [Next]_vars => TypeInv' /\ MemoryInv'
  BY StepTypes, StepKeeps
<1>4. TypeInv /\ MemoryInv /\ [Next]_vars => [Bytes!Next]_(Bytes!vars)
  BY StepIsBytes
<1> QED BY <1>1, <1>2, <1>3, <1>4, TypeInvInit, PTL DEF Spec, ByteSpec, Bytes!Spec
===============================================================================
