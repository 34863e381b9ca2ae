------------------------------ MODULE ContentFile ------------------------------
(***************************************************************************)
(* The encrypted contents of one file of a drive vault: a header with the  *)
(* file's random id, then blocks, each sealed on its own for that id and   *)
(* its place in the file (native/vault2/src/content.rs).                   *)
(*                                                                         *)
(* A call is a chain of disk steps.  Each takes and returns a record       *)
(*   [disk, id, len, res]                                                  *)
(* of the stored file, what the open file keeps in memory, and how the     *)
(* call fares; a step after one that failed does nothing.  "cut" says      *)
(* which disk step stops, and after how many bytes: the write fails there  *)
(* or the process ends there.                                              *)
(***************************************************************************)
EXTENDS Integers, Sequences

CONSTANTS Block,      \* block_size: plaintext bytes per block
          Overhead,   \* BLOCK_OVERHEAD: nonce and tag
          Header,     \* HEADER_LEN
          Data,       \* what is written at once: sequences of bytes
          MaxLen,     \* the longest file (i64::MAX in the code)
          Ids,        \* random file ids
          NoId,       \* no header
          Bad,        \* a byte that can't be read
          Faults      \* "error": a disk write fails; "crash": the process ends there

ASSUME SizesAssumption ==
    /\ Block \in Nat \ {0} /\ Overhead \in Nat \ {0}
    /\ Header \in Nat \ {0} /\ MaxLen \in Nat
ASSUME DataAssumption == \A d \in Data : d \in Seq(Nat) /\ d # <<>>
ASSUME PartsAssumption == \A d \in Data : \A n \in 1..Len(d) : SubSeq(d, 1, n) \in Data
ASSUME FaultsAssumption == Faults \subseteq {"error", "crash"} /\ NoId \notin Ids /\ Ids # {}

VARIABLES disk,       \* the stored file: [len, id, blocks]
          mem,        \* the open file's State: [id, len, writable]
          readonly,   \* the stored file's read-only attribute
          result      \* how the last call ended

vars == <<disk, mem, readonly, result>>

Smaller(x, y) == IF x < y THEN x ELSE y
Larger(x, y)  == IF x < y THEN y ELSE x
Last     == MaxLen \div Block      \* the highest block index
StoredBlock == Block + Overhead
Offset(i) == Header + i * StoredBlock

PlainLen(stored) ==
    IF stored <= Header THEN 0
    ELSE LET body == stored - Header
         IN  (body \div StoredBlock) * Block + Larger((body % StoredBlock) - Overhead, 0)

StoredLen(plain) ==
    IF plain = 0 THEN 0
    ELSE Header + (plain \div Block) * StoredBlock
             + (IF plain % Block > 0 THEN (plain % Block) + Overhead ELSE 0)

-------------------------------------------------------------------------------
(* Stored blocks.  A sealed block can be opened only whole, with its id and
   in its place; what is left of one after a cut or a half-way write is torn.
   Bytes that were never written are zeros: a hole. *)

Hole  == [kind |-> "hole", id |-> NoId, plain |-> <<>>]
Torn  == [kind |-> "torn", id |-> NoId, plain |-> <<>>]
Seal(id, plain) == [kind |-> "sealed", id |-> id, plain |-> plain]

StoredBlocks == {Hole, Torn} \cup
    {Seal(id, p) : id \in Ids,
                   p \in UNION {[1..n -> {0} \cup UNION {{d[k] : k \in DOMAIN d} : d \in Data}] :
                                    n \in 1..Block}}

\* What opening a stored block of len + Overhead bytes yields: its len bytes.
Open(block, id, len) ==
    [k \in 1..len |->
        CASE block.kind = "hole" -> 0
          [] block.kind = "sealed" /\ block.id = id /\ Len(block.plain) = len -> block.plain[k]
          [] OTHER -> Bad]

Corrupt(plain) == \E k \in DOMAIN plain : plain[k] = Bad

\* The file after the first n bytes of the sealed blocks "out", the first of
\* them at index "first", have reached it.
Put(d, first, out, n) ==
    LET start(i) == (i - first) * StoredBlock
        stop(i)  == start(i) + Len(out[i - first + 1]) + Overhead
    IN  [d EXCEPT !.len = IF n = 0 THEN @ ELSE Larger(@, Offset(first) + n),
                  !.blocks = [i \in 0..Last |->
                      IF i - first + 1 \notin DOMAIN out \/ n <= start(i) THEN @[i]
                      ELSE IF n >= stop(i) THEN Seal(d.id, out[i - first + 1]) ELSE Torn]]

\* The file cut or grown to n stored bytes.
Resize(d, n) ==
    [len |-> n,
     id |-> IF n < Header THEN NoId ELSE d.id,
     blocks |-> [i \in 0..Last |->
        LET b == d.blocks[i]
        IN  IF Offset(i) >= n THEN Hole
            ELSE IF b.kind = "sealed" /\ Len(b.plain) + Overhead > n - Offset(i) THEN Torn
            ELSE b]]

-------------------------------------------------------------------------------
(* Disk steps. *)

NoCut == [step |-> "none", bytes |-> 0]

\* Where a call may stop: a header anywhere, blocks before their first byte,
\* inside a nonce or inside what they hold, a resize only as a whole.
HeaderCuts == [step : {"header"}, bytes : 0..Header - 1]
BlockCuts(step) == [step : {step}, bytes : {0, 1, Overhead + 1}]
DataCuts  == BlockCuts("data") \cup
             [step : {"data"}, bytes : {StoredBlock, StoredBlock + 1, StoredBlock + Overhead + 1}]
GrowCuts  == IF PlainLen(mem.len) % Block > 0 THEN BlockCuts("pad") \cup [step : {"extend"}, bytes : {0}]
                                              ELSE [step : {"exact", "extend"}, bytes : {0}]
ShrinkCuts == BlockCuts("reseal") \cup [step : {"cut"}, bytes : {0}]
Cuts(cuts) == {NoCut} \cup
              (IF Faults = {} THEN {} ELSE cuts \cup (IF mem.id = NoId THEN HeaderCuts ELSE {}))

Size(s) == PlainLen(s.len)

Fails(s, why) == [s EXCEPT !.res = why]

WriteBlocks(s, step, cut, first, out) ==
    LET total == (Len(out) - 1) * StoredBlock + Len(out[Len(out)]) + Overhead
    IN  IF cut.step = step
        THEN Fails([s EXCEPT !.disk = Put(@, first, out, Smaller(cut.bytes, total - 1))], "failed")
        ELSE [s EXCEPT !.disk = Put(@, first, out, total)]

ResizeTo(s, step, cut, n) ==
    IF s.res # "ok" THEN s
    ELSE IF cut.step = step THEN Fails(s, "failed")
    ELSE [s EXCEPT !.disk = Resize(@, n)]

\* A new random id: one no stored block knows.
FreshId(d) == CHOOSE id \in Ids : \A i \in 0..Last : d.blocks[i].id # id

EnsureHeader(s, cut) ==
    IF s.res # "ok" \/ s.id # NoId THEN s
    ELSE IF cut.step = "header"
    THEN Fails([s EXCEPT !.disk.len = Larger(@, cut.bytes)], "failed")
    ELSE LET id == FreshId(s.disk)
         IN  [s EXCEPT !.disk.len = Larger(@, Header), !.disk.id = id,
                       !.id = id, !.len = Larger(@, Header)]

Zeros(n) == [k \in 1..n |-> 0]

\* What is behind the last block is no part of the file: it goes before the
\* file grows over it.
KeepStray(s, cut) == s
DropStray(s, cut) ==
    LET exact == Larger(Header, StoredLen(Size(s)))
    IN  IF s.len # exact THEN ResizeTo(s, "exact", cut, exact) ELSE s

\* grow: the last block is padded with zeros and sealed again, or the stray
\* bytes behind it are dropped; the blocks after it are holes.
Grow(s0, len, cut) ==
    LET s       == EnsureHeader(s0, cut)
        size    == Size(s)
        partial == size % Block
        index   == size \div Block
        old     == Open(s.disk.blocks[index], s.id, partial)
        grown   == Smaller(len - index * Block, Block)
        padded  == IF s.res # "ok" THEN s
                   ELSE IF partial > 0 THEN
                     IF Corrupt(old) THEN Fails(s, "corrupt")
                     ELSE WriteBlocks(s, "pad", cut, index, <<old \o Zeros(grown - partial)>>)
                   ELSE DropStray(s, cut)
        done    == ResizeTo(padded, "extend", cut, StoredLen(len))
    IN  IF done.res = "ok" THEN [done EXCEPT !.len = StoredLen(len)] ELSE done

\* The new plaintext of block "index" when data goes to "offset".
Patched(s, index, offset, data) ==
    LET start  == index * Block
        oldLen == Smaller(Larger(Size(s) - start, 0), Block)
        from   == Larger(offset, start) - start
        to     == Smaller(offset + Len(data), start + Block) - start
        old    == Open(s.disk.blocks[index], s.id, oldLen)
    IN  [k \in 1..Larger(oldLen, to) |->
            IF from < k /\ k <= to THEN data[start + k - offset]
            ELSE IF Corrupt(old) THEN Bad ELSE old[k]]

\* write_locked, after make_writable: every block the data touches is sealed
\* again, and all of them are written at once.
WriteLocked(s0, offset, data, cut) ==
    LET s     == EnsureHeader(IF offset > Size(s0) THEN Grow(s0, offset, cut) ELSE s0, cut)
        first == offset \div Block
        last  == (offset + Len(data) - 1) \div Block
        out   == [k \in 1..last - first + 1 |-> Patched(s, first + k - 1, offset, data)]
        done  == WriteBlocks(s, "data", cut, first, out)
    IN  IF s.res # "ok" THEN s
        ELSE IF \E k \in DOMAIN out : Corrupt(out[k]) THEN Fails(s, "corrupt")
        ELSE IF done.res # "ok" THEN done
        ELSE [done EXCEPT !.len =
                Larger(@, Offset(last) + Len(out[Len(out)]) + Overhead)]

\* An empty file has no header, and gets a new id with the next one.
IdKept(id, len)  == id
IdAfter(id, len) == IF len = 0 THEN NoId ELSE id

\* set_len to something shorter: the new last block is sealed again, then
\* the file is cut.
Shrink(s, len, cut) ==
    LET index  == len \div Block
        keep   == len % Block
        old    == Open(s.disk.blocks[index], s.id, Smaller(Size(s) - index * Block, Block))
        sealed == IF keep = 0 THEN s
                  ELSE IF Corrupt(old) THEN Fails(s, "corrupt")
                  ELSE WriteBlocks(s, "reseal", cut, index, <<SubSeq(old, 1, keep)>>)
        done   == ResizeTo(sealed, "cut", cut, StoredLen(len))
    IN  IF done.res # "ok" THEN done
        ELSE [done EXCEPT !.len = StoredLen(len), !.id = IdAfter(@, len)]

-------------------------------------------------------------------------------
(* Calls. *)

\* open / from_file: what memory holds of a stored file.
Opened(d) == [id |-> d.id, len |-> d.len, writable |-> ~readonly]

Start == [disk |-> disk, id |-> mem.id, len |-> mem.len, res |-> "ok"]

\* make_writable: opens the file again if it was read-only when it was opened.
Writable == mem.writable \/ ~readonly

Answers(why) == result' = why /\ UNCHANGED <<disk, mem, readonly>>

\* The end of a call: it answers, or the process ends where it stopped and
\* the file is opened again.
Ends(s, cut) ==
    /\ cut # NoCut => s.res = "failed"
    /\ disk' = s.disk
    /\ result' = s.res
    /\ UNCHANGED readonly
    /\ \/ /\ s.res = "failed" => "error" \in Faults
          /\ mem' = [id |-> s.id, len |-> s.len, writable |-> TRUE]
       \/ /\ s.res = "failed" /\ "crash" \in Faults
          /\ mem' = Opened(s.disk)

TooLargeLate(end) == end > MaxLen + 1
TooLarge(end)      == end > MaxLen

WriteAt(offset, data, cut) ==
    IF TooLarge(offset + Len(data)) THEN cut = NoCut /\ Answers("too_large")
    ELSE IF ~Writable THEN cut = NoCut /\ Answers("denied")
    ELSE Ends(WriteLocked(Start, offset, data, cut), cut)

\* The next two stop half-way like the write they are.
AppendData(data) == WriteAt(Size(Start), data, NoCut)

\* Paging I/O: only the part before the end of the file.
WriteWithin(offset, data) ==
    LET fits == Smaller(Len(data), Size(Start) - offset)
    IN  IF fits <= 0 THEN Answers("ok")
        ELSE WriteAt(offset, SubSeq(data, 1, fits), NoCut)

SetLen(len, cut) ==
    IF TooLarge(len) THEN cut = NoCut /\ Answers("too_large")
    ELSE IF len = Size(Start) THEN cut = NoCut /\ Answers("ok")
    ELSE IF ~Writable THEN cut = NoCut /\ Answers("denied")
    ELSE Ends(IF len > Size(Start) THEN Grow(Start, len, cut) ELSE Shrink(Start, len, cut), cut)

\* The last handle is closed and the file is opened again.
Reopen ==
    /\ mem' = Opened(disk)
    /\ UNCHANGED <<disk, readonly, result>>

\* The attribute is set through the drive.
SetReadOnly(value) ==
    /\ readonly' = value
    /\ UNCHANGED <<disk, mem, result>>

-------------------------------------------------------------------------------
Init ==
    /\ disk = [len |-> 0, id |-> NoId, blocks |-> [i \in 0..Last |-> Hole]]
    /\ mem = [id |-> NoId, len |-> 0, writable |-> TRUE]
    /\ readonly = FALSE
    /\ result = "ok"

Next ==
    \/ \E offset \in 0..MaxLen, data \in Data :
          \/ \E cut \in Cuts(DataCuts \cup GrowCuts) : WriteAt(offset, data, cut)
          \/ WriteWithin(offset, data)
    \/ \E data \in Data : AppendData(data)
    \/ \E len \in 0..MaxLen + 1 :
          \E cut \in Cuts(IF len > Size(mem) THEN GrowCuts ELSE ShrinkCuts) : SetLen(len, cut)
    \/ Reopen
    \/ \E value \in BOOLEAN : SetReadOnly(value)

Spec == Init /\ [][Next]_vars

-------------------------------------------------------------------------------
(* Properties. *)

\* read_at: the byte at i of the file as it can be read now.
Read(i) ==
    LET index == i \div Block
    IN  Open(disk.blocks[index], mem.id,
             Smaller(Size(mem) - index * Block, Block))[(i % Block) + 1]

Contents == [i \in 0..MaxLen - 1 |-> IF i < Size(mem) THEN Read(i) ELSE 0]

\* Type correctness: the stored file's length and blocks, what the open file
\* keeps of them, and the answers the calls of content.rs give.
TypeOK ==
    /\ disk.len \in 0..StoredLen(MaxLen) /\ disk.id \in Ids \cup {NoId}
    /\ disk.blocks \in [0..Last -> StoredBlocks]
    /\ mem.len \in 0..StoredLen(MaxLen) /\ mem.id \in Ids \cup {NoId}
    /\ mem.writable \in BOOLEAN /\ readonly \in BOOLEAN
    /\ result \in {"ok", "denied", "too_large", "corrupt", "failed"}

\* Every call of content.rs does to the encrypted blocks what it would do to
\* plain bytes: reads give what was written last, gaps and growth read as
\* zeros, nothing else changes.  A call that stops half-way harms at most the
\* blocks it was about, also when the process ends there and the file is read
\* again from the disk.
Bytes == INSTANCE ByteFile WITH bytes <- Contents, len <- Size(mem)
ByteSpec == Bytes!Spec

\* "Cuts or grows the file to len bytes. New bytes read as zeros."
\* (content.rs:412, set_len), whatever happened to the file before.
NewBytesZero ==
    [][\A len \in 0..MaxLen :
          SetLen(len, NoCut) /\ result' = "ok"
              => \A i \in Size(mem)..len - 1 : Contents'[i] = 0]_vars

\* While the process lives and no write fails, the length kept in memory is
\* the stored one, and the id kept is the header's: the open file never works
\* with a stale view (State.stored_len and State.id, content.rs:179-185).
MemoryTrue == mem.len = disk.len /\ mem.id = disk.id
===============================================================================
