------------------------------- MODULE ByteFile -------------------------------
(***************************************************************************)
(* What a program on the drive is promised of one file: a row of bytes     *)
(* that can be written, cut and grown, whose gaps read as zeros.  A call   *)
(* that fails harms at most the blocks it was about.                       *)
(***************************************************************************)
EXTENDS Integers, Sequences

CONSTANTS Block,    \* bytes per block: how far the harm of a failure reaches
          Data,     \* what is written at once
          MaxLen    \* the longest file

VARIABLES len,      \* the file's length
          bytes,    \* its bytes; zeros from "len" on
          result    \* how the last call ended

vars == <<len, bytes, result>>

Positions == 0..MaxLen - 1
Smaller(x, y) == IF x < y THEN x ELSE y
Larger(x, y)  == IF x < y THEN y ELSE x

Init ==
    /\ len = 0
    /\ bytes = [i \in Positions |-> 0]
    /\ result = "ok"

Write(offset, data) ==
    /\ offset + Len(data) <= MaxLen
    /\ len' = Larger(len, offset + Len(data))
    /\ LET old == bytes
       IN  bytes' = [i \in Positions |-> IF i - offset + 1 \in DOMAIN data
                                         THEN data[i - offset + 1] ELSE old[i]]
    /\ result' = "ok"

SetLen(new) ==
    /\ len' = new
    /\ LET old == bytes
       IN  bytes' = [i \in Positions |-> IF i < new THEN old[i] ELSE 0]
    /\ result' = "ok"

\* A call that would have changed the bytes from "from" on and led to the
\* length "target" stopped half-way: the blocks from "from" up to "upto" hold
\* anything, every other byte is what it was, and the length is between the
\* old one and the one asked for.
Fail(from, upto, target) ==
    /\ Smaller(len, target) <= len' /\ len' <= Larger(len, target)
    /\ LET old == bytes
           new == bytes'
       IN  \A i \in Positions :
              i < len' /\ i \div Block \notin (from \div Block)..(upto \div Block)
                  => new[i] = old[i]
    /\ result' # "ok"

FailedWrite(offset, data) ==
    LET end == offset + Len(data)
    IN  Fail(Smaller(offset, len), end - 1, Larger(len, end))

FailedSetLen(new) == Fail(Smaller(new, len), Smaller(new, len), new)

Next ==
    \/ \E offset \in 0..MaxLen, data \in Data :
          IF result' = "ok" THEN Write(offset, data) ELSE FailedWrite(offset, data)
    \/ \E new \in 0..MaxLen : IF result' = "ok" THEN SetLen(new) ELSE FailedSetLen(new)

Spec == Init /\ [][Next]_vars
===============================================================================
