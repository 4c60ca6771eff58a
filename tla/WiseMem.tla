--------------------------------- MODULE WiseMem ---------------------------------
(***************************************************************************)
(* The arena of src/wisememory.c, from which every message is built: one   *)
(* buffer, blocks handed out in ascending order with an int in front that  *)
(* holds their length, all given back at once by WiseMem_Release.  When    *)
(* the buffer is too small it is realloc'ed, which may move it: pointers   *)
(* handed out before are dangling, and the new bytes are not zero.         *)
(*                                                                         *)
(* Offsets count from the start of the buffer.  The callers hold the API   *)
(* mutex, so calls do not interleave.                                      *)
(***************************************************************************)
EXTENDS Integers

CONSTANTS MaxBuffer,   \* MAX_BUFFER_SIZE, the length WiseSnail_Init asks for
          MaxAlloc,    \* MAX_ALLOC_SIZE
          Growth,      \* what realloc adds at a time
          Header       \* sizeof(int)

ASSUME SizesAssumption ==
    /\ MaxBuffer \in Nat /\ MaxAlloc \in Nat
    /\ Growth \in Nat \ {0} /\ Header \in Nat \ {0}

VARIABLES
    size, current, remain,
    blocks,      \* the blocks handed out since the last Release
    moves,       \* ghost: how often the buffer was realloc'ed
    written,     \* ghost: bytes below this offset may have been written
    garbage      \* ghost: bytes from this offset on came from realloc

arena == <<size, current, remain, blocks, moves, written, garbage>>

Init ==
    /\ size = MaxBuffer /\ current = 0 /\ remain = MaxBuffer
    /\ blocks = {} /\ moves = 0
    /\ written = 0 /\ garbage = MaxBuffer

Length(len) == IF len > MaxAlloc THEN MaxAlloc ELSE len

\* The loop that grows the buffer until `need` bytes remain.
Grown(need) == IF need <= remain THEN 0
               ELSE Growth * (((need - remain) + Growth - 1) \div Growth)

Block(len) ==
    [at |-> current + Header, len |-> Length(len),
     moves |-> IF Grown(Length(len) + Header) > 0 THEN moves + 1 ELSE moves,
     zeroed |-> current >= written /\ current + Length(len) + Header <= garbage]

AllocNoHeader(len) ==                         \* faulty: the length not reserved
    LET more == Grown(Length(len) + Header) IN
    /\ size' = size + more
    /\ current' = current + Length(len)
    /\ remain' = remain + more - Length(len)
    /\ blocks' = blocks \cup {Block(len)}
    /\ moves' = Block(len).moves
    /\ written' = current'
    /\ UNCHANGED garbage

Alloc(len) ==
    LET need == Length(len) + Header
        more == Grown(need)
    IN
    /\ size' = size + more
    /\ current' = current + need
    /\ remain' = remain + more - need
    /\ blocks' = blocks \cup {Block(len)}
    /\ moves' = Block(len).moves
    /\ written' = IF current' > written THEN current' ELSE written
    /\ UNCHANGED garbage

ReleaseForgetful ==                           \* faulty: memset after current = 0
    /\ current' = 0
    /\ remain' = size
    /\ blocks' = {}
    /\ UNCHANGED <<size, moves, written, garbage>>

ReleaseRemain ==                              \* faulty: remain not given back
    /\ current' = 0
    /\ blocks' = {}
    /\ written' = 0
    /\ UNCHANGED <<size, remain, moves, garbage>>

Release ==
    /\ current' = 0
    /\ remain' = size
    /\ blocks' = {}
    /\ written' = 0
    /\ garbage' = IF garbage < current THEN current ELSE garbage
    /\ UNCHANGED <<size, moves>>

\* WiseMem_Destory, and WiseMem_Init of the next WiseSnail_Init.
Reinit ==
    /\ size' = MaxBuffer /\ current' = 0 /\ remain' = MaxBuffer
    /\ blocks' = {} /\ moves' = 0
    /\ written' = 0 /\ garbage' = MaxBuffer

Next == Release \/ Reinit \/ \E len \in Nat : Alloc(len)
Spec == Init /\ [][Next]_arena
--------------------------------------------------------------------------------
BlockType == [at : Nat, len : Nat, moves : Nat, zeroed : BOOLEAN]

\* Every variable keeps its type, and no byte of the buffer is unaccounted for.
TypeOK ==
    /\ size \in Nat /\ current \in Nat /\ remain \in Nat
    /\ current + remain = size
    /\ blocks \subseteq BlockType
    /\ moves \in Nat /\ written \in Nat /\ garbage \in Nat

\* The blocks handed out lie in the buffer, and neither their bytes nor the
\* length in front of one overlaps another, whatever sizes are asked for.
BlocksApart ==
    /\ \A b \in blocks : Header <= b.at /\ b.at + b.len <= size
    /\ \A b, c \in blocks :
          b # c => b.at + b.len <= c.at - Header \/ c.at + c.len <= b.at - Header
================================================================================
