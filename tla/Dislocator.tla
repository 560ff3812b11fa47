------------------------------ MODULE Dislocator ------------------------------
(***************************************************************************)
(* libdislocator: malloc, calloc, realloc and free that put every buffer     *)
(* against a page without access, never use memory again and keep to a       *)
(* limit.  total_mem is a variable of each thread.  A mapping is a sequence of *)
(* bytes from 0; a pointer is the offset of the buffer in its mapping.       *)
(***************************************************************************)
EXTENDS Integers, SequencesExt, FiniteSetsExt

CONSTANTS
    Threads,
    SizeWord,           \* 2 ^ bits of size_t
    PageSize,
    MaxMem,             \* max_mem
    Requests,           \* sizes asked for
    MaxBlocks           \* bound: mappings made

Header == 8             \* length and canary, below the buffer

ASSUME DislocatorTyped ==
    /\ IsFiniteSet(Threads)
    /\ PageSize \in Nat /\ PageSize > Header
    /\ SizeWord \in Nat /\ MaxMem \in 1 .. SizeWord - 1
    /\ Requests \subseteq 0 .. SizeWord - 1
    /\ MaxBlocks \in Nat

VARIABLES
    options,            \* hard_fail and no_calloc_over
    totalMem,           \* total_mem of each thread
    blocks,             \* the mappings of the buffers; freed, asked and by are history
    program,            \* "runs", or how it ended: "aborted", "segfault", "unprotected"
                        \* (free could not protect the buffer it had given up)
    crossed,            \* history: a thread has freed what another had allocated
    refusedInVain       \* history: a request was refused that did fit

dislVars == <<options, totalMem, blocks, program, crossed, refusedInVain>>

DislInit ==
    /\ options \in [hardFail : BOOLEAN, noCallocOver : BOOLEAN]
    /\ totalMem = [t \in Threads |-> 0]
    /\ blocks = << >>
    /\ program = "runs" /\ crossed = FALSE /\ refusedInVain = FALSE

-----------------------------------------------------------------------------
PgCount(n) == (n + (PageSize - 1)) \div PageSize
Buffer(len) == PageSize * PgCount(len + Header) - len

Live == {b \in DOMAIN blocks : ~blocks[b].freed}
Lens == [b \in DOMAIN blocks |-> blocks[b].len]
UsageOf(t) == SumFunctionOnSet(Lens, {b \in Live : blocks[b].by = t})

\* fault: the sum may have overflowed
ExceedsUnwrapped(t, len) == (totalMem[t] + len) % SizeWord > MaxMem
Exceeds(t, len) ==
    \/ (totalMem[t] + len) % SizeWord > MaxMem
    \/ (totalMem[t] + len) % SizeWord < totalMem[t]

NewBlock(t, len, asked) ==
    [len |-> len, at |-> Buffer(len), canary |-> TRUE, hidden |-> {PgCount(len + Header)},
     freed |-> FALSE, asked |-> asked, by |-> t]

(* __dislocator_alloc: the new block, NULL, or the end of the program *)
Granted(t, len, asked) ==
    /\ ~Exceeds(t, len)
    /\ Len(blocks) < MaxBlocks
    /\ blocks' = Append(blocks, NewBlock(t, len, asked))
    /\ totalMem' = [totalMem EXCEPT ![t] = (@ + len) % SizeWord]
    /\ UNCHANGED <<options, program, crossed, refusedInVain>>

Refused(t, len) ==
    /\ Exceeds(t, len)
    /\ program' = IF options.hardFail THEN "aborted" ELSE "runs"
    /\ refusedInVain' = (refusedInVain \/ UsageOf(t) + len <= MaxMem)
    /\ UNCHANGED <<options, totalMem, blocks, crossed>>

(* mmap fails *)
OutOfMemory(t, len) ==
    /\ ~Exceeds(t, len)
    /\ program' = IF options.hardFail THEN "aborted" ELSE "runs"
    /\ UNCHANGED <<options, totalMem, blocks, crossed, refusedInVain>>

(* mprotect fails: the mapping has no border, and no buffer of it is given out *)
Unguarded(t, len) ==
    /\ ~Exceeds(t, len)
    /\ program' = "aborted"
    /\ UNCHANGED <<options, totalMem, blocks, crossed, refusedInVain>>

Alloc(t, len, asked) ==
    Granted(t, len, asked) \/ Refused(t, len) \/ OutOfMemory(t, len) \/ Unguarded(t, len)

Malloc(t) ==
    /\ program = "runs"
    /\ \E len \in Requests : Alloc(t, len, len)

Overflows(elemLen, elemCnt) == elemCnt > 0 /\ (((elemLen * elemCnt) % SizeWord) \div elemCnt) # elemLen

Calloc(t) ==
    /\ program = "runs"
    /\ \E elemLen, elemCnt \in Requests :
        \/ /\ Overflows(elemLen, elemCnt)
           /\ program' = IF options.noCallocOver THEN "runs" ELSE "aborted"
           /\ UNCHANGED <<options, totalMem, blocks, crossed, refusedInVain>>
        \/ /\ ~Overflows(elemLen, elemCnt)
           /\ Alloc(t, (elemLen * elemCnt) % SizeWord, elemLen * elemCnt)

-----------------------------------------------------------------------------
PageOf(offset) == offset \div PageSize
Readable(b) == PageOf(blocks[b].at - 4) \notin blocks[b].hidden

\* fault: the room of the header is forgotten
RegionOfBuffer(len) == PgCount(len)
RegionOf(len) == PgCount(len + Header)

(* where free begins to protect *)
RegionStart(b) == blocks[b].at - (PageSize * PgCount(blocks[b].len + Header) - blocks[b].len - Header) - Header

(* what free(ptr) makes of the block *)
Protected(b) ==
    [blocks[b] EXCEPT !.hidden = @ \cup {PageOf(RegionStart(b)) + k : k \in 0 .. RegionOf(blocks[b].len) - 1},
                      !.freed = TRUE]

(* free(ptr) and realloc(ptr, ...) of a block that has been freed: the canary   *)
(* cannot be read.  realloc has allocated before it looks.                    *)
UseFreed(b) ==
    /\ program = "runs"
    /\ ~Readable(b)
    /\ program' = "segfault"
    /\ UNCHANGED <<options, totalMem, blocks, crossed, refusedInVain>>

FindCorrupted(b) ==
    /\ program = "runs"
    /\ Readable(b) /\ ~blocks[b].canary
    /\ program' = "aborted"
    /\ UNCHANGED <<options, totalMem, blocks, crossed, refusedInVain>>

(* free(NULL) returns at once, without a step. *)
Free(t, b) ==
    /\ program = "runs"
    /\ Readable(b) /\ blocks[b].canary
    /\ blocks' = [blocks EXCEPT ![b] = Protected(b)]
    /\ totalMem' = [totalMem EXCEPT ![t] = (@ - blocks[b].len) % SizeWord]
    /\ crossed' = (crossed \/ blocks[b].by # t)
    /\ UNCHANGED <<options, program, refusedInVain>>

(* mprotect fails, after total_mem was lowered *)
FreeFails(t, b) ==
    /\ program = "runs"
    /\ Readable(b) /\ blocks[b].canary
    /\ totalMem' = [totalMem EXCEPT ![t] = (@ - blocks[b].len) % SizeWord]
    /\ crossed' = (crossed \/ blocks[b].by # t)
    /\ program' = "unprotected"
    /\ UNCHANGED <<options, blocks, refusedInVain>>

(* A new buffer, then free of the old one.  Without a buffer the old one stays: *)
(* a realloc that is refused is a refused malloc, and realloc(NULL, len) is      *)
(* malloc(len).                                                             *)
Realloc(t, b) ==
    /\ program = "runs"
    /\ Readable(b) /\ blocks[b].canary
    /\ Len(blocks) < MaxBlocks
    /\ \E len \in Requests :
        /\ ~Exceeds(t, len)
        /\ blocks' = Append([blocks EXCEPT ![b] = Protected(b)], NewBlock(t, len, len))
        /\ totalMem' = [totalMem EXCEPT ![t] = (((@ + len) % SizeWord) - blocks[b].len) % SizeWord]
    /\ crossed' = (crossed \/ blocks[b].by # t)
    /\ UNCHANGED <<options, program, refusedInVain>>

ReallocFails(t, b) ==
    /\ program = "runs"
    /\ Readable(b) /\ blocks[b].canary
    /\ Len(blocks) < MaxBlocks
    /\ \E len \in Requests :
        /\ ~Exceeds(t, len)
        /\ blocks' = Append(blocks, NewBlock(t, len, len))
        /\ totalMem' = [totalMem EXCEPT ![t] = (((@ + len) % SizeWord) - blocks[b].len) % SizeWord]
    /\ crossed' = (crossed \/ blocks[b].by # t)
    /\ program' = "unprotected"
    /\ UNCHANGED <<options, refusedInVain>>

(* The program writes below one of its buffers. *)
Corrupt(b) ==
    /\ program = "runs"
    /\ Readable(b) /\ blocks[b].canary
    /\ blocks' = [blocks EXCEPT ![b].canary = FALSE]
    /\ UNCHANGED <<options, totalMem, program, crossed, refusedInVain>>

DislNext ==
    \/ \E t \in Threads : Malloc(t) \/ Calloc(t)
    \/ \E t \in Threads, b \in DOMAIN blocks :
        Free(t, b) \/ FreeFails(t, b) \/ Realloc(t, b) \/ ReallocFails(t, b)
    \/ \E b \in DOMAIN blocks : UseFreed(b) \/ FindCorrupted(b) \/ Corrupt(b)

DislSpec == DislInit /\ [][DislNext]_dislVars

-----------------------------------------------------------------------------
(* Properties. *)

(* BordersGuarded: a buffer has the size that was asked for, in full; it ends    *)
(* where a page without access begins, and its pages and its header can be     *)
(* used until it is freed; from then on no byte of the mapping can.           *)
BordersGuarded ==
    \A b \in DOMAIN blocks :
        LET pages == PgCount(blocks[b].len + Header) IN
        /\ blocks[b].len = blocks[b].asked
        /\ blocks[b].at >= Header /\ blocks[b].at + blocks[b].len = pages * PageSize
        /\ blocks[b].hidden = IF blocks[b].freed THEN 0 .. pages ELSE {pages}

(* LimitKept: the counters of the threads add up to the memory in use, up to     *)
(* whole words; as long as threads free only what is their own, each counter   *)
(* is exact, no thread uses more than the limit, and none is refused what is    *)
(* still free.  A thread that frees for another loses this: its counter goes    *)
(* below zero, and it is refused everything.  A free that cannot protect its    *)
(* buffer has lowered the counter all the same, and ends the program.           *)
LimitKept == program # "unprotected" =>
    /\ SumFunctionOnSet(totalMem, Threads) % SizeWord = SumFunctionOnSet(Lens, Live) % SizeWord
    /\ ~crossed =>
        /\ \A t \in Threads : totalMem[t] = UsageOf(t) /\ UsageOf(t) <= MaxMem
        /\ ~refusedInVain
=============================================================================
