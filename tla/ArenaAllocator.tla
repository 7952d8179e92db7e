--------------------------- MODULE ArenaAllocator ---------------------------
(***************************************************************************)
(* The chunked bump allocator every part of the compiler allocates from    *)
(* (src/include/memory.hpp, class ArenaAllocator).                         *)
(*                                                                         *)
(* An arena owns a list of chunks obtained from the OS.  A request is      *)
(* served from the newest chunk (the list's head), after padding its       *)
(* offset to the requested alignment; when it does not fit there a new     *)
(* chunk is pushed and the old head is never looked at again.  Two limits  *)
(* are enforced on the number of bytes handed out: exceeding total_cap     *)
(* makes the request return NULL, exceeding hard_limit_ aborts the         *)
(* process.  All memory is released at once by reset().                    *)
(*                                                                         *)
(* chunks[Len(chunks)] is the head; a chunk's index is its identity until  *)
(* the next reset.  live is a history variable: the blocks handed out      *)
(* since the last reset, each with its place inside its chunk.  Numbers    *)
(* are bytes (or any larger unit: a configuration may scale them), and     *)
(* every size_t sum wraps at WordSize.                                     *)
(***************************************************************************)
EXTENDS Integers, Sequences

CONSTANTS
    WordSize,       \* number of size_t values
    ChunkHeader,    \* sizeof(Chunk)
    ChunkSlack,     \* the slack added to small chunks (32 bytes)
    DefaultChunk,   \* default chunk size (256 KB)
    TotalCap,       \* capacity_cap, the constructor's argument
    HardLimit,      \* initial hard_limit_ (16 MB)
    Limits,         \* arguments of setHardLimit
    Sizes,          \* request sizes
    Aligns,         \* request alignments (powers of two)
    MaxRequest,     \* the largest size or alignment a caller asks for
    MaxChunks       \* bound: chunks obtained between two resets

ASSUME ArenaConstants ==
    /\ WordSize \in Nat \ {0}
    /\ ChunkHeader \in Nat \ {0}
    /\ ChunkSlack \in Nat
    /\ DefaultChunk \in Nat
    /\ TotalCap \in Nat
    /\ HardLimit \in Nat
    /\ Limits \subseteq Nat
    /\ MaxRequest \in Nat
    /\ Sizes \subseteq 0..MaxRequest
    /\ Aligns \subseteq 1..MaxRequest
    /\ MaxChunks \in Nat

VARIABLES
    chunks,                     \* sequence of [capacity, offset], head last
    total_allocated_from_os,
    total_used_for_stats,
    peak_allocated_,
    hard_limit_,
    live,                       \* history: blocks handed out since reset
    last,                       \* history: the last request and its outcome
    status                      \* "running", or "aborted" by plat_abort

vars == <<chunks, total_allocated_from_os, total_used_for_stats,
          peak_allocated_, hard_limit_, live, last, status>>

-----------------------------------------------------------------------------
(* size_t arithmetic: one addition wraps at most once. *)
Add(a, b) == IF a + b < WordSize THEN a + b ELSE a + b - WordSize

Sub(a, b) == IF a >= b THEN a - b ELSE a - b + WordSize

(* (n + mask) & ~mask with mask = align - 1, align a power of two. *)
AlignUp(n, align) == LET m == Add(n, align - 1) IN m - (m % align)

Chunk  == [capacity : Nat, offset : Nat]
Block  == [chunk : Nat, start : Nat, size : Nat]
NoRequest == [size |-> 0, align |-> 1, result |-> "none"]
Results   == {"none", "block", "null", "oom"}
Request   == [size : Nat, align : Nat, result : Results]

HeadChunk == chunks[Len(chunks)]

-----------------------------------------------------------------------------
(* try_alloc_in_chunk: whether the request fits in chunk c. *)
Padding(c, align) == Sub(AlignUp(c.offset, align), c.offset)

(* Mutants: the alignment padding forgotten in the chunk's bound; the cap  *)
(* checked only at the top of alloc_aligned, before padding is known.      *)
FitsIgnoringPadding(c, size, align) ==
    /\ Add(Add(total_used_for_stats, Padding(c, align)), size) <= TotalCap
    /\ Add(c.offset, size) <= c.capacity

FitsIgnoringCap(c, size, align) ==
    Add(AlignUp(c.offset, align), size) <= c.capacity

FitsInChunk(c, size, align) ==
    /\ Add(Add(total_used_for_stats, Padding(c, align)), size) <= TotalCap
    /\ Add(AlignUp(c.offset, align), size) <= c.capacity

(* try_alloc_in_chunk on success: cs is the chunk list it works on.        *)
(* The peak is updated, and checked against the hard limit, only after the *)
(* bytes have been taken.                                                  *)
TakeFrom(cs, size, align) ==
    LET i     == Len(cs)
        start == AlignUp(cs[i].offset, align)
        used  == Add(total_used_for_stats, Add(Padding(cs[i], align), size))
        peak  == IF used > peak_allocated_ THEN used ELSE peak_allocated_
    IN  /\ chunks' = [cs EXCEPT ![i].offset = Add(start, size)]
        /\ total_used_for_stats' = used
        /\ peak_allocated_' = peak
        /\ IF peak > hard_limit_
             THEN status' = "aborted" /\ UNCHANGED <<live, last>>
             ELSE /\ live' = live \cup
                       {[chunk |-> i, start |-> start, size |-> size]}
                  /\ last' = [size |-> size, align |-> align,
                              result |-> "block"]
                  /\ UNCHANGED status

(* Mutant: a new chunk made just for the request, without room to align it. *)
NewChunkSizeExact(size, align) == Add(size, ChunkHeader)

(* The size of a new chunk for this request. *)
NewChunkSize(size, align) ==
    LET base == IF DefaultChunk > TotalCap /\ TotalCap > 0
                  THEN Add(TotalCap, Add(ChunkHeader, ChunkSlack))
                  ELSE DefaultChunk
        need == Add(Add(size, align), ChunkHeader)
    IN  IF base < need THEN need ELSE base

(* The request passes the two limit checks at the top of alloc_aligned. *)
WithinLimits(size) ==
    /\ Add(total_used_for_stats, size) <= TotalCap
    /\ Add(total_used_for_stats, size) <= hard_limit_

Fails(size, align, why) ==
    /\ last' = [size |-> size, align |-> align, result |-> why]
    /\ UNCHANGED <<total_used_for_stats, peak_allocated_, live, status>>

-----------------------------------------------------------------------------
(* alloc_aligned(size, align), one action per way through it. *)

(* size == 0, or the request would exceed total_cap: NULL. *)
AllocRejected(size, align) ==
    /\ \/ size = 0
       \/ /\ Add(total_used_for_stats, size) > TotalCap
          /\ Add(total_used_for_stats, size) <= hard_limit_
    /\ Fails(size, align, "null")
    /\ UNCHANGED <<chunks, total_allocated_from_os, hard_limit_>>

(* The request would exceed the hard limit: the process aborts. *)
AllocAborts(size, align) ==
    /\ size # 0
    /\ Add(total_used_for_stats, size) > hard_limit_
    /\ status' = "aborted"
    /\ UNCHANGED <<chunks, total_allocated_from_os, total_used_for_stats,
                   peak_allocated_, hard_limit_, live, last>>

HeadFits(size, align) ==
    chunks # <<>> /\ FitsInChunk(HeadChunk, size, align)

(* The head chunk has room. *)
AllocInHead(size, align) ==
    /\ size # 0 /\ WithinLimits(size)
    /\ HeadFits(size, align)
    /\ TakeFrom(chunks, size, align)
    /\ UNCHANGED <<total_allocated_from_os, hard_limit_>>

(* Mutant: the new chunk replaces the list instead of being linked to it. *)
AllocNewChunkUnlinked(size, align) ==
    LET cap == NewChunkSize(size, align)
        new == [capacity |-> cap, offset |-> ChunkHeader]
    IN  /\ size # 0 /\ WithinLimits(size)
        /\ ~HeadFits(size, align)
        /\ total_allocated_from_os' = Add(total_allocated_from_os, cap)
        /\ UNCHANGED hard_limit_
        /\ FitsInChunk(new, size, align)
        /\ TakeFrom(<<new>>, size, align)

(* A new chunk is pushed and the request retried in it.  When the padding  *)
(* makes it exceed total_cap the request fails, and the chunk stays.  The  *)
(* chunks an arena holds lie apart in memory: there is no chunk to be had  *)
(* that makes them larger than the address space.                          *)
AllocNewChunk(size, align) ==
    LET cap == NewChunkSize(size, align)
        new == [capacity |-> cap, offset |-> ChunkHeader]
        cs  == Append(chunks, new)
    IN  /\ size # 0 /\ WithinLimits(size)
        /\ ~HeadFits(size, align)
        /\ Len(chunks) < MaxChunks
        /\ total_allocated_from_os + cap < WordSize
        /\ total_allocated_from_os' = Add(total_allocated_from_os, cap)
        /\ UNCHANGED hard_limit_
        /\ IF FitsInChunk(new, size, align)
             THEN TakeFrom(cs, size, align)
             ELSE chunks' = cs /\ Fails(size, align, "null")

(* A new chunk is needed and plat_alloc returns NULL. *)
AllocOsFails(size, align) ==
    /\ size # 0 /\ WithinLimits(size)
    /\ ~HeadFits(size, align)
    /\ Fails(size, align, "oom")
    /\ UNCHANGED <<chunks, total_allocated_from_os, hard_limit_>>

alloc_aligned(size, align) ==
    /\ status = "running"
    /\ \/ AllocRejected(size, align)
       \/ AllocAborts(size, align)
       \/ AllocInHead(size, align)
       \/ AllocNewChunk(size, align)
       \/ AllocOsFails(size, align)

(* Mutants: the chunks are freed but the use is not reset; the bytes given *)
(* back to the OS are subtracted from the use.                             *)
ResetKeepsUse ==
    /\ status = "running"
    /\ chunks' = <<>> /\ total_allocated_from_os' = 0
    /\ live' = {} /\ last' = NoRequest
    /\ UNCHANGED <<total_used_for_stats, peak_allocated_, hard_limit_, status>>

ResetSubtracts ==
    /\ status = "running"
    /\ chunks' = <<>> /\ total_allocated_from_os' = 0
    /\ total_used_for_stats' = total_used_for_stats - total_allocated_from_os
    /\ live' = {} /\ last' = NoRequest
    /\ UNCHANGED <<peak_allocated_, hard_limit_, status>>

(* reset() and freeAllChunks(): every chunk goes back to the OS; the peak  *)
(* is kept.                                                                *)
reset ==
    /\ status = "running"
    /\ chunks' = <<>>
    /\ total_allocated_from_os' = 0
    /\ total_used_for_stats' = 0
    /\ live' = {}
    /\ last' = NoRequest
    /\ UNCHANGED <<peak_allocated_, hard_limit_, status>>

resetPeak ==
    /\ status = "running"
    /\ peak_allocated_' = 0
    /\ UNCHANGED <<chunks, total_allocated_from_os, total_used_for_stats,
                   hard_limit_, live, last, status>>

setHardLimit(limit) ==
    /\ status = "running"
    /\ hard_limit_' = limit
    /\ UNCHANGED <<chunks, total_allocated_from_os, total_used_for_stats,
                   peak_allocated_, live, last, status>>

Init ==
    /\ chunks = <<>>
    /\ total_allocated_from_os = 0
    /\ total_used_for_stats = 0
    /\ peak_allocated_ = 0
    /\ hard_limit_ = HardLimit
    /\ live = {}
    /\ last = NoRequest
    /\ status = "running"

Next ==
    \/ \E size \in Sizes, align \in Aligns : alloc_aligned(size, align)
    \/ reset
    \/ resetPeak
    \/ \E limit \in Limits : setHardLimit(limit)

Spec == Init /\ [][Next]_vars

-----------------------------------------------------------------------------
(* No size_t sum of the allocator can wrap for requests of this size. *)
MaxCapacity == DefaultChunk + TotalCap + ChunkHeader + ChunkSlack
                 + 2 * MaxRequest
RequestsFit == MaxCapacity + 2 * MaxRequest < WordSize

(* The type invariant. *)
TypeOK ==
    /\ chunks \in Seq(Chunk)
    /\ total_allocated_from_os \in Nat
    /\ total_used_for_stats \in Nat
    /\ peak_allocated_ \in Nat
    /\ hard_limit_ \in Nat
    /\ live \subseteq Block
    /\ last \in Request
    /\ status \in {"running", "aborted"}

(* Memory safety of the blocks the allocator has handed out: each lies     *)
(* behind the header and inside the used part of its chunk, which lies     *)
(* inside the chunk, and no two overlap (try_alloc_in_chunk's offsets).    *)
LiveBlocksSeparate ==
    /\ \A i \in 1..Len(chunks) :
           /\ ChunkHeader <= chunks[i].offset
           /\ chunks[i].offset <= chunks[i].capacity
    /\ \A b \in live :
           /\ b.chunk \in 1..Len(chunks)
           /\ b.size > 0
           /\ ChunkHeader <= b.start
           /\ b.start + b.size <= chunks[b.chunk].offset
    /\ \A b, c \in live :
           b # c /\ b.chunk = c.chunk =>
               \/ b.start + b.size <= c.start
               \/ c.start + c.size <= b.start

(* The counters agree with the chunk list they summarise, across pushes,   *)
(* abandoned heads, failed requests and resets: total_used_for_stats is    *)
(* what the offsets say, total_allocated_from_os what the capacities say.  *)
Total(v) ==
    LET Upto[n \in 0..Len(v)] == IF n = 0 THEN 0 ELSE Upto[n - 1] + v[n]
    IN  Upto[Len(v)]
Capacities(cs) == [i \in 1..Len(cs) |-> cs[i].capacity]
Taken(cs)      == [i \in 1..Len(cs) |-> cs[i].offset - ChunkHeader]

AccountingExact ==
    /\ total_allocated_from_os = Total(Capacities(chunks))
    /\ total_used_for_stats = Total(Taken(chunks))

(* alloc_aligned answers NULL (without the OS having refused a chunk) only *)
(* when the arena really cannot take the request: a request that fits the  *)
(* cap with its worst-case padding is served, whatever the head chunk and  *)
(* the boundary between two chunks look like.                              *)
NoSpuriousFailure ==
    last.result = "null" /\ last.size > 0 =>
        total_used_for_stats + last.size + last.align - 1 > TotalCap

(* No block is ever handed out beyond the limits: when alloc_aligned       *)
(* returns memory, the recorded peak covers the use, padding included, and *)
(* is within the hard limit, and the use is within the capacity cap.       *)
GrantsRespectLimits ==
    [][ ~(live' \subseteq live) =>
          /\ total_used_for_stats' <= TotalCap
          /\ total_used_for_stats' <= peak_allocated_'
          /\ peak_allocated_' <= hard_limit_' ]_vars

(* Memory handed out stays put until a reset: no other operation moves,    *)
(* shrinks or forgets a live block or takes back the bytes it lies in.     *)
BlocksStable ==
    [][ live' # {} =>
          /\ live \subseteq live'
          /\ \A i \in 1..Len(chunks) :
                 /\ i <= Len(chunks')
                 /\ chunks'[i].capacity = chunks[i].capacity
                 /\ chunks'[i].offset >= chunks[i].offset ]_vars
=============================================================================
