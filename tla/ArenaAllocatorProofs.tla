------------------------ MODULE ArenaAllocatorProofs ------------------------
(***************************************************************************)
(* The safety properties of ArenaAllocator for every chunk size, cap,      *)
(* limit and set of requests, provided the requests are small enough that  *)
(* no size_t sum wraps (RequestsFit).                                      *)
(***************************************************************************)
EXTENDS ArenaAllocator, FiniteSetTheorems, TLAPS

(* The bounds on offsets, capacities and use that keep every sum below     *)
(* WordSize.                                                               *)
Bounded ==
    /\ total_used_for_stats <= TotalCap
    /\ \A i \in 1..Len(chunks) : chunks[i].capacity <= MaxCapacity

(* LiveBlocksSeparate and the capacity bound, of any chunk list the live   *)
(* blocks are placed in.                                                   *)
ChunksSound(cs) ==
    \A i \in 1..Len(cs) : /\ ChunkHeader <= cs[i].offset
                          /\ cs[i].offset <= cs[i].capacity
                          /\ cs[i].capacity <= MaxCapacity

BlocksInside(cs) ==
    \A b \in live : /\ b.chunk \in 1..Len(cs)
                    /\ b.size > 0
                    /\ ChunkHeader <= b.start
                    /\ b.start + b.size <= cs[b.chunk].offset

BlocksDisjoint ==
    \A b, c \in live : b # c /\ b.chunk = c.chunk =>
                         \/ b.start + b.size <= c.start
                         \/ c.start + c.size <= b.start

IInv == TypeOK /\ LiveBlocksSeparate /\ Bounded /\ NoSpuriousFailure

-----------------------------------------------------------------------------
(* Below WordSize, size_t addition is addition. *)
LEMMA AddExact ==
    ASSUME NEW a \in Nat, NEW b \in Nat, a + b < WordSize
    PROVE  Add(a, b) = a + b
  BY DEF Add

(* A size_t sum is a size_t. *)
LEMMA AddNat ==
    ASSUME NEW a \in Nat, NEW b \in Nat
    PROVE  Add(a, b) \in Nat
  BY ArenaConstants DEF Add

(* Aligning moves an offset up by less than the alignment. *)
LEMMA AlignUpBounds ==
    ASSUME NEW n \in Nat, NEW align \in Nat \ {0}, n + align < WordSize
    PROVE  /\ AlignUp(n, align) \in Nat
           /\ n <= AlignUp(n, align)
           /\ AlignUp(n, align) <= n + align - 1
<1> DEFINE m == n + (align - 1)
<1>1. m \in Nat /\ Add(n, align - 1) = m
  BY ArenaConstants DEF Add
<1>2. (m % align) \in 0..(align - 1)
  BY <1>1
<1>3. AlignUp(n, align) = m - (m % align)
  BY <1>1 DEF AlignUp
<1> QED
  BY <1>1, <1>2, <1>3

(* A new chunk is large enough for its header, the request and the padding *)
(* in front of it, and no larger than the allocator's largest chunk.       *)
LEMMA NewChunkLargeEnough ==
    ASSUME RequestsFit, NEW size \in Sizes, NEW align \in Aligns
    PROVE  /\ NewChunkSize(size, align) \in Nat
           /\ size + align + ChunkHeader <= NewChunkSize(size, align)
           /\ NewChunkSize(size, align) <= MaxCapacity
<1>1. /\ size \in Nat /\ size <= MaxRequest
      /\ align \in Nat /\ align <= MaxRequest
  BY ArenaConstants
<1>2. Add(Add(size, align), ChunkHeader) = size + align + ChunkHeader
  BY <1>1, ArenaConstants DEF Add, RequestsFit, MaxCapacity
<1>3. Add(TotalCap, Add(ChunkHeader, ChunkSlack))
        = TotalCap + ChunkHeader + ChunkSlack
  BY <1>1, ArenaConstants DEF Add, RequestsFit, MaxCapacity
<1> QED
  BY <1>1, <1>2, <1>3, ArenaConstants DEF NewChunkSize, MaxCapacity

(* What try_alloc_in_chunk computes for a chunk within the bounds. *)
LEMMA ChunkArithmetic ==
    ASSUME RequestsFit, NEW size \in Sizes, NEW align \in Aligns,
           NEW c \in Chunk, c.offset <= c.capacity, c.capacity <= MaxCapacity,
           total_used_for_stats \in Nat, total_used_for_stats <= TotalCap
    PROVE  LET start == AlignUp(c.offset, align)
               pad   == Padding(c, align)
           IN  /\ start \in Nat
               /\ c.offset <= start
               /\ start <= c.offset + align - 1
               /\ pad = start - c.offset
               /\ Add(start, size) = start + size
               /\ Add(Add(total_used_for_stats, pad), size)
                    = total_used_for_stats + pad + size
               /\ Add(total_used_for_stats, Add(pad, size))
                    = total_used_for_stats + pad + size
<1> DEFINE start == AlignUp(c.offset, align)
           pad   == Padding(c, align)
<1>1. /\ size \in Nat /\ size <= MaxRequest
      /\ align \in Nat \ {0} /\ align <= MaxRequest
      /\ c.offset \in Nat /\ c.capacity \in Nat
  BY ArenaConstants DEF Chunk
<1>2. c.offset + align < WordSize
  BY <1>1, ArenaConstants DEF RequestsFit, MaxCapacity
<1>3. start \in Nat /\ c.offset <= start /\ start <= c.offset + align - 1
  BY <1>1, <1>2, AlignUpBounds
<1>4. pad = start - c.offset /\ pad \in Nat /\ pad <= align - 1
  BY <1>1, <1>3 DEF Padding, Sub
<1>5. Add(start, size) = start + size
  <2>1. start + size < WordSize
    BY <1>1, <1>3, ArenaConstants DEF RequestsFit, MaxCapacity
  <2> QED
    BY <1>1, <1>3, <2>1, AddExact
<1>6. total_used_for_stats + pad + size < WordSize
  BY <1>1, <1>4, ArenaConstants DEF RequestsFit, MaxCapacity
<1>7. /\ Add(total_used_for_stats, pad) = total_used_for_stats + pad
      /\ Add(pad, size) = pad + size
  <2>1. total_used_for_stats + pad < WordSize /\ pad + size < WordSize
    BY <1>1, <1>4, <1>6, ArenaConstants
  <2> QED
    BY <1>1, <1>4, <2>1, AddExact
<1>8. /\ Add(total_used_for_stats + pad, size)
           = total_used_for_stats + pad + size
      /\ Add(total_used_for_stats, pad + size)
           = total_used_for_stats + pad + size
  BY <1>1, <1>4, <1>6, ArenaConstants DEF Add
<1> QED
  BY <1>3, <1>4, <1>5, <1>7, <1>8

-----------------------------------------------------------------------------
(* A request that is too much stays so when more is in use.                *)
LEMMA StillTooMuch ==
    ASSUME NEW t \in Nat, NEW u \in Nat, t <= u, NEW size \in Nat, NEW align \in Nat,
           NEW cap \in Nat, t + size + align - 1 > cap
    PROVE  u + size + align - 1 > cap
OBVIOUS

(* try_alloc_in_chunk on success preserves the invariant, whichever chunk  *)
(* list cs it works on: the arena's own, or that list with a new head.     *)
LEMMA TakeFromPreserves ==
    ASSUME RequestsFit, TypeOK, Bounded, NoSpuriousFailure,
           NEW size \in Sizes, NEW align \in Aligns, size # 0,
           NEW cs \in Seq(Chunk), Len(cs) # 0,
           ChunksSound(cs), BlocksInside(cs), BlocksDisjoint,
           FitsInChunk(cs[Len(cs)], size, align),
           TakeFrom(cs, size, align),
           total_allocated_from_os' \in Nat, UNCHANGED hard_limit_
    PROVE  IInv'
<1> DEFINE n     == Len(cs)
           start == AlignUp(cs[n].offset, align)
           pad   == Padding(cs[n], align)
           used  == Add(total_used_for_stats, Add(pad, size))
           new   == [chunk |-> n, start |-> start, size |-> size]
<1>1. /\ size \in Nat \ {0} /\ align \in Nat \ {0}
      /\ n \in Nat \ {0} /\ cs[n] \in Chunk
      /\ cs[n].offset \in Nat /\ cs[n].capacity \in Nat
  <2>1. size \in Nat \ {0} /\ align \in Nat \ {0}
    BY ArenaConstants
  <2>2. n \in Nat \ {0} /\ cs[n] \in Chunk
    OBVIOUS
  <2> QED
    BY <2>1, <2>2 DEF Chunk
<1>2. /\ start \in Nat /\ cs[n].offset <= start
      /\ pad = start - cs[n].offset /\ pad \in Nat
      /\ Add(start, size) = start + size
      /\ used = total_used_for_stats + pad + size
      /\ Add(Add(total_used_for_stats, pad), size)
           = total_used_for_stats + pad + size
  <2>1. total_used_for_stats \in Nat /\ total_used_for_stats <= TotalCap
    BY DEF TypeOK, Bounded
  <2>2. cs[n].offset <= cs[n].capacity /\ cs[n].capacity <= MaxCapacity
    BY <1>1 DEF ChunksSound
  <2> HIDE DEF n
  <2>3. /\ start \in Nat /\ cs[n].offset <= start
        /\ pad = start - cs[n].offset
        /\ Add(start, size) = start + size
        /\ used = total_used_for_stats + pad + size
        /\ Add(Add(total_used_for_stats, pad), size)
             = total_used_for_stats + pad + size
    BY <1>1, <2>1, <2>2, ChunkArithmetic, Zenon
  <2> DEFINE offset == cs[n].offset
  <2>4. start \in Nat /\ offset \in Nat /\ offset <= start /\ pad = start - offset
    BY <1>1, <2>3
  <2> HIDE DEF start, pad, used, offset
  <2>5. pad \in Nat
    BY <2>4
  <2> QED
    BY <2>3, <2>5
<1>3. start + size <= cs[n].capacity /\ used <= TotalCap /\ used \in Nat
  <2>1. /\ Add(Add(total_used_for_stats, pad), size) <= TotalCap
        /\ Add(start, size) <= cs[n].capacity
    BY DEF FitsInChunk
  <2>2. total_used_for_stats \in Nat
    BY DEF TypeOK
  <2> HIDE DEF n, start, pad, used
  <2> QED
    <3>1. start + size <= cs[n].capacity
      BY <1>2, <2>1
    <3>2. used <= TotalCap
      BY <1>2, <2>1
    <3>3. used \in Nat
      <4>1. pad \in Nat /\ size \in Nat
        BY <1>1, <1>2
      <4>2. used = total_used_for_stats + pad + size
        BY <1>2
      <4> QED
        BY <2>2, <4>1, <4>2
    <3> QED
      BY <3>1, <3>2, <3>3
<1>4. /\ chunks' = [cs EXCEPT ![n].offset = start + size]
      /\ total_used_for_stats' = used
      /\ peak_allocated_' \in {used, peak_allocated_}
  BY <1>2 DEF TakeFrom
<1>5. /\ chunks' \in Seq(Chunk) /\ Len(chunks') = n
      /\ chunks'[n].offset = start + size
      /\ chunks'[n].capacity = cs[n].capacity
      /\ \A i \in 1..n : i # n => chunks'[i] = cs[i]
  <2>1. start + size \in Nat /\ n \in 1..Len(cs)
    BY <1>1, <1>2
  <2> DEFINE end == start + size
             nc  == [cs[n] EXCEPT !.offset = end]
  <2>2. chunks' = [cs EXCEPT ![n] = nc]
    BY <1>4, <2>1
  <2> HIDE DEF end, start, n
  <2>3. nc \in Chunk /\ nc.offset = end /\ nc.capacity = cs[n].capacity
    <3>1. cs[n] \in Chunk /\ end \in Nat
      BY <1>1, <2>1 DEF end
    <3> QED
      BY <3>1 DEF Chunk
  <2> HIDE DEF nc
  <2>4. chunks' \in Seq(Chunk) /\ Len(chunks') = Len(cs)
    BY <2>1, <2>2, <2>3
  <2>5. chunks'[n] = nc /\ \A i \in 1..Len(cs) : i # n => chunks'[i] = cs[i]
    BY <2>1, <2>2
  <2> QED
    BY <2>3, <2>4, <2>5 DEF end, n
<1>6. \/ status' = "aborted" /\ live' = live /\ last' = last
      \/ /\ live' = live \cup {new} /\ status' = status
         /\ last' = [size |-> size, align |-> align, result |-> "block"]
  BY DEF TakeFrom
<1> HIDE DEF n, start, pad, used
<1>7. TypeOK'
  <2>1. new \in Block
    BY <1>1, <1>2 DEF Block
  <2>2. live' \subseteq Block
    BY <1>6, <2>1 DEF TypeOK
  <2>3. last' \in Request
    BY <1>1, <1>6 DEF TypeOK, Request, Results
  <2>4. status' \in {"running", "aborted"}
    BY <1>6 DEF TypeOK
  <2> QED
    BY <1>3, <1>4, <1>5, <2>2, <2>3, <2>4 DEF TypeOK
<1>8. Bounded'
  <2>1. \A i \in 1..n : chunks'[i].capacity <= MaxCapacity
    <3> SUFFICES ASSUME NEW i \in 1..n
                 PROVE  chunks'[i].capacity <= MaxCapacity
      OBVIOUS
    <3>1. cs[i].capacity <= MaxCapacity
      BY DEF n, ChunksSound
    <3> QED
      BY <1>5, <3>1
  <2> QED
    BY <1>3, <1>4, <1>5, <2>1 DEF Bounded, MaxCapacity
<1>9. LiveBlocksSeparate'
  <2>1. \A i \in 1..n : /\ ChunkHeader <= chunks'[i].offset
                        /\ chunks'[i].offset <= chunks'[i].capacity
    <3> SUFFICES ASSUME NEW i \in 1..n
                 PROVE  /\ ChunkHeader <= chunks'[i].offset
                        /\ chunks'[i].offset <= chunks'[i].capacity
      OBVIOUS
    <3>1. ChunkHeader <= cs[i].offset /\ cs[i].offset <= cs[i].capacity
      BY DEF n, ChunksSound
    <3>2. CASE i = n
      <4>1. start \in Nat /\ size \in Nat /\ cs[n].offset \in Nat /\ ChunkHeader \in Nat
        BY <1>1, <1>2, ArenaConstants
      <4>2. ChunkHeader <= cs[n].offset /\ cs[n].offset <= start /\ start + size <= cs[n].capacity
        BY <1>2, <1>3, <3>1, <3>2
      <4>3. ChunkHeader <= start + size
        BY <4>1, <4>2
      <4>4. chunks'[i].offset = start + size /\ chunks'[i].capacity = cs[n].capacity
        BY <1>5, <3>2
      <4> QED
        BY <4>2, <4>3, <4>4
    <3>3. CASE i # n
      BY <1>5, <3>1, <3>3
    <3> QED
      BY <3>2, <3>3
  <2>2. \A b \in live : b.start \in Nat /\ b.size \in Nat /\ b.chunk \in Nat
    BY DEF TypeOK, Block
  <2>3. \A b \in live : /\ b.chunk \in 1..n
                        /\ b.start + b.size <= chunks'[b.chunk].offset
                        /\ b.chunk = n => b.start + b.size <= start
    <3> SUFFICES ASSUME NEW b \in live
                 PROVE  /\ b.chunk \in 1..n
                        /\ b.start + b.size <= chunks'[b.chunk].offset
                        /\ b.chunk = n => b.start + b.size <= start
      OBVIOUS
    <3>1. b.chunk \in 1..n /\ b.start + b.size <= cs[b.chunk].offset
      BY DEF n, BlocksInside
    <3>2. CASE b.chunk = n
      <4>1. b.start + b.size <= cs[n].offset
        BY <3>1, <3>2
      <4>2. cs[n].offset <= start /\ start \in Nat /\ cs[n].offset \in Nat
        BY <1>1, <1>2
      <4>3. b.start \in Nat /\ b.size \in Nat /\ size \in Nat
        BY <1>1, <2>2
      <4>4. b.start + b.size <= start /\ b.start + b.size <= start + size
        BY <4>1, <4>2, <4>3
      <4> QED
        BY <1>5, <3>1, <3>2, <4>4
    <3>3. CASE b.chunk # n
      BY <1>5, <3>1, <3>3
    <3> QED
      BY <3>1, <3>2, <3>3
  <2>4. /\ new.chunk = n /\ new.size = size /\ new.start = start
        /\ ChunkHeader <= start
    <3>1. ChunkHeader <= cs[n].offset
      BY <1>1 DEF n, ChunksSound
    <3>2. ChunkHeader \in Nat /\ cs[n].offset \in Nat /\ start \in Nat /\ cs[n].offset <= start
      BY <1>1, <1>2, ArenaConstants
    <3>3. ChunkHeader <= start
      BY <3>1, <3>2
    <3> QED
      BY <3>3
  <2>5. CASE live' = live
    BY <1>5, <2>1, <2>3, <2>5
    DEF LiveBlocksSeparate, BlocksInside, BlocksDisjoint
  <2>6. CASE live' = live \cup {new}
    <3> HIDE DEF new
    <3>1. \A b \in live' : /\ b.chunk \in 1..n
                           /\ b.size > 0
                           /\ ChunkHeader <= b.start
                           /\ b.start + b.size <= chunks'[b.chunk].offset
      <4> SUFFICES ASSUME NEW b \in live'
                   PROVE  /\ b.chunk \in 1..n
                          /\ b.size > 0
                          /\ ChunkHeader <= b.start
                          /\ b.start + b.size <= chunks'[b.chunk].offset
        OBVIOUS
      <4>1. CASE b \in live
        <5>1. b.size > 0 /\ ChunkHeader <= b.start
          BY <4>1 DEF BlocksInside
        <5>2. b.chunk \in 1..n /\ b.start + b.size <= chunks'[b.chunk].offset
          BY <2>3, <4>1
        <5> QED
          BY <5>1, <5>2
      <4>2. CASE b = new
        <5>1. b.chunk = n /\ b.size = size /\ b.start = start /\ ChunkHeader <= start
          BY <2>4, <4>2
        <5>2. n \in Nat \ {0} /\ size \in Nat \ {0} /\ start \in Nat
          BY <1>1, <1>2
        <5>3. chunks'[n].offset = start + size
          BY <1>5
        <5>4. start + size <= start + size /\ n \in 1..n /\ size > 0
          BY <5>2
        <5> QED
          BY <5>1, <5>3, <5>4
      <4> QED
        BY <2>6, <4>1, <4>2
    <3>2. \A b, c \in live' : b # c /\ b.chunk = c.chunk =>
                                \/ b.start + b.size <= c.start
                                \/ c.start + c.size <= b.start
      <4> SUFFICES ASSUME NEW b \in live', NEW c \in live',
                          b # c, b.chunk = c.chunk
                   PROVE  \/ b.start + b.size <= c.start
                          \/ c.start + c.size <= b.start
        OBVIOUS
      <4>1. CASE b \in live /\ c \in live
        BY <4>1 DEF BlocksDisjoint
      <4>2. CASE b = new /\ c \in live
        BY <2>3, <2>4, <4>2
      <4>3. CASE c = new /\ b \in live
        BY <2>3, <2>4, <4>3
      <4> QED
        BY <2>6, <4>1, <4>2, <4>3
    <3> QED
      BY <1>5, <2>1, <3>1, <3>2 DEF LiveBlocksSeparate
  <2> QED
    BY <1>6, <2>5, <2>6
<1>10. NoSpuriousFailure'
  <2>1. total_used_for_stats <= total_used_for_stats'
    <3>1. total_used_for_stats \in Nat
      BY DEF TypeOK
    <3>2. pad \in Nat /\ size \in Nat
      BY <1>1, <1>2
    <3>3. total_used_for_stats' = total_used_for_stats + pad + size
      BY <1>2, <1>4
    <3> QED
      BY <3>1, <3>2, <3>3
  <2>2. CASE last' = last
    <3>1. last.size \in Nat /\ last.align \in Nat
      BY DEF TypeOK, Request
    <3>2. total_used_for_stats \in Nat /\ total_used_for_stats' \in Nat
      BY <1>3, <1>4 DEF TypeOK
    <3>3. last.result = "null" /\ last.size > 0 =>
            total_used_for_stats' + last.size + last.align - 1 > TotalCap
      <4> HAVE last.result = "null" /\ last.size > 0
      <4>1. total_used_for_stats + last.size + last.align - 1 > TotalCap
        BY DEF NoSpuriousFailure
      <4>2. TotalCap \in Nat
        BY ArenaConstants
      <4> QED
        BY <2>1, <3>1, <3>2, <4>1, <4>2, StillTooMuch, Zenon
    <3> QED
      BY <2>2, <3>3 DEF NoSpuriousFailure
  <2>3. CASE last' = [size |-> size, align |-> align, result |-> "block"]
    BY <2>3 DEF NoSpuriousFailure
  <2> QED
    BY <1>6, <2>2, <2>3
<1> QED
  BY <1>7, <1>8, <1>9, <1>10 DEF IInv

-----------------------------------------------------------------------------
(* The two ways of reading the chunk part of the invariant. *)
LEMMA SoundChunks ==
    ASSUME IInv
    PROVE  ChunksSound(chunks) /\ BlocksInside(chunks) /\ BlocksDisjoint
  BY DEF IInv, LiveBlocksSeparate, Bounded, ChunksSound, BlocksInside,
         BlocksDisjoint

(* What leaves chunks, blocks and use alone leaves these parts alone. *)
LEMMA ChunksUnchanged ==
    ASSUME IInv, UNCHANGED <<chunks, live, total_used_for_stats>>
    PROVE  LiveBlocksSeparate' /\ Bounded'
  BY DEF IInv, LiveBlocksSeparate, Bounded

(* A request that finds room in the head chunk. *)
LEMMA AllocInHeadInductive ==
    ASSUME RequestsFit, IInv, NEW size \in Sizes, NEW align \in Aligns,
           AllocInHead(size, align)
    PROVE  IInv'
<1>1. ChunksSound(chunks) /\ BlocksInside(chunks) /\ BlocksDisjoint
  BY SoundChunks
<1>2. chunks \in Seq(Chunk) /\ Len(chunks) # 0
  BY DEF IInv, TypeOK, AllocInHead, HeadFits
<1>3. /\ FitsInChunk(chunks[Len(chunks)], size, align)
      /\ TakeFrom(chunks, size, align)
      /\ size # 0 /\ UNCHANGED hard_limit_
      /\ total_allocated_from_os' \in Nat
  BY DEF IInv, TypeOK, AllocInHead, HeadFits, HeadChunk
<1>4. TypeOK /\ Bounded /\ NoSpuriousFailure
  BY DEF IInv
<1> QED
  BY <1>1, <1>2, <1>3, <1>4, TakeFromPreserves

(* A request that pushes a new chunk: it is served there, or the padding   *)
(* does not fit the cap.                                                   *)
LEMMA AllocNewChunkInductive ==
    ASSUME RequestsFit, IInv, NEW size \in Sizes, NEW align \in Aligns,
           AllocNewChunk(size, align)
    PROVE  IInv'
<1> DEFINE cap == NewChunkSize(size, align)
           new == [capacity |-> cap, offset |-> ChunkHeader]
           cs  == Append(chunks, new)
<1>1. /\ cap \in Nat /\ cap <= MaxCapacity
      /\ size + align + ChunkHeader <= cap
  BY NewChunkLargeEnough
<1>2. size \in Nat \ {0} /\ align \in Nat \ {0} /\ ChunkHeader \in Nat
  BY ArenaConstants DEF AllocNewChunk
<1>3. /\ size # 0 /\ UNCHANGED hard_limit_
      /\ total_allocated_from_os' = Add(total_allocated_from_os, cap)
      /\ IF FitsInChunk(new, size, align)
           THEN TakeFrom(cs, size, align)
           ELSE chunks' = cs /\ Fails(size, align, "null")
  BY DEF AllocNewChunk
<1> HIDE DEF cap
<1>4. total_allocated_from_os' \in Nat
  BY <1>1, <1>3, AddNat DEF IInv, TypeOK
<1>5. /\ new \in Chunk /\ new.offset = ChunkHeader /\ new.capacity = cap
      /\ new.offset <= new.capacity
  BY <1>1, <1>2 DEF Chunk
<1> HIDE DEF new
<1>6. chunks \in Seq(Chunk)
  BY DEF IInv, TypeOK
<1>7. /\ cs \in Seq(Chunk) /\ Len(cs) = Len(chunks) + 1 /\ Len(cs) # 0
      /\ cs[Len(cs)] = new
      /\ \A i \in 1..Len(chunks) : cs[i] = chunks[i]
  BY <1>5, <1>6
<1> HIDE DEF cs
<1>8. Len(chunks) \in Nat
  BY <1>6
<1>9. ChunksSound(cs)
  <2> SUFFICES ASSUME NEW i \in 1..Len(cs)
               PROVE  /\ ChunkHeader <= cs[i].offset
                      /\ cs[i].offset <= cs[i].capacity
                      /\ cs[i].capacity <= MaxCapacity
    BY DEF ChunksSound
  <2>1. CASE i \in 1..Len(chunks)
    BY <1>7, <2>1, SoundChunks DEF ChunksSound
  <2>2. CASE i = Len(cs)
    BY <1>1, <1>2, <1>5, <1>7, <2>2
  <2> QED
    BY <1>7, <1>8, <2>1, <2>2
<1>10. BlocksInside(cs) /\ BlocksDisjoint
  <2>1. BlocksInside(chunks) /\ BlocksDisjoint
    BY SoundChunks
  <2>2. 1..Len(chunks) \subseteq 1..Len(cs)
    BY <1>7, <1>8
  <2> QED
    BY <1>7, <2>1, <2>2 DEF BlocksInside
<1>11. CASE FitsInChunk(new, size, align)
  <2>1. TypeOK /\ Bounded /\ NoSpuriousFailure
    BY DEF IInv
  <2> QED
    BY <1>3, <1>4, <1>7, <1>9, <1>10, <1>11, <2>1, TakeFromPreserves
<1>12. CASE ~FitsInChunk(new, size, align)
  <2>1. /\ chunks' = cs
        /\ last' = [size |-> size, align |-> align, result |-> "null"]
        /\ UNCHANGED <<total_used_for_stats, peak_allocated_, live, status>>
    BY <1>3, <1>12 DEF Fails
  <2>2. TypeOK'
    <3>1. last' \in Request
      BY <1>2, <2>1 DEF Request, Results
    <3> QED
      BY <1>3, <1>4, <1>7, <2>1, <3>1 DEF IInv, TypeOK
  <2>3. Bounded'
    BY <1>9, <2>1 DEF IInv, Bounded, ChunksSound
  <2>4. LiveBlocksSeparate'
    BY <1>9, <1>10, <2>1
    DEF LiveBlocksSeparate, ChunksSound, BlocksInside, BlocksDisjoint
  <2>5. NoSpuriousFailure'
    <3> DEFINE start == AlignUp(new.offset, align)
               pad   == Padding(new, align)
    <3>1. /\ total_used_for_stats \in Nat /\ total_used_for_stats <= TotalCap
          /\ new.capacity <= MaxCapacity
      BY <1>1, <1>5 DEF IInv, TypeOK, Bounded
    <3>2. /\ start \in Nat /\ new.offset <= start
          /\ start <= new.offset + align - 1
          /\ pad = start - new.offset
          /\ Add(start, size) = start + size
          /\ Add(Add(total_used_for_stats, pad), size)
               = total_used_for_stats + pad + size
      BY <1>5, <3>1, ChunkArithmetic, Zenon
    <3>3. \/ total_used_for_stats + pad + size > TotalCap
          \/ start + size > new.capacity
      <4>1. \/ ~(Add(Add(total_used_for_stats, pad), size) <= TotalCap)
            \/ ~(Add(start, size) <= new.capacity)
        BY <1>12, Zenon DEF FitsInChunk
      <4>2. \/ ~(total_used_for_stats + pad + size <= TotalCap)
            \/ ~(start + size <= new.capacity)
        BY <3>2, <4>1, Zenon
      <4> HIDE DEF start, pad
      <4>3. start \in Nat /\ pad \in Int /\ new.capacity \in Nat
        BY <1>1, <1>2, <1>5, <3>2
      <4>4. TotalCap \in Nat
        BY ArenaConstants
      <4> QED
        BY <1>2, <3>1, <4>2, <4>3, <4>4
    <3> HIDE DEF start, pad
    <3>4. /\ start \in Nat /\ start <= ChunkHeader + align - 1
          /\ pad = start - ChunkHeader
      BY <1>5, <3>2
    <3>5. ~(start + size > new.capacity)
      BY <1>1, <1>2, <1>5, <3>4
    <3>6. total_used_for_stats + pad + size > TotalCap
      BY <3>3, <3>5
    <3>7. TotalCap \in Nat
      BY ArenaConstants
    <3>8. total_used_for_stats + size + align - 1 > TotalCap
      BY <1>2, <3>1, <3>4, <3>6, <3>7
    <3> QED
      BY <2>1, <3>8 DEF NoSpuriousFailure
  <2> QED
    BY <2>2, <2>3, <2>4, <2>5 DEF IInv
<1> QED
  BY <1>11, <1>12

(* A request refused at the top of alloc_aligned, or by the OS. *)
LEMMA AllocRefusedInductive ==
    ASSUME RequestsFit, IInv, NEW size \in Sizes, NEW align \in Aligns,
           AllocRejected(size, align) \/ AllocOsFails(size, align)
    PROVE  IInv'
<1>1. /\ size \in Nat /\ size <= MaxRequest /\ align \in Nat \ {0}
      /\ TotalCap \in Nat
  BY ArenaConstants
<1>2. UNCHANGED <<chunks, total_allocated_from_os, total_used_for_stats,
                  peak_allocated_, hard_limit_, live, status>>
  BY DEF AllocRejected, AllocOsFails, Fails
<1>3. PICK why \in {"null", "oom"} :
         last' = [size |-> size, align |-> align, result |-> why]
  BY DEF AllocRejected, AllocOsFails, Fails
<1>4. TypeOK'
  <2>1. last' \in Request
    BY <1>1, <1>3 DEF Request, Results
  <2> QED
    BY <1>2, <2>1 DEF IInv, TypeOK
<1>5. LiveBlocksSeparate' /\ Bounded'
  BY <1>2, ChunksUnchanged
<1>6. NoSpuriousFailure'
  <2>1. CASE AllocRejected(size, align)
    <3>1. total_used_for_stats \in Nat /\ total_used_for_stats <= TotalCap
      BY DEF IInv, TypeOK, Bounded
    <3>2. Add(total_used_for_stats, size) = total_used_for_stats + size
      BY <1>1, <3>1, ArenaConstants DEF Add, RequestsFit, MaxCapacity
    <3>3. size = 0 \/ total_used_for_stats + size > TotalCap
      BY <2>1, <3>2 DEF AllocRejected
    <3>4. size = 0 \/ total_used_for_stats + size + align - 1 > TotalCap
      BY <1>1, <3>1, <3>3
    <3> QED
      BY <1>1, <1>2, <1>3, <3>4 DEF NoSpuriousFailure
  <2>2. CASE AllocOsFails(size, align)
    BY <2>2 DEF AllocOsFails, Fails, NoSpuriousFailure
  <2> QED
    BY <2>1, <2>2
<1> QED
  BY <1>4, <1>5, <1>6 DEF IInv

-----------------------------------------------------------------------------
(* IInv holds initially. *)
LEMMA InitInvariant == Init => IInv
<1> SUFFICES ASSUME Init PROVE IInv
  OBVIOUS
<1>1. TypeOK
  BY ArenaConstants DEF Init, TypeOK, NoRequest, Request, Results
<1>2. LiveBlocksSeparate /\ Bounded /\ NoSpuriousFailure
  BY ArenaConstants
  DEF Init, LiveBlocksSeparate, Bounded, NoSpuriousFailure, NoRequest
<1> QED
  BY <1>1, <1>2 DEF IInv

(* Every operation preserves IInv. *)
LEMMA NextInvariant ==
    ASSUME RequestsFit, IInv, [Next]_vars
    PROVE  IInv'
<1>1. ASSUME NEW size \in Sizes, NEW align \in Aligns,
             alloc_aligned(size, align)
      PROVE  IInv'
  <2>1. CASE AllocRejected(size, align) \/ AllocOsFails(size, align)
    BY <2>1, AllocRefusedInductive
  <2>2. CASE AllocAborts(size, align)
    BY <2>2, ChunksUnchanged DEF AllocAborts, IInv, TypeOK, NoSpuriousFailure
  <2>3. CASE AllocInHead(size, align)
    BY <2>3, AllocInHeadInductive
  <2>4. CASE AllocNewChunk(size, align)
    BY <2>4, AllocNewChunkInductive
  <2> QED
    BY <1>1, <2>1, <2>2, <2>3, <2>4 DEF alloc_aligned
<1>2. CASE reset
  <2>1. TypeOK'
    BY <1>2 DEF reset, IInv, TypeOK, NoRequest, Request, Results
  <2>2. LiveBlocksSeparate' /\ Bounded' /\ NoSpuriousFailure'
    BY <1>2, ArenaConstants
    DEF reset, LiveBlocksSeparate, Bounded, NoSpuriousFailure, NoRequest
  <2> QED
    BY <2>1, <2>2 DEF IInv
<1>3. CASE resetPeak
  BY <1>3, ChunksUnchanged DEF resetPeak, IInv, TypeOK, NoSpuriousFailure
<1>4. CASE \E limit \in Limits : setHardLimit(limit)
  BY <1>4, ChunksUnchanged, ArenaConstants
  DEF setHardLimit, IInv, TypeOK, NoSpuriousFailure
<1>5. CASE UNCHANGED vars
  BY <1>5, ChunksUnchanged DEF vars, IInv, TypeOK, NoSpuriousFailure
<1> QED
  BY <1>1, <1>2, <1>3, <1>4, <1>5 DEF Next

(* IInv is an invariant of every arena whose requests cannot wrap a size_t. *)
THEOREM ArenaInvariant ==
    ASSUME RequestsFit
    PROVE  Spec => []IInv
<1>1. Init => IInv
  BY InitInvariant
<1>2. IInv /\ [Next]_vars => IInv'
  BY NextInvariant
<1> QED
  BY <1>1, <1>2, PTL DEF Spec

(* The type invariant holds of every state of the allocator: no operation, *)
(* reset included, drives a counter out of the natural numbers.            *)
THEOREM ArenaTypeOK ==
    ASSUME RequestsFit
    PROVE  Spec => []TypeOK
<1>1. IInv => TypeOK
  BY DEF IInv
<1> QED
  BY <1>1, ArenaInvariant, PTL

(* The blocks ArenaAllocator has handed out lie inside their chunks and    *)
(* never overlap.                                                          *)
THEOREM ArenaBlocksSeparate ==
    ASSUME RequestsFit
    PROVE  Spec => []LiveBlocksSeparate
<1>1. IInv => LiveBlocksSeparate
  BY DEF IInv
<1> QED
  BY <1>1, ArenaInvariant, PTL

(* alloc_aligned fails only when the cap is really exhausted. *)
THEOREM ArenaNoSpuriousFailure ==
    ASSUME RequestsFit
    PROVE  Spec => []NoSpuriousFailure
<1>1. IInv => NoSpuriousFailure
  BY DEF IInv
<1> QED
  BY <1>1, ArenaInvariant, PTL

-----------------------------------------------------------------------------
(* What taking bytes from a chunk that fits the request does to the        *)
(* counters and to the chunks: the use stays within the cap, and chunks    *)
(* only fill up.                                                           *)
LEMMA TakeFromEffect ==
    ASSUME RequestsFit, TypeOK, Bounded,
           NEW size \in Sizes, NEW align \in Aligns,
           NEW cs \in Seq(Chunk), Len(cs) # 0, ChunksSound(cs),
           FitsInChunk(cs[Len(cs)], size, align),
           TakeFrom(cs, size, align)
    PROVE  /\ total_used_for_stats' <= TotalCap
           /\ total_used_for_stats' <= peak_allocated_'
           /\ live' # live => peak_allocated_' <= hard_limit_
           /\ live \subseteq live'
           /\ Len(chunks') = Len(cs)
           /\ \A i \in 1..Len(cs) :
                  /\ chunks'[i].capacity = cs[i].capacity
                  /\ chunks'[i].offset >= cs[i].offset
<1> DEFINE n     == Len(cs)
           start == AlignUp(cs[n].offset, align)
           pad   == Padding(cs[n], align)
           used  == Add(total_used_for_stats, Add(pad, size))
           end   == Add(start, size)
<1>1. n \in 1..Len(cs) /\ cs[n] \in Chunk
  OBVIOUS
<1>2. cs[n].offset \in Nat /\ cs[n].capacity \in Nat /\ size \in Nat
  BY <1>1, ArenaConstants DEF Chunk
<1>3. /\ total_used_for_stats \in Nat /\ total_used_for_stats <= TotalCap
      /\ cs[n].offset <= cs[n].capacity /\ cs[n].capacity <= MaxCapacity
      /\ peak_allocated_ \in Nat /\ hard_limit_ \in Nat /\ TotalCap \in Nat
  BY <1>1, ArenaConstants DEF TypeOK, Bounded, ChunksSound
<1>4. /\ start \in Nat /\ cs[n].offset <= start
      /\ pad = start - cs[n].offset
      /\ end = start + size
      /\ used = total_used_for_stats + pad + size
      /\ Add(Add(total_used_for_stats, pad), size)
           = total_used_for_stats + pad + size
  <2> HIDE DEF n
  <2> QED
    BY <1>1, <1>3, ChunkArithmetic, Zenon
<1>5. /\ chunks' = [cs EXCEPT ![n].offset = end]
      /\ total_used_for_stats' = used
      /\ peak_allocated_' = IF used > peak_allocated_ THEN used
                            ELSE peak_allocated_
      /\ live \subseteq live'
      /\ live' # live => ~(peak_allocated_' > hard_limit_)
  BY DEF TakeFrom
<1>6. used <= TotalCap
  <2>1. Add(Add(total_used_for_stats, pad), size) <= TotalCap
    BY DEF FitsInChunk
  <2> QED
    BY <1>4, <2>1, Zenon
<1> HIDE DEF n, start, pad, used, end
<1>7. pad \in Nat
  BY <1>2, <1>4
<1>8. used \in Nat
  <2>1. used = total_used_for_stats + pad + size
    BY <1>4
  <2> QED
    BY <1>2, <1>3, <1>7, <2>1
<1>9. peak_allocated_' \in Nat /\ used <= peak_allocated_'
  BY <1>3, <1>5, <1>8
<1>10. end >= cs[n].offset
  BY <1>2, <1>4
<1>11. /\ Len(chunks') = Len(cs)
       /\ \A i \in 1..Len(cs) :
              /\ chunks'[i].capacity = cs[i].capacity
              /\ chunks'[i].offset >= cs[i].offset
  <2> DEFINE nc == [cs[n] EXCEPT !.offset = end]
  <2>1. chunks' = [cs EXCEPT ![n] = nc]
    BY <1>1, <1>5
  <2>2. nc.capacity = cs[n].capacity /\ nc.offset >= cs[n].offset
    BY <1>1, <1>10 DEF Chunk
  <2> HIDE DEF nc
  <2>3. Len(chunks') = Len(cs)
    BY <1>1, <2>1
  <2>4. chunks'[n] = nc /\ \A i \in 1..Len(cs) : i # n => chunks'[i] = cs[i]
    BY <1>1, <2>1
  <2>5. \A i \in 1..Len(cs) : cs[i].offset \in Nat
    <3>1. \A i \in 1..Len(cs) : cs[i] \in Chunk
      OBVIOUS
    <3> QED
      BY <3>1 DEF Chunk
  <2>6. \A i \in 1..Len(cs) : cs[i].offset >= cs[i].offset
    BY <2>5
  <2> QED
    BY <2>2, <2>3, <2>4, <2>6
<1> QED
  BY <1>3, <1>5, <1>6, <1>8, <1>9, <1>11

(* A request that changes live takes its bytes from the arena's own chunk  *)
(* list or from that list extended by one chunk.                           *)
LEMMA AllocStep ==
    ASSUME RequestsFit, IInv, NEW size \in Sizes, NEW align \in Aligns,
           alloc_aligned(size, align)
    PROVE  /\ live' # live =>
                /\ total_used_for_stats' <= TotalCap
                /\ total_used_for_stats' <= peak_allocated_'
                /\ peak_allocated_' <= hard_limit_'
           /\ live \subseteq live'
           /\ \A i \in 1..Len(chunks) :
                 /\ i <= Len(chunks')
                 /\ chunks'[i].capacity = chunks[i].capacity
                 /\ chunks'[i].offset >= chunks[i].offset
<1>1. chunks \in Seq(Chunk) /\ TypeOK /\ Bounded /\ ChunksSound(chunks)
  BY SoundChunks DEF IInv, TypeOK
<1>2. /\ Len(chunks) \in Nat
      /\ \A i \in 1..Len(chunks) : chunks[i] \in Chunk
  BY <1>1
<1>3. \A i \in 1..Len(chunks) : chunks[i].offset >= chunks[i].offset
  BY <1>2 DEF Chunk
<1>4. CASE UNCHANGED <<chunks, live>>
  BY <1>2, <1>3, <1>4
<1>5. CASE AllocInHead(size, align)
  <2>1. /\ Len(chunks) # 0
        /\ FitsInChunk(chunks[Len(chunks)], size, align)
        /\ TakeFrom(chunks, size, align) /\ UNCHANGED hard_limit_
    BY <1>1, <1>5 DEF AllocInHead, HeadFits, HeadChunk
  <2>2. /\ total_used_for_stats' <= TotalCap
        /\ total_used_for_stats' <= peak_allocated_'
        /\ live' # live => peak_allocated_' <= hard_limit_
        /\ live \subseteq live'
        /\ Len(chunks') = Len(chunks)
        /\ \A i \in 1..Len(chunks) :
              /\ chunks'[i].capacity = chunks[i].capacity
              /\ chunks'[i].offset >= chunks[i].offset
    BY <1>1, <2>1, TakeFromEffect
  <2> QED
    BY <1>2, <2>1, <2>2
<1>6. CASE AllocNewChunk(size, align)
  <2> DEFINE cap == NewChunkSize(size, align)
             new == [capacity |-> cap, offset |-> ChunkHeader]
             cs  == Append(chunks, new)
  <2>1. /\ UNCHANGED hard_limit_
        /\ \/ FitsInChunk(new, size, align) /\ TakeFrom(cs, size, align)
           \/ chunks' = cs /\ live' = live
    BY <1>6 DEF AllocNewChunk, Fails
  <2>2. /\ cap \in Nat /\ cap <= MaxCapacity
        /\ size + align + ChunkHeader <= cap
    BY NewChunkLargeEnough
  <2> HIDE DEF cap
  <2>3. size \in Nat /\ align \in Nat /\ ChunkHeader \in Nat
    BY ArenaConstants
  <2>4. /\ new \in Chunk /\ ChunkHeader <= new.offset
        /\ new.offset <= new.capacity /\ new.capacity <= MaxCapacity
    BY <2>2, <2>3 DEF Chunk
  <2> HIDE DEF new
  <2>5. /\ cs \in Seq(Chunk) /\ Len(cs) = Len(chunks) + 1 /\ Len(cs) # 0
        /\ cs[Len(cs)] = new
        /\ \A i \in 1..Len(chunks) : cs[i] = chunks[i]
    BY <1>1, <2>4
  <2> HIDE DEF cs
  <2>6. ChunksSound(cs)
    <3> SUFFICES ASSUME NEW i \in 1..Len(cs)
                 PROVE  /\ ChunkHeader <= cs[i].offset
                        /\ cs[i].offset <= cs[i].capacity
                        /\ cs[i].capacity <= MaxCapacity
      BY DEF ChunksSound
    <3>1. CASE i \in 1..Len(chunks)
      BY <1>1, <2>5, <3>1 DEF ChunksSound
    <3>2. CASE i = Len(cs)
      BY <2>4, <2>5, <3>2
    <3> QED
      BY <1>2, <2>5, <3>1, <3>2
  <2>7. 1..Len(chunks) \subseteq 1..Len(cs)
    BY <1>2, <2>5
  <2>8. CASE chunks' = cs /\ live' = live
    BY <1>2, <1>3, <2>5, <2>8
  <2>9. CASE FitsInChunk(new, size, align) /\ TakeFrom(cs, size, align)
    <3>1. /\ total_used_for_stats' <= TotalCap
          /\ total_used_for_stats' <= peak_allocated_'
          /\ live' # live => peak_allocated_' <= hard_limit_
          /\ live \subseteq live'
          /\ Len(chunks') = Len(cs)
          /\ \A i \in 1..Len(cs) :
                /\ chunks'[i].capacity = cs[i].capacity
                /\ chunks'[i].offset >= cs[i].offset
      BY <1>1, <2>5, <2>6, <2>9, TakeFromEffect
    <3>2. \A i \in 1..Len(chunks) : i <= Len(chunks')
      BY <1>2, <2>5, <3>1
    <3> QED
      BY <2>1, <2>5, <2>7, <3>1, <3>2
  <2> QED
    BY <2>1, <2>8, <2>9
<1> QED
  BY <1>4, <1>5, <1>6
  DEF alloc_aligned, AllocRejected, AllocAborts, AllocOsFails, Fails

(* A block is handed out only within the cap and the hard limit, and the   *)
(* recorded peak covers it (try_alloc_in_chunk's checks, in their order).  *)
THEOREM ArenaGrantsRespectLimits ==
    ASSUME RequestsFit
    PROVE  Spec => GrantsRespectLimits
<1> DEFINE Grant == ~(live' \subseteq live) =>
                      /\ total_used_for_stats' <= TotalCap
                      /\ total_used_for_stats' <= peak_allocated_'
                      /\ peak_allocated_' <= hard_limit_'
<1>1. IInv /\ [Next]_vars => [Grant]_vars
  <2> SUFFICES ASSUME IInv, Next PROVE Grant
    OBVIOUS
  <2>1. CASE \E size \in Sizes, align \in Aligns : alloc_aligned(size, align)
    BY <2>1, AllocStep
  <2>2. CASE live' \subseteq live
    BY <2>2
  <2> QED
    BY <2>1, <2>2 DEF Next, reset, resetPeak, setHardLimit
<1> QED
  BY <1>1, ArenaInvariant, PTL DEF Spec, GrantsRespectLimits

(* Only reset() takes memory back: every other operation leaves the blocks *)
(* handed out, and the bytes they lie in, where they are.                  *)
THEOREM ArenaBlocksStable ==
    ASSUME RequestsFit
    PROVE  Spec => BlocksStable
<1> DEFINE Stable == live' # {} =>
                       /\ live \subseteq live'
                       /\ \A i \in 1..Len(chunks) :
                             /\ i <= Len(chunks')
                             /\ chunks'[i].capacity = chunks[i].capacity
                             /\ chunks'[i].offset >= chunks[i].offset
<1>1. IInv /\ [Next]_vars => [Stable]_vars
  <2> SUFFICES ASSUME IInv, Next PROVE Stable
    OBVIOUS
  <2>1. CASE \E size \in Sizes, align \in Aligns : alloc_aligned(size, align)
    BY <2>1, AllocStep
  <2>2. CASE UNCHANGED <<chunks, live>>
    <3>1. chunks \in Seq(Chunk)
      BY DEF IInv, TypeOK
    <3>2. \A i \in 1..Len(chunks) : i <= Len(chunks) /\ chunks[i] \in Chunk
      BY <3>1
    <3>3. \A i \in 1..Len(chunks) : chunks[i].offset >= chunks[i].offset
      BY <3>2 DEF Chunk
    <3> QED
      BY <2>2, <3>2, <3>3
  <2>3. CASE reset
    BY <2>3 DEF reset
  <2> QED
    BY <2>1, <2>2, <2>3 DEF Next, resetPeak, setHardLimit
<1> QED
  BY <1>1, ArenaInvariant, PTL DEF Spec, BlocksStable

-----------------------------------------------------------------------------
(* The arena's two counters are the sums over its chunk list they stand    *)
(* for, after any sequence of requests, refusals and resets.               *)
(*                                                                         *)
(* Total is a recursive function, so first comes what it computes: that    *)
(* its equations have a solution, that a sum depends on its summands only, *)
(* and hence how it changes when a summand is appended or the last one     *)
(* replaced, which is all that the allocator does to its chunks.  The      *)
(* induction over positions is by least counterexample.                    *)
(* A set of numbers that is not empty has a least one. *)
LEMMA LeastExists ==
    ASSUME NEW S \in SUBSET Nat, S # {}
    PROVE  \E n \in S : \A m \in S : n <= m
<1> DEFINE less == OpToRel(<, Nat)
<1>1. PICK x \in S : \A y \in S : ~(<<y, x>> \in less)
  <2> HIDE DEF less
  <2> QED BY NatLessThanWellFounded, WFMin DEF less
<1>2. \A y \in S : <<y, x>> \in less <=> y < x
  BY DEF OpToRel
<1>3. \A y \in S : ~(y < x) /\ y \in Nat /\ x \in Nat
  BY <1>1, <1>2
<1> QED BY <1>3

(* T holds the sums of the first summands of v, up to n of them. *)
Sums(T, v, n) ==
    /\ T \in [0..n -> Nat] /\ T[0] = 0
    /\ \A i \in 1..n : T[i] = T[i - 1] + v[i]

(* The sums exist, for every number of summands. *)
LEMMA SumsExist ==
    ASSUME NEW v \in Seq(Nat), NEW n \in 0..Len(v)
    PROVE  \E T : Sums(T, v, n)
<1>0. Len(v) \in Nat
  OBVIOUS
<1> DEFINE bad == {m \in 0..Len(v) : ~\E T : Sums(T, v, m)}
<1> SUFFICES bad = {}
  OBVIOUS
<1> SUFFICES ASSUME bad # {} PROVE FALSE
  OBVIOUS
<1>1. bad \in SUBSET Nat
  BY <1>0
<1>2. PICK m \in bad : \A k \in bad : m <= k
  <2> HIDE DEF bad
  <2> QED BY <1>1, LeastExists
<1>3. m \in 0..Len(v) /\ m \in Nat /\ ~\E T : Sums(T, v, m)
  BY <1>0
<1>4. m # 0
  <2>1. Sums([i \in 0..0 |-> 0], v, 0)
    BY DEF Sums
  <2> QED BY <1>3, <2>1
<1>5. m - 1 \in 0..Len(v) /\ m - 1 \in Nat /\ m - 1 < m /\ m \in 1..Len(v)
  BY <1>0, <1>3, <1>4
<1>6. m - 1 \notin bad
  BY <1>2, <1>5
<1>7. PICK T : Sums(T, v, m - 1)
  BY <1>5, <1>6
<1> DEFINE U == [i \in 0..m |-> IF i < m THEN T[i] ELSE T[m - 1] + v[m]]
<1>8. v[m] \in Nat
  BY <1>5
<1>9. \A i \in 0..m : i < m => i \in 0..m - 1
  BY <1>3
<1>10. \A i \in 0..m - 1 : T[i] \in Nat
  BY <1>7 DEF Sums
<1>11. U \in [0..m -> Nat]
  BY <1>5, <1>8, <1>9, <1>10
<1>12. U[0] = 0
  BY <1>3, <1>4, <1>7 DEF Sums
<1>13. ASSUME NEW i \in 1..m PROVE U[i] = U[i - 1] + v[i]
  <2>1. i \in 0..m /\ i - 1 \in 0..m /\ i - 1 < m
    BY <1>3
  <2>2. CASE i = m
    BY <1>3, <2>1, <2>2
  <2>3. CASE i # m
    <3>1. i < m /\ i \in 1..m - 1
      BY <1>3, <2>3
    <3>2. T[i] = T[i - 1] + v[i]
      BY <1>7, <3>1 DEF Sums
    <3> QED BY <2>1, <3>1, <3>2
  <2> QED BY <2>2, <2>3
<1> HIDE DEF U
<1>14. Sums(U, v, m)
  BY <1>11, <1>12, <1>13 DEF Sums
<1> QED BY <1>3, <1>14

(* Sequences that begin alike have the same first sums. *)
LEMMA SumsUnique ==
    ASSUME NEW v \in Seq(Nat), NEW w \in Seq(Nat), NEW n \in Nat,
           NEW T, NEW U, NEW k \in Nat, NEW l \in Nat, n <= k, n <= l,
           Sums(T, v, k), Sums(U, w, l), \A i \in 1..n : v[i] = w[i]
    PROVE  T[n] = U[n]
<1> DEFINE bad == {m \in 0..n : T[m] # U[m]}
<1> SUFFICES bad = {}
  OBVIOUS
<1> SUFFICES ASSUME bad # {} PROVE FALSE
  OBVIOUS
<1>1. bad \in SUBSET Nat
  OBVIOUS
<1>2. PICK m \in bad : \A j \in bad : m <= j
  <2> HIDE DEF bad
  <2> QED BY <1>1, LeastExists
<1>3. m \in 0..n /\ m \in Nat /\ T[m] # U[m]
  OBVIOUS
<1>4. m # 0
  BY <1>3 DEF Sums
<1>5. m - 1 \in 0..n /\ m - 1 < m /\ m \in 1..n /\ m \in 1..k /\ m \in 1..l /\ m - 1 \in Nat
  BY <1>3, <1>4
<1>6. T[m - 1] = U[m - 1]
  BY <1>2, <1>3, <1>5
<1> QED BY <1>3, <1>5, <1>6 DEF Sums

(* Total(v) is the last of the sums. *)
LEMMA TotalIsSum ==
    ASSUME NEW v \in Seq(Nat)
    PROVE  \E T : Sums(T, v, Len(v)) /\ Total(v) = T[Len(v)]
<1> DEFINE Def(f) == [n \in 0..Len(v) |-> IF n = 0 THEN 0 ELSE f[n - 1] + v[n]]
           Upto == CHOOSE f : f = Def(f)
<1>0. Len(v) \in Nat
  OBVIOUS
<1>1. Total(v) = Upto[Len(v)]
  BY DEF Total
<1>2. PICK T : Sums(T, v, Len(v))
  BY <1>0, SumsExist
<1>3. T = Def(T)
  BY <1>0, <1>2 DEF Sums
<1>4. Upto = Def(Upto)
  <2> HIDE DEF Def
  <2> QED BY <1>3
<1>5. \A i \in 1..Len(v) : /\ Upto[i] = Upto[i - 1] + v[i]
                           /\ T[i] = T[i - 1] + v[i]
  <2>1. \A i \in 1..Len(v) : Def(Upto)[i] = Upto[i - 1] + v[i]
    <3> HIDE DEF Upto
    <3> QED BY <1>0
  <2> HIDE DEF Def, Upto
  <2> QED BY <1>2, <1>4, <2>1 DEF Sums
<1>6. Upto[0] = 0 /\ T[0] = 0
  <2>1. Def(Upto)[0] = 0
    <3> HIDE DEF Upto
    <3> QED BY <1>0
  <2> HIDE DEF Def, Upto
  <2> QED BY <1>2, <1>4, <2>1 DEF Sums
<1> HIDE DEF Def, Upto
<1> DEFINE bad == {m \in 0..Len(v) : Upto[m] # T[m]}
<1>7. bad = {}
  <2> SUFFICES ASSUME bad # {} PROVE FALSE
    OBVIOUS
  <2>1. bad \in SUBSET Nat
    BY <1>0
  <2>2. PICK m \in bad : \A j \in bad : m <= j
    <3> HIDE DEF bad
    <3> QED BY <2>1, LeastExists
  <2>3. m \in 0..Len(v) /\ m \in Nat /\ Upto[m] # T[m]
    BY <1>0
  <2>4. m # 0
    BY <1>6, <2>3
  <2>5. m - 1 \in 0..Len(v) /\ m - 1 < m /\ m \in 1..Len(v)
    BY <1>0, <2>3, <2>4
  <2>6. Upto[m - 1] = T[m - 1]
    BY <2>2, <2>3, <2>5
  <2> QED BY <1>5, <2>3, <2>5, <2>6
<1>8. Upto[Len(v)] = T[Len(v)]
  BY <1>0, <1>7
<1> QED BY <1>1, <1>2, <1>8

(* Nothing adds up to zero. *)
LEMMA TotalEmpty ==
    ASSUME NEW v \in Seq(Nat), Len(v) = 0
    PROVE  Total(v) = 0
BY TotalIsSum DEF Sums

(* Sequences that agree but for the last position differ in their totals   *)
(* by what they differ there.                                              *)
LEMMA TotalLast ==
    ASSUME NEW v \in Seq(Nat), Len(v) # 0
    PROVE  \E t \in Nat :
             /\ Total(v) = t + v[Len(v)]
             /\ \A w \in Seq(Nat) :
                   (\A i \in 1..Len(v) - 1 : w[i] = v[i]) =>
                     /\ Len(w) = Len(v) => Total(w) = t + w[Len(w)]
                     /\ Len(w) = Len(v) - 1 => Total(w) = t
<1>1. Len(v) \in Nat /\ Len(v) - 1 \in Nat /\ Len(v) \in 1..Len(v) /\ Len(v) - 1 \in 0..Len(v)
  OBVIOUS
<1>2. PICK T : Sums(T, v, Len(v)) /\ Total(v) = T[Len(v)]
  BY TotalIsSum
<1>3. T[Len(v) - 1] \in Nat /\ T[Len(v)] = T[Len(v) - 1] + v[Len(v)]
  BY <1>1, <1>2 DEF Sums
<1>4. ASSUME NEW w \in Seq(Nat), \A i \in 1..Len(v) - 1 : w[i] = v[i],
             Len(w) = Len(v) \/ Len(w) = Len(v) - 1
      PROVE  /\ Len(w) = Len(v) => Total(w) = T[Len(v) - 1] + w[Len(w)]
             /\ Len(w) = Len(v) - 1 => Total(w) = T[Len(v) - 1]
  <2>1. PICK U : Sums(U, w, Len(w)) /\ Total(w) = U[Len(w)]
    BY TotalIsSum
  <2>2. Len(w) \in Nat /\ Len(v) - 1 <= Len(w) /\ Len(v) - 1 <= Len(v)
    BY <1>1, <1>4
  <2>3. T[Len(v) - 1] = U[Len(v) - 1]
    BY <1>1, <1>2, <1>4, <2>1, <2>2, SumsUnique
  <2>4. Len(w) = Len(v) => U[Len(w)] = U[Len(v) - 1] + w[Len(w)]
    BY <1>1, <2>1 DEF Sums
  <2> QED BY <2>1, <2>3, <2>4
<1> QED BY <1>2, <1>3, <1>4

(* One more summand adds itself. *)
LEMMA TotalAppended ==
    ASSUME NEW v \in Seq(Nat), Len(v) # 0, NEW w \in Seq(Nat), Len(w) = Len(v) - 1,
           \A i \in 1..Len(v) - 1 : w[i] = v[i]
    PROVE  Total(w) \in Nat /\ Total(v) = Total(w) + v[Len(v)]
BY TotalLast

(* Replacing the last summand changes the total by the difference. *)
LEMMA TotalReplaced ==
    ASSUME NEW v \in Seq(Nat), Len(v) # 0, NEW w \in Seq(Nat), Len(w) = Len(v),
           \A i \in 1..Len(v) - 1 : w[i] = v[i]
    PROVE  \E t \in Nat : Total(v) = t + v[Len(v)] /\ Total(w) = t + w[Len(v)]
BY TotalLast

-----------------------------------------------------------------------------
(* What is summed over a sound chunk list is a natural number per chunk. *)
LEMMA SummandTypes ==
    ASSUME NEW cs \in Seq(Chunk), ChunksSound(cs)
    PROVE  /\ Capacities(cs) \in Seq(Nat) /\ Len(Capacities(cs)) = Len(cs)
           /\ Taken(cs) \in Seq(Nat) /\ Len(Taken(cs)) = Len(cs)
           /\ \A i \in 1..Len(cs) : /\ Capacities(cs)[i] = cs[i].capacity
                                    /\ Taken(cs)[i] = cs[i].offset - ChunkHeader
<1>1. Len(cs) \in Nat /\ \A i \in 1..Len(cs) : cs[i] \in Chunk
  OBVIOUS
<1>2. \A i \in 1..Len(cs) : cs[i].capacity \in Nat /\ cs[i].offset - ChunkHeader \in Nat
  BY <1>1, ArenaConstants DEF Chunk, ChunksSound
<1>3. \A n \in Nat : \A f \in [1..n -> Nat] : f \in Seq(Nat) /\ Len(f) = n
  OBVIOUS
<1>4. Capacities(cs) \in [1..Len(cs) -> Nat] /\ Taken(cs) \in [1..Len(cs) -> Nat]
  BY <1>2 DEF Capacities, Taken
<1> QED BY <1>1, <1>3, <1>4 DEF Capacities, Taken

(* A chunk pushed: its capacity is added, and nothing is taken from it. *)
LEMMA TotalsPushed ==
    ASSUME NEW cs \in Seq(Chunk), ChunksSound(cs), NEW new \in Chunk,
           ChunksSound(Append(cs, new)), new.offset = ChunkHeader
    PROVE  /\ Total(Capacities(Append(cs, new))) = Total(Capacities(cs)) + new.capacity
           /\ Total(Taken(Append(cs, new))) = Total(Taken(cs))
<1> DEFINE ds == Append(cs, new)
<1>1. /\ ds \in Seq(Chunk) /\ Len(cs) \in Nat /\ Len(ds) = Len(cs) + 1
      /\ \A i \in 1..Len(cs) : ds[i] = cs[i]
      /\ ds[Len(ds)] = new
  OBVIOUS
<1> HIDE DEF ds
<1>2. /\ Capacities(cs) \in Seq(Nat) /\ Len(Capacities(cs)) = Len(cs)
      /\ Taken(cs) \in Seq(Nat) /\ Len(Taken(cs)) = Len(cs)
      /\ \A i \in 1..Len(cs) : Capacities(cs)[i] = cs[i].capacity
      /\ \A i \in 1..Len(cs) : Taken(cs)[i] = cs[i].offset - ChunkHeader
  BY SummandTypes
<1>3. /\ Capacities(ds) \in Seq(Nat) /\ Len(Capacities(ds)) = Len(ds)
      /\ Taken(ds) \in Seq(Nat) /\ Len(Taken(ds)) = Len(ds)
      /\ \A i \in 1..Len(ds) : Capacities(ds)[i] = ds[i].capacity
      /\ \A i \in 1..Len(ds) : Taken(ds)[i] = ds[i].offset - ChunkHeader
  BY <1>1, SummandTypes DEF ds
<1>4. /\ Len(ds) # 0 /\ Len(ds) - 1 = Len(cs) /\ Len(ds) \in 1..Len(ds)
      /\ \A i \in 1..Len(ds) - 1 : i \in 1..Len(cs) /\ i \in 1..Len(ds)
  BY <1>1
<1>5. Total(Capacities(ds)) = Total(Capacities(cs)) + new.capacity
  <2>1. \A i \in 1..Len(ds) - 1 : Capacities(cs)[i] = Capacities(ds)[i]
    BY <1>1, <1>2, <1>3, <1>4
  <2>2. Capacities(ds)[Len(ds)] = new.capacity
    BY <1>1, <1>3, <1>4
  <2> QED BY <1>2, <1>3, <1>4, <2>1, <2>2, TotalAppended
<1>6. Total(Taken(ds)) = Total(Taken(cs))
  <2>1. \A i \in 1..Len(ds) - 1 : Taken(cs)[i] = Taken(ds)[i]
    BY <1>1, <1>2, <1>3, <1>4
  <2>2. Taken(ds)[Len(ds)] = 0
    BY <1>1, <1>3, <1>4, ArenaConstants
  <2>3. /\ Total(Taken(cs)) \in Nat
        /\ Total(Taken(ds)) = Total(Taken(cs)) + Taken(ds)[Len(ds)]
    BY <1>2, <1>3, <1>4, <2>1, TotalAppended
  <2> QED BY <2>2, <2>3
<1> QED BY <1>5, <1>6 DEF ds

(* Bytes taken from the head: its offset moves by as many, and nothing     *)
(* else changes.                                                           *)
LEMMA TotalsTaken ==
    ASSUME NEW cs \in Seq(Chunk), Len(cs) # 0, ChunksSound(cs),
           NEW ds \in Seq(Chunk), Len(ds) = Len(cs), ChunksSound(ds),
           NEW bytes \in Nat,
           \A i \in 1..Len(cs) : ds[i].capacity = cs[i].capacity,
           \A i \in 1..Len(cs) - 1 : ds[i].offset = cs[i].offset,
           ds[Len(cs)].offset = cs[Len(cs)].offset + bytes
    PROVE  /\ Total(Capacities(ds)) = Total(Capacities(cs))
           /\ Total(Taken(ds)) = Total(Taken(cs)) + bytes
<1>2. /\ Capacities(cs) \in Seq(Nat) /\ Len(Capacities(cs)) = Len(cs)
      /\ Taken(cs) \in Seq(Nat) /\ Len(Taken(cs)) = Len(cs)
      /\ \A i \in 1..Len(cs) : Capacities(cs)[i] = cs[i].capacity
      /\ \A i \in 1..Len(cs) : Taken(cs)[i] = cs[i].offset - ChunkHeader
  BY SummandTypes
<1>3. /\ Capacities(ds) \in Seq(Nat) /\ Len(Capacities(ds)) = Len(ds)
      /\ Taken(ds) \in Seq(Nat) /\ Len(Taken(ds)) = Len(ds)
      /\ \A i \in 1..Len(ds) : Capacities(ds)[i] = ds[i].capacity
      /\ \A i \in 1..Len(ds) : Taken(ds)[i] = ds[i].offset - ChunkHeader
  BY SummandTypes
<1>4. /\ Len(cs) \in Nat /\ Len(cs) \in 1..Len(cs)
      /\ \A i \in 1..Len(cs) - 1 : i \in 1..Len(cs)
  OBVIOUS
<1>5. Total(Capacities(ds)) = Total(Capacities(cs))
  <2>1. \A i \in 1..Len(cs) : Capacities(ds)[i] = Capacities(cs)[i]
    BY <1>2, <1>3
  <2>2. PICK t \in Nat : /\ Total(Capacities(cs)) = t + Capacities(cs)[Len(cs)]
                         /\ Total(Capacities(ds)) = t + Capacities(ds)[Len(cs)]
    <3>1. PICK v \in Seq(Nat), w \in Seq(Nat) : v = Capacities(cs) /\ w = Capacities(ds)
      BY <1>2, <1>3, Zenon
    <3>2. Len(v) = Len(cs) /\ Len(w) = Len(v) /\ Len(v) # 0
      BY <1>2, <1>3, <3>1, Zenon
    <3>3. \A i \in 1..Len(v) - 1 : w[i] = v[i]
      BY <1>4, <2>1, <3>1, <3>2
    <3>4. \E t \in Nat : Total(v) = t + v[Len(v)] /\ Total(w) = t + w[Len(v)]
      BY <3>2, <3>3, TotalReplaced
    <3> QED BY <3>1, <3>2, <3>4, Zenon
  <2> QED BY <1>4, <2>1, <2>2
<1>6. Total(Taken(ds)) = Total(Taken(cs)) + bytes
  <2>1. \A i \in 1..Len(cs) - 1 : Taken(ds)[i] = Taken(cs)[i]
    BY <1>2, <1>3, <1>4
  <2>2. PICK t \in Nat : /\ Total(Taken(cs)) = t + Taken(cs)[Len(cs)]
                         /\ Total(Taken(ds)) = t + Taken(ds)[Len(cs)]
    <3>1. PICK v \in Seq(Nat), w \in Seq(Nat) : v = Taken(cs) /\ w = Taken(ds)
      BY <1>2, <1>3, Zenon
    <3>2. Len(v) = Len(cs) /\ Len(w) = Len(v) /\ Len(v) # 0
      BY <1>2, <1>3, <3>1, Zenon
    <3>3. \A i \in 1..Len(v) - 1 : w[i] = v[i]
      BY <1>4, <2>1, <3>1, <3>2
    <3>4. \E t \in Nat : Total(v) = t + v[Len(v)] /\ Total(w) = t + w[Len(v)]
      BY <3>2, <3>3, TotalReplaced
    <3> QED BY <3>1, <3>2, <3>4, Zenon
  <2>3. Taken(ds)[Len(cs)] = Taken(cs)[Len(cs)] + bytes
    <3>1. cs[Len(cs)] \in Chunk
      BY <1>4
    <3>2. cs[Len(cs)].offset \in Nat /\ ChunkHeader \in Nat
      BY <3>1, ArenaConstants DEF Chunk
    <3> DEFINE n == Len(cs)
               a == cs[n].offset
               e == ds[n].offset
    <3>3. Taken(cs)[n] = a - ChunkHeader
      BY <1>2, <1>4
    <3>4. Len(cs) \in 1..Len(ds)
      BY <1>4
    <3>5. Taken(ds)[n] = e - ChunkHeader
      BY <1>3, <3>4
    <3>6. e = a + bytes
      BY <1>4
    <3> HIDE DEF a, e, n
    <3>7. Taken(ds)[n] = Taken(cs)[n] + bytes
      BY <3>2, <3>3, <3>5, <3>6 DEF a, n
    <3> QED BY <3>7 DEF n
  <2>4. Taken(cs)[Len(cs)] \in Nat
    BY <1>2, <1>4
  <2> QED BY <2>2, <2>3, <2>4
<1> QED BY <1>5, <1>6
-----------------------------------------------------------------------------
(* try_alloc_in_chunk adds to total_used_for_stats exactly what it moves   *)
(* the offset of the chunk by: the padding and the bytes asked for.        *)
LEMMA TakeFromAccounted ==
    ASSUME RequestsFit, TypeOK, Bounded,
           NEW size \in Sizes, NEW align \in Aligns,
           NEW cs \in Seq(Chunk), Len(cs) # 0, ChunksSound(cs),
           chunks' \in Seq(Chunk), ChunksSound(chunks'),
           TakeFrom(cs, size, align),
           total_used_for_stats = Total(Taken(cs))
    PROVE  /\ Total(Capacities(chunks')) = Total(Capacities(cs))
           /\ total_used_for_stats' = Total(Taken(chunks'))
<1> DEFINE n     == Len(cs)
           start == AlignUp(cs[n].offset, align)
           pad   == Padding(cs[n], align)
           used  == Add(total_used_for_stats, Add(pad, size))
           end   == Add(start, size)
<1>1. n \in Nat /\ n \in 1..n /\ cs[n] \in Chunk
  OBVIOUS
<1>2. cs[n].offset \in Nat /\ size \in Nat
  BY <1>1, ArenaConstants DEF Chunk
<1>3. /\ total_used_for_stats \in Nat /\ total_used_for_stats <= TotalCap
      /\ cs[n].offset <= cs[n].capacity /\ cs[n].capacity <= MaxCapacity
  BY <1>1 DEF TypeOK, Bounded, ChunksSound
<1>4. /\ start \in Nat /\ cs[n].offset <= start
      /\ pad = start - cs[n].offset
      /\ end = start + size
      /\ used = total_used_for_stats + pad + size
  <2> HIDE DEF n
  <2> QED BY <1>1, <1>3, ChunkArithmetic, Zenon
<1>5. chunks' = [cs EXCEPT ![n].offset = end] /\ total_used_for_stats' = used
  BY DEF TakeFrom
<1> HIDE DEF start, pad, used, end
<1>6. /\ pad + size \in Nat
      /\ end = cs[n].offset + (pad + size)
      /\ used = total_used_for_stats + (pad + size)
  <2>1. PICK off \in Nat, u \in Nat :
           off = cs[n].offset /\ u = total_used_for_stats
    BY <1>2, <1>3, Zenon
  <2>2. /\ start \in Nat /\ off <= start /\ pad = start - off
        /\ end = start + size /\ used = u + pad + size
    BY <1>4, <2>1
  <2>3. pad + size \in Nat /\ end = off + (pad + size) /\ used = u + (pad + size)
    BY <1>2, <2>2
  <2> QED BY <2>1, <2>3
<1>7. /\ Len(chunks') = Len(cs)
      /\ chunks'[n].capacity = cs[n].capacity /\ chunks'[n].offset = end
      /\ \A i \in 1..n : i # n => chunks'[i] = cs[i]
  <2> DEFINE nc == [cs[n] EXCEPT !.offset = end]
  <2>1. chunks' = [cs EXCEPT ![n] = nc]
    BY <1>1, <1>5
  <2>2. nc.capacity = cs[n].capacity /\ nc.offset = end
    BY <1>1 DEF Chunk
  <2> HIDE DEF nc
  <2> QED BY <1>1, <2>1, <2>2
<1>8. /\ \A i \in 1..n : chunks'[i].capacity = cs[i].capacity
      /\ \A i \in 1..n - 1 : chunks'[i].offset = cs[i].offset
  BY <1>1, <1>7
<1>9. chunks'[n].offset = cs[n].offset + (pad + size)
  BY <1>6, <1>7
<1>10. PICK ds \in Seq(Chunk), bytes \in Nat : ds = chunks' /\ bytes = pad + size
  BY <1>6, Zenon
<1>11. /\ Total(Capacities(ds)) = Total(Capacities(cs))
       /\ Total(Taken(ds)) = Total(Taken(cs)) + bytes
  BY <1>7, <1>8, <1>9, <1>10, TotalsTaken
<1> QED BY <1>5, <1>6, <1>10, <1>11

(* The chunk list of an arena, and its next one, can be summed. *)
LEMMA Summable ==
    ASSUME RequestsFit, IInv, IInv'
    PROVE  /\ chunks \in Seq(Chunk) /\ ChunksSound(chunks)
           /\ chunks' \in Seq(Chunk) /\ ChunksSound(chunks')
<1>1. chunks \in Seq(Chunk) /\ chunks' \in Seq(Chunk)
  BY DEF IInv, TypeOK
<1>2. ChunksSound(chunks)
  BY SoundChunks
<1>3. ChunksSound(chunks')
  BY DEF IInv, LiveBlocksSeparate, Bounded, ChunksSound
<1> QED BY <1>1, <1>2, <1>3

(* A new chunk: its capacity is added to total_allocated_from_os, whether  *)
(* or not the request is then served from it.                              *)
LEMMA AllocNewChunkAccounted ==
    ASSUME RequestsFit, IInv, IInv', AccountingExact,
           NEW size \in Sizes, NEW align \in Aligns,
           AllocNewChunk(size, align)
    PROVE  AccountingExact'
<1> DEFINE cap == NewChunkSize(size, align)
           new == [capacity |-> cap, offset |-> ChunkHeader]
           cs  == Append(chunks, new)
<1>1. /\ total_allocated_from_os + cap < WordSize
      /\ total_allocated_from_os' = Add(total_allocated_from_os, cap)
      /\ \/ TakeFrom(cs, size, align)
         \/ chunks' = cs /\ UNCHANGED total_used_for_stats
  BY DEF AllocNewChunk, Fails
<1>2. /\ cap \in Nat /\ cap <= MaxCapacity
      /\ size + align + ChunkHeader <= cap
  BY NewChunkLargeEnough
<1> HIDE DEF cap
<1>3. size \in Nat /\ align \in Nat /\ ChunkHeader \in Nat
  BY ArenaConstants
<1>4. /\ new \in Chunk /\ new.offset = ChunkHeader /\ new.capacity = cap
      /\ new.offset <= new.capacity
  BY <1>2, <1>3 DEF Chunk
<1> HIDE DEF new
<1>5. /\ chunks \in Seq(Chunk) /\ ChunksSound(chunks)
      /\ chunks' \in Seq(Chunk) /\ ChunksSound(chunks')
  BY Summable
<1>6. /\ cs \in Seq(Chunk) /\ Len(cs) = Len(chunks) + 1 /\ Len(cs) # 0
      /\ cs[Len(cs)] = new
      /\ \A i \in 1..Len(chunks) : cs[i] = chunks[i]
  BY <1>4, <1>5
<1>7. ChunksSound(cs)
  <2> HIDE DEF cs
  <2> SUFFICES ASSUME NEW i \in 1..Len(cs)
               PROVE  /\ ChunkHeader <= cs[i].offset
                      /\ cs[i].offset <= cs[i].capacity
                      /\ cs[i].capacity <= MaxCapacity
    BY DEF ChunksSound
  <2>1. CASE i \in 1..Len(chunks)
    BY <1>5, <1>6, <2>1 DEF ChunksSound
  <2>2. CASE i = Len(cs)
    BY <1>2, <1>3, <1>4, <1>6, <2>2
  <2> QED BY <1>5, <1>6, <2>1, <2>2
<1>8. /\ Total(Capacities(cs)) = Total(Capacities(chunks)) + cap
      /\ Total(Taken(cs)) = Total(Taken(chunks))
  BY <1>4, <1>5, <1>7, TotalsPushed
<1> HIDE DEF cs
<1>9. total_allocated_from_os' = Total(Capacities(cs))
  <2>1. total_allocated_from_os \in Nat
    BY DEF IInv, TypeOK
  <2>2. total_allocated_from_os' = total_allocated_from_os + cap
    BY <1>1, <1>2, <2>1, AddExact
  <2> QED BY <1>8, <2>2 DEF AccountingExact
<1>10. total_used_for_stats = Total(Taken(cs))
  BY <1>8 DEF AccountingExact
<1>11. CASE TakeFrom(cs, size, align)
  <2>1. TypeOK /\ Bounded
    BY DEF IInv
  <2>2. /\ Total(Capacities(chunks')) = Total(Capacities(cs))
        /\ total_used_for_stats' = Total(Taken(chunks'))
    BY <1>5, <1>6, <1>7, <1>10, <1>11, <2>1, TakeFromAccounted
  <2> QED BY <1>9, <2>2 DEF AccountingExact
<1>12. CASE chunks' = cs /\ UNCHANGED total_used_for_stats
  BY <1>9, <1>10, <1>12 DEF AccountingExact
<1> QED BY <1>1, <1>11, <1>12

(* Before the first chunk, and after reset, both sums are empty. *)
LEMMA TotalsEmpty == Total(Capacities(<<>>)) = 0 /\ Total(Taken(<<>>)) = 0
<1>1. <<>> \in Seq(Chunk) /\ ChunksSound(<<>>) /\ Len(<<>>) = 0
  BY DEF ChunksSound
<1>2. /\ Capacities(<<>>) \in Seq(Nat) /\ Len(Capacities(<<>>)) = 0
      /\ Taken(<<>>) \in Seq(Nat) /\ Len(Taken(<<>>)) = 0
  BY <1>1, SummandTypes
<1> QED BY <1>2, TotalEmpty

(* Every operation keeps the counters exact. *)
LEMMA NextAccounted ==
    ASSUME RequestsFit, IInv, AccountingExact, [Next]_vars
    PROVE  AccountingExact'
<1>0. IInv'
  BY NextInvariant
<1>1. ASSUME UNCHANGED <<chunks, total_allocated_from_os, total_used_for_stats>>
      PROVE  AccountingExact'
  BY <1>1 DEF AccountingExact
<1>2. ASSUME NEW size \in Sizes, NEW align \in Aligns,
             alloc_aligned(size, align)
      PROVE  AccountingExact'
  <2>1. CASE AllocInHead(size, align)
    <3>1. /\ chunks \in Seq(Chunk) /\ ChunksSound(chunks)
          /\ chunks' \in Seq(Chunk) /\ ChunksSound(chunks')
      BY <1>0, Summable
    <3>2. /\ Len(chunks) # 0 /\ TakeFrom(chunks, size, align)
          /\ UNCHANGED total_allocated_from_os
      BY <2>1, <3>1 DEF AllocInHead, HeadFits
    <3>3. TypeOK /\ Bounded /\ total_used_for_stats = Total(Taken(chunks))
      BY DEF IInv, AccountingExact
    <3>4. /\ Total(Capacities(chunks')) = Total(Capacities(chunks))
          /\ total_used_for_stats' = Total(Taken(chunks'))
      BY <3>1, <3>2, <3>3, TakeFromAccounted
    <3> QED BY <3>2, <3>4 DEF AccountingExact
  <2>2. CASE AllocNewChunk(size, align)
    BY <1>0, <2>2, AllocNewChunkAccounted
  <2> QED
    BY <1>1, <1>2, <2>1, <2>2
    DEF alloc_aligned, AllocRejected, AllocAborts, AllocOsFails, Fails
<1>3. CASE reset
  BY <1>3, TotalsEmpty DEF reset, AccountingExact
<1> QED
  BY <1>1, <1>2, <1>3 DEF Next, vars, resetPeak, setHardLimit

(* The two counters the limits are checked against are, in every state,    *)
(* the bytes of the chunks held and the bytes taken from them, padding     *)
(* included: nothing is counted twice, dropped when a head is abandoned,   *)
(* or kept across a reset.                                                 *)
THEOREM ArenaAccounting ==
    ASSUME RequestsFit
    PROVE  Spec => []AccountingExact
<1>1. Init => AccountingExact
  BY TotalsEmpty DEF Init, AccountingExact
<1>2. IInv /\ AccountingExact /\ [Next]_vars => AccountingExact'
  BY NextAccounted
<1> QED
  BY <1>1, <1>2, ArenaInvariant, PTL DEF Spec
=============================================================================
