----------------------------- MODULE Allocators -----------------------------
(***************************************************************************)
(* The allocators of ds/src: of variable and of fixed size.                *)
(***************************************************************************)
EXTENDS Integers, FiniteSets

-----------------------------------------------------------------------------
(***************************************************************************)
(* vsa.c: an allocator of variable sizes inside a pool the caller owns.    *)
(* The pool holds blocks one after the other, each a header and its space; *)
(* the lowest bit of a header's size says whether the block is free, and a *)
(* mark ends the pool.  Addresses and sizes are in words.                  *)
(***************************************************************************)

CONSTANTS
    VSA_WORDS,      \* num_bytes of VSAInit, in words
    VSA_META,       \* words of a header: 2, or 1 in a build with NDEBUG
    VSA_REQUESTS    \* the numbers of bytes VSAAlloc is asked for

ASSUME VSAAssumption ==
    /\ VSA_META \in {1, 2} /\ VSA_WORDS \in Nat /\ VSA_WORDS >= VSA_META + 2
    /\ VSA_REQUESTS \subseteq Nat \ {0}

VARIABLES
    vsaHeaders,    \* address |-> size and free bit of the header there
    vsaLive,       \* the allocations the caller holds: where, and how many bytes
    vsaStep,       \* "returned", "defrags" in DeFreg, "allocs" after it, "loops" for ever
    vsaRunner,     \* the block that is looked at: first_free_block, runner
    vsaRequest     \* num_bytes, or ALL_MEM

vsaVars == <<vsaHeaders, vsaLive, vsaStep, vsaRunner, vsaRequest>>

WORD_SIZE == 8
ALL_MEM == 0
VSAEnd == VSA_WORDS - 1     \* where MAGIC_NUMBER_END is

AlignSizeUp(bytes) == (bytes + WORD_SIZE - 1) \div WORD_SIZE

GetNext(h, a) == a + VSA_META + h[a].size

\* The free block at a takes in the next one, whose header is gone.
Merged(h, a) ==
    [b \in DOMAIN h \ {GetNext(h, a)} |->
        IF b = a THEN [h[a] EXCEPT !.size = @ + VSA_META + h[GetNext(h, a)].size] ELSE h[b]]

NextIsFree_Unchecked(h, a) == GetNext(h, a) # VSAEnd
NextIsFree(h, a) == GetNext(h, a) # VSAEnd /\ h[GetNext(h, a)].free

VSAInit == /\ vsaHeaders = [a \in {0} |-> [size |-> VSA_WORDS - VSA_META - 1, free |-> TRUE]]
           /\ vsaLive = {} /\ vsaStep = "returned" /\ vsaRunner = 0 /\ vsaRequest = ALL_MEM

VSAReturns == vsaStep' = "returned" /\ vsaRunner' = 0 /\ vsaRequest' = ALL_MEM

\* VSAAlloc, and VSALargestFreeChunk: what that returns is a function of the pool it leaves.
VSACalled(request) ==
    /\ vsaStep = "returned" /\ vsaStep' = "defrags"
    /\ vsaRunner' = 0 /\ vsaRequest' = request
    /\ UNCHANGED <<vsaHeaders, vsaLive>>

\* GetNextFreeBlock goes on from a block in use.
GetNextFreeBlock ==
    /\ vsaStep \in {"defrags", "allocs"} /\ vsaRunner # VSAEnd
    /\ ~vsaHeaders[vsaRunner].free
    /\ vsaRunner' = GetNext(vsaHeaders, vsaRunner)
    /\ UNCHANGED <<vsaHeaders, vsaLive, vsaStep, vsaRequest>>

-----------------------------------------------------------------------------
(* DeFreg, at a free block: for a request until one is large enough, for   *)
(* ALL_MEM until the pool ends.                                            *)

AtFreeBlock(doing) == vsaStep = doing /\ vsaRunner # VSAEnd /\ vsaHeaders[vsaRunner].free

IsEnough == vsaRequest # ALL_MEM /\ vsaHeaders[vsaRunner].size >= AlignSizeUp(vsaRequest)

DeFregMerges ==
    /\ AtFreeBlock("defrags") /\ ~IsEnough /\ NextIsFree(vsaHeaders, vsaRunner)
    /\ vsaHeaders' = Merged(vsaHeaders, vsaRunner)
    /\ UNCHANGED <<vsaLive, vsaStep, vsaRunner, vsaRequest>>

DeFregGoesOn ==
    /\ AtFreeBlock("defrags") /\ ~IsEnough /\ ~NextIsFree(vsaHeaders, vsaRunner)
    /\ vsaRunner' = GetNext(vsaHeaders, vsaRunner)
    /\ UNCHANGED <<vsaHeaders, vsaLive, vsaStep, vsaRequest>>

DeFregEnds ==
    /\ vsaStep = "defrags" /\ (vsaRunner = VSAEnd \/ (AtFreeBlock("defrags") /\ IsEnough))
    /\ IF vsaRequest = ALL_MEM THEN VSAReturns
       ELSE vsaStep' = "allocs" /\ vsaRunner' = 0 /\ UNCHANGED vsaRequest
    /\ UNCHANGED <<vsaHeaders, vsaLive>>

-----------------------------------------------------------------------------
(* VSAAlloc after DeFreg, at the first free block from the pool's start.   *)

Excess == vsaHeaders[vsaRunner].size - AlignSizeUp(vsaRequest)

VSAAllocNull ==
    /\ vsaStep = "allocs" /\ vsaRunner = VSAEnd /\ VSAReturns
    /\ UNCHANGED <<vsaHeaders, vsaLive>>

\* GetNextFreeBlock returns the block it is given when that is free: a first free block
\* that is too small is looked at again and again.
VSAAllocLoops ==
    /\ AtFreeBlock("allocs") /\ Excess < 0
    /\ vsaStep' = "loops"
    /\ UNCHANGED <<vsaHeaders, vsaLive, vsaRunner, vsaRequest>>

Allocated == {[at |-> vsaRunner + VSA_META, bytes |-> vsaRequest]}

VSAAllocWhole ==
    /\ AtFreeBlock("allocs") /\ Excess \in 0 .. VSA_META
    /\ vsaHeaders' = [vsaHeaders EXCEPT ![vsaRunner].free = FALSE]
    /\ vsaLive' = vsaLive \cup Allocated
    /\ VSAReturns

VSAAllocSplit ==
    LET words == AlignSizeUp(vsaRequest)
        rest == vsaRunner + VSA_META + words
    IN  /\ AtFreeBlock("allocs") /\ Excess > VSA_META
        /\ vsaHeaders' = [b \in DOMAIN vsaHeaders \cup {rest} |->
                            IF b = vsaRunner THEN [size |-> words, free |-> FALSE]
                            ELSE IF b = rest THEN [size |-> Excess - VSA_META, free |-> TRUE]
                            ELSE vsaHeaders[b]]
        /\ vsaLive' = vsaLive \cup Allocated
        /\ VSAReturns

VSAFree(allocation) ==
    /\ vsaStep = "returned"
    /\ vsaHeaders' = [vsaHeaders EXCEPT ![allocation.at - VSA_META].free = TRUE]
    /\ vsaLive' = vsaLive \ {allocation}
    /\ UNCHANGED <<vsaStep, vsaRunner, vsaRequest>>

VSANext ==
    \/ \E request \in VSA_REQUESTS \cup {ALL_MEM} : VSACalled(request)
    \/ GetNextFreeBlock
    \/ DeFregMerges \/ DeFregGoesOn \/ DeFregEnds
    \/ VSAAllocNull \/ VSAAllocLoops \/ VSAAllocWhole \/ VSAAllocSplit
    \/ \E allocation \in vsaLive : VSAFree(allocation)

-----------------------------------------------------------------------------
VSATypeOK ==
    /\ DOMAIN vsaHeaders \subseteq 0 .. VSAEnd - 1
    /\ \A a \in DOMAIN vsaHeaders : vsaHeaders[a] \in [size : 1 .. VSA_WORDS, free : BOOLEAN]
    /\ \A l \in vsaLive : l.at \in 0 .. VSAEnd /\ l.bytes \in VSA_REQUESTS
    /\ vsaStep \in {"returned", "defrags", "allocs", "loops"}
    /\ vsaRunner \in DOMAIN vsaHeaders \cup {VSAEnd}
    /\ vsaRequest \in VSA_REQUESTS \cup {ALL_MEM}

BlocksTile ==
    /\ 0 \in DOMAIN vsaHeaders
    /\ \A a \in DOMAIN vsaHeaders :
        /\ GetNext(vsaHeaders, a) \in DOMAIN vsaHeaders \cup {VSAEnd}
        /\ \A b \in DOMAIN vsaHeaders : b > a => b >= GetNext(vsaHeaders, a)

LiveBlocks ==
    /\ \A l \in vsaLive : /\ l.at - VSA_META \in DOMAIN vsaHeaders
                          /\ ~vsaHeaders[l.at - VSA_META].free
                          /\ vsaHeaders[l.at - VSA_META].size * WORD_SIZE >= l.bytes
    /\ \A l, m \in vsaLive : l.at = m.at => l = m
    /\ \A a \in DOMAIN vsaHeaders :
        ~vsaHeaders[a].free => \E l \in vsaLive : l.at = a + VSA_META

\* Whatever was split, freed and merged: the blocks tile the pool, so that no word is lost
\* or in two blocks, and the used ones are those the caller holds, each with room for what
\* was asked: no merge takes in memory in use, and no free is forgotten.
VSAPoolIsSound == BlocksTile /\ LiveBlocks

-----------------------------------------------------------------------------
(***************************************************************************)
(* fsa.c: an allocator of equal chunks.  The pool's first word is the head *)
(* of the list of free chunks; the first word of a free chunk is the link  *)
(* to the next, the address of the pool ends the list.  Addresses are byte *)
(* addresses from the pool's on, which is 0.                               *)
(***************************************************************************)

CONSTANTS
    FSA_CHUNK_SIZES,   \* the chunk sizes a pool is made with
    NUM_CHUNKS

ASSUME FSAAssumption == FSA_CHUNK_SIZES \subseteq Nat \ {0} /\ NUM_CHUNKS \in Nat \ {0}

VARIABLES
    fsaChunkSize,   \* chunk_size of FSAInit
    fsaWords,       \* the words the allocator writes: address |-> link or the user's data
    fsaLive         \* the chunks the caller holds

fsaVars == <<fsaChunkSize, fsaWords, fsaLive>>

PoolAddress == 0
Sizeof == 8         \* sizeof(size_t)
UserData == -1

AllignedChunkSize(size) == IF size % Sizeof = 0 THEN size ELSE Sizeof + size - (size % Sizeof)

FSASuggestSize(size) == AllignedChunkSize(size) * NUM_CHUNKS + Sizeof

FSAAddress(size, i) == i * AllignedChunkSize(size) + Sizeof

Chunks(size) == {FSAAddress(size, i) : i \in 0 .. NUM_CHUNKS - 1}

FSAInit ==
    /\ fsaChunkSize \in FSA_CHUNK_SIZES
    /\ fsaWords = [a \in {PoolAddress} \cup Chunks(fsaChunkSize) |->
                    IF a = PoolAddress THEN FSAAddress(fsaChunkSize, 0)
                    ELSE IF a = FSAAddress(fsaChunkSize, NUM_CHUNKS - 1) THEN PoolAddress
                    ELSE a + AllignedChunkSize(fsaChunkSize)]
    /\ fsaLive = {}

\* The chunk is the caller's, who writes over its link.
FSAAlloc ==
    LET chunk == fsaWords[PoolAddress]
    IN  /\ chunk # PoolAddress
        /\ fsaWords' = [fsaWords EXCEPT ![PoolAddress] = fsaWords[chunk], ![chunk] = UserData]
        /\ fsaLive' = fsaLive \cup {chunk}
        /\ UNCHANGED fsaChunkSize

FSAFree_NotLinked(chunk) ==
    /\ fsaWords' = [fsaWords EXCEPT ![chunk] = PoolAddress, ![PoolAddress] = chunk]
    /\ fsaLive' = fsaLive \ {chunk}
    /\ UNCHANGED fsaChunkSize

FSAFree(chunk) ==
    /\ fsaWords' = [fsaWords EXCEPT ![chunk] = fsaWords[PoolAddress], ![PoolAddress] = chunk]
    /\ fsaLive' = fsaLive \ {chunk}
    /\ UNCHANGED fsaChunkSize

FSANext == FSAAlloc \/ \E chunk \in fsaLive : FSAFree(chunk)

\* FSACountFreeChunks: where its walk over the links is after so many.
FSAWalk[i \in 0 .. NUM_CHUNKS] ==
    IF i = 0 THEN fsaWords[PoolAddress]
    ELSE IF FSAWalk[i - 1] \in {PoolAddress, UserData} THEN FSAWalk[i - 1] ELSE fsaWords[FSAWalk[i - 1]]

-----------------------------------------------------------------------------
FSATypeOK ==
    /\ fsaChunkSize \in FSA_CHUNK_SIZES
    /\ fsaLive \subseteq Chunks(fsaChunkSize)
    /\ fsaWords \in [{PoolAddress} \cup Chunks(fsaChunkSize) ->
                        {PoolAddress, UserData} \cup Chunks(fsaChunkSize)]

FreeListIsTheRest ==
    /\ FSAWalk[NUM_CHUNKS] = PoolAddress
    /\ {FSAWalk[i] : i \in 0 .. NUM_CHUNKS} \ {PoolAddress} = Chunks(fsaChunkSize) \ fsaLive

ChunksApart ==
    \A a \in Chunks(fsaChunkSize) :
        /\ a % Sizeof = 0 /\ a >= Sizeof
        /\ a + fsaChunkSize <= FSASuggestSize(fsaChunkSize)
        /\ \A b \in Chunks(fsaChunkSize) : b > a => a + fsaChunkSize <= b

\* Whatever the order of frees, the free list is the chunks nobody holds: none is handed out
\* twice, none is lost, and the walk over it ends.  Each chunk is aligned for its link and
\* has the bytes asked for to itself within the pool FSASuggestSize asks for.
FSAPoolIsSound == FreeListIsTheRest /\ ChunksApart

-----------------------------------------------------------------------------
\* A client uses either of the two.
AllocatorsInit == VSAInit /\ FSAInit
AllocatorsNext == (VSANext /\ UNCHANGED fsaVars) \/ (FSANext /\ UNCHANGED vsaVars)
AllocatorsSpec == AllocatorsInit /\ [][AllocatorsNext]_<<vsaVars, fsaVars>>

(***************************************************************************)
(* The blocks of both allocators are a tiling of their pools in which no   *)
(* two callers, and no caller and the allocator's own words, overlap.      *)
(***************************************************************************)
AllocatorsAreSound == VSATypeOK /\ VSAPoolIsSound /\ FSATypeOK /\ FSAPoolIsSound
=============================================================================
