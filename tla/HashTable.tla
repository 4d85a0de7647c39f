------------------------------ MODULE HashTable ------------------------------
(***************************************************************************)
(* hash_table.c: a list of elements per bucket; a search moves what it     *)
(* finds to the front of its list, by a new node there and the removal of  *)
(* the old one.  DListPushFront reports success when the new node of a     *)
(* list that is not empty could not be made.                               *)
(***************************************************************************)
EXTENDS Integers, SequencesExt

CONSTANTS
    HT_KEYS, HT_TAGS,   \* an element is a key and what else it carries
    NUM_BUCKETS

ASSUME HashTableAssumption == HT_KEYS \subseteq Nat /\ NUM_BUCKETS \in Nat \ {0}

VARIABLES
    htBuckets,   \* the buckets' lists, from 0
    htMemory     \* whether memory was got in the last call that asked for it

htVars == <<htBuckets, htMemory>>

HashTableInit == htBuckets = [b \in 0 .. NUM_BUCKETS - 1 |-> <<>>] /\ htMemory = TRUE

BucketOf(key) == key % NUM_BUCKETS      \* hash_func is the identity

\* is_match_func compares keys.
DListFind(list, key) == SelectInSeq(list, LAMBDA e : e.key = key)

\* The list after DListPushFront, and whether it reports success.
DListPushFront(list, e, memory) == IF memory THEN <<e>> \o list ELSE list
PushFrontSucceeds(list, memory) == memory \/ list # <<>>

\* HashTableFind in the list of the key, which is there.
MovedToFront_NotAtAll(list, key, memory) == list
MovedToFront_Twice(list, key, memory) ==
    DListPushFront(list, list[DListFind(list, key)], memory)

MovedToFront(list, key, memory) ==
    LET at == DListFind(list, key)
        pushed == DListPushFront(list, list[at], memory)
    IN  IF PushFrontSucceeds(list, memory)
        THEN RemoveAt(pushed, at + Len(pushed) - Len(list)) ELSE pushed

HashTableFind(key, memory) ==
    LET b == BucketOf(key)
    IN  IF DListFind(htBuckets[b], key) = 0 THEN UNCHANGED htVars
        ELSE /\ htBuckets' = [htBuckets EXCEPT ![b] = MovedToFront(@, key, memory)]
             /\ htMemory' = memory

\* Found: the first element of the list is overwritten, the tail's data if there is none.
HashTableReplace(e, memory) ==
    LET b == BucketOf(e.key)
        moved == MovedToFront(htBuckets[b], e.key, memory)
    IN  /\ DListFind(htBuckets[b], e.key) # 0
        /\ htBuckets' = [htBuckets EXCEPT ![b] = IF moved = <<>> THEN moved
                                                 ELSE [moved EXCEPT ![1] = e]]
        /\ htMemory' = memory

HashTablePush(e, memory) ==
    LET b == BucketOf(e.key)
    IN  /\ DListFind(htBuckets[b], e.key) = 0
        /\ htBuckets' = [htBuckets EXCEPT ![b] = DListPushFront(@, e, memory)]
        /\ htMemory' = memory

HashTableInsert(e, memory) == HashTableReplace(e, memory) \/ HashTablePush(e, memory)

\* Of a key that is in the table: of another, DListRemove is called with the dummy tail.
HashTableRemove(key) ==
    LET b == BucketOf(key)
    IN  /\ DListFind(htBuckets[b], key) # 0
        /\ htBuckets' = [htBuckets EXCEPT ![b] = RemoveAt(@, DListFind(@, key))]
        /\ UNCHANGED htMemory

\* The order HashTableForEach goes in, and what HashTableCount counts.
HashTableForEach == FoldLeft(LAMBDA seen, b : seen \o htBuckets[b - 1], <<>>, [b \in 1..NUM_BUCKETS |-> b])
HashTableCount == Len(HashTableForEach)
HashTableIsEmpty == \A b \in DOMAIN htBuckets : htBuckets[b] = <<>>

HTElements == [key : HT_KEYS, tag : HT_TAGS]

HashTableNext ==
    \/ \E key \in HT_KEYS : HashTableRemove(key) \/ \E m \in BOOLEAN : HashTableFind(key, m)
    \/ \E e \in HTElements, m \in BOOLEAN : HashTableInsert(e, m)

HashTableSpec == HashTableInit /\ [][HashTableNext]_htVars

-----------------------------------------------------------------------------
HashTableTypeOK ==
    /\ DOMAIN htBuckets = 0 .. NUM_BUCKETS - 1 /\ htMemory \in BOOLEAN
    /\ \A b \in DOMAIN htBuckets : ToSet(htBuckets[b]) \subseteq HTElements

HTHeld == UNION {ToSet(htBuckets[b]) : b \in 0 .. NUM_BUCKETS - 1}

\* A key is in one node of the table, in its own bucket, so that a removal is for good,
\* also after the memory for a move to the front was refused.
HTOneNodePerKey ==
    \A b \in 0 .. NUM_BUCKETS - 1 : \A i, j \in DOMAIN htBuckets[b] :
        /\ BucketOf(htBuckets[b][i].key) = b
        /\ htBuckets[b][i].key = htBuckets[b][j].key => i = j

HTCountsKeys == /\ HashTableCount = Cardinality({e.key : e \in HTHeld})
                /\ HashTableIsEmpty <=> HashTableCount = 0

\* As long as memory is got, a search loses nothing and an insertion replaces the element
\* of its own key and no other, although it writes to the first node of a list.
HTKeepsOthers ==
    \A e \in HTElements :
        /\ HashTableFind(e.key, TRUE) => HTHeld' = HTHeld
        /\ HashTableInsert(e, TRUE) =>
            HTHeld' = {f \in HTHeld : f.key # e.key} \cup {e}
=============================================================================
