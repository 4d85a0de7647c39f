------------------------------ MODULE Libraries ------------------------------
(***************************************************************************)
(* What is called: the data structures, allocators and algorithms of       *)
(* ds/src, the strings and pointers of src/cpp, the exercises of src/c,    *)
(* the sorts by threads and the file logger.  Where one uses another (the  *)
(* task scheduler its priority queue and that its heap, the sorted list    *)
(* its list) it has a copy of its own, so that a behaviour here is a       *)
(* client's sequence of legal calls to one of them.                        *)
(***************************************************************************)
EXTENDS Allocators, DHCP, Trees, HashTable, CircularBuffer, Heap, LinkedLists, Sorting,
        Calculator, Exercises, FileLogger, RefCounts

VARIABLE structure   \* the one the client has made

vars == <<structure, vsaVars, dhcpVars, avlTree, fsaVars, htVars, cbuffVars, vector, heapVars, tsVars,
          bstVars, slVars, dl, dlMerge, sortVars, calcVars, ktVars, bitArr, recVars,
          flVars, tsortVars, rcVars, wcVars, exVars>>

Structures == {"VSA", "DHCP", "AVL", "FSA", "HashTable", "CircularBuffer", "Vector", "PQueue", "TaskScheduler",
               "BST", "SList", "DList", "SortedList", "Sorting", "Calculator", "KnightTour", "BitArray", "Recursion",
               "FileLogger", "ThreadedSorts", "RefCounts", "WordCopies", "BitsAndText"}

\* What a client of another structure would have chosen is one value for all.
Init == /\ structure \in Structures
        /\ VSAInit /\ DHCPInit /\ AVLInit /\ HashTableInit /\ CbuffInit /\ HeapInit /\ SchedulerInit
        /\ BSTInit /\ SListInit /\ DListInit /\ MergeInit /\ BitArrayInit
        /\ RecursionInit /\ FileLoggerInit /\ WordCopiesInit /\ BitsAndTextInit
        /\ CalculatorInit /\ (structure # "Calculator" => calcRoom = Room(0))
        /\ FSAInit /\ (structure # "FSA" => fsaChunkSize = Min(FSA_CHUNK_SIZES))
        /\ VectorInit /\ (structure # "Vector" => vector = VectorCreate(1))
        /\ SortInit /\ (structure # "Sorting" => sortArray = <<Min(SORT_VALUES)>>)
        /\ KnightTourInit /\ (structure # "KnightTour" => ktHeuristic /\ ktStack[1].position = 0)
        /\ RefCountsInit /\ (structure # "RefCounts" => class = "RCString")
        /\ ThreadedSortsInit /\ (structure # "ThreadedSorts" => work = "divisors" /\ allowed = 1)

\* A step of this structure: the others are not there.
Of(name) ==
    /\ structure = name /\ UNCHANGED structure
    /\ IF name = "VSA" THEN TRUE ELSE UNCHANGED vsaVars
    /\ IF name = "DHCP" THEN TRUE ELSE UNCHANGED dhcpVars
    /\ IF name = "AVL" THEN TRUE ELSE UNCHANGED avlTree
    /\ IF name = "FSA" THEN TRUE ELSE UNCHANGED fsaVars
    /\ IF name = "HashTable" THEN TRUE ELSE UNCHANGED htVars
    /\ IF name = "CircularBuffer" THEN TRUE ELSE UNCHANGED cbuffVars
    /\ IF name = "Vector" THEN TRUE ELSE UNCHANGED vector
    /\ IF name = "PQueue" THEN TRUE ELSE UNCHANGED heapVars
    /\ IF name = "TaskScheduler" THEN TRUE ELSE UNCHANGED tsVars
    /\ IF name = "BST" THEN TRUE ELSE UNCHANGED bstVars
    /\ IF name = "SList" THEN TRUE ELSE UNCHANGED slVars
    /\ IF name \in {"DList", "SortedList"} THEN TRUE ELSE UNCHANGED dl
    /\ IF name = "SortedList" THEN TRUE ELSE UNCHANGED dlMerge
    /\ IF name = "Sorting" THEN TRUE ELSE UNCHANGED sortVars
    /\ IF name = "Calculator" THEN TRUE ELSE UNCHANGED calcVars
    /\ IF name = "KnightTour" THEN TRUE ELSE UNCHANGED ktVars
    /\ IF name = "BitArray" THEN TRUE ELSE UNCHANGED bitArr
    /\ IF name = "Recursion" THEN TRUE ELSE UNCHANGED recVars
    /\ IF name = "FileLogger" THEN TRUE ELSE UNCHANGED flVars
    /\ IF name = "ThreadedSorts" THEN TRUE ELSE UNCHANGED tsortVars
    /\ IF name = "RefCounts" THEN TRUE ELSE UNCHANGED rcVars
    /\ IF name = "WordCopies" THEN TRUE ELSE UNCHANGED wcVars
    /\ IF name = "BitsAndText" THEN TRUE ELSE UNCHANGED exVars

Next == \/ Of("VSA") /\ VSANext
        \/ Of("DHCP") /\ DHCPNext
        \/ Of("AVL") /\ AVLNext
        \/ Of("FSA") /\ FSANext
        \/ Of("HashTable") /\ HashTableNext
        \/ Of("CircularBuffer") /\ CbuffNext
        \/ Of("Vector") /\ VectorNext
        \/ Of("PQueue") /\ HeapNext
        \/ Of("TaskScheduler") /\ TaskSchedulerNext
        \/ Of("BST") /\ BSTNext
        \/ Of("SList") /\ SListNext
        \/ Of("DList") /\ DListNext
        \/ Of("SortedList") /\ SortedListNext
        \/ Of("Sorting") /\ SortNext
        \/ Of("Calculator") /\ CalculatorNext
        \/ Of("KnightTour") /\ KnightTourNext
        \/ Of("BitArray") /\ BitArrayNext
        \/ Of("Recursion") /\ RecursionNext
        \/ Of("FileLogger") /\ FileLoggerNext
        \/ Of("ThreadedSorts") /\ ThreadedSortsNext
        \/ Of("RefCounts") /\ RefCountsNext
        \/ Of("WordCopies") /\ WordCopiesNext
        \/ Of("BitsAndText") /\ BitsAndTextNext

Spec == Init /\ [][Next]_vars

-----------------------------------------------------------------------------
(***************************************************************************)
(* Insertions and removals in any order leave an AVL tree in order and     *)
(* balanced by true heights, a binary search tree whose iterators walk all *)
(* its elements in order forward and back, lists whose nodes are each in   *)
(* one list with links that agree in both directions, a hash table with    *)
(* one node for a key, a vector whose elements fit in its block; and each  *)
(* task of a scheduler is cleaned up once.                                 *)
(***************************************************************************)
StructuresAreSound ==
    /\ structure = "Vector" => VectorFits
    /\ structure = "AVL" => AVLBalanced
    /\ structure = "BST" => BSTWalksInOrder
    /\ structure = "SList" => SListsAreSound
    /\ structure = "DList" => DListsAreTied \/ DListsAreSound
    /\ structure = "SortedList" => SortedListsStaySorted
    /\ structure = "HashTable" => HashTableTypeOK /\ HTOneNodePerKey /\ HTCountsKeys
    /\ structure = "TaskScheduler" => TasksAreCleanedOnce

(***************************************************************************)
(* What a call adds, takes out or returns is what its name says, and the   *)
(* rest is as it was: of an AVL tree, a binary search tree, a heap, a hash *)
(* table and both kinds of list.                                           *)
(***************************************************************************)
ContentsFollowCalls ==
    [][/\ structure = "AVL" => AVLChangesOne
       /\ structure = "BST" => BSTReturnsIterators
       /\ structure = "PQueue" => HeapKeepsElements
       /\ structure = "HashTable" => HTKeepsOthers
       /\ structure = "SList" => SListsFollowCalls
       /\ structure = "DList" => SplicesMoveTheRange]_vars

(***************************************************************************)
(* The algorithms return what they are named for: the sorts and searches,  *)
(* the sorts and sums by threads that each work on a slice, the            *)
(* calculator, the knight's tour, the bit array, the recursions, copies by *)
(* words, the exercises with bits and texts.                               *)
(***************************************************************************)
AlgorithmsAreRight ==
    /\ structure = "Sorting" => SortsSort
    /\ structure = "ThreadedSorts" => SlicesAddUp
    /\ structure = "Calculator" => CalculatorEvaluates
    /\ structure = "KnightTour" => KnightTourIsATour
    /\ structure = "BitArray" => BitsAreWhereTheyShould
    /\ structure = "Recursion" => RecursionIsRight
    /\ structure = "WordCopies" => CopiesAreExact
    /\ structure = "BitsAndText" => ExercisesAreRight
=============================================================================
