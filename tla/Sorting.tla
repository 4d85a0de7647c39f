------------------------------ MODULE Sorting ------------------------------
(***************************************************************************)
(* The sorts and searches of ds/src/compare_sort.c and quick_merge.c, on   *)
(* arrays of numbers; RadixSort on those that are not negative, because it *)
(* indexes its counts by their digits.                                     *)
(* Arrays count from 1 here.  Memory is always got: a refusal leaves the   *)
(* array as it is, except in RadixSort, which then stops between digits.   *)
(***************************************************************************)
EXTENDS Integers, SequencesExt

CONSTANTS SORT_VALUES,   \* the numbers in the arrays,
          SORT_NEGATED,  \* and those that are there negated
          SORT_SIZE      \* the size of the arrays, at most

VARIABLES sortArray,     \* the array a client has
          sortResult     \* what a sort has made of it, or <<>>

sortVars == <<sortArray, sortResult>>

BASE == 10
Nums == SORT_VALUES \cup {-num : num \in SORT_NEGATED}

SwapIn(arr, i, j) == [arr EXCEPT ![i] = arr[j], ![j] = arr[i]]
UpTo(n) == [i \in 1..n |-> i]
MaxOf(arr) == Max(ToSet(arr))

-----------------------------------------------------------------------------
(* QuickSortRecursive and Qsort *)

\* [arr, store] after one element is scanned: one not greater than the pivot is stored.
Scan(part, i, pivot) ==
    IF part.arr[i] > part.arr[pivot] THEN part
    ELSE [arr |-> SwapIn(part.arr, part.store, i), store |-> part.store + 1]

Partition(arr, low, high) ==
    LET part == FoldLeft(LAMBDA p, k : Scan(p, low + k - 1, high),
                         [arr |-> arr, store |-> low], UpTo(high - low))
    IN  [part EXCEPT !.arr = SwapIn(@, part.store, high)]

RECURSIVE SortRange(_, _, _)
SortRange(arr, low, high) ==
    IF low >= high THEN arr
    ELSE LET part == Partition(arr, low, high)
             left == IF part.store > low THEN SortRange(part.arr, low, part.store - 1) ELSE part.arr
         IN  IF part.store < high THEN SortRange(left, part.store + 1, high) ELSE left

QuickSortRecursive(arr) == IF Len(arr) < 2 THEN arr ELSE SortRange(arr, 1, Len(arr))

-----------------------------------------------------------------------------
(* MergeSortRecursive and MergeSort: the left half is copied out, and both *)
(* are merged into the place where the right half still is.               *)

RECURSIVE Conquer(_, _, _, _, _)
Conquer(arr, at, left, right, last) ==
    IF left = <<>> THEN arr
    ELSE IF right > last \/ Head(left) <= arr[right]
         THEN Conquer([arr EXCEPT ![at] = Head(left)], at + 1, Tail(left), right, last)
         ELSE Conquer([arr EXCEPT ![at] = arr[right]], at + 1, left, right + 1, last)

RECURSIVE DivideConquer(_, _, _)
DivideConquer(arr, left, right) ==
    IF left >= right THEN arr
    ELSE LET mid == left + (right - left) \div 2
             halves == DivideConquer(DivideConquer(arr, left, mid), mid + 1, right)
         IN  Conquer(halves, left, SubSeq(halves, left, mid), mid + 1, right)

MergeSortRecursive(arr) == DivideConquer(arr, 1, Len(arr))

-----------------------------------------------------------------------------
\* One pass over the first n pairs of neighbours.
BubblePass(arr, n) ==
    FoldLeft(LAMBDA a, j : IF a[j] > a[j + 1] THEN SwapIn(a, j, j + 1) ELSE a, arr, UpTo(n))
RECURSIVE BubbleFrom(_, _)
BubbleFrom(arr, n) ==
    IF n < 1 \/ BubblePass(arr, n) = arr THEN arr ELSE BubbleFrom(BubblePass(arr, n), n - 1)
BubbleSort(arr) == BubbleFrom(arr, Len(arr) - 1)

FirstSmallest(arr, from) ==
    CHOOSE i \in from..Len(arr) : \A j \in from..Len(arr) : arr[i] < arr[j] \/ (arr[i] = arr[j] /\ i <= j)
SelectionSort(arr) ==
    FoldLeft(LAMBDA a, i : SwapIn(a, i, FirstSmallest(a, i)), arr, UpTo(Len(arr) - 1))

\* Element i goes behind the last one before it that is not greater.
InsertedInOrder(arr, i) ==
    LET place == 1 + Max({0} \cup {k \in 1..(i - 1) : arr[k] <= arr[i]})
    IN  InsertAt(RemoveAt(arr, i), place, arr[i])
InsertionSort(arr) == FoldLeft(InsertedInOrder, arr, UpTo(Len(arr)))

\* The running counts of digits give each element the place behind those with a smaller
\* digit and those with the same one before it.
Placed_LastFirst(arr, Digit(_)) ==
    LET place(i) == Cardinality({j \in DOMAIN arr : Digit(arr[j]) < Digit(arr[i])
                                                    \/ (Digit(arr[j]) = Digit(arr[i]) /\ j >= i)})
    IN  [k \in DOMAIN arr |-> arr[CHOOSE i \in DOMAIN arr : place(i) = k]]
Placed(arr, Digit(_)) ==
    LET place(i) == Cardinality({j \in DOMAIN arr : Digit(arr[j]) < Digit(arr[i])
                                                    \/ (Digit(arr[j]) = Digit(arr[i]) /\ j <= i)})
    IN  [k \in DOMAIN arr |-> arr[CHOOSE i \in DOMAIN arr : place(i) = k]]

CountingSort(arr) == Placed(arr, LAMBDA num : num - Min(ToSet(arr)))

RadixCountingSort_LastFirst(arr, divide_by) == Placed_LastFirst(arr, LAMBDA num : (num \div divide_by) % BASE)
RadixCountingSort(arr, divide_by) == Placed(arr, LAMBDA num : (num \div divide_by) % BASE)
RECURSIVE RadixFrom(_, _)
RadixFrom(arr, divide_by) ==
    IF MaxOf(arr) \div divide_by = 0 THEN arr
    ELSE RadixFrom(RadixCountingSort(arr, divide_by), divide_by * BASE)
RadixSort(arr) == RadixFrom(arr, 1)

-----------------------------------------------------------------------------
\* Positions from 0, as returned; right becomes -1, or SIZE_MAX, when all is greater.
RECURSIVE BinarySearch(_, _, _, _)
BinarySearch(arr, left, right, num) ==
    LET mid == left + (right - left) \div 2
    IN  IF left > right THEN -1
        ELSE IF arr[mid + 1] = num THEN mid
        ELSE IF arr[mid + 1] < num THEN BinarySearch(arr, mid + 1, right, num)
        ELSE BinarySearch(arr, left, mid - 1, num)
BinarySearchIter(arr, num) == BinarySearch(arr, 0, Len(arr) - 1, num)
BinarySearchRecursive(arr, num) == BinarySearch(arr, 0, Len(arr) - 1, num)

\* The same again, quick sort on elements of any size: compare_sort.c has these a second time
\* and quick_merge.c a third.
MergeSort(arr) == IF Len(arr) < 2 THEN arr ELSE MergeSortRecursive(arr)
Qsort(arr) == QuickSortRecursive(arr)
QuickMergeMergeSort(arr) == MergeSort(arr)
QuickMergeQsort(arr) == Qsort(arr)
QuickMergeSearch(arr, num) == {BinarySearchIter(arr, num), BinarySearchRecursive(arr, num)}

-----------------------------------------------------------------------------
SortInit == sortArray \in UNION {[1..n -> Nums] : n \in 1..SORT_SIZE} /\ sortResult = <<>>

Sorted(arr) == {QuickSortRecursive(arr), MergeSortRecursive(arr), BubbleSort(arr), SelectionSort(arr),
                InsertionSort(arr), CountingSort(arr), QuickMergeMergeSort(arr), QuickMergeQsort(arr)}
                   \cup (IF ToSet(arr) \subseteq Nat THEN {RadixSort(arr)} ELSE {})
SortNext == sortResult = <<>> /\ sortResult' \in Sorted(sortArray) /\ UNCHANGED sortArray

(***************************************************************************)
(* Every sort gives the same array, the one in order with the elements of  *)
(* the first, and both searches find in it each number that is there and   *)
(* no other.                                                               *)
(***************************************************************************)
SortsSort ==
    sortResult # <<>> =>
        /\ sortResult = SortSeq(sortArray, <)
        /\ \A num \in Nums : \A at \in QuickMergeSearch(sortResult, num) :
            IF at >= 0 THEN sortResult[at + 1] = num ELSE num \notin ToSet(sortResult)

-----------------------------------------------------------------------------
(***************************************************************************)
(* Work cut into slices for a few threads, joined in order and put         *)
(* together: CountingSort, the sort of a shuffled dictionary, and the sum  *)
(* of divisors of threds.c (Q4).  A thread touches its own slice only, so  *)
(* that its work is one step.  A word is its text and which reading of the *)
(* dictionary it is from.  The dictionary sort looks whether a thread      *)
(* could be created, the others do not.  Left out: a failing malloc, which *)
(* Merge overlooks, and fewer words than threads.                          *)
(***************************************************************************)

CONSTANTS
    SORT_THREADS,       \* NUM_OF_THREADS, NUM_THREADS, NUM_OF_THREAD
    MAX_REFUSED,        \* threads that cannot be created unseen, at most
    BYTES, MAX_BYTES,   \* the values to sort, and how many at most
    TEXTS,              \* of a dictionary's words, as numbers
    NUM_OF_DICTS,
    NUM_TO_SUM_DIVISERS

VARIABLES
    work, given,  \* what is done, and with what
    array,        \* bytes or words
    phase,        \* main's
    allowed,      \* threads that can be created
    started,      \* threads that were asked for
    refused,      \* those of them that could not be created, unseen
    finished,     \* threads that have returned
    partial,      \* what each one counted; its sum at 0
    joined,       \* how many main has joined
    total,        \* main's sum of what those counted
    status

tsortVars == <<work, given, array, phase, allowed, started, refused, finished, partial, joined, total, status>>

ThreadNums == 1 .. SORT_THREADS
Words == TEXTS \X (1 .. NUM_OF_DICTS)
Orders(S) == {p \in [1 .. Cardinality(S) -> S] : ToSet(p) = S}
Zero == [b \in BYTES \cup {0} |-> 0]

\* InitDict, and qsort by a comparison that throws dice: any order.
ThreadedSortsInit ==
    /\ \/ work = "counting" /\ given \in UNION {[1 .. n -> BYTES] : n \in 1 .. MAX_BYTES}
          /\ allowed = SORT_THREADS
       \/ work = "dictionary" /\ given \in Orders(Words) /\ allowed \in 0 .. SORT_THREADS
       \/ work = "divisors" /\ given = <<>> /\ allowed \in 0 .. SORT_THREADS   \* RLIMIT_NPROC, or 0
    /\ array = given /\ phase = "creates" /\ started = 0 /\ refused = {} /\ finished = {}
    /\ partial = [t \in ThreadNums |-> Zero] /\ joined = 0 /\ total = Zero /\ status = 0

\* Bug: the first of the threads that take a leftover has none.
SliceSize_OffByOne(t) ==
    Len(array) \div SORT_THREADS + (IF t < Len(array) % SORT_THREADS THEN 1 ELSE 0)

\* chunk + (i < leftovers)
SliceSize(t) == Len(array) \div SORT_THREADS + (IF t <= Len(array) % SORT_THREADS THEN 1 ELSE 0)
SliceEnd(t) == FoldFunction(+, 0, [u \in 1 .. t |-> SliceSize(u)])
Slice(t) == SliceEnd(t - 1) + 1 .. SliceEnd(t)

CreateThread ==
    /\ phase = "creates" /\ started < allowed
    /\ started' = started + 1
    /\ UNCHANGED <<work, given, array, phase, allowed, refused, finished, partial, joined, total, status>>

\* pthread_create fails, and neither CountingSort nor Q4 looks.
CreateThreadFails ==
    /\ phase = "creates" /\ started < allowed /\ work # "dictionary"
    /\ Cardinality(refused) < MAX_REFUSED
    /\ started' = started + 1 /\ refused' = refused \cup {started + 1}
    /\ UNCHANGED <<work, given, array, phase, allowed, finished, partial, joined, total, status>>

\* DictSort joins what it has created before it gives up.
CreationEnds ==
    /\ phase = "creates" /\ started = allowed
    /\ phase' = "joins"
    /\ status' = IF work = "dictionary" /\ allowed < SORT_THREADS THEN 1 ELSE 0
    /\ UNCHANGED <<work, given, array, allowed, started, refused, finished, partial, joined, total>>

Created(n) == (1 .. n) \ refused

Finishes(t, what) == /\ work = what /\ t <= started /\ t \notin refused \cup finished
                     /\ finished' = finished \cup {t}

ThreadCounting(t) ==
    /\ Finishes(t, "counting")
    /\ partial' = [partial EXCEPT ![t] =
                     [b \in DOMAIN Zero |-> Cardinality({i \in Slice(t) : array[i] = b})]]
    /\ UNCHANGED <<work, given, array, phase, allowed, started, refused, joined, total, status>>

TextsRise(words) == \A i \in 1 .. Len(words) - 1 : words[i][1] <= words[i + 1][1]

\* qsort of the slice: equal words in any order.
ThreadSorting(t) ==
    /\ Finishes(t, "dictionary")
    /\ \E s \in Orders({array[i] : i \in Slice(t)}) :
        /\ TextsRise(s)
        /\ array' = [i \in DOMAIN array |-> IF i \in Slice(t) THEN s[i - SliceEnd(t - 1)] ELSE array[i]]
    /\ UNCHANGED <<work, given, phase, allowed, started, refused, partial, joined, total, status>>

\* Bug: the last thread's share ends as the others' do.
SumOfDivisorsMultiThreads_Share(t) ==
    LET share == NUM_TO_SUM_DIVISERS \div allowed
    IN /\ Finishes(t, "divisors")
       /\ partial' = [partial EXCEPT ![t][0] =
            FoldSet(+, 0, {i \in (t - 1) * share + 1 .. t * share : NUM_TO_SUM_DIVISERS % i = 0})]
       /\ UNCHANGED <<work, given, array, phase, allowed, started, refused, joined, total, status>>

\* The last thread goes on to the end.
SumOfDivisorsMultiThreads(t) ==
    LET share == NUM_TO_SUM_DIVISERS \div allowed
        end == IF t = allowed THEN NUM_TO_SUM_DIVISERS ELSE t * share
    IN /\ Finishes(t, "divisors")
       /\ partial' = [partial EXCEPT ![t][0] =
            FoldSet(+, 0, {i \in (t - 1) * share + 1 .. end : NUM_TO_SUM_DIVISERS % i = 0})]
       /\ UNCHANGED <<work, given, array, phase, allowed, started, refused, joined, total, status>>

\* Bug: what a thread has counted is taken without waiting for it.
Join_NotWaited ==
    /\ phase = "joins" /\ joined < started
    /\ joined' = joined + 1
    /\ total' = [b \in DOMAIN Zero |-> total[b] + partial[joined + 1][b]]
    /\ UNCHANGED <<work, given, array, phase, allowed, started, refused, finished, partial, status>>

\* pthread_join in the order of creation; JoinAndMerge, and the sum of Q4.
Join ==
    /\ phase = "joins" /\ joined < started /\ joined + 1 \in finished
    /\ joined' = joined + 1
    /\ total' = [b \in DOMAIN Zero |-> total[b] + partial[joined + 1][b]]
    /\ UNCHANGED <<work, given, array, phase, allowed, started, refused, finished, partial, status>>

\* The handle of a thread that is not there was never written: pthread_join crashes, or it fails
\* and Q4 adds what it got from the last one again, where CountingSort finds a count of nothing.
JoinRefused ==
    /\ phase = "joins" /\ joined < started /\ joined + 1 \in refused
    /\ \/ phase' = "crashed" /\ UNCHANGED <<joined, total>>
       \/ /\ joined' = joined + 1
          /\ total' = IF work = "divisors" /\ Created(joined) # {}
                      THEN [total EXCEPT ![0] = @ + partial[Max(Created(joined))][0]] ELSE total
          /\ UNCHANGED phase
    /\ UNCHANGED <<work, given, array, allowed, started, refused, finished, partial, status>>

\* The left word goes first when both are equal.
RECURSIVE SortLeftRight(_, _)
SortLeftRight(l, r) ==
    IF l = <<>> \/ r = <<>> THEN l \o r
    ELSE IF Head(l)[1] <= Head(r)[1]
         THEN <<Head(l)>> \o SortLeftRight(Tail(l), r)
         ELSE <<Head(r)>> \o SortLeftRight(l, Tail(r))

\* The words up to each slice's end are merged with the next slice.
Merge(words, t) ==
    SortLeftRight(SubSeq(words, 1, SliceEnd(t - 1)), SubSeq(words, SliceEnd(t - 1) + 1, SliceEnd(t)))
        \o SubSeq(words, SliceEnd(t) + 1, Len(words))
MergedWords == FoldLeft(Merge, array, [t \in 1 .. SORT_THREADS - 1 |-> t + 1])

CountedBytes == FoldLeft(LAMBDA s, b : s \o [i \in 1 .. total[b] |-> b], <<>>, SetToSortSeq(BYTES, <))

SortReturns ==
    /\ phase = "joins" /\ joined = started
    /\ phase' = "returned"
    /\ array' = CASE work = "counting" ->
                        CountedBytes \o SubSeq(array, Len(CountedBytes) + 1, Len(array))
                  [] work = "dictionary" /\ status = 0 -> MergedWords
                  [] OTHER -> array
    /\ UNCHANGED <<work, given, allowed, started, refused, finished, partial, joined, total, status>>

ThreadedSortsNext ==
    \/ CreateThread \/ CreateThreadFails \/ CreationEnds \/ Join \/ JoinRefused \/ SortReturns
    \/ \E t \in ThreadNums : ThreadCounting(t) \/ ThreadSorting(t) \/ SumOfDivisorsMultiThreads(t)

-----------------------------------------------------------------------------
Divisors == {i \in 1 .. NUM_TO_SUM_DIVISERS : NUM_TO_SUM_DIVISERS % i = 0}
CountedOf(arr) == FoldLeft(\o, <<>>, [t \in ThreadNums |->
                             IF t \in refused THEN <<>> ELSE SubSeq(arr, SliceEnd(t - 1) + 1, SliceEnd(t))])

(***************************************************************************)
(* The threads' slices cover everything once, whatever is left over by the *)
(* division, and main uses what they did when they are done: bytes and     *)
(* words are sorted and none is lost, the divisors are all in the sum.  A  *)
(* thread that could not be created is made up for by DictSort alone:      *)
(* CountingSort loses its bytes, and leaves others at the end, and Q4 sums *)
(* the share of another one again, or nothing at all with no thread.       *)
(***************************************************************************)
SlicesAddUp ==
    phase = "returned" =>
        /\ finished = Created(started)
        /\ work = "counting" =>
            LET counted == SortSeq(CountedOf(given), <)
            IN  array = counted \o SubSeq(given, Len(counted) + 1, Len(given))
        /\ work = "dictionary" => ToSet(array) = Words /\ (status = 0 => TextsRise(array))
        /\ work = "divisors" =>
            total[0] = IF allowed = 0 THEN 0
                       ELSE IF refused = {} THEN FoldSet(+, 0, Divisors)
                       ELSE FoldFunction(+, 0, [t \in 1 .. started |->
                              LET before == Created(t) IN IF before = {} THEN 0 ELSE partial[Max(before)][0]])
=============================================================================
