---------------------------- MODULE LinkedLists ----------------------------
(***************************************************************************)
(* The lists of ds/src: singly linked, doubly linked and sorted, and the   *)
(* queue.  The lists of a kind share the heap, and their nodes are         *)
(* addresses, because a client's iterators are.                            *)
(***************************************************************************)
EXTENDS Integers, SequencesExt

-----------------------------------------------------------------------------
(***************************************************************************)
(* The singly linked list of ds/src/singly_linked_list.c, and the queue of *)
(* queue.c, which inserts at the end and removes at the beginning of one.  *)
(* Two lists share the heap.  An insertion or a removal in the middle      *)
(* copies the data between two nodes; the last node of a list is a dummy   *)
(* whose data points back to the list's tail, written -l for list l.       *)
(***************************************************************************)

CONSTANTS SL_DATA,    \* what a client inserts: positive numbers
          SL_NODES    \* the addresses of the nodes

VARIABLES slNode,     \* slNode[n]: the val and next of the node at address n
          slList      \* slList[l]: its head and tail

slVars == <<slNode, slList>>

SLNull == 0
Lists == {1, 2}
TailOf(l) == -l

SListInit == /\ slNode = [n \in Lists |-> [val |-> TailOf(n), next |-> SLNull]]
             /\ slList = [l \in Lists |-> [head |-> l, tail |-> l]]

\* The nodes from one up to, not including, another: what SListForEach, Find and Count walk.
RECURSIVE SLWalk(_, _, _)
SLWalk(node, from, to) == IF from = to THEN <<>> ELSE <<from>> \o SLWalk(node, node[from].next, to)
SLNodesOf(l) == SLWalk(slNode, slList[l].head, slList[l].tail)
SLContents(l) == [i \in DOMAIN SLNodesOf(l) |-> slNode[SLNodesOf(l)[i]].val]

\* The new node takes what was at the position, and the position the data.
SListInsert(l, pos, data) ==
    LET free == SL_NODES \ DOMAIN slNode
        new == Min(free)
    IN  /\ free # {}
        /\ slNode' = (new :> slNode[pos]) @@ [slNode EXCEPT ![pos] = [val |-> data, next |-> new]]
        /\ slList' = IF pos = slList[l].tail THEN [slList EXCEPT ![l].tail = new] ELSE slList

\* When the dummy was the next one, iter becomes the dummy and the list is told through it.
NewTails_Kept(node, iter) == slList
NewTails(node, iter) ==
    IF node[iter].next = SLNull THEN [slList EXCEPT ![-node[iter].val].tail = iter] ELSE slList

SListRemove(iter) ==
    LET temp == slNode[iter].next
        node == [slNode EXCEPT ![iter] = slNode[temp]]
    IN  /\ slNode' = [n \in DOMAIN node \ {temp} |-> node[n]]
        /\ slList' = NewTails(node, iter)

\* The dummy of dst becomes a copy of src's first node, which becomes src's dummy.
SListAppend(dst, src) ==
    /\ slList[src].head # slList[src].tail
    /\ slNode' = [slNode EXCEPT
                    ![slList[dst].tail] = slNode[slList[src].head],
                    ![slList[src].head] = [val |-> TailOf(src), next |-> SLNull],
                    ![slList[src].tail].val = TailOf(dst)]
    /\ slList' = [slList EXCEPT ![dst].tail = slList[src].tail, ![src].tail = slList[src].head]

QueueEnqueue(l, data) == SListInsert(l, slList[l].tail, data)
QueueDequeue(l) == slList[l].head # slList[l].tail /\ SListRemove(slList[l].head)
QueueAppend(dst, src) == SListAppend(dst, src)

SListNext == \E l, other \in Lists :
    \/ \E i \in DOMAIN SLNodesOf(l) : \/ SListRemove(SLNodesOf(l)[i])
                                      \/ \E data \in SL_DATA : SListInsert(l, SLNodesOf(l)[i], data)
    \/ QueueDequeue(l) \/ \E data \in SL_DATA : QueueEnqueue(l, data)
    \/ l # other /\ QueueAppend(l, other)

-----------------------------------------------------------------------------
(***************************************************************************)
(* After any calls each list ends at its own dummy, which knows its list,  *)
(* and no node is in two lists or in none.                                 *)
(***************************************************************************)
SListsAreSound ==
    /\ \A l \in Lists : /\ slNode[slList[l].tail] = [val |-> TailOf(l), next |-> SLNull]
                        /\ \A i \in DOMAIN SLContents(l) : SLContents(l)[i] \in SL_DATA
    /\ ToSet(SLNodesOf(1)) \cap ToSet(SLNodesOf(2)) = {}
    /\ DOMAIN slNode = UNION {ToSet(SLNodesOf(l)) \cup {slList[l].tail} : l \in Lists}

(***************************************************************************)
(* Although data moves between nodes, a call does to the sequence of data  *)
(* what its name says, and nothing to the other list.                      *)
(***************************************************************************)
SLNodeAt(l, i) == Append(SLNodesOf(l), slList[l].tail)[i]
SListsFollowCalls ==
    \A l, other \in Lists : l # other =>
        LET kept == SLContents(other)' = SLContents(other)
            before == SLContents(l)
            after == SLContents(l)'
        IN  /\ \A i \in 1..(Len(before) + 1), data \in SL_DATA :
                SListInsert(l, SLNodeAt(l, i), data) => kept /\ after = InsertAt(before, i, data)
            /\ \A i \in DOMAIN before :
                SListRemove(SLNodeAt(l, i)) => kept /\ after = RemoveAt(before, i)
            /\ SListAppend(l, other) => /\ after = before \o SLContents(other)
                                       /\ SLContents(other)' = <<>>

-----------------------------------------------------------------------------
(***************************************************************************)
(* The doubly linked list of ds/src/d_link_list.c: two lists, each between *)
(* a head and a tail dummy of its own; the nodes are their addresses.      *)
(***************************************************************************)

CONSTANTS DL_DATA,     \* what a client inserts
          DL_NODES     \* the addresses of the nodes, positive numbers

VARIABLE dl            \* dl[n]: the val, next and prev of the node at address n

DLists == {1, 2}
DHead(l) == 1 - 2 * l
DTail(l) == -2 * l
DLNull == 0
NoVal == 0
Dummies == UNION {{DHead(l), DTail(l)} : l \in DLists}

DListInit == dl = [n \in Dummies |->
    LET l == CHOOSE k \in DLists : n \in {DHead(k), DTail(k)}
    IN  IF n = DHead(l) THEN [val |-> NoVal, next |-> DTail(l), prev |-> DLNull]
        ELSE [val |-> NoVal, next |-> DLNull, prev |-> DHead(l)]]

DListBegin(t, l) == t[DHead(l)].next
DListIsEmpty(t, l) == DListBegin(t, l) = DTail(l)

\* The nodes from one up to another: what DListForEach and DListCount walk.
RECURSIVE DListWalk(_, _, _)
DListWalk(t, from, to) == IF from = to THEN <<>> ELSE <<from>> \o DListWalk(t, t[from].next, to)
DNodes(t, l) == DListWalk(t, DListBegin(t, l), DTail(l))
DContents(t, l) == [i \in DOMAIN DNodes(t, l) |-> t[DNodes(t, l)[i]].val]

\* The first node from `from' on whose data matches, or `to'.
RECURSIVE DListFirst(_, _, _, _)
DListFirst(t, from, to, matching) == IF from = to \/ t[from].val \in matching THEN from
                                     ELSE DListFirst(t, t[from].next, to, matching)

HasMemory(t) == DL_NODES \ DOMAIN t # {}

DListInserted(t, pos, data) ==
    LET new == Min(DL_NODES \ DOMAIN t)
        prev == t[pos].prev
    IN  (new :> [val |-> data, next |-> pos, prev |-> prev])
            @@ [t EXCEPT ![prev].next = new, ![pos].prev = new]

DListRemoved(t, iter) ==
    LET linked == [t EXCEPT ![t[iter].prev].next = t[iter].next, ![t[iter].next].prev = t[iter].prev]
    IN  [n \in DOMAIN t \ {iter} |-> linked[n]]

DListSplice_OneWay(t, from, to, where) ==
    [t EXCEPT ![t[to].prev].next = where, ![t[from].prev].next = to, ![t[where].prev].next = from]

(***************************************************************************)
(* The nodes from `from' to before `to' go before `where', which is not    *)
(* one of them.  An empty range, from = to, is not treated apart: `from'   *)
(* stays where it is and the nodes before `where' lead to it too.          *)
(***************************************************************************)
DListSplice(t, from, to, where) ==
    LET last == t[to].prev
        first == t[from].prev
        before == t[where].prev
        a == [t EXCEPT ![last].next = where, ![where].prev = last]
        b == [a EXCEPT ![a[from].prev].next = to, ![to].prev = a[from].prev]
    IN  [b EXCEPT ![before].next = from, ![from].prev = before]

\* Every match of the range is pushed back to the other list, as far as memory goes.
RECURSIVE DListMultiFind(_, _, _, _, _)
DListMultiFind(t, from, to, matching, out) ==
    LET found == DListFirst(t, from, to, matching)
    IN  IF found = to \/ ~HasMemory(t) THEN t
        ELSE DListMultiFind(DListInserted(t, DTail(out), t[found].val), t[found].next, to, matching, out)

DListInsert(pos, data) == HasMemory(dl) /\ dl' = DListInserted(dl, pos, data)
DListRemove(iter) == dl' = DListRemoved(dl, iter)
DListPopBack(l) == ~DListIsEmpty(dl, l) /\ DListRemove(dl[DTail(l)].prev)
DListPopFront(l) == ~DListIsEmpty(dl, l) /\ DListRemove(DListBegin(dl, l))

\* The node that the list's forward links end at: its own tail, or that of the list it is tied to.
DListLast(t, l) == Last(DListWalk(t, DListBegin(t, l), DLNull))
DListsAreTied == DListLast(dl, 1) = DListLast(dl, 2)

\* A walk through tied lists may miss the end it looks for: a behaviour stops there.
DListNext == ~DListsAreTied /\ \E l \in DLists :
    LET other == 3 - l
        nodes == Append(DNodes(dl, l), DTail(l))
    IN  \/ \E i \in DOMAIN nodes, data \in DL_DATA : DListInsert(nodes[i], data)
        \/ \E i \in DOMAIN DNodes(dl, l) : DListRemove(nodes[i])
        \/ DListPopBack(l) \/ DListPopFront(l)
        \/ \E i, j \in DOMAIN nodes, where \in ToSet(Append(DNodes(dl, other), DTail(other))) :
                i <= j /\ dl' = DListSplice(dl, nodes[i], nodes[j], where)
        \/ \E data \in DL_DATA :
                dl' = DListMultiFind(dl, DListBegin(dl, l), DTail(l), {data}, other)

-----------------------------------------------------------------------------
(***************************************************************************)
(* Forward and backward links agree and every node is in one list: no      *)
(* removal, splice or insertion leaves a way to a node that is gone.  An   *)
(* empty splice does not keep it: after one the lists are tied.            *)
(***************************************************************************)
DListsAreSound ==
    /\ \A n \in DOMAIN dl : /\ dl[n].next # DLNull => dl[dl[n].next].prev = n
                           /\ dl[n].prev # DLNull => dl[dl[n].prev].next = n
    /\ DOMAIN dl \ Dummies = ToSet(DNodes(dl, 1)) \cup ToSet(DNodes(dl, 2))
    /\ ToSet(DNodes(dl, 1)) \cap ToSet(DNodes(dl, 2)) = {}

(***************************************************************************)
(* A splice takes the range out of one list, in its order, and puts it     *)
(* into the other.  Only an empty range, which should change nothing,      *)
(* leaves its own list as it was and ties the other to it: forward that    *)
(* one goes on from `from' to the wrong end, and its rest is cut off.      *)
(***************************************************************************)
SplicesMoveTheRange ==
    ~DListsAreTied => \A l \in DLists :
        LET other == 3 - l
            from == Append(DNodes(dl, l), DTail(l))
            to == Append(DNodes(dl, other), DTail(other))
            Ahead(k) == DListWalk(dl', dl'[DHead(k)].next, DLNull)
        IN  \A i, j \in DOMAIN from, k \in DOMAIN to :
            i <= j /\ dl' = DListSplice(dl, from[i], from[j], to[k]) =>
                IF i < j
                THEN /\ DNodes(dl', l) = SubSeq(from, 1, i - 1) \o SubSeq(from, j, Len(from) - 1)
                     /\ DNodes(dl', other) =
                         SubSeq(to, 1, k - 1) \o SubSeq(from, i, j - 1) \o SubSeq(to, k, Len(to) - 1)
                ELSE /\ Ahead(l) = from
                     /\ Ahead(other) = SubSeq(to, 1, k - 1) \o SubSeq(from, i, Len(from))

-----------------------------------------------------------------------------
(***************************************************************************)
(* The sorted lists of ds/src/sorted_list.c on two doubly linked lists,    *)
(* that compare data as numbers.                                           *)
(***************************************************************************)

VARIABLE dlMerge     \* the lists dst and src of a SortedLMerge that runs, or <<>>

SortedLInsert(l, data) == DListInsert(DListFirst(dl, DListBegin(dl, l), DTail(l),
                                                 {e \in DL_DATA : e > data}), data)
SortedLPopFront(l) == ~DListIsEmpty(dl, l) /\ DListRemove(DListBegin(dl, l))
SortedLPopBack(l) == ~DListIsEmpty(dl, l) /\ DListRemove(dl[DTail(l)].prev)
SortedLRemove(l) == \E i \in DOMAIN DNodes(dl, l) : DListRemove(DNodes(dl, l)[i])

MergeInit == dlMerge = <<>>
SortedLMerge(dst, src) == dlMerge = <<>> /\ dlMerge' = <<dst, src>> /\ UNCHANGED dl

\* The first node of dst whose data is not less than the first of src.
MergePlace(dst, src) == LET data == dl[DListBegin(dl, src)].val
                        IN  DListFirst(dl, DListBegin(dl, dst), DTail(dst), {e \in DL_DATA : e >= data})

\* The end of src's data that are less: of all, when the place is the end of dst.
RunEnd_All(src, dst, where) == DTail(src)
RunEnd(src, dst, where) ==
    DListFirst(dl, DListBegin(dl, src), DTail(src),
               IF where = DTail(dst) THEN {} ELSE {e \in DL_DATA : e >= dl[where].val})

(***************************************************************************)
(* One turn of the loop.  When the data at the place is equal to src's     *)
(* first, the run is empty: the splice ties src's first node into dst      *)
(* without taking it out of src, and every later turn finds it there and   *)
(* changes nothing.                                                        *)
(***************************************************************************)
MergeTurn == \E dst, src \in DLists :
    LET where == MergePlace(dst, src)
    IN  /\ dlMerge = <<dst, src>>
        /\ IF DListIsEmpty(dl, src) THEN dlMerge' = <<>> /\ UNCHANGED dl
           ELSE /\ dl' = DListSplice(dl, DListBegin(dl, src), RunEnd(src, dst, where), where)
                /\ UNCHANGED dlMerge

SortedListNext == \E l \in DLists :
    \/ dlMerge = <<>> /\ UNCHANGED dlMerge /\
        \/ \E data \in DL_DATA : SortedLInsert(l, data)
        \/ SortedLRemove(l) \/ SortedLPopFront(l) \/ SortedLPopBack(l)
    \/ SortedLMerge(l, 3 - l)
    \/ MergeTurn

-----------------------------------------------------------------------------
(***************************************************************************)
(* Between calls both lists are whole and in order, whatever was inserted, *)
(* removed and merged before.                                              *)
(***************************************************************************)
SortedListsStaySorted ==
    dlMerge = <<>> => DListsAreSound /\ \A l \in DLists : IsSorted(DContents(dl, l), LAMBDA a, b : a <= b)

(***************************************************************************)
(* SortedLMerge returns, with src empty, as its header says.  The code     *)
(* does not when an element is in both lists.                              *)
(***************************************************************************)
MergesEnd == dlMerge # <<>> ~> dlMerge = <<>>
=============================================================================
