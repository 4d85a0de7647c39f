------------------------------- MODULE Trees --------------------------------
(***************************************************************************)
(* The search trees of ds/src.                                             *)
(***************************************************************************)
EXTENDS Integers, SequencesExt

-----------------------------------------------------------------------------
(***************************************************************************)
(* avl.c: a search tree that rotates nodes on the way back from an         *)
(* insertion or a removal.  A tree is its root node with its two children; *)
(* the height in a node is what the code stored there, right or not.       *)
(***************************************************************************)

CONSTANT AVL_DATA   \* the data, numbered in the order of cmp

ASSUME AVLDataAssumption == AVL_DATA \subseteq Int /\ IsFiniteSet(AVL_DATA)

VARIABLE avlTree    \* the dummy's left child

LEFT == 0
RIGHT == 1

NoNode == [height |-> -1]   \* a NULL child, with the height GetNodeHeight gives it

CreateNode(data) ==
    [data |-> data, height |-> 0, children |-> [side \in {LEFT, RIGHT} |-> NoNode]]

AVLInit == avlTree = NoNode

SideOf(data, node) == IF data > node.data THEN RIGHT ELSE LEFT

GetBalanceFactor(node) == node.children[LEFT].height - node.children[RIGHT].height

CheckUpdateHeight(node) ==
    [node EXCEPT !.height = 1 + Max({node.children[LEFT].height, node.children[RIGHT].height})]

Balance(root, side) ==
    LET pivot == root.children[1 - side]
    IN  [pivot EXCEPT !.children[side] = [root EXCEPT !.children[1 - side] = pivot.children[side]]]

\* The heights a rotation leaves stale: of the new root's children, then its own.
AfterRotation_RootOnly(root) == CheckUpdateHeight(root)

AfterRotation(root) ==
    CheckUpdateHeight([root EXCEPT !.children = [side \in {LEFT, RIGHT} |-> CheckUpdateHeight(@[side])]])

\* A child that leans inwards is rotated outwards first.
Straightened(node, heavy) ==
    IF GetBalanceFactor(node.children[heavy]) = (IF heavy = LEFT THEN -1 ELSE 1)
    THEN [node EXCEPT !.children[heavy] = Balance(@, heavy)] ELSE node

CheckFixBalance(node) ==
    LET heavy == IF GetBalanceFactor(node) > 0 THEN LEFT ELSE RIGHT
    IN  IF GetBalanceFactor(node) \in {-2, 2}
        THEN AfterRotation(Balance(Straightened(node, heavy), 1 - heavy)) ELSE node

\* node once its child on the side has become the given one.
WithChild(node, side, child) ==
    CheckFixBalance(CheckUpdateHeight([node EXCEPT !.children[side] = child]))

RECURSIVE Inserted(_, _)
Inserted(node, data) ==
    IF node = NoNode THEN CreateNode(data)
    ELSE LET side == SideOf(data, node)
         IN  WithChild(node, side, Inserted(node.children[side], data))

\* RemoveNodeOneChild puts the child's data and children into the node.
WithoutOne(node, child) == [child EXCEPT !.height = node.height - 1]

RECURSIVE RemoveNext(_)     \* FindRemoveNextLogic: the least data below, and what is left
RECURSIVE DeleteNode(_)

RemoveNext_Last(node) ==
    IF node.children[RIGHT] # NoNode
    THEN LET next == RemoveNext(node.children[RIGHT])
         IN  [next EXCEPT !.node = WithChild(node, RIGHT, next.node)]
    ELSE [data |-> node.data, node |-> DeleteNode(node)]

RemoveNext(node) ==
    IF node.children[LEFT] # NoNode
    THEN LET next == RemoveNext(node.children[LEFT])
         IN  [next EXCEPT !.node = WithChild(node, LEFT, next.node)]
    ELSE [data |-> node.data, node |-> DeleteNode(node)]

DeleteNode(node) ==
    IF node.children[LEFT] = NoNode /\ node.children[RIGHT] = NoNode THEN NoNode
    ELSE IF node.children[RIGHT] = NoNode THEN WithoutOne(node, node.children[LEFT])
    ELSE IF node.children[LEFT] = NoNode THEN WithoutOne(node, node.children[RIGHT])
    ELSE LET next == RemoveNext(node.children[RIGHT])
         IN  WithChild([node EXCEPT !.data = next.data], RIGHT, next.node)

RECURSIVE Removed(_, _)
Removed(node, data) ==
    IF data = node.data THEN DeleteNode(node)
    ELSE LET side == SideOf(data, node)
         IN  WithChild(node, side, Removed(node.children[side], data))

RECURSIVE AVLFind(_, _)
AVLFind(node, data) ==
    /\ node # NoNode
    /\ data = node.data \/ AVLFind(node.children[SideOf(data, node)], data)

\* AVLForEach's three orders; AVLCount counts what POST meets, AVLMultiFind picks from PRE.
RECURSIVE ForEachPost(_)
ForEachPost(node) == IF node = NoNode THEN <<>>
    ELSE ForEachPost(node.children[LEFT]) \o ForEachPost(node.children[RIGHT]) \o <<node.data>>
RECURSIVE ForEachPre(_)
ForEachPre(node) == IF node = NoNode THEN <<>>
    ELSE <<node.data>> \o ForEachPre(node.children[LEFT]) \o ForEachPre(node.children[RIGHT])
RECURSIVE ForEachIn(_)
ForEachIn(node) == IF node = NoNode THEN <<>>
    ELSE ForEachIn(node.children[LEFT]) \o <<node.data>> \o ForEachIn(node.children[RIGHT])
AVLCount == Len(ForEachPost(avlTree))
AVLMultiFind(matching) == SelectSeq(ForEachPre(avlTree), LAMBDA data : data \in matching)

\* avl.h: all data in the tree is unique, and data to remove is in the tree.
AVLInsert(data) == ~AVLFind(avlTree, data) /\ avlTree' = Inserted(avlTree, data)

AVLRemove(data) == AVLFind(avlTree, data) /\ avlTree' = Removed(avlTree, data)

AVLNext == \E data \in AVL_DATA : AVLInsert(data) \/ AVLRemove(data)

-----------------------------------------------------------------------------
RECURSIVE TrueHeight(_)
TrueHeight(node) ==
    IF node = NoNode THEN -1
    ELSE 1 + Max({TrueHeight(node.children[s]) : s \in {LEFT, RIGHT}})

RECURSIVE NodesOf(_)
NodesOf(node) == IF node = NoNode THEN {}
                 ELSE {node} \cup UNION {NodesOf(node.children[s]) : s \in {LEFT, RIGHT}}

\* The tree stays balanced and knows it: below no node do the subtrees differ in height by
\* more than one, and each node's stored height is its true one, the one rotations go by.
\* A walk in order meets the data ascending, the other two orders meet the same data.
AVLBalanced ==
    /\ \A node \in NodesOf(avlTree) :
        /\ node.height = TrueHeight(node)
        /\ TrueHeight(node.children[LEFT]) - TrueHeight(node.children[RIGHT]) \in -1 .. 1
    /\ ForEachIn(avlTree) = SortSeq(ForEachPre(avlTree), <)
    /\ AVLCount = Cardinality(ToSet(ForEachIn(avlTree)))
    /\ ToSet(AVLMultiFind(AVL_DATA)) = ToSet(ForEachPost(avlTree))

Found == {data \in AVL_DATA : AVLFind(avlTree, data)}

\* For a search the tree is a set: an insertion adds its data, a removal takes out its own,
\* and rotations, or the data that moves up when its node is freed, hide no other.
AVLChangesOne ==
    \A data \in AVL_DATA : /\ AVLInsert(data) => Found' = Found \cup {data}
                           /\ AVLRemove(data) => Found' = Found \ {data}

-----------------------------------------------------------------------------
(***************************************************************************)
(* The binary search tree of ds/src/bst.c as built for release, node by    *)
(* node: an iterator is a node, and a node is its address.  The dummy      *)
(* `end' is the parent of the root, which is its left child.               *)
(***************************************************************************)

CONSTANT BST_DATA     \* what a client inserts, compared as numbers

VARIABLES bst,        \* bst[node]: its data, parent and children[BST_LEFT], children[BST_RIGHT]
          bstReply    \* the iterator that the last call returned

bstVars == <<bst, bstReply>>

BST_LEFT == 1
BST_RIGHT == 2
BSTNull == -1
BSTEnd == 0
DUMMY_DATA == 0
Other(side) == BST_LEFT + BST_RIGHT - side

BSTNode(data, parent) == [data |-> data, parent |-> parent, children |-> <<BSTNull, BSTNull>>]

Child(t, node, side) == t[node].children[side]
BSTIsEmpty == Child(bst, BSTEnd, BST_LEFT) = BSTNull

\* GetMostLeft and GetMostRight
RECURSIVE GetMost(_, _, _)
GetMost(t, node, side) == IF Child(t, node, side) = BSTNull THEN node
                          ELSE GetMost(t, Child(t, node, side), side)

RECURSIVE GoUpWhileAmISideChild(_, _, _)
GoUpWhileAmISideChild(t, node, side) ==
    LET parent == t[node].parent
    IN  IF Child(t, parent, side) = node THEN GoUpWhileAmISideChild(t, parent, side) ELSE parent

\* GetNext for side = BST_RIGHT, GetPrev for side = BST_LEFT
Neighbour(t, node, side) ==
    IF Child(t, node, side) # BSTNull THEN GetMost(t, Child(t, node, side), Other(side))
    ELSE GoUpWhileAmISideChild(t, node, side)

BSTGetNext(t, node) == Neighbour(t, node, BST_RIGHT)
BSTGetPrev(t, node) == Neighbour(t, node, BST_LEFT)
BSTBegin(t) == GetMost(t, BSTEnd, BST_LEFT)

RECURSIVE BSTFindFrom(_, _, _, _)
BSTFindFrom(t, parent, side, data) ==
    LET current == Child(t, parent, side)
    IN  IF current = BSTNull THEN [node |-> BSTEnd, parent |-> parent, side |-> side]
        ELSE IF t[current].data = data THEN [node |-> current, parent |-> current, side |-> side]
        ELSE BSTFindFrom(t, current, IF t[current].data < data THEN BST_RIGHT ELSE BST_LEFT, data)
BSTFindPlace(t, data) == BSTFindFrom(t, BSTEnd, BST_LEFT, data)

\* The elements that an action which never fails is called with.
RECURSIVE BSTForEach(_, _, _)
BSTForEach(t, from, to) ==
    IF from = to THEN <<>> ELSE <<t[from].data>> \o BSTForEach(t, BSTGetNext(t, from), to)

RECURSIVE LastChild(_, _, _)
LastChild(t, node, side) ==
    IF Child(t, t[node].parent, side) = node THEN LastChild(t, t[node].parent, side) ELSE node

WhatSideChildAmI(t, node) == IF Child(t, t[node].parent, BST_RIGHT) = node THEN BST_RIGHT ELSE BST_LEFT

\* What GetPrev asserts in a debug build.
IsPrevSafeForUse(t, node) ==
    LET last == LastChild(t, node, BST_RIGHT)
    IN  \/ Child(t, node, BST_LEFT) # BSTNull
        \/ t[last].parent = BSTEnd /\ WhatSideChildAmI(t, last) # BST_LEFT

OnlyChild_Left(t, node) == Child(t, node, BST_LEFT)
OnlyChild(t, node) == Child(t, node, IF Child(t, node, BST_LEFT) = BSTNull THEN BST_RIGHT ELSE BST_LEFT)

\* HelperRemoveForLeafOrOneChild: the only child, if there is one, takes the node's place.
Unlinked(t, node) ==
    LET parent == t[node].parent
        child == OnlyChild(t, node)
        linked == [t EXCEPT ![parent].children[WhatSideChildAmI(t, node)] = child]
    IN  [n \in DOMAIN t \ {node} |-> IF n = child THEN [linked[n] EXCEPT !.parent = parent]
                                     ELSE linked[n]]

BSTInit == bst = (BSTEnd :> BSTNode(DUMMY_DATA, BSTNull)) /\ bstReply = BSTEnd

\* The new node is returned only when it is the first: otherwise a NULL is.
BSTInsert == \E data \in BST_DATA :
    LET place == BSTFindPlace(bst, data)
        new == CHOOSE n \in 1..Cardinality(BST_DATA) : n \notin DOMAIN bst
    IN  /\ place.node = BSTEnd
        /\ bst' = [bst EXCEPT ![place.parent].children[place.side] = new]
                      @@ (new :> BSTNode(data, place.parent))
        /\ bstReply' = IF BSTIsEmpty THEN new ELSE BSTNull

BSTInsertNoMemory == /\ Cardinality(DOMAIN bst) <= Cardinality(BST_DATA)
                     /\ bstReply' = BSTEnd
                     /\ UNCHANGED bst

BSTRemove_ReturnsFreed == \E node \in DOMAIN bst \ {BSTEnd} :
    LET next == BSTGetNext(bst, node)
    IN  IF BSTNull \in {Child(bst, node, BST_LEFT), Child(bst, node, BST_RIGHT)}
        THEN bst' = Unlinked(bst, node) /\ bstReply' = next
        ELSE bst' = Unlinked([bst EXCEPT ![node].data = bst[next].data], next) /\ bstReply' = next

\* A node with two children stays, takes the next one's data, and the next one goes.
BSTRemove == \E node \in DOMAIN bst \ {BSTEnd} :
    LET next == BSTGetNext(bst, node)
    IN  IF BSTNull \in {Child(bst, node, BST_LEFT), Child(bst, node, BST_RIGHT)}
        THEN bst' = Unlinked(bst, node) /\ bstReply' = next
        ELSE bst' = Unlinked([bst EXCEPT ![node].data = bst[next].data], next) /\ bstReply' = node

BSTNext == BSTInsert \/ BSTInsertNoMemory \/ BSTRemove

-----------------------------------------------------------------------------
InOrder(t) == BSTForEach(t, BSTBegin(t), BSTEnd)

(***************************************************************************)
(* However nodes were linked, freed and given other data, walking forward  *)
(* from BSTBegin meets every element in ascending order, walking back      *)
(* undoes each step, and a search finds each node.  Walking back is so in  *)
(* a release build: the assertion of a debug build refuses it from every   *)
(* node without a left child, whether or not there is one before it.       *)
(***************************************************************************)
BSTWalksInOrder ==
    LET walk == InOrder(bst)
        nodes == DOMAIN bst \ {BSTEnd}
    IN  /\ Len(walk) = Cardinality(nodes)
        /\ \A i \in 1..(Len(walk) - 1) : walk[i] < walk[i + 1]
        /\ \A n \in nodes : /\ BSTGetPrev(bst, BSTGetNext(bst, n)) = n
                            /\ BSTFindPlace(bst, bst[n].data).node = n
                            /\ IsPrevSafeForUse(bst, n) <=> Child(bst, n, BST_LEFT) # BSTNull

(***************************************************************************)
(* A removal takes out one element and returns an iterator to the one that *)
(* followed it, whichever of the two nodes was freed.  An insertion adds   *)
(* one at its place; its iterator is to the element only in a tree that    *)
(* was empty, and the promised one or the dummy is NULL in any other.      *)
(***************************************************************************)
BSTReturnsIterators ==
    LET before == InOrder(bst)
        after == InOrder(bst')
    IN  /\ Len(after) < Len(before) =>
            \E i \in DOMAIN before :
                /\ after = RemoveAt(before, i)
                /\ bstReply' = BSTFindPlace(bst', IF i = Len(before) THEN DUMMY_DATA
                                                  ELSE before[i + 1]).node
        /\ Len(after) > Len(before) =>
            \E i \in DOMAIN after :
                /\ before = RemoveAt(after, i)
                /\ bstReply' = IF before = <<>> THEN BSTFindPlace(bst', after[i]).node ELSE BSTNull
=============================================================================
