------------------------------- MODULE RdAvl -------------------------------
(***************************************************************************)
(* The AVL tree of rdavl.c and rdavl.h.                                    *)
(*                                                                         *)
(* A tree is Null or a node with an element, two subtrees and a stored     *)
(* height; the functions of the code, which rewrite nodes in place and     *)
(* return the new root of a subtree, become operators from trees to trees. *)
(* An element has a key, which is all the comparator looks at, and a       *)
(* version that tells apart elements with one key.  Every public operation *)
(* runs under the tree's write lock, or its read lock, and is one step.    *)
(***************************************************************************)
EXTENDS Integers, Sequences, FiniteSets

CONSTANTS
    Keys,      \* keys of elements: integers, compared with <
    Versions   \* versions of an element

ASSUME AvlAssumption == Keys \subseteq Int /\ Versions # {}

VARIABLES
    ravl_root,
    dict       \* history: the element inserted last for each key, or NoElm

avlVars == <<ravl_root, dict>>

Null == <<>>
NoElm == [key |-> 0, ver |-> 0]
Elms == [key : Keys, ver : Versions]

Node(elm, left, right, height) ==
    [elm |-> elm, left |-> left, right |-> right, height |-> height]

-----------------------------------------------------------------------------
(***************************************************************************)
(* Balancing.                                                              *)
(***************************************************************************)

\* RD_AVL_NODE_HEIGHT, RD_AVL_NODE_DELTA and RD_DELTA_MAX.
Height(t) == IF t = Null THEN 0 ELSE t.height
Delta(t) == Height(t.left) - Height(t.right)
DeltaMax == 1

\* Variant with a fault: the height of the right subtree is forgotten.
FixedHeightLeft(t) == [t EXCEPT !.height = Height(t.left) + 1]

\* The end of rd_avl_balance_node(): the height of a node from its subtrees.
FixedHeight(t) ==
    [t EXCEPT !.height = (IF Height(t.left) > Height(t.right)
                          THEN Height(t.left) ELSE Height(t.right)) + 1]

\* The test for a double rotation; delta is that of the higher subtree,
\* positive when it leans towards the middle.
RotatesInner(delta) == delta > 0

RECURSIVE Balance(_), RotateLeft(_), RotateRight(_)

\* rd_avl_rotate(ran, RD_AVL_LEFT): the right child moves up.
RotateLeft(t) ==
    LET n == t.right
    IN  Balance([n EXCEPT !.left = Balance([t EXCEPT !.right = n.left])])

\* rd_avl_rotate(ran, RD_AVL_RIGHT).
RotateRight(t) ==
    LET n == t.left
    IN  Balance([n EXCEPT !.right = Balance([t EXCEPT !.left = n.right])])

\* rd_avl_balance_node().
Balance(t) ==
    IF Delta(t) < -DeltaMax
    THEN RotateLeft(IF RotatesInner(Delta(t.right))
                    THEN [t EXCEPT !.right = RotateRight(t.right)] ELSE t)
    ELSE IF Delta(t) > DeltaMax
    THEN RotateRight(IF RotatesInner(-Delta(t.left))
                     THEN [t EXCEPT !.left = RotateLeft(t.left)] ELSE t)
    ELSE FixedHeight(t)

-----------------------------------------------------------------------------
(***************************************************************************)
(* Insertion, removal and search.                                          *)
(***************************************************************************)

\* Variant with a fault: the new element loses the subtrees of the old one.
ReplacedAlone(t, elm) == Node(elm, Null, Null, t.height)

\* A node with the same key is replaced; the new one takes over its place.
Replaced(t, elm) == Node(elm, t.left, t.right, t.height)

\* rd_avl_insert_node().  A new leaf keeps the height 0 of its memset() until
\* an ancestor is balanced; nothing balances the leaf itself.
RECURSIVE InsertNode(_, _)
InsertNode(t, elm) ==
    IF t = Null THEN Node(elm, Null, Null, 0)
    ELSE IF elm.key = t.elm.key THEN Replaced(t, elm)
    ELSE IF elm.key < t.elm.key
    THEN Balance([t EXCEPT !.left = InsertNode(t.left, elm)])
    ELSE Balance([t EXCEPT !.right = InsertNode(t.right, elm)])

\* rd_avl_move(dst, src, RD_AVL_RIGHT): hang src under the last node of dst.
RECURSIVE Move(_, _)
Move(dst, src) ==
    IF dst = Null THEN src
    ELSE Balance([dst EXCEPT !.right = Move(dst.right, src)])

\* rd_avl_remove_node0().
RemoveNode(t) == Move(t.left, t.right)

\* rd_avl_remove_elm0().
RECURSIVE RemoveElm(_, _)
RemoveElm(t, key) ==
    IF t = Null THEN Null
    ELSE IF key = t.elm.key THEN RemoveNode(t)
    ELSE IF key < t.elm.key
    THEN Balance([t EXCEPT !.left = RemoveElm(t.left, key)])
    ELSE Balance([t EXCEPT !.right = RemoveElm(t.right, key)])

\* rd_avl_find_node() and rd_avl_find().
RECURSIVE Find(_, _)
Find(t, key) ==
    IF t = Null THEN NoElm
    ELSE IF key = t.elm.key THEN t.elm
    ELSE Find(IF key < t.elm.key THEN t.left ELSE t.right, key)

\* rd_avl_foreach_node(): the order in which elements are visited.
RECURSIVE Foreach(_)
Foreach(t) ==
    (IF t.left = Null THEN <<>> ELSE Foreach(t.left))
        \o (IF t.right = Null THEN <<>> ELSE Foreach(t.right)) \o <<t.elm>>

-----------------------------------------------------------------------------
\* rd_avl_init().
AvlInit ==
    /\ ravl_root = Null
    /\ dict = [k \in Keys |-> NoElm]

\* rd_avl_insert() of an element that is not in the tree: the memset() of its
\* node would cut off the subtrees of one that is.
AvlInsert(elm) ==
    /\ dict[elm.key] # elm
    /\ ravl_root' = InsertNode(ravl_root, elm)
    /\ dict' = [dict EXCEPT ![elm.key] = elm]

\* rd_avl_remove_elm().  Elements that are not in the tree are ignored.
AvlRemove(key) ==
    /\ ravl_root' = RemoveElm(ravl_root, key)
    /\ dict' = [dict EXCEPT ![key] = NoElm]

AvlNext == (\E elm \in Elms : AvlInsert(elm)) \/ (\E key \in Keys : AvlRemove(key))

AvlSpec == AvlInit /\ [][AvlNext]_avlVars
-----------------------------------------------------------------------------
RECURSIVE Nodes(_)
Nodes(t) == IF t = Null THEN {} ELSE {t} \cup Nodes(t.left) \cup Nodes(t.right)

RECURSIVE RealHeight(_)
RealHeight(t) ==
    IF t = Null THEN 0
    ELSE 1 + (IF RealHeight(t.left) > RealHeight(t.right)
              THEN RealHeight(t.left) ELSE RealHeight(t.right))

\* Searching the tree finds, for every key, the element inserted last, and a
\* walk over it visits every element once: no rotation or removal loses a
\* node, leaves one behind or links one twice.
AgreesWithDictionary ==
    /\ \A k \in Keys : Find(ravl_root, k) = dict[k]
    /\ ravl_root # Null =>
        LET walk == Foreach(ravl_root)
        IN  /\ {walk[i] : i \in DOMAIN walk} = {dict[k] : k \in Keys} \ {NoElm}
            /\ \A i, j \in DOMAIN walk : walk[i] = walk[j] => i = j

\* The stored heights are those of the subtrees and differ by at most one at
\* every node, after any insertions, replacements and removals.  A new leaf
\* is stored with height 0, like no tree at all, so the real heights differ
\* by at most two.
NearlyBalanced ==
    \A t \in Nodes(ravl_root) :
        /\ Delta(t) \in -DeltaMax..DeltaMax
        /\ t = FixedHeight(t) \/ (t.left = Null /\ t.right = Null)
        /\ RealHeight(t.left) - RealHeight(t.right) \in -2..2
=============================================================================
