-------------------------------- MODULE RBTree --------------------------------
(***************************************************************************)
(* The red-black tree of cli/js/rbtree.ts, which orders the timers by due  *)
(* time.  insert and remove go down from the root once and repair the      *)
(* tree on the way; an action is one turn of their loop.                   *)
(*                                                                         *)
(* A node is named by the key it holds, so the code's found.data =         *)
(* node.data gives the found node a new name.  Head is the fake root both  *)
(* loops start from; the code's #root is its right child.  Directions are  *)
(* Booleans, TRUE is right.                                                *)
(***************************************************************************)
EXTENDS Integers, FiniteSets

CONSTANTS
  Keys,   \* the keys, ordered by the comparator as numbers
  Head,   \* the fake root
  Nil     \* null

ASSUME KeysAssumption == Keys \subseteq Nat /\ Head \notin Keys /\ Nil \notin Keys

VARIABLES
  tree,   \* [child |-> both children per node, red |-> the colour of a node]
  op,     \* "idle", the operation that goes down, or "failed": an assert fell
  key,    \* the argument of the operation
  at,     \* its local variables: the nodes gp, ggp, p, node, found; dir, last
  ret     \* what the last operation returned

vars == <<tree, op, key, at, ret>>

Nodes == Keys \cup {Head}
Leaf  == [dir \in BOOLEAN |-> Nil]
Start == [ggp |-> Head, gp |-> Nil, p |-> Nil, node |-> Nil, found |-> Nil,
          dir |-> FALSE, last |-> FALSE]

Root == tree.child[Head][TRUE]

Init ==
  /\ tree = [child |-> [n \in Nodes |-> Leaf], red |-> [n \in Nodes |-> n = Head]]
  /\ op = "idle" /\ key = Nil /\ at = Start /\ ret = FALSE

-----------------------------------------------------------------------------
(* Operators on a tree t.                                                  *)

Child(t, n, dir) == IF n = Nil THEN Nil ELSE t.child[n][dir]

IsRed(t, n) == n # Nil /\ t.red[n]

SetChild(t, n, dir, val) == [t EXCEPT !.child[n][dir] = val]

Paint(t, reds, blacks) ==
  [t EXCEPT !.red = [n \in Nodes |-> n \in reds \/ (t.red[n] /\ n \notin blacks)]]

\* Mutant: the rotated child keeps its inner child as well.
SingleRotateCircle(t, root, dir) ==
  LET save == t.child[root][~dir]
  IN  Paint([t EXCEPT !.child[save][dir] = root], {root}, {save})

\* The child away from dir takes root's place; it is the node returned.
SingleRotate(t, root, dir) ==
  LET save == t.child[root][~dir]
  IN  Paint([t EXCEPT !.child[root][~dir] = t.child[save][dir],
                      !.child[save][dir] = root], {root}, {save})

DoubleRotate(t, root, dir) ==
  LET sibling == t.child[root][~dir]
      inner   == t.child[sibling][dir]
  IN  SingleRotate(SetChild(SingleRotate(t, sibling, ~dir), root, ~dir, inner), root, dir)

\* Replaces root, the child of parent on one side, by its rotation.  The
\* asserts of the code are that the rotated child exists.
CanRotate(t, root, dir, double) ==
  /\ root # Nil /\ Child(t, root, ~dir) # Nil
  /\ double => Child(t, Child(t, root, ~dir), dir) # Nil

Rotated(t, parent, side, root, dir, double) ==
  LET top == Child(t, root, ~dir)
  IN  IF double THEN SetChild(DoubleRotate(t, root, dir), parent, side, Child(t, top, dir))
                ELSE SetChild(SingleRotate(t, root, dir), parent, side, top)

Blacken(t) ==
  LET root == t.child[Head][TRUE] IN IF root = Nil THEN t ELSE Paint(t, {}, {root})

Fail == op' = "failed" /\ UNCHANGED <<tree, key, at, ret>>

Finish(t, result) ==
  /\ tree' = Blacken(t)
  /\ ret' = result
  /\ op' = "idle" /\ key' = Nil /\ at' = Start

-----------------------------------------------------------------------------
(* insert                                                                  *)

Insert(k) ==
  /\ op = "idle"
  /\ op' = "insert" /\ key' = k /\ at' = [Start EXCEPT !.node = Root]
  /\ UNCHANGED <<tree, ret>>

InsertFirst ==
  /\ op = "insert" /\ Root = Nil
  /\ Finish(SetChild(tree, Head, TRUE, key), TRUE)

\* The tree after the search reached node, or made it: a new red node at
\* the bottom, or the colour flip of a node with two red children.
Reached(node) ==
  CASE at.node = Nil -> Paint(SetChild(tree, at.p, at.dir, node), {node}, {})
    [] at.node # Nil /\ IsRed(tree, Child(tree, node, FALSE))
                     /\ IsRed(tree, Child(tree, node, TRUE))
         -> Paint(tree, {node}, {Child(tree, node, FALSE), Child(tree, node, TRUE)})
    [] OTHER -> tree

\* The helpers move on only when there is a grandparent.
NextGgp == IF at.gp = Nil THEN at.ggp ELSE at.gp

\* Two red nodes in a row are repaired by a rotation of the grandparent.
InsertDown ==
  /\ op = "insert" /\ Root # Nil
  /\ LET node     == IF at.node = Nil THEN key ELSE at.node
         t        == Reached(node)
         twoReds  == IsRed(t, node) /\ IsRed(t, at.p)
         double   == node # Child(t, at.p, at.last)
         dir      == node < key
         repaired == IF twoReds THEN Rotated(t, at.ggp, Child(t, at.ggp, TRUE) = at.gp,
                                             at.gp, ~at.last, double)
                                ELSE t
     IN  IF twoReds /\ ~CanRotate(t, at.gp, ~at.last, double) THEN Fail
         ELSE IF node = key THEN Finish(repaired, at.node = Nil)
         ELSE /\ tree' = repaired
              /\ at' = [at EXCEPT !.last = at.dir, !.dir = dir,
                                  !.ggp = NextGgp,
                                  !.gp = at.p, !.p = node,
                                  !.node = Child(repaired, node, dir)]
              /\ UNCHANGED <<op, key, ret>>

-----------------------------------------------------------------------------
(* remove                                                                  *)

Remove(k) ==
  /\ op = "idle"
  /\ op' = "remove" /\ key' = k /\ at' = [Start EXCEPT !.node = Head, !.dir = TRUE]
  /\ UNCHANGED <<tree, ret>>

\* Mutant: the nodes on top keep the colours the rotation gave them.
BorrowUnpainted(t, gp, p, node, last) ==
  LET sibling == Child(t, p, ~last)
  IN  Rotated(t, gp, Child(t, gp, TRUE) = p, p, last, IsRed(t, Child(t, sibling, last)))

\* The sibling of a black node with black children has a red child: its
\* side of the tree is rotated, and the three nodes on top are repainted.
Borrow(t, gp, p, node, last) ==
  LET sibling == Child(t, p, ~last)
      side    == Child(t, gp, TRUE) = p
      turned  == Rotated(t, gp, side, p, last, IsRed(t, Child(t, sibling, last)))
      top     == Child(turned, gp, side)
  IN  Paint(turned, {top, node}, {Child(turned, top, FALSE), Child(turned, top, TRUE)})

\* The next node down is made red, or has a red child where the search
\* goes on, so that the node at the bottom can be taken out.
RemoveDown ==
  /\ op = "remove" /\ Child(tree, at.node, at.dir) # Nil
  /\ LET last    == at.dir
         p       == at.node
         node    == Child(tree, p, last)
         dir     == key > node
         found   == IF node = key THEN node ELSE at.found
         sibling == Child(tree, p, ~last)
         black   == ~IsRed(tree, node) /\ ~IsRed(tree, Child(tree, node, dir))
         redAway == IsRed(tree, Child(tree, node, ~dir))
         poor    == ~IsRed(tree, Child(tree, sibling, ~last)) /\ ~IsRed(tree, Child(tree, sibling, last))
         Go(t, parent) ==
           /\ tree' = t
           /\ at' = [at EXCEPT !.last = last, !.dir = dir, !.gp = at.p, !.p = parent,
                               !.node = node, !.found = found]
           /\ UNCHANGED <<op, key, ret>>
     IN  CASE black /\ redAway ->
                Go(Rotated(tree, p, last, node, dir, FALSE), Child(tree, node, ~dir))
           [] black /\ ~redAway /\ sibling # Nil /\ poor ->
                Go(Paint(tree, {sibling, node}, {p}), p)
           [] black /\ ~redAway /\ sibling # Nil /\ ~poor ->
                IF at.p # Nil /\ CanRotate(tree, p, last, IsRed(tree, Child(tree, sibling, last)))
                  THEN Go(Borrow(tree, at.p, p, node, last), p)
                  ELSE Fail
           [] OTHER -> Go(tree, p)

\* Takes node out of the tree; its only child takes its place.
Unlinked(node, p) ==
  SetChild(tree, p, Child(tree, p, TRUE) = node,
           Child(tree, node, Child(tree, node, FALSE) = Nil))

\* Mutant: the found node keeps its data.
KeepName(t, old, new) == t

\* found.data = node.data: the node named old is named new.
Renamed(t, old, new) ==
  LET Name(n) == IF n = old THEN new ELSE n
  IN  [child |-> [n \in Nodes |-> IF n = old THEN Leaf
                   ELSE LET from == IF n = new THEN old ELSE n
                        IN  [dir \in BOOLEAN |-> Name(t.child[from][dir])]],
       red   |-> [n \in Nodes |-> n # old /\ t.red[IF n = new THEN old ELSE n]]]

\* A node that is no longer in the tree keeps no state.
Forget(t, n) == [t EXCEPT !.child[n] = Leaf, !.red[n] = FALSE]

RemoveBottom ==
  /\ op = "remove" /\ Child(tree, at.node, at.dir) = Nil
  /\ CASE at.found = Nil     -> Finish(tree, FALSE)
       [] at.found = at.node -> Finish(Forget(Unlinked(at.node, at.p), at.node), TRUE)
       [] OTHER -> Finish(Renamed(Unlinked(at.node, at.p), at.found, at.node), TRUE)

Next == \/ \E k \in Keys : Insert(k) \/ Remove(k)
        \/ InsertFirst \/ InsertDown \/ RemoveDown \/ RemoveBottom

Spec == Init /\ [][Next]_vars
FairSpec == Spec /\ WF_vars(InsertFirst \/ InsertDown \/ RemoveDown \/ RemoveBottom)

-----------------------------------------------------------------------------
(* What the timers call: min and find.                                     *)

Min ==
  LET leftmost[n \in Keys] == IF Child(tree, n, FALSE) = Nil THEN n
                              ELSE leftmost[Child(tree, n, FALSE)]
  IN  IF Root = Nil THEN Nil ELSE leftmost[Root]

Find(k) ==
  LET below[n \in Keys \cup {Nil}] ==
        IF n \in {Nil, k} THEN n ELSE below[Child(tree, n, k > n)]
  IN  below[Root]

-----------------------------------------------------------------------------
(* Properties                                                              *)

TypeOK ==
  /\ tree \in [child : [Nodes -> [BOOLEAN -> Keys \cup {Nil}]], red : [Nodes -> BOOLEAN]]
  /\ op \in {"idle", "insert", "remove", "failed"} /\ ret \in BOOLEAN
  /\ key \in Keys \cup {Nil}
  /\ at \in [ggp : Nodes, gp : Nodes \cup {Nil}, p : Nodes \cup {Nil},
             node : Nodes \cup {Nil}, found : Keys \cup {Nil}, dir : BOOLEAN, last : BOOLEAN]

\* The keys at and below a node.
Below[n \in Keys \cup {Nil}] ==
  IF n = Nil THEN {} ELSE {n} \cup UNION {Below[Child(tree, n, dir)] : dir \in BOOLEAN}

\* The numbers of black nodes on the ways down from a node.
BlackHeights[n \in Keys \cup {Nil}] ==
  IF n = Nil THEN {0}
  ELSE {h + (IF tree.red[n] THEN 0 ELSE 1) :
          h \in UNION {BlackHeights[Child(tree, n, dir)] : dir \in BOOLEAN}}

\* After every insert and remove, no red node has a red child and every way
\* from the root down meets the same number of black nodes: the code's one
\* way down repaired the tree everywhere, so that it stays shallow.  The
\* rotations and the replacement of a removed node keep the search order: find
\* meets every key of the tree and no other, and min returns the least.
RedBlack ==
  op = "idle" =>
    /\ ~IsRed(tree, Root)
    /\ \A n \in Below[Root], dir \in BOOLEAN :
         ~(tree.red[n] /\ IsRed(tree, Child(tree, n, dir)))
    /\ Cardinality(BlackHeights[Root]) = 1
    /\ \A k \in Keys : Find(k) = IF k \in Below[Root] THEN k ELSE Nil
    /\ IF Root = Nil THEN Min = Nil ELSE \A k \in Below[Root] : Min <= k

\* insert and remove act as on a set: at every turn of their loops the tree
\* holds all the keys it should, and the result says whether it changed.
Sorted == INSTANCE SortedSet WITH set <- Below[Root]
IsSortedSet == Sorted!Spec

\* The loops of insert and remove come to an end: rotations do not lead the
\* search in a circle, and the assert of a grandparent or of a child that is
\* about to be rotated never fails, which would leave op "failed".
OperationsEnd == (op \in {"insert", "remove"}) ~> (op = "idle")
=============================================================================
