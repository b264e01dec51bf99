-------------------------------- MODULE RbTree -------------------------------
(***************************************************************************)
(* The red-black tree of libs/rb_tree.c, in which the areas of an mm that   *)
(* has many of them are searched.  Nodes are their keys, 1 .. MaxKey; the   *)
(* sentinels tree->nil and tree->root are 0 and -1.  A tree is a record of  *)
(* the fields of all nodes.                                                 *)
(***************************************************************************)
EXTENDS Integers, FiniteSets

CONSTANT MaxKey

VARIABLES tree, keys      \* keys: history, the nodes inserted and not deleted

vars == <<tree, keys>>

Key == 1 .. MaxKey
Nil == 0
Root == -1
Nodes == Key \cup {Nil, Root}
Fresh == [left |-> Nil, right |-> Nil, parent |-> Nil, red |-> FALSE]

\* rb_tree_create
Init == tree = [x \in Nodes |-> Fresh] /\ keys = {}

Other(d) == IF d = "left" THEN "right" ELSE "left"

\* FUNC_ROTATE: rb_left_rotate for d = "left", rb_right_rotate for d = "right"
Rotate(t, x, d) ==
  LET e == Other(d)
      y == t[x][e]
      up == t[x].parent
      side == IF x = t[up][d] THEN d ELSE e
      t1 == [t EXCEPT ![x][e] = t[y][d]]
      t2 == IF t[y][d] # Nil THEN [t1 EXCEPT ![t[y][d]].parent = x] ELSE t1
  IN [t2 EXCEPT ![up][side] = y, ![y].parent = up, ![y][d] = x, ![x].parent = y]

\* rb_insert_binary: the place below which node z belongs
RECURSIVE Leaf(_, _, _, _)
Leaf(t, x, y, z) == IF x = Nil THEN y ELSE Leaf(t, IF x > z THEN t[x].left ELSE t[x].right, x, z)

rb_insert_binary(t, z) ==
  LET y == Leaf(t, t[Root].left, Root, z)
      side == IF y = Root \/ y > z THEN "left" ELSE "right"
  IN [t EXCEPT ![z] = [left |-> Nil, right |-> Nil, parent |-> y, red |-> TRUE], ![y][side] = z]

\* RB_INSERT_SUB and its loop
RECURSIVE InsertFixup(_, _)
InsertFixup(t, x) ==
  LET p == t[x].parent
      g == t[p].parent
      d == IF p = t[g].left THEN "left" ELSE "right"
      y == t[g][Other(d)]
      inner == x = t[p][Other(d)]
      t1 == IF inner THEN Rotate(t, p, d) ELSE t
      top == IF inner THEN x ELSE p
  IN IF ~t[p].red THEN t
     ELSE IF t[y].red
     THEN InsertFixup([t EXCEPT ![p].red = FALSE, ![y].red = FALSE, ![g].red = TRUE], g)
     ELSE InsertFixup(Rotate([t1 EXCEPT ![top].red = FALSE, ![g].red = TRUE], g, Other(d)),
                      IF inner THEN p ELSE x)

\* Mutant: the colour of the root is left as it is.
rb_insert_red(t, z) == InsertFixup(rb_insert_binary(t, z), z)

rb_insert(t, z) ==
  LET u == InsertFixup(rb_insert_binary(t, z), z) IN [u EXCEPT ![u[Root].left].red = FALSE]

\* rb_tree_successor, of a node with a right child
RECURSIVE Leftmost(_, _)
Leftmost(t, y) == IF t[y].left = Nil THEN y ELSE Leftmost(t, t[y].left)
rb_tree_successor(t, x) == Leftmost(t, t[x].right)

\* RB_DELETE_FIXUP_SUB and its loop; root is the node that was on top when it began.
RECURSIVE DeleteFixup(_, _, _)
DeleteFixup(t, x, root) ==
  LET p == t[x].parent
      d == IF x = t[p].left THEN "left" ELSE "right"
      e == Other(d)
      \* a red sibling
      t1 == IF t[t[p][e]].red
            THEN Rotate([t EXCEPT ![t[p][e]].red = FALSE, ![p].red = TRUE], p, d)
            ELSE t
      w1 == t1[p][e]
      black == ~t1[t1[w1].left].red /\ ~t1[t1[w1].right].red
      \* its outer child is black
      t2 == IF ~t1[t1[w1][e]].red
            THEN Rotate([t1 EXCEPT ![t1[w1][d]].red = FALSE, ![w1].red = TRUE], w1, e)
            ELSE t1
      w2 == t2[p][e]
      t3 == Rotate([t2 EXCEPT ![w2].red = t2[p].red, ![p].red = FALSE, ![t2[w2][e]].red = FALSE], p, d)
  IN IF x = root \/ t[x].red THEN [t EXCEPT ![x].red = FALSE]
     ELSE IF black THEN DeleteFixup([t1 EXCEPT ![w1].red = TRUE], p, root)
     ELSE [t3 EXCEPT ![root].red = FALSE]

\* rb_delete: y is the node taken out of its place, and put where z was.
rb_delete(t, z) ==
  LET y == IF t[z].left = Nil \/ t[z].right = Nil THEN z ELSE rb_tree_successor(t, z)
      x == IF t[y].left # Nil THEN t[y].left ELSE t[y].right
      up == t[y].parent
      t1 == [t EXCEPT ![x].parent = up, ![up][IF y = t[up].left THEN "left" ELSE "right"] = x]
      zup == t1[z].parent
      t2 == [t1 EXCEPT ![zup][IF z = t1[zup].left THEN "left" ELSE "right"] = y,
                       ![t1[z].left].parent = y]
      t3 == [t2 EXCEPT ![t1[z].right].parent = y, ![y] = t1[z]]
      u == IF y = z THEN t1 ELSE t3
  IN IF t[y].red THEN u ELSE DeleteFixup(u, x, u[Root].left)

\* The fields of a deleted node, and the links of nil, mean nothing.
Tidy(t, z) == [t EXCEPT ![z] = Fresh, ![Nil] = [Fresh EXCEPT !.red = t[Nil].red]]

Insert(z) == z \notin keys /\ tree' = Tidy(rb_insert(tree, z), Nil) /\ keys' = keys \cup {z}
Delete(z) == z \in keys /\ tree' = Tidy(rb_delete(tree, z), z) /\ keys' = keys \ {z}

Next == \E z \in Key : Insert(z) \/ Delete(z)

Spec == Init /\ [][Next]_vars
-----------------------------------------------------------------------------
RECURSIVE Below(_)
Below(x) == IF x = Nil THEN {} ELSE {x} \cup Below(tree[x].left) \cup Below(tree[x].right)

RECURSIVE BlackHeights(_)
BlackHeights(x) ==
  IF x = Nil THEN {1}
  ELSE {h + (IF tree[x].red THEN 0 ELSE 1) : h \in BlackHeights(tree[x].left) \cup BlackHeights(tree[x].right)}

\* After any sequence of insertions and deletions: the tree has exactly the nodes that
\* belong to it, each to the proper side of every node above it and linked back to its
\* parent; no red node has a red child, the root and nil are black, and all paths down
\* have the same number of black nodes, so that searches stay short.
TreeSound ==
  LET top == tree[Root].left IN
    /\ Below(top) = keys
    /\ \A x \in keys :
         /\ \A y \in Below(tree[x].left) : y < x
         /\ \A y \in Below(tree[x].right) : y > x
         /\ \A y \in {tree[x].left, tree[x].right} \ {Nil} : tree[y].parent = x
         /\ tree[x].red => ~tree[tree[x].left].red /\ ~tree[tree[x].right].red
    /\ ~tree[top].red /\ ~tree[Nil].red /\ ~tree[Root].red
    /\ Cardinality(BlackHeights(top)) = 1
=============================================================================
