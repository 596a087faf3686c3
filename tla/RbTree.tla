------------------------------- MODULE RbTree -------------------------------
(***************************************************************************)
(* dig_rb_tree.c: the red-black tree behind view_tree and name_tree, at    *)
(* the level of its pointers.  A tree t is a record of its root and the    *)
(* fields of the nodes: parent, kid (kid["l"] is left, kid["r"] is right)  *)
(* and color.  A node is known by its key.  Nil is rbtree_null_node, the   *)
(* one sentinel all trees of the program share: a node like the others, so *)
(* that an assignment to its fields would show.  The field ok is false     *)
(* once an assert of the file failed.                                      *)
(***************************************************************************)
EXTENDS Integers, Sequences, FiniteSets

CONSTANTS Key, \* keys, in the order cmp gives them
          Nil

ASSUME KeyAssumption == Key \subseteq Int /\ IsFiniteSet(Key) /\ Nil \notin Key

Node == Key \cup {Nil}
Side == {"l", "r"}
Other(d) == IF d = "l" THEN "r" ELSE "l"
Tree == [root : Node, parent : [Node -> Node], kid : [Side -> [Node -> Node]],
         color : [Node -> {"red", "black"}], ok : BOOLEAN]

\* Field assignments.
SetParent(t, x, y) == [t EXCEPT !.parent[x] = y]
SetKid(t, d, x, y) == [t EXCEPT !.kid[d][x] = y]
Paint(t, x, col) == [t EXCEPT !.color[x] = col]
Assert(t, cond) == [t EXCEPT !.ok = t.ok /\ cond]

EmptyTree == [root |-> Nil, parent |-> [x \in Node |-> Nil],
              kid |-> [d \in Side |-> [x \in Node |-> Nil]],
              color |-> [x \in Node |-> "black"], ok |-> TRUE]

-----------------------------------------------------------------------------

\* Which child of p is x; the right one in case of doubt.
SideOf(t, p, x) == IF t.kid["r"][p] = x THEN "r" ELSE "l"

\* Mutant: the parent of the moved child is set even where there is no child.
Rotate_NoNullTest(t, x, d) ==
  LET e == Other(d)
      y == t.kid[e][x]
      p == t.parent[x]
      t2 == SetParent(SetKid(t, e, x, t.kid[d][y]), t.kid[d][y], x)
      t3 == SetParent(t2, y, p)
      t4 == IF p = Nil THEN [t3 EXCEPT !.root = y]
            ELSE SetKid(t3, IF x = t3.kid[d][p] THEN d ELSE e, p, y)
  IN SetParent(SetKid(t4, d, y, x), x, y)

\* rbtree_rotate_left (d = "l") and rbtree_rotate_right: the other child of x
\* takes its place.
Rotate(t, x, d) ==
  LET e == Other(d)
      y == t.kid[e][x]
      p == t.parent[x]
      t1 == SetKid(t, e, x, t.kid[d][y])
      t2 == IF t.kid[d][y] = Nil THEN t1 ELSE SetParent(t1, t.kid[d][y], x)
      t3 == SetParent(t2, y, p)
      t4 == IF p = Nil THEN [t3 EXCEPT !.root = y]
            ELSE SetKid(t3, IF x = t3.kid[d][p] THEN d ELSE e, p, y)
  IN SetParent(SetKid(t4, d, y, x), x, y)

\* Nothing is left to be fixed at node x.
Fixed(t, x) == x = t.root \/ t.color[t.parent[x]] = "black"

\* One round of rbtree_insert_fixup at node x: the tree and the node of the next
\* round; d is the side of the parent.
FixRed(t, x) ==
  LET p == t.parent[x]
      g == t.parent[p]
      d == IF p = t.kid["l"][g] THEN "l" ELSE "r"
      uncle == t.kid[Other(d)][g]
      inner == x = t.kid[Other(d)][p]
      t1 == IF inner THEN Rotate(t, p, d) ELSE t
      x1 == IF inner THEN p ELSE x
      t2 == Paint(Paint(t1, t1.parent[x1], "black"), g, "red")
  IN IF t.color[uncle] = "red"
     THEN <<Paint(Paint(Paint(t, p, "black"), uncle, "black"), g, "red"), g>>
     ELSE <<Rotate(t2, g, Other(d)), x1>>

rbtree_insert_fixup(t, x) ==
  LET from[s \in Tree \X Node] ==
        IF Fixed(s[1], s[2]) THEN Paint(s[1], s[1].root, "black")
        ELSE from[FixRed(s[1], s[2])]
  IN from[<<t, x>>]

\* The descent of rbtree_insert and rbtree_search to key k: the node with that
\* key, or the last one met.
Descend(t, k) ==
  LET from[x \in Node] ==
        LET next == t.kid[IF k < x THEN "l" ELSE "r"][x]
        IN IF x \in {k, Nil} \/ next = Nil THEN x ELSE from[next]
  IN from[t.root]

\* rbtree_find_less_equal has an exact match.
rbtree_search(t, k) == IF Descend(t, k) = k THEN k ELSE Nil

\* Mutant: the new node is black.
rbtree_insert_Black(t, k) ==
  LET p == Descend(t, k)
      t1 == Paint(SetParent(t, k, p), k, "black")
      t2 == SetKid(SetKid(t1, "l", k, Nil), "r", k, Nil)
      t3 == IF p = Nil THEN [t2 EXCEPT !.root = k]
            ELSE SetKid(t2, IF k < p THEN "l" ELSE "r", p, k)
  IN IF p = k THEN t ELSE rbtree_insert_fixup(t3, k)

\* The tree after rbtree_insert; a duplicate changes nothing.
rbtree_insert(t, k) ==
  LET p == Descend(t, k)
      t1 == Paint(SetParent(t, k, p), k, "red")
      t2 == SetKid(SetKid(t1, "l", k, Nil), "r", k, Nil)
      t3 == IF p = Nil THEN [t2 EXCEPT !.root = k]
            ELSE SetKid(t2, IF k < p THEN "l" ELSE "r", p, k)
  IN IF p = k THEN t ELSE rbtree_insert_fixup(t3, k)

-----------------------------------------------------------------------------
(* Deletion.                                                               *)

change_parent_ptr(t, p, old, new) ==
  IF p = Nil
  THEN [Assert(t, t.root = old) EXCEPT !.root = IF @ = old THEN new ELSE @]
  ELSE [Assert(t, {old, new} \cap {t.kid["l"][p], t.kid["r"][p]} # {})
        EXCEPT !.kid = [d \in Side |->
                          IF @[d][p] = old THEN [@[d] EXCEPT ![p] = new] ELSE @[d]]]

ReplaceParent(t, x, old, new) == IF t.parent[x] = old THEN SetParent(t, x, new) ELSE t
change_child_ptr(t, x, old, new) ==
  IF x = Nil THEN t ELSE ReplaceParent(Assert(t, t.parent[x] \in {old, new}), x, old, new)

Leftmost(t, x) ==
  LET from[z \in Node] == IF t.kid["l"][z] = Nil THEN z ELSE from[t.kid["l"][z]]
  IN from[x]

\* swap_int8 and swap_np on every field of nodes x and y.
SwapFields(t, x, y) ==
  LET Swap(f) == [f EXCEPT ![x] = f[y], ![y] = f[x]]
  IN [t EXCEPT !.parent = Swap(@), !.kid = [d \in Side |-> Swap(@[d])]]

\* The first half of rbtree_delete: x and its successor y change places by
\* rewriting the pointers around them.
SwapPlaces(t, x, y) ==
  LET next == t.kid["r"][x] = y
      t1 == Paint(Paint(t, x, t.color[y]), y, t.color[x])
      t2 == change_parent_ptr(t1, t1.parent[x], x, y)
      t3 == IF next THEN t2 ELSE change_parent_ptr(t2, t2.parent[y], y, x)
      t4 == change_child_ptr(t3, t3.kid["l"][y], y, x)
      t5 == change_child_ptr(t4, t4.kid["r"][y], y, x)
      t6 == change_child_ptr(t5, t5.kid["l"][x], x, y)
      t7 == IF next THEN SetParent(SetKid(t6, "r", x, x), y, y)
            ELSE change_child_ptr(t6, t6.kid["r"][x], x, y)
  IN SwapFields(t7, x, y)

\* The black-short child's sibling and its children are black.
AllBlack(t, s) ==
  \A x \in {s, t.kid["l"][s], t.kid["r"][s]} : t.color[x] = "black"

\* The near child of sibling s, alone red, is rotated up.
Straight(t, s, d, near) ==
  Rotate(Paint(Paint(Assert(t, s # Nil), s, "red"), near, "black"), s, Other(d))

\* The last rotation: the sibling, whose far child is red, is rotated up over p.
Lastly(t, p, d) ==
  LET e == Other(d)
      s == t.kid[e][p]
      t1 == Paint(Paint(t, s, t.color[p]), p, "black")
      t2 == Assert(t1, t1.color[t1.kid[e][s]] = "red")
  IN Rotate(Paint(t2, t2.kid[e][s], "black"), p, d)

\* The end of rbtree_delete_fixup: one or two rotations at parent p, whose
\* child x is one black short, with its sibling s black.
Rebalance(t, x, p, s) ==
  LET d == SideOf(t, p, x)  \* the side of x
      near == t.kid[d][s]
      far == t.kid[Other(d)][s]
      turn == t.color[s] = "black" /\ t.color[near] = "red" /\ t.color[far] = "black"
              /\ t.kid[d][p] = x
  IN Lastly(IF turn THEN Straight(t, s, d, near) ELSE Assert(t, s # Nil), p, d)

\* The sibling of child x of p.
Sibling(t, x, p) == t.kid[Other(SideOf(t, p, x))][p]

\* A red sibling is rotated up: the new one is black.
BlackSibling(t, x, p) ==
  LET s == Sibling(t, x, p)
  IN IF t.color[s] = "red"
     THEN Rotate(Paint(Paint(t, p, "red"), s, "black"), p, SideOf(t, p, x)) ELSE t

\* The sibling is painted red.
RedSibling(t, s) == IF s = Nil THEN t ELSE Paint(t, s, "red")

\* rbtree_delete_fixup, from child x of p on.
rbtree_delete_fixup(t, x, p) ==
  LET from[c \in Tree \X Node \X Node] ==
        LET q == c[3]
            t1 == BlackSibling(c[1], c[2], q)
            s == Sibling(t1, c[2], q)
            t2 == RedSibling(t1, s)
        IN IF q = Nil THEN c[1]
           ELSE IF ~AllBlack(t1, s) THEN Rebalance(t1, c[2], q, s)
           ELSE IF t1.color[q] = "red" THEN Paint(t2, q, "black")
           ELSE from[<<t2, q, t2.parent[q]>>]
  IN from[<<t, x, p>>]

\* The second half of rbtree_delete: x, with one child at most, is unlinked.
Unlink(t, x) ==
  LET p == t.parent[x]
      child == IF t.kid["l"][x] # Nil THEN t.kid["l"][x] ELSE t.kid["r"][x]
      t0 == Assert(t, Nil \in {t.kid["l"][x], t.kid["r"][x]})
      t1 == change_child_ptr(change_parent_ptr(t0, p, x, child), child, x, p)
      t2 == IF t.color[x] = "red" THEN t1
            ELSE IF t.color[child] = "red" THEN Paint(t1, child, "black")
            ELSE rbtree_delete_fixup(t1, child, p)
  IN Paint(SetParent(SetKid(SetKid(t2, "l", x, Nil), "r", x, Nil), x, Nil),
           x, "black")

\* The tree after rbtree_delete of a key it holds.
rbtree_delete(t, x) ==
  IF t.kid["l"][x] # Nil /\ t.kid["r"][x] # Nil
  THEN Unlink(SwapPlaces(t, x, Leftmost(t, t.kid["r"][x])), x)
  ELSE Unlink(t, x)

-----------------------------------------------------------------------------
(* Walking: RBTREE_FOR.                                                    *)

rbtree_first(t) == Leftmost(t, t.root)

\* Mutant: up by one node only.
Climb_Once(t, x) == t.parent[x]

\* Up from x while it is a right child.
Climb(t, x) ==
  LET from[z \in Node] ==
        LET p == t.parent[z]
        IN IF p # Nil /\ z = t.kid["r"][p] THEN from[p] ELSE p
  IN from[x]

rbtree_next(t, x) ==
  IF t.kid["r"][x] # Nil THEN Leftmost(t, t.kid["r"][x]) ELSE Climb(t, x)

\* The nodes RBTREE_FOR visits, one after the other, and Nil when it is over.
RBTREE_FOR(t) ==
  LET node[n \in 1 .. Cardinality(Key) + 1] ==
        IF n = 1 THEN rbtree_first(t)
        ELSE IF node[n - 1] = Nil THEN Nil ELSE rbtree_next(t, node[n - 1])
  IN node

\* The nodes rbtree_delete_node frees below and at each node, children first.
rbtree_delete_node(t) ==
  LET freed[x \in Node] ==
        IF x = Nil THEN <<>>
        ELSE freed[t.kid["l"][x]] \o freed[t.kid["r"][x]] \o <<x>>
  IN freed

-----------------------------------------------------------------------------
(* One tree, as view_tree and name_tree use it.                            *)

VARIABLES tree, count,
          keys   \* ghost: the keys inserted and not deleted since

vars == <<tree, count, keys>>

Init == tree = EmptyTree /\ count = 0 /\ keys = {}

insert(k) ==
  /\ tree' = rbtree_insert(tree, k)
  /\ count' = IF rbtree_search(tree, k) = k THEN count ELSE count + 1
  /\ keys' = keys \cup {k}

delete(k) ==
  /\ rbtree_search(tree, k) = k
  /\ tree' = rbtree_delete(tree, k)
  /\ count' = count - 1
  /\ keys' = keys \ {k}

\* rbtree_destory, and a new tree made of the same memory.
destroy ==
  /\ LET gone == rbtree_delete_node(tree)[tree.root]
     IN keys' = {k \in keys : \A i \in DOMAIN gone : gone[i] # k}
  /\ tree' = EmptyTree /\ count' = 0

Next == (\E k \in Key : insert(k) \/ delete(k)) \/ destroy

Spec == Init /\ [][Next]_vars

-----------------------------------------------------------------------------
(* Properties.                                                             *)

TypeOK == tree \in Tree /\ count \in Nat /\ keys \in SUBSET Key

\* The shared sentinel stays as it was initialised: no rotation, repainting
\* or relinking in one tree can disturb the others through it.  The nodes
\* that are in no tree are unlinked completely.
SentinelUntouched ==
  \A x \in Node \ keys : /\ tree.color[x] = "black" /\ tree.parent[x] = Nil
                         /\ \A d \in Side : tree.kid[d][x] = Nil

\* No assert of dig_rb_tree.c fails.
AssertsHold == tree.ok

\* Parents and children point to each other.
Linked ==
  /\ tree.root # Nil => tree.parent[tree.root] = Nil
  /\ \A x \in keys, d \in Side :
       tree.kid[d][x] # Nil => tree.parent[tree.kid[d][x]] = x

\* All links are right, of nodes in the tree, of others and of the sentinel.
LinksRight == TypeOK /\ SentinelUntouched /\ AssertsHold /\ Linked

\* Black nodes on every path from a node to a leaf; -1 if the paths differ.
BlackHeight(t) ==
  LET height[x \in Node] ==
        IF x = Nil THEN 0
        ELSE LET l == height[t.kid["l"][x]]
                 r == height[t.kid["r"][x]]
             IN IF l # r \/ l = -1 THEN -1
                ELSE l + IF t.color[x] = "black" THEN 1 ELSE 0
  IN height

\* The red-black rules, after every insertion and deletion: a black root, no
\* red node with a red child, as many black nodes on every path.
RedBlack ==
  /\ tree.color[tree.root] = "black"
  /\ \A x \in keys, d \in Side :
       tree.color[x] = "red" => tree.color[tree.kid[d][x]] = "black"
  /\ BlackHeight(tree)[tree.root] # -1

\* RBTREE_FOR, by which sizes are summed and views listed, visits every key
\* once and in order, search finds exactly the keys of the tree, and count is
\* their number.
WalkAndSearch ==
  LET w == RBTREE_FOR(tree)
  IN /\ {w[i] : i \in DOMAIN w} \ {Nil} = keys
     /\ \A i \in DOMAIN w \ {1} : w[i] # Nil => w[i - 1] < w[i]
     /\ \A k \in Key : rbtree_search(tree, k) = IF k \in keys THEN k ELSE Nil
     /\ count = Cardinality(keys)
=============================================================================
