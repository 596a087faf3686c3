---------------------------- MODULE RbTreeProofs ----------------------------
(***************************************************************************)
(* The red-black tree is right for every set of keys.                      *)
(*                                                                         *)
(* What a tree is, is said without paths or recursion: sub[x] is the set   *)
(* of the nodes below and at x, which x divides between its children by    *)
(* their keys (Divided), and bh[x] the number of black nodes on every path *)
(* from x down (Even).  A rotation, a leaf, a node cut out change both at  *)
(* one or two nodes.  The rounds of the two repairs keep Fixing and        *)
(* Lacking, which say what is not red-black yet and where; they end        *)
(* because they go up, and sub has a highest node.                         *)
(*                                                                         *)
(* rbtree_delete clears the fields of the node it unlinked only when the   *)
(* repair is over.  Wipe clears them before, and the lemmas on Aside show  *)
(* that it makes no difference.                                            *)
(***************************************************************************)
EXTENDS RbTree, FiniteSetTheorems, WellFoundedInduction, SequenceTheorems, TLAPS

-----------------------------------------------------------------------------
(* Field assignments.                                                      *)

\* The sides are each other's other side.
LEMMA Sides ==
  ASSUME NEW d \in Side
  PROVE  /\ Other(d) \in Side /\ Other(d) # d /\ Other(Other(d)) = d
         /\ \A c \in Side : c = d \/ c = Other(d)
BY DEF Side, Other

Color == {"red", "black"}

\* What each assignment does to the fields.
ParentSet(t, x, y, r) ==
  /\ r \in Tree /\ r.root = t.root /\ r.kid = t.kid /\ r.color = t.color /\ r.ok = t.ok
  /\ \A z \in Node : r.parent[z] = IF z = x THEN y ELSE t.parent[z]
KidSet(t, d, x, y, r) ==
  /\ r \in Tree /\ r.root = t.root /\ r.parent = t.parent /\ r.color = t.color /\ r.ok = t.ok
  /\ \A c \in Side, z \in Node : r.kid[c][z] = IF c = d /\ z = x THEN y ELSE t.kid[c][z]
Painted(t, x, col, r) ==
  /\ r \in Tree /\ r.root = t.root /\ r.parent = t.parent /\ r.kid = t.kid /\ r.ok = t.ok
  /\ \A z \in Node : r.color[z] = IF z = x THEN col ELSE t.color[z]
Asserted(t, cond, r) ==
  /\ r \in Tree /\ r.root = t.root /\ r.parent = t.parent /\ r.kid = t.kid
  /\ r.color = t.color /\ (r.ok <=> t.ok /\ cond)
RootSet(t, x, r) ==
  /\ r \in Tree /\ r.root = x /\ r.parent = t.parent /\ r.kid = t.kid
  /\ r.color = t.color /\ r.ok = t.ok

LEMMA SetParentIs ==
  ASSUME NEW t \in Tree, NEW x \in Node, NEW y \in Node
  PROVE  ParentSet(t, x, y, SetParent(t, x, y))
BY DEF ParentSet, SetParent, Tree

LEMMA SetKidIs ==
  ASSUME NEW t \in Tree, NEW d \in Side, NEW x \in Node, NEW y \in Node
  PROVE  KidSet(t, d, x, y, SetKid(t, d, x, y))
BY DEF KidSet, SetKid, Tree

LEMMA PaintIs ==
  ASSUME NEW t \in Tree, NEW x \in Node, NEW col \in Color
  PROVE  Painted(t, x, col, Paint(t, x, col))
BY DEF Painted, Paint, Tree, Color

LEMMA AssertIs ==
  ASSUME NEW t \in Tree, NEW cond \in BOOLEAN
  PROVE  Asserted(t, cond, Assert(t, cond))
BY DEF Asserted, Assert, Tree

LEMMA RootIs ==
  ASSUME NEW t \in Tree, NEW x \in Node
  PROVE  RootSet(t, x, [t EXCEPT !.root = x])
BY DEF RootSet, Tree

\* The fields of a tree.
LEMMA TreeType ==
  ASSUME NEW t \in Tree
  PROVE  /\ t.root \in Node /\ t.ok \in BOOLEAN
         /\ \A z \in Node : t.parent[z] \in Node /\ t.color[z] \in Color
         /\ \A c \in Side, z \in Node : t.kid[c][z] \in Node
BY DEF Tree, Color

\* A set of numbers has a least one.
LEMMA LeastIs ==
  ASSUME NEW S \in SUBSET Nat, S # {}
  PROVE  \E m \in S : \A n \in S : m <= n
<1>1. PICK m \in S : \A n \in S : ~ (<<n, m>> \in OpToRel(<, Nat))
  BY NatLessThanWellFounded, WFMin
<1>2. \A n \in S : ~ (n < m)
  BY <1>1 DEF OpToRel
<1> QED
  BY <1>2
-----------------------------------------------------------------------------
(* The shape of a tree.                                                    *)

\* Which keys belong on side d of node x.  A key stands where its label at[k]
\* says: at is the identity but while rbtree_delete exchanges two nodes.
Before(at, d, k, x) == IF d = "l" THEN at[k] < at[x] ELSE at[x] < at[k]

Labels(at) == at \in [Key -> Int] /\ \A j, k \in Key : at[j] = at[k] => j = k

\* S are the nodes of the tree, sub[x] those below and at x: every node divides
\* them between its children.
Divided(t, S, sub, at) ==
  /\ S \subseteq Key /\ Labels(at)
  /\ sub \in [Node -> SUBSET S]
  /\ sub[Nil] = {} /\ sub[t.root] = S
  /\ \A x \in S : x \in sub[x]
  /\ \A x \in S, d \in Side, k \in S :
       k \in sub[t.kid[d][x]] <=> k \in sub[x] /\ Before(at, d, k, x)

\* Links stay in the tree, and children and parents point to each other.
Chained(t, S) ==
  /\ t.root \in S \cup {Nil}
  /\ t.root # Nil => t.parent[t.root] = Nil
  /\ \A x \in S, d \in Side : t.kid[d][x] \in S \cup {Nil}
  /\ \A x \in S, d \in Side : t.kid[d][x] # Nil => t.parent[t.kid[d][x]] = x

\* What is not in the tree is not linked, the sentinel first of all.
Cleared(t, S) ==
  \A x \in Node \ S : /\ t.color[x] = "black" /\ t.parent[x] = Nil
                      /\ \A d \in Side : t.kid[d][x] = Nil

Shape(t, S, sub, at) ==
  t \in Tree /\ Divided(t, S, sub, at) /\ Chained(t, S) /\ Cleared(t, S)

\* The order of the labels.
LEMMA Order ==
  ASSUME NEW at, Labels(at), NEW d \in Side
  PROVE  /\ \A x \in Key : ~ Before(at, d, x, x)
         /\ \A x, y \in Key : Before(at, d, x, y) <=> Before(at, Other(d), y, x)
         /\ \A x, y, z \in Key : Before(at, d, x, y) /\ Before(at, d, y, z) => Before(at, d, x, z)
         /\ \A x, y \in Key : x = y \/ Before(at, d, x, y) \/ Before(at, d, y, x)
         /\ \A x, y \in Key : ~ (Before(at, d, x, y) /\ Before(at, d, y, x))
BY DEF Before, Labels, Side, Other

\* A node is below itself and its children are below it, apart from each other.
Parted(t, S, sub, x, d) ==
  /\ x \in Node /\ x # Nil
  /\ t.kid[d][x] \in Node
  /\ sub[t.kid[d][x]] \subseteq sub[x] /\ x \in sub[x] /\ x \notin sub[t.kid[d][x]]
  /\ sub[t.kid[d][x]] \cap sub[t.kid[Other(d)][x]] = {}
  /\ sub[x] = {x} \cup sub[t.kid[d][x]] \cup sub[t.kid[Other(d)][x]]
  /\ t.kid[d][x] # Nil => t.kid[d][x] \in sub[t.kid[d][x]] /\ t.kid[d][x] \in S

LEMMA Below ==
  ASSUME NEW t, NEW S, NEW sub, NEW at, Shape(t, S, sub, at), NEW x \in S, NEW d \in Side
  PROVE  Parted(t, S, sub, x, d)
<1> DEFINE u == t.kid[d][x]
           v == t.kid[Other(d)][x]
<1>1. u \in S \cup {Nil} /\ v \in S \cup {Nil} /\ x \in Key /\ S \subseteq Key /\ Nil \notin Key
  BY Sides, KeyAssumption DEF Shape, Divided, Chained
<1>2. sub[u] \subseteq S /\ sub[v] \subseteq S /\ sub[x] \subseteq S
  <2>1. u \in Node /\ v \in Node /\ x \in Node
    BY <1>1 DEF Node
  <2> HIDE DEF u, v
  <2> QED
    BY <2>1 DEF Shape, Divided
<1>3. \A k \in S : k \in sub[u] <=> k \in sub[x] /\ Before(at, d, k, x)
  BY DEF Shape, Divided
<1>4. \A k \in S : k \in sub[v] <=> k \in sub[x] /\ Before(at, Other(d), k, x)
  BY Sides DEF Shape, Divided
<1>5. x \in sub[x] /\ Labels(at)
  BY DEF Shape, Divided
<1>6. u # Nil => u \in sub[u] /\ u \in S
  BY <1>1 DEF Shape, Divided
<1> HIDE DEF u, v
<1>7. \A k \in S : ~ (Before(at, d, k, x) /\ Before(at, Other(d), k, x))
                 /\ (k = x \/ Before(at, d, k, x) \/ Before(at, Other(d), k, x))
  BY <1>1, <1>5, Order
<1>8. ~ Before(at, d, x, x)
  BY <1>1, <1>5, Order
<1>9. sub[u] \subseteq sub[x] /\ x \notin sub[u] /\ sub[u] \cap sub[v] = {}
  BY <1>2, <1>3, <1>4, <1>7, <1>8
<1>10. sub[x] = {x} \cup sub[u] \cup sub[v]
  <2>1. \A k \in sub[x] : k \in {x} \cup sub[u] \cup sub[v]
    BY <1>2, <1>3, <1>4, <1>7
  <2>2. \A k \in sub[v] : k \in sub[x]
    BY <1>2, <1>4
  <2> QED
    BY <1>5, <1>9, <2>1, <2>2
<1> QED
  BY <1>1, <1>5, <1>6, <1>9, <1>10 DEF Node, u, v, Parted

\* What a node divides, with the two children named.
LEMMA PartedIs ==
  ASSUME NEW t, NEW S, NEW sub, NEW x, NEW d, Parted(t, S, sub, x, d),
         NEW u, t.kid[d][x] = u, NEW v, t.kid[Other(d)][x] = v
  PROVE  /\ u \in Node /\ sub[u] \subseteq sub[x] /\ x \in sub[x] /\ x \notin sub[u]
         /\ sub[u] \cap sub[v] = {} /\ (u # Nil => u \in sub[u] /\ u \in S)
BY DEF Parted

\* A node has one parent and is on one side of it, and the root has none.
LEMMA OneParent ==
  ASSUME NEW t, NEW S, NEW sub, NEW at, Shape(t, S, sub, at),
         NEW x \in S, NEW d \in Side, t.kid[d][x] # Nil
  PROVE  /\ \A z \in Node, c \in Side : t.kid[c][z] = t.kid[d][x] => z = x /\ c = d
         /\ t.kid[d][x] # t.root
         /\ t.parent[t.kid[d][x]] = x
<1>1. ASSUME NEW z \in Node, NEW c \in Side, t.kid[c][z] = t.kid[d][x] PROVE z = x /\ c = d
  <2>1. z \in S
    BY <1>1 DEF Shape, Cleared
  <2>2. z = x
    BY <1>1, <2>1 DEF Shape, Chained
  <2>3. c = d \/ c = Other(d)
    BY Sides
  <2>4. t.kid[d][x] # t.kid[Other(d)][x]
    <3>1. t.kid[d][x] \in sub[t.kid[d][x]] /\ sub[t.kid[d][x]] \cap sub[t.kid[Other(d)][x]] = {}
      BY Below DEF Parted
    <3> QED
      BY <3>1
  <2> QED
    BY <1>1, <2>2, <2>3, <2>4
<1>2. t.kid[d][x] # t.root
  <2>1. t.parent[t.kid[d][x]] = x /\ x # Nil
    BY Below DEF Shape, Chained, Parted
  <2> QED
    BY <2>1 DEF Shape, Chained
<1> QED
  BY <1>1, <1>2 DEF Shape, Chained
-----------------------------------------------------------------------------
(* Rotations.                                                              *)

\* What Rotate assigns, whatever the tree: y is the child that comes up, b its
\* child that changes sides, p the parent.
Assigned(t, x, d, r) ==
  LET e == Other(d)
      y == t.kid[e][x]
      b == t.kid[d][y]
      p == t.parent[x]
      g == IF x = (IF d = e /\ p = x THEN b ELSE t.kid[d][p]) THEN d ELSE e
  IN /\ r \in Tree /\ r.color = t.color /\ r.ok = t.ok
     /\ r.root = IF p = Nil THEN y ELSE t.root
     /\ \A z \in Node : r.parent[z] = IF z = x THEN y ELSE IF z = y THEN p
                                      ELSE IF z = b /\ b # Nil THEN x ELSE t.parent[z]
     /\ \A c \in Side, z \in Node :
          r.kid[c][z] = IF c = d /\ z = y THEN x
                        ELSE IF p # Nil /\ c = g /\ z = p THEN y
                        ELSE IF c = e /\ z = x THEN b ELSE t.kid[c][z]

LEMMA RotateFields ==
  ASSUME NEW t \in Tree, NEW x \in Node, NEW d \in Side
  PROVE  Assigned(t, x, d, Rotate(t, x, d))
<1> DEFINE e == Other(d)
           y == t.kid[e][x]
           b == t.kid[d][y]
           p == t.parent[x]
           t1 == SetKid(t, e, x, b)
           t2 == IF b = Nil THEN t1 ELSE SetParent(t1, b, x)
           t3 == SetParent(t2, y, p)
           g == IF x = t3.kid[d][p] THEN d ELSE e
           t4 == IF p = Nil THEN [t3 EXCEPT !.root = y] ELSE SetKid(t3, g, p, y)
           t5 == SetKid(t4, d, y, x)
           t6 == SetParent(t5, x, y)
<1>1. e \in Side /\ y \in Node /\ b \in Node /\ p \in Node
  BY Sides, TreeType
<1> HIDE DEF e, y, b, p
<1>2. KidSet(t, e, x, b, t1)
  BY <1>1, SetKidIs
<1> HIDE DEF t1
<1>3. /\ t2 \in Tree /\ t2.root = t1.root /\ t2.kid = t1.kid /\ t2.color = t1.color /\ t2.ok = t1.ok
      /\ \A z \in Node : t2.parent[z] = IF z = b /\ b # Nil THEN x ELSE t1.parent[z]
  <2>1. t1 \in Tree
    BY <1>2 DEF KidSet
  <2>2. ParentSet(t1, b, x, SetParent(t1, b, x))
    BY <1>1, <2>1, SetParentIs
  <2> QED
    BY <2>1, <2>2 DEF ParentSet
<1> HIDE DEF t2
<1>4. ParentSet(t2, y, p, t3)
  BY <1>1, <1>3, SetParentIs
<1> HIDE DEF t3
<1>5. g \in Side /\ t3 \in Tree
  BY <1>1, <1>4 DEF ParentSet
<1> HIDE DEF g
<1>6. /\ t4 \in Tree /\ t4.root = IF p = Nil THEN y ELSE t3.root
      /\ t4.parent = t3.parent /\ t4.color = t3.color /\ t4.ok = t3.ok
      /\ \A c \in Side, z \in Node :
           t4.kid[c][z] = IF p # Nil /\ c = g /\ z = p THEN y ELSE t3.kid[c][z]
  <2>1. CASE p = Nil
    <3>1. RootSet(t3, y, t4)
      BY <1>1, <1>5, <2>1, RootIs
    <3> QED
      BY <2>1, <3>1 DEF RootSet
  <2>2. CASE p # Nil
    <3>1. KidSet(t3, g, p, y, t4)
      BY <1>1, <1>5, <2>2, SetKidIs
    <3> QED
      BY <2>2, <3>1 DEF KidSet
  <2> QED
    BY <2>1, <2>2
<1> HIDE DEF t4
<1>7. KidSet(t4, d, y, x, t5)
  BY <1>1, <1>6, SetKidIs
<1> HIDE DEF t5
<1>8. ParentSet(t5, x, y, t6)
  <2>1. t5 \in Tree
    BY <1>7 DEF KidSet
  <2> QED
    BY <1>1, <2>1, SetParentIs
<1>9. Rotate(t, x, d) = t6
  BY ZenonT(60) DEF Rotate, t1, t2, t3, t4, t5, g, e, y, b, p
<1> HIDE DEF t6
<1>10. g = IF x = (IF d = e /\ p = x THEN b ELSE t.kid[d][p]) THEN d ELSE e
  BY <1>1, <1>2, <1>3, <1>4 DEF g, KidSet, ParentSet
<1>11. t6.root = IF p = Nil THEN y ELSE t.root
  BY <1>2, <1>3, <1>4, <1>6, <1>7, <1>8 DEF KidSet, ParentSet
<1>12. \A z \in Node : t6.parent[z] = IF z = x THEN y ELSE IF z = y THEN p
                                      ELSE IF z = b /\ b # Nil THEN x ELSE t.parent[z]
  BY <1>2, <1>3, <1>4, <1>6, <1>7, <1>8 DEF KidSet, ParentSet
<1>13. \A c \in Side, z \in Node :
         t6.kid[c][z] = IF c = d /\ z = y THEN x
                        ELSE IF p # Nil /\ c = g /\ z = p THEN y
                        ELSE IF c = e /\ z = x THEN b ELSE t.kid[c][z]
  BY <1>2, <1>3, <1>4, <1>6, <1>7, <1>8 DEF KidSet, ParentSet
<1>14. t6 \in Tree /\ t6.color = t.color /\ t6.ok = t.ok
  BY <1>2, <1>3, <1>4, <1>6, <1>7, <1>8 DEF KidSet, ParentSet
<1>15. \A c \in Side, z \in Node :
         t6.kid[c][z] = IF c = d /\ z = y THEN x
                        ELSE IF p # Nil /\ c = (IF x = (IF d = e /\ p = x THEN b ELSE t.kid[d][p]) THEN d ELSE e)
                                /\ z = p THEN y
                        ELSE IF c = e /\ z = x THEN b ELSE t.kid[c][z]
  BY <1>10, <1>13
<1> QED
  BY <1>9, <1>11, <1>12, <1>14, <1>15, ZenonT(60) DEF e, y, b, p, Assigned

\* In a tree, every link to x becomes one to y.
Rotated(t, x, d, r) ==
  LET y == t.kid[Other(d)][x]
      b == t.kid[d][y]
  IN /\ r \in Tree /\ r.color = t.color /\ r.ok = t.ok
     /\ r.root = IF t.root = x THEN y ELSE t.root
     /\ \A z \in Node : r.parent[z] = IF z = x THEN y ELSE IF z = y THEN t.parent[x]
                                      ELSE IF z = b /\ b # Nil THEN x ELSE t.parent[z]
     /\ \A c \in Side, z \in Node :
          r.kid[c][z] = IF c = Other(d) /\ z = x THEN b
                        ELSE IF c = d /\ z = y THEN x
                        ELSE IF t.kid[c][z] = x THEN y ELSE t.kid[c][z]

\* The same, with the two children named.
LEMMA RotatedFields ==
  ASSUME NEW t, NEW x, NEW d, NEW r, Rotated(t, x, d, r),
         NEW y, NEW b, t.kid[Other(d)][x] = y, t.kid[d][y] = b
  PROVE  /\ r \in Tree /\ r.color = t.color /\ r.ok = t.ok
         /\ r.root = IF t.root = x THEN y ELSE t.root
         /\ \A c \in Side, z \in Node :
              r.kid[c][z] = IF c = Other(d) /\ z = x THEN b
                            ELSE IF c = d /\ z = y THEN x
                            ELSE IF t.kid[c][z] = x THEN y ELSE t.kid[c][z]
BY DEF Rotated

\* A node of the tree that is not the root is a child of its parent.
LEMMA HasParent ==
  ASSUME NEW t, NEW S, NEW sub, NEW at, Shape(t, S, sub, at), IsFiniteSet(Key),
         NEW x \in S, x # t.root
  PROVE  t.parent[x] \in S /\ \E d \in Side : t.kid[d][t.parent[x]] = x
<1> DEFINE Over == {z \in S : x \in sub[z] /\ z # x}
           N == {Cardinality(sub[z]) : z \in Over}
<1>1. t.root \in Over
  BY DEF Shape, Divided, Chained
<1>2. \A z \in S : IsFiniteSet(sub[z]) /\ Cardinality(sub[z]) \in Nat
  <2> SUFFICES ASSUME NEW z \in S PROVE IsFiniteSet(sub[z]) /\ Cardinality(sub[z]) \in Nat
    OBVIOUS
  <2>1. sub[z] \subseteq Key
    BY DEF Shape, Divided, Node
  <2> QED
    BY <2>1, FS_Subset, FS_CardinalityType
<1>3. PICK m \in N : \A k \in N : m <= k
  <2>1. N \in SUBSET Nat /\ N # {}
    BY <1>1, <1>2
  <2> HIDE DEF N
  <2> QED
    BY <2>1, LeastIs
<1>4. PICK z \in Over : m = Cardinality(sub[z])
  BY <1>3
<1>5. PICK d \in Side : x \in sub[t.kid[d][z]]
  <2>1. "l" \in Side /\ x \in sub[z] /\ x # z /\ z \in S
    BY <1>4 DEF Side
  <2>2. sub[z] = {z} \cup sub[t.kid["l"][z]] \cup sub[t.kid[Other("l")][z]]
    BY <2>1, Below DEF Parted
  <2>3. Other("l") \in Side
    BY <2>1, Sides
  <2> QED
    BY <2>1, <2>2, <2>3
<1> DEFINE u == t.kid[d][z]
<1>6. u # Nil /\ u \in S /\ sub[u] \subseteq sub[z] /\ z \in sub[z] /\ z \notin sub[u]
  <2>1. u # Nil
    BY <1>5 DEF Shape, Divided
  <2> QED
    BY <1>4, <2>1, Below DEF Parted
<1>7. u \notin Over
  <2>1. Cardinality(sub[u]) < Cardinality(sub[z])
    BY <1>2, <1>4, <1>6, FS_Subset
  <2>2. SUFFICES ASSUME u \in Over PROVE FALSE
    OBVIOUS
  <2>3. Cardinality(sub[u]) \in N
    BY <2>2
  <2> QED
    BY <1>2, <1>3, <1>4, <1>6, <2>1, <2>3
<1>8. u = x
  BY <1>5, <1>6, <1>7
<1> QED
  BY <1>4, <1>6, <1>8 DEF Shape, Chained

\* The root has no parent, the others have.
LEMMA ParentNil ==
  ASSUME NEW t, NEW S, NEW sub, NEW at, Shape(t, S, sub, at), NEW x \in S
  PROVE  /\ t.parent[x] = Nil <=> x = t.root
         /\ t.parent[x] # Nil => /\ t.parent[x] \in S /\ x \in sub[t.parent[x]] /\ t.parent[x] \notin sub[x]
                                 /\ \E d \in Side : t.kid[d][t.parent[x]] = x
<1>1. x # Nil /\ Nil \notin S
  BY KeyAssumption DEF Shape, Divided
<1>2. x = t.root => t.parent[x] = Nil
  BY <1>1 DEF Shape, Chained
<1>3. ASSUME x # t.root
      PROVE  /\ t.parent[x] \in S /\ x \in sub[t.parent[x]] /\ t.parent[x] \notin sub[x]
             /\ \E d \in Side : t.kid[d][t.parent[x]] = x
  <2>1. PICK d \in Side : t.parent[x] \in S /\ t.kid[d][t.parent[x]] = x
    BY <1>3, HasParent, KeyAssumption
  <2> QED
    BY <1>1, <2>1, Below DEF Parted
<1> QED
  BY <1>1, <1>2, <1>3

LEMMA RotateIs ==
  ASSUME NEW t, NEW S, NEW sub, NEW at, Shape(t, S, sub, at), NEW x \in S, NEW d \in Side,
         t.kid[Other(d)][x] # Nil
  PROVE  Rotated(t, x, d, Rotate(t, x, d))
<1> DEFINE r == Rotate(t, x, d)
           e == Other(d)
           y == t.kid[e][x]
           b == t.kid[d][y]
           p == t.parent[x]
           g == IF x = t.kid[d][p] THEN d ELSE e
<1>1. t \in Tree /\ x \in Node /\ x # Nil /\ e \in Side /\ d # e /\ \A c \in Side : c = d \/ c = e
  BY Sides, Below DEF Shape, Parted
<1>2. /\ r \in Tree /\ r.color = t.color /\ r.ok = t.ok
      /\ r.root = IF p = Nil THEN y ELSE t.root
      /\ \A z \in Node : r.parent[z] = IF z = x THEN y ELSE IF z = y THEN p
                                       ELSE IF z = b /\ b # Nil THEN x ELSE t.parent[z]
      /\ \A c \in Side, z \in Node :
           r.kid[c][z] = IF c = d /\ z = y THEN x
                         ELSE IF p # Nil /\ c = g /\ z = p THEN y
                         ELSE IF c = e /\ z = x THEN b ELSE t.kid[c][z]
  <2>1. Assigned(t, x, d, r)
    BY <1>1, RotateFields
  <2> HIDE DEF r
  <2> QED
    BY <1>1, <2>1 DEF Assigned
<1>3. y \in S /\ y \in Node /\ y # Nil /\ y \in sub[x] /\ x \notin sub[y] /\ x # y
  BY <1>1, Below DEF Parted
<1>4. p = Nil <=> x = t.root
  BY ParentNil
<1>5. CASE p = Nil
  <2>1. \A c \in Side, z \in Node : t.kid[c][z] # x
    <3> SUFFICES ASSUME NEW c \in Side, NEW z \in Node, t.kid[c][z] = x PROVE FALSE
      OBVIOUS
    <3>1. z \in S
      BY <1>1 DEF Shape, Cleared
    <3> QED
      BY <1>1, <1>4, <1>5, <3>1, OneParent
  <2>2. \A c \in Side, z \in Node :
          r.kid[c][z] = IF c = d /\ z = y THEN x ELSE IF c = e /\ z = x THEN b ELSE t.kid[c][z]
    BY <1>2, <1>5
  <2> QED
    BY <1>1, <1>2, <1>3, <1>4, <1>5, <2>1, <2>2 DEF Rotated
<1>6. CASE p # Nil
  <2>1. p \in S /\ x \in sub[p] /\ p \notin sub[x]
    BY <1>6, ParentNil
  <2>2. PICK c0 \in Side : t.kid[c0][p] = x
    BY <1>6, ParentNil
  <2>3. p # x /\ p # y
    BY <1>3, <2>1, Below DEF Parted
  <2>4. \A c \in Side, z \in Node : t.kid[c][z] = x => z = p /\ c = c0
    BY <1>1, <2>1, <2>2, OneParent
  <2>5. g = c0
    BY <1>1, <2>1, <2>2, <2>3, <2>4 DEF Node, Shape, Divided
  <2>6. \A c \in Side, z \in Node :
          r.kid[c][z] = IF c = d /\ z = y THEN x ELSE IF c = c0 /\ z = p THEN y
                        ELSE IF c = e /\ z = x THEN b ELSE t.kid[c][z]
    BY <1>2, <1>6, <2>5
  <2>7. \A c \in Side, z \in Node :
          r.kid[c][z] = IF c = e /\ z = x THEN b ELSE IF c = d /\ z = y THEN x
                        ELSE IF t.kid[c][z] = x THEN y ELSE t.kid[c][z]
    BY <1>1, <1>3, <2>2, <2>3, <2>4, <2>6
  <2> QED
    BY <1>1, <1>2, <1>4, <1>6, <2>7 DEF Rotated
<1> QED
  BY <1>5, <1>6

\* A rotation keeps the shape: x hands what it divides to y, and keeps what is
\* not below y on the far side.
LEMMA RotateShape ==
  ASSUME NEW t, NEW S, NEW sub, NEW at, Shape(t, S, sub, at), NEW x \in S, NEW d \in Side,
         t.kid[Other(d)][x] # Nil, NEW r, Rotated(t, x, d, r)
  PROVE  LET y == t.kid[Other(d)][x]
         IN Shape(r, S, [sub EXCEPT ![y] = sub[x], ![x] = (sub[x] \ sub[y]) \cup sub[t.kid[d][y]]], at)
<1> DEFINE e == Other(d)
           y == t.kid[e][x]
           b == t.kid[d][y]
           f == t.kid[e][y]
           a == t.kid[d][x]
           p == t.parent[x]
           sub2 == [sub EXCEPT ![y] = sub[x], ![x] = (sub[x] \ sub[y]) \cup sub[b]]
<1>1. /\ t \in Tree /\ x \in Node /\ x # Nil /\ e \in Side /\ d # e /\ \A c \in Side : c = d \/ c = e
      /\ d = Other(e)
  BY Sides, Below DEF Shape, Parted
<1>2. y \in S /\ y \in Node /\ y # Nil /\ y \in sub[x] /\ y \in sub[y] /\ x \notin sub[y] /\ x # y
  BY <1>1, Below DEF Parted
<1>3. /\ r \in Tree /\ r.color = t.color /\ r.ok = t.ok
      /\ r.root = IF t.root = x THEN y ELSE t.root
      /\ \A z \in Node : r.parent[z] = IF z = x THEN y ELSE IF z = y THEN p
                                       ELSE IF z = b /\ b # Nil THEN x ELSE t.parent[z]
      /\ \A c \in Side, z \in Node :
           r.kid[c][z] = IF c = e /\ z = x THEN b ELSE IF c = d /\ z = y THEN x
                         ELSE IF t.kid[c][z] = x THEN y ELSE t.kid[c][z]
  BY DEF Rotated
<1>4. /\ a \in Node /\ b \in Node /\ f \in Node
      /\ sub[a] \subseteq sub[x] /\ x \notin sub[a] /\ sub[a] \cap sub[y] = {}
      /\ sub[x] = {x} \cup sub[a] \cup sub[y]
      /\ sub[b] \subseteq sub[y] /\ y \notin sub[b] /\ sub[b] \cap sub[f] = {}
      /\ sub[y] = {y} \cup sub[b] \cup sub[f]
      /\ sub[f] \subseteq sub[y] /\ y \notin sub[f]
      /\ x \in sub[x]
  <2>1. Parted(t, S, sub, x, d) /\ Parted(t, S, sub, y, d) /\ Parted(t, S, sub, x, e) /\ Parted(t, S, sub, y, e)
    BY <1>1, <1>2, Below
  <2>2. t.kid[Other(d)][x] = y /\ t.kid[Other(e)][x] = a /\ t.kid[Other(d)][y] = f /\ t.kid[Other(e)][y] = b
    BY <1>1
  <2>3. t.kid[d][x] = a /\ t.kid[e][x] = y /\ t.kid[d][y] = b /\ t.kid[e][y] = f
    OBVIOUS
  <2> HIDE DEF y, a, b, f
  <2> QED
    BY <2>1, <2>2, <2>3 DEF Parted
<1>5. S \subseteq Key /\ Key \subseteq Node /\ Nil \notin S /\ Labels(at)
  BY KeyAssumption DEF Shape, Divided, Node
<1>6. \A z \in Node : sub[z] \subseteq S
  BY DEF Shape, Divided
<1>7. sub[Nil] = {} /\ sub[t.root] = S /\ \A z \in S : z \in sub[z]
  BY DEF Shape, Divided
<1>8. \A z \in S, c \in Side, k \in S :
        k \in sub[t.kid[c][z]] <=> k \in sub[z] /\ Before(at, c, k, z)
  BY DEF Shape, Divided
<1>9. \A z \in S, c \in Side : t.kid[c][z] \in S \cup {Nil} /\ t.kid[c][z] \in Node
  BY <1>5 DEF Shape, Chained, Node
<1>10. \A c \in Side, z \in Node : t.kid[c][z] = x => z \in S /\ z # x /\ z # y
  <2> SUFFICES ASSUME NEW c \in Side, NEW z \in Node, t.kid[c][z] = x PROVE z \in S /\ z # x /\ z # y
    OBVIOUS
  <2>1. z \in S
    BY <1>1 DEF Shape, Cleared
  <2> QED
    BY <1>2, <1>1, <2>1, Below DEF Parted
<1>11. Divided(r, S, sub2, at)
  <2>1. sub2 \in [Node -> SUBSET S]
    BY <1>2, <1>1, <1>4, <1>6 DEF Shape, Divided
  <2>2. /\ sub2[x] = (sub[x] \ sub[y]) \cup sub[b] /\ sub2[y] = sub[x]
        /\ \A z \in Node : z # x /\ z # y => sub2[z] = sub[z]
    BY <1>1, <1>2 DEF Shape, Divided
  <2>3. sub2[x] = {x} \cup sub[a] \cup sub[b]
    BY <1>2, <1>4, <2>2, ZenonT(60)
  <2> HIDE DEF sub2, y, b, f, a, e, p
  <2>4. t.root \in Node
    BY <1>1, TreeType
  <2>5. sub2[Nil] = {} /\ sub2[r.root] = S
    BY <1>1, <1>2, <1>3, <1>7, <2>2, <2>4 DEF Node
  <2>6. \A z \in S : z \in sub2[z]
    BY <1>2, <1>3, <1>5, <1>7, <2>2, <2>3
  <2>7. ASSUME NEW z \in S, NEW c \in Side, NEW k \in S
        PROVE  k \in sub2[r.kid[c][z]] <=> k \in sub2[z] /\ Before(at, c, k, z)
    <3>1. z \in Node /\ z \in Key /\ k \in Key /\ x \in Key /\ y \in Key
      BY <1>2, <1>5
    <3>2. k \in sub[t.kid[c][z]] <=> k \in sub[z] /\ Before(at, c, k, z)
      BY <1>8
    <3>3. k \in sub[a] <=> k \in sub[x] /\ Before(at, d, k, x)
      BY <1>8 DEF a
    <3>4. k \in sub[y] <=> k \in sub[x] /\ Before(at, e, k, x)
      BY <1>1, <1>8 DEF y
    <3>5. k \in sub[b] <=> k \in sub[y] /\ Before(at, d, k, y)
      BY <1>2, <1>8 DEF b
    <3>6. k \in sub[f] <=> k \in sub[y] /\ Before(at, e, k, y)
      BY <1>1, <1>2, <1>8 DEF f
    <3>7. Before(at, e, y, x)
      BY <1>1, <1>2, <1>8 DEF y
    <3>8. CASE z = x
      <4>1. CASE c = e
        <5>1. r.kid[c][z] = b /\ b # x /\ b # y
          BY <1>1, <1>2, <1>3, <1>4, <3>8, <4>1, <1>7, <1>9 DEF b
        <5>2. k \in sub2[r.kid[c][z]] <=> k \in sub[b]
          BY <1>4, <2>2, <5>1
        <5>3. ~ Before(at, e, x, x)
          BY <1>1, <1>5, <3>1, Order
        <5> QED
          BY <1>4, <2>3, <3>3, <3>4, <3>8, <4>1, <5>2, <5>3
      <4>2. CASE c = d
        <5>1. r.kid[c][z] = a /\ a # x /\ a # y
          BY <1>1, <1>2, <1>3, <1>4, <3>1, <3>8, <4>2, <1>10, <1>7, <1>9 DEF a
        <5>2. k \in sub2[r.kid[c][z]] <=> k \in sub[a]
          BY <1>4, <2>2, <5>1
        <5>3. ~ Before(at, d, x, x) /\ (Before(at, e, k, x) => ~ Before(at, d, k, x))
          BY <1>1, <1>5, <3>1, Order
        <5> QED
          BY <1>4, <2>3, <3>3, <3>4, <3>8, <4>2, <5>2, <5>3
      <4> QED
        BY <1>1, <4>1, <4>2
    <3>9. CASE z = y
      <4>1. CASE c = d
        <5>1. r.kid[c][z] = x
          BY <1>1, <1>2, <1>3, <3>9, <4>1
        <5>2. Before(at, d, x, y)
          BY <1>1, <1>5, <3>1, <3>7, Order
        <5>3. Before(at, d, k, x) => Before(at, d, k, y)
          BY <1>1, <1>5, <3>1, <5>2, Order
        <5> QED
          BY <1>4, <2>2, <2>3, <3>3, <3>5, <3>9, <4>1, <5>1, <5>2, <5>3
      <4>2. CASE c = e
        <5>1. r.kid[c][z] = f /\ f # x /\ f # y
          BY <1>1, <1>2, <1>3, <1>4, <3>1, <3>9, <4>2, <1>10, <1>7, <1>9 DEF f
        <5>2. k \in sub2[r.kid[c][z]] <=> k \in sub[f]
          BY <1>4, <2>2, <5>1
        <5>3. Before(at, e, k, y) => Before(at, e, k, x)
          BY <1>1, <1>5, <3>1, <3>7, Order
        <5> QED
          BY <1>4, <2>2, <3>4, <3>6, <3>9, <4>2, <5>2, <5>3
      <4> QED
        BY <1>1, <4>1, <4>2
    <3>10. CASE z # x /\ z # y
      <4>1. sub2[z] = sub[z]
        BY <2>2, <3>1, <3>10
      <4>2. CASE t.kid[c][z] = x
        BY <1>3, <2>2, <3>1, <3>2, <3>10, <4>1, <4>2
      <4>3. CASE t.kid[c][z] # x
        <5>1. t.kid[c][z] # y
          BY <1>1, <1>2, <3>1, <3>10, OneParent DEF y
        <5>2. sub2[r.kid[c][z]] = sub[t.kid[c][z]]
          BY <1>3, <1>9, <2>2, <3>1, <3>10, <4>3, <5>1
        <5> QED
          BY <3>2, <4>1, <5>2
      <4> QED
        BY <4>2, <4>3
    <3> QED
      BY <3>8, <3>9, <3>10
  <2> QED
    BY <1>5, <2>1, <2>5, <2>6, <2>7 DEF Divided
<1>12. Chained(r, S)
  <2>0. b \in S \cup {Nil}
    BY <1>2, <1>9
  <2>1. r.root \in S \cup {Nil}
    BY <1>2, <1>3 DEF Shape, Chained
  <2>2. b # x /\ b # y
    BY <1>2, <1>4, <1>7, <2>0
  <2>3. r.root # Nil => r.parent[r.root] = Nil
    <3>1. CASE t.root = x
      BY <1>1, <1>2, <1>3, <3>1 DEF Shape, Chained
    <3>2. CASE t.root # x /\ t.root # Nil
      <4>1. t.root # y /\ (b # Nil => t.root # b) /\ t.root \in Node
        BY <1>1, <1>2, TreeType, OneParent
      <4> QED
        BY <1>3, <3>2, <4>1 DEF Shape, Chained
    <3> QED
      BY <1>3, <3>1, <3>2
  <2>4. ASSUME NEW z \in S, NEW c \in Side PROVE r.kid[c][z] \in S \cup {Nil}
    BY <1>2, <1>3, <1>5, <1>9, <2>0
  <2>5. ASSUME NEW z \in S, NEW c \in Side, r.kid[c][z] # Nil PROVE r.parent[r.kid[c][z]] = z
    <3>1. z \in Node
      BY <1>5
    <3>2. CASE c = e /\ z = x
      <4>1. r.kid[c][z] = b
        BY <1>3, <3>1, <3>2
      <4> QED
        BY <1>3, <1>4, <2>2, <2>5, <3>2, <4>1
    <3>3. CASE c = d /\ z = y
      BY <1>1, <1>2, <1>3, <3>1, <3>3
    <3>4. CASE ~ (c = e /\ z = x) /\ ~ (c = d /\ z = y) /\ t.kid[c][z] = x
      <4>1. r.kid[c][z] = y
        BY <1>3, <3>1, <3>4
      <4>2. p = z
        BY <1>1, <3>1, <3>4 DEF Shape, Chained
      <4> QED
        BY <1>2, <1>3, <4>1, <4>2
    <3>5. CASE ~ (c = e /\ z = x) /\ ~ (c = d /\ z = y) /\ t.kid[c][z] # x
      <4>1. r.kid[c][z] = t.kid[c][z]
        BY <1>3, <3>1, <3>5
      <4>2. t.parent[t.kid[c][z]] = z /\ t.kid[c][z] \in Node
        BY <1>9, <2>5, <4>1 DEF Shape, Chained
      <4>3. t.kid[c][z] # y /\ (b # Nil => t.kid[c][z] # b)
        BY <1>1, <1>2, <3>1, <3>5, OneParent
      <4> QED
        BY <1>3, <2>5, <3>5, <4>1, <4>2, <4>3
    <3> QED
      BY <3>2, <3>3, <3>4, <3>5
  <2> QED
    BY <2>1, <2>3, <2>4, <2>5 DEF Chained
<1>13. Cleared(r, S)
  <2> SUFFICES ASSUME NEW z \in Node \ S
               PROVE  /\ r.color[z] = "black" /\ r.parent[z] = Nil
                      /\ \A c \in Side : r.kid[c][z] = Nil
    BY DEF Cleared
  <2>1. t.color[z] = "black" /\ t.parent[z] = Nil /\ \A c \in Side : t.kid[c][z] = Nil
    BY DEF Shape, Cleared
  <2>2. z # x /\ z # y /\ (b # Nil => z # b)
    BY <1>2, <1>9
  <2> QED
    BY <1>1, <1>3, <2>1, <2>2
<1> QED
  BY <1>3, <1>11, <1>12, <1>13 DEF Shape

\* The same, with the two children and the new sets named.
LEMMA RotateShapeIs ==
  ASSUME NEW t, NEW S, NEW sub, NEW at, Shape(t, S, sub, at), NEW x \in S, NEW d \in Side,
         NEW y, t.kid[Other(d)][x] = y, y # Nil, NEW b, t.kid[d][y] = b, NEW r, Rotated(t, x, d, r),
         NEW sub2, [sub EXCEPT ![y] = sub[x], ![x] = (sub[x] \ sub[y]) \cup sub[b]] = sub2
  PROVE  Shape(r, S, sub2, at)
BY RotateShape

\* Colors do not matter to the shape, nor do asserts.
LEMMA PaintShape ==
  ASSUME NEW t, NEW S, NEW sub, NEW at, Shape(t, S, sub, at), NEW x \in Node, NEW col \in Color,
         x \in S \/ col = "black", NEW r, Painted(t, x, col, r)
  PROVE  Shape(r, S, sub, at)
<1>1. Divided(r, S, sub, at) /\ Chained(r, S)
  BY DEF Shape, Divided, Chained, Painted
<1>2. Cleared(r, S)
  BY DEF Shape, Cleared, Painted
<1> QED
  BY <1>1, <1>2 DEF Shape, Painted

LEMMA AssertShape ==
  ASSUME NEW t, NEW S, NEW sub, NEW at, Shape(t, S, sub, at), NEW cond, NEW r, Asserted(t, cond, r)
  PROVE  Shape(r, S, sub, at)
BY DEF Shape, Divided, Chained, Cleared, Asserted

-----------------------------------------------------------------------------
(* Colors.                                                                 *)

Blk(t, x) == IF t.color[x] = "black" THEN 1 ELSE 0

\* bh[x] black nodes are on every path from x down.
Even(t, S, bh) ==
  /\ bh \in [Node -> Nat] /\ bh[Nil] = 0
  /\ \A z \in S, c \in Side : bh[z] = bh[t.kid[c][z]] + Blk(t, z)

\* No red node has a red child but the parent of x.
RedApart(t, S, x) ==
  \A z \in S, c \in Side :
    t.color[z] = "red" /\ t.color[t.kid[c][z]] = "red" => t.kid[c][z] = x

Identity == [k \in Key |-> k]

\* What holds between the rounds of rbtree_insert_fixup.
Fixing(t, S, sub, bh, x) ==
  /\ Shape(t, S, sub, Identity) /\ Even(t, S, bh) /\ RedApart(t, S, x) /\ t.ok
  /\ x \in S /\ t.color[x] = "red"
  /\ t.root # x => t.color[t.root] = "black"

\* A red-black tree.
Sound(t, S, sub, bh) ==
  /\ Shape(t, S, sub, Identity) /\ Even(t, S, bh) /\ RedApart(t, S, Nil) /\ t.ok
  /\ t.color[t.root] = "black"

\* The family of x, whose parent is red: p, its black parent g, and the uncle u.
Family(t, S, sub, x, p, g, u, d) ==
  /\ p \in S /\ g \in S /\ u \in S \cup {Nil} /\ d \in Side
  /\ t.parent[x] = p /\ t.parent[p] = g /\ t.kid[d][g] = p /\ t.kid[Other(d)][g] = u
  /\ t.color[p] = "red" /\ t.color[g] = "black"
  /\ x # p /\ x # g /\ x # u /\ p # g /\ p # u /\ g # u /\ x # Nil /\ p # Nil /\ g # Nil
  /\ x \in sub[p] /\ p \in sub[g] /\ sub[p] \subseteq sub[g] /\ g \notin sub[p]
  /\ \E c \in Side : t.kid[c][p] = x

LEMMA FamilyIs ==
  ASSUME NEW t, NEW S, NEW sub, NEW bh, NEW x, Fixing(t, S, sub, bh, x), ~Fixed(t, x)
  PROVE  LET p == t.parent[x]
             g == t.parent[p]
             d == IF p = t.kid["l"][g] THEN "l" ELSE "r"
         IN Family(t, S, sub, x, p, g, t.kid[Other(d)][g], d)
<1> DEFINE p == t.parent[x]
           g == t.parent[p]
           d == IF p = t.kid["l"][g] THEN "l" ELSE "r"
           u == t.kid[Other(d)][g]
<1>1. Shape(t, S, sub, Identity) /\ x \in S /\ x # t.root /\ t.color[p] # "black"
  BY DEF Fixing, Fixed
<1>2. p # Nil /\ p \in S /\ x \in sub[p] /\ p \notin sub[x] /\ \E c \in Side : t.kid[c][p] = x
  BY <1>1, ParentNil
<1>3. p \in Node /\ p # x /\ x # Nil
  BY <1>1, <1>2, KeyAssumption, Below DEF Parted, Side
<1>4. t.color[p] = "red"
  BY <1>1, <1>3 DEF Shape, Tree
<1>5. p # t.root
  BY <1>3, <1>4 DEF Fixing
<1>6. g # Nil /\ g \in S /\ p \in sub[g] /\ g \notin sub[p] /\ \E c \in Side : t.kid[c][g] = p
  BY <1>1, <1>2, <1>5, ParentNil
<1>7. d \in Side /\ t.kid[d][g] = p
  BY <1>6 DEF Side
<1> HIDE DEF d, g, p, u
<1>8. t.color[g] = "black"
  <2>1. t.color[g] \in {"red", "black"}
    BY <1>1, <1>6, Below DEF Parted, Shape, Tree, Side
  <2> QED
    BY <1>3, <1>4, <1>6, <1>7, <2>1 DEF Fixing, RedApart
<1>9. u \in S \cup {Nil} /\ sub[p] \cap sub[u] = {} /\ sub[p] \subseteq sub[g] /\ g \notin sub[u] /\ p \in sub[p]
  <2>1. Parted(t, S, sub, g, d) /\ Other(d) \in Side /\ Parted(t, S, sub, g, Other(d))
    BY <1>1, <1>6, <1>7, Below, Sides
  <2> QED
    BY <1>1, <1>2, <1>6, <1>7, <2>1 DEF Parted, u, Shape, Chained
<1>10. x # g /\ p # g /\ x # u /\ p # u /\ g # u
  <2>1. u # Nil => u \in sub[u]
    BY <1>1, <1>9 DEF Shape, Divided
  <2>2. g \in sub[g]
    BY <1>1, <1>6 DEF Shape, Divided
  <2> QED
    BY <1>2, <1>3, <1>6, <1>9, <2>1, <2>2
<1>11. p = t.parent[x] /\ t.parent[p] = g /\ t.kid[Other(d)][g] = u
  BY DEF p, g, u
<1>12. Family(t, S, sub, x, p, g, u, d)
  BY <1>2, <1>3, <1>4, <1>6, <1>7, <1>8, <1>9, <1>10, <1>11 DEF Family
<1> QED
  BY <1>12 DEF d, g, p, u

\* A red uncle: the parents are painted, and what is left to fix is at g.
LEMMA UncleRed ==
  ASSUME NEW t, NEW S, NEW sub, NEW bh, NEW x, Fixing(t, S, sub, bh, x),
         NEW p, NEW g, NEW u, NEW d, Family(t, S, sub, x, p, g, u, d), t.color[u] = "red"
  PROVE  Fixing(Paint(Paint(Paint(t, p, "black"), u, "black"), g, "red"), S, sub,
                [bh EXCEPT ![p] = @ + 1, ![u] = @ + 1], g)
<1> DEFINE t1 == Paint(t, p, "black")
           t2 == Paint(t1, u, "black")
           t3 == Paint(t2, g, "red")
           bh2 == [bh EXCEPT ![p] = @ + 1, ![u] = @ + 1]
<1>1. /\ Shape(t, S, sub, Identity) /\ t \in Tree /\ t.color[Nil] = "black" /\ Nil \notin S
      /\ S \subseteq Node /\ "red" \in Color /\ "black" \in Color
  BY KeyAssumption DEF Fixing, Shape, Divided, Cleared, Node, Color
<1>2. u \in S /\ u \in Node /\ p \in Node /\ g \in Node
  BY <1>1 DEF Family
<1>3. Painted(t, p, "black", t1)
  BY <1>1, <1>2, PaintIs
<1>4. Painted(t1, u, "black", t2)
  BY <1>1, <1>2, <1>3, PaintIs DEF Painted
<1>5. Painted(t2, g, "red", t3)
  BY <1>1, <1>2, <1>4, PaintIs DEF Painted
<1> HIDE DEF t1, t2, t3
<1>6. Shape(t3, S, sub, Identity)
  <2>1. Shape(t1, S, sub, Identity)
    BY <1>1, <1>2, <1>3, PaintShape
  <2>2. Shape(t2, S, sub, Identity)
    BY <1>1, <1>2, <1>4, <2>1, PaintShape
  <2> QED
    BY <1>1, <1>2, <1>5, <2>2, PaintShape DEF Family
<1>7. /\ t3.root = t.root /\ t3.kid = t.kid /\ t3.ok = t.ok
      /\ \A z \in Node : t3.color[z] = IF z = g THEN "red" ELSE IF z = u \/ z = p THEN "black" ELSE t.color[z]
  BY <1>3, <1>4, <1>5 DEF Painted
<1>8. /\ bh2 \in [Node -> Nat]
      /\ \A z \in Node : bh2[z] = IF z = p \/ z = u THEN bh[z] + 1 ELSE bh[z]
  BY <1>2 DEF Family, Fixing, Even
<1> HIDE DEF bh2
<1>9. \A z \in S, c \in Side : t.kid[c][z] \in Node /\ (t.kid[c][z] \in {p, u} => z = g)
  <2> SUFFICES ASSUME NEW z \in S, NEW c \in Side
               PROVE  t.kid[c][z] \in Node /\ (t.kid[c][z] \in {p, u} => z = g)
    OBVIOUS
  <2>1. Parted(t, S, sub, z, c)
    BY <1>1, Below
  <2>2. z \in Node
    BY <1>1
  <2>3. Other(d) \in Side
    BY Sides DEF Family
  <2>4. t.kid[c][z] = p => z = g
    BY <1>1, <2>2, OneParent DEF Family
  <2>5. t.kid[c][z] = u => z = g
    BY <1>1, <1>2, <2>2, <2>3, OneParent DEF Family
  <2> QED
    BY <2>1, <2>4, <2>5 DEF Parted
<1>10. Even(t3, S, bh2)
  <2>1. bh2[Nil] = 0
    BY <1>1, <1>2, <1>8 DEF Fixing, Even, Family, Node
  <2>2. ASSUME NEW z \in S, NEW c \in Side
        PROVE  bh2[z] = bh2[t.kid[c][z]] + Blk(t3, z)
    <3>1. /\ bh[z] = bh[t.kid[c][z]] + Blk(t, z) /\ z # Nil /\ z \in Node
          /\ bh[z] \in Nat /\ bh[t.kid[c][z]] \in Nat
      <4>1. z # Nil /\ z \in Node /\ t.kid[c][z] \in Node
        BY <1>1, <1>9
      <4> QED
        BY <4>1 DEF Fixing, Even
    <3>2. CASE z = g
      <4>1. t.kid[c][z] \in {p, u}
        BY <3>2, Sides DEF Family
      <4>2. Blk(t, z) = 1 /\ Blk(t3, z) = 0 /\ bh2[z] = bh[z]
        BY <1>2, <1>7, <1>8, <3>1, <3>2 DEF Blk, Family
      <4> QED
        BY <1>8, <1>9, <3>1, <4>1, <4>2
    <3>3. CASE z \in {p, u}
      <4>1. Blk(t, z) = 0 /\ Blk(t3, z) = 1
        BY <1>2, <1>7, <3>1, <3>3 DEF Blk, Family
      <4>2. t.kid[c][z] \notin {p, u}
        BY <1>9, <3>3 DEF Family
      <4> QED
        BY <1>8, <1>9, <3>1, <3>3, <4>1, <4>2
    <3>4. CASE z \notin {g, p, u}
      <4>1. Blk(t, z) = Blk(t3, z)
        BY <1>7, <3>1, <3>4 DEF Blk
      <4> QED
        BY <1>8, <1>9, <3>1, <3>4, <4>1
    <3> QED
      BY <3>2, <3>3, <3>4
  <2> QED
    BY <1>1, <1>7, <1>8, <1>9, <2>1, <2>2 DEF Even, Blk
<1>11. RedApart(t3, S, g)
  <2> SUFFICES ASSUME NEW z \in S, NEW c \in Side, t3.color[z] = "red", t3.color[t.kid[c][z]] = "red",
                      t.kid[c][z] # g
               PROVE  FALSE
    BY <1>7 DEF RedApart
  <2>1. z \in Node /\ t.kid[c][z] \in Node
    BY <1>1, <1>9
  <2>2. t.color[t.kid[c][z]] = "red" /\ t.kid[c][z] # p /\ t.kid[c][z] # u
    BY <1>7, <2>1
  <2>3. z # g
    BY <2>2, Sides DEF Family
  <2>4. t.color[z] = "red" /\ z # p
    BY <1>7, <2>1, <2>3
  <2>5. t.kid[c][z] = x
    BY <2>2, <2>4 DEF Fixing, RedApart
  <2>6. t.parent[x] = z
    BY <1>1, <2>5 DEF Shape, Chained, Family
  <2> QED
    BY <2>4, <2>6 DEF Family
<1>12. t3.root # g => t3.color[t3.root] = "black"
  <2>1. t.root \in Node /\ (t.root = x \/ t.color[t.root] = "black")
    BY <1>1, TreeType DEF Fixing
  <2>2. t.root # x
    BY <1>1, ParentNil DEF Family, Fixing
  <2> QED
    BY <1>7, <2>1, <2>2
<1>13. g \in S /\ t3.color[g] = "red" /\ t3.ok
  BY <1>2, <1>7 DEF Fixing, Family
<1>14. Fixing(t3, S, sub, bh2, g)
  BY <1>6, <1>10, <1>11, <1>12, <1>13 DEF Fixing
<1> QED
  BY <1>14 DEF t1, t2, t3, bh2

\* A black uncle and an inner node: the parent is rotated below it.
LEMMA UncleBlackInner ==
  ASSUME NEW t, NEW S, NEW sub, NEW bh, NEW x, Fixing(t, S, sub, bh, x),
         NEW p, NEW g, NEW u, NEW d, Family(t, S, sub, x, p, g, u, d), t.kid[Other(d)][p] = x,
         NEW r, Rotate(t, p, d) = r
  PROVE  /\ \E sub2 : Fixing(r, S, sub2, bh, p) /\ Family(r, S, sub2, p, x, g, u, d)
         /\ r.kid[d][x] = p /\ r.color = t.color
<1> DEFINE e == Other(d)
           b == t.kid[d][x]
           sub2 == [sub EXCEPT ![x] = sub[p], ![p] = (sub[p] \ sub[x]) \cup sub[b]]
<1>1. /\ Shape(t, S, sub, Identity) /\ t \in Tree /\ t.color[Nil] = "black" /\ Nil \notin S
      /\ S \subseteq Node /\ x \in S
  BY KeyAssumption DEF Fixing, Shape, Divided, Cleared, Node
<1>2. d \in Side /\ e \in Side /\ d # e /\ (\A c \in Side : c = d \/ c = e) /\ p \in S /\ g \in S
      /\ Other(e) = d
  BY Sides DEF Family
<1>3. Rotated(t, p, d, r)
  BY <1>1, <1>2, RotateIs
<1>4. Shape(r, S, sub2, Identity)
  BY <1>1, <1>2, <1>3, RotateShape
<1>5. sub2[x] = sub[p] /\ \A z \in Node : z # x /\ z # p => sub2[z] = sub[z]
  BY <1>1, <1>2 DEF Shape, Divided, Family
<1> HIDE DEF sub2, b
<1>6. /\ r.color = t.color /\ r.ok = t.ok
      /\ r.root = IF t.root = p THEN x ELSE t.root
      /\ r.parent[p] = x /\ r.parent[x] = g
      /\ \A c \in Side, z \in Node :
           r.kid[c][z] = IF c = e /\ z = p THEN b ELSE IF c = d /\ z = x THEN p
                         ELSE IF t.kid[c][z] = p THEN x ELSE t.kid[c][z]
  BY <1>1, <1>2, <1>3 DEF Rotated, Family, b
<1>7. \A z \in S, c \in Side : t.kid[c][z] \in Node
  BY <1>1, Below DEF Parted
<1>8. bh[x] = bh[p] /\ \A c \in Side : bh[t.kid[c][x]] = bh[x] /\ bh[t.kid[c][p]] = bh[p]
  <2>1. Blk(t, x) = 0 /\ Blk(t, p) = 0
    BY DEF Fixing, Family, Blk
  <2>2. \A c \in Side : bh[p] = bh[t.kid[c][p]] + 0 /\ bh[x] = bh[t.kid[c][x]] + 0
    BY <1>1, <1>2, <2>1 DEF Fixing, Even
  <2>3. \A c \in Side : bh[t.kid[c][p]] \in Nat /\ bh[t.kid[c][x]] \in Nat
    BY <1>1, <1>2, <1>7 DEF Fixing, Even
  <2> QED
    BY <1>2, <2>2, <2>3
<1>9. Even(r, S, bh)
  <2>1. ASSUME NEW z \in S, NEW c \in Side PROVE bh[z] = bh[r.kid[c][z]] + Blk(r, z)
    <3>1. Blk(r, z) = Blk(t, z) /\ z \in Node
      BY <1>1, <1>6 DEF Blk
    <3>2. bh[z] = bh[t.kid[c][z]] + Blk(t, z)
      BY DEF Fixing, Even
    <3>3. bh[r.kid[c][z]] = bh[t.kid[c][z]]
      BY <1>2, <1>6, <1>8, <3>1 DEF b
    <3> QED
      BY <3>1, <3>2, <3>3
  <2> QED
    BY <2>1 DEF Fixing, Even
<1>10. \A z \in S, c \in Side : t.color[z] = "red" /\ t.color[t.kid[c][z]] = "red" => t.kid[c][z] = x /\ z = p
  BY <1>1 DEF Fixing, RedApart, Shape, Chained, Family
<1>11. RedApart(r, S, p)
  <2> SUFFICES ASSUME NEW z \in S, NEW c \in Side, r.color[z] = "red", r.color[r.kid[c][z]] = "red"
               PROVE  r.kid[c][z] = p
    BY DEF RedApart
  <2>1. z \in Node /\ t.color[z] = "red" /\ t.color[r.kid[c][z]] = "red"
    BY <1>1, <1>6
  <2>2. t.kid[c][z] # p
    <3>1. t.kid[c][z] = p => z = g
      BY <1>1, <1>2 DEF Shape, Chained, Family
    <3> QED
      BY <2>1, <3>1 DEF Family
  <2>3. ~ (c = e /\ z = p)
    <3> SUFFICES ASSUME c = e, z = p PROVE FALSE
      OBVIOUS
    <3>1. t.color[b] = "red"
      BY <1>6, <2>1
    <3> QED
      BY <1>1, <1>2, <1>10, <3>1 DEF Fixing, Family, b
  <2>4. ~ (c = d /\ z = x) => t.kid[c][z] = x /\ z = p
    BY <1>6, <1>10, <2>1, <2>2, <2>3
  <2>5. c = d /\ z = x
    <3>1. t.kid[d][p] # x
      <4>1. Parted(t, S, sub, p, d)
        BY <1>1, <1>2, Below
      <4> QED
        BY <1>1, <4>1 DEF Parted, Family, Fixing
    <3> QED
      BY <1>2, <2>3, <2>4, <3>1
  <2> QED
    BY <1>6, <2>1, <2>3, <2>5
<1>12. r.root = t.root
  <2>1. t.root # p
    BY <1>1, <1>2, ParentNil DEF Family
  <2> QED
    BY <1>6, <2>1
<1>13. t.root # x
  BY <1>1, <1>2, ParentNil DEF Family
<1>14. Fixing(r, S, sub2, bh, p)
  BY <1>2, <1>4, <1>6, <1>9, <1>11, <1>12, <1>13 DEF Fixing, Family
<1>15. Family(r, S, sub2, p, x, g, u, d)
  <2>1. r.kid[d][g] = x /\ r.kid[e][g] = u /\ r.kid[d][x] = p
    BY <1>1, <1>2, <1>6 DEF Family
  <2>2. x \in sub2[g] /\ sub2[x] \subseteq sub2[g] /\ g \notin sub2[x]
    BY <1>1, <1>2, <1>5 DEF Family
  <2>3. p \in sub2[x]
    BY <1>1, <1>2, <1>5 DEF Shape, Divided
  <2> QED
    BY <1>1, <1>2, <1>6, <2>1, <2>2, <2>3 DEF Fixing, Family
<1>16. r.kid[d][x] = p
  BY <1>1, <1>2, <1>6 DEF Family
<1> QED
  BY <1>6, <1>14, <1>15, <1>16

\* A black uncle and an outer node: the grandparent is rotated below the parent.
LEMMA UncleBlackOuter ==
  ASSUME NEW t, NEW S, NEW sub, NEW bh, NEW x, Fixing(t, S, sub, bh, x),
         NEW p, NEW g, NEW u, NEW d, Family(t, S, sub, x, p, g, u, d), t.kid[d][p] = x,
         t.color[u] = "black",
         NEW r, Rotate(Paint(Paint(t, p, "black"), g, "red"), g, Other(d)) = r
  PROVE  Fixed(r, x) /\ \E sub2, bh2 : Fixing(r, S, sub2, bh2, x)
<1> DEFINE e == Other(d)
           b == t.kid[e][p]
           t1 == Paint(t, p, "black")
           t2 == Paint(t1, g, "red")
           sub2 == [sub EXCEPT ![p] = sub[g], ![g] = (sub[g] \ sub[p]) \cup sub[b]]
           bh2 == [bh EXCEPT ![p] = bh[g], ![g] = bh[p]]
<1>1. /\ Shape(t, S, sub, Identity) /\ t \in Tree /\ t.color[Nil] = "black" /\ Nil \notin S
      /\ S \subseteq Node /\ x \in S /\ "red" \in Color /\ "black" \in Color
  BY KeyAssumption DEF Fixing, Shape, Divided, Cleared, Node, Color
<1>2. d \in Side /\ e \in Side /\ d # e /\ (\A c \in Side : c = d \/ c = e) /\ p \in S /\ g \in S
      /\ Other(e) = d /\ p \in Node /\ g \in Node
  BY <1>1, Sides DEF Family
<1>3. Painted(t, p, "black", t1)
  BY <1>1, <1>2, PaintIs
<1>4. Painted(t1, g, "red", t2)
  BY <1>1, <1>2, <1>3, PaintIs DEF Painted
<1> HIDE DEF t1, t2
<1>5. Shape(t2, S, sub, Identity)
  <2>1. Shape(t1, S, sub, Identity)
    BY <1>1, <1>2, <1>3, PaintShape
  <2> QED
    BY <1>1, <1>2, <1>4, <2>1, PaintShape
<1>6. /\ t2.root = t.root /\ t2.kid = t.kid /\ t2.parent = t.parent /\ t2.ok = t.ok
      /\ \A z \in Node : t2.color[z] = IF z = g THEN "red" ELSE IF z = p THEN "black" ELSE t.color[z]
  BY <1>3, <1>4 DEF Painted
<1>7. Rotated(t2, g, e, r)
  <2>1. t2.kid[Other(e)][g] # Nil
    BY <1>2, <1>6 DEF Family
  <2> QED
    BY <1>2, <1>5, <2>1, RotateIs DEF t1, t2
<1>8. Shape(r, S, sub2, Identity)
  <2>1. t2.kid[Other(e)][g] = p /\ t2.kid[e][p] = b /\ p # Nil
    BY <1>2, <1>6 DEF Family
  <2> HIDE DEF b
  <2> QED
    BY <1>2, <1>5, <1>7, <2>1, RotateShape
<1> HIDE DEF sub2, b
<1>9. /\ r.ok = t.ok
      /\ r.root = IF t.root = g THEN p ELSE t.root
      /\ \A z \in Node : r.color[z] = IF z = g THEN "red" ELSE IF z = p THEN "black" ELSE t.color[z]
      /\ r.parent[x] = p
      /\ \A c \in Side, z \in Node :
           r.kid[c][z] = IF c = d /\ z = g THEN b ELSE IF c = e /\ z = p THEN g
                         ELSE IF t.kid[c][z] = g THEN p ELSE t.kid[c][z]
  <2>1. t2.kid[Other(e)][g] = p /\ t2.kid[e][p] = b
    BY <1>2, <1>6 DEF Family, b
  <2>2. b # x
    <3>1. Parted(t, S, sub, p, d)
      BY <1>1, <1>2, Below
    <3> QED
      BY <1>1, <3>1 DEF Parted, b, Family, Fixing
  <2>3. r.color = t2.color /\ r.ok = t2.ok /\ r.root = IF t2.root = g THEN p ELSE t2.root
    BY <1>7, <2>1 DEF Rotated
  <2>4. r.parent[x] = p
    BY <1>1, <1>2, <1>6, <1>7, <2>1, <2>2 DEF Rotated, Family
  <2>5. \A c \in Side, z \in Node :
          r.kid[c][z] = IF c = d /\ z = g THEN b ELSE IF c = e /\ z = p THEN g
                        ELSE IF t.kid[c][z] = g THEN p ELSE t.kid[c][z]
    BY <1>2, <1>6, <1>7, <2>1 DEF Rotated
  <2> QED
    BY <1>6, <2>3, <2>4, <2>5
<1>10. /\ bh2 \in [Node -> Nat] /\ bh2[p] = bh[g] /\ bh2[g] = bh[p]
       /\ \A z \in Node : z # p /\ z # g => bh2[z] = bh[z]
  BY <1>2 DEF Family, Fixing, Even
<1> HIDE DEF bh2
<1>11. \A z \in S, c \in Side : t.kid[c][z] \in Node
  BY <1>1, Below DEF Parted
<1>12. bh[p] \in Nat /\ bh[g] = bh[p] + 1 /\ bh[u] = bh[p] /\ \A c \in Side : bh[t.kid[c][p]] = bh[p]
  <2>1. Blk(t, g) = 1 /\ Blk(t, p) = 0
    BY DEF Fixing, Family, Blk
  <2>2. \A c \in Side : bh[p] = bh[t.kid[c][p]] + 0 /\ bh[g] = bh[t.kid[c][g]] + 1
    BY <1>1, <1>2, <2>1 DEF Fixing, Even
  <2>3. bh[p] \in Nat /\ bh[g] \in Nat /\ \A c \in Side : bh[t.kid[c][p]] \in Nat /\ bh[t.kid[c][g]] \in Nat
    BY <1>1, <1>2, <1>11 DEF Fixing, Even
  <2>4. t.kid[d][g] = p /\ t.kid[e][g] = u
    BY DEF Family
  <2> QED
    BY <1>2, <2>2, <2>3, <2>4
<1>13. \A z \in S, c \in Side : t.kid[c][z] = p => z = g
  BY <1>1 DEF Shape, Chained, Family
<1>14. \A z \in S, c \in Side : t.kid[c][z] = g => z # g /\ z # p
  <2> SUFFICES ASSUME NEW z \in S, NEW c \in Side, t.kid[c][z] = g PROVE z # g /\ z # p
    OBVIOUS
  <2>1. Parted(t, S, sub, z, c)
    BY <1>1, Below
  <2> QED
    BY <1>1, <1>2, <2>1 DEF Parted, Family
<1>15. Even(r, S, bh2)
  <2>1. ASSUME NEW z \in S, NEW c \in Side PROVE bh2[z] = bh2[r.kid[c][z]] + Blk(r, z)
    <3>1. bh[z] = bh[t.kid[c][z]] + Blk(t, z) /\ z \in Node /\ t.kid[c][z] \in Node
      BY <1>1, <1>11 DEF Fixing, Even
    <3>2. CASE z = g
      <4>1. Blk(r, z) = 0
        BY <1>9, <3>1, <3>2 DEF Blk
      <4>2. CASE c = d
        <5>1. r.kid[c][z] = b /\ b # p /\ b # g
          BY <1>2, <1>9, <1>13, <1>14, <3>2, <4>2 DEF b, Family
        <5>2. bh2[r.kid[c][z]] = bh[p]
          BY <1>2, <1>10, <1>11, <1>12, <5>1 DEF b
        <5> QED
          BY <1>10, <1>12, <3>2, <4>1, <5>2
      <4>3. CASE c = e
        <5>1. r.kid[c][z] = u /\ u # p /\ u # g /\ u \in Node
          BY <1>1, <1>2, <1>9, <3>1, <3>2, <4>3 DEF Family
        <5> QED
          BY <1>10, <1>12, <3>2, <4>1, <5>1
      <4> QED
        BY <1>2, <4>2, <4>3
    <3>3. CASE z = p
      <4>1. Blk(r, z) = 1
        BY <1>2, <1>9, <3>3 DEF Blk, Family
      <4>2. CASE c = d
        <5>1. r.kid[c][z] = x /\ x # p /\ x # g /\ x \in Node
          BY <1>1, <1>2, <1>9, <3>3, <4>2 DEF Family
        <5>2. bh2[x] = bh[p]
          BY <1>2, <1>10, <1>12, <5>1
        <5> QED
          BY <1>10, <1>12, <3>3, <4>1, <5>1, <5>2
      <4>3. CASE c = e
        BY <1>2, <1>9, <1>10, <1>12, <3>3, <4>1, <4>3 DEF Family
      <4> QED
        BY <1>2, <4>2, <4>3
    <3>4. CASE z # g /\ z # p
      <4>1. Blk(r, z) = Blk(t, z) /\ bh2[z] = bh[z]
        BY <1>9, <1>10, <3>1, <3>4 DEF Blk
      <4>2. bh2[r.kid[c][z]] = bh[t.kid[c][z]]
        BY <1>2, <1>9, <1>10, <1>13, <3>1, <3>4
      <4> QED
        BY <3>1, <4>1, <4>2
    <3> QED
      BY <3>2, <3>3, <3>4
  <2>2. bh2[Nil] = 0
    BY <1>1, <1>2, <1>10 DEF Fixing, Even, Node
  <2> QED
    BY <1>10, <2>1, <2>2 DEF Even
<1>16. RedApart(r, S, x)
  <2> SUFFICES ASSUME NEW z \in S, NEW c \in Side, r.color[z] = "red", r.color[r.kid[c][z]] = "red"
               PROVE  FALSE
    BY DEF RedApart
  <2>1. z \in Node /\ z # p /\ (z = g \/ t.color[z] = "red") /\ t.kid[c][z] \in Node
    BY <1>1, <1>2, <1>9, <1>11 DEF Family
  <2>2. \A v \in S, k \in Side : t.color[v] = "red" /\ t.color[t.kid[k][v]] = "red" => v = p /\ t.kid[k][v] = x
    BY <1>1 DEF Fixing, RedApart, Shape, Chained, Family
  <2>3. CASE z = g
    <3>1. c = e => r.kid[c][z] = u
      BY <1>1, <1>2, <1>9, <1>14, <2>3 DEF Family
    <3>2. c = d => r.kid[c][z] = b
      BY <1>2, <1>9, <2>3
    <3>3. t.color[b] # "red"
      <4>1. b # x
        <5>1. Parted(t, S, sub, p, d)
          BY <1>1, <1>2, Below
        <5> QED
          BY <1>1, <5>1 DEF Parted, b, Family, Fixing
      <4> QED
        BY <1>2, <2>2, <4>1 DEF b, Family
    <3>4. b \in Node /\ u \in Node /\ u # g /\ b # g
      BY <1>1, <1>2, <1>11, <1>14 DEF b, Family
    <3> QED
      BY <1>2, <1>9, <3>1, <3>2, <3>3, <3>4, <2>3
  <2>4. CASE z # g
    <3>1. t.kid[c][z] # g /\ r.kid[c][z] = t.kid[c][z]
      <4>1. t.kid[c][z] = g => r.kid[c][z] = p
        BY <1>2, <1>9, <2>1, <2>4
      <4>2. t.kid[c][z] # g
        BY <1>2, <1>9, <4>1 DEF Family
      <4> QED
        BY <1>2, <1>9, <2>1, <2>4, <4>2
    <3>2. t.color[t.kid[c][z]] = "red"
      BY <1>9, <2>1, <3>1 DEF Family
    <3> QED
      BY <2>1, <2>2, <2>4, <3>2
  <2> QED
    BY <2>3, <2>4
<1>17. r.root # x /\ r.color[r.root] = "black" /\ r.color[x] = "red"
  <2>1. t.root \in Node /\ t.root # x
    BY <1>1, <1>2, ParentNil, TreeType DEF Family
  <2> QED
    BY <1>1, <1>2, <1>9, <2>1 DEF Fixing, Family
<1>18. Fixing(r, S, sub2, bh2, x)
  BY <1>1, <1>8, <1>9, <1>15, <1>16, <1>17 DEF Fixing
<1>19. Fixed(r, x)
  BY <1>2, <1>9 DEF Fixed, Family
<1> QED
  BY <1>18, <1>19

-----------------------------------------------------------------------------
(* Loops.                                                                  *)

\* Where the loop that goes from s to next[s] ends: the states of stop that are
\* in every set the loop cannot leave.
Ends(D, stop, next, s) ==
  {v \in stop : \A X \in SUBSET D : s \in X /\ (\A x \in X \ stop : next[x] \in X) => v \in X}

\* A loop that gives res[s] at the states of stop has a result.
Looped(D, stop, res, next) ==
  \E f : f = [s \in D |-> IF s \in stop THEN res[s] ELSE f[next[s]]]

\* Every loop has, even one that does not end.
LEMMA Loop ==
  ASSUME NEW D, NEW stop \in SUBSET D, NEW res, NEW next \in [D -> D]
  PROVE  Looped(D, stop, res, next)
<1> DEFINE at(s) == CHOOSE v : v \in Ends(D, stop, next, s)
           f == [s \in D |-> res[at(s)]]
<1>1. ASSUME NEW s \in stop PROVE at(s) = s
  <2>1. s \in Ends(D, stop, next, s)
    BY DEF Ends
  <2>2. ASSUME NEW v \in Ends(D, stop, next, s) PROVE v = s
    <3>1. {s} \in SUBSET D /\ \A x \in {s} \ stop : next[x] \in {s}
      OBVIOUS
    <3>2. v \in {s}
      BY <3>1, <2>2 DEF Ends
    <3> QED
      BY <3>2
  <2>3. at(s) \in Ends(D, stop, next, s)
    BY <2>1
  <2> QED
    BY <2>2, <2>3
<1>2. ASSUME NEW s \in D, s \notin stop PROVE Ends(D, stop, next, s) = Ends(D, stop, next, next[s])
  <2>1. ASSUME NEW v \in Ends(D, stop, next, s) PROVE v \in Ends(D, stop, next, next[s])
    <3> SUFFICES ASSUME NEW X \in SUBSET D, next[s] \in X, \A x \in X \ stop : next[x] \in X
                 PROVE  v \in X
      BY <2>1 DEF Ends
    <3> DEFINE Y == X \cup {s}
    <3>1. Y \in SUBSET D /\ s \in Y /\ \A x \in Y \ stop : next[x] \in Y
      OBVIOUS
    <3> HIDE DEF Y
    <3>2. v \in Y /\ v \in stop
      BY <2>1, <3>1 DEF Ends
    <3> QED
      BY <1>2, <3>2 DEF Y
  <2>2. ASSUME NEW v \in Ends(D, stop, next, next[s]) PROVE v \in Ends(D, stop, next, s)
    BY <1>2, <2>2 DEF Ends
  <2> QED
    BY <2>1, <2>2
<1>3. ASSUME NEW s \in D, s \notin stop PROVE at(s) = at(next[s])
  BY <1>2, <1>3
<1> HIDE DEF at
<1>4. f = [s \in D |-> IF s \in stop THEN res[s] ELSE f[next[s]]]
  BY <1>1, <1>3
<1> QED
  BY <1>4 DEF Looped

\* Assignments and rotations keep the type of a tree.
LEMMA Types ==
  ASSUME NEW t \in Tree, NEW x \in Node
  PROVE  /\ \A col \in Color : Paint(t, x, col) \in Tree
         /\ \A y \in Node : SetParent(t, x, y) \in Tree
         /\ \A y \in Node, d \in Side : SetKid(t, d, x, y) \in Tree
         /\ \A d \in Side : Rotate(t, x, d) \in Tree
         /\ \A cond \in BOOLEAN : Assert(t, cond) \in Tree
<1>1. \A col \in Color : Paint(t, x, col) \in Tree
  BY PaintIs DEF Painted
<1>2. \A y \in Node : SetParent(t, x, y) \in Tree
  BY SetParentIs DEF ParentSet
<1>3. \A y \in Node, d \in Side : SetKid(t, d, x, y) \in Tree
  BY SetKidIs DEF KidSet
<1>4. \A d \in Side : Rotate(t, x, d) \in Tree
  BY RotateFields DEF Assigned
<1>5. \A cond \in BOOLEAN : Assert(t, cond) \in Tree
  BY AssertIs DEF Asserted
<1> QED
  BY <1>1, <1>2, <1>3, <1>4, <1>5

LEMMA FixRedType ==
  ASSUME NEW t \in Tree, NEW x \in Node
  PROVE  /\ FixRed(t, x) \in Tree \X Node
         /\ FixRed(t, x) = <<FixRed(t, x)[1], FixRed(t, x)[2]>>
<1> DEFINE p == t.parent[x]
           g == t.parent[p]
           d == IF p = t.kid["l"][g] THEN "l" ELSE "r"
           uncle == t.kid[Other(d)][g]
           inner == x = t.kid[Other(d)][p]
           t1 == IF inner THEN Rotate(t, p, d) ELSE t
           x1 == IF inner THEN p ELSE x
           t2 == Paint(Paint(t1, t1.parent[x1], "black"), g, "red")
           a == Paint(Paint(Paint(t, p, "black"), uncle, "black"), g, "red")
           b == Rotate(t2, g, Other(d))
<1>0. "red" \in Color /\ "black" \in Color
  BY DEF Color
<1>1. p \in Node /\ g \in Node /\ d \in Side /\ Other(d) \in Side
  BY TreeType, Sides DEF Side
<1>2. uncle \in Node
  BY <1>1, TreeType
<1>3. t1 \in Tree /\ x1 \in Node
  BY <1>1, Types
<1>4. t1.parent[x1] \in Node
  BY <1>3, TreeType
<1>5. a \in Tree
  <2>1. Paint(t, p, "black") \in Tree
    BY <1>0, <1>1, Types
  <2>2. Paint(Paint(t, p, "black"), uncle, "black") \in Tree
    BY <1>0, <1>2, <2>1, Types
  <2> QED
    BY <1>0, <1>1, <2>2, Types
<1>6. b \in Tree
  <2>1. Paint(t1, t1.parent[x1], "black") \in Tree
    BY <1>0, <1>3, <1>4, Types
  <2>2. t2 \in Tree
    BY <1>0, <1>1, <2>1, Types
  <2> HIDE DEF t2
  <2> QED
    BY <1>1, <2>2, Types
<1>7. FixRed(t, x) = IF t.color[uncle] = "red" THEN <<a, g>> ELSE <<b, x1>>
  BY DEF FixRed
<1> HIDE DEF a, b, x1, g, uncle
<1> QED
  BY <1>1, <1>3, <1>5, <1>6, <1>7

\* rbtree_insert_fixup round by round.
LEMMA InsertRound ==
  ASSUME NEW t \in Tree, NEW x \in Node
  PROVE  rbtree_insert_fixup(t, x) =
           IF Fixed(t, x) THEN Paint(t, t.root, "black")
           ELSE rbtree_insert_fixup(FixRed(t, x)[1], FixRed(t, x)[2])
<1> DEFINE D == Tree \X Node
           stop == {s \in D : Fixed(s[1], s[2])}
           res == [s \in D |-> Paint(s[1], s[1].root, "black")]
           next == [s \in D |-> FixRed(s[1], s[2])]
           Is(f) == f = [s \in D |-> IF Fixed(s[1], s[2]) THEN Paint(s[1], s[1].root, "black")
                                     ELSE f[FixRed(s[1], s[2])]]
           from == CHOOSE f : Is(f)
<1>1. Looped(D, stop, res, next)
  <2>1. next \in [D -> D]
    BY FixRedType
  <2> HIDE DEF next, stop, D, res
  <2>2. stop \in SUBSET D
    BY DEF stop
  <2> QED
    BY <2>1, <2>2, Loop
<1>2. \E f : Is(f)
  <2>1. PICK f : f = [s \in D |-> IF s \in stop THEN res[s] ELSE f[next[s]]]
    BY <1>1 DEF Looped
  <2>2. \A s \in D : (IF s \in stop THEN res[s] ELSE f[next[s]])
                     = IF Fixed(s[1], s[2]) THEN Paint(s[1], s[1].root, "black")
                       ELSE f[FixRed(s[1], s[2])]
    OBVIOUS
  <2> HIDE DEF res, next, stop, D
  <2>3. Is(f)
    BY <2>1, <2>2
  <2> QED
    BY <2>3
<1>3. Is(from)
  BY <1>2
<1>4. \A y \in Node, u \in Tree : rbtree_insert_fixup(u, y) = from[<<u, y>>]
  BY DEF rbtree_insert_fixup
<1> HIDE DEF from
<1>5. from[<<t, x>>] = IF Fixed(t, x) THEN Paint(t, t.root, "black") ELSE from[FixRed(t, x)]
  BY <1>3
<1>6. /\ FixRed(t, x)[1] \in Tree /\ FixRed(t, x)[2] \in Node
      /\ FixRed(t, x) = <<FixRed(t, x)[1], FixRed(t, x)[2]>>
  BY FixRedType
<1>7. rbtree_insert_fixup(FixRed(t, x)[1], FixRed(t, x)[2]) = from[FixRed(t, x)]
  BY <1>4, <1>6
<1> QED
  BY <1>4, <1>5, <1>7

-----------------------------------------------------------------------------
(* rbtree_insert_fixup.                                                    *)

\* After a round, the tree is one to be fixed at a node above, or at a node
\* where nothing is left to fix.
LEMMA FixRedGoes ==
  ASSUME NEW t, NEW S, NEW sub, NEW bh, NEW x, Fixing(t, S, sub, bh, x), ~Fixed(t, x),
         NEW r, NEW z, FixRed(t, x) = <<r, z>>
  PROVE  \/ /\ \E bh2 : Fixing(r, S, sub, bh2, z)
            /\ x \in sub[z] /\ sub[x] \subseteq sub[z] /\ z \notin sub[x] /\ z \in S
         \/ Fixed(r, z) /\ \E sub2, bh2 : Fixing(r, S, sub2, bh2, z)
<1> DEFINE p == t.parent[x]
           g == t.parent[p]
           d == IF p = t.kid["l"][g] THEN "l" ELSE "r"
           u == t.kid[Other(d)][g]
           inner == x = t.kid[Other(d)][p]
           t1 == IF inner THEN Rotate(t, p, d) ELSE t
           x1 == IF inner THEN p ELSE x
           t2 == Paint(Paint(t1, t1.parent[x1], "black"), g, "red")
           a == Paint(Paint(Paint(t, p, "black"), u, "black"), g, "red")
           b == Rotate(t2, g, Other(d))
<1>1. Family(t, S, sub, x, p, g, u, d)
  BY FamilyIs
<1>2. FixRed(t, x) = IF t.color[u] = "red" THEN <<a, g>> ELSE <<b, x1>>
  BY DEF FixRed
<1>3. IF t.color[u] = "red" THEN r = a /\ z = g ELSE r = b /\ z = x1
  <2> HIDE DEF a, b, x1, g, u
  <2> QED
    BY <1>2
<1>4. Shape(t, S, sub, Identity) /\ x \in S /\ t \in Tree /\ Nil \notin S /\ S \subseteq Node
  BY KeyAssumption DEF Fixing, Shape, Divided, Node
<1> HIDE DEF p, g, d, u
<1>5. CASE t.color[u] = "red"
  <2>1. Fixing(a, S, sub, [bh EXCEPT ![p] = @ + 1, ![u] = @ + 1], g)
    BY <1>1, <1>5, UncleRed
  <2>2. x \in sub[g] /\ g \in S /\ sub[x] \subseteq sub[g] /\ g \notin sub[x]
    <3>1. PICK c \in Side : t.kid[c][p] = x
      BY <1>1 DEF Family
    <3>2. Parted(t, S, sub, p, c)
      BY <1>1, <1>4, Below DEF Family
    <3> QED
      BY <1>1, <3>1, <3>2 DEF Family, Parted
  <2> QED
    BY <1>3, <1>5, <2>1, <2>2
<1>6. CASE t.color[u] # "red"
  <2>1. t.color[u] = "black"
    BY <1>1, <1>4, <1>6, TreeType DEF Family, Color, Node
  <2>2. CASE inner
    <3> DEFINE q == Rotate(t, p, d)
    <3>1. /\ \E sub2 : Fixing(q, S, sub2, bh, p) /\ Family(q, S, sub2, p, x, g, u, d)
          /\ q.kid[d][x] = p /\ q.color = t.color
      <4>1. x = t.kid[Other(d)][p]
        BY <2>2
      <4> QED
        BY <1>1, <4>1, UncleBlackInner
    <3>2. PICK sub2 : Fixing(q, S, sub2, bh, p) /\ Family(q, S, sub2, p, x, g, u, d)
      BY <3>1
    <3>3. q.color[u] = "black" /\ p = q.kid[d][x]
      BY <2>1, <3>1
    <3>4. b = Rotate(Paint(Paint(q, q.parent[p], "black"), g, "red"), g, Other(d))
      BY <2>2
    <3>5. q.parent[p] = x
      BY <3>2 DEF Family
    <3> HIDE DEF q
    <3>6. b = Rotate(Paint(Paint(q, x, "black"), g, "red"), g, Other(d))
      BY <3>4, <3>5
    <3>7. Fixed(b, p) /\ \E sub3, bh3 : Fixing(b, S, sub3, bh3, p)
      BY <3>2, <3>3, <3>6, UncleBlackOuter, ZenonT(60)
    <3> QED
      BY <1>3, <1>6, <2>2, <3>7
  <2>3. CASE ~inner
    <3>1. x = t.kid[d][p]
      BY <1>1, <2>3, Sides DEF Family
    <3>2. b = Rotate(Paint(Paint(t, t.parent[x], "black"), g, "red"), g, Other(d))
      BY <2>3
    <3>3. t.parent[x] = p
      BY <1>1 DEF Family
    <3>4. b = Rotate(Paint(Paint(t, p, "black"), g, "red"), g, Other(d))
      BY <3>2, <3>3
    <3> HIDE DEF b
    <3>5. Fixed(b, x) /\ \E sub3, bh3 : Fixing(b, S, sub3, bh3, x)
      BY <1>1, <2>1, <3>1, <3>4, UncleBlackOuter
    <3> QED
      BY <1>3, <1>6, <2>3, <3>5
  <2> QED
    BY <2>2, <2>3
<1> QED
  BY <1>5, <1>6

\* A red-black tree of the keys S.
RedBlackTree(t, S) == \E sub, bh : Sound(t, S, sub, bh)

\* When nothing is left to fix, the root is painted.
LEMMA FixedSound ==
  ASSUME NEW t, NEW S, NEW sub, NEW bh, NEW x, Fixing(t, S, sub, bh, x), Fixed(t, x)
  PROVE  RedBlackTree(Paint(t, t.root, "black"), S)
<1> DEFINE r == Paint(t, t.root, "black")
           bh2 == [bh EXCEPT ![t.root] = IF t.color[t.root] = "red" THEN bh[t.root] + 1 ELSE @]
<1>1. Shape(t, S, sub, Identity) /\ x \in S /\ t \in Tree /\ Nil \notin S /\ S \subseteq Node
      /\ "black" \in Color /\ t.color[Nil] = "black"
  BY KeyAssumption DEF Fixing, Shape, Divided, Cleared, Node, Color
<1>2. t.root \in S /\ t.root \in Node
  <2>1. t.root \in Node /\ sub[t.root] = S /\ sub[Nil] = {}
    BY <1>1, TreeType DEF Shape, Divided
  <2> QED
    BY <1>1, <2>1 DEF Shape, Chained
<1>3. Painted(t, t.root, "black", r)
  BY <1>1, <1>2, PaintIs
<1> HIDE DEF r
<1>4. Shape(r, S, sub, Identity)
  BY <1>1, <1>2, <1>3, PaintShape
<1>5. \A z \in S, c \in Side : t.kid[c][z] \in Node /\ t.kid[c][z] # t.root
  <2> SUFFICES ASSUME NEW z \in S, NEW c \in Side PROVE t.kid[c][z] \in Node /\ t.kid[c][z] # t.root
    OBVIOUS
  <2>1. Parted(t, S, sub, z, c)
    BY <1>1, Below
  <2>2. t.kid[c][z] # Nil => t.kid[c][z] # t.root
    BY <1>1, OneParent
  <2> QED
    BY <1>1, <1>2, <2>1, <2>2 DEF Parted
<1>6. r.root = t.root /\ r.kid = t.kid /\ r.ok = t.ok
      /\ \A z \in Node : r.color[z] = IF z = t.root THEN "black" ELSE t.color[z]
  BY <1>3 DEF Painted
<1>7. bh2 \in [Node -> Nat] /\ \A z \in Node :
        bh2[z] = IF z = t.root /\ t.color[t.root] = "red" THEN bh[z] + 1 ELSE bh[z]
  BY <1>2 DEF Fixing, Even
<1> HIDE DEF bh2
<1>8. Even(r, S, bh2)
  <2>1. bh2[Nil] = 0
    BY <1>1, <1>2, <1>7 DEF Fixing, Even, Node
  <2>2. ASSUME NEW z \in S, NEW c \in Side PROVE bh2[z] = bh2[r.kid[c][z]] + Blk(r, z)
    <3>1. bh[z] = bh[t.kid[c][z]] + Blk(t, z) /\ z \in Node
          /\ bh[t.kid[c][z]] \in Nat
      BY <1>1, <1>5 DEF Fixing, Even
    <3>2. bh2[r.kid[c][z]] = bh[t.kid[c][z]]
      BY <1>5, <1>6, <1>7
    <3>3. t.color[z] \in Color
      BY <1>1, <3>1, TreeType
    <3> QED
      BY <1>6, <1>7, <3>1, <3>2, <3>3 DEF Blk, Color
  <2> QED
    BY <1>7, <2>1, <2>2 DEF Even
<1>9. RedApart(r, S, Nil)
  <2> SUFFICES ASSUME NEW z \in S, NEW c \in Side, r.color[z] = "red", r.color[t.kid[c][z]] = "red"
               PROVE  FALSE
    BY <1>6 DEF RedApart
  <2>1. t.color[z] = "red" /\ t.color[t.kid[c][z]] = "red" /\ z # t.root
    BY <1>1, <1>5, <1>6
  <2>2. t.kid[c][z] = x
    BY <2>1 DEF Fixing, RedApart
  <2>3. t.parent[x] = z /\ x # t.root
    BY <1>1, <1>5, <2>2 DEF Shape, Chained
  <2> QED
    BY <2>1, <2>3 DEF Fixed
<1>10. Sound(r, S, sub, bh2)
  BY <1>2, <1>4, <1>6, <1>8, <1>9 DEF Sound, Fixing
<1> QED
  BY <1>10 DEF RedBlackTree, r

\* The rounds of rbtree_insert_fixup end, and they end with a red-black tree.
LEMMA InsertFixup ==
  ASSUME NEW t, NEW S, NEW sub, NEW bh, NEW x, Fixing(t, S, sub, bh, x)
  PROVE  RedBlackTree(rbtree_insert_fixup(t, x), S)
<1> DEFINE Wrong(u, h, z) == Fixing(u, S, sub, h, z) /\ ~RedBlackTree(rbtree_insert_fixup(u, z), S)
           Bad == {z \in S : \E u, h : Wrong(u, h, z)}
           N == {Cardinality(S \ sub[z]) : z \in Bad}
<1>0. ASSUME NEW u, NEW h, NEW z, Fixing(u, S, sub, h, z)
      PROVE  u \in Tree /\ z \in S /\ z \in Node
  BY <1>0, KeyAssumption DEF Fixing, Shape, Divided, Node
<1>1. S \subseteq Key /\ IsFiniteSet(S) /\ \A z \in S : sub[z] \subseteq S
      /\ IsFiniteSet(S \ sub[z]) /\ Cardinality(S \ sub[z]) \in Nat
  <2>1. S \subseteq Key /\ \A z \in S : sub[z] \subseteq S
    BY DEF Fixing, Shape, Divided, Node
  <2> QED
    BY <2>1, KeyAssumption, FS_Subset, FS_CardinalityType
<1> SUFFICES ASSUME Bad # {} PROVE FALSE
  BY <1>0
<1>2. PICK n \in N : \A k \in N : n <= k
  <2>1. N \in SUBSET Nat /\ N # {}
    BY <1>1
  <2> HIDE DEF N
  <2> QED
    BY <2>1, LeastIs
<1>3. PICK z \in Bad : n = Cardinality(S \ sub[z])
  BY <1>2
<1>4. PICK u, h : Wrong(u, h, z)
  BY <1>3
<1>5. u \in Tree /\ z \in S /\ z \in Node
  BY <1>0, <1>4
<1>6. ~Fixed(u, z)
  <2> SUFFICES ASSUME Fixed(u, z) PROVE FALSE
    OBVIOUS
  <2>1. rbtree_insert_fixup(u, z) = Paint(u, u.root, "black")
    BY <1>5, InsertRound
  <2> QED
    BY <1>4, <2>1, FixedSound
<1>7. PICK r \in Tree, y \in Node : FixRed(u, z) = <<r, y>>
  BY <1>5, FixRedType
<1>8. rbtree_insert_fixup(u, z) = rbtree_insert_fixup(r, y)
  BY <1>5, <1>6, <1>7, InsertRound
<1>9. CASE Fixed(r, y) /\ \E sub2, bh2 : Fixing(r, S, sub2, bh2, y)
  <2>1. rbtree_insert_fixup(r, y) = Paint(r, r.root, "black")
    BY <1>7, <1>9, InsertRound
  <2> QED
    BY <1>4, <1>8, <1>9, <2>1, FixedSound
<1>10. CASE /\ \E bh2 : Fixing(r, S, sub, bh2, y)
            /\ z \in sub[y] /\ sub[z] \subseteq sub[y] /\ y \notin sub[z] /\ y \in S
  <2>1. y \in Bad
    BY <1>4, <1>8, <1>10
  <2>2. y \in sub[y]
    BY <1>10 DEF Fixing, Shape, Divided
  <2>3. (S \ sub[y]) \subseteq (S \ sub[z]) /\ y \in S \ sub[z] /\ y \notin S \ sub[y]
    BY <1>10, <2>2
  <2>4. IsFiniteSet(S \ sub[z]) /\ Cardinality(S \ sub[z]) \in Nat /\ Cardinality(S \ sub[y]) \in Nat
    BY <1>1, <1>5, <1>10
  <2>5. Cardinality(S \ sub[y]) < Cardinality(S \ sub[z])
    BY <2>3, <2>4, FS_Subset
  <2>6. n <= Cardinality(S \ sub[y])
    BY <1>2, <2>1
  <2> QED
    BY <1>3, <2>4, <2>5, <2>6
<1>11. \/ /\ \E bh2 : Fixing(r, S, sub, bh2, y)
          /\ z \in sub[y] /\ sub[z] \subseteq sub[y] /\ y \notin sub[z] /\ y \in S
       \/ Fixed(r, y) /\ \E sub2, bh2 : Fixing(r, S, sub2, bh2, y)
  BY <1>4, <1>6, <1>7, FixRedGoes
<1> QED
  BY <1>9, <1>10, <1>11

-----------------------------------------------------------------------------
(* Going down and up in a tree.                                            *)

\* Of some nodes of the tree, one has no child among them, ...
LEMMA LowestIs ==
  ASSUME NEW t, NEW S, NEW sub, NEW at, Shape(t, S, sub, at), NEW B \in SUBSET S, B # {}
  PROVE  \E x \in B : \A d \in Side : t.kid[d][x] \notin B
<1> DEFINE N == {Cardinality(sub[z]) : z \in B}
<1>1. \A z \in S : IsFiniteSet(sub[z]) /\ Cardinality(sub[z]) \in Nat
  <2> SUFFICES ASSUME NEW z \in S PROVE IsFiniteSet(sub[z]) /\ Cardinality(sub[z]) \in Nat
    OBVIOUS
  <2>1. sub[z] \subseteq Key
    BY DEF Shape, Divided, Node
  <2> QED
    BY <2>1, KeyAssumption, FS_Subset, FS_CardinalityType
<1>2. PICK m \in N : \A k \in N : m <= k
  <2>1. N \in SUBSET Nat /\ N # {}
    BY <1>1
  <2> HIDE DEF N
  <2> QED
    BY <2>1, LeastIs
<1>3. PICK x \in B : m = Cardinality(sub[x])
  BY <1>2
<1>4. ASSUME NEW d \in Side, t.kid[d][x] \in B PROVE FALSE
  <2> DEFINE y == t.kid[d][x]
  <2>1. sub[y] \subseteq sub[x] /\ x \in sub[x] /\ x \notin sub[y]
    BY Below DEF Parted
  <2>4. Cardinality(sub[y]) \in Nat /\ Cardinality(sub[x]) \in Nat /\ IsFiniteSet(sub[x])
    BY <1>1, <1>4
  <2>2. Cardinality(sub[y]) < Cardinality(sub[x])
    BY <2>1, <2>4, FS_Subset
  <2>3. m <= Cardinality(sub[y])
    BY <1>2, <1>4
  <2> QED
    BY <1>3, <2>2, <2>3, <2>4
<1> QED
  BY <1>4

\* ... and one has no parent among them.
LEMMA HighestIs ==
  ASSUME NEW t, NEW S, NEW sub, NEW at, Shape(t, S, sub, at), NEW B \in SUBSET S, B # {}
  PROVE  \E x \in B : t.parent[x] \notin B
<1> DEFINE N == {Cardinality(S \ sub[z]) : z \in B}
<1>1. \A z \in S : IsFiniteSet(S \ sub[z]) /\ Cardinality(S \ sub[z]) \in Nat
  <2> SUFFICES ASSUME NEW z \in S PROVE IsFiniteSet(S \ sub[z]) /\ Cardinality(S \ sub[z]) \in Nat
    OBVIOUS
  <2>1. S \ sub[z] \subseteq Key
    BY DEF Shape, Divided, Node
  <2> QED
    BY <2>1, KeyAssumption, FS_Subset, FS_CardinalityType
<1>2. PICK m \in N : \A k \in N : m <= k
  <2>1. N \in SUBSET Nat /\ N # {}
    BY <1>1
  <2> HIDE DEF N
  <2> QED
    BY <2>1, LeastIs
<1>3. PICK x \in B : m = Cardinality(S \ sub[x])
  BY <1>2
<1>4. ASSUME t.parent[x] \in B PROVE FALSE
  <2> DEFINE p == t.parent[x]
  <2>1. p # Nil /\ p \in S
    BY <1>4, KeyAssumption DEF Shape, Divided
  <2>2. p \notin sub[x] /\ \E d \in Side : t.kid[d][p] = x
    BY <2>1, ParentNil
  <2>3. sub[x] \subseteq sub[p] /\ p \in sub[p]
    BY <2>1, <2>2, Below DEF Parted
  <2>4. S \ sub[p] \subseteq S \ sub[x] /\ p \in S \ sub[x] /\ p \notin S \ sub[p]
    BY <2>1, <2>2, <2>3
  <2>5. Cardinality(S \ sub[p]) < Cardinality(S \ sub[x])
    BY <1>1, <2>4, FS_Subset
  <2>6. m <= Cardinality(S \ sub[p])
    BY <1>2, <1>4
  <2>7. Cardinality(S \ sub[p]) \in Nat /\ Cardinality(S \ sub[x]) \in Nat
    BY <1>1, <2>1
  <2> QED
    BY <1>3, <2>5, <2>6, <2>7
<1> QED
  BY <1>4

\* What is below a node is itself or below one of its children.
LEMMA BelowKid ==
  ASSUME NEW t, NEW S, NEW sub, NEW at, Shape(t, S, sub, at), NEW x \in S, NEW k \in sub[x], k # x
  PROVE  \E d \in Side : k \in sub[t.kid[d][x]] /\ t.kid[d][x] \in S
<1>1. "l" \in Side /\ Other("l") \in Side
  BY DEF Side, Other
<1>2. Parted(t, S, sub, x, "l") /\ Parted(t, S, sub, x, Other("l"))
  BY <1>1, Below
<1>3. sub[Nil] = {}
  BY DEF Shape, Divided
<1> QED
  BY <1>1, <1>2, <1>3 DEF Parted

\* What is below a node below x is below x.
LEMMA Nested ==
  ASSUME NEW t, NEW S, NEW sub, NEW at, Shape(t, S, sub, at), NEW x \in S, NEW a \in sub[x]
  PROVE  sub[a] \subseteq sub[x]
<1> DEFINE B == {z \in S : a \in sub[z] /\ ~(sub[a] \subseteq sub[z])}
<1> SUFFICES ASSUME B # {} PROVE FALSE
  OBVIOUS
<1>1. PICK z \in B : \A d \in Side : t.kid[d][z] \notin B
  <2>1. B \in SUBSET S
    OBVIOUS
  <2> HIDE DEF B
  <2> QED
    BY <2>1, LowestIs
<1>2. PICK d \in Side : a \in sub[t.kid[d][z]] /\ t.kid[d][z] \in S
  BY <1>1, BelowKid
<1>3. sub[t.kid[d][z]] \subseteq sub[z]
  BY <1>1, Below DEF Parted
<1> QED
  BY <1>1, <1>2, <1>3

\* What is above a node w is above its parent, or w itself.
LEMMA AboveParent ==
  ASSUME NEW t, NEW S, NEW sub, NEW at, Shape(t, S, sub, at), NEW x \in S, NEW d \in Side,
         t.kid[d][x] # Nil, NEW a \in S, t.kid[d][x] \in sub[a], a # t.kid[d][x]
  PROVE  x \in sub[a]
<1> DEFINE w == t.kid[d][x]
           B == {z \in S : w \in sub[z] /\ z # w /\ x \notin sub[z]}
<1> SUFFICES ASSUME B # {} PROVE FALSE
  OBVIOUS
<1>1. PICK z \in B : \A c \in Side : t.kid[c][z] \notin B
  <2>1. B \in SUBSET S
    OBVIOUS
  <2> HIDE DEF B
  <2> QED
    BY <2>1, LowestIs
<1>2. PICK c \in Side : w \in sub[t.kid[c][z]] /\ t.kid[c][z] \in S
  BY <1>1, BelowKid
<1>3. sub[t.kid[c][z]] \subseteq sub[z] /\ z \in Node
  <2>1. Parted(t, S, sub, z, c)
    BY <1>1, Below
  <2> QED
    BY <2>1 DEF Parted
<1>4. t.kid[c][z] = w => z = x
  BY <1>3, OneParent
<1>5. x \in sub[x]
  BY DEF Shape, Divided
<1> QED
  BY <1>1, <1>2, <1>3, <1>4, <1>5

\* Only the root is above the root.
LEMMA AboveRoot ==
  ASSUME NEW t, NEW S, NEW sub, NEW at, Shape(t, S, sub, at), NEW a \in S, t.root \in sub[a]
  PROVE  a = t.root
<1>1. sub[t.root] \subseteq sub[a]
  BY Nested
<1>2. sub[t.root] = S
  BY DEF Shape, Divided
<1>3. t.parent[a] \notin sub[a] \/ t.parent[a] = Nil
  BY ParentNil
<1>4. t.parent[a] # Nil => t.parent[a] \in S
  BY ParentNil
<1> QED
  BY <1>1, <1>2, <1>3, <1>4, ParentNil

-----------------------------------------------------------------------------
(* The descent of rbtree_insert and rbtree_search.                         *)

\* The side of x on which key k is looked for.
Turn(k, x) == IF k < x THEN "l" ELSE "r"

\* f is the descent from every node.
Descent(t, k, f) ==
  \A x \in Node : f[x] = IF x \in {k, Nil} \/ t.kid[Turn(k, x)][x] = Nil THEN x
                         ELSE f[t.kid[Turn(k, x)][x]]

LEMMA DescendIs ==
  ASSUME NEW t \in Tree, NEW k \in Key
  PROVE  \E f : Descent(t, k, f) /\ Descend(t, k) = f[t.root]
<1> DEFINE stop == {x \in Node : x \in {k, Nil} \/ t.kid[Turn(k, x)][x] = Nil}
           res == [x \in Node |-> x]
           next == [x \in Node |-> t.kid[Turn(k, x)][x]]
           Is(f) == f = [x \in Node |->
                           LET n == t.kid[IF k < x THEN "l" ELSE "r"][x]
                           IN IF x \in {k, Nil} \/ n = Nil THEN x ELSE f[n]]
           from == CHOOSE f : Is(f)
<1>1. Looped(Node, stop, res, next)
  <2>1. next \in [Node -> Node]
    BY TreeType DEF Turn, Side
  <2> HIDE DEF next, stop, res
  <2>2. stop \in SUBSET Node
    BY DEF stop
  <2> QED
    BY <2>1, <2>2, Loop
<1>2. \E f : Is(f)
  <2>1. PICK f : f = [x \in Node |-> IF x \in stop THEN res[x] ELSE f[next[x]]]
    BY <1>1 DEF Looped
  <2>2. \A x \in Node : (IF x \in stop THEN res[x] ELSE f[next[x]])
                        = LET n == t.kid[IF k < x THEN "l" ELSE "r"][x]
                          IN IF x \in {k, Nil} \/ n = Nil THEN x ELSE f[n]
    BY DEF Turn
  <2> HIDE DEF res, next, stop
  <2>3. Is(f)
    BY <2>1, <2>2
  <2> QED
    BY <2>3
<1>3. Is(from)
  BY <1>2
<1>4. Descend(t, k) = from[t.root]
  BY DEF Descend
<1> HIDE DEF from
<1>5. Descent(t, k, from)
  BY <1>3 DEF Descent, Turn
<1> QED
  BY <1>4, <1>5

\* With the keys themselves as labels, a node belongs on the side where it is
\* looked for.
LEMMA Turns ==
  ASSUME NEW k \in Key, NEW x \in Key
  PROVE  /\ Turn(k, x) \in Side
         /\ \A d \in Side : Before(Identity, d, k, x) <=> k # x /\ d = Turn(k, x)
BY KeyAssumption DEF Before, Identity, Turn, Side

LEMMA IdentityLabels == Labels(Identity)
BY KeyAssumption DEF Labels, Identity

LEMMA Divides ==
  ASSUME NEW t, NEW S, NEW sub, Shape(t, S, sub, Identity), NEW x \in S, NEW k \in S, NEW d \in Side
  PROVE  k \in sub[t.kid[d][x]] <=> k \in sub[x] /\ k # x /\ d = Turn(k, x)
BY Turns DEF Shape, Divided

\* Key k would be found from x on if it was in the tree: every node above x
\* turns both of them to the same side.
Along(t, S, sub, k, x) ==
  /\ x \in S
  /\ k \in S => k \in sub[x]
  /\ \A z \in S : x \in sub[z] /\ z # x => k # z /\ Turn(x, z) = Turn(k, z)

Descended(t, S, sub, k, x) ==
  Along(t, S, sub, k, x) /\ (x = k \/ t.kid[Turn(k, x)][x] = Nil)

LEMMA DescentGoes ==
  ASSUME NEW t, NEW S, NEW sub, Shape(t, S, sub, Identity), NEW k \in Key,
         NEW f, Descent(t, k, f), NEW x, Along(t, S, sub, k, x)
  PROVE  Descended(t, S, sub, k, f[x])
<1> DEFINE B == {z \in S : Along(t, S, sub, k, z) /\ ~Descended(t, S, sub, k, f[z])}
<1> SUFFICES ASSUME B # {} PROVE FALSE
  BY DEF Along
<1>1. PICK z \in B : \A c \in Side : t.kid[c][z] \notin B
  <2>1. B \in SUBSET S
    OBVIOUS
  <2> HIDE DEF B
  <2> QED
    BY <2>1, LowestIs
<1> DEFINE d == Turn(k, z)
           y == t.kid[d][z]
<1>2. z \in S /\ z \in Key /\ z \in Node /\ z # Nil /\ d \in Side
  BY <1>1, Turns, KeyAssumption DEF Shape, Divided, Node
<1>3. z # k /\ y # Nil
  <2> SUFFICES ASSUME z = k \/ y = Nil PROVE FALSE
    OBVIOUS
  <2>1. f[z] = z
    BY <1>2 DEF Descent
  <2> QED
    BY <1>1, <2>1 DEF Descended
<1>4. f[z] = f[y]
  BY <1>2, <1>3 DEF Descent
<1>5. Parted(t, S, sub, z, d)
  BY <1>2, Below
<1>6. y \in S /\ y \in sub[y] /\ y \in sub[z] /\ y # z
  BY <1>3, <1>5 DEF Parted
<1>7. k \in S => k \in sub[y]
  BY <1>1, <1>2, <1>3, Divides DEF Along
<1>8. ASSUME NEW a \in S, y \in sub[a], a # y PROVE k # a /\ Turn(y, a) = Turn(k, a)
  <2>1. z \in sub[a]
    BY <1>2, <1>3, <1>8, AboveParent
  <2>2. CASE a = z
    <3>1. d = Turn(y, z)
      BY <1>2, <1>6, Divides
    <3> QED
      BY <1>3, <2>2, <3>1
  <2>3. CASE a # z
    <3>1. k # a /\ Turn(z, a) = Turn(k, a)
      BY <1>1, <2>1, <2>3 DEF Along
    <3> DEFINE c == Turn(z, a)
    <3>2. c \in Side
      BY <1>2, Turns DEF Shape, Divided
    <3>3. z \in sub[t.kid[c][a]]
      BY <1>2, <2>1, <2>3, <3>2, Divides
    <3>4. t.kid[c][a] \in S
      <4>1. Parted(t, S, sub, a, c) /\ sub[Nil] = {}
        BY <3>2, Below DEF Shape, Divided
      <4> QED
        BY <3>3, <4>1 DEF Parted
    <3>5. y \in sub[t.kid[c][a]]
      BY <1>6, <3>3, <3>4, Nested
    <3>6. c = Turn(y, a)
      BY <1>6, <3>2, <3>5, Divides
    <3> QED
      BY <3>1, <3>6
  <2> QED
    BY <2>2, <2>3
<1>9. Along(t, S, sub, k, y)
  BY <1>6, <1>7, <1>8 DEF Along
<1>10. y \in B
  BY <1>1, <1>4, <1>6, <1>9
<1> QED
  BY <1>1, <1>2, <1>10

LEMMA DescendGoes ==
  ASSUME NEW t, NEW S, NEW sub, Shape(t, S, sub, Identity), NEW k \in Key
  PROVE  /\ t.root = Nil => Descend(t, k) = Nil /\ S = {}
         /\ t.root # Nil => Descended(t, S, sub, k, Descend(t, k))
<1>1. t \in Tree /\ t.root \in Node /\ sub[t.root] = S /\ sub[Nil] = {}
  BY TreeType DEF Shape, Divided
<1>2. PICK f : Descent(t, k, f) /\ Descend(t, k) = f[t.root]
  BY <1>1, DescendIs
<1>3. t.root = Nil => f[t.root] = Nil /\ S = {}
  BY <1>1, <1>2 DEF Descent
<1>4. ASSUME t.root # Nil PROVE Descended(t, S, sub, k, f[t.root])
  <2>1. t.root \in S
    BY <1>4 DEF Shape, Chained
  <2>2. Along(t, S, sub, k, t.root)
    BY <1>1, <2>1, AboveRoot DEF Along
  <2> QED
    BY <1>2, <2>2, DescentGoes
<1> QED
  BY <1>2, <1>3, <1>4

\* rbtree_search finds the keys of the tree, and no other.
LEMMA SearchFinds ==
  ASSUME NEW t, NEW S, NEW sub, Shape(t, S, sub, Identity), NEW k \in Key
  PROVE  /\ rbtree_search(t, k) = IF k \in S THEN k ELSE Nil
         /\ Descend(t, k) = k <=> k \in S
<1>0. k # Nil
  BY KeyAssumption
<1>1. Descend(t, k) = k => k \in S
  BY <1>0, DescendGoes DEF Descended, Along
<1>2. ASSUME k \in S PROVE Descend(t, k) = k
  <2> DEFINE q == Descend(t, k)
  <2>1. t.root # Nil
    BY <1>2, DescendGoes
  <2>2. Descended(t, S, sub, k, q)
    BY <2>1, DescendGoes
  <2> HIDE DEF q
  <2>3. q \in S /\ k \in sub[q]
    BY <1>2, <2>2 DEF Descended, Along
  <2>4. SUFFICES ASSUME q # k PROVE FALSE
    BY DEF q
  <2>5. t.kid[Turn(k, q)][q] = Nil /\ Turn(k, q) \in Side /\ sub[Nil] = {}
    BY <2>2, <2>3, <2>4, Turns DEF Descended, Shape, Divided
  <2>6. k \in sub[t.kid[Turn(k, q)][q]]
    BY <1>2, <2>3, <2>4, <2>5, Divides
  <2> QED
    BY <2>5, <2>6
<1> QED
  BY <1>1, <1>2 DEF rbtree_search

-----------------------------------------------------------------------------
(* rbtree_insert.                                                          *)

\* The tree with the new leaf k below p, before it is fixed.
Leaf(t, k, p) ==
  LET t1 == Paint(SetParent(t, k, p), k, "red")
      t2 == SetKid(SetKid(t1, "l", k, Nil), "r", k, Nil)
  IN IF p = Nil THEN [t2 EXCEPT !.root = k] ELSE SetKid(t2, Turn(k, p), p, k)

LeafSet(t, k, p, r) ==
  /\ r \in Tree /\ r.ok = t.ok /\ r.root = IF p = Nil THEN k ELSE t.root
  /\ \A z \in Node : /\ r.parent[z] = IF z = k THEN p ELSE t.parent[z]
                     /\ r.color[z] = IF z = k THEN "red" ELSE t.color[z]
  /\ \A c \in Side, z \in Node :
       r.kid[c][z] = IF p # Nil /\ z = p /\ c = Turn(k, p) THEN k
                     ELSE IF z = k THEN Nil ELSE t.kid[c][z]

LEMMA LeafIs ==
  ASSUME NEW t \in Tree, NEW k \in Key, NEW p \in Node
  PROVE  LeafSet(t, k, p, Leaf(t, k, p))
<1> DEFINE t0 == SetParent(t, k, p)
           t1 == Paint(t0, k, "red")
           t2 == SetKid(t1, "l", k, Nil)
           t3 == SetKid(t2, "r", k, Nil)
           t4 == IF p = Nil THEN [t3 EXCEPT !.root = k] ELSE SetKid(t3, Turn(k, p), p, k)
<1>1. /\ k \in Node /\ Nil \in Node /\ "red" \in Color /\ "l" \in Side /\ "r" \in Side
      /\ Turn(k, p) \in Side /\ \A c \in Side : c = "l" \/ c = "r"
  BY DEF Node, Color, Side, Turn
<1>2. ParentSet(t, k, p, t0)
  BY <1>1, SetParentIs
<1> HIDE DEF t0
<1>3. Painted(t0, k, "red", t1)
  BY <1>1, <1>2, PaintIs DEF ParentSet
<1> HIDE DEF t1
<1>4. KidSet(t1, "l", k, Nil, t2)
  BY <1>1, <1>3, SetKidIs DEF Painted
<1> HIDE DEF t2
<1>5. KidSet(t2, "r", k, Nil, t3)
  BY <1>1, <1>4, SetKidIs DEF KidSet
<1> HIDE DEF t3
<1>6. /\ t4 \in Tree /\ t4.ok = t3.ok /\ t4.parent = t3.parent /\ t4.color = t3.color
      /\ t4.root = IF p = Nil THEN k ELSE t3.root
      /\ \A c \in Side, z \in Node :
           t4.kid[c][z] = IF p # Nil /\ z = p /\ c = Turn(k, p) THEN k ELSE t3.kid[c][z]
  <2>1. t3 \in Tree
    BY <1>5 DEF KidSet
  <2>2. CASE p = Nil
    <3>1. RootSet(t3, k, t4)
      BY <1>1, <2>1, <2>2, RootIs
    <3> QED
      BY <2>2, <3>1 DEF RootSet
  <2>3. CASE p # Nil
    <3>1. KidSet(t3, Turn(k, p), p, k, t4)
      BY <1>1, <2>1, <2>3, SetKidIs
    <3> QED
      BY <2>3, <3>1 DEF KidSet
  <2> QED
    BY <2>2, <2>3
<1>7. Leaf(t, k, p) = t4
  BY DEF Leaf, t0, t1, t2, t3
<1> HIDE DEF t4
<1>8. t4.ok = t.ok /\ t4.root = IF p = Nil THEN k ELSE t.root
  BY <1>2, <1>3, <1>4, <1>5, <1>6 DEF ParentSet, Painted, KidSet
<1>9. \A z \in Node : /\ t4.parent[z] = IF z = k THEN p ELSE t.parent[z]
                      /\ t4.color[z] = IF z = k THEN "red" ELSE t.color[z]
  BY <1>2, <1>3, <1>4, <1>5, <1>6 DEF ParentSet, Painted, KidSet
<1>10. \A c \in Side, z \in Node : t3.kid[c][z] = IF z = k THEN Nil ELSE t.kid[c][z]
  BY <1>1, <1>2, <1>3, <1>4, <1>5 DEF ParentSet, Painted, KidSet
<1> QED
  BY <1>6, <1>7, <1>8, <1>9, <1>10 DEF LeafSet

\* The nodes below and at each node, the new leaf included.
WithLeaf(sub, k, p) ==
  [z \in Node |-> IF z = k THEN {k} ELSE IF p \in sub[z] THEN sub[z] \cup {k} ELSE sub[z]]

\* Where Descend looked last, the new leaf belongs.
LEMMA LeafShape ==
  ASSUME NEW t, NEW S, NEW sub, Shape(t, S, sub, Identity), NEW k \in Key, k \notin S,
         NEW p, Descend(t, k) = p, NEW r, LeafSet(t, k, p, r)
  PROVE  Shape(r, S \cup {k}, WithLeaf(sub, k, p), Identity)
<1> DEFINE S2 == S \cup {k}
           sub2 == WithLeaf(sub, k, p)
<1>1. /\ S \subseteq Key /\ S \subseteq Node /\ k \in Node /\ k # Nil /\ Nil \in Node /\ Nil \notin S
      /\ sub \in [Node -> SUBSET S] /\ sub[Nil] = {} /\ sub[t.root] = S /\ t \in Tree /\ t.root \in Node
  BY KeyAssumption, TreeType DEF Shape, Divided, Node
<1>2. t.root = Nil => p = Nil /\ S = {}
  BY DescendGoes
<1>3. t.root # Nil => /\ p \in S /\ p # k /\ p # Nil /\ t.kid[Turn(k, p)][p] = Nil
                      /\ \A z \in S : p \in sub[z] /\ z # p => k # z /\ Turn(p, z) = Turn(k, z)
  BY <1>1, DescendGoes DEF Descended, Along
<1>4. /\ r \in Tree /\ r.ok = t.ok /\ r.root = IF p = Nil THEN k ELSE t.root
      /\ \A z \in Node : /\ r.parent[z] = IF z = k THEN p ELSE t.parent[z]
                         /\ r.color[z] = IF z = k THEN "red" ELSE t.color[z]
      /\ \A c \in Side, z \in Node :
           r.kid[c][z] = IF p # Nil /\ z = p /\ c = Turn(k, p) THEN k
                         ELSE IF z = k THEN Nil ELSE t.kid[c][z]
  BY DEF LeafSet
<1>5. \A z \in Node : sub2[z] = IF z = k THEN {k} ELSE IF p \in sub[z] THEN sub[z] \cup {k} ELSE sub[z]
  BY DEF WithLeaf
<1>6. sub2 \in [Node -> SUBSET S2]
  BY <1>1 DEF WithLeaf
<1> HIDE DEF sub2
<1>7. \A z \in S, c \in Side : t.kid[c][z] \in S \cup {Nil} /\ t.kid[c][z] \in Node /\ t.kid[c][z] # k
  BY <1>1 DEF Shape, Chained
<1>8. \A z \in S : z \in sub[z]
  BY DEF Shape, Divided
<1>9. Divided(r, S2, sub2, Identity)
  <2>1. sub2[Nil] = {} /\ sub2[r.root] = S2
    <3>1. sub2[Nil] = {}
      BY <1>1, <1>5
    <3>2. CASE t.root = Nil
      BY <1>1, <1>2, <1>4, <1>5, <3>2
    <3>3. CASE t.root # Nil
      <4>1. r.root = t.root /\ p \in sub[t.root] /\ t.root # k
        BY <1>1, <1>3, <1>4, <3>3 DEF Shape, Chained
      <4> QED
        BY <1>1, <1>5, <3>1, <4>1
    <3> QED
      BY <3>1, <3>2, <3>3
  <2>2. \A z \in S2 : z \in sub2[z]
    BY <1>1, <1>5, <1>8
  <2>3. ASSUME NEW x \in S2, NEW d \in Side, NEW j \in S2
        PROVE  j \in sub2[r.kid[d][x]] <=> j \in sub2[x] /\ Before(Identity, d, j, x)
    <3>0. x \in Key /\ j \in Key /\ x \in Node /\ j \in Node
      BY <1>1
    <3>1. Before(Identity, d, j, x) <=> j # x /\ d = Turn(j, x)
      BY <3>0, Turns
    <3>2. CASE x = k
      <4>1. r.kid[d][x] = Nil
        BY <1>1, <1>2, <1>3, <1>4, <3>2
      <4>2. sub2[x] = {k}
        BY <1>1, <1>5, <3>2
      <4> QED
        BY <2>1, <3>1, <3>2, <4>1, <4>2
    <3>3. CASE x # k /\ j # k
      <4>1. x \in S /\ j \in S
        BY <3>3
      <4>2. j \in sub[t.kid[d][x]] <=> j \in sub[x] /\ Before(Identity, d, j, x)
        BY <4>1 DEF Shape, Divided
      <4>3. j \in sub2[x] <=> j \in sub[x]
        BY <1>1, <1>5, <3>3, <4>1
      <4>4. j \in sub2[r.kid[d][x]] <=> j \in sub[t.kid[d][x]]
        <5>1. CASE p # Nil /\ x = p /\ d = Turn(k, p)
          <6>1. r.kid[d][x] = k /\ t.kid[d][x] = Nil
            BY <1>1, <1>2, <1>3, <1>4, <4>1, <5>1
          <6> QED
            BY <1>1, <1>5, <3>3, <6>1, ZenonT(60)
        <5>2. CASE ~(p # Nil /\ x = p /\ d = Turn(k, p))
          <6>1. r.kid[d][x] = t.kid[d][x]
            BY <1>1, <1>4, <3>3, <4>1, <5>2
          <6>2. t.kid[d][x] \in Node /\ t.kid[d][x] # k
            BY <1>7, <4>1
          <6> QED
            BY <1>1, <1>5, <3>3, <6>1, <6>2, ZenonT(60)
        <5> QED
          BY <5>1, <5>2
      <4> QED
        BY <4>2, <4>3, <4>4
    <3>4. CASE x # k /\ j = k
      <4>1. x \in S /\ t.root # Nil /\ p \in S
        BY <1>2, <1>3, <3>4
      <4>2. k \in sub2[x] <=> p \in sub[x]
        BY <1>1, <1>5, <3>4, <4>1
      <4>3. p \in sub[t.kid[d][x]] <=> p \in sub[x] /\ p # x /\ d = Turn(p, x)
        BY <4>1, Divides
      <4>4. CASE x = p /\ d = Turn(k, p)
        <5>1. r.kid[d][x] = k
          BY <1>1, <1>3, <1>4, <4>1, <4>4
        <5> QED
          BY <1>1, <1>5, <1>8, <3>1, <3>4, <4>1, <4>2, <4>4, <5>1
      <4>5. CASE ~(x = p /\ d = Turn(k, p))
        <5>1. r.kid[d][x] = t.kid[d][x]
          BY <1>1, <1>4, <3>4, <4>1, <4>5
        <5>2. t.kid[d][x] \in Node /\ t.kid[d][x] # k
          BY <1>7, <4>1
        <5>3. k \in sub2[r.kid[d][x]] <=> p \in sub[t.kid[d][x]]
          BY <1>1, <1>5, <5>1, <5>2
        <5>4. p \in sub[x] /\ x # p => k # x /\ Turn(p, x) = Turn(k, x)
          BY <1>3, <4>1
        <5> QED
          BY <3>1, <3>4, <4>2, <4>3, <4>5, <5>3, <5>4
      <4> QED
        BY <4>4, <4>5
    <3> QED
      BY <3>2, <3>3, <3>4
  <2> QED
    BY <1>1, <1>6, <2>1, <2>2, <2>3, IdentityLabels DEF Divided
<1>10. Chained(r, S2)
  <2>1. r.root \in S2 \cup {Nil} /\ (r.root # Nil => r.parent[r.root] = Nil)
    BY <1>1, <1>2, <1>3, <1>4 DEF Shape, Chained
  <2>2. ASSUME NEW x \in S2, NEW d \in Side
        PROVE  r.kid[d][x] \in S2 \cup {Nil} /\ (r.kid[d][x] # Nil => r.parent[r.kid[d][x]] = x)
    <3>1. CASE p # Nil /\ x = p /\ d = Turn(k, p)
      <4>1. r.kid[d][x] = k
        BY <1>1, <1>4, <3>1
      <4> QED
        BY <1>1, <1>4, <3>1, <4>1
    <3>2. CASE ~(p # Nil /\ x = p /\ d = Turn(k, p)) /\ x = k
      BY <1>1, <1>4, <3>2
    <3>3. CASE ~(p # Nil /\ x = p /\ d = Turn(k, p)) /\ x # k
      <4>1. r.kid[d][x] = t.kid[d][x] /\ x \in S
        BY <1>1, <1>4, <3>3
      <4>2. t.kid[d][x] # Nil => t.parent[t.kid[d][x]] = x
        BY <4>1 DEF Shape, Chained
      <4> QED
        BY <1>4, <1>7, <4>1, <4>2
    <3> QED
      BY <3>1, <3>2, <3>3
  <2> QED
    BY <2>1, <2>2 DEF Chained
<1>11. Cleared(r, S2)
  <2> SUFFICES ASSUME NEW z \in Node \ S2
               PROVE  /\ r.color[z] = "black" /\ r.parent[z] = Nil
                      /\ \A c \in Side : r.kid[c][z] = Nil
    BY DEF Cleared
  <2>1. t.color[z] = "black" /\ t.parent[z] = Nil /\ \A c \in Side : t.kid[c][z] = Nil
    BY DEF Shape, Cleared
  <2>2. z # k /\ (p # Nil => z # p)
    BY <1>2, <1>3
  <2> QED
    BY <1>4, <2>1, <2>2
<1> QED
  BY <1>4, <1>9, <1>10, <1>11 DEF Shape, S2, sub2

\* The new leaf is red: it is all there is to fix.
LEMMA LeafFixing ==
  ASSUME NEW t, NEW S, NEW sub, NEW bh, Sound(t, S, sub, bh), NEW k \in Key, k \notin S,
         NEW p, Descend(t, k) = p, NEW r, LeafSet(t, k, p, r)
  PROVE  Fixing(r, S \cup {k}, WithLeaf(sub, k, p), [bh EXCEPT ![k] = 0], k)
<1> DEFINE S2 == S \cup {k}
           bh2 == [bh EXCEPT ![k] = 0]
<1>1. Shape(r, S2, WithLeaf(sub, k, p), Identity)
  BY LeafShape DEF Sound
<1>2. /\ Shape(t, S, sub, Identity) /\ S \subseteq Key /\ S \subseteq Node /\ k \in Node /\ k # Nil
      /\ Nil \in Node /\ Nil \notin S /\ t.root \in Node /\ t.color[Nil] = "black"
  BY KeyAssumption, TreeType DEF Sound, Shape, Divided, Cleared, Node
<1>3. t.root = Nil => p = Nil /\ S = {}
  BY <1>2, DescendGoes
<1>4. t.root # Nil => p \in S /\ p # k /\ p # Nil /\ t.kid[Turn(k, p)][p] = Nil /\ t.root # k
  BY <1>2, DescendGoes DEF Descended, Along, Shape, Chained
<1>5. /\ r \in Tree /\ r.ok = t.ok /\ r.root = IF p = Nil THEN k ELSE t.root
      /\ \A z \in Node : r.color[z] = IF z = k THEN "red" ELSE t.color[z]
      /\ \A c \in Side, z \in Node :
           r.kid[c][z] = IF p # Nil /\ z = p /\ c = Turn(k, p) THEN k
                         ELSE IF z = k THEN Nil ELSE t.kid[c][z]
  BY DEF LeafSet
<1>6. bh2 \in [Node -> Nat] /\ \A z \in Node : bh2[z] = IF z = k THEN 0 ELSE bh[z]
  BY <1>2 DEF Sound, Even
<1> HIDE DEF bh2
<1>7. \A z \in S, c \in Side : t.kid[c][z] \in S \cup {Nil} /\ t.kid[c][z] \in Node /\ t.kid[c][z] # k
  BY <1>2 DEF Shape, Chained
<1>8. Even(r, S2, bh2)
  <2>1. bh2[Nil] = 0 /\ bh[Nil] = 0
    BY <1>2, <1>6 DEF Sound, Even
  <2>2. ASSUME NEW z \in S2, NEW c \in Side PROVE bh2[z] = bh2[r.kid[c][z]] + Blk(r, z)
    <3>1. CASE z = k
      BY <1>2, <1>3, <1>4, <1>5, <1>6, <2>1, <3>1 DEF Blk
    <3>2. CASE z # k
      <4>1. z \in S /\ z \in Node /\ bh[z] = bh[t.kid[c][z]] + Blk(t, z) /\ Blk(r, z) = Blk(t, z)
        BY <1>2, <1>5, <3>2 DEF Blk, Sound, Even
      <4>2. bh2[r.kid[c][z]] = bh[t.kid[c][z]]
        BY <1>2, <1>3, <1>4, <1>5, <1>6, <1>7, <2>1, <3>2, <4>1
      <4> QED
        BY <1>6, <3>2, <4>1, <4>2
    <3> QED
      BY <3>1, <3>2
  <2> QED
    BY <1>6, <2>1, <2>2 DEF Even
<1>9. RedApart(r, S2, k)
  <2> SUFFICES ASSUME NEW z \in S2, NEW c \in Side, r.color[z] = "red", r.color[r.kid[c][z]] = "red",
                      r.kid[c][z] # k
               PROVE  FALSE
    BY DEF RedApart
  <2>1. z # k
    BY <1>2, <1>3, <1>4, <1>5
  <2>2. z \in S /\ r.kid[c][z] = t.kid[c][z] /\ z \in Node
    BY <1>2, <1>5, <2>1
  <2>3. t.color[z] = "red" /\ t.color[t.kid[c][z]] = "red"
    BY <1>5, <1>7, <2>1, <2>2
  <2>4. t.kid[c][z] = Nil
    BY <2>2, <2>3 DEF Sound, RedApart
  <2> QED
    BY <1>2, <2>3, <2>4
<1>10. r.ok /\ k \in S2 /\ r.color[k] = "red" /\ (r.root # k => r.color[r.root] = "black")
  BY <1>2, <1>3, <1>5 DEF Sound
<1> QED
  BY <1>1, <1>8, <1>9, <1>10 DEF Fixing, S2, bh2

\* An insertion makes a red-black tree of one.
LEMMA InsertSound ==
  ASSUME NEW t, NEW S, RedBlackTree(t, S), NEW k \in Key
  PROVE  RedBlackTree(rbtree_insert(t, k), S \cup {k})
<1>1. PICK sub, bh : Sound(t, S, sub, bh)
  BY DEF RedBlackTree
<1>2. Shape(t, S, sub, Identity) /\ t \in Tree
  BY <1>1 DEF Sound, Shape
<1> DEFINE p == Descend(t, k)
<1>3. CASE k \in S
  <2>1. rbtree_insert(t, k) = t
    BY <1>2, <1>3, SearchFinds DEF rbtree_insert
  <2>2. S \cup {k} = S
    BY <1>3
  <2> QED
    BY <2>1, <2>2
<1>4. CASE k \notin S
  <2>1. p # k
    BY <1>2, <1>4, SearchFinds
  <2>2. rbtree_insert(t, k) = rbtree_insert_fixup(Leaf(t, k, p), k)
    BY <2>1 DEF rbtree_insert, Leaf, Turn
  <2>3. p \in Node
    <3>1. t.root = Nil => p = Nil
      BY <1>2, DescendGoes
    <3>2. t.root # Nil => p \in S
      BY <1>2, DescendGoes DEF Descended, Along
    <3> QED
      BY <1>2, <3>1, <3>2 DEF Shape, Divided, Node
  <2> DEFINE r == Leaf(t, k, p)
  <2>4. LeafSet(t, k, p, r)
    BY <1>2, <2>3, LeafIs
  <2> HIDE DEF r
  <2>5. Fixing(r, S \cup {k}, WithLeaf(sub, k, p), [bh EXCEPT ![k] = 0], k)
    BY <1>1, <1>4, <2>4, LeafFixing
  <2>6. RedBlackTree(rbtree_insert_fixup(r, k), S \cup {k})
    BY <2>5, InsertFixup
  <2> QED
    BY <2>2, <2>6 DEF r
<1> QED
  BY <1>3, <1>4

-----------------------------------------------------------------------------
(* rbtree_delete_fixup.                                                    *)

Lack(z, c, p, d) == IF z = p /\ c = d THEN 1 ELSE 0

\* What holds between the rounds of rbtree_delete_fixup: all paths through
\* child x, on side d of p, have one black node less than the others.
Lacking(t, S, sub, bh, x, p, d) ==
  /\ Shape(t, S, sub, Identity) /\ RedApart(t, S, Nil) /\ t.ok
  /\ t.color[t.root] = "black" /\ t.color[x] = "black"
  /\ bh \in [Node -> Nat] /\ bh[Nil] = 0
  /\ \A z \in S, c \in Side : bh[z] = bh[t.kid[c][z]] + Blk(t, z) + Lack(z, c, p, d)
  /\ d \in Side /\ p \in S \cup {Nil}
  /\ IF p = Nil THEN x = t.root ELSE x = t.kid[d][p]

\* x and its red child y, on the other side than c, exchange their colors and x is
\* rotated below y.
Turned(t, x, y, c, r) ==
  /\ r \in Tree /\ r.ok = t.ok
  /\ r.root = IF t.root = x THEN y ELSE t.root
  /\ \A z \in Node : r.color[z] = IF z = x THEN "red" ELSE IF z = y THEN "black" ELSE t.color[z]
  /\ \A k \in Side, z \in Node :
       r.kid[k][z] = IF k = Other(c) /\ z = x THEN t.kid[c][y] ELSE IF k = c /\ z = y THEN x
                     ELSE IF t.kid[k][z] = x THEN y ELSE t.kid[k][z]

LEMMA RedUp ==
  ASSUME NEW t, NEW S, NEW sub, NEW bh, NEW q, NEW p, NEW d, Lacking(t, S, sub, bh, q, p, d),
         NEW x \in S, NEW c \in Side, NEW y, t.kid[Other(c)][x] = y,
         t.color[x] = "black", t.color[y] = "red", t.color[t.kid[c][x]] = "black",
         y # p, x = p => d = c, q # x, p # Nil,
         NEW r, Rotate(Paint(Paint(t, x, "red"), y, "black"), x, c) = r
  PROVE  (\E sub2, bh2 : Lacking(r, S, sub2, bh2, q, p, d)) /\ Turned(t, x, y, c, r)
<1> DEFINE e == Other(c)
           a == t.kid[c][x]
           b == t.kid[c][y]
           t1 == Paint(t, x, "red")
           t2 == Paint(t1, y, "black")
           sub2 == [sub EXCEPT ![y] = sub[x], ![x] = (sub[x] \ sub[y]) \cup sub[b]]
           bh2 == [bh EXCEPT ![y] = bh[x], ![x] = bh[y]]
<1>0. Other(c) = e /\ t.kid[c][x] = a /\ t.kid[c][y] = b /\ t.kid[e][x] = y
  OBVIOUS
<1> HIDE DEF e, a, b
<1>1. /\ Shape(t, S, sub, Identity) /\ t \in Tree /\ t.color[Nil] = "black" /\ Nil \notin S
      /\ S \subseteq Node /\ "red" \in Color /\ "black" \in Color /\ d \in Side /\ p \in S
  BY KeyAssumption DEF Lacking, Shape, Divided, Cleared, Node, Color
<1>2. c \in Side /\ e \in Side /\ c # e /\ (\A k \in Side : k = c \/ k = e) /\ Other(e) = c
  BY <1>0, Sides
<1>3. y # Nil /\ y \in S /\ y # x /\ x \in Node /\ y \in Node
  <2>1. y # Nil
    BY <1>1
  <2>2. Parted(t, S, sub, x, e)
    BY <1>1, <1>2, Below
  <2>3. y \in S /\ y # x
    BY <1>0, <2>1, <2>2 DEF Parted
  <2> QED
    BY <1>1, <2>1, <2>3
<1>4. Painted(t, x, "red", t1)
  BY <1>1, <1>3, PaintIs
<1> HIDE DEF t1
<1>5. Painted(t1, y, "black", t2)
  <2>1. t1 \in Tree
    BY <1>4 DEF Painted
  <2> QED
    BY <1>1, <1>3, <2>1, PaintIs
<1> HIDE DEF t2
<1>6. Shape(t2, S, sub, Identity)
  <2>1. Shape(t1, S, sub, Identity)
    BY <1>1, <1>3, <1>4, PaintShape
  <2> QED
    BY <1>1, <1>3, <1>5, <2>1, PaintShape
<1>7. /\ t2.root = t.root /\ t2.kid = t.kid /\ t2.parent = t.parent /\ t2.ok = t.ok
      /\ \A z \in Node : t2.color[z] = IF z = x THEN "red" ELSE IF z = y THEN "black" ELSE t.color[z]
  BY <1>3, <1>4, <1>5 DEF Painted
<1>8. Rotated(t2, x, c, r)
  <2>1. t2.kid[Other(c)][x] # Nil
    BY <1>3, <1>7
  <2> QED
    BY <1>6, <2>1, RotateIs DEF t1, t2
<1>9. Shape(r, S, sub2, Identity)
  <2>1. t2.kid[Other(c)][x] = y /\ t2.kid[c][y] = b
    BY <1>0, <1>7
  <2>2. [sub EXCEPT ![y] = sub[x], ![x] = (sub[x] \ sub[y]) \cup sub[b]] = sub2
    OBVIOUS
  <2> HIDE DEF sub2
  <2> QED
    BY <1>3, <1>6, <1>8, <2>1, <2>2, RotateShapeIs
<1> HIDE DEF sub2
<1>10. Turned(t, x, y, c, r)
  <2>1. t2.kid[Other(c)][x] = y /\ t2.kid[c][y] = b
    BY <1>0, <1>7
  <2>2. /\ r \in Tree /\ r.color = t2.color /\ r.ok = t2.ok /\ r.root = IF t2.root = x THEN y ELSE t2.root
        /\ \A k \in Side, z \in Node :
             r.kid[k][z] = IF k = Other(c) /\ z = x THEN b ELSE IF k = c /\ z = y THEN x
                           ELSE IF t2.kid[k][z] = x THEN y ELSE t2.kid[k][z]
    BY <1>8, <2>1, RotatedFields
  <2> QED
    BY <1>0, <1>7, <2>2 DEF Turned
<1>11. /\ r.ok = t.ok
       /\ r.root = IF t.root = x THEN y ELSE t.root
       /\ \A z \in Node : r.color[z] = IF z = x THEN "red" ELSE IF z = y THEN "black" ELSE t.color[z]
       /\ \A k \in Side, z \in Node :
            r.kid[k][z] = IF k = e /\ z = x THEN b ELSE IF k = c /\ z = y THEN x
                          ELSE IF t.kid[k][z] = x THEN y ELSE t.kid[k][z]
  BY <1>0, <1>10 DEF Turned
<1>12. /\ bh2 \in [Node -> Nat] /\ bh2[y] = bh[x] /\ bh2[x] = bh[y]
       /\ \A z \in Node : z # x /\ z # y => bh2[z] = bh[z]
  BY <1>3 DEF Lacking
<1> HIDE DEF bh2
<1>13. \A z \in S, k \in Side : t.kid[k][z] \in Node /\ bh[t.kid[k][z]] \in Nat /\ bh[z] \in Nat
  <2>1. \A z \in S, k \in Side : t.kid[k][z] \in Node
    BY <1>1, Below DEF Parted
  <2> QED
    BY <1>1, <2>1 DEF Lacking
<1>14. \A z \in S, k \in Side : bh[z] = bh[t.kid[k][z]] + Blk(t, z) + Lack(z, k, p, d)
  BY DEF Lacking
<1>15. a \in Node /\ b \in Node /\ t.kid[e][y] \in Node /\ a # x /\ a # y /\ b # x /\ b # y
       /\ t.kid[e][y] # x /\ t.kid[e][y] # y
  <2>1. Parted(t, S, sub, x, c) /\ Parted(t, S, sub, x, e) /\ Parted(t, S, sub, y, c) /\ Parted(t, S, sub, y, e)
    BY <1>1, <1>2, <1>3, Below
  <2>2. \A z \in S : z \in sub[z]
    BY <1>1 DEF Shape, Divided
  <2>3. /\ sub[y] \subseteq sub[x] /\ x \notin sub[y] /\ sub[a] \cap sub[y] = {}
        /\ a \in Node /\ x \notin sub[a] /\ (a # Nil => a \in sub[a])
    BY <1>0, <1>2, <2>1, PartedIs
  <2>4. /\ b \in Node /\ sub[b] \subseteq sub[y] /\ y \notin sub[b] /\ (b # Nil => b \in sub[b])
        /\ t.kid[e][y] \in Node /\ sub[t.kid[e][y]] \subseteq sub[y] /\ y \notin sub[t.kid[e][y]]
        /\ (t.kid[e][y] # Nil => t.kid[e][y] \in sub[t.kid[e][y]])
    BY <1>0, <1>2, <2>1, PartedIs
  <2>5. y \in sub[y] /\ x # Nil /\ y # Nil
    BY <1>1, <1>3, <2>2
  <2>6. a # x /\ a # y
    BY <2>3, <2>5
  <2>7. b # x /\ b # y
    BY <2>3, <2>4, <2>5
  <2>8. t.kid[e][y] # x /\ t.kid[e][y] # y
    BY <2>3, <2>4, <2>5
  <2> QED
    BY <2>3, <2>4, <2>6, <2>7, <2>8
<1>16. /\ bh[x] = bh[y] + 1 /\ bh[y] = bh[b] /\ bh[y] = bh[t.kid[e][y]]
       /\ bh[x] = bh[a] + 1 + Lack(x, c, p, d)
       /\ bh[a] \in Nat /\ bh[b] \in Nat /\ bh[y] \in Nat /\ bh[x] \in Nat
  <2>1. Blk(t, x) = 1 /\ Blk(t, y) = 0
    BY DEF Blk
  <2>2. Lack(x, e, p, d) = 0 /\ Lack(y, c, p, d) = 0 /\ Lack(y, e, p, d) = 0
    BY <1>2 DEF Lack
  <2>3. bh[x] = bh[y] + 1 + 0 /\ bh[x] = bh[a] + 1 + Lack(x, c, p, d)
    BY <1>0, <1>2, <1>14, <2>1, <2>2
  <2>4. bh[y] = bh[b] + 0 + 0 /\ bh[y] = bh[t.kid[e][y]] + 0 + 0
    BY <1>0, <1>2, <1>3, <1>14, <2>1, <2>2
  <2>5. bh[a] \in Nat /\ bh[b] \in Nat /\ bh[y] \in Nat /\ bh[x] \in Nat /\ bh[t.kid[e][y]] \in Nat
    BY <1>0, <1>2, <1>3, <1>13
  <2> QED
    BY <2>3, <2>4, <2>5
<1>17. \A z \in S, k \in Side : bh2[z] = bh2[r.kid[k][z]] + Blk(r, z) + Lack(z, k, p, d)
  <2> SUFFICES ASSUME NEW z \in S, NEW k \in Side
               PROVE  bh2[z] = bh2[r.kid[k][z]] + Blk(r, z) + Lack(z, k, p, d)
    OBVIOUS
  <2>0. z \in Node /\ Lack(z, k, p, d) \in Nat
    BY <1>1 DEF Lack
  <2>1. CASE z = x
    <3>1. Blk(r, z) = 0
      BY <1>11, <2>0, <2>1 DEF Blk
    <3>2. CASE k = c
      <4>1. r.kid[k][z] = a
        BY <1>0, <1>2, <1>3, <1>11, <1>15, <2>1, <3>2
      <4>2. bh2[a] = bh[a] /\ bh2[z] = bh[y]
        BY <1>12, <1>15, <2>1
      <4> QED
        BY <1>16, <2>0, <2>1, <3>1, <3>2, <4>1, <4>2
    <3>3. CASE k = e
      <4>1. r.kid[k][z] = b
        BY <1>2, <1>3, <1>11, <2>1, <3>3
      <4>2. bh2[b] = bh[b] /\ bh2[z] = bh[y]
        BY <1>12, <1>15, <2>1
      <4>3. Lack(z, k, p, d) = 0
        BY <1>2, <2>1, <3>3 DEF Lack
      <4>4. bh2[b] \in Nat /\ bh2[z] = bh2[b]
        BY <1>16, <4>2
      <4> QED
        BY <3>1, <4>1, <4>3, <4>4
    <3> QED
      BY <1>2, <3>2, <3>3
  <2>2. CASE z = y
    <3>1. Blk(r, z) = 1 /\ Lack(z, k, p, d) = 0
      BY <1>3, <1>11, <2>0, <2>2 DEF Blk, Lack
    <3>2. CASE k = c
      <4>1. r.kid[k][z] = x /\ bh2[x] = bh[y] /\ bh2[z] = bh[x]
        BY <1>2, <1>3, <1>11, <1>12, <2>2, <3>2
      <4> QED
        BY <1>16, <3>1, <4>1
    <3>3. CASE k = e
      <4>1. r.kid[k][z] = t.kid[e][y]
        BY <1>2, <1>3, <1>11, <1>15, <2>2, <3>3
      <4>2. bh2[t.kid[e][y]] = bh[t.kid[e][y]] /\ bh2[z] = bh[x]
        BY <1>12, <1>15, <2>2
      <4> QED
        BY <1>16, <3>1, <4>1, <4>2
    <3> QED
      BY <1>2, <3>2, <3>3
  <2>3. CASE z # x /\ z # y
    <3>1. Blk(r, z) = Blk(t, z) /\ bh2[z] = bh[z]
      BY <1>11, <1>12, <2>0, <2>3 DEF Blk
    <3>2. t.kid[k][z] # y
      BY <1>0, <1>1, <1>2, <1>3, <2>0, <2>3, OneParent
    <3>3. bh2[r.kid[k][z]] = bh[t.kid[k][z]]
      BY <1>2, <1>11, <1>12, <1>13, <2>0, <2>3, <3>2
    <3> QED
      BY <1>14, <3>1, <3>3
  <2> QED
    BY <2>1, <2>2, <2>3
<1>18. bh2[Nil] = 0
  BY <1>1, <1>3, <1>12 DEF Lacking, Node
<1>19. RedApart(r, S, Nil)
  <2> SUFFICES ASSUME NEW z \in S, NEW k \in Side, r.color[z] = "red", r.color[r.kid[k][z]] = "red"
               PROVE  FALSE
    BY DEF RedApart
  <2>0. z \in Node /\ z # y /\ t.kid[k][z] \in Node
    BY <1>1, <1>3, <1>11, <1>13
  <2>1. \A v \in S, j \in Side : ~(t.color[v] = "red" /\ t.color[t.kid[j][v]] = "red")
    BY <1>1 DEF Lacking, RedApart
  <2>2. CASE z = x
    <3>1. k = c => r.kid[k][z] = a
      BY <1>0, <1>2, <1>3, <1>11, <1>15, <2>2
    <3>2. k = e => r.kid[k][z] = b
      BY <1>11, <2>0, <2>2
    <3>3. r.color[a] = "black" /\ r.color[b] # "red"
      BY <1>0, <1>3, <1>11, <1>15, <2>1
    <3> QED
      BY <1>2, <3>1, <3>2, <3>3
  <2>3. CASE z # x
    <3>1. t.color[z] = "red" /\ (t.kid[k][z] # x => r.kid[k][z] = t.kid[k][z])
          /\ (t.kid[k][z] = x => r.kid[k][z] = y)
      BY <1>11, <2>0, <2>3
    <3>2. r.color[y] = "black"
      BY <1>3, <1>11
    <3>3. t.kid[k][z] # y
      BY <1>0, <1>1, <1>2, <1>3, <2>0, <2>3, OneParent
    <3> QED
      BY <1>11, <2>0, <2>1, <2>3, <3>1, <3>2, <3>3
  <2> QED
    BY <2>2, <2>3
<1>20. r.color[r.root] = "black"
  <2>1. t.root \in Node
    BY <1>1, TreeType
  <2> QED
    BY <1>3, <1>11, <2>1 DEF Lacking
<1>21. q = r.kid[d][p] /\ r.color[q] = "black"
  <2>1. q = t.kid[d][p] /\ t.color[q] = "black" /\ q \in Node
    BY <1>1, <1>13 DEF Lacking
  <2>2. q # y
    BY <2>1
  <2>3. r.kid[d][p] = t.kid[d][p]
    BY <1>1, <1>2, <1>11, <2>1
  <2> QED
    BY <1>11, <2>1, <2>2, <2>3
<1>22. Lacking(r, S, sub2, bh2, q, p, d)
  BY <1>1, <1>9, <1>11, <1>12, <1>17, <1>18, <1>19, <1>20, <1>21 DEF Lacking
<1> QED
  BY <1>10, <1>22

\* The sentinel is black.
LEMMA NoRedPair ==
  ASSUME NEW t, NEW S, NEW sub, NEW at, Shape(t, S, sub, at), RedApart(t, S, Nil)
  PROVE  \A z \in S, c \in Side : ~(t.color[z] = "red" /\ t.color[t.kid[c][z]] = "red")
<1>1. t.color[Nil] = "black"
  BY KeyAssumption DEF Shape, Divided, Cleared, Node
<1> QED
  BY <1>1 DEF RedApart

\* The sibling s of a black-short child: it is there, and the child is on one
\* side only.
LEMMA SiblingIs ==
  ASSUME NEW t, NEW S, NEW sub, NEW bh, NEW x, NEW p, NEW d, Lacking(t, S, sub, bh, x, p, d), p # Nil
  PROVE  /\ p \in S /\ SideOf(t, p, x) = d /\ Sibling(t, x, p) = t.kid[Other(d)][p]
         /\ t.kid[Other(d)][p] # Nil /\ t.kid[Other(d)][p] \in S /\ t.kid[Other(d)][p] # x
         /\ t.kid[Other(d)][p] # p /\ x # p /\ x \in Node
         /\ bh[t.kid[Other(d)][p]] = bh[x] + 1 /\ bh[x] \in Nat /\ bh[p] = bh[x] + 1 + Blk(t, p)
<1> DEFINE s == t.kid[Other(d)][p]
<1>1. /\ Shape(t, S, sub, Identity) /\ d \in Side /\ p \in S /\ x = t.kid[d][p]
      /\ bh \in [Node -> Nat] /\ bh[Nil] = 0
      /\ \A z \in S, c \in Side : bh[z] = bh[t.kid[c][z]] + Blk(t, z) + Lack(z, c, p, d)
  BY DEF Lacking
<1>2. Other(d) \in Side /\ Other(d) # d /\ \A c \in Side : c = d \/ c = Other(d)
  BY <1>1, Sides
<1>3. Parted(t, S, sub, p, d) /\ Parted(t, S, sub, p, Other(d))
  BY <1>1, <1>2, Below
<1>4. x \in Node /\ s \in Node /\ Blk(t, p) \in Nat
  BY <1>1, <1>3 DEF Parted, Blk
<1>5. bh[s] = bh[x] + 1 /\ bh[x] \in Nat /\ bh[p] = bh[x] + 1 + Blk(t, p)
  <2>1. Lack(p, d, p, d) = 1 /\ Lack(p, Other(d), p, d) = 0
    BY <1>2 DEF Lack
  <2>2. bh[p] = bh[x] + Blk(t, p) + 1 /\ bh[p] = bh[s] + Blk(t, p) + 0
    BY <1>1, <1>2, <2>1
  <2>3. bh[x] \in Nat /\ bh[s] \in Nat /\ bh[p] \in Nat
    BY <1>1, <1>3, <1>4 DEF Parted
  <2> QED
    BY <1>4, <2>2, <2>3
<1>6. s # Nil /\ s # x
  BY <1>1, <1>5
<1>7. s \in S /\ s # p /\ x # p
  <2>1. p \in S /\ Nil \notin S /\ p \in sub[p]
    BY <1>1, KeyAssumption DEF Shape, Divided
  <2>2. x # Nil => x \in sub[x]
    BY <1>1, <1>3 DEF Parted
  <2>3. x # p
    BY <1>1, <1>3, <2>1, <2>2 DEF Parted
  <2>4. s \in S /\ s # p
    BY <1>3, <1>6, <2>1 DEF Parted
  <2> QED
    BY <2>3, <2>4
<1>8. SideOf(t, p, x) = d
  <2>1. "r" \in Side /\ "l" \in Side
    BY DEF Side
  <2>2. \A c \in Side : t.kid[c][p] = x <=> c = d
    BY <1>1, <1>2, <1>6
  <2>3. d \in {"l", "r"}
    BY <1>1 DEF Side
  <2> QED
    BY <2>1, <2>2, <2>3 DEF SideOf
<1>9. Sibling(t, x, p) = s
  BY <1>8 DEF Sibling
<1> QED
  BY <1>1, <1>4, <1>5, <1>6, <1>7, <1>8, <1>9

\* A red sibling is rotated up.
LEMMA BlackSiblingIs ==
  ASSUME NEW t, NEW S, NEW sub, NEW bh, NEW x, NEW p, NEW d, Lacking(t, S, sub, bh, x, p, d), p # Nil,
         NEW r, BlackSibling(t, x, p) = r
  PROVE  \/ r = t /\ t.color[t.kid[Other(d)][p]] = "black"
         \/ /\ \E sub2, bh2 : Lacking(r, S, sub2, bh2, x, p, d)
            /\ r.color[p] = "red" /\ r.color[r.kid[Other(d)][p]] = "black"
<1> DEFINE s == t.kid[Other(d)][p]
<1>1. p \in S /\ SideOf(t, p, x) = d /\ Sibling(t, x, p) = s /\ s # Nil /\ s \in S /\ s # p /\ x # p
  BY SiblingIs
<1>2. /\ Shape(t, S, sub, Identity) /\ t \in Tree /\ d \in Side /\ x = t.kid[d][p] /\ t.color[x] = "black"
      /\ S \subseteq Node /\ p \in Node /\ s \in Node
  BY <1>1, KeyAssumption DEF Lacking, Shape, Divided, Node
<1>3. Other(d) \in Side /\ Other(d) # d
  BY <1>2, Sides
<1>4. t.color[s] \in {"red", "black"} /\ t.color[p] \in {"red", "black"}
  BY <1>2, TreeType DEF Color
<1>5. CASE t.color[s] = "red"
  <2>1. t.color[p] = "black"
    BY <1>1, <1>3, <1>4, <1>5 DEF Lacking, RedApart
  <2>2. r = Rotate(Paint(Paint(t, p, "red"), s, "black"), p, d)
    BY <1>1, <1>5 DEF BlackSibling
  <2>3. (\E sub2, bh2 : Lacking(r, S, sub2, bh2, x, p, d)) /\ Turned(t, p, s, d, r)
    <3> HIDE DEF s
    <3>1. s = t.kid[Other(d)][p]
      BY DEF s
    <3> QED
      BY <1>1, <1>2, <1>5, <2>1, <2>2, <3>1, RedUp
  <2>4. r.color[p] = "red" /\ r.kid[Other(d)][p] = t.kid[d][s]
    BY <1>1, <1>2, <1>3, <2>3 DEF Turned
  <2>5. Parted(t, S, sub, s, d)
    BY <1>1, <1>2, Below
  <2>6. t.color[t.kid[d][s]] # "red" /\ t.kid[d][s] # p
    <3>1. t.color[t.kid[d][s]] # "red"
      BY <1>1, <1>2, <1>5, NoRedPair DEF Lacking
    <3>2. Parted(t, S, sub, p, Other(d)) /\ p \in sub[p]
      BY <1>1, <1>2, <1>3, Below DEF Shape, Divided
    <3>3. p \notin sub[s]
      BY <3>2 DEF Parted
    <3>4. t.kid[d][s] # Nil => t.kid[d][s] \in sub[s]
      BY <2>5 DEF Parted
    <3>5. p # Nil
      OBVIOUS
    <3> QED
      BY <3>1, <3>3, <3>4, <3>5
  <2>7. r.color[t.kid[d][s]] = "black"
    <3>1. t.kid[d][s] \in Node
      BY <2>5 DEF Parted
    <3>2. t.color[t.kid[d][s]] \in {"red", "black"}
      BY <1>2, <3>1, TreeType DEF Color
    <3> QED
      BY <2>3, <2>6, <3>1, <3>2 DEF Turned
  <2> QED
    BY <2>3, <2>4, <2>7
<1>6. CASE t.color[s] = "black"
  <2>1. r = t
    BY <1>1, <1>6 DEF BlackSibling
  <2> QED
    BY <1>6, <2>1
<1> QED
  BY <1>4, <1>5, <1>6

\* A black sibling with black children is painted red: if p is red, its color and
\* the sibling's are exchanged; ...
LEMMA ParentRed ==
  ASSUME NEW t, NEW S, NEW sub, NEW bh, NEW x, NEW p, NEW d, Lacking(t, S, sub, bh, x, p, d), p # Nil,
         NEW s, t.kid[Other(d)][p] = s, AllBlack(t, s), t.color[p] = "red"
  PROVE  RedBlackTree(Paint(RedSibling(t, s), p, "black"), S)
<1> DEFINE t1 == Paint(t, s, "red")
           r == Paint(t1, p, "black")
           bh2 == [bh EXCEPT ![s] = @ - 1]
<1>1. /\ p \in S /\ s # Nil /\ s \in S /\ s # p /\ x # p /\ s # x /\ x \in Node
      /\ bh[s] = bh[x] + 1 /\ bh[x] \in Nat /\ bh[p] = bh[x] + 1 + Blk(t, p)
  BY SiblingIs
<1>2. /\ Shape(t, S, sub, Identity) /\ t \in Tree /\ d \in Side /\ x = t.kid[d][p] /\ Nil \notin S
      /\ S \subseteq Node /\ p \in Node /\ s \in Node /\ "red" \in Color /\ "black" \in Color
  BY <1>1, KeyAssumption DEF Lacking, Shape, Divided, Node, Color
<1>3. Other(d) \in Side /\ Other(d) # d /\ \A c \in Side : c = d \/ c = Other(d)
  BY <1>2, Sides
<1>4. Paint(RedSibling(t, s), p, "black") = r
  BY <1>1 DEF RedSibling
<1>5. Painted(t, s, "red", t1)
  BY <1>2, PaintIs
<1> HIDE DEF t1
<1>6. Painted(t1, p, "black", r)
  BY <1>2, <1>5, PaintIs DEF Painted
<1> HIDE DEF r
<1>7. Shape(r, S, sub, Identity)
  <2>1. Shape(t1, S, sub, Identity)
    BY <1>1, <1>2, <1>5, PaintShape
  <2> QED
    BY <1>2, <1>6, <2>1, PaintShape
<1>8. /\ r.root = t.root /\ r.kid = t.kid /\ r.ok = t.ok
      /\ \A z \in Node : r.color[z] = IF z = p THEN "black" ELSE IF z = s THEN "red" ELSE t.color[z]
  BY <1>5, <1>6 DEF Painted
<1>9. \A z \in S, c \in Side : t.kid[c][z] \in Node /\ (t.kid[c][z] = s => z = p /\ c = Other(d))
  <2>1. \A z \in S, c \in Side : t.kid[c][z] \in Node
    BY <1>2, Below DEF Parted
  <2>2. \A z \in Node, c \in Side : t.kid[c][z] = s => z = p /\ c = Other(d)
    BY <1>1, <1>2, <1>3, OneParent
  <2> QED
    BY <1>2, <2>1, <2>2
<1>10. bh2 \in [Node -> Nat] /\ \A z \in Node : bh2[z] = IF z = s THEN bh[x] ELSE bh[z]
  <2>1. bh \in [Node -> Nat] /\ bh[s] - 1 = bh[x]
    BY <1>1 DEF Lacking
  <2> QED
    BY <1>1, <1>2, <2>1
<1> HIDE DEF bh2
<1>11. Even(r, S, bh2)
  <2>1. bh2[Nil] = 0
    BY <1>1, <1>2, <1>10 DEF Lacking, Node
  <2>2. ASSUME NEW z \in S, NEW c \in Side PROVE bh2[z] = bh2[t.kid[c][z]] + Blk(r, z)
    <3>1. /\ bh[z] = bh[t.kid[c][z]] + Blk(t, z) + Lack(z, c, p, d) /\ z \in Node
          /\ t.kid[c][z] \in Node /\ bh[t.kid[c][z]] \in Nat
      BY <1>2, <1>9 DEF Lacking
    <3>2. CASE z = p
      <4>1. Blk(t, z) = 0 /\ Blk(r, z) = 1 /\ bh2[z] = bh[x] + 1
        BY <1>1, <1>2, <1>8, <1>10, <3>2 DEF Blk
      <4>2. c = d => bh2[t.kid[c][z]] = bh[x]
        BY <1>1, <1>2, <1>10, <3>2
      <4>3. c = Other(d) => bh2[t.kid[c][z]] = bh[x]
        BY <1>2, <1>10, <3>2
      <4> QED
        BY <1>3, <4>1, <4>2, <4>3
    <3>3. CASE z = s
      <4>1. t.color[z] = "black"
        BY <3>3 DEF AllBlack
      <4>2. Blk(t, z) = 1 /\ Blk(r, z) = 0 /\ Lack(z, c, p, d) = 0
        BY <1>1, <1>8, <3>1, <3>3, <4>1 DEF Blk, Lack
      <4>3. t.kid[c][z] # s
        BY <1>1, <1>9, <3>3
      <4> QED
        BY <1>1, <1>10, <3>1, <3>3, <4>2, <4>3
    <3>4. CASE z # p /\ z # s
      <4>1. Blk(t, z) = Blk(r, z) /\ Lack(z, c, p, d) = 0 /\ t.kid[c][z] # s /\ Blk(t, z) \in Nat
        BY <1>8, <1>9, <3>1, <3>4 DEF Blk, Lack
      <4> QED
        BY <1>10, <3>1, <3>4, <4>1
    <3> QED
      BY <3>2, <3>3, <3>4
  <2> QED
    BY <1>8, <1>10, <2>1, <2>2 DEF Even
<1>12. RedApart(r, S, Nil)
  <2> SUFFICES ASSUME NEW z \in S, NEW c \in Side, r.color[z] = "red", r.color[t.kid[c][z]] = "red"
               PROVE  FALSE
    BY <1>8 DEF RedApart
  <2>1. z # p /\ z \in Node /\ t.kid[c][z] # s /\ t.kid[c][z] \in Node
    BY <1>2, <1>8, <1>9
  <2>2. t.color[t.kid[c][z]] = "red"
    BY <1>8, <2>1
  <2>3. z # s
    BY <2>2 DEF AllBlack, Side
  <2>4. t.color[z] = "red"
    BY <1>8, <2>1, <2>3
  <2> QED
    BY <1>2, <2>2, <2>4, NoRedPair DEF Lacking
<1>13. r.color[r.root] = "black"
  <2>1. t.root \in Node /\ t.root # s
    <3>1. t.root # s
      BY <1>1, <1>2, <1>3, OneParent
    <3> QED
      BY <1>2, <3>1, TreeType
  <2> QED
    BY <1>8, <2>1 DEF Lacking
<1>14. Sound(r, S, sub, bh2)
  BY <1>7, <1>8, <1>11, <1>12, <1>13 DEF Sound, Lacking
<1> QED
  BY <1>4, <1>14 DEF RedBlackTree

\* ... if p is black, p is one black node short in its turn.
LEMMA ParentBlack ==
  ASSUME NEW t, NEW S, NEW sub, NEW bh, NEW x, NEW p, NEW d, Lacking(t, S, sub, bh, x, p, d), p # Nil,
         NEW s, t.kid[Other(d)][p] = s, AllBlack(t, s), t.color[p] = "black",
         NEW r, RedSibling(t, s) = r
  PROVE  /\ \E bh2, d2 : Lacking(r, S, sub, bh2, p, r.parent[p], d2)
         /\ r \in Tree /\ r.parent = t.parent
<1> DEFINE bh2 == [bh EXCEPT ![s] = @ - 1, ![p] = @ - 1]
           g == t.parent[p]
<1>1. /\ p \in S /\ s # Nil /\ s \in S /\ s # p /\ x # p /\ s # x /\ x \in Node
      /\ bh[s] = bh[x] + 1 /\ bh[x] \in Nat /\ bh[p] = bh[x] + 1 + Blk(t, p)
  BY SiblingIs
<1>2. /\ Shape(t, S, sub, Identity) /\ t \in Tree /\ d \in Side /\ x = t.kid[d][p] /\ Nil \notin S
      /\ S \subseteq Node /\ p \in Node /\ s \in Node /\ "red" \in Color /\ "black" \in Color
  BY <1>1, KeyAssumption DEF Lacking, Shape, Divided, Node, Color
<1>3. Other(d) \in Side /\ Other(d) # d /\ \A c \in Side : c = d \/ c = Other(d)
  BY <1>2, Sides
<1>4. Painted(t, s, "red", r)
  <2>1. r = Paint(t, s, "red")
    BY <1>1 DEF RedSibling
  <2> QED
    BY <1>2, <2>1, PaintIs
<1>5. Shape(r, S, sub, Identity)
  BY <1>1, <1>2, <1>4, PaintShape
<1>6. /\ r.root = t.root /\ r.kid = t.kid /\ r.ok = t.ok /\ r.parent = t.parent /\ r \in Tree
      /\ \A z \in Node : r.color[z] = IF z = s THEN "red" ELSE t.color[z]
  BY <1>4 DEF Painted
<1>7. \A z \in S, c \in Side : t.kid[c][z] \in Node /\ (t.kid[c][z] = s => z = p /\ c = Other(d))
  <2>1. \A z \in S, c \in Side : t.kid[c][z] \in Node
    BY <1>2, Below DEF Parted
  <2>2. \A z \in Node, c \in Side : t.kid[c][z] = s => z = p /\ c = Other(d)
    BY <1>1, <1>2, <1>3, OneParent
  <2> QED
    BY <1>2, <2>1, <2>2
<1>8. Blk(t, p) = 1 /\ bh[p] = bh[x] + 2
  BY <1>1 DEF Blk
<1>9. /\ bh2 \in [Node -> Nat]
      /\ \A z \in Node : bh2[z] = IF z = s THEN bh[x] ELSE IF z = p THEN bh[x] + 1 ELSE bh[z]
  <2>1. bh \in [Node -> Nat] /\ bh[s] - 1 = bh[x] /\ bh[p] - 1 = bh[x] + 1
    BY <1>1, <1>8 DEF Lacking
  <2> QED
    BY <1>1, <1>2, <2>1
<1> HIDE DEF bh2
<1>10. PICK d2 \in Side : g \in S \cup {Nil} /\ IF g = Nil THEN p = t.root ELSE p = t.kid[d2][g]
  <2>1. CASE g = Nil
    BY <1>1, <1>2, <2>1, ParentNil
  <2>2. CASE g # Nil
    BY <1>1, <1>2, <2>2, ParentNil
  <2> QED
    BY <2>1, <2>2
<1>11. \A z \in S, c \in Side : t.kid[c][z] = p <=> z = g /\ c = d2
  <2> SUFFICES ASSUME NEW z \in S, NEW c \in Side PROVE t.kid[c][z] = p <=> z = g /\ c = d2
    OBVIOUS
  <2>1. z \in Node /\ z # Nil
    BY <1>2
  <2>2. ASSUME t.kid[c][z] = p PROVE z = g /\ c = d2
    <3>1. t.kid[c][z] # Nil
      BY <1>1, <1>2, <2>2
    <3>2. t.parent[p] = z /\ p # t.root
      BY <1>2, <2>2, <3>1, OneParent
    <3>3. p = t.kid[d2][g] /\ g = z
      BY <1>10, <2>1, <3>2
    <3>4. d2 = c
      BY <1>2, <1>10, <2>1, <2>2, <3>1, <3>3, OneParent
    <3> QED
      BY <3>3, <3>4
  <2> QED
    BY <1>10, <2>1, <2>2
<1>12. ASSUME NEW z \in S, NEW c \in Side
       PROVE  bh2[z] = bh2[t.kid[c][z]] + Blk(r, z) + Lack(z, c, g, d2)
  <2>1. /\ bh[z] = bh[t.kid[c][z]] + Blk(t, z) + Lack(z, c, p, d) /\ z \in Node
        /\ t.kid[c][z] \in Node /\ bh[t.kid[c][z]] \in Nat
    BY <1>2, <1>7 DEF Lacking
  <2>2. CASE z = p
    <3>1. Blk(r, z) = 1 /\ bh2[z] = bh[x] + 1
      BY <1>1, <1>2, <1>6, <1>9, <2>2 DEF Blk
    <3>2. Lack(z, c, g, d2) = 0
      <4>1. g # p
        <5>1. p \in sub[p]
          BY <1>1, <1>2 DEF Shape, Divided
        <5>2. t.parent[p] # Nil => t.parent[p] \notin sub[p]
          BY <1>1, <1>2, ParentNil
        <5> QED
          BY <1>1, <1>2, <5>1, <5>2
      <4> QED
        BY <2>2, <4>1 DEF Lack
    <3>3. c = d => bh2[t.kid[c][z]] = bh[x]
      BY <1>1, <1>2, <1>9, <2>2
    <3>4. c = Other(d) => bh2[t.kid[c][z]] = bh[x]
      BY <1>2, <1>9, <2>2
    <3> QED
      BY <1>1, <1>3, <3>1, <3>2, <3>3, <3>4
  <2>3. CASE z = s
    <3>1. t.color[z] = "black"
      BY <2>3 DEF AllBlack
    <3>2. \A k \in Side : t.kid[k][s] # s /\ t.kid[k][s] # p
      <4> SUFFICES ASSUME NEW k \in Side PROVE t.kid[k][s] # s /\ t.kid[k][s] # p
        OBVIOUS
      <4>1. Parted(t, S, sub, p, Other(d)) /\ Parted(t, S, sub, s, k)
        BY <1>1, <1>2, <1>3, Below
      <4>2. p \notin sub[s] /\ s \in sub[s]
        BY <4>1 DEF Parted
      <4> QED
        BY <1>1, <4>1, <4>2 DEF Parted
    <3>3. s # g
      BY <1>1, <1>11, <3>2
    <3>4. Blk(t, z) = 1 /\ Blk(r, z) = 0 /\ Lack(z, c, p, d) = 0 /\ Lack(z, c, g, d2) = 0
      BY <1>1, <1>6, <2>1, <2>3, <3>1, <3>3 DEF Blk, Lack
    <3> QED
      BY <1>1, <1>9, <2>1, <2>3, <3>2, <3>4, SMTT(30)
  <2>4. CASE z # p /\ z # s
    <3>1. Blk(t, z) = Blk(r, z) /\ Lack(z, c, p, d) = 0 /\ t.kid[c][z] # s /\ Blk(t, z) \in Nat
      BY <1>6, <1>7, <2>1, <2>4 DEF Blk, Lack
    <3>2. CASE t.kid[c][z] = p
      <4>1. Lack(z, c, g, d2) = 1
        BY <1>11, <3>2 DEF Lack
      <4> QED
        BY <1>1, <1>8, <1>9, <2>1, <2>4, <3>1, <3>2, <4>1
    <3>3. CASE t.kid[c][z] # p
      <4>1. Lack(z, c, g, d2) = 0
        BY <1>11, <3>3 DEF Lack
      <4> QED
        BY <1>9, <2>1, <2>4, <3>1, <3>3, <4>1
    <3> QED
      BY <3>2, <3>3
  <2> QED
    BY <2>2, <2>3, <2>4
<1>13. RedApart(r, S, Nil)
  <2> SUFFICES ASSUME NEW z \in S, NEW c \in Side, r.color[z] = "red", r.color[t.kid[c][z]] = "red"
               PROVE  FALSE
    BY <1>6 DEF RedApart
  <2>1. z # p /\ z \in Node /\ t.kid[c][z] \in Node
    BY <1>1, <1>2, <1>6, <1>7
  <2>2. t.kid[c][z] # s
    BY <1>7, <2>1
  <2>3. t.color[t.kid[c][z]] = "red"
    BY <1>6, <2>1, <2>2
  <2>4. z # s
    BY <2>3 DEF AllBlack, Side
  <2>5. t.color[z] = "red"
    BY <1>6, <2>1, <2>4
  <2> QED
    BY <1>2, <2>3, <2>5, NoRedPair DEF Lacking
<1>14. r.color[r.root] = "black" /\ r.color[p] = "black" /\ bh2[Nil] = 0
  <2>1. t.root \in Node /\ t.root # s
    <3>1. t.root # s
      BY <1>1, <1>2, <1>3, OneParent
    <3> QED
      BY <1>2, <3>1, TreeType
  <2>2. bh2[Nil] = 0
    BY <1>1, <1>2, <1>9 DEF Lacking, Node
  <2> QED
    BY <1>1, <1>2, <1>6, <2>1, <2>2 DEF Lacking
<1>15. Lacking(r, S, sub, bh2, p, g, d2)
  <2>1. r.ok
    BY <1>6 DEF Lacking
  <2>2. IF g = Nil THEN p = r.root ELSE p = r.kid[d2][g]
    BY <1>6, <1>10
  <2>3. \A z \in S, c \in Side : bh2[z] = bh2[r.kid[c][z]] + Blk(r, z) + Lack(z, c, g, d2)
    BY <1>6, <1>12
  <2> HIDE DEF g
  <2> QED
    BY <1>5, <1>9, <1>10, <1>13, <1>14, <2>1, <2>2, <2>3 DEF Lacking
<1> QED
  BY <1>6, <1>15

\* The colors before the last turn.
Repainted(t, x, y, f, r) ==
  /\ r \in Tree /\ r.root = t.root /\ r.parent = t.parent /\ r.kid = t.kid /\ r.ok = t.ok
  /\ \A z \in Node : r.color[z] = IF z = y THEN t.color[x] ELSE IF z = x THEN "black"
                                  ELSE IF z = f THEN "black" ELSE t.color[z]

\* The heights after the last turn.
LEMMA TurnedHeights ==
  ASSUME NEW bh \in [Node -> Nat], NEW x \in Node, NEW y \in Node, NEW f \in Node,
         x # y, f # x, f # y,
         NEW bh2, [bh EXCEPT ![y] = bh[x], ![x] = bh[y], ![f] = bh[f] + 1] = bh2
  PROVE  /\ bh2 \in [Node -> Nat] /\ bh2[y] = bh[x] /\ bh2[x] = bh[y] /\ bh2[f] = bh[f] + 1
         /\ \A z \in Node : z # x /\ z # y /\ z # f => bh2[z] = bh[z]
OBVIOUS

\* A black sibling y with a red child f on the far side: one rotation ends it.
LEMMA LastTurn ==
  ASSUME NEW t, NEW S, NEW sub, NEW bh, NEW q, NEW x, NEW d, Lacking(t, S, sub, bh, q, x, d), x # Nil,
         NEW y, t.kid[Other(d)][x] = y, t.color[y] = "black",
         NEW f, t.kid[Other(d)][y] = f, t.color[f] = "red",
         NEW t3, Repainted(t, x, y, f, t3)
  PROVE  RedBlackTree(Rotate(t3, x, d), S)
<1> DEFINE e == Other(d)
           b == t.kid[d][y]
           r == Rotate(t3, x, d)
           sub2 == [sub EXCEPT ![y] = sub[x], ![x] = (sub[x] \ sub[y]) \cup sub[b]]
           bh2 == [bh EXCEPT ![y] = bh[x], ![x] = bh[y], ![f] = bh[f] + 1]
<1>0. /\ Other(d) = e /\ t.kid[e][x] = y /\ t.kid[e][y] = f /\ t.kid[d][y] = b
      /\ t3 \in Tree /\ t3.root = t.root /\ t3.parent = t.parent /\ t3.kid = t.kid /\ t3.ok = t.ok
      /\ \A z \in Node : t3.color[z] = IF z = y THEN t.color[x] ELSE IF z = x THEN "black"
                                       ELSE IF z = f THEN "black" ELSE t.color[z]
  BY DEF Repainted
<1> HIDE DEF e, b
<1>1. /\ x \in S /\ y # Nil /\ y \in S /\ y # x /\ q # x /\ y # q /\ q \in Node
      /\ bh[y] = bh[q] + 1 /\ bh[q] \in Nat /\ bh[x] = bh[q] + 1 + Blk(t, x)
  BY SiblingIs
<1>2. /\ Shape(t, S, sub, Identity) /\ t \in Tree /\ d \in Side /\ q = t.kid[d][x] /\ Nil \notin S
      /\ S \subseteq Node /\ x \in Node /\ y \in Node /\ "red" \in Color /\ "black" \in Color
      /\ t.color[Nil] = "black"
  BY <1>1, KeyAssumption DEF Lacking, Shape, Divided, Cleared, Node, Color
<1>3. e \in Side /\ e # d /\ (\A c \in Side : c = d \/ c = e) /\ Other(e) = d
  BY <1>0, <1>2, Sides
<1>4. /\ f # Nil /\ f \in S /\ f # x /\ f # y /\ f # b /\ f \in Node /\ b \in Node /\ b # x /\ b # y
      /\ q # f
  <2>1. f # Nil
    BY <1>2
  <2>2. Parted(t, S, sub, x, d) /\ Parted(t, S, sub, x, e) /\ Parted(t, S, sub, y, d) /\ Parted(t, S, sub, y, e)
    BY <1>1, <1>2, <1>3, Below
  <2>3. /\ f \in Node /\ sub[f] \subseteq sub[y] /\ y \notin sub[f] /\ sub[b] \cap sub[f] = {}
        /\ f \in sub[f] /\ f \in S
    BY <1>0, <1>3, <2>1, <2>2, PartedIs
  <2>4. b \in Node /\ sub[b] \subseteq sub[y] /\ y \notin sub[b] /\ (b # Nil => b \in sub[b])
    BY <1>0, <1>3, <2>2, PartedIs
  <2>5. sub[y] \subseteq sub[x] /\ x \notin sub[y] /\ sub[q] \cap sub[y] = {} /\ (q # Nil => q \in sub[q])
    BY <1>0, <1>2, <1>3, <2>2, PartedIs
  <2>6. f # x /\ f # y
    BY <2>3, <2>5
  <2>7. b # x /\ b # y /\ f # b
    BY <1>1, <1>2, <2>1, <2>3, <2>4, <2>5
  <2>8. q # f
    BY <2>1, <2>3, <2>5
  <2> QED
    BY <2>1, <2>3, <2>4, <2>6, <2>7, <2>8
<1>5. Shape(t3, S, sub, Identity)
  <2>1. Divided(t3, S, sub, Identity) /\ Chained(t3, S)
    BY <1>0, <1>2 DEF Shape, Divided, Chained
  <2>2. Cleared(t3, S)
    <3>1. \A z \in Node \ S : t3.color[z] = t.color[z]
      BY <1>0, <1>1, <1>4
    <3>2. t3.parent = t.parent /\ t3.kid = t.kid /\ Cleared(t, S)
      BY <1>0, <1>2 DEF Shape
    <3> QED
      BY <3>1, <3>2 DEF Cleared
  <2> QED
    BY <1>0, <2>1, <2>2 DEF Shape
<1>6. Rotated(t3, x, d, r)
  <2>1. t3.kid[Other(d)][x] # Nil
    BY <1>0, <1>1
  <2> QED
    BY <1>1, <1>2, <1>5, <2>1, RotateIs
<1>7. Shape(r, S, sub2, Identity)
  <2>1. t3.kid[Other(d)][x] = y /\ t3.kid[d][y] = b
    BY <1>0
  <2>2. [sub EXCEPT ![y] = sub[x], ![x] = (sub[x] \ sub[y]) \cup sub[b]] = sub2
    OBVIOUS
  <2>3. x \in S /\ d \in Side /\ y # Nil
    BY <1>1, <1>2
  <2> HIDE DEF r, sub2
  <2> QED
    BY <1>5, <1>6, <2>1, <2>2, <2>3, RotateShapeIs
<1> HIDE DEF sub2
<1>8. /\ r.ok = t.ok
      /\ r.root = IF t.root = x THEN y ELSE t.root
      /\ \A z \in Node : r.color[z] = IF z = y THEN t.color[x] ELSE IF z = x THEN "black"
                                      ELSE IF z = f THEN "black" ELSE t.color[z]
      /\ \A c \in Side, z \in Node :
           r.kid[c][z] = IF c = e /\ z = x THEN b ELSE IF c = d /\ z = y THEN x
                         ELSE IF t.kid[c][z] = x THEN y ELSE t.kid[c][z]
  <2>1. t3.kid[Other(d)][x] = y /\ t3.kid[d][y] = b
    BY <1>0
  <2>2. /\ r \in Tree /\ r.color = t3.color /\ r.ok = t3.ok
        /\ r.root = IF t3.root = x THEN y ELSE t3.root
        /\ \A c \in Side, z \in Node :
             r.kid[c][z] = IF c = Other(d) /\ z = x THEN b ELSE IF c = d /\ z = y THEN x
                           ELSE IF t3.kid[c][z] = x THEN y ELSE t3.kid[c][z]
    BY <1>6, <2>1, RotatedFields
  <2> HIDE DEF r
  <2> QED
    BY <1>0, <2>2
<1> HIDE DEF r
<1>9. /\ bh2 \in [Node -> Nat] /\ bh2[y] = bh[x] /\ bh2[x] = bh[y] /\ bh2[f] = bh[f] + 1
      /\ \A z \in Node : z # x /\ z # y /\ z # f => bh2[z] = bh[z]
  <2>1. bh \in [Node -> Nat]
    BY DEF Lacking
  <2>2. x \in Node /\ y \in Node /\ f \in Node /\ x # y /\ f # x /\ f # y
    BY <1>1, <1>2, <1>4
  <2>3. bh2 = [bh EXCEPT ![y] = bh[x], ![x] = bh[y], ![f] = bh[f] + 1]
    OBVIOUS
  <2> HIDE DEF bh2
  <2> QED
    BY <2>1, <2>2, <2>3, TurnedHeights
<1> HIDE DEF bh2
<1>10. \A z \in S, c \in Side :
         /\ t.kid[c][z] \in Node /\ bh[t.kid[c][z]] \in Nat /\ bh[z] \in Nat
         /\ bh[z] = bh[t.kid[c][z]] + Blk(t, z) + Lack(z, c, x, d)
  <2>1. \A z \in S, c \in Side : t.kid[c][z] \in Node
    BY <1>2, Below DEF Parted
  <2> QED
    BY <1>2, <2>1 DEF Lacking
<1>11. bh[y] = bh[b] + 1 /\ bh[y] = bh[f] + 1 /\ bh[b] \in Nat /\ bh[f] \in Nat
  <2>1. Blk(t, y) = 1 /\ Lack(y, d, x, d) = 0 /\ Lack(y, e, x, d) = 0
    BY <1>1, <1>3 DEF Blk, Lack
  <2>2. bh[y] = bh[b] + 1 + 0 /\ bh[y] = bh[f] + 1 + 0 /\ bh[b] \in Nat /\ bh[f] \in Nat
    BY <1>0, <1>1, <1>2, <1>3, <1>10, <2>1
  <2> QED
    BY <2>2
<1>12. Even(r, S, bh2)
  <2>1. bh2[Nil] = 0
    BY <1>1, <1>2, <1>4, <1>9 DEF Lacking, Node
  <2>2. ASSUME NEW z \in S, NEW c \in Side PROVE bh2[z] = bh2[r.kid[c][z]] + Blk(r, z)
    <3>0. z \in Node
      BY <1>2
    <3>1. CASE z = x
      <4>1. Blk(r, z) = 1
        BY <1>1, <1>8, <3>0, <3>1 DEF Blk
      <4>2. c = d => r.kid[c][z] = q /\ bh2[q] = bh[q]
        <5>1. t.kid[d][x] = q /\ q # x /\ x # y /\ d # e
          BY <1>1, <1>2, <1>3
        <5>2. c = d => r.kid[c][z] = q
          BY <1>8, <3>0, <3>1, <5>1
        <5>3. bh2[q] = bh[q]
          BY <1>1, <1>4, <1>9
        <5> QED
          BY <5>2, <5>3
      <4>3. c = e => r.kid[c][z] = b /\ bh2[b] = bh[b]
        BY <1>4, <1>8, <1>9, <3>0, <3>1
      <4> QED
        BY <1>1, <1>3, <1>9, <1>11, <3>1, <4>1, <4>2, <4>3
    <3>2. CASE z = y
      <4>1. Blk(r, z) = Blk(t, x) /\ Blk(t, x) \in Nat
        BY <1>8, <3>0, <3>2 DEF Blk
      <4>2. c = d => r.kid[c][z] = x
        BY <1>1, <1>3, <1>8, <3>0, <3>2
      <4>3. c = e => r.kid[c][z] = f
        BY <1>0, <1>1, <1>3, <1>4, <1>8, <3>0, <3>2
      <4> QED
        BY <1>1, <1>3, <1>9, <1>11, <3>2, <4>1, <4>2, <4>3
    <3>3. CASE z = f
      <4>1. Blk(r, z) = 1 /\ Blk(t, z) = 0 /\ Lack(z, c, x, d) = 0
        BY <1>4, <1>8, <3>0, <3>3 DEF Blk, Lack
      <4>2. t.kid[c][z] # x /\ t.kid[c][z] # y /\ t.kid[c][z] # f
        <5>1. Parted(t, S, sub, f, c) /\ Parted(t, S, sub, x, e) /\ Parted(t, S, sub, y, e)
          BY <1>1, <1>2, <1>3, <1>4, Below
        <5>2. sub[f] \subseteq sub[y] /\ sub[y] \subseteq sub[x] /\ x \notin sub[y] /\ y \notin sub[f]
          BY <1>0, <1>3, <5>1, PartedIs
        <5>3. t.kid[c][f] # Nil => t.kid[c][f] \in sub[f] /\ t.kid[c][f] # f
          BY <5>1 DEF Parted
        <5> QED
          BY <1>1, <1>4, <3>3, <5>2, <5>3
      <4>3. r.kid[c][z] = t.kid[c][z] /\ bh2[t.kid[c][z]] = bh[t.kid[c][z]]
        BY <1>4, <1>8, <1>9, <1>10, <3>0, <3>3, <4>2
      <4>4. bh[f] = bh[t.kid[c][f]] + 0 + 0 /\ bh[t.kid[c][f]] \in Nat
        BY <1>10, <3>3, <4>1
      <4>5. bh2[f] = bh[f] + 1
        BY <1>9
      <4>6. bh[f] = bh[t.kid[c][f]]
        BY <4>4
      <4>7. bh2[r.kid[c][f]] = bh[t.kid[c][f]]
        BY <3>3, <4>3
      <4>8. Blk(r, f) = 1
        BY <3>3, <4>1
      <4>9. bh2[f] = bh2[r.kid[c][f]] + Blk(r, f)
        BY <4>5, <4>6, <4>7, <4>8
      <4> QED
        BY <3>3, <4>9
    <3>4. CASE z # x /\ z # y /\ z # f
      <4>1. Blk(r, z) = Blk(t, z) /\ bh2[z] = bh[z] /\ Lack(z, c, x, d) = 0 /\ Blk(t, z) \in Nat
        BY <1>8, <1>9, <3>0, <3>4 DEF Blk, Lack
      <4>2. t.kid[c][z] # y /\ t.kid[c][z] # f
        BY <1>0, <1>1, <1>2, <1>3, <1>4, <3>0, <3>4, OneParent
      <4>3. bh2[r.kid[c][z]] = bh[t.kid[c][z]]
        BY <1>8, <1>9, <1>10, <3>0, <3>4, <4>2
      <4> QED
        BY <1>10, <4>1, <4>3
    <3> QED
      BY <3>1, <3>2, <3>3, <3>4
  <2> QED
    BY <1>9, <2>1, <2>2 DEF Even
<1>13. \A z \in S, c \in Side : ~(t.color[z] = "red" /\ t.color[t.kid[c][z]] = "red")
  BY <1>2, NoRedPair DEF Lacking
<1>14. RedApart(r, S, Nil)
  <2> SUFFICES ASSUME NEW z \in S, NEW c \in Side, r.color[z] = "red", r.color[r.kid[c][z]] = "red"
               PROVE  FALSE
    BY DEF RedApart
  <2>0. z \in Node /\ z # x /\ z # f
    BY <1>1, <1>2, <1>4, <1>8
  <2>1. CASE z = y
    <3>1. c = d => r.kid[c][z] = x
      BY <1>1, <1>3, <1>8, <2>0, <2>1
    <3>2. c = e => r.kid[c][z] = f
      BY <1>0, <1>1, <1>3, <1>4, <1>8, <2>0, <2>1
    <3>3. r.color[x] = "black" /\ r.color[f] = "black"
      BY <1>1, <1>2, <1>4, <1>8
    <3> QED
      BY <1>3, <3>1, <3>2, <3>3
  <2>2. CASE z # y
    <3>1. t.color[z] = "red" /\ t.kid[c][z] \in Node
      BY <1>8, <1>10, <2>0, <2>2
    <3>2. t.kid[c][z] # y
      BY <1>0, <1>1, <1>2, <1>3, <2>0, <2>2, OneParent
    <3>3. CASE t.kid[c][z] = x
      <4>1. r.kid[c][z] = y /\ r.color[y] = t.color[x]
        BY <1>2, <1>8, <2>0, <2>2, <3>3
      <4> QED
        BY <1>13, <3>1, <3>3, <4>1
    <3>4. CASE t.kid[c][z] # x
      <4>1. r.kid[c][z] = t.kid[c][z]
        BY <1>8, <2>0, <2>2, <3>4
      <4>2. t.color[t.kid[c][z]] = "red"
        BY <1>8, <3>1, <3>2, <3>4, <4>1
      <4> QED
        BY <1>13, <3>1, <4>2
    <3> QED
      BY <3>3, <3>4
  <2> QED
    BY <2>1, <2>2
<1>15. r.color[r.root] = "black"
  <2>1. t.root \in Node /\ t.color[t.root] = "black" /\ t.root # y
    <3>1. t.root # y
      BY <1>0, <1>1, <1>2, <1>3, OneParent
    <3> QED
      BY <1>2, <3>1, TreeType DEF Lacking
  <2> QED
    BY <1>1, <1>2, <1>8, <2>1
<1>16. Sound(r, S, sub2, bh2)
  <2>1. r.ok
    BY <1>8 DEF Lacking
  <2> QED
    BY <1>7, <1>12, <1>14, <1>15, <2>1 DEF Sound
<1> QED
  BY <1>16 DEF RedBlackTree, r

\* The two rotations of Rebalance.
LEMMA RebalanceParts ==
  ASSUME NEW t, NEW x, NEW p, NEW s, NEW d, SideOf(t, p, x) = d,
         NEW near, t.kid[d][s] = near, NEW far, t.kid[Other(d)][s] = far
  PROVE  Rebalance(t, x, p, s) =
           IF t.color[s] = "black" /\ t.color[near] = "red" /\ t.color[far] = "black" /\ t.kid[d][p] = x
           THEN Lastly(Straight(t, s, d, near), p, d) ELSE Lastly(Assert(t, s # Nil), p, d)
BY DEF Rebalance

\* The last rotation, when the far child of the sibling is red.
LEMMA LastlySound ==
  ASSUME NEW t1, NEW S, NEW sub, NEW bh, NEW q, NEW x, NEW d, Lacking(t1, S, sub, bh, q, x, d), x # Nil,
         NEW s, t1.kid[Other(d)][x] = s, t1.color[s] = "black",
         NEW f, t1.kid[Other(d)][s] = f, t1.color[f] = "red"
  PROVE  RedBlackTree(Lastly(t1, x, d), S)
<1> DEFINE e == Other(d)
           ta == Paint(t1, s, t1.color[x])
           t2 == Paint(ta, x, "black")
           t3 == Assert(t2, t2.color[t2.kid[e][s]] = "red")
           t4 == Paint(t3, t3.kid[e][s], "black")
<1>1. x \in S /\ s \in S /\ s # x
  BY SiblingIs
<1>2. /\ Shape(t1, S, sub, Identity) /\ t1 \in Tree /\ d \in Side /\ Nil \notin S
      /\ S \subseteq Node /\ x \in Node /\ s \in Node /\ "red" \in Color /\ "black" \in Color
  BY <1>1, KeyAssumption DEF Lacking, Shape, Divided, Node, Color
<1>3. e \in Side /\ e # d
  BY <1>2, Sides
<1>4. Lastly(t1, x, d) = Rotate(t4, x, d)
  BY DEF Lastly
<1>10. t1.color[s] = "black" /\ t1.color[f] = "red"
  OBVIOUS
<1>11. /\ s = t1.kid[e][x] /\ s \in S /\ s # x /\ f = t1.kid[e][s] /\ t1 \in Tree /\ s \in Node
       /\ f \in Node
  BY <1>1, <1>2, <1>3, TreeType
<1>12. t1.color[x] \in Color
  BY <1>2, <1>11, TreeType
<1>13. Painted(t1, s, t1.color[x], ta)
  BY <1>11, <1>12, PaintIs
<1>14. Painted(ta, x, "black", t2)
  <2>1. ta \in Tree
    BY <1>13 DEF Painted
  <2> HIDE DEF ta
  <2>2. Painted(ta, x, "black", Paint(ta, x, "black"))
    BY <1>2, <2>1, PaintIs
  <2> QED
    BY <2>2 DEF ta
<1> HIDE DEF ta, t2
<1>15. f # s /\ f # x
  <2>1. Parted(t1, S, sub, x, e) /\ Parted(t1, S, sub, s, e)
    BY <1>1, <1>2, <1>3, Below
  <2>2. f # Nil
    <3>1. t1.color[Nil] = "black"
      BY <1>2 DEF Shape, Cleared, Divided, Node
    <3> QED
      BY <1>10, <3>1
  <2> QED
    BY <1>11, <2>1, <2>2 DEF Parted
<1>16. t2.kid = t1.kid /\ t2.kid[e][s] = f /\ t2.color[f] = "red" /\ t2 \in Tree
  BY <1>10, <1>11, <1>13, <1>14, <1>15 DEF Painted
<1>17. Asserted(t2, TRUE, t3)
  <2>1. (t2.color[t2.kid[e][s]] = "red") = TRUE
    BY <1>16
  <2>2. t3 = Assert(t2, TRUE)
    BY <2>1
  <2> HIDE DEF t3
  <2> QED
    BY <1>16, <2>2, AssertIs
<1> HIDE DEF t3
<1>18. Painted(t3, f, "black", t4)
  <2>1. t3.kid[e][s] = f /\ t3 \in Tree
    BY <1>16, <1>17 DEF Asserted
  <2>2. t4 = Paint(t3, f, "black")
    BY <2>1
  <2> HIDE DEF t4
  <2> QED
    BY <1>2, <1>11, <2>1, <2>2, PaintIs
<1> HIDE DEF t4
<1>19. /\ t4 \in Tree /\ t4.root = t1.root /\ t4.parent = t1.parent /\ t4.kid = t1.kid /\ t4.ok = t1.ok
       /\ \A z \in Node : t4.color[z] = IF z = s THEN t1.color[x] ELSE IF z = x THEN "black"
                                        ELSE IF z = f THEN "black" ELSE t1.color[z]
  <2>1. t1.ok \in BOOLEAN /\ t2.ok \in BOOLEAN /\ t3.ok \in BOOLEAN
    BY <1>11, <1>16, <1>17, TreeType DEF Asserted
  <2>2. t4.ok = t1.ok
    BY <2>1, <1>13, <1>14, <1>17, <1>18 DEF Painted, Asserted
  <2> QED
    BY <1>11, <1>13, <1>14, <1>15, <1>17, <1>18, <2>2 DEF Painted, Asserted
<1>20. Repainted(t1, x, s, f, t4)
  BY <1>19 DEF Repainted
<1>21. RedBlackTree(Rotate(t4, x, d), S)
  BY <1>20, LastTurn
<1> QED
  BY <1>4, <1>21

\* The near child of the sibling y is red, the far one black: the sibling is
\* rotated below the near one first.
LEMMA StraightSound ==
  ASSUME NEW t, NEW S, NEW sub, NEW bh, NEW q, NEW x, NEW d, Lacking(t, S, sub, bh, q, x, d), x # Nil,
         NEW y, t.kid[Other(d)][x] = y, t.color[y] = "black",
         NEW near, t.kid[d][y] = near, t.color[near] = "red", t.color[t.kid[Other(d)][y]] = "black",
         NEW r, Straight(t, y, d, near) = r
  PROVE  /\ \E sub1, bh1 : Lacking(r, S, sub1, bh1, q, x, d)
         /\ r.kid[Other(d)][x] = near /\ r.color[near] = "black" /\ r.color[r.kid[Other(d)][near]] = "red"
<1> DEFINE e == Other(d)
           far == t.kid[e][y]
<1>1. /\ x \in S /\ y # Nil /\ y \in S /\ y # x /\ q # x
  BY SiblingIs
<1>2. /\ Shape(t, S, sub, Identity) /\ t \in Tree /\ t.ok /\ d \in Side /\ q = t.kid[d][x] /\ Nil \notin S
      /\ S \subseteq Node /\ x \in Node /\ y \in Node
  BY <1>1, KeyAssumption DEF Lacking, Shape, Divided, Node
<1>3. e \in Side /\ e # d /\ Other(e) = d
  BY <1>2, Sides
<1>4. Rotate(Paint(Paint(t, y, "red"), near, "black"), y, e) = r
  <2>1. t.ok /\ y # Nil <=> t.ok
    BY <1>1
  <2>2. Assert(t, y # Nil) = t
    BY <1>1, <1>2 DEF Assert, Tree
  <2> QED
    BY <2>2 DEF Straight
<1>5. near \in Node /\ near # Nil /\ near # x /\ near # y /\ near # far /\ far # x /\ far # y
  <2>1. Parted(t, S, sub, x, e) /\ Parted(t, S, sub, y, d) /\ Parted(t, S, sub, y, e)
    BY <1>1, <1>2, <1>3, Below
  <2>2. t.color[Nil] = "black"
    BY <1>2 DEF Shape, Cleared, Divided, Node
  <2>3. near # Nil
    BY <2>2
  <2>4. near \in Node /\ near \in sub[near] /\ sub[near] \subseteq sub[y] /\ sub[near] \cap sub[far] = {}
        /\ y \notin sub[near] /\ y \notin sub[far]
    BY <1>3, <2>1, <2>3 DEF Parted
  <2>5. sub[y] \subseteq sub[x] /\ x \notin sub[y] /\ sub[far] \subseteq sub[y]
        /\ (far # Nil => far \in sub[far])
    BY <1>3, <2>1 DEF Parted
  <2>6. far # x /\ far # y
    BY <1>1, <1>2, <2>4, <2>5
  <2> HIDE DEF far
  <2> QED
    BY <2>3, <2>4, <2>5, <2>6
<1>6. t.kid[Other(e)][y] = near /\ t.color[t.kid[e][y]] = "black"
  BY <1>3
<1>7. (\E sub2, bh2 : Lacking(r, S, sub2, bh2, q, x, d)) /\ Turned(t, y, near, e, r)
  <2>1. y \in S /\ e \in Side /\ near # x /\ y # x /\ q # y /\ x # Nil
    BY <1>1, <1>3, <1>5, SiblingIs
  <2>2. t.color[y] = "black" /\ t.color[near] = "red"
    OBVIOUS
  <2> HIDE DEF e
  <2> QED
    BY <1>4, <1>6, <2>1, <2>2, RedUp
<1>8. r.kid[e][x] = near
  <2>1. t.kid[e][x] = y
    OBVIOUS
  <2> QED
    BY <1>1, <1>2, <1>3, <1>5, <1>7, <2>1 DEF Turned
<1>9. r.color[near] = "black" /\ r.color[y] = "red" /\ r.kid[e][near] = y
  BY <1>2, <1>3, <1>5, <1>7 DEF Turned
<1> QED
  BY <1>7, <1>8, <1>9

\* One rotation or two, as the children of the sibling y are colored.
LEMMA RebalanceIs ==
  ASSUME NEW t, NEW S, NEW sub, NEW bh, NEW q, NEW x, NEW d, Lacking(t, S, sub, bh, q, x, d), x # Nil,
         NEW y, t.kid[Other(d)][x] = y, t.color[y] = "black", ~AllBlack(t, y)
  PROVE  RedBlackTree(Rebalance(t, q, x, y), S)
<1> DEFINE e == Other(d)
           near == t.kid[d][y]
           far == t.kid[e][y]
           turn == t.color[y] = "black" /\ t.color[near] = "red" /\ t.color[far] = "black"
                   /\ t.kid[d][x] = q
           t0 == Assert(t, y # Nil)
           t1 == IF turn THEN Straight(t, y, d, near) ELSE t0
           s == t1.kid[e][x]
<1>1. /\ x \in S /\ SideOf(t, x, q) = d /\ y # Nil /\ y \in S /\ y # x /\ q # x /\ y # q /\ q \in Node
  BY SiblingIs
<1>2. /\ Shape(t, S, sub, Identity) /\ t \in Tree /\ d \in Side /\ q = t.kid[d][x] /\ Nil \notin S
      /\ S \subseteq Node /\ x \in Node /\ y \in Node /\ "red" \in Color /\ "black" \in Color
  BY <1>1, KeyAssumption DEF Lacking, Shape, Divided, Node, Color
<1>3. e \in Side /\ e # d /\ (\A c \in Side : c = d \/ c = e) /\ Other(e) = d
  BY <1>2, Sides
<1>4. Rebalance(t, q, x, y) = Lastly(t1, x, d)
  <2>1. Rebalance(t, q, x, y) = IF turn THEN Lastly(Straight(t, y, d, near), x, d) ELSE Lastly(t0, x, d)
    BY <1>1, RebalanceParts
  <2> QED
    BY <2>1
<1>5. t0 = t
  <2>1. t.ok
    BY DEF Lacking
  <2>2. t.ok /\ y # Nil <=> t.ok
    BY <1>1
  <2> QED
    BY <1>1, <1>2, <2>1 DEF Assert, Tree
<1>6. near \in Node /\ far \in Node /\ t.color[near] \in {"red", "black"} /\ t.color[far] \in {"red", "black"}
  BY <1>2, <1>3, TreeType DEF Color
<1>7. (turn => t.color[near] = "red" /\ t.color[far] = "black") /\ (~turn => t.color[far] = "red")
  <2>1. t.color[near] = "red" \/ t.color[far] = "red"
    <3>1. PICK z \in {y, t.kid["l"][y], t.kid["r"][y]} : t.color[z] # "black"
      BY DEF AllBlack
    <3>2. z = near \/ z = far
      <4>1. "l" \in Side /\ "r" \in Side
        BY DEF Side
      <4>2. z = t.kid["l"][y] \/ z = t.kid["r"][y]
        BY <3>1
      <4> QED
        BY <1>3, <4>1, <4>2
    <3> QED
      BY <1>6, <3>1, <3>2
  <2> QED
    BY <1>2, <1>6, <2>1
<1>8. \E sub1, bh1 : Lacking(t1, S, sub1, bh1, q, x, d)
                     /\ t1.color[s] = "black" /\ t1.color[t1.kid[e][s]] = "red"
  <2>1. CASE turn
    <3>1. Straight(t, y, d, near) = t1
      BY <2>1
    <3>2. t.color[near] = "red" /\ t.color[t.kid[Other(d)][y]] = "black"
      BY <2>1
    <3> HIDE DEF t1, near
    <3>3. t.kid[d][y] = near
      BY DEF near
    <3> QED
      BY <3>1, <3>2, <3>3, StraightSound
  <2>2. CASE ~turn
    <3>1. t1 = t
      BY <1>5, <2>2
    <3>2. t.color[far] = "red" /\ s = y
      BY <1>7, <2>2, <3>1
    <3> HIDE DEF t1
    <3>3. t1.color[s] = "black" /\ t1.color[t1.kid[e][s]] = "red"
      BY <3>1, <3>2
    <3> QED
      BY <3>1, <3>3
  <2> QED
    BY <2>1, <2>2
<1> HIDE DEF t1
<1>9. PICK sub1, bh1 : Lacking(t1, S, sub1, bh1, q, x, d)
  BY <1>8
<1>10. s = t1.kid[Other(d)][x] /\ t1.color[s] = "black" /\ t1.color[t1.kid[Other(d)][s]] = "red"
  BY <1>8
<1>11. RedBlackTree(Lastly(t1, x, d), S)
  BY <1>9, <1>10, LastlySound
<1> QED
  BY <1>4, <1>11

-----------------------------------------------------------------------------
(* The unlinked node.                                                      *)

\* The fields of node w cleared, as at the end of rbtree_delete.
Wipe(t, w) ==
  Paint(SetParent(SetKid(SetKid(t, "l", w, Nil), "r", w, Nil), w, Nil), w, "black")

Wiped(t, w, r) ==
  /\ r \in Tree /\ r.root = t.root /\ r.ok = t.ok
  /\ \A z \in Node : /\ r.parent[z] = IF z = w THEN Nil ELSE t.parent[z]
                     /\ r.color[z] = IF z = w THEN "black" ELSE t.color[z]
  /\ \A c \in Side, z \in Node : r.kid[c][z] = IF z = w THEN Nil ELSE t.kid[c][z]

LEMMA WipeIs ==
  ASSUME NEW t \in Tree, NEW w \in Node
  PROVE  Wiped(t, w, Wipe(t, w))
<1> DEFINE t1 == SetKid(t, "l", w, Nil)
           t2 == SetKid(t1, "r", w, Nil)
           t3 == SetParent(t2, w, Nil)
           t4 == Paint(t3, w, "black")
<1>1. "l" \in Side /\ "r" \in Side /\ Nil \in Node /\ "black" \in Color /\ \A c \in Side : c = "l" \/ c = "r"
  BY DEF Side, Node, Color
<1>2. KidSet(t, "l", w, Nil, t1)
  BY <1>1, SetKidIs
<1> HIDE DEF t1
<1>3. KidSet(t1, "r", w, Nil, t2)
  BY <1>1, <1>2, SetKidIs DEF KidSet
<1> HIDE DEF t2
<1>4. ParentSet(t2, w, Nil, t3)
  BY <1>1, <1>3, SetParentIs DEF KidSet
<1> HIDE DEF t3
<1>5. Painted(t3, w, "black", t4)
  BY <1>1, <1>4, PaintIs DEF ParentSet
<1>6. Wipe(t, w) = t4
  BY DEF Wipe, t1, t2, t3
<1> HIDE DEF t4
<1> QED
  BY <1>1, <1>2, <1>3, <1>4, <1>5, <1>6 DEF KidSet, ParentSet, Painted, Wiped

\* Trees with the same fields are the same.
LEMMA SameTree ==
  ASSUME NEW t \in Tree, NEW u \in Tree, t.root = u.root, t.ok = u.ok,
         \A z \in Node : t.parent[z] = u.parent[z] /\ t.color[z] = u.color[z],
         \A c \in Side, z \in Node : t.kid[c][z] = u.kid[c][z]
  PROVE  t = u
<1>1. t.parent = u.parent
  BY DEF Tree
<1>2. t.color = u.color
  BY DEF Tree
<1>3. t.kid = u.kid
  <2>1. \A c \in Side : t.kid[c] \in [Node -> Node] /\ u.kid[c] \in [Node -> Node]
    BY DEF Tree
  <2>2. \A c \in Side : t.kid[c] = u.kid[c]
    BY <2>1
  <2> QED
    BY <2>2 DEF Tree
<1> QED
  BY <1>1, <1>2, <1>3 DEF Tree

\* No other node has a link to w.
Beside(t, w) ==
  /\ t \in Tree /\ w \in Node /\ w # Nil
  /\ \A z \in Node \ {w} : t.parent[z] # w /\ \A c \in Side : t.kid[c][z] # w

\* What is done to the other nodes does not depend on the fields of w.
Aside(t, w, u, r) == Beside(r, w) /\ Wipe(r, w) = u

LEMMA AsidePaint ==
  ASSUME NEW t, NEW w, Beside(t, w), NEW z \in Node \ {w}, NEW col \in Color
  PROVE  Aside(t, w, Paint(Wipe(t, w), z, col), Paint(t, z, col))
<1> DEFINE r == Paint(t, z, col)
           v == Wipe(t, w)
           u == Paint(v, z, col)
           rw == Wipe(r, w)
<1>0. t \in Tree /\ w \in Node
  BY DEF Beside
<1>1. Wiped(t, w, v)
  BY <1>0, WipeIs
<1> HIDE DEF v
<1>2. Painted(t, z, col, r) /\ Painted(v, z, col, u)
  BY <1>0, <1>1, PaintIs DEF Wiped
<1> HIDE DEF r, u
<1>3. Wiped(r, w, rw)
  BY <1>0, <1>2, WipeIs DEF Painted
<1> HIDE DEF rw
<1>4. rw = u
  <2>1. rw \in Tree /\ u \in Tree
    BY <1>2, <1>3 DEF Painted, Wiped
  <2>2. rw.root = u.root /\ rw.ok = u.ok
    BY <1>1, <1>2, <1>3 DEF Painted, Wiped
  <2>3. \A y \in Node : rw.parent[y] = u.parent[y] /\ rw.color[y] = u.color[y]
    BY <1>1, <1>2, <1>3 DEF Painted, Wiped
  <2>4. \A c \in Side, y \in Node : rw.kid[c][y] = u.kid[c][y]
    BY <1>1, <1>2, <1>3 DEF Painted, Wiped
  <2> QED
    BY <2>1, <2>2, <2>3, <2>4, SameTree
<1>5. Beside(r, w)
  BY <1>2 DEF Beside, Painted
<1> QED
  BY <1>4, <1>5 DEF Aside, r, u, rw, v

LEMMA AsideAssert ==
  ASSUME NEW t, NEW w, Beside(t, w), NEW cond \in BOOLEAN
  PROVE  Aside(t, w, Assert(Wipe(t, w), cond), Assert(t, cond))
<1> DEFINE r == Assert(t, cond)
           v == Wipe(t, w)
           u == Assert(v, cond)
           rw == Wipe(r, w)
<1>0. t \in Tree /\ w \in Node
  BY DEF Beside
<1>1. Wiped(t, w, v)
  BY <1>0, WipeIs
<1> HIDE DEF v
<1>2. Asserted(t, cond, r) /\ Asserted(v, cond, u)
  BY <1>0, <1>1, AssertIs DEF Wiped
<1> HIDE DEF r, u
<1>3. Wiped(r, w, rw)
  BY <1>0, <1>2, WipeIs DEF Asserted
<1> HIDE DEF rw
<1>4. rw = u
  <2>1. rw \in Tree /\ u \in Tree /\ r \in Tree
    BY <1>2, <1>3 DEF Asserted, Wiped
  <2>2. rw.root = u.root /\ rw.ok = u.ok
    <3>1. rw.ok \in BOOLEAN /\ u.ok \in BOOLEAN /\ r.ok \in BOOLEAN
      BY <2>1, TreeType
    <3> QED
      BY <1>1, <1>2, <1>3, <3>1 DEF Asserted, Wiped
  <2>3. \A y \in Node : rw.parent[y] = u.parent[y] /\ rw.color[y] = u.color[y]
    BY <1>1, <1>2, <1>3 DEF Asserted, Wiped
  <2>4. \A c \in Side, y \in Node : rw.kid[c][y] = u.kid[c][y]
    BY <1>1, <1>2, <1>3 DEF Asserted, Wiped
  <2> QED
    BY <2>1, <2>2, <2>3, <2>4, SameTree
<1>5. Beside(r, w)
  BY <1>2 DEF Beside, Asserted
<1> QED
  BY <1>4, <1>5 DEF Aside, r, u, rw, v

LEMMA AsideRotate ==
  ASSUME NEW t, NEW w, Beside(t, w), NEW x \in Node \ {w}, NEW d \in Side
  PROVE  Aside(t, w, Rotate(Wipe(t, w), x, d), Rotate(t, x, d))
<1> DEFINE r == Rotate(t, x, d)
           v == Wipe(t, w)
           u == Rotate(v, x, d)
           rw == Wipe(r, w)
           e == Other(d)
           y == t.kid[e][x]
           b == t.kid[d][y]
           p == t.parent[x]
           g == IF x = (IF d = e /\ p = x THEN b ELSE t.kid[d][p]) THEN d ELSE e
<1>0. t \in Tree /\ w \in Node /\ e \in Side /\ w # Nil /\ e # d
  BY Sides DEF Beside
<1>1. Wiped(t, w, v)
  BY <1>0, WipeIs
<1> HIDE DEF v
<1>2. y \in Node /\ y # w /\ b \in Node /\ b # w /\ p \in Node /\ p # w /\ x # w /\ g \in Side
  <2>1. y \in Node /\ y # w /\ p \in Node /\ p # w
    BY <1>0, TreeType DEF Beside
  <2> HIDE DEF y, p
  <2>2. b \in Node /\ b # w
    BY <1>0, <2>1, TreeType DEF Beside
  <2> QED
    BY <1>0, <2>1, <2>2
<1>3. v.kid[e][x] = y /\ v.kid[d][y] = b /\ v.parent[x] = p /\ v.kid[d][p] = t.kid[d][p]
  <2> HIDE DEF y, b, p
  <2>1. v.kid[e][x] = y /\ v.parent[x] = p
    BY <1>0, <1>1, <1>2 DEF Wiped, y, p
  <2> QED
    BY <1>0, <1>1, <1>2, <2>1 DEF Wiped, b
<1>4. Assigned(t, x, d, r) /\ Assigned(v, x, d, u)
  BY <1>0, <1>1, RotateFields DEF Wiped
<1> HIDE DEF r, u
<1>5. /\ r \in Tree /\ r.color = t.color /\ r.ok = t.ok
      /\ r.root = IF p = Nil THEN y ELSE t.root
      /\ \A z \in Node : r.parent[z] = IF z = x THEN y ELSE IF z = y THEN p
                                       ELSE IF z = b /\ b # Nil THEN x ELSE t.parent[z]
      /\ \A c \in Side, z \in Node :
           r.kid[c][z] = IF c = d /\ z = y THEN x
                         ELSE IF p # Nil /\ c = g /\ z = p THEN y
                         ELSE IF c = e /\ z = x THEN b ELSE t.kid[c][z]
  BY <1>4 DEF Assigned
<1>6. /\ u \in Tree /\ u.color = v.color /\ u.ok = v.ok
      /\ u.root = IF p = Nil THEN y ELSE v.root
      /\ \A z \in Node : u.parent[z] = IF z = x THEN y ELSE IF z = y THEN p
                                       ELSE IF z = b /\ b # Nil THEN x ELSE v.parent[z]
      /\ \A c \in Side, z \in Node :
           u.kid[c][z] = IF c = d /\ z = y THEN x
                         ELSE IF p # Nil /\ c = g /\ z = p THEN y
                         ELSE IF c = e /\ z = x THEN b ELSE v.kid[c][z]
  <2> HIDE DEF y, b, p
  <2>1. g = IF x = (IF d = e /\ p = x THEN b ELSE v.kid[d][p]) THEN d ELSE e
    BY <1>3
  <2> HIDE DEF g, e
  <2> QED
    BY <1>3, <1>4, <2>1 DEF Assigned, e
<1> HIDE DEF g, e, y, b, p
<1>7. Wiped(r, w, rw)
  BY <1>0, <1>5, WipeIs
<1> HIDE DEF rw
<1>8. rw = u
  <2>1. rw \in Tree /\ u \in Tree
    BY <1>6, <1>7 DEF Wiped
  <2>2. rw.root = u.root /\ rw.ok = u.ok
    BY <1>1, <1>5, <1>6, <1>7 DEF Wiped
  <2>3. \A z \in Node : rw.parent[z] = u.parent[z] /\ rw.color[z] = u.color[z]
    BY <1>1, <1>2, <1>5, <1>6, <1>7 DEF Wiped
  <2>4. \A c \in Side, z \in Node : rw.kid[c][z] = u.kid[c][z]
    BY <1>1, <1>2, <1>5, <1>6, <1>7 DEF Wiped
  <2> QED
    BY <2>1, <2>2, <2>3, <2>4, SameTree
<1>9. Beside(r, w)
  <2>1. \A z \in Node \ {w} : r.parent[z] # w /\ \A c \in Side : r.kid[c][z] # w
    BY <1>2, <1>5 DEF Beside
  <2> QED
    BY <1>0, <1>5, <2>1 DEF Beside
<1> QED
  BY <1>8, <1>9 DEF Aside, r, u, rw, v

\* A node that is beside w, and what is read of it.
LEMMA WipeReads ==
  ASSUME NEW t, NEW w, Beside(t, w), NEW z \in Node \ {w}
  PROVE  /\ Wipe(t, w) \in Tree
         /\ Wipe(t, w).color[z] = t.color[z] /\ t.color[z] \in Color
         /\ Wipe(t, w).parent[z] = t.parent[z] /\ t.parent[z] \in Node \ {w}
         /\ \A c \in Side : Wipe(t, w).kid[c][z] = t.kid[c][z] /\ t.kid[c][z] \in Node \ {w}
<1>1. t \in Tree /\ w \in Node
  BY DEF Beside
<1>2. Wiped(t, w, Wipe(t, w))
  BY <1>1, WipeIs
<1>3. Wipe(t, w) \in Tree /\ Wipe(t, w).color[z] = t.color[z] /\ Wipe(t, w).parent[z] = t.parent[z]
      /\ \A c \in Side : Wipe(t, w).kid[c][z] = t.kid[c][z]
  BY <1>2 DEF Wiped
<1>4. t.color[z] \in Color /\ t.parent[z] \in Node /\ \A c \in Side : t.kid[c][z] \in Node
  BY <1>1, TreeType
<1>5. t.parent[z] # w /\ \A c \in Side : t.kid[c][z] # w
  BY DEF Beside
<1> QED
  BY <1>3, <1>4, <1>5

\* Two paints, one after the other.
LEMMA AsidePaints ==
  ASSUME NEW t, NEW w, Beside(t, w), NEW y \in Node \ {w}, NEW z \in Node \ {w},
         NEW a \in Color, NEW b \in Color
  PROVE  Aside(t, w, Paint(Paint(Wipe(t, w), y, a), z, b), Paint(Paint(t, y, a), z, b))
<1> DEFINE r == Paint(t, y, a)
<1>1. Beside(r, w) /\ Wipe(r, w) = Paint(Wipe(t, w), y, a)
  BY AsidePaint DEF Aside
<1> HIDE DEF r
<1>2. Beside(Paint(r, z, b), w) /\ Wipe(Paint(r, z, b), w) = Paint(Wipe(r, w), z, b)
  BY <1>1, AsidePaint DEF Aside
<1> QED
  BY <1>1, <1>2 DEF Aside, r

\* Two paints and a rotation.
LEMMA AsideTurn ==
  ASSUME NEW t, NEW w, Beside(t, w), NEW y \in Node \ {w}, NEW z \in Node \ {w},
         NEW x \in Node \ {w}, NEW d \in Side
  PROVE  Aside(t, w, Rotate(Paint(Paint(Wipe(t, w), y, "red"), z, "black"), x, d),
                     Rotate(Paint(Paint(t, y, "red"), z, "black"), x, d))
<1> DEFINE r == Paint(Paint(t, y, "red"), z, "black")
<1>1. Beside(r, w) /\ Wipe(r, w) = Paint(Paint(Wipe(t, w), y, "red"), z, "black")
  BY AsidePaints DEF Aside, Color
<1> HIDE DEF r
<1>2. Beside(Rotate(r, x, d), w) /\ Wipe(Rotate(r, x, d), w) = Rotate(Wipe(r, w), x, d)
  BY <1>1, AsideRotate DEF Aside
<1> QED
  BY <1>1, <1>2 DEF Aside, r

\* The sibling is the same, and no node but w is w.
LEMMA AsideSibling ==
  ASSUME NEW t, NEW w, Beside(t, w), NEW p \in Node \ {w}, NEW x \in Node
  PROVE  /\ SideOf(t, p, x) \in Side /\ SideOf(Wipe(t, w), p, x) = SideOf(t, p, x)
         /\ Sibling(t, x, p) \in Node \ {w} /\ Sibling(Wipe(t, w), x, p) = Sibling(t, x, p)
<1>1. "r" \in Side /\ "l" \in Side
  BY DEF Side
<1>2. SideOf(t, p, x) \in Side /\ SideOf(Wipe(t, w), p, x) = SideOf(t, p, x)
  BY <1>1, WipeReads DEF SideOf
<1>3. Other(SideOf(t, p, x)) \in Side
  BY <1>2, Sides
<1> QED
  BY <1>2, <1>3, WipeReads DEF Sibling

LEMMA AsideBlackSibling ==
  ASSUME NEW t, NEW w, Beside(t, w), NEW p \in Node \ {w}, NEW x \in Node
  PROVE  Aside(t, w, BlackSibling(Wipe(t, w), x, p), BlackSibling(t, x, p))
<1> DEFINE u == Wipe(t, w)
           s == Sibling(t, x, p)
           d == SideOf(t, p, x)
<1>1. s \in Node \ {w} /\ d \in Side /\ Sibling(u, x, p) = s /\ SideOf(u, p, x) = d
  BY AsideSibling
<1>2. u.color[s] = t.color[s]
  BY <1>1, WipeReads
<1>3. BlackSibling(t, x, p) = IF t.color[s] = "red"
                              THEN Rotate(Paint(Paint(t, p, "red"), s, "black"), p, d) ELSE t
  BY DEF BlackSibling
<1>4. BlackSibling(u, x, p) = IF t.color[s] = "red"
                              THEN Rotate(Paint(Paint(u, p, "red"), s, "black"), p, d) ELSE u
  BY <1>1, <1>2 DEF BlackSibling
<1> HIDE DEF s, d
<1>5. Aside(t, w, Rotate(Paint(Paint(u, p, "red"), s, "black"), p, d),
                  Rotate(Paint(Paint(t, p, "red"), s, "black"), p, d))
  BY <1>1, AsideTurn
<1>6. Aside(t, w, u, t)
  BY DEF Aside
<1> QED
  BY <1>3, <1>4, <1>5, <1>6

LEMMA AsideRedSibling ==
  ASSUME NEW t, NEW w, Beside(t, w), NEW s \in Node \ {w}
  PROVE  Aside(t, w, RedSibling(Wipe(t, w), s), RedSibling(t, s))
<1>1. Aside(t, w, Paint(Wipe(t, w), s, "red"), Paint(t, s, "red"))
  BY AsidePaint DEF Color
<1>2. Aside(t, w, Wipe(t, w), t)
  BY DEF Aside
<1> QED
  BY <1>1, <1>2 DEF RedSibling

LEMMA AsideAllBlack ==
  ASSUME NEW t, NEW w, Beside(t, w), NEW s \in Node \ {w}
  PROVE  AllBlack(Wipe(t, w), s) <=> AllBlack(t, s)
<1>1. "r" \in Side /\ "l" \in Side
  BY DEF Side
<1>2. \A c \in Side : /\ Wipe(t, w).kid[c][s] = t.kid[c][s]
                      /\ Wipe(t, w).color[t.kid[c][s]] = t.color[t.kid[c][s]]
  BY WipeReads
<1>3. Wipe(t, w).color[s] = t.color[s]
  BY WipeReads
<1> QED
  BY <1>1, <1>2, <1>3 DEF AllBlack

LEMMA AsideLastly ==
  ASSUME NEW t1, NEW w, Beside(t1, w), NEW p \in Node \ {w}, NEW d \in Side
  PROVE  Aside(t1, w, Lastly(Wipe(t1, w), p, d), Lastly(t1, p, d))
<1> DEFINE e == Other(d)
           u1 == Wipe(t1, w)
<1>1. d \in Side /\ e \in Side /\ "black" \in Color /\ "red" \in Color
  BY Sides DEF Color
<1>8. Beside(t1, w) /\ Wipe(t1, w) = u1
  OBVIOUS
<1> HIDE DEF u1, e
<1> DEFINE s1 == t1.kid[e][p]
           t2 == Paint(Paint(t1, s1, t1.color[p]), p, "black")
           u2 == Paint(Paint(u1, s1, t1.color[p]), p, "black")
           f == t2.kid[e][s1]
           cond == t2.color[f] = "red"
           t3 == Assert(t2, cond)
           u3 == Assert(u2, cond)
<1>9. s1 \in Node \ {w} /\ u1.kid[e][p] = s1 /\ t1.color[p] \in Color /\ u1.color[p] = t1.color[p]
  BY <1>1, <1>8, WipeReads
<1>10. Beside(t2, w) /\ Wipe(t2, w) = u2
  <2> HIDE DEF s1
  <2> QED
    BY <1>1, <1>8, <1>9, AsidePaints DEF Aside
<1> HIDE DEF t2, u2, s1
<1>11. f \in Node \ {w} /\ u2.kid[e][s1] = f
  <2>1. \A c \in Side, z \in Node \ {w} : u2.kid[c][z] = t2.kid[c][z] /\ t2.kid[c][z] \in Node \ {w}
    BY <1>10, WipeReads
  <2> QED
    BY <1>1, <1>9, <2>1
<1>12. u2.color[f] = t2.color[f]
  BY <1>10, <1>11, WipeReads
<1> HIDE DEF f
<1>13. Beside(t3, w) /\ Wipe(t3, w) = u3
  <2>1. cond \in BOOLEAN
    OBVIOUS
  <2> HIDE DEF cond
  <2> QED
    BY <1>10, <2>1, AsideAssert DEF Aside
<1>14. t3.kid[e][s1] = f /\ u3.kid[e][s1] = f
  <2>1. t3.kid = t2.kid /\ u3.kid = u2.kid
    <3>1. t2 \in Tree /\ u2 \in Tree
      <4>1. t2 \in Tree /\ w \in Node
        BY <1>10 DEF Beside
      <4>2. Wipe(t2, w) \in Tree
        BY <4>1, WipeIs DEF Wiped
      <4> QED
        BY <1>10, <4>1, <4>2
    <3>2. cond \in BOOLEAN
      OBVIOUS
    <3> HIDE DEF cond
    <3>3. Asserted(t2, cond, t3) /\ Asserted(u2, cond, u3)
      BY <3>1, <3>2, AssertIs
    <3> QED
      BY <3>3 DEF Asserted
  <2> QED
    BY <1>11, <2>1 DEF f
<1> HIDE DEF t3, u3, cond
<1>15. Beside(Paint(t3, f, "black"), w) /\ Wipe(Paint(t3, f, "black"), w) = Paint(u3, f, "black")
  BY <1>1, <1>11, <1>13, AsidePaint DEF Aside
<1>16. Aside(t1, w, Rotate(Paint(u3, f, "black"), p, d), Rotate(Paint(t3, f, "black"), p, d))
  <2> DEFINE r == Paint(t3, f, "black")
  <2>1. Beside(r, w) /\ Wipe(r, w) = Paint(u3, f, "black")
    BY <1>15
  <2> HIDE DEF r
  <2>2. Beside(Rotate(r, p, d), w) /\ Wipe(Rotate(r, p, d), w) = Rotate(Wipe(r, w), p, d)
    BY <1>1, <2>1, AsideRotate DEF Aside
  <2> QED
    BY <2>1, <2>2 DEF Aside, r
<1>17. Lastly(t1, p, d) = Rotate(Paint(t3, f, "black"), p, d)
  <2>1. Lastly(t1, p, d) = Rotate(Paint(t3, t3.kid[e][s1], "black"), p, d)
    BY DEF Lastly, t3, cond, f, t2, s1, e
  <2> QED
    BY <1>14, <2>1
<1>18. Lastly(u1, p, d) = Rotate(Paint(u3, f, "black"), p, d)
  <2>1. u2 = Paint(Paint(u1, u1.kid[e][p], u1.color[p]), p, "black")
    BY <1>9 DEF u2
  <2>2. u3 = Assert(u2, u2.color[u2.kid[e][s1]] = "red")
    BY <1>11, <1>12 DEF u3, cond
  <2>3. u3 = Assert(u2, u2.color[u2.kid[e][u1.kid[e][p]]] = "red")
    BY <1>9, <2>2
  <2>4. Lastly(u1, p, d) = Rotate(Paint(u3, u3.kid[e][u1.kid[e][p]], "black"), p, d)
    BY <2>1, <2>3 DEF Lastly, e
  <2> QED
    BY <1>9, <1>14, <2>4
<1> QED
  BY <1>16, <1>17, <1>18 DEF u1

LEMMA AsideRebalance ==
  ASSUME NEW t, NEW w, Beside(t, w), NEW p \in Node \ {w}, NEW x \in Node, NEW s \in Node \ {w}
  PROVE  Aside(t, w, Rebalance(Wipe(t, w), x, p, s), Rebalance(t, x, p, s))
<1> DEFINE d == SideOf(t, p, x)
           e == Other(d)
           near == t.kid[d][s]
           far == t.kid[e][s]
           turn == t.color[s] = "black" /\ t.color[near] = "red" /\ t.color[far] = "black"
                   /\ t.kid[d][p] = x
           u == Wipe(t, w)
           a == Assert(t, s # Nil)
           q == Straight(t, s, d, near)
<1>1. d \in Side /\ e \in Side /\ SideOf(u, p, x) = d
  BY AsideSibling, Sides
<1>2. near \in Node \ {w} /\ far \in Node \ {w} /\ u.kid[d][s] = near /\ u.kid[e][s] = far
      /\ u.kid[d][p] = t.kid[d][p] /\ u.color[s] = t.color[s]
  <2>1. \A c \in Side, z \in Node \ {w} : u.kid[c][z] = t.kid[c][z] /\ t.kid[c][z] \in Node \ {w}
    BY WipeReads
  <2>2. u.color[s] = t.color[s]
    BY WipeReads
  <2> HIDE DEF u, d, e
  <2> QED
    BY <1>1, <2>1, <2>2
<1>3. u.color[near] = t.color[near] /\ u.color[far] = t.color[far]
  BY <1>2, WipeReads
<1>4. Rebalance(t, x, p, s) = IF turn THEN Lastly(q, p, d) ELSE Lastly(a, p, d)
  BY RebalanceParts
<1>5. Rebalance(u, x, p, s) = IF turn THEN Lastly(Straight(u, s, d, near), p, d)
                              ELSE Lastly(Assert(u, s # Nil), p, d)
  <2> HIDE DEF u, d, near, far
  <2>1. d = SideOf(u, p, x) /\ near = u.kid[d][s] /\ far = u.kid[Other(d)][s]
    BY <1>1, <1>2
  <2>2. Rebalance(u, x, p, s) =
          IF u.color[s] = "black" /\ u.color[near] = "red" /\ u.color[far] = "black" /\ u.kid[d][p] = x
          THEN Lastly(Straight(u, s, d, near), p, d) ELSE Lastly(Assert(u, s # Nil), p, d)
    BY <2>1, RebalanceParts
  <2> QED
    BY <1>2, <1>3, <2>2
<1> HIDE DEF u, turn, near, far, d
<1>6. Beside(a, w) /\ Wipe(a, w) = Assert(u, s # Nil)
  BY AsideAssert DEF Aside, u
<1>7. Beside(q, w) /\ Wipe(q, w) = Straight(u, s, d, near)
  <2>1. Straight(u, s, d, near) = Rotate(Paint(Paint(Wipe(a, w), s, "red"), near, "black"), s, e)
    BY <1>6 DEF Straight
  <2>2. q = Rotate(Paint(Paint(a, s, "red"), near, "black"), s, e)
    BY DEF Straight
  <2> HIDE DEF q, a, e
  <2> QED
    BY <1>1, <1>2, <1>6, <2>1, <2>2, AsideTurn DEF Aside
<1> HIDE DEF a, q
<1>8. Aside(q, w, Lastly(Wipe(q, w), p, d), Lastly(q, p, d))
  BY <1>1, <1>7, AsideLastly
<1>9. Aside(a, w, Lastly(Wipe(a, w), p, d), Lastly(a, p, d))
  BY <1>1, <1>6, AsideLastly
<1> QED
  BY <1>4, <1>5, <1>6, <1>7, <1>8, <1>9 DEF Aside, u

\* rbtree_delete_fixup round by round.
RoundOf(t, x, p, after) ==
  LET t1 == BlackSibling(t, x, p)
      s == Sibling(t1, x, p)
      t2 == RedSibling(t1, s)
  IN IF p = Nil THEN t
     ELSE IF ~AllBlack(t1, s) THEN Rebalance(t1, x, p, s)
     ELSE IF t1.color[p] = "red" THEN Paint(t2, p, "black")
     ELSE after

Recolored(t, x, p) == LET t1 == BlackSibling(t, x, p) IN RedSibling(t1, Sibling(t1, x, p))

LEMMA BlackSiblingType ==
  ASSUME NEW t \in Tree, NEW x \in Node, NEW p \in Node
  PROVE  /\ BlackSibling(t, x, p) \in Tree
         /\ Sibling(t, x, p) \in Node
         /\ Recolored(t, x, p) \in Tree
<1>1. "red" \in Color /\ "black" \in Color
  BY DEF Color
<1>2. \A u \in Tree : SideOf(u, p, x) \in Side /\ Sibling(u, x, p) \in Node
  <2> SUFFICES ASSUME NEW u \in Tree PROVE SideOf(u, p, x) \in Side /\ Sibling(u, x, p) \in Node
    OBVIOUS
  <2>1. SideOf(u, p, x) \in Side
    BY DEF SideOf, Side
  <2>2. Other(SideOf(u, p, x)) \in Side
    BY <2>1, Sides
  <2> QED
    BY <2>1, <2>2, TreeType DEF Sibling
<1>3. BlackSibling(t, x, p) \in Tree
  <2> DEFINE s == Sibling(t, x, p)
             d == SideOf(t, p, x)
             t1 == Paint(t, p, "red")
             t2 == Paint(t1, s, "black")
  <2>1. s \in Node /\ d \in Side
    BY <1>2
  <2>2. t1 \in Tree
    BY <1>1, Types
  <2>3. BlackSibling(t, x, p) = IF t.color[s] = "red" THEN Rotate(t2, p, d) ELSE t
    BY DEF BlackSibling
  <2> HIDE DEF t1, s, d
  <2>4. t2 \in Tree
    BY <1>1, <2>1, <2>2, Types
  <2> HIDE DEF t2
  <2>5. Rotate(t2, p, d) \in Tree
    BY <2>1, <2>4, Types
  <2> QED
    BY <2>3, <2>5
<1>4. Recolored(t, x, p) \in Tree
  <2> DEFINE t1 == BlackSibling(t, x, p)
             s == Sibling(t1, x, p)
  <2>1. t1 \in Tree /\ s \in Node
    BY <1>2, <1>3
  <2>2. Recolored(t, x, p) = IF s = Nil THEN t1 ELSE Paint(t1, s, "red")
    BY DEF Recolored, RedSibling
  <2> HIDE DEF t1, s
  <2> QED
    BY <1>1, <2>1, <2>2, Types
<1> QED
  BY <1>2, <1>3, <1>4

\* After p, what is left to fix is at its parent.
LEMMA DeleteRound ==
  ASSUME NEW t \in Tree, NEW x \in Node, NEW p \in Node
  PROVE  LET u == Recolored(t, x, p)
         IN rbtree_delete_fixup(t, x, p) = RoundOf(t, x, p, rbtree_delete_fixup(u, p, u.parent[p]))
<1> DEFINE D == Tree \X Node \X Node
           Stops(c) == LET t1 == BlackSibling(c[1], c[2], c[3])
                       IN \/ c[3] = Nil \/ ~AllBlack(t1, Sibling(t1, c[2], c[3]))
                          \/ t1.color[c[3]] = "red"
           stop == {c \in D : Stops(c)}
           res == [c \in D |-> RoundOf(c[1], c[2], c[3], Nil)]
           Step(c) == <<Recolored(c[1], c[2], c[3]), c[3], Recolored(c[1], c[2], c[3]).parent[c[3]]>>
           next == [c \in D |-> Step(c)]
           Is(f) == f = [c \in D |->
                           LET q == c[3]
                               t1 == BlackSibling(c[1], c[2], q)
                               s == Sibling(t1, c[2], q)
                               t2 == RedSibling(t1, s)
                           IN IF q = Nil THEN c[1]
                              ELSE IF ~AllBlack(t1, s) THEN Rebalance(t1, c[2], q, s)
                              ELSE IF t1.color[q] = "red" THEN Paint(t2, q, "black")
                              ELSE f[<<t2, q, t2.parent[q]>>]]
           from == CHOOSE f : Is(f)
<1>1. \A c \in D : Step(c) \in D
  <2> SUFFICES ASSUME NEW c \in D PROVE Step(c) \in D
    OBVIOUS
  <2>1. c[1] \in Tree /\ c[2] \in Node /\ c[3] \in Node
    OBVIOUS
  <2>2. Recolored(c[1], c[2], c[3]) \in Tree
    BY <2>1, BlackSiblingType
  <2>3. Recolored(c[1], c[2], c[3]).parent[c[3]] \in Node
    BY <2>1, <2>2, TreeType
  <2> QED
    BY <2>1, <2>2, <2>3
<1>2. Looped(D, stop, res, next)
  <2>1. next \in [D -> D]
    BY <1>1
  <2> HIDE DEF next, stop, D, res
  <2>2. stop \in SUBSET D
    BY DEF stop
  <2> QED
    BY <2>1, <2>2, Loop
<1>4. \A c, v : RoundOf(c[1], c[2], c[3], v) = IF Stops(c) THEN RoundOf(c[1], c[2], c[3], Nil) ELSE v
  BY DEF RoundOf
<1>5. \A f : Is(f) <=> f = [c \in D |-> RoundOf(c[1], c[2], c[3], f[Step(c)])]
  BY DEF RoundOf, Recolored
<1>6. \E f : Is(f)
  <2>1. PICK f : f = [c \in D |-> IF c \in stop THEN res[c] ELSE f[next[c]]]
    BY <1>2 DEF Looped
  <2>2. \A c \in D : (IF c \in stop THEN res[c] ELSE f[next[c]])
                     = RoundOf(c[1], c[2], c[3], f[Step(c)])
    <3> SUFFICES ASSUME NEW c \in D
                 PROVE  (IF c \in stop THEN res[c] ELSE f[next[c]])
                        = RoundOf(c[1], c[2], c[3], f[Step(c)])
      OBVIOUS
    <3>1. (c \in stop <=> Stops(c)) /\ res[c] = RoundOf(c[1], c[2], c[3], Nil) /\ next[c] = Step(c)
      OBVIOUS
    <3> HIDE DEF Stops, Step, stop, res, next
    <3> QED
      BY <1>4, <3>1
  <2> HIDE DEF res, next, stop, D, Step, Stops, Is
  <2>3. f = [c \in D |-> RoundOf(c[1], c[2], c[3], f[Step(c)])]
    BY <2>1, <2>2
  <2> QED
    BY <1>5, <2>3
<1>7. Is(from)
  BY <1>6
<1>8. \A u, y, q : rbtree_delete_fixup(u, y, q) = from[<<u, y, q>>]
  BY DEF rbtree_delete_fixup
<1> HIDE DEF from, Is
<1>9. from = [c \in D |-> RoundOf(c[1], c[2], c[3], from[Step(c)])]
  BY <1>5, <1>7
<1>10. from[<<t, x, p>>] = RoundOf(t, x, p, from[Step(<<t, x, p>>)])
  <2>1. <<t, x, p>> \in D
    OBVIOUS
  <2> HIDE DEF D, Step
  <2>2. from[<<t, x, p>>] = RoundOf(<<t, x, p>>[1], <<t, x, p>>[2], <<t, x, p>>[3], from[Step(<<t, x, p>>)])
    BY <1>9, <2>1
  <2> QED
    BY <2>2
<1> QED
  BY <1>8, <1>10

\* Node w is not in the tree and nothing but itself links to it.
LEMMA ApartIs ==
  ASSUME NEW u, NEW S, NEW sub, NEW at, Shape(u, S, sub, at), NEW w \in Node, w \notin S, w # Nil
  PROVE  \A z \in S : z \in Node \ {w} /\ z # Nil /\ u.parent[z] \in Node \ {w}
                      /\ \A c \in Side : u.kid[c][z] \in Node \ {w}
<1> SUFFICES ASSUME NEW z \in S
             PROVE  z \in Node \ {w} /\ z # Nil /\ u.parent[z] \in Node \ {w}
                    /\ \A c \in Side : u.kid[c][z] \in Node \ {w}
  OBVIOUS
<1>1. z \in Node /\ z # Nil /\ u \in Tree
  BY KeyAssumption DEF Shape, Divided, Node
<1>2. u.parent[z] = Nil \/ u.parent[z] \in S
  BY ParentNil
<1>3. \A c \in Side : u.kid[c][z] \in S \cup {Nil}
  BY DEF Shape, Chained
<1>4. u.parent[z] \in Node /\ \A c \in Side : u.kid[c][z] \in Node
  BY <1>1, TreeType
<1> QED
  BY <1>1, <1>2, <1>3, <1>4

\* The rounds of rbtree_delete_fixup end, and they end with a red-black tree
\* and the unlinked node w beside it.
LEMMA DeleteFixup ==
  ASSUME NEW t, NEW w, Beside(t, w), NEW S, w \notin S, NEW sub, NEW bh, NEW x, NEW p, NEW d,
         Lacking(Wipe(t, w), S, sub, bh, x, p, d)
  PROVE  RedBlackTree(Wipe(rbtree_delete_fixup(t, x, p), w), S)
<1> DEFINE Wrong(v, h, c, y, q) ==
             /\ Beside(v, w) /\ Lacking(Wipe(v, w), S, sub, h, y, q, c)
             /\ ~RedBlackTree(Wipe(rbtree_delete_fixup(v, y, q), w), S)
           Bad == {q \in S : \E v, h, c, y : Wrong(v, h, c, y, q)}
           N == {Cardinality(S \ sub[z]) : z \in Bad}
<1>0. w \in Node /\ w # Nil
  BY DEF Beside
<1>1. ASSUME NEW v, Beside(v, w), NEW h, NEW c, NEW y, NEW q, Lacking(Wipe(v, w), S, sub, h, y, q, c),
             q = Nil
      PROVE  RedBlackTree(Wipe(rbtree_delete_fixup(v, y, q), w), S)
  <2> DEFINE u == Wipe(v, w)
  <2>1. v \in Tree /\ Nil \in Node
    BY <1>1 DEF Beside, Node
  <2>2. y \in Node
    <3>1. y = u.root /\ u \in Tree
      BY <1>1 DEF Lacking, Shape
    <3> QED
      BY <3>1, TreeType
  <2>3. rbtree_delete_fixup(v, y, q) = v
    BY <1>1, <2>1, <2>2, DeleteRound DEF RoundOf
  <2> HIDE DEF u
  <2>4. Lacking(u, S, sub, h, y, Nil, c) /\ Nil \notin S
    BY <1>1, KeyAssumption DEF u, Lacking, Shape, Divided
  <2>5. Even(u, S, h)
    <3>1. ASSUME NEW z \in S, NEW k \in Side PROVE h[z] = h[u.kid[k][z]] + Blk(u, z)
      <4>1. h[z] = h[u.kid[k][z]] + Blk(u, z) + 0
        BY <2>4 DEF Lacking, Lack
      <4>2. u.kid[k][z] \in Node /\ h[u.kid[k][z]] \in Nat /\ Blk(u, z) \in Nat
        <5>1. Parted(u, S, sub, z, k)
          BY <2>4, Below DEF Lacking
        <5> QED
          BY <2>4, <5>1 DEF Parted, Lacking, Blk
      <4> QED
        BY <4>1, <4>2
    <3> QED
      BY <2>4, <3>1 DEF Lacking, Even
  <2>6. Sound(u, S, sub, h)
    BY <2>4, <2>5 DEF Lacking, Sound
  <2> QED
    BY <2>3, <2>6 DEF RedBlackTree, u
<1>2. p = Nil \/ p \in S
  BY DEF Lacking
<1> SUFFICES ASSUME Bad # {} PROVE FALSE
  BY <1>1, <1>2
<1>3. S \subseteq Key /\ IsFiniteSet(S) /\ \A z \in S : sub[z] \subseteq S
      /\ IsFiniteSet(S \ sub[z]) /\ Cardinality(S \ sub[z]) \in Nat
  <2>1. S \subseteq Key /\ \A z \in S : sub[z] \subseteq S
    BY DEF Lacking, Shape, Divided, Node
  <2> QED
    BY <2>1, KeyAssumption, FS_Subset, FS_CardinalityType
<1>4. PICK n \in N : \A k \in N : n <= k
  <2>1. N \in SUBSET Nat /\ N # {}
    BY <1>3
  <2> HIDE DEF N
  <2> QED
    BY <2>1, LeastIs
<1>5. PICK q \in Bad : n = Cardinality(S \ sub[q])
  BY <1>4
<1>6. PICK v, h, c, y : Wrong(v, h, c, y, q)
  BY <1>5
<1> DEFINE u == Wipe(v, w)
           v1 == BlackSibling(v, y, q)
           u1 == BlackSibling(u, y, q)
           s == Sibling(v1, y, q)
           v2 == RedSibling(v1, s)
           u2 == RedSibling(u1, s)
<1>7. Beside(v, w) /\ Lacking(u, S, sub, h, y, q, c) /\ q \in S /\ Shape(u, S, sub, Identity)
  BY <1>6 DEF Lacking
<1>8. v \in Tree /\ q \in Node \ {w} /\ q # Nil /\ y \in Node
  <2>1. v \in Tree
    BY <1>7 DEF Beside
  <2> HIDE DEF u
  <2>2. q \in Node \ {w} /\ q # Nil
    BY <1>0, <1>7, ApartIs
  <2>3. y \in Node
    BY <1>7, <2>2, SiblingIs
  <2> QED
    BY <2>1, <2>2, <2>3
<1>9. rbtree_delete_fixup(v, y, q) =
        IF ~AllBlack(v1, s) THEN Rebalance(v1, y, q, s)
        ELSE IF v1.color[q] = "red" THEN Paint(v2, q, "black")
        ELSE rbtree_delete_fixup(v2, q, v2.parent[q])
  BY <1>8, DeleteRound DEF RoundOf, Recolored
<1>10. Beside(v1, w) /\ Wipe(v1, w) = u1
  BY <1>7, <1>8, AsideBlackSibling DEF Aside
<1>11. ~RedBlackTree(Wipe(rbtree_delete_fixup(v, y, q), w), S)
  BY <1>6
<1> HIDE DEF v1, u1
<1>12. s \in Node \ {w} /\ s = Sibling(u1, y, q)
  BY <1>8, <1>10, AsideSibling
<1>13. (u1 = u /\ u.color[u.kid[Other(c)][q]] = "black")
       \/ /\ \E sub2, h2 : Lacking(u1, S, sub2, h2, y, q, c)
          /\ u1.color[q] = "red" /\ u1.color[u1.kid[Other(c)][q]] = "black"
  <2> HIDE DEF u
  <2> QED
    BY <1>7, <1>8, BlackSiblingIs DEF u1
<1>14. PICK sub2, h2 : Lacking(u1, S, sub2, h2, y, q, c)
  BY <1>7, <1>13
<1>15. s = u1.kid[Other(c)][q] /\ u1.color[s] = "black"
  <2>1. s = u1.kid[Other(c)][q]
    BY <1>8, <1>12, <1>14, SiblingIs
  <2> QED
    BY <1>13, <2>1
<1>16. (AllBlack(u1, s) <=> AllBlack(v1, s)) /\ u1.color[q] = v1.color[q] /\ v1.color[q] \in Color
  BY <1>8, <1>10, <1>12, AsideAllBlack, WipeReads
<1>17. Beside(v2, w) /\ Wipe(v2, w) = u2
  BY <1>10, <1>12, AsideRedSibling DEF Aside
<1> HIDE DEF s, v2, u2, u
<1>18. CASE ~AllBlack(v1, s)
  <2>1. Wipe(Rebalance(v1, y, q, s), w) = Rebalance(u1, y, q, s)
    BY <1>8, <1>10, <1>12, AsideRebalance DEF Aside
  <2>2. RedBlackTree(Rebalance(u1, y, q, s), S)
    BY <1>8, <1>14, <1>15, <1>16, <1>18, RebalanceIs
  <2> QED
    BY <1>9, <1>11, <1>18, <2>1, <2>2
<1>19. CASE AllBlack(v1, s) /\ v1.color[q] = "red"
  <2>1. Wipe(Paint(v2, q, "black"), w) = Paint(u2, q, "black")
    BY <1>8, <1>17, AsidePaint DEF Aside, Color
  <2>2. RedBlackTree(Paint(u2, q, "black"), S)
    BY <1>8, <1>14, <1>15, <1>16, <1>19, ParentRed DEF u2
  <2> QED
    BY <1>9, <1>11, <1>19, <2>1, <2>2
<1>20. CASE AllBlack(v1, s) /\ v1.color[q] # "red"
  <2>1. u1 = u /\ u1.color[q] = "black"
    BY <1>13, <1>16, <1>20 DEF Color
  <2>2. (\E h3, c3 : Lacking(u2, S, sub, h3, q, u2.parent[q], c3)) /\ u2 \in Tree
    <3>1. /\ Lacking(u, S, sub, h, y, q, c) /\ q # Nil /\ u.kid[Other(c)][q] = s
          /\ AllBlack(u, s) /\ u.color[q] = "black" /\ RedSibling(u, s) = u2
      BY <1>7, <1>8, <1>15, <1>16, <1>20, <2>1 DEF u2
    <3> QED
      BY <3>1, ParentBlack
  <2>3. PICK h3, c3 : Lacking(u2, S, sub, h3, q, u2.parent[q], c3)
    BY <2>2
  <2> DEFINE g == v2.parent[q]
  <2>4. g = u2.parent[q]
    BY <1>8, <1>17, WipeReads
  <2>5. rbtree_delete_fixup(v, y, q) = rbtree_delete_fixup(v2, q, g)
    BY <1>9, <1>20
  <2> HIDE DEF g
  <2>6. g # Nil
    BY <1>1, <1>11, <1>17, <2>3, <2>4, <2>5
  <2>7. g \in S /\ q \in sub[g] /\ sub[q] \subseteq sub[g] /\ g \in sub[g] /\ g \notin sub[q]
    <3>1. Shape(u2, S, sub, Identity) /\ c3 \in Side /\ g \in S /\ q = u2.kid[c3][g]
      BY <2>3, <2>4, <2>6 DEF Lacking
    <3>2. Parted(u2, S, sub, g, c3) /\ q \in sub[q]
      BY <1>7, <3>1, Below DEF Shape, Divided
    <3> QED
      BY <3>1, <3>2 DEF Parted
  <2>8. g \in Bad
    BY <1>11, <1>17, <2>3, <2>4, <2>5, <2>7
  <2>9. (S \ sub[g]) \subseteq (S \ sub[q]) /\ g \in S \ sub[q] /\ g \notin S \ sub[g]
    BY <2>7
  <2>10. IsFiniteSet(S \ sub[q]) /\ Cardinality(S \ sub[q]) \in Nat /\ Cardinality(S \ sub[g]) \in Nat
    BY <1>3, <1>7, <2>7
  <2>11. Cardinality(S \ sub[g]) < Cardinality(S \ sub[q])
    BY <2>9, <2>10, FS_Subset
  <2>12. n <= Cardinality(S \ sub[g])
    BY <1>4, <2>8
  <2> QED
    BY <1>5, <2>10, <2>11, <2>12
<1> QED
  BY <1>18, <1>19, <1>20

-----------------------------------------------------------------------------
(* Unlinking a node.                                                       *)

\* The labels order the nodes of S as the keys themselves do.
Agree(at, S) ==
  \A d \in Side, k, z \in S : Before(at, d, k, z) <=> Before(Identity, d, k, z)

LEMMA Relabel ==
  ASSUME NEW t, NEW S, NEW sub, NEW at, Shape(t, S, sub, at), Agree(at, S)
  PROVE  Shape(t, S, sub, Identity)
<1>1. Divided(t, S, sub, at)
  BY DEF Shape
<1>2. Divided(t, S, sub, Identity)
  BY <1>1, IdentityLabels DEF Divided, Agree
<1> QED
  BY <1>2 DEF Shape

\* What change_parent_ptr and change_child_ptr assign.
ParentChanged(t, p, old, new, r) ==
  /\ r \in Tree /\ r.parent = t.parent /\ r.color = t.color
  /\ r.root = IF p = Nil /\ t.root = old THEN new ELSE t.root
  /\ \A c \in Side, z \in Node :
       r.kid[c][z] = IF p # Nil /\ z = p /\ t.kid[c][z] = old THEN new ELSE t.kid[c][z]
  /\ r.ok <=> t.ok /\ IF p = Nil THEN t.root = old
                      ELSE \E c \in Side : t.kid[c][p] \in {old, new}
ChildChanged(t, x, old, new, r) ==
  /\ r \in Tree /\ r.root = t.root /\ r.kid = t.kid /\ r.color = t.color
  /\ \A z \in Node : r.parent[z] = IF x # Nil /\ z = x /\ t.parent[z] = old THEN new ELSE t.parent[z]
  /\ r.ok <=> t.ok /\ (x # Nil => t.parent[x] \in {old, new})

LEMMA ChangeParentIs ==
  ASSUME NEW t \in Tree, NEW p \in Node, NEW old \in Node, NEW new \in Node
  PROVE  ParentChanged(t, p, old, new, change_parent_ptr(t, p, old, new))
<1> DEFINE r == change_parent_ptr(t, p, old, new)
<1>1. CASE p = Nil
  <2> DEFINE a == Assert(t, t.root = old)
  <2>1. Asserted(t, t.root = old, a)
    BY AssertIs
  <2>2. r = [a EXCEPT !.root = IF a.root = old THEN new ELSE a.root]
    BY <1>1 DEF change_parent_ptr
  <2> HIDE DEF a
  <2> DEFINE b == IF a.root = old THEN new ELSE a.root
  <2>3. b \in Node /\ a \in Tree
    BY <2>1, TreeType DEF Asserted
  <2>4. RootSet(a, b, r)
    BY <2>2, <2>3, RootIs
  <2> QED
    BY <1>1, <2>1, <2>4 DEF RootSet, Asserted, ParentChanged
<1>2. CASE p # Nil
  <2> DEFINE cond == {old, new} \cap {t.kid["l"][p], t.kid["r"][p]} # {}
             a == Assert(t, cond)
             kid == [d \in Side |-> IF a.kid[d][p] = old THEN [a.kid[d] EXCEPT ![p] = new] ELSE a.kid[d]]
  <2>1. Asserted(t, cond, a)
    BY AssertIs
  <2>2. r = [a EXCEPT !.kid = kid]
    BY <1>2 DEF change_parent_ptr
  <2> HIDE DEF a
  <2>3. a \in Tree
    BY <2>1 DEF Asserted
  <2>4. kid \in [Side -> [Node -> Node]]
    BY <2>3 DEF Tree
  <2>5. /\ \A c \in Side, z \in Node : kid[c][z] = IF z = p /\ a.kid[c][z] = old THEN new ELSE a.kid[c][z]
    BY <2>3 DEF Tree
  <2> HIDE DEF kid
  <2>6. /\ r \in Tree /\ r.kid = kid /\ r.parent = a.parent /\ r.color = a.color
        /\ r.root = a.root /\ r.ok = a.ok
    BY <2>2, <2>3, <2>4 DEF Tree
  <2>7. cond <=> \E c \in Side : t.kid[c][p] \in {old, new}
    BY DEF Side
  <2> HIDE DEF cond
  <2> QED
    BY <1>2, <2>1, <2>5, <2>6, <2>7 DEF Asserted, ParentChanged
<1> QED
  BY <1>1, <1>2

LEMMA ChangeChildIs ==
  ASSUME NEW t \in Tree, NEW x \in Node, NEW old \in Node, NEW new \in Node
  PROVE  ChildChanged(t, x, old, new, change_child_ptr(t, x, old, new))
<1> DEFINE r == change_child_ptr(t, x, old, new)
<1>1. CASE x = Nil
  <2>1. r = t
    BY <1>1 DEF change_child_ptr
  <2>2. ChildChanged(t, x, old, new, t)
    BY <1>1 DEF ChildChanged
  <2> QED
    BY <2>1, <2>2
<1>2. CASE x # Nil
  <2> DEFINE cond == t.parent[x] \in {old, new}
             a == Assert(t, cond)
  <2>1. Asserted(t, cond, a)
    <3>1. cond \in BOOLEAN
      OBVIOUS
    <3> HIDE DEF cond
    <3> QED
      BY <3>1, AssertIs
  <2>2. r = ReplaceParent(a, x, old, new)
    BY <1>2 DEF change_child_ptr
  <2> HIDE DEF a, r
  <2>3. a \in Tree /\ a.parent = t.parent
    BY <2>1 DEF Asserted
  <2>4. CASE t.parent[x] = old
    <3>1. r = SetParent(a, x, new)
      BY <2>2, <2>3, <2>4 DEF ReplaceParent
    <3>2. ParentSet(a, x, new, r)
      BY <2>3, <3>1, SetParentIs
    <3>3. ChildChanged(t, x, old, new, r)
      BY <1>2, <2>1, <2>4, <3>2 DEF ParentSet, Asserted, ChildChanged
    <3> QED
      BY <3>3 DEF r
  <2>5. CASE t.parent[x] # old
    <3>1. r = a
      BY <2>2, <2>3, <2>5 DEF ReplaceParent
    <3>2. ChildChanged(t, x, old, new, r)
      BY <1>2, <2>1, <2>5, <3>1 DEF Asserted, ChildChanged
    <3> QED
      BY <3>2 DEF r
  <2> QED
    BY <2>4, <2>5
<1> QED
  BY <1>1, <1>2

\* The link from p to x replaced by one to c, and that of c to x by one to p.
Cut(t, x, p, c) == change_child_ptr(change_parent_ptr(t, p, x, c), c, x, p)

\* Every link to x becomes one to its only child.
CutOut(t, x, c, r) ==
  /\ r \in Tree /\ r.color = t.color /\ r.ok = t.ok
  /\ r.root = IF t.root = x THEN c ELSE t.root
  /\ \A k \in Side, z \in Node : r.kid[k][z] = IF t.kid[k][z] = x THEN c ELSE t.kid[k][z]
  /\ \A z \in Node : r.parent[z] = IF z = c /\ c # Nil THEN t.parent[x] ELSE t.parent[z]

LEMMA CutIs ==
  ASSUME NEW t, NEW S, NEW sub, NEW at, Shape(t, S, sub, at), NEW x \in S, NEW e \in Side
  PROVE  CutOut(t, x, t.kid[e][x], Cut(t, x, t.parent[x], t.kid[e][x]))
<1> DEFINE p == t.parent[x]
           c == t.kid[e][x]
           r1 == change_parent_ptr(t, p, x, c)
           r == Cut(t, x, p, c)
<1>1. t \in Tree /\ x \in Node /\ x # Nil /\ p \in Node /\ c \in Node
  BY TreeType, KeyAssumption DEF Shape, Divided, Node
<1>2. ParentChanged(t, p, x, c, r1)
  BY <1>1, ChangeParentIs
<1>3. r1 \in Tree
  BY <1>2 DEF ParentChanged
<1>4. ChildChanged(r1, c, x, p, r)
  BY <1>1, <1>3, ChangeChildIs DEF Cut
<1>5. p = Nil <=> x = t.root
  BY ParentNil
<1>6. c # Nil => t.parent[c] = x
  BY DEF Shape, Chained
<1>7. p # Nil => \E d \in Side : t.kid[d][p] = x
  BY ParentNil
<1>8. ASSUME NEW k \in Side, NEW z \in Node, t.kid[k][z] = x PROVE p # Nil /\ z = p
  <2>1. z \in S
    BY <1>1, <1>8 DEF Shape, Cleared
  <2>2. t.parent[x] = z
    BY <1>1, <1>8, <2>1, OneParent
  <2> QED
    BY <2>1, <2>2, KeyAssumption DEF Shape, Divided
<1> HIDE DEF r1, r
<1>9. r.ok = t.ok
  BY <1>1, <1>2, <1>4, <1>5, <1>6, <1>7, TreeType DEF ParentChanged, ChildChanged
<1>10. r.root = IF t.root = x THEN c ELSE t.root
  BY <1>2, <1>4, <1>5 DEF ParentChanged, ChildChanged
<1>11. \A k \in Side, z \in Node : r.kid[k][z] = IF t.kid[k][z] = x THEN c ELSE t.kid[k][z]
  BY <1>2, <1>4, <1>8 DEF ParentChanged, ChildChanged
<1>12. \A z \in Node : r.parent[z] = IF z = c /\ c # Nil THEN p ELSE t.parent[z]
  BY <1>2, <1>4, <1>6 DEF ParentChanged, ChildChanged
<1>13. r \in Tree /\ r.color = t.color
  BY <1>2, <1>4 DEF ParentChanged, ChildChanged
<1> QED
  BY <1>9, <1>10, <1>11, <1>12, <1>13 DEF CutOut, r

\* Cut out and cleared, the node is gone and the shape is kept.
LEMMA CutShape ==
  ASSUME NEW t, NEW S, NEW sub, NEW at, Shape(t, S, sub, at), NEW x \in S, NEW e \in Side,
         t.kid[Other(e)][x] = Nil, NEW r, CutOut(t, x, t.kid[e][x], r)
  PROVE  Beside(r, x) /\ Shape(Wipe(r, x), S \ {x}, [z \in Node |-> sub[z] \ {x}], at)
<1> DEFINE c == t.kid[e][x]
           p == t.parent[x]
           w == Wipe(r, x)
           R == S \ {x}
           sub1 == [z \in Node |-> sub[z] \ {x}]
<1>1. t \in Tree /\ x \in Node /\ x # Nil /\ p \in Node /\ c \in Node /\ Nil \in Node
  BY TreeType, KeyAssumption DEF Shape, Divided, Node
<1>2. c \in S \cup {Nil} /\ c # x /\ (c # Nil => t.parent[c] = x)
  <2>1. Parted(t, S, sub, x, e)
    BY Below
  <2> QED
    BY <1>1, <2>1 DEF Parted, Shape, Chained
<1>3. sub[x] = {x} \cup sub[c] /\ x \notin sub[c]
  <2>1. Parted(t, S, sub, x, e)
    BY Below
  <2>2. sub[Nil] = {}
    BY DEF Shape, Divided
  <2> QED
    BY <2>1, <2>2 DEF Parted
<1>4. /\ r \in Tree /\ r.color = t.color /\ r.ok = t.ok
      /\ r.root = IF t.root = x THEN c ELSE t.root
      /\ \A k \in Side, z \in Node : r.kid[k][z] = IF t.kid[k][z] = x THEN c ELSE t.kid[k][z]
      /\ \A z \in Node : r.parent[z] = IF z = c /\ c # Nil THEN p ELSE t.parent[z]
  BY DEF CutOut
<1>5. Wiped(r, x, w)
  BY <1>1, <1>4, WipeIs
<1> HIDE DEF w
<1>6. ASSUME NEW z \in Node, t.parent[z] = x PROVE z = c /\ c # Nil
  <2>1. z \in S
    BY <1>1, <1>6 DEF Shape, Cleared
  <2>2. \E d \in Side : t.kid[d][x] = z
    BY <1>1, <1>6, <2>1, ParentNil
  <2>3. z # Nil
    BY <2>1, KeyAssumption DEF Shape, Divided
  <2> QED
    BY <2>2, <2>3, Sides
<1>7. p # x
  BY <1>2, <1>6, <1>1
<1>8. Beside(r, x)
  <2>1. \A z \in Node \ {x} : r.parent[z] # x
    BY <1>4, <1>6, <1>7
  <2>2. \A z \in Node \ {x}, k \in Side : r.kid[k][z] # x
    BY <1>2, <1>4
  <2> QED
    BY <1>1, <1>4, <2>1, <2>2 DEF Beside
<1>9. /\ w \in Tree /\ w.root = IF t.root = x THEN c ELSE t.root
      /\ \A z \in Node : /\ w.parent[z] = IF z = x THEN Nil ELSE IF z = c /\ c # Nil THEN p ELSE t.parent[z]
                         /\ w.color[z] = IF z = x THEN "black" ELSE t.color[z]
      /\ \A k \in Side, z \in Node :
           w.kid[k][z] = IF z = x THEN Nil ELSE IF t.kid[k][z] = x THEN c ELSE t.kid[k][z]
  BY <1>4, <1>5 DEF Wiped
<1>10. Divided(w, R, sub1, at)
  <2>1. R \subseteq Key /\ Labels(at) /\ R \subseteq S
    BY DEF Shape, Divided
  <2>2. sub \in [Node -> SUBSET S] /\ sub[Nil] = {} /\ sub[t.root] = S
    BY DEF Shape, Divided
  <2>3. /\ \A z \in Node : sub1[z] = sub[z] \ {x}
        /\ sub1 \in [Node -> SUBSET R]
    BY <2>2
  <2>4. sub1[Nil] = {}
    BY <1>1, <2>2, <2>3
  <2>5. w.root \in Node
    BY <1>9, TreeType
  <2>6. sub1[w.root] = R
    BY <1>3, <1>9, <2>2, <2>3, <2>5
  <2>7. \A z \in R : z \in sub1[z]
    BY <1>1, <2>1, <2>3 DEF Shape, Divided, Node
  <2>8. ASSUME NEW z \in R, NEW d \in Side, NEW k \in R
        PROVE  k \in sub1[w.kid[d][z]] <=> k \in sub1[z] /\ Before(at, d, k, z)
    <3>1. k \in sub[t.kid[d][z]] <=> k \in sub[z] /\ Before(at, d, k, z)
      BY DEF Shape, Divided
    <3>2. z \in Node /\ z # x /\ k # x /\ t.kid[d][z] \in Node
      BY <1>1, <2>1, TreeType DEF Node
    <3>3. k \in sub1[w.kid[d][z]] <=> k \in sub[t.kid[d][z]]
      BY <1>1, <1>3, <1>9, <2>3, <3>2
    <3> QED
      BY <2>3, <3>1, <3>2, <3>3
  <2> HIDE DEF sub1
  <2> QED
    BY <2>1, <2>3, <2>4, <2>6, <2>7, <2>8 DEF Divided
<1>11. Chained(w, R)
  <2>1. /\ t.root \in S \cup {Nil} /\ (t.root # Nil => t.parent[t.root] = Nil)
        /\ \A z \in S, d \in Side : t.kid[d][z] \in S \cup {Nil}
        /\ \A z \in S, d \in Side : t.kid[d][z] # Nil => t.parent[t.kid[d][z]] = z
        /\ S \subseteq Node
    BY DEF Shape, Chained, Divided, Node
  <2>2. w.root \in R \cup {Nil}
    BY <1>2, <1>9, <2>1
  <2>3. w.root # Nil => w.parent[w.root] = Nil
    <3>1. CASE t.root = x
      BY <1>1, <1>2, <1>9, <2>1, <3>1
    <3>2. CASE t.root # x
      <4>1. c # Nil => c # t.root
        BY OneParent
      <4> QED
        BY <1>9, <2>1, <3>2, <4>1
    <3> QED
      BY <3>1, <3>2
  <2>4. \A z \in R, d \in Side : w.kid[d][z] \in R \cup {Nil}
    BY <1>2, <1>9, <2>1
  <2>5. ASSUME NEW z \in R, NEW d \in Side, w.kid[d][z] # Nil PROVE w.parent[w.kid[d][z]] = z
    <3>1. z \in S /\ z \in Node /\ z # x
      BY <2>1
    <3>2. CASE t.kid[d][z] = x
      <4>1. w.kid[d][z] = c /\ c # Nil
        BY <1>9, <2>5, <3>1, <3>2
      <4>2. p = z
        BY <1>1, <2>1, <3>1, <3>2
      <4> QED
        BY <1>1, <1>2, <1>9, <4>1, <4>2
    <3>3. CASE t.kid[d][z] # x
      <4>1. w.kid[d][z] = t.kid[d][z]
        BY <1>9, <3>1, <3>3
      <4>2. t.parent[t.kid[d][z]] = z /\ t.kid[d][z] \in Node
        BY <2>1, <2>5, <3>1, <4>1, <1>1
      <4>3. t.kid[d][z] # c
        BY <1>2, <2>5, <3>1, <4>1, <4>2
      <4> QED
        BY <1>9, <3>3, <4>1, <4>2, <4>3
    <3> QED
      BY <3>2, <3>3
  <2> QED
    BY <2>2, <2>3, <2>4, <2>5 DEF Chained
<1>12. Cleared(w, R)
  <2> SUFFICES ASSUME NEW z \in Node \ R, z # x
               PROVE  w.color[z] = "black" /\ w.parent[z] = Nil /\ \A d \in Side : w.kid[d][z] = Nil
    BY <1>9 DEF Cleared
  <2>1. z \notin S
    OBVIOUS
  <2>2. t.color[z] = "black" /\ t.parent[z] = Nil /\ \A d \in Side : t.kid[d][z] = Nil
    BY <2>1 DEF Shape, Cleared
  <2> QED
    BY <1>1, <1>2, <1>9, <2>1, <2>2
<1> QED
  BY <1>8, <1>9, <1>10, <1>11, <1>12 DEF Shape, w

\* A tree that is red-black but for the labels.
Proper(t, S, sub, bh, at) ==
  /\ Shape(t, S, sub, at) /\ Even(t, S, bh) /\ RedApart(t, S, Nil) /\ t.ok
  /\ t.color[t.root] = "black"

\* What is left to do when node x is cut out.
Fixup(t, x, p, c, r) ==
  IF t.color[x] = "red" THEN r
  ELSE IF t.color[c] = "red" THEN Paint(r, c, "black")
  ELSE rbtree_delete_fixup(r, c, p)

LEMMA UnlinkParts ==
  ASSUME NEW t \in Tree, t.ok, NEW x \in Node, NEW e \in Side, t.kid[Other(e)][x] = Nil,
         e = IF t.kid["l"][x] # Nil THEN "l" ELSE "r"
  PROVE  Unlink(t, x) = Wipe(Fixup(t, x, t.parent[x], t.kid[e][x], Cut(t, x, t.parent[x], t.kid[e][x])), x)
<1> DEFINE p == t.parent[x]
           c == t.kid[e][x]
           cond == Nil \in {t.kid["l"][x], t.kid["r"][x]}
<1>1. cond
  BY DEF Side, Other
<1>2. Assert(t, cond) = t
  <2>1. cond \in BOOLEAN
    OBVIOUS
  <2> HIDE DEF cond
  <2>2. Asserted(t, cond, Assert(t, cond))
    BY <2>1, AssertIs
  <2> QED
    BY <1>1, <2>2, SameTree DEF Asserted
<1>3. (IF t.kid["l"][x] # Nil THEN t.kid["l"][x] ELSE t.kid["r"][x]) = c
  OBVIOUS
<1> QED
  BY <1>2, <1>3 DEF Unlink, Cut, Fixup, Wipe

\* rbtree_delete's second half: the node is unlinked and the tree is red-black.
LEMMA UnlinkSound ==
  ASSUME NEW t, NEW S, NEW sub, NEW bh, NEW at, Proper(t, S, sub, bh, at), NEW x \in S,
         Agree(at, S \ {x}), \E d \in Side : t.kid[d][x] = Nil
  PROVE  RedBlackTree(Unlink(t, x), S \ {x})
<1> DEFINE e == IF t.kid["l"][x] # Nil THEN "l" ELSE "r"
           c == t.kid[e][x]
           p == t.parent[x]
           r == Cut(t, x, p, c)
           w == Wipe(r, x)
           R == S \ {x}
           sub1 == [z \in Node |-> sub[z] \ {x}]
           d == IF t.kid["l"][p] = x THEN "l" ELSE "r"
<1>0. Shape(t, S, sub, at) /\ Even(t, S, bh) /\ RedApart(t, S, Nil) /\ t.ok /\ t.color[t.root] = "black"
  BY DEF Proper
<1>1. /\ t \in Tree /\ x \in Node /\ x # Nil /\ p \in Node /\ c \in Node /\ Nil \in Node
      /\ e \in Side /\ d \in Side /\ t.kid[Other(e)][x] = Nil
  BY <1>0, TreeType, KeyAssumption DEF Shape, Divided, Node, Side, Other
<1>2. Unlink(t, x) = Wipe(Fixup(t, x, p, c, r), x)
  BY <1>0, <1>1, UnlinkParts
<1>3. CutOut(t, x, c, r)
  BY <1>0, <1>1, CutIs
<1> HIDE DEF e, r
<1>4. Beside(r, x) /\ Shape(w, R, sub1, at)
  BY <1>0, <1>1, <1>3, CutShape
<1>5. Shape(w, R, sub1, Identity)
  <2> HIDE DEF w, R, sub1
  <2> QED
    BY <1>4, Relabel DEF R
<1>6. c \in S \cup {Nil} /\ c # x
  <2>1. Parted(t, S, sub, x, e)
    BY <1>0, <1>1, Below
  <2> QED
    BY <1>0, <1>1, <2>1 DEF Parted, Shape, Chained
<1>7. Wiped(r, x, w)
  BY <1>1, <1>4, WipeIs DEF Beside
<1>8. /\ w \in Tree /\ w.ok /\ w.root = IF t.root = x THEN c ELSE t.root
      /\ \A z \in Node : w.color[z] = IF z = x THEN "black" ELSE t.color[z]
      /\ \A k \in Side, z \in Node :
           w.kid[k][z] = IF z = x THEN Nil ELSE IF t.kid[k][z] = x THEN c ELSE t.kid[k][z]
      /\ w.parent[c] = IF c # Nil THEN p ELSE t.parent[c]
  BY <1>0, <1>1, <1>3, <1>6, <1>7 DEF Wiped, CutOut
<1>9. /\ bh \in [Node -> Nat] /\ bh[Nil] = 0
      /\ \A z \in S, k \in Side : bh[z] = bh[t.kid[k][z]] + Blk(t, z)
      /\ bh[x] = bh[c] + Blk(t, x)
  BY <1>0, <1>1 DEF Even
<1>10. \A z \in S, k \in Side : ~(t.color[z] = "red" /\ t.color[t.kid[k][z]] = "red")
  BY <1>0, NoRedPair
<1>11. S \subseteq Node /\ \A z \in S, k \in Side : t.kid[k][z] \in Node
  BY <1>0, <1>1, TreeType DEF Shape, Divided, Node
<1>12. \A z \in Node : t.color[z] \in {"red", "black"}
  BY <1>1, TreeType DEF Color
<1>13. \A z \in R : Blk(w, z) = Blk(t, z) /\ z \in S /\ z \in Node /\ z # x
  BY <1>8, <1>11 DEF Blk
<1> HIDE DEF w, sub1, c, p, d
<1>14. CASE t.color[x] = "red"
  <2>1. Even(w, R, bh)
    <3>1. ASSUME NEW z \in R, NEW k \in Side PROVE bh[z] = bh[w.kid[k][z]] + Blk(w, z)
      <4>1. bh[x] = bh[c]
        BY <1>9, <1>14, <1>1 DEF Blk
      <4>2. bh[w.kid[k][z]] = bh[t.kid[k][z]]
        BY <1>8, <1>13, <4>1
      <4> QED
        BY <1>9, <1>13, <4>2
    <3> QED
      BY <1>9, <3>1 DEF Even
  <2>2. RedApart(w, R, Nil)
    <3> SUFFICES ASSUME NEW z \in R, NEW k \in Side, w.color[z] = "red", w.color[w.kid[k][z]] = "red"
                 PROVE  FALSE
      BY DEF RedApart
    <3>1. t.color[z] = "red" /\ z \in S
      BY <1>8, <1>13
    <3>2. t.kid[k][z] # x
      BY <1>10, <1>14, <3>1
    <3>3. w.kid[k][z] = t.kid[k][z]
      BY <1>8, <1>13, <3>2
    <3>4. t.color[t.kid[k][z]] = "red"
      BY <1>8, <1>11, <3>1, <3>2, <3>3
    <3> QED
      BY <1>10, <3>1, <3>4
  <2>3. w.color[w.root] = "black"
    <3>1. t.root # x /\ t.root \in Node
      BY <1>0, <1>1, <1>14, TreeType
    <3> QED
      BY <1>0, <1>8, <3>1
  <2>4. Sound(w, R, sub1, bh)
    BY <1>5, <1>8, <2>1, <2>2, <2>3 DEF Sound
  <2>5. Unlink(t, x) = w
    BY <1>2, <1>14 DEF Fixup, w
  <2> QED
    BY <2>4, <2>5 DEF RedBlackTree
<1>15. CASE t.color[x] = "black" /\ t.color[c] = "red"
  <2> DEFINE w2 == Paint(w, c, "black")
             bh2 == [bh EXCEPT ![c] = bh[c] + 1]
  <2>1. c # Nil /\ c \in R
    <3>1. t.color[Nil] = "black"
      BY <1>0, <1>1, KeyAssumption DEF Shape, Cleared, Divided
    <3> QED
      BY <1>6, <1>15, <3>1
  <2>2. Aside(r, x, w2, Paint(r, c, "black"))
    BY <1>1, <1>4, <1>6, AsidePaint DEF Color, w
  <2>3. Unlink(t, x) = w2
    BY <1>2, <1>15, <2>2 DEF Fixup, Aside
  <2>4. Painted(w, c, "black", w2)
    BY <1>1, <1>8, PaintIs DEF Color
  <2>5. Shape(w2, R, sub1, Identity)
    BY <1>1, <1>5, <2>4, PaintShape DEF Color
  <2>6. /\ w2.root = w.root /\ w2.kid = w.kid /\ w2.ok
        /\ \A z \in Node : w2.color[z] = IF z = c THEN "black" ELSE w.color[z]
    BY <1>8, <2>4 DEF Painted
  <2> HIDE DEF w2
  <2>7. bh2 \in [Node -> Nat] /\ bh2[Nil] = 0 /\ \A z \in Node : bh2[z] = IF z = c THEN bh[c] + 1 ELSE bh[z]
    BY <1>1, <1>9, <2>1
  <2> HIDE DEF bh2
  <2>8. Even(w2, R, bh2)
    <3>1. ASSUME NEW z \in R, NEW k \in Side PROVE bh2[z] = bh2[w2.kid[k][z]] + Blk(w2, z)
      <4>1. bh[x] = bh[c] + 1
        BY <1>9, <1>15, <1>1 DEF Blk
      <4>2. bh2[w2.kid[k][z]] = bh[t.kid[k][z]]
        <5>1. CASE t.kid[k][z] = x
          BY <1>1, <1>8, <1>13, <2>6, <2>7, <4>1, <5>1
        <5>2. CASE t.kid[k][z] # x
          <6>1. t.kid[k][z] # c
            BY <1>0, <1>1, <1>13, <2>1, OneParent DEF c
          <6> QED
            BY <1>8, <1>11, <1>13, <2>6, <2>7, <5>2, <6>1
        <5> QED
          BY <5>1, <5>2
      <4>3. bh[z] = bh[t.kid[k][z]] + Blk(t, z) /\ bh[t.kid[k][z]] \in Nat
        BY <1>9, <1>11, <1>13
      <4>4. CASE z = c
        <5>1. Blk(t, z) = 0 /\ Blk(w2, z) = 1 /\ bh2[z] = bh[z] + 1
          BY <1>13, <1>15, <2>6, <2>7, <4>4 DEF Blk
        <5> QED
          BY <4>2, <4>3, <5>1
      <4>5. CASE z # c
        <5>1. Blk(w2, z) = Blk(t, z) /\ bh2[z] = bh[z]
          BY <1>13, <1>8, <2>6, <2>7, <4>5 DEF Blk
        <5> QED
          BY <4>2, <4>3, <5>1
      <4> QED
        BY <4>4, <4>5
    <3> QED
      BY <2>7, <3>1 DEF Even
  <2>9. RedApart(w2, R, Nil)
    <3> SUFFICES ASSUME NEW z \in R, NEW k \in Side, w2.color[z] = "red", w2.color[w2.kid[k][z]] = "red"
                 PROVE  FALSE
      BY DEF RedApart
    <3>1. t.color[z] = "red" /\ z \in S /\ z \in Node /\ z # x
      BY <1>8, <1>13, <2>6
    <3>2. t.kid[k][z] # x
      <4>1. w2.color[c] = "black"
        BY <1>1, <2>6
      <4> QED
        BY <1>8, <2>6, <3>1, <4>1
    <3>3. w2.kid[k][z] = t.kid[k][z]
      BY <1>8, <2>6, <3>1, <3>2
    <3>4. t.color[t.kid[k][z]] = "red"
      BY <1>8, <1>11, <2>6, <3>1, <3>2, <3>3
    <3> QED
      BY <1>10, <3>1, <3>4
  <2>10. w2.color[w2.root] = "black"
    <3>1. w2.root \in Node
      BY <1>8, <2>6, TreeType
    <3> QED
      BY <1>0, <1>1, <1>8, <2>6, <3>1
  <2>11. Sound(w2, R, sub1, bh2)
    BY <2>5, <2>6, <2>8, <2>9, <2>10 DEF Sound
  <2> QED
    BY <2>3, <2>11 DEF RedBlackTree
<1>16. CASE t.color[x] = "black" /\ t.color[c] = "black"
  <2>1. p = Nil <=> x = t.root
    BY <1>0, ParentNil DEF p
  <2>2. p # Nil => p \in S /\ p # x /\ t.kid[d][p] = x
    <3>1. p # Nil => p \in S /\ p \notin sub[x] /\ x \in sub[x] /\ \E k \in Side : t.kid[k][p] = x
      BY <1>0, ParentNil DEF p, Shape, Divided
    <3>2. ASSUME NEW k \in Side, t.kid[k][p] = x PROVE t.kid[d][p] = x
      BY <3>2 DEF Side, d
    <3> QED
      BY <3>1, <3>2
  <2>3. ASSUME NEW z \in R, NEW k \in Side
        PROVE  bh[z] = bh[w.kid[k][z]] + Blk(w, z) + Lack(z, k, p, d)
    <3>1. CASE t.kid[k][z] = x
      <4>1. z = p /\ k = d
        <5>1. t.parent[x] = z
          BY <1>0, <1>1, <1>13, <3>1, OneParent
        <5>2. z # Nil
          BY <1>13, KeyAssumption, <1>0 DEF Shape, Divided
        <5>3. t.kid[d][z] = x
          BY <2>2, <5>1, <5>2 DEF p
        <5> QED
          BY <1>0, <1>1, <1>13, <3>1, <5>1, <5>3, OneParent DEF p
      <4>2. bh[x] = bh[c] + 1 /\ bh[c] \in Nat
        BY <1>9, <1>16, <1>1 DEF Blk
      <4>3. w.kid[k][z] = c
        BY <1>8, <1>13, <3>1
      <4>4. Lack(z, k, p, d) = 1
        BY <4>1 DEF Lack
      <4>5. bh[z] = bh[x] + Blk(t, z) /\ Blk(w, z) = Blk(t, z) /\ Blk(t, z) \in Nat
        BY <1>9, <1>13, <3>1 DEF Blk
      <4> QED
        BY <4>2, <4>3, <4>4, <4>5
    <3>2. CASE t.kid[k][z] # x
      <4>1. ~(z = p /\ k = d)
        <5>1. z # Nil
          BY <1>13, KeyAssumption, <1>0 DEF Shape, Divided
        <5> QED
          BY <2>2, <3>2, <5>1
      <4>2. Lack(z, k, p, d) = 0
        BY <4>1 DEF Lack
      <4>3. w.kid[k][z] = t.kid[k][z]
        BY <1>8, <1>13, <3>2
      <4>4. bh[z] = bh[t.kid[k][z]] + Blk(t, z) /\ Blk(w, z) = Blk(t, z) /\ Blk(t, z) \in Nat
            /\ bh[t.kid[k][z]] \in Nat
        BY <1>9, <1>11, <1>13 DEF Blk
      <4> QED
        BY <4>2, <4>3, <4>4
    <3> QED
      BY <3>1, <3>2
  <2>4. RedApart(w, R, Nil)
    <3> SUFFICES ASSUME NEW z \in R, NEW k \in Side, w.color[z] = "red", w.color[w.kid[k][z]] = "red"
                 PROVE  FALSE
      BY DEF RedApart
    <3>1. t.color[z] = "red" /\ z \in S
      BY <1>8, <1>13
    <3>2. t.kid[k][z] # x
      BY <1>1, <1>6, <1>8, <1>13, <1>16
    <3>3. w.kid[k][z] = t.kid[k][z]
      BY <1>8, <1>13, <3>2
    <3>4. t.color[t.kid[k][z]] = "red"
      BY <1>8, <1>11, <3>1, <3>2, <3>3
    <3> QED
      BY <1>10, <3>1, <3>4
  <2>5. w.color[w.root] = "black" /\ w.color[c] = "black"
    <3>1. t.root \in Node
      BY <1>1, TreeType
    <3> QED
      BY <1>0, <1>1, <1>6, <1>8, <1>16, <3>1
  <2>6. p \in R \cup {Nil}
    BY <2>2
  <2>7. IF p = Nil THEN c = w.root ELSE c = w.kid[d][p]
    BY <1>1, <1>8, <2>1, <2>2
  <2>8. Lacking(w, R, sub1, bh, c, p, d)
    BY <1>1, <1>5, <1>8, <1>9, <2>3, <2>4, <2>5, <2>6, <2>7 DEF Lacking
  <2>9. RedBlackTree(Wipe(rbtree_delete_fixup(r, c, p), x), R)
    <3>1. x \notin R
      OBVIOUS
    <3> HIDE DEF R
    <3> QED
      BY <1>4, <2>8, <3>1, DeleteFixup DEF w
  <2>10. Unlink(t, x) = Wipe(rbtree_delete_fixup(r, c, p), x)
    BY <1>2, <1>16 DEF Fixup
  <2> QED
    BY <2>9, <2>10
<1> QED
  BY <1>1, <1>12, <1>14, <1>15, <1>16

-----------------------------------------------------------------------------
(* The next node.                                                          *)

\* f is the way down to the left from every node.
LeftDescent(t, f) ==
  \A x \in Node : f[x] = IF t.kid["l"][x] = Nil THEN x ELSE f[t.kid["l"][x]]

LEMMA LeftmostIs ==
  ASSUME NEW t \in Tree
  PROVE  \E f : LeftDescent(t, f) /\ \A x \in Node : Leftmost(t, x) = f[x]
<1> DEFINE stop == {x \in Node : t.kid["l"][x] = Nil}
           res == [x \in Node |-> x]
           next == [x \in Node |-> t.kid["l"][x]]
           Is(g) == g = [x \in Node |-> IF t.kid["l"][x] = Nil THEN x ELSE g[t.kid["l"][x]]]
           f == CHOOSE g : Is(g)
<1>1. next \in [Node -> Node]
  BY TreeType DEF Side
<1>2. Looped(Node, stop, res, next)
  <2> HIDE DEF stop, res, next
  <2>1. stop \in SUBSET Node
    BY DEF stop
  <2> QED
    BY <1>1, <2>1, Loop
<1>3. PICK g : g = [x \in Node |-> IF x \in stop THEN res[x] ELSE g[next[x]]]
  BY <1>2 DEF Looped
<1>4. Is(g)
  BY <1>3
<1>5. Is(f)
  BY <1>4
<1>6. \A x \in Node : Leftmost(t, x) = f[x]
  BY DEF Leftmost
<1>7. LeftDescent(t, f)
  <2> HIDE DEF f
  <2> QED
    BY <1>5 DEF LeftDescent
<1> QED
  BY <1>6, <1>7

\* v is the first of the nodes below and at x, and has no left child.
First(t, S, sub, at, x, v) ==
  /\ v \in S /\ v \in sub[x] /\ t.kid["l"][v] = Nil
  /\ \A k \in sub[x] : k # v => Before(at, "l", v, k)

LEMMA LeftDescentGoes ==
  ASSUME NEW t, NEW S, NEW sub, NEW at, Shape(t, S, sub, at), NEW f, LeftDescent(t, f), NEW x \in S
  PROVE  First(t, S, sub, at, x, f[x])
<1> SUFFICES ASSUME ~First(t, S, sub, at, x, f[x]) PROVE FALSE
  OBVIOUS
<1> DEFINE B == {z \in S : ~First(t, S, sub, at, z, f[z])}
<1>1. PICK z \in B : \A d \in Side : t.kid[d][z] \notin B
  <2>1. B \in SUBSET S /\ B # {}
    OBVIOUS
  <2> HIDE DEF B
  <2> QED
    BY <2>1, LowestIs
<1>2. z \in S /\ z \in Node /\ "l" \in Side /\ Other("l") = "r" /\ "r" \in Side /\ S \subseteq Key
  BY DEF Shape, Divided, Node, Side, Other
<1> DEFINE u == t.kid["l"][z]
<1>3. Parted(t, S, sub, z, "l")
  BY <1>2, Below
<1>4. Labels(at) /\ sub \in [Node -> SUBSET S] /\ sub[Nil] = {}
  BY DEF Shape, Divided
<1>5. ASSUME NEW k \in sub[t.kid["r"][z]] PROVE Before(at, "l", z, k) /\ k \in S
  <2>1. t.kid["r"][z] \in Node
    BY <1>2, TreeType DEF Shape
  <2>2. k \in S
    BY <1>4, <2>1
  <2>3. Before(at, "r", k, z)
    BY <1>2, <2>2, <1>5 DEF Shape, Divided
  <2> QED
    BY <2>2, <2>3 DEF Before
<1>6. ASSUME NEW k \in sub[u] PROVE Before(at, "l", k, z) /\ k \in S
  <2>1. k \in S
    BY <1>2, <1>3, <1>4 DEF Parted
  <2> QED
    BY <1>2, <2>1, <1>6 DEF Shape, Divided
<1>7. First(t, S, sub, at, z, f[z])
  <2>1. CASE u = Nil
    <3>1. f[z] = z
      BY <1>2, <2>1 DEF LeftDescent
    <3>2. z \in sub[z] /\ \A k \in sub[z] : k = z \/ k \in sub[t.kid["r"][z]]
      BY <1>2, <1>3, <1>4, <2>1 DEF Parted
    <3> QED
      BY <1>2, <1>5, <2>1, <3>1, <3>2 DEF First
  <2>2. CASE u # Nil
    <3>1. f[z] = f[u]
      BY <1>2, <2>2 DEF LeftDescent
    <3>2. First(t, S, sub, at, u, f[u])
      BY <1>1, <1>2, <1>3, <2>2 DEF Parted
    <3> DEFINE v == f[u]
    <3>3. v \in S /\ v \in sub[u] /\ t.kid["l"][v] = Nil
          /\ \A k \in sub[u] : k # v => Before(at, "l", v, k)
      BY <3>2 DEF First
    <3> HIDE DEF v
    <3>4. Before(at, "l", v, z)
      BY <1>6, <3>3
    <3>5. v \in sub[z]
      BY <1>3, <3>3 DEF Parted
    <3>6. ASSUME NEW k \in sub[z], k # v PROVE Before(at, "l", v, k)
      <4>1. k = z \/ k \in sub[u] \/ k \in sub[t.kid["r"][z]]
        BY <1>2, <1>3 DEF Parted
      <4>2. k \in sub[t.kid["r"][z]] => Before(at, "l", v, k)
        BY <1>2, <1>4, <1>5, <3>3, <3>4, Order
      <4> QED
        BY <3>3, <3>4, <3>6, <4>1, <4>2
    <3> QED
      BY <3>1, <3>3, <3>5, <3>6 DEF First, v
  <2> QED
    BY <2>1, <2>2
<1> QED
  BY <1>1, <1>7

\* Leftmost finds the first of the nodes below and at x.
LEMMA LeftmostFirst ==
  ASSUME NEW t, NEW S, NEW sub, NEW at, Shape(t, S, sub, at), NEW x \in S
  PROVE  First(t, S, sub, at, x, Leftmost(t, x))
<1>1. t \in Tree /\ x \in Node
  BY DEF Shape, Divided, Node
<1>2. PICK f : LeftDescent(t, f) /\ Leftmost(t, x) = f[x]
  BY <1>1, LeftmostIs
<1> QED
  BY <1>2, LeftDescentGoes

\* A node k that is not below x is on the same side of all that are.
LEMMA Outside ==
  ASSUME NEW t, NEW S, NEW sub, NEW at, Shape(t, S, sub, at), NEW x \in S, NEW k \in S, k \notin sub[x]
  PROVE  \E d \in Side : \A a \in sub[x] : Before(at, d, a, k)
<1> DEFINE B == {z \in S : k \in sub[z] /\ x \in sub[z]}
<1>1. PICK z \in B : \A d \in Side : t.kid[d][z] \notin B
  <2>1. t.root \in S /\ sub[t.root] = S
    BY DEF Shape, Divided, Chained
  <2>2. B \in SUBSET S /\ B # {}
    BY <2>1
  <2> HIDE DEF B
  <2> QED
    BY <2>2, LowestIs
<1>2. z \in S /\ k \in sub[z] /\ x \in sub[z] /\ z # x /\ S \subseteq Key
  BY DEF Shape, Divided
<1>3. PICK d \in Side : x \in sub[t.kid[d][z]] /\ t.kid[d][z] \in S
  BY <1>2, BelowKid
<1>4. sub[x] \subseteq sub[t.kid[d][z]]
  BY <1>3, Nested
<1>5. k \notin sub[t.kid[d][z]]
  BY <1>1, <1>3
<1>6. sub[t.kid[d][z]] \subseteq S
  BY <1>3 DEF Shape, Divided, Node
<1>7. Labels(at) /\ Other(d) \in Side
  BY Sides DEF Shape, Divided
<1>8. k = z \/ Before(at, d, z, k)
  <2>1. k # z => ~Before(at, d, k, z)
    BY <1>2, <1>5 DEF Shape, Divided
  <2> QED
    BY <1>2, <1>7, <2>1, Order
<1>9. ASSUME NEW a \in sub[x] PROVE Before(at, d, a, k)
  <2>1. a \in S /\ Before(at, d, a, z)
    BY <1>2, <1>3, <1>4, <1>6 DEF Shape, Divided
  <2> QED
    BY <1>2, <1>7, <1>8, <2>1, Order
<1> QED
  BY <1>9

\* y comes next after x in S.
IsNext(S, x, y) == y \in S /\ x < y /\ \A k \in S : x < k => y <= k

\* With a right child, the next node is below it.
LEMMA NextBelow ==
  ASSUME NEW t, NEW S, NEW sub, Shape(t, S, sub, Identity), NEW x \in S, t.kid["r"][x] # Nil
  PROVE  LET y == Leftmost(t, t.kid["r"][x])
         IN IsNext(S, x, y) /\ y \in sub[t.kid["r"][x]] /\ t.kid["l"][y] = Nil
<1> DEFINE u == t.kid["r"][x]
           y == Leftmost(t, u)
<1>1. S \subseteq Key /\ Key \subseteq Int /\ x \in Node /\ "r" \in Side /\ Other("r") = "l"
  BY KeyAssumption DEF Shape, Divided, Node, Side, Other
<1>2. Parted(t, S, sub, x, "r")
  BY <1>1, Below
<1>3. u \in S /\ u \in Node /\ sub[u] \subseteq sub[x] /\ x \in sub[x]
  BY <1>2 DEF Parted
<1>4. First(t, S, sub, Identity, u, y)
  BY <1>3, LeftmostFirst
<1> HIDE DEF y
<1>5. y \in S /\ y \in sub[u] /\ t.kid["l"][y] = Nil
  BY <1>4 DEF First
<1>6. \A j, k \in S : Before(Identity, "l", j, k) <=> j < k
  BY <1>1 DEF Before, Identity
<1>7. \A j, k \in S : Before(Identity, "r", j, k) <=> k < j
  BY <1>1 DEF Before, Identity
<1>8. \A k \in S : k \in sub[u] <=> k \in sub[x] /\ x < k
  BY <1>1, <1>7 DEF Shape, Divided
<1>9. ASSUME NEW k \in S, x < k PROVE y <= k
  <2>1. CASE k \in sub[x]
    <3>1. k = y \/ Before(Identity, "l", y, k)
      BY <1>4, <1>8, <1>9, <2>1 DEF First
    <3>2. y \in Int /\ k \in Int /\ (k = y \/ y < k)
      BY <1>1, <1>5, <1>6, <3>1
    <3> QED
      BY <3>2
  <2>2. CASE k \notin sub[x]
    <3>1. PICK d \in Side : \A a \in sub[x] : Before(Identity, d, a, k)
      BY <2>2, Outside
    <3>2. Before(Identity, d, x, k) /\ Before(Identity, d, y, k)
      BY <1>3, <1>5, <3>1
    <3>3. d = "l"
      BY <1>1, <1>7, <1>9, <3>2 DEF Side
    <3>4. y \in Int /\ k \in Int /\ y < k
      BY <1>1, <1>5, <1>6, <3>2, <3>3
    <3> QED
      BY <3>4
  <2> QED
    BY <2>1, <2>2
<1>10. x < y
  BY <1>5, <1>8
<1> QED
  BY <1>5, <1>9, <1>10 DEF IsNext, y

-----------------------------------------------------------------------------
(* Exchanging a node with the next.                                        *)

Swapped(x, y, z) == IF z = x THEN y ELSE IF z = y THEN x ELSE z

\* The tree with x and y in each other's place.
Renamed(t, x, y, r) ==
  /\ r \in Tree /\ r.ok /\ r.root = Swapped(x, y, t.root)
  /\ \A z \in Node : /\ r.color[z] = t.color[Swapped(x, y, z)]
                     /\ r.parent[z] = Swapped(x, y, t.parent[Swapped(x, y, z)])
  /\ \A c \in Side, z \in Node : r.kid[c][z] = Swapped(x, y, t.kid[c][Swapped(x, y, z)])

SwapAt(x, y) == [k \in Key |-> Swapped(x, y, k)]

\* It is as red-black as before, for the labels exchanged too.
LEMMA RenamedProper ==
  ASSUME NEW t, NEW S, NEW sub, NEW bh, Sound(t, S, sub, bh), NEW x \in S, NEW y \in S,
         NEW r, Renamed(t, x, y, r)
  PROVE  \E sub1, bh1 : Proper(r, S, sub1, bh1, SwapAt(x, y))
<1> DEFINE at == SwapAt(x, y)
           pi(z) == Swapped(x, y, z)
           sub1 == [z \in Node |-> {k \in S : pi(k) \in sub[pi(z)]}]
           bh1 == [z \in Node |-> bh[pi(z)]]
<1>1. /\ t \in Tree /\ Divided(t, S, sub, Identity) /\ Chained(t, S) /\ Cleared(t, S)
      /\ S \subseteq Key /\ S \subseteq Node /\ sub \in [Node -> SUBSET S] /\ sub[Nil] = {}
      /\ sub[t.root] = S /\ x # Nil /\ y # Nil /\ Key \subseteq Int /\ Key \subseteq Node /\ Nil \in Node
  BY KeyAssumption DEF Sound, Shape, Divided, Node
<1>2. /\ \A z \in Node : pi(z) \in Node /\ pi(pi(z)) = z
      /\ \A z \in Node : (z \in S <=> pi(z) \in S) /\ (z = Nil <=> pi(z) = Nil)
      /\ \A z \in Node : z \notin S => pi(z) = z
      /\ \A z \in Key : pi(z) \in Key
  BY <1>1 DEF Swapped
<1>3. /\ r \in Tree /\ r.ok /\ r.root = pi(t.root)
      /\ \A z \in Node : r.color[z] = t.color[pi(z)] /\ r.parent[z] = pi(t.parent[pi(z)])
      /\ \A c \in Side, z \in Node : r.kid[c][z] = pi(t.kid[c][pi(z)])
  BY DEF Renamed
<1>4. at \in [Key -> Int] /\ \A k \in Key : at[k] = pi(k)
  BY <1>1, <1>2 DEF SwapAt
<1> HIDE DEF pi, at
<1>5. /\ t.root \in Node /\ \A z \in Node : t.parent[z] \in Node
      /\ \A c \in Side, z \in Node : t.kid[c][z] \in Node
  BY <1>1, TreeType
<1>6. /\ t.root \in S \cup {Nil} /\ (t.root # Nil => t.parent[t.root] = Nil)
      /\ \A z \in S, d \in Side : t.kid[d][z] \in S \cup {Nil}
      /\ \A z \in S, d \in Side : t.kid[d][z] # Nil => t.parent[t.kid[d][z]] = z
  BY <1>1 DEF Chained
<1>15. \A z \in S : z \in Node /\ pi(z) \in S /\ pi(z) \in Node
  <2> TAKE z \in S
  <2>1. z \in Node
    BY <1>1
  <2> QED
    BY <1>2, <2>1
<1>16. ASSUME NEW z \in S, NEW c \in Side
       PROVE  r.kid[c][z] \in Node /\ pi(r.kid[c][z]) = t.kid[c][pi(z)] /\ r.kid[c][z] \in S \cup {Nil}
  <2>1. r.kid[c][z] = pi(t.kid[c][pi(z)]) /\ t.kid[c][pi(z)] \in Node /\ t.kid[c][pi(z)] \in S \cup {Nil}
    BY <1>3, <1>5, <1>6, <1>15
  <2>2. pi(Nil) = Nil
    BY <1>1, <1>2
  <2> QED
    BY <1>2, <2>1, <2>2
<1>7. Divided(r, S, sub1, at)
  <2>1. Labels(at)
    <3> SUFFICES ASSUME NEW j \in Key, NEW k \in Key, at[j] = at[k] PROVE j = k
      BY <1>4 DEF Labels
    <3> QED
      BY <1>1, <1>2, <1>4
  <2>2. /\ \A z \in Node : sub1[z] = {k \in S : pi(k) \in sub[pi(z)]}
        /\ sub1 \in [Node -> SUBSET S]
    OBVIOUS
  <2> HIDE DEF sub1
  <2>3. sub1[Nil] = {}
    BY <1>1, <1>2, <2>2
  <2>4. sub1[r.root] = S
    <3>1. pi(r.root) = t.root /\ r.root \in Node
      BY <1>2, <1>3, <1>5
    <3>2. sub[pi(r.root)] = S
      BY <1>1, <3>1
    <3>3. \A k \in S : k \in sub1[r.root]
      BY <1>15, <2>2, <3>1, <3>2
    <3>4. sub1[r.root] \subseteq S
      BY <2>2, <3>1
    <3> QED
      BY <3>3, <3>4
  <2>5. \A z \in S : z \in sub1[z]
    BY <1>1, <1>2, <2>2 DEF Divided
  <2>6. ASSUME NEW z \in S, NEW d \in Side, NEW k \in S
        PROVE  k \in sub1[r.kid[d][z]] <=> k \in sub1[z] /\ Before(at, d, k, z)
    <3>1. z \in Node /\ k \in Node /\ pi(z) \in S /\ pi(k) \in S /\ pi(z) \in Node /\ pi(k) \in Key /\ pi(z) \in Key
      BY <1>1, <1>2
    <3>2. pi(k) \in sub[t.kid[d][pi(z)]] <=> pi(k) \in sub[pi(z)] /\ Before(Identity, d, pi(k), pi(z))
      BY <1>1, <3>1 DEF Divided
    <3>3. Before(Identity, d, pi(k), pi(z)) <=> Before(at, d, k, z)
      BY <1>1, <1>4, <3>1 DEF Before, Identity
    <3>4. r.kid[d][z] \in Node /\ pi(r.kid[d][z]) = t.kid[d][pi(z)]
      BY <1>2, <1>3, <1>5, <3>1
    <3> QED
      BY <2>2, <3>1, <3>2, <3>3, <3>4
  <2> QED
    BY <1>1, <2>1, <2>2, <2>3, <2>4, <2>5, <2>6 DEF Divided
<1>8. Chained(r, S)
  <2>1. r.root \in S \cup {Nil} /\ (r.root # Nil => r.parent[r.root] = Nil)
    <3>1. ASSUME t.root # Nil PROVE r.root \in S /\ r.parent[r.root] = Nil
      <4>1. t.root \in S /\ t.parent[t.root] = Nil
        BY <1>6, <3>1
      <4>2. r.root \in S /\ pi(r.root) = t.root /\ r.root \in Node
        BY <1>2, <1>3, <1>15, <4>1
      <4>3. pi(Nil) = Nil
        BY <1>1, <1>2
      <4> QED
        BY <1>3, <4>1, <4>2, <4>3
    <3>2. t.root = Nil => r.root = Nil
      BY <1>1, <1>2, <1>3
    <3> QED
      BY <3>1, <3>2
  <2>2. \A z \in S, d \in Side : r.kid[d][z] \in S \cup {Nil}
    BY <1>16
  <2>3. ASSUME NEW z \in S, NEW d \in Side, r.kid[d][z] # Nil PROVE r.parent[r.kid[d][z]] = z
    <3>1. pi(z) \in S /\ z \in Node
      BY <1>15
    <3>2. t.kid[d][pi(z)] # Nil /\ pi(r.kid[d][z]) = t.kid[d][pi(z)] /\ r.kid[d][z] \in Node
      BY <1>2, <1>16, <2>3
    <3>3. t.parent[t.kid[d][pi(z)]] = pi(z)
      BY <1>6, <3>1, <3>2
    <3> QED
      BY <1>2, <1>3, <3>1, <3>2, <3>3
  <2> QED
    BY <2>1, <2>2, <2>3 DEF Chained
<1>9. Cleared(r, S)
  <2> SUFFICES ASSUME NEW z \in Node \ S
               PROVE  r.color[z] = "black" /\ r.parent[z] = Nil /\ \A d \in Side : r.kid[d][z] = Nil
    BY DEF Cleared
  <2>1. pi(z) = z /\ pi(Nil) = Nil
    BY <1>1, <1>2
  <2>2. t.color[z] = "black" /\ t.parent[z] = Nil /\ \A d \in Side : t.kid[d][z] = Nil
    BY <1>1 DEF Cleared
  <2> QED
    BY <1>3, <2>1, <2>2
<1>10. Even(r, S, bh1)
  <2>1. bh \in [Node -> Nat] /\ bh[Nil] = 0 /\ \A z \in S, c \in Side : bh[z] = bh[t.kid[c][z]] + Blk(t, z)
    BY DEF Sound, Even
  <2>2. bh1 \in [Node -> Nat] /\ \A z \in Node : bh1[z] = bh[pi(z)]
    BY <1>2, <2>1
  <2> HIDE DEF bh1
  <2>3. bh1[Nil] = 0
    BY <1>1, <1>2, <2>1, <2>2
  <2>4. ASSUME NEW z \in S, NEW c \in Side PROVE bh1[z] = bh1[r.kid[c][z]] + Blk(r, z)
    <3>1. pi(z) \in S /\ z \in Node /\ r.kid[c][z] \in Node /\ pi(r.kid[c][z]) = t.kid[c][pi(z)]
      BY <1>15, <1>16
    <3>2. Blk(r, z) = Blk(t, pi(z))
      BY <1>3, <3>1 DEF Blk
    <3> QED
      BY <2>1, <2>2, <3>1, <3>2
  <2> QED
    BY <2>2, <2>3, <2>4 DEF Even
<1>11. RedApart(r, S, Nil)
  <2> SUFFICES ASSUME NEW z \in S, NEW c \in Side, r.color[z] = "red", r.color[r.kid[c][z]] = "red"
               PROVE  FALSE
    BY DEF RedApart
  <2>1. pi(z) \in S /\ z \in Node /\ r.kid[c][z] \in Node /\ pi(r.kid[c][z]) = t.kid[c][pi(z)]
    BY <1>15, <1>16
  <2>2. t.color[pi(z)] = "red" /\ t.color[t.kid[c][pi(z)]] = "red"
    BY <1>3, <2>1
  <2>3. \A v \in S, d \in Side : ~(t.color[v] = "red" /\ t.color[t.kid[d][v]] = "red")
    BY NoRedPair DEF Sound
  <2> QED
    BY <2>1, <2>2, <2>3
<1>12. r.color[r.root] = "black"
  <2>1. r.root \in Node /\ pi(r.root) = t.root
    BY <1>2, <1>3, <1>5
  <2> QED
    BY <1>3, <2>1 DEF Sound
<1>13. Proper(r, S, sub1, bh1, at)
  BY <1>3, <1>7, <1>8, <1>9, <1>10, <1>11, <1>12 DEF Proper, Shape
<1> QED
  BY <1>13 DEF at

\* Without x, the next node in its place is in order.
LEMMA SwapAgrees ==
  ASSUME NEW S \in SUBSET Key, NEW x \in S, NEW y, IsNext(S, x, y)
  PROVE  Agree(SwapAt(x, y), S \ {x})
<1> DEFINE at == SwapAt(x, y)
<1>1. y \in S /\ x < y /\ (\A k \in S : x < k => y <= k) /\ S \subseteq Int /\ Key \subseteq Int
  BY KeyAssumption DEF IsNext
<1>2. \A k \in S \ {x} : at[k] = (IF k = y THEN x ELSE k) /\ Identity[k] = k
  BY DEF SwapAt, Swapped, Identity
<1> HIDE DEF at
<1>3. ASSUME NEW k \in S \ {x}, NEW z \in S \ {x} PROVE at[k] < at[z] <=> k < z
  <2>1. k \in Int /\ z \in Int /\ x \in Int /\ y \in Int
    BY <1>1
  <2>2. k # x /\ z # x /\ (x < k => y <= k) /\ (x < z => y <= z)
    BY <1>1
  <2> QED
    BY <1>1, <1>2, <2>1, <2>2
<1>4. ASSUME NEW d \in Side, NEW k \in S \ {x}, NEW z \in S \ {x}
      PROVE  Before(at, d, k, z) <=> Before(Identity, d, k, z)
  BY <1>2, <1>3 DEF Before
<1> QED
  BY <1>4 DEF Agree, at

\* What the swaps of the fields of x and y do.
FieldsSwapped(t, x, y, r) ==
  /\ r \in Tree /\ r.root = t.root /\ r.color = t.color /\ r.ok = t.ok
  /\ \A z \in Node : r.parent[z] = t.parent[Swapped(x, y, z)]
  /\ \A c \in Side, z \in Node : r.kid[c][z] = t.kid[c][Swapped(x, y, z)]

LEMMA SwapFieldsIs ==
  ASSUME NEW t \in Tree, NEW x \in Node, NEW y \in Node
  PROVE  FieldsSwapped(t, x, y, SwapFields(t, x, y))
<1> DEFINE Swap(f) == [f EXCEPT ![x] = f[y], ![y] = f[x]]
           par == Swap(t.parent)
           kid == [d \in Side |-> Swap(t.kid[d])]
           r == SwapFields(t, x, y)
<1>1. ASSUME NEW f \in [Node -> Node]
      PROVE  Swap(f) \in [Node -> Node] /\ \A z \in Node : Swap(f)[z] = f[Swapped(x, y, z)]
  BY DEF Swapped
<1>2. t.parent \in [Node -> Node] /\ \A d \in Side : t.kid[d] \in [Node -> Node]
  BY DEF Tree
<1>3. r = [t EXCEPT !.parent = par, !.kid = kid]
  BY DEF SwapFields
<1> HIDE DEF Swap
<1>4. par \in [Node -> Node] /\ \A z \in Node : par[z] = t.parent[Swapped(x, y, z)]
  BY <1>1, <1>2
<1>5. kid \in [Side -> [Node -> Node]] /\ \A d \in Side, z \in Node : kid[d][z] = t.kid[d][Swapped(x, y, z)]
  BY <1>1, <1>2
<1> HIDE DEF par, kid
<1>6. r \in Tree /\ r.root = t.root /\ r.color = t.color /\ r.ok = t.ok /\ r.parent = par /\ r.kid = kid
  BY <1>3, <1>4, <1>5 DEF Tree
<1> QED
  BY <1>4, <1>5, <1>6 DEF FieldsSwapped

\* Node x and the next, y, below its right child: what of the tree their
\* exchange depends on.
Exchange(t, S, x, y) ==
  /\ t \in Tree /\ t.ok /\ x \in S /\ y \in S /\ S \subseteq Node /\ Nil \in Node /\ Nil \notin S
  /\ x # y /\ t.root # y /\ (t.parent[x] = Nil <=> t.root = x)
  /\ t.kid["l"][y] = Nil /\ t.kid["l"][x] # Nil /\ t.kid["r"][x] # Nil
  /\ t.kid["l"][x] \notin {x, y, t.kid["r"][x]} /\ t.kid["r"][x] # x /\ t.kid["r"][y] \notin {x, y}
  /\ t.parent[y] # Nil /\ t.parent[y] # t.parent[x] /\ t.parent[x] \notin {x, y}
  /\ t.parent[x] # Nil => \E c \in Side : t.kid[c][t.parent[x]] = x
  /\ \E c \in Side : t.kid[c][t.parent[y]] = y
  /\ t.parent[y] = x <=> t.kid["r"][x] = y
  /\ \A z \in Node, c \in Side : t.kid[c][z] = x => z = t.parent[x] /\ z # Nil
  /\ \A z \in Node, c \in Side : t.kid[c][z] = y => z = t.parent[y]
  /\ \A z \in Node : t.parent[z] = x <=> z \in {t.kid["l"][x], t.kid["r"][x]}
  /\ \A z \in Node : t.parent[z] = y <=> z = t.kid["r"][y] /\ z # Nil

LEMMA Parentage ==
  ASSUME NEW t, NEW S, NEW sub, NEW at, Shape(t, S, sub, at), NEW x \in S
  PROVE  /\ \A z \in Node, c \in Side : t.kid[c][z] = x => z = t.parent[x] /\ z # Nil
         /\ \A z \in Node : t.parent[z] = x <=> z # Nil /\ \E c \in Side : t.kid[c][x] = z
<1>1. S \subseteq Node /\ x # Nil
  BY KeyAssumption DEF Shape, Divided, Node
<1>2. ASSUME NEW z \in Node, NEW c \in Side, t.kid[c][z] = x PROVE z = t.parent[x] /\ z # Nil
  <2>1. z \in S
    BY <1>1, <1>2 DEF Shape, Cleared
  <2>2. t.parent[x] = z
    BY <1>1, <1>2, <2>1, OneParent
  <2> QED
    BY <2>1, <2>2, KeyAssumption DEF Shape, Divided
<1>3. ASSUME NEW z \in Node, t.parent[z] = x PROVE z # Nil /\ \E c \in Side : t.kid[c][x] = z
  <2>1. z \in S
    BY <1>1, <1>3 DEF Shape, Cleared
  <2>2. z # Nil /\ t.parent[z] # Nil
    BY <1>1, <1>3, <2>1, KeyAssumption DEF Shape, Divided
  <2>3. \E c \in Side : t.kid[c][t.parent[z]] = z
    BY <2>1, <2>2, ParentNil
  <2> QED
    BY <1>3, <2>2, <2>3
<1>4. ASSUME NEW z \in Node, z # Nil, NEW c \in Side, t.kid[c][x] = z PROVE t.parent[z] = x
  BY <1>4 DEF Shape, Chained
<1> QED
  BY <1>2, <1>3, <1>4

LEMMA ExchangeIs ==
  ASSUME NEW t, NEW S, NEW sub, NEW at, Shape(t, S, sub, at), t.ok,
         NEW x \in S, t.kid["l"][x] # Nil, t.kid["r"][x] # Nil,
         NEW y \in S, y \in sub[t.kid["r"][x]], t.kid["l"][y] = Nil
  PROVE  Exchange(t, S, x, y)
<1> DEFINE lx == t.kid["l"][x]
           rx == t.kid["r"][x]
           px == t.parent[x]
           py == t.parent[y]
<1>1. /\ "l" \in Side /\ "r" \in Side /\ Other("l") = "r" /\ Other("r") = "l"
      /\ S \subseteq Node /\ Nil \in Node /\ Nil \notin S /\ t \in Tree
      /\ \A c \in Side : c = "l" \/ c = "r"
  BY KeyAssumption DEF Side, Other, Shape, Divided, Node
<1>2. Parted(t, S, sub, x, "l") /\ Parted(t, S, sub, x, "r") /\ Parted(t, S, sub, y, "r")
  BY <1>1, Below
<1>3. /\ sub[rx] \subseteq sub[x] /\ x \notin sub[rx] /\ sub[lx] \cap sub[rx] = {} /\ x \notin sub[lx]
      /\ rx \in S /\ lx \in S /\ rx \in sub[rx] /\ lx \in sub[lx] /\ y \in sub[y] /\ x \in sub[x]
      /\ y \notin sub[t.kid["r"][y]] /\ sub[t.kid["r"][y]] \subseteq sub[y]
  BY <1>1, <1>2 DEF Parted
<1>4. x # y /\ sub[y] \subseteq sub[rx] /\ x \notin sub[y]
  <2>1. sub[y] \subseteq sub[rx]
    BY <1>3, Nested
  <2> QED
    BY <1>3, <2>1
<1>5. t.root # y
  <2>1. sub[t.root] = S
    BY DEF Shape, Divided
  <2> QED
    BY <1>4, <2>1
<1>6. px = Nil <=> t.root = x
  BY ParentNil
<1>7. py # Nil /\ py \in S /\ \E c \in Side : t.kid[c][py] = y
  BY <1>5, ParentNil
<1>8. px # Nil => px \in S /\ x \in sub[px] /\ px \notin sub[x] /\ \E c \in Side : t.kid[c][px] = x
  BY ParentNil
<1>9. py = x <=> rx = y
  <2>1. rx = y => py = x
    BY <1>1, <1>3, OneParent
  <2>2. lx # y
    BY <1>3
  <2> QED
    BY <1>1, <1>7, <2>1, <2>2
<1>10. px \notin {x, y}
  BY <1>1, <1>3, <1>4, <1>8
<1>11. py # px
  <2> SUFFICES ASSUME py = px PROVE FALSE
    OBVIOUS
  <2>1. PICK c \in Side : t.kid[c][px] = x
    BY <1>7, <1>8
  <2>2. PICK d \in Side : t.kid[d][px] = y
    BY <1>7
  <2>3. d = Other(c)
    BY <1>4, <2>1, <2>2, Sides
  <2>4. Parted(t, S, sub, px, c)
    BY <1>7, Below
  <2>5. sub[x] \cap sub[y] = {}
    BY <2>1, <2>2, <2>3, <2>4 DEF Parted
  <2> QED
    BY <1>3, <2>5
<1>12. lx # rx /\ lx # x /\ lx # y /\ rx # x
  BY <1>3
<1>13. t.kid["r"][y] \notin {x, y}
  <2>1. t.kid["r"][y] # Nil => t.kid["r"][y] \in sub[t.kid["r"][y]]
    BY <1>2 DEF Parted
  <2> QED
    BY <1>1, <1>3, <1>4, <2>1
<1>14. /\ \A z \in Node, c \in Side : t.kid[c][z] = x => z = px /\ z # Nil
       /\ \A z \in Node, c \in Side : t.kid[c][z] = y => z = py
       /\ \A z \in Node : t.parent[z] = x <=> z # Nil /\ \E c \in Side : t.kid[c][x] = z
       /\ \A z \in Node : t.parent[z] = y <=> z # Nil /\ \E c \in Side : t.kid[c][y] = z
  BY Parentage
<1>15. \A z \in Node : t.parent[z] = x <=> z \in {lx, rx}
  BY <1>1, <1>3, <1>14
<1>16. \A z \in Node : t.parent[z] = y <=> z = t.kid["r"][y] /\ z # Nil
  BY <1>1, <1>14
<1> QED
  BY <1>1, <1>4, <1>5, <1>6, <1>7, <1>8, <1>9, <1>10, <1>11, <1>12, <1>13, <1>14, <1>15, <1>16 DEF Exchange

\* The first half of rbtree_delete exchanges the places of the two nodes, and
\* no assert fails.
LEMMA SwapIs ==
  ASSUME NEW t, NEW S, NEW x, NEW y, Exchange(t, S, x, y)
  PROVE  Renamed(t, x, y, SwapPlaces(t, x, y))
<1> DEFINE next == t.kid["r"][x] = y
           px == t.parent[x]
           py == t.parent[y]
           lx == t.kid["l"][x]
           rx == t.kid["r"][x]
           ry == t.kid["r"][y]
           t0 == Paint(t, x, t.color[y])
           t1 == Paint(t0, y, t.color[x])
           t2 == change_parent_ptr(t1, t1.parent[x], x, y)
           t3 == IF next THEN t2 ELSE change_parent_ptr(t2, t2.parent[y], y, x)
           t4 == change_child_ptr(t3, t3.kid["l"][y], y, x)
           t5 == change_child_ptr(t4, t4.kid["r"][y], y, x)
           t6 == change_child_ptr(t5, t5.kid["l"][x], x, y)
           t7 == IF next THEN SetParent(SetKid(t6, "r", x, x), y, y)
                 ELSE change_child_ptr(t6, t6.kid["r"][x], x, y)
           r == SwapFields(t7, x, y)
           pi(z) == Swapped(x, y, z)
<1>1. /\ t \in Tree /\ t.ok /\ x \in S /\ y \in S /\ S \subseteq Node /\ Nil \in Node /\ Nil \notin S
      /\ x # y /\ t.root # y /\ (px = Nil <=> t.root = x)
      /\ t.kid["l"][y] = Nil /\ lx # Nil /\ rx # Nil
      /\ lx \notin {x, y, rx} /\ rx # x /\ ry \notin {x, y}
      /\ py # Nil /\ py # px /\ px \notin {x, y}
      /\ py = x <=> next
  BY DEF Exchange
<1>2. /\ px # Nil => \E c \in Side : t.kid[c][px] = x
      /\ \E c \in Side : t.kid[c][py] = y
  BY DEF Exchange
<1>3. /\ \A z \in Node, c \in Side : t.kid[c][z] = x => z = px /\ z # Nil
      /\ \A z \in Node, c \in Side : t.kid[c][z] = y => z = py
  BY DEF Exchange
<1>4. /\ \A z \in Node : t.parent[z] = x <=> z \in {lx, rx}
      /\ \A z \in Node : t.parent[z] = y <=> z = ry /\ z # Nil
  BY DEF Exchange
<1>5. /\ x \in Node /\ y \in Node /\ px \in Node /\ py \in Node /\ lx \in Node /\ rx \in Node /\ ry \in Node
      /\ x # Nil /\ y # Nil /\ t.color[x] \in Color /\ t.color[y] \in Color
      /\ "l" \in Side /\ "r" \in Side
  BY <1>1, TreeType DEF Side
<1>6. Painted(t, x, t.color[y], t0)
  BY <1>1, <1>5, PaintIs
<1> HIDE DEF t0
<1>7. Painted(t0, y, t.color[x], t1)
  <2>1. t0 \in Tree
    BY <1>6 DEF Painted
  <2> QED
    BY <1>5, <2>1, PaintIs
<1> HIDE DEF t1
<1>8. /\ t1 \in Tree /\ t1.root = t.root /\ t1.parent = t.parent /\ t1.kid = t.kid /\ t1.ok
      /\ \A z \in Node : t1.color[z] = t.color[pi(z)]
  BY <1>1, <1>6, <1>7 DEF Painted, Swapped
<1>9. ParentChanged(t1, px, x, y, t2)
  BY <1>5, <1>8, ChangeParentIs
<1> HIDE DEF t2
<1>10. /\ t2 \in Tree /\ t2.ok /\ t2.parent = t.parent /\ t2.color = t1.color /\ t2.root = pi(t.root)
       /\ \A c \in Side, z \in Node : t2.kid[c][z] = IF t.kid[c][z] = x THEN y ELSE t.kid[c][z]
  <2>1. /\ t2 \in Tree /\ t2.parent = t.parent /\ t2.color = t1.color
        /\ t2.root = IF px = Nil /\ t.root = x THEN y ELSE t.root
        /\ \A c \in Side, z \in Node :
             t2.kid[c][z] = IF px # Nil /\ z = px /\ t.kid[c][z] = x THEN y ELSE t.kid[c][z]
        /\ t2.ok <=> IF px = Nil THEN t.root = x ELSE \E c \in Side : t.kid[c][px] \in {x, y}
    BY <1>8, <1>9 DEF ParentChanged
  <2>2. t2.ok
    BY <1>1, <1>2, <2>1
  <2>3. t2.root = pi(t.root)
    BY <1>1, <2>1 DEF Swapped
  <2>4. \A c \in Side, z \in Node : t2.kid[c][z] = IF t.kid[c][z] = x THEN y ELSE t.kid[c][z]
    BY <1>3, <2>1
  <2> QED
    BY <2>1, <2>2, <2>3, <2>4
<1>11. /\ t3 \in Tree /\ t3.ok /\ t3.parent = t.parent /\ t3.color = t1.color /\ t3.root = pi(t.root)
       /\ \A c \in Side, z \in Node :
            t3.kid[c][z] = IF next /\ t.kid[c][z] = y THEN y ELSE pi(t.kid[c][z])
  <2>1. CASE next
    <3>1. \A c \in Side, z \in Node :
            t3.kid[c][z] = IF next /\ t.kid[c][z] = y THEN y ELSE pi(t.kid[c][z])
      BY <1>1, <1>10, <2>1 DEF Swapped
    <3> QED
      BY <1>10, <2>1, <3>1
  <2>2. CASE ~next
    <3>1. ParentChanged(t2, py, y, x, t3)
      BY <1>5, <1>10, <2>2, ChangeParentIs
    <3> HIDE DEF t3
    <3>2. /\ t3 \in Tree /\ t3.parent = t.parent /\ t3.color = t1.color /\ t3.root = pi(t.root)
          /\ \A c \in Side, z \in Node :
               t3.kid[c][z] = IF z = py /\ t2.kid[c][z] = y THEN x ELSE t2.kid[c][z]
          /\ t3.ok <=> \E c \in Side : t2.kid[c][py] \in {y, x}
      BY <1>1, <1>10, <3>1 DEF ParentChanged
    <3>3. \A c \in Side : t2.kid[c][py] = t.kid[c][py] /\ t.kid[c][py] # x
      BY <1>1, <1>3, <1>5, <1>10
    <3>4. t3.ok
      BY <1>2, <3>2, <3>3
    <3>5. \A c \in Side, z \in Node : t3.kid[c][z] = pi(t.kid[c][z])
      <4> TAKE c \in Side, z \in Node
      <4>1. CASE z = py
        BY <1>1, <3>2, <3>3, <4>1, <1>5 DEF Swapped
      <4>2. CASE z # py
        BY <1>3, <1>10, <3>2, <4>2 DEF Swapped
      <4> QED
        BY <4>1, <4>2
    <3> QED
      BY <2>2, <3>2, <3>4, <3>5
  <2> QED
    BY <2>1, <2>2
<1> HIDE DEF t3
<1>12. t3.kid["l"][y] = Nil /\ t3.kid["r"][y] = ry /\ t3.kid["l"][x] = lx /\ t3.kid["r"][x] = rx
  <2>1. t3.kid["l"][y] = Nil
    BY <1>1, <1>5, <1>11 DEF Swapped
  <2>2. t3.kid["r"][y] = ry
    BY <1>1, <1>5, <1>11 DEF Swapped
  <2>3. t3.kid["l"][x] = lx
    BY <1>1, <1>5, <1>11 DEF Swapped
  <2>4. t3.kid["r"][x] = rx
    BY <1>1, <1>5, <1>11 DEF Swapped
  <2> QED
    BY <2>1, <2>2, <2>3, <2>4
<1>13. ChildChanged(t3, Nil, y, x, t4)
  BY <1>1, <1>5, <1>11, <1>12, ChangeChildIs
<1> HIDE DEF t4
<1>14. /\ t4 \in Tree /\ t4.ok /\ t4.root = t3.root /\ t4.kid = t3.kid /\ t4.color = t3.color
       /\ \A z \in Node : t4.parent[z] = t.parent[z]
  BY <1>11, <1>13 DEF ChildChanged
<1>15. ChildChanged(t4, ry, y, x, t5)
  BY <1>5, <1>12, <1>14, ChangeChildIs
<1> HIDE DEF t5
<1>16. /\ t5 \in Tree /\ t5.ok /\ t5.root = t3.root /\ t5.kid = t3.kid /\ t5.color = t3.color
       /\ \A z \in Node : t5.parent[z] = IF t.parent[z] = y THEN x ELSE t.parent[z]
  <2>1. ry # Nil => t4.parent[ry] = y
    BY <1>4, <1>5, <1>14
  <2>2. t5.ok
    BY <1>14, <1>15, <2>1 DEF ChildChanged
  <2>3. \A z \in Node : t5.parent[z] = IF t.parent[z] = y THEN x ELSE t.parent[z]
    BY <1>4, <1>14, <1>15 DEF ChildChanged
  <2> QED
    BY <1>14, <1>15, <2>2, <2>3 DEF ChildChanged
<1>17. ChildChanged(t5, lx, x, y, t6)
  BY <1>5, <1>12, <1>16, ChangeChildIs
<1> HIDE DEF t6
<1>18. t.parent[lx] = x /\ t.parent[rx] = x /\ lx # rx
  BY <1>1, <1>4, <1>5
<1>19. /\ t6 \in Tree /\ t6.ok /\ t6.root = t3.root /\ t6.kid = t3.kid /\ t6.color = t3.color
       /\ \A z \in Node : t6.parent[z] = IF z = lx THEN y ELSE IF t.parent[z] = y THEN x ELSE t.parent[z]
  <2>1. t5.parent[lx] = x
    BY <1>1, <1>5, <1>16, <1>18
  <2>2. t6.ok
    BY <1>16, <1>17, <2>1 DEF ChildChanged
  <2>3. \A z \in Node : t6.parent[z] = IF z = lx THEN y ELSE IF t.parent[z] = y THEN x ELSE t.parent[z]
    BY <1>1, <1>16, <1>17, <2>1 DEF ChildChanged
  <2> QED
    BY <1>16, <1>17, <2>2, <2>3 DEF ChildChanged
<1>20. /\ t7 \in Tree /\ t7.ok /\ t7.root = pi(t.root) /\ t7.color = t1.color
       /\ \A c \in Side, z \in Node : t7.kid[c][z] = pi(t.kid[c][z])
       /\ \A z \in Node : t7.parent[z] = pi(t.parent[z])
  <2>1. CASE next
    <3> DEFINE a == SetKid(t6, "r", x, x)
    <3>1. KidSet(t6, "r", x, x, a)
      BY <1>5, <1>19, SetKidIs
    <3> HIDE DEF a
    <3>2. ParentSet(a, y, y, t7)
      BY <1>5, <2>1, <3>1, SetParentIs DEF KidSet, a
    <3> HIDE DEF t7
    <3>3. t7 \in Tree /\ t7.ok /\ t7.root = pi(t.root) /\ t7.color = t1.color
      BY <1>11, <1>19, <3>1, <3>2 DEF KidSet, ParentSet
    <3>4. ASSUME NEW c \in Side, NEW z \in Node PROVE t7.kid[c][z] = pi(t.kid[c][z])
      <4>1. t7.kid[c][z] = IF c = "r" /\ z = x THEN x ELSE t3.kid[c][z]
        BY <1>19, <3>1, <3>2 DEF KidSet, ParentSet
      <4>2. CASE c = "r" /\ z = x
        BY <1>1, <2>1, <4>1, <4>2 DEF Swapped
      <4>3. CASE ~(c = "r" /\ z = x)
        <5>1. t.kid[c][z] # y
          <6> SUFFICES ASSUME t.kid[c][z] = y PROVE FALSE
            OBVIOUS
          <6>1. z = x
            BY <1>1, <1>3, <2>1
          <6>2. c = "l"
            BY <4>3, <6>1 DEF Side
          <6> QED
            BY <1>1, <6>1, <6>2
        <5> QED
          BY <1>11, <4>1, <4>3, <5>1
      <4> QED
        BY <4>2, <4>3
    <3>5. ASSUME NEW z \in Node PROVE t7.parent[z] = pi(t.parent[z])
      <4>1. t7.parent[z] = IF z = y THEN y ELSE t6.parent[z]
        BY <3>1, <3>2 DEF KidSet, ParentSet
      <4>2. t.parent[z] = x <=> z = lx \/ z = y
        BY <1>4, <2>1
      <4> QED
        BY <1>1, <1>19, <4>1, <4>2 DEF Swapped
    <3> QED
      BY <3>3, <3>4, <3>5
  <2>2. CASE ~next
    <3>1. ChildChanged(t6, rx, x, y, t7)
      BY <1>5, <1>12, <1>19, <2>2, ChangeChildIs
    <3> HIDE DEF t7
    <3>2. t6.parent[rx] = x
      BY <1>1, <1>5, <1>18, <1>19
    <3>3. t7 \in Tree /\ t7.ok /\ t7.root = pi(t.root) /\ t7.color = t1.color /\ t7.kid = t3.kid
      BY <1>11, <1>19, <3>1, <3>2 DEF ChildChanged
    <3>4. \A c \in Side, z \in Node : t7.kid[c][z] = pi(t.kid[c][z])
      BY <1>11, <2>2, <3>3
    <3>5. ASSUME NEW z \in Node PROVE t7.parent[z] = pi(t.parent[z])
      <4>1. t7.parent[z] = IF z = rx THEN y ELSE t6.parent[z]
        BY <1>1, <3>1, <3>2 DEF ChildChanged
      <4>2. t.parent[z] = x <=> z = lx \/ z = rx
        BY <1>4
      <4> QED
        BY <1>1, <1>19, <4>1, <4>2 DEF Swapped
    <3> QED
      BY <3>3, <3>4, <3>5
  <2> QED
    BY <2>1, <2>2
<1>21. SwapPlaces(t, x, y) = r
  BY DEF SwapPlaces, r, t7, t6, t5, t4, t3, t2, t1, t0
<1> HIDE DEF t7
<1>22. /\ r \in Tree /\ r.root = t7.root /\ r.color = t7.color /\ r.ok = t7.ok
       /\ \A z \in Node : r.parent[z] = t7.parent[pi(z)]
       /\ \A c \in Side, z \in Node : r.kid[c][z] = t7.kid[c][pi(z)]
  <2>1. t7 \in Tree
    BY <1>20
  <2>2. FieldsSwapped(t7, x, y, r)
    BY <1>5, <2>1, SwapFieldsIs
  <2> QED
    BY <2>2 DEF FieldsSwapped
<1>23. \A z \in Node : pi(z) \in Node
  BY <1>5 DEF Swapped
<1> HIDE DEF pi
<1>24. /\ \A z \in Node : r.parent[z] = pi(t.parent[pi(z)])
       /\ \A c \in Side, z \in Node : r.kid[c][z] = pi(t.kid[c][pi(z)])
       /\ \A z \in Node : r.color[z] = t.color[pi(z)]
       /\ r.ok /\ r.root = pi(t.root) /\ r \in Tree
  BY <1>8, <1>20, <1>22, <1>23
<1> QED
  BY <1>21, <1>24 DEF Renamed, pi

\* A deletion makes a red-black tree of one, without the key.
LEMMA DeleteSound ==
  ASSUME NEW t, NEW S, RedBlackTree(t, S), NEW x \in S
  PROVE  RedBlackTree(rbtree_delete(t, x), S \ {x})
<1>1. PICK sub, bh : Sound(t, S, sub, bh)
  BY DEF RedBlackTree
<1>2. Shape(t, S, sub, Identity) /\ t.ok /\ S \in SUBSET Key
  BY <1>1 DEF Sound, Shape, Divided
<1>3. CASE t.kid["l"][x] # Nil /\ t.kid["r"][x] # Nil
  <2> DEFINE y == Leftmost(t, t.kid["r"][x])
             r == SwapPlaces(t, x, y)
  <2>1. IsNext(S, x, y) /\ y \in sub[t.kid["r"][x]] /\ t.kid["l"][y] = Nil
    BY <1>2, <1>3, NextBelow
  <2>2. y \in S
    BY <2>1 DEF IsNext
  <2> HIDE DEF y
  <2>3. Renamed(t, x, y, r)
    <3>1. Exchange(t, S, x, y)
      BY <1>2, <1>3, <2>1, <2>2, ExchangeIs
    <3> QED
      BY <3>1, SwapIs
  <2>4. PICK sub1, bh1 : Proper(r, S, sub1, bh1, SwapAt(x, y))
    <3> HIDE DEF r
    <3> QED
      BY <1>1, <2>2, <2>3, RenamedProper
  <2>5. Agree(SwapAt(x, y), S \ {x})
    BY <1>2, <2>1, SwapAgrees
  <2>6. r.kid["l"][x] = Nil
    <3>1. x \in Node /\ Nil \in Node /\ Nil # x /\ Nil # y /\ "l" \in Side
      BY <1>2, <2>2, KeyAssumption DEF Node, Side
    <3>2. r.kid["l"][x] = Swapped(x, y, t.kid["l"][Swapped(x, y, x)])
      BY <2>3, <3>1 DEF Renamed
    <3> QED
      BY <2>1, <3>1, <3>2 DEF Swapped
  <2>7. RedBlackTree(Unlink(r, x), S \ {x})
    <3> HIDE DEF r
    <3>1. \E d \in Side : r.kid[d][x] = Nil
      BY <2>6 DEF Side
    <3> QED
      BY <2>4, <2>5, <3>1, UnlinkSound
  <2> QED
    BY <1>3, <2>7 DEF rbtree_delete, y
<1>4. CASE ~(t.kid["l"][x] # Nil /\ t.kid["r"][x] # Nil)
  <2>1. Proper(t, S, sub, bh, Identity)
    BY <1>1 DEF Sound, Proper
  <2>2. Agree(Identity, S \ {x})
    BY DEF Agree
  <2>3. \E d \in Side : t.kid[d][x] = Nil
    BY <1>4 DEF Side
  <2>4. RedBlackTree(Unlink(t, x), S \ {x})
    BY <2>1, <2>2, <2>3, UnlinkSound
  <2> QED
    BY <1>4, <2>4 DEF rbtree_delete
<1> QED
  BY <1>3, <1>4

-----------------------------------------------------------------------------
(* Recursion over the tree.                                                *)

\* A recursion over the nodes, from base at Nil, with what comb makes of the
\* results at the children, has a result.
Folded(t, V, base, comb) ==
  \E f \in [Node -> V] :
    f = [x \in Node |-> IF x = Nil THEN base ELSE comb[<<x, f[t.kid["l"][x]], f[t.kid["r"][x]]>>]]

\* It has one, as the nodes below a child are fewer.
LEMMA Fold ==
  ASSUME NEW t, NEW S, NEW sub, NEW at, Shape(t, S, sub, at),
         NEW V, NEW base \in V, NEW comb \in [Node \X V \X V -> V]
  PROVE  Folded(t, V, base, comb)
<1> DEFINE rank == [x \in Node |-> IF x \in S THEN Cardinality(sub[x]) + 1 ELSE IF x = Nil THEN 0 ELSE 1]
           At(g, x) == IF x = Nil THEN base ELSE comb[<<x, g[t.kid["l"][x]], g[t.kid["r"][x]]>>]
           Upto(g, n) == \A x \in Node : rank[x] <= n => g[x] = At(g, x)
           B == {n \in Nat : ~\E g \in [Node -> V] : Upto(g, n)}
<1>1. /\ S \subseteq Node /\ S \subseteq Key /\ Nil \in Node /\ Nil \notin S /\ "l" \in Side /\ "r" \in Side
      /\ sub \in [Node -> SUBSET S] /\ t \in Tree
  BY KeyAssumption DEF Shape, Divided, Node, Side
<1>2. \A x \in Node, d \in Side : t.kid[d][x] \in Node
  BY <1>1, TreeType
<1>3. \A x \in Node : IsFiniteSet(sub[x]) /\ Cardinality(sub[x]) \in Nat
  <2> TAKE x \in Node
  <2>1. sub[x] \subseteq Key /\ IsFiniteSet(Key)
    BY <1>1, KeyAssumption
  <2> QED
    BY <2>1, FS_Subset, FS_CardinalityType
<1>4. \A x \in Node : rank[x] \in Nat
  BY <1>3
<1>5. ASSUME NEW x \in Node, x # Nil, NEW d \in Side PROVE rank[t.kid[d][x]] < rank[x]
  <2>1. CASE x \in S
    <3>1. Parted(t, S, sub, x, d)
      BY <2>1, Below
    <3>2. t.kid[d][x] \in S \cup {Nil} /\ t.kid[d][x] \in Node
      BY <1>2, <2>1 DEF Shape, Chained
    <3>3. sub[t.kid[d][x]] \subseteq sub[x] /\ sub[t.kid[d][x]] # sub[x]
      BY <3>1 DEF Parted
    <3>4. Cardinality(sub[t.kid[d][x]]) < Cardinality(sub[x])
      BY <1>3, <3>2, <3>3, FS_Subset
    <3>5. rank[x] = Cardinality(sub[x]) + 1 /\ Cardinality(sub[x]) \in Nat /\ Cardinality(sub[t.kid[d][x]]) \in Nat
      BY <1>3, <2>1, <3>2
    <3>6. rank[t.kid[d][x]] = Cardinality(sub[t.kid[d][x]]) + 1 \/ rank[t.kid[d][x]] = 0
      BY <1>1, <3>2
    <3> QED
      BY <3>4, <3>5, <3>6
  <2>2. CASE x \notin S
    <3>1. t.kid[d][x] = Nil
      BY <2>2 DEF Shape, Cleared
    <3> QED
      BY <1>1, <1>5, <2>2, <3>1
  <2> QED
    BY <2>1, <2>2
<1> HIDE DEF rank
<1>6. ASSUME NEW g \in [Node -> V], NEW x \in Node PROVE At(g, x) \in V
  BY <1>1, <1>2
<1>7. ASSUME NEW g \in [Node -> V], NEW h \in [Node -> V], NEW n \in Nat,
             \A x \in Node : rank[x] < n => g[x] = h[x],
             NEW x \in Node, rank[x] <= n
      PROVE  At(g, x) = At(h, x)
  <2>1. CASE x = Nil
    BY <2>1
  <2>2. CASE x # Nil
    <3>1. \A d \in Side : rank[t.kid[d][x]] < n /\ t.kid[d][x] \in Node
      <4> TAKE d \in Side
      <4>1. rank[t.kid[d][x]] < rank[x] /\ t.kid[d][x] \in Node
        BY <1>2, <1>5, <2>2
      <4>2. rank[t.kid[d][x]] \in Nat /\ rank[x] \in Nat
        BY <1>4, <4>1
      <4> QED
        BY <1>7, <4>1, <4>2
    <3>2. g[t.kid["l"][x]] = h[t.kid["l"][x]] /\ g[t.kid["r"][x]] = h[t.kid["r"][x]]
      BY <1>1, <1>7, <3>1
    <3> QED
      BY <2>2, <3>2
  <2> QED
    BY <2>1, <2>2
<1> HIDE DEF At
<1>8. B = {}
  <2> SUFFICES ASSUME B # {} PROVE FALSE
    OBVIOUS
  <2>1. PICK n \in B : \A m \in B : n <= m
    <3>1. B \in SUBSET Nat /\ B # {}
      OBVIOUS
    <3> HIDE DEF B
    <3> QED
      BY <3>1, LeastIs
  <2>2. n \in Nat
    OBVIOUS
  <2>3. \E g \in [Node -> V] : \A x \in Node : rank[x] < n => g[x] = At(g, x)
    <3>1. CASE n = 0
      <4>1. [x \in Node |-> base] \in [Node -> V]
        OBVIOUS
      <4>2. \A x \in Node : ~(rank[x] < n)
        BY <1>4, <3>1
      <4> QED
        BY <4>1, <4>2
    <3>2. CASE n # 0
      <4>1. n - 1 \in Nat /\ ~(n <= n - 1)
        BY <2>2, <3>2
      <4>2. n - 1 \notin B
        BY <2>1, <4>1
      <4>3. PICK g \in [Node -> V] : Upto(g, n - 1)
        BY <4>1, <4>2
      <4>4. \A x \in Node : rank[x] < n => rank[x] <= n - 1
        BY <1>4, <2>2
      <4> QED
        BY <4>3, <4>4
    <3> QED
      BY <3>1, <3>2
  <2>4. PICK g \in [Node -> V] : \A x \in Node : rank[x] < n => g[x] = At(g, x)
    BY <2>3
  <2> DEFINE h == [x \in Node |-> IF rank[x] < n THEN g[x] ELSE At(g, x)]
  <2>5. h \in [Node -> V] /\ \A x \in Node : h[x] = At(g, x)
    BY <1>6, <2>4
  <2>6. \A x \in Node : rank[x] < n => g[x] = h[x]
    OBVIOUS
  <2> HIDE DEF h
  <2>7. \A x \in Node : rank[x] <= n => h[x] = At(h, x)
    <3> TAKE x \in Node
    <3> HAVE rank[x] <= n
    <3>1. At(g, x) = At(h, x)
      BY <1>7, <2>2, <2>5, <2>6
    <3> QED
      BY <2>5, <3>1
  <2>8. \E gg \in [Node -> V] : Upto(gg, n)
    BY <2>5, <2>7
  <2> QED
    BY <2>8
<1>9. PICK N \in Nat : \A x \in Node : rank[x] <= N
  <2> DEFINE N == Cardinality(Key) + 1
  <2>1. IsFiniteSet(Key) /\ Cardinality(Key) \in Nat
    BY KeyAssumption, FS_CardinalityType
  <2>2. ASSUME NEW x \in Node PROVE rank[x] <= N
    <3>1. sub[x] \subseteq Key
      BY <1>1
    <3>2. Cardinality(sub[x]) <= Cardinality(Key) /\ Cardinality(sub[x]) \in Nat
      BY <1>3, <2>1, <3>1, FS_Subset
    <3> QED
      BY <2>1, <3>2 DEF rank
  <2> QED
    BY <2>1, <2>2
<1>10. PICK g \in [Node -> V] : Upto(g, N)
  BY <1>8
<1>11. g = [x \in Node |-> At(g, x)]
  BY <1>9, <1>10
<1> QED
  BY <1>11 DEF Folded, At

\* The black height of every node, as RedBlack counts it, is bh.
LEMMA BlackHeightIs ==
  ASSUME NEW t, NEW S, NEW sub, NEW bh, Sound(t, S, sub, bh)
  PROVE  BlackHeight(t)[t.root] = bh[t.root] /\ bh[t.root] \in Nat
<1> DEFINE Up(x, l, r) == IF l # r \/ l = -1 THEN -1 ELSE l + IF t.color[x] = "black" THEN 1 ELSE 0
           comb == [v \in Node \X Int \X Int |-> Up(v[1], v[2], v[3])]
           Is(h) == h = [x \in Node |-> IF x = Nil THEN 0
                                        ELSE LET l == h[t.kid["l"][x]]
                                                 r == h[t.kid["r"][x]]
                                             IN IF l # r \/ l = -1 THEN -1
                                                ELSE l + IF t.color[x] = "black" THEN 1 ELSE 0]
           height == CHOOSE h : Is(h)
<1>1. Shape(t, S, sub, Identity) /\ Even(t, S, bh) /\ t \in Tree
  BY DEF Sound, Shape
<1>2. \E h : Is(h)
  <2>1. comb \in [Node \X Int \X Int -> Int]
    OBVIOUS
  <2>2. 0 \in Int
    OBVIOUS
  <2>3. Folded(t, Int, 0, comb)
    <3> HIDE DEF comb
    <3> QED
      BY <1>1, <2>1, <2>2, Fold
  <2>4. PICK h \in [Node -> Int] :
          h = [x \in Node |-> IF x = Nil THEN 0 ELSE comb[<<x, h[t.kid["l"][x]], h[t.kid["r"][x]]>>]]
    BY <2>3 DEF Folded
  <2>5. \A x \in Node : t.kid["l"][x] \in Node /\ t.kid["r"][x] \in Node
    BY <1>1, TreeType DEF Side
  <2>6. \A x \in Node : comb[<<x, h[t.kid["l"][x]], h[t.kid["r"][x]]>>]
                        = Up(x, h[t.kid["l"][x]], h[t.kid["r"][x]])
    BY <2>5
  <2> HIDE DEF comb
  <2>7. Is(h)
    BY <2>4, <2>6
  <2> QED
    BY <2>7
<1>3. Is(height)
  BY <1>2
<1>4. BlackHeight(t) = height
  BY DEF BlackHeight
<1> HIDE DEF height
<1>5. \A x \in Node : height[x] = IF x = Nil THEN 0
                                  ELSE Up(x, height[t.kid["l"][x]], height[t.kid["r"][x]])
  BY <1>3
<1>6. /\ bh \in [Node -> Nat] /\ bh[Nil] = 0 /\ S \subseteq Node /\ Nil \in Node /\ Nil \notin S
      /\ \A z \in S, c \in Side : bh[z] = bh[t.kid[c][z]] + Blk(t, z)
  BY <1>1, KeyAssumption DEF Even, Shape, Divided, Node
<1>7. height[Nil] = 0
  BY <1>5, <1>6
<1> DEFINE B == {x \in S : height[x] # bh[x]}
<1>8. B = {}
  <2> SUFFICES ASSUME B # {} PROVE FALSE
    OBVIOUS
  <2>1. PICK x \in B : \A d \in Side : t.kid[d][x] \notin B
    <3>1. B \in SUBSET S
      OBVIOUS
    <3> HIDE DEF B
    <3> QED
      BY <1>1, <3>1, LowestIs
  <2>2. x \in S /\ x \in Node /\ x # Nil /\ "l" \in Side /\ "r" \in Side
    BY <1>6 DEF Side
  <2>3. \A d \in Side : t.kid[d][x] \in S \cup {Nil} /\ t.kid[d][x] \in Node
    BY <1>1, <1>6, <2>2 DEF Shape, Chained
  <2>4. \A d \in Side : height[t.kid[d][x]] = bh[t.kid[d][x]]
    BY <1>6, <1>7, <2>1, <2>3
  <2>5. height[x] = Up(x, bh[t.kid["l"][x]], bh[t.kid["r"][x]])
    BY <1>5, <2>2, <2>4
  <2>6. /\ bh[x] = bh[t.kid["l"][x]] + Blk(t, x) /\ bh[x] = bh[t.kid["r"][x]] + Blk(t, x)
        /\ bh[t.kid["l"][x]] \in Nat /\ bh[t.kid["r"][x]] \in Nat /\ Blk(t, x) \in Nat
    BY <1>6, <2>2, <2>3 DEF Blk
  <2>7. bh[t.kid["l"][x]] = bh[t.kid["r"][x]]
    BY <2>6
  <2>8. height[x] = bh[x]
    BY <2>5, <2>6, <2>7 DEF Blk
  <2> QED
    BY <2>8
<1>9. t.root \in S \cup {Nil}
  BY <1>1 DEF Shape, Chained
<1> QED
  BY <1>4, <1>6, <1>7, <1>8, <1>9

\* rbtree_delete_node frees every node of the tree.
LEMMA FreedIs ==
  ASSUME NEW t, NEW S, RedBlackTree(t, S), NEW k \in S
  PROVE  LET gone == rbtree_delete_node(t)[t.root] IN \E i \in DOMAIN gone : gone[i] = k
<1>1. PICK sub : Shape(t, S, sub, Identity)
  BY DEF RedBlackTree, Sound
<1> DEFINE comb == [v \in Node \X Seq(Node) \X Seq(Node) |-> v[2] \o v[3] \o <<v[1]>>]
           Is(f) == f = [x \in Node |-> IF x = Nil THEN <<>>
                                        ELSE f[t.kid["l"][x]] \o f[t.kid["r"][x]] \o <<x>>]
           freed == CHOOSE f : Is(f)
           L(x) == t.kid["l"][x]
           R(x) == t.kid["r"][x]
<1>2. /\ t \in Tree /\ S \subseteq Node /\ Nil \in Node /\ Nil \notin S /\ "l" \in Side /\ "r" \in Side
      /\ sub \in [Node -> SUBSET S] /\ sub[t.root] = S /\ t.root \in S \cup {Nil} /\ sub[Nil] = {}
  BY <1>1, KeyAssumption DEF Shape, Divided, Chained, Node, Side
<1>3. \A x \in Node : L(x) \in Node /\ R(x) \in Node
  BY <1>2, TreeType
<1>4. \E f \in [Node -> Seq(Node)] : Is(f)
  <2>1. comb \in [Node \X Seq(Node) \X Seq(Node) -> Seq(Node)] /\ <<>> \in Seq(Node)
    OBVIOUS
  <2>2. Folded(t, Seq(Node), <<>>, comb)
    <3> HIDE DEF comb
    <3> QED
      BY <1>1, <2>1, Fold
  <2>3. PICK f \in [Node -> Seq(Node)] :
          f = [x \in Node |-> IF x = Nil THEN <<>> ELSE comb[<<x, f[L(x)], f[R(x)]>>]]
    BY <2>2 DEF Folded
  <2>4. \A x \in Node : comb[<<x, f[L(x)], f[R(x)]>>] = f[L(x)] \o f[R(x)] \o <<x>>
    BY <1>3
  <2> HIDE DEF comb
  <2>5. Is(f)
    BY <2>3, <2>4
  <2> QED
    BY <2>5
<1>5. Is(freed)
  BY <1>4
<1>6. rbtree_delete_node(t) = freed
  BY DEF rbtree_delete_node
<1> HIDE DEF freed
<1>7. freed[Nil] = <<>> /\ \A x \in Node : x # Nil => freed[x] = freed[L(x)] \o freed[R(x)] \o <<x>>
  BY <1>2, <1>5
<1> HIDE DEF L, R
<1> DEFINE In(s, z) == \E i \in DOMAIN s : s[i] = z
           Good(x) == freed[x] \in Seq(Node) /\ \A z \in sub[x] : In(freed[x], z)
           B == {x \in S : ~Good(x)}
<1>8. Good(Nil)
  BY <1>2, <1>7
<1>9. ASSUME NEW s \in Seq(Node), NEW u \in Seq(Node), NEW x \in Node
      PROVE  /\ s \o u \o <<x>> \in Seq(Node) /\ In(s \o u \o <<x>>, x)
             /\ \A z : In(s, z) \/ In(u, z) => In(s \o u \o <<x>>, z)
  <2> DEFINE w == s \o u \o <<x>>
  <2>1. /\ w \in Seq(Node) /\ Len(w) = Len(s) + Len(u) + 1 /\ Len(s) \in Nat /\ Len(u) \in Nat
        /\ DOMAIN w = 1 .. Len(w) /\ DOMAIN s = 1 .. Len(s) /\ DOMAIN u = 1 .. Len(u)
    OBVIOUS
  <2>2. \A i \in 1 .. Len(s) : w[i] = s[i]
    OBVIOUS
  <2>3. \A i \in 1 .. Len(u) : w[Len(s) + i] = u[i]
    OBVIOUS
  <2>4. w[Len(s) + Len(u) + 1] = x
    OBVIOUS
  <2> HIDE DEF w
  <2>5. In(w, x)
    BY <2>1, <2>4
  <2>6. ASSUME NEW z, In(s, z) PROVE In(w, z)
    <3>1. PICK i \in 1 .. Len(s) : s[i] = z
      BY <2>1, <2>6
    <3>2. i \in DOMAIN w /\ w[i] = z
      BY <2>1, <2>2, <3>1
    <3> QED
      BY <3>2
  <2>7. ASSUME NEW z, In(u, z) PROVE In(w, z)
    <3>1. PICK i \in 1 .. Len(u) : u[i] = z
      BY <2>1, <2>7
    <3>2. Len(s) + i \in DOMAIN w /\ w[Len(s) + i] = z
      BY <2>1, <2>3, <3>1
    <3> QED
      BY <3>2
  <2> QED
    BY <2>1, <2>5, <2>6, <2>7 DEF w
<1> HIDE DEF In
<1>10. B = {}
  <2> SUFFICES ASSUME B # {} PROVE FALSE
    OBVIOUS
  <2>1. PICK x \in B : \A d \in Side : t.kid[d][x] \notin B
    <3>1. B \in SUBSET S
      OBVIOUS
    <3> HIDE DEF B
    <3> QED
      BY <1>1, <3>1, LowestIs
  <2>2. x \in S /\ x \in Node /\ x # Nil
    BY <1>2
  <2>3. \A d \in Side : t.kid[d][x] \in S \cup {Nil}
    BY <1>1, <2>2 DEF Shape, Chained
  <2>4. \A d \in Side : Good(t.kid[d][x])
    BY <1>8, <2>1, <2>3
  <2>5. Good(L(x)) /\ Good(R(x))
    BY <1>2, <2>4 DEF L, R
  <2>6. freed[x] = freed[L(x)] \o freed[R(x)] \o <<x>>
    BY <1>7, <2>2
  <2>7. freed[L(x)] \in Seq(Node) /\ freed[R(x)] \in Seq(Node)
    BY <2>5
  <2>8. freed[x] \in Seq(Node) /\ In(freed[x], x)
        /\ \A z : In(freed[L(x)], z) \/ In(freed[R(x)], z) => In(freed[x], z)
    BY <1>9, <2>2, <2>6, <2>7
  <2>9. \A z \in sub[x] : z = x \/ z \in sub[L(x)] \/ z \in sub[R(x)]
    <3>1. Parted(t, S, sub, x, "l") /\ Other("l") = "r"
      BY <1>1, <1>2, <2>2, Below DEF Other
    <3> QED
      BY <3>1 DEF Parted, L, R
  <2>10. Good(x)
    BY <2>5, <2>8, <2>9
  <2> QED
    BY <2>1, <2>10
<1>11. Good(t.root)
  BY <1>2, <1>8, <1>10
<1> QED
  BY <1>2, <1>6, <1>11 DEF In

-----------------------------------------------------------------------------
(* Walking.                                                                *)

\* f is the way up from every node.
Ascent(t, f) ==
  \A z \in Node : f[z] = IF t.parent[z] # Nil /\ z = t.kid["r"][t.parent[z]]
                         THEN f[t.parent[z]] ELSE t.parent[z]

LEMMA ClimbIs ==
  ASSUME NEW t \in Tree
  PROVE  \E f : Ascent(t, f) /\ \A x \in Node : Climb(t, x) = f[x]
<1> DEFINE stop == {z \in Node : ~(t.parent[z] # Nil /\ z = t.kid["r"][t.parent[z]])}
           next == [z \in Node |-> t.parent[z]]
           Is(g) == g = [z \in Node |-> LET p == t.parent[z]
                                        IN IF p # Nil /\ z = t.kid["r"][p] THEN g[p] ELSE p]
           f == CHOOSE g : Is(g)
<1>1. next \in [Node -> Node]
  BY TreeType
<1>2. Looped(Node, stop, next, next)
  <2> HIDE DEF stop, next
  <2>1. stop \in SUBSET Node
    BY DEF stop
  <2> QED
    BY <1>1, <2>1, Loop
<1>3. PICK g : g = [z \in Node |-> IF z \in stop THEN next[z] ELSE g[next[z]]]
  BY <1>2 DEF Looped
<1>4. Is(g)
  BY <1>3
<1>5. Is(f)
  BY <1>4
<1>6. \A x \in Node : Climb(t, x) = f[x]
  BY DEF Climb
<1>7. Ascent(t, f)
  <2> HIDE DEF f
  <2> QED
    BY <1>5 DEF Ascent
<1> QED
  BY <1>6, <1>7

\* y comes next after all that is below and at z; Nil if nothing does.
Past(S, sub, z, y) ==
  /\ y # Nil => y \in S /\ \A a \in sub[z] : a < y
  /\ \A k \in S : \/ k \in sub[z]
                  \/ y # Nil /\ y <= k
                  \/ \A a \in sub[z] : k < a

LEMMA AscentGoes ==
  ASSUME NEW t, NEW S, NEW sub, Shape(t, S, sub, Identity), NEW f, Ascent(t, f), NEW x \in S
  PROVE  Past(S, sub, x, f[x])
<1> SUFFICES ASSUME ~Past(S, sub, x, f[x]) PROVE FALSE
  OBVIOUS
<1> DEFINE B == {z \in S : ~Past(S, sub, z, f[z])}
<1>1. PICK z \in B : t.parent[z] \notin B
  <2>1. B \in SUBSET S /\ B # {}
    OBVIOUS
  <2> HIDE DEF B
  <2> QED
    BY <2>1, HighestIs
<1> DEFINE p == t.parent[z]
<1>2. /\ z \in S /\ z \in Node /\ S \subseteq Key /\ Key \subseteq Int /\ "l" \in Side /\ "r" \in Side
      /\ Other("l") = "r" /\ sub \in [Node -> SUBSET S] /\ sub[t.root] = S /\ sub[z] \subseteq S
  BY KeyAssumption DEF Shape, Divided, Node, Side, Other
<1>3. \A j, k \in S : (Before(Identity, "l", j, k) <=> j < k) /\ (Before(Identity, "r", j, k) <=> k < j)
  BY <1>2 DEF Before, Identity
<1>4. \A w \in S, k \in S : /\ k \in sub[t.kid["l"][w]] <=> k \in sub[w] /\ k < w
                            /\ k \in sub[t.kid["r"][w]] <=> k \in sub[w] /\ w < k
  BY <1>2, <1>3 DEF Shape, Divided
<1>5. CASE p = Nil
  <2>1. z = t.root /\ f[z] = Nil
    BY <1>2, <1>5, ParentNil DEF Ascent
  <2>2. Past(S, sub, z, Nil)
    BY <1>2, <2>1 DEF Past
  <2> QED
    BY <1>1, <2>1, <2>2
<1>6. CASE p # Nil
  <2>1. p \in S /\ z \in sub[p] /\ (\E d \in Side : t.kid[d][p] = z)
    BY <1>2, <1>6, ParentNil
  <2>2. sub[z] \subseteq sub[p] /\ sub[p] \subseteq S
    BY <1>2, <2>1, Nested DEF Node
  <2>3. p \in sub[p]
    BY <2>1 DEF Shape, Divided
  <2>4. CASE z = t.kid["r"][p]
    <3>1. f[z] = f[p]
      BY <1>2, <1>6, <2>4 DEF Ascent
    <3> DEFINE y == f[p]
    <3>2. Past(S, sub, p, y)
      BY <1>1, <2>1
    <3> HIDE DEF y
    <3>3. y # Nil => y \in S /\ \A a \in sub[z] : a < y
      BY <2>2, <3>2 DEF Past
    <3>4. ASSUME NEW k \in S, k \notin sub[z], ~(y # Nil /\ y <= k), NEW a \in sub[z] PROVE k < a
      <4>1. a \in sub[p] /\ a \in S /\ p < a
        BY <1>2, <1>4, <2>1, <2>2, <2>4
      <4>2. CASE k \notin sub[p]
        BY <3>2, <3>4, <4>1, <4>2 DEF Past
      <4>3. CASE k \in sub[p]
        <5>1. ~(p < k)
          BY <1>4, <2>1, <2>4, <3>4, <4>3
        <5>2. p \in Int /\ k \in Int /\ a \in Int
          BY <1>2, <2>1, <4>1
        <5> QED
          BY <4>1, <5>1, <5>2
      <4> QED
        BY <4>2, <4>3
    <3>5. Past(S, sub, z, y)
      BY <3>3, <3>4 DEF Past
    <3> QED
      BY <1>1, <3>1, <3>5 DEF y
  <2>5. CASE z # t.kid["r"][p]
    <3>1. f[z] = p /\ z = t.kid["l"][p]
      BY <1>2, <2>1, <2>5 DEF Ascent, Side
    <3>2. \A a \in sub[z] : a \in S /\ a \in sub[p] /\ a < p
      BY <1>2, <1>4, <2>1, <2>2, <3>1
    <3>3. ASSUME NEW k \in S, k \notin sub[z], ~(p <= k), NEW a \in sub[z] PROVE k < a
      <4>1. a \in S /\ a < p /\ a \in sub[p]
        BY <3>2
      <4>7. p \in Int /\ k \in Int /\ a \in Int
        BY <1>2, <2>1, <4>1
      <4>8. k < p
        BY <3>3, <4>7
      <4>2. k \notin sub[p]
        BY <1>4, <2>1, <3>1, <3>3, <4>8
      <4>3. PICK d \in Side : \A b \in sub[p] : Before(Identity, d, b, k)
        BY <2>1, <4>2, Outside
      <4>4. Before(Identity, d, p, k) /\ Before(Identity, d, a, k) /\ a \in S
        BY <2>3, <3>2, <4>1, <4>3
      <4>5. CASE d = "l"
        <5>1. p < k
          BY <1>3, <2>1, <4>4, <4>5
        <5> QED
          BY <3>3, <4>7, <5>1
      <4>6. CASE d = "r"
        BY <1>3, <2>1, <4>4, <4>6
      <4> QED
        BY <4>5, <4>6 DEF Side
    <3>4. Past(S, sub, z, p)
      BY <1>6, <2>1, <3>2, <3>3 DEF Past
    <3> QED
      BY <1>1, <3>1, <3>4
  <2> QED
    BY <2>4, <2>5
<1> QED
  BY <1>5, <1>6

\* RBTREE_FOR goes from x to y: the next key, or Nil after the last.
Steps(S, x, y) == IF y = Nil THEN \A k \in S : ~(x < k) ELSE IsNext(S, x, y)

LEMMA NextIs ==
  ASSUME NEW t, NEW S, NEW sub, Shape(t, S, sub, Identity), NEW x \in S
  PROVE  Steps(S, x, rbtree_next(t, x))
<1>1. /\ t \in Tree /\ S \subseteq Key /\ Key \subseteq Int /\ x \in Node /\ "l" \in Side /\ "r" \in Side
      /\ Other("r") = "l" /\ sub[Nil] = {} /\ Nil \notin S
  BY KeyAssumption DEF Shape, Divided, Node, Side, Other
<1>2. CASE t.kid["r"][x] # Nil
  <2> DEFINE y == Leftmost(t, t.kid["r"][x])
  <2>1. IsNext(S, x, y)
    BY <1>2, NextBelow
  <2>2. rbtree_next(t, x) = y
    BY <1>2 DEF rbtree_next
  <2> HIDE DEF y
  <2>3. y # Nil
    BY <1>1, <2>1 DEF IsNext
  <2> QED
    BY <2>1, <2>2, <2>3 DEF Steps
<1>3. CASE t.kid["r"][x] = Nil
  <2>1. PICK f : Ascent(t, f) /\ \A z \in Node : Climb(t, z) = f[z]
    BY <1>1, ClimbIs
  <2> DEFINE y == f[x]
  <2>2. rbtree_next(t, x) = y
    BY <1>1, <1>3, <2>1 DEF rbtree_next
  <2>3. Past(S, sub, x, y)
    BY <2>1, AscentGoes
  <2> HIDE DEF y
  <2>4. Parted(t, S, sub, x, "r")
    BY <1>1, Below
  <2>5. x \in sub[x] /\ \A k \in sub[x] : k = x \/ k \in sub[t.kid["l"][x]]
    BY <1>1, <1>3, <2>4 DEF Parted
  <2>6. ASSUME NEW k \in S, x < k PROVE k \notin sub[x]
    <3> SUFFICES ASSUME k \in sub[x] PROVE FALSE
      OBVIOUS
    <3>1. k \in Int /\ x \in Int
      BY <1>1
    <3>2. k \in sub[t.kid["l"][x]]
      BY <2>5, <2>6, <3>1
    <3>3. Before(Identity, "l", k, x)
      BY <1>1, <3>2 DEF Shape, Divided
    <3> QED
      BY <1>1, <2>6, <3>1, <3>3 DEF Before, Identity
  <2>7. ASSUME NEW k \in S, x < k PROVE y # Nil /\ y <= k
    <3>1. ~(k < x)
      <4>1. k \in Int /\ x \in Int
        BY <1>1
      <4> QED
        BY <2>7, <4>1
    <3> QED
      BY <2>3, <2>5, <2>6, <2>7, <3>1 DEF Past
  <2>8. y # Nil => y \in S /\ x < y
    BY <2>3, <2>5 DEF Past
  <2> QED
    BY <2>2, <2>7, <2>8 DEF Steps, IsNext
<1> QED
  BY <1>2, <1>3

\* rbtree_first is the least key of the tree, Nil when it is empty.
LEMMA FirstIs ==
  ASSUME NEW t, NEW S, NEW sub, Shape(t, S, sub, Identity)
  PROVE  IF S = {} THEN rbtree_first(t) = Nil
         ELSE rbtree_first(t) \in S /\ \A k \in S : rbtree_first(t) <= k
<1>1. /\ t \in Tree /\ S \subseteq Key /\ Key \subseteq Int /\ Nil \notin S /\ Nil \in Node
      /\ sub[Nil] = {} /\ sub[t.root] = S /\ t.root \in S \cup {Nil}
  BY KeyAssumption DEF Shape, Divided, Chained, Node
<1>2. CASE S = {}
  <2>1. PICK f : LeftDescent(t, f) /\ \A z \in Node : Leftmost(t, z) = f[z]
    BY <1>1, LeftmostIs
  <2>2. t.kid["l"][Nil] = Nil
    BY <1>1 DEF Shape, Cleared, Side
  <2>3. f[Nil] = Nil
    BY <1>1, <2>1, <2>2 DEF LeftDescent
  <2> QED
    BY <1>1, <1>2, <2>1, <2>3 DEF rbtree_first
<1>3. CASE S # {}
  <2>1. t.root \in S
    BY <1>1, <1>3
  <2> DEFINE v == Leftmost(t, t.root)
  <2>2. First(t, S, sub, Identity, t.root, v)
    BY <2>1, LeftmostFirst
  <2> HIDE DEF v
  <2>3. v \in S
    BY <2>2 DEF First
  <2>4. ASSUME NEW k \in S PROVE v <= k
    <3>1. k \in Int /\ v \in Int
      BY <1>1, <2>3
    <3>2. k = v \/ Before(Identity, "l", v, k)
      BY <1>1, <2>2 DEF First
    <3>3. k = v \/ v < k
      BY <1>1, <2>3, <3>2 DEF Before, Identity
    <3> QED
      BY <3>1, <3>3
  <2> QED
    BY <1>3, <2>3, <2>4 DEF rbtree_first, v
<1> QED
  BY <1>2, <1>3

\* The node RBTREE_FOR visits after those of w.
Visit(t, w, n) ==
  IF n = 1 THEN rbtree_first(t) ELSE IF w[n - 1] = Nil THEN Nil ELSE rbtree_next(t, w[n - 1])

Visits == 1 .. Cardinality(Key) + 1

LEMMA WalkIs ==
  ASSUME NEW t
  PROVE  RBTREE_FOR(t) = [n \in Visits |-> Visit(t, RBTREE_FOR(t), n)]
<1> DEFINE Upto(g, m) == \A n \in 1 .. m : g[n] = Visit(t, g, n)
           B == {m \in Nat : ~\E f : f = [n \in Nat |-> f[n]] /\ Upto(f, m)}
<1>1. B = {}
  <2> SUFFICES ASSUME B # {} PROVE FALSE
    OBVIOUS
  <2>1. PICK m \in B : \A j \in B : m <= j
    <3>1. B \in SUBSET Nat /\ B # {}
      OBVIOUS
    <3> HIDE DEF B
    <3> QED
      BY <3>1, LeastIs
  <2>2. m \in Nat
    OBVIOUS
  <2>3. CASE m = 0
    <3> DEFINE f == [n \in Nat |-> Nil]
    <3>1. f = [n \in Nat |-> f[n]] /\ Upto(f, m)
      BY <2>3
    <3> HIDE DEF f
    <3> QED
      BY <3>1
  <2>4. CASE m # 0
    <3>1. m - 1 \in Nat /\ m - 1 \notin B
      BY <2>1, <2>2, <2>4
    <3>2. PICK g : g = [n \in Nat |-> g[n]] /\ Upto(g, m - 1)
      BY <3>1
    <3> DEFINE f == [n \in Nat |-> IF n = m THEN Visit(t, g, m) ELSE g[n]]
    <3>3. \A n \in Nat : f[n] = IF n = m THEN Visit(t, g, m) ELSE g[n]
      OBVIOUS
    <3>4. f = [n \in Nat |-> f[n]]
      OBVIOUS
    <3> HIDE DEF f
    <3>5. ASSUME NEW n \in 1 .. m PROVE f[n] = Visit(t, f, n)
      <4>1. n \in Nat /\ n - 1 \in Nat /\ n - 1 # m /\ (n # m => n \in 1 .. m - 1)
        BY <2>2
      <4>2. f[n - 1] = g[n - 1]
        BY <3>3, <4>1
      <4>3. Visit(t, f, n) = Visit(t, g, n)
        BY <4>2 DEF Visit
      <4>4. f[n] = Visit(t, g, n)
        BY <3>2, <3>3, <4>1
      <4> QED
        BY <4>3, <4>4
    <3> QED
      BY <3>4, <3>5
  <2> QED
    BY <2>3, <2>4
<1> DEFINE N == Cardinality(Key) + 1
           Is(w) == w = [n \in 1 .. N |-> IF n = 1 THEN rbtree_first(t)
                                          ELSE IF w[n - 1] = Nil THEN Nil ELSE rbtree_next(t, w[n - 1])]
           node == CHOOSE w : Is(w)
<1>2. N \in Nat
  BY KeyAssumption, FS_CardinalityType
<1>3. PICK f : Upto(f, N)
  <2> HIDE DEF N
  <2> QED
    BY <1>1, <1>2
<1> DEFINE w == [n \in 1 .. N |-> f[n]]
<1>4. \A n \in 1 .. N : w[n] = Visit(t, w, n)
  <2> HIDE DEF N
  <2> TAKE n \in 1 .. N
  <2>1. n # 1 => n - 1 \in 1 .. N
    BY <1>2
  <2>2. Visit(t, w, n) = Visit(t, f, n)
    BY <2>1 DEF Visit
  <2> QED
    BY <1>3, <2>2
<1>5. Is(w)
  <2>1. w = [n \in 1 .. N |-> w[n]]
    OBVIOUS
  <2> HIDE DEF w, N
  <2> QED
    BY <1>4, <2>1 DEF Visit
<1> HIDE DEF w
<1>6. Is(node)
  BY <1>5
<1>7. RBTREE_FOR(t) = node
  BY DEF RBTREE_FOR
<1> HIDE DEF node
<1> QED
  BY <1>6, <1>7 DEF Visit, Visits

\* RBTREE_FOR goes through the keys of the tree, all of them, in order.
LEMMA WalkGoes ==
  ASSUME NEW t, NEW S, NEW sub, Shape(t, S, sub, Identity), NEW w, RBTREE_FOR(t) = w
  PROVE  /\ DOMAIN w = Visits
         /\ {w[i] : i \in Visits} \ {Nil} = S
         /\ \A i \in Visits \ {1} : w[i] # Nil => w[i - 1] < w[i]
<1> DEFINE N == Cardinality(Key) + 1
<1>1. N \in Nat /\ N > 0 /\ Visits = 1 .. N
  BY KeyAssumption, FS_CardinalityType DEF Visits
<1>2. DOMAIN w = Visits /\ \A n \in Visits : w[n] = Visit(t, w, n)
  <2>1. w = [n \in Visits |-> Visit(t, w, n)]
    BY WalkIs
  <2> QED
    BY <2>1
<1>3. S \subseteq Key /\ Key \subseteq Int /\ Nil \notin S /\ 1 \in Visits
  <2>1. S \subseteq Key
    BY DEF Shape, Divided
  <2>2. 1 \in Visits
    BY <1>1
  <2> QED
    BY <2>1, <2>2, KeyAssumption
<1> HIDE DEF N
<1>4. w[1] = rbtree_first(t)
  BY <1>2, <1>3 DEF Visit
<1>5. ASSUME NEW n \in Visits, n # 1
      PROVE  /\ n - 1 \in Visits
             /\ w[n - 1] = Nil => w[n] = Nil
             /\ w[n - 1] \in S => Steps(S, w[n - 1], w[n])
  <2>1. n - 1 \in Visits /\ w[n] = IF w[n - 1] = Nil THEN Nil ELSE rbtree_next(t, w[n - 1])
    BY <1>1, <1>2, <1>5 DEF Visit
  <2>2. w[n - 1] \in S => w[n] = rbtree_next(t, w[n - 1])
    BY <1>3, <2>1
  <2>3. w[n - 1] \in S => Steps(S, w[n - 1], rbtree_next(t, w[n - 1]))
    BY NextIs
  <2> QED
    BY <2>1, <2>2, <2>3
<1>6. \A n \in Visits : w[n] \in S \cup {Nil}
  <2> DEFINE B == {n \in Visits : w[n] \notin S \cup {Nil}}
  <2> SUFFICES ASSUME B # {} PROVE FALSE
    OBVIOUS
  <2>1. PICK n \in B : \A j \in B : n <= j
    <3>1. B \in SUBSET Nat /\ B # {}
      BY <1>1
    <3> HIDE DEF B
    <3> QED
      BY <3>1, LeastIs
  <2>2. n \in Nat /\ n \in Visits /\ ~(n <= n - 1)
    BY <1>1
  <2>3. CASE n = 1
    <3>1. w[1] \in S \cup {Nil}
      BY <1>4, FirstIs
    <3> QED
      BY <2>1, <2>3, <3>1
  <2>4. CASE n # 1
    <3>1. w[n - 1] \in S \cup {Nil}
      BY <1>5, <2>1, <2>2, <2>4
    <3>2. w[n] \in S \cup {Nil}
      BY <1>5, <2>2, <2>4, <3>1 DEF Steps, IsNext
    <3> QED
      BY <2>1, <3>2
  <2> QED
    BY <2>3, <2>4
<1>7. ASSUME NEW n \in Visits \ {1}, w[n] # Nil PROVE w[n - 1] < w[n]
  <2>1. n \in Visits /\ n # 1
    OBVIOUS
  <2>2. w[n - 1] \in S
    BY <1>5, <1>6, <1>7, <2>1
  <2>3. Steps(S, w[n - 1], w[n])
    BY <1>5, <2>1, <2>2
  <2> QED
    BY <1>7, <2>3 DEF Steps, IsNext
<1>8. ASSUME NEW k \in S PROVE \E n \in Visits : w[n] = k
  <2> SUFFICES ASSUME \A n \in Visits : w[n] # k PROVE FALSE
    OBVIOUS
  <2>1. \A n \in Visits : w[n] \in S /\ w[n] < k
    <3> DEFINE B == {n \in Visits : ~(w[n] \in S /\ w[n] < k)}
    <3> SUFFICES ASSUME B # {} PROVE FALSE
      OBVIOUS
    <3>1. PICK n \in B : \A j \in B : n <= j
      <4>1. B \in SUBSET Nat /\ B # {}
        BY <1>1
      <4> HIDE DEF B
      <4> QED
        BY <4>1, LeastIs
    <3>2. n \in Nat /\ n \in Visits /\ ~(n <= n - 1)
      BY <1>1
    <3>3. CASE n = 1
      <4>1. w[1] \in S /\ w[1] <= k /\ w[1] # k
        BY <1>3, <1>4, <1>8, FirstIs
      <4>2. w[1] \in Int /\ k \in Int
        BY <1>3, <4>1
      <4> QED
        BY <3>1, <3>3, <4>1, <4>2
    <3>4. CASE n # 1
      <4>1. w[n - 1] \in S /\ w[n - 1] < k
        BY <1>5, <3>1, <3>2, <3>4
      <4>2. Steps(S, w[n - 1], w[n])
        BY <1>5, <3>2, <3>4, <4>1
      <4>3. w[n] \in S /\ w[n] <= k /\ w[n] # k
        BY <3>2, <4>1, <4>2 DEF Steps, IsNext
      <4>4. w[n] \in Int /\ k \in Int
        BY <1>3, <4>3
      <4> QED
        BY <3>1, <4>3, <4>4
    <3> QED
      BY <3>3, <3>4
  <2>2. \A n \in Visits : w[n] \in Int /\ w[n] \in Key /\ w[n] # Nil
    BY <1>3, <2>1
  <2>3. ASSUME NEW i \in Visits, NEW j \in Visits, i < j PROVE w[i] < w[j]
    <3> DEFINE B == {m \in Visits : i < m /\ ~(w[i] < w[m])}
    <3> SUFFICES ASSUME B # {} PROVE FALSE
      BY <2>3
    <3>1. PICK m \in B : \A l \in B : m <= l
      <4>1. B \in SUBSET Nat /\ B # {}
        BY <1>1
      <4> HIDE DEF B
      <4> QED
        BY <4>1, LeastIs
    <3>2. m \in Nat /\ m \in Visits /\ i \in Nat /\ m # 1 /\ i < m /\ ~(m <= m - 1)
      BY <1>1
    <3>3. m - 1 \in Visits /\ w[m - 1] < w[m]
      BY <1>5, <1>7, <2>2, <3>2
    <3>4. i = m - 1 \/ i < m - 1
      BY <3>2
    <3>5. i < m - 1 => w[i] < w[m - 1]
      BY <3>1, <3>2, <3>3
    <3>6. w[i] \in Int /\ w[m - 1] \in Int /\ w[m] \in Int
      BY <2>2, <3>2, <3>3
    <3>7. w[i] < w[m]
      BY <3>3, <3>4, <3>5, <3>6
    <3> QED
      BY <3>1, <3>7
  <2>4. IsFiniteSet(Visits) /\ Cardinality(Visits) = N
    <3>1. /\ IsFiniteSet(1 .. N)
          /\ Cardinality(1 .. N) = IF 1 > N THEN 0 ELSE N - 1 + 1
      BY <1>1, FS_Interval
    <3> QED
      BY <1>1, <3>1
  <2>5. Cardinality(Key) < N /\ IsFiniteSet(Key)
    BY KeyAssumption, FS_CardinalityType DEF N
  <2>6. w \in [Visits -> Key]
    <3>1. w = [n \in Visits |-> Visit(t, w, n)]
      BY WalkIs
    <3> QED
      BY <2>2, <3>1
  <2>7. PICK i \in Visits, j \in Visits : i # j /\ w[i] = w[j]
    BY <2>4, <2>5, <2>6, FS_PigeonHole
  <2>8. i < j \/ j < i
    BY <1>1, <2>7
  <2> QED
    BY <2>2, <2>3, <2>7, <2>8
<1>9. {w[i] : i \in Visits} \ {Nil} = S
  BY <1>3, <1>6, <1>8
<1> QED
  BY <1>2, <1>7, <1>9

-----------------------------------------------------------------------------
(* The specification.                                                      *)

\* The inductive invariant: keys divide along the tree, whose nodes have a black
\* height each, and count is their number.
IInv == RedBlackTree(tree, keys) /\ count = Cardinality(keys)

LEMMA EmptySound == RedBlackTree(EmptyTree, {})
<1> DEFINE sub == [x \in Node |-> {}]
           bh == [x \in Node |-> 0]
<1>1. /\ EmptyTree \in Tree /\ EmptyTree.root = Nil /\ EmptyTree.ok /\ Nil \in Node
      /\ \A x \in Node : /\ EmptyTree.parent[x] = Nil /\ EmptyTree.color[x] = "black"
                         /\ \A d \in Side : EmptyTree.kid[d][x] = Nil
  BY DEF EmptyTree, Tree, Node
<1>2. Divided(EmptyTree, {}, sub, Identity)
  BY <1>1, IdentityLabels DEF Divided
<1>3. Chained(EmptyTree, {}) /\ Cleared(EmptyTree, {})
  BY <1>1 DEF Chained, Cleared
<1>4. Even(EmptyTree, {}, bh) /\ RedApart(EmptyTree, {}, Nil)
  BY <1>1 DEF Even, RedApart
<1>5. Sound(EmptyTree, {}, sub, bh)
  BY <1>1, <1>2, <1>3, <1>4 DEF Sound, Shape
<1> QED
  BY <1>5 DEF RedBlackTree

\* What a red-black tree of the keys S is, in short.
LEMMA SoundIs ==
  ASSUME NEW t, NEW S, RedBlackTree(t, S)
  PROVE  /\ S \in SUBSET Key /\ IsFiniteSet(S) /\ Cardinality(S) \in Nat
         /\ \A k \in Key : rbtree_search(t, k) = IF k \in S THEN k ELSE Nil
<1>1. PICK sub : Shape(t, S, sub, Identity)
  BY DEF RedBlackTree, Sound
<1>2. S \in SUBSET Key
  BY <1>1 DEF Shape, Divided
<1>3. IsFiniteSet(S)
  BY <1>2, KeyAssumption, FS_Subset
<1> QED
  BY <1>1, <1>2, <1>3, SearchFinds, FS_CardinalityType

LEMMA InitIInv == Init => IInv
BY EmptySound, FS_EmptySet DEF Init, IInv

LEMMA NextIInv == IInv /\ [Next]_vars => IInv'
<1> SUFFICES ASSUME IInv, [Next]_vars PROVE IInv'
  OBVIOUS
<1>1. RedBlackTree(tree, keys) /\ count = Cardinality(keys)
  BY DEF IInv
<1>2. /\ keys \in SUBSET Key /\ IsFiniteSet(keys) /\ Cardinality(keys) \in Nat
      /\ \A k \in Key : rbtree_search(tree, k) = IF k \in keys THEN k ELSE Nil
  BY <1>1, SoundIs
<1>3. ASSUME NEW k \in Key, insert(k) PROVE IInv'
  <2>1. RedBlackTree(tree', keys')
    BY <1>1, <1>3, InsertSound DEF insert
  <2>2. rbtree_search(tree, k) = k <=> k \in keys
    BY <1>2, KeyAssumption
  <2>3. count' = Cardinality(keys')
    BY <1>1, <1>2, <1>3, <2>2, FS_AddElement DEF insert
  <2> QED
    BY <2>1, <2>3 DEF IInv
<1>4. ASSUME NEW k \in Key, delete(k) PROVE IInv'
  <2>1. k \in keys
    BY <1>2, <1>4, KeyAssumption DEF delete
  <2>2. RedBlackTree(tree', keys')
    BY <1>1, <1>4, <2>1, DeleteSound DEF delete
  <2>3. count' = Cardinality(keys')
    BY <1>1, <1>2, <1>4, <2>1, FS_RemoveElement DEF delete
  <2> QED
    BY <2>2, <2>3 DEF IInv
<1>5. CASE destroy
  <2>1. keys' = {}
    <3> DEFINE gone == rbtree_delete_node(tree)[tree.root]
    <3>1. keys' = {k \in keys : \A i \in DOMAIN gone : gone[i] # k}
      BY <1>5 DEF destroy
    <3>2. \A k \in keys : \E i \in DOMAIN gone : gone[i] = k
      BY <1>1, FreedIs
    <3> HIDE DEF gone
    <3> QED
      BY <3>1, <3>2
  <2> QED
    BY <1>5, <2>1, EmptySound, FS_EmptySet DEF destroy, IInv
<1>6. CASE UNCHANGED vars
  BY <1>1, <1>6 DEF vars, IInv
<1> QED
  BY <1>3, <1>4, <1>5, <1>6 DEF Next

LEMMA SpecIInv == Spec => []IInv
BY InitIInv, NextIInv, PTL DEF Spec

\* dig_rb_tree.c, for every set of keys: whatever is inserted and deleted,
\* parents and children point to each other, no assert fails, and neither the
\* sentinel that all trees share nor a node outside the tree is linked or
\* repainted.
THEOREM LinksTheorem == Spec => []LinksRight
<1>1. ASSUME IInv PROVE LinksRight
  <2>1. PICK sub, bh : Sound(tree, keys, sub, bh)
    BY <1>1 DEF IInv, RedBlackTree
  <2>2. tree \in Tree /\ Chained(tree, keys) /\ Cleared(tree, keys) /\ tree.ok
    BY <2>1 DEF Sound, Shape
  <2>3. keys \in SUBSET Key /\ count \in Nat
    BY <1>1, SoundIs DEF IInv
  <2>4. TypeOK /\ AssertsHold
    BY <2>2, <2>3 DEF TypeOK, AssertsHold
  <2>5. SentinelUntouched
    BY <2>2 DEF Cleared, SentinelUntouched
  <2>6. Linked
    BY <2>2 DEF Chained, Linked
  <2> QED
    BY <2>4, <2>5, <2>6 DEF LinksRight
<1> QED
  BY <1>1, SpecIInv, PTL

\* After every insertion and deletion, their repairs included, the root is black,
\* no red node has a red child and every path has as many black nodes.
THEOREM RedBlackTheorem == Spec => []RedBlack
<1>1. ASSUME IInv PROVE RedBlack
  <2>1. PICK sub, bh : Sound(tree, keys, sub, bh)
    BY <1>1 DEF IInv, RedBlackTree
  <2>2. Shape(tree, keys, sub, Identity) /\ RedApart(tree, keys, Nil) /\ tree.color[tree.root] = "black"
    BY <2>1 DEF Sound
  <2>3. BlackHeight(tree)[tree.root] # -1
    <3>1. BlackHeight(tree)[tree.root] = bh[tree.root] /\ bh[tree.root] \in Nat
      BY <2>1, BlackHeightIs
    <3> QED
      BY <3>1
  <2>4. ASSUME NEW x \in keys, NEW d \in Side, tree.color[x] = "red"
        PROVE  tree.color[tree.kid[d][x]] = "black"
    <3>1. tree.color[tree.kid[d][x]] # "red"
      BY <2>2, <2>4, NoRedPair
    <3>2. x \in Node /\ tree \in Tree
      BY <2>2 DEF Shape, Divided, Node
    <3>3. tree.kid[d][x] \in Node
      BY <3>2, TreeType
    <3>4. tree.color[tree.kid[d][x]] \in Color
      BY <3>2, <3>3, TreeType
    <3> QED
      BY <3>1, <3>4 DEF Color
  <2> QED
    BY <2>2, <2>3, <2>4 DEF RedBlack
<1> QED
  BY <1>1, SpecIInv, PTL

\* RBTREE_FOR visits every key in the tree once and in order, rbtree_search finds
\* the keys inserted and not deleted since, and count is their number.
THEOREM WalkTheorem == Spec => []WalkAndSearch
<1>1. ASSUME IInv PROVE WalkAndSearch
  <2>1. PICK sub : Shape(tree, keys, sub, Identity)
    BY <1>1 DEF IInv, RedBlackTree, Sound
  <2> DEFINE w == RBTREE_FOR(tree)
  <2>2. /\ DOMAIN w = Visits /\ {w[i] : i \in Visits} \ {Nil} = keys
        /\ \A i \in Visits \ {1} : w[i] # Nil => w[i - 1] < w[i]
    BY <2>1, WalkGoes
  <2>3. \A k \in Key : rbtree_search(tree, k) = IF k \in keys THEN k ELSE Nil
    BY <1>1, SoundIs DEF IInv
  <2>4. count = Cardinality(keys)
    BY <1>1 DEF IInv
  <2> HIDE DEF w
  <2>5. /\ {w[i] : i \in DOMAIN w} \ {Nil} = keys
        /\ \A i \in DOMAIN w \ {1} : w[i] # Nil => w[i - 1] < w[i]
    BY <2>2
  <2> QED
    BY <2>3, <2>4, <2>5 DEF WalkAndSearch, w
<1> QED
  BY <1>1, SpecIInv, PTL
=============================================================================
