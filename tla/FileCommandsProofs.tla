-------------------------- MODULE FileCommandsProofs --------------------------
(***************************************************************************)
(* What FileCommands says holds for any sessions, any tree, any names and    *)
(* any depth of the directory tree.                                          *)
(***************************************************************************)
EXTENDS FileCommands, TLAPS

-----------------------------------------------------------------------------
(* Paths. *)

\* Paths with the same names are the same.
LEMMA SamePath ==
  ASSUME NEW p \in Path, NEW q \in Path, Len(p) = Len(q), \A i \in 1 .. Len(p) : p[i] = q[i]
  PROVE  p = q
BY DEF Path

\* The beginning of a path.
LEMMA Beginning ==
  ASSUME NEW p \in Path, NEW k \in 0 .. Len(p)
  PROVE  /\ SubSeq(p, 1, k) \in Path
         /\ Len(SubSeq(p, 1, k)) = k
         /\ \A i \in 1 .. k : SubSeq(p, 1, k)[i] = p[i]
BY DEF Path

\* All of a path.
LEMMA Whole ==
  ASSUME NEW p \in Path
  PROVE  Len(p) \in Nat /\ SubSeq(p, 1, Len(p)) = p
<1>1. Len(p) \in Nat /\ Len(p) \in 0 .. Len(p)
  BY DEF Path
<1>2. /\ SubSeq(p, 1, Len(p)) \in Path
      /\ Len(SubSeq(p, 1, Len(p))) = Len(p)
      /\ \A i \in 1 .. Len(p) : SubSeq(p, 1, Len(p))[i] = p[i]
  BY <1>1, Beginning
<1> QED
  BY <1>1, <1>2, SamePath

\* What lies below q agrees with q as far as q goes.
LEMMA Below ==
  ASSUME NEW p \in Path, NEW q \in Path
  PROVE  IsBelow(p, q) <=> Len(q) < Len(p) /\ \A i \in 1 .. Len(q) : p[i] = q[i]
BY SamePath, Beginning DEF IsBelow, IsPrefix, Path

\* The path that p has after the object at q, above it or the same, went to r.
LEMMA MovedPath ==
  ASSUME NEW p \in Path, NEW q \in Path, NEW r \in Path, Len(q) <= Len(p)
  PROVE  LET m == r \o SubSeq(p, Len(q) + 1, Len(p))
         IN  /\ m \in Path
             /\ Len(m) = Len(r) + Len(p) - Len(q)
             /\ \A i \in 1 .. Len(r) : m[i] = r[i]
             /\ \A i \in Len(r) + 1 .. Len(m) : m[i] = p[i - Len(r) + Len(q)]
BY DEF Path

\* A path without its last name.
LEMMA Parent ==
  ASSUME NEW p \in Path, p # <<>>
  PROVE  /\ Front(p) \in Path
         /\ Len(p) > 0 /\ Len(Front(p)) = Len(p) - 1
         /\ \A i \in 1 .. Len(p) - 1 : Front(p)[i] = p[i]
         /\ Last(p) \in Seq(Letter) /\ Last(p) = p[Len(p)]
         /\ Front(p) = SubSeq(p, 1, Len(p) - 1)
<1>1. /\ Len(p) \in Nat /\ Len(p) > 0
      /\ Len(p) - 1 \in 0 .. Len(p)
      /\ p[Len(p)] \in Seq(Letter)
  BY DEF Path
<1> QED
  BY <1>1, Beginning DEF Front, Last

-----------------------------------------------------------------------------
(* The tree. *)

\* Directories as the kernel finds them, with what is above them.
LEMMA DirectoryAt ==
  ASSUME IsTree(tree), NEW p \in Path, IsDirectory(p), p # <<>>,
         NEW k \in 1 .. Len(p)
  PROVE  \E d \in DOMAIN tree \intersect Directory : tree[d] = SubSeq(p, 1, k)
<1>1. PICK d \in DOMAIN tree \intersect Directory : tree[d] = p
  BY DEF IsDirectory
<1>2. CASE k = Len(p)
  <2>1. SubSeq(p, 1, k) = p
    BY <1>2, Whole
  <2> QED
    BY <1>1, <2>1
<1>3. CASE k # Len(p)
  <2>1. k \in 1 .. Len(tree[d]) - 1
    BY <1>1, <1>3 DEF Path
  <2> QED
    BY <1>1, <2>1 DEF IsTree
<1> QED
  BY <1>2, <1>3

\* Removing a file or an empty directory leaves a tree.
LEMMA UnlinkTree ==
  ASSUME IsTree(tree), NEW n \in Name, Removable(n), Unlink(n)
  PROVE  IsTree(tree')
<1> DEFINE stay == {o \in DOMAIN tree : tree[o] # n.path}
<1>1. tree' = [o \in stay |-> tree[o]]
  BY DEF Unlink, Keep
<1>2. DOMAIN tree' = stay /\ \A o \in stay : tree'[o] = tree[o]
  BY <1>1
<1>3. ASSUME NEW o \in stay, NEW k \in 1 .. Len(tree[o]) - 1
      PROVE  \E d \in stay \intersect Directory : tree[d] = SubSeq(tree[o], 1, k)
  <2>1. PICK d \in DOMAIN tree \intersect Directory : tree[d] = SubSeq(tree[o], 1, k)
    BY <1>3 DEF IsTree
  <2>2. CASE tree[d] = n.path
    <3>1. tree[o] \in Path /\ n.path \in Path
      BY <1>3 DEF IsTree, Name
    <3>2. IsDirectory(n.path) /\ n.path # <<>>
      BY <2>1, <2>2 DEF IsDirectory, Removable
    <3>3. Len(n.path) = k /\ \A i \in 1 .. k : n.path[i] = tree[o][i]
      BY <1>3, <2>1, <2>2, <3>1, Beginning DEF Path
    <3>4. Len(tree[o]) \in Nat /\ Len(n.path) < Len(tree[o])
      BY <1>3, <3>1, <3>3, Whole
    <3>5. IsBelow(tree[o], n.path)
      BY <3>1, <3>3, <3>4, Below
    <3> QED
      BY <1>3, <3>2, <3>5 DEF Removable, IsEmpty
  <2> QED
    BY <2>1, <2>2
<1>4. DOMAIN tree' \subseteq Object /\ tree' \in [DOMAIN tree' -> Path \ {<<>>}]
  BY <1>1, <1>2 DEF IsTree
<1>5. \A o, q \in DOMAIN tree' : o # q => tree'[o] # tree'[q]
  BY <1>2 DEF IsTree
<1>6. \A o \in DOMAIN tree' : \A k \in 1 .. Len(tree'[o]) - 1 :
        \E d \in DOMAIN tree' \intersect Directory : tree'[d] = SubSeq(tree'[o], 1, k)
  BY <1>2, <1>3
<1> QED
  BY <1>4, <1>5, <1>6 DEF IsTree

\* A new file in a directory leaves a tree.
LEMMA CreateTree ==
  ASSUME IsTree(tree), NEW p \in Path, NEW f \in File \ DOMAIN tree,
         IsDirectory(Front(p)), ~ Exists(p),
         tree' = [q \in DOMAIN tree \union {f} |-> IF q = f THEN p ELSE tree[q]]
  PROVE  IsTree(tree')
<1>1. p # <<>> /\ \A o \in DOMAIN tree : tree[o] # p
  BY DEF Exists
<1>2. /\ DOMAIN tree' = DOMAIN tree \union {f} /\ tree'[f] = p
      /\ \A o \in DOMAIN tree : tree'[o] = tree[o]
  OBVIOUS
<1>3. ASSUME NEW o \in DOMAIN tree', NEW k \in 1 .. Len(tree'[o]) - 1
      PROVE  \E d \in DOMAIN tree' \intersect Directory : tree'[d] = SubSeq(tree'[o], 1, k)
  <2>1. CASE o # f
    <3>1. \E d \in DOMAIN tree \intersect Directory : tree[d] = SubSeq(tree[o], 1, k)
      BY <1>2, <1>3, <2>1 DEF IsTree
    <3> QED
      BY <1>2, <2>1, <3>1
  <2>2. CASE o = f
    <3>0. Len(p) \in Nat /\ k \in 1 .. Len(p) - 1
      BY <1>2, <1>3, <2>2, Whole
    <3>1. /\ Front(p) \in Path /\ Len(Front(p)) = Len(p) - 1
          /\ k \in 0 .. Len(Front(p)) /\ k \in 0 .. Len(p)
          /\ \A i \in 1 .. k : Front(p)[i] = p[i]
      BY <1>1, <3>0, Parent
    <3>2. SubSeq(Front(p), 1, k) = SubSeq(p, 1, k)
      BY <3>1, Beginning, SamePath
    <3>3. Front(p) # <<>> /\ k \in 1 .. Len(Front(p))
      BY <3>0, <3>1
    <3>4. \E d \in DOMAIN tree \intersect Directory : tree[d] = SubSeq(p, 1, k)
      BY <3>1, <3>2, <3>3, DirectoryAt
    <3> QED
      BY <1>2, <2>2, <3>4
  <2> QED
    BY <2>1, <2>2
<1>4. DOMAIN tree' \subseteq Object
  BY <1>2 DEF IsTree, Object
<1>5. tree' \in [DOMAIN tree' -> Path \ {<<>>}]
  BY <1>1, <1>2 DEF IsTree
<1>6. \A o, q \in DOMAIN tree' : o # q => tree'[o] # tree'[q]
  BY <1>1, <1>2 DEF IsTree
<1> QED
  BY <1>3, <1>4, <1>5, <1>6 DEF IsTree

-----------------------------------------------------------------------------
(* Renaming. *)

\* p is q or lies below it.
In(p, q) == Len(q) <= Len(p) /\ \A i \in 1 .. Len(q) : p[i] = q[i]

\* The same in the kernel's words.
LEMMA Within ==
  ASSUME NEW p \in Path, NEW q \in Path
  PROVE  In(p, q) <=> p = q \/ IsBelow(p, q)
<1>1. Len(p) \in Nat /\ Len(q) \in Nat
  BY Whole
<1>2. ASSUME In(p, q), Len(p) = Len(q) PROVE p = q
  BY <1>2, SamePath DEF In
<1> QED
  BY <1>1, <1>2, Below DEF In

\* The beginning of what is in q is q.
LEMMA Prefixed ==
  ASSUME NEW p \in Path, NEW q \in Path, In(p, q)
  PROVE  SubSeq(p, 1, Len(q)) = q
<1>1. Len(q) \in 0 .. Len(p)
  BY Whole DEF In
<1>2. /\ SubSeq(p, 1, Len(q)) \in Path /\ Len(SubSeq(p, 1, Len(q))) = Len(q)
      /\ \A i \in 1 .. Len(q) : SubSeq(p, 1, Len(q))[i] = p[i]
  BY <1>1, Beginning
<1> QED
  BY <1>2, SamePath DEF In

\* Where an object is after a rename from q to r.
Moved(p, q, r) == IF In(p, q) THEN r \o SubSeq(p, Len(q) + 1, Len(p)) ELSE p

\* The new path, name by name.
LEMMA MovedIn ==
  ASSUME NEW p \in Path, NEW q \in Path, NEW r \in Path, In(p, q)
  PROVE  /\ Moved(p, q, r) \in Path
         /\ Len(Moved(p, q, r)) = Len(r) + Len(p) - Len(q)
         /\ \A i \in 1 .. Len(r) : Moved(p, q, r)[i] = r[i]
         /\ \A i \in Len(r) + 1 .. Len(Moved(p, q, r)) :
              Moved(p, q, r)[i] = p[i - Len(r) + Len(q)]
<1> DEFINE m == r \o SubSeq(p, Len(q) + 1, Len(p))
<1>1. Len(q) <= Len(p)
  BY DEF In
<1>2. /\ m \in Path
      /\ Len(m) = Len(r) + Len(p) - Len(q)
      /\ \A i \in 1 .. Len(r) : m[i] = r[i]
      /\ \A i \in Len(r) + 1 .. Len(m) : m[i] = p[i - Len(r) + Len(q)]
  BY <1>1, MovedPath
<1>3. Moved(p, q, r) = m
  BY DEF Moved
<1> HIDE DEF m
<1> QED
  BY <1>2, <1>3

\* It is in the new place.
LEMMA MovedInto ==
  ASSUME NEW p \in Path, NEW q \in Path, NEW r \in Path, In(p, q)
  PROVE  In(Moved(p, q, r), r)
<1>1. Len(p) \in Nat /\ Len(q) \in Nat /\ Len(r) \in Nat /\ Len(q) <= Len(p)
  BY Whole DEF In
<1>2. /\ Len(Moved(p, q, r)) = Len(r) + Len(p) - Len(q)
      /\ \A i \in 1 .. Len(r) : Moved(p, q, r)[i] = r[i]
  BY MovedIn
<1> QED
  BY <1>1, <1>2 DEF In

\* Two objects that both moved are as different as before.
LEMMA MovedApart ==
  ASSUME NEW p1 \in Path, NEW p2 \in Path, NEW q \in Path, NEW r \in Path,
         In(p1, q), In(p2, q), Moved(p1, q, r) = Moved(p2, q, r)
  PROVE  p1 = p2
<1>1. Len(p1) \in Nat /\ Len(p2) \in Nat /\ Len(q) \in Nat /\ Len(r) \in Nat
  BY Whole
<1>2. Len(p1) = Len(p2) /\ Len(q) <= Len(p1)
  BY <1>1, MovedIn DEF In
<1>3. ASSUME NEW i \in 1 .. Len(p1) PROVE p1[i] = p2[i]
  <2>1. CASE i <= Len(q)
    BY <1>1, <1>3, <2>1 DEF In
  <2>2. CASE i > Len(q)
    <3>1. PICK j \in Len(r) + 1 .. Len(r) + Len(p1) - Len(q) : i = j - Len(r) + Len(q)
      <4>1. i - Len(q) + Len(r) \in Len(r) + 1 .. Len(r) + Len(p1) - Len(q)
        BY <1>1, <1>2, <1>3, <2>2
      <4>2. i = (i - Len(q) + Len(r)) - Len(r) + Len(q)
        BY <1>1, <1>3
      <4> QED
        BY <4>1, <4>2
    <3>2. j \in Len(r) + 1 .. Len(Moved(p1, q, r)) /\ j \in Len(r) + 1 .. Len(Moved(p2, q, r))
      BY <1>1, <1>2, MovedIn
    <3>3. Moved(p1, q, r)[j] = p1[i] /\ Moved(p2, q, r)[j] = p2[i]
      BY <3>1, <3>2, MovedIn
    <3> QED
      BY <3>3
  <2> QED
    BY <1>1, <1>3, <2>1, <2>2
<1> QED
  BY <1>2, <1>3, SamePath

\* The beginning of a moved path is a beginning of the new place, or a moved beginning
\* of the old path.
LEMMA MovedBeginning ==
  ASSUME NEW p \in Path, NEW q \in Path, NEW r \in Path, In(p, q),
         NEW k \in 1 .. Len(Moved(p, q, r)) - 1
  PROVE  \/ k < Len(r) /\ SubSeq(Moved(p, q, r), 1, k) = SubSeq(r, 1, k)
         \/ LET j == Len(q) + k - Len(r)
            IN  /\ k >= Len(r) /\ j \in Len(q) .. Len(p) - 1
                /\ In(SubSeq(p, 1, j), q)
                /\ SubSeq(Moved(p, q, r), 1, k) = Moved(SubSeq(p, 1, j), q, r)
<1> DEFINE m == Moved(p, q, r)
           j == Len(q) + k - Len(r)
<1>1. Len(p) \in Nat /\ Len(q) \in Nat /\ Len(r) \in Nat /\ Len(q) <= Len(p)
  BY Whole DEF In
<1>2. /\ m \in Path /\ Len(m) = Len(r) + Len(p) - Len(q)
      /\ \A i \in 1 .. Len(r) : m[i] = r[i]
      /\ \A i \in Len(r) + 1 .. Len(m) : m[i] = p[i - Len(r) + Len(q)]
  BY MovedIn
<1> HIDE DEF m
<1>3. k \in 0 .. Len(m) /\ k \in 1 .. Len(r) + Len(p) - Len(q) - 1
  BY <1>1, <1>2 DEF m
<1>4. SubSeq(m, 1, k) \in Path /\ Len(SubSeq(m, 1, k)) = k /\ \A i \in 1 .. k : SubSeq(m, 1, k)[i] = m[i]
  BY <1>2, <1>3, Beginning
<1>5. CASE k < Len(r)
  <2>1. k \in 0 .. Len(r)
    BY <1>1, <1>3, <1>5
  <2>2. /\ SubSeq(r, 1, k) \in Path /\ Len(SubSeq(r, 1, k)) = k
        /\ \A i \in 1 .. k : SubSeq(r, 1, k)[i] = r[i]
    BY <2>1, Beginning
  <2>3. \A i \in 1 .. k : SubSeq(m, 1, k)[i] = SubSeq(r, 1, k)[i]
    BY <1>1, <1>2, <1>3, <1>4, <1>5, <2>2
  <2>4. SubSeq(m, 1, k) = SubSeq(r, 1, k)
    BY <1>4, <2>2, <2>3, SamePath
  <2> QED
    BY <1>5, <2>4 DEF m
<1>6. CASE k >= Len(r)
  <2> DEFINE b == SubSeq(p, 1, j)
  <2>1. j \in Len(q) .. Len(p) - 1 /\ j \in 0 .. Len(p)
    BY <1>1, <1>3, <1>6
  <2>2. b \in Path /\ Len(b) = j /\ \A i \in 1 .. j : b[i] = p[i]
    BY <2>1, Beginning
  <2>3. In(b, q)
    BY <1>1, <2>1, <2>2 DEF In
  <2> HIDE DEF b
  <2>4. /\ Moved(b, q, r) \in Path /\ Len(Moved(b, q, r)) = k
        /\ \A i \in 1 .. Len(r) : Moved(b, q, r)[i] = r[i]
        /\ \A i \in Len(r) + 1 .. k : Moved(b, q, r)[i] = b[i - Len(r) + Len(q)]
    <3>1. /\ Moved(b, q, r) \in Path /\ Len(Moved(b, q, r)) = Len(r) + Len(b) - Len(q)
          /\ \A i \in 1 .. Len(r) : Moved(b, q, r)[i] = r[i]
          /\ \A i \in Len(r) + 1 .. Len(Moved(b, q, r)) :
               Moved(b, q, r)[i] = b[i - Len(r) + Len(q)]
      BY <2>2, <2>3, MovedIn
    <3>2. Len(r) + Len(b) - Len(q) = k
      BY <1>1, <1>3, <2>2
    <3> QED
      BY <3>1, <3>2
  <2>5. ASSUME NEW i \in 1 .. k PROVE SubSeq(m, 1, k)[i] = Moved(b, q, r)[i]
    <3>1. CASE i <= Len(r)
      BY <1>1, <1>2, <1>4, <2>4, <2>5, <3>1
    <3>2. CASE i > Len(r)
      <4>1. /\ i \in Len(r) + 1 .. k /\ i \in Len(r) + 1 .. Len(m)
            /\ i - Len(r) + Len(q) \in 1 .. j
        BY <1>1, <1>2, <1>3, <2>5, <3>2
      <4> QED
        BY <1>2, <1>4, <2>2, <2>4, <4>1
    <3> QED
      BY <1>1, <2>5, <3>1, <3>2
  <2>6. SubSeq(m, 1, k) = Moved(b, q, r)
    BY <1>4, <2>4, <2>5, SamePath
  <2> QED
    BY <1>6, <2>1, <2>3, <2>6 DEF m, b
<1> QED
  BY <1>1, <1>3, <1>5, <1>6

\* The tree after a rename.
LEMMA Renamed ==
  ASSUME IsTree(tree), NEW n \in Name, NEW r \in Path, Rename(n, r)
  PROVE  /\ DOMAIN tree' = {o \in DOMAIN tree : tree[o] # r \/ r = n.path}
         /\ \A o \in DOMAIN tree' : tree'[o] = Moved(tree[o], n.path, r)
<1>1. n.path \in Path /\ \A o \in DOMAIN tree : tree[o] \in Path
  BY DEF Name, IsTree
<1>2. \A o \in DOMAIN tree : In(tree[o], n.path) <=> tree[o] = n.path \/ IsBelow(tree[o], n.path)
  BY <1>1, Within
<1> QED
  BY <1>2 DEF Rename, Moved

\* Where a rename goes: nothing is below the new path, which is not below the old one.
LEMMA RenameSound ==
  ASSUME IsTree(tree), NEW n \in Name, NEW r \in Path, Renamable(n, r), r # n.path
  PROVE  /\ n.path \in Path /\ n.path # <<>> /\ r # <<>>
         /\ \E x \in DOMAIN tree : tree[x] = n.path
         /\ ~ In(r, n.path)
         /\ \A o \in DOMAIN tree : ~ IsBelow(tree[o], r)
<1>1. /\ n.path \in Path /\ n.path # <<>> /\ r # <<>>
      /\ ~ IsBelow(r, n.path)
      /\ Exists(r) /\ IsDirectory(r) => IsEmpty(r)
      /\ \E x \in DOMAIN tree : tree[x] = n.path
  BY DEF Renamable, Name, Found, Exists
<1>2. ~ In(r, n.path)
  BY <1>1, Within
<1>3. ASSUME NEW o \in DOMAIN tree, IsBelow(tree[o], r) PROVE FALSE
  <2>1. /\ tree[o] \in Path /\ Len(tree[o]) \in Nat /\ Len(r) \in 1 .. Len(tree[o]) - 1
        /\ \A i \in 1 .. Len(r) : tree[o][i] = r[i]
    <3>1. tree[o] \in Path /\ Len(tree[o]) \in Nat /\ Len(r) \in Nat /\ Len(r) > 0
      BY <1>1, Whole, Parent DEF IsTree
    <3> QED
      BY <1>3, <3>1, Below
  <2>2. SubSeq(tree[o], 1, Len(r)) = r
    BY <2>1, Prefixed DEF In
  <2>3. IsDirectory(r) /\ Exists(r)
    BY <2>1, <2>2 DEF IsTree, IsDirectory, Exists
  <2> QED
    BY <1>1, <1>3, <2>3 DEF IsEmpty
<1> QED
  BY <1>1, <1>2, <1>3

\* What a rename does not move stays in place with all that is above it.
LEMMA UnmovedBeginning ==
  ASSUME IsTree(tree), NEW n \in Name, NEW r \in Path, Renamable(n, r), r # n.path,
         Rename(n, r), NEW p \in Path, ~ In(p, n.path), NEW k \in 1 .. Len(p),
         NEW d \in DOMAIN tree, tree[d] = SubSeq(p, 1, k), tree[d] # r
  PROVE  d \in DOMAIN tree' /\ tree'[d] = SubSeq(p, 1, k)
<1>1. d \in DOMAIN tree' /\ tree'[d] = Moved(tree[d], n.path, r)
  BY Renamed
<1>2. /\ Len(p) \in Nat /\ k \in 0 .. Len(p) /\ Len(tree[d]) = k
      /\ \A i \in 1 .. k : tree[d][i] = p[i]
  BY Whole, Beginning
<1>3. Len(n.path) \in Nat
  BY RenameSound, Whole
<1>4. ~ In(tree[d], n.path)
  BY <1>2, <1>3 DEF In
<1> QED
  BY <1>1, <1>4 DEF Moved

\* Renaming leaves a tree.
LEMMA RenameTree ==
  ASSUME IsTree(tree), NEW n \in Name, NEW r \in Path, Renamable(n, r), r # n.path, Rename(n, r)
  PROVE  IsTree(tree')
<1> DEFINE q == n.path
<1>1. /\ q \in Path /\ q # <<>> /\ r # <<>> /\ ~ In(r, q)
      /\ \A o \in DOMAIN tree : ~ IsBelow(tree[o], r)
  BY RenameSound
<1>2. /\ DOMAIN tree' \subseteq DOMAIN tree
      /\ \A o \in DOMAIN tree' : tree[o] # r /\ tree[o] \in Path /\ tree[o] # <<>>
                               /\ tree'[o] = Moved(tree[o], q, r)
      /\ \A o \in DOMAIN tree : tree[o] # r => o \in DOMAIN tree'
  <2>1. /\ DOMAIN tree' = {o \in DOMAIN tree : tree[o] # r \/ r = q}
        /\ \A o \in DOMAIN tree' : tree'[o] = Moved(tree[o], q, r)
    BY Renamed
  <2>2. \A o \in DOMAIN tree : tree[o] \in Path /\ tree[o] # <<>>
    BY DEF IsTree
  <2> QED
    BY <2>1, <2>2
<1>3. Len(q) \in Nat /\ Len(r) \in Nat /\ Len(r) > 0 /\ Len(q) > 0
  BY <1>1, Whole, Parent
<1> HIDE DEF q
<1>4. \A o \in DOMAIN tree' : tree'[o] \in Path /\ tree'[o] # <<>>
  <2>1. SUFFICES ASSUME NEW o \in DOMAIN tree', In(tree[o], q)
                 PROVE  Moved(tree[o], q, r) \in Path /\ Moved(tree[o], q, r) # <<>>
    BY <1>2 DEF Moved
  <2>2. Moved(tree[o], q, r) \in Path /\ Len(Moved(tree[o], q, r)) = Len(r) + Len(tree[o]) - Len(q)
    BY <1>1, <1>2, <2>1, MovedIn
  <2>3. Len(tree[o]) \in Nat /\ Len(q) <= Len(tree[o])
    BY <1>2, <2>1, Whole DEF In
  <2>4. Len(Moved(tree[o], q, r)) > 0
    BY <1>3, <2>2, <2>3
  <2> QED
    BY <2>2, <2>4
<1>5. ASSUME NEW o1 \in DOMAIN tree', NEW o2 \in DOMAIN tree', In(tree[o1], q), ~ In(tree[o2], q)
      PROVE  tree'[o1] # tree'[o2]
  <2>1. SUFFICES ASSUME Moved(tree[o1], q, r) = tree[o2] PROVE FALSE
    BY <1>2, <1>5 DEF Moved
  <2>2. /\ Len(tree[o2]) = Len(r) + Len(tree[o1]) - Len(q)
        /\ \A i \in 1 .. Len(r) : tree[o2][i] = r[i]
    <3>1. /\ Len(Moved(tree[o1], q, r)) = Len(r) + Len(tree[o1]) - Len(q)
          /\ \A i \in 1 .. Len(r) : Moved(tree[o1], q, r)[i] = r[i]
      BY <1>1, <1>2, <1>5, MovedIn
    <3> QED
      BY <2>1, <3>1
  <2>3. Len(tree[o1]) \in Nat /\ Len(q) <= Len(tree[o1])
    BY <1>2, <1>5, Whole DEF In
  <2>4. In(tree[o2], r)
    BY <1>3, <2>2, <2>3 DEF In
  <2> QED
    BY <1>1, <1>2, <2>4, Within
<1>6. \A o1, o2 \in DOMAIN tree' : o1 # o2 => tree'[o1] # tree'[o2]
  <2>1. SUFFICES ASSUME NEW o1 \in DOMAIN tree', NEW o2 \in DOMAIN tree', o1 # o2
                 PROVE  tree'[o1] # tree'[o2]
    OBVIOUS
  <2>2. tree[o1] # tree[o2] /\ tree[o1] \in Path /\ tree[o2] \in Path
    BY <1>2, <2>1 DEF IsTree
  <2>3. CASE In(tree[o1], q) /\ In(tree[o2], q)
    BY <1>1, <1>2, <2>2, <2>3, MovedApart
  <2>4. CASE ~ In(tree[o1], q) /\ ~ In(tree[o2], q)
    BY <1>2, <2>2, <2>4 DEF Moved
  <2> QED
    BY <1>5, <2>3, <2>4
<1>7. ASSUME NEW o \in DOMAIN tree', ~ In(tree[o], q), NEW k \in 1 .. Len(tree[o]) - 1
      PROVE  \E d \in DOMAIN tree' \intersect Directory : tree'[d] = SubSeq(tree[o], 1, k)
  <2>1. PICK d \in DOMAIN tree \intersect Directory : tree[d] = SubSeq(tree[o], 1, k)
    BY <1>2, <1>7 DEF IsTree
  <2>2. Len(tree[o]) \in Nat /\ k \in 0 .. Len(tree[o]) /\ k \in 1 .. Len(tree[o])
    BY <1>2, <1>7, Whole
  <2>3. tree[d] # r
    <3>1. tree[d] = r => IsBelow(tree[o], r)
      BY <1>2, <1>3, <1>7, <2>1, <2>2, Below, Beginning
    <3> QED
      BY <1>1, <1>2, <3>1
  <2>4. d \in DOMAIN tree' /\ tree'[d] = SubSeq(tree[o], 1, k)
    BY <1>2, <1>7, <2>1, <2>2, <2>3, UnmovedBeginning DEF q
  <2> QED
    BY <2>4
<1>8. ASSUME NEW k \in 1 .. Len(r) - 1
      PROVE  \E d \in DOMAIN tree' \intersect Directory : tree'[d] = SubSeq(r, 1, k)
  <2>1. /\ Front(r) \in Path /\ Len(Front(r)) = Len(r) - 1
        /\ \A i \in 1 .. Len(r) - 1 : Front(r)[i] = r[i]
    BY <1>1, Parent
  <2>2. k \in 0 .. Len(r) /\ k \in 1 .. Len(r) /\ k \in 1 .. Len(Front(r)) /\ k \in 0 .. Len(Front(r))
    BY <1>3, <1>8, <2>1
  <2>3. SubSeq(Front(r), 1, k) = SubSeq(r, 1, k)
    BY <1>3, <1>8, <2>1, <2>2, Beginning, SamePath
  <2>4. Front(r) # <<>> /\ IsDirectory(Front(r))
    BY <2>2 DEF Renamable
  <2>5. PICK d \in DOMAIN tree \intersect Directory : tree[d] = SubSeq(r, 1, k)
    BY <2>1, <2>2, <2>3, <2>4, DirectoryAt
  <2>6. tree[d] # r
    BY <1>3, <1>8, <2>2, <2>5, Beginning
  <2>7. d \in DOMAIN tree' /\ tree'[d] = SubSeq(r, 1, k)
    BY <1>1, <2>2, <2>5, <2>6, UnmovedBeginning DEF q
  <2> QED
    BY <2>7
<1>9. ASSUME NEW o \in DOMAIN tree', In(tree[o], q), NEW j \in Len(q) .. Len(tree[o]) - 1
      PROVE  \E d \in DOMAIN tree' \intersect Directory : tree'[d] = Moved(SubSeq(tree[o], 1, j), q, r)
  <2>1. /\ Len(tree[o]) \in Nat /\ Len(q) <= Len(tree[o])
        /\ \A i \in 1 .. Len(q) : tree[o][i] = q[i]
    BY <1>2, <1>9, Whole DEF In
  <2>2. j \in 1 .. Len(tree[o]) - 1 /\ j \in 0 .. Len(tree[o])
    BY <1>3, <1>9, <2>1
  <2>3. PICK d \in DOMAIN tree \intersect Directory : tree[d] = SubSeq(tree[o], 1, j)
    BY <1>2, <2>2 DEF IsTree
  <2>4. In(tree[d], q)
    BY <1>2, <1>3, <1>9, <2>1, <2>2, <2>3, Beginning DEF In
  <2>5. tree[d] # r
    BY <1>1, <2>4
  <2> QED
    BY <1>2, <2>3, <2>5
<1>10. \A o \in DOMAIN tree' : \A k \in 1 .. Len(tree'[o]) - 1 :
         \E d \in DOMAIN tree' \intersect Directory : tree'[d] = SubSeq(tree'[o], 1, k)
  <2>1. SUFFICES ASSUME NEW o \in DOMAIN tree', NEW k \in 1 .. Len(tree'[o]) - 1
                 PROVE  \E d \in DOMAIN tree' \intersect Directory : tree'[d] = SubSeq(tree'[o], 1, k)
    OBVIOUS
  <2>2. CASE ~ In(tree[o], q)
    BY <1>2, <1>7, <2>1, <2>2 DEF Moved
  <2>3. CASE In(tree[o], q)
    <3>1. tree'[o] = Moved(tree[o], q, r) /\ tree[o] \in Path
      BY <1>2
    <3>2. \/ k < Len(r) /\ SubSeq(tree'[o], 1, k) = SubSeq(r, 1, k)
          \/ \E j \in Len(q) .. Len(tree[o]) - 1 :
               SubSeq(tree'[o], 1, k) = Moved(SubSeq(tree[o], 1, j), q, r)
      <4>1. k \in 1 .. Len(Moved(tree[o], q, r)) - 1
        BY <2>1, <3>1
      <4>2. \/ k < Len(r) /\ SubSeq(Moved(tree[o], q, r), 1, k) = SubSeq(r, 1, k)
            \/ \E j \in Len(q) .. Len(tree[o]) - 1 :
                 SubSeq(Moved(tree[o], q, r), 1, k) = Moved(SubSeq(tree[o], 1, j), q, r)
        BY <1>1, <2>3, <3>1, <4>1, MovedBeginning
      <4> QED
        BY <3>1, <4>2
    <3>3. CASE k < Len(r) /\ SubSeq(tree'[o], 1, k) = SubSeq(r, 1, k)
      <4>1. k \in 1 .. Len(r) - 1
        BY <1>3, <2>1, <3>3
      <4> QED
        BY <1>8, <3>3, <4>1
    <3> QED
      BY <1>9, <2>3, <3>2, <3>3
  <2> QED
    BY <2>2, <2>3
<1>11. DOMAIN tree' \subseteq Object /\ tree' \in [DOMAIN tree' -> Path \ {<<>>}]
  <2>1. tree' = [o \in DOMAIN tree' |-> tree'[o]]
    BY DEF Rename
  <2> QED
    BY <1>2, <1>4, <2>1 DEF IsTree
<1> QED
  BY <1>6, <1>10, <1>11 DEF IsTree

\* An object renamed to its own path changes nothing.
LEMMA RenameSelf ==
  ASSUME IsTree(tree), NEW n \in Name, Rename(n, n.path)
  PROVE  tree' = tree
<1>1. n.path \in Path
  BY DEF Name
<1>2. DOMAIN tree' = DOMAIN tree /\ \A o \in DOMAIN tree : tree'[o] = Moved(tree[o], n.path, n.path)
  <2>1. /\ DOMAIN tree' = {o \in DOMAIN tree : tree[o] # n.path \/ n.path = n.path}
        /\ \A o \in DOMAIN tree' : tree'[o] = Moved(tree[o], n.path, n.path)
    BY <1>1, Renamed
  <2>2. DOMAIN tree' = DOMAIN tree
    BY <2>1
  <2> QED
    BY <2>1, <2>2
<1>3. ASSUME NEW p \in Path, In(p, n.path) PROVE Moved(p, n.path, n.path) = p
  <2> DEFINE m == Moved(p, n.path, n.path)
  <2>1. Len(p) \in Nat /\ Len(n.path) \in Nat
    BY <1>1, Whole
  <2>2. /\ m \in Path /\ Len(m) = Len(n.path) + Len(p) - Len(n.path)
        /\ \A i \in 1 .. Len(n.path) : m[i] = n.path[i]
        /\ \A i \in Len(n.path) + 1 .. Len(m) : m[i] = p[i - Len(n.path) + Len(n.path)]
    BY <1>1, <1>3, MovedIn
  <2> HIDE DEF m
  <2>3. Len(m) = Len(p) /\ \A i \in 1 .. Len(p) : m[i] = p[i]
    BY <1>3, <2>1, <2>2 DEF In
  <2> QED
    BY <2>2, <2>3, SamePath DEF m
<1>4. \A o \in DOMAIN tree : tree'[o] = tree[o]
  BY <1>2, <1>3 DEF Moved, IsTree
<1>5. tree = [o \in DOMAIN tree |-> tree[o]] /\ tree' = [o \in DOMAIN tree' |-> tree'[o]]
  BY DEF IsTree, Rename
<1> QED
  BY <1>2, <1>4, <1>5

-----------------------------------------------------------------------------
(* Types. *)

\* A name joined to a folder is a path.
LEMMA JoinedPath ==
  ASSUME NEW f \in Name \ {NoPath}, NEW names \in Path \ {<<>>}
  PROVE  Joined(f, names) \in Path
<1>1. f.path \in Path /\ f.slash \in BOOLEAN /\ f = [path |-> f.path, slash |-> f.slash]
  BY DEF Name
<1>2. CASE f.slash
  BY <1>1, <1>2 DEF Joined, Path
<1>3. CASE ~ f.slash
  <2>1. f.path # <<>>
    BY <1>1, <1>3 DEF NoPath
  <2>2. /\ Front(f.path) \in Seq(Seq(Letter)) /\ Last(f.path) \in Seq(Letter)
        /\ Head(names) \in Seq(Letter) /\ Tail(names) \in Seq(Seq(Letter))
    BY <1>1, <2>1, Parent DEF Path
  <2>3. <<Last(f.path) \o Head(names)>> \in Seq(Seq(Letter))
    BY <2>2
  <2>4. Front(f.path) \o <<Last(f.path) \o Head(names)>> \o Tail(names) \in Seq(Seq(Letter))
    BY <2>2, <2>3
  <2> QED
    BY <1>3, <2>4 DEF Joined, Path
<1> QED
  BY <1>1, <1>2, <1>3

\* What a command is about is a path.
LEMMA MeantPath ==
  ASSUME TypeOK, NEW s \in Session, NEW a \in Argument
  PROVE  Meant(s, a) \in Path
<1>1. a.kind \in Kind /\ a.names \in Path \ {<<>>} /\ Home[s] \in Path
  BY FileAssumption
<1>2. folder[s] \in Name \ {NoPath}
  BY DEF TypeOK
<1>3. Joined(folder[s], a.names) \in Path
  BY <1>1, <1>2, JoinedPath
<1>4. Home[s] \o a.names \in Path
  BY <1>1 DEF Path
<1> QED
  BY <1>1, <1>3, <1>4 DEF Meant, Kind

\* The entries of a directory are names.
LEMMA EntryNames ==
  ASSUME NEW t, IsTree(t)
  PROVE  /\ \A p : NamesIn(t, p) \subseteq Seq(Letter)
         /\ \A d : Entries(t, d) \subseteq Seq(Letter)
<1>1. \A o \in DOMAIN t : Last(t[o]) \in Seq(Letter)
  BY Parent DEF IsTree
<1> QED
  BY <1>1 DEF NamesIn, Entries

\* The initial state.
LEMMA InitType == Init => TypeOK
<1> SUFFICES ASSUME Init PROVE TypeOK
  OBVIOUS
<1>1. IsTree(tree)
  BY FileAssumption DEF Init
<1>2. NoPath \in Name /\ <<>> \in Path
  BY DEF NoPath, Name, Path
<1>3. \A s \in Session : [path |-> Home[s], slash |-> TRUE] \in Name \ {NoPath}
  BY FileAssumption DEF Name, NoPath
<1>4. Closed \in Stream
  BY DEF Closed, Stream
<1> QED
  BY <1>1, <1>2, <1>3, <1>4 DEF Init, TypeOK

\* What the end of a command and a change of the tree do to those who watch it.
LEMMA WatchType ==
  ASSUME TypeOK, IsTree(tree'), NEW s \in Session, Watch(s)
  PROVE  /\ stream' \in [Session -> Stream]
         /\ touched' \in [Session -> BOOLEAN]
         /\ kept' \in [Session -> SUBSET Seq(Letter)]
<1>1. \A d : Entries(tree, d) \subseteq Seq(Letter) /\ Entries(tree', d) \subseteq Seq(Letter)
  BY EntryNames DEF TypeOK
<1>2. \A t \in Session : Reopened(t) \in Stream
  <2>1. SUFFICES ASSUME NEW t \in Session PROVE Reopened(t) \in Stream
    OBVIOUS
  <2>2. stream[t] \in Stream
    BY DEF TypeOK
  <2> QED
    BY <1>1, <2>2 DEF Reopened, Stream
<1>3. Closed \in Stream
  BY DEF Closed, Stream
<1>4. \A t \in Session : touched[t] \in BOOLEAN /\ kept[t] \subseteq Seq(Letter)
  BY DEF TypeOK
<1> QED
  BY <1>2, <1>3, <1>4 DEF Watch, At

\* A command begins.
LEMMA BeginType ==
  ASSUME TypeOK, NEW s \in Session, NEW verb \in Verb,
         NEW p \in Path, NEW label \in {"check", "realpath"}, NEW what \in Name, NEW times \in 1 .. 2,
         Begin(s, verb, p, label, what, times)
  PROVE  TypeOK'
<1>1. NamesIn(tree, p) \subseteq Seq(Letter)
  BY EntryNames DEF TypeOK
<1>2. IsTree(tree') /\ UNCHANGED <<folder, argument, stream, listed, touched>>
  BY DEF TypeOK, Begin
<1>3. /\ command' \in [Session -> Verb \union {"none"}]
      /\ pc' = [pc EXCEPT ![s] = label]
      /\ target' \in [Session -> Path]
      /\ name' \in [Session -> Name]
      /\ rounds' = [rounds EXCEPT ![s] = times]
  BY DEF TypeOK, Begin, Goto
<1>4. kept' \in [Session -> SUBSET Seq(Letter)]
  BY <1>1 DEF TypeOK, Begin
<1>5. /\ pc' \in [Session -> {"idle", "check", "realpath", "separator", "finish", "read"}]
      /\ rounds' \in [Session -> 0 .. 2]
      /\ \A r \in Session : pc'[r] \in {"check", "realpath", "separator"} => rounds'[r] > 0
  BY <1>3 DEF TypeOK
<1> QED
  BY <1>2, <1>3, <1>4, <1>5 DEF TypeOK

\* A command ends.
LEMMA FinishType ==
  ASSUME TypeOK, IsTree(tree'), NEW s \in Session, NEW label, NEW verb, Finish(s, label, verb),
         folder' \in [Session -> Name \ {NoPath}], argument' \in [Session -> Name]
  PROVE  TypeOK'
<1>1. /\ stream' \in [Session -> Stream]
      /\ touched' \in [Session -> BOOLEAN]
      /\ kept' \in [Session -> SUBSET Seq(Letter)]
  BY WatchType DEF Finish
<1>2. NoPath \in Name /\ <<>> \in Path
  BY DEF NoPath, Name, Path
<1>3. /\ command' \in [Session -> Verb \union {"none"}]
      /\ pc' = [pc EXCEPT ![s] = "idle"]
      /\ target' \in [Session -> Path]
      /\ name' \in [Session -> Name]
      /\ rounds' = [rounds EXCEPT ![s] = 0]
      /\ listed' \in [Session -> SUBSET Seq(Letter)]
  BY <1>2 DEF TypeOK, Finish, Goto
<1>4. /\ pc' \in [Session -> {"idle", "check", "realpath", "separator", "finish", "read"}]
      /\ rounds' \in [Session -> 0 .. 2]
      /\ \A r \in Session : pc'[r] \in {"check", "realpath", "separator"} => rounds'[r] > 0
  BY <1>3 DEF TypeOK
<1> QED
  BY <1>1, <1>3, <1>4 DEF TypeOK

\* The new path of RNTO is a tree's.
LEMMA RntoTree ==
  ASSUME TypeOK, NEW s \in Session, FinishRnto(s)
  PROVE  IsTree(tree')
<1>1. name[s] \in Name /\ target[s] \in Path /\ IsTree(tree)
  BY DEF TypeOK
<1>2. CASE UNCHANGED tree
  BY <1>1, <1>2
<1>3. CASE Renamable(name[s], target[s]) /\ Rename(name[s], target[s])
  <2>1. CASE target[s] = name[s].path
    <3>1. tree' = tree
      BY <1>1, <1>3, <2>1, RenameSelf
    <3> QED
      BY <1>1, <3>1
  <2>2. CASE target[s] # name[s].path
    BY <1>1, <1>3, <2>2, RenameTree
  <2> QED
    BY <2>1, <2>2
<1> QED
  BY <1>2, <1>3 DEF FinishRnto

\* A removed path was a file's or an empty directory's.
LEMMA DeleTree ==
  ASSUME TypeOK, NEW s \in Session, FinishDele(s)
  PROVE  IsTree(tree')
<1>1. name[s] \in Name /\ IsTree(tree)
  BY DEF TypeOK
<1> QED
  BY <1>1, UnlinkTree DEF FinishDele

\* STOR puts its file into a directory.
LEMMA StorTree ==
  ASSUME TypeOK, NEW s \in Session, command_stor(s)
  PROVE  IsTree(tree')
<1>1. PICK a \in Argument, o \in File \ DOMAIN tree :
        LET p == IF a.kind = "rooted" THEN folder[s].path \o a.names ELSE Joined(folder[s], a.names)
        IN  /\ IsDirectory(Front(p)) /\ ~ Exists(p)
            /\ tree' = [q \in DOMAIN tree \union {o} |-> IF q = o THEN p ELSE tree[q]]
  BY DEF command_stor
<1> DEFINE p == IF a.kind = "rooted" THEN folder[s].path \o a.names ELSE Joined(folder[s], a.names)
<1>2. folder[s] \in Name \ {NoPath} /\ a.names \in Path \ {<<>>} /\ IsTree(tree)
  BY FileAssumption DEF TypeOK
<1>3. folder[s].path \o a.names \in Path
  BY <1>2 DEF Name, Path
<1>4. p \in Path
  BY <1>2, <1>3, JoinedPath
<1>5. /\ IsDirectory(Front(p)) /\ ~ Exists(p)
      /\ tree' = [q \in DOMAIN tree \union {o} |-> IF q = o THEN p ELSE tree[q]]
  BY <1>1
<1> HIDE DEF p
<1> QED
  BY <1>2, <1>4, <1>5, CreateTree

\* The handlers' first steps.
LEMMA CommandType ==
  ASSUME TypeOK, NEW s \in Session,
         command_cwd(s) \/ command_list(s) \/ command_dele(s) \/ command_rnfr(s) \/ command_rnto(s)
  PROVE  TypeOK'
<1>1. \A a \in Argument : Meant(s, a) \in Path /\ Plain(Meant(s, a)) \in Name
  BY MeantPath DEF Plain, Name
<1>2. folder[s] \in Name /\ folder[s].path \in Path /\ argument[s] \in Name
  BY DEF TypeOK, Name
<1>3. CASE command_cwd(s)
  BY <1>1, <1>3, BeginType DEF command_cwd, Verb
<1>4. CASE command_list(s)
  BY <1>2, <1>4, BeginType DEF command_list, Verb
<1>5. CASE command_dele(s)
  BY <1>1, <1>5, BeginType DEF command_dele, Verb
<1>6. CASE command_rnfr(s)
  BY <1>1, <1>6, BeginType DEF command_rnfr, Verb
<1>7. CASE command_rnto(s)
  BY <1>1, <1>2, <1>7, BeginType DEF command_rnto, Verb
<1> QED
  BY <1>3, <1>4, <1>5, <1>6, <1>7

\* The steps that look at the tree.
LEMMA LookType ==
  ASSUME TypeOK, NEW s \in Session,
         CheckTarget(s) \/ Realpath(s) \/ Separator(s) \/ OpenFolder(s) \/ ReadEntry(s)
  PROVE  TypeOK'
<1>1. IsTree(tree) /\ name[s] \in Name /\ rounds[s] \in 0 .. 2 /\ stream[s] \in Stream
  BY DEF TypeOK
<1>2. \A d : Entries(tree, d) \subseteq Seq(Letter)
  BY <1>1, EntryNames
<1>3. CASE CheckTarget(s)
  BY <1>3 DEF CheckTarget, At, Goto, TypeOK, thread, watched
<1>4. CASE Realpath(s)
  <2>1. NoPath \in Name /\ \A b \in BOOLEAN : [name[s] EXCEPT !.slash = b] \in Name
    BY <1>1 DEF NoPath, Name, Path
  <2>2. name' \in [Session -> Name]
    BY <1>4, <2>1 DEF Realpath, TypeOK
  <2>3. rounds[s] > 0
    BY <1>4 DEF Realpath, At, TypeOK
  <2>4. /\ rounds' \in [Session -> 0 .. 2]
        /\ pc' \in [Session -> {"idle", "check", "realpath", "separator", "finish", "read"}]
        /\ \A r \in Session : pc'[r] \in {"check", "realpath", "separator"} => rounds'[r] > 0
    BY <1>1, <1>4, <2>3 DEF Realpath, Round, Goto, TypeOK
  <2> QED
    BY <1>4, <2>2, <2>4 DEF Realpath, TypeOK, watched
<1>5. CASE Separator(s)
  <2>1. name[s].slash \in BOOLEAN /\ \A b \in BOOLEAN : [name[s] EXCEPT !.slash = b] \in Name
    BY <1>1 DEF Name
  <2>2. Separated(name[s].path) \in BOOLEAN
    BY DEF Separated, IsDirectory
  <2>3. name' \in [Session -> Name]
    BY <1>5, <2>1, <2>2 DEF Separator, TypeOK
  <2>4. rounds[s] > 0
    BY <1>5 DEF Separator, At, TypeOK
  <2>5. /\ rounds' \in [Session -> 0 .. 2]
        /\ pc' \in [Session -> {"idle", "check", "realpath", "separator", "finish", "read"}]
        /\ \A r \in Session : pc'[r] \in {"check", "realpath", "separator"} => rounds'[r] > 0
    BY <1>1, <1>5, <2>4 DEF Separator, Round, Goto, TypeOK
  <2> QED
    BY <1>5, <2>3, <2>5 DEF Separator, TypeOK, watched
<1>6. CASE OpenFolder(s)
  <2>1. stream' \in [Session -> Stream]
    BY <1>2, <1>6 DEF OpenFolder, Stream, TypeOK
  <2>2. /\ pc' \in [Session -> {"idle", "check", "realpath", "separator", "finish", "read"}]
        /\ \A r \in Session : pc'[r] \in {"check", "realpath", "separator"} => rounds[r] > 0
    BY <1>6 DEF OpenFolder, Goto, TypeOK
  <2> QED
    BY <1>6, <2>1, <2>2 DEF OpenFolder, TypeOK, thread
<1>7. CASE ReadEntry(s)
  <2>1. PICK n \in stream[s].may :
          /\ stream' = [stream EXCEPT ![s].due = @ \ {n}, ![s].may = @ \ {n}]
          /\ listed' = [listed EXCEPT ![s] =
                          IF IsFileType(Joined(name[s], <<n>>)) THEN @ \union {n} ELSE @]
    BY <1>7 DEF ReadEntry
  <2>2. n \in Seq(Letter) /\ [stream[s] EXCEPT !.due = @ \ {n}, !.may = @ \ {n}] \in Stream
    BY <1>1 DEF Stream
  <2>3. stream' = [stream EXCEPT ![s] = [stream[s] EXCEPT !.due = @ \ {n}, !.may = @ \ {n}]]
    BY <1>1, <2>1 DEF Stream, TypeOK
  <2>4. stream' \in [Session -> Stream] /\ listed' \in [Session -> SUBSET Seq(Letter)]
    BY <2>1, <2>2, <2>3 DEF TypeOK
  <2> QED
    BY <1>7, <2>4 DEF ReadEntry, TypeOK
<1> QED
  BY <1>3, <1>4, <1>5, <1>6, <1>7

\* The last steps, and STOR.
LEMMA EndType ==
  ASSUME TypeOK, NEW s \in Session,
         \/ FinishCwd(s) \/ FinishList(s) \/ FinishDele(s) \/ FinishRnfr(s) \/ FinishRnto(s)
         \/ RefuseRnto(s) \/ command_stor(s)
  PROVE  TypeOK'
<1>1. /\ IsTree(tree) /\ name[s] \in Name
      /\ folder \in [Session -> Name \ {NoPath}] /\ argument \in [Session -> Name]
  BY DEF TypeOK
<1>2. CASE FinishCwd(s)
  <2>1. FolderAfter(s) \in Name \ {NoPath}
    BY <1>1 DEF FolderAfter, Folder, Found
  <2>2. folder' \in [Session -> Name \ {NoPath}] /\ UNCHANGED <<tree, argument>>
    BY <1>1, <1>2, <2>1 DEF FinishCwd
  <2> QED
    BY <1>1, <1>2, <2>2, FinishType DEF FinishCwd
<1>3. CASE FinishList(s)
  BY <1>1, <1>3, FinishType DEF FinishList
<1>4. CASE FinishDele(s)
  BY <1>1, <1>4, FinishType, DeleTree DEF FinishDele
<1>5. CASE FinishRnfr(s)
  BY <1>1, <1>5, FinishType DEF FinishRnfr
<1>6. CASE FinishRnto(s)
  BY <1>1, <1>6, FinishType, RntoTree DEF FinishRnto
<1>7. CASE RefuseRnto(s)
  BY <1>1, <1>7, FinishType DEF RefuseRnto
<1>8. CASE command_stor(s)
  <2>1. IsTree(tree')
    BY <1>8, StorTree
  <2>2. /\ stream' \in [Session -> Stream]
        /\ touched' \in [Session -> BOOLEAN]
        /\ kept' \in [Session -> SUBSET Seq(Letter)]
    BY <1>8, <2>1, WatchType DEF command_stor
  <2> QED
    BY <1>8, <2>1, <2>2 DEF command_stor, thread, TypeOK
<1> QED
  BY <1>2, <1>3, <1>4, <1>5, <1>6, <1>7, <1>8

\* Types are kept by every step.
LEMMA StepType == TypeOK /\ [Next]_vars => TypeOK'
<1> SUFFICES ASSUME TypeOK, [Next]_vars PROVE TypeOK'
  OBVIOUS
<1>1. CASE UNCHANGED vars
  BY <1>1 DEF vars, thread, watched, TypeOK
<1>2. CASE Next
  BY <1>2, CommandType, LookType, EndType DEF Next
<1> QED
  BY <1>1, <1>2

\* The tree stays a tree, and every thread knows its paths, for any sessions and names.
THEOREM TypeCorrect == Spec => []TypeOK
BY InitType, StepType, PTL DEF Spec

-----------------------------------------------------------------------------
(* Steps as the other sessions see them. *)

\* A step of the session s.
Step(s) ==
  \/ command_cwd(s) \/ command_list(s) \/ command_dele(s) \/ command_rnfr(s) \/ command_rnto(s)
  \/ command_stor(s) \/ CheckTarget(s) \/ Realpath(s) \/ Separator(s)
  \/ FinishCwd(s) \/ OpenFolder(s) \/ ReadEntry(s) \/ FinishList(s)
  \/ FinishDele(s) \/ FinishRnfr(s) \/ FinishRnto(s) \/ RefuseRnto(s)

\* What the session t works with, and what it has noticed, is as before.
Private(t) ==
  /\ folder'[t] = folder[t] /\ command'[t] = command[t] /\ pc'[t] = pc[t]
  /\ target'[t] = target[t] /\ name'[t] = name[t] /\ listed'[t] = listed[t]

Quiet(t) ==
  tree' = tree /\ stream'[t] = stream[t] /\ touched'[t] = touched[t] /\ kept'[t] = kept[t]

\* A step of one session is a stutter of another, but for what it does to the tree.
LEMMA Others ==
  ASSUME TypeOK, NEW s \in Session, NEW t \in Session, s # t, Step(s)
  PROVE  Private(t) /\ (Quiet(t) \/ Watch(s))
<1>1. CASE command_cwd(s) \/ command_list(s) \/ command_dele(s) \/ command_rnfr(s) \/ command_rnto(s)
  <2>1. PICK verb, p, label, what, times : Begin(s, verb, p, label, what, times)
    BY <1>1 DEF command_cwd, command_list, command_dele, command_rnfr, command_rnto
  <2> QED
    BY <2>1 DEF Begin, Goto, TypeOK, Private, Quiet
<1>2. CASE command_stor(s)
  BY <1>2 DEF command_stor, thread, Private
<1>3. CASE CheckTarget(s) \/ Realpath(s) \/ Separator(s) \/ OpenFolder(s) \/ ReadEntry(s)
  BY <1>3 DEF CheckTarget, Realpath, Separator, Round, OpenFolder, ReadEntry, Goto, thread, watched,
              TypeOK, Private, Quiet
<1>4. CASE FinishCwd(s) \/ FinishList(s) \/ FinishDele(s) \/ FinishRnfr(s) \/ FinishRnto(s) \/ RefuseRnto(s)
  BY <1>4 DEF FinishCwd, FinishList, FinishDele, FinishRnfr, FinishRnto, RefuseRnto, Finish, Goto,
              TypeOK, Private
<1> QED
  BY <1>1, <1>2, <1>3, <1>4 DEF Step

\* A session that sees no change was not disturbed.
LEMMA Undisturbed ==
  ASSUME TypeOK, NEW s \in Session, NEW t \in Session, s # t, Step(s),
         pc[t] # "idle", ~ touched'[t]
  PROVE  Private(t) /\ tree' = tree /\ ~ touched[t]
BY Others DEF Watch, At, Quiet

-----------------------------------------------------------------------------
(* The folder that CWD adopts. *)

\* A directory's canonical path ends in a separator.
FolderInv ==
  \A s \in Session : At(s, "finish") /\ ~ touched[s] /\ Folder(name[s]) => name[s].slash

\* No step makes it false.
LEMMA FolderStep ==
  ASSUME TypeOK, FolderInv, NEW s \in Session, Step(s)
  PROVE  FolderInv'
<1>1. SUFFICES ASSUME NEW t \in Session, pc'[t] = "finish", ~ touched'[t], Folder(name[t])'
               PROVE  name'[t].slash
  BY DEF FolderInv, At
<1>2. CASE s # t
  <2>1. pc[t] # "idle"
    BY <1>1, <1>2, Others DEF Private
  <2>2. Private(t) /\ tree' = tree /\ ~ touched[t]
    BY <1>1, <1>2, <2>1, Undisturbed
  <2> QED
    BY <1>1, <2>2 DEF FolderInv, At, Private, Folder, Found, Exists, IsDirectory
<1>3. CASE s = t
  <2>1. CASE Realpath(t)
    <3>1. ~ Found(name[t]) /\ name'[t] = NoPath
      BY <1>1, <2>1 DEF Realpath, Goto, TypeOK
    <3> QED
      BY <1>1, <3>1 DEF Folder, Found
  <2>2. CASE Separator(t)
    <3>1. name[t] \in Name
      BY DEF TypeOK
    <3>2. name'[t] = [name[t] EXCEPT !.slash = name[t].slash \/ IsDirectory(name[t].path)] /\ tree' = tree
      BY <2>2 DEF Separator, Separated, TypeOK, Name
    <3>3. name'[t].path = name[t].path /\ name'[t].slash = (name[t].slash \/ IsDirectory(name[t].path))
      BY <3>1, <3>2 DEF Name
    <3> QED
      BY <1>1, <3>2, <3>3 DEF Folder, IsDirectory
  <2>3. CASE ~ (Realpath(t) \/ Separator(t))
    <3>1. CASE command_cwd(t) \/ command_list(t) \/ command_dele(t) \/ command_rnfr(t) \/ command_rnto(t)
      BY <1>1, <3>1 DEF command_cwd, command_list, command_dele, command_rnfr, command_rnto, Begin, Goto, TypeOK
    <3>2. CASE command_stor(t)
      BY <1>1, <3>2 DEF command_stor, At
    <3>3. CASE CheckTarget(t) \/ OpenFolder(t) \/ ReadEntry(t)
      BY <1>1, <3>3 DEF CheckTarget, OpenFolder, ReadEntry, At, Goto, TypeOK
    <3>4. CASE FinishCwd(t) \/ FinishList(t) \/ FinishDele(t) \/ FinishRnfr(t) \/ FinishRnto(t) \/ RefuseRnto(t)
      BY <1>1, <3>4 DEF FinishCwd, FinishList, FinishDele, FinishRnfr, FinishRnto, RefuseRnto, Finish, Goto, TypeOK
    <3> QED
      BY <1>3, <2>3, <3>1, <3>2, <3>3, <3>4 DEF Step
  <2> QED
    BY <2>1, <2>2, <2>3
<1> QED
  BY <1>2, <1>3

\* The folder changes when a CWD ends, and in no other way.
LEMMA FolderChange ==
  ASSUME TypeOK, FolderInv, NEW s \in Session, Step(s), NEW t \in Session, folder'[t] # folder[t], ~ touched[t]
  PROVE  folder'[t].slash
<1>1. s = t
  BY Others DEF Private
<1>2. CASE FinishCwd(t)
  BY <1>2 DEF FinishCwd, Finish, FolderAfter, FolderInv, TypeOK
<1>3. CASE ~ FinishCwd(t)
  BY <1>1, <1>3 DEF Step, command_cwd, command_list, command_dele, command_rnfr, command_rnto, Begin, command_stor,
     CheckTarget, Realpath, Separator, OpenFolder, ReadEntry, FinishList, FinishDele, FinishRnfr, FinishRnto,
     RefuseRnto, thread
<1> QED
  BY <1>2, <1>3

\* CWD leaves a folder that ends in a separator, unless the tree was changed under it
\* (path::get_canonical_full_path), for any sessions and names.
THEOREM FolderSound == Spec => FolderEndsWell
<1>1. Init => FolderInv
  BY DEF Init, FolderInv, At
<1>2. TypeOK /\ FolderInv /\ [Next]_vars => FolderInv'
  <2>1. SUFFICES ASSUME TypeOK, FolderInv, [Next]_vars PROVE FolderInv'
    OBVIOUS
  <2>2. CASE UNCHANGED vars
    BY <2>1, <2>2 DEF vars, thread, watched, FolderInv, At, Folder, Found, Exists, IsDirectory
  <2>3. CASE Next
    BY <2>1, <2>3, FolderStep DEF Next, Step
  <2> QED
    BY <2>1, <2>2, <2>3
<1>3. TypeOK /\ FolderInv /\ [Next]_vars =>
        [\A s \in Session : folder'[s] # folder[s] /\ ~ touched[s] => folder'[s].slash]_vars
  <2>1. SUFFICES ASSUME TypeOK, FolderInv, Next, NEW t \in Session, folder'[t] # folder[t], ~ touched[t]
                 PROVE  folder'[t].slash
    OBVIOUS
  <2>2. PICK s \in Session : Step(s)
    BY <2>1 DEF Next, Step
  <2> QED
    BY <2>1, <2>2, FolderChange
<1> QED
  BY <1>1, <1>2, <1>3, TypeCorrect, PTL DEF Spec, FolderEndsWell

-----------------------------------------------------------------------------
(* What RNTO overwrites. *)

\* After its look at the new name, RNTO has no directory in its way.
TargetInv ==
  \A s \in Session :
    command[s] = "RNTO" /\ pc[s] \in {"realpath", "separator", "finish"} /\ ~ touched[s]
      => ~ IsDirectory(target[s])

\* No step makes it false.
LEMMA TargetStep ==
  ASSUME TypeOK, TargetInv, NEW s \in Session, Step(s)
  PROVE  TargetInv'
<1>1. SUFFICES ASSUME NEW t \in Session, command'[t] = "RNTO",
                      pc'[t] \in {"realpath", "separator", "finish"}, ~ touched'[t]
               PROVE  ~ IsDirectory(target[t])'
  BY DEF TargetInv
<1>2. CASE s # t
  <2>1. pc[t] # "idle"
    BY <1>1, <1>2, Others DEF Private
  <2>2. Private(t) /\ tree' = tree /\ ~ touched[t]
    BY <1>1, <1>2, <2>1, Undisturbed
  <2> QED
    BY <1>1, <2>2 DEF TargetInv, Private, IsDirectory
<1>3. CASE s = t
  <2>1. CASE CheckTarget(t)
    BY <2>1 DEF CheckTarget, Refused, IsDirectory, thread
  <2>2. CASE Realpath(t) \/ Separator(t)
    <3>1. tree' = tree /\ UNCHANGED <<command, target, touched>> /\ pc[t] \in {"realpath", "separator"}
      BY <2>2 DEF Realpath, Separator, At, watched
    <3> QED
      BY <1>1, <3>1 DEF TargetInv, IsDirectory
  <2>3. CASE command_cwd(t) \/ command_list(t) \/ command_dele(t) \/ command_rnfr(t) \/ command_rnto(t)
    BY <1>1, <2>3 DEF command_cwd, command_list, command_dele, command_rnfr, command_rnto, Begin, Goto, TypeOK
  <2>4. CASE command_stor(t)
    BY <1>1, <2>4 DEF command_stor, At
  <2>5. CASE OpenFolder(t) \/ ReadEntry(t)
    BY <1>1, <2>5 DEF OpenFolder, ReadEntry, At, Goto, TypeOK
  <2>6. CASE FinishCwd(t) \/ FinishList(t) \/ FinishDele(t) \/ FinishRnfr(t) \/ FinishRnto(t) \/ RefuseRnto(t)
    BY <1>1, <2>6 DEF FinishCwd, FinishList, FinishDele, FinishRnfr, FinishRnto, RefuseRnto, Finish, Goto, TypeOK
  <2> QED
    BY <1>3, <2>1, <2>2, <2>3, <2>4, <2>5, <2>6 DEF Step
<1> QED
  BY <1>2, <1>3

\* The step with which a session leaves "finish" for a command is that command's last.
LEMMA Ending ==
  ASSUME TypeOK, NEW s \in Session, Step(s), NEW t \in Session, pc[t] = "finish", pc'[t] = "idle"
  PROVE  /\ s = t
         /\ command[t] = "RNTO" => FinishRnto(t)
<1>1. s = t
  BY Others DEF Private
<1> QED
  BY <1>1 DEF Step, command_cwd, command_list, command_dele, command_rnfr, command_rnto, Begin, command_stor,
     CheckTarget, Realpath, Separator, OpenFolder, ReadEntry, FinishCwd, FinishList, FinishDele, FinishRnfr,
     RefuseRnto, Finish, At

\* A successful RNTO keeps every directory.
LEMMA RntoKeeps ==
  ASSUME TypeOK, TargetInv, NEW t \in Session, FinishRnto(t),
         command[t] = "RNTO", Renamable(name[t], target[t]), ~ touched[t], name[t].path # target[t]
  PROVE  DOMAIN tree \intersect Directory \subseteq DOMAIN tree'
<1>1. IsTree(tree) /\ name[t] \in Name /\ target[t] \in Path
  BY DEF TypeOK
<1>2. ~ IsDirectory(target[t]) /\ Rename(name[t], target[t])
  BY DEF FinishRnto, Finish, At, TargetInv
<1>3. DOMAIN tree' = {o \in DOMAIN tree : tree[o] # target[t] \/ target[t] = name[t].path}
  BY <1>1, <1>2, Renamed
<1> QED
  BY <1>2, <1>3 DEF IsDirectory

\* RNTO overwrites no directory, unless the tree was changed between its look and its
\* rename, for any sessions and names.
THEOREM DirectoriesSound == Spec => DirectoriesKept
<1>1. Init => TargetInv
  BY DEF Init, TargetInv
<1>2. TypeOK /\ TargetInv /\ [Next]_vars => TargetInv'
  <2>1. SUFFICES ASSUME TypeOK, TargetInv, [Next]_vars PROVE TargetInv'
    OBVIOUS
  <2>2. CASE UNCHANGED vars
    BY <2>1, <2>2 DEF vars, thread, watched, TargetInv, IsDirectory
  <2>3. CASE Next
    BY <2>1, <2>3, TargetStep DEF Next, Step
  <2> QED
    BY <2>1, <2>2, <2>3
<1>3. TypeOK /\ TargetInv /\ [Next]_vars =>
        [\A s \in Session :
           Finishes(s, "RNTO", "250") /\ ~ touched[s] /\ name[s].path # target[s]
             => DOMAIN tree \intersect Directory \subseteq DOMAIN tree']_vars
  <2>1. SUFFICES ASSUME TypeOK, TargetInv, Next, NEW t \in Session,
                        Finishes(t, "RNTO", "250"), ~ touched[t], name[t].path # target[t]
                 PROVE  DOMAIN tree \intersect Directory \subseteq DOMAIN tree'
    OBVIOUS
  <2>2. PICK s \in Session : Step(s)
    BY <2>1 DEF Next, Step
  <2>3. command[t] = "RNTO" /\ Renamable(name[t], target[t]) /\ FinishRnto(t)
    BY <2>1, <2>2, Ending DEF Finishes, Reply, At
  <2> QED
    BY <2>1, <2>3, RntoKeeps
<1> QED
  BY <1>1, <1>2, <1>3, TypeCorrect, PTL DEF Spec, DirectoriesKept

-----------------------------------------------------------------------------
(* What LIST finds. *)

\* An object whose name is in the folder p is at p and that name.
LEMMA NamedIn ==
  ASSUME NEW t, IsTree(t), NEW p \in Path, NEW x \in NamesIn(t, p)
  PROVE  \E o \in DOMAIN t : /\ t[o] \in Path \ {<<>>} /\ Front(t[o]) = p
                             /\ Len(t[o]) = Len(p) + 1 /\ In(t[o], p)
                             /\ t[o] = p \o <<x>>
<1>1. PICK o \in DOMAIN t : Front(t[o]) = p /\ Last(t[o]) = x
  BY DEF NamesIn
<1>2. t[o] \in Path \ {<<>>}
  BY DEF IsTree
<1>3. /\ Len(t[o]) > 0 /\ Len(p) = Len(t[o]) - 1
      /\ \A i \in 1 .. Len(t[o]) - 1 : p[i] = t[o][i]
      /\ x \in Seq(Letter) /\ x = t[o][Len(t[o])]
  BY <1>1, <1>2, Parent
<1>4. Len(t[o]) \in Nat
  BY <1>2, Whole
<1>5. Len(t[o]) = Len(p) + 1 /\ In(t[o], p)
  BY <1>3, <1>4 DEF In
<1>6. /\ p \o <<x>> \in Path /\ Len(p \o <<x>>) = Len(p) + 1
      /\ \A i \in 1 .. Len(p) : (p \o <<x>>)[i] = p[i]
      /\ (p \o <<x>>)[Len(p) + 1] = x
  BY <1>3 DEF Path
<1>7. t[o] = p \o <<x>>
  <2>1. \A i \in 1 .. Len(t[o]) : t[o][i] = (p \o <<x>>)[i]
    BY <1>3, <1>4, <1>5, <1>6
  <2> QED
    BY <1>2, <1>5, <1>6, <2>1, SamePath
<1> QED
  BY <1>1, <1>2, <1>5, <1>7

\* A folder with names in it is a directory.
LEMMA NamesDirectory ==
  ASSUME NEW t, IsTree(t), NEW p \in Path, NamesIn(t, p) # {}
  PROVE  p = <<>> \/ \E d \in DOMAIN t \intersect Directory : t[d] = p
<1>1. PICK x : x \in NamesIn(t, p)
  OBVIOUS
<1>2. PICK o \in DOMAIN t : t[o] \in Path /\ Len(t[o]) = Len(p) + 1 /\ In(t[o], p)
  BY <1>1, NamedIn
<1>3. CASE p = <<>>
  BY <1>3
<1>4. CASE p # <<>>
  <2>1. Len(p) \in Nat /\ Len(p) > 0
    BY <1>4, Whole, Parent
  <2>2. Len(p) \in 1 .. Len(t[o]) - 1
    BY <1>2, <2>1
  <2>3. PICK d \in DOMAIN t \intersect Directory : t[d] = SubSeq(t[o], 1, Len(p))
    BY <2>2 DEF IsTree
  <2> QED
    BY <1>2, <2>3, Prefixed
<1> QED
  BY <1>3, <1>4

\* A path that has names in it before and after a rename is the same directory's.
LEMMA RenameSame ==
  ASSUME IsTree(tree), IsTree(tree'), NEW n \in Name, NEW r \in Path, Renamable(n, r), Rename(n, r),
         NEW p \in Path, NamesIn(tree, p) # {}, NamesIn(tree', p) # {},
         NEW d \in DOMAIN tree \intersect Directory, tree[d] = p
  PROVE  d \in DOMAIN tree' /\ tree'[d] = p
<1>1. CASE r = n.path
  BY <1>1, RenameSelf
<1>2. CASE r # n.path
  <2>1. /\ n.path \in Path /\ ~ In(r, n.path) /\ r # <<>>
        /\ \A o \in DOMAIN tree : tree[o] \in Path /\ ~ IsBelow(tree[o], r)
    BY <1>2, RenameSound DEF IsTree
  <2>2. /\ DOMAIN tree' \subseteq DOMAIN tree
        /\ \A o \in DOMAIN tree' : tree'[o] = Moved(tree[o], n.path, r)
    BY Renamed
  <2>3. p # r
    <3>1. PICK x : x \in NamesIn(tree, p)
      OBVIOUS
    <3>2. PICK o \in DOMAIN tree : tree[o] \in Path /\ Len(tree[o]) = Len(p) + 1 /\ In(tree[o], p)
      BY <3>1, NamedIn
    <3>3. tree[o] # p
      BY <3>2, Whole
    <3> QED
      BY <2>1, <3>2, <3>3, Within
  <2>4. ~ In(p, r)
    BY <2>1, <2>3, Within
  <2>5. p # <<>>
    BY DEF IsTree
  <2>6. PICK e \in DOMAIN tree' \intersect Directory : tree'[e] = p
    BY <2>5, NamesDirectory
  <2>7. e \in DOMAIN tree /\ p = Moved(tree[e], n.path, r)
    BY <2>2, <2>6
  <2>8. ~ In(tree[e], n.path)
    <3>1. SUFFICES ASSUME In(tree[e], n.path) PROVE FALSE
      OBVIOUS
    <3>2. tree[e] \in Path /\ n.path \in Path
      BY <2>1, <2>7
    <3>3. In(Moved(tree[e], n.path, r), r)
      BY <3>1, <3>2, MovedInto
    <3>4. In(p, r)
      BY <2>7, <3>3
    <3> QED
      BY <2>4, <3>4
  <2>9. tree[e] = p
    BY <2>7, <2>8 DEF Moved
  <2>10. e = d
    BY <2>7, <2>9 DEF IsTree
  <2> QED
    BY <2>6, <2>10
<1> QED
  BY <1>1, <1>2

\* The same for every other change of the tree.
LEMMA SameFolder ==
  ASSUME TypeOK, TypeOK', NEW s \in Session, Step(s),
         NEW p \in Path, NamesIn(tree, p) # {}, NamesIn(tree', p) # {},
         NEW d \in DOMAIN tree \intersect Directory, tree[d] = p
  PROVE  d \in DOMAIN tree' /\ tree'[d] = p
<1>1. IsTree(tree) /\ IsTree(tree') /\ name[s] \in Name /\ target[s] \in Path
  BY DEF TypeOK
<1>2. CASE tree' = tree
  BY <1>2
<1>3. CASE FinishRnto(s)
  BY <1>1, <1>2, <1>3, RenameSame DEF FinishRnto
<1>4. CASE FinishDele(s)
  <2>1. CASE Removable(name[s]) /\ Unlink(name[s])
    <3>1. /\ DOMAIN tree' \subseteq DOMAIN tree
          /\ \A o \in DOMAIN tree' : tree'[o] = tree[o]
      BY <2>1 DEF Unlink, Keep
    <3>2. p # <<>>
      BY <1>1 DEF IsTree
    <3>3. PICK e \in DOMAIN tree' \intersect Directory : tree'[e] = p
      BY <1>1, <3>2, NamesDirectory
    <3>4. e = d
      BY <1>1, <3>1, <3>3 DEF IsTree
    <3> QED
      BY <3>3, <3>4
  <2> QED
    BY <1>2, <1>4, <2>1 DEF FinishDele
<1>5. CASE command_stor(s)
  <2>1. PICK o \in File \ DOMAIN tree : \A x \in DOMAIN tree : x \in DOMAIN tree' /\ tree'[x] = tree[x]
    BY <1>5 DEF command_stor
  <2> QED
    BY <2>1
<1>6. CASE ~ (FinishRnto(s) \/ FinishDele(s) \/ command_stor(s))
  <2>1. tree' = tree
    BY <1>6 DEF Step, command_cwd, command_list, command_dele, command_rnfr, command_rnto, Begin,
       CheckTarget, Realpath, Separator, FinishCwd, OpenFolder, ReadEntry, FinishList, FinishRnfr, RefuseRnto
  <2> QED
    BY <2>1
<1> QED
  BY <1>3, <1>4, <1>5, <1>6

\* The directory that t reads has the path that its LIST is about.
Opened(t) ==
  \/ stream[t].dir = Top /\ target[t] = <<>>
  \/ stream[t].dir \in DOMAIN tree \intersect Directory /\ tree[stream[t].dir] = target[t]

\* Before a LIST reads, it has found nothing.
Unread(s) == pc[s] # "read" => listed[s] = {}

\* What a LIST has found and may still find holds what stayed in the folder, and is that
\* if the tree did not change; the folder is looked for where it is as long as it has
\* names in it.
ListGood(s) ==
  command[s] = "LIST" =>
    /\ pc[s] \in {"realpath", "separator", "finish", "read"}
    /\ kept[s] \subseteq NamesIn(tree, target[s])
    /\ ~ touched[s] => kept[s] = NamesIn(tree, target[s])
    /\ name[s] # NoPath => name[s].path = target[s]
    /\ pc[s] = "separator" => name[s] # NoPath
    /\ kept[s] # {} => name[s] # NoPath
    /\ pc[s] \in {"finish", "read"} /\ kept[s] # {} => name[s].slash
    /\ pc[s] = "read" =>
         /\ kept[s] # {} => Opened(s)
         /\ kept[s] \subseteq listed[s] \union stream[s].due
         /\ ~ touched[s] => listed[s] \union stream[s].may \subseteq kept[s]

\* What is in an opened directory is what is at the path it has.
LEMMA OpenedEntries ==
  ASSUME NEW t, IsTree(t), NEW d, NEW p,
         (d = Top /\ p = <<>>) \/ (d \in DOMAIN t \intersect Directory /\ t[d] = p)
  PROVE  Entries(t, d) = NamesIn(t, p)
<1>1. Top \notin DOMAIN t
  BY FileAssumption DEF IsTree
<1> QED
  BY <1>1 DEF Entries

\* Another session's step leaves a LIST with all that is still in its folder.
LEMMA ListWatched ==
  ASSUME TypeOK, TypeOK', NEW s \in Session, NEW t \in Session, s # t, Step(s), Watch(s),
         Private(t), ListGood(t), command[t] = "LIST"
  PROVE  ListGood(t)'
<1>1. /\ IsTree(tree) /\ IsTree(tree') /\ target[t] \in Path
      /\ stream[t] \in Stream
  BY DEF TypeOK
<1>2. /\ stream'[t] = Reopened(t)
      /\ touched'[t] = (touched[t] \/ (tree' # tree /\ ~ At(t, "idle")))
      /\ kept'[t] = kept[t] \intersect NamesIn(tree', target[t])
  BY DEF Watch
<1>3. /\ stream'[t].dir = stream[t].dir
      /\ stream'[t].due = stream[t].due \intersect Entries(tree', stream[t].dir)
      /\ stream'[t].may = stream[t].may \union (Entries(tree', stream[t].dir) \ Entries(tree, stream[t].dir))
  BY <1>1, <1>2 DEF Reopened, Stream
<1>4. pc[t] # "idle"
  BY DEF ListGood
<1>5. ~ touched'[t] => ~ touched[t] /\ tree' = tree /\ kept'[t] = kept[t]
  BY <1>2, <1>4 DEF At, ListGood
<1>6. ASSUME pc[t] = "read", kept'[t] # {} PROVE Opened(t)'
  <2>1. Opened(t) /\ NamesIn(tree, target[t]) # {} /\ NamesIn(tree', target[t]) # {}
    BY <1>2, <1>6 DEF ListGood
  <2>2. CASE stream[t].dir = Top /\ target[t] = <<>>
    BY <1>3, <2>2 DEF Opened, Private
  <2>3. CASE stream[t].dir \in DOMAIN tree \intersect Directory /\ tree[stream[t].dir] = target[t]
    <3>1. stream[t].dir \in DOMAIN tree' /\ tree'[stream[t].dir] = target[t]
      BY <1>1, <2>1, <2>3, SameFolder
    <3> QED
      BY <1>3, <2>3, <3>1 DEF Opened, Private
  <2> QED
    BY <2>1, <2>2, <2>3 DEF Opened
<1>7. ASSUME pc[t] = "read" PROVE kept'[t] \subseteq listed[t] \union stream'[t].due
  <2>1. CASE kept'[t] = {}
    BY <2>1
  <2>2. CASE kept'[t] # {}
    <3>1. Entries(tree', stream[t].dir) = NamesIn(tree', target[t])
      <4>1. Opened(t)'
        BY <1>6, <1>7, <2>2
      <4>2. \/ stream[t].dir = Top /\ target[t] = <<>>
            \/ stream[t].dir \in DOMAIN tree' \intersect Directory /\ tree'[stream[t].dir] = target[t]
        BY <1>3, <4>1 DEF Opened, Private
      <4> QED
        BY <1>1, <4>2, OpenedEntries
    <3> QED
      BY <1>2, <1>3, <1>7, <3>1 DEF ListGood
  <2> QED
    BY <2>1, <2>2
<1>8. ASSUME pc[t] = "read", ~ touched'[t] PROVE listed[t] \union stream'[t].may \subseteq kept'[t]
  BY <1>3, <1>5, <1>8 DEF ListGood
<1> QED
  BY <1>2, <1>5, <1>6, <1>7, <1>8 DEF ListGood, Private

\* Steps keep that.
LEMMA UnreadStep ==
  ASSUME TypeOK, NEW t \in Session, Step(t), Unread(t)
  PROVE  Unread(t)'
<1>1. CASE command_cwd(t) \/ command_list(t) \/ command_dele(t) \/ command_rnfr(t) \/ command_rnto(t)
  <2>1. PICK verb, p, label, what, times : Begin(t, verb, p, label, what, times)
    BY <1>1 DEF command_cwd, command_list, command_dele, command_rnfr, command_rnto
  <2> QED
    BY <2>1 DEF Begin, At, Unread
<1>2. CASE command_stor(t) \/ CheckTarget(t) \/ Realpath(t) \/ Separator(t)
  BY <1>2 DEF command_stor, CheckTarget, Realpath, Separator, At, thread, Unread
<1>3. CASE OpenFolder(t) \/ ReadEntry(t)
  BY <1>3 DEF OpenFolder, ReadEntry, At, Goto, Unread, TypeOK
<1>4. CASE FinishCwd(t) \/ FinishList(t) \/ FinishDele(t) \/ FinishRnfr(t) \/ FinishRnto(t) \/ RefuseRnto(t)
  BY <1>4 DEF FinishCwd, FinishList, FinishDele, FinishRnfr, FinishRnto, RefuseRnto, Finish, Unread, TypeOK
<1> QED
  BY <1>1, <1>2, <1>3, <1>4 DEF Step

\* Its own steps do so too.
LEMMA ListStep ==
  ASSUME TypeOK, TypeOK', NEW t \in Session, Step(t), Unread(t), ListGood(t)
  PROVE  ListGood(t)'
<1>1. /\ IsTree(tree) /\ name[t] \in Name /\ target[t] \in Path /\ folder[t] \in Name \ {NoPath}
      /\ stream[t] \in Stream
  BY DEF TypeOK
<1>2. CASE command_list(t)
  BY <1>1, <1>2 DEF command_list, Begin, Goto, ListGood, TypeOK
<1>3. CASE command_cwd(t) \/ command_dele(t) \/ command_rnfr(t) \/ command_rnto(t)
  BY <1>3 DEF command_cwd, command_dele, command_rnfr, command_rnto, Begin, ListGood, TypeOK
<1>4. CASE command_stor(t)
  BY <1>4 DEF command_stor, At, thread, ListGood
<1>5. CASE FinishCwd(t) \/ FinishList(t) \/ FinishDele(t) \/ FinishRnfr(t) \/ FinishRnto(t) \/ RefuseRnto(t)
  BY <1>5 DEF FinishCwd, FinishList, FinishDele, FinishRnfr, FinishRnto, RefuseRnto, Finish, ListGood, TypeOK
<1>6. CASE CheckTarget(t)
  BY <1>6 DEF CheckTarget, At, thread, ListGood
<1>7. CASE Realpath(t)
  <2>1. SUFFICES ASSUME command[t] = "LIST" PROVE ListGood(t)'
    BY <1>7 DEF Realpath, ListGood
  <2>2. UNCHANGED <<tree, command, target, listed, stream, touched, kept>>
    BY <1>7 DEF Realpath, watched
  <2>3. CASE Found(name[t])
    <3>1. name' = [name EXCEPT ![t].slash = name[t].path = <<>>] /\ pc'[t] = "separator"
      BY <1>7, <2>3 DEF Realpath, Goto, TypeOK
    <3>2. name'[t] = [name[t] EXCEPT !.slash = (name[t].path = <<>>)] /\ name[t] # NoPath
      BY <2>3, <3>1 DEF TypeOK, Found
    <3>3. name'[t].path = name[t].path /\ name'[t].slash = (name[t].path = <<>>)
      BY <1>1, <3>2 DEF Name
    <3>4. name'[t] # NoPath
      <4>1. NoPath.path = <<>> /\ NoPath.slash = FALSE
        BY DEF NoPath
      <4> QED
        BY <3>3, <4>1
    <3> QED
      BY <2>1, <2>2, <3>1, <3>2, <3>3, <3>4 DEF ListGood
  <2>4. CASE ~ Found(name[t])
    <3>1. name'[t] = NoPath /\ pc'[t] \in {"realpath", "finish"}
      BY <1>7, <2>4 DEF Realpath, Round, Goto, TypeOK
    <3>2. kept[t] = {}
      <4>1. SUFFICES ASSUME kept[t] # {} PROVE Found(name[t])
        BY <2>4
      <4>2. name[t] # NoPath /\ name[t].path = target[t] /\ NamesIn(tree, target[t]) # {}
        BY <2>1, <4>1 DEF ListGood
      <4>3. IsDirectory(target[t])
        BY <1>1, <4>2, NamesDirectory DEF IsDirectory
      <4> QED
        BY <4>2, <4>3 DEF Found, Exists, IsDirectory
    <3> QED
      BY <2>1, <2>2, <3>1, <3>2 DEF ListGood
  <2> QED
    BY <2>3, <2>4
<1>8. CASE Separator(t)
  <2>1. SUFFICES ASSUME command[t] = "LIST" PROVE ListGood(t)'
    BY <1>8 DEF Separator, ListGood
  <2>2. /\ UNCHANGED <<tree, command, target, listed, stream, touched, kept>>
        /\ pc'[t] \in {"realpath", "finish"}
    BY <1>8 DEF Separator, Round, Goto, watched, TypeOK
  <2>3. name'[t] = [name[t] EXCEPT !.slash = name[t].slash \/ IsDirectory(name[t].path)]
    BY <1>8 DEF Separator, Separated, TypeOK, Name
  <2>4. name'[t].path = name[t].path /\ name'[t].slash = (name[t].slash \/ IsDirectory(name[t].path))
    BY <1>1, <2>3 DEF Name
  <2>5. kept[t] # {} => name'[t] # NoPath /\ name'[t].slash
    <3>1. SUFFICES ASSUME kept[t] # {} PROVE name'[t].slash
      BY DEF NoPath
    <3>2. name[t] # NoPath /\ name[t].path = target[t] /\ NamesIn(tree, target[t]) # {}
      BY <2>1, <3>1 DEF ListGood
    <3>3. IsDirectory(target[t])
      BY <1>1, <3>2, NamesDirectory DEF IsDirectory
    <3> QED
      BY <2>4, <3>2, <3>3
  <2>6. name'[t] # NoPath => name'[t].path = target[t]
    BY <1>8, <2>1, <2>4 DEF Separator, At, ListGood
  <2> QED
    BY <2>1, <2>2, <2>4, <2>5, <2>6 DEF ListGood
<1>9. CASE OpenFolder(t)
  <2>1. /\ UNCHANGED <<tree, thread, touched, kept>> /\ pc[t] = "finish" /\ command[t] = "LIST" /\ pc'[t] = "read"
    BY <1>9 DEF OpenFolder, At, Goto, TypeOK
  <2>2. listed[t] = {}
    BY <2>1 DEF Unread
  <2>3. PICK d \in Directory \union {Top, "closed"} :
          /\ IF Folder(name[t])
             THEN IF name[t].path = <<>> THEN d = Top ELSE d \in DOMAIN tree /\ tree[d] = name[t].path
             ELSE d = "closed"
          /\ stream' = [stream EXCEPT ![t] = [dir |-> d, due |-> Entries(tree, d), may |-> Entries(tree, d)]]
    BY <1>9 DEF OpenFolder
  <2>4. stream'[t].dir = d /\ stream'[t].due = Entries(tree, d) /\ stream'[t].may = Entries(tree, d)
    BY <2>3 DEF TypeOK
  <2>5. {Top, "closed"} \intersect DOMAIN tree = {}
    BY <1>1, FileAssumption DEF IsTree
  <2>6. CASE Folder(name[t])
    <3>1. name[t].path = target[t]
      BY <2>1, <2>6 DEF ListGood, Folder, Found
    <3>2. \/ d = Top /\ target[t] = <<>>
          \/ d \in DOMAIN tree \intersect Directory /\ tree[d] = target[t]
      BY <2>3, <2>5, <2>6, <3>1
    <3>3. Entries(tree, d) = NamesIn(tree, target[t])
      BY <1>1, <3>2, OpenedEntries
    <3>4. Opened(t)'
      BY <2>1, <2>4, <3>2 DEF Opened, thread
    <3> QED
      BY <2>1, <2>2, <2>4, <3>3, <3>4 DEF ListGood, thread
  <2>7. CASE ~ Folder(name[t])
    <3>1. d = "closed" /\ d # Top
      BY <2>3, <2>7 DEF Top
    <3>2. Entries(tree, d) = {}
      BY <2>5, <3>1 DEF Entries
    <3>3. kept[t] = {}
      <4>1. SUFFICES ASSUME kept[t] # {} PROVE Folder(name[t])
        BY <2>7
      <4>2. name[t] # NoPath /\ name[t].path = target[t] /\ NamesIn(tree, target[t]) # {}
        BY <2>1, <4>1 DEF ListGood
      <4>3. IsDirectory(target[t])
        BY <1>1, <4>2, NamesDirectory DEF IsDirectory
      <4> QED
        BY <4>2, <4>3 DEF Folder, Found, Exists, IsDirectory
    <3> QED
      BY <2>1, <2>2, <2>4, <3>2, <3>3 DEF ListGood, thread
  <2> QED
    BY <2>6, <2>7
<1>10. CASE ReadEntry(t)
  <2>1. SUFFICES ASSUME command[t] = "LIST" PROVE ListGood(t)'
    BY <1>10 DEF ReadEntry, ListGood
  <2>2. UNCHANGED <<tree, command, pc, target, name, touched, kept>> /\ pc[t] = "read"
    BY <1>10 DEF ReadEntry, At
  <2>3. PICK n \in stream[t].may :
          /\ stream' = [stream EXCEPT ![t].due = @ \ {n}, ![t].may = @ \ {n}]
          /\ listed' = [listed EXCEPT ![t] =
                          IF IsFileType(Joined(name[t], <<n>>)) THEN @ \union {n} ELSE @]
    BY <1>10 DEF ReadEntry
  <2>4. /\ stream'[t].dir = stream[t].dir
        /\ stream'[t].due = stream[t].due \ {n} /\ stream'[t].may = stream[t].may \ {n}
        /\ listed'[t] = IF IsFileType(Joined(name[t], <<n>>)) THEN listed[t] \union {n} ELSE listed[t]
    BY <1>1, <2>3 DEF Stream, TypeOK
  <2>5. n \in kept[t] => IsFileType(Joined(name[t], <<n>>))
    <3>1. SUFFICES ASSUME n \in kept[t] PROVE IsFileType(Joined(name[t], <<n>>))
      OBVIOUS
    <3>2. name[t].slash /\ name[t].path = target[t] /\ n \in NamesIn(tree, target[t])
      BY <2>1, <2>2, <3>1 DEF ListGood
    <3>3. \E o \in DOMAIN tree : tree[o] = target[t] \o <<n>>
      <4>1. IsTree(tree) /\ target[t] \in Path /\ n \in NamesIn(tree, target[t])
        BY <1>1, <3>2
      <4>2. \A u, p, x : IsTree(u) /\ p \in Path /\ x \in NamesIn(u, p) => \E o \in DOMAIN u : u[o] = p \o <<x>>
        BY NamedIn
      <4> QED
        BY <4>1, <4>2
    <3> QED
      BY <3>2, <3>3 DEF Joined, IsFileType, Exists
  <2>6. kept[t] \subseteq listed'[t] \union stream'[t].due
    BY <2>1, <2>2, <2>4, <2>5 DEF ListGood
  <2>7. ~ touched[t] => listed'[t] \union stream'[t].may \subseteq kept[t]
    <3>1. SUFFICES ASSUME ~ touched[t] PROVE listed'[t] \union stream'[t].may \subseteq kept[t]
      OBVIOUS
    <3>2. listed[t] \subseteq kept[t] /\ stream[t].may \subseteq kept[t]
      BY <2>1, <2>2, <3>1 DEF ListGood
    <3> QED
      BY <2>4, <3>2
  <2>8. kept[t] # {} => Opened(t)'
    BY <2>1, <2>2, <2>4 DEF ListGood, Opened
  <2> QED
    BY <2>1, <2>2, <2>6, <2>7, <2>8 DEF ListGood
<1> QED
  BY <1>2, <1>3, <1>4, <1>5, <1>6, <1>7, <1>8, <1>9, <1>10 DEF Step

ListInv == \A s \in Session : Unread(s) /\ ListGood(s)

\* No step of any session makes it false.
LEMMA ListAll ==
  ASSUME TypeOK, TypeOK', ListInv, NEW s \in Session, Step(s)
  PROVE  ListInv'
<1>1. SUFFICES ASSUME NEW t \in Session PROVE Unread(t)' /\ ListGood(t)'
  BY DEF ListInv
<1>2. Unread(t) /\ ListGood(t)
  BY DEF ListInv
<1>3. CASE s = t
  BY <1>2, <1>3, UnreadStep, ListStep
<1>4. CASE s # t
  <2>1. Private(t) /\ (Quiet(t) \/ Watch(s))
    BY <1>4, Others
  <2>2. Unread(t)'
    BY <1>2, <2>1 DEF Unread, Private
  <2>3. CASE Quiet(t)
    BY <1>2, <2>1, <2>2, <2>3 DEF ListGood, Opened, Private, Quiet
  <2>4. CASE Watch(s)
    <3>1. CASE command[t] = "LIST"
      BY <1>2, <1>4, <2>1, <2>2, <2>4, <3>1, ListWatched
    <3>2. CASE command[t] # "LIST"
      BY <2>1, <2>2, <3>2 DEF ListGood, Private
    <3> QED
      BY <3>1, <3>2
  <2> QED
    BY <2>1, <2>3, <2>4
<1> QED
  BY <1>3, <1>4

\* A LIST ends when readdir has nothing left.
LEMMA ListEnding ==
  ASSUME TypeOK, NEW s \in Session, Step(s), NEW t \in Session, pc[t] = "read", pc'[t] = "idle"
  PROVE  command[t] = "LIST" /\ stream[t].due = {}
<1>1. s = t
  BY Others DEF Private
<1> QED
  BY <1>1 DEF Step, command_cwd, command_list, command_dele, command_rnfr, command_rnto, Begin, command_stor,
     CheckTarget, Realpath, Separator, OpenFolder, ReadEntry, FinishCwd, FinishList, FinishDele, FinishRnfr,
     FinishRnto, RefuseRnto, Finish, At

\* A listing leaves out nothing that stayed in the folder, and is exact if no other
\* session changed the tree (directory::get_specify_files), for any sessions, trees and names.
THEOREM ListingSound == Spec => ListingComplete
<1>1. Init => ListInv
  BY DEF Init, ListInv, Unread, ListGood
<1>2. TypeOK /\ TypeOK' /\ ListInv /\ [Next]_vars => ListInv'
  <2>1. SUFFICES ASSUME TypeOK, TypeOK', ListInv, [Next]_vars PROVE ListInv'
    OBVIOUS
  <2>2. CASE UNCHANGED vars
    BY <2>1, <2>2 DEF vars, thread, watched, ListInv, Unread, ListGood, Opened
  <2>3. CASE Next
    BY <2>1, <2>3, ListAll DEF Next, Step
  <2> QED
    BY <2>1, <2>2, <2>3
<1>3. TypeOK /\ ListInv /\ [Next]_vars =>
        [\A s \in Session :
           At(s, "read") /\ pc'[s] = "idle" =>
             /\ kept[s] \subseteq listed[s]
             /\ ~ touched[s] => listed[s] = NamesIn(tree, target[s])]_vars
  <2>1. SUFFICES ASSUME TypeOK, ListInv, Next, NEW t \in Session, pc[t] = "read", pc'[t] = "idle"
                 PROVE  /\ kept[t] \subseteq listed[t]
                        /\ ~ touched[t] => listed[t] = NamesIn(tree, target[t])
    BY DEF At
  <2>2. PICK s \in Session : Step(s)
    BY <2>1 DEF Next, Step
  <2>3. command[t] = "LIST" /\ stream[t].due = {}
    BY <2>1, <2>2, ListEnding
  <2>4. ListGood(t)
    BY <2>1 DEF ListInv
  <2>5. kept[t] \subseteq listed[t]
    BY <2>1, <2>3, <2>4 DEF ListGood
  <2>6. ~ touched[t] => listed[t] \subseteq kept[t] /\ kept[t] = NamesIn(tree, target[t])
    BY <2>1, <2>3, <2>4 DEF ListGood
  <2> QED
    BY <2>5, <2>6
<1> QED
  BY <1>1, <1>2, <1>3, TypeCorrect, PTL DEF Spec, ListingComplete

=============================================================================
