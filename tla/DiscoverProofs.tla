---------------------------- MODULE DiscoverProofs ----------------------------
(***************************************************************************)
(* What Discover finds, unpacks and leaves behind: for archives and        *)
(* directories of any size and depth.                                      *)
(***************************************************************************)
EXTENDS Discover, FiniteSetTheorems, WellFoundedInduction, TLAPS

-----------------------------------------------------------------------------
(* Paths.                                                                  *)

LEMMA PrefixChar ==
    ASSUME NEW p \in Paths, NEW q
    PROVE  q \in Prefixes(p) <=>
               /\ q \in Paths
               /\ Len(q) <= Len(p)
               /\ \A i \in 1 .. Len(q) : q[i] = p[i]
<1>1. ASSUME NEW l \in 0 .. Len(p), q = SubSeq(p, 1, l)
      PROVE  q \in Paths /\ Len(q) <= Len(p) /\ \A i \in 1 .. Len(q) : q[i] = p[i]
  BY <1>1 DEF Paths
<1>2. ASSUME q \in Paths, Len(q) <= Len(p), \A i \in 1 .. Len(q) : q[i] = p[i]
      PROVE  q = SubSeq(p, 1, Len(q))
  <2>1. /\ SubSeq(p, 1, Len(q)) \in Seq(Names) /\ Len(SubSeq(p, 1, Len(q))) = Len(q)
        /\ \A i \in 1 .. Len(q) : SubSeq(p, 1, Len(q))[i] = p[i]
    BY <1>2 DEF Paths
  <2>2. QED BY <1>2, <2>1 DEF Paths
<1>3. q \in Paths /\ Len(q) <= Len(p) => Len(q) \in 0 .. Len(p)
  BY DEF Paths
<1>4. QED BY <1>1, <1>2, <1>3 DEF Prefixes

LEMMA SubPath ==
    ASSUME NEW p \in Paths, NEW l \in 0 .. Len(p)
    PROVE  /\ SubSeq(p, 1, l) \in Paths
           /\ Len(SubSeq(p, 1, l)) = l
           /\ \A i \in 1 .. l : SubSeq(p, 1, l)[i] = p[i]
BY DEF Paths

LEMMA ParentChar ==
    ASSUME NEW p \in Paths, p # <<>>
    PROVE  /\ Parent(p) \in Paths
           /\ Len(Parent(p)) = Len(p) - 1
           /\ \A i \in 1 .. Len(p) - 1 : Parent(p)[i] = p[i]
           /\ Len(p) \in Nat /\ Len(p) > 0
<1>1. p \in Seq(Names) /\ Len(p) \in Nat /\ Len(p) > 0 /\ \A i \in 1 .. Len(p) : p[i] \in Names
  BY DEF Paths
<1>2. Parent(p) = SubSeq(p, 1, Len(p) - 1)
  BY DEF Parent, Front
<1>3. Len(p) - 1 \in 0 .. Len(p)
  BY <1>1
<1>4. QED BY <1>1, <1>2, <1>3, SubPath

LEMMA SamePath ==
    ASSUME NEW p \in Paths, NEW q \in Paths, Len(p) = Len(q), \A i \in 1 .. Len(p) : p[i] = q[i]
    PROVE  p = q
BY DEF Paths

LEMMA RootPath == <<>> \in Paths /\ Parent(<<>>) = <<>> /\ Prefixes(<<>>) = {<<>>}
<1>1. <<>> \in Paths
  BY DEF Paths
<1>2. ASSUME NEW q \in Paths, Len(q) <= 0 PROVE q = <<>>
  BY <1>2 DEF Paths
<1>3. Len(<<>>) = 0
  OBVIOUS
<1>4. QED BY <1>1, <1>2, <1>3, PrefixChar DEF Parent

LEMMA PrefixOfItself ==
    ASSUME NEW p \in Paths
    PROVE  p \in Prefixes(p) /\ <<>> \in Prefixes(p) /\ Prefixes(p) \subseteq Paths
<1>1. Len(p) \in Nat /\ Len(<<>>) = 0 /\ <<>> \in Paths
  BY DEF Paths
<1>2. QED BY <1>1, PrefixChar

(* A prefix is the path itself or one of the directory it is in.           *)
LEMMA PrefixesOfParent ==
    ASSUME NEW p \in Paths, p # <<>>
    PROVE  /\ Prefixes(p) = Prefixes(Parent(p)) \union {p}
           /\ p \notin Prefixes(Parent(p))
           /\ Parent(p) \in Paths
<1>1. /\ Parent(p) \in Paths /\ Len(Parent(p)) = Len(p) - 1 /\ Len(p) \in Nat /\ Len(p) > 0
      /\ \A i \in 1 .. Len(p) - 1 : Parent(p)[i] = p[i]
  BY ParentChar
<1>2. ASSUME NEW q \in Prefixes(p), q # p PROVE q \in Prefixes(Parent(p))
  <2>1. q \in Paths /\ Len(q) \in Nat /\ Len(q) <= Len(p) /\ \A i \in 1 .. Len(q) : q[i] = p[i]
    BY PrefixChar DEF Paths
  <2>2. Len(q) # Len(p)
    BY <1>2, <2>1, SamePath
  <2>3. QED BY <1>1, <2>1, <2>2, PrefixChar
<1>3. ASSUME NEW q \in Prefixes(Parent(p)) PROVE q \in Prefixes(p) /\ q # p
  <2>1. q \in Paths /\ Len(q) \in Nat /\ Len(q) <= Len(Parent(p)) /\ \A i \in 1 .. Len(q) : q[i] = Parent(p)[i]
    BY <1>1, PrefixChar DEF Paths
  <2>2. QED BY <1>1, <2>1, PrefixChar
<1>4. QED BY <1>1, <1>2, <1>3, PrefixOfItself

LEMMA PrefixTransitive ==
    ASSUME NEW r \in Paths, NEW q \in Prefixes(r), NEW p \in Prefixes(q)
    PROVE  p \in Prefixes(r)
<1>1. q \in Paths /\ Len(q) \in Nat /\ Len(q) <= Len(r) /\ \A i \in 1 .. Len(q) : q[i] = r[i]
  BY PrefixChar DEF Paths
<1>2. p \in Paths /\ Len(p) \in Nat /\ Len(p) <= Len(q) /\ \A i \in 1 .. Len(p) : p[i] = q[i]
  BY <1>1, PrefixChar DEF Paths
<1>3. Len(r) \in Nat
  BY DEF Paths
<1>4. QED BY <1>1, <1>2, <1>3, PrefixChar

LEMMA PrefixAntisymmetric ==
    ASSUME NEW p \in Paths, NEW q \in Prefixes(p), p \in Prefixes(q)
    PROVE  p = q
<1>1. q \in Paths /\ Len(q) \in Nat /\ Len(q) <= Len(p) /\ \A i \in 1 .. Len(q) : q[i] = p[i]
  BY PrefixChar DEF Paths
<1>2. Len(p) <= Len(q) /\ Len(p) \in Nat
  BY <1>1, PrefixChar DEF Paths
<1>3. QED BY <1>1, <1>2, SamePath

(* What a directory holds on the way to a path below it.                   *)
LEMMA NextOnTheWay ==
    ASSUME NEW p \in Paths, NEW a \in Prefixes(p), a # p
    PROVE  \E c \in Prefixes(p) : c # <<>> /\ Parent(c) = a
<1>1. /\ a \in Paths /\ Len(a) \in Nat /\ Len(p) \in Nat /\ Len(a) <= Len(p)
      /\ \A i \in 1 .. Len(a) : a[i] = p[i]
  BY PrefixChar DEF Paths
<1>2. Len(a) < Len(p)
  BY <1>1, SamePath
<1> DEFINE c == SubSeq(p, 1, Len(a) + 1)
<1>a. Len(a) + 1 \in 0 .. Len(p)
  BY <1>1, <1>2
<1>3. c \in Prefixes(p)
  BY <1>a DEF Prefixes
<1>4. c \in Paths /\ Len(c) = Len(a) + 1 /\ \A i \in 1 .. Len(a) + 1 : c[i] = p[i]
  BY <1>a, SubPath
<1>5. c # <<>>
  BY <1>1, <1>4
<1> HIDE DEF c
<1>6. /\ Parent(c) \in Paths /\ Len(Parent(c)) = Len(c) - 1
      /\ \A i \in 1 .. Len(c) - 1 : Parent(c)[i] = c[i]
  BY <1>4, <1>5, ParentChar
<1>7. Parent(c) = a
  BY <1>1, <1>4, <1>6, SamePath
<1>8. QED BY <1>3, <1>5, <1>7

LEMMA AppendedName ==
    ASSUME NEW p \in Paths, NEW n \in Names
    PROVE  Append(p, n) \in Paths /\ Append(p, n) # <<>> /\ Parent(Append(p, n)) = p
<1> DEFINE q == Append(p, n)
<1>1. q \in Paths /\ Len(q) = Len(p) + 1 /\ Len(p) \in Nat /\ \A i \in 1 .. Len(p) : q[i] = p[i]
  BY DEF Paths
<1>2. q # <<>>
  BY <1>1
<1> HIDE DEF q
<1>3. /\ Parent(q) \in Paths /\ Len(Parent(q)) = Len(q) - 1
      /\ \A i \in 1 .. Len(q) - 1 : Parent(q)[i] = q[i]
  BY <1>1, <1>2, ParentChar
<1>4. Parent(q) = p
  BY <1>1, <1>3, SamePath
<1>5. QED BY <1>1, <1>2, <1>4 DEF q

LEMMA Largest ==
    ASSUME NEW n \in Nat, NEW T, T \subseteq 1 .. n, T # {}
    PROVE  Max(T) \in T /\ \A x \in T : x <= Max(T)
<1> DEFINE From(x) == x .. n
           D == {From(x) : x \in T}
           R == StrictSubsetOrdering(Nat)
<1>1. D \subseteq FiniteSubsetsOf(Nat)
  <2>1. ASSUME NEW x \in T PROVE From(x) \in SUBSET Nat /\ IsFiniteSet(From(x))
    BY <2>1, FS_Interval
  <2>2. QED BY <2>1 DEF FiniteSubsetsOf
<1>2. D # {}
  OBVIOUS
<1>3. IsWellFoundedOn(R, FiniteSubsetsOf(Nat))
  BY FS_StrictSubsetOrderingWellFounded
<1>4. PICK d \in D : \A e \in D : <<e, d>> \notin R
  <2> HIDE DEF D, R
  <2>1. QED BY <1>1, <1>2, <1>3, WFMin
<1>5. PICK x \in T : d = From(x)
  BY <1>4
<1>6. ASSUME NEW y \in T, y > x PROVE FALSE
  <2>1. From(y) \subseteq From(x) /\ From(y) # From(x) /\ From(x) \in SUBSET Nat
    BY <1>6
  <2>2. <<From(y), From(x)>> \in R
    BY <2>1 DEF StrictSubsetOrdering
  <2>3. QED BY <1>4, <1>5, <2>2
<1>7. \A y \in T : x >= y
  BY <1>6
<1>8. QED BY <1>7 DEF Max

-----------------------------------------------------------------------------
(* The tree that the first n items describe.                               *)

PathsTo(items, n) == {<<>>} \union UNION {Prefixes(items[i].path) : i \in 1 .. n}
FilesAt(items, n, p) == {i \in 1 .. n : items[i].path = p /\ items[i].type # "dir"}

TreeOf(items, n) ==
    [p \in PathsTo(items, n) |->
        IF FilesAt(items, n, p) = {} THEN "dir" ELSE items[Max(FilesAt(items, n, p))].data]

(* Consistent and Ordered, of the first n items.                           *)
ConsistentTo(items, n) ==
    \A i, j \in 1 .. n :
        /\ items[i].type # "corrupt"
        /\ items[i].type # "dir" =>
              /\ items[i].path # <<>>
              /\ items[i].path \in Prefixes(items[j].path) =>
                    items[j].path = items[i].path /\ items[j].type # "dir"

DirsBefore(items, i) == {items[j].path : j \in {j \in 1 .. i - 1 : items[j].type = "dir"}}

OrderedTo(items, n) ==
    \A i \in 1 .. n :
        /\ items[i].type # "special"
        /\ Parent(items[i].path) \in DirsBefore(items, i) \union {<<>>}
        /\ items[i].type = "dir" => items[i].path \notin DirsBefore(items, i) \union {<<>>}

(* Then every directory is listed.                                         *)
Listed(items, n) == PathsTo(items, n) = {<<>>} \union {items[i].path : i \in 1 .. n}

LEMMA ItemType ==
    ASSUME NEW items \in Seq(Items), NEW i \in 1 .. Len(items)
    PROVE  /\ items[i] \in Items /\ items[i].path \in Paths /\ items[i].data \in {"ok", "bad"}
           /\ items[i].type \in {"dir", "file", "special", "corrupt"}
<1>1. items[i] \in Items
  OBVIOUS
<1>2. QED BY <1>1 DEF Items

LEMMA DescribedIsTree ==
    ASSUME NEW items \in Seq(Items)
    PROVE  /\ Described(items) = TreeOf(items, Len(items))
           /\ Consistent(items) <=> ConsistentTo(items, Len(items))
           /\ Ordered(items) <=> OrderedTo(items, Len(items))
<1>1. DOMAIN items = 1 .. Len(items)
  OBVIOUS
<1>2. \A p : {i \in DOMAIN items : items[i].path = p /\ items[i].type # "dir"} = FilesAt(items, Len(items), p)
  BY <1>1 DEF FilesAt
<1>3. Described(items) = TreeOf(items, Len(items))
  BY <1>1, <1>2 DEF Described, TreeOf, PathsTo
<1>4. Consistent(items) <=> ConsistentTo(items, Len(items))
  BY <1>1 DEF Consistent, ConsistentTo
<1>5. Ordered(items) <=> OrderedTo(items, Len(items))
  BY <1>1 DEF Ordered, OrderedTo, DirsBefore
<1>6. QED BY <1>3, <1>4, <1>5

LEMMA PathsToChar ==
    ASSUME NEW items \in Seq(Items), NEW n \in 0 .. Len(items)
    PROVE  /\ PathsTo(items, n) \subseteq Paths
           /\ \A q \in PathsTo(items, n) : Prefixes(q) \subseteq PathsTo(items, n)
           /\ \A q : FilesAt(items, n, q) # {} => q \in PathsTo(items, n)
<1>1. \A i \in 1 .. n : items[i].path \in Paths
  BY ItemType
<1>2. PathsTo(items, n) \subseteq Paths
  BY <1>1, PrefixOfItself, RootPath DEF PathsTo
<1>3. ASSUME NEW q \in PathsTo(items, n), NEW a \in Prefixes(q) PROVE a \in PathsTo(items, n)
  <2>1. CASE q = <<>>
    BY <2>1, <1>3, RootPath DEF PathsTo
  <2>2. CASE q # <<>>
    <3>1. PICK i \in 1 .. n : q \in Prefixes(items[i].path)
      BY <2>2 DEF PathsTo
    <3>2. a \in Prefixes(items[i].path)
      BY <1>1, <3>1, PrefixTransitive
    <3>3. QED BY <3>2 DEF PathsTo
  <2>3. QED BY <2>1, <2>2
<1>4. ASSUME NEW q, NEW i \in FilesAt(items, n, q) PROVE q \in PathsTo(items, n)
  <2>1. i \in 1 .. n /\ q = items[i].path
    BY DEF FilesAt
  <2>2. q \in Prefixes(items[i].path)
    BY <1>1, <2>1, PrefixOfItself
  <2>3. QED BY <2>1, <2>2 DEF PathsTo
<1>5. QED BY <1>2, <1>3, <1>4

LEMMA FilesOfTree ==
    ASSUME NEW items \in Seq(Items), NEW n \in 0 .. Len(items), NEW q
    PROVE  /\ DOMAIN TreeOf(items, n) = PathsTo(items, n)
           /\ IsFile(TreeOf(items, n), q) <=> FilesAt(items, n, q) # {}
           /\ IsDir(TreeOf(items, n), q) <=> q \in PathsTo(items, n) /\ FilesAt(items, n, q) = {}
           /\ q \in PathsTo(items, n) => TreeOf(items, n)[q] \in {"dir", "ok", "bad"}
<1>1. DOMAIN TreeOf(items, n) = PathsTo(items, n)
  BY DEF TreeOf
<1>2. ASSUME FilesAt(items, n, q) # {} PROVE TreeOf(items, n)[q] \in {"ok", "bad"} /\ q \in PathsTo(items, n)
  <2>1. FilesAt(items, n, q) \subseteq 1 .. n /\ n \in Nat
    BY DEF FilesAt
  <2>2. Max(FilesAt(items, n, q)) \in FilesAt(items, n, q)
    BY <1>2, <2>1, Largest
  <2>3. items[Max(FilesAt(items, n, q))].data \in {"ok", "bad"}
    BY <2>1, <2>2, ItemType
  <2>4. q \in PathsTo(items, n)
    BY <1>2, PathsToChar
  <2>5. QED BY <1>2, <2>3, <2>4 DEF TreeOf
<1>3. ASSUME FilesAt(items, n, q) = {}, q \in PathsTo(items, n) PROVE TreeOf(items, n)[q] = "dir"
  BY <1>3 DEF TreeOf
<1>4. QED BY <1>1, <1>2, <1>3 DEF IsFile, IsDir

(* No file is above anything else.                                         *)
LEMMA NoFileAbove ==
    ASSUME NEW items \in Seq(Items), NEW n \in 0 .. Len(items), ConsistentTo(items, n),
           NEW q \in PathsTo(items, n), NEW a \in Prefixes(q), a # q
    PROVE  FilesAt(items, n, a) = {}
<1> SUFFICES ASSUME NEW i \in FilesAt(items, n, a) PROVE FALSE
  OBVIOUS
<1>1. i \in 1 .. n /\ items[i].path = a /\ items[i].type # "dir"
  BY DEF FilesAt
<1>2. q # <<>>
  BY RootPath
<1>3. PICK j \in 1 .. n : q \in Prefixes(items[j].path)
  BY <1>2 DEF PathsTo
<1>4. items[j].path \in Paths /\ q \in Paths
  BY ItemType, PathsToChar
<1>5. a \in Prefixes(items[j].path)
  BY <1>3, <1>4, PrefixTransitive
<1>6. items[j].path = a
  BY <1>1, <1>5 DEF ConsistentTo
<1>7. QED BY <1>3, <1>4, <1>6, PrefixAntisymmetric

LEMMA NoItems ==
    ASSUME NEW items
    PROVE  TreeOf(items, 0) = Empty /\ ConsistentTo(items, 0) /\ OrderedTo(items, 0) /\ Listed(items, 0)
<1>1. 1 .. 0 = {}
  OBVIOUS
<1>2. PathsTo(items, 0) = {<<>>} /\ FilesAt(items, 0, <<>>) = {}
  BY <1>1 DEF PathsTo, FilesAt
<1>3. TreeOf(items, 0) = Empty
  BY <1>2 DEF TreeOf, Empty
<1>4. QED BY <1>1, <1>2, <1>3 DEF ConsistentTo, OrderedTo, Listed

LEMMA PathsToNext ==
    ASSUME NEW items \in Seq(Items), NEW n \in 0 .. Len(items) - 1
    PROVE  /\ PathsTo(items, n + 1) = PathsTo(items, n) \union Prefixes(items[n + 1].path)
           /\ \A q : FilesAt(items, n + 1, q) =
                 IF items[n + 1].path = q /\ items[n + 1].type # "dir"
                 THEN FilesAt(items, n, q) \union {n + 1} ELSE FilesAt(items, n, q)
<1>1. 1 .. n + 1 = (1 .. n) \union {n + 1}
  OBVIOUS
<1>2. QED BY <1>1 DEF PathsTo, FilesAt

-----------------------------------------------------------------------------
(* One more item.                                                          *)

LEMMA ConsistentNext ==
    ASSUME NEW items \in Seq(Items), NEW n \in 0 .. Len(items) - 1, ConsistentTo(items, n)
    PROVE  LET x == items[n + 1]
           IN  ConsistentTo(items, n + 1) <=>
                 /\ x.type # "corrupt"
                 /\ \A a \in Prefixes(x.path) \ {x.path} : FilesAt(items, n, a) = {}
                 /\ x.type = "dir" => FilesAt(items, n, x.path) = {}
                 /\ x.type # "dir" =>
                       /\ x.path # <<>>
                       /\ x.path \in PathsTo(items, n) => FilesAt(items, n, x.path) # {}
<1> DEFINE x == items[n + 1]
           p == x.path
           Right == /\ x.type # "corrupt"
                    /\ \A a \in Prefixes(p) \ {p} : FilesAt(items, n, a) = {}
                    /\ x.type = "dir" => FilesAt(items, n, p) = {}
                    /\ x.type # "dir" =>
                          /\ p # <<>>
                          /\ p \in PathsTo(items, n) => FilesAt(items, n, p) # {}
<1>1. /\ 1 .. n + 1 = (1 .. n) \union {n + 1}
      /\ \A i \in 1 .. n : i \in 1 .. Len(items)
      /\ n + 1 \in 1 .. Len(items)
  OBVIOUS
<1>2. /\ p \in Paths /\ p \in Prefixes(p)
      /\ \A i \in 1 .. n : items[i].path \in Paths
  BY <1>1, ItemType, PrefixOfItself
<1>3. ASSUME ConsistentTo(items, n + 1) PROVE Right
  <2>1. x.type # "corrupt"
    BY <1>1, <1>3 DEF ConsistentTo
  <2>2. ASSUME NEW a \in Prefixes(p), NEW i \in FilesAt(items, n, a) PROVE a = p /\ x.type # "dir"
    <3>1. i \in 1 .. n /\ items[i].path = a /\ items[i].type # "dir"
      BY DEF FilesAt
    <3>2. QED BY <1>1, <1>3, <3>1 DEF ConsistentTo
  <2>3. ASSUME x.type # "dir" PROVE p # <<>>
    BY <1>1, <1>3, <2>3 DEF ConsistentTo
  <2>4. ASSUME x.type # "dir", p \in PathsTo(items, n) PROVE FilesAt(items, n, p) # {}
    <3>1. PICK j \in 1 .. n : p \in Prefixes(items[j].path)
      BY <2>3, <2>4 DEF PathsTo
    <3>2. items[j].path = p /\ items[j].type # "dir"
      BY <1>1, <1>3, <2>4, <3>1 DEF ConsistentTo
    <3>3. QED BY <3>2 DEF FilesAt
  <2>5. QED BY <1>2, <2>1, <2>2, <2>3, <2>4
<1>4. ASSUME Right PROVE ConsistentTo(items, n + 1)
  <2>1. ASSUME NEW i \in 1 .. n, items[i].type # "dir", items[i].path \in Prefixes(p)
        PROVE  p = items[i].path /\ x.type # "dir"
    <3>1. i \in FilesAt(items, n, items[i].path)
      BY <2>1 DEF FilesAt
    <3>2. QED BY <1>4, <2>1, <3>1
  <2>2. ASSUME NEW j \in 1 .. n, x.type # "dir", p \in Prefixes(items[j].path)
        PROVE  items[j].path = p /\ items[j].type # "dir"
    <3>1. p \in PathsTo(items, n)
      BY <2>2 DEF PathsTo
    <3>2. PICK i \in 1 .. n : items[i].path = p /\ items[i].type # "dir"
      BY <1>4, <2>2, <3>1 DEF FilesAt
    <3>3. QED BY <2>2, <3>2 DEF ConsistentTo
  <2>3. QED
    <3> SUFFICES ASSUME NEW i \in 1 .. n + 1, NEW j \in 1 .. n + 1
                 PROVE  /\ items[i].type # "corrupt"
                        /\ items[i].type # "dir" =>
                             /\ items[i].path # <<>>
                             /\ items[i].path \in Prefixes(items[j].path) =>
                                   items[j].path = items[i].path /\ items[j].type # "dir"
      BY DEF ConsistentTo
    <3>1. CASE i \in 1 .. n /\ j \in 1 .. n
      BY <3>1 DEF ConsistentTo
    <3>2. CASE i \in 1 .. n /\ j = n + 1
      BY <2>1, <3>2 DEF ConsistentTo
    <3>3. CASE i = n + 1 /\ j \in 1 .. n
      BY <1>4, <2>2, <3>3
    <3>4. CASE i = n + 1 /\ j = n + 1
      BY <1>4, <3>4
    <3>5. QED BY <1>1, <3>1, <3>2, <3>3, <3>4
<1>5. QED BY <1>3, <1>4

LEMMA OrderedNext ==
    ASSUME NEW items, NEW n \in Nat
    PROVE  OrderedTo(items, n + 1) <=>
              /\ OrderedTo(items, n)
              /\ items[n + 1].type # "special"
              /\ Parent(items[n + 1].path) \in DirsBefore(items, n + 1) \union {<<>>}
              /\ items[n + 1].type = "dir" =>
                    items[n + 1].path \notin DirsBefore(items, n + 1) \union {<<>>}
<1>1. 1 .. n + 1 = (1 .. n) \union {n + 1}
  OBVIOUS
<1>2. QED BY <1>1 DEF OrderedTo

(* With every directory listed, these are the directories.                 *)
LEMMA DirsOfTree ==
    ASSUME NEW items \in Seq(Items), NEW n \in 0 .. Len(items),
           ConsistentTo(items, n), Listed(items, n), NEW a
    PROVE  IsDir(TreeOf(items, n), a) <=> a \in DirsBefore(items, n + 1) \union {<<>>}
<1>1. DirsBefore(items, n + 1) = {items[j].path : j \in {j \in 1 .. n : items[j].type = "dir"}}
  BY DEF DirsBefore
<1>2. ASSUME a \in PathsTo(items, n), FilesAt(items, n, a) = {}, a # <<>>
      PROVE  a \in DirsBefore(items, n + 1)
  <2>1. PICK j \in 1 .. n : items[j].path = a
    BY <1>2 DEF Listed
  <2>2. items[j].type = "dir"
    BY <1>2, <2>1 DEF FilesAt
  <2>3. QED BY <1>1, <2>1, <2>2
<1>3. ASSUME NEW j \in 1 .. n, items[j].type = "dir", items[j].path = a
      PROVE  a \in PathsTo(items, n) /\ FilesAt(items, n, a) = {}
  <2>1. a \in Paths /\ a \in Prefixes(a)
    BY <1>3, ItemType, PrefixOfItself
  <2>2. a \in PathsTo(items, n)
    BY <1>3, <2>1 DEF PathsTo
  <2>3. FilesAt(items, n, a) = {}
    BY <1>3, <2>1 DEF FilesAt, ConsistentTo
  <2>4. QED BY <2>2, <2>3
<1>4. <<>> \in PathsTo(items, n) /\ FilesAt(items, n, <<>>) = {}
  BY DEF PathsTo, FilesAt, ConsistentTo
<1>5. QED BY <1>1, <1>2, <1>3, <1>4, FilesOfTree

LEMMA WrittenTree ==
    ASSUME NEW items \in Seq(Items), NEW n \in 0 .. Len(items) - 1,
           tree = TreeOf(items, n), ConsistentTo(items, n + 1)
    PROVE  Written(items[n + 1]) = TreeOf(items, n + 1)
<1> DEFINE x == items[n + 1]
           p == x.path
<1>1. n + 1 \in 1 .. Len(items) /\ n \in 0 .. Len(items) /\ n \in Nat
  OBVIOUS
<1>2. p \in Paths
  BY <1>1, ItemType
<1>3. DOMAIN tree = PathsTo(items, n)
  BY <1>1, FilesOfTree
<1>4. CASE x.type = "dir"
  <2>1. \A q : FilesAt(items, n + 1, q) = FilesAt(items, n, q)
    BY <1>4, PathsToNext
  <2>2. ASSUME NEW q \in Prefixes(p) PROVE FilesAt(items, n + 1, q) = {}
    BY <1>1, <1>4, <2>2 DEF ConsistentTo, FilesAt
  <2>3. PathsTo(items, n + 1) = DOMAIN tree \union Prefixes(p)
    BY <1>3, PathsToNext
  <2>4. ASSUME NEW q \in PathsTo(items, n + 1)
        PROVE  TreeOf(items, n + 1)[q] = IF q \in DOMAIN tree THEN tree[q] ELSE "dir"
    BY <1>3, <2>1, <2>2, <2>3 DEF TreeOf
  <2>5. TreeOf(items, n + 1) = [q \in DOMAIN tree \union Prefixes(p) |-> IF q \in DOMAIN tree THEN tree[q] ELSE "dir"]
    BY <2>3, <2>4 DEF TreeOf
  <2>6. QED BY <1>4, <2>5 DEF Written, MkdirAll
<1>5. CASE x.type # "dir"
  <2> DEFINE m == MkdirAll(tree, Parent(p))
             u == Put(m, p, x.data)
  <2>1. p # <<>>
    BY <1>1, <1>5 DEF ConsistentTo
  <2>2. Prefixes(p) = Prefixes(Parent(p)) \union {p} /\ p \notin Prefixes(Parent(p)) /\ p \in Prefixes(p)
    BY <1>2, <2>1, PrefixesOfParent
  <2>3. DOMAIN m = PathsTo(items, n) \union Prefixes(Parent(p))
    BY <1>3 DEF MkdirAll
  <2>4. DOMAIN u = PathsTo(items, n + 1)
    BY <2>2, <2>3, PathsToNext DEF Put
  <2>5. ASSUME NEW q \in PathsTo(items, n + 1), q # p PROVE u[q] = TreeOf(items, n + 1)[q]
    <3>1. FilesAt(items, n + 1, q) = FilesAt(items, n, q)
      BY <2>5, PathsToNext
    <3>2. u[q] = IF q \in DOMAIN tree THEN tree[q] ELSE "dir"
      BY <1>3, <2>2, <2>3, <2>4, <2>5 DEF Put, MkdirAll
    <3>3. q \notin DOMAIN tree => FilesAt(items, n, q) = {}
      BY <1>1, <1>3, PathsToChar
    <3>4. TreeOf(items, n + 1)[q] = IF FilesAt(items, n, q) = {} THEN "dir" ELSE items[Max(FilesAt(items, n, q))].data
      BY <3>1 DEF TreeOf
    <3>5. q \in DOMAIN tree => tree[q] = IF FilesAt(items, n, q) = {} THEN "dir" ELSE items[Max(FilesAt(items, n, q))].data
      BY <1>3 DEF TreeOf
    <3>6. QED BY <3>2, <3>3, <3>4, <3>5
  <2>6. u[p] = TreeOf(items, n + 1)[p]
    <3>1. FilesAt(items, n + 1, p) = FilesAt(items, n, p) \union {n + 1}
      BY <1>5, PathsToNext
    <3>2. FilesAt(items, n + 1, p) \subseteq 1 .. n + 1 /\ n + 1 \in FilesAt(items, n + 1, p)
      BY <1>1, <3>1 DEF FilesAt
    <3>3. Max(FilesAt(items, n + 1, p)) = n + 1
      <4> DEFINE M == Max(FilesAt(items, n + 1, p))
      <4>1. M \in FilesAt(items, n + 1, p) /\ \A i \in FilesAt(items, n + 1, p) : i <= M
        <5>1. FilesAt(items, n + 1, p) # {}
          BY <3>2
        <5>2. QED BY <1>1, <3>2, <5>1, Largest
      <4>2. M \in 1 .. n + 1 /\ n + 1 <= M
        BY <3>2, <4>1
      <4> HIDE DEF M
      <4>3. M = n + 1
        BY <1>1, <4>2
      <4>4. QED BY <4>3 DEF M
    <3>4. p \in PathsTo(items, n + 1)
      BY <2>2, PathsToNext
    <3>5. TreeOf(items, n + 1)[p] = x.data
      BY <3>2, <3>3, <3>4 DEF TreeOf
    <3>6. u[p] = x.data
      BY DEF Put
    <3>7. QED BY <3>5, <3>6
  <2>7. u = TreeOf(items, n + 1)
    <3>1. \A q \in PathsTo(items, n + 1) : u[q] = TreeOf(items, n + 1)[q]
      BY <2>5, <2>6
    <3>2. u = [q \in DOMAIN u |-> u[q]]
      BY DEF Put
    <3> HIDE DEF u
    <3>3. QED BY <2>4, <3>1, <3>2 DEF TreeOf
  <2>8. Written(x) = u
    BY <1>5 DEF Written
  <2>9. QED BY <2>7, <2>8
<1>6. QED BY <1>4, <1>5

(* The parent of what may be unpacked is there, and a directory.           *)
LEMMA ConsistentBelow ==
    ASSUME NEW items \in Seq(Items), NEW n \in 0 .. Len(items), ConsistentTo(items, n),
           NEW p \in Paths, p # <<>>
    PROVE  /\ CanMkdirAll(TreeOf(items, n), Parent(p)) <=>
                 \A a \in Prefixes(p) \ {p} : FilesAt(items, n, a) = {}
           /\ IsDir(TreeOf(items, n), Parent(p)) => \A a \in Prefixes(p) \ {p} : FilesAt(items, n, a) = {}
<1>1. Prefixes(p) \ {p} = Prefixes(Parent(p)) /\ Parent(p) \in Paths
  BY PrefixesOfParent
<1>2. CanMkdirAll(TreeOf(items, n), Parent(p)) <=> \A a \in Prefixes(Parent(p)) : FilesAt(items, n, a) = {}
  BY FilesOfTree DEF CanMkdirAll
<1>3. ASSUME IsDir(TreeOf(items, n), Parent(p)), NEW a \in Prefixes(Parent(p)) PROVE FilesAt(items, n, a) = {}
  <2>1. Parent(p) \in PathsTo(items, n) /\ FilesAt(items, n, Parent(p)) = {}
    BY <1>3, FilesOfTree
  <2>2. QED BY <2>1, NoFileAbove
<1>4. QED BY <1>1, <1>2, <1>3

LEMMA WritableZip ==
    ASSUME NEW items \in Seq(Items), NEW n \in 0 .. Len(items) - 1,
           tree = TreeOf(items, n), ConsistentTo(items, n), Entry.kind = "zip"
    PROVE  CanWrite(items[n + 1]) <=> ConsistentTo(items, n + 1)
<1> DEFINE x == items[n + 1]
           p == x.path
<1>1. n + 1 \in 1 .. Len(items) /\ n \in 0 .. Len(items)
  OBVIOUS
<1>2. p \in Paths /\ x.type \in {"dir", "file", "special", "corrupt"}
  BY <1>1, ItemType
<1>3. \A q : /\ IsFile(tree, q) <=> FilesAt(items, n, q) # {}
             /\ IsDir(tree, q) <=> q \in PathsTo(items, n) /\ FilesAt(items, n, q) = {}
             /\ q \in DOMAIN tree <=> q \in PathsTo(items, n)
  BY <1>1, FilesOfTree
<1>4. CASE x.type = "corrupt"
  <2>1. ~CanWrite(x)
    BY <1>4 DEF CanWrite
  <2>2. ~ConsistentTo(items, n + 1)
    BY <1>1, <1>4 DEF ConsistentTo
  <2>3. QED BY <2>1, <2>2
<1>5. CASE x.type = "dir"
  <2>1. CanWrite(x) <=> CanMkdirAll(tree, p)
    BY <1>5 DEF CanWrite
  <2>2. CanMkdirAll(tree, p) <=> \A a \in Prefixes(p) : FilesAt(items, n, a) = {}
    BY <1>3 DEF CanMkdirAll
  <2>3. p \in Prefixes(p)
    BY <1>2, PrefixOfItself
  <2>4. QED BY <1>5, <2>1, <2>2, <2>3, ConsistentNext
<1>6. CASE x.type \in {"file", "special"}
  <2> DEFINE m == MkdirAll(tree, Parent(p))
  <2>1. CanWrite(x) <=> CanMkdirAll(tree, Parent(p)) /\ CanCreate(m, p)
    BY <1>6 DEF CanWrite
  <2>2. CASE p = <<>>
    <3>1. ~ConsistentTo(items, n + 1)
      BY <1>1, <1>6, <2>2 DEF ConsistentTo
    <3>2. IsDir(tree, <<>>)
      <4>1. <<>> \in PathsTo(items, n) /\ FilesAt(items, n, <<>>) = {}
        BY DEF PathsTo, FilesAt, ConsistentTo
      <4>2. QED BY <1>3, <4>1
    <3>3. IsDir(m, <<>>)
      BY <3>2 DEF IsDir, MkdirAll
    <3>4. QED BY <2>1, <2>2, <3>1, <3>3 DEF CanCreate
  <2>3. CASE p # <<>>
    <3>1. /\ Prefixes(p) = Prefixes(Parent(p)) \union {p} /\ p \notin Prefixes(Parent(p))
          /\ Parent(p) \in Paths
      BY <1>2, <2>3, PrefixesOfParent
    <3>2. CanMkdirAll(tree, Parent(p)) <=> \A a \in Prefixes(p) \ {p} : FilesAt(items, n, a) = {}
      BY <1>1, <1>2, <2>3, ConsistentBelow
    <3>3. CanMkdirAll(tree, Parent(p)) => IsDir(m, Parent(p))
      <4>1. Parent(p) \in Prefixes(Parent(p))
        BY <3>1, PrefixOfItself
      <4>2. QED BY <4>1 DEF CanMkdirAll, IsDir, IsFile, MkdirAll
    <3>4. IsDir(m, p) <=> IsDir(tree, p)
      BY <3>1 DEF IsDir, MkdirAll
    <3>5. CanWrite(x) <=> /\ \A a \in Prefixes(p) \ {p} : FilesAt(items, n, a) = {}
                          /\ p \in PathsTo(items, n) => FilesAt(items, n, p) # {}
      BY <1>3, <2>1, <3>2, <3>3, <3>4 DEF CanCreate
    <3>6. QED BY <1>6, <2>3, <3>5, ConsistentNext
  <2>4. QED BY <2>2, <2>3
<1>7. QED BY <1>2, <1>4, <1>5, <1>6

LEMMA WritableTar ==
    ASSUME NEW items \in Seq(Items), NEW n \in 0 .. Len(items) - 1,
           tree = TreeOf(items, n), ConsistentTo(items, n), Entry.kind = "tar",
           OrderedTo(items, n), Listed(items, n)
    PROVE  CanWrite(items[n + 1]) <=> ConsistentTo(items, n + 1) /\ OrderedTo(items, n + 1)
<1> DEFINE x == items[n + 1]
           p == x.path
           dirs == DirsBefore(items, n + 1) \union {<<>>}
<1>1. n + 1 \in 1 .. Len(items) /\ n \in 0 .. Len(items) /\ n \in Nat
  OBVIOUS
<1>2. p \in Paths /\ x.type \in {"dir", "file", "special", "corrupt"}
  BY <1>1, ItemType
<1>3. \A q : /\ IsDir(tree, q) <=> q \in PathsTo(items, n) /\ FilesAt(items, n, q) = {}
             /\ q \in DOMAIN tree <=> q \in PathsTo(items, n)
             /\ IsDir(tree, q) <=> q \in dirs
             /\ FilesAt(items, n, q) # {} => q \in PathsTo(items, n)
  BY <1>1, FilesOfTree, DirsOfTree, PathsToChar
<1>4. OrderedTo(items, n + 1) <=>
         /\ x.type # "special"
         /\ Parent(p) \in dirs
         /\ x.type = "dir" => p \notin dirs
  BY <1>1, OrderedNext
<1>5. CASE x.type = "corrupt"
  <2>1. ~CanWrite(x)
    BY <1>5 DEF CanWrite
  <2>2. ~ConsistentTo(items, n + 1)
    BY <1>1, <1>5 DEF ConsistentTo
  <2>3. QED BY <2>1, <2>2
<1>6. CASE x.type = "special"
  <2>1. ~CanWrite(x)
    BY <1>6 DEF CanWrite
  <2>2. QED BY <1>4, <1>6, <2>1
<1>7. p # <<>> /\ IsDir(tree, Parent(p)) => \A a \in Prefixes(p) \ {p} : FilesAt(items, n, a) = {}
  BY <1>1, <1>2, ConsistentBelow
<1>8. CASE x.type = "dir"
  <2>1. CanWrite(x) <=> IsDir(tree, Parent(p)) /\ p \notin DOMAIN tree
    BY <1>8 DEF CanWrite
  <2>2. ASSUME CanWrite(x) PROVE ConsistentTo(items, n + 1) /\ OrderedTo(items, n + 1)
    <3>1. p # <<>>
      BY <1>3, <2>1, <2>2
    <3>2. FilesAt(items, n, p) = {} /\ p \notin dirs /\ Parent(p) \in dirs
      BY <1>3, <2>1, <2>2
    <3>3. \A a \in Prefixes(p) \ {p} : FilesAt(items, n, a) = {}
      BY <1>7, <2>1, <2>2, <3>1
    <3>4. QED BY <1>4, <1>8, <3>2, <3>3, ConsistentNext
  <2>3. ASSUME ConsistentTo(items, n + 1), OrderedTo(items, n + 1) PROVE CanWrite(x)
    <3>1. FilesAt(items, n, p) = {}
      BY <1>8, <2>3, ConsistentNext
    <3>2. QED BY <1>3, <1>4, <1>8, <2>1, <2>3, <3>1
  <2>4. QED BY <2>2, <2>3
<1>9. CASE x.type = "file"
  <2>1. CanWrite(x) <=> IsDir(tree, Parent(p)) /\ ~IsDir(tree, p)
    BY <1>9 DEF CanWrite, CanCreate
  <2>2. ASSUME CanWrite(x) PROVE ConsistentTo(items, n + 1) /\ OrderedTo(items, n + 1)
    <3>1. p # <<>>
      BY <1>3, <2>1, <2>2
    <3>2. \A a \in Prefixes(p) \ {p} : FilesAt(items, n, a) = {}
      BY <1>7, <2>1, <2>2, <3>1
    <3>3. p \in PathsTo(items, n) => FilesAt(items, n, p) # {}
      BY <1>3, <2>1, <2>2
    <3>4. ConsistentTo(items, n + 1)
      BY <1>9, <3>1, <3>2, <3>3, ConsistentNext
    <3>5. QED BY <1>3, <1>4, <1>9, <2>1, <2>2, <3>4
  <2>3. ASSUME ConsistentTo(items, n + 1), OrderedTo(items, n + 1) PROVE CanWrite(x)
    <3>1. p \in PathsTo(items, n) => FilesAt(items, n, p) # {}
      BY <1>9, <2>3, ConsistentNext
    <3>2. QED BY <1>3, <1>4, <1>9, <2>1, <2>3, <3>1
  <2>4. QED BY <2>2, <2>3
<1>10. QED BY <1>2, <1>5, <1>6, <1>8, <1>9

LEMMA ListedNext ==
    ASSUME NEW items \in Seq(Items), NEW n \in 0 .. Len(items) - 1,
           ConsistentTo(items, n), Listed(items, n), OrderedTo(items, n + 1)
    PROVE  Listed(items, n + 1)
<1> DEFINE p == items[n + 1].path
<1>1. n + 1 \in 1 .. Len(items) /\ n \in 0 .. Len(items) /\ n \in Nat
  OBVIOUS
<1>2. p \in Paths
  BY <1>1, ItemType
<1>3. Parent(p) \in DirsBefore(items, n + 1) \union {<<>>}
  BY <1>1, OrderedNext
<1>4. Parent(p) \in PathsTo(items, n)
  BY <1>1, <1>3, DirsOfTree, FilesOfTree
<1>5. Prefixes(p) \subseteq PathsTo(items, n) \union {p} /\ p \in Prefixes(p)
  <2>1. CASE p = <<>>
    BY <2>1, RootPath DEF PathsTo
  <2>2. CASE p # <<>>
    BY <1>1, <1>2, <1>4, <2>2, PrefixesOfParent, PathsToChar
  <2>3. QED BY <2>1, <2>2
<1>6. PathsTo(items, n + 1) = PathsTo(items, n) \union {p}
  BY <1>5, PathsToNext
<1>7. 1 .. n + 1 = (1 .. n) \union {n + 1}
  BY <1>1
<1>8. QED BY <1>6, <1>7 DEF Listed

LEMMA FirstItems ==
    ASSUME NEW items \in Seq(Items), NEW n \in 0 .. Len(items)
    PROVE  /\ Consistent(items) => ConsistentTo(items, n)
           /\ Ordered(items) => OrderedTo(items, n)
<1>1. DOMAIN items = 1 .. Len(items) /\ \A i \in 1 .. n : i \in 1 .. Len(items)
  OBVIOUS
<1>2. ConsistentTo(items, Len(items)) => ConsistentTo(items, n)
  BY <1>1 DEF ConsistentTo
<1>3. OrderedTo(items, Len(items)) => OrderedTo(items, n)
  BY <1>1 DEF OrderedTo
<1>4. QED BY <1>2, <1>3, DescribedIsTree

-----------------------------------------------------------------------------
(* The way down to a bundle.                                               *)

Tree(T) ==
    /\ DOMAIN T \subseteq Paths
    /\ <<>> \in DOMAIN T
    /\ \A q \in DOMAIN T : T[q] \in {"dir", "ok", "bad"}
    /\ \A q \in DOMAIN T : Prefixes(q) \subseteq DOMAIN T
    /\ \A q \in DOMAIN T : \A a \in Prefixes(q) \ {q} : IsDir(T, a)

(* Load is at a, and there is no bundle that is not below it.              *)
OnTheWay(T, a) ==
    /\ a \in DOMAIN T
    /\ \A q \in Prefixes(a) \ {a} :
          Append(q, "package.json") \notin DOMAIN T /\ \E c \in DOMAIN T : Children(T, q) = {c}
    /\ \A p \in DOMAIN T : BundleAt(T, p) => a \in Prefixes(p)

LEMMA DescribedTree ==
    ASSUME NEW items \in Seq(Items), Consistent(items)
    PROVE  Tree(Described(items))
<1> DEFINE n == Len(items)
<1>1. n \in 0 .. Len(items)
  OBVIOUS
<1>2. Described(items) = TreeOf(items, n) /\ ConsistentTo(items, n)
  BY DescribedIsTree
<1>3. DOMAIN TreeOf(items, n) = PathsTo(items, n)
  BY <1>1, FilesOfTree
<1>4. <<>> \in PathsTo(items, n)
  BY DEF PathsTo
<1>5. /\ PathsTo(items, n) \subseteq Paths
      /\ \A q \in PathsTo(items, n) : Prefixes(q) \subseteq PathsTo(items, n)
  BY <1>1, PathsToChar
<1>6. \A q \in PathsTo(items, n) : TreeOf(items, n)[q] \in {"dir", "ok", "bad"}
  BY <1>1, FilesOfTree
<1>7. ASSUME NEW q \in PathsTo(items, n), NEW a \in Prefixes(q), a # q PROVE IsDir(TreeOf(items, n), a)
  <2>1. FilesAt(items, n, a) = {}
    BY <1>1, <1>2, <1>7, NoFileAbove
  <2>2. a \in PathsTo(items, n)
    BY <1>5
  <2>3. QED BY <1>1, <2>1, <2>2, FilesOfTree
<1>8. QED BY <1>2, <1>3, <1>4, <1>5, <1>6, <1>7 DEF Tree

LEMMA StartOfTheWay ==
    ASSUME NEW T, Tree(T)
    PROVE  OnTheWay(T, <<>>)
<1>1. \A p \in DOMAIN T : <<>> \in Prefixes(p)
  BY PrefixOfItself DEF Tree
<1>2. QED BY <1>1, RootPath DEF OnTheWay, Tree

LEMMA DownTheWay ==
    ASSUME NEW T, Tree(T), NEW a, OnTheWay(T, a), Append(a, "package.json") \notin DOMAIN T,
           NEW c, Children(T, a) = {c}
    PROVE  OnTheWay(T, c)
<1>1. c \in DOMAIN T /\ c # <<>> /\ Parent(c) = a /\ c \in Paths /\ a \in Paths
  BY DEF Children, Tree, OnTheWay
<1>2. Prefixes(c) = Prefixes(a) \union {c}
  BY <1>1, PrefixesOfParent
<1>3. \A q \in Prefixes(c) \ {c} :
         Append(q, "package.json") \notin DOMAIN T /\ \E d \in DOMAIN T : Children(T, q) = {d}
  BY <1>1, <1>2 DEF OnTheWay
<1>4. ASSUME NEW p \in DOMAIN T, BundleAt(T, p) PROVE c \in Prefixes(p)
  <2>1. a \in Prefixes(p) /\ p \in Paths /\ Prefixes(p) \subseteq DOMAIN T
    BY <1>4 DEF OnTheWay, Tree
  <2>2. a # p
    BY <1>4 DEF BundleAt, IsBundle, IsFile
  <2>3. PICK d \in Prefixes(p) : d # <<>> /\ Parent(d) = a
    BY <2>1, <2>2, NextOnTheWay
  <2>4. d \in Children(T, a)
    BY <2>1, <2>3 DEF Children
  <2>5. QED BY <2>3, <2>4
<1>5. QED BY <1>1, <1>3, <1>4 DEF OnTheWay

LEMMA BundleOnTheWay ==
    ASSUME NEW T, Tree(T), NEW a, OnTheWay(T, a), IsBundle(T, a)
    PROVE  \A p \in DOMAIN T : BundleAt(T, p) <=> p = a
<1>1. BundleAt(T, a)
  BY DEF OnTheWay, BundleAt
<1>2. ASSUME NEW p \in DOMAIN T, BundleAt(T, p) PROVE p = a
  <2>1. a \in Prefixes(p)
    BY <1>2 DEF OnTheWay
  <2>2. Append(a, "package.json") \in DOMAIN T
    BY DEF IsBundle, IsFile
  <2>3. QED BY <1>2, <2>1, <2>2 DEF BundleAt
<1>3. QED BY <1>1, <1>2

LEMMA NoBundleOnTheWay ==
    ASSUME NEW T, Tree(T), NEW a, OnTheWay(T, a),
           IF Append(a, "package.json") \in DOMAIN T THEN ~IsBundle(T, a)
           ELSE ~ \E c \in Children(T, a) : Children(T, a) = {c} /\ IsDir(T, c),
           NEW p \in DOMAIN T
    PROVE  ~BundleAt(T, p)
<1> SUFFICES ASSUME BundleAt(T, p) PROVE FALSE
  OBVIOUS
<1> DEFINE pkg == Append(p, "package.json")
<1>1. a \in Prefixes(p) /\ p \in Paths /\ Prefixes(p) \subseteq DOMAIN T
  BY DEF OnTheWay, Tree
<1>2. pkg \in DOMAIN T /\ IsBundle(T, p)
  BY DEF BundleAt, IsBundle, IsFile
<1>3. a # p
  BY <1>2
<1>4. Append(a, "package.json") \notin DOMAIN T
  BY <1>1, <1>3 DEF BundleAt
<1>5. PICK c \in DOMAIN T : Children(T, a) = {c}
  BY <1>1, <1>3 DEF BundleAt
<1>6. PICK d \in Prefixes(p) : d # <<>> /\ Parent(d) = a
  BY <1>1, <1>3, NextOnTheWay
<1>7. d \in Children(T, a)
  BY <1>1, <1>6 DEF Children
<1>8. IsDir(T, c)
  <2>1. pkg \in Paths /\ pkg # <<>> /\ Parent(pkg) = p
    BY <1>1, AppendedName, DiscoverAssumption
  <2> HIDE DEF pkg
  <2>2. Prefixes(pkg) = Prefixes(p) \union {pkg} /\ pkg \notin Prefixes(p)
    BY <2>1, PrefixesOfParent
  <2>3. QED BY <1>2, <1>5, <1>6, <1>7, <2>2 DEF Tree
<1>9. QED BY <1>4, <1>5, <1>8

-----------------------------------------------------------------------------
(* The invariant.                                                          *)

IsArchive(e) == e.kind \in {"zip", "tar"} /\ Unpackable(e)

(* As many of the archive's items as have been unpacked could be.          *)
UnpackInv ==
    LET items == Entry.items
        n == item - 1
    IN  /\ Entry.kind \in {"zip", "tar"} /\ Entry.opens
        /\ n \in 0 .. Len(items)
        /\ tree = TreeOf(items, n)
        /\ ConsistentTo(items, n)
        /\ Entry.kind = "tar" => OrderedTo(items, n) /\ Listed(items, n)

LoadInv ==
    /\ Entry.kind = "dir" \/ IsArchive(Entry)
    /\ tree = Described(Entry.items)
    /\ OnTheWay(tree, at)

StepInv ==
    /\ step # "entry" => next \in DOMAIN root
    /\ step = "entry" => tree = Empty
    /\ step = "unpack" => UnpackInv
    /\ step = "load" => LoadInv

TempsInv ==
    \A i \in DOMAIN root :
        /\ i < next \/ (i = next /\ step = "load") => (i \in temps <=> IsArchive(root[i]))
        /\ i = next /\ step = "unpack" => i \in temps
        /\ i > next \/ (i = next /\ step = "entry") => i \notin temps

ResultInv ==
    /\ \A k \in DOMAIN result :
          result[k][1] < next /\ Holds(root[result[k][1]], result[k][2])
    /\ \A i \in DOMAIN root : i < next =>
          \A p \in DOMAIN Described(root[i].items) :
              Holds(root[i], p) => \E k \in DOMAIN result : result[k] = <<i, p>>
    /\ \A k, l \in DOMAIN result : k < l => result[k][1] < result[l][1]

Inv == TypeOK /\ StepInv /\ TempsInv /\ ResultInv

LEMMA EntryType ==
    ASSUME TypeOK, next \in DOMAIN root
    PROVE  /\ Entry \in Entries
           /\ Entry.items \in Seq(Items)
           /\ Entry.kind \in {"dir", "zip", "tar", "other"}
           /\ Entry.kind = "dir" => Consistent(Entry.items)
           /\ next \in Nat /\ next <= Len(root) /\ Len(root) \in Nat
<1>1. root \in Roots /\ root \in Seq(Entries)
  BY DiscoverAssumption DEF TypeOK
<1>2. Entry \in Entries
  BY <1>1 DEF Entry
<1>3. Entry.kind = "dir" => Consistent(Entry.items)
  BY <1>1, DiscoverAssumption DEF Entry
<1>4. QED BY <1>1, <1>2, <1>3 DEF Entries

(* What is unpacked is a tree, at every step.                              *)
LEMMA TreeType ==
    ASSUME NEW items \in Seq(Items), NEW n \in 0 .. Len(items)
    PROVE  LET T == TreeOf(items, n)
           IN  DOMAIN T \subseteq Paths /\ \A p \in DOMAIN T : T[p] \in {"dir", "ok", "bad"}
BY FilesOfTree, PathsToChar

(* The loop is done with an entry: what it found and left is the entry's.  *)
LEMMA EntryDone ==
    ASSUME Inv, next \in DOMAIN root, NextEntry, root' = root,
           temps' \subseteq 1 .. Len(root),
           \A i \in DOMAIN root : i # next => (i \in temps' <=> i \in temps),
           next \in temps' <=> IsArchive(Entry),
           \/ /\ result' = result
              /\ \A p \in DOMAIN Described(Entry.items) : ~Holds(Entry, p)
           \/ \E q \in DOMAIN Described(Entry.items) :
              /\ result' = Append(result, <<next, q>>)
              /\ q \in Paths
              /\ \A p \in DOMAIN Described(Entry.items) : Holds(Entry, p) <=> p = q,
           at' = at, item' = item
    PROVE  Inv'
<1>1. /\ next' = next + 1 /\ step' = "entry" /\ tree' = Empty /\ next \in Nat /\ next \in 1 .. Len(root)
      /\ Len(root) \in Nat /\ \A i \in DOMAIN root : i \in Nat
      /\ \A i \in DOMAIN root : i < next' <=> i < next \/ i = next
      /\ \A i \in DOMAIN root : i > next' => i > next
  <2>1. root \in Seq(Entries)
    BY DiscoverAssumption DEF Inv, TypeOK
  <2>2. QED BY <2>1 DEF NextEntry
<1>2. result' \in Seq((1 .. Len(root)) \X Paths)
  <2>1. result \in Seq((1 .. Len(root)) \X Paths)
    BY DEF Inv, TypeOK
  <2>2. ASSUME NEW q \in Paths PROVE Append(result, <<next, q>>) \in Seq((1 .. Len(root)) \X Paths)
    BY <1>1, <2>1
  <2>3. QED BY <2>1, <2>2
<1>3. TypeOK'
  <2>1. DOMAIN Empty \subseteq Paths /\ \A p \in DOMAIN Empty : Empty[p] \in {"dir", "ok", "bad"}
    BY RootPath DEF Empty
  <2>2. next' \in 1 .. Len(root') + 1
    BY <1>1
  <2>3. QED BY <1>1, <1>2, <2>1, <2>2 DEF Inv, TypeOK
<1>4. StepInv'
  BY <1>1 DEF StepInv
<1>5. TempsInv'
  <2> SUFFICES ASSUME NEW i \in DOMAIN root
               PROVE  /\ i < next' => (i \in temps' <=> IsArchive(root[i]))
                      /\ i > next' \/ i = next' => i \notin temps'
    BY <1>1 DEF TempsInv, IsArchive
  <2>1. CASE i < next
    <3>1. i \in temps <=> IsArchive(root[i])
      BY <2>1 DEF Inv, TempsInv
    <3>2. QED BY <1>1, <2>1, <3>1
  <2>2. CASE i = next
    BY <1>1, <2>2 DEF Entry
  <2>3. CASE i > next
    <3>1. i \notin temps
      BY <2>3 DEF Inv, TempsInv
    <3>2. QED BY <1>1, <2>3, <3>1
  <2>4. QED BY <1>1, <2>1, <2>2, <2>3
<1>6. ResultInv'
  <2>0. /\ \A k \in DOMAIN result :
              /\ result[k] \in Nat \X Paths /\ result[k][1] \in Nat /\ result[k][1] < next
              /\ Holds(root[result[k][1]], result[k][2])
        /\ result \in Seq((1 .. Len(root)) \X Paths)
    BY DEF Inv, TypeOK, ResultInv
  <2>1. CASE /\ result' = result
             /\ \A p \in DOMAIN Described(Entry.items) : ~Holds(Entry, p)
    <3>1. \A k \in DOMAIN result' :
             result'[k][1] < next' /\ Holds(root'[result'[k][1]], result'[k][2])
      BY <1>1, <2>0, <2>1
    <3>2. ASSUME NEW i \in DOMAIN root, i < next', NEW p \in DOMAIN Described(root[i].items), Holds(root[i], p)
          PROVE  \E k \in DOMAIN result : result[k] = <<i, p>>
      BY <1>1, <2>1, <3>2 DEF Inv, ResultInv, Entry
    <3>3. QED
      <4>1. \A k, l \in DOMAIN result : k < l => result[k][1] < result[l][1]
        BY DEF Inv, ResultInv
      <4>2. QED BY <2>1, <3>1, <3>2, <4>1 DEF ResultInv
  <2>2. ASSUME NEW q \in DOMAIN Described(Entry.items), result' = Append(result, <<next, q>>),
               \A p \in DOMAIN Described(Entry.items) : Holds(Entry, p) <=> p = q
        PROVE  ResultInv'
    <3>1. /\ DOMAIN result' = DOMAIN result \union {Len(result) + 1}
          /\ \A k \in DOMAIN result : result'[k] = result[k] /\ k \in Nat /\ k < Len(result) + 1
          /\ result'[Len(result) + 1] = <<next, q>>
          /\ Len(result) \in Nat
      BY <2>0, <2>2
    <3>2. \A k \in DOMAIN result' :
             result'[k][1] < next' /\ Holds(root'[result'[k][1]], result'[k][2])
      <4>1. Holds(Entry, q)
        BY <2>2
      <4>2. QED BY <1>1, <2>0, <3>1, <4>1 DEF Entry
    <3>3. ASSUME NEW i \in DOMAIN root, i < next', NEW p \in DOMAIN Described(root[i].items), Holds(root[i], p)
          PROVE  \E k \in DOMAIN result' : result'[k] = <<i, p>>
      <4>1. CASE i < next
        <5>1. PICK k \in DOMAIN result : result[k] = <<i, p>>
          BY <3>3, <4>1 DEF Inv, ResultInv
        <5>2. QED BY <3>1, <5>1
      <4>2. CASE i = next
        <5>1. p = q
          BY <2>2, <3>3, <4>2 DEF Entry
        <5>2. QED BY <3>1, <4>2, <5>1
      <4>3. QED BY <1>1, <3>3, <4>1, <4>2
    <3>4. ASSUME NEW k \in DOMAIN result', NEW l \in DOMAIN result', k < l PROVE result'[k][1] < result'[l][1]
      <4>1. CASE l \in DOMAIN result
        <5>1. k \in DOMAIN result
          BY <3>1, <3>4, <4>1
        <5>2. QED BY <3>1, <3>4, <4>1, <5>1 DEF Inv, ResultInv
      <4>2. CASE l = Len(result) + 1
        <5>1. k \in DOMAIN result
          BY <3>1, <3>4, <4>2
        <5>2. QED BY <2>0, <3>1, <4>2, <5>1
      <4>3. QED BY <3>1, <4>1, <4>2
    <3>5. QED BY <3>2, <3>3, <3>4 DEF ResultInv
  <2>3. QED BY <2>1, <2>2
<1>7. QED BY <1>3, <1>4, <1>5, <1>6 DEF Inv

LEMMA InvInit == Init => Inv
<1> SUFFICES ASSUME Init PROVE Inv
  OBVIOUS
<1>1. root \in Seq(Entries)
  BY DiscoverAssumption DEF Init
<1>2. Len(root) \in Nat /\ \A i \in DOMAIN root : i \in Nat /\ i > 0
  BY <1>1
<1>3. TypeOK
  <2>1. DOMAIN Empty \subseteq Paths /\ \A p \in DOMAIN Empty : Empty[p] \in {"dir", "ok", "bad"}
    BY RootPath DEF Empty
  <2>2. <<>> \in Seq((1 .. Len(root)) \X Paths)
    OBVIOUS
  <2>3. QED BY <1>2, <2>1, <2>2, RootPath DEF Init, TypeOK
<1>4. StepInv
  BY DEF Init, StepInv
<1>5. TempsInv
  BY <1>2 DEF Init, TempsInv
<1>6. ResultInv
  BY <1>2 DEF Init, ResultInv
<1>7. QED BY <1>3, <1>4, <1>5, <1>6 DEF Inv

LEMMA NoHolds ==
    ASSUME NEW e \in Entries, e.kind # "dir", ~IsArchive(e)
    PROVE  \A p \in DOMAIN Described(e.items) : ~Holds(e, p)
BY DEF Holds, IsArchive

LEMMA InvSkip == Inv /\ Skip => Inv'
<1> SUFFICES ASSUME Inv, Skip PROVE Inv'
  OBVIOUS
<1>1. next \in DOMAIN root /\ root \in Seq(Entries) /\ TypeOK
  <2>1. root \in Seq(Entries) /\ next \in 1 .. Len(root) + 1 /\ next <= Len(root) /\ TypeOK
    BY DiscoverAssumption DEF Inv, TypeOK, Skip, Working
  <2>2. QED BY <2>1
<1>2. Entry \in Entries /\ Entry.kind # "dir" /\ ~IsArchive(Entry)
  BY <1>1, EntryType DEF Skip, IsArchive, Unpackable
<1>3. \A p \in DOMAIN Described(Entry.items) : ~Holds(Entry, p)
  BY <1>2, NoHolds
<1>4. next \notin temps
  BY <1>1 DEF Inv, TempsInv, Skip, Working
<1>5. temps' = temps /\ result' = result /\ root' = root /\ at' = at /\ item' = item /\ NextEntry
  BY DEF Skip
<1>6. temps' \subseteq 1 .. Len(root)
  BY <1>1, <1>5 DEF TypeOK
<1>7. QED BY <1>1, <1>2, <1>3, <1>4, <1>5, <1>6, EntryDone

LEMMA InvOpenDir == Inv /\ OpenDir => Inv'
<1> SUFFICES ASSUME Inv, OpenDir PROVE Inv'
  OBVIOUS
<1>1. next \in DOMAIN root /\ root \in Seq(Entries) /\ TypeOK
  <2>1. root \in Seq(Entries) /\ next \in 1 .. Len(root) + 1 /\ next <= Len(root) /\ TypeOK
    BY DiscoverAssumption DEF Inv, TypeOK, OpenDir, Working
  <2>2. QED BY <2>1
<1>2. /\ step = "entry" /\ step' = "load" /\ tree' = Described(Entry.items) /\ at' = <<>>
      /\ root' = root /\ next' = next /\ item' = item /\ temps' = temps /\ result' = result
      /\ Entry.kind = "dir"
  BY DEF OpenDir, Working
<1>3. Entry.items \in Seq(Items) /\ Consistent(Entry.items)
  BY <1>1, <1>2, EntryType
<1>4. Tree(Described(Entry.items))
  BY <1>3, DescribedTree
<1>5. TypeOK'
  BY <1>1, <1>2, <1>4, RootPath DEF TypeOK, Tree
<1>6. StepInv'
  <2>1. OnTheWay(tree', at')
    BY <1>2, <1>4, StartOfTheWay
  <2>2. Entry' = Entry
    BY <1>2 DEF Entry
  <2>3. LoadInv'
    BY <1>2, <2>1, <2>2 DEF LoadInv
  <2>4. QED BY <1>1, <1>2, <2>3 DEF StepInv
<1>7. TempsInv'
  <2>1. ~IsArchive(root[next])
    BY <1>2 DEF IsArchive, Entry
  <2>2. TempsInv
    BY DEF Inv
  <2>3. QED BY <1>1, <1>2, <2>1, <2>2 DEF TempsInv
<1>8. ResultInv'
  BY <1>2 DEF Inv, ResultInv
<1>9. QED BY <1>5, <1>6, <1>7, <1>8 DEF Inv

LEMMA InvOpenArchive == Inv /\ OpenArchive => Inv'
<1> SUFFICES ASSUME Inv, OpenArchive PROVE Inv'
  OBVIOUS
<1>1. next \in DOMAIN root /\ root \in Seq(Entries) /\ TypeOK
  <2>1. root \in Seq(Entries) /\ next \in 1 .. Len(root) + 1 /\ next <= Len(root) /\ TypeOK
    BY DiscoverAssumption DEF Inv, TypeOK, OpenArchive, Working
  <2>2. QED BY <2>1
<1>2. /\ step = "entry" /\ step' = "unpack" /\ tree' = tree /\ at' = at
      /\ root' = root /\ next' = next /\ item' = 1 /\ temps' = temps \union {next} /\ result' = result
      /\ Entry.kind \in {"zip", "tar"} /\ Entry.opens
      /\ tree = Empty
  BY DEF OpenArchive, Working, Inv, StepInv
<1>3. Entry.items \in Seq(Items)
  BY <1>1, EntryType
<1>5. TypeOK'
  <2>1. next \in 1 .. Len(root)
    BY <1>1
  <2>2. temps' \subseteq 1 .. Len(root')
    BY <1>1, <1>2, <2>1 DEF TypeOK
  <2>3. root' \in Roots /\ next' \in 1 .. Len(root') + 1 /\ step' \in {"entry", "unpack", "load"}
        /\ item' \in Nat /\ at' \in Paths /\ result' \in Seq((1 .. Len(root')) \X Paths)
    BY <1>1, <1>2 DEF TypeOK
  <2>4. DOMAIN tree' \subseteq Paths /\ \A p \in DOMAIN tree' : tree'[p] \in {"dir", "ok", "bad"}
    BY <1>1, <1>2 DEF TypeOK
  <2>5. QED BY <2>2, <2>3, <2>4 DEF TypeOK
<1>6. StepInv'
  <2>1. Entry' = Entry
    BY <1>2 DEF Entry
  <2>2. /\ TreeOf(Entry.items, 0) = Empty /\ ConsistentTo(Entry.items, 0)
        /\ OrderedTo(Entry.items, 0) /\ Listed(Entry.items, 0)
    BY NoItems
  <2>3. item' - 1 = 0 /\ 0 \in 0 .. Len(Entry.items)
    BY <1>2, <1>3
  <2>4. UnpackInv'
    BY <1>2, <2>1, <2>2, <2>3 DEF UnpackInv
  <2>5. QED BY <1>1, <1>2, <2>4 DEF StepInv
<1>7. TempsInv'
  <2>1. TempsInv
    BY DEF Inv
  <2>2. QED BY <1>1, <1>2, <2>1 DEF TempsInv
<1>8. ResultInv'
  BY <1>2 DEF Inv, ResultInv
<1>9. QED BY <1>5, <1>6, <1>7, <1>8 DEF Inv

(* Where unpacking goes on, it goes on with an item that is consistent.    *)
LEMMA UnpackAt ==
    ASSUME Inv, Working("unpack"), item <= Len(Entry.items)
    PROVE  LET items == Entry.items
           IN  /\ next \in DOMAIN root /\ TypeOK /\ root \in Seq(Entries) /\ UnpackInv
               /\ Entry \in Entries /\ items \in Seq(Items)
               /\ item - 1 \in 0 .. Len(items) - 1 /\ (item - 1) + 1 = item /\ item \in 0 .. Len(items)
               /\ (item + 1) - 1 = item
               /\ CanWrite(items[item]) <=>
                     ConsistentTo(items, item) /\ (Entry.kind = "tar" => OrderedTo(items, item))
<1> DEFINE items == Entry.items
<1>1. next \in DOMAIN root /\ TypeOK /\ root \in Seq(Entries) /\ UnpackInv
  BY DiscoverAssumption DEF Inv, StepInv, Working, TypeOK
<1>2. Entry \in Entries /\ items \in Seq(Items)
  BY <1>1, EntryType
<1>3. /\ item - 1 \in 0 .. Len(items) - 1 /\ (item - 1) + 1 = item /\ item \in 0 .. Len(items)
      /\ (item + 1) - 1 = item
  BY <1>1, <1>2 DEF UnpackInv, TypeOK
<1>4. CanWrite(items[item]) <=>
         ConsistentTo(items, item) /\ (Entry.kind = "tar" => OrderedTo(items, item))
  <2>1. /\ tree = TreeOf(items, item - 1) /\ ConsistentTo(items, item - 1)
        /\ Entry.kind \in {"zip", "tar"}
        /\ Entry.kind = "tar" => OrderedTo(items, item - 1) /\ Listed(items, item - 1)
    BY <1>1 DEF UnpackInv
  <2> DEFINE n == item - 1
  <2>2. n \in 0 .. Len(items) - 1 /\ n + 1 = item
    BY <1>3
  <2>3. tree = TreeOf(items, n) /\ ConsistentTo(items, n)
    BY <2>1
  <2>4. CASE Entry.kind = "zip"
    <3> HIDE DEF items, n
    <3>1. CanWrite(items[n + 1]) <=> ConsistentTo(items, n + 1)
      BY <1>2, <2>2, <2>3, <2>4, WritableZip
    <3>2. QED BY <2>2, <2>4, <3>1
  <2>5. CASE Entry.kind = "tar"
    <3>1. OrderedTo(items, n) /\ Listed(items, n)
      BY <2>1, <2>5
    <3> HIDE DEF items, n
    <3>2. CanWrite(items[n + 1]) <=> ConsistentTo(items, n + 1) /\ OrderedTo(items, n + 1)
      BY <1>2, <2>2, <2>3, <2>5, <3>1, WritableTar
    <3>3. QED BY <2>2, <2>5, <3>2
  <2>6. QED BY <2>1, <2>4, <2>5
<1>5. QED BY <1>1, <1>2, <1>3, <1>4

LEMMA InvUnpackItem == Inv /\ UnpackItem => Inv'
<1> SUFFICES ASSUME Inv, UnpackItem PROVE Inv'
  OBVIOUS
<1> DEFINE items == Entry.items
           n == item - 1
<1>1. /\ Working("unpack") /\ item <= Len(items) /\ CanWrite(items[item])
      /\ step = "unpack" /\ step' = "unpack" /\ tree' = Written(items[item]) /\ item' = item + 1
      /\ root' = root /\ next' = next /\ at' = at /\ temps' = temps /\ result' = result
  BY DEF UnpackItem, Item, Working
<1>2. /\ next \in DOMAIN root /\ TypeOK /\ root \in Seq(Entries) /\ UnpackInv
      /\ items \in Seq(Items) /\ item \in 0 .. Len(items) /\ n \in 0 .. Len(items) - 1 /\ n + 1 = item
      /\ (item + 1) - 1 = item /\ n \in 0 .. Len(items)
      /\ ConsistentTo(items, item) /\ (Entry.kind = "tar" => OrderedTo(items, item))
  BY <1>1, UnpackAt
<1>3. /\ tree = TreeOf(items, n) /\ ConsistentTo(items, n) /\ Entry.kind \in {"zip", "tar"} /\ Entry.opens
      /\ Entry.kind = "tar" => OrderedTo(items, n) /\ Listed(items, n)
  BY <1>2 DEF UnpackInv
<1>4. Entry' = Entry
  BY <1>1 DEF Entry
<1>5. tree' = TreeOf(items, item)
  <2> HIDE DEF items, n
  <2>1. Written(items[n + 1]) = TreeOf(items, n + 1)
    BY <1>2, <1>3, WrittenTree
  <2>2. QED BY <1>1, <1>2, <2>1
<1>6. Entry.kind = "tar" => Listed(items, item)
  <2> HIDE DEF items, n
  <2>1. Entry.kind = "tar" => Listed(items, n + 1)
    BY <1>2, <1>3, ListedNext
  <2>2. QED BY <1>2, <2>1
<1>7. TypeOK'
  <2>1. DOMAIN tree' \subseteq Paths /\ \A p \in DOMAIN tree' : tree'[p] \in {"dir", "ok", "bad"}
    <3> HIDE DEF items
    <3>1. QED BY <1>2, <1>5, TreeType
  <2>2. QED BY <1>1, <1>2, <2>1 DEF TypeOK
<1>8. UnpackInv'
  BY <1>1, <1>2, <1>3, <1>4, <1>5, <1>6 DEF UnpackInv
<1>9. StepInv'
  BY <1>1, <1>2, <1>8 DEF StepInv
<1>10. TempsInv'
  BY <1>1 DEF Inv, TempsInv
<1>11. ResultInv'
  BY <1>1 DEF Inv, ResultInv
<1>12. QED BY <1>7, <1>9, <1>10, <1>11 DEF Inv

LEMMA InvUnpackError == Inv /\ UnpackError => Inv'
<1> SUFFICES ASSUME Inv, UnpackError PROVE Inv'
  OBVIOUS
<1> DEFINE items == Entry.items
<1>1. /\ Working("unpack") /\ item <= Len(items) /\ ~CanWrite(items[item])
      /\ root' = root /\ at' = at /\ temps' = temps \ {next} /\ result' = result /\ item' = item
      /\ NextEntry
  BY DEF UnpackError, Item
<1>2. /\ next \in DOMAIN root /\ TypeOK /\ root \in Seq(Entries) /\ UnpackInv
      /\ Entry \in Entries /\ items \in Seq(Items) /\ item \in 0 .. Len(items)
      /\ ~(ConsistentTo(items, item) /\ (Entry.kind = "tar" => OrderedTo(items, item)))
  BY <1>1, UnpackAt
<1>3. Entry.kind # "dir"
  BY <1>2 DEF UnpackInv
<1>4. ~IsArchive(Entry)
  <2>1. ~(Consistent(items) /\ (Entry.kind = "tar" => Ordered(items)))
    <3> HIDE DEF items
    <3>1. QED BY <1>2, FirstItems
  <2>2. QED BY <2>1 DEF IsArchive, Unpackable
<1>5. \A p \in DOMAIN Described(Entry.items) : ~Holds(Entry, p)
  BY <1>2, <1>3, <1>4, NoHolds
<1>6. temps' \subseteq 1 .. Len(root) /\ next \notin temps' /\ \A i \in DOMAIN root : i # next => (i \in temps' <=> i \in temps)
  BY <1>1, <1>2 DEF TypeOK
<1>7. QED BY <1>1, <1>2, <1>4, <1>5, <1>6, EntryDone

LEMMA InvUnpacked == Inv /\ Unpacked => Inv'
<1> SUFFICES ASSUME Inv, Unpacked PROVE Inv'
  OBVIOUS
<1> DEFINE items == Entry.items
<1>1. /\ step = "unpack" /\ item > Len(items) /\ step' = "load" /\ at' = <<>>
      /\ root' = root /\ next' = next /\ item' = item /\ tree' = tree /\ temps' = temps /\ result' = result
  BY DEF Unpacked, Working
<1>2. next \in DOMAIN root /\ TypeOK /\ UnpackInv
  BY <1>1 DEF Inv, StepInv
<1>3. Entry \in Entries /\ items \in Seq(Items)
  BY <1>2, EntryType
<1>4. /\ item - 1 = Len(items) /\ Entry.kind \in {"zip", "tar"} /\ Entry.opens
      /\ tree = TreeOf(items, Len(items)) /\ ConsistentTo(items, Len(items))
      /\ Entry.kind = "tar" => OrderedTo(items, Len(items))
  <2>1. item - 1 \in 0 .. Len(items) /\ item \in Nat
    BY <1>2 DEF UnpackInv, TypeOK
  <2>2. item - 1 = Len(items)
    BY <1>1, <1>3, <2>1
  <2>3. QED BY <1>2, <2>2 DEF UnpackInv
<1>5. tree = Described(items) /\ Consistent(items) /\ (Entry.kind = "tar" => Ordered(items))
  BY <1>3, <1>4, DescribedIsTree
<1>6. IsArchive(Entry)
  BY <1>4, <1>5 DEF IsArchive, Unpackable
<1>7. OnTheWay(tree, <<>>)
  BY <1>3, <1>5, DescribedTree, StartOfTheWay
<1>8. Entry' = Entry
  BY <1>1 DEF Entry
<1>9. LoadInv'
  BY <1>1, <1>5, <1>6, <1>7, <1>8 DEF LoadInv
<1>10. TypeOK'
  BY <1>1, <1>2, RootPath DEF TypeOK
<1>11. StepInv'
  BY <1>1, <1>2, <1>9 DEF StepInv
<1>12. TempsInv'
  <2>1. TempsInv /\ IsArchive(root[next])
    BY <1>6 DEF Inv, Entry
  <2>2. QED BY <1>1, <1>2, <2>1 DEF TempsInv
<1>13. ResultInv'
  BY <1>1 DEF Inv, ResultInv
<1>14. QED BY <1>10, <1>11, <1>12, <1>13 DEF Inv

LEMMA LoadAt ==
    ASSUME Inv, Working("load")
    PROVE  /\ next \in DOMAIN root /\ TypeOK /\ root \in Seq(Entries) /\ step = "load" /\ LoadInv
           /\ Entry \in Entries
           /\ tree = Described(Entry.items) /\ Tree(tree) /\ OnTheWay(tree, at)
           /\ next \in temps <=> IsArchive(Entry)
           /\ \A p \in DOMAIN tree : Holds(Entry, p) <=> BundleAt(tree, p)
<1>1. next \in DOMAIN root /\ TypeOK /\ root \in Seq(Entries) /\ step = "load" /\ LoadInv
  BY DiscoverAssumption DEF Inv, StepInv, Working, TypeOK
<1>2. /\ Entry \in Entries /\ Entry.items \in Seq(Items)
      /\ Entry.kind = "dir" => Consistent(Entry.items)
  BY <1>1, EntryType
<1>3. tree = Described(Entry.items) /\ OnTheWay(tree, at) /\ (Entry.kind = "dir" \/ IsArchive(Entry))
  BY <1>1 DEF LoadInv
<1>4. Consistent(Entry.items)
  BY <1>2, <1>3 DEF IsArchive, Unpackable
<1>5. Tree(tree)
  BY <1>2, <1>3, <1>4, DescribedTree
<1>6. next \in temps <=> IsArchive(Entry)
  <2>1. TempsInv
    BY DEF Inv
  <2>2. QED BY <1>1, <2>1 DEF TempsInv, Entry
<1>7. \A p \in DOMAIN tree : Holds(Entry, p) <=> BundleAt(tree, p)
  BY <1>3 DEF Holds, IsArchive
<1>8. QED BY <1>1, <1>2, <1>3, <1>5, <1>6, <1>7

LEMMA InvLoadDown == Inv /\ LoadDown => Inv'
<1> SUFFICES ASSUME Inv, LoadDown PROVE Inv'
  OBVIOUS
<1>1. /\ Working("load") /\ Append(at, "package.json") \notin DOMAIN tree
      /\ root' = root /\ next' = next /\ step' = step /\ item' = item /\ tree' = tree
      /\ temps' = temps /\ result' = result
  BY DEF LoadDown, Package
<1>2. Children(tree, at) = {at'}
  BY DEF LoadDown
<1>3. /\ next \in DOMAIN root /\ TypeOK /\ step = "load" /\ LoadInv
      /\ Tree(tree) /\ OnTheWay(tree, at)
  BY <1>1, LoadAt
<1>4. OnTheWay(tree, at')
  BY <1>1, <1>2, <1>3, DownTheWay
<1>5. at' \in Paths
  BY <1>3, <1>4 DEF OnTheWay, Tree
<1>6. Entry' = Entry
  BY <1>1 DEF Entry
<1>7. LoadInv'
  BY <1>1, <1>3, <1>4, <1>6 DEF LoadInv
<1>8. TypeOK'
  BY <1>1, <1>3, <1>5 DEF TypeOK
<1>9. StepInv'
  BY <1>1, <1>3, <1>7 DEF StepInv
<1>10. TempsInv'
  BY <1>1 DEF Inv, TempsInv
<1>11. ResultInv'
  BY <1>1 DEF Inv, ResultInv
<1>12. QED BY <1>8, <1>9, <1>10, <1>11 DEF Inv

LEMMA InvLoadBundle == Inv /\ LoadBundle => Inv'
<1> SUFFICES ASSUME Inv, LoadBundle PROVE Inv'
  OBVIOUS
<1>1. /\ Working("load") /\ IsBundle(tree, at) /\ result' = Append(result, <<next, at>>) /\ NextEntry
      /\ root' = root /\ item' = item /\ at' = at /\ temps' = temps
  BY DEF LoadBundle
<1>2. /\ next \in DOMAIN root /\ TypeOK /\ root \in Seq(Entries)
      /\ tree = Described(Entry.items) /\ Tree(tree) /\ OnTheWay(tree, at)
      /\ next \in temps <=> IsArchive(Entry)
      /\ \A p \in DOMAIN tree : Holds(Entry, p) <=> BundleAt(tree, p)
  BY <1>1, LoadAt
<1>3. at \in DOMAIN tree /\ at \in Paths
  BY <1>2 DEF OnTheWay, TypeOK
<1>4. \A p \in DOMAIN tree : Holds(Entry, p) <=> p = at
  BY <1>1, <1>2, BundleOnTheWay
<1>5. \E q \in DOMAIN Described(Entry.items) :
         /\ result' = Append(result, <<next, q>>)
         /\ q \in Paths
         /\ \A p \in DOMAIN Described(Entry.items) : Holds(Entry, p) <=> p = q
  BY <1>1, <1>2, <1>3, <1>4
<1>6. temps' \subseteq 1 .. Len(root) /\ (next \in temps' <=> IsArchive(Entry))
  BY <1>1, <1>2 DEF TypeOK
<1>7. QED BY <1>1, <1>2, <1>5, <1>6, EntryDone

LEMMA InvLoadError == Inv /\ LoadError => Inv'
<1> SUFFICES ASSUME Inv, LoadError PROVE Inv'
  OBVIOUS
<1>1. /\ Working("load") /\ NextEntry
      /\ root' = root /\ item' = item /\ at' = at /\ temps' = temps /\ result' = result
      /\ IF Append(at, "package.json") \in DOMAIN tree THEN ~IsBundle(tree, at)
         ELSE ~ \E c \in Children(tree, at) : Children(tree, at) = {c} /\ IsDir(tree, c)
  BY DEF LoadError, Package
<1>2. /\ next \in DOMAIN root /\ TypeOK /\ root \in Seq(Entries)
      /\ tree = Described(Entry.items) /\ Tree(tree) /\ OnTheWay(tree, at)
      /\ next \in temps <=> IsArchive(Entry)
      /\ \A p \in DOMAIN tree : Holds(Entry, p) <=> BundleAt(tree, p)
  BY <1>1, LoadAt
<1>3. \A p \in DOMAIN tree : ~BundleAt(tree, p)
  BY <1>1, <1>2, NoBundleOnTheWay
<1>4. \A p \in DOMAIN Described(Entry.items) : ~Holds(Entry, p)
  BY <1>2, <1>3
<1>5. temps' \subseteq 1 .. Len(root) /\ (next \in temps' <=> IsArchive(Entry))
  BY <1>1, <1>2 DEF TypeOK
<1>6. QED BY <1>1, <1>2, <1>4, <1>5, EntryDone

LEMMA InvNext == Inv /\ [Next]_vars => Inv'
<1> SUFFICES ASSUME Inv, [Next]_vars PROVE Inv'
  OBVIOUS
<1>1. CASE Next
  BY <1>1, InvSkip, InvOpenDir, InvOpenArchive, InvUnpackItem, InvUnpackError, InvUnpacked,
     InvLoadDown, InvLoadBundle, InvLoadError DEF Next
<1>2. CASE UNCHANGED vars
  <2>1. /\ root' = root /\ next' = next /\ step' = step /\ item' = item /\ tree' = tree
        /\ at' = at /\ temps' = temps /\ result' = result
    BY <1>2 DEF vars
  <2>2. TypeOK'
    BY <2>1 DEF Inv, TypeOK
  <2>3. StepInv'
    BY <2>1 DEF Inv, StepInv, UnpackInv, LoadInv, Entry
  <2>4. TempsInv' /\ ResultInv'
    BY <2>1 DEF Inv, TempsInv, ResultInv
  <2>5. QED BY <2>2, <2>3, <2>4 DEF Inv
<1>3. QED BY <1>1, <1>2

LEMMA InvAlways == Spec => []Inv
BY InvInit, InvNext, PTL DEF Spec

-----------------------------------------------------------------------------
(* Every variable keeps its type (bundle.go:75-135).                       *)
THEOREM TypesHold == Spec => []TypeOK
<1>1. Inv => TypeOK
  BY DEF Inv
<1>2. QED BY <1>1, InvAlways, PTL

(* unpack.go:50-85 and 117-147: from an archive of any size, in either     *)
(* format, either exactly the files its items describe are unpacked - each *)
(* with the data of its last item - or nothing is loaded from it.          *)
THEOREM UnpackIsExact == Spec => []UnpackedExactly
<1>1. Inv => UnpackedExactly
  BY DEF Inv, StepInv, LoadInv, UnpackedExactly
<1>2. QED BY <1>1, InvAlways, PTL

(* unpack.go:80-83 and 138-144: what could not be unpacked as a whole has  *)
(* no temporary directory left, and nothing that was unpacked is removed.  *)
THEOREM NothingIsLeft == Spec => []NothingLeft
<1>1. Inv => NothingLeft
  <2> SUFFICES ASSUME Inv, NEW i \in DOMAIN root, i < next \/ (step = "load" /\ i = next)
               PROVE  i \in temps <=> root[i].kind \in {"zip", "tar"} /\ Unpackable(root[i])
    BY DEF NothingLeft
  <2>1. TempsInv
    BY DEF Inv
  <2>2. QED BY <2>1 DEF TempsInv, IsArchive
<1>2. QED BY <1>1, InvAlways, PTL

(* bundle.go:75-135 and 138-199: Discover returns the bundles, all of them *)
(* and nothing else, in the order of the root directory, whatever is wrong *)
(* with the entries between them and however deep a bundle lies.           *)
THEOREM AllBundlesFound == Spec => []BundlesFound
<1>1. Inv => BundlesFound
  <2> SUFFICES ASSUME Inv, next > Len(root)
               PROVE  /\ \A k \in DOMAIN result : Holds(root[result[k][1]], result[k][2])
                      /\ \A i \in DOMAIN root : \A p \in DOMAIN Described(root[i].items) :
                            Holds(root[i], p) => \E k \in DOMAIN result : result[k] = <<i, p>>
                      /\ \A k, l \in DOMAIN result : k < l => result[k][1] < result[l][1]
    BY DEF BundlesFound
  <2>1. ResultInv /\ root \in Seq(Entries) /\ next \in 1 .. Len(root) + 1
    BY DiscoverAssumption DEF Inv, TypeOK
  <2>2. \A i \in DOMAIN root : i < next
    BY <2>1
  <2>3. QED BY <2>1, <2>2 DEF ResultInv
<1>2. QED BY <1>1, InvAlways, PTL

=============================================================================
